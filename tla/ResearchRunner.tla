--------------------------- MODULE ResearchRunner ---------------------------
(***************************************************************************)
(* The owner of the deep-research child processes                          *)
(* (services/deep_research_process.py): admission to a bounded number of   *)
(* slots, one spawned process per run, the callbacks the process asks for, *)
(* its termination and that of its process group, and the close of the     *)
(* runner.  A run may be cancelled at every await, but for that of its     *)
(* cancelled callbacks; a process may crash, ignore SIGTERM, leave         *)
(* descendants, or be slow to die of SIGKILL.                              *)
(***************************************************************************)
EXTENDS Naturals, Sequences, FiniteSets

CONSTANTS Runs, Capacity,
          MaxCalls         \* bound: the callbacks one process asks for

ASSUME RunnerAssumption == IsFiniteSet(Runs) /\ Runs # {} /\ Capacity \in Nat \ {0} /\ MaxCalls \in Nat

VARIABLE rr    \* state, free, close: the runner; run: the calls of run(); proc: their processes

NoProcess == [st |-> "none", sig |-> "none", group |-> FALSE, groupsig |-> "none", pipe |-> << >>, asked |-> 0]
NewRun == [pc |-> "new", slot |-> FALSE, reg |-> FALSE, owned |-> FALSE, ready |-> FALSE, handling |-> 0, unwinding |-> 0,
           clean |-> "none", pg |-> FALSE, out |-> "none"]

RRInit == rr = [state |-> "running", free |-> Capacity, close |-> "none", snapshot |-> {},
                run |-> [r \in Runs |-> NewRun], proc |-> [r \in Runs |-> NoProcess]]

\* SIGTERM and SIGKILL, to the group once the child said it is ready.
Signal(p, ready, sig) ==
  IF ready THEN [p EXCEPT !.sig = IF p.st = "dead" THEN @ ELSE sig, !.groupsig = IF p.group THEN sig ELSE @]
  ELSE [p EXCEPT !.sig = IF p.st = "dead" THEN @ ELSE sig]

\* _ChildOwner.finish: the first caller starts the one cleanup of the process.
Finish(c, r) == IF c.run[r].clean # "none" THEN c
                ELSE [c EXCEPT !.run[r].clean = "term", !.run[r].pg = c.run[r].ready,
                               !.proc[r] = Signal(@, c.run[r].ready, "term")]

\* run() ends with an outcome: through the cleanup when there is a process.
Leave(c, r, out) == IF c.run[r].owned THEN [Finish(c, r) EXCEPT !.run[r].pc = "finish", !.run[r].out = out]
                   ELSE [c EXCEPT !.run[r].pc = "final", !.run[r].out = out]
\* _serve_job_callbacks ends: its callbacks are cancelled and awaited first.
EndServe(c, r, out) ==
  IF c.run[r].handling = 0 THEN Leave(c, r, out)
  ELSE [c EXCEPT !.run[r].pc = "unwind", !.run[r].out = out, !.run[r].unwinding = c.run[r].handling, !.run[r].handling = 0]

-----------------------------------------------------------------------------
(* Admission.                                                              *)

Register(r) ==
  /\ rr.run[r].pc = "new"
  /\ rr' = IF rr.state # "running" THEN [rr EXCEPT !.run[r].pc = "over", !.run[r].out = "closed"]
           ELSE [rr EXCEPT !.run[r].pc = "admit", !.run[r].reg = TRUE]

\* _acquire_slot: the semaphore, the close and the timeout race.
GrantSlot(r) == rr.run[r].pc = "admit" /\ rr.free > 0 /\ rr' = [rr EXCEPT !.free = @ - 1, !.run[r].pc = "granted"]
RefuseSlot(r) ==
  /\ rr.run[r].pc = "admit"
  /\ \E out \in {"timeout"} \cup (IF rr.state # "running" THEN {"closed"} ELSE {}) : rr' = Leave(rr, r, out)
AcquireSlot(r) ==
  /\ rr.run[r].pc = "granted"
  /\ rr' = IF rr.state # "running" THEN Leave([rr EXCEPT !.free = @ + 1], r, "closed")
           ELSE [rr EXCEPT !.run[r].pc = "admitted"]
ResumeAdmitted(r) == rr.run[r].pc = "admitted" /\ rr' = [rr EXCEPT !.run[r].pc = "slot", !.run[r].slot = TRUE]

SpawnOwner(r) ==
  /\ rr.run[r].pc = "slot"
  /\ \/ rr.state # "running" /\ rr' = Leave(rr, r, "closed")
     \/ rr.state = "running" /\ rr' = Leave(rr, r, "error")                   \* spawn_failed
     \/ rr.state = "running" /\ rr' = [rr EXCEPT !.run[r].pc = "boot", !.run[r].owned = TRUE, !.proc[r].st = "boot"]

-----------------------------------------------------------------------------
(* The process: child_main and the adapter it runs.                        *)

Alive(p) == p.st \in {"boot", "ready", "job"}
Free(p) == Alive(p) /\ (p.sig = "none" \/ (p.sig = "term" /\ p.st = "job"))      \* a job may ignore SIGTERM
Say(c, r, frame) == [c EXCEPT !.proc[r].pipe = Append(@, frame)]
Die(c, r) == [c EXCEPT !.proc[r].st = "dead", !.proc[r].sig = "none", !.proc[r].asked = 0]

ChildReady(r) == Free(rr.proc[r]) /\ rr.proc[r].st = "boot" /\ rr' = Say([rr EXCEPT !.proc[r].st = "ready"], r, "ready")
ChildCalls(r) ==
  LET p == rr.proc[r] IN
  /\ Free(p) /\ p.st = "job" /\ p.asked < MaxCalls /\ Len(p.pipe) < 2
  /\ rr' = Say([rr EXCEPT !.proc[r].asked = @ + 1], r, "call")
ChildForks(r) == Free(rr.proc[r]) /\ rr.proc[r].st = "job" /\ ~rr.proc[r].group /\ rr' = [rr EXCEPT !.proc[r].group = TRUE]
ChildEnds(r) ==
  LET p == rr.proc[r] IN
  /\ Free(p)
  /\ \E frame \in IF p.st = "job" THEN {"result", "error"} ELSE IF p.st = "ready" THEN {"error"} ELSE {} : rr' = Die(Say(rr, r, frame), r)
ChildCrashes(r) == Free(rr.proc[r]) /\ rr' = Die(rr, r)
\* the system
ChildKilled(r) == Alive(rr.proc[r]) /\ rr.proc[r].sig # "none" /\ rr' = Die(rr, r)
GroupKilled(r) == rr.proc[r].group /\ rr.proc[r].groupsig # "none" /\ rr' = [rr EXCEPT !.proc[r].group = FALSE]
\* a descendant that joined the group after its signal, or ends by itself
GroupEnds(r) == rr.proc[r].group /\ rr' = [rr EXCEPT !.proc[r].group = FALSE]

-----------------------------------------------------------------------------
(* The run and its process.                                                *)

Eof(p) == p.st = "dead" /\ p.pipe = << >>
Open(u) == u.clean \notin {"closed", "failed"}                  \* the parent's socket

\* The ready frame within its timeout, then the job is sent.
Bootstrap(r) ==
  LET u == rr.run[r]
      p == rr.proc[r]
      rest == [rr EXCEPT !.proc[r].pipe = Tail(@)] IN
  /\ u.pc = "boot"
  /\ \/ rr' = Leave(rr, r, "error")                                                  \* timeout, EOF or a bad frame
     \/ /\ Open(u) /\ p.pipe # << >>
        /\ \/ Head(p.pipe) # "ready" /\ rr' = Leave(rest, r, "error")
           \/ /\ Head(p.pipe) = "ready" /\ p.st = "ready"
              /\ rr' = [rest EXCEPT !.run[r].ready = TRUE, !.run[r].pc = "serve", !.proc[r].st = IF p.sig = "none" THEN "job" ELSE @]
           \/ /\ Head(p.pipe) = "ready" /\ p.st = "dead"                             \* the send fails, or not yet
              /\ \/ rr' = Leave([rest EXCEPT !.run[r].ready = TRUE], r, "error")
                 \/ rr' = [rest EXCEPT !.run[r].ready = TRUE, !.run[r].pc = "serve"]

\* One turn of _serve_job_callbacks for what the process says.
Serve(r) ==
  LET u == rr.run[r]
      p == rr.proc[r]
      rest == [rr EXCEPT !.proc[r].pipe = Tail(@)] IN
  /\ u.pc = "serve"
  /\ \/ ((Open(u) /\ Eof(p)) \/ u.clean = "closed") /\ rr' = EndServe(rr, r, "error")
     \/ /\ Open(u) /\ p.pipe # << >>
        /\ rr' = CASE Head(p.pipe) = "call" -> [rest EXCEPT !.run[r].handling = @ + 1]
                   [] Head(p.pipe) # "call" /\ u.handling > 0 -> EndServe(rest, r, "error")    \* before the drain
                   [] OTHER -> Leave(rest, r, Head(p.pipe))

\* _handle_callback_request: its answer, or its failure, is sent.  The send
\* fails when the process is gone, and the run with it.
AnswerCallback(r) ==
  LET u == rr.run[r] IN
  /\ u.pc = "serve" /\ u.handling > 0
  /\ \/ rr' = [rr EXCEPT !.run[r].handling = @ - 1]
     \/ /\ ~Open(u) \/ rr.proc[r].st = "dead"
        /\ rr' = EndServe([rr EXCEPT !.run[r].handling = @ - 1], r, "error")
CallbackCancelled(r) ==
  LET u == rr.run[r] IN
  /\ u.pc = "unwind" /\ u.unwinding > 0
  /\ rr' = IF u.unwinding > 1 THEN [rr EXCEPT !.run[r].unwinding = @ - 1]
           ELSE Leave([rr EXCEPT !.run[r].unwinding = 0], r, u.out)

\* Cancellation of the request that awaits run().
CancelRun(r) ==
  LET u == rr.run[r] IN
  \/ u.pc = "admit" /\ rr' = Leave(rr, r, "cancelled")
  \/ u.pc \in {"granted", "admitted"} /\ rr' = Leave([rr EXCEPT !.free = @ + 1], r, "cancelled")
  \/ u.pc = "boot" /\ rr' = Leave(rr, r, "cancelled")
  \/ u.pc = "serve" /\ rr' = EndServe(rr, r, "cancelled")

-----------------------------------------------------------------------------
(* _finish_child.                                                          *)

\* mutant: only the process itself is waited for
ReapLeader(r) ==
  LET u == rr.run[r] IN
  /\ u.clean \in {"term", "kill"} /\ rr.proc[r].st = "dead"
  /\ rr' = [rr EXCEPT !.run[r].clean = "closed"]

\* The process is gone: the group, if it has one, is drained next.
Reap(r) ==
  LET u == rr.run[r] IN
  /\ u.clean \in {"term", "kill"} /\ rr.proc[r].st = "dead"
  /\ rr' = [rr EXCEPT !.run[r].clean = IF u.pg THEN "group" ELSE "closed"]
\* mutant: after SIGKILL there is no second timeout
ReapPatiently(r) ==
  LET u == rr.run[r] IN
  /\ Alive(rr.proc[r]) /\ u.clean = "term"
  /\ rr' = [rr EXCEPT !.run[r].clean = "kill", !.proc[r] = Signal(@, u.ready, "kill")]

\* After the grace period: SIGKILL, then reap_timeout.
ReapTimeout(r) ==
  LET u == rr.run[r] IN
  /\ Alive(rr.proc[r])
  /\ \/ u.clean = "term" /\ rr' = [rr EXCEPT !.run[r].clean = "kill", !.proc[r] = Signal(@, u.ready, "kill")]
     \/ u.clean = "kill" /\ rr' = [rr EXCEPT !.run[r].clean = "failed"]
\* _drain_process_group
DrainGroup(r) ==
  LET u == rr.run[r]
      p == rr.proc[r] IN
  \/ u.clean \in {"group", "groupkill"} /\ ~p.group /\ rr' = [rr EXCEPT !.run[r].clean = "closed"]
  \/ u.clean = "group" /\ p.group /\ rr' = [rr EXCEPT !.run[r].clean = "groupkill", !.proc[r].groupsig = "kill"]
  \/ u.clean = "groupkill" /\ p.group /\ rr' = [rr EXCEPT !.run[r].clean = "failed"]

\* run() goes on when the cleanup is over, however it ended.
Finished(r) ==
  /\ rr.run[r].pc = "finish" /\ ~Open(rr.run[r])
  /\ rr' = [rr EXCEPT !.run[r].pc = "final"]
\* the finally of run()
EndRun(r) ==
  LET u == rr.run[r] IN
  /\ u.pc = "final"
  /\ rr' = [rr EXCEPT !.free = IF u.slot THEN @ + 1 ELSE @, !.proc[r].pipe = << >>,
                      !.run[r] = [NewRun EXCEPT !.pc = "over", !.out = u.out, !.clean = u.clean, !.handling = u.handling]]

-----------------------------------------------------------------------------
(* aclose().                                                               *)

Owned == {r \in Runs : rr.run[r].owned}
StartClose ==
  LET Closing(r) == IF r \in Owned THEN Finish(rr, r) ELSE rr IN
  /\ rr.state = "running"
  /\ rr' = [state |-> "closing", free |-> rr.free, close |-> "owners", snapshot |-> Owned,
            run |-> [r \in Runs |-> Closing(r).run[r]], proc |-> [r \in Runs |-> Closing(r).proc[r]]]
\* _finish_close: all cleanups, then all runs.
CloseOwners == rr.close = "owners" /\ (\A r \in rr.snapshot : ~Open(rr.run[r])) /\ rr' = [rr EXCEPT !.close = "drain"]
CloseDrained ==
  /\ rr.close = "drain" /\ \A r \in Runs : ~rr.run[r].reg
  /\ rr' = [rr EXCEPT !.close = "done", !.state = "closed"]

RunStep(r) ==
  \/ Register(r) \/ AcquireSlot(r) \/ ResumeAdmitted(r) \/ SpawnOwner(r) \/ Serve(r) \/ AnswerCallback(r)
  \/ CallbackCancelled(r) \/ Reap(r) \/ ReapTimeout(r) \/ DrainGroup(r) \/ Finished(r) \/ EndRun(r)
RRNext == \/ \E r \in Runs : RunStep(r) \/ GrantSlot(r) \/ RefuseSlot(r) \/ Bootstrap(r) \/ CancelRun(r) \/ ChildReady(r) \/ ChildCalls(r)
                             \/ ChildForks(r) \/ ChildEnds(r) \/ ChildCrashes(r) \/ ChildKilled(r) \/ GroupKilled(r) \/ GroupEnds(r)
          \/ StartClose \/ CloseOwners \/ CloseDrained
RRSpec == RRInit /\ [][RRNext]_rr

-----------------------------------------------------------------------------
\* Every slot is free or with a run that is not over.  A run that is over left
\* no process and no descendant of it that was not sent a SIGKILL, and its
\* report was taken with no callback still at work.  A closed runner has no run
\* and never gets a process again.
NothingOutlivesItsRun ==
  LET Holds(r) == rr.run[r].slot \/ rr.run[r].pc \in {"granted", "admitted"} IN
  /\ rr.free + Cardinality({r \in Runs : Holds(r)}) = Capacity
  /\ \A r \in Runs : LET u == rr.run[r] IN
       /\ u.pc = "over" => /\ Alive(rr.proc[r]) => rr.proc[r].sig = "kill"
                           /\ rr.proc[r].group => rr.proc[r].groupsig = "kill"
                           /\ u.handling = 0
       /\ rr.state = "closed" => u.pc \in {"new", "over"}
       /\ rr.close \in {"drain", "done"} /\ Alive(rr.proc[r]) => rr.proc[r].sig = "kill"

\* A close that has not ended, though no process of a run refuses to die of
\* SIGKILL while the run still reads from it.
RunnerPending == /\ rr.state = "closing"
                 /\ \A r \in Runs : ~(rr.run[r].clean = "failed" /\ rr.run[r].pc = "serve")
=============================================================================
