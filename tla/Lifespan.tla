------------------------------ MODULE Lifespan ------------------------------
(***************************************************************************)
(* The life of the gateway's processes (main.py) over one state directory: *)
(* the single-process lease (services/single_process.py) and its lock      *)
(* file, the session secret, the resources of lifespan() and the stack     *)
(* that closes them, the supervised background tasks                       *)
(* (services/task_supervisor.py) and the phase of services/health.py.  A   *)
(* startup may raise or be cancelled at every step, a cleanup may raise,   *)
(* the shutdown may be cancelled, a process may be killed.                 *)
(***************************************************************************)
EXTENDS Naturals, Sequences, FiniteSets, FiniteSetsExt, SequencesExt

CONSTANTS Lifespans, ProcessOf,    \* the lifespans, and the process each runs in
          MaxInodes, MaxChmods     \* bounds: lock files made; modes changed by an operator

ASSUME LifespanAssumption ==
  /\ Lifespans # {} /\ "none" \notin Lifespans /\ ProcessOf \in [Lifespans -> Range(ProcessOf)]
  /\ MaxInodes \in Nat \ {0} /\ MaxChmods \in Nat

VARIABLE lf    \* name, inode, secret, issued, chmods: the state directory; cached: per process; span: the lifespans

NoInode == 0

(* The steps of lifespan() after the lease, in order.  A step may push     *)
(* cleanups before it opens its resource or after it, or push none.        *)
Steps == << "images", "http", "batcher", "accounting", "runtime", "models", "evals", "supervisor",
            "coordinator", "verify", "tasks", "runner" >>
PushesFirst == {"batcher", "accounting", "runtime", "models"}      \* these then await a start that may raise
OpensNothing == {"images", "verify", "tasks"}
Pushed(step) == CASE step \in OpensNothing -> << >>
                  [] step = "supervisor" -> << "drained", "supervisor", "capacity" >>
                  [] step = "runner" -> << "state", "runner" >>
                  [] OTHER -> << step >>
Opened(step) == Range(Pushed(step)) \ {"drained"}

\* A cleanup, or what runs until it, may need what these provide.
Uses(r) == CASE r = "supervisor" -> {"http", "accounting", "runtime", "models", "coordinator"}        \* its tasks
             [] r = "models" -> {"http", "runtime"} [] r = "evals" -> {"http", "runtime"}
             [] r = "runtime" -> {"http"} [] r = "coordinator" -> {"runtime", "http"}
             [] r = "runner" -> {"accounting", "runtime", "http"}
             [] r = "state" -> {"accounting", "batcher", "runtime", "supervisor", "capacity", "coordinator"}
             [] OTHER -> {}
\* Closed before its last user: the coordinator, which answers that with UPDATE_UNAVAILABLE.
Refusing == {"coordinator"}

NewSpan == [pc |-> "new", fd |-> NoInode, step |-> 1, stack |-> << >>, open |-> {}, closed |-> << >>,
            lease |-> FALSE, health |-> "none", worker |-> "none", update |-> FALSE, cancelled |-> FALSE,
            debt |-> FALSE, failed |-> FALSE, over |-> "no"]
            \* closed: what was closed so far; update: one of the autofill task is in the coordinator; over: how it ended

LFInit ==
  lf = [name |-> NoInode,
        inode |-> [i \in 1..MaxInodes |-> [made |-> FALSE, safe |-> TRUE, linked |-> FALSE, holder |-> "none"]],
        secret |-> 0, issued |-> 0, chmods |-> 0,
        cached |-> [p \in Range(ProcessOf) |-> 0],
        span |-> [l \in Lifespans |-> NewSpan]]

Raise(c, l) == [c EXCEPT !.span[l].pc = "draining", !.span[l].failed = TRUE,
                         !.span[l].health = IF @ = "none" THEN @ ELSE "failed"]
Close(c, l) == [c EXCEPT !.inode = [i \in 1..MaxInodes |-> [c.inode[i] EXCEPT !.holder = IF @ = l THEN "none" ELSE @]],
                         !.span[l].fd = NoInode]
Refuse(c, l) == Raise(Close(c, l), l)

-----------------------------------------------------------------------------
(* SingleProcessLease.acquire, between two of its system calls.            *)

\* _claim_lifespan_owner: one lifespan at a time in a process.
ClaimOwner(l) ==
  /\ lf.span[l].pc = "new"
  /\ LET busy == \E m \in Lifespans \ {l} : ProcessOf[m] = ProcessOf[l] /\ lf.span[m].pc \notin {"new", "over"} IN
     lf' = [lf EXCEPT !.span[l].pc = IF busy THEN "over" ELSE "open", !.span[l].over = IF busy THEN "refused" ELSE @]

\* O_CREAT: the named file, or a new one with the right mode.
OpenLockFile(l) ==
  LET fresh == {i \in 1..MaxInodes : ~lf.inode[i].made} IN
  /\ lf.span[l].pc \in {"open", "reopen"}
  /\ \/ lf.name # NoInode /\ lf' = [lf EXCEPT !.span[l].fd = lf.name, !.span[l].pc = IF @ = "open" THEN "check" ELSE "validate"]
     \/ \E i \in fresh :
        /\ lf.name = NoInode /\ \A j \in fresh : i <= j
        /\ lf' = [lf EXCEPT !.name = i, !.inode[i] = [@ EXCEPT !.made = TRUE, !.linked = TRUE], !.span[l].fd = i,
                            !.span[l].pc = IF @ = "open" THEN "check" ELSE "validate"]

\* _lock_file_needs_mode_repair
CheckMode(l) ==
  LET f == lf.inode[lf.span[l].fd] IN
  /\ lf.span[l].pc = "check"
  /\ lf' = [lf EXCEPT !.span[l].pc = IF ~f.safe /\ f.linked THEN "lock_unsafe" ELSE "validate"]
ValidateLockFile(l) ==
  LET f == lf.inode[lf.span[l].fd] IN
  /\ lf.span[l].pc = "validate"
  /\ lf' = IF f.safe /\ f.linked THEN [lf EXCEPT !.span[l].pc = "lock"] ELSE Refuse(lf, l)
\* flock, without waiting
AcquireDescriptorLock(l) ==
  LET s == lf.span[l] IN
  /\ s.pc \in {"lock", "lock_unsafe"}
  /\ lf' = IF lf.inode[s.fd].holder # "none" THEN Refuse(lf, l)
           ELSE [lf EXCEPT !.inode[s.fd].holder = l, !.span[l].pc = IF @ = "lock" THEN "named" ELSE "replace"]

\* mutant: the name is removed without looking what it names by now
ReplaceBlindly(l) ==
  /\ lf.span[l].pc = "replace"
  /\ lf' = [lf EXCEPT !.inode = [i \in 1..MaxInodes |-> [lf.inode[i] EXCEPT !.linked = @ /\ i # lf.name]],
                      !.name = NoInode, !.span[l].pc = "release"]

\* The name still belongs to the locked file: it is removed.
ReplaceUnsafeLockFile(l) ==
  LET s == lf.span[l] IN
  /\ s.pc = "replace"
  /\ lf' = IF lf.name # s.fd THEN Refuse(lf, l)
           ELSE [lf EXCEPT !.inode[s.fd].linked = FALSE, !.name = NoInode, !.span[l].pc = "release"]
ReleaseReplaced(l) ==
  /\ lf.span[l].pc = "release"
  /\ lf' = [Close(lf, l) EXCEPT !.span[l].pc = "reopen"]

\* _validate_named_lock, and the lease is there.
ValidateNamedLock(l) ==
  LET s == lf.span[l]
      f == lf.inode[s.fd] IN
  /\ s.pc = "named"
  /\ lf' = IF lf.name = s.fd /\ f.safe /\ f.linked
           THEN [lf EXCEPT !.span[l].pc = "secret", !.span[l].lease = TRUE, !.span[l].stack = << "lease" >>, !.span[l].open = {"lease"}]
           ELSE Refuse(lf, l)

\* get_session_secret: once per process, read or issued.
LoadSecret(l) ==
  LET p == ProcessOf[l] IN
  /\ lf.span[l].pc = "secret"
  /\ \/ lf.cached[p] # 0 /\ lf' = [lf EXCEPT !.span[l].pc = "steps"]
     \/ lf.cached[p] = 0 /\ lf.secret # 0 /\ lf' = [lf EXCEPT !.cached[p] = lf.secret, !.span[l].pc = "steps"]
     \/ /\ lf.cached[p] = 0 /\ lf.secret = 0
        /\ \/ lf' = [lf EXCEPT !.issued = @ + 1, !.secret = lf.issued + 1, !.cached[p] = lf.issued + 1, !.span[l].pc = "steps"]
           \/ lf' = Raise(lf, l)                          \* it could not be written

-----------------------------------------------------------------------------
\* One step of the startup.  It may raise, before or after its resource is there.
Start(c, l, step) ==
  [c EXCEPT !.span[l].stack = @ \o Pushed(step), !.span[l].open = @ \cup Opened(step),
            !.span[l].health = IF step = "coordinator" THEN "starting" ELSE @,
            !.span[l].worker = IF step = "tasks" THEN "idle" ELSE @]
StartupStep(l) ==
  LET s == lf.span[l]
      step == Steps[s.step] IN
  /\ s.pc = "steps"
  /\ \/ /\ s.step < Len(Steps)
        /\ lf' = [Start(lf, l, step) EXCEPT !.span[l].step = @ + 1]
     \/ /\ s.step = Len(Steps)                            \* mark_ready and yield
        /\ lf' = [Start(lf, l, step) EXCEPT !.span[l].pc = "running", !.span[l].health = "ready"]
     \/ lf' = Raise(lf, l)                                \* nothing was made; a runner that was is closed at once
     \/ step \in PushesFirst /\ lf' = Raise(Start(lf, l, step), l)

\* The loops of the supervisor: a blocking worker runs in a thread.
StartWorker(l) == lf.span[l].worker = "idle" /\ lf.span[l].pc \in {"steps", "running"} /\ lf' = [lf EXCEPT !.span[l].worker = "thread"]
\* run_cancellation_resistant_thread_worker: only its own end ends it.
EndWorker(l) ==
  /\ lf.span[l].worker \in {"thread", "ending"}
  /\ lf' = [lf EXCEPT !.span[l].worker = IF @ = "ending" THEN "none" ELSE "idle"]

\* materialize: the capability autofill task saves the rules through the coordinator, which admits it while it is open.
BeginUpdate(l) ==
  LET s == lf.span[l] IN
  /\ s.worker # "none" /\ {"supervisor", "coordinator"} \subseteq s.open /\ ~s.update
  /\ lf' = [lf EXCEPT !.span[l].update = TRUE]
EndUpdate(l) == lf.span[l].update /\ lf' = [lf EXCEPT !.span[l].update = FALSE]

\* The server stops, or something is raised into the lifespan.
Shutdown(l) ==
  /\ lf.span[l].pc = "running"
  /\ \/ lf' = [lf EXCEPT !.span[l].pc = "draining", !.span[l].health = "stopping"]
     \/ lf' = Raise(lf, l)

-----------------------------------------------------------------------------
\* _drain_resource_stack: every cleanup, the last one first.  What a cleanup
\* raises is logged; only the accounting's goes on to the caller.
CloseTop(l, r, ok) ==
  LET s == lf.span[l]
      c == [lf EXCEPT !.span[l].stack = Front(@), !.span[l].open = @ \ {r}, !.span[l].closed = Append(@, r)] IN
  CASE r = "lease" -> [Close(c, l) EXCEPT !.span[l].lease = FALSE]
    [] r = "accounting" -> [c EXCEPT !.span[l].debt = ~ok]
    [] r = "supervisor" -> [c EXCEPT !.span[l].worker = "none"]
    [] OTHER -> c

\* mutant: a task in a thread is left behind
DrainImpatient(l) ==
  LET s == lf.span[l] IN
  /\ s.pc = "draining" /\ s.stack # << >>
  /\ \E ok \in BOOLEAN : lf' = [CloseTop(l, Last(s.stack), ok) EXCEPT !.span[l].worker = s.worker]

\* mutant: the coordinator does not wait for the updates it admitted
DrainAbruptly(l) ==
  LET s == lf.span[l] IN
  /\ s.pc = "draining" /\ s.stack # << >>
  /\ Last(s.stack) = "supervisor" => s.worker \in {"none", "idle"}
  /\ \E ok \in BOOLEAN : lf' = CloseTop(l, Last(s.stack), ok)

\* The supervisor's close cancels its tasks and waits for them, the coordinator's
\* waits for the updates it has admitted.
DrainStep(l) ==
  LET s == lf.span[l] IN
  /\ s.pc = "draining" /\ s.stack # << >> /\ (Last(s.stack) = "coordinator" => ~s.update)
  /\ \/ Last(s.stack) = "supervisor" /\ s.worker = "thread" /\ lf' = [lf EXCEPT !.span[l].worker = "ending"]
     \/ /\ Last(s.stack) = "supervisor" => s.worker \in {"none", "idle"}
        /\ \E ok \in BOOLEAN : lf' = CloseTop(l, Last(s.stack), ok)

\* A cancellation of the drain is kept until it is done.
CancelDrain(l) ==
  /\ lf.span[l].pc = "draining" /\ ~lf.span[l].cancelled
  /\ lf' = [lf EXCEPT !.span[l].cancelled = TRUE]

\* The end of lifespan(): a startup that failed raises what failed, a shutdown
\* raises what its drain raised.
EndLifespan(l) ==
  LET s == lf.span[l] IN
  /\ s.pc = "draining" /\ s.stack = << >>
  /\ lf' = [lf EXCEPT !.span[l] = [NewSpan EXCEPT !.pc = "over", !.open = s.open, !.lease = s.lease, !.worker = s.worker, !.update = s.update,
                                     !.debt = s.debt, !.over = IF s.failed THEN "raised" ELSE IF s.debt \/ s.cancelled THEN "drain" ELSE "clean"]]

-----------------------------------------------------------------------------
\* The process is killed: the system closes its descriptors.
Kill(p) ==
  LET dead == {l \in Lifespans : ProcessOf[l] = p /\ lf.span[l].pc # "new"} IN
  /\ \E l \in dead : lf.span[l].pc # "over"
  /\ lf' = [lf EXCEPT !.inode = [i \in 1..MaxInodes |-> [lf.inode[i] EXCEPT !.holder = IF @ \in dead THEN "none" ELSE @]],
                      !.cached[p] = 0,
                      !.span = [l \in Lifespans |-> IF l \notin dead THEN lf.span[l]
                                                    ELSE [NewSpan EXCEPT !.pc = "over", !.over = "killed"]]]
\* An operator changes the mode of the lock file.
Chmod ==
  /\ lf.name # NoInode /\ lf.chmods < MaxChmods
  /\ lf' = [lf EXCEPT !.inode[lf.name].safe = ~@, !.chmods = @ + 1]

LifespanStep(l) ==
  \/ ClaimOwner(l) \/ OpenLockFile(l) \/ CheckMode(l) \/ ValidateLockFile(l) \/ AcquireDescriptorLock(l)
  \/ ReplaceUnsafeLockFile(l) \/ ReleaseReplaced(l) \/ ValidateNamedLock(l) \/ LoadSecret(l) \/ StartupStep(l)
  \/ DrainStep(l) \/ EndLifespan(l)
LFNext == \/ \E l \in Lifespans : LifespanStep(l) \/ StartWorker(l) \/ EndWorker(l) \/ BeginUpdate(l) \/ EndUpdate(l) \/ Shutdown(l) \/ CancelDrain(l)
          \/ \E p \in Range(ProcessOf) : Kill(p)
          \/ Chmod

LFSpec == LFInit /\ [][LFNext]_lf

-----------------------------------------------------------------------------
\* At most one lifespan has anything of the state directory in use, a thread of
\* its background tasks included, whatever became of the others and of the mode
\* of the lock file; and it signs with the secret that is stored.
OneGateway ==
  LET Active(l) == lf.span[l].lease \/ lf.span[l].open # {} \/ lf.span[l].worker \in {"thread", "ending"} IN
  /\ \A l, m \in Lifespans : Active(l) /\ Active(m) => l = m
  /\ \A l \in Lifespans : lf.span[l].open # {} /\ lf.cached[ProcessOf[l]] # 0 => lf.cached[ProcessOf[l]] = lf.secret

\* However a lifespan ended, it has closed all that it opened, once, and each
\* thing before the things it uses, but for the coordinator, which goes before the
\* background tasks and refuses them from then on; while an update of theirs is in
\* it, it and all that it uses are open; an accounting that was left with a debt is
\* reported; and a gateway that says it is ready has everything open.
LifespanClean ==
  \A l \in Lifespans : LET s == lf.span[l] IN
    /\ s.over \in {"raised", "drain", "clean"} => s.open = {} /\ ~s.lease /\ s.worker = "none" /\ ~s.update
    /\ s.over = "clean" => ~s.debt
    /\ Cardinality(Range(s.closed)) = Len(s.closed)
    /\ \A j \in 1..Len(s.closed) : Uses(s.closed[j]) \cap {s.closed[i] : i \in 1..j} \subseteq Refusing
    /\ s.update => {"supervisor", "coordinator"} \cup Uses("coordinator") \subseteq s.open
    /\ s.health = "ready" => s.pc = "running" /\ s.open = {"lease"} \cup UNION {Opened(Steps[j]) : j \in 1..Len(Steps)}

\* At most one gateway uses the state directory (single_process), and however a
\* lifespan ended it closed all it opened, in the order of use (lifespan in main.py).
LifespanSafe == OneGateway /\ LifespanClean
=============================================================================
