------------------------ MODULE RuntimeGenerations ------------------------
(***************************************************************************)
(* RuntimeGenerationManager of llm_gateway_core/services/runtime_config.py *)
(*                                                                         *)
(* The manager owns the immutable runtime snapshots (generations) of the   *)
(* gateway.  A request leases the current generation; a configuration      *)
(* update publishes the next one; a retired generation closes its proxy    *)
(* HTTP clients when its last lease goes.  Everything runs on one event    *)
(* loop: an action is the code between two awaits, and the tasks that      *)
(* close clients, the shutdown task and the recovery call interleave at    *)
(* their awaits.                                                           *)
(*                                                                         *)
(* A generation's entry joins three dictionaries of the code:              *)
(* _generations (statuses active, retired, closing), _failed_generations   *)
(* (status close_failed, clients = the ones that would not close) and the  *)
(* history of terminal statuses (closed).  record.snapshot is set exactly  *)
(* while the status is active or retired.                                  *)
(***************************************************************************)
EXTENDS Naturals, FiniteSets

CONSTANTS
    MaxGen,       \* bound: generations published in one behaviour
    MaxSlots,     \* bound: unpublished slots opened in one behaviour
    Leases,       \* RuntimeLease handles
    Clients,      \* httpx.AsyncClient objects
    MaxRetiring   \* RUNTIME_MAX_RETIRING_GENERATIONS

ASSUME RuntimeConstants ==
    /\ MaxGen \in Nat \ {0}
    /\ MaxSlots \in Nat
    /\ MaxRetiring \in Nat \ {0}
    /\ IsFiniteSet(Leases)

VARIABLES
    status,     \* _status
    current,    \* _current_generation, 0 for None
    gen,        \* _generations, _failed_generations and the history
    lease,      \* the generation a live handle holds, 0 when not held
    slot,       \* _unpublished_slots
    nextSlot,   \* _next_unpublished_slot_id
    closed,     \* clients whose aclose() has succeeded
    born,       \* clients ever registered with the manager
    pc,         \* where the shutdown task and retry_failed_cleanup stand
    awaiting,   \* slots whose close tasks each of them is gathering
    work,       \* failed generations each of them still has to retry
    slotsOk,    \* unpublished_recovered, as each of them computed it
    lock        \* holder of _recovery_lock

vars == <<status, current, gen, lease, slot, nextSlot, closed, born,
          pc, awaiting, work, slotsOk, lock>>

RuntimeManagerStatus == {"new", "running", "stopping", "stopped", "stop_failed"}
RuntimeGenerationStatus ==
    {"none", "active", "retired", "closing", "closed", "close_failed"}

Gens == 1 .. MaxGen
SlotIds == 1 .. MaxSlots
Procs == {"shutdown", "recovery"}
Places == {"idle", "slots", "leases", "drain", "retry", "lock", "failed"}

GenerationRecord ==
    [status : RuntimeGenerationStatus, leases : Nat, clients : SUBSET Clients]
SlotRecord ==
    [open : BOOLEAN, gen : Nat, clients : SUBSET Clients, accepting : BOOLEAN,
     close_failed : BOOLEAN, closing : BOOLEAN]

NoGen == [status |-> "none", leases |-> 0, clients |-> {}]
NoSlot == [open |-> FALSE, gen |-> 0, clients |-> {}, accepting |-> FALSE,
           close_failed |-> FALSE, closing |-> FALSE]

---------------------------------------------------------------------------
(* The manager's derived views.                                            *)

Managed == {g \in Gens : gen[g].status \in {"active", "retired", "closing"}}
FailedGenerations == {g \in Gens : gen[g].status = "close_failed"}
CleanupTasks == {g \in Gens : gen[g].status = "closing"}
Unpublished == {s \in SlotIds : slot[s].open}
FailedSlots == {s \in Unpublished : slot[s].close_failed}
Retiring == {g \in Managed \ {current} : gen[g].status \in {"retired", "closing"}}
Held(g) == {l \in Leases : lease[l] = g}

OwnedByGenerations == UNION {gen[g].clients : g \in Gens}
OwnedBySlots == UNION {slot[s].clients : s \in SlotIds}
OwnsUnpublishedOnly(c) == c \in OwnedBySlots   \* mutant: published clients forgotten
OwnsHttpClient(c) == c \in OwnedByGenerations \cup OwnedBySlots

---------------------------------------------------------------------------
Init ==
    /\ status = "new"
    /\ current = 0
    /\ gen = [g \in Gens |-> NoGen]
    /\ lease = [l \in Leases |-> 0]
    /\ slot = [s \in SlotIds |-> NoSlot]
    /\ nextSlot = 1
    /\ closed = {}
    /\ born = {}
    /\ pc = [p \in Procs |-> "idle"]
    /\ awaiting = [p \in Procs |-> {}]
    /\ work = [p \in Procs |-> {}]
    /\ slotsOk = [p \in Procs |-> TRUE]
    /\ lock = "free"

procVars == <<pc, awaiting, work, slotsOk, lock>>

---------------------------------------------------------------------------
(* Unpublished slots: the clients of a candidate under construction.       *)

OpenUnpublishedSlot ==
    /\ status \in {"new", "running"}
    /\ FailedSlots = {}
    /\ nextSlot <= MaxSlots
    /\ slot' = [slot EXCEPT ![nextSlot] =
                   [open |-> TRUE, gen |-> current + 1, clients |-> {}, accepting |-> TRUE,
                    close_failed |-> FALSE, closing |-> FALSE]]
    /\ nextSlot' = nextSlot + 1
    /\ UNCHANGED <<status, current, gen, lease, closed, born, procVars>>

RegisterHttpClient(s, c) ==
    /\ slot[s].open /\ slot[s].accepting
    /\ status \in {"new", "running"}
    /\ c \notin closed
    /\ ~ OwnsHttpClient(c)
    /\ slot' = [slot EXCEPT ![s].clients = @ \cup {c}]
    /\ born' = born \cup {c}
    /\ UNCHANGED <<status, current, gen, lease, nextSlot, closed, procVars>>

\* _close_unpublished_record up to its await, for every slot of S: an empty
\* slot is dropped, a running close task is joined, otherwise one is created
\* (creation fails for the slots of Refused, which become close_failed).
BeginClose(S, Refused) ==
    [s \in SlotIds |->
        CASE s \notin S -> slot[s]
          [] s \in S /\ slot[s].clients = {} -> NoSlot
          [] OTHER -> [slot[s] EXCEPT
                !.accepting = FALSE,
                !.closing = @ \/ s \notin Refused,
                !.close_failed = @ \/ (s \in Refused /\ ~ slot[s].closing)]]

\* mutant: waits for a close task that was never created.
JoinedAlways(S, Refused) == {s \in S : slot[s].clients # {}}

\* The slots of S whose close task is then awaited.
Joined(S, Refused) ==
    {s \in S : slot[s].clients # {} /\ (slot[s].closing \/ s \notin Refused)}

CloseUnpublishedSlot(s) ==
    /\ slot[s].open
    /\ \E Refused \in SUBSET {s} : slot' = BeginClose({s}, Refused)
    /\ UNCHANGED <<status, current, gen, lease, nextSlot, closed, born, procVars>>

\* _cleanup_unpublished_record: the close task ends; the clients of
\* Unclosed failed in all RUNTIME_CLEANUP_MAX_ATTEMPTS attempts.
FinishSlotClose(s) ==
    /\ slot[s].closing
    /\ \E Unclosed \in SUBSET slot[s].clients :
          /\ closed' = closed \cup (slot[s].clients \ Unclosed)
          /\ slot' = [slot EXCEPT ![s] =
                         IF Unclosed = {} THEN NoSlot
                         ELSE [@ EXCEPT !.clients = Unclosed, !.closing = FALSE,
                                        !.close_failed = TRUE]]
    /\ awaiting' = [p \in Procs |-> awaiting[p] \ {s}]
    /\ UNCHANGED <<status, current, gen, lease, nextSlot, born, pc, work, slotsOk, lock>>

---------------------------------------------------------------------------
(* Generations and leases.                                                 *)

\* mutant: a cleanup that could not start forgets the clients.
ScheduleForgets(G, R, Refused) ==
    [g \in Gens |->
        CASE g \notin R -> G[g]
          [] g \in R \ Refused -> [G[g] EXCEPT !.status = "closing"]
          [] OTHER -> [G[g] EXCEPT !.status = "closed", !.clients = {}]]

\* _schedule_cleanup of the records of R (no leases left): they become
\* closing, or, when create_task raises (Refused), finish at once with all
\* their clients unclosed.
ScheduleCleanup(G, R, Refused) ==
    [g \in Gens |->
        CASE g \notin R -> G[g]
          [] g \in R \ Refused -> [G[g] EXCEPT !.status = "closing"]
          [] OTHER -> [G[g] EXCEPT !.status =
                          IF G[g].clients = {} THEN "closed" ELSE "close_failed"]]

KeepActive(G) == G                               \* mutant: nothing retires
\* The current generation stops being active.
RetireCurrent(G) == [G EXCEPT ![current].status = "retired"]

InstallInitialCandidate(s) ==
    /\ slot[s].open /\ slot[s].accepting
    /\ status = "new"
    /\ slot[s].gen = 1
    /\ FailedSlots \ {s} = {}
    /\ gen' = [gen EXCEPT ![1] =
                  [status |-> "active", leases |-> 0, clients |-> slot[s].clients]]
    /\ current' = 1
    /\ status' = "running"
    /\ slot' = [slot EXCEPT ![s] = NoSlot]
    /\ UNCHANGED <<lease, nextSlot, closed, born, procVars>>

RetirementOffByOne == Cardinality(Retiring) <= MaxRetiring   \* mutant
RetirementAdmitted == Cardinality(Retiring) < MaxRetiring

\* _reject_shared_generation_resources: of what generations own, the model
\* has the proxy clients.
SharesNothing(s) == slot[s].clients \cap OwnedByGenerations = {}

\* _validate_publish for the candidate built in slot s, whose builder read
\* expected_generation = slot[s].gen - 1 when it opened the slot.
ValidatePublish(s) ==
    /\ status = "running"
    /\ slot[s].gen = current + 1
    /\ slot[s].gen \notin Managed
    /\ FailedGenerations = {}
    /\ FailedSlots = {}
    /\ RetirementAdmitted
    /\ SharesNothing(s)

PublishCandidate(s) ==
    /\ slot[s].open /\ slot[s].accepting
    /\ current < MaxGen
    /\ ValidatePublish(s)
    /\ LET G == [RetireCurrent(gen) EXCEPT ![current + 1] =
                    [status |-> "active", leases |-> 0, clients |-> slot[s].clients]]
           R == {g \in {current} : gen[g].leases = 0}
       IN  \E Refused \in SUBSET R : gen' = ScheduleCleanup(G, R, Refused)
    /\ current' = current + 1
    /\ slot' = [slot EXCEPT ![s] = NoSlot]
    /\ UNCHANGED <<status, lease, nextSlot, closed, born, procVars>>

\* _acquire: handle l becomes a lease on generation g.
Acquire(l, g) ==
    /\ lease[l] = 0
    /\ gen[g].status \in {"active", "retired"}
    /\ gen' = [gen EXCEPT ![g].leases = @ + 1]
    /\ lease' = [lease EXCEPT ![l] = g]
    /\ UNCHANGED <<status, current, slot, nextSlot, closed, born, procVars>>

AcquireCurrent(l) ==
    /\ status = "running"
    /\ Acquire(l, current)

RetainActive(l, g) ==
    /\ status = "running"
    /\ gen[g].status = "active"
    /\ Acquire(l, g)

RetainFromLease(l, m) ==
    /\ lease[m] # 0
    /\ status = "running"
    /\ gen[lease[m]].leases > 0
    /\ gen[lease[m]].status \in {"active", "retired"}
    /\ Acquire(l, lease[m])

ClosesWhileLeased(G, g) == G[g].status = "retired" /\ status # "stopping"   \* mutant
NeverCloses(G, g) == FALSE                                                \* mutant
\* The release just counted in G was the last one a retired generation had.
ClosesNow(G, g) ==
    /\ G[g].leases = 0
    /\ G[g].status = "retired"
    /\ status # "stopping"

\* mutant: the handle is not marked released, so it can release again.
ReleaseTwice(l) ==
    /\ lease[l] # 0
    /\ gen' = [gen EXCEPT ![lease[l]].leases = @ - 1]
    /\ UNCHANGED <<status, current, lease, slot, nextSlot, closed, born, procVars>>

\* RuntimeLease.release and _release: the last release of a retired
\* generation schedules its cleanup, except while the shutdown task runs.
Release(l) ==
    /\ lease[l] # 0
    /\ gen[lease[l]].leases > 0
    /\ LET g == lease[l]
           G == [gen EXCEPT ![g].leases = @ - 1]
           R == {h \in {g} : ClosesNow(G, h)}
       IN  \E Refused \in SUBSET R : gen' = ScheduleCleanup(G, R, Refused)
    /\ lease' = [lease EXCEPT ![l] = 0]
    /\ UNCHANGED <<status, current, slot, nextSlot, closed, born, procVars>>

\* _cleanup_generation, or _cleanup_task_done of a cancelled task, ends in
\* _finish_cleanup with the clients that did not close.
FinishCleanup(g) ==
    /\ gen[g].status = "closing"
    /\ \E Unclosed \in SUBSET gen[g].clients :
          /\ closed' = closed \cup (gen[g].clients \ Unclosed)
          /\ gen' = [gen EXCEPT
                        ![g].status = IF Unclosed = {} THEN "closed" ELSE "close_failed",
                        ![g].clients = Unclosed]
    /\ UNCHANGED <<status, current, lease, slot, nextSlot, born, procVars>>

---------------------------------------------------------------------------
(* retry_failed_cleanup and shutdown.                                      *)

\* The tail both share: _retry_failed_unpublished_slots ...
BeginRetrySlots(p) ==
    \E Refused \in SUBSET FailedSlots :
        /\ slot' = BeginClose(FailedSlots, Refused)
        /\ awaiting' = [awaiting EXCEPT ![p] = Joined(FailedSlots, Refused)]

\* ... then _retry_unresolved_clients under _recovery_lock.
EndRetrySlots(p) ==
    /\ pc[p] = "retry" /\ awaiting[p] = {}
    /\ slotsOk' = [slotsOk EXCEPT ![p] = (FailedSlots = {})]
    /\ pc' = [pc EXCEPT ![p] = "lock"]
    /\ UNCHANGED <<status, current, gen, lease, slot, nextSlot, closed, born,
                   awaiting, work, lock>>

TakeRecoveryLock(p) ==
    /\ pc[p] = "lock" /\ lock = "free"
    /\ lock' = p
    /\ work' = [work EXCEPT ![p] = FailedGenerations]
    /\ pc' = [pc EXCEPT ![p] = "failed"]
    /\ UNCHANGED <<status, current, gen, lease, slot, nextSlot, closed, born, awaiting, slotsOk>>

RetryFailedGeneration(p, g) ==
    /\ pc[p] = "failed" /\ g \in work[p]
    /\ \E Unclosed \in SUBSET gen[g].clients :
          /\ closed' = closed \cup (gen[g].clients \ Unclosed)
          /\ gen' = [gen EXCEPT
                        ![g].status = IF Unclosed = {} THEN "closed" ELSE @,
                        ![g].clients = Unclosed]
    /\ work' = [work EXCEPT ![p] = @ \ {g}]
    /\ UNCHANGED <<status, current, lease, slot, nextSlot, born, pc, awaiting, slotsOk, lock>>

NothingManaged == Managed = {} /\ CleanupTasks = {} /\ Unpublished = {}

SlotsRecovered(p) == slotsOk[p]                              \* mutant
Recovered(p) == slotsOk[p] /\ FailedGenerations = {}

RetryFailedCleanup ==
    /\ pc["recovery"] = "idle"
    /\ status \in {"running", "stop_failed"}
    /\ BeginRetrySlots("recovery")
    /\ pc' = [pc EXCEPT !["recovery"] = "retry"]
    /\ UNCHANGED <<status, current, gen, lease, nextSlot, closed, born, work, slotsOk, lock>>

FinishRecovery ==
    /\ pc["recovery"] = "failed" /\ work["recovery"] = {}
    /\ status' = IF status = "stop_failed" /\ NothingManaged /\ Recovered("recovery")
                 THEN "stopped" ELSE status
    /\ lock' = "free"
    /\ pc' = [pc EXCEPT !["recovery"] = "idle"]
    /\ UNCHANGED <<current, gen, lease, slot, nextSlot, closed, born, awaiting, work, slotsOk>>

\* shutdown(): the current generation retires and _shutdown_impl starts; its
\* first step closes every unpublished slot.
Shutdown ==
    /\ pc["shutdown"] = "idle"
    /\ status # "stopped"
    /\ gen' = IF status = "running" THEN RetireCurrent(gen) ELSE gen
    /\ status' = "stopping"
    /\ \E Refused \in SUBSET Unpublished :
          /\ slot' = BeginClose(Unpublished, Refused)
          /\ awaiting' = [awaiting EXCEPT !["shutdown"] = Joined(Unpublished, Refused)]
    /\ pc' = [pc EXCEPT !["shutdown"] = "slots"]
    /\ UNCHANGED <<current, lease, nextSlot, closed, born, work, slotsOk, lock>>

ShutdownSlotsClosed ==
    /\ pc["shutdown"] = "slots" /\ awaiting["shutdown"] = {}
    /\ pc' = [pc EXCEPT !["shutdown"] = "leases"]
    /\ UNCHANGED <<status, current, gen, lease, slot, nextSlot, closed, born,
                   awaiting, work, slotsOk, lock>>

\* Every zero_leases event is set: the retired generations start closing.
ShutdownLeasesGone ==
    /\ pc["shutdown"] = "leases"
    /\ \A g \in Managed : gen[g].leases = 0
    /\ LET R == {g \in Managed : gen[g].status = "retired"}
       IN  \E Refused \in SUBSET R : gen' = ScheduleCleanup(gen, R, Refused)
    /\ pc' = [pc EXCEPT !["shutdown"] = "drain"]
    /\ UNCHANGED <<status, current, lease, slot, nextSlot, closed, born,
                   awaiting, work, slotsOk, lock>>

ShutdownDrained ==
    /\ pc["shutdown"] = "drain" /\ CleanupTasks = {}
    /\ BeginRetrySlots("shutdown")
    /\ pc' = [pc EXCEPT !["shutdown"] = "retry"]
    /\ UNCHANGED <<status, current, gen, lease, nextSlot, closed, born, work, slotsOk, lock>>

FinishShutdown ==
    /\ pc["shutdown"] = "failed" /\ work["shutdown"] = {}
    /\ status' = IF NothingManaged /\ Recovered("shutdown")
                 THEN "stopped" ELSE "stop_failed"
    /\ lock' = "free"
    /\ pc' = [pc EXCEPT !["shutdown"] = "idle"]
    /\ UNCHANGED <<current, gen, lease, slot, nextSlot, closed, born, awaiting, work, slotsOk>>

\* A BaseException (the shutdown task cancelled at an await) ends the
\* attempt; the close tasks it was gathering are shielded and go on.
ShutdownAborted ==
    /\ pc["shutdown"] \in {"slots", "leases", "drain", "retry", "lock"}
    /\ status' = "stop_failed"
    /\ pc' = [pc EXCEPT !["shutdown"] = "idle"]
    /\ awaiting' = [awaiting EXCEPT !["shutdown"] = {}]
    /\ UNCHANGED <<current, gen, lease, slot, nextSlot, closed, born, work, slotsOk, lock>>

---------------------------------------------------------------------------
Next ==
    \/ OpenUnpublishedSlot
    \/ \E s \in SlotIds :
          \/ \E c \in Clients : RegisterHttpClient(s, c)
          \/ CloseUnpublishedSlot(s)
          \/ FinishSlotClose(s)
          \/ InstallInitialCandidate(s)
          \/ PublishCandidate(s)
    \/ \E l \in Leases :
          \/ AcquireCurrent(l)
          \/ \E g \in Gens : RetainActive(l, g)
          \/ \E m \in Leases : RetainFromLease(l, m)
          \/ Release(l)
    \/ \E g \in Gens : FinishCleanup(g)
    \/ \E p \in Procs :
          \/ EndRetrySlots(p)
          \/ TakeRecoveryLock(p)
          \/ \E g \in Gens : RetryFailedGeneration(p, g)
    \/ RetryFailedCleanup
    \/ FinishRecovery
    \/ Shutdown
    \/ ShutdownSlotsClosed
    \/ ShutdownLeasesGone
    \/ ShutdownDrained
    \/ FinishShutdown
    \/ ShutdownAborted

\* The handle that is alone on its generation is dropped.
LastRelease(g) == \E l \in Leases : Held(g) = {l} /\ Release(l)

\* The event loop runs every ready task; a request ends and drops its lease, and
\* the requests that retain a generation from each other are finitely many.
Fairness ==
    /\ \A s \in SlotIds : WF_vars(FinishSlotClose(s))
    /\ \A l \in Leases : WF_vars(Release(l))
    /\ \A g \in Gens : SF_vars(LastRelease(g)) /\ WF_vars(FinishCleanup(g))
    /\ \A p \in Procs :
          /\ WF_vars(EndRetrySlots(p))
          /\ SF_vars(TakeRecoveryLock(p))
          /\ \A g \in Gens : WF_vars(RetryFailedGeneration(p, g))
    /\ WF_vars(FinishRecovery)
    /\ WF_vars(ShutdownSlotsClosed)
    /\ WF_vars(ShutdownLeasesGone)
    /\ WF_vars(ShutdownDrained)
    /\ WF_vars(FinishShutdown)

Spec == Init /\ [][Next]_vars
FairSpec == Spec /\ Fairness

---------------------------------------------------------------------------
(* Properties.                                                             *)

\* Every variable of the manager stays in its type.
TypeOK ==
    /\ status \in RuntimeManagerStatus
    /\ current \in 0 .. MaxGen
    /\ gen \in [Gens -> GenerationRecord]
    /\ lease \in [Leases -> 0 .. MaxGen]
    /\ slot \in [SlotIds -> SlotRecord]
    /\ nextSlot \in 1 .. MaxSlots + 1
    /\ closed \subseteq Clients
    /\ born \subseteq Clients
    /\ pc \in [Procs -> Places]
    /\ awaiting \in [Procs -> SUBSET SlotIds]
    /\ work \in [Procs -> SUBSET Gens]
    /\ slotsOk \in [Procs -> BOOLEAN]
    /\ lock \in Procs \cup {"free"}

\* A request that holds a lease has its snapshot: the leased generation is
\* active or retired, never closing or closed, and none of its proxy clients
\* has been closed, whatever publishes, shutdowns and recoveries run
\* meanwhile (_schedule_cleanup runs only at zero leases).
LeaseSafety ==
    \A l \in Leases : lease[l] # 0 =>
        /\ gen[lease[l]].status \in {"active", "retired"}
        /\ gen[lease[l]].clients \cap closed = {}

\* record.active_leases counts the live handles of the generation, so
\* _release never finds a generation without a lease to give back.
LeaseCount == \A g \in Gens : gen[g].leases = Cardinality(Held(g))

\* While the manager runs, exactly the current generation is active; once it
\* stops none is.
OneActive ==
    {g \in Gens : gen[g].status = "active"} =
        IF status = "running" THEN {current} ELSE {}

\* At most RUNTIME_MAX_RETIRING_GENERATIONS superseded generations are still
\* retiring, the bound the admission check of _validate_publish is there for.
RetiringBound == Cardinality(Retiring) <= MaxRetiring

\* A client belongs to one owner: one unpublished slot or one generation.
SingleOwner ==
    /\ \A g, h \in Gens : g # h => gen[g].clients \cap gen[h].clients = {}
    /\ \A s, t \in SlotIds : s # t => slot[s].clients \cap slot[t].clients = {}
    /\ OwnedByGenerations \cap OwnedBySlots = {}

\* No client leaks: every client ever registered has been closed or still
\* has an owner that a recovery or a shutdown will close it for.
NoLeak == \A c \in born : c \in closed \/ OwnsHttpClient(c)

\* "stopped" is only reported when nothing is left open: every registered
\* client is closed and no lease is out.
StoppedClean ==
    status = "stopped" => born \subseteq closed /\ \A l \in Leases : lease[l] = 0

\* What the manager promises to the requests that hold its snapshots: a lease
\* keeps its generation and its clients open, leases are counted, one generation
\* is current, and a client has one owner, whatever publishes, shutdowns and
\* recoveries run meanwhile.
RuntimeSafe == TypeOK /\ LeaseSafety /\ LeaseCount /\ OneActive /\ SingleOwner

\* Nothing accumulates and nothing is left open: the retiring generations are
\* bounded (_validate_publish), every client is closed or has an owner that will
\* close it, and a manager that reports "stopped" has closed all of them.
NothingLeaks == RetiringBound /\ NoLeak /\ StoppedClean

\* Something was asked to end and has not: a shutdown without a report, a call of
\* retry_failed_cleanup, a superseded generation that is neither closed nor
\* reported close_failed (only an aborted shutdown may leave one behind).
RuntimePending ==
    \/ status = "stopping"
    \/ pc["recovery"] # "idle"
    \/ status # "stop_failed" /\ \E g \in Gens : gen[g].status = "retired"

\* A shutdown, a recovery and the closing of a superseded generation end once the
\* requests in flight do, even when shutdown and recovery compete for the slots'
\* close tasks and for _recovery_lock.
RuntimeSettles == []<>~RuntimePending

===========================================================================
