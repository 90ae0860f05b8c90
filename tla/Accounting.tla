---------------------------- MODULE Accounting ----------------------------
(***************************************************************************)
(* AccountingService of llm_gateway_core/services/accounting_service.py    *)
(* with its two databases and the in-memory budget ledger.                 *)
(*                                                                         *)
(* A request reserves an estimate of its cost, then commits its usage      *)
(* event: the event is accepted by the source outbox (tokens_usage_db),    *)
(* projected into the key's spent_usd with an idempotency receipt by the   *)
(* sink (api_keys_db), and marked projected in the source.  What failed is *)
(* retried by a projector task; key updates, budget resets and deletions   *)
(* first drain the backlog; stop() drains everything and audits.           *)
(*                                                                         *)
(* mem is the memory of the process, lost in a crash; db is what is on     *)
(* disk.  An action is the code between two awaits, or the database call a *)
(* worker thread makes.  A database call made under the drain lock is one  *)
(* step with the code that follows it: no other caller of that table can   *)
(* see the state in between.  The calls made without the lock, and the key *)
(* mutations whose result is used after it is given back, are two steps.   *)
(*                                                                         *)
(* The event a session commits goes by the session's name (event ids are   *)
(* derived from request ids), so that a follower session of a duplicate    *)
(* event does not occur.                                                   *)
(***************************************************************************)
EXTENDS Naturals, FiniteSets, FiniteSetsExt

CONSTANTS
    Sessions,      \* requests; also their usage events
    Keys,          \* virtual API keys
    KeyOf,         \* [Sessions -> Keys]
    Cost,          \* [Sessions -> Nat], the actual cost of the event
    Estimate,      \* the cost reserve() holds back
    Budget,        \* budget_usd of every key
    MaxActive,     \* _max_active_sessions
    MaxRetained,   \* _max_retained_events
    Poisoned,      \* events the sink refuses: ORPHAN_SINK, FINGERPRINT_CONFLICT
    DueKeys,       \* keys whose budget period has ended
    Operations,    \* the key mutations administrators make
    MaxFaults,     \* bound: database calls that fail for a passing reason
    Ambiguous,     \* whether a failing call may have become durable
    MaxPermanent,  \* bound: database calls that fail with a permanent code
    MaxCrashes     \* bound: crashes of the process

ASSUME AccountingConstants ==
    /\ IsFiniteSet(Sessions)
    /\ KeyOf \in [Sessions -> Keys]
    /\ Cost \in [Sessions -> Nat]
    /\ {Estimate, Budget, MaxActive, MaxRetained, MaxFaults, MaxPermanent, MaxCrashes}
          \subseteq Nat
    /\ Poisoned \subseteq Sessions
    /\ DueKeys \subseteq Keys
    /\ Operations \subseteq {"update", "reset", "delete"}
    /\ Ambiguous \in BOOLEAN

VARIABLES
    mem,      \* the service's attributes, its tasks and the drain lock
    db,       \* the rows of the source and of the sink
    faults,   \* failures so far: passing, permanent, crashes
    perms,
    crashes

vars == <<mem, db, faults, perms, crashes>>

Jobs == {"start", "projector", "update", "reset", "delete", "stop"}
States == {"new", "starting", "running", "blocked", "stopping", "stopped", "failed"}
Fences == {"none", "in_flight", "reset", "closed"}
SessionPcs == {"none", "reserved", "releasing", "accept", "answered", "project",
               "retrying", "resetting", "terminal"}
LivePcs == {"reserved", "releasing", "accept", "answered", "project", "retrying"}
JobPcs == {"idle", "wait", "listed", "lock", "working", "start", "sessions",
           "projector", "exited"}
DrainSteps == {"free", "retained", "list", "pending", "sink", "mark", "fail",
               "drained", "mutate", "applied", "audit"}
NoEvent == "no event"
NoKey == "no key"

\* Requests are not tasks, and neither are placeholders.
ASSUME AccountingNames ==
    /\ Sessions \cap (Jobs \cup {"free", NoEvent}) = {}
    /\ NoKey \notin Keys

Idle == [pc |-> "idle", key |-> NoKey, flag |-> FALSE]

InitMem(pcs) ==
    [state |-> "new", fatal |-> FALSE, init |-> FALSE,
     pc |-> pcs,                                    \* _sessions, session.state
     liable |-> {},                                 \* charge_liability set
     answer |-> [s \in Sessions |-> "none"],        \* of the source thread
     future |-> [s \in Sessions |-> "none"],        \* session.retry_result
     retained |-> {}, inflight |-> {}, pending |-> {},
     ledger |-> [k \in Keys |-> 0], reserved |-> {}, known |-> {},
     fence |-> [k \in Keys |-> "none"], resetPending |-> {}, deleted |-> {},
     wake |-> FALSE, retryNeeded |-> FALSE, stopping |-> FALSE,
     job |-> [j \in Jobs |-> Idle],
     owner |-> "free", step |-> "free", todo |-> {}, ev |-> NoEvent, from |-> "session",
     ok |-> TRUE, retClean |-> TRUE, penClean |-> TRUE, tolerated |-> FALSE,
     err |-> "none",
     record |-> {}]                                 \* spent_usd a mutation returned

InitDb ==
    [accepted |-> {}, projected |-> {}, receipts |-> {},
     spent |-> [k \in Keys |-> 0], active |-> Keys, due |-> DueKeys]

Init ==
    /\ mem = InitMem([s \in Sessions |-> "none"])
    /\ db = InitDb
    /\ faults = 0 /\ perms = 0 /\ crashes = 0

---------------------------------------------------------------------------
(* What the handlers do to the memory m, in the order they do it.          *)

Live(m) == {s \in Sessions : m.pc[s] \in LivePcs}
ActiveByKey(m, k) == {s \in Live(m) : KeyOf[s] = k}
Unsettled(m) == m.retained \cup m.inflight \cup m.pending

\* _record_error with block, and with permanent.
Blocks(m) ==
    IF m.state \in {"stopping", "stopped", "failed"} THEN m
    ELSE [m EXCEPT !.state = "blocked"]
Fails(m) == [m EXCEPT !.state = "failed", !.fatal = TRUE]

NeverClears(m) == m                                                  \* mutant
ClearTransientBlock(m) ==
    IF m.state = "blocked" /\ ~ m.fatal /\ Unsettled(m) = {}
    THEN [m EXCEPT !.state = "running"] ELSE m

\* UsdBudgetLedger.release_request and commit_request; sync_record of a key
\* the ledger has no entry for; discard_record.
ReleaseRequest(m, s) == [m EXCEPT !.reserved = @ \ {s}]
CommitRefunds(m, s) ==                                               \* mutant
    [m EXCEPT !.reserved = @ \ {s}, !.ledger[KeyOf[s]] = @ - Cost[s]]
CommitRequest(m, s) ==
    [m EXCEPT !.reserved = @ \ {s}, !.ledger[KeyOf[s]] = @ + Cost[s]]
SyncRecord(m, k) ==
    IF k \in m.known THEN m
    ELSE [m EXCEPT !.known = @ \cup {k}, !.ledger[k] = db.spent[k]]
Discard(m, k) == [m EXCEPT !.known = @ \ {k}, !.ledger[k] = 0]

\* _detach_session_locked and _after_session_terminal: the last session of a
\* key discards the state of a deleted key or goes on to a pending reset.
Detach(m, s) ==
    LET k == KeyOf[s]
        gone == [m EXCEPT !.pc[s] = "terminal"]
        last == ActiveByKey(gone, k) = {}
    IN  IF last /\ k \in m.deleted THEN Discard(gone, k)
        ELSE IF last /\ k \in m.resetPending THEN [gone EXCEPT !.pc[s] = "resetting"]
        ELSE gone

KeepsReservation(m, s) == Detach(m, s)                               \* mutant
\* _finish_failed_session: the reservation goes unless it became a charge.
FinishFailed(m, s) ==
    Detach(IF s \in m.liable THEN m ELSE ReleaseRequest(m, s), s)

\* _apply_session_liability, once per session.
ApplyLiability(m, s) ==
    IF s \in m.liable THEN m
    ELSE [CommitRequest(m, s) EXCEPT !.liable = @ \cup {s}]

\* Sessions registered in _retry_sessions.
RetrySessions(m) == {s \in Sessions : m.pc[s] \in {"accept", "answered", "project", "retrying"}}

PublishNothing(m, S, what) == m                                      \* mutant
\* _publish_retry_receipt, _publish_retry_error, _publish_all_retry_errors.
Publish(m, S, what) ==
    [m EXCEPT !.future = [s \in Sessions |->
        IF s \in S \cap RetrySessions(m) /\ m.future[s] = "none" THEN what ELSE m.future[s]]]

NoWake(m) == m                                                       \* mutant
WakeProjector(m) == [m EXCEPT !.wake = TRUE]

FreeDrain(m) ==
    [m EXCEPT !.owner = "free", !.step = "free", !.todo = {}, !.ev = NoEvent,
              !.ok = TRUE, !.retClean = TRUE, !.penClean = TRUE, !.tolerated = FALSE,
              !.err = "none", !.record = {}]

JobTo(m, j, pc) == [m EXCEPT !.job[j].pc = pc]
JobDone(m, j) == [m EXCEPT !.job[j] = Idle]
Unfence(m, k, f) == IF m.fence[k] = f THEN [m EXCEPT !.fence[k] = "none"] ELSE m

---------------------------------------------------------------------------
(* Failures of a database call: nothing was written, or (Ambiguous) the    *)
(* commit became durable but the read-back that would tell failed too.     *)

Fault == faults < MaxFaults /\ faults' = faults + 1 /\ UNCHANGED <<perms, crashes>>
Permanent == perms < MaxPermanent /\ perms' = perms + 1 /\ UNCHANGED <<faults, crashes>>
NoFault == UNCHANGED <<faults, perms, crashes>>

\* The database after a call that failed and would have left it as d.
Failed(d) == db' = db \/ (Ambiguous /\ db' = d)

---------------------------------------------------------------------------
(* Admission.                                                              *)

\* mutant: the reservations of requests in flight are not counted.
AdmitsOnSpent(m, k) == m.ledger[k] + Estimate <= Budget
\* UsdBudgetLedger.reserve_request.
AdmitsBudget(m, k) ==
    m.ledger[k] + Estimate * (Cardinality({s \in m.reserved : KeyOf[s] = k}) + 1) <= Budget

\* reserve(); RateLimiter.admit_request may refuse too, and then gives the
\* budget reservation back.
Reserve(s) ==
    LET k == KeyOf[s]
        m == SyncRecord(mem, k)
    IN  /\ mem.pc[s] = "none" /\ k \in db.active
        /\ mem.state = "running"
        /\ mem.fence[k] = "none"
        /\ Cardinality(Live(mem)) < MaxActive
        /\ \/ AdmitsBudget(m, k) /\ mem' = [m EXCEPT !.pc[s] = "reserved", !.reserved = @ \cup {s}]
           \/ mem' = m
        /\ NoFault /\ UNCHANGED db

Release(s) ==
    /\ mem.pc[s] = "reserved"
    /\ mem' = [mem EXCEPT !.pc[s] = "releasing"]
    /\ NoFault /\ UNCHANGED db

ReleaseSession(s) ==
    /\ mem.pc[s] = "releasing"
    /\ mem' = Detach(ReleaseRequest(mem, s), s)
    /\ NoFault /\ UNCHANGED db

---------------------------------------------------------------------------
(* commit() and _commit_session_workflow.                                  *)

Commit(s) ==
    /\ mem.pc[s] = "reserved"
    /\ s \in Unsettled(mem) \/ Cardinality(Unsettled(mem)) < MaxRetained
    /\ mem' = [mem EXCEPT !.pc[s] = "accept", !.inflight = @ \cup {s}]
    /\ NoFault /\ UNCHANGED db

AcceptedBy(d, e) == [d EXCEPT !.accepted = @ \cup {e}]

\* accept_accounting_event in its thread.
SourceAccept(s) ==
    LET answers(a) == mem' = [mem EXCEPT !.pc[s] = "answered", !.answer[s] = a]
    IN  /\ mem.pc[s] = "accept"
        /\ \/ answers("accepted") /\ db' = AcceptedBy(db, s) /\ NoFault
           \/ answers("transient") /\ Failed(AcceptedBy(db, s)) /\ Fault
           \/ answers("permanent") /\ UNCHANGED db /\ Permanent

RetainsNothing(m, s) == [m EXCEPT !.inflight = @ \ {s}]              \* mutant
\* _finish_source_failure with retain_for_retry.
RetainForRetry(m, s) == [m EXCEPT !.inflight = @ \ {s}, !.retained = @ \cup {s}]

\* mutant: an accepted event is not counted as pending.
AcceptUntracked(m, s) ==
    ClearTransientBlock([m EXCEPT !.inflight = @ \ {s}, !.retained = @ \ {s}])
\* _accept_source_result of an acceptance not projected yet.
AcceptSourceResult(m, s) ==
    ClearTransientBlock([m EXCEPT !.inflight = @ \ {s}, !.retained = @ \ {s},
                                  !.pending = @ \cup {s}])

\* _record_workflow after the thread, up to its next await.
SourceAnswered(s) ==
    LET m == [mem EXCEPT !.answer[s] = "none"]
    IN  /\ mem.pc[s] = "answered"
        /\ mem' = CASE mem.answer[s] = "accepted" ->
                         [ApplyLiability(AcceptSourceResult(m, s), s) EXCEPT !.pc[s] = "project"]
                    [] mem.answer[s] = "transient" ->
                         [WakeProjector(Blocks(RetainForRetry(m, s))) EXCEPT !.pc[s] = "retrying"]
                    [] mem.answer[s] = "permanent" ->
                         FinishFailed(WakeProjector([Fails(m) EXCEPT !.inflight = @ \ {s},
                                                              !.retained = @ \ {s}]), s)
        /\ NoFault /\ UNCHANGED db

\* The retry_result future of a retrying session is resolved.
RetryResolved(s) ==
    /\ mem.pc[s] = "retrying"
    /\ \/ mem.future[s] = "receipt" /\ mem' = Detach(mem, s)
       \/ mem.future[s] = "error" /\ mem' = FinishFailed(mem, s)
    /\ NoFault /\ UNCHANGED db

---------------------------------------------------------------------------
(* The drain lock and the pass its holder makes: _retry_retained_locked,   *)
(* then _drain_pending_locked.                                             *)

WaitsForDrain(o) ==
    IF o \in Sessions THEN mem.pc[o] \in {"project", "resetting"} ELSE mem.job[o].pc = "lock"

\* mutant: a key update does not settle the backlog first.
UpdatesUndrained(o) == IF o \in {"update", "delete"} THEN "mutate" ELSE "retained"
\* The first database call a task makes under the drain lock.
FirstStep(o) ==
    CASE o = "start" -> "list"
      [] o = "delete" -> "mutate"
      [] OTHER -> "retained"

TakeDrain(o) ==
    /\ mem.owner = "free" /\ WaitsForDrain(o)
    /\ LET m == [mem EXCEPT !.owner = o]
       IN  mem' = CASE o \in Sessions /\ mem.pc[o] = "project" ->
                         [m EXCEPT !.step = "sink", !.ev = o, !.from = "session"]
                    [] o \in Sessions /\ mem.pc[o] = "resetting" -> [m EXCEPT !.step = "retained"]
                    [] o \in Jobs -> [m EXCEPT !.job[o].pc = "working", !.step = FirstStep(o)]
    /\ NoFault /\ UNCHANGED db

\* The holder leaves the drain because an exception, permanent or not, came
\* out of its pass or of its mutation.
RaiseOut(m0, permanent) ==
    LET o == m0.owner
        m == FreeDrain(m0)
        recorded == IF permanent THEN Fails(m) ELSE Blocks(m)
        k == IF o \in Jobs THEN m.job[o].key ELSE NoKey
    IN  CASE o \in Sessions -> [m EXCEPT !.pc[o] = "terminal"]
          [] o = "projector" /\ permanent ->
                JobTo(Publish(recorded, Sessions, "error"), o, "exited")
          [] o = "projector" /\ ~ permanent ->
                [JobTo(recorded, o, "wait") EXCEPT !.retryNeeded = TRUE]
          [] o = "start" -> JobDone([recorded EXCEPT
                                !.state = IF recorded.fatal THEN "failed" ELSE "blocked"], o)
          [] o = "stop" -> JobDone([recorded EXCEPT !.state = "failed"], o)
          [] o = "update" -> JobDone(Unfence(m, k, "in_flight"), o)
          [] o = "reset" -> JobDone(m, o)
          [] o = "delete" -> JobDone([m EXCEPT !.fence[k] =
                                        IF m.job[o].flag THEN "reset" ELSE "none"], o)

\* _retry_retained_locked between two events: the next batch, or the end.
RetainedBatch ==
    /\ mem.step = "retained" /\ mem.todo = {}
    /\ mem' = IF mem.retained # {} /\ mem.ok THEN [mem EXCEPT !.todo = mem.retained]
              ELSE [mem EXCEPT !.retClean = mem.ok, !.step = "list"]
    /\ NoFault /\ UNCHANGED db

\* mutant: the retry does not charge the session waiting for it.
RecoversUncharged(m, e) == m
\* A duplicate of the session's own event counts as recovered.
RecoverSession(m, e) == IF e \in RetrySessions(m) THEN ApplyLiability(m, e) ELSE m

RetryAccept(e) ==
    /\ mem.step = "retained" /\ e \in mem.todo
    /\ LET m == [mem EXCEPT !.todo = @ \ {e}]
           stored == RecoverSession(AcceptSourceResult(m, e), e)
       IN  \/ /\ mem' = IF e \in db.projected
                        THEN Publish(ClearTransientBlock([stored EXCEPT !.pending = @ \ {e}]),
                                     {e}, "receipt")
                        ELSE [stored EXCEPT !.step = "sink", !.ev = e, !.from = "retained"]
              /\ db' = AcceptedBy(db, e) /\ NoFault
           \/ mem' = [Blocks(m) EXCEPT !.ok = FALSE] /\ Failed(AcceptedBy(db, e)) /\ Fault
           \/ /\ mem' = RaiseOut(Publish([m EXCEPT !.retained = @ \ {e}], {e}, "error"), TRUE)
              /\ UNCHANGED db /\ Permanent

\* list_pending_accounting_events.
ListPending ==
    /\ mem.step = "list"
    /\ \/ mem' = [mem EXCEPT !.step = "pending", !.todo = db.accepted \ db.projected] /\ NoFault
       \/ mem' = RaiseOut(mem, FALSE) /\ Fault
       \/ mem' = RaiseOut(mem, TRUE) /\ Permanent
    /\ UNCHANGED db

\* _mark_pending of the next listed event, which may find no room for it.
DrainPending(e) ==
    /\ mem.step = "pending" /\ e \in mem.todo
    /\ mem' = IF e \in Unsettled(mem) \/ Cardinality(Unsettled(mem)) < MaxRetained
              THEN [mem EXCEPT !.todo = @ \ {e}, !.pending = @ \cup {e},
                               !.step = "sink", !.ev = e, !.from = "pending"]
              ELSE RaiseOut(mem, FALSE)
    /\ NoFault /\ UNCHANGED db

PassEnds ==
    /\ mem.step = "pending" /\ mem.todo = {}
    /\ mem' = [mem EXCEPT !.step = "drained"]
    /\ NoFault /\ UNCHANGED db

---------------------------------------------------------------------------
(* _project_stored_locked of mem.ev, for a session, a retained event or a  *)
(* listed one.                                                             *)

\* What the caller does with the outcome: done, pending, tolerated (the sink
\* refused this event for good) or permanent.
EndProjection(m0, res) ==
    LET e == m0.ev
        noted == IF m0.from = "session" /\ res \in {"tolerated", "permanent"}
                 THEN WakeProjector(m0) ELSE m0
        m == [noted EXCEPT !.ev = NoEvent, !.err = "none"]
    IN  CASE m.from = "session" /\ res = "permanent" -> FinishFailed(Fails(FreeDrain(m)), e)
          [] m.from = "session" /\ res # "permanent" -> Detach(FreeDrain(m), e)
          [] m.from = "retained" /\ res = "permanent" -> RaiseOut(Publish(m, {e}, "error"), TRUE)
          [] m.from = "retained" /\ res # "permanent" ->
                [Publish(m, {e}, "receipt") EXCEPT !.step = "retained", !.ok = @ /\ res # "pending"]
          [] m.from = "pending" /\ res = "permanent" -> RaiseOut(m, TRUE)
          [] m.from = "pending" /\ res # "permanent" ->
                [m EXCEPT !.step = "pending", !.penClean = @ /\ res # "pending",
                          !.tolerated = @ \/ res = "tolerated"]

\* mutant: the receipt of an applied event is not looked up.
AppliedAgain(d, e) ==
    [d EXCEPT !.receipts = @ \cup {e}, !.spent[KeyOf[e]] = @ + Cost[e]]
\* apply_spend_event: spent_usd and the receipt in one transaction, once.
AppliedBy(d, e) ==
    IF e \in d.receipts THEN d
    ELSE [d EXCEPT !.receipts = @ \cup {e}, !.spent[KeyOf[e]] = @ + Cost[e]]

ApplySpendEvent ==
    LET refused == mem.ev \in Poisoned \ db.receipts
        to(step, err) == mem' = [mem EXCEPT !.step = step, !.err = err]
    IN  /\ mem.step = "sink"
        /\ \/ ~ refused /\ to("mark", "none") /\ db' = AppliedBy(db, mem.ev) /\ NoFault
           \/ refused /\ to("fail", "tolerated") /\ UNCHANGED db /\ NoFault
           \/ ~ refused /\ to("fail", "pending") /\ Failed(AppliedBy(db, mem.ev)) /\ Fault
           \/ to("fail", "permanent") /\ UNCHANGED db /\ Permanent

\* _clear_pending.
ClearPending(m, e) == ClearTransientBlock([m EXCEPT !.pending = @ \ {e}])

ProjectedBy(d, e) == [d EXCEPT !.projected = @ \cup {e}]

\* mark_accounting_event_projected.
MarkProjected ==
    /\ mem.step = "mark"
    /\ \/ /\ mem' = EndProjection(ClearPending(mem, mem.ev), "done")
          /\ db' = ProjectedBy(db, mem.ev) /\ NoFault
       \/ /\ mem' = EndProjection(WakeProjector(Blocks(mem)), "pending")
          /\ Failed(ProjectedBy(db, mem.ev)) /\ Fault
       \/ mem' = EndProjection(mem, "permanent") /\ UNCHANGED db /\ Permanent

\* _projection_failed: mark_accounting_projection_failed tells whether the
\* event had been projected after all.
MarkFailed ==
    LET m == WakeProjector(mem)
    IN  /\ mem.step = "fail"
        /\ \/ /\ mem' = IF m.ev \notin db.projected THEN EndProjection(m, m.err)
                        ELSE EndProjection(ClearPending(m, m.ev),
                                           IF m.err = "pending" THEN "done" ELSE m.err)
              /\ NoFault
           \/ mem' = EndProjection(Blocks(m), m.err) /\ Fault
           \/ mem' = EndProjection(m, "permanent") /\ Permanent
        /\ UNCHANGED db

---------------------------------------------------------------------------
(* start(), the projector and stop().                                      *)

Start ==
    /\ mem.job["start"].pc = "idle"
    /\ mem.state = "new" \/ (mem.state = "blocked" /\ ~ mem.init /\ ~ mem.fatal)
    /\ mem' = [JobTo(mem, "start", "lock") EXCEPT !.state = "starting"]
    /\ NoFault /\ UNCHANGED db

\* The full audit: every accepted event projected, every projected event
\* with its receipt, no receipt without its event.
AuditClean ==
    /\ db.accepted = db.projected
    /\ db.projected = db.receipts

\* The end of _start_workflow once the backlog is drained and audited.
Opens(m) ==
    IF m.state = "starting"
    THEN [JobTo(m, "projector", "wait") EXCEPT !.state = "running", !.init = TRUE,
             !.stopping = FALSE, !.wake = FALSE, !.retryNeeded = FALSE]
    ELSE m

StartDrained ==
    /\ mem.owner = "start" /\ mem.step = "drained"
    /\ mem' = CASE mem.penClean /\ ~ mem.tolerated -> [mem EXCEPT !.step = "audit"]
                [] mem.penClean /\ mem.tolerated -> JobDone(Opens(FreeDrain(mem)), "start")
                [] ~ mem.penClean ->
                     JobDone([FreeDrain(mem) EXCEPT
                                 !.state = IF mem.fatal THEN "failed" ELSE "blocked"], "start")
    /\ NoFault /\ UNCHANGED db

StartAudited ==
    /\ mem.owner = "start" /\ mem.step = "audit"
    /\ \/ /\ mem' = JobDone(IF AuditClean THEN Opens(FreeDrain(mem)) ELSE Fails(FreeDrain(mem)),
                            "start")
          /\ NoFault
       \/ mem' = RaiseOut(mem, FALSE) /\ Fault
    /\ UNCHANGED db

\* The projector's wait ends: a wake-up, or the backoff when it has retries.
ProjectorRuns == mem.retryNeeded \/ mem.wake \/ mem.stopping

ProjectorTurn ==
    /\ mem.job["projector"].pc = "wait"
    /\ ProjectorRuns
    /\ mem' = JobTo([mem EXCEPT !.wake = FALSE], "projector",
                    IF mem.stopping \/ mem.fatal THEN "exited" ELSE "lock")
    /\ NoFault /\ UNCHANGED db

ProjectorDrained ==
    LET clean == (mem.retClean \/ mem.retained = {}) /\ mem.penClean
        m == JobTo(FreeDrain(mem), "projector", "wait")
    IN  /\ mem.owner = "projector" /\ mem.step = "drained"
        /\ mem' = IF clean THEN ClearTransientBlock([m EXCEPT !.retryNeeded = FALSE])
                  ELSE [m EXCEPT !.retryNeeded = TRUE]
        /\ NoFault /\ UNCHANGED db

Stop ==
    /\ mem.job["stop"].pc = "idle" /\ mem.state # "stopped"
    /\ mem' = IF mem.state = "new" THEN [mem EXCEPT !.state = "stopped"]
              ELSE [JobTo(mem, "stop", "start") EXCEPT !.state = "stopping"]
    /\ NoFault /\ UNCHANGED db

\* _stop_workflow has joined a running start and holds _lifecycle.
StopBegins ==
    /\ mem.job["stop"].pc = "start" /\ mem.job["start"].pc = "idle"
    /\ mem' = [JobTo(mem, "stop", "sessions") EXCEPT !.state = "stopping"]
    /\ NoFault /\ UNCHANGED db

\* _session_drain is set and the session and key-mutation tasks have ended.
SessionsDrained ==
    /\ \A s \in Sessions : mem.pc[s] \in {"none", "terminal"}
    /\ \A j \in {"update", "reset", "delete"} : mem.job[j].pc = "idle"

StopSessionsDone ==
    /\ mem.job["stop"].pc = "sessions"
    /\ SessionsDrained
    /\ mem' = [JobTo(mem, "stop", "projector") EXCEPT !.stopping = TRUE, !.wake = TRUE]
    /\ NoFault /\ UNCHANGED db

StopProjectorJoined ==
    /\ mem.job["stop"].pc = "projector" /\ mem.job["projector"].pc \in {"idle", "exited"}
    /\ mem' = JobTo(JobDone(mem, "projector"), "stop", "lock")
    /\ NoFault /\ UNCHANGED db

\* mutant: a fatal error is forgiven by a clean final drain.
ForgivesFatal == Unsettled(mem) = {} /\ Live(mem) = {} /\ mem.resetPending = {}
\* terminal_clean, given that the pass and the audit were clean.
TerminalClean ==
    /\ Unsettled(mem) = {}
    /\ Live(mem) = {}
    /\ mem.resetPending = {}
    /\ ~ mem.fatal

StopDrained ==
    /\ mem.owner = "stop" /\ mem.step = "drained"
    /\ mem' = IF (mem.retClean \/ mem.retained = {}) /\ mem.penClean
              THEN [mem EXCEPT !.step = "audit"]
              ELSE JobDone([FreeDrain(mem) EXCEPT !.state = "failed"], "stop")
    /\ NoFault /\ UNCHANGED db

StopAudited ==
    /\ mem.owner = "stop" /\ mem.step = "audit"
    /\ \/ /\ mem' = JobDone(CASE AuditClean /\ TerminalClean ->
                                    [FreeDrain(mem) EXCEPT !.state = "stopped"]
                              [] AuditClean /\ ~ TerminalClean ->
                                    [FreeDrain(mem) EXCEPT !.state = "failed"]
                              [] ~ AuditClean -> Fails(FreeDrain(mem)), "stop")
          /\ NoFault
       \/ mem' = RaiseOut(mem, FALSE) /\ Fault
    /\ UNCHANGED db

---------------------------------------------------------------------------
(* Key mutations.                                                          *)

Mutable == mem.init /\ mem.state \in {"running", "blocked"}

\* update_key(); reset is reset_spent.  A change of rpm or tpm has the guard
\* of a reset and touches, besides, only the rate limiter.
UpdateKey(k, reset) ==
    /\ "update" \in Operations /\ mem.job["update"].pc = "idle" /\ Mutable
    /\ k \notin mem.deleted
    /\ mem.fence[k] = "none"
    /\ reset => ActiveByKey(mem, k) = {}
    /\ mem' = [mem EXCEPT !.fence[k] = "in_flight",
                          !.job["update"] = [pc |-> "lock", key |-> k, flag |-> reset]]
    /\ NoFault /\ UNCHANGED db

\* reset_due_budgets(): the listing of due keys, then its continuation.
ListDueBudgets(k) ==
    /\ "reset" \in Operations /\ mem.job["reset"].pc = "idle" /\ Mutable
    /\ k \in db.due \cap db.active
    /\ mem' = [mem EXCEPT !.job["reset"] = [pc |-> "listed", key |-> k, flag |-> FALSE]]
    /\ NoFault /\ UNCHANGED db

FenceDueKey ==
    LET k == mem.job["reset"].key
        m == [mem EXCEPT !.resetPending = @ \cup {k}, !.fence[k] = "reset"]
    IN  /\ mem.job["reset"].pc = "listed"
        /\ mem' = IF k \in mem.deleted \/ mem.fence[k] \notin {"none", "reset"}
                  THEN JobDone(mem, "reset")
                  ELSE IF ActiveByKey(mem, k) # {} THEN JobDone(m, "reset")
                  ELSE JobTo(m, "reset", "lock")
        /\ NoFault /\ UNCHANGED db

\* delete_key(); flag remembers that a reset was pending.
DeleteKey(k) ==
    /\ "delete" \in Operations /\ mem.job["delete"].pc = "idle" /\ Mutable
    /\ k \notin mem.deleted
    /\ mem.fence[k] = "none" \/ k \in mem.resetPending
    /\ mem' = [mem EXCEPT !.fence[k] = "closed",
                          !.job["delete"] = [pc |-> "lock", key |-> k,
                                             flag |-> k \in mem.resetPending]]
    /\ NoFault /\ UNCHANGED db

Mutators == {"update", "reset"} \cup Sessions
MutatedKey == IF mem.owner \in Sessions THEN KeyOf[mem.owner] ELSE mem.job[mem.owner].key

\* The verdict of _drain_before_key_mutation_locked.
BacklogDrained == mem.retClean /\ mem.penClean /\ Unsettled(mem) = {}

MutatorDrained ==
    /\ mem.owner \in Mutators /\ mem.step = "drained"
    /\ mem' = IF BacklogDrained THEN [mem EXCEPT !.step = "mutate"] ELSE RaiseOut(mem, FALSE)
    /\ NoFault /\ UNCHANGED db

\* mutant: zeroing the spend forgets the receipts.
MutationDropsReceipts(d, k) == [d EXCEPT !.spent[k] = 0, !.receipts = {}]
\* The sink after the mutation of key k by the holder of the drain:
\* update_accounting_key, reset_due_accounting_budgets (of a key still due)
\* or delete_to_accounting_tombstone.
MutatedBy(d, k) ==
    IF k \notin d.active THEN d
    ELSE CASE mem.owner = "delete" -> [d EXCEPT !.active = @ \ {k}]
           [] mem.owner = "update" ->
                IF mem.job["update"].flag THEN [d EXCEPT !.spent[k] = 0] ELSE d
           [] OTHER -> IF k \in d.due THEN [d EXCEPT !.spent[k] = 0, !.due = @ \ {k}] ELSE d

\* The record the call returns, as its spent_usd; none when no row changed.
ReturnedRecord(d, k) ==
    IF k \notin db.active \/ (mem.owner \notin {"update", "delete"} /\ k \notin db.due) THEN {}
    ELSE {d.spent[k]}

MutateSink ==
    LET d == MutatedBy(db, MutatedKey)
    IN  /\ mem.step = "mutate"
        /\ \/ /\ mem' = [mem EXCEPT !.step = "applied", !.record = ReturnedRecord(d, MutatedKey)]
              /\ db' = d /\ NoFault
           \/ mem' = RaiseOut(mem, FALSE) /\ Failed(d) /\ Fault

\* _sync_key_record: reset_record overwrites the spent amount of the ledger.
SyncKeyRecord(m, k, record) ==
    IF record = {} THEN m
    ELSE [m EXCEPT !.known = @ \cup {k}, !.ledger[k] = CHOOSE v \in record : TRUE]

\* The mutation is back on the event loop and gives the drain lock up.
MutationApplied ==
    LET o == mem.owner
        k == MutatedKey
        m == FreeDrain(mem)
        synced == SyncKeyRecord(m, k, mem.record)
        reset == Unfence([synced EXCEPT !.resetPending = @ \ {k}], k, "reset")
        deleted == [m EXCEPT !.deleted = @ \cup {k}, !.resetPending = @ \ {k}]
    IN  /\ mem.step = "applied"
        /\ mem' = CASE o = "update" -> JobDone(Unfence(synced, k, "in_flight"), o)
                    [] o = "reset" -> JobDone(reset, o)
                    [] o \in Sessions -> [reset EXCEPT !.pc[o] = "terminal"]
                    [] o = "delete" /\ mem.record = {} -> RaiseOut(mem, FALSE)
                    [] o = "delete" /\ mem.record # {} ->
                         JobDone(IF ActiveByKey(m, k) = {} THEN Discard(deleted, k) ELSE deleted, o)
        /\ NoFault /\ UNCHANGED db

\* The process dies and starts again: only the databases survive.
Crash ==
    /\ mem.state # "new" /\ crashes < MaxCrashes
    /\ mem' = InitMem([s \in Sessions |-> IF mem.pc[s] = "none" THEN "none" ELSE "terminal"])
    /\ crashes' = crashes + 1
    /\ UNCHANGED <<db, faults, perms>>

---------------------------------------------------------------------------
Next ==
    \/ \E s \in Sessions :
          \/ Reserve(s) \/ Release(s) \/ ReleaseSession(s)
          \/ Commit(s) \/ SourceAccept(s) \/ SourceAnswered(s) \/ RetryResolved(s)
    \/ \E o \in Sessions \cup Jobs : TakeDrain(o)
    \/ RetainedBatch
    \/ \E e \in Sessions : RetryAccept(e) \/ DrainPending(e)
    \/ ListPending \/ PassEnds
    \/ ApplySpendEvent \/ MarkProjected \/ MarkFailed
    \/ Start \/ StartDrained \/ StartAudited
    \/ ProjectorTurn \/ ProjectorDrained
    \/ Stop \/ StopBegins \/ StopSessionsDone \/ StopProjectorJoined
    \/ StopDrained \/ StopAudited
    \/ \E k \in Keys :
          \/ \E reset \in BOOLEAN : UpdateKey(k, reset)
          \/ ListDueBudgets(k) \/ DeleteKey(k)
    \/ FenceDueKey \/ MutatorDrained \/ MutateSink \/ MutationApplied
    \/ Crash

\* The steps of the holder of the drain lock.
HolderSteps ==
    \/ RetainedBatch \/ ListPending \/ PassEnds
    \/ \E e \in Sessions : RetryAccept(e) \/ DrainPending(e)
    \/ ApplySpendEvent \/ MarkProjected \/ MarkFailed
    \/ StartDrained \/ StartAudited \/ ProjectorDrained \/ StopDrained \/ StopAudited
    \/ MutatorDrained \/ MutateSink \/ MutationApplied

\* Tasks on the loop and threads make progress; asyncio.Lock is first come,
\* first served; a request handler ends its reservation one way or the other.
Fairness ==
    /\ WF_vars(HolderSteps)
    /\ \A o \in Sessions \cup Jobs : SF_vars(TakeDrain(o))
    /\ \A s \in Sessions :
          /\ WF_vars(Release(s) \/ Commit(s))
          /\ WF_vars(ReleaseSession(s))
          /\ WF_vars(SourceAccept(s))
          /\ WF_vars(SourceAnswered(s))
          /\ WF_vars(RetryResolved(s))
    /\ WF_vars(ProjectorTurn)
    /\ WF_vars(StopBegins) /\ WF_vars(StopSessionsDone) /\ WF_vars(StopProjectorJoined)
    /\ WF_vars(FenceDueKey)

Spec == Init /\ [][Next]_vars
FairSpec == Spec /\ Fairness

---------------------------------------------------------------------------
(* Properties.                                                             *)

Answers == {"none", "accepted", "transient", "permanent"}
JobType == [pc : JobPcs, key : Keys \cup {NoKey}, flag : BOOLEAN]
MemoryType ==
    [state : States, fatal : BOOLEAN, init : BOOLEAN,
     pc : [Sessions -> SessionPcs], liable : SUBSET Sessions,
     answer : [Sessions -> Answers], future : [Sessions -> {"none", "receipt", "error"}],
     retained : SUBSET Sessions, inflight : SUBSET Sessions, pending : SUBSET Sessions,
     ledger : [Keys -> Nat], reserved : SUBSET Sessions, known : SUBSET Keys,
     fence : [Keys -> Fences], resetPending : SUBSET Keys, deleted : SUBSET Keys,
     wake : BOOLEAN, retryNeeded : BOOLEAN, stopping : BOOLEAN,
     job : [Jobs -> JobType],
     owner : Sessions \cup Jobs \cup {"free"}, step : DrainSteps, todo : SUBSET Sessions,
     ev : Sessions \cup {NoEvent}, from : {"session", "retained", "pending"},
     ok : BOOLEAN, retClean : BOOLEAN, penClean : BOOLEAN, tolerated : BOOLEAN,
     err : {"none", "pending", "tolerated", "permanent"},
     record : SUBSET Nat]
DatabaseType ==
    [accepted : SUBSET Sessions, projected : SUBSET Sessions, receipts : SUBSET Sessions,
     spent : [Keys -> Nat], active : SUBSET Keys, due : SUBSET Keys]

\* Every table of the service and of the databases stays in its type.
TypeOK == mem \in MemoryType /\ db \in DatabaseType

Contract ==
    INSTANCE SpendContract WITH Events <- Sessions, accepted <- db.accepted,
                                charged <- db.receipts, spent <- db.spent

\* The durable tables keep the spend contract through retries, ambiguous
\* commits, key mutations and crashes between the sink and the source: no
\* event is charged twice, none before it was accepted.
ChargesOnce == Contract!Spec

\* The ledger holds a reservation exactly for the sessions still to be
\* charged or released: none leaks, which would eat the key's budget for
\* good, and none is given back twice, which would free another's.
ReservationsBalance == mem.reserved = {s \in Live(mem) : s \notin mem.liable}

\* Every accepted event not projected yet is in one of the three tables the
\* service counts as unsettled, so neither the end of a block nor a clean
\* stop can overlook it.  A permanent failure met by the retry a key mutation
\* makes is the exception: it drops the event from its table and the service
\* goes on (_retry_retained_locked raises, and the mutation only passes it on).
UnsettledTracked ==
    (mem.init /\ ~ mem.fatal /\ (Operations = {} \/ perms = 0)) =>
        db.accepted \ db.projected \subseteq Unsettled(mem)

\* stop() reports STOPPED only with every accepted event charged and marked,
\* after no fatal error, and with no request, reset, key mutation or
\* projector left that could write again.
StoppedSettled ==
    (mem.state = "stopped" /\ mem.init) =>
        /\ db.accepted = db.projected /\ db.projected = db.receipts
        /\ ~ mem.fatal
        /\ \A s \in Sessions : mem.pc[s] \in {"none", "terminal"}
        /\ \A j \in Jobs : mem.job[j].pc = "idle"
        /\ mem.reserved = {} /\ mem.owner = "free"

\* The service's tables agree with each other and with the databases, through
\* retries, ambiguous commits, key mutations, a permanent failure and crashes:
\* reservations follow the sessions still owed a charge, no accepted event
\* drops out of the backlog, and STOPPED is reported on settled books only.
BooksBalance == TypeOK /\ ReservationsBalance /\ UnsettledTracked /\ StoppedSettled

\* While requests are admitted the ledger knows at least what the sink has
\* charged to the key, apart from events whose acceptance is still on its way
\* back from the source (their reservation is held), so that no part of the
\* budget is granted twice.
LedgerCovers ==
    mem.state = "running" =>
        \A k \in mem.known :
            {s \in mem.inflight : KeyOf[s] = k} = {} => mem.ledger[k] >= db.spent[k]

\* What a key has spent and reserved exceeds its budget by no more than what
\* the requests charged so far cost above their estimate.
BudgetHeld ==
    \A k \in Keys :
        mem.ledger[k] + Estimate * Cardinality({s \in mem.reserved : KeyOf[s] = k})
            <= Budget + MapThenSumSet(LAMBDA s : IF Cost[s] > Estimate THEN Cost[s] - Estimate ELSE 0,
                                      {s \in mem.liable \cup db.receipts : KeyOf[s] = k})

\* A budget period ends on settled books: spent_usd is zeroed only when every
\* accepted event of the key has been charged, so that no request of the old
\* period is billed to the new one.
ResetsSettled ==
    [][\A k \in Keys : db'.spent[k] < db.spent[k] =>
          {e \in db.accepted \ db.receipts : KeyOf[e] = k} = {}]_vars

\* A commit whose source write failed gets its answer.
RetryAnswered == \A s \in Sessions : mem.pc[s] = "retrying" ~> mem.pc[s] # "retrying"

\* An accepted event that is not projected while the service runs, a commit
\* without its answer, a stop without its verdict, or admission still closed.
AccountingPending ==
    \/ mem.init /\ mem.state \notin {"new", "failed"} /\ ~(db.accepted \subseteq db.projected)
    \/ \E s \in Sessions : mem.pc[s] = "retrying"
    \/ mem.state = "stopping"
    \/ mem.init /\ mem.state = "blocked"

\* After a passing failure an accepted event is projected in the end, a commit
\* whose source write failed gets its answer, a stop comes to its verdict and
\* admission opens again: always, at some later time, none of these is pending.
AccountingSettles == []<>~AccountingPending

===========================================================================
