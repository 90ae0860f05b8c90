------------------------------ MODULE Serving ------------------------------
(***************************************************************************)
(* One request through the layers that own something for it: admission in  *)
(* middleware/auth.py (reservation, rate-limit admission, active-request   *)
(* entry), the response observation middleware that validates what the     *)
(* endpoint sends and settles the owner before the client sees the end,    *)
(* the one-shot terminal owner (api/v1/chat_accounting.py and              *)
(* operation_accounting.py), the finalizer task, the transport callback,   *)
(* and the cleanup on the way out.  Any await may raise, the client may    *)
(* leave, the request task may be cancelled, and the task supervisor may   *)
(* be closing.  What commit and release do is Accounting's business: here  *)
(* the reservation is handed over, and that must happen exactly once.      *)
(***************************************************************************)
EXTENDS Naturals

Kinds == {"chat", "operation", "rate"}   \* "rate": a route with a rate limit and no billing policy
Modes == {"json", "sse", "opaque"}
Reasons == {"complete", "upstream", "protocol", "empty", "disconnect", "cancelled"}

VARIABLE sv   \* the request; see SVInit for its fields

SVInit ==
  sv \in [pc : {"arrive"}, kind : Kinds,
          streaming : BOOLEAN,            \* the request asked for a stream
          context : {FALSE},              \* accounting context in the scope
          active : {FALSE},               \* entry of the active-requests registry
          rate : {"none"},                \* admission taken by _admit_rate_limit_only
          published : {FALSE},            \* a ResponseObservation is published
          owner : {"none"},               \* terminal owner: "none", "open" or "closed"
          free : {FALSE},                 \* released_without_charge
          obs : {"none"},                 \* terminal observation: "none", "ready" or "taken"
          mode : {"none"}, ok : {TRUE},   \* captured response start
          passed : {FALSE},               \* a start was sent before the publication
          started : {FALSE}, completed : {FALSE},
          settled : {FALSE}, leases : {FALSE},
          gone : {FALSE},                 \* http.disconnect received
          fin : {"none"}, signal : {"none"},
          then : {"none"}, reason : {"none"},
          error : {"none"},               \* what the middleware's handler is dealing with
          handed : {0},                   \* history: times the reservation went to accounting
          outcome : {"none"},             \* history: "held", "charged", "failed" or "released"
          client : {"nothing"},           \* what the client has seen
          supervisor : {"open"}]

Goto(s, pc) == [s EXCEPT !.pc = pc]
Raise(s, error) == [s EXCEPT !.pc = "handler", !.error = error]

\* mutant: the owner is released whatever its state
ReleaseAgain(s) ==
  IF s.owner # "none"
  THEN [s EXCEPT !.owner = "closed", !.handed = @ + 1, !.outcome = "released"] ELSE s

\* _release_if_open of either owner.
ReleaseIfOpen(s) ==
  IF s.owner = "open"
  THEN [s EXCEPT !.owner = "closed", !.handed = @ + 1, !.outcome = "released"] ELSE s

-----------------------------------------------------------------------------
(* Admission.                                                              *)

\* _prepare_api_key_auth ends without an admission.
Reject == sv.pc = "arrive" /\ sv' = Goto(sv, "over")

\* _admit_accounting_if_needed, undone when a step after the reservation fails.
AdmitAccounting ==
  /\ sv.pc = "arrive" /\ sv.kind # "rate"
  /\ \/ sv' = [sv EXCEPT !.pc = "prepare", !.context = TRUE, !.active = TRUE, !.outcome = "held"]
     \/ sv' = [sv EXCEPT !.pc = "over", !.handed = 1, !.outcome = "released"]

AdmitRateLimitOnly ==
  /\ sv.pc = "arrive" /\ sv.kind = "rate"
  /\ sv' = [sv EXCEPT !.pc = "app", !.rate = "open"]

\* prepare_chat_response_observation: it may fail before or after it has taken
\* the owner; an operation's endpoint takes its owner itself.
PrepareChat ==
  /\ sv.pc = "prepare" /\ sv.kind = "chat"
  /\ \/ sv' = [sv EXCEPT !.pc = "app", !.context = FALSE, !.owner = "open", !.published = TRUE]
     \/ sv' = Raise(sv, "other")
     \/ sv' = Raise([sv EXCEPT !.context = FALSE, !.owner = "closed",
                                !.handed = @ + 1, !.outcome = "released"], "other")
PrepareOther == sv.pc = "prepare" /\ sv.kind = "operation" /\ sv' = Goto(sv, "app")

\* take_operation_terminal_owner; the context goes back if publishing fails.
TakeOperationOwner ==
  /\ sv.pc = "app" /\ sv.kind = "operation" /\ sv.context
  /\ \/ sv' = [sv EXCEPT !.context = FALSE, !.owner = "open", !.published = TRUE]
     \/ sv' = Raise(sv, "other")

-----------------------------------------------------------------------------
(* The endpoint.                                                           *)

InApp == sv.pc = "app"

\* The dispatch or the operation knows its terminal observation.
PublishObservation ==
  /\ InApp /\ sv.owner = "open" /\ sv.obs = "none"
  /\ sv' = [sv EXCEPT !.obs = "ready"]

\* release_operation: the result costs nothing.
ReleaseOperation ==
  /\ InApp /\ sv.kind = "operation" /\ sv.owner = "open" /\ sv.obs = "none"
  /\ \/ sv' = [ReleaseIfOpen(sv) EXCEPT !.free = TRUE]
     \/ sv' = Raise(ReleaseIfOpen(sv), "other")

\* _classify_json and _classify_opaque of the chat owner, of the operation owner.
ClassifyChat(s) ==
  IF ~s.ok THEN "upstream" ELSE IF s.streaming \/ s.mode = "opaque" THEN "protocol" ELSE "complete"
ClassifyBoundResponse(s) ==
  IF ~s.ok THEN "upstream" ELSE IF s.obs = "none" /\ ~s.free THEN "protocol" ELSE "complete"
ClassifyWhole(s) == IF s.kind = "chat" THEN ClassifyChat(s) ELSE ClassifyBoundResponse(s)

\* _classify_sse of either, at the terminal event; had: the observation was there before it.
ClassifyChatSse(s) == IF ~s.ok THEN "upstream" ELSE IF ~s.streaming THEN "protocol" ELSE "complete"
ClassifyOperationSse(s, had) ==
  IF ~s.ok THEN "upstream" ELSE IF s.obs # "ready" \/ had THEN "protocol" ELSE "complete"

\* mutant: a finalizer that cannot be started leaves its owner open
FinalizeForgets(s, reason) ==
  IF s.fin # "none" THEN s
  ELSE IF s.supervisor = "open" THEN [s EXCEPT !.fin = "running", !.signal = reason]
  ELSE [s EXCEPT !.fin = "refused", !.signal = reason]

\* ResponseFinalizer.finalize: the first signal starts the task, others join it.
Finalize(s, reason) ==
  IF s.fin # "none" THEN s
  ELSE IF s.supervisor = "open" THEN [s EXCEPT !.fin = "running", !.signal = reason]
  ELSE [ReleaseIfOpen(s) EXCEPT !.fin = "refused", !.signal = reason]

Settle(s, reason, then) == [Finalize(s, reason) EXCEPT !.pc = "await", !.reason = reason, !.then = then]

\* http.response.start: passed on when nothing is published, else captured.
SendStart ==
  /\ InApp /\ sv.mode = "none"
  /\ \E m \in Modes, ok \in BOOLEAN :
       LET s == [sv EXCEPT !.mode = m, !.ok = ok] IN
       \/ ~sv.published /\ sv' = [s EXCEPT !.passed = TRUE, !.client = "part"]
       \/ sv.published /\ m # "opaque" /\ sv' = s
       \/ sv.published /\ m = "opaque" /\ sv' = Settle(s, ClassifyWhole(s), "start")

\* A body message of an unobserved response.
PassBody ==
  /\ InApp /\ sv.passed /\ ~sv.published
  /\ sv' = [sv EXCEPT !.completed = TRUE, !.client = "whole"]
\* ... or of one that was published after its start had gone.
LateBody == InApp /\ sv.passed /\ sv.published /\ ~sv.completed /\ sv' = Raise(sv, "protocol")

Observed == InApp /\ sv.published /\ ~sv.passed /\ sv.mode # "none" /\ ~sv.completed

\* The buffer limit, the shared capacity, the framer or observe_body_chunk fails.
RefuseBody == Observed /\ \E e \in {"protocol", "accounting"} : sv' = Raise(sv, e)

\* _send_json: retained until the last message, then classified.
SendJson ==
  /\ Observed /\ sv.mode = "json" /\ ~sv.started
  /\ \/ sv' = [sv EXCEPT !.leases = TRUE]
     \/ sv' = Settle([sv EXCEPT !.leases = TRUE], ClassifyWhole(sv), "last")

\* _send_sse before the terminal event: retained, or sent at an event boundary.
SendSse ==
  /\ Observed /\ sv.mode = "sse" /\ ~sv.settled
  /\ \/ sv' = [sv EXCEPT !.leases = TRUE]
     \/ sv' = [sv EXCEPT !.leases = FALSE, !.started = TRUE, !.client = "part"]
     \/ sv' = Settle([sv EXCEPT !.leases = TRUE], IF sv.ok THEN "empty" ELSE "upstream", "last")
\* The terminal event, which may carry the observation of the stream.
SendTerminalSse ==
  /\ Observed /\ sv.mode = "sse" /\ ~sv.settled
  /\ \E then \in {"open", "last"}, obs \in {sv.obs, "ready"} :
       LET s == [sv EXCEPT !.leases = TRUE, !.obs = obs]
           reason == IF s.kind = "chat" THEN ClassifyChatSse(s) ELSE ClassifyOperationSse(s, sv.obs = "ready") IN
       \/ sv' = Settle(s, reason, then)
       \/ s.ok /\ sv' = Settle(s, "upstream", then)   \* the event reports an error
SendAfterTerminal ==
  /\ Observed /\ sv.mode \in {"sse", "opaque"} /\ sv.settled
  /\ \/ sv' = [sv EXCEPT !.completed = TRUE, !.client = "whole"]
     \/ sv.mode = "sse" /\ sv' = Raise(sv, "protocol")
     \/ sv' = Raise(sv, "other")

-----------------------------------------------------------------------------
(* The finalizer task, and the request task waiting for it.                *)

\* What _finalize makes of the first signal: a charge, or a release.  A chat that
\* broke off after a good start pays for what it has observed.
FinalizeChat(s) ==
  s.signal = "complete" \/ (s.signal \in {"disconnect", "cancelled"} /\ s.mode # "none" /\ s.ok)
FinalizeOperation(s) == s.signal = "complete" /\ ~s.free
Charges(s) == IF s.kind = "chat" THEN FinalizeChat(s) ELSE FinalizeOperation(s)

\* _commit takes the observation and hands the reservation over; it may fail.
CommitOwner ==
  /\ sv.fin = "running" /\ Charges(sv) /\ sv.obs = "ready" /\ sv.owner = "open"
  /\ \E done \in BOOLEAN :
       sv' = [sv EXCEPT !.obs = "taken", !.owner = "closed", !.handed = @ + 1,
                        !.outcome = IF done THEN "charged" ELSE "failed",
                        !.fin = IF done THEN "done" ELSE "failed"]
\* Nothing to charge with: an error if the response was complete, else a release.
CommitWithout ==
  /\ sv.fin = "running" /\ Charges(sv) /\ ~(sv.obs = "ready" /\ sv.owner = "open")
  /\ sv' = [(IF sv.kind = "chat" THEN ReleaseIfOpen(sv) ELSE sv)
              EXCEPT !.fin = IF sv.signal = "complete" THEN "failed" ELSE "done"]
ReleaseOwner ==
  /\ sv.fin = "running" /\ ~Charges(sv)
  /\ \E end \in {"done"} \cup (IF sv.owner = "open" THEN {"failed"} ELSE {}) :
       sv' = [ReleaseIfOpen(sv) EXCEPT !.fin = end]
RunFinalizer == CommitOwner \/ CommitWithout \/ ReleaseOwner

\* mutant: the response goes out without waiting for the accounting
FlushFirst ==
  /\ sv.pc = "await" /\ sv.then \in {"start", "open", "last"}
  /\ sv' = [Goto(sv, "app") EXCEPT !.settled = TRUE, !.started = TRUE, !.leases = FALSE,
              !.completed = sv.then = "last", !.client = IF sv.then = "start" THEN "part" ELSE "whole"]

\* The response waited for its accounting: now the client gets it, or not.
FlushSettled ==
  /\ sv.pc = "await" /\ sv.then \in {"start", "open", "last"} /\ sv.fin \in {"done", "failed", "refused"}
  /\ LET s == [sv EXCEPT !.settled = TRUE, !.then = "none"] IN
     \/ sv.fin # "done" /\ sv' = Raise(sv, "accounting")
     \/ sv.fin = "done" /\ sv.reason \in {"protocol", "empty"} /\ sv' = Raise(s, "protocol")
     \/ /\ sv.fin = "done" /\ sv.reason \notin {"protocol", "empty"}
        /\ \/ sv' = [Goto(s, "app") EXCEPT !.started = TRUE, !.leases = FALSE,
                       !.completed = sv.then = "last",
                       !.client = IF sv.then = "start" THEN "part" ELSE "whole"]
           \/ sv' = Raise([s EXCEPT !.client = "part"], "other")   \* a send fails

\* Cancellation of the request task at one of its awaits.
Cancel ==
  \/ sv.pc \in {"prepare", "app"} /\ sv' = Raise(sv, "cancelled")
  \/ sv.pc = "await" /\ sv.then # "abort" /\ sv' = Raise(sv, "cancelled")
  \/ sv.pc = "await" /\ sv.then = "abort" /\ sv' = Goto(sv, "finally")   \* the abort swallows it

Disconnect == InApp /\ ~sv.gone /\ sv' = [sv EXCEPT !.gone = TRUE]
DisconnectRaised == InApp /\ sv.gone /\ sv' = Raise(sv, "disconnect")
EndpointRaises == InApp /\ sv' = Raise(sv, "other")
SupervisorCloses == sv.supervisor = "open" /\ sv.pc # "over" /\ sv' = [sv EXCEPT !.supervisor = "closed"]

-----------------------------------------------------------------------------
(* The way out of ResponseObservationMiddleware and of the auth layer.     *)

Abort(s, reason) == IF s.published /\ ~s.settled THEN Settle(s, reason, "abort") ELSE Goto(s, "finally")

\* The endpoint returned.
EndpointReturns ==
  /\ InApp
  /\ LET bound == sv.published /\ ~sv.passed /\ sv.mode # "none" IN
     \/ sv.published /\ sv.gone /\ ~sv.completed /\ sv' = Abort(sv, "disconnect")
     \/ bound /\ sv.completed /\ sv' = Goto(sv, "finally")
     \/ /\ sv.published /\ ~sv.completed /\ ~sv.gone
        /\ sv' = [Abort([sv EXCEPT !.error = IF sv.started \/ sv.passed THEN "none" ELSE "protocol"],
                        IF bound THEN "empty" ELSE "protocol") EXCEPT !.then = "abort"]
     \/ sv.published /\ sv.passed /\ sv.completed /\ sv' = Abort(sv, "protocol")
     \/ ~sv.published /\ sv' = Goto(sv, "finally")

\* The except clauses.
Handle ==
  /\ sv.pc = "handler"
  /\ sv' = Abort(sv, CASE sv.error = "cancelled" -> "cancelled" [] sv.error = "disconnect" -> "disconnect"
                       [] sv.error = "protocol" -> "protocol" [] OTHER -> "upstream")

\* mutant: an abort that only hears of a finalizer that succeeded
AbortAwaitsSuccess == sv.pc = "await" /\ sv.then = "abort" /\ sv.fin = "done" /\ sv' = Goto(sv, "finally")

\* _abort_bound waits for the finalizer, and swallows what it raises.
EndAbort ==
  /\ sv.pc = "await" /\ sv.then = "abort" /\ sv.fin \in {"done", "failed", "refused"}
  /\ sv' = Goto(sv, "finally")

\* _send_safe_failure where nothing was sent; release_capacity; the transport
\* callback of the owner, which drops the active-request entry even if it raises.
FinishTransport ==
  /\ sv.pc = "finally"
  /\ sv' = [sv EXCEPT !.pc = "cleanup", !.leases = FALSE,
              !.active = IF sv.published THEN FALSE ELSE @,
              !.client = IF sv.error \in {"protocol", "accounting"} /\ ~sv.started /\ ~sv.passed
                         THEN "error" ELSE @]

\* mutant: the cleanup trusts the observation to own everything
CleanupSkipsRate ==
  /\ sv.pc = "cleanup"
  /\ sv' = IF sv.published THEN Goto(sv, "over")
           ELSE [sv EXCEPT !.pc = "over", !.rate = IF @ = "open" THEN "closed" ELSE @,
                   !.context = FALSE, !.active = FALSE]

\* _cleanup_auth_ownership.
CleanupAuthOwnership ==
  /\ sv.pc = "cleanup"
  /\ LET s == [sv EXCEPT !.pc = "over", !.rate = IF @ = "open" THEN "closed" ELSE @] IN
     sv' = IF sv.published THEN s
           ELSE [s EXCEPT !.context = FALSE, !.active = FALSE,
                   !.handed = IF sv.context THEN @ + 1 ELSE @,
                   !.outcome = IF sv.context THEN "released" ELSE @]

RequestStep == \/ AdmitAccounting \/ AdmitRateLimitOnly \/ PrepareChat \/ PrepareOther
               \/ FlushSettled \/ Handle \/ EndAbort \/ FinishTransport \/ CleanupAuthOwnership
EndpointStep == \/ TakeOperationOwner \/ PublishObservation \/ ReleaseOperation \/ SendStart
                \/ PassBody \/ LateBody \/ RefuseBody \/ SendJson \/ SendSse \/ SendTerminalSse
                \/ SendAfterTerminal \/ DisconnectRaised
EndpointEnds == EndpointReturns \/ EndpointRaises
SVNext == \/ Reject \/ RequestStep \/ EndpointStep \/ EndpointEnds
          \/ RunFinalizer \/ Cancel \/ Disconnect \/ SupervisorCloses
SVSpec == SVInit /\ [][SVNext]_sv

-----------------------------------------------------------------------------
\* Whatever failed, was cancelled or raced, a request that is over has given
\* its reservation to accounting exactly once, holds no rate admission, no
\* active-request entry and no buffer capacity.
NothingLeftBehind ==
  /\ sv.handed <= 1
  /\ sv.pc = "over" /\ sv.fin # "running" =>
       /\ sv.outcome # "held" /\ ~sv.context /\ sv.owner # "open"
       /\ sv.rate # "open" /\ ~sv.active /\ ~sv.leases

\* The end of a successful observed response reaches the client only after its
\* charge was accepted, or after its owner decided that it costs nothing.
PaidBeforeDelivered ==
  (sv.client = "whole" /\ sv.published /\ ~sv.passed /\ sv.ok /\ sv.signal = "complete") =>
     (sv.outcome = "charged" \/ sv.free)

\* A request that arrived and has not ended, or whose finalizer still runs.
RequestPending == sv.pc # "arrive" /\ ~(sv.pc = "over" /\ sv.fin # "running")
=============================================================================
