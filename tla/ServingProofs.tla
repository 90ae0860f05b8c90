---------------------------- MODULE ServingProofs ----------------------------
(***************************************************************************)
(* One request of Serving, whatever its handler, its client and the        *)
(* supervisor do: the reservation is handed over once, nothing is left     *)
(* behind, and the end of a success is delivered only when it is paid.     *)
(* And the limits that requests share, the memory of uploads and the       *)
(* capacity for observed chunks, seen from the leases and from the streams *)
(* that draw on it: what is counted is exactly what is held.               *)
(***************************************************************************)
EXTENDS Serving, UploadAdmission, StreamCapacity, UpstreamStream, Sums, SequenceTheorems

\* The steps a request waits for its finalizer in, how the finalizer may have ended,
\* the fields of the record and the failures a handler is told of.
Thens == {"start", "open", "last", "abort"}
Ended == {"done", "failed", "refused"}
Fields == {"pc", "kind", "streaming", "context", "active", "rate", "published", "owner",
           "free", "obs", "mode", "ok", "passed", "started", "completed", "settled",
           "leases", "gone", "fin", "signal", "then", "reason", "error", "handed",
           "outcome", "client", "supervisor"}
Errors == {"other", "protocol", "accounting", "cancelled", "disconnect"}

\* The type invariant, field by field.
SVTypes(s) ==
  /\ DOMAIN s = Fields
  /\ s.pc \in {"arrive", "prepare", "app", "await", "handler", "finally", "cleanup", "over"}
  /\ s.kind \in Kinds
  /\ s.streaming \in BOOLEAN
  /\ s.context \in BOOLEAN
  /\ s.active \in BOOLEAN
  /\ s.rate \in {"none", "open", "closed"}
  /\ s.published \in BOOLEAN
  /\ s.owner \in {"none", "open", "closed"}
  /\ s.free \in BOOLEAN
  /\ s.obs \in {"none", "ready", "taken"}
  /\ s.mode \in Modes \cup {"none"}
  /\ s.ok \in BOOLEAN
  /\ s.passed \in BOOLEAN
  /\ s.started \in BOOLEAN
  /\ s.completed \in BOOLEAN
  /\ s.settled \in BOOLEAN
  /\ s.leases \in BOOLEAN
  /\ s.gone \in BOOLEAN
  /\ s.fin \in {"none", "running"} \cup Ended
  /\ s.signal \in Reasons \cup {"none"}
  /\ s.then \in Thens \cup {"none"}
  /\ s.reason \in Reasons \cup {"none"}
  /\ s.error \in {"none", "other", "protocol", "accounting", "cancelled", "disconnect"}
  /\ s.handed \in 0..1
  /\ s.outcome \in {"none", "held", "charged", "failed", "released"}
  /\ s.client \in {"nothing", "part", "whole", "error"}
  /\ s.supervisor \in {"open", "closed"}

\* Who answers for the reservation: the auth layer until an owner takes it, then the
\* owner until it is closed, and nobody once it was handed over.
HoldOK(s) ==
  /\ s.outcome = "none" => s.handed = 0
  /\ s.outcome = "held" => s.handed = 0 /\ (s.context \/ s.owner = "open")
  /\ s.context => s.outcome = "held" /\ s.owner = "none" /\ ~s.published
  /\ s.owner = "open" => s.outcome = "held" /\ s.published
  /\ s.kind = "rate" => ~s.context /\ ~s.published
\* The finalizer belongs to a published response; when it has ended its owner is
\* closed, and a signal of success means there is something to charge with.
FinOK(s) ==
  /\ s.fin # "none" => s.published
  /\ s.fin \in Ended => s.owner # "open"
  /\ s.obs = "taken" => s.fin \in Ended
  /\ s.fin = "running" /\ s.signal = "complete" /\ s.kind = "operation" => s.obs # "none" \/ s.free
  /\ s.free => s.owner = "closed"
  /\ s.fin = "done" /\ s.signal = "complete" => s.outcome = "charged" \/ s.free
\* Where the request is.
PlaceOK(s) ==
  /\ s.pc = "arrive" => s.outcome = "none" /\ s.owner = "none" /\ s.rate = "none" /\ ~s.active /\ ~s.leases
  /\ s.pc \in {"arrive", "prepare"} => ~s.published /\ s.fin = "none"
  /\ s.pc = "prepare" => s.context
  /\ s.pc = "app" /\ s.fin # "none" => s.fin = "done" /\ s.settled /\ s.started /\ s.mode # "none"
  /\ s.pc = "await" => s.fin # "none" /\ (s.then # "abort" => s.mode # "none")
  /\ s.pc = "await" => s.then # "none"
  /\ s.pc \in {"finally", "cleanup", "over"} /\ s.published => s.fin # "none"
  /\ s.pc \in {"cleanup", "over"} => ~s.leases /\ (s.published => ~s.active)
  /\ s.pc = "over" => s.rate # "open" /\ ~s.active /\ ~s.context
\* What the client has seen.
SeenOK(s) ==
  /\ s.settled => s.fin = "done"
  /\ s.completed => s.passed \/ s.fin = "done"
  /\ s.client = "whole" => s.passed \/ s.fin = "done"
  /\ s.passed => s.mode # "none"
SVOK(s) == SVTypes(s) /\ HoldOK(s) /\ FinOK(s) /\ PlaceOK(s) /\ SeenOK(s)
SVInv == SVOK(sv)

---------------------------------------------------------------------------
(* The helpers.                                                            *)

\* A request may fail anywhere: the handler is told what, and nothing else changes.
LEMMA RaiseKeeps ==
  ASSUME NEW s, SVOK(s), NEW e \in Errors
  PROVE  SVOK(Raise(s, e))
BY DEF Raise, Errors, SVOK, SVTypes, Fields, HoldOK, FinOK, PlaceOK, SeenOK, Ended

\* The last part of a request is entered with the finalizer of its response started.
LEMMA FinallyKeeps ==
  ASSUME NEW s, SVOK(s), s.published => s.fin # "none"
  PROVE  SVOK(Goto(s, "finally"))
BY DEF Goto, SVOK, SVTypes, Fields, HoldOK, FinOK, PlaceOK, SeenOK, Ended

\* The records the finalizer's first signal leaves are records of a request.
LEMMA SettleTypes ==
  ASSUME NEW s, SVTypes(s), NEW reason \in Reasons, NEW then \in Thens
  PROVE  /\ SVTypes([s EXCEPT !.pc = "await", !.reason = reason, !.then = then])
         /\ SVTypes([s EXCEPT !.fin = "running", !.signal = reason])
         /\ SVTypes([s EXCEPT !.fin = "refused", !.signal = reason])
<1>1. SVTypes([s EXCEPT !.pc = "await", !.reason = reason, !.then = then])
  BY DEF SVTypes, Fields
<1>2. SVTypes([s EXCEPT !.fin = "running", !.signal = reason])
  BY DEF SVTypes, Fields
<1>3. SVTypes([s EXCEPT !.fin = "refused", !.signal = reason])
  BY DEF SVTypes, Fields, Ended
<1> QED BY <1>1, <1>2, <1>3

\* So are those of an owner that has handed over.
LEMMA HandTypes ==
  ASSUME NEW s, SVTypes(s), s.handed = 0, NEW outcome \in {"charged", "failed", "released"}
  PROVE  SVTypes([s EXCEPT !.owner = "closed", !.handed = s.handed + 1, !.outcome = outcome])
BY DEF SVTypes, Fields

\* The first signal starts the finalizer, or closes the owner on the spot; the
\* others join it.
LEMMA SettleKeeps ==
  ASSUME NEW s, SVOK(s), s.published, NEW reason \in Reasons, NEW then \in Thens,
         then # "abort" => s.mode # "none",
         reason = "complete" /\ s.kind = "operation" => s.obs # "none" \/ s.free
  PROVE  SVOK(Settle(s, reason, then))
<1>0. SVTypes(s)
  BY DEF SVOK
<1>1. CASE s.fin # "none"
  <2>1. Settle(s, reason, then) = [s EXCEPT !.pc = "await", !.reason = reason, !.then = then]
    BY <1>1 DEF Settle, Finalize
  <2> DEFINE t == [s EXCEPT !.pc = "await", !.reason = reason, !.then = then]
  <2>2. SVTypes(t)
    BY <1>0, SettleTypes
  <2>3. HoldOK(t) /\ FinOK(t) /\ PlaceOK(t) /\ SeenOK(t)
    BY <1>1 DEF SVOK, SVTypes, Fields, HoldOK, FinOK, PlaceOK, SeenOK, Ended, Thens
  <2> QED BY <2>1, <2>2, <2>3 DEF SVOK
<1>2. CASE s.fin = "none" /\ s.supervisor = "open"
  <2>1. Settle(s, reason, then) = [[s EXCEPT !.fin = "running", !.signal = reason] EXCEPT !.pc = "await", !.reason = reason, !.then = then]
    BY <1>2 DEF Settle, Finalize
  <2> DEFINE t == [[s EXCEPT !.fin = "running", !.signal = reason] EXCEPT !.pc = "await", !.reason = reason, !.then = then]
  <2>2. SVTypes(t)
    BY <1>0, SettleTypes
  <2>3. HoldOK(t) /\ FinOK(t) /\ PlaceOK(t) /\ SeenOK(t)
    BY <1>2 DEF SVOK, SVTypes, Fields, HoldOK, FinOK, PlaceOK, SeenOK, Ended, Thens
  <2> QED BY <2>1, <2>2, <2>3 DEF SVOK
<1>3. CASE s.fin = "none" /\ s.supervisor # "open" /\ s.owner = "open"
  <2>1. Settle(s, reason, then) = [[[s EXCEPT !.owner = "closed", !.handed = s.handed + 1, !.outcome = "released"] EXCEPT !.fin = "refused", !.signal = reason] EXCEPT !.pc = "await", !.reason = reason, !.then = then]
    BY <1>3 DEF Settle, Finalize, ReleaseIfOpen
  <2> DEFINE t == [[[s EXCEPT !.owner = "closed", !.handed = s.handed + 1, !.outcome = "released"] EXCEPT !.fin = "refused", !.signal = reason] EXCEPT !.pc = "await", !.reason = reason, !.then = then]
  <2>0. s.handed = 0
    BY <1>3 DEF SVOK, HoldOK
  <2>2. SVTypes(t)
    BY <1>0, <2>0, SettleTypes, HandTypes
  <2>3. HoldOK(t) /\ FinOK(t) /\ PlaceOK(t) /\ SeenOK(t)
    BY <1>3 DEF SVOK, SVTypes, Fields, HoldOK, FinOK, PlaceOK, SeenOK, Ended, Thens
  <2> QED BY <2>1, <2>2, <2>3 DEF SVOK
<1>4. CASE s.fin = "none" /\ s.supervisor # "open" /\ s.owner # "open"
  <2>1. Settle(s, reason, then) = [[s EXCEPT !.fin = "refused", !.signal = reason] EXCEPT !.pc = "await", !.reason = reason, !.then = then]
    BY <1>4 DEF Settle, Finalize, ReleaseIfOpen
  <2> DEFINE t == [[s EXCEPT !.fin = "refused", !.signal = reason] EXCEPT !.pc = "await", !.reason = reason, !.then = then]
  <2>2. SVTypes(t)
    BY <1>0, SettleTypes
  <2>3. HoldOK(t) /\ FinOK(t) /\ PlaceOK(t) /\ SeenOK(t)
    BY <1>4 DEF SVOK, SVTypes, Fields, HoldOK, FinOK, PlaceOK, SeenOK, Ended, Thens
  <2> QED BY <2>1, <2>2, <2>3 DEF SVOK
<1> QED BY <1>1, <1>2, <1>3, <1>4

\* The way out: what is not settled yet is settled with a signal that is no success.
LEMMA AbortKeeps ==
  ASSUME NEW s, SVOK(s), NEW reason \in Reasons \ {"complete"}
  PROVE  SVOK(Abort(s, reason))
<1>1. CASE s.published /\ ~s.settled
  <2>1. SVOK(Settle(s, reason, "abort"))
    BY <1>1, SettleKeeps DEF Thens
  <2> QED BY <1>1, <2>1 DEF Abort
<1>2. CASE ~(s.published /\ ~s.settled)
  <2>1. s.published => s.fin # "none"
    BY <1>2 DEF SVOK, SeenOK
  <2>2. SVOK(Goto(s, "finally"))
    BY <2>1, FinallyKeeps
  <2> QED BY <1>2, <2>2 DEF Abort
<1> QED BY <1>1, <1>2

\* What a whole response is classified as, and with what a success is charged.
LEMMA ClassifyEffect ==
  ASSUME NEW s
  PROVE  /\ ClassifyWhole(s) \in Reasons
         /\ ClassifyWhole(s) = "complete" /\ s.kind = "operation" => s.obs # "none" \/ s.free
BY DEF ClassifyWhole, ClassifyChat, ClassifyBoundResponse, Reasons

---------------------------------------------------------------------------
(* Admission.                                                              *)

\* Before the application a reservation is taken, or nothing is (_admit_accounting_if_needed).
LEMMA AdmissionKeeps ==
  ASSUME SVInv, Reject \/ AdmitAccounting \/ AdmitRateLimitOnly
  PROVE  SVInv'
<1>0. sv.pc = "arrive"
  BY DEF Reject, AdmitAccounting, AdmitRateLimitOnly
<1>1. CASE sv' = Goto(sv, "over")
  BY <1>0, <1>1 DEF Goto, SVInv, SVOK, SVTypes, Fields, HoldOK, FinOK, PlaceOK, SeenOK, Ended
<1>2. CASE sv.kind # "rate" /\ sv' = [sv EXCEPT !.pc = "prepare", !.context = TRUE, !.active = TRUE, !.outcome = "held"]
  BY <1>0, <1>2 DEF SVInv, SVOK, SVTypes, Fields, HoldOK, FinOK, PlaceOK, SeenOK, Ended
<1>3. CASE sv' = [sv EXCEPT !.pc = "over", !.handed = 1, !.outcome = "released"]
  BY <1>0, <1>3 DEF SVInv, SVOK, SVTypes, Fields, HoldOK, FinOK, PlaceOK, SeenOK, Ended
<1>4. CASE sv' = [sv EXCEPT !.pc = "app", !.rate = "open"]
  BY <1>0, <1>4 DEF SVInv, SVOK, SVTypes, Fields, HoldOK, FinOK, PlaceOK, SeenOK, Ended
<1> QED BY <1>1, <1>2, <1>3, <1>4 DEF Reject, AdmitAccounting, AdmitRateLimitOnly

\* The owner takes the reservation from the context, all or nothing
\* (prepare_chat_response_observation, take_operation_terminal_owner).
LEMMA TakingKeeps ==
  ASSUME SVInv, PrepareChat \/ PrepareOther \/ TakeOperationOwner
  PROVE  SVInv'
<1>0. sv.pc \in {"prepare", "app"} /\ sv.context
  BY DEF PrepareChat, PrepareOther, TakeOperationOwner, InApp, SVInv, SVOK, SVTypes, Fields, HoldOK, FinOK, PlaceOK, SeenOK, Ended
<1>1. CASE sv' = [sv EXCEPT !.pc = "app", !.context = FALSE, !.owner = "open", !.published = TRUE]
  BY <1>0, <1>1 DEF SVInv, SVOK, SVTypes, Fields, HoldOK, FinOK, PlaceOK, SeenOK, Ended
<1>2. CASE sv' = Raise(sv, "other")
  BY <1>2, RaiseKeeps DEF Errors, SVInv
<1>3. CASE sv' = Raise([sv EXCEPT !.context = FALSE, !.owner = "closed", !.handed = @ + 1, !.outcome = "released"], "other")
  BY <1>0, <1>3 DEF Raise, SVInv, SVOK, SVTypes, Fields, HoldOK, FinOK, PlaceOK, SeenOK, Ended
<1>4. CASE sv.pc = "prepare" /\ sv' = Goto(sv, "app")
  BY <1>4 DEF Goto, SVInv, SVOK, SVTypes, Fields, HoldOK, FinOK, PlaceOK, SeenOK, Ended
<1>5. CASE sv.pc = "app" /\ sv' = [sv EXCEPT !.context = FALSE, !.owner = "open", !.published = TRUE]
  BY <1>0, <1>5 DEF SVInv, SVOK, SVTypes, Fields, HoldOK, FinOK, PlaceOK, SeenOK, Ended
<1> QED BY <1>1, <1>2, <1>3, <1>4, <1>5 DEF PrepareChat, PrepareOther, TakeOperationOwner, InApp

---------------------------------------------------------------------------
(* The endpoint.                                                           *)

\* While the endpoint runs nothing is settled, or the last event is (chat_accounting,
\* operation_accounting).
LEMMA ObservationKeeps ==
  ASSUME SVInv, PublishObservation \/ ReleaseOperation
  PROVE  SVInv'
<1>0. sv.pc = "app" /\ sv.owner = "open" /\ sv.obs = "none"
  BY DEF PublishObservation, ReleaseOperation, InApp
<1>1. CASE sv' = [sv EXCEPT !.obs = "ready"]
  BY <1>0, <1>1 DEF SVInv, SVOK, SVTypes, Fields, HoldOK, FinOK, PlaceOK, SeenOK, Ended
<1> DEFINE t == [sv EXCEPT !.owner = "closed", !.handed = @ + 1, !.outcome = "released"]
<1>2. ReleaseIfOpen(sv) = t
  BY <1>0 DEF ReleaseIfOpen
<1>3. SVOK(t)
  BY <1>0 DEF SVInv, SVOK, SVTypes, Fields, HoldOK, FinOK, PlaceOK, SeenOK, Ended
<1>4. CASE sv' = [ReleaseIfOpen(sv) EXCEPT !.free = TRUE]
  <2>1. sv' = [t EXCEPT !.free = TRUE]
    BY <1>2, <1>4
  <2> QED BY <1>0, <2>1 DEF SVInv, SVOK, SVTypes, Fields, HoldOK, FinOK, PlaceOK, SeenOK, Ended
<1>5. CASE sv' = Raise(ReleaseIfOpen(sv), "other")
  <2>1. sv' = Raise(t, "other")
    BY <1>2, <1>5
  <2> QED BY <1>3, <2>1, RaiseKeeps DEF Errors, SVInv
<1> QED BY <1>1, <1>4, <1>5 DEF PublishObservation, ReleaseOperation

\* The start of a response is passed on, captured, or settled at once (an opaque one).
LEMMA StartKeeps ==
  ASSUME SVInv, SendStart
  PROVE  SVInv'
<1>0. PICK m \in Modes, ok \in BOOLEAN :
        LET s == [sv EXCEPT !.mode = m, !.ok = ok] IN
          \/ ~sv.published /\ sv' = [s EXCEPT !.passed = TRUE, !.client = "part"]
          \/ sv.published /\ m # "opaque" /\ sv' = s
          \/ sv.published /\ m = "opaque" /\ sv' = Settle(s, ClassifyWhole(s), "start")
  BY DEF SendStart
<1> DEFINE s == [sv EXCEPT !.mode = m, !.ok = ok]
<1>1. sv.pc = "app" /\ sv.mode = "none"
  BY DEF SendStart, InApp
<1>2. SVOK(s) /\ s.mode = m /\ s.published = sv.published
  BY <1>1 DEF Modes, SVInv, SVOK, SVTypes, Fields, HoldOK, FinOK, PlaceOK, SeenOK, Ended
<1>3. CASE ~sv.published /\ sv' = [s EXCEPT !.passed = TRUE, !.client = "part"]
  BY <1>1, <1>2, <1>3 DEF Modes, SVInv, SVOK, SVTypes, Fields, HoldOK, FinOK, PlaceOK, SeenOK, Ended
<1>4. CASE sv' = s
  BY <1>2, <1>4 DEF SVInv
<1>5. CASE sv.published /\ sv' = Settle(s, ClassifyWhole(s), "start")
  <2>1. s.published /\ s.mode # "none"
    BY <1>2, <1>5 DEF Modes
  <2> HIDE DEF s
  <2> QED BY <1>2, <1>5, <2>1, SettleKeeps, ClassifyEffect DEF Thens, SVInv
<1> QED BY <1>0, <1>3, <1>4, <1>5

\* A message that is passed on, is refused, or ends the endpoint.
LEMMA PassKeeps ==
  ASSUME SVInv, PassBody \/ LateBody \/ RefuseBody \/ DisconnectRaised \/ EndpointRaises
  PROVE  SVInv'
<1>1. CASE PassBody
  <2>0. sv.pc = "app" /\ sv.passed = TRUE /\ sv' = [sv EXCEPT !.completed = TRUE, !.client = "whole"]
    BY <1>1 DEF PassBody, InApp, SVInv, SVOK, SVTypes, Fields, HoldOK, FinOK, PlaceOK, SeenOK, Ended
  <2>1. SVTypes(sv')
    BY <2>0 DEF SVInv, SVOK, SVTypes, Fields
  <2>2. HoldOK(sv') /\ FinOK(sv') /\ PlaceOK(sv') /\ SeenOK(sv')
    BY <2>0 DEF SVInv, SVOK, SVTypes, Fields, HoldOK, FinOK, PlaceOK, SeenOK, Ended
  <2> QED BY <2>1, <2>2 DEF SVInv, SVOK
<1>2. CASE LateBody \/ RefuseBody \/ DisconnectRaised \/ EndpointRaises
  <2>1. \E e \in Errors : sv' = Raise(sv, e)
    BY <1>2 DEF LateBody, RefuseBody, DisconnectRaised, EndpointRaises, Errors
  <2> QED BY <2>1, RaiseKeeps DEF SVInv
<1> QED BY <1>1, <1>2

\* A message of an observed response: held back, sent on, or the last one, with which
\* the response is settled.
LEMMA BodyKeeps ==
  ASSUME SVInv, SendJson \/ SendSse
  PROVE  SVInv'
<1>0. sv.pc = "app" /\ sv.published /\ sv.mode # "none" /\ ~sv.completed
  BY DEF SendJson, SendSse, Observed, InApp
<1> DEFINE s == [sv EXCEPT !.leases = TRUE]
<1>1. SVOK(s) /\ s.published /\ s.mode = sv.mode /\ s.obs = sv.obs /\ s.free = sv.free /\ s.kind = sv.kind
  <2>1. SVTypes(s) /\ s.published = sv.published /\ s.mode = sv.mode /\ s.obs = sv.obs /\ s.free = sv.free /\ s.kind = sv.kind
    BY DEF SVInv, SVOK, SVTypes, Fields
  <2>2. HoldOK(s) /\ FinOK(s) /\ PlaceOK(s) /\ SeenOK(s)
    BY <1>0 DEF SVInv, SVOK, SVTypes, Fields, HoldOK, FinOK, PlaceOK, SeenOK, Ended
  <2> QED BY <1>0, <2>1, <2>2 DEF SVOK
<1>2. CASE sv' = s
  BY <1>1, <1>2 DEF SVInv
<1>3. CASE sv' = [sv EXCEPT !.leases = FALSE, !.started = TRUE, !.client = "part"]
  <2>1. SVTypes(sv')
    BY <1>3 DEF SVInv, SVOK, SVTypes, Fields
  <2>2. HoldOK(sv') /\ FinOK(sv') /\ PlaceOK(sv') /\ SeenOK(sv')
    BY <1>0, <1>3 DEF SVInv, SVOK, SVTypes, Fields, HoldOK, FinOK, PlaceOK, SeenOK, Ended
  <2> QED BY <2>1, <2>2 DEF SVInv, SVOK
<1>4. CASE \E reason \in Reasons : /\ sv' = Settle(s, reason, "last")
                                   /\ reason = "complete" /\ sv.kind = "operation" => sv.obs # "none" \/ sv.free
  <2> HIDE DEF s
  <2> QED BY <1>0, <1>1, <1>4, SettleKeeps DEF Thens, SVInv
<1>5. CASE SendJson
  BY <1>2, <1>4, <1>5, ClassifyEffect DEF SendJson
<1>6. CASE SendSse
  BY <1>2, <1>3, <1>4, <1>6 DEF SendSse, Reasons
<1> QED BY <1>5, <1>6

\* The terminal event may carry what an operation is charged with (_classify_sse).
LEMMA TerminalKeeps ==
  ASSUME SVInv, SendTerminalSse
  PROVE  SVInv'
<1>0. /\ sv.pc = "app" /\ sv.published /\ sv.mode # "none" /\ ~sv.completed
      /\ ~sv.settled
  BY DEF SendTerminalSse, Observed, InApp
<1>1. PICK then \in {"open", "last"}, obs \in {sv.obs, "ready"} :
        LET s == [sv EXCEPT !.leases = TRUE, !.obs = obs]
            reason == IF s.kind = "chat" THEN ClassifyChatSse(s) ELSE ClassifyOperationSse(s, sv.obs = "ready") IN
          \/ sv' = Settle(s, reason, then)
          \/ s.ok /\ sv' = Settle(s, "upstream", then)
  BY DEF SendTerminalSse
<1> DEFINE s == [sv EXCEPT !.leases = TRUE, !.obs = obs]
           reason == IF s.kind = "chat" THEN ClassifyChatSse(s) ELSE ClassifyOperationSse(s, sv.obs = "ready")
<1>2. SVOK(s) /\ s.published /\ s.mode # "none"
  <2>1. SVTypes(s) /\ s.published = sv.published /\ s.mode = sv.mode
    BY DEF SVInv, SVOK, SVTypes, Fields
  <2>2. sv.fin = "none"
    BY <1>0 DEF SVInv, SVOK, PlaceOK
  <2>3. HoldOK(s) /\ FinOK(s)
    BY <1>0, <2>2 DEF SVInv, SVOK, SVTypes, Fields, HoldOK, FinOK, Ended
  <2>4. PlaceOK(s) /\ SeenOK(s)
    BY <1>0, <2>2 DEF SVInv, SVOK, SVTypes, Fields, PlaceOK, SeenOK
  <2> QED BY <1>0, <2>1, <2>3, <2>4 DEF SVOK
<1>3. reason \in Reasons /\ (reason = "complete" /\ s.kind = "operation" => s.obs # "none" \/ s.free)
  <2> HIDE DEF s
  <2> QED BY DEF ClassifyChatSse, ClassifyOperationSse, Reasons
<1>4. sv' = Settle(s, reason, then) \/ sv' = Settle(s, "upstream", then)
  BY <1>1
<1>5. then \in Thens /\ "upstream" \in Reasons
  BY DEF Thens, Reasons
<1> HIDE DEF s, reason
<1> QED BY <1>2, <1>3, <1>4, <1>5, SettleKeeps DEF SVInv

\* After the terminal event there is the end, or an error.
LEMMA AfterTerminalKeeps ==
  ASSUME SVInv, SendAfterTerminal
  PROVE  SVInv'
<1>1. CASE sv' = [sv EXCEPT !.completed = TRUE, !.client = "whole"]
  <2>0. sv.pc = "app" /\ sv.settled = TRUE
    BY DEF SendAfterTerminal, Observed, InApp, SVInv, SVOK, SVTypes, Fields, HoldOK, FinOK, PlaceOK, SeenOK, Ended
  <2>1. SVTypes(sv')
    BY <1>1 DEF SVInv, SVOK, SVTypes, Fields
  <2>2. HoldOK(sv') /\ FinOK(sv') /\ PlaceOK(sv') /\ SeenOK(sv')
    BY <1>1, <2>0 DEF SVInv, SVOK, SVTypes, Fields, HoldOK, FinOK, PlaceOK, SeenOK, Ended
  <2> QED BY <2>1, <2>2 DEF SVInv, SVOK
<1>2. CASE \E e \in Errors : sv' = Raise(sv, e)
  BY <1>2, RaiseKeeps DEF SVInv
<1> QED BY <1>1, <1>2 DEF SendAfterTerminal, Errors

---------------------------------------------------------------------------
(* The finalizer task.                                                     *)

\* A finalizer that ends without a charge leaves the owner closed; it ends well only
\* without a success, or when the result was free.
LEMMA ReleaseEnds ==
  ASSUME SVInv, sv.fin = "running", NEW end \in Ended, end = "done" => sv.signal # "complete" \/ sv.free
  PROVE  SVOK([ReleaseIfOpen(sv) EXCEPT !.fin = end])
<1>0. SVTypes(sv)
  BY DEF SVInv, SVOK
<1>1. CASE sv.owner = "open"
  <2> DEFINE s == [sv EXCEPT !.owner = "closed", !.handed = sv.handed + 1, !.outcome = "released"]
             t == [s EXCEPT !.fin = end]
  <2>1. ReleaseIfOpen(sv) = s
    BY <1>1 DEF ReleaseIfOpen
  <2>2. sv.handed = 0 /\ sv.published = TRUE /\ sv.context = FALSE
    BY <1>0, <1>1 DEF SVInv, SVOK, HoldOK, SVTypes
  <2>3. SVTypes(s)
    BY <1>0, <2>2, HandTypes
  <2>4. SVTypes(t)
    BY <2>3 DEF SVTypes, Fields
  <2>5. HoldOK(t) /\ FinOK(t)
    BY <1>0, <1>1, <2>2 DEF SVInv, SVOK, SVTypes, Fields, HoldOK, FinOK, Ended
  <2>6. PlaceOK(t) /\ SeenOK(t)
    BY <1>0, <1>1, <2>2 DEF SVInv, SVOK, SVTypes, Fields, PlaceOK, SeenOK, Ended
  <2> QED BY <2>1, <2>4, <2>5, <2>6 DEF SVOK
<1>2. CASE sv.owner # "open"
  <2> DEFINE t == [sv EXCEPT !.fin = end]
  <2>1. ReleaseIfOpen(sv) = sv
    BY <1>2 DEF ReleaseIfOpen
  <2>2. SVTypes(t)
    BY <1>0 DEF SVTypes, Fields
  <2>3. HoldOK(t) /\ FinOK(t)
    BY <1>0, <1>2 DEF SVInv, SVOK, SVTypes, Fields, HoldOK, FinOK, Ended
  <2>4. PlaceOK(t) /\ SeenOK(t)
    BY <1>0, <1>2 DEF SVInv, SVOK, SVTypes, Fields, PlaceOK, SeenOK, Ended
  <2> QED BY <2>1, <2>2, <2>3, <2>4 DEF SVOK
<1> QED BY <1>1, <1>2

\* The finalizer hands the reservation over, or closes the owner, or finds it closed:
\* when it ends, the owner is closed, and if it ends well after a success, the
\* charge was accepted (_finalize, _commit).
LEMMA FinalizerKeeps ==
  ASSUME SVInv, RunFinalizer
  PROVE  SVInv'
<1>0. sv.fin = "running" /\ SVTypes(sv)
  BY DEF RunFinalizer, CommitOwner, CommitWithout, ReleaseOwner, SVInv, SVOK
<1>1. CASE CommitOwner
  <2>1. PICK outcome \in {"charged", "failed"}, end \in {"done", "failed"} :
           /\ outcome = "charged" <=> end = "done"
           /\ sv' = [sv EXCEPT !.obs = "taken", !.owner = "closed", !.handed = @ + 1, !.outcome = outcome, !.fin = end]
    <3>1. PICK done \in BOOLEAN :
            sv' = [sv EXCEPT !.obs = "taken", !.owner = "closed", !.handed = @ + 1,
                             !.outcome = IF done THEN "charged" ELSE "failed", !.fin = IF done THEN "done" ELSE "failed"]
      BY <1>1 DEF CommitOwner
    <3>2. CASE done = TRUE
      BY <3>1, <3>2
    <3>3. CASE done = FALSE
      BY <3>1, <3>3
    <3> QED BY <3>2, <3>3
  <2>2. sv.handed = 0 /\ sv.published = TRUE /\ sv.context = FALSE
    BY <1>0, <1>1 DEF CommitOwner, SVInv, SVOK, HoldOK, FinOK, SVTypes
  <2>3. SVTypes([sv EXCEPT !.obs = "taken", !.owner = "closed", !.handed = sv.handed + 1])
    BY <1>0, <2>2 DEF SVTypes, Fields
  <2>4. SVTypes([[sv EXCEPT !.obs = "taken", !.owner = "closed", !.handed = sv.handed + 1] EXCEPT !.outcome = outcome, !.fin = end])
    BY <2>3 DEF SVTypes, Fields, Ended
  <2>5. SVTypes(sv')
    BY <2>1, <2>4
  <2>6. HoldOK(sv') /\ FinOK(sv')
    BY <1>0, <2>1, <2>2 DEF SVInv, SVOK, SVTypes, Fields, HoldOK, FinOK, Ended
  <2>7. PlaceOK(sv') /\ SeenOK(sv')
    BY <1>0, <2>1, <2>2 DEF SVInv, SVOK, SVTypes, Fields, PlaceOK, SeenOK, Ended
  <2> QED BY <2>5, <2>6, <2>7 DEF SVInv, SVOK
<1>2. CASE CommitWithout
  <2> DEFINE end == IF sv.signal = "complete" THEN "failed" ELSE "done"
  <2>1. sv' = [ReleaseIfOpen(sv) EXCEPT !.fin = end]
    <3>1. CASE sv.kind = "chat"
      BY <1>2, <3>1 DEF CommitWithout
    <3>2. CASE sv.kind # "chat"
      <4>1. sv.owner # "open"
        <5>1. sv.signal = "complete" /\ ~sv.free
          BY <1>2, <3>2 DEF CommitWithout, Charges, FinalizeOperation
        <5>2. sv.kind # "operation" => sv.owner # "open"
          BY <3>2 DEF SVInv, SVOK, SVTypes, Kinds, HoldOK
        <5> QED BY <1>0, <1>2, <5>1, <5>2 DEF CommitWithout, SVInv, SVOK, SVTypes, FinOK, Ended
      <4> QED BY <1>2, <3>2, <4>1 DEF CommitWithout, ReleaseIfOpen
    <3> QED BY <3>1, <3>2
  <2>2. end \in Ended /\ (end = "done" => sv.signal # "complete")
    BY DEF Ended
  <2> HIDE DEF end
  <2> QED BY <1>0, <2>1, <2>2, ReleaseEnds DEF SVInv
<1>3. CASE ReleaseOwner
  <2>1. PICK end \in Ended : sv' = [ReleaseIfOpen(sv) EXCEPT !.fin = end]
    BY <1>3 DEF ReleaseOwner, Ended
  <2>2. sv.signal # "complete" \/ sv.free
    BY <1>3 DEF ReleaseOwner, Charges, FinalizeChat, FinalizeOperation
  <2> QED BY <1>0, <2>1, <2>2, ReleaseEnds DEF SVInv
<1> QED BY <1>1, <1>2, <1>3 DEF RunFinalizer

---------------------------------------------------------------------------
(* The request task waits, is cancelled, and finds its way out.            *)

\* The response waited for its accounting: the client gets its end only if the
\* finalizer ended well (_flush_settled).
LEMMA FlushKeeps ==
  ASSUME SVInv, FlushSettled
  PROVE  SVInv'
<1>0. sv.pc = "await" /\ sv.then # "abort" /\ sv.mode # "none" /\ SVTypes(sv)
  BY DEF FlushSettled, SVInv, SVOK, PlaceOK
<1> DEFINE s == [sv EXCEPT !.settled = TRUE, !.then = "none"]
<1>1. CASE sv' = Raise(sv, "accounting")
  BY <1>1, RaiseKeeps DEF Errors, SVInv
<1>2. CASE sv.fin = "done" /\ sv' = Raise(s, "protocol")
  BY <1>0, <1>2 DEF Raise, SVInv, SVOK, SVTypes, Fields, HoldOK, FinOK, PlaceOK, SeenOK, Ended
<1>3. CASE sv.fin = "done" /\ sv' = [Goto(s, "app") EXCEPT !.started = TRUE, !.leases = FALSE, !.completed = sv.then = "last",
                                                          !.client = IF sv.then = "start" THEN "part" ELSE "whole"]
  <2>0. SVTypes([s EXCEPT !.pc = "app"])
    BY <1>0 DEF SVTypes, Fields
  <2>1. SVTypes(sv')
    BY <1>3, <2>0 DEF SVTypes, Fields, Goto
  <2>2. HoldOK(sv') /\ FinOK(sv')
    BY <1>0, <1>3 DEF Goto, SVInv, SVOK, SVTypes, Fields, HoldOK, FinOK, Ended
  <2>3. PlaceOK(sv') /\ SeenOK(sv')
    BY <1>0, <1>3 DEF Goto, SVInv, SVOK, SVTypes, Fields, PlaceOK, SeenOK, Ended
  <2> QED BY <2>1, <2>2, <2>3 DEF SVInv, SVOK
<1>4. CASE sv.fin = "done" /\ sv' = Raise([s EXCEPT !.client = "part"], "other")
  BY <1>0, <1>4 DEF Raise, SVInv, SVOK, SVTypes, Fields, HoldOK, FinOK, PlaceOK, SeenOK, Ended
<1> QED BY <1>1, <1>2, <1>3, <1>4 DEF FlushSettled

\* Cancelled, left by the client, or with the supervisor closing.
LEMMA DisturbedKeeps ==
  ASSUME SVInv, Cancel \/ Disconnect \/ SupervisorCloses
  PROVE  SVInv'
<1>1. CASE sv' = Raise(sv, "cancelled")
  BY <1>1, RaiseKeeps DEF Errors, SVInv
<1>2. CASE sv.pc = "await" /\ sv' = Goto(sv, "finally")
  <2>1. sv.fin # "none"
    BY <1>2 DEF SVInv, SVOK, PlaceOK
  <2> QED BY <1>2, <2>1, FinallyKeeps DEF SVInv
<1>3. CASE sv' = [sv EXCEPT !.gone = TRUE]
  BY <1>3 DEF SVInv, SVOK, SVTypes, Fields, HoldOK, FinOK, PlaceOK, SeenOK, Ended
<1>4. CASE sv' = [sv EXCEPT !.supervisor = "closed"]
  BY <1>4 DEF SVInv, SVOK, SVTypes, Fields, HoldOK, FinOK, PlaceOK, SeenOK, Ended
<1> QED BY <1>1, <1>2, <1>3, <1>4 DEF Cancel, Disconnect, SupervisorCloses

\* The endpoint returned or raised: what is not settled is settled with a failure.
LEMMA ReturnKeeps ==
  ASSUME SVInv, EndpointReturns \/ Handle
  PROVE  SVInv'
<1>1. CASE \E reason \in Reasons \ {"complete"} : sv' = Abort(sv, reason)
  BY <1>1, AbortKeeps DEF SVInv
<1>2. CASE sv' = Goto(sv, "finally") /\ (sv.published => sv.fin # "none")
  BY <1>2, FinallyKeeps DEF SVInv
<1>3. CASE \E e \in {"none", "protocol"}, reason \in Reasons \ {"complete"} :
             sv' = [Abort([sv EXCEPT !.error = e], reason) EXCEPT !.then = "abort"]
  <2>1. PICK e \in {"none", "protocol"}, reason \in Reasons \ {"complete"} :
          sv' = [Abort([sv EXCEPT !.error = e], reason) EXCEPT !.then = "abort"]
    BY <1>3
  <2> DEFINE s == [sv EXCEPT !.error = e]
             t == Abort(s, reason)
  <2>2. SVOK(s)
    BY DEF SVInv, SVOK, SVTypes, Fields, HoldOK, FinOK, PlaceOK, SeenOK, Ended
  <2>3. SVOK(t)
    <3> HIDE DEF s
    <3> QED BY <2>2, AbortKeeps
  <2>4. sv' = [t EXCEPT !.then = "abort"]
    BY <2>1
  <2> HIDE DEF t
  <2>5. SVTypes(sv')
    BY <2>3, <2>4 DEF SVOK, SVTypes, Fields, Thens
  <2>6. HoldOK(sv') /\ FinOK(sv') /\ PlaceOK(sv') /\ SeenOK(sv')
    BY <2>3, <2>4 DEF SVOK, SVTypes, Fields, HoldOK, FinOK, PlaceOK, SeenOK, Ended
  <2> QED BY <2>5, <2>6 DEF SVInv, SVOK
<1>4. CASE Handle
  BY <1>1, <1>4 DEF Handle, Reasons
<1>5. CASE EndpointReturns
  <2>0. sv.pc = "app"
    BY <1>5 DEF EndpointReturns, InApp
  <2>1. ~sv.passed /\ sv.completed => sv.fin # "none"
    BY DEF SVInv, SVOK, SeenOK
  <2> DEFINE bound == sv.published /\ ~sv.passed /\ sv.mode # "none"
             ending == IF sv.started \/ sv.passed THEN "none" ELSE "protocol"
             reason == IF bound THEN "empty" ELSE "protocol"
  <2>2. ending \in {"none", "protocol"} /\ {reason, "disconnect", "protocol"} \subseteq Reasons \ {"complete"}
    BY DEF Reasons
  <2>3. \/ sv' = Abort(sv, "disconnect")
        \/ bound /\ sv.completed /\ sv' = Goto(sv, "finally")
        \/ sv' = [Abort([sv EXCEPT !.error = ending], reason) EXCEPT !.then = "abort"]
        \/ sv' = Abort(sv, "protocol")
        \/ ~sv.published /\ sv' = Goto(sv, "finally")
    BY <1>5 DEF EndpointReturns
  <2> HIDE DEF ending, reason
  <2> QED BY <1>1, <1>2, <1>3, <2>1, <2>2, <2>3
<1> QED BY <1>4, <1>5

\* The abort swallows what the finalizer raised.
LEMMA EndAbortKeeps ==
  ASSUME SVInv, EndAbort
  PROVE  SVInv'
<1>1. sv.fin # "none" /\ sv' = Goto(sv, "finally")
  BY DEF EndAbort
<1> QED BY <1>1, FinallyKeeps DEF SVInv

\* The transport callback drops the entry of a published response, and the cleanup
\* what is left to the auth layer.
LEMMA CleanupKeeps ==
  ASSUME SVInv, FinishTransport \/ CleanupAuthOwnership
  PROVE  SVInv'
<1>0. SVTypes(sv)
  BY DEF SVInv, SVOK
<1>1. CASE FinishTransport
  <2>1. PICK active \in BOOLEAN, client \in {"nothing", "part", "whole", "error"} :
          /\ sv.published => ~active
          /\ client = "whole" => sv.client = "whole"
          /\ sv' = [sv EXCEPT !.pc = "cleanup", !.leases = FALSE, !.active = active, !.client = client]
    <3> DEFINE active == IF sv.published THEN FALSE ELSE sv.active
               client == IF sv.error \in {"protocol", "accounting"} /\ ~sv.started /\ ~sv.passed THEN "error" ELSE sv.client
    <3>1. active \in BOOLEAN /\ client \in {"nothing", "part", "whole", "error"}
      BY <1>0 DEF SVTypes
    <3>2. sv' = [sv EXCEPT !.pc = "cleanup", !.leases = FALSE, !.active = active, !.client = client]
      BY <1>1 DEF FinishTransport
    <3>3. (sv.published => ~active) /\ (client = "whole" => sv.client = "whole")
      OBVIOUS
    <3> HIDE DEF active, client
    <3> QED BY <3>1, <3>2, <3>3
  <2>2. sv.pc = "finally"
    BY <1>1 DEF FinishTransport
  <2>3. SVTypes(sv')
    BY <1>0, <2>1 DEF SVTypes, Fields
  <2>4. HoldOK(sv') /\ FinOK(sv')
    BY <2>1 DEF SVInv, SVOK, SVTypes, Fields, HoldOK, FinOK, Ended
  <2>5. PlaceOK(sv') /\ SeenOK(sv')
    BY <2>1, <2>2 DEF SVInv, SVOK, SVTypes, Fields, PlaceOK, SeenOK
  <2> QED BY <2>3, <2>4, <2>5 DEF SVInv, SVOK
<1>2. CASE CleanupAuthOwnership
  <2>0. sv.pc = "cleanup"
    BY <1>2 DEF CleanupAuthOwnership
  <2>1. PICK rate \in {"none", "closed"} :
          LET s == [sv EXCEPT !.pc = "over", !.rate = rate] IN
          sv' = IF sv.published THEN s
                ELSE [s EXCEPT !.context = FALSE, !.active = FALSE,
                        !.handed = IF sv.context THEN @ + 1 ELSE @, !.outcome = IF sv.context THEN "released" ELSE @]
    <3>1. CASE sv.rate = "open"
      BY <1>2, <3>1 DEF CleanupAuthOwnership
    <3>2. CASE sv.rate # "open"
      <4>1. sv.rate \in {"none", "closed"}
        BY <1>0, <3>2 DEF SVTypes
      <4> QED BY <1>2, <3>2, <4>1 DEF CleanupAuthOwnership
    <3> QED BY <3>1, <3>2
  <2> DEFINE s == [sv EXCEPT !.pc = "over", !.rate = rate]
  <2>2. SVTypes(s)
    BY <1>0 DEF SVTypes, Fields
  <2>3. CASE sv.published
    <3>1. sv' = s
      BY <2>1, <2>3
    <3>2. HoldOK(s) /\ FinOK(s) /\ PlaceOK(s) /\ SeenOK(s)
      BY <2>0, <2>3 DEF SVInv, SVOK, SVTypes, Fields, HoldOK, FinOK, PlaceOK, SeenOK, Ended
    <3> QED BY <2>2, <3>1, <3>2 DEF SVInv, SVOK
  <2>4. CASE ~sv.published /\ sv.context
    <3> DEFINE t == [s EXCEPT !.context = FALSE, !.active = FALSE, !.handed = sv.handed + 1, !.outcome = "released"]
    <3>1. sv' = t
      BY <1>0, <2>1, <2>4 DEF SVTypes, Fields
    <3>2. sv.handed = 0 /\ s.handed = 0
      BY <1>0, <2>4 DEF SVInv, SVOK, HoldOK, SVTypes, Fields
    <3>3. SVTypes(t)
      BY <2>2, <3>2 DEF SVTypes, Fields
    <3>4. HoldOK(t) /\ FinOK(t)
      BY <2>0, <2>4, <3>2 DEF SVInv, SVOK, SVTypes, Fields, HoldOK, FinOK, Ended
    <3>5. PlaceOK(t) /\ SeenOK(t)
      BY <2>0, <2>4, <3>2 DEF SVInv, SVOK, SVTypes, Fields, PlaceOK, SeenOK
    <3> QED BY <3>1, <3>3, <3>4, <3>5 DEF SVInv, SVOK
  <2>5. CASE ~sv.published /\ ~sv.context
    <3> DEFINE t == [s EXCEPT !.context = FALSE, !.active = FALSE, !.handed = s.handed, !.outcome = s.outcome]
    <3>1. sv' = t
      BY <2>1, <2>5
    <3>2. SVTypes(t)
      BY <2>2 DEF SVTypes, Fields
    <3>3. HoldOK(t) /\ FinOK(t)
      BY <2>0, <2>5 DEF SVInv, SVOK, SVTypes, Fields, HoldOK, FinOK, Ended
    <3>4. PlaceOK(t) /\ SeenOK(t)
      BY <2>0, <2>5 DEF SVInv, SVOK, SVTypes, Fields, PlaceOK, SeenOK
    <3> QED BY <3>1, <3>2, <3>3, <3>4 DEF SVInv, SVOK
  <2> QED BY <2>3, <2>4, <2>5
<1> QED BY <1>1, <1>2

---------------------------------------------------------------------------
\* Every request that arrives is well-formed (arrive).
LEMMA ServingStarts == SVInit => SVInv
<1> SUFFICES ASSUME SVInit PROVE SVOK(sv)
  BY DEF SVInv
<1>1. SVTypes(sv)
  <2>1. DOMAIN sv = Fields
    BY DEF SVInit, Fields
  <2>2. /\ sv.pc = "arrive" /\ sv.kind \in Kinds /\ sv.rate = "none" /\ sv.owner = "none" /\ sv.obs = "none"
        /\ sv.mode = "none" /\ sv.fin = "none" /\ sv.signal = "none" /\ sv.then = "none" /\ sv.reason = "none"
        /\ sv.error = "none" /\ sv.handed = 0 /\ sv.outcome = "none" /\ sv.client = "nothing" /\ sv.supervisor = "open"
    BY DEF SVInit
  <2>3. /\ sv.streaming \in BOOLEAN /\ sv.context \in BOOLEAN /\ sv.active \in BOOLEAN /\ sv.published \in BOOLEAN
        /\ sv.free \in BOOLEAN /\ sv.ok \in BOOLEAN /\ sv.passed \in BOOLEAN /\ sv.started \in BOOLEAN
        /\ sv.completed \in BOOLEAN /\ sv.settled \in BOOLEAN /\ sv.leases \in BOOLEAN /\ sv.gone \in BOOLEAN
    BY DEF SVInit
  <2> QED BY <2>1, <2>2, <2>3 DEF SVTypes
<1>2. HoldOK(sv) /\ FinOK(sv) /\ PlaceOK(sv) /\ SeenOK(sv)
  BY DEF SVInit, HoldOK, FinOK, PlaceOK, SeenOK, Ended
<1> QED BY <1>1, <1>2 DEF SVOK

\* Every step of a request, of its finalizer or against it keeps the invariant.
LEMMA ServingSteps == SVInv /\ [SVNext]_sv => SVInv'
<1> SUFFICES ASSUME SVInv, [SVNext]_sv PROVE SVInv'
  OBVIOUS
<1>1. CASE UNCHANGED sv
  BY <1>1 DEF SVInv
<1>2. CASE Reject \/ AdmitAccounting \/ AdmitRateLimitOnly
  BY <1>2, AdmissionKeeps
<1>3. CASE PrepareChat \/ PrepareOther \/ TakeOperationOwner
  BY <1>3, TakingKeeps
<1>4. CASE PublishObservation \/ ReleaseOperation
  BY <1>4, ObservationKeeps
<1>5. CASE SendStart
  BY <1>5, StartKeeps
<1>6. CASE PassBody \/ LateBody \/ RefuseBody \/ DisconnectRaised \/ EndpointRaises
  BY <1>6, PassKeeps
<1>7. CASE SendJson \/ SendSse
  BY <1>7, BodyKeeps
<1>8. CASE SendTerminalSse
  BY <1>8, TerminalKeeps
<1>9. CASE SendAfterTerminal
  BY <1>9, AfterTerminalKeeps
<1>10. CASE RunFinalizer
  BY <1>10, FinalizerKeeps
<1>11. CASE FlushSettled
  BY <1>11, FlushKeeps
<1>12. CASE Cancel \/ Disconnect \/ SupervisorCloses
  BY <1>12, DisturbedKeeps
<1>13. CASE EndpointReturns \/ Handle
  BY <1>13, ReturnKeeps
<1>14. CASE EndAbort
  BY <1>14, EndAbortKeeps
<1>15. CASE FinishTransport \/ CleanupAuthOwnership
  BY <1>15, CleanupKeeps
<1> QED BY <1>1, <1>2, <1>3, <1>4, <1>5, <1>6, <1>7, <1>8, <1>9, <1>10, <1>11, <1>12, <1>13, <1>14, <1>15
        DEF SVNext, RequestStep, EndpointStep, EndpointEnds

\* The end of a successful response reaches the client only after its charge was
\* accepted, or when it costs nothing (ResponseObservationMiddleware, ResponseFinalizer).
THEOREM DeliveredIsPaid == SVSpec => []PaidBeforeDelivered
<1>1. SVInv => PaidBeforeDelivered
  BY DEF SVInv, SVOK, SeenOK, FinOK, PaidBeforeDelivered
<1> QED BY <1>1, ServingStarts, ServingSteps, PTL DEF SVSpec

\* However a request ended, its reservation went to accounting at most once, and one
\* that is over left nothing behind (_cleanup_auth_ownership, the terminal owners).
THEOREM NothingIsLeftBehind == SVSpec => []NothingLeftBehind
<1>1. SVInv => NothingLeftBehind
  <2> SUFFICES ASSUME SVInv PROVE NothingLeftBehind
    OBVIOUS
  <2>1. sv.handed <= 1
    BY DEF SVInv, SVOK, SVTypes
  <2>2. ASSUME sv.pc = "over", sv.fin # "running"
        PROVE  sv.outcome # "held" /\ ~sv.context /\ sv.owner # "open" /\ sv.rate # "open" /\ ~sv.active /\ ~sv.leases
    BY <2>2 DEF SVInv, SVOK, SVTypes, HoldOK, FinOK, PlaceOK, Ended
  <2> QED BY <2>1, <2>2 DEF NothingLeftBehind
<1> QED BY <1>1, ServingStarts, ServingSteps, PTL DEF SVSpec

-----------------------------------------------------------------------------
(* Queues: greatest prefixes, and an element taken out.                    *)

\* The library's Max of a nonempty set of numbers up to n is its greatest
\* element.
LEMMA MaxIs ==
  ASSUME NEW n \in Nat, NEW K \in SUBSET (0..n), K # {}
  PROVE  Max(K) \in K /\ \A k \in K : k <= Max(K)
<1> DEFINE T == {n - k : k \in K}
<1>1. T \subseteq Nat /\ T # {}
  <2>1. \A k \in K : n - k \in Nat
    OBVIOUS
  <2> QED BY <2>1
<1>2. PICK t \in T : \A y \in T : t <= y
  <2> HIDE DEF T
  <2> QED BY <1>1, Least
<1>3. PICK m \in K : t = n - m
  BY <1>2
<1>4. \A k \in K : m >= k
  <2>1. ASSUME NEW k \in K PROVE m >= k
    <3>1. t <= n - k
      BY <1>2
    <3> QED BY <3>1, <1>3
  <2> QED BY <2>1
<1> HIDE DEF T
<1>5. \E x \in K : \A y \in K : x >= y
  BY <1>4
<1>6. Max(K) \in K /\ \A y \in K : Max(K) >= y
  BY <1>5 DEF Max
<1> QED BY <1>6

\* What is in the first n places of a queue.
LEMMA PrefixIs ==
  ASSUME NEW S, NEW q \in Seq(S), NEW n \in 0..Len(q), NEW r, r = SubSeq(q, 1, n)
  PROVE  Range(r) = {q[i] : i \in 1..n}
<1>1. r \in Seq(S) /\ Len(r) = n /\ \A i \in 1..n : r[i] = q[i]
  BY SubSeqProperties
<1>2. DOMAIN r = 1..n
  BY <1>1
<1> QED BY <1>1, <1>2 DEF Range

\* The first n of a queue.
Leading(q, n) == {q[i] : i \in 1..n}

\* A queue of distinct elements without its i-th keeps the others in their
\* order.
LEMMA Gone ==
  ASSUME NEW S, NEW q \in Seq(S), NEW i \in DOMAIN q, \A j, k \in 1..Len(q) : q[j] = q[k] => j = k,
         NEW r, r = RemoveAt(q, i)
  PROVE  /\ r \in Seq(S) /\ Len(r) = Len(q) - 1
         /\ \A j \in 1..Len(r) : r[j] = IF j < i THEN q[j] ELSE q[j + 1]
         /\ \A j, k \in 1..Len(r) : r[j] = r[k] => j = k
         /\ Leading(r, Len(r)) = Leading(q, Len(q)) \ {q[i]}
<1>1. i \in 1..Len(q)
  OBVIOUS
<1> DEFINE a == SubSeq(q, 1, i - 1)
           b == SubSeq(q, i + 1, Len(q))
<1>2. a \in Seq(S) /\ Len(a) = i - 1 /\ \A j \in 1..(i - 1) : a[j] = q[j]
  BY <1>1, SubSeqProperties
<1>3. b \in Seq(S) /\ Len(b) = Len(q) - i /\ \A j \in 1..(Len(q) - i) : b[j] = q[i + j]
  BY <1>1, SubSeqProperties
<1>4. r = a \o b
  BY DEF RemoveAt
<1> HIDE DEF a, b
<1>5. r \in Seq(S) /\ Len(r) = Len(q) - 1
  BY <1>1, <1>2, <1>3, <1>4
<1>6. ASSUME NEW j \in 1..Len(r) PROVE r[j] = IF j < i THEN q[j] ELSE q[j + 1]
  <2>1. r[j] = IF j <= Len(a) THEN a[j] ELSE b[j - Len(a)]
    BY <1>2, <1>3, <1>4, <1>5, ConcatProperties, SMTT(30)
  <2>2. CASE j < i
    BY <2>1, <2>2, <1>1, <1>2
  <2>3. CASE ~(j < i)
    <3>1. j - (i - 1) \in 1..(Len(q) - i) /\ i + (j - (i - 1)) = j + 1
      BY <2>3, <1>1, <1>5
    <3> QED BY <3>1, <2>1, <2>3, <1>2, <1>3
  <2> QED BY <2>2, <2>3
<1>7. \A j, k \in 1..Len(r) : r[j] = r[k] => j = k
  <2>1. ASSUME NEW j \in 1..Len(r), NEW k \in 1..Len(r), r[j] = r[k] PROVE j = k
    <3> DEFINE f(x) == IF x < i THEN x ELSE x + 1
    <3>1. f(j) \in 1..Len(q) /\ f(k) \in 1..Len(q) /\ q[f(j)] = q[f(k)]
      BY <2>1, <1>6, <1>5, <1>1
    <3>2. f(j) = f(k)
      BY <3>1
    <3> QED BY <3>2, <1>1
  <2> QED BY <2>1
<1>8. {r[j] : j \in 1..Len(r)} \subseteq {q[j] : j \in 1..Len(q)} \ {q[i]}
  <2>1. ASSUME NEW j \in 1..Len(r) PROVE r[j] \in {q[k] : k \in 1..Len(q)} \ {q[i]}
    <3> DEFINE f == IF j < i THEN j ELSE j + 1
    <3>1. f \in 1..Len(q) /\ f # i /\ r[j] = q[f]
      BY <1>6, <1>5, <1>1
    <3> QED BY <3>1, <1>1
  <2> QED BY <2>1
<1>9. ASSUME NEW k \in 1..Len(q), q[k] # q[i] PROVE q[k] \in {r[j] : j \in 1..Len(r)}
  <2> DEFINE g == IF k < i THEN k ELSE k - 1
  <2>1. k # i
    BY <1>9
  <2>2. g \in 1..Len(r) /\ r[g] = q[k]
    BY <2>1, <1>1, <1>5, <1>6
  <2> QED BY <2>2
<1>10. {r[j] : j \in 1..Len(r)} = {q[j] : j \in 1..Len(q)} \ {q[i]}
  <2> DEFINE R == {r[j] : j \in 1..Len(r)}
  <2>1. \A k \in 1..Len(q) : q[k] # q[i] => q[k] \in R
    BY <1>9
  <2> HIDE DEF R
  <2>2. {q[j] : j \in 1..Len(q)} \ {q[i]} \subseteq R
    BY <2>1
  <2> QED BY <2>2, <1>8 DEF R
<1>11. \A j \in 1..Len(r) : r[j] = IF j < i THEN q[j] ELSE q[j + 1]
  BY <1>6
<1> QED BY <1>5, <1>7, <1>10, <1>11 DEF Leading

-----------------------------------------------------------------------------
(* Upload admission: the counter is what the admitted uploads weigh.       *)

\* The queue as it is: uploads, each once.
QueueOK(q) == q \in Seq(Uploads) /\ \A i, j \in 1..Len(q) : q[i] = q[j] => i = j

\* The weights of uploads, as a sum.
LEMMA WeightsAre == ASSUME NEW ss PROVE Weights(ss) = SumOver(UploadWeight, ss)
BY DEF Weights, SumOver

\* One more waiter weighs what it weighs.
LEMMA FirstSum ==
  ASSUME NEW q, QueueOK(q), NEW n \in 0..Len(q)
  PROVE  /\ Leading(q, n) \subseteq Uploads /\ IsFiniteSet(Leading(q, n)) /\ SumOver(UploadWeight, Leading(q, n)) \in Nat
         /\ n < Len(q) => SumOver(UploadWeight, Leading(q, n + 1)) = UploadWeight[q[n + 1]] + SumOver(UploadWeight, Leading(q, n))
<1>1. ASSUME NEW m \in 0..Len(q) PROVE Leading(q, m) \subseteq Uploads /\ IsFiniteSet(Leading(q, m))
  <2>1. Leading(q, m) \subseteq Uploads
    <3>1. \A i \in 1..m : q[i] \in Uploads
      BY DEF QueueOK
    <3> QED BY <3>1 DEF Leading
  <2> QED BY <2>1, FS_Subset, UploadAssumption
<1>2. \A u \in Uploads : UploadWeight[u] \in Nat
  BY UploadAssumption
<1>3. SumOver(UploadWeight, Leading(q, n)) \in Nat
  BY <1>1, <1>2, SumNat
<1>4. ASSUME n < Len(q) PROVE SumOver(UploadWeight, Leading(q, n + 1)) = UploadWeight[q[n + 1]] + SumOver(UploadWeight, Leading(q, n))
  <2>1. Leading(q, n + 1) = Leading(q, n) \cup {q[n + 1]}
    <3>1. 1..(n + 1) = 1..n \cup {n + 1}
      OBVIOUS
    <3> QED BY <3>1 DEF Leading
  <2>2. q[n + 1] \notin Leading(q, n)
    BY <1>4 DEF Leading, QueueOK
  <2>3. q[n + 1] \in Uploads
    BY <1>4 DEF QueueOK
  <2> QED BY <2>1, <2>2, <2>3, <1>1, <1>2, SumIn
<1> QED BY <1>1, <1>3, <1>4

\* A drain grants the longest prefix of the queue that fits and stops at the
\* first waiter that does not.
LEMMA DrainEffect ==
  ASSUME NEW q, QueueOK(q), NEW active \in Nat, active <= MaxUploadBytes, q # << >> => ~upClosed, Drain(q, active)
  PROVE  \E n \in 0..Len(q) :
           /\ upQueue' = SubSeq(q, n + 1, Len(q))
           /\ upActive' = active + SumOver(UploadWeight, Leading(q, n)) /\ upActive' <= MaxUploadBytes
           /\ upFuture' = [u \in Uploads |-> IF u \in Leading(q, n) THEN "lease" ELSE upFuture[u]]
           /\ n < Len(q) => ~Fits(upActive', UploadWeight[q[n + 1]])
<1> DEFINE K == {k \in 0..Len(q) : Fits(active, Weights(Range(SubSeq(q, 1, k))))}
           n == IF upClosed THEN 0 ELSE Max(K)
<1>1. Len(q) \in Nat /\ MaxUploadBytes \in Nat
  BY UploadAssumption DEF QueueOK
<1>2. ASSUME NEW k \in 0..Len(q) PROVE Weights(Range(SubSeq(q, 1, k))) = SumOver(UploadWeight, Leading(q, k)) /\ Range(SubSeq(q, 1, k)) = Leading(q, k)
  <2>1. q \in Seq(Uploads)
    BY DEF QueueOK
  <2>2. Range(SubSeq(q, 1, k)) = Leading(q, k)
    BY <2>1, PrefixIs DEF Leading
  <2> QED BY <2>2, WeightsAre
<1>3. K = {k \in 0..Len(q) : active + SumOver(UploadWeight, Leading(q, k)) <= MaxUploadBytes}
  BY <1>2 DEF Fits
<1>4. 0 \in K
  <2>1. Leading(q, 0) = {}
    BY DEF Leading
  <2> QED BY <2>1, <1>3, <1>1, SumEmpty
<1>5. Max(K) \in K /\ \A k \in K : k <= Max(K)
  BY <1>1, <1>4, MaxIs
<1>6. n \in K /\ n \in 0..Len(q) /\ (n < Len(q) => n + 1 \notin K)
  <2> HIDE DEF K
  <2>1. K \subseteq 0..Len(q)
    BY DEF K
  <2>2. CASE upClosed
    BY <2>2, <2>1, <1>4, <1>1
  <2>3. CASE ~upClosed
    <3>1. n = Max(K)
      BY <2>3
    <3> HIDE DEF n
    <3>2. n \in K /\ n \in 0..Len(q)
      BY <3>1, <1>5, <2>1
    <3>3. n + 1 \in K => n + 1 <= n
      BY <3>1, <1>5
    <3> QED BY <3>2, <3>3, <1>1
  <2> QED BY <2>2, <2>3
<1>7. /\ upQueue' = SubSeq(q, n + 1, Len(q))
      /\ upActive' = active + Weights(Range(SubSeq(q, 1, n)))
      /\ upFuture' = [u \in Uploads |-> IF u \in Range(SubSeq(q, 1, n)) THEN "lease" ELSE upFuture[u]]
  BY DEF Drain
<1> HIDE DEF n
<1>8. /\ upActive' = active + SumOver(UploadWeight, Leading(q, n))
      /\ upFuture' = [u \in Uploads |-> IF u \in Leading(q, n) THEN "lease" ELSE upFuture[u]]
  BY <1>7, <1>6, <1>2
<1>9. upActive' <= MaxUploadBytes
  BY <1>8, <1>6, <1>3
<1>10. ASSUME n < Len(q) PROVE ~Fits(upActive', UploadWeight[q[n + 1]])
  <2>1. n + 1 \in 0..Len(q) /\ n + 1 \notin K
    BY <1>10, <1>6, <1>1
  <2>2. ~(active + SumOver(UploadWeight, Leading(q, n + 1)) <= MaxUploadBytes)
    BY <2>1, <1>3
  <2>3. SumOver(UploadWeight, Leading(q, n + 1)) = UploadWeight[q[n + 1]] + SumOver(UploadWeight, Leading(q, n))
    BY <1>10, <1>6, FirstSum
  <2>4. SumOver(UploadWeight, Leading(q, n)) \in Nat
    BY <1>6, FirstSum
  <2>5. UploadWeight[q[n + 1]] \in Nat
    BY <2>1, UploadAssumption, <1>10, <1>6 DEF QueueOK
  <2> QED BY <2>2, <2>3, <2>4, <2>5, <1>8, <1>1 DEF Fits
<1> QED BY <1>6, <1>7, <1>8, <1>9, <1>10

\* The types, what queues look like, and who may be in the queue.
UPTypes ==
  /\ upTask \in [Uploads -> {"start", "waiting", "interrupted", "holding", "done"}]
  /\ upFuture \in [Uploads -> {"none", "pending", "lease", "closed"}]
  /\ upActive \in Nat /\ upClosed \in BOOLEAN
  /\ QueueOK(upQueue)
WaitOK == \A i \in 1..Len(upQueue) : upTask[upQueue[i]] \in {"waiting", "interrupted"} /\ upFuture[upQueue[i]] = "pending"
UPInv == UPTypes /\ WaitOK /\ UploadsAccounted

\* What uploads weigh together, one of them taken out.
LEMMA OwnersFinite ==
  ASSUME NEW ups, ups \subseteq Uploads
  PROVE  /\ IsFiniteSet(ups) /\ SumOver(UploadWeight, ups) \in Nat
         /\ \A u \in ups : SumOver(UploadWeight, ups) = UploadWeight[u] + SumOver(UploadWeight, ups \ {u})
<1>1. IsFiniteSet(ups) /\ \A u \in ups : UploadWeight[u] \in Nat
  BY FS_Subset, UploadAssumption
<1> QED BY <1>1, SumNat, SumOut

\* An upload that is done, with its memory given back or never had, and the
\* drain after it keep the invariant.
LEMMA DrainKeeps ==
  ASSUME UPInv, NEW u \in Uploads, NEW q, QueueOK(q), q # << >> => ~upClosed,
         \A j \in 1..Len(q) : q[j] # u /\ \E i \in 1..Len(upQueue) : q[j] = upQueue[i],
         NEW active \in Nat, active = SumOver(UploadWeight, UploadOwners \ {u}), active <= MaxUploadBytes,
         upTask' = [upTask EXCEPT ![u] = "done"], UNCHANGED upClosed, Drain(q, active)
  PROVE  UPInv'
<1>1. PICK n \in 0..Len(q) :
           /\ upQueue' = SubSeq(q, n + 1, Len(q))
           /\ upActive' = active + SumOver(UploadWeight, Leading(q, n)) /\ upActive' <= MaxUploadBytes
           /\ upFuture' = [v \in Uploads |-> IF v \in Leading(q, n) THEN "lease" ELSE upFuture[v]]
           /\ n < Len(q) => ~Fits(upActive', UploadWeight[q[n + 1]])
  BY DrainEffect
<1>2. QueueOK(q) /\ Len(q) \in Nat /\ q \in Seq(Uploads) /\ \A i \in 1..Len(q) : q[i] \in Uploads
  BY DEF QueueOK
<1>3. UPTypes /\ WaitOK /\ UploadsAccounted
  BY DEF UPInv
<1>4. \A j \in 1..Len(q) : upTask[q[j]] \in {"waiting", "interrupted"} /\ upFuture[q[j]] = "pending" /\ q[j] # u
  BY <1>3 DEF WaitOK
<1>5. Leading(q, n) \subseteq Uploads /\ SumOver(UploadWeight, Leading(q, n)) \in Nat /\ IsFiniteSet(Leading(q, n))
  BY <1>2, FirstSum
<1>6. /\ upQueue' \in Seq(Uploads) /\ Len(upQueue') = Len(q) - n
      /\ \A i \in 1..(Len(q) - n) : upQueue'[i] = q[n + i]
  <2>1. \A i \in (n + 1)..Len(q) : q[i] \in Uploads
    BY <1>2
  <2> QED BY <1>1, <1>2, <2>1, SubSeqProperties
<1>7. UPTypes'
  <2>1. QueueOK(upQueue')
    <3>1. ASSUME NEW i \in 1..Len(upQueue'), NEW j \in 1..Len(upQueue'), upQueue'[i] = upQueue'[j] PROVE i = j
      <4>1. n + i \in 1..Len(q) /\ n + j \in 1..Len(q) /\ q[n + i] = q[n + j]
        BY <3>1, <1>6, <1>2
      <4>2. n + i = n + j
        BY <4>1, <1>2 DEF QueueOK
      <4> QED BY <4>2
    <3> QED BY <3>1, <1>6 DEF QueueOK
  <2>2. upActive' \in Nat
    BY <1>1, <1>5
  <2>3. /\ upTask' \in [Uploads -> {"start", "waiting", "interrupted", "holding", "done"}]
        /\ upClosed' \in BOOLEAN
    BY <1>3 DEF UPTypes
  <2>4. upFuture' \in [Uploads -> {"none", "pending", "lease", "closed"}]
    BY <1>1, <1>3 DEF UPTypes
  <2> QED BY <2>1, <2>2, <2>3, <2>4 DEF UPTypes
<1>8. WaitOK'
  <2>1. ASSUME NEW i \in 1..Len(upQueue')
        PROVE  upTask'[upQueue'[i]] \in {"waiting", "interrupted"} /\ upFuture'[upQueue'[i]] = "pending"
    <3>1. n + i \in 1..Len(q) /\ upQueue'[i] = q[n + i] /\ q[n + i] \in Uploads
      BY <2>1, <1>6, <1>2
    <3>2. q[n + i] \notin Leading(q, n)
      BY <3>1, <1>2 DEF Leading, QueueOK
    <3>3. upFuture'[q[n + i]] = upFuture[q[n + i]]
      BY <3>1, <3>2, <1>1
    <3>4. upTask'[q[n + i]] = upTask[q[n + i]]
      BY <3>1, <1>4, <1>3 DEF UPTypes
    <3> QED BY <3>1, <3>3, <3>4, <1>4
  <2> QED BY <2>1 DEF WaitOK
<1>9. UploadOwners' = (UploadOwners \ {u}) \cup Leading(q, n)
  <2>1. \A v \in Leading(q, n) : v \in Uploads /\ upTask[v] \in {"waiting", "interrupted"} /\ upFuture[v] = "pending" /\ v # u
    BY <1>4, <1>2, SMTT(30) DEF Leading
  <2>2. \A v \in Uploads : upTask'[v] = IF v = u THEN "done" ELSE upTask[v]
    BY <1>3 DEF UPTypes
  <2>3. \A v \in Uploads : upFuture'[v] = IF v \in Leading(q, n) THEN "lease" ELSE upFuture[v]
    BY <1>1
  <2>4. ASSUME NEW v \in Uploads PROVE v \in UploadOwners' <=> v \in (UploadOwners \ {u}) \cup Leading(q, n)
    BY <2>1, <2>2, <2>3 DEF UploadOwners
  <2>5. UploadOwners' \subseteq Uploads /\ (UploadOwners \ {u}) \cup Leading(q, n) \subseteq Uploads
    BY <1>5 DEF UploadOwners
  <2> QED BY <2>4, <2>5
<1>10. upActive' = SumOver(UploadWeight, UploadOwners')
  <2>1. (UploadOwners \ {u}) \cap Leading(q, n) = {}
    BY <1>4 DEF Leading, UploadOwners
  <2>2. UploadOwners \ {u} \subseteq Uploads
    BY DEF UploadOwners
  <2>3. IsFiniteSet(UploadOwners \ {u})
    BY <2>2, OwnersFinite
  <2>4. \A v \in (UploadOwners \ {u}) \cup Leading(q, n) : UploadWeight[v] \in Nat
    BY <2>2, <1>5, UploadAssumption
  <2>5. SumOver(UploadWeight, (UploadOwners \ {u}) \cup Leading(q, n)) = active + SumOver(UploadWeight, Leading(q, n))
    BY <2>1, <2>3, <2>4, <1>5, SumUnion
  <2> QED BY <2>5, <1>9, <1>1
<1>11. upQueue' # << >> => ~upClosed' /\ ~Fits(upActive', UploadWeight[Head(upQueue')])
  <2>1. SUFFICES ASSUME upQueue' # << >> PROVE ~upClosed' /\ ~Fits(upActive', UploadWeight[Head(upQueue')])
    OBVIOUS
  <2>2. Len(upQueue') > 0
    BY <2>1, <1>6
  <2>3. n < Len(q) /\ q # << >> /\ Head(upQueue') = q[n + 1]
    <3>1. n < Len(q)
      BY <2>2, <1>6, <1>2
    <3>2. q # << >>
      BY <3>1, <1>2
    <3>3. Head(upQueue') = upQueue'[1] /\ 1 \in 1..(Len(q) - n)
      BY <2>1, <1>6, <3>1, <1>2
    <3> QED BY <3>1, <3>2, <3>3, <1>6
  <2> QED BY <2>3, <1>1
<1> QED BY <1>7, <1>8, <1>10, <1>11, <1>1, WeightsAre DEF UPInv, UploadsAccounted

\* The initial state satisfies the invariant.
LEMMA UploadsStart == UPInit => UPInv
<1> SUFFICES ASSUME UPInit PROVE UPInv
  OBVIOUS
<1>0. upQueue = << >> /\ upQueue \in Seq(Uploads) /\ Len(upQueue) = 0
  BY DEF UPInit
<1>1. UPTypes /\ WaitOK
  <2>1. QueueOK(upQueue) /\ WaitOK
    BY <1>0 DEF QueueOK, WaitOK
  <2> QED BY <2>1 DEF UPInit, UPTypes
<1>2. UploadOwners = {}
  BY DEF UPInit, UploadOwners
<1>3. Weights(UploadOwners) = 0
  BY <1>2, WeightsAre, SumEmpty
<1> QED BY <1>1, <1>3, UploadAssumption DEF UPInit, UPInv, UploadsAccounted

\* An upload is admitted, queued or refused.
LEMMA AcquireKeeps == ASSUME UPInv, NEW u \in Uploads, AcquireUpload(u) PROVE UPInv'
<1>1. UPTypes /\ WaitOK /\ UploadsAccounted /\ upActive = SumOver(UploadWeight, UploadOwners)
  BY WeightsAre DEF UPInv, UploadsAccounted
<1>2. upTask[u] = "start" /\ upClosed' = upClosed /\ upClosed \in BOOLEAN
  BY <1>1 DEF AcquireUpload, UPTypes
<1>3. UploadWeight[u] \in Nat /\ MaxUploadBytes \in Nat /\ upActive \in Nat
  BY <1>1, UploadAssumption DEF UPTypes
<1>4. upQueue \in Seq(Uploads) /\ \A i \in 1..Len(upQueue) : upQueue[i] \in Uploads /\ upQueue[i] # u
  BY <1>1, <1>2 DEF UPTypes, QueueOK, WaitOK
<1>5. CASE /\ upTask' = [upTask EXCEPT ![u] = "done"]
           /\ UNCHANGED <<upFuture, upQueue, upActive>>
  <2>1. UPTypes'
    BY <1>1, <1>2, <1>5 DEF UPTypes
  <2>2. WaitOK'
    BY <1>1, <1>4, <1>5 DEF WaitOK, UPTypes
  <2>3. UploadOwners' = UploadOwners
    BY <1>1, <1>2, <1>5 DEF UploadOwners, UPTypes
  <2> QED BY <2>1, <2>2, <2>3, <1>1, <1>2, <1>5, WeightsAre DEF UPInv, UploadsAccounted
<1>6. CASE /\ upQueue = << >> /\ Fits(upActive, UploadWeight[u])
           /\ upActive' = upActive + UploadWeight[u]
           /\ upTask' = [upTask EXCEPT ![u] = "holding"]
           /\ UNCHANGED <<upFuture, upQueue>>
  <2>1. UPTypes'
    BY <1>1, <1>2, <1>3, <1>6 DEF UPTypes
  <2>2. WaitOK'
    BY <1>1, <1>4, <1>6 DEF WaitOK, UPTypes
  <2>3. UploadOwners' = UploadOwners \cup {u} /\ u \notin UploadOwners /\ UploadOwners \subseteq Uploads
    BY <1>1, <1>2, <1>6 DEF UploadOwners, UPTypes
  <2>4. SumOver(UploadWeight, UploadOwners') = UploadWeight[u] + SumOver(UploadWeight, UploadOwners)
    <3>1. IsFiniteSet(UploadOwners) /\ \A v \in UploadOwners \cup {u} : UploadWeight[v] \in Nat
      BY <2>3, OwnersFinite, UploadAssumption
    <3> QED BY <3>1, <2>3, SumIn
  <2>5. upActive' = SumOver(UploadWeight, UploadOwners') /\ upActive' <= MaxUploadBytes
    BY <2>4, <1>1, <1>3, <1>6 DEF Fits
  <2> QED BY <2>1, <2>2, <2>5, <1>6, WeightsAre DEF UPInv, UploadsAccounted
<1>7. CASE /\ ~upClosed /\ ~(upQueue = << >> /\ Fits(upActive, UploadWeight[u]))
           /\ upQueue' = Append(upQueue, u)
           /\ upFuture' = [upFuture EXCEPT ![u] = "pending"]
           /\ upTask' = [upTask EXCEPT ![u] = "waiting"]
           /\ UNCHANGED upActive
  <2>1. /\ upQueue' \in Seq(Uploads) /\ Len(upQueue') = Len(upQueue) + 1
        /\ \A i \in 1..Len(upQueue) : upQueue'[i] = upQueue[i]
        /\ upQueue'[Len(upQueue) + 1] = u /\ Len(upQueue) \in Nat
    BY <1>4, <1>7
  <2>2. QueueOK(upQueue')
    <3>1. \A i, j \in 1..Len(upQueue) : upQueue[i] = upQueue[j] => i = j
      BY <1>1 DEF UPTypes, QueueOK
    <3>2. ASSUME NEW i \in 1..Len(upQueue'), NEW j \in 1..Len(upQueue'), upQueue'[i] = upQueue'[j] PROVE i = j
      <4>1. CASE i \in 1..Len(upQueue) /\ j \in 1..Len(upQueue)
        BY <4>1, <3>1, <3>2, <2>1
      <4>2. CASE i \notin 1..Len(upQueue) \/ j \notin 1..Len(upQueue)
        BY <4>2, <3>2, <2>1, <1>4
      <4> QED BY <4>1, <4>2
    <3> QED BY <3>2, <2>1 DEF QueueOK
  <2>3. UPTypes'
    BY <2>2, <1>1, <1>2, <1>7 DEF UPTypes
  <2>4. WaitOK'
    <3>1. \A v \in Uploads : upTask'[v] = (IF v = u THEN "waiting" ELSE upTask[v])
                             /\ upFuture'[v] = (IF v = u THEN "pending" ELSE upFuture[v])
      BY <1>1, <1>7 DEF UPTypes
    <3>2. ASSUME NEW i \in 1..Len(upQueue')
          PROVE  upTask'[upQueue'[i]] \in {"waiting", "interrupted"} /\ upFuture'[upQueue'[i]] = "pending"
      <4>1. CASE i \in 1..Len(upQueue)
        <5>1. upQueue'[i] = upQueue[i] /\ upQueue[i] \in Uploads /\ upQueue[i] # u
          BY <4>1, <2>1, <1>4
        <5> QED BY <5>1, <4>1, <3>1, <1>1 DEF WaitOK
      <4>2. CASE i \notin 1..Len(upQueue)
        <5>1. upQueue'[i] = u
          BY <4>2, <2>1
        <5> QED BY <5>1, <3>1
      <4> QED BY <4>1, <4>2
    <3> QED BY <3>2 DEF WaitOK
  <2>5. UploadOwners' = UploadOwners
    BY <1>1, <1>2, <1>7 DEF UploadOwners, UPTypes
  <2>6. upQueue' # << >> => ~upClosed' /\ ~Fits(upActive', UploadWeight[Head(upQueue')])
    <3>1. CASE upQueue = << >>
      <4>1. Len(upQueue) = 0
        BY <3>1
      <4>2. Head(upQueue') = upQueue'[1]
        BY <2>1
      <4>3. Head(upQueue') = u
        BY <4>1, <4>2, <2>1
      <4> QED BY <3>1, <4>3, <1>7, <1>2 DEF Fits
    <3>2. CASE upQueue # << >>
      <4>1. Len(upQueue) > 0
        BY <3>2, <1>4
      <4>2. Head(upQueue) = upQueue[1] /\ Head(upQueue') = upQueue'[1] /\ upQueue'[1] = upQueue[1]
        BY <4>1, <2>1, <1>4
      <4> QED BY <4>2, <3>2, <1>1, <1>2, <1>7 DEF Fits, UploadsAccounted
    <3> QED BY <3>1, <3>2
  <2> QED BY <2>3, <2>4, <2>5, <2>6, <1>1, <1>7, WeightsAre DEF UPInv, UploadsAccounted
<1> QED BY <1>5, <1>6, <1>7 DEF AcquireUpload

\* An upload that waits learns the answer, or is interrupted.
LEMMA WakeKeeps == ASSUME UPInv, NEW u \in Uploads, WakeUpload(u) \/ InterruptUpload(u) PROVE UPInv'
<1>1. UPTypes /\ WaitOK /\ UploadsAccounted
  BY DEF UPInv
<1>2. UNCHANGED <<upFuture, upQueue, upActive, upClosed>> /\ upTask[u] = "waiting"
  BY DEF WakeUpload, InterruptUpload
<1>3. PICK t \in {"holding", "done", "interrupted"} :
         /\ upTask' = [upTask EXCEPT ![u] = t]
         /\ (t = "holding" => upFuture[u] = "lease") /\ (t = "done" => upFuture[u] = "closed")
  BY DEF WakeUpload, InterruptUpload
<1>4. UPTypes'
  BY <1>1, <1>2, <1>3 DEF UPTypes
<1>5. WaitOK'
  <2>1. \A i \in 1..Len(upQueue) : upQueue[i] \in Uploads
    BY <1>1 DEF UPTypes, QueueOK
  <2>2. \A v \in Uploads : upTask'[v] = IF v = u THEN t ELSE upTask[v]
    BY <1>1, <1>3 DEF UPTypes
  <2> QED BY <2>1, <2>2, <1>1, <1>2, <1>3 DEF WaitOK
<1>6. UploadOwners' = UploadOwners
  <2>1. \A v \in Uploads : upTask'[v] = IF v = u THEN t ELSE upTask[v]
    BY <1>1, <1>3 DEF UPTypes
  <2> QED BY <2>1, <1>2, <1>3 DEF UploadOwners
<1> QED BY <1>1, <1>2, <1>4, <1>5, <1>6, WeightsAre DEF UPInv, UploadsAccounted

\* An interrupted upload leaves the queue, or gives back what it was granted
\* too late.
LEMMA WithdrawKeeps == ASSUME UPInv, NEW u \in Uploads, WithdrawUpload(u) PROVE UPInv'
<1>1. UPTypes /\ WaitOK /\ UploadsAccounted /\ upActive = SumOver(UploadWeight, UploadOwners)
  BY WeightsAre DEF UPInv, UploadsAccounted
<1>2. /\ upTask[u] = "interrupted" /\ upClosed' = upClosed /\ upTask' = [upTask EXCEPT ![u] = "done"]
      /\ QueueOK(upQueue) /\ upQueue \in Seq(Uploads) /\ upActive \in Nat /\ upActive <= MaxUploadBytes
      /\ DOMAIN upQueue = 1..Len(upQueue) /\ UploadOwners \subseteq Uploads
  BY <1>1 DEF WithdrawUpload, UPTypes, QueueOK, UploadsAccounted, UploadOwners
<1>3. ASSUME NEW i \in DOMAIN upQueue, upQueue[i] = u, Drain(RemoveAt(upQueue, i), upActive) PROVE UPInv'
  <2> DEFINE q == RemoveAt(upQueue, i)
  <2>1. /\ q \in Seq(Uploads) /\ Len(q) = Len(upQueue) - 1
        /\ \A j, k \in 1..Len(q) : q[j] = q[k] => j = k
        /\ Leading(q, Len(q)) = Leading(upQueue, Len(upQueue)) \ {upQueue[i]}
    <3>1. \A j, k \in 1..Len(upQueue) : upQueue[j] = upQueue[k] => j = k
      BY <1>2 DEF QueueOK
    <3>2. q = RemoveAt(upQueue, i) /\ upQueue \in Seq(Uploads)
      BY <1>2
    <3> HIDE DEF q
    <3> QED BY <3>1, <3>2, Gone
  <2>2. Drain(q, upActive)
    BY <1>3
  <2> HIDE DEF q
  <2>3. \A j \in 1..Len(q) : q[j] # u /\ \E k \in 1..Len(upQueue) : q[j] = upQueue[k]
    <3>1. ASSUME NEW j \in 1..Len(q) PROVE q[j] \in Leading(upQueue, Len(upQueue)) \ {upQueue[i]}
      BY <2>1 DEF Leading
    <3> QED BY <3>1, <1>3 DEF Leading
  <2>4. q # << >> => ~upClosed
    <3>1. upQueue # << >>
      BY <1>3, <1>2
    <3> QED BY <3>1, <1>1 DEF UploadsAccounted
  <2>5. UploadOwners \ {u} = UploadOwners
    BY <1>1, <1>2, <1>3 DEF WaitOK, UploadOwners
  <2>6. QueueOK(q)
    BY <2>1 DEF QueueOK
  <2> QED BY <2>2, <2>3, <2>4, <2>5, <2>6, <1>1, <1>2, DrainKeeps
<1>4. ASSUME u \notin Range(upQueue), upFuture[u] = "lease", Drain(upQueue, upActive - UploadWeight[u]) PROVE UPInv'
  <2>1. u \in UploadOwners
    BY <1>2, <1>4 DEF UploadOwners
  <2>2. /\ upActive = UploadWeight[u] + SumOver(UploadWeight, UploadOwners \ {u})
        /\ SumOver(UploadWeight, UploadOwners \ {u}) \in Nat /\ UploadWeight[u] \in Nat
    BY <2>1, <1>1, <1>2, OwnersFinite, UploadAssumption
  <2>3. \A j \in 1..Len(upQueue) : upQueue[j] # u
    BY <1>4, <1>2 DEF Range
  <2>4. /\ upActive - UploadWeight[u] = SumOver(UploadWeight, UploadOwners \ {u})
        /\ upActive - UploadWeight[u] <= MaxUploadBytes /\ upActive - UploadWeight[u] \in Nat
    BY <2>2, <1>2, UploadAssumption
  <2>5. upQueue # << >> => ~upClosed
    BY <1>1 DEF UploadsAccounted
  <2> QED BY <2>3, <2>4, <2>5, <1>2, <1>4, DrainKeeps
<1>5. ASSUME u \notin Range(upQueue), upFuture[u] # "lease", UNCHANGED <<upQueue, upActive, upFuture>> PROVE UPInv'
  <2>1. UPTypes'
    BY <1>1, <1>2, <1>5 DEF UPTypes
  <2>2. \A v \in Uploads : upTask'[v] = IF v = u THEN "done" ELSE upTask[v]
    BY <1>1, <1>2 DEF UPTypes
  <2>3. WaitOK'
    <3>1. \A j \in 1..Len(upQueue) : upQueue[j] # u /\ upQueue[j] \in Uploads
      BY <1>5, <1>2 DEF Range
    <3> QED BY <3>1, <2>2, <1>1, <1>5 DEF WaitOK
  <2>4. UploadOwners' = UploadOwners
    BY <2>2, <1>2, <1>5 DEF UploadOwners
  <2> QED BY <2>1, <2>3, <2>4, <1>1, <1>2, <1>5, WeightsAre DEF UPInv, UploadsAccounted
<1> QED BY <1>3, <1>4, <1>5 DEF WithdrawUpload

\* An upload gives its memory back.
LEMMA ReleaseKeeps == ASSUME UPInv, NEW u \in Uploads, ReleaseUpload(u) PROVE UPInv'
<1>1. UPTypes /\ WaitOK /\ UploadsAccounted /\ upActive = SumOver(UploadWeight, UploadOwners)
  BY WeightsAre DEF UPInv, UploadsAccounted
<1>2. /\ upTask[u] = "holding" /\ upClosed' = upClosed /\ upTask' = [upTask EXCEPT ![u] = "done"]
      /\ Drain(upQueue, upActive - UploadWeight[u])
      /\ QueueOK(upQueue) /\ upActive \in Nat /\ upActive <= MaxUploadBytes /\ UploadOwners \subseteq Uploads
  BY <1>1 DEF ReleaseUpload, UPTypes, UploadsAccounted, UploadOwners
<1>3. u \in UploadOwners
  BY <1>2 DEF UploadOwners
<1>4. /\ upActive = UploadWeight[u] + SumOver(UploadWeight, UploadOwners \ {u})
      /\ SumOver(UploadWeight, UploadOwners \ {u}) \in Nat /\ UploadWeight[u] \in Nat
  BY <1>3, <1>1, <1>2, OwnersFinite, UploadAssumption
<1>5. \A j \in 1..Len(upQueue) : upQueue[j] # u
  BY <1>1, <1>2 DEF WaitOK
<1>6. /\ upActive - UploadWeight[u] = SumOver(UploadWeight, UploadOwners \ {u})
      /\ upActive - UploadWeight[u] <= MaxUploadBytes /\ upActive - UploadWeight[u] \in Nat
  BY <1>4, <1>2, UploadAssumption
<1>7. upQueue # << >> => ~upClosed
  BY <1>1 DEF UploadsAccounted
<1> QED BY <1>5, <1>6, <1>7, <1>2, DrainKeeps

\* A task comes back with another upload.
LEMMA NextUploadKeeps == ASSUME UPInv, NEW u \in Uploads, NextUpload(u) PROVE UPInv'
<1>1. UPTypes /\ WaitOK /\ UploadsAccounted
  BY DEF UPInv
<1>2. /\ upTask[u] = "done" /\ upTask' = [upTask EXCEPT ![u] = "start"]
      /\ upFuture' = [upFuture EXCEPT ![u] = "none"] /\ UNCHANGED <<upQueue, upActive, upClosed>>
  BY DEF NextUpload
<1>3. UPTypes'
  BY <1>1, <1>2 DEF UPTypes
<1>4. \A v \in Uploads : /\ upTask'[v] = IF v = u THEN "start" ELSE upTask[v]
                         /\ upFuture'[v] = IF v = u THEN "none" ELSE upFuture[v]
  BY <1>1, <1>2 DEF UPTypes
<1>5. WaitOK'
  <2>1. \A j \in 1..Len(upQueue) : upQueue[j] # u /\ upQueue[j] \in Uploads
    BY <1>1, <1>2 DEF WaitOK, UPTypes, QueueOK
  <2> QED BY <2>1, <1>4, <1>1, <1>2 DEF WaitOK
<1>6. UploadOwners' = UploadOwners
  BY <1>4, <1>2 DEF UploadOwners
<1> QED BY <1>1, <1>2, <1>3, <1>5, <1>6, WeightsAre DEF UPInv, UploadsAccounted

\* The admission closes and answers all who wait.
LEMMA CloseKeeps == ASSUME UPInv, CloseUploads PROVE UPInv'
<1>1. UPTypes /\ WaitOK /\ UploadsAccounted
  BY DEF UPInv
<1>2. /\ upClosed' = TRUE /\ upQueue' = << >> /\ UNCHANGED <<upTask, upActive>>
      /\ upFuture' = [u \in Uploads |-> IF u \in Range(upQueue) THEN "closed" ELSE upFuture[u]]
  BY DEF CloseUploads
<1>3. UPTypes' /\ WaitOK'
  <2>1. upQueue' \in Seq(Uploads) /\ Len(upQueue') = 0
    BY <1>2
  <2>2. QueueOK(upQueue') /\ WaitOK'
    BY <2>1 DEF QueueOK, WaitOK
  <2> QED BY <2>2, <1>1, <1>2 DEF UPTypes
<1>4. UploadOwners' = UploadOwners
  <2>1. \A v \in Range(upQueue) : upFuture[v] = "pending" /\ upTask[v] \in {"waiting", "interrupted"}
    BY <1>1 DEF WaitOK, Range, UPTypes, QueueOK
  <2> QED BY <2>1, <1>2 DEF UploadOwners
<1> QED BY <1>1, <1>2, <1>3, <1>4, WeightsAre DEF UPInv, UploadsAccounted

\* The invariant is inductive.
LEMMA UploadStep == UPInv /\ [UPNext]_upvars => UPInv'
<1> SUFFICES ASSUME UPInv, [UPNext]_upvars PROVE UPInv'
  OBVIOUS
<1>1. CASE UNCHANGED upvars
  <2>1. UNCHANGED <<upTask, upFuture, upQueue, upActive, upClosed>>
    BY <1>1 DEF upvars
  <2>2. UPTypes' /\ WaitOK' /\ UploadOwners' = UploadOwners
    BY <2>1 DEF UPInv, UPTypes, WaitOK, UploadOwners
  <2> QED BY <2>1, <2>2, WeightsAre DEF UPInv, UploadsAccounted
<1>2. CASE UPNext
  <2>1. ASSUME NEW u \in Uploads, AcquireUpload(u) PROVE UPInv'
    BY <2>1, AcquireKeeps
  <2>2. ASSUME NEW u \in Uploads, WakeUpload(u) \/ InterruptUpload(u) PROVE UPInv'
    BY <2>2, WakeKeeps
  <2>3. ASSUME NEW u \in Uploads, WithdrawUpload(u) PROVE UPInv'
    BY <2>3, WithdrawKeeps
  <2>4. ASSUME NEW u \in Uploads, ReleaseUpload(u) PROVE UPInv'
    BY <2>4, ReleaseKeeps
  <2>5. ASSUME NEW u \in Uploads, NextUpload(u) PROVE UPInv'
    BY <2>5, NextUploadKeeps
  <2>6. CASE CloseUploads
    BY <2>6, CloseKeeps
  <2> QED BY <1>2, <2>1, <2>2, <2>3, <2>4, <2>5, <2>6 DEF UPNext
<1> QED BY <1>1, <1>2

\* For any uploads of any weights and any limit: the memory counted as in use
\* is exactly what the admitted uploads hold, through grants that race a
\* cancellation, within the limit, and whoever heads the queue does not fit
\* (upload_admission.py, _drain_waiters, _cancel_waiter).
THEOREM UploadsAlwaysAccounted == UPSpec => []UploadsAccounted
<1>1. UPInv => UploadsAccounted
  BY DEF UPInv
<1> QED BY <1>1, UploadsStart, UploadStep, PTL DEF UPSpec

-----------------------------------------------------------------------------
(* Stream capacity: the counters are what the live leases own.             *)

\* A queue of distinct chunks, and those of its first k that still wait.
WaitersOK(q) == q \in Seq(Chunks) /\ \A i, j \in 1..Len(q) : q[i] = q[j] => i = j
Pending(q, k) == {c \in Leading(q, k) : scFuture[c] = "pending"}

\* The bytes of leases, as a sum.
LEMMA BytesAre ==
  ASSUME NEW bytes, NEW cs PROVE BytesOf(bytes, cs) = SumOver(bytes, cs)
BY DEF BytesOf, SumOver

\* One more waiter still pending asks for its bytes and one item.
LEMMA PendingSum ==
  ASSUME NEW q, WaitersOK(q), scBytes \in [Chunks -> Nat], NEW n \in 0..Len(q)
  PROVE  /\ Pending(q, n) \subseteq Chunks /\ IsFiniteSet(Pending(q, n))
         /\ SumOver(scBytes, Pending(q, n)) \in Nat /\ Cardinality(Pending(q, n)) \in Nat
         /\ n < Len(q) /\ scFuture[q[n + 1]] = "pending" =>
              /\ Pending(q, n + 1) # {}
              /\ SumOver(scBytes, Pending(q, n + 1)) = scBytes[q[n + 1]] + SumOver(scBytes, Pending(q, n))
              /\ Cardinality(Pending(q, n + 1)) = 1 + Cardinality(Pending(q, n))
<1>1. ASSUME NEW m \in 0..Len(q) PROVE Pending(q, m) \subseteq Chunks /\ IsFiniteSet(Pending(q, m))
  <2>1. Pending(q, m) \subseteq Chunks
    <3>1. \A i \in 1..m : q[i] \in Chunks
      BY DEF WaitersOK
    <3> QED BY <3>1 DEF Leading, Pending
  <2> QED BY <2>1, FS_Subset, CapacityAssumption
<1>2. SumOver(scBytes, Pending(q, n)) \in Nat /\ Cardinality(Pending(q, n)) \in Nat
  BY <1>1, SumNat, FS_CardinalityType
<1>3. ASSUME n < Len(q), scFuture[q[n + 1]] = "pending"
      PROVE  /\ Pending(q, n + 1) # {}
             /\ SumOver(scBytes, Pending(q, n + 1)) = scBytes[q[n + 1]] + SumOver(scBytes, Pending(q, n))
             /\ Cardinality(Pending(q, n + 1)) = 1 + Cardinality(Pending(q, n))
  <2>1. Pending(q, n + 1) = Pending(q, n) \cup {q[n + 1]}
    <3>1. 1..(n + 1) = 1..n \cup {n + 1}
      OBVIOUS
    <3> QED BY <3>1, <1>3 DEF Leading, Pending
  <2>2. q[n + 1] \notin Pending(q, n)
    <3>1. \A i \in 1..n : q[i] # q[n + 1]
      <4>1. n + 1 \in 1..Len(q) /\ \A i \in 1..n : i \in 1..Len(q) /\ i # n + 1
        BY <1>3
      <4> QED BY <4>1 DEF WaitersOK
    <3> QED BY <3>1 DEF Leading, Pending
  <2>3. q[n + 1] \in Chunks /\ \A c \in Pending(q, n) \cup {q[n + 1]} : scBytes[c] \in Nat
    BY <1>3, <1>1 DEF WaitersOK
  <2>4. SumOver(scBytes, Pending(q, n) \cup {q[n + 1]}) = scBytes[q[n + 1]] + SumOver(scBytes, Pending(q, n))
    BY <2>2, <2>3, <1>1, SumIn
  <2>5. Cardinality(Pending(q, n) \cup {q[n + 1]}) = 1 + Cardinality(Pending(q, n))
    <3> DEFINE A == Pending(q, n)
               x == q[n + 1]
    <3>1. IsFiniteSet(A) /\ x \notin A /\ Cardinality(A) \in Nat
      BY <2>2, <1>1, <1>2
    <3> HIDE DEF A, x
    <3>2. Cardinality(A \cup {x}) = Cardinality(A) + 1
      BY <3>1, FS_AddElement
    <3> QED BY <3>1, <3>2 DEF A, x
  <2> QED BY <2>1, <2>4, <2>5
<1> QED BY <1>1, <1>2, <1>3

\* What a drain that reaches the n-th waiter does.
Drained(q, active, items, n) ==
  /\ scQueue' = SubSeq(q, n + 1, Len(q))
  /\ scActive' = [items |-> active.items + Cardinality(Pending(q, n)),
                  bytes |-> active.bytes + SumOver(scBytes, Pending(q, n))]
  /\ scActive'.items \in 0..MaxItems /\ scActive'.bytes \in 0..MaxBytes
  /\ scFuture' = [c \in Chunks |-> IF c \in Pending(q, n) THEN "lease" ELSE scFuture[c]]
  /\ scItem' = [c \in Chunks |-> items[c] \/ c \in Pending(q, n)]
  /\ n < Len(q) /\ scFuture[q[n + 1]] = "pending" => ~ChunkFits(scActive', 1, scBytes[q[n + 1]])

\* A drain stops at the first waiter that does not fit, having dropped the
\* cancelled ones before it.
LEMMA DrainChunksEffect ==
  ASSUME NEW q, WaitersOK(q), q # << >> => ~scClosed, scBytes \in [Chunks -> Nat],
         NEW active, active.items \in 0..MaxItems, active.bytes \in 0..MaxBytes, NEW items, DrainChunks(q, active, items)
  PROVE  \E n \in 0..Len(q) : Drained(q, active, items, n)
<1> DEFINE W(k) == {c \in Range(SubSeq(q, 1, k)) : scFuture[c] = "pending"}
           K == {k \in 0..Len(q) : W(k) = {} \/ (~scClosed /\ ChunkFits(active, Cardinality(W(k)), BytesOf(scBytes, W(k))))}
           n == Max(K)
<1>1. Len(q) \in Nat /\ MaxItems \in Nat /\ MaxBytes \in Nat /\ q \in Seq(Chunks)
  BY CapacityAssumption DEF WaitersOK
<1>2. ASSUME NEW k \in 0..Len(q) PROVE W(k) = Pending(q, k) /\ BytesOf(scBytes, W(k)) = SumOver(scBytes, Pending(q, k))
  <2>1. Range(SubSeq(q, 1, k)) = Leading(q, k)
    BY <1>1, PrefixIs DEF Leading
  <2>2. W(k) = Pending(q, k)
    BY <2>1 DEF Pending
  <2> HIDE DEF W
  <2> QED BY <2>2, BytesAre
<1>3. K = {k \in 0..Len(q) : Pending(q, k) = {} \/ (~scClosed /\ ChunkFits(active, Cardinality(Pending(q, k)), SumOver(scBytes, Pending(q, k))))}
  <2> HIDE DEF W
  <2> QED BY <1>2
<1>4. /\ scQueue' = SubSeq(q, n + 1, Len(q))
      /\ scActive' = [items |-> active.items + Cardinality(W(n)), bytes |-> active.bytes + BytesOf(scBytes, W(n))]
      /\ scFuture' = [c \in Chunks |-> IF c \in W(n) THEN "lease" ELSE scFuture[c]]
      /\ scItem' = [c \in Chunks |-> items[c] \/ c \in W(n)]
  BY DEF DrainChunks
<1>5. 0 \in K
  <2>1. Pending(q, 0) = {}
    BY DEF Pending, Leading
  <2>2. 0 \in 0..Len(q)
    BY <1>1
  <2> HIDE DEF K
  <2> QED BY <2>1, <2>2, <1>3
<1> HIDE DEF K, W
<1>6. n \in K /\ n \in 0..Len(q) /\ n + 1 \notin K
  <2>1. K \subseteq 0..Len(q) /\ K # {}
    BY <1>3, <1>5
  <2>2. n \in K /\ \A k \in K : k <= n
    BY <2>1, <1>1, MaxIs
  <2> HIDE DEF n
  <2>3. n \in 0..Len(q) /\ (n + 1 \in K => n + 1 <= n)
    BY <2>1, <2>2
  <2> QED BY <2>2, <2>3, <1>1
<1> HIDE DEF n
<1>7. /\ scActive' = [items |-> active.items + Cardinality(Pending(q, n)), bytes |-> active.bytes + SumOver(scBytes, Pending(q, n))]
      /\ scFuture' = [c \in Chunks |-> IF c \in Pending(q, n) THEN "lease" ELSE scFuture[c]]
      /\ scItem' = [c \in Chunks |-> items[c] \/ c \in Pending(q, n)]
  BY <1>4, <1>6, <1>2
<1>8. SumOver(scBytes, Pending(q, n)) \in Nat /\ Cardinality(Pending(q, n)) \in Nat
  BY <1>6, PendingSum
<1>9. scActive'.items \in 0..MaxItems /\ scActive'.bytes \in 0..MaxBytes
  <2>1. CASE Pending(q, n) = {}
    <3>1. SumOver(scBytes, Pending(q, n)) = 0 /\ Cardinality(Pending(q, n)) = 0
      BY <2>1, SumEmpty, FS_EmptySet
    <3> QED BY <3>1, <1>7
  <2>2. CASE ChunkFits(active, Cardinality(Pending(q, n)), SumOver(scBytes, Pending(q, n)))
    BY <2>2, <1>7, <1>8, <1>1 DEF ChunkFits
  <2> QED BY <2>1, <2>2, <1>6, <1>3
<1>10. ASSUME n < Len(q), scFuture[q[n + 1]] = "pending" PROVE ~ChunkFits(scActive', 1, scBytes[q[n + 1]])
  <2>1. /\ Pending(q, n + 1) # {}
        /\ SumOver(scBytes, Pending(q, n + 1)) = scBytes[q[n + 1]] + SumOver(scBytes, Pending(q, n))
        /\ Cardinality(Pending(q, n + 1)) = 1 + Cardinality(Pending(q, n))
    BY <1>10, <1>6, PendingSum
  <2>2. n + 1 \in 0..Len(q) /\ q # << >>
    BY <1>10, <1>6, <1>1
  <2>3. ~ChunkFits(active, Cardinality(Pending(q, n + 1)), SumOver(scBytes, Pending(q, n + 1)))
    BY <2>1, <2>2, <1>3, <1>6
  <2>4. scBytes[q[n + 1]] \in Nat
    BY <2>2, <1>10, <1>6, <1>1 DEF WaitersOK
  <2> DEFINE b == scBytes[q[n + 1]]
             s == SumOver(scBytes, Pending(q, n))
             m == Cardinality(Pending(q, n))
  <2>5. ~(active.items + (1 + m) <= MaxItems /\ active.bytes + (b + s) <= MaxBytes)
    BY <2>1, <2>3 DEF ChunkFits
  <2>6. scActive'.items = active.items + m /\ scActive'.bytes = active.bytes + s
    BY <1>7
  <2>7. b \in Nat /\ s \in Nat /\ m \in Nat
    BY <2>4, <1>8
  <2> HIDE DEF b, s, m
  <2>8. ~(scActive'.items + 1 <= MaxItems /\ scActive'.bytes + b <= MaxBytes)
    BY <2>5, <2>6, <2>7, <1>1, SMTT(30)
  <2> QED BY <2>8 DEF ChunkFits, b
<1> QED BY <1>4, <1>6, <1>7, <1>9, <1>10 DEF Drained

\* The types, who may be in the queue, and that a granted lease has its item.
SCTypes ==
  /\ scTask \in [Chunks -> {"new", "waiting", "cancelled", "holding", "done"}]
  /\ scFuture \in [Chunks -> {"none", "pending", "lease", "cancelled", "closed"}]
  /\ scBytes \in [Chunks -> Nat] /\ scItem \in [Chunks -> BOOLEAN]
  /\ scActive = [items |-> scActive.items, bytes |-> scActive.bytes]
  /\ scActive.items \in 0..MaxItems /\ scActive.bytes \in 0..MaxBytes /\ scClosed \in BOOLEAN
  /\ WaitersOK(scQueue)
QueuedOK ==
  /\ \A i \in 1..Len(scQueue) : /\ scTask[scQueue[i]] \in {"waiting", "cancelled"}
                                /\ scFuture[scQueue[i]] \in {"pending", "cancelled"}
  /\ scQueue # << >> => ~scClosed
  /\ \A c \in Chunks : scTask[c] \in {"waiting", "cancelled"} /\ scFuture[c] = "lease" => scItem[c]

\* The owners of leases before a drain, and those of them with an item.
Kept(task) == {c \in Chunks : \/ task[c] = "holding"
                              \/ task[c] \in {"waiting", "cancelled"} /\ scFuture[c] = "lease"}
SCInv == SCTypes /\ QueuedOK /\ CapacityAccounted

\* Whatever changed hands before it, a drain that starts from exact counters
\* ends with the invariant.
LEMMA DrainChunksKeeps ==
  ASSUME SCTypes, NEW q, WaitersOK(q), q # << >> => ~scClosed, scClosed' = scClosed,
         NEW active, active.items \in 0..MaxItems, active.bytes \in 0..MaxBytes, NEW items \in [Chunks -> BOOLEAN],
         scTask' \in [Chunks -> {"new", "waiting", "cancelled", "holding", "done"}], scBytes' \in [Chunks -> Nat],
         \A j \in 1..Len(q) : /\ scTask'[q[j]] \in {"waiting", "cancelled"} /\ scFuture[q[j]] \in {"pending", "cancelled"}
                              /\ scBytes'[q[j]] = scBytes[q[j]],
         \A c \in Chunks : scTask'[c] \in {"waiting", "cancelled"} /\ scFuture[c] = "lease" => items[c],
         active.bytes = SumOver(scBytes', Kept(scTask')), active.items = Cardinality({c \in Kept(scTask') : items[c]}),
         DrainChunks(q, active, items)
  PROVE  SCInv'
<1>0. PICK n \in 0..Len(q) : Drained(q, active, items, n)
  <2>1. scBytes \in [Chunks -> Nat]
    BY DEF SCTypes
  <2> QED BY <2>1, DrainChunksEffect
<1>1. /\ scQueue' = SubSeq(q, n + 1, Len(q))
      /\ scActive' = [items |-> active.items + Cardinality(Pending(q, n)),
                      bytes |-> active.bytes + SumOver(scBytes, Pending(q, n))]
      /\ scActive'.items \in 0..MaxItems /\ scActive'.bytes \in 0..MaxBytes
      /\ scFuture' = [c \in Chunks |-> IF c \in Pending(q, n) THEN "lease" ELSE scFuture[c]]
      /\ scItem' = [c \in Chunks |-> items[c] \/ c \in Pending(q, n)]
      /\ n < Len(q) /\ scFuture[q[n + 1]] = "pending" => ~ChunkFits(scActive', 1, scBytes[q[n + 1]])
  BY <1>0 DEF Drained
<1> DEFINE K == Kept(scTask')
           W == Pending(q, n)
<1>2. /\ Len(q) \in Nat /\ q \in Seq(Chunks) /\ (\A i \in 1..Len(q) : q[i] \in Chunks)
      /\ MaxItems \in Nat /\ MaxBytes \in Nat
  BY CapacityAssumption DEF WaitersOK
<1>3. /\ W \subseteq Chunks /\ IsFiniteSet(W) /\ SumOver(scBytes, W) \in Nat /\ Cardinality(W) \in Nat
  BY PendingSum DEF SCTypes
<1>4. K \subseteq Chunks /\ IsFiniteSet(K) /\ K \cap W = {}
  <2>1. K \subseteq Chunks
    BY DEF Kept
  <2>2. \A c \in W : scTask'[c] \in {"waiting", "cancelled"} /\ scFuture[c] = "pending"
    BY <1>2 DEF Pending, Leading
  <2>3. K \cap W = {}
    BY <2>2 DEF Kept
  <2> QED BY <2>1, <2>3, FS_Subset, CapacityAssumption
<1>5. LeaseOwners' = K \cup W
  <2>1. \A c \in W : scTask'[c] \in {"waiting", "cancelled"} /\ scFuture[c] = "pending"
    BY <1>2 DEF Pending, Leading
  <2>2. \A c \in Chunks : scFuture'[c] = IF c \in W THEN "lease" ELSE scFuture[c]
    BY <1>1
  <2> HIDE DEF W
  <2>3. \A c \in Chunks : c \in LeaseOwners' <=> c \in K \cup W
    <3>1. \A c \in Chunks : c \in LeaseOwners' <=> \/ scTask'[c] = "holding"
                                                   \/ scTask'[c] \in {"waiting", "cancelled"} /\ scFuture'[c] = "lease"
      BY DEF LeaseOwners
    <3>2. \A c \in Chunks : c \in K <=> \/ scTask'[c] = "holding"
                                        \/ scTask'[c] \in {"waiting", "cancelled"} /\ scFuture[c] = "lease"
      BY DEF Kept
    <3> HIDE DEF K
    <3> QED BY <3>1, <3>2, <2>1, <2>2
  <2>4. LeaseOwners' \subseteq Chunks
    BY DEF LeaseOwners
  <2> HIDE DEF K
  <2> QED BY <2>3, <2>4, <1>3, <1>4
<1> HIDE DEF K, W
<1>6. SumOver(scBytes', W) = SumOver(scBytes, W)
  <2>1. ASSUME NEW c \in W PROVE scBytes'[c] = scBytes[c]
    <3>1. PICK j \in 1..Len(q) : c = q[j]
      BY <1>2 DEF W, Pending, Leading
    <3> QED BY <3>1
  <2> QED BY <2>1, <1>3, SumSame
<1>7. scActive'.bytes = BytesOf(scBytes', LeaseOwners')
  <2>1. \A c \in K \cup W : scBytes'[c] \in Nat
    BY <1>3, <1>4
  <2>2. SumOver(scBytes', K \cup W) = SumOver(scBytes', K) + SumOver(scBytes', W)
    BY <2>1, <1>3, <1>4, SumUnion
  <2>3. scActive'.bytes = active.bytes + SumOver(scBytes, W)
    BY <1>1 DEF W
  <2>4. active.bytes = SumOver(scBytes', K)
    BY DEF K
  <2> QED BY <2>2, <2>3, <2>4, <1>5, <1>6, BytesAre
<1>8. scActive'.items = Cardinality({c \in LeaseOwners : scItem[c]}')
  <2> DEFINE I == {c \in K : items[c]}
             J == {c \in LeaseOwners : scItem[c]}'
  <2>1. I \subseteq K /\ I \cap W = {} /\ IsFiniteSet(I)
    BY <1>4, FS_Subset
  <2>2. J = I \cup W
    <3>1. \A c \in Chunks : scItem'[c] = (items[c] \/ c \in W)
      BY <1>1 DEF W
    <3> QED BY <3>1, <1>3, <1>4, <1>5
  <2>3. active.items = Cardinality(I)
    BY DEF K
  <2>4. scActive'.items = active.items + Cardinality(W)
    BY <1>1 DEF W
  <2> HIDE DEF I, J
  <2>5. Cardinality(I \cup W) = Cardinality(I) + Cardinality(W)
    <3>1. Cardinality(I \cup W) = Cardinality(I) + Cardinality(W) - Cardinality(I \cap W)
      BY <2>1, <1>3, FS_Union
    <3>2. Cardinality(I \cap W) = 0 /\ Cardinality(I) \in Nat
      BY <2>1, FS_EmptySet, FS_CardinalityType
    <3> QED BY <3>1, <3>2, <1>3
  <2> QED BY <2>2, <2>3, <2>4, <2>5 DEF J
<1>9. /\ scQueue' \in Seq(Chunks) /\ Len(scQueue') = Len(q) - n
      /\ \A i \in 1..(Len(q) - n) : scQueue'[i] = q[n + i]
  <2>1. \A i \in (n + 1)..Len(q) : q[i] \in Chunks
    BY <1>2
  <2> QED BY <1>1, <1>2, <2>1, SubSeqProperties
<1>10. WaitersOK(scQueue')
  <2>1. ASSUME NEW i \in 1..Len(scQueue'), NEW j \in 1..Len(scQueue'), scQueue'[i] = scQueue'[j] PROVE i = j
    <3>0. i \in 1..(Len(q) - n) /\ j \in 1..(Len(q) - n)
      BY <2>1, <1>9
    <3>1. n + i \in 1..Len(q) /\ n + j \in 1..Len(q)
      BY <3>0, <1>2
    <3>2. n + i = n + j
      <4>1. q[n + i] = q[n + j]
        BY <3>0, <2>1, <1>9
      <4> QED BY <4>1, <3>1 DEF WaitersOK
    <3> QED BY <3>2, <3>0
  <2> QED BY <2>1, <1>9 DEF WaitersOK
<1>11. SCTypes'
  <2>1. scFuture' \in [Chunks -> {"none", "pending", "lease", "cancelled", "closed"}]
    BY <1>1 DEF SCTypes
  <2>2. scItem' \in [Chunks -> BOOLEAN]
    BY <1>1
  <2>3. scActive' = [items |-> scActive'.items, bytes |-> scActive'.bytes]
    BY <1>1
  <2>4. scClosed' \in BOOLEAN
    BY DEF SCTypes
  <2> QED BY <2>1, <2>2, <2>3, <2>4, <1>1, <1>10 DEF SCTypes
<1>12. QueuedOK'
  <2>1. ASSUME NEW i \in 1..Len(scQueue')
        PROVE  scTask'[scQueue'[i]] \in {"waiting", "cancelled"} /\ scFuture'[scQueue'[i]] \in {"pending", "cancelled"}
    <3>1. n + i \in 1..Len(q) /\ scQueue'[i] = q[n + i] /\ q[n + i] \in Chunks
      BY <2>1, <1>9, <1>2, SMTT(30)
    <3>2. q[n + i] \notin W
      BY <3>1, <1>2, SMTT(30) DEF W, Pending, Leading, WaitersOK
    <3>3. scFuture'[q[n + i]] = scFuture[q[n + i]]
      BY <3>1, <3>2, <1>1 DEF W
    <3> QED BY <3>1, <3>3
  <2>2. scQueue' # << >> => ~scClosed'
    <3>1. ASSUME scQueue' # << >> PROVE q # << >>
      BY <3>1, <1>9, <1>2
    <3> QED BY <3>1
  <2>3. ASSUME NEW c \in Chunks, scTask'[c] \in {"waiting", "cancelled"}, scFuture'[c] = "lease" PROVE scItem'[c]
    <3>1. scFuture'[c] = (IF c \in W THEN "lease" ELSE scFuture[c]) /\ scItem'[c] = (items[c] \/ c \in W)
      BY <1>1 DEF W
    <3> QED BY <3>1, <2>3
  <2> QED BY <2>1, <2>2, <2>3 DEF QueuedOK
<1>13. ASSUME scQueue' # << >>, scFuture'[Head(scQueue')] = "pending"
       PROVE  ~ChunkFits(scActive', 1, scBytes'[Head(scQueue')])
  <2>1. n < Len(q) /\ Head(scQueue') = q[n + 1] /\ n + 1 \in 1..Len(q) /\ q[n + 1] \in Chunks
    <3>1. Len(scQueue') > 0 /\ Head(scQueue') = scQueue'[1]
      BY <1>13, <1>9
    <3>2. 1 \in 1..(Len(q) - n) /\ n < Len(q)
      BY <3>1, <1>9, <1>2
    <3> QED BY <3>1, <3>2, <1>9, <1>2
  <2>2. q[n + 1] \notin W
    BY <2>1, <1>2 DEF W, Pending, Leading, WaitersOK
  <2>3. scFuture[q[n + 1]] = "pending"
    BY <2>1, <2>2, <1>13, <1>1 DEF W
  <2> QED BY <2>1, <2>3, <1>1
<1>14. CapacityAccounted'
  <2>1. scActive'.items <= MaxItems /\ scActive'.bytes <= MaxBytes
    BY <1>1, <1>2
  <2> QED BY <1>7, <1>8, <1>13, <2>1 DEF CapacityAccounted
<1> QED BY <1>11, <1>12, <1>14 DEF SCInv

Itemed(owners) == {c \in owners : scItem[c]}

\* The counters as sums over the owners of leases, one of them taken out.
LEMMA OwnersAre ==
  ASSUME SCInv
  PROVE  /\ LeaseOwners = Kept(scTask) /\ LeaseOwners \subseteq Chunks /\ IsFiniteSet(LeaseOwners)
         /\ scActive.bytes = SumOver(scBytes, LeaseOwners) /\ scActive.items = Cardinality(Itemed(LeaseOwners))
         /\ Itemed(LeaseOwners) \subseteq LeaseOwners /\ IsFiniteSet(Itemed(LeaseOwners))
         /\ scActive.items \in Nat /\ scActive.bytes \in Nat /\ MaxItems \in Nat /\ MaxBytes \in Nat
         /\ scActive.items <= MaxItems /\ scActive.bytes <= MaxBytes
         /\ \A c \in LeaseOwners : /\ scBytes[c] \in Nat /\ SumOver(scBytes, LeaseOwners \ {c}) \in Nat
                                   /\ scActive.bytes = scBytes[c] + SumOver(scBytes, LeaseOwners \ {c})
         /\ \A i \in 1..Len(scQueue) : scQueue[i] \in Chunks /\ scQueue[i] \notin LeaseOwners
<1>1. LeaseOwners \subseteq Chunks /\ LeaseOwners = Kept(scTask)
  BY DEF LeaseOwners, Kept
<1>2. IsFiniteSet(LeaseOwners) /\ Itemed(LeaseOwners) \subseteq LeaseOwners /\ IsFiniteSet(Itemed(LeaseOwners))
  <2>1. IsFiniteSet(LeaseOwners) /\ Itemed(LeaseOwners) \subseteq LeaseOwners
    BY <1>1, FS_Subset, CapacityAssumption DEF Itemed
  <2> QED BY <2>1, FS_Subset
<1>3. scActive.bytes = SumOver(scBytes, LeaseOwners) /\ scActive.items = Cardinality(Itemed(LeaseOwners))
  BY BytesAre DEF SCInv, CapacityAccounted, Itemed
<1>4. /\ scActive.items \in Nat /\ scActive.bytes \in Nat /\ MaxItems \in Nat /\ MaxBytes \in Nat
      /\ scActive.items <= MaxItems /\ scActive.bytes <= MaxBytes
  BY CapacityAssumption DEF SCInv, SCTypes
<1>5. \A c \in LeaseOwners : scBytes[c] \in Nat
  BY <1>1 DEF SCInv, SCTypes
<1>6. ASSUME NEW c \in LeaseOwners
      PROVE  SumOver(scBytes, LeaseOwners \ {c}) \in Nat /\ scActive.bytes = scBytes[c] + SumOver(scBytes, LeaseOwners \ {c})
  <2>1. IsFiniteSet(LeaseOwners \ {c})
    BY <1>2, FS_Subset
  <2> QED BY <2>1, <1>2, <1>3, <1>5, SumNat, SumOut
<1>7. \A i \in 1..Len(scQueue) : scQueue[i] \in Chunks /\ scQueue[i] \notin LeaseOwners
  <2>1. \A i \in 1..Len(scQueue) : scQueue[i] \in Chunks
    BY DEF SCInv, SCTypes, WaitersOK
  <2>2. \A i \in 1..Len(scQueue) : scTask[scQueue[i]] # "holding" /\ scFuture[scQueue[i]] # "lease"
    BY DEF SCInv, QueuedOK
  <2> QED BY <2>1, <2>2 DEF LeaseOwners
<1> QED BY <1>1, <1>2, <1>3, <1>4, <1>5, <1>6, <1>7

\* The initial state satisfies the invariant.
LEMMA CapacityStart == SCInit => SCInv
<1> SUFFICES ASSUME SCInit PROVE SCInv
  OBVIOUS
<1>1. scQueue = << >> /\ scQueue \in Seq(Chunks) /\ Len(scQueue) = 0
  BY DEF SCInit
<1>2. MaxItems \in Nat /\ MaxBytes \in Nat
  BY CapacityAssumption
<1>3. SCTypes
  <2>1. WaitersOK(scQueue)
    BY <1>1 DEF WaitersOK
  <2>2. scActive = [items |-> 0, bytes |-> 0]
    BY DEF SCInit
  <2>3. /\ scActive = [items |-> scActive.items, bytes |-> scActive.bytes]
        /\ scActive.items \in 0..MaxItems /\ scActive.bytes \in 0..MaxBytes
    BY <2>2, <1>2
  <2>4. /\ scTask \in [Chunks -> {"new", "waiting", "cancelled", "holding", "done"}]
        /\ scFuture \in [Chunks -> {"none", "pending", "lease", "cancelled", "closed"}]
        /\ scBytes \in [Chunks -> Nat] /\ scItem \in [Chunks -> BOOLEAN] /\ scClosed \in BOOLEAN
    BY DEF SCInit
  <2> QED BY <2>1, <2>3, <2>4 DEF SCTypes
<1>4. QueuedOK
  BY <1>1 DEF SCInit, QueuedOK
<1>5. LeaseOwners = {}
  BY DEF SCInit, LeaseOwners
<1>6. BytesOf(scBytes, LeaseOwners) = 0 /\ Cardinality({c \in LeaseOwners : scItem[c]}) = 0
  BY <1>5, BytesAre, SumEmpty, FS_EmptySet
<1>7. CapacityAccounted
  BY <1>1, <1>2, <1>6 DEF SCInit, CapacityAccounted
<1> QED BY <1>3, <1>4, <1>7 DEF SCInv

\* An owner that gives back all it has keeps the invariant.
LEMMA OwnerLeaves ==
  ASSUME SCInv, NEW c \in LeaseOwners, scBytes' = [scBytes EXCEPT ![c] = 0],
         scTask' = [scTask EXCEPT ![c] = "done"], scClosed' = scClosed,
         DrainChunks(scQueue, Less(c, scBytes[c], scItem[c]), Without(c))
  PROVE  SCInv'
<1> DEFINE a == Less(c, scBytes[c], scItem[c])
           w == Without(c)
           rest == LeaseOwners \ {c}
<1>1. SCTypes /\ QueuedOK /\ c \in Chunks /\ scItem \in [Chunks -> BOOLEAN] /\ WaitersOK(scQueue)
  BY OwnersAre DEF SCInv, SCTypes
<1>2. w \in [Chunks -> BOOLEAN] /\ \A d \in Chunks : w[d] = (scItem[d] /\ d # c)
  BY <1>1 DEF Without
<1>3. /\ scTask' \in [Chunks -> {"new", "waiting", "cancelled", "holding", "done"}]
      /\ scBytes' \in [Chunks -> Nat]
      /\ \A d \in Chunks : scTask'[d] = (IF d = c THEN "done" ELSE scTask[d])
      /\ \A d \in Chunks : d # c => scBytes'[d] = scBytes[d]
  BY <1>1 DEF SCTypes
<1>4. Kept(scTask') = rest
  BY <1>3, OwnersAre DEF Kept
<1>5. a.bytes = SumOver(scBytes', rest) /\ a.bytes \in 0..MaxBytes
  <2>1. a.bytes = SumOver(scBytes, rest)
    <3>1. a.bytes = scActive.bytes - scBytes[c]
      BY DEF Less
    <3>2. scActive.bytes = scBytes[c] + SumOver(scBytes, rest) /\ scBytes[c] \in Nat /\ SumOver(scBytes, rest) \in Nat
      BY OwnersAre
    <3> HIDE DEF a, rest
    <3> QED BY <3>1, <3>2, OwnersAre
  <2>2. SumOver(scBytes', rest) = SumOver(scBytes, rest)
    <3>1. IsFiniteSet(rest) /\ \A d \in rest : scBytes'[d] = scBytes[d]
      BY OwnersAre, <1>3, FS_Subset, SMTT(30)
    <3> DEFINE v == scBytes
               w1 == scBytes'
    <3>2. \A d \in rest : w1[d] = v[d]
      BY <3>1
    <3> HIDE DEF rest, v, w1
    <3>3. SumOver(w1, rest) = SumOver(v, rest)
      BY <3>1, <3>2, SumSame
    <3> QED BY <3>3 DEF v, w1
  <2>3. a.bytes <= MaxBytes /\ a.bytes \in Nat
    <3>1. scActive.bytes = scBytes[c] + a.bytes /\ scBytes[c] \in Nat /\ a.bytes \in Nat /\ scActive.bytes <= MaxBytes
      BY <2>1, OwnersAre
    <3> QED BY <3>1, OwnersAre
  <2> QED BY <2>1, <2>2, <2>3, OwnersAre
<1>6. a.items = Cardinality({d \in rest : w[d]}) /\ a.items \in 0..MaxItems
  <2> DEFINE I == Itemed(LeaseOwners)
  <2>1. {d \in rest : w[d]} = I \ {c}
    BY <1>2, OwnersAre DEF Itemed
  <2>2. c \in I <=> scItem[c]
    BY DEF Itemed
  <2> HIDE DEF I
  <2>3. Cardinality(I \ {c}) = IF c \in I THEN Cardinality(I) - 1 ELSE Cardinality(I)
    BY OwnersAre, FS_RemoveElement DEF I
  <2>4. Cardinality(I \ {c}) \in Nat
    BY OwnersAre, FS_RemoveElement, FS_CardinalityType DEF I
  <2>5. a.items = scActive.items - (IF scItem[c] THEN 1 ELSE 0)
    BY DEF Less
  <2>6. scActive.items = Cardinality(I) /\ scActive.items \in Nat /\ scActive.items <= MaxItems /\ MaxItems \in Nat
    BY OwnersAre DEF I
  <2> HIDE DEF a
  <2>7. a.items = Cardinality(I \ {c})
    BY <2>2, <2>3, <2>5, <2>6
  <2>8. a.items <= MaxItems
    BY <2>5, <2>6
  <2> QED BY <2>1, <2>4, <2>6, <2>7, <2>8
<1>7. \A d \in Chunks : scTask'[d] \in {"waiting", "cancelled"} /\ scFuture[d] = "lease" => w[d]
  BY <1>1, <1>2, <1>3 DEF QueuedOK
<1>8. \A j \in 1..Len(scQueue) : /\ scTask'[scQueue[j]] \in {"waiting", "cancelled"} /\ scFuture[scQueue[j]] \in {"pending", "cancelled"}
                                 /\ scBytes'[scQueue[j]] = scBytes[scQueue[j]]
  BY <1>1, <1>3, OwnersAre DEF QueuedOK
<1>9. scQueue # << >> => ~scClosed
  BY <1>1 DEF QueuedOK
<1>10. DrainChunks(scQueue, a, w)
  OBVIOUS
<1> HIDE DEF a, w, rest
<1> QED BY <1>1, <1>2, <1>3, <1>4, <1>5, <1>6, <1>7, <1>8, <1>9, <1>10, DrainChunksKeeps

\* The parts of the invariant, ready to be cited.
LEMMA CapacityParts ==
  ASSUME SCInv
  PROVE  /\ SCTypes /\ QueuedOK /\ WaitersOK(scQueue) /\ (scQueue # << >> => ~scClosed)
         /\ scTask \in [Chunks -> {"new", "waiting", "cancelled", "holding", "done"}]
         /\ scFuture \in [Chunks -> {"none", "pending", "lease", "cancelled", "closed"}]
         /\ scBytes \in [Chunks -> Nat] /\ scItem \in [Chunks -> BOOLEAN]
         /\ scActive.items \in 0..MaxItems /\ scActive.bytes \in 0..MaxBytes
         /\ \A j \in 1..Len(scQueue) : /\ scTask[scQueue[j]] \in {"waiting", "cancelled"}
                                       /\ scFuture[scQueue[j]] \in {"pending", "cancelled"}
                                       /\ scQueue[j] \in Chunks
         /\ \A d \in Chunks : scTask[d] \in {"waiting", "cancelled"} /\ scFuture[d] = "lease" => scItem[d]
BY DEF SCInv, SCTypes, QueuedOK, WaitersOK

\* A lease is released.
LEMMA ReleaseAllKeeps == ASSUME SCInv, NEW c \in Chunks, ReleaseAll(c) PROVE SCInv'
<1>1. c \in LeaseOwners
  BY DEF ReleaseAll, LeaseOwners
<1> QED BY <1>1, OwnerLeaves DEF ReleaseAll

\* Part of a lease is consumed, or the rest of it.
LEMMA ConsumeKeeps == ASSUME SCInv, NEW c \in Chunks, ConsumeChunk(c) PROVE SCInv'
<1>1. c \in LeaseOwners /\ scTask[c] = "holding" /\ scClosed' = scClosed
  BY DEF ConsumeChunk, LeaseOwners
<1>2. PICK b \in 1..scBytes[c] :
        /\ DrainChunks(scQueue, Less(c, b, b = scBytes[c] /\ scItem[c]), IF b = scBytes[c] THEN Without(c) ELSE scItem)
        /\ scBytes' = [scBytes EXCEPT ![c] = @ - b]
        /\ scTask' = [scTask EXCEPT ![c] = IF b = scBytes[c] THEN "done" ELSE @]
  BY DEF ConsumeChunk
<1>3. scBytes \in [Chunks -> Nat] /\ scTask \in [Chunks -> {"new", "waiting", "cancelled", "holding", "done"}] /\ scBytes[c] \in Nat
  BY CapacityParts
<1>4. CASE b = scBytes[c]
  <2>1. scBytes' = [scBytes EXCEPT ![c] = 0] /\ scTask' = [scTask EXCEPT ![c] = "done"]
    <3>1. scBytes[c] - b = 0
      BY <1>3, <1>4
    <3>2. scBytes' = [scBytes EXCEPT ![c] = scBytes[c] - b]
      BY <1>2
    <3>3. scTask' = [scTask EXCEPT ![c] = "done"]
      BY <1>2, <1>4
    <3> QED BY <3>1, <3>2, <3>3
  <2>2. Less(c, b, b = scBytes[c] /\ scItem[c]) = Less(c, scBytes[c], scItem[c])
    BY <1>4 DEF Less
  <2>3. DrainChunks(scQueue, Less(c, scBytes[c], scItem[c]), Without(c))
    BY <1>2, <1>4, <2>2
  <2> QED BY <1>1, <2>1, <2>3, OwnerLeaves
<1>5. CASE b # scBytes[c]
  <2> DEFINE a == Less(c, b, b = scBytes[c] /\ scItem[c])
             rest == LeaseOwners \ {c}
  <2>1. scTask' = scTask /\ DrainChunks(scQueue, a, scItem)
    BY <1>2, <1>3, <1>5
  <2>2. a.items = scActive.items /\ a.bytes = scActive.bytes - b
    <3>1. a = [items |-> scActive.items - 0, bytes |-> scActive.bytes - b]
      BY <1>5 DEF Less
    <3> QED BY <3>1, OwnersAre
  <2>3. scBytes' \in [Chunks -> Nat] /\ scBytes'[c] = scBytes[c] - b /\ \A d \in Chunks : d # c => scBytes'[d] = scBytes[d]
    BY <1>2, <1>3
  <2>4. Kept(scTask') = LeaseOwners
    BY <2>1, OwnersAre
  <2> HIDE DEF a
  <2>5. a.bytes = SumOver(scBytes', LeaseOwners)
    <3>1. IsFiniteSet(rest) /\ \A d \in rest : scBytes'[d] = scBytes[d]
      BY OwnersAre, <2>3, FS_Subset
    <3>2. SumOver(scBytes', rest) = SumOver(scBytes, rest)
      <4> HIDE DEF rest
      <4> QED BY <3>1, SumSame
    <3>3. \A d \in LeaseOwners : scBytes'[d] \in Nat
      BY <2>3, OwnersAre
    <3>4. SumOver(scBytes', LeaseOwners) = scBytes'[c] + SumOver(scBytes', rest)
      BY <3>3, <1>1, OwnersAre, SumOut
    <3>5. scActive.bytes = scBytes[c] + SumOver(scBytes, rest) /\ SumOver(scBytes, rest) \in Nat
      BY <1>1, OwnersAre
    <3> QED BY <3>2, <3>4, <3>5, <2>2, <2>3, <1>3
  <2>6. a.bytes \in 0..MaxBytes /\ a.items \in 0..MaxItems
    <3>1. scActive.bytes = scBytes[c] + SumOver(scBytes, rest) /\ SumOver(scBytes, rest) \in Nat
      BY <1>1, OwnersAre
    <3>2. b \in Nat /\ b <= scBytes[c]
      BY <1>3
    <3>3. scActive.bytes - b \in Nat /\ scActive.bytes - b <= scActive.bytes
      BY <3>1, <3>2, <1>3
    <3> QED BY <3>3, <2>2, OwnersAre
  <2>7. a.items = Cardinality({d \in Kept(scTask') : scItem[d]})
    BY <2>2, <2>4, OwnersAre DEF Itemed
  <2>8. \A j \in 1..Len(scQueue) : /\ scTask'[scQueue[j]] \in {"waiting", "cancelled"} /\ scFuture[scQueue[j]] \in {"pending", "cancelled"}
                                   /\ scBytes'[scQueue[j]] = scBytes[scQueue[j]]
    BY <2>1, <2>3, <1>1, CapacityParts
  <2>9. \A d \in Chunks : scTask'[d] \in {"waiting", "cancelled"} /\ scFuture[d] = "lease" => scItem[d]
    BY <2>1, CapacityParts
  <2>10. scTask' \in [Chunks -> {"new", "waiting", "cancelled", "holding", "done"}]
    BY <2>1, <1>3
  <2> QED BY <1>1, <2>1, <2>3, <2>4, <2>5, <2>6, <2>7, <2>8, <2>9, <2>10, CapacityParts, DrainChunksKeeps
<1> QED BY <1>4, <1>5

\* A cancelled task runs: its lease, if the grant came first, goes back;
\* otherwise it leaves the queue.
LEMMA CancelWaiterKeeps == ASSUME SCInv, NEW c \in Chunks, CancelWaiter(c) PROVE SCInv'
<1>1. scTask[c] = "cancelled" /\ scTask' = [scTask EXCEPT ![c] = "done"] /\ scClosed' = scClosed
  BY DEF CancelWaiter
<1>2. ASSUME scFuture[c] = "lease", DrainChunks(scQueue, Less(c, scBytes[c], TRUE), Without(c)), scBytes' = [scBytes EXCEPT ![c] = 0]
      PROVE  SCInv'
  <2>1. c \in LeaseOwners
    BY <1>1, <1>2 DEF LeaseOwners
  <2>2. scItem[c] = TRUE
    BY <1>1, <1>2, CapacityParts
  <2> QED BY <1>1, <1>2, <2>1, <2>2, OwnerLeaves
<1>3. ASSUME scFuture[c] # "lease", DrainChunks(Dequeued(c), scActive, scItem), scBytes' = scBytes
      PROVE  SCInv'
  <2> DEFINE q == Dequeued(c)
  <2>1. scQueue \in Seq(Chunks) /\ \A i, j \in 1..Len(scQueue) : scQueue[i] = scQueue[j] => i = j
    BY CapacityParts DEF WaitersOK
  <2>2. /\ WaitersOK(q) /\ (q # << >> => scQueue # << >>)
        /\ \A j \in 1..Len(q) : q[j] # c /\ \E i \in 1..Len(scQueue) : q[j] = scQueue[i]
    <3>1. CASE c \in Range(scQueue)
      <4> DEFINE i == CHOOSE k \in DOMAIN scQueue : scQueue[k] = c
      <4>1. \E k \in DOMAIN scQueue : scQueue[k] = c
        BY <3>1 DEF Range
      <4>2. i \in DOMAIN scQueue /\ scQueue[i] = c
        BY <4>1
      <4>3. q = RemoveAt(scQueue, i)
        BY <3>1 DEF Dequeued
      <4> HIDE DEF i, q
      <4>4. /\ q \in Seq(Chunks) /\ \A j, k \in 1..Len(q) : q[j] = q[k] => j = k
            /\ Leading(q, Len(q)) = Leading(scQueue, Len(scQueue)) \ {c}
        BY <2>1, <4>2, <4>3, Gone
      <4>5. \A j \in 1..Len(q) : q[j] \in Leading(q, Len(q))
        BY DEF Leading
      <4>6. \A x \in Leading(scQueue, Len(scQueue)) : \E k \in 1..Len(scQueue) : x = scQueue[k]
        BY DEF Leading
      <4>7. scQueue # << >>
        BY <4>2, <2>1
      <4>8. ASSUME NEW j \in 1..Len(q) PROVE q[j] # c /\ \E k \in 1..Len(scQueue) : q[j] = scQueue[k]
        BY <4>4, <4>5, <4>6
      <4> QED BY <4>4, <4>7, <4>8 DEF WaitersOK
    <3>2. CASE c \notin Range(scQueue)
      <4>1. q = scQueue
        BY <3>2 DEF Dequeued
      <4>2. \A j \in 1..Len(scQueue) : scQueue[j] # c
        BY <3>2, <2>1 DEF Range
      <4> HIDE DEF q
      <4> QED BY <4>1, <4>2, CapacityParts
    <3> QED BY <3>1, <3>2
  <2>3. DrainChunks(q, scActive, scItem)
    BY <1>3
  <2> HIDE DEF q
  <2>4. \A d \in Chunks : scTask'[d] = IF d = c THEN "done" ELSE scTask[d]
    BY <1>1, CapacityParts
  <2>5. scTask' \in [Chunks -> {"new", "waiting", "cancelled", "holding", "done"}]
    BY <1>1, CapacityParts
  <2>6. Kept(scTask') = LeaseOwners
    BY <2>4, <1>1, <1>3 DEF Kept, LeaseOwners
  <2>7. \A j \in 1..Len(q) : /\ scTask'[q[j]] \in {"waiting", "cancelled"} /\ scFuture[q[j]] \in {"pending", "cancelled"}
                             /\ scBytes'[q[j]] = scBytes[q[j]]
    <3>1. ASSUME NEW j \in 1..Len(q)
          PROVE  /\ scTask'[q[j]] \in {"waiting", "cancelled"} /\ scFuture[q[j]] \in {"pending", "cancelled"}
                 /\ scBytes'[q[j]] = scBytes[q[j]]
      <4>1. PICK i \in 1..Len(scQueue) : q[j] = scQueue[i]
        BY <2>2
      <4>2. q[j] \in Chunks /\ q[j] # c /\ scTask[q[j]] \in {"waiting", "cancelled"} /\ scFuture[q[j]] \in {"pending", "cancelled"}
        BY <4>1, <2>2, CapacityParts
      <4> QED BY <4>2, <2>4, <1>3
    <3> QED BY <3>1
  <2>8. \A d \in Chunks : scTask'[d] \in {"waiting", "cancelled"} /\ scFuture[d] = "lease" => scItem[d]
    BY <2>4, CapacityParts
  <2>9. scActive.bytes = SumOver(scBytes', Kept(scTask')) /\ scActive.items = Cardinality({d \in Kept(scTask') : scItem[d]})
    BY <2>6, <1>3, OwnersAre DEF Itemed
  <2>10. scBytes' \in [Chunks -> Nat] /\ (q # << >> => ~scClosed)
    BY <1>3, <2>2, CapacityParts
  <2> QED BY <1>1, <2>2, <2>3, <2>5, <2>7, <2>8, <2>9, <2>10, CapacityParts, DrainChunksKeeps
<1> QED BY <1>2, <1>3 DEF CancelWaiter

\* A lease takes over the bytes of another, and both items go back.
LEMMA AbsorbKeeps == ASSUME SCInv, NEW c \in Chunks, NEW d \in Chunks, AbsorbChunk(c, d) PROVE SCInv'
<1> DEFINE freed == {e \in {c, d} : scItem[e]}
           a == [scActive EXCEPT !.items = @ - Cardinality(freed)]
           w == [e \in Chunks |-> scItem[e] /\ e \notin freed]
           rest == LeaseOwners \ {d}
           last == rest \ {c}
<1>1. /\ c # d /\ scTask[c] = "holding" /\ scTask[d] = "holding" /\ scClosed' = scClosed
      /\ DrainChunks(scQueue, a, w)
      /\ scBytes' = [scBytes EXCEPT ![c] = scBytes[c] + scBytes[d], ![d] = 0]
      /\ scTask' = [scTask EXCEPT ![d] = "done"]
  BY DEF AbsorbChunk
<1>2. c \in LeaseOwners /\ d \in LeaseOwners /\ c \in rest
  BY <1>1 DEF LeaseOwners
<1>3. /\ scBytes' \in [Chunks -> Nat] /\ scBytes'[c] = scBytes[c] + scBytes[d] /\ scBytes[c] \in Nat /\ scBytes[d] \in Nat
      /\ \A e \in Chunks : e # c /\ e # d => scBytes'[e] = scBytes[e]
  BY <1>1, CapacityParts
<1>4. /\ scTask' \in [Chunks -> {"new", "waiting", "cancelled", "holding", "done"}]
      /\ \A e \in Chunks : scTask'[e] = IF e = d THEN "done" ELSE scTask[e]
  BY <1>1, CapacityParts
<1>5. Kept(scTask') = rest
  BY <1>4, OwnersAre DEF Kept
<1>6. scActive = [items |-> scActive.items, bytes |-> scActive.bytes]
  BY CapacityParts DEF SCTypes
<1>7. a.items = scActive.items - Cardinality(freed) /\ a.bytes = scActive.bytes
  BY <1>6
<1>8. a.bytes = SumOver(scBytes', rest)
  <2>1. IsFiniteSet(rest) /\ IsFiniteSet(last) /\ rest \subseteq LeaseOwners /\ last \subseteq LeaseOwners
    BY OwnersAre, FS_Subset
  <2>2. \A e \in rest : scBytes'[e] \in Nat /\ scBytes[e] \in Nat
    BY <1>3, OwnersAre, <2>1
  <2>3. \A e \in last : scBytes'[e] = scBytes[e]
    BY <1>3, OwnersAre
  <2>4. scActive.bytes = scBytes[d] + SumOver(scBytes, rest)
    BY <1>2, OwnersAre
  <2> HIDE DEF rest
  <2>5. SumOver(scBytes, rest) = scBytes[c] + SumOver(scBytes, last)
    BY <2>1, <2>2, <1>2, SumOut
  <2>6. SumOver(scBytes', rest) = scBytes'[c] + SumOver(scBytes', last)
    BY <2>1, <2>2, <1>2, SumOut
  <2>7. SumOver(scBytes', last) = SumOver(scBytes, last) /\ SumOver(scBytes, last) \in Nat
    <3>1. \A e \in last : scBytes[e] \in Nat
      BY <2>1, OwnersAre
    <3> HIDE DEF last
    <3> QED BY <3>1, <2>1, <2>3, SumSame, SumNat
  <2> HIDE DEF last, a
  <2> QED BY <2>4, <2>5, <2>6, <2>7, <1>3, <1>7
<1>9. a.items = Cardinality({e \in Kept(scTask') : w[e]}) /\ a.items \in 0..MaxItems
  <2> DEFINE I == Itemed(LeaseOwners)
  <2>1. {e \in rest : w[e]} = I \ freed
    <3>1. ASSUME NEW e PROVE e \in {x \in rest : w[x]} <=> e \in I \ freed
      BY <1>2, OwnersAre DEF Itemed
    <3> QED BY <3>1
  <2>2. freed \subseteq I /\ I \cap freed = freed
    BY <1>2 DEF Itemed
  <2>3. IsFiniteSet(I) /\ scActive.items = Cardinality(I) /\ scActive.items \in Nat /\ scActive.items <= MaxItems /\ MaxItems \in Nat
    BY OwnersAre
  <2> HIDE DEF I, freed
  <2>4. Cardinality(I \ freed) = Cardinality(I) - Cardinality(freed) /\ Cardinality(I \ freed) \in Nat
    <3>1. IsFiniteSet(I \ freed) /\ Cardinality(I \ freed) = Cardinality(I) - Cardinality(I \cap freed)
      BY <2>3, FS_Difference
    <3>2. Cardinality(I \ freed) \in Nat
      BY <3>1, FS_CardinalityType
    <3> QED BY <3>1, <3>2, <2>2
  <2>5. Cardinality(freed) \in Nat
    BY <2>2, <2>3, FS_Subset, FS_CardinalityType
  <2> HIDE DEF a, w, rest
  <2>6. a.items \in 0..MaxItems
    BY <2>3, <2>4, <2>5, <1>7
  <2> QED BY <2>1, <2>3, <2>4, <2>6, <1>5, <1>7
<1>10. w \in [Chunks -> BOOLEAN]
  <2> HIDE DEF freed
  <2>1. \A e \in Chunks : scItem[e] \in BOOLEAN
    BY CapacityParts
  <2> QED BY <2>1
<1>11. \A e \in Chunks : scTask'[e] \in {"waiting", "cancelled"} /\ scFuture[e] = "lease" => w[e]
  BY <1>1, <1>4, CapacityParts
<1>12. \A j \in 1..Len(scQueue) : /\ scTask'[scQueue[j]] \in {"waiting", "cancelled"} /\ scFuture[scQueue[j]] \in {"pending", "cancelled"}
                                  /\ scBytes'[scQueue[j]] = scBytes[scQueue[j]]
  BY <1>1, <1>3, <1>4, CapacityParts
<1>13. a.bytes \in 0..MaxBytes
  BY <1>7, CapacityParts
<1> HIDE DEF a, w, rest, freed, last
<1>14. a.bytes = SumOver(scBytes', Kept(scTask'))
  BY <1>5, <1>8
<1>15. WaitersOK(scQueue) /\ SCTypes /\ (scQueue # << >> => ~scClosed)
  BY CapacityParts
<1>16. /\ DrainChunks(scQueue, a, w) /\ scClosed' = scClosed /\ scBytes' \in [Chunks -> Nat]
       /\ scTask' \in [Chunks -> {"new", "waiting", "cancelled", "holding", "done"}]
  BY <1>1, <1>3, <1>4
<1> QED BY <1>9, <1>10, <1>11, <1>12, <1>13, <1>14, <1>15, <1>16, DrainChunksKeeps

\* A step that moves no lease keeps the invariant.
LEMMA AsideKeeps ==
  ASSUME SCInv, LeaseOwners' = LeaseOwners, SCTypes', QueuedOK', \A e \in LeaseOwners : scBytes'[e] = scBytes[e],
         scItem' = scItem, scActive' = scActive,
         scQueue' # << >> /\ scFuture'[Head(scQueue')] = "pending" => ~ChunkFits(scActive, 1, scBytes'[Head(scQueue')])
  PROVE  SCInv'
<1>1. SumOver(scBytes', LeaseOwners) = SumOver(scBytes, LeaseOwners)
  BY OwnersAre, SumSame
<1>2. BytesOf(scBytes', LeaseOwners') = scActive.bytes
  BY <1>1, OwnersAre, BytesAre
<1>3. Cardinality({e \in LeaseOwners' : scItem'[e]}) = scActive.items
  BY OwnersAre DEF Itemed
<1>4. scActive.items <= MaxItems /\ scActive.bytes <= MaxBytes
  BY OwnersAre
<1>5. CapacityAccounted'
  BY <1>2, <1>3, <1>4 DEF CapacityAccounted
<1> QED BY <1>5 DEF SCInv

\* A task learns that it has its lease, or is cancelled.
LEMMA WakeChunkKeeps == ASSUME SCInv, NEW c \in Chunks, WakeChunk(c) \/ CancelChunk(c) PROVE SCInv'
<1>1. /\ scTask[c] = "waiting" /\ UNCHANGED <<scBytes, scItem, scQueue, scActive, scClosed>>
      /\ scActive = [items |-> scActive.items, bytes |-> scActive.bytes] /\ scClosed \in BOOLEAN
  BY CapacityParts DEF WakeChunk, CancelChunk, SCTypes
<1>2. PICK t \in {"holding", "done", "cancelled"}, f \in {"lease", "closed", "pending", "none", "cancelled"} :
         /\ scTask' = [scTask EXCEPT ![c] = t] /\ scFuture' = [scFuture EXCEPT ![c] = f]
         /\ t = "holding" => f = scFuture[c] /\ f = "lease"
         /\ t = "done" => f = scFuture[c] /\ f = "closed"
         /\ t = "cancelled" => f = IF scFuture[c] = "pending" THEN "cancelled" ELSE scFuture[c]
  <2>1. CASE WakeChunk(c)
    <3>1. scFuture' = [scFuture EXCEPT ![c] = scFuture[c]]
      BY <2>1, CapacityParts DEF WakeChunk
    <3>2. CASE scFuture[c] = "lease"
      <4>1. scTask' = [scTask EXCEPT ![c] = "holding"]
        BY <2>1, <3>2 DEF WakeChunk
      <4> QED BY <4>1, <3>1, <3>2
    <3>3. CASE scFuture[c] = "closed"
      <4>1. scTask' = [scTask EXCEPT ![c] = "done"]
        BY <2>1, <3>3 DEF WakeChunk
      <4> QED BY <4>1, <3>1, <3>3
    <3> QED BY <2>1, <3>2, <3>3 DEF WakeChunk
  <2>2. CASE CancelChunk(c)
    <3> DEFINE f == IF scFuture[c] = "pending" THEN "cancelled" ELSE scFuture[c]
    <3>1. scTask' = [scTask EXCEPT ![c] = "cancelled"] /\ scFuture' = [scFuture EXCEPT ![c] = f]
      BY <2>2 DEF CancelChunk
    <3>2. f \in {"lease", "closed", "pending", "none", "cancelled"}
      BY CapacityParts
    <3> HIDE DEF f
    <3> QED BY <3>1, <3>2 DEF f
  <2> QED BY <2>1, <2>2
<1>3. \A e \in Chunks : /\ scTask'[e] = (IF e = c THEN t ELSE scTask[e])
                        /\ scFuture'[e] = (IF e = c THEN f ELSE scFuture[e])
  BY <1>2, CapacityParts
<1>4. SCTypes'
  <2>1. /\ scTask' \in [Chunks -> {"new", "waiting", "cancelled", "holding", "done"}]
        /\ scFuture' \in [Chunks -> {"none", "pending", "lease", "cancelled", "closed"}]
    BY <1>2, CapacityParts
  <2> QED BY <1>1, <2>1, CapacityParts DEF SCTypes
<1>5. QueuedOK'
  <2>1. ASSUME NEW j \in 1..Len(scQueue)
        PROVE  scTask'[scQueue[j]] \in {"waiting", "cancelled"} /\ scFuture'[scQueue[j]] \in {"pending", "cancelled"}
    <3>1. /\ scTask[scQueue[j]] \in {"waiting", "cancelled"} /\ scFuture[scQueue[j]] \in {"pending", "cancelled"}
          /\ scQueue[j] \in Chunks
      BY CapacityParts
    <3> QED BY <3>1, <1>2, <1>3
  <2>2. \A e \in Chunks : scTask'[e] \in {"waiting", "cancelled"} /\ scFuture'[e] = "lease" => scItem[e]
    BY <1>1, <1>2, <1>3, CapacityParts
  <2> QED BY <2>1, <2>2, <1>1, CapacityParts DEF QueuedOK
<1>6. LeaseOwners' = LeaseOwners
  BY <1>1, <1>2, <1>3 DEF LeaseOwners
<1>7. ASSUME scQueue # << >>, scFuture'[Head(scQueue)] = "pending" PROVE ~ChunkFits(scActive, 1, scBytes[Head(scQueue)])
  <2>1. Head(scQueue) \in Chunks
    <3>1. scQueue \in Seq(Chunks)
      BY CapacityParts DEF WaitersOK
    <3> QED BY <3>1, <1>7
  <2>2. scFuture[Head(scQueue)] = "pending"
    BY <2>1, <1>1, <1>2, <1>3, <1>7
  <2> QED BY <2>2, <1>7 DEF SCInv, CapacityAccounted
<1> QED BY <1>1, <1>4, <1>5, <1>6, <1>7, AsideKeeps

\* A chunk is admitted, queued or refused.
LEMMA AcquireChunkKeeps == ASSUME SCInv, NEW c \in Chunks, AcquireChunk(c) PROVE SCInv'
<1>1. /\ scTask[c] = "new" /\ scClosed' = scClosed /\ scClosed \in BOOLEAN
      /\ scActive = [items |-> scActive.items, bytes |-> scActive.bytes]
  BY CapacityParts DEF AcquireChunk, SCTypes
<1>2. /\ c \notin LeaseOwners /\ LeaseOwners \subseteq Chunks
      /\ scQueue \in Seq(Chunks) /\ \A j \in 1..Len(scQueue) : scQueue[j] \in Chunks /\ scQueue[j] # c
  BY <1>1, CapacityParts DEF LeaseOwners, WaitersOK
<1>3. ASSUME NEW b \in ChunkSizes, scQueue = << >>, ChunkFits(scActive, 1, b),
             scTask' = [scTask EXCEPT ![c] = "holding"],
             scBytes' = [scBytes EXCEPT ![c] = b], scItem' = [scItem EXCEPT ![c] = TRUE],
             scActive' = [items |-> scActive.items + 1, bytes |-> scActive.bytes + b], UNCHANGED <<scFuture, scQueue>>
      PROVE  SCInv'
  <2>1. b \in Nat
    BY CapacityAssumption
  <2>2. \A e \in Chunks : /\ scTask'[e] = (IF e = c THEN "holding" ELSE scTask[e])
                          /\ scBytes'[e] = (IF e = c THEN b ELSE scBytes[e])
                          /\ scItem'[e] = (IF e = c THEN TRUE ELSE scItem[e])
    BY <1>3, CapacityParts
  <2>3. LeaseOwners' = LeaseOwners \cup {c}
    BY <2>2, <1>2, <1>3 DEF LeaseOwners
  <2>4. scActive'.items = scActive.items + 1 /\ scActive'.bytes = scActive.bytes + b
    BY <1>3
  <2>5. scActive'.items \in 0..MaxItems /\ scActive'.bytes \in 0..MaxBytes
    <3>1. scActive.items + 1 <= MaxItems /\ scActive.bytes + b <= MaxBytes
      BY <1>3 DEF ChunkFits
    <3> QED BY <3>1, <2>1, <2>4, OwnersAre
  <2>6. SCTypes'
    <3>1. /\ scTask' \in [Chunks -> {"new", "waiting", "cancelled", "holding", "done"}]
          /\ scBytes' \in [Chunks -> Nat] /\ scItem' \in [Chunks -> BOOLEAN]
      BY <1>3, <2>1, CapacityParts
    <3>2. scActive' = [items |-> scActive'.items, bytes |-> scActive'.bytes]
      BY <1>3
    <3> QED BY <1>1, <1>3, <2>5, <3>1, <3>2, CapacityParts DEF SCTypes
  <2>7. QueuedOK'
    <3>1. Len(scQueue') = 0 /\ scQueue' = << >>
      BY <1>3
    <3>2. \A e \in Chunks : scTask'[e] \in {"waiting", "cancelled"} /\ scFuture'[e] = "lease" => scItem'[e]
      BY <2>2, <1>3, CapacityParts
    <3> QED BY <3>1, <3>2 DEF QueuedOK
  <2>8. BytesOf(scBytes', LeaseOwners') = scActive'.bytes
    <3>1. \A e \in LeaseOwners : scBytes'[e] = scBytes[e]
      BY <2>2, <1>2
    <3>2. SumOver(scBytes', LeaseOwners) = scActive.bytes
      BY <3>1, OwnersAre, SumSame
    <3>3. \A e \in LeaseOwners \cup {c} : scBytes'[e] \in Nat
      BY <2>2, <2>1, <1>2, OwnersAre
    <3>4. SumOver(scBytes', LeaseOwners \cup {c}) = scBytes'[c] + SumOver(scBytes', LeaseOwners)
      BY <3>3, <1>2, OwnersAre, SumIn
    <3>5. scBytes'[c] = b
      BY <2>2
    <3> QED BY <3>2, <3>4, <3>5, <2>1, <2>3, <2>4, OwnersAre, BytesAre
  <2>9. Cardinality({e \in LeaseOwners' : scItem'[e]}) = scActive'.items
    <3> DEFINE I == Itemed(LeaseOwners)
    <3>1. {e \in LeaseOwners' : scItem'[e]} = I \cup {c}
      <4>1. \A e \in LeaseOwners : scItem'[e] = scItem[e]
        BY <2>2, <1>2
      <4>2. scItem'[c] = TRUE
        BY <2>2
      <4> QED BY <4>1, <4>2, <2>3 DEF Itemed
    <3>2. c \notin I /\ IsFiniteSet(I) /\ Cardinality(I) = scActive.items
      BY <1>2, OwnersAre
    <3> HIDE DEF I
    <3>3. Cardinality(I \cup {c}) = Cardinality(I) + 1
      BY <3>2, FS_AddElement
    <3> QED BY <3>1, <3>2, <3>3, <2>4
  <2>10. scActive'.items <= MaxItems /\ scActive'.bytes <= MaxBytes
    BY <2>5, OwnersAre
  <2>11. CapacityAccounted'
    BY <2>8, <2>9, <2>10, <1>3 DEF CapacityAccounted
  <2> QED BY <2>6, <2>7, <2>11 DEF SCInv
<1>4. ASSUME NEW b \in ChunkSizes, ~scClosed, ~(scQueue = << >> /\ ChunkFits(scActive, 1, b)),
             scTask' = [scTask EXCEPT ![c] = "waiting"], scFuture' = [scFuture EXCEPT ![c] = "pending"],
             scBytes' = [scBytes EXCEPT ![c] = b], scQueue' = Append(scQueue, c), UNCHANGED <<scItem, scActive>>
      PROVE  SCInv'
  <2>1. b \in Nat
    BY CapacityAssumption
  <2>2. \A e \in Chunks : /\ scTask'[e] = (IF e = c THEN "waiting" ELSE scTask[e])
                          /\ scFuture'[e] = (IF e = c THEN "pending" ELSE scFuture[e])
                          /\ scBytes'[e] = (IF e = c THEN b ELSE scBytes[e])
    BY <1>4, CapacityParts
  <2>3. LeaseOwners' = LeaseOwners
    BY <2>2, <1>1 DEF LeaseOwners
  <2>4. /\ scQueue' \in Seq(Chunks) /\ Len(scQueue') = Len(scQueue) + 1 /\ Len(scQueue) \in Nat
        /\ (\A j \in 1..Len(scQueue) : scQueue'[j] = scQueue[j]) /\ scQueue'[Len(scQueue) + 1] = c
    BY <1>2, <1>4
  <2>5. WaitersOK(scQueue')
    <3>1. \A i, j \in 1..Len(scQueue) : scQueue[i] = scQueue[j] => i = j
      BY CapacityParts DEF WaitersOK
    <3>2. ASSUME NEW i \in 1..Len(scQueue'), NEW j \in 1..Len(scQueue'), scQueue'[i] = scQueue'[j] PROVE i = j
      <4>1. CASE i \in 1..Len(scQueue) /\ j \in 1..Len(scQueue)
        BY <4>1, <3>1, <3>2, <2>4
      <4>2. CASE i \notin 1..Len(scQueue) \/ j \notin 1..Len(scQueue)
        BY <4>2, <3>2, <2>4, <1>2
      <4> QED BY <4>1, <4>2
    <3> QED BY <3>2, <2>4 DEF WaitersOK
  <2>6. SCTypes'
    <3>1. /\ scTask' \in [Chunks -> {"new", "waiting", "cancelled", "holding", "done"}]
          /\ scFuture' \in [Chunks -> {"none", "pending", "lease", "cancelled", "closed"}]
          /\ scBytes' \in [Chunks -> Nat]
      BY <1>4, <2>1, CapacityParts
    <3> QED BY <1>1, <1>4, <2>5, <3>1, CapacityParts DEF SCTypes
  <2>7. QueuedOK'
    <3>1. ASSUME NEW j \in 1..Len(scQueue')
          PROVE  scTask'[scQueue'[j]] \in {"waiting", "cancelled"} /\ scFuture'[scQueue'[j]] \in {"pending", "cancelled"}
      <4>1. CASE j \in 1..Len(scQueue)
        <5>1. /\ scQueue'[j] = scQueue[j] /\ scQueue[j] \in Chunks /\ scQueue[j] # c
              /\ scTask[scQueue[j]] \in {"waiting", "cancelled"} /\ scFuture[scQueue[j]] \in {"pending", "cancelled"}
          BY <4>1, <2>4, <1>2, CapacityParts
        <5> QED BY <5>1, <2>2
      <4>2. CASE j \notin 1..Len(scQueue)
        <5>1. scQueue'[j] = c
          BY <4>2, <2>4
        <5> QED BY <5>1, <2>2
      <4> QED BY <4>1, <4>2
    <3>2. \A e \in Chunks : scTask'[e] \in {"waiting", "cancelled"} /\ scFuture'[e] = "lease" => scItem'[e]
      BY <2>2, <1>4, CapacityParts
    <3> QED BY <3>1, <3>2, <1>1, <1>4 DEF QueuedOK
  <2>8. \A e \in LeaseOwners : scBytes'[e] = scBytes[e]
    BY <2>2, <1>2
  <2>9. scFuture'[Head(scQueue')] = "pending" => ~ChunkFits(scActive, 1, scBytes'[Head(scQueue')])
    <3>1. Head(scQueue') = scQueue'[1]
      BY <2>4
    <3>2. CASE scQueue = << >>
      <4>1. Len(scQueue) = 0
        BY <3>2
      <4>2. Head(scQueue') = c
        BY <4>1, <3>1, <2>4
      <4> QED BY <4>2, <3>2, <2>2, <1>4
    <3>3. CASE scQueue # << >>
      <4>1. 1 \in 1..Len(scQueue) /\ Head(scQueue) = scQueue[1]
        BY <3>3, <1>2
      <4>2. Head(scQueue') = Head(scQueue) /\ Head(scQueue) \in Chunks /\ Head(scQueue) # c
        BY <4>1, <3>1, <2>4, <1>2
      <4>3. scFuture[Head(scQueue)] = "pending" => ~ChunkFits(scActive, 1, scBytes[Head(scQueue)])
        BY <3>3 DEF SCInv, CapacityAccounted
      <4> QED BY <4>2, <4>3, <2>2
    <3> QED BY <3>2, <3>3
  <2> QED BY <2>3, <2>6, <2>7, <2>8, <2>9, <1>4, AsideKeeps
<1>5. ASSUME scTask' = [scTask EXCEPT ![c] = "done"], UNCHANGED <<scFuture, scBytes, scQueue, scItem, scActive>>
      PROVE  SCInv'
  <2>1. \A e \in Chunks : scTask'[e] = IF e = c THEN "done" ELSE scTask[e]
    BY <1>5, CapacityParts
  <2>2. LeaseOwners' = LeaseOwners
    BY <2>1, <1>1, <1>5 DEF LeaseOwners
  <2>3. SCTypes'
    <3>1. scTask' \in [Chunks -> {"new", "waiting", "cancelled", "holding", "done"}]
      BY <1>5, CapacityParts
    <3> QED BY <3>1, <1>1, <1>5, CapacityParts DEF SCTypes
  <2>4. QueuedOK'
    <3>1. \A j \in 1..Len(scQueue) : /\ scTask'[scQueue[j]] \in {"waiting", "cancelled"}
                                     /\ scFuture[scQueue[j]] \in {"pending", "cancelled"}
      BY <2>1, <1>2, CapacityParts
    <3>2. \A e \in Chunks : scTask'[e] \in {"waiting", "cancelled"} /\ scFuture[e] = "lease" => scItem[e]
      BY <2>1, CapacityParts
    <3> QED BY <3>1, <3>2, <1>1, <1>5, CapacityParts DEF QueuedOK
  <2>5. scQueue # << >> /\ scFuture[Head(scQueue)] = "pending" => ~ChunkFits(scActive, 1, scBytes[Head(scQueue)])
    BY DEF SCInv, CapacityAccounted
  <2> QED BY <2>2, <2>3, <2>4, <2>5, <1>5, AsideKeeps
<1> QED BY <1>3, <1>4, <1>5 DEF AcquireChunk

\* The capacity closes and answers all who wait.
LEMMA CloseCapacityKeeps == ASSUME SCInv, CloseCapacity PROVE SCInv'
<1>1. /\ scClosed' = TRUE /\ scQueue' = << >> /\ UNCHANGED <<scTask, scBytes, scItem, scActive>>
      /\ scFuture' = [c \in Chunks |-> IF c \in Range(scQueue) /\ scFuture[c] = "pending" THEN "closed" ELSE scFuture[c]]
  BY DEF CloseCapacity
<1>2. ASSUME NEW c \in Chunks
      PROVE  scFuture'[c] = scFuture[c] \/ (scFuture[c] = "pending" /\ scFuture'[c] = "closed")
  <2>1. scFuture'[c] = IF c \in Range(scQueue) /\ scFuture[c] = "pending" THEN "closed" ELSE scFuture[c]
    BY <1>1
  <2> QED BY <2>1
<1>3. scFuture' \in [Chunks -> {"none", "pending", "lease", "cancelled", "closed"}]
  BY <1>1, CapacityParts
<1>4. scQueue' \in Seq(Chunks) /\ Len(scQueue') = 0
  BY <1>1
<1>5. SCTypes'
  <2>1. WaitersOK(scQueue')
    BY <1>4 DEF WaitersOK
  <2>2. scActive = [items |-> scActive.items, bytes |-> scActive.bytes]
    BY CapacityParts DEF SCTypes
  <2> QED BY <2>1, <2>2, <1>1, <1>3, CapacityParts DEF SCTypes
<1>6. QueuedOK'
  <2>1. \A c \in Chunks : scTask[c] \in {"waiting", "cancelled"} /\ scFuture'[c] = "lease" => scItem[c]
    BY <1>2, CapacityParts
  <2> QED BY <2>1, <1>1, <1>4 DEF QueuedOK
<1>7. LeaseOwners' = LeaseOwners
  BY <1>1, <1>2 DEF LeaseOwners
<1> QED BY <1>1, <1>5, <1>6, <1>7, AsideKeeps

\* The invariant is inductive.
LEMMA CapacityStep == SCInv /\ [SCNext]_scvars => SCInv'
<1> SUFFICES ASSUME SCInv, [SCNext]_scvars PROVE SCInv'
  OBVIOUS
<1>1. CASE UNCHANGED scvars
  <2>1. UNCHANGED <<scTask, scFuture, scBytes, scItem, scQueue, scActive, scClosed>>
    BY <1>1 DEF scvars
  <2>2. LeaseOwners' = LeaseOwners
    BY <2>1 DEF LeaseOwners
  <2>3. SCTypes' /\ QueuedOK'
    BY <2>1, CapacityParts DEF SCTypes, QueuedOK
  <2>4. scQueue # << >> /\ scFuture[Head(scQueue)] = "pending" => ~ChunkFits(scActive, 1, scBytes[Head(scQueue)])
    BY DEF SCInv, CapacityAccounted
  <2> QED BY <2>1, <2>2, <2>3, <2>4, AsideKeeps
<1>2. CASE SCNext
  <2>1. ASSUME NEW c \in Chunks, AcquireChunk(c) PROVE SCInv'
    BY <2>1, AcquireChunkKeeps
  <2>2. ASSUME NEW c \in Chunks, WakeChunk(c) \/ CancelChunk(c) PROVE SCInv'
    BY <2>2, WakeChunkKeeps
  <2>3. ASSUME NEW c \in Chunks, CancelWaiter(c) PROVE SCInv'
    BY <2>3, CancelWaiterKeeps
  <2>4. ASSUME NEW c \in Chunks, ConsumeChunk(c) PROVE SCInv'
    BY <2>4, ConsumeKeeps
  <2>5. ASSUME NEW c \in Chunks, ReleaseAll(c) PROVE SCInv'
    BY <2>5, ReleaseAllKeeps
  <2>6. ASSUME NEW c \in Chunks, NEW d \in Chunks, AbsorbChunk(c, d) PROVE SCInv'
    BY <2>6, AbsorbKeeps
  <2>7. CASE CloseCapacity
    BY <2>7, CloseCapacityKeeps
  <2> QED BY <1>2, <2>1, <2>2, <2>3, <2>4, <2>5, <2>6, <2>7 DEF SCNext
<1> QED BY <1>1, <1>2

\* For any streams, sizes and limits: the process-wide counters of observed
\* bytes and items are exactly what the live leases own, through merges,
\* partial consumption and grants that race a cancellation, within their
\* limits, and a waiter that fits is never left behind (stream_observation.py).
THEOREM CapacityAlwaysAccounted == SCSpec => []CapacityAccounted
<1>1. SCInv => CapacityAccounted
  BY DEF SCInv
<1> QED BY <1>1, CapacityStart, CapacityStep, PTL DEF SCSpec

-----------------------------------------------------------------------------
(* The upstream streams of UpstreamStream.  An action of one stream goes   *)
(* through several effects (a lease, a return that serves the line, a new  *)
(* state of the stream); Turn is the invariant between two of them, with   *)
(* the items and bytes that are counted while nobody has them.             *)

StreamFields == {"pc", "phase", "raw", "pending", "probe", "drain", "copy", "primed", "out", "want", "pieces", "read",
                 "eof", "content", "finish", "done", "bad", "sent", "result", "opened", "exits", "callbacks"}
Waits == {"rawwait", "copywait", "outwait"}
StreamTypes(r) ==
  /\ DOMAIN r = StreamFields
  /\ r.pc \in Waits \cup {"connect", "net", "decode", "eof", "handoff", "begin", "send", "tail", "closing", "response", "over"}
  /\ r.phase \in {"prime", "error", "forward"}
  /\ r.raw \in Nat /\ r.pending \in Nat /\ r.probe \in Nat /\ r.copy \in Nat /\ r.primed \in Nat
  /\ r.out \in Nat /\ r.want \in Nat /\ r.exits \in Nat /\ r.callbacks \in Nat
  /\ r.drain \in BOOLEAN
  /\ r.content \in BOOLEAN
  /\ r.finish \in BOOLEAN
  /\ r.done \in BOOLEAN
  /\ r.bad \in BOOLEAN
  /\ r.opened \in BOOLEAN
  /\ r.sent \in {"nothing", "part", "done"}
  /\ r.result \in {"none", "error", "local", "raised", "stream"}

\* The streams in the line of waiters, or served and not yet awake.
Lined(c) == c.granted \cup Leading(c.waiters, Len(c.waiters))
LineOK(q) == q \in Seq(Upstreams) /\ \A i, j \in 1..Len(q) : q[i] = q[j] => i = j
Shape(c) ==
  /\ DOMAIN c = {"st", "used", "waiters", "granted"}
  /\ DOMAIN c.st = Upstreams /\ \A t \in Upstreams : StreamTypes(c.st[t])
  /\ c.used = [items |-> c.used.items, bytes |-> c.used.bytes] /\ c.used.items \in Int /\ c.used.bytes \in Int
  /\ LineOK(c.waiters) /\ c.granted \subseteq Upstreams
  /\ c.granted \cap Leading(c.waiters, Len(c.waiters)) = {}

\* What each stream has of the capacity, and the counters against it.
Share(c) == [t \in Upstreams |-> Holds(c.st[t]) + (IF t \in c.granted THEN c.st[t].want ELSE 0)]
ItemHolders(c) == {t \in Upstreams : c.st[t].out > 0 \/ t \in c.granted}
Over(c, i, b) == c.used.items = Cardinality(ItemHolders(c)) + i /\ c.used.bytes = SumOver(Share(c), Upstreams) + b
ItemOf(r) == IF r.out > 0 THEN 1 ELSE 0

Opened(r, s) == /\ r.raw >= r.pending + r.probe /\ (r.drain => s \in Compressed)
                /\ r.opened /\ r.exits = 0 /\ r.callbacks = 0
Tells(r) == /\ r.phase # "forward" => r.sent = "nothing"
            /\ r.phase = "forward" => r.result = "stream" /\ r.content
            /\ r.done => r.content \/ r.bad
            /\ r.sent = "done" => (r.finish \/ r.done) /\ r.content /\ ~r.bad
Fresh(r) == r.sent # "done" /\ (r.phase = "forward" => ~r.bad /\ ~r.done)

StreamOK(r, s, lined) ==
  /\ lined => r.pc \in Waits
  /\ Tells(r)
  /\ r.pc \notin {"connect", "response", "over"} => Opened(r, s)
  /\ r.pc \in Waits \cup {"net", "decode", "eof"} => Fresh(r)
  /\ r.pc \in Waits \cup {"net", "eof", "handoff", "begin", "tail"} => r.out = 0
  /\ r.pc \in Waits => r.want > 0
  /\ r.pc = "rawwait" => r.want = PieceLimit
  /\ r.pc = "outwait" => r.phase = "error"
  /\ r.pc = "net" => r.raw >= PieceLimit + r.pending + r.probe
  /\ r.pc = "decode" => r.out > 0 /\ (r.phase # "error" => r.copy >= r.out)
  /\ r.pc \in {"handoff", "begin"} => r.content /\ ~r.bad /\ r.sent # "done"
  /\ r.pc \in {"begin", "send", "tail"} => r.phase = "forward"
  /\ r.pc = "send" => r.out > 0 /\ ~ (r.bad /\ r.done) /\ r.sent # "done"
  /\ r.pc = "connect" => /\ Holds(r) = 0 /\ r.pending = 0 /\ r.probe = 0 /\ ~r.drain
                         /\ ~r.opened /\ r.exits = 0 /\ r.callbacks = 0 /\ r.phase # "forward"
  /\ r.pc = "response" => /\ r.opened /\ r.callbacks = 0 /\ r.result = "stream" /\ r.exits \in 0..1
                          /\ r.exits = 1 => Holds(r) = 0
  /\ r.pc = "over" => /\ Holds(r) = 0
                      /\ r.exits = (IF r.opened THEN 1 ELSE 0)
                      /\ r.callbacks = (IF r.result = "stream" THEN 1 ELSE 0)

StreamsInv(c) == /\ Shape(c) /\ Over(c, 0, 0)
                 /\ \A t \in Upstreams : StreamOK(c.st[t], t, t \in Lined(c))
\* The same while s is at work: i items and b bytes are counted that nobody has.
Turn(c, s, i, b) == /\ s \in Upstreams /\ s \notin Lined(c) /\ i \in Int /\ b \in Int
                    /\ Shape(c) /\ Over(c, i, b)
                    /\ \A t \in Upstreams \ {s} : StreamOK(c.st[t], t, t \in Lined(c))

\* What a stream holds and wants are numbers.
LEMMA HoldsNat == ASSUME NEW r, StreamTypes(r) PROVE Holds(r) \in Nat /\ r.want \in Nat
BY DEF StreamTypes, Holds

\* So are the shares of the capacity, and there are finitely many.
LEMMA ShareNat ==
  ASSUME NEW c, Shape(c)
  PROVE  /\ \A t \in Upstreams : Share(c)[t] \in Nat
         /\ SumOver(Share(c), Upstreams) \in Nat /\ IsFiniteSet(Upstreams)
         /\ IsFiniteSet(ItemHolders(c)) /\ Cardinality(ItemHolders(c)) \in Nat
<1>1. \A t \in Upstreams : Share(c)[t] \in Nat
  <2>1. ASSUME NEW t \in Upstreams PROVE Share(c)[t] \in Nat
    <3>1. Holds(c.st[t]) \in Nat /\ c.st[t].want \in Nat
      BY HoldsNat DEF Shape
    <3>2. Share(c)[t] = Holds(c.st[t]) + (IF t \in c.granted THEN c.st[t].want ELSE 0)
      BY DEF Share
    <3> HIDE DEF Share
    <3> QED BY <3>1, <3>2
  <2> QED BY <2>1
<1>2. IsFiniteSet(Upstreams)
  BY StreamsFinite
<1>3. IsFiniteSet(ItemHolders(c)) /\ Cardinality(ItemHolders(c)) \in Nat
  BY <1>2, FS_Subset, FS_CardinalityType DEF ItemHolders
<1> QED BY <1>1, <1>2, <1>3, SumNat

\* One share changes: the sum changes by as much.
LEMMA ShareMoves ==
  ASSUME NEW c, NEW d, Shape(c), Shape(d), NEW s \in Upstreams, \A t \in Upstreams \ {s} : Share(d)[t] = Share(c)[t]
  PROVE  SumOver(Share(d), Upstreams) = SumOver(Share(c), Upstreams) + Share(d)[s] - Share(c)[s]
<1> DEFINE R == Upstreams \ {s}
           f == Share(c)
           g == Share(d)
<1>1. IsFiniteSet(R)
  BY ShareNat, FS_Subset
<1>2. \A t \in Upstreams : f[t] \in Nat /\ g[t] \in Nat
  BY ShareNat
<1>3. \A t \in R : g[t] = f[t]
  OBVIOUS
<1> HIDE DEF f, g
<1>4. SumOver(f, Upstreams) = f[s] + SumOver(f, R) /\ SumOver(g, Upstreams) = g[s] + SumOver(g, R)
  BY <1>2, ShareNat, SumOut
<1>5. SumOver(g, R) = SumOver(f, R) /\ SumOver(f, R) \in Nat
  <2>1. \A t \in R : f[t] \in Nat
    BY <1>2
  <2> HIDE DEF R
  <2> QED BY <1>1, <1>3, <2>1, SumSame, SumNat
<1> QED BY <1>2, <1>4, <1>5 DEF f, g

\* And one item.
LEMMA ItemMoves ==
  ASSUME NEW c, NEW d, Shape(c), Shape(d), NEW s \in Upstreams,
         \A t \in Upstreams \ {s} : (t \in ItemHolders(d)) = (t \in ItemHolders(c))
  PROVE  Cardinality(ItemHolders(d)) = Cardinality(ItemHolders(c)) + (IF s \in ItemHolders(d) THEN 1 ELSE 0) - (IF s \in ItemHolders(c) THEN 1 ELSE 0)
<1> DEFINE A == ItemHolders(c)
           B == ItemHolders(d)
           R == A \ {s}
<1>1. A \subseteq Upstreams /\ B \subseteq Upstreams /\ IsFiniteSet(A) /\ IsFiniteSet(B) /\ Cardinality(A) \in Nat /\ Cardinality(B) \in Nat
  BY ShareNat DEF ItemHolders
<1>2. B \ {s} = R
  BY <1>1
<1> HIDE DEF A, B, R
<1>3. Cardinality(R) = IF s \in A THEN Cardinality(A) - 1 ELSE Cardinality(A)
  BY <1>1, FS_RemoveElement DEF R
<1>4. Cardinality(B \ {s}) = IF s \in B THEN Cardinality(B) - 1 ELSE Cardinality(B)
  BY <1>1, FS_RemoveElement
<1>5. Cardinality(B) = Cardinality(A) + (IF s \in B THEN 1 ELSE 0) - (IF s \in A THEN 1 ELSE 0)
  <2>1. (IF s \in A THEN Cardinality(A) - 1 ELSE Cardinality(A)) = (IF s \in B THEN Cardinality(B) - 1 ELSE Cardinality(B))
    BY <1>2, <1>3, <1>4
  <2>2. CASE s \in A /\ s \in B
    BY <2>1, <2>2, <1>1
  <2>3. CASE s \in A /\ s \notin B
    BY <2>1, <2>3, <1>1
  <2>4. CASE s \notin A /\ s \in B
    BY <2>1, <2>4, <1>1
  <2>5. CASE s \notin A /\ s \notin B
    BY <2>1, <2>5, <1>1
  <2> QED BY <2>2, <2>3, <2>4, <2>5
<1> QED BY <1>5 DEF A, B

\* Putting a stream changes that stream alone.
LEMMA PutFields ==
  ASSUME NEW c, Shape(c), NEW s \in Upstreams, NEW r, StreamTypes(r)
  PROVE  /\ Shape(Put(c, s, r)) /\ Lined(Put(c, s, r)) = Lined(c)
         /\ Put(c, s, r).st[s] = r /\ \A t \in Upstreams \ {s} : Put(c, s, r).st[t] = c.st[t]
         /\ Put(c, s, r).used = c.used /\ Put(c, s, r).waiters = c.waiters /\ Put(c, s, r).granted = c.granted
<1> DEFINE d == Put(c, s, r)
<1>1. DOMAIN c = {"st", "used", "waiters", "granted"}
  BY DEF Shape
<1>2. /\ d.st = [c.st EXCEPT ![s] = r] /\ d.used = c.used /\ d.waiters = c.waiters /\ d.granted = c.granted
      /\ DOMAIN d = {"st", "used", "waiters", "granted"}
  BY <1>1 DEF Put
<1>3. DOMAIN d.st = Upstreams /\ d.st[s] = r /\ \A t \in Upstreams \ {s} : d.st[t] = c.st[t]
  BY <1>2 DEF Shape
<1> HIDE DEF d
<1>4. Shape(d)
  <2>1. \A t \in Upstreams : StreamTypes(d.st[t])
    BY <1>3 DEF Shape
  <2> QED BY <2>1, <1>2, <1>3 DEF Shape
<1>5. Lined(d) = Lined(c)
  BY <1>2 DEF Lined
<1> QED BY <1>2, <1>3, <1>4, <1>5 DEF d

\* The state of the stream at work is replaced.
LEMMA PutTurn ==
  ASSUME NEW c, NEW s, NEW i, NEW b, Turn(c, s, i, b), NEW r, StreamTypes(r)
  PROVE  /\ Put(c, s, r).st[s] = r
         /\ Turn(Put(c, s, r), s, i + ItemOf(c.st[s]) - ItemOf(r), b + Holds(c.st[s]) - Holds(r))
<1> DEFINE d == Put(c, s, r)
<1>0. s \in Upstreams /\ Shape(c) /\ i \in Int /\ b \in Int /\ s \notin c.granted
  BY DEF Turn, Lined
<1>1. /\ Shape(d) /\ Lined(d) = Lined(c) /\ d.st[s] = r /\ \A t \in Upstreams \ {s} : d.st[t] = c.st[t]
      /\ d.used = c.used /\ d.granted = c.granted
  BY <1>0, PutFields
<1> HIDE DEF d
<1>2. \A t \in Upstreams \ {s} : Share(d)[t] = Share(c)[t]
  BY <1>1 DEF Share
<1>3. Share(d)[s] = Holds(r) + 0 /\ Share(c)[s] = Holds(c.st[s]) + 0
  BY <1>0, <1>1 DEF Share
<1>4. \A t \in Upstreams \ {s} : (t \in ItemHolders(d)) = (t \in ItemHolders(c))
  BY <1>1 DEF ItemHolders
<1>5. (s \in ItemHolders(d) <=> r.out > 0) /\ (s \in ItemHolders(c) <=> c.st[s].out > 0)
  BY <1>0, <1>1 DEF ItemHolders
<1>6. Holds(r) \in Nat /\ Holds(c.st[s]) \in Nat
  BY <1>0, HoldsNat DEF Shape
<1>7. d.used.bytes = SumOver(Share(d), Upstreams) + (b + Holds(c.st[s]) - Holds(r))
  <2>1. SumOver(Share(d), Upstreams) = SumOver(Share(c), Upstreams) + Share(d)[s] - Share(c)[s]
    BY <1>0, <1>1, <1>2, ShareMoves
  <2>2. c.used.bytes = SumOver(Share(c), Upstreams) + b /\ SumOver(Share(c), Upstreams) \in Nat
    BY <1>0, ShareNat DEF Turn, Over
  <2> QED BY <2>1, <2>2, <1>0, <1>1, <1>3, <1>6
<1>8. d.used.items = Cardinality(ItemHolders(d)) + (i + ItemOf(c.st[s]) - ItemOf(r))
  <2>1. Cardinality(ItemHolders(d)) = Cardinality(ItemHolders(c)) + (IF s \in ItemHolders(d) THEN 1 ELSE 0) - (IF s \in ItemHolders(c) THEN 1 ELSE 0)
    BY <1>0, <1>1, <1>4, ItemMoves
  <2>2. c.used.items = Cardinality(ItemHolders(c)) + i /\ Cardinality(ItemHolders(c)) \in Nat
    BY <1>0, ShareNat DEF Turn, Over
  <2> QED BY <2>1, <2>2, <1>0, <1>1, <1>5 DEF ItemOf
<1>9. i + ItemOf(c.st[s]) - ItemOf(r) \in Int /\ b + Holds(c.st[s]) - Holds(r) \in Int
  BY <1>0, <1>6 DEF ItemOf
<1>10. \A t \in Upstreams \ {s} : StreamOK(d.st[t], t, t \in Lined(d))
  BY <1>1 DEF Turn
<1>11. Turn(d, s, i + ItemOf(c.st[s]) - ItemOf(r), b + Holds(c.st[s]) - Holds(r))
  <2>1. s \notin Lined(d)
    BY <1>1 DEF Turn
  <2> QED BY <2>1, <1>0, <1>1, <1>7, <1>8, <1>9, <1>10 DEF Turn, Over
<1> QED BY <1>1, <1>11 DEF d

\* The first n of a line are n.
LEMMA LeadingCount ==
  ASSUME NEW q, LineOK(q), NEW n \in 0..Len(q)
  PROVE  Leading(q, n) \subseteq Upstreams /\ IsFiniteSet(Leading(q, n)) /\ Cardinality(Leading(q, n)) = n
<1> DEFINE f == [i \in 1..n |-> q[i]]
           F == Leading(q, n)
<1>1. \A i \in 1..n : i \in 1..Len(q) /\ q[i] \in Upstreams
  BY DEF LineOK
<1>2. F \subseteq Upstreams /\ IsFiniteSet(F)
  <2>1. F \subseteq Upstreams
    BY <1>1 DEF Leading
  <2> QED BY <2>1, FS_Subset, StreamsFinite
<1>3. f \in [1..n -> F]
  BY DEF Leading
<1>4. \A i, j \in 1..n : f[i] = f[j] => i = j
  BY <1>1 DEF LineOK
<1>5. \A x \in F : \E i \in 1..n : f[i] = x
  BY DEF Leading
<1>6. f \in Bijection(1..n, F)
  <2> HIDE DEF f, F
  <2> QED BY <1>3, <1>4, <1>5 DEF Bijection, Injection, Surjection, IsInjective
<1>7. Cardinality(F) = n
  <2>1. ExistsBijection(1..n, F)
    BY <1>6 DEF ExistsBijection
  <2> HIDE DEF F
  <2> QED BY <2>1, FS_CountingElements
<1> QED BY <1>2, <1>7

Wanted(c) == [t \in Upstreams |-> c.st[t].want]

\* Capacity goes back: some of the waiters are served.
LEMMA ReturnFields ==
  ASSUME NEW c, NEW x, NEW y, Shape(c), x \in Int, y \in Int
  PROVE  \E n \in 0..Len(c.waiters), d \in {Return(c, x, y)} :
           LET F == Leading(c.waiters, n) IN
           /\ DOMAIN d = {"st", "used", "waiters", "granted"} /\ d.st = c.st
           /\ d.used = [items |-> (c.used.items - x) + n, bytes |-> (c.used.bytes - y) + SumOver(Wanted(c), F)]
           /\ d.granted = c.granted \cup F
           /\ d.waiters = SubSeq(c.waiters, n + 1, Len(c.waiters))
<1> DEFINE q == c.waiters
           First(k) == Range(SubSeq(q, 1, k))
           Want(k) == TotalIn(Wanted(c), First(k))
           K == {k \in 0..Len(q) : k = 0 \/ ((c.used.items - x) + k <= UpstreamItems /\ (c.used.bytes - y) + Want(k) <= UpstreamBytes)}
           n == Max(K)
           d == Return(c, x, y)
<1>1. n \in 0..Len(q)
  <2>1. q \in Seq(Upstreams) /\ Len(q) \in Nat
    BY DEF Shape, LineOK
  <2>2. K \in SUBSET (0..Len(q)) /\ K # {}
    BY <2>1
  <2> HIDE DEF K, q
  <2> QED BY <2>1, <2>2, MaxIs
<1>2. d = [c EXCEPT !.used = [items |-> (c.used.items - x) + n, bytes |-> (c.used.bytes - y) + Want(n)],
                    !.granted = c.granted \cup First(n), !.waiters = SubSeq(q, n + 1, Len(q))]
  BY DEF Return, Wanted
<1> HIDE DEF n, K, d
<1>3. First(n) = Leading(q, n)
  <2>1. q \in Seq(Upstreams)
    BY DEF Shape, LineOK
  <2> QED BY <2>1, <1>1, PrefixIs DEF Leading
<1>4. Want(n) = SumOver(Wanted(c), Leading(q, n))
  BY <1>3 DEF TotalIn, SumOver
<1> HIDE DEF First, Want, q
<1>5. DOMAIN c = {"st", "used", "waiters", "granted"}
  BY DEF Shape
<1>6. /\ DOMAIN d = {"st", "used", "waiters", "granted"} /\ d.st = c.st
      /\ d.used = [items |-> (c.used.items - x) + n, bytes |-> (c.used.bytes - y) + Want(n)]
      /\ d.granted = c.granted \cup First(n)
      /\ d.waiters = SubSeq(q, n + 1, Len(q))
  BY <1>2, <1>5
<1> QED BY <1>1, <1>3, <1>4, <1>6 DEF d, q

\* The counters stay as far from the holdings, less what went back.
LEMMA ReturnTurn ==
  ASSUME NEW c, NEW s, NEW i, NEW b, Turn(c, s, i, b), NEW x \in Int, NEW y \in Int
  PROVE  Turn(Return(c, x, y), s, i - x, b - y) /\ Return(c, x, y).st = c.st
<1>0. Shape(c) /\ Over(c, i, b) /\ i \in Int /\ b \in Int /\ s \in Upstreams /\ s \notin Lined(c)
  BY DEF Turn
<1> DEFINE q == c.waiters
           N == Len(c.waiters)
<1>1. PICK n \in 0..N, d \in {Return(c, x, y)} :
           /\ DOMAIN d = {"st", "used", "waiters", "granted"} /\ d.st = c.st
           /\ d.used = [items |-> (c.used.items - x) + n, bytes |-> (c.used.bytes - y) + SumOver(Wanted(c), Leading(q, n))]
           /\ d.granted = c.granted \cup Leading(q, n)
           /\ d.waiters = SubSeq(q, n + 1, N)
  BY <1>0, ReturnFields
<1> DEFINE F == Leading(q, n)
           w == d.waiters
<1>2. q \in Seq(Upstreams) /\ LineOK(q) /\ N \in Nat /\ n \in 0..N
  BY <1>0 DEF Shape, LineOK
<1>3. F \subseteq Upstreams /\ IsFiniteSet(F) /\ Cardinality(F) = n
  BY <1>2, LeadingCount
<1>4. w \in Seq(Upstreams) /\ Len(w) = N - n /\ \A j \in 1..(N - n) : w[j] = q[n + j]
  <2>1. \A j \in (n + 1)..N : q[j] \in Upstreams
    BY <1>2
  <2> QED BY <1>1, <1>2, <2>1, SubSeqProperties
<1>5. Leading(q, N) = F \cup Leading(w, Len(w)) /\ F \cap Leading(w, Len(w)) = {}
  <2>1. ASSUME NEW j \in 1..N PROVE q[j] \in F \cup Leading(w, Len(w))
    <3>1. CASE j <= n
      BY <3>1, <1>2 DEF Leading
    <3>2. CASE ~(j <= n)
      <4>1. j - n \in 1..(N - n) /\ n + (j - n) = j
        BY <3>2, <1>2
      <4>2. w[j - n] = q[j]
        BY <4>1, <1>4
      <4> QED BY <4>1, <4>2, <1>4 DEF Leading
    <3> QED BY <3>1, <3>2
  <2>2. ASSUME NEW j \in 1..Len(w) PROVE w[j] \in Leading(q, N) /\ w[j] \notin F
    <3>1. j \in 1..(N - n) /\ n + j \in 1..N /\ w[j] = q[n + j]
      BY <1>4, <1>2
    <3>2. \A k \in 1..n : q[k] # q[n + j]
      <4>1. \A k \in 1..n : k \in 1..Len(q) /\ k # n + j
        BY <3>1, <1>2
      <4> QED BY <4>1, <3>1, <1>2 DEF LineOK
    <3> QED BY <3>1, <3>2 DEF Leading
  <2>3. F \subseteq Leading(q, N)
    BY <1>2 DEF Leading
  <2>4. Leading(w, Len(w)) \subseteq Leading(q, N) /\ F \cap Leading(w, Len(w)) = {}
    BY <2>2 DEF Leading
  <2>5. Leading(q, N) \subseteq F \cup Leading(w, Len(w))
    BY <2>1 DEF Leading
  <2> QED BY <2>3, <2>4, <2>5
<1>6. LineOK(w)
  <2>1. ASSUME NEW j \in 1..Len(w), NEW k \in 1..Len(w), w[j] = w[k] PROVE j = k
    <3>1. j \in 1..(N - n) /\ k \in 1..(N - n) /\ n + j \in 1..Len(q) /\ n + k \in 1..Len(q)
      BY <1>4, <1>2
    <3>2. q[n + j] = q[n + k]
      BY <3>1, <2>1, <1>4
    <3>3. n + j = n + k
      BY <3>1, <3>2, <1>2 DEF LineOK
    <3> QED BY <3>1, <3>3
  <2> QED BY <2>1, <1>4 DEF LineOK
<1>7. d.granted = c.granted \cup F /\ c.granted \cap Leading(q, N) = {} /\ c.granted \subseteq Upstreams
  BY <1>0, <1>1 DEF Shape
<1>8. Lined(d) = Lined(c) /\ d.granted \cap Leading(w, Len(w)) = {} /\ d.granted \subseteq Upstreams
  <2>1. Lined(c) = c.granted \cup Leading(q, N) /\ Lined(d) = d.granted \cup Leading(w, Len(w))
    BY DEF Lined
  <2> HIDE DEF F, w, q, N
  <2> QED BY <2>1, <1>3, <1>5, <1>7
<1>9. \A t \in F : t \in Lined(c) /\ t \notin c.granted /\ t \in Upstreams /\ t # s
  <2> HIDE DEF F, w, q, N
  <2>1. \A t \in F : t \in Leading(q, N)
    BY <1>5
  <2> QED BY <2>1, <1>0, <1>3, <1>7 DEF Lined, q, N
<1>10. \A t \in F : c.st[t].out = 0
  <2>1. ASSUME NEW t \in F PROVE c.st[t].out = 0
    <3>1. t \in Upstreams \ {s} /\ t \in Lined(c)
      BY <1>9
    <3>2. StreamOK(c.st[t], t, t \in Lined(c))
      BY <3>1 DEF Turn
    <3> HIDE DEF F
    <3> QED BY <3>1, <3>2 DEF StreamOK
  <2> QED BY <2>1
<1> HIDE DEF F, q, w, N
<1>11. ItemHolders(d) = ItemHolders(c) \cup F /\ ItemHolders(c) \cap F = {}
  <2>1. ASSUME NEW t \in F PROVE t \notin ItemHolders(c) /\ t \in ItemHolders(d)
    <3>1. t \in Upstreams /\ t \notin c.granted /\ t \in d.granted /\ c.st[t].out = 0
      BY <1>9, <1>10, <1>7
    <3> QED BY <3>1 DEF ItemHolders
  <2>2. ASSUME NEW t \in Upstreams, t \notin F PROVE t \in ItemHolders(d) <=> t \in ItemHolders(c)
    BY <2>2, <1>1, <1>7 DEF ItemHolders
  <2>3. ItemHolders(c) \subseteq Upstreams /\ ItemHolders(d) \subseteq Upstreams
    BY DEF ItemHolders
  <2> QED BY <2>1, <2>2, <2>3, <1>3
<1>12. Shape(d)
  <2>1. d.used.items = (c.used.items - x) + n /\ d.used.bytes = (c.used.bytes - y) + SumOver(Wanted(c), F)
    BY <1>1 DEF F
  <2>2. c.used.items \in Int /\ c.used.bytes \in Int /\ DOMAIN c.st = Upstreams /\ \A t \in Upstreams : StreamTypes(c.st[t])
    BY <1>0 DEF Shape
  <2>3. SumOver(Wanted(c), F) \in Nat
    <3>1. \A t \in F : Wanted(c)[t] \in Nat
      <4>1. ASSUME NEW t \in F PROVE Wanted(c)[t] \in Nat
        <5>1. t \in Upstreams /\ c.st[t].want \in Nat
          BY <1>3, <2>2, HoldsNat
        <5> QED BY <5>1 DEF Wanted
      <4> QED BY <4>1
    <3> QED BY <3>1, <1>3, SumNat
  <2>4. d.used.items \in Int /\ d.used.bytes \in Int
    <3> HIDE DEF F
    <3> QED BY <2>1, <2>2, <2>3, <1>2, SMTT(30)
  <2>5. d.used = [items |-> d.used.items, bytes |-> d.used.bytes]
    BY <1>1
  <2> QED BY <2>2, <2>4, <2>5, <1>1, <1>6, <1>8 DEF Shape, w
<1>13. SumOver(Share(d), Upstreams) = SumOver(Share(c), Upstreams) + SumOver(Wanted(c), F)
  <2> DEFINE v == [t \in Upstreams |-> IF t \in F THEN c.st[t].want ELSE 0]
  <2>1. \A t \in Upstreams : Share(c)[t] \in Nat /\ v[t] \in Nat /\ Share(d)[t] = Share(c)[t] + v[t]
    <3>1. ASSUME NEW t \in Upstreams PROVE Share(c)[t] \in Nat /\ v[t] \in Nat /\ Share(d)[t] = Share(c)[t] + v[t]
      <4>1. Share(c)[t] = Holds(c.st[t]) + (IF t \in c.granted THEN c.st[t].want ELSE 0)
        BY DEF Share
      <4>2. Share(d)[t] = Holds(c.st[t]) + (IF t \in d.granted THEN c.st[t].want ELSE 0)
        BY <1>1 DEF Share
      <4>3. Holds(c.st[t]) \in Nat /\ c.st[t].want \in Nat
        BY <1>0, HoldsNat DEF Shape
      <4>4. CASE t \in F
        <5>1. t \notin c.granted /\ t \in d.granted
          BY <4>4, <1>7, <1>9
        <5> QED BY <5>1, <4>1, <4>2, <4>3, <4>4
      <4>5. CASE t \notin F
        <5>1. t \in d.granted <=> t \in c.granted
          BY <4>5, <1>7
        <5> QED BY <5>1, <4>1, <4>2, <4>3, <4>5
      <4> QED BY <4>4, <4>5
    <3> QED BY <3>1
  <2>2. SumOver(v, Upstreams) = SumOver(Wanted(c), F)
    <3> DEFINE R == Upstreams \ F
    <3>1. IsFiniteSet(R) /\ F \cup R = Upstreams /\ F \cap R = {}
      BY <1>3, ShareNat, <1>0, FS_Subset
    <3>2. \A t \in F \cup R : v[t] \in Nat
      BY <2>1, <3>1
    <3>3. \A t \in R : v[t] = 0
      OBVIOUS
    <3>4. \A t \in F : v[t] = Wanted(c)[t]
      BY <1>3 DEF Wanted
    <3> HIDE DEF v, R
    <3>5. SumOver(v, F \cup R) = SumOver(v, F) + SumOver(v, R)
      BY <3>1, <3>2, <1>3, SumUnion
    <3>6. SumOver(v, R) = 0
      <4>1. SumOver(v, R) = SumOver(v, R) + SumOver(v, R)
        <5>1. \A t \in R : v[t] \in Nat /\ v[t] = v[t] + v[t]
          BY <3>3
        <5> QED BY <5>1, <3>1, SumPlus
      <4>2. SumOver(v, R) \in Nat
        <5>1. \A t \in R : v[t] \in Nat
          BY <3>3
        <5> QED BY <5>1, <3>1, SumNat
      <4>3. \A k \in Nat : k = k + k => k = 0
        OBVIOUS
      <4> QED BY <4>1, <4>2, <4>3
    <3>7. SumOver(v, F) = SumOver(Wanted(c), F)
      BY <3>4, <1>3, SumSame
    <3>8. SumOver(v, F) \in Nat
      BY <3>2, <1>3, SumNat
    <3> QED BY <3>1, <3>5, <3>6, <3>7, <3>8
  <2>3. IsFiniteSet(Upstreams)
    BY <1>0, ShareNat
  <2> HIDE DEF v
  <2> QED BY <2>1, <2>2, <2>3, SumPlus
<1>14. Over(d, i - x, b - y)
  <2>1. c.used.items = Cardinality(ItemHolders(c)) + i /\ c.used.bytes = SumOver(Share(c), Upstreams) + b
    BY <1>0 DEF Over
  <2>2. Cardinality(ItemHolders(d)) = Cardinality(ItemHolders(c)) + n
    <3> DEFINE A == ItemHolders(c)
    <3>1. IsFiniteSet(A) /\ Cardinality(A) \in Nat
      BY <1>0, ShareNat
    <3>2. Cardinality(A \cap F) = 0
      BY <1>11, FS_EmptySet
    <3> HIDE DEF A
    <3>3. Cardinality(A \cup F) = Cardinality(A) + Cardinality(F) - Cardinality(A \cap F)
      BY <3>1, <1>3, FS_Union
    <3>4. Cardinality(A \cup F) = Cardinality(A) + n
      BY <3>1, <3>2, <3>3, <1>2, <1>3
    <3> QED BY <3>4, <1>11 DEF A
  <2>3. d.used.items = (c.used.items - x) + n
    BY <1>1
  <2>4. d.used.bytes = (c.used.bytes - y) + SumOver(Wanted(c), F)
    BY <1>1 DEF F
  <2>5. Cardinality(ItemHolders(c)) \in Nat /\ SumOver(Share(c), Upstreams) \in Nat /\ SumOver(Share(d), Upstreams) \in Nat
    BY <1>0, <1>12, ShareNat
  <2>6. d.used.items = Cardinality(ItemHolders(d)) + (i - x)
    BY <2>1, <2>2, <2>3, <2>5, <1>0, <1>2
  <2>7. d.used.bytes = SumOver(Share(d), Upstreams) + (b - y)
    <3> DEFINE W == SumOver(Wanted(c), F)
               A == SumOver(Share(c), Upstreams)
               B == SumOver(Share(d), Upstreams)
    <3>1. B = A + W /\ A \in Nat /\ B \in Nat
      BY <1>13, <2>5
    <3>2. W \in Int
      <4>1. d.used.bytes \in Int /\ c.used.bytes \in Int
        BY <1>0, <1>12 DEF Shape
      <4>2. \A t \in F : Wanted(c)[t] \in Nat
        <5>1. ASSUME NEW t \in F PROVE Wanted(c)[t] \in Nat
          <6>1. t \in Upstreams /\ c.st[t].want \in Nat
            BY <1>0, <1>3, HoldsNat DEF Shape
          <6> QED BY <6>1 DEF Wanted
        <5> QED BY <5>1
      <4> QED BY <4>2, <1>3, SumNat
    <3>3. d.used.bytes = (c.used.bytes - y) + W /\ c.used.bytes = A + b
      BY <2>1, <2>4
    <3> HIDE DEF W, A, B
    <3>4. d.used.bytes = B + (b - y)
      BY <3>1, <3>2, <3>3, <1>0
    <3> QED BY <3>4 DEF B
  <2> QED BY <2>6, <2>7 DEF Over
<1>15. \A t \in Upstreams \ {s} : StreamOK(d.st[t], t, t \in Lined(d))
  BY <1>1, <1>8 DEF Turn
<1>16. Turn(d, s, i - x, b - y)
  <2>1. s \notin Lined(d) /\ i - x \in Int /\ b - y \in Int
    BY <1>0, <1>8
  <2> QED BY <2>1, <1>0, <1>12, <1>14, <1>15 DEF Turn
<1> QED BY <1>1, <1>16

\* Items and bytes are leased that nobody has yet.
LEMMA LeasedTurn ==
  ASSUME NEW c, NEW s, NEW i, NEW b, Turn(c, s, i, b), NEW x \in Int, NEW y \in Int
  PROVE  Turn(Leased(c, x, y), s, i + x, b + y) /\ Leased(c, x, y).st = c.st
<1> DEFINE d == Leased(c, x, y)
<1>0. Shape(c) /\ Over(c, i, b) /\ i \in Int /\ b \in Int /\ s \in Upstreams /\ s \notin Lined(c)
  BY DEF Turn
<1>1. /\ d.st = c.st /\ d.waiters = c.waiters /\ d.granted = c.granted /\ DOMAIN d = {"st", "used", "waiters", "granted"}
      /\ d.used = [items |-> c.used.items + x, bytes |-> c.used.bytes + y]
  BY <1>0 DEF Leased, Shape
<1> HIDE DEF d
<1>2. Share(d) = Share(c) /\ ItemHolders(d) = ItemHolders(c) /\ Lined(d) = Lined(c)
  BY <1>1 DEF Share, ItemHolders, Lined
<1>3. d.used.items = c.used.items + x /\ d.used.bytes = c.used.bytes + y
  BY <1>1
<1>4. c.used.items \in Int /\ c.used.bytes \in Int
  BY <1>0 DEF Shape
<1>5. Shape(d)
  <2>1. d.used.items \in Int /\ d.used.bytes \in Int /\ d.used = [items |-> d.used.items, bytes |-> d.used.bytes]
    BY <1>1, <1>3, <1>4
  <2> QED BY <2>1, <1>0, <1>1 DEF Shape
<1>6. Over(d, i + x, b + y)
  <2>1. c.used.items = Cardinality(ItemHolders(c)) + i /\ c.used.bytes = SumOver(Share(c), Upstreams) + b
    BY <1>0 DEF Over
  <2>2. Cardinality(ItemHolders(c)) \in Nat /\ SumOver(Share(c), Upstreams) \in Nat
    BY <1>0, ShareNat
  <2>3. d.used.items = Cardinality(ItemHolders(d)) + (i + x)
    BY <2>1, <2>2, <1>0, <1>2, <1>3
  <2>4. d.used.bytes = SumOver(Share(d), Upstreams) + (b + y)
    BY <2>1, <2>2, <1>0, <1>2, <1>3
  <2> QED BY <2>3, <2>4 DEF Over
<1>7. \A t \in Upstreams \ {s} : StreamOK(d.st[t], t, t \in Lined(d))
  BY <1>1, <1>2 DEF Turn
<1>8. Turn(d, s, i + x, b + y)
  <2>1. i + x \in Int /\ b + y \in Int
    BY <1>0
  <2> QED BY <2>1, <1>0, <1>2, <1>5, <1>6, <1>7 DEF Turn
<1> QED BY <1>1, <1>8 DEF d

\* A turn begins with a stream that is not in the line, and ends with all in order.
LEMMA TurnBegins ==
  ASSUME NEW c, StreamsInv(c), NEW s \in Upstreams, s \notin Lined(c)
  PROVE  Turn(c, s, 0, 0) /\ StreamTypes(c.st[s]) /\ StreamOK(c.st[s], s, FALSE)
<1>1. StreamOK(c.st[s], s, s \in Lined(c)) /\ (s \in Lined(c)) = FALSE
  BY DEF StreamsInv
<1>2. StreamTypes(c.st[s])
  BY DEF StreamsInv, Shape
<1>3. StreamOK(c.st[s], s, FALSE)
  BY <1>1
<1>4. Turn(c, s, 0, 0)
  BY DEF StreamsInv, Turn
<1> QED BY <1>2, <1>3, <1>4

\* And it ends with all in order.
LEMMA TurnEnds ==
  ASSUME NEW c, NEW s, Turn(c, s, 0, 0), StreamOK(c.st[s], s, FALSE)
  PROVE  StreamsInv(c)
<1>1. ASSUME NEW t \in Upstreams PROVE StreamOK(c.st[t], t, t \in Lined(c))
  <2>1. CASE t = s
    <3>1. (t \in Lined(c)) = FALSE
      BY <2>1 DEF Turn
    <3> QED BY <2>1, <3>1
  <2>2. CASE t # s
    BY <2>2 DEF Turn
  <2> QED BY <2>1, <2>2
<1> QED BY <1>1 DEF Turn, StreamsInv

\* A stream that is not in the line has its types.
LEMMA TurnTypes == ASSUME NEW c, NEW s, NEW i, NEW b, Turn(c, s, i, b) PROVE StreamTypes(c.st[s]) /\ s \in Upstreams /\ i \in Int /\ b \in Int
BY DEF Turn, Shape

\* The stream joins the line.
LEMMA WaitKeeps ==
  ASSUME NEW c, NEW s, Turn(c, s, 0, 0), NEW b \in Nat, NEW pc \in Waits, NEW r, r = [c.st[s] EXCEPT !.pc = pc, !.want = b],
         c.st[s].out = 0, StreamOK(r, s, TRUE)
  PROVE  StreamsInv(Wait(c, s, b, pc))
<1> DEFINE e == Put(c, s, r)
           d == Wait(c, s, b, pc)
<1>1. StreamTypes(r) /\ r.out = 0 /\ Holds(r) = Holds(c.st[s])
  BY TurnTypes DEF StreamTypes, StreamFields, Holds, Waits
<1>2. Turn(e, s, 0 + ItemOf(c.st[s]) - ItemOf(r), 0 + Holds(c.st[s]) - Holds(r)) /\ e.st[s] = r
  BY <1>1, PutTurn
<1>3. Holds(r) \in Nat /\ ItemOf(r) = 0 /\ ItemOf(c.st[s]) = 0
  BY <1>1, HoldsNat DEF ItemOf
<1>4. Turn(e, s, 0, 0)
  <2>1. 0 + ItemOf(c.st[s]) - ItemOf(r) = 0
    BY <1>3
  <2>2. 0 + Holds(c.st[s]) - Holds(r) = 0
    BY <1>1, <1>3
  <2> HIDE DEF e
  <2> QED BY <1>2, <2>1, <2>2
<1>5. d = [e EXCEPT !.waiters = Append(@, s)]
  BY DEF Wait
<1> HIDE DEF d, e
<1> DEFINE q == e.waiters
           w == d.waiters
           N == Len(q)
<1>6. Shape(e) /\ s \in Upstreams /\ s \notin Lined(e) /\ Over(e, 0, 0)
  BY <1>4 DEF Turn
<1>7. /\ DOMAIN d = {"st", "used", "waiters", "granted"} /\ d.st = e.st /\ d.used = e.used /\ d.granted = e.granted
      /\ w = Append(q, s)
  BY <1>5, <1>6 DEF Shape
<1>8. q \in Seq(Upstreams) /\ N \in Nat /\ LineOK(q)
  BY <1>6 DEF Shape, LineOK
<1>9. w \in Seq(Upstreams) /\ Len(w) = N + 1 /\ w[N + 1] = s /\ \A j \in 1..N : w[j] = q[j]
  BY <1>6, <1>7, <1>8, AppendProperties
<1>10. \A j \in 1..N : q[j] # s
  BY <1>6 DEF Lined, Leading
<1>11. LineOK(w)
  <2>1. ASSUME NEW j \in 1..Len(w), NEW k \in 1..Len(w), w[j] = w[k] PROVE j = k
    <3>1. CASE j \in 1..N /\ k \in 1..N
      BY <3>1, <2>1, <1>8, <1>9 DEF LineOK
    <3>2. j \in 1..N \/ j = N + 1
      BY <1>8, <1>9
    <3>3. k \in 1..N \/ k = N + 1
      BY <1>8, <1>9
    <3>4. CASE j = N + 1 /\ k \in 1..N
      BY <3>4, <2>1, <1>9, <1>10
    <3>5. CASE k = N + 1 /\ j \in 1..N
      BY <3>5, <2>1, <1>9, <1>10
    <3> QED BY <3>1, <3>2, <3>3, <3>4, <3>5
  <2> QED BY <2>1, <1>9 DEF LineOK
<1>12. Leading(w, Len(w)) = Leading(q, N) \cup {s}
  <2>1. \A j \in 1..Len(w) : (j \in 1..N /\ w[j] = q[j]) \/ (j = N + 1 /\ w[j] = s)
    BY <1>8, <1>9
  <2>2. \A j \in 1..N : j \in 1..Len(w) /\ w[j] = q[j]
    BY <1>8, <1>9
  <2>3. N + 1 \in 1..Len(w) /\ w[N + 1] = s
    BY <1>8, <1>9
  <2> HIDE DEF w, q, N
  <2> QED BY <2>1, <2>2, <2>3 DEF Leading
<1>13. Lined(d) = Lined(e) \cup {s}
  BY <1>7, <1>12 DEF Lined
<1>14. Shape(d)
  <2>1. d.granted \cap Leading(w, Len(w)) = {}
    BY <1>6, <1>7, <1>12 DEF Shape, Lined
  <2> QED BY <2>1, <1>6, <1>7, <1>11 DEF Shape
<1>15. Over(d, 0, 0)
  <2>1. Share(d) = Share(e) /\ ItemHolders(d) = ItemHolders(e)
    BY <1>7 DEF Share, ItemHolders
  <2> QED BY <2>1, <1>6, <1>7 DEF Over
<1>16. ASSUME NEW t \in Upstreams PROVE StreamOK(d.st[t], t, t \in Lined(d))
  <2>1. CASE t = s
    <3>1. (t \in Lined(d)) = TRUE
      BY <2>1, <1>13
    <3> QED BY <2>1, <3>1, <1>2, <1>7
  <2>2. CASE t # s
    <3>1. (t \in Lined(d)) = (t \in Lined(e)) /\ StreamOK(e.st[t], t, t \in Lined(e))
      BY <2>2, <1>4, <1>13 DEF Turn
    <3> QED BY <3>1, <1>7
  <2> QED BY <2>1, <2>2
<1> QED BY <1>14, <1>15, <1>16 DEF StreamsInv, d

\* A served stream takes its turn, with what it was given not yet its own.
LEMMA ServedTurn ==
  ASSUME NEW c, StreamsInv(c), NEW s \in c.granted
  PROVE  /\ Turn([c EXCEPT !.granted = @ \ {s}], s, 1, c.st[s].want) /\ [c EXCEPT !.granted = @ \ {s}].st = c.st
         /\ c.st[s].pc \in Waits /\ StreamTypes(c.st[s]) /\ StreamOK(c.st[s], s, TRUE) /\ s \in Upstreams
<1> DEFINE d == [c EXCEPT !.granted = c.granted \ {s}]
<1>0. Shape(c) /\ Over(c, 0, 0) /\ s \in Upstreams /\ s \in Lined(c)
  BY DEF StreamsInv, Shape, Lined
<1>1. StreamTypes(c.st[s]) /\ StreamOK(c.st[s], s, TRUE)
  <2>1. StreamOK(c.st[s], s, s \in Lined(c)) /\ (s \in Lined(c)) = TRUE
    BY <1>0 DEF StreamsInv
  <2> QED BY <2>1, <1>0 DEF Shape
<1>2. c.st[s].pc \in Waits /\ c.st[s].out = 0 /\ c.st[s].want \in Nat
  BY <1>1, HoldsNat DEF StreamOK
<1>3. /\ DOMAIN d = {"st", "used", "waiters", "granted"} /\ d.st = c.st /\ d.used = c.used /\ d.granted = c.granted \ {s}
      /\ d.waiters = c.waiters
  BY <1>0 DEF Shape
<1> HIDE DEF d
<1>4. Shape(d)
  BY <1>0, <1>3 DEF Shape
<1>5. Lined(d) = Lined(c) \ {s}
  BY <1>0, <1>3 DEF Lined, Shape
<1>6. \A t \in Upstreams \ {s} : Share(d)[t] = Share(c)[t]
  BY <1>3 DEF Share
<1>7. Share(c)[s] = Holds(c.st[s]) + c.st[s].want /\ Share(d)[s] = Holds(c.st[s]) + 0
  BY <1>0, <1>3 DEF Share
<1>8. \A t \in Upstreams \ {s} : (t \in ItemHolders(d)) = (t \in ItemHolders(c))
  BY <1>3 DEF ItemHolders
<1>9. s \in ItemHolders(c) /\ s \notin ItemHolders(d)
  BY <1>0, <1>2, <1>3 DEF ItemHolders
<1>10. Over(d, 1, c.st[s].want)
  <2>1. c.used.items = Cardinality(ItemHolders(c)) + 0 /\ c.used.bytes = SumOver(Share(c), Upstreams) + 0
    BY <1>0 DEF Over
  <2>2. Cardinality(ItemHolders(c)) \in Nat /\ SumOver(Share(c), Upstreams) \in Nat /\ Cardinality(ItemHolders(d)) \in Nat /\ SumOver(Share(d), Upstreams) \in Nat
    BY <1>0, <1>4, ShareNat
  <2>3. SumOver(Share(d), Upstreams) = SumOver(Share(c), Upstreams) + Share(d)[s] - Share(c)[s]
    BY <1>0, <1>4, <1>6, ShareMoves
  <2>4. Cardinality(ItemHolders(d)) = Cardinality(ItemHolders(c)) + 0 - 1
    <3>1. Cardinality(ItemHolders(d)) = Cardinality(ItemHolders(c)) + (IF s \in ItemHolders(d) THEN 1 ELSE 0) - (IF s \in ItemHolders(c) THEN 1 ELSE 0)
      BY <1>0, <1>4, <1>8, ItemMoves
    <3> QED BY <3>1, <1>9
  <2>5. Holds(c.st[s]) \in Nat
    BY <1>1, HoldsNat
  <2>6. d.used.items = Cardinality(ItemHolders(d)) + 1
    BY <2>1, <2>2, <2>4, <1>3
  <2>7. d.used.bytes = SumOver(Share(d), Upstreams) + c.st[s].want
    BY <2>1, <2>2, <2>3, <2>5, <1>2, <1>3, <1>7
  <2> QED BY <2>6, <2>7 DEF Over
<1>11. \A t \in Upstreams \ {s} : StreamOK(d.st[t], t, t \in Lined(d))
  <2>1. ASSUME NEW t \in Upstreams \ {s} PROVE StreamOK(d.st[t], t, t \in Lined(d))
    <3>1. (t \in Lined(d)) = (t \in Lined(c)) /\ StreamOK(c.st[t], t, t \in Lined(c))
      BY <1>5 DEF StreamsInv
    <3> QED BY <3>1, <1>3
  <2> QED BY <2>1
<1>12. Turn(d, s, 1, c.st[s].want)
  BY <1>0, <1>2, <1>4, <1>5, <1>10, <1>11 DEF Turn
<1> QED BY <1>0, <1>1, <1>2, <1>3, <1>12 DEF d

\* Or it leaves the line before it is served.
LEMMA LeaveTurn ==
  ASSUME NEW c, StreamsInv(c), NEW s \in Upstreams, s \notin c.granted
  PROVE  Turn(Leave(c, s), s, 0, 0) /\ Leave(c, s).st = c.st
<1> DEFINE d == Leave(c, s)
           q == c.waiters
           w == IF s \in Range(q) THEN RemoveAt(q, CHOOSE k \in DOMAIN q : q[k] = s) ELSE q
<1>0. Shape(c) /\ Over(c, 0, 0)
  BY DEF StreamsInv
<1>1. /\ DOMAIN d = {"st", "used", "waiters", "granted"} /\ d.st = c.st /\ d.used = c.used /\ d.granted = c.granted
      /\ d.waiters = w
  BY <1>0 DEF Leave, Shape
<1>2. q \in Seq(Upstreams) /\ LineOK(q) /\ \A j, k \in 1..Len(q) : q[j] = q[k] => j = k
  BY <1>0 DEF Shape, LineOK
<1> HIDE DEF d
<1>3. LineOK(w) /\ Leading(w, Len(w)) = Leading(q, Len(q)) \ {s}
  <2>1. CASE s \in Range(q)
    <3> DEFINE k == CHOOSE j \in DOMAIN q : q[j] = s
    <3>1. \E j \in DOMAIN q : q[j] = s
      BY <2>1 DEF Range
    <3>2. k \in DOMAIN q /\ q[k] = s
      BY <3>1
    <3>3. w = RemoveAt(q, k)
      BY <2>1
    <3> HIDE DEF k, w, q
    <3>4. /\ w \in Seq(Upstreams) /\ \A i, j \in 1..Len(w) : w[i] = w[j] => i = j
          /\ Leading(w, Len(w)) = Leading(q, Len(q)) \ {q[k]}
      BY <1>2, <3>2, <3>3, Gone
    <3> QED BY <3>2, <3>4 DEF LineOK
  <2>2. CASE s \notin Range(q)
    <3>1. w = q
      BY <2>2
    <3>2. s \notin Leading(q, Len(q))
      BY <2>2, <1>2 DEF Range, Leading
    <3> HIDE DEF w, q
    <3> QED BY <3>1, <3>2, <1>2
  <2> QED BY <2>1, <2>2
<1> HIDE DEF w
<1>4. Lined(d) = Lined(c) \ {s}
  BY <1>1, <1>3 DEF Lined
<1>5. Shape(d)
  <2>1. d.granted \cap Leading(w, Len(w)) = {}
    BY <1>0, <1>1, <1>3 DEF Shape
  <2> QED BY <2>1, <1>0, <1>1, <1>3 DEF Shape
<1>6. Over(d, 0, 0)
  <2>1. Share(d) = Share(c) /\ ItemHolders(d) = ItemHolders(c)
    BY <1>1 DEF Share, ItemHolders
  <2> QED BY <2>1, <1>0, <1>1 DEF Over
<1>7. \A t \in Upstreams \ {s} : StreamOK(d.st[t], t, t \in Lined(d))
  <2>1. ASSUME NEW t \in Upstreams \ {s} PROVE StreamOK(d.st[t], t, t \in Lined(d))
    <3>1. (t \in Lined(d)) = (t \in Lined(c)) /\ StreamOK(c.st[t], t, t \in Lined(c))
      BY <1>4 DEF StreamsInv
    <3> QED BY <3>1, <1>1
  <2> QED BY <2>1
<1> QED BY <1>1, <1>4, <1>5, <1>6, <1>7 DEF Turn, d

\* The slack of a turn may be written in another way.
LEMMA Drift ==
  ASSUME NEW c, NEW s, NEW i, NEW b, NEW j, NEW k, Turn(c, s, i, b), i = j, b = k PROVE Turn(c, s, j, k)
OBVIOUS

\* What a stream has more is leased, what it has less is returned.
LEMMA TakeTurn ==
  ASSUME NEW c, NEW s, Turn(c, s, 0, 0), NEW r, StreamTypes(r),
         NEW x \in Int, NEW y \in Int, ItemOf(r) = ItemOf(c.st[s]) + x, Holds(r) = Holds(c.st[s]) + y
  PROVE  Turn(Put(Leased(c, x, y), s, r), s, 0, 0) /\ Put(Leased(c, x, y), s, r).st[s] = r
<1> DEFINE d == Leased(c, x, y)
<1>1. Turn(d, s, 0 + x, 0 + y) /\ d.st = c.st
  BY LeasedTurn
<1> HIDE DEF d
<1>2. Holds(c.st[s]) \in Nat /\ ItemOf(c.st[s]) \in Nat
  BY TurnTypes, HoldsNat DEF ItemOf
<1>3. Turn(Put(d, s, r), s, (0 + x) + ItemOf(d.st[s]) - ItemOf(r), (0 + y) + Holds(d.st[s]) - Holds(r)) /\ Put(d, s, r).st[s] = r
  BY <1>1, PutTurn
<1>4. (0 + x) + ItemOf(d.st[s]) - ItemOf(r) = 0 /\ (0 + y) + Holds(d.st[s]) - Holds(r) = 0
  BY <1>1, <1>2
<1> QED BY <1>3, <1>4, Drift DEF d

\* What a stream has less is returned.
LEMMA GiveTurn ==
  ASSUME NEW c, NEW s, Turn(c, s, 0, 0), NEW r, StreamTypes(r),
         NEW x \in Int, NEW y \in Int, ItemOf(c.st[s]) = ItemOf(r) + x, Holds(c.st[s]) = Holds(r) + y
  PROVE  Turn(Return(Put(c, s, r), x, y), s, 0, 0) /\ Return(Put(c, s, r), x, y).st[s] = r
<1> DEFINE d == Put(c, s, r)
           i == 0 + ItemOf(c.st[s]) - ItemOf(r)
           b == 0 + Holds(c.st[s]) - Holds(r)
<1>1. Turn(d, s, i, b) /\ d.st[s] = r
  BY PutTurn
<1>2. Holds(r) \in Nat /\ ItemOf(r) \in Nat
  BY HoldsNat DEF ItemOf
<1>3. i = x /\ b = y
  BY <1>2
<1> HIDE DEF d, i, b
<1>4. Turn(Return(d, x, y), s, i - x, b - y) /\ Return(d, x, y).st = d.st
  BY <1>1, ReturnTurn
<1>5. i - x = 0 /\ b - y = 0
  BY <1>3
<1> QED BY <1>1, <1>4, <1>5, Drift DEF d

\* A stream that has what it had.
LEMMA SameTurn ==
  ASSUME NEW c, NEW s, Turn(c, s, 0, 0), NEW r, StreamTypes(r), r.out = c.st[s].out, Holds(r) = Holds(c.st[s])
  PROVE  Turn(Put(c, s, r), s, 0, 0) /\ Put(c, s, r).st[s] = r
<1> DEFINE i == 0 + ItemOf(c.st[s]) - ItemOf(r)
           b == 0 + Holds(c.st[s]) - Holds(r)
<1>1. Turn(Put(c, s, r), s, i, b) /\ Put(c, s, r).st[s] = r
  BY PutTurn
<1>2. Holds(r) \in Nat /\ ItemOf(r) \in Nat /\ ItemOf(r) = ItemOf(c.st[s])
  BY HoldsNat DEF ItemOf
<1>3. i = 0 /\ b = 0
  BY <1>2
<1> HIDE DEF i, b
<1> QED BY <1>1, <1>3, Drift

\* The stream fails, its resources not yet closed.
LEMMA FailKeeps ==
  ASSUME NEW c, NEW s, Turn(c, s, 0, 0), Opened(c.st[s], s), Tells(c.st[s]),
         NEW result \in {"error", "local", "raised", "stream"}, c.st[s].phase = "forward" => result = "stream"
  PROVE  StreamsInv(Fail(c, s, result))
<1> DEFINE o == c.st[s]
           r == [o EXCEPT !.pc = "closing", !.result = result]
<1>1. StreamTypes(o)
  BY TurnTypes
<1> HIDE DEF o
<1>2. StreamTypes(r) /\ r.out = o.out /\ Holds(r) = Holds(o) /\ r.pc = "closing"
  BY <1>1 DEF StreamTypes, StreamFields, Holds
<1>3. StreamOK(r, s, FALSE)
  <2>1. Opened(r, s) /\ Tells(r)
    BY <1>1 DEF Opened, Tells, StreamTypes, StreamFields, o
  <2> HIDE DEF r
  <2> QED BY <1>2, <2>1 DEF StreamOK, Waits
<1> HIDE DEF r
<1>4. Turn(Put(c, s, r), s, 0, 0) /\ Put(c, s, r).st[s] = r
  BY <1>2, SameTurn DEF o
<1>5. StreamsInv(Put(c, s, r))
  BY <1>3, <1>4, TurnEnds
<1> QED BY <1>5 DEF Fail, r, o

\* A stream between two pieces: it has no output and may read on.
Reading(r, s) == Opened(r, s) /\ Tells(r) /\ Fresh(r) /\ r.out = 0

\* It fails for a reason that is not the upstream's.
LEMMA LocalKeeps ==
  ASSUME NEW c, NEW s, Turn(c, s, 0, 0), Opened(c.st[s], s), Tells(c.st[s])
  PROVE  StreamsInv(Local(c, s))
<1> DEFINE result == IF c.st[s].phase = "forward" THEN "stream" ELSE "local"
<1>1. result \in {"error", "local", "raised", "stream"} /\ (c.st[s].phase = "forward" => result = "stream")
  OBVIOUS
<1>2. Local(c, s) = Fail(c, s, result)
  BY DEF Local
<1> HIDE DEF result
<1> QED BY <1>1, <1>2, FailKeeps

\* Or for want of capacity.
LEMMA ExhaustedKeeps ==
  ASSUME NEW c, NEW s, Turn(c, s, 0, 0), Opened(c.st[s], s), Tells(c.st[s])
  PROVE  StreamsInv(Exhausted(c, s))
<1>1. CASE c.st[s].phase = "error"
  BY <1>1, FailKeeps DEF Exhausted
<1>2. CASE c.st[s].phase # "error"
  BY <1>2, LocalKeeps DEF Exhausted
<1> QED BY <1>1, <1>2

\* The stream waits for b bytes.
LEMMA WaitsKeeps ==
  ASSUME NEW c, NEW s, Turn(c, s, 0, 0), Reading(c.st[s], s), NEW b \in Nat \ {0}, NEW pc \in Waits,
         pc = "rawwait" => b = PieceLimit, pc = "outwait" => c.st[s].phase = "error"
  PROVE  StreamsInv(Wait(c, s, b, pc))
<1> DEFINE o == c.st[s]
           r == [o EXCEPT !.pc = pc, !.want = b]
<1>1. StreamTypes(o) /\ Reading(o, s) /\ b \in Nat
  BY TurnTypes
<1> HIDE DEF o
<1>2. r.pc = pc /\ r.want = b /\ r.out = 0 /\ r.phase = o.phase /\ Opened(r, s) /\ Tells(r) /\ Fresh(r)
  BY <1>1 DEF Opened, Tells, Fresh, Reading, StreamTypes, StreamFields
<1> HIDE DEF r
<1>3. StreamOK(r, s, TRUE)
  BY <1>2 DEF StreamOK, Waits, o
<1> QED BY <1>1, <1>3, WaitKeeps DEF Reading, r, o

\* The lease for the output.
LEMMA TakeOutputKeeps ==
  ASSUME NEW c, NEW s, Turn(c, s, 0, 0), Reading(c.st[s], s), NEW b \in Nat \ {0},
         c.st[s].phase # "error" => c.st[s].copy >= b
  PROVE  StreamsInv(TakeOutput(c, s, b))
<1> DEFINE o == c.st[s]
<1>1. StreamTypes(o) /\ Reading(o, s) /\ b \in Nat /\ b > 0 /\ (o.phase # "error" => o.copy >= b)
  BY TurnTypes
<1>2. CASE ~Blocked(c, b)
  <2> DEFINE r == [o EXCEPT !.out = b, !.pc = "decode"]
  <2> HIDE DEF o
  <2>1. StreamTypes(r) /\ Holds(r) = Holds(o) + b /\ ItemOf(r) = ItemOf(o) + 1
    <3>1. StreamTypes(r) /\ r.raw = o.raw /\ r.copy = o.copy /\ r.primed = o.primed /\ r.out = b /\ o.out = 0
      BY <1>1 DEF StreamTypes, StreamFields, Reading
    <3>2. o.raw \in Nat /\ o.copy \in Nat /\ o.primed \in Nat
      BY <1>1 DEF StreamTypes
    <3> HIDE DEF r
    <3> QED BY <1>1, <3>1, <3>2 DEF Holds, ItemOf
  <2>2. StreamOK(r, s, FALSE)
    <3>1. r.pc = "decode" /\ r.out = b /\ r.phase = o.phase /\ r.copy = o.copy /\ Opened(r, s) /\ Tells(r) /\ Fresh(r)
      BY <1>1 DEF Opened, Tells, Fresh, Reading, StreamTypes, StreamFields
    <3> HIDE DEF r
    <3> QED BY <1>1, <3>1 DEF StreamOK, Waits
  <2> HIDE DEF r
  <2>3. Turn(Put(Leased(c, 1, b), s, r), s, 0, 0) /\ Put(Leased(c, 1, b), s, r).st[s] = r
    BY <1>1, <2>1, TakeTurn DEF o
  <2>4. StreamsInv(Put(Leased(c, 1, b), s, r))
    BY <2>2, <2>3, TurnEnds
  <2> QED BY <1>2, <2>4 DEF TakeOutput, r, o
<1>3. CASE Blocked(c, b) /\ o.phase # "error"
  <2> DEFINE r == [o EXCEPT !.copy = o.copy - b]
             d == Return(Put(c, s, r), 0, b)
  <2> HIDE DEF o
  <2>1. StreamTypes(r) /\ Holds(o) = Holds(r) + b /\ ItemOf(o) = ItemOf(r) + 0
    <3>1. r.raw = o.raw /\ r.copy = o.copy - b /\ r.primed = o.primed /\ r.out = o.out
      BY <1>1 DEF StreamTypes, StreamFields
    <3>2. o.raw \in Nat /\ o.copy \in Nat /\ o.primed \in Nat /\ o.out \in Nat /\ o.copy - b \in Nat
      BY <1>1, <1>3 DEF StreamTypes
    <3>3. StreamTypes(r)
      BY <1>1, <3>2 DEF StreamTypes, StreamFields
    <3> HIDE DEF r
    <3> QED BY <1>1, <3>1, <3>2, <3>3 DEF Holds, ItemOf
  <2>2. Opened(r, s) /\ Tells(r)
    BY <1>1 DEF Opened, Tells, Reading, StreamTypes, StreamFields
  <2> HIDE DEF r
  <2>3. Turn(d, s, 0, 0) /\ d.st[s] = r
    BY <1>1, <2>1, GiveTurn DEF o
  <2> HIDE DEF d
  <2>4. StreamsInv(Local(d, s))
    BY <2>2, <2>3, LocalKeeps
  <2> QED BY <1>3, <2>4 DEF TakeOutput, r, o, d
<1>4. CASE Blocked(c, b) /\ o.phase = "error"
  <2>1. StreamsInv(Wait(c, s, b, "outwait"))
    BY <1>4, WaitsKeeps DEF Waits
  <2> QED BY <1>4, <2>1 DEF TakeOutput
<1> QED BY <1>2, <1>3, <1>4

\* The bytes are there: the copy and the output.
LEMMA ReservePieceKeeps ==
  ASSUME NEW c, NEW s, Turn(c, s, 0, 0), Reading(c.st[s], s), c.st[s].pending > 0 \/ s \in Compressed
  PROVE  StreamsInv(ReservePiece(c, s))
<1> DEFINE o == c.st[s]
           b == PieceOf(o, s)
           r == [o EXCEPT !.copy = o.copy + b]
           d == Put(Leased(c, 0, b), s, r)
<1>1. StreamTypes(o) /\ Reading(o, s) /\ Opened(o, s) /\ Tells(o)
  BY TurnTypes DEF Reading
<1>2. b \in Nat /\ b > 0 /\ b \in Nat \ {0}
  BY <1>1, PieceFits DEF PieceOf, StreamTypes
<1> HIDE DEF o, b
<1>3. StreamTypes(r) /\ Holds(r) = Holds(o) + b /\ ItemOf(r) = ItemOf(o) + 0 /\ Reading(r, s) /\ r.copy >= b
  <2>1. r.raw = o.raw /\ r.copy = o.copy + b /\ r.primed = o.primed /\ r.out = o.out
    BY <1>1 DEF StreamTypes, StreamFields
  <2>2. o.raw \in Nat /\ o.copy \in Nat /\ o.primed \in Nat /\ o.out \in Nat /\ o.copy + b \in Nat
    BY <1>1, <1>2 DEF StreamTypes
  <2>3. StreamTypes(r)
    BY <1>1, <2>2 DEF StreamTypes, StreamFields
  <2>4. Reading(r, s)
    BY <1>1 DEF Reading, Opened, Tells, Fresh, StreamTypes, StreamFields
  <2> HIDE DEF r
  <2> QED BY <1>2, <2>1, <2>2, <2>3, <2>4 DEF Holds, ItemOf
<1>4. Turn(d, s, 0, 0) /\ d.st[s] = r
  <2> HIDE DEF r
  <2> QED BY <1>2, <1>3, TakeTurn DEF o
<1> HIDE DEF r
<1>5. StreamsInv(TakeOutput(d, s, b))
  <2> HIDE DEF d
  <2> QED BY <1>2, <1>3, <1>4, TakeOutputKeeps
<1>6. StreamsInv(Exhausted(c, s)) /\ StreamsInv(Local(c, s))
  BY <1>1, ExhaustedKeeps, LocalKeeps DEF o
<1>7. o.phase = "error" => StreamsInv(TakeOutput(c, s, b))
  BY <1>1, <1>2, TakeOutputKeeps DEF o
<1>8. StreamsInv(Wait(c, s, b, "copywait"))
  BY <1>1, <1>2, WaitsKeeps DEF o, Waits
<1>9. ReservePiece(c, s) \in {Exhausted(c, s), Local(c, s), TakeOutput(d, s, b), Wait(c, s, b, "copywait")}
      \/ (o.phase = "error" /\ ReservePiece(c, s) = TakeOutput(c, s, b))
  BY DEF ReservePiece, o, b, d, r
<1> HIDE DEF d
<1> QED BY <1>5, <1>6, <1>7, <1>8, <1>9

\* Start of a read.
LEMMA StartReadKeeps ==
  ASSUME NEW c, NEW s, Turn(c, s, 0, 0), Reading(c.st[s], s)
  PROVE  StreamsInv(StartRead(c, s))
<1> DEFINE o == c.st[s]
           r == [o EXCEPT !.raw = o.raw + PieceLimit, !.pc = "net"]
           d == Put(Leased(c, 0, PieceLimit), s, r)
<1>1. StreamTypes(o) /\ Reading(o, s) /\ Opened(o, s) /\ Tells(o)
  BY TurnTypes DEF Reading
<1>2. PieceLimit \in Nat /\ PieceLimit > 0 /\ PieceLimit \in Nat \ {0}
  BY PieceFits
<1> HIDE DEF o
<1>3. ASSUME o.pending > 0 \/ o.drain PROVE StreamsInv(ReservePiece(c, s))
  <2>1. o.pending > 0 \/ s \in Compressed
    BY <1>1, <1>3 DEF Opened
  <2> QED BY <1>1, <2>1, ReservePieceKeeps DEF o
<1>4. StreamsInv(d)
  <2>1. /\ r.raw = o.raw + PieceLimit /\ r.copy = o.copy /\ r.primed = o.primed /\ r.out = o.out /\ r.pc = "net"
        /\ r.pending = o.pending /\ r.probe = o.probe
    BY <1>1 DEF StreamTypes, StreamFields
  <2>2. /\ o.raw \in Nat /\ o.copy \in Nat /\ o.primed \in Nat /\ o.out = 0 /\ o.raw + PieceLimit \in Nat
        /\ o.pending \in Nat /\ o.probe \in Nat /\ o.raw >= o.pending + o.probe
    BY <1>1, <1>2 DEF StreamTypes, Reading, Opened
  <2>3. StreamTypes(r)
    BY <1>1, <2>2 DEF StreamTypes, StreamFields
  <2>4. Tells(r) /\ Fresh(r) /\ (r.drain => s \in Compressed) /\ r.opened /\ r.exits = 0 /\ r.callbacks = 0
    BY <1>1 DEF Reading, Opened, Tells, Fresh, StreamTypes, StreamFields
  <2> HIDE DEF r
  <2>5. r.raw >= PieceLimit + r.pending + r.probe /\ Opened(r, s)
    BY <1>2, <2>1, <2>2, <2>4 DEF Opened
  <2>6. StreamOK(r, s, FALSE)
    BY <2>1, <2>2, <2>4, <2>5 DEF StreamOK, Waits
  <2>7. Holds(r) = Holds(o) + PieceLimit /\ ItemOf(r) = ItemOf(o) + 0
    BY <1>2, <2>1, <2>2 DEF Holds, ItemOf
  <2>8. Turn(d, s, 0, 0) /\ d.st[s] = r
    BY <1>2, <2>3, <2>7, TakeTurn DEF o
  <2> QED BY <2>6, <2>8, TurnEnds
<1>5. StreamsInv(Exhausted(c, s)) /\ StreamsInv(Local(c, s))
  BY <1>1, ExhaustedKeeps, LocalKeeps DEF o
<1>6. StreamsInv(Wait(c, s, PieceLimit, "rawwait"))
  BY <1>1, <1>2, WaitsKeeps DEF o, Waits
<1>7. StartRead(c, s) \in {Exhausted(c, s), Local(c, s), d, Wait(c, s, PieceLimit, "rawwait")}
      \/ ((o.pending > 0 \/ o.drain) /\ StartRead(c, s) = ReservePiece(c, s))
  BY DEF StartRead, o, d, r
<1> HIDE DEF d
<1> QED BY <1>3, <1>4, <1>5, <1>6, <1>7

\* A stream that does not wait may take its turn.
LEMMA AwakeTurn ==
  ASSUME NEW c, StreamsInv(c), NEW s \in Upstreams, c.st[s].pc \notin Waits
  PROVE  Turn(c, s, 0, 0) /\ StreamTypes(c.st[s]) /\ StreamOK(c.st[s], s, FALSE)
<1>1. s \notin Lined(c)
  BY DEF StreamsInv, StreamOK
<1> QED BY <1>1, TurnBegins

\* The step ends where the stream neither has nor gives anything more.
LEMMA SameEnds ==
  ASSUME NEW c, NEW s, Turn(c, s, 0, 0), NEW r, StreamTypes(r), r.out = c.st[s].out, Holds(r) = Holds(c.st[s]), StreamOK(r, s, FALSE)
  PROVE  StreamsInv(Put(c, s, r))
BY SameTurn, TurnEnds

\* The upstream is connected, or refuses.
LEMMA ConnectKeeps ==
  ASSUME StreamsInv(us), NEW s \in Upstreams, Connect(s) PROVE StreamsInv(us')
<1> DEFINE o == us.st[s]
<1>1. Turn(us, s, 0, 0) /\ StreamTypes(o) /\ StreamOK(o, s, FALSE) /\ o.pc = "connect"
  BY AwakeTurn DEF Connect, Waits
<1>2. /\ Holds(o) = 0 /\ o.pending = 0 /\ o.probe = 0 /\ ~o.drain /\ ~o.opened /\ o.exits = 0 /\ o.callbacks = 0
      /\ o.phase # "forward" /\ Tells(o) /\ o.out = 0 /\ o.raw \in Nat
  <2>1. o.raw \in Nat /\ o.copy \in Nat /\ o.primed \in Nat /\ o.out \in Nat
    BY <1>1 DEF StreamTypes
  <2>2. Holds(o) = 0
    BY <1>1 DEF StreamOK
  <2>3. o.out = 0
    <3>1. o.raw + o.copy + o.primed + o.out = 0
      BY <2>2 DEF Holds
    <3>2. \A x, y, z, k \in Nat : x + y + z + k = 0 => k = 0
      OBVIOUS
    <3> HIDE DEF o
    <3> QED BY <2>1, <3>1, <3>2, Zenon
  <2> QED BY <1>1, <2>1, <2>2, <2>3 DEF StreamOK
<1> HIDE DEF o
<1>3. ASSUME us' = Put(us, s, [o EXCEPT !.pc = "over", !.result = "error"]) PROVE StreamsInv(us')
  <2> DEFINE r == [o EXCEPT !.pc = "over", !.result = "error"]
  <2>1. /\ StreamTypes(r) /\ r.out = o.out /\ Holds(r) = Holds(o) /\ r.pc = "over" /\ Tells(r) /\ r.result = "error"
        /\ ~r.opened /\ r.exits = 0 /\ r.callbacks = 0
    BY <1>1, <1>2 DEF StreamTypes, StreamFields, Holds, Tells
  <2> HIDE DEF r
  <2>2. StreamOK(r, s, FALSE)
    BY <1>2, <2>1 DEF StreamOK, Waits
  <2> QED BY <1>1, <1>3, <2>1, <2>2, SameEnds DEF r, o
<1>4. ASSUME NEW phase \in {"prime", "error"}, us' = StartRead(Put(us, s, [o EXCEPT !.phase = phase, !.opened = TRUE]), s)
      PROVE  StreamsInv(us')
  <2> DEFINE r == [o EXCEPT !.phase = phase, !.opened = TRUE]
             d == Put(us, s, r)
  <2>1. StreamTypes(r) /\ r.out = o.out /\ Holds(r) = Holds(o)
    BY <1>1 DEF StreamTypes, StreamFields, Holds
  <2>2. Reading(r, s)
    BY <1>1, <1>2 DEF Reading, Opened, Tells, Fresh, StreamTypes, StreamFields
  <2> HIDE DEF r
  <2>3. Turn(d, s, 0, 0) /\ d.st[s] = r
    BY <1>1, <2>1, SameTurn DEF o
  <2> HIDE DEF d
  <2> QED BY <1>4, <2>2, <2>3, StartReadKeeps DEF d, r
<1> QED BY <1>3, <1>4 DEF Connect, o

\* Part of the raw lease goes back: what arrived is n bytes.
LEMMA RawTurn ==
  ASSUME NEW c, NEW s, Turn(c, s, 0, 0), StreamOK(c.st[s], s, FALSE), c.st[s].pc = "net", NEW b \in 0..PieceLimit,
         NEW new, StreamTypes(new), new.raw = c.st[s].raw, Holds(new) = Holds(c.st[s]), new.out = 0, Tells(new), Fresh(new),
         new.opened /\ new.exits = 0 /\ new.callbacks = 0 /\ (new.drain => s \in Compressed),
         new.raw - b >= new.pending + new.probe
  PROVE  LET d == Return(Put(c, s, [new EXCEPT !.raw = new.raw - b]), 0, b) IN
         Turn(d, s, 0, 0) /\ d.st[s] = [new EXCEPT !.raw = new.raw - b] /\ Reading(d.st[s], s)
<1> DEFINE o == c.st[s]
           r == [new EXCEPT !.raw = new.raw - b]
<1>0. b \in Nat /\ StreamTypes(o) /\ o.out = 0
  BY PieceFits, TurnTypes DEF StreamOK
<1>1. new.raw \in Nat /\ new.copy \in Nat /\ new.primed \in Nat /\ new.pending \in Nat /\ new.probe \in Nat /\ new.raw - b \in Nat
  BY <1>0 DEF StreamTypes
<1>2. /\ r.raw = new.raw - b /\ r.copy = new.copy /\ r.primed = new.primed /\ r.out = new.out
      /\ r.pending = new.pending /\ r.probe = new.probe
  BY DEF StreamTypes, StreamFields
<1>3. StreamTypes(r)
  BY <1>1 DEF StreamTypes, StreamFields
<1>4. /\ Tells(r) /\ Fresh(r) /\ r.opened /\ r.exits = 0 /\ r.callbacks = 0 /\ (r.drain => s \in Compressed)
  BY DEF Tells, Fresh, StreamTypes, StreamFields
<1> HIDE DEF r
<1>5. Reading(r, s)
  BY <1>2, <1>4 DEF Reading, Opened
<1>6. Holds(o) = Holds(r) + b /\ ItemOf(o) = ItemOf(r) + 0
  BY <1>0, <1>1, <1>2 DEF Holds, ItemOf
<1>7. Turn(Return(Put(c, s, r), 0, b), s, 0, 0) /\ Return(Put(c, s, r), 0, b).st[s] = r
  BY <1>0, <1>3, <1>6, GiveTurn
<1> QED BY <1>5, <1>7 DEF r

\* A chunk arrives, or the body ends or breaks.
LEMMA ReceiveRawKeeps ==
  ASSUME StreamsInv(us), NEW s \in Upstreams, ReceiveRaw(s) PROVE StreamsInv(us')
<1> DEFINE o == us.st[s]
           Give(b, new) == Return(Put(us, s, [new EXCEPT !.raw = new.raw - b]), 0, b)
           ended == Give(PieceLimit, [o EXCEPT !.eof = TRUE])
<1>1. Turn(us, s, 0, 0) /\ StreamTypes(o) /\ StreamOK(o, s, FALSE) /\ o.pc = "net"
  BY AwakeTurn DEF ReceiveRaw, Waits
<1>2. /\ PieceLimit \in Nat /\ o.raw \in Nat /\ o.pending \in Nat /\ o.probe \in Nat /\ o.raw >= PieceLimit + o.pending + o.probe
      /\ o.out = 0 /\ Tells(o) /\ Fresh(o) /\ o.opened /\ o.exits = 0 /\ o.callbacks = 0 /\ (o.drain => s \in Compressed)
  BY <1>1, PieceFits DEF StreamOK, StreamTypes, Opened
<1> HIDE DEF o
<1>3. ASSUME NEW n \in 1..PieceLimit, us' = ReservePiece(Give(PieceLimit - n, [o EXCEPT !.pending = n, !.pieces = @ + 1]), s)
      PROVE  StreamsInv(us')
  <2> DEFINE new == [o EXCEPT !.pending = n, !.pieces = o.pieces + 1]
             b == PieceLimit - n
             d == Give(b, new)
  <2>0. n \in Nat /\ n > 0 /\ b \in 0..PieceLimit /\ b + n = PieceLimit
    BY <1>2
  <2>1. /\ StreamTypes(new) /\ new.raw = o.raw /\ Holds(new) = Holds(o) /\ new.out = 0 /\ new.pending = n /\ new.probe = o.probe
        /\ Tells(new) /\ Fresh(new) /\ new.opened /\ new.exits = 0 /\ new.callbacks = 0 /\ (new.drain => s \in Compressed)
    BY <1>1, <1>2, <2>0 DEF StreamTypes, StreamFields, Holds, Tells, Fresh
  <2> HIDE DEF new, b
  <2>2. new.raw - b >= new.pending + new.probe
    BY <1>2, <2>0, <2>1
  <2>3. Turn(d, s, 0, 0) /\ d.st[s] = [new EXCEPT !.raw = new.raw - b] /\ Reading(d.st[s], s)
    BY <1>1, <2>0, <2>1, <2>2, RawTurn DEF o
  <2>4. d.st[s].pending > 0
    BY <2>0, <2>1, <2>3 DEF StreamTypes, StreamFields
  <2>5. us' = ReservePiece(d, s)
    BY <1>3 DEF new, b
  <2> HIDE DEF d
  <2> QED BY <2>3, <2>4, <2>5, ReservePieceKeeps
<1>4. Turn(ended, s, 0, 0) /\ Reading(ended.st[s], s) /\ (ended.st[s].phase = "forward" => o.phase = "forward")
  <2> DEFINE new == [o EXCEPT !.eof = TRUE]
             d == Give(PieceLimit, new)
  <2>1. /\ StreamTypes(new) /\ new.raw = o.raw /\ Holds(new) = Holds(o) /\ new.out = 0 /\ new.pending = o.pending /\ new.probe = o.probe
        /\ new.phase = o.phase
        /\ Tells(new) /\ Fresh(new) /\ new.opened /\ new.exits = 0 /\ new.callbacks = 0 /\ (new.drain => s \in Compressed)
    BY <1>1, <1>2 DEF StreamTypes, StreamFields, Holds, Tells, Fresh
  <2> HIDE DEF new
  <2>2. new.raw - PieceLimit >= new.pending + new.probe
    BY <1>2, <2>1
  <2>3. Turn(d, s, 0, 0) /\ d.st[s] = [new EXCEPT !.raw = new.raw - PieceLimit] /\ Reading(d.st[s], s)
    <3>1. PieceLimit \in 0..PieceLimit
      BY <1>2
    <3> QED BY <3>1, <1>1, <1>2, <2>1, <2>2, RawTurn DEF o
  <2>4. d.st[s].phase = o.phase
    BY <2>1, <2>3 DEF StreamTypes, StreamFields
  <2> HIDE DEF d
  <2> QED BY <2>3, <2>4 DEF d, new
<1> HIDE DEF ended
<1>5. ASSUME us' = Moved(ended, s, "eof") PROVE StreamsInv(us')
  <2> DEFINE e == ended.st[s]
             r == [e EXCEPT !.pc = "eof"]
  <2>1. StreamTypes(e) /\ Reading(e, s)
    BY <1>4, TurnTypes
  <2> HIDE DEF e
  <2>2. /\ StreamTypes(r) /\ r.out = e.out /\ Holds(r) = Holds(e) /\ r.pc = "eof" /\ r.out = 0
        /\ Tells(r) /\ Fresh(r) /\ Opened(r, s)
    BY <2>1 DEF StreamTypes, StreamFields, Holds, Tells, Fresh, Reading, Opened
  <2> HIDE DEF r
  <2>3. StreamOK(r, s, FALSE)
    BY <2>2 DEF StreamOK, Waits
  <2>4. us' = Put(ended, s, r)
    BY <1>5 DEF Moved, r, e
  <2> QED BY <1>4, <2>2, <2>3, <2>4, SameEnds DEF e
<1>6. ASSUME us' = Fail(ended, s, IF o.phase = "forward" THEN "stream" ELSE "error") PROVE StreamsInv(us')
  <2> DEFINE result == IF o.phase = "forward" THEN "stream" ELSE "error"
  <2>1. result \in {"error", "local", "raised", "stream"} /\ (ended.st[s].phase = "forward" => result = "stream")
    BY <1>4
  <2> HIDE DEF result
  <2> QED BY <1>4, <1>6, <2>1, FailKeeps DEF Reading, result
<1> QED BY <1>3, <1>5, <1>6 DEF ReceiveRaw, o, ended

\* The reader wakes with what it waited for.
LEMMA WakeReaderKeeps ==
  ASSUME StreamsInv(us), NEW s \in Upstreams, WakeReader(s) PROVE StreamsInv(us')
<1> DEFINE o == us.st[s]
           c == [us EXCEPT !.granted = @ \ {s}]
           Served(new) == Put(c, s, [new EXCEPT !.want = 0])
<1>1. /\ Turn(c, s, 1, o.want) /\ c.st = us.st
      /\ o.pc \in Waits /\ StreamTypes(o) /\ StreamOK(o, s, TRUE)
  BY ServedTurn DEF WakeReader
<1> HIDE DEF c, o
<1>2. /\ Opened(o, s) /\ Tells(o) /\ Fresh(o) /\ o.out = 0 /\ o.want > 0 /\ o.want \in Nat /\ Reading(o, s)
      /\ (o.pc = "rawwait" => o.want = PieceLimit) /\ (o.pc = "outwait" => o.phase = "error")
  BY <1>1 DEF StreamOK, Waits, Reading, StreamTypes
<1>3. /\ o.raw \in Nat /\ o.copy \in Nat /\ o.primed \in Nat /\ o.pending \in Nat /\ o.probe \in Nat
      /\ o.raw >= o.pending + o.probe /\ PieceLimit \in Nat /\ PieceLimit > 0 /\ (o.drain => s \in Compressed)
  BY <1>1, <1>2, PieceFits DEF StreamTypes, Opened
<1>4. ASSUME o.pc = "rawwait", us' = Return(Served([o EXCEPT !.raw = @ + PieceLimit, !.pc = "net"]), 1, 0) PROVE StreamsInv(us')
  <2> DEFINE r == [[o EXCEPT !.raw = o.raw + PieceLimit, !.pc = "net"] EXCEPT !.want = 0]
             i == 1 + ItemOf(o) - ItemOf(r)
             b == o.want + Holds(o) - Holds(r)
  <2>0. o.raw + PieceLimit \in Nat
    BY <1>3
  <2>1. /\ r.raw = o.raw + PieceLimit /\ r.pc = "net" /\ r.copy = o.copy /\ r.primed = o.primed /\ r.out = 0
        /\ r.pending = o.pending /\ r.probe = o.probe /\ Tells(r) /\ Fresh(r) /\ r.opened /\ r.exits = 0 /\ r.callbacks = 0
        /\ (r.drain => s \in Compressed) /\ StreamTypes(r)
    <3> DEFINE m == [o EXCEPT !.raw = o.raw + PieceLimit, !.pc = "net"]
    <3>1. /\ m.raw = o.raw + PieceLimit /\ m.pc = "net" /\ m.copy = o.copy /\ m.primed = o.primed /\ m.out = 0
          /\ m.pending = o.pending /\ m.probe = o.probe /\ Tells(m) /\ Fresh(m) /\ m.opened /\ m.exits = 0 /\ m.callbacks = 0
          /\ (m.drain => s \in Compressed) /\ StreamTypes(m)
      BY <1>1, <1>2, <1>3, <2>0 DEF StreamTypes, StreamFields, Tells, Fresh, Opened
    <3>2. r = [m EXCEPT !.want = 0]
      OBVIOUS
    <3> HIDE DEF m, r
    <3> QED BY <3>1, <3>2 DEF StreamTypes, StreamFields, Tells, Fresh
  <2> HIDE DEF r
  <2>2. r.raw >= PieceLimit + r.pending + r.probe /\ r.raw >= r.pending + r.probe
    BY <1>3, <2>1
  <2>3. StreamOK(r, s, FALSE)
    BY <2>1, <2>2 DEF StreamOK, Opened, Waits
  <2>4. i = 1 /\ b = 0
    BY <1>2, <1>3, <1>4, <2>1 DEF Holds, ItemOf
  <2>5. Turn(Put(c, s, r), s, i, b) /\ Put(c, s, r).st[s] = r
    BY <1>1, <2>1, PutTurn DEF o
  <2>6. Turn(Put(c, s, r), s, 1, 0)
    BY <2>4, <2>5
  <2> HIDE DEF i, b
  <2>7. Turn(Return(Put(c, s, r), 1, 0), s, 1 - 1, 0 - 0) /\ Return(Put(c, s, r), 1, 0).st[s] = r
    BY <2>5, <2>6, ReturnTurn
  <2>8. Turn(Return(Put(c, s, r), 1, 0), s, 0, 0)
    <3>1. 1 - 1 = 0 /\ 0 - 0 = 0
      OBVIOUS
    <3> QED BY <3>1, <2>7, Drift
  <2> QED BY <1>4, <2>3, <2>7, <2>8, TurnEnds DEF r
<1>5. ASSUME o.pc = "copywait", us' = TakeOutput(Return(Served([o EXCEPT !.copy = @ + o.want]), 1, 0), s, o.want) PROVE StreamsInv(us')
  <2> DEFINE r == [[o EXCEPT !.copy = o.copy + o.want] EXCEPT !.want = 0]
             i == 1 + ItemOf(o) - ItemOf(r)
             b == o.want + Holds(o) - Holds(r)
             d == Return(Put(c, s, r), 1, 0)
  <2>1. /\ r.raw = o.raw /\ r.copy = o.copy + o.want /\ r.primed = o.primed /\ r.out = 0 /\ StreamTypes(r)
        /\ Opened(r, s) /\ Tells(r) /\ Fresh(r)
    <3> DEFINE m == [o EXCEPT !.copy = o.copy + o.want]
    <3>0. o.copy + o.want \in Nat
      BY <1>2, <1>3
    <3>1. /\ m.raw = o.raw /\ m.copy = o.copy + o.want /\ m.primed = o.primed /\ m.out = 0 /\ StreamTypes(m)
          /\ Opened(m, s) /\ Tells(m) /\ Fresh(m)
      BY <1>1, <1>2, <1>3, <3>0 DEF StreamTypes, StreamFields, Tells, Fresh, Opened
    <3>2. r = [m EXCEPT !.want = 0]
      OBVIOUS
    <3> HIDE DEF m, r
    <3> QED BY <3>1, <3>2 DEF StreamTypes, StreamFields, Tells, Fresh, Opened
  <2> HIDE DEF r
  <2>2. Reading(r, s) /\ r.copy >= o.want
    BY <2>1, <1>2, <1>3 DEF Reading
  <2>4. i = 1 /\ b = 0
    BY <1>2, <1>3, <1>5, <2>1 DEF Holds, ItemOf
  <2>5. Turn(Put(c, s, r), s, i, b) /\ Put(c, s, r).st[s] = r
    BY <1>1, <2>1, PutTurn DEF o
  <2>6. Turn(Put(c, s, r), s, 1, 0)
    BY <2>4, <2>5
  <2> HIDE DEF i, b
  <2>7. Turn(d, s, 1 - 1, 0 - 0) /\ d.st[s] = r
    BY <2>5, <2>6, ReturnTurn
  <2>8. Turn(d, s, 0, 0)
    <3>1. 1 - 1 = 0 /\ 0 - 0 = 0
      OBVIOUS
    <3> QED BY <3>1, <2>7, Drift
  <2>9. us' = TakeOutput(d, s, o.want)
    BY <1>5 DEF r
  <2> HIDE DEF d
  <2> QED BY <1>2, <2>2, <2>7, <2>8, <2>9, TakeOutputKeeps
<1>6. ASSUME o.pc = "outwait", us' = Served([o EXCEPT !.out = o.want, !.pc = "decode"]) PROVE StreamsInv(us')
  <2> DEFINE r == [[o EXCEPT !.out = o.want, !.pc = "decode"] EXCEPT !.want = 0]
             i == 1 + ItemOf(o) - ItemOf(r)
             b == o.want + Holds(o) - Holds(r)
  <2>1. /\ r.raw = o.raw /\ r.pc = "decode" /\ r.copy = o.copy /\ r.primed = o.primed /\ r.out = o.want /\ r.phase = "error"
        /\ Opened(r, s) /\ Tells(r) /\ Fresh(r) /\ StreamTypes(r)
    BY <1>1, <1>2, <1>3, <1>6 DEF StreamTypes, StreamFields, Tells, Fresh, Opened
  <2> HIDE DEF r
  <2>3. StreamOK(r, s, FALSE)
    BY <1>2, <2>1 DEF StreamOK, Waits
  <2>4. i = 0 /\ b = 0
    BY <1>2, <1>3, <2>1 DEF Holds, ItemOf
  <2>5. Turn(Put(c, s, r), s, i, b) /\ Put(c, s, r).st[s] = r
    BY <1>1, <2>1, PutTurn DEF o
  <2>6. Turn(Put(c, s, r), s, 0, 0)
    BY <2>4, <2>5
  <2> HIDE DEF i, b
  <2> QED BY <1>6, <2>3, <2>5, <2>6, TurnEnds DEF r
<1>7. \/ o.pc = "rawwait" /\ us' = Return(Served([o EXCEPT !.raw = @ + PieceLimit, !.pc = "net"]), 1, 0)
      \/ o.pc = "copywait" /\ us' = TakeOutput(Return(Served([o EXCEPT !.copy = @ + o.want]), 1, 0), s, o.want)
      \/ o.pc = "outwait" /\ us' = Served([o EXCEPT !.out = o.want, !.pc = "decode"])
  BY <1>1 DEF WakeReader, c, o, Waits
<1> QED BY <1>4, <1>5, <1>6, <1>7

\* A stream that has decoded, or is about to: its output is leased, and the
\* framer's copy of it.
Decoding(o, s) == /\ StreamTypes(o) /\ Opened(o, s) /\ Tells(o) /\ Fresh(o) /\ o.out > 0
                  /\ o.phase # "error" => o.copy >= o.out

\* The output goes back unused.
LEMMA UnusedTurn ==
  ASSUME NEW c, NEW s, Turn(c, s, 0, 0), Decoding(c.st[s], s),
         NEW st, StreamTypes(st), Opened(st, s), Tells(st), Fresh(st), st.raw = c.st[s].raw, st.copy = c.st[s].copy,
         st.primed = c.st[s].primed, st.out = c.st[s].out, st.phase = c.st[s].phase
  PROVE  Turn(Unused(c, s, st), s, 0, 0) /\ Reading(Unused(c, s, st).st[s], s) /\ Unused(c, s, st).st[s].phase = st.phase
<1> DEFINE o == c.st[s]
           kept == IF st.phase = "error" THEN st.copy ELSE st.copy - st.out
           back == IF st.phase = "error" THEN st.out ELSE 2 * st.out
           r == [st EXCEPT !.out = 0, !.copy = kept]
           d == Return(Put(c, s, r), 1, back)
<1>1. /\ st.raw \in Nat /\ st.copy \in Nat /\ st.primed \in Nat /\ st.out \in Nat /\ st.out > 0
      /\ (st.phase # "error" => st.copy >= st.out)
  BY DEF StreamTypes, Decoding
<1>2. kept \in Nat /\ back \in Nat /\ st.copy + st.out = kept + back
  <2>1. CASE st.phase = "error"
    BY <1>1, <2>1
  <2>2. CASE st.phase # "error"
    BY <1>1, <2>2
  <2> QED BY <2>1, <2>2
<1>3. Unused(c, s, st) = d
  BY DEF Unused
<1> HIDE DEF o, kept, back
<1>4. r.raw = st.raw /\ r.copy = kept /\ r.primed = st.primed /\ r.out = 0 /\ StreamTypes(r) /\ r.phase = st.phase
  BY <1>2 DEF StreamTypes, StreamFields
<1>5. Reading(r, s)
  BY DEF Reading, Opened, Tells, Fresh, StreamTypes, StreamFields
<1> HIDE DEF r
<1>6. Holds(o) = Holds(r) + back /\ ItemOf(o) = ItemOf(r) + 1
  <2>1. Holds(o) = st.raw + st.copy + st.primed + st.out /\ o.out = st.out
    BY DEF Holds, o
  <2>2. Holds(r) = st.raw + kept + st.primed + 0
    BY <1>4 DEF Holds
  <2>3. Holds(o) = Holds(r) + back
    BY <1>1, <1>2, <2>1, <2>2
  <2> QED BY <1>1, <1>4, <2>1, <2>3 DEF ItemOf
<1>7. Turn(d, s, 0, 0) /\ d.st[s] = r
  <2> DEFINE one == 1
  <2>1. one \in Int /\ back \in Int
    BY <1>2
  <2>2. ItemOf(c.st[s]) = ItemOf(r) + one /\ Holds(c.st[s]) = Holds(r) + back
    BY <1>6 DEF o
  <2> HIDE DEF one
  <2>3. Turn(Return(Put(c, s, r), one, back), s, 0, 0) /\ Return(Put(c, s, r), one, back).st[s] = r
    BY <1>4, <2>1, <2>2, GiveTurn
  <2> QED BY <2>3 DEF one
<1> HIDE DEF d
<1> QED BY <1>3, <1>4, <1>5, <1>7

\* A piece is decoded.
LEMMA DecodedTurn ==
  ASSUME NEW c, NEW s, Turn(c, s, 0, 0), Decoding(c.st[s], s),
         NEW left \in 0..(c.st[s].pending + c.st[s].probe), NEW data \in 0..c.st[s].out
  PROVE  LET d == Decoded(c, s, left, data) IN
         /\ Turn(d, s, 0, 0) /\ StreamTypes(d.st[s]) /\ Opened(d.st[s], s) /\ Tells(d.st[s]) /\ Fresh(d.st[s])
         /\ d.st[s].out = data /\ d.st[s].phase = c.st[s].phase
<1> DEFINE o == c.st[s]
           spare == o.out - data
           taken == o.pending + o.probe - left
           kept == IF o.phase = "error" THEN o.copy ELSE o.copy - spare
           back == taken + (IF o.phase = "error" THEN spare ELSE 2 * spare)
           empty == s \in Compressed /\ data = o.out /\ left = 0
           x == IF data = 0 THEN 1 ELSE 0
           r == [o EXCEPT !.pending = left, !.probe = 0, !.raw = o.raw - taken, !.out = data, !.copy = kept, !.drain = empty]
           d == Return(Put(c, s, r), x, back)
<1>1. /\ o.raw \in Nat /\ o.copy \in Nat /\ o.primed \in Nat /\ o.out \in Nat /\ o.out > 0 /\ o.pending \in Nat /\ o.probe \in Nat
      /\ (o.phase # "error" => o.copy >= o.out) /\ o.raw >= o.pending + o.probe
      /\ StreamTypes(o) /\ Opened(o, s) /\ Tells(o) /\ Fresh(o)
  BY DEF StreamTypes, Decoding, Opened
<1>2. left \in Nat /\ data \in Nat /\ data <= o.out /\ left <= o.pending + o.probe
  BY <1>1
<1>3. Decoded(c, s, left, data) = d
  BY DEF Decoded
<1> HIDE DEF o
<1>4. spare \in Nat /\ taken \in Nat /\ o.raw - taken \in Nat /\ o.raw - taken >= left /\ spare + data = o.out
  BY <1>1, <1>2
<1>5. kept \in Nat /\ back \in Nat /\ (o.raw - taken) + kept + back + data = o.raw + o.copy + o.out
  <2> HIDE DEF spare, taken
  <2>1. CASE o.phase = "error"
    BY <1>1, <1>2, <1>4, <2>1
  <2>2. CASE o.phase # "error"
    <3>1. kept = o.copy - spare /\ back = taken + 2 * spare
      BY <2>2
    <3>2. o.copy >= spare
      BY <1>1, <1>2, <1>4, <2>2
    <3> QED BY <1>1, <1>2, <1>4, <3>1, <3>2
  <2> QED BY <2>1, <2>2
<1>6. (empty => s \in Compressed) /\ empty \in BOOLEAN /\ x \in Int /\ (data = 0 => x = 1) /\ (data # 0 => x = 0)
  OBVIOUS
<1> DEFINE raw == o.raw - taken
<1> HIDE DEF spare, taken, kept, back, empty, x, raw
<1>7. r = [o EXCEPT !.pending = left, !.probe = 0, !.raw = raw, !.out = data, !.copy = kept, !.drain = empty] /\ raw \in Nat
  BY <1>4 DEF raw
<1>8. /\ r.raw = raw /\ r.copy = kept /\ r.primed = o.primed /\ r.out = data /\ r.phase = o.phase
      /\ r.pending = left /\ r.probe = 0 /\ r.drain = empty
      /\ r.opened = o.opened /\ r.exits = o.exits /\ r.callbacks = o.callbacks
  BY <1>1, <1>7 DEF StreamTypes, StreamFields
<1>9. Tells(r) /\ Fresh(r)
  BY <1>1, <1>7 DEF Tells, Fresh, StreamTypes, StreamFields
<1>10. StreamTypes(r)
  <2> DEFINE m == [o EXCEPT !.pending = left, !.probe = 0, !.raw = raw]
  <2>1. StreamTypes(m)
    BY <1>1, <1>2, <1>7 DEF StreamTypes, StreamFields
  <2>2. r = [m EXCEPT !.out = data, !.copy = kept, !.drain = empty]
    BY <1>7
  <2> HIDE DEF m, r
  <2> QED BY <1>2, <1>5, <1>6, <2>1, <2>2 DEF StreamTypes, StreamFields
<1> HIDE DEF r
<1>11. Opened(r, s)
  <2>1. r.raw >= r.pending + r.probe
    BY <1>2, <1>4, <1>8 DEF raw
  <2> QED BY <2>1, <1>1, <1>6, <1>8 DEF Opened
<1>12. Holds(o) = Holds(r) + back
  <2>1. Holds(o) = o.raw + o.copy + o.primed + o.out
    BY DEF Holds
  <2>2. Holds(r) = raw + kept + o.primed + data
    BY <1>8 DEF Holds
  <2>3. raw + kept + back + data = o.raw + o.copy + o.out
    BY <1>5 DEF raw
  <2> QED BY <1>1, <1>2, <1>5, <1>7, <2>1, <2>2, <2>3
<1>13. ItemOf(o) = ItemOf(r) + x
  BY <1>1, <1>2, <1>6, <1>8 DEF ItemOf
<1>14. Turn(d, s, 0, 0) /\ d.st[s] = r
  BY <1>5, <1>6, <1>10, <1>12, <1>13, GiveTurn DEF o
<1> HIDE DEF d
<1> QED BY <1>3, <1>8, <1>9, <1>10, <1>11, <1>14 DEF o

\* What the inspection finds changes only what is known of the answer.
LEMMA InspectTurn ==
  ASSUME NEW c, NEW s, Turn(c, s, 0, 0), Opened(c.st[s], s), Tells(c.st[s]), Fresh(c.st[s]), NEW found \in Findings
  PROVE  LET d == Inspect(c, s, found)
             o == c.st[s] IN
         /\ Turn(d, s, 0, 0) /\ StreamTypes(d.st[s]) /\ Opened(d.st[s], s) /\ Tells(d.st[s]) /\ d.st[s].sent = o.sent /\ o.sent # "done"
         /\ d.st[s].out = o.out /\ d.st[s].phase = o.phase /\ d.st[s].primed = o.primed
         /\ o.phase = "forward" => ~ (d.st[s].bad /\ d.st[s].done)
<1> DEFINE o == c.st[s]
           content == o.content \/ found = "content"
           finish == o.finish \/ found = "finish"
           done == o.done \/ found = "done"
           bad == o.bad \/ found \in {"error", "framing"} \/ (found = "done" /\ ~o.content)
           r == [o EXCEPT !.content = content, !.finish = finish, !.done = done, !.bad = bad]
<1>1. StreamTypes(o) /\ Opened(o, s) /\ Tells(o) /\ Fresh(o)
  BY TurnTypes
<1>2. Inspect(c, s, found) = Put(c, s, r)
  BY DEF Inspect
<1> HIDE DEF o
<1>3. content \in BOOLEAN /\ finish \in BOOLEAN /\ done \in BOOLEAN /\ bad \in BOOLEAN
  BY <1>1 DEF StreamTypes
<1>4. /\ (o.content => content)
      /\ (done => content \/ bad)
      /\ (o.phase = "forward" => ~ (bad /\ done))
  BY <1>1 DEF Tells, Fresh, StreamTypes
<1> HIDE DEF content, finish, done, bad
<1>5. /\ StreamTypes(r) /\ r.raw = o.raw /\ r.copy = o.copy /\ r.primed = o.primed /\ r.out = o.out /\ r.sent = o.sent
      /\ r.phase = o.phase /\ r.result = o.result /\ r.content = content /\ r.finish = finish /\ r.done = done /\ r.bad = bad
  BY <1>1, <1>3 DEF StreamTypes, StreamFields
<1>6. Opened(r, s)
  BY <1>1 DEF Opened, StreamTypes, StreamFields
<1> HIDE DEF r
<1>7. Tells(r) /\ o.sent # "done"
  BY <1>1, <1>4, <1>5 DEF Tells, Fresh
<1>8. Turn(Put(c, s, r), s, 0, 0) /\ Put(c, s, r).st[s] = r
  BY <1>1, <1>5, SameTurn DEF o, Holds
<1> QED BY <1>2, <1>4, <1>5, <1>6, <1>7, <1>8 DEF o

\* Part of the framer's copy goes back.
LEMMA CopyTurn ==
  ASSUME NEW c, NEW s, Turn(c, s, 0, 0), Opened(c.st[s], s), Tells(c.st[s]), Fresh(c.st[s]), NEW k \in 0..c.st[s].copy,
         NEW left, left = c.st[s].copy - k
  PROVE  LET d == Return(Put(c, s, [c.st[s] EXCEPT !.copy = left]), 0, k)
             o == c.st[s] IN
         /\ Turn(d, s, 0, 0) /\ Opened(d.st[s], s) /\ Tells(d.st[s]) /\ Fresh(d.st[s])
         /\ d.st[s].out = o.out /\ d.st[s].phase = o.phase /\ d.st[s].primed = o.primed
<1> DEFINE o == c.st[s]
           r == [o EXCEPT !.copy = left]
<1>1. StreamTypes(o) /\ Opened(o, s) /\ Tells(o) /\ Fresh(o)
  BY TurnTypes
<1>2. o.copy \in Nat /\ k \in Nat /\ left \in Nat /\ left + k = o.copy /\ o.raw \in Nat /\ o.primed \in Nat /\ o.out \in Nat
  BY <1>1 DEF StreamTypes
<1> HIDE DEF o
<1>3. /\ StreamTypes(r) /\ r.raw = o.raw /\ r.copy = left /\ r.primed = o.primed /\ r.out = o.out /\ r.phase = o.phase
      /\ Opened(r, s) /\ Tells(r) /\ Fresh(r)
  BY <1>1, <1>2 DEF StreamTypes, StreamFields, Opened, Tells, Fresh
<1> HIDE DEF r
<1>4. Holds(o) = Holds(r) + k /\ ItemOf(o) = ItemOf(r) + 0
  BY <1>2, <1>3 DEF Holds, ItemOf
<1>5. Turn(Return(Put(c, s, r), 0, k), s, 0, 0) /\ Return(Put(c, s, r), 0, k).st[s] = r
  BY <1>2, <1>3, <1>4, GiveTurn DEF o
<1> QED BY <1>3, <1>5 DEF r, o

\* The output, inspected, is dropped or kept for the client.
LEMMA OutputTurn ==
  ASSUME NEW c, NEW s, Turn(c, s, 0, 0), c.st[s].out > 0, NEW new, StreamTypes(new), new.raw = c.st[s].raw,
         new.copy = c.st[s].copy, new.out = 0, NEW y, y = c.st[s].out + c.st[s].primed - new.primed, y \in Nat
  PROVE  Turn(Return(Put(c, s, new), 1, y), s, 0, 0) /\ Return(Put(c, s, new), 1, y).st[s] = new
<1> DEFINE o == c.st[s]
<1>1. StreamTypes(o)
  BY TurnTypes
<1>2. /\ o.raw \in Nat /\ o.copy \in Nat /\ o.primed \in Nat /\ o.out \in Nat /\ new.primed \in Nat /\ o.out > 0
      /\ new.raw = o.raw /\ new.copy = o.copy /\ new.out = 0 /\ y = o.out + o.primed - new.primed
  BY <1>1 DEF StreamTypes
<1> HIDE DEF o
<1>3. Holds(o) = Holds(new) + y /\ ItemOf(o) = ItemOf(new) + 1
  BY <1>2 DEF Holds, ItemOf
<1> QED BY <1>3, GiveTurn DEF o

\* A piece of the body of an HTTP error.
LEMMA ErrorBodyKeeps ==
  ASSUME NEW c, NEW s, Turn(c, s, 0, 0), Opened(c.st[s], s), Tells(c.st[s]), Fresh(c.st[s]), c.st[s].out > 0
  PROVE  StreamsInv(ErrorBody(c, s))
<1> DEFINE o == c.st[s]
           r == [o EXCEPT !.out = 0, !.read = TRUE]
           d == Return(Put(c, s, r), 1, o.out)
<1>1. StreamTypes(o) /\ Opened(o, s) /\ Tells(o) /\ Fresh(o) /\ o.out \in Nat /\ o.primed \in Nat
  BY TurnTypes DEF StreamTypes
<1> HIDE DEF o
<1>2. /\ StreamTypes(r) /\ r.raw = o.raw /\ r.copy = o.copy /\ r.out = 0 /\ r.primed = o.primed /\ Reading(r, s)
  BY <1>1 DEF StreamTypes, StreamFields, Opened, Tells, Fresh, Reading
<1> HIDE DEF r
<1>3. o.out = o.out + o.primed - r.primed
  BY <1>1, <1>2
<1>4. Turn(d, s, 0, 0) /\ d.st[s] = r
  BY <1>1, <1>2, <1>3, OutputTurn DEF o
<1>5. ErrorBody(c, s) = StartRead(d, s)
  BY DEF ErrorBody, r, o
<1> HIDE DEF d
<1> QED BY <1>2, <1>4, <1>5, StartReadKeeps

\* One turn of the priming loop.
LEMMA PrimeTurnKeeps ==
  ASSUME NEW c, NEW s, Turn(c, s, 0, 0), Opened(c.st[s], s), Tells(c.st[s]), c.st[s].sent # "done", c.st[s].out > 0,
         c.st[s].phase = "prime"
  PROVE  StreamsInv(PrimeTurn(c, s))
<1> DEFINE o == c.st[s]
           r == [o EXCEPT !.out = 0]
           d == Return(Put(c, s, r), 1, o.out)
           q == [o EXCEPT !.out = 0, !.primed = o.primed + o.out]
           e == Return(Put(c, s, q), 1, 0)
<1>1. /\ StreamTypes(o) /\ Opened(o, s) /\ Tells(o) /\ o.sent # "done" /\ o.phase = "prime" /\ o.out \in Nat /\ o.primed \in Nat
      /\ o.out > 0 /\ Fresh(o) /\ o.primed + o.out \in Nat
  BY TurnTypes DEF StreamTypes, Fresh
<1> HIDE DEF o
<1>2. StreamTypes(r) /\ r.raw = o.raw /\ r.copy = o.copy /\ r.out = 0 /\ r.primed = o.primed /\ r.phase = "prime" /\ Reading(r, s)
  BY <1>1 DEF StreamTypes, StreamFields, Opened, Tells, Fresh, Reading
<1>3. /\ StreamTypes(q) /\ q.raw = o.raw /\ q.copy = o.copy /\ q.out = 0 /\ q.primed = o.primed + o.out /\ Reading(q, s)
      /\ q.phase = "prime" /\ q.content = o.content /\ q.done = o.done /\ q.bad = o.bad
  BY <1>1 DEF StreamTypes, StreamFields, Opened, Tells, Fresh, Reading
<1> HIDE DEF r, q
<1>4. Turn(d, s, 0, 0) /\ d.st[s] = r
  <2>1. o.out = o.out + o.primed - r.primed
    BY <1>1, <1>2
  <2> QED BY <2>1, <1>1, <1>2, OutputTurn DEF o
<1>5. Turn(e, s, 0, 0) /\ e.st[s] = q
  <2>1. 0 = o.out + o.primed - q.primed
    BY <1>1, <1>3
  <2> QED BY <2>1, <1>1, <1>3, OutputTurn DEF o
<1>6. PrimeTurn(c, s) = IF o.bad THEN Fail(d, s, "error") ELSE IF ~(o.content \/ o.done) THEN StartRead(e, s) ELSE Moved(e, s, "handoff")
  BY DEF PrimeTurn, r, q, o
<1> HIDE DEF d, e
<1>7. StreamsInv(Fail(d, s, "error"))
  BY <1>2, <1>4, FailKeeps DEF Reading
<1>8. StreamsInv(StartRead(e, s))
  BY <1>3, <1>5, StartReadKeeps
<1>9. ASSUME ~o.bad, o.content \/ o.done PROVE StreamsInv(Moved(e, s, "handoff"))
  <2> DEFINE h == [q EXCEPT !.pc = "handoff"]
  <2>1. /\ StreamTypes(h) /\ h.out = q.out /\ Holds(h) = Holds(q) /\ h.pc = "handoff" /\ h.out = 0 /\ Opened(h, s) /\ Tells(h)
        /\ h.sent # "done" /\ h.content = q.content /\ h.bad = q.bad /\ h.phase = "prime"
    BY <1>3 DEF StreamTypes, StreamFields, Opened, Tells, Fresh, Reading, Holds
  <2> HIDE DEF h
  <2>2. h.content /\ ~h.bad
    BY <1>1, <1>3, <1>9, <2>1 DEF Tells
  <2>3. StreamOK(h, s, FALSE)
    BY <2>1, <2>2 DEF StreamOK, Waits
  <2>4. Moved(e, s, "handoff") = Put(e, s, h)
    BY <1>5 DEF Moved, h
  <2> QED BY <1>5, <2>1, <2>3, <2>4, SameEnds
<1> QED BY <1>6, <1>7, <1>8, <1>9

\* A piece is decoded, inspected, and sent, kept or dropped.
LEMMA DecodePieceKeeps ==
  ASSUME StreamsInv(us), NEW s \in Upstreams, DecodePiece(s) PROVE StreamsInv(us')
<1> DEFINE o == us.st[s]
<1>1. Turn(us, s, 0, 0) /\ StreamTypes(o) /\ StreamOK(o, s, FALSE) /\ o.pc = "decode"
  BY AwakeTurn DEF DecodePiece, Waits
<1> HIDE DEF o
<1>2. Decoding(o, s) /\ Opened(o, s) /\ Tells(o) /\ Fresh(o) /\ o.out \in Nat /\ o.pending \in Nat /\ o.probe \in Nat /\ o.raw \in Nat
  BY <1>1 DEF StreamOK, Decoding, StreamTypes
<1>3. ASSUME s \in Compressed, o.pending = 1, us' = StartRead(Probed(us, s), s) PROVE StreamsInv(us')
  <2> DEFINE st == [o EXCEPT !.pending = 0, !.probe = 1]
             d == Unused(us, s, st)
  <2>0. o.raw >= 1
    BY <1>2, <1>3 DEF Opened
  <2>1. /\ StreamTypes(st) /\ Tells(st) /\ Fresh(st) /\ st.raw = o.raw /\ st.copy = o.copy
        /\ st.primed = o.primed /\ st.out = o.out /\ st.phase = o.phase
    BY <1>1, <1>2 DEF StreamTypes, StreamFields, Tells, Fresh
  <2>2. Opened(st, s)
    BY <1>1, <1>2, <2>0 DEF StreamTypes, StreamFields, Opened
  <2> HIDE DEF st
  <2>3. Turn(d, s, 0, 0) /\ Reading(d.st[s], s)
    BY <1>1, <1>2, <2>1, <2>2, UnusedTurn DEF o
  <2>4. us' = StartRead(d, s)
    BY <1>3 DEF Probed, st, o
  <2> HIDE DEF d
  <2> QED BY <2>3, <2>4, StartReadKeeps
<1>4. ASSUME us' = StartRead(Decoded(us, s, 0, 0), s) PROVE StreamsInv(us')
  <2> DEFINE d == Decoded(us, s, 0, 0)
  <2>0. 0 \in 0..(o.pending + o.probe) /\ 0 \in 0..o.out
    BY <1>2
  <2>1. Turn(d, s, 0, 0) /\ Opened(d.st[s], s) /\ Tells(d.st[s]) /\ Fresh(d.st[s]) /\ d.st[s].out = 0
    BY <1>1, <1>2, <2>0, DecodedTurn DEF o
  <2> HIDE DEF d
  <2>2. StreamsInv(StartRead(d, s))
    BY <2>1, StartReadKeeps DEF Reading
  <2> QED BY <1>4, <2>2 DEF d
<1>5. ASSUME NEW left \in 0..(o.pending + o.probe), NEW data \in 1..o.out,
             \/ o.phase = "error" /\ us' = ErrorBody(Decoded(us, s, left, data), s)
             \/ /\ o.phase # "error"
                /\ \E found \in Findings, k \in 0..Decoded(us, s, left, data).st[s].copy :
                     LET c == Decoded(us, s, left, data)
                         seen == Inspect(Return(Put(c, s, [c.st[s] EXCEPT !.copy = c.st[s].copy - k]), 0, k), s, found) IN
                     us' = IF o.phase = "prime" THEN PrimeTurn(seen, s) ELSE Moved(seen, s, "send")
      PROVE  StreamsInv(us')
  <2> DEFINE c == Decoded(us, s, left, data)
  <2>0. data \in 0..o.out /\ data > 0
    BY <1>2
  <2>1. /\ Turn(c, s, 0, 0) /\ Opened(c.st[s], s) /\ Tells(c.st[s]) /\ Fresh(c.st[s]) /\ c.st[s].out > 0 /\ c.st[s].phase = o.phase
    BY <1>1, <1>2, <2>0, DecodedTurn DEF o
  <2> HIDE DEF c
  <2>2. StreamsInv(ErrorBody(c, s))
    BY <2>1, ErrorBodyKeeps
  <2>3. ASSUME NEW found \in Findings, NEW k \in 0..c.st[s].copy, o.phase # "error",
               LET seen == Inspect(Return(Put(c, s, [c.st[s] EXCEPT !.copy = c.st[s].copy - k]), 0, k), s, found) IN
               us' = IF o.phase = "prime" THEN PrimeTurn(seen, s) ELSE Moved(seen, s, "send")
        PROVE  StreamsInv(us')
    <3> DEFINE left2 == c.st[s].copy - k
               d == Return(Put(c, s, [c.st[s] EXCEPT !.copy = left2]), 0, k)
               e == Inspect(d, s, found)
               p == e.st[s]
               r == [p EXCEPT !.pc = "send"]
    <3>1. /\ Turn(d, s, 0, 0) /\ Opened(d.st[s], s) /\ Tells(d.st[s]) /\ Fresh(d.st[s]) /\ d.st[s].out > 0 /\ d.st[s].phase = o.phase
      <4> HIDE DEF left2
      <4>1. left2 = c.st[s].copy - k
        BY DEF left2
      <4> QED BY <2>1, <4>1, CopyTurn
    <3>2. us' = IF o.phase = "prime" THEN PrimeTurn(e, s) ELSE Moved(e, s, "send")
      BY <2>3
    <3> HIDE DEF d
    <3>3. /\ Turn(e, s, 0, 0) /\ StreamTypes(p) /\ Opened(p, s) /\ Tells(p) /\ p.sent # "done"
          /\ p.out > 0 /\ p.phase = o.phase /\ (o.phase = "forward" => ~ (p.bad /\ p.done))
      BY <3>1, InspectTurn
    <3> HIDE DEF e
    <3>4. CASE o.phase = "prime"
      BY <3>2, <3>3, <3>4, PrimeTurnKeeps
    <3>5. CASE o.phase # "prime"
      <4>0. o.phase = "forward"
        BY <1>1, <2>3, <3>5 DEF StreamTypes
      <4> HIDE DEF p
      <4>1. /\ StreamTypes(r) /\ r.out = p.out /\ Holds(r) = Holds(p) /\ r.pc = "send" /\ Opened(r, s) /\ Tells(r)
            /\ r.sent # "done" /\ r.phase = p.phase /\ r.bad = p.bad /\ r.done = p.done
        BY <3>3 DEF StreamTypes, StreamFields, Opened, Tells, Holds
      <4> HIDE DEF r
      <4>2. StreamOK(r, s, FALSE)
        BY <3>3, <4>0, <4>1 DEF StreamOK, Waits
      <4>3. us' = Put(e, s, r)
        BY <3>2, <3>5 DEF Moved, r, p
      <4> QED BY <3>3, <4>1, <4>2, <4>3, SameEnds DEF p
    <3> QED BY <3>4, <3>5
  <2> QED BY <1>5, <2>2, <2>3 DEF c
<1>6. ASSUME us' = Fail(Unused(us, s, o), s, IF o.phase = "forward" THEN "stream" ELSE "error") PROVE StreamsInv(us')
  <2> DEFINE d == Unused(us, s, o)
             result == IF o.phase = "forward" THEN "stream" ELSE "error"
  <2>1. Turn(d, s, 0, 0) /\ Reading(d.st[s], s) /\ d.st[s].phase = o.phase
    BY <1>1, <1>2, UnusedTurn DEF o
  <2>2. result \in {"error", "local", "raised", "stream"} /\ (d.st[s].phase = "forward" => result = "stream")
    BY <2>1
  <2> HIDE DEF d, result
  <2> QED BY <1>6, <2>1, <2>2, FailKeeps DEF Reading, d, result
<1>7. \/ s \in Compressed /\ o.pending = 1 /\ us' = StartRead(Probed(us, s), s)
      \/ us' = StartRead(Decoded(us, s, 0, 0), s)
      \/ \E left \in 0..(o.pending + o.probe), data \in 1..o.out :
             \/ o.phase = "error" /\ us' = ErrorBody(Decoded(us, s, left, data), s)
             \/ /\ o.phase # "error"
                /\ \E found \in Findings, k \in 0..Decoded(us, s, left, data).st[s].copy :
                     LET c == Decoded(us, s, left, data)
                         seen == Inspect(Return(Put(c, s, [c.st[s] EXCEPT !.copy = c.st[s].copy - k]), 0, k), s, found) IN
                     us' = IF o.phase = "prime" THEN PrimeTurn(seen, s) ELSE Moved(seen, s, "send")
      \/ us' = Fail(Unused(us, s, o), s, IF o.phase = "forward" THEN "stream" ELSE "error")
  <2>1. 0 \in 0..(o.pending + o.probe) /\ o.out \in 1..o.out
    BY <1>2, <1>1 DEF Decoding
  <2> QED BY <2>1 DEF DecodePiece, o
<1> QED BY <1>3, <1>4, <1>5, <1>6, <1>7

\* The body has ended: the framer's copy is read to its end and goes back.
LEMMA ToldTurn ==
  ASSUME NEW c, NEW s, Turn(c, s, 0, 0), Reading(c.st[s], s), NEW found \in Findings
  PROVE  LET d == Inspect(Return(Put(c, s, [c.st[s] EXCEPT !.copy = 0]), 0, c.st[s].copy), s, found) IN
         /\ Turn(d, s, 0, 0) /\ StreamTypes(d.st[s]) /\ Opened(d.st[s], s) /\ Tells(d.st[s])
         /\ d.st[s].sent # "done" /\ d.st[s].out = 0 /\ d.st[s].phase = c.st[s].phase
<1> DEFINE o == c.st[s]
           zero == 0
           k == o.copy
           e == Return(Put(c, s, [c.st[s] EXCEPT !.copy = zero]), 0, k)
<1>1. StreamTypes(o) /\ Opened(o, s) /\ Tells(o) /\ Fresh(o) /\ o.out = 0 /\ o.copy \in Nat
  BY TurnTypes DEF Reading, StreamTypes
<1>2. k \in 0..c.st[s].copy /\ zero = c.st[s].copy - k
  BY <1>1
<1> HIDE DEF zero, k
<1>3. /\ Turn(e, s, 0, 0) /\ Opened(e.st[s], s) /\ Tells(e.st[s]) /\ Fresh(e.st[s])
      /\ e.st[s].out = 0 /\ e.st[s].phase = c.st[s].phase
  BY <1>1, <1>2, CopyTurn
<1> DEFINE d == Inspect(e, s, found)
<1> HIDE DEF e
<1>4. /\ Turn(d, s, 0, 0) /\ StreamTypes(d.st[s]) /\ Opened(d.st[s], s) /\ Tells(d.st[s])
      /\ d.st[s].sent # "done" /\ d.st[s].out = 0 /\ d.st[s].phase = c.st[s].phase
  BY <1>3, InspectTurn
<1> QED BY <1>4 DEF e, zero, k

\* A stream without output that reads no further.
LEMMA MovedKeeps ==
  ASSUME NEW c, NEW s, Turn(c, s, 0, 0), Opened(c.st[s], s), Tells(c.st[s]), c.st[s].out = 0, NEW pc,
         \/ pc = "handoff" /\ c.st[s].content /\ ~c.st[s].bad /\ c.st[s].sent # "done"
         \/ pc = "tail" /\ c.st[s].phase = "forward"
         \/ pc = "closing"
  PROVE  StreamsInv(Moved(c, s, pc))
<1> DEFINE o == c.st[s]
           r == [o EXCEPT !.pc = pc]
<1>1. StreamTypes(o) /\ Opened(o, s) /\ Tells(o) /\ o.out = 0 /\ pc \in {"handoff", "tail", "closing"}
  BY TurnTypes
<1> HIDE DEF o
<1>2. /\ StreamTypes(r) /\ r.out = o.out /\ Holds(r) = Holds(o) /\ r.pc = pc /\ Opened(r, s) /\ Tells(r)
      /\ r.content = o.content /\ r.bad = o.bad /\ r.sent = o.sent /\ r.phase = o.phase
  <2>1. StreamTypes(r) /\ r.pc = pc /\ Opened(r, s)
    BY <1>1 DEF StreamTypes, StreamFields, Opened
  <2>2. r.out = o.out /\ Holds(r) = Holds(o) /\ Tells(r)
    BY <1>1 DEF StreamTypes, StreamFields, Holds, Tells
  <2>3. r.content = o.content /\ r.bad = o.bad /\ r.sent = o.sent /\ r.phase = o.phase
    BY <1>1 DEF StreamTypes, StreamFields
  <2> QED BY <2>1, <2>2, <2>3
<1> HIDE DEF r
<1>3. StreamOK(r, s, FALSE)
  BY <1>1, <1>2 DEF StreamOK, Waits, o
<1>4. Moved(c, s, pc) = Put(c, s, r)
  BY DEF Moved, r, o
<1> QED BY <1>2, <1>3, <1>4, SameEnds DEF o

\* The verdict at the end of the body.
LEMMA EndOfBodyKeeps ==
  ASSUME StreamsInv(us), NEW s \in Upstreams, EndOfBody(s) PROVE StreamsInv(us')
<1> DEFINE o == us.st[s]
           Told(found) == Inspect(Return(Put(us, s, [o EXCEPT !.copy = 0]), 0, o.copy), s, found)
<1>1. Turn(us, s, 0, 0) /\ StreamTypes(o) /\ StreamOK(o, s, FALSE) /\ o.pc = "eof"
  BY AwakeTurn DEF EndOfBody, Waits
<1>2. Reading(o, s) /\ Opened(o, s) /\ Tells(o)
  BY <1>1 DEF StreamOK, Reading, Waits
<1>3. ASSUME o.phase = "error", us' = Fail(us, s, "error") PROVE StreamsInv(us')
  BY <1>1, <1>2, <1>3, FailKeeps
<1>4. ASSUME NEW found \in Findings, o.phase = "prime",
             us' = IF Told(found).st[s].bad \/ Told(found).st[s].primed = 0 \/ ~Told(found).st[s].content THEN Fail(Told(found), s, "error")
                   ELSE Moved(Told(found), s, "handoff")
      PROVE  StreamsInv(us')
  <2> DEFINE d == Told(found)
  <2>1. /\ Turn(d, s, 0, 0) /\ Opened(d.st[s], s) /\ Tells(d.st[s])
        /\ d.st[s].sent # "done" /\ d.st[s].out = 0 /\ d.st[s].phase = "prime"
    BY <1>1, <1>2, <1>4, ToldTurn
  <2>2. us' = IF d.st[s].bad \/ d.st[s].primed = 0 \/ ~d.st[s].content THEN Fail(d, s, "error") ELSE Moved(d, s, "handoff")
    BY <1>4
  <2> HIDE DEF d, o
  <2>3. StreamsInv(Fail(d, s, "error"))
    BY <2>1, FailKeeps
  <2>4. ASSUME ~d.st[s].bad, d.st[s].content PROVE StreamsInv(Moved(d, s, "handoff"))
    BY <2>1, <2>4, MovedKeeps
  <2> QED BY <2>2, <2>3, <2>4
<1>5. ASSUME NEW found \in Findings, o.phase = "forward", us' = Moved(Told(found), s, "tail") PROVE StreamsInv(us')
  <2> DEFINE d == Told(found)
  <2>1. Turn(d, s, 0, 0) /\ Opened(d.st[s], s) /\ Tells(d.st[s]) /\ d.st[s].out = 0 /\ d.st[s].phase = "forward"
    BY <1>1, <1>2, <1>5, ToldTurn
  <2>2. us' = Moved(d, s, "tail")
    BY <1>5
  <2> HIDE DEF d, o
  <2> QED BY <2>1, <2>2, MovedKeeps
<1>6. \/ o.phase = "error" /\ us' = Fail(us, s, "error")
      \/ \E found \in Findings :
           /\ o.phase = "prime"
           /\ us' = IF Told(found).st[s].bad \/ Told(found).st[s].primed = 0 \/ ~Told(found).st[s].content THEN Fail(Told(found), s, "error")
                    ELSE Moved(Told(found), s, "handoff")
      \/ \E found \in Findings : o.phase = "forward" /\ us' = Moved(Told(found), s, "tail")
  <2>1. (IF o.copy = 0 THEN {"nothing"} ELSE Findings) \subseteq Findings
    BY DEF Findings
  <2> QED BY <2>1 DEF EndOfBody
<1> QED BY <1>3, <1>4, <1>5, <1>6

\* The response takes over the owner.
LEMMA HandOffKeeps ==
  ASSUME StreamsInv(us), NEW s \in Upstreams, HandOff(s) PROVE StreamsInv(us')
<1> DEFINE o == us.st[s]
           r == [o EXCEPT !.pc = "begin", !.phase = "forward", !.result = "stream"]
<1>1. Turn(us, s, 0, 0) /\ StreamTypes(o) /\ StreamOK(o, s, FALSE) /\ o.pc = "handoff" /\ us' = Put(us, s, r)
  BY AwakeTurn DEF HandOff, Waits
<1> HIDE DEF o
<1>2. Opened(o, s) /\ Tells(o) /\ o.out = 0 /\ o.content /\ ~o.bad /\ o.sent # "done"
  BY <1>1 DEF StreamOK, Waits
<1>3. /\ StreamTypes(r) /\ r.out = o.out /\ Holds(r) = Holds(o) /\ r.pc = "begin" /\ r.phase = "forward" /\ Opened(r, s)
      /\ r.content = o.content /\ r.bad = o.bad /\ r.sent = o.sent /\ r.result = "stream" /\ r.done = o.done /\ r.finish = o.finish
  BY <1>1, <1>2 DEF StreamTypes, StreamFields, Holds, Opened
<1> HIDE DEF r
<1>4. Tells(r)
  BY <1>2, <1>3 DEF Tells
<1>5. StreamOK(r, s, FALSE)
  BY <1>2, <1>3, <1>4 DEF StreamOK, Waits
<1> QED BY <1>1, <1>3, <1>5, SameEnds DEF o

\* The primed bytes were sent.
LEMMA SendPrimedKeeps ==
  ASSUME StreamsInv(us), NEW s \in Upstreams, SendPrimed(s) PROVE StreamsInv(us')
<1> DEFINE o == us.st[s]
           Sent(what) == Return(Put(us, s, [o EXCEPT !.primed = 0, !.sent = what]), 0, o.primed)
<1>1. Turn(us, s, 0, 0) /\ StreamTypes(o) /\ StreamOK(o, s, FALSE) /\ o.pc = "begin"
  BY AwakeTurn DEF SendPrimed, Waits
<1>2. us' = IF o.done THEN Moved(Sent("done"), s, "closing") ELSE StartRead(Sent("part"), s)
  BY DEF SendPrimed
<1> HIDE DEF o
<1>3. Opened(o, s) /\ Tells(o) /\ o.out = 0 /\ o.content /\ ~o.bad /\ o.phase = "forward" /\ o.primed \in Nat /\ o.raw \in Nat /\ o.copy \in Nat
  BY <1>1 DEF StreamOK, Waits, StreamTypes
<1>4. ASSUME NEW what \in {"part", "done"}, what = "done" => o.done
      PROVE  /\ Turn(Sent(what), s, 0, 0) /\ Opened(Sent(what).st[s], s) /\ Tells(Sent(what).st[s]) /\ Sent(what).st[s].out = 0
             /\ what = "part" /\ ~o.done => Fresh(Sent(what).st[s])
  <2> DEFINE r == [o EXCEPT !.primed = 0, !.sent = what]
             d == Sent(what)
  <2>1. /\ StreamTypes(r) /\ r.out = 0 /\ r.raw = o.raw /\ r.copy = o.copy /\ r.primed = 0 /\ Opened(r, s) /\ r.sent = what
        /\ r.phase = o.phase /\ r.result = o.result /\ r.content = o.content /\ r.bad = o.bad /\ r.done = o.done /\ r.finish = o.finish
    BY <1>1, <1>3 DEF StreamTypes, StreamFields, Opened
  <2> HIDE DEF r
  <2>2. Tells(r)
    BY <1>3, <1>4, <2>1 DEF Tells
  <2>3. what = "part" /\ ~o.done => Fresh(r)
    BY <1>3, <2>1 DEF Fresh
  <2>4. Holds(o) = Holds(r) + o.primed /\ ItemOf(o) = ItemOf(r) + 0
    BY <1>3, <2>1 DEF Holds, ItemOf
  <2>5. Turn(d, s, 0, 0) /\ d.st[s] = r
    <3> DEFINE none == 0
    <3>1. none \in Int /\ o.primed \in Int /\ ItemOf(o) = ItemOf(r) + none
      BY <1>3, <2>4
    <3> HIDE DEF none
    <3>2. Turn(Return(Put(us, s, r), none, o.primed), s, 0, 0) /\ Return(Put(us, s, r), none, o.primed).st[s] = r
      BY <1>1, <2>1, <2>4, <3>1, GiveTurn DEF o
    <3> QED BY <3>2 DEF none, r
  <2> HIDE DEF d
  <2> QED BY <2>1, <2>2, <2>3, <2>5 DEF d
<1> HIDE DEF Sent
<1>5. ASSUME o.done PROVE StreamsInv(Moved(Sent("done"), s, "closing"))
  BY <1>4, <1>5, MovedKeeps
<1>6. ASSUME ~o.done PROVE StreamsInv(StartRead(Sent("part"), s))
  BY <1>4, <1>6, StartReadKeeps DEF Reading
<1> QED BY <1>2, <1>5, <1>6

\* The client took the piece.
LEMMA SendPieceKeeps ==
  ASSUME StreamsInv(us), NEW s \in Upstreams, SendPiece(s) PROVE StreamsInv(us')
<1> DEFINE o == us.st[s]
           what == IF o.done THEN "done" ELSE "part"
           r == [o EXCEPT !.out = 0, !.sent = what]
           d == Return(Put(us, s, r), 1, o.out)
<1>1. Turn(us, s, 0, 0) /\ StreamTypes(o) /\ StreamOK(o, s, FALSE) /\ o.pc = "send"
  BY AwakeTurn DEF SendPiece, Waits
<1>2. us' = IF o.bad \/ o.done THEN Moved(d, s, "tail") ELSE StartRead(d, s)
  BY DEF SendPiece
<1> HIDE DEF o
<1>3. /\ Opened(o, s) /\ Tells(o) /\ o.out > 0 /\ o.out \in Nat /\ ~ (o.bad /\ o.done) /\ o.phase = "forward" /\ o.sent # "done" /\ o.content
      /\ o.primed \in Nat
  BY <1>1 DEF StreamOK, Waits, StreamTypes, Tells
<1>4. what \in {"part", "done"} /\ (o.done <=> what = "done")
  OBVIOUS
<1> HIDE DEF what
<1>5. /\ StreamTypes(r) /\ r.out = 0 /\ r.raw = o.raw /\ r.copy = o.copy /\ r.primed = o.primed /\ Opened(r, s) /\ r.sent = what
      /\ r.phase = o.phase /\ r.result = o.result /\ r.content = o.content /\ r.bad = o.bad /\ r.done = o.done /\ r.finish = o.finish
  BY <1>1, <1>3, <1>4 DEF StreamTypes, StreamFields, Opened
<1> HIDE DEF r
<1>6. Tells(r)
  BY <1>3, <1>4, <1>5 DEF Tells
<1>7. o.out = o.out + o.primed - r.primed
  BY <1>3, <1>5
<1>8. Turn(d, s, 0, 0) /\ d.st[s] = r
  BY <1>1, <1>3, <1>5, <1>7, OutputTurn DEF o
<1> HIDE DEF d
<1>9. StreamsInv(Moved(d, s, "tail"))
  BY <1>3, <1>5, <1>6, <1>8, MovedKeeps
<1>10. ASSUME ~o.bad, ~o.done PROVE StreamsInv(StartRead(d, s))
  <2>1. Reading(r, s)
    BY <1>3, <1>4, <1>5, <1>6, <1>10 DEF Reading, Fresh
  <2> QED BY <1>8, <2>1, StartReadKeeps
<1> QED BY <1>2, <1>9, <1>10

\* The end of the generator.
LEMMA FinishStreamKeeps ==
  ASSUME StreamsInv(us), NEW s \in Upstreams, FinishStream(s) PROVE StreamsInv(us')
<1> DEFINE o == us.st[s]
           what == IF ~o.bad /\ (o.done \/ o.finish) THEN "done" ELSE o.sent
           r == [o EXCEPT !.pc = "closing", !.sent = what]
<1>1. Turn(us, s, 0, 0) /\ StreamTypes(o) /\ StreamOK(o, s, FALSE) /\ o.pc = "tail" /\ us' = Put(us, s, r)
  BY AwakeTurn DEF FinishStream, Waits
<1> HIDE DEF o
<1>2. Opened(o, s) /\ Tells(o) /\ o.phase = "forward" /\ o.out = 0 /\ o.content
  BY <1>1 DEF StreamOK, Waits, Tells
<1>3. what \in {"nothing", "part", "done"} /\ (what = "done" => o.sent = "done" \/ (~o.bad /\ (o.done \/ o.finish)))
  BY <1>1 DEF StreamTypes
<1> HIDE DEF what
<1>4. /\ StreamTypes(r) /\ r.out = o.out /\ Holds(r) = Holds(o) /\ r.pc = "closing" /\ Opened(r, s) /\ r.sent = what
      /\ r.phase = o.phase /\ r.result = o.result /\ r.content = o.content /\ r.bad = o.bad /\ r.done = o.done /\ r.finish = o.finish
  BY <1>1, <1>2, <1>3 DEF StreamTypes, StreamFields, Holds, Opened
<1> HIDE DEF r
<1>5. Tells(r)
  BY <1>2, <1>3, <1>4 DEF Tells
<1>6. StreamOK(r, s, FALSE)
  BY <1>4, <1>5 DEF StreamOK, Waits
<1> QED BY <1>1, <1>4, <1>6, SameEnds DEF o

\* Nothing was closed yet, or everything was.
Closable(r) == r.exits = 0 \/ (r.exits = 1 /\ Holds(r) = 0)

\* The owner closes: once, and everything the stream has goes back.
LEMMA CloseTurn ==
  ASSUME NEW c, NEW s, Turn(c, s, 0, 0), Tells(c.st[s]), Closable(c.st[s])
  PROVE  LET d == CloseOwner(c, s)
             o == c.st[s] IN
         /\ Turn(d, s, 0, 0) /\ StreamTypes(d.st[s]) /\ Tells(d.st[s]) /\ Holds(d.st[s]) = 0 /\ d.st[s].exits = 1
         /\ d.st[s].opened = o.opened /\ d.st[s].callbacks = o.callbacks /\ d.st[s].result = o.result
<1> DEFINE o == c.st[s]
<1>1. StreamTypes(o) /\ Tells(o) /\ (o.exits = 0 \/ (o.exits = 1 /\ Holds(o) = 0))
  BY TurnTypes DEF Closable
<1>2. CASE o.exits > 0
  <2>1. CloseOwner(c, s) = c
    BY <1>2 DEF CloseOwner
  <2>2. o.exits = 1 /\ Holds(o) = 0
    BY <1>1, <1>2
  <2> QED BY <1>1, <2>1, <2>2
<1>3. CASE ~(o.exits > 0)
  <2> DEFINE x == IF o.out > 0 THEN 1 ELSE 0
             y == o.copy + o.primed + o.out + o.raw
             r == [o EXCEPT !.copy = 0, !.primed = 0, !.out = 0, !.raw = 0, !.pending = 0, !.probe = 0, !.drain = FALSE]
             e == CloseResources(c, s)
             q == [r EXCEPT !.exits = 1]
  <2>0. o.raw \in Nat /\ o.copy \in Nat /\ o.primed \in Nat /\ o.out \in Nat
    BY <1>1 DEF StreamTypes
  <2>1. e = Return(Put(c, s, r), x, y)
    BY DEF CloseResources
  <2>2. CloseOwner(c, s) = Put(e, s, [e.st[s] EXCEPT !.exits = 1])
    BY <1>3 DEF CloseOwner
  <2> HIDE DEF o, e
  <2>3. x \in Int /\ y \in Int /\ ItemOf(o) = x
    BY <2>0 DEF ItemOf
  <2>4. /\ StreamTypes(r) /\ r.raw = 0 /\ r.copy = 0 /\ r.primed = 0 /\ r.out = 0
        /\ r.opened = o.opened /\ r.callbacks = o.callbacks /\ r.result = o.result
    <3> DEFINE m == [o EXCEPT !.copy = 0, !.primed = 0, !.out = 0]
    <3>1. /\ StreamTypes(m) /\ m.copy = 0 /\ m.primed = 0 /\ m.out = 0
          /\ m.opened = o.opened /\ m.callbacks = o.callbacks /\ m.result = o.result
      BY <1>1 DEF StreamTypes, StreamFields
    <3>2. r = [m EXCEPT !.raw = 0, !.pending = 0, !.probe = 0, !.drain = FALSE]
      OBVIOUS
    <3> HIDE DEF m, r
    <3> QED BY <3>1, <3>2 DEF StreamTypes, StreamFields
  <2>5. Tells(r)
    BY <1>1 DEF Tells, StreamTypes, StreamFields
  <2> HIDE DEF r
  <2>6. Holds(r) = 0 /\ ItemOf(r) = 0 /\ Holds(o) = y
    BY <2>0, <2>4 DEF Holds, ItemOf
  <2>7. ItemOf(o) = ItemOf(r) + x /\ Holds(o) = Holds(r) + y
    BY <2>3, <2>6
  <2> HIDE DEF x, y
  <2>8. Turn(e, s, 0, 0) /\ e.st[s] = r
    BY <2>1, <2>3, <2>4, <2>7, GiveTurn DEF o
  <2>9. /\ StreamTypes(q) /\ q.raw = r.raw /\ q.copy = r.copy /\ q.primed = r.primed /\ q.out = r.out /\ q.exits = 1
        /\ q.opened = o.opened /\ q.callbacks = o.callbacks /\ q.result = o.result /\ Tells(q)
    BY <2>4, <2>5 DEF StreamTypes, StreamFields, Tells
  <2> HIDE DEF q
  <2>10. Holds(q) = Holds(r)
    BY <2>9 DEF Holds
  <2>11. Turn(Put(e, s, q), s, 0, 0) /\ Put(e, s, q).st[s] = q
    BY <2>8, <2>9, <2>10, SameTurn
  <2>12. CloseOwner(c, s) = Put(e, s, q)
    BY <2>2, <2>8 DEF q
  <2> QED BY <2>6, <2>9, <2>10, <2>11, <2>12 DEF o
<1> QED BY <1>2, <1>3

\* The owner closes at the end of the attempt or of the generator.
LEMMA CloseAttemptKeeps ==
  ASSUME StreamsInv(us), NEW s \in Upstreams, CloseAttempt(s) PROVE StreamsInv(us')
<1> DEFINE o == us.st[s]
           d == CloseOwner(us, s)
           p == d.st[s]
           pc == IF o.result # "stream" THEN "over" ELSE "response"
           r == [p EXCEPT !.pc = pc]
<1>1. Turn(us, s, 0, 0) /\ StreamTypes(o) /\ StreamOK(o, s, FALSE) /\ o.pc = "closing"
  BY AwakeTurn DEF CloseAttempt, Waits
<1>2. Opened(o, s) /\ Tells(o) /\ o.opened /\ o.exits = 0 /\ o.callbacks = 0 /\ Closable(o)
  BY <1>1 DEF StreamOK, Waits, Opened, Closable
<1>3. /\ Turn(d, s, 0, 0) /\ StreamTypes(p) /\ Tells(p) /\ Holds(p) = 0 /\ p.exits = 1
      /\ p.opened = o.opened /\ p.callbacks = o.callbacks /\ p.result = o.result
  BY <1>1, <1>2, CloseTurn
<1>4. us' = Put(d, s, r)
  BY DEF CloseAttempt, Moved
<1>5. pc \in {"over", "response"} /\ (pc = "over" <=> o.result # "stream")
  OBVIOUS
<1> HIDE DEF pc, o, d
<1>6. StreamTypes(r) /\ r.pc = pc /\ r.exits = 1 /\ r.opened = p.opened /\ r.callbacks = p.callbacks /\ r.result = p.result
  BY <1>3, <1>5 DEF StreamTypes, StreamFields
<1>7. Tells(r) /\ Holds(r) = Holds(p) /\ r.out = p.out
  BY <1>3 DEF StreamTypes, StreamFields, Tells, Holds
<1> HIDE DEF r
<1>8. StreamOK(r, s, FALSE)
  <2>1. CASE pc = "over"
    BY <1>2, <1>3, <1>5, <1>6, <1>7, <2>1 DEF StreamOK, Waits
  <2>2. CASE pc = "response"
    BY <1>2, <1>3, <1>5, <1>6, <1>7, <2>2 DEF StreamOK, Waits
  <2> QED BY <1>5, <2>1, <2>2
<1> QED BY <1>3, <1>4, <1>6, <1>7, <1>8, SameEnds

\* And at the end of the response, at the latest.
LEMMA CloseResponseKeeps ==
  ASSUME StreamsInv(us), NEW s \in Upstreams, CloseResponse(s) PROVE StreamsInv(us')
<1> DEFINE o == us.st[s]
           d == CloseOwner(us, s)
           p == d.st[s]
           n == p.callbacks + 1
           r == [p EXCEPT !.pc = "over", !.callbacks = n]
<1>1. Turn(us, s, 0, 0) /\ StreamTypes(o) /\ StreamOK(o, s, FALSE) /\ o.pc = "response"
  BY AwakeTurn DEF CloseResponse, Waits
<1>2. /\ Tells(o) /\ o.opened /\ o.callbacks = 0 /\ o.result = "stream"
      /\ Closable(o)
  <2>1. /\ Tells(o) /\ o.opened /\ o.callbacks = 0 /\ o.result = "stream"
        /\ o.exits \in 0..1 /\ (o.exits = 1 => Holds(o) = 0)
    BY <1>1 DEF StreamOK
  <2> HIDE DEF o
  <2> QED BY <2>1 DEF Closable
<1>3. /\ Turn(d, s, 0, 0) /\ StreamTypes(p) /\ Tells(p) /\ Holds(p) = 0 /\ p.exits = 1
      /\ p.opened = o.opened /\ p.callbacks = o.callbacks /\ p.result = o.result
  <2>1. Turn(us, s, 0, 0) /\ Tells(us.st[s]) /\ Closable(us.st[s])
    BY <1>1, <1>2
  <2> HIDE DEF r, n
  <2> QED BY <2>1, CloseTurn
<1>4. us' = Put(d, s, r)
  BY DEF CloseResponse
<1>5. n = 1 /\ n \in Nat
  BY <1>2, <1>3
<1> HIDE DEF n, o, d
<1>6. StreamTypes(r) /\ r.pc = "over" /\ r.exits = 1 /\ r.opened = p.opened /\ r.callbacks = 1 /\ r.result = p.result
  BY <1>3, <1>5 DEF StreamTypes, StreamFields
<1>7. Tells(r) /\ Holds(r) = Holds(p) /\ r.out = p.out
  BY <1>3 DEF StreamTypes, StreamFields, Tells, Holds
<1> HIDE DEF r
<1>8. StreamOK(r, s, FALSE)
  BY <1>2, <1>3, <1>6, <1>7 DEF StreamOK, Waits
<1> QED BY <1>3, <1>4, <1>6, <1>7, <1>8, SameEnds

\* The line without s.
LineWithout(q, s) == IF s \in Range(q) THEN RemoveAt(q, CHOOSE i \in DOMAIN q : q[i] = s) ELSE q

\* What Leave does to the line.
LEMMA LeaveLine == ASSUME NEW c, NEW s PROVE Leave(c, s) = [c EXCEPT !.waiters = LineWithout(c.waiters, s)]
BY DEF Leave, LineWithout

\* The cancelled stream gives up its place in the line, or what it was given.
LEMMA QuitTurn ==
  ASSUME StreamsInv(us), NEW s \in Upstreams
  PROVE  LET o == us.st[s]
             r == [o EXCEPT !.want = 0]
             quit == Put(us, s, r)
             d == IF s \in us.granted THEN Return([quit EXCEPT !.granted = @ \ {s}], 1, o.want) ELSE Return(Leave(quit, s), 0, 0) IN
         Turn(d, s, 0, 0) /\ d.st[s] = r
<1> DEFINE o == us.st[s]
           r == [o EXCEPT !.want = 0]
           quit == Put(us, s, r)
<1>1. StreamTypes(o) /\ DOMAIN us = {"st", "used", "waiters", "granted"}
  BY DEF StreamsInv, Shape
<1>2. StreamTypes(r) /\ r.out = o.out /\ Holds(r) = Holds(o)
  BY <1>1 DEF StreamTypes, StreamFields, Holds
<1>3. CASE s \in us.granted
  <2> DEFINE c == [us EXCEPT !.granted = us.granted \ {s}]
             i == 1 + ItemOf(o) - ItemOf(r)
             b == o.want + Holds(o) - Holds(r)
             one == 1
             d == Return(Put(c, s, r), one, o.want)
  <2>1. Turn(c, s, 1, o.want) /\ c.st = us.st
    BY <1>3, ServedTurn
  <2>2. [quit EXCEPT !.granted = quit.granted \ {s}] = Put(c, s, r)
    BY <1>1 DEF Put
  <2>3. Holds(o) \in Nat /\ o.want \in Nat
    BY <1>1, HoldsNat
  <2> HIDE DEF c, o, r, quit
  <2>4. i = one /\ b = o.want /\ one \in Int /\ o.want \in Int
    BY <1>2, <2>3 DEF ItemOf
  <2>5. Turn(Put(c, s, r), s, i, b) /\ Put(c, s, r).st[s] = r
    BY <1>2, <2>1, PutTurn DEF o
  <2> HIDE DEF i, b, one
  <2>6. Turn(Put(c, s, r), s, one, o.want)
    BY <2>4, <2>5
  <2>7. Turn(d, s, one - one, o.want - o.want) /\ d.st[s] = r
    BY <2>4, <2>5, <2>6, ReturnTurn
  <2>8. one - one = 0 /\ o.want - o.want = 0
    BY <2>4
  <2>9. Turn(d, s, 0, 0) /\ d.st[s] = r
    BY <2>7, <2>8, Drift
  <2> QED BY <1>3, <2>2, <2>9 DEF one, o, r, quit
<1>4. CASE s \notin us.granted
  <2> DEFINE c == Leave(us, s)
             none == 0
             d == Return(Put(c, s, r), none, none)
  <2>1. Turn(c, s, 0, 0) /\ c.st = us.st
    BY <1>4, LeaveTurn
  <2>2. Leave(quit, s) = Put(c, s, r)
    <3> DEFINE w == LineWithout(us.waiters, s)
    <3>1. quit.waiters = us.waiters
      BY <1>1 DEF Put
    <3>2. Leave(quit, s) = [quit EXCEPT !.waiters = w] /\ c = [us EXCEPT !.waiters = w]
      BY <3>1, LeaveLine
    <3> HIDE DEF w, c
    <3> QED BY <1>1, <3>2 DEF Put
  <2> HIDE DEF c, o, r, quit
  <2>3. Turn(Put(c, s, r), s, 0, 0) /\ Put(c, s, r).st[s] = r
    BY <1>2, <2>1, SameTurn DEF o
  <2>4. none \in Int /\ 0 - none = 0
    OBVIOUS
  <2> HIDE DEF none
  <2>5. Turn(d, s, 0 - none, 0 - none) /\ d.st[s] = r
    BY <2>3, <2>4, ReturnTurn
  <2>6. Turn(d, s, 0, 0) /\ d.st[s] = r
    BY <2>4, <2>5, Drift
  <2> QED BY <1>4, <2>2, <2>6 DEF none, o, r, quit
<1> QED BY <1>3, <1>4

\* The request is cancelled, or the client leaves.
LEMMA CancelUpstreamKeeps ==
  ASSUME StreamsInv(us), NEW s \in Upstreams, CancelUpstream(s) PROVE StreamsInv(us')
<1> DEFINE o == us.st[s]
           r == [o EXCEPT !.want = 0]
           quit == Put(us, s, r)
           d == IF s \in us.granted THEN Return([quit EXCEPT !.granted = @ \ {s}], 1, o.want) ELSE Return(Leave(quit, s), 0, 0)
<1>1. Turn(d, s, 0, 0) /\ d.st[s] = r
  BY QuitTurn
<1>2. \/ /\ o.pc \in {"rawwait", "copywait", "outwait", "net", "send"}
         /\ us' = Fail(d, s, IF o.phase = "forward" THEN "stream" ELSE "raised")
      \/ o.pc = "begin" /\ us' = Moved(d, s, "response")
      \/ o.pc = "connect" /\ us' = Put(d, s, [d.st[s] EXCEPT !.pc = "over", !.result = "raised"])
  BY DEF CancelUpstream
<1>3. StreamTypes(o) /\ \E lined \in BOOLEAN : StreamOK(o, s, lined)
  <2>1. StreamTypes(o) /\ StreamOK(o, s, s \in Lined(us))
    BY DEF StreamsInv, Shape
  <2>2. (s \in Lined(us)) \in BOOLEAN
    OBVIOUS
  <2> HIDE DEF o
  <2> QED BY <2>1, <2>2
<1> HIDE DEF d, o
<1>4. PICK lined \in BOOLEAN : StreamOK(o, s, lined)
  BY <1>3
<1>5. /\ StreamTypes(r) /\ r.out = o.out /\ Holds(r) = Holds(o) /\ (Opened(o, s) => Opened(r, s)) /\ Tells(r)
      /\ r.phase = o.phase /\ r.opened = o.opened /\ r.exits = o.exits /\ r.callbacks = o.callbacks /\ r.result = o.result
  <2>1. Tells(o)
    BY <1>4 DEF StreamOK
  <2>2. StreamTypes(r) /\ r.out = o.out /\ Holds(r) = Holds(o) /\ (Opened(o, s) => Opened(r, s))
    BY <1>3 DEF StreamTypes, StreamFields, Holds, Opened
  <2> QED BY <1>3, <2>1, <2>2 DEF StreamTypes, StreamFields, Tells
<1> HIDE DEF r
<1>6. ASSUME o.pc \in {"rawwait", "copywait", "outwait", "net", "send"},
             us' = Fail(d, s, IF o.phase = "forward" THEN "stream" ELSE "raised")
      PROVE  StreamsInv(us')
  <2> DEFINE result == IF o.phase = "forward" THEN "stream" ELSE "raised"
  <2>1. Opened(r, s)
    BY <1>4, <1>5, <1>6 DEF StreamOK
  <2>2. result \in {"error", "local", "raised", "stream"} /\ (d.st[s].phase = "forward" => result = "stream")
    BY <1>1, <1>5
  <2> HIDE DEF result
  <2> QED BY <1>1, <1>5, <1>6, <2>1, <2>2, FailKeeps DEF result
<1>7. ASSUME o.pc = "begin", us' = Moved(d, s, "response") PROVE StreamsInv(us')
  <2> DEFINE h == [r EXCEPT !.pc = "response"]
  <2>1. Opened(o, s) /\ Tells(o) /\ o.phase = "forward" /\ o.out = 0
    BY <1>4, <1>7 DEF StreamOK, Waits
  <2>2. o.result = "stream" /\ r.opened /\ r.exits = 0 /\ r.callbacks = 0 /\ r.result = "stream"
    BY <1>5, <2>1 DEF Tells, Opened
  <2>3. /\ StreamTypes(h) /\ h.out = r.out /\ Holds(h) = Holds(r) /\ Tells(h) /\ h.pc = "response"
        /\ h.opened /\ h.exits = 0 /\ h.callbacks = 0 /\ h.result = "stream"
    BY <1>5, <2>2 DEF StreamTypes, StreamFields, Tells, Holds
  <2> HIDE DEF h
  <2>4. StreamOK(h, s, FALSE)
    BY <2>3 DEF StreamOK, Waits
  <2>5. us' = Put(d, s, h)
    BY <1>1, <1>7 DEF Moved, h
  <2> QED BY <1>1, <2>3, <2>4, <2>5, SameEnds
<1>8. ASSUME o.pc = "connect", us' = Put(d, s, [d.st[s] EXCEPT !.pc = "over", !.result = "raised"]) PROVE StreamsInv(us')
  <2> DEFINE h == [r EXCEPT !.pc = "over", !.result = "raised"]
  <2>1. Holds(o) = 0 /\ ~o.opened /\ o.exits = 0 /\ o.callbacks = 0 /\ o.phase # "forward" /\ Tells(o)
    BY <1>4, <1>8 DEF StreamOK
  <2>2. ~r.opened /\ r.exits = 0 /\ r.callbacks = 0 /\ r.phase # "forward"
    BY <1>5, <2>1
  <2>3. /\ StreamTypes(h) /\ h.out = r.out /\ Holds(h) = Holds(r) /\ Tells(h) /\ h.pc = "over"
        /\ ~h.opened /\ h.exits = 0 /\ h.callbacks = 0 /\ h.result = "raised"
    BY <1>5, <2>2 DEF StreamTypes, StreamFields, Tells, Holds
  <2> HIDE DEF h
  <2>4. StreamOK(h, s, FALSE)
    BY <1>5, <2>1, <2>3 DEF StreamOK, Waits
  <2>5. us' = Put(d, s, h)
    BY <1>1, <1>8 DEF h
  <2> QED BY <1>1, <2>3, <2>4, <2>5, SameEnds
<1> QED BY <1>2, <1>6, <1>7, <1>8

\* One step of one stream, or its cancellation.
LEMMA StreamsStep ==
  ASSUME StreamsInv(us), [USNext]_us PROVE StreamsInv(us')
<1>1. ASSUME NEW s \in Upstreams, StreamStep(s) PROVE StreamsInv(us')
  <2>1. \/ Connect(s) \/ ReceiveRaw(s) \/ WakeReader(s) \/ DecodePiece(s) \/ EndOfBody(s) \/ HandOff(s)
        \/ SendPrimed(s) \/ SendPiece(s) \/ FinishStream(s) \/ CloseAttempt(s) \/ CloseResponse(s)
    BY <1>1 DEF StreamStep
  <2> QED BY <2>1, ConnectKeeps, ReceiveRawKeeps, WakeReaderKeeps, DecodePieceKeeps, EndOfBodyKeeps, HandOffKeeps,
             SendPrimedKeeps, SendPieceKeeps, FinishStreamKeeps, CloseAttemptKeeps, CloseResponseKeeps
<1>2. CASE UNCHANGED us
  BY <1>2
<1> QED BY <1>1, <1>2, CancelUpstreamKeeps DEF USNext

\* The streams begin with nothing.
LEMMA StreamsStart == ASSUME USInit PROVE StreamsInv(us)
<1>1. /\ DOMAIN us = {"st", "used", "waiters", "granted"} /\ us.st = [s \in Upstreams |-> NewStream]
      /\ us.used = [items |-> 0, bytes |-> 0] /\ us.waiters = << >> /\ us.granted = {}
  BY DEF USInit
<1>2. StreamTypes(NewStream) /\ Holds(NewStream) = 0 /\ NewStream.out = 0
  BY DEF NewStream, StreamTypes, StreamFields, Holds, Waits
<1>3. Lined(us) = {} /\ Leading(us.waiters, Len(us.waiters)) = {}
  BY <1>1 DEF Lined, Leading
<1>4. Shape(us)
  <2>1. LineOK(us.waiters)
    BY <1>1 DEF LineOK
  <2>2. DOMAIN us.st = Upstreams /\ \A t \in Upstreams : StreamTypes(us.st[t])
    BY <1>1, <1>2
  <2> QED BY <1>1, <1>3, <2>1, <2>2 DEF Shape
<1>5. Over(us, 0, 0)
  <2>1. \A t \in Upstreams : Share(us)[t] = 0
    BY <1>1, <1>2 DEF Share
  <2>2. SumOver(Share(us), Upstreams) = 0
    <3> DEFINE w == Share(us)
    <3>1. \A t \in Upstreams : w[t] \in Nat /\ w[t] = w[t] + w[t]
      BY <2>1
    <3> HIDE DEF w
    <3>2. SumOver(w, Upstreams) = SumOver(w, Upstreams) + SumOver(w, Upstreams) /\ SumOver(w, Upstreams) \in Nat
      BY <3>1, StreamsFinite, SumPlus, SumNat
    <3>3. \A n \in Nat : n = n + n => n = 0
      OBVIOUS
    <3>4. SumOver(w, Upstreams) = 0
      BY <3>2, <3>3, Zenon
    <3> QED BY <3>4 DEF w
  <2>3. ItemHolders(us) = {}
    BY <1>1, <1>2 DEF ItemHolders
  <2>4. Cardinality(ItemHolders(us)) = 0
    BY <2>3, FS_EmptySet
  <2> QED BY <1>1, <2>2, <2>4 DEF Over
<1>6. \A t \in Upstreams : StreamOK(NewStream, t, FALSE)
  BY <1>2 DEF StreamOK, NewStream, Tells, Waits
<1>7. ASSUME NEW t \in Upstreams PROVE StreamOK(us.st[t], t, t \in Lined(us))
  <2>1. us.st[t] = NewStream /\ (t \in Lined(us)) = FALSE
    BY <1>1, <1>3
  <2> QED BY <1>6, <2>1
<1> QED BY <1>4, <1>5, <1>7 DEF StreamsInv

\* What the invariant says of the capacity and of a stream that is over.
LEMMA StreamsReturned == ASSUME StreamsInv(us) PROVE StreamsReturnAll
<1>1. Over(us, 0, 0) /\ Shape(us)
  BY DEF StreamsInv
<1>2. SumOver(Share(us), Upstreams) \in Nat /\ Cardinality(ItemHolders(us)) \in Nat
  BY <1>1, ShareNat
<1>3. us.used.bytes = TotalIn(Share(us), Upstreams)
  BY <1>1, <1>2 DEF Over, TotalIn, SumOver
<1>4. us.used.items = Cardinality(ItemHolders(us))
  BY <1>1, <1>2 DEF Over
<1>5. ASSUME NEW s \in Upstreams, us.st[s].pc = "over"
      PROVE  /\ Holds(us.st[s]) = 0
             /\ us.st[s].exits = (IF us.st[s].opened THEN 1 ELSE 0)
             /\ us.st[s].callbacks = (IF us.st[s].result = "stream" THEN 1 ELSE 0)
  <2>1. StreamOK(us.st[s], s, s \in Lined(us))
    BY DEF StreamsInv
  <2> DEFINE o == us.st[s]
  <2> HIDE DEF o
  <2>2. StreamOK(o, s, s \in Lined(us)) /\ o.pc = "over"
    BY <1>5, <2>1 DEF o
  <2>3. /\ Holds(o) = 0
        /\ o.exits = (IF o.opened THEN 1 ELSE 0)
        /\ o.callbacks = (IF o.result = "stream" THEN 1 ELSE 0)
    BY <2>2 DEF StreamOK
  <2> QED BY <2>3 DEF o
<1> QED BY <1>3, <1>4, <1>5 DEF StreamsReturnAll, Share, ItemHolders

\* And what it says of the answer the client was told of.
LEMMA TruncationTold == ASSUME StreamsInv(us) PROVE TruncationShown
<1>1. ASSUME NEW s \in Upstreams
      PROVE  LET st == us.st[s] IN
             /\ st.sent = "done" => (st.finish \/ st.done) /\ st.content /\ ~st.bad
             /\ st.result \in {"error", "local", "raised"} => st.sent = "nothing"
  <2>1. Tells(us.st[s])
    BY DEF StreamsInv, StreamOK
  <2> DEFINE o == us.st[s]
  <2> HIDE DEF o
  <2>2. Tells(o)
    BY <2>1 DEF o
  <2>3. /\ o.sent = "done" => (o.finish \/ o.done) /\ o.content /\ ~o.bad
        /\ o.result \in {"error", "local", "raised"} => o.sent = "nothing"
    BY <2>2 DEF Tells
  <2> QED BY <2>3 DEF o
<1> QED BY <1>1 DEF TruncationShown

\* For any upstreams, sizes and limits: the capacity's counters are exactly what the
\* streams hold and what was granted to sleeping readers, through waits, failures,
\* failovers and cancellations at every await; and a stream that is over holds nothing,
\* has left its upstream connection once and run its close callback once
\* (_StreamResourceOwner, _OwnedStreamingResponse of request_handler.py).
THEOREM StreamsAlwaysReturnAll == USSpec => []StreamsReturnAll
<1>1. USInit => StreamsInv(us)
  BY StreamsStart
<1>2. StreamsInv(us) /\ [USNext]_us => StreamsInv(us)'
  BY StreamsStep
<1>3. StreamsInv(us) => StreamsReturnAll
  BY StreamsReturned
<1> QED BY <1>1, <1>2, <1>3, PTL DEF USSpec

\* And a client is told that its answer is complete only when the upstream finished it
\* with content and without an error, and no attempt fails over once its client has
\* seen anything.
THEOREM TruncationAlwaysShown == USSpec => []TruncationShown
<1>1. USInit => StreamsInv(us)
  BY StreamsStart
<1>2. StreamsInv(us) /\ [USNext]_us => StreamsInv(us)'
  BY StreamsStep
<1>3. StreamsInv(us) => TruncationShown
  BY TruncationTold
<1> QED BY <1>1, <1>2, <1>3, PTL DEF USSpec
=============================================================================
