---------------------------- MODULE ChatDispatch ----------------------------
(***************************************************************************)
(* dispatch_chat_request and attempt_model_fallback_rule of                *)
(* llm_gateway_core/api/v1/chat_dispatch.py: a chat request walks the      *)
(* fallback chain of its gateway model, retries, switches upstream keys,   *)
(* downgrades a rejected tool_choice and stops at the chain-wide budget.   *)
(* Requests share one UpstreamRoutingState.                                *)
(*                                                                         *)
(* The requests run on one event loop: an action is the code between two   *)
(* awaits (resolving the key's credentials, the upstream call, probing a   *)
(* stream, the retry delay, a stream in flight).  Code between awaits that *)
(* takes more than one action is kept together by Runs: while a request is *)
(* at one of SyncPlaces no other takes a step.                             *)
(*                                                                         *)
(* All rules are of one provider, with the same key candidates; retry      *)
(* delays are positive.  A request refused before its chain begins         *)
(* (unknown model, no capable candidate) and the model kinds served by     *)
(* other components (fusion, router, deep research) are left out.          *)
(***************************************************************************)
EXTENDS UpstreamRouting

CONSTANTS
    Rules,         \* fallback rules
    ModelOf,       \* [Rules -> Models]
    RetryCount,    \* [Rules -> Nat], retry_count
    Subproviders,  \* [Rules -> Nat], entries of providers_order tried as fallbacks
    Orders,        \* the chains rotation, penalties and capabilities can give
    OverflowRule,  \* context_overflow_fallback, NoRule for none
    NoRule,
    MaxTotal,      \* max_total_attempts, 0 for none
    Streaming,     \* the requests that stream
    Remaining      \* remaining readings in response headers: "none", "some", "zero"

ASSUME DispatchConstants ==
    /\ ModelOf \in [Rules -> Models]
    /\ RetryCount \in [Rules -> Nat] /\ Subproviders \in [Rules -> Nat]
    /\ Orders \subseteq Seq(Rules) /\ OverflowRule \in Rules \cup {NoRule} /\ NoRule \notin Rules
    /\ MaxTotal \in Nat
    /\ Streaming \subseteq Callers
    /\ Remaining \subseteq {"none", "some", "zero"}

VARIABLE req    \* the local variables of each request's coroutine

dispatchVars == <<routingVars, req>>

SyncPlaces == {"chain", "loop", "acquire"}
Awaits == {"auth", "reauth", "switch", "call", "probe", "sleep"}
EndPlaces == {"answered", "closed", "exhausted", "aborted"}
Places == {"new", "streaming"} \cup SyncPlaces \cup Awaits \cup EndPlaces

NewRequest ==
    [at |-> "new", chain |-> <<>>, rule |-> NoRule, key |-> NoKey,
     over |-> "no",             \* context overflow fallback: "no", begins "now", "used"
     number |-> 1,              \* attempt_number
     left |-> 0,                \* remaining_attempts
     sub |-> 0,                 \* position in subproviders_ordering
     switches |-> 0,            \* key_switches_used
     downgraded |-> FALSE,      \* tool_choice_downgrade_used
     tries |-> 0,               \* key_candidates not tried yet by _acquire_upstream_slot
     calls |-> 0, ruleCalls |-> 0,  \* upstream calls made, in all and for this rule
     published |-> 0]           \* publications to the ChatTerminalHandoff

Init == RoutingInit /\ req = [c \in Callers |-> NewRequest]

Runs(c) == \A d \in Callers \ {c} : req[d].at \notin SyncPlaces

BudgetIgnored(q) == FALSE                                           \* mutant
BudgetExhausted(q) == MaxTotal # 0 /\ q.number > MaxTotal

SwitchesUncapped(q) == TRUE                                         \* mutant
\* key_switches_used against key_switch_budget.
SwitchesLeft(q) == q.switches < Cardinality(Keys)

---------------------------------------------------------------------------
(* How a coroutine goes on.                                                *)

\* attempt_model_fallback_rule returns an error: dispatch_chat_request goes
\* to the overflow fallback, to the next rule, or is exhausted.
RuleFails(q, overflow) ==
    IF overflow
    THEN [q EXCEPT !.at = "chain", !.chain = <<OverflowRule>> \o @, !.over = "now"]
    ELSE [q EXCEPT !.at = "chain"]

\* mutant: the retry loop runs one round too many.
RetriesUncounted(q) == [q EXCEPT !.at = "sleep", !.left = @ - 1, !.sub = 0]
\* The tail of the retry loop, after a plain attempt or after the last
\* sub-provider: it sleeps, or the rule has failed.
NextRetry(q) ==
    IF q.left > 0 /\ ~ BudgetExhausted(q)
    THEN [q EXCEPT !.at = "sleep", !.left = @ - 1, !.sub = 0]
    ELSE RuleFails(q, FALSE)

\* The attempt failed for good: the next sub-provider, or the next retry.
NextAttempt(q) ==
    IF q.sub > 0 /\ q.sub < Subproviders[q.rule] /\ ~ BudgetExhausted(q)
    THEN [q EXCEPT !.at = "acquire", !.sub = @ + 1, !.tries = Cardinality(Keys)]
    ELSE NextRetry(q)

\* The same target again: from the top of the retry loop, or within the loop
\* of one sub-provider, which does not look at the budget.
Again(q) ==
    IF q.sub = 0 THEN [q EXCEPT !.at = "loop"]
    ELSE [q EXCEPT !.at = "acquire", !.tries = Cardinality(Keys)]

\* _record_event counts the attempt; numbers over the budget are told apart by
\* nothing.
Counted(q) == [q EXCEPT !.number = Smaller(@ + 1, MaxTotal + 1)]

---------------------------------------------------------------------------
(* One action per piece of code between two awaits.                        *)

Dispatch(c) ==
    /\ req[c].at = "new" /\ Runs(c)
    /\ \E order \in Orders : req' = [req EXCEPT ![c].at = "chain", ![c].chain = order]
    /\ UNCHANGED routingVars

\* mutant: a request that ran out of rules, not of budget, gets no answer.
ExhaustedByBudget(c) ==
    LET q == req[c]
    IN  /\ q.at = "chain" /\ Runs(c)
        /\ q.over # "now"
        /\ BudgetExhausted(q)
        /\ req' = [req EXCEPT ![c].at = "exhausted"]
        /\ UNCHANGED routingVars
\* The chain is empty or the budget is spent: the final 503.
ChainExhausted(c) ==
    LET q == req[c]
    IN  /\ q.at = "chain" /\ Runs(c)
        /\ q.over # "now"
        /\ q.chain = <<>> \/ BudgetExhausted(q)
        /\ req' = [req EXCEPT ![c].at = "exhausted"]
        /\ UNCHANGED routingVars

\* The next rule of the chain, with the variables of a new
\* attempt_model_fallback_rule.
NextRule(q) ==
    [q EXCEPT !.rule = Head(q.chain), !.chain = Tail(@), !.left = RetryCount[Head(q.chain)],
              !.sub = 0, !.switches = 0, !.ruleCalls = 0, !.over = IF @ = "now" THEN "used" ELSE @]

\* The overflow fallback begins without a look at the budget.
MayBegin(q) ==
    /\ q.at = "chain" /\ q.chain # <<>>
    /\ q.over = "now" \/ ~ BudgetExhausted(q)

\* The provider is not configured, its key pool is invalid, or the request
\* cannot be converted for it, which is tried after the first await.
RuleRejected(c) ==
    /\ Runs(c)
    /\ \/ MayBegin(req[c]) /\ req' = [req EXCEPT ![c] = RuleFails(Counted(NextRule(@)), FALSE)]
       \/ req[c].at = "auth" /\ req' = [req EXCEPT ![c] = RuleFails(Counted(@), FALSE)]
    /\ UNCHANGED routingVars

\* attempt_model_fallback_rule up to its first await.
BeginRule(c) ==
    LET q == req[c]
        begun == NextRule(q)
        keys == Available(route, ModelOf[begun.rule])
    IN  /\ MayBegin(q) /\ Runs(c)
        /\ \/ \E k \in keys : req' = [req EXCEPT ![c] = [begun EXCEPT !.at = "auth", !.key = k]]
           \/ /\ keys = {}
              /\ req' = [req EXCEPT ![c] =
                           RuleFails(IF OnlyBusy(route, ModelOf[begun.rule]) THEN begun ELSE Counted(begun), FALSE)]
        /\ UNCHANGED routingVars

\* resolve_provider_auth_material has returned: for the rule, which then drops
\* a forced tool_choice its model is known to refuse; inside
\* _acquire_upstream_slot; or after a key switch.
Authorized(c) ==
    LET q == req[c]
    IN  /\ q.at \in {"auth", "reauth", "switch"} /\ Runs(c)
        /\ req' = [req EXCEPT ![c] =
                     CASE q.at = "auth" ->
                             [q EXCEPT !.at = "loop", !.downgraded = ModelOf[q.rule] \in route.unforced]
                       [] q.at = "reauth" ->
                             IF q.tries > 0 THEN [q EXCEPT !.at = "acquire"] ELSE RuleFails(q, FALSE)
                       [] q.at = "switch" -> Again(q)]
        /\ UNCHANGED routingVars

\* The head of the retry loop.
RetryLoop(c) ==
    LET q == req[c]
    IN  /\ q.at = "loop" /\ Runs(c)
        /\ req' = [req EXCEPT ![c] =
                     IF BudgetExhausted(q) THEN RuleFails(q, FALSE)
                     ELSE [q EXCEPT !.at = "acquire", !.tries = Cardinality(Keys),
                                    !.sub = IF Subproviders[q.rule] > 0 THEN 1 ELSE 0]]
        /\ UNCHANGED routingVars

\* _acquire_upstream_slot finds the key free; then _track_attempt_start.
StartAttempt(c) ==
    LET q == req[c]
        m == ModelOf[q.rule]
    IN  /\ q.at = "acquire" /\ Runs(c)
        /\ ~ KeyBusy(route, q.key)
        /\ IF StartRefused(route, m, q.key)
           THEN /\ req' = [req EXCEPT ![c] = RuleFails(Counted(q), FALSE)]
                /\ UNCHANGED <<route, lease, calling>>
           ELSE /\ req' = [req EXCEPT ![c] = [q EXCEPT !.at = "call", !.tries = 0, !.calls = @ + 1,
                                                       !.ruleCalls = @ + 1]]
                /\ route' = RecordAttemptStart(AcquireConcurrency(route, q.key), m, q.key)
                /\ lease' = [lease EXCEPT ![c] = q.key]
                /\ calling' = [calling EXCEPT ![c] = <<m, q.key>>]
        /\ UNCHANGED now

\* Another request took the slot meanwhile: choose again, up to once per key.
SlotLost(c) ==
    LET q == req[c]
        keys == Available(route, ModelOf[q.rule])
    IN  /\ q.at = "acquire" /\ Runs(c)
        /\ KeyBusy(route, q.key)
        /\ \/ keys = {} /\ req' = [req EXCEPT ![c] = RuleFails(q, FALSE)]
           \/ \E k \in keys :
                 req' = [req EXCEPT ![c] = [q EXCEPT !.at = "reauth", !.key = k, !.tries = @ - 1]]
        /\ UNCHANGED routingVars

\* _record_rate_limit_observations.
Observed(rt, r, reading) ==
    CASE reading = "zero" -> ObserveRemaining(rt, r, now + 1)
      [] reading = "some" -> ObserveRemaining(rt, r, 0)
      [] OTHER -> rt

LetGo(c) ==
    /\ lease' = [lease EXCEPT ![c] = NoKey]
    /\ calling' = [calling EXCEPT ![c] = NoCall]
    /\ UNCHANGED now

\* The attempt failed, rt being the state with its slot released: record the
\* failure, then downgrade a forced tool_choice, switch the key, give the rule
\* up or go on to the next attempt.
AttemptFails(c, was, rt, kind, floor) ==
    LET r == calling[c]
        q == Counted(was)
        noted == RecordFailure(rt, r, kind, floor)
        downgrades == kind = "tool_choice" /\ ~ q.downgraded
        stops == kind = "overflow" /\ OverflowRule # NoRule /\ q.over = "no"
        mayswitch == /\ kind # "behavior" /\ ~ stops
                     /\ SwitchesLeft(q)
                     /\ q.sub = 0 \/ ~ BudgetExhausted(q)
    IN  \E asks \in AsksSwitch(kind) :
          LET others == IF mayswitch /\ (asks \/ noted.zero[r] > now)
                        THEN Available(noted, r[1]) \ {q.key} ELSE {}
          IN  /\ route' = IF downgrades THEN LearnUnforced(noted, r[1]) ELSE noted
              /\ \/ downgrades /\ req' = [req EXCEPT ![c] = Again([q EXCEPT !.downgraded = TRUE])]
                 \/ /\ ~ downgrades
                    /\ \E k \in others :
                          req' = [req EXCEPT ![c] = [q EXCEPT !.at = "switch", !.key = k,
                                                              !.switches = @ + 1]]
                 \/ /\ ~ downgrades /\ others = {}
                    /\ req' = [req EXCEPT ![c] =
                                 IF kind = "behavior" \/ stops THEN RuleFails(q, stops)
                                 ELSE NextAttempt(q)]
              /\ LetGo(c)

\* make_llm_request returns an error, or a body that is one.
CallFails(c, kind, floor, reading) ==
    /\ req[c].at = "call" /\ Runs(c)
    /\ c \in Streaming => kind # "behavior"
    /\ AttemptFails(c, req[c], Observed(Freed(c), calling[c], reading), kind, floor)

\* _observe_success and _record_event of an answer that is returned.
Delivered(q) == [Counted(q) EXCEPT !.published = @ + 1]

\* A full answer: it is handed to accounting, recorded and returned.
Answers(c, reading) ==
    /\ req[c].at = "call" /\ Runs(c) /\ c \notin Streaming
    /\ req' = [req EXCEPT ![c] = [Delivered(@) EXCEPT !.at = "answered"]]
    /\ route' = MarkHealthy(Observed(Freed(c), calling[c], reading), calling[c])
    /\ LetGo(c)

\* A stream opens; its close callback now owns the slot.
StreamOpens(c, reading) ==
    /\ req[c].at = "call" /\ Runs(c) /\ c \in Streaming
    /\ req' = [req EXCEPT ![c].at = "probe"]
    /\ route' = Observed(route, calling[c], reading)
    /\ UNCHANGED <<now, lease, calling>>

\* detect_upstream_provider_error_stream passes the stream.
StreamStarts(c) ==
    /\ req[c].at = "probe" /\ Runs(c)
    /\ req' = [req EXCEPT ![c] = [Delivered(@) EXCEPT !.at = "streaming"]]
    /\ route' = MarkHealthy(route, calling[c])
    /\ UNCHANGED <<now, lease, calling>>

\* mutant: the stream is published before it is probed.
PublishedUnprobed(c) ==
    /\ req[c].at = "probe" /\ Runs(c)
    /\ AttemptFails(c, [req[c] EXCEPT !.published = @ + 1], Freed(c), "behavior", 0)
\* It finds an error in the stream, which is closed.
ProbeFails(c) ==
    /\ req[c].at = "probe" /\ Runs(c)
    /\ AttemptFails(c, req[c], Freed(c), "behavior", 0)

\* The stream ends, or its client goes away.
StreamCloses(c) ==
    /\ req[c].at = "streaming" /\ Runs(c)
    /\ req' = [req EXCEPT ![c].at = "closed"]
    /\ route' = Freed(c)
    /\ LetGo(c)

SleepEnds(c) ==
    /\ req[c].at = "sleep" /\ Runs(c)
    /\ req' = [req EXCEPT ![c].at = "loop"]
    /\ UNCHANGED routingVars

\* mutant: the exception passes by the release of the slot.
AbortsHolding(c) ==
    /\ req[c].at \in Awaits /\ Runs(c)
    /\ req' = [req EXCEPT ![c].at = "aborted"]
    /\ UNCHANGED routingVars
\* An exception leaves the coroutine at an await: an error of the credentials,
\* of the call or of the probe, or the cancellation of the request.
Aborts(c) ==
    /\ req[c].at \in Awaits /\ Runs(c)
    /\ req' = [req EXCEPT ![c].at = "aborted"]
    /\ route' = IF lease[c] = NoKey THEN route ELSE Freed(c)
    /\ LetGo(c)

\* Building the answer raises after it was handed to accounting: a stream is
\* closed, the slot of a full answer is released already.
ConversionRaises(c, reading) ==
    /\ IF c \in Streaming THEN req[c].at = "probe" ELSE req[c].at = "call"
    /\ Runs(c)
    /\ req' = [req EXCEPT ![c].published = @ + 1, ![c].at = "aborted"]
    /\ route' = IF c \in Streaming THEN Freed(c) ELSE Observed(Freed(c), calling[c], reading)
    /\ LetGo(c)

Step(c) ==
    \/ Dispatch(c) \/ ChainExhausted(c) \/ RuleRejected(c) \/ BeginRule(c) \/ Authorized(c)
    \/ RetryLoop(c) \/ StartAttempt(c) \/ SlotLost(c) \/ SleepEnds(c)
    \/ StreamStarts(c) \/ ProbeFails(c) \/ StreamCloses(c) \/ Aborts(c)
    \/ \E reading \in Remaining :
          \/ Answers(c, reading) \/ StreamOpens(c, reading) \/ ConversionRaises(c, reading)
          \/ \E kind \in Failures, floor \in Floors : CallFails(c, kind, floor, reading)

Outside ==
    /\ \A c \in Callers : req[c].at \notin SyncPlaces
    /\ Tick \/ \E s \in Scopes : PauseKey(s) \/ ResumeKey(s)
    /\ UNCHANGED req

Next == Outside \/ \E c \in Callers : Step(c)

Spec == Init /\ [][Next]_dispatchVars

\* Every await ends: credentials and upstream calls have timeouts, a retry
\* delay is finite, a stream ends or its client leaves.
FairSpec == Spec /\ \A c \in Callers : WF_dispatchVars(Step(c))

---------------------------------------------------------------------------
(* Properties.                                                             *)

RequestType ==
    [at : Places, chain : Seq(Rules), rule : Rules \cup {NoRule}, key : Keys \cup {NoKey},
     over : {"no", "now", "used"}, number : Nat, left : Nat, sub : Nat, switches : Nat,
     downgraded : BOOLEAN, tries : Nat, calls : Nat, ruleCalls : Nat, published : Nat]

\* The coroutines' variables stay in their types, and whoever is past the choice
\* of a rule and its key has both.
TypeOK ==
    /\ RoutingTypeOK
    /\ req \in [Callers -> RequestType]
    /\ \A c \in Callers :
          /\ req[c].at \in {"auth", "loop", "acquire", "reauth", "switch", "call", "probe", "sleep"}
                => req[c].rule \in Rules /\ req[c].key \in Keys

\* A request holds a slot exactly while its upstream is at work for it: in the
\* call, while its stream is probed and until the stream is closed.
SlotsFollowRequests ==
    /\ TypeOK
    /\ \A c \in Callers :
          (lease[c] # NoKey) <=> req[c].at \in {"call", "probe", "streaming"}

\* max_total_attempts caps the upstream calls of a request over retries,
\* sub-providers, key switches, downgrades and all the rules of its chain, but
\* for one call: a forced tool_choice that is refused inside the loop over the
\* sub-providers is sent again without a look at the budget. That happens once
\* at most, and a context overflow fallback that follows calls no more.
OneMore(q) == q.over # "no" \/ (q.sub > 0 /\ q.downgraded)
ChainBudget ==
    MaxTotal # 0 => \A c \in Callers :
        req[c].calls <= MaxTotal \/ (req[c].calls = MaxTotal + 1 /\ OneMore(req[c]))

\* Retries that cost nothing - key switches and the tool_choice downgrade - do
\* not multiply: a rule calls upstream once per retry and sub-provider, once
\* more per key and once more for the downgrade.
CallsBounded ==
    \A c \in Callers : req[c].rule # NoRule =>
        req[c].ruleCalls <=
            (RetryCount[req[c].rule] + 1) * Larger(1, Subproviders[req[c].rule]) + Cardinality(Keys) + 1

\* The accounting handoff is one-shot: a request publishes at most once,
\* though several of its attempts come back with a body, and an answered
\* request has published.
HandoffOnce ==
    \A c \in Callers :
        /\ req[c].published <= 1
        /\ req[c].at \in {"answered", "streaming", "closed"} => req[c].published = 1

\* Every request ends: no mix of retries, key switches, lost slots and
\* fallbacks keeps it going for ever.
ChainEnds == \A c \in Callers : <>(req[c].at \in EndPlaces)

============================================================================
