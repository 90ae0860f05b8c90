------------------------------ MODULE Ensembles ------------------------------
(***************************************************************************)
(* The two kinds of gateway model that are more than a chain of upstreams.  *)
(* A Fusion model (services/fusion_ensemble.py) asks a panel side by side,  *)
(* each member in a loop of web tools, refills what failed from a reserve,  *)
(* lets a judge compare the answers and a main model write the result.  A   *)
(* Router model (services/router_model.py with api/v1/decisions.py) lets a  *)
(* decision model, or the tool history, choose the target that answers.     *)
(* Both end in one manifest of what the request costs, or in none.          *)
(***************************************************************************)
EXTENDS Naturals, Sequences, FiniteSets, SequencesExt

CONSTANTS Panel,           \* the panel, a sequence of models
          Reserve,         \* the reserve, a sequence of models
          MaxIterations,   \* of a member's tool loop
          MaxToolCalls,    \* of a member
          MaxAsk,          \* bound: tool calls in one answer
          DecisionRoutes   \* how many routes the decision model has

ASSUME EnsembleAssumption ==
  /\ Panel # <<>> /\ IsInjective(Panel \o Reserve) /\ {MaxIterations, MaxToolCalls, DecisionRoutes} \subseteq Nat \ {0} /\ MaxAsk \in Nat

VARIABLE en    \* pc; slots: a member per place of the panel; wave; comps, manifest: what is billed; tally: what each model
               \* answered; unpriced: something could not be priced; route; identity, forced: the request's state

Slots == 1..Len(Panel)
EnsembleModels == Range(Panel) \cup Range(Reserve) \cup {"judge", "main", "selector", "delegate"}
Kinds == {"model", "tool"}
Member(who) == [who |-> who, pc |-> "call", iter |-> 1, made |-> 0, pend |-> 0, comps |-> <<>>]
Idle == [who |-> "none", pc |-> "idle", iter |-> 1, made |-> 0, pend |-> 0, comps |-> <<>>]
Fresh == [pc |-> "new", slots |-> [s \in Slots |-> Idle], wave |-> 0, comps |-> <<>>, manifest |-> <<>>,
          tally |-> [x \in EnsembleModels \X Kinds |-> 0], unpriced |-> FALSE,
          route |-> 1, identity |-> "chat", forced |-> 0]
ENInit == en = Fresh

Component(kind, who) == [kind |-> kind, who |-> who]
\* An error leaves nothing to bill; what the members had gathered goes with it.
Abort == en' = [Fresh EXCEPT !.pc = "over"]

-----------------------------------------------------------------------------
(* One member of the panel.                                                *)

M(s) == en.slots[s]
Offered(m) == m.made < MaxToolCalls /\ m.iter <= MaxIterations
\* A model call that is answered and can be priced (build_token_model_component).
Priced(m) == [m EXCEPT !.comps = Append(@, Component("model", m.who))]
Log(s, kind) == [en EXCEPT !.tally[M(s).who, kind] = @ + 1]
\* _call_member_with_tools: an answer that asks for tools is taken up only when
\* tools were offered; after the last iteration the call is made without them.
MemberAnswers(s) ==
  /\ en.pc = "panel" /\ M(s).pc = "call"
  /\ \E ask \in 0..MaxAsk :
       en' = [Log(s, "model") EXCEPT !.slots[s] = IF Offered(M(s)) /\ ask > 0 THEN [Priced(M(s)) EXCEPT !.pc = "tools", !.pend = ask]
                                                  ELSE [Priced(M(s)) EXCEPT !.pc = "done"]]
\* _raw_chat_call: no provider, no credentials, an upstream error.
MemberFails(s) == en.pc = "panel" /\ M(s).pc = "call" /\ en' = [en EXCEPT !.slots[s].pc = "failed"]
\* The answer cannot be priced, or the component of a tool cannot.
MemberUnpriced(s) == en.pc = "panel" /\ M(s).pc \in {"call", "tools"} /\ en' = [en EXCEPT !.slots[s].pc = "unpriced", !.unpriced = TRUE]

\* _execute_web_tool: one of the calls of an answer; beyond the budget, and for
\* a call that fails, the model is told so.
Tool(s) ==
  /\ en.pc = "panel" /\ M(s).pc = "tools" /\ M(s).pend > 0
  /\ \/ M(s).made >= MaxToolCalls /\ en' = [en EXCEPT !.slots[s].pend = @ - 1]
     \/ /\ M(s).made < MaxToolCalls
        /\ \/ en' = [Log(s, "tool") EXCEPT !.slots[s] = [@ EXCEPT !.pend = @ - 1, !.made = @ + 1, !.comps = Append(@, Component("tool", M(s).who))]]
           \/ en' = [en EXCEPT !.slots[s] = [@ EXCEPT !.pend = @ - 1, !.made = @ + 1]]
NextIteration(s) ==
  /\ en.pc = "panel" /\ M(s).pc = "tools" /\ M(s).pend = 0
  /\ en' = [en EXCEPT !.slots[s].pc = "call", !.slots[s].iter = @ + 1]

-----------------------------------------------------------------------------
(* The pipeline.                                                           *)

\* dispatch_chat_request: a Fusion model reached from inside another, or asked
\* to stream, is refused.
StartFusion == en.pc = "new" /\ en' = [en EXCEPT !.pc = "panel", !.wave = 1, !.slots = [s \in Slots |-> Member(Panel[s])]]
RefuseFusion == en.pc = "new" /\ Abort
Gathered == en.pc = "panel" /\ \A s \in Slots : M(s).pc \in {"done", "failed", "unpriced"}

\* mutant: whatever went wrong is refilled
RefillAll == SetToSortSeq({s \in Slots : M(s).pc \in {"failed", "unpriced"}}, <)

\* _assign_reserve_candidates: the failed places in order; a billing failure is
\* not refilled.
Refillable == SetToSortSeq({s \in Slots : M(s).pc = "failed"}, <)
Refilled == LET n == IF Len(Refillable) < Len(Reserve) THEN Len(Refillable) ELSE Len(Reserve) IN SubSeq(Refillable, 1, n)
Refill ==
  /\ Gathered /\ en.wave = 1 /\ Refilled # <<>>
  /\ en' = [en EXCEPT !.wave = 2,
                      !.slots = [s \in Slots |-> IF \E i \in DOMAIN Refilled : Refilled[i] = s
                                                 THEN Member(Reserve[CHOOSE i \in DOMAIN Refilled : Refilled[i] = s]) ELSE M(s)]]
\* The outcomes in the order of the panel; one billing failure ends the request,
\* and so does a panel without an answer.
Collect ==
  /\ Gathered /\ (en.wave = 2 \/ Refilled = <<>>)
  /\ IF (\E s \in Slots : M(s).pc = "unpriced") \/ ~\E s \in Slots : M(s).pc = "done" THEN Abort
     ELSE en' = [en EXCEPT !.pc = "judge", !.comps = FlattenSeq([s \in Slots |-> IF M(s).pc = "done" THEN M(s).comps ELSE <<>>])]
Used(who) == [en EXCEPT !.tally[who, "model"] = @ + 1, !.comps = Append(@, Component("model", who))]
\* The judge may fail, but not be unpriceable.
Judge ==
  /\ en.pc = "judge"
  /\ \/ en' = [Used("judge") EXCEPT !.pc = "main"] \/ en' = [en EXCEPT !.pc = "main"] \/ Abort
Publish(c) == [c EXCEPT !.manifest = c.comps, !.pc = "published"]
Main == en.pc = "main" /\ (en' = Publish(Used("main")) \/ Abort)

-----------------------------------------------------------------------------
(* The router.                                                             *)

\* _direct_stage_decision: a failed tool or tests that passed choose without a call.
SelectDirectly == en.pc = "new" /\ en' = [en EXCEPT !.pc = "delegate"]
\* _call_decision_model: the decision borrows the request's identity.
AskDecision == en.pc = "new" /\ en' = [en EXCEPT !.pc = "decide", !.identity = "decisions"]
\* call_decision_routes: a route that fails, or cannot be priced, gives way to the next.
DecisionFails ==
  /\ en.pc = "decide"
  /\ IF en.route < DecisionRoutes THEN en' = [en EXCEPT !.route = @ + 1] ELSE Abort
DecisionAnswers ==
  /\ en.pc = "decide"
  /\ \/ en' = [Used("selector") EXCEPT !.pc = "delegate", !.identity = "chat"]
     \/ Abort                                                      \* no choice, or a choice that is not a candidate
\* build_router_candidates: a model with its whole chain, or its chain from an
\* entry on.
Targets == {0, 2}
\* _dispatch_selected_target: a target inside a chain forces where the chain starts.
Delegate == en.pc = "delegate" /\ \E forced \in Targets : en' = [en EXCEPT !.pc = "dispatched", !.forced = forced]
\* The delegate's answer, or its stream, is billed after the decision
\* (_PrefixedChatHandoff); the request's state is restored whatever happens.
Delegated ==
  /\ en.pc = "dispatched"
  /\ \/ en' = [Publish(Used("delegate")) EXCEPT !.forced = 0]
     \/ Abort

\* The client's task is cancelled.
EnsembleCancelled == en.pc \notin {"new", "published", "over"} /\ Abort

MemberStep(s) == MemberAnswers(s) \/ MemberFails(s) \/ MemberUnpriced(s) \/ Tool(s) \/ NextIteration(s)
PipelineStep == StartFusion \/ RefuseFusion \/ Refill \/ Collect \/ Judge \/ Main
RouterStep == SelectDirectly \/ AskDecision \/ DecisionFails \/ DecisionAnswers \/ Delegate \/ Delegated
ENNext == (\E s \in Slots : MemberStep(s)) \/ PipelineStep \/ RouterStep \/ EnsembleCancelled

-----------------------------------------------------------------------------
\* The models whose answers the result rests on.
Heard == {M(s).who : s \in {s \in Slots : M(s).pc = "done"}} \cup {"judge", "main", "selector", "delegate"}
Billed(who, kind) == Cardinality({i \in DOMAIN en.manifest : en.manifest[i] = Component(kind, who)})
PlacesOf(s) == {i \in DOMAIN en.manifest : en.manifest[i].who = M(s).who}

\* A manifest is published only for a whole result.  It holds every answered
\* call and every tool of each model the result rests on exactly once and
\* nothing of a model that was given up, whatever order the panel answered in,
\* the panel's part in the order of the panel, the model that wrote the answer
\* last; no billing failure is papered over by a reserve model, a reserve model
\* is asked once, and no member exceeds its budgets of calls and tools.
EnsembleBilled ==
  /\ en.manifest # <<>> =>
       /\ en.pc = "published" /\ Last(en.manifest) \in {Component("model", "main"), Component("model", "delegate")}
       /\ \A who \in EnsembleModels, kind \in Kinds : Billed(who, kind) = IF who \in Heard THEN en.tally[who, kind] ELSE 0
       /\ \A s, t \in Slots : s < t => \A i \in PlacesOf(s), j \in PlacesOf(t) : i < j
  /\ \A s \in Slots : M(s).pc # "idle" =>
       /\ en.tally[M(s).who, "model"] <= MaxIterations + 1 /\ en.tally[M(s).who, "tool"] <= MaxToolCalls
       /\ \A t \in Slots : M(t).who = M(s).who => t = s
  /\ en.unpriced => en.manifest = <<>>
  /\ en.pc = "published" => en.identity = "chat" /\ en.forced = 0
=============================================================================
