--------------------------- MODULE SpendContract ---------------------------
(***************************************************************************)
(* What the accounting subsystem promises about money, whatever fails: an  *)
(* accepted usage event is charged to its key at most once, only accepted  *)
(* events are charged, and spent_usd moves only by a charge or by a budget *)
(* reset.  The durable tables are accounting_outbox (accepted),            *)
(* applied_accounting_events (charged) and the spent_usd column of         *)
(* api_keys or of its tombstone (spent).                                   *)
(***************************************************************************)
EXTENDS Naturals

CONSTANTS
    Events,    \* usage events
    Keys,      \* virtual API keys
    KeyOf,     \* the key an event is billed to
    Cost       \* the cost of an event, in units

VARIABLES accepted, charged, spent

contractVars == <<accepted, charged, spent>>

Init ==
    /\ accepted = {}
    /\ charged = {}
    /\ spent = [k \in Keys |-> 0]

Accept(e) ==
    /\ accepted' = accepted \cup {e}
    /\ UNCHANGED <<charged, spent>>

Charge(e) ==
    /\ e \in accepted \ charged
    /\ charged' = charged \cup {e}
    /\ spent' = [spent EXCEPT ![KeyOf[e]] = @ + Cost[e]]
    /\ UNCHANGED accepted

ResetBudget(k) ==
    /\ spent' = [spent EXCEPT ![k] = 0]
    /\ UNCHANGED <<accepted, charged>>

Next ==
    \/ \E e \in Events : Accept(e) \/ Charge(e)
    \/ \E k \in Keys : ResetBudget(k)

Spec == Init /\ [][Next]_contractVars

===========================================================================
