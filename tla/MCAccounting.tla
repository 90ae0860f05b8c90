--------------------------- MODULE MCAccounting ---------------------------
(***************************************************************************)
(* Instances of Accounting for TLC: requests of one key.  In MCAccounting  *)
(* .cfg a behaviour has either crashes and a permanent failure but no      *)
(* administrator (focus "crash"), or an administrator and two requests     *)
(* (focus "keys").                                                         *)
(***************************************************************************)
EXTENDS Accounting

CONSTANT Parts
VARIABLE focus

MCKeyOf == [s \in Sessions |-> "k1"]
MCCost == [s \in Sessions |-> IF s = "r1" THEN 2 ELSE 1]

\* What a behaviour leaves out.
CrashStep == \A j \in {"update", "reset", "delete"} : mem'.job[j].pc = "idle"
KeysStep == perms' = 0 /\ crashes' = 0 /\ \A s \in Sessions \ {"r1", "r2"} : mem'.pc[s] = "none"

MCInit == Init /\ focus \in Parts
MCNext == /\ Next /\ UNCHANGED focus
          /\ focus = "crash" => CrashStep
          /\ focus = "keys" => KeysStep
MCSpec == MCInit /\ [][MCNext]_<<vars, focus>>
MCFairSpec == MCSpec /\ Fairness

\* Without key mutations even a permanent failure loses no accepted event: it
\* stays in the backlog (accounting_service, _drain_pending_locked).
BacklogKept == mem.init /\ ~ mem.fatal => db.accepted \ db.projected \subseteq Unsettled(mem)

\* No part of a budget is granted twice, through retries, ambiguous commits, a
\* permanent failure and a crash: the ledger the gateway admits by knows what the
\* sink has charged, and what it admitted stays within the budget
\* (accounting_service, access_control).
LedgerKept == focus = "crash" => BacklogKept /\ LedgerCovers /\ BudgetHeld
===========================================================================
