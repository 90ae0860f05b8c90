------------------------- MODULE ResearchAccounting -------------------------
(***************************************************************************)
(* The accounting of deep-research requests: the registry of parents and   *)
(* their children (services/deep_research_accounting.py) and the owner of  *)
(* one parent's reservation (api/v1/deep_research_accounting.py).  The     *)
(* children of a parent are the searches and reads of its callbacks, which *)
(* end with its process, and the model calls its process makes over HTTP,  *)
(* which go on by themselves.  Every child has a reservation of its own;   *)
(* the parent commits a rollup of their receipts.                          *)
(***************************************************************************)
EXTENDS Naturals, Sequences, FiniteSets, SequencesExt

CONSTANTS Parents, Children,        \* Children: numbers of the calls under one parent
          Callbacks,                \* the children that are callbacks
          MaxContexts, MaxChildren, \* the registry's limits
          Attempts                  \* _CHILD_ADMISSION_ATTEMPTS

ASSUME ResearchAssumption ==
  Parents # {} /\ Children # {} /\ Callbacks \subseteq Children /\ {MaxContexts, MaxChildren, Attempts} \subseteq Nat \ {0}

VARIABLE ra    \* owner: per parent; child: per parent and child

NewChild == [st |-> "no", tries |-> 0]
NewOwner == [st |-> "open", pc |-> "begin", ctx |-> FALSE, accepting |-> FALSE, drained |-> TRUE, slots |-> << >>,
             rollup |-> << >>, resv |-> "held", expired |-> FALSE, cut |-> FALSE]
RAInit == ra = [owner |-> [p \in Parents |-> NewOwner], child |-> [p \in Parents |-> [c \in Children |-> NewChild]]]

Terminal == {"committed", "released"}
Idle == {"no", "over", "committed", "released"}
AllTerminal(o, ch) == \A i \in 1..Len(o.slots) : ch[o.slots[i]].st \in Terminal

\* mutant: a slot given up does not wake who waits for the last one
AbortQuietly(o, ch, c) == [o EXCEPT !.slots = RemoveFirst(@, c)]

\* abort_child: the slot goes, and whoever waits for the last one is woken.
AbortChild(o, ch, c) ==
  LET left == [o EXCEPT !.slots = RemoveFirst(@, c)] IN
  [left EXCEPT !.drained = @ \/ AllTerminal(left, ch)]
\* finish_child_commit, finish_child_release
FinishSlot(a, p, c, st) ==
  LET ch == [a.child[p] EXCEPT ![c].st = st] IN
  [a EXCEPT !.child[p] = ch, !.owner[p].drained = @ \/ AllTerminal(a.owner[p], ch)]

-----------------------------------------------------------------------------
(* A child: reserve_deep_research_child, its work, its commit.             *)

Resolves(o) == o.ctx /\ o.accepting /\ ~o.expired
Prepare(a, p, c) == [a EXCEPT !.child[p][c] = [st |-> "prepared", tries |-> @.tries + 1],
                              !.owner[p].slots = Append(@, c), !.owner[p].drained = FALSE]
PrepareChild(p, c) ==
  LET o == ra.owner[p] IN
  /\ ra.child[p][c].st = "no" /\ o.pc # "over"
  /\ c \in Callbacks => o.pc = "run" /\ o.st = "active"
  /\ o.ctx \/ o.pc # "begin"
  /\ ra' = IF Resolves(o) /\ Len(o.slots) < MaxChildren THEN Prepare(ra, p, c)
           ELSE [ra EXCEPT !.child[p][c].st = "over"]

\* The reservation: granted and bound, refused, or closed for the moment,
\* which a callback tries again.
ReserveChild(p, c) ==
  LET k == ra.child[p][c] IN
  /\ k.st = "prepared"
  /\ \/ ra' = [ra EXCEPT !.child[p][c].st = "bound"]
     \/ ra' = [ra EXCEPT !.owner[p] = AbortChild(@, ra.child[p], c), !.child[p][c].st = "over"]
     \/ /\ c \in Callbacks /\ k.tries < Attempts
        /\ ra' = [ra EXCEPT !.owner[p] = AbortChild(@, ra.child[p], c), !.child[p][c].st = "backoff"]
RetryReserve(p, c) ==
  LET o == ra.owner[p] IN
  /\ ra.child[p][c].st = "backoff"
  /\ ra' = IF o.st = "active" /\ Resolves(o) /\ Len(o.slots) < MaxChildren THEN Prepare(ra, p, c)
           ELSE [ra EXCEPT !.child[p][c].st = "over"]
\* The work: what fails or is cancelled is released.
WorkChild(p, c) ==
  /\ ra.child[p][c].st = "bound"
  /\ \/ ra' = [ra EXCEPT !.child[p][c].st = "committing"]
     \/ ra' = FinishSlot(ra, p, c, "released")
\* The commit: done, refused, or its outcome is not known to the caller.
CommitChild(p, c) ==
  /\ ra.child[p][c].st = "committing"
  /\ \/ ra' = FinishSlot(ra, p, c, "committed")
     \/ ra' = FinishSlot(ra, p, c, "released")
     \/ ra' = [ra EXCEPT !.child[p][c].st = "unsettled"]
\* The projector settles it.
SettleChild(p, c) ==
  /\ ra.child[p][c].st = "unsettled"
  /\ \E st \in Terminal : ra' = FinishSlot(ra, p, c, st)

-----------------------------------------------------------------------------
(* DeepResearchTerminalOwner and the endpoint.                             *)

Contexts == {p \in Parents : ra.owner[p].ctx}
Begin(p) ==
  /\ ra.owner[p].pc = "begin"
  /\ \/ /\ Cardinality(Contexts) < MaxContexts
        /\ ra' = [ra EXCEPT !.owner[p] = [@ EXCEPT !.st = "active", !.ctx = TRUE, !.accepting = TRUE, !.pc = "run"]]
     \/ ra' = [ra EXCEPT !.owner[p].pc = "refuse"]             \* the registry is full, or the request is bad
Expire(p) == ra.owner[p].ctx /\ ~ra.owner[p].expired /\ ra' = [ra EXCEPT !.owner[p].expired = TRUE]

\* The process is over, and with it the callbacks.
CallbacksOver(p) == \A c \in Callbacks : ra.child[p][c].st \in Idle \cup {"unsettled"}
EndResearch(p) ==
  /\ ra.owner[p].pc = "run" /\ CallbacksOver(p)
  /\ \E pc \in {"seal", "refuse"} : ra' = [ra EXCEPT !.owner[p].pc = pc]

\* mutant: the parent still accepts children while it drains
StartDrainOpen(o) == o

\* _start_drain
StartDrain(o) == [o EXCEPT !.accepting = FALSE]
RemoveContext(o) == [o EXCEPT !.ctx = FALSE, !.slots = << >>, !.expired = FALSE]
Seal(p) == ra.owner[p].pc = "seal" /\ ra' = [ra EXCEPT !.owner[p] = [StartDrain(@) EXCEPT !.st = "sealing", !.pc = "sealing"]]
SealWakes(p) == ra.owner[p].pc = "sealing" /\ ra.owner[p].drained /\ ra' = [ra EXCEPT !.owner[p].pc = "collect"]
\* The receipts at the places of their children; without any there is no rollup.
CollectSeal(p) ==
  LET o == ra.owner[p]
      receipts == Restrict(o.slots, {i \in 1..Len(o.slots) : ra.child[p][o.slots[i]].st = "committed"}) IN
  /\ o.pc = "collect"
  /\ ra' = IF DOMAIN receipts = {} THEN [ra EXCEPT !.owner[p] = [@ EXCEPT !.st = "active", !.pc = "refuse"]]
           ELSE [ra EXCEPT !.owner[p] = [RemoveContext(@) EXCEPT !.rollup = receipts, !.st = "ready", !.pc = "respond"]]
\* The client leaves, or the request is cancelled.
CancelRequest(p) ==
  LET o == ra.owner[p] IN
  \/ o.pc \in {"sealing", "collect"} /\ ra' = [ra EXCEPT !.owner[p] = [@ EXCEPT !.st = "active", !.pc = "refuse"]]
  \/ o.pc = "respond" /\ ra' = [ra EXCEPT !.owner[p].pc = "refuse"]

\* _commit_rollup
CommitRollup(p) ==
  /\ ra.owner[p].pc = "respond"
  /\ ra' = [ra EXCEPT !.owner[p] = [@ EXCEPT !.st = "committing", !.pc = "commit"]]
EndCommit(p) ==
  /\ ra.owner[p].pc = "commit"
  /\ \E resv \in {"committed", "released"} : ra' = [ra EXCEPT !.owner[p] = [@ EXCEPT !.resv = resv, !.st = "closed", !.pc = "over"]]

\* _release_if_open: the children first, then the parent.
Release(p) ==
  LET o == ra.owner[p]
      drains == o.st \in {"active", "sealing"} IN
  /\ o.pc = "refuse"
  /\ ra' = IF drains THEN [ra EXCEPT !.owner[p] = [StartDrain(@) EXCEPT !.st = "releasing", !.pc = "cancelling"]]
           ELSE [ra EXCEPT !.owner[p] = [@ EXCEPT !.st = "releasing", !.pc = "release"]]
CancelChildren(p) ==
  /\ ra.owner[p].pc = "cancelling" /\ ra.owner[p].drained
  /\ ra' = [ra EXCEPT !.owner[p] = [RemoveContext(@) EXCEPT !.pc = "release"]]
\* The supervisor closes: the wait for the children is given up.
CutShort(p) == ra.owner[p].pc = "cancelling" /\ ra' = [ra EXCEPT !.owner[p] = [@ EXCEPT !.pc = "release", !.cut = TRUE]]
EndRelease(p) ==
  /\ ra.owner[p].pc = "release"
  /\ ra' = [ra EXCEPT !.owner[p] = [@ EXCEPT !.resv = "released", !.st = "closed", !.pc = "over"]]

ChildStep(p, c) == RetryReserve(p, c) \/ ReserveChild(p, c) \/ WorkChild(p, c) \/ CommitChild(p, c) \/ SettleChild(p, c)
OwnerStep(p) == \/ EndResearch(p) \/ Seal(p) \/ SealWakes(p) \/ CollectSeal(p) \/ CommitRollup(p)
                \/ EndCommit(p) \/ Release(p) \/ CancelChildren(p) \/ EndRelease(p)
RANext == \E p \in Parents : \/ OwnerStep(p) \/ Begin(p) \/ Expire(p) \/ CancelRequest(p) \/ CutShort(p)
                             \/ \E c \in Children : ChildStep(p, c) \/ PrepareChild(p, c)
RASpec == RAInit /\ [][RANext]_ra

-----------------------------------------------------------------------------
\* A rollup that is committed names the receipts of exactly the children that
\* were charged under the parent, each once; no child of it is open by then, or
\* is ever charged later.  A parent that was released has no child open either
\* and left the registry, unless the wait was cut short by the shutdown.
RollupExact ==
  \A p \in Parents : LET o == ra.owner[p]
                         charged == {c \in Children : ra.child[p][c].st = "committed"}
                         open == {c \in Children : ra.child[p][c].st \notin Idle} IN
    /\ o.resv = "committed" => DOMAIN o.rollup # {} /\ Range(o.rollup) = charged /\ IsInjective(o.rollup)
    /\ o.st \in {"ready", "committing", "closed"} /\ ~o.cut => open = {} /\ ~o.ctx

\* A request that began and whose parent's reservation is not settled.
ReceiptsPending == \E p \in Parents : ra.owner[p].pc # "begin" /\ ra.owner[p].st # "closed"
=============================================================================
