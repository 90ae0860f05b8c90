------------------------------ MODULE MCOwners ------------------------------
(***************************************************************************)
(* The services that own work in memory and must end it: the coordinator   *)
(* of config updates, the runner of deep research and the receipts of its  *)
(* calls, the scoring of models.  They share no state: each behaviour      *)
(* steps the one named by focus.                                           *)
(***************************************************************************)
EXTENDS ConfigUpdates, ResearchRunner, ResearchAccounting, ModelScoring

VARIABLE focus

MCInit == /\ focus \in {"updates", "runner", "receipts", "scoring"}
          /\ CUInit /\ RRInit /\ RAInit /\ MSInit
MCNext ==
  /\ \/ focus = "updates" /\ CUNext /\ UNCHANGED <<rr, ra, ms>>
     \/ focus = "runner" /\ RRNext /\ UNCHANGED <<cuvars, ra, ms>>
     \/ focus = "receipts" /\ RANext /\ UNCHANGED <<cuvars, rr, ms>>
     \/ focus = "scoring" /\ MSNext /\ UNCHANGED <<cuvars, rr, ra>>
  /\ UNCHANGED focus

\* The event loop runs what can run: an admitted update and the close task, a
\* run of the runner and its closer, the owner of a research request and the
\* calls under it, a refresh and a stop of the scoring.  Nothing makes a child
\* process, a client or an operator step.
UpdatesFairness ==
  /\ \A u \in Updaters : WF_cuvars(focus = "updates" /\ Gateway(UpdateStep(u) /\ job[u].at \notin {"away", "captured"}))
  /\ WF_cuvars(focus = "updates" /\ Gateway(CloseStep))
RunnerFairness ==
  /\ \A r \in Runs : /\ WF_rr(focus = "runner" /\ RunStep(r))
                     /\ WF_rr(focus = "runner" /\ RefuseSlot(r))
                     /\ WF_rr(focus = "runner" /\ Bootstrap(r))
  /\ WF_rr(focus = "runner" /\ CloseOwners) /\ WF_rr(focus = "runner" /\ CloseDrained)
ReceiptsFairness ==
  \A p \in Parents : /\ WF_ra(focus = "receipts" /\ OwnerStep(p))
                     /\ \A c \in Children : WF_ra(focus = "receipts" /\ ChildStep(p, c))
ScoringFairness ==
  /\ WF_ms(focus = "scoring" /\ AcquireRun) /\ WF_ms(focus = "scoring" /\ CancelOwned)
  /\ WF_ms(focus = "scoring" /\ FinishStop) /\ WF_ms(focus = "scoring" /\ EvalStep)
  /\ WF_ms(focus = "scoring" /\ EndStopEval)
  /\ \A t \in Refreshers : WF_ms(focus = "scoring" /\ RefreshStep(t))

MCSpec == /\ MCInit /\ [][MCNext]_<<cuvars, rr, ra, ms, focus>>
          /\ UpdatesFairness /\ RunnerFairness /\ ReceiptsFairness /\ ScoringFairness

\* What was asked to end ends: the close of the update coordinator and of the
\* research runner, the settlement of a research request with its children, the
\* stop of the model scoring.  Always, at some later time none of them is pending.
OwnersSettle == []<>~(ClosePending \/ RunnerPending \/ ReceiptsPending \/ ScoringPending)
=============================================================================
