---------------------------- MODULE ModelScoring ----------------------------
(***************************************************************************)
(* The scoring of models in the background.  The free-model service        *)
(* (services/openrouter_free_models.py) refreshes its ranking in a periodic *)
(* task and, on demand, in one manual task; each refresh holds a lease of   *)
(* the runtime generation it reads, and one lock lets one refresh run at a  *)
(* time.  The fallback evaluation (services/fallback_model_evals.py) is a   *)
(* task that owns the lease its caller took.  Stopping cancels the tasks at *)
(* whatever await they are in.                                             *)
(***************************************************************************)
EXTENDS Naturals, FiniteSets

CONSTANTS Models,                  \* the models that may be in the catalog
          MaxGenerations,          \* bound: configurations published
          MaxManual, MaxEvals      \* bounds: manual refreshes and evaluations asked for

ASSUME ScoringAssumption == IsFiniteSet(Models) /\ {MaxGenerations, MaxManual, MaxEvals} \subseteq Nat

VARIABLE ms    \* life, running, manualRunning, lock, snap, gen, configured; task: periodic, manual, eval

Tasks == {"periodic", "manual", "eval"}
NoTask == [pc |-> "none", lease |-> 0, catalog |-> {}, full |-> FALSE, cancel |-> FALSE]
NoSnapshot == [models |-> {}, done |-> {}, count |-> 0, ready |-> FALSE]        \* done: a completed lite eval

MSInit == ms = [life |-> "new", running |-> FALSE, manualRunning |-> FALSE, lock |-> "free", snap |-> NoSnapshot,
                gen |-> 1, configured |-> TRUE, asked |-> 0, evals |-> 0, evalRunning |-> FALSE, evalStopping |-> FALSE,
                stop |-> "no", task |-> [t \in Tasks |-> NoTask]]

\* Another configuration is published: with or without the provider.
Reconfigure == ms.gen < MaxGenerations /\ \E b \in BOOLEAN : ms' = [ms EXCEPT !.gen = @ + 1, !.configured = b]

Held(t) == ms.task[t].lease # 0
End(c, t) == [c EXCEPT !.task[t] = [NoTask EXCEPT !.pc = "ended"], !.lock = IF @ = t THEN "free" ELSE @]

-----------------------------------------------------------------------------
(* start_runtime, the periodic loop.                                       *)

StartRuntime ==
  /\ ms.life = "new"
  /\ ms' = [ms EXCEPT !.life = "running", !.running = TRUE, !.task["periodic"] = [NoTask EXCEPT !.pc = "acquired", !.lease = ms.gen]]

\* _run_loop: a turn begins with a lease of the current generation.
AcquireRun ==
  /\ ms.task["periodic"].pc = "turn"
  /\ ms' = IF ms.running THEN [ms EXCEPT !.task["periodic"].pc = "acquired", !.task["periodic"].lease = ms.gen]
           ELSE End(ms, "periodic")
Sleep == ms.task["periodic"].pc = "sleep" /\ ms' = [ms EXCEPT !.task["periodic"].pc = "turn"]

\* start_manual_full_refresh: one at a time, and only with the provider.
StartManual ==
  /\ ms.life = "running" /\ ~ms.manualRunning /\ ms.asked < MaxManual
  /\ ms' = IF ms.configured THEN [ms EXCEPT !.manualRunning = TRUE, !.asked = @ + 1,
                                            !.task["manual"] = [NoTask EXCEPT !.pc = "acquired", !.lease = ms.gen, !.full = TRUE]]
           ELSE [ms EXCEPT !.asked = @ + 1]

-----------------------------------------------------------------------------
(* _execute_runtime_run: a refresh of either task.                         *)

\* The end of a refresh: the lock and the lease go back; the loop sleeps, the
\* manual task clears its flag.
AfterRun(c, t) ==
  LET d == [c EXCEPT !.lock = IF @ = t THEN "free" ELSE @, !.task[t].lease = 0, !.task[t].catalog = {}] IN
  IF t = "periodic" THEN [d EXCEPT !.task[t].pc = IF d.running THEN "sleep" ELSE "ended"]
  ELSE [End(d, t) EXCEPT !.manualRunning = FALSE]
Refreshers == {"periodic", "manual"}
LockRefresh(t) ==
  /\ ms.task[t].pc = "acquired" /\ ms.lock = "free"
  /\ \/ ms' = [ms EXCEPT !.lock = t, !.task[t].pc = "fetch"]
     \/ ms' = AfterRun(ms, t)                                       \* its generation has no provider
\* _fetch_openrouter_catalog and the eligible entries; it may fail.
Fetch(t) ==
  /\ ms.task[t].pc = "fetch"
  /\ \/ \E m \in SUBSET Models : ms' = [ms EXCEPT !.task[t].pc = "evaluate", !.task[t].catalog = m]
     \/ ms' = AfterRun(ms, t)

\* The health of every model, then its lite eval.  With the catalog unchanged
\* only the models that have none yet are evaluated.
Full(catalog, healthy) == [models |-> catalog, done |-> healthy, count |-> Cardinality(healthy), ready |-> TRUE]

LatencyOnly(snap, healthy) ==
  LET pending == healthy \ snap.done IN
  [snap EXCEPT !.done = @ \cup pending, !.count = @ + Cardinality(pending)]
Refresh(t) ==
  LET k == ms.task[t] IN
  /\ k.pc = "evaluate"
  /\ \E healthy \in SUBSET k.catalog :
       ms' = AfterRun([ms EXCEPT !.snap = IF ~k.full /\ @.ready /\ @.models = k.catalog THEN LatencyOnly(@, healthy)
                                          ELSE Full(k.catalog, healthy)], t)

-----------------------------------------------------------------------------
(* stop: the tasks are cancelled and awaited by an operation of its own.   *)

Stop ==
  /\ ms.life \in {"new", "running"}
  /\ ms' = [ms EXCEPT !.life = "stopping", !.running = FALSE, !.manualRunning = FALSE, !.stop = "cancel"]
\* mutant: the cleared flag is taken to end the loop
CancelManual ==
  /\ ms.stop = "cancel"
  /\ ms' = [ms EXCEPT !.stop = "wait", !.task["manual"].cancel = TRUE]

\* _stop_owned_tasks
CancelOwned ==
  /\ ms.stop = "cancel"
  /\ ms' = [ms EXCEPT !.stop = "wait", !.task["periodic"].cancel = TRUE, !.task["manual"].cancel = TRUE]
\* The cancellation arrives, at whatever the task awaits.
Cancelled(t) ==
  /\ ms.task[t].cancel /\ ms.task[t].pc \notin {"none", "ended"}
  /\ ms' = [End(ms, t) EXCEPT !.manualRunning = IF t = "manual" THEN FALSE ELSE @]

\* mutant: stopped as soon as the tasks were cancelled
FinishStopEarly == ms.stop = "wait" /\ ms' = [ms EXCEPT !.stop = "no", !.life = "stopped"]

\* _finish_stop_operation
FinishStop ==
  /\ ms.stop = "wait" /\ \A t \in Refreshers : ms.task[t].pc \in {"none", "ended"}
  /\ ms' = [ms EXCEPT !.stop = "no", !.life = "stopped"]
\* A stopped service may be started again.
Restart ==
  /\ ms.life = "stopped" /\ ms.asked < MaxManual
  /\ ms' = [ms EXCEPT !.life = "running", !.running = TRUE, !.asked = @ + 1, !.task["manual"] = NoTask,
                      !.task["periodic"] = [NoTask EXCEPT !.pc = "acquired", !.lease = ms.gen]]

-----------------------------------------------------------------------------
(* FallbackModelEvalService.                                               *)

\* start_eval_with_runtime: the caller's lease is given back when it refuses.
StartEval ==
  /\ ms.evals < MaxEvals
  /\ ms' = IF ms.evalStopping \/ ms.evalRunning THEN [ms EXCEPT !.evals = @ + 1]
           ELSE [ms EXCEPT !.evals = @ + 1, !.evalRunning = TRUE, !.task["eval"] = [NoTask EXCEPT !.pc = "evaluate", !.lease = ms.gen]]
\* _run_runtime_eval: its snapshot, or its error; then the flag, then the lease.
Evaluate == ms.task["eval"].pc = "evaluate" /\ ms' = [ms EXCEPT !.task["eval"].pc = "finally"]
EndEval ==
  /\ ms.task["eval"].pc = "finally"
  /\ ms' = [ms EXCEPT !.evalRunning = FALSE, !.task["eval"].pc = "release"]
ReleaseEval == ms.task["eval"].pc = "release" /\ ms' = End(ms, "eval")
CancelEval ==
  /\ ms.task["eval"].cancel /\ ms.task["eval"].pc = "evaluate"
  /\ ms' = [ms EXCEPT !.task["eval"].pc = "finally", !.task["eval"].cancel = FALSE]
StopEval ==
  /\ ~ms.evalStopping
  /\ ms' = [ms EXCEPT !.evalStopping = TRUE, !.task["eval"].cancel = ms.task["eval"].pc \notin {"none", "ended"}]
EndStopEval ==
  /\ ms.evalStopping /\ ms.task["eval"].pc \in {"none", "ended"}
  /\ ms' = [ms EXCEPT !.evalStopping = FALSE, !.evalRunning = FALSE, !.task["eval"] = NoTask]

RefreshStep(t) == LockRefresh(t) \/ Fetch(t) \/ Refresh(t) \/ Cancelled(t)
EvalStep == Evaluate \/ EndEval \/ ReleaseEval \/ CancelEval
MSNext ==
  \/ (\E t \in Refreshers : RefreshStep(t)) \/ AcquireRun \/ CancelOwned \/ FinishStop \/ EvalStep \/ EndStopEval
  \/ StartRuntime \/ Sleep \/ StartManual \/ Stop \/ Restart \/ StartEval \/ StopEval \/ Reconfigure
MSSpec == MSInit /\ [][MSNext]_ms

-----------------------------------------------------------------------------
\* A lease is held by a task at work and by nothing else: a service that has
\* stopped holds none, no task of it can still write its ranking, and what it
\* says of itself is true.  The ranking counts as evaluated exactly the models
\* whose evaluation is completed, however the refreshes followed each other.
ScoringConsistent ==
  /\ \A t \in Tasks : Held(t) => ms.task[t].pc \in {"acquired", "fetch", "evaluate", "finally", "release"}
  /\ ms.life \in {"new", "stopped"} => /\ \A t \in Refreshers : ~Held(t) /\ ms.task[t].pc \in {"none", "ended"}
                                       /\ ms.lock = "free" /\ ~ms.running /\ ~ms.manualRunning
  /\ ms.life = "running" => (ms.manualRunning <=> ms.task["manual"].pc \notin {"none", "ended"})
  /\ ms.task["eval"].pc = "evaluate" => ms.evalRunning
  /\ ms.snap.count = Cardinality(ms.snap.done) /\ ms.snap.done \subseteq ms.snap.models

\* A stop that has not ended, with every lease back.
ScoringPending == ms.life = "stopping" \/ ms.evalStopping
=============================================================================
