SPECIFICATION MCSpec
CONSTANTS
  Updaters = {u1, u2}
  Sources = {f1, f2}
  OutsideEdits = {x1}
  Failures = 2
  Runs = {r1, r2}
  Capacity = 1
  MaxCalls = 1
  Parents = {p1}
  Children = {1, 2, 3}
  Callbacks = {1}
  MaxContexts = 1
  MaxChildren = 2
  Attempts = 2
  Models = {1, 2}
  MaxGenerations = 2
  MaxManual = 2
  MaxEvals = 1
CHECK_DEADLOCK FALSE
INVARIANTS FileMatchesRuntime NothingOutlivesItsRun RollupExact ScoringConsistent
PROPERTIES NoLostUpdate OwnersSettle
