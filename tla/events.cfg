CONSTANTS
  Orders = {x1}
  Intents = {p1}
  Handlers = {h1, h2}
  MaxRuns = 3
  MaxFailures = 1
  MaxCommands = 2
SPECIFICATION Spec
CHECK_DEADLOCK FALSE
INVARIANTS ProcessedOnce ImportedOnce CancelledStaysCancelled CollectedOnce NothingVanishes
SYMMETRY HandlerSymmetry
