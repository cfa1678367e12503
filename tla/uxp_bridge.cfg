SPECIFICATION Spec
CONSTANTS
  t1 = t1
  t2 = t2
  Tools = {t1, t2}
  Gone = Gone
  Nodes = {"a"}
  MaxConns = 2
  MaxHandles = 1
  Scenarios <- MCScenarios
INVARIANTS TypeOK PendingOnCurrentSocket ConnectedPanelIsCurrent FailedEditedNothing EditsWhatWasFound
CHECK_DEADLOCK FALSE
