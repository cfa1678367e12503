SPECIFICATION FairSpec
CONSTANTS
  Executes = {x1}
  Preflights = {f1}
  DomProbes = {d1}
  Others = {}
  MaxPanels = 2
INVARIANTS TypeOK PendingOnCurrentPanel OneAtATime StreakOfThisPanel LateFollowsOpenAnswer
PROPERTY QueueMovesOn
CHECK_DEADLOCK FALSE
