SPECIFICATION FairSpec
CONSTANTS
  Readers = {r1, r2}
  MaxAppends = 3
  MaxWriteFailures = 1
  MaxCrashes = 1
INVARIANTS TypeOK DurableStays ReadIsComplete ReadInOrder
PROPERTIES AppendSettles ReadSettles
CHECK_DEADLOCK FALSE
