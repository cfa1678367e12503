SPECIFICATION FairSpec
CONSTANTS
  Calls = {m1, l1}
  Mutations = {m1}
  Batches = {}
  Locals = {l1}
  MaxConns = 2
  MaxRefreshes = 1
INVARIANTS TypeOK HonestOutcome SuccessIsNotFailure ActiveIsOwned ReportedIsUnresolved
PROPERTY CallReturns
CHECK_DEADLOCK FALSE
