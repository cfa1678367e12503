SPECIFICATION Spec
CONSTANTS
  Calls = {b1}
  Mutations = {b1}
  Batches = {b1}
  Locals = {}
  MaxConns = 2
  MaxRefreshes = 1
INVARIANT TimedOutIsUnknown
CHECK_DEADLOCK FALSE
