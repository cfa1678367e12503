CONSTANTS
  NoOne = NoOne
  Ops = {m1, m2}
  Mutations = {m1, m2}
  Requests = {c1, c2}
  UxpRequests = {}
  Loaders = {a}
  HonestOwners = FALSE
  MaxCrashes = 1
  MaxAppendFailures = 0
SPECIFICATION FairSpec

PROPERTIES BeginSettles EndSettles RequestSettles
CHECK_DEADLOCK FALSE
