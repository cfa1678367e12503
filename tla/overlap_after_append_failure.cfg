CONSTANTS
  NoOne = NoOne
  Ops = {m1, m2}
  Mutations = {m1, m2}
  Requests = {c1, u1}
  UxpRequests = {u1}
  Loaders = {a}
  HonestOwners = TRUE
  MaxCrashes = 0
  MaxAppendFailures = 1
SPECIFICATION Spec
INVARIANTS NoOverlappingMutations

CHECK_DEADLOCK FALSE
