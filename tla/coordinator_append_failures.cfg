CONSTANTS
  NoOne = NoOne
  Ops = {m1, m2, d1}
  Mutations = {m1, m2}
  Requests = {c1, c2}
  UxpRequests = {}
  Loaders = {a}
  HonestOwners = FALSE
  MaxCrashes = 1
  MaxAppendFailures = 1
SPECIFICATION Spec
INVARIANTS TypeOK NoLostWaiter QuarantineIsDurable LoadLeavesNothing FailureInv

CHECK_DEADLOCK FALSE
SYMMETRY Symmetric
