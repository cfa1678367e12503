CONSTANTS
  NoOne = NoOne
  Ops = {m1, d1}
  Mutations = {m1}
  Requests = {c1, c2}
  UxpRequests = {}
  Loaders = {a}
  HonestOwners = TRUE
  MaxCrashes = 0
  MaxAppendFailures = 0
SPECIFICATION Spec
INVARIANTS CepLeaseReturned

CHECK_DEADLOCK FALSE
