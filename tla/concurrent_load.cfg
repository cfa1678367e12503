CONSTANTS
  NoOne = NoOne
  Ops = {m1}
  Mutations = {m1}
  Requests = {c1}
  UxpRequests = {}
  Loaders = {a, b}
  HonestOwners = TRUE
  MaxCrashes = 0
  MaxAppendFailures = 0
SPECIFICATION Spec

PROPERTIES OnlyCrashLeftPromoted
CHECK_DEADLOCK FALSE
