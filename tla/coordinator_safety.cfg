CONSTANTS
  NoOne = NoOne
  Ops = {m1, m2}
  Mutations = {m1, m2}
  Requests = {c1, c2, u1}
  UxpRequests = {u1}
  Loaders = {a}
  HonestOwners = TRUE
  MaxCrashes = 2
  MaxAppendFailures = 0
SPECIFICATION Spec
INVARIANTS NoOverlappingMutations QuarantineExcludesMutation NoForgottenMutation NoLeaseLost IInv
PROPERTIES TerminalOutcomeIsFinal OnlyCrashLeftPromoted KeepsPromise
CHECK_DEADLOCK FALSE
SYMMETRY Symmetric
