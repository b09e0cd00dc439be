CONSTANTS
  svc = svc
  buildings = buildings
  o1 = o1 o2 = o2
  x = x y = y f1 = f1 f2 = f2 f3 = f3 f4 = f4
  a = a b = b
  Absent = absent
  None = None
  Torn = Torn
  Unchecked = Unchecked
  Foreign = Foreign
  NoCaller = NoCaller
  Service = svc
  Caller = {svc}
  Path = {buildings}
  Tag = {o1, o2, Foreign}
  OpId = {o1, o2}
  Object = {x, y, f1}
  FreshId = {f1}
  Val = {a, b}
  EmptyBytes <- MCEmpty
  InitialTree <- MCInitialTree
  ForeignTree <- MCForeignTree
  Request <- MCRequest
  FaultKinds = {"read", "worktree", "push", "ack", "recover", "ledger", "crash"}
  MaxFaults = 2
  MaxForeign = 1
SPECIFICATION LiveSpec
CHECK_DEADLOCK FALSE
INVARIANTS
  TypeOK
  CommittedIsAuthoritative
  RefusedOnlyIfOvertaken
PROPERTIES
  ImplementsBranch
  EveryOperationSettles
