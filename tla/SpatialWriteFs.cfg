CONSTANTS
  svc = svc
  buildings = buildings
  o1 = o1 o2 = o2 o3 = o3
  x = x y = y f1 = f1 f2 = f2 f3 = f3 f4 = f4
  a = a b = b
  absent = absent
  None = None
  Torn = Torn
  Unchecked = Unchecked
  Service = svc
  Caller = {svc}
  Path = {buildings}
  Tag = {o1, o2, o3}
  OpId = {o1, o2, o3}
  Object = {x, y, f1, f2, f3}
  FreshId = {f1, f2, f3}
  Val = {a, b}
  Absent = absent
  EmptyBytes <- MCEmpty
  FaultKinds = {"read", "write", "ledger", "crash"}
  MaxFaults = 2
  Request <- MCRequest
  InitialFiles <- MCInitialFiles
SPECIFICATION LiveSpec
CHECK_DEADLOCK FALSE
INVARIANTS
  TypeOK
  NoRepeatUntilOvertaken
  RefusedOnlyIfOvertaken
  RecoverableUntilOvertaken
  IInv
PROPERTIES
  ImplementsSource
  EveryOperationSettles
