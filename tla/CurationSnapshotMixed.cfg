CONSTANTS
  u1 = u1
  a1 = a1 a2 = a2
  d1 = d1 d2 = d2 b1 = b1
  c1 = c1
  p1 = p1 p2 = p2
  m1 = m1 m2 = m2
  x1 = x1 x2 = x2
  w1 = w1 w2 = w2
  v1 = v1 v2 = v2
  k1 = k1 k2 = k2
  None = None
  Unset = None
  Absent = Absent
  Torn = Torn
  EmptyBytes = EmptyBytes
  Unchecked = Unchecked
  Caller = {k1, k2}
  Promoter = {k1, k2}
  Reader = {k1, k2}
  Upload = {u1}
  Artifact = {a1, a2}
  Tag = {a1, a2}
  Description = {d1, d2}
  Content = {b1}
  Declares <- MCDeclares
  Unnamed = {d2}
  Path <- MCPath
  Candidate = {c1}
  Payload = {p1, p2}
  Refers <- MCRefers
  Agrees <- MCAgrees
  Named <- MCNamed
  Collections <- MCCollections
  Goal <- MCGoal
  Object = {x1, x2}
  Write <- MCWrite
  Held <- MCHeld
  Revision = {p1, p2, v1, v2}
  FaultKinds = {}
  MaxFaults = 0
  Offered = {d1}
  Mixes <- MCSnapshots
  MaxRequests <- MCSnapshotRequests
SPECIFICATION Spec
CHECK_DEADLOCK FALSE
INVARIANT SnapshotIsOneState
