CONSTANTS
  s1 = s1
  Absent = Absent
  EmptyBytes = EmptyBytes
  Unchecked = Unchecked
  NoSlot = NoSlot
  Foreign = Foreign
  NoCaller = NoCaller
  Scan = {s1}
  Tag = {s1, Foreign}
  Caller = {k1, k2}
  k1 = k1 k2 = k2 k3 = k3
  FileSeq <- MCOneFile
  Path <- ScanPath
  FaultKinds = {"worktree"}
  MaxFaults = 1
  MaxForeign = 0
SPECIFICATION Spec
CHECK_DEADLOCK FALSE
INVARIANT EvidenceNeverLost
