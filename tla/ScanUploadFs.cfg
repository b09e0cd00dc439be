CONSTANTS
  s1 = s1
  Absent = Absent
  EmptyBytes = EmptyBytes
  Unchecked = Unchecked
  NoSlot = NoSlot
  Scan = {s1}
  Tag = {s1}
  Caller = {k1, k2, k3}
  k1 = k1 k2 = k2 k3 = k3
  FileSeq <- MCFileSeq
  Path <- ScanPath
  FaultKinds = {"write", "timeout", "fileTimeout", "crash", "cleanup"}
  MaxFaults = 3
SPECIFICATION Spec
SYMMETRY MCAlike
CHECK_DEADLOCK FALSE
INVARIANTS
  TypeOK
  EvidenceNeverLost
  MarkerVouches
