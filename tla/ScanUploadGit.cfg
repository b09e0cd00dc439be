CONSTANTS
  s1 = s1
  Absent = Absent
  EmptyBytes = EmptyBytes
  Unchecked = Unchecked
  NoSlot = NoSlot
  Foreign = Foreign
  NoCaller = NoCaller
  Scan = {s1}
  Tag = {s1, Foreign}
  Caller = {k1, k2}
  k1 = k1 k2 = k2 k3 = k3
  FileSeq <- MCFileSeq
  Path <- ScanPath
  FaultKinds = {"read", "push", "ack", "timeout", "crash"}
  MaxFaults = 3
  MaxForeign = 1
SPECIFICATION LiveSpec
CHECK_DEADLOCK FALSE
INVARIANTS
  TypeOK
  EvidenceNeverLost
  ScansAreAtomic
  ScanCommittedOnce
PROPERTY EveryScanDelivered
