CONSTANTS
  d1 = d1
  p1 = p1 p2 = p2
  s1 = s1 s2 = s2 s3 = s3
  k1 = k1 k2 = k2
  None = None
  Device = {d1}
  Pairing = {p1, p2}
  Session = {s1, s2, s3}
  Slot = {k1, k2}
  FaultKinds = {"answer", "timeout", "restart", "crash"}
  MaxFaults = 1
SPECIFICATION Spec
SYMMETRY MCAlike
CHECK_DEADLOCK FALSE
INVARIANTS
  TypeOK
  OneCredentialPerPairing
  RevokedIsGone
  HeadsetKeepsItsCredential
PROPERTY DecisionsAreFinal
