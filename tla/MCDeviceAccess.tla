--------------------------- MODULE MCDeviceAccess ---------------------------
\* One headset, two pairing codes, three sessions, two handlers at a time.
\* Handlers are alike, and so are pairings and sessions.
EXTENDS DeviceAccess, TLC

CONSTANTS d1, p1, p2, s1, s2, s3, k1, k2

MCAlike == Permutations(Pairing) \union Permutations(Session) \union Permutations(Slot)
=============================================================================
