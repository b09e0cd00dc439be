--------------------------- MODULE MCScanUploadFs ---------------------------
\* One scan of two files and up to three requests at a time, which are alike.
EXTENDS ScanUploadFs, TLC

CONSTANTS s1, k1, k2, k3

MCFileSeq == <<"depth.bin", "pose.json">>
MCAlike == Permutations(Caller)
=============================================================================
