--------------------------- MODULE MCScanUploadGit ---------------------------
\* One scan of two files, two requests at a time.
EXTENDS ScanUploadGit

CONSTANTS s1, k1, k2, k3

MCFileSeq == <<"depth.bin", "pose.json">>
MCOneFile == <<"depth.bin">>
=============================================================================
