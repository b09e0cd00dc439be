---------------------------- MODULE ScanUploadFs ----------------------------
(***************************************************************************)
(* Scan upload with the filesystem provider: nothing serialises two        *)
(* commits, and a commit is one rename after the other.                    *)
(***************************************************************************)
EXTENDS ScanUpload, FilesystemRepository

vars == <<call, faults, scanVars, fsVars>>

Init ==
    /\ ProviderInit
    /\ ScanInit
    /\ FsInit([p \in Path |-> Absent])

Next ==
    \/ ScanStep /\ UNCHANGED fsVars
    \/ \E k \in Caller : FsStep(k) /\ UNCHANGED scanVars
    \/ ScanCrash /\ UNCHANGED fsVars

Spec == Init /\ [][Next]_vars

-----------------------------------------------------------------------------
TypeOK ==
    /\ call \in [Caller -> CallState(RepositoryContent)]
    /\ faults \in FaultHistory
    /\ ScanTypeOK
    /\ files \in [Path -> RepositoryContent \union {Absent}]
    /\ landed \in Seq(Scan \X Path)

Complete(s) ==
    /\ files[ManifestPath(s)] = "manifest"
    /\ \A f \in File : files[FilePath(s, f)] = "whole"

\* The outbox holds the only other copy: once it is deleted, the repository
\* has the scan, its marker and every file as captured, unless a straggler
\* changed what commit() collected.
EvidenceNeverLost ==
    NoStragglerWrites => \A s \in Scan : client[s].pc = "removed" =>
        files[MarkerPath(s)] # Absent /\ Complete(s)

\* The marker vouches for the scan: whenever it is there, at any point of any
\* interrupted, repeated or concurrent commit, all the rest is there, and whole
\* unless a straggler changed what commit() collected: it reads the staged files
\* after it verified them, and does not verify them again.
MarkerVouches ==
    \A s \in Scan : files[MarkerPath(s)] # Absent =>
        /\ \A p \in Path : p[1] = s => files[p] # Absent
        /\ NoStragglerWrites => Complete(s)
=============================================================================
