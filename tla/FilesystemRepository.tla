------------------------ MODULE FilesystemRepository ------------------------
(***************************************************************************)
(* bridge/src/repository/filesystem.ts: the store is a directory.  Nothing *)
(* serialises commitFiles: it checks the preconditions, stages the content *)
(* aside, checks again, and then renames the staged files into place one   *)
(* after the other.  A fault between two renames leaves the first ones.    *)
(***************************************************************************)
EXTENDS RepositoryProvider

VARIABLES
    files,  \* files[p]: content of the file at path p, or Absent
    landed  \* history: <<tag, path>> of every rename, in order

fsVars == <<files, landed>>

-----------------------------------------------------------------------------
FsInit(initialFiles) ==
    /\ files = initialFiles
    /\ landed = <<>>

\* readFile: the bytes, or an I/O error.
FsRead(k) ==
    /\ call[k].step = "read"
    /\ \/ ReplyData(k, files[call[k].path]) /\ UNCHANGED faults
       \/ Fault("read") /\ Reply(k, "failed")
    /\ UNCHANGED fsVars

\* commitFiles, first pass over the preconditions, then the staging writes
\* (private to the call: .p4u-stage/<fresh id>).
FsCheck(k) ==
    /\ call[k].step = "commit"
    /\ IF PreconditionsHold(call[k].changes, files)
         THEN Advance(k, "staged")
         ELSE Reply(k, "conflict")
    /\ UNCHANGED <<fsVars, faults>>

\* commitFiles, second pass, after staging.
FsRecheck(k) ==
    /\ call[k].step = "staged"
    /\ IF PreconditionsHold(call[k].changes, files)
         THEN Advance(k, "renaming")
         ELSE Reply(k, "conflict")
    /\ UNCHANGED <<fsVars, faults>>

\* One iteration of the rename loop; after the last one the call returns.
FsRename(k) ==
    LET n == call[k].done + 1
        change == call[k].changes[n]
    IN  /\ call[k].step = "renaming"
        /\ files' = [files EXCEPT ![change.path] = change.content]
        /\ landed' = Append(landed, <<call[k].tag, change.path>>)
        /\ IF n = Len(call[k].changes)
             THEN Reply(k, "committed")
             ELSE call' = [call EXCEPT ![k].done = n]
        /\ UNCHANGED faults

\* Any I/O error of commitFiles; the renames already done stay.
FsCommitFails(k) ==
    /\ call[k].step \in {"commit", "staged", "renaming"}
    /\ Fault("write")
    /\ Reply(k, "failed")
    /\ UNCHANGED fsVars

FsStep(k) ==
    \/ FsRead(k)
    \/ FsCheck(k)
    \/ FsRecheck(k)
    \/ FsRename(k)
    \/ FsCommitFails(k)
=============================================================================
