------------------------- MODULE ScanUploadFs_proofs -------------------------
(***************************************************************************)
(* Proofs about ScanUploadFs, for any scans, files, requests and faults.   *)
(***************************************************************************)
EXTENDS ScanUploadFs, ScanUpload_proofs

-----------------------------------------------------------------------------
(***************************************************************************)
(* The invariant.                                                          *)
(***************************************************************************)
\* The scans whose marker is in the repository.
Marked == {s \in Scan : files[MarkerPath(s)] # Absent}

\* The renames a commit has done, the marker's being the last.
RenamesOK(k) ==
    /\ call[k].step \in {"commit", "staged"} => call[k].done = 0
    /\ call[k].step = "renaming" =>
         /\ call[k].done < Len(call[k].changes)
         /\ \A i \in 1..call[k].done : files[call[k].changes[i].path] # Absent

FilesOK ==
    /\ files \in [Path -> RepositoryContent \union {Absent}]
    /\ landed \in Seq(Scan \X Path)
    /\ \A s \in Scan :
         /\ files[ManifestPath(s)] \in {Absent, "manifest"}
         /\ \A f \in File : /\ files[FilePath(s, f)] \in FileContent \union {Absent}
                            /\ NoStraggler => files[FilePath(s, f)] # "partial"
         /\ s \in Marked => \A p \in Path : p[1] = s => files[p] # Absent

IInv ==
    /\ ScanInv(Marked, Marked)
    /\ FilesOK
    /\ \A k \in Caller : RenamesOK(k)

-----------------------------------------------------------------------------
(***************************************************************************)
(* Renames.                                                                *)
(***************************************************************************)
\* What is in the repository stays there.
FilesStay == \A p \in Path : files[p] # Absent => files'[p] # Absent

LEMMA MarkedStays ==
    ASSUME FilesStay
    PROVE  Marked \subseteq Marked'
BY Paths DEF Marked, FilesStay

LEMMA FilesRest ==
    ASSUME FilesOK, UNCHANGED fsVars, NoStraggler' => NoStraggler
    PROVE  FilesOK' /\ Marked' = Marked /\ FilesStay
<1>1. files' = files /\ landed' = landed
  BY DEF fsVars
<1>2. Marked' = Marked /\ FilesStay
  BY <1>1 DEF Marked, FilesStay
<1> QED
  BY <1>1, <1>2 DEF FilesOK

LEMMA RenamesStay ==
    ASSUME NEW k \in Caller, RenamesOK(k), call'[k] = call[k], FilesStay,
           call[k].step = "renaming" =>
             \A i \in 1..call[k].done : call[k].changes[i].path \in Path
    PROVE  RenamesOK(k)'
BY DEF RenamesOK, FilesStay

\* The paths a commit renames to, and what it puts there.
LEMMA RenamePaths ==
    ASSUME NEW M, ScanInv(M, M), NEW k \in Caller, call[k].step \in CommitSteps
    PROVE  /\ Len(call[k].changes) \in Nat
           /\ DOMAIN call[k].changes = 1..Len(call[k].changes)
           /\ \A i \in 1..Len(call[k].changes) :
                /\ call[k].changes[i] \in Change(RepositoryContent)
                /\ call[k].changes[i].path \in Path
                /\ call[k].changes[i].content \in RepositoryContent
           /\ call[k].done \in Nat
<1>1. call[k].changes \in Seq(Change(RepositoryContent))
  BY Committed
<1>2. call[k].done \in Nat
  BY CallAtPoint, CallFields
<1>3. \A c \in Change(RepositoryContent) : c.path \in Path /\ c.content \in RepositoryContent
  BY DEF Change
<1> QED
  BY <1>1, <1>2, <1>3

LEMMA RenamesRest ==
    ASSUME NEW M, ScanInv(M, M), NEW k \in Caller, RenamesOK(k), call'[k] = call[k], FilesStay
    PROVE  RenamesOK(k)'
<1>1. call[k].step = "renaming" =>
        \A i \in 1..call[k].done : call[k].changes[i].path \in Path
  <2> SUFFICES ASSUME call[k].step = "renaming", NEW i \in 1..call[k].done
               PROVE  call[k].changes[i].path \in Path
    OBVIOUS
  <2>1. call[k].step \in CommitSteps
    BY DEF CommitSteps
  <2>2. call[k].done < Len(call[k].changes)
    BY DEF RenamesOK
  <2>3. i \in 1..Len(call[k].changes)
    BY <2>1, <2>2, RenamePaths
  <2> QED
    BY <2>1, <2>3, RenamePaths
<1> QED
  BY <1>1, RenamesStay

-----------------------------------------------------------------------------
(***************************************************************************)
(* Steps of the service and of the headset.                                *)
(***************************************************************************)
LEMMA ScanKeeps ==
    ASSUME IInv, ScanStep \/ ScanCrash, UNCHANGED fsVars
    PROVE  IInv'
<1>1. PICK M : M = Marked
  OBVIOUS
<1>2. ScanInv(M, M)
  BY <1>1 DEF IInv
<1>3. FaultsGoOn
  BY <1>2, ScanFaults
<1>4. FilesOK' /\ Marked' = M /\ FilesStay
  <2>1. NoStraggler' => NoStraggler
    BY <1>3 DEF FaultsGoOn, NoStraggler
  <2> QED
    BY <1>1, <2>1, FilesRest DEF IInv
<1>5. ScanInv(M, M)'
  BY <1>2, ScanStepKeeps, ScanCrashKeeps
<1>6. ASSUME NEW k \in Caller
      PROVE  RenamesOK(k)'
  <2>1. RenamesOK(k)
    BY DEF IInv
  <2>2. \/ call'[k] = call[k]
        \/ call'[k].step \in {"idle", "read"}
        \/ call'[k].step = "commit" /\ call'[k].done = 0
    BY <1>2, ScanCalls
  <2>3. CASE call'[k] = call[k]
    BY <1>2, <1>4, <2>1, <2>3, RenamesRest
  <2>4. CASE \/ call'[k].step \in {"idle", "read"}
             \/ call'[k].step = "commit" /\ call'[k].done = 0
    BY <2>4 DEF RenamesOK
  <2> QED
    BY <2>2, <2>3, <2>4
<1> QED
  BY <1>4, <1>5, <1>6 DEF IInv

-----------------------------------------------------------------------------
(***************************************************************************)
(* Steps of the provider.                                                  *)
(***************************************************************************)
\* A step of the provider that renames nothing.
LEMMA ProviderTalks ==
    ASSUME IInv, NEW k \in Caller, UNCHANGED fsVars, FaultsGoOn,
           \A j \in Caller \ {k} : call'[j] = call[j],
           RenamesOK(k)', ScanInv(Marked, Marked)'
    PROVE  IInv'
<1>1. NoStraggler' => NoStraggler
  BY DEF FaultsGoOn, NoStraggler
<1>2. FilesOK' /\ FilesStay
  BY <1>1, FilesRest DEF IInv
<1>3. PICK M : M = Marked
  OBVIOUS
<1>4. ScanInv(M, M)
  BY <1>3 DEF IInv
<1>5. \A j \in Caller : RenamesOK(j)'
  BY <1>2, <1>4, RenamesRest DEF IInv
<1> QED
  BY <1>2, <1>5 DEF IInv

LEMMA FsReadKeeps ==
    ASSUME IInv, NEW k \in Caller, FsRead(k), UNCHANGED scanVars
    PROVE  IInv'
<1>1. PICK M : M = Marked
  OBVIOUS
<1>2. ScanInv(M, M) /\ call[k].step = "read" /\ UNCHANGED fsVars
  BY <1>1 DEF IInv, FsRead
<1>3. /\ call \in [Caller -> CallState(RepositoryContent)] /\ faults \in FaultHistory
      /\ files \in [Path -> RepositoryContent \union {Absent}] /\ req' = req
  BY <1>2, TypesFields DEF ScanInv, IInv, FilesOK, scanVars
<1>4. /\ req[k].pc \in {"manifest", "marker"} /\ req[k].scan \in Scan
      /\ call[k].path = MarkerPath(req[k].scan)
  BY <1>2, MarkerRead
<1>5. CASE Fault("read") /\ Reply(k, "failed")
  <2>1. FaultsGoOn
    BY <1>3, <1>5, FaultTyped
  <2>2. ScanInv(M, M)'
    BY <1>2, <1>4, <1>5, <2>1, FailureReply
  <2>3. \A j \in Caller \ {k} : call'[j] = call[j]
    BY <1>3, <1>5 DEF Reply
  <2>4. RenamesOK(k)'
    BY <1>3, <1>5 DEF RenamesOK, Reply
  <2>5. Marked' = M
    BY <1>1, <1>2 DEF fsVars, Marked
  <2> QED
    BY <1>2, <2>1, <2>2, <2>3, <2>4, <2>5, ProviderTalks
<1>6. CASE ReplyData(k, files[call[k].path]) /\ UNCHANGED faults
  <2>1. FaultsGoOn
    BY <1>3, <1>6, NoFault
  <2>2. PICK content : content = files[MarkerPath(req[k].scan)]
    OBVIOUS
  <2>3. PICK c : c = [step |-> "data", content |-> content]
    OBVIOUS
  <2>4. content \in RepositoryContent \union {Absent}
    BY <1>3, <1>4, <2>2, Paths
  <2>5. c \in CallState(RepositoryContent) /\ c.step = "data" /\ c.content = content
    BY <2>3, <2>4, CallShapes
  <2>6. call' = [call EXCEPT ![k] = c]
    BY <1>4, <1>6, <2>2, <2>3 DEF ReplyData
  <2>7. /\ call' \in [Caller -> CallState(RepositoryContent)] /\ call'[k] = c
        /\ \A j \in Caller \ {k} : call'[j] = call[j]
    BY <1>3, <2>5, <2>6
  <2>8. content # Absent => req[k].scan \in M
    BY <1>1, <1>4, <2>2 DEF Marked
  <2>9. CallOK(k, M, M)'
    BY <1>3, <1>4, <2>5, <2>7, <2>8 DEF CallOK
  <2>10. ScanInv(M, M)'
    BY <1>2, <2>1, <2>7, <2>9, ProviderKeeps
  <2>11. RenamesOK(k)'
    BY <2>5, <2>7 DEF RenamesOK
  <2>12. Marked' = M
    BY <1>1, <1>2 DEF fsVars, Marked
  <2> QED
    BY <1>2, <2>1, <2>7, <2>10, <2>11, <2>12, ProviderTalks
<1> QED
  BY <1>5, <1>6 DEF FsRead

LEMMA FsCommitFailsKeeps ==
    ASSUME IInv, NEW k \in Caller, FsCommitFails(k), UNCHANGED scanVars
    PROVE  IInv'
<1>1. PICK M : M = Marked
  OBVIOUS
<1>2. /\ ScanInv(M, M) /\ UNCHANGED fsVars /\ call[k].step \in CommitSteps
      /\ Fault("write") /\ Reply(k, "failed")
  BY <1>1 DEF IInv, FsCommitFails, CommitSteps
<1>3. /\ call \in [Caller -> CallState(RepositoryContent)] /\ faults \in FaultHistory
  BY <1>2, TypesFields DEF ScanInv
<1>4. FaultsGoOn
  BY <1>2, <1>3, FaultTyped
<1>5. ScanInv(M, M)'
  BY <1>2, <1>4, Committed, FailureReply
<1>6. (\A j \in Caller \ {k} : call'[j] = call[j]) /\ RenamesOK(k)'
  BY <1>2, <1>3 DEF Reply, RenamesOK
<1>7. Marked' = M
  BY <1>1, <1>2 DEF fsVars, Marked
<1> QED
  BY <1>2, <1>4, <1>5, <1>6, <1>7, ProviderTalks

\* Where the preconditions of a commit hold, its scan is not committed yet.
LEMMA NotMarkedYet ==
    ASSUME NEW M, ScanInv(M, M), M = Marked, NEW k \in Caller,
           call[k].step \in CommitSteps, PreconditionsHold(call[k].changes, files)
    PROVE  req[k].scan \notin M
<1>1. /\ req[k].scan \in Scan /\ Commits(k, M)
  BY Committed
<1>2. PICK got \in Collected : call[k].changes = CommitChanges(k, req[k].scan, got)
  BY <1>1 DEF Commits
<1>3. PICK n, s : n = Len(FileSeq) /\ s = req[k].scan
  OBVIOUS
<1>4. /\ Len(call[k].changes) = n + 2
      /\ call[k].changes[n + 2] = New(MarkerPath(s), k)
  BY <1>1, <1>2, <1>3, ChangesOfCommit
<1>5. n \in Nat
  BY <1>3, FilesOfSeq
<1>6. n + 2 \in DOMAIN call[k].changes
  BY <1>4, <1>5, RenamePaths
<1>7. PreconditionHolds(New(MarkerPath(s), k), files)
  BY <1>4, <1>6 DEF PreconditionsHold
<1>8. New(MarkerPath(s), k).ifAbsent /\ New(MarkerPath(s), k).path = MarkerPath(s)
  BY DEF New
<1>9. files[MarkerPath(s)] = Absent
  BY <1>7, <1>8 DEF PreconditionHolds
<1> QED
  BY <1>1, <1>3, <1>9 DEF Marked

LEMMA ChecksKeep ==
    ASSUME IInv, NEW k \in Caller, FsCheck(k) \/ FsRecheck(k), UNCHANGED scanVars
    PROVE  IInv'
<1>1. PICK M : M = Marked
  OBVIOUS
<1>2. PICK next : next = IF call[k].step = "commit" THEN "staged" ELSE "renaming"
  OBVIOUS
<1>3. /\ ScanInv(M, M) /\ UNCHANGED fsVars /\ call[k].step \in {"commit", "staged"}
      /\ faults' = faults
      /\ IF PreconditionsHold(call[k].changes, files)
           THEN Advance(k, next) ELSE Reply(k, "conflict")
  BY <1>1, <1>2 DEF IInv, FsCheck, FsRecheck
<1>4. call[k].step \in CommitSteps /\ next \in {"staged", "renaming"} /\ next \in CommitSteps
  BY <1>2, <1>3 DEF CommitSteps
<1>5. /\ call \in [Caller -> CallState(RepositoryContent)] /\ faults \in FaultHistory
      /\ req' = req
  BY <1>3, TypesFields DEF ScanInv, scanVars
<1>6. FaultsGoOn /\ (NoStraggler' => NoStraggler)
  BY <1>3, <1>5, NoFault
<1>7. Marked' = M
  BY <1>1, <1>3 DEF fsVars, Marked
<1>8. CASE Reply(k, "conflict")
  <2>1. ScanInv(M, M)'
    BY <1>3, <1>4, <1>6, <1>8, Committed, FailureReply
  <2>2. (\A j \in Caller \ {k} : call'[j] = call[j]) /\ RenamesOK(k)'
    BY <1>5, <1>8 DEF Reply, RenamesOK
  <2> QED
    BY <1>3, <1>6, <1>7, <2>1, <2>2, ProviderTalks
<1>9. CASE PreconditionsHold(call[k].changes, files) /\ Advance(k, next)
  <2>1. /\ req[k].pc = "commit" /\ req[k].scan \in Scan /\ call[k].tag = req[k].scan
        /\ Commits(k, M) /\ call[k].changes \in Seq(Change(RepositoryContent))
    BY <1>3, <1>4, Committed
  <2>2. req[k].scan \notin M
    BY <1>1, <1>3, <1>4, <1>9, NotMarkedYet
  <2>3. PICK got \in Collected :
          /\ call[k].changes = CommitChanges(k, req[k].scan, got)
          /\ NoStraggler => Whole(got)
    BY <2>1, <2>2 DEF Commits
  <2>4. call[k].done = 0
    BY <1>3 DEF IInv, RenamesOK
  <2>5. PICK c : c = [step |-> next, tag |-> call[k].tag,
                      changes |-> call[k].changes, done |-> call[k].done]
    OBVIOUS
  <2>6. c \in CallState(RepositoryContent)
    <3>1. c \in [step: {"commit", "staged", "renaming", "push", "recover"},
                 changes: Seq(Change(RepositoryContent)), tag: Tag, done: Nat]
      BY <1>4, <2>1, <2>4, <2>5, ScanAssumption
    <3> QED
      BY <3>1 DEF CallState
  <2>7. /\ c.step = next /\ c.tag = req[k].scan /\ c.changes = call[k].changes /\ c.done = 0
    BY <2>1, <2>4, <2>5
  <2>8. call' = [call EXCEPT ![k] = c]
    BY <1>9, <2>5 DEF Advance
  <2>9. /\ call' \in [Caller -> CallState(RepositoryContent)] /\ call'[k] = c
        /\ \A j \in Caller \ {k} : call'[j] = call[j]
    BY <1>5, <2>6, <2>8
  <2>10. Commits(k, M)'
    BY <1>5, <1>6, <2>3, <2>7, <2>9 DEF Commits
  <2>11. CallOK(k, M, M)'
    BY <1>4, <1>5, <2>1, <2>7, <2>9, <2>10 DEF CallOK, CommitSteps
  <2>12. ScanInv(M, M)'
    BY <1>3, <1>6, <2>9, <2>11, ProviderKeeps
  <2>13. 0 < Len(call[k].changes)
    BY <2>1, <2>3, ChangesOfCommit, FilesOfSeq
  <2>14. RenamesOK(k)'
    BY <2>7, <2>9, <2>13 DEF RenamesOK
  <2> QED
    BY <1>3, <1>6, <1>7, <2>9, <2>12, <2>14, ProviderTalks
<1> QED
  BY <1>3, <1>8, <1>9

\* One rename: which of the paths of the scan it is about, and the content.
LEMMA RenameOf ==
    ASSUME NEW M, ScanInv(M, M), NEW k \in Caller, call[k].step = "renaming",
           NEW n \in 1..Len(call[k].changes), NEW s, s = req[k].scan
    PROVE  LET change == call[k].changes[n]
           IN  \/ change.path = ManifestPath(s) /\ change.content = "manifest"
               \/ \E f \in File :
                    /\ change.path = FilePath(s, f)
                    /\ change.content \in FileContent
                    /\ NoStraggler => change.content = "whole"
               \/ /\ n = Len(call[k].changes)
                  /\ change.path = MarkerPath(s) /\ change.content \in RepositoryContent
<1>1. call[k].step \in CommitSteps
  BY DEF CommitSteps
<1>2. s \in Scan /\ Commits(k, M)
  BY <1>1, Committed
<1>3. PICK got \in Collected : /\ call[k].changes = CommitChanges(k, s, got)
                               /\ NoStraggler => Whole(got)
  BY <1>2 DEF Commits
<1>4. PICK size : size = Len(FileSeq)
  OBVIOUS
<1>5. PICK changes : changes = call[k].changes
  OBVIOUS
<1>6. /\ Len(changes) = size + 2
      /\ changes[1] = New(ManifestPath(s), "manifest")
      /\ \A i \in 1..size : changes[i + 1] = New(FilePath(s, FileSeq[i]), got[i])
      /\ changes[size + 2] = New(MarkerPath(s), k)
  BY <1>2, <1>3, <1>4, <1>5, ChangesOfCommit
<1>7. size \in Nat /\ DOMAIN got = 1..size /\ \A i \in 1..size : FileSeq[i] \in File
  BY <1>4, FilesOfSeq DEF Collected
<1>8. CASE n = 1
  BY <1>5, <1>6, <1>8 DEF New
<1>9. CASE n = size + 2
  BY <1>5, <1>6, <1>9 DEF New, RepositoryContent
<1>10. CASE n \in 2..(size + 1)
  <2>1. PICK i \in 1..size : n = i + 1
    <3>1. n - 1 \in 1..size /\ n = (n - 1) + 1
      BY <1>7, <1>10
    <3> QED
      BY <3>1
  <2>2. changes[n] = New(FilePath(s, FileSeq[i]), got[i])
    BY <1>6, <2>1
  <2>3. FileSeq[i] \in File /\ got[i] \in FileContent /\ (NoStraggler => got[i] = "whole")
    BY <1>3, <1>4, <1>7, FilesOfSeq DEF Collected, Whole
  <2> QED
    BY <1>5, <2>2, <2>3 DEF New
<1> QED
  BY <1>5, <1>6, <1>7, <1>8, <1>9, <1>10

\* The marker is renamed last: all other files of the scan are there by then.
LEMMA RestBeforeMarker ==
    ASSUME NEW M, ScanInv(M, M), NEW k \in Caller, call[k].step = "renaming", RenamesOK(k),
           call[k].done + 1 = Len(call[k].changes), NEW s, s = req[k].scan
    PROVE  /\ files[ManifestPath(s)] # Absent
           /\ \A f \in File : files[FilePath(s, f)] # Absent
<1>1. call[k].step \in CommitSteps
  BY DEF CommitSteps
<1>2. s \in Scan /\ Commits(k, M)
  BY <1>1, Committed
<1>3. PICK got \in Collected : call[k].changes = CommitChanges(k, s, got)
  BY <1>2 DEF Commits
<1>4. PICK size : size = Len(FileSeq)
  OBVIOUS
<1>5. PICK changes : changes = call[k].changes
  OBVIOUS
<1>6. /\ Len(changes) = size + 2
      /\ changes[1] = New(ManifestPath(s), "manifest")
      /\ \A i \in 1..size : changes[i + 1] = New(FilePath(s, FileSeq[i]), got[i])
  BY <1>2, <1>3, <1>4, <1>5, ChangesOfCommit
<1>7. size \in Nat /\ \A f \in File : \E i \in 1..size : f = FileSeq[i]
  BY <1>4, FilesOfSeq
<1>8. call[k].done = size + 1
  BY <1>1, <1>5, <1>6, <1>7, RenamePaths
<1>9. \A i \in 1..(size + 1) : files[changes[i].path] # Absent
  BY <1>5, <1>8 DEF RenamesOK
<1>10. files[ManifestPath(s)] # Absent
  BY <1>6, <1>7, <1>9 DEF New
<1>11. ASSUME NEW f \in File
       PROVE  files[FilePath(s, f)] # Absent
  <2>1. PICK i \in 1..size : f = FileSeq[i]
    BY <1>7
  <2>2. changes[i + 1].path = FilePath(s, f)
    <3>1. changes[i + 1] = New(FilePath(s, FileSeq[i]), got[i])
      BY <1>6
    <3>2. changes[i + 1].path = FilePath(s, FileSeq[i])
      BY <3>1 DEF New
    <3> QED
      BY <2>1, <3>2
  <2>3. i + 1 \in 1..(size + 1)
    BY <1>7
  <2> QED
    BY <1>9, <2>2, <2>3
<1> QED
  BY <1>10, <1>11

LEMMA FsRenameFiles ==
    ASSUME IInv, NEW k \in Caller, FsRename(k)
    PROVE  /\ FilesOK' /\ FilesStay
           /\ files'[call[k].changes[call[k].done + 1].path] # Absent
           /\ call[k].done + 1 \in 1..Len(call[k].changes)
           /\ call[k].done + 1 = Len(call[k].changes) => req[k].scan \in Marked'
<1>1. PICK M : M = Marked
  OBVIOUS
<1>2. PICK s : s = req[k].scan
  OBVIOUS
<1>3. PICK n : n = call[k].done + 1
  OBVIOUS
<1>4. PICK change : change = call[k].changes[n]
  OBVIOUS
<1>5. /\ ScanInv(M, M) /\ RenamesOK(k) /\ call[k].step = "renaming"
      /\ files' = [files EXCEPT ![change.path] = change.content]
      /\ landed' = Append(landed, <<call[k].tag, change.path>>)
      /\ faults' = faults
  BY <1>1, <1>3, <1>4 DEF IInv, FsRename
<1>6. call[k].step \in CommitSteps
  BY <1>5 DEF CommitSteps
<1>7. s \in Scan /\ call[k].tag = s
  BY <1>2, <1>5, <1>6, Committed
<1>8. /\ n \in 1..Len(call[k].changes)
      /\ change.path \in Path /\ change.content \in RepositoryContent
  BY <1>3, <1>4, <1>5, <1>6, RenamePaths DEF RenamesOK
<1>9. /\ files \in [Path -> RepositoryContent \union {Absent}] /\ landed \in Seq(Scan \X Path)
      /\ faults \in FaultHistory
  BY <1>5, TypesFields DEF IInv, FilesOK, ScanInv
<1>10. NoStraggler' => NoStraggler
  BY <1>5, <1>9, NoFault
<1>11. /\ files' \in [Path -> RepositoryContent \union {Absent}]
       /\ files'[change.path] = change.content
       /\ \A p \in Path \ {change.path} : files'[p] = files[p]
  BY <1>5, <1>8, <1>9
<1>12. landed' \in Seq(Scan \X Path)
  BY <1>5, <1>7, <1>8, <1>9, AppendProperties
<1>13. change.content # Absent /\ FilesStay
  BY <1>8, <1>11, AbsentAssumption DEF FilesStay
<1>14. \/ change.path = ManifestPath(s) /\ change.content = "manifest"
       \/ \E f \in File :
            /\ change.path = FilePath(s, f)
            /\ change.content \in FileContent
            /\ NoStraggler => change.content = "whole"
       \/ /\ n = Len(call[k].changes)
          /\ change.path = MarkerPath(s) /\ change.content \in RepositoryContent
  BY <1>2, <1>4, <1>5, <1>8, RenameOf
<1>15. ASSUME NEW t \in Scan
       PROVE  /\ files'[ManifestPath(t)] \in {Absent, "manifest"}
              /\ \A f \in File : /\ files'[FilePath(t, f)] \in FileContent \union {Absent}
                                 /\ NoStraggler => files'[FilePath(t, f)] # "partial"
  <2>1. /\ files[ManifestPath(t)] \in {Absent, "manifest"}
        /\ \A f \in File : /\ files[FilePath(t, f)] \in FileContent \union {Absent}
                           /\ NoStraggler => files[FilePath(t, f)] # "partial"
        /\ ManifestPath(t) \in Path
        /\ \A f \in File : FilePath(t, f) \in Path
    BY Paths DEF IInv, FilesOK
  <2>2. files'[ManifestPath(t)] \in {Absent, "manifest"}
    <3>1. change.path = ManifestPath(t) => change.content = "manifest"
      BY <1>7, <1>14, PathsDiffer
    <3> QED
      BY <1>11, <2>1, <3>1
  <2>3. ASSUME NEW f \in File
        PROVE  /\ files'[FilePath(t, f)] \in FileContent \union {Absent}
               /\ NoStraggler => files'[FilePath(t, f)] # "partial"
    <3>1. change.path = FilePath(t, f) =>
            change.content \in FileContent /\ (NoStraggler => change.content = "whole")
      BY <1>7, <1>14, PathsDiffer
    <3> QED
      BY <1>11, <2>1, <3>1
  <2> QED
    BY <2>2, <2>3
<1>16. ASSUME NEW t \in Scan, files'[MarkerPath(t)] # Absent, NEW p \in Path, p[1] = t
       PROVE  files'[p] # Absent
  <2>1. CASE files[MarkerPath(t)] # Absent
    <3>1. files[p] # Absent
      BY <1>16, <2>1 DEF IInv, FilesOK, Marked
    <3> QED
      BY <1>13, <3>1 DEF FilesStay
  <2>2. CASE files[MarkerPath(t)] = Absent
    <3>1. change.path = MarkerPath(t)
      BY <1>11, <1>16, <2>2, Paths
    <3>2. t = s /\ n = Len(call[k].changes)
      BY <1>7, <1>14, <3>1, PathsDiffer
    <3>3. /\ files[ManifestPath(s)] # Absent
          /\ \A f \in File : files[FilePath(s, f)] # Absent
      BY <1>2, <1>3, <1>5, <3>2, RestBeforeMarker
    <3>4. \/ p = ManifestPath(s) \/ p = MarkerPath(s)
          \/ \E f \in File : p = FilePath(s, f)
      BY <1>16, <3>2, Paths
    <3>5. files[p] # Absent \/ p = MarkerPath(s)
      BY <3>3, <3>4
    <3> QED
      BY <1>13, <1>16, <3>2, <3>5 DEF FilesStay
  <2> QED
    BY <2>1, <2>2
<1>17. FilesOK'
  BY <1>10, <1>11, <1>12, <1>15, <1>16 DEF FilesOK, Marked
<1>18. n = Len(call[k].changes) => s \in Marked'
  <2> SUFFICES ASSUME n = Len(call[k].changes)
               PROVE  s \in Marked'
    OBVIOUS
  <2>1. PICK size : size = Len(FileSeq)
    OBVIOUS
  <2>2. Commits(k, M)
    BY <1>5, <1>6, Committed
  <2>3. PICK got \in Collected : call[k].changes = CommitChanges(k, s, got)
    BY <1>2, <2>2 DEF Commits
  <2>4. change = New(MarkerPath(s), k)
    BY <1>4, <1>7, <2>1, <2>3, ChangesOfCommit
  <2>5. change.path = MarkerPath(s)
    BY <2>4 DEF New
  <2> QED
    BY <1>7, <1>11, <1>13, <2>5 DEF Marked
<1> QED
  BY <1>2, <1>3, <1>4, <1>8, <1>11, <1>13, <1>17, <1>18

LEMMA FsRenameKeeps ==
    ASSUME IInv, NEW k \in Caller, FsRename(k), UNCHANGED scanVars
    PROVE  IInv'
<1>1. PICK M : M = Marked
  OBVIOUS
<1>2. PICK n : n = call[k].done + 1
  OBVIOUS
<1>3. /\ ScanInv(M, M) /\ RenamesOK(k) /\ call[k].step = "renaming" /\ faults' = faults
      /\ IF n = Len(call[k].changes)
           THEN Reply(k, "committed")
           ELSE call' = [call EXCEPT ![k].done = n]
  BY <1>1, <1>2 DEF IInv, FsRename
<1>4. call[k].step \in CommitSteps
  BY <1>3 DEF CommitSteps
<1>5. /\ req[k].pc = "commit" /\ req[k].scan \in Scan /\ call[k].tag = req[k].scan
      /\ Commits(k, M) /\ call[k].changes \in Seq(Change(RepositoryContent))
  BY <1>3, <1>4, Committed
<1>6. /\ call \in [Caller -> CallState(RepositoryContent)] /\ faults \in FaultHistory
      /\ req' = req
  BY <1>3, TypesFields DEF ScanInv, scanVars
<1>7. FaultsGoOn /\ (NoStraggler' => NoStraggler)
  BY <1>3, <1>6, NoFault
<1>8. /\ FilesOK' /\ FilesStay
      /\ files'[call[k].changes[n].path] # Absent
      /\ n \in 1..Len(call[k].changes)
      /\ n = Len(call[k].changes) => req[k].scan \in Marked'
  BY <1>2, FsRenameFiles
<1>9. PICK N : N = Marked'
  OBVIOUS
<1>10. M \subseteq N
  BY <1>1, <1>8, <1>9, MarkedStays
<1>11. CASE n = Len(call[k].changes)
  <2>1. PICK c : c = [step |-> "committed"]
    OBVIOUS
  <2>2. c \in CallState(RepositoryContent) /\ c.step = "committed"
    BY <2>1, CallShapes
  <2>3. call' = [call EXCEPT ![k] = c]
    BY <1>3, <1>11, <2>1 DEF Reply
  <2>4. /\ call' \in [Caller -> CallState(RepositoryContent)] /\ call'[k] = c
        /\ \A j \in Caller \ {k} : call'[j] = call[j]
    BY <1>6, <2>2, <2>3
  <2>5. CallOK(k, N, N)'
    BY <1>5, <1>6, <1>8, <1>9, <1>11, <2>2, <2>4 DEF CallOK, CommitSteps
  <2>6. ScanInv(N, N)'
    BY <1>3, <1>7, <1>10, <2>4, <2>5, ProviderKeeps
  <2>7. RenamesOK(k)'
    BY <2>2, <2>4 DEF RenamesOK
  <2>8. \A j \in Caller : RenamesOK(j)'
    BY <1>3, <1>8, <2>4, <2>7, RenamesRest DEF IInv
  <2> QED
    BY <1>8, <1>9, <2>6, <2>8 DEF IInv
<1>12. CASE n # Len(call[k].changes)
  <2>1. call[k] \in [step: {"commit", "staged", "renaming", "push", "recover"},
                     changes: Seq(Change(RepositoryContent)), tag: Tag, done: Nat]
    BY <1>3, <1>6 DEF CallState
  <2>2. PICK c : c = [call[k] EXCEPT !.done = n]
    OBVIOUS
  <2>3. /\ c \in CallState(RepositoryContent)
        /\ c.step = "renaming" /\ c.tag = call[k].tag /\ c.changes = call[k].changes
        /\ c.done = n
    <3>1. n \in Nat
      BY <1>8
    <3>2. c \in [step: {"commit", "staged", "renaming", "push", "recover"},
                 changes: Seq(Change(RepositoryContent)), tag: Tag, done: Nat]
      BY <2>1, <2>2, <3>1
    <3>3. c \in CallState(RepositoryContent)
      BY <3>2 DEF CallState
    <3> QED
      BY <1>3, <2>1, <2>2, <3>3
  <2>4. call' = [call EXCEPT ![k] = c]
    BY <1>3, <1>12, <2>2
  <2>5. /\ call' \in [Caller -> CallState(RepositoryContent)] /\ call'[k] = c
        /\ \A j \in Caller \ {k} : call'[j] = call[j]
    BY <1>6, <2>3, <2>4
  <2>6. Commits(k, N)'
    <3>1. PICK got \in Collected : /\ call[k].changes = CommitChanges(k, req[k].scan, got)
                                   /\ NoStraggler => Whole(got)
      BY <1>3, <1>5 DEF Commits
    <3> QED
      BY <1>6, <1>7, <2>3, <2>5, <3>1 DEF Commits
  <2>7. CallOK(k, N, N)'
    BY <1>5, <1>6, <2>3, <2>5, <2>6 DEF CallOK, CommitSteps
  <2>8. ScanInv(N, N)'
    BY <1>3, <1>7, <1>10, <2>5, <2>7, ProviderKeeps
  <2>9. RenamesOK(k)'
    <3>1. /\ \A i \in 1..call[k].done : files[call[k].changes[i].path] # Absent
          /\ call[k].done \in Nat /\ n < Len(call[k].changes)
      BY <1>3, <1>4, <1>8, <1>12, RenamePaths DEF RenamesOK
    <3>2. ASSUME NEW i \in 1..n
          PROVE  files'[call[k].changes[i].path] # Absent
      <4>1. CASE i = n
        BY <1>8, <4>1
      <4>2. CASE i # n
        <5>1. i \in 1..call[k].done /\ i \in 1..Len(call[k].changes)
          BY <1>2, <3>1, <4>2
        <5>2. call[k].changes[i].path \in Path
          BY <1>3, <1>4, <5>1, RenamePaths
        <5> QED
          BY <1>8, <3>1, <5>1, <5>2 DEF FilesStay
      <4> QED
        BY <4>1, <4>2
    <3> QED
      BY <2>3, <2>5, <3>1, <3>2 DEF RenamesOK
  <2>10. \A j \in Caller : RenamesOK(j)'
    BY <1>3, <1>8, <2>5, <2>9, RenamesRest DEF IInv
  <2> QED
    BY <1>8, <1>9, <2>8, <2>10 DEF IInv
<1> QED
  BY <1>11, <1>12

-----------------------------------------------------------------------------
(***************************************************************************)
(* The theorems.                                                           *)
(***************************************************************************)
LEMMA InitInvariant == Init => IInv
<1> SUFFICES ASSUME Init
             PROVE  IInv
  OBVIOUS
<1>1. /\ ProviderInit /\ ScanInit
      /\ files = [p \in Path |-> Absent] /\ landed = <<>>
      /\ call = [k \in Caller |-> Idle]
  BY DEF Init, FsInit, ProviderInit
<1>2. PICK M : M = Marked
  OBVIOUS
<1>3. ScanInv(M, M)
  BY <1>1, ScanInitKeeps
<1>4. \A s \in Scan : /\ files[MarkerPath(s)] = Absent
                      /\ files[ManifestPath(s)] = Absent
                      /\ \A f \in File : files[FilePath(s, f)] = Absent
  BY <1>1, Paths
<1>5. FilesOK
  BY <1>1, <1>4, AbsentAssumption DEF FilesOK, Marked, RepositoryContent, FileContent
<1>6. \A k \in Caller : RenamesOK(k)
  BY <1>1, CallShapes DEF RenamesOK
<1> QED
  BY <1>2, <1>3, <1>5, <1>6 DEF IInv

LEMMA StutterKeeps ==
    ASSUME IInv, UNCHANGED vars
    PROVE  IInv'
<1>1. PICK M : M = Marked
  OBVIOUS
<1>2. /\ ScanInv(M, M) /\ UNCHANGED <<call, faults, scanVars>> /\ UNCHANGED fsVars
      /\ call' = call /\ faults' = faults
  BY <1>1 DEF IInv, vars
<1>3. ScanInv(M, M)'
  BY <1>2, ScanStutters
<1>4. NoStraggler' => NoStraggler
  BY <1>2, TypesFields, NoFault DEF ScanInv
<1>5. FilesOK' /\ Marked' = M /\ FilesStay
  BY <1>1, <1>2, <1>4, FilesRest DEF IInv
<1>6. \A k \in Caller : RenamesOK(k)'
  BY <1>2, <1>5, RenamesRest DEF IInv
<1> QED
  BY <1>3, <1>5, <1>6 DEF IInv

LEMMA NextInvariant == IInv /\ [Next]_vars => IInv'
<1> SUFFICES ASSUME IInv, [Next]_vars
             PROVE  IInv'
  OBVIOUS
<1>1. CASE (ScanStep \/ ScanCrash) /\ UNCHANGED fsVars
  BY <1>1, ScanKeeps
<1>2. CASE \E k \in Caller : FsStep(k) /\ UNCHANGED scanVars
  BY <1>2, FsReadKeeps, ChecksKeep, FsRenameKeeps, FsCommitFailsKeeps DEF FsStep
<1>3. CASE UNCHANGED vars
  BY <1>3, StutterKeeps
<1> QED
  BY <1>1, <1>2, <1>3 DEF Next

\* The inductive invariant: every request's provider call belongs to the point
\* the request has reached, what it has checked of the staging stays true as
\* long as no straggler writes to it, and a commit's renames leave the marker
\* for last.
THEOREM ScanInvariant == Spec => []IInv
BY InitInvariant, NextInvariant, PTL DEF Spec

\* putManifest, putFile, commit and the headset's upload only build requests,
\* staged files and repository files of the declared kinds.
THEOREM ScanTypes == Spec => []TypeOK
<1>1. IInv => TypeOK
  <2> SUFFICES ASSUME IInv
               PROVE  TypeOK
    OBVIOUS
  <2>1. PICK M : M = Marked
    OBVIOUS
  <2> QED
    BY <2>1 DEF IInv, ScanInv, TypesOK, FilesOK, TypeOK
<1> QED
  BY <1>1, ScanInvariant, PTL

LEMMA MarkedComplete ==
    ASSUME IInv, NEW s \in Scan, s \in Marked, NoStragglerWrites
    PROVE  Complete(s)
<1>1. \A p \in Path : p[1] = s => files[p] # Absent
  BY DEF IInv, FilesOK
<1>2. /\ ManifestPath(s) \in Path /\ ManifestPath(s)[1] = s
      /\ \A f \in File : FilePath(s, f) \in Path /\ FilePath(s, f)[1] = s
  BY Paths DEF ManifestPath, FilePath
<1>3. files[ManifestPath(s)] = "manifest"
  BY <1>1, <1>2 DEF IInv, FilesOK
<1>4. ASSUME NEW f \in File
      PROVE  files[FilePath(s, f)] = "whole"
  <2>1. /\ files[FilePath(s, f)] \in FileContent \union {Absent}
        /\ files[FilePath(s, f)] # "partial"
    BY FaultsOrdered DEF IInv, FilesOK
  <2>2. files[FilePath(s, f)] # Absent
    BY <1>1, <1>2
  <2> QED
    BY <2>1, <2>2 DEF FileContent
<1> QED
  BY <1>3, <1>4 DEF Complete

\* drain() deletes the outbox directory, the only other copy, only of scans the
\* repository has: marker, manifest and every file, and each as captured unless
\* a straggler changed what commit() collected.
THEOREM EvidenceKept == Spec => []EvidenceNeverLost
<1>1. IInv => EvidenceNeverLost
  <2> SUFFICES ASSUME IInv, NoStragglerWrites, NEW s \in Scan, client[s].pc = "removed"
               PROVE  files[MarkerPath(s)] # Absent /\ Complete(s)
    BY DEF EvidenceNeverLost
  <2>1. PICK M : M = Marked
    OBVIOUS
  <2>2. s \in M
    BY <2>1 DEF IInv, ScanInv, ClientOK
  <2>3. files[MarkerPath(s)] # Absent
    BY <2>1, <2>2 DEF Marked
  <2> QED
    BY <2>1, <2>2, <2>3, MarkedComplete
<1> QED
  BY <1>1, ScanInvariant, PTL

\* Whenever _commit.json is there, all the rest of the scan is, at any point of
\* any interrupted, repeated or concurrent commitFiles of the filesystem
\* provider, and whole unless a straggler changed what commit() collected.
THEOREM MarkersVouch == Spec => []MarkerVouches
<1>1. IInv => MarkerVouches
  <2> SUFFICES ASSUME IInv, NEW s \in Scan, files[MarkerPath(s)] # Absent
               PROVE  /\ \A p \in Path : p[1] = s => files[p] # Absent
                      /\ NoStragglerWrites => Complete(s)
    BY DEF MarkerVouches
  <2>1. s \in Marked
    BY DEF Marked
  <2>2. \A p \in Path : p[1] = s => files[p] # Absent
    BY <2>1 DEF IInv, FilesOK
  <2> QED
    BY <2>1, <2>2, MarkedComplete
<1> QED
  BY <1>1, ScanInvariant, PTL
=============================================================================
