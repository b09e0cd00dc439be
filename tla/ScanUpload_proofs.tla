-------------------------- MODULE ScanUpload_proofs --------------------------
(***************************************************************************)
(* What is true of a scan's way to the repository whichever provider       *)
(* serves it.  The providers' own proofs say which scans the repository    *)
(* has, the set M of those whose marker is in it, and which of them a read *)
(* may report, the larger set B.                                           *)
(***************************************************************************)
EXTENDS ScanUpload, SequenceTheorems, TLAPS

-----------------------------------------------------------------------------
(***************************************************************************)
(* The invariant.                                                          *)
(***************************************************************************)
TypesOK ==
    /\ call \in [Caller -> CallState(RepositoryContent)]
    /\ faults \in FaultHistory
    /\ ScanTypeOK

\* The failures that have not happened: the headset gave up on no upload of a
\* file; nor on any other request; or no staging was cleaned up.
WritersAwaited == Free({"fileTimeout"})
AllAwaited == Free({"fileTimeout", "timeout"})
StagingKept == Free({"fileTimeout", "cleanup"})
NoStraggler == AllAwaited \/ StagingKept

\* What commit() can have read of the staged files.
Collected == [DOMAIN FileSeq -> FileContent]

Whole(got) == \A i \in DOMAIN got : got[i] = "whole"

\* The points of commitFiles; at the first, its preconditions are not checked.
CommitSteps == {"commit", "staged", "renaming", "push", "recover"}

\* The commit of request k: all of its files are whole, or it is one that the
\* provider is going to refuse.
Commits(k, M) ==
    \E got \in Collected :
      /\ call[k].changes = CommitChanges(k, req[k].scan, got)
      /\ NoStraggler => Whole(got) \/ (call[k].step = "commit" /\ req[k].scan \in M)

\* The provider call belongs to the point the request has reached, and what was
\* learned from it is true.
CallOK(k, M, B) ==
    /\ req[k].pc \notin {"manifest", "marker", "commit"} => call[k] = Idle
    /\ req[k].pc \in {"manifest", "marker"} =>
         /\ call[k].step \in {"read", "data", "failed"}
         /\ call[k].step = "read" => call[k].path = MarkerPath(req[k].scan)
         /\ (call[k].step = "data" /\ call[k].content # Absent) => req[k].scan \in B
    /\ req[k].pc = "commit" =>
         /\ call[k].step \in CommitSteps \union {"committed", "conflict", "failed"}
         /\ call[k].step \in CommitSteps => call[k].tag = req[k].scan /\ Commits(k, M)
         /\ call[k].step = "committed" => req[k].scan \in M

\* The points of a request by what the headset sent.
Points(sent) ==
    CASE sent = "manifest" -> {"manifest", "status", "answered"}
      [] sent = "file" -> {"file", "open", "writing", "unlinked", "status", "answered"}
      [] sent = "commit" -> {"check", "marker", "collect", "commit", "remove", "answered"}

WritingPoints == {"file", "open", "writing", "unlinked"}
Checked == {"marker", "collect"}

AwaitedBy(k, s) == client[s].pc = "sent" /\ client[s].slot = k

\* A request that is under way.
RequestOK(k, M, B) ==
    /\ req[k].pc = "collect" =>
         /\ Len(req[k].got) <= Len(FileSeq)
         /\ NoStraggler => Whole(req[k].got) \/ req[k].scan \in M
    /\ req[k].pc = "remove" => req[k].scan \in M
    /\ (req[k].pc = "answered" /\ req[k].answer.state = "committed") => req[k].scan \in B

\* Who writes a file is awaited, unless the headset gave up on one; without
\* any straggler everybody is.
WriterOK(k) ==
    /\ (WritersAwaited /\ req[k].pc \in WritingPoints) =>
         AwaitedBy(k, req[k].scan) /\ client[req[k].scan].sent = "file"
    /\ (WritersAwaited /\ req[k].pc = "open") =>
         stagedFile[req[k].scan][req[k].file] = Absent
    /\ (AllAwaited /\ req[k].pc # "idle") => AwaitedBy(k, req[k].scan)

\* What has been checked stays: no file becomes partial between the check for
\* missing files and their collection.
CheckOK(k, M) ==
    req[k].pc \in Checked =>
      /\ (StagingKept /\ req[k].scan \notin M) => MissingFiles(req[k].scan) = {}
      /\ AllAwaited => \A f \in File : stagedFile[req[k].scan][f] # "partial"

\* What the headset relies on.
ClientOK(s, B) ==
    /\ client[s].pc = "sent" =>
         /\ req[client[s].slot].pc \in Points(client[s].sent)
         /\ req[client[s].slot].scan = s
    /\ client[s].pc = "removed" => s \in B

SlotOK(k, M, B) == CallOK(k, M, B) /\ RequestOK(k, M, B) /\ WriterOK(k) /\ CheckOK(k, M)

ScanInv(M, B) ==
    /\ TypesOK
    /\ M \subseteq B
    /\ \A k \in Caller : SlotOK(k, M, B)
    /\ \A s \in Scan : ClientOK(s, B)

-----------------------------------------------------------------------------
(***************************************************************************)
(* Failures.                                                               *)
(***************************************************************************)
\* What has not happened so far had not happened before.
FaultsGoOn ==
    /\ faults' \in FaultHistory
    /\ WritersAwaited' => WritersAwaited
    /\ AllAwaited' => AllAwaited
    /\ StagingKept' => StagingKept

LEMMA FaultFree ==
    ASSUME faults \in FaultHistory, NEW kind, Fault(kind), NEW kinds
    PROVE  /\ faults' \in FaultHistory
           /\ Free(kinds)' <=> (Free(kinds) /\ kind \notin kinds)
BY DEF Fault, FaultHistory, Free

LEMMA FaultTyped ==
    ASSUME faults \in FaultHistory, NEW kind, Fault(kind)
    PROVE  /\ FaultsGoOn
           /\ kind = "fileTimeout" => ~WritersAwaited' /\ ~AllAwaited' /\ ~StagingKept'
           /\ kind = "timeout" => ~AllAwaited'
           /\ kind = "cleanup" => ~StagingKept'
<1>1. faults' \in FaultHistory
  BY FaultFree
<1>2. /\ WritersAwaited' => WritersAwaited /\ kind # "fileTimeout"
      /\ AllAwaited' => AllAwaited /\ kind \notin {"fileTimeout", "timeout"}
      /\ StagingKept' => StagingKept /\ kind \notin {"fileTimeout", "cleanup"}
  BY FaultFree DEF WritersAwaited, AllAwaited, StagingKept
<1> QED
  BY <1>1, <1>2 DEF FaultsGoOn

LEMMA NoFault ==
    ASSUME faults \in FaultHistory, faults' = faults
    PROVE  /\ FaultsGoOn
           /\ WritersAwaited' <=> WritersAwaited
           /\ AllAwaited' <=> AllAwaited
           /\ StagingKept' <=> StagingKept
           /\ NoStraggler' <=> NoStraggler
BY DEF FaultsGoOn, WritersAwaited, AllAwaited, StagingKept, NoStraggler, Free

\* Nobody gives up on the upload of a file where nobody gives up, and so on.
LEMMA FaultsOrdered ==
    /\ AllAwaited => WritersAwaited
    /\ StagingKept => WritersAwaited
    /\ NoStragglerWrites <=> NoStraggler
BY DEF WritersAwaited, AllAwaited, StagingKept, NoStraggler, NoStragglerWrites, Free

-----------------------------------------------------------------------------
(***************************************************************************)
(* Shapes of requests, clients and provider calls.                         *)
(***************************************************************************)
LEMMA RequestFields ==
    ASSUME NEW r \in Request
    PROVE  /\ r.pc \in {"idle", "manifest", "status", "check", "marker", "commit", "remove",
                        "file", "open", "writing", "unlinked", "collect", "answered"}
           /\ r.pc = "idle" => r = NoRequest
           /\ r.pc # "idle" => r.scan \in Scan
           /\ r.pc \in WritingPoints => r.file \in File
           /\ r.pc = "collect" => r.got \in Seq(FileContent)
           /\ r.pc = "answered" => r.answer \in Answer
BY DEF Request, NoRequest, WritingPoints

LEMMA RequestShapes ==
    /\ NoRequest \in Request /\ NoRequest.pc = "idle"
    /\ \A pc \in {"manifest", "status", "check", "marker", "commit", "remove"}, s \in Scan :
         At(pc, s) \in Request /\ At(pc, s).pc = pc /\ At(pc, s).scan = s
    /\ \A pc \in WritingPoints, s \in Scan, f \in File :
         [pc |-> pc, scan |-> s, file |-> f] \in Request
    /\ \A s \in Scan, got \in Seq(FileContent) :
         [pc |-> "collect", scan |-> s, got |-> got] \in Request
    /\ \A s \in Scan, a \in Answer : [pc |-> "answered", scan |-> s, answer |-> a] \in Request
BY DEF Request, NoRequest, At, WritingPoints

LEMMA AnswerShapes ==
    /\ \A a \in Answer : /\ a.state \in {"uploading", "committed", "fileConflict", "error"}
                         /\ a.state = "uploading" => a.missing \in SUBSET File
    /\ \A files \in SUBSET File : [state |-> "uploading", missing |-> files] \in Answer
    /\ \A state \in {"committed", "fileConflict", "error"} : [state |-> state] \in Answer
BY DEF Answer

LEMMA ClientFields ==
    ASSUME NEW c \in Client
    PROVE  /\ c.pc \in {"pending", "removed", "sent", "ready"}
           /\ c.pc = "sent" => /\ c.slot \in Caller
                               /\ c.sent \in {"manifest", "file", "commit"}
           /\ c.pc \in {"sent", "ready"} => c.todo \in SUBSET File
BY DEF Client

LEMMA ClientShapes ==
    /\ \A pc \in {"pending", "removed"} : [pc |-> pc] \in Client
    /\ \A todo \in SUBSET File : [pc |-> "ready", todo |-> todo] \in Client
    /\ \A k \in Caller, sent \in {"manifest", "file", "commit"}, todo \in SUBSET File :
         [pc |-> "sent", slot |-> k, sent |-> sent, todo |-> todo] \in Client
BY DEF Client

LEMMA CallShapes ==
    /\ Idle \in CallState(RepositoryContent) /\ Idle.step = "idle"
    /\ \A p \in Path : /\ Reading(p) \in CallState(RepositoryContent)
                       /\ Reading(p).step = "read" /\ Reading(p).path = p
    /\ \A c \in RepositoryContent \union {Absent} :
         [step |-> "data", content |-> c] \in CallState(RepositoryContent)
    /\ \A step \in {"committed", "conflict", "failed"} :
         [step |-> step] \in CallState(RepositoryContent)
BY DEF Idle, Reading, CallState

LEMMA CallFields ==
    ASSUME NEW c \in CallState(RepositoryContent)
    PROVE  /\ c.step \in {"idle", "committed", "conflict", "failed", "read", "data"} \union CommitSteps
           /\ c.step = "read" => c.path \in Path
           /\ c.step = "data" => c.content \in RepositoryContent \union {Absent}
           /\ c.step \in CommitSteps =>
                c.changes \in Seq(Change(RepositoryContent)) /\ c.tag \in Tag /\ c.done \in Nat
BY DEF CallState, CommitSteps

-----------------------------------------------------------------------------
(***************************************************************************)
(* What commit() hands to the provider.                                    *)
(***************************************************************************)
LEMMA Paths ==
    ASSUME NEW s \in Scan
    PROVE  /\ MarkerPath(s) \in Path /\ ManifestPath(s) \in Path
           /\ \A f \in File : FilePath(s, f) \in Path
           /\ \A p \in Path : p[1] = s =>
                p = ManifestPath(s) \/ p = MarkerPath(s) \/ \E f \in File : p = FilePath(s, f)
BY ScanPathAssumption DEF ScanPath, MarkerPath, ManifestPath, FilePath

\* The paths of a scan are different ones.
LEMMA PathsDiffer ==
    ASSUME NEW s \in Scan, NEW t \in Scan
    PROVE  /\ MarkerPath(s) # ManifestPath(t)
           /\ MarkerPath(s) = MarkerPath(t) => s = t
           /\ ManifestPath(s) = ManifestPath(t) => s = t
           /\ \A f, g \in File : /\ FilePath(s, f) # MarkerPath(t)
                                 /\ FilePath(s, f) # ManifestPath(t)
                                 /\ FilePath(s, f) = FilePath(t, g) => s = t /\ f = g
BY FilesAssumption DEF MarkerPath, ManifestPath, FilePath

LEMMA FilesOfSeq ==
    /\ FileSeq \in Seq(File) /\ Len(FileSeq) \in Nat /\ DOMAIN FileSeq = 1..Len(FileSeq)
    /\ \A i \in 1..Len(FileSeq) : FileSeq[i] \in File
    /\ \A f \in File : \E i \in 1..Len(FileSeq) : f = FileSeq[i]
BY FilesAssumption DEF File

LEMMA NewTyped ==
    ASSUME NEW p \in Path, NEW c \in RepositoryContent
    PROVE  /\ New(p, c) \in Change(RepositoryContent)
           /\ New(p, c).path = p /\ New(p, c).content = c
           /\ New(p, c).ifAbsent /\ New(p, c).expected = Unchecked
BY DEF New, Change

LEMMA ChangesOfCommit ==
    ASSUME NEW k \in Caller, NEW s \in Scan, NEW got \in Collected
    PROVE  LET changes == CommitChanges(k, s, got)
               n == Len(FileSeq)
           IN  /\ changes \in Seq(Change(RepositoryContent))
               /\ Len(changes) = n + 2
               /\ changes[1] = New(ManifestPath(s), "manifest")
               /\ \A i \in 1..n : changes[i + 1] = New(FilePath(s, FileSeq[i]), got[i])
               /\ changes[n + 2] = New(MarkerPath(s), k)
<1> DEFINE n == Len(FileSeq)
           first == New(ManifestPath(s), "manifest")
           middle == [i \in DOMAIN FileSeq |-> New(FilePath(s, FileSeq[i]), got[i])]
           last == New(MarkerPath(s), k)
           C == Change(RepositoryContent)
<1>1. n \in Nat /\ DOMAIN FileSeq = 1..n
  BY FilesOfSeq
<1>2. first \in C /\ last \in C
  BY Paths, NewTyped DEF RepositoryContent
<1>3. \A i \in 1..n : got[i] \in RepositoryContent /\ FilePath(s, FileSeq[i]) \in Path
  BY <1>1, FilesOfSeq, Paths DEF Collected, RepositoryContent
<1>4. middle \in Seq(C) /\ Len(middle) = n
      /\ \A i \in 1..n : middle[i] = New(FilePath(s, FileSeq[i]), got[i])
  BY <1>1, <1>3, NewTyped
<1>5. <<first>> \in Seq(C) /\ <<last>> \in Seq(C) /\ Len(<<first>>) = 1 /\ Len(<<last>>) = 1
      /\ <<first>>[1] = first /\ <<last>>[1] = last
  BY <1>2
<1>6. CommitChanges(k, s, got) = (<<first>> \o middle) \o <<last>>
  BY DEF CommitChanges
<1> HIDE DEF n, first, middle, last, C
<1>7. PICK a \in Seq(C) : a = <<first>> \o middle
  BY <1>4, <1>5, ConcatProperties
<1>8. /\ Len(a) = 1 + n
      /\ a[1] = first
      /\ \A i \in 1..n : a[i + 1] = middle[i]
  BY <1>1, <1>4, <1>5, <1>7, ConcatProperties
<1>9. PICK b \in Seq(C) : b = a \o <<last>>
  BY <1>5, <1>7, ConcatProperties
<1>10. /\ Len(b) = n + 2
       /\ \A i \in 1..(n + 1) : b[i] = a[i]
       /\ b[n + 2] = last
  <2>1. PICK c \in Seq(C) : c = <<last>>
    BY <1>5
  <2>2. Len(c) = 1 /\ c[1] = last /\ b = a \o c /\ Len(a) = n + 1
    BY <1>1, <1>5, <1>8, <1>9, <2>1
  <2>3. /\ Len(b) = Len(a) + Len(c)
        /\ \A i \in 1..(Len(a) + Len(c)) :
             b[i] = IF i <= Len(a) THEN a[i] ELSE c[i - Len(a)]
    BY <2>2, ConcatProperties
  <2> QED
    BY <1>1, <2>2, <2>3
<1>11. b[1] = first /\ \A i \in 1..n : b[i + 1] = middle[i]
  BY <1>1, <1>8, <1>10
<1> QED
  BY <1>4, <1>6, <1>7, <1>9, <1>10, <1>11 DEF n, first, last, C

-----------------------------------------------------------------------------
(***************************************************************************)
(* Slots a step is not about.                                              *)
(***************************************************************************)
\* Removing a staging directory unlinks a file that is being written.
Unlinked(k) ==
    /\ req[k].pc = "writing"
    /\ req'[k] = [req[k] EXCEPT !.pc = "unlinked"]

Rests(k) ==
    /\ call'[k] = call[k]
    /\ req'[k] = req[k] \/ Unlinked(k)

LEMMA TypesFields ==
    ASSUME TypesOK
    PROVE  /\ call \in [Caller -> CallState(RepositoryContent)]
           /\ faults \in FaultHistory
           /\ stagedManifest \in [Scan -> BOOLEAN]
           /\ stagedFile \in [Scan -> [File -> FileContent \union {Absent}]]
           /\ filesDir \in [Scan -> BOOLEAN]
           /\ req \in [Caller -> Request]
           /\ client \in [Scan -> Client]
BY DEF TypesOK, ScanTypeOK

LEMMA UnlinkedRequest ==
    ASSUME NEW k \in Caller, req[k] \in Request, Unlinked(k)
    PROVE  /\ req'[k] \in Request
           /\ req[k].scan \in Scan /\ req[k].file \in File
           /\ req'[k] = [pc |-> "unlinked", scan |-> req[k].scan, file |-> req[k].file]
           /\ req'[k].pc = "unlinked"
           /\ req'[k].scan = req[k].scan
<1>1. req[k] \in [pc: {"file", "open", "writing", "unlinked"}, scan: Scan, file: File]
  BY DEF Request, Unlinked
<1>2. req'[k] = [pc |-> "unlinked", scan |-> req[k].scan, file |-> req[k].file]
  BY <1>1 DEF Unlinked
<1> QED
  BY <1>1, <1>2 DEF Request

LEMMA CommitsStay ==
    ASSUME NEW M, NEW N, M \subseteq N, NEW k \in Caller, Commits(k, M),
           call'[k] = call[k], req'[k].scan = req[k].scan, NoStraggler' => NoStraggler
    PROVE  Commits(k, N)'
BY DEF Commits

LEMMA CallStays ==
    ASSUME NEW M, NEW N, M \subseteq N, NEW B, NEW C, B \subseteq C,
           NEW k \in Caller, req[k] \in Request,
           CallOK(k, M, B), Rests(k), NoStraggler' => NoStraggler
    PROVE  CallOK(k, N, C)'
<1>1. CASE Unlinked(k)
  <2>1. req'[k].pc = "unlinked" /\ call'[k] = Idle
    BY <1>1, UnlinkedRequest DEF CallOK, Rests, Unlinked
  <2> QED
    BY <2>1 DEF CallOK
<1>2. CASE req'[k] = req[k]
  <2>1. Commits(k, M) => Commits(k, N)'
    BY <1>2, CommitsStay DEF Rests
  <2> QED
    BY <1>2, <2>1 DEF CallOK, Rests
<1> QED
  BY <1>1, <1>2 DEF Rests

LEMMA RequestStays ==
    ASSUME NEW M, NEW N, M \subseteq N, NEW B, NEW C, B \subseteq C,
           NEW k \in Caller, req[k] \in Request,
           RequestOK(k, M, B), req'[k] = req[k] \/ Unlinked(k), NoStraggler' => NoStraggler
    PROVE  RequestOK(k, N, C)'
<1>1. CASE Unlinked(k)
  BY <1>1, UnlinkedRequest DEF RequestOK
<1>2. CASE req'[k] = req[k]
  BY <1>2 DEF RequestOK
<1> QED
  BY <1>1, <1>2

LEMMA WriterStays ==
    ASSUME NEW k \in Caller, req[k] \in Request, WriterOK(k),
           req'[k] = req[k] \/ Unlinked(k), FaultsGoOn,
           (AwaitedBy(k, req[k].scan) /\ req[k].pc # "idle") =>
             \/ client'[req[k].scan] = client[req[k].scan]
             \/ ~AllAwaited' /\ (req[k].pc \notin WritingPoints \/ ~WritersAwaited'),
           (WritersAwaited /\ req[k].pc = "open"
              /\ stagedFile[req[k].scan][req[k].file] = Absent) =>
             stagedFile'[req[k].scan][req[k].file] = Absent
    PROVE  WriterOK(k)'
<1>1. PICK s : s = req[k].scan
  OBVIOUS
<1>2. /\ req'[k].pc # "idle" => req[k].pc # "idle" /\ req'[k].scan = s
      /\ req'[k].pc \in WritingPoints => req[k].pc \in WritingPoints
      /\ req'[k].pc = "open" => req'[k] = req[k]
  <2>1. CASE Unlinked(k)
    <3>1. req'[k].pc = "unlinked" /\ req'[k].scan = s /\ req[k].pc = "writing"
      BY <1>1, <2>1, UnlinkedRequest DEF Unlinked
    <3> QED
      BY <3>1 DEF WritingPoints
  <2>2. CASE req'[k] = req[k]
    BY <1>1, <2>2
  <2> QED
    BY <2>1, <2>2
<1>3. "idle" \notin WritingPoints /\ "open" \in WritingPoints
  BY DEF WritingPoints
<1>4. client'[s] = client[s] => (AwaitedBy(k, s) => AwaitedBy(k, s)')
  BY DEF AwaitedBy
<1>5. (WritersAwaited' /\ req'[k].pc \in WritingPoints) =>
        AwaitedBy(k, s)' /\ client'[s].sent = "file"
  <2> SUFFICES ASSUME WritersAwaited', req'[k].pc \in WritingPoints
               PROVE  AwaitedBy(k, s)' /\ client'[s].sent = "file"
    OBVIOUS
  <2>1. AwaitedBy(k, s) /\ client[s].sent = "file"
    BY <1>1, <1>2 DEF WriterOK, FaultsGoOn
  <2>2. client'[s] = client[s]
    BY <1>1, <1>2, <1>3, <2>1
  <2> QED
    BY <1>4, <2>1, <2>2
<1>6. (AllAwaited' /\ req'[k].pc # "idle") => AwaitedBy(k, s)'
  <2> SUFFICES ASSUME AllAwaited', req'[k].pc # "idle"
               PROVE  AwaitedBy(k, s)'
    OBVIOUS
  <2>1. AwaitedBy(k, s)
    BY <1>1, <1>2 DEF WriterOK, FaultsGoOn
  <2> QED
    BY <1>1, <1>2, <1>4, <2>1
<1>7. (WritersAwaited' /\ req'[k].pc = "open") =>
        stagedFile'[req'[k].scan][req'[k].file] = Absent
  BY <1>1, <1>2 DEF WriterOK, FaultsGoOn
<1>8. req'[k].pc # "idle" => req'[k].scan = s
  BY <1>2
<1> QED
  BY <1>3, <1>5, <1>6, <1>7, <1>8 DEF WriterOK

\* What a step may do to the staging of a scan that is not committed.
StagingGoesOn(s, N) ==
    /\ (StagingKept' /\ s \notin N /\ MissingFiles(s) = {}) => MissingFiles(s)' = {}
    /\ (AllAwaited' /\ \A f \in File : stagedFile[s][f] # "partial") =>
         \A f \in File : stagedFile'[s][f] # "partial"

LEMMA CheckStays ==
    ASSUME NEW M, NEW N, M \subseteq N, NEW k \in Caller, req[k] \in Request,
           CheckOK(k, M), req'[k] = req[k] \/ Unlinked(k), FaultsGoOn,
           req[k].pc \in Checked => StagingGoesOn(req[k].scan, N)
    PROVE  CheckOK(k, N)'
<1>1. CASE Unlinked(k)
  BY <1>1, UnlinkedRequest DEF CheckOK, Checked
<1>2. CASE req'[k] = req[k] /\ req[k].pc \in Checked
  <2>1. PICK s : s = req[k].scan
    OBVIOUS
  <2>2. req'[k].scan = s /\ req'[k].pc = req[k].pc
    BY <1>2, <2>1
  <2>3. (StagingKept' /\ s \notin N) => MissingFiles(s)' = {}
    BY <1>2, <2>1 DEF CheckOK, StagingGoesOn, FaultsGoOn
  <2>4. AllAwaited' => \A f \in File : stagedFile'[s][f] # "partial"
    BY <1>2, <2>1 DEF CheckOK, StagingGoesOn, FaultsGoOn
  <2>5. MissingFiles(req[k].scan)' = MissingFiles(s)'
    BY <2>2 DEF MissingFiles
  <2> QED
    BY <2>2, <2>3, <2>4, <2>5 DEF CheckOK
<1>3. CASE req'[k] = req[k] /\ req[k].pc \notin Checked
  BY <1>3 DEF CheckOK
<1> QED
  BY <1>1, <1>2, <1>3

LEMMA StagingRests ==
    ASSUME NEW s, NEW N, stagedFile'[s] = stagedFile[s]
    PROVE  StagingGoesOn(s, N)
BY DEF StagingGoesOn, MissingFiles

\* Who waits for a request waits for the request of his own scan.
LEMMA AwaitedScan ==
    ASSUME NEW M, NEW B, ScanInv(M, B), NEW k \in Caller, NEW s \in Scan, AwaitedBy(k, s)
    PROVE  /\ req[k].scan = s
           /\ req[k].pc \in Points(client[s].sent)
           /\ client[s].sent \in {"manifest", "file", "commit"}
           /\ req[k].pc # "idle"
<1>1. client[s] \in Client
  BY TypesFields DEF ScanInv
<1>2. client[s].sent \in {"manifest", "file", "commit"}
  BY <1>1, ClientFields DEF AwaitedBy
<1>3. req[k].scan = s /\ req[k].pc \in Points(client[s].sent)
  BY DEF ScanInv, ClientOK, AwaitedBy
<1> QED
  BY <1>2, <1>3 DEF Points

-----------------------------------------------------------------------------
(***************************************************************************)
(* A step of the handler of request k.                                     *)
(***************************************************************************)
LEMMA ClientStays ==
    ASSUME NEW B, NEW s \in Scan, ClientOK(s, B), client'[s] = client[s],
           client[s] \in Client, req \in [Caller -> Request],
           client[s].pc = "sent" =>
             LET k == client[s].slot
             IN  \/ req'[k] = req[k] \/ Unlinked(k)
                 \/ req'[k].pc \in Points(client[s].sent) /\ req'[k].scan = s
    PROVE  ClientOK(s, B)'
<1>1. CASE client[s].pc # "sent"
  BY <1>1 DEF ClientOK
<1>2. CASE client[s].pc = "sent"
  <2>1. PICK k \in Caller : k = client[s].slot
    BY <1>2, ClientFields
  <2>2. req[k].pc \in Points(client[s].sent) /\ req[k].scan = s
    BY <1>2, <2>1 DEF ClientOK
  <2>3. CASE Unlinked(k)
    <3>1. req'[k].pc = "unlinked" /\ req'[k].scan = s /\ req[k].pc = "writing"
      BY <2>2, <2>3, UnlinkedRequest DEF Unlinked
    <3>2. client[s].sent = "file"
      BY <1>2, <2>2, <3>1, ClientFields DEF Points
    <3>3. "unlinked" \in Points(client[s].sent)
      BY <3>2 DEF Points
    <3> QED
      BY <1>2, <2>1, <3>1, <3>3 DEF ClientOK
  <2>4. CASE ~Unlinked(k)
    <3>1. req'[k].pc \in Points(client[s].sent) /\ req'[k].scan = s
      BY <1>2, <2>1, <2>2, <2>4
    <3> QED
      BY <1>2, <2>1, <3>1 DEF ClientOK
  <2> QED
    BY <2>3, <2>4
<1> QED
  BY <1>1, <1>2

LEMMA HandlerMoves ==
    ASSUME NEW M, NEW B, ScanInv(M, B), NEW k \in Caller, NEW r \in Request,
           TypesOK', client' = client, faults' = faults,
           \A j \in Caller \ {k} : Rests(j) /\ WriterOK(j)' /\ CheckOK(j, M)',
           req'[k] = r, SlotOK(k, M, B)',
           \A s \in Scan : AwaitedBy(k, s) =>
             r.pc \in Points(client[s].sent) /\ r.scan = s
    PROVE  ScanInv(M, B)'
<1>1. NoStraggler' => NoStraggler
  BY NoFault, TypesFields DEF ScanInv
<1>2. ASSUME NEW j \in Caller
      PROVE  SlotOK(j, M, B)'
  <2>1. CASE j = k
    BY <2>1
  <2>2. CASE j # k
    <3>1. CallOK(j, M, B) /\ RequestOK(j, M, B) /\ req[j] \in Request /\ Rests(j)
      BY <2>2, TypesFields DEF ScanInv, SlotOK
    <3>2. CallOK(j, M, B)' /\ RequestOK(j, M, B)'
      BY <1>1, <3>1, CallStays, RequestStays DEF Rests
    <3> QED
      BY <2>2, <3>2 DEF SlotOK
  <2> QED
    BY <2>1, <2>2
<1>3. ASSUME NEW s \in Scan
      PROVE  ClientOK(s, B)'
  <2>1. client[s] \in Client /\ req \in [Caller -> Request] /\ ClientOK(s, B)
    BY TypesFields DEF ScanInv
  <2>2. client[s].pc = "sent" => client[s].slot \in Caller
    BY <2>1, ClientFields
  <2>3. client'[s] = client[s]
    OBVIOUS
  <2>4. CASE AwaitedBy(k, s)
    <3>1. req'[k].pc \in Points(client[s].sent) /\ req'[k].scan = s
      BY <2>4
    <3> QED
      BY <2>1, <2>3, <2>4, <3>1, ClientStays DEF AwaitedBy
  <2>5. CASE ~AwaitedBy(k, s)
    BY <2>1, <2>2, <2>3, <2>5, ClientStays DEF AwaitedBy, Rests
  <2> QED
    BY <2>4, <2>5
<1> QED
  BY <1>2, <1>3 DEF ScanInv

\* It leaves the staged files alone.
LEMMA HandlerTalks ==
    ASSUME NEW M, NEW B, ScanInv(M, B), NEW k \in Caller, NEW r \in Request,
           req' = [req EXCEPT ![k] = r],
           call' \in [Caller -> CallState(RepositoryContent)],
           \A j \in Caller \ {k} : call'[j] = call[j],
           stagedManifest' \in [Scan -> BOOLEAN], filesDir' \in [Scan -> BOOLEAN],
           stagedFile' = stagedFile, client' = client, faults' = faults,
           SlotOK(k, M, B)',
           \A s \in Scan : AwaitedBy(k, s) =>
             r.pc \in Points(client[s].sent) /\ r.scan = s
    PROVE  ScanInv(M, B)'
<1> USE TypesFields DEF ScanInv
<1>1. FaultsGoOn
  BY NoFault
<1>2. ASSUME NEW j \in Caller \ {k}
      PROVE  Rests(j) /\ WriterOK(j)' /\ CheckOK(j, M)'
  <2>1. req'[j] = req[j] /\ call'[j] = call[j] /\ req[j] \in Request
    OBVIOUS
  <2>2. WriterOK(j) /\ CheckOK(j, M)
    BY DEF SlotOK
  <2>3. WriterOK(j)'
    BY <1>1, <2>1, <2>2, WriterStays
  <2>4. CheckOK(j, M)'
    <3>1. StagingGoesOn(req[j].scan, M)
      BY StagingRests
    <3> QED
      BY <1>1, <2>1, <2>2, <3>1, CheckStays
  <2> QED
    BY <2>1, <2>3, <2>4 DEF Rests
<1>3. TypesOK' /\ req'[k] = r
  BY DEF TypesOK, ScanTypeOK
<1> HIDE TypesFields DEF ScanInv
<1> QED
  BY <1>2, <1>3, HandlerMoves

\* The handler answers, or nobody waits for its answer any more.
LEMMA RespondTyped ==
    ASSUME NEW M, NEW B, ScanInv(M, B), NEW k \in Caller, req[k].pc # "idle",
           NEW a \in Answer, Respond(k, a)
    PROVE  \E r \in Request :
             /\ req' = [req EXCEPT ![k] = r]
             /\ \/ r = NoRequest /\ ~AwaitedBy(k, req[k].scan)
                \/ /\ r = [pc |-> "answered", scan |-> req[k].scan, answer |-> a]
                   /\ AwaitedBy(k, req[k].scan)
<1>1. req[k] \in Request
  BY TypesFields DEF ScanInv
<1>2. req[k].scan \in Scan
  BY <1>1, RequestFields
<1> QED
  BY <1>2, RequestShapes DEF Respond, AwaitedBy

LEMMA RespondKeeps ==
    ASSUME NEW M, NEW B, ScanInv(M, B), NEW k \in Caller, req[k].pc # "idle",
           NEW a \in Answer, Respond(k, a),
           a.state = "committed" => req[k].scan \in B,
           call' = [call EXCEPT ![k] = Idle],
           stagedManifest' \in [Scan -> BOOLEAN], filesDir' \in [Scan -> BOOLEAN],
           stagedFile' = stagedFile, client' = client, faults' = faults
    PROVE  ScanInv(M, B)'
<1>1. PICK r \in Request :
        /\ req' = [req EXCEPT ![k] = r]
        /\ \/ r = NoRequest /\ ~AwaitedBy(k, req[k].scan)
           \/ /\ r = [pc |-> "answered", scan |-> req[k].scan, answer |-> a]
              /\ AwaitedBy(k, req[k].scan)
  BY RespondTyped
<1>2. /\ call \in [Caller -> CallState(RepositoryContent)]
      /\ req \in [Caller -> Request]
  BY TypesFields DEF ScanInv
<1>3. /\ call' \in [Caller -> CallState(RepositoryContent)]
      /\ call'[k] = Idle
      /\ \A j \in Caller \ {k} : call'[j] = call[j]
      /\ req'[k] = r
  BY <1>1, <1>2, CallShapes
<1>4. SlotOK(k, M, B)'
  <2>1. CASE r = NoRequest
    <3>1. req'[k].pc = "idle"
      BY <1>3, <2>1 DEF NoRequest
    <3> QED
      BY <1>3, <3>1 DEF SlotOK, CallOK, RequestOK, WriterOK, CheckOK, WritingPoints, Checked
  <2>2. CASE /\ r = [pc |-> "answered", scan |-> req[k].scan, answer |-> a]
             /\ AwaitedBy(k, req[k].scan)
    <3>1. PICK s : s = req[k].scan
      OBVIOUS
    <3>2. /\ req'[k].pc = "answered" /\ req'[k].scan = s
          /\ req'[k].answer = a /\ AwaitedBy(k, s)'
      BY <1>3, <2>2, <3>1 DEF AwaitedBy
    <3>3. CallOK(k, M, B)' /\ CheckOK(k, M)'
      BY <1>3, <3>2 DEF CallOK, CheckOK, Checked
    <3>4. RequestOK(k, M, B)'
      BY <3>1, <3>2 DEF RequestOK
    <3>5. WriterOK(k)'
      BY <3>2 DEF WriterOK, WritingPoints
    <3> QED
      BY <3>3, <3>4, <3>5 DEF SlotOK
  <2> QED
    BY <1>1, <2>1, <2>2
<1>5. ASSUME NEW s \in Scan, AwaitedBy(k, s)
      PROVE  r.pc \in Points(client[s].sent) /\ r.scan = s
  <2>1. req[k].scan = s /\ client[s].sent \in {"manifest", "file", "commit"}
    BY <1>5, AwaitedScan
  <2>2. r = [pc |-> "answered", scan |-> s, answer |-> a]
    BY <1>1, <1>5, <2>1
  <2> QED
    BY <2>1, <2>2 DEF Points
<1> QED
  BY <1>1, <1>3, <1>4, <1>5, HandlerTalks

\* The handler goes on to another point of the same request.
LEMMA PointsFollow ==
    ASSUME NEW M, NEW B, ScanInv(M, B), NEW k \in Caller, NEW r \in Request,
           r.scan = req[k].scan,
           \A sent \in {"manifest", "file", "commit"} :
             req[k].pc \in Points(sent) => r.pc \in Points(sent)
    PROVE  \A s \in Scan : AwaitedBy(k, s) => r.pc \in Points(client[s].sent) /\ r.scan = s
BY AwaitedScan

LEMMA WriterMoves ==
    ASSUME NEW k \in Caller, WriterOK(k), req[k].pc # "idle",
           client' = client, faults' = faults, faults \in FaultHistory,
           req'[k].scan = req[k].scan,
           req'[k].pc \in WritingPoints => req[k].pc \in WritingPoints,
           (WritersAwaited /\ req'[k].pc = "open") =>
             stagedFile'[req'[k].scan][req'[k].file] = Absent
    PROVE  WriterOK(k)'
<1>1. (WritersAwaited' => WritersAwaited) /\ (AllAwaited' => AllAwaited)
  BY NoFault DEF FaultsGoOn
<1>2. PICK s : s = req[k].scan
  OBVIOUS
<1>3. AwaitedBy(k, s) => AwaitedBy(k, s)'
  BY DEF AwaitedBy
<1>4. req'[k].scan = s
  BY <1>2
<1>5. (WritersAwaited' /\ req'[k].pc \in WritingPoints) =>
        AwaitedBy(k, s)' /\ client'[s].sent = "file"
  BY <1>1, <1>2, <1>3 DEF WriterOK
<1>6. (AllAwaited' /\ req'[k].pc # "idle") => AwaitedBy(k, s)'
  BY <1>1, <1>2, <1>3 DEF WriterOK
<1>7. (WritersAwaited' /\ req'[k].pc = "open") =>
        stagedFile'[req'[k].scan][req'[k].file] = Absent
  BY <1>1
<1> QED
  BY <1>4, <1>5, <1>6, <1>7 DEF WriterOK

\* A point that is not one of the writing ones, without a provider call of its
\* own, is typed and waited for like the point before it.
LEMMA MovesTo ==
    ASSUME NEW M, NEW B, ScanInv(M, B), NEW k \in Caller, NEW pc,
           req[k].pc # "idle", pc \in {"status", "remove"},
           \A sent \in {"manifest", "file", "commit"} :
             req[k].pc \in Points(sent) => pc \in Points(sent),
           pc = "remove" => req[k].scan \in M,
           GoTo(k, pc), client' = client, faults' = faults, call'[k] = Idle
    PROVE  /\ \E r \in Request : req' = [req EXCEPT ![k] = r] /\ r = At(pc, req[k].scan)
           /\ SlotOK(k, M, B)'
           /\ \A s \in Scan : AwaitedBy(k, s) =>
                At(pc, req[k].scan).pc \in Points(client[s].sent)
                  /\ At(pc, req[k].scan).scan = s
<1>1. req[k] \in Request /\ req \in [Caller -> Request] /\ faults \in FaultHistory
  BY TypesFields DEF ScanInv
<1>2. req[k].scan \in Scan
  BY <1>1, RequestFields
<1>3. PICK s \in Scan : s = req[k].scan
  BY <1>2
<1>4. At(pc, s) \in Request /\ At(pc, s).pc = pc /\ At(pc, s).scan = s
  BY RequestShapes
<1>5. req' = [req EXCEPT ![k] = At(pc, s)]
  BY <1>3 DEF GoTo
<1>6. req'[k].pc = pc /\ req'[k].scan = s
  BY <1>1, <1>4, <1>5
<1>7. WriterOK(k)'
  BY <1>1, <1>3, <1>6, WriterMoves DEF ScanInv, SlotOK, WritingPoints
<1>8. CallOK(k, M, B)' /\ RequestOK(k, M, B)' /\ CheckOK(k, M)'
  BY <1>3, <1>6 DEF CallOK, RequestOK, CheckOK, Checked
<1>9. \A t \in Scan : AwaitedBy(k, t) => pc \in Points(client[t].sent) /\ s = t
  BY <1>3, AwaitedScan
<1> QED
  BY <1>3, <1>4, <1>5, <1>7, <1>8, <1>9 DEF SlotOK

\* A request's provider call has something to say at these points only.
LEMMA CallAtPoint ==
    ASSUME NEW M, NEW B, ScanInv(M, B), NEW k \in Caller
    PROVE  /\ req[k] \in Request /\ call[k] \in CallState(RepositoryContent)
           /\ req[k].pc # "idle" => req[k].scan \in Scan
           /\ CallOK(k, M, B) /\ RequestOK(k, M, B) /\ WriterOK(k) /\ CheckOK(k, M)
           /\ req[k].pc \notin {"manifest", "marker", "commit"} =>
                call[k] = Idle /\ call = [call EXCEPT ![k] = Idle]
<1>1. /\ req[k] \in Request /\ call \in [Caller -> CallState(RepositoryContent)]
      /\ SlotOK(k, M, B)
  BY TypesFields DEF ScanInv
<1>2. req[k].pc # "idle" => req[k].scan \in Scan
  BY <1>1, RequestFields
<1>3. req[k].pc \notin {"manifest", "marker", "commit"} => call[k] = Idle
  BY <1>1 DEF SlotOK, CallOK
<1> QED
  BY <1>1, <1>2, <1>3 DEF SlotOK

-----------------------------------------------------------------------------
(***************************************************************************)
(* The steps of the handlers.                                              *)
(***************************************************************************)
LEMMA ManifestMarkerReadKeeps ==
    ASSUME NEW M, NEW B, ScanInv(M, B), NEW k \in Caller, ManifestMarkerRead(k)
    PROVE  ScanInv(M, B)'
<1> USE DEF Serving, HasReply
<1>1. /\ req[k].pc = "manifest" /\ call[k].step = "data"
      /\ stagedFile' = stagedFile /\ filesDir' = filesDir
      /\ client' = client /\ faults' = faults
      /\ call' = [call EXCEPT ![k] = Idle]
  BY DEF ManifestMarkerRead, MarkerParsed, Release
<1>2. /\ call \in [Caller -> CallState(RepositoryContent)]
      /\ stagedManifest \in [Scan -> BOOLEAN] /\ filesDir \in [Scan -> BOOLEAN]
      /\ stagedManifest' \in [Scan -> BOOLEAN]
  BY TypesFields DEF ScanInv, ManifestMarkerRead
<1>3. call' \in [Caller -> CallState(RepositoryContent)] /\ call'[k] = Idle
      /\ \A j \in Caller \ {k} : call'[j] = call[j]
  BY <1>1, <1>2, CallShapes
<1>4. CASE call[k].content # Absent
  <2>1. Respond(k, [state |-> "committed"]) /\ stagedManifest' = stagedManifest
    BY <1>4 DEF ManifestMarkerRead
  <2>2. req[k].scan \in B
    BY <1>1, <1>4, CallAtPoint DEF CallOK
  <2>3. [state |-> "committed"] \in Answer
    BY AnswerShapes
  <2> QED
    BY <1>1, <1>2, <2>1, <2>2, <2>3, RespondKeeps
<1>5. CASE call[k].content = Absent
  <2>1. GoTo(k, "status")
    BY <1>5 DEF ManifestMarkerRead
  <2>2. \A sent \in {"manifest", "file", "commit"} :
          req[k].pc \in Points(sent) => "status" \in Points(sent)
    BY <1>1 DEF Points
  <2>3. /\ \E r \in Request : req' = [req EXCEPT ![k] = r] /\ r = At("status", req[k].scan)
        /\ SlotOK(k, M, B)'
        /\ \A s \in Scan : AwaitedBy(k, s) =>
             At("status", req[k].scan).pc \in Points(client[s].sent)
               /\ At("status", req[k].scan).scan = s
    BY <1>1, <1>3, <2>1, <2>2, MovesTo
  <2>4. PICK r \in Request : req' = [req EXCEPT ![k] = r] /\ r = At("status", req[k].scan)
    BY <2>3
  <2>5. \A s \in Scan : AwaitedBy(k, s) => r.pc \in Points(client[s].sent) /\ r.scan = s
    BY <2>3, <2>4
  <2>6. stagedManifest' \in [Scan -> BOOLEAN] /\ filesDir' \in [Scan -> BOOLEAN]
    BY <1>1, <1>2
  <2> QED
    BY <1>1, <1>3, <2>3, <2>4, <2>5, <2>6, HandlerTalks
<1> QED
  BY <1>4, <1>5

LEMMA StatusKeeps ==
    ASSUME NEW M, NEW B, ScanInv(M, B), NEW k \in Caller, Status(k)
    PROVE  ScanInv(M, B)'
<1>1. PICK s : s = req[k].scan
  OBVIOUS
<1>2. PICK a : a = IF stagedManifest[s]
                     THEN [state |-> "uploading", missing |-> MissingFiles(s)] ELSE Failed
  OBVIOUS
<1>3. /\ req[k].pc = "status" /\ Respond(k, a)
      /\ stagedManifest' = stagedManifest /\ stagedFile' = stagedFile
      /\ filesDir' = filesDir /\ client' = client /\ call' = call /\ faults' = faults
  BY <1>1, <1>2 DEF Status, Serving, staging
<1>4. a \in Answer /\ a.state # "committed"
  BY <1>2, AnswerShapes DEF MissingFiles, Failed
<1>5. call' = [call EXCEPT ![k] = Idle]
  BY <1>3, CallAtPoint
<1>6. stagedManifest \in [Scan -> BOOLEAN] /\ filesDir \in [Scan -> BOOLEAN]
  BY TypesFields DEF ScanInv
<1> QED
  BY <1>3, <1>4, <1>5, <1>6, RespondKeeps

LEMMA PutFileKeeps ==
    ASSUME NEW M, NEW B, ScanInv(M, B), NEW k \in Caller, PutFile(k)
    PROVE  ScanInv(M, B)'
<1>1. PICK s, f : s = req[k].scan /\ f = req[k].file
  OBVIOUS
<1>2. /\ req[k].pc = "file"
      /\ stagedManifest' = stagedManifest /\ stagedFile' = stagedFile
      /\ client' = client /\ call' = call /\ faults' = faults
  BY DEF PutFile, Serving
<1>3. call' = [call EXCEPT ![k] = Idle] /\ call[k] = Idle
  BY <1>2, CallAtPoint
<1>4. /\ stagedManifest \in [Scan -> BOOLEAN] /\ filesDir \in [Scan -> BOOLEAN]
      /\ filesDir' \in [Scan -> BOOLEAN]
      /\ stagedFile \in [Scan -> [File -> FileContent \union {Absent}]]
      /\ call \in [Caller -> CallState(RepositoryContent)]
      /\ req \in [Caller -> Request] /\ faults \in FaultHistory
  BY TypesFields DEF ScanInv, PutFile
<1>5. s \in Scan /\ f \in File
  BY <1>1, <1>2, <1>4, RequestFields DEF WritingPoints
<1>6. /\ [state |-> "fileConflict"] \in Answer /\ Failed \in Answer
      /\ [state |-> "fileConflict"].state # "committed" /\ Failed.state # "committed"
  BY AnswerShapes DEF Failed
<1>7. CASE Respond(k, Failed)
  BY <1>2, <1>3, <1>4, <1>6, <1>7, RespondKeeps
<1>8. CASE Respond(k, [state |-> "fileConflict"])
  BY <1>2, <1>3, <1>4, <1>6, <1>8, RespondKeeps
<1>9. CASE GoTo(k, "status")
  <2>1. \A sent \in {"manifest", "file", "commit"} :
          req[k].pc \in Points(sent) => "status" \in Points(sent)
    BY <1>2 DEF Points
  <2>2. /\ \E r \in Request : req' = [req EXCEPT ![k] = r] /\ r = At("status", req[k].scan)
        /\ SlotOK(k, M, B)'
        /\ \A t \in Scan : AwaitedBy(k, t) =>
             At("status", req[k].scan).pc \in Points(client[t].sent)
               /\ At("status", req[k].scan).scan = t
    BY <1>2, <1>3, <1>9, <2>1, MovesTo
  <2> QED
    BY <1>2, <1>3, <1>4, <2>2, HandlerTalks
<1>10. CASE req' = [req EXCEPT ![k].pc = "open"] /\ stagedFile[s][f] = Absent
  <2>1. PICK r : r = [pc |-> "open", scan |-> s, file |-> f]
    OBVIOUS
  <2>2. r \in Request /\ r.pc = "open" /\ r.scan = s /\ r.file = f
    BY <1>5, <2>1, RequestShapes DEF WritingPoints
  <2>3. req[k] \in [pc: {"file", "open", "writing", "unlinked"}, scan: Scan, file: File]
    BY <1>2, <1>4 DEF Request
  <2>4. req' = [req EXCEPT ![k] = r]
    <3>1. [req[k] EXCEPT !.pc = "open"] = r
      BY <1>1, <2>1, <2>3
    <3>2. req' = [req EXCEPT ![k] = [req[k] EXCEPT !.pc = "open"]]
      BY <1>10
    <3> QED
      BY <3>1, <3>2
  <2>5. req'[k] = r
    BY <1>4, <2>4
  <2>6. WriterOK(k)'
    BY <1>1, <1>2, <1>4, <1>10, <2>2, <2>5, CallAtPoint, WriterMoves DEF WritingPoints
  <2>7. CallOK(k, M, B)' /\ RequestOK(k, M, B)' /\ CheckOK(k, M)'
    BY <1>2, <1>3, <2>2, <2>5 DEF CallOK, RequestOK, CheckOK, Checked
  <2>8. \A sent \in {"manifest", "file", "commit"} :
          req[k].pc \in Points(sent) => r.pc \in Points(sent)
    BY <1>2, <2>2 DEF Points
  <2>9. \A t \in Scan : AwaitedBy(k, t) => r.pc \in Points(client[t].sent) /\ r.scan = t
    BY <1>1, <2>2, <2>8, PointsFollow
  <2>10. SlotOK(k, M, B)'
    BY <2>6, <2>7 DEF SlotOK
  <2> QED
    BY <1>2, <1>4, <2>2, <2>4, <2>9, <2>10, HandlerTalks
<1>11. stagedFile[s][f] \in {"whole", "partial", Absent}
  BY <1>4, <1>5 DEF FileContent
<1> QED
  BY <1>1, <1>7, <1>8, <1>9, <1>10, <1>11 DEF PutFile

\* Two requests that write files of one scan are the same: the headset waits
\* for both.
LEMMA OneWriter ==
    ASSUME NEW M, NEW B, ScanInv(M, B), WritersAwaited, NEW j \in Caller, NEW k \in Caller,
           req[j].pc \in WritingPoints, req[k].pc \in WritingPoints,
           req[j].scan = req[k].scan
    PROVE  j = k
BY DEF ScanInv, SlotOK, WriterOK, AwaitedBy

\* Where everybody is awaited, two requests of one scan are the same.
LEMMA OneRequest ==
    ASSUME NEW M, NEW B, ScanInv(M, B), AllAwaited, NEW j \in Caller, NEW k \in Caller,
           req[j].pc # "idle", req[k].pc # "idle", req[j].scan = req[k].scan
    PROVE  j = k
BY DEF ScanInv, SlotOK, WriterOK, AwaitedBy

\* A step of the writer of a file: the others rest.
LEMMA WriterWrites ==
    ASSUME NEW M, NEW B, ScanInv(M, B), NEW k \in Caller, NEW r \in Request,
           NEW s \in Scan, NEW f \in File, NEW content \in FileContent,
           req[k].pc \in {"open", "writing"}, req[k].scan = s, req[k].file = f,
           stagedFile' = [stagedFile EXCEPT ![s][f] = content],
           content = "partial" => (WritersAwaited => stagedFile[s][f] = Absent),
           req' = [req EXCEPT ![k] = r],
           UNCHANGED <<stagedManifest, filesDir, client, call, faults>>,
           SlotOK(k, M, B)',
           \A t \in Scan : AwaitedBy(k, t) => r.pc \in Points(client[t].sent) /\ r.scan = t
    PROVE  ScanInv(M, B)'
<1>1. /\ call \in [Caller -> CallState(RepositoryContent)]
      /\ faults \in FaultHistory
      /\ stagedManifest \in [Scan -> BOOLEAN]
      /\ stagedFile \in [Scan -> [File -> FileContent \union {Absent}]]
      /\ filesDir \in [Scan -> BOOLEAN]
      /\ req \in [Caller -> Request]
      /\ client \in [Scan -> Client]
  BY TypesFields DEF ScanInv
<1>2. /\ stagedFile' \in [Scan -> [File -> FileContent \union {Absent}]]
      /\ stagedFile'[s][f] = content
      /\ \A g \in File \ {f} : stagedFile'[s][g] = stagedFile[s][g]
      /\ \A t \in Scan \ {s} : stagedFile'[t] = stagedFile[t]
  <2>1. stagedFile[s] \in [File -> FileContent \union {Absent}]
    BY <1>1
  <2>2. PICK row : row = [stagedFile[s] EXCEPT ![f] = content]
    OBVIOUS
  <2>3. /\ row \in [File -> FileContent \union {Absent}]
        /\ row[f] = content /\ \A g \in File \ {f} : row[g] = stagedFile[s][g]
    BY <2>1, <2>2
  <2>4. stagedFile' = [stagedFile EXCEPT ![s] = row]
    BY <2>2
  <2> QED
    BY <1>1, <2>3, <2>4
<1>3. req' \in [Caller -> Request] /\ req'[k] = r
      /\ \A j \in Caller \ {k} : req'[j] = req[j]
  BY <1>1
<1>4. TypesOK'
  BY <1>1, <1>2, <1>3 DEF TypesOK, ScanTypeOK
<1>5. FaultsGoOn
  BY <1>1, NoFault
<1>6. ASSUME NEW j \in Caller \ {k}
      PROVE  Rests(j) /\ WriterOK(j)' /\ CheckOK(j, M)'
  <2>1. /\ req[j] \in Request /\ req'[j] = req[j] /\ call'[j] = call[j]
        /\ WriterOK(j) /\ CheckOK(j, M) /\ j \in Caller
        /\ req[j].pc # "idle" => req[j].scan \in Scan
    BY <1>3, CallAtPoint
  <2>2. (WritersAwaited /\ req[j].pc = "open") => req[j].scan # s
    BY OneWriter DEF WritingPoints
  <2>3. WriterOK(j)'
    <3>1. (WritersAwaited /\ req[j].pc = "open"
             /\ stagedFile[req[j].scan][req[j].file] = Absent) =>
            stagedFile'[req[j].scan][req[j].file] = Absent
      BY <1>2, <2>1, <2>2
    <3> QED
      BY <1>5, <2>1, <3>1, WriterStays
  <2>4. CheckOK(j, M)'
    <3>1. CASE req[j].scan # s \/ req[j].pc \notin Checked
      <4>1. "idle" \notin Checked
        BY DEF Checked
      <4>2. req[j].pc \in Checked => StagingGoesOn(req[j].scan, M)
        BY <1>2, <2>1, <3>1, <4>1, StagingRests
      <4> QED
        BY <1>5, <2>1, <4>2, CheckStays
    <3>2. CASE req[j].scan = s /\ req[j].pc \in Checked
      <4>1. ~AllAwaited
        BY <2>1, <3>2, OneRequest DEF Checked
      <4>2. (StagingKept' /\ s \notin M /\ MissingFiles(s) = {}) => MissingFiles(s)' = {}
        <5> SUFFICES ASSUME StagingKept', s \notin M, MissingFiles(s) = {}
                     PROVE  MissingFiles(s)' = {}
          OBVIOUS
        <5>1. WritersAwaited
          BY <1>5, FaultsOrdered DEF FaultsGoOn
        <5>2. \A g \in File : stagedFile[s][g] = "whole"
          BY DEF MissingFiles
        <5>3. content = "whole"
          BY <5>1, <5>2, AbsentAssumption DEF FileContent, RepositoryContent
        <5> QED
          BY <1>2, <5>2, <5>3 DEF MissingFiles
      <4>3. StagingGoesOn(s, M)
        BY <1>5, <4>1, <4>2 DEF StagingGoesOn, FaultsGoOn
      <4>4. StagingGoesOn(req[j].scan, M)
        BY <3>2, <4>3
      <4> QED
        BY <1>5, <2>1, <4>4, CheckStays
    <3> QED
      BY <3>1, <3>2
  <2> QED
    BY <2>1, <2>3, <2>4 DEF Rests
<1> QED
  BY <1>3, <1>4, <1>6, HandlerMoves

LEMMA OpenFileKeeps ==
    ASSUME NEW M, NEW B, ScanInv(M, B), NEW k \in Caller, OpenFile(k)
    PROVE  ScanInv(M, B)'
<1>1. PICK s, f : s = req[k].scan /\ f = req[k].file
  OBVIOUS
<1>2. /\ req[k].pc = "open"
      /\ stagedManifest' = stagedManifest /\ filesDir' = filesDir
      /\ client' = client /\ call' = call /\ faults' = faults
  BY DEF OpenFile, Serving
<1>3. call' = [call EXCEPT ![k] = Idle] /\ call[k] = Idle
  BY <1>2, CallAtPoint
<1>4. /\ stagedManifest \in [Scan -> BOOLEAN] /\ filesDir \in [Scan -> BOOLEAN]
      /\ req \in [Caller -> Request] /\ faults \in FaultHistory
  BY TypesFields DEF ScanInv
<1>5. s \in Scan /\ f \in File
  BY <1>1, <1>2, <1>4, RequestFields DEF WritingPoints
<1>6. CASE filesDir[s]
  <2>1. /\ stagedFile' = [stagedFile EXCEPT ![s][f] = "partial"]
        /\ req' = [req EXCEPT ![k].pc = "writing"]
    BY <1>1, <1>6 DEF OpenFile
  <2>2. PICK r : r = [pc |-> "writing", scan |-> s, file |-> f]
    OBVIOUS
  <2>3. r \in Request /\ r.pc = "writing" /\ r.scan = s /\ r.file = f
    BY <1>5, <2>2, RequestShapes DEF WritingPoints
  <2>4. req' = [req EXCEPT ![k] = r]
    <3>1. req[k] \in [pc: {"file", "open", "writing", "unlinked"}, scan: Scan, file: File]
      BY <1>2, <1>4 DEF Request
    <3>2. [req[k] EXCEPT !.pc = "writing"] = r
      BY <1>1, <2>2, <3>1
    <3>3. req' = [req EXCEPT ![k] = [req[k] EXCEPT !.pc = "writing"]]
      BY <2>1
    <3> QED
      BY <3>2, <3>3
  <2>5. req'[k] = r
    BY <1>4, <2>4
  <2>6. WriterOK(k)'
    BY <1>1, <1>2, <1>4, <2>3, <2>5, CallAtPoint, WriterMoves DEF WritingPoints
  <2>7. CallOK(k, M, B)' /\ RequestOK(k, M, B)' /\ CheckOK(k, M)'
    BY <1>2, <1>3, <2>3, <2>5 DEF CallOK, RequestOK, CheckOK, Checked
  <2>8. \A sent \in {"manifest", "file", "commit"} :
          req[k].pc \in Points(sent) => r.pc \in Points(sent)
    BY <1>2, <2>3 DEF Points
  <2>9. \A t \in Scan : AwaitedBy(k, t) => r.pc \in Points(client[t].sent) /\ r.scan = t
    BY <1>1, <2>3, <2>8, PointsFollow
  <2>10. SlotOK(k, M, B)'
    BY <2>6, <2>7 DEF SlotOK
  <2>11. WritersAwaited => stagedFile[s][f] = Absent
    BY <1>1, <1>2, CallAtPoint DEF WriterOK
  <2>12. "partial" \in FileContent
    BY DEF FileContent
  <2> QED
    BY <1>1, <1>2, <1>5, <2>1, <2>3, <2>4, <2>9, <2>10, <2>11, <2>12, WriterWrites
<1>7. CASE ~filesDir[s]
  <2>1. Respond(k, Failed) /\ stagedFile' = stagedFile
    BY <1>1, <1>7 DEF OpenFile
  <2>2. Failed \in Answer /\ Failed.state # "committed"
    BY AnswerShapes DEF Failed
  <2> QED
    BY <1>2, <1>3, <1>4, <2>1, <2>2, RespondKeeps
<1> QED
  BY <1>6, <1>7

LEMMA FileWrittenKeeps ==
    ASSUME NEW M, NEW B, ScanInv(M, B), NEW k \in Caller, FileWritten(k)
    PROVE  ScanInv(M, B)'
<1>1. PICK s, f : s = req[k].scan /\ f = req[k].file
  OBVIOUS
<1>2. /\ req[k].pc \in {"writing", "unlinked"} /\ GoTo(k, "status")
      /\ stagedManifest' = stagedManifest /\ filesDir' = filesDir
      /\ client' = client /\ call' = call /\ faults' = faults
  BY DEF FileWritten
<1>3. /\ call[k] = Idle /\ call'[k] = Idle
      /\ \A j \in Caller \ {k} : call'[j] = call[j]
  BY <1>2, CallAtPoint
<1>4. /\ stagedManifest \in [Scan -> BOOLEAN] /\ filesDir \in [Scan -> BOOLEAN]
      /\ call \in [Caller -> CallState(RepositoryContent)]
      /\ req \in [Caller -> Request] /\ faults \in FaultHistory
  BY TypesFields DEF ScanInv
<1>5. s \in Scan /\ f \in File
  BY <1>1, <1>2, <1>4, RequestFields DEF WritingPoints
<1>6. \A sent \in {"manifest", "file", "commit"} :
        req[k].pc \in Points(sent) => "status" \in Points(sent)
  BY <1>2 DEF Points
<1>7. /\ \E r \in Request : req' = [req EXCEPT ![k] = r] /\ r = At("status", req[k].scan)
      /\ SlotOK(k, M, B)'
      /\ \A t \in Scan : AwaitedBy(k, t) =>
           At("status", req[k].scan).pc \in Points(client[t].sent)
             /\ At("status", req[k].scan).scan = t
  BY <1>2, <1>3, <1>6, MovesTo
<1>8. CASE req[k].pc = "writing"
  <2>1. stagedFile' = [stagedFile EXCEPT ![s][f] = "whole"]
    BY <1>1, <1>8 DEF FileWritten, Serving
  <2>2. "whole" \in FileContent
    BY DEF FileContent
  <2>3. PICK r \in Request : /\ req' = [req EXCEPT ![k] = r] /\ r = At("status", s)
                            /\ SlotOK(k, M, B)'
    BY <1>1, <1>7
  <2>4. \A t \in Scan : AwaitedBy(k, t) => r.pc \in Points(client[t].sent) /\ r.scan = t
    BY <1>1, <1>7, <2>3
  <2> QED
    BY <1>1, <1>2, <1>5, <1>8, <2>1, <2>2, <2>3, <2>4, WriterWrites
<1>9. CASE req[k].pc = "unlinked"
  <2>1. stagedFile' = stagedFile
    BY <1>9 DEF FileWritten, Serving
  <2> QED
    BY <1>2, <1>3, <1>4, <1>7, <2>1, HandlerTalks
<1> QED
  BY <1>2, <1>8, <1>9

LEMMA CommitCheckKeeps ==
    ASSUME NEW M, NEW B, ScanInv(M, B), NEW k \in Caller, CommitCheck(k)
    PROVE  ScanInv(M, B)'
<1>1. PICK s : s = req[k].scan
  OBVIOUS
<1>2. /\ req[k].pc = "check"
      /\ stagedManifest' = stagedManifest /\ stagedFile' = stagedFile
      /\ filesDir' = filesDir /\ client' = client /\ faults' = faults
  BY DEF CommitCheck, Serving, staging
<1>3. /\ stagedManifest \in [Scan -> BOOLEAN] /\ filesDir \in [Scan -> BOOLEAN]
      /\ stagedFile \in [Scan -> [File -> FileContent \union {Absent}]]
      /\ call \in [Caller -> CallState(RepositoryContent)]
      /\ req \in [Caller -> Request] /\ faults \in FaultHistory
  BY TypesFields DEF ScanInv
<1>4. s \in Scan
  BY <1>1, <1>2, <1>3, RequestFields
<1>5. CASE stagedManifest[s] /\ MissingFiles(s) = {}
  <2>1. GoTo(k, "marker") /\ Ask(k, Reading(MarkerPath(s)))
    BY <1>1, <1>5 DEF CommitCheck
  <2>2. PICK r : r = At("marker", s)
    OBVIOUS
  <2>3. r \in Request /\ r.pc = "marker" /\ r.scan = s
    BY <1>4, <2>2, RequestShapes
  <2>4. req' = [req EXCEPT ![k] = r]
    BY <1>1, <2>1, <2>2 DEF GoTo
  <2>5. req'[k] = r
    BY <1>3, <2>4
  <2>6. /\ call' \in [Caller -> CallState(RepositoryContent)]
        /\ call'[k] = Reading(MarkerPath(s))
        /\ \A j \in Caller \ {k} : call'[j] = call[j]
    BY <1>3, <1>4, <2>1, CallShapes, Paths DEF Ask
  <2>7. call'[k].step = "read" /\ call'[k].path = MarkerPath(s)
    BY <1>4, <2>6, CallShapes, Paths
  <2>8. WriterOK(k)'
    BY <1>1, <1>2, <1>3, <2>3, <2>5, CallAtPoint, WriterMoves DEF WritingPoints
  <2>9. CallOK(k, M, B)' /\ RequestOK(k, M, B)'
    BY <2>3, <2>5, <2>7 DEF CallOK, RequestOK
  <2>10. CheckOK(k, M)'
    <3>1. \A f \in File : stagedFile[s][f] = "whole"
      BY <1>5 DEF MissingFiles
    <3>2. req'[k].scan = s
      BY <2>3, <2>5
    <3> QED
      BY <1>2, <3>1, <3>2 DEF CheckOK, MissingFiles
  <2>11. \A sent \in {"manifest", "file", "commit"} :
          req[k].pc \in Points(sent) => r.pc \in Points(sent)
    BY <1>2, <2>3 DEF Points
  <2>12. \A t \in Scan : AwaitedBy(k, t) => r.pc \in Points(client[t].sent) /\ r.scan = t
    BY <1>1, <2>3, <2>11, PointsFollow
  <2>13. SlotOK(k, M, B)'
    BY <2>8, <2>9, <2>10 DEF SlotOK
  <2> QED
    BY <1>2, <1>3, <2>3, <2>4, <2>6, <2>12, <2>13, HandlerTalks
<1>6. CASE ~(stagedManifest[s] /\ MissingFiles(s) = {})
  <2>1. Respond(k, Failed) /\ call' = call
    BY <1>1, <1>6 DEF CommitCheck
  <2>2. Failed \in Answer /\ Failed.state # "committed"
    BY AnswerShapes DEF Failed
  <2>3. call' = [call EXCEPT ![k] = Idle]
    BY <1>2, <2>1, CallAtPoint
  <2> QED
    BY <1>2, <1>3, <2>1, <2>2, <2>3, RespondKeeps
<1> QED
  BY <1>5, <1>6

LEMMA CommitMarkerReadKeeps ==
    ASSUME NEW M, NEW B, ScanInv(M, B), NEW k \in Caller, CommitMarkerRead(k)
    PROVE  ScanInv(M, B)'
<1>1. PICK s : s = req[k].scan
  OBVIOUS
<1>2. /\ req[k].pc = "marker" /\ call[k].step = "data"
      /\ stagedManifest' = stagedManifest /\ stagedFile' = stagedFile
      /\ filesDir' = filesDir /\ client' = client /\ faults' = faults
      /\ call' = [call EXCEPT ![k] = Idle]
  BY DEF CommitMarkerRead, MarkerParsed, Serving, HasReply, Release, staging
<1>3. /\ stagedManifest \in [Scan -> BOOLEAN] /\ filesDir \in [Scan -> BOOLEAN]
      /\ call \in [Caller -> CallState(RepositoryContent)]
      /\ req \in [Caller -> Request] /\ faults \in FaultHistory
  BY TypesFields DEF ScanInv
<1>4. s \in Scan
  BY <1>1, <1>2, <1>3, RequestFields
<1>5. CASE call[k].content # Absent
  <2>1. Respond(k, [state |-> "committed"])
    BY <1>5 DEF CommitMarkerRead
  <2>2. [state |-> "committed"] \in Answer
    BY AnswerShapes
  <2>3. req[k].scan \in B
    BY <1>2, <1>5, CallAtPoint DEF CallOK
  <2> QED
    BY <1>2, <1>3, <2>1, <2>2, <2>3, RespondKeeps
<1>6. CASE call[k].content = Absent
  <2>1. PICK r : r = [pc |-> "collect", scan |-> s, got |-> <<>>]
    OBVIOUS
  <2>2. req' = [req EXCEPT ![k] = r]
    BY <1>1, <1>6, <2>1 DEF CommitMarkerRead
  <2>3. r \in Request /\ r.pc = "collect" /\ r.scan = s /\ r.got = <<>>
    <3>1. <<>> \in Seq(FileContent)
      OBVIOUS
    <3> QED
      BY <1>4, <2>1, <3>1, RequestShapes
  <2>4. req'[k] = r
    BY <1>3, <2>2
  <2>5. /\ call' \in [Caller -> CallState(RepositoryContent)]
        /\ call'[k] = Idle
        /\ \A j \in Caller \ {k} : call'[j] = call[j]
    BY <1>2, <1>3, CallShapes
  <2>6. WriterOK(k)'
    BY <1>1, <1>2, <1>3, <2>3, <2>4, CallAtPoint, WriterMoves DEF WritingPoints
  <2>7. CallOK(k, M, B)'
    BY <2>3, <2>4, <2>5 DEF CallOK
  <2>8. RequestOK(k, M, B)'
    <3>1. Len(<<>>) = 0 /\ Whole(<<>>)
      BY DEF Whole
    <3>2. Len(FileSeq) \in Nat
      BY FilesOfSeq
    <3> QED
      BY <2>3, <2>4, <3>1, <3>2 DEF RequestOK
  <2>9. CheckOK(k, M)'
    <3>1. CheckOK(k, M) /\ req[k].pc \in Checked
      BY <1>2, CallAtPoint DEF Checked
    <3>2. /\ StagingKept' => StagingKept
          /\ AllAwaited' => AllAwaited
      BY <1>2, <1>3, NoFault DEF FaultsGoOn
    <3>3. req'[k].scan = s
      BY <2>3, <2>4
    <3> QED
      BY <1>1, <1>2, <3>1, <3>2, <3>3 DEF CheckOK, MissingFiles
  <2>10. \A sent \in {"manifest", "file", "commit"} :
          req[k].pc \in Points(sent) => r.pc \in Points(sent)
    BY <1>2, <2>3 DEF Points
  <2>11. \A t \in Scan : AwaitedBy(k, t) => r.pc \in Points(client[t].sent) /\ r.scan = t
    BY <1>1, <2>3, <2>10, PointsFollow
  <2>12. SlotOK(k, M, B)'
    BY <2>6, <2>7, <2>8, <2>9 DEF SlotOK
  <2> QED
    BY <1>2, <1>3, <2>2, <2>3, <2>5, <2>11, <2>12, HandlerTalks
<1> QED
  BY <1>5, <1>6

\* What has been collected of the staged files when there are no more.
LEMMA CollectedAll ==
    ASSUME NEW got \in Seq(FileContent), Len(got) = Len(FileSeq)
    PROVE  got \in Collected
BY FilesOfSeq DEF Collected

LEMMA CollectCommits ==
    ASSUME NEW M, NEW B, ScanInv(M, B), NEW k \in Caller, Collect(k),
           Len(req[k].got) = Len(FileSeq)
    PROVE  ScanInv(M, B)'
<1>1. PICK s, got : s = req[k].scan /\ got = req[k].got
  OBVIOUS
<1>2. /\ req[k].pc = "collect"
      /\ stagedManifest' = stagedManifest /\ stagedFile' = stagedFile
      /\ filesDir' = filesDir /\ client' = client /\ faults' = faults
      /\ GoTo(k, "commit")
      /\ Ask(k, Committing(CommitChanges(k, s, got), s))
  BY <1>1 DEF Collect, Serving, staging
<1>3. /\ stagedManifest \in [Scan -> BOOLEAN] /\ filesDir \in [Scan -> BOOLEAN]
      /\ call \in [Caller -> CallState(RepositoryContent)]
      /\ req \in [Caller -> Request] /\ faults \in FaultHistory
  BY TypesFields DEF ScanInv
<1>4. s \in Scan /\ got \in Seq(FileContent)
  BY <1>1, <1>2, <1>3, RequestFields
<1>5. got \in Collected
  BY <1>1, <1>4, CollectedAll
<1>6. PICK r : r = At("commit", s)
  OBVIOUS
<1>7. r \in Request /\ r.pc = "commit" /\ r.scan = s
  BY <1>4, <1>6, RequestShapes
<1>8. req' = [req EXCEPT ![k] = r]
  BY <1>1, <1>2, <1>6 DEF GoTo
<1>9. req'[k] = r
  BY <1>3, <1>8
<1>10. PICK changes : changes = CommitChanges(k, s, got)
  OBVIOUS
<1>11. changes \in Seq(Change(RepositoryContent))
  BY <1>4, <1>5, <1>10, ChangesOfCommit
<1>12. PICK c : c = [step |-> "commit", changes |-> changes, tag |-> s, done |-> 0]
  OBVIOUS
<1>13. c \in CallState(RepositoryContent)
  <2>1. s \in Tag
    BY <1>4, ScanAssumption
  <2> QED
    BY <1>11, <1>12, <2>1 DEF CallState
<1>14. call' = [call EXCEPT ![k] = c]
  BY <1>2, <1>10, <1>12 DEF Ask, Committing
<1>15. /\ call' \in [Caller -> CallState(RepositoryContent)]
       /\ call'[k] = c
       /\ \A j \in Caller \ {k} : call'[j] = call[j]
  BY <1>3, <1>13, <1>14
<1>16. c.step = "commit" /\ c.tag = s /\ c.changes = CommitChanges(k, s, got)
  BY <1>10, <1>12
<1>17. Commits(k, M)'
  <2>1. NoStraggler' => NoStraggler
    BY <1>2, <1>3, NoFault
  <2>2. NoStraggler => Whole(got) \/ s \in M
    BY <1>1, <1>2, CallAtPoint DEF RequestOK
  <2>3. req'[k].scan = s /\ call'[k] = c
    BY <1>7, <1>9, <1>15
  <2> QED
    BY <1>5, <1>16, <2>1, <2>2, <2>3 DEF Commits
<1>18. CallOK(k, M, B)'
  BY <1>7, <1>9, <1>15, <1>16, <1>17 DEF CallOK, CommitSteps
<1>19. WriterOK(k)'
  BY <1>1, <1>2, <1>3, <1>7, <1>9, CallAtPoint, WriterMoves DEF WritingPoints
<1>20. RequestOK(k, M, B)' /\ CheckOK(k, M)'
  BY <1>7, <1>9 DEF RequestOK, CheckOK, Checked
<1>21. \A sent \in {"manifest", "file", "commit"} :
        req[k].pc \in Points(sent) => r.pc \in Points(sent)
  BY <1>2, <1>7 DEF Points
<1>22. \A t \in Scan : AwaitedBy(k, t) => r.pc \in Points(client[t].sent) /\ r.scan = t
  BY <1>1, <1>7, <1>21, PointsFollow
<1>23. SlotOK(k, M, B)'
  BY <1>18, <1>19, <1>20 DEF SlotOK
<1> QED
  BY <1>2, <1>3, <1>7, <1>8, <1>15, <1>22, <1>23, HandlerTalks

LEMMA CollectReads ==
    ASSUME NEW M, NEW B, ScanInv(M, B), NEW k \in Caller, Collect(k),
           Len(req[k].got) # Len(FileSeq)
    PROVE  ScanInv(M, B)'
<1>1. PICK s, got : s = req[k].scan /\ got = req[k].got
  OBVIOUS
<1>2. PICK f : f = FileSeq[Len(got) + 1]
  OBVIOUS
<1>3. /\ req[k].pc = "collect"
      /\ stagedManifest' = stagedManifest /\ stagedFile' = stagedFile
      /\ filesDir' = filesDir /\ client' = client /\ faults' = faults /\ call' = call
      /\ IF stagedFile[s][f] = Absent
           THEN Respond(k, Failed)
           ELSE req' = [req EXCEPT ![k].got = Append(got, stagedFile[s][f])]
  BY <1>1, <1>2 DEF Collect, Serving, staging
<1>4. /\ stagedManifest \in [Scan -> BOOLEAN] /\ filesDir \in [Scan -> BOOLEAN]
      /\ stagedFile \in [Scan -> [File -> FileContent \union {Absent}]]
      /\ call \in [Caller -> CallState(RepositoryContent)]
      /\ req \in [Caller -> Request] /\ faults \in FaultHistory
  BY TypesFields DEF ScanInv
<1>5. s \in Scan /\ got \in Seq(FileContent)
  BY <1>1, <1>3, <1>4, RequestFields
<1>6. Len(got) < Len(FileSeq) /\ Len(got) \in Nat /\ Len(FileSeq) \in Nat
  <2>1. Len(got) <= Len(FileSeq)
    BY <1>1, <1>3, CallAtPoint DEF RequestOK
  <2>2. Len(got) \in Nat /\ Len(FileSeq) \in Nat
    BY <1>5, FilesOfSeq
  <2> QED
    BY <1>1, <2>1, <2>2
<1>7. f \in File
  BY <1>2, <1>6, FilesOfSeq
<1>8. call[k] = Idle /\ call' = [call EXCEPT ![k] = Idle] /\ call'[k] = Idle
  BY <1>3, CallAtPoint
<1>9. CASE stagedFile[s][f] = Absent
  <2>1. Failed \in Answer /\ Failed.state # "committed"
    BY AnswerShapes DEF Failed
  <2> QED
    BY <1>3, <1>4, <1>8, <1>9, <2>1, RespondKeeps
<1>10. CASE stagedFile[s][f] # Absent
  <2>1. PICK read : read = stagedFile[s][f]
    OBVIOUS
  <2>2. read \in FileContent
    BY <1>4, <1>5, <1>7, <1>10, <2>1
  <2>3. PICK more : more = Append(got, read)
    OBVIOUS
  <2>4. /\ more \in Seq(FileContent) /\ Len(more) = Len(got) + 1
        /\ DOMAIN more = 1..(Len(got) + 1) /\ DOMAIN got = 1..Len(got)
        /\ more[Len(got) + 1] = read
        /\ \A i \in 1..Len(got) : more[i] = got[i]
    BY <1>5, <2>2, <2>3, AppendProperties
  <2>5. PICK r : r = [pc |-> "collect", scan |-> s, got |-> more]
    OBVIOUS
  <2>6. r \in Request /\ r.pc = "collect" /\ r.scan = s /\ r.got = more
    BY <1>5, <2>4, <2>5, RequestShapes
  <2>7. req' = [req EXCEPT ![k] = r]
    <3>1. req[k] \in [pc: {"collect"}, scan: Scan, got: Seq(FileContent)]
      BY <1>3, <1>4 DEF Request
    <3>2. [req[k] EXCEPT !.got = more] = r
      BY <1>1, <1>3, <2>5, <3>1
    <3>3. req' = [req EXCEPT ![k] = [req[k] EXCEPT !.got = more]]
      BY <1>3, <1>10, <2>1, <2>3
    <3> QED
      BY <3>2, <3>3
  <2>8. req'[k] = r
    BY <1>4, <2>7
  <2>9. WriterOK(k)'
    BY <1>1, <1>3, <1>4, <2>6, <2>8, CallAtPoint, WriterMoves DEF WritingPoints
  <2>10. CallOK(k, M, B)'
    BY <1>8, <2>6, <2>8 DEF CallOK
  <2>11. CheckOK(k, M) /\ RequestOK(k, M, B) /\ req[k].pc \in Checked
    BY <1>3, CallAtPoint DEF Checked
  <2>12. /\ StagingKept' => StagingKept
         /\ AllAwaited' => AllAwaited
         /\ NoStraggler' => NoStraggler
    BY <1>3, <1>4, NoFault DEF FaultsGoOn
  <2>13. req'[k].scan = s /\ req'[k].got = more /\ req'[k].pc = "collect"
    BY <2>6, <2>8
  <2>14. CheckOK(k, M)'
    BY <1>1, <1>3, <2>11, <2>12, <2>13 DEF CheckOK, MissingFiles
  <2>15. (NoStraggler /\ s \notin M) => Whole(more)
    <3> SUFFICES ASSUME NoStraggler, s \notin M
                 PROVE  Whole(more)
      OBVIOUS
    <3>1. Whole(got)
      BY <1>1, <1>3, <2>11 DEF RequestOK
    <3>2. read = "whole"
      <4>1. CASE AllAwaited
        BY <1>1, <1>7, <2>1, <2>2, <2>11, <4>1 DEF CheckOK, FileContent
      <4>2. CASE StagingKept
        BY <1>1, <1>7, <2>1, <2>11, <4>2 DEF CheckOK, MissingFiles
      <4> QED
        BY <4>1, <4>2 DEF NoStraggler
    <3> QED
      BY <1>6, <2>4, <3>1, <3>2 DEF Whole
  <2>16. RequestOK(k, M, B)'
    BY <1>6, <2>4, <2>12, <2>13, <2>15 DEF RequestOK
  <2>17. \A sent \in {"manifest", "file", "commit"} :
          req[k].pc \in Points(sent) => r.pc \in Points(sent)
    BY <1>3, <2>6 DEF Points
  <2>18. \A t \in Scan : AwaitedBy(k, t) => r.pc \in Points(client[t].sent) /\ r.scan = t
    BY <1>1, <2>6, <2>17, PointsFollow
  <2>19. SlotOK(k, M, B)'
    BY <2>9, <2>10, <2>14, <2>16 DEF SlotOK
  <2>20. /\ call' \in [Caller -> CallState(RepositoryContent)]
         /\ \A j \in Caller \ {k} : call'[j] = call[j]
    BY <1>3, <1>4
  <2> QED
    BY <1>3, <1>4, <2>6, <2>7, <2>18, <2>19, <2>20, HandlerTalks
<1> QED
  BY <1>9, <1>10

LEMMA CollectKeeps ==
    ASSUME NEW M, NEW B, ScanInv(M, B), NEW k \in Caller, Collect(k)
    PROVE  ScanInv(M, B)'
BY CollectCommits, CollectReads

LEMMA CommitReturnedKeeps ==
    ASSUME NEW M, NEW B, ScanInv(M, B), NEW k \in Caller, CommitReturned(k)
    PROVE  ScanInv(M, B)'
<1>1. /\ req[k].pc = "commit" /\ call[k].step = "committed" /\ GoTo(k, "remove")
      /\ stagedManifest' = stagedManifest /\ stagedFile' = stagedFile
      /\ filesDir' = filesDir /\ client' = client /\ faults' = faults
      /\ call' = [call EXCEPT ![k] = Idle]
  BY DEF CommitReturned, Serving, HasReply, Release, staging
<1>2. /\ call \in [Caller -> CallState(RepositoryContent)]
      /\ stagedManifest \in [Scan -> BOOLEAN] /\ filesDir \in [Scan -> BOOLEAN]
  BY TypesFields DEF ScanInv
<1>3. call' \in [Caller -> CallState(RepositoryContent)] /\ call'[k] = Idle
      /\ \A j \in Caller \ {k} : call'[j] = call[j]
  BY <1>1, <1>2, CallShapes
<1>4. req[k].scan \in M
  BY <1>1, CallAtPoint DEF CallOK
<1>5. \A sent \in {"manifest", "file", "commit"} :
        req[k].pc \in Points(sent) => "remove" \in Points(sent)
  BY <1>1 DEF Points
<1>6. /\ \E r \in Request : req' = [req EXCEPT ![k] = r] /\ r = At("remove", req[k].scan)
      /\ SlotOK(k, M, B)'
      /\ \A s \in Scan : AwaitedBy(k, s) =>
           At("remove", req[k].scan).pc \in Points(client[s].sent)
             /\ At("remove", req[k].scan).scan = s
  BY <1>1, <1>3, <1>4, <1>5, MovesTo
<1>7. PICK r \in Request : req' = [req EXCEPT ![k] = r] /\ r = At("remove", req[k].scan)
  BY <1>6
<1>8. \A s \in Scan : AwaitedBy(k, s) => r.pc \in Points(client[s].sent) /\ r.scan = s
  BY <1>6, <1>7
<1>9. stagedManifest' \in [Scan -> BOOLEAN] /\ filesDir' \in [Scan -> BOOLEAN]
  BY <1>1, <1>2
<1> QED
  BY <1>1, <1>3, <1>6, <1>7, <1>8, <1>9, HandlerTalks

LEMMA CallFailedKeeps ==
    ASSUME NEW M, NEW B, ScanInv(M, B), NEW k \in Caller, CallFailed(k)
    PROVE  ScanInv(M, B)'
<1>1. /\ req[k].pc # "idle" /\ Respond(k, Failed)
      /\ stagedManifest' = stagedManifest /\ stagedFile' = stagedFile
      /\ filesDir' = filesDir /\ client' = client /\ faults' = faults
      /\ call' = [call EXCEPT ![k] = Idle]
  BY DEF CallFailed, CallRefused, MarkerTorn, Release, staging
<1>2. /\ stagedManifest \in [Scan -> BOOLEAN] /\ filesDir \in [Scan -> BOOLEAN]
      /\ Failed \in Answer /\ Failed.state # "committed"
  BY TypesFields, AnswerShapes DEF ScanInv, Failed
<1> QED
  BY <1>1, <1>2, RespondKeeps

\* The staging of a scan is gone.
LEMMA Cleared ==
    ASSUME NEW M, NEW B, ScanInv(M, B), NEW s \in Scan, ClearStaging(s)
    PROVE  /\ stagedManifest' \in [Scan -> BOOLEAN]
           /\ stagedFile' \in [Scan -> [File -> FileContent \union {Absent}]]
           /\ filesDir' \in [Scan -> BOOLEAN]
           /\ \A f \in File : stagedFile'[s][f] = Absent
           /\ \A t \in Scan \ {s} : stagedFile'[t] = stagedFile[t]
BY TypesFields DEF ScanInv, ClearStaging

\* Requests that go on while the staging of a scan is cleared.
LEMMA ClearedRests ==
    ASSUME NEW M, NEW B, ScanInv(M, B), NEW s \in Scan, ClearStaging(s),
           s \in M \/ ~StagingKept', FaultsGoOn, client' = client,
           NEW k \in Caller, req'[k] = req[k] \/ Unlinked(k)
    PROVE  WriterOK(k)' /\ CheckOK(k, M)'
<1>1. /\ \A f \in File : stagedFile'[s][f] = Absent
      /\ \A t \in Scan \ {s} : stagedFile'[t] = stagedFile[t]
  BY Cleared
<1>2. /\ req[k] \in Request /\ WriterOK(k) /\ CheckOK(k, M)
      /\ req[k].pc # "idle" => req[k].scan \in Scan
  BY CallAtPoint
<1>3. WriterOK(k)'
  <2>1. (req[k].pc = "open" /\ stagedFile[req[k].scan][req[k].file] = Absent) =>
          stagedFile'[req[k].scan][req[k].file] = Absent
    <3>1. req[k].pc = "open" => req[k].file \in File
      BY <1>2, RequestFields DEF WritingPoints
    <3> QED
      BY <1>1, <1>2, <3>1
  <2> QED
    BY <1>2, <2>1, WriterStays
<1>4. StagingGoesOn(s, M)
  BY <1>1, AbsentAssumption DEF StagingGoesOn, RepositoryContent, FileContent
<1>5. req[k].pc \in Checked => StagingGoesOn(req[k].scan, M)
  <2>1. "idle" \notin Checked
    BY DEF Checked
  <2>2. CASE req[k].scan = s
    BY <1>4, <2>2
  <2>3. CASE req[k].scan # s
    BY <1>1, <1>2, <2>1, <2>3, StagingRests
  <2> QED
    BY <2>2, <2>3
<1>6. CheckOK(k, M)'
  BY <1>2, <1>5, CheckStays
<1> QED
  BY <1>3, <1>6

LEMMA RemoveStagingKeeps ==
    ASSUME NEW M, NEW B, ScanInv(M, B), NEW k \in Caller, RemoveStaging(k)
    PROVE  ScanInv(M, B)'
<1>1. PICK s : s = req[k].scan
  OBVIOUS
<1>2. PICK done : done = [pc |-> "answered", scan |-> s, answer |-> [state |-> "committed"]]
  OBVIOUS
<1>3. PICK r : r = IF AwaitedBy(k, s) THEN done ELSE NoRequest
  OBVIOUS
<1>4. /\ req[k].pc = "remove" /\ ClearStaging(s)
      /\ req' = [Unlink(req, s) EXCEPT ![k] = r]
      /\ client' = client /\ faults' = faults /\ call' = call
  BY <1>1, <1>2, <1>3 DEF RemoveStaging, Serving, AwaitedBy
<1>5. /\ call \in [Caller -> CallState(RepositoryContent)]
      /\ req \in [Caller -> Request] /\ faults \in FaultHistory
      /\ client \in [Scan -> Client]
  BY TypesFields DEF ScanInv
<1>6. s \in Scan /\ s \in M /\ s \in B
  BY <1>1, <1>4, CallAtPoint DEF RequestOK, ScanInv
<1>7. done \in Request /\ NoRequest \in Request /\ r \in Request
  BY <1>2, <1>3, <1>6, RequestShapes, AnswerShapes
<1>8. /\ req'[k] = r /\ DOMAIN req' = Caller
      /\ \A j \in Caller \ {k} : req'[j] = Unlink(req, s)[j]
      /\ req' = [j \in Caller |-> req'[j]]
  BY <1>4 DEF Unlink
<1>9. ASSUME NEW j \in Caller \ {k}
      PROVE  /\ Rests(j) /\ req'[j] \in Request
             /\ WriterOK(j)' /\ CheckOK(j, M)'
  <2>1. req'[j] = req[j] \/ Unlinked(j)
    <3>1. req'[j] = Unlink(req, s)[j] /\ j \in Caller
      BY <1>8
    <3>2. \/ req'[j] = req[j]
          \/ req[j].pc = "writing" /\ req'[j] = [req[j] EXCEPT !.pc = "unlinked"]
      BY <3>1 DEF Unlink
    <3> QED
      BY <3>2 DEF Unlinked
  <2>2. req'[j] \in Request
    BY <1>5, <2>1, UnlinkedRequest
  <2>3. FaultsGoOn
    BY <1>4, <1>5, NoFault
  <2>4. WriterOK(j)' /\ CheckOK(j, M)'
    BY <1>4, <1>6, <2>1, <2>3, ClearedRests
  <2> QED
    BY <1>4, <2>1, <2>2, <2>4 DEF Rests
<1>10. req' \in [Caller -> Request]
  BY <1>7, <1>8, <1>9
<1>11. TypesOK'
  BY <1>4, <1>5, <1>6, <1>10, Cleared DEF TypesOK, ScanTypeOK
<1>12. call[k] = Idle
  BY <1>4, CallAtPoint
<1>13. SlotOK(k, M, B)'
  <2>1. CASE ~AwaitedBy(k, s)
    <3>1. req'[k].pc = "idle"
      BY <1>3, <1>8, <2>1 DEF NoRequest
    <3> QED
      BY <1>4, <1>12, <3>1 DEF SlotOK, CallOK, RequestOK, WriterOK, CheckOK, WritingPoints, Checked
  <2>2. CASE AwaitedBy(k, s)
    <3>1. /\ req'[k].pc = "answered" /\ req'[k].scan = s
          /\ req'[k].answer = [state |-> "committed"] /\ AwaitedBy(k, s)'
      BY <1>2, <1>3, <1>4, <1>8, <2>2 DEF AwaitedBy
    <3>2. CallOK(k, M, B)' /\ CheckOK(k, M)'
      BY <1>4, <1>12, <3>1 DEF CallOK, CheckOK, Checked
    <3>3. RequestOK(k, M, B)'
      BY <1>6, <3>1 DEF RequestOK
    <3>4. WriterOK(k)'
      BY <3>1 DEF WriterOK, WritingPoints
    <3> QED
      BY <3>2, <3>3, <3>4 DEF SlotOK
  <2> QED
    BY <2>1, <2>2
<1>14. ASSUME NEW t \in Scan, AwaitedBy(k, t)
       PROVE  r.pc \in Points(client[t].sent) /\ r.scan = t
  <2>1. s = t /\ client[t].sent \in {"manifest", "file", "commit"}
    BY <1>1, <1>14, AwaitedScan
  <2>2. r.pc = "answered" /\ r.scan = t
    BY <1>2, <1>3, <1>14, <2>1
  <2> QED
    BY <2>1, <2>2 DEF Points
<1>15. \A j \in Caller \ {k} : Rests(j) /\ WriterOK(j)' /\ CheckOK(j, M)'
  BY <1>9
<1> QED
  BY <1>4, <1>7, <1>8, <1>11, <1>13, <1>14, <1>15, HandlerMoves

LEMMA HandlerStepKeeps ==
    ASSUME NEW M, NEW B, ScanInv(M, B), NEW k \in Caller, HandlerStep(k)
    PROVE  ScanInv(M, B)'
BY ManifestMarkerReadKeeps, StatusKeeps, PutFileKeeps, OpenFileKeeps, FileWrittenKeeps,
   CommitCheckKeeps, CommitMarkerReadKeeps, CollectKeeps, CommitReturnedKeeps,
   CallFailedKeeps, RemoveStagingKeeps DEF HandlerStep

-----------------------------------------------------------------------------
(***************************************************************************)
(* The administrator's clean-up, the headset, and the bridge's crash.      *)
(***************************************************************************)
LEMMA CleanupKeeps ==
    ASSUME NEW M, NEW B, ScanInv(M, B), NEW s \in Scan, Cleanup(s)
    PROVE  ScanInv(M, B)'
<1>1. /\ Fault("cleanup") /\ ClearStaging(s) /\ req' = Unlink(req, s)
      /\ client' = client /\ call' = call
  BY DEF Cleanup
<1>2. /\ call \in [Caller -> CallState(RepositoryContent)]
      /\ req \in [Caller -> Request] /\ faults \in FaultHistory
      /\ client \in [Scan -> Client]
  BY TypesFields DEF ScanInv
<1>3. FaultsGoOn /\ ~StagingKept'
  BY <1>1, <1>2, FaultTyped
<1>4. NoStraggler' => NoStraggler
  BY <1>3 DEF NoStraggler, FaultsGoOn
<1>5. ASSUME NEW j \in Caller
      PROVE  /\ Rests(j) /\ req'[j] \in Request
             /\ SlotOK(j, M, B)'
  <2>1. \/ req'[j] = req[j]
        \/ req[j].pc = "writing" /\ req'[j] = [req[j] EXCEPT !.pc = "unlinked"]
    BY <1>1 DEF Unlink
  <2>2. req'[j] = req[j] \/ Unlinked(j)
    BY <2>1 DEF Unlinked
  <2>3. req'[j] \in Request
    BY <1>2, <2>2, UnlinkedRequest
  <2>4. WriterOK(j)' /\ CheckOK(j, M)'
    BY <1>1, <1>3, <2>2, ClearedRests
  <2>5. Rests(j)
    BY <1>1, <2>2 DEF Rests
  <2>6. CallOK(j, M, B)' /\ RequestOK(j, M, B)'
    BY <1>2, <1>4, <2>2, <2>5, CallAtPoint, CallStays, RequestStays
  <2> QED
    BY <2>3, <2>4, <2>5, <2>6 DEF SlotOK
<1>6. req' \in [Caller -> Request]
  <2>1. req' = [j \in Caller |-> req'[j]]
    BY <1>1 DEF Unlink
  <2> QED
    BY <1>5, <2>1
<1>7. TypesOK'
  BY <1>1, <1>2, <1>3, <1>6, Cleared DEF TypesOK, ScanTypeOK, FaultsGoOn
<1>8. ASSUME NEW t \in Scan
      PROVE  ClientOK(t, B)'
  <2>1. client[t] \in Client /\ ClientOK(t, B) /\ client'[t] = client[t]
    BY <1>1, <1>2 DEF ScanInv
  <2>2. client[t].pc = "sent" => client[t].slot \in Caller
    BY <2>1, ClientFields
  <2> QED
    BY <1>2, <1>5, <2>1, <2>2, ClientStays DEF Rests
<1> QED
  BY <1>5, <1>7, <1>8 DEF ScanInv

\* The headset sends the next request about scan s, waiting for none.
LEMMA SendKeeps ==
    ASSUME NEW M, NEW B, ScanInv(M, B), NEW s \in Scan, NEW k \in Caller,
           NEW sent \in {"manifest", "file", "commit"}, NEW r \in Request,
           NEW todo \in SUBSET File,
           client[s].pc # "sent", Send(s, k, sent, r, todo),
           call' \in [Caller -> CallState(RepositoryContent)],
           \A j \in Caller \ {k} : call'[j] = call[j],
           r.scan = s, r.pc = (CASE sent = "manifest" -> "manifest"
                                 [] sent = "file" -> "file"
                                 [] sent = "commit" -> "check"),
           CallOK(k, M, B)'
    PROVE  ScanInv(M, B)'
<1>1. /\ req[k] = NoRequest /\ req' = [req EXCEPT ![k] = r]
      /\ stagedManifest' = stagedManifest /\ stagedFile' = stagedFile
      /\ filesDir' = filesDir /\ faults' = faults
  BY DEF Send, staging
<1>2. PICK c : c = [pc |-> "sent", slot |-> k, sent |-> sent, todo |-> todo]
  OBVIOUS
<1>3. client' = [client EXCEPT ![s] = c]
  BY <1>2 DEF Send
<1>4. c \in Client /\ c.pc = "sent" /\ c.slot = k /\ c.sent = sent
  BY <1>2, ClientShapes
<1>5. /\ call \in [Caller -> CallState(RepositoryContent)]
      /\ req \in [Caller -> Request] /\ faults \in FaultHistory
      /\ stagedManifest \in [Scan -> BOOLEAN] /\ filesDir \in [Scan -> BOOLEAN]
      /\ stagedFile \in [Scan -> [File -> FileContent \union {Absent}]]
      /\ client \in [Scan -> Client]
  BY TypesFields DEF ScanInv
<1>6. /\ client' \in [Scan -> Client] /\ client'[s] = c
      /\ \A t \in Scan \ {s} : client'[t] = client[t]
      /\ req' \in [Caller -> Request] /\ req'[k] = r
      /\ \A j \in Caller \ {k} : req'[j] = req[j]
  BY <1>1, <1>3, <1>4, <1>5
<1>7. TypesOK'
  BY <1>1, <1>5, <1>6 DEF TypesOK, ScanTypeOK
<1>8. FaultsGoOn /\ (NoStraggler' => NoStraggler)
  BY <1>1, <1>5, NoFault
<1>9. \A j \in Caller : ~AwaitedBy(j, s)
  BY DEF AwaitedBy
<1>10. ASSUME NEW j \in Caller \ {k}
       PROVE  SlotOK(j, M, B)'
  <2>1. /\ req[j] \in Request /\ req'[j] = req[j] /\ call'[j] = call[j]
        /\ CallOK(j, M, B) /\ RequestOK(j, M, B) /\ WriterOK(j) /\ CheckOK(j, M)
        /\ req[j].pc # "idle" => req[j].scan \in Scan
    BY <1>6, CallAtPoint
  <2>2. CallOK(j, M, B)' /\ RequestOK(j, M, B)'
    BY <1>8, <2>1, CallStays, RequestStays DEF Rests
  <2>3. WriterOK(j)'
    <3>1. (AwaitedBy(j, req[j].scan) /\ req[j].pc # "idle") =>
            client'[req[j].scan] = client[req[j].scan]
      BY <1>6, <1>9, <2>1
    <3> QED
      BY <1>1, <1>8, <2>1, <3>1, WriterStays
  <2>4. CheckOK(j, M)'
    BY <1>1, <1>8, <2>1, StagingRests, CheckStays
  <2> QED
    BY <2>2, <2>3, <2>4 DEF SlotOK
<1>11. /\ sent = "manifest" => r.pc = "manifest"
       /\ sent = "file" => r.pc = "file"
       /\ sent = "commit" => r.pc = "check"
  OBVIOUS
<1>12. AwaitedBy(k, s)' /\ client'[s].sent = sent /\ req'[k].scan = s /\ req'[k].pc = r.pc
  BY <1>4, <1>6 DEF AwaitedBy
<1>13. SlotOK(k, M, B)'
  <2>1. WriterOK(k)'
    BY <1>11, <1>12 DEF WriterOK, WritingPoints
  <2>2. RequestOK(k, M, B)' /\ CheckOK(k, M)'
    BY <1>11, <1>12 DEF RequestOK, CheckOK, Checked
  <2> QED
    BY <2>1, <2>2 DEF SlotOK
<1>14. ASSUME NEW t \in Scan
       PROVE  ClientOK(t, B)'
  <2>1. CASE t = s
    <3>1. r.pc \in Points(sent)
      BY <1>11 DEF Points
    <3> QED
      BY <1>4, <1>6, <2>1, <3>1 DEF ClientOK
  <2>2. CASE t # s
    <3>1. /\ client[t] \in Client /\ ClientOK(t, B) /\ client'[t] = client[t]
          /\ client[t].pc = "sent" => client[t].slot \in Caller
      BY <1>5, <1>6, <2>2, ClientFields DEF ScanInv
    <3>2. ~AwaitedBy(k, t)
      BY <1>1, RequestShapes, AwaitedScan
    <3>3. client[t].pc = "sent" => req'[client[t].slot] = req[client[t].slot]
      BY <1>6, <3>1, <3>2 DEF AwaitedBy
    <3> QED
      BY <1>5, <3>1, <3>3, ClientStays
  <2> QED
    BY <2>1, <2>2
<1> QED
  BY <1>7, <1>10, <1>13, <1>14 DEF ScanInv

LEMMA SendManifestKeeps ==
    ASSUME NEW M, NEW B, ScanInv(M, B), NEW s \in Scan, NEW k \in Caller, SendManifest(s, k)
    PROVE  ScanInv(M, B)'
<1>1. PICK r : r = At("manifest", s)
  OBVIOUS
<1>2. r \in Request /\ r.pc = "manifest" /\ r.scan = s
  BY <1>1, RequestShapes
<1>3. /\ client[s].pc = "pending" /\ Send(s, k, "manifest", r, {})
      /\ Ask(k, Reading(MarkerPath(s)))
  BY <1>1 DEF SendManifest
<1>4. call \in [Caller -> CallState(RepositoryContent)] /\ req \in [Caller -> Request]
  BY TypesFields DEF ScanInv
<1>5. /\ Reading(MarkerPath(s)) \in CallState(RepositoryContent)
      /\ Reading(MarkerPath(s)).step = "read"
      /\ Reading(MarkerPath(s)).path = MarkerPath(s)
  BY CallShapes, Paths
<1>6. /\ call' \in [Caller -> CallState(RepositoryContent)]
      /\ call'[k] = Reading(MarkerPath(s))
      /\ \A j \in Caller \ {k} : call'[j] = call[j]
  BY <1>3, <1>4, <1>5 DEF Ask
<1>7. req'[k] = r
  BY <1>3, <1>4 DEF Send
<1>8. CallOK(k, M, B)'
  BY <1>2, <1>5, <1>6, <1>7 DEF CallOK
<1> QED
  BY <1>2, <1>3, <1>6, <1>8, SendKeeps

LEMMA SendFileKeeps ==
    ASSUME NEW M, NEW B, ScanInv(M, B), NEW s \in Scan, NEW k \in Caller, NEW f \in File,
           SendFile(s, k, f)
    PROVE  ScanInv(M, B)'
<1>1. PICK r, todo : r = [pc |-> "file", scan |-> s, file |-> f] /\ todo = client[s].todo \ {f}
  OBVIOUS
<1>2. r \in Request /\ r.pc = "file" /\ r.scan = s
  BY <1>1, RequestShapes DEF WritingPoints
<1>3. client[s].pc = "ready" /\ Send(s, k, "file", r, todo) /\ call' = call
  BY <1>1 DEF SendFile
<1>4. /\ call \in [Caller -> CallState(RepositoryContent)] /\ req \in [Caller -> Request]
      /\ client[s] \in Client
  BY TypesFields DEF ScanInv
<1>5. todo \in SUBSET File
  BY <1>1, <1>3, <1>4, ClientFields
<1>6. req'[k] = r /\ req[k].pc = "idle"
  BY <1>3, <1>4, RequestShapes DEF Send
<1>7. call[k] = Idle
  BY <1>6, CallAtPoint
<1>8. CallOK(k, M, B)'
  BY <1>2, <1>3, <1>6, <1>7 DEF CallOK
<1> QED
  BY <1>2, <1>3, <1>4, <1>5, <1>8, SendKeeps

LEMMA SendCommitKeeps ==
    ASSUME NEW M, NEW B, ScanInv(M, B), NEW s \in Scan, NEW k \in Caller, SendCommit(s, k)
    PROVE  ScanInv(M, B)'
<1>1. PICK r : r = At("check", s)
  OBVIOUS
<1>2. r \in Request /\ r.pc = "check" /\ r.scan = s
  BY <1>1, RequestShapes
<1>3. client[s].pc = "ready" /\ Send(s, k, "commit", r, {}) /\ call' = call
  BY <1>1 DEF SendCommit
<1>4. call \in [Caller -> CallState(RepositoryContent)] /\ req \in [Caller -> Request]
  BY TypesFields DEF ScanInv
<1>5. req'[k] = r /\ req[k].pc = "idle"
  BY <1>3, <1>4, RequestShapes DEF Send
<1>6. call[k] = Idle
  BY <1>5, CallAtPoint
<1>7. CallOK(k, M, B)'
  BY <1>2, <1>3, <1>5, <1>6 DEF CallOK
<1> QED
  BY <1>2, <1>3, <1>4, <1>7, SendKeeps

\* The headset stops waiting about scan s: it has the answer, or gives up.
LEMMA StopsWaiting ==
    ASSUME NEW M, NEW B, ScanInv(M, B), NEW s \in Scan, NEW c \in Client,
           client' = [client EXCEPT ![s] = c], c.pc # "sent",
           c.pc = "removed" => s \in B,
           req' \in [Caller -> Request],
           \A j \in Caller : req'[j] = req[j]
                               \/ (AwaitedBy(j, s) /\ req[j].pc = "answered" /\ req'[j] = NoRequest),
           FaultsGoOn, call' = call, UNCHANGED staging,
           \A j \in Caller : (AwaitedBy(j, s) /\ req'[j].pc # "idle") =>
             ~AllAwaited' /\ (req[j].pc \notin WritingPoints \/ ~WritersAwaited')
    PROVE  ScanInv(M, B)'
<1>1. /\ call \in [Caller -> CallState(RepositoryContent)]
      /\ stagedManifest \in [Scan -> BOOLEAN] /\ filesDir \in [Scan -> BOOLEAN]
      /\ stagedFile \in [Scan -> [File -> FileContent \union {Absent}]]
      /\ client \in [Scan -> Client] /\ req \in [Caller -> Request]
  BY TypesFields DEF ScanInv
<1>2. /\ stagedManifest' = stagedManifest /\ stagedFile' = stagedFile
      /\ filesDir' = filesDir
  BY DEF staging
<1>3. /\ client' \in [Scan -> Client] /\ client'[s] = c
      /\ \A t \in Scan \ {s} : client'[t] = client[t]
  BY <1>1
<1>4. TypesOK'
  BY <1>1, <1>2, <1>3 DEF TypesOK, ScanTypeOK, FaultsGoOn
<1>5. NoStraggler' => NoStraggler
  BY DEF NoStraggler, FaultsGoOn
<1>6. ASSUME NEW j \in Caller
      PROVE  SlotOK(j, M, B)'
  <2>1. /\ req[j] \in Request /\ call'[j] = call[j]
        /\ CallOK(j, M, B) /\ RequestOK(j, M, B) /\ WriterOK(j) /\ CheckOK(j, M)
        /\ req[j].pc # "idle" => req[j].scan \in Scan
    BY CallAtPoint
  <2>2. CASE req'[j] = req[j]
    <3>1. CallOK(j, M, B)' /\ RequestOK(j, M, B)'
      BY <1>5, <2>1, <2>2, CallStays, RequestStays DEF Rests
    <3>2. WriterOK(j)'
      <4>1. (AwaitedBy(j, req[j].scan) /\ req[j].pc # "idle") =>
              \/ client'[req[j].scan] = client[req[j].scan]
              \/ ~AllAwaited' /\ (req[j].pc \notin WritingPoints \/ ~WritersAwaited')
        BY <1>3, <2>1, <2>2
      <4> QED
        BY <1>2, <2>1, <2>2, <4>1, WriterStays
    <3>3. CheckOK(j, M)'
      BY <1>2, <2>1, <2>2, StagingRests, CheckStays
    <3> QED
      BY <3>1, <3>2, <3>3 DEF SlotOK
  <2>3. CASE req[j].pc = "answered" /\ req'[j] = NoRequest
    <3>1. req'[j].pc = "idle" /\ call'[j] = Idle
      BY <2>1, <2>3, RequestShapes DEF CallOK
    <3> QED
      BY <3>1 DEF SlotOK, CallOK, RequestOK, WriterOK, CheckOK, WritingPoints, Checked
  <2> QED
    BY <2>2, <2>3
<1>7. ASSUME NEW t \in Scan
      PROVE  ClientOK(t, B)'
  <2>1. CASE t = s
    BY <1>3, <2>1 DEF ClientOK
  <2>2. CASE t # s
    <3>1. /\ client[t] \in Client /\ ClientOK(t, B) /\ client'[t] = client[t]
          /\ client[t].pc = "sent" => client[t].slot \in Caller
      BY <1>1, <1>3, <2>2, ClientFields DEF ScanInv
    <3>2. ASSUME client[t].pc = "sent"
          PROVE  req'[client[t].slot] = req[client[t].slot]
      <4>1. PICK j \in Caller : j = client[t].slot
        BY <3>1, <3>2
      <4>2. req[j].scan = t
        BY <3>1, <3>2, <4>1 DEF ClientOK
      <4>3. ~AwaitedBy(j, s)
        BY <2>2, <4>2, AwaitedScan
      <4> QED
        BY <4>1, <4>3
    <3> QED
      BY <1>1, <3>1, <3>2, ClientStays
  <2> QED
    BY <2>1, <2>2
<1> QED
  BY <1>4, <1>6, <1>7 DEF ScanInv

LEMMA ReceiveAnswerKeeps ==
    ASSUME NEW M, NEW B, ScanInv(M, B), NEW s \in Scan, ReceiveAnswer(s)
    PROVE  ScanInv(M, B)'
<1>1. PICK k : k = client[s].slot
  OBVIOUS
<1>2. PICK answer : answer = req[k].answer
  OBVIOUS
<1>3. PICK c : c = CASE answer.state = "committed" -> [pc |-> "removed"]
                     [] answer.state = "uploading" ->
                          [pc |-> "ready",
                           todo |-> IF client[s].sent = "manifest"
                                      THEN answer.missing ELSE client[s].todo]
                     [] OTHER -> [pc |-> "pending"]
  OBVIOUS
<1>4. /\ client[s].pc = "sent" /\ req[k].pc = "answered"
      /\ client' = [client EXCEPT ![s] = c]
      /\ req' = [req EXCEPT ![k] = NoRequest]
      /\ UNCHANGED staging /\ call' = call /\ faults' = faults
  BY <1>1, <1>2, <1>3 DEF ReceiveAnswer, Serving
<1>5. /\ client[s] \in Client /\ req \in [Caller -> Request] /\ faults \in FaultHistory
  BY TypesFields DEF ScanInv
<1>6. k \in Caller /\ AwaitedBy(k, s) /\ client[s].todo \in SUBSET File
  BY <1>1, <1>4, <1>5, ClientFields DEF AwaitedBy
<1>7. answer \in Answer /\ req[k].scan = s
  BY <1>2, <1>4, <1>5, <1>6, RequestFields, AwaitedScan
<1>8. c \in Client /\ c.pc # "sent" /\ (c.pc = "removed" => answer.state = "committed")
  <2>1. CASE answer.state = "committed"
    BY <1>3, <2>1, ClientShapes
  <2>2. CASE answer.state = "uploading"
    <3>1. PICK todo \in SUBSET File : c = [pc |-> "ready", todo |-> todo]
      BY <1>3, <1>6, <1>7, <2>2, AnswerShapes
    <3> QED
      BY <3>1, ClientShapes
  <2>3. CASE answer.state \notin {"committed", "uploading"}
    BY <1>3, <2>3, ClientShapes
  <2> QED
    BY <2>1, <2>2, <2>3
<1>9. c.pc = "removed" => s \in B
  BY <1>2, <1>4, <1>6, <1>7, <1>8, CallAtPoint DEF RequestOK
<1>10. /\ req' \in [Caller -> Request] /\ req'[k] = NoRequest
       /\ \A j \in Caller \ {k} : req'[j] = req[j]
  BY <1>4, <1>5, <1>6, RequestShapes
<1>11. \A j \in Caller : AwaitedBy(j, s) => j = k
  BY <1>1 DEF AwaitedBy
<1>12. FaultsGoOn
  BY <1>4, <1>5, NoFault
<1>13. \A j \in Caller : (AwaitedBy(j, s) /\ req'[j].pc # "idle") =>
         ~AllAwaited' /\ (req[j].pc \notin WritingPoints \/ ~WritersAwaited')
  BY <1>10, <1>11, RequestShapes
<1>14. \A j \in Caller : req'[j] = req[j]
                           \/ (AwaitedBy(j, s) /\ req[j].pc = "answered" /\ req'[j] = NoRequest)
  BY <1>4, <1>6, <1>10
<1> QED
  BY <1>4, <1>8, <1>9, <1>10, <1>12, <1>13, <1>14, StopsWaiting

LEMMA GiveUpKeeps ==
    ASSUME NEW M, NEW B, ScanInv(M, B), NEW s \in Scan, GiveUp(s)
    PROVE  ScanInv(M, B)'
<1>1. PICK kind : kind = IF client[s].pc = "sent" /\ client[s].sent = "file"
                           THEN "fileTimeout" ELSE "timeout"
  OBVIOUS
<1>2. PICK slot : slot = IF client[s].pc = "sent" THEN client[s].slot ELSE NoSlot
  OBVIOUS
<1>3. /\ client[s].pc \in {"sent", "ready"} /\ Fault(kind)
      /\ req' = [k \in Caller |->
                   IF k = slot /\ Serving(k, "answered") THEN NoRequest ELSE req[k]]
      /\ client' = [client EXCEPT ![s] = [pc |-> "pending"]]
      /\ UNCHANGED staging /\ call' = call
  BY <1>1, <1>2 DEF GiveUp
<1>4. /\ client[s] \in Client /\ req \in [Caller -> Request] /\ faults \in FaultHistory
  BY TypesFields DEF ScanInv
<1>5. /\ FaultsGoOn
      /\ kind = "fileTimeout" => ~WritersAwaited' /\ ~AllAwaited'
      /\ kind = "timeout" => ~AllAwaited'
  BY <1>3, <1>4, FaultTyped
<1>6. ~AllAwaited' /\ kind \in {"fileTimeout", "timeout"}
  BY <1>1, <1>5
<1>7. \A j \in Caller : j = slot => AwaitedBy(j, s)
  BY <1>2, ScanAssumption DEF AwaitedBy
<1>8. ASSUME NEW j \in Caller
      PROVE  req'[j] = req[j]
               \/ (AwaitedBy(j, s) /\ req[j].pc = "answered" /\ req'[j] = NoRequest)
  <2>1. req'[j] = IF j = slot /\ req[j].pc = "answered" THEN NoRequest ELSE req[j]
    BY <1>3 DEF Serving
  <2> QED
    BY <1>7, <2>1
<1>9. req' \in [Caller -> Request]
  BY <1>3, <1>4, RequestShapes
<1>10. ASSUME NEW j \in Caller, AwaitedBy(j, s)
       PROVE  req[j].pc \notin WritingPoints \/ ~WritersAwaited'
  <2>1. CASE client[s].sent = "file"
    BY <1>1, <1>5, <1>10, <2>1 DEF AwaitedBy
  <2>2. CASE client[s].sent # "file"
    <3>1. /\ req[j].pc \in Points(client[s].sent)
          /\ client[s].sent \in {"manifest", "commit"}
      BY <1>10, <2>2, AwaitedScan
    <3> QED
      BY <3>1 DEF Points, WritingPoints
  <2> QED
    BY <2>1, <2>2
<1>11. PICK c : c = [pc |-> "pending"]
  OBVIOUS
<1>12. c \in Client /\ c.pc = "pending"
  BY <1>11, ClientShapes
<1> QED
  BY <1>3, <1>5, <1>6, <1>8, <1>9, <1>10, <1>11, <1>12, StopsWaiting

LEMMA ScanCrashKeeps ==
    ASSUME NEW M, NEW B, ScanInv(M, B), ScanCrash
    PROVE  ScanInv(M, B)'
<1>1. /\ call \in [Caller -> CallState(RepositoryContent)]
      /\ stagedManifest \in [Scan -> BOOLEAN] /\ filesDir \in [Scan -> BOOLEAN]
      /\ stagedFile \in [Scan -> [File -> FileContent \union {Absent}]]
      /\ client \in [Scan -> Client] /\ faults \in FaultHistory
  BY TypesFields DEF ScanInv
<1>2. /\ req' = [k \in Caller |-> NoRequest] /\ call' = [k \in Caller |-> Idle]
      /\ client' = [s \in Scan |->
                      IF client[s].pc = "sent" THEN [pc |-> "pending"] ELSE client[s]]
      /\ stagedManifest' = stagedManifest /\ stagedFile' = stagedFile
      /\ filesDir' = filesDir
  BY DEF ScanCrash, staging
<1>3. faults' \in FaultHistory
  BY <1>1, FaultTyped DEF ScanCrash, FaultsGoOn
<1>4. /\ req' \in [Caller -> Request] /\ call' \in [Caller -> CallState(RepositoryContent)]
  BY <1>2, RequestShapes, CallShapes
<1>5. client' \in [Scan -> Client] /\ \A s \in Scan : client'[s].pc # "sent"
  BY <1>1, <1>2, ClientShapes
<1>6. TypesOK'
  BY <1>1, <1>2, <1>3, <1>4, <1>5 DEF TypesOK, ScanTypeOK
<1>7. ASSUME NEW k \in Caller
      PROVE  SlotOK(k, M, B)'
  <2>1. req'[k].pc = "idle" /\ call'[k] = Idle
    BY <1>2, RequestShapes
  <2> QED
    BY <2>1 DEF SlotOK, CallOK, RequestOK, WriterOK, CheckOK, WritingPoints, Checked
<1>8. ASSUME NEW s \in Scan
      PROVE  ClientOK(s, B)'
  <2>1. client'[s].pc = "removed" => client[s].pc = "removed"
    BY <1>2
  <2> QED
    BY <1>5, <2>1 DEF ClientOK, ScanInv
<1> QED
  BY <1>6, <1>7, <1>8 DEF ScanInv

LEMMA ScanStepKeeps ==
    ASSUME NEW M, NEW B, ScanInv(M, B), ScanStep
    PROVE  ScanInv(M, B)'
BY HandlerStepKeeps, SendManifestKeeps, SendFileKeeps, SendCommitKeeps,
   ReceiveAnswerKeeps, GiveUpKeeps, CleanupKeeps DEF ScanStep, ClientStep

LEMMA ScanInitKeeps ==
    ASSUME NEW M, NEW B, M \subseteq B, ProviderInit, ScanInit
    PROVE  ScanInv(M, B)
<1>1. /\ call = [k \in Caller |-> Idle] /\ faults = NoFaults
      /\ stagedManifest = [s \in Scan |-> FALSE]
      /\ stagedFile = [s \in Scan |-> [f \in File |-> Absent]]
      /\ filesDir = [s \in Scan |-> FALSE]
      /\ req = [k \in Caller |-> NoRequest]
      /\ client = [s \in Scan |-> [pc |-> "pending"]]
  BY DEF ProviderInit, ScanInit
<1>2. TypesOK
  BY <1>1, RequestShapes, CallShapes, ClientShapes DEF TypesOK, ScanTypeOK, FaultHistory, NoFaults
<1>3. ASSUME NEW k \in Caller
      PROVE  SlotOK(k, M, B)
  <2>1. req[k].pc = "idle" /\ call[k] = Idle
    BY <1>1, RequestShapes
  <2> QED
    BY <2>1 DEF SlotOK, CallOK, RequestOK, WriterOK, CheckOK, WritingPoints, Checked
<1>4. \A s \in Scan : ClientOK(s, B)
  BY <1>1 DEF ClientOK
<1> QED
  BY <1>2, <1>3, <1>4 DEF ScanInv

-----------------------------------------------------------------------------
(***************************************************************************)
(* A step of the provider, by which the repository may get more scans.     *)
(***************************************************************************)
LEMMA ProviderKeeps ==
    ASSUME NEW M, NEW N, M \subseteq N, NEW B, NEW C, B \subseteq C, N \subseteq C,
           ScanInv(M, B), UNCHANGED scanVars, FaultsGoOn,
           NEW k \in Caller,
           call' \in [Caller -> CallState(RepositoryContent)],
           \A j \in Caller \ {k} : call'[j] = call[j],
           CallOK(k, N, C)'
    PROVE  ScanInv(N, C)'
<1>1. /\ stagedManifest' = stagedManifest /\ stagedFile' = stagedFile
      /\ filesDir' = filesDir /\ req' = req /\ client' = client
  BY DEF scanVars, staging
<1>2. /\ req \in [Caller -> Request] /\ client \in [Scan -> Client]
  BY TypesFields DEF ScanInv
<1>3. TypesOK'
  BY <1>1 DEF ScanInv, TypesOK, ScanTypeOK, FaultsGoOn
<1>4. NoStraggler' => NoStraggler
  BY DEF NoStraggler, FaultsGoOn
<1>5. ASSUME NEW j \in Caller
      PROVE  SlotOK(j, N, C)'
  <2>1. /\ req[j] \in Request /\ req'[j] = req[j]
        /\ CallOK(j, M, B) /\ RequestOK(j, M, B) /\ WriterOK(j) /\ CheckOK(j, M)
    BY <1>1, CallAtPoint
  <2>2. CallOK(j, N, C)'
    <3>1. CASE j = k
      BY <3>1
    <3>2. CASE j # k
      BY <1>4, <2>1, <3>2, CallStays DEF Rests
    <3> QED
      BY <3>1, <3>2
  <2>3. RequestOK(j, N, C)'
    BY <1>4, <2>1, RequestStays
  <2>4. WriterOK(j)'
    BY <1>1, <2>1, WriterStays
  <2>5. CheckOK(j, N)'
    BY <1>1, <2>1, StagingRests, CheckStays
  <2> QED
    BY <2>2, <2>3, <2>4, <2>5 DEF SlotOK
<1>6. ASSUME NEW s \in Scan
      PROVE  ClientOK(s, C)'
  BY <1>1 DEF ScanInv, ClientOK
<1> QED
  BY <1>3, <1>5, <1>6 DEF ScanInv

LEMMA ScanStutters ==
    ASSUME NEW M, NEW B, ScanInv(M, B), UNCHANGED <<call, faults, scanVars>>
    PROVE  ScanInv(M, B)'
<1>1. /\ stagedManifest' = stagedManifest /\ stagedFile' = stagedFile
      /\ filesDir' = filesDir /\ req' = req /\ client' = client
      /\ call' = call /\ faults' = faults
  BY DEF scanVars, staging
<1>2. TypesOK' /\ faults \in FaultHistory
  BY <1>1, TypesFields DEF ScanInv, TypesOK, ScanTypeOK
<1>3. FaultsGoOn /\ (NoStraggler' => NoStraggler)
  BY <1>1, <1>2, NoFault
<1>4. ASSUME NEW j \in Caller
      PROVE  SlotOK(j, M, B)'
  <2>1. /\ req[j] \in Request /\ req'[j] = req[j] /\ call'[j] = call[j]
        /\ CallOK(j, M, B) /\ RequestOK(j, M, B) /\ WriterOK(j) /\ CheckOK(j, M)
    BY <1>1, CallAtPoint
  <2>2. CallOK(j, M, B)' /\ RequestOK(j, M, B)'
    BY <1>3, <2>1, CallStays, RequestStays DEF Rests
  <2>3. WriterOK(j)' /\ CheckOK(j, M)'
    BY <1>1, <1>3, <2>1, StagingRests, WriterStays, CheckStays
  <2> QED
    BY <2>2, <2>3 DEF SlotOK
<1>5. ASSUME NEW s \in Scan
      PROVE  ClientOK(s, B)'
  BY <1>1 DEF ScanInv, ClientOK
<1> QED
  BY <1>2, <1>4, <1>5 DEF ScanInv

-----------------------------------------------------------------------------
(***************************************************************************)
(* What the providers' proofs want to know of a step of the service.       *)
(***************************************************************************)
LEMMA ScanFaults ==
    ASSUME NEW M, NEW B, ScanInv(M, B), ScanStep \/ ScanCrash
    PROVE  FaultsGoOn
<1>1. faults \in FaultHistory
  BY TypesFields DEF ScanInv
<1>2. ASSUME NEW k \in Caller, HandlerStep(k)
      PROVE  faults' = faults
  BY <1>2 DEF HandlerStep, ManifestMarkerRead, Status, PutFile, OpenFile, FileWritten,
     CommitCheck, CommitMarkerRead, Collect, CommitReturned, CallFailed, RemoveStaging
<1>3. ASSUME NEW s \in Scan, ClientStep(s)
      PROVE  faults' = faults
  BY <1>3 DEF ClientStep, SendManifest, SendFile, SendCommit, Send, ReceiveAnswer
<1>4. ASSUME NEW s \in Scan, GiveUp(s) \/ Cleanup(s)
      PROVE  FaultsGoOn
  BY <1>1, <1>4, FaultTyped DEF GiveUp, Cleanup
<1>5. CASE ScanCrash
  BY <1>1, <1>5, FaultTyped DEF ScanCrash
<1> QED
  BY <1>1, <1>2, <1>3, <1>4, <1>5, NoFault DEF ScanStep

\* The service asks, releases or leaves a provider call alone.
LEMMA ScanCalls ==
    ASSUME NEW M, NEW B, ScanInv(M, B), ScanStep \/ ScanCrash, NEW k \in Caller
    PROVE  \/ call'[k] = call[k]
           \/ call'[k].step \in {"idle", "read"}
           \/ call'[k].step = "commit" /\ call'[k].done = 0
<1> DEFINE Asked == \/ call'[k] = call[k]
                    \/ call'[k].step \in {"idle", "read"}
                    \/ call'[k].step = "commit" /\ call'[k].done = 0
<1>1. call \in [Caller -> CallState(RepositoryContent)]
  BY TypesFields DEF ScanInv
<1>2. ASSUME NEW j \in Caller, Release(j)
      PROVE  Asked
  BY <1>1, <1>2, CallShapes DEF Release
<1>3. ASSUME NEW j \in Caller, NEW p, Ask(j, Reading(p))
      PROVE  Asked
  BY <1>1, <1>3 DEF Ask, Reading
<1>4. ASSUME NEW j \in Caller, NEW changes, NEW tag, Ask(j, Committing(changes, tag))
      PROVE  Asked
  BY <1>1, <1>4 DEF Ask, Committing
<1>5. call' = call => Asked
  OBVIOUS
<1>6. ASSUME ScanCrash
      PROVE  Asked
  BY <1>6, CallShapes DEF ScanCrash
<1> HIDE DEF Asked
<1>7. ASSUME NEW j \in Caller, HandlerStep(j)
      PROVE  Asked
  BY <1>2, <1>3, <1>4, <1>5, <1>7
     DEF HandlerStep, ManifestMarkerRead, Status, PutFile, OpenFile, FileWritten,
         CommitCheck, CommitMarkerRead, Collect, CommitReturned, CallFailed, RemoveStaging
<1>8. ASSUME NEW s \in Scan, ClientStep(s) \/ GiveUp(s) \/ Cleanup(s)
      PROVE  Asked
  BY <1>3, <1>5, <1>8
     DEF ClientStep, SendManifest, SendFile, SendCommit, ReceiveAnswer, GiveUp, Cleanup
<1>9. Asked
  BY <1>6, <1>7, <1>8 DEF ScanStep
<1> QED
  BY <1>9 DEF Asked

\* The provider works on the commit of a scan.
LEMMA Committed ==
    ASSUME NEW M, NEW B, ScanInv(M, B), NEW k \in Caller, call[k].step \in CommitSteps
    PROVE  /\ req[k].pc = "commit" /\ req[k].scan \in Scan /\ call[k].tag = req[k].scan
           /\ Commits(k, M)
           /\ call[k].changes \in Seq(Change(RepositoryContent))
<1>1. CallOK(k, M, B) /\ call[k] \in CallState(RepositoryContent)
      /\ (req[k].pc # "idle" => req[k].scan \in Scan)
  BY CallAtPoint
<1>2. req[k].pc = "commit"
  BY <1>1, CallShapes DEF CallOK, CommitSteps
<1> QED
  BY <1>1, <1>2, CallFields DEF CallOK

\* The provider reads the marker of a scan.
LEMMA MarkerRead ==
    ASSUME NEW M, NEW B, ScanInv(M, B), NEW k \in Caller, call[k].step = "read"
    PROVE  /\ req[k].pc \in {"manifest", "marker"} /\ req[k].scan \in Scan
           /\ call[k].path = MarkerPath(req[k].scan)
<1>1. CallOK(k, M, B) /\ (req[k].pc # "idle" => req[k].scan \in Scan)
  BY CallAtPoint
<1>2. req[k].pc \in {"manifest", "marker"}
  BY <1>1, CallShapes DEF CallOK, CommitSteps
<1> QED
  BY <1>1, <1>2 DEF CallOK

\* A reply of the provider that says nothing about the repository.
LEMMA FailureReply ==
    ASSUME NEW M, NEW N, M \subseteq N, NEW B, NEW C, B \subseteq C, N \subseteq C,
           ScanInv(M, B), UNCHANGED scanVars, FaultsGoOn,
           NEW k \in Caller, NEW step,
           \/ step = "failed" /\ req[k].pc \in {"manifest", "marker", "commit"}
           \/ step = "conflict" /\ req[k].pc = "commit",
           Reply(k, step)
    PROVE  ScanInv(N, C)'
<1>1. call \in [Caller -> CallState(RepositoryContent)] /\ req' = req
  BY TypesFields DEF ScanInv, scanVars
<1>2. PICK c : c = [step |-> step]
  OBVIOUS
<1>3. c \in CallState(RepositoryContent) /\ c.step = step
  BY <1>2, CallShapes
<1>4. /\ call' \in [Caller -> CallState(RepositoryContent)] /\ call'[k] = c
      /\ \A j \in Caller \ {k} : call'[j] = call[j]
  BY <1>1, <1>2, <1>3 DEF Reply
<1>5. CallOK(k, N, C)'
  BY <1>1, <1>3, <1>4 DEF CallOK, CommitSteps
<1> QED
  BY <1>4, <1>5, ProviderKeeps

LEMMA ScanFaultKind ==
    ASSUME ScanStep \/ ScanCrash
    PROVE  faults' = faults
             \/ (\E kind \in {"fileTimeout", "timeout", "cleanup", "crash"} : Fault(kind))
<1>1. ASSUME NEW k \in Caller, HandlerStep(k)
      PROVE  faults' = faults
  BY <1>1 DEF HandlerStep, ManifestMarkerRead, Status, PutFile, OpenFile, FileWritten,
     CommitCheck, CommitMarkerRead, Collect, CommitReturned, CallFailed, RemoveStaging
<1>2. ASSUME NEW s \in Scan, ClientStep(s)
      PROVE  faults' = faults
  BY <1>2 DEF ClientStep, SendManifest, SendFile, SendCommit, Send, ReceiveAnswer
<1>3. ASSUME NEW s \in Scan, GiveUp(s) \/ Cleanup(s)
      PROVE  \E kind \in {"fileTimeout", "timeout", "cleanup"} : Fault(kind)
  BY <1>3 DEF GiveUp, Cleanup
<1> QED
  BY <1>1, <1>2, <1>3 DEF ScanStep, ScanCrash
=============================================================================
