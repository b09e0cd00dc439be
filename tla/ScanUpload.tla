----------------------------- MODULE ScanUpload -----------------------------
(***************************************************************************)
(* The way of a captured scan from the headset's outbox to the repository. *)
(*                                                                         *)
(*   headset  clients/.../ScanOutboxUploader.kt: PUT manifest, PUT each    *)
(*            missing file, POST commit, delete the outbox directory       *)
(*   bridge   bridge/src/services/scan-upload-service.ts: staging under    *)
(*            stateDir/uploads/<scan>, then one commitFiles                *)
(*                                                                         *)
(* The headset has one request in flight; the bridge can serve several for *)
(* one scan, because a request the headset gave up on keeps running.  Each *)
(* Caller is a slot for one such request, req[k], with its provider call.  *)
(*                                                                         *)
(* A scan has one manifest: ScanOutbox.create draws a random scan id and   *)
(* the outbox directory is never changed, so SCAN_ID_CONFLICT is out of    *)
(* the model, as are size limits and hashes of content the headset has     *)
(* verified itself before sending it.                                      *)
(***************************************************************************)
EXTENDS RepositoryProvider

CONSTANTS
    Scan,     \* scan ids
    FileSeq,  \* the declared files, in manifest order
    NoSlot    \* the headset waits for no answer

File == {FileSeq[i] : i \in DOMAIN FileSeq}

ASSUME ScanAssumption == Scan \subseteq Tag /\ NoSlot \notin Caller

\* No captured file is named like what commit() adds to them.
ASSUME FilesAssumption ==
    FileSeq \in Seq(File) /\ {"manifest.json", "_commit.json"} \intersect File = {}

VARIABLES
    stagedManifest,  \* stagedManifest[s]: uploads/<s>/manifest.json exists
    stagedFile,      \* stagedFile[s][f]: the staged bytes of f
    filesDir,        \* filesDir[s]: the directory uploads/<s>/files exists
    req,             \* req[k]: the request in slot k
    client           \* client[s]: what the headset is doing about scan s

staging == <<stagedManifest, stagedFile, filesDir>>
scanVars == <<staging, req, client>>

-----------------------------------------------------------------------------
\* Whole is what the manifest's digest matches; Partial is a file that
\* writeFile has opened (and truncated) but not finished, a manifest or marker
\* of the repository included.
FileContent == {"whole", "partial"}
\* A marker holds the time of the commit that wrote it, told apart here by the
\* slot of that commit.
RepositoryContent == FileContent \union {"manifest"} \union Caller

ManifestPath(s) == <<s, "manifest.json">>
MarkerPath(s) == <<s, "_commit.json">>
FilePath(s, f) == <<s, f>>
ScanPath == {<<s, name>> : s \in Scan, name \in File \union {"manifest.json", "_commit.json"}}

ASSUME ScanPathAssumption == Path = ScanPath

ASSUME AbsentAssumption == Absent \notin RepositoryContent

NoRequest == [pc |-> "idle"]
At(pc, s) == [pc |-> pc, scan |-> s]
Serving(k, pc) == req[k].pc = pc

Answer ==
         [state: {"uploading"}, missing: SUBSET File]
  \union [state: {"committed", "fileConflict", "error"}]
Request ==
         [pc: {"idle"}]
  \union [pc: {"manifest", "status", "check", "marker", "commit", "remove"}, scan: Scan]
  \union [pc: {"file", "open", "writing", "unlinked"}, scan: Scan, file: File]
  \union [pc: {"collect"}, scan: Scan, got: Seq(FileContent)]
  \union [pc: {"answered"}, scan: Scan, answer: Answer]
Client ==
         [pc: {"pending", "removed"}]
  \union [pc: {"sent"}, slot: Caller, sent: {"manifest", "file", "commit"},
          todo: SUBSET File]
  \union [pc: {"ready"}, todo: SUBSET File]

ScanTypeOK ==
    /\ stagedManifest \in [Scan -> BOOLEAN]
    /\ stagedFile \in [Scan -> [File -> FileContent \union {Absent}]]
    /\ filesDir \in [Scan -> BOOLEAN]
    /\ req \in [Caller -> Request]
    /\ client \in [Scan -> Client]

-----------------------------------------------------------------------------
\* A handler returns or throws; nobody may be waiting for it any more.
Respond(k, answer) ==
    LET s == req[k].scan
        awaited == client[s].pc = "sent" /\ client[s].slot = k
    IN  req' = [req EXCEPT ![k] =
                  IF awaited
                    THEN [pc |-> "answered", scan |-> s, answer |-> answer]
                    ELSE NoRequest]

GoTo(k, pc) == req' = [req EXCEPT ![k] = At(pc, req[k].scan)]
Failed == [state |-> "error"]
HasReply(k, step) == call[k].step = step

MissingFiles(s) == {f \in File : stagedFile[s][f] # "whole"}

ScanInit ==
    /\ stagedManifest = [s \in Scan |-> FALSE]
    /\ stagedFile = [s \in Scan |-> [f \in File |-> Absent]]
    /\ filesDir = [s \in Scan |-> FALSE]
    /\ req = [k \in Caller |-> NoRequest]
    /\ client = [s \in Scan |-> [pc |-> "pending"]]

-----------------------------------------------------------------------------
(***************************************************************************)
(* The bridge: putManifest, putFile, status, commit.                       *)
(***************************************************************************)
\* _commit.json was read, and parsed if it is there; JSON.parse throws on a
\* torn one.
MarkerParsed(k) == HasReply(k, "data") /\ call[k].content # "partial"
MarkerTorn(k) ==
    /\ req[k].pc \in {"manifest", "marker"}
    /\ HasReply(k, "data")
    /\ call[k].content = "partial"

\* The provider refused or failed the call of this request.
CallRefused(k) ==
    /\ req[k].pc \in {"manifest", "marker", "commit"}
    /\ call[k].step \in {"failed", "conflict"}

\* Mutant: the manifest of a committed scan is refused.
CommittedManifestRefused(k) ==
    /\ Serving(k, "manifest")
    /\ MarkerParsed(k)
    /\ IF call[k].content # Absent
         THEN Respond(k, Failed) /\ UNCHANGED stagedManifest
         ELSE /\ stagedManifest' = [stagedManifest EXCEPT ![req[k].scan] = TRUE]
              /\ GoTo(k, "status")
    /\ Release(k)
    /\ UNCHANGED <<stagedFile, filesDir, client, faults>>

\* putManifest has read _commit.json.
ManifestMarkerRead(k) ==
    LET s == req[k].scan
    IN  /\ Serving(k, "manifest")
        /\ MarkerParsed(k)
        /\ IF call[k].content # Absent
             THEN /\ Respond(k, [state |-> "committed"])
                  /\ UNCHANGED stagedManifest
             ELSE /\ stagedManifest' = [stagedManifest EXCEPT ![s] = TRUE]
                  /\ GoTo(k, "status")
        /\ Release(k)
        /\ UNCHANGED <<stagedFile, filesDir, client, faults>>

\* status(), the last step of putManifest and of putFile.
Status(k) ==
    LET s == req[k].scan
    IN  /\ Serving(k, "status")
        /\ Respond(k, IF stagedManifest[s]
                        THEN [state |-> "uploading", missing |-> MissingFiles(s)]
                        ELSE Failed)
        /\ UNCHANGED <<staging, client, call, faults>>

\* putFile: the manifest, mkdir, and the bytes staged so far.
PutFile(k) ==
    LET s == req[k].scan
        f == req[k].file
        next == CASE stagedFile[s][f] = "whole" -> GoTo(k, "status")
                  [] stagedFile[s][f] = "partial" ->
                       Respond(k, [state |-> "fileConflict"])
                  [] stagedFile[s][f] = Absent ->
                       req' = [req EXCEPT ![k].pc = "open"]
    IN  /\ Serving(k, "file")
        /\ IF stagedManifest[s]
             THEN next /\ filesDir' = [filesDir EXCEPT ![s] = TRUE]
             ELSE Respond(k, Failed) /\ UNCHANGED filesDir
        /\ UNCHANGED <<stagedManifest, stagedFile, client, call, faults>>

\* writeFile opens the staged file, truncating what is there ...
OpenFile(k) ==
    LET s == req[k].scan
    IN  /\ Serving(k, "open")
        /\ IF filesDir[s]
             THEN /\ stagedFile' = [stagedFile EXCEPT ![s][req[k].file] = "partial"]
                  /\ req' = [req EXCEPT ![k].pc = "writing"]
             ELSE Respond(k, Failed) /\ UNCHANGED stagedFile
        /\ UNCHANGED <<stagedManifest, filesDir, client, call, faults>>

\* ... and has written it, unless the directory was removed meanwhile.
FileWritten(k) ==
    /\ req[k].pc \in {"writing", "unlinked"}
    /\ IF Serving(k, "writing")
         THEN stagedFile' = [stagedFile EXCEPT ![req[k].scan][req[k].file] = "whole"]
         ELSE UNCHANGED stagedFile
    /\ GoTo(k, "status")
    /\ UNCHANGED <<stagedManifest, filesDir, client, call, faults>>

\* commit: every declared file must be staged; then read _commit.json.
CommitCheck(k) ==
    LET s == req[k].scan
    IN  /\ Serving(k, "check")
        /\ IF stagedManifest[s] /\ MissingFiles(s) = {}
             THEN GoTo(k, "marker") /\ Ask(k, Reading(MarkerPath(s)))
             ELSE Respond(k, Failed) /\ UNCHANGED call
        /\ UNCHANGED <<staging, client, faults>>

CommitMarkerRead(k) ==
    /\ Serving(k, "marker")
    /\ MarkerParsed(k)
    /\ IF call[k].content # Absent
         THEN Respond(k, [state |-> "committed"])
         ELSE req' = [req EXCEPT ![k] =
                        [pc |-> "collect", scan |-> req[k].scan, got |-> <<>>]]
    /\ Release(k)
    /\ UNCHANGED <<staging, client, faults>>

\* Mutant: the files of a scan are written without ifAbsent.
NewOrNot(path, content) ==
    [path |-> path, content |-> content, ifAbsent |-> FALSE, expected |-> Unchecked]

New(path, content) ==
    [path |-> path, content |-> content, ifAbsent |-> TRUE, expected |-> Unchecked]

\* Mutant: the marker goes in before the files it vouches for.
MarkerFirstChanges(k, s, got) ==
    <<New(ManifestPath(s), "manifest"), New(MarkerPath(s), k)>>
      \o [i \in DOMAIN FileSeq |-> New(FilePath(s, FileSeq[i]), got[i])]

\* The manifest, the files, and last the marker that makes them a scan.
CommitChanges(k, s, got) ==
    <<New(ManifestPath(s), "manifest")>>
      \o [i \in DOMAIN FileSeq |-> New(FilePath(s, FileSeq[i]), got[i])]
      \o <<New(MarkerPath(s), k)>>

\* Mutant: a staged file that is gone by now is not noticed.
CollectWhatever(k) ==
    LET s == req[k].scan
        got == req[k].got
    IN  /\ Serving(k, "collect")
        /\ IF Len(got) = Len(FileSeq)
             THEN /\ GoTo(k, "commit")
                  /\ Ask(k, Committing(CommitChanges(k, s, got), s))
             ELSE /\ UNCHANGED call
                  /\ req' = [req EXCEPT ![k].got =
                               Append(got, stagedFile[s][FileSeq[Len(got) + 1]])]
        /\ UNCHANGED <<staging, client, faults>>

\* commit reads the staged files one after the other, then commits them.
Collect(k) ==
    LET s == req[k].scan
        got == req[k].got
        f == FileSeq[Len(got) + 1]
    IN  /\ Serving(k, "collect")
        /\ IF Len(got) = Len(FileSeq)
             THEN /\ GoTo(k, "commit")
                  /\ Ask(k, Committing(CommitChanges(k, s, got), s))
             ELSE /\ UNCHANGED call
                  /\ IF stagedFile[s][f] = Absent
                       THEN Respond(k, Failed)
                       ELSE req' = [req EXCEPT ![k].got = Append(got, stagedFile[s][f])]
        /\ UNCHANGED <<staging, client, faults>>

\* commitFiles returned: the staging directory is removed next.
CommitReturned(k) ==
    /\ Serving(k, "commit")
    /\ HasReply(k, "committed")
    /\ GoTo(k, "remove")
    /\ Release(k)
    /\ UNCHANGED <<staging, client, faults>>

\* Mutant: a repository conflict is taken for a commit done before.
ConflictMeansCommitted(k) ==
    /\ CallRefused(k) \/ MarkerTorn(k)
    /\ Respond(k, IF call[k].step = "conflict" THEN [state |-> "committed"] ELSE Failed)
    /\ Release(k)
    /\ UNCHANGED <<staging, client, faults>>

\* commitFiles or a read threw: REPOSITORY_CONFLICT, 503, an I/O error or a
\* SyntaxError.
CallFailed(k) ==
    /\ CallRefused(k) \/ MarkerTorn(k)
    /\ Respond(k, Failed)
    /\ Release(k)
    /\ UNCHANGED <<staging, client, faults>>

\* rm -r of uploads/<s>: a file being written loses its name.
Unlink(requests, s) ==
    [k \in Caller |->
       IF requests[k].pc = "writing" /\ requests[k].scan = s
         THEN [requests[k] EXCEPT !.pc = "unlinked"]
         ELSE requests[k]]

ClearStaging(s) ==
    /\ stagedManifest' = [stagedManifest EXCEPT ![s] = FALSE]
    /\ stagedFile' = [stagedFile EXCEPT ![s] = [f \in File |-> Absent]]
    /\ filesDir' = [filesDir EXCEPT ![s] = FALSE]

\* commit's rm, after which it returns.
RemoveStaging(k) ==
    LET s == req[k].scan
        awaited == client[s].pc = "sent" /\ client[s].slot = k
        answered == [pc |-> "answered", scan |-> s, answer |-> [state |-> "committed"]]
    IN  /\ Serving(k, "remove")
        /\ ClearStaging(s)
        /\ req' = [Unlink(req, s) EXCEPT ![k] = IF awaited THEN answered ELSE NoRequest]
        /\ UNCHANGED <<client, call, faults>>

\* cleanupStale, run by an administrator, finds the staging past its retention.
Cleanup(s) ==
    /\ Fault("cleanup")
    /\ ClearStaging(s)
    /\ req' = Unlink(req, s)
    /\ UNCHANGED <<client, call>>

HandlerStep(k) ==
    \/ ManifestMarkerRead(k)
    \/ Status(k)
    \/ PutFile(k)
    \/ OpenFile(k)
    \/ FileWritten(k)
    \/ CommitCheck(k)
    \/ CommitMarkerRead(k)
    \/ Collect(k)
    \/ CommitReturned(k)
    \/ CallFailed(k)
    \/ RemoveStaging(k)

-----------------------------------------------------------------------------
(***************************************************************************)
(* The headset: drain() and upload().                                      *)
(***************************************************************************)
Send(s, k, what, request, todo) ==
    /\ req[k] = NoRequest
    /\ req' = [req EXCEPT ![k] = request]
    /\ client' = [client EXCEPT ![s] =
         [pc |-> "sent", slot |-> k, sent |-> what, todo |-> todo]]
    /\ UNCHANGED <<staging, faults>>

\* drain() takes the scans one after the other; upload() begins with the
\* manifest, every time.
SendManifest(s, k) ==
    /\ client[s].pc = "pending"
    /\ \A t \in Scan \ {s} : client[t].pc \in {"pending", "removed"}
    /\ Send(s, k, "manifest", At("manifest", s), {})
    /\ Ask(k, Reading(MarkerPath(s)))

SendFile(s, k, f) ==
    /\ client[s].pc = "ready"
    /\ f \in client[s].todo
    /\ Send(s, k, "file", [pc |-> "file", scan |-> s, file |-> f], client[s].todo \ {f})
    /\ UNCHANGED call

SendCommit(s, k) ==
    /\ client[s].pc = "ready"
    /\ client[s].todo = {}
    /\ Send(s, k, "commit", At("check", s), {})
    /\ UNCHANGED call

\* Committed: delete the outbox directory.  Uploading: go on, with the files
\* the answer to the manifest listed as missing; what a file's answer lists is
\* not looked at.  Anything else is an exception: deferred to the next drain().
ReceiveAnswer(s) ==
    LET k == client[s].slot
        answer == req[k].answer
    IN  /\ client[s].pc = "sent"
        /\ Serving(k, "answered")
        /\ client' = [client EXCEPT ![s] =
             CASE answer.state = "committed" -> [pc |-> "removed"]
               [] answer.state = "uploading" ->
                    [pc |-> "ready",
                     todo |-> IF client[s].sent = "manifest"
                                THEN answer.missing ELSE client[s].todo]
               [] OTHER -> [pc |-> "pending"]]
        /\ req' = [req EXCEPT ![k] = NoRequest]
        /\ UNCHANGED <<staging, call, faults>>

\* The read times out, the connection drops or the app is stopped; the
\* request keeps running in the bridge.  Whether that request was the upload
\* of a file makes two kinds of fault.
GiveUp(s) ==
    /\ client[s].pc \in {"sent", "ready"}
    /\ Fault(IF client[s].pc = "sent" /\ client[s].sent = "file"
               THEN "fileTimeout" ELSE "timeout")
    /\ LET slot == IF client[s].pc = "sent" THEN client[s].slot ELSE NoSlot
       IN  req' = [k \in Caller |->
                     IF k = slot /\ Serving(k, "answered") THEN NoRequest ELSE req[k]]
    /\ client' = [client EXCEPT ![s] = [pc |-> "pending"]]
    /\ UNCHANGED <<staging, call>>

ClientStep(s) ==
    \/ \E k \in Caller :
         \/ SendManifest(s, k)
         \/ SendCommit(s, k)
         \/ \E f \in File : SendFile(s, k, f)
    \/ ReceiveAnswer(s)

\* The bridge stops and starts again: requests are gone, disks are not.
ScanCrash ==
    /\ Fault("crash")
    /\ req' = [k \in Caller |-> NoRequest]
    /\ call' = [k \in Caller |-> Idle]
    /\ client' = [s \in Scan |->
                    IF client[s].pc = "sent" THEN [pc |-> "pending"] ELSE client[s]]
    /\ UNCHANGED staging

ScanStep ==
    \/ \E k \in Caller : HandlerStep(k)
    \/ \E s \in Scan : ClientStep(s) \/ GiveUp(s) \/ Cleanup(s)

-----------------------------------------------------------------------------
\* The faults after which a request the headset gave up on writes the staging
\* of the next upload: it is still writing a file, or it had passed the check
\* for missing files when the staging was cleaned up.
NoStragglerWrites ==
    /\ Free({"fileTimeout"})
    /\ Free({"timeout"}) \/ Free({"cleanup"})
=============================================================================
