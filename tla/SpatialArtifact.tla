--------------------------- MODULE SpatialArtifact ---------------------------
(***************************************************************************)
(* bridge/src/services/spatial-artifact-service.ts: binary artifacts of    *)
(* the authoritative source.  An upload session and its staged content are *)
(* files of the bridge's own state directory, one directory per upload id; *)
(* a committed artifact is two files of the repository, its content and    *)
(* its metadata, which two separate commits put there.                     *)
(*                                                                         *)
(* Nothing serialises the handlers.  transfer[k] is how far the handler in *)
(* slot k has got: each step is what it does between two awaits, and       *)
(* call[k] is the repository call it awaits.                               *)
(***************************************************************************)
EXTENDS FilesystemRepository, FiniteSets

CONSTANTS
    Upload,      \* upload ids, drawn by clients
    Artifact,    \* artifact ids, drawn by newId()
    Description, \* the declarations of an upload: hash, size, media type, name
    Content,     \* contents with different hashes
    Declares,    \* Declares[d]: the content that has the hash d declares
    Unnamed,     \* the declarations whose file name is empty
    Torn,        \* a file of which only a part was written
    None         \* undefined

ASSUME DeclaresAssumption == Declares \in [Description -> Content] /\ Unnamed \subseteq Description

ASSUME ArtifactNoneAssumption == {Torn, None, Absent} \intersect Content = {}

\* The two files of an artifact; its id is in the message of their commits.
ASSUME PathAssumption == Path = Artifact \X {"content", "metadata"} /\ Artifact \subseteq Tag

VARIABLES
    session,  \* artifact-uploads/<u>/session.json
    staged,   \* artifact-uploads/<u>/content
    transfer, \* the artifact handler in each slot
    minted,   \* the artifact ids drawn so far
    raced,    \* history: the uploads two of whose creations overlapped
    acked     \* history: the <<upload, artifact>> whose commit was answered

artifactVars == <<session, staged, transfer, minted, raced, acked>>
Slot == Caller

-----------------------------------------------------------------------------
Session == [artifact: Artifact, description: Description]

\* The files of an artifact, in the order commit() stores them.
Parts == <<"content", "metadata">>

\* The metadata files of a session: each commit puts the time into its own.
MetadataOf(s) == [of: {s}, createdAt: Slot]

ASSUME SessionAssumption == None \notin Session /\ \A s \in Session : Absent \notin MetadataOf(s)

\* "mint" is a createUpload that found no session; "check" .. "touch" are a
\* putContent, the others a commit, with the part it stores and the content it
\* has read.
Transfer ==
         [pc: {"idle"}]
  \union [pc: {"mint"}, upload: Upload, description: Description]
  \union [pc: {"check", "write", "finish", "touch", "look", "close", "clear", "reload",
               "verify"}, upload: Upload, session: Session]
  \union [pc: {"find", "store", "again"}, upload: Upload, session: Session,
          part: DOMAIN Parts, content: Content \union {Torn}]

ArtifactTypeOK ==
    /\ session \in [Upload -> Session \union {None}]
    /\ staged \in [Upload -> Content \union {Torn, Absent}]
    /\ transfer \in [Slot -> Transfer]
    /\ minted \subseteq Artifact
    /\ raced \subseteq Upload
    /\ acked \subseteq Upload \X Artifact

ArtifactInit ==
    /\ session = [u \in Upload |-> None]
    /\ staged = [u \in Upload |-> Absent]
    /\ transfer = [k \in Slot |-> [pc |-> "idle"]]
    /\ minted = {}
    /\ raced = {}
    /\ acked = {}

-----------------------------------------------------------------------------
On(k, pc) == transfer[k].pc = pc
Go(k, next) == transfer' = [transfer EXCEPT ![k] = next]
Proceed(k, pc) == Go(k, [pc |-> pc, upload |-> transfer[k].upload, session |-> transfer[k].session])
End(k) == Go(k, [pc |-> "idle"])

\* The content the session of slot k declares.
Wanted(k) == Declares[transfer[k].session.description]

uploadFiles == <<session, staged>>
repository == <<fsVars, call, faults>>

-----------------------------------------------------------------------------
(***************************************************************************)
(* createUpload                                                            *)
(***************************************************************************)
\* Mutant: a session that is there is not looked for.
AlwaysNew(u) == TRUE

\* session.json is not there.
IsNew(u) == session[u] = None

\* An upload that is known is answered with its status, or with a conflict.
BeginCreate(k, u, d) ==
    /\ On(k, "idle")
    /\ IsNew(u)
    /\ Go(k, [pc |-> "mint", upload |-> u, description |-> d])
    /\ raced' = IF \E j \in Slot : On(j, "mint") /\ transfer[j].upload = u
                  THEN raced \union {u} ELSE raced
    /\ UNCHANGED <<uploadFiles, minted, acked, repository>>

\* atomicWrite of the new session, whatever is there by now.
Mint(k, a) ==
    /\ On(k, "mint")
    /\ a \notin minted
    /\ minted' = minted \union {a}
    /\ session' = [session EXCEPT ![transfer[k].upload] =
                     [artifact |-> a, description |-> transfer[k].description]]
    /\ End(k)
    /\ UNCHANGED <<staged, raced, acked, repository>>

-----------------------------------------------------------------------------
(***************************************************************************)
(* putContent, of content that matches what was declared.                  *)
(***************************************************************************)
BeginPut(k, u) ==
    /\ On(k, "idle")
    /\ session[u] # None
    /\ Go(k, [pc |-> "check", upload |-> u, session |-> session[u]])
    /\ UNCHANGED <<uploadFiles, minted, raced, acked, repository>>

\* Staged content is accepted if it is the same and refused if it is not.
CheckStaged(k) ==
    LET found == staged[transfer[k].upload]
    IN  /\ On(k, "check")
        /\ \/ found = Absent /\ Proceed(k, "write")
           \/ found = Wanted(k) /\ Proceed(k, "touch")
           \/ found \notin {Absent, Wanted(k)} /\ End(k)
        /\ UNCHANGED <<uploadFiles, minted, raced, acked, repository>>

\* writeFile truncates the file and fills it.
StartWrite(k) ==
    /\ On(k, "write")
    /\ staged' = [staged EXCEPT ![transfer[k].upload] = Torn]
    /\ Proceed(k, "finish")
    /\ UNCHANGED <<session, minted, raced, acked, repository>>

FinishWrite(k) ==
    /\ On(k, "finish")
    /\ staged' = [staged EXCEPT ![transfer[k].upload] = Wanted(k)]
    /\ Proceed(k, "touch")
    /\ UNCHANGED <<session, minted, raced, acked, repository>>

\* The session is written back from the copy that was read at the beginning.
WriteBack(k) == session' = [session EXCEPT ![transfer[k].upload] = transfer[k].session]

Touch(k) ==
    /\ On(k, "touch")
    /\ WriteBack(k)
    /\ End(k)
    /\ UNCHANGED <<staged, minted, raced, acked, repository>>

-----------------------------------------------------------------------------
(***************************************************************************)
(* commit                                                                  *)
(***************************************************************************)
ReadPart(k, a, part) == Ask(k, Reading(<<a, part>>))

BeginCommit(k, u) ==
    /\ On(k, "idle")
    /\ session[u] # None
    /\ Go(k, [pc |-> "look", upload |-> u, session |-> session[u]])
    /\ ReadPart(k, session[u].artifact, "metadata")
    /\ UNCHANGED <<uploadFiles, minted, raced, acked, fsVars, faults>>

Loaded(k, pc) == On(k, pc) /\ call[k].step = "data"
Missing(k) == call[k].content = Absent

\* Where the part of slot k belongs.
StoresContent(k) == Parts[transfer[k].part] = "content"
PartPath(k) == <<transfer[k].session.artifact, Parts[transfer[k].part]>>

\* The next part is looked for.
Store(k, part, content) ==
    /\ Go(k, [pc |-> "find", upload |-> transfer[k].upload, session |-> transfer[k].session,
              part |-> part, content |-> content])
    /\ ReadPart(k, transfer[k].session.artifact, Parts[part])

\* assertMetadataMatches: of whatever time, it is the metadata of this session.
\* An empty file name is left out of the file and still compared, so the
\* metadata of such a session never matches it.
MetadataMatches(k) ==
    /\ call[k].content \in MetadataOf(transfer[k].session)
    /\ transfer[k].session.description \notin Unnamed

\* Mutant: the staged content is not verified again.
AnyStaged(k) == staged[transfer[k].upload] # Absent

\* The staged content has the declared size and hash.
StagedMatches(k) == staged[transfer[k].upload] = Wanted(k)

\* The metadata is there already, or the staged content is to be stored.
Look(k) ==
    /\ Loaded(k, "look")
    /\ \/ /\ Missing(k)
          /\ StagedMatches(k)
          /\ Store(k, 1, staged[transfer[k].upload])
       \/ /\ Missing(k)
          /\ ~StagedMatches(k)
          /\ End(k)
          /\ Release(k)
       \/ /\ ~Missing(k)
          /\ IF MetadataMatches(k)
               THEN /\ Proceed(k, "verify")
                    /\ ReadPart(k, transfer[k].session.artifact, "content")
               ELSE End(k) /\ Release(k)
    /\ UNCHANGED <<uploadFiles, minted, raced, acked, fsVars, faults>>

\* The part is there: the next one, or the session.
PartIsThere(k) ==
    IF transfer[k].part = Len(Parts)
      THEN Proceed(k, "close") /\ Release(k)
      ELSE Store(k, transfer[k].part + 1, transfer[k].content)

\* Mutant: a part that is there is taken for another upload's.
FoundIsForeign(k) == FALSE

\* What is there is what this upload would put there.
FoundMatches(k) ==
    IF StoresContent(k) THEN call[k].content = Wanted(k) ELSE MetadataMatches(k)

\* The change commit() asks the repository for.
NewFile(k) ==
    [path |-> PartPath(k), ifAbsent |-> TRUE, expected |-> Unchecked,
     content |-> IF StoresContent(k)
                   THEN transfer[k].content
                   ELSE [of |-> transfer[k].session, createdAt |-> k]]

\* Each part is looked for and, if it is absent, stored.
Find(k) ==
    /\ Loaded(k, "find")
    /\ \/ /\ Missing(k)
          /\ Go(k, [transfer[k] EXCEPT !.pc = "store"])
          /\ Ask(k, Committing(<<NewFile(k)>>, transfer[k].session.artifact))
       \/ ~Missing(k) /\ FoundMatches(k) /\ PartIsThere(k)
       \/ ~Missing(k) /\ ~FoundMatches(k) /\ End(k) /\ Release(k)
    /\ UNCHANGED <<uploadFiles, minted, raced, acked, fsVars, faults>>

Stored(k) ==
    /\ On(k, "store")
    /\ \/ call[k].step = "committed" /\ PartIsThere(k)
       \/ /\ call[k].step = "conflict"
          /\ Go(k, [transfer[k] EXCEPT !.pc = "again"])
          /\ Ask(k, Reading(PartPath(k)))
    /\ UNCHANGED <<uploadFiles, minted, raced, acked, fsVars, faults>>

\* After a conflict: another commit of this upload was first.
Again(k) ==
    /\ Loaded(k, "again")
    /\ \/ ~Missing(k) /\ FoundMatches(k) /\ PartIsThere(k)
       \/ (Missing(k) \/ ~FoundMatches(k)) /\ End(k) /\ Release(k)
    /\ UNCHANGED <<uploadFiles, minted, raced, acked, fsVars, faults>>

Close(k) ==
    /\ On(k, "close")
    /\ WriteBack(k)
    /\ Proceed(k, "clear")
    /\ UNCHANGED <<staged, minted, raced, acked, repository>>

\* rm of the staged content; then the artifact is read once more.
Clear(k) ==
    /\ On(k, "clear")
    /\ staged' = [staged EXCEPT ![transfer[k].upload] = Absent]
    /\ Proceed(k, "reload")
    /\ ReadPart(k, transfer[k].session.artifact, "metadata")
    /\ UNCHANGED <<session, minted, raced, acked, fsVars, faults>>

Reload(k) ==
    /\ Loaded(k, "reload")
    /\ \/ Missing(k) /\ End(k) /\ Release(k)
       \/ /\ ~Missing(k)
          /\ Proceed(k, "verify")
          /\ ReadPart(k, transfer[k].session.artifact, "content")
    /\ UNCHANGED <<uploadFiles, minted, raced, acked, fsVars, faults>>

\* assertCommittedContent, then the descriptor is returned.
Verify(k) ==
    /\ Loaded(k, "verify")
    /\ acked' = IF call[k].content = Wanted(k)
                  THEN acked \union {<<transfer[k].upload, transfer[k].session.artifact>>}
                  ELSE acked
    /\ End(k)
    /\ Release(k)
    /\ UNCHANGED <<uploadFiles, minted, raced, fsVars, faults>>

\* The repository fails: the request does.
Abandon(k) ==
    /\ ~On(k, "idle")
    /\ call[k].step = "failed"
    /\ End(k)
    /\ Release(k)
    /\ UNCHANGED <<uploadFiles, minted, raced, acked, fsVars, faults>>

TransferStep(k) ==
    \/ \E a \in Artifact : Mint(k, a)
    \/ CheckStaged(k)
    \/ StartWrite(k)
    \/ FinishWrite(k)
    \/ Touch(k)
    \/ Look(k)
    \/ Find(k)
    \/ Stored(k)
    \/ Again(k)
    \/ Close(k)
    \/ Clear(k)
    \/ Reload(k)
    \/ Verify(k)
    \/ Abandon(k)

-----------------------------------------------------------------------------
\* getDescriptor, getContent and assertReferencesReady find the artifact, with
\* metadata of declaration d and the content that declares.
IsReadyAs(a, d) ==
    /\ files[<<a, "metadata">>] \in MetadataOf([artifact |-> a, description |-> d])
    /\ files[<<a, "content">>] = Declares[d]

IsReady(a) == \E d \in Description : IsReadyAs(a, d)
=============================================================================
