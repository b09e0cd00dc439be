------------------------------ MODULE Curation ------------------------------
(***************************************************************************)
(* How curated content gets into the authoritative source and out of it:   *)
(* artifacts are uploaded and committed (SpatialArtifact), candidates are  *)
(* reviewed and promoted (CandidateReview) by write operations that may    *)
(* refer to artifacts (SpatialSource), other clients write, and snapshots  *)
(* are made (SpatialSnapshot).  The requests share the slots, the          *)
(* repository and the process, which may crash.                            *)
(***************************************************************************)
EXTENDS SpatialArtifact, CandidateReview, SpatialSnapshot

CONSTANTS
    Refers,      \* Refers[p]: the artifact payload p refers to, or None
    Agrees,      \* Agrees[p]: the declarations that have the hash, the size and
                 \* the media type p's reference states
    Goal,        \* Goal[p]: where the reviewer puts payload p, and what it
                 \* replaces there: an object in the revision base, or None
    Named,       \* Named[p]: the object id in payload p itself, or None
    Object,      \* object ids
    Write,       \* the operations of other clients
    Held,        \* what the collections hold at the start
    Revision,    \* the contents of objects: payloads and others
    Offered,     \* bound: the declarations the requests create uploads with
    Mixes,       \* the sets of endpoints a behaviour makes use of
    MaxRequests  \* bound on the requests under each mix, retries of an upload
                 \* apart

ASSUME RefersAssumption ==
    /\ Refers \in [Payload -> Artifact \union {None}]
    /\ Agrees \in [Payload -> SUBSET Description]

ASSUME GoalAssumption ==
    \A p \in Payload :
      /\ Goal[p].path \in {Collections[i] : i \in DOMAIN Collections}
      /\ (Goal[p].target = None) = (Goal[p].base = None)

ASSUME HeldAssumption == DOMAIN Held = {Collections[i] : i \in DOMAIN Collections}

\* Every request is in one of the slots.
ASSUME SlotAssumption == Promoter = Slot /\ Reader = Slot

\* A promotion's operation id is a hash that other clients do not use.
ASSUME WriteAssumption == \A w \in Write : w.id \notin Candidate

ASSUME MixesAssumption ==
    /\ Offered \subseteq Description
    /\ Mixes \subseteq SUBSET {"uploads", "candidates", "snapshots", "writes"}
    /\ MaxRequests \in [Mixes -> Nat]

VARIABLES
    objects,  \* the collections of the source
    request,  \* the operations its ledger knows
    outcome,  \* and their terminal status
    mix,      \* the endpoints in use
    begun     \* the number of requests so far, to bound it

sourceVars == <<objects, request, outcome>>
vars == <<artifactVars, repository, candidateVars, snapshotVars, sourceVars, mix, begun>>

-----------------------------------------------------------------------------
CollectionName == {Collections[i] : i \in DOMAIN Collections}

\* The operation of promotionPreview: a new object, or an update of one.
OperationOf(c, p) ==
    [id |-> c, path |-> Goal[p].path,
     action |-> IF Goal[p].target = None THEN "create" ELSE "update",
     target |-> Goal[p].target, payloadId |-> Named[p], base |-> Goal[p].base, val |-> p]

Promotions == {OperationOf(c, p) : c \in Candidate, p \in Payload}

Source == INSTANCE SpatialSource WITH
    Path <- CollectionName,
    OpId <- Candidate \union {w.id : w \in Write},
    Val <- Revision,
    Request <- Promotions \union Write,
    InitialObjects <- Held

ASSUME UnsetAssumption == Unset \notin Record(Source!SourceAnswer)

TypeOK ==
    /\ ArtifactTypeOK
    /\ CandidateTypeOK(Source!SourceAnswer)
    /\ mix \in Mixes
    /\ begun \in 0..MaxRequests[mix]

\* The files of an earlier run: none, or those of an upload whose commit was
\* interrupted when the content was stored and the metadata was not, of an
\* artifact that payloads refer to.
FreshFiles == ArtifactInit /\ FsInit([p \in Path |-> Absent])

InterruptedCommit ==
    \E u \in Upload, a \in Artifact \intersect {Refers[p] : p \in Payload}, d \in Description :
      /\ session = [v \in Upload |-> IF v = u THEN [artifact |-> a, description |-> d] ELSE None]
      /\ staged = [v \in Upload |-> IF v = u THEN Declares[d] ELSE Absent]
      /\ transfer = [k \in Slot |-> [pc |-> "idle"]]
      /\ minted = {a}
      /\ raced = {}
      /\ acked = {}
      /\ FsInit([p \in Path |-> IF p = <<a, "content">> THEN Declares[d] ELSE Absent])

Init ==
    /\ mix \in Mixes
    /\ ProviderInit
    /\ IF "uploads" \in mix \/ "candidates" \notin mix THEN FreshFiles ELSE InterruptedCommit
    /\ CandidateInit
    /\ SnapshotInit
    /\ Source!SourceInit
    /\ begun = 0

-----------------------------------------------------------------------------
IsFree(k) == On(k, "idle") /\ PromotionAt(k, "idle") /\ ~IsLoading(k)

artifacts == <<artifactVars, repository>>
candidates == candidateVars

ArtifactStep(k) ==
    /\ \/ TransferStep(k)
       \/ FsStep(k) /\ UNCHANGED artifactVars
    /\ UNCHANGED <<candidates, snapshotVars, sourceVars>>

\* Mutant: content without its metadata is enough.
ContentIsThere(p) == files[<<Refers[p], "content">>] # Absent

\* assertReferencesReady: the artifact of p's reference is committed, and as
\* that states it. What is committed stays, so one look is enough.
ReferenceIsReady(p) == \E d \in Agrees[p] : IsReadyAs(Refers[p], d)

\* submit() of the write service: the operation is known, or its references
\* are checked and it is accepted, settled at once or refused.
SubmitPromotion(k) ==
    LET c == promoting[k].candidate
        p == promoting[k].payload
        await == [promoting[k] EXCEPT !.pc = "await"]
    IN  /\ PromotionAt(k, "submit")
        /\ \/ /\ request[c] = OperationOf(c, p)
              /\ Promotion(k, await)
              /\ UNCHANGED sourceVars
           \/ /\ request[c] = None
              /\ Refers[p] # None => ReferenceIsReady(p)
              /\ Promotion(k, await)
              /\ \/ Source!Accept(OperationOf(c, p))
                 \/ \E answer \in Source!SourceAnswer : Source!Settle(OperationOf(c, p), answer)
           \/ /\ \/ request[c] \notin {None, OperationOf(c, p)}
                 \/ request[c] = None /\ Refers[p] # None /\ ~ReferenceIsReady(p)
              /\ EndPromotion(k)
              /\ UNCHANGED sourceVars
        /\ UNCHANGED <<candidate, shown, artifacts, snapshotVars>>

\* It settles, or the repository fails while it is carried out.
AwaitPromotion(k) ==
    LET c == promoting[k].candidate
    IN  /\ PromotionAt(k, "await")
        /\ \/ outcome[c] # None /\ Answered(k, outcome[c]) /\ UNCHANGED faults
           \/ outcome[c] = None /\ Fault("write") /\ EndPromotion(k)
        /\ UNCHANGED <<candidate, shown, artifactVars, fsVars, call, snapshotVars, sourceVars>>

\* readFile of the next collection: its items, or an I/O error.
LoadCollection(k) ==
    /\ IsLoading(k)
    /\ ~IsLoaded(k)
    /\ \/ LoadedAs(k, objects[Collections[loading[k].at]]) /\ UNCHANGED faults
       \/ Fault("read") /\ AfterReadError(k)
    /\ UNCHANGED <<snapshots, artifactVars, fsVars, call, candidates, sourceVars>>

HandlerStep(k) ==
    /\ \/ ArtifactStep(k)
       \/ SubmitPromotion(k)
       \/ AwaitPromotion(k)
       \/ MarkPromoted(k) /\ UNCHANGED <<artifacts, snapshotVars, sourceVars>>
       \/ LoadCollection(k)
       \/ StoreSnapshot(k) /\ UNCHANGED <<artifacts, candidates, sourceVars>>
    /\ UNCHANGED <<mix, begun>>

-----------------------------------------------------------------------------
\* The requests of devices and administrators.
UploadRequest(k) ==
    /\ \/ \E u \in Upload, d \in Offered : BeginCreate(k, u, d)
       \/ \E u \in Upload : BeginPut(k, u) \/ BeginCommit(k, u)
    /\ UNCHANGED <<candidates, snapshotVars, sourceVars>>

CandidateRequest(k) ==
    /\ \E c \in Candidate :
         \/ \E p \in Payload : SubmitCandidate(c, p)
         \/ ReviewCandidate(c)
         \/ Preview(c)
         \/ BeginPromote(k, c)
    /\ UNCHANGED <<artifacts, snapshotVars, sourceVars>>

SnapshotRequest(k) ==
    BeginSnapshot(k, objects) /\ UNCHANGED <<artifacts, candidates, sourceVars>>

ClientStep(k) ==
    /\ IsFree(k)
    /\ begun < MaxRequests[mix]
    /\ begun' = begun + 1
    /\ \/ "uploads" \in mix /\ UploadRequest(k)
       \/ "candidates" \in mix /\ CandidateRequest(k)
       \/ "snapshots" \in mix /\ SnapshotRequest(k)
    /\ UNCHANGED mix

\* The status of an upload tells its client what is left to do.
IsCommitted(u) == session[u] # None /\ files[<<session[u].artifact, "metadata">>] # Absent

RetryPut(u) ==
    /\ session[u] # None
    /\ ~IsCommitted(u)
    /\ staged[u] = Absent
    /\ \E k \in Slot : IsFree(k) /\ BeginPut(k, u)
    /\ UNCHANGED <<candidates, snapshotVars, sourceVars, mix, begun>>

RetryCommit(u) ==
    /\ session[u] # None
    /\ ~IsCommitted(u)
    /\ staged[u] = Declares[session[u].description]
    /\ \E k \in Slot : IsFree(k) /\ BeginCommit(k, u)
    /\ UNCHANGED <<candidates, snapshotVars, sourceVars, mix, begun>>

\* Other clients' operations, and the accepted ones being carried out.
CarryOut(r) ==
    /\ request[r.id] = r
    /\ Source!TakeEffect(r) \/ \E answer \in Source!SourceAnswer : Source!Settle(r, answer)
    /\ SourceIsSeen(objects')
    /\ UNCHANGED <<artifacts, candidates, snapshots, mix, begun>>

OtherWrite ==
    /\ "writes" \in mix
    /\ \E w \in Write : Source!Accept(w)
    /\ UNCHANGED <<artifacts, candidates, snapshotVars, mix, begun>>

Crash ==
    /\ Fault("crash")
    /\ transfer' = [k \in Slot |-> [pc |-> "idle"]]
    /\ call' = [k \in Slot |-> Idle]
    /\ promoting' = [k \in Slot |-> [pc |-> "idle"]]
    /\ loading' = [k \in Slot |-> NotLoading]
    /\ UNCHANGED <<uploadFiles, minted, raced, acked, fsVars, candidate, shown, snapshots,
                   sourceVars, mix, begun>>

Next ==
    \/ \E k \in Slot : HandlerStep(k) \/ ClientStep(k)
    \/ \E u \in Upload : RetryPut(u) \/ RetryCommit(u)
    \/ \E r \in Promotions \union Write : CarryOut(r)
    \/ OtherWrite
    \/ Crash

\* A request that was accepted goes on, and so does the write it waits for; a
\* client repeats what an upload needs.
Fairness ==
    /\ WF_vars(\E r \in Promotions : CarryOut(r))
    /\ \A k \in Slot : WF_vars(HandlerStep(k))
    /\ \A u \in Upload : SF_vars(RetryPut(u)) /\ SF_vars(RetryCommit(u))

Spec == Init /\ [][Next]_vars /\ Fairness

-----------------------------------------------------------------------------
\* An artifact that has its metadata has the whole content that declares: no
\* reader meets a descriptor without its bytes or with others, whatever crashes
\* and repeated commits came before (commit stores the content first).
ArtifactsAreWhole ==
    \A a \in Artifact : files[<<a, "metadata">>] # Absent => IsReady(a)

\* An upload stays the same upload: the artifact whose commit was answered is
\* the one its session names, unless two creations of it overlapped.
UploadKeepsItsArtifact ==
    \A x \in acked :
      /\ IsReady(x[2])
      /\ x[1] \notin raced => session[x[1]] # None /\ session[x[1]].artifact = x[2]

\* A promotion is what was reviewed: the operation the source knows for a
\* candidate has the payload the candidate's review still states, refers to
\* nothing that is not committed as the reference states it, and its recorded
\* result is the source's.
PromotedAsReviewed ==
    \A c \in Candidate :
      /\ request[c] # None =>
           /\ IsAccepted(c)
           /\ request[c] = OperationOf(c, candidate[c].review.payload)
           /\ Refers[request[c].val] # None =>
                \E d \in Agrees[request[c].val] : IsReadyAs(Refers[request[c].val], d)
      /\ (candidate[c] # Unset /\ candidate[c].promotion # Unset) =>
           candidate[c].promotion = outcome[c]

\* A snapshot represents one logical state of the source: what its collections
\* show is what the source held at one moment while the snapshot was made.
\* Violated: loadState reads the collections one after the other, beside the
\* writes, so one may be shown as it was before an operation and the next one
\* as it was after a later one.
SnapshotIsOneState == \A s \in snapshots : s.view \in s.seen

\* Content that is half written, and nobody is writing it.
HalfWritten(u) ==
    staged[u] = Torn /\ \A k \in Slot : ~(On(k, "finish") /\ transfer[k].upload = u)

\* An upload whose client retries is committed in the end, whatever was
\* interrupted, unless a crash left the staged content half written: such a file
\* is neither accepted nor replaced any more.
UploadsComplete ==
    \A u \in Upload : session[u] # None ~> IsCommitted(u) \/ HalfWritten(u)
=============================================================================
