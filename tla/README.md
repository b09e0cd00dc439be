# Verification of p4u-spatial

TLA+ models of the Spatial Bridge and of the headset that talks to it, TLC
configurations that check them, and proofs for TLAPS. Source paths below are
relative to `src/`; services are in `bridge/src/services/`.

## 1. Inventory

The Bridge is one Node process (`bridge/src/server.ts`, Fastify). Requests run
concurrently and interleave at every `await`. All its own state is JSON files in
`stateDir`; everything authoritative is behind one `RepositoryProvider`.

| Component | State | Operations | Talks to | What is hard | Correct means |
|---|---|---|---|---|---|
| `AtomicJsonStore` | one JSON file | `read`, `mutate` | every service | mutations queue on a promise chain, reads do not; a crash in a write | a mutation is all or nothing, none is lost |
| Repository provider, filesystem | a directory tree | `readFile`, `commitFiles` | called by all writing services | no lock; check, stage, check, then rename file by file; failure between renames | preconditions hold when it writes; the last file implies the others |
| Repository provider, Git | remote branch, local checkout, gate | `readFile`, `commitFiles`, `refresh` | remote repository, other clones | throttled refresh, pushes that race, pushes whose answer is lost, failures that leave the checkout dirty | what it answers is on the remote |
| `SpatialWriteService` | ledger `spatial-operations.json`, gate | `submit`, `get` | provider | crash or error between repository commit and ledger write; stale collection | each operation applied as requested, not twice, answered truthfully, settled in the end |
| `ScanUploadService` | `uploads/<scan>/` | `putManifest`, `putFile`, `status`, `commit`, `cleanupStale` | provider, headset | requests the headset has given up on keep running; staging shared without a lock | evidence is deleted on the headset only when it is in the repository |
| Headset outbox (`ScanOutbox`, `ScanOutboxUploader`) | outbox directories | `create`, `drain`, `upload`, `removeCommitted` | scan endpoints | timeouts, restarts, repetition | every scan gets delivered |
| Pairing, devices, sessions | `pairings.json`, `devices.json`, `sessions.json` | create, claim, poll, approve, reject, enable, disable, revoke, refresh, logout | each other through `server.ts`, headset | handlers go through several stores with awaits between; lost answers | approved once, one live credential per pairing, revoked is gone |
| Headset access (`BridgeRegistrationQrAction`, `AuthenticatedBridgeClient`, `SecureSessionStore`) | refresh token, access token | register, `json`, `bytes`, `refresh` | pairing and session endpoints | clears its credential on 401 and 403 | keeps a credential that is good |
| `SpatialArtifactService` | upload sessions, blobs | `createUpload`, `putContent`, `status`, `commit`, `assertReferencesReady` | provider | session copies written back stale, two-step commit, torn staged files | a committed artifact is whole, an upload stays one artifact |
| `SpatialReadService` | snapshots | `createSnapshot`, `loadSnapshot`, queries | provider | six reads make one snapshot while others commit | a snapshot is one state of the source |
| `CandidateReviewService` | decisions, promotions | `review`, `promotionPreview`, `markPromoted` | Spatial Write | decision, preview and operation are separate steps; the artifact may be half committed | what is promoted is what was reviewed |
| Federation relay | relay ledger, read cache, gate | `submitOperation`, `getOperation`, `retryPending`, `cleanupRelays` | upstream bridge, delegation | lost answers, polling next to the retry pass, clean-up outside the gate | nothing taken is lost, the relayed status is the upstream's |
| Federation delegation | delegated credentials | `beginAuthorization`, `completeAuthorization`, `accessToken`, `revoke` | identity provider | rotating refresh tokens, refresh racing a revocation or another refresh | a revoked delegation stays revoked, using one does not lose it |
| Administration | setup proof, users, sessions, passkeys, TOTP | verify and consume proof, log in, remove credentials, disable users | each other through `server.ts` | checks in one store, change in another | the proof is used once, somebody can always log in |
| `FixedWindowRateLimiter` | windows in memory | `consume`, `cleanup` | routes | window boundary | no more than the limit per window |
| XR updater reference, release catalogue | install state | check, download, install | release endpoints | order of versions | never installs an older or unverified build |
| QR reader, feature registry, HUD, SecureMR probe, admin page, schemas | presentation | | | | |

The hazards, each at its line, are in `PROJECT.json`; those of components that
are not modelled say so.

## 2. Plan

| # | Modules | State |
|---|---|---|
| 1 | `RepositoryProvider`, `FilesystemRepository`, `GitRepository` | done |
| 2 | `SpatialWrite`, its two compositions, the abstract `SpatialSource` and `SpatialBranch` | done |
| 3 | `ScanUpload`, its two compositions | done |
| 4 | `SpatialWriteFs_proofs` | invariants and the implementation of `SpatialSource` proved |
| 5 | `DeviceAccess`, `DeviceAccess_proofs` | done but for scopes and names; safety proved |
| 6 | `FederationDelegation`, `Federation` | done |
| 7 | `Federation_proofs` | safety of the relay, the cache and the delegation proved |
| 8 | `SpatialArtifact`, `CandidateReview`, `SpatialSnapshot`, composed by `Curation` on `SpatialSource` | done |
| 9 | `Curation_proofs` | safety of uploads, promotions and snapshots proved |
| 10 | `ScanUpload_proofs`, `ScanUploadFs_proofs`, `ScanUploadGit_proofs` | safety of both compositions proved |
| 11 | `SpatialWriteGit_proofs` | safety and the implementation of `SpatialBranch` proved |
| 12 | open: administration (setup proof, last credential, session issue against disable) | |
| 13 | open: what section 5 leaves to TLC, liveness | out of the prover's reach |

Abstract specifications: `SpatialSource` is what Spatial Write promises. The
service on the filesystem provider implements it (run `SpatialWriteFs`, theorem
`SourceImplemented`), and `Curation` is built on the promise instead of the
service. `SpatialBranch` is what remains of the promise on a branch that others push
to; the service on the Git provider implements it (run `SpatialWriteGit`, theorem
`BranchImplemented`).

## 3. Modules

```
RepositoryProvider        the call slots, preconditions, faults
  FilesystemRepository    files, landed
  GitRepository           remote, local, untracked, base, gateHolder, initialized
  SpatialWrite            ledger, job, minted
    SpatialWriteFs        = SpatialWrite + FilesystemRepository + Crash  -> SpatialSource
      SpatialWriteFs_proofs   theorems
    SpatialWriteGit       = SpatialWrite + GitRepository + Crash + other clones
                                                    -> SpatialBranch (on SpatialSource)
      SpatialWriteGit_proofs  theorems
  ScanUpload              staging, req, client
    ScanUpload_proofs     lemmas for both compositions
    ScanUploadFs          = ScanUpload + FilesystemRepository + crash
      ScanUploadFs_proofs     theorems
    ScanUploadGit         = ScanUpload + GitRepository + crash
      ScanUploadGit_proofs    theorems
DeviceAccess              pairing, device, session, overdue, req, headset
  DeviceAccess_proofs     theorems
FederationDelegation      credential, pending, issued, alive, call
  Federation              + relay, known, cached, gate, req, upstream
    Federation_proofs     theorems
SpatialArtifact           session, staged, transfer, minted  (on FilesystemRepository)
CandidateReview           candidate, promoting, shown
SpatialSnapshot           loading, snapshots
  Curation                = the three + SpatialSource + Crash
    Curation_proofs       theorems
MC*                       small instances
```

**RepositoryProvider.** `call[k]` is the outstanding provider call of requester
`k`: idle, a read, its data, a commit at one of its await points, or its outcome.
Services write requests into it and consume replies; a provider takes the steps
between. A digest is modelled by the content it identifies. `faults` is a
history: how many failures there were, which is bounded, and of which kinds, because
properties that hold only without certain failures name these (`Free(kinds)`).

**FilesystemRepository.** `commitFiles` is `FsCheck` (first pass and staging),
`FsRecheck`, and one `FsRename` per file, with `FsCommitFails` between any two.
`landed` is a history of the renames.

**GitRepository.** `GitRead` refreshes or is throttled. `GitCommitLocally` is
`commitFiles` up to `git commit`, `GitPush` the push, `GitRecover` the fetch and
reset after a failed one; the gate is held across these. `GitCommitFails` leaves
what was written in the checkout, and `untracked` the part of it that
`reset --hard` will not remove. The failure or the end of the process can fall inside
a `writeFile`: `GitCommitFails` takes the `fragments` such a write can leave from the
service that knows what it was writing (`PartlyWritten`). For Spatial Write these are
the first lines of the collection or a line cut in two (`Torn`), for a scan
`"partial"`. A cut that loses only the last newline is the whole content to everybody
who reads it. `ForeignPush` is another clone.

**SpatialWrite.** One action per stretch between awaits of `submit`, `get`,
`prepare`, `commit`, `finalizeCommitted`. The gate admits one request, `job`.
`Plan` is `prepare()`'s outcome on a collection. A revision is the digest of an
object's content, so it is that content. `assertArtifactsReady` refuses before
any state changes and is not modelled here (`Curation` has it). A collection with a
torn line makes `parseJsonl` throw, so the request fails (`LoadRefused`); on the
filesystem provider, which stages beside the file and renames, no read returns one.
`Applies` says what a prepared write stands
for, in terms of the items of the collection. It needs collections without
duplicate ids (`UniqueIds`): `protocol/spatial/README.md:29` asks for them,
`prepare()` never adds one, but `findIndex` would take the first of several. The
initial collections and those that other clones push are assumed to have none.

**SpatialSource.** The promise: an operation id is bound to its first content,
takes effect only as that content says and only on the revision it names, and
is answered once, truthfully; a payload that names another object than its target is
never applied (`NamesAnother`). It does not promise that an operation takes effect
once; section 4 says why.

**SpatialBranch.** `SpatialSource` on the tip of a branch, with the reservations that
a shared branch and a fallible checkout force on it. Other clones commit in between.
An answer can be about a commit below the tip: a confirmation about any commit of the
branch, a conflict only if the tip is another clone's, which the bridge need not have
fetched. And three promises lapse for good with certain failures: `exact`, that a
commit is the requested change of the commit right below it; `truthful`, that an
answer is about a commit of the branch; `certain`, that no operation is committed
upon, or refused on top of, its own commit. What never lapses: one commit at a time,
never a rewritten branch; only of a bound and unsettled operation; no other
collection touched; one answer per operation. `SpatialWriteGit` maps `exact` to
`FollowsBranch`, `truthful` to `CleanCheckout`, `certain` to `CertainPushes`: each
reservation stands for failures after which the code does break the promise.

**ScanUpload.** A slot per request under way. `status()` reads the staged files
one by one and is modelled as one step, because what it lists for a file only
decides whether the headset sends that file. A staged file is absent, partial
(opened by `writeFile`, not complete) or whole. A marker that a failed Git write has
torn makes `JSON.parse` throw (`MarkerTorn`). The marker `_commit.json` carries
the slot of the commit that wrote it in place of its time, so two commits differ.

**DeviceAccess.** A slot per handler under way; one action per access to a store.
A session stands for its two tokens and ages `fresh` (both good), `stale` (the
access token is over), `expired` (both are: the refresh token's lifetime, 30
days, is the longer one of the defaults in `config.ts`). Nothing looks at the age of a session
that is in nobody's hands yet, so it ages from then on. `faults` counts the failures;
`from` and `past` are histories. Names, user assignment, scopes and last-seen times are left out: they
never decide whether a device gets in at all.

**FederationDelegation.** The OAuth credential of each local user, and in `call[k]`
how far request `k` has got with obtaining a token: read the store, ask the token
endpoint, store the answer, read the store again. The authorization server is
external: it may rotate the refresh token at each refresh, refuses one it has
replaced, and may answer 4xx to a good one (429, `invalid_client`), which
`accessToken` takes for a revocation. `past` is a history: whether the user revoked, with a token being
obtained just then or not, and whether refreshes overlapped. `setting` never
changes; it chooses the configured method.

**Federation.** A slot per request under way. Each request to the upstream is a
token (`call[k]`), then one answer: `Requested` says whether it is answered, refused
or in vain. The POST of an operation can also reach the upstream and lose its
answer. `gate` is the promise chain of `withGate`, in order; reads, the lookup of
the source and `cleanupRelays` do not pass it. `req[k].entry` is the copy of the
relay entry in memory that `tryDeliver` changes and stores at the end, `todo` the
other copies a retry pass holds, in any order. `deferred` and `expired` stand for
the two times in an entry; the clock may clear or set them whenever it likes. The
upstream's ledger answers a repetition with its entry and another content under a
known id with 409. `refused` is a history: the operations of which a delivery was
answered 4xx before the upstream decided anything. `liveSources` makes two GETs and a store write; together they
are one step, because they only decide whether the source is listed.

**SpatialArtifact.** An action per stretch between awaits of `createUpload`,
`putContent` and `commit`. The content's `writeFile` is two steps, so that a crash
can tear it; `session.json` is written atomically. `Parts` are the two files
`commit` stores, each looked for, stored, and looked for again after a conflict.
Metadata carries the slot of its commit in place of `createdAt`, so two racing commits
of one upload can replace one with the other. A file name that is empty (`Unnamed`) is
not written and still compared, so the metadata of such an upload never matches it.

**CandidateReview.** Each mutation of the candidate store is a step. A preview puts
the operation's payload among those `shown`; a promotion needs a token that was
shown. The reviewed operation stands for its token.

**SpatialSnapshot.** One step per collection that is read. `seen` is a history: the
states the source was in while the snapshot was being made.

**Curation.** The three on one repository, with the source's ledger and collections
as `SpatialSource` promises them: an operation of a promotion is accepted, takes
effect and is settled as that specification allows. `Curation` also has the check
that the artifacts an operation refers to are ready, which `SpatialWrite` omits: they
are committed, and the hash, size and media type that the reference states are the
declared ones (`Agrees`). A payload may carry an object id of its own (`Named`).

## 4. Runs

| Run | Instance | Shows |
|---|---|---|
| `SpatialWriteFs` | 3 operations of 7 possible contents, 1 collection, 2 faults (read, write, ledger, crash) | `RecoverableUntilOvertaken`: after any crash or error the bytes of an interrupted operation are still what the ledger prepared, unless somebody else landed. `NoRepeatUntilOvertaken`, `RefusedOnlyIfOvertaken`: so it is neither repeated nor refused. `ImplementsSource`: refinement of `SpatialSource`. `EveryOperationSettles`. `IInv`: the inductive invariant of the proofs, with `EffectsAreRequested`, on which the refinement rests. |
| `SpatialWriteGit` | 2 operations of 4 contents, 1 push by another clone, which edits or removes the file, 2 faults (read, worktree, push, ack, recover, ledger, crash; a write also fails inside a file) | `ImplementsBranch`: refinement of `SpatialBranch`; each commit on the remote is exactly the bound request applied to its parent, each answer is true of a commit of the branch. `CommittedIsAuthoritative`: `source-committed` is true of the remote, unless a write or a recovery failed. `RefusedOnlyIfOvertaken` without lost push answers. `EveryOperationSettles`, unless a torn file that no refresh removes blocks the collection. |
| `SpatialWriteGitLostAck` | 1 lost push answer | **violation** of `OncePerOperation` |
| `ScanUploadFs` | 1 scan of 2 files, 3 requests at a time, 3 faults (write, timeout, file timeout, crash, clean-up) | `EvidenceNeverLost`: the outbox copy is deleted only when the repository has everything. `MarkerVouches`: the marker is never there before the rest. |
| `ScanUploadGit` | the same, 2 requests, 3 faults (read, push, ack, timeout, crash), 1 foreign push | the same, `ScansAreAtomic`, `ScanCommittedOnce`, and `EveryScanDelivered` without crashes |
| `ScanUploadGitDirty` | 1 failed write or `git add` | **violation** of `EvidenceNeverLost` |
| `DeviceAccess` | 1 headset, 2 pairings, 3 sessions, 2 handlers at a time, 1 fault (lost answer, timeout, app restart, bridge crash) | `DecisionsAreFinal`: racing approvals and rejections. `OneCredentialPerPairing`: no two live sessions of a pairing in anybody's hands. `RevokedIsGone`: enabling a device revives nothing. `HeadsetKeepsItsCredential`. |
| `DeviceAccessDisable` | 1 headset, 1 pairing, no fault | **violation** of `DisableIsReversible` |
| `Federation` | 2 users, 2 operations, 2 requests at a time, in five situations (below) | `NothingSentUnrecorded`, `RelaysAreKept`, `SettledTruthfully`, `ArtifactsFirst`: the relay answers for what it sent, keeps what it took, reports what the upstream decided, and takes nothing that depends on an artifact the upstream lacks. `OutageShowsLatest`: the cache. `RevokedStaysRevoked`, `CredentialKept`: the delegation. `EveryRelaySettles`. |
| `FederationRefused` | the same, faults: refusals only | **violation** of `RejectedByDecision` |
| `Curation` | 1 upload, 2 artifact ids, 2 declarations, 1 candidate with 2 payloads, 2 collections, 2 requests at a time, 1 fault (write, read, crash), under three mixes of endpoints | `ArtifactsAreWhole`: metadata implies content, across interrupted and racing commits. `UploadKeepsItsArtifact`. `PromotedAsReviewed`: operation, review, artifact, reference and recorded result agree. `UploadsComplete`. |
| `CurationSnapshotMixed` | 1 snapshot, 2 writes of other clients, no fault | **violation** of `SnapshotIsOneState` |

Every property of a passing run is broken by at least one small, plausible bug in
the definitions it is about; these are the operators marked "Mutant", which no
specification uses.

### What the violations say

- **A lost push answer duplicates a create** (`git-remote.ts:183`). The push has
  landed but the command failed; the bridge resets to the branch that holds the
  commit, answers `REPOSITORY_CONFLICT`, and `SpatialWriteService` prepares again.
  For a create without an id that means a second id. `protocol/spatial/write.md:138`
  excludes this.
- **A dirty checkout passes for a committed scan** (`git-remote.ts:171`). A failed
  `writeFile` or `git add` leaves untracked files that no refresh removes; if
  `_commit.json` is among them, the next `putManifest` answers `committed` and the
  headset deletes its only copy.
- **Disable is not reversible** (`server.ts:1185`). A refresh of a disabled device
  consumes its token before the status is looked at, and the 403 makes the headset
  forget it.
- **A temporary refusal is final** (`federation-service.ts:457`). `tryDeliver` settles
  a relayed operation as `rejected` after any answer below 500; a 401, 413 or 429 is
  no decision on the operation. `protocol/federation/README.md:110` says that a
  temporary upstream failure does not turn a durable operation into `rejected`.
- **A snapshot of no state** (`spatial-read-service.ts:146`). The collections are read
  one after the other while writes go on, so a snapshot can show a later write without
  an earlier one. `protocol/spatial/README.md:93` and `http.md:90` ask for one logical
  state.

Three more behaviours of this kind showed up and have no run of their own; the
properties that meet them exclude them by name. `commit()` of a scan verifies staged
files and reads them again: an upload the headset has given up on can truncate one in
between, and the marker vouches for it (`scan-upload-service.ts:234`). A rename that
fails in the middle of a commit on files leaves files that violate `ifAbsent` for ever
after, so the scan is never delivered (`filesystem.ts:70`). A `writeFile` in the Git
checkout that stops inside a line, on a path the branch has no file for, leaves an
untracked file that no refresh removes and every read of the collection throws at
(`git-remote.ts:171`, `spatial-write-service.ts:99`).

### Bounds, and why they are enough

- *Operations and objects.* Three operation ids let an operation be interrupted,
  a second overtake it, and a third bring the collection back or use its id. The
  contents cover each branch of `Plan`: create with and without an id, update and
  delete on a current and on an outdated revision, a missing and an existing
  object, a payload for another object, and reuse of an operation id with other
  content.
- *Faults.* `MaxFaults` bounds their number, not their place: each can happen at
  any await. Two are a failure and a crash during the recovery from it; three let
  a scan upload fail at each of its stages. After the last fault the liveness
  properties must hold.
- *`FreshId`.* A create without an id mints one each time it is prepared. With two
  faults on the filesystem it is prepared at most three times; the bound is never
  what stops a step.
- *Slots.* Three requests for a scan are a live one and two stragglers. Two
  handlers in `DeviceAccess` are any race of two; a third would only repeat one.
- *Sessions.* Three sessions let two approvals race and a refresh follow, or two
  refreshes follow one approval. When none is left, `newId()` is stuck: this only
  cuts behaviours off and no liveness property depends on it.
- *`MaxForeign`.* One foreign push can fall at every point of a commit.
- *Situations of `Federation`.* What two requests can do to each other differs by
  configuration, so each situation has its own bounds. `direct`: a service token,
  2 requests and polls without bound, 2 faults, one operation id submitted with
  two contents, one of which needs the artifact, and one change of what is read;
  this is where lost answers, crashes and repetitions of a delivery meet.
  `backlog`: the pending relays of an earlier run, so that a pass has two entries
  and polls cut in between. `login`: PKCE, 2 refresh tokens. `exchange`: token
  exchange, 2 requests, 2 tokens. `shaky`: the same with one fault, so that the
  token endpoint fails in the middle of a delivery.
- *Mixes of `Curation`.* Uploads, promotions, and snapshots with writes share
  nothing but the repository and, for the artifact a payload refers to, its two
  files. They are explored apart: 2 upload requests and retries without bound;
  5 candidate requests (submit, review, preview, two promotions), also on files an
  interrupted commit has left; 2 snapshots and two writes. The interrupted commit is of
  an artifact a payload refers to; others are in nobody's way. Uploads are created
  with the named declaration (`Offered`); the other one occurs in what an earlier run
  has left.
- *Symmetry* is used for slots, pairings and sessions in runs that check no
  liveness property; these model values are interchangeable in the definitions.

The state spaces have no deadlock to look for: clients may stop at any time, so
`CHECK_DEADLOCK` is off and progress is what the liveness properties say.

### Fairness and why the code justifies it

Node runs the continuation of a settled await and the operating system answers
file and Git commands: weak fairness of `HandlerStep` and of the provider steps.
The gates are promise chains, first come first served: strong fairness of the
provider steps in `ScanUploadGit`, where several callers wait for the gate.
`ScanOutboxUploader.drain` is called again and again: weak fairness of the
headset's steps. The refresh interval is a second, so reads are not throttled for
ever: strong fairness of `GitReadFetched` in `SpatialWriteGit`. A client repeats an
operation that has no terminal status, and the gate does not starve it: strong
fairness of `Retry(o)`. Faults, foreign pushes, timeouts and crashes are never fair
and are bounded. `DeviceAccess` has
safety properties only.

In `Federation` a request goes on as in all services (weak fairness of some
`HandlerStep`: the gate admits one at a time). Nothing in the bridge delivers a
pending relay by itself: `retryPending` runs when an administrator asks. So
`EveryRelaySettles` assumes what the status `relay-durable` invites: the owner of
a pending operation keeps polling it and is answered (strong fairness of
`OwnerPolls`). The upstream, where it is a relay itself, settles what it took
(weak fairness of `UpstreamSettles`). In `Curation` each handler goes on, a write
that was accepted is carried out, which `SpatialWriteFs` and `SpatialWriteGit`
show of the service, and the client of an upload repeats the step its status asks
for (strong fairness of `RetryPut` and `RetryCommit`).

### Failures that properties exclude by name

`CommittedIsAuthoritative` and `RefusedOnlyIfOvertaken` (Git) exclude a checkout
left dirty (`worktree`), a recovery that failed too (`recover`) and, for the
latter, a lost push answer (`ack`); the runs still contain these failures and the
other properties hold with them. `EveryOperationSettles` (Git) excludes an operation
whose collection is, from some time on for ever, a torn file that the branch does not
have (`TornForGood`). `ScanUploadFs` excludes from what
`EvidenceNeverLost` and `MarkerVouches` say of contents the stragglers that write
staging of a later attempt. `ScanUploadGit.EveryScanDelivered` excludes crashes, because a torn
staged file is refused as `SCAN_FILE_CONFLICT` until its staging is cleaned up.
`ImplementsBranch` drops each promise of `SpatialBranch` only after the failures that
end it (section 3), and that a commit is exact also only where the branch has been
without the file: there an untracked file outlives `reset --hard`.
`RevokedIsGone` excludes a refresh that had consumed its old session when the
sessions were revoked: it issues a new one, which is handed out only if the device
is enabled again before the handler looks at its status.

Five properties of the newer modules name a race the code loses, and hold without
it. `RevokedStaysRevoked` excludes a revocation while a token is being obtained:
`saveCredential` puts the credential back (`federation-delegation-service.ts:207`).
It speaks of PKCE only, since token exchange obtains a credential whenever one is
needed. `CredentialKept` excludes a refresh while another result is not stored: with
rotation the second is refused and `revoke` deletes what the first has stored
(`:211`). `OutageShowsLatest` excludes reads of one user that overlapped: their
answers can be cached in the other order (`federation-service.ts:324`).
`UploadKeepsItsArtifact` excludes two overlapping `createUpload` of one id, which
draw two artifacts (`spatial-artifact-service.ts:179`). `UploadsComplete` excludes
staged content torn by a crash: `putContent` refuses to replace it and nothing
removes it (`:214`). `SettledTruthfully` allows `rejected` of an operation of which a
delivery was itself answered 4xx (`refused`): `FederationRefused` shows what is wrong
with that. `EveryRelaySettles` excludes operations whose owner
has no authorization to deliver them with.

## 5. Proofs

`SpatialWriteFs_proofs` proves about `SpatialWriteFs`, for every set of
operations, ids, contents, paths and initial collections and any number and kind
of faults:

| Theorem | States |
|---|---|
| `Invariance` | `Spec => []IInv` |
| `TypeCorrectness` | `Spec => []TypeOK` |
| `Recoverability` | `Spec => []RecoverableUntilOvertaken` |
| `NoRepetition` | `Spec => []NoRepeatUntilOvertaken` |
| `NoFalseRefusal` | `Spec => []RefusedOnlyIfOvertaken` |
| `SourceImplemented` | `Spec => ImplementsSource`: the service refines `SpatialSource` |
| `CommitsNeverConflict` | `Spec => []~Replied("conflict")`: the filesystem provider never refuses a commit of this service, so on it the branch for `REPOSITORY_CONFLICT` is dead as long as nobody else writes the collections |

Assumptions: the named `ASSUME`s of the modules. Those that carry weight are
`RequestAssumption` (what `parse()` lets through), `OnlyServiceAssumption` (the
service is the only writer of the model collections) and `DistinctAssumption`
(`None` and `Absent` are not data), and `InitialFilesAssumption` (no duplicate ids).

Argument. The three safety properties are not inductive: they speak of what has
landed, and what lands next depends on what the request in the gate read before.
`LandingInv` adds two facts. `JobMatchesLedger`: the request in the gate is the ledger's,
and when `prepare()` runs, every earlier landing of its operation has been
overtaken, because otherwise `commit()` would have recognised its bytes.
`CallMatchesFiles`: a reply that was read is still what the file has, and a write
under way expects what the file still has, because nobody else can write. So at
the rename the operation's earlier landings are all overtaken (no repetition), its
new landing leaves exactly the prepared bytes (recoverable), and a refusal is only
ever decided in `prepare()` (refused only if overtaken). The proof has one lemma per
action and lemmas for `Plan`, the ledger and the history; `LeastElement` gives the
first index that `IndexOf` chooses.

The refinement needs the rest of `IInv`, `EffectsAreRequested`: no collection gets
two items of one id, a prepared write is the requested change of the collection it
expects (`Applies`, from `PlanOutcome`: one lemma per kind of operation about
appending, replacing or removing an item of a sequence, and what that does to the
set of its items), and who goes on to finalize has the prepared bytes in the file.
Then `prepare()` accepts a new operation, prepares a known one again unseen, or
settles it with a reason that is true of the file it just read; the rename is
where the operation takes effect; `finalizeCommitted()` settles it with a status
that is true of what the file still holds; and no other step is seen.

`SpatialWriteGit_proofs` proves about `SpatialWriteGit`, for every set of
operations, ids, contents and paths, any commits of other clones, and any number and
kind of faults:

| Theorem | States |
|---|---|
| `WriteInvariant` | `Spec => []IInv` |
| `WriteTypes` | `Spec => []TypeOK` |
| `CommitsAsRequested` | `Spec => [](FollowsBranch => CommitsAreRequestedChanges)` |
| `CommittedOnBranch` | `Spec => []CommittedIsAuthoritative` |
| `RefusedIfOvertaken` | `Spec => []RefusedOnlyIfOvertaken` |
| `BranchImplemented` | `Spec => ImplementsBranch`: the service refines `SpatialBranch` |

Assumptions: the named `ASSUME`s, as above; `UniqueAssumption` extends the absence of
duplicate ids to what other clones push. `FollowsBranch` is a hypothesis of
`CommitsAsRequested` because the code needs it: no write failed halfway, or the branch
has a file on every path. Otherwise an untracked file survives `reset --hard`, and
preconditions are checked against that file instead of the branch. The run has
both: another clone that removes the file, and writes that fail halfway.

Argument. What a push puts on the branch was prepared from a read, checked against the
checkout, and committed locally, each some awaits earlier. `IInv` therefore says of
each stage what the branch is sure to have: a pending entry is the requested change of
what it expects (`EntryOK`); between local commit and push the collection on the commit
below is what was expected, and a clean checkout holds that commit with just this
change (`CommitOK`); what is read, or reported as committed, the branch has or had
(`ReadOK`); and an operation whose commit is the last on the branch has its prepared
bytes there and is not prepared anew, as long as the bridge learns what became of its
pushes. The last is what a lost push answer breaks, the violation
`SpatialWriteGitLostAck`. `RemoteOK` and `CheckoutOK` keep the rest; `Lands` and
`BranchGrows` are about a commit on top of the branch, whoever pushed it.

The refinement needs nothing more. `LandsOnBranch`: the push that the remote takes is
the operation taking effect on the tip, whether or not its answer arrives.
`RefusesOnBranch`: what `prepare()` read is a commit of the branch, the tip unless
another clone has pushed, so a conflict is true of it. `FinalizeOnBranch`: what
`finalizeCommitted()` reports is true of the commit that has the prepared bytes.
`TrustFalls`: a failure only takes promises away. Every other step writes neither the
ledger nor the branch (`QuietOnBranch`) and is seen, if at all, as a promise in doubt.

`ScanUploadFs_proofs` and `ScanUploadGit_proofs` prove about the two scan uploads, for
every set of scans, files and requests, any number and kind of faults and, on Git, any
commits of other clones:

| Theorem | States |
|---|---|
| `ScanInvariant` (both) | `Spec => []IInv` |
| `ScanTypes` (both) | `Spec => []TypeOK` |
| `EvidenceKept`, files | `Spec => []EvidenceNeverLost` |
| `EvidenceKept`, Git | `Spec => [](CleanCheckout /\ NoStragglerWrites => EvidenceNeverLost)` |
| `MarkersVouch`, files | `Spec => []MarkerVouches` |
| `BranchHoldsWholeScans`, Git | `Spec => [](NoStragglerWrites => ScansAreAtomic)` |
| `CommittedOnce`, Git | `Spec => []ScanCommittedOnce` |

Assumptions: the named `ASSUME`s. `FilesAssumption` says that no captured file is named
`manifest.json` or `_commit.json`, which neither the headset nor the Bridge checks. The
others keep slots, tags and `Absent` apart. The hypotheses of the Git theorems are the
conditions the runs have by their choice of faults; `ScanUploadGitDirty` shows what
happens without one of them.

Argument. `ScanUpload_proofs` proves what does not depend on the provider as
`ScanInv(M, B)`, where `M` are the scans the repository has and `B` those a read may
report. Each provider gives its own `M` and `B` and shows that `M` only grows. A request
that was answered is one the repository has; a commit under way is of files that were
whole when they were collected, unless an abandoned upload can have truncated one
between the check and the collection (`CheckOK`, by whether the headset waits for every
upload, or staging is never cleaned up), or the provider is going to refuse it. On
files, the renames done so far are the first ones of the commit (`RenamesOK`) and the
marker is the last, so the marker vouches. On Git, a tree of the branch has all of a
scan or nothing of it (`TreeOK`); the commit that is to be pushed adds its scan to a
tree that has nothing of it, and its caller holds the gate (`PushOK`); and a clean
checkout outside the gate shows no marker that the branch lacks (`CheckoutOK`).

`Federation_proofs` proves about `Federation`, for every set of users, operations,
contents, slots and login states, every configuration, and any number and kind of
faults:

| Theorem | States |
|---|---|
| `RelayInvariant` | `Spec => []IInv` |
| `TypesHold` | `Spec => []TypeOK` |
| `SentIsRecorded` | `Spec => []NothingSentUnrecorded` |
| `StatusIsTrue` | `Spec => []SettledTruthfully` |
| `DependenciesHold` | `Spec => []ArtifactsFirst` |
| `WhatIsTakenIsKept` | `Spec => RelaysAreKept` |
| `RevocationHolds` | `Spec => []RevokedStaysRevoked` |
| `OutagesShowLatest` | `Spec => []OutageShowsLatest` |
| `AuthorizationIsKept` | `Spec => []CredentialKept` |

Assumptions: the named `ASSUME`s; they say that `None` is not data, that bounds are
numbers and that what an earlier run left has no artifact references.

Argument. What a relay stores at the end of a delivery is a copy it took at the
beginning, several awaits before. It may overwrite the stored entry only because
nobody else changed it: every writer of `relay` but `cleanupRelays` is at the head
of the gate, and clean-up touches terminal entries only. `IInv` therefore adds to
`TypeOK` what a slot inside the gate may rely on (`SlotOK`: it is the head, its
entry is still the pending one, with the same owner and content, the entries it has
still to deliver are of other operations, and the status it is about to store is
true of the upstream) and what holds of every stored entry (`RelayOK`). The proof
has a lemma per action and, for steps that only obtain tokens or move the clock,
one lemma about what they leave alone. Revocation has an invariant of its own,
`NoComeback`: of a user who has revoked there is neither a credential nor a login
nor a call that would store one. So has the cache, `ViewInv`: as long as no two reads
of a user overlapped, there is one under way at most, and what it brings and what is
cached is not older than what was shown. `TokenInv` is about the refresh tokens of a
user: each belongs to one user (`TokensOwned`), and as long as nothing failed and no
two calls obtained a token at once, those held are accepted and only one call is using
one (`Kept`).

`Curation_proofs` proves about `Curation`, for every set of uploads, artifacts,
contents, candidates, payloads, writes and slots, from a fresh state directory or
one with an interrupted commit, and any number and kind of faults:

| Theorem | States |
|---|---|
| `CurationInvariant` | `Spec => []IInv` |
| `TypesHold` | `Spec => []TypeOK` |
| `ArtifactsWhole` | `Spec => []ArtifactsAreWhole` |
| `UploadsKeepArtifact` | `Spec => []UploadKeepsItsArtifact` |
| `PromotionsAsReviewed` | `Spec => []PromotedAsReviewed` |
| `SnapshotsAreTrue` | `Spec => []CollectionsWereHeld`: each single collection of a snapshot is as it was at some time while the snapshot was made, which is less than one state of the source |
| `FilesAreFinal` | `Spec => [][FilesStay]_vars`: no file of an artifact is removed, no content changed, and metadata replaced only by metadata of the same upload session (another `createdAt`) |

Assumptions: the named `ASSUME`s. `DeclaresAssumption` says that a description
(size and hash) determines the content, `WriteAssumption` that other clients do not
use the operation ids of promotions, which are hashes; `CollectionsAssumption` and
`HeldAssumption` that the collections are a sequence and the source holds just these;
the others keep `None`, `Absent` and `Unset` apart from data.

Argument. A handler acts on the session it read at its beginning and on what the
repository answered some awaits ago. That is sound because of three facts that
`UInv` states together. An artifact id belongs to one session and its two files are
absent or what that session declares (`SessionsOK`: ids are fresh, and a session
that is written back is one that was there). Files that are there stay,
but for the time in the metadata (`FilesStay`), so a reply that found something is still true (`ReadOK`, `StoreOK`).
The metadata is looked for and stored only when the content is there (`PartOK`).
The steps that leave the repository alone share one lemma (`GoingOn`), which needs
only that the slot goes on with its own session or begins with the stored one; the
rename, the creation and the crash have their own. `OneSession` carries
`UploadKeepsItsArtifact`: with no two creations overlapping, every handler of an
upload holds its stored session. `CInv` does the same for promotions: a promotion
under way holds the payload of an accepted review (`PromotingOK`), and an accepted
review, a committed artifact and a terminal status never change. `SInv` says of
a snapshot that is being made that the history has the state the source is in now, and
of each collection read so far that some state in the history holds it.

`DeviceAccess_proofs` proves about `DeviceAccess`, for every set of headsets, pairings,
sessions and handlers, and any number and kind of faults:

| Theorem | States |
|---|---|
| `AccessInvariant` | `Spec => []IInv` |
| `AccessTypes` | `Spec => []TypeOK` |
| `OneCredentialHeld` | `Spec => []OneCredentialPerPairing` |
| `RevokedGone` | `Spec => []RevokedIsGone` |
| `CredentialHeld` | `Spec => []HeadsetKeepsItsCredential` |
| `DecisionsFinal` | `Spec => DecisionsAreFinal` |

Assumptions: `NoneAssumption` and `SessionsAssumption` (`None` is not a name and not a
session), `MaxFaultsAssumption`.

Argument. The handlers go through three stores with awaits between, and the token they
hand out is in nobody's hands until the last one. The credential of a pairing is
therefore either a live session that somebody holds, or can still fetch, or the slot of
the one refresh that has consumed it and not yet issued the next (`OneCredential`).
`consume` is atomic, so a second refresh of the same session fails, and a second
approval finds the pairing decided and its own session is never handed out. After a
revocation a pairing has no credential, unless such a slot was under way
(`NoCredentialLeft`). `RequestOK` and `HeadsetOK` say what a handler and a waiting
headset may rely on; `Kept` carries `HeadsetKeepsItsCredential` through a renewal.
The frame lemmas (`PairingsGoOn`, `SessionsGoOn`, ...) say once what most of the
handlers leave alone.

Every invariant and every action property of a passing run is thus stated by a
theorem, and so are both refinements. Checked by TLC only: the liveness properties
(`EveryOperationSettles`, `EveryScanDelivered`, `EveryRelaySettles`,
`UploadsComplete`), which with fairness and `ENABLED` are out of the prover's reach,
and the violations, which are facts about single behaviours. The proofs trust none of
the bounds of section 4: `MaxFaults`, `MaxForeign` and the sizes of the sets are
arbitrary in them.

## 6. Not modelled

Components marked `not_modelled` in `PROJECT.json`:

- *Administration.* Each of its services is one store with short mutations; the
  handlers that combine two of them can race (the hazards at
  `setup-bootstrap-service.ts:42`, `admin-passkey-service.ts:212`, `server.ts:1091`).
  It decides who may administer the Bridge, not what happens to spatial data, and
  was given less priority than the services that do.
- *Rate limiter.* A synchronous function of a map in memory; tests reach it.
- *Configuration, identity, release catalogue, updater reference.* Sequential code,
  read at start or run as a tool.
- *Observations* (`server.ts:1249`): one read and one commit, of which the modelled
  services contain every step.
- *Headset presentation, admin page, schemas, workflows, conformance.* No protocol
  state.

Within modelled components: size limits, schema checks and hash checks of
well-formed uploads, creation of outbox entries, rate limits, scopes and names of
devices, bridge profiles and endpoint resolution of the headset, expiry and
ownership of snapshots, backoff lengths, and read faults in the filesystem scan
run. Concurrent Bridge processes on one `stateDir` are outside what the code
supports.
