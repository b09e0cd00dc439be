------------------------- MODULE RepositoryProvider -------------------------
(***************************************************************************)
(* The interface every authoritative store of the Bridge sits behind       *)
(* (bridge/src/repository/provider.ts).  A service holds one outstanding   *)
(* provider call at a time per request it serves, so a call is a slot:     *)
(*                                                                         *)
(*    idle --service--> read    --provider--> data | failed --service--> idle*)
(*    idle --service--> commit  --provider--> ... --provider-->            *)
(*                                committed | conflict | failed            *)
(*                                                                         *)
(* The steps between "commit" and its reply belong to the provider that    *)
(* serves the call; they are the await points of its commitFiles.          *)
(***************************************************************************)
EXTENDS Naturals, Sequences

CONSTANTS
    Caller,      \* the requests (or serialised services) that use the provider
    Path,        \* repository paths
    Tag,         \* what a commit is made for (abstracts the commit message)
    Absent,      \* the path holds no file (readFile returned null)
    EmptyBytes,  \* the zero-length content, new Uint8Array()
    Unchecked,   \* FileChange.expectedSha256 was left out
    FaultKinds,  \* the kinds of failure a behaviour may contain
    MaxFaults    \* bound on the number of failures, crashes and lost replies

ASSUME MaxFaultsAssumption == MaxFaults \in Nat

VARIABLES
    call,   \* call[k] is the provider call of caller k
    faults  \* history: the failures so far

-----------------------------------------------------------------------------
\* A digest is modelled by what it identifies: equal digests, equal content.
Change(contents) ==
    [path: Path, content: contents, ifAbsent: BOOLEAN,
     expected: contents \union {Unchecked}]

CallState(contents) ==
         [step: {"idle", "committed", "conflict", "failed"}]
  \union [step: {"read"}, path: Path]
  \union [step: {"data"}, content: contents \union {Absent}]
  \union [step: {"commit", "staged", "renaming", "push", "recover"},
          changes: Seq(Change(contents)), tag: Tag, done: Nat]

\* existing ?? new Uint8Array()
Bytes(content) == IF content = Absent THEN EmptyBytes ELSE content

\* assertPreconditions: ifAbsent wants no file, expectedSha256 the same bytes.
PreconditionHolds(change, tree) ==
    /\ change.ifAbsent => tree[change.path] = Absent
    /\ change.expected # Unchecked => change.expected = Bytes(tree[change.path])

PreconditionsHold(changes, tree) ==
    \A i \in DOMAIN changes : PreconditionHolds(changes[i], tree)

-----------------------------------------------------------------------------
\* The caller's side of the slot.
Idle == [step |-> "idle"]
Reading(path) == [step |-> "read", path |-> path]
Committing(changes, tag) ==
    [step |-> "commit", changes |-> changes, tag |-> tag, done |-> 0]

Ask(k, request) == call' = [call EXCEPT ![k] = request]
Release(k) == call' = [call EXCEPT ![k] = Idle]

\* The provider's side.
Reply(k, step) == call' = [call EXCEPT ![k] = [step |-> step]]
ReplyData(k, content) ==
    call' = [call EXCEPT ![k] = [step |-> "data", content |-> content]]
Advance(k, step) ==
    call' = [call EXCEPT ![k] = [step |-> step, tag |-> call[k].tag,
                                 changes |-> call[k].changes, done |-> call[k].done]]

\* The failures of a behaviour: how many there were, and of which kinds.
FaultHistory == [count: Nat, kinds: SUBSET FaultKinds]
NoFaults == [count |-> 0, kinds |-> {}]

Fault(kind) ==
    /\ kind \in FaultKinds
    /\ faults.count < MaxFaults
    /\ faults' = [count |-> faults.count + 1, kinds |-> faults.kinds \union {kind}]

\* No failure of these kinds has happened so far.
Free(kinds) == faults.kinds \intersect kinds = {}

ProviderInit ==
    /\ call = [k \in Caller |-> Idle]
    /\ faults = NoFaults
=============================================================================
