---------------------------- MODULE SpatialWrite ----------------------------
(***************************************************************************)
(* bridge/src/services/spatial-write-service.ts: retry-safe mutations of   *)
(* the authoritative JSONL collections.                                    *)
(*                                                                         *)
(* The service keeps a ledger on disk, one entry per operation id.  An     *)
(* entry holds either the prepared write (the collection it expects and    *)
(* the collection it will leave) or the terminal status.  One gate         *)
(* serialises the requests that get past the cheap reads, so at most one   *)
(* of them, "job", is between two awaits; its provider call is             *)
(* call[Service].  Every reply of the provider is consumed together with   *)
(* the ledger write that follows it: both survive a crash or neither does. *)
(***************************************************************************)
EXTENDS RepositoryProvider

CONSTANTS
    Service,  \* the caller this service is, in Caller
    OpId,     \* operation ids (the source id is the bridge's own)
    Object,   \* object and relation ids
    FreshId,  \* the ids newId() can return
    Val,      \* object contents; a revision is the digest of one
    None,     \* undefined or null
    Torn,     \* the content of a file that breaks off inside a line
    Request   \* the parsed operations clients may submit

ASSUME ServiceAssumption == Service \in Caller /\ OpId \subseteq Tag

ASSUME FreshIdAssumption == FreshId \subseteq Object

ASSUME NoneAssumption == None \notin Object \union Val

\* readFile's null is handled as an empty collection (?? new Uint8Array()).
ASSUME EmptyAssumption == EmptyBytes = <<>>

Action == {"create", "update", "delete"}

\* What parse() lets through: a create has baseRevision null and a payload,
\* the others a target and a base revision, a delete no payload.
ASSUME RequestAssumption ==
    /\ Request \subseteq [id: OpId, path: Path, action: Action,
                          target: Object \union {None},
                          payloadId: Object \union {None},
                          base: Val \union {None}, val: Val \union {None}]
    /\ \A r \in Request :
         /\ r.action = "create" => r.base = None /\ r.val # None
         /\ r.action # "create" => r.target # None /\ r.base # None
         /\ r.action = "update" => r.val # None
         /\ r.action = "delete" => r.val = None /\ r.payloadId = None

Item == [id: Object, val: Val]
Collection == Seq(Item)

Prepared == [expected: Collection, next: Collection, obj: Object,
             rev: Val \union {None}]
Status ==
         [state: {"source-committed"}, obj: Object, rev: Val \union {None}]
  \union [state: {"conflict"},
          type: {"object-exists", "object-missing", "revision-mismatch"}]
  \union [state: {"rejected"}]
Entry ==
         [op: Request, prepared: Prepared, status: {None}]
  \union [op: Request, prepared: {None}, status: Status]

\* None, Absent, Unchecked, Torn: an entry, a status and a collection are
\* something else.
ASSUME DistinctAssumption ==
    /\ None \notin Entry \union Status
    /\ {Absent, Unchecked, Torn} \cap Collection = {}
    /\ Absent # Torn

VARIABLES
    ledger,  \* ledger[o]: spatial-operations.json's entry of operation o
    job,     \* the request inside the gate
    minted   \* the ids newId() has returned

serviceVars == <<ledger, job, minted>>

-----------------------------------------------------------------------------
Job ==
         [pc: {"idle"}]
  \union [pc: {"prepare", "load", "commit", "finalize"}, op: Request]

ServiceTypeOK ==
    /\ ledger \in [OpId -> Entry \union {None}]
    /\ \A o \in OpId : ledger[o] # None => ledger[o].op.id = o
    /\ job \in Job
    /\ minted \subseteq FreshId

-----------------------------------------------------------------------------
(***************************************************************************)
(* prepare(): what the operation does to the collection it was given.      *)
(***************************************************************************)
Has(items, id) == \E i \in DOMAIN items : items[i].id = id

\* findIndex: the first item with that id.
IndexOf(items, id) ==
    CHOOSE i \in DOMAIN items :
        items[i].id = id /\ \A j \in DOMAIN items : items[j].id = id => i <= j

\* splice(i, 1)
Without(items, i) == SubSeq(items, 1, i - 1) \o SubSeq(items, i + 1, Len(items))

Conflict(type) == [state |-> "conflict", type |-> type]
Rejected == [state |-> "rejected"]
Committed(prepared) ==
    [state |-> "source-committed", obj |-> prepared.obj, rev |-> prepared.rev]

NeedsFreshId(op) ==
    op.action = "create" /\ op.target = None /\ op.payloadId = None

\* target.objectId ?? itemId(payload) ?? newId()
AuthoritativeId(op, fresh) ==
    CASE op.target # None                        -> op.target
      [] op.target = None /\ op.payloadId # None -> op.payloadId
      [] op.target = None /\ op.payloadId = None -> fresh

\* The payload names another object than the target.
Mismatched(op, id) == op.payloadId # None /\ op.payloadId # id

\* Mutant: the caller's base revision is not compared.
BaseIsIgnored(op, current) == op.base \in Val

\* The check of baseRevision against the current revision.
BaseIsCurrent(op, current) == op.base = current

PlanCreate(op, items, id) ==
    IF Has(items, id)
      THEN Conflict("object-exists")
      ELSE IF Mismatched(op, id)
        THEN Rejected
        ELSE [expected |-> items,
              next |-> Append(items, [id |-> id, val |-> op.val]),
              obj |-> id, rev |-> op.val]

PlanUpdate(op, items, i) ==
    IF Mismatched(op, op.target)
      THEN Rejected
      ELSE [expected |-> items,
            next |-> [items EXCEPT ![i] = [id |-> op.target, val |-> op.val]],
            obj |-> op.target, rev |-> op.val]

PlanDelete(op, items, i) ==
    [expected |-> items, next |-> Without(items, i),
     obj |-> op.target, rev |-> None]

PlanChange(op, items) ==
    LET i == IndexOf(items, op.target)
    IN  IF ~Has(items, op.target)
          THEN Conflict("object-missing")
          ELSE IF ~BaseIsCurrent(op, items[i].val)
            THEN Conflict("revision-mismatch")
            ELSE IF op.action = "update"
              THEN PlanUpdate(op, items, i)
              ELSE PlanDelete(op, items, i)

\* A prepared write, or a status that is already terminal.
Plan(op, items, fresh) ==
    IF op.action = "create"
      THEN PlanCreate(op, items, AuthoritativeId(op, fresh))
      ELSE PlanChange(op, items)

\* "contentBase64" in prepared
IsPrepared(plan) == "next" \in DOMAIN plan

-----------------------------------------------------------------------------
(***************************************************************************)
(* What a prepared write stands for.  A collection is a sequence; what an  *)
(* operation asks for, and what a status reports, is about its items.      *)
(***************************************************************************)
ItemsIn(items) == {items[i] : i \in DOMAIN items}
IdsIn(items) == {item.id : item \in ItemsIn(items)}

\* No two items of a collection have one id.
UniqueIds(items) ==
    \A i, j \in DOMAIN items : items[i].id = items[j].id => i = j

\* "new" is "old" with request r applied, on the revision r names.
Changes(r, old, new) ==
    LET target == [id |-> r.target, val |-> r.base]
    IN  CASE r.action = "create" ->
               \E id \in Object \ IdsIn(old) :
                 /\ {r.target, r.payloadId} \subseteq {id, None}
                 /\ ItemsIn(new) = ItemsIn(old) \union {[id |-> id, val |-> r.val]}
          [] r.action = "update" ->
               /\ target \in ItemsIn(old)
               /\ ItemsIn(new) = (ItemsIn(old) \ {target})
                                   \union {[id |-> r.target, val |-> r.val]}
          [] r.action = "delete" ->
               target \in ItemsIn(old) /\ ItemsIn(new) = ItemsIn(old) \ {target}

\* The collection has what a source-committed status reports.
Shows(r, obj, rev, items) ==
    IF r.action = "delete" THEN obj \notin IdsIn(items)
    ELSE [id |-> obj, val |-> rev] \in ItemsIn(items)

\* The prepared write is the requested change of the collection it expects,
\* leaves what the status will report, and reports what was asked for.
Applies(r, prepared) ==
    /\ UniqueIds(prepared.next)
    /\ Changes(r, prepared.expected, prepared.next)
    /\ Shows(r, prepared.obj, prepared.rev, prepared.next)
    /\ {r.target, r.payloadId} \subseteq {prepared.obj, None}
    /\ prepared.rev = r.val

-----------------------------------------------------------------------------
(***************************************************************************)
(* The ledger entry of an operation, before and after it is settled.       *)
(***************************************************************************)
Unsettled(op, prepared) == [op |-> op, prepared |-> prepared, status |-> None]

\* Mutant: the prepared write is not deleted when the status is stored.
SettledKeepingPlan(op, status) ==
    [op |-> op, status |-> status,
     prepared |-> IF ledger[op.id] = None THEN None ELSE ledger[op.id].prepared]

\* entry.status = status; delete entry.prepared
Settled(op, status) == [op |-> op, prepared |-> None, status |-> status]

Save(op, entry) == ledger' = [ledger EXCEPT ![op.id] = entry]

IsSettled(o) == ledger[o] # None /\ ledger[o].status # None
IsPending(o) == ledger[o] # None /\ ledger[o].status = None

\* What the ledger says of an operation: its request and its terminal status.
SourceRequest == [o \in OpId |-> IF ledger[o] = None THEN None ELSE ledger[o].op]
SourceOutcome == [o \in OpId |-> IF ledger[o] = None THEN None ELSE ledger[o].status]

GoTo(pc) == job' = [job EXCEPT !.pc = pc]
Finish == job' = [pc |-> "idle"] /\ Release(Service)
Replied(step) == job.pc # "idle" /\ call[Service].step = step
LoadedItems == Bytes(call[Service].content)

\* loadCollection(): parseJsonl refuses a line that is not a JSON object.
Loaded == Replied("data") /\ call[Service].content # Torn
LoadRefused ==
    /\ job.pc \in {"prepare", "load"}
    /\ Replied("data")
    /\ call[Service].content = Torn

-----------------------------------------------------------------------------
ServiceInit ==
    /\ ledger = [o \in OpId |-> None]
    /\ job = [pc |-> "idle"]
    /\ minted = {}

\* submit() of an operation id the ledger does not know: prepare() starts by
\* loading the collection.
Submit(r) ==
    /\ job.pc = "idle"
    /\ ledger[r.id] = None
    /\ job' = [pc |-> "prepare", op |-> r]
    /\ Ask(Service, Reading(r.path))
    /\ UNCHANGED <<ledger, minted, faults>>

\* submit() again with the same content, or get(): commit() of the prepared
\* write.  With other content it is refused, with a status it is answered
\* from the ledger; neither changes state.
Resume(r) ==
    /\ job.pc = "idle"
    /\ IsPending(r.id)
    /\ ledger[r.id].op = r
    /\ job' = [pc |-> "load", op |-> r]
    /\ Ask(Service, Reading(r.path))
    /\ UNCHANGED <<ledger, minted, faults>>

\* prepare() has its collection: the outcome is saved, and commit() begins
\* with a load of its own unless the outcome was terminal.
Prepare ==
    /\ job.pc = "prepare"
    /\ Loaded
    /\ \E fresh \in IF NeedsFreshId(job.op) THEN FreshId \ minted ELSE {None} :
         LET plan == Plan(job.op, LoadedItems, fresh)
         IN  /\ minted' = minted \union ({fresh} \ {None})
             /\ IF IsPrepared(plan)
                  THEN /\ Save(job.op, Unsettled(job.op, plan))
                       /\ GoTo("load")
                       /\ Ask(Service, Reading(job.op.path))
                  ELSE /\ Save(job.op, Settled(job.op, plan))
                       /\ Finish
    /\ UNCHANGED faults

\* Mutant: commit() without the crash recovery check.
NeverRecognised(prepared, items) == FALSE

\* currentHash === prepared.nextCollectionSha256
AlreadyWritten(prepared, items) == prepared.next = items

\* commit() loaded the collection: the write is already there, or the
\* collection has moved on, or the write can go out.
Load ==
    LET prepared == ledger[job.op.id].prepared
    IN  /\ job.pc = "load"
        /\ Loaded
        /\ \/ /\ AlreadyWritten(prepared, LoadedItems)
              /\ GoTo("finalize")
              /\ Ask(Service, Reading(job.op.path))
           \/ /\ ~AlreadyWritten(prepared, LoadedItems)
              /\ LoadedItems # prepared.expected
              /\ GoTo("prepare")
              /\ Ask(Service, Reading(job.op.path))
           \/ /\ ~AlreadyWritten(prepared, LoadedItems)
              /\ LoadedItems = prepared.expected
              /\ GoTo("commit")
              /\ Ask(Service, Committing(
                     <<[path |-> job.op.path, content |-> prepared.next,
                        ifAbsent |-> FALSE, expected |-> prepared.expected]>>,
                     job.op.id))
        /\ UNCHANGED <<ledger, minted, faults>>

\* commitFiles returned: finalizeCommitted() computes the source revision,
\* which reads the repository again.
CommitReturned ==
    /\ job.pc = "commit"
    /\ Replied("committed")
    /\ GoTo("finalize")
    /\ Ask(Service, Reading(job.op.path))
    /\ UNCHANGED <<ledger, minted, faults>>

\* Mutant: a repository conflict is taken for this operation's own commit.
ConflictTakenForCommit ==
    /\ job.pc = "commit"
    /\ Replied("conflict")
    /\ GoTo("finalize")
    /\ Ask(Service, Reading(job.op.path))
    /\ UNCHANGED <<ledger, minted, faults>>

\* commitFiles threw REPOSITORY_CONFLICT: prepare again.
CommitConflicted ==
    /\ job.pc = "commit"
    /\ Replied("conflict")
    /\ GoTo("prepare")
    /\ Ask(Service, Reading(job.op.path))
    /\ UNCHANGED <<ledger, minted, faults>>

\* finalizeCommitted(): the status replaces the prepared write.
Finalize ==
    /\ job.pc = "finalize"
    /\ Replied("data")
    /\ Save(job.op, Settled(job.op, Committed(ledger[job.op.id].prepared)))
    /\ Finish
    /\ UNCHANGED <<minted, faults>>

\* Mutant: an error leaves the gate without releasing it.
RequestFailsInsideGate ==
    /\ Replied("failed")
    /\ Release(Service)
    /\ UNCHANGED <<ledger, job, minted, faults>>

\* Any other error is rethrown, SPATIAL_MODEL_INVALID among them; the ledger
\* keeps what it had.
RequestFails ==
    /\ Replied("failed") \/ LoadRefused
    /\ Finish
    /\ UNCHANGED <<ledger, minted, faults>>

\* Writing the ledger itself fails, so the request does.
LedgerWriteFails ==
    /\ \/ job.pc = "prepare" /\ Loaded
       \/ job.pc = "finalize" /\ Replied("data")
    /\ Fault("ledger")
    /\ Finish
    /\ UNCHANGED <<ledger, minted>>

HandlerStep ==
    \/ Prepare
    \/ Load
    \/ CommitReturned
    \/ CommitConflicted
    \/ Finalize
    \/ RequestFails
    \/ LedgerWriteFails

\* A client retries an operation it has no terminal status for.
Retry(o) == \E r \in Request : r.id = o /\ Resume(r)

ClientStep == \E r \in Request : Submit(r) \/ Resume(r)

ServiceStep == ClientStep \/ HandlerStep
=============================================================================
