---------------------------- MODULE SpatialSource ----------------------------
(***************************************************************************)
(* What Spatial Write promises of one authoritative source, without its    *)
(* ledger format, provider calls, gate or crashes.  A collection is the    *)
(* set of its objects.  An operation id is bound to the first content      *)
(* submitted under it; only then may the operation take effect, each time  *)
(* as exactly the change it asks for and only on the revision it names;    *)
(* and it is settled once, by an answer that is true of the collection at  *)
(* that moment.                                                            *)
(*                                                                         *)
(* What it deliberately does not promise is that an operation takes effect *)
(* at most once: see OncePerOperation in SpatialWriteFs.                   *)
(***************************************************************************)
CONSTANTS Path, OpId, Object, Val, None, Request,
          InitialObjects  \* the collections at the start

VARIABLES
    objects,  \* objects[p]: the set of [id, val] in collection p
    request,  \* request[o]: the content bound to operation id o, or None
    outcome   \* outcome[o]: the terminal status of o, or None

sourceVars == <<objects, request, outcome>>

IdsIn(p) == {x.id : x \in objects[p]}
Item(id, val) == [id |-> id, val |-> val]

\* The ids a create may use: the one it names, or any when it names none.
IdsFor(r) ==
    CASE r.target # None                        -> {r.target}
      [] r.target = None /\ r.payloadId # None -> {r.payloadId}
      [] r.target = None /\ r.payloadId = None -> Object

\* The payload names another object than the target.
NamesAnother(r) ==
    /\ {r.target, r.payloadId} \cap {None} = {}
    /\ r.target # r.payloadId

SourceInit ==
    /\ objects = InitialObjects
    /\ request = [o \in OpId |-> None]
    /\ outcome = [o \in OpId |-> None]

\* The first submission under an operation id.
Accept(r) ==
    /\ request[r.id] = None
    /\ request' = [request EXCEPT ![r.id] = r]
    /\ UNCHANGED <<objects, outcome>>

\* An accepted operation that is not settled takes effect.
TakeEffect(r) ==
    /\ request[r.id] = r
    /\ outcome[r.id] = None
    /\ ~NamesAnother(r)
    /\ \/ /\ r.action = "create"
          /\ \E id \in IdsFor(r) :
               /\ id \notin IdsIn(r.path)
               /\ objects' = [objects EXCEPT ![r.path] = @ \union {Item(id, r.val)}]
       \/ /\ r.action # "create"
          /\ Item(r.target, r.base) \in objects[r.path]
          /\ objects' = [objects EXCEPT ![r.path] =
                (@ \ {Item(r.target, r.base)})
                  \union (IF r.action = "update" THEN {Item(r.target, r.val)} ELSE {})]
    /\ UNCHANGED <<request, outcome>>

\* The three kinds of answer, each true of the collection at this moment.
CommittedIsTrue(r, answer) ==
    /\ answer.state = "source-committed"
    /\ IF r.action = "delete"
         THEN answer.obj = r.target /\ answer.rev = None /\ r.target \notin IdsIn(r.path)
         ELSE /\ answer.obj \in IdsFor(r)
              /\ answer.rev = r.val
              /\ Item(answer.obj, r.val) \in objects[r.path]

ConflictIsTrue(r, answer) ==
    /\ answer.state = "conflict"
    /\ CASE answer.type = "object-exists" ->
              r.action = "create" /\ \E id \in IdsFor(r) : id \in IdsIn(r.path)
         [] answer.type = "object-missing" ->
              r.action # "create" /\ r.target \notin IdsIn(r.path)
         [] answer.type = "revision-mismatch" ->
              /\ r.action # "create"
              /\ r.target \in IdsIn(r.path)
              /\ Item(r.target, r.base) \notin objects[r.path]

\* A payload that names another object than the target is never applied.
RejectedIsTrue(r, answer) == answer.state = "rejected" /\ NamesAnother(r)

\* The operation is answered for good, possibly on its first submission.
Settle(r, answer) ==
    /\ request[r.id] \in {None, r}
    /\ outcome[r.id] = None
    /\ \/ CommittedIsTrue(r, answer) /\ request[r.id] = r
       \/ ConflictIsTrue(r, answer)
       \/ RejectedIsTrue(r, answer)
    /\ request' = [request EXCEPT ![r.id] = r]
    /\ outcome' = [outcome EXCEPT ![r.id] = answer]
    /\ UNCHANGED objects

SourceAnswer ==
         [state: {"source-committed"}, obj: Object, rev: Val \union {None}]
  \union [state: {"conflict"},
          type: {"object-exists", "object-missing", "revision-mismatch"}]
  \union [state: {"rejected"}]

SourceNext ==
    \E r \in Request :
        \/ Accept(r)
        \/ TakeEffect(r)
        \/ \E answer \in SourceAnswer : Settle(r, answer)

SourceSpec == SourceInit /\ [][SourceNext]_sourceVars
=============================================================================
