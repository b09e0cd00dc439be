--------------------------- MODULE SpatialSnapshot ---------------------------
(***************************************************************************)
(* createSnapshot of bridge/src/services/spatial-read-service.ts: the      *)
(* collections are read one after the other, and what was read is stored   *)
(* under a new id and never changed.  Who may read a snapshot, and until   *)
(* when, is left out.                                                      *)
(***************************************************************************)
EXTENDS Naturals, Sequences

CONSTANTS
    Collections, \* the collections, in the order they are read
    Reader       \* the slots a snapshot may be made in

ASSUME CollectionsAssumption == Collections \in Seq({Collections[i] : i \in DOMAIN Collections})

VARIABLES
    loading,  \* the snapshot being made in each slot
    snapshots \* the snapshots stored; seen: history, the states the source was in
              \* from when the request began until the snapshot was stored

snapshotVars == <<loading, snapshots>>

-----------------------------------------------------------------------------
NotLoading == [pc |-> "idle"]

SnapshotInit ==
    /\ loading = [k \in Reader |-> NotLoading]
    /\ snapshots = {}

IsLoading(k) == loading[k].pc = "load"

BeginSnapshot(k, objects) ==
    /\ ~IsLoading(k)
    /\ loading' = [loading EXCEPT ![k] = [pc |-> "load", at |-> 1,
                                          seen |-> {objects},
                                          view |-> [p \in DOMAIN objects |-> {}]]]
    /\ UNCHANGED snapshots

\* History: the source is in this state now.
SourceIsSeen(objects) ==
    loading' = [k \in Reader |->
        IF IsLoading(k) THEN [loading[k] EXCEPT !.seen = @ \union {objects}] ELSE loading[k]]

\* The next collection was read, with these items.
LoadedAs(k, items) ==
    loading' = [loading EXCEPT ![k].at = @ + 1, ![k].view[Collections[loading[k].at]] = items]

IsLoaded(k) == loading[k].at > Len(Collections)

\* A read that fails ends the request.
AfterReadError(k) == loading' = [loading EXCEPT ![k] = NotLoading]

\* atomicWrite of the snapshot.
StoreSnapshot(k) ==
    /\ IsLoading(k)
    /\ IsLoaded(k)
    /\ snapshots' = snapshots \union {[view |-> loading[k].view, seen |-> loading[k].seen]}
    /\ loading' = [loading EXCEPT ![k] = NotLoading]
=============================================================================
