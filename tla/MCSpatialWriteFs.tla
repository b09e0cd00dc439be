-------------------------- MODULE MCSpatialWriteFs --------------------------
(***************************************************************************)
(* Small instances of SpatialWriteFs: one collection that starts with one  *)
(* object, two contents, three operation ids.                              *)
(***************************************************************************)
EXTENDS SpatialWriteFs

CONSTANTS svc, buildings, o1, o2, o3, x, y, f1, f2, f3, f4, a, b, absent

MCInitialFiles == [p \in Path |-> <<[id |-> x, val |-> a]>>]
MCEmpty == <<>>

Op(id, action, target, base, val) ==
    [id |-> id, path |-> buildings, action |-> action, target |-> target,
     payloadId |-> None, base |-> base, val |-> val]

\* Two revisions of x there and back, a create that leaves its id to the
\* bridge, the deletion of x, and a second content under an id in use.
MCRequest ==
    {Op(o1, "update", x, a, b),
     Op(o1, "delete", x, a, None),
     Op(o2, "update", x, b, a),
     Op(o3, "create", None, None, a),
     [Op(o3, "create", y, None, a) EXCEPT !.payloadId = y],
     [Op(o3, "update", x, a, a) EXCEPT !.payloadId = y],
     Op(o2, "create", x, None, b)}
=============================================================================
