-------------------------- MODULE MCSpatialWriteGit --------------------------
(***************************************************************************)
(* Small instances of SpatialWriteGit: one collection with one object, two *)
(* contents, and another clone that edits it or removes its file.          *)
(***************************************************************************)
EXTENDS SpatialWriteGit

CONSTANTS svc, buildings, o1, o2, x, y, f1, f2, f3, f4, a, b

MCEmpty == <<>>
MCInitialTree == [p \in Path |-> <<[id |-> x, val |-> a]>>]
MCForeignTree ==
    {[p \in Path |-> <<[id |-> x, val |-> b]>>],
     [p \in Path |-> Absent]}

Op(id, action, target, base_, val) ==
    [id |-> id, path |-> buildings, action |-> action, target |-> target,
     payloadId |-> None, base |-> base_, val |-> val]

MCRequest ==
    {Op(o1, "update", x, a, b),
     [Op(o1, "create", None, None, a) EXCEPT !.payloadId = y],
     Op(o2, "update", x, b, a),
     Op(o2, "delete", x, a, None)}

\* For the run about a single lost reply.
MCCreate == {Op(o1, "create", None, None, a), Op(o2, "delete", x, a, None)}
=============================================================================
