----------------------------- MODULE MCCuration -----------------------------
\* One upload, which may draw two artifact ids; two declarations of the same
\* content, the second of which has an empty file name and does not agree with
\* the reference; one candidate, whose payload is a new object with a reference
\* to the first artifact, or an update that names its object and has none;
\* another client and two collections.
EXTENDS Curation, TLC

CONSTANTS k1, k2, u1, a1, a2, d1, b1, c1, d2, p1, p2, m1, m2, x1, x2, w1, w2, v1, v2

MCPath == Artifact \X {"content", "metadata"}
MCDeclares == d1 :> b1 @@ d2 :> b1
MCGoal == p1 :> [path |-> m1, target |-> None, base |-> None]
       @@ p2 :> [path |-> m1, target |-> x2, base |-> v1]
MCNamed == p1 :> None @@ p2 :> x2
MCRefers == p1 :> a1 @@ p2 :> None
MCAgrees == p1 :> {d1} @@ p2 :> {}
MCCollections == <<m1, m2>>
MCHeld == m1 :> {[id |-> x2, val |-> v1]} @@ m2 :> {}
MCWrite ==
    {[id |-> w1, path |-> m2, action |-> "create", target |-> x1,
      payloadId |-> None, base |-> None, val |-> v1],
     [id |-> w2, path |-> m1, action |-> "update", target |-> x2,
      payloadId |-> None, base |-> v1, val |-> v2]}

Uploads == {"uploads"}
Candidates_ == {"candidates"}
Snapshots_ == {"snapshots", "writes"}
MCMixes == {Uploads, Candidates_, Snapshots_}
MCMaxRequests == Uploads :> 2 @@ Candidates_ :> 5 @@ Snapshots_ :> 2

MCSnapshots == {Snapshots_}
MCSnapshotRequests == Snapshots_ :> 1
=============================================================================
