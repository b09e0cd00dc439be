------------------------ MODULE ScanUploadGit_proofs -------------------------
(***************************************************************************)
(* Proofs about ScanUploadGit, for any scans, files, requests, faults and  *)
(* commits of other clones.                                                *)
(***************************************************************************)
EXTENDS ScanUploadGit, ScanUpload_proofs, WellFoundedInduction

-----------------------------------------------------------------------------
(***************************************************************************)
(* The invariant.                                                          *)
(***************************************************************************)
\* The scans whose marker is on the branch, and those a read may report: any,
\* once the checkout holds what is not on the branch.
Marked == {s \in Scan : Tip[MarkerPath(s)] # Absent}
Believed == IF CleanCheckout THEN Marked ELSE Scan

NothingOf(s, tree) == \A p \in Path : p[1] = s => tree[p] = Absent

AllOf(s, tree) ==
    /\ tree[MarkerPath(s)] # Absent
    /\ tree[ManifestPath(s)] = "manifest"
    /\ \A f \in File : /\ tree[FilePath(s, f)] \in FileContent
                       /\ NoStraggler => tree[FilePath(s, f)] = "whole"

TreeOK(tree) == \A s \in Scan : NothingOf(s, tree) \/ AllOf(s, tree)

RemoteOK ==
    /\ remote \in Seq([tag: Tag, tree: Tree])
    /\ base \in DOMAIN remote
    /\ \A i \in DOMAIN remote :
         /\ TreeOK(remote[i].tree)
         /\ remote[i].tag \in Marked \union {Foreign}
    /\ ScanCommittedOnce

\* Whether the checkout is between its refresh and the push of what it holds.
CheckoutOK ==
    /\ local \in Tree
    /\ untracked \subseteq Path
    /\ gateHolder \in Caller \union {NoCaller}
    /\ initialized \in BOOLEAN
    /\ CleanCheckout => untracked = {}
    /\ (CleanCheckout /\ gateHolder = NoCaller /\ initialized) =>
         \A s \in Scan : local[MarkerPath(s)] # Absent => s \in Marked

\* A commit that is to be pushed adds its scan to a tree that has nothing of it.
PushOK(k) ==
    /\ call[k].step \in {"push", "recover"} => gateHolder = k
    /\ call[k].step = "push" =>
         /\ NothingOf(call[k].tag, remote[base].tree)
         /\ CleanCheckout =>
              \A s \in Scan : local[MarkerPath(s)] # Absent =>
                s = call[k].tag \/ remote[base].tree[MarkerPath(s)] # Absent

IInv ==
    /\ ScanInv(Marked, Believed)
    /\ RemoteOK
    /\ CheckoutOK
    /\ \A k \in Caller : PushOK(k)

-----------------------------------------------------------------------------
(***************************************************************************)
(* Failures that leave the checkout dirty, and those that do not.          *)
(***************************************************************************)
LEMMA NoDirt ==
    ASSUME faults' = faults
    PROVE  CleanCheckout' <=> CleanCheckout
BY DEF CleanCheckout, Free

LEMMA Dirt ==
    ASSUME faults \in FaultHistory, NEW kind, Fault(kind)
    PROVE  /\ CleanCheckout' => CleanCheckout
           /\ kind \in {"worktree", "recover"} => ~CleanCheckout'
           /\ kind \notin {"worktree", "recover"} => (CleanCheckout' <=> CleanCheckout)
BY FaultFree DEF CleanCheckout

-----------------------------------------------------------------------------
(***************************************************************************)
(* Trees.                                                                  *)
(***************************************************************************)
LEMMA RemoteFields ==
    ASSUME RemoteOK
    PROVE  /\ Len(remote) \in Nat /\ Len(remote) >= 1
           /\ DOMAIN remote = 1..Len(remote) /\ base \in 1..Len(remote)
           /\ \A i \in 1..Len(remote) :
                /\ remote[i] \in [tag: Tag, tree: Tree]
                /\ remote[i].tag \in Tag /\ remote[i].tree \in Tree /\ TreeOK(remote[i].tree)
           /\ Tip \in Tree /\ TreeOK(Tip)
<1>1. Len(remote) \in Nat /\ DOMAIN remote = 1..Len(remote) /\ base \in 1..Len(remote)
  BY DEF RemoteOK
<1>2. Len(remote) >= 1
  BY <1>1
<1>3. \A i \in 1..Len(remote) : remote[i] \in [tag: Tag, tree: Tree]
  <2>1. PICK C : C = [tag: Tag, tree: Tree]
    OBVIOUS
  <2>2. remote \in Seq(C)
    BY <2>1 DEF RemoteOK
  <2>3. \A i \in 1..Len(remote) : remote[i] \in C
    BY <2>2
  <2> QED
    BY <2>1, <2>3
<1>4. \A i \in 1..Len(remote) : remote[i].tag \in Tag /\ remote[i].tree \in Tree
  BY <1>3
<1>5. \A i \in 1..Len(remote) : TreeOK(remote[i].tree)
  BY <1>1 DEF RemoteOK
<1>6. Len(remote) \in 1..Len(remote)
  BY <1>1, <1>2
<1> QED
  BY <1>1, <1>2, <1>3, <1>4, <1>5, <1>6 DEF Tip

\* Among the writes of a path there is a last one.
LEMMA Greatest ==
    ASSUME NEW n \in Nat, NEW T, T \subseteq 1..n, T # {}
    PROVE  \E i \in T : \A j \in T : j <= i
<1> DEFINE U == {n - i : i \in T}
<1>1. U \subseteq Nat /\ U # {}
  <2>1. \A i \in T : n - i \in Nat
    OBVIOUS
  <2>2. PICK i \in T : TRUE
    OBVIOUS
  <2>3. n - i \in U
    OBVIOUS
  <2> QED
    BY <2>1, <2>3
<1> HIDE DEF U
<1>2. \E x \in U : \A y \in U : ~(<<y, x>> \in OpToRel(<, Nat))
  BY <1>1, NatLessThanWellFounded, WFMin
<1>3. PICK x \in U : \A y \in U : ~(<<y, x>> \in OpToRel(<, Nat))
  BY <1>2
<1>4. \A y \in U : ~(y < x)
  BY <1>1, <1>3 DEF OpToRel
<1>5. PICK i \in T : x = n - i
  BY <1>3 DEF U
<1>6. \A j \in T : n - j \in U
  BY DEF U
<1> QED
  BY <1>4, <1>5, <1>6

\* A path holds what the last of its changes put there, or what it held.
LEMMA WrittenAt ==
    ASSUME NEW tree, NEW changes, Len(changes) \in Nat,
           DOMAIN changes = 1..Len(changes), NEW n, NEW p \in Path
    PROVE  \/ /\ \A i \in DOMAIN changes : i <= n => changes[i].path # p
              /\ Written(tree, changes, n)[p] = tree[p]
           \/ \E i \in DOMAIN changes : /\ i <= n /\ changes[i].path = p
                                        /\ Written(tree, changes, n)[p] = changes[i].content
<1>1. PICK writes : writes = {i \in DOMAIN changes : changes[i].path = p /\ i <= n}
  OBVIOUS
<1>2. Written(tree, changes, n)[p] =
        IF writes = {} THEN tree[p]
        ELSE changes[CHOOSE i \in writes : \A j \in writes : j <= i].content
  BY <1>1 DEF Written
<1>3. CASE writes = {}
  BY <1>1, <1>2, <1>3
<1>4. CASE writes # {}
  <2>1. \E i \in writes : \A j \in writes : j <= i
    BY <1>1, <1>4, Greatest
  <2>2. PICK i : i = CHOOSE last \in writes : \A j \in writes : j <= last
    OBVIOUS
  <2>3. i \in writes
    BY <2>1, <2>2
  <2>4. Written(tree, changes, n)[p] = changes[i].content
    BY <1>2, <1>4, <2>2
  <2> QED
    BY <1>1, <2>3, <2>4
<1> QED
  BY <1>3, <1>4

LEMMA WrittenTyped ==
    ASSUME NEW tree \in Tree, NEW changes \in Seq(Change(RepositoryContent)), NEW n
    PROVE  Written(tree, changes, n) \in Tree
<1>1. Len(changes) \in Nat /\ DOMAIN changes = 1..Len(changes)
  OBVIOUS
<1>2. \A i \in DOMAIN changes : changes[i].content \in RepositoryContent
  <2>1. \A i \in DOMAIN changes : changes[i] \in Change(RepositoryContent)
    OBVIOUS
  <2> QED
    BY <2>1 DEF Change
<1>3. ASSUME NEW p \in Path
      PROVE  Written(tree, changes, n)[p] \in RepositoryContent \union {Absent}
  BY <1>1, <1>2, <1>3, WrittenAt DEF Tree
<1>4. Written(tree, changes, n) = [p \in Path |-> Written(tree, changes, n)[p]]
  BY DEF Written
<1> QED
  BY <1>3, <1>4 DEF Tree

\* What commit() asks for: new files only, the scan's own, and all of them.
LEMMA CommitPaths ==
    ASSUME NEW k \in Caller, NEW s \in Scan, NEW got \in Collected,
           NEW changes, changes = CommitChanges(k, s, got)
    PROVE  /\ changes \in Seq(Change(RepositoryContent))
           /\ \A i \in DOMAIN changes :
                /\ changes[i].ifAbsent /\ changes[i].content \in RepositoryContent
                /\ \/ changes[i].path = ManifestPath(s) /\ changes[i].content = "manifest"
                   \/ changes[i].path = MarkerPath(s)
                   \/ \E f \in File : /\ changes[i].path = FilePath(s, f)
                                      /\ changes[i].content \in FileContent
                                      /\ Whole(got) => changes[i].content = "whole"
           /\ \A p \in Path : p[1] = s => \E i \in DOMAIN changes : changes[i].path = p
<1>1. PICK n : n = Len(FileSeq)
  OBVIOUS
<1>2. /\ n \in Nat /\ DOMAIN got = 1..n
      /\ \A i \in 1..n : FileSeq[i] \in File /\ got[i] \in FileContent
      /\ \A f \in File : \E i \in 1..n : f = FileSeq[i]
  BY <1>1, FilesOfSeq DEF Collected
<1>3. /\ changes \in Seq(Change(RepositoryContent)) /\ Len(changes) = n + 2
      /\ changes[1] = New(ManifestPath(s), "manifest")
      /\ \A i \in 1..n : changes[i + 1] = New(FilePath(s, FileSeq[i]), got[i])
      /\ changes[n + 2] = New(MarkerPath(s), k)
  BY <1>1, ChangesOfCommit
<1>4. DOMAIN changes = 1..(n + 2)
  BY <1>3
<1>5. ASSUME NEW i \in DOMAIN changes
      PROVE  /\ changes[i].ifAbsent /\ changes[i].content \in RepositoryContent
             /\ \/ changes[i].path = ManifestPath(s) /\ changes[i].content = "manifest"
                \/ changes[i].path = MarkerPath(s)
                \/ \E f \in File : /\ changes[i].path = FilePath(s, f)
                                   /\ changes[i].content \in FileContent
                                   /\ Whole(got) => changes[i].content = "whole"
  <2>1. CASE i = 1
    BY <1>3, <2>1 DEF New, RepositoryContent
  <2>2. CASE i = n + 2
    BY <1>3, <2>2 DEF New, RepositoryContent
  <2>3. CASE i # 1 /\ i # n + 2
    <3>1. i - 1 \in 1..n /\ i = (i - 1) + 1
      BY <1>2, <1>4, <2>3
    <3>2. PICK j \in 1..n : i = j + 1
      BY <3>1
    <3>3. changes[i] = New(FilePath(s, FileSeq[j]), got[j])
      BY <1>3, <3>2
    <3>4. FileSeq[j] \in File /\ got[j] \in FileContent /\ (Whole(got) => got[j] = "whole")
      BY <1>2 DEF Whole
    <3> QED
      BY <3>3, <3>4 DEF New, RepositoryContent
  <2> QED
    BY <2>1, <2>2, <2>3
<1>6. ASSUME NEW p \in Path, p[1] = s
      PROVE  \E i \in DOMAIN changes : changes[i].path = p
  <2>1. CASE p = ManifestPath(s)
    <3>1. changes[1].path = p /\ 1 \in DOMAIN changes
      BY <1>2, <1>3, <1>4, <2>1 DEF New
    <3> QED
      BY <3>1
  <2>2. CASE p = MarkerPath(s)
    <3>1. changes[n + 2].path = p /\ n + 2 \in DOMAIN changes
      BY <1>2, <1>3, <1>4, <2>2 DEF New
    <3> QED
      BY <3>1
  <2>3. CASE \E f \in File : p = FilePath(s, f)
    <3>1. PICK j \in 1..n : p = FilePath(s, FileSeq[j])
      BY <1>2, <2>3
    <3>2. changes[j + 1] = New(FilePath(s, FileSeq[j]), got[j])
      BY <1>3
    <3>3. changes[j + 1].path = p /\ j + 1 \in DOMAIN changes
      BY <1>2, <1>4, <3>1, <3>2 DEF New
    <3> QED
      BY <3>3
  <2> QED
    BY <1>6, <2>1, <2>2, <2>3, Paths
<1> QED
  BY <1>3, <1>5, <1>6

LEMMA PathParts ==
    ASSUME NEW s \in Scan
    PROVE  /\ MarkerPath(s)[1] = s /\ ManifestPath(s)[1] = s
           /\ \A f \in File : FilePath(s, f)[1] = s
BY DEF MarkerPath, ManifestPath, FilePath

\* The tree with a scan's commit on top.
LEMMA CommitOnTop ==
    ASSUME NEW k \in Caller, NEW s \in Scan, NEW got \in Collected,
           NEW changes, changes = CommitChanges(k, s, got), NEW tree \in Tree,
           NEW top, top = AllWritten(tree, changes)
    PROVE  /\ top \in Tree
           /\ \A p \in Path : p[1] # s => top[p] = tree[p]
           /\ top[MarkerPath(s)] # Absent
           /\ (NoStraggler => Whole(got)) => AllOf(s, top)
<1>1. /\ changes \in Seq(Change(RepositoryContent))
      /\ \A i \in DOMAIN changes :
           /\ changes[i].content \in RepositoryContent
           /\ \/ changes[i].path = ManifestPath(s) /\ changes[i].content = "manifest"
              \/ changes[i].path = MarkerPath(s)
              \/ \E f \in File : /\ changes[i].path = FilePath(s, f)
                                 /\ changes[i].content \in FileContent
                                 /\ Whole(got) => changes[i].content = "whole"
      /\ \A p \in Path : p[1] = s => \E i \in DOMAIN changes : changes[i].path = p
  BY CommitPaths
<1>2. top = Written(tree, changes, Len(changes)) /\ Len(changes) \in Nat
      /\ DOMAIN changes = 1..Len(changes)
  BY <1>1 DEF AllWritten
<1>3. top \in Tree
  BY <1>1, <1>2, WrittenTyped
<1>4. \A i \in DOMAIN changes : i <= Len(changes)
  BY <1>2
<1>5. ASSUME NEW p \in Path, p[1] # s
      PROVE  top[p] = tree[p]
  <2>1. \A i \in DOMAIN changes : changes[i].path[1] = s
    BY <1>1, PathParts
  <2> QED
    BY <1>2, <1>5, <2>1, WrittenAt
<1>6. ASSUME NEW p \in Path, p[1] = s
      PROVE  \E i \in DOMAIN changes : changes[i].path = p /\ top[p] = changes[i].content
  <2>1. PICK i \in DOMAIN changes : changes[i].path = p
    BY <1>1, <1>6
  <2>2. PICK n : n = Len(changes)
    OBVIOUS
  <2>3. \/ /\ \A j \in DOMAIN changes : j <= n => changes[j].path # p
           /\ Written(tree, changes, n)[p] = tree[p]
        \/ \E j \in DOMAIN changes : /\ j <= n /\ changes[j].path = p
                                      /\ Written(tree, changes, n)[p] = changes[j].content
    BY <1>2, WrittenAt
  <2>4. top[p] = Written(tree, changes, n)[p]
    BY <1>2, <2>2
  <2> QED
    BY <1>4, <2>1, <2>2, <2>3, <2>4
<1>7. top[MarkerPath(s)] # Absent
  <2>1. PICK i \in DOMAIN changes : top[MarkerPath(s)] = changes[i].content
    BY <1>6, Paths, PathParts
  <2> QED
    BY <1>1, <2>1, AbsentAssumption
<1>8. top[ManifestPath(s)] = "manifest"
  <2>1. PICK i \in DOMAIN changes :
          changes[i].path = ManifestPath(s) /\ top[ManifestPath(s)] = changes[i].content
    BY <1>6, Paths, PathParts
  <2> QED
    BY <1>1, <2>1, PathsDiffer
<1>9. ASSUME NoStraggler => Whole(got), NEW f \in File
      PROVE  /\ top[FilePath(s, f)] \in FileContent
             /\ NoStraggler => top[FilePath(s, f)] = "whole"
  <2>1. PICK i \in DOMAIN changes :
          changes[i].path = FilePath(s, f) /\ top[FilePath(s, f)] = changes[i].content
    BY <1>6, Paths, PathParts
  <2>2. changes[i].content \in FileContent /\ (Whole(got) => changes[i].content = "whole")
    BY <1>1, <2>1, PathsDiffer
  <2> QED
    BY <1>9, <2>1, <2>2
<1> QED
  BY <1>3, <1>5, <1>7, <1>8, <1>9 DEF AllOf

LEMMA TreeOnTop ==
    ASSUME NEW s \in Scan, NEW tree, TreeOK(tree), NEW top, AllOf(s, top),
           \A p \in Path : p[1] # s => top[p] = tree[p]
    PROVE  TreeOK(top)
<1> SUFFICES ASSUME NEW t \in Scan, t # s
             PROVE  NothingOf(t, top) \/ AllOf(t, top)
  BY DEF TreeOK
<1>1. /\ \A p \in Path : p[1] = t => top[p] = tree[p]
      /\ top[MarkerPath(t)] = tree[MarkerPath(t)]
      /\ top[ManifestPath(t)] = tree[ManifestPath(t)]
      /\ \A f \in File : top[FilePath(t, f)] = tree[FilePath(t, f)]
  BY Paths, PathParts
<1>2. CASE NothingOf(t, tree)
  BY <1>1, <1>2 DEF NothingOf
<1>3. CASE AllOf(t, tree)
  BY <1>1, <1>3 DEF AllOf
<1> QED
  BY <1>2, <1>3 DEF TreeOK

\* Where the preconditions of a commit hold, the branch has nothing of its scan.
LEMMA NothingYet ==
    ASSUME NEW k \in Caller, NEW s \in Scan, NEW got \in Collected,
           PreconditionsHold(CommitChanges(k, s, got), CheckedTree)
    PROVE  NothingOf(s, Tip)
<1>1. PICK changes : changes = CommitChanges(k, s, got)
  OBVIOUS
<1>2. ASSUME NEW p \in Path, p[1] = s
      PROVE  Tip[p] = Absent
  <2>1. PICK i \in DOMAIN changes : changes[i].path = p /\ changes[i].ifAbsent
    BY <1>1, <1>2, CommitPaths
  <2>2. Fetched[p] = Absent
    BY <1>1, <2>1 DEF PreconditionsHold, PreconditionHolds, CheckedTree
  <2> QED
    BY <2>2 DEF Fetched
<1> QED
  BY <1>2 DEF NothingOf

-----------------------------------------------------------------------------
(***************************************************************************)
(* Frame lemmas.                                                           *)
(***************************************************************************)
LEMMA TreeStays ==
    ASSUME NEW tree, TreeOK(tree), NoStraggler' => NoStraggler
    PROVE  TreeOK(tree)'
BY DEF TreeOK, NothingOf, AllOf

LEMMA RemoteStays ==
    ASSUME RemoteOK, remote' = remote, base' \in DOMAIN remote,
           NoStraggler' => NoStraggler
    PROVE  RemoteOK' /\ Marked' = Marked /\ Tip' = Tip
<1>1. Tip' = Tip
  BY DEF Tip
<1>2. Marked' = Marked
  BY <1>1 DEF Marked
<1>3. ASSUME NEW i \in DOMAIN remote
      PROVE  TreeOK(remote[i].tree)'
  <2>1. PICK tree : tree = remote[i].tree
    OBVIOUS
  <2>2. TreeOK(tree)
    BY <2>1 DEF RemoteOK
  <2>3. TreeOK(tree)'
    BY <2>2, TreeStays
  <2> QED
    BY <2>1, <2>3
<1>4. ScanCommittedOnce'
  BY DEF RemoteOK, ScanCommittedOnce
<1> QED
  BY <1>1, <1>2, <1>3, <1>4 DEF RemoteOK

\* What a read may report grows.
LEMMA BelievedGrows ==
    ASSUME Marked \subseteq Marked', CleanCheckout' => CleanCheckout
    PROVE  Believed \subseteq Believed' /\ Marked' \subseteq Believed'
BY DEF Believed, Marked

LEMMA PushStays ==
    ASSUME NEW k \in Caller, PushOK(k), call'[k] = call[k], gateHolder' = gateHolder,
           base' = base, remote' = remote, local' = local,
           CleanCheckout' => CleanCheckout
    PROVE  PushOK(k)'
BY DEF PushOK, NothingOf

\* Who does not push has nothing to lose.
LEMMA PushesNothing ==
    ASSUME NEW k \in Caller, call'[k].step \notin {"push", "recover"}
    PROVE  PushOK(k)'
BY DEF PushOK

LEMMA GateFree ==
    ASSUME IInv, gateHolder = NoCaller, NEW k \in Caller
    PROVE  call[k].step \notin {"push", "recover"}
BY NoCallerAssumption DEF IInv, PushOK

-----------------------------------------------------------------------------
(***************************************************************************)
(* Steps of the service and of the headset.                                *)
(***************************************************************************)
LEMMA ScanKeeps ==
    ASSUME IInv, ScanStep, UNCHANGED gitVars
    PROVE  IInv'
<1>1. PICK M, B : M = Marked /\ B = Believed
  OBVIOUS
<1>2. ScanInv(M, B)
  BY <1>1 DEF IInv
<1>3. /\ remote' = remote /\ local' = local /\ untracked' = untracked /\ base' = base
      /\ gateHolder' = gateHolder /\ initialized' = initialized
  BY DEF gitVars
<1>4. CleanCheckout' <=> CleanCheckout
  <2>1. faults \in FaultHistory
    BY <1>2, TypesFields DEF ScanInv
  <2>2. CASE faults' = faults
    BY <2>2, NoDirt
  <2>3. CASE \E kind \in {"fileTimeout", "timeout", "cleanup", "crash"} : Fault(kind)
    BY <2>1, <2>3, Dirt
  <2> QED
    BY <2>2, <2>3, ScanFaultKind
<1>5. NoStraggler' => NoStraggler
  BY <1>2, ScanFaults DEF FaultsGoOn, NoStraggler
<1>6. RemoteOK' /\ Marked' = Marked
  BY <1>3, <1>5, RemoteStays DEF IInv, RemoteOK
<1>7. Believed' = B
  BY <1>1, <1>4, <1>6 DEF Believed
<1>8. ScanInv(M, B)'
  BY <1>2, ScanStepKeeps
<1>9. CheckoutOK'
  BY <1>3, <1>4, <1>6 DEF IInv, CheckoutOK
<1>10. ASSUME NEW k \in Caller
       PROVE  PushOK(k)'
  <2>1. \/ call'[k] = call[k]
        \/ call'[k].step \in {"idle", "read"}
        \/ call'[k].step = "commit" /\ call'[k].done = 0
    BY <1>2, ScanCalls
  <2>2. CASE call'[k] = call[k]
    BY <1>3, <1>4, <2>2, PushStays DEF IInv
  <2>3. CASE call'[k].step \in {"idle", "read", "commit"}
    BY <2>3, PushesNothing
  <2> QED
    BY <2>1, <2>2, <2>3
<1> QED
  BY <1>1, <1>6, <1>7, <1>8, <1>9, <1>10 DEF IInv

LEMMA CrashKeeps ==
    ASSUME IInv, ScanCrash, GitRestart
    PROVE  IInv'
<1>1. PICK M, B : M = Marked /\ B = Believed
  OBVIOUS
<1>2. ScanInv(M, B)
  BY <1>1 DEF IInv
<1>3. /\ remote' = remote /\ local' = local /\ untracked' = untracked /\ base' = base
      /\ gateHolder' = NoCaller /\ initialized' = FALSE
  BY DEF GitRestart
<1>4. faults \in FaultHistory /\ Fault("crash")
  BY <1>2, TypesFields DEF ScanInv, ScanCrash
<1>5. CleanCheckout' <=> CleanCheckout
  BY <1>4, Dirt
<1>6. NoStraggler' => NoStraggler
  BY <1>2, ScanFaults DEF FaultsGoOn, NoStraggler
<1>7. RemoteOK' /\ Marked' = Marked
  BY <1>3, <1>6, RemoteStays DEF IInv, RemoteOK
<1>8. Believed' = B
  BY <1>1, <1>5, <1>7 DEF Believed
<1>9. ScanInv(M, B)'
  BY <1>2, ScanCrashKeeps
<1>10. CheckoutOK'
  BY <1>3, <1>5 DEF IInv, CheckoutOK
<1>11. \A k \in Caller : PushOK(k)'
  <2>1. \A k \in Caller : call'[k].step = "idle"
    BY CallShapes DEF ScanCrash
  <2> QED
    BY <2>1, PushesNothing
<1> QED
  BY <1>1, <1>7, <1>8, <1>9, <1>10, <1>11 DEF IInv

-----------------------------------------------------------------------------
(***************************************************************************)
(* Steps of the provider.                                                  *)
(***************************************************************************)
\* The checkout after a refresh.
LEMMA Refreshed ==
    ASSUME RemoteOK, CheckoutOK, Reset
    PROVE  /\ local' = Fetched /\ local' \in Tree /\ untracked' \subseteq Path
           /\ base' = Len(remote) /\ base' \in DOMAIN remote
           /\ CleanCheckout => untracked' = {} /\ \A p \in Path : Fetched[p] = Tip[p]
<1>1. Tip \in Tree /\ Len(remote) \in DOMAIN remote
  BY RemoteFields
<1>2. Fetched \in Tree
  BY <1>1 DEF Fetched, Tree, CheckoutOK
<1>3. CleanCheckout => untracked' = {} /\ \A p \in Path : Fetched[p] = Tip[p]
  BY DEF CheckoutOK, Reset, Fetched
<1> QED
  BY <1>1, <1>2, <1>3 DEF Reset, CheckoutOK

LEMMA RefreshKeeps ==
    ASSUME RemoteOK, CheckoutOK, Reset, UNCHANGED remote, Marked' = Marked,
           CleanCheckout' => CleanCheckout,
           gateHolder' \in Caller \union {NoCaller}, initialized' \in BOOLEAN
    PROVE  CheckoutOK'
<1>1. /\ local' = Fetched /\ local' \in Tree /\ untracked' \subseteq Path
      /\ CleanCheckout => untracked' = {} /\ \A p \in Path : Fetched[p] = Tip[p]
  BY Refreshed
<1>2. CleanCheckout' => \A s \in Scan : local'[MarkerPath(s)] # Absent => s \in Marked'
  BY <1>1, Paths DEF Marked
<1> QED
  BY <1>1, <1>2 DEF CheckoutOK

\* Any step of the provider for request k.
LEMMA ProviderMoves ==
    ASSUME IInv, UNCHANGED scanVars, FaultsGoOn, CleanCheckout' => CleanCheckout,
           NEW k \in Caller, NEW c \in CallState(RepositoryContent),
           call' = [call EXCEPT ![k] = c],
           Marked \subseteq Marked',
           NEW N, NEW C, N = Marked', C = Believed', CallOK(k, N, C)',
           RemoteOK', CheckoutOK', PushOK(k)',
           \A j \in Caller \ {k} : call[j].step \notin {"push", "recover"}
    PROVE  IInv'
<1>1. PICK M, B : M = Marked /\ B = Believed
  OBVIOUS
<1>2. ScanInv(M, B)
  BY <1>1 DEF IInv
<1>3. M \subseteq N /\ B \subseteq C /\ N \subseteq C
  BY <1>1, BelievedGrows
<1>4. call \in [Caller -> CallState(RepositoryContent)]
  BY <1>2, TypesFields DEF ScanInv
<1>5. /\ call' \in [Caller -> CallState(RepositoryContent)]
      /\ \A j \in Caller \ {k} : call'[j] = call[j]
  BY <1>4
<1>6. ScanInv(N, C)'
  BY <1>2, <1>3, <1>5, ProviderKeeps
<1>7. \A j \in Caller : PushOK(j)'
  BY <1>5, PushesNothing
<1> QED
  BY <1>6, <1>7 DEF IInv

\* What is known where the provider reads a marker.
LEMMA ReadReported ==
    ASSUME IInv, UNCHANGED scanVars, NEW k \in Caller, call[k].step = "read",
           gateHolder = NoCaller, UNCHANGED <<remote, gateHolder, faults>>,
           NEW content \in RepositoryContent \union {Absent},
           CleanCheckout => (content # Absent => req[k].scan \in Marked),
           ReplyData(k, content), CheckoutOK', base' \in DOMAIN remote
    PROVE  IInv'
<1>1. PICK M, B : M = Marked /\ B = Believed
  OBVIOUS
<1>2. ScanInv(M, B)
  BY <1>1 DEF IInv
<1>3. /\ call \in [Caller -> CallState(RepositoryContent)] /\ faults \in FaultHistory
      /\ req' = req
  BY <1>2, TypesFields DEF ScanInv, scanVars
<1>4. /\ req[k].pc \in {"manifest", "marker"} /\ req[k].scan \in Scan
  BY <1>2, MarkerRead
<1>5. FaultsGoOn /\ (NoStraggler' => NoStraggler) /\ (CleanCheckout' <=> CleanCheckout)
  BY <1>3, NoFault, NoDirt
<1>6. PICK c : c = [step |-> "data", content |-> content]
  OBVIOUS
<1>7. c \in CallState(RepositoryContent) /\ c.step = "data" /\ c.content = content
  BY <1>6, CallShapes
<1>8. call' = [call EXCEPT ![k] = c] /\ call'[k] = c
  BY <1>3, <1>6 DEF ReplyData
<1>9. RemoteOK' /\ Marked' = M
  BY <1>1, <1>5, RemoteStays DEF IInv
<1>10. Believed' = B
  BY <1>1, <1>5, <1>9 DEF Believed
<1>11. content # Absent => req[k].scan \in B
  BY <1>1, <1>4 DEF Believed
<1>12. CallOK(k, M, B)'
  BY <1>3, <1>4, <1>7, <1>8, <1>11 DEF CallOK
<1>13. PushOK(k)'
  BY <1>7, <1>8, PushesNothing
<1> QED
  BY <1>1, <1>5, <1>7, <1>8, <1>9, <1>10, <1>12, <1>13, GateFree, ProviderMoves

\* A refusal or a failure reported for request k.
LEMMA Refused ==
    ASSUME IInv, UNCHANGED scanVars, FaultsGoOn, CleanCheckout' => CleanCheckout,
           NEW k \in Caller, NEW step,
           \/ step = "failed" /\ req[k].pc \in {"manifest", "marker", "commit"}
           \/ step = "conflict" /\ req[k].pc = "commit",
           Reply(k, step), UNCHANGED remote, base' \in DOMAIN remote, CheckoutOK',
           \A j \in Caller \ {k} : call[j].step \notin {"push", "recover"}
    PROVE  IInv'
<1>1. PICK N, C : N = Marked' /\ C = Believed'
  OBVIOUS
<1>2. /\ call \in [Caller -> CallState(RepositoryContent)] /\ req' = req
  BY DEF IInv, ScanInv, TypesOK, scanVars
<1>3. NoStraggler' => NoStraggler
  BY DEF FaultsGoOn, NoStraggler
<1>4. RemoteOK' /\ Marked' = Marked
  BY <1>3, RemoteStays DEF IInv
<1>5. PICK c : c = [step |-> step]
  OBVIOUS
<1>6. c \in CallState(RepositoryContent) /\ c.step = step
  BY <1>5, CallShapes
<1>7. call' = [call EXCEPT ![k] = c] /\ call'[k] = c
  BY <1>2, <1>5 DEF Reply
<1>8. CallOK(k, N, C)'
  BY <1>2, <1>6, <1>7 DEF CallOK, CommitSteps
<1>9. PushOK(k)'
  BY <1>6, <1>7, PushesNothing
<1> QED
  BY <1>1, <1>4, <1>6, <1>7, <1>8, <1>9, ProviderMoves

LEMMA GitReadKeeps ==
    ASSUME IInv, NEW k \in Caller, GitRead(k), UNCHANGED scanVars
    PROVE  IInv'
<1>1. PICK M, B : M = Marked /\ B = Believed
  OBVIOUS
<1>2. /\ ScanInv(M, B) /\ RemoteOK /\ CheckoutOK
      /\ call[k].step = "read" /\ gateHolder = NoCaller
      /\ remote' = remote /\ gateHolder' = gateHolder
  BY <1>1 DEF IInv, GitRead, GitReadFetched
<1>3. faults \in FaultHistory
  BY <1>2, TypesFields DEF ScanInv
<1>4. PICK s : s = req[k].scan
  OBVIOUS
<1>5. /\ req[k].pc \in {"manifest", "marker"} /\ s \in Scan
      /\ call[k].path = MarkerPath(s) /\ MarkerPath(s) \in Path
  BY <1>2, <1>4, MarkerRead, Paths
<1>6. CASE Refresh /\ ReplyData(k, Fetched[call[k].path]) /\ UNCHANGED faults
  <2>1. PICK content : content = Fetched[MarkerPath(s)]
    OBVIOUS
  <2>2. /\ Reset /\ initialized' = TRUE
        /\ ReplyData(k, content)
    BY <1>5, <1>6, <2>1 DEF Refresh
  <2>3. /\ local' = Fetched /\ local' \in Tree /\ base' \in DOMAIN remote
        /\ CleanCheckout => \A p \in Path : Fetched[p] = Tip[p]
    BY <1>2, <2>2, Refreshed
  <2>4. content \in RepositoryContent \union {Absent}
    BY <1>5, <2>1, <2>3 DEF Tree
  <2>5. CleanCheckout => (content # Absent => s \in Marked)
    BY <1>5, <2>1, <2>3 DEF Marked
  <2>6. Marked' = Marked
    BY <1>2 DEF Marked, Tip
  <2>7. CleanCheckout' <=> CleanCheckout
    BY <1>6, NoDirt
  <2>8. CheckoutOK'
    BY <1>2, <2>2, <2>6, <2>7, RefreshKeeps DEF CheckoutOK
  <2> QED
    BY <1>2, <1>4, <1>6, <2>2, <2>3, <2>4, <2>5, <2>8, ReadReported
<1>7. CASE /\ initialized /\ ReplyData(k, local[call[k].path])
           /\ UNCHANGED <<faults, checkout>>
  <2>1. PICK content : content = local[MarkerPath(s)]
    OBVIOUS
  <2>2. ReplyData(k, content)
    BY <1>5, <1>7, <2>1
  <2>3. /\ local' = local /\ untracked' = untracked /\ base' = base
        /\ initialized' = initialized
    BY <1>7 DEF checkout
  <2>4. content \in RepositoryContent \union {Absent}
    BY <1>2, <1>5, <2>1 DEF CheckoutOK, Tree
  <2>5. CleanCheckout => (content # Absent => s \in Marked)
    BY <1>2, <1>5, <1>7, <2>1 DEF CheckoutOK
  <2>6. Marked' = Marked
    BY <1>2 DEF Marked, Tip
  <2>7. CleanCheckout' <=> CleanCheckout
    BY <1>7, NoDirt
  <2>8. CheckoutOK'
    BY <1>2, <2>3, <2>6, <2>7 DEF CheckoutOK
  <2>9. base' \in DOMAIN remote
    BY <1>2, <2>3 DEF RemoteOK
  <2> QED
    BY <1>2, <1>4, <1>7, <2>2, <2>4, <2>5, <2>8, <2>9, ReadReported
<1>8. CASE Fault("read") /\ Reply(k, "failed") /\ UNCHANGED checkout
  <2>1. FaultsGoOn /\ (CleanCheckout' <=> CleanCheckout)
    BY <1>3, <1>8, FaultTyped, Dirt
  <2>2. /\ local' = local /\ untracked' = untracked /\ base' = base
        /\ initialized' = initialized
    BY <1>8 DEF checkout
  <2>3. Marked' = Marked
    BY <1>2 DEF Marked, Tip
  <2>4. CheckoutOK'
    BY <1>2, <2>1, <2>2, <2>3 DEF CheckoutOK
  <2>5. base' \in DOMAIN remote
    BY <1>2, <2>2 DEF RemoteOK
  <2> QED
    BY <1>2, <1>5, <1>8, <2>1, <2>4, <2>5, GateFree, Refused
<1> QED
  BY <1>6, <1>7, <1>8 DEF GitRead, GitReadFetched

-----------------------------------------------------------------------------
(***************************************************************************)
(* The branch gets a commit.                                               *)
(***************************************************************************)
LEMMA BranchGrows ==
    ASSUME RemoteOK, NEW t, NEW top \in Tree, TreeOK(top),
           remote' = Append(remote, [tag |-> t, tree |-> top]), base' = base,
           NoStraggler' => NoStraggler,
           \A s \in Scan : Tip[MarkerPath(s)] # Absent => top[MarkerPath(s)] # Absent,
           \/ t = Foreign
           \/ t \in Scan /\ Tip[MarkerPath(t)] = Absent /\ top[MarkerPath(t)] # Absent
    PROVE  /\ RemoteOK' /\ Tip' = top /\ Marked \subseteq Marked'
           /\ base' \in DOMAIN remote' /\ remote'[base] = remote[base]
<1>1. PICK n : n = Len(remote)
  OBVIOUS
<1>2. /\ n \in Nat /\ n >= 1 /\ DOMAIN remote = 1..n /\ base \in 1..n
      /\ \A i \in 1..n : TreeOK(remote[i].tree)
  BY <1>1, RemoteFields
<1>3. PICK C : C = [tag: Tag, tree: Tree]
  OBVIOUS
<1>4. PICK new : new = [tag |-> t, tree |-> top]
  OBVIOUS
<1>5. t \in Tag
  BY ScanAssumption, TagsAssumption
<1>6. new \in C /\ new.tag = t /\ new.tree = top
  BY <1>3, <1>4, <1>5
<1>7. remote \in Seq(C)
  BY <1>3 DEF RemoteOK
<1>8. /\ remote' \in Seq(C) /\ Len(remote') = n + 1 /\ DOMAIN remote' = 1..(n + 1)
      /\ remote'[n + 1] = new
      /\ \A i \in 1..n : remote'[i] = remote[i]
  BY <1>1, <1>2, <1>4, <1>6, <1>7, AppendProperties
<1>9. Tip' = top
  BY <1>6, <1>8 DEF Tip
<1>10. Marked \subseteq Marked'
  BY <1>9 DEF Marked
<1>11. t \in Marked' \union {Foreign}
  BY <1>9 DEF Marked
<1>12. ASSUME NEW i \in 1..(n + 1)
       PROVE  TreeOK(remote[i].tree)' /\ remote'[i].tag \in Marked' \union {Foreign}
  <2>1. CASE i = n + 1
    <3>1. TreeOK(top)'
      BY TreeStays
    <3> QED
      BY <1>6, <1>8, <1>11, <2>1, <3>1
  <2>2. CASE i \in 1..n
    <3>1. PICK tree : tree = remote[i].tree
      OBVIOUS
    <3>2. TreeOK(tree)'
      BY <1>2, <2>2, <3>1, TreeStays
    <3>3. remote[i].tag \in Marked \union {Foreign}
      BY <1>2, <2>2 DEF RemoteOK
    <3> QED
      BY <1>8, <1>10, <2>2, <3>1, <3>2, <3>3
  <2> QED
    BY <1>2, <2>1, <2>2
<1>13. \A i \in 1..n : remote[i].tag # t \/ t = Foreign
  <2>1. \A i \in 1..n : remote[i].tag \in Marked \union {Foreign}
    BY <1>2 DEF RemoteOK
  <2>2. t # Foreign => t \notin Marked \union {Foreign}
    BY DEF Marked
  <2> QED
    BY <2>1, <2>2
<1>14. ScanCommittedOnce'
  <2>1. ASSUME NEW i \in 1..(n + 1), NEW j \in 1..(n + 1),
               remote'[i].tag = remote'[j].tag, remote'[i].tag # Foreign
        PROVE  i = j
    <3>1. CASE i \in 1..n /\ j \in 1..n
      <4>1. remote[i].tag = remote[j].tag /\ remote[i].tag # Foreign
        BY <1>8, <2>1, <3>1
      <4> QED
        BY <1>2, <3>1, <4>1 DEF RemoteOK, ScanCommittedOnce
    <3>2. CASE i = n + 1 /\ j \in 1..n
      BY <1>6, <1>8, <1>13, <2>1, <3>2
    <3>3. CASE i \in 1..n /\ j = n + 1
      BY <1>6, <1>8, <1>13, <2>1, <3>3
    <3> QED
      BY <1>2, <3>1, <3>2, <3>3
  <2> QED
    BY <1>8, <2>1 DEF ScanCommittedOnce
<1>15. base' \in DOMAIN remote' /\ remote'[base] = remote[base]
  BY <1>2, <1>8
<1>16. RemoteOK'
  BY <1>3, <1>8, <1>12, <1>14, <1>15 DEF RemoteOK
<1> QED
  BY <1>9, <1>10, <1>15, <1>16

LEMMA ForeignPushKeeps ==
    ASSUME IInv, ForeignPush(Tip), UNCHANGED scanVars
    PROVE  IInv'
<1>1. PICK M, B : M = Marked /\ B = Believed
  OBVIOUS
<1>2. ScanInv(M, B) /\ RemoteOK /\ CheckoutOK
  BY <1>1 DEF IInv
<1>3. PICK tip : tip = Tip
  OBVIOUS
<1>4. /\ remote' = Append(remote, [tag |-> Foreign, tree |-> tip])
      /\ local' = local /\ untracked' = untracked /\ base' = base
      /\ gateHolder' = gateHolder /\ initialized' = initialized
      /\ call' = call /\ faults' = faults
  BY <1>3 DEF ForeignPush, checkout
<1>5. (NoStraggler' => NoStraggler) /\ (CleanCheckout' <=> CleanCheckout)
  <2>1. faults \in FaultHistory
    BY <1>2, TypesFields DEF ScanInv
  <2> QED
    BY <1>4, <2>1, NoFault, NoDirt
<1>6. tip \in Tree /\ TreeOK(tip)
  BY <1>2, <1>3, RemoteFields
<1>7. RemoteOK' /\ Tip' = tip /\ remote'[base] = remote[base]
  BY <1>2, <1>3, <1>4, <1>5, <1>6, BranchGrows
<1>8. Marked' = M
  BY <1>1, <1>3, <1>7 DEF Marked
<1>9. Believed' = B
  BY <1>1, <1>5, <1>8 DEF Believed
<1>10. ScanInv(M, B)'
  BY <1>2, <1>4, ScanStutters
<1>11. CheckoutOK'
  BY <1>1, <1>2, <1>4, <1>5, <1>8 DEF CheckoutOK
<1>12. ASSUME NEW k \in Caller
       PROVE  PushOK(k)'
  <2>1. PushOK(k)
    BY DEF IInv
  <2> QED
    BY <1>4, <1>5, <1>7, <2>1 DEF PushOK, NothingOf
<1> QED
  BY <1>1, <1>7, <1>8, <1>9, <1>10, <1>11, <1>12 DEF IInv

\* Another service makes the provider refresh the checkout.
LEMMA RefreshForOthersKeeps ==
    ASSUME IInv, GitRefreshForOthers, UNCHANGED scanVars
    PROVE  IInv'
<1>1. PICK M, B : M = Marked /\ B = Believed
  OBVIOUS
<1>2. /\ ScanInv(M, B) /\ RemoteOK /\ CheckoutOK
      /\ gateHolder = NoCaller /\ Reset /\ initialized' = TRUE
      /\ remote' = remote /\ gateHolder' = gateHolder /\ call' = call /\ faults' = faults
  BY <1>1 DEF IInv, GitRefreshForOthers, Refresh
<1>3. (NoStraggler' => NoStraggler) /\ (CleanCheckout' <=> CleanCheckout)
  <2>1. faults \in FaultHistory
    BY <1>2, TypesFields DEF ScanInv
  <2> QED
    BY <1>2, <2>1, NoFault, NoDirt
<1>4. base' \in DOMAIN remote
  BY <1>2, Refreshed
<1>5. RemoteOK' /\ Marked' = M
  BY <1>1, <1>2, <1>3, <1>4, RemoteStays
<1>6. Believed' = B
  BY <1>1, <1>3, <1>5 DEF Believed
<1>7. ScanInv(M, B)'
  BY <1>2, ScanStutters
<1>8. CheckoutOK'
  <2>1. gateHolder' \in Caller \union {NoCaller} /\ initialized' \in BOOLEAN
    BY <1>2 DEF CheckoutOK
  <2> QED
    BY <1>1, <1>2, <1>3, <1>5, <2>1, RefreshKeeps
<1>9. \A k \in Caller : PushOK(k)'
  BY <1>2, GateFree, PushesNothing
<1> QED
  BY <1>1, <1>5, <1>6, <1>7, <1>8, <1>9 DEF IInv

LEMMA Stutters ==
    ASSUME IInv, UNCHANGED vars
    PROVE  IInv'
<1>1. PICK M, B : M = Marked /\ B = Believed
  OBVIOUS
<1>2. /\ ScanInv(M, B) /\ RemoteOK /\ CheckoutOK
      /\ remote' = remote /\ local' = local /\ untracked' = untracked /\ base' = base
      /\ gateHolder' = gateHolder /\ initialized' = initialized
      /\ call' = call /\ faults' = faults /\ scanVars' = scanVars
  BY <1>1 DEF IInv, vars, gitVars
<1>3. (NoStraggler' => NoStraggler) /\ (CleanCheckout' <=> CleanCheckout)
  <2>1. faults \in FaultHistory
    BY <1>2, TypesFields DEF ScanInv
  <2> QED
    BY <1>2, <2>1, NoFault, NoDirt
<1>4. RemoteOK' /\ Marked' = M
  BY <1>1, <1>2, <1>3, RemoteStays DEF RemoteOK
<1>5. Believed' = B
  BY <1>1, <1>3, <1>4 DEF Believed
<1>6. ScanInv(M, B)'
  BY <1>2, ScanStutters
<1>7. CheckoutOK'
  BY <1>1, <1>2, <1>3, <1>4 DEF CheckoutOK
<1>8. ASSUME NEW k \in Caller
      PROVE  PushOK(k)'
  BY <1>2, <1>3, PushStays DEF IInv
<1> QED
  BY <1>1, <1>4, <1>5, <1>6, <1>7, <1>8 DEF IInv

-----------------------------------------------------------------------------
(***************************************************************************)
(* The push and the recovery of request k, which holds the gate.           *)
(***************************************************************************)
LEMMA OthersWait ==
    ASSUME IInv, NEW k \in Caller, gateHolder \in {k, NoCaller}
    PROVE  \A j \in Caller \ {k} : call[j].step \notin {"push", "recover"}
BY NoCallerAssumption DEF IInv, PushOK

LEMMA Advances ==
    ASSUME NEW M, NEW B, ScanInv(M, B), NEW k \in Caller, call[k].step \in CommitSteps,
           NEW step \in {"push", "recover"}, Advance(k, step)
    PROVE  \E c \in CallState(RepositoryContent) :
             /\ call' = [call EXCEPT ![k] = c] /\ call'[k] = c
             /\ c.step = step /\ c.tag = call[k].tag /\ c.changes = call[k].changes
<1>1. call \in [Caller -> CallState(RepositoryContent)]
  BY TypesFields DEF ScanInv
<1>2. call[k].changes \in Seq(Change(RepositoryContent)) /\ call[k].tag \in Tag
      /\ call[k].done \in Nat
  BY <1>1, CallFields
<1>3. PICK c : c = [step |-> step, tag |-> call[k].tag,
                    changes |-> call[k].changes, done |-> call[k].done]
  OBVIOUS
<1>4. c \in [step: {"commit", "staged", "renaming", "push", "recover"},
             changes: Seq(Change(RepositoryContent)), tag: Tag, done: Nat]
  BY <1>2, <1>3
<1>5. c \in CallState(RepositoryContent)
  BY <1>4 DEF CallState
<1>6. call' = [call EXCEPT ![k] = c]
  BY <1>3 DEF Advance
<1>7. call'[k] = c
  BY <1>1, <1>6
<1> QED
  BY <1>3, <1>5, <1>6, <1>7

\* The commit of request k goes on to its push, or from there to the recovery.
LEMMA GoesOn ==
    ASSUME IInv, UNCHANGED scanVars, FaultsGoOn, CleanCheckout' => CleanCheckout,
           NEW k \in Caller, call[k].step \in CommitSteps,
           NEW step \in {"push", "recover"}, Advance(k, step),
           Marked \subseteq Marked',
           NEW got \in Collected,
           call[k].changes = CommitChanges(k, req[k].scan, got),
           NoStraggler => Whole(got),
           RemoteOK', CheckoutOK', PushOK(k)', gateHolder \in {k, NoCaller}
    PROVE  IInv'
<1>1. PICK M, B, N, C : M = Marked /\ B = Believed /\ N = Marked' /\ C = Believed'
  OBVIOUS
<1>2. ScanInv(M, B) /\ req' = req
  BY <1>1 DEF IInv, scanVars
<1>3. PICK c \in CallState(RepositoryContent) :
        /\ call' = [call EXCEPT ![k] = c] /\ call'[k] = c
        /\ c.step = step /\ c.tag = call[k].tag /\ c.changes = call[k].changes
  BY <1>2, Advances
<1>4. req[k].pc = "commit" /\ call[k].tag = req[k].scan
  BY <1>2, Committed
<1>5. NoStraggler' => NoStraggler
  BY DEF FaultsGoOn, NoStraggler
<1>6. Commits(k, N)'
  BY <1>2, <1>3, <1>5 DEF Commits
<1>7. CallOK(k, N, C)'
  BY <1>2, <1>3, <1>4, <1>6 DEF CallOK, CommitSteps
<1>8. \A j \in Caller \ {k} : call[j].step \notin {"push", "recover"}
  BY OthersWait
<1> QED
  BY <1>1, <1>3, <1>7, <1>8, ProviderMoves

\* What is known of a commit that is being pushed.
LEMMA Pushing ==
    ASSUME IInv, NEW k \in Caller, call[k].step = "push"
    PROVE  /\ gateHolder = k /\ req[k].pc = "commit" /\ req[k].scan \in Scan
           /\ call[k].tag = req[k].scan
           /\ NothingOf(req[k].scan, remote[base].tree)
           /\ CleanCheckout =>
                \A s \in Scan : local[MarkerPath(s)] # Absent =>
                  s = req[k].scan \/ remote[base].tree[MarkerPath(s)] # Absent
           /\ \E got \in Collected :
                /\ call[k].changes = CommitChanges(k, req[k].scan, got)
                /\ NoStraggler => Whole(got)
<1>1. PICK M, B : M = Marked /\ B = Believed
  OBVIOUS
<1>2. ScanInv(M, B) /\ PushOK(k)
  BY <1>1 DEF IInv
<1>3. /\ req[k].pc = "commit" /\ req[k].scan \in Scan /\ call[k].tag = req[k].scan
      /\ Commits(k, M)
  BY <1>2, Committed DEF CommitSteps
<1> QED
  BY <1>2, <1>3 DEF Commits, PushOK

\* The remote takes a commit: the branch has all of its scan.
LEMMA Lands ==
    ASSUME IInv, NEW k \in Caller, call[k].step = "push", PushLands(k), base' = base,
           NoStraggler' => NoStraggler
    PROVE  /\ RemoteOK' /\ Marked \subseteq Marked' /\ req[k].scan \in Marked'
           /\ CleanCheckout =>
                \A s \in Scan : local[MarkerPath(s)] # Absent => s \in Marked'
<1>1. PICK s : s = req[k].scan
  OBVIOUS
<1>2. PICK tree : tree = Tip
  OBVIOUS
<1>3. RemoteOK /\ tree \in Tree /\ TreeOK(tree)
  BY <1>2, RemoteFields DEF IInv
<1>4. /\ s \in Scan /\ call[k].tag = s /\ tree = remote[base].tree /\ NothingOf(s, tree)
      /\ CleanCheckout =>
           \A t \in Scan : local[MarkerPath(t)] # Absent =>
             t = s \/ tree[MarkerPath(t)] # Absent
  BY <1>1, <1>2, Pushing DEF PushLands, Tip
<1>5. PICK got \in Collected : /\ call[k].changes = CommitChanges(k, s, got)
                               /\ NoStraggler => Whole(got)
  BY <1>1, Pushing
<1>6. PICK top : top = AllWritten(tree, call[k].changes)
  OBVIOUS
<1>7. remote' = Append(remote, [tag |-> s, tree |-> top])
  BY <1>4, <1>6 DEF PushLands, CommitTree
<1>8. /\ top \in Tree /\ AllOf(s, top)
      /\ \A p \in Path : p[1] # s => top[p] = tree[p]
  BY <1>3, <1>4, <1>5, <1>6, CommitOnTop
<1>9. TreeOK(top)
  BY <1>3, <1>4, <1>8, TreeOnTop
<1>10. tree[MarkerPath(s)] = Absent /\ top[MarkerPath(s)] # Absent
  BY <1>4, <1>8, Paths, PathParts DEF NothingOf, AllOf
<1>11. \A t \in Scan : tree[MarkerPath(t)] # Absent => top[MarkerPath(t)] # Absent
  BY <1>8, <1>10, Paths, PathParts
<1>12. RemoteOK' /\ Tip' = top /\ Marked \subseteq Marked'
  BY <1>2, <1>3, <1>4, <1>7, <1>8, <1>9, <1>10, <1>11, BranchGrows
<1>13. Marked' = {t \in Scan : top[MarkerPath(t)] # Absent}
  BY <1>12 DEF Marked
<1> QED
  BY <1>1, <1>4, <1>10, <1>11, <1>12, <1>13

LEMMA GitPushKeeps ==
    ASSUME IInv, NEW k \in Caller, GitPush(k), UNCHANGED scanVars
    PROVE  IInv'
<1>1. PICK M, B, N, C : M = Marked /\ B = Believed /\ N = Marked' /\ C = Believed'
  OBVIOUS
<1>2. /\ ScanInv(M, B) /\ RemoteOK /\ CheckoutOK /\ call[k].step = "push"
      /\ local' = local /\ untracked' = untracked /\ base' = base
      /\ initialized' = initialized /\ req' = req
  BY <1>1 DEF IInv, GitPush, checkout, scanVars
<1>3. call \in [Caller -> CallState(RepositoryContent)] /\ faults \in FaultHistory
  BY <1>2, TypesFields DEF ScanInv
<1>4. gateHolder = k /\ req[k].pc = "commit" /\ req[k].scan \in Scan
      /\ call[k].tag = req[k].scan
  BY <1>2, Pushing
<1>5. PICK got \in Collected : /\ call[k].changes = CommitChanges(k, req[k].scan, got)
                               /\ NoStraggler => Whole(got)
  BY <1>2, Pushing
<1>6. base \in DOMAIN remote /\ gateHolder # NoCaller
  BY <1>2, <1>4, NoCallerAssumption DEF RemoteOK
<1>7. CASE PushLands(k) /\ Reply(k, "committed") /\ gateHolder' = NoCaller
           /\ UNCHANGED faults
  <2>1. FaultsGoOn /\ (NoStraggler' => NoStraggler) /\ (CleanCheckout' <=> CleanCheckout)
    BY <1>3, <1>7, NoFault, NoDirt
  <2>2. /\ RemoteOK' /\ Marked \subseteq Marked' /\ req[k].scan \in N
        /\ CleanCheckout => \A s \in Scan : local[MarkerPath(s)] # Absent => s \in Marked'
    BY <1>1, <1>2, <1>7, <2>1, Lands
  <2>3. CheckoutOK'
    BY <1>2, <1>7, <2>1, <2>2 DEF CheckoutOK
  <2>4. PICK c : c = [step |-> "committed"]
    OBVIOUS
  <2>5. c \in CallState(RepositoryContent) /\ c.step = "committed"
    BY <2>4, CallShapes
  <2>6. call' = [call EXCEPT ![k] = c] /\ call'[k] = c
    BY <1>3, <1>7, <2>4 DEF Reply
  <2>7. CallOK(k, N, C)'
    BY <1>2, <1>4, <2>2, <2>5, <2>6 DEF CallOK, CommitSteps
  <2>8. PushOK(k)'
    BY <2>5, <2>6, PushesNothing
  <2>9. \A j \in Caller \ {k} : call[j].step \notin {"push", "recover"}
    BY <1>4, OthersWait
  <2> QED
    BY <1>1, <2>1, <2>2, <2>3, <2>5, <2>6, <2>7, <2>8, <2>9, ProviderMoves
<1>8. ASSUME Advance(k, "recover"), UNCHANGED gateHolder,
             FaultsGoOn, CleanCheckout' <=> CleanCheckout,
             RemoteOK', Marked \subseteq Marked'
      PROVE  IInv'
  <2>1. CheckoutOK'
    BY <1>2, <1>6, <1>8 DEF CheckoutOK
  <2>2. PICK c \in CallState(RepositoryContent) : call'[k] = c /\ c.step = "recover"
    BY <1>2, <1>8, Advances DEF CommitSteps
  <2>3. PushOK(k)'
    BY <1>4, <1>8, <2>2 DEF PushOK
  <2>4. call[k].step \in CommitSteps
    BY <1>2 DEF CommitSteps
  <2> QED
    BY <1>4, <1>5, <1>8, <2>1, <2>3, <2>4, GoesOn
<1>9. CASE PushLands(k) /\ Fault("ack") /\ Advance(k, "recover") /\ UNCHANGED gateHolder
  <2>1. FaultsGoOn /\ (CleanCheckout' <=> CleanCheckout)
    BY <1>3, <1>9, FaultTyped, Dirt
  <2>2. NoStraggler' => NoStraggler
    BY <2>1 DEF FaultsGoOn, NoStraggler
  <2>3. RemoteOK' /\ Marked \subseteq Marked'
    BY <1>2, <1>9, <2>2, Lands
  <2> QED
    BY <1>8, <1>9, <2>1, <2>3
<1>10. CASE UNCHANGED <<remote, gateHolder, faults>> /\ Advance(k, "recover")
  <2>1. FaultsGoOn /\ (NoStraggler' => NoStraggler) /\ (CleanCheckout' <=> CleanCheckout)
    BY <1>3, <1>10, NoFault, NoDirt
  <2>2. RemoteOK' /\ Marked' = Marked
    BY <1>2, <1>6, <1>10, <2>1, RemoteStays
  <2> QED
    BY <1>8, <1>10, <2>1, <2>2
<1>11. CASE Fault("push") /\ Advance(k, "recover") /\ UNCHANGED <<remote, gateHolder>>
  <2>1. FaultsGoOn /\ (CleanCheckout' <=> CleanCheckout)
    BY <1>3, <1>11, FaultTyped, Dirt
  <2>2. NoStraggler' => NoStraggler
    BY <2>1 DEF FaultsGoOn, NoStraggler
  <2>3. RemoteOK' /\ Marked' = Marked
    BY <1>2, <1>6, <1>11, <2>2, RemoteStays
  <2> QED
    BY <1>8, <1>11, <2>1, <2>3
<1> QED
  BY <1>7, <1>9, <1>10, <1>11 DEF GitPush

LEMMA GitRecoverKeeps ==
    ASSUME IInv, NEW k \in Caller, GitRecover(k), UNCHANGED scanVars
    PROVE  IInv'
<1>1. PICK M, B : M = Marked /\ B = Believed
  OBVIOUS
<1>2. /\ ScanInv(M, B) /\ RemoteOK /\ CheckoutOK /\ PushOK(k) /\ call[k].step = "recover"
      /\ Reply(k, "conflict") /\ gateHolder' = NoCaller
      /\ remote' = remote /\ initialized' = initialized
  BY <1>1 DEF IInv, GitRecover
<1>3. faults \in FaultHistory
  BY <1>2, TypesFields DEF ScanInv
<1>4. gateHolder = k /\ req[k].pc = "commit"
  BY <1>2, Committed DEF PushOK, CommitSteps
<1>5. \A j \in Caller \ {k} : call[j].step \notin {"push", "recover"}
  BY <1>4, OthersWait
<1>6. Marked' = Marked
  BY <1>2 DEF Marked, Tip
<1>7. CASE Reset /\ UNCHANGED faults
  <2>1. FaultsGoOn /\ (CleanCheckout' <=> CleanCheckout)
    BY <1>3, <1>7, NoFault, NoDirt
  <2>2. base' \in DOMAIN remote
    BY <1>2, <1>7, Refreshed
  <2>3. gateHolder' \in Caller \union {NoCaller} /\ initialized' \in BOOLEAN
    BY <1>2 DEF CheckoutOK
  <2>4. CheckoutOK'
    BY <1>2, <1>6, <1>7, <2>1, <2>3, RefreshKeeps
  <2> QED
    BY <1>2, <1>4, <1>5, <2>1, <2>2, <2>4, Refused
<1>8. CASE Fault("recover") /\ UNCHANGED <<local, untracked, base>>
  <2>1. FaultsGoOn /\ (CleanCheckout' => CleanCheckout) /\ ~CleanCheckout'
    BY <1>3, <1>8, FaultTyped, Dirt
  <2>2. base' \in DOMAIN remote
    BY <1>2, <1>8 DEF RemoteOK
  <2>3. CheckoutOK'
    BY <1>2, <1>8, <2>1 DEF CheckoutOK
  <2> QED
    BY <1>2, <1>4, <1>5, <2>1, <2>2, <2>3, Refused
<1> QED
  BY <1>7, <1>8 DEF GitRecover

-----------------------------------------------------------------------------
(***************************************************************************)
(* commitFiles up to the local commit.                                     *)
(***************************************************************************)
LEMMA FetchedTree ==
    ASSUME RemoteOK, CheckoutOK
    PROVE  /\ Fetched \in Tree /\ Len(remote) \in DOMAIN remote
           /\ CleanCheckout => \A p \in Path : Fetched[p] = Tip[p]
<1>1. Tip \in Tree /\ Len(remote) \in DOMAIN remote
  BY RemoteFields
<1>2. Fetched \in Tree
  BY <1>1 DEF Fetched, Tree, CheckoutOK
<1>3. CleanCheckout => \A p \in Path : Fetched[p] = Tip[p]
  BY DEF CheckoutOK, Fetched
<1> QED
  BY <1>1, <1>2, <1>3

LEMMA ChangedPathsTyped ==
    ASSUME NEW changes \in Seq(Change(RepositoryContent)), NEW n \in 1..Len(changes)
    PROVE  ChangedPaths(changes) \subseteq Path /\ ChangedPaths(SubSeq(changes, 1, n)) \subseteq Path
<1>1. \A i \in 1..Len(changes) : changes[i].path \in Path
  <2>1. \A i \in 1..Len(changes) : changes[i] \in Change(RepositoryContent)
    OBVIOUS
  <2> QED
    BY <2>1 DEF Change
<1>2. PICK part : part = SubSeq(changes, 1, n)
  OBVIOUS
<1>3. DOMAIN part = 1..n /\ \A i \in 1..n : part[i] = changes[i]
  BY <1>2
<1>4. Len(changes) \in Nat /\ DOMAIN changes = 1..Len(changes)
  OBVIOUS
<1>5. \A i \in DOMAIN part : part[i].path \in Path
  BY <1>1, <1>3, <1>4
<1> QED
  BY <1>1, <1>2, <1>4, <1>5 DEF ChangedPaths

\* The commit of request k has become a local commit.
LEMMA CommitsLocally ==
    ASSUME IInv, UNCHANGED <<scanVars, remote, faults>>, NEW k \in Caller,
           call[k].step = "commit", gateHolder = NoCaller, gateHolder' = k,
           NEW s, s = req[k].scan, NEW changes, changes = call[k].changes,
           NEW got \in Collected, changes = CommitChanges(k, s, got),
           NoStraggler => Whole(got),
           NothingOf(s, Tip),
           local' = AllWritten(Fetched, changes),
           untracked' = untracked \ ChangedPaths(changes),
           base' = Len(remote), initialized' = TRUE, Advance(k, "push")
    PROVE  IInv'
<1>1. PICK M, B : M = Marked /\ B = Believed
  OBVIOUS
<1>2. ScanInv(M, B) /\ RemoteOK /\ CheckoutOK
  BY <1>1 DEF IInv
<1>3. faults \in FaultHistory /\ s \in Scan /\ call[k].tag = s
      /\ call[k].step \in CommitSteps
  BY <1>2, TypesFields, Committed DEF ScanInv, CommitSteps
<1>4. FaultsGoOn /\ (NoStraggler' => NoStraggler) /\ (CleanCheckout' <=> CleanCheckout)
  BY <1>3, NoFault, NoDirt
<1>5. /\ Fetched \in Tree /\ base' \in DOMAIN remote
      /\ CleanCheckout => \A p \in Path : Fetched[p] = Tip[p]
  BY <1>2, FetchedTree
<1>6. RemoteOK' /\ Marked' = Marked /\ Tip' = Tip
  BY <1>2, <1>4, <1>5, RemoteStays
<1>7. local' \in Tree /\ \A p \in Path : p[1] # s => local'[p] = Fetched[p]
  BY <1>3, <1>5, CommitOnTop
<1>8. CheckoutOK'
  BY <1>2, <1>4, <1>7, NoCallerAssumption DEF CheckoutOK
<1>9. PICK c \in CallState(RepositoryContent) :
        call'[k] = c /\ c.step = "push" /\ c.tag = call[k].tag
  BY <1>2, <1>3, Advances
<1>10. NothingOf(s, remote'[base'].tree)
  BY DEF Tip
<1>11. ASSUME CleanCheckout', NEW t \in Scan, local'[MarkerPath(t)] # Absent, t # s
       PROVE  remote'[base'].tree[MarkerPath(t)] # Absent
  <2>1. local'[MarkerPath(t)] = Tip[MarkerPath(t)]
    BY <1>4, <1>5, <1>7, <1>11, Paths, PathParts
  <2> QED
    BY <1>11, <2>1 DEF Tip
<1>12. PushOK(k)'
  BY <1>3, <1>9, <1>10, <1>11 DEF PushOK, NothingOf
<1> QED
  BY <1>3, <1>4, <1>6, <1>8, <1>12, GoesOn

LEMMA GitCommitLocallyKeeps ==
    ASSUME IInv, NEW k \in Caller, GitCommitLocally(k), UNCHANGED scanVars
    PROVE  IInv'
<1>1. PICK M, B : M = Marked /\ B = Believed
  OBVIOUS
<1>2. PICK s, changes : s = req[k].scan /\ changes = call[k].changes
  OBVIOUS
<1>3. /\ ScanInv(M, B) /\ RemoteOK /\ CheckoutOK
      /\ call[k].step = "commit" /\ gateHolder = NoCaller
      /\ remote' = remote /\ faults' = faults
  BY <1>1 DEF IInv, GitCommitLocally
<1>4. /\ faults \in FaultHistory
      /\ req[k].pc = "commit" /\ s \in Scan /\ Commits(k, M)
  BY <1>2, <1>3, TypesFields, Committed DEF ScanInv, CommitSteps
<1>5. PICK got \in Collected :
        /\ changes = CommitChanges(k, s, got)
        /\ NoStraggler => Whole(got) \/ s \in M
  BY <1>2, <1>4 DEF Commits
<1>6. CASE ~PreconditionsHold(changes, CheckedTree)
  <2>1. Reset /\ initialized' = TRUE /\ Reply(k, "conflict") /\ gateHolder' = gateHolder
    BY <1>2, <1>6 DEF GitCommitLocally, Refresh
  <2>2. FaultsGoOn /\ (CleanCheckout' <=> CleanCheckout)
    BY <1>3, <1>4, NoFault, NoDirt
  <2>3. base' \in DOMAIN remote
    BY <1>3, <2>1, Refreshed
  <2>4. Marked' = Marked
    BY <1>3 DEF Marked, Tip
  <2>5. gateHolder' \in Caller \union {NoCaller} /\ initialized' \in BOOLEAN
    BY <1>3, <2>1 DEF CheckoutOK
  <2>6. CheckoutOK'
    BY <1>3, <2>1, <2>2, <2>4, <2>5, RefreshKeeps
  <2> QED
    BY <1>3, <1>4, <2>1, <2>2, <2>3, <2>6, GateFree, Refused
<1>7. CASE PreconditionsHold(changes, CheckedTree)
  <2>1. NothingOf(s, Tip)
    BY <1>4, <1>5, <1>7, NothingYet
  <2>2. Tip[MarkerPath(s)] = Absent /\ s \notin M
    BY <1>1, <1>4, <2>1, Paths, PathParts DEF NothingOf, Marked
  <2>3. AllWritten(Tip, changes) # Tip
    <3>1. PICK tip, top : tip = Tip /\ top = AllWritten(Tip, changes)
      OBVIOUS
    <3>2. tip \in Tree
      BY <1>3, <3>1, RemoteFields
    <3>3. top[MarkerPath(s)] # Absent
      BY <1>4, <1>5, <3>1, <3>2, CommitOnTop
    <3> QED
      BY <2>2, <3>1, <3>3
  <2>4. /\ local' = AllWritten(Fetched, changes)
        /\ untracked' = untracked \ ChangedPaths(changes)
        /\ base' = Len(remote) /\ initialized' = TRUE
        /\ Advance(k, "push") /\ gateHolder' = k
    BY <1>2, <1>7, <2>3 DEF GitCommitLocally
  <2> QED
    BY <1>2, <1>3, <1>5, <2>1, <2>2, <2>4, CommitsLocally
<1> QED
  BY <1>6, <1>7

LEMMA GitCommitFailsKeeps ==
    ASSUME IInv, NEW k \in Caller, GitCommitFails(k, Fragments),
           UNCHANGED scanVars
    PROVE  IInv'
<1>1. PICK M, B : M = Marked /\ B = Believed
  OBVIOUS
<1>2. PICK changes : changes = call[k].changes
  OBVIOUS
<1>3. /\ ScanInv(M, B) /\ RemoteOK /\ CheckoutOK
      /\ call[k].step = "commit" /\ gateHolder = NoCaller
      /\ Reply(k, "failed") /\ remote' = remote /\ gateHolder' = gateHolder
  BY <1>1 DEF IInv, GitCommitFails
<1>4. /\ faults \in FaultHistory /\ req[k].pc = "commit"
      /\ changes \in Seq(Change(RepositoryContent))
  BY <1>2, <1>3, TypesFields, Committed DEF ScanInv, CommitSteps
<1>5. Marked' = Marked
  BY <1>3 DEF Marked, Tip
<1>6. CASE Fault("read") /\ UNCHANGED checkout
  <2>1. FaultsGoOn /\ (CleanCheckout' <=> CleanCheckout)
    BY <1>4, <1>6, FaultTyped, Dirt
  <2>2. /\ local' = local /\ untracked' = untracked /\ base' = base
        /\ initialized' = initialized
    BY <1>6 DEF checkout
  <2>3. base' \in DOMAIN remote /\ CheckoutOK'
    BY <1>3, <1>5, <2>1, <2>2 DEF RemoteOK, CheckoutOK
  <2> QED
    BY <1>3, <1>4, <2>1, <2>3, GateFree, Refused
<1>7. CASE /\ Fault("worktree")
           /\ \E n \in 1..Len(changes), added \in BOOLEAN :
                PartlyWritten(changes, n, Fragments, added)
           /\ base' = Len(remote) /\ initialized' = TRUE
  <2>1. FaultsGoOn /\ (CleanCheckout' => CleanCheckout) /\ ~CleanCheckout'
    BY <1>4, <1>7, FaultTyped, Dirt
  <2>2. Fetched \in Tree /\ base' \in DOMAIN remote
    BY <1>3, <1>7, FetchedTree
  <2>3. PICK n \in 1..Len(changes), added \in BOOLEAN :
          PartlyWritten(changes, n, Fragments, added)
    BY <1>7
  <2>4. local' \in Tree
    <3>1. PICK whole : whole = Written(Fetched, changes, n)
      OBVIOUS
    <3>2. whole \in Tree
      BY <1>4, <2>2, <3>1, WrittenTyped
    <3>3. \A content \in Fragments : [whole EXCEPT ![changes[n].path] = content] \in Tree
      BY <3>2 DEF Fragments, Tree, RepositoryContent, FileContent
    <3> QED
      BY <2>3, <3>1, <3>2, <3>3 DEF PartlyWritten
  <2>5. untracked' \subseteq Path
    <3>1. PICK written : written = ChangedPaths(SubSeq(changes, 1, n))
      OBVIOUS
    <3>2. written \subseteq Path /\ untracked \subseteq Path
      BY <1>3, <1>4, <3>1, ChangedPathsTyped DEF CheckoutOK
    <3>3. untracked' = IF added THEN untracked \ written
                       ELSE {p \in untracked \union written : Tip[p] = Absent}
      BY <2>3, <3>1 DEF PartlyWritten
    <3> QED
      BY <3>2, <3>3
  <2>6. CheckoutOK'
    BY <1>3, <1>7, <2>1, <2>4, <2>5 DEF CheckoutOK
  <2> QED
    BY <1>3, <1>4, <2>1, <2>2, <2>6, GateFree, Refused
<1> QED
  BY <1>2, <1>6, <1>7 DEF GitCommitFails

-----------------------------------------------------------------------------
(***************************************************************************)
(* The invariant holds.                                                    *)
(***************************************************************************)
LEMMA InitInvariant ==
    ASSUME Init
    PROVE  IInv
<1>1. PICK empty : empty = [p \in Path |-> Absent]
  OBVIOUS
<1>2. PICK first : first = [tag |-> Foreign, tree |-> empty]
  OBVIOUS
<1>3. /\ remote = <<first>> /\ local = empty /\ untracked = {} /\ base = 1
      /\ gateHolder = NoCaller /\ initialized = FALSE
  BY <1>1, <1>2 DEF Init, GitInit
<1>4. /\ Len(remote) = 1 /\ DOMAIN remote = {1} /\ remote[1] = first
      /\ first.tag = Foreign /\ first.tree = empty
  BY <1>2, <1>3
<1>5. Tip = empty
  BY <1>4 DEF Tip
<1>6. empty \in Tree /\ \A p \in Path : empty[p] = Absent
  BY <1>1 DEF Tree
<1>7. TreeOK(empty)
  BY <1>6 DEF TreeOK, NothingOf
<1>8. PICK C : C = [tag: Tag, tree: Tree]
  OBVIOUS
<1>9. first \in C
  BY <1>2, <1>6, <1>8, TagsAssumption
<1>10. remote \in Seq(C)
  BY <1>3, <1>9
<1>11. RemoteOK
  BY <1>3, <1>4, <1>7, <1>8, <1>10 DEF RemoteOK, ScanCommittedOnce
<1>12. CheckoutOK
  BY <1>3, <1>6 DEF CheckoutOK
<1>13. Marked \subseteq Believed
  BY DEF Believed, Marked
<1>14. ScanInv(Marked, Believed)
  BY <1>13, ScanInitKeeps DEF Init
<1>15. \A k \in Caller : PushOK(k)
  BY CallShapes DEF Init, ProviderInit, PushOK
<1> QED
  BY <1>11, <1>12, <1>14, <1>15 DEF IInv

LEMMA NextInvariant ==
    ASSUME IInv, [Next]_vars
    PROVE  IInv'
<1>1. CASE UNCHANGED vars
  BY <1>1, Stutters
<1>2. CASE ScanStep /\ UNCHANGED gitVars
  BY <1>2, ScanKeeps
<1>3. ASSUME NEW k \in Caller, GitStep(k, Fragments), UNCHANGED scanVars
      PROVE  IInv'
  BY <1>3, GitReadKeeps, GitCommitLocallyKeeps, GitCommitFailsKeeps, GitPushKeeps,
     GitRecoverKeeps DEF GitStep
<1>4. CASE GitRefreshForOthers /\ UNCHANGED scanVars
  BY <1>4, RefreshForOthersKeeps
<1>5. CASE ForeignPush(Tip) /\ UNCHANGED scanVars
  BY <1>5, ForeignPushKeeps
<1>6. CASE ScanCrash /\ GitRestart
  BY <1>6, CrashKeeps
<1> QED
  BY <1>1, <1>2, <1>3, <1>4, <1>5, <1>6 DEF Next

-----------------------------------------------------------------------------
(***************************************************************************)
(* Theorems.                                                               *)
(***************************************************************************)
\* The inductive invariant: every commit of the branch holds all of a scan or
\* nothing of it, a commit on its way adds one scan to a tree that has nothing
\* of it, and a read reports a marker only if the branch has it, unless a failed
\* write or reset has left the checkout with content of its own.
THEOREM ScanInvariant == Spec => []IInv
BY InitInvariant, NextInvariant, PTL DEF Spec

\* Staging, requests, outbox, branch and checkout keep their shapes.
THEOREM ScanTypes == Spec => []TypeOK
<1>1. IInv => TypeOK
  BY DEF IInv, ScanInv, TypesOK, RemoteOK, CheckoutOK, TypeOK
<1> QED
  BY <1>1, ScanInvariant, PTL

\* While no request the headset gave up on writes into the staging area, and no
\* failure has left foreign content in the checkout, a scan whose outbox copy is
\* deleted is whole on the branch.
THEOREM EvidenceKept ==
    Spec => [](CleanCheckout /\ NoStragglerWrites => EvidenceNeverLost)
<1>1. ASSUME IInv, CleanCheckout, NoStragglerWrites, NEW s \in Scan, client[s].pc = "removed"
      PROVE  Tip[MarkerPath(s)] # Absent /\ Complete(s, Tip)
  <2>1. s \in Marked
    BY <1>1 DEF IInv, ScanInv, ClientOK, Believed
  <2>2. Tip[MarkerPath(s)] # Absent
    BY <2>1 DEF Marked
  <2>3. AllOf(s, Tip)
    <3>1. PICK tip : tip = Tip
      OBVIOUS
    <3>2. TreeOK(tip)
      BY <1>1, <3>1, RemoteFields DEF IInv
    <3>3. ~NothingOf(s, tip)
      BY <2>2, <3>1, Paths, PathParts DEF NothingOf
    <3> QED
      BY <3>1, <3>2, <3>3 DEF TreeOK
  <2> QED
    BY <1>1, <2>2, <2>3, FaultsOrdered DEF AllOf, Complete
<1>2. IInv => (CleanCheckout /\ NoStragglerWrites => EvidenceNeverLost)
  BY <1>1 DEF EvidenceNeverLost
<1> QED
  BY <1>2, ScanInvariant, PTL

\* While no request the headset gave up on writes into the staging area, every
\* commit of the branch holds a scan whole or nothing of it.
THEOREM BranchHoldsWholeScans == Spec => [](NoStragglerWrites => ScansAreAtomic)
<1>1. ASSUME IInv, NoStragglerWrites, NEW i \in DOMAIN remote, NEW s \in Scan
      PROVE  LET tree == remote[i].tree
             IN  \/ \A p \in {q \in Path : q[1] = s} : tree[p] = Absent
                 \/ tree[MarkerPath(s)] # Absent /\ Complete(s, tree)
  <2>1. PICK tree : tree = remote[i].tree
    OBVIOUS
  <2>2. TreeOK(tree)
    BY <1>1, <2>1 DEF IInv, RemoteOK
  <2>3. NothingOf(s, tree) \/ AllOf(s, tree)
    BY <2>2 DEF TreeOK
  <2> QED
    BY <1>1, <2>1, <2>3, FaultsOrdered DEF NothingOf, AllOf, Complete
<1>2. IInv => (NoStragglerWrites => ScansAreAtomic)
  BY <1>1 DEF ScansAreAtomic
<1> QED
  BY <1>2, ScanInvariant, PTL

\* The branch never gets two commits of one scan, whatever is retried, refused,
\* lost or crashes.
THEOREM CommittedOnce == Spec => []ScanCommittedOnce
<1>1. IInv => ScanCommittedOnce
  BY DEF IInv, RemoteOK
<1> QED
  BY <1>1, ScanInvariant, PTL
=============================================================================
