------------------------ MODULE SpatialWriteGit_proofs ------------------------
(***************************************************************************)
(* Proofs about SpatialWriteGit, for any operations, ids, contents, paths, *)
(* faults and commits of other clones.                                     *)
(***************************************************************************)
EXTENDS SpatialWriteGit, FiniteSets, FiniteSetTheorems, SequenceTheorems,
        WellFoundedInduction, TLAPS

-----------------------------------------------------------------------------
(***************************************************************************)
(* The invariant.                                                          *)
(***************************************************************************)
UniqueTree(tree) == \A p \in Path : tree[p] # Torn => UniqueIds(Bytes(tree[p]))

\* The branch has, or had, this content on the path.
Had(content, p) == \E i \in DOMAIN remote : Bytes(remote[i].tree[p]) = content

\* The last commit of the branch is the operation's.
OnTop(o) == remote[Len(remote)].tag = o

RemoteOK ==
    /\ remote \in Seq([tag: Tag, tree: Tree])
    /\ base \in DOMAIN remote
    /\ \A i \in DOMAIN remote :
         /\ UniqueTree(remote[i].tree)
         /\ remote[i].tag \in OpId \union {Foreign}
         /\ remote[i].tag # Foreign => ledger[remote[i].tag] # None
    /\ FollowsBranch => CommitsAreRequestedChanges

CheckoutOK ==
    /\ local \in LocalTree /\ UniqueTree(local)
    /\ untracked \subseteq Path
    /\ gateHolder \in Caller \union {NoCaller}
    /\ initialized \in BOOLEAN
    /\ FollowsBranch => untracked = {}
    /\ (CleanCheckout /\ gateHolder = NoCaller /\ initialized) =>
         /\ \E i \in DOMAIN remote : local = remote[i].tree
         /\ ~OnTop(Foreign) => local = Tip

EntryOK(o) ==
    /\ IsPending(o) => Applies(ledger[o].op, ledger[o].prepared)
    /\ (CleanCheckout /\ IsSettled(o) /\ ledger[o].status.state = "source-committed") =>
         OnceAuthoritative(ledger[o].op, ledger[o].status)
    /\ (CertainPushes /\ OnTop(o)) =>
         /\ IsSettled(o) => ledger[o].status.state = "source-committed"
         /\ IsPending(o) => Bytes(Tip[ledger[o].op.path]) = ledger[o].prepared.next

\* The request in the gate is the ledger's.
JobOK ==
    /\ job.pc \in {"load", "commit", "finalize"} => ledger[job.op.id] # None
    /\ (job.pc # "idle" /\ ledger[job.op.id] # None) =>
         ledger[job.op.id].op = job.op /\ IsPending(job.op.id)

WriteOf(r, prepared) ==
    <<[path |-> r.path, content |-> prepared.next,
       ifAbsent |-> FALSE, expected |-> prepared.expected]>>

ReadOK(slot) ==
    /\ slot.step \in {"read", "data", "failed"}
    /\ slot.step = "read" => slot.path = job.op.path
    /\ slot.step = "data" =>
         /\ slot.content # Torn => UniqueIds(Bytes(slot.content))
         /\ CleanCheckout =>
              /\ Had(Bytes(slot.content), job.op.path)
              /\ ~OnTop(Foreign) => slot.content = Tip[job.op.path]
    /\ (CertainPushes /\ OnTop(job.op.id)) => job.pc # "prepare"
    /\ (CleanCheckout /\ job.pc = "finalize") =>
         Had(ledger[job.op.id].prepared.next, job.op.path)

CommitOK(slot) ==
    LET prepared == ledger[job.op.id].prepared
    IN  /\ slot.step \in {"commit", "push", "recover", "committed", "conflict", "failed"}
        /\ slot.step \in {"commit", "push", "recover"} =>
             slot.tag = job.op.id /\ slot.changes = WriteOf(job.op, prepared)
        /\ slot.step \in {"push", "recover"} => gateHolder = Service
        /\ slot.step = "push" =>
             /\ FollowsBranch =>
                  Bytes(remote[base].tree[job.op.path]) = prepared.expected
             /\ CleanCheckout =>
                  local = AllWritten(remote[base].tree, slot.changes)
        /\ (CleanCheckout /\ slot.step = "committed") => Had(prepared.next, job.op.path)
        /\ (CertainPushes /\ OnTop(job.op.id)) => slot.step \in {"committed", "failed"}

SlotOK ==
    /\ job.pc = "idle" => call[Service] = Idle
    /\ job.pc \in {"prepare", "load", "finalize"} => ReadOK(call[Service])
    /\ job.pc = "commit" => CommitOK(call[Service])

IInv ==
    /\ call \in [Caller -> Slot]
    /\ faults \in FaultHistory
    /\ ServiceTypeOK
    /\ RemoteOK
    /\ CheckoutOK
    /\ \A o \in OpId : EntryOK(o)
    /\ JobOK
    /\ SlotOK

-----------------------------------------------------------------------------
(***************************************************************************)
(* Collections.                                                            *)
(***************************************************************************)
LEMMA CollectionFields ==
    ASSUME NEW items \in Collection
    PROVE  /\ items \in Seq(Item) /\ Len(items) \in Nat /\ DOMAIN items = 1..Len(items)
           /\ \A i \in 1..Len(items) :
                /\ items[i] \in Item /\ items[i].id \in Object /\ items[i].val \in Val
                /\ items[i] = [id |-> items[i].id, val |-> items[i].val]
<1>1. items \in Seq(Item) /\ Len(items) \in Nat /\ DOMAIN items = 1..Len(items)
  BY DEF Collection
<1>2. \A i \in 1..Len(items) : items[i] \in Item
  BY <1>1
<1> QED
  BY <1>1, <1>2 DEF Item

LEMMA LeastElement ==
    ASSUME NEW T \in SUBSET Nat, T # {}
    PROVE  \E i \in T : \A j \in T : i <= j
<1>1. \E x \in T : \A y \in T : ~(<<y, x>> \in OpToRel(<, Nat))
  BY NatLessThanWellFounded, WFMin
<1>2. PICK x \in T : \A y \in T : ~(<<y, x>> \in OpToRel(<, Nat))
  BY <1>1
<1>3. \A y \in T : ~(y < x)
  BY <1>2 DEF OpToRel
<1> QED
  BY <1>3

\* findIndex of an id that is there finds an item with it.
LEMMA IndexOfItem ==
    ASSUME NEW items \in Collection, NEW id, Has(items, id),
           NEW i, i = IndexOf(items, id)
    PROVE  i \in 1..Len(items) /\ items[i].id = id
<1>1. PICK T : T = {j \in 1..Len(items) : items[j].id = id}
  OBVIOUS
<1>2. DOMAIN items = 1..Len(items)
  BY CollectionFields
<1>3. T # {} /\ T \in SUBSET Nat
  BY <1>1, <1>2 DEF Has
<1>4. PICK j \in T : \A l \in T : j <= l
  BY <1>3, LeastElement
<1>5. /\ j \in DOMAIN items
      /\ items[j].id = id /\ \A l \in DOMAIN items : items[l].id = id => j <= l
  BY <1>1, <1>2, <1>4
<1>6. i \in DOMAIN items /\ items[i].id = id
  BY <1>5 DEF IndexOf
<1> QED
  BY <1>2, <1>6

LEMMA ItemOf ==
    ASSUME NEW items \in Collection, NEW item
    PROVE  /\ item \in ItemsIn(items) <=> \E i \in 1..Len(items) : items[i] = item
           /\ \A id : id \in IdsIn(items) <=> \E i \in 1..Len(items) : items[i].id = id
           /\ \A id : Has(items, id) <=> id \in IdsIn(items)
BY CollectionFields DEF ItemsIn, IdsIn, Has

\* A collection with an item more.
LEMMA AppendsItem ==
    ASSUME NEW items \in Collection, UniqueIds(items), NEW item \in Item,
           ~Has(items, item.id), NEW next, next = Append(items, item)
    PROVE  /\ next \in Collection /\ UniqueIds(next)
           /\ ItemsIn(next) = ItemsIn(items) \union {item}
<1>1. PICK n : n = Len(items)
  OBVIOUS
<1>2. items \in Seq(Item) /\ n \in Nat /\ DOMAIN items = 1..n
  BY <1>1, CollectionFields
<1>3. /\ next \in Seq(Item) /\ Len(next) = n + 1
      /\ \A i \in 1..n : next[i] = items[i]
      /\ next[n + 1] = item
  BY <1>1, <1>2, AppendProperties
<1>4. DOMAIN next = 1..(n + 1)
  BY <1>3
<1>5. \A i \in 1..n : items[i].id # item.id
  BY <1>2 DEF Has
<1>6. UniqueIds(next)
  <2>1. ASSUME NEW i \in 1..(n + 1), NEW j \in 1..(n + 1), next[i].id = next[j].id
        PROVE  i = j
    <3>1. (i \in 1..n \/ i = n + 1) /\ (j \in 1..n \/ j = n + 1)
      BY <1>2
    <3>2. CASE i \in 1..n /\ j \in 1..n
      BY <1>2, <1>3, <2>1, <3>2 DEF UniqueIds
    <3>3. CASE i = n + 1 /\ j \in 1..n
      BY <1>3, <1>5, <2>1, <3>3
    <3>4. CASE i \in 1..n /\ j = n + 1
      BY <1>3, <1>5, <2>1, <3>4
    <3> QED
      BY <3>1, <3>2, <3>3, <3>4
  <2> QED
    BY <1>4, <2>1 DEF UniqueIds
<1>7. ItemsIn(next) = ItemsIn(items) \union {item}
  <2>1. ASSUME NEW i \in 1..(n + 1)
        PROVE  next[i] \in ItemsIn(items) \union {item}
    BY <1>2, <1>3, <2>1 DEF ItemsIn
  <2>2. ASSUME NEW i \in 1..n
        PROVE  items[i] \in ItemsIn(next)
    <3>1. i \in 1..(n + 1) /\ next[i] = items[i]
      BY <1>2, <1>3
    <3> QED
      BY <1>4, <3>1 DEF ItemsIn
  <2>3. item \in ItemsIn(next)
    <3>1. n + 1 \in 1..(n + 1)
      BY <1>2
    <3> QED
      BY <1>3, <1>4, <3>1 DEF ItemsIn
  <2> QED
    BY <1>2, <1>4, <2>1, <2>2, <2>3 DEF ItemsIn
<1> QED
  BY <1>3, <1>6, <1>7 DEF Collection

\* A collection with one item replaced by one of the same id.
LEMMA ReplacesItem ==
    ASSUME NEW items \in Collection, UniqueIds(items), NEW i \in 1..Len(items),
           NEW item \in Item, item.id = items[i].id,
           NEW next \in Seq(Item), Len(next) = Len(items),
           \A j \in 1..Len(items) : next[j] = IF j = i THEN item ELSE items[j]
    PROVE  /\ next \in Collection /\ UniqueIds(next)
           /\ ItemsIn(next) = (ItemsIn(items) \ {items[i]}) \union {item}
<1>1. PICK n : n = Len(items)
  OBVIOUS
<1>2. items \in Seq(Item) /\ n \in Nat /\ DOMAIN items = 1..n
  BY <1>1, CollectionFields
<1>3. /\ next \in Seq(Item) /\ Len(next) = n
      /\ \A j \in 1..n : next[j] = IF j = i THEN item ELSE items[j]
  BY <1>1, <1>2
<1>4. DOMAIN next = 1..n /\ i \in 1..n
  BY <1>1, <1>3
<1>5. \A j \in 1..n : next[j].id = items[j].id
  BY <1>3
<1>6. UniqueIds(next)
  BY <1>2, <1>4, <1>5 DEF UniqueIds
<1>7. \A j \in 1..n : j # i => items[j] # items[i]
  BY <1>2, <1>4 DEF UniqueIds
<1>8. ItemsIn(next) = (ItemsIn(items) \ {items[i]}) \union {item}
  BY <1>2, <1>3, <1>4, <1>7 DEF ItemsIn
<1> QED
  BY <1>3, <1>6, <1>8 DEF Collection

\* A collection without one of its items.
LEMMA RemovesItem ==
    ASSUME NEW items \in Collection, UniqueIds(items), NEW i \in 1..Len(items),
           NEW next, next = Without(items, i)
    PROVE  /\ next \in Collection /\ UniqueIds(next)
           /\ ItemsIn(next) = ItemsIn(items) \ {items[i]}
           /\ items[i].id \notin IdsIn(next)
<1>1. PICK n : n = Len(items)
  OBVIOUS
<1>2. /\ items \in Seq(Item) /\ n \in Nat /\ DOMAIN items = 1..n /\ i \in 1..n
      /\ \A j \in 1..n : items[j] \in Item
  BY <1>1, CollectionFields
<1>3. PICK head, tail : head = SubSeq(items, 1, i - 1) /\ tail = SubSeq(items, i + 1, n)
  OBVIOUS
<1>4. /\ head \in Seq(Item) /\ Len(head) = i - 1
      /\ \A j \in 1..(i - 1) : head[j] = items[j]
  <2>1. \A j \in 1..(i - 1) : items[j] \in Item
    BY <1>2
  <2>2. /\ SubSeq(items, 1, i - 1) \in Seq(Item)
        /\ Len(SubSeq(items, 1, i - 1)) = IF 1 <= i - 1 THEN i - 1 - 1 + 1 ELSE 0
        /\ \A j \in 1..(i - 1 - 1 + 1) : SubSeq(items, 1, i - 1)[j] = items[1 + j - 1]
    BY <1>2, <2>1, SubSeqProperties
  <2>3. Len(head) = i - 1
    BY <1>2, <1>3, <2>2
  <2>4. \A j \in 1..(i - 1) : head[j] = items[j]
    BY <1>2, <1>3, <2>2
  <2> QED
    BY <1>3, <2>2, <2>3, <2>4
<1>5. /\ tail \in Seq(Item) /\ Len(tail) = n - i
      /\ \A j \in 1..(n - i) : tail[j] = items[i + j]
  <2>1. \A j \in (i + 1)..n : items[j] \in Item
    BY <1>2
  <2>2. /\ SubSeq(items, i + 1, n) \in Seq(Item)
        /\ Len(SubSeq(items, i + 1, n)) = IF i + 1 <= n THEN n - (i + 1) + 1 ELSE 0
        /\ \A j \in 1..(n - (i + 1) + 1) : SubSeq(items, i + 1, n)[j] = items[i + 1 + j - 1]
    BY <1>2, <2>1, SubSeqProperties
  <2>3. Len(tail) = n - i
    BY <1>2, <1>3, <2>2
  <2>4. ASSUME NEW j \in 1..(n - i)
        PROVE  tail[j] = items[i + j]
    <3>1. j \in 1..(n - (i + 1) + 1) /\ i + 1 + j - 1 = i + j
      BY <1>2
    <3> QED
      BY <1>3, <2>2, <3>1
  <2> QED
    BY <1>3, <2>2, <2>3, <2>4
<1>6. /\ next \in Seq(Item) /\ Len(next) = n - 1
      /\ \A j \in 1..(n - 1) : next[j] = IF j <= i - 1 THEN head[j] ELSE tail[j - (i - 1)]
  <2>1. next = head \o tail
    BY <1>1, <1>3 DEF Without
  <2>2. Len(head) + Len(tail) = n - 1
    BY <1>2, <1>4, <1>5
  <2>3. /\ head \o tail \in Seq(Item)
        /\ Len(head \o tail) = Len(head) + Len(tail)
        /\ \A j \in 1..(Len(head) + Len(tail)) :
             (head \o tail)[j] = IF j <= Len(head) THEN head[j] ELSE tail[j - Len(head)]
    BY <1>4, <1>5, ConcatProperties
  <2> QED
    BY <1>4, <2>1, <2>2, <2>3
<1>7. DOMAIN next = 1..(n - 1)
  BY <1>2, <1>6
<1>8. ASSUME NEW j \in 1..(n - 1)
      PROVE  \/ j < i /\ next[j] = items[j]
             \/ j >= i /\ next[j] = items[j + 1]
  <2>1. CASE j <= i - 1
    BY <1>2, <1>4, <1>6, <2>1
  <2>2. CASE ~(j <= i - 1)
    <3>1. j - (i - 1) \in 1..(n - i) /\ i + (j - (i - 1)) = j + 1 /\ j >= i
      BY <1>2, <2>2
    <3>2. tail[j - (i - 1)] = items[i + (j - (i - 1))]
      BY <1>5, <3>1
    <3> QED
      BY <1>6, <2>2, <3>1, <3>2
  <2> QED
    BY <2>1, <2>2
<1>9. \A j, l \in 1..n : items[j].id = items[l].id => j = l
  BY <1>2 DEF UniqueIds
<1>10. UniqueIds(next)
  <2>1. ASSUME NEW j \in 1..(n - 1), NEW l \in 1..(n - 1), next[j].id = next[l].id
        PROVE  j = l
    <3>1. j \in 1..n /\ j + 1 \in 1..n /\ l \in 1..n /\ l + 1 \in 1..n
      BY <1>2
    <3>2. CASE next[j] = items[j] /\ j < i
      BY <1>8, <1>9, <2>1, <3>1, <3>2
    <3>3. CASE next[j] = items[j + 1] /\ j >= i
      BY <1>8, <1>9, <2>1, <3>1, <3>3
    <3> QED
      BY <1>8, <3>2, <3>3
  <2> QED
    BY <1>7, <2>1 DEF UniqueIds
<1>11. ASSUME NEW j \in 1..(n - 1)
       PROVE  \E l \in 1..n : l # i /\ next[j] = items[l]
  <2>1. j \in 1..n /\ j + 1 \in 1..n
    BY <1>2
  <2>2. CASE j < i /\ next[j] = items[j]
    BY <1>2, <2>1, <2>2
  <2>3. CASE j >= i /\ next[j] = items[j + 1]
    <3>1. j + 1 # i
      BY <1>2, <2>3
    <3> QED
      BY <2>1, <2>3, <3>1
  <2> QED
    BY <1>8, <2>2, <2>3
<1>12. ASSUME NEW l \in 1..n, l # i
       PROVE  \E j \in 1..(n - 1) : next[j] = items[l]
  <2>1. CASE l < i
    <3>1. l \in 1..(n - 1) /\ ~(l >= i)
      BY <1>2, <2>1
    <3> QED
      BY <1>8, <3>1
  <2>2. CASE l > i
    <3>1. l - 1 \in 1..(n - 1) /\ ~(l - 1 < i) /\ (l - 1) + 1 = l
      BY <1>2, <2>2
    <3>2. next[l - 1] = items[l]
      BY <1>8, <3>1
    <3> QED
      BY <3>1, <3>2
  <2> QED
    BY <1>2, <1>12, <2>1, <2>2
<1>13. ItemsIn(next) = ItemsIn(items) \ {items[i]}
  <2>1. \A l \in 1..n : l # i => items[l] # items[i]
    BY <1>2, <1>9
  <2>2. ASSUME NEW item \in ItemsIn(next)
        PROVE  item \in ItemsIn(items) \ {items[i]}
    BY <1>2, <1>7, <1>11, <2>1 DEF ItemsIn
  <2>3. ASSUME NEW item \in ItemsIn(items) \ {items[i]}
        PROVE  item \in ItemsIn(next)
    <3>1. PICK l \in 1..n : item = items[l]
      BY <1>2 DEF ItemsIn
    <3> QED
      BY <1>7, <1>12, <3>1 DEF ItemsIn
  <2> QED
    BY <2>2, <2>3
<1>14. items[i].id \notin IdsIn(next)
  BY <1>2, <1>7, <1>9, <1>11 DEF IdsIn, ItemsIn
<1> QED
  BY <1>6, <1>10, <1>13, <1>14 DEF Collection

-----------------------------------------------------------------------------
(***************************************************************************)
(* prepare().                                                              *)
(***************************************************************************)
\* The terminal outcomes of prepare().
Refusal == {status \in Status : status.state # "source-committed"}

Refuses(r, items, status) ==
    \/ /\ status = Conflict("object-exists")
       /\ r.action = "create"
       /\ \E id \in BranchPromise!OnTip!IdsFor(r) : id \in IdsIn(items)
    \/ /\ status = Conflict("object-missing")
       /\ r.action # "create"
       /\ r.target \notin IdsIn(items)
    \/ /\ status = Conflict("revision-mismatch")
       /\ r.action # "create"
       /\ r.target \in IdsIn(items)
       /\ [id |-> r.target, val |-> r.base] \notin ItemsIn(items)
    \/ /\ status = Rejected
       /\ {r.target, r.payloadId} \cap {None} = {}
       /\ r.target # r.payloadId

Outcome(r, items, plan) ==
    IF IsPrepared(plan)
      THEN plan \in Prepared /\ plan.expected = items /\ Applies(r, plan)
      ELSE plan \in Refusal /\ Refuses(r, items, plan)

LEMMA ConflictRefuses ==
    ASSUME NEW r, NEW items,
           NEW type \in {"object-exists", "object-missing", "revision-mismatch"},
           Refuses(r, items, Conflict(type))
    PROVE  Outcome(r, items, Conflict(type))
<1>1. Conflict(type) \in Refusal /\ ~IsPrepared(Conflict(type))
  BY DEF Conflict, Refusal, Status, IsPrepared
<1> QED
  BY <1>1 DEF Outcome

LEMMA RejectedRefuses ==
    ASSUME NEW r, NEW items, Refuses(r, items, Rejected)
    PROVE  Outcome(r, items, Rejected)
<1>1. Rejected \in Refusal /\ ~IsPrepared(Rejected)
  BY DEF Rejected, Refusal, Status, IsPrepared
<1> QED
  BY <1>1 DEF Outcome

LEMMA PreparedApplies ==
    ASSUME NEW r, NEW items \in Collection, NEW next \in Collection, NEW obj \in Object,
           NEW rev \in Val \union {None}, UniqueIds(next), Changes(r, items, next),
           Shows(r, obj, rev, next),
           {r.target, r.payloadId} \subseteq {obj, None}, rev = r.val
    PROVE  Outcome(r, items, [expected |-> items, next |-> next, obj |-> obj, rev |-> rev])
<1>1. PICK plan : plan = [expected |-> items, next |-> next, obj |-> obj, rev |-> rev]
  OBVIOUS
<1>2. plan \in Prepared /\ IsPrepared(plan)
  BY <1>1 DEF Prepared, IsPrepared
<1>3. plan.expected = items /\ plan.next = next /\ plan.obj = obj /\ plan.rev = rev
  BY <1>1
<1>4. Applies(r, plan)
  BY <1>3 DEF Applies
<1> QED
  BY <1>1, <1>2, <1>3, <1>4 DEF Outcome

LEMMA PlanCreateOutcome ==
    ASSUME NEW r \in Request, r.action = "create",
           NEW items \in Collection, UniqueIds(items),
           NEW id \in BranchPromise!OnTip!IdsFor(r), id \in Object,
           r.target \in {id, None},
           r.target = None => r.payloadId \in {id, None}
    PROVE  Outcome(r, items, PlanCreate(r, items, id))
<1>1. r.val \in Val
  BY RequestAssumption
<1>2. PICK item : item = [id |-> id, val |-> r.val]
  OBVIOUS
<1>3. item \in Item /\ item.id = id
  BY <1>1, <1>2 DEF Item
<1>4. CASE Has(items, id)
  <2>1. id \in IdsIn(items)
    BY <1>4, ItemOf
  <2>2. Refuses(r, items, Conflict("object-exists"))
    BY <2>1 DEF Refuses
  <2> QED
    BY <1>4, <2>2, ConflictRefuses DEF PlanCreate
<1>5. CASE ~Has(items, id) /\ Mismatched(r, id)
  <2>1. r.target = id /\ r.payloadId # None /\ r.payloadId # id /\ id # None
    BY <1>5, NoneAssumption DEF Mismatched
  <2>2. Refuses(r, items, Rejected)
    BY <2>1 DEF Refuses
  <2> QED
    BY <1>5, <2>2, RejectedRefuses DEF PlanCreate
<1>6. CASE ~Has(items, id) /\ ~Mismatched(r, id)
  <2>1. PICK next : next = Append(items, item)
    OBVIOUS
  <2>2. /\ next \in Collection /\ UniqueIds(next)
        /\ ItemsIn(next) = ItemsIn(items) \union {item}
    BY <1>3, <1>6, <2>1, AppendsItem
  <2>3. id \notin IdsIn(items)
    BY <1>6, ItemOf
  <2>4. {r.target, r.payloadId} \subseteq {id, None}
    BY <1>6 DEF Mismatched
  <2>5. Changes(r, items, next)
    BY <1>2, <2>2, <2>3, <2>4 DEF Changes
  <2>6. Shows(r, id, r.val, next)
    BY <1>2, <2>2 DEF Shows
  <2>7. PlanCreate(r, items, id) =
          [expected |-> items, next |-> next, obj |-> id, rev |-> r.val]
    BY <1>2, <1>6, <2>1 DEF PlanCreate
  <2> QED
    BY <1>1, <2>2, <2>4, <2>5, <2>6, <2>7, PreparedApplies
<1> QED
  BY <1>4, <1>5, <1>6

LEMMA PlanUpdateOutcome ==
    ASSUME NEW r \in Request, r.action = "update",
           NEW items \in Collection, UniqueIds(items),
           NEW i \in 1..Len(items), items[i].id = r.target, items[i].val = r.base
    PROVE  Outcome(r, items, PlanUpdate(r, items, i))
<1>1. r.val \in Val /\ r.target \in Object
  BY RequestAssumption
<1>2. PICK item : item = [id |-> r.target, val |-> r.val]
  OBVIOUS
<1>3. item \in Item /\ item.id = items[i].id
  BY <1>1, <1>2 DEF Item
<1>4. CASE Mismatched(r, r.target)
  <2>1. r.payloadId # None /\ r.payloadId # r.target /\ r.target # None
    BY <1>1, <1>4, NoneAssumption DEF Mismatched
  <2>2. Refuses(r, items, Rejected)
    BY <2>1 DEF Refuses
  <2> QED
    BY <1>4, <2>2, RejectedRefuses DEF PlanUpdate
<1>5. CASE ~Mismatched(r, r.target)
  <2>1. PICK next : next = [items EXCEPT ![i] = item]
    OBVIOUS
  <2>2. /\ next \in Collection /\ UniqueIds(next)
        /\ ItemsIn(next) = (ItemsIn(items) \ {items[i]}) \union {item}
    <3>1. items \in Seq(Item)
      BY CollectionFields
    <3>2. /\ next \in Seq(Item) /\ Len(next) = Len(items)
          /\ \A j \in 1..Len(items) : next[j] = IF j = i THEN item ELSE items[j]
      BY <1>3, <2>1, <3>1, ExceptSeq
    <3> QED
      BY <1>3, <3>2, ReplacesItem
  <2>3. items[i] \in ItemsIn(items) /\ items[i] = [id |-> r.target, val |-> r.base]
    <3>1. items[i] = [id |-> items[i].id, val |-> items[i].val]
      BY CollectionFields
    <3>2. items[i] \in ItemsIn(items)
      BY ItemOf
    <3> QED
      BY <3>1, <3>2
  <2>4. Changes(r, items, next)
    BY <1>2, <2>2, <2>3 DEF Changes
  <2>5. Shows(r, r.target, r.val, next)
    BY <1>2, <2>2 DEF Shows
  <2>6. PlanUpdate(r, items, i) =
          [expected |-> items, next |-> next, obj |-> r.target, rev |-> r.val]
    BY <1>2, <1>5, <2>1 DEF PlanUpdate
  <2>7. {r.target, r.payloadId} \subseteq {r.target, None}
    BY <1>5 DEF Mismatched
  <2> QED
    BY <1>1, <2>2, <2>4, <2>5, <2>6, <2>7, PreparedApplies
<1> QED
  BY <1>4, <1>5

LEMMA PlanDeleteOutcome ==
    ASSUME NEW r \in Request, r.action = "delete",
           NEW items \in Collection, UniqueIds(items),
           NEW i \in 1..Len(items), items[i] = [id |-> r.target, val |-> r.base]
    PROVE  Outcome(r, items, PlanDelete(r, items, i))
<1>1. r.target \in Object /\ items[i].id = r.target
  BY RequestAssumption
<1>2. PICK next : next = Without(items, i)
  OBVIOUS
<1>3. /\ next \in Collection /\ UniqueIds(next)
      /\ ItemsIn(next) = ItemsIn(items) \ {items[i]}
      /\ r.target \notin IdsIn(next)
  BY <1>1, <1>2, RemovesItem
<1>4. items[i] \in ItemsIn(items)
  BY ItemOf
<1>5. Changes(r, items, next)
  BY <1>3, <1>4 DEF Changes
<1>6. Shows(r, r.target, None, next)
  BY <1>3 DEF Shows
<1>7. PlanDelete(r, items, i) =
        [expected |-> items, next |-> next, obj |-> r.target, rev |-> None]
  BY <1>2 DEF PlanDelete
<1>8. {r.target, r.payloadId} \subseteq {r.target, None} /\ r.val = None
  BY RequestAssumption
<1> QED
  BY <1>1, <1>3, <1>5, <1>6, <1>7, <1>8, PreparedApplies

\* prepare() refuses for a reason that is true of the collection, or prepares
\* the requested change of it.
LEMMA PlanOutcome ==
    ASSUME NEW r \in Request, NEW items \in Collection, UniqueIds(items), NEW fresh,
           NeedsFreshId(r) => fresh \in FreshId
    PROVE  Outcome(r, items, Plan(r, items, fresh))
<1>1. CASE r.action = "create"
  <2>1. PICK id : id = AuthoritativeId(r, fresh)
    OBVIOUS
  <2>2. /\ id \in Object /\ r.target \in {id, None}
        /\ r.target = None => r.payloadId \in {id, None}
        /\ id \in BranchPromise!OnTip!IdsFor(r)
    <3>1. r.target \in Object \union {None} /\ r.payloadId \in Object \union {None}
      BY RequestAssumption
    <3>2. CASE r.target # None
      <4>1. id = r.target
        BY <2>1, <3>2 DEF AuthoritativeId
      <4>2. BranchPromise!OnTip!IdsFor(r) = {r.target}
        BY <3>2 DEF BranchPromise!OnTip!IdsFor
      <4> QED
        BY <3>1, <3>2, <4>1, <4>2
    <3>3. CASE r.target = None /\ r.payloadId # None
      <4>1. id = r.payloadId
        BY <2>1, <3>3 DEF AuthoritativeId
      <4>2. BranchPromise!OnTip!IdsFor(r) = {r.payloadId}
        BY <3>3 DEF BranchPromise!OnTip!IdsFor
      <4> QED
        BY <3>1, <3>3, <4>1, <4>2
    <3>4. CASE r.target = None /\ r.payloadId = None
      <4>1. id = fresh
        BY <2>1, <3>4 DEF AuthoritativeId
      <4>2. BranchPromise!OnTip!IdsFor(r) = Object
        BY <3>4 DEF BranchPromise!OnTip!IdsFor
      <4> QED
        BY <1>1, <3>4, <4>1, <4>2, FreshIdAssumption DEF NeedsFreshId
    <3> QED
      BY <3>2, <3>3, <3>4
  <2> QED
    BY <1>1, <2>1, <2>2, PlanCreateOutcome DEF Plan
<1>2. CASE r.action # "create"
  <2>1. r.action \in {"update", "delete"}
    BY <1>2, RequestAssumption DEF Action
  <2>2. PICK i : i = IndexOf(items, r.target)
    OBVIOUS
  <2>3. CASE ~Has(items, r.target)
    <3>1. r.target \notin IdsIn(items)
      BY <2>3, ItemOf
    <3>2. Refuses(r, items, Conflict("object-missing"))
      BY <1>2, <3>1 DEF Refuses
    <3> QED
      BY <1>2, <2>3, <3>2, ConflictRefuses DEF Plan, PlanChange
  <2>4. CASE Has(items, r.target) /\ ~BaseIsCurrent(r, items[i].val)
    <3>1. i \in 1..Len(items) /\ items[i].id = r.target /\ items[i].val # r.base
      BY <2>2, <2>4, IndexOfItem DEF BaseIsCurrent
    <3>2. r.target \in IdsIn(items)
      BY <3>1, ItemOf
    <3>3. ASSUME NEW j \in 1..Len(items), items[j] = [id |-> r.target, val |-> r.base]
          PROVE  FALSE
      <4>1. items[j].id = r.target /\ items[j].val = r.base
        BY <3>3
      <4>2. i = j
        BY <3>1, <4>1, CollectionFields DEF UniqueIds
      <4> QED
        BY <3>1, <4>1, <4>2
    <3>4. [id |-> r.target, val |-> r.base] \notin ItemsIn(items)
      BY <3>3, ItemOf
    <3>5. Refuses(r, items, Conflict("revision-mismatch"))
      BY <1>2, <3>2, <3>4 DEF Refuses
    <3> QED
      BY <1>2, <2>2, <2>4, <3>5, ConflictRefuses DEF Plan, PlanChange
  <2>5. CASE Has(items, r.target) /\ BaseIsCurrent(r, items[i].val)
    <3>1. i \in 1..Len(items) /\ items[i].id = r.target
      BY <2>2, <2>5, IndexOfItem
    <3>2. items[i] = [id |-> r.target, val |-> r.base]
      BY <2>5, <3>1, CollectionFields DEF BaseIsCurrent
    <3>3. CASE r.action = "update"
      <4>1. Plan(r, items, fresh) = PlanUpdate(r, items, i)
        BY <1>2, <2>2, <2>5, <3>3 DEF Plan, PlanChange
      <4> QED
        BY <2>5, <3>1, <3>3, <4>1, PlanUpdateOutcome DEF BaseIsCurrent
    <3>4. CASE r.action = "delete"
      <4>1. Plan(r, items, fresh) = PlanDelete(r, items, i)
        BY <1>2, <2>2, <2>5, <3>4 DEF Plan, PlanChange
      <4> QED
        BY <3>1, <3>2, <3>4, <4>1, PlanDeleteOutcome
    <3> QED
      BY <2>1, <3>3, <3>4
  <2> QED
    BY <2>3, <2>4, <2>5
<1> QED
  BY <1>1, <1>2

-----------------------------------------------------------------------------
(***************************************************************************)
(* Failures.                                                               *)
(***************************************************************************)
\* What a failure takes away does not come back.
FaultsGoOn ==
    /\ faults' \in FaultHistory
    /\ Free({"worktree"})' => Free({"worktree"})
    /\ CleanCheckout' => CleanCheckout
    /\ CertainPushes' => CertainPushes

LEMMA FaultFree ==
    ASSUME faults \in FaultHistory, NEW kind, Fault(kind), NEW kinds
    PROVE  /\ faults' \in FaultHistory
           /\ Free(kinds)' <=> (Free(kinds) /\ kind \notin kinds)
BY DEF Fault, FaultHistory, Free

LEMMA FaultTyped ==
    ASSUME faults \in FaultHistory, NEW kind, Fault(kind)
    PROVE  /\ FaultsGoOn
           /\ kind = "worktree" => ~Free({"worktree"})'
           /\ kind \in {"worktree", "recover"} => ~CleanCheckout'
           /\ kind \in {"ack", "worktree", "recover"} => ~CertainPushes'
<1>1. faults' \in FaultHistory
  BY FaultFree
<1>2. /\ Free({"worktree"})' => Free({"worktree"}) /\ kind \notin {"worktree"}
      /\ CleanCheckout' => CleanCheckout /\ kind \notin {"worktree", "recover"}
      /\ CertainPushes' => CertainPushes /\ kind \notin {"ack", "worktree", "recover"}
  BY FaultFree DEF CleanCheckout, CertainPushes
<1> QED
  BY <1>1, <1>2 DEF FaultsGoOn

LEMMA NoFault ==
    ASSUME faults \in FaultHistory, faults' = faults
    PROVE  FaultsGoOn
BY DEF FaultsGoOn, CleanCheckout, CertainPushes, Free

\* The conditions of the invariant, from the strongest to the weakest.
LEMMA FaultsOrdered ==
    (CertainPushes => CleanCheckout) /\ (CleanCheckout => FollowsBranch)
BY DEF CertainPushes, CleanCheckout, FollowsBranch, Free

-----------------------------------------------------------------------------
(***************************************************************************)
(* Shapes of requests, entries and provider calls.                         *)
(***************************************************************************)
LEMMA RequestFields ==
    ASSUME NEW r \in Request
    PROVE  r.id \in OpId /\ r.path \in Path /\ r.id \in Tag /\ r.id # Foreign
BY RequestAssumption, ServiceAssumption, TagsAssumption

LEMMA JobFields ==
    ASSUME ServiceTypeOK, job.pc # "idle"
    PROVE  /\ job.pc \in {"prepare", "load", "commit", "finalize"}
           /\ job.op \in Request
           /\ job.op.id \in OpId /\ job.op.path \in Path
           /\ job.op.id \in Tag /\ job.op.id # Foreign
BY RequestFields DEF ServiceTypeOK, Job

LEMMA JobSteps ==
    ASSUME ServiceTypeOK, job.pc # "idle",
           NEW pc \in {"prepare", "load", "commit", "finalize"}, GoTo(pc)
    PROVE  job' \in Job /\ job'.pc = pc /\ job'.op = job.op
BY DEF ServiceTypeOK, Job, GoTo

LEMMA PendingFields ==
    ASSUME ServiceTypeOK, NEW o \in OpId, IsPending(o)
    PROVE  /\ ledger[o] # None /\ ledger[o].status = None
           /\ ledger[o].op \in Request /\ ledger[o].op.id = o
           /\ ledger[o].prepared \in Prepared
           /\ ledger[o].prepared.expected \in Collection
           /\ ledger[o].prepared.next \in Collection
           /\ ledger[o].prepared.obj \in Object
           /\ ledger[o].prepared.rev \in Val \union {None}
<1>1. ledger[o] \in Entry /\ ledger[o].status = None /\ ledger[o].op.id = o
  BY DEF ServiceTypeOK, IsPending
<1>2. ledger[o] \in [op: Request, prepared: Prepared, status: {None}]
  BY <1>1, DistinctAssumption DEF Entry
<1> QED
  BY <1>1, <1>2, DistinctAssumption DEF Prepared

LEMMA UnsettledEntry ==
    ASSUME NEW r \in Request, NEW prepared \in Prepared
    PROVE  /\ Unsettled(r, prepared) \in Entry
           /\ Unsettled(r, prepared) # None
           /\ Unsettled(r, prepared).status = None
           /\ Unsettled(r, prepared).op = r
           /\ Unsettled(r, prepared).prepared = prepared
BY DistinctAssumption DEF Unsettled, Entry

LEMMA SettledEntry ==
    ASSUME NEW r \in Request, NEW status \in Status
    PROVE  /\ Settled(r, status) \in Entry
           /\ Settled(r, status) # None
           /\ Settled(r, status).status = status
           /\ Settled(r, status).status # None
           /\ Settled(r, status).op = r
BY DistinctAssumption DEF Settled, Entry

LEMMA SaveTyped ==
    ASSUME ServiceTypeOK, NEW r \in Request, NEW entry \in Entry, entry.op = r,
           Save(r, entry)
    PROVE  /\ ledger' \in [OpId -> Entry \union {None}]
           /\ ledger'[r.id] = entry
           /\ \A o \in OpId : o # r.id => ledger'[o] = ledger[o]
           /\ \A o \in OpId : ledger'[o] # None => ledger'[o].op.id = o
BY RequestFields DEF ServiceTypeOK, Save

LEMMA SlotTyped ==
    /\ Idle \in Slot
    /\ \A p \in Path : Reading(p) \in Slot
    /\ \A c \in Collection \union {Absent, Torn} :
         [step |-> "data", content |-> c] \in Slot
    /\ \A step \in {"committed", "conflict", "failed"} :
         [step |-> step] \in Slot
BY DEF Idle, Reading, Slot, CallState

LEMMA SlotSet ==
    ASSUME call \in [Caller -> Slot],
           NEW value \in Slot,
           call' = [call EXCEPT ![Service] = value]
    PROVE  call' \in [Caller -> Slot] /\ call'[Service] = value
BY ServiceAssumption

\* What a read reports, and what a commit carries.
LEMMA SlotFields ==
    ASSUME call \in [Caller -> Slot]
    PROVE  /\ call[Service] \in Slot
           /\ call[Service].step = "data" =>
                /\ call[Service].content \in Collection \union {Absent, Torn}
                /\ call[Service].content # Torn => LoadedItems \in Collection
           /\ call[Service].step \in {"commit", "push", "recover"} =>
                /\ call[Service].changes \in Seq(Change(Collection))
                /\ call[Service].tag \in Tag /\ call[Service].done \in Nat
<1>1. call[Service] \in Slot
  BY ServiceAssumption
<1>2. call[Service].step = "data" =>
        call[Service].content \in Collection \union {Absent, Torn}
  BY <1>1 DEF Slot, CallState
<1>3. EmptyBytes \in Collection
  BY EmptyAssumption DEF Collection
<1>4. call[Service].step \in {"commit", "push", "recover"} =>
        call[Service] \in [step: {"commit", "staged", "renaming", "push", "recover"},
                           changes: Seq(Change(Collection)), tag: Tag, done: Nat]
  BY <1>1 DEF Slot, CallState
<1> QED
  BY <1>1, <1>2, <1>3, <1>4 DEF LoadedItems, Bytes

LEMMA Advances ==
    ASSUME call \in [Caller -> Slot],
           call[Service].step \in {"commit", "push", "recover"},
           NEW step \in {"push", "recover"}, Advance(Service, step)
    PROVE  /\ call' \in [Caller -> Slot]
           /\ call'[Service].step = step /\ call'[Service].tag = call[Service].tag
           /\ call'[Service].changes = call[Service].changes
<1>1. /\ call[Service].changes \in Seq(Change(Collection))
      /\ call[Service].tag \in Tag /\ call[Service].done \in Nat
  BY SlotFields
<1>2. PICK c : c = [step |-> step, tag |-> call[Service].tag,
                    changes |-> call[Service].changes, done |-> call[Service].done]
  OBVIOUS
<1>3. c \in [step: {"commit", "staged", "renaming", "push", "recover"},
             changes: Seq(Change(Collection)), tag: Tag, done: Nat]
  BY <1>1, <1>2
<1>4. c \in Slot
  BY <1>3 DEF Slot, CallState
<1>5. call' = [call EXCEPT ![Service] = c]
  BY <1>2 DEF Advance
<1>6. call' \in [Caller -> Slot] /\ call'[Service] = c
  BY <1>4, <1>5, SlotSet
<1>7. /\ c.step = step /\ c.tag = call[Service].tag
      /\ c.changes = call[Service].changes
  BY <1>2
<1> QED
  BY <1>6, <1>7

\* The one change of a write.
LEMMA OneChange ==
    ASSUME NEW r \in Request, NEW prepared \in Prepared, NEW changes,
           changes = WriteOf(r, prepared)
    PROVE  /\ changes \in Seq(Change(Collection)) /\ Len(changes) = 1
           /\ DOMAIN changes = {1}
           /\ changes[1].path = r.path /\ changes[1].content = prepared.next
           /\ changes[1].expected = prepared.expected /\ ~changes[1].ifAbsent
           /\ prepared.next \in Collection /\ prepared.expected \in Collection
           /\ r.path \in Path
<1>1. PICK c : c = [path |-> r.path, content |-> prepared.next,
                    ifAbsent |-> FALSE, expected |-> prepared.expected]
  OBVIOUS
<1>2. /\ prepared.next \in Collection /\ prepared.expected \in Collection
      /\ r.path \in Path
  BY RequestFields DEF Prepared
<1>3. c \in Change(Collection)
  BY <1>1, <1>2 DEF Change
<1>4. changes = <<c>>
  BY <1>1 DEF WriteOf
<1>5. changes \in Seq(Change(Collection)) /\ Len(changes) = 1 /\ DOMAIN changes = {1}
      /\ changes[1] = c
  BY <1>3, <1>4
<1> QED
  BY <1>1, <1>2, <1>5

LEMMA CommittingTyped ==
    ASSUME NEW r \in Request, NEW prepared \in Prepared
    PROVE  /\ Committing(WriteOf(r, prepared), r.id) \in Slot
           /\ Committing(WriteOf(r, prepared), r.id).step = "commit"
           /\ Committing(WriteOf(r, prepared), r.id).tag = r.id
           /\ Committing(WriteOf(r, prepared), r.id).changes = WriteOf(r, prepared)
<1>1. PICK changes : changes = WriteOf(r, prepared)
  OBVIOUS
<1>2. changes \in Seq(Change(Collection)) /\ r.id \in Tag
  BY <1>1, OneChange, RequestFields
<1>3. PICK c : c = [step |-> "commit", changes |-> changes, tag |-> r.id, done |-> 0]
  OBVIOUS
<1>4. c \in [step: {"commit", "staged", "renaming", "push", "recover"},
             changes: Seq(Change(Collection)), tag: Tag, done: Nat]
  BY <1>2, <1>3
<1>5. c = Committing(WriteOf(r, prepared), r.id)
  BY <1>1, <1>3 DEF Committing
<1> QED
  BY <1>1, <1>3, <1>4, <1>5 DEF Slot, CallState

-----------------------------------------------------------------------------
(***************************************************************************)
(* Trees.                                                                  *)
(***************************************************************************)
LEMMA BytesOf ==
    ASSUME NEW c \in Collection \union {Absent}
    PROVE  Bytes(c) \in Collection /\ (c # Absent => Bytes(c) = c)
BY EmptyAssumption DEF Bytes, Collection

LEMMA CollectionBytes ==
    ASSUME NEW c \in Collection
    PROVE  Bytes(c) = c /\ c # Absent
BY DistinctAssumption DEF Bytes

\* IsRequestedChange speaks of the collections at the request's path only.
LEMMA RequestedChange ==
    ASSUME NEW r \in Request, NEW before, NEW after, NEW old, NEW new,
           Bytes(before[r.path]) = old, Bytes(after[r.path]) = new,
           Changes(r, old, new)
    PROVE  IsRequestedChange(r, before, after)
BY DEF IsRequestedChange

\* A status that reports what the branch had is true.
LEMMA ShownOnBranch ==
    ASSUME NEW r \in Request, NEW status, NEW items,
           Had(items, r.path), Shows(r, status.obj, status.rev, items)
    PROVE  OnceAuthoritative(r, status)
BY DEF Had, OnceAuthoritative

\* A tree of the branch is one the checkout can have.
LEMMA TreesLocal ==
    ASSUME NEW tree \in Tree
    PROVE  tree \in LocalTree /\ \A p \in Path : tree[p] # Torn
BY DistinctAssumption DEF Tree, LocalTree

LEMMA OnePath ==
    ASSUME NEW r \in Request, NEW prepared \in Prepared, NEW changes,
           changes = WriteOf(r, prepared)
    PROVE  /\ ChangedPaths(changes) = {r.path}
           /\ ChangedPaths(SubSeq(changes, 1, 1)) = {r.path}
<1>1. /\ changes \in Seq(Change(Collection)) /\ Len(changes) = 1 /\ DOMAIN changes = {1}
      /\ changes[1].path = r.path
  BY OneChange
<1>2. ChangedPaths(changes) = {r.path}
  BY <1>1 DEF ChangedPaths
<1>3. PICK part : part = SubSeq(changes, 1, 1)
  OBVIOUS
<1>4. DOMAIN part = {1} /\ part[1] = changes[1]
  BY <1>1, <1>3
<1> QED
  BY <1>1, <1>2, <1>3, <1>4 DEF ChangedPaths

\* A tree with the write of an operation.
LEMMA OneWritten ==
    ASSUME NEW r \in Request, NEW prepared \in Prepared, NEW changes,
           changes = WriteOf(r, prepared), NEW tree \in LocalTree,
           NEW top, top = Written(tree, changes, 1) \/ top = AllWritten(tree, changes)
    PROVE  /\ top \in LocalTree /\ (tree \in Tree => top \in Tree)
           /\ top[r.path] = prepared.next
           /\ Bytes(top[r.path]) = prepared.next
           /\ \A p \in Path : p # r.path => top[p] = tree[p]
           /\ (UniqueTree(tree) /\ UniqueIds(prepared.next)) => UniqueTree(top)
<1>1. /\ Len(changes) = 1 /\ DOMAIN changes = {1}
      /\ changes[1].path = r.path /\ changes[1].content = prepared.next
      /\ prepared.next \in Collection /\ r.path \in Path
  BY OneChange
<1>2. top = Written(tree, changes, 1)
  BY <1>1 DEF AllWritten
<1>3. ASSUME NEW p \in Path
      PROVE  top[p] = IF p = r.path THEN prepared.next ELSE tree[p]
  <2>1. PICK writes : writes = {i \in DOMAIN changes : changes[i].path = p /\ i <= 1}
    OBVIOUS
  <2>2. top[p] = IF writes = {} THEN tree[p]
                 ELSE changes[CHOOSE i \in writes : \A j \in writes : j <= i].content
    BY <1>2, <2>1 DEF Written
  <2>3. CASE p = r.path
    <3>1. writes = {1}
      BY <1>1, <2>1, <2>3
    <3>2. (CHOOSE i \in writes : \A j \in writes : j <= i) = 1
      BY <3>1
    <3> QED
      BY <1>1, <2>2, <2>3, <3>1, <3>2
  <2>4. CASE p # r.path
    <3>1. writes = {}
      BY <1>1, <2>1, <2>4
    <3> QED
      BY <2>2, <2>4, <3>1
  <2> QED
    BY <2>3, <2>4
<1>4. top \in LocalTree /\ (tree \in Tree => top \in Tree)
  <2>1. \E f : top = [p \in Path |-> f[p]]
    <3>1. top = [p \in Path |->
              LET writes == {i \in DOMAIN changes : changes[i].path = p /\ i <= 1}
              IN  IF writes = {} THEN tree[p]
                  ELSE changes[CHOOSE i \in writes : \A j \in writes : j <= i].content]
      BY <1>2 DEF Written
    <3>2. top = [p \in Path |-> top[p]]
      BY <3>1
    <3> QED
      BY <3>2
  <2> QED
    BY <1>1, <1>3, <2>1 DEF Tree, LocalTree
<1>5. Bytes(top[r.path]) = prepared.next
  BY <1>1, <1>3, CollectionBytes
<1>6. (UniqueTree(tree) /\ UniqueIds(prepared.next)) => UniqueTree(top)
  BY <1>1, <1>3, <1>5 DEF UniqueTree
<1> QED
  BY <1>1, <1>3, <1>4, <1>5, <1>6

\* A write whose precondition holds finds what it expects.
LEMMA ExpectedFound ==
    ASSUME NEW r \in Request, NEW prepared \in Prepared, NEW changes,
           changes = WriteOf(r, prepared), NEW tree, PreconditionsHold(changes, tree)
    PROVE  Bytes(tree[r.path]) = prepared.expected
<1>1. /\ DOMAIN changes = {1} /\ changes[1].path = r.path
      /\ changes[1].expected = prepared.expected /\ prepared.expected \in Collection
  BY OneChange
<1>2. prepared.expected # Unchecked
  BY <1>1, DistinctAssumption
<1>3. PreconditionHolds(changes[1], tree)
  BY <1>1 DEF PreconditionsHold
<1> QED
  BY <1>1, <1>2, <1>3 DEF PreconditionHolds

-----------------------------------------------------------------------------
(***************************************************************************)
(* The branch.                                                             *)
(***************************************************************************)
LEMMA RemoteFields ==
    ASSUME RemoteOK
    PROVE  /\ Len(remote) \in Nat /\ Len(remote) >= 1 /\ Len(remote) \in DOMAIN remote
           /\ DOMAIN remote = 1..Len(remote) /\ base \in 1..Len(remote)
           /\ \A i \in 1..Len(remote) :
                /\ remote[i].tag \in Tag /\ remote[i].tree \in Tree
                /\ UniqueTree(remote[i].tree)
           /\ Tip \in Tree /\ UniqueTree(Tip)
<1>1. Len(remote) \in Nat /\ DOMAIN remote = 1..Len(remote) /\ base \in 1..Len(remote)
  BY DEF RemoteOK
<1>2. Len(remote) >= 1
  BY <1>1
<1>3. \A i \in 1..Len(remote) : remote[i] \in [tag: Tag, tree: Tree]
  <2>1. PICK C : C = [tag: Tag, tree: Tree]
    OBVIOUS
  <2>2. remote \in Seq(C)
    BY <2>1 DEF RemoteOK
  <2>3. \A i \in 1..Len(remote) : remote[i] \in C
    BY <2>2
  <2> QED
    BY <2>1, <2>3
<1>4. \A i \in 1..Len(remote) : remote[i].tag \in Tag /\ remote[i].tree \in Tree
  BY <1>3
<1>5. \A i \in 1..Len(remote) : UniqueTree(remote[i].tree)
  BY <1>1 DEF RemoteOK
<1>6. Len(remote) \in 1..Len(remote)
  BY <1>1, <1>2
<1> QED
  BY <1>1, <1>2, <1>4, <1>5, <1>6 DEF Tip

\* A commit on top of the branch is the change its operation asks for.
RequestedOnTop(t, top) ==
    /\ ledger[t] # None
    /\ IsRequestedChange(ledger[t].op, Tip, top)
    /\ \A p \in Path \ {ledger[t].op.path} : top[p] = Tip[p]

\* The branch gets a commit.
LEMMA BranchGrows ==
    ASSUME RemoteOK, FaultsGoOn, UNCHANGED <<ledger, base>>,
           NEW t \in OpId \union {Foreign}, NEW top \in Tree, UniqueTree(top),
           remote' = Append(remote, [tag |-> t, tree |-> top]),
           t # Foreign => ledger[t] # None,
           (FollowsBranch /\ t # Foreign) => RequestedOnTop(t, top)
    PROVE  /\ RemoteOK' /\ Tip' = top
           /\ FollowsBranch' => FollowsBranch
           /\ base \in DOMAIN remote' /\ remote'[base] = remote[base]
           /\ \A o : OnTop(o)' <=> o = t
           /\ \A c, p : Had(c, p) => Had(c, p)'
           /\ \A p : Had(Bytes(top[p]), p)'
           /\ \A tree : (\E i \in DOMAIN remote : tree = remote[i].tree) =>
                \E i \in DOMAIN remote' : tree = remote'[i].tree
           /\ \E i \in DOMAIN remote' : top = remote'[i].tree
           /\ \A op, status : OnceAuthoritative(op, status) =>
                                OnceAuthoritative(op, status)'
<1>1. PICK n : n = Len(remote)
  OBVIOUS
<1>2. /\ n \in Nat /\ n >= 1 /\ DOMAIN remote = 1..n /\ base \in 1..n
      /\ \A i \in 1..n : UniqueTree(remote[i].tree)
  BY <1>1, RemoteFields
<1>3. PICK C : C = [tag: Tag, tree: Tree]
  OBVIOUS
<1>4. PICK new : new = [tag |-> t, tree |-> top]
  OBVIOUS
<1>5. t \in Tag
  BY ServiceAssumption, TagsAssumption
<1>6. new \in C /\ new.tag = t /\ new.tree = top
  BY <1>3, <1>4, <1>5
<1>7. remote \in Seq(C)
  BY <1>3 DEF RemoteOK
<1>8. /\ remote' \in Seq(C) /\ Len(remote') = n + 1 /\ DOMAIN remote' = 1..(n + 1)
      /\ remote'[n + 1] = new
      /\ \A i \in 1..n : remote'[i] = remote[i]
  BY <1>1, <1>2, <1>4, <1>6, <1>7, AppendProperties
<1>9. Tip' = top /\ \A o : OnTop(o)' <=> o = t
  BY <1>6, <1>8 DEF Tip, OnTop
<1>10. FollowsBranch' => FollowsBranch
  BY <1>2, <1>8 DEF FollowsBranch, FaultsGoOn
<1>11. ASSUME NEW i \in 1..(n + 1)
       PROVE  /\ UniqueTree(remote'[i].tree)
              /\ remote'[i].tag \in OpId \union {Foreign}
              /\ remote'[i].tag # Foreign => ledger[remote'[i].tag] # None
  <2>1. CASE i = n + 1
    BY <1>6, <1>8, <2>1
  <2>2. CASE i \in 1..n
    BY <1>2, <1>8, <2>2 DEF RemoteOK
  <2> QED
    BY <1>2, <2>1, <2>2
<1>12. ASSUME FollowsBranch'
       PROVE  CommitsAreRequestedChanges'
  <2>1. CommitsAreRequestedChanges
    BY <1>10, <1>12 DEF RemoteOK
  <2>2. ASSUME NEW i \in 2..(n + 1), remote'[i].tag # Foreign
        PROVE  /\ ledger[remote'[i].tag] # None
               /\ IsRequestedChange(ledger[remote'[i].tag].op,
                                    remote'[i - 1].tree, remote'[i].tree)
               /\ \A p \in Path \ {ledger[remote'[i].tag].op.path} :
                    remote'[i].tree[p] = remote'[i - 1].tree[p]
    <3>1. i - 1 \in 1..n /\ remote'[i - 1] = remote[i - 1]
      BY <1>2, <1>8
    <3>2. CASE i = n + 1
      <4>1. i - 1 = n /\ remote'[i - 1].tree = Tip
        BY <1>1, <1>2, <3>1, <3>2 DEF Tip
      <4>2. remote'[i].tag = t /\ remote'[i].tree = top
        BY <1>6, <1>8, <3>2
      <4>3. RequestedOnTop(t, top)
        BY <1>10, <1>12, <2>2, <4>2
      <4> QED
        BY <4>1, <4>2, <4>3 DEF RequestedOnTop
    <3>3. CASE i \in 2..n
      <4>1. remote'[i] = remote[i] /\ i \in 2..Len(remote)
        BY <1>1, <1>2, <1>8, <3>3
      <4> QED
        BY <2>1, <2>2, <3>1, <4>1 DEF CommitsAreRequestedChanges
    <3> QED
      BY <1>2, <3>2, <3>3
  <2>3. ledger' = ledger
    OBVIOUS
  <2> QED
    BY <1>8, <2>2, <2>3 DEF CommitsAreRequestedChanges
<1>13. base \in DOMAIN remote' /\ remote'[base] = remote[base]
  BY <1>2, <1>8
<1>14. RemoteOK'
  BY <1>3, <1>8, <1>11, <1>12, <1>13 DEF RemoteOK, UniqueTree, UniqueIds, Bytes
<1>15. \A c, p : Had(c, p) => Had(c, p)'
  BY <1>2, <1>8 DEF Had
<1>16. \A p : Had(Bytes(top[p]), p)'
  <2>1. n + 1 \in 1..(n + 1) /\ remote'[n + 1].tree = top
    BY <1>2, <1>6, <1>8
  <2> QED
    BY <1>8, <2>1 DEF Had
<1>17. \A tree : (\E i \in DOMAIN remote : tree = remote[i].tree) =>
           \E i \in DOMAIN remote' : tree = remote'[i].tree
  BY <1>2, <1>8
<1>18. \E i \in DOMAIN remote' : top = remote'[i].tree
  BY <1>2, <1>6, <1>8
<1>19. \A op, status : OnceAuthoritative(op, status) => OnceAuthoritative(op, status)'
  BY <1>2, <1>8 DEF OnceAuthoritative
<1> QED
  BY <1>9, <1>10, <1>13, <1>14, <1>15, <1>16, <1>17, <1>18, <1>19

\* The branch stays as it is, and the ledger forgets nothing.
LEMMA BranchStays ==
    ASSUME RemoteOK, FaultsGoOn, UNCHANGED remote, base' \in DOMAIN remote,
           \A o \in OpId : ledger[o] # None =>
             ledger'[o] # None /\ ledger'[o].op = ledger[o].op
    PROVE  /\ RemoteOK' /\ Tip' = Tip
           /\ FollowsBranch' => FollowsBranch
           /\ \A o : OnTop(o)' <=> OnTop(o)
           /\ \A c, p : Had(c, p)' <=> Had(c, p)
           /\ \A op, status : OnceAuthoritative(op, status)' <=>
                                OnceAuthoritative(op, status)
<1>1. FollowsBranch' => FollowsBranch
  BY DEF FollowsBranch, FaultsGoOn
<1>2. \A i \in DOMAIN remote : remote[i].tag # Foreign => remote[i].tag \in OpId
  BY DEF RemoteOK
<1>3. ASSUME FollowsBranch'
      PROVE  CommitsAreRequestedChanges'
  <2>1. CommitsAreRequestedChanges
    BY <1>1, <1>3 DEF RemoteOK
  <2>2. ASSUME NEW i \in 2..Len(remote), remote[i].tag # Foreign
        PROVE  /\ ledger'[remote[i].tag] # None
               /\ ledger'[remote[i].tag].op = ledger[remote[i].tag].op
               /\ IsRequestedChange(ledger[remote[i].tag].op,
                                    remote[i - 1].tree, remote[i].tree)
               /\ \A p \in Path \ {ledger[remote[i].tag].op.path} :
                    remote[i].tree[p] = remote[i - 1].tree[p]
    <3>1. i \in DOMAIN remote
      BY RemoteFields
    <3> QED
      BY <1>2, <2>1, <2>2, <3>1 DEF CommitsAreRequestedChanges
  <2> QED
    BY <2>2 DEF CommitsAreRequestedChanges
<1>4. RemoteOK'
  BY <1>2, <1>3 DEF RemoteOK, UniqueTree, UniqueIds, Bytes
<1> QED
  BY <1>1, <1>4 DEF Tip, OnTop, Had, OnceAuthoritative

-----------------------------------------------------------------------------
(***************************************************************************)
(* Steps of the service.                                                   *)
(***************************************************************************)
\* The ledger forgets no operation and does not bind one to another request.
LedgerGoesOn ==
    \A o \in OpId : ledger[o] # None =>
      ledger'[o] # None /\ ledger'[o].op = ledger[o].op

\* An entry that stays, on a branch that keeps its commits.
LEMMA EntryStays ==
    ASSUME FaultsGoOn, NEW o \in OpId, ledger'[o] = ledger[o], EntryOK(o),
           OnTop(o)' => OnTop(o) /\ Tip' = Tip,
           \A op, status : OnceAuthoritative(op, status) => OnceAuthoritative(op, status)'
    PROVE  EntryOK(o)'
<1>1. (IsPending(o)' <=> IsPending(o)) /\ (IsSettled(o)' <=> IsSettled(o))
  BY DEF IsPending, IsSettled
<1>2. IsPending(o)' => Applies(ledger'[o].op, ledger'[o].prepared)
  BY <1>1 DEF EntryOK
<1>3. (CleanCheckout' /\ IsSettled(o)' /\ ledger'[o].status.state = "source-committed") =>
        OnceAuthoritative(ledger[o].op, ledger[o].status)'
  <2>1. PICK op, status : op = ledger[o].op /\ status = ledger[o].status
    OBVIOUS
  <2>2. OnceAuthoritative(op, status) => OnceAuthoritative(op, status)'
    OBVIOUS
  <2> QED
    BY <1>1, <2>1, <2>2 DEF EntryOK, FaultsGoOn
<1>4. (CertainPushes' /\ OnTop(o)') =>
        /\ IsSettled(o)' => ledger'[o].status.state = "source-committed"
        /\ IsPending(o)' => Bytes(Tip'[ledger'[o].op.path]) = ledger'[o].prepared.next
  BY <1>1 DEF EntryOK, FaultsGoOn
<1> QED
  BY <1>2, <1>3, <1>4 DEF EntryOK

LEMMA ServiceKeeps ==
    ASSUME IInv, UNCHANGED gitVars, FaultsGoOn, ServiceTypeOK',
           call' \in [Caller -> Slot], LedgerGoesOn,
           \A o \in OpId : ledger'[o] = ledger[o] \/ EntryOK(o)',
           JobOK', SlotOK'
    PROVE  IInv'
<1>1. /\ RemoteOK /\ CheckoutOK /\ \A o \in OpId : EntryOK(o)
      /\ remote' = remote /\ local' = local /\ untracked' = untracked /\ base' = base
      /\ gateHolder' = gateHolder /\ initialized' = initialized
      /\ base' \in DOMAIN remote
  BY DEF IInv, gitVars, RemoteOK
<1>2. /\ RemoteOK' /\ Tip' = Tip /\ (FollowsBranch' => FollowsBranch)
      /\ \A o : OnTop(o)' <=> OnTop(o)
      /\ \A op, status : OnceAuthoritative(op, status)' <=> OnceAuthoritative(op, status)
  BY <1>1, BranchStays DEF LedgerGoesOn
<1>3. CheckoutOK'
  BY <1>1, <1>2 DEF CheckoutOK, FaultsGoOn, UniqueTree, UniqueIds, Bytes
<1>4. ASSUME NEW o \in OpId, ledger'[o] = ledger[o]
      PROVE  EntryOK(o)'
  BY <1>1, <1>2, <1>4, EntryStays
<1>5. \A o \in OpId : EntryOK(o)'
  BY <1>4
<1>6. faults' \in FaultHistory
  BY DEF FaultsGoOn
<1> QED
  BY <1>2, <1>3, <1>5, <1>6 DEF IInv

\* The request in the gate has asked for its collection.
LEMMA Asks ==
    ASSUME call \in [Caller -> Slot],
           NEW r \in Request, NEW pc \in {"prepare", "load", "finalize"},
           job'.pc = pc, job'.op = r, Ask(Service, Reading(r.path)),
           (CertainPushes' /\ OnTop(r.id)') => pc # "prepare",
           (CleanCheckout' /\ pc = "finalize") =>
             Had(ledger[r.id].prepared.next, r.path)'
    PROVE  call' \in [Caller -> Slot] /\ SlotOK'
<1>1. PICK slot : slot = Reading(r.path)
  OBVIOUS
<1>2. slot \in Slot /\ slot.step = "read" /\ slot.path = r.path
  BY <1>1, RequestFields, SlotTyped DEF Reading
<1>3. call' = [call EXCEPT ![Service] = slot]
  BY <1>1 DEF Ask
<1>4. call' \in [Caller -> Slot] /\ call'[Service] = slot
  BY <1>2, <1>3, SlotSet
<1>5. (CleanCheckout' /\ job'.pc = "finalize") =>
        Had(ledger[job.op.id].prepared.next, job.op.path)'
  <2>1. PICK c, p : c = ledger'[r.id].prepared.next /\ p = r.path
    OBVIOUS
  <2>2. (CleanCheckout' /\ pc = "finalize") => Had(c, p)'
    BY <2>1
  <2> QED
    BY <2>1, <2>2
<1>6. ReadOK(call[Service])'
  BY <1>2, <1>4, <1>5 DEF ReadOK
<1>7. job'.pc \notin {"idle", "commit"}
  OBVIOUS
<1> QED
  BY <1>4, <1>6, <1>7 DEF SlotOK

\* The request leaves the gate.
LEMMA Finishes ==
    ASSUME call \in [Caller -> Slot], Finish
    PROVE  /\ call' \in [Caller -> Slot] /\ job' \in Job
           /\ JobOK' /\ SlotOK'
<1>1. job' = [pc |-> "idle"] /\ call' = [call EXCEPT ![Service] = Idle]
  BY DEF Finish, Release
<1>2. call' \in [Caller -> Slot] /\ call'[Service] = Idle
  BY <1>1, SlotTyped, SlotSet
<1>3. job' \in Job /\ job'.pc = "idle"
  BY <1>1 DEF Job
<1> QED
  BY <1>2, <1>3 DEF JobOK, SlotOK

\* Steps of the service that leave the ledger alone.
LEMMA HandlerKeeps ==
    ASSUME IInv, UNCHANGED <<ledger, gitVars, minted>>, FaultsGoOn, job' \in Job,
           call' \in [Caller -> Slot], JobOK', SlotOK'
    PROVE  IInv'
<1>1. ServiceTypeOK
  BY DEF IInv
<1>2. ServiceTypeOK'
  BY <1>1 DEF ServiceTypeOK
<1>3. LedgerGoesOn /\ \A o \in OpId : ledger'[o] = ledger[o]
  BY DEF LedgerGoesOn
<1> QED
  BY <1>2, <1>3, ServiceKeeps

LEMMA SubmitKeeps ==
    ASSUME IInv, NEW r \in Request, Submit(r), UNCHANGED gitVars
    PROVE  IInv'
<1>1. /\ call \in [Caller -> Slot] /\ faults \in FaultHistory
      /\ RemoteOK /\ r.id \in OpId /\ r.id # Foreign
  BY RequestFields DEF IInv
<1>2. /\ ledger[r.id] = None /\ job' = [pc |-> "prepare", op |-> r]
      /\ Ask(Service, Reading(r.path))
      /\ ledger' = ledger /\ minted' = minted /\ faults' = faults
  BY DEF Submit
<1>3. FaultsGoOn
  BY <1>1, <1>2, NoFault
<1>4. ~OnTop(r.id)'
  BY <1>1, <1>2, RemoteFields DEF OnTop, RemoteOK, gitVars
<1>5. job' \in Job /\ job'.pc = "prepare" /\ job'.op = r
  BY <1>2 DEF Job
<1>6. call' \in [Caller -> Slot] /\ SlotOK'
  BY <1>1, <1>2, <1>4, <1>5, Asks
<1>7. JobOK'
  BY <1>2, <1>5 DEF JobOK
<1> QED
  BY <1>2, <1>3, <1>5, <1>6, <1>7, HandlerKeeps

LEMMA ResumeKeeps ==
    ASSUME IInv, NEW r \in Request, Resume(r), UNCHANGED gitVars
    PROVE  IInv'
<1>1. /\ call \in [Caller -> Slot] /\ faults \in FaultHistory
      /\ r.id \in OpId
  BY RequestFields DEF IInv
<1>2. /\ IsPending(r.id) /\ ledger[r.id].op = r /\ job' = [pc |-> "load", op |-> r]
      /\ Ask(Service, Reading(r.path))
      /\ ledger' = ledger /\ minted' = minted /\ faults' = faults
  BY DEF Resume
<1>3. FaultsGoOn
  BY <1>1, <1>2, NoFault
<1>4. job' \in Job /\ job'.pc = "load" /\ job'.op = r
  BY <1>2 DEF Job
<1>5. call' \in [Caller -> Slot] /\ SlotOK'
  BY <1>1, <1>2, <1>4, Asks
<1>6. JobOK'
  BY <1>2, <1>4 DEF JobOK, IsPending
<1> QED
  BY <1>2, <1>3, <1>4, <1>5, <1>6, HandlerKeeps

\* What is known where the request in the gate has its collection.
LEMMA DataRead ==
    ASSUME IInv, job.pc \in {"prepare", "load", "finalize"}, call[Service].step = "data"
    PROVE  /\ call \in [Caller -> Slot] /\ faults \in FaultHistory
           /\ ServiceTypeOK /\ RemoteOK
           /\ job.op \in Request /\ job.op.id \in OpId /\ job.op.id # Foreign
           /\ call[Service].content # Torn =>
                LoadedItems \in Collection /\ UniqueIds(LoadedItems)
           /\ CleanCheckout =>
                /\ Had(LoadedItems, job.op.path)
                /\ ~OnTop(Foreign) => LoadedItems = Bytes(Tip[job.op.path])
           /\ (CertainPushes /\ OnTop(job.op.id)) => job.pc # "prepare"
           /\ (CleanCheckout /\ job.pc = "finalize") =>
                Had(ledger[job.op.id].prepared.next, job.op.path)
<1>1. /\ call \in [Caller -> Slot] /\ faults \in FaultHistory
      /\ ServiceTypeOK /\ RemoteOK
      /\ job.op \in Request /\ job.op.id \in OpId /\ job.op.id # Foreign
  BY JobFields DEF IInv
<1>2. call[Service].content # Torn => LoadedItems \in Collection
  BY <1>1, SlotFields
<1>3. ReadOK(call[Service])
  BY DEF IInv, SlotOK
<1> QED
  BY <1>1, <1>2, <1>3 DEF ReadOK, LoadedItems

\* The operation in the gate is pending, and its prepared write applies to it.
LEMMA JobPending ==
    ASSUME IInv, job.pc \in {"load", "commit", "finalize"}
    PROVE  /\ IsPending(job.op.id) /\ ledger[job.op.id] # None
           /\ ledger[job.op.id].op = job.op
           /\ ledger[job.op.id].prepared \in Prepared
           /\ Applies(job.op, ledger[job.op.id].prepared)
           /\ EntryOK(job.op.id)
<1>1. ServiceTypeOK /\ JobOK /\ \A o \in OpId : EntryOK(o)
  BY DEF IInv
<1>2. job.op.id \in OpId
  BY <1>1, JobFields
<1>3. /\ ledger[job.op.id] # None /\ ledger[job.op.id].op = job.op
      /\ IsPending(job.op.id)
  BY <1>1 DEF JobOK
<1> QED
  BY <1>1, <1>2, <1>3, PendingFields DEF EntryOK

\* The entry of the request in the gate is saved.
LEMMA SavesEntry ==
    ASSUME IInv, job.pc # "idle", NEW entry \in Entry, entry.op = job.op,
           Save(job.op, entry)
    PROVE  /\ ledger' \in [OpId -> Entry \union {None}]
           /\ ledger'[job.op.id] = entry
           /\ \A o \in OpId : ledger'[o] # None => ledger'[o].op.id = o
           /\ \A o \in OpId : o # job.op.id => ledger'[o] = ledger[o]
           /\ LedgerGoesOn
<1>1. ServiceTypeOK /\ job.op \in Request /\ job.op.id \in OpId /\ JobOK
  BY JobFields DEF IInv
<1>2. /\ ledger' \in [OpId -> Entry \union {None}]
      /\ ledger'[job.op.id] = entry
      /\ \A o \in OpId : o # job.op.id => ledger'[o] = ledger[o]
      /\ \A o \in OpId : ledger'[o] # None => ledger'[o].op.id = o
  BY <1>1, SaveTyped
<1>3. entry # None
  BY DistinctAssumption
<1>4. ledger[job.op.id] # None => ledger[job.op.id].op = job.op
  BY <1>1 DEF JobOK
<1>5. LedgerGoesOn
  BY <1>2, <1>3, <1>4 DEF LedgerGoesOn
<1> QED
  BY <1>2, <1>5

LEMMA PrepareKeeps ==
    ASSUME IInv, Prepare, UNCHANGED gitVars
    PROVE  IInv'
<1>1. PICK r, o, items : r = job.op /\ o = job.op.id /\ items = LoadedItems
  OBVIOUS
<1>2. /\ job.pc = "prepare" /\ call[Service].step = "data"
      /\ call[Service].content # Torn /\ faults' = faults
  BY DEF Prepare, Loaded, Replied
<1>3. /\ call \in [Caller -> Slot] /\ faults \in FaultHistory
      /\ ServiceTypeOK /\ RemoteOK
      /\ r \in Request /\ o \in OpId /\ r.id = o
      /\ items \in Collection /\ UniqueIds(items)
      /\ ~(CertainPushes /\ OnTop(o))
  BY <1>1, <1>2, DataRead
<1>4. FaultsGoOn
  BY <1>2, <1>3, NoFault
<1>5. PICK fresh \in IF NeedsFreshId(r) THEN FreshId \ minted ELSE {None} :
        LET plan == Plan(r, items, fresh)
        IN  /\ minted' = minted \union ({fresh} \ {None})
            /\ IF IsPrepared(plan)
                 THEN /\ Save(r, Unsettled(r, plan))
                      /\ GoTo("load")
                      /\ Ask(Service, Reading(r.path))
                 ELSE Save(r, Settled(r, plan)) /\ Finish
  BY <1>1 DEF Prepare
<1>6. PICK plan : plan = Plan(r, items, fresh)
  OBVIOUS
<1>7. minted' \subseteq FreshId
  BY <1>3, <1>5 DEF ServiceTypeOK
<1>8. Outcome(r, items, plan)
  BY <1>3, <1>5, <1>6, PlanOutcome
<1>9. /\ remote' = remote /\ (CertainPushes' => CertainPushes)
      /\ ~(CertainPushes /\ OnTop(o))'
  BY <1>3, <1>4 DEF FaultsGoOn, OnTop, gitVars
<1>10. CASE IsPrepared(plan)
  <2>1. plan \in Prepared /\ Applies(r, plan)
    BY <1>8, <1>10 DEF Outcome
  <2>2. PICK entry : entry = Unsettled(r, plan)
    OBVIOUS
  <2>3. /\ entry \in Entry /\ entry # None /\ entry.status = None
        /\ entry.op = r /\ entry.prepared = plan
    BY <1>3, <2>1, <2>2, UnsettledEntry
  <2>4. Save(r, entry) /\ GoTo("load") /\ Ask(Service, Reading(r.path))
    BY <1>5, <1>6, <1>10, <2>2
  <2>5. /\ ledger' \in [OpId -> Entry \union {None}] /\ ledger'[o] = entry
        /\ \A p \in OpId : ledger'[p] # None => ledger'[p].op.id = p
        /\ \A p \in OpId : p # o => ledger'[p] = ledger[p]
        /\ LedgerGoesOn
    BY <1>1, <1>2, <2>3, <2>4, SavesEntry
  <2>6. job' \in Job /\ job'.pc = "load" /\ job'.op = r
    BY <1>1, <1>2, <1>3, <2>4, JobSteps
  <2>7. ServiceTypeOK'
    BY <1>7, <2>5, <2>6 DEF ServiceTypeOK
  <2>8. call' \in [Caller -> Slot] /\ SlotOK'
    BY <1>3, <2>4, <2>6, Asks
  <2>9. IsPending(o)' /\ ~IsSettled(o)'
    BY <2>3, <2>5 DEF IsPending, IsSettled
  <2>10. JobOK'
    BY <1>3, <2>3, <2>5, <2>6, <2>9 DEF JobOK
  <2>11. Applies(ledger'[o].op, ledger'[o].prepared)
    BY <2>1, <2>3, <2>5
  <2>12. EntryOK(o)'
    BY <1>9, <2>9, <2>11 DEF EntryOK
  <2> QED
    BY <1>4, <2>5, <2>7, <2>8, <2>10, <2>12, ServiceKeeps
<1>11. CASE ~IsPrepared(plan)
  <2>1. plan \in Status /\ plan.state # "source-committed"
    BY <1>8, <1>11 DEF Outcome, Refusal
  <2>2. PICK entry : entry = Settled(r, plan)
    OBVIOUS
  <2>3. /\ entry \in Entry /\ entry # None /\ entry.status = plan
        /\ entry.status # None /\ entry.op = r
    BY <1>3, <2>1, <2>2, SettledEntry
  <2>4. Save(r, entry) /\ Finish
    BY <1>5, <1>6, <1>11, <2>2
  <2>5. /\ ledger' \in [OpId -> Entry \union {None}] /\ ledger'[o] = entry
        /\ \A p \in OpId : ledger'[p] # None => ledger'[p].op.id = p
        /\ \A p \in OpId : p # o => ledger'[p] = ledger[p]
        /\ LedgerGoesOn
    BY <1>1, <1>2, <2>3, <2>4, SavesEntry
  <2>6. /\ call' \in [Caller -> Slot] /\ job' \in Job
        /\ JobOK' /\ SlotOK'
    BY <1>3, <2>4, Finishes
  <2>7. ServiceTypeOK'
    BY <1>7, <2>5, <2>6 DEF ServiceTypeOK
  <2>8. ~IsPending(o)' /\ ledger'[o].status.state # "source-committed"
    BY <2>1, <2>3, <2>5 DEF IsPending
  <2>9. EntryOK(o)'
    BY <1>9, <2>8 DEF EntryOK
  <2> QED
    BY <1>4, <2>5, <2>6, <2>7, <2>9, ServiceKeeps
<1> QED
  BY <1>10, <1>11

LEMMA LoadKeeps ==
    ASSUME IInv, Load, UNCHANGED gitVars
    PROVE  IInv'
<1>1. PICK r, o, items, prepared :
        /\ r = job.op /\ o = job.op.id /\ items = LoadedItems
        /\ prepared = ledger[job.op.id].prepared
  OBVIOUS
<1>2. /\ job.pc = "load" /\ call[Service].step = "data" /\ faults' = faults
      /\ ledger' = ledger /\ minted' = minted
  BY DEF Load, Loaded, Replied
<1>3. /\ call \in [Caller -> Slot] /\ faults \in FaultHistory
      /\ ServiceTypeOK /\ RemoteOK
      /\ r \in Request /\ o \in OpId /\ r.id = o /\ o # Foreign
      /\ CleanCheckout => /\ Had(items, r.path)
                          /\ ~OnTop(Foreign) => items = Bytes(Tip[r.path])
  BY <1>1, <1>2, DataRead
<1>4. /\ IsPending(o) /\ ledger[o] # None /\ ledger[o].op = r
      /\ prepared \in Prepared /\ EntryOK(o)
  BY <1>1, <1>2, JobPending
<1>5. FaultsGoOn /\ remote' = remote
  BY <1>2, <1>3, NoFault DEF gitVars
<1>6. ASSUME CertainPushes, OnTop(o)
      PROVE  items = prepared.next
  <2>1. ~OnTop(Foreign) /\ CleanCheckout
    BY <1>3, <1>6, FaultsOrdered DEF OnTop
  <2>2. Bytes(Tip[r.path]) = prepared.next
    BY <1>1, <1>4, <1>6 DEF EntryOK
  <2> QED
    BY <1>3, <2>1, <2>2
<1>7. /\ (CertainPushes' => CertainPushes) /\ (CleanCheckout' => CleanCheckout)
      /\ OnTop(o)' <=> OnTop(o)
      /\ \A c, p : Had(c, p)' <=> Had(c, p)
  BY <1>5 DEF FaultsGoOn, OnTop, Had
<1>8. ASSUME NEW pc \in {"prepare", "load", "commit", "finalize"}, GoTo(pc)
      PROVE  job' \in Job /\ job'.pc = pc /\ job'.op = r /\ JobOK'
  <2>1. job' \in Job /\ job'.pc = pc /\ job'.op = r
    BY <1>1, <1>2, <1>3, <1>8, JobSteps
  <2>2. IsPending(o)'
    BY <1>2, <1>4 DEF IsPending
  <2> QED
    BY <1>2, <1>3, <1>4, <2>1, <2>2 DEF JobOK
<1>9. CASE /\ AlreadyWritten(prepared, items)
           /\ GoTo("finalize") /\ Ask(Service, Reading(r.path))
  <2>1. job' \in Job /\ job'.pc = "finalize" /\ job'.op = r /\ JobOK'
    BY <1>8, <1>9
  <2>2. CleanCheckout' => Had(ledger[r.id].prepared.next, r.path)'
    <3>1. PICK c, p : c = prepared.next /\ p = r.path
      OBVIOUS
    <3>2. CleanCheckout' => Had(c, p)'
      BY <1>3, <1>7, <1>9, <3>1 DEF AlreadyWritten
    <3>3. c = ledger'[r.id].prepared.next
      BY <1>1, <1>2, <3>1
    <3> QED
      BY <3>1, <3>2, <3>3
  <2>3. call' \in [Caller -> Slot] /\ SlotOK'
    BY <1>3, <1>9, <2>1, <2>2, Asks
  <2> QED
    BY <1>2, <1>5, <2>1, <2>3, HandlerKeeps
<1>10. CASE /\ ~AlreadyWritten(prepared, items)
            /\ GoTo("prepare") /\ Ask(Service, Reading(r.path))
  <2>1. job' \in Job /\ job'.pc = "prepare" /\ job'.op = r /\ JobOK'
    BY <1>8, <1>10
  <2>2. ~(CertainPushes' /\ OnTop(r.id)')
    BY <1>3, <1>6, <1>7, <1>10 DEF AlreadyWritten
  <2>3. call' \in [Caller -> Slot] /\ SlotOK'
    BY <1>3, <1>10, <2>1, <2>2, Asks
  <2> QED
    BY <1>2, <1>5, <2>1, <2>3, HandlerKeeps
<1>11. CASE /\ ~AlreadyWritten(prepared, items)
            /\ GoTo("commit")
            /\ Ask(Service, Committing(WriteOf(r, prepared), o))
  <2>1. job' \in Job /\ job'.pc = "commit" /\ job'.op = r /\ JobOK'
    BY <1>8, <1>11
  <2>2. PICK slot : slot = Committing(WriteOf(r, prepared), o)
    OBVIOUS
  <2>3. /\ slot \in Slot /\ slot.step = "commit" /\ slot.tag = o
        /\ slot.changes = WriteOf(r, prepared)
    BY <1>3, <1>4, <2>2, CommittingTyped
  <2>4. call' \in [Caller -> Slot] /\ call'[Service] = slot
    BY <1>3, <1>11, <2>2, <2>3, SlotSet DEF Ask
  <2>5. ~(CertainPushes' /\ OnTop(o)')
    BY <1>6, <1>7, <1>11 DEF AlreadyWritten
  <2>6. ledger'[o].prepared = prepared
    BY <1>1, <1>2
  <2>7. CommitOK(call[Service])'
    BY <1>3, <2>1, <2>3, <2>4, <2>5, <2>6 DEF CommitOK, WriteOf
  <2>8. SlotOK'
    BY <2>1, <2>7 DEF SlotOK
  <2> QED
    BY <1>2, <1>5, <2>1, <2>4, <2>8, HandlerKeeps
<1> QED
  BY <1>1, <1>9, <1>10, <1>11 DEF Load, WriteOf

\* What is known where commitFiles has answered.
LEMMA CommitAnswered ==
    ASSUME IInv, job.pc = "commit"
    PROVE  /\ call \in [Caller -> Slot] /\ faults \in FaultHistory
           /\ ServiceTypeOK /\ RemoteOK /\ CheckoutOK
           /\ job.op \in Request /\ job.op.id \in OpId /\ job.op.id # Foreign
           /\ CommitOK(call[Service])
BY JobFields DEF IInv, SlotOK

\* commit() goes on from the answer of commitFiles.
LEMMA AnswerKeeps ==
    ASSUME IInv, job.pc = "commit", NEW pc \in {"prepare", "finalize"}, GoTo(pc),
           Ask(Service, Reading(job.op.path)), UNCHANGED <<ledger, minted, faults, gitVars>>,
           pc = "prepare" => ~(CertainPushes /\ OnTop(job.op.id)),
           (CleanCheckout /\ pc = "finalize") =>
             Had(ledger[job.op.id].prepared.next, job.op.path)
    PROVE  IInv'
<1>1. PICK r, o, c, p : /\ r = job.op /\ o = job.op.id
                        /\ c = ledger[job.op.id].prepared.next /\ p = job.op.path
  OBVIOUS
<1>2. /\ call \in [Caller -> Slot] /\ faults \in FaultHistory
      /\ ServiceTypeOK /\ r \in Request /\ o \in OpId /\ r.id = o
  BY <1>1, CommitAnswered
<1>3. IsPending(o) /\ ledger[o] # None /\ ledger[o].op = r
  BY <1>1, JobPending
<1>4. FaultsGoOn /\ remote' = remote /\ ledger' = ledger
  BY <1>2, NoFault DEF gitVars
<1>5. job' \in Job /\ job'.pc = pc /\ job'.op = r
  BY <1>1, <1>2, JobSteps
<1>6. IsPending(o)'
  BY <1>3, <1>4 DEF IsPending
<1>7. JobOK'
  BY <1>2, <1>3, <1>4, <1>5, <1>6 DEF JobOK
<1>8. /\ (CertainPushes' => CertainPushes) /\ (CleanCheckout' => CleanCheckout)
      /\ OnTop(o)' <=> OnTop(o)
      /\ Had(c, p)' <=> Had(c, p)
  BY <1>4 DEF FaultsGoOn, OnTop, Had
<1>9. (CleanCheckout' /\ pc = "finalize") => Had(ledger[r.id].prepared.next, r.path)'
  <2>1. c = ledger'[r.id].prepared.next /\ p = r.path
    BY <1>1, <1>4
  <2>2. (CleanCheckout' /\ pc = "finalize") => Had(c, p)'
    BY <1>1, <1>8
  <2> QED
    BY <2>1, <2>2
<1>10. call' \in [Caller -> Slot] /\ SlotOK'
  BY <1>1, <1>2, <1>5, <1>8, <1>9, Asks
<1> QED
  BY <1>4, <1>5, <1>7, <1>10, HandlerKeeps

LEMMA CommitReturnedKeeps ==
    ASSUME IInv, CommitReturned, UNCHANGED gitVars
    PROVE  IInv'
<1>1. /\ job.pc = "commit" /\ call[Service].step = "committed" /\ GoTo("finalize")
      /\ Ask(Service, Reading(job.op.path)) /\ UNCHANGED <<ledger, minted, faults>>
  BY DEF CommitReturned, Replied
<1>2. CleanCheckout => Had(ledger[job.op.id].prepared.next, job.op.path)
  BY <1>1, CommitAnswered DEF CommitOK
<1> QED
  BY <1>1, <1>2, AnswerKeeps

LEMMA CommitConflictedKeeps ==
    ASSUME IInv, CommitConflicted, UNCHANGED gitVars
    PROVE  IInv'
<1>1. /\ job.pc = "commit" /\ call[Service].step = "conflict" /\ GoTo("prepare")
      /\ Ask(Service, Reading(job.op.path)) /\ UNCHANGED <<ledger, minted, faults>>
  BY DEF CommitConflicted, Replied
<1>2. ~(CertainPushes /\ OnTop(job.op.id))
  BY <1>1, CommitAnswered DEF CommitOK
<1> QED
  BY <1>1, <1>2, AnswerKeeps

LEMMA FinalizeKeeps ==
    ASSUME IInv, Finalize, UNCHANGED gitVars
    PROVE  IInv'
<1>1. PICK r, o, prepared : /\ r = job.op /\ o = job.op.id
                            /\ prepared = ledger[job.op.id].prepared
  OBVIOUS
<1>2. PICK status : status = Committed(prepared)
  OBVIOUS
<1>3. /\ job.pc = "finalize" /\ call[Service].step = "data"
      /\ Save(r, Settled(r, status)) /\ Finish
      /\ minted' = minted /\ faults' = faults
  BY <1>1, <1>2 DEF Finalize, Replied
<1>4. /\ call \in [Caller -> Slot] /\ faults \in FaultHistory
      /\ ServiceTypeOK /\ RemoteOK
      /\ r \in Request /\ o \in OpId /\ r.id = o
      /\ CleanCheckout => Had(prepared.next, r.path)
  BY <1>1, <1>3, DataRead
<1>5. prepared \in Prepared /\ Applies(r, prepared)
  BY <1>1, <1>3, JobPending
<1>6. /\ status \in Status /\ status.state = "source-committed"
      /\ status.obj = prepared.obj /\ status.rev = prepared.rev
  BY <1>2, <1>5 DEF Committed, Status, Prepared
<1>7. PICK entry : entry = Settled(r, status)
  OBVIOUS
<1>8. /\ entry \in Entry /\ entry # None /\ entry.status = status
      /\ entry.status # None /\ entry.op = r
  BY <1>4, <1>6, <1>7, SettledEntry
<1>9. /\ ledger' \in [OpId -> Entry \union {None}] /\ ledger'[o] = entry
      /\ \A p \in OpId : ledger'[p] # None => ledger'[p].op.id = p
      /\ \A p \in OpId : p # o => ledger'[p] = ledger[p]
      /\ LedgerGoesOn
  BY <1>1, <1>3, <1>7, <1>8, SavesEntry
<1>10. /\ call' \in [Caller -> Slot] /\ job' \in Job
       /\ JobOK' /\ SlotOK'
  BY <1>3, <1>4, Finishes
<1>11. ServiceTypeOK'
  BY <1>3, <1>4, <1>9, <1>10 DEF ServiceTypeOK
<1>12. FaultsGoOn /\ remote' = remote
  BY <1>3, <1>4, NoFault DEF gitVars
<1>13. ~IsPending(o)' /\ ledger'[o].status = status /\ ledger'[o].op = r
  BY <1>8, <1>9 DEF IsPending
<1>14. CleanCheckout' => OnceAuthoritative(ledger[o].op, ledger[o].status)'
  <2>1. CleanCheckout => OnceAuthoritative(r, status)
    <3>1. PICK items : items = prepared.next
      OBVIOUS
    <3>2. Shows(r, status.obj, status.rev, items)
      BY <1>5, <1>6, <3>1 DEF Applies
    <3> QED
      BY <1>4, <3>1, <3>2, ShownOnBranch
  <2>2. OnceAuthoritative(r, status) => OnceAuthoritative(r, status)'
    BY <1>12 DEF OnceAuthoritative
  <2>3. CleanCheckout' => OnceAuthoritative(r, status)'
    BY <1>12, <2>1, <2>2 DEF FaultsGoOn
  <2> QED
    BY <1>13, <2>3
<1>15. EntryOK(o)'
  BY <1>6, <1>13, <1>14 DEF EntryOK
<1> QED
  BY <1>9, <1>10, <1>11, <1>12, <1>15, ServiceKeeps

LEMMA RequestFailsKeeps ==
    ASSUME IInv, RequestFails, UNCHANGED gitVars
    PROVE  IInv'
<1>1. call \in [Caller -> Slot] /\ FaultsGoOn
  BY NoFault DEF IInv, RequestFails
<1>2. /\ call' \in [Caller -> Slot] /\ job' \in Job
      /\ JobOK' /\ SlotOK'
  BY <1>1, Finishes DEF RequestFails
<1> QED
  BY <1>1, <1>2, HandlerKeeps DEF RequestFails

LEMMA LedgerWriteFailsKeeps ==
    ASSUME IInv, LedgerWriteFails, UNCHANGED gitVars
    PROVE  IInv'
<1>1. call \in [Caller -> Slot] /\ FaultsGoOn
  BY FaultTyped DEF IInv, LedgerWriteFails
<1>2. /\ call' \in [Caller -> Slot] /\ job' \in Job
      /\ JobOK' /\ SlotOK'
  BY <1>1, Finishes DEF LedgerWriteFails
<1> QED
  BY <1>1, <1>2, HandlerKeeps DEF LedgerWriteFails

LEMMA ServiceStepKeeps ==
    ASSUME IInv, ServiceStep, UNCHANGED gitVars
    PROVE  IInv'
BY SubmitKeeps, ResumeKeeps, PrepareKeeps, LoadKeeps, CommitReturnedKeeps,
   CommitConflictedKeeps, FinalizeKeeps, RequestFailsKeeps, LedgerWriteFailsKeeps
   DEF ServiceStep, ClientStep, HandlerStep

-----------------------------------------------------------------------------
(***************************************************************************)
(* Steps of the provider.                                                  *)
(***************************************************************************)
\* The branch stays, and so do the ledger and the request in the gate.
LEMMA ProviderKeeps ==
    ASSUME IInv, UNCHANGED <<serviceVars, remote>>, FaultsGoOn,
           base' \in DOMAIN remote, call' \in [Caller -> Slot],
           CheckoutOK', SlotOK'
    PROVE  IInv'
<1>1. /\ RemoteOK /\ ServiceTypeOK /\ JobOK /\ \A o \in OpId : EntryOK(o)
      /\ ledger' = ledger /\ job' = job /\ minted' = minted
  BY DEF IInv, serviceVars
<1>2. ServiceTypeOK'
  BY <1>1 DEF ServiceTypeOK
<1>3. JobOK'
  BY <1>1 DEF JobOK, IsPending
<1>4. /\ RemoteOK' /\ Tip' = Tip /\ \A o : OnTop(o)' <=> OnTop(o)
      /\ \A op, status : OnceAuthoritative(op, status)' <=> OnceAuthoritative(op, status)
  BY <1>1, BranchStays
<1>5. \A o \in OpId : EntryOK(o)'
  BY <1>1, <1>4, EntryStays
<1> QED
  BY <1>2, <1>3, <1>4, <1>5 DEF IInv, FaultsGoOn

\* The checkout after a refresh.
LEMMA FetchedTree ==
    ASSUME RemoteOK, CheckoutOK
    PROVE  /\ Fetched \in LocalTree /\ UniqueTree(Fetched)
           /\ FollowsBranch => Fetched = Tip
<1>1. Tip \in Tree /\ UniqueTree(Tip)
  BY RemoteFields
<1>2. local \in LocalTree /\ UniqueTree(local) /\ (FollowsBranch => untracked = {})
  BY DEF CheckoutOK
<1>3. Fetched \in LocalTree
  BY <1>1, <1>2, TreesLocal DEF Fetched, LocalTree
<1>4. UniqueTree(Fetched)
  BY <1>1, <1>2 DEF Fetched, UniqueTree
<1>5. FollowsBranch => Fetched = Tip
  BY <1>1, <1>2 DEF Fetched, Tree
<1> QED
  BY <1>3, <1>4, <1>5

LEMMA RefreshKeeps ==
    ASSUME RemoteOK, CheckoutOK, FaultsGoOn, Reset, UNCHANGED remote,
           gateHolder' \in Caller \union {NoCaller}, initialized' \in BOOLEAN
    PROVE  CheckoutOK' /\ base' \in DOMAIN remote
<1>1. Len(remote) \in DOMAIN remote
  BY RemoteFields
<1>2. /\ local' = Fetched /\ untracked' = {p \in untracked : Tip[p] = Absent}
      /\ base' = Len(remote)
  BY DEF Reset
<1>3. Fetched \in LocalTree /\ UniqueTree(Fetched) /\ (FollowsBranch => Fetched = Tip)
  BY FetchedTree
<1>4. FollowsBranch' => FollowsBranch
  BY DEF FollowsBranch, FaultsGoOn
<1>5. CleanCheckout' => FollowsBranch
  BY <1>4, FaultsOrdered DEF FaultsGoOn
<1>6. untracked' \subseteq Path /\ (FollowsBranch' => untracked' = {})
  BY <1>2, <1>4 DEF CheckoutOK
<1>7. CleanCheckout' => local' = Tip /\ local' = Tip' /\ local' = remote'[Len(remote)].tree
  BY <1>2, <1>3, <1>5 DEF Tip
<1>8. UniqueTree(local)'
  BY <1>2, <1>3 DEF UniqueTree, UniqueIds, Bytes
<1> QED
  BY <1>1, <1>2, <1>3, <1>6, <1>7, <1>8 DEF CheckoutOK

\* The checkout and the branch stay.
LEMMA CheckoutStays ==
    ASSUME CheckoutOK, FaultsGoOn, UNCHANGED <<remote, local, untracked, initialized>>,
           gateHolder' = gateHolder \/ gateHolder' \in Caller
    PROVE  CheckoutOK'
<1>1. FollowsBranch' => FollowsBranch
  BY DEF FollowsBranch, FaultsGoOn
<1>2. gateHolder' \in Caller \union {NoCaller}
  BY DEF CheckoutOK
<1>3. gateHolder' = NoCaller => gateHolder = NoCaller
  BY NoCallerAssumption
<1>4. UniqueTree(local)'
  BY DEF CheckoutOK, UniqueTree, UniqueIds, Bytes
<1>5. (\A o : OnTop(o)' <=> OnTop(o)) /\ Tip' = Tip
  BY DEF OnTop, Tip
<1>6. (CleanCheckout' /\ gateHolder' = NoCaller /\ initialized') =>
        /\ \E i \in DOMAIN remote' : local' = remote'[i].tree
        /\ ~OnTop(Foreign)' => local' = Tip'
  BY <1>3, <1>5 DEF CheckoutOK, FaultsGoOn
<1> QED
  BY <1>1, <1>2, <1>4, <1>6 DEF CheckoutOK

LEMMA Replies ==
    ASSUME call \in [Caller -> Slot],
           NEW step \in {"committed", "conflict", "failed"}, Reply(Service, step)
    PROVE  call' \in [Caller -> Slot] /\ call'[Service].step = step
<1>1. PICK slot : slot = [step |-> step]
  OBVIOUS
<1>2. slot \in Slot /\ slot.step = step
  BY <1>1, SlotTyped
<1>3. call' = [call EXCEPT ![Service] = slot]
  BY <1>1 DEF Reply
<1> QED
  BY <1>2, <1>3, SlotSet

\* Who is reading, and who is committing.
LEMMA SlotShapes ==
    ASSUME IInv
    PROVE  /\ call[Service].step = "read" =>
                /\ job.pc \in {"prepare", "load", "finalize"} /\ ReadOK(call[Service])
                /\ call[Service].path = job.op.path
                /\ job.op \in Request /\ job.op.path \in Path
           /\ call[Service].step \in {"commit", "push", "recover"} =>
                job.pc = "commit" /\ CommitOK(call[Service])
<1>1. job.pc \in {"idle", "prepare", "load", "commit", "finalize"}
  BY JobFields DEF IInv
<1>2. Idle.step = "idle"
  BY DEF Idle
<1>3. CASE job.pc = "idle"
  BY <1>2, <1>3 DEF IInv, SlotOK
<1>4. CASE job.pc \in {"prepare", "load", "finalize"}
  BY <1>4, JobFields DEF IInv, SlotOK, ReadOK
<1>5. CASE job.pc = "commit"
  BY <1>5 DEF IInv, SlotOK, CommitOK
<1> QED
  BY <1>1, <1>3, <1>4, <1>5

\* A read is answered, with what the branch has or had as long as the checkout
\* is clean.
LEMMA ReadAnswered ==
    ASSUME IInv, UNCHANGED <<serviceVars, remote>>, FaultsGoOn,
           base' \in DOMAIN remote, CheckoutOK', call[Service].step = "read",
           \/ Reply(Service, "failed")
           \/ \E content \in Collection \union {Absent, Torn} :
                /\ ReplyData(Service, content)
                /\ content # Torn => UniqueIds(Bytes(content))
                /\ CleanCheckout =>
                     /\ Had(Bytes(content), job.op.path)
                     /\ ~OnTop(Foreign) => content = Tip[job.op.path]
    PROVE  IInv'
<1>1. /\ call \in [Caller -> Slot] /\ RemoteOK
      /\ job' = job /\ ledger' = ledger /\ remote' = remote
  BY DEF IInv, serviceVars
<1>2. job.pc \in {"prepare", "load", "finalize"} /\ ReadOK(call[Service])
  BY SlotShapes
<1>3. /\ CleanCheckout' => CleanCheckout
      /\ CertainPushes' => CertainPushes
      /\ \A c, p : Had(c, p)' <=> Had(c, p)
      /\ \A o : OnTop(o)' <=> OnTop(o)
      /\ Tip' = Tip
  BY <1>1 DEF FaultsGoOn, Had, OnTop, Tip
<1>4. /\ (CertainPushes' /\ OnTop(job.op.id)') => job'.pc # "prepare"
      /\ (CleanCheckout' /\ job'.pc = "finalize") =>
           Had(ledger[job.op.id].prepared.next, job.op.path)'
  <2>1. PICK c, p, o : c = ledger[job.op.id].prepared.next /\ p = job.op.path
                       /\ o = job.op.id
    OBVIOUS
  <2>2. (CertainPushes' /\ OnTop(o)') => job'.pc # "prepare"
    BY <1>1, <1>2, <1>3, <2>1 DEF ReadOK
  <2>3. (CleanCheckout' /\ job'.pc = "finalize") => Had(c, p)'
    BY <1>1, <1>2, <1>3, <2>1 DEF ReadOK
  <2> QED
    BY <1>1, <2>1, <2>2, <2>3
<1>5. CASE Reply(Service, "failed")
  <2>1. call' \in [Caller -> Slot] /\ call'[Service].step = "failed"
    BY <1>1, <1>5, Replies
  <2>2. ReadOK(call[Service])'
    BY <1>4, <2>1 DEF ReadOK
  <2>3. SlotOK'
    BY <1>1, <1>2, <2>2 DEF SlotOK
  <2> QED
    BY <2>1, <2>3, ProviderKeeps
<1>6. ASSUME NEW content \in Collection \union {Absent, Torn},
             ReplyData(Service, content), content # Torn => UniqueIds(Bytes(content)),
             CleanCheckout => /\ Had(Bytes(content), job.op.path)
                              /\ ~OnTop(Foreign) => content = Tip[job.op.path]
      PROVE  IInv'
  <2>1. PICK slot : slot = [step |-> "data", content |-> content]
    OBVIOUS
  <2>2. slot \in Slot /\ slot.step = "data" /\ slot.content = content
    BY <2>1, SlotTyped
  <2>3. call' \in [Caller -> Slot] /\ call'[Service] = slot
    BY <1>1, <1>6, <2>1, <2>2, SlotSet DEF ReplyData
  <2>4. call'[Service].content # Torn => UniqueIds(Bytes(call[Service].content))'
    BY <1>6, <2>2, <2>3 DEF UniqueIds, Bytes
  <2>5. CleanCheckout' =>
          /\ Had(Bytes(call[Service].content), job.op.path)'
          /\ ~OnTop(Foreign)' => call'[Service].content = Tip'[job'.op.path]
    <3>1. PICK c, p : c = Bytes(content) /\ p = job.op.path
      OBVIOUS
    <3>2. CleanCheckout' => Had(c, p)' /\ (~OnTop(Foreign)' => content = Tip'[p])
      BY <1>3, <1>6, <3>1
    <3>3. c = Bytes(call'[Service].content) /\ p = job'.op.path
      BY <1>1, <2>2, <2>3, <3>1
    <3> QED
      BY <2>2, <2>3, <3>2, <3>3
  <2>6. ReadOK(call[Service])'
    BY <1>4, <2>2, <2>3, <2>4, <2>5 DEF ReadOK
  <2>7. SlotOK'
    BY <1>1, <1>2, <2>6 DEF SlotOK
  <2> QED
    BY <2>3, <2>7, ProviderKeeps
<1> QED
  BY <1>5, <1>6

LEMMA GitReadKeeps ==
    ASSUME IInv, GitRead(Service), UNCHANGED serviceVars
    PROVE  IInv'
<1>1. PICK p : p = job.op.path
  OBVIOUS
<1>2. /\ RemoteOK /\ CheckoutOK /\ faults \in FaultHistory
      /\ call[Service].step = "read" /\ gateHolder = NoCaller
      /\ remote' = remote /\ gateHolder' = gateHolder
  BY DEF IInv, GitRead, GitReadFetched
<1>3. call[Service].path = p /\ p \in Path
  BY <1>1, <1>2, SlotShapes
<1>4. ASSUME CleanCheckout
      PROVE  Had(Bytes(Tip[p]), p)
  <2>1. Len(remote) \in DOMAIN remote
    BY <1>2, RemoteFields
  <2> QED
    BY <2>1 DEF Had, Tip
<1>5. CASE Refresh /\ ReplyData(Service, Fetched[call[Service].path]) /\ UNCHANGED faults
  <2>1. FaultsGoOn
    BY <1>2, <1>5, NoFault
  <2>2. /\ Fetched \in LocalTree /\ UniqueTree(Fetched)
        /\ FollowsBranch => Fetched = Tip
    BY <1>2, FetchedTree
  <2>3. PICK content : content = Fetched[p]
    OBVIOUS
  <2>4. /\ content \in Collection \union {Absent, Torn}
        /\ content # Torn => UniqueIds(Bytes(content))
    BY <1>3, <2>2, <2>3 DEF LocalTree, UniqueTree
  <2>5. ReplyData(Service, content)
    BY <1>3, <1>5, <2>3
  <2>6. CleanCheckout => Had(Bytes(content), p) /\ content = Tip[p]
    BY <1>4, <2>2, <2>3, FaultsOrdered
  <2>7. Reset /\ gateHolder' \in Caller \union {NoCaller} /\ initialized' \in BOOLEAN
    BY <1>2, <1>5 DEF Refresh
  <2>8. CheckoutOK' /\ base' \in DOMAIN remote
    BY <1>2, <2>1, <2>7, RefreshKeeps
  <2> QED
    BY <1>1, <1>2, <2>1, <2>4, <2>5, <2>6, <2>8, ReadAnswered
<1>6. CASE /\ initialized
           /\ ReplyData(Service, local[call[Service].path])
           /\ UNCHANGED <<faults, checkout>>
  <2>1. FaultsGoOn
    BY <1>2, <1>6, NoFault
  <2>2. /\ local' = local /\ untracked' = untracked /\ base' = base
        /\ initialized' = initialized
    BY <1>6 DEF checkout
  <2>3. PICK content : content = local[p]
    OBVIOUS
  <2>4. /\ content \in Collection \union {Absent, Torn}
        /\ content # Torn => UniqueIds(Bytes(content))
    BY <1>2, <1>3, <2>3 DEF CheckoutOK, LocalTree, UniqueTree
  <2>5. ReplyData(Service, content)
    BY <1>3, <1>6, <2>3
  <2>6. CleanCheckout => /\ Had(Bytes(content), p)
                         /\ ~OnTop(Foreign) => content = Tip[p]
    BY <1>2, <1>6, <2>3 DEF CheckoutOK, Had
  <2>7. CheckoutOK' /\ base' \in DOMAIN remote
    BY <1>2, <2>1, <2>2, CheckoutStays DEF RemoteOK
  <2> QED
    BY <1>1, <1>2, <2>1, <2>4, <2>5, <2>6, <2>7, ReadAnswered
<1>7. CASE Fault("read") /\ Reply(Service, "failed") /\ UNCHANGED checkout
  <2>1. FaultsGoOn
    BY <1>2, <1>7, FaultTyped
  <2>2. /\ local' = local /\ untracked' = untracked /\ base' = base
        /\ initialized' = initialized
    BY <1>7 DEF checkout
  <2>3. CheckoutOK' /\ base' \in DOMAIN remote
    BY <1>2, <2>1, <2>2, CheckoutStays DEF RemoteOK
  <2> QED
    BY <1>2, <1>7, <2>1, <2>3, ReadAnswered
<1> QED
  BY <1>5, <1>6, <1>7 DEF GitRead, GitReadFetched

-----------------------------------------------------------------------------
(***************************************************************************)
(* commitFiles up to the local commit.                                     *)
(***************************************************************************)
\* What is known of a commit under way.
LEMMA Commits ==
    ASSUME IInv, call[Service].step \in {"commit", "push", "recover"}
    PROVE  \E prepared \in Prepared :
             /\ prepared = ledger[job.op.id].prepared
             /\ job.pc = "commit" /\ job.op \in Request /\ job.op.id \in OpId
             /\ job.op.id # Foreign /\ job.op.path \in Path
             /\ IsPending(job.op.id) /\ ledger[job.op.id] # None
             /\ ledger[job.op.id].op = job.op
             /\ Applies(job.op, prepared)
             /\ call \in [Caller -> Slot]
             /\ faults \in FaultHistory
             /\ call[Service].tag = job.op.id
             /\ call[Service].changes = WriteOf(job.op, prepared)
             /\ ~(CertainPushes /\ OnTop(job.op.id))
             /\ RemoteOK /\ CheckoutOK /\ CommitOK(call[Service])
<1>1. job.pc = "commit" /\ CommitOK(call[Service])
  BY SlotShapes
<1>2. /\ call \in [Caller -> Slot] /\ faults \in FaultHistory
      /\ RemoteOK /\ CheckoutOK
      /\ job.op \in Request /\ job.op.id \in OpId /\ job.op.id # Foreign
      /\ job.op.path \in Path
  BY <1>1, JobFields DEF IInv
<1>3. /\ IsPending(job.op.id) /\ ledger[job.op.id] # None
      /\ ledger[job.op.id].op = job.op
      /\ ledger[job.op.id].prepared \in Prepared
      /\ Applies(job.op, ledger[job.op.id].prepared)
  BY <1>1, JobPending
<1>4. /\ call[Service].tag = job.op.id
      /\ call[Service].changes = WriteOf(job.op, ledger[job.op.id].prepared)
      /\ ~(CertainPushes /\ OnTop(job.op.id))
  BY <1>1 DEF CommitOK
<1> QED
  BY <1>1, <1>2, <1>3, <1>4

\* commitFiles answers without a new commit on the branch.
LEMMA CommitAnswers ==
    ASSUME IInv, UNCHANGED <<serviceVars, remote>>, FaultsGoOn,
           base' \in DOMAIN remote, CheckoutOK',
           call[Service].step \in {"commit", "push", "recover"},
           NEW step \in {"committed", "conflict", "failed"}, Reply(Service, step),
           (CleanCheckout /\ step = "committed") =>
             Had(ledger[job.op.id].prepared.next, job.op.path)
    PROVE  IInv'
<1>1. /\ job.pc = "commit" /\ call \in [Caller -> Slot]
      /\ ~(CertainPushes /\ OnTop(job.op.id))
  BY Commits
<1>2. job' = job /\ ledger' = ledger
  BY DEF serviceVars
<1>3. call' \in [Caller -> Slot] /\ call'[Service].step = step
  BY <1>1, Replies
<1>4. PICK c, p, o : /\ c = ledger[job.op.id].prepared.next /\ p = job.op.path
                     /\ o = job.op.id
  OBVIOUS
<1>5. /\ ~(CertainPushes' /\ OnTop(o)')
      /\ (CleanCheckout' /\ step = "committed") => Had(c, p)'
  BY <1>1, <1>4 DEF FaultsGoOn, OnTop, Had
<1>6. CommitOK(call[Service])'
  BY <1>2, <1>3, <1>4, <1>5 DEF CommitOK
<1>7. SlotOK'
  BY <1>1, <1>2, <1>6 DEF SlotOK
<1> QED
  BY <1>3, <1>7, ProviderKeeps

\* The local commit is there and the push is next.
LEMMA PushNext ==
    ASSUME IInv, UNCHANGED <<serviceVars, remote, faults>>,
           call[Service].step = "commit", CheckoutOK', gateHolder' = Service,
           NEW changes, changes = call[Service].changes,
           PreconditionsHold(changes, Fetched),
           local' = AllWritten(Fetched, changes), base' = Len(remote),
           Advance(Service, "push")
    PROVE  IInv'
<1>1. PICK r, o : r = job.op /\ o = job.op.id
  OBVIOUS
<1>2. PICK prepared \in Prepared :
        /\ prepared = ledger[o].prepared
        /\ job.pc = "commit" /\ r \in Request
        /\ call \in [Caller -> Slot]
        /\ faults \in FaultHistory
        /\ call[Service].tag = o /\ changes = WriteOf(r, prepared)
        /\ ~(CertainPushes /\ OnTop(o))
        /\ RemoteOK /\ CheckoutOK
  BY <1>1, Commits
<1>3. FaultsGoOn /\ job' = job /\ ledger' = ledger
  BY <1>2, NoFault DEF serviceVars
<1>4. /\ call' \in [Caller -> Slot]
      /\ call'[Service].step = "push" /\ call'[Service].tag = o
      /\ call'[Service].changes = changes
  BY <1>2, Advances
<1>5. Bytes(Fetched[r.path]) = prepared.expected
  BY <1>2, ExpectedFound
<1>6. (FollowsBranch => Fetched = Tip) /\ Len(remote) \in DOMAIN remote
  BY <1>2, FetchedTree, RemoteFields
<1>7. PICK tip : tip = Tip
  OBVIOUS
<1>8. remote'[base'].tree = tip
  BY <1>7 DEF Tip
<1>9. FollowsBranch' => FollowsBranch
  BY <1>3 DEF FollowsBranch, FaultsGoOn
<1>10. FollowsBranch' => Bytes(tip[r.path]) = prepared.expected
  BY <1>5, <1>6, <1>7, <1>9
<1>11. CleanCheckout' => local' = AllWritten(tip, changes)
  BY <1>3, <1>6, <1>7, FaultsOrdered DEF FaultsGoOn
<1>12. ~(CertainPushes' /\ OnTop(o)')
  BY <1>2, <1>3 DEF FaultsGoOn, OnTop
<1>13. FollowsBranch' => Bytes(remote[base].tree[job.op.path])' = prepared.expected
  BY <1>1, <1>3, <1>8, <1>10 DEF Bytes
<1>14. CleanCheckout' => local' = AllWritten(remote'[base'].tree, call'[Service].changes)
  BY <1>4, <1>8, <1>11
<1>15. CommitOK(call[Service])'
  <2>1. job'.op = r /\ job'.op.id = o /\ ledger'[job'.op.id].prepared = prepared
    BY <1>1, <1>2, <1>3
  <2>2. call'[Service].changes = WriteOf(job'.op, prepared)
    BY <1>2, <1>4, <2>1
  <2> QED
    BY <1>4, <1>12, <1>13, <1>14, <2>1, <2>2 DEF CommitOK, WriteOf
<1>16. SlotOK'
  BY <1>2, <1>3, <1>15 DEF SlotOK
<1> QED
  BY <1>3, <1>4, <1>6, <1>16, ProviderKeeps

LEMMA GitCommitLocallyKeeps ==
    ASSUME IInv, GitCommitLocally(Service), UNCHANGED serviceVars
    PROVE  IInv'
<1>1. PICK r, changes : r = job.op /\ changes = call[Service].changes
  OBVIOUS
<1>2. /\ call[Service].step = "commit" /\ gateHolder = NoCaller
      /\ remote' = remote /\ faults' = faults
  BY DEF GitCommitLocally
<1>3. PICK prepared \in Prepared :
        /\ prepared = ledger[job.op.id].prepared
        /\ r \in Request /\ r.path \in Path
        /\ Applies(r, prepared)
        /\ faults \in FaultHistory
        /\ changes = WriteOf(r, prepared)
        /\ RemoteOK /\ CheckoutOK
  BY <1>1, <1>2, Commits
<1>4. FaultsGoOn
  BY <1>2, <1>3, NoFault
<1>5. CASE ~PreconditionsHold(changes, CheckedTree)
  <2>1. /\ Reset /\ initialized' = TRUE /\ Reply(Service, "conflict")
        /\ gateHolder' = gateHolder
    BY <1>1, <1>5 DEF GitCommitLocally, Refresh
  <2>2. gateHolder' \in Caller \union {NoCaller} /\ initialized' \in BOOLEAN
    BY <1>2, <2>1
  <2>3. CheckoutOK' /\ base' \in DOMAIN remote
    BY <1>2, <1>3, <1>4, <2>1, <2>2, RefreshKeeps
  <2> QED
    BY <1>2, <1>4, <2>1, <2>3, CommitAnswers
<1>6. CASE PreconditionsHold(changes, CheckedTree)
  <2>1. /\ local' = AllWritten(Fetched, changes)
        /\ untracked' = untracked \ ChangedPaths(changes)
        /\ base' = Len(remote) /\ initialized' = TRUE
        /\ PreconditionsHold(changes, Fetched)
    BY <1>1, <1>6 DEF GitCommitLocally, CheckedTree
  <2>2. /\ Fetched \in LocalTree /\ UniqueTree(Fetched)
        /\ FollowsBranch => Fetched = Tip
        /\ Len(remote) \in DOMAIN remote /\ Tip \in Tree
    BY <1>3, FetchedTree, RemoteFields
  <2>3. /\ local' \in LocalTree
        /\ UniqueTree(AllWritten(Fetched, changes))
    <3>1. UniqueIds(prepared.next)
      BY <1>3 DEF Applies
    <3>2. PICK top : top = AllWritten(Fetched, changes)
      OBVIOUS
    <3>3. top \in LocalTree /\ UniqueTree(top)
      BY <1>3, <2>2, <3>1, <3>2, OneWritten
    <3> QED
      BY <2>1, <3>2, <3>3
  <2>4. UniqueTree(local)'
    BY <2>1, <2>3 DEF UniqueTree, UniqueIds, Bytes
  <2>5. /\ untracked' \subseteq Path /\ (FollowsBranch' => untracked' = {})
        /\ (FollowsBranch' => FollowsBranch)
    <3>1. FollowsBranch' => FollowsBranch
      BY <1>2, <1>4 DEF FollowsBranch, FaultsGoOn
    <3> QED
      BY <1>3, <2>1, <3>1 DEF CheckoutOK
  <2>6. CASE AllWritten(Tip, changes) = Tip
    <3>1. Reply(Service, "committed") /\ gateHolder' = gateHolder
      BY <1>1, <1>6, <2>6 DEF GitCommitLocally
    <3>2. Had(prepared.next, r.path)
      <4>1. PICK tip : tip = Tip
        OBVIOUS
      <4>2. Bytes(tip[r.path]) = prepared.next
        BY <1>3, <2>2, <2>6, <4>1, TreesLocal, OneWritten
      <4> QED
        BY <2>2, <4>1, <4>2 DEF Had, Tip
    <3>3. CleanCheckout' => local' = Tip
      BY <1>4, <2>1, <2>2, <2>6, FaultsOrdered DEF FaultsGoOn
    <3>4. Tip' = Tip
      BY <1>2 DEF Tip
    <3>5. CleanCheckout' => \E i \in DOMAIN remote' : local' = remote'[i].tree
      BY <1>2, <2>2, <3>3 DEF Tip
    <3>6. gateHolder' \in Caller \union {NoCaller}
      BY <1>2, <3>1
    <3>7. CheckoutOK'
      BY <2>1, <2>3, <2>4, <2>5, <3>3, <3>4, <3>5, <3>6 DEF CheckoutOK
    <3>8. Had(ledger[job.op.id].prepared.next, job.op.path)
      BY <1>1, <1>3, <3>2
    <3>9. base' \in DOMAIN remote
      BY <2>1, <2>2
    <3> QED
      BY <1>2, <1>4, <3>1, <3>7, <3>8, <3>9, CommitAnswers
  <2>7. CASE AllWritten(Tip, changes) # Tip
    <3>1. Advance(Service, "push") /\ gateHolder' = Service
      BY <1>1, <1>6, <2>7 DEF GitCommitLocally
    <3>2. gateHolder' \in Caller \union {NoCaller} /\ gateHolder' # NoCaller
      BY <3>1, ServiceAssumption, NoCallerAssumption
    <3>3. CheckoutOK'
      BY <2>1, <2>3, <2>4, <2>5, <3>2 DEF CheckoutOK
    <3> QED
      BY <1>1, <1>2, <2>1, <3>1, <3>3, PushNext
  <2> QED
    BY <2>6, <2>7
<1> QED
  BY <1>5, <1>6

\* What a write that stopped halfway leaves is a collection or unreadable.
LEMMA FragmentsOf ==
    ASSUME NEW r \in Request, NEW prepared \in Prepared,
           call[Service].changes = WriteOf(r, prepared), UniqueIds(prepared.next),
           NEW content \in Fragments
    PROVE  /\ content \in Collection \union {Torn}
           /\ content # Torn => UniqueIds(Bytes(content))
<1>1. PICK next : next = prepared.next
  OBVIOUS
<1>2. next \in Collection /\ call[Service].changes[1].content = next /\ UniqueIds(next)
  BY <1>1, OneChange
<1>3. CASE content = Torn
  BY <1>3
<1>4. CASE \E n \in 0..Len(next) : content = SubSeq(next, 1, n)
  <2>1. PICK n \in 0..Len(next) : content = SubSeq(next, 1, n)
    BY <1>4
  <2>2. /\ next \in Seq(Item) /\ Len(next) \in Nat /\ DOMAIN next = 1..Len(next)
        /\ \A i \in 1..Len(next) : next[i] \in Item
    BY <1>2, CollectionFields
  <2>3. n \in Nat /\ n <= Len(next)
    BY <2>1, <2>2
  <2>4. \A i \in 1..n : next[i] \in Item
    BY <2>2, <2>3
  <2>5. /\ SubSeq(next, 1, n) \in Seq(Item)
        /\ Len(SubSeq(next, 1, n)) = IF 1 <= n THEN n - 1 + 1 ELSE 0
        /\ \A i \in 1..(n - 1 + 1) : SubSeq(next, 1, n)[i] = next[1 + i - 1]
    BY <2>3, <2>4, SubSeqProperties
  <2>6. /\ content \in Seq(Item) /\ Len(content) = n
        /\ \A i \in 1..n : content[i] = next[i]
    BY <2>1, <2>3, <2>5
  <2>7. content \in Collection
    BY <2>6 DEF Collection
  <2>8. UniqueIds(content)
    BY <1>2, <2>2, <2>3, <2>6 DEF UniqueIds
  <2> QED
    BY <2>7, <2>8, CollectionBytes
<1> QED
  BY <1>2, <1>3, <1>4 DEF Fragments

LEMMA GitCommitFailsKeeps ==
    ASSUME IInv, GitCommitFails(Service, Fragments), UNCHANGED serviceVars
    PROVE  IInv'
<1>1. PICK r, changes : r = job.op /\ changes = call[Service].changes
  OBVIOUS
<1>2. /\ call[Service].step = "commit" /\ gateHolder = NoCaller
      /\ Reply(Service, "failed")
      /\ remote' = remote /\ gateHolder' = gateHolder
  BY DEF GitCommitFails
<1>3. PICK prepared \in Prepared :
        /\ r \in Request /\ r.path \in Path
        /\ Applies(r, prepared) /\ UniqueIds(prepared.next)
        /\ faults \in FaultHistory
        /\ changes = WriteOf(r, prepared)
        /\ RemoteOK /\ CheckoutOK
  BY <1>1, <1>2, Commits DEF Applies
<1>4. CASE Fault("read") /\ UNCHANGED checkout
  <2>1. FaultsGoOn
    BY <1>3, <1>4, FaultTyped
  <2>2. /\ local' = local /\ untracked' = untracked /\ base' = base
        /\ initialized' = initialized
    BY <1>4 DEF checkout
  <2>3. CheckoutOK' /\ base' \in DOMAIN remote
    BY <1>2, <1>3, <2>1, <2>2, CheckoutStays DEF RemoteOK
  <2> QED
    BY <1>2, <2>1, <2>3, CommitAnswers
<1>5. CASE /\ Fault("worktree")
           /\ \E n \in 1..Len(changes), added \in BOOLEAN :
                PartlyWritten(changes, n, Fragments, added)
           /\ base' = Len(remote) /\ initialized' = TRUE
  <2>1. FaultsGoOn /\ ~Free({"worktree"})' /\ ~CleanCheckout'
    BY <1>3, <1>5, FaultTyped
  <2>2. PICK added \in BOOLEAN : PartlyWritten(changes, 1, Fragments, added)
    <3>1. Len(changes) = 1
      BY <1>3, OneChange
    <3>2. 1..1 = {1}
      OBVIOUS
    <3> QED
      BY <1>5, <3>1, <3>2
  <2>3. PICK whole : whole = Written(Fetched, changes, 1)
    OBVIOUS
  <2>4. Fetched \in LocalTree /\ UniqueTree(Fetched) /\ Len(remote) \in DOMAIN remote
    BY <1>3, FetchedTree, RemoteFields
  <2>5. whole \in LocalTree /\ UniqueTree(whole)
    BY <1>3, <2>3, <2>4, OneWritten DEF Applies
  <2>6. /\ \/ local' = whole
           \/ \E content \in Fragments : local' = [whole EXCEPT ![r.path] = content]
        /\ untracked' = IF added THEN untracked \ {r.path}
                        ELSE {p \in untracked \union {r.path} : Tip[p] = Absent}
    <3>1. /\ changes[1].path = r.path
          /\ ChangedPaths(SubSeq(changes, 1, 1)) = {r.path}
      BY <1>3, OneChange, OnePath
    <3> QED
      BY <2>2, <2>3, <3>1 DEF PartlyWritten
  <2>12. PICK tree : tree = local'
    OBVIOUS
  <2>13. tree \in LocalTree /\ UniqueTree(tree)
    <3>1. CASE tree = whole
      BY <2>5, <3>1
    <3>2. CASE \E content \in Fragments : tree = [whole EXCEPT ![r.path] = content]
      <4>1. PICK content \in Fragments : tree = [whole EXCEPT ![r.path] = content]
        BY <3>2
      <4>2. /\ content \in Collection \union {Torn}
            /\ content # Torn => UniqueIds(Bytes(content))
        BY <1>1, <1>3, FragmentsOf
      <4>3. \A p \in Path : tree[p] = IF p = r.path THEN content ELSE whole[p]
        BY <2>5, <4>1 DEF LocalTree
      <4>4. tree \in LocalTree
        BY <2>5, <4>1, <4>2 DEF LocalTree
      <4> QED
        BY <2>5, <4>2, <4>3, <4>4 DEF UniqueTree
    <3> QED
      BY <2>6, <2>12, <3>1, <3>2
  <2>14. local' \in LocalTree /\ UniqueTree(local)'
    BY <2>12, <2>13 DEF UniqueTree, UniqueIds, Bytes
  <2>7. untracked' \subseteq Path
    BY <1>3, <2>6 DEF CheckoutOK
  <2>8. ASSUME FollowsBranch'
        PROVE  untracked' = {}
    <3>1. \A i \in DOMAIN remote : \A p \in Path : remote[i].tree[p] # Absent
      BY <1>2, <2>1, <2>8 DEF FollowsBranch
    <3>2. untracked = {} /\ \A p \in Path : Tip[p] # Absent
      BY <1>3, <2>4, <3>1 DEF CheckoutOK, FollowsBranch, Tip
    <3> QED
      BY <1>3, <2>6, <3>2
  <2>9. gateHolder' \in Caller \union {NoCaller}
    BY <1>2
  <2>10. CheckoutOK'
    BY <1>5, <2>1, <2>7, <2>8, <2>9, <2>14 DEF CheckoutOK
  <2>11. base' \in DOMAIN remote
    BY <1>5, <2>4
  <2> QED
    BY <1>2, <2>1, <2>10, <2>11, CommitAnswers
<1> QED
  BY <1>1, <1>4, <1>5 DEF GitCommitFails

-----------------------------------------------------------------------------
(***************************************************************************)
(* The push and what follows it.                                           *)
(***************************************************************************)
LEMMA GitRecoverKeeps ==
    ASSUME IInv, GitRecover(Service), UNCHANGED serviceVars
    PROVE  IInv'
<1>1. /\ call[Service].step = "recover" /\ Reply(Service, "conflict")
      /\ gateHolder' = NoCaller /\ remote' = remote /\ initialized' = initialized
  BY DEF GitRecover
<1>2. RemoteOK /\ CheckoutOK /\ faults \in FaultHistory
  BY DEF IInv
<1>3. gateHolder' \in Caller \union {NoCaller} /\ initialized' \in BOOLEAN
  BY <1>1, <1>2 DEF CheckoutOK
<1>4. CASE Reset /\ UNCHANGED faults
  <2>1. FaultsGoOn
    BY <1>2, <1>4, NoFault
  <2>2. CheckoutOK' /\ base' \in DOMAIN remote
    BY <1>1, <1>2, <1>3, <1>4, <2>1, RefreshKeeps
  <2> QED
    BY <1>1, <2>1, <2>2, CommitAnswers
<1>5. CASE Fault("recover") /\ UNCHANGED <<local, untracked, base>>
  <2>1. FaultsGoOn /\ ~CleanCheckout'
    BY <1>2, <1>5, FaultTyped
  <2>2. FollowsBranch' => FollowsBranch
    BY <1>1, <2>1 DEF FollowsBranch, FaultsGoOn
  <2>3. UniqueTree(local)'
    BY <1>2, <1>5 DEF CheckoutOK, UniqueTree, UniqueIds, Bytes
  <2>4. CheckoutOK'
    BY <1>2, <1>3, <1>5, <2>1, <2>2, <2>3 DEF CheckoutOK
  <2>5. base' \in DOMAIN remote
    BY <1>2, <1>5 DEF RemoteOK
  <2> QED
    BY <1>1, <2>1, <2>4, <2>5, CommitAnswers
<1> QED
  BY <1>4, <1>5 DEF GitRecover

\* A failed push: the branch did not take the commit.
LEMMA PushFails ==
    ASSUME IInv, UNCHANGED <<serviceVars, remote, gateHolder, checkout>>, FaultsGoOn,
           call[Service].step = "push", Advance(Service, "recover")
    PROVE  IInv'
<1>1. PICK r, o : r = job.op /\ o = job.op.id
  OBVIOUS
<1>2. PICK prepared \in Prepared :
        /\ prepared = ledger[o].prepared
        /\ job.pc = "commit"
        /\ call \in [Caller -> Slot]
        /\ call[Service].tag = o /\ call[Service].changes = WriteOf(r, prepared)
        /\ ~(CertainPushes /\ OnTop(o))
        /\ RemoteOK /\ CheckoutOK /\ CommitOK(call[Service])
  BY <1>1, Commits
<1>3. job' = job /\ ledger' = ledger
  BY DEF serviceVars
<1>4. /\ call' \in [Caller -> Slot]
      /\ call'[Service].step = "recover" /\ call'[Service].tag = o
      /\ call'[Service].changes = WriteOf(r, prepared)
  BY <1>2, Advances
<1>5. gateHolder' = Service
  BY <1>2 DEF CommitOK
<1>6. ~(CertainPushes' /\ OnTop(o)')
  BY <1>2 DEF FaultsGoOn, OnTop
<1>7. CommitOK(call[Service])'
  <2>1. job'.op = r /\ job'.op.id = o /\ ledger'[job'.op.id].prepared = prepared
    BY <1>1, <1>2, <1>3
  <2>2. call'[Service].changes = WriteOf(job'.op, prepared)
    BY <1>4, <2>1
  <2> QED
    BY <1>4, <1>5, <1>6, <2>1, <2>2 DEF CommitOK, WriteOf
<1>8. SlotOK'
  BY <1>2, <1>3, <1>7 DEF SlotOK
<1>9. CheckoutOK' /\ base' \in DOMAIN remote
  BY <1>2, CheckoutStays DEF RemoteOK, checkout
<1> QED
  BY <1>4, <1>8, <1>9, ProviderKeeps

\* The remote takes the commit of the operation in the gate.
LEMMA Lands ==
    ASSUME IInv, UNCHANGED <<serviceVars, checkout>>, FaultsGoOn,
           call[Service].step = "push", PushLands(Service)
    PROVE  /\ RemoteOK' /\ \A o \in OpId : EntryOK(o)'
           /\ FollowsBranch' => FollowsBranch
           /\ Had(ledger[job.op.id].prepared.next, job.op.path)'
           /\ CleanCheckout =>
                /\ local = Tip'
                /\ \E i \in DOMAIN remote' : local = remote'[i].tree
<1>1. PICK r, o, changes, tip :
        r = job.op /\ o = job.op.id /\ changes = call[Service].changes /\ tip = Tip
  OBVIOUS
<1>2. PICK prepared \in Prepared :
        /\ prepared = ledger[o].prepared
        /\ job.pc = "commit" /\ r \in Request /\ o \in OpId /\ o # Foreign
        /\ r.path \in Path /\ IsPending(o) /\ ledger[o] # None /\ ledger[o].op = r
        /\ Applies(r, prepared)
        /\ call[Service].tag = o /\ changes = WriteOf(r, prepared)
        /\ RemoteOK /\ CheckoutOK /\ CommitOK(call[Service])
  BY <1>1, Commits
<1>3. /\ ledger' = ledger /\ job' = job /\ base' = base /\ local' = local
      /\ base = Len(remote) /\ tip = remote[base].tree
  BY <1>1 DEF serviceVars, checkout, PushLands, Tip
<1>4. PICK top : top = AllWritten(tip, changes)
  OBVIOUS
<1>5. remote' = Append(remote, [tag |-> o, tree |-> top])
  BY <1>1, <1>2, <1>3, <1>4 DEF PushLands, CommitTree
<1>6. tip \in Tree /\ tip \in LocalTree /\ UniqueTree(tip)
  BY <1>1, <1>2, RemoteFields, TreesLocal
<1>7. /\ top \in Tree /\ UniqueTree(top) /\ Bytes(top[r.path]) = prepared.next
      /\ \A p \in Path : p # r.path => top[p] = tip[p]
  BY <1>2, <1>4, <1>6, OneWritten DEF Applies
<1>8. ASSUME FollowsBranch
      PROVE  RequestedOnTop(o, top)
  <2>1. Bytes(tip[r.path]) = prepared.expected
    BY <1>1, <1>2, <1>3, <1>8 DEF CommitOK
  <2>2. Changes(r, prepared.expected, prepared.next)
    BY <1>2 DEF Applies
  <2>3. IsRequestedChange(r, tip, top)
    BY <1>2, <1>7, <2>1, <2>2, RequestedChange
  <2> QED
    BY <1>1, <1>2, <1>7, <2>3 DEF RequestedOnTop
<1>9. /\ RemoteOK' /\ Tip' = top /\ (FollowsBranch' => FollowsBranch)
      /\ \A p : OnTop(p)' <=> p = o
      /\ \A p : Had(Bytes(top[p]), p)'
      /\ \E i \in DOMAIN remote' : top = remote'[i].tree
      /\ \A op, status : OnceAuthoritative(op, status) => OnceAuthoritative(op, status)'
  BY <1>2, <1>3, <1>5, <1>7, <1>8, BranchGrows
<1>10. CleanCheckout => local = top
  BY <1>1, <1>2, <1>3, <1>4 DEF CommitOK
<1>11. Had(ledger[job.op.id].prepared.next, job.op.path)'
  <2>1. PICK c, p : c = prepared.next /\ p = r.path
    OBVIOUS
  <2>2. Had(c, p)'
    BY <1>7, <1>9, <2>1
  <2>3. c = ledger'[job'.op.id].prepared.next /\ p = job'.op.path
    BY <1>1, <1>2, <1>3, <2>1
  <2> QED
    BY <2>2, <2>3
<1>12. EntryOK(o)'
  <2>1. IsPending(o)' /\ ~IsSettled(o)'
    BY <1>2, <1>3 DEF IsPending, IsSettled
  <2>2. Applies(ledger'[o].op, ledger'[o].prepared)
    BY <1>2, <1>3
  <2>3. Bytes(Tip'[ledger'[o].op.path]) = ledger'[o].prepared.next
    BY <1>2, <1>3, <1>7, <1>9
  <2> QED
    BY <2>1, <2>2, <2>3 DEF EntryOK
<1>13. ASSUME NEW p \in OpId
       PROVE  EntryOK(p)'
  <2>1. CASE p = o
    BY <1>12, <2>1
  <2>2. CASE p # o
    <3>1. EntryOK(p) /\ ledger'[p] = ledger[p] /\ ~OnTop(p)'
      BY <1>3, <1>9, <2>2 DEF IInv
    <3> QED
      BY <1>9, <3>1, EntryStays
  <2> QED
    BY <2>1, <2>2
<1> QED
  BY <1>9, <1>10, <1>11, <1>13

\* The branch has the commit, and the answer says so or is lost.
LEMMA LandedKeeps ==
    ASSUME IInv, UNCHANGED <<serviceVars, checkout>>, FaultsGoOn,
           call[Service].step = "push", PushLands(Service),
           \/ Reply(Service, "committed") /\ gateHolder' = NoCaller
           \/ /\ Advance(Service, "recover") /\ UNCHANGED gateHolder
              /\ ~CertainPushes'
    PROVE  IInv'
<1>1. PICK r, o : r = job.op /\ o = job.op.id
  OBVIOUS
<1>2. PICK prepared \in Prepared :
        /\ prepared = ledger[o].prepared
        /\ job.pc = "commit" /\ call \in [Caller -> Slot]
        /\ call[Service].tag = o /\ call[Service].changes = WriteOf(r, prepared)
        /\ CheckoutOK /\ CommitOK(call[Service])
  BY <1>1, Commits
<1>3. /\ ledger' = ledger /\ job' = job /\ minted' = minted
      /\ local' = local /\ untracked' = untracked /\ initialized' = initialized
  BY DEF serviceVars, checkout
<1>4. /\ RemoteOK' /\ (\A p \in OpId : EntryOK(p)')
      /\ FollowsBranch' => FollowsBranch
      /\ Had(ledger[job.op.id].prepared.next, job.op.path)'
      /\ CleanCheckout =>
           /\ local = Tip'
           /\ \E i \in DOMAIN remote' : local = remote'[i].tree
  BY Lands
<1>5. ServiceTypeOK' /\ JobOK'
  BY <1>3 DEF IInv, ServiceTypeOK, JobOK, IsPending
<1>6. gateHolder' \in Caller \union {NoCaller}
  BY <1>2 DEF CheckoutOK
<1>7. UniqueTree(local)'
  BY <1>2, <1>3 DEF CheckoutOK, UniqueTree, UniqueIds, Bytes
<1>8. CheckoutOK'
  BY <1>2, <1>3, <1>4, <1>6, <1>7 DEF CheckoutOK, FaultsGoOn
<1>9. CASE Reply(Service, "committed") /\ gateHolder' = NoCaller
  <2>1. call' \in [Caller -> Slot] /\ call'[Service].step = "committed"
    BY <1>2, <1>9, Replies
  <2>2. CommitOK(call[Service])'
    BY <1>4, <2>1 DEF CommitOK
  <2>3. SlotOK'
    BY <1>2, <1>3, <2>2 DEF SlotOK
  <2> QED
    BY <1>4, <1>5, <1>8, <2>1, <2>3 DEF IInv, FaultsGoOn
<1>10. CASE Advance(Service, "recover") /\ UNCHANGED gateHolder /\ ~CertainPushes'
  <2>1. /\ call' \in [Caller -> Slot]
        /\ call'[Service].step = "recover" /\ call'[Service].tag = o
        /\ call'[Service].changes = WriteOf(r, prepared)
    BY <1>2, <1>10, Advances
  <2>2. gateHolder' = Service
    BY <1>2, <1>10 DEF CommitOK
  <2>3. job'.op = r /\ job'.op.id = o /\ ledger'[job'.op.id].prepared = prepared
    BY <1>1, <1>2, <1>3
  <2>4. call'[Service].changes = WriteOf(job'.op, prepared)
    BY <2>1, <2>3
  <2>5. CommitOK(call[Service])'
    BY <1>10, <2>1, <2>2, <2>3, <2>4 DEF CommitOK, WriteOf
  <2>6. SlotOK'
    BY <1>2, <1>3, <2>5 DEF SlotOK
  <2> QED
    BY <1>4, <1>5, <1>8, <2>1, <2>6 DEF IInv, FaultsGoOn
<1> QED
  BY <1>9, <1>10

LEMMA GitPushKeeps ==
    ASSUME IInv, GitPush(Service), UNCHANGED serviceVars
    PROVE  IInv'
<1>1. /\ call[Service].step = "push" /\ faults \in FaultHistory
      /\ UNCHANGED checkout
  BY DEF IInv, GitPush
<1>2. CASE PushLands(Service) /\ Reply(Service, "committed") /\ gateHolder' = NoCaller
           /\ UNCHANGED faults
  BY <1>1, <1>2, NoFault, LandedKeeps
<1>3. CASE PushLands(Service) /\ Fault("ack") /\ Advance(Service, "recover")
           /\ UNCHANGED gateHolder
  <2>1. FaultsGoOn /\ ~CertainPushes'
    BY <1>1, <1>3, FaultTyped
  <2> QED
    BY <1>1, <1>3, <2>1, LandedKeeps
<1>4. CASE UNCHANGED <<remote, gateHolder, faults>> /\ Advance(Service, "recover")
  BY <1>1, <1>4, NoFault, PushFails
<1>5. CASE Fault("push") /\ Advance(Service, "recover") /\ UNCHANGED <<remote, gateHolder>>
  BY <1>1, <1>5, FaultTyped, PushFails
<1> QED
  BY <1>2, <1>3, <1>4, <1>5 DEF GitPush

-----------------------------------------------------------------------------
(***************************************************************************)
(* Steps of others, and crashes.                                           *)
(***************************************************************************)
\* A slot is none the worse for a refresh of others while the gate is free.
LEMMA RefreshForOthersKeeps ==
    ASSUME IInv, GitRefreshForOthers, UNCHANGED serviceVars
    PROVE  IInv'
<1>1. /\ gateHolder = NoCaller /\ Reset /\ initialized' = TRUE
      /\ remote' = remote /\ gateHolder' = gateHolder /\ call' = call
      /\ faults' = faults /\ ledger' = ledger /\ job' = job
  BY DEF GitRefreshForOthers, Refresh, serviceVars
<1>2. /\ RemoteOK /\ CheckoutOK /\ faults \in FaultHistory
      /\ call \in [Caller -> Slot] /\ SlotOK
  BY DEF IInv
<1>3. FaultsGoOn
  BY <1>1, <1>2, NoFault
<1>4. gateHolder' \in Caller \union {NoCaller} /\ initialized' \in BOOLEAN
  BY <1>1
<1>5. CheckoutOK' /\ base' \in DOMAIN remote
  BY <1>1, <1>2, <1>3, <1>4, RefreshKeeps
<1>6. /\ (CertainPushes' <=> CertainPushes) /\ (CleanCheckout' <=> CleanCheckout)
      /\ \A o : OnTop(o)' <=> OnTop(o)
      /\ \A c, p : Had(c, p)' <=> Had(c, p)
      /\ Tip' = Tip
  BY <1>1 DEF CertainPushes, CleanCheckout, Free, OnTop, Had, Tip
<1>7. PICK id, next, path, content :
        /\ id = job.op.id /\ next = ledger[job.op.id].prepared.next
        /\ path = job.op.path /\ content = Bytes(call[Service].content)
  OBVIOUS
<1>8. /\ OnTop(id)' <=> OnTop(id)
      /\ Had(next, path)' <=> Had(next, path)
      /\ Had(content, path)' <=> Had(content, path)
      /\ OnTop(Foreign)' <=> OnTop(Foreign)
  BY <1>6
<1>9. /\ OnTop(job.op.id)' <=> OnTop(job.op.id)
      /\ Had(ledger[job.op.id].prepared.next, job.op.path)' <=>
           Had(ledger[job.op.id].prepared.next, job.op.path)
      /\ Had(Bytes(call[Service].content), job.op.path)' <=>
           Had(Bytes(call[Service].content), job.op.path)
  BY <1>1, <1>7, <1>8 DEF Bytes
<1>10. CASE job.pc = "idle"
  BY <1>1, <1>2, <1>3, <1>5, <1>10, ProviderKeeps DEF SlotOK
<1>11. CASE job.pc \in {"prepare", "load", "finalize"}
  <2>1. ReadOK(call[Service])
    BY <1>2, <1>11 DEF SlotOK
  <2>2. UniqueIds(Bytes(call[Service].content))' <=> UniqueIds(Bytes(call[Service].content))
    BY <1>1 DEF UniqueIds, Bytes
  <2>3. ReadOK(call[Service])'
    BY <1>1, <1>6, <1>8, <1>9, <2>1, <2>2 DEF ReadOK
  <2>4. SlotOK'
    BY <1>1, <1>11, <2>3 DEF SlotOK
  <2> QED
    BY <1>1, <1>2, <1>3, <1>5, <2>4, ProviderKeeps
<1>12. CASE job.pc = "commit"
  <2>1. CommitOK(call[Service])
    BY <1>2, <1>12 DEF SlotOK
  <2>2. Service # NoCaller
    BY ServiceAssumption, NoCallerAssumption
  <2>3. call[Service].step \notin {"push", "recover"}
    BY <1>1, <2>1, <2>2 DEF CommitOK
  <2>4. CommitOK(call[Service])'
    BY <1>1, <1>6, <1>9, <2>1, <2>3 DEF CommitOK, WriteOf
  <2>5. SlotOK'
    BY <1>1, <1>12, <2>4 DEF SlotOK
  <2> QED
    BY <1>1, <1>2, <1>3, <1>5, <2>5, ProviderKeeps
<1> QED
  BY <1>2, <1>10, <1>11, <1>12, JobFields DEF IInv

LEMMA ForeignPushKeeps ==
    ASSUME IInv, NEW tree \in ForeignTree, ForeignPush(tree), UNCHANGED serviceVars
    PROVE  IInv'
<1>1. /\ remote' = Append(remote, [tag |-> Foreign, tree |-> tree])
      /\ local' = local /\ untracked' = untracked /\ base' = base
      /\ initialized' = initialized /\ gateHolder' = gateHolder
      /\ call' = call /\ faults' = faults
      /\ ledger' = ledger /\ job' = job /\ minted' = minted
  BY DEF ForeignPush, checkout, serviceVars
<1>2. /\ RemoteOK /\ CheckoutOK /\ faults \in FaultHistory
      /\ call \in [Caller -> Slot] /\ SlotOK
      /\ ServiceTypeOK /\ JobOK /\ \A o \in OpId : EntryOK(o)
  BY DEF IInv
<1>3. FaultsGoOn
  BY <1>1, <1>2, NoFault
<1>4. tree \in Tree /\ UniqueTree(tree)
  BY TreesAssumption, UniqueAssumption DEF Tree, UniqueTree
<1>5. PICK t : t = Foreign
  OBVIOUS
<1>6. t \in OpId \union {Foreign} /\ t \notin OpId
  BY <1>5, TagsAssumption
<1>7. /\ RemoteOK' /\ (FollowsBranch' => FollowsBranch)
      /\ base \in DOMAIN remote' /\ remote'[base] = remote[base]
      /\ \A o : OnTop(o)' <=> o = t
      /\ \A c, p : Had(c, p) => Had(c, p)'
      /\ \A other : (\E i \in DOMAIN remote : other = remote[i].tree) =>
                      \E i \in DOMAIN remote' : other = remote'[i].tree
      /\ \A op, status : OnceAuthoritative(op, status) => OnceAuthoritative(op, status)'
  BY <1>1, <1>2, <1>3, <1>4, <1>5, <1>6, BranchGrows
<1>8. (CertainPushes' <=> CertainPushes) /\ (CleanCheckout' <=> CleanCheckout)
  BY <1>1 DEF CertainPushes, CleanCheckout, Free
<1>9. UniqueTree(local)'
  BY <1>1, <1>2 DEF CheckoutOK, UniqueTree, UniqueIds, Bytes
<1>10. OnTop(Foreign)'
  BY <1>5, <1>7
<1>11. CheckoutOK'
  BY <1>1, <1>2, <1>7, <1>8, <1>9, <1>10 DEF CheckoutOK
<1>12. ASSUME NEW o \in OpId
       PROVE  EntryOK(o)' /\ ~OnTop(o)'
  <2>1. ~OnTop(o)'
    BY <1>6, <1>7
  <2> QED
    BY <1>1, <1>2, <1>3, <1>7, <2>1, EntryStays
<1>13. ServiceTypeOK' /\ JobOK'
  BY <1>1, <1>2 DEF ServiceTypeOK, JobOK, IsPending
<1>14. PICK id, next, path, content :
         /\ id = job.op.id /\ next = ledger[job.op.id].prepared.next
         /\ path = job.op.path /\ content = Bytes(call[Service].content)
  OBVIOUS
<1>15. /\ Had(next, path) => Had(next, path)'
       /\ Had(content, path) => Had(content, path)'
  BY <1>7
<1>16. /\ Had(ledger[job.op.id].prepared.next, job.op.path) =>
            Had(ledger[job.op.id].prepared.next, job.op.path)'
       /\ Had(Bytes(call[Service].content), job.op.path) =>
            Had(Bytes(call[Service].content), job.op.path)'
  BY <1>1, <1>14, <1>15 DEF Bytes
<1>17. job.pc # "idle" => ~OnTop(job.op.id)'
  <2>1. ASSUME job.pc # "idle"
        PROVE  ~OnTop(id)'
    BY <1>2, <1>12, <1>14, <2>1, JobFields
  <2> QED
    BY <1>1, <1>14, <2>1
<1>18. SlotOK'
  <2>1. CASE job.pc = "idle"
    BY <1>1, <1>2, <2>1 DEF SlotOK
  <2>2. CASE job.pc \in {"prepare", "load", "finalize"}
    <3>1. ReadOK(call[Service])
      BY <1>2, <2>2 DEF SlotOK
    <3>2. UniqueIds(Bytes(call[Service].content))' <=> UniqueIds(Bytes(call[Service].content))
      BY <1>1 DEF UniqueIds, Bytes
    <3>3. ReadOK(call[Service])'
      BY <1>1, <1>8, <1>10, <1>16, <1>17, <2>2, <3>1, <3>2 DEF ReadOK
    <3> QED
      BY <1>1, <2>2, <3>3 DEF SlotOK
  <2>3. CASE job.pc = "commit"
    <3>1. CommitOK(call[Service])
      BY <1>2, <2>3 DEF SlotOK
    <3>2. PICK commit : commit = remote[base]
      OBVIOUS
    <3>3. remote'[base'] = commit
      BY <1>1, <1>7, <3>2
    <3>4. CommitOK(call[Service])'
      BY <1>1, <1>7, <1>8, <1>16, <1>17, <2>3, <3>1, <3>2, <3>3
         DEF CommitOK, WriteOf, Bytes
    <3> QED
      BY <1>1, <2>3, <3>4 DEF SlotOK
  <2> QED
    BY <1>2, <2>1, <2>2, <2>3, JobFields
<1> QED
  BY <1>1, <1>2, <1>7, <1>11, <1>12, <1>13, <1>18 DEF IInv

LEMMA CrashKeeps ==
    ASSUME IInv, Crash
    PROVE  IInv'
<1>1. /\ remote' = remote /\ local' = local /\ untracked' = untracked /\ base' = base
      /\ gateHolder' = NoCaller /\ initialized' = FALSE
      /\ ledger' = ledger /\ minted' = minted /\ Finish
  BY DEF Crash, GitRestart
<1>2. /\ RemoteOK /\ CheckoutOK /\ faults \in FaultHistory /\ ServiceTypeOK
      /\ call \in [Caller -> Slot] /\ \A o \in OpId : EntryOK(o)
  BY DEF IInv
<1>3. FaultsGoOn
  BY <1>2, FaultTyped DEF Crash
<1>4. /\ call' \in [Caller -> Slot] /\ job' \in Job
      /\ JobOK' /\ SlotOK'
  BY <1>1, <1>2, Finishes
<1>5. base' \in DOMAIN remote /\ LedgerGoesOn
  BY <1>1, <1>2 DEF RemoteOK, LedgerGoesOn
<1>6. /\ RemoteOK' /\ Tip' = Tip /\ (FollowsBranch' => FollowsBranch)
      /\ \A o : OnTop(o)' <=> OnTop(o)
      /\ \A op, status : OnceAuthoritative(op, status)' <=> OnceAuthoritative(op, status)
  BY <1>1, <1>2, <1>3, <1>5, BranchStays DEF LedgerGoesOn
<1>7. UniqueTree(local)'
  BY <1>1, <1>2 DEF CheckoutOK, UniqueTree, UniqueIds, Bytes
<1>8. CheckoutOK'
  BY <1>1, <1>2, <1>6, <1>7 DEF CheckoutOK
<1>9. \A o \in OpId : EntryOK(o)'
  BY <1>1, <1>2, <1>3, <1>6, EntryStays
<1>10. ServiceTypeOK'
  BY <1>1, <1>2, <1>4 DEF ServiceTypeOK
<1> QED
  BY <1>3, <1>4, <1>6, <1>8, <1>9, <1>10 DEF IInv, FaultsGoOn

-----------------------------------------------------------------------------
(***************************************************************************)
(* The invariant holds.                                                    *)
(***************************************************************************)
LEMMA InitInvariant ==
    ASSUME Init
    PROVE  IInv
<1>1. PICK first : first = [tag |-> Foreign, tree |-> InitialTree]
  OBVIOUS
<1>2. /\ remote = <<first>> /\ local = InitialTree /\ untracked = {} /\ base = 1
      /\ gateHolder = NoCaller /\ initialized = FALSE
      /\ ledger = [o \in OpId |-> None] /\ job = [pc |-> "idle"] /\ minted = {}
      /\ call = [k \in Caller |-> Idle] /\ faults = NoFaults
  BY <1>1 DEF Init, GitInit, ServiceInit, ProviderInit
<1>3. /\ Len(remote) = 1 /\ DOMAIN remote = {1} /\ remote[1] = first
      /\ first.tag = Foreign /\ first.tree = InitialTree
  BY <1>1, <1>2
<1>4. InitialTree \in Tree /\ UniqueTree(InitialTree)
  BY TreesAssumption, UniqueAssumption DEF Tree, UniqueTree
<1>5. PICK C : C = [tag: Tag, tree: Tree]
  OBVIOUS
<1>6. first \in C
  BY <1>1, <1>4, <1>5, TagsAssumption
<1>7. remote \in Seq(C)
  BY <1>2, <1>6
<1>8. RemoteOK
  BY <1>2, <1>3, <1>4, <1>5, <1>7 DEF RemoteOK, CommitsAreRequestedChanges
<1>9. CheckoutOK
  BY <1>2, <1>4, TreesLocal DEF CheckoutOK
<1>10. \A o \in OpId : EntryOK(o)
  BY <1>2 DEF EntryOK, IsPending, IsSettled
<1>11. ServiceTypeOK /\ JobOK
  BY <1>2 DEF ServiceTypeOK, JobOK, Job
<1>12. call \in [Caller -> Slot]
  BY <1>2, SlotTyped
<1>13. SlotOK
  BY <1>2, ServiceAssumption DEF SlotOK
<1>14. faults \in FaultHistory
  BY <1>2 DEF FaultHistory, NoFaults
<1> QED
  BY <1>8, <1>9, <1>10, <1>11, <1>12, <1>13, <1>14 DEF IInv

LEMMA Stutters ==
    ASSUME IInv, UNCHANGED vars
    PROVE  IInv'
<1>1. /\ call' = call /\ faults' = faults /\ ledger' = ledger /\ job' = job
      /\ minted' = minted /\ remote' = remote /\ local' = local
      /\ untracked' = untracked /\ base' = base /\ gateHolder' = gateHolder
      /\ initialized' = initialized
  BY DEF vars, serviceVars, gitVars
<1>2. /\ RemoteOK /\ CheckoutOK /\ faults \in FaultHistory /\ ServiceTypeOK
      /\ call \in [Caller -> Slot] /\ SlotOK /\ JobOK
  BY DEF IInv
<1>3. FaultsGoOn
  BY <1>1, <1>2, NoFault
<1>4. job' \in Job /\ JobOK'
  BY <1>1, <1>2 DEF ServiceTypeOK, JobOK, IsPending
<1>5. /\ (CertainPushes' <=> CertainPushes) /\ (CleanCheckout' <=> CleanCheckout)
      /\ (FollowsBranch' <=> FollowsBranch)
      /\ OnTop(job.op.id)' <=> OnTop(job.op.id)
      /\ OnTop(Foreign)' <=> OnTop(Foreign)
      /\ Tip' = Tip
  BY <1>1 DEF CertainPushes, CleanCheckout, FollowsBranch, Free, OnTop, Tip
<1>6. /\ Had(ledger[job.op.id].prepared.next, job.op.path)' <=>
           Had(ledger[job.op.id].prepared.next, job.op.path)
      /\ Had(Bytes(call[Service].content), job.op.path)' <=>
           Had(Bytes(call[Service].content), job.op.path)
      /\ UniqueIds(Bytes(call[Service].content))' <=> UniqueIds(Bytes(call[Service].content))
  BY <1>1 DEF Had, UniqueIds, Bytes
<1>7. ReadOK(call[Service])' <=> ReadOK(call[Service])
  BY <1>1, <1>5, <1>6 DEF ReadOK
<1>8. CommitOK(call[Service])' <=> CommitOK(call[Service])
  BY <1>1, <1>5, <1>6 DEF CommitOK, WriteOf
<1>9. SlotOK'
  BY <1>1, <1>2, <1>7, <1>8 DEF SlotOK
<1> QED
  BY <1>1, <1>2, <1>3, <1>4, <1>9, HandlerKeeps DEF gitVars

LEMMA NextInvariant ==
    ASSUME IInv, [Next]_vars
    PROVE  IInv'
<1>1. CASE UNCHANGED vars
  BY <1>1, Stutters
<1>2. CASE ServiceStep /\ UNCHANGED gitVars
  BY <1>2, ServiceStepKeeps
<1>3. CASE GitStep(Service, Fragments) /\ UNCHANGED serviceVars
  BY <1>3, GitReadKeeps, GitCommitLocallyKeeps, GitCommitFailsKeeps, GitPushKeeps,
     GitRecoverKeeps DEF GitStep
<1>4. CASE GitRefreshForOthers /\ UNCHANGED serviceVars
  BY <1>4, RefreshForOthersKeeps
<1>5. CASE \E tree \in ForeignTree : ForeignPush(tree) /\ UNCHANGED serviceVars
  BY <1>5, ForeignPushKeeps
<1>6. CASE Crash
  BY <1>6, CrashKeeps
<1> QED
  BY <1>1, <1>2, <1>3, <1>4, <1>5, <1>6 DEF Next

-----------------------------------------------------------------------------
(***************************************************************************)
(* The branch that SpatialBranch speaks of.                                *)
(***************************************************************************)
LEMMA ObjectsTyped ==
    ASSUME NEW tree \in Tree
    PROVE  /\ ObjectsIn(tree) \in [Path -> SUBSET Item]
           /\ \A p \in Path : ObjectsIn(tree)[p] = ItemsIn(Bytes(tree[p]))
<1>1. ASSUME NEW p \in Path
      PROVE  ItemsIn(Bytes(tree[p])) \subseteq Item
  <2>1. PICK items : items = Bytes(tree[p])
    OBVIOUS
  <2>2. tree[p] \in Collection \union {Absent}
    BY DEF Tree
  <2>3. items \in Seq(Item)
    BY <2>1, <2>2, BytesOf DEF Collection
  <2>4. \A i \in DOMAIN items : items[i] \in Item
    BY <2>3
  <2> QED
    BY <2>1, <2>4 DEF ItemsIn
<1> QED
  BY <1>1 DEF ObjectsIn

Seen(branch) ==
    [i \in DOMAIN branch |->
       [by |-> branch[i].tag, objects |-> ObjectsIn(branch[i].tree)]]
Commit == [by: Tag, objects: [Path -> SUBSET Item]]

LEMMA SeenTyped ==
    ASSUME NEW branch \in Seq([tag: Tag, tree: Tree])
    PROVE  /\ Seen(branch) \in Seq(Commit) /\ Len(Seen(branch)) = Len(branch)
           /\ \A i \in 1..Len(branch) :
                Seen(branch)[i] = [by |-> branch[i].tag,
                                   objects |-> ObjectsIn(branch[i].tree)]
<1>1. PICK n, C : n = Len(branch) /\ C = [tag: Tag, tree: Tree]
  OBVIOUS
<1>2. n \in Nat /\ DOMAIN branch = 1..n /\ \A i \in 1..n : branch[i] \in C
  <2>1. branch \in Seq(C)
    BY <1>1
  <2>2. Len(branch) \in Nat /\ DOMAIN branch = 1..Len(branch)
    BY <2>1
  <2>3. \A i \in 1..Len(branch) : branch[i] \in C
    BY <2>1
  <2> QED
    BY <1>1, <2>2, <2>3
<1>3. \A i \in 1..n : branch[i].tag \in Tag /\ branch[i].tree \in Tree
  BY <1>1, <1>2
<1>4. \A i \in 1..n :
        Seen(branch)[i] = [by |-> branch[i].tag, objects |-> ObjectsIn(branch[i].tree)]
  BY <1>2 DEF Seen
<1>5. ASSUME NEW i \in 1..n
      PROVE  Seen(branch)[i] \in Commit
  <2>1. PICK t, objects : t = branch[i].tag /\ objects = ObjectsIn(branch[i].tree)
    OBVIOUS
  <2>2. t \in Tag /\ objects \in [Path -> SUBSET Item]
    BY <1>3, <2>1, ObjectsTyped
  <2>3. Seen(branch)[i] = [by |-> t, objects |-> objects]
    BY <1>4, <2>1
  <2> QED
    BY <2>2, <2>3 DEF Commit
<1>6. Seen(branch) \in [1..n -> Commit]
  BY <1>2, <1>5 DEF Seen
<1>7. Seen(branch) \in Seq(Commit) /\ Len(Seen(branch)) = n
  BY <1>2, <1>6
<1> QED
  BY <1>1, <1>4, <1>7

LEMMA CommitsSeen ==
    ASSUME RemoteOK
    PROVE  /\ BranchCommits \in Seq(Commit) /\ Len(BranchCommits) = Len(remote)
           /\ DOMAIN BranchCommits = 1..Len(remote)
           /\ \A i \in 1..Len(remote) :
                BranchCommits[i] = [by |-> remote[i].tag,
                                    objects |-> ObjectsIn(remote[i].tree)]
           /\ BranchPromise!Tip = ObjectsIn(Tip)
           /\ \A by : BranchPromise!OnTop(by) <=> OnTop(by)
<1>1. PICK n : n = Len(remote)
  OBVIOUS
<1>2. n \in Nat /\ n \in 1..n
  BY <1>1, RemoteFields
<1>3. BranchCommits = Seen(remote)
  BY DEF BranchCommits, Seen
<1>4. /\ BranchCommits \in Seq(Commit) /\ Len(BranchCommits) = n
      /\ \A i \in 1..n : BranchCommits[i] = [by |-> remote[i].tag,
                                             objects |-> ObjectsIn(remote[i].tree)]
  BY <1>1, <1>3, SeenTyped DEF RemoteOK
<1>5. /\ BranchPromise!Tip = BranchCommits[n].objects
      /\ \A by : BranchPromise!OnTop(by) <=> BranchCommits[n].by = by
  BY <1>4 DEF BranchPromise!Tip, BranchPromise!OnTop
<1>6. DOMAIN BranchCommits = 1..n
  BY <1>4
<1>7. /\ BranchCommits[n].objects = ObjectsIn(remote[n].tree)
      /\ BranchCommits[n].by = remote[n].tag
  BY <1>2, <1>4
<1>8. /\ BranchPromise!Tip = ObjectsIn(Tip)
      /\ \A by : BranchPromise!OnTop(by) <=> OnTop(by)
  BY <1>1, <1>5, <1>7 DEF Tip, OnTop
<1> QED
  BY <1>1, <1>4, <1>6, <1>8

\* The source, as commit i shows it.
LEMMA SourceAtCommit ==
    ASSUME RemoteOK, NEW i \in 1..Len(remote), NEW p \in Path
    PROVE  /\ BranchCommits[i].objects[p] = ItemsIn(Bytes(remote[i].tree[p]))
           /\ BranchPromise!At(i)!IdsIn(p) = IdsIn(Bytes(remote[i].tree[p]))
<1>1. /\ BranchCommits[i].objects = ObjectsIn(remote[i].tree)
      /\ remote[i].tree \in Tree
  BY CommitsSeen, RemoteFields
<1>2. BranchCommits[i].objects[p] = ItemsIn(Bytes(remote[i].tree[p]))
  BY <1>1, ObjectsTyped
<1> QED
  BY <1>2 DEF IdsIn, BranchPromise!At!IdsIn

LEMMA LedgerSeen ==
    \A o \in OpId :
      /\ SourceRequest[o] = IF ledger[o] = None THEN None ELSE ledger[o].op
      /\ SourceOutcome[o] = IF ledger[o] = None THEN None ELSE ledger[o].status
BY DEF SourceRequest, SourceOutcome

\* An entry that is saved binds its id to its request and its status.
LEMMA SavedSeen ==
    ASSUME ServiceTypeOK, NEW op \in Request, NEW entry \in Entry, entry.op = op,
           Save(op, entry)
    PROVE  /\ SourceRequest' = [SourceRequest EXCEPT ![op.id] = op]
           /\ SourceOutcome' = [SourceOutcome EXCEPT ![op.id] = entry.status]
<1>1. op.id \in OpId /\ entry # None
  BY RequestFields, DistinctAssumption
<1>2. /\ ledger'[op.id] = entry
      /\ \A o \in OpId : o # op.id => ledger'[o] = ledger[o]
  BY SaveTyped
<1> QED
  BY <1>1, <1>2 DEF SourceRequest, SourceOutcome

LEMMA TrustFields ==
    /\ "exact" \in BranchTrust <=> FollowsBranch
    /\ "truthful" \in BranchTrust <=> CleanCheckout
    /\ "certain" \in BranchTrust <=> CertainPushes
BY DEF BranchTrust

\* What a failure or another clone puts in doubt stays in doubt.
LEMMA TrustFalls ==
    ASSUME FaultsGoOn, FollowsBranch' => FollowsBranch
    PROVE  BranchTrust' \in SUBSET BranchTrust
BY DEF BranchTrust, FaultsGoOn

LEMMA TrustStays ==
    ASSUME UNCHANGED <<remote, faults>>
    PROVE  UNCHANGED <<BranchCommits, BranchTrust>>
<1>1. UNCHANGED BranchCommits
  BY DEF BranchCommits, ObjectsIn, Bytes
<1>2. /\ FollowsBranch' <=> FollowsBranch
      /\ CleanCheckout' <=> CleanCheckout
      /\ CertainPushes' <=> CertainPushes
  BY DEF FollowsBranch, CleanCheckout, CertainPushes, Free
<1> QED
  BY <1>1, <1>2 DEF BranchTrust

\* A step that neither writes the ledger nor reaches the branch.
LEMMA QuietOnBranch ==
    ASSUME FaultsGoOn, UNCHANGED <<ledger, remote>>
    PROVE  BranchPromise!BranchNext
<1>1. FollowsBranch' => FollowsBranch
  BY DEF FollowsBranch, FaultsGoOn
<1>2. UNCHANGED <<BranchCommits, SourceRequest, SourceOutcome>>
  BY DEF BranchCommits, ObjectsIn, Bytes, SourceRequest, SourceOutcome
<1> QED
  BY <1>1, <1>2, TrustFalls DEF BranchPromise!BranchNext, BranchPromise!Doubt

\* The branch grows in SpatialBranch as it does here.
LEMMA GrowsOnBranch ==
    ASSUME RemoteOK, NEW t \in Tag, NEW top \in Tree,
           remote' = Append(remote, [tag |-> t, tree |-> top])
    PROVE  BranchPromise!Grows(t) /\ BranchPromise!Tip' = ObjectsIn(top)
<1>1. PICK n, C, new, after :
        /\ n = Len(remote) /\ C = [tag: Tag, tree: Tree]
        /\ new = [tag |-> t, tree |-> top] /\ after = remote'
  OBVIOUS
<1>2. n \in Nat /\ remote \in Seq(C) /\ new \in C
  BY <1>1, RemoteFields DEF RemoteOK
<1>3. /\ after \in Seq(C) /\ Len(after) = n + 1 /\ after[n + 1] = new
      /\ \A i \in 1..n : after[i] = remote[i]
  BY <1>1, <1>2, AppendProperties
<1>4. PICK old, grown, commit :
        /\ old = BranchCommits /\ grown = Seen(after)
        /\ commit = [by |-> t, objects |-> ObjectsIn(top)]
  OBVIOUS
<1>5. BranchCommits' = grown
  BY <1>1, <1>4 DEF BranchCommits, Seen, ObjectsIn, Bytes
<1>6. /\ old \in Seq(Commit) /\ Len(old) = n
      /\ \A i \in 1..n : old[i] = [by |-> remote[i].tag,
                                   objects |-> ObjectsIn(remote[i].tree)]
  BY <1>1, <1>4, CommitsSeen
<1>7. /\ grown \in Seq(Commit) /\ Len(grown) = n + 1
      /\ \A i \in 1..(n + 1) : grown[i] = [by |-> after[i].tag,
                                           objects |-> ObjectsIn(after[i].tree)]
  BY <1>1, <1>3, <1>4, SeenTyped
<1>8. commit \in Commit /\ commit.objects = ObjectsIn(top)
  BY <1>4, ObjectsTyped DEF Commit
<1>9. PICK longer : longer = Append(old, commit)
  OBVIOUS
<1>10. /\ longer \in Seq(Commit) /\ Len(longer) = n + 1 /\ longer[n + 1] = commit
       /\ \A i \in 1..n : longer[i] = old[i]
  BY <1>6, <1>8, <1>9, AppendProperties
<1>11. grown = longer
  <2>1. new.tag = t /\ new.tree = top
    BY <1>1
  <2>2. n + 1 \in 1..(n + 1)
    BY <1>2
  <2>3. grown[n + 1] = longer[n + 1]
    BY <1>3, <1>4, <1>7, <1>10, <2>1, <2>2
  <2>4. ASSUME NEW i \in 1..n
        PROVE  grown[i] = longer[i]
    <3>1. i \in 1..(n + 1)
      BY <1>2
    <3> QED
      BY <1>3, <1>6, <1>7, <1>10, <3>1
  <2>5. \A i \in 1..(n + 1) : i = n + 1 \/ i \in 1..n
    BY <1>2
  <2>6. \A i \in 1..(n + 1) : grown[i] = longer[i]
    BY <2>3, <2>4, <2>5
  <2> QED
    BY <1>7, <1>10, <2>6, SeqEqual
<1>12. BranchPromise!Tip' = commit.objects
  <2>1. grown[Len(grown)] = commit
    BY <1>7, <1>10, <1>11
  <2> QED
    BY <1>5, <2>1 DEF BranchPromise!Tip
<1> QED
  BY <1>4, <1>5, <1>8, <1>9, <1>11, <1>12 DEF BranchPromise!Grows

-----------------------------------------------------------------------------
(***************************************************************************)
(* Answers.                                                                *)
(***************************************************************************)
\* A payload that names another object is a reason on every collection.
LEMMA RefusalKinds ==
    ASSUME NEW r \in Request, NEW items, NEW status, Refuses(r, items, status)
    PROVE  status.state = "conflict" \/ BranchPromise!OnTip!RejectedIsTrue(r, status)
<1>1. CASE status.state = "conflict"
  BY <1>1
<1>2. CASE status.state # "conflict"
  <2>1. /\ status = Rejected
        /\ {r.target, r.payloadId} \cap {None} = {}
        /\ r.target # r.payloadId
    BY <1>2 DEF Refuses, Conflict
  <2>2. status.state = "rejected"
    BY <2>1 DEF Rejected
  <2> QED
    BY <2>1, <2>2 DEF BranchPromise!OnTip!RejectedIsTrue, BranchPromise!OnTip!NamesAnother
<1> QED
  BY <1>1, <1>2

\* A conflict that prepare() finds on commit i is true of that commit.
LEMMA ConflictAtCommit ==
    ASSUME RemoteOK, NEW r \in Request, NEW status, NEW i \in 1..Len(remote),
           Refuses(r, Bytes(remote[i].tree[r.path]), status),
           status.state = "conflict"
    PROVE  BranchPromise!At(i)!ConflictIsTrue(r, status)
<1>1. PICK items : items = Bytes(remote[i].tree[r.path])
  OBVIOUS
<1>2. /\ r.path \in Path
      /\ BranchCommits[i].objects[r.path] = ItemsIn(items)
      /\ BranchPromise!At(i)!IdsIn(r.path) = IdsIn(items)
  BY <1>1, RequestFields, SourceAtCommit
<1>3. /\ BranchPromise!At(i)!Item(r.target, r.base) = [id |-> r.target, val |-> r.base]
      /\ BranchPromise!At(i)!IdsFor(r) = BranchPromise!OnTip!IdsFor(r)
  BY DEF BranchPromise!At!Item, BranchPromise!At!IdsFor, BranchPromise!OnTip!IdsFor
<1>4. CASE /\ status = Conflict("object-exists")
           /\ r.action = "create"
           /\ \E id \in BranchPromise!OnTip!IdsFor(r) : id \in IdsIn(items)
  <2>1. status.type = "object-exists"
    BY <1>4 DEF Conflict
  <2> QED
    BY <1>2, <1>3, <1>4, <2>1 DEF BranchPromise!At!ConflictIsTrue
<1>5. CASE /\ status = Conflict("object-missing")
           /\ r.action # "create"
           /\ r.target \notin IdsIn(items)
  <2>1. status.type = "object-missing"
    BY <1>5 DEF Conflict
  <2> QED
    BY <1>2, <1>5, <2>1 DEF BranchPromise!At!ConflictIsTrue
<1>6. CASE /\ status = Conflict("revision-mismatch")
           /\ r.action # "create"
           /\ r.target \in IdsIn(items)
           /\ [id |-> r.target, val |-> r.base] \notin ItemsIn(items)
  <2>1. status.type = "revision-mismatch"
    BY <1>6 DEF Conflict
  <2> QED
    BY <1>2, <1>3, <1>6, <2>1 DEF BranchPromise!At!ConflictIsTrue
<1>7. status # Rejected
  BY DEF Rejected
<1> QED
  BY <1>1, <1>4, <1>5, <1>6, <1>7 DEF Refuses

\* An id that the target and the payload of a request allow.
LEMMA MayBeUsed ==
    ASSUME NEW r \in Request, NEW id \in Object, NEW i,
           {r.target, r.payloadId} \subseteq {id, None}
    PROVE  id \in BranchPromise!At(i)!IdsFor(r) /\ id \in BranchPromise!OnTip!IdsFor(r)
<1>1. CASE r.target # None
  BY <1>1 DEF BranchPromise!At!IdsFor, BranchPromise!OnTip!IdsFor
<1>2. CASE r.target = None /\ r.payloadId # None
  BY <1>2 DEF BranchPromise!At!IdsFor, BranchPromise!OnTip!IdsFor
<1>3. CASE r.target = None /\ r.payloadId = None
  BY <1>3 DEF BranchPromise!At!IdsFor, BranchPromise!OnTip!IdsFor
<1> QED
  BY <1>1, <1>2, <1>3

\* What finalizeCommitted() reports is true of a commit with the prepared
\* collection.
LEMMA CommittedAtCommit ==
    ASSUME RemoteOK, NEW r \in Request, NEW prepared \in Prepared, Applies(r, prepared),
           NEW i \in 1..Len(remote), Bytes(remote[i].tree[r.path]) = prepared.next
    PROVE  BranchPromise!At(i)!CommittedIsTrue(r, Committed(prepared))
<1>1. PICK status : status = Committed(prepared)
  OBVIOUS
<1>2. /\ status.state = "source-committed"
      /\ status.obj = prepared.obj /\ status.rev = prepared.rev
  BY <1>1 DEF Committed
<1>3. /\ Shows(r, prepared.obj, prepared.rev, prepared.next)
      /\ {r.target, r.payloadId} \subseteq {prepared.obj, None}
      /\ prepared.rev = r.val /\ prepared.obj \in Object
  BY DEF Applies, Prepared
<1>4. /\ BranchCommits[i].objects[r.path] = ItemsIn(prepared.next)
      /\ BranchPromise!At(i)!IdsIn(r.path) = IdsIn(prepared.next)
  BY RequestFields, SourceAtCommit
<1>5. CASE r.action = "delete"
  <2>1. r.target # None /\ r.val = None
    BY <1>5, RequestAssumption
  <2>2. prepared.obj = r.target /\ prepared.obj \notin IdsIn(prepared.next)
    BY <1>3, <1>5, <2>1 DEF Shows
  <2> QED
    BY <1>1, <1>2, <1>3, <1>4, <1>5, <2>1, <2>2 DEF BranchPromise!At!CommittedIsTrue
<1>6. CASE r.action # "delete"
  <2>1. [id |-> prepared.obj, val |-> r.val] \in ItemsIn(prepared.next)
    BY <1>3, <1>6 DEF Shows
  <2>2. prepared.obj \in BranchPromise!At(i)!IdsFor(r)
    BY <1>3, MayBeUsed
  <2> QED
    BY <1>1, <1>2, <1>3, <1>4, <1>6, <2>1, <2>2
    DEF BranchPromise!At!CommittedIsTrue, BranchPromise!At!Item
<1> QED
  BY <1>5, <1>6

\* Saving the status settles the operation.
LEMMA SettlesOnBranch ==
    ASSUME ServiceTypeOK, UNCHANGED <<remote, faults>>,
           NEW op \in Request, NEW status \in Status, Save(op, Settled(op, status)),
           ledger[op.id] # None => IsPending(op.id) /\ ledger[op.id].op = op,
           \/ BranchPromise!Refuse(op, status)
           \/ BranchPromise!Confirm(op, status)
    PROVE  BranchPromise!BranchNext
<1>1. op.id \in OpId
  BY RequestFields
<1>2. SourceRequest[op.id] \in {None, op} /\ SourceOutcome[op.id] = None
  BY <1>1, LedgerSeen DEF IsPending
<1>3. PICK entry : entry = Settled(op, status)
  OBVIOUS
<1>4. entry \in Entry /\ entry.op = op /\ entry.status = status /\ Save(op, entry)
  BY <1>3, SettledEntry
<1>5. /\ SourceRequest' = [SourceRequest EXCEPT ![op.id] = op]
      /\ SourceOutcome' = [SourceOutcome EXCEPT ![op.id] = status]
  BY <1>4, SavedSeen
<1>6. BranchPromise!Settle(op, status)
  BY <1>2, <1>5, TrustStays DEF BranchPromise!Settle
<1>7. status \in BranchPromise!OnTip!SourceAnswer
  BY DEF Status, BranchPromise!OnTip!SourceAnswer
<1> QED
  BY <1>6, <1>7 DEF BranchPromise!BranchNext

\* A terminal outcome of prepare() is a refusal that SpatialBranch allows.
LEMMA RefusesOnBranch ==
    ASSUME RemoteOK, NEW r \in Request, NEW items, NEW status, Refuses(r, items, status),
           CleanCheckout =>
             /\ Had(items, r.path)
             /\ ~OnTop(Foreign) => items = Bytes(Tip[r.path]),
           ~(CertainPushes /\ OnTop(r.id))
    PROVE  BranchPromise!Refuse(r, status)
<1>1. "certain" \in BranchTrust => ~BranchPromise!OnTop(r.id)
  BY TrustFields, CommitsSeen
<1>2. CASE status.state # "conflict"
  BY <1>1, <1>2, RefusalKinds DEF BranchPromise!Refuse
<1>3. CASE status.state = "conflict"
  <2>1. ASSUME CleanCheckout
        PROVE  \E i \in BranchPromise!Seen : BranchPromise!At(i)!ConflictIsTrue(r, status)
    <3>1. PICK i \in 1..Len(remote) :
            /\ Bytes(remote[i].tree[r.path]) = items
            /\ ~OnTop(Foreign) => i = Len(remote)
      <4>1. CASE OnTop(Foreign)
        BY <2>1, <4>1, RemoteFields DEF Had
      <4>2. CASE ~OnTop(Foreign)
        BY <2>1, <4>2, RemoteFields DEF Tip
      <4> QED
        BY <4>1, <4>2
    <3>2. Refuses(r, Bytes(remote[i].tree[r.path]), status)
      BY <3>1
    <3>3. BranchPromise!At(i)!ConflictIsTrue(r, status)
      BY <1>3, <3>2, ConflictAtCommit
    <3>4. i \in BranchPromise!Seen
      BY <3>1, CommitsSeen DEF BranchPromise!Seen
    <3> QED
      BY <3>3, <3>4
  <2>2. "truthful" \in BranchTrust =>
          \E i \in BranchPromise!Seen : BranchPromise!At(i)!ConflictIsTrue(r, status)
    BY <2>1, TrustFields
  <2> QED
    BY <1>1, <1>3, <2>2 DEF BranchPromise!Refuse
<1> QED
  BY <1>2, <1>3

-----------------------------------------------------------------------------
(***************************************************************************)
(* Steps, as SpatialBranch has them.                                       *)
(***************************************************************************)
\* prepare() accepts the operation, prepares it anew, or refuses it.
LEMMA PrepareOnBranch ==
    ASSUME IInv, Prepare, UNCHANGED gitVars
    PROVE  [BranchPromise!BranchNext]_(BranchPromise!branchVars)
<1>1. PICK r, o, items : r = job.op /\ o = job.op.id /\ items = LoadedItems
  OBVIOUS
<1>2. /\ job.pc = "prepare" /\ call[Service].step = "data"
      /\ call[Service].content # Torn /\ faults' = faults /\ remote' = remote
  BY DEF Prepare, Loaded, Replied, gitVars
<1>3. /\ ServiceTypeOK /\ RemoteOK
      /\ r \in Request /\ o \in OpId /\ r.id = o
      /\ items \in Collection /\ UniqueIds(items)
      /\ CleanCheckout =>
           /\ Had(items, r.path)
           /\ ~OnTop(Foreign) => items = Bytes(Tip[r.path])
      /\ ~(CertainPushes /\ OnTop(o))
  BY <1>1, <1>2, DataRead
<1>4. ledger[o] # None => IsPending(o) /\ ledger[o].op = r
  BY <1>1, <1>2 DEF IInv, JobOK
<1>5. PICK fresh \in IF NeedsFreshId(r) THEN FreshId \ minted ELSE {None} :
        IF IsPrepared(Plan(r, items, fresh))
          THEN Save(r, Unsettled(r, Plan(r, items, fresh)))
          ELSE Save(r, Settled(r, Plan(r, items, fresh)))
  BY <1>1 DEF Prepare
<1>6. PICK plan : plan = Plan(r, items, fresh)
  OBVIOUS
<1>7. Outcome(r, items, plan)
  BY <1>3, <1>5, <1>6, PlanOutcome
<1>8. CASE ~IsPrepared(plan)
  <2>1. plan \in Status /\ Refuses(r, items, plan) /\ Save(r, Settled(r, plan))
    BY <1>5, <1>6, <1>7, <1>8 DEF Outcome, Refusal
  <2>2. BranchPromise!Refuse(r, plan)
    BY <1>3, <2>1, RefusesOnBranch
  <2> QED
    BY <1>2, <1>3, <1>4, <2>1, <2>2, SettlesOnBranch
<1>9. CASE IsPrepared(plan)
  <2>1. PICK entry : entry = Unsettled(r, plan)
    OBVIOUS
  <2>2. entry \in Entry /\ entry.op = r /\ entry.status = None /\ Save(r, entry)
    BY <1>3, <1>5, <1>6, <1>7, <1>9, <2>1, UnsettledEntry DEF Outcome
  <2>3. /\ SourceRequest' = [SourceRequest EXCEPT ![o] = r]
        /\ SourceOutcome' = [SourceOutcome EXCEPT ![o] = None]
    BY <1>3, <2>2, SavedSeen
  <2>4. SourceOutcome[o] = None
    BY <1>3, <1>4, LedgerSeen DEF IsPending
  <2>5. UNCHANGED SourceOutcome
    BY <1>3, <2>3, <2>4 DEF SourceOutcome
  <2>6. UNCHANGED <<BranchCommits, BranchTrust>>
    BY <1>2, TrustStays
  <2>7. CASE ledger[o] = None
    <3>1. SourceRequest[o] = None
      BY <1>3, <2>7, LedgerSeen
    <3>2. UNCHANGED BranchPromise!Tip
      BY <2>6 DEF BranchPromise!Tip
    <3>3. BranchPromise!OnTip!Accept(r)
      BY <1>3, <2>3, <2>5, <3>1, <3>2 DEF BranchPromise!OnTip!Accept
    <3> QED
      BY <1>3, <2>6, <3>3 DEF BranchPromise!Accept, BranchPromise!BranchNext
  <2>8. CASE ledger[o] # None
    <3>1. SourceRequest[o] = r
      BY <1>3, <1>4, <2>8, LedgerSeen
    <3>2. UNCHANGED SourceRequest
      BY <1>3, <2>3, <3>1 DEF SourceRequest
    <3> QED
      BY <2>5, <2>6, <3>2 DEF BranchPromise!branchVars
  <2> QED
    BY <2>7, <2>8
<1> QED
  BY <1>8, <1>9

\* finalizeCommitted() confirms what a commit of the branch shows.
LEMMA FinalizeOnBranch ==
    ASSUME IInv, Finalize, UNCHANGED gitVars
    PROVE  BranchPromise!BranchNext
<1>1. PICK r, prepared, status :
        /\ r = job.op /\ prepared = ledger[job.op.id].prepared
        /\ status = Committed(prepared)
  OBVIOUS
<1>2. /\ job.pc = "finalize" /\ call[Service].step = "data"
      /\ Save(r, Settled(r, status)) /\ remote' = remote /\ faults' = faults
  BY <1>1 DEF Finalize, Replied, gitVars
<1>3. /\ ServiceTypeOK /\ RemoteOK /\ r \in Request /\ r.id \in OpId
      /\ CleanCheckout => Had(prepared.next, r.path)
  BY <1>1, <1>2, DataRead
<1>4. /\ IsPending(r.id) /\ ledger[r.id] # None /\ ledger[r.id].op = r
      /\ prepared \in Prepared /\ Applies(r, prepared)
  BY <1>1, <1>2, JobPending
<1>5. status \in Status /\ status.state = "source-committed"
  BY <1>1, <1>4 DEF Committed, Status, Prepared
<1>6. SourceRequest[r.id] = r
  BY <1>3, <1>4, LedgerSeen
<1>7. ASSUME CleanCheckout
      PROVE  \E i \in DOMAIN BranchCommits :
               BranchPromise!At(i)!CommittedIsTrue(r, status)
  <2>1. PICK i \in 1..Len(remote) : Bytes(remote[i].tree[r.path]) = prepared.next
    BY <1>3, <1>7, RemoteFields DEF Had
  <2>2. BranchPromise!At(i)!CommittedIsTrue(r, Committed(prepared))
    BY <1>3, <1>4, <2>1, CommittedAtCommit
  <2>3. BranchPromise!At(i)!CommittedIsTrue(r, status)
    BY <1>1, <2>2
  <2>4. i \in DOMAIN BranchCommits
    BY <1>3, CommitsSeen
  <2> QED
    BY <2>3, <2>4
<1>8. BranchPromise!Confirm(r, status)
  BY <1>5, <1>6, <1>7, TrustFields DEF BranchPromise!Confirm
<1> QED
  BY <1>2, <1>3, <1>4, <1>5, <1>8, SettlesOnBranch

\* Where the tip has the collection the prepared write expects, the commit is
\* the operation taking effect.
LEMMA EffectOnBranch ==
    ASSUME NEW r \in Request, NEW old, NEW next, Changes(r, old, next),
           NEW obj, {r.target, r.payloadId} \subseteq {obj, None},
           UNCHANGED <<SourceRequest, SourceOutcome>>,
           SourceRequest[r.id] = r, SourceOutcome[r.id] = None,
           BranchPromise!Tip[r.path] = ItemsIn(old),
           BranchPromise!Tip' = [BranchPromise!Tip EXCEPT ![r.path] = ItemsIn(next)]
    PROVE  BranchPromise!OnTip!TakeEffect(r)
<1>1. BranchPromise!OnTip!IdsIn(r.path) = IdsIn(old)
  BY DEF IdsIn, BranchPromise!OnTip!IdsIn
<1>2. \A id, val : BranchPromise!OnTip!Item(id, val) = [id |-> id, val |-> val]
  BY DEF BranchPromise!OnTip!Item
<1>3. r.action \in {"create", "update", "delete"}
  BY RequestAssumption DEF Action
<1>4. ~BranchPromise!OnTip!NamesAnother(r)
  BY DEF BranchPromise!OnTip!NamesAnother
<1>5. CASE r.action = "create"
  <2>1. PICK id \in Object \ IdsIn(old) :
          /\ {r.target, r.payloadId} \subseteq {id, None}
          /\ ItemsIn(next) = ItemsIn(old) \union {[id |-> id, val |-> r.val]}
    BY <1>5 DEF Changes
  <2>2. id \in BranchPromise!OnTip!IdsFor(r)
    BY <2>1, MayBeUsed
  <2>3. ItemsIn(next) =
          BranchPromise!Tip[r.path] \union {BranchPromise!OnTip!Item(id, r.val)}
    BY <1>2, <2>1
  <2> QED
    BY <1>1, <1>5, <1>4, <2>1, <2>2, <2>3 DEF BranchPromise!OnTip!TakeEffect
<1>6. CASE r.action \in {"update", "delete"}
  <2>1. /\ BranchPromise!OnTip!Item(r.target, r.base) \in BranchPromise!Tip[r.path]
        /\ ItemsIn(next) =
             (BranchPromise!Tip[r.path] \ {BranchPromise!OnTip!Item(r.target, r.base)})
               \union (IF r.action = "update"
                         THEN {BranchPromise!OnTip!Item(r.target, r.val)} ELSE {})
    <3>1. CASE r.action = "update"
      BY <1>2, <3>1 DEF Changes
    <3>2. CASE r.action = "delete"
      BY <1>2, <3>2 DEF Changes
    <3> QED
      BY <1>6, <3>1, <3>2
  <2>2. r.action # "create"
    BY <1>6
  <2> QED
    BY <1>4, <2>1, <2>2 DEF BranchPromise!OnTip!TakeEffect
<1> QED
  BY <1>3, <1>5, <1>6

\* The push that the remote takes is the commit of the operation in the gate.
LEMMA LandsOnBranch ==
    ASSUME IInv, UNCHANGED <<serviceVars, checkout>>, FaultsGoOn,
           call[Service].step = "push", PushLands(Service)
    PROVE  BranchPromise!BranchNext
<1>1. PICK r, o, changes, tip :
        r = job.op /\ o = job.op.id /\ changes = call[Service].changes /\ tip = Tip
  OBVIOUS
<1>2. PICK prepared \in Prepared :
        /\ prepared = ledger[o].prepared
        /\ job.pc = "commit" /\ r \in Request /\ o \in OpId
        /\ r.path \in Path /\ IsPending(o) /\ ledger[o] # None /\ ledger[o].op = r
        /\ Applies(r, prepared)
        /\ call[Service].tag = o /\ changes = WriteOf(r, prepared)
        /\ ~(CertainPushes /\ OnTop(o))
        /\ RemoteOK /\ CommitOK(call[Service])
  BY <1>1, Commits
<1>3. o = r.id /\ o \in Tag
  BY <1>1, <1>2, RequestFields
<1>4. PICK top : top = AllWritten(tip, changes)
  OBVIOUS
<1>5. remote' = Append(remote, [tag |-> o, tree |-> top]) /\ tip = remote[base].tree
  BY <1>1, <1>2, <1>4 DEF PushLands, CommitTree, Tip
<1>6. tip \in Tree
  BY <1>1, <1>2, RemoteFields
<1>7. /\ top \in Tree /\ Bytes(top[r.path]) = prepared.next
      /\ \A p \in Path : p # r.path => top[p] = tip[p]
  BY <1>2, <1>4, <1>6, TreesLocal, OneWritten
<1>8. BranchPromise!Grows(o) /\ BranchPromise!Tip' = ObjectsIn(top)
  BY <1>2, <1>3, <1>5, <1>7, GrowsOnBranch
<1>9. BranchPromise!Tip = ObjectsIn(tip) /\ (BranchPromise!OnTop(o) <=> OnTop(o))
  BY <1>1, <1>2, CommitsSeen
<1>10. /\ ObjectsIn(tip)[r.path] = ItemsIn(Bytes(tip[r.path]))
       /\ ObjectsIn(top) = [ObjectsIn(tip) EXCEPT ![r.path] = ItemsIn(prepared.next)]
  <2>1. /\ \A p \in Path : ObjectsIn(tip)[p] = ItemsIn(Bytes(tip[p]))
        /\ \A p \in Path : ObjectsIn(top)[p] = ItemsIn(Bytes(top[p]))
    BY <1>6, <1>7, ObjectsTyped
  <2>2. \A p \in Path : ObjectsIn(top)[p] =
          IF p = r.path THEN ItemsIn(prepared.next) ELSE ObjectsIn(tip)[p]
    BY <1>7, <2>1
  <2> QED
    BY <1>2, <2>1, <2>2 DEF ObjectsIn
<1>11. \A p \in Path \ {r.path} : BranchPromise!Tip'[p] = BranchPromise!Tip[p]
  BY <1>2, <1>6, <1>8, <1>9, <1>10, ObjectsTyped
<1>12. UNCHANGED <<SourceRequest, SourceOutcome>>
  BY DEF SourceRequest, SourceOutcome, serviceVars
<1>13. SourceRequest[o] = r /\ SourceOutcome[o] = None
  BY <1>2, LedgerSeen DEF IsPending
<1>14. "exact" \in BranchTrust => BranchPromise!OnTip!TakeEffect(r)
  <2>1. ASSUME FollowsBranch
        PROVE  BranchPromise!OnTip!TakeEffect(r)
    <3>1. PICK old, next : old = prepared.expected /\ next = prepared.next
      OBVIOUS
    <3>2. Bytes(tip[r.path]) = old
      BY <1>1, <1>2, <1>5, <2>1, <3>1 DEF CommitOK
    <3>3. Changes(r, old, next) /\ {r.target, r.payloadId} \subseteq {prepared.obj, None}
      BY <1>2, <3>1 DEF Applies
    <3>4. /\ BranchPromise!Tip[r.path] = ItemsIn(old)
          /\ BranchPromise!Tip' = [BranchPromise!Tip EXCEPT ![r.path] = ItemsIn(next)]
      BY <1>8, <1>9, <1>10, <3>1, <3>2
    <3> QED
      BY <1>2, <1>3, <1>12, <1>13, <3>3, <3>4, EffectOnBranch
  <2> QED
    BY <2>1, TrustFields
<1>15. "certain" \in BranchTrust => ~BranchPromise!OnTop(o)
  BY <1>2, <1>9, TrustFields
<1>16. BranchTrust' \in SUBSET BranchTrust
  BY Lands, TrustFalls
<1>17. BranchPromise!Commit(r)
  BY <1>3, <1>8, <1>11, <1>12, <1>13, <1>14, <1>15, <1>16 DEF BranchPromise!Commit
<1> QED
  BY <1>2, <1>17 DEF BranchPromise!BranchNext

LEMMA ForeignOnBranch ==
    ASSUME IInv, NEW tree \in ForeignTree, ForeignPush(tree), UNCHANGED serviceVars
    PROVE  BranchPromise!BranchNext
<1>1. /\ RemoteOK /\ faults \in FaultHistory
      /\ remote' = Append(remote, [tag |-> Foreign, tree |-> tree])
      /\ faults' = faults /\ base' = base /\ ledger' = ledger
  BY DEF IInv, ForeignPush, checkout, serviceVars
<1>2. FaultsGoOn
  BY <1>1, NoFault
<1>3. PICK t : t = Foreign
  OBVIOUS
<1>4. t \in Tag /\ t \in OpId \union {Foreign} /\ tree \in Tree /\ UniqueTree(tree)
  BY <1>3, TagsAssumption, TreesAssumption, UniqueAssumption DEF Tree, UniqueTree
<1>5. BranchPromise!Grows(t)
  BY <1>1, <1>3, <1>4, GrowsOnBranch
<1>6. FollowsBranch' => FollowsBranch
  BY <1>1, <1>2, <1>3, <1>4, BranchGrows
<1>7. BranchTrust' \in SUBSET BranchTrust
  BY <1>2, <1>6, TrustFalls
<1>8. UNCHANGED <<SourceRequest, SourceOutcome>>
  BY <1>1 DEF SourceRequest, SourceOutcome
<1> QED
  BY <1>3, <1>5, <1>7, <1>8 DEF BranchPromise!ForeignCommit, BranchPromise!BranchNext

LEMMA InitOnBranch ==
    ASSUME Init
    PROVE  BranchPromise!BranchInit
<1>1. /\ remote = <<[tag |-> Foreign, tree |-> InitialTree]>>
      /\ ledger = [o \in OpId |-> None] /\ faults = NoFaults
  BY DEF Init, GitInit, ServiceInit, ProviderInit
<1>2. BranchCommits = <<[by |-> Foreign, objects |-> ObjectsIn(InitialTree)]>>
  <2>1. PICK objects : objects = ObjectsIn(InitialTree)
    OBVIOUS
  <2>2. /\ DOMAIN remote = {1} /\ remote[1].tag = Foreign
        /\ ObjectsIn(remote[1].tree) = objects
    BY <1>1, <2>1
  <2>3. BranchCommits = [i \in {1} |-> [by |-> Foreign, objects |-> objects]]
    BY <2>2 DEF BranchCommits
  <2> QED
    BY <2>1, <2>3
<1>3. SourceRequest = [o \in OpId |-> None] /\ SourceOutcome = [o \in OpId |-> None]
  BY <1>1 DEF SourceRequest, SourceOutcome
<1>4. BranchTrust = {"exact", "truthful", "certain"}
  <2>1. \A kinds : Free(kinds)
    BY <1>1 DEF Free, NoFaults
  <2>2. FollowsBranch /\ CleanCheckout /\ CertainPushes
    BY <2>1 DEF FollowsBranch, CleanCheckout, CertainPushes
  <2> QED
    BY <2>2 DEF BranchTrust
<1> QED
  BY <1>2, <1>3, <1>4 DEF BranchPromise!BranchInit, BranchPromise!Promises

\* A push lands, or is refused or lost.
LEMMA PushOnBranch ==
    ASSUME IInv, GitPush(Service), UNCHANGED serviceVars
    PROVE  BranchPromise!BranchNext
<1>1. /\ call[Service].step = "push" /\ faults \in FaultHistory
      /\ UNCHANGED checkout /\ ledger' = ledger
  BY DEF IInv, GitPush, serviceVars
<1>2. FaultsGoOn
  BY <1>1, NoFault, FaultTyped DEF GitPush
<1>3. CASE PushLands(Service)
  BY <1>1, <1>2, <1>3, LandsOnBranch
<1>4. CASE UNCHANGED remote
  BY <1>1, <1>2, <1>4, QuietOnBranch
<1> QED
  BY <1>3, <1>4 DEF GitPush

LEMMA StepOnBranch ==
    ASSUME IInv, [Next]_vars
    PROVE  [BranchPromise!BranchNext]_(BranchPromise!branchVars)
<1>1. faults \in FaultHistory
  BY DEF IInv
<1>2. ASSUME \/ UNCHANGED faults
             \/ \E kind \in FaultKinds : Fault(kind),
             UNCHANGED <<ledger, remote>>
      PROVE  BranchPromise!BranchNext
  BY <1>1, <1>2, NoFault, FaultTyped, QuietOnBranch
<1>3. CASE ServiceStep /\ UNCHANGED gitVars
  <2>1. CASE Prepare
    BY <1>3, <2>1, PrepareOnBranch
  <2>2. CASE Finalize
    BY <1>3, <2>2, FinalizeOnBranch
  <2>3. CASE \/ ClientStep \/ Load \/ CommitReturned \/ CommitConflicted
             \/ RequestFails
    BY <1>2, <1>3, <2>3 DEF ClientStep, Submit, Resume, Load, CommitReturned,
       CommitConflicted, RequestFails, gitVars
  <2>4. CASE LedgerWriteFails
    BY <1>2, <1>3, <2>4 DEF LedgerWriteFails, Fault, gitVars
  <2> QED
    BY <1>3, <2>1, <2>2, <2>3, <2>4 DEF ServiceStep, HandlerStep
<1>4. CASE GitStep(Service, Fragments) /\ UNCHANGED serviceVars
  <2>1. CASE GitPush(Service)
    BY <1>4, <2>1, PushOnBranch
  <2>2. CASE GitRead(Service)
    BY <1>2, <1>4, <2>2 DEF GitRead, GitReadFetched, Fault, serviceVars
  <2>3. CASE GitCommitLocally(Service)
    BY <1>2, <1>4, <2>3 DEF GitCommitLocally, serviceVars
  <2>4. CASE GitCommitFails(Service, Fragments)
    BY <1>2, <1>4, <2>4 DEF GitCommitFails, Fault, serviceVars
  <2>5. CASE GitRecover(Service)
    BY <1>2, <1>4, <2>5 DEF GitRecover, Fault, serviceVars
  <2> QED
    BY <1>4, <2>1, <2>2, <2>3, <2>4, <2>5 DEF GitStep
<1>5. CASE GitRefreshForOthers /\ UNCHANGED serviceVars
  BY <1>2, <1>5 DEF GitRefreshForOthers, serviceVars
<1>6. CASE \E tree \in ForeignTree : ForeignPush(tree) /\ UNCHANGED serviceVars
  BY <1>6, ForeignOnBranch
<1>7. CASE Crash
  BY <1>2, <1>7 DEF Crash, Fault, GitRestart
<1>8. CASE UNCHANGED vars
  BY <1>2, <1>8 DEF vars, serviceVars, gitVars
<1> QED
  BY <1>3, <1>4, <1>5, <1>6, <1>7, <1>8 DEF Next

-----------------------------------------------------------------------------
(***************************************************************************)
(* Theorems.                                                               *)
(***************************************************************************)
\* The inductive invariant: a pending entry holds the requested change of the
\* collection it expects; who is about to push has that collection below its
\* commit; what a read or a commit reports, the branch has or had, unless a
\* failure left the checkout with bytes of its own; and an operation whose
\* commit is the last of the branch is not prepared anew.
THEOREM WriteInvariant == Spec => []IInv
BY InitInvariant, NextInvariant, PTL DEF Spec

\* Calls, ledger, branch and checkout stay well-typed.
THEOREM WriteTypes == Spec => []TypeOK
<1>1. IInv => TypeOK
  BY DEF IInv, TypeOK, RemoteOK, CheckoutOK
<1> QED
  BY <1>1, WriteInvariant, PTL

\* Each commit of the bridge on the branch is exactly the change its request
\* asks for, on the revision the request names, unless a write failed halfway
\* on a path where the branch may have no file: there the file outlives every
\* reset --hard, and commitFiles checks its preconditions against it.
THEOREM CommitsAsRequested ==
    Spec => [](FollowsBranch => CommitsAreRequestedChanges)
<1>1. IInv => (FollowsBranch => CommitsAreRequestedChanges)
  BY DEF IInv, RemoteOK
<1> QED
  BY <1>1, WriteInvariant, PTL

\* What a client is told is committed, the branch has or had, for every order
\* of lost replies, crashes, conflicts and commits of other clones.
THEOREM CommittedOnBranch == Spec => []CommittedIsAuthoritative
<1>1. IInv => CommittedIsAuthoritative
  BY DEF IInv, EntryOK, CommittedIsAuthoritative, CleanCheckout
<1> QED
  BY <1>1, WriteInvariant, PTL

\* An operation that reached the branch is refused only after somebody else
\* committed on top of it, as long as the bridge learns what became of its
\* pushes.
THEOREM RefusedIfOvertaken == Spec => []RefusedOnlyIfOvertaken
<1>1. ASSUME IInv, CertainPushes, NEW o \in OpId, NEW i \in DOMAIN remote,
             remote[i].tag = o, IsSettled(o),
             ledger[o].status.state # "source-committed"
      PROVE  \E m \in DOMAIN remote : i < m /\ remote[m].tag # o
  <2>1. EntryOK(o) /\ RemoteOK
    BY <1>1 DEF IInv
  <2>2. ~OnTop(o)
    BY <1>1, <2>1 DEF EntryOK
  <2>3. PICK n : n = Len(remote)
    OBVIOUS
  <2>4. n \in Nat /\ n \in DOMAIN remote /\ DOMAIN remote = 1..n
    BY <2>1, <2>3, RemoteFields
  <2>5. remote[n].tag # o
    BY <2>2, <2>3 DEF OnTop
  <2>6. i < n
    BY <1>1, <2>4, <2>5
  <2> QED
    BY <2>4, <2>5, <2>6
<1>2. IInv => RefusedOnlyIfOvertaken
  BY <1>1 DEF RefusedOnlyIfOvertaken, CertainPushes
<1> QED
  BY <1>2, WriteInvariant, PTL

\* The service implements the branch of SpatialBranch: whatever is lost, fails,
\* crashes or is pushed by another clone, the bridge adds one commit at a time,
\* of a bound and unsettled request, changes no other collection, settles an
\* operation once, and promises of that commit and of that answer what no
\* failure has put in doubt.
THEOREM BranchImplemented == Spec => ImplementsBranch
BY InitOnBranch, StepOnBranch, WriteInvariant, PTL
   DEF Spec, ImplementsBranch, BranchPromise!BranchSpec
=============================================================================
