----------------------- MODULE SpatialWriteFs_proofs -----------------------
(***************************************************************************)
(* Proofs about SpatialWriteFs, for every set of paths, operation ids,     *)
(* objects and requests, and any number of faults: IInv is an inductive    *)
(* invariant of the specification, with it the type invariant and the      *)
(* three safety properties of interrupted writes hold, and the service     *)
(* implements SpatialSource.                                               *)
(***************************************************************************)
EXTENDS SpatialWriteFs, FiniteSets, FiniteSetTheorems, SequenceTheorems,
        WellFoundedInduction, TLAPS

-----------------------------------------------------------------------------
(***************************************************************************)
(* Collections and prepare().                                              *)
(***************************************************************************)
LEMMA CollectionFields ==
    ASSUME NEW items \in Collection
    PROVE  /\ items \in Seq(Item) /\ Len(items) \in Nat /\ DOMAIN items = 1..Len(items)
           /\ \A i \in 1..Len(items) :
                /\ items[i] \in Item /\ items[i].id \in Object /\ items[i].val \in Val
                /\ items[i] = [id |-> items[i].id, val |-> items[i].val]
<1>1. items \in Seq(Item) /\ Len(items) \in Nat /\ DOMAIN items = 1..Len(items)
  BY DEF Collection
<1>2. \A i \in 1..Len(items) : items[i] \in Item
  BY <1>1
<1> QED
  BY <1>1, <1>2 DEF Item

LEMMA LeastElement ==
    ASSUME NEW T \in SUBSET Nat, T # {}
    PROVE  \E i \in T : \A j \in T : i <= j
<1>1. \E x \in T : \A y \in T : ~(<<y, x>> \in OpToRel(<, Nat))
  BY NatLessThanWellFounded, WFMin
<1>2. PICK x \in T : \A y \in T : ~(<<y, x>> \in OpToRel(<, Nat))
  BY <1>1
<1>3. \A y \in T : ~(y < x)
  BY <1>2 DEF OpToRel
<1> QED
  BY <1>3

\* findIndex of an id that is there finds an item with it.
LEMMA IndexOfItem ==
    ASSUME NEW items \in Collection, NEW id, Has(items, id),
           NEW i, i = IndexOf(items, id)
    PROVE  i \in 1..Len(items) /\ items[i].id = id
<1>1. PICK T : T = {j \in 1..Len(items) : items[j].id = id}
  OBVIOUS
<1>2. DOMAIN items = 1..Len(items)
  BY CollectionFields
<1>3. T # {} /\ T \in SUBSET Nat
  BY <1>1, <1>2 DEF Has
<1>4. PICK j \in T : \A l \in T : j <= l
  BY <1>3, LeastElement
<1>5. /\ j \in DOMAIN items
      /\ items[j].id = id /\ \A l \in DOMAIN items : items[l].id = id => j <= l
  BY <1>1, <1>2, <1>4
<1>6. i \in DOMAIN items /\ items[i].id = id
  BY <1>5 DEF IndexOf
<1> QED
  BY <1>2, <1>6

LEMMA ItemOf ==
    ASSUME NEW items \in Collection, NEW item
    PROVE  /\ item \in ItemsIn(items) <=> \E i \in 1..Len(items) : items[i] = item
           /\ \A id : id \in IdsIn(items) <=> \E i \in 1..Len(items) : items[i].id = id
           /\ \A id : Has(items, id) <=> id \in IdsIn(items)
BY CollectionFields DEF ItemsIn, IdsIn, Has

\* A collection with an item more.
LEMMA AppendsItem ==
    ASSUME NEW items \in Collection, UniqueIds(items), NEW item \in Item,
           ~Has(items, item.id), NEW next, next = Append(items, item)
    PROVE  /\ next \in Collection /\ UniqueIds(next)
           /\ ItemsIn(next) = ItemsIn(items) \union {item}
<1>1. PICK n : n = Len(items)
  OBVIOUS
<1>2. items \in Seq(Item) /\ n \in Nat /\ DOMAIN items = 1..n
  BY <1>1, CollectionFields
<1>3. /\ next \in Seq(Item) /\ Len(next) = n + 1
      /\ \A i \in 1..n : next[i] = items[i]
      /\ next[n + 1] = item
  BY <1>1, <1>2, AppendProperties
<1>4. DOMAIN next = 1..(n + 1)
  BY <1>3
<1>5. \A i \in 1..n : items[i].id # item.id
  BY <1>2 DEF Has
<1>6. UniqueIds(next)
  <2>1. ASSUME NEW i \in 1..(n + 1), NEW j \in 1..(n + 1), next[i].id = next[j].id
        PROVE  i = j
    <3>1. (i \in 1..n \/ i = n + 1) /\ (j \in 1..n \/ j = n + 1)
      BY <1>2
    <3>2. CASE i \in 1..n /\ j \in 1..n
      BY <1>2, <1>3, <2>1, <3>2 DEF UniqueIds
    <3>3. CASE i = n + 1 /\ j \in 1..n
      BY <1>3, <1>5, <2>1, <3>3
    <3>4. CASE i \in 1..n /\ j = n + 1
      BY <1>3, <1>5, <2>1, <3>4
    <3> QED
      BY <3>1, <3>2, <3>3, <3>4
  <2> QED
    BY <1>4, <2>1 DEF UniqueIds
<1>7. ItemsIn(next) = ItemsIn(items) \union {item}
  <2>1. ASSUME NEW i \in 1..(n + 1)
        PROVE  next[i] \in ItemsIn(items) \union {item}
    BY <1>2, <1>3, <2>1 DEF ItemsIn
  <2>2. ASSUME NEW i \in 1..n
        PROVE  items[i] \in ItemsIn(next)
    <3>1. i \in 1..(n + 1) /\ next[i] = items[i]
      BY <1>2, <1>3
    <3> QED
      BY <1>4, <3>1 DEF ItemsIn
  <2>3. item \in ItemsIn(next)
    <3>1. n + 1 \in 1..(n + 1)
      BY <1>2
    <3> QED
      BY <1>3, <1>4, <3>1 DEF ItemsIn
  <2> QED
    BY <1>2, <1>4, <2>1, <2>2, <2>3 DEF ItemsIn
<1> QED
  BY <1>3, <1>6, <1>7 DEF Collection

\* A collection with one item replaced by one of the same id.
LEMMA ReplacesItem ==
    ASSUME NEW items \in Collection, UniqueIds(items), NEW i \in 1..Len(items),
           NEW item \in Item, item.id = items[i].id,
           NEW next \in Seq(Item), Len(next) = Len(items),
           \A j \in 1..Len(items) : next[j] = IF j = i THEN item ELSE items[j]
    PROVE  /\ next \in Collection /\ UniqueIds(next)
           /\ ItemsIn(next) = (ItemsIn(items) \ {items[i]}) \union {item}
<1>1. PICK n : n = Len(items)
  OBVIOUS
<1>2. items \in Seq(Item) /\ n \in Nat /\ DOMAIN items = 1..n
  BY <1>1, CollectionFields
<1>3. /\ next \in Seq(Item) /\ Len(next) = n
      /\ \A j \in 1..n : next[j] = IF j = i THEN item ELSE items[j]
  BY <1>1, <1>2
<1>4. DOMAIN next = 1..n /\ i \in 1..n
  BY <1>1, <1>3
<1>5. \A j \in 1..n : next[j].id = items[j].id
  BY <1>3
<1>6. UniqueIds(next)
  BY <1>2, <1>4, <1>5 DEF UniqueIds
<1>7. \A j \in 1..n : j # i => items[j] # items[i]
  BY <1>2, <1>4 DEF UniqueIds
<1>8. ItemsIn(next) = (ItemsIn(items) \ {items[i]}) \union {item}
  BY <1>2, <1>3, <1>4, <1>7 DEF ItemsIn
<1> QED
  BY <1>3, <1>6, <1>8 DEF Collection

\* A collection without one of its items.
LEMMA RemovesItem ==
    ASSUME NEW items \in Collection, UniqueIds(items), NEW i \in 1..Len(items),
           NEW next, next = Without(items, i)
    PROVE  /\ next \in Collection /\ UniqueIds(next)
           /\ ItemsIn(next) = ItemsIn(items) \ {items[i]}
           /\ items[i].id \notin IdsIn(next)
<1>1. PICK n : n = Len(items)
  OBVIOUS
<1>2. /\ items \in Seq(Item) /\ n \in Nat /\ DOMAIN items = 1..n /\ i \in 1..n
      /\ \A j \in 1..n : items[j] \in Item
  BY <1>1, CollectionFields
<1>3. PICK head, tail : head = SubSeq(items, 1, i - 1) /\ tail = SubSeq(items, i + 1, n)
  OBVIOUS
<1>4. /\ head \in Seq(Item) /\ Len(head) = i - 1
      /\ \A j \in 1..(i - 1) : head[j] = items[j]
  <2>1. \A j \in 1..(i - 1) : items[j] \in Item
    BY <1>2
  <2>2. /\ SubSeq(items, 1, i - 1) \in Seq(Item)
        /\ Len(SubSeq(items, 1, i - 1)) = IF 1 <= i - 1 THEN i - 1 - 1 + 1 ELSE 0
        /\ \A j \in 1..(i - 1 - 1 + 1) : SubSeq(items, 1, i - 1)[j] = items[1 + j - 1]
    BY <1>2, <2>1, SubSeqProperties
  <2>3. Len(head) = i - 1
    BY <1>2, <1>3, <2>2
  <2>4. \A j \in 1..(i - 1) : head[j] = items[j]
    BY <1>2, <1>3, <2>2
  <2> QED
    BY <1>3, <2>2, <2>3, <2>4
<1>5. /\ tail \in Seq(Item) /\ Len(tail) = n - i
      /\ \A j \in 1..(n - i) : tail[j] = items[i + j]
  <2>1. \A j \in (i + 1)..n : items[j] \in Item
    BY <1>2
  <2>2. /\ SubSeq(items, i + 1, n) \in Seq(Item)
        /\ Len(SubSeq(items, i + 1, n)) = IF i + 1 <= n THEN n - (i + 1) + 1 ELSE 0
        /\ \A j \in 1..(n - (i + 1) + 1) : SubSeq(items, i + 1, n)[j] = items[i + 1 + j - 1]
    BY <1>2, <2>1, SubSeqProperties
  <2>3. Len(tail) = n - i
    BY <1>2, <1>3, <2>2
  <2>4. ASSUME NEW j \in 1..(n - i)
        PROVE  tail[j] = items[i + j]
    <3>1. j \in 1..(n - (i + 1) + 1) /\ i + 1 + j - 1 = i + j
      BY <1>2
    <3> QED
      BY <1>3, <2>2, <3>1
  <2> QED
    BY <1>3, <2>2, <2>3, <2>4
<1>6. /\ next \in Seq(Item) /\ Len(next) = n - 1
      /\ \A j \in 1..(n - 1) : next[j] = IF j <= i - 1 THEN head[j] ELSE tail[j - (i - 1)]
  <2>1. next = head \o tail
    BY <1>1, <1>3 DEF Without
  <2>2. Len(head) + Len(tail) = n - 1
    BY <1>2, <1>4, <1>5
  <2>3. /\ head \o tail \in Seq(Item)
        /\ Len(head \o tail) = Len(head) + Len(tail)
        /\ \A j \in 1..(Len(head) + Len(tail)) :
             (head \o tail)[j] = IF j <= Len(head) THEN head[j] ELSE tail[j - Len(head)]
    BY <1>4, <1>5, ConcatProperties
  <2> QED
    BY <1>4, <2>1, <2>2, <2>3
<1>7. DOMAIN next = 1..(n - 1)
  BY <1>2, <1>6
<1>8. ASSUME NEW j \in 1..(n - 1)
      PROVE  \/ j < i /\ next[j] = items[j]
             \/ j >= i /\ next[j] = items[j + 1]
  <2>1. CASE j <= i - 1
    BY <1>2, <1>4, <1>6, <2>1
  <2>2. CASE ~(j <= i - 1)
    <3>1. j - (i - 1) \in 1..(n - i) /\ i + (j - (i - 1)) = j + 1 /\ j >= i
      BY <1>2, <2>2
    <3>2. tail[j - (i - 1)] = items[i + (j - (i - 1))]
      BY <1>5, <3>1
    <3> QED
      BY <1>6, <2>2, <3>1, <3>2
  <2> QED
    BY <2>1, <2>2
<1>9. \A j, l \in 1..n : items[j].id = items[l].id => j = l
  BY <1>2 DEF UniqueIds
<1>10. UniqueIds(next)
  <2>1. ASSUME NEW j \in 1..(n - 1), NEW l \in 1..(n - 1), next[j].id = next[l].id
        PROVE  j = l
    <3>1. j \in 1..n /\ j + 1 \in 1..n /\ l \in 1..n /\ l + 1 \in 1..n
      BY <1>2
    <3>2. CASE next[j] = items[j] /\ j < i
      BY <1>8, <1>9, <2>1, <3>1, <3>2
    <3>3. CASE next[j] = items[j + 1] /\ j >= i
      BY <1>8, <1>9, <2>1, <3>1, <3>3
    <3> QED
      BY <1>8, <3>2, <3>3
  <2> QED
    BY <1>7, <2>1 DEF UniqueIds
<1>11. ASSUME NEW j \in 1..(n - 1)
       PROVE  \E l \in 1..n : l # i /\ next[j] = items[l]
  <2>1. j \in 1..n /\ j + 1 \in 1..n
    BY <1>2
  <2>2. CASE j < i /\ next[j] = items[j]
    BY <1>2, <2>1, <2>2
  <2>3. CASE j >= i /\ next[j] = items[j + 1]
    <3>1. j + 1 # i
      BY <1>2, <2>3
    <3> QED
      BY <2>1, <2>3, <3>1
  <2> QED
    BY <1>8, <2>2, <2>3
<1>12. ASSUME NEW l \in 1..n, l # i
       PROVE  \E j \in 1..(n - 1) : next[j] = items[l]
  <2>1. CASE l < i
    <3>1. l \in 1..(n - 1) /\ ~(l >= i)
      BY <1>2, <2>1
    <3> QED
      BY <1>8, <3>1
  <2>2. CASE l > i
    <3>1. l - 1 \in 1..(n - 1) /\ ~(l - 1 < i) /\ (l - 1) + 1 = l
      BY <1>2, <2>2
    <3>2. next[l - 1] = items[l]
      BY <1>8, <3>1
    <3> QED
      BY <3>1, <3>2
  <2> QED
    BY <1>2, <1>12, <2>1, <2>2
<1>13. ItemsIn(next) = ItemsIn(items) \ {items[i]}
  <2>1. \A l \in 1..n : l # i => items[l] # items[i]
    BY <1>2, <1>9
  <2>2. ASSUME NEW item \in ItemsIn(next)
        PROVE  item \in ItemsIn(items) \ {items[i]}
    BY <1>2, <1>7, <1>11, <2>1 DEF ItemsIn
  <2>3. ASSUME NEW item \in ItemsIn(items) \ {items[i]}
        PROVE  item \in ItemsIn(next)
    <3>1. PICK l \in 1..n : item = items[l]
      BY <1>2 DEF ItemsIn
    <3> QED
      BY <1>7, <1>12, <3>1 DEF ItemsIn
  <2> QED
    BY <2>2, <2>3
<1>14. items[i].id \notin IdsIn(next)
  BY <1>2, <1>7, <1>9, <1>11 DEF IdsIn, ItemsIn
<1> QED
  BY <1>6, <1>10, <1>13, <1>14 DEF Collection

-----------------------------------------------------------------------------
(***************************************************************************)
(* prepare().                                                              *)
(***************************************************************************)
\* The terminal outcomes of prepare(), and what each says of the collection.
Refusal == {status \in Status : status.state # "source-committed"}

Refuses(r, items, status) ==
    \/ /\ status = Conflict("object-exists")
       /\ r.action = "create"
       /\ \E id \in SpatialPromise!IdsFor(r) : id \in IdsIn(items)
    \/ /\ status = Conflict("object-missing")
       /\ r.action # "create"
       /\ r.target \notin IdsIn(items)
    \/ /\ status = Conflict("revision-mismatch")
       /\ r.action # "create"
       /\ r.target \in IdsIn(items)
       /\ [id |-> r.target, val |-> r.base] \notin ItemsIn(items)
    \/ /\ status = Rejected
       /\ {r.target, r.payloadId} \cap {None} = {}
       /\ r.target # r.payloadId

Outcome(r, items, plan) ==
    IF IsPrepared(plan)
      THEN plan \in Prepared /\ plan.expected = items /\ Applies(r, plan)
      ELSE plan \in Refusal /\ Refuses(r, items, plan)

LEMMA ConflictRefuses ==
    ASSUME NEW r, NEW items,
           NEW type \in {"object-exists", "object-missing", "revision-mismatch"},
           Refuses(r, items, Conflict(type))
    PROVE  Outcome(r, items, Conflict(type))
<1>1. Conflict(type) \in Refusal /\ ~IsPrepared(Conflict(type))
  BY DEF Conflict, Refusal, Status, IsPrepared
<1> QED
  BY <1>1 DEF Outcome

LEMMA RejectedRefuses ==
    ASSUME NEW r, NEW items, Refuses(r, items, Rejected)
    PROVE  Outcome(r, items, Rejected)
<1>1. Rejected \in Refusal /\ ~IsPrepared(Rejected)
  BY DEF Rejected, Refusal, Status, IsPrepared
<1> QED
  BY <1>1 DEF Outcome

LEMMA PreparedApplies ==
    ASSUME NEW r, NEW items \in Collection, NEW next \in Collection, NEW obj \in Object,
           NEW rev \in Val \union {None}, UniqueIds(next), Changes(r, items, next),
           Shows(r, obj, rev, next),
           {r.target, r.payloadId} \subseteq {obj, None}, rev = r.val
    PROVE  Outcome(r, items, [expected |-> items, next |-> next, obj |-> obj, rev |-> rev])
<1>1. PICK plan : plan = [expected |-> items, next |-> next, obj |-> obj, rev |-> rev]
  OBVIOUS
<1>2. plan \in Prepared /\ IsPrepared(plan)
  BY <1>1 DEF Prepared, IsPrepared
<1>3. plan.expected = items /\ plan.next = next /\ plan.obj = obj /\ plan.rev = rev
  BY <1>1
<1>4. Applies(r, plan)
  BY <1>3 DEF Applies
<1> QED
  BY <1>1, <1>2, <1>3, <1>4 DEF Outcome

LEMMA PlanCreateOutcome ==
    ASSUME NEW r \in Request, r.action = "create",
           NEW items \in Collection, UniqueIds(items),
           NEW id \in SpatialPromise!IdsFor(r), id \in Object,
           r.target \in {id, None},
           r.target = None => r.payloadId \in {id, None}
    PROVE  Outcome(r, items, PlanCreate(r, items, id))
<1>1. r.val \in Val
  BY RequestAssumption
<1>2. PICK item : item = [id |-> id, val |-> r.val]
  OBVIOUS
<1>3. item \in Item /\ item.id = id
  BY <1>1, <1>2 DEF Item
<1>4. CASE Has(items, id)
  <2>1. id \in IdsIn(items)
    BY <1>4, ItemOf
  <2>2. Refuses(r, items, Conflict("object-exists"))
    BY <2>1 DEF Refuses
  <2> QED
    BY <1>4, <2>2, ConflictRefuses DEF PlanCreate
<1>5. CASE ~Has(items, id) /\ Mismatched(r, id)
  <2>1. r.target = id /\ r.payloadId # None /\ r.payloadId # id /\ id # None
    BY <1>5, NoneAssumption DEF Mismatched
  <2>2. Refuses(r, items, Rejected)
    BY <2>1 DEF Refuses
  <2> QED
    BY <1>5, <2>2, RejectedRefuses DEF PlanCreate
<1>6. CASE ~Has(items, id) /\ ~Mismatched(r, id)
  <2>1. PICK next : next = Append(items, item)
    OBVIOUS
  <2>2. /\ next \in Collection /\ UniqueIds(next)
        /\ ItemsIn(next) = ItemsIn(items) \union {item}
    BY <1>3, <1>6, <2>1, AppendsItem
  <2>3. id \notin IdsIn(items)
    BY <1>6, ItemOf
  <2>4. {r.target, r.payloadId} \subseteq {id, None}
    BY <1>6 DEF Mismatched
  <2>5. Changes(r, items, next)
    BY <1>2, <2>2, <2>3, <2>4 DEF Changes
  <2>6. Shows(r, id, r.val, next)
    BY <1>2, <2>2 DEF Shows
  <2>7. PlanCreate(r, items, id) =
          [expected |-> items, next |-> next, obj |-> id, rev |-> r.val]
    BY <1>2, <1>6, <2>1 DEF PlanCreate
  <2> QED
    BY <1>1, <2>2, <2>4, <2>5, <2>6, <2>7, PreparedApplies
<1> QED
  BY <1>4, <1>5, <1>6

LEMMA PlanUpdateOutcome ==
    ASSUME NEW r \in Request, r.action = "update",
           NEW items \in Collection, UniqueIds(items),
           NEW i \in 1..Len(items), items[i].id = r.target, items[i].val = r.base
    PROVE  Outcome(r, items, PlanUpdate(r, items, i))
<1>1. r.val \in Val /\ r.target \in Object
  BY RequestAssumption
<1>2. PICK item : item = [id |-> r.target, val |-> r.val]
  OBVIOUS
<1>3. item \in Item /\ item.id = items[i].id
  BY <1>1, <1>2 DEF Item
<1>4. CASE Mismatched(r, r.target)
  <2>1. r.payloadId # None /\ r.payloadId # r.target /\ r.target # None
    BY <1>1, <1>4, NoneAssumption DEF Mismatched
  <2>2. Refuses(r, items, Rejected)
    BY <2>1 DEF Refuses
  <2> QED
    BY <1>4, <2>2, RejectedRefuses DEF PlanUpdate
<1>5. CASE ~Mismatched(r, r.target)
  <2>1. PICK next : next = [items EXCEPT ![i] = item]
    OBVIOUS
  <2>2. /\ next \in Collection /\ UniqueIds(next)
        /\ ItemsIn(next) = (ItemsIn(items) \ {items[i]}) \union {item}
    <3>1. items \in Seq(Item)
      BY CollectionFields
    <3>2. /\ next \in Seq(Item) /\ Len(next) = Len(items)
          /\ \A j \in 1..Len(items) : next[j] = IF j = i THEN item ELSE items[j]
      BY <1>3, <2>1, <3>1, ExceptSeq
    <3> QED
      BY <1>3, <3>2, ReplacesItem
  <2>3. items[i] \in ItemsIn(items) /\ items[i] = [id |-> r.target, val |-> r.base]
    <3>1. items[i] = [id |-> items[i].id, val |-> items[i].val]
      BY CollectionFields
    <3>2. items[i] \in ItemsIn(items)
      BY ItemOf
    <3> QED
      BY <3>1, <3>2
  <2>4. Changes(r, items, next)
    BY <1>2, <2>2, <2>3 DEF Changes
  <2>5. Shows(r, r.target, r.val, next)
    BY <1>2, <2>2 DEF Shows
  <2>6. PlanUpdate(r, items, i) =
          [expected |-> items, next |-> next, obj |-> r.target, rev |-> r.val]
    BY <1>2, <1>5, <2>1 DEF PlanUpdate
  <2>7. {r.target, r.payloadId} \subseteq {r.target, None}
    BY <1>5 DEF Mismatched
  <2> QED
    BY <1>1, <2>2, <2>4, <2>5, <2>6, <2>7, PreparedApplies
<1> QED
  BY <1>4, <1>5

LEMMA PlanDeleteOutcome ==
    ASSUME NEW r \in Request, r.action = "delete",
           NEW items \in Collection, UniqueIds(items),
           NEW i \in 1..Len(items), items[i] = [id |-> r.target, val |-> r.base]
    PROVE  Outcome(r, items, PlanDelete(r, items, i))
<1>1. r.target \in Object /\ items[i].id = r.target
  BY RequestAssumption
<1>2. PICK next : next = Without(items, i)
  OBVIOUS
<1>3. /\ next \in Collection /\ UniqueIds(next)
      /\ ItemsIn(next) = ItemsIn(items) \ {items[i]}
      /\ r.target \notin IdsIn(next)
  BY <1>1, <1>2, RemovesItem
<1>4. items[i] \in ItemsIn(items)
  BY ItemOf
<1>5. Changes(r, items, next)
  BY <1>3, <1>4 DEF Changes
<1>6. Shows(r, r.target, None, next)
  BY <1>3 DEF Shows
<1>7. PlanDelete(r, items, i) =
        [expected |-> items, next |-> next, obj |-> r.target, rev |-> None]
  BY <1>2 DEF PlanDelete
<1>8. {r.target, r.payloadId} \subseteq {r.target, None} /\ r.val = None
  BY RequestAssumption
<1> QED
  BY <1>1, <1>3, <1>5, <1>6, <1>7, <1>8, PreparedApplies

\* prepare() refuses for a reason that is true of the collection, or prepares
\* the requested change of it.
LEMMA PlanOutcome ==
    ASSUME NEW r \in Request, NEW items \in Collection, UniqueIds(items), NEW fresh,
           NeedsFreshId(r) => fresh \in FreshId
    PROVE  Outcome(r, items, Plan(r, items, fresh))
<1>1. CASE r.action = "create"
  <2>1. PICK id : id = AuthoritativeId(r, fresh)
    OBVIOUS
  <2>2. /\ id \in Object /\ r.target \in {id, None}
        /\ r.target = None => r.payloadId \in {id, None}
        /\ id \in SpatialPromise!IdsFor(r)
    <3>1. r.target \in Object \union {None} /\ r.payloadId \in Object \union {None}
      BY RequestAssumption
    <3>2. CASE r.target # None
      <4>1. id = r.target
        BY <2>1, <3>2 DEF AuthoritativeId
      <4>2. SpatialPromise!IdsFor(r) = {r.target}
        BY <3>2 DEF SpatialPromise!IdsFor
      <4> QED
        BY <3>1, <3>2, <4>1, <4>2
    <3>3. CASE r.target = None /\ r.payloadId # None
      <4>1. id = r.payloadId
        BY <2>1, <3>3 DEF AuthoritativeId
      <4>2. SpatialPromise!IdsFor(r) = {r.payloadId}
        BY <3>3 DEF SpatialPromise!IdsFor
      <4> QED
        BY <3>1, <3>3, <4>1, <4>2
    <3>4. CASE r.target = None /\ r.payloadId = None
      <4>1. id = fresh
        BY <2>1, <3>4 DEF AuthoritativeId
      <4>2. SpatialPromise!IdsFor(r) = Object
        BY <3>4 DEF SpatialPromise!IdsFor
      <4> QED
        BY <1>1, <3>4, <4>1, <4>2, FreshIdAssumption DEF NeedsFreshId
    <3> QED
      BY <3>2, <3>3, <3>4
  <2> QED
    BY <1>1, <2>1, <2>2, PlanCreateOutcome DEF Plan
<1>2. CASE r.action # "create"
  <2>1. r.action \in {"update", "delete"}
    BY <1>2, RequestAssumption DEF Action
  <2>2. PICK i : i = IndexOf(items, r.target)
    OBVIOUS
  <2>3. CASE ~Has(items, r.target)
    <3>1. r.target \notin IdsIn(items)
      BY <2>3, ItemOf
    <3>2. Refuses(r, items, Conflict("object-missing"))
      BY <1>2, <3>1 DEF Refuses
    <3> QED
      BY <1>2, <2>3, <3>2, ConflictRefuses DEF Plan, PlanChange
  <2>4. CASE Has(items, r.target) /\ ~BaseIsCurrent(r, items[i].val)
    <3>1. i \in 1..Len(items) /\ items[i].id = r.target /\ items[i].val # r.base
      BY <2>2, <2>4, IndexOfItem DEF BaseIsCurrent
    <3>2. r.target \in IdsIn(items)
      BY <3>1, ItemOf
    <3>3. ASSUME NEW j \in 1..Len(items), items[j] = [id |-> r.target, val |-> r.base]
          PROVE  FALSE
      <4>1. items[j].id = r.target /\ items[j].val = r.base
        BY <3>3
      <4>2. i = j
        BY <3>1, <4>1, CollectionFields DEF UniqueIds
      <4> QED
        BY <3>1, <4>1, <4>2
    <3>4. [id |-> r.target, val |-> r.base] \notin ItemsIn(items)
      BY <3>3, ItemOf
    <3>5. Refuses(r, items, Conflict("revision-mismatch"))
      BY <1>2, <3>2, <3>4 DEF Refuses
    <3> QED
      BY <1>2, <2>2, <2>4, <3>5, ConflictRefuses DEF Plan, PlanChange
  <2>5. CASE Has(items, r.target) /\ BaseIsCurrent(r, items[i].val)
    <3>1. i \in 1..Len(items) /\ items[i].id = r.target
      BY <2>2, <2>5, IndexOfItem
    <3>2. items[i] = [id |-> r.target, val |-> r.base]
      BY <2>5, <3>1, CollectionFields DEF BaseIsCurrent
    <3>3. CASE r.action = "update"
      <4>1. Plan(r, items, fresh) = PlanUpdate(r, items, i)
        BY <1>2, <2>2, <2>5, <3>3 DEF Plan, PlanChange
      <4> QED
        BY <2>5, <3>1, <3>3, <4>1, PlanUpdateOutcome DEF BaseIsCurrent
    <3>4. CASE r.action = "delete"
      <4>1. Plan(r, items, fresh) = PlanDelete(r, items, i)
        BY <1>2, <2>2, <2>5, <3>4 DEF Plan, PlanChange
      <4> QED
        BY <3>1, <3>2, <3>4, <4>1, PlanDeleteOutcome
    <3> QED
      BY <2>1, <3>3, <3>4
  <2> QED
    BY <2>3, <2>4, <2>5
<1> QED
  BY <1>1, <1>2

-----------------------------------------------------------------------------
(***************************************************************************)
(* Typing of calls, jobs and ledger entries.                               *)
(***************************************************************************)
\* An operation names an operation id and a path.
LEMMA RequestFields ==
    ASSUME NEW r \in Request
    PROVE  r.id \in OpId /\ r.path \in Path
BY RequestAssumption

\* The request inside the gate.
LEMMA JobFields ==
    ASSUME ServiceTypeOK, job.pc # "idle"
    PROVE  /\ job.pc \in {"prepare", "load", "commit", "finalize"}
           /\ job.op \in Request
           /\ job.op.id \in OpId /\ job.op.path \in Path
BY RequestFields DEF ServiceTypeOK, Job

\* GoTo and Finish keep the job well-typed.
LEMMA JobSteps ==
    ASSUME ServiceTypeOK
    PROVE  /\ \A pc \in {"prepare", "load", "commit", "finalize"} :
                job.pc # "idle" =>
                  /\ [job EXCEPT !.pc = pc] \in Job
                  /\ [job EXCEPT !.pc = pc].pc = pc
                  /\ [job EXCEPT !.pc = pc].op = job.op
           /\ [pc |-> "idle"] \in Job
BY DEF ServiceTypeOK, Job

\* The shapes of a pending and of a settled entry.
LEMMA PendingFields ==
    ASSUME ServiceTypeOK, NEW o \in OpId, IsPending(o)
    PROVE  /\ ledger[o] \in Entry
           /\ ledger[o].op \in Request /\ ledger[o].op.id = o
           /\ ledger[o].prepared \in Prepared
           /\ ledger[o].prepared.expected \in Collection
           /\ ledger[o].prepared.next \in Collection
<1>1. ledger[o] \in Entry /\ ledger[o].status = None /\ ledger[o].op.id = o
  BY DEF ServiceTypeOK, IsPending
<1>2. ledger[o] \in [op: Request, prepared: Prepared, status: {None}]
  BY <1>1, DistinctAssumption DEF Entry
<1> QED
  BY <1>1, <1>2 DEF Prepared

\* An entry with its prepared write.
LEMMA UnsettledEntry ==
    ASSUME NEW op \in Request, NEW prepared \in Prepared
    PROVE  /\ Unsettled(op, prepared) \in Entry
           /\ Unsettled(op, prepared) # None
           /\ Unsettled(op, prepared).status = None
           /\ Unsettled(op, prepared).op = op
           /\ Unsettled(op, prepared).prepared = prepared
BY DistinctAssumption DEF Unsettled, Entry

\* An entry with its terminal status.
LEMMA SettledEntry ==
    ASSUME NEW op \in Request, NEW status \in Status
    PROVE  /\ Settled(op, status) \in Entry
           /\ Settled(op, status) # None
           /\ Settled(op, status).status = status
           /\ Settled(op, status).status # None
           /\ Settled(op, status).op = op
BY DistinctAssumption DEF Settled, Entry

\* Saving a well-typed entry changes that entry only.
LEMMA SaveTyped ==
    ASSUME ServiceTypeOK, NEW op \in Request, NEW entry \in Entry, entry.op = op,
           Save(op, entry)
    PROVE  /\ ledger' \in [OpId -> Entry \union {None}]
           /\ ledger'[op.id] = entry
           /\ \A o \in OpId : o # op.id => ledger'[o] = ledger[o]
           /\ \A o \in OpId : ledger'[o] # None => ledger'[o].op.id = o
BY RequestFields DEF ServiceTypeOK, Save

\* The states of the service's slot that the invariant mentions are typed.
LEMMA SlotTyped ==
    /\ Idle \in CallState(Collection)
    /\ \A p \in Path : Reading(p) \in CallState(Collection)
    /\ \A c \in Collection \union {Absent} :
         [step |-> "data", content |-> c] \in CallState(Collection)
    /\ \A step \in {"committed", "conflict", "failed"} :
         [step |-> step] \in CallState(Collection)
BY DEF Idle, Reading, CallState

\* A write under way is a typed provider call.
LEMMA WriteTyped ==
    ASSUME NEW op \in Request, NEW prepared \in Prepared,
           NEW step \in {"commit", "staged", "renaming"}
    PROVE  WriteOf(op, prepared, step) \in CallState(Collection)
<1> DEFINE change == [path |-> op.path, content |-> prepared.next,
                      ifAbsent |-> FALSE, expected |-> prepared.expected]
<1>1. change \in Change(Collection)
  BY RequestFields DEF Change, Prepared
<1>2. <<change>> \in Seq(Change(Collection))
  BY <1>1
<1>3. op.id \in Tag
  BY RequestFields, ServiceAssumption
<1> HIDE DEF change
<1>4. [step |-> step, tag |-> op.id, done |-> 0, changes |-> <<change>>]
        \in [step: {"commit", "staged", "renaming", "push", "recover"},
            changes: Seq(Change(Collection)), tag: Tag, done: Nat]
  BY <1>2, <1>3
<1> QED
  BY <1>4 DEF WriteOf, CallState, change

\* The fields of a write.
LEMMA WriteFields ==
    ASSUME NEW op, NEW prepared, NEW step,
           NEW slot, slot = WriteOf(op, prepared, step)
    PROVE  slot.tag = op.id /\ slot.done = 0
BY DEF WriteOf

\* The one change of a write.
LEMMA WriteChanges ==
    ASSUME NEW op, NEW prepared, NEW step,
           NEW slot, slot = WriteOf(op, prepared, step)
    PROVE  slot.changes = <<[path |-> op.path, content |-> prepared.next,
                             ifAbsent |-> FALSE, expected |-> prepared.expected]>>
BY DEF WriteOf

\* Advancing a write leaves the same write at its next step.
LEMMA AdvanceWrite ==
    ASSUME NEW op, NEW prepared, NEW step, NEW next,
           call[Service] = WriteOf(op, prepared, step), Advance(Service, next)
    PROVE  call' = [call EXCEPT ![Service] = WriteOf(op, prepared, next)]
<1> DEFINE slot == call[Service]
           changes == <<[path |-> op.path, content |-> prepared.next,
                         ifAbsent |-> FALSE, expected |-> prepared.expected]>>
<1>1. WriteOf(op, prepared, next) =
        [step |-> next, tag |-> op.id, changes |-> changes, done |-> 0]
  BY DEF WriteOf
<1>2. slot.tag = op.id /\ slot.done = 0
  BY WriteFields
<1>3. slot.changes = changes
  BY WriteChanges
<1>4. call' = [call EXCEPT ![Service] =
        [step |-> next, tag |-> slot.tag, changes |-> slot.changes, done |-> slot.done]]
  BY DEF Advance
<1> HIDE DEF slot, changes
<1> QED
  BY <1>1, <1>2, <1>3, <1>4

\* Only the service's slot exists, and setting it sets just that.
LEMMA SlotSet ==
    ASSUME call \in [Caller -> CallState(Collection)],
           NEW value \in CallState(Collection),
           call' = [call EXCEPT ![Service] = value]
    PROVE  call' \in [Caller -> CallState(Collection)] /\ call'[Service] = value
BY ServiceAssumption

-----------------------------------------------------------------------------
(***************************************************************************)
(* Steps that move neither the ledger nor the files.                       *)
(***************************************************************************)
\* The three safety properties speak of the ledger, the files and landed only.
LEMMA SafetyUnmoved ==
    ASSUME LandingInv, UNCHANGED <<ledger, files, landed>>
    PROVE  /\ RecoverableUntilOvertaken'
           /\ RefusedOnlyIfOvertaken'
           /\ NoRepeatUntilOvertaken'
           /\ \A o \in OpId : Overtaken(o) => Overtaken(o)'
           /\ \A o \in OpId : IsPending(o) => IsPending(o)'
BY DEF LandingInv, RecoverableUntilOvertaken, RefusedOnlyIfOvertaken,
       NoRepeatUntilOvertaken, Overtaken, IsPending, IsSettled

\* A first submission: nothing has landed for an id the ledger does not have.
LEMMA SubmitPreserves ==
    ASSUME LandingInv, NEW r \in Request, Submit(r), UNCHANGED fsVars
    PROVE  LandingInv'
<1> USE DEF LandingInv, TypeOK
<1>1. /\ job' = [pc |-> "prepare", op |-> r]
      /\ call' = [call EXCEPT ![Service] = Reading(r.path)]
      /\ ledger[r.id] = None
      /\ UNCHANGED <<ledger, minted, faults, files, landed>>
  BY DEF Submit, Ask, fsVars
<1>2. call' \in [Caller -> CallState(Collection)] /\ call'[Service] = Reading(r.path)
  BY <1>1, RequestFields, SlotTyped, SlotSet
<1>3. TypeOK'
  BY <1>1, <1>2 DEF ServiceTypeOK, Job
<1>4. Overtaken(r.id)
  BY <1>1 DEF RecoverableUntilOvertaken, Overtaken
<1>5. JobMatchesLedger'
  BY <1>1, <1>4, SafetyUnmoved, RequestFields DEF JobMatchesLedger
<1>6. CallMatchesFiles'
  BY <1>1, <1>2 DEF CallMatchesFiles
<1> QED
  BY <1>1, <1>3, <1>5, <1>6, SafetyUnmoved

\* A retry of a pending operation.
LEMMA ResumePreserves ==
    ASSUME LandingInv, NEW r \in Request, Resume(r), UNCHANGED fsVars
    PROVE  LandingInv'
<1> USE DEF LandingInv, TypeOK
<1>1. /\ job' = [pc |-> "load", op |-> r]
      /\ call' = [call EXCEPT ![Service] = Reading(r.path)]
      /\ IsPending(r.id) /\ ledger[r.id].op = r
      /\ UNCHANGED <<ledger, minted, faults, files, landed>>
  BY DEF Resume, Ask, fsVars
<1>2. call' \in [Caller -> CallState(Collection)] /\ call'[Service] = Reading(r.path)
  BY <1>1, RequestFields, SlotTyped, SlotSet
<1>3. TypeOK'
  BY <1>1, <1>2 DEF ServiceTypeOK, Job
<1>4. JobMatchesLedger'
  BY <1>1 DEF JobMatchesLedger, IsPending
<1>5. CallMatchesFiles'
  BY <1>1, <1>2 DEF CallMatchesFiles
<1> QED
  BY <1>1, <1>3, <1>4, <1>5, SafetyUnmoved

\* The read of the request inside the gate: its data is what the file has.
LEMMA ReadIsCurrent ==
    ASSUME LandingInv, job.pc \in {"prepare", "load", "finalize"}, Replied("data")
    PROVE  /\ LoadedItems = Bytes(files[job.op.path])
           /\ LoadedItems \in Collection
<1> USE DEF LandingInv, TypeOK
<1>1. call[Service] = [step |-> "data", content |-> files[job.op.path]]
  BY DEF CallMatchesFiles, Replied, Reading
<1>2. files[job.op.path] \in Collection \union {Absent}
  BY JobFields
<1> QED
  BY <1>1, <1>2, EmptyAssumption DEF LoadedItems, Bytes, Collection

\* A failure is one more of its kind.
LEMMA FaultTyped ==
    ASSUME NEW kind, Fault(kind), LandingInv
    PROVE  faults' \in FaultHistory
BY DEF Fault, FaultHistory, LandingInv, TypeOK

\* A request ends without a ledger write: nothing but job and slot change.
LEMMA FinishPreserves ==
    ASSUME LandingInv, Finish, UNCHANGED <<ledger, minted, files, landed>>,
           faults' \in FaultHistory
    PROVE  LandingInv'
<1> USE DEF LandingInv, TypeOK
<1>1. /\ job' = [pc |-> "idle"]
      /\ call' = [call EXCEPT ![Service] = Idle]
  BY DEF Finish, Release
<1>2. call' \in [Caller -> CallState(Collection)] /\ call'[Service] = Idle
  BY <1>1, SlotTyped, SlotSet
<1>3. TypeOK'
  BY <1>1, <1>2, JobSteps DEF ServiceTypeOK
<1>4. JobMatchesLedger' /\ CallMatchesFiles'
  BY <1>1, <1>2 DEF JobMatchesLedger, CallMatchesFiles
<1> QED
  BY <1>3, <1>4, SafetyUnmoved

\* An error is rethrown.
LEMMA RequestFailsPreserves ==
    ASSUME LandingInv, RequestFails, UNCHANGED fsVars
    PROVE  LandingInv'
BY FinishPreserves DEF RequestFails, fsVars, LandingInv, TypeOK

\* The ledger cannot be written.
LEMMA LedgerWriteFailsPreserves ==
    ASSUME LandingInv, LedgerWriteFails, UNCHANGED fsVars
    PROVE  LandingInv'
BY FinishPreserves, FaultTyped DEF LedgerWriteFails, fsVars

\* The process stops.
LEMMA CrashPreserves ==
    ASSUME LandingInv, Crash
    PROVE  LandingInv'
BY FinishPreserves, FaultTyped DEF Crash, fsVars

\* The request goes on to another read, without a ledger write.
LEMMA ReadAgainPreserves ==
    ASSUME LandingInv, NEW pc \in {"prepare", "load", "finalize"},
           job.pc \in {"load", "commit"},
           pc = "prepare" => Overtaken(job.op.id),
           GoTo(pc), Ask(Service, Reading(job.op.path)),
           UNCHANGED <<ledger, minted, faults, files, landed>>
    PROVE  LandingInv'
<1> USE DEF LandingInv, TypeOK
<1>1. /\ job' \in Job /\ job'.pc = pc /\ job'.op = job.op
      /\ call' = [call EXCEPT ![Service] = Reading(job.op.path)]
  BY JobSteps DEF GoTo, Ask
<1>2. /\ call' \in [Caller -> CallState(Collection)]
      /\ call'[Service] = Reading(job.op.path)
  BY <1>1, JobFields, SlotTyped, SlotSet
<1>3. TypeOK'
  BY <1>1, <1>2 DEF ServiceTypeOK
<1>4. IsPending(job.op.id) /\ ledger[job.op.id].op = job.op /\ job.op.id \in OpId
  BY JobFields DEF JobMatchesLedger
<1>5. JobMatchesLedger'
  BY <1>1, <1>4, SafetyUnmoved DEF JobMatchesLedger
<1>6. CallMatchesFiles'
  BY <1>1, <1>2 DEF CallMatchesFiles
<1> QED
  BY <1>3, <1>5, <1>6, SafetyUnmoved

\* commitFiles returned.
LEMMA CommitReturnedPreserves ==
    ASSUME LandingInv, CommitReturned, UNCHANGED fsVars
    PROVE  LandingInv'
BY ReadAgainPreserves DEF CommitReturned, fsVars

\* With one writer no commit conflicts.
LEMMA CommitNeverConflicts ==
    ASSUME LandingInv
    PROVE  ~Replied("conflict") /\ ~CommitConflicted
<1>1. ~Replied("conflict")
  BY JobFields DEF LandingInv, TypeOK, CallMatchesFiles, Replied, Reading, WriteOf
<1> QED
  BY <1>1 DEF CommitConflicted

\* commit() has loaded the collection.
LEMMA LoadPreserves ==
    ASSUME LandingInv, Load, UNCHANGED fsVars
    PROVE  LandingInv'
<1> DEFINE prepared == ledger[job.op.id].prepared
<1> USE DEF LandingInv, TypeOK
<1>1. /\ job.pc = "load" /\ Replied("data")
      /\ UNCHANGED <<ledger, minted, faults, files, landed>>
  BY DEF Load, Loaded, fsVars
<1>2. /\ job.op \in Request /\ job.op.id \in OpId /\ job.op.path \in Path
      /\ IsPending(job.op.id) /\ ledger[job.op.id].op = job.op
      /\ prepared \in Prepared
  BY <1>1, JobFields, PendingFields DEF JobMatchesLedger
<1>3. LoadedItems = Bytes(files[job.op.path])
  BY <1>1, ReadIsCurrent
<1>4. ~AlreadyWritten(prepared, LoadedItems) => Overtaken(job.op.id)
  BY <1>2, <1>3 DEF RecoverableUntilOvertaken, AlreadyWritten
<1>5. CASE GoTo("finalize") /\ Ask(Service, Reading(job.op.path))
  BY <1>1, <1>5, ReadAgainPreserves
<1>6. CASE /\ ~AlreadyWritten(prepared, LoadedItems)
           /\ GoTo("prepare") /\ Ask(Service, Reading(job.op.path))
  BY <1>1, <1>4, <1>6, ReadAgainPreserves
<1>7. CASE /\ ~AlreadyWritten(prepared, LoadedItems)
           /\ LoadedItems = prepared.expected
           /\ GoTo("commit")
           /\ Ask(Service, WriteOf(job.op, prepared, "commit"))
  <2>1. /\ job' \in Job /\ job'.pc = "commit" /\ job'.op = job.op
        /\ call' = [call EXCEPT ![Service] = WriteOf(job.op, prepared, "commit")]
    BY <1>1, <1>7, JobSteps DEF GoTo, Ask
  <2>2. /\ call' \in [Caller -> CallState(Collection)]
        /\ call'[Service] = WriteOf(job.op, prepared, "commit")
    BY <1>2, <2>1, WriteTyped, SlotSet
  <2>3. TypeOK'
    BY <1>1, <2>1, <2>2 DEF ServiceTypeOK
  <2>4. JobMatchesLedger'
    BY <1>1, <1>2, <2>1, SafetyUnmoved DEF JobMatchesLedger
  <2>5. Overtaken(job.op.id)' /\ prepared' = prepared
    BY <1>1, <1>2, <1>4, <1>7, <2>1, SafetyUnmoved
  <2>6. call'[Service] = WriteOf(job'.op, prepared', "commit")
    BY <2>1, <2>2, <2>5
  <2>7. prepared'.expected = Bytes(files'[job'.op.path])
    BY <1>1, <1>3, <1>7, <2>1, <2>5 DEF Bytes
  <2>8. CallMatchesFiles'
    BY <2>1, <2>5, <2>6, <2>7 DEF CallMatchesFiles
  <2> QED
    BY <1>1, <2>3, <2>4, <2>8, SafetyUnmoved
<1>8. Committing(<<[path |-> job.op.path, content |-> prepared.next,
                    ifAbsent |-> FALSE, expected |-> prepared.expected]>>, job.op.id)
        = WriteOf(job.op, prepared, "commit")
  BY DEF Committing, WriteOf
<1> QED
  BY <1>5, <1>6, <1>7, <1>8 DEF Load

-----------------------------------------------------------------------------
(***************************************************************************)
(* Steps that write the ledger.                                            *)
(***************************************************************************)
\* Replacing the entry of one operation keeps the safety properties, when the
\* new entry is true of the files.
LEMMA SafetySaved ==
    ASSUME LandingInv, UNCHANGED <<files, landed>>,
           NEW op \in Request, NEW entry \in Entry, entry.op = op, Save(op, entry),
           ledger[op.id] # None => ledger[op.id].op = op,
           entry.status # None /\ entry.status.state # "source-committed"
             => Overtaken(op.id),
           entry.status = None
             => \/ Bytes(files[op.path]) = entry.prepared.next
                \/ Overtaken(op.id)
    PROVE  /\ RecoverableUntilOvertaken'
           /\ RefusedOnlyIfOvertaken'
           /\ NoRepeatUntilOvertaken'
           /\ \A o \in OpId : Overtaken(o) => Overtaken(o)'
<1> USE DEF LandingInv, TypeOK
<1>1. /\ ledger' \in [OpId -> Entry \union {None}]
      /\ ledger'[op.id] = entry
      /\ \A o \in OpId : o # op.id => ledger'[o] = ledger[o]
  BY SaveTyped
<1>2. op.id \in OpId /\ entry # None
  BY RequestFields, DistinctAssumption
<1>3. \A o \in OpId : Overtaken(o) => Overtaken(o)'
  BY DEF Overtaken
<1>4. NoRepeatUntilOvertaken'
  BY DEF NoRepeatUntilOvertaken
<1>5. RefusedOnlyIfOvertaken'
  BY <1>1, <1>2, <1>3 DEF RefusedOnlyIfOvertaken, IsSettled
<1>6. \A i \in DOMAIN landed : landed[i][1] \in OpId
  OBVIOUS
<1>7. \A i \in DOMAIN landed' :
        LET e == ledger'[landed'[i][1]]
        IN  e # None /\ e.op.path = landed'[i][2]
  BY <1>1, <1>2, <1>6 DEF RecoverableUntilOvertaken
<1>8. ASSUME NEW o \in OpId, IsPending(o)'
      PROVE  \/ Bytes(files[ledger'[o].op.path]) = ledger'[o].prepared.next
             \/ Overtaken(o)
  <2>1. CASE o = op.id
    BY <1>1, <1>8, <2>1 DEF IsPending
  <2>2. CASE o # op.id
    BY <1>1, <1>8, <2>2 DEF IsPending, RecoverableUntilOvertaken
  <2> QED
    BY <2>1, <2>2
<1>9. RecoverableUntilOvertaken'
  BY <1>3, <1>7, <1>8 DEF RecoverableUntilOvertaken, Bytes
<1> QED
  BY <1>3, <1>4, <1>5, <1>9

\* A status is saved and the request ends.
LEMMA SettlePreserves ==
    ASSUME LandingInv, UNCHANGED <<faults, files, landed>>, minted' \subseteq FreshId,
           NEW op \in Request, NEW status \in Status,
           Save(op, Settled(op, status)), Finish,
           ledger[op.id] # None => ledger[op.id].op = op,
           status.state # "source-committed" => Overtaken(op.id)
    PROVE  LandingInv'
<1> USE DEF LandingInv, TypeOK
<1>1. /\ job' = [pc |-> "idle"]
      /\ call' = [call EXCEPT ![Service] = Idle]
  BY DEF Finish, Release
<1>2. call' \in [Caller -> CallState(Collection)] /\ call'[Service] = Idle
  BY <1>1, SlotTyped, SlotSet
<1> DEFINE entry == Settled(op, status)
<1>3. /\ entry \in Entry /\ entry.op = op
      /\ entry.status = status /\ entry.status # None
  BY SettledEntry
<1> HIDE DEF entry
<1>4. /\ ledger' \in [OpId -> Entry \union {None}]
      /\ \A o \in OpId : ledger'[o] # None => ledger'[o].op.id = o
  BY <1>3, SaveTyped DEF entry
<1>5. TypeOK'
  BY <1>1, <1>2, <1>4, JobSteps DEF ServiceTypeOK
<1>6. JobMatchesLedger' /\ CallMatchesFiles'
  BY <1>1, <1>2 DEF JobMatchesLedger, CallMatchesFiles
<1>7. RecoverableUntilOvertaken' /\ RefusedOnlyIfOvertaken' /\ NoRepeatUntilOvertaken'
  BY <1>3, SafetySaved DEF entry
<1> QED
  BY <1>5, <1>6, <1>7

\* prepare() is done, for the first time or again.
LEMMA PreparePreserves ==
    ASSUME LandingInv, EffectsAreRequested, Prepare, UNCHANGED fsVars
    PROVE  LandingInv'
<1> USE DEF LandingInv, TypeOK
<1>1. /\ job.pc = "prepare" /\ Replied("data")
      /\ UNCHANGED <<faults, files, landed>>
  BY DEF Prepare, Loaded, fsVars
<1>2. /\ job.op \in Request /\ job.op.id \in OpId /\ job.op.path \in Path
      /\ Overtaken(job.op.id)
      /\ ledger[job.op.id] # None => ledger[job.op.id].op = job.op
  BY <1>1, JobFields DEF JobMatchesLedger
<1>3. LoadedItems \in Collection /\ UniqueIds(LoadedItems)
  BY <1>1, <1>2, ReadIsCurrent DEF EffectsAreRequested
<1>4. PICK fresh \in IF NeedsFreshId(job.op) THEN FreshId \ minted ELSE {None} :
        /\ minted' = minted \union ({fresh} \ {None})
        /\ IF IsPrepared(Plan(job.op, LoadedItems, fresh))
             THEN /\ Save(job.op, Unsettled(job.op, Plan(job.op, LoadedItems, fresh)))
                  /\ GoTo("load")
                  /\ Ask(Service, Reading(job.op.path))
             ELSE /\ Save(job.op, Settled(job.op, Plan(job.op, LoadedItems, fresh)))
                  /\ Finish
  BY DEF Prepare
<1> DEFINE plan == Plan(job.op, LoadedItems, fresh)
<1>5. minted' \subseteq FreshId
  BY <1>4 DEF ServiceTypeOK
<1>6. IF IsPrepared(plan) THEN plan \in Prepared ELSE plan \in Refusal
  BY <1>2, <1>3, <1>4, PlanOutcome DEF Outcome
<1>7. CASE IsPrepared(plan)
  <2> DEFINE entry == Unsettled(job.op, plan)
  <2>1. /\ entry \in Entry /\ entry.op = job.op
        /\ entry.status = None /\ entry # None
    BY <1>2, <1>6, <1>7, UnsettledEntry
  <2>2. Save(job.op, entry)
    BY <1>4, <1>7
  <2> HIDE DEF entry
  <2>3. /\ ledger' \in [OpId -> Entry \union {None}]
        /\ ledger'[job.op.id] = entry
        /\ \A o \in OpId : ledger'[o] # None => ledger'[o].op.id = o
    BY <1>2, <2>1, <2>2, SaveTyped
  <2>4. /\ job' \in Job /\ job'.pc = "load" /\ job'.op = job.op
        /\ call' = [call EXCEPT ![Service] = Reading(job.op.path)]
    BY <1>1, <1>4, <1>7, JobSteps DEF GoTo, Ask
  <2>5. /\ call' \in [Caller -> CallState(Collection)]
        /\ call'[Service] = Reading(job.op.path)
    BY <1>2, <2>4, SlotTyped, SlotSet
  <2>6. TypeOK'
    BY <1>1, <1>5, <2>3, <2>4, <2>5 DEF ServiceTypeOK
  <2>7. JobMatchesLedger'
    BY <2>1, <2>3, <2>4 DEF JobMatchesLedger, IsPending
  <2>8. CallMatchesFiles'
    BY <2>4, <2>5 DEF CallMatchesFiles
  <2>9. RecoverableUntilOvertaken' /\ RefusedOnlyIfOvertaken' /\ NoRepeatUntilOvertaken'
    BY <1>1, <1>2, <2>1, <2>2, SafetySaved
  <2> QED
    BY <2>6, <2>7, <2>8, <2>9
<1>8. CASE ~IsPrepared(plan)
  <2>1. plan \in Status
    BY <1>6, <1>8 DEF Refusal
  <2>2. Save(job.op, Settled(job.op, plan)) /\ Finish
    BY <1>4, <1>8
  <2> HIDE DEF plan
  <2> QED
    BY <1>1, <1>2, <1>5, <2>1, <2>2, SettlePreserves
<1> QED
  BY <1>7, <1>8

\* finalizeCommitted() is done.
LEMMA FinalizePreserves ==
    ASSUME LandingInv, Finalize, UNCHANGED fsVars
    PROVE  LandingInv'
<1> DEFINE status == Committed(ledger[job.op.id].prepared)
<1> USE DEF LandingInv, TypeOK
<1>1. /\ job.pc = "finalize"
      /\ Save(job.op, Settled(job.op, status)) /\ Finish
      /\ UNCHANGED <<minted, faults, files, landed>>
  BY DEF Finalize, fsVars
<1>2. /\ job.op \in Request /\ job.op.id \in OpId
      /\ ledger[job.op.id].op = job.op /\ IsPending(job.op.id)
  BY <1>1, JobFields DEF JobMatchesLedger
<1>3. status \in Status /\ status.state = "source-committed"
  BY <1>2, PendingFields DEF Committed, Prepared, Status
<1>4. minted' \subseteq FreshId
  BY <1>1 DEF ServiceTypeOK
<1> HIDE DEF status
<1> QED
  BY <1>1, <1>2, <1>3, <1>4, SettlePreserves

-----------------------------------------------------------------------------
(***************************************************************************)
(* Steps of the provider.                                                  *)
(***************************************************************************)
\* The provider answers or moves on without touching a file.
LEMMA SlotStepPreserves ==
    ASSUME LandingInv, UNCHANGED <<serviceVars, files, landed>>, faults' \in FaultHistory,
           job.pc # "idle",
           NEW value \in CallState(Collection),
           call' = [call EXCEPT ![Service] = value],
           \/ value = [step |-> "failed"]
           \/ /\ job.pc \in {"prepare", "load", "finalize"}
              /\ value = [step |-> "data", content |-> files[job.op.path]]
           \/ /\ job.pc = "commit"
              /\ ledger[job.op.id].prepared.expected = Bytes(files[job.op.path])
              /\ Overtaken(job.op.id)
              /\ \E step \in {"commit", "staged", "renaming"} :
                   value = WriteOf(job.op, ledger[job.op.id].prepared, step)
    PROVE  LandingInv'
<1> USE DEF LandingInv, TypeOK
<1>1. UNCHANGED <<ledger, job, minted>>
  BY DEF serviceVars
<1>2. call' \in [Caller -> CallState(Collection)] /\ call'[Service] = value
  BY SlotSet
<1>3. TypeOK'
  BY <1>1, <1>2 DEF ServiceTypeOK
<1>4. job.op.id \in OpId /\ job.pc \in {"prepare", "load", "commit", "finalize"}
  BY JobFields
<1>5. JobMatchesLedger'
  BY <1>1, <1>4, SafetyUnmoved DEF JobMatchesLedger, IsPending
<1>6. Overtaken(job.op.id) => Overtaken(job.op.id)'
  BY <1>1, <1>4, SafetyUnmoved
<1>7. CallMatchesFiles'
  BY <1>1, <1>2, <1>4, <1>6 DEF CallMatchesFiles, Bytes
<1> QED
  BY <1>1, <1>3, <1>5, <1>7, SafetyUnmoved

\* Which slot states the job's program counter leaves for a provider step.
LEMMA SlotOfJob ==
    ASSUME LandingInv
    PROVE  /\ call[Service].step = "read" =>
                /\ job.pc \in {"prepare", "load", "finalize"}
                /\ call[Service] = Reading(job.op.path)
           /\ \A step \in {"commit", "staged", "renaming"} :
                call[Service].step = step =>
                  /\ job.pc = "commit"
                  /\ call[Service] = WriteOf(job.op, ledger[job.op.id].prepared, step)
                  /\ ledger[job.op.id].prepared.expected = Bytes(files[job.op.path])
                  /\ Overtaken(job.op.id)
<1> USE DEF LandingInv, TypeOK
<1>1. job.pc \in {"idle", "prepare", "load", "commit", "finalize"}
  BY JobFields
<1>2. CASE job.pc = "idle"
  BY <1>2 DEF CallMatchesFiles, Idle
<1>3. CASE job.pc \in {"prepare", "load", "finalize"}
  BY <1>3 DEF CallMatchesFiles, Reading
<1>4. CASE job.pc = "commit"
  <2>1. CASE call[Service] \in {[step |-> "committed"], [step |-> "failed"]}
    BY <2>1
  <2>2. CASE call[Service] \notin {[step |-> "committed"], [step |-> "failed"]}
    <3>1. PICK step \in {"commit", "staged", "renaming"} :
            call[Service] = WriteOf(job.op, ledger[job.op.id].prepared, step)
      BY <1>4, <2>2 DEF CallMatchesFiles
    <3>2. call[Service].step = step
      BY <3>1 DEF WriteOf
    <3>3. ledger[job.op.id].prepared.expected = Bytes(files[job.op.path]) /\ Overtaken(job.op.id)
      BY <1>4, <2>2 DEF CallMatchesFiles
    <3> QED
      BY <1>4, <3>1, <3>2, <3>3
  <2> QED
    BY <2>1, <2>2
<1> QED
  BY <1>1, <1>2, <1>3, <1>4

\* readFile returns or throws.
LEMMA FsReadPreserves ==
    ASSUME LandingInv, FsRead(Service), UNCHANGED serviceVars
    PROVE  LandingInv'
<1> USE DEF LandingInv, TypeOK
<1>1. /\ job.pc \in {"prepare", "load", "finalize"}
      /\ call[Service] = Reading(job.op.path)
      /\ UNCHANGED <<files, landed>>
  BY SlotOfJob DEF FsRead, fsVars
<1>2. files[job.op.path] \in Collection \union {Absent}
  BY <1>1, JobFields
<1>3. CASE ReplyData(Service, files[call[Service].path]) /\ UNCHANGED faults
  <2> DEFINE value == [step |-> "data", content |-> files[job.op.path]]
  <2>1. value \in CallState(Collection) /\ faults' \in FaultHistory
    BY <1>2, <1>3, SlotTyped
  <2>2. call' = [call EXCEPT ![Service] = value]
    BY <1>1, <1>3 DEF ReplyData, Reading
  <2> QED
    BY <1>1, <2>1, <2>2, SlotStepPreserves
<1>4. CASE Fault("read") /\ Reply(Service, "failed")
  <2> DEFINE value == [step |-> "failed"]
  <2>1. value \in CallState(Collection) /\ faults' \in FaultHistory
    BY <1>4, SlotTyped, FaultTyped
  <2>2. call' = [call EXCEPT ![Service] = value]
    BY <1>4 DEF Reply
  <2> QED
    BY <1>1, <2>1, <2>2, SlotStepPreserves
<1> QED
  BY <1>3, <1>4 DEF FsRead

\* Nothing has changed the file since commit() compared it: both checks pass.
LEMMA WritePreconditionsHold ==
    ASSUME LandingInv, call[Service].step \in {"commit", "staged"}
    PROVE  PreconditionsHold(call[Service].changes, files)
BY SlotOfJob DEF WriteOf, PreconditionsHold, PreconditionHolds

\* A commit advances from one of its steps to the next.
LEMMA AdvancePreserves ==
    ASSUME LandingInv, call[Service].step \in {"commit", "staged"},
           NEW next \in {"staged", "renaming"},
           Advance(Service, next), UNCHANGED <<serviceVars, fsVars, faults>>
    PROVE  LandingInv'
<1> DEFINE prepared == ledger[job.op.id].prepared
<1> USE DEF LandingInv, TypeOK
<1>1. /\ job.pc = "commit"
      /\ \E step \in {"commit", "staged"} :
           call[Service] = WriteOf(job.op, prepared, step)
      /\ prepared.expected = Bytes(files[job.op.path])
      /\ Overtaken(job.op.id)
  BY SlotOfJob
<1>2. job.op \in Request /\ prepared \in Prepared
  BY <1>1, JobFields, PendingFields DEF JobMatchesLedger
<1>3. PICK step \in {"commit", "staged"} :
        call[Service] = WriteOf(job.op, prepared, step)
  BY <1>1
<1>4. call' = [call EXCEPT ![Service] = WriteOf(job.op, prepared, next)]
  <2> HIDE DEF prepared, LandingInv, TypeOK
  <2>1. PICK o, p : o = job.op /\ p = prepared
    OBVIOUS
  <2>2. call[Service] = WriteOf(o, p, step)
    BY <1>3, <2>1
  <2>3. call' = [call EXCEPT ![Service] = WriteOf(o, p, next)]
    BY <2>2, AdvanceWrite, SMTT(30)
  <2> QED
    BY <2>1, <2>3
<1>5. WriteOf(job.op, prepared, next) \in CallState(Collection)
  BY <1>2, WriteTyped
<1> QED
  BY <1>1, <1>4, <1>5, SlotStepPreserves DEF fsVars

\* The first pass over the preconditions.
LEMMA FsCheckPreserves ==
    ASSUME LandingInv, FsCheck(Service), UNCHANGED serviceVars
    PROVE  LandingInv'
BY WritePreconditionsHold, AdvancePreserves DEF FsCheck

\* The second pass.
LEMMA FsRecheckPreserves ==
    ASSUME LandingInv, FsRecheck(Service), UNCHANGED serviceVars
    PROVE  LandingInv'
BY WritePreconditionsHold, AdvancePreserves DEF FsRecheck

\* commitFiles throws.
LEMMA FsCommitFailsPreserves ==
    ASSUME LandingInv, FsCommitFails(Service), UNCHANGED serviceVars
    PROVE  LandingInv'
<1>1. job.pc = "commit" /\ UNCHANGED <<files, landed>> /\ faults' \in FaultHistory
  BY SlotOfJob, FaultTyped DEF FsCommitFails, fsVars
<1> QED
  BY <1>1, SlotTyped, SlotStepPreserves DEF FsCommitFails, Reply

\* NoRepeatUntilOvertaken, for two given landings.
LEMMA RepeatIsOvertaken ==
    ASSUME NoRepeatUntilOvertaken,
           NEW i \in DOMAIN landed, NEW j \in DOMAIN landed, i < j,
           landed[i][1] = landed[j][1]
    PROVE  \E m \in DOMAIN landed :
             /\ i < m /\ m < j
             /\ landed[m][2] = landed[i][2]
             /\ landed[m][1] # landed[i][1]
BY DEF NoRepeatUntilOvertaken

\* The one step that moves a file.
LEMMA FsRenamePreserves ==
    ASSUME LandingInv, FsRename(Service), UNCHANGED serviceVars
    PROVE  LandingInv'
<1> DEFINE op == job.op
           prepared == ledger[op.id].prepared
           n == Len(landed) + 1
<1> USE DEF LandingInv, TypeOK
<1>1. /\ job.pc = "commit"
      /\ call[Service] = WriteOf(op, prepared, "renaming")
      /\ Overtaken(op.id)
  BY SlotOfJob DEF FsRename
<1>2. /\ op \in Request /\ op.id \in OpId /\ op.path \in Path
      /\ IsPending(op.id) /\ ledger[op.id].op = op
      /\ prepared.next \in Collection
  BY <1>1, JobFields, PendingFields DEF JobMatchesLedger
<1>3. /\ files' = [files EXCEPT ![op.path] = prepared.next]
      /\ landed' = Append(landed, <<op.id, op.path>>)
      /\ call' = [call EXCEPT ![Service] = [step |-> "committed"]]
      /\ UNCHANGED <<ledger, job, minted, faults>>
  <2> DEFINE change == [path |-> op.path, content |-> prepared.next,
                        ifAbsent |-> FALSE, expected |-> prepared.expected]
  <2> HIDE DEF op, prepared
  <2>1. /\ call[Service].changes = <<change>> /\ call[Service].done = 0
        /\ call[Service].tag = op.id
    <3>1. call[Service].tag = op.id /\ call[Service].done = 0
      BY <1>1, WriteFields
    <3>2. call[Service].changes = <<change>>
      BY <1>1, WriteChanges
    <3> QED
      BY <3>1, <3>2
  <2>2. /\ call[Service].changes[call[Service].done + 1] = change
        /\ Len(call[Service].changes) = call[Service].done + 1
    BY <2>1
  <2>3. /\ change.path = op.path /\ change.content = prepared.next
    OBVIOUS
  <2> HIDE DEF change
  <2> QED
    BY <2>1, <2>2, <2>3 DEF FsRename, Reply, serviceVars
<1> HIDE DEF op, prepared
<1>4. landed \in Seq(OpId \X Path) /\ <<op.id, op.path>> \in OpId \X Path
  BY <1>2
<1>5. /\ landed' \in Seq(OpId \X Path)
      /\ DOMAIN landed = 1..Len(landed) /\ Len(landed) \in Nat
      /\ DOMAIN landed' = 1..n
      /\ \A i \in 1..Len(landed) : landed'[i] = landed[i]
      /\ landed'[n] = <<op.id, op.path>>
  BY <1>3, <1>4, AppendProperties
<1>6. /\ files' \in [Path -> Collection \union {Absent}]
      /\ files'[op.path] = prepared.next
      /\ \A p \in Path : p # op.path => files'[p] = files[p]
  BY <1>2, <1>3
<1>7. Bytes(files'[op.path]) = prepared.next
  BY <1>2, <1>6, DistinctAssumption DEF Bytes
<1>8. /\ call' \in [Caller -> CallState(Collection)]
      /\ call'[Service] = [step |-> "committed"]
  BY <1>3, SlotTyped, SlotSet
<1>9. TypeOK'
  BY <1>3, <1>5, <1>6, <1>8 DEF ServiceTypeOK
<1>10. JobMatchesLedger' /\ CallMatchesFiles'
  BY <1>1, <1>3, <1>8 DEF JobMatchesLedger, CallMatchesFiles, IsPending
\* The other operations: the new landing is not theirs.
<1>11. ASSUME NEW o \in OpId, o # op.id, Overtaken(o)
       PROVE  Overtaken(o)'
  BY <1>5, <1>11 DEF Overtaken
<1>12. ASSUME NEW o \in OpId, o # op.id, ledger[o] # None, ledger[o].op.path = op.path
       PROVE  Overtaken(o)'
  <2>1. SUFFICES ASSUME NEW i \in 1..n, landed'[i][1] = o
                 PROVE  \E m \in 1..n :
                          i < m /\ landed'[m][2] = landed'[i][2] /\ landed'[m][1] # o
    BY <1>5 DEF Overtaken
  <2>2. i \in 1..Len(landed) /\ i < n /\ landed'[i] = landed[i]
    BY <1>5, <1>12, <2>1
  <2>3. landed'[i][2] = op.path
    BY <1>5, <1>12, <2>1, <2>2 DEF RecoverableUntilOvertaken
  <2>4. n \in 1..n /\ landed'[n][1] = op.id /\ landed'[n][2] = op.path
    BY <1>5, <2>2
  <2> QED
    BY <1>12, <2>2, <2>3, <2>4
<1>13. RecoverableUntilOvertaken'
  <2>1. ASSUME NEW i \in DOMAIN landed'
        PROVE  ledger'[landed'[i][1]] # None /\ ledger'[landed'[i][1]].op.path = landed'[i][2]
    BY <1>2, <1>3, <1>5 DEF RecoverableUntilOvertaken, IsPending
  <2>2. ASSUME NEW o \in OpId, IsPending(o)'
        PROVE  \/ Bytes(files'[ledger'[o].op.path]) = ledger'[o].prepared.next
               \/ Overtaken(o)'
    <3>1. ledger' = ledger /\ IsPending(o) /\ ledger[o] # None
      BY <1>3, <2>2 DEF IsPending
    <3>2. CASE o = op.id
      BY <1>2, <1>7, <3>1, <3>2 DEF prepared
    <3>3. CASE o # op.id /\ ledger[o].op.path = op.path
      BY <1>12, <3>1, <3>3
    <3>4. CASE o # op.id /\ ledger[o].op.path # op.path
      <4>1. ledger[o].op.path \in Path
        BY <3>1, PendingFields, RequestFields
      <4>2. files'[ledger[o].op.path] = files[ledger[o].op.path]
        BY <1>6, <3>4, <4>1
      <4> QED
        BY <1>11, <3>1, <3>4, <4>2 DEF RecoverableUntilOvertaken
    <3> QED
      BY <3>2, <3>3, <3>4
  <2> QED
    BY <2>1, <2>2 DEF RecoverableUntilOvertaken
<1>14. RefusedOnlyIfOvertaken'
  BY <1>2, <1>3, <1>11 DEF RefusedOnlyIfOvertaken, IsSettled, IsPending
<1>15. NoRepeatUntilOvertaken'
  <2>1. SUFFICES ASSUME NEW i \in 1..n, NEW j \in 1..n, i < j,
                        landed'[i][1] = landed'[j][1]
                 PROVE  \E m \in 1..n : /\ i < m /\ m < j
                                       /\ landed'[m][2] = landed'[i][2]
                                       /\ landed'[m][1] # landed'[i][1]
    BY <1>5 DEF NoRepeatUntilOvertaken
  <2>2. CASE j # n
    <3>1. /\ i \in 1..Len(landed) /\ j \in 1..Len(landed)
          /\ landed'[i] = landed[i] /\ landed'[j] = landed[j]
      BY <1>5, <2>1, <2>2
    <3>2. landed[i][1] = landed[j][1] /\ i \in DOMAIN landed /\ j \in DOMAIN landed
      BY <1>5, <2>1, <3>1
    <3>3. NoRepeatUntilOvertaken
      OBVIOUS
    <3>4. PICK m \in DOMAIN landed : /\ i < m /\ m < j
                                    /\ landed[m][2] = landed[i][2]
                                    /\ landed[m][1] # landed[i][1]
      BY <2>1, <3>2, <3>3, RepeatIsOvertaken
    <3>5. m \in 1..n /\ landed'[m] = landed[m]
      BY <1>5, <3>4
    <3>6. landed'[m][2] = landed'[i][2] /\ landed'[m][1] # landed'[i][1]
      BY <3>1, <3>4, <3>5
    <3> QED
      BY <3>4, <3>5, <3>6
  <2>3. CASE j = n
    <3>1. i \in 1..Len(landed) /\ landed[i][1] = op.id /\ landed'[i] = landed[i]
      BY <1>5, <2>1, <2>3
    <3>2. PICK m \in 1..Len(landed) :
            i < m /\ landed[m][2] = landed[i][2] /\ landed[m][1] # op.id
      BY <1>1, <1>5, <3>1 DEF Overtaken
    <3>3. m \in 1..n /\ m < j /\ landed'[m] = landed[m]
      BY <1>5, <2>3, <3>2
    <3> QED
      BY <3>1, <3>2, <3>3
  <2> QED
    BY <2>2, <2>3
<1> QED
  BY <1>9, <1>10, <1>13, <1>14, <1>15

-----------------------------------------------------------------------------
(***************************************************************************)
(* What is written is what was asked for.                                  *)
(***************************************************************************)
LEMMA BytesOf ==
    ASSUME NEW c \in Collection \union {Absent}
    PROVE  Bytes(c) \in Collection /\ (c # Absent => Bytes(c) = c)
BY EmptyAssumption DEF Bytes, Collection

\* Collections are sequences, the missing one an empty sequence.
LEMMA FileBytes ==
    ASSUME TypeOK, NEW p \in Path
    PROVE  Bytes(files[p]) \in Collection
BY BytesOf DEF TypeOK

\* A step that moves neither the ledger nor the files.
LEMMA EffectsUnmoved ==
    ASSUME EffectsAreRequested, UNCHANGED <<ledger, files>>,
           (\/ job'.pc = "finalize"
            \/ job'.pc = "commit" /\ call'[Service].step = "committed") =>
             Bytes(files[job'.op.path]) = ledger[job'.op.id].prepared.next
    PROVE  EffectsAreRequested'
BY DEF EffectsAreRequested, IsPending, Bytes

\* A request ends without a ledger write.
LEMMA EffectsAfterFinish ==
    ASSUME EffectsAreRequested, Finish, UNCHANGED <<ledger, files>>
    PROVE  EffectsAreRequested'
BY EffectsUnmoved DEF Finish

\* A request reads the collection to prepare or to load.
LEMMA EffectsAfterSubmit ==
    ASSUME EffectsAreRequested, NEW r \in Request, Submit(r) \/ Resume(r),
           UNCHANGED fsVars
    PROVE  EffectsAreRequested'
BY EffectsUnmoved DEF Submit, Resume, fsVars

\* A status is saved: the entry is not pending any more.
LEMMA EffectsAfterSettle ==
    ASSUME LandingInv, EffectsAreRequested, UNCHANGED files,
           NEW op \in Request, NEW status \in Status,
           Save(op, Settled(op, status)), Finish
    PROVE  EffectsAreRequested'
<1>1. ServiceTypeOK /\ job'.pc = "idle"
  BY DEF LandingInv, TypeOK, Finish
<1> DEFINE entry == Settled(op, status)
<1>2. entry \in Entry /\ entry.op = op /\ entry # None /\ entry.status # None
  BY SettledEntry
<1>3. Save(op, entry)
  OBVIOUS
<1> HIDE DEF entry
<1>4. /\ ledger'[op.id] = entry
      /\ \A o \in OpId : o # op.id => ledger'[o] = ledger[o]
  BY <1>1, <1>2, <1>3, SaveTyped
<1>5. \A o \in OpId : IsPending(o)' => o # op.id /\ ledger'[o] = ledger[o] /\ IsPending(o)
  BY <1>2, <1>4 DEF IsPending
<1>6. \A o \in OpId : IsPending(o)' => Applies(ledger'[o].op, ledger'[o].prepared)
  BY <1>5 DEF EffectsAreRequested
<1> QED
  BY <1>1, <1>6 DEF EffectsAreRequested, Bytes

\* prepare(): its outcome is about what the file has.
LEMMA Prepares ==
    ASSUME LandingInv, EffectsAreRequested, Prepare
    PROVE  /\ job.op \in Request /\ job.pc = "prepare"
           /\ ledger[job.op.id] # None =>
                IsPending(job.op.id) /\ ledger[job.op.id].op = job.op
           /\ \E plan :
                /\ Outcome(job.op, Bytes(files[job.op.path]), plan)
                /\ IF IsPrepared(plan)
                     THEN /\ Save(job.op, Unsettled(job.op, plan))
                          /\ GoTo("load")
                     ELSE Save(job.op, Settled(job.op, plan)) /\ Finish
<1> USE DEF LandingInv, TypeOK
<1>1. job.pc = "prepare" /\ Replied("data")
  BY DEF Prepare, Loaded
<1>2. /\ job.op \in Request /\ job.op.path \in Path
      /\ ledger[job.op.id] # None =>
           IsPending(job.op.id) /\ ledger[job.op.id].op = job.op
  BY <1>1, JobFields DEF JobMatchesLedger
<1>3. /\ LoadedItems = Bytes(files[job.op.path])
      /\ LoadedItems \in Collection /\ UniqueIds(LoadedItems)
  BY <1>1, <1>2, ReadIsCurrent DEF EffectsAreRequested
<1>4. PICK fresh \in IF NeedsFreshId(job.op) THEN FreshId \ minted ELSE {None} :
        IF IsPrepared(Plan(job.op, LoadedItems, fresh))
          THEN /\ Save(job.op, Unsettled(job.op, Plan(job.op, LoadedItems, fresh)))
               /\ GoTo("load")
          ELSE /\ Save(job.op, Settled(job.op, Plan(job.op, LoadedItems, fresh)))
               /\ Finish
  BY DEF Prepare
<1>5. Outcome(job.op, LoadedItems, Plan(job.op, LoadedItems, fresh))
  BY <1>2, <1>3, <1>4, PlanOutcome
<1> QED
  BY <1>1, <1>2, <1>3, <1>4, <1>5

LEMMA EffectsAfterPrepare ==
    ASSUME LandingInv, EffectsAreRequested, Prepare, UNCHANGED fsVars
    PROVE  EffectsAreRequested'
<1>1. ServiceTypeOK /\ UNCHANGED files
  BY DEF LandingInv, TypeOK, fsVars
<1>2. job.op \in Request /\ job.pc = "prepare"
  BY Prepares
<1>3. PICK plan :
        /\ Outcome(job.op, Bytes(files[job.op.path]), plan)
        /\ IF IsPrepared(plan)
             THEN Save(job.op, Unsettled(job.op, plan)) /\ GoTo("load")
             ELSE Save(job.op, Settled(job.op, plan)) /\ Finish
  BY Prepares
<1>4. CASE ~IsPrepared(plan)
  <2>1. plan \in Status
    BY <1>3, <1>4 DEF Outcome, Refusal
  <2> QED
    BY <1>1, <1>2, <1>3, <1>4, <2>1, EffectsAfterSettle
<1>5. CASE IsPrepared(plan)
  <2>1. plan \in Prepared /\ Applies(job.op, plan)
    BY <1>3, <1>5 DEF Outcome
  <2>2. PICK op : op = job.op
    OBVIOUS
  <2>3. PICK entry : entry = Unsettled(op, plan)
    OBVIOUS
  <2>4. entry \in Entry /\ entry.op = op /\ entry.prepared = plan
    BY <1>2, <2>1, <2>2, <2>3, UnsettledEntry
  <2>5. Save(op, entry)
    BY <1>3, <1>5, <2>2, <2>3
  <2>6. /\ ledger'[op.id] = entry
        /\ \A o \in OpId : o # op.id => ledger'[o] = ledger[o]
    BY <1>1, <1>2, <2>2, <2>4, <2>5, SaveTyped
  <2>7. ASSUME NEW o \in OpId, IsPending(o)'
        PROVE  Applies(ledger'[o].op, ledger'[o].prepared)
    <3>1. CASE o = op.id
      BY <2>1, <2>2, <2>4, <2>6, <3>1
    <3>2. CASE o # op.id
      BY <2>6, <2>7, <3>2 DEF EffectsAreRequested, IsPending
    <3> QED
      BY <3>1, <3>2
  <2>8. job'.pc = "load"
    BY <1>1, <1>2, <1>3, <1>5, JobSteps DEF GoTo
  <2> QED
    BY <1>1, <2>7, <2>8 DEF EffectsAreRequested, Bytes
<1> QED
  BY <1>4, <1>5

\* The program counter after GoTo.
LEMMA GoneTo ==
    ASSUME LandingInv, job.pc # "idle",
           NEW pc \in {"prepare", "load", "commit", "finalize"}, GoTo(pc)
    PROVE  job'.pc = pc /\ job'.op = job.op
BY JobSteps DEF LandingInv, TypeOK, GoTo

\* The service's slot after Ask.
LEMMA Asked ==
    ASSUME LandingInv, NEW value, Ask(Service, value)
    PROVE  call'[Service] = value
BY ServiceAssumption DEF LandingInv, TypeOK, Ask

LEMMA EffectsAfterLoad ==
    ASSUME LandingInv, EffectsAreRequested, Load, UNCHANGED fsVars
    PROVE  EffectsAreRequested'
<1> DEFINE prepared == ledger[job.op.id].prepared
<1>1. job.pc = "load" /\ Replied("data") /\ UNCHANGED <<ledger, files>>
  BY DEF Load, Loaded, fsVars
<1>2. LoadedItems = Bytes(files[job.op.path])
  BY <1>1, ReadIsCurrent
<1>3. CASE AlreadyWritten(prepared, LoadedItems) /\ GoTo("finalize")
  <2>1. job'.pc = "finalize" /\ job'.op = job.op
    BY <1>1, <1>3, GoneTo
  <2> QED
    BY <1>1, <1>2, <1>3, <2>1, EffectsUnmoved DEF AlreadyWritten
<1>4. CASE GoTo("prepare")
  BY <1>1, <1>4, GoneTo, EffectsUnmoved
<1>5. CASE /\ GoTo("commit")
           /\ Ask(Service, Committing(
                <<[path |-> job.op.path, content |-> prepared.next,
                   ifAbsent |-> FALSE, expected |-> prepared.expected]>>,
                job.op.id))
  <2>1. job'.pc = "commit" /\ call'[Service].step = "commit"
    BY <1>1, <1>5, GoneTo, Asked DEF Committing
  <2> QED
    BY <1>1, <2>1, EffectsUnmoved
<1> QED
  BY <1>3, <1>4, <1>5 DEF Load

LEMMA EffectsAfterAnswer ==
    ASSUME LandingInv, EffectsAreRequested, CommitReturned \/ CommitConflicted,
           UNCHANGED fsVars
    PROVE  EffectsAreRequested'
<1>1. CommitReturned
  BY CommitNeverConflicts
<1>2. /\ job.pc = "commit" /\ call[Service].step = "committed"
      /\ GoTo("finalize") /\ UNCHANGED <<ledger, files>>
  BY <1>1 DEF CommitReturned, Replied, fsVars
<1>3. job'.pc = "finalize" /\ job'.op = job.op
  BY <1>2, GoneTo
<1> QED
  BY <1>2, <1>3, EffectsUnmoved DEF EffectsAreRequested

\* A provider step of the service's call that moves no file.
LEMMA EffectsAfterProvider ==
    ASSUME LandingInv, EffectsAreRequested, UNCHANGED serviceVars,
           FsRead(Service) \/ FsCheck(Service) \/ FsRecheck(Service)
             \/ FsCommitFails(Service)
    PROVE  EffectsAreRequested'
<1>1. UNCHANGED <<ledger, job, files>>
  BY DEF serviceVars, fsVars, FsRead, FsCheck, FsRecheck, FsCommitFails
<1>2. job.pc = "commit" => call'[Service].step # "committed"
  <2>1. SUFFICES ASSUME job.pc = "commit"
                 PROVE  call'[Service].step # "committed"
    OBVIOUS
  <2>2. ~FsRead(Service)
    BY <2>1, SlotOfJob DEF FsRead
  <2>3. call \in [Caller -> CallState(Collection)] /\ Service \in Caller
    BY ServiceAssumption DEF LandingInv, TypeOK
  <2> QED
    BY <2>2, <2>3 DEF FsCheck, FsRecheck, FsCommitFails, Advance, Reply
<1> QED
  BY <1>1, <1>2, EffectsUnmoved DEF EffectsAreRequested

\* What the last step of a commit does: the prepared bytes replace those the
\* prepared write expects.
LEMMA Renames ==
    ASSUME LandingInv, FsRename(Service)
    PROVE  /\ job.pc = "commit" /\ job.op \in Request
           /\ job.op.id \in OpId /\ job.op.path \in Path
           /\ IsPending(job.op.id) /\ ledger[job.op.id].op = job.op
           /\ ledger[job.op.id].prepared.expected = Bytes(files[job.op.path])
           /\ ledger[job.op.id].prepared.next \in Collection
           /\ files' = [files EXCEPT ![job.op.path] = ledger[job.op.id].prepared.next]
<1> DEFINE op == job.op
           prepared == ledger[op.id].prepared
<1> USE DEF LandingInv, TypeOK
<1>1. /\ job.pc = "commit"
      /\ call[Service] = WriteOf(op, prepared, "renaming")
      /\ prepared.expected = Bytes(files[op.path])
  BY SlotOfJob DEF FsRename
<1>2. /\ op \in Request /\ op.id \in OpId /\ op.path \in Path
      /\ IsPending(op.id) /\ ledger[op.id].op = op
      /\ prepared.next \in Collection
  BY <1>1, JobFields, PendingFields DEF JobMatchesLedger
<1>3. files' = [files EXCEPT ![op.path] = prepared.next]
  <2> DEFINE change == [path |-> op.path, content |-> prepared.next,
                        ifAbsent |-> FALSE, expected |-> prepared.expected]
  <2> HIDE DEF op, prepared
  <2>1. call[Service].changes = <<change>> /\ call[Service].done = 0
    BY <1>1, WriteFields, WriteChanges
  <2>2. call[Service].changes[call[Service].done + 1] = change
    BY <2>1
  <2>3. change.path = op.path /\ change.content = prepared.next
    OBVIOUS
  <2> HIDE DEF change
  <2> QED
    BY <2>2, <2>3 DEF FsRename
<1> QED
  BY <1>1, <1>2, <1>3

LEMMA EffectsAfterRename ==
    ASSUME LandingInv, EffectsAreRequested, FsRename(Service), UNCHANGED serviceVars
    PROVE  EffectsAreRequested'
<1>1. PICK op, next : op = job.op /\ next = ledger[job.op.id].prepared.next
  OBVIOUS
<1>2. /\ job.pc = "commit" /\ op.id \in OpId /\ op.path \in Path
      /\ IsPending(op.id) /\ next \in Collection
      /\ files' = [files EXCEPT ![op.path] = next]
      /\ UNCHANGED <<ledger, job>>
  BY <1>1, Renames DEF serviceVars
<1>3. UniqueIds(next)
  BY <1>1, <1>2 DEF EffectsAreRequested, Applies
<1>4. Bytes(next) = next
  BY <1>2, DistinctAssumption DEF Bytes
<1>5. /\ files'[op.path] = next
      /\ \A p \in Path : p # op.path => files'[p] = files[p]
  BY <1>2 DEF LandingInv, TypeOK
<1>6. \A p \in Path : UniqueIds(Bytes(files'[p]))
  BY <1>3, <1>4, <1>5 DEF EffectsAreRequested
<1>7. \A o \in OpId : IsPending(o)' => Applies(ledger'[o].op, ledger'[o].prepared)
  BY <1>2 DEF EffectsAreRequested, IsPending
<1>8. Bytes(files'[job'.op.path]) = ledger'[job'.op.id].prepared.next
  BY <1>1, <1>2, <1>4, <1>5
<1> QED
  BY <1>6, <1>7, <1>8 DEF EffectsAreRequested, Bytes

\* finalizeCommitted() replaces the prepared write by a status.
LEMMA Finalizes ==
    ASSUME LandingInv, Finalize
    PROVE  /\ job.pc = "finalize" /\ job.op \in Request
           /\ job.op.id \in OpId /\ job.op.path \in Path
           /\ IsPending(job.op.id) /\ ledger[job.op.id].op = job.op
           /\ ledger[job.op.id].prepared \in Prepared
           /\ Committed(ledger[job.op.id].prepared) \in Status
           /\ Save(job.op, Settled(job.op, Committed(ledger[job.op.id].prepared)))
           /\ Finish
<1> USE DEF LandingInv, TypeOK
<1>1. job.pc = "finalize"
  BY DEF Finalize
<1>2. /\ job.op \in Request /\ job.op.id \in OpId /\ job.op.path \in Path
      /\ IsPending(job.op.id) /\ ledger[job.op.id].op = job.op
      /\ ledger[job.op.id].prepared \in Prepared
  BY <1>1, JobFields, PendingFields DEF JobMatchesLedger
<1>3. Committed(ledger[job.op.id].prepared) \in Status
  BY <1>2 DEF Committed, Prepared, Status
<1> QED
  BY <1>1, <1>2, <1>3 DEF Finalize

LEMMA EffectsAfterFinalize ==
    ASSUME LandingInv, EffectsAreRequested, Finalize, UNCHANGED fsVars
    PROVE  EffectsAreRequested'
<1>1. PICK op, status : op = job.op /\ status = Committed(ledger[job.op.id].prepared)
  OBVIOUS
<1>2. op \in Request /\ status \in Status /\ Save(op, Settled(op, status)) /\ Finish
  BY <1>1, Finalizes
<1> QED
  BY <1>2, EffectsAfterSettle DEF fsVars

-----------------------------------------------------------------------------
(***************************************************************************)
(* The service implements the source it promises: each step is one of the  *)
(* source's, or changes nothing the source speaks of.                      *)
(***************************************************************************)
LEMMA SourceFields ==
    /\ \A p \in Path : /\ SourceObjects[p] = ItemsIn(Bytes(files[p]))
                       /\ SpatialPromise!IdsIn(p) = IdsIn(Bytes(files[p]))
    /\ \A o \in OpId :
         /\ SourceRequest[o] = IF ledger[o] = None THEN None ELSE ledger[o].op
         /\ SourceOutcome[o] = IF ledger[o] = None THEN None ELSE ledger[o].status
BY DEF SourceObjects, SourceRequest, SourceOutcome, IdsIn, SpatialPromise!IdsIn

\* An entry that is saved binds its id to its request and its status.
LEMMA SourceAfterSave ==
    ASSUME LandingInv, NEW op \in Request, NEW entry \in Entry, entry.op = op,
           Save(op, entry)
    PROVE  /\ SourceRequest' = [SourceRequest EXCEPT ![op.id] = op]
           /\ SourceOutcome' = [SourceOutcome EXCEPT ![op.id] = entry.status]
<1>1. ServiceTypeOK /\ op.id \in OpId /\ entry # None
  BY RequestFields, DistinctAssumption DEF LandingInv, TypeOK
<1>2. /\ ledger'[op.id] = entry
      /\ \A o \in OpId : o # op.id => ledger'[o] = ledger[o]
  BY <1>1, SaveTyped
<1> QED
  BY <1>1, <1>2 DEF SourceRequest, SourceOutcome

LEMMA ObjectsUnmoved ==
    ASSUME UNCHANGED files
    PROVE  UNCHANGED SourceObjects
BY DEF SourceObjects, Bytes

\* Requests, reads, failures and crashes are not seen by the source.
LEMMA SourceUnmoved ==
    ASSUME UNCHANGED <<ledger, files>>
    PROVE  UNCHANGED SpatialPromise!sourceVars
BY ObjectsUnmoved DEF SpatialPromise!sourceVars, SourceRequest, SourceOutcome

\* The service's terminal statuses are the source's answers.
LEMMA StatusIsAnswer ==
    ASSUME NEW status \in Status
    PROVE  status \in SpatialPromise!SourceAnswer
BY DEF Status, SpatialPromise!SourceAnswer

\* A reason prepare() gives is one the source may give.
LEMMA RefusalIsTrue ==
    ASSUME NEW r \in Request, NEW status,
           Refuses(r, Bytes(files[r.path]), status)
    PROVE  \/ SpatialPromise!ConflictIsTrue(r, status)
           \/ SpatialPromise!RejectedIsTrue(r, status)
<1>1. /\ r.path \in Path
      /\ SourceObjects[r.path] = ItemsIn(Bytes(files[r.path]))
      /\ SpatialPromise!IdsIn(r.path) = IdsIn(Bytes(files[r.path]))
  BY RequestFields, SourceFields
<1>2. SpatialPromise!Item(r.target, r.base) = [id |-> r.target, val |-> r.base]
  BY DEF SpatialPromise!Item
<1>3. CASE /\ status = Conflict("object-exists")
           /\ r.action = "create"
           /\ \E id \in SpatialPromise!IdsFor(r) : id \in IdsIn(Bytes(files[r.path]))
  <2>1. status.state = "conflict" /\ status.type = "object-exists"
    BY <1>3 DEF Conflict
  <2> QED
    BY <1>1, <1>3, <2>1 DEF SpatialPromise!ConflictIsTrue
<1>4. CASE /\ status = Conflict("object-missing")
           /\ r.action # "create"
           /\ r.target \notin IdsIn(Bytes(files[r.path]))
  <2>1. status.state = "conflict" /\ status.type = "object-missing"
    BY <1>4 DEF Conflict
  <2> QED
    BY <1>1, <1>4, <2>1 DEF SpatialPromise!ConflictIsTrue
<1>5. CASE /\ status = Conflict("revision-mismatch")
           /\ r.action # "create"
           /\ r.target \in IdsIn(Bytes(files[r.path]))
           /\ [id |-> r.target, val |-> r.base] \notin ItemsIn(Bytes(files[r.path]))
  <2>1. status.state = "conflict" /\ status.type = "revision-mismatch"
    BY <1>5 DEF Conflict
  <2> QED
    BY <1>1, <1>2, <1>5, <2>1 DEF SpatialPromise!ConflictIsTrue
<1>6. CASE /\ status = Rejected
           /\ {r.target, r.payloadId} \cap {None} = {}
           /\ r.target # r.payloadId
  <2>1. status.state = "rejected"
    BY <1>6 DEF Rejected
  <2> QED
    BY <1>6, <2>1 DEF SpatialPromise!RejectedIsTrue, SpatialPromise!NamesAnother
<1> QED
  BY <1>3, <1>4, <1>5, <1>6 DEF Refuses

\* Saving a true status settles the operation.
LEMMA SettlesSource ==
    ASSUME LandingInv, UNCHANGED files, NEW op \in Request, NEW status \in Status,
           Save(op, Settled(op, status)),
           ledger[op.id] # None => IsPending(op.id) /\ ledger[op.id].op = op,
           \/ ledger[op.id] # None /\ SpatialPromise!CommittedIsTrue(op, status)
           \/ SpatialPromise!ConflictIsTrue(op, status)
           \/ SpatialPromise!RejectedIsTrue(op, status)
    PROVE  SpatialPromise!Settle(op, status)
<1>1. op.id \in OpId
  BY RequestFields
<1>2. SourceRequest[op.id] \in {None, op} /\ SourceOutcome[op.id] = None
  BY <1>1, SourceFields DEF IsPending
<1>3. ledger[op.id] # None => SourceRequest[op.id] = op
  BY <1>1, SourceFields
<1> DEFINE entry == Settled(op, status)
<1>4. entry \in Entry /\ entry.op = op /\ entry.status = status
  BY SettledEntry
<1>5. Save(op, entry)
  OBVIOUS
<1> HIDE DEF entry
<1>6. /\ SourceRequest' = [SourceRequest EXCEPT ![op.id] = op]
      /\ SourceOutcome' = [SourceOutcome EXCEPT ![op.id] = status]
  BY <1>4, <1>5, SourceAfterSave
<1>7. UNCHANGED SourceObjects
  BY ObjectsUnmoved
<1> QED
  BY <1>2, <1>3, <1>6, <1>7 DEF SpatialPromise!Settle

\* An id that the target and the payload of a create allow.
LEMMA MayBeUsed ==
    ASSUME NEW r \in Request, NEW id \in Object,
           {r.target, r.payloadId} \subseteq {id, None}
    PROVE  id \in SpatialPromise!IdsFor(r)
<1>1. CASE r.target # None
  BY <1>1 DEF SpatialPromise!IdsFor
<1>2. CASE r.target = None /\ r.payloadId # None
  BY <1>2 DEF SpatialPromise!IdsFor
<1>3. CASE r.target = None /\ r.payloadId = None
  BY <1>3 DEF SpatialPromise!IdsFor
<1> QED
  BY <1>1, <1>2, <1>3

\* prepare() settles the operation, accepts it, or prepares it anew.
LEMMA PrepareImplements ==
    ASSUME IInv, Prepare, UNCHANGED fsVars
    PROVE  [SpatialPromise!SourceNext]_(SpatialPromise!sourceVars)
<1>1. LandingInv /\ EffectsAreRequested /\ UNCHANGED files
  BY DEF IInv, fsVars
<1>2. /\ job.op \in Request
      /\ ledger[job.op.id] # None =>
           IsPending(job.op.id) /\ ledger[job.op.id].op = job.op
  BY <1>1, Prepares
<1>3. PICK plan :
        /\ Outcome(job.op, Bytes(files[job.op.path]), plan)
        /\ IF IsPrepared(plan)
             THEN Save(job.op, Unsettled(job.op, plan))
             ELSE Save(job.op, Settled(job.op, plan))
  BY <1>1, Prepares
<1>4. PICK op : op = job.op
  OBVIOUS
<1>5. op \in Request /\ op.id \in OpId
  BY <1>2, <1>4, RequestFields
<1>6. CASE ~IsPrepared(plan)
  <2>1. plan \in Status /\ Refuses(op, Bytes(files[op.path]), plan)
    BY <1>3, <1>4, <1>6 DEF Outcome, Refusal
  <2>2. \/ SpatialPromise!ConflictIsTrue(op, plan)
        \/ SpatialPromise!RejectedIsTrue(op, plan)
    BY <1>5, <2>1, RefusalIsTrue
  <2>3. Save(op, Settled(op, plan))
    BY <1>3, <1>4, <1>6
  <2>4. SpatialPromise!Settle(op, plan)
    BY <1>1, <1>2, <1>4, <1>5, <2>1, <2>2, <2>3, SettlesSource
  <2>5. plan \in SpatialPromise!SourceAnswer
    BY <2>1, StatusIsAnswer
  <2> QED
    BY <1>5, <2>4, <2>5 DEF SpatialPromise!SourceNext
<1>7. CASE IsPrepared(plan)
  <2>1. PICK entry : entry = Unsettled(op, plan)
    OBVIOUS
  <2>2. entry \in Entry /\ entry.op = op /\ entry.status = None
    BY <1>3, <1>5, <1>7, <2>1, UnsettledEntry DEF Outcome
  <2>3. Save(op, entry)
    BY <1>3, <1>4, <1>7, <2>1
  <2>4. /\ SourceRequest' = [SourceRequest EXCEPT ![op.id] = op]
        /\ SourceOutcome' = [SourceOutcome EXCEPT ![op.id] = None]
        /\ UNCHANGED SourceObjects
    BY <1>1, <1>5, <2>2, <2>3, SourceAfterSave, ObjectsUnmoved
  <2>5. SourceOutcome[op.id] = None
    BY <1>2, <1>4, <1>5, SourceFields DEF IsPending
  <2>6. UNCHANGED SourceOutcome
    BY <1>5, <2>4, <2>5 DEF SourceOutcome
  <2>7. CASE ledger[op.id] = None
    <3>1. SourceRequest[op.id] = None
      BY <1>5, <2>7, SourceFields
    <3>2. SpatialPromise!Accept(op)
      BY <2>4, <2>6, <3>1 DEF SpatialPromise!Accept
    <3> QED
      BY <1>5, <3>2 DEF SpatialPromise!SourceNext
  <2>8. CASE ledger[op.id] # None
    <3>1. SourceRequest[op.id] = op
      BY <1>2, <1>4, <1>5, <2>8, SourceFields
    <3>2. UNCHANGED SourceRequest
      BY <1>5, <2>4, <3>1 DEF SourceRequest
    <3> QED
      BY <2>4, <2>6, <3>2 DEF SpatialPromise!sourceVars
  <2> QED
    BY <2>7, <2>8
<1> QED
  BY <1>6, <1>7

\* The rename is where the operation takes effect.
LEMMA RenameImplements ==
    ASSUME IInv, FsRename(Service), UNCHANGED serviceVars
    PROVE  SpatialPromise!SourceNext
<1>1. LandingInv /\ EffectsAreRequested /\ UNCHANGED ledger
  BY DEF IInv, serviceVars
<1>2. PICK r, prepared, old, next :
        /\ r = job.op /\ prepared = ledger[job.op.id].prepared
        /\ old = prepared.expected /\ next = prepared.next
  OBVIOUS
<1>3. /\ r \in Request /\ r.id \in OpId /\ r.path \in Path
      /\ IsPending(r.id) /\ ledger[r.id].op = r
      /\ old = Bytes(files[r.path]) /\ next \in Collection
      /\ files' = [files EXCEPT ![r.path] = next]
  BY <1>1, <1>2, Renames
<1>4. Changes(r, old, next)
  BY <1>1, <1>2, <1>3 DEF EffectsAreRequested, Applies
<1>5. SourceRequest[r.id] = r /\ SourceOutcome[r.id] = None
  BY <1>3, SourceFields DEF IsPending
<1>6. UNCHANGED <<SourceRequest, SourceOutcome>>
  BY <1>1 DEF SourceRequest, SourceOutcome
<1>7. /\ SourceObjects[r.path] = ItemsIn(old)
      /\ SpatialPromise!IdsIn(r.path) = IdsIn(old)
  BY <1>3, SourceFields
<1>8. SourceObjects' = [SourceObjects EXCEPT ![r.path] = ItemsIn(next)]
  <2>1. /\ files'[r.path] = next
        /\ \A p \in Path : p # r.path => files'[p] = files[p]
    BY <1>1, <1>3 DEF LandingInv, TypeOK
  <2>2. Bytes(next) = next
    BY <1>3, DistinctAssumption DEF Bytes
  <2>3. SourceObjects' = [p \in Path |-> ItemsIn(Bytes(files'[p]))]
    BY DEF SourceObjects, Bytes
  <2> QED
    <3>1. \A p \in Path : ItemsIn(Bytes(files'[p])) =
                            IF p = r.path THEN ItemsIn(next) ELSE ItemsIn(Bytes(files[p]))
      BY <2>1, <2>2
    <3> QED
      BY <1>3, <2>3, <3>1 DEF SourceObjects
<1>9. /\ SpatialPromise!Item(r.target, r.base) = [id |-> r.target, val |-> r.base]
      /\ SpatialPromise!Item(r.target, r.val) = [id |-> r.target, val |-> r.val]
      /\ \A id : SpatialPromise!Item(id, r.val) = [id |-> id, val |-> r.val]
  BY DEF SpatialPromise!Item
<1>10. r.action \in {"create", "update", "delete"}
  BY <1>3, RequestAssumption DEF Action
<1>11. ~SpatialPromise!NamesAnother(r)
  BY <1>1, <1>2, <1>3 DEF EffectsAreRequested, Applies, SpatialPromise!NamesAnother
<1>12. CASE r.action = "create"
  <2>1. PICK id \in Object \ IdsIn(old) :
          /\ {r.target, r.payloadId} \subseteq {id, None}
          /\ ItemsIn(next) = ItemsIn(old) \union {[id |-> id, val |-> r.val]}
    BY <1>4, <1>12 DEF Changes
  <2>2. id \in SpatialPromise!IdsFor(r)
    BY <1>3, <2>1, MayBeUsed
  <2>3. SourceObjects' =
          [SourceObjects EXCEPT ![r.path] = @ \union {SpatialPromise!Item(id, r.val)}]
    BY <1>7, <1>8, <1>9, <2>1
  <2>4. SpatialPromise!TakeEffect(r)
    BY <1>5, <1>6, <1>7, <1>12, <1>11, <2>1, <2>2, <2>3 DEF SpatialPromise!TakeEffect
  <2> QED
    BY <1>3, <2>4 DEF SpatialPromise!SourceNext
<1>13. CASE r.action \in {"update", "delete"}
  <2>1. /\ SpatialPromise!Item(r.target, r.base) \in SourceObjects[r.path]
        /\ ItemsIn(next) =
             (SourceObjects[r.path] \ {SpatialPromise!Item(r.target, r.base)})
               \union (IF r.action = "update"
                         THEN {SpatialPromise!Item(r.target, r.val)} ELSE {})
    <3>1. CASE r.action = "update"
      BY <1>4, <1>7, <1>9, <3>1 DEF Changes
    <3>2. CASE r.action = "delete"
      BY <1>4, <1>7, <1>9, <3>2 DEF Changes
    <3> QED
      BY <1>13, <3>1, <3>2
  <2>2. SourceObjects' = [SourceObjects EXCEPT ![r.path] =
          (@ \ {SpatialPromise!Item(r.target, r.base)})
            \union (IF r.action = "update"
                      THEN {SpatialPromise!Item(r.target, r.val)} ELSE {})]
    BY <1>8, <2>1
  <2>3. r.action # "create"
    BY <1>13
  <2>4. SpatialPromise!TakeEffect(r)
    BY <1>5, <1>6, <1>11, <2>1, <2>2, <2>3 DEF SpatialPromise!TakeEffect
  <2> QED
    BY <1>3, <2>4 DEF SpatialPromise!SourceNext
<1> QED
  BY <1>10, <1>12, <1>13

\* The status that finalizeCommitted() stores is true of the file.
LEMMA FinalizeImplements ==
    ASSUME IInv, Finalize, UNCHANGED fsVars
    PROVE  SpatialPromise!SourceNext
<1>1. LandingInv /\ EffectsAreRequested /\ UNCHANGED files
  BY DEF IInv, fsVars
<1>2. PICK r, prepared, status :
        /\ r = job.op /\ prepared = ledger[job.op.id].prepared
        /\ status = Committed(prepared)
  OBVIOUS
<1>3. /\ job.pc = "finalize"
      /\ r \in Request /\ r.id \in OpId /\ r.path \in Path
      /\ IsPending(r.id) /\ ledger[r.id].op = r
      /\ status \in Status /\ Save(r, Settled(r, status))
  BY <1>1, <1>2, Finalizes
<1>4. /\ status.state = "source-committed"
      /\ status.obj = prepared.obj /\ status.rev = prepared.rev
  BY <1>2 DEF Committed
<1>5. Applies(r, prepared) /\ Bytes(files[r.path]) = prepared.next
  BY <1>1, <1>2, <1>3 DEF EffectsAreRequested
<1>6. /\ Shows(r, prepared.obj, prepared.rev, prepared.next)
      /\ {r.target, r.payloadId} \subseteq {prepared.obj, None}
      /\ prepared.rev = r.val
  BY <1>5 DEF Applies
<1>7. /\ SourceObjects[r.path] = ItemsIn(prepared.next)
      /\ SpatialPromise!IdsIn(r.path) = IdsIn(prepared.next)
  BY <1>3, <1>5, SourceFields
<1>8. SpatialPromise!CommittedIsTrue(r, status)
  <2>1. CASE r.action = "delete"
    <3>1. r.target # None /\ r.val = None
      BY <1>3, <2>1, NoneAssumption, RequestAssumption
    <3>2. prepared.obj = r.target /\ prepared.obj \notin IdsIn(prepared.next)
      BY <1>6, <2>1, <3>1 DEF Shows
    <3> QED
      BY <1>4, <1>6, <1>7, <2>1, <3>1, <3>2 DEF SpatialPromise!CommittedIsTrue
  <2>2. CASE r.action # "delete"
    <3>1. [id |-> prepared.obj, val |-> r.val] \in ItemsIn(prepared.next)
      BY <1>6, <2>2 DEF Shows
    <3>2. prepared.obj \in SpatialPromise!IdsFor(r)
      <4>1. prepared.obj \in Object
        BY <1>1, <1>2, Finalizes DEF Prepared
      <4> QED
        BY <1>3, <1>6, <4>1, MayBeUsed
    <3> QED
      BY <1>4, <1>6, <1>7, <2>2, <3>1, <3>2
      DEF SpatialPromise!CommittedIsTrue, SpatialPromise!Item
  <2> QED
    BY <2>1, <2>2
<1>9. SpatialPromise!Settle(r, status)
  BY <1>1, <1>3, <1>8, SettlesSource DEF IsPending
<1> QED
  BY <1>3, <1>9, StatusIsAnswer DEF SpatialPromise!SourceNext

-----------------------------------------------------------------------------
(***************************************************************************)
(* The theorems.                                                           *)
(***************************************************************************)
LEMMA InitEstablishes ==
    ASSUME Init
    PROVE  IInv
<1> USE DEF Init, ProviderInit, ServiceInit, FsInit
<1>1. TypeOK
  <2>1. call \in [Caller -> CallState(Collection)]
    BY SlotTyped
  <2>2. landed \in Seq(OpId \X Path)
    BY EmptySeq
  <2>3. files \in [Path -> Collection \union {Absent}]
    BY InitialFilesAssumption
  <2>4. faults \in FaultHistory
    BY DEF FaultHistory, NoFaults
  <2> QED
    BY <2>1, <2>2, <2>3, <2>4 DEF TypeOK, ServiceTypeOK, Job
<1>2. JobMatchesLedger /\ CallMatchesFiles
  BY ServiceAssumption DEF JobMatchesLedger, CallMatchesFiles
<1>3. RecoverableUntilOvertaken /\ RefusedOnlyIfOvertaken /\ NoRepeatUntilOvertaken
  BY DEF RecoverableUntilOvertaken, RefusedOnlyIfOvertaken, NoRepeatUntilOvertaken,
         IsPending, IsSettled
<1>4. EffectsAreRequested
  BY InitialFilesAssumption DEF EffectsAreRequested, IsPending
<1> QED
  BY <1>1, <1>2, <1>3, <1>4 DEF IInv, LandingInv

\* Every step of the service, its provider and its process keeps what the
\* properties of the landed writes rest on.
LEMMA LandingsKept ==
    ASSUME IInv, [Next]_vars
    PROVE  LandingInv'
<1> USE DEF IInv
<1>1. CASE ServiceStep /\ UNCHANGED fsVars
  BY <1>1, SubmitPreserves, ResumePreserves, PreparePreserves, LoadPreserves,
     CommitReturnedPreserves, CommitNeverConflicts, FinalizePreserves,
     RequestFailsPreserves, LedgerWriteFailsPreserves
  DEF ServiceStep, ClientStep, HandlerStep
<1>2. CASE FsStep(Service) /\ UNCHANGED serviceVars
  BY <1>2, FsReadPreserves, FsCheckPreserves, FsRecheckPreserves,
     FsRenamePreserves, FsCommitFailsPreserves DEF FsStep
<1>3. CASE Crash
  BY <1>3, CrashPreserves
<1>4. CASE UNCHANGED vars
  BY <1>4, SafetyUnmoved
  DEF vars, serviceVars, fsVars, LandingInv, TypeOK, ServiceTypeOK, JobMatchesLedger,
      CallMatchesFiles, IsPending, Overtaken, Bytes
<1> QED
  BY <1>1, <1>2, <1>3, <1>4 DEF Next

\* The steps that write neither the ledger nor a file.
QuietStep ==
    \/ \E r \in Request : Submit(r) \/ Resume(r)
    \/ Load \/ CommitReturned \/ CommitConflicted
    \/ RequestFails \/ LedgerWriteFails

LEMMA EffectsAfterQuiet ==
    ASSUME IInv, QuietStep, UNCHANGED fsVars
    PROVE  EffectsAreRequested' /\ UNCHANGED <<ledger, files>>
<1> USE DEF IInv
<1>1. UNCHANGED <<ledger, files>>
  BY DEF QuietStep, Submit, Resume, Load, CommitReturned, CommitConflicted,
         RequestFails, LedgerWriteFails, fsVars
<1>2. CASE \E r \in Request : Submit(r) \/ Resume(r)
  BY <1>1, <1>2, EffectsAfterSubmit
<1>3. CASE Load
  BY <1>1, <1>3, EffectsAfterLoad
<1>4. CASE CommitReturned \/ CommitConflicted
  BY <1>1, <1>4, EffectsAfterAnswer
<1>5. CASE RequestFails \/ LedgerWriteFails
  BY <1>1, <1>5, EffectsAfterFinish DEF RequestFails, LedgerWriteFails
<1> QED
  BY <1>1, <1>2, <1>3, <1>4, <1>5 DEF QuietStep

\* Every step keeps that what is written is what was asked for.
LEMMA EffectsKept ==
    ASSUME IInv, [Next]_vars
    PROVE  EffectsAreRequested'
<1> USE DEF IInv
<1>1. CASE ServiceStep /\ UNCHANGED fsVars
  BY <1>1, EffectsAfterQuiet, EffectsAfterPrepare, EffectsAfterFinalize
  DEF ServiceStep, ClientStep, HandlerStep, QuietStep
<1>2. CASE FsStep(Service) /\ UNCHANGED serviceVars
  BY <1>2, EffectsAfterProvider, EffectsAfterRename DEF FsStep
<1>3. CASE Crash
  BY <1>3, EffectsAfterFinish DEF Crash, fsVars
<1>4. CASE UNCHANGED vars
  BY <1>4 DEF vars, serviceVars, fsVars, EffectsAreRequested, IsPending, Bytes
<1> QED
  BY <1>1, <1>2, <1>3, <1>4 DEF Next

\* The inductive invariant is one.
THEOREM StepPreserves ==
    ASSUME IInv, [Next]_vars
    PROVE  IInv'
BY LandingsKept, EffectsKept DEF IInv

\* IInv is an invariant of the specification.
THEOREM Invariance == Spec => []IInv
<1>1. Init => IInv
  BY InitEstablishes
<1>2. IInv /\ [Next]_vars => IInv'
  BY StepPreserves
<1> QED
  BY <1>1, <1>2, PTL DEF Spec

\* Ledger, request, provider call, files and history have their types.
THEOREM TypeCorrectness == Spec => []TypeOK
BY Invariance, PTL DEF IInv, LandingInv

\* After any sequence of crashes, I/O errors and retries, a pending operation
\* that landed last on its collection is recognised by the bytes it left.
THEOREM Recoverability == Spec => []RecoverableUntilOvertaken
BY Invariance, PTL DEF IInv, LandingInv

\* No operation is applied again unless another one was applied in between.
THEOREM NoRepetition == Spec => []NoRepeatUntilOvertaken
BY Invariance, PTL DEF IInv, LandingInv

\* No operation that was applied is refused unless another was applied since.
THEOREM NoFalseRefusal == Spec => []RefusedOnlyIfOvertaken
BY Invariance, PTL DEF IInv, LandingInv

\* With the spatial write service the only writer of the collections, the
\* provider never answers one of its commits with a conflict.
THEOREM CommitsNeverConflict == Spec => []~Replied("conflict")
<1>1. IInv => ~Replied("conflict")
  BY CommitNeverConflicts DEF IInv
<1> QED
  BY <1>1, Invariance, PTL

\* The collections and the ledger at the start are the source's.
LEMMA InitImplements ==
    ASSUME Init
    PROVE  SpatialPromise!SourceInit
<1>1. files = InitialFiles /\ \A o \in OpId : ledger[o] = None
  BY DEF Init, FsInit, ServiceInit
<1>2. SourceObjects = InitialObjects
  BY <1>1 DEF SourceObjects, InitialObjects
<1>3. SourceRequest = [o \in OpId |-> None] /\ SourceOutcome = [o \in OpId |-> None]
  BY <1>1 DEF SourceRequest, SourceOutcome
<1> QED
  BY <1>2, <1>3 DEF SpatialPromise!SourceInit

\* Each step is a step of the source, or one that it does not see.
LEMMA StepImplements ==
    ASSUME IInv, [Next]_vars
    PROVE  [SpatialPromise!SourceNext]_(SpatialPromise!sourceVars)
<1>1. CASE ServiceStep /\ UNCHANGED fsVars
  BY <1>1, EffectsAfterQuiet, SourceUnmoved, PrepareImplements, FinalizeImplements
  DEF ServiceStep, ClientStep, HandlerStep, QuietStep
<1>2. CASE FsStep(Service) /\ UNCHANGED serviceVars
  <2>1. CASE FsRename(Service)
    BY <1>2, <2>1, RenameImplements
  <2>2. CASE ~FsRename(Service)
    <3>1. UNCHANGED <<ledger, files>>
      BY <1>2, <2>2 DEF FsStep, FsRead, FsCheck, FsRecheck, FsCommitFails,
                        fsVars, serviceVars
    <3> QED
      BY <3>1, SourceUnmoved
  <2> QED
    BY <2>1, <2>2
<1>3. CASE Crash
  BY <1>3, SourceUnmoved DEF Crash, fsVars
<1>4. CASE UNCHANGED vars
  BY <1>4, SourceUnmoved DEF vars, serviceVars, fsVars
<1> QED
  BY <1>1, <1>2, <1>3, <1>4 DEF Next

\* Through any crashes, I/O errors and retries an operation id stands for one
\* request, takes effect only as the change that it asks for and on the
\* revision that it names, and is settled once, by an answer that is true of
\* the collection at that moment.
THEOREM SourceImplemented == Spec => ImplementsSource
<1>1. Init => SpatialPromise!SourceInit
  BY InitImplements
<1>2. IInv /\ [Next]_vars => [SpatialPromise!SourceNext]_(SpatialPromise!sourceVars)
  BY StepImplements
<1> QED
  BY <1>1, <1>2, Invariance, PTL
  DEF Spec, ImplementsSource, SpatialPromise!SourceSpec
=============================================================================
