-------------------------- MODULE Curation_proofs --------------------------
(***************************************************************************)
(* Proofs about Curation, for any number of uploads, artifacts,            *)
(* candidates, slots, writes and faults: what is committed under an        *)
(* artifact id is whole, an upload stays the same artifact, what is        *)
(* promoted is what was reviewed, and what is in a snapshot was there.     *)
(***************************************************************************)
EXTENDS Curation, SequenceTheorems, TLAPS

-----------------------------------------------------------------------------
(***************************************************************************)
(* Shapes of the records.                                                  *)
(***************************************************************************)
ReadingPc == {"look", "find", "again", "reload", "verify"}
QuietPc == {"check", "write", "finish", "touch", "close", "clear"}
PartPc == {"find", "store", "again"}
WorkingPc == ReadingPc \union QuietPc \union PartPc

LEMMA PartsAre == DOMAIN Parts = {1, 2} /\ Parts[1] = "content" /\ Parts[2] = "metadata" /\ Len(Parts) = 2
BY DEF Parts

\* What the fields of a transfer are, by the point it has reached.
LEMMA TransferFields ==
    ASSUME NEW t \in Transfer
    PROVE  /\ t.pc \in {"idle", "mint"} \union WorkingPc
           /\ t.pc # "idle" => t.upload \in Upload
           /\ t.pc = "mint" => t.description \in Description
           /\ t.pc \in WorkingPc => t.session \in Session
           /\ t.pc \in PartPc => t.part \in {1, 2} /\ t.content \in Content \union {Torn}
BY PartsAre DEF Transfer, WorkingPc, ReadingPc, QuietPc, PartPc

LEMMA TransferShapes ==
    /\ [pc |-> "idle"] \in Transfer
    /\ \A u \in Upload, d \in Description :
         [pc |-> "mint", upload |-> u, description |-> d] \in Transfer
    /\ \A u \in Upload, s \in Session, p \in (WorkingPc \ PartPc) :
         [pc |-> p, upload |-> u, session |-> s] \in Transfer
    /\ \A u \in Upload, s \in Session, p \in PartPc, i \in {1, 2}, c \in Content \union {Torn} :
         [pc |-> p, upload |-> u, session |-> s, part |-> i, content |-> c] \in Transfer
BY PartsAre DEF Transfer, WorkingPc, ReadingPc, QuietPc, PartPc

\* A part that is looked for, stored or looked for again stays that part.
LEMMA PartGoesOn ==
    ASSUME NEW t \in Transfer, t.pc \in PartPc, NEW p \in PartPc
    PROVE  /\ [t EXCEPT !.pc = p] \in Transfer
           /\ [t EXCEPT !.pc = p].pc = p
           /\ [t EXCEPT !.pc = p].upload = t.upload
           /\ [t EXCEPT !.pc = p].session = t.session
           /\ [t EXCEPT !.pc = p].part = t.part
           /\ [t EXCEPT !.pc = p].content = t.content
BY PartsAre DEF Transfer, PartPc

\* What the files of artifacts hold.
Data == Content \union {Torn} \union UNION {MetadataOf(s) : s \in Session}
Calls == CallState(Data)

\* What the fields of a repository call are.
LEMMA CallFields ==
    ASSUME NEW c \in Calls
    PROVE  /\ c.step \in {"idle", "committed", "conflict", "failed", "read", "data", "commit",
                          "staged", "renaming", "push", "recover"}
           /\ c.step = "read" => c.path \in Path
           /\ c.step = "data" => c.content \in Data \union {Absent}
           /\ c.step \in {"commit", "staged", "renaming"} =>
                c.changes \in Seq(Change(Data)) /\ c.tag \in Tag /\ c.done \in Nat
BY DEF Calls, CallState

LEMMA CallShapes ==
    /\ \A p \in {"idle", "committed", "conflict", "failed"} : [step |-> p] \in Calls
    /\ Idle \in Calls
    /\ \A path \in Path : Reading(path) \in Calls
    /\ \A d \in Data \union {Absent} : [step |-> "data", content |-> d] \in Calls
    /\ \A p \in {"commit", "staged", "renaming"}, c \in Seq(Change(Data)), a \in Tag, n \in Nat :
         [step |-> p, changes |-> c, tag |-> a, done |-> n] \in Calls
BY DEF Calls, CallState, Idle, Reading

LEMMA ArtifactPaths ==
    \A a \in Artifact : <<a, "content">> \in Path /\ <<a, "metadata">> \in Path
BY PathAssumption

-----------------------------------------------------------------------------
(***************************************************************************)
(* The invariant of the uploads.                                           *)
(***************************************************************************)
StoreTyped == files \in [Path -> Data \union {Absent}] /\ call \in [Slot -> Calls]

\* A session that is stored, or that a handler holds a copy of.
InUse(s) ==
    \/ \E u \in Upload : session[u] = s
    \/ \E k \in Slot : transfer[k].pc \in WorkingPc /\ transfer[k].session = s

ContentFile(a) == files[<<a, "content">>]
MetadataFile(a) == files[<<a, "metadata">>]

\* An artifact id belongs to one session, and its files are that session's.
SessionsOK ==
    /\ \A s, t \in Session : InUse(s) /\ InUse(t) /\ s.artifact = t.artifact => s = t
    /\ \A s \in Session : InUse(s) =>
         /\ s.artifact \in minted
         /\ ContentFile(s.artifact) \in {Absent, Declares[s.description]}
         /\ MetadataFile(s.artifact) \in {Absent} \union MetadataOf(s)
    /\ \A a \in Artifact \ minted : ContentFile(a) = Absent /\ MetadataFile(a) = Absent

\* What a slot reads: what it found there, or put there, stays there.
ReadPath(k) ==
    IF transfer[k].pc \in PartPc THEN PartPath(k)
    ELSE <<transfer[k].session.artifact,
           IF transfer[k].pc = "verify" THEN "content" ELSE "metadata">>

ReadOK(k) ==
    transfer[k].pc \in ReadingPc =>
      \/ call[k] = Reading(ReadPath(k))
      \/ call[k].step = "failed"
      \/ /\ call[k].step = "data"
         /\ call[k].content # Absent => files[ReadPath(k)] # Absent

StoreOK(k) ==
    transfer[k].pc = "store" =>
      \/ /\ call[k].step \in {"commit", "staged", "renaming"}
         /\ call[k].changes = <<NewFile(k)>>
         /\ call[k].done = 0
      \/ call[k].step \in {"conflict", "failed"}
      \/ call[k].step = "committed" /\ files[PartPath(k)] # Absent

\* The metadata is stored, or looked for, only when the content is there.
PartOK(k) ==
    transfer[k].pc \in PartPc =>
      /\ transfer[k].content = Wanted(k)
      /\ transfer[k].part = 2 => ContentFile(transfer[k].session.artifact) = Wanted(k)

SlotOK(k) ==
    /\ ReadOK(k)
    /\ StoreOK(k)
    /\ PartOK(k)
    /\ transfer[k].pc \in {"idle", "mint"} \union QuietPc => call[k] = Idle
    /\ transfer[k].pc = "verify" => MetadataFile(transfer[k].session.artifact) # Absent

\* As long as no two creations of an upload overlap, it has one session.
OneSession ==
    \A u \in Upload \ raced :
      /\ \A k \in Slot : transfer[k].pc \in WorkingPc /\ transfer[k].upload = u =>
           session[u] = transfer[k].session
      /\ \A k \in Slot : On(k, "mint") /\ transfer[k].upload = u =>
           /\ session[u] = None
           /\ \A j \in Slot \ {k} : ~(On(j, "mint") /\ transfer[j].upload = u)
      /\ \A x \in acked : x[1] = u => session[u] # None /\ session[u].artifact = x[2]

AckedOK == \A x \in acked : MetadataFile(x[2]) # Absent

UInv ==
    /\ ArtifactTypeOK
    /\ StoreTyped
    /\ SessionsOK
    /\ \A k \in Slot : SlotOK(k)
    /\ OneSession
    /\ AckedOK
    /\ ArtifactsAreWhole

-----------------------------------------------------------------------------
(***************************************************************************)
(* Steps of a handler that leave the repository as it is.                  *)
(***************************************************************************)
\* Slot k goes on with its own upload, begins one that is known, or is free;
\* its session may be written back, and its commit answered.
GoesOn(k) ==
    /\ \A j \in Slot \ {k} : transfer'[j] = transfer[j] /\ call'[j] = call[j]
    /\ transfer' \in [Slot -> Transfer]
    /\ call' \in [Slot -> Calls]
    /\ staged' \in [Upload -> Content \union {Torn, Absent}]
    /\ \/ transfer'[k].pc = "idle"
       \/ /\ transfer'[k].pc \in WorkingPc
          /\ \/ /\ transfer[k].pc \in WorkingPc
                /\ transfer'[k].upload = transfer[k].upload
                /\ transfer'[k].session = transfer[k].session
             \/ session[transfer'[k].upload] = transfer'[k].session
    /\ \/ session' = session
       \/ transfer[k].pc \in WorkingPc /\ WriteBack(k)
    /\ \/ acked' = acked
       \/ /\ On(k, "verify")
          /\ acked' = acked \union {<<transfer[k].upload, transfer[k].session.artifact>>}
    /\ UNCHANGED <<files, minted, raced>>

\* Then no session comes into use that was not.
LEMMA SessionsInUse ==
    ASSUME UInv, NEW k \in Slot, GoesOn(k), NEW s \in Session, InUse(s)'
    PROVE  InUse(s)
<1>0. /\ session \in [Upload -> Session \union {None}]
      /\ transfer \in [Slot -> Transfer]
      /\ transfer[k] \in Transfer /\ transfer'[k] \in Transfer
  BY DEF UInv, ArtifactTypeOK, GoesOn
<1>1. CASE \E u \in Upload : session'[u] = s
  <2>1. PICK u \in Upload : session'[u] = s
    BY <1>1
  <2>2. CASE session'[u] = session[u]
    BY <2>1, <2>2 DEF InUse
  <2>3. CASE session'[u] # session[u]
    <3>1. transfer[k].pc \in WorkingPc /\ session'[u] = transfer[k].session
      BY <1>0, <2>3, TransferFields DEF GoesOn, WriteBack
    <3> QED
      BY <2>1, <3>1 DEF InUse
  <2> QED
    BY <2>2, <2>3
<1>2. CASE \E j \in Slot : transfer'[j].pc \in WorkingPc /\ transfer'[j].session = s
  <2>1. PICK j \in Slot : transfer'[j].pc \in WorkingPc /\ transfer'[j].session = s
    BY <1>2
  <2>2. CASE j # k
    BY <2>1, <2>2 DEF InUse, GoesOn
  <2>3. CASE j = k
    <3>1. transfer'[k].pc # "idle" /\ transfer'[k].upload \in Upload
      BY <1>0, <2>1, <2>3, TransferFields DEF WorkingPc, ReadingPc, QuietPc, PartPc
    <3> QED
      BY <2>1, <2>3, <3>1 DEF InUse, GoesOn
  <2> QED
    BY <2>2, <2>3
<1> QED
  BY <1>1, <1>2 DEF InUse

\* The content of an artifact is never changed once it is there; its metadata may
\* be replaced by that of another commit of the same session, at another time.
FilesStay ==
    \A a \in Artifact :
      /\ ContentFile(a) # Absent => ContentFile(a)' = ContentFile(a)
      /\ MetadataFile(a) # Absent =>
           \/ MetadataFile(a)' = MetadataFile(a)
           \/ \E s \in Session : {MetadataFile(a), MetadataFile(a)'} \subseteq MetadataOf(s)

\* So what another slot relies on is not disturbed: a file that is there stays.
LEMMA ThereStays ==
    ASSUME FilesStay, NEW a \in Artifact
    PROVE  /\ ContentFile(a) # Absent => ContentFile(a)' # Absent
           /\ MetadataFile(a) # Absent => MetadataFile(a)' # Absent
BY SessionAssumption DEF FilesStay

\* A committed artifact stays committed, with the same declaration.
LEMMA ReadyStays ==
    ASSUME FilesStay, NEW a \in Artifact, NEW d \in Description, IsReadyAs(a, d)
    PROVE  IsReadyAs(a, d)'
<1> DEFINE t == [artifact |-> a, description |-> d]
<1>1. MetadataFile(a) \in MetadataOf(t) /\ ContentFile(a) = Declares[d]
  BY DEF IsReadyAs, MetadataFile, ContentFile
<1>2. t \in Session /\ Declares[d] # Absent
  BY DeclaresAssumption, ArtifactNoneAssumption DEF Session
<1>3. MetadataFile(a) # Absent /\ ContentFile(a) # Absent
  BY <1>1, <1>2, SessionAssumption
<1>4. MetadataFile(a)' \in MetadataOf(t)
  <2>1. \A s \in Session : MetadataFile(a) \in MetadataOf(s) => s = t
    BY <1>1 DEF MetadataOf
  <2> QED
    BY <1>1, <1>3, <2>1 DEF FilesStay
<1>5. ContentFile(a)' = Declares[d]
  BY <1>1, <1>3 DEF FilesStay
<1> QED
  BY <1>4, <1>5 DEF IsReadyAs, MetadataFile, ContentFile

LEMMA OthersStay ==
    ASSUME UInv, FilesStay, NEW j \in Slot, transfer'[j] = transfer[j], call'[j] = call[j]
    PROVE  SlotOK(j)'
<1> DEFINE t == transfer[j]
<1>0. t \in Transfer /\ SlotOK(j) /\ t.pc \in {"idle", "mint"} \union WorkingPc
  BY TransferFields DEF UInv, ArtifactTypeOK
<1>1. CASE t.pc \notin WorkingPc
  BY <1>0, <1>1 DEF SlotOK, ReadOK, StoreOK, PartOK, WorkingPc, ReadingPc, QuietPc, PartPc
<1>2. CASE t.pc \in WorkingPc
  <2>1. t.session \in Session /\ t.session.artifact \in Artifact
        /\ t.session.description \in Description
    BY <1>0, <1>2, TransferFields DEF Session
  <2>2. Wanted(j) \in Content /\ Wanted(j) # Absent
    BY <2>1, DeclaresAssumption, ArtifactNoneAssumption DEF Wanted
  <2>3. t.pc \in PartPc => t.part \in {1, 2}
    BY <1>0, TransferFields
  <2>4. /\ files[ReadPath(j)] # Absent => files'[ReadPath(j)] # Absent
        /\ t.pc \in PartPc /\ files[PartPath(j)] # Absent => files'[PartPath(j)] # Absent
    BY <2>1, <2>3, PartsAre, ThereStays DEF ReadPath, PartPath, ContentFile, MetadataFile
  <2>5. /\ Wanted(j)' = Wanted(j) /\ PartPath(j)' = PartPath(j) /\ ReadPath(j)' = ReadPath(j)
        /\ NewFile(j)' = NewFile(j)
    BY DEF Wanted, PartPath, ReadPath, StoresContent, NewFile
  <2>6. ReadOK(j)'
    BY <1>0, <2>4, <2>5 DEF SlotOK, ReadOK
  <2>7. StoreOK(j)'
    BY <1>0, <2>4, <2>5 DEF SlotOK, StoreOK, PartPc
  <2>8. PartOK(j)'
    BY <1>0, <2>1, <2>2, <2>5 DEF SlotOK, PartOK, FilesStay, ContentFile
  <2>9. transfer'[j].pc = "verify" => MetadataFile(transfer[j].session.artifact)' # Absent
    BY <1>0, <2>1, ThereStays DEF SlotOK
  <2> QED
    BY <1>0, <2>6, <2>7, <2>8, <2>9 DEF SlotOK, MetadataFile
<1> QED
  BY <1>1, <1>2

LEMMA GoingOn ==
    ASSUME UInv, NEW k \in Slot, GoesOn(k), SlotOK(k)'
    PROVE  UInv'
<1>0. /\ session \in [Upload -> Session \union {None}]
      /\ transfer \in [Slot -> Transfer] /\ transfer' \in [Slot -> Transfer]
      /\ transfer[k] \in Transfer /\ transfer'[k] \in Transfer
      /\ acked \subseteq Upload \X Artifact
      /\ files' = files /\ minted' = minted /\ raced' = raced
  BY DEF UInv, ArtifactTypeOK, GoesOn
<1>1. transfer[k].pc \in WorkingPc =>
        /\ transfer[k].upload \in Upload /\ transfer[k].session \in Session
        /\ transfer[k].session.artifact \in Artifact
  BY <1>0, TransferFields DEF Session, WorkingPc, ReadingPc, QuietPc, PartPc
<1>2. On(k, "verify") => transfer[k].pc \in WorkingPc
  BY DEF On, WorkingPc, ReadingPc
<1>3. ArtifactTypeOK'
  <2>1. session' \in [Upload -> Session \union {None}]
    BY <1>0, <1>1 DEF GoesOn, WriteBack
  <2>2. acked' \subseteq Upload \X Artifact
    BY <1>0, <1>1, <1>2 DEF GoesOn
  <2> QED
    BY <1>0, <2>1, <2>2 DEF ArtifactTypeOK, GoesOn, UInv
<1>4. StoreTyped'
  BY <1>0 DEF StoreTyped, GoesOn, UInv
<1>5. SessionsOK'
  BY <1>0, SessionsInUse DEF UInv, SessionsOK, ContentFile, MetadataFile
<1>6. \A j \in Slot : SlotOK(j)'
  <2>1. FilesStay
    BY <1>0 DEF FilesStay, ContentFile, MetadataFile
  <2> QED
    BY <2>1, OthersStay DEF GoesOn
<1>7. OneSession'
  <2> SUFFICES ASSUME NEW u \in Upload \ raced
               PROVE  /\ \A j \in Slot : transfer'[j].pc \in WorkingPc /\ transfer'[j].upload = u =>
                           session'[u] = transfer'[j].session
                      /\ \A j \in Slot : transfer'[j].pc = "mint" /\ transfer'[j].upload = u =>
                           /\ session'[u] = None
                           /\ \A i \in Slot \ {j} :
                                ~(transfer'[i].pc = "mint" /\ transfer'[i].upload = u)
                      /\ \A x \in acked' : x[1] = u =>
                           session'[u] # None /\ session'[u].artifact = x[2]
    BY <1>0 DEF OneSession, On
  <2>1. session'[u] = session[u]
    BY <1>0, <1>1 DEF UInv, OneSession, GoesOn, WriteBack
  <2>2. ASSUME NEW j \in Slot, transfer'[j].pc \in WorkingPc, transfer'[j].upload = u
        PROVE  session'[u] = transfer'[j].session
    <3>1. CASE j # k
      BY <2>1, <2>2, <3>1 DEF UInv, OneSession, GoesOn
    <3>2. CASE j = k
      BY <2>1, <2>2, <3>2 DEF UInv, OneSession, GoesOn, WorkingPc, ReadingPc, QuietPc, PartPc
    <3> QED
      BY <3>1, <3>2
  <2>3. transfer'[k].pc # "mint"
    BY DEF GoesOn, WorkingPc, ReadingPc, QuietPc, PartPc
  <2>4. ASSUME NEW j \in Slot, transfer'[j].pc = "mint", transfer'[j].upload = u
        PROVE  /\ session'[u] = None
               /\ \A i \in Slot \ {j} :
                    ~(transfer'[i].pc = "mint" /\ transfer'[i].upload = u)
    <3>1. j # k /\ transfer[j].pc = "mint" /\ transfer[j].upload = u
      BY <2>3, <2>4 DEF GoesOn
    <3>2. session[u] = None
          /\ \A i \in Slot \ {j} : ~(transfer[i].pc = "mint" /\ transfer[i].upload = u)
      BY <3>1 DEF UInv, OneSession, On
    <3> QED
      BY <2>1, <2>3, <3>2 DEF GoesOn
  <2>5. ASSUME NEW x \in acked', x[1] = u
        PROVE  session'[u] # None /\ session'[u].artifact = x[2]
    <3>1. CASE x \in acked
      BY <2>1, <2>5, <3>1 DEF UInv, OneSession
    <3>2. CASE x \notin acked
      <4>1. On(k, "verify") /\ x = <<transfer[k].upload, transfer[k].session.artifact>>
        BY <2>5, <3>2 DEF GoesOn
      <4>2. session[u] = transfer[k].session
        BY <1>2, <2>5, <4>1 DEF UInv, OneSession
      <4> QED
        BY <1>1, <1>2, <2>1, <4>1, <4>2, SessionAssumption
    <3> QED
      BY <3>1, <3>2
  <2> QED
    BY <2>2, <2>4, <2>5
<1>8. AckedOK'
  <2> SUFFICES ASSUME NEW x \in acked' PROVE MetadataFile(x[2]) # Absent
    BY <1>0 DEF AckedOK, MetadataFile
  <2>1. CASE x \in acked
    BY <2>1 DEF UInv, AckedOK
  <2>2. CASE x \notin acked
    <3>1. On(k, "verify") /\ x = <<transfer[k].upload, transfer[k].session.artifact>>
      BY <2>2 DEF GoesOn
    <3>2. MetadataFile(transfer[k].session.artifact) # Absent
      BY <3>1 DEF UInv, SlotOK, On
    <3> QED
      BY <3>1, <3>2
  <2> QED
    BY <2>1, <2>2
<1>9. ArtifactsAreWhole'
  BY <1>0 DEF UInv, ArtifactsAreWhole, IsReady, IsReadyAs
<1> QED
  BY <1>3, <1>4, <1>5, <1>6, <1>7, <1>8, <1>9 DEF UInv

\* The two variables a step of slot k sets.
LEMMA GoTyped ==
    ASSUME UInv, NEW k \in Slot, NEW t \in Transfer, Go(k, t)
    PROVE  /\ transfer' \in [Slot -> Transfer] /\ transfer'[k] = t
           /\ \A j \in Slot \ {k} : transfer'[j] = transfer[j]
BY DEF UInv, ArtifactTypeOK, Go

LEMMA AskTyped ==
    ASSUME UInv, NEW k \in Slot, NEW c \in Calls, call' = [call EXCEPT ![k] = c]
    PROVE  /\ call' \in [Slot -> Calls] /\ call'[k] = c
           /\ \A j \in Slot \ {k} : call'[j] = call[j]
BY DEF UInv, StoreTyped

\* A slot that asks nothing of the repository, and one that reads.
LEMMA QuietSlot ==
    ASSUME NEW k \in Slot, transfer'[k].pc \in {"idle", "mint"} \union QuietPc, call'[k] = Idle
    PROVE  SlotOK(k)'
BY DEF SlotOK, ReadOK, StoreOK, PartOK, QuietPc, ReadingPc, PartPc

LEMMA ReadingSlot ==
    ASSUME NEW k \in Slot, transfer'[k].pc \in ReadingPc, call'[k] = Reading(ReadPath(k)'),
           PartOK(k)',
           transfer'[k].pc = "verify" =>
             (MetadataFile(transfer[k].session.artifact) # Absent)'
    PROVE  SlotOK(k)'
BY DEF SlotOK, ReadOK, StoreOK, QuietPc, ReadingPc, MetadataFile

\* What a handler at work knows.
LEMMA AtWork ==
    ASSUME UInv, NEW k \in Slot, transfer[k].pc \in WorkingPc
    PROVE  /\ transfer[k] \in Transfer
           /\ transfer[k].upload \in Upload
           /\ transfer[k].session \in Session
           /\ transfer[k].session.artifact \in Artifact
           /\ transfer[k].session.description \in Description
           /\ transfer[k].session = [artifact |-> transfer[k].session.artifact,
                                     description |-> transfer[k].session.description]
           /\ Wanted(k) \in Content /\ Wanted(k) # Absent
           /\ InUse(transfer[k].session)
           /\ transfer[k].pc \in PartPc =>
                /\ transfer[k].part \in {1, 2} /\ transfer[k].content \in Content
                /\ PartPath(k) \in Path
           /\ call[k] \in Calls
           /\ SlotOK(k)
<1>1. transfer[k] \in Transfer /\ call[k] \in Calls /\ SlotOK(k)
  BY DEF UInv, ArtifactTypeOK, StoreTyped
<1>2. transfer[k].upload \in Upload /\ transfer[k].session \in Session
  BY <1>1, TransferFields DEF WorkingPc, ReadingPc, QuietPc, PartPc
<1>3. /\ transfer[k].session.artifact \in Artifact
      /\ transfer[k].session.description \in Description
      /\ transfer[k].session = [artifact |-> transfer[k].session.artifact,
                                description |-> transfer[k].session.description]
  BY <1>2 DEF Session
<1>4. Wanted(k) \in Content /\ Wanted(k) # Absent
  BY <1>3, DeclaresAssumption, ArtifactNoneAssumption DEF Wanted
<1>5. InUse(transfer[k].session)
  BY DEF InUse
<1>6. ASSUME transfer[k].pc \in PartPc
      PROVE  /\ transfer[k].part \in {1, 2} /\ transfer[k].content \in Content
             /\ PartPath(k) \in Path
  <2>1. transfer[k].part \in {1, 2} /\ transfer[k].content = Wanted(k)
    BY <1>1, <1>6, TransferFields DEF SlotOK, PartOK
  <2> QED
    BY <1>3, <1>4, <2>1, PartsAre, ArtifactPaths DEF PartPath
<1> QED
  BY <1>1, <1>2, <1>3, <1>4, <1>5, <1>6

\* A handler that returns, and one that goes on without the repository.
LEMMA Ends ==
    ASSUME UInv, NEW k \in Slot, End(k), Release(k) \/ (call' = call /\ call[k] = Idle)
    PROVE  /\ transfer' \in [Slot -> Transfer] /\ call' \in [Slot -> Calls]
           /\ \A j \in Slot \ {k} : transfer'[j] = transfer[j] /\ call'[j] = call[j]
           /\ transfer'[k].pc = "idle"
           /\ SlotOK(k)'
<1>1. /\ transfer' \in [Slot -> Transfer] /\ transfer'[k] = [pc |-> "idle"]
      /\ \A j \in Slot \ {k} : transfer'[j] = transfer[j]
  BY GoTyped, TransferShapes DEF End
<1>2. /\ call' \in [Slot -> Calls] /\ call'[k] = Idle
      /\ \A j \in Slot \ {k} : call'[j] = call[j]
  <2>1. CASE Release(k)
    BY <2>1, AskTyped, CallShapes DEF Release
  <2>2. CASE call' = call /\ call[k] = Idle
    BY <2>2 DEF UInv, StoreTyped
  <2> QED
    BY <2>1, <2>2
<1> QED
  BY <1>1, <1>2, QuietSlot

LEMMA Proceeds ==
    ASSUME UInv, NEW k \in Slot, transfer[k].pc \in WorkingPc, NEW p \in WorkingPc \ PartPc,
           Proceed(k, p)
    PROVE  /\ transfer' \in [Slot -> Transfer]
           /\ \A j \in Slot \ {k} : transfer'[j] = transfer[j]
           /\ transfer'[k].pc = p
           /\ transfer'[k].upload = transfer[k].upload
           /\ transfer'[k].session = transfer[k].session
<1>1. [pc |-> p, upload |-> transfer[k].upload, session |-> transfer[k].session] \in Transfer
  BY AtWork, TransferShapes
<1> QED
  BY <1>1, GoTyped DEF Proceed

-----------------------------------------------------------------------------
(***************************************************************************)
(* The handlers, step by step.                                             *)
(***************************************************************************)
\* putContent, but for the return.
LEMMA PutGoesOn ==
    ASSUME UInv, NEW k \in Slot, CheckStaged(k) \/ StartWrite(k) \/ FinishWrite(k) \/ Touch(k)
    PROVE  GoesOn(k) /\ SlotOK(k)'
<1>1. transfer[k].pc \in WorkingPc /\ transfer[k].pc \in QuietPc
  BY DEF CheckStaged, StartWrite, FinishWrite, Touch, On, WorkingPc, QuietPc
<1>2. call[k] = Idle /\ call' = call /\ call' \in [Slot -> Calls]
  BY <1>1 DEF UInv, SlotOK, StoreTyped, CheckStaged, StartWrite, FinishWrite, Touch, repository
<1>3. staged' \in [Upload -> Content \union {Torn, Absent}]
  BY <1>1, AtWork DEF UInv, ArtifactTypeOK, CheckStaged, StartWrite, FinishWrite, Touch, uploadFiles
<1>4. /\ UNCHANGED <<files, minted, raced, acked>>
      /\ session' = session \/ WriteBack(k)
  BY DEF CheckStaged, StartWrite, FinishWrite, Touch, uploadFiles, repository, fsVars
<1>5. CASE End(k)
  BY <1>1, <1>2, <1>3, <1>4, <1>5, Ends DEF GoesOn
<1>6. CASE \E p \in QuietPc : Proceed(k, p)
  <2>1. PICK p \in QuietPc : Proceed(k, p)
    BY <1>6
  <2>2. p \in WorkingPc \ PartPc
    BY DEF WorkingPc, QuietPc, PartPc
  <2> QED
    BY <1>1, <1>2, <1>3, <1>4, <2>1, <2>2, Proceeds, QuietSlot DEF GoesOn
<1> QED
  BY <1>5, <1>6 DEF CheckStaged, StartWrite, FinishWrite, Touch, QuietPc

LEMMA PutBegins ==
    ASSUME UInv, NEW k \in Slot, NEW u \in Upload, BeginPut(k, u)
    PROVE  GoesOn(k) /\ SlotOK(k)'
<1>1. session[u] \in Session /\ transfer[k].pc = "idle"
  BY DEF UInv, ArtifactTypeOK, BeginPut, On
<1>2. call[k] = Idle /\ call' = call /\ call' \in [Slot -> Calls]
  BY <1>1 DEF UInv, SlotOK, StoreTyped, BeginPut, repository
<1>3. [pc |-> "check", upload |-> u, session |-> session[u]] \in Transfer
  BY <1>1, TransferShapes DEF WorkingPc, QuietPc, PartPc
<1>4. /\ transfer' \in [Slot -> Transfer]
      /\ transfer'[k] = [pc |-> "check", upload |-> u, session |-> session[u]]
      /\ \A j \in Slot \ {k} : transfer'[j] = transfer[j]
  BY <1>3, GoTyped DEF BeginPut
<1>5. SlotOK(k)'
  BY <1>2, <1>4, QuietSlot DEF QuietPc
<1>6. transfer'[k].pc \in WorkingPc
  BY <1>4 DEF WorkingPc, QuietPc
<1> QED
  BY <1>2, <1>4, <1>5, <1>6
     DEF GoesOn, BeginPut, uploadFiles, repository, fsVars, UInv, ArtifactTypeOK

LEMMA CommitBegins ==
    ASSUME UInv, NEW k \in Slot, NEW u \in Upload, BeginCommit(k, u)
    PROVE  GoesOn(k) /\ SlotOK(k)'
<1>1. session[u] \in Session /\ session[u].artifact \in Artifact
  BY DEF UInv, ArtifactTypeOK, BeginCommit, Session
<1>2. Reading(<<session[u].artifact, "metadata">>) \in Calls
  BY <1>1, CallShapes, ArtifactPaths
<1>3. /\ call' \in [Slot -> Calls]
      /\ call'[k] = Reading(<<session[u].artifact, "metadata">>)
      /\ \A j \in Slot \ {k} : call'[j] = call[j]
  BY <1>2, AskTyped DEF BeginCommit, ReadPart, Ask
<1>4. [pc |-> "look", upload |-> u, session |-> session[u]] \in Transfer
  BY <1>1, TransferShapes DEF WorkingPc, ReadingPc, PartPc
<1>5. /\ transfer' \in [Slot -> Transfer]
      /\ transfer'[k] = [pc |-> "look", upload |-> u, session |-> session[u]]
      /\ \A j \in Slot \ {k} : transfer'[j] = transfer[j]
  BY <1>4, GoTyped DEF BeginCommit
<1>6. transfer'[k].pc \in WorkingPc /\ transfer'[k].pc \in ReadingPc
  BY <1>5 DEF WorkingPc, ReadingPc
<1>7. SlotOK(k)'
  <2>1. call'[k] = Reading(ReadPath(k)')
    BY <1>3, <1>5 DEF ReadPath, PartPc
  <2>2. PartOK(k)'
    BY <1>5 DEF PartOK, PartPc
  <2> QED
    BY <1>5, <1>6, <2>1, <2>2, ReadingSlot
<1> QED
  BY <1>3, <1>5, <1>6, <1>7
     DEF GoesOn, BeginCommit, uploadFiles, fsVars, UInv, ArtifactTypeOK

\* A part is looked for, of a content that is the declared one.
LEMMA StoreReads ==
    ASSUME UInv, NEW k \in Slot, transfer[k].pc \in WorkingPc, NEW i \in {1, 2},
           Store(k, i, Wanted(k)), UNCHANGED files,
           i = 2 => ContentFile(transfer[k].session.artifact) = Wanted(k)
    PROVE  /\ transfer' \in [Slot -> Transfer] /\ call' \in [Slot -> Calls]
           /\ \A j \in Slot \ {k} : transfer'[j] = transfer[j] /\ call'[j] = call[j]
           /\ transfer'[k].pc \in WorkingPc
           /\ transfer'[k].upload = transfer[k].upload
           /\ transfer'[k].session = transfer[k].session
           /\ SlotOK(k)'
<1> DEFINE next == [pc |-> "find", upload |-> transfer[k].upload, session |-> transfer[k].session,
                    part |-> i, content |-> Wanted(k)]
           a == transfer[k].session.artifact
<1>1. next \in Transfer
  BY AtWork, TransferShapes DEF PartPc
<1>2. /\ transfer' \in [Slot -> Transfer] /\ transfer'[k] = next
      /\ \A j \in Slot \ {k} : transfer'[j] = transfer[j]
  BY <1>1, GoTyped DEF Store
<1>3. <<a, Parts[i]>> \in Path
  BY AtWork, PartsAre, ArtifactPaths
<1>4. /\ call' \in [Slot -> Calls] /\ call'[k] = Reading(<<a, Parts[i]>>)
      /\ \A j \in Slot \ {k} : call'[j] = call[j]
  BY <1>3, AskTyped, CallShapes DEF Store, ReadPart, Ask
<1>5. transfer'[k].pc \in WorkingPc /\ transfer'[k].pc \in ReadingPc
  BY <1>2 DEF WorkingPc, ReadingPc
<1>6. SlotOK(k)'
  <2>1. call'[k] = Reading(ReadPath(k)')
    BY <1>2, <1>4 DEF ReadPath, PartPath, PartPc
  <2>2. PartOK(k)'
    BY <1>2 DEF PartOK, Wanted, ContentFile
  <2> QED
    BY <1>2, <1>5, <2>1, <2>2, ReadingSlot
<1> QED
  BY <1>2, <1>4, <1>5, <1>6

\* What was read and is there, is there.
LEMMA ReadIsTrue ==
    ASSUME UInv, NEW k \in Slot, transfer[k].pc \in ReadingPc, call[k].step = "data",
           call[k].content # Absent
    PROVE  files[ReadPath(k)] # Absent
<1>1. ReadOK(k)
  BY DEF UInv, SlotOK
<1>2. Reading(ReadPath(k)).step = "read"
  BY DEF Reading
<1> QED
  BY <1>1, <1>2 DEF ReadOK

\* A part that is there is that of the handler's session.
LEMMA PartIsOwn ==
    ASSUME UInv, NEW k \in Slot, transfer[k].pc \in PartPc, files[PartPath(k)] # Absent
    PROVE  IF StoresContent(k) THEN files[PartPath(k)] = Wanted(k)
                               ELSE files[PartPath(k)] \in MetadataOf(transfer[k].session)
<1>1. transfer[k].pc \in WorkingPc
  BY DEF WorkingPc
<1>2. /\ ContentFile(transfer[k].session.artifact) \in {Absent, Wanted(k)}
      /\ MetadataFile(transfer[k].session.artifact) \in {Absent} \union MetadataOf(transfer[k].session)
      /\ transfer[k].part \in {1, 2}
  BY <1>1, AtWork DEF UInv, SessionsOK, Wanted
<1> QED
  BY <1>2, PartsAre DEF StoresContent, PartPath, ContentFile, MetadataFile

\* A part that is there is not stored again: the next one is looked for, or the
\* session is closed.
LEMMA PartFound ==
    ASSUME UInv, NEW k \in Slot, transfer[k].pc \in PartPc, PartIsThere(k),
           files[PartPath(k)] # Absent, UNCHANGED files
    PROVE  /\ transfer' \in [Slot -> Transfer] /\ call' \in [Slot -> Calls]
           /\ \A j \in Slot \ {k} : transfer'[j] = transfer[j] /\ call'[j] = call[j]
           /\ transfer'[k].pc \in WorkingPc
           /\ transfer'[k].upload = transfer[k].upload
           /\ transfer'[k].session = transfer[k].session
           /\ SlotOK(k)'
<1>0. transfer[k].pc \in WorkingPc
  BY DEF WorkingPc
<1>1. transfer[k].part \in {1, 2} /\ transfer[k].content = Wanted(k)
  BY <1>0, AtWork DEF SlotOK, PartOK
<1>2. CASE transfer[k].part = 2
  <2>1. Proceed(k, "close") /\ Release(k)
    BY <1>2, PartsAre DEF PartIsThere
  <2>2. "close" \in WorkingPc \ PartPc /\ "close" \in QuietPc
    BY DEF WorkingPc, QuietPc, PartPc
  <2>3. /\ call' \in [Slot -> Calls] /\ call'[k] = Idle
        /\ \A j \in Slot \ {k} : call'[j] = call[j]
    BY <2>1, AskTyped, CallShapes DEF Release
  <2> QED
    BY <1>0, <2>1, <2>2, <2>3, Proceeds, QuietSlot
<1>3. CASE transfer[k].part = 1
  <2>1. Store(k, 2, Wanted(k))
    BY <1>1, <1>3, PartsAre DEF PartIsThere
  <2>2. ContentFile(transfer[k].session.artifact) = Wanted(k)
    BY <1>3, PartIsOwn, PartsAre DEF PartPath, StoresContent, ContentFile
  <2> QED
    BY <1>0, <2>1, <2>2, StoreReads
<1> QED
  BY <1>1, <1>2, <1>3

\* The metadata is there, and the content is read to compare it.
LEMMA VerifyBegins ==
    ASSUME UInv, NEW k \in Slot,
           transfer[k].pc \in WorkingPc, transfer[k].pc \in ReadingPc,
           transfer[k].pc \notin PartPc, transfer[k].pc # "verify",
           call[k].step = "data", ~Missing(k), Proceed(k, "verify"),
           ReadPart(k, transfer[k].session.artifact, "content"),
           UNCHANGED <<session, staged, minted, raced, acked, files>>
    PROVE  GoesOn(k) /\ SlotOK(k)'
<1>1. "verify" \in WorkingPc \ PartPc /\ "verify" \in ReadingPc
  BY DEF WorkingPc, ReadingPc, PartPc
<1>2. /\ transfer' \in [Slot -> Transfer]
      /\ \A j \in Slot \ {k} : transfer'[j] = transfer[j]
      /\ transfer'[k].pc = "verify"
      /\ transfer'[k].upload = transfer[k].upload
      /\ transfer'[k].session = transfer[k].session
  BY <1>1, Proceeds
<1>3. <<transfer[k].session.artifact, "content">> \in Path
  BY AtWork, ArtifactPaths
<1>4. /\ call' \in [Slot -> Calls]
      /\ call'[k] = Reading(<<transfer[k].session.artifact, "content">>)
      /\ \A j \in Slot \ {k} : call'[j] = call[j]
  BY <1>3, AskTyped, CallShapes DEF ReadPart, Ask
<1>5. MetadataFile(transfer[k].session.artifact) # Absent
  <2>1. ReadPath(k) = <<transfer[k].session.artifact, "metadata">>
    BY DEF ReadPath
  <2> QED
    BY <2>1, ReadIsTrue DEF Missing, MetadataFile
<1>6. SlotOK(k)'
  <2>1. call'[k] = Reading(ReadPath(k)')
    BY <1>1, <1>2, <1>4 DEF ReadPath
  <2>2. PartOK(k)'
    BY <1>1, <1>2 DEF PartOK
  <2>3. (MetadataFile(transfer[k].session.artifact) # Absent)'
    BY <1>2, <1>5 DEF MetadataFile
  <2> QED
    BY <1>1, <1>2, <2>1, <2>2, <2>3, ReadingSlot
<1> QED
  BY <1>1, <1>2, <1>4, <1>6 DEF GoesOn, UInv, ArtifactTypeOK

LEMMA Looks ==
    ASSUME UInv, NEW k \in Slot, Look(k)
    PROVE  GoesOn(k) /\ SlotOK(k)'
<1>0. /\ transfer[k].pc = "look" /\ transfer[k].pc \in WorkingPc
      /\ transfer[k].pc \in ReadingPc /\ transfer[k].pc \notin PartPc
      /\ call[k].step = "data"
  BY DEF Look, Loaded, On, WorkingPc, ReadingPc, PartPc
<1>1. UNCHANGED <<session, staged, minted, raced, acked, files>>
      /\ staged \in [Upload -> Content \union {Torn, Absent}]
  BY DEF Look, uploadFiles, fsVars, UInv, ArtifactTypeOK
<1>2. CASE StagedMatches(k) /\ Store(k, 1, staged[transfer[k].upload])
  <2>1. Store(k, 1, Wanted(k))
    BY <1>2 DEF StagedMatches
  <2> QED
    BY <1>0, <1>1, <2>1, StoreReads DEF GoesOn
<1>3. CASE End(k) /\ Release(k)
  BY <1>1, <1>3, Ends DEF GoesOn
<1>4. CASE /\ ~Missing(k)
           /\ Proceed(k, "verify")
           /\ ReadPart(k, transfer[k].session.artifact, "content")
  BY <1>0, <1>1, <1>4, VerifyBegins
<1> QED
  BY <1>2, <1>3, <1>4 DEF Look

\* The commit of a part asks for one new file, of declared content or with the
\* metadata of the session.
LEMMA NewFileTyped ==
    ASSUME UInv, NEW k \in Slot, transfer[k].pc \in PartPc
    PROVE  /\ <<NewFile(k)>> \in Seq(Change(Data))
           /\ NewFile(k).path = PartPath(k)
           /\ NewFile(k).content \in Data
           /\ IF StoresContent(k) THEN NewFile(k).content = Wanted(k)
                                  ELSE NewFile(k).content \in MetadataOf(transfer[k].session)
<1>0. transfer[k].pc \in WorkingPc
  BY DEF WorkingPc
<1>1. transfer[k].content = Wanted(k)
  BY <1>0, AtWork DEF SlotOK, PartOK
<1>2. PICK content :
        /\ content = IF StoresContent(k) THEN transfer[k].content
                                         ELSE [of |-> transfer[k].session, createdAt |-> k]
        /\ NewFile(k) = [path |-> PartPath(k), ifAbsent |-> TRUE, expected |-> Unchecked,
                         content |-> content]
  BY DEF NewFile
<1>3. IF StoresContent(k) THEN content = Wanted(k) ELSE content \in MetadataOf(transfer[k].session)
  BY <1>1, <1>2 DEF MetadataOf
<1>4. content \in Data
  BY <1>0, <1>3, AtWork DEF Data
<1>5. NewFile(k) \in Change(Data)
  <2>1. PartPath(k) \in Path
    BY <1>0, AtWork
  <2> QED
    BY <1>2, <1>4, <2>1 DEF Change
<1> QED
  BY <1>2, <1>3, <1>4, <1>5

LEMMA Finds ==
    ASSUME UInv, NEW k \in Slot, Find(k) \/ Again(k)
    PROVE  GoesOn(k) /\ SlotOK(k)'
<1>0. /\ transfer[k].pc \in {"find", "again"} /\ transfer[k].pc \in WorkingPc
      /\ transfer[k].pc \in ReadingPc /\ transfer[k].pc \in PartPc
      /\ call[k].step = "data"
  BY DEF Find, Again, Loaded, On, WorkingPc, ReadingPc, PartPc
<1>1. UNCHANGED <<session, staged, minted, raced, acked, files>>
      /\ staged \in [Upload -> Content \union {Torn, Absent}]
  BY DEF Find, Again, uploadFiles, fsVars, UInv, ArtifactTypeOK
<1>2. CASE ~Missing(k) /\ FoundMatches(k) /\ PartIsThere(k)
  <2>1. files[PartPath(k)] # Absent
    BY <1>0, <1>2, ReadIsTrue DEF Missing, ReadPath
  <2> QED
    BY <1>0, <1>1, <1>2, <2>1, PartFound DEF GoesOn
<1>3. CASE End(k) /\ Release(k)
  BY <1>1, <1>3, Ends DEF GoesOn
<1>4. CASE /\ Go(k, [transfer[k] EXCEPT !.pc = "store"])
           /\ Ask(k, Committing(<<NewFile(k)>>, transfer[k].session.artifact))
  <2> DEFINE next == [transfer[k] EXCEPT !.pc = "store"]
  <2>1. /\ next \in Transfer /\ next.pc = "store"
        /\ next.upload = transfer[k].upload /\ next.session = transfer[k].session
        /\ next.part = transfer[k].part /\ next.content = transfer[k].content
    BY <1>0, AtWork, PartGoesOn DEF PartPc
  <2>2. /\ transfer' \in [Slot -> Transfer] /\ transfer'[k] = next
        /\ \A j \in Slot \ {k} : transfer'[j] = transfer[j]
    <3> HIDE DEF next
    <3> QED
      BY <1>4, <2>1, GoTyped DEF next
  <2> HIDE DEF next
  <2>3. Committing(<<NewFile(k)>>, transfer[k].session.artifact) \in Calls
    BY <1>0, AtWork, NewFileTyped, PathAssumption, CallShapes DEF Committing
  <2>4. /\ call' \in [Slot -> Calls]
        /\ call'[k] = Committing(<<NewFile(k)>>, transfer[k].session.artifact)
        /\ \A j \in Slot \ {k} : call'[j] = call[j]
    BY <1>4, <2>3, AskTyped DEF Ask
  <2>5. SlotOK(k)'
    <3>1. NewFile(k)' = NewFile(k) /\ Wanted(k)' = Wanted(k)
      BY <2>1, <2>2 DEF NewFile, PartPath, StoresContent, Wanted
    <3>2. StoreOK(k)'
      BY <2>4, <3>1 DEF StoreOK, Committing
    <3>3. PartOK(k)
      BY <1>0, AtWork DEF SlotOK
    <3>4. PartOK(k)'
      BY <1>0, <1>1, <2>1, <2>2, <3>1, <3>3 DEF PartOK, ContentFile
    <3> QED
      BY <2>1, <2>2, <3>2, <3>4 DEF SlotOK, ReadOK, ReadingPc, QuietPc
  <2>6. transfer'[k].pc \in WorkingPc
    BY <2>1, <2>2 DEF WorkingPc, PartPc
  <2> QED
    BY <1>0, <1>1, <2>1, <2>2, <2>4, <2>5, <2>6 DEF GoesOn
<1> QED
  BY <1>2, <1>3, <1>4 DEF Find, Again

LEMMA Stores ==
    ASSUME UInv, NEW k \in Slot, Stored(k)
    PROVE  GoesOn(k) /\ SlotOK(k)'
<1>0. /\ transfer[k].pc = "store" /\ transfer[k].pc \in WorkingPc /\ transfer[k].pc \in PartPc
  BY DEF Stored, On, WorkingPc, PartPc
<1>1. UNCHANGED <<session, staged, minted, raced, acked, files>>
      /\ staged \in [Upload -> Content \union {Torn, Absent}]
  BY DEF Stored, uploadFiles, fsVars, UInv, ArtifactTypeOK
<1>2. CASE call[k].step = "committed" /\ PartIsThere(k)
  <2>1. files[PartPath(k)] # Absent
    BY <1>0, <1>2, AtWork DEF SlotOK, StoreOK
  <2> QED
    BY <1>0, <1>1, <1>2, <2>1, PartFound DEF GoesOn
<1>3. CASE /\ Go(k, [transfer[k] EXCEPT !.pc = "again"])
           /\ Ask(k, Reading(PartPath(k)))
  <2> DEFINE next == [transfer[k] EXCEPT !.pc = "again"]
  <2>1. /\ next \in Transfer /\ next.pc = "again"
        /\ next.upload = transfer[k].upload /\ next.session = transfer[k].session
        /\ next.part = transfer[k].part /\ next.content = transfer[k].content
    BY <1>0, AtWork, PartGoesOn DEF PartPc
  <2>2. /\ transfer' \in [Slot -> Transfer] /\ transfer'[k] = next
        /\ \A j \in Slot \ {k} : transfer'[j] = transfer[j]
    <3> HIDE DEF next
    <3> QED
      BY <1>3, <2>1, GoTyped DEF next
  <2> HIDE DEF next
  <2>3. /\ call' \in [Slot -> Calls] /\ call'[k] = Reading(PartPath(k))
        /\ \A j \in Slot \ {k} : call'[j] = call[j]
    BY <1>0, <1>3, AtWork, AskTyped, CallShapes DEF Ask
  <2>4. transfer'[k].pc \in WorkingPc /\ transfer'[k].pc \in ReadingPc
    BY <2>1, <2>2 DEF WorkingPc, ReadingPc
  <2>5. SlotOK(k)'
    <3>1. PartOK(k)
      BY <1>0, AtWork DEF SlotOK
    <3>2. PartOK(k)'
      BY <1>0, <1>1, <2>1, <2>2, <3>1 DEF PartOK, ContentFile, Wanted
    <3>3. call'[k] = Reading(ReadPath(k)')
      BY <2>1, <2>2, <2>3 DEF ReadPath, PartPath, PartPc
    <3> QED
      BY <2>1, <2>2, <2>4, <3>2, <3>3, ReadingSlot
  <2> QED
    BY <1>0, <1>1, <2>1, <2>2, <2>3, <2>4, <2>5 DEF GoesOn
<1> QED
  BY <1>2, <1>3 DEF Stored

LEMMA Closes ==
    ASSUME UInv, NEW k \in Slot, Close(k)
    PROVE  GoesOn(k) /\ SlotOK(k)'
<1>1. transfer[k].pc \in WorkingPc /\ transfer[k].pc \in QuietPc
  BY DEF Close, On, WorkingPc, QuietPc
<1>2. call[k] = Idle /\ call' = call /\ call' \in [Slot -> Calls]
  BY <1>1 DEF UInv, SlotOK, StoreTyped, Close, repository
<1>3. "clear" \in WorkingPc \ PartPc /\ "clear" \in QuietPc
  BY DEF WorkingPc, QuietPc, PartPc
<1> QED
  BY <1>1, <1>2, <1>3, Proceeds, QuietSlot
     DEF GoesOn, Close, repository, fsVars, UInv, ArtifactTypeOK

LEMMA Clears ==
    ASSUME UInv, NEW k \in Slot, Clear(k)
    PROVE  GoesOn(k) /\ SlotOK(k)'
<1>1. transfer[k].pc \in WorkingPc
  BY DEF Clear, On, WorkingPc, QuietPc
<1>2. "reload" \in WorkingPc \ PartPc /\ "reload" \in ReadingPc
  BY DEF WorkingPc, ReadingPc, PartPc
<1>3. /\ transfer' \in [Slot -> Transfer]
      /\ \A j \in Slot \ {k} : transfer'[j] = transfer[j]
      /\ transfer'[k].pc = "reload"
      /\ transfer'[k].upload = transfer[k].upload
      /\ transfer'[k].session = transfer[k].session
  BY <1>1, <1>2, Proceeds DEF Clear
<1>4. <<transfer[k].session.artifact, "metadata">> \in Path
  BY <1>1, AtWork, ArtifactPaths
<1>5. /\ call' \in [Slot -> Calls]
      /\ call'[k] = Reading(<<transfer[k].session.artifact, "metadata">>)
      /\ \A j \in Slot \ {k} : call'[j] = call[j]
  BY <1>4, AskTyped, CallShapes DEF Clear, ReadPart, Ask
<1>6. SlotOK(k)'
  <2>1. call'[k] = Reading(ReadPath(k)')
    BY <1>2, <1>3, <1>5 DEF ReadPath
  <2>2. PartOK(k)'
    BY <1>2, <1>3 DEF PartOK
  <2> QED
    BY <1>2, <1>3, <2>1, <2>2, ReadingSlot
<1>7. staged' \in [Upload -> Content \union {Torn, Absent}]
  BY DEF UInv, ArtifactTypeOK, Clear
<1> QED
  BY <1>1, <1>2, <1>3, <1>5, <1>6, <1>7 DEF GoesOn, Clear, fsVars

LEMMA Reloads ==
    ASSUME UInv, NEW k \in Slot, Reload(k)
    PROVE  GoesOn(k) /\ SlotOK(k)'
<1>0. /\ transfer[k].pc = "reload" /\ transfer[k].pc \in WorkingPc
      /\ transfer[k].pc \in ReadingPc /\ transfer[k].pc \notin PartPc
      /\ call[k].step = "data"
  BY DEF Reload, Loaded, On, WorkingPc, ReadingPc, PartPc
<1>1. UNCHANGED <<session, staged, minted, raced, acked, files>>
      /\ staged \in [Upload -> Content \union {Torn, Absent}]
  BY DEF Reload, uploadFiles, fsVars, UInv, ArtifactTypeOK
<1>3. CASE End(k) /\ Release(k)
  BY <1>1, <1>3, Ends DEF GoesOn
<1>4. CASE /\ ~Missing(k)
           /\ Proceed(k, "verify")
           /\ ReadPart(k, transfer[k].session.artifact, "content")
  BY <1>0, <1>1, <1>4, VerifyBegins
<1> QED
  BY <1>3, <1>4 DEF Reload

LEMMA Verifies ==
    ASSUME UInv, NEW k \in Slot, Verify(k) \/ Abandon(k)
    PROVE  GoesOn(k) /\ SlotOK(k)'
<1>1. End(k) /\ Release(k)
  BY DEF Verify, Abandon
<1>2. UNCHANGED <<session, staged, minted, raced, files>>
      /\ staged \in [Upload -> Content \union {Torn, Absent}]
  BY DEF Verify, Abandon, uploadFiles, fsVars, UInv, ArtifactTypeOK
<1>3. \/ acked' = acked
      \/ /\ On(k, "verify")
         /\ acked' = acked \union {<<transfer[k].upload, transfer[k].session.artifact>>}
  BY DEF Verify, Abandon, Loaded
<1> QED
  BY <1>1, <1>2, <1>3, Ends DEF GoesOn

-----------------------------------------------------------------------------
(***************************************************************************)
(* Creations, and the repository's steps.                                  *)
(***************************************************************************)
LEMMA CreateBegins ==
    ASSUME UInv, NEW k \in Slot, NEW u \in Upload, NEW d \in Description, BeginCreate(k, u, d)
    PROVE  UInv'
<1> DEFINE next == [pc |-> "mint", upload |-> u, description |-> d]
<1>1. /\ transfer' \in [Slot -> Transfer] /\ transfer'[k] = next
      /\ \A j \in Slot \ {k} : transfer'[j] = transfer[j]
  BY TransferShapes, GoTyped DEF BeginCreate
<1>2. /\ UNCHANGED <<session, staged, minted, acked, files, call>>
      /\ transfer[k].pc = "idle" /\ session[u] = None
      /\ raced' = IF \E j \in Slot : On(j, "mint") /\ transfer[j].upload = u
                    THEN raced \union {u} ELSE raced
  BY DEF BeginCreate, uploadFiles, repository, fsVars, On, IsNew
<1>3. transfer'[k].pc \notin WorkingPc
  BY <1>1 DEF WorkingPc, ReadingPc, QuietPc, PartPc
<1>4. \A s \in Session : InUse(s)' => InUse(s)
  BY <1>1, <1>2, <1>3 DEF InUse
<1>5. ArtifactTypeOK' /\ StoreTyped'
  BY <1>1, <1>2 DEF UInv, ArtifactTypeOK, StoreTyped
<1>6. SessionsOK'
  BY <1>2, <1>4 DEF UInv, SessionsOK, ContentFile, MetadataFile
<1>7. \A j \in Slot : SlotOK(j)'
  <2>1. call'[k] = Idle
    BY <1>2 DEF UInv, SlotOK
  <2>2. SlotOK(k)'
    BY <1>1, <2>1, QuietSlot
  <2>3. FilesStay
    BY <1>2 DEF FilesStay, ContentFile, MetadataFile
  <2> QED
    BY <1>1, <1>2, <2>2, <2>3, OthersStay
<1>8. OneSession'
  <2> SUFFICES ASSUME NEW v \in Upload \ raced'
               PROVE  /\ \A j \in Slot : transfer'[j].pc \in WorkingPc /\ transfer'[j].upload = v =>
                           session[v] = transfer'[j].session
                      /\ \A j \in Slot : transfer'[j].pc = "mint" /\ transfer'[j].upload = v =>
                           /\ session[v] = None
                           /\ \A i \in Slot \ {j} :
                                ~(transfer'[i].pc = "mint" /\ transfer'[i].upload = v)
                      /\ \A x \in acked : x[1] = v =>
                           session[v] # None /\ session[v].artifact = x[2]
    BY <1>2 DEF OneSession, On
  <2>1. v \in Upload \ raced
    BY <1>2
  <2>2. \A j \in Slot : transfer'[j].pc \in WorkingPc /\ transfer'[j].upload = v =>
          session[v] = transfer'[j].session
    BY <1>1, <1>3, <2>1 DEF UInv, OneSession
  <2>3. ASSUME NEW j \in Slot, transfer'[j].pc = "mint", transfer'[j].upload = v
        PROVE  /\ session[v] = None
               /\ \A i \in Slot \ {j} :
                    ~(transfer'[i].pc = "mint" /\ transfer'[i].upload = v)
    <3>1. CASE v = u
      <4>1. \A i \in Slot : ~(transfer[i].pc = "mint" /\ transfer[i].upload = u)
        BY <1>2, <3>1 DEF On
      <4>2. j = k
        BY <1>1, <2>3, <3>1, <4>1
      <4> QED
        BY <1>1, <1>2, <3>1, <4>1, <4>2
    <3>2. CASE v # u
      <4>1. j # k
        BY <1>1, <2>3, <3>2
      <4> QED
        BY <1>1, <2>1, <2>3, <3>2, <4>1 DEF UInv, OneSession, On
    <3> QED
      BY <3>1, <3>2
  <2>4. \A x \in acked : x[1] = v => session[v] # None /\ session[v].artifact = x[2]
    BY <2>1 DEF UInv, OneSession
  <2> QED
    BY <2>2, <2>3, <2>4
<1>9. AckedOK' /\ ArtifactsAreWhole'
  BY <1>2 DEF UInv, AckedOK, MetadataFile, ArtifactsAreWhole, IsReady, IsReadyAs
<1> QED
  BY <1>5, <1>6, <1>7, <1>8, <1>9 DEF UInv

\* The new artifact id is nobody's, and has no files.
LEMMA Mints ==
    ASSUME UInv, NEW k \in Slot, NEW a \in Artifact, Mint(k, a)
    PROVE  UInv'
<1> DEFINE u == transfer[k].upload
           d == transfer[k].description
           new == [artifact |-> a, description |-> d]
<1>0. /\ transfer[k] \in Transfer /\ transfer[k].pc = "mint"
      /\ u \in Upload /\ d \in Description
      /\ new \in Session
  <2>1. transfer[k] \in Transfer /\ transfer[k].pc = "mint"
    BY DEF UInv, ArtifactTypeOK, Mint, On
  <2> QED
    BY <2>1, TransferFields DEF Session
<1>1. /\ transfer' \in [Slot -> Transfer] /\ transfer'[k] = [pc |-> "idle"]
      /\ \A j \in Slot \ {k} : transfer'[j] = transfer[j]
  BY TransferShapes, GoTyped DEF Mint, End
<1>2. /\ UNCHANGED <<staged, raced, acked, files, call>>
      /\ minted' = minted \union {a} /\ a \notin minted
      /\ session' = [session EXCEPT ![u] = new]
  BY DEF Mint, repository, fsVars
<1>3. session' \in [Upload -> Session \union {None}] /\ session'[u] = new
      /\ \A v \in Upload \ {u} : session'[v] = session[v]
  BY <1>0, <1>2 DEF UInv, ArtifactTypeOK
<1>4. transfer'[k].pc \notin WorkingPc
  BY <1>1 DEF WorkingPc, ReadingPc, QuietPc, PartPc
<1>5. \A s \in Session : InUse(s)' => InUse(s) \/ s = new
  BY <1>1, <1>3, <1>4 DEF InUse
<1>6. ArtifactTypeOK' /\ StoreTyped'
  BY <1>1, <1>2, <1>3 DEF UInv, ArtifactTypeOK, StoreTyped
<1>7. SessionsOK'
  <2>1. \A s \in Session : InUse(s) => s.artifact \in minted
    BY DEF UInv, SessionsOK
  <2>2. ContentFile(a) = Absent /\ MetadataFile(a) = Absent
    BY <1>2 DEF UInv, SessionsOK
  <2>3. \A s, t \in Session : InUse(s)' /\ InUse(t)' /\ s.artifact = t.artifact => s = t
    BY <1>2, <1>5, <2>1 DEF UInv, SessionsOK
  <2>4. ASSUME NEW s \in Session, InUse(s)'
        PROVE  /\ s.artifact \in minted'
               /\ ContentFile(s.artifact) \in {Absent, Declares[s.description]}
               /\ MetadataFile(s.artifact) \in {Absent} \union MetadataOf(s)
    BY <1>2, <1>5, <2>2, <2>4 DEF UInv, SessionsOK
  <2>5. \A b \in Artifact \ minted' : ContentFile(b) = Absent /\ MetadataFile(b) = Absent
    BY <1>2 DEF UInv, SessionsOK
  <2>6. \A b \in Artifact : ContentFile(b)' = ContentFile(b) /\ MetadataFile(b)' = MetadataFile(b)
    BY <1>2 DEF ContentFile, MetadataFile
  <2>7. \A s \in Session : s.artifact \in Artifact
    BY DEF Session
  <2> QED
    BY <1>2, <2>3, <2>4, <2>5, <2>6, <2>7 DEF SessionsOK
<1>8. \A j \in Slot : SlotOK(j)'
  <2>1. call'[k] = Idle
    BY <1>0, <1>2 DEF UInv, SlotOK
  <2>2. SlotOK(k)'
    BY <1>1, <2>1, QuietSlot
  <2>3. FilesStay
    BY <1>2 DEF FilesStay, ContentFile, MetadataFile
  <2> QED
    BY <1>1, <1>2, <2>2, <2>3, OthersStay
<1>9. OneSession'
  <2> SUFFICES ASSUME NEW v \in Upload \ raced
               PROVE  /\ \A j \in Slot : transfer'[j].pc \in WorkingPc /\ transfer'[j].upload = v =>
                           session'[v] = transfer'[j].session
                      /\ \A j \in Slot : transfer'[j].pc = "mint" /\ transfer'[j].upload = v =>
                           /\ session'[v] = None
                           /\ \A i \in Slot \ {j} :
                                ~(transfer'[i].pc = "mint" /\ transfer'[i].upload = v)
                      /\ \A x \in acked : x[1] = v =>
                           session'[v] # None /\ session'[v].artifact = x[2]
    BY <1>2 DEF OneSession, On
  <2>1. CASE v = u
    <3>1. session[v] = None
      BY <1>0, <2>1 DEF UInv, OneSession, On
    <3>2. \A j \in Slot : ~(transfer[j].pc \in WorkingPc /\ transfer[j].upload = v)
      <4> SUFFICES ASSUME NEW j \in Slot, transfer[j].pc \in WorkingPc, transfer[j].upload = v
                   PROVE  FALSE
        OBVIOUS
      <4>1. session[v] = transfer[j].session
        BY DEF UInv, OneSession
      <4> QED
        BY <3>1, <4>1, AtWork, SessionAssumption
    <3>3. \A j \in Slot \ {k} : ~(transfer[j].pc = "mint" /\ transfer[j].upload = v)
      BY <1>0, <2>1 DEF UInv, OneSession, On
    <3>4. \A x \in acked : x[1] # v
      BY <3>1 DEF UInv, OneSession
    <3> QED
      BY <1>1, <1>4, <3>2, <3>3, <3>4
  <2>2. CASE v # u
    <3>1. session'[v] = session[v]
      BY <1>3, <2>2
    <3>2. \A j \in Slot : transfer'[j].pc \in WorkingPc /\ transfer'[j].upload = v =>
            session[v] = transfer'[j].session
      BY <1>1, <1>4 DEF UInv, OneSession
    <3>3. ASSUME NEW j \in Slot, transfer'[j].pc = "mint", transfer'[j].upload = v
          PROVE  /\ session[v] = None
                 /\ \A i \in Slot \ {j} :
                      ~(transfer'[i].pc = "mint" /\ transfer'[i].upload = v)
      <4>1. j # k /\ transfer[j].pc = "mint" /\ transfer[j].upload = v
        BY <1>1, <3>3
      <4>2. /\ session[v] = None
            /\ \A i \in Slot \ {j} : ~(transfer[i].pc = "mint" /\ transfer[i].upload = v)
        BY <4>1 DEF UInv, OneSession, On
      <4> QED
        BY <1>1, <4>2
    <3>4. \A x \in acked : x[1] = v => session[v] # None /\ session[v].artifact = x[2]
      BY DEF UInv, OneSession
    <3> QED
      BY <3>1, <3>2, <3>3, <3>4
  <2> QED
    BY <2>1, <2>2
<1>10. AckedOK' /\ ArtifactsAreWhole'
  BY <1>2 DEF UInv, AckedOK, MetadataFile, ArtifactsAreWhole, IsReady, IsReadyAs
<1> QED
  BY <1>6, <1>7, <1>8, <1>9, <1>10 DEF UInv

\* A slot whose handler waits, and whose call goes on.
LEMMA Waits ==
    ASSUME UInv, NEW k \in Slot, UNCHANGED <<artifactVars, files>>, call' \in [Slot -> Calls],
           \A j \in Slot \ {k} : call'[j] = call[j], SlotOK(k)'
    PROVE  UInv'
<1>1. UNCHANGED <<session, staged, transfer, minted, raced, acked, files>>
  BY DEF artifactVars
<1>2. ArtifactTypeOK' /\ StoreTyped'
  BY <1>1 DEF UInv, ArtifactTypeOK, StoreTyped
<1>3. SessionsOK'
  <2>1. \A s : InUse(s)' = InUse(s)
    BY <1>1 DEF InUse
  <2> QED
    BY <1>1, <2>1 DEF UInv, SessionsOK, ContentFile, MetadataFile
<1>4. \A j \in Slot : SlotOK(j)'
  <2>1. FilesStay
    BY <1>1 DEF FilesStay, ContentFile, MetadataFile
  <2> QED
    BY <1>1, <2>1, OthersStay
<1>5. OneSession' /\ AckedOK' /\ ArtifactsAreWhole'
  BY <1>1 DEF UInv, OneSession, On, AckedOK, MetadataFile, ArtifactsAreWhole, IsReady, IsReadyAs
<1> QED
  BY <1>2, <1>3, <1>4, <1>5 DEF UInv

\* Who waits for the repository, and for what.
LEMMA Waiting ==
    ASSUME UInv, NEW k \in Slot
    PROVE  /\ call[k].step = "read" =>
                transfer[k].pc \in ReadingPc /\ call[k] = Reading(ReadPath(k))
           /\ call[k].step \in {"commit", "staged", "renaming"} =>
                transfer[k].pc = "store" /\ call[k].changes = <<NewFile(k)>> /\ call[k].done = 0
<1>1. SlotOK(k) /\ transfer[k].pc \in {"idle", "mint"} \union WorkingPc
  BY TransferFields DEF UInv, ArtifactTypeOK
<1>2. Idle.step = "idle" /\ Reading(ReadPath(k)).step = "read"
  BY DEF Idle, Reading
<1>3. CASE transfer[k].pc \in {"idle", "mint"} \union QuietPc
  BY <1>1, <1>2, <1>3 DEF SlotOK
<1>4. CASE transfer[k].pc \in ReadingPc
  <2>1. call[k].step \in {"read", "failed", "data"}
    BY <1>1, <1>2, <1>4 DEF SlotOK, ReadOK
  <2>2. call[k].step = "read" => call[k] = Reading(ReadPath(k))
    BY <1>1, <1>4 DEF SlotOK, ReadOK
  <2> QED
    BY <1>4, <2>1, <2>2
<1>5. CASE transfer[k].pc = "store"
  BY <1>1, <1>5 DEF SlotOK, StoreOK
<1> QED
  BY <1>1, <1>3, <1>4, <1>5 DEF WorkingPc, PartPc, ReadingPc

LEMMA Replies ==
    ASSUME UInv, NEW k \in Slot, UNCHANGED artifactVars, FsRead(k) \/ FsCommitFails(k)
    PROVE  UInv'
<1>1. UNCHANGED <<files, transfer>>
  BY DEF FsRead, FsCommitFails, fsVars, artifactVars
<1>2. CASE call[k].step = "read" /\ ReplyData(k, files[call[k].path])
  <2>1. transfer[k].pc \in ReadingPc /\ call[k] = Reading(ReadPath(k)) /\ call[k].path \in Path
    BY <1>2, Waiting, CallFields DEF UInv, StoreTyped
  <2>2. call[k].path = ReadPath(k)
    BY <2>1 DEF Reading
  <2>3. [step |-> "data", content |-> files[ReadPath(k)]] \in Calls
    BY <2>1, <2>2, CallShapes DEF UInv, StoreTyped
  <2>4. /\ call' \in [Slot -> Calls]
        /\ call'[k] = [step |-> "data", content |-> files[ReadPath(k)]]
        /\ \A j \in Slot \ {k} : call'[j] = call[j]
    BY <1>2, <2>2, <2>3, AskTyped DEF ReplyData
  <2>5. SlotOK(k)'
    <3>1. SlotOK(k) /\ transfer'[k] = transfer[k] /\ ReadPath(k)' = ReadPath(k)
      BY <1>1 DEF UInv, ReadPath, PartPath
    <3>2. ReadOK(k)'
      BY <1>1, <2>4, <3>1 DEF ReadOK
    <3>3. PartOK(k)'
      BY <1>1, <3>1 DEF SlotOK, PartOK, ContentFile, Wanted
    <3> QED
      BY <1>1, <2>1, <3>1, <3>2, <3>3 DEF SlotOK, StoreOK, ReadingPc, QuietPc, MetadataFile
  <2> QED
    BY <1>1, <2>4, <2>5, Waits
<1>3. CASE call[k].step \in {"read", "commit", "staged", "renaming"} /\ Reply(k, "failed")
  <2>1. transfer[k].pc \in ReadingPc \union {"store"}
    BY <1>3, Waiting
  <2>2. /\ call' \in [Slot -> Calls] /\ call'[k] = [step |-> "failed"]
        /\ \A j \in Slot \ {k} : call'[j] = call[j]
    BY <1>3, AskTyped, CallShapes DEF Reply
  <2>3. SlotOK(k)'
    <3>1. SlotOK(k) /\ transfer'[k] = transfer[k]
      BY <1>1 DEF UInv
    <3>2. PartOK(k)'
      BY <1>1, <3>1 DEF SlotOK, PartOK, ContentFile, Wanted
    <3> QED
      BY <1>1, <2>1, <2>2, <3>1, <3>2
         DEF SlotOK, ReadOK, StoreOK, ReadingPc, QuietPc, MetadataFile
  <2> QED
    BY <1>1, <2>2, <2>3, Waits
<1> QED
  BY <1>2, <1>3 DEF FsRead, FsCommitFails

LEMMA Checks ==
    ASSUME UInv, NEW k \in Slot, UNCHANGED artifactVars, FsCheck(k) \/ FsRecheck(k)
    PROVE  UInv'
<1>1. UNCHANGED <<files, transfer>>
  BY DEF FsCheck, FsRecheck, fsVars, artifactVars
<1>2. call[k].step \in {"commit", "staged"}
  BY DEF FsCheck, FsRecheck
<1>3. /\ transfer[k].pc = "store" /\ call[k].changes = <<NewFile(k)>> /\ call[k].done = 0
      /\ call[k].changes \in Seq(Change(Data)) /\ call[k].tag \in Tag
  BY <1>2, Waiting, CallFields DEF UInv, StoreTyped
<1>4. PICK c \in Calls :
        /\ call' = [call EXCEPT ![k] = c]
        /\ \/ c.step = "conflict"
           \/ /\ c.step \in {"staged", "renaming"}
              /\ c.changes = <<NewFile(k)>> /\ c.done = 0
  <2>1. CASE Reply(k, "conflict")
    <3>1. [step |-> "conflict"] \in Calls
      BY CallShapes
    <3> QED
      BY <2>1, <3>1 DEF Reply
  <2>2. ASSUME NEW p \in {"staged", "renaming"}, Advance(k, p)
        PROVE  \E c \in Calls :
                 /\ call' = [call EXCEPT ![k] = c]
                 /\ c.step \in {"staged", "renaming"}
                 /\ c.changes = <<NewFile(k)>> /\ c.done = 0
    <3> DEFINE c == [step |-> p, changes |-> call[k].changes, tag |-> call[k].tag,
                     done |-> call[k].done]
    <3>1. c \in Calls
      <4>1. /\ p \in {"commit", "staged", "renaming"} /\ call[k].done \in Nat
            /\ call[k].changes \in Seq(Change(Data)) /\ call[k].tag \in Tag
        BY <1>3
      <4> QED
        BY <4>1, CallShapes
    <3>2. call' = [call EXCEPT ![k] = c]
      BY <2>2 DEF Advance
    <3>3. c.step = p /\ c.changes = <<NewFile(k)>> /\ c.done = 0
      BY <1>3
    <3> HIDE DEF c
    <3> QED
      BY <3>1, <3>2, <3>3
  <2> QED
    BY <2>1, <2>2 DEF FsCheck, FsRecheck
<1>5. /\ call' \in [Slot -> Calls] /\ call'[k] = c
      /\ \A j \in Slot \ {k} : call'[j] = call[j]
  BY <1>4, AskTyped
<1>6. SlotOK(k)'
  <2>1. SlotOK(k) /\ transfer'[k] = transfer[k]
    BY <1>1 DEF UInv
  <2>2. PartOK(k)'
    BY <1>1, <2>1 DEF SlotOK, PartOK, ContentFile, Wanted
  <2>3. NewFile(k)' = NewFile(k)
    BY <1>1 DEF NewFile, PartPath, StoresContent
  <2>4. StoreOK(k)'
    BY <1>4, <1>5, <2>3 DEF StoreOK
  <2> QED
    BY <1>3, <2>1, <2>2, <2>4 DEF SlotOK, ReadOK, ReadingPc, QuietPc
<1> QED
  BY <1>1, <1>5, <1>6, Waits

\* The part is put where nothing is, or where a part of the same session is.
LEMMA PutsPart ==
    ASSUME UInv, NEW k \in Slot, FsRename(k)
    PROVE  /\ transfer[k].pc = "store"
           /\ files' = [files EXCEPT ![PartPath(k)] = NewFile(k).content]
           /\ PartPath(k) \in Path /\ NewFile(k).content \in Data
           /\ IF StoresContent(k) THEN NewFile(k).content = Wanted(k)
                                  ELSE NewFile(k).content \in MetadataOf(transfer[k].session)
           /\ FilesStay
           /\ call' = [call EXCEPT ![k] = [step |-> "committed"]]
<1>1. /\ transfer[k].pc = "store" /\ call[k].changes = <<NewFile(k)>> /\ call[k].done = 0
  BY Waiting DEF FsRename
<1>2. transfer[k].pc \in WorkingPc /\ transfer[k].pc \in PartPc
  BY <1>1 DEF WorkingPc, PartPc
<1>3. /\ NewFile(k).path = PartPath(k)
      /\ NewFile(k).content \in Data /\ PartPath(k) \in Path
      /\ IF StoresContent(k) THEN NewFile(k).content = Wanted(k)
                             ELSE NewFile(k).content \in MetadataOf(transfer[k].session)
  BY <1>2, NewFileTyped, AtWork
<1>4. call[k].done + 1 = 1 /\ call[k].changes[1] = NewFile(k) /\ Len(call[k].changes) = 1
  BY <1>1
<1>5. /\ files' = [files EXCEPT ![NewFile(k).path] = NewFile(k).content]
      /\ Reply(k, "committed")
  BY <1>4 DEF FsRename
<1>6. FilesStay
  <2> SUFFICES ASSUME NEW a \in Artifact
               PROVE  /\ ContentFile(a) # Absent => ContentFile(a)' = ContentFile(a)
                      /\ MetadataFile(a) # Absent =>
                           \/ MetadataFile(a)' = MetadataFile(a)
                           \/ \E s \in Session :
                                {MetadataFile(a), MetadataFile(a)'} \subseteq MetadataOf(s)
    BY DEF FilesStay
  <2>1. /\ <<a, "content">> \in Path /\ <<a, "metadata">> \in Path
        /\ DOMAIN files = Path
    BY ArtifactPaths DEF UInv, StoreTyped
  <2>2. \A p \in Path : files'[p] = IF p = PartPath(k) THEN NewFile(k).content ELSE files[p]
    BY <1>3, <1>5, <2>1
  <2>3. ContentFile(a) # Absent => ContentFile(a)' = ContentFile(a)
    <3>1. CASE PartPath(k) # <<a, "content">>
      BY <2>1, <2>2, <3>1 DEF ContentFile
    <3>2. CASE PartPath(k) = <<a, "content">>
      <4>1. StoresContent(k)
        BY <3>2 DEF PartPath, StoresContent
      <4> QED
        BY <1>2, <1>3, <2>1, <2>2, <3>2, <4>1, PartIsOwn DEF ContentFile
    <3> QED
      BY <3>1, <3>2
  <2>4. ASSUME MetadataFile(a) # Absent
        PROVE  \/ MetadataFile(a)' = MetadataFile(a)
               \/ \E s \in Session : {MetadataFile(a), MetadataFile(a)'} \subseteq MetadataOf(s)
    <3>1. CASE PartPath(k) # <<a, "metadata">>
      BY <2>1, <2>2, <3>1 DEF MetadataFile
    <3>2. CASE PartPath(k) = <<a, "metadata">>
      <4>1. ~StoresContent(k)
        BY <3>2 DEF PartPath, StoresContent
      <4>2. MetadataFile(a) \in MetadataOf(transfer[k].session)
        BY <1>2, <2>4, <3>2, <4>1, PartIsOwn DEF MetadataFile
      <4>3. MetadataFile(a)' \in MetadataOf(transfer[k].session)
        BY <1>3, <2>1, <2>2, <3>2, <4>1 DEF MetadataFile
      <4>4. transfer[k].session \in Session
        BY <1>2, AtWork
      <4> QED
        BY <4>2, <4>3, <4>4
    <3> QED
      BY <3>1, <3>2
  <2> QED
    BY <2>3, <2>4
<1> QED
  BY <1>1, <1>3, <1>5, <1>6 DEF Reply

LEMMA Renames ==
    ASSUME UInv, NEW k \in Slot, UNCHANGED artifactVars, FsRename(k)
    PROVE  UInv'
<1>0. /\ transfer[k].pc = "store" /\ transfer[k].pc \in WorkingPc /\ transfer[k].pc \in PartPc
      /\ files \in [Path -> Data \union {Absent}]
  BY PutsPart DEF WorkingPc, PartPc, UInv, StoreTyped
<1>1. UNCHANGED <<session, staged, transfer, minted, raced, acked>>
  BY DEF artifactVars
<1>2. PICK s0 :
      /\ s0 = transfer[k].session
      /\ s0 \in Session /\ s0.artifact \in Artifact /\ s0.description \in Description
      /\ s0 = [artifact |-> s0.artifact, description |-> s0.description]
      /\ InUse(s0) /\ s0.artifact \in minted /\ transfer[k].part \in {1, 2}
      /\ Wanted(k) = Declares[s0.description] /\ Wanted(k) # Absent
  <2>1. InUse(transfer[k].session)
    BY <1>0, AtWork
  <2> QED
    BY <1>0, <2>1, AtWork DEF UInv, SessionsOK, Wanted
<1>3. PICK put \in Data :
      /\ files' \in [Path -> Data \union {Absent}]
      /\ files'[PartPath(k)] = put
      /\ \A p \in Path \ {PartPath(k)} : files'[p] = files[p]
      /\ IF StoresContent(k) THEN put = Wanted(k) ELSE put \in MetadataOf(s0)
      /\ put # Absent
  <2>1. NewFile(k).content # Absent
    BY <1>2, PutsPart, SessionAssumption
  <2> QED
    BY <1>0, <1>2, <2>1, PutsPart
<1>4. FilesStay
  BY PutsPart
<1>5. /\ call' \in [Slot -> Calls] /\ call'[k] = [step |-> "committed"]
      /\ \A j \in Slot \ {k} : call'[j] = call[j]
  BY PutsPart, AskTyped, CallShapes
<1>6. ArtifactTypeOK' /\ StoreTyped'
  BY <1>1, <1>3, <1>5 DEF UInv, ArtifactTypeOK, StoreTyped
<1>7. SessionsOK'
  <2>1. \A s : InUse(s)' = InUse(s)
    BY <1>1 DEF InUse
  <2>2. \A a \in Artifact \ {s0.artifact} :
          ContentFile(a)' = ContentFile(a) /\ MetadataFile(a)' = MetadataFile(a)
    BY <1>2, <1>3, ArtifactPaths DEF ContentFile, MetadataFile, PartPath
  <2>3. /\ ContentFile(s0.artifact)' \in {Absent, Declares[s0.description]}
        /\ MetadataFile(s0.artifact)' \in {Absent} \union MetadataOf(s0)
    <3>1. /\ ContentFile(s0.artifact) \in {Absent, Declares[s0.description]}
          /\ MetadataFile(s0.artifact) \in {Absent} \union MetadataOf(s0)
      BY <1>2 DEF UInv, SessionsOK
    <3>2. CASE transfer[k].part = 1
      BY <1>2, <1>3, <3>1, <3>2, PartsAre, ArtifactPaths
         DEF PartPath, StoresContent, ContentFile, MetadataFile
    <3>3. CASE transfer[k].part = 2
      BY <1>2, <1>3, <3>1, <3>3, PartsAre, ArtifactPaths
         DEF PartPath, StoresContent, ContentFile, MetadataFile
    <3> QED
      BY <1>2, <3>2, <3>3
  <2>4. ASSUME NEW s \in Session, InUse(s)
        PROVE  /\ s.artifact \in minted
               /\ ContentFile(s.artifact)' \in {Absent, Declares[s.description]}
               /\ MetadataFile(s.artifact)' \in {Absent} \union MetadataOf(s)
    <3>1. /\ s.artifact \in minted
          /\ ContentFile(s.artifact) \in {Absent, Declares[s.description]}
          /\ MetadataFile(s.artifact) \in {Absent} \union MetadataOf(s)
      BY <2>4 DEF UInv, SessionsOK
    <3>2. CASE s.artifact = s0.artifact
      <4>1. s = s0
        BY <1>2, <2>4, <3>2 DEF UInv, SessionsOK
      <4> QED
        BY <2>3, <3>1, <4>1
    <3>3. CASE s.artifact # s0.artifact
      <4>1. s.artifact \in Artifact
        BY DEF Session
      <4> QED
        BY <2>2, <3>1, <3>3, <4>1
    <3> QED
      BY <3>2, <3>3
  <2>5. \A a \in Artifact \ minted : ContentFile(a)' = Absent /\ MetadataFile(a)' = Absent
    BY <1>2, <2>2 DEF UInv, SessionsOK
  <2>6. \A s, t \in Session : InUse(s) /\ InUse(t) /\ s.artifact = t.artifact => s = t
    BY DEF UInv, SessionsOK
  <2> QED
    BY <1>1, <2>1, <2>4, <2>5, <2>6 DEF SessionsOK, ContentFile, MetadataFile
<1>8. \A j \in Slot : SlotOK(j)'
  <2>1. SlotOK(k)'
    <3>1. SlotOK(k) /\ transfer'[k] = transfer[k] /\ PartPath(k)' = PartPath(k)
          /\ Wanted(k)' = Wanted(k)
      BY <1>1 DEF UInv, PartPath, Wanted
    <3>2. ContentFile(s0.artifact) # Absent => ContentFile(s0.artifact)' = ContentFile(s0.artifact)
      BY <1>2, <1>4 DEF FilesStay
    <3>3. PartOK(k)'
      <4>1. /\ transfer[k].content = Wanted(k) /\ Wanted(k) # Absent
            /\ transfer[k].part = 2 => ContentFile(s0.artifact) = Wanted(k)
        BY <1>0, <1>2, <3>1, AtWork DEF SlotOK, PartOK
      <4>2. transfer[k].part = 2 => ContentFile(s0.artifact)' = Wanted(k)
        BY <3>2, <4>1
      <4> QED
        BY <1>1, <1>2, <3>1, <4>1, <4>2 DEF PartOK, ContentFile
    <3>4. StoreOK(k)'
      BY <1>3, <1>5, <3>1 DEF StoreOK
    <3> QED
      BY <1>0, <3>1, <3>3, <3>4 DEF SlotOK, ReadOK, ReadingPc, QuietPc
  <2> QED
    BY <1>1, <1>4, <1>5, <2>1, OthersStay
<1>9. OneSession'
  BY <1>1 DEF UInv, OneSession, On
<1>10. AckedOK'
  BY <1>1, <1>4, ThereStays DEF UInv, ArtifactTypeOK, AckedOK
<1>11. ArtifactsAreWhole'
  <2> SUFFICES ASSUME NEW a \in Artifact, MetadataFile(a)' # Absent
               PROVE  IsReady(a)'
    BY DEF ArtifactsAreWhole, MetadataFile
  <2>1. CASE MetadataFile(a) # Absent
    <3>1. PICK d \in Description : IsReadyAs(a, d)
      BY <2>1 DEF UInv, ArtifactsAreWhole, IsReady, MetadataFile
    <3>2. IsReadyAs(a, d)'
      BY <1>4, <3>1, ReadyStays
    <3> QED
      BY <3>2 DEF IsReady
  <2>2. CASE MetadataFile(a) = Absent
    <3>1. PartPath(k) = <<a, "metadata">>
      BY <1>3, <2>2, ArtifactPaths DEF MetadataFile
    <3>2. a = s0.artifact /\ transfer[k].part = 2 /\ ~StoresContent(k)
      BY <1>2, <3>1, PartsAre DEF PartPath, StoresContent
    <3>3. ContentFile(a) = Wanted(k) /\ Wanted(k) # Absent
      BY <1>0, <1>2, <3>2, AtWork DEF SlotOK, PartOK
    <3>4. ContentFile(a)' = Declares[s0.description]
      BY <1>2, <1>4, <3>3 DEF FilesStay
    <3>5. MetadataFile(a)' \in MetadataOf([artifact |-> a, description |-> s0.description])
      BY <1>2, <1>3, <3>1, <3>2 DEF MetadataFile
    <3> QED
      BY <1>2, <3>4, <3>5 DEF IsReady, IsReadyAs, ContentFile, MetadataFile
  <2> QED
    BY <2>1, <2>2
<1> QED
  BY <1>6, <1>7, <1>8, <1>9, <1>10, <1>11 DEF UInv

LEMMA FsKeepsUploads ==
    ASSUME UInv, NEW k \in Slot, UNCHANGED artifactVars, FsStep(k)
    PROVE  UInv'
BY Replies, Checks, Renames DEF FsStep

LEMMA HandlersKeepUploads ==
    ASSUME UInv, NEW k \in Slot, TransferStep(k)
    PROVE  UInv'
<1>1. ASSUME NEW a \in Artifact, Mint(k, a) PROVE UInv'
  BY <1>1, Mints
<1>2. CASE CheckStaged(k) \/ StartWrite(k) \/ FinishWrite(k) \/ Touch(k)
  BY <1>2, PutGoesOn, GoingOn
<1>3. CASE Look(k) \/ Find(k) \/ Again(k) \/ Stored(k)
  BY <1>3, Looks, Finds, Stores, GoingOn
<1>4. CASE Close(k) \/ Clear(k) \/ Reload(k) \/ Verify(k) \/ Abandon(k)
  BY <1>4, Closes, Clears, Reloads, Verifies, GoingOn
<1> QED
  BY <1>1, <1>2, <1>3, <1>4 DEF TransferStep

LEMMA RequestsKeepUploads ==
    ASSUME UInv, NEW k \in Slot, NEW u \in Upload,
           \/ \E d \in Description : BeginCreate(k, u, d)
           \/ BeginPut(k, u)
           \/ BeginCommit(k, u)
    PROVE  UInv'
BY CreateBegins, PutBegins, CommitBegins, GoingOn

\* What candidates, snapshots and writes do is nothing to the uploads.
LEMMA OthersKeepUploads ==
    ASSUME UInv, UNCHANGED <<artifactVars, files, call>>
    PROVE  UInv'
<1>1. UNCHANGED <<session, staged, transfer, minted, raced, acked, files, call>>
  BY DEF artifactVars
<1>2. ArtifactTypeOK' /\ StoreTyped'
  BY <1>1 DEF UInv, ArtifactTypeOK, StoreTyped
<1>3. SessionsOK'
  <2>1. \A s : InUse(s)' = InUse(s)
    BY <1>1 DEF InUse
  <2> QED
    BY <1>1, <2>1 DEF UInv, SessionsOK, ContentFile, MetadataFile
<1>4. \A j \in Slot : SlotOK(j)'
  <2>1. FilesStay
    BY <1>1 DEF FilesStay, ContentFile, MetadataFile
  <2> QED
    BY <1>1, <2>1, OthersStay
<1>5. OneSession' /\ AckedOK' /\ ArtifactsAreWhole'
  BY <1>1 DEF UInv, OneSession, On, AckedOK, MetadataFile, ArtifactsAreWhole, IsReady, IsReadyAs
<1> QED
  BY <1>2, <1>3, <1>4, <1>5 DEF UInv

\* A crash forgets the handlers and their calls.
LEMMA CrashKeepsUploads ==
    ASSUME UInv, Crash
    PROVE  UInv'
<1>1. /\ UNCHANGED <<session, staged, minted, raced, acked, files>>
      /\ transfer' = [k \in Slot |-> [pc |-> "idle"]]
      /\ call' = [k \in Slot |-> Idle]
  BY DEF Crash, uploadFiles, fsVars
<1>2. ArtifactTypeOK' /\ StoreTyped'
  BY <1>1, TransferShapes, CallShapes DEF UInv, ArtifactTypeOK, StoreTyped
<1>3. \A k \in Slot : transfer'[k].pc = "idle" /\ transfer'[k].pc \notin WorkingPc
  BY <1>1 DEF WorkingPc, ReadingPc, QuietPc, PartPc
<1>4. SessionsOK'
  <2>1. \A s : InUse(s)' => InUse(s)
    BY <1>1, <1>3 DEF InUse
  <2> QED
    BY <1>1, <2>1 DEF UInv, SessionsOK, ContentFile, MetadataFile
<1>5. \A k \in Slot : SlotOK(k)'
  BY <1>1, <1>3, QuietSlot
<1>6. OneSession'
  BY <1>1, <1>3 DEF UInv, OneSession, On
<1>7. AckedOK' /\ ArtifactsAreWhole'
  BY <1>1 DEF UInv, AckedOK, MetadataFile, ArtifactsAreWhole, IsReady, IsReadyAs
<1> QED
  BY <1>2, <1>4, <1>5, <1>6, <1>7 DEF UInv

LEMMA UploadsInit ==
    ASSUME Init
    PROVE  UInv
<1>1. /\ transfer = [k \in Slot |-> [pc |-> "idle"]]
      /\ call = [k \in Slot |-> Idle]
      /\ raced = {} /\ acked = {}
  BY DEF Init, FreshFiles, InterruptedCommit, ArtifactInit, ProviderInit, Slot
<1>2. \A k \in Slot : transfer[k].pc = "idle" /\ transfer[k].pc \notin WorkingPc
  BY <1>1 DEF WorkingPc, ReadingPc, QuietPc, PartPc
<1>3. \A k \in Slot : SlotOK(k)
  BY <1>1, <1>2 DEF SlotOK, ReadOK, StoreOK, PartOK, ReadingPc, PartPc
<1>4. transfer \in [Slot -> Transfer] /\ call \in [Slot -> Calls]
  BY <1>1, TransferShapes, CallShapes
<1>5. CASE FreshFiles
  <2>1. /\ session = [u \in Upload |-> None] /\ staged = [u \in Upload |-> Absent]
        /\ minted = {} /\ files = [p \in Path |-> Absent]
    BY <1>5 DEF FreshFiles, ArtifactInit, FsInit
  <2>2. ArtifactTypeOK /\ StoreTyped
    BY <1>1, <1>4, <2>1 DEF ArtifactTypeOK, StoreTyped
  <2>3. \A s \in Session : ~InUse(s)
    BY <1>2, <2>1, SessionAssumption DEF InUse
  <2>4. \A p \in Path : files[p] = Absent
    BY <2>1
  <2>5. SessionsOK
    BY <2>3, <2>4, ArtifactPaths DEF SessionsOK, ContentFile, MetadataFile
  <2>6. OneSession /\ AckedOK /\ ArtifactsAreWhole
    BY <1>1, <1>2, <2>4, ArtifactPaths DEF OneSession, On, AckedOK, ArtifactsAreWhole
  <2> QED
    BY <1>3, <2>2, <2>5, <2>6 DEF UInv
<1>6. CASE InterruptedCommit
  <2>1. PICK u \in Upload, a \in Artifact, d \in Description :
          /\ session = [v \in Upload |-> IF v = u THEN [artifact |-> a, description |-> d] ELSE None]
          /\ staged = [v \in Upload |-> IF v = u THEN Declares[d] ELSE Absent]
          /\ minted = {a}
          /\ files = [p \in Path |-> IF p = <<a, "content">> THEN Declares[d] ELSE Absent]
    BY <1>6 DEF InterruptedCommit, FsInit
  <2>2. [artifact |-> a, description |-> d] \in Session /\ Declares[d] \in Content
    BY DeclaresAssumption DEF Session
  <2>3. ArtifactTypeOK /\ StoreTyped
    <3>1. session \in [Upload -> Session \union {None}]
      BY <2>1, <2>2
    <3>2. staged \in [Upload -> Content \union {Torn, Absent}]
      BY <2>1, <2>2
    <3>3. files \in [Path -> Data \union {Absent}]
      BY <2>1, <2>2 DEF Data
    <3> QED
      BY <1>1, <1>4, <2>1, <3>1, <3>2, <3>3 DEF ArtifactTypeOK, StoreTyped
  <2>4. \A s \in Session : InUse(s) => s = [artifact |-> a, description |-> d]
    BY <1>2, <2>1, SessionAssumption DEF InUse
  <2>5. \A b \in Artifact : /\ ContentFile(b) = IF b = a THEN Declares[d] ELSE Absent
                            /\ MetadataFile(b) = Absent
    BY <2>1, ArtifactPaths DEF ContentFile, MetadataFile
  <2>6. SessionsOK
    <3>1. \A s \in Session : InUse(s) =>
            /\ s.artifact \in minted
            /\ ContentFile(s.artifact) \in {Absent, Declares[s.description]}
            /\ MetadataFile(s.artifact) \in {Absent} \union MetadataOf(s)
      BY <2>1, <2>4, <2>5
    <3>2. \A s, t \in Session : InUse(s) /\ InUse(t) /\ s.artifact = t.artifact => s = t
      BY <2>4
    <3>3. \A b \in Artifact \ minted : ContentFile(b) = Absent /\ MetadataFile(b) = Absent
      BY <2>1, <2>5
    <3> QED
      BY <3>1, <3>2, <3>3 DEF SessionsOK
  <2>7. OneSession /\ AckedOK
    BY <1>1, <1>2 DEF OneSession, On, AckedOK
  <2>8. ArtifactsAreWhole
    BY <2>5 DEF ArtifactsAreWhole, MetadataFile
  <2> QED
    BY <1>3, <2>3, <2>6, <2>7, <2>8 DEF UInv
<1> QED
  BY <1>5, <1>6 DEF Init

LEMMA UploadsKept ==
    ASSUME UInv, [Next]_vars
    PROVE  UInv'
<1>1. ASSUME NEW k \in Slot, HandlerStep(k) PROVE UInv'
  <2>1. CASE ArtifactStep(k)
    BY <2>1, FsKeepsUploads, HandlersKeepUploads DEF ArtifactStep
  <2>2. CASE SubmitPromotion(k) \/ AwaitPromotion(k) \/ LoadCollection(k)
    BY <2>2, OthersKeepUploads
       DEF SubmitPromotion, AwaitPromotion, LoadCollection, artifacts, repository, fsVars
  <2>3. CASE UNCHANGED artifacts
    BY <2>3, OthersKeepUploads DEF artifacts, repository, fsVars
  <2> QED
    BY <1>1, <2>1, <2>2, <2>3 DEF HandlerStep
<1>2. ASSUME NEW k \in Slot, ClientStep(k) PROVE UInv'
  <2>1. CASE UploadRequest(k)
    BY <2>1, RequestsKeepUploads, MixesAssumption DEF UploadRequest
  <2>2. CASE UNCHANGED artifacts
    BY <2>2, OthersKeepUploads DEF artifacts, repository, fsVars
  <2> QED
    BY <1>2, <2>1, <2>2 DEF ClientStep, CandidateRequest, SnapshotRequest
<1>3. ASSUME NEW u \in Upload, RetryPut(u) \/ RetryCommit(u) PROVE UInv'
  BY <1>3, RequestsKeepUploads DEF RetryPut, RetryCommit
<1>4. ASSUME NEW r \in Promotions \union Write, CarryOut(r) PROVE UInv'
  BY <1>4, OthersKeepUploads DEF CarryOut, artifacts, repository, fsVars
<1>5. CASE OtherWrite
  BY <1>5, OthersKeepUploads DEF OtherWrite, artifacts, repository, fsVars
<1>6. CASE Crash
  BY <1>6, CrashKeepsUploads
<1>7. CASE UNCHANGED vars
  BY <1>7, OthersKeepUploads DEF vars, repository, fsVars
<1> QED
  BY <1>1, <1>2, <1>3, <1>4, <1>5, <1>6, <1>7 DEF Next

-----------------------------------------------------------------------------
(***************************************************************************)
(* The invariant of the candidates.                                        *)
(***************************************************************************)
Answers == Source!SourceAnswer
OperationId == Candidate \union {w.id : w \in Write}

LEMMA RecordFields ==
    ASSUME NEW r \in Record(Answers)
    PROVE  /\ r.proposal \in Payload /\ r.review \in Review
           /\ r.review.state \in {"pending", "accepted", "rejected"}
           /\ r.review.state = "accepted" => r.review.payload \in Payload
           /\ r.promotion \in Answers \union {Unset}
           /\ r.review.state # "accepted" => r.promotion = Unset
BY DEF Record, Review

LEMMA RecordShapes ==
    ASSUME NEW r \in Record(Answers)
    PROVE  /\ r.promotion = Unset =>
                \A v \in Review : [r EXCEPT !.review = v] \in Record(Answers)
           /\ r.review.state = "accepted" =>
                \A x \in Answers : [r EXCEPT !.promotion = x] \in Record(Answers)
<1>1. ASSUME r.promotion = Unset, NEW v \in Review
      PROVE  [r EXCEPT !.review = v] \in Record(Answers)
  <2>1. r = [proposal |-> r.proposal, review |-> r.review, promotion |-> r.promotion]
        /\ r.proposal \in Payload
    BY DEF Record
  <2>2. [r EXCEPT !.review = v] = [proposal |-> r.proposal, review |-> v, promotion |-> Unset]
    BY <1>1, <2>1
  <2> QED
    BY <2>1, <2>2 DEF Record
<1>2. ASSUME r.review.state = "accepted", NEW x \in Answers
      PROVE  [r EXCEPT !.promotion = x] \in Record(Answers)
  <2>1. r = [proposal |-> r.proposal, review |-> r.review, promotion |-> r.promotion]
        /\ r.proposal \in Payload
    BY DEF Record
  <2>2. r.review \in [state: {"accepted"}, payload: Payload]
    BY <1>2 DEF Record, Review
  <2>3. [r EXCEPT !.promotion = x] = [proposal |-> r.proposal, review |-> r.review, promotion |-> x]
    BY <2>1
  <2> QED
    BY <2>1, <2>2, <2>3 DEF Record
<1> QED
  BY <1>1, <1>2

LEMMA PromotingFields ==
    ASSUME NEW t \in Promoting(Answers)
    PROVE  /\ t.pc \in {"idle", "submit", "await", "mark"}
           /\ t.pc # "idle" => t.candidate \in Candidate /\ t.payload \in Payload
           /\ t.pc = "mark" => t.result \in Answers
BY DEF Promoting

LEMMA PromotingShapes ==
    /\ [pc |-> "idle"] \in Promoting(Answers)
    /\ \A p \in {"submit", "await"}, c \in Candidate, d \in Payload :
         [pc |-> p, candidate |-> c, payload |-> d] \in Promoting(Answers)
    /\ \A c \in Candidate, d \in Payload, x \in Answers :
         [pc |-> "mark", candidate |-> c, payload |-> d, result |-> x] \in Promoting(Answers)
BY DEF Promoting

SourceTyped ==
    /\ request \in [OperationId -> Promotions \union Write \union {None}]
    /\ outcome \in [OperationId -> Answers \union {None}]

\* A promotion under way is that of an accepted review.
PromotingOK(k) ==
    promoting[k].pc # "idle" =>
      /\ IsAccepted(promoting[k].candidate)
      /\ candidate[promoting[k].candidate].review.payload = promoting[k].payload
      /\ promoting[k].pc = "mark" =>
           /\ outcome[promoting[k].candidate] # None
           /\ outcome[promoting[k].candidate] = promoting[k].result

RequestOK(c) ==
    request[c] # None =>
      /\ IsAccepted(c)
      /\ request[c] = OperationOf(c, candidate[c].review.payload)
      /\ Refers[request[c].val] # None =>
           \E d \in Agrees[request[c].val] : IsReadyAs(Refers[request[c].val], d)

RecordedOK(c) ==
    (candidate[c] # Unset /\ candidate[c].promotion # Unset) =>
      outcome[c] # None /\ candidate[c].promotion = outcome[c]

CInv ==
    /\ CandidateTypeOK(Answers)
    /\ SourceTyped
    /\ \A k \in Slot : PromotingOK(k)
    /\ \A c \in Candidate : RequestOK(c) /\ RecordedOK(c)

\* What no step takes back.
ReviewsStay ==
    \A c \in Candidate : IsAccepted(c) =>
      candidate'[c] # Unset /\ candidate'[c].review = candidate[c].review

OutcomesStay == \A c \in Candidate : outcome[c] # None => outcome'[c] = outcome[c]

LEMMA RequestStays ==
    ASSUME CInv, FilesStay, ReviewsStay, NEW c \in Candidate, request'[c] = request[c]
    PROVE  RequestOK(c)'
<1> SUFFICES ASSUME request[c] # None
             PROVE  /\ IsAccepted(c)'
                    /\ request[c] = OperationOf(c, candidate'[c].review.payload)
                    /\ Refers[request[c].val] # None =>
                         \E d \in Agrees[request[c].val] : IsReadyAs(Refers[request[c].val], d)'
  BY DEF RequestOK
<1>1. /\ IsAccepted(c)
      /\ request[c] = OperationOf(c, candidate[c].review.payload)
      /\ Refers[request[c].val] # None =>
           \E d \in Agrees[request[c].val] : IsReadyAs(Refers[request[c].val], d)
  BY DEF CInv, RequestOK
<1>2. candidate'[c] # Unset /\ candidate'[c].review = candidate[c].review
  BY <1>1 DEF ReviewsStay
<1>3. IsAccepted(c)'
  BY <1>1, <1>2 DEF IsAccepted
<1>4. request[c].val \in Payload
  <2>1. candidate[c] \in Record(Answers)
    BY <1>1 DEF CInv, CandidateTypeOK, IsAccepted
  <2>2. candidate[c].review.payload \in Payload
    BY <1>1, <2>1, RecordFields DEF IsAccepted
  <2> QED
    BY <1>1, <2>2 DEF OperationOf
<1>5. Refers[request[c].val] # None =>
        \E d \in Agrees[request[c].val] : IsReadyAs(Refers[request[c].val], d)'
  BY <1>1, <1>4, ReadyStays, RefersAssumption
<1> QED
  BY <1>1, <1>2, <1>3, <1>5

LEMMA PromotingStays ==
    ASSUME CInv, ReviewsStay, OutcomesStay, NEW k \in Slot, promoting'[k] = promoting[k]
    PROVE  PromotingOK(k)'
<1> SUFFICES ASSUME promoting[k].pc # "idle"
             PROVE  PromotingOK(k)'
  BY DEF PromotingOK
<1>1. promoting[k].candidate \in Candidate
  BY PromotingFields, SlotAssumption DEF CInv, CandidateTypeOK
<1> QED
  BY <1>1 DEF CInv, PromotingOK, ReviewsStay, OutcomesStay, IsAccepted

LEMMA CandidatesGoOn ==
    ASSUME CInv, FilesStay, ReviewsStay, OutcomesStay,
           CandidateTypeOK(Answers)', SourceTyped',
           \A k \in Slot : promoting'[k] = promoting[k] \/ PromotingOK(k)',
           \A c \in Candidate : request'[c] = request[c] \/ RequestOK(c)',
           \A c \in Candidate : RecordedOK(c)'
    PROVE  CInv'
BY RequestStays, PromotingStays DEF CInv

\* Steps of neither candidates nor the source.
LEMMA CandidatesRest ==
    ASSUME CInv, FilesStay, UNCHANGED <<candidateVars, sourceVars>>
    PROVE  CInv'
<1>1. UNCHANGED <<candidate, promoting, shown, objects, request, outcome>>
  BY DEF candidateVars, sourceVars
<1>2. ReviewsStay /\ OutcomesStay
  BY <1>1 DEF ReviewsStay, OutcomesStay, IsAccepted
<1>3. CandidateTypeOK(Answers)' /\ SourceTyped'
  BY <1>1 DEF CInv, CandidateTypeOK, SourceTyped
<1>4. \A c \in Candidate : RecordedOK(c)'
  BY <1>1 DEF CInv, RecordedOK
<1> QED
  BY <1>1, <1>2, <1>3, <1>4, CandidatesGoOn

-----------------------------------------------------------------------------
(***************************************************************************)
(* The candidates, step by step.                                           *)
(***************************************************************************)
\* A record that is there, and one slot or one record that changes.
LEMMA KnownRecord ==
    ASSUME CInv, NEW c \in Candidate, candidate[c] # Unset
    PROVE  candidate[c] \in Record(Answers)
BY DEF CInv, CandidateTypeOK

LEMMA SetRecord ==
    ASSUME CInv, NEW c \in Candidate, NEW r \in Record(Answers),
           candidate' = [candidate EXCEPT ![c] = r]
    PROVE  /\ candidate' \in [Candidate -> Record(Answers) \union {Unset}]
           /\ candidate'[c] = r /\ r # Unset
           /\ \A b \in Candidate \ {c} : candidate'[b] = candidate[b]
BY UnsetAssumption DEF CInv, CandidateTypeOK, Answers

LEMMA SetPromotion ==
    ASSUME CInv, NEW k \in Slot, NEW t \in Promoting(Answers),
           promoting' = [promoting EXCEPT ![k] = t]
    PROVE  /\ promoting' \in [Promoter -> Promoting(Answers)]
           /\ promoting'[k] = t
           /\ \A j \in Slot \ {k} : promoting'[j] = promoting[j]
BY SlotAssumption DEF CInv, CandidateTypeOK

LEMMA Submits ==
    ASSUME CInv, FilesStay, UNCHANGED sourceVars, NEW c \in Candidate, NEW p \in Payload,
           SubmitCandidate(c, p)
    PROVE  CInv'
<1> DEFINE r == [proposal |-> p, review |-> [state |-> "pending"], promotion |-> Unset]
<1>1. candidate[c] = Unset /\ UNCHANGED <<promoting, shown, request, outcome>>
  BY DEF SubmitCandidate, sourceVars
<1>2. r \in Record(Answers)
  BY DEF Record, Review
<1>3. /\ candidate' \in [Candidate -> Record(Answers) \union {Unset}]
      /\ candidate'[c] = r
      /\ \A b \in Candidate \ {c} : candidate'[b] = candidate[b]
  BY <1>2, SetRecord DEF SubmitCandidate
<1>4. ReviewsStay /\ OutcomesStay
  BY <1>1, <1>3 DEF ReviewsStay, OutcomesStay, IsAccepted
<1>5. CandidateTypeOK(Answers)' /\ SourceTyped'
  BY <1>1, <1>3 DEF CInv, CandidateTypeOK, SourceTyped
<1>6. \A b \in Candidate : RecordedOK(b)'
  BY <1>1, <1>3 DEF CInv, RecordedOK
<1> QED
  BY <1>1, <1>4, <1>5, <1>6, CandidatesGoOn

\* Only what is pending takes a decision, and what is pending was not promoted.
LEMMA Reviews ==
    ASSUME CInv, FilesStay, UNCHANGED sourceVars, NEW c \in Candidate, ReviewCandidate(c)
    PROVE  CInv'
<1>1. /\ candidate[c] # Unset /\ candidate[c].review.state = "pending"
      /\ UNCHANGED <<promoting, shown, request, outcome>>
  BY DEF ReviewCandidate, IsOpen, sourceVars
<1>2. PICK v \in Decisions : candidate' = [candidate EXCEPT ![c].review = v]
  BY DEF ReviewCandidate
<1>3. v \in Review
  BY DEF Decisions, Review
<1>4. candidate[c] \in Record(Answers) /\ candidate[c].promotion = Unset
  BY <1>1, KnownRecord, RecordFields
<1>5. PICK r \in Record(Answers) : r = [candidate[c] EXCEPT !.review = v] /\ r.promotion = Unset
  <2>1. [candidate[c] EXCEPT !.review = v] \in Record(Answers)
    BY <1>3, <1>4, RecordShapes
  <2>2. [candidate[c] EXCEPT !.review = v].promotion = Unset
    BY <1>4 DEF Record
  <2> QED
    BY <2>1, <2>2
<1>6. candidate' = [candidate EXCEPT ![c] = r]
  BY <1>2, <1>5
<1>7. /\ candidate' \in [Candidate -> Record(Answers) \union {Unset}]
      /\ candidate'[c] = r
      /\ \A b \in Candidate \ {c} : candidate'[b] = candidate[b]
  BY <1>6, SetRecord
<1>8. ReviewsStay /\ OutcomesStay
  BY <1>1, <1>7 DEF ReviewsStay, OutcomesStay, IsAccepted
<1>9. CandidateTypeOK(Answers)' /\ SourceTyped'
  BY <1>1, <1>7 DEF CInv, CandidateTypeOK, SourceTyped
<1>10. \A b \in Candidate : RecordedOK(b)'
  BY <1>1, <1>5, <1>7 DEF CInv, RecordedOK
<1> QED
  BY <1>1, <1>8, <1>9, <1>10, CandidatesGoOn

LEMMA Previews ==
    ASSUME CInv, FilesStay, UNCHANGED sourceVars, NEW c \in Candidate, Preview(c)
    PROVE  CInv'
<1>1. /\ IsAccepted(c) /\ UNCHANGED <<candidate, promoting, request, outcome>>
      /\ shown' = shown \union {<<c, candidate[c].review.payload>>}
  BY DEF Preview, sourceVars
<1>2. candidate[c].review.payload \in Payload
  BY <1>1, KnownRecord, RecordFields DEF IsAccepted
<1>3. ReviewsStay /\ OutcomesStay
  BY <1>1 DEF ReviewsStay, OutcomesStay, IsAccepted
<1>4. CandidateTypeOK(Answers)' /\ SourceTyped'
  BY <1>1, <1>2 DEF CInv, CandidateTypeOK, SourceTyped
<1>5. \A b \in Candidate : RecordedOK(b)'
  BY <1>1 DEF CInv, RecordedOK
<1> QED
  BY <1>1, <1>3, <1>4, <1>5, CandidatesGoOn

\* A promotion that goes on for the same accepted review.
LEMMA PromotionMoves ==
    ASSUME CInv, FilesStay, UNCHANGED <<candidate, shown, sourceVars>>, NEW k \in Slot,
           NEW t \in Promoting(Answers), promoting' = [promoting EXCEPT ![k] = t],
           t.pc # "idle" =>
             /\ IsAccepted(t.candidate)
             /\ candidate[t.candidate].review.payload = t.payload
             /\ t.pc = "mark" => outcome[t.candidate] # None /\ outcome[t.candidate] = t.result
    PROVE  CInv'
<1>1. UNCHANGED <<request, outcome>>
  BY DEF sourceVars
<1>2. /\ promoting' \in [Promoter -> Promoting(Answers)]
      /\ promoting'[k] = t
      /\ \A j \in Slot \ {k} : promoting'[j] = promoting[j]
  BY SetPromotion
<1>3. ReviewsStay /\ OutcomesStay
  BY <1>1 DEF ReviewsStay, OutcomesStay, IsAccepted
<1>4. CandidateTypeOK(Answers)' /\ SourceTyped'
  BY <1>1, <1>2 DEF CInv, CandidateTypeOK, SourceTyped
<1>5. \A b \in Candidate : RecordedOK(b)'
  BY <1>1 DEF CInv, RecordedOK
<1>6. PromotingOK(k)'
  BY <1>1, <1>2 DEF PromotingOK, IsAccepted
<1> QED
  BY <1>1, <1>2, <1>3, <1>4, <1>5, <1>6, CandidatesGoOn

LEMMA PromotionBegins ==
    ASSUME CInv, FilesStay, UNCHANGED sourceVars, NEW k \in Slot, NEW c \in Candidate,
           BeginPromote(k, c)
    PROVE  CInv'
<1>1. candidate[c].review.payload \in Payload /\ IsAccepted(c)
  BY KnownRecord, RecordFields DEF BeginPromote, IsAccepted
<1>2. PICK t \in Promoting(Answers) :
        t = [pc |-> "submit", candidate |-> c, payload |-> candidate[c].review.payload]
  BY <1>1, PromotingShapes
<1>3. promoting' = [promoting EXCEPT ![k] = t] /\ UNCHANGED <<candidate, shown>>
  BY <1>2 DEF BeginPromote
<1> QED
  BY <1>1, <1>2, <1>3, PromotionMoves

\* What a promotion under way is about.
LEMMA Underway ==
    ASSUME CInv, NEW k \in Slot, promoting[k].pc # "idle"
    PROVE  /\ promoting[k] \in Promoting(Answers)
           /\ promoting[k].candidate \in Candidate
           /\ promoting[k].payload \in Payload
           /\ IsAccepted(promoting[k].candidate)
           /\ candidate[promoting[k].candidate].review.payload = promoting[k].payload
BY PromotingFields, SlotAssumption DEF CInv, CandidateTypeOK, PromotingOK

LEMMA Awaits ==
    ASSUME CInv, FilesStay, NEW k \in Slot, AwaitPromotion(k)
    PROVE  CInv'
<1>1. /\ promoting[k].pc # "idle"
      /\ UNCHANGED <<candidate, shown, sourceVars>>
  BY DEF AwaitPromotion, PromotionAt
<1>2. CASE outcome[promoting[k].candidate] # None
           /\ Answered(k, outcome[promoting[k].candidate])
  <2>1. outcome[promoting[k].candidate] \in Answers
    BY <1>1, <1>2, Underway DEF CInv, SourceTyped, OperationId
  <2>2. PICK t \in Promoting(Answers) :
          t = [pc |-> "mark", candidate |-> promoting[k].candidate,
               payload |-> promoting[k].payload, result |-> outcome[promoting[k].candidate]]
    BY <1>1, <2>1, Underway, PromotingShapes
  <2>3. promoting' = [promoting EXCEPT ![k] = t]
    BY <1>2, <2>2 DEF Answered, Promotion
  <2> QED
    BY <1>1, <1>2, <2>2, <2>3, Underway, PromotionMoves
<1>3. CASE EndPromotion(k)
  BY <1>1, <1>3, PromotingShapes, PromotionMoves DEF EndPromotion, Promotion
<1> QED
  BY <1>2, <1>3 DEF AwaitPromotion

LEMMA Marks ==
    ASSUME CInv, FilesStay, UNCHANGED sourceVars, NEW k \in Slot, MarkPromoted(k)
    PROVE  CInv'
<1>1. PICK c : c = promoting[k].candidate
  OBVIOUS
<1>2. /\ promoting[k].pc = "mark" /\ UNCHANGED <<shown, request, outcome>>
      /\ candidate' = [candidate EXCEPT ![c].promotion = promoting[k].result]
      /\ promoting' = [promoting EXCEPT ![k] = [pc |-> "idle"]]
  BY <1>1 DEF MarkPromoted, PromotionAt, EndPromotion, Promotion, sourceVars
<1>3. /\ c \in Candidate /\ IsAccepted(c)
      /\ promoting[k].result \in Answers
      /\ outcome[c] # None /\ outcome[c] = promoting[k].result
  BY <1>1, <1>2, Underway, PromotingFields DEF CInv, PromotingOK
<1>4. candidate[c] \in Record(Answers) /\ candidate[c].review.state = "accepted"
  BY <1>3, KnownRecord DEF IsAccepted
<1>5. PICK r \in Record(Answers) :
        /\ r = [candidate[c] EXCEPT !.promotion = promoting[k].result]
        /\ r.review = candidate[c].review /\ r.promotion = promoting[k].result
  <2>1. [candidate[c] EXCEPT !.promotion = promoting[k].result] \in Record(Answers)
    BY <1>3, <1>4, RecordShapes
  <2>2. /\ [candidate[c] EXCEPT !.promotion = promoting[k].result].review = candidate[c].review
        /\ [candidate[c] EXCEPT !.promotion = promoting[k].result].promotion = promoting[k].result
    BY <1>4 DEF Record
  <2> QED
    BY <2>1, <2>2
<1>6. candidate' = [candidate EXCEPT ![c] = r]
  BY <1>2, <1>5
<1>7. /\ candidate' \in [Candidate -> Record(Answers) \union {Unset}]
      /\ candidate'[c] = r /\ r # Unset
      /\ \A b \in Candidate \ {c} : candidate'[b] = candidate[b]
  BY <1>3, <1>6, SetRecord
<1>8. /\ promoting' \in [Promoter -> Promoting(Answers)]
      /\ promoting'[k] = [pc |-> "idle"]
      /\ \A j \in Slot \ {k} : promoting'[j] = promoting[j]
  BY <1>2, PromotingShapes, SetPromotion
<1>9. ReviewsStay /\ OutcomesStay
  BY <1>2, <1>5, <1>7 DEF ReviewsStay, OutcomesStay, IsAccepted
<1>10. CandidateTypeOK(Answers)' /\ SourceTyped'
  BY <1>2, <1>7, <1>8 DEF CInv, CandidateTypeOK, SourceTyped
<1>11. \A b \in Candidate : RecordedOK(b)'
  BY <1>2, <1>3, <1>5, <1>7 DEF CInv, RecordedOK
<1>12. PromotingOK(k)'
  BY <1>8 DEF PromotingOK
<1> QED
  BY <1>2, <1>8, <1>9, <1>10, <1>11, <1>12, CandidatesGoOn

-----------------------------------------------------------------------------
(***************************************************************************)
(* The source, step by step.                                               *)
(***************************************************************************)
\* An operation is bound, and perhaps answered; an answer is given once.
LEMMA Binds ==
    ASSUME CInv, NEW r \in Promotions \union Write, r.id \in OperationId,
           \/ Source!Accept(r)
           \/ Source!TakeEffect(r)
           \/ \E answer \in Answers : Source!Settle(r, answer)
    PROVE  /\ SourceTyped' /\ OutcomesStay
           /\ \A c \in Candidate \ {r.id} : request'[c] = request[c]
           /\ request'[r.id] \in {request[r.id], r}
<1>1. CASE Source!Accept(r)
  BY <1>1 DEF CInv, SourceTyped, OutcomesStay, OperationId, Source!Accept
<1>2. CASE Source!TakeEffect(r)
  BY <1>2 DEF CInv, SourceTyped, OutcomesStay, OperationId, Source!TakeEffect
<1>3. ASSUME NEW answer \in Answers, Source!Settle(r, answer)
      PROVE  /\ SourceTyped' /\ OutcomesStay
             /\ \A c \in Candidate \ {r.id} : request'[c] = request[c]
             /\ request'[r.id] \in {request[r.id], r}
  BY <1>3 DEF CInv, SourceTyped, OutcomesStay, OperationId, Source!Settle
<1> QED
  BY <1>1, <1>2, <1>3

\* The source moves and the candidates do not; what it binds to a candidate is
\* the operation of its accepted review.
LEMMA SourceMoves ==
    ASSUME CInv, FilesStay, UNCHANGED <<candidate, shown>>,
           SourceTyped', OutcomesStay, promoting' \in [Promoter -> Promoting(Answers)],
           \A k \in Slot : promoting'[k] = promoting[k] \/ PromotingOK(k)',
           \A c \in Candidate : request'[c] = request[c] \/ RequestOK(c)'
    PROVE  CInv'
<1>1. ReviewsStay
  BY DEF ReviewsStay, IsAccepted
<1>2. CandidateTypeOK(Answers)'
  BY DEF CInv, CandidateTypeOK
<1>3. \A c \in Candidate : RecordedOK(c)'
  BY DEF CInv, RecordedOK, OutcomesStay
<1> QED
  BY <1>1, <1>2, <1>3, CandidatesGoOn

LEMMA SourceSubmits ==
    ASSUME UInv, CInv, NEW k \in Slot, SubmitPromotion(k)
    PROVE  CInv'
<1>1. PICK c, p : c = promoting[k].candidate /\ p = promoting[k].payload
  OBVIOUS
<1>2. /\ promoting[k].pc = "submit"
      /\ c \in Candidate /\ p \in Payload
      /\ IsAccepted(c) /\ candidate[c].review.payload = p
  BY <1>1, Underway DEF SubmitPromotion, PromotionAt
<1>3. UNCHANGED <<candidate, shown, files>> /\ FilesStay
  BY DEF SubmitPromotion, artifacts, repository, fsVars, FilesStay,
     ContentFile, MetadataFile
<1>4. PICK t \in Promoting(Answers) : t = [promoting[k] EXCEPT !.pc = "await"]
        /\ t.pc = "await" /\ t.candidate = c /\ t.payload = p
  <2>1. promoting[k] = [pc |-> "submit", candidate |-> c, payload |-> p]
    BY <1>1, <1>2, Underway DEF Promoting
  <2>2. [promoting[k] EXCEPT !.pc = "await"] = [pc |-> "await", candidate |-> c, payload |-> p]
    BY <2>1
  <2> QED
    BY <1>2, <2>2, PromotingShapes
<1>5. CASE EndPromotion(k) /\ UNCHANGED sourceVars
  BY <1>3, <1>5, PromotingShapes, PromotionMoves DEF EndPromotion, Promotion
<1>6. CASE Promotion(k, t) /\ UNCHANGED sourceVars
  BY <1>2, <1>3, <1>4, <1>6, PromotionMoves DEF Promotion
<1>7. CASE /\ request[c] = None
           /\ Refers[p] # None => ReferenceIsReady(p)
           /\ Promotion(k, t)
           /\ \/ Source!Accept(OperationOf(c, p))
              \/ \E answer \in Answers : Source!Settle(OperationOf(c, p), answer)
  <2>1. PICK r \in Promotions : r = OperationOf(c, p) /\ r.id = c /\ r.val = p
    <3>1. OperationOf(c, p) \in Promotions
      BY <1>2 DEF Promotions
    <3>2. OperationOf(c, p).id = c /\ OperationOf(c, p).val = p
      BY DEF OperationOf
    <3> QED
      BY <3>1, <3>2
  <2>2. r.id \in OperationId
    BY <1>2, <2>1 DEF OperationId
  <2>3. /\ SourceTyped' /\ OutcomesStay
        /\ \A b \in Candidate \ {c} : request'[b] = request[b]
        /\ request'[c] \in {request[c], r}
    BY <1>7, <2>1, <2>2, Binds
  <2>4. /\ promoting' \in [Promoter -> Promoting(Answers)]
        /\ promoting'[k] = t
        /\ \A j \in Slot \ {k} : promoting'[j] = promoting[j]
    BY <1>7, SetPromotion DEF Promotion
  <2>5. PromotingOK(k)'
    BY <1>2, <1>3, <1>4, <2>4 DEF PromotingOK, IsAccepted
  <2>6. \A d : IsReadyAs(Refers[p], d)' = IsReadyAs(Refers[p], d)
    BY <1>3 DEF IsReadyAs
  <2>7. RequestOK(c)'
    BY <1>2, <1>3, <1>7, <2>1, <2>3, <2>6 DEF RequestOK, IsAccepted, ReferenceIsReady
  <2> QED
    BY <1>3, <2>3, <2>4, <2>5, <2>7, SourceMoves
<1> QED
  BY <1>1, <1>4, <1>5, <1>6, <1>7 DEF SubmitPromotion, Answers

LEMMA SourceCarriesOut ==
    ASSUME CInv, NEW r \in Promotions \union Write, CarryOut(r)
    PROVE  CInv'
<1>1. UNCHANGED <<candidate, shown, promoting, files>> /\ FilesStay
  BY DEF CarryOut, candidates, candidateVars, artifacts, repository, fsVars, FilesStay,
     ContentFile, MetadataFile
<1>2. r.id \in OperationId
  BY DEF OperationId, Promotions, OperationOf
<1>3. /\ SourceTyped' /\ OutcomesStay
      /\ \A c \in Candidate : request'[c] = request[c]
  <2>1. request[r.id] = r
    BY DEF CarryOut
  <2> QED
    BY <1>2, <2>1, Binds DEF CarryOut, Answers
<1> QED
  BY <1>1, <1>3, SourceMoves DEF CInv, CandidateTypeOK

LEMMA SourceAccepts ==
    ASSUME CInv, OtherWrite
    PROVE  CInv'
<1>1. PICK w \in Write : Source!Accept(w)
  BY DEF OtherWrite
<1>2. UNCHANGED <<candidate, shown, promoting, files>> /\ FilesStay
  BY DEF OtherWrite, candidates, candidateVars, artifacts, repository, fsVars, FilesStay,
     ContentFile, MetadataFile
<1>3. w.id \in OperationId /\ w.id \notin Candidate
  BY WriteAssumption DEF OperationId
<1>4. /\ SourceTyped' /\ OutcomesStay
      /\ \A c \in Candidate : request'[c] = request[c]
  BY <1>1, <1>3, Binds
<1> QED
  BY <1>2, <1>4, SourceMoves DEF CInv, CandidateTypeOK

LEMMA CrashKeepsCandidates ==
    ASSUME CInv, Crash
    PROVE  CInv'
<1>1. /\ UNCHANGED <<candidate, shown, request, outcome, files>>
      /\ promoting' = [k \in Slot |-> [pc |-> "idle"]]
  BY DEF Crash, sourceVars, fsVars
<1>2. FilesStay /\ OutcomesStay /\ SourceTyped'
  BY <1>1 DEF FilesStay, ContentFile, MetadataFile, OutcomesStay, CInv, SourceTyped
<1>3. promoting' \in [Promoter -> Promoting(Answers)]
  BY <1>1, PromotingShapes, SlotAssumption
<1>4. \A k \in Slot : PromotingOK(k)'
  BY <1>1 DEF PromotingOK
<1> QED
  BY <1>1, <1>2, <1>3, <1>4, SourceMoves

LEMMA CandidatesInit ==
    ASSUME Init
    PROVE  CInv
<1>1. /\ candidate = [c \in Candidate |-> Unset]
      /\ promoting = [k \in Promoter |-> [pc |-> "idle"]]
      /\ shown = {}
      /\ request = [o \in OperationId |-> None]
      /\ outcome = [o \in OperationId |-> None]
  BY DEF Init, CandidateInit, Source!SourceInit, OperationId
<1>2. CandidateTypeOK(Answers)
  BY <1>1, PromotingShapes DEF CandidateTypeOK
<1>3. SourceTyped
  BY <1>1 DEF SourceTyped
<1>4. \A k \in Slot : PromotingOK(k)
  BY <1>1, SlotAssumption DEF PromotingOK
<1>5. \A c \in Candidate : RequestOK(c) /\ RecordedOK(c)
  BY <1>1 DEF RequestOK, RecordedOK, OperationId
<1> QED
  BY <1>2, <1>3, <1>4, <1>5 DEF CInv

\* Nothing that is committed is changed or removed.
LEMMA FilesKept ==
    ASSUME UInv, [Next]_vars
    PROVE  FilesStay
<1>1. ASSUME UNCHANGED files PROVE FilesStay
  BY <1>1 DEF FilesStay, ContentFile, MetadataFile
<1>2. ASSUME NEW k \in Slot, FsRename(k) PROVE FilesStay
  BY <1>2, PutsPart
<1>3. ASSUME NEW k \in Slot, ArtifactStep(k) PROVE FilesStay
  <2>1. CASE FsStep(k)
    BY <1>1, <1>2, <2>1 DEF FsStep, FsRead, FsCheck, FsRecheck, FsCommitFails, fsVars
  <2>2. CASE TransferStep(k)
    <3>1. UNCHANGED fsVars
      BY <2>2 DEF TransferStep, Mint, CheckStaged, StartWrite, FinishWrite, Touch, Look, Find,
         Stored, Again, Close, Clear, Reload, Verify, Abandon, repository
    <3> QED
      BY <1>1, <3>1 DEF fsVars
  <2> QED
    BY <1>3, <2>1, <2>2 DEF ArtifactStep
<1>4. ASSUME NEW k \in Slot, HandlerStep(k) PROVE FilesStay
  <2>1. CASE SubmitPromotion(k) \/ AwaitPromotion(k) \/ LoadCollection(k)
    BY <1>1, <2>1 DEF SubmitPromotion, AwaitPromotion, LoadCollection, artifacts, repository, fsVars
  <2>2. CASE UNCHANGED artifacts
    BY <1>1, <2>2 DEF artifacts, repository, fsVars
  <2> QED
    BY <1>3, <1>4, <2>1, <2>2 DEF HandlerStep
<1>5. ASSUME NEW k \in Slot, ClientStep(k) PROVE FilesStay
  <2>1. UNCHANGED fsVars
    BY <1>5 DEF ClientStep, UploadRequest, CandidateRequest, SnapshotRequest, BeginCreate,
       BeginPut, BeginCommit, artifacts, repository
  <2> QED
    BY <1>1, <2>1 DEF fsVars
<1>6. ASSUME NEW u \in Upload, RetryPut(u) \/ RetryCommit(u) PROVE FilesStay
  BY <1>1, <1>6 DEF RetryPut, RetryCommit, BeginPut, BeginCommit, repository, fsVars
<1>7. CASE \/ \E r \in Promotions \union Write : CarryOut(r)
           \/ OtherWrite
           \/ Crash
           \/ UNCHANGED vars
  BY <1>1, <1>7 DEF CarryOut, OtherWrite, Crash, artifacts, repository, fsVars, vars
<1> QED
  BY <1>4, <1>5, <1>6, <1>7 DEF Next

LEMMA CandidatesKept ==
    ASSUME UInv, CInv, [Next]_vars
    PROVE  CInv'
<1>0. FilesStay
  BY FilesKept
<1>1. ASSUME NEW k \in Slot, HandlerStep(k) PROVE CInv'
  <2>1. CASE ArtifactStep(k) \/ LoadCollection(k) \/ UNCHANGED <<artifacts, candidates, sourceVars>>
    BY <1>0, <2>1, CandidatesRest DEF ArtifactStep, LoadCollection, candidates
  <2>2. CASE SubmitPromotion(k)
    BY <2>2, SourceSubmits
  <2>3. CASE AwaitPromotion(k)
    BY <1>0, <2>3, Awaits
  <2>4. CASE MarkPromoted(k) /\ UNCHANGED <<artifacts, snapshotVars, sourceVars>>
    BY <1>0, <2>4, Marks
  <2> QED
    BY <1>1, <2>1, <2>2, <2>3, <2>4 DEF HandlerStep
<1>2. ASSUME NEW k \in Slot, ClientStep(k) PROVE CInv'
  <2>1. CASE UploadRequest(k) \/ SnapshotRequest(k)
    BY <1>0, <2>1, CandidatesRest DEF UploadRequest, SnapshotRequest, candidates
  <2>2. CASE CandidateRequest(k)
    BY <1>0, <2>2, Submits, Reviews, Previews, PromotionBegins DEF CandidateRequest
  <2> QED
    BY <1>2, <2>1, <2>2 DEF ClientStep
<1>3. ASSUME NEW u \in Upload, RetryPut(u) \/ RetryCommit(u) PROVE CInv'
  BY <1>0, <1>3, CandidatesRest DEF RetryPut, RetryCommit, candidates
<1>4. ASSUME NEW r \in Promotions \union Write, CarryOut(r) PROVE CInv'
  BY <1>4, SourceCarriesOut
<1>5. CASE OtherWrite
  BY <1>5, SourceAccepts
<1>6. CASE Crash
  BY <1>6, CrashKeepsCandidates
<1>7. CASE UNCHANGED vars
  BY <1>0, <1>7, CandidatesRest DEF vars
<1> QED
  BY <1>1, <1>2, <1>3, <1>4, <1>5, <1>6, <1>7 DEF Next

-----------------------------------------------------------------------------
(***************************************************************************)
(* The snapshots.                                                          *)
(***************************************************************************)
Loading(at, seen, view) == [pc |-> "load", at |-> at, seen |-> seen, view |-> view]

\* Collection p was shown as the source held it in one of the states seen.
WasHeld(p, seen, view) == \E o \in seen : view[p] = o[p]

\* Each collection of a snapshot is shown as it was held at some moment; the
\* moments of two collections may differ (see SnapshotIsOneState).
CollectionsWereHeld ==
    \A s \in snapshots : \A p \in CollectionName : WasHeld(p, s.seen, s.view)

\* What has been read was there, and so far no state of the source is missed.
ViewOK(at, seen, view) ==
    /\ at \in Nat
    /\ DOMAIN view = CollectionName
    /\ objects \in seen
    /\ \A i \in DOMAIN Collections : i < at => WasHeld(Collections[i], seen, view)

LoadingOK(k) ==
    IsLoading(k) =>
      /\ loading[k] = Loading(loading[k].at, loading[k].seen, loading[k].view)
      /\ ViewOK(loading[k].at, loading[k].seen, loading[k].view)

SInv ==
    /\ DOMAIN objects = CollectionName
    /\ DOMAIN loading = Slot
    /\ \A k \in Slot : LoadingOK(k)
    /\ CollectionsWereHeld

LEMMA CollectionsAre ==
    /\ Len(Collections) \in Nat
    /\ DOMAIN Collections = 1..Len(Collections)
    /\ \A i \in DOMAIN Collections : Collections[i] \in CollectionName
    /\ \A p \in CollectionName : \E i \in DOMAIN Collections : p = Collections[i]
BY CollectionsAssumption DEF CollectionName

\* A snapshot that is not being made any more, or not changed, is as it should be.
LEMMA LoadingRests ==
    ASSUME SInv, UNCHANGED objects, DOMAIN loading' = Slot, UNCHANGED snapshots,
           \A k \in Slot : loading'[k] = loading[k] \/ loading'[k] = NotLoading
    PROVE  SInv'
<1>1. ASSUME NEW k \in Slot PROVE LoadingOK(k)'
  <2>1. CASE loading'[k] = loading[k]
    BY <2>1 DEF SInv, LoadingOK, ViewOK, IsLoading, Loading
  <2>2. CASE loading'[k] = NotLoading
    BY <2>2 DEF LoadingOK, IsLoading, NotLoading
  <2> QED
    BY <1>1, <2>1, <2>2
<1> QED
  BY <1>1 DEF SInv, CollectionsWereHeld

LEMMA SnapshotBegins ==
    ASSUME SInv, NEW k \in Slot, BeginSnapshot(k, objects), UNCHANGED objects
    PROVE  SInv'
<1>1. PICK seen, view :
        /\ seen = {objects}
        /\ view = [p \in CollectionName |-> {}]
  OBVIOUS
<1>2. loading' = [loading EXCEPT ![k] = Loading(1, seen, view)]
  BY <1>1 DEF BeginSnapshot, Loading, SInv
<1>3. loading'[k] = Loading(1, seen, view) /\ DOMAIN loading' = Slot
      /\ \A j \in Slot \ {k} : loading'[j] = loading[j]
  BY <1>2 DEF SInv
<1>4. ViewOK(1, seen, view)'
  BY <1>1, CollectionsAre DEF ViewOK
<1>5. LoadingOK(k)'
  BY <1>3, <1>4 DEF LoadingOK, Loading
<1>6. \A j \in Slot \ {k} : LoadingOK(j)'
  BY <1>3 DEF SInv, LoadingOK, ViewOK, IsLoading, Loading
<1> QED
  BY <1>3, <1>5, <1>6 DEF SInv, BeginSnapshot, CollectionsWereHeld

\* The collection that was read is shown as the source holds it.
LEMMA CollectionRead ==
    ASSUME SInv, NEW k \in Slot, IsLoading(k), ~IsLoaded(k),
           LoadedAs(k, objects[Collections[loading[k].at]]), UNCHANGED <<objects, snapshots>>
    PROVE  SInv'
<1>1. PICK at, seen, view :
        at = loading[k].at /\ seen = loading[k].seen /\ view = loading[k].view
  OBVIOUS
<1>2. loading[k] = Loading(at, seen, view) /\ ViewOK(at, seen, view)
  BY <1>1 DEF SInv, LoadingOK
<1>3. PICK p, shows : p = Collections[at] /\ shows = [view EXCEPT ![p] = objects[p]]
  OBVIOUS
<1>4. DOMAIN loading' = Slot /\ \A j \in Slot \ {k} : loading'[j] = loading[j]
  BY DEF LoadedAs, SInv
<1>5. loading'[k] = Loading(at + 1, seen, shows)
  <2>1. loading'[k] = [[loading[k] EXCEPT !.at = at + 1] EXCEPT !.view = [@ EXCEPT ![p] = objects[p]]]
    BY <1>1, <1>3 DEF LoadedAs, SInv
  <2>2. [loading[k] EXCEPT !.at = at + 1] = Loading(at + 1, seen, view)
    BY <1>2 DEF Loading
  <2>3. loading'[k] = [Loading(at + 1, seen, view) EXCEPT !.view = [@ EXCEPT ![p] = objects[p]]]
    BY <2>1, <2>2
  <2>4. Loading(at + 1, seen, view).view = view
    BY DEF Loading
  <2>5. loading'[k] = [Loading(at + 1, seen, view) EXCEPT !.view = shows]
    BY <1>3, <2>3, <2>4
  <2> QED
    BY <2>5 DEF Loading
<1>6. ViewOK(at + 1, seen, shows)'
  <2>1. at + 1 \in Nat /\ DOMAIN shows = CollectionName
    BY <1>2, <1>3 DEF ViewOK
  <2>2. ASSUME NEW i \in DOMAIN Collections, i < at + 1
        PROVE  WasHeld(Collections[i], seen, shows)
    <3>1. Collections[i] \in CollectionName /\ i \in Nat
      BY CollectionsAre
    <3>2. CASE Collections[i] = p
      BY <1>2, <1>3, <3>1, <3>2 DEF ViewOK, WasHeld
    <3>3. CASE Collections[i] # p
      <4>1. i < at
        BY <1>2, <1>3, <2>2, <3>1, <3>3 DEF ViewOK
      <4> QED
        BY <1>2, <1>3, <3>1, <3>3, <4>1 DEF ViewOK, WasHeld
    <3> QED
      BY <3>2, <3>3
  <2> QED
    BY <1>2, <2>1, <2>2 DEF ViewOK
<1>7. LoadingOK(k)'
  BY <1>5, <1>6 DEF LoadingOK, Loading
<1>8. \A j \in Slot \ {k} : LoadingOK(j)'
  BY <1>4 DEF SInv, LoadingOK, ViewOK, IsLoading, Loading
<1> QED
  BY <1>4, <1>7, <1>8 DEF SInv, CollectionsWereHeld

LEMMA SnapshotStored ==
    ASSUME SInv, NEW k \in Slot, StoreSnapshot(k), UNCHANGED objects
    PROVE  SInv'
<1>1. PICK at, seen, view :
        at = loading[k].at /\ seen = loading[k].seen /\ view = loading[k].view
  OBVIOUS
<1>2. ViewOK(at, seen, view) /\ at > Len(Collections)
  BY <1>1 DEF SInv, LoadingOK, StoreSnapshot, IsLoaded
<1>3. \A p \in CollectionName : WasHeld(p, seen, view)
  BY <1>2, CollectionsAre DEF ViewOK
<1>4. snapshots' = snapshots \union {[view |-> view, seen |-> seen]}
  BY <1>1 DEF StoreSnapshot
<1>5. CollectionsWereHeld'
  BY <1>3, <1>4 DEF SInv, CollectionsWereHeld
<1>6. \A j \in Slot : LoadingOK(j)'
  BY DEF SInv, StoreSnapshot, LoadingOK, ViewOK, IsLoading, Loading, NotLoading
<1> QED
  BY <1>5, <1>6 DEF SInv, StoreSnapshot

\* The source changes: all the snapshots being made take note.
LEMMA SourceChanges ==
    ASSUME SInv, NEW r \in Promotions \union Write, CarryOut(r)
    PROVE  SInv'
<1>1. DOMAIN objects' = CollectionName
  BY DEF CarryOut, Source!TakeEffect, Source!Settle, SInv
<1>2. loading' = [k \in Slot |->
        IF IsLoading(k) THEN [loading[k] EXCEPT !.seen = @ \union {objects'}] ELSE loading[k]]
  BY SlotAssumption DEF CarryOut, SourceIsSeen
<1>3. ASSUME NEW k \in Slot PROVE LoadingOK(k)'
  <2>1. CASE ~IsLoading(k)
    BY <1>2, <2>1 DEF LoadingOK, IsLoading
  <2>2. CASE IsLoading(k)
    <3>1. PICK at, seen, view :
            at = loading[k].at /\ seen = loading[k].seen /\ view = loading[k].view
      OBVIOUS
    <3>2. loading[k] = Loading(at, seen, view) /\ ViewOK(at, seen, view)
      BY <2>2, <3>1 DEF SInv, LoadingOK
    <3>3. PICK more : more = seen \union {objects'}
      OBVIOUS
    <3>4. loading'[k] = Loading(at, more, view)
      <4>1. [Loading(at, seen, view) EXCEPT !.seen = more] = Loading(at, more, view)
        BY DEF Loading
      <4>2. loading'[k] = [loading[k] EXCEPT !.seen = @ \union {objects'}]
        BY <1>2, <2>2
      <4>3. loading'[k] = [loading[k] EXCEPT !.seen = more]
        BY <3>1, <3>2, <3>3, <4>2 DEF Loading
      <4> QED
        BY <3>2, <4>1, <4>3
    <3>5. ViewOK(at, more, view)'
      BY <3>2, <3>3 DEF ViewOK, WasHeld
    <3> QED
      BY <3>4, <3>5 DEF LoadingOK, Loading
  <2> QED
    BY <2>1, <2>2
<1> QED
  BY <1>1, <1>2, <1>3 DEF SInv, CarryOut, CollectionsWereHeld

LEMMA SnapshotsInit ==
    ASSUME Init
    PROVE  SInv
BY HeldAssumption, SlotAssumption
DEF Init, SnapshotInit, Source!SourceInit, SInv, LoadingOK, IsLoading, NotLoading, CollectionName,
    CollectionsWereHeld

LEMMA SnapshotsKept ==
    ASSUME SInv, [Next]_vars
    PROVE  SInv'
<1>1. ASSUME UNCHANGED <<objects, snapshotVars>> PROVE SInv'
  BY <1>1, LoadingRests DEF SInv, snapshotVars
<1>2. ASSUME NEW k \in Slot, HandlerStep(k) PROVE SInv'
  <2>1. CASE ArtifactStep(k) \/ AwaitPromotion(k) \/ UNCHANGED <<artifacts, snapshotVars, sourceVars>>
    BY <1>1, <2>1 DEF ArtifactStep, AwaitPromotion, sourceVars
  <2>2. CASE SubmitPromotion(k)
    BY <1>1, <2>2 DEF SubmitPromotion, sourceVars, Source!Accept, Source!Settle
  <2>3. CASE LoadCollection(k)
    <3>1. UNCHANGED <<objects, snapshots>>
      BY <2>3 DEF LoadCollection, sourceVars
    <3>2. CASE LoadedAs(k, objects[Collections[loading[k].at]])
      BY <2>3, <3>1, <3>2, CollectionRead DEF LoadCollection
    <3>3. CASE AfterReadError(k)
      BY <3>1, <3>3, LoadingRests DEF AfterReadError, SInv
    <3> QED
      BY <2>3, <3>2, <3>3 DEF LoadCollection
  <2>4. CASE StoreSnapshot(k) /\ UNCHANGED <<artifacts, candidates, sourceVars>>
    BY <2>4, SnapshotStored DEF sourceVars
  <2> QED
    BY <1>2, <2>1, <2>2, <2>3, <2>4 DEF HandlerStep
<1>3. ASSUME NEW k \in Slot, ClientStep(k) PROVE SInv'
  <2>1. CASE UploadRequest(k) \/ CandidateRequest(k)
    BY <1>1, <2>1 DEF UploadRequest, CandidateRequest, sourceVars
  <2>2. CASE SnapshotRequest(k)
    BY <2>2, SnapshotBegins DEF SnapshotRequest, sourceVars
  <2> QED
    BY <1>3, <2>1, <2>2 DEF ClientStep
<1>4. CASE OtherWrite \/ (\E u \in Upload : RetryPut(u) \/ RetryCommit(u)) \/ UNCHANGED vars
  BY <1>1, <1>4 DEF OtherWrite, Source!Accept, RetryPut, RetryCommit, sourceVars, vars
<1>5. ASSUME NEW r \in Promotions \union Write, CarryOut(r) PROVE SInv'
  BY <1>5, SourceChanges
<1>6. CASE Crash
  BY <1>6, LoadingRests, SlotAssumption DEF Crash, sourceVars, SInv
<1> QED
  BY <1>2, <1>3, <1>4, <1>5, <1>6 DEF Next

-----------------------------------------------------------------------------
(***************************************************************************)
(* The theorems.                                                           *)
(***************************************************************************)
\* The invariants of the three parts, and the bound on the requests.
IInv ==
    /\ UInv
    /\ CInv
    /\ SInv
    /\ mix \in Mixes
    /\ begun \in 0..MaxRequests[mix]

\* IInv is an inductive invariant of the composition: whatever the handlers, the
\* repository's faults, the crashes and the other clients do, in any order.
THEOREM CurationInvariant == Spec => []IInv
<1>1. Init => IInv
  BY UploadsInit, CandidatesInit, SnapshotsInit, MixesAssumption DEF Init, IInv
<1>2. IInv /\ [Next]_vars => IInv'
  <2> SUFFICES ASSUME IInv, [Next]_vars PROVE IInv'
    OBVIOUS
  <2>1. UInv' /\ CInv' /\ SInv'
    BY UploadsKept, CandidatesKept, SnapshotsKept DEF IInv
  <2>2. UNCHANGED mix /\ (begun' = begun \/ (begun < MaxRequests[mix] /\ begun' = begun + 1))
    BY DEF Next, HandlerStep, ClientStep, RetryPut, RetryCommit, CarryOut, OtherWrite, Crash, vars
  <2>3. MaxRequests[mix] \in Nat
    BY MixesAssumption DEF IInv
  <2>4. mix' \in Mixes /\ begun' \in 0..MaxRequests[mix']
    BY <2>2, <2>3 DEF IInv
  <2> QED
    BY <2>1, <2>4 DEF IInv
<1> QED
  BY <1>1, <1>2, PTL DEF Spec

\* The variables keep their types: no handler holds anything but a known upload's
\* session, and what is recorded of a promotion is an answer of the source.
THEOREM TypesHold == Spec => []TypeOK
<1>1. IInv => TypeOK
  BY DEF IInv, UInv, CInv, TypeOK, Answers
<1> QED
  BY <1>1, CurationInvariant, PTL

\* A committed artifact has all the bytes its metadata declares (commit stores
\* the content first, and content that is there is never replaced by other).
THEOREM ArtifactsWhole == Spec => []ArtifactsAreWhole
<1>1. IInv => ArtifactsAreWhole
  BY DEF IInv, UInv
<1> QED
  BY <1>1, CurationInvariant, PTL

\* The artifact whose commit was answered is there, and is the one the upload's
\* session names, unless two creations of the upload overlapped: putContent and
\* commit write a session back, but only the one that is there.
THEOREM UploadsKeepArtifact == Spec => []UploadKeepsItsArtifact
<1>1. IInv => UploadKeepsItsArtifact
  <2> SUFFICES ASSUME IInv, NEW x \in acked
               PROVE  /\ IsReady(x[2])
                      /\ x[1] \notin raced => session[x[1]] # None /\ session[x[1]].artifact = x[2]
    BY DEF UploadKeepsItsArtifact
  <2>1. x[1] \in Upload /\ x[2] \in Artifact
    BY DEF IInv, UInv, ArtifactTypeOK
  <2>2. IsReady(x[2])
    BY <2>1 DEF IInv, UInv, AckedOK, MetadataFile, ArtifactsAreWhole
  <2>3. x[1] \notin raced => session[x[1]] # None /\ session[x[1]].artifact = x[2]
    BY <2>1 DEF IInv, UInv, OneSession
  <2> QED
    BY <2>2, <2>3
<1> QED
  BY <1>1, CurationInvariant, PTL

\* What the source knows under a candidate's operation id is what its reviewer
\* accepted, and refers to committed artifacts only; what is recorded of it is
\* the source's answer (only a pending candidate is reviewed, and a promotion
\* under way keeps to its review).
THEOREM PromotionsAsReviewed == Spec => []PromotedAsReviewed
<1>1. IInv => PromotedAsReviewed
  BY DEF IInv, CInv, RequestOK, RecordedOK, PromotedAsReviewed
<1> QED
  BY <1>1, CurationInvariant, PTL

\* Every collection in a snapshot is what the source held at some moment while the
\* snapshot was made: loadState reads the collections one by one, and a read that
\* fails ends it (the invariant is about the snapshots under way). The contract
\* asks for one moment for all of them, which the code does not keep: see
\* SnapshotIsOneState.
THEOREM SnapshotsAreTrue == Spec => []CollectionsWereHeld
<1>1. IInv => CollectionsWereHeld
  BY DEF IInv, SInv
<1> QED
  BY <1>1, CurationInvariant, PTL

\* No step removes a file of an artifact or changes its content, and metadata is
\* replaced only by metadata of the same upload session. (It is replaced: two
\* commits of one upload may both find none in commitFiles, and the later rename
\* puts another createdAt there.)
THEOREM FilesAreFinal == Spec => [][FilesStay]_vars
<1>1. IInv /\ [Next]_vars => [FilesStay]_vars
  BY FilesKept DEF IInv
<1> QED
  BY <1>1, CurationInvariant, PTL DEF Spec
=============================================================================
