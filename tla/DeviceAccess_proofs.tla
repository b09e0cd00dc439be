------------------------ MODULE DeviceAccess_proofs ------------------------
(***************************************************************************)
(* Proofs about DeviceAccess, for any number of headsets, pairings,        *)
(* sessions, handlers and faults: an approved pairing has at most one      *)
(* credential, revoked is gone, and using a credential does not lose it.   *)
(***************************************************************************)
EXTENDS DeviceAccess, TLAPS

-----------------------------------------------------------------------------
(***************************************************************************)
(* The invariant.                                                          *)
(***************************************************************************)
\* The decision on a pairing is yet to come: nobody has claimed it.
Unclaimed == {"unused", "open"}

\* A session that has left the pairing it was issued for: a headset has it, or
\* it is on its way to one or back.
InUse(s) ==
    \/ \E d \in Device : headset[d].stored = s \/ headset[d].token = s
    \/ \E k \in Slot : req[k].pc \in {"refresh", "recheck", "answered"} /\ req[k].session = s

\* ... or that can still be fetched from there.
Held(s) == InUse(s) \/ \E p \in Pairing : pairing[p].bootstrap = s

\* A claimed pairing has a device, an authorized one the session issued for it.
PairingOK(p) ==
    /\ pairing[p].state \notin Unclaimed => pairing[p].device \in Device
    /\ pairing[p].state # "authorized" => pairing[p].bootstrap = None
    /\ pairing[p].state = "authorized" =>
         /\ device[pairing[p].device] # "unknown"
         /\ pairing[p].bootstrap \in Session
         /\ session[pairing[p].bootstrap] # None
         /\ session[pairing[p].bootstrap].from = p

\* A session is its pairing's device's, and nobody has it before the pairing
\* is authorized.
SessionOK(s) ==
    /\ Held(s) => session[s] # None
    /\ session[s] # None =>
         /\ pairing[session[s].from].state \notin Unclaimed
         /\ pairing[session[s].from].device = session[s].device
         /\ Held(s) => pairing[session[s].from].state = "authorized"
         /\ session[s].status = "expired" => past[session[s].device].fate = {"cut"}

\* What a handler relies on between two stores.
RequestOK(k) ==
    /\ req[k].pc \in {"register", "issue", "conclude"} =>
         pairing[req[k].pairing].state \notin Unclaimed
    /\ req[k].pc \in {"issue", "conclude"} =>
         device[pairing[req[k].pairing].device] # "unknown"
    /\ req[k].pc = "conclude" =>
         /\ session[req[k].session] # None
         /\ session[req[k].session].from = req[k].pairing
         /\ ~Held(req[k].session)
         /\ \A j \in Slot \ {k} : req[j].pc = "conclude" => req[j].session # req[k].session
    /\ req[k].pc \in {"refresh", "verify", "lookup", "recheck"} => session[req[k].session] # None
    /\ req[k].pc = "reissue" =>
         /\ pairing[req[k].from].state = "authorized"
         /\ pairing[req[k].from].device = req[k].device
    /\ req[k].pc = "revoke" => past[req[k].device].fate = {"cut"}
    /\ req[k].pc = "answered" => Awaited(k)

\* The renewal that d waits for is of its own session.
Renewing(d, k) ==
    /\ req[k].pc \in {"refresh", "reissue", "recheck", "answered"}
    /\ req[k].pc = "refresh" => req[k].session = headset[d].stored
    /\ req[k].pc = "reissue" => req[k].device = d
    /\ req[k].pc = "recheck" => session[req[k].session].device = d
    /\ (req[k].pc = "answered" /\ req[k].status = "ok") =>
         req[k].session # None /\ session[req[k].session].device = d

\* What a headset relies on while it waits.
HeadsetOK(d) ==
    /\ headset[d].polling # None =>
         /\ headset[d].pc = "idle"
         /\ pairing[headset[d].polling].state \notin Unclaimed
         /\ pairing[headset[d].polling].device = d
    /\ headset[d].pc # "idle" => headset[d].stored # None
    /\ headset[d].pc \in {"calling", "sent"} => headset[d].token # None
    /\ headset[d].stored # None => session[headset[d].stored].device = d
    /\ headset[d].token # None => session[headset[d].token].device = d
    /\ headset[d].slot # None <=> headset[d].pc \in {"sent", "renewing"}
    /\ headset[d].slot # None => \A e \in Device \ {d} : headset[e].slot # headset[d].slot
    /\ headset[d].pc = "sent" => req[headset[d].slot].pc \in {"verify", "lookup", "answered"}
    /\ headset[d].pc = "renewing" => Renewing(d, headset[d].slot)

\* The credential of a pairing: a live session in somebody's hands, or the slot
\* in which it is being exchanged for the next one.
Carries(s, p) == session[s] # None /\ session[s].from = p /\ Live(s) /\ Held(s)
Exchanges(k, p) == req[k].pc = "reissue" /\ req[k].from = p

\* A pairing has one at most, ...
OneCredential(p) ==
    /\ \A s, t \in Session : Carries(s, p) /\ Carries(t, p) => s = t
    /\ \A j, k \in Slot : Exchanges(j, p) /\ Exchanges(k, p) => j = k
    /\ \A s \in Session, k \in Slot : ~(Carries(s, p) /\ Exchanges(k, p))

\* ... and none after the device's sessions were revoked.
NoCredentialLeft(d) ==
    \A p \in past[d].ended :
      /\ pairing[p].device = d /\ pairing[p].state = "authorized"
      /\ p \notin past[d].renewing =>
           /\ \A s \in Session : ~Carries(s, p)
           /\ \A k \in Slot : ~Exchanges(k, p)

\* Nobody has touched the sessions of the pairing that d is still polling.
Untouched(d) ==
    LET p == headset[d].polling
    IN  p # None =>
          /\ \A k \in Slot : ~Exchanges(k, p)
          /\ \A s \in Session : (session[s] # None /\ session[s].from = p) =>
               /\ ~InUse(s)
               /\ Live(s) \/ past[d].fate = {"cut"}

\* A device that was neither disabled nor revoked nor logged out.
Undisturbed(d) == past[d].fate # {"cut"} /\ "disabled" \notin past[d].fate

\* It is known as what it is, ...
StatusOK(d) ==
    /\ Undisturbed(d) => device[d] \in {"unknown", "authorized"}
    /\ "paired" \in past[d].fate => device[d] # "unknown"

\* ... and its headset has a live session, or is being given one.
Kept(d) ==
    (faults = 0 /\ past[d].fate = {"paired"}) =>
      LET h == headset[d]
          r == req[h.slot]
      IN  /\ h.stored # None
          /\ h.pc # "renewing" => Live(h.stored)
          /\ h.pc = "renewing" =>
               /\ r.pc = "refresh" => Live(h.stored)
               /\ r.pc = "recheck" => Live(r.session)
               /\ r.pc = "answered" => r.status = "ok" /\ Live(r.session)

\* Without failures every refresh is awaited.
NoStraggler(k) == (faults = 0 /\ req[k].pc = "refresh") => Awaited(k)

WorldOK ==
    /\ \A p \in Pairing : PairingOK(p) /\ OneCredential(p)
    /\ \A s \in Session : SessionOK(s)
    /\ \A d \in Device : NoCredentialLeft(d) /\ StatusOK(d)

RequestsOK == \A k \in Slot : RequestOK(k) /\ NoStraggler(k)

HeadsetsOK == \A d \in Device : HeadsetOK(d) /\ Untouched(d) /\ Kept(d)

IInv == TypeOK /\ WorldOK /\ RequestsOK /\ HeadsetsOK

-----------------------------------------------------------------------------
(***************************************************************************)
(* Shapes of the records.                                                  *)
(***************************************************************************)
\* What the fields of a handler are, by the point it has reached.
LEMMA RequestFields ==
    ASSUME NEW r \in Request
    PROVE  /\ r.pc \in {"idle", "register", "issue", "conclude", "revoke", "refresh",
                        "verify", "recheck", "lookup", "reissue", "answered"}
           /\ r.pc = "idle" => r = NoRequest
           /\ r.pc \in {"register", "issue", "conclude"} => r.pairing \in Pairing
           /\ r.pc \in {"conclude", "refresh", "verify", "recheck", "lookup"} =>
                r.session \in Session
           /\ r.pc \in {"revoke", "reissue"} => r.device \in Device
           /\ r.pc = "reissue" => r.from \in Pairing
           /\ r.pc = "answered" =>
                r.status \in {"ok", "401", "403"} /\ r.session \in Session \union {None}
BY DEF Request, NoRequest

\* The handlers there can be.
LEMMA RequestShapes ==
    /\ NoRequest \in Request
    /\ \A p \in Pairing, pc \in {"register", "issue"} : [pc |-> pc, pairing |-> p] \in Request
    /\ \A p \in Pairing, s \in Session :
         [pc |-> "conclude", pairing |-> p, session |-> s] \in Request
    /\ \A d \in Device : [pc |-> "revoke", device |-> d] \in Request
    /\ \A s \in Session, pc \in {"refresh", "verify", "recheck", "lookup"} :
         [pc |-> pc, session |-> s] \in Request
    /\ \A d \in Device, p \in Pairing :
         [pc |-> "reissue", device |-> d, from |-> p] \in Request
    /\ \A status \in {"ok", "401", "403"}, s \in Session \union {None} :
         [pc |-> "answered", status |-> status, session |-> s] \in Request
BY DEF Request, NoRequest

LEMMA HeadsetFields ==
    ASSUME NEW h \in Headset
    PROVE  /\ h.pc \in {"idle", "calling", "sent", "renew", "renewing"}
           /\ h.tries \in 0..1
           /\ h.polling \in Pairing \union {None}
           /\ h.stored \in Session \union {None}
           /\ h.token \in Session \union {None}
           /\ h.slot \in Slot \union {None}
BY DEF Headset

\* None is no datum.
LEMMA NoneIsNothing ==
    /\ None \notin Device /\ None \notin Pairing
    /\ None \notin Session /\ None \notin Slot
BY NoneAssumption

-----------------------------------------------------------------------------
(***************************************************************************)
(* What a step does to the handlers and to the history of failures.        *)
(***************************************************************************)
LEMMA ContinueTyped ==
    ASSUME req \in [Slot -> Request], NEW k \in Slot, NEW next \in Request,
           Continue(k, next)
    PROVE  /\ req' \in [Slot -> Request]
           /\ req'[k] = next
           /\ \A j \in Slot \ {k} : req'[j] = req[j]
BY DEF Continue

LEMMA DoneTyped ==
    ASSUME req \in [Slot -> Request], NEW k \in Slot, Done(k)
    PROVE  /\ req' \in [Slot -> Request]
           /\ req'[k] = NoRequest
           /\ \A j \in Slot \ {k} : req'[j] = req[j]
BY RequestShapes DEF Done

LEMMA AnswerTyped ==
    ASSUME req \in [Slot -> Request], NEW k \in Slot,
           NEW status \in {"ok", "401", "403"}, NEW s \in Session \union {None},
           Answer(k, status, s)
    PROVE  /\ req' \in [Slot -> Request]
           /\ Awaited(k) => req'[k] = [pc |-> "answered", status |-> status, session |-> s]
           /\ ~Awaited(k) => req'[k] = NoRequest
           /\ \A j \in Slot \ {k} : req'[j] = req[j]
<1>1. [pc |-> "answered", status |-> status, session |-> s] \in Request
      /\ NoRequest \in Request
  BY RequestShapes
<1> QED
  BY <1>1 DEF Answer

\* A failure is counted.
LEMMA FaultTyped ==
    ASSUME faults \in Nat, NEW kind, Fault(kind)
    PROVE  faults' \in Nat /\ faults' # 0
BY DEF Fault

LEMMA PastGrows ==
    ASSUME NEW r \in [Device -> Past], NEW d \in Device,
           NEW some \in SUBSET Pairing, NEW held \in SUBSET Pairing
    PROVE  [r EXCEPT ![d].ended = @ \union some, ![d].renewing = @ \union held]
             \in [Device -> Past]
<1>1. PICK q : q = [r[d] EXCEPT !.ended = @ \union some, !.renewing = @ \union held]
  OBVIOUS
<1>2. q \in Past
  BY <1>1 DEF Past
<1>3. [r EXCEPT ![d].ended = @ \union some, ![d].renewing = @ \union held]
        = [r EXCEPT ![d] = q]
  BY <1>1 DEF Past
<1> QED
  BY <1>2, <1>3

LEMMA CutOffTyped ==
    ASSUME past \in [Device -> Past], NEW d \in Device, CutOff(d)
    PROVE  /\ past' \in [Device -> Past]
           /\ past'[d].fate = {"cut"}
           /\ \A e \in Device \ {d} : past'[e] = past[e]
           /\ \A e \in Device : past'[e].ended = past[e].ended
                                /\ past'[e].renewing = past[e].renewing
<1>1. \A r \in Past : /\ [r EXCEPT !.fate = {"cut"}] \in Past
                      /\ [r EXCEPT !.fate = {"cut"}].fate = {"cut"}
                      /\ [r EXCEPT !.fate = {"cut"}].ended = r.ended
                      /\ [r EXCEPT !.fate = {"cut"}].renewing = r.renewing
  BY DEF Past
<1>2. past' = [past EXCEPT ![d] = [past[d] EXCEPT !.fate = {"cut"}]]
  BY DEF CutOff
<1> QED
  BY <1>1, <1>2

LEMMA NoteTyped ==
    ASSUME past \in [Device -> Past], NEW d \in Device,
           NEW event \in {"paired", "disabled"}, Note(d, event)
    PROVE  /\ past' \in [Device -> Past]
           /\ past[d].fate = {"cut"} => past'[d].fate = {"cut"}
           /\ past[d].fate # {"cut"} => past'[d].fate = past[d].fate \union {event}
           /\ \A e \in Device \ {d} : past'[e] = past[e]
           /\ \A e \in Device : past'[e].ended = past[e].ended
                                /\ past'[e].renewing = past[e].renewing
BY DEF Note, Past

-----------------------------------------------------------------------------
(***************************************************************************)
(* What a step leaves alone, and what follows for the rest.                *)
(***************************************************************************)
\* Decisions stay, and so do devices of claims.
PairingsGoOn ==
    \A p \in Pairing :
      /\ pairing[p].state \notin Unclaimed =>
           pairing'[p].state \notin Unclaimed /\ pairing'[p].device = pairing[p].device
      /\ pairing[p].state = "authorized" => pairing'[p] = pairing[p]

\* Sessions stay, and none is revived.
SessionsGoOn ==
    \A s \in Session : session[s] # None =>
      /\ session'[s] # None
      /\ session'[s].device = session[s].device
      /\ session'[s].from = session[s].from
      /\ Live(s)' => Live(s)
      /\ session'[s].status = "expired" =>
           session[s].status = "expired" \/ past'[session[s].device].fate = {"cut"}

\* Known devices stay known, cut ones cut.
DevicesGoOn ==
    \A d \in Device :
      /\ device[d] # "unknown" => device'[d] # "unknown"
      /\ past[d].fate = {"cut"} => past'[d].fate = {"cut"}

NoneIssued == \A s \in Session : session'[s] # None => session[s] # None

\* Nobody gets hold of a session, and none is being exchanged that was not.
NobodyGains ==
    /\ \A s \in Session : Held(s)' => Held(s)
    /\ \A k \in Slot, p \in Pairing : Exchanges(k, p)' => Exchanges(k, p)

NoRevocation ==
    \A d \in Device : past'[d].ended = past[d].ended /\ past'[d].renewing = past[d].renewing

\* A session that nobody may use is revoked with its device only.
UnusedStay ==
    \A s \in Session :
      (session[s] # None /\ ~InUse(s)) =>
        /\ ~InUse(s)'
        /\ Live(s) => Live(s)' \/ past'[session[s].device].fate = {"cut"}

LEMMA SessionFields ==
    ASSUME NEW r \in SessionRecord
    PROVE  r # None => r.device \in Device /\ r.from \in Pairing /\ r.status \in SessionStatus
BY DEF SessionRecord

LEMMA PairingStays ==
    ASSUME NEW p \in Pairing, PairingOK(p), TypeOK, pairing'[p] = pairing[p],
           SessionsGoOn, DevicesGoOn
    PROVE  PairingOK(p)'
<1>1. CASE pairing[p].state = "authorized"
  <2>1. pairing[p].device \in Device /\ device'[pairing[p].device] # "unknown"
    BY <1>1 DEF PairingOK, Unclaimed, DevicesGoOn
  <2>2. /\ session'[pairing[p].bootstrap] # None
        /\ session'[pairing[p].bootstrap].from = p
    BY <1>1 DEF PairingOK, SessionsGoOn
  <2> QED
    BY <1>1, <2>1, <2>2 DEF PairingOK
<1>2. CASE pairing[p].state # "authorized"
  BY <1>2 DEF PairingOK
<1> QED
  BY <1>1, <1>2

LEMMA SessionStays ==
    ASSUME NEW s \in Session, SessionOK(s), TypeOK, session[s] # None,
           PairingsGoOn, SessionsGoOn, DevicesGoOn,
           Held(s)' => Held(s)
    PROVE  SessionOK(s)'
<1>1. session[s].device \in Device /\ session[s].from \in Pairing
  BY SessionFields DEF TypeOK
<1> QED
  BY <1>1 DEF SessionOK, PairingsGoOn, SessionsGoOn, DevicesGoOn

LEMMA SessionStaysAway ==
    ASSUME NEW s \in Session, SessionOK(s), session[s] = None, session'[s] = None,
           Held(s)' => Held(s)
    PROVE  SessionOK(s)'
BY DEF SessionOK

LEMMA CarriesStays ==
    ASSUME NEW s \in Session, NEW p \in Pairing, SessionOK(s), SessionsGoOn, NobodyGains,
           Carries(s, p)'
    PROVE  Carries(s, p)
BY DEF SessionsGoOn, SessionOK, NobodyGains, Carries

LEMMA CredentialsStay ==
    ASSUME NEW p \in Pairing, OneCredential(p), \A s \in Session : SessionOK(s),
           SessionsGoOn, NobodyGains
    PROVE  OneCredential(p)'
BY CarriesStays DEF OneCredential, NobodyGains

LEMMA NoneComesBack ==
    ASSUME NEW d \in Device, NoCredentialLeft(d), TypeOK, \A s \in Session : SessionOK(s),
           SessionsGoOn, NobodyGains, PairingsGoOn,
           past'[d].ended = past[d].ended, past'[d].renewing = past[d].renewing
    PROVE  NoCredentialLeft(d)'
<1>1. past[d].ended \subseteq Pairing
  BY DEF TypeOK, Past
<1>2. \A p \in past[d].ended : pairing'[p].device = d /\ pairing'[p].state = "authorized"
  BY <1>1 DEF NoCredentialLeft, PairingsGoOn, Unclaimed
<1> QED
  BY <1>1, <1>2, CarriesStays DEF NoCredentialLeft, NobodyGains

LEMMA StatusStays ==
    ASSUME NEW d \in Device, StatusOK(d), device'[d] = device[d], past'[d].fate = past[d].fate
    PROVE  StatusOK(d)'
BY DEF StatusOK, Undisturbed

\* The world, when nothing in it was decided, issued or handed out.
LEMMA WorldStays ==
    ASSUME TypeOK, WorldOK, PairingsGoOn, SessionsGoOn, DevicesGoOn, NobodyGains,
           \A p \in Pairing : pairing'[p] = pairing[p] \/ PairingOK(p)',
           \A s \in Session : session[s] = None => session'[s] = None \/ SessionOK(s)',
           \A d \in Device : \/ /\ past'[d].ended = past[d].ended
                                /\ past'[d].renewing = past[d].renewing
                             \/ NoCredentialLeft(d)',
           \A d \in Device : StatusOK(d)'
    PROVE  WorldOK'
<1>1. \A p \in Pairing : PairingOK(p)'
  BY PairingStays DEF WorldOK
<1>2. \A p \in Pairing : OneCredential(p)'
  BY CredentialsStay DEF WorldOK
<1>3. \A s \in Session : SessionOK(s)'
  <2> SUFFICES ASSUME NEW s \in Session PROVE SessionOK(s)'
    OBVIOUS
  <2>1. CASE session[s] # None
    BY <2>1, SessionStays DEF WorldOK, NobodyGains
  <2>2. CASE session[s] = None
    BY <2>2, SessionStaysAway DEF WorldOK, NobodyGains
  <2> QED
    BY <2>1, <2>2
<1>4. \A d \in Device : NoCredentialLeft(d)'
  BY NoneComesBack DEF WorldOK
<1> QED
  BY <1>1, <1>2, <1>3, <1>4 DEF WorldOK

\* A handler that the step is not about.
LEMMA RequestStays ==
    ASSUME NEW k \in Slot, RequestOK(k), TypeOK, req'[k] = req[k],
           \A p \in Pairing : pairing[p].state \notin Unclaimed => pairing[p].device \in Device,
           PairingsGoOn, SessionsGoOn, DevicesGoOn,
           req[k].pc = "conclude" =>
             /\ Held(req[k].session)' => Held(req[k].session)
             /\ \A j \in Slot \ {k} : req'[j].pc = "conclude" => req'[j].session # req[k].session,
           req[k].pc = "answered" => Awaited(k)'
    PROVE  RequestOK(k)'
<1> DEFINE r == req[k]
<1>0. r \in Request
  BY DEF TypeOK
<1>1. r.pc \in {"register", "issue", "conclude"} =>
        /\ r.pairing \in Pairing
        /\ pairing'[r.pairing].state \notin Unclaimed
        /\ pairing'[r.pairing].device = pairing[r.pairing].device
  BY <1>0, RequestFields DEF RequestOK, PairingsGoOn
<1>2. r.pc \in {"issue", "conclude"} => device'[pairing[r.pairing].device] # "unknown"
  <2> HAVE r.pc \in {"issue", "conclude"}
  <2>1. pairing[r.pairing].device \in Device
    BY <1>0, RequestFields DEF RequestOK
  <2> QED
    BY <2>1 DEF RequestOK, DevicesGoOn
<1>3. r.pc \in {"conclude", "refresh", "verify", "lookup", "recheck"} =>
        session'[r.session] # None /\ session'[r.session].from = session[r.session].from
  BY <1>0, RequestFields DEF RequestOK, SessionsGoOn
<1>4. r.pc = "reissue" => pairing'[r.from] = pairing[r.from]
  BY <1>0, RequestFields DEF RequestOK, PairingsGoOn
<1>5. r.pc = "revoke" => past'[r.device].fate = {"cut"}
  BY <1>0, RequestFields DEF RequestOK, DevicesGoOn
<1>6. r.pc = "conclude" => /\ ~Held(r.session)'
                           /\ \A j \in Slot \ {k} : req'[j].pc = "conclude" =>
                                 req'[j].session # r.session
  BY DEF RequestOK
<1> QED
  BY <1>1, <1>2, <1>3, <1>4, <1>5, <1>6 DEF RequestOK

\* A headset that the step is not about, but perhaps the request it waits for.
LEMMA HeadsetWaits ==
    ASSUME NEW d \in Device, HeadsetOK(d), TypeOK, PairingsGoOn, SessionsGoOn,
           \A s \in Session : SessionOK(s),
           headset'[d] = headset[d],
           headset[d].slot # None =>
             /\ headset[d].pc = "sent" =>
                  req'[headset[d].slot].pc \in {"verify", "lookup", "answered"}
             /\ headset[d].pc = "renewing" => Renewing(d, headset[d].slot)'
             /\ \A e \in Device \ {d} : headset'[e].slot # headset[d].slot
    PROVE  HeadsetOK(d)'
<1> DEFINE h == headset[d]
<1>0. h \in Headset
  BY DEF TypeOK
<1>1. h.polling # None => /\ pairing'[h.polling].state \notin Unclaimed
                          /\ pairing'[h.polling].device = d
  BY <1>0, HeadsetFields DEF HeadsetOK, PairingsGoOn
<1>2. /\ h.stored # None => session[h.stored] # None /\ session'[h.stored].device = d
      /\ h.token # None => session[h.token] # None /\ session'[h.token].device = d
  <2>1. \A s \in Session : s \in {h.stored, h.token} => session[s] # None
    BY DEF SessionOK, Held, InUse
  <2> QED
    BY <1>0, <2>1, HeadsetFields DEF HeadsetOK, SessionsGoOn
<1> QED
  BY <1>1, <1>2 DEF HeadsetOK

\* A renewal that the step is not about.
LEMMA RenewalStays ==
    ASSUME NEW d \in Device, NEW k \in Slot, TypeOK, SessionsGoOn, Renewing(d, k),
           \A s \in Session : SessionOK(s),
           headset'[d] = headset[d], req'[k] = req[k]
    PROVE  Renewing(d, k)'
<1>1. req[k] \in Request
  BY DEF TypeOK
<1>2. req[k].pc \in {"recheck", "answered"} /\ req[k].session \in Session =>
        /\ session[req[k].session] # None
        /\ session'[req[k].session].device = session[req[k].session].device
  BY DEF SessionOK, Held, InUse, SessionsGoOn
<1>3. /\ req[k].pc = "recheck" => req[k].session \in Session
      /\ req[k].pc = "answered" => req[k].session \in Session \union {None}
  BY <1>1, RequestFields
<1> QED
  BY <1>2, <1>3 DEF Renewing

LEMMA HeadsetStays ==
    ASSUME NEW d \in Device, HeadsetOK(d), TypeOK, PairingsGoOn, SessionsGoOn,
           \A s \in Session : SessionOK(s),
           headset'[d] = headset[d],
           headset[d].slot # None =>
             /\ req'[headset[d].slot] = req[headset[d].slot]
             /\ \A e \in Device \ {d} : headset'[e].slot # headset[d].slot
    PROVE  HeadsetOK(d)'
<1>1. headset[d].pc \in {"sent", "renewing"} =>
        headset[d].slot \in Slot /\ req'[headset[d].slot] = req[headset[d].slot]
  BY HeadsetFields DEF HeadsetOK, TypeOK
<1>2. headset[d].pc = "renewing" => Renewing(d, headset[d].slot)'
  BY <1>1, RenewalStays DEF HeadsetOK
<1>3. headset[d].pc = "sent" => req'[headset[d].slot].pc \in {"verify", "lookup", "answered"}
  BY <1>1 DEF HeadsetOK
<1> QED
  BY <1>2, <1>3, HeadsetWaits

LEMMA PollingStays ==
    ASSUME NEW d \in Device, Untouched(d), TypeOK, HeadsetOK(d),
           \A s \in Session : SessionOK(s),
           headset'[d].polling \in {headset[d].polling, None},
           SessionsGoOn, DevicesGoOn, UnusedStay,
           \A s \in Session : (session[s] = None /\ session'[s] # None) =>
             \/ session'[s].from # headset[d].polling
             \/ ~InUse(s)' /\ Live(s)',
           \A k \in Slot, p \in Pairing : Exchanges(k, p)' => Exchanges(k, p)
    PROVE  Untouched(d)'
<1> DEFINE p == headset[d].polling
<1> SUFFICES ASSUME headset'[d].polling = p, p # None PROVE Untouched(d)'
  BY DEF Untouched
<1>1. p \in Pairing
  BY HeadsetFields DEF TypeOK
<1>2. \A k \in Slot : ~Exchanges(k, p)'
  BY <1>1 DEF Untouched
<1>3. ASSUME NEW s \in Session, session'[s] # None, session'[s].from = p
      PROVE  ~InUse(s)' /\ (Live(s)' \/ past'[d].fate = {"cut"})
  <2> SUFFICES ASSUME session[s] # None PROVE ~InUse(s)' /\ (Live(s)' \/ past'[d].fate = {"cut"})
    BY <1>3
  <2>1. session[s].from = p
    BY <1>3 DEF SessionsGoOn
  <2>2. ~InUse(s) /\ (Live(s) \/ past[d].fate = {"cut"})
    BY <2>1 DEF Untouched
  <2>3. session[s].device = d
    BY <2>1 DEF SessionOK, HeadsetOK
  <2>4. past[d].fate = {"cut"} => past'[d].fate = {"cut"}
    BY DEF DevicesGoOn
  <2>5. ~InUse(s)'
    BY <2>1, <2>2 DEF UnusedStay
  <2> QED
    BY <2>1, <2>2, <2>3, <2>4, <2>5 DEF UnusedStay
<1> QED
  BY <1>2, <1>3 DEF Untouched

LEMMA KeptStays ==
    ASSUME NEW d \in Device, Kept(d), TypeOK, HeadsetOK(d),
           faults' = 0 => faults = 0,
           past'[d].fate = past[d].fate,
           headset'[d] = headset[d],
           headset[d].slot # None => req'[headset[d].slot] = req[headset[d].slot],
           \A s \in Session : (Live(s) /\ session[s].device = d) => Live(s)'
    PROVE  Kept(d)'
<1> DEFINE h == headset[d]
           r == req[h.slot]
<1> SUFFICES ASSUME faults = 0, past[d].fate = {"paired"} PROVE Kept(d)'
  BY DEF Kept
<1>0. h \in Headset
  BY DEF TypeOK
<1>1. h.stored # None /\ h.stored \in Session /\ session[h.stored].device = d
  BY <1>0, HeadsetFields DEF Kept, HeadsetOK
<1>2. Live(h.stored) => Live(h.stored)'
  BY <1>1
<1>3. CASE h.pc # "renewing"
  BY <1>1, <1>2, <1>3 DEF Kept
<1>4. CASE h.pc = "renewing"
  <2>1. h.slot \in Slot /\ r \in Request /\ req'[h.slot] = r
    BY <1>0, <1>4, HeadsetFields DEF HeadsetOK, TypeOK
  <2>2. Renewing(d, h.slot)
    BY <1>4 DEF HeadsetOK
  <2>3. r.pc = "recheck" => Live(r.session)'
    BY <1>4, <2>1, <2>2, RequestFields DEF Kept, Renewing
  <2>4. r.pc = "answered" => r.status = "ok" /\ Live(r.session)'
    BY <1>4, <2>1, <2>2, RequestFields DEF Kept, Renewing
  <2> QED
    BY <1>1, <1>2, <1>4, <2>1, <2>3, <2>4 DEF Kept
<1> QED
  BY <1>3, <1>4

\* Only requests, answers and the clock move: the stores stay as they are.
LEMMA StoresStay ==
    ASSUME UNCHANGED <<pairing, device, session, past>>
    PROVE  /\ PairingsGoOn /\ SessionsGoOn /\ DevicesGoOn /\ NoneIssued /\ NoRevocation
           /\ \A s \in Session : Live(s)' <=> Live(s)
           /\ (\A s \in Session : InUse(s)' => InUse(s)) =>
                UnusedStay /\ \A s \in Session : Held(s)' => Held(s)
<1>1. \A s \in Session : Live(s)' <=> Live(s)
  BY DEF Live
<1> QED
  BY <1>1 DEF PairingsGoOn, SessionsGoOn, DevicesGoOn, NoneIssued, NoRevocation, UnusedStay, Held

-----------------------------------------------------------------------------
(***************************************************************************)
(* Every step keeps the types.                                             *)
(***************************************************************************)
LEMMA AdminTyped ==
    ASSUME IInv, AdminStep
    PROVE  TypeOK'
<1> USE DEF IInv, TypeOK
<1>1. ASSUME NEW p \in Pairing, CreatePairing(p) PROVE TypeOK'
  BY <1>1 DEF CreatePairing, PairingRecord, PairingState
<1>2. ASSUME NEW p \in Pairing, Reject(p) PROVE TypeOK'
  BY <1>2 DEF Reject, PairingRecord, PairingState
<1>3. ASSUME NEW k \in Slot, NEW p \in Pairing, Approve(k, p) PROVE TypeOK'
  <2>1. req' \in [Slot -> Request]
    <3>1. [pc |-> "register", pairing |-> p] \in Request
      BY RequestShapes
    <3> QED
      BY <1>3, <3>1, ContinueTyped DEF Approve
  <2>2. pairing' \in [Pairing -> PairingRecord]
    BY <1>3 DEF Approve, Expire, PairingRecord, PairingState
  <2> QED
    BY <1>3, <2>1, <2>2 DEF Approve
<1>4. ASSUME NEW d \in Device, NEW status \in {"authorized", "disabled"}, SetStatus(d, status)
      PROVE  TypeOK'
  <2>1. past' \in [Device -> Past]
    BY <1>4, NoteTyped DEF SetStatus
  <2> QED
    BY <1>4, <2>1 DEF SetStatus, DeviceStatus
<1>5. ASSUME NEW k \in Slot, NEW d \in Device, Revoke(k, d) PROVE TypeOK'
  <2>1. req' \in [Slot -> Request]
    BY <1>5, RequestShapes, ContinueTyped DEF Revoke
  <2>2. past' \in [Device -> Past]
    BY <1>5, CutOffTyped DEF Revoke
  <2> QED
    BY <1>5, <2>1, <2>2 DEF Revoke, DeviceStatus
<1> QED
  BY <1>1, <1>2, <1>3, <1>4, <1>5 DEF AdminStep

\* Sessions that are issued or revoked stay sessions.
LEMMA SessionStatusTyped ==
    ASSUME NEW r \in SessionRecord, NEW status \in SessionStatus
    PROVE  /\ [r EXCEPT !.status = status] \in SessionRecord
           /\ [r EXCEPT !.status = status].status = status
           /\ [r EXCEPT !.status = status].device = r.device
           /\ [r EXCEPT !.status = status].from = r.from
BY DEF SessionRecord

LEMMA IssueTyped ==
    ASSUME TypeOK, NEW s \in Session, NEW d \in Device, NEW p \in Pairing, Issue(s, d, p)
    PROVE  /\ session' \in [Session -> SessionRecord \union {None}]
           /\ session[s] = None
           /\ session'[s] # None
           /\ session'[s].device = d
           /\ session'[s].from = p
           /\ session'[s].status = "fresh"
           /\ \A t \in Session \ {s} : session'[t] = session[t]
<1>1. [device |-> d, from |-> p, status |-> "fresh"] \in SessionRecord
  BY DEF SessionRecord, SessionStatus
<1>2. session' = [session EXCEPT ![s] = [device |-> d, from |-> p, status |-> "fresh"]]
      /\ session[s] = None
  BY DEF Issue
<1> QED
  BY <1>1, <1>2, SessionsAssumption DEF TypeOK

LEMMA ConsumedTyped ==
    ASSUME TypeOK, NEW s \in Session, session[s] # None, session' = Consumed(s)
    PROVE  /\ session' \in [Session -> SessionRecord \union {None}]
           /\ session'[s] # None
           /\ session'[s].device = session[s].device
           /\ session'[s].from = session[s].from
           /\ session'[s].status = "revoked"
           /\ \A t \in Session \ {s} : session'[t] = session[t]
<1>1. session[s] \in SessionRecord
  BY DEF TypeOK
<1>2. session' = [session EXCEPT ![s] = [session[s] EXCEPT !.status = "revoked"]]
  BY DEF Consumed
<1>3. PICK r \in SessionRecord :
        /\ session' = [session EXCEPT ![s] = r]
        /\ r.status = "revoked" /\ r.device = session[s].device /\ r.from = session[s].from
  <2>1. "revoked" \in SessionStatus
    BY DEF SessionStatus
  <2> QED
    <3>1. /\ [session[s] EXCEPT !.status = "revoked"] \in SessionRecord
          /\ [session[s] EXCEPT !.status = "revoked"].status = "revoked"
          /\ [session[s] EXCEPT !.status = "revoked"].device = session[s].device
          /\ [session[s] EXCEPT !.status = "revoked"].from = session[s].from
      BY <1>1, <2>1, SessionStatusTyped
    <3> QED
      BY <1>2, <3>1
<1>4. session'[s] = r /\ r # None
  BY <1>3, SessionsAssumption DEF TypeOK
<1> QED
  BY <1>3, <1>4 DEF TypeOK

\* A decision, a claim.
LEMMA ConcludeTyped ==
    ASSUME TypeOK, NEW p \in Pairing, NEW s \in Session,
           pairing' = [pairing EXCEPT ![p].state = "authorized", ![p].bootstrap = s]
    PROVE  /\ pairing' \in [Pairing -> PairingRecord]
           /\ pairing'[p].state = "authorized"
           /\ pairing'[p].bootstrap = s
           /\ pairing'[p].device = pairing[p].device
           /\ \A q \in Pairing \ {p} : pairing'[q] = pairing[q]
<1>1. pairing[p] \in PairingRecord
  BY DEF TypeOK
<1>2. PICK r : r = [[pairing[p] EXCEPT !.state = "authorized"] EXCEPT !.bootstrap = s]
  OBVIOUS
<1>3. pairing' = [pairing EXCEPT ![p] = r]
  BY <1>2 DEF TypeOK
<1>4. /\ r \in PairingRecord
      /\ r.state = "authorized" /\ r.bootstrap = s /\ r.device = pairing[p].device
  BY <1>1, <1>2 DEF PairingRecord, PairingState
<1> QED
  BY <1>3, <1>4 DEF TypeOK

LEMMA ClaimTyped ==
    ASSUME TypeOK, NEW p \in Pairing, NEW d \in Device,
           pairing' = [pairing EXCEPT ![p].state = "claimed", ![p].device = d]
    PROVE  /\ pairing' \in [Pairing -> PairingRecord]
           /\ pairing'[p].state = "claimed"
           /\ pairing'[p].device = d
           /\ pairing'[p].bootstrap = pairing[p].bootstrap
           /\ \A q \in Pairing \ {p} : pairing'[q] = pairing[q]
<1>1. pairing[p] \in PairingRecord
  BY DEF TypeOK
<1>2. PICK r : r = [[pairing[p] EXCEPT !.state = "claimed"] EXCEPT !.device = d]
  OBVIOUS
<1>3. pairing' = [pairing EXCEPT ![p] = r]
  BY <1>2 DEF TypeOK
<1>4. /\ r \in PairingRecord
      /\ r.state = "claimed" /\ r.device = d /\ r.bootstrap = pairing[p].bootstrap
  BY <1>1, <1>2 DEF PairingRecord, PairingState
<1> QED
  BY <1>3, <1>4 DEF TypeOK

\* Any other step of a pairing.
LEMMA StateTyped ==
    ASSUME TypeOK, NEW p \in Pairing, NEW state \in PairingState,
           pairing' = [pairing EXCEPT ![p].state = state]
    PROVE  /\ pairing' \in [Pairing -> PairingRecord]
           /\ pairing'[p].state = state
           /\ pairing'[p].device = pairing[p].device
           /\ pairing'[p].bootstrap = pairing[p].bootstrap
           /\ \A q \in Pairing \ {p} : pairing'[q] = pairing[q]
BY DEF TypeOK, PairingRecord

LEMMA HandlerTyped ==
    ASSUME IInv, NEW k \in Slot, HandlerStep(k)
    PROVE  TypeOK'
<1> USE DEF IInv, TypeOK
<1>0. req[k] \in Request /\ RequestOK(k) /\ \A p \in Pairing : PairingOK(p)
  BY DEF RequestsOK, WorldOK
<1>a. \A s \in Session, status \in {"ok", "401", "403"} :
        Answer(k, status, s) \/ Answer(k, status, None) => req' \in [Slot -> Request]
  BY AnswerTyped
<1>1. CASE Register(k)
  <2>1. req[k].pairing \in Pairing /\ pairing[req[k].pairing].device \in Device
    BY <1>0, <1>1, RequestFields DEF Register, Serving, RequestOK, PairingOK
  <2>2. req' \in [Slot -> Request]
    <3>1. [pc |-> "issue", pairing |-> req[k].pairing] \in Request
      BY <2>1, RequestShapes
    <3> QED
      BY <1>1, <2>1, <3>1, ContinueTyped, DoneTyped DEF Register
  <2> QED
    BY <1>1, <2>1, <2>2 DEF Register, DeviceStatus
<1>2. CASE IssueBootstrap(k)
  <2>1. req[k].pairing \in Pairing /\ pairing[req[k].pairing].device \in Device
    BY <1>0, <1>2, RequestFields DEF IssueBootstrap, Serving, RequestOK, PairingOK
  <2>2. PICK s \in Session :
          /\ Issue(s, pairing[req[k].pairing].device, req[k].pairing)
          /\ Continue(k, [pc |-> "conclude", pairing |-> req[k].pairing, session |-> s])
    BY <1>2 DEF IssueBootstrap
  <2>3. req' \in [Slot -> Request]
    <3>1. [pc |-> "conclude", pairing |-> req[k].pairing, session |-> s] \in Request
      BY <2>1, RequestShapes
    <3> QED
      BY <2>2, <3>1, ContinueTyped
  <2>4. session' \in [Session -> SessionRecord \union {None}]
    BY <2>1, <2>2, IssueTyped
  <2> QED
    BY <1>2, <2>3, <2>4 DEF IssueBootstrap
<1>3. CASE Conclude(k)
  <2>1. req[k].pairing \in Pairing /\ req[k].session \in Session
    BY <1>0, <1>3, RequestFields DEF Conclude, Serving
  <2>2. req' \in [Slot -> Request]
    BY <1>3, DoneTyped DEF Conclude
  <2>3. pairing' \in [Pairing -> PairingRecord]
    BY <1>3, <2>1, ConcludeTyped DEF Conclude
  <2> QED
    BY <1>3, <2>2, <2>3 DEF Conclude
<1>4. CASE RevokeSessions(k)
  <2>1. req[k].device \in Device
    BY <1>0, <1>4, RequestFields DEF RevokeSessions, Serving
  <2>2. req' \in [Slot -> Request]
    BY <1>4, DoneTyped DEF RevokeSessions
  <2>3. session' \in [Session -> SessionRecord \union {None}]
    <3>1. "revoked" \in SessionStatus
      BY DEF SessionStatus
    <3> QED
      BY <1>4, <2>1, <3>1, SessionStatusTyped DEF RevokeSessions, RevokeAll
  <2>4. past' \in [Device -> Past]
    <3>1. PairingsOf(req[k].device) \subseteq Pairing
      BY DEF PairingsOf
    <3>2. PICK d \in Device : d = req[k].device
      BY <2>1
    <3>3. PICK some \in SUBSET Pairing, held \in SUBSET Pairing :
            some = PairingsOf(d) /\ held = PairingsOf(d) \intersect BeingRenewed
      BY <3>1, <3>2
    <3>4. past' = [past EXCEPT ![d].ended = @ \union some, ![d].renewing = @ \union held]
      BY <1>4, <3>2, <3>3 DEF RevokeSessions
    <3>5. past \in [Device -> Past]
      BY DEF TypeOK
    <3> QED
      BY <3>2, <3>4, <3>5, PastGrows
  <2> QED
    BY <1>4, <2>2, <2>3, <2>4 DEF RevokeSessions
<1>5. CASE Verify(k)
  <2>1. req[k].session \in Session
    BY <1>0, <1>5, RequestFields DEF Verify, Serving
  <2>2. req' \in [Slot -> Request]
    <3>1. [pc |-> "lookup", session |-> req[k].session] \in Request
      BY <2>1, RequestShapes
    <3> QED
      BY <1>5, <1>a, <2>1, <3>1, ContinueTyped DEF Verify
  <2> QED
    BY <1>5, <2>2 DEF Verify
<1>6. CASE Lookup(k)
  <2>1. req[k].session \in Session
    BY <1>0, <1>6, RequestFields DEF Lookup, Serving
  <2> QED
    BY <1>6, <1>a, <2>1 DEF Lookup, Refusal
<1>7. CASE Consume(k)
  <2>1. req[k].session \in Session
    BY <1>0, <1>7, RequestFields DEF Consume, Serving
  <2>2. CASE Live(req[k].session) /\ session[req[k].session].status # "expired"
    <3>1. session[req[k].session] \in SessionRecord /\ session[req[k].session] # None
      BY <2>1, <2>2 DEF Live
    <3>2. session' \in [Session -> SessionRecord \union {None}]
      BY <1>7, <2>1, <2>2, <3>1, ConsumedTyped DEF Consume
    <3>3. [pc |-> "reissue", device |-> session[req[k].session].device,
           from |-> session[req[k].session].from] \in Request
      BY <3>1, RequestShapes, SessionFields
    <3>4. req' \in [Slot -> Request]
      BY <1>7, <2>2, <3>3, ContinueTyped DEF Consume
    <3> QED
      BY <1>7, <3>2, <3>4 DEF Consume
  <2>3. CASE ~(Live(req[k].session) /\ session[req[k].session].status # "expired")
    BY <1>7, <1>a, <2>1, <2>3 DEF Consume
  <2> QED
    BY <2>2, <2>3
<1>8. CASE Reissue(k)
  <2>1. req[k].device \in Device /\ req[k].from \in Pairing
    BY <1>0, <1>8, RequestFields DEF Reissue, Serving
  <2>2. PICK s \in Session : /\ Issue(s, req[k].device, req[k].from)
                             /\ Continue(k, [pc |-> "recheck", session |-> s])
    BY <1>8 DEF Reissue
  <2>3. req' \in [Slot -> Request]
    BY <2>2, RequestShapes, ContinueTyped
  <2>4. session' \in [Session -> SessionRecord \union {None}]
    BY <2>1, <2>2, IssueTyped
  <2> QED
    BY <1>8, <2>3, <2>4 DEF Reissue
<1>9. CASE Recheck(k)
  <2>1. req[k].session \in Session
    BY <1>0, <1>9, RequestFields DEF Recheck, Serving
  <2> QED
    BY <1>9, <1>a, <2>1 DEF Recheck, Refusal
<1> QED
  BY <1>1, <1>2, <1>3, <1>4, <1>5, <1>6, <1>7, <1>8, <1>9 DEF HandlerStep

LEMMA IdleTyped ==
    ASSUME NEW h \in Headset
    PROVE  /\ Idle(h) \in Headset
           /\ Idle(h).pc = "idle" /\ Idle(h).slot = None
           /\ Idle(h).stored = h.stored /\ Idle(h).token = h.token
           /\ Idle(h).polling = h.polling
<1>1. 0 \in 0..1
  OBVIOUS
<1>2. PICK a : a = [h EXCEPT !.pc = "idle"]
  OBVIOUS
<1>3. PICK b : b = [a EXCEPT !.tries = 0]
  OBVIOUS
<1>4. Idle(h) = [b EXCEPT !.slot = None]
  BY <1>2, <1>3 DEF Idle, Headset
<1>5. a \in Headset /\ a.pc = "idle" /\ a.stored = h.stored /\ a.token = h.token
      /\ a.polling = h.polling
  BY <1>2 DEF Headset
<1>6. b \in Headset /\ b.pc = "idle" /\ b.stored = h.stored /\ b.token = h.token
      /\ b.polling = h.polling
  BY <1>1, <1>3, <1>5 DEF Headset
<1> QED
  BY <1>4, <1>6 DEF Headset

LEMMA SendTyped ==
    ASSUME TypeOK, NEW d \in Device, NEW k \in Slot, NEW pc \in {"verify", "refresh"},
           NEW s \in Session, NEW waiting \in {"sent", "renewing"},
           Send(d, k, pc, s, waiting)
    PROVE  /\ TypeOK'
           /\ req[k] = NoRequest
           /\ req'[k] = [pc |-> pc, session |-> s]
           /\ \A j \in Slot \ {k} : req'[j] = req[j]
           /\ headset'[d].pc = waiting /\ headset'[d].slot = k
           /\ headset'[d].stored = headset[d].stored
           /\ headset'[d].token = headset[d].token
           /\ headset'[d].polling = headset[d].polling
           /\ \A e \in Device \ {d} : headset'[e] = headset[e]
           /\ UNCHANGED <<pairing, device, session, overdue, past, faults>>
<1>1. [pc |-> pc, session |-> s] \in Request
  BY RequestShapes
<1>2. /\ req' \in [Slot -> Request]
      /\ req'[k] = [pc |-> pc, session |-> s]
      /\ \A j \in Slot \ {k} : req'[j] = req[j]
  BY <1>1, ContinueTyped DEF Send, TypeOK
<1>3. headset[d] \in Headset
  BY DEF TypeOK
<1>4. PICK h : h = [[headset[d] EXCEPT !.pc = waiting] EXCEPT !.slot = k]
  OBVIOUS
<1>5. headset' = [headset EXCEPT ![d] = h]
  BY <1>4 DEF Send, TypeOK
<1>6. /\ h \in Headset /\ h.pc = waiting /\ h.slot = k /\ h.stored = headset[d].stored
      /\ h.token = headset[d].token /\ h.polling = headset[d].polling
  BY <1>3, <1>4 DEF Headset
<1>7. headset' \in [Device -> Headset] /\ headset'[d] = h
      /\ \A e \in Device \ {d} : headset'[e] = headset[e]
  BY <1>5, <1>6 DEF TypeOK
<1> QED
  BY <1>2, <1>6, <1>7 DEF Send, TypeOK

-----------------------------------------------------------------------------
(***************************************************************************)
(* Steps of a handler and steps of a headset.                              *)
(***************************************************************************)
\* Who waits for a handler waits for a request or a renewal.
LEMMA WaitingFor ==
    ASSUME TypeOK, HeadsetsOK, NEW d \in Device, NEW k \in Slot, headset[d].slot = k
    PROVE  /\ headset[d].pc \in {"sent", "renewing"}
           /\ headset[d].pc = "sent" => req[k].pc \in {"verify", "lookup", "answered"}
           /\ headset[d].pc = "renewing" => Renewing(d, k)
           /\ req[k].pc \in {"verify", "lookup", "answered", "refresh", "reissue", "recheck"}
           /\ \A e \in Device \ {d} : headset[e].slot # k
<1>1. headset[d].slot # None
  BY NoneIsNothing
<1> QED
  BY <1>1 DEF HeadsetsOK, HeadsetOK, Renewing

\* A step of handler k.
LEMMA HandlerMoves ==
    ASSUME IInv, TypeOK', NEW k \in Slot, UNCHANGED <<headset, faults>>,
           \A j \in Slot \ {k} : req'[j] = req[j],
           PairingsGoOn, SessionsGoOn, DevicesGoOn,
           WorldOK',
           RequestOK(k)',
           req'[k].pc # "refresh",
           \A j \in Slot \ {k} : req[j].pc = "conclude" =>
             /\ Held(req[j].session)' => Held(req[j].session)
             /\ req'[k].pc = "conclude" => req'[k].session # req[j].session,
           \A d \in Device : headset[d].slot = k =>
             /\ headset[d].pc = "sent" => req'[k].pc \in {"verify", "lookup", "answered"}
             /\ headset[d].pc = "renewing" => Renewing(d, k)',
           \A d \in Device : Untouched(d)' /\ Kept(d)'
    PROVE  IInv'
<1> USE DEF IInv
<1>1. \A j \in Slot : RequestOK(j)'
  <2> SUFFICES ASSUME NEW j \in Slot \ {k} PROVE RequestOK(j)'
    OBVIOUS
  <2>1. Awaited(j)' <=> Awaited(j)
    BY DEF Awaited
  <2>2. RequestOK(j)
    BY DEF RequestsOK
  <2>3. req[j].pc = "conclude" =>
          /\ Held(req[j].session)' => Held(req[j].session)
          /\ \A i \in Slot \ {j} : req'[i].pc = "conclude" => req'[i].session # req[j].session
    BY <2>2 DEF RequestOK
  <2>4. \A p \in Pairing : pairing[p].state \notin Unclaimed => pairing[p].device \in Device
    BY DEF WorldOK, PairingOK
  <2>5. req[j].pc = "answered" => Awaited(j)'
    BY <2>1, <2>2 DEF RequestOK
  <2> QED
    BY <2>2, <2>3, <2>4, <2>5, RequestStays
<1>2. \A j \in Slot : NoStraggler(j)'
  BY DEF NoStraggler, RequestsOK, Awaited
<1>3. \A d \in Device : HeadsetOK(d)'
  <2> SUFFICES ASSUME NEW d \in Device PROVE HeadsetOK(d)'
    OBVIOUS
  <2>1. HeadsetOK(d) /\ (\A s \in Session : SessionOK(s)) /\ headset'[d] = headset[d]
    BY DEF HeadsetsOK, WorldOK
  <2>2. CASE headset[d].slot = k
    <3>1. \A e \in Device \ {d} : headset'[e].slot # k
      BY <2>2, WaitingFor
    <3> QED
      BY <2>1, <2>2, <3>1, HeadsetWaits
  <2>3. CASE headset[d].slot # k
    <3>1. headset[d].slot # None =>
            /\ req'[headset[d].slot] = req[headset[d].slot]
            /\ \A e \in Device \ {d} : headset'[e].slot # headset[d].slot
      BY <2>1, <2>3, HeadsetFields DEF HeadsetOK, TypeOK
    <3> QED
      BY <2>1, <3>1, HeadsetStays
  <2> QED
    BY <2>2, <2>3
<1> QED
  BY <1>1, <1>2, <1>3 DEF RequestsOK, HeadsetsOK

\* A step of headset d, which may end or send its request.
LEMMA HeadsetMoves ==
    ASSUME IInv, TypeOK', NEW d \in Device,
           PairingsGoOn, SessionsGoOn, DevicesGoOn, WorldOK',
           \A s \in Session : Held(s)' => Held(s),
           \A s \in Session : Live(s) => Live(s)',
           \A e \in Device \ {d} : past'[e].fate = past[e].fate,
           faults' = 0 => faults = 0,
           \A e \in Device \ {d} : headset'[e] = headset[e],
           \A k \in Slot : req'[k] # req[k] =>
             /\ \A e \in Device \ {d} : headset[e].slot # k
             /\ req'[k].pc \in {"idle", "verify", "refresh"}
             /\ RequestOK(k)' /\ NoStraggler(k)',
           \A k \in Slot : (headset[d].slot = k /\ headset'[d].slot # k) =>
             /\ req'[k].pc # "answered"
             /\ req'[k].pc = "refresh" => faults' # 0,
           headset'[d].slot # None =>
             \A e \in Device \ {d} : headset[e].slot # headset'[d].slot,
           HeadsetOK(d)', Kept(d)', \A e \in Device : Untouched(e)'
    PROVE  IInv'
<1> USE DEF IInv
<1>4. ASSUME NEW k \in Slot, req'[k] = req[k] PROVE RequestOK(k)' /\ NoStraggler(k)'
  <2>1. RequestOK(k) /\ NoStraggler(k)
    BY DEF RequestsOK
  <2>2. Awaited(k) => \/ Awaited(k)'
                      \/ /\ req'[k].pc # "answered"
                         /\ req'[k].pc = "refresh" => faults' # 0
    BY DEF Awaited
  <2>3. req[k].pc = "answered" => Awaited(k)'
    BY <1>4, <2>1, <2>2 DEF RequestOK
  <2>4. req[k].pc = "conclude" =>
          /\ Held(req[k].session)' => Held(req[k].session)
          /\ \A j \in Slot \ {k} : req'[j].pc = "conclude" => req'[j].session # req[k].session
    <3>1. req[k].pc = "conclude" => req[k].session \in Session
      BY RequestFields DEF TypeOK
    <3>2. \A j \in Slot : req'[j].pc = "conclude" => req'[j] = req[j]
      OBVIOUS
    <3>3. req[k].pc = "conclude" =>
            \A j \in Slot \ {k} : req[j].pc = "conclude" => req[j].session # req[k].session
      BY <2>1 DEF RequestOK
    <3> QED
      BY <1>4, <3>1, <3>2, <3>3
  <2>5. \A p \in Pairing : pairing[p].state \notin Unclaimed => pairing[p].device \in Device
    BY DEF WorldOK, PairingOK
  <2>6. RequestOK(k)'
    BY <1>4, <2>1, <2>3, <2>4, <2>5, RequestStays
  <2> QED
    BY <1>4, <2>1, <2>2, <2>6 DEF NoStraggler
<1>5. \A e \in Device \ {d} : HeadsetOK(e)'
  <2> SUFFICES ASSUME NEW e \in Device \ {d} PROVE HeadsetOK(e)'
    OBVIOUS
  <2>1. HeadsetOK(e) /\ headset[e] \in Headset /\ \A s \in Session : SessionOK(s)
    BY DEF HeadsetsOK, TypeOK, WorldOK
  <2>2. headset[e].slot # None =>
          /\ req'[headset[e].slot] = req[headset[e].slot]
          /\ \A c \in Device \ {e} : headset'[c].slot # headset[e].slot
    BY <2>1, HeadsetFields DEF HeadsetOK
  <2> QED
    BY <2>1, <2>2, HeadsetStays
<1>7. \A e \in Device \ {d} : Kept(e)'
  <2> SUFFICES ASSUME NEW e \in Device \ {d} PROVE Kept(e)'
    OBVIOUS
  <2>1. HeadsetOK(e) /\ Kept(e) /\ headset[e] \in Headset
    BY DEF HeadsetsOK, TypeOK
  <2>2. headset[e].slot # None => req'[headset[e].slot] = req[headset[e].slot]
    BY <2>1, HeadsetFields
  <2> QED
    BY <2>1, <2>2, KeptStays
<1> QED
  BY <1>4, <1>5, <1>7 DEF RequestsOK, HeadsetsOK

\* ... and leaves the stores alone.
LEMMA HeadsetTalks ==
    ASSUME IInv, TypeOK', NEW d \in Device, UNCHANGED <<pairing, device, session, past>>,
           faults' = 0 => faults = 0,
           \A e \in Device \ {d} : headset'[e] = headset[e],
           headset'[d].polling \in {headset[d].polling, None},
           \A k \in Slot : req'[k] # req[k] =>
             /\ \A e \in Device \ {d} : headset[e].slot # k
             /\ req'[k].pc \in {"idle", "verify", "refresh"}
             /\ RequestOK(k)' /\ NoStraggler(k)',
           \A k \in Slot : (headset[d].slot = k /\ headset'[d].slot # k) =>
             /\ req'[k].pc # "answered"
             /\ req'[k].pc = "refresh" => faults' # 0,
           headset'[d].slot # None =>
             \A e \in Device \ {d} : headset[e].slot # headset'[d].slot,
           \A s \in Session : InUse(s)' => InUse(s),
           HeadsetOK(d)', Kept(d)'
    PROVE  IInv'
<1> USE DEF IInv
<1>1. /\ PairingsGoOn /\ SessionsGoOn /\ DevicesGoOn /\ NoneIssued /\ NoRevocation
      /\ UnusedStay
      /\ \A s \in Session : Held(s)' => Held(s)
      /\ \A s \in Session : Live(s)' <=> Live(s)
  BY StoresStay
<1>2. \A k \in Slot, p \in Pairing : Exchanges(k, p)' => Exchanges(k, p)
  BY DEF Exchanges
<1>3. WorldOK'
  <2>1. \A e \in Device : StatusOK(e)'
    BY StatusStays DEF WorldOK
  <2> QED
    BY <1>1, <1>2, <2>1, WorldStays DEF NobodyGains, NoneIssued, NoRevocation
<1>4. \A e \in Device : Untouched(e)'
  BY <1>1, <1>2, PollingStays DEF HeadsetsOK, WorldOK, NoneIssued
<1> QED
  BY <1>1, <1>3, <1>4, HeadsetMoves

\* A step that only changes the stores.
LEMMA StoresMove ==
    ASSUME IInv, TypeOK', UNCHANGED <<headset, req, faults>>,
           PairingsGoOn, SessionsGoOn, DevicesGoOn, NoneIssued, WorldOK',
           \A s \in Session : Held(s)' => Held(s),
           \A d \in Device : Kept(d)',
           UnusedStay
    PROVE  IInv'
<1> USE DEF IInv
<1>1. \A k \in Slot : RequestOK(k)'
  <2> SUFFICES ASSUME NEW k \in Slot PROVE RequestOK(k)'
    OBVIOUS
  <2>1. RequestOK(k) /\ req[k] \in Request
    BY DEF RequestsOK, TypeOK
  <2>2. req[k].pc = "conclude" =>
          /\ Held(req[k].session)' => Held(req[k].session)
          /\ \A j \in Slot \ {k} : req'[j].pc = "conclude" => req'[j].session # req[k].session
    BY <2>1, RequestFields DEF RequestOK
  <2>3. \A p \in Pairing : pairing[p].state \notin Unclaimed => pairing[p].device \in Device
    BY DEF WorldOK, PairingOK
  <2>4. req[k].pc = "answered" => Awaited(k)'
    BY <2>1 DEF RequestOK, Awaited
  <2> QED
    BY <2>1, <2>2, <2>3, <2>4, RequestStays
<1>2. \A k \in Slot : NoStraggler(k)'
  BY DEF RequestsOK, NoStraggler, Awaited
<1>3. \A d \in Device : HeadsetOK(d)'
  <2> SUFFICES ASSUME NEW d \in Device PROVE HeadsetOK(d)'
    OBVIOUS
  <2>1. HeadsetOK(d) /\ \A s \in Session : SessionOK(s)
    BY DEF HeadsetsOK, WorldOK
  <2>2. headset[d].slot # None => \A e \in Device \ {d} : headset'[e].slot # headset[d].slot
    BY <2>1 DEF HeadsetOK
  <2> QED
    BY <2>1, <2>2, HeadsetStays
<1>4. \A d \in Device : Untouched(d)'
  <2>1. \A k \in Slot, p \in Pairing : Exchanges(k, p)' => Exchanges(k, p)
    BY DEF Exchanges
  <2> QED
    BY <2>1, PollingStays DEF HeadsetsOK, WorldOK, NoneIssued
<1> QED
  BY <1>1, <1>2, <1>3, <1>4 DEF RequestsOK, HeadsetsOK

-----------------------------------------------------------------------------
(***************************************************************************)
(* The steps of a headset that only talk.                                  *)
(***************************************************************************)
LEMMA BeginCallKeeps ==
    ASSUME IInv, NEW d \in Device, BeginCall(d)
    PROVE  IInv'
<1> USE DEF IInv
<1>1. HeadsetOK(d) /\ Kept(d) /\ headset[d] \in Headset
  BY DEF HeadsetsOK, TypeOK
<1>2. PICK pc \in {"renew", "calling"} :
        /\ pc = "calling" => headset[d].token # None
        /\ headset' = [headset EXCEPT ![d].pc = pc, ![d].tries = 0]
  BY DEF BeginCall
<1>3. PICK h : h = [[headset[d] EXCEPT !.pc = pc] EXCEPT !.tries = 0]
  OBVIOUS
<1>4. headset' = [headset EXCEPT ![d] = h]
  BY <1>2, <1>3 DEF TypeOK
<1>5. 0 \in 0..1
  OBVIOUS
<1>6. /\ h \in Headset /\ h.pc = pc /\ h.slot = headset[d].slot /\ h.stored = headset[d].stored
      /\ h.token = headset[d].token /\ h.polling = headset[d].polling
  BY <1>1, <1>3, <1>5 DEF Headset
<1>7. headset' \in [Device -> Headset] /\ headset'[d] = h
      /\ \A e \in Device \ {d} : headset'[e] = headset[e]
  BY <1>4, <1>6 DEF TypeOK
<1>8. UNCHANGED <<pairing, device, session, overdue, req, past, faults>>
      /\ headset[d].pc = "idle" /\ headset[d].polling = None /\ headset[d].stored # None
      /\ headset[d].slot = None
  BY <1>1 DEF BeginCall, HeadsetOK
<1>9. TypeOK'
  BY <1>7, <1>8 DEF TypeOK
<1>10. \A s \in Session : InUse(s)' => InUse(s)
  BY <1>6, <1>7, <1>8 DEF InUse
<1>11. HeadsetOK(d)'
  BY <1>1, <1>2, <1>6, <1>7, <1>8 DEF HeadsetOK
<1>12. Kept(d)'
  BY <1>1, <1>2, <1>6, <1>7, <1>8 DEF Kept, Live
<1> QED
  BY <1>6, <1>7, <1>8, <1>9, <1>10, <1>11, <1>12, HeadsetTalks

LEMMA SendKeeps ==
    ASSUME IInv, NEW d \in Device, NEW k \in Slot, SendRequest(d, k) \/ SendRefresh(d, k)
    PROVE  IInv'
<1> USE DEF IInv
<1>1. HeadsetOK(d) /\ Kept(d) /\ headset[d] \in Headset
  BY DEF HeadsetsOK, TypeOK
<1>2. \A e \in Device : headset[e].slot # k
  BY WaitingFor DEF SendRequest, SendRefresh, Send, NoRequest
<1>3. CASE SendRequest(d, k)
  <2>1. headset[d].token \in Session /\ headset[d].pc = "calling" /\ headset[d].slot = None
        /\ headset[d].polling = None
    BY <1>1, <1>3, HeadsetFields DEF SendRequest, HeadsetOK
  <2>2. PICK s \in Session : s = headset[d].token
    BY <2>1
  <2>3. Send(d, k, "verify", s, "sent")
    BY <1>3, <2>2 DEF SendRequest
  <2>4. /\ TypeOK'
        /\ req[k] = NoRequest
        /\ req'[k] = [pc |-> "verify", session |-> s]
        /\ \A j \in Slot \ {k} : req'[j] = req[j]
        /\ headset'[d].pc = "sent" /\ headset'[d].slot = k
        /\ headset'[d].stored = headset[d].stored
        /\ headset'[d].token = headset[d].token
        /\ headset'[d].polling = headset[d].polling
        /\ \A e \in Device \ {d} : headset'[e] = headset[e]
        /\ UNCHANGED <<pairing, device, session, overdue, past, faults>>
    BY <2>3, SendTyped
  <2>5. req'[k].pc = "verify" /\ req'[k].session = s
    BY <2>4
  <2>6. \A t \in Session : InUse(t)' => InUse(t)
    BY <2>4, <2>5 DEF InUse
  <2>7. RequestOK(k)' /\ NoStraggler(k)'
    <3>1. session[s] # None
      BY <2>2 DEF WorldOK, SessionOK, Held, InUse
    <3> QED
      BY <2>4, <2>5, <3>1 DEF RequestOK, NoStraggler
  <2>8. HeadsetOK(d)'
    BY <1>1, <1>2, <2>1, <2>4, <2>5 DEF HeadsetOK
  <2>9. Kept(d)'
    BY <1>1, <2>1, <2>4 DEF Kept, Live
  <2> QED
    BY <1>2, <2>1, <2>4, <2>5, <2>6, <2>7, <2>8, <2>9, HeadsetTalks, NoneIsNothing
<1>4. CASE SendRefresh(d, k)
  <2>1. headset[d].stored \in Session /\ headset[d].pc = "renew" /\ headset[d].slot = None
        /\ headset[d].polling = None
    BY <1>1, <1>4, HeadsetFields DEF SendRefresh, HeadsetOK
  <2>2. PICK s \in Session : s = headset[d].stored
    BY <2>1
  <2>3. Send(d, k, "refresh", s, "renewing")
    BY <1>4, <2>2 DEF SendRefresh
  <2>4. /\ TypeOK'
        /\ req[k] = NoRequest
        /\ req'[k] = [pc |-> "refresh", session |-> s]
        /\ \A j \in Slot \ {k} : req'[j] = req[j]
        /\ headset'[d].pc = "renewing" /\ headset'[d].slot = k
        /\ headset'[d].stored = headset[d].stored
        /\ headset'[d].token = headset[d].token
        /\ headset'[d].polling = headset[d].polling
        /\ \A e \in Device \ {d} : headset'[e] = headset[e]
        /\ UNCHANGED <<pairing, device, session, overdue, past, faults>>
    BY <2>3, SendTyped
  <2>5. req'[k].pc = "refresh" /\ req'[k].session = s
    BY <2>4
  <2>6. \A t \in Session : InUse(t)' => InUse(t)
    BY <2>2, <2>4, <2>5 DEF InUse
  <2>7. RequestOK(k)' /\ NoStraggler(k)'
    <3>1. session[s] # None
      BY <2>2 DEF WorldOK, SessionOK, Held, InUse
    <3> QED
      BY <2>4, <2>5, <3>1 DEF RequestOK, NoStraggler, Awaited
  <2>8. Renewing(d, k)'
    BY <2>2, <2>4, <2>5 DEF Renewing
  <2>9. HeadsetOK(d)'
    BY <1>1, <1>2, <2>1, <2>4, <2>5, <2>8 DEF HeadsetOK
  <2>10. Kept(d)'
    BY <1>1, <2>1, <2>4, <2>5 DEF Kept, Live
  <2> QED
    BY <1>2, <2>1, <2>4, <2>5, <2>6, <2>7, <2>9, <2>10, HeadsetTalks, NoneIsNothing
<1> QED
  BY <1>3, <1>4

LEMMA ReceiveAnswerKeeps ==
    ASSUME IInv, NEW d \in Device, ReceiveAnswer(d)
    PROVE  IInv'
<1> USE DEF IInv
<1>0. PICK k : k = headset[d].slot
  OBVIOUS
<1>1. HeadsetOK(d) /\ Kept(d) /\ headset[d] \in Headset /\ headset[d].pc = "sent"
  BY DEF HeadsetsOK, TypeOK, ReceiveAnswer
<1>2. k \in Slot /\ headset[d].stored # None /\ headset[d].token # None
      /\ headset[d].polling = None
  BY <1>0, <1>1, HeadsetFields DEF HeadsetOK
<1>3. PICK h \in Headset :
        /\ headset' = [headset EXCEPT ![d] = h]
        /\ h.pc \in {"idle", "renew"} /\ h.slot = None
        /\ h.stored = headset[d].stored /\ h.token = headset[d].token
        /\ h.polling = headset[d].polling
  <2>1. CASE req[k].status = "401" /\ MayTryAgain(headset[d])
    <3>1. headset[d].tries + 1 \in 0..1
      BY <2>1 DEF MayTryAgain
    <3>2. PICK a : a = [headset[d] EXCEPT !.pc = "renew"]
      OBVIOUS
    <3>3. PICK b : b = [a EXCEPT !.tries = headset[d].tries + 1]
      OBVIOUS
    <3>4. PICK h : h = [b EXCEPT !.slot = None]
      OBVIOUS
    <3>5. a \in Headset /\ a.pc = "renew" /\ a.stored = headset[d].stored
          /\ a.token = headset[d].token /\ a.polling = headset[d].polling
          /\ a.tries = headset[d].tries
      BY <1>1, <3>2 DEF Headset
    <3>6. b \in Headset /\ b.pc = "renew" /\ b.stored = headset[d].stored
          /\ b.token = headset[d].token /\ b.polling = headset[d].polling
      BY <3>1, <3>3, <3>5 DEF Headset
    <3>7. h \in Headset /\ h.pc = "renew" /\ h.stored = headset[d].stored
          /\ h.token = headset[d].token /\ h.polling = headset[d].polling /\ h.slot = None
      BY <3>4, <3>6 DEF Headset
    <3>8. h = [headset[d] EXCEPT !.pc = "renew", !.tries = headset[d].tries + 1, !.slot = None]
      BY <1>1, <3>2, <3>3, <3>4, <3>5 DEF Headset
    <3>9. headset' = [headset EXCEPT ![d] = h]
      <4>1. headset' = [headset EXCEPT ![d] =
              IF req[k].status = "401" /\ MayTryAgain(headset[d])
                THEN [headset[d] EXCEPT !.pc = "renew", !.tries = headset[d].tries + 1,
                                        !.slot = None]
                ELSE Idle(headset[d])]
        BY <1>0 DEF ReceiveAnswer
      <4> QED
        BY <2>1, <3>8, <4>1
    <3> QED
      BY <3>7, <3>9
  <2>2. CASE ~(req[k].status = "401" /\ MayTryAgain(headset[d]))
    <3>1. headset' = [headset EXCEPT ![d] = Idle(headset[d])]
      BY <1>0, <2>2 DEF ReceiveAnswer
    <3> QED
      BY <1>1, <3>1, IdleTyped
  <2> QED
    BY <2>1, <2>2
<1>4. headset' \in [Device -> Headset] /\ headset'[d] = h
      /\ \A e \in Device \ {d} : headset'[e] = headset[e]
  BY <1>3 DEF TypeOK
<1>5. /\ req' \in [Slot -> Request] /\ req'[k] = NoRequest
      /\ \A j \in Slot \ {k} : req'[j] = req[j]
  BY <1>0, <1>2, DoneTyped DEF ReceiveAnswer, TypeOK
<1>6. UNCHANGED <<pairing, device, session, overdue, past, faults>>
  BY DEF ReceiveAnswer
<1>7. TypeOK'
  BY <1>4, <1>5, <1>6 DEF TypeOK
<1>8. req'[k].pc = "idle"
  BY <1>5 DEF NoRequest
<1>9. \A s \in Session : InUse(s)' => InUse(s)
  BY <1>2, <1>3, <1>4, <1>5, <1>8 DEF InUse
<1>10. HeadsetOK(d)'
  BY <1>1, <1>2, <1>3, <1>4, <1>6 DEF HeadsetOK
<1>11. Kept(d)'
  BY <1>1, <1>3, <1>4, <1>6 DEF Kept, Live
<1>12. RequestOK(k)' /\ NoStraggler(k)'
  BY <1>8 DEF RequestOK, NoStraggler
<1>13. \A e \in Device \ {d} : headset[e].slot # k
  BY <1>0, <1>2, WaitingFor
<1> QED
  BY <1>0, <1>2, <1>3, <1>4, <1>5, <1>6, <1>7, <1>8, <1>9, <1>10, <1>11, <1>12, <1>13, HeadsetTalks

LEMMA ReceiveRefreshKeeps ==
    ASSUME IInv, NEW d \in Device, ReceiveRefresh(d)
    PROVE  IInv'
<1> USE DEF IInv
<1>0. PICK k : k = headset[d].slot
  OBVIOUS
<1>a. PICK s : s = req[k].session
  OBVIOUS
<1>1. HeadsetOK(d) /\ Kept(d) /\ headset[d] \in Headset /\ headset[d].pc = "renewing"
  BY DEF HeadsetsOK, TypeOK, ReceiveRefresh
<1>2. k \in Slot /\ headset[d].polling = None /\ Renewing(d, k) /\ req[k].pc = "answered"
  BY <1>0, <1>1, HeadsetFields DEF HeadsetOK, ReceiveRefresh, Serving
<1>3. s \in Session \union {None} /\ req[k].status \in {"ok", "401", "403"}
  BY <1>a, <1>2, RequestFields DEF TypeOK
<1>4. PICK h \in Headset :
        /\ headset' = [headset EXCEPT ![d] = h]
        /\ h.slot = None /\ h.polling = None
        /\ \/ req[k].status = "ok" /\ h.pc = "calling" /\ h.stored = s /\ h.token = s
           \/ req[k].status # "ok" /\ h.pc = "idle" /\ h.stored = None /\ h.token = None
  <2>1. CASE req[k].status = "ok"
    <3>1. PICK a : a = [headset[d] EXCEPT !.stored = s, !.token = s]
      OBVIOUS
    <3>2. PICK h : h = [a EXCEPT !.pc = "calling", !.slot = None]
      OBVIOUS
    <3>3. a \in Headset /\ a.stored = s /\ a.token = s /\ a.polling = None
      BY <1>1, <1>2, <1>3, <3>1 DEF Headset
    <3>4. h \in Headset /\ h.pc = "calling" /\ h.slot = None /\ h.stored = s /\ h.token = s
          /\ h.polling = None
      BY <3>2, <3>3 DEF Headset
    <3>5. h = [Renewed(headset[d], s) EXCEPT !.pc = "calling", !.slot = None]
      BY <3>1, <3>2 DEF Renewed
    <3>6. headset' = [headset EXCEPT ![d] = h]
      BY <1>0, <1>a, <2>1, <3>5 DEF ReceiveRefresh
    <3> QED
      BY <2>1, <3>4, <3>6
  <2>2. CASE req[k].status # "ok"
    <3>1. PICK a : a = Idle(headset[d])
      OBVIOUS
    <3>2. PICK h : h = [a EXCEPT !.stored = None, !.token = None]
      OBVIOUS
    <3>3. a \in Headset /\ a.pc = "idle" /\ a.slot = None /\ a.polling = None
      BY <1>1, <1>2, <3>1, IdleTyped
    <3>4. h \in Headset /\ h.pc = "idle" /\ h.slot = None /\ h.stored = None /\ h.token = None
          /\ h.polling = None
      BY <3>2, <3>3 DEF Headset
    <3>5. headset' = [headset EXCEPT ![d] = h]
      BY <1>0, <2>2, <3>1, <3>2 DEF ReceiveRefresh
    <3> QED
      BY <2>2, <3>4, <3>5
  <2> QED
    BY <2>1, <2>2
<1>5. headset' \in [Device -> Headset] /\ headset'[d] = h
      /\ \A e \in Device \ {d} : headset'[e] = headset[e]
  BY <1>4 DEF TypeOK
<1>6. /\ req' \in [Slot -> Request] /\ req'[k] = NoRequest
      /\ \A j \in Slot \ {k} : req'[j] = req[j]
  BY <1>0, <1>2, DoneTyped DEF ReceiveRefresh, TypeOK
<1>7. UNCHANGED <<pairing, device, session, overdue, past, faults>>
  BY DEF ReceiveRefresh
<1>8. TypeOK'
  BY <1>5, <1>6, <1>7 DEF TypeOK
<1>9. req'[k].pc = "idle"
  BY <1>6 DEF NoRequest
<1>10. \A t \in Session : InUse(t)' => InUse(t)
  <2> SUFFICES ASSUME NEW t \in Session, InUse(t)' PROVE InUse(t)
    OBVIOUS
  <2>1. CASE \E e \in Device : headset'[e].stored = t \/ headset'[e].token = t
    BY <1>a, <1>2, <1>4, <1>5, <2>1, NoneIsNothing DEF InUse
  <2>2. CASE \E j \in Slot : req'[j].pc \in {"refresh", "recheck", "answered"} /\ req'[j].session = t
    BY <1>6, <1>9, <2>2 DEF InUse
  <2> QED
    BY <2>1, <2>2 DEF InUse
<1>11. HeadsetOK(d)'
  BY <1>a, <1>2, <1>4, <1>5, <1>7 DEF HeadsetOK, Renewing
<1>12. Kept(d)'
  <2>1. CASE faults = 0 /\ past[d].fate = {"paired"}
    <3>1. req[k].status = "ok" /\ Live(s)
      BY <1>0, <1>a, <1>1, <1>2, <2>1 DEF Kept
    <3>2. s # None
      BY <1>a, <1>2, <3>1 DEF Renewing
    <3> QED
      BY <1>4, <1>5, <1>7, <3>1, <3>2 DEF Kept, Live
  <2>2. CASE ~(faults = 0 /\ past[d].fate = {"paired"})
    BY <1>7, <2>2 DEF Kept
  <2> QED
    BY <2>1, <2>2
<1>13. RequestOK(k)' /\ NoStraggler(k)'
  BY <1>9 DEF RequestOK, NoStraggler
<1>14. \A e \in Device \ {d} : headset[e].slot # k
  BY <1>0, <1>2, WaitingFor
<1> QED
  BY <1>0, <1>2, <1>4, <1>5, <1>6, <1>7, <1>8, <1>9, <1>10, <1>11, <1>12, <1>13, <1>14, HeadsetTalks

LEMMA GiveUpKeeps ==
    ASSUME IInv, NEW d \in Device, GiveUp(d)
    PROVE  IInv'
<1> USE DEF IInv
<1>1. HeadsetOK(d) /\ headset[d] \in Headset
  BY DEF HeadsetsOK, TypeOK
<1>2. PICK slot \in Slot \union {None} : slot = headset[d].slot
  BY <1>1, HeadsetFields
<1>3. faults' \in Nat /\ faults' # 0
  BY FaultTyped DEF GiveUp, TypeOK
<1>4. PICK h \in Headset :
        /\ headset' = [headset EXCEPT ![d] = h]
        /\ h.pc = "idle" /\ h.slot = None /\ h.stored = headset[d].stored
        /\ h.token \in {headset[d].token, None}
        /\ h.polling \in {headset[d].polling, None}
  <2>1. PICK a : a = Idle(headset[d])
    OBVIOUS
  <2>2. a \in Headset /\ a.pc = "idle" /\ a.slot = None /\ a.stored = headset[d].stored
        /\ a.token = headset[d].token /\ a.polling = headset[d].polling
    BY <1>1, <2>1, IdleTyped
  <2>3. PICK b : b = [a EXCEPT !.polling = None, !.token = None]
    OBVIOUS
  <2>4. b \in Headset /\ b.pc = "idle" /\ b.slot = None /\ b.stored = headset[d].stored
        /\ b.token = None /\ b.polling = None
    BY <2>2, <2>3 DEF Headset
  <2>5. headset' = [headset EXCEPT ![d] = a] \/ headset' = [headset EXCEPT ![d] = b]
    BY <2>1, <2>3 DEF GiveUp
  <2> QED
    BY <2>2, <2>4, <2>5
<1>5. headset' \in [Device -> Headset] /\ headset'[d] = h
      /\ \A e \in Device \ {d} : headset'[e] = headset[e]
  BY <1>4 DEF TypeOK
<1>6. req' = [k \in Slot |-> IF k = slot /\ Serving(k, "answered") THEN NoRequest ELSE req[k]]
  BY <1>2 DEF GiveUp
<1>7. req' \in [Slot -> Request]
  BY <1>6, RequestShapes DEF TypeOK
<1>8. UNCHANGED <<pairing, device, session, overdue, past>>
  BY DEF GiveUp
<1>9. TypeOK'
  BY <1>3, <1>5, <1>7, <1>8 DEF TypeOK
<1>10. \A k \in Slot : req'[k] # req[k] => k = slot /\ req'[k].pc = "idle"
  BY <1>6 DEF NoRequest
<1>11. \A k \in Slot : k = slot => req'[k].pc # "answered"
  BY <1>6 DEF NoRequest, Serving
<1>12. \A s \in Session : InUse(s)' => InUse(s)
  BY <1>4, <1>5, <1>10, NoneIsNothing DEF InUse
<1>13. HeadsetOK(d)'
  BY <1>1, <1>4, <1>5, <1>8 DEF HeadsetOK
<1>14. Kept(d)'
  BY <1>3 DEF Kept
<1>15. \A k \in Slot : req'[k].pc = "idle" => RequestOK(k)' /\ NoStraggler(k)'
  BY DEF RequestOK, NoStraggler
<1>16. \A k \in Slot : k = slot => \A e \in Device \ {d} : headset[e].slot # k
  BY <1>2, WaitingFor
<1> QED
  BY <1>2, <1>3, <1>4, <1>5, <1>8, <1>9, <1>10, <1>11, <1>12, <1>13, <1>14, <1>15, <1>16,
     HeadsetTalks

LEMMA PollFailsKeeps ==
    ASSUME IInv, NEW d \in Device, PollFails(d)
    PROVE  IInv'
<1> USE DEF IInv
<1>1. HeadsetOK(d) /\ headset[d] \in Headset
  BY DEF HeadsetsOK, TypeOK
<1>2. faults' \in Nat /\ faults' # 0
  BY FaultTyped DEF PollFails, TypeOK
<1>3. PICK h : h = [headset[d] EXCEPT !.polling = None]
  OBVIOUS
<1>4. h \in Headset /\ h.pc = headset[d].pc /\ h.slot = headset[d].slot
      /\ h.stored = headset[d].stored /\ h.token = headset[d].token /\ h.polling = None
  BY <1>1, <1>3 DEF Headset
<1>5. headset' \in [Device -> Headset] /\ headset'[d] = h
      /\ \A e \in Device \ {d} : headset'[e] = headset[e]
  BY <1>3, <1>4 DEF PollFails, TypeOK
<1>6. UNCHANGED <<pairing, device, session, overdue, req, past>>
      /\ headset[d].pc = "idle" /\ headset[d].slot = None
  BY <1>1 DEF PollFails, HeadsetOK
<1>7. TypeOK'
  BY <1>2, <1>5, <1>6 DEF TypeOK
<1>8. \A s \in Session : InUse(s)' => InUse(s)
  BY <1>4, <1>5, <1>6 DEF InUse
<1>9. HeadsetOK(d)'
  BY <1>1, <1>4, <1>5, <1>6 DEF HeadsetOK
<1>10. Kept(d)'
  BY <1>2 DEF Kept
<1> QED
  BY <1>2, <1>4, <1>5, <1>6, <1>7, <1>8, <1>9, <1>10, HeadsetTalks, NoneIsNothing

LEMMA CrashKeeps ==
    ASSUME IInv, Crash
    PROVE  IInv'
<1> USE DEF IInv
<1>1. faults' \in Nat /\ faults' # 0
  BY FaultTyped DEF Crash, TypeOK
<1>2. req' \in [Slot -> Request] /\ \A k \in Slot : req'[k].pc = "idle"
  BY RequestShapes DEF Crash, NoRequest
<1>3. \A d \in Device :
        /\ headset'[d] \in Headset
        /\ headset'[d].stored = headset[d].stored
        /\ headset'[d].token = headset[d].token
        /\ headset'[d].polling = headset[d].polling
        /\ headset'[d].slot = None
        /\ headset[d].slot # None => headset'[d].pc = "idle"
        /\ headset[d].slot = None => headset'[d] = headset[d]
  BY IdleTyped DEF Crash, TypeOK
<1>4. headset' \in [Device -> Headset]
  BY <1>3 DEF Crash
<1>5. UNCHANGED <<pairing, device, session, overdue, past>>
  BY DEF Crash
<1>6. TypeOK'
  BY <1>1, <1>2, <1>4, <1>5 DEF TypeOK
<1>7. \A s \in Session : InUse(s)' => InUse(s)
  BY <1>2, <1>3 DEF InUse
<1>8. /\ PairingsGoOn /\ SessionsGoOn /\ DevicesGoOn /\ NoneIssued /\ NoRevocation
      /\ UnusedStay
      /\ \A s \in Session : Held(s)' => Held(s)
  BY <1>5, <1>7, StoresStay
<1>9. \A k \in Slot, p \in Pairing : Exchanges(k, p)' => Exchanges(k, p)
  BY <1>2 DEF Exchanges
<1>10. WorldOK'
  <2>1. \A e \in Device : StatusOK(e)'
    BY <1>5, StatusStays DEF WorldOK
  <2> QED
    BY <1>5, <1>6, <1>8, <1>9, <2>1, WorldStays DEF NobodyGains, NoneIssued, NoRevocation
<1>11. RequestsOK'
  BY <1>2 DEF RequestsOK, RequestOK, NoStraggler
<1>12. \A d \in Device : HeadsetOK(d)'
  <2> SUFFICES ASSUME NEW d \in Device PROVE HeadsetOK(d)'
    OBVIOUS
  <2>1. HeadsetOK(d)
    BY DEF HeadsetsOK
  <2> QED
    BY <1>3, <1>5, <2>1 DEF HeadsetOK
<1>13. \A d \in Device : Untouched(d)'
  BY <1>3, <1>8, <1>9, PollingStays DEF HeadsetsOK, WorldOK, NoneIssued
<1>14. \A d \in Device : Kept(d)'
  BY <1>1 DEF Kept
<1> QED
  BY <1>6, <1>10, <1>11, <1>12, <1>13, <1>14 DEF HeadsetsOK

-----------------------------------------------------------------------------
(***************************************************************************)
(* Pairings, statuses and the clock.                                       *)
(***************************************************************************)
LEMMA SessionsRest ==
    ASSUME UNCHANGED <<session, past>>,
           \A d \in Device : device[d] # "unknown" => device'[d] # "unknown"
    PROVE  /\ SessionsGoOn /\ DevicesGoOn /\ NoneIssued /\ NoRevocation
           /\ \A s \in Session : Live(s)' <=> Live(s)
           /\ (\A s \in Session : InUse(s)' => InUse(s)) => UnusedStay
<1>1. \A s \in Session : Live(s)' <=> Live(s)
  BY DEF Live
<1> QED
  BY <1>1 DEF SessionsGoOn, DevicesGoOn, NoneIssued, NoRevocation, UnusedStay

\* Steps of a pairing that authorize nothing.
LEMMA PairingMoves ==
    ASSUME IInv, NEW p \in Pairing, NEW state \in PairingState,
           pairing' = [pairing EXCEPT ![p].state = state],
           \/ pairing[p].state = "unused" /\ state = "open"
           \/ pairing[p].state = "claimed" /\ state \in {"rejected", "expired"},
           UNCHANGED <<device, session, past>>
    PROVE  /\ pairing' \in [Pairing -> PairingRecord]
           /\ PairingsGoOn
           /\ \A q \in Pairing : pairing'[q].bootstrap = pairing[q].bootstrap
           /\ \A q \in Pairing : pairing'[q] = pairing[q] \/ PairingOK(q)'
<1> USE DEF IInv
<1>1. /\ pairing' \in [Pairing -> PairingRecord]
      /\ pairing'[p].state = state
      /\ pairing'[p].device = pairing[p].device
      /\ pairing'[p].bootstrap = pairing[p].bootstrap
      /\ \A q \in Pairing \ {p} : pairing'[q] = pairing[q]
  BY StateTyped
<1>2. PairingsGoOn
  BY <1>1 DEF PairingsGoOn, Unclaimed
<1>3. PairingOK(p)'
  <2>1. PairingOK(p)
    BY DEF WorldOK
  <2> QED
    BY <1>1, <2>1 DEF PairingOK, Unclaimed
<1> QED
  BY <1>1, <1>2, <1>3

\* ... and nothing else.
LEMMA PairingMovesAlone ==
    ASSUME IInv, NEW p \in Pairing, NEW state \in PairingState,
           pairing' = [pairing EXCEPT ![p].state = state],
           \/ pairing[p].state = "unused" /\ state = "open"
           \/ pairing[p].state = "claimed" /\ state \in {"rejected", "expired"},
           UNCHANGED <<device, session, overdue, req, headset, past, faults>>
    PROVE  IInv'
<1> USE DEF IInv
<1>1. /\ pairing' \in [Pairing -> PairingRecord]
      /\ PairingsGoOn
      /\ \A q \in Pairing : pairing'[q].bootstrap = pairing[q].bootstrap
      /\ \A q \in Pairing : pairing'[q] = pairing[q] \/ PairingOK(q)'
  BY PairingMoves
<1>2. TypeOK'
  BY <1>1 DEF TypeOK
<1>3. \A s \in Session : InUse(s)' <=> InUse(s)
  BY DEF InUse
<1>4. \A s \in Session : Held(s)' => Held(s)
  BY <1>1, <1>3 DEF Held
<1>5. SessionsGoOn /\ DevicesGoOn /\ NoneIssued /\ NoRevocation /\ UnusedStay
      /\ \A s \in Session : Live(s)' <=> Live(s)
  BY <1>3, SessionsRest
<1>6. WorldOK'
  <2>1. \A e \in Device : StatusOK(e)'
    BY StatusStays DEF WorldOK
  <2>2. NobodyGains
    BY <1>4 DEF NobodyGains, Exchanges
  <2> QED
    BY <1>1, <1>2, <1>5, <2>1, <2>2, WorldStays DEF NoneIssued, NoRevocation
<1>7. \A e \in Device : Kept(e)'
  BY <1>5, KeptStays DEF HeadsetsOK
<1> QED
  BY <1>1, <1>2, <1>4, <1>5, <1>6, <1>7, StoresMove

LEMMA CreateOrRejectKeeps ==
    ASSUME IInv, NEW p \in Pairing, CreatePairing(p) \/ Reject(p)
    PROVE  IInv'
BY PairingMovesAlone DEF CreatePairing, Reject, PairingState

LEMMA SetStatusKeeps ==
    ASSUME IInv, NEW d \in Device, NEW status \in {"authorized", "disabled"},
           SetStatus(d, status)
    PROVE  IInv'
<1> USE DEF IInv
<1>1. TypeOK'
  BY AdminTyped DEF AdminStep
<1>2. UNCHANGED <<pairing, session, overdue, req, headset, faults>>
      /\ device' = [device EXCEPT ![d] = status] /\ device[d] # "unknown"
  BY DEF SetStatus
<1>3. /\ \A e \in Device \ {d} : past'[e] = past[e]
      /\ \A e \in Device : past'[e].ended = past[e].ended /\ past'[e].renewing = past[e].renewing
      /\ past[d].fate = {"cut"} => past'[d].fate = {"cut"}
      /\ past[d].fate # {"cut"} =>
           past'[d].fate = IF status = "disabled" THEN past[d].fate \union {"disabled"}
                           ELSE past[d].fate
  BY NoteTyped DEF SetStatus, TypeOK
<1>4. \A s \in Session : (InUse(s)' <=> InUse(s)) /\ (Held(s)' <=> Held(s)) /\ (Live(s)' <=> Live(s))
  BY <1>2 DEF InUse, Held, Live
<1>5. DevicesGoOn
  BY <1>2, <1>3 DEF DevicesGoOn, TypeOK
<1>6. PairingsGoOn /\ SessionsGoOn /\ NoneIssued /\ NoRevocation /\ UnusedStay
  BY <1>2, <1>3, <1>4 DEF PairingsGoOn, SessionsGoOn, NoneIssued, NoRevocation, UnusedStay
<1>7. WorldOK'
  <2>1. \A e \in Device \ {d} : StatusOK(e)'
    BY <1>2, <1>3, StatusStays DEF WorldOK, TypeOK
  <2>2. StatusOK(d)'
    <3>1. StatusOK(d) /\ device'[d] = status
      BY <1>2 DEF WorldOK, TypeOK
    <3>2. status = "disabled" =>
            past'[d].fate = {"cut"} \/ past'[d].fate = past[d].fate \union {"disabled"}
      BY <1>3
    <3> QED
      BY <3>1, <3>2 DEF StatusOK, Undisturbed
  <2>3. NobodyGains
    BY <1>2, <1>4 DEF NobodyGains, Exchanges
  <2> QED
    BY <1>1, <1>2, <1>5, <1>6, <2>1, <2>2, <2>3, WorldStays DEF NoneIssued, NoRevocation
<1>8. \A e \in Device : Kept(e)'
  <2> SUFFICES ASSUME NEW e \in Device PROVE Kept(e)'
    OBVIOUS
  <2>1. CASE past'[e].fate = past[e].fate
    BY <1>2, <1>4, <2>1, KeptStays DEF HeadsetsOK
  <2>2. CASE past'[e].fate # past[e].fate
    <3>1. past'[e].fate # {"paired"}
      BY <1>3, <2>2
    <3> QED
      BY <3>1 DEF Kept
  <2> QED
    BY <2>1, <2>2
<1> QED
  BY <1>1, <1>2, <1>4, <1>5, <1>6, <1>7, <1>8, StoresMove

LEMMA PairingRunsOutKeeps ==
    ASSUME IInv, NEW p \in Pairing, PairingRunsOut(p)
    PROVE  IInv'
<1> USE DEF IInv
<1>1. UNCHANGED <<pairing, device, session, req, headset, past, faults>>
  BY DEF PairingRunsOut
<1>2. TypeOK'
  BY DEF PairingRunsOut, TypeOK
<1>3. WorldOK'
  BY <1>1 DEF WorldOK, PairingOK, OneCredential, SessionOK, NoCredentialLeft, StatusOK,
              Undisturbed, Carries, Exchanges, Live, Held, InUse
<1>4. RequestsOK'
  BY <1>1 DEF RequestsOK, RequestOK, NoStraggler, Awaited, Held, InUse
<1>5. HeadsetsOK'
  <2>1. \A d \in Device : HeadsetOK(d) => HeadsetOK(d)'
    BY <1>1 DEF HeadsetOK, Renewing
  <2>2. \A d \in Device : Untouched(d) => Untouched(d)'
    BY <1>1 DEF Untouched, Exchanges, Live, InUse
  <2>3. \A d \in Device : Kept(d) => Kept(d)'
    BY <1>1 DEF Kept, Live
  <2> QED
    BY <2>1, <2>2, <2>3 DEF HeadsetsOK
<1> QED
  BY <1>2, <1>3, <1>4, <1>5

\* A session is revoked, or expires, together with the credential's device.
LEMMA CutsKeep ==
    ASSUME IInv, TypeOK', NEW s \in Session, session[s] # None,
           UNCHANGED <<pairing, device, req, headset, faults>>,
           session'[s] # None,
           session'[s].device = session[s].device, session'[s].from = session[s].from,
           Live(s)' => Live(s),
           \A t \in Session \ {s} : session'[t] = session[t],
           CutOff(session[s].device)
    PROVE  IInv'
<1> USE DEF IInv
<1>1. PICK d \in Device : d = session[s].device
  BY SessionFields DEF TypeOK
<1>2. /\ past'[d].fate = {"cut"}
      /\ \A e \in Device \ {d} : past'[e] = past[e]
      /\ \A e \in Device : past'[e].ended = past[e].ended /\ past'[e].renewing = past[e].renewing
  BY <1>1, CutOffTyped DEF TypeOK
<1>3. \A t \in Session : (InUse(t)' <=> InUse(t)) /\ (Held(t)' <=> Held(t))
  BY DEF InUse, Held
<1>4. \A t \in Session \ {s} : Live(t)' <=> Live(t)
  BY DEF Live
<1>5. PairingsGoOn /\ DevicesGoOn /\ NoneIssued
  BY <1>2 DEF PairingsGoOn, DevicesGoOn, NoneIssued
<1>6. SessionsGoOn /\ UnusedStay
  BY <1>1, <1>2, <1>3, <1>4 DEF SessionsGoOn, UnusedStay
<1>7. WorldOK'
  <2>1. \A e \in Device : StatusOK(e)'
    <3>1. StatusOK(d)'
      BY <1>2 DEF StatusOK, Undisturbed
    <3> QED
      BY <1>2, <3>1, StatusStays DEF WorldOK
  <2>2. NobodyGains
    BY <1>3 DEF NobodyGains, Exchanges
  <2> QED
    BY <1>2, <1>5, <1>6, <2>1, <2>2, WorldStays DEF NoneIssued
<1>8. \A e \in Device : Kept(e)'
  <2>1. Kept(d)'
    BY <1>2 DEF Kept
  <2>2. ASSUME NEW e \in Device \ {d} PROVE Kept(e)'
    <3>1. \A t \in Session : (Live(t) /\ session[t].device = e) => Live(t)'
      BY <1>1, <1>4
    <3> QED
      BY <1>2, <3>1, KeptStays DEF HeadsetsOK
  <2> QED
    BY <2>1, <2>2
<1> QED
  BY <1>3, <1>5, <1>6, <1>7, <1>8, StoresMove

LEMMA LogoutKeeps ==
    ASSUME IInv, NEW d \in Device, Logout(d)
    PROVE  IInv'
<1> USE DEF IInv
<1>1. PICK s \in Session : s = headset[d].token
  BY HeadsetFields DEF Logout, TypeOK
<1>2. session[s] # None /\ session[s].device = d
  <2>1. InUse(s)
    BY <1>1 DEF InUse
  <2>2. headset[d].token # None
    BY DEF Logout
  <2> QED
    BY <1>1, <2>1, <2>2 DEF WorldOK, SessionOK, Held, HeadsetsOK, HeadsetOK
<1>3. /\ session' \in [Session -> SessionRecord \union {None}]
      /\ session'[s] # None
      /\ session'[s].device = session[s].device
      /\ session'[s].from = session[s].from
      /\ session'[s].status = "revoked"
      /\ \A t \in Session \ {s} : session'[t] = session[t]
  BY <1>1, <1>2, ConsumedTyped DEF Logout
<1>4. past' \in [Device -> Past] /\ CutOff(session[s].device)
  BY <1>2, CutOffTyped DEF Logout, TypeOK
<1>5. UNCHANGED <<pairing, device, overdue, req, headset, faults>>
  BY DEF Logout
<1>6. TypeOK'
  BY <1>3, <1>4, <1>5 DEF TypeOK
<1>7. Live(s)' => Live(s)
  BY <1>3 DEF Live
<1> QED
  BY <1>2, <1>3, <1>4, <1>5, <1>6, <1>7, CutsKeep

LEMMA SessionAgesKeeps ==
    ASSUME IInv, NEW s \in Session, SessionAges(s)
    PROVE  IInv'
<1> USE DEF IInv
<1>1. session[s] # None /\ session[s] \in SessionRecord /\ session[s].status \in {"fresh", "stale"}
  BY DEF SessionAges, TypeOK
<1>2. PICK status \in {"stale", "expired"} :
        /\ session' = [session EXCEPT ![s].status = status]
        /\ \/ status = "stale" /\ UNCHANGED past
           \/ status = "expired" /\ CutOff(session[s].device)
  BY DEF SessionAges
<1>3. PICK r : r = [session[s] EXCEPT !.status = status]
  OBVIOUS
<1>4. /\ r \in SessionRecord /\ r.status = status /\ r.device = session[s].device
      /\ r.from = session[s].from /\ r # None
  <2>1. status \in SessionStatus
    BY DEF SessionStatus
  <2> QED
    BY <1>1, <1>3, <2>1, SessionStatusTyped, SessionsAssumption
<1>5. /\ session' \in [Session -> SessionRecord \union {None}]
      /\ session'[s] = r
      /\ \A t \in Session \ {s} : session'[t] = session[t]
  BY <1>2, <1>3, <1>4 DEF TypeOK
<1>6. UNCHANGED <<pairing, device, overdue, req, headset, faults>>
  BY DEF SessionAges
<1>7. session[s].device \in Device
  BY <1>1, SessionFields
<1>8. past' \in [Device -> Past]
  BY <1>2, <1>7, CutOffTyped DEF TypeOK
<1>9. TypeOK'
  BY <1>5, <1>6, <1>8 DEF TypeOK
<1>10. \A t \in Session : Live(t)' <=> Live(t)
  BY <1>1, <1>2, <1>4, <1>5 DEF Live
<1>11. CASE status = "expired"
  BY <1>1, <1>2, <1>4, <1>5, <1>6, <1>9, <1>10, <1>11, CutsKeep
<1>12. CASE status = "stale"
  <2>1. UNCHANGED past
    BY <1>2, <1>12
  <2>2. \A t \in Session : (InUse(t)' <=> InUse(t)) /\ (Held(t)' <=> Held(t))
    BY <1>6 DEF InUse, Held
  <2>3. PairingsGoOn /\ DevicesGoOn /\ NoneIssued /\ NoRevocation /\ UnusedStay
    BY <1>1, <1>5, <1>6, <1>10, <2>1, <2>2
       DEF PairingsGoOn, DevicesGoOn, NoneIssued, NoRevocation, UnusedStay
  <2>4. SessionsGoOn
    BY <1>1, <1>4, <1>5, <1>10, <1>12 DEF SessionsGoOn
  <2>5. WorldOK'
    <3>1. \A e \in Device : StatusOK(e)'
      BY <1>6, <2>1, StatusStays DEF WorldOK
    <3>2. NobodyGains
      BY <1>6, <2>2 DEF NobodyGains, Exchanges
    <3> QED
      BY <1>6, <2>3, <2>4, <3>1, <3>2, WorldStays DEF NoneIssued, NoRevocation
  <2>6. \A e \in Device : Kept(e)'
    BY <1>6, <1>10, <2>1, KeptStays DEF HeadsetsOK
  <2> QED
    BY <1>6, <1>9, <2>2, <2>3, <2>4, <2>5, <2>6, StoresMove
<1> QED
  BY <1>11, <1>12

-----------------------------------------------------------------------------
(***************************************************************************)
(* The steps of the handlers.                                              *)
(***************************************************************************)
\* A step of handler k that leaves the stores alone.
LEMMA HandlerTalks ==
    ASSUME IInv, TypeOK', NEW k \in Slot,
           UNCHANGED <<pairing, device, session, past, headset, faults>>,
           \A j \in Slot \ {k} : req'[j] = req[j],
           RequestOK(k)',
           req'[k].pc \notin {"refresh", "conclude", "reissue"},
           \A s \in Session : InUse(s)' => InUse(s),
           \A d \in Device : headset[d].slot = k =>
             /\ headset[d].pc = "sent" => req'[k].pc \in {"verify", "lookup", "answered"}
             /\ headset[d].pc = "renewing" => Renewing(d, k)'
             /\ Kept(d)'
    PROVE  IInv'
<1> USE DEF IInv
<1>1. /\ PairingsGoOn /\ SessionsGoOn /\ DevicesGoOn /\ NoneIssued /\ NoRevocation
      /\ UnusedStay
      /\ \A s \in Session : Held(s)' => Held(s)
      /\ \A s \in Session : Live(s)' <=> Live(s)
  BY StoresStay
<1>2. \A j \in Slot, p \in Pairing : Exchanges(j, p)' => Exchanges(j, p)
  BY DEF Exchanges
<1>3. WorldOK'
  <2>1. \A e \in Device : StatusOK(e)'
    BY StatusStays DEF WorldOK
  <2> QED
    BY <1>1, <1>2, <2>1, WorldStays DEF NobodyGains, NoneIssued, NoRevocation
<1>4. \A e \in Device : Untouched(e)'
  BY <1>1, <1>2, PollingStays DEF HeadsetsOK, WorldOK, NoneIssued
<1>5. \A e \in Device : Kept(e)'
  <2> SUFFICES ASSUME NEW e \in Device, headset[e].slot # k PROVE Kept(e)'
    OBVIOUS
  <2>1. HeadsetOK(e) /\ Kept(e) /\ headset[e] \in Headset
    BY DEF HeadsetsOK, TypeOK
  <2>2. headset[e].slot # None => req'[headset[e].slot] = req[headset[e].slot]
    BY <2>1, HeadsetFields
  <2> QED
    BY <1>1, <2>1, <2>2, KeptStays
<1>6. \A j \in Slot \ {k} : req[j].pc = "conclude" => req[j].session \in Session
  BY RequestFields DEF TypeOK
<1>7. \A j \in Slot \ {k} : req[j].pc = "conclude" =>
        /\ Held(req[j].session)' => Held(req[j].session)
        /\ req'[k].pc = "conclude" => req'[k].session # req[j].session
  BY <1>1, <1>6
<1> QED
  BY <1>1, <1>3, <1>4, <1>5, <1>7, HandlerMoves

\* Nobody waits for a handler that has not begun or that is the administrator's.
LEMMA NobodyWaits ==
    ASSUME TypeOK, HeadsetsOK, NEW k \in Slot,
           req[k].pc \in {"idle", "register", "issue", "conclude", "revoke"}
    PROVE  \A d \in Device : headset[d].slot # k
BY WaitingFor

LEMMA ApproveKeeps ==
    ASSUME IInv, NEW k \in Slot, NEW p \in Pairing, Approve(k, p)
    PROVE  IInv'
<1> USE DEF IInv
<1>1. CASE Expired(p)
  <2>1. pairing' = [pairing EXCEPT ![p].state = "expired"] /\ pairing[p].state = "claimed"
        /\ UNCHANGED <<device, session, overdue, req, headset, past, faults>>
    BY <1>1 DEF Approve, Expire
  <2>2. "expired" \in PairingState
    BY DEF PairingState
  <2> QED
    BY <2>1, <2>2, PairingMovesAlone
<1>2. CASE ~Expired(p)
  <2>1. /\ Continue(k, [pc |-> "register", pairing |-> p])
        /\ UNCHANGED <<pairing, device, session, overdue, headset, past, faults>>
        /\ pairing[p].state = "claimed" /\ req[k].pc = "idle"
    BY <1>2 DEF Approve, NoRequest
  <2>2. [pc |-> "register", pairing |-> p] \in Request
    BY RequestShapes
  <2>3. /\ req' \in [Slot -> Request]
        /\ req'[k] = [pc |-> "register", pairing |-> p]
        /\ \A j \in Slot \ {k} : req'[j] = req[j]
    BY <2>1, <2>2, ContinueTyped DEF TypeOK
  <2>4. req'[k].pc = "register" /\ req'[k].pairing = p
    BY <2>3
  <2>5. TypeOK'
    BY <2>1, <2>3 DEF TypeOK
  <2>6. RequestOK(k)'
    BY <2>1, <2>4 DEF RequestOK, Unclaimed
  <2>7. \A s \in Session : InUse(s)' => InUse(s)
    BY <2>1, <2>3, <2>4 DEF InUse
  <2> QED
    BY <2>1, <2>3, <2>4, <2>5, <2>6, <2>7, NobodyWaits, HandlerTalks
<1> QED
  BY <1>1, <1>2

LEMMA RevokeKeeps ==
    ASSUME IInv, NEW k \in Slot, NEW d \in Device, Revoke(k, d)
    PROVE  IInv'
<1> USE DEF IInv
<1>1. TypeOK'
  BY AdminTyped DEF AdminStep
<1>2. UNCHANGED <<pairing, session, overdue, headset, faults>>
      /\ device' = [device EXCEPT ![d] = "revoked"] /\ req[k].pc = "idle"
  BY DEF Revoke, NoRequest
<1>3. /\ past'[d].fate = {"cut"}
      /\ \A e \in Device \ {d} : past'[e] = past[e]
      /\ \A e \in Device : past'[e].ended = past[e].ended /\ past'[e].renewing = past[e].renewing
  BY CutOffTyped DEF Revoke, TypeOK
<1>4. /\ req'[k] = [pc |-> "revoke", device |-> d]
      /\ \A j \in Slot \ {k} : req'[j] = req[j]
  BY RequestShapes, ContinueTyped DEF Revoke, TypeOK
<1>5. req'[k].pc = "revoke" /\ req'[k].device = d
  BY <1>4
<1>6. \A s \in Session : (InUse(s)' => InUse(s)) /\ (Held(s)' => Held(s)) /\ (Live(s)' <=> Live(s))
  BY <1>2, <1>4, <1>5 DEF InUse, Held, Live
<1>7. PairingsGoOn /\ SessionsGoOn /\ DevicesGoOn /\ NoneIssued /\ UnusedStay
  BY <1>2, <1>3, <1>6 DEF PairingsGoOn, SessionsGoOn, DevicesGoOn, NoneIssued, UnusedStay, TypeOK
<1>8. \A j \in Slot, p \in Pairing : Exchanges(j, p)' => Exchanges(j, p)
  BY <1>4, <1>5 DEF Exchanges
<1>9. WorldOK'
  <2>1. \A e \in Device : StatusOK(e)'
    <3>1. StatusOK(d)'
      BY <1>3 DEF StatusOK, Undisturbed
    <3> QED
      BY <1>2, <1>3, <3>1, StatusStays DEF WorldOK, TypeOK
  <2> QED
    BY <1>2, <1>3, <1>6, <1>7, <1>8, <2>1, WorldStays DEF NobodyGains, NoneIssued
<1>10. RequestOK(k)'
  BY <1>3, <1>5 DEF RequestOK
<1>11. \A e \in Device : headset[e].slot # k
  BY <1>2, NobodyWaits
<1>12. \A e \in Device : Untouched(e)'
  BY <1>2, <1>7, <1>8, PollingStays DEF HeadsetsOK, WorldOK, NoneIssued
<1>13. \A e \in Device : Kept(e)'
  <2>1. Kept(d)'
    BY <1>3 DEF Kept
  <2>2. ASSUME NEW e \in Device \ {d} PROVE Kept(e)'
    <3>1. HeadsetOK(e) /\ Kept(e) /\ headset[e] \in Headset
      BY DEF HeadsetsOK, TypeOK
    <3>2. headset[e].slot # None => req'[headset[e].slot] = req[headset[e].slot]
      BY <1>4, <1>11, <3>1, HeadsetFields
    <3> QED
      BY <1>2, <1>3, <1>6, <3>1, <3>2, KeptStays
  <2> QED
    BY <2>1, <2>2
<1>14. \A j \in Slot \ {k} : req[j].pc = "conclude" => req[j].session \in Session
  BY RequestFields DEF TypeOK
<1>15. \A j \in Slot \ {k} : req[j].pc = "conclude" =>
        /\ Held(req[j].session)' => Held(req[j].session)
        /\ req'[k].pc = "conclude" => req'[k].session # req[j].session
  BY <1>4, <1>5, <1>6, <1>14
<1> QED
  BY <1>1, <1>2, <1>4, <1>5, <1>7, <1>9, <1>10, <1>11, <1>12, <1>13, <1>15, HandlerMoves

LEMMA RegisterKeeps ==
    ASSUME IInv, NEW k \in Slot, Register(k)
    PROVE  IInv'
<1> USE DEF IInv
<1>1. PICK p \in Pairing : p = req[k].pairing
  BY RequestFields DEF Register, Serving, TypeOK
<1>2. RequestOK(k) /\ PairingOK(p) /\ req[k].pc = "register"
  BY DEF RequestsOK, WorldOK, Register, Serving
<1>3. PICK d \in Device : d = pairing[p].device
  BY <1>1, <1>2 DEF RequestOK, PairingOK
<1>4. TypeOK'
  BY HandlerTyped DEF HandlerStep
<1>5. UNCHANGED <<pairing, session, overdue, headset, past, faults>>
  BY DEF Register
<1>6. \A e \in Device : headset[e].slot # k
  BY <1>2, NobodyWaits
<1>7. CASE device[d] = "revoked"
  <2>1. UNCHANGED device /\ Done(k)
    BY <1>1, <1>3, <1>7 DEF Register
  <2>2. req'[k].pc = "idle" /\ \A j \in Slot \ {k} : req'[j] = req[j]
    BY <2>1, DoneTyped DEF NoRequest, TypeOK
  <2>3. RequestOK(k)'
    BY <2>2 DEF RequestOK
  <2>4. \A s \in Session : InUse(s)' => InUse(s)
    BY <1>5, <2>2 DEF InUse
  <2> QED
    BY <1>4, <1>5, <1>6, <2>1, <2>2, <2>3, <2>4, HandlerTalks
<1>8. CASE device[d] # "revoked"
  <2>1. device' = [device EXCEPT ![d] = "authorized"]
        /\ Continue(k, [pc |-> "issue", pairing |-> p])
    BY <1>1, <1>3, <1>8 DEF Register
  <2>2. [pc |-> "issue", pairing |-> p] \in Request
    BY RequestShapes
  <2>3. /\ req'[k] = [pc |-> "issue", pairing |-> p]
        /\ \A j \in Slot \ {k} : req'[j] = req[j]
    BY <2>1, <2>2, ContinueTyped DEF TypeOK
  <2>4. req'[k].pc = "issue" /\ req'[k].pairing = p
    BY <2>3
  <2>5. device'[d] = "authorized" /\ \A e \in Device \ {d} : device'[e] = device[e]
    BY <2>1 DEF TypeOK
  <2>6. \A s \in Session : InUse(s)' => InUse(s)
    BY <1>5, <2>3, <2>4 DEF InUse
  <2>7. \A s \in Session : (Held(s)' => Held(s)) /\ (Live(s)' <=> Live(s))
    BY <1>5, <2>6 DEF Held, Live
  <2>8. PairingsGoOn /\ SessionsGoOn /\ DevicesGoOn /\ NoneIssued /\ NoRevocation /\ UnusedStay
    <3>1. \A e \in Device : device[e] # "unknown" => device'[e] # "unknown"
      BY <2>5
    <3> QED
      BY <1>5, <2>6, <3>1, SessionsRest DEF PairingsGoOn
  <2>9. \A j \in Slot, q \in Pairing : Exchanges(j, q)' => Exchanges(j, q)
    BY <2>3, <2>4 DEF Exchanges
  <2>10. WorldOK'
    <3>1. StatusOK(d)'
      BY <1>5, <2>5 DEF StatusOK
    <3>2. \A e \in Device : StatusOK(e)'
      BY <1>5, <2>5, <3>1, StatusStays DEF WorldOK
    <3> QED
      BY <1>5, <2>7, <2>8, <2>9, <3>2, WorldStays DEF NobodyGains, NoneIssued, NoRevocation
  <2>11. RequestOK(k)'
    BY <1>1, <1>2, <1>3, <1>5, <2>4, <2>5 DEF RequestOK
  <2>12. \A e \in Device : Untouched(e)'
    BY <1>5, <2>8, <2>9, PollingStays DEF HeadsetsOK, WorldOK, NoneIssued
  <2>13. \A e \in Device : Kept(e)'
    <3> SUFFICES ASSUME NEW e \in Device PROVE Kept(e)'
      OBVIOUS
    <3>1. HeadsetOK(e) /\ Kept(e) /\ headset[e] \in Headset
      BY DEF HeadsetsOK, TypeOK
    <3>2. headset[e].slot # None => req'[headset[e].slot] = req[headset[e].slot]
      BY <1>6, <2>3, <3>1, HeadsetFields
    <3> QED
      BY <1>5, <2>7, <3>1, <3>2, KeptStays
  <2>14. \A j \in Slot \ {k} : req[j].pc = "conclude" =>
          /\ Held(req[j].session)' => Held(req[j].session)
          /\ req'[k].pc = "conclude" => req'[k].session # req[j].session
    <3>1. \A j \in Slot : req[j].pc = "conclude" => req[j].session \in Session
      BY RequestFields DEF TypeOK
    <3> QED
      BY <2>3, <2>4, <2>7, <3>1
  <2> QED
    BY <1>4, <1>5, <1>6, <2>3, <2>4, <2>8, <2>10, <2>11, <2>12, <2>13, <2>14, HandlerMoves
<1> QED
  BY <1>7, <1>8

LEMMA IssueBootstrapKeeps ==
    ASSUME IInv, NEW k \in Slot, IssueBootstrap(k)
    PROVE  IInv'
<1> USE DEF IInv
<1>1. PICK p \in Pairing : p = req[k].pairing
  BY RequestFields DEF IssueBootstrap, Serving, TypeOK
<1>2. RequestOK(k) /\ PairingOK(p) /\ req[k].pc = "issue"
  BY DEF RequestsOK, WorldOK, IssueBootstrap, Serving
<1>3. PICK d \in Device : d = pairing[p].device
  BY <1>1, <1>2 DEF RequestOK, PairingOK
<1>4. PICK s \in Session : /\ Issue(s, d, p)
                           /\ Continue(k, [pc |-> "conclude", pairing |-> p, session |-> s])
  BY <1>1, <1>3 DEF IssueBootstrap
<1>5. TypeOK'
  BY HandlerTyped DEF HandlerStep
<1>6. UNCHANGED <<pairing, device, overdue, headset, past, faults>>
  BY DEF IssueBootstrap
<1>7. /\ session[s] = None
      /\ session'[s] # None
      /\ session'[s].device = d
      /\ session'[s].from = p
      /\ session'[s].status = "fresh"
      /\ \A t \in Session \ {s} : session'[t] = session[t]
  BY <1>4, IssueTyped
<1>8. /\ req'[k] = [pc |-> "conclude", pairing |-> p, session |-> s]
      /\ \A j \in Slot \ {k} : req'[j] = req[j]
  <2>1. [pc |-> "conclude", pairing |-> p, session |-> s] \in Request
    BY RequestShapes
  <2> QED
    BY <1>4, <2>1, ContinueTyped DEF TypeOK
<1>9. req'[k].pc = "conclude" /\ req'[k].pairing = p /\ req'[k].session = s
  BY <1>8
<1>10. \A e \in Device : headset[e].slot # k
  BY <1>2, NobodyWaits
<1>11. \A t \in Session : InUse(t)' => InUse(t)
  BY <1>6, <1>8, <1>9 DEF InUse
<1>12. \A t \in Session : Held(t)' => Held(t)
  BY <1>6, <1>11 DEF Held
<1>13. \A t \in Session : session[t] # None => (Live(t)' <=> Live(t)) /\ session'[t] = session[t]
  BY <1>7 DEF Live
<1>14. PairingsGoOn /\ SessionsGoOn /\ DevicesGoOn /\ UnusedStay
  BY <1>6, <1>11, <1>13 DEF PairingsGoOn, SessionsGoOn, DevicesGoOn, UnusedStay
<1>15. \A j \in Slot, q \in Pairing : Exchanges(j, q)' => Exchanges(j, q)
  BY <1>8, <1>9 DEF Exchanges
<1>16. ~Held(s)
  BY <1>7 DEF WorldOK, SessionOK
<1>17. WorldOK'
  <2>1. SessionOK(s)'
    BY <1>1, <1>2, <1>3, <1>6, <1>7, <1>12, <1>16 DEF SessionOK, RequestOK
  <2>2. \A t \in Session : session[t] = None => session'[t] = None \/ SessionOK(t)'
    BY <1>7, <2>1
  <2>3. \A e \in Device : StatusOK(e)'
    BY <1>6, StatusStays DEF WorldOK
  <2> QED
    BY <1>6, <1>12, <1>14, <1>15, <2>2, <2>3, WorldStays DEF NobodyGains
<1>18. RequestOK(k)'
  <2>1. \A j \in Slot \ {k} : req[j].pc = "conclude" => session[req[j].session] # None
    BY DEF RequestsOK, RequestOK
  <2>2. \A j \in Slot \ {k} : req'[j].pc = "conclude" => req'[j].session # s
    BY <1>7, <1>8, <2>1
  <2> QED
    BY <1>1, <1>2, <1>6, <1>7, <1>9, <1>12, <1>16, <2>2 DEF RequestOK
<1>19. \A e \in Device : Untouched(e)'
  <2>1. \A t \in Session : (session[t] = None /\ session'[t] # None) => ~InUse(t)' /\ Live(t)'
    <3>1. ~InUse(s)' /\ Live(s)'
      BY <1>7, <1>11, <1>16 DEF Held, Live
    <3> QED
      BY <1>7, <3>1
  <2> QED
    BY <1>6, <1>14, <1>15, <2>1, PollingStays DEF HeadsetsOK, WorldOK
<1>20. \A e \in Device : Kept(e)'
  <2> SUFFICES ASSUME NEW e \in Device PROVE Kept(e)'
    OBVIOUS
  <2>1. HeadsetOK(e) /\ Kept(e) /\ headset[e] \in Headset
    BY DEF HeadsetsOK, TypeOK
  <2>2. headset[e].slot # None => req'[headset[e].slot] = req[headset[e].slot]
    BY <1>8, <1>10, <2>1, HeadsetFields
  <2>3. \A t \in Session : Live(t) => Live(t)'
    BY <1>13 DEF Live
  <2> QED
    BY <1>6, <2>1, <2>2, <2>3, KeptStays
<1>21. \A j \in Slot \ {k} : req[j].pc = "conclude" =>
        /\ Held(req[j].session)' => Held(req[j].session)
        /\ req'[k].pc = "conclude" => req'[k].session # req[j].session
  <2>1. \A j \in Slot : req[j].pc = "conclude" =>
          req[j].session \in Session /\ session[req[j].session] # None
    BY RequestFields DEF TypeOK, RequestsOK, RequestOK
  <2> QED
    BY <1>7, <1>8, <1>9, <1>12, <2>1
<1> QED
  BY <1>5, <1>6, <1>8, <1>9, <1>10, <1>14, <1>17, <1>18, <1>19, <1>20, <1>21, HandlerMoves

LEMMA ConcludeKeeps ==
    ASSUME IInv, NEW k \in Slot, Conclude(k)
    PROVE  IInv'
<1> USE DEF IInv
<1>1. PICK p \in Pairing, s \in Session : p = req[k].pairing /\ s = req[k].session
  BY RequestFields DEF Conclude, Serving, TypeOK
<1>2. RequestOK(k) /\ PairingOK(p) /\ SessionOK(s) /\ req[k].pc = "conclude"
  BY DEF RequestsOK, WorldOK, Conclude, Serving
<1>3. /\ session[s] # None /\ session[s].from = p /\ ~Held(s)
      /\ \A j \in Slot \ {k} : req[j].pc = "conclude" => req[j].session # s
  BY <1>1, <1>2 DEF RequestOK
<1>4. TypeOK'
  BY HandlerTyped DEF HandlerStep
<1>5. UNCHANGED <<device, session, overdue, headset, past, faults>>
  BY DEF Conclude
<1>6. \A e \in Device : headset[e].slot # k
  BY <1>2, NobodyWaits
<1>7. req'[k].pc = "idle" /\ \A j \in Slot \ {k} : req'[j] = req[j]
  BY DoneTyped DEF Conclude, NoRequest, TypeOK
<1>8. RequestOK(k)'
  BY <1>7 DEF RequestOK
<1>9. \A t \in Session : InUse(t)' => InUse(t)
  BY <1>5, <1>7 DEF InUse
<1>10. CASE ~StillClaimed(p)
  <2>1. UNCHANGED pairing
    BY <1>1, <1>10 DEF Conclude
  <2> QED
    BY <1>4, <1>5, <1>6, <1>7, <1>8, <1>9, <2>1, HandlerTalks
<1>11. CASE StillClaimed(p)
  <2>1. pairing' = [pairing EXCEPT ![p].state = "authorized", ![p].bootstrap = s]
        /\ pairing[p].state = "claimed"
    BY <1>1, <1>11 DEF Conclude, StillClaimed
  <2>2. /\ pairing'[p].state = "authorized"
        /\ pairing'[p].bootstrap = s
        /\ pairing'[p].device = pairing[p].device
        /\ \A q \in Pairing \ {p} : pairing'[q] = pairing[q]
    BY <2>1, ConcludeTyped
  <2>3. PairingsGoOn
    BY <2>1, <2>2 DEF PairingsGoOn, Unclaimed
  <2>4. SessionsGoOn /\ DevicesGoOn /\ NoneIssued /\ NoRevocation /\ UnusedStay
        /\ \A t \in Session : Live(t)' <=> Live(t)
    BY <1>5, <1>9, SessionsRest
  <2>5. \A t \in Session : Held(t)' => Held(t) \/ t = s
    BY <1>9, <2>2 DEF Held
  <2>6. \A j \in Slot, q \in Pairing : Exchanges(j, q)' => Exchanges(j, q)
    BY <1>7 DEF Exchanges
  <2>7. \A t \in Session : ~(Held(t) /\ session[t].from = p)
    BY <2>1 DEF WorldOK, SessionOK
  <2>8. \A j \in Slot : ~Exchanges(j, p)
    BY <2>1 DEF Exchanges, RequestsOK, RequestOK
  <2>9. \A t \in Session, q \in Pairing : Carries(t, q)' => Carries(t, q) \/ (t = s /\ q = p)
    BY <1>3, <1>5, <2>4, <2>5 DEF Carries
  <2>10. \A t \in Session : ~Carries(t, p)
    BY <2>7 DEF Carries
  <2>11. WorldOK'
    <3>1. \A q \in Pairing : PairingOK(q)'
      <4>1. PairingOK(p)'
        BY <1>1, <1>2, <1>3, <1>5, <2>1, <2>2 DEF PairingOK, RequestOK, Unclaimed
      <4> QED
        BY <2>2, <2>4, <4>1, PairingStays DEF WorldOK
    <3>2. \A q \in Pairing : OneCredential(q)'
      <4>1. OneCredential(p)'
        BY <2>6, <2>8, <2>9, <2>10 DEF OneCredential
      <4>2. ASSUME NEW q \in Pairing \ {p} PROVE OneCredential(q)'
        BY <2>6, <2>9 DEF OneCredential, WorldOK
      <4> QED
        BY <4>1, <4>2
    <3>3. \A t \in Session : SessionOK(t)'
      <4>1. SessionOK(s)'
        BY <1>2, <1>3, <1>5, <2>1, <2>2 DEF SessionOK, Unclaimed
      <4>2. ASSUME NEW t \in Session \ {s} PROVE SessionOK(t)'
        <5>1. Held(t)' => Held(t)
          BY <2>5
        <5>2. session'[t] = session[t] /\ SessionOK(t)
          BY <1>5 DEF WorldOK
        <5> QED
          BY <2>3, <2>4, <5>1, <5>2, SessionStays, SessionStaysAway
      <4> QED
        BY <4>1, <4>2
    <3>4. \A e \in Device : NoCredentialLeft(e)'
      <4> SUFFICES ASSUME NEW e \in Device PROVE NoCredentialLeft(e)'
        OBVIOUS
      <4>1. NoCredentialLeft(e) /\ past[e].ended \subseteq Pairing
        BY DEF WorldOK, TypeOK, Past
      <4>2. p \notin past[e].ended
        BY <2>1, <4>1 DEF NoCredentialLeft
      <4>3. \A q \in past[e].ended : pairing'[q] = pairing[q]
        BY <2>2, <4>1, <4>2
      <4> QED
        BY <1>5, <2>6, <2>9, <4>1, <4>2, <4>3 DEF NoCredentialLeft
    <3>5. \A e \in Device : StatusOK(e)'
      BY <1>5, StatusStays DEF WorldOK
    <3> QED
      BY <3>1, <3>2, <3>3, <3>4, <3>5 DEF WorldOK
  <2>12. \A e \in Device : Untouched(e)'
    BY <1>5, <2>4, <2>6, PollingStays DEF HeadsetsOK, WorldOK, NoneIssued
  <2>13. \A e \in Device : Kept(e)'
    <3> SUFFICES ASSUME NEW e \in Device PROVE Kept(e)'
      OBVIOUS
    <3>1. HeadsetOK(e) /\ Kept(e) /\ headset[e] \in Headset
      BY DEF HeadsetsOK, TypeOK
    <3>2. headset[e].slot # None => req'[headset[e].slot] = req[headset[e].slot]
      BY <1>6, <1>7, <3>1, HeadsetFields
    <3> QED
      BY <1>5, <2>4, <3>1, <3>2, KeptStays
  <2>14. \A j \in Slot \ {k} : req[j].pc = "conclude" =>
          /\ Held(req[j].session)' => Held(req[j].session)
          /\ req'[k].pc = "conclude" => req'[k].session # req[j].session
    <3>1. \A j \in Slot : req[j].pc = "conclude" => req[j].session \in Session
      BY RequestFields DEF TypeOK
    <3> QED
      BY <1>3, <1>7, <2>5, <3>1
  <2> QED
    BY <1>4, <1>5, <1>6, <1>7, <1>8, <2>3, <2>4, <2>11, <2>12, <2>13, <2>14, HandlerMoves
<1> QED
  BY <1>10, <1>11

LEMMA RevokeSessionsKeeps ==
    ASSUME IInv, NEW k \in Slot, RevokeSessions(k)
    PROVE  IInv'
<1> USE DEF IInv
<1>1. PICK d \in Device : d = req[k].device
  BY RequestFields DEF RevokeSessions, Serving, TypeOK
<1>2. past[d].fate = {"cut"} /\ req[k].pc = "revoke"
  BY <1>1 DEF RequestsOK, RequestOK, RevokeSessions, Serving
<1>3. TypeOK'
  BY HandlerTyped DEF HandlerStep
<1>4. UNCHANGED <<pairing, device, overdue, headset, faults>>
  BY DEF RevokeSessions
<1>5. \A e \in Device : headset[e].slot # k
  BY <1>2, NobodyWaits
<1>6. req'[k].pc = "idle" /\ \A j \in Slot \ {k} : req'[j] = req[j]
  BY DoneTyped DEF RevokeSessions, NoRequest, TypeOK
<1>7. RequestOK(k)'
  BY <1>6 DEF RequestOK
<1>8. /\ past'[d].fate = past[d].fate
      /\ past'[d].ended = past[d].ended \union PairingsOf(d)
      /\ past'[d].renewing = past[d].renewing \union (PairingsOf(d) \cap BeingRenewed)
      /\ \A e \in Device \ {d} : past'[e] = past[e]
  <2>1. past' = [past EXCEPT ![d].ended = @ \union PairingsOf(d),
                             ![d].renewing = @ \union (PairingsOf(d) \cap BeingRenewed)]
    BY <1>1 DEF RevokeSessions
  <2> QED
    BY <2>1 DEF TypeOK, Past
<1>9. \A s \in Session : session[s] # None =>
        /\ session'[s] # None
        /\ session'[s].device = session[s].device /\ session'[s].from = session[s].from
        /\ session[s].device = d => session'[s].status = "revoked"
        /\ session[s].device # d => session'[s] = session[s]
  <2> SUFFICES ASSUME NEW s \in Session, session[s] # None
               PROVE  /\ session'[s] # None
                      /\ session'[s].device = session[s].device
                      /\ session'[s].from = session[s].from
                      /\ session[s].device = d => session'[s].status = "revoked"
                      /\ session[s].device # d => session'[s] = session[s]
    OBVIOUS
  <2>1. session[s] \in SessionRecord /\ "revoked" \in SessionStatus
    BY DEF TypeOK, SessionStatus
  <2>2. session'[s] = IF session[s].device = d THEN [session[s] EXCEPT !.status = "revoked"]
                      ELSE session[s]
    BY <1>1 DEF RevokeSessions, RevokeAll
  <2> QED
    BY <2>1, <2>2, SessionStatusTyped, SessionsAssumption
<1>10. \A s \in Session : session[s] = None => session'[s] = None
  BY <1>1 DEF RevokeSessions, RevokeAll
<1>11. \A s \in Session : Live(s)' <=> Live(s) /\ session[s].device # d
  BY <1>9, <1>10 DEF Live
<1>12. \A s \in Session : InUse(s)' => InUse(s)
  BY <1>4, <1>6 DEF InUse
<1>13. \A s \in Session : Held(s)' => Held(s)
  BY <1>4, <1>12 DEF Held
<1>14. \A e \in Device : past'[e].fate = past[e].fate
  BY <1>8
<1>15. PairingsGoOn /\ DevicesGoOn
  BY <1>4, <1>14 DEF PairingsGoOn, DevicesGoOn
<1>16. SessionsGoOn
  BY <1>9, <1>11 DEF SessionsGoOn
<1>17. UnusedStay
  BY <1>2, <1>8, <1>11, <1>12 DEF UnusedStay
<1>18. \A j \in Slot, p \in Pairing : Exchanges(j, p)' => Exchanges(j, p)
  BY <1>6 DEF Exchanges
<1>19. WorldOK'
  <2>1. NobodyGains
    BY <1>13, <1>18 DEF NobodyGains
  <2>2. NoCredentialLeft(d)'
    <3>1. NoCredentialLeft(d) /\ past[d].ended \subseteq Pairing
          /\ \A s \in Session : SessionOK(s)
      BY DEF WorldOK, TypeOK, Past
    <3>2. ASSUME NEW p \in past[d].ended, p \notin past'[d].renewing
          PROVE  /\ \A s \in Session : ~Carries(s, p)'
                 /\ \A j \in Slot : ~Exchanges(j, p)'
      BY <1>8, <1>16, <1>18, <2>1, <3>1, <3>2, CarriesStays DEF NoCredentialLeft
    <3>3. ASSUME NEW p \in PairingsOf(d), p \notin past'[d].renewing
          PROVE  /\ \A s \in Session : ~Carries(s, p)'
                 /\ \A j \in Slot : ~Exchanges(j, p)'
      <4>1. p \in Pairing /\ pairing[p].device = d
        BY DEF PairingsOf
      <4>2. p \notin BeingRenewed
        BY <1>8, <3>3
      <4>3. \A j \in Slot : ~Exchanges(j, p)
        BY <4>2 DEF BeingRenewed, Exchanges, Serving
      <4>4. ASSUME NEW s \in Session, Carries(s, p)' PROVE FALSE
        <5>1. session[s] # None /\ session[s].from = p /\ Live(s)'
          BY <1>16, <2>1, <3>1, <4>1, <4>4, CarriesStays DEF Carries
        <5>2. session[s].device = d
          BY <3>1, <4>1, <5>1 DEF SessionOK
        <5> QED
          BY <1>11, <5>1, <5>2
      <4> QED
        BY <1>18, <4>1, <4>3, <4>4
    <3>4. \A p \in past'[d].ended : pairing'[p].device = d /\ pairing'[p].state = "authorized"
      BY <1>4, <1>8, <3>1 DEF NoCredentialLeft, PairingsOf
    <3> QED
      BY <1>8, <3>2, <3>3, <3>4 DEF NoCredentialLeft
  <2>3. \A e \in Device : StatusOK(e)'
    BY <1>4, <1>14, StatusStays DEF WorldOK
  <2> QED
    BY <1>4, <1>8, <1>10, <1>15, <1>16, <2>1, <2>2, <2>3, WorldStays
<1>20. \A e \in Device : Untouched(e)'
  BY <1>4, <1>10, <1>15, <1>16, <1>17, <1>18, PollingStays DEF HeadsetsOK, WorldOK
<1>21. \A e \in Device : Kept(e)'
  <2>1. Kept(d)'
    BY <1>2, <1>8 DEF Kept
  <2>2. ASSUME NEW e \in Device \ {d} PROVE Kept(e)'
    <3>1. HeadsetOK(e) /\ Kept(e) /\ headset[e] \in Headset
      BY DEF HeadsetsOK, TypeOK
    <3>2. headset[e].slot # None => req'[headset[e].slot] = req[headset[e].slot]
      BY <1>5, <1>6, <3>1, HeadsetFields
    <3>3. \A s \in Session : (Live(s) /\ session[s].device = e) => Live(s)'
      BY <1>11
    <3> QED
      BY <1>4, <1>14, <3>1, <3>2, <3>3, KeptStays
  <2> QED
    BY <2>1, <2>2
<1>22. \A j \in Slot \ {k} : req[j].pc = "conclude" =>
        /\ Held(req[j].session)' => Held(req[j].session)
        /\ req'[k].pc = "conclude" => req'[k].session # req[j].session
  <2>1. \A j \in Slot : req[j].pc = "conclude" => req[j].session \in Session
    BY RequestFields DEF TypeOK
  <2> QED
    BY <1>6, <1>13, <2>1
<1> QED
  BY <1>3, <1>4, <1>5, <1>6, <1>7, <1>15, <1>16, <1>19, <1>20, <1>21, <1>22, HandlerMoves

\* A handler answers: with a session only if it had it.
LEMMA AnswerKeeps ==
    ASSUME IInv, NEW k \in Slot, NEW status \in {"ok", "401", "403"},
           NEW s \in Session \union {None},
           Answer(k, status, s),
           UNCHANGED <<pairing, device, session, overdue, headset, past, faults>>,
           req[k].pc \in {"verify", "lookup", "refresh", "recheck"},
           s # None => req[k].pc = "recheck" /\ s = req[k].session,
           req[k].pc \in {"refresh", "recheck"} => (status = "ok" => s # None),
           \A d \in Device :
             (headset[d].slot = k /\ headset[d].pc = "renewing"
              /\ faults = 0 /\ past[d].fate = {"paired"}) =>
                status = "ok" /\ Live(s)
    PROVE  IInv'
<1> USE DEF IInv
<1>1. /\ req' \in [Slot -> Request]
      /\ Awaited(k) => req'[k] = [pc |-> "answered", status |-> status, session |-> s]
      /\ ~Awaited(k) => req'[k] = NoRequest
      /\ \A j \in Slot \ {k} : req'[j] = req[j]
  BY AnswerTyped DEF TypeOK
<1>2. Awaited(k) => /\ req'[k].pc = "answered"
                    /\ req'[k].status = status
                    /\ req'[k].session = s
  BY <1>1
<1>3. ~Awaited(k) => req'[k].pc = "idle"
  BY <1>1 DEF NoRequest
<1>4. TypeOK'
  BY <1>1 DEF TypeOK
<1>5. RequestOK(k)'
  BY <1>2, <1>3 DEF RequestOK, Awaited
<1>6. \A t \in Session : InUse(t)' => InUse(t)
  <2> SUFFICES ASSUME NEW t \in Session, InUse(t)' PROVE InUse(t)
    OBVIOUS
  <2>1. CASE \E e \in Device : headset'[e].stored = t \/ headset'[e].token = t
    BY <2>1 DEF InUse
  <2>2. CASE \E j \in Slot : req'[j].pc \in {"refresh", "recheck", "answered"} /\ req'[j].session = t
    <3>1. PICK j \in Slot : req'[j].pc \in {"refresh", "recheck", "answered"} /\ req'[j].session = t
      BY <2>2
    <3>2. CASE j = k
      BY <1>2, <1>3, <3>1, <3>2, NoneIsNothing DEF InUse
    <3>3. CASE j # k
      BY <1>1, <3>1, <3>3 DEF InUse
    <3> QED
      BY <3>2, <3>3
  <2> QED
    BY <2>1, <2>2 DEF InUse
<1>7. ASSUME NEW d \in Device, headset[d].slot = k
      PROVE  /\ headset[d].pc = "sent" => req'[k].pc \in {"verify", "lookup", "answered"}
             /\ headset[d].pc = "renewing" => Renewing(d, k)'
             /\ Kept(d)'
  <2>1. Awaited(k)
    BY <1>7 DEF Awaited
  <2>2. headset[d].pc = "renewing" => Renewing(d, k)'
    <3> SUFFICES ASSUME headset[d].pc = "renewing" PROVE Renewing(d, k)'
      OBVIOUS
    <3>1. Renewing(d, k)
      BY <1>7, WaitingFor
    <3>2. status = "ok" => s # None /\ session[s].device = d
      BY <3>1 DEF Renewing
    <3> QED
      BY <1>2, <2>1, <3>2 DEF Renewing
  <2>3. Kept(d)'
    <3> SUFFICES ASSUME faults = 0, past[d].fate = {"paired"} PROVE Kept(d)'
      BY DEF Kept
    <3>1. Kept(d) /\ headset[d].slot' = k
      BY <1>7 DEF HeadsetsOK
    <3> QED
      BY <1>2, <1>7, <2>1, <3>1 DEF Kept, Live
  <2> QED
    BY <1>2, <2>1, <2>2, <2>3
<1>8. req'[k].pc \in {"answered", "idle"}
  BY <1>2, <1>3
<1> QED
  BY <1>1, <1>4, <1>5, <1>6, <1>7, <1>8, HandlerTalks

LEMMA VerifyKeeps ==
    ASSUME IInv, NEW k \in Slot, Verify(k)
    PROVE  IInv'
<1> USE DEF IInv
<1>1. PICK s \in Session : s = req[k].session
  BY RequestFields DEF Verify, Serving, TypeOK
<1>2. UNCHANGED <<pairing, device, session, overdue, headset, past, faults>>
      /\ req[k].pc = "verify"
  BY DEF Verify, Serving
<1>3. \A d \in Device : headset[d].slot = k => headset[d].pc = "sent"
  BY <1>2, WaitingFor DEF Renewing
<1>4. CASE ~(Live(s) /\ session[s].status = "fresh")
  <2>1. Answer(k, "401", None)
    BY <1>1, <1>4 DEF Verify
  <2> QED
    BY <1>2, <1>3, <2>1, AnswerKeeps
<1>5. CASE Live(s) /\ session[s].status = "fresh"
  <2>1. Continue(k, [pc |-> "lookup", session |-> s])
    BY <1>1, <1>5 DEF Verify
  <2>2. /\ req' \in [Slot -> Request]
        /\ req'[k] = [pc |-> "lookup", session |-> s]
        /\ \A j \in Slot \ {k} : req'[j] = req[j]
    BY <2>1, RequestShapes, ContinueTyped DEF TypeOK
  <2>3. req'[k].pc = "lookup" /\ req'[k].session = s
    BY <2>2
  <2>4. TypeOK'
    BY <1>2, <2>2 DEF TypeOK
  <2>5. RequestOK(k)'
    BY <1>2, <1>5, <2>3 DEF RequestOK, Live
  <2>6. \A t \in Session : InUse(t)' => InUse(t)
    BY <1>2, <2>2, <2>3 DEF InUse
  <2>7. ASSUME NEW d \in Device, headset[d].slot = k
        PROVE  /\ headset[d].pc = "sent" => req'[k].pc \in {"verify", "lookup", "answered"}
               /\ headset[d].pc = "renewing" => Renewing(d, k)'
               /\ Kept(d)'
    <3>1. headset[d].pc = "sent" /\ Kept(d)
      BY <1>3, <2>7 DEF HeadsetsOK
    <3> QED
      BY <1>2, <2>3, <3>1 DEF Kept, Live
  <2> QED
    BY <1>2, <2>2, <2>3, <2>4, <2>5, <2>6, <2>7, HandlerTalks
<1> QED
  BY <1>4, <1>5

LEMMA LookupKeeps ==
    ASSUME IInv, NEW k \in Slot, Lookup(k)
    PROVE  IInv'
<1> USE DEF IInv
<1>1. UNCHANGED <<pairing, device, session, overdue, headset, past, faults>>
      /\ req[k].pc = "lookup"
  BY DEF Lookup, Serving
<1>2. \A d \in Device : headset[d].slot = k => headset[d].pc = "sent"
  BY <1>1, WaitingFor DEF Renewing
<1>3. PICK status \in {"ok", "401", "403"} : Answer(k, status, None)
  BY DEF Lookup, Refusal
<1> QED
  BY <1>1, <1>2, <1>3, AnswerKeeps

LEMMA RecheckKeeps ==
    ASSUME IInv, NEW k \in Slot, Recheck(k)
    PROVE  IInv'
<1> USE DEF IInv
<1>1. PICK s \in Session : s = req[k].session
  BY RequestFields DEF Recheck, Serving, TypeOK
<1>2. UNCHANGED <<pairing, device, session, overdue, headset, past, faults>>
      /\ req[k].pc = "recheck"
  BY DEF Recheck, Serving
<1>3. CASE Served(session[s].device)
  <2>1. Answer(k, "ok", s)
    BY <1>1, <1>3 DEF Recheck
  <2>2. ASSUME NEW d \in Device, headset[d].slot = k, headset[d].pc = "renewing",
               faults = 0, past[d].fate = {"paired"}
        PROVE  Live(s)
    BY <1>1, <1>2, <2>2 DEF HeadsetsOK, Kept
  <2> QED
    BY <1>1, <1>2, <2>1, <2>2, AnswerKeeps, NoneIsNothing
<1>4. CASE ~Served(session[s].device)
  <2>1. PICK status \in {"401", "403"} : Answer(k, status, None)
    BY <1>1, <1>4 DEF Recheck, Refusal
  <2>2. ASSUME NEW d \in Device, headset[d].slot = k, headset[d].pc = "renewing",
               past[d].fate = {"paired"}
        PROVE  FALSE
    <3>1. session[s].device = d
      BY <1>1, <1>2, <2>2, WaitingFor DEF Renewing
    <3>2. StatusOK(d)
      BY DEF WorldOK
    <3>3. device[d] = "authorized"
      BY <2>2, <3>2 DEF StatusOK, Undisturbed
    <3> QED
      BY <1>4, <3>1, <3>3 DEF Served
  <2>3. \A d \in Device :
          (headset[d].slot = k /\ headset[d].pc = "renewing"
           /\ faults = 0 /\ past[d].fate = {"paired"}) => status = "ok" /\ Live(None)
    BY <2>2
  <2>4. status \in {"ok", "401", "403"} /\ status # "ok"
    OBVIOUS
  <2> QED
    BY <1>2, <2>1, <2>3, <2>4, AnswerKeeps
<1> QED
  BY <1>3, <1>4

LEMMA ConsumeKeeps ==
    ASSUME IInv, NEW k \in Slot, Consume(k)
    PROVE  IInv'
<1> USE DEF IInv
<1>1. PICK s \in Session : s = req[k].session
  BY RequestFields DEF Consume, Serving, TypeOK
<1>2. UNCHANGED <<pairing, device, overdue, headset, past, faults>> /\ req[k].pc = "refresh"
  BY DEF Consume, Serving
<1>3. session[s] # None /\ InUse(s) /\ Held(s)
  BY <1>1, <1>2 DEF RequestsOK, RequestOK, InUse, Held
<1>4. TypeOK'
  BY HandlerTyped DEF HandlerStep
<1>5. CASE ~(Live(s) /\ session[s].status # "expired")
  <2>1. UNCHANGED session /\ Answer(k, "401", None)
    BY <1>1, <1>5 DEF Consume
  <2>2. ASSUME NEW d \in Device, headset[d].slot = k, headset[d].pc = "renewing",
               faults = 0, past[d].fate = {"paired"}
        PROVE  FALSE
    <3>1. Live(s) /\ session[s].device = d
      <4>1. s = headset[d].stored
        <5>1. Renewing(d, k)
          BY <2>2, WaitingFor
        <5> QED
          BY <1>1, <1>2, <5>1 DEF Renewing
      <4>2. Kept(d) /\ HeadsetOK(d)
        BY DEF HeadsetsOK
      <4>3. Live(s)
        BY <1>2, <2>2, <4>1, <4>2 DEF Kept
      <4> QED
        BY <2>2, <4>1, <4>2, <4>3 DEF HeadsetOK
    <3>2. session[s].status = "expired" => past[d].fate = {"cut"}
      BY <1>3, <3>1 DEF WorldOK, SessionOK
    <3> QED
      BY <1>5, <2>2, <3>1, <3>2
  <2> QED
    BY <1>2, <2>1, <2>2, AnswerKeeps
<1>6. CASE Live(s) /\ session[s].status # "expired"
  <2>1. PICK p \in Pairing, d \in Device : p = session[s].from /\ d = session[s].device
    BY <1>3, SessionFields DEF TypeOK
  <2>2. /\ session' = Consumed(s)
        /\ Continue(k, [pc |-> "reissue", device |-> d, from |-> p])
    BY <1>1, <1>6, <2>1 DEF Consume
  <2>3. /\ session'[s] # None
        /\ session'[s].device = d
        /\ session'[s].from = p
        /\ session'[s].status = "revoked"
        /\ \A t \in Session \ {s} : session'[t] = session[t]
    BY <1>3, <2>1, <2>2, ConsumedTyped
  <2>4. /\ req'[k] = [pc |-> "reissue", device |-> d, from |-> p]
        /\ \A j \in Slot \ {k} : req'[j] = req[j]
    BY <2>2, RequestShapes, ContinueTyped DEF TypeOK
  <2>5. req'[k].pc = "reissue" /\ req'[k].device = d /\ req'[k].from = p
    BY <2>4
  <2>6. \A t \in Session : InUse(t)' => InUse(t)
    BY <1>2, <2>4, <2>5 DEF InUse
  <2>7. \A t \in Session : Held(t)' => Held(t)
    BY <1>2, <2>6 DEF Held
  <2>8. ~Live(s)' /\ \A t \in Session \ {s} : Live(t)' <=> Live(t)
    BY <2>3 DEF Live
  <2>9. PairingsGoOn /\ DevicesGoOn
    BY <1>2 DEF PairingsGoOn, DevicesGoOn
  <2>10. SessionsGoOn /\ NoneIssued /\ UnusedStay
    BY <1>3, <2>1, <2>3, <2>6, <2>8 DEF SessionsGoOn, NoneIssued, UnusedStay
  <2>11. \A j \in Slot, q \in Pairing : Exchanges(j, q)' => Exchanges(j, q) \/ (j = k /\ q = p)
    BY <2>4, <2>5 DEF Exchanges
  <2>12. \A t \in Session, q \in Pairing : Carries(t, q)' => Carries(t, q) /\ t # s
    BY <1>3, <2>3, <2>7, <2>8 DEF Carries
  <2>13. Carries(s, p)
    BY <1>3, <1>6, <2>1 DEF Carries
  <2>14. pairing[p].state = "authorized" /\ pairing[p].device = d
    BY <1>3, <2>1 DEF WorldOK, SessionOK
  <2>15. WorldOK'
    <3>1. \A q \in Pairing : PairingOK(q)'
      BY <1>2, <2>9, <2>10, PairingStays DEF WorldOK
    <3>2. \A q \in Pairing : OneCredential(q)'
      <4>1. OneCredential(p)'
        BY <2>11, <2>12, <2>13 DEF OneCredential, WorldOK
      <4>2. ASSUME NEW q \in Pairing \ {p} PROVE OneCredential(q)'
        BY <2>11, <2>12 DEF OneCredential, WorldOK
      <4> QED
        BY <4>1, <4>2
    <3>3. \A t \in Session : SessionOK(t)'
      <4> SUFFICES ASSUME NEW t \in Session PROVE SessionOK(t)'
        OBVIOUS
      <4>1. SessionOK(t)
        BY DEF WorldOK
      <4> QED
        BY <2>7, <2>9, <2>10, <4>1, SessionStays, SessionStaysAway DEF NoneIssued
    <3>4. \A e \in Device : NoCredentialLeft(e)'
      <4> SUFFICES ASSUME NEW e \in Device PROVE NoCredentialLeft(e)'
        OBVIOUS
      <4>1. NoCredentialLeft(e) /\ past[e].ended \subseteq Pairing
        BY DEF WorldOK, TypeOK, Past
      <4>2. p \in past[e].ended => p \in past[e].renewing
        BY <2>13, <4>1 DEF NoCredentialLeft
      <4> QED
        BY <1>2, <2>11, <2>12, <4>1, <4>2 DEF NoCredentialLeft
    <3>5. \A e \in Device : StatusOK(e)'
      BY <1>2, StatusStays DEF WorldOK
    <3> QED
      BY <3>1, <3>2, <3>3, <3>4, <3>5 DEF WorldOK
  <2>16. RequestOK(k)'
    BY <1>2, <2>5, <2>14 DEF RequestOK
  <2>17. ASSUME NEW e \in Device PROVE Untouched(e)'
    <3>1. HeadsetOK(e) /\ Untouched(e) /\ \A t \in Session : SessionOK(t)
      BY DEF HeadsetsOK, WorldOK
    <3>2. CASE headset[e].polling = p
      <4>1. FALSE
        BY <1>3, <2>1, <3>1, <3>2, NoneIsNothing DEF Untouched
      <4> QED
        BY <4>1
    <3>3. CASE headset[e].polling # p
      <4> SUFFICES ASSUME headset[e].polling # None PROVE Untouched(e)'
        BY <1>2 DEF Untouched
      <4>1. PICK q \in Pairing : q = headset[e].polling
        BY HeadsetFields DEF TypeOK
      <4>2. \A j \in Slot : ~Exchanges(j, q)'
        BY <2>11, <3>1, <3>3, <4>1 DEF Untouched
      <4>3. ASSUME NEW t \in Session, session'[t] # None, session'[t].from = q
            PROVE  ~InUse(t)' /\ (Live(t)' \/ past'[e].fate = {"cut"})
        <5>1. t # s /\ session'[t] = session[t]
          BY <2>3, <3>3, <4>1, <4>3
        <5>2. ~InUse(t) /\ (Live(t) \/ past[e].fate = {"cut"})
          BY <3>1, <4>1, <4>3, <5>1 DEF Untouched
        <5> QED
          BY <1>2, <2>6, <2>8, <5>1, <5>2
      <4> QED
        BY <1>2, <4>1, <4>2, <4>3 DEF Untouched
    <3> QED
      BY <3>2, <3>3
  <2>18. ASSUME NEW e \in Device, headset[e].slot = k PROVE headset[e].pc = "renewing" /\ Renewing(e, k)'
    <3>1. headset[e].pc = "renewing" /\ Renewing(e, k) /\ HeadsetOK(e)
      BY <1>2, <2>18, WaitingFor DEF HeadsetsOK
    <3>2. headset[e].stored = s /\ d = e
      BY <1>1, <1>2, <1>3, <2>1, <3>1, NoneIsNothing DEF Renewing, HeadsetOK
    <3> QED
      BY <2>5, <3>1, <3>2 DEF Renewing
  <2>19. ASSUME NEW e \in Device PROVE Kept(e)'
    <3>1. HeadsetOK(e) /\ Kept(e) /\ headset[e] \in Headset
      BY DEF HeadsetsOK, TypeOK
    <3> SUFFICES ASSUME faults = 0, past[e].fate = {"paired"} PROVE Kept(e)'
      BY <1>2 DEF Kept
    <3>2. CASE headset[e].slot = k
      <4>1. headset'[e].slot = k /\ headset'[e].pc = "renewing" /\ headset'[e].stored # None
        BY <1>2, <2>18, <3>1, <3>2 DEF HeadsetOK
      <4> QED
        BY <2>5, <4>1 DEF Kept
    <3>3. CASE headset[e].slot # k
      <4>1. session[s].device # e
        <5>1. PICK c \in Device : headset[c].slot = k
          BY <1>2 DEF RequestsOK, NoStraggler, Awaited
        <5>2. d = c
          <6>1. Renewing(c, k) /\ HeadsetOK(c)
            BY <1>2, <5>1, WaitingFor DEF HeadsetsOK
          <6> QED
            BY <1>1, <1>2, <2>1, <6>1, NoneIsNothing DEF Renewing, HeadsetOK
        <5> QED
          BY <2>1, <3>3, <5>1, <5>2
      <4>2. headset[e].slot # None => req'[headset[e].slot] = req[headset[e].slot]
        BY <2>4, <3>1, <3>3, HeadsetFields
      <4>3. \A t \in Session : (Live(t) /\ session[t].device = e) => Live(t)'
        BY <2>8, <4>1
      <4> QED
        BY <1>2, <3>1, <4>2, <4>3, KeptStays
    <3> QED
      BY <3>2, <3>3
  <2>20. \A j \in Slot \ {k} : req[j].pc = "conclude" =>
          /\ Held(req[j].session)' => Held(req[j].session)
          /\ req'[k].pc = "conclude" => req'[k].session # req[j].session
    <3>1. \A j \in Slot : req[j].pc = "conclude" => req[j].session \in Session
      BY RequestFields DEF TypeOK
    <3> QED
      BY <2>4, <2>5, <2>7, <3>1
  <2> QED
    BY <1>2, <1>4, <2>4, <2>5, <2>9, <2>10, <2>15, <2>16, <2>17, <2>18, <2>19, <2>20,
       HandlerMoves
<1> QED
  BY <1>5, <1>6

LEMMA ReissueKeeps ==
    ASSUME IInv, NEW k \in Slot, Reissue(k)
    PROVE  IInv'
<1> USE DEF IInv
<1>1. PICK p \in Pairing, d \in Device : p = req[k].from /\ d = req[k].device
  BY RequestFields DEF Reissue, Serving, TypeOK
<1>2. UNCHANGED <<pairing, device, overdue, headset, past, faults>> /\ req[k].pc = "reissue"
  BY DEF Reissue, Serving
<1>3. PICK s \in Session : Issue(s, d, p) /\ Continue(k, [pc |-> "recheck", session |-> s])
  BY <1>1 DEF Reissue
<1>4. TypeOK'
  BY HandlerTyped DEF HandlerStep
<1>5. /\ session[s] = None
      /\ session'[s] # None
      /\ session'[s].device = d
      /\ session'[s].from = p
      /\ session'[s].status = "fresh"
      /\ \A t \in Session \ {s} : session'[t] = session[t]
  BY <1>3, IssueTyped
<1>6. /\ req'[k] = [pc |-> "recheck", session |-> s]
      /\ \A j \in Slot \ {k} : req'[j] = req[j]
  BY <1>3, RequestShapes, ContinueTyped DEF TypeOK
<1>7. req'[k].pc = "recheck" /\ req'[k].session = s
  BY <1>6
<1>8. \A t \in Session \ {s} : (InUse(t)' => InUse(t)) /\ (Held(t)' => Held(t))
  <2>1. \A t \in Session \ {s} : InUse(t)' => InUse(t)
    BY <1>2, <1>6, <1>7 DEF InUse
  <2> QED
    BY <1>2, <2>1 DEF Held
<1>9. ~Held(s) /\ ~InUse(s) /\ Live(s)'
  BY <1>5 DEF WorldOK, SessionOK, Held, Live
<1>10. \A t \in Session : session[t] # None => t # s /\ (Live(t)' <=> Live(t))
  BY <1>5 DEF Live
<1>11. PairingsGoOn /\ SessionsGoOn /\ DevicesGoOn
  BY <1>2, <1>5, <1>10 DEF PairingsGoOn, SessionsGoOn, DevicesGoOn
<1>12. Exchanges(k, p) /\ \A j \in Slot, q \in Pairing : Exchanges(j, q)' => Exchanges(j, q) /\ j # k
  BY <1>1, <1>2, <1>6, <1>7 DEF Exchanges
<1>13. \A t \in Session, q \in Pairing : Carries(t, q)' => Carries(t, q) \/ (t = s /\ q = p)
  <2> SUFFICES ASSUME NEW t \in Session, NEW q \in Pairing, Carries(t, q)'
               PROVE  Carries(t, q) \/ (t = s /\ q = p)
    OBVIOUS
  <2>1. CASE t = s
    BY <1>5, <2>1 DEF Carries
  <2>2. CASE t # s
    BY <1>5, <1>8, <1>10, <2>2 DEF Carries
  <2> QED
    BY <2>1, <2>2
<1>14. pairing[p].state = "authorized" /\ pairing[p].device = d
  BY <1>1, <1>2 DEF RequestsOK, RequestOK
<1>15. WorldOK'
  <2>1. \A q \in Pairing : PairingOK(q)'
    BY <1>2, <1>11, PairingStays DEF WorldOK
  <2>2. \A q \in Pairing : OneCredential(q)'
    <3>1. OneCredential(p)'
      BY <1>12, <1>13 DEF OneCredential, WorldOK
    <3>2. ASSUME NEW q \in Pairing \ {p} PROVE OneCredential(q)'
      BY <1>12, <1>13 DEF OneCredential, WorldOK
    <3> QED
      BY <3>1, <3>2
  <2>3. \A t \in Session : SessionOK(t)'
    <3> SUFFICES ASSUME NEW t \in Session PROVE SessionOK(t)'
      OBVIOUS
    <3>1. SessionOK(t)
      BY DEF WorldOK
    <3>2. CASE t = s
      BY <1>2, <1>5, <1>14, <3>2 DEF SessionOK, Unclaimed
    <3>3. CASE t # s
      BY <1>5, <1>8, <1>11, <3>1, <3>3, SessionStays, SessionStaysAway
    <3> QED
      BY <3>2, <3>3
  <2>4. \A e \in Device : NoCredentialLeft(e)'
    <3> SUFFICES ASSUME NEW e \in Device PROVE NoCredentialLeft(e)'
      OBVIOUS
    <3>1. NoCredentialLeft(e) /\ past[e].ended \subseteq Pairing
      BY DEF WorldOK, TypeOK, Past
    <3>2. p \in past[e].ended => p \in past[e].renewing
      BY <1>12, <3>1 DEF NoCredentialLeft
    <3> QED
      BY <1>2, <1>12, <1>13, <3>1, <3>2 DEF NoCredentialLeft
  <2>5. \A e \in Device : StatusOK(e)'
    BY <1>2, StatusStays DEF WorldOK
  <2> QED
    BY <2>1, <2>2, <2>3, <2>4, <2>5 DEF WorldOK
<1>16. RequestOK(k)'
  BY <1>5, <1>7 DEF RequestOK
<1>17. ASSUME NEW e \in Device PROVE Untouched(e)'
  <2>1. Untouched(e)
    BY DEF HeadsetsOK
  <2> SUFFICES ASSUME headset[e].polling # None PROVE Untouched(e)'
    BY <1>2 DEF Untouched
  <2>2. PICK q \in Pairing : q = headset[e].polling
    BY HeadsetFields DEF TypeOK
  <2>3. q # p
    BY <1>12, <2>1, <2>2 DEF Untouched
  <2>4. \A j \in Slot : ~Exchanges(j, q)'
    BY <1>12, <2>1, <2>2 DEF Untouched
  <2>5. ASSUME NEW t \in Session, session'[t] # None, session'[t].from = q
        PROVE  ~InUse(t)' /\ (Live(t)' \/ past'[e].fate = {"cut"})
    <3>1. t # s /\ session'[t] = session[t]
      BY <1>5, <2>3, <2>5
    <3>2. ~InUse(t) /\ (Live(t) \/ past[e].fate = {"cut"})
      BY <2>1, <2>2, <2>5, <3>1 DEF Untouched
    <3> QED
      BY <1>2, <1>8, <1>10, <2>5, <3>1, <3>2
  <2> QED
    BY <1>2, <2>2, <2>4, <2>5 DEF Untouched
<1>18. ASSUME NEW e \in Device, headset[e].slot = k
       PROVE  headset[e].pc = "renewing" /\ Renewing(e, k)'
  <2>1. headset[e].pc = "renewing" /\ Renewing(e, k)
    BY <1>2, <1>18, WaitingFor
  <2>2. d = e
    BY <1>1, <1>2, <2>1 DEF Renewing
  <2> QED
    BY <1>5, <1>7, <2>1, <2>2 DEF Renewing
<1>19. ASSUME NEW e \in Device PROVE Kept(e)'
  <2>1. HeadsetOK(e) /\ Kept(e) /\ headset[e] \in Headset
    BY DEF HeadsetsOK, TypeOK
  <2>2. CASE headset[e].slot = k
    <3>1. headset'[e].slot = k /\ headset'[e].pc = "renewing"
          /\ headset'[e].stored = headset[e].stored
      BY <1>2, <1>18, <2>2
    <3> QED
      BY <1>2, <1>7, <1>9, <2>1, <3>1 DEF Kept
  <2>3. CASE headset[e].slot # k
    <3>1. headset[e].slot # None => req'[headset[e].slot] = req[headset[e].slot]
      BY <1>6, <2>1, <2>3, HeadsetFields
    <3>2. \A t \in Session : Live(t) => Live(t)'
      BY <1>10 DEF Live
    <3> QED
      BY <1>2, <2>1, <3>1, <3>2, KeptStays
  <2> QED
    BY <2>2, <2>3
<1>20. \A j \in Slot \ {k} : req[j].pc = "conclude" =>
        /\ Held(req[j].session)' => Held(req[j].session)
        /\ req'[k].pc = "conclude" => req'[k].session # req[j].session
  <2>1. \A j \in Slot : req[j].pc = "conclude" =>
          req[j].session \in Session /\ session[req[j].session] # None
    BY RequestFields DEF TypeOK, RequestsOK, RequestOK
  <2> QED
    BY <1>5, <1>6, <1>7, <1>8, <2>1
<1> QED
  BY <1>2, <1>4, <1>6, <1>7, <1>11, <1>15, <1>16, <1>17, <1>18, <1>19, <1>20, HandlerMoves

-----------------------------------------------------------------------------
(***************************************************************************)
(* The steps of a headset that pairs.                                      *)
(***************************************************************************)
LEMMA ClaimKeeps ==
    ASSUME IInv, NEW d \in Device, NEW p \in Pairing, Claim(d, p)
    PROVE  IInv'
<1> USE DEF IInv
<1>1. HeadsetOK(d) /\ Kept(d) /\ headset[d] \in Headset
  BY DEF HeadsetsOK, TypeOK
<1>2. /\ UNCHANGED <<device, session, overdue, req, past>>
      /\ headset[d].pc = "idle" /\ headset[d].polling = None /\ headset[d].slot = None
      /\ pairing[p].state = "open"
  BY <1>1 DEF Claim, HeadsetOK
<1>3. /\ pairing' \in [Pairing -> PairingRecord]
      /\ pairing'[p].state = "claimed"
      /\ pairing'[p].device = d
      /\ pairing'[p].bootstrap = pairing[p].bootstrap
      /\ \A q \in Pairing \ {p} : pairing'[q] = pairing[q]
  BY ClaimTyped DEF Claim
<1>4. PICK h : h = [headset[d] EXCEPT !.polling = p]
  OBVIOUS
<1>5. h \in Headset /\ h.pc = "idle" /\ h.slot = None /\ h.polling = p
      /\ h.stored = headset[d].stored /\ h.token = headset[d].token
  BY <1>1, <1>2, <1>4 DEF Headset
<1>6. /\ headset' \in [Device -> Headset]
      /\ headset'[d] \in {h, headset[d]}
      /\ \A e \in Device \ {d} : headset'[e] = headset[e]
  BY <1>4, <1>5 DEF Claim, TypeOK
<1>7. faults' \in Nat /\ (faults' = 0 => faults = 0)
  BY FaultTyped DEF Claim, TypeOK
<1>8. TypeOK'
  BY <1>2, <1>3, <1>6, <1>7 DEF TypeOK
<1>9. /\ headset'[d].pc = "idle" /\ headset'[d].slot = None
      /\ headset'[d].stored = headset[d].stored /\ headset'[d].token = headset[d].token
      /\ headset'[d].polling \in {p, None}
  BY <1>2, <1>5, <1>6
<1>10. \A s \in Session : InUse(s)' <=> InUse(s)
  BY <1>2, <1>6, <1>9 DEF InUse
<1>11. \A s \in Session : Held(s)' => Held(s)
  BY <1>3, <1>10 DEF Held
<1>12. /\ SessionsGoOn /\ DevicesGoOn /\ NoneIssued /\ NoRevocation /\ UnusedStay
       /\ \A s \in Session : Live(s)' <=> Live(s)
  BY <1>2, <1>10, SessionsRest
<1>13. PairingsGoOn
  BY <1>2, <1>3 DEF PairingsGoOn, Unclaimed
<1>14. \A k \in Slot, q \in Pairing : Exchanges(k, q)' => Exchanges(k, q)
  BY <1>2 DEF Exchanges
<1>15. WorldOK'
  <2>1. PairingOK(p)'
    BY <1>2, <1>3 DEF WorldOK, PairingOK, Unclaimed
  <2>2. \A e \in Device : StatusOK(e)'
    BY <1>2, StatusStays DEF WorldOK
  <2> QED
    BY <1>3, <1>11, <1>12, <1>13, <1>14, <2>1, <2>2, WorldStays
    DEF NobodyGains, NoneIssued, NoRevocation
<1>16. HeadsetOK(d)'
  BY <1>1, <1>2, <1>3, <1>9 DEF HeadsetOK, Unclaimed
<1>17. Kept(d)'
  <2> SUFFICES ASSUME faults = 0, past[d].fate = {"paired"} PROVE Kept(d)'
    BY <1>2, <1>7 DEF Kept
  <2>1. headset[d].stored \in Session /\ headset[d].stored # None /\ Live(headset[d].stored)
    BY <1>1, <1>2, HeadsetFields DEF Kept
  <2>2. PICK s \in Session : s = headset[d].stored
    BY <2>1
  <2>3. headset'[d].stored = s /\ s # None /\ Live(s)'
    BY <1>9, <1>12, <2>1, <2>2
  <2> QED
    BY <1>9, <2>3 DEF Kept
<1>18. \A e \in Device \ {d} : Untouched(e)'
  BY <1>6, <1>12, <1>14, PollingStays DEF HeadsetsOK, WorldOK, NoneIssued
<1>19. Untouched(d)'
  <2>1. \A k \in Slot : ~Exchanges(k, p)
    BY <1>2 DEF RequestsOK, RequestOK, Exchanges
  <2>2. \A s \in Session : ~(session[s] # None /\ session[s].from = p)
    BY <1>2 DEF WorldOK, SessionOK, Unclaimed
  <2> QED
    BY <1>2, <1>9, <1>14, <2>1, <2>2 DEF Untouched
<1> QED
  BY <1>2, <1>6, <1>7, <1>8, <1>9, <1>11, <1>12, <1>13, <1>15, <1>16, <1>17, <1>18, <1>19,
     HeadsetMoves, NoneIsNothing

LEMMA PollKeeps ==
    ASSUME IInv, NEW d \in Device, Poll(d)
    PROVE  IInv'
<1> USE DEF IInv
<1>1. HeadsetOK(d) /\ Kept(d) /\ Untouched(d) /\ headset[d] \in Headset
  BY DEF HeadsetsOK, TypeOK
<1>2. PICK p \in Pairing : p = headset[d].polling
  BY <1>1, HeadsetFields DEF Poll
<1>3. /\ p # None
      /\ headset[d].pc = "idle" /\ headset[d].slot = None
      /\ pairing[p].device = d
      /\ UNCHANGED <<device, session, overdue, req, faults>>
  BY <1>1, <1>2, NoneIsNothing DEF Poll, HeadsetOK
<1>4. PICK h : h = [headset[d] EXCEPT !.polling = None]
  OBVIOUS
<1>5. h \in Headset /\ h.pc = "idle" /\ h.slot = None /\ h.polling = None
      /\ h.stored = headset[d].stored /\ h.token = headset[d].token
  BY <1>1, <1>3, <1>4 DEF Headset
<1>6. \A k \in Slot, q \in Pairing : Exchanges(k, q)' => Exchanges(k, q)
  BY <1>3 DEF Exchanges
<1>7. CASE /\ Expired(p) /\ Expire(p)
           /\ headset' = [headset EXCEPT ![d].polling = None] /\ UNCHANGED past
  <2>1. /\ headset' \in [Device -> Headset] /\ headset'[d] = h
        /\ \A e \in Device \ {d} : headset'[e] = headset[e]
    BY <1>4, <1>5, <1>7 DEF TypeOK
  <2>2. /\ pairing' \in [Pairing -> PairingRecord]
        /\ PairingsGoOn
        /\ \A q \in Pairing : pairing'[q].bootstrap = pairing[q].bootstrap
        /\ \A q \in Pairing : pairing'[q] = pairing[q] \/ PairingOK(q)'
    BY <1>3, <1>7, PairingMoves DEF Expired, Expire, PairingState
  <2>3. TypeOK'
    BY <1>3, <1>7, <2>1, <2>2 DEF TypeOK
  <2>4. \A s \in Session : InUse(s)' <=> InUse(s)
    BY <1>3, <1>5, <2>1 DEF InUse
  <2>5. \A s \in Session : Held(s)' => Held(s)
    BY <2>2, <2>4 DEF Held
  <2>6. /\ SessionsGoOn /\ DevicesGoOn /\ NoneIssued /\ NoRevocation /\ UnusedStay
        /\ \A s \in Session : Live(s)' <=> Live(s)
    BY <1>3, <1>7, <2>4, SessionsRest
  <2>7. WorldOK'
    <3>1. \A e \in Device : StatusOK(e)'
      BY <1>3, <1>7, StatusStays DEF WorldOK
    <3> QED
      BY <1>6, <2>2, <2>5, <2>6, <3>1, WorldStays DEF NobodyGains, NoneIssued, NoRevocation
  <2>8. HeadsetOK(d)'
    BY <1>1, <1>3, <1>5, <2>1 DEF HeadsetOK
  <2>9. Kept(d)'
    <3> SUFFICES ASSUME faults = 0, past[d].fate = {"paired"} PROVE Kept(d)'
      BY <1>3, <1>7 DEF Kept
    <3>1. PICK s \in Session : s = headset[d].stored /\ s # None /\ Live(s)
      BY <1>1, <1>3, HeadsetFields DEF Kept
    <3>2. headset'[d].stored = s /\ Live(s)'
      BY <1>5, <2>1, <2>6, <3>1
    <3> QED
      BY <1>5, <2>1, <3>1, <3>2 DEF Kept
  <2>10. \A e \in Device : Untouched(e)'
    BY <1>5, <1>6, <2>1, <2>6, PollingStays DEF HeadsetsOK, WorldOK, NoneIssued
  <2> QED
    BY <1>3, <1>5, <1>7, <2>1, <2>2, <2>3, <2>5, <2>6, <2>7, <2>8, <2>9, <2>10,
       HeadsetMoves, NoneIsNothing
<1>8. CASE /\ headset' = [headset EXCEPT ![d].polling = None] /\ UNCHANGED <<pairing, past>>
  <2>1. /\ headset' \in [Device -> Headset] /\ headset'[d] = h
        /\ \A e \in Device \ {d} : headset'[e] = headset[e]
    BY <1>4, <1>5, <1>8 DEF TypeOK
  <2>2. TypeOK'
    BY <1>3, <1>8, <2>1 DEF TypeOK
  <2>3. \A s \in Session : InUse(s)' => InUse(s)
    BY <1>3, <1>5, <2>1 DEF InUse
  <2>4. HeadsetOK(d)'
    BY <1>1, <1>3, <1>5, <1>8, <2>1 DEF HeadsetOK
  <2>5. Kept(d)'
    BY <1>1, <1>3, <1>5, <1>8, <2>1 DEF Kept, Live
  <2> QED
    BY <1>3, <1>5, <1>8, <2>1, <2>2, <2>3, <2>4, <2>5, HeadsetTalks, NoneIsNothing
<1>9. CASE /\ pairing[p].state = "authorized"
           /\ headset' = [headset EXCEPT ![d] =
                [pc |-> "idle", tries |-> 0, polling |-> None,
                 stored |-> pairing[p].bootstrap, token |-> None, slot |-> None]]
           /\ Note(d, "paired") /\ UNCHANGED pairing
  <2>1. PICK b \in Session :
          b = pairing[p].bootstrap /\ session[b] # None /\ session[b].from = p
    BY <1>9 DEF WorldOK, PairingOK
  <2>2. session[b].device = d /\ device[d] # "unknown" /\ Held(b)
    <3>1. Held(b)
      BY <2>1 DEF Held
    <3> QED
      BY <1>3, <1>9, <2>1, <3>1 DEF WorldOK, SessionOK, PairingOK
  <2>3. PICK g \in Headset :
          g = [pc |-> "idle", tries |-> 0, polling |-> None,
               stored |-> b, token |-> None, slot |-> None]
    <3>1. [pc |-> "idle", tries |-> 0, polling |-> None,
           stored |-> b, token |-> None, slot |-> None] \in Headset
      BY DEF Headset
    <3> QED
      BY <3>1
  <2>4. /\ g.pc = "idle" /\ g.polling = None /\ g.stored = b
        /\ g.token = None /\ g.slot = None
    BY <2>3
  <2>5. /\ headset' \in [Device -> Headset] /\ headset'[d] = g
        /\ \A e \in Device \ {d} : headset'[e] = headset[e]
    BY <1>9, <2>1, <2>3 DEF TypeOK
  <2>6. /\ past' \in [Device -> Past]
        /\ past[d].fate = {"cut"} => past'[d].fate = {"cut"}
        /\ past[d].fate # {"cut"} => past'[d].fate = past[d].fate \union {"paired"}
        /\ \A e \in Device \ {d} : past'[e] = past[e]
        /\ NoRevocation
    BY <1>9, NoteTyped DEF TypeOK, NoRevocation
  <2>7. TypeOK'
    BY <1>3, <1>9, <2>5, <2>6 DEF TypeOK
  <2>8. \A s \in Session : InUse(s)' => InUse(s) \/ s = b
    BY <1>3, <2>4, <2>5, NoneIsNothing DEF InUse
  <2>9. \A s \in Session : Held(s)' => Held(s)
    BY <1>9, <2>2, <2>8 DEF Held
  <2>10. \A s \in Session : Live(s)' <=> Live(s)
    BY <1>3 DEF Live
  <2>11. PairingsGoOn /\ SessionsGoOn /\ DevicesGoOn
    BY <1>3, <1>9, <2>6, <2>10 DEF PairingsGoOn, SessionsGoOn, DevicesGoOn
  <2>12. WorldOK'
    <3>1. StatusOK(d)'
      BY <1>3, <2>2, <2>6 DEF WorldOK, StatusOK, Undisturbed
    <3>2. \A e \in Device : StatusOK(e)'
      BY <1>3, <2>6, <3>1, StatusStays DEF WorldOK
    <3> QED
      BY <1>3, <1>6, <1>9, <2>6, <2>9, <2>11, <3>2, WorldStays DEF NobodyGains, NoRevocation
  <2>13. HeadsetOK(d)'
    BY <1>3, <2>2, <2>4, <2>5 DEF HeadsetOK
  <2>14. Kept(d)'
    <3>1. Live(b) \/ past[d].fate = {"cut"}
      BY <1>1, <1>2, <1>3, <2>1 DEF Untouched
    <3>2. past'[d].fate = {"paired"} => past[d].fate # {"cut"}
      BY <2>6
    <3> QED
      BY <2>4, <2>5, <2>10, <3>1, <3>2, NoneIsNothing DEF Kept
  <2>15. ASSUME NEW e \in Device PROVE Untouched(e)'
    <3> SUFFICES ASSUME headset'[e].polling # None PROVE Untouched(e)'
      BY DEF Untouched
    <3>1. e # d /\ headset'[e] = headset[e] /\ past'[e] = past[e]
      BY <2>4, <2>5, <2>6
    <3>2. PICK q \in Pairing : q = headset[e].polling
      BY <3>1, HeadsetFields DEF TypeOK
    <3>3. Untouched(e) /\ q # p
      BY <1>3, <3>1, <3>2 DEF HeadsetsOK, HeadsetOK
    <3>4. \A k \in Slot : ~Exchanges(k, q)'
      BY <1>6, <3>1, <3>2, <3>3 DEF Untouched
    <3>5. ASSUME NEW s \in Session, session[s] # None, session[s].from = q
          PROVE  ~InUse(s)' /\ (Live(s)' \/ past'[e].fate = {"cut"})
      <4>1. ~InUse(s) /\ (Live(s) \/ past[e].fate = {"cut"}) /\ s # b
        BY <2>1, <3>1, <3>2, <3>3, <3>5 DEF Untouched
      <4> QED
        BY <2>8, <2>10, <3>1, <4>1
    <3> QED
      BY <1>3, <3>1, <3>2, <3>4, <3>5 DEF Untouched
  <2> QED
    BY <1>3, <2>4, <2>5, <2>6, <2>7, <2>9, <2>10, <2>11, <2>12, <2>13, <2>14, <2>15,
       HeadsetMoves, NoneIsNothing
<1> QED
  BY <1>2, <1>7, <1>8, <1>9 DEF Poll

-----------------------------------------------------------------------------
(***************************************************************************)
(* The theorems.                                                           *)
(***************************************************************************)
LEMMA InitInvariant == Init => IInv
<1> SUFFICES ASSUME Init PROVE IInv
  OBVIOUS
<1>1. /\ \A p \in Pairing : /\ pairing[p] \in PairingRecord
                            /\ pairing[p].state = "unused" /\ pairing[p].bootstrap = None
      /\ \A s \in Session : session[s] = None
      /\ \A k \in Slot : req[k] \in Request /\ req[k].pc = "idle"
      /\ \A d \in Device :
           /\ device[d] = "unknown"
           /\ headset[d] \in Headset
           /\ headset[d].pc = "idle" /\ headset[d].polling = None /\ headset[d].slot = None
           /\ headset[d].stored = None /\ headset[d].token = None
           /\ past[d] \in Past /\ past[d].fate = {} /\ past[d].ended = {}
  BY RequestShapes DEF Init, PairingRecord, PairingState, NoRequest, Headset, Past
<1>2. TypeOK
  <2>1. pairing \in [Pairing -> PairingRecord] /\ headset \in [Device -> Headset]
        /\ past \in [Device -> Past] /\ req \in [Slot -> Request]
    BY <1>1 DEF Init
  <2>2. faults \in Nat /\ overdue \subseteq Pairing
        /\ session \in [Session -> SessionRecord \union {None}]
        /\ device \in [Device -> DeviceStatus]
    BY DEF Init, DeviceStatus
  <2> QED
    BY <2>1, <2>2 DEF TypeOK
<1>3. \A s \in Session : ~Held(s)
  BY <1>1, NoneIsNothing DEF Held, InUse
<1>4. WorldOK
  BY <1>1, <1>3 DEF WorldOK, PairingOK, OneCredential, Carries, Exchanges, SessionOK,
     NoCredentialLeft, StatusOK, Unclaimed
<1>5. RequestsOK
  BY <1>1 DEF RequestsOK, RequestOK, NoStraggler
<1>6. HeadsetsOK
  BY <1>1 DEF HeadsetsOK, HeadsetOK, Untouched, Kept
<1> QED
  BY <1>2, <1>4, <1>5, <1>6 DEF IInv

LEMMA StutterKeeps ==
    ASSUME IInv, UNCHANGED vars
    PROVE  IInv'
<1> USE DEF IInv, vars
<1>1. TypeOK'
  BY DEF TypeOK
<1>2. \A s \in Session : /\ Live(s)' <=> Live(s)
                         /\ InUse(s)' <=> InUse(s)
                         /\ Held(s)' <=> Held(s)
  BY DEF Live, InUse, Held
<1>3. PairingsGoOn /\ SessionsGoOn /\ DevicesGoOn /\ NoneIssued /\ NoRevocation /\ UnusedStay
  BY <1>2, StoresStay
<1>4. WorldOK'
  <2>1. \A e \in Device : StatusOK(e)'
    BY StatusStays DEF WorldOK
  <2> QED
    BY <1>2, <1>3, <2>1, WorldStays DEF NobodyGains, NoneIssued, NoRevocation, Exchanges
<1>5. \A d \in Device : Kept(d)'
  BY <1>2, KeptStays DEF HeadsetsOK
<1> QED
  BY <1>1, <1>2, <1>3, <1>4, <1>5, StoresMove

LEMMA NextInvariant ==
    ASSUME IInv, [Next]_vars
    PROVE  IInv'
<1>1. CASE AdminStep
  BY <1>1, CreateOrRejectKeeps, ApproveKeeps, SetStatusKeeps, RevokeKeeps DEF AdminStep
<1>2. ASSUME NEW d \in Device, HeadsetStep(d) PROVE IInv'
  BY <1>2, ClaimKeeps, PollKeeps, PollFailsKeeps, BeginCallKeeps, SendKeeps,
     ReceiveAnswerKeeps, ReceiveRefreshKeeps, GiveUpKeeps, LogoutKeeps DEF HeadsetStep
<1>3. ASSUME NEW k \in Slot, HandlerStep(k) PROVE IInv'
  BY <1>3, RegisterKeeps, IssueBootstrapKeeps, ConcludeKeeps, RevokeSessionsKeeps,
     VerifyKeeps, LookupKeeps, ConsumeKeeps, ReissueKeeps, RecheckKeeps DEF HandlerStep
<1>4. CASE Clock
  BY <1>4, PairingRunsOutKeeps, SessionAgesKeeps DEF Clock
<1> QED
  BY <1>1, <1>2, <1>3, <1>4, CrashKeeps, StutterKeeps DEF Next

\* In every state of every behaviour the pairings, the sessions, the handlers
\* under way and the headsets fit together as IInv says.
THEOREM AccessInvariant == Spec => []IInv
BY InitInvariant, NextInvariant, PTL DEF Spec

\* The stores, the handlers and the headsets hold what their types say.
THEOREM AccessTypes == Spec => []TypeOK
<1>1. IInv => TypeOK
  BY DEF IInv
<1> QED
  BY <1>1, AccessInvariant, PTL

\* However approvals, refreshes, timeouts and crashes interleave, an approved
\* pairing never has two live sessions in anybody's hands.
THEOREM OneCredentialHeld == Spec => []OneCredentialPerPairing
<1>1. IInv => OneCredentialPerPairing
  <2> SUFFICES ASSUME IInv, NEW s \in Session, NEW t \in Session,
                      Live(s), Handed(s), Live(t), Handed(t),
                      session[s].from = session[t].from
               PROVE  s = t
    BY DEF OneCredentialPerPairing
  <2>1. Held(s) /\ Held(t)
    BY DEF Handed, Held, InUse, Serving
  <2>2. PICK p \in Pairing : p = session[s].from
    BY SessionFields DEF Live, IInv, TypeOK
  <2>3. Carries(s, p) /\ Carries(t, p)
    BY <2>1, <2>2 DEF Carries, Live
  <2> QED
    BY <2>3 DEF IInv, WorldOK, OneCredential
<1> QED
  BY <1>1, AccessInvariant, PTL

\* No session in anybody's hands that descends from a pairing authorized before
\* a revocation of its device is live, but of a refresh the revocation came
\* between; enabling the device again does not revive one.
THEOREM RevokedGone == Spec => []RevokedIsGone
<1>1. IInv => RevokedIsGone
  <2> SUFFICES ASSUME IInv, NEW s \in Session, Live(s), Handed(s),
                      session[s].from \in past[session[s].device].ended,
                      session[s].from \notin past[session[s].device].renewing
               PROVE  FALSE
    BY DEF RevokedIsGone
  <2>1. Held(s)
    BY DEF Handed, Held, InUse, Serving
  <2>2. PICK p \in Pairing, d \in Device : p = session[s].from /\ d = session[s].device
    BY SessionFields DEF Live, IInv, TypeOK
  <2>3. Carries(s, p)
    BY <2>1, <2>2 DEF Carries, Live
  <2> QED
    BY <2>2, <2>3 DEF IInv, WorldOK, NoCredentialLeft
<1> QED
  BY <1>1, AccessInvariant, PTL

\* Without failures, a headset that was paired and neither disabled nor cut off
\* has a live refresh token between two calls: no order of refreshes, second
\* pairings and refused ones locks it out.
THEOREM CredentialHeld == Spec => []HeadsetKeepsItsCredential
<1>1. IInv => HeadsetKeepsItsCredential
  BY DEF IInv, HeadsetsOK, Kept, HeadsetKeepsItsCredential, Credential
<1> QED
  BY <1>1, AccessInvariant, PTL

\* A pairing that was authorized, rejected or has expired stays as it is, with
\* the session it hands out, whatever two approvals or an approval and a
\* rejection do in between.
THEOREM DecisionsFinal == Spec => DecisionsAreFinal
<1> DEFINE Final == \A p \in Pairing :
                      pairing[p].state \in {"authorized", "rejected", "expired"} =>
                        pairing'[p] = pairing[p]
<1>1. IInv /\ [Next]_vars => Final
  <2> SUFFICES ASSUME IInv, [Next]_vars PROVE Final
    OBVIOUS
  <2>0. /\ pairing \in [Pairing -> PairingRecord]
        /\ \A k \in Slot : Serving(k, "conclude") =>
             req[k].pairing \in Pairing /\ req[k].session \in Session
    BY RequestFields DEF IInv, TypeOK, Serving
  <2>1. CASE AdminStep
    BY <2>0, <2>1
    DEF AdminStep, CreatePairing, Reject, Approve, SetStatus, Revoke, Expire
  <2>2. ASSUME NEW d \in Device, HeadsetStep(d) PROVE Final
    <3>1. CASE \E p \in Pairing : Claim(d, p)
      BY <2>0, <3>1 DEF Claim
    <3>2. CASE Poll(d)
      BY <2>0, <3>2 DEF Poll, Expired, Expire
    <3>3. CASE ~Poll(d) /\ ~\E p \in Pairing : Claim(d, p)
      BY <2>2, <3>3 DEF HeadsetStep, PollFails, BeginCall, SendRequest, SendRefresh, Send,
         ReceiveAnswer, ReceiveRefresh, GiveUp, Logout
    <3> QED
      BY <3>1, <3>2, <3>3
  <2>3. ASSUME NEW k \in Slot, HandlerStep(k) PROVE Final
    <3>1. CASE Conclude(k)
      BY <2>0, <3>1 DEF Conclude, StillClaimed
    <3>2. CASE ~Conclude(k)
      BY <2>3, <3>2 DEF HandlerStep, Register, IssueBootstrap, RevokeSessions, Verify,
         Lookup, Consume, Reissue, Recheck
    <3> QED
      BY <3>1, <3>2
  <2> QED
    BY <2>1, <2>2, <2>3 DEF Next, Clock, PairingRunsOut, SessionAges, Crash, vars
<1>2. Final => [\A p \in Pairing :
                  pairing[p].state \in {"authorized", "rejected", "expired"} =>
                    pairing'[p] = pairing[p]]_vars
  OBVIOUS
<1> QED
  BY <1>1, <1>2, AccessInvariant, PTL DEF Spec, DecisionsAreFinal
=============================================================================
