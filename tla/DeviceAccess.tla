---------------------------- MODULE DeviceAccess ----------------------------
(***************************************************************************)
(* How a headset gets, uses, renews and loses its access to a bridge.      *)
(*                                                                         *)
(*   stores    bridge/src/services/{pairing,session}-service.ts and        *)
(*             device-registry.ts, each one JSON file with atomic,         *)
(*             serialised mutations                                        *)
(*   handlers  the routes of bridge/src/server.ts, which go through        *)
(*             several stores with an await between them: each Slot is     *)
(*             one such handler under way                                  *)
(*   headset   clients/.../BridgeRegistrationQrAction.kt and               *)
(*             AuthenticatedBridgeClient.kt                                *)
(*                                                                         *)
(* A session stands for its pair of tokens.  Scopes, names and last-seen   *)
(* times do not decide who gets in at all and are left out.                *)
(***************************************************************************)
EXTENDS Naturals, FiniteSets

CONSTANTS
    Device,     \* device ids, one headset each
    Pairing,    \* pairing ids (one QR code each)
    Session,    \* session ids newId() can return
    Slot,       \* the handlers that can be under way at the same time
    None,       \* undefined
    FaultKinds, \* the kinds of failure a behaviour may contain
    MaxFaults   \* bound on the number of failures

ASSUME NoneAssumption == None \notin Device \union Pairing \union Session \union Slot

ASSUME MaxFaultsAssumption == MaxFaults \in Nat

VARIABLES
    pairing,  \* pairings.json
    device,   \* devices.json: the status of a device
    session,  \* sessions.json
    overdue,  \* the pairings whose time is over
    req,      \* the handlers under way
    headset,  \* the state of each headset's app
    past,     \* history: what has befallen a device's access
    faults    \* history: the number of failures so far

vars == <<pairing, device, session, overdue, req, headset, past, faults>>

-----------------------------------------------------------------------------
PairingState == {"unused", "open", "claimed", "authorized", "rejected", "expired"}
PairingRecord ==
    [state: PairingState, device: Device \union {None}, bootstrap: Session \union {None}]
DeviceStatus == {"unknown", "authorized", "disabled", "revoked"}
\* "stale": the access token's time is over; "expired": so is the refresh
\* token's, which is the longer one.  "from" is history: the pairing the session
\* descends from.
SessionStatus == {"fresh", "stale", "expired", "revoked"}
SessionRecord == [device: Device, from: Pairing, status: SessionStatus]

ASSUME SessionsAssumption == None \notin SessionRecord

Request ==
         [pc: {"idle"}]
  \union [pc: {"register", "issue"}, pairing: Pairing]
  \union [pc: {"conclude"}, pairing: Pairing, session: Session]
  \union [pc: {"revoke"}, device: Device]
  \union [pc: {"refresh", "verify", "recheck"}, session: Session]
  \union [pc: {"lookup"}, session: Session]
  \union [pc: {"reissue"}, device: Device, from: Pairing]
  \union [pc: {"answered"}, status: {"ok", "401", "403"}, session: Session \union {None}]

\* "calling": json() or bytes() is under way, having made "tries" requests.
Headset ==
    [pc: {"idle", "calling", "sent", "renew", "renewing"}, tries: 0..1,
     polling: Pairing \union {None}, stored: Session \union {None},
     token: Session \union {None}, slot: Slot \union {None}]

\* What has befallen a device's access, other than failures: it was paired, it
\* was disabled, or it was cut off for good by a revocation, a logout or the end
\* of a refresh token; the pairings whose sessions were revoked, and
\* those of them whose session was just being renewed.
Past == [fate: (SUBSET {"paired", "disabled"}) \union {{"cut"}},
         ended: SUBSET Pairing, renewing: SUBSET Pairing]

TypeOK ==
    /\ pairing \in [Pairing -> PairingRecord]
    /\ device \in [Device -> DeviceStatus]
    /\ session \in [Session -> SessionRecord \union {None}]
    /\ overdue \subseteq Pairing
    /\ req \in [Slot -> Request]
    /\ headset \in [Device -> Headset]
    /\ past \in [Device -> Past]
    /\ faults \in Nat

-----------------------------------------------------------------------------
NoRequest == [pc |-> "idle"]
Serving(k, pc) == req[k].pc = pc
Done(k) == req' = [req EXCEPT ![k] = NoRequest]
Continue(k, next) == req' = [req EXCEPT ![k] = next]

Awaited(k) == \E d \in Device : headset[d].slot = k

\* The handler returns to whoever still waits for it.
Answer(k, status, s) ==
    req' = [req EXCEPT ![k] =
              IF Awaited(k)
                THEN [pc |-> "answered", status |-> status, session |-> s]
                ELSE NoRequest]

Fault(kind) ==
    /\ kind \in FaultKinds
    /\ faults < MaxFaults
    /\ faults' = faults + 1

CutOff(d) == past' = [past EXCEPT ![d].fate = {"cut"}]
Note(d, event) ==
    past' = [past EXCEPT ![d].fate = IF @ = {"cut"} THEN @ ELSE @ \union {event}]

\* verifyAccess and refresh look for a session that is not revoked.
Live(s) == session[s] # None /\ session[s].status # "revoked"

Init ==
    /\ pairing = [p \in Pairing |->
                    [state |-> "unused", device |-> None, bootstrap |-> None]]
    /\ device = [d \in Device |-> "unknown"]
    /\ session = [s \in Session |-> None]
    /\ overdue = {}
    /\ req = [k \in Slot |-> NoRequest]
    /\ headset = [d \in Device |->
                    [pc |-> "idle", tries |-> 0, polling |-> None, stored |-> None,
                     token |-> None, slot |-> None]]
    /\ past = [d \in Device |-> [fate |-> {}, ended |-> {}, renewing |-> {}]]
    /\ faults = 0

-----------------------------------------------------------------------------
(***************************************************************************)
(* Pairing: create, claim, poll, authorize, reject.                        *)
(***************************************************************************)
\* A pairing QR code is shown.
CreatePairing(p) ==
    /\ pairing[p].state = "unused"
    /\ pairing' = [pairing EXCEPT ![p].state = "open"]
    /\ UNCHANGED <<device, session, overdue, req, headset, past, faults>>

\* The headset scans it and claims it; the answer with the claim id can be
\* lost.  (An overdue pairing is refused, and stays open: the exception
\* throws the change to "expired" away.)
Claim(d, p) ==
    /\ headset[d].pc = "idle"
    /\ headset[d].polling = None
    /\ pairing[p].state = "open"
    /\ p \notin overdue
    /\ pairing' = [pairing EXCEPT ![p].state = "claimed", ![p].device = d]
    /\ \/ /\ headset' = [headset EXCEPT ![d].polling = p]
          /\ UNCHANGED faults
       \/ /\ Fault("answer")
          /\ UNCHANGED headset
    /\ UNCHANGED <<device, session, overdue, req, past>>

\* getClaim expires a claim that is overdue.
Expired(p) == pairing[p].state = "claimed" /\ p \in overdue
Expire(p) == pairing' = [pairing EXCEPT ![p].state = "expired"]

\* One poll of the registration, unless the answer is "pending".  The session
\* goes to the store of a new profile, whose client has no access token yet.
Poll(d) ==
    LET p == headset[d].polling
    IN  /\ p # None
        /\ \/ /\ Expired(p)
              /\ Expire(p)
              /\ headset' = [headset EXCEPT ![d].polling = None]
              /\ UNCHANGED past
           \/ /\ pairing[p].state \in {"rejected", "expired"}
              /\ headset' = [headset EXCEPT ![d].polling = None]
              /\ UNCHANGED <<pairing, past>>
           \/ /\ pairing[p].state = "authorized"
              /\ headset' = [headset EXCEPT ![d] =
                    [pc |-> "idle", tries |-> 0, polling |-> None,
                     stored |-> pairing[p].bootstrap, token |-> None, slot |-> None]]
              /\ Note(d, "paired")
              /\ UNCHANGED pairing
        /\ UNCHANGED <<device, session, overdue, req, faults>>

\* A poll fails, and with it the registration.
PollFails(d) ==
    /\ headset[d].polling # None
    /\ Fault("answer")
    /\ headset' = [headset EXCEPT ![d].polling = None]
    /\ UNCHANGED <<pairing, device, session, overdue, req, past>>

\* The administrator approves: pendingDescriptor(), ...
Approve(k, p) ==
    /\ req[k] = NoRequest
    /\ pairing[p].state = "claimed"
    /\ IF Expired(p)
         THEN Expire(p) /\ UNCHANGED req
         ELSE Continue(k, [pc |-> "register", pairing |-> p]) /\ UNCHANGED pairing
    /\ UNCHANGED <<device, session, overdue, headset, past, faults>>

\* ... devices.authorize(), which refuses a revoked device, ...
Register(k) ==
    LET p == req[k].pairing
        d == pairing[p].device
    IN  /\ Serving(k, "register")
        /\ IF device[d] = "revoked"
             THEN Done(k) /\ UNCHANGED device
             ELSE /\ device' = [device EXCEPT ![d] = "authorized"]
                  /\ Continue(k, [pc |-> "issue", pairing |-> p])
        /\ UNCHANGED <<pairing, session, overdue, headset, past, faults>>

\* sessions.issue
Issue(s, d, p) ==
    /\ session[s] = None
    /\ session' = [session EXCEPT ![s] = [device |-> d, from |-> p, status |-> "fresh"]]

\* ... sessions.issue(), ...
IssueBootstrap(k) ==
    LET p == req[k].pairing
    IN  /\ Serving(k, "issue")
        /\ \E s \in Session :
             /\ Issue(s, pairing[p].device, p)
             /\ Continue(k, [pc |-> "conclude", pairing |-> p, session |-> s])
        /\ UNCHANGED <<pairing, device, overdue, headset, past, faults>>

\* Mutant: the state of the claim is not looked at again.
StillAnyState(p) == pairing[p].state # "unused"

\* The claim is still waiting for its authorization.
StillClaimed(p) == pairing[p].state = "claimed"

\* ... and pairings.authorize(), which stores the session for the next poll.
Conclude(k) ==
    LET p == req[k].pairing
    IN  /\ Serving(k, "conclude")
        /\ IF StillClaimed(p)
             THEN pairing' = [pairing EXCEPT ![p].state = "authorized",
                                             ![p].bootstrap = req[k].session]
             ELSE UNCHANGED pairing
        /\ Done(k)
        /\ UNCHANGED <<device, session, overdue, headset, past, faults>>

Reject(p) ==
    /\ pairing[p].state = "claimed"
    /\ pairing' = [pairing EXCEPT ![p].state = "rejected"]
    /\ UNCHANGED <<device, session, overdue, req, headset, past, faults>>

-----------------------------------------------------------------------------
(***************************************************************************)
(* Administration of a device.                                             *)
(***************************************************************************)
\* enable and disable: setStatus, whatever the status was.
SetStatus(d, status) ==
    /\ device[d] \notin {"unknown", status}
    /\ device' = [device EXCEPT ![d] = status]
    /\ IF status = "disabled" THEN Note(d, "disabled") ELSE UNCHANGED past
    /\ UNCHANGED <<pairing, session, overdue, req, headset, faults>>

\* revoke: setStatus ...
Revoke(k, d) ==
    /\ req[k] = NoRequest
    /\ device[d] # "unknown"
    /\ device' = [device EXCEPT ![d] = "revoked"]
    /\ Continue(k, [pc |-> "revoke", device |-> d])
    /\ CutOff(d)
    /\ UNCHANGED <<pairing, session, overdue, headset, faults>>

\* The pairings of d that have been authorized, and those of them whose
\* session a refresh has consumed and not yet issued again.
PairingsOf(d) == {p \in Pairing : pairing[p].device = d /\ pairing[p].state = "authorized"}
BeingRenewed == {req[k].from : k \in {j \in Slot : Serving(j, "reissue")}}

\* Mutant: the sessions of the device are left alone.
RevokeNone(d) == session

\* revokeDevice
RevokeAll(d) ==
    [s \in Session |->
       IF session[s] # None /\ session[s].device = d
         THEN [session[s] EXCEPT !.status = "revoked"] ELSE session[s]]

\* ... and sessions.revokeDevice().
RevokeSessions(k) ==
    LET d == req[k].device
    IN  /\ Serving(k, "revoke")
        /\ session' = RevokeAll(d)
        /\ past' = [past EXCEPT ![d].ended = @ \union PairingsOf(d),
                                ![d].renewing = @ \union (PairingsOf(d) \cap BeingRenewed)]
        /\ Done(k)
        /\ UNCHANGED <<pairing, device, overdue, headset, faults>>

-----------------------------------------------------------------------------
(***************************************************************************)
(* Authenticated requests and the renewal of a session.                    *)
(***************************************************************************)
\* authenticatedDevice: verifyAccess, ...
Verify(k) ==
    LET s == req[k].session
    IN  /\ Serving(k, "verify")
        /\ IF Live(s) /\ session[s].status = "fresh"
             THEN Continue(k, [pc |-> "lookup", session |-> s])
             ELSE Answer(k, "401", None)
        /\ UNCHANGED <<pairing, device, session, overdue, headset, past, faults>>

\* The status codes of a device that is not authorized.
Refusal(d) == IF device[d] = "disabled" THEN "403" ELSE "401"

Served(d) == device[d] = "authorized"

\* ... and the device's status.
Lookup(k) ==
    LET d == session[req[k].session].device
    IN  /\ Serving(k, "lookup")
        /\ Answer(k, IF Served(d) THEN "ok" ELSE Refusal(d), None)
        /\ UNCHANGED <<pairing, device, session, overdue, headset, past, faults>>

\* Mutant: the refresh token can be used again.
ConsumedNothing(s) == session

\* old.revoked = true
Consumed(s) == [session EXCEPT ![s].status = "revoked"]

\* sessions.refresh: the old session is consumed in one mutation ...
Consume(k) ==
    LET s == req[k].session
    IN  /\ Serving(k, "refresh")
        /\ IF Live(s) /\ session[s].status # "expired"
             THEN /\ session' = Consumed(s)
                  /\ Continue(k, [pc |-> "reissue", device |-> session[s].device,
                                  from |-> session[s].from])
             ELSE /\ UNCHANGED session
                  /\ Answer(k, "401", None)
        /\ UNCHANGED <<pairing, device, overdue, headset, past, faults>>

\* ... and the new one issued in another.
Reissue(k) ==
    /\ Serving(k, "reissue")
    /\ \E s \in Session :
         /\ Issue(s, req[k].device, req[k].from)
         /\ Continue(k, [pc |-> "recheck", session |-> s])
    /\ UNCHANGED <<pairing, device, overdue, headset, past, faults>>

\* The handler looks at the device only now.
Recheck(k) ==
    LET d == session[req[k].session].device
    IN  /\ Serving(k, "recheck")
        /\ IF Served(d)
             THEN Answer(k, "ok", req[k].session)
             ELSE Answer(k, Refusal(d), None)
        /\ UNCHANGED <<pairing, device, session, overdue, headset, past, faults>>

HandlerStep(k) ==
    \/ Register(k)
    \/ IssueBootstrap(k)
    \/ Conclude(k)
    \/ RevokeSessions(k)
    \/ Verify(k)
    \/ Lookup(k)
    \/ Consume(k)
    \/ Reissue(k)
    \/ Recheck(k)

-----------------------------------------------------------------------------
(***************************************************************************)
(* The headset: json() and bytes().                                        *)
(***************************************************************************)
\* A call begins: with the access token, or with a refresh when there is none.
BeginCall(d) ==
    /\ headset[d].pc = "idle"
    /\ headset[d].polling = None
    /\ headset[d].stored # None
    /\ headset' = [headset EXCEPT
         ![d].pc = IF headset[d].token = None THEN "renew" ELSE "calling",
         ![d].tries = 0]
    /\ UNCHANGED <<pairing, device, session, overdue, req, past, faults>>

Send(d, k, pc, s, waiting) ==
    /\ req[k] = NoRequest
    /\ Continue(k, [pc |-> pc, session |-> s])
    /\ headset' = [headset EXCEPT ![d].pc = waiting, ![d].slot = k]
    /\ UNCHANGED <<pairing, device, session, overdue, past, faults>>

SendRequest(d, k) ==
    /\ headset[d].pc = "calling"
    /\ Send(d, k, "verify", headset[d].token, "sent")

SendRefresh(d, k) ==
    /\ headset[d].pc = "renew"
    /\ Send(d, k, "refresh", headset[d].stored, "renewing")

Idle(h) == [h EXCEPT !.pc = "idle", !.tries = 0, !.slot = None]

\* Mutant: every 401 is answered with another refresh.
AlwaysAgain(h) == TRUE

\* attempt < 1
MayTryAgain(h) == h.tries = 0

\* The answer to the request: 401 on the first try means refresh and repeat.
ReceiveAnswer(d) ==
    LET k == headset[d].slot
        again == req[k].status = "401" /\ MayTryAgain(headset[d])
    IN  /\ headset[d].pc = "sent"
        /\ Serving(k, "answered")
        /\ headset' = [headset EXCEPT ![d] =
             IF again THEN [@ EXCEPT !.pc = "renew", !.tries = headset[d].tries + 1,
                                     !.slot = None]
             ELSE Idle(@)]
        /\ Done(k)
        /\ UNCHANGED <<pairing, device, session, overdue, past, faults>>

\* Mutant: the new refresh token is not stored.
TokenOnly(h, s) == [h EXCEPT !.token = s]

\* sessions.save, accessToken = it
Renewed(h, s) == [h EXCEPT !.stored = s, !.token = s]

\* The answer to the refresh: the new tokens, or the stored session is cleared.
ReceiveRefresh(d) ==
    LET k == headset[d].slot
        s == req[k].session
    IN  /\ headset[d].pc = "renewing"
        /\ Serving(k, "answered")
        /\ headset' = [headset EXCEPT ![d] =
             IF req[k].status = "ok"
               THEN [Renewed(@, s) EXCEPT !.pc = "calling", !.slot = None]
               ELSE [Idle(@) EXCEPT !.stored = None, !.token = None]]
        /\ Done(k)
        /\ UNCHANGED <<pairing, device, session, overdue, past, faults>>

\* The headset stops waiting, or its app is restarted and forgets its access
\* token; the handler keeps running.
GiveUp(d) ==
    LET slot == headset[d].slot
    IN  /\ \/ /\ slot # None
              /\ Fault("timeout")
              /\ headset' = [headset EXCEPT ![d] = Idle(@)]
           \/ /\ Fault("restart")
              /\ headset' = [headset EXCEPT ![d] =
                    [Idle(@) EXCEPT !.polling = None, !.token = None]]
        /\ req' = [k \in Slot |->
                     IF k = slot /\ Serving(k, "answered") THEN NoRequest ELSE req[k]]
        /\ UNCHANGED <<pairing, device, session, overdue, past>>

\* The logout endpoint, with the headset's access token (the app itself never
\* calls it).
Logout(d) ==
    LET s == headset[d].token
    IN  /\ headset[d].pc = "idle"
        /\ s # None
        /\ session' = Consumed(s)
        /\ CutOff(d)
        /\ UNCHANGED <<pairing, device, overdue, req, headset, faults>>

-----------------------------------------------------------------------------
\* A session somebody has, or can fetch with the claim id of a pairing.
Handed(s) ==
    \/ \E p \in Pairing : pairing[p].bootstrap = s
    \/ \E d \in Device : s \in {headset[d].stored, headset[d].token}
    \/ \E k \in Slot : Serving(k, "answered") /\ req[k].session = s

\* The clock: a pairing, an access token or a refresh token runs out.  Nobody
\* looks at the age of a session before it is in somebody's hands: it runs out
\* from then on.
PairingRunsOut(p) ==
    /\ pairing[p].state \in {"open", "claimed"}
    /\ p \notin overdue
    /\ overdue' = overdue \union {p}
    /\ UNCHANGED <<pairing, device, session, req, headset, past, faults>>

SessionAges(s) ==
    /\ session[s] # None
    /\ Handed(s)
    /\ \/ /\ session[s].status = "fresh"
          /\ session' = [session EXCEPT ![s].status = "stale"]
          /\ UNCHANGED past
       \/ /\ session[s].status = "stale"
          /\ session' = [session EXCEPT ![s].status = "expired"]
          /\ CutOff(session[s].device)
    /\ UNCHANGED <<pairing, device, overdue, req, headset, faults>>

Clock ==
    \/ \E p \in Pairing : PairingRunsOut(p)
    \/ \E s \in Session : SessionAges(s)

\* The bridge stops and starts again: the handlers are gone.
Crash ==
    /\ Fault("crash")
    /\ req' = [k \in Slot |-> NoRequest]
    /\ headset' = [d \in Device |->
                     IF headset[d].slot # None THEN Idle(headset[d]) ELSE headset[d]]
    /\ UNCHANGED <<pairing, device, session, overdue, past>>

AdminStep ==
    \/ \E p \in Pairing : CreatePairing(p) \/ Reject(p)
    \/ \E k \in Slot, p \in Pairing : Approve(k, p)
    \/ \E d \in Device : SetStatus(d, "authorized") \/ SetStatus(d, "disabled")
    \/ \E k \in Slot, d \in Device : Revoke(k, d)

HeadsetStep(d) ==
    \/ \E p \in Pairing : Claim(d, p)
    \/ Poll(d)
    \/ PollFails(d)
    \/ BeginCall(d)
    \/ \E k \in Slot : SendRequest(d, k) \/ SendRefresh(d, k)
    \/ ReceiveAnswer(d)
    \/ ReceiveRefresh(d)
    \/ GiveUp(d)
    \/ Logout(d)

Next ==
    \/ AdminStep
    \/ \E d \in Device : HeadsetStep(d)
    \/ \E k \in Slot : HandlerStep(k)
    \/ Clock
    \/ Crash

Spec == Init /\ [][Next]_vars

-----------------------------------------------------------------------------
\* The administrator's word on a claim is final, and so is its expiry: two
\* approvals under way at once, or an approval that a rejection overtakes
\* between its steps, change neither the state nor the session handed out.
DecisionsAreFinal ==
    [][\A p \in Pairing :
         pairing[p].state \in {"authorized", "rejected", "expired"} =>
           pairing'[p] = pairing[p]]_vars

\* However approvals, refreshes, timeouts and crashes interleave, one approved
\* pairing never has two live sessions in anybody's hands: a copy of a refresh
\* token is worth nothing once one of its holders has used it.
OneCredentialPerPairing ==
    \A s, t \in Session :
        (/\ Live(s) /\ Handed(s)
         /\ Live(t) /\ Handed(t)
         /\ session[s].from = session[t].from) => s = t

\* device-management.md: a revoked credential does not become valid again when
\* the device is enabled.  No session in anybody's hands that descends from a
\* pairing authorized before a revocation is live, except of a refresh that had
\* consumed the old session when the sessions were revoked.
RevokedIsGone ==
    \A s \in Session : Live(s) /\ Handed(s) =>
        LET p == past[session[s].device]
        IN  session[s].from \notin p.ended \ p.renewing

Credential(d) == headset[d].stored # None /\ Live(headset[d].stored)

\* Between two calls a headset that was paired, and whose device was not
\* disabled or revoked since, still has a live refresh token: refreshes, second
\* pairings and refused ones do not lock it out.  (A lost answer to a refresh
\* does, so this is for behaviours without failures.)
HeadsetKeepsItsCredential ==
    \A d \in Device :
        (/\ faults = 0
         /\ past[d].fate = {"paired"}
         /\ headset[d].pc \in {"idle", "calling", "renew"}) => Credential(d)

\* pairing.md: "disabled" is reversible.  A headset whose device was disabled
\* and is enabled again still has its credential.
DisableIsReversible ==
    \A d \in Device :
        (/\ faults = 0
         /\ past[d].fate = {"paired", "disabled"}
         /\ headset[d].pc = "idle"
         /\ device[d] = "authorized") => Credential(d)
=============================================================================
