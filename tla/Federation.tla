----------------------------- MODULE Federation -----------------------------
(***************************************************************************)
(* bridge/src/services/federation-service.ts: a bridge in front of an      *)
(* upstream source.  It caches what it reads there, one cache per local    *)
(* user, and takes responsibility for operations it cannot deliver yet.    *)
(*                                                                         *)
(* A delegated-user route obtains a token for a user before each request   *)
(* to the upstream (FederationDelegation).  That happens inside the try of *)
(* jsonRequest: whatever goes wrong with the token is                      *)
(* UPSTREAM_UNAVAILABLE, the same as an upstream that does not answer.  A  *)
(* "service" route has one token of its own, one cache and no users.       *)
(*                                                                         *)
(* A slot is a request of a client or an administrator under way.  The     *)
(* upstream is another bridge: it keeps a ledger of operations that it     *)
(* never prunes (SpatialWrite), answers a repetition from it, and may      *)
(* itself be a relay.  Attempt counts only set the length of the backoff.  *)
(***************************************************************************)
EXTENDS FederationDelegation

CONSTANTS
    Op,           \* operation ids, each with one source
    Content,      \* logical contents of an operation
    WithArtifact, \* the contents that refer to the artifact
    \* What is explored in each situation:
    Submitted,    \* the <<operation, content>> that are submitted
    Earlier,      \* those an earlier run has taken and not delivered
    MaxVersion,   \* bound on the changes of what the upstream serves
    MaxRequests   \* bound on the requests, polls of pending operations apart

ASSUME WithArtifactAssumption == WithArtifact \subseteq Content

ASSUME FederationNoneAssumption == None \notin Op \union Content

ASSUME LimitsAssumption ==
    /\ Submitted \in [Setting -> SUBSET (Op \X Content)]
    /\ Earlier \in [Setting -> SUBSET (Op \X (Content \ WithArtifact))]
    /\ MaxVersion \in [Setting -> Nat]
    /\ MaxRequests \in [Setting -> Nat]

VARIABLES
    relay,     \* relays in federation.json
    known,     \* those whose cache lists the source
    cached,    \* reads in federation.json: the version each user has cached
    gate,      \* the slots in withGate, in the order they came
    req,       \* the requests under way
    upstream,  \* the upstream's ledger
    artifact,  \* the artifact is committed upstream
    version,   \* what the upstream serves now
    refused,   \* history: the operations whose delivery the upstream refused
               \* as a request, without a decision on the operation
    begun,     \* the number of requests so far, to bound it
    seen,      \* history: the newest version each user was shown, and whether
               \* two of their reads were ever under way at once
    cleaned    \* history: the operations whose relay was cleaned up

upstreamVars == <<upstream, artifact, version, refused>>
cacheVars == <<known, cached, seen>>
relayVars == <<relay, cleaned>>
vars == <<delegationVars, upstreamVars, cacheVars, relayVars, gate, req, begun>>

-----------------------------------------------------------------------------
Version == Nat

\* Whom the caches and relays are kept for: a local user, or nobody in
\* particular (principalKey "shared").
Principal == User \union {None}
Principals == IF method = "service" THEN {None} ELSE User

Terminal == {"source-committed", "conflict", "rejected"}
State == Terminal \union {"relay-durable"}
\* deferred: nextAttemptAt is in the future.  expired: a terminal entry's
\* retention is over.
Entry ==
         [user: Principal, content: Content, state: {"relay-durable"},
          deferred: BOOLEAN, expired: {FALSE}]
  \union [user: Principal, content: Content, state: Terminal,
          deferred: {FALSE}, expired: BOOLEAN]
LedgerEntry == [content: Content, result: State]

ASSUME EntriesAssumption == None \notin Entry /\ None \notin LedgerEntry

\* What a slot awaits: the answer to a GET ("list", "verify", "read") or a
\* POST ("post"), the gate ("gate"), its own store ("save", "persist", "fill"),
\* or just a token ("authorize").  entry is the copy in memory of the relay
\* being delivered, todo the copies that are left of a retryPending pass.
Request ==
         [pc: {"idle", "authorize"}]
  \union [pc: {"list", "gate", "verify", "save"}, kind: {"submit"}, user: Principal,
          op: Op, content: Content]
  \union [pc: {"gate"}, kind: {"poll"}, user: Principal, op: Op]
  \union [pc: {"gate"}, kind: {"pass"}]
  \union [pc: {"post", "persist"}, op: Op, entry: Entry, todo: SUBSET (Op \X Entry)]
  \union [pc: {"read"}, user: Principal]
  \union [pc: {"fill"}, user: Principal, version: Version]

TypeOK ==
    /\ DelegationTypeOK
    /\ relay \in [Op -> Entry \union {None}]
    /\ known \subseteq Principal
    /\ cached \in [Principal -> Version \union {None}]
    /\ gate \in Seq(Slot)
    /\ req \in [Slot -> Request]
    /\ upstream \in [Op -> LedgerEntry \union {None}]
    /\ artifact \in BOOLEAN
    /\ version \in 0..MaxVersion[setting]
    /\ refused \subseteq Op
    /\ seen \in [Principal -> [version: Version, overlapped: BOOLEAN]]
    /\ cleaned \subseteq Op
    /\ begun \in 0..MaxRequests[setting]

\* A relay that an earlier run has stored, of an operation of user u.
Left(u, c) ==
    [user |-> u, content |-> c, state |-> "relay-durable", deferred |-> FALSE, expired |-> FALSE]

Init ==
    /\ DelegationInit
    /\ \E u \in Principals :
         relay = [o \in Op |->
           IF \E x \in Earlier[setting] : x[1] = o
             THEN Left(u, (CHOOSE x \in Earlier[setting] : x[1] = o)[2]) ELSE None]
    /\ known = {}
    /\ cached = [u \in Principal |-> None]
    /\ gate = <<>>
    /\ req = [k \in Slot |-> [pc |-> "idle"]]
    /\ upstream = [o \in Op |-> None]
    /\ artifact = FALSE
    /\ version = 0
    /\ refused = {}
    /\ seen = [u \in Principal |-> [version |-> 0, overlapped |-> FALSE]]
    /\ cleaned = {}
    /\ begun = 0

-----------------------------------------------------------------------------
Serving(k, pc) == req[k].pc = pc
Idle(k) == Serving(k, "idle")
Continue(k, next) == req' = [req EXCEPT ![k] = next]
Wait(k, pc) == Continue(k, [req[k] EXCEPT !.pc = pc])
Done(k) == Continue(k, [pc |-> "idle"])

\* withGate: a FIFO of promises.
Enter(k) == gate' = Append(gate, k)
Leave == gate' = Tail(gate)

\* Mutant: nobody waits for the requests before.
Ungated(k) == gate # <<>>
Inside(k) == gate # <<>> /\ Head(gate) = k

\* The request inside the gate returns.
Return(k) == Leave /\ Done(k)

Pending(e) == e # None /\ e.state \notin Terminal

\* One jsonRequest after its token: answered, refused with a 4xx before anybody
\* looked at what it asks (429, 413, 401), or in vain.
Requested(k, outcome) ==
    /\ call' = [call EXCEPT ![k] = NoCall]
    /\ \/ At(k, "failed") /\ outcome = "down" /\ UNCHANGED faults
       \/ At(k, "got") /\ outcome = "ok" /\ UNCHANGED faults
       \/ At(k, "got") /\ outcome \in {"down", "refused"} /\ Fault(outcome)

\* What requests to the upstream, and steps without a token, leave alone.
tokenVars == <<storeVars, serverVars, past>>

-----------------------------------------------------------------------------
(***************************************************************************)
(* Reads: listSources and read.                                            *)
(***************************************************************************)
\* The requests of u for the view that are under way.
Reading(u) == {k \in Slot : req[k].pc \in {"read", "fill"} /\ req[k].user = u}

BeginRead(k, u) ==
    /\ Idle(k)
    /\ Continue(k, [pc |-> "read", user |-> u])
    /\ AskForToken(k, u)
    /\ seen' = [seen EXCEPT ![u].overlapped = @ \/ Reading(u) # {}]
    /\ UNCHANGED <<tokenVars, faults, upstreamVars, relayVars, known, cached, gate>>

Show(u, v) == seen' = [seen EXCEPT ![u].version = IF v > @ THEN v ELSE @]

\* The GET: a live answer, the cached one, or the error.
Read(k) ==
    LET u == req[k].user
    IN  /\ Serving(k, "read")
        /\ \E outcome \in {"ok", "down", "refused"} :
             /\ Requested(k, outcome)
             /\ IF outcome = "ok"
                  THEN Continue(k, [pc |-> "fill", user |-> u, version |-> version])
                  ELSE Done(k)
             /\ IF outcome = "down" /\ cached[u] # None
                  THEN Show(u, cached[u]) ELSE UNCHANGED seen
        /\ UNCHANGED <<tokenVars, upstreamVars, relayVars, known, cached, gate>>

\* Mutant: an answer does not replace what is cached.
CachedOnce(u, v) == IF cached[u] = None THEN v ELSE cached[u]

\* state.reads[key] = { value: body }
CachedAnswer(u, v) == v

\* The live answer is cached and then returned.
Fill(k) ==
    LET u == req[k].user
    IN  /\ Serving(k, "fill")
        /\ cached' = [cached EXCEPT ![u] = CachedAnswer(u, req[k].version)]
        /\ Show(u, req[k].version)
        /\ Done(k)
        /\ UNCHANGED <<delegationVars, upstreamVars, relayVars, known, gate>>

-----------------------------------------------------------------------------
(***************************************************************************)
(* Delivery: tryDeliver.                                                   *)
(***************************************************************************)
\* The upstream's ledger after it has seen the operation with that content.
Received(o, c) ==
    IF upstream[o] # None THEN {upstream}
    ELSE {[upstream EXCEPT ![o] = [content |-> c, result |-> s]] : s \in State}

\* What it answers: 409 for another content under the same id.
Answered(ledger, o, c) == IF ledger[o].content = c THEN ledger[o].result ELSE "rejected"

\* tryDeliver of entry e begins.
Deliver(k, o, e, todo) ==
    /\ Continue(k, [pc |-> "post", op |-> o, entry |-> [e EXCEPT !.deferred = FALSE],
                    todo |-> todo])
    /\ AskForToken(k, e.user)

\* Mutant: no answer counts as a refusal.
GiveUpOnSilence == "rejected"

\* Without an answer the operation stays with the relay.
AfterNoAnswer == "relay-durable"

\* Mutant: the next attempt is dated before the answer is looked at.
DeferredAnyway(k, state) ==
    LET e == [req[k].entry EXCEPT !.state = state, !.deferred = TRUE]
    IN  Continue(k, [req[k] EXCEPT !.pc = "persist", !.entry = e])

\* The entry in memory after the delivery.
Outcome(k, state) ==
    LET e == [req[k].entry EXCEPT !.state = state, !.deferred = state \notin Terminal]
    IN  Continue(k, [req[k] EXCEPT !.pc = "persist", !.entry = e])

\* The POST.  It may be lost before the upstream has it, or its answer after.
\* A refused request settles the operation as a decision on it would.
Post(k) ==
    LET o == req[k].op
        c == req[k].entry.content
    IN  /\ Serving(k, "post")
        /\ \/ \E ledger \in Received(o, c) :
                /\ Requested(k, "ok")
                /\ upstream' = ledger
                /\ Outcome(k, Answered(ledger, o, c))
                /\ UNCHANGED refused
           \/ \E ledger \in Received(o, c) :
                /\ At(k, "got")
                /\ call' = [call EXCEPT ![k] = NoCall]
                /\ Fault("lost")
                /\ upstream' = ledger
                /\ Outcome(k, AfterNoAnswer)
                /\ UNCHANGED refused
           \/ /\ Requested(k, "down")
              /\ Outcome(k, AfterNoAnswer)
              /\ UNCHANGED <<upstream, refused>>
           \/ /\ Requested(k, "refused")
              /\ Outcome(k, "rejected")
              /\ refused' = refused \union {o}
              /\ UNCHANGED upstream
        /\ UNCHANGED <<tokenVars, artifact, version, relayVars, cacheVars, gate>>

\* The entry is stored; the pass goes on, or the request is answered.
Persist(k) ==
    LET o == req[k].op
    IN  /\ Serving(k, "persist")
        /\ relay' = [relay EXCEPT ![o] = req[k].entry]
        /\ \/ /\ req[k].todo = {}
              /\ Return(k)
              /\ UNCHANGED call
           \/ \E next \in req[k].todo :
                /\ Deliver(k, next[1], next[2], req[k].todo \ {next})
                /\ UNCHANGED gate
        /\ UNCHANGED <<tokenVars, faults, upstreamVars, cacheVars, cleaned>>

-----------------------------------------------------------------------------
(***************************************************************************)
(* Submission: submitOperation.                                            *)
(***************************************************************************)
BeginSubmit(k, u, o, c) ==
    /\ Idle(k)
    /\ Continue(k, [pc |-> "list", kind |-> "submit", user |-> u, op |-> o, content |-> c])
    /\ AskForToken(k, u)
    /\ UNCHANGED <<tokenVars, faults, upstreamVars, relayVars, cacheVars, gate>>

\* getSource: the live list, or the cached one if the source is on it.
List(k) ==
    LET u == req[k].user
    IN  /\ Serving(k, "list")
        /\ \E outcome \in {"ok", "down", "refused"} :
             /\ Requested(k, outcome)
             /\ known' = IF outcome = "ok" THEN known \union {u} ELSE known
             /\ IF outcome = "ok" \/ (outcome = "down" /\ u \in known)
                  THEN Wait(k, "gate") /\ Enter(k)
                  ELSE Done(k) /\ UNCHANGED gate
        /\ UNCHANGED <<tokenVars, upstreamVars, relayVars, cached, seen>>

\* The operation is another user's or has another content, is settled, is
\* delivered once more, or is new.
Admit(k) ==
    LET o == req[k].op
        e == relay[o]
    IN  /\ Serving(k, "gate")
        /\ Inside(k)
        /\ req[k].kind = "submit"
        /\ IF e = None
             THEN IF req[k].content \in WithArtifact
                    THEN Wait(k, "verify") /\ AskForToken(k, req[k].user) /\ UNCHANGED gate
                    ELSE Wait(k, "save") /\ UNCHANGED <<call, gate>>
           ELSE IF e.user = req[k].user /\ e.content = req[k].content /\ Pending(e)
             THEN Deliver(k, o, e, {}) /\ UNCHANGED gate
           ELSE Return(k) /\ UNCHANGED call
        /\ UNCHANGED <<tokenVars, faults, upstreamVars, relayVars, cacheVars>>

\* Mutant: the artifact is not verified while the upstream is down.
VerifiedOrDown(outcome) == outcome = "down" \/ (outcome = "ok" /\ artifact)

\* The upstream has committed the artifact.
Verified(outcome) == outcome = "ok" /\ artifact

\* verifyArtifactDependencies
Verify(k) ==
    /\ Serving(k, "verify")
    /\ \E outcome \in {"ok", "down", "refused"} :
         /\ Requested(k, outcome)
         /\ IF Verified(outcome)
              THEN Wait(k, "save") /\ UNCHANGED gate
              ELSE Return(k)
    /\ UNCHANGED <<tokenVars, upstreamVars, relayVars, cacheVars>>

\* Mutant: the new operation is only recorded with the result of its delivery.
RecordLater(o, e) == relay

\* next.relays[key] = entry
Record(o, e) == [relay EXCEPT ![o] = e]

\* The new entry is stored before anything is sent.
SaveRelay(k) ==
    LET o == req[k].op
        e == [user |-> req[k].user, content |-> req[k].content,
              state |-> "relay-durable", deferred |-> FALSE, expired |-> FALSE]
    IN  /\ Serving(k, "save")
        /\ relay' = Record(o, e)
        /\ Deliver(k, o, e, {})
        /\ UNCHANGED <<tokenVars, faults, upstreamVars, cacheVars, cleaned, gate>>

-----------------------------------------------------------------------------
(***************************************************************************)
(* getOperation, retryPending, cleanupRelays                               *)
(***************************************************************************)
BeginPoll(k, u, o) ==
    /\ Idle(k)
    /\ Continue(k, [pc |-> "gate", kind |-> "poll", user |-> u, op |-> o])
    /\ Enter(k)
    /\ UNCHANGED <<delegationVars, upstreamVars, relayVars, cacheVars>>

\* Mutant: polling only reports the status.
PollReports(e, u) == FALSE

\* A pending operation is delivered, whatever its backoff.
DeliversOnPoll(e, u) == Pending(e) /\ e.user = u

Poll(k) ==
    LET o == req[k].op
        e == relay[o]
    IN  /\ Serving(k, "gate")
        /\ Inside(k)
        /\ req[k].kind = "poll"
        /\ IF DeliversOnPoll(e, req[k].user)
             THEN Deliver(k, o, e, {}) /\ UNCHANGED gate
             ELSE Return(k) /\ UNCHANGED call
        /\ UNCHANGED <<tokenVars, faults, upstreamVars, relayVars, cacheVars>>

BeginPass(k) ==
    /\ Idle(k)
    /\ Continue(k, [pc |-> "gate", kind |-> "pass"])
    /\ Enter(k)
    /\ UNCHANGED <<delegationVars, upstreamVars, relayVars, cacheVars>>

\* The entries retryPending will deliver, as they are when it reads them.
Due == {<<o, relay[o]>> : o \in {x \in Op : Pending(relay[x]) /\ ~relay[x].deferred}}

Pass(k) ==
    /\ Serving(k, "gate")
    /\ Inside(k)
    /\ req[k].kind = "pass"
    /\ \/ /\ Due = {}
          /\ Return(k)
          /\ UNCHANGED call
       \/ \E next \in Due :
            /\ Deliver(k, next[1], next[2], Due \ {next})
            /\ UNCHANGED gate
    /\ UNCHANGED <<tokenVars, faults, upstreamVars, relayVars, cacheVars>>

\* Only terminal entries are removed, after their retention.
Removable(e) == e # None /\ e.state \in Terminal /\ e.expired

\* cleanupRelays does not pass the gate.
Cleanup ==
    LET gone == {o \in Op : Removable(relay[o])}
    IN  /\ gone # {}
        /\ relay' = [o \in Op |-> IF o \in gone THEN None ELSE relay[o]]
        /\ cleaned' = cleaned \union gone
        /\ UNCHANGED <<delegationVars, upstreamVars, cacheVars, gate, req>>

-----------------------------------------------------------------------------
(***************************************************************************)
(* The authorization endpoints, the clock, the upstream, and restarts.     *)
(***************************************************************************)
\* The upstream, the caches, the relays and the gate are not concerned.
delegatedOnly == <<upstreamVars, cacheVars, relayVars, gate>>

Authorize(k) ==
    /\ Idle(k)
    /\ Continue(k, [pc |-> "authorize"])
    /\ \/ \E a \in Ceremony : CompleteAuthorization(k, a)
       \/ \E u \in User : EstablishTokenExchange(k, u)
    /\ UNCHANGED delegatedOnly

\* The credential is stored, or the attempt has failed.
Authorized(k) ==
    /\ Serving(k, "authorize")
    /\ call[k].pc \in {"none", "got", "failed"}
    /\ call' = [call EXCEPT ![k] = NoCall]
    /\ Done(k)
    /\ UNCHANGED <<tokenVars, faults, delegatedOnly>>

UserStep ==
    /\ \/ \E u \in User, a \in Ceremony : BeginAuthorization(u, a)
       \/ \E u \in User : Revoke(u)
    /\ UNCHANGED <<delegatedOnly, req>>

Clock ==
    \/ /\ \/ \E u \in User : CredentialAges(u)
          \/ \E a \in Ceremony : LoginRunsOut(a)
       /\ UNCHANGED <<delegatedOnly, req>>
    \/ /\ \E o \in Op :
            \/ Pending(relay[o]) /\ relay[o].deferred
                 /\ relay' = [relay EXCEPT ![o].deferred = FALSE]
            \/ relay[o] # None /\ ~Pending(relay[o]) /\ ~relay[o].expired
                 /\ relay' = [relay EXCEPT ![o].expired = TRUE]
       /\ UNCHANGED <<delegationVars, upstreamVars, cacheVars, cleaned, gate, req>>

\* The upstream as a relay settles an operation.
UpstreamSettles(o) ==
    /\ upstream[o] # None
    /\ upstream[o].result \notin Terminal
    /\ \E s \in Terminal : upstream' = [upstream EXCEPT ![o].result = s]
    /\ UNCHANGED <<delegationVars, artifact, version, refused, cacheVars, relayVars,
                   gate, req>>

UpstreamStep ==
    \/ \E o \in Op : UpstreamSettles(o)
    \/ /\ ~artifact
       /\ \E x \in Submitted[setting] : x[2] \in WithArtifact
       /\ artifact' = TRUE
       /\ UNCHANGED <<delegationVars, upstream, version, refused, cacheVars, relayVars,
                      gate, req>>
    \/ /\ version < MaxVersion[setting]
       /\ version' = version + 1
       /\ UNCHANGED <<delegationVars, upstream, artifact, refused, cacheVars, relayVars,
                      gate, req>>

Crash ==
    /\ Fault("crash")
    /\ req' = [k \in Slot |-> [pc |-> "idle"]]
    /\ call' = [k \in Slot |-> NoCall]
    /\ gate' = <<>>
    /\ UNCHANGED <<tokenVars, upstreamVars, cacheVars, relayVars>>

TokenRequest(k) == TokenStep(k) /\ UNCHANGED <<delegatedOnly, req>>

HandlerStep(k) ==
    /\ \/ TokenRequest(k)
       \/ Read(k)
       \/ Fill(k)
       \/ List(k)
       \/ Admit(k)
       \/ Verify(k)
       \/ SaveRelay(k)
       \/ Post(k)
       \/ Persist(k)
       \/ Poll(k)
       \/ Pass(k)
       \/ Authorized(k)
    /\ UNCHANGED begun

\* Nobody asks for other operations: the answer would be 404.  Without any, a
\* pass has nothing to do.
OpInUse == {x[1] : x \in Submitted[setting] \union Earlier[setting]}

ClientStep(k) ==
    /\ begun < MaxRequests[setting]
    /\ begun' = begun + 1
    /\ \/ \E u \in Principals : BeginRead(k, u)
       \/ \E u \in Principals, x \in Submitted[setting] : BeginSubmit(k, u, x[1], x[2])
       \/ \E u \in Principals, o \in OpInUse : ~Pending(relay[o]) /\ BeginPoll(k, u, o)
       \/ OpInUse # {} /\ BeginPass(k)
       \/ Authorize(k)

\* A pending operation may be polled as often as they like.
PollPending(u, o) ==
    /\ Pending(relay[o])
    /\ \E k \in Slot : BeginPoll(k, u, o)
    /\ UNCHANGED begun

OwnerPolls(o) == Pending(relay[o]) /\ PollPending(relay[o].user, o)

Next ==
    \/ \E k \in Slot : HandlerStep(k) \/ ClientStep(k)
    \/ \E u \in Principals, o \in Op : PollPending(u, o)
    \/ (UserStep \/ Cleanup \/ Clock \/ UpstreamStep \/ Crash) /\ UNCHANGED begun

\* Some request that was accepted goes on; the owner of a pending operation
\* keeps polling it, and polls are accepted; the upstream settles what it relays.
Fairness ==
    /\ WF_vars(\E k \in Slot : HandlerStep(k))
    /\ \A o \in Op : SF_vars(OwnerPolls(o))
    /\ WF_vars(\E o \in Op : UpstreamSettles(o) /\ UNCHANGED begun)

Spec == Init /\ [][Next]_vars /\ Fairness

-----------------------------------------------------------------------------
\* A relay answers for what it has sent: as long as its entry was not cleaned
\* up, every operation the upstream knows is recorded here, with the content
\* the upstream has (submitOperation stores the entry, then delivers it).
NothingSentUnrecorded ==
    \A o \in Op \ cleaned :
      upstream[o] # None => relay[o] # None /\ relay[o].content = upstream[o].content

\* A pending entry stays as it was taken, until it is terminal; a terminal one
\* only runs out of its retention.
KeptAsTaken(o) ==
    relay[o] # None =>
      \/ relay'[o] = relay[o]
      \/ /\ Pending(relay[o])
         /\ relay'[o] # None
         /\ relay'[o].user = relay[o].user /\ relay'[o].content = relay[o].content
      \/ relay'[o] = [relay[o] EXCEPT !.expired = TRUE]
      \/ relay[o].expired /\ relay'[o] = None

\* What the relay has taken stays taken.  A pending entry is neither removed nor
\* replaced, and a terminal status never changes, whichever deliveries of the
\* operation overlap or repeat (withGate, tryDeliver, cleanupRelays).
RelaysAreKept == [][\A o \in Op : KeptAsTaken(o)]_vars

\* "source-committed" and "conflict" are what the upstream has decided on this
\* very content.  "rejected" is, too, unless the upstream has the id with
\* another content or refused a request that delivered this very operation: a
\* delivery that is lost, or whose answer is, rejects nothing, and what befalls
\* one operation settles no other.
SettledTruthfully ==
    \A o \in Op :
      relay[o] # None /\ ~Pending(relay[o]) =>
        \/ /\ upstream[o] # None
           /\ upstream[o].content = relay[o].content
           /\ upstream[o].result = relay[o].state
        \/ /\ relay[o].state = "rejected"
           /\ \/ upstream[o] # None /\ upstream[o].content # relay[o].content
              \/ o \in refused

\* Only the upstream's decision on an operation turns it into "rejected"
\* (protocol/federation/README.md: a temporary upstream failure does not).
\* tryDeliver takes any 4xx for such a decision.
RejectedByDecision ==
    \A o \in Op :
      (relay[o] # None /\ relay[o].state = "rejected") =>
        /\ upstream[o] # None
        /\ \/ upstream[o].content # relay[o].content
           \/ upstream[o].result = "rejected"

\* No operation is accepted or sent before the artifact it refers to is
\* committed upstream, not even while the upstream cannot be asked.
ArtifactsFirst ==
    \A o \in Op :
      (relay[o] # None /\ relay[o].content \in WithArtifact) => artifact

\* What an outage will show is not older than what was shown before, if no
\* two reads ever overlapped (the answers of those may be cached out of order).
OutageShowsLatest ==
    \A p \in Principal :
      cached[p] # None /\ ~seen[p].overlapped => cached[p] >= seen[p].version

\* After a user has revoked the delegation, with no token being obtained just
\* then, no credential of theirs comes back until they authorize again: a login
\* left open in another window cannot be completed any more.  (Token exchange
\* needs no consent of the user and may obtain a credential at any time.)
RevokedStaysRevoked ==
    method = "authorization-code-pkce" =>
      \A u \in User : past[u].revoked = "yes" => credential[u] = None

\* An authorization is not lost by using it: unless two calls obtained a
\* token at once, or something failed, the credential of a user who has
\* authorized is there and its refresh token is one the server accepts.
CredentialKept ==
    \A u \in User :
      past[u].authorized /\ ~past[u].overlapped /\ faults = NoFaults /\ Obtaining(u) = {} =>
        credential[u] # None /\ credential[u].refresh \in alive

\* The user has to authorize before the upstream can be called for them.
LacksAuthorization(u) ==
    /\ method = "authorization-code-pkce"
    /\ \/ credential[u] = None
       \/ ~credential[u].fresh /\ credential[u].refresh = None

\* There is an operation that is not settled and could be delivered.
Backlog ==
    \E o \in Op :
      Pending(relay[o]) /\ ~\E u \in User : u = relay[o].user /\ LacksAuthorization(u)

\* Every operation the relay took settles, whatever is lost, retried or
\* restarted, unless its owner lacks the authorization to deliver it: when no
\* more are submitted, the backlog empties.
EveryRelaySettles == Backlog ~> ~Backlog
=============================================================================
