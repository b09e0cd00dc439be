------------------------- MODULE Federation_proofs -------------------------
(***************************************************************************)
(* Proofs about Federation, for any number of users, operations, contents, *)
(* requests, tokens and faults: the relay's safety properties follow from  *)
(* an inductive invariant that says what a request inside the gate may     *)
(* rely on, those of the delegated credentials from one about the tokens   *)
(* that are being obtained.                                                *)
(***************************************************************************)
EXTENDS Federation, SequenceTheorems, TLAPS

-----------------------------------------------------------------------------
(***************************************************************************)
(* Shapes of the records.                                                  *)
(***************************************************************************)
SubmitPc == {"list", "gate", "verify", "save"}

\* What the fields of a request are, by the point it has reached.
LEMMA RequestFields ==
    ASSUME NEW r \in Request
    PROVE  /\ r.pc \in {"idle", "authorize", "list", "gate", "verify", "save", "post",
                        "persist", "read", "fill"}
           /\ r.pc \in {"list", "verify", "save"} => r.kind = "submit"
           /\ r.pc = "gate" => r.kind \in {"submit", "poll", "pass"}
           /\ (r.pc \in SubmitPc /\ r.kind = "submit") =>
                r.user \in Principal /\ r.op \in Op /\ r.content \in Content
           /\ (r.pc = "gate" /\ r.kind = "poll") => r.user \in Principal /\ r.op \in Op
           /\ r.pc \in {"post", "persist"} =>
                r.op \in Op /\ r.entry \in Entry /\ r.todo \in SUBSET (Op \X Entry)
           /\ r.pc \in {"read", "fill"} => r.user \in Principal
           /\ r.pc = "fill" => r.version \in Nat
BY DEF Request, SubmitPc, Version

\* The requests a handler makes of itself.
LEMMA RequestShapes ==
    /\ [pc |-> "idle"] \in Request
    /\ [pc |-> "authorize"] \in Request
    /\ [pc |-> "gate", kind |-> "pass"] \in Request
    /\ \A u \in Principal, o \in Op :
         [pc |-> "gate", kind |-> "poll", user |-> u, op |-> o] \in Request
    /\ \A u \in Principal, o \in Op, c \in Content, p \in SubmitPc :
         [pc |-> p, kind |-> "submit", user |-> u, op |-> o, content |-> c] \in Request
    /\ \A o \in Op, e \in Entry, todo \in SUBSET (Op \X Entry), p \in {"post", "persist"} :
         [pc |-> p, op |-> o, entry |-> e, todo |-> todo] \in Request
    /\ \A u \in Principal : [pc |-> "read", user |-> u] \in Request
    /\ \A u \in Principal, v \in Nat : [pc |-> "fill", user |-> u, version |-> v] \in Request
BY DEF Request, SubmitPc, Version

\* A submission that goes on is a submission.
LEMMA SubmissionGoesOn ==
    ASSUME NEW r \in Request, r.pc \in SubmitPc, r.kind = "submit", NEW p \in SubmitPc
    PROVE  /\ [r EXCEPT !.pc = p] \in Request
           /\ [r EXCEPT !.pc = p].pc = p
           /\ [r EXCEPT !.pc = p].kind = "submit"
           /\ [r EXCEPT !.pc = p].user = r.user
           /\ [r EXCEPT !.pc = p].op = r.op
           /\ [r EXCEPT !.pc = p].content = r.content
BY DEF Request, SubmitPc

\* Entries are pending or terminal.
LEMMA EntryFields ==
    ASSUME NEW e \in Entry
    PROVE  /\ e # None
           /\ e.user \in Principal /\ e.content \in Content /\ e.state \in State
           /\ e.deferred \in BOOLEAN /\ e.expired \in BOOLEAN
           /\ e.state = "relay-durable" => e.expired = FALSE
           /\ e.state \in Terminal => e.deferred = FALSE
           /\ e.state \notin Terminal => e.state = "relay-durable"
BY EntriesAssumption DEF Entry, State, Terminal

\* What a call for a token knows, by the point it has reached.
LEMMA CallFields ==
    ASSUME NEW c \in Call
    PROVE  /\ c.pc \in {"none", "got", "read", "drop", "exchange", "redeem", "reread",
                        "failed", "refresh", "save"}
           /\ c.pc \in {"read", "drop", "exchange", "redeem", "reread", "failed", "refresh",
                        "save"} => c.user \in User
           /\ c.pc = "got" => c.user \in Principal
           /\ c.pc = "refresh" => c.token \in RefreshToken
           /\ c.pc = "save" => c.token \in RefreshToken \union {None}
BY DEF Call, Principal

LEMMA CallShapes ==
    /\ NoCall \in Call
    /\ [pc |-> "got", user |-> None] \in Call
    /\ \A u \in User, p \in {"read", "drop", "exchange", "redeem", "reread", "got", "failed"} :
         [pc |-> p, user |-> u] \in Call
    /\ \A u \in User, t \in RefreshToken : [pc |-> "refresh", user |-> u, token |-> t] \in Call
    /\ \A u \in User, t \in RefreshToken \union {None} :
         [pc |-> "save", user |-> u, token |-> t] \in Call
BY DEF Call, NoCall

-----------------------------------------------------------------------------
(***************************************************************************)
(* Tokens: what a step may do to the delegation's variables.               *)
(***************************************************************************)
LEMMA BecomeTyped ==
    ASSUME call \in [Slot -> Call], NEW k \in Slot, NEW next \in Call, Become(k, next)
    PROVE  /\ call' \in [Slot -> Call]
           /\ call'[k] = next
           /\ \A j \in Slot \ {k} : call'[j] = call[j]
BY DEF Become

\* A failure is one more of its kind.
LEMMA FaultTyped ==
    ASSUME faults \in FaultHistory, NEW kind, Fault(kind)
    PROVE  /\ faults' \in FaultHistory
           /\ faults' # NoFaults
           /\ faults.kinds \subseteq faults'.kinds
           /\ kind \in faults'.kinds
BY DEF Fault, FaultHistory, NoFaults

LEMMA WithoutCredentialIsCall ==
    ASSUME NEW u \in User
    PROVE  /\ WithoutCredential(u) \in Call
           /\ WithoutCredential(u).user = u
           /\ WithoutCredential(u).pc \in {"exchange", "failed"}
           /\ method # "token-exchange" => WithoutCredential(u).pc = "failed"
BY CallShapes DEF WithoutCredential

\* Each step of obtaining a token keeps the types.
LEMMA TokenStepTyped ==
    ASSUME DelegationTypeOK, NEW k \in Slot, TokenStep(k)
    PROVE  DelegationTypeOK'
<1> DEFINE u == call[k].user
<1> USE DEF DelegationTypeOK
<1>0. call[k] \in Call
  OBVIOUS
<1>1. CASE ReadCredential(k)
  <2>1. u \in User
    BY <1>0, <1>1, CallFields DEF ReadCredential, At
  <2>2. PICK next \in Call : Become(k, next)
    <3>1. credential[u] # None => credential[u] \in Credential
      BY <2>1
    <3>2. credential[u] # None /\ credential[u].refresh # None
            => credential[u].refresh \in RefreshToken
      BY <3>1 DEF Credential
    <3> QED
      BY <1>1, <2>1, <3>2, CallShapes, WithoutCredentialIsCall DEF ReadCredential
  <2>3. call' \in [Slot -> Call]
    BY <2>2, BecomeTyped
  <2>4. past' \in [User -> Past]
    BY <1>1, <2>1 DEF ReadCredential, Past
  <2> QED
    BY <1>1, <2>3, <2>4 DEF ReadCredential, storeVars, serverVars
<1>2. CASE Refresh(k)
  <2>1. u \in User /\ call[k].token \in RefreshToken
    BY <1>0, <1>2, CallFields DEF Refresh, At
  <2>2. call' \in [Slot -> Call]
    <3>1. issued + 1 \in RefreshToken
      BY DEF RefreshToken
    <3>2. [pc |-> "drop", user |-> u] \in Call /\ [pc |-> "failed", user |-> u] \in Call
      BY <2>1, CallShapes
    <3>3. /\ [pc |-> "save", user |-> u, token |-> TokenToStore(k, issued + 1)] \in Call
          /\ [pc |-> "save", user |-> u, token |-> TokenToStore(k, None)] \in Call
      BY <2>1, <3>1, CallShapes DEF TokenToStore
    <3> QED
      BY <1>2, <3>2, <3>3, BecomeTyped DEF Refresh, EndpointFails, Move
  <2>3. faults' \in FaultHistory
    BY <1>2, FaultTyped DEF Refresh, EndpointFails
  <2>4. issued' \in Nat /\ alive' \subseteq 1..issued'
    <3>1. \/ issued' = issued /\ alive' = alive
          \/ issued' = issued + 1 /\ alive' = (alive \ {call[k].token}) \union {issued + 1}
      BY <1>2 DEF Refresh, serverVars
    <3>2. issued \in Nat /\ alive \subseteq 1..issued
      OBVIOUS
    <3>3. alive \union {issued + 1} \subseteq 1..(issued + 1)
      BY <3>2
    <3>4. CASE issued' = issued /\ alive' = alive
      BY <3>2, <3>4
    <3>5. CASE issued' = issued + 1 /\ alive' \subseteq alive \union {issued + 1}
      <4>1. alive' \subseteq 1..(issued + 1)
        BY <3>3, <3>5
      <4>2. issued + 1 \in Nat
        BY <3>2
      <4> QED
        BY <3>5, <4>1, <4>2
    <3> QED
      BY <3>1, <3>4, <3>5
  <2> QED
    BY <1>2, <2>2, <2>3, <2>4 DEF Refresh, storeVars
<1>3. CASE Drop(k)
  <2>1. u \in User
    BY <1>0, <1>3, CallFields DEF Drop, At
  <2>2. call' \in [Slot -> Call]
    BY <1>3, <2>1, BecomeTyped, WithoutCredentialIsCall DEF Drop
  <2>3. credential' \in [User -> Credential \union {None}]
    BY <1>3 DEF Drop, DeleteCredential
  <2>4. pending' \in [Ceremony -> PendingAuthorization]
    BY <1>3 DEF Drop, DeleteCredential, PendingWithout, PendingAuthorization
  <2> QED
    BY <1>3, <2>2, <2>3, <2>4 DEF Drop, serverVars
<1>4. CASE NewGrant(k)
  <2>1. u \in User
    BY <1>0, <1>4, CallFields DEF NewGrant, At
  <2>2. call' \in [Slot -> Call]
    <3>1. issued + 1 \in RefreshToken
      BY DEF RefreshToken
    <3>2. [pc |-> "failed", user |-> u] \in Call
      BY <2>1, CallShapes
    <3>3. /\ [pc |-> "save", user |-> u, token |-> issued + 1] \in Call
          /\ [pc |-> "save", user |-> u, token |-> None] \in Call
      BY <2>1, <3>1, CallShapes
    <3> QED
      BY <1>4, <3>2, <3>3, BecomeTyped DEF NewGrant, EndpointFails, Move
  <2>3. faults' \in FaultHistory
    BY <1>4, FaultTyped DEF NewGrant, EndpointFails
  <2>4. issued' \in Nat /\ alive' \subseteq 1..issued'
    <3>1. \/ issued' = issued /\ alive' = alive
          \/ issued' = issued + 1 /\ alive' = alive \union {issued + 1}
      BY <1>4 DEF NewGrant, serverVars
    <3>2. issued \in Nat /\ alive \subseteq 1..issued
      OBVIOUS
    <3>3. alive \union {issued + 1} \subseteq 1..(issued + 1)
      BY <3>2
    <3>4. CASE issued' = issued /\ alive' = alive
      BY <3>2, <3>4
    <3>5. CASE issued' = issued + 1 /\ alive' \subseteq alive \union {issued + 1}
      <4>1. alive' \subseteq 1..(issued + 1)
        BY <3>3, <3>5
      <4>2. issued + 1 \in Nat
        BY <3>2
      <4> QED
        BY <3>5, <4>1, <4>2
    <3> QED
      BY <3>1, <3>4, <3>5
  <2> QED
    BY <1>4, <2>2, <2>3, <2>4 DEF NewGrant, storeVars
<1>5. CASE Save(k)
  <2>1. u \in User /\ call[k].token \in RefreshToken \union {None}
    BY <1>0, <1>5, CallFields DEF Save, At
  <2>2. call' \in [Slot -> Call]
    BY <1>5, <2>1, BecomeTyped, CallShapes DEF Save, Move
  <2>3. credential' \in [User -> Credential \union {None}]
    BY <1>5, <2>1 DEF Save, Credential
  <2>4. past' \in [User -> Past]
    BY <1>5, <2>1 DEF Save, Past
  <2> QED
    BY <1>5, <2>2, <2>3, <2>4 DEF Save, serverVars
<1>6. CASE Reread(k)
  <2>1. u \in User
    BY <1>0, <1>6, CallFields DEF Reread, At
  <2>2. call' \in [Slot -> Call]
    BY <1>6, <2>1, BecomeTyped, CallShapes DEF Reread, Move
  <2> QED
    BY <1>6, <2>2 DEF Reread, storeVars, serverVars
<1> QED
  BY <1>1, <1>2, <1>3, <1>4, <1>5, <1>6 DEF TokenStep

\* What the other handler steps do: ask for a token, or use one up.
CallStep(k) ==
    /\ UNCHANGED tokenVars
    /\ UNCHANGED faults \/ \E kind : Fault(kind)
    /\ \/ UNCHANGED call
       \/ Become(k, NoCall)
       \/ \E u \in Principal : AskForToken(k, u)

\* What a step is for the delegation.
DelegationStep ==
    \/ \E k \in Slot :
         \/ TokenStep(k)
         \/ CallStep(k)
         \/ \E a \in Ceremony : CompleteAuthorization(k, a)
         \/ \E u \in User : EstablishTokenExchange(k, u)
    \/ \E u \in User, a \in Ceremony : BeginAuthorization(u, a)
    \/ \E u \in User : Revoke(u) \/ CredentialAges(u)
    \/ \E a \in Ceremony : LoginRunsOut(a)
    \/ /\ UNCHANGED tokenVars
       /\ Fault("crash")
       /\ call' = [k \in Slot |-> NoCall]
    \/ UNCHANGED delegationVars

LEMMA RequestedIsCallStep ==
    ASSUME NEW k \in Slot, NEW outcome, Requested(k, outcome)
    PROVE  /\ Become(k, NoCall)
           /\ UNCHANGED faults \/ Fault(outcome)
           /\ outcome = "refused" => Fault("refused")
BY DEF Requested, Become

\* What retryPending takes with it are the pending entries as they are.
LEMMA DueEntries ==
    ASSUME relay \in [Op -> Entry \union {None}]
    PROVE  /\ Due \in SUBSET (Op \X Entry)
           /\ \A x \in Due : x[2] = relay[x[1]] /\ Pending(relay[x[1]])
           /\ \A x, y \in Due : x[1] = y[1] => x = y
<1>1. ASSUME NEW x \in Due
      PROVE  \E o \in Op : x = <<o, relay[o]>> /\ Pending(relay[o]) /\ relay[o] \in Entry
  BY <1>1 DEF Due, Pending
<1> QED
  BY <1>1

\* The steps of the handlers.
LEMMA HandlerStepIsDelegationStep ==
    ASSUME req \in [Slot -> Request], relay \in [Op -> Entry \union {None}],
           NEW k \in Slot, HandlerStep(k)
    PROVE  DelegationStep
<1> USE DEF DelegationStep
<1> DEFINE r == req[k]
<1>0. r \in Request
  OBVIOUS
<1>1. CASE TokenRequest(k)
  BY <1>1 DEF TokenRequest
<1>2. CASE Read(k)
  BY <1>2, RequestedIsCallStep DEF Read, CallStep
<1>3. CASE Fill(k)
  BY <1>3 DEF Fill
<1>4. CASE List(k)
  BY <1>4, RequestedIsCallStep DEF List, CallStep
<1>5. CASE Admit(k)
  <2>1. r.user \in Principal
    BY <1>0, <1>5, RequestFields DEF Admit, Serving, SubmitPc
  <2>2. relay[r.op] # None /\ relay[r.op].user = r.user => relay[r.op].user \in Principal
    BY <2>1
  <2>3. CallStep(k)
    BY <1>5, <2>1, <2>2 DEF Admit, Deliver, Return, CallStep
  <2> QED
    BY <2>3
<1>6. CASE Verify(k)
  BY <1>6, RequestedIsCallStep DEF Verify, CallStep
<1>7. CASE SaveRelay(k)
  <2>1. r.user \in Principal
    BY <1>0, <1>7, RequestFields DEF SaveRelay, Serving, SubmitPc
  <2> QED
    BY <1>7, <2>1 DEF SaveRelay, Deliver, CallStep
<1>8. CASE Post(k)
  <2>1. Become(k, NoCall) /\ UNCHANGED tokenVars /\ (UNCHANGED faults \/ \E kind : Fault(kind))
    BY <1>8, RequestedIsCallStep DEF Post, Become
  <2> QED
    BY <2>1 DEF CallStep
<1>9. CASE Persist(k)
  <2>1. \A x \in r.todo : x[2].user \in Principal
    <3>1. r.todo \in SUBSET (Op \X Entry)
      BY <1>0, <1>9, RequestFields DEF Persist, Serving
    <3> QED
      BY <3>1, EntryFields
  <2>2. CallStep(k)
    BY <1>9, <2>1 DEF Persist, Deliver, CallStep
  <2> QED
    BY <2>2
<1>10. CASE Poll(k)
  <2>1. r.user \in Principal
    BY <1>0, <1>10, RequestFields DEF Poll, Serving
  <2>2. CallStep(k)
    BY <1>10, <2>1 DEF Poll, Deliver, DeliversOnPoll, CallStep
  <2> QED
    BY <2>2
<1>11. CASE Pass(k)
  <2>1. \A x \in Due : x[2].user \in Principal
    BY DueEntries, EntryFields
  <2>2. CallStep(k)
    BY <1>11, <2>1 DEF Pass, Deliver, CallStep
  <2> QED
    BY <2>2
<1>12. CASE Authorized(k)
  BY <1>12 DEF Authorized, CallStep, Become
<1> QED
  BY <1>1, <1>2, <1>3, <1>4, <1>5, <1>6, <1>7, <1>8, <1>9, <1>10, <1>11, <1>12 DEF HandlerStep

\* Every step of the specification is one of these for the delegation.
LEMMA NextIsDelegationStep ==
    ASSUME req \in [Slot -> Request], relay \in [Op -> Entry \union {None}], [Next]_vars
    PROVE  DelegationStep
<1>0. Principals \subseteq Principal
  BY DEF Principals, Principal
<1>1. CASE \E k \in Slot : HandlerStep(k)
  BY <1>1, HandlerStepIsDelegationStep
<1>2. ASSUME NEW k \in Slot, ClientStep(k)
      PROVE  DelegationStep
  <2>1. CASE \E u \in Principals : BeginRead(k, u)
    BY <1>0, <2>1 DEF BeginRead, CallStep, DelegationStep
  <2>2. CASE \E u \in Principals, x \in Submitted[setting] : BeginSubmit(k, u, x[1], x[2])
    BY <1>0, <2>2 DEF BeginSubmit, CallStep, DelegationStep
  <2>3. CASE \E u \in Principals, o \in OpInUse : ~Pending(relay[o]) /\ BeginPoll(k, u, o)
    BY <2>3 DEF BeginPoll, DelegationStep
  <2>4. CASE BeginPass(k)
    BY <2>4 DEF BeginPass, DelegationStep
  <2>5. CASE Authorize(k)
    BY <1>2, <2>5 DEF Authorize, DelegationStep
  <2> QED
    BY <1>2, <2>1, <2>2, <2>3, <2>4, <2>5 DEF ClientStep
<1>3. CASE \E u \in Principals, o \in Op : PollPending(u, o)
  BY <1>3 DEF PollPending, BeginPoll, DelegationStep
<1>4. CASE UserStep
  BY <1>4 DEF UserStep, DelegationStep
<1>5. CASE Cleanup
  BY <1>5 DEF Cleanup, DelegationStep
<1>6. CASE Clock
  BY <1>6 DEF Clock, DelegationStep
<1>7. CASE UpstreamStep
  BY <1>7 DEF UpstreamStep, UpstreamSettles, DelegationStep
<1>8. CASE Crash
  BY <1>8 DEF Crash, DelegationStep
<1>9. CASE UNCHANGED vars
  BY <1>9 DEF vars, DelegationStep
<1> QED
  BY <1>1, <1>2, <1>3, <1>4, <1>5, <1>6, <1>7, <1>8, <1>9 DEF Next

\* Each step keeps the types of the delegation's variables.
LEMMA DelegationTypes ==
    ASSUME DelegationTypeOK, DelegationStep
    PROVE  DelegationTypeOK'
<1> USE DEF DelegationTypeOK
<1>1. CASE \E k \in Slot : TokenStep(k)
  BY <1>1, TokenStepTyped
<1>2. ASSUME NEW k \in Slot, CallStep(k)
      PROVE  DelegationTypeOK'
  <2>1. ASSUME NEW u \in Principal, AskForToken(k, u)
        PROVE  call' \in [Slot -> Call]
    <3>1. [pc |-> IF u = None THEN "got" ELSE "read", user |-> u] \in Call
      BY CallShapes DEF Principal
    <3> QED
      BY <2>1, <3>1, BecomeTyped DEF AskForToken
  <2>2. call' \in [Slot -> Call]
    BY <1>2, <2>1, BecomeTyped, CallShapes DEF CallStep
  <2>3. faults' \in FaultHistory
    BY <1>2, FaultTyped DEF CallStep
  <2> QED
    BY <1>2, <2>2, <2>3 DEF CallStep, tokenVars, storeVars, serverVars
<1>3. ASSUME NEW k \in Slot, NEW a \in Ceremony, CompleteAuthorization(k, a)
      PROVE  DelegationTypeOK'
  <2>1. pending[a].state = "open" => pending[a].user \in User
    BY DEF PendingAuthorization
  <2>2. call' \in [Slot -> Call]
    BY <1>3, <2>1, BecomeTyped, CallShapes DEF CompleteAuthorization
  <2>3. pending' \in [Ceremony -> PendingAuthorization]
    BY <1>3 DEF CompleteAuthorization, PendingAuthorization
  <2> QED
    BY <1>3, <2>2, <2>3 DEF CompleteAuthorization, serverVars
<1>4. ASSUME NEW k \in Slot, NEW u \in User, EstablishTokenExchange(k, u)
      PROVE  DelegationTypeOK'
  <2>1. call' \in [Slot -> Call]
    BY <1>4, BecomeTyped, CallShapes DEF EstablishTokenExchange
  <2>2. past' \in [User -> Past]
    BY <1>4 DEF EstablishTokenExchange, Past
  <2> QED
    BY <1>4, <2>1, <2>2 DEF EstablishTokenExchange, storeVars, serverVars
<1>5. ASSUME NEW u \in User, NEW a \in Ceremony, BeginAuthorization(u, a)
      PROVE  DelegationTypeOK'
  <2>1. pending' \in [Ceremony -> PendingAuthorization]
    BY <1>5 DEF BeginAuthorization, PendingAuthorization
  <2>2. past' \in [User -> Past]
    BY <1>5 DEF BeginAuthorization, Past
  <2> QED
    BY <1>5, <2>1, <2>2 DEF BeginAuthorization, serverVars
<1>6. ASSUME NEW u \in User, Revoke(u)
      PROVE  DelegationTypeOK'
  <2>1. credential' \in [User -> Credential \union {None}]
    BY <1>6 DEF Revoke, DeleteCredential
  <2>2. pending' \in [Ceremony -> PendingAuthorization]
    BY <1>6 DEF Revoke, DeleteCredential, PendingWithout, PendingAuthorization
  <2>3. past' \in [User -> Past]
    <3>1. PICK answer \in {"yes", "busy"} :
            past' = [past EXCEPT ![u].revoked = answer, ![u].authorized = FALSE]
      BY <1>6 DEF Revoke
    <3>2. PICK p : p = [past[u] EXCEPT !.revoked = answer, !.authorized = FALSE]
      OBVIOUS
    <3>3. p \in Past
      BY <3>2 DEF Past
    <3>4. past' = [past EXCEPT ![u] = p]
      BY <3>1, <3>2 DEF Past
    <3> QED
      BY <3>3, <3>4
  <2> QED
    BY <1>6, <2>1, <2>2, <2>3 DEF Revoke, serverVars
<1>7. ASSUME NEW u \in User, CredentialAges(u)
      PROVE  DelegationTypeOK'
  <2>1. credential' \in [User -> Credential \union {None}]
    BY <1>7 DEF CredentialAges, Credential
  <2> QED
    BY <1>7, <2>1 DEF CredentialAges, serverVars
<1>8. ASSUME NEW a \in Ceremony, LoginRunsOut(a)
      PROVE  DelegationTypeOK'
  <2>1. pending' \in [Ceremony -> PendingAuthorization]
    BY <1>8 DEF LoginRunsOut, PendingAuthorization
  <2> QED
    BY <1>8, <2>1 DEF LoginRunsOut, serverVars
<1>9. CASE /\ UNCHANGED tokenVars
           /\ Fault("crash")
           /\ call' = [k \in Slot |-> NoCall]
  <2>1. call' \in [Slot -> Call]
    BY <1>9, CallShapes
  <2>2. faults' \in FaultHistory
    BY <1>9, FaultTyped
  <2> QED
    BY <1>9, <2>1, <2>2 DEF tokenVars, storeVars, serverVars
<1>10. CASE UNCHANGED delegationVars
  BY <1>10 DEF delegationVars
<1> QED
  BY <1>1, <1>2, <1>3, <1>4, <1>5, <1>6, <1>7, <1>8, <1>9, <1>10 DEF DelegationStep

\* The situation never changes.
LEMMA SettingStays ==
    ASSUME DelegationStep
    PROVE  setting' = setting
<1>1. ASSUME NEW k \in Slot, TokenStep(k)
      PROVE  setting' = setting
  BY <1>1 DEF TokenStep, ReadCredential, Refresh, Drop, NewGrant, Save, Reread, storeVars
<1>2. ASSUME NEW k \in Slot, CallStep(k)
      PROVE  setting' = setting
  BY <1>2 DEF CallStep, tokenVars, storeVars
<1> QED
  BY <1>1, <1>2 DEF DelegationStep, CompleteAuthorization, EstablishTokenExchange,
     BeginAuthorization, Revoke, CredentialAges, LoginRunsOut, tokenVars, storeVars,
     delegationVars

\* A refusal is not forgotten.
LEMMA RefusedStays ==
    ASSUME req \in [Slot -> Request], refused \subseteq Op, [Next]_vars
    PROVE  refused \subseteq refused' /\ refused' \subseteq Op
<1>1. ASSUME NEW k \in Slot, Post(k)
      PROVE  refused \subseteq refused' /\ refused' \subseteq Op
  <2>1. req[k].op \in Op
    BY <1>1, RequestFields DEF Post, Serving
  <2> QED
    BY <1>1, <2>1 DEF Post
<1>2. UNCHANGED refused \/ \E k \in Slot : Post(k)
  BY DEF Next, vars, HandlerStep, ClientStep, PollPending, UserStep, Cleanup, Clock,
     UpstreamStep, UpstreamSettles, Crash, TokenRequest, Read, Fill, List, Admit, Verify,
     SaveRelay, Persist, Poll, Pass, Authorized, BeginRead, BeginSubmit, BeginPoll,
     BeginPass, Authorize, delegatedOnly, upstreamVars
<1> QED
  BY <1>1, <1>2

-----------------------------------------------------------------------------
(***************************************************************************)
(* The inductive invariant of the relay.                                   *)
(***************************************************************************)
\* The points at which a request has the gate to itself.
InsideGate == {"verify", "save", "post", "persist"}

\* Operation o is with the relay, as e knows it.
StillOpen(o, e) ==
    /\ relay[o] # None
    /\ Pending(relay[o])
    /\ relay[o].user = e.user
    /\ relay[o].content = e.content

\* A terminal status of operation o with content c is the upstream's.
IsTrue(o, e) ==
    ~Pending(e) =>
      \/ /\ upstream[o] # None
         /\ upstream[o].content = e.content
         /\ upstream[o].result = e.state
      \/ /\ e.state = "rejected"
         /\ \/ upstream[o] # None /\ upstream[o].content # e.content
            \/ o \in refused

\* What the request in slot k may rely on while it has the gate: the operation
\* it is about to record is new, those it delivers are still with the relay.
SlotOK(k) ==
    LET r == req[k]
    IN  /\ r.pc \in InsideGate => Inside(k)
        /\ r.pc \in {"verify", "save"} => relay[r.op] = None
        /\ r.pc = "save" /\ r.content \in WithArtifact => artifact
        /\ r.pc \in {"post", "persist"} =>
             /\ StillOpen(r.op, r.entry)
             /\ \A x \in r.todo : x[1] # r.op /\ Pending(x[2]) /\ StillOpen(x[1], x[2])
             /\ \A x, y \in r.todo : x[1] = y[1] => x = y
        /\ r.pc = "post" => Pending(r.entry)
        /\ r.pc = "persist" => IsTrue(r.op, r.entry)

\* What the properties say of operation o.
RelayOK(o) ==
    /\ (o \notin cleaned /\ upstream[o] # None) =>
         relay[o] # None /\ relay[o].content = upstream[o].content
    /\ relay[o] # None => IsTrue(o, relay[o])
    /\ (relay[o] # None /\ relay[o].content \in WithArtifact) => artifact

IInv ==
    /\ TypeOK
    /\ \A k \in Slot : SlotOK(k)
    /\ \A o \in Op : RelayOK(o)

RelayTypeOK ==
    /\ relay \in [Op -> Entry \union {None}]
    /\ gate \in Seq(Slot)
    /\ req \in [Slot -> Request]
    /\ upstream \in [Op -> LedgerEntry \union {None}]
    /\ artifact \in BOOLEAN
    /\ cleaned \subseteq Op

CacheTypeOK ==
    /\ known \subseteq Principal
    /\ cached \in [Principal -> Version \union {None}]
    /\ version \in 0..MaxVersion[setting]
    /\ refused \subseteq Op
    /\ seen \in [Principal -> [version: Version, overlapped: BOOLEAN]]
    /\ begun \in 0..MaxRequests[setting]

LEMMA TypeOKInParts ==
    TypeOK <=> DelegationTypeOK /\ RelayTypeOK /\ CacheTypeOK
BY DEF TypeOK, RelayTypeOK, CacheTypeOK

\* The caches and the bounds.
LEMMA CacheTypes ==
    ASSUME TypeOK, [Next]_vars
    PROVE  CacheTypeOK'
<1> USE DEF TypeOK, CacheTypeOK
<1>0. /\ setting' = setting
      /\ MaxVersion[setting] \in Nat /\ MaxRequests[setting] \in Nat
  BY NextIsDelegationStep, SettingStays, LimitsAssumption DEF DelegationTypeOK
<1>1. version' \in 0..MaxVersion[setting]
  <2>1. version' = version \/ (version < MaxVersion[setting] /\ version' = version + 1)
    BY DEF Next, vars, HandlerStep, ClientStep, PollPending, UserStep, Cleanup, Clock,
       UpstreamStep, UpstreamSettles, Crash, TokenRequest, Read, Fill, List, Admit, Verify,
       SaveRelay, Post, Persist, Poll, Pass, Authorized, BeginRead, BeginSubmit, BeginPoll,
       BeginPass, Authorize, delegatedOnly, upstreamVars
  <2> QED
    BY <1>0, <2>1
<1>2. begun' \in 0..MaxRequests[setting]
  <2>1. begun' = begun \/ (begun < MaxRequests[setting] /\ begun' = begun + 1)
    BY DEF Next, vars, HandlerStep, ClientStep, PollPending
  <2> QED
    BY <1>0, <2>1
<1>3. /\ known' \subseteq Principal
      /\ cached' \in [Principal -> Version \union {None}]
      /\ seen' \in [Principal -> [version: Version, overlapped: BOOLEAN]]
  <2>0. \A u \in Principal, v \in Nat :
          Show(u, v) => seen' \in [Principal -> [version: Version, overlapped: BOOLEAN]]
    <3> SUFFICES ASSUME NEW u \in Principal, NEW v \in Nat, Show(u, v)
                 PROVE  seen' \in [Principal -> [version: Version, overlapped: BOOLEAN]]
      OBVIOUS
    <3>1. PICK w \in Nat : seen' = [seen EXCEPT ![u] = [@ EXCEPT !.version = w]]
      BY DEF Show, Version
    <3> QED
      BY <3>1 DEF Version
  <2>1. ASSUME NEW k \in Slot, Read(k)
        PROVE  <1>3!1 /\ <1>3!2 /\ <1>3!3
    <3>1. req[k] \in Request /\ req[k].user \in Principal
      BY <2>1, RequestFields DEF Read, Serving
    <3>2. cached[req[k].user] # None => cached[req[k].user] \in Nat
      BY <3>1 DEF Version
    <3> QED
      BY <2>0, <2>1, <3>1, <3>2 DEF Read
  <2>2. ASSUME NEW k \in Slot, Fill(k)
        PROVE  <1>3!1 /\ <1>3!2 /\ <1>3!3
    <3>1. req[k] \in Request /\ req[k].user \in Principal /\ req[k].version \in Nat
      BY <2>2, RequestFields DEF Fill, Serving
    <3> QED
      BY <2>0, <2>2, <3>1 DEF Fill, CachedAnswer, Version
  <2>3. ASSUME NEW k \in Slot, List(k)
        PROVE  <1>3!1 /\ <1>3!2 /\ <1>3!3
    <3>1. req[k] \in Request /\ req[k].user \in Principal
      BY <2>3, RequestFields DEF List, Serving, SubmitPc
    <3> QED
      BY <2>3, <3>1 DEF List
  <2>4. ASSUME NEW k \in Slot, NEW u \in Principals, BeginRead(k, u)
        PROVE  <1>3!1 /\ <1>3!2 /\ <1>3!3
    BY <2>4 DEF BeginRead, Principals, Principal
  <2>5. \/ UNCHANGED cacheVars
        \/ \E k \in Slot : Read(k) \/ Fill(k) \/ List(k)
        \/ \E k \in Slot, u \in Principals : BeginRead(k, u)
    BY DEF Next, vars, HandlerStep, ClientStep, PollPending, UserStep, Cleanup, Clock,
       UpstreamStep, UpstreamSettles, Crash, TokenRequest, Admit, Verify,
       SaveRelay, Post, Persist, Poll, Pass, Authorized, BeginSubmit, BeginPoll,
       BeginPass, Authorize, delegatedOnly
  <2> QED
    BY <2>1, <2>2, <2>3, <2>4, <2>5 DEF cacheVars
<1>4. refused' \subseteq Op
  BY RefusedStays
<1> QED
  BY <1>0, <1>1, <1>2, <1>3, <1>4

-----------------------------------------------------------------------------
(***************************************************************************)
(* The steps of a request that has not the gate, and those of others.      *)
(***************************************************************************)
\* The part of the invariant that is about the relay.
RelayInv ==
    /\ RelayTypeOK
    /\ \A k \in Slot : SlotOK(k)
    /\ \A o \in Op : RelayOK(o)

\* A request starts, ends or goes on before it has the gate.
OutsideStep(k) ==
    /\ UNCHANGED <<relay, cleaned, upstream, artifact>>
    /\ req[k].pc \notin InsideGate
    /\ \E r \in Request : r.pc \notin InsideGate /\ Continue(k, r)
    /\ UNCHANGED gate \/ Enter(k)

LEMMA OutsideKeeps ==
    ASSUME RelayInv, refused \subseteq refused', NEW k \in Slot, OutsideStep(k)
    PROVE  RelayInv'
<1> USE DEF RelayInv, RelayTypeOK
<1>1. gate' \in Seq(Slot)
  BY AppendProperties DEF OutsideStep, Enter
<1>2. req' \in [Slot -> Request] /\ req'[k].pc \notin InsideGate
  BY DEF OutsideStep, Continue
<1>3. ASSUME NEW j \in Slot
      PROVE  SlotOK(j)'
  <2>1. CASE j = k
    BY <1>2, <2>1 DEF SlotOK, InsideGate
  <2>2. CASE j # k
    <3>1. req'[j] = req[j]
      BY <2>2 DEF OutsideStep, Continue
    <3>2. Inside(j) => Inside(j)'
      <4>1. gate # <<>> => Append(gate, k) # <<>> /\ Head(Append(gate, k)) = Head(gate)
        BY AppendProperties
      <4> QED
        BY <4>1 DEF OutsideStep, Enter, Inside
    <3> QED
      BY <3>1, <3>2 DEF SlotOK, StillOpen, Pending, IsTrue, OutsideStep
  <2> QED
    BY <2>1, <2>2
<1>4. ASSUME NEW o \in Op
      PROVE  RelayOK(o)'
  BY DEF OutsideStep, RelayOK, IsTrue, Pending
<1> QED
  BY <1>1, <1>2, <1>3, <1>4 DEF OutsideStep

LEMMA OutsideSteps ==
    ASSUME RelayTypeOK, version \in Nat, NEW k \in Slot,
           \/ Read(k) \/ Fill(k) \/ List(k) \/ Authorized(k) \/ BeginPass(k) \/ Authorize(k)
           \/ \E u \in Principals : BeginRead(k, u)
           \/ \E u \in Principals, x \in Op \X Content : BeginSubmit(k, u, x[1], x[2])
           \/ \E u \in Principals, o \in Op : BeginPoll(k, u, o)
    PROVE  OutsideStep(k)
<1> USE DEF RelayTypeOK, OutsideStep, InsideGate, Serving
<1> DEFINE r == req[k]
<1>0. r \in Request /\ Principals \subseteq Principal /\ [pc |-> "idle"] \in Request
  BY RequestShapes DEF Principals, Principal
<1>1. CASE Read(k)
  <2>1. r.user \in Principal
    BY <1>0, <1>1, RequestFields DEF Read
  <2> QED
    BY <1>0, <1>1, <2>1, RequestShapes DEF Read, Done, upstreamVars, relayVars
<1>2. CASE Fill(k)
  BY <1>0, <1>2 DEF Fill, Done, upstreamVars, relayVars
<1>3. CASE List(k)
  <2>1. [r EXCEPT !.pc = "gate"] \in Request /\ [r EXCEPT !.pc = "gate"].pc = "gate"
    BY <1>0, <1>3, RequestFields, SubmissionGoesOn DEF List, SubmitPc
  <2> QED
    BY <1>0, <1>3, <2>1 DEF List, Wait, Done, upstreamVars, relayVars
<1>4. CASE Authorized(k)
  BY <1>0, <1>4 DEF Authorized, Done, delegatedOnly, upstreamVars, relayVars
<1>5. CASE BeginPass(k)
  BY <1>5, RequestShapes DEF BeginPass, Idle, upstreamVars, relayVars
<1>6. CASE Authorize(k)
  BY <1>6, RequestShapes DEF Authorize, Idle, delegatedOnly, upstreamVars, relayVars
<1>7. CASE \E u \in Principals : BeginRead(k, u)
  BY <1>0, <1>7, RequestShapes DEF BeginRead, Idle, upstreamVars, relayVars
<1>8. ASSUME NEW u \in Principals, NEW x \in Op \X Content, BeginSubmit(k, u, x[1], x[2])
      PROVE  OutsideStep(k)
  <2>1. [pc |-> "list", kind |-> "submit", user |-> u, op |-> x[1], content |-> x[2]]
           \in Request
    BY <1>0, RequestShapes DEF SubmitPc
  <2> QED
    BY <1>8, <2>1 DEF BeginSubmit, Idle, upstreamVars, relayVars
<1>9. CASE \E u \in Principals, o \in Op : BeginPoll(k, u, o)
  BY <1>0, <1>9, RequestShapes DEF BeginPoll, Idle, upstreamVars, relayVars
<1> QED
  BY <1>1, <1>2, <1>3, <1>4, <1>5, <1>6, <1>7, <1>8, <1>9

-----------------------------------------------------------------------------
(***************************************************************************)
(* The steps of the request that has the gate.                             *)
(***************************************************************************)
\* The others have not.
LEMMA OthersAreOutside ==
    ASSUME \A j \in Slot : SlotOK(j), NEW k \in Slot, Inside(k),
           \A j \in Slot \ {k} : req'[j] = req[j]
    PROVE  \A j \in Slot \ {k} : SlotOK(j)'
<1>1. ASSUME NEW j \in Slot \ {k}
      PROVE  req[j].pc \notin InsideGate
  BY DEF SlotOK, Inside
<1> QED
  BY <1>1 DEF SlotOK, InsideGate

\* It leaves the gate.
LEMMA ReturnKeeps ==
    ASSUME RelayTypeOK, \A j \in Slot : SlotOK(j), NEW k \in Slot, Inside(k), Return(k)
    PROVE  /\ req' \in [Slot -> Request]
           /\ gate' \in Seq(Slot)
           /\ \A j \in Slot : SlotOK(j)'
<1>1. req' \in [Slot -> Request] /\ req'[k].pc = "idle" /\ \A j \in Slot \ {k} : req'[j] = req[j]
  BY RequestShapes DEF RelayTypeOK, Return, Done, Continue
<1>2. gate' \in Seq(Slot)
  BY HeadTailProperties DEF RelayTypeOK, Inside, Return, Leave
<1>3. SlotOK(k)'
  BY <1>1 DEF SlotOK, InsideGate
<1> QED
  BY <1>1, <1>2, <1>3, OthersAreOutside

\* It delivers an operation the relay has.
LEMMA DeliverKeeps ==
    ASSUME RelayTypeOK, \A j \in Slot : SlotOK(j), NEW k \in Slot, Inside(k), UNCHANGED gate,
           NEW o \in Op, NEW e \in Entry, NEW todo \in SUBSET (Op \X Entry),
           Deliver(k, o, e, todo),
           StillOpen(o, e)', Pending(e),
           \A x \in todo : x[1] # o /\ Pending(x[2]) /\ StillOpen(x[1], x[2])',
           \A x, y \in todo : x[1] = y[1] => x = y
    PROVE  /\ req' \in [Slot -> Request]
           /\ gate' \in Seq(Slot)
           /\ \A j \in Slot : SlotOK(j)'
<1> DEFINE d == [e EXCEPT !.deferred = FALSE]
           r == [pc |-> "post", op |-> o, entry |-> d, todo |-> todo]
<1>1. d \in Entry /\ d.user = e.user /\ d.content = e.content /\ d.state = e.state
  BY DEF Entry
<1>2. Pending(d) /\ StillOpen(o, d)'
  BY <1>1, EntriesAssumption DEF Pending, StillOpen
<1>3. r \in Request /\ req' = [req EXCEPT ![k] = r]
  BY <1>1, RequestShapes DEF Deliver, Continue
<1>4. req' \in [Slot -> Request] /\ req'[k] = r /\ \A j \in Slot \ {k} : req'[j] = req[j]
  BY <1>3 DEF RelayTypeOK
<1> HIDE DEF d
<1>5. SlotOK(k)'
  BY <1>2, <1>4 DEF SlotOK, Inside
<1> QED
  BY <1>4, <1>5, OthersAreOutside DEF RelayTypeOK

\* It goes on with a submission of a new operation.
LEMMA SubmissionKeeps ==
    ASSUME RelayTypeOK, \A j \in Slot : SlotOK(j), NEW k \in Slot, Inside(k), UNCHANGED gate,
           NEW p \in {"verify", "save"}, Wait(k, p),
           req[k].pc \in SubmitPc, req[k].kind = "submit",
           relay'[req[k].op] = None,
           p = "save" /\ req[k].content \in WithArtifact => artifact'
    PROVE  /\ req' \in [Slot -> Request]
           /\ gate' \in Seq(Slot)
           /\ \A j \in Slot : SlotOK(j)'
<1> DEFINE r == [req[k] EXCEPT !.pc = p]
<1>0. req[k] \in Request /\ p \in SubmitPc
  BY DEF RelayTypeOK, SubmitPc
<1>1. r \in Request /\ r.pc = p /\ r.op = req[k].op /\ r.content = req[k].content
  BY <1>0, SubmissionGoesOn
<1>2. req' \in [Slot -> Request] /\ req'[k] = r /\ \A j \in Slot \ {k} : req'[j] = req[j]
  BY <1>1 DEF RelayTypeOK, Wait, Continue
<1> HIDE DEF r
<1>3. SlotOK(k)'
  BY <1>1, <1>2 DEF SlotOK, Inside
<1> QED
  BY <1>2, <1>3, OthersAreOutside DEF RelayTypeOK

LEMMA AdmitKeeps ==
    ASSUME RelayInv, refused \subseteq refused', NEW k \in Slot, Admit(k)
    PROVE  RelayInv'
<1> USE DEF RelayInv
<1> DEFINE r == req[k]
<1>0. r \in Request /\ r.pc \in SubmitPc /\ r.kind = "submit" /\ r.op \in Op
  BY RequestFields DEF Admit, Serving, SubmitPc, RelayTypeOK
<1> PICK o \in Op : o = r.op
  BY <1>0
<1> PICK e \in Entry \union {None} : e = relay[o]
  BY DEF RelayTypeOK
<1>1. Inside(k) /\ UNCHANGED <<relay, cleaned, upstream, artifact>>
  BY DEF Admit, upstreamVars, relayVars
<1>2. \A x \in Op : RelayOK(x)'
  BY <1>1 DEF RelayOK, IsTrue, Pending
<1>3. /\ req' \in [Slot -> Request] /\ gate' \in Seq(Slot)
      /\ \A j \in Slot : SlotOK(j)'
  <2>1. CASE e = None /\ Wait(k, "verify") /\ UNCHANGED gate
    BY <1>0, <1>1, <2>1, SubmissionKeeps
  <2>2. CASE e = None /\ r.content \notin WithArtifact /\ Wait(k, "save") /\ UNCHANGED gate
    BY <1>0, <1>1, <2>2, SubmissionKeeps
  <2>3. CASE e # None /\ Pending(e) /\ Deliver(k, o, e, {}) /\ UNCHANGED gate
    <3>1. e \in Entry
      BY <1>1, <2>3
    <3>2. StillOpen(o, e)'
      BY <1>1, <2>3 DEF StillOpen
    <3>3. {} \in SUBSET (Op \X Entry) /\ RelayTypeOK /\ \A j \in Slot : SlotOK(j)
      OBVIOUS
    <3> HIDE DEF RelayInv
    <3> QED
      BY <1>1, <2>3, <3>1, <3>2, <3>3, DeliverKeeps
  <2>4. CASE Return(k)
    BY <1>1, <2>4, ReturnKeeps
  <2> QED
    BY <2>1, <2>2, <2>3, <2>4 DEF Admit
<1> QED
  BY <1>1, <1>2, <1>3 DEF RelayTypeOK

LEMMA PollKeeps ==
    ASSUME RelayInv, refused \subseteq refused', NEW k \in Slot, Poll(k)
    PROVE  RelayInv'
<1> USE DEF RelayInv
<1>0. req[k] \in Request /\ req[k].op \in Op
  BY RequestFields DEF Poll, Serving, RelayTypeOK
<1> PICK o \in Op : o = req[k].op
  BY <1>0
<1> PICK e \in Entry \union {None} : e = relay[o]
  BY DEF RelayTypeOK
<1>1. Inside(k) /\ UNCHANGED <<relay, cleaned, upstream, artifact>>
  BY DEF Poll, upstreamVars, relayVars
<1>2. \A x \in Op : RelayOK(x)'
  BY <1>1 DEF RelayOK, IsTrue, Pending
<1>3. /\ req' \in [Slot -> Request] /\ gate' \in Seq(Slot)
      /\ \A j \in Slot : SlotOK(j)'
  <2>1. CASE e # None /\ Pending(e) /\ Deliver(k, o, e, {}) /\ UNCHANGED gate
    <3>1. e \in Entry
      BY <1>1, <2>1
    <3>2. StillOpen(o, e)'
      BY <1>1, <2>1 DEF StillOpen
    <3>3. {} \in SUBSET (Op \X Entry) /\ RelayTypeOK /\ \A j \in Slot : SlotOK(j)
      OBVIOUS
    <3> HIDE DEF RelayInv
    <3> QED
      BY <1>1, <2>1, <3>1, <3>2, <3>3, DeliverKeeps
  <2>2. CASE Return(k)
    BY <1>1, <2>2, ReturnKeeps
  <2> QED
    BY <2>1, <2>2 DEF Poll, DeliversOnPoll, Pending
<1> QED
  BY <1>1, <1>2, <1>3 DEF RelayTypeOK

LEMMA PassKeeps ==
    ASSUME RelayInv, refused \subseteq refused', NEW k \in Slot, Pass(k)
    PROVE  RelayInv'
<1> USE DEF RelayInv
<1>1. Inside(k) /\ UNCHANGED <<relay, cleaned, upstream, artifact>>
  BY DEF Pass, upstreamVars, relayVars
<1>2. \A x \in Op : RelayOK(x)'
  BY <1>1 DEF RelayOK, IsTrue, Pending
<1>3. /\ req' \in [Slot -> Request] /\ gate' \in Seq(Slot)
      /\ \A j \in Slot : SlotOK(j)'
  <2>1. CASE Return(k)
    BY <1>1, <2>1, ReturnKeeps
  <2>2. ASSUME NEW next \in Due, Deliver(k, next[1], next[2], Due \ {next}), UNCHANGED gate
        PROVE  <1>3
    <3> DEFINE todo == Due \ {next}
    <3>1. /\ Due \in SUBSET (Op \X Entry)
          /\ \A x \in Due : x[2] = relay[x[1]] /\ Pending(relay[x[1]])
          /\ \A x, y \in Due : x[1] = y[1] => x = y
      BY DueEntries DEF RelayTypeOK
    <3>2. \A x \in Due : Pending(x[2]) /\ StillOpen(x[1], x[2])'
      BY <1>1, <3>1 DEF StillOpen, Pending
    <3>3. next[1] \in Op /\ next[2] \in Entry /\ todo \in SUBSET (Op \X Entry)
      BY <3>1
    <3>4. \A x \in todo : x[1] # next[1] /\ Pending(x[2]) /\ StillOpen(x[1], x[2])'
      BY <3>1, <3>2
    <3>5. \A x, y \in todo : x[1] = y[1] => x = y
      BY <3>1
    <3>6. Pending(next[2]) /\ StillOpen(next[1], next[2])'
      BY <3>2
    <3>7. RelayTypeOK /\ \A j \in Slot : SlotOK(j)
      OBVIOUS
    <3>8. Deliver(k, next[1], next[2], todo)
      BY <2>2
    <3> HIDE DEF todo, RelayInv
    <3> QED
      BY <1>1, <2>2, <3>3, <3>4, <3>5, <3>6, <3>7, <3>8, DeliverKeeps
  <2> QED
    BY <2>1, <2>2 DEF Pass
<1> QED
  BY <1>1, <1>2, <1>3 DEF RelayTypeOK

LEMMA VerifyKeeps ==
    ASSUME RelayInv, refused \subseteq refused', NEW k \in Slot, Verify(k)
    PROVE  RelayInv'
<1> USE DEF RelayInv
<1> DEFINE r == req[k]
<1>1. /\ r \in Request /\ r.pc \in SubmitPc /\ r.kind = "submit" /\ Inside(k)
      /\ relay[r.op] = None
      /\ UNCHANGED <<relay, cleaned, upstream, artifact>>
  BY RequestFields DEF Verify, Serving, SubmitPc, InsideGate, SlotOK, RelayTypeOK,
     upstreamVars, relayVars
<1>2. \A x \in Op : RelayOK(x)'
  BY <1>1 DEF RelayOK, IsTrue, Pending
<1>3. /\ req' \in [Slot -> Request] /\ gate' \in Seq(Slot)
      /\ \A j \in Slot : SlotOK(j)'
  <2>1. CASE artifact /\ Wait(k, "save") /\ UNCHANGED gate
    <3>1. relay'[req[k].op] = None /\ artifact'
      BY <1>1, <2>1
    <3> QED
      BY <1>1, <2>1, <3>1, SubmissionKeeps
  <2>2. CASE Return(k)
    BY <1>1, <2>2, ReturnKeeps
  <2> QED
    BY <2>1, <2>2 DEF Verify, Verified
<1> QED
  BY <1>1, <1>2, <1>3 DEF RelayTypeOK

\* The new entry is open and says nothing untrue.
LEMMA SaveRelayKeeps ==
    ASSUME RelayInv, refused \subseteq refused', NEW k \in Slot, SaveRelay(k)
    PROVE  RelayInv'
<1> USE DEF RelayInv
<1> DEFINE r == req[k]
           new == [user |-> r.user, content |-> r.content, state |-> "relay-durable",
                   deferred |-> FALSE, expired |-> FALSE]
<1>0. r \in Request /\ r.op \in Op /\ r.user \in Principal /\ r.content \in Content
  BY RequestFields DEF SaveRelay, Serving, SubmitPc, RelayTypeOK
<1>00. new \in Entry
  BY <1>0 DEF Entry
<1> PICK o \in Op : o = r.op
  BY <1>0
<1> PICK e \in Entry : e = new
  BY <1>00
<1>1. /\ Inside(k) /\ relay[o] = None
      /\ r.content \in WithArtifact => artifact
      /\ UNCHANGED <<cleaned, upstream, artifact, gate>>
  BY DEF SaveRelay, Serving, InsideGate, SlotOK, upstreamVars
<1>2. relay' = [relay EXCEPT ![o] = e] /\ Deliver(k, o, e, {})
  BY DEF SaveRelay, Record
<1>3. e.state = "relay-durable" /\ e.content = r.content
  OBVIOUS
<1> HIDE DEF new
<1>4. Pending(e) /\ e # None
  BY <1>3, EntriesAssumption DEF Pending, Terminal
<1>5. relay' \in [Op -> Entry \union {None}] /\ relay'[o] = e
      /\ \A x \in Op \ {o} : relay'[x] = relay[x]
  BY <1>1, <1>2, <1>3 DEF RelayTypeOK
<1>6. StillOpen(o, e)'
  BY <1>4, <1>5 DEF StillOpen
<1>7. \A x \in Op : RelayOK(x)'
  <2>1. RelayOK(o)'
    <3>1. o \notin cleaned' => upstream'[o] = None
      BY <1>1 DEF RelayOK
    <3>2. IsTrue(o, relay[o])'
      BY <1>4, <1>5 DEF IsTrue, Pending
    <3> QED
      BY <1>1, <1>3, <1>5, <3>1, <3>2 DEF RelayOK
  <2>2. ASSUME NEW x \in Op \ {o}
        PROVE  RelayOK(x)'
    BY <1>1, <1>5 DEF RelayOK, IsTrue, Pending
  <2> QED
    BY <2>1, <2>2
<1>8. /\ req' \in [Slot -> Request] /\ gate' \in Seq(Slot)
      /\ \A j \in Slot : SlotOK(j)'
  <2>1. {} \in SUBSET (Op \X Entry) /\ RelayTypeOK /\ \A j \in Slot : SlotOK(j)
    OBVIOUS
  <2> HIDE DEF RelayInv
  <2> QED
    BY <1>1, <1>2, <1>3, <1>4, <1>6, <2>1, DeliverKeeps
<1> QED
  BY <1>1, <1>5, <1>7, <1>8 DEF RelayTypeOK

\* What the upstream has of the operation after it has received it.
LEMMA ReceivedLedger ==
    ASSUME upstream \in [Op -> LedgerEntry \union {None}], NEW o \in Op, NEW c \in Content,
           NEW ledger \in Received(o, c)
    PROVE  /\ ledger \in [Op -> LedgerEntry \union {None}]
           /\ ledger[o] # None
           /\ upstream[o] = None => ledger[o].content = c
           /\ upstream[o] # None => ledger = upstream
           /\ \A x \in Op \ {o} : ledger[x] = upstream[x]
           /\ Answered(ledger, o, c) \in State
           /\ ledger[o].content = c => Answered(ledger, o, c) = ledger[o].result
           /\ ledger[o].content # c => Answered(ledger, o, c) = "rejected"
<1>1. ASSUME NEW s \in State
      PROVE  [content |-> c, result |-> s] \in LedgerEntry
  BY DEF LedgerEntry
<1>2. CASE upstream[o] # None
  <2>1. ledger = upstream /\ ledger[o] \in LedgerEntry
    BY <1>2 DEF Received
  <2> QED
    BY <1>2, <2>1 DEF Answered, LedgerEntry, State, Terminal
<1>3. CASE upstream[o] = None
  <2>1. PICK s \in State : ledger = [upstream EXCEPT ![o] = [content |-> c, result |-> s]]
    BY <1>3 DEF Received
  <2>2. ledger[o] = [content |-> c, result |-> s] /\ ledger[o] \in LedgerEntry
    BY <1>1, <2>1
  <2>3. ledger[o] # None
    BY <2>2, EntriesAssumption
  <2> QED
    BY <1>1, <1>3, <2>1, <2>2, <2>3 DEF Answered
<1> QED
  BY <1>2, <1>3

\* The status that a delivery leaves in the entry in memory.
LEMMA OutcomeKeeps ==
    ASSUME RelayTypeOK, \A j \in Slot : SlotOK(j), NEW k \in Slot, Serving(k, "post"),
           UNCHANGED <<relay, gate>>, NEW s \in State, Outcome(k, s),
           s \in Terminal =>
             \/ /\ upstream'[req[k].op] # None
                /\ upstream'[req[k].op].content = req[k].entry.content
                /\ upstream'[req[k].op].result = s
             \/ /\ s = "rejected"
                /\ \/ /\ upstream'[req[k].op] # None
                      /\ upstream'[req[k].op].content # req[k].entry.content
                   \/ req[k].op \in refused'
    PROVE  /\ req' \in [Slot -> Request]
           /\ gate' \in Seq(Slot)
           /\ \A j \in Slot : SlotOK(j)'
<1>00. /\ req[k] \in Request /\ req[k].pc = "post"
       /\ req[k].op \in Op /\ req[k].entry \in Entry /\ req[k].todo \in SUBSET (Op \X Entry)
  BY RequestFields DEF RelayTypeOK, Serving
<1> PICK o \in Op : o = req[k].op
  BY <1>00
<1> PICK e \in Entry : e = req[k].entry
  BY <1>00
<1> PICK todo \in SUBSET (Op \X Entry) : todo = req[k].todo
  BY <1>00
<1> DEFINE d == [e EXCEPT !.state = s, !.deferred = s \notin Terminal]
           r == [req[k] EXCEPT !.pc = "persist", !.entry = d]
<1>0. /\ Inside(k) /\ StillOpen(o, e) /\ Pending(e)
      /\ \A x \in todo : x[1] # o /\ Pending(x[2]) /\ StillOpen(x[1], x[2])
      /\ \A x, y \in todo : x[1] = y[1] => x = y
  BY <1>00 DEF SlotOK, InsideGate
<1>1. /\ d \in Entry /\ d.user = e.user /\ d.content = e.content /\ d.state = s
  <2>1. e.state = "relay-durable" /\ e.expired = FALSE
    BY <1>0, EntryFields DEF Pending
  <2>2. s \in Terminal \/ s = "relay-durable"
    BY DEF State
  <2> QED
    BY <1>0, <2>1, <2>2 DEF Entry
<1>2. /\ r \in Request /\ req' = [req EXCEPT ![k] = r]
      /\ r.pc = "persist" /\ r.op = o /\ r.entry = d /\ r.todo = todo
  BY <1>00, <1>1 DEF Request, Outcome, Continue
<1> HIDE DEF d, r
<1>3. req' \in [Slot -> Request] /\ req'[k] = r /\ \A j \in Slot \ {k} : req'[j] = req[j]
  BY <1>2 DEF RelayTypeOK
<1>4. SlotOK(k)'
  <2>1. Inside(k)' /\ StillOpen(o, d)'
    BY <1>0, <1>1 DEF Inside, StillOpen
  <2>2. \A x \in todo : x[1] # o /\ Pending(x[2]) /\ StillOpen(x[1], x[2])'
    BY <1>0 DEF StillOpen
  <2>3. IsTrue(o, d)'
    BY <1>1, EntriesAssumption DEF IsTrue, Pending
  <2> QED
    BY <1>0, <1>2, <1>3, <2>1, <2>2, <2>3 DEF SlotOK
<1> QED
  BY <1>0, <1>3, <1>4, OthersAreOutside DEF RelayTypeOK

LEMMA PostKeeps ==
    ASSUME RelayInv, DelegationTypeOK, refused \subseteq refused', NEW k \in Slot, Post(k)
    PROVE  RelayInv'
<1> USE DEF RelayInv
<1> DEFINE o == req[k].op
           c == req[k].entry.content
<1>1. /\ o \in Op /\ req[k].entry \in Entry /\ c \in Content /\ Inside(k)
      /\ Serving(k, "post") /\ relay[o] # None /\ relay[o].content = c
      /\ UNCHANGED <<relay, cleaned, artifact, gate>>
  BY RequestFields, EntryFields DEF Post, Serving, RelayTypeOK, SlotOK, InsideGate, StillOpen,
     relayVars
<1>2. /\ upstream' \in [Op -> LedgerEntry \union {None}]
      /\ \A x \in Op \ {o} : upstream'[x] = upstream[x]
      /\ upstream[o] # None => upstream'[o] = upstream[o]
      /\ upstream[o] = None /\ upstream'[o] # None => upstream'[o].content = c
      /\ \E s \in State :
           /\ Outcome(k, s)
           /\ s \in Terminal =>
                \/ /\ upstream'[o] # None
                   /\ upstream'[o].content = c
                   /\ upstream'[o].result = s
                \/ /\ s = "rejected"
                   /\ \/ upstream'[o] # None /\ upstream'[o].content # c
                      \/ o \in refused'
  <2>0. "rejected" \in State /\ AfterNoAnswer \in State /\ AfterNoAnswer \notin Terminal
    BY DEF State, Terminal, AfterNoAnswer
  <2>1. ASSUME NEW ledger \in Received(o, c), upstream' = ledger, Outcome(k, Answered(ledger, o, c))
        PROVE  <1>2
    <3>1. upstream \in [Op -> LedgerEntry \union {None}]
      BY DEF RelayTypeOK
    <3>2. /\ ledger \in [Op -> LedgerEntry \union {None}]
          /\ ledger[o] # None
          /\ upstream[o] = None => ledger[o].content = c
          /\ upstream[o] # None => ledger = upstream
          /\ \A x \in Op \ {o} : ledger[x] = upstream[x]
          /\ Answered(ledger, o, c) \in State
          /\ ledger[o].content = c => Answered(ledger, o, c) = ledger[o].result
          /\ ledger[o].content # c => Answered(ledger, o, c) = "rejected"
      BY <1>1, <3>1, ReceivedLedger
    <3> HIDE DEF c, o, RelayInv
    <3> QED
      BY <2>1, <3>2
  <2>2. ASSUME NEW ledger \in Received(o, c), upstream' = ledger, Outcome(k, AfterNoAnswer)
        PROVE  <1>2
    <3>1. upstream \in [Op -> LedgerEntry \union {None}]
      BY DEF RelayTypeOK
    <3>2. /\ ledger \in [Op -> LedgerEntry \union {None}]
          /\ upstream[o] = None => ledger[o].content = c
          /\ upstream[o] # None => ledger = upstream
          /\ \A x \in Op \ {o} : ledger[x] = upstream[x]
      BY <1>1, <3>1, ReceivedLedger
    <3> HIDE DEF c, o, RelayInv
    <3> QED
      BY <2>0, <2>2, <3>2
  <2>3. ASSUME Outcome(k, AfterNoAnswer), UNCHANGED upstream
        PROVE  <1>2
    BY <2>0, <2>3 DEF RelayTypeOK
  <2>4. ASSUME Requested(k, "refused"), Outcome(k, "rejected"), UNCHANGED upstream,
               refused' = refused \union {o}
        PROVE  <1>2
    BY <2>0, <2>4 DEF RelayTypeOK
  <2> QED
    BY <2>1, <2>2, <2>3, <2>4 DEF Post
<1>3. /\ req' \in [Slot -> Request] /\ gate' \in Seq(Slot)
      /\ \A j \in Slot : SlotOK(j)'
  BY <1>1, <1>2, OutcomeKeeps
<1>4. ASSUME NEW x \in Op
      PROVE  RelayOK(x)'
  <2>1. CASE x # o
    BY <1>1, <1>2, <2>1 DEF RelayOK, IsTrue, Pending
  <2>2. CASE x = o /\ upstream[o] # None
    BY <1>1, <1>2, <2>2 DEF RelayOK, IsTrue, Pending
  <2>3. CASE x = o /\ upstream[o] = None
    <3>1. Pending(relay[o])
      BY <1>1 DEF SlotOK, StillOpen, Serving
    <3> HIDE DEF c, o
    <3> QED
      BY <1>1, <1>2, <2>3, <3>1 DEF RelayOK, IsTrue, Pending
  <2> QED
    BY <2>1, <2>2, <2>3
<1> QED
  BY <1>1, <1>2, <1>3, <1>4 DEF RelayTypeOK

\* The entry that is stored is the one the request may rely on.
LEMMA PersistKeeps ==
    ASSUME RelayInv, refused \subseteq refused', NEW k \in Slot, Persist(k)
    PROVE  RelayInv'
<1> USE DEF RelayInv
<1> DEFINE o == req[k].op
           e == req[k].entry
           todo == req[k].todo
<1>1. /\ o \in Op /\ e \in Entry /\ todo \in SUBSET (Op \X Entry) /\ Inside(k)
      /\ relay[o] # None /\ Pending(relay[o]) /\ relay[o].content = e.content
      /\ IsTrue(o, e)
      /\ \A x \in todo : x[1] # o /\ Pending(x[2]) /\ StillOpen(x[1], x[2])
      /\ \A x, y \in todo : x[1] = y[1] => x = y
      /\ UNCHANGED <<cleaned, upstream, artifact>>
      /\ relay' = [relay EXCEPT ![o] = e]
  BY RequestFields DEF Persist, Serving, RelayTypeOK, SlotOK, InsideGate, StillOpen, upstreamVars
<1>2. /\ relay' \in [Op -> Entry \union {None}] /\ relay'[o] = e /\ e # None
      /\ \A x \in Op \ {o} : relay'[x] = relay[x]
  BY <1>1, EntryFields DEF RelayTypeOK
<1>3. ASSUME NEW x \in Op
      PROVE  RelayOK(x)'
  <2>1. CASE x # o
    BY <1>1, <1>2, <2>1 DEF RelayOK, IsTrue, Pending
  <2>2. CASE x = o
    BY <1>1, <1>2, <2>2 DEF RelayOK, IsTrue, Pending
  <2> QED
    BY <2>1, <2>2
<1>4. /\ req' \in [Slot -> Request] /\ gate' \in Seq(Slot)
      /\ \A j \in Slot : SlotOK(j)'
  <2>1. CASE Return(k)
    BY <1>1, <2>1, ReturnKeeps
  <2>2. ASSUME NEW next \in todo, Deliver(k, next[1], next[2], todo \ {next}), UNCHANGED gate
        PROVE  <1>4
    <3> DEFINE rest == todo \ {next}
    <3>1. \A x \in todo : StillOpen(x[1], x[2])'
      BY <1>1, <1>2 DEF StillOpen
    <3>2. next[1] \in Op /\ next[2] \in Entry /\ rest \in SUBSET (Op \X Entry)
      BY <1>1
    <3>3. \A x \in rest : x[1] # next[1] /\ Pending(x[2]) /\ StillOpen(x[1], x[2])'
      BY <1>1, <3>1
    <3>4. \A x, y \in rest : x[1] = y[1] => x = y
      BY <1>1
    <3>5. Pending(next[2]) /\ StillOpen(next[1], next[2])'
      BY <1>1, <3>1
    <3>6. RelayTypeOK /\ (\A j \in Slot : SlotOK(j)) /\ Deliver(k, next[1], next[2], rest)
      BY <2>2
    <3> HIDE DEF rest, RelayInv, todo, o, e
    <3> QED
      BY <1>1, <2>2, <3>2, <3>3, <3>4, <3>5, <3>6, DeliverKeeps
  <2> QED
    BY <2>1, <2>2 DEF Persist
<1> QED
  BY <1>1, <1>2, <1>3, <1>4 DEF RelayTypeOK

-----------------------------------------------------------------------------
(***************************************************************************)
(* The steps that are not a request's.                                     *)
(***************************************************************************)
\* A relay that is pending stays so, one that is not there does not appear,
\* and the upstream does not go back on what it has settled.
LEMMA BackgroundKeeps ==
    ASSUME RelayInv, refused \subseteq refused', UNCHANGED <<gate, req>>,
           relay' \in [Op -> Entry \union {None}],
           upstream' \in [Op -> LedgerEntry \union {None}],
           artifact' \in BOOLEAN, artifact => artifact', cleaned' \subseteq Op,
           \A o \in Op :
             /\ relay[o] = None => relay'[o] = None
             /\ relay[o] # None /\ Pending(relay[o]) =>
                  /\ relay'[o] # None /\ Pending(relay'[o])
                  /\ relay'[o].user = relay[o].user /\ relay'[o].content = relay[o].content
             /\ upstream[o] # None =>
                  /\ upstream'[o] # None /\ upstream'[o].content = upstream[o].content
                  /\ upstream[o].result \in Terminal => upstream'[o].result = upstream[o].result,
           \A o \in Op : RelayOK(o)'
    PROVE  RelayInv'
<1> USE DEF RelayInv, RelayTypeOK
<1>1. ASSUME NEW k \in Slot
      PROVE  SlotOK(k)'
  <2>0. req[k] \in Request /\ req'[k] = req[k] /\ (Inside(k) => Inside(k)') /\ SlotOK(k)
    BY DEF Inside
  <2>1. CASE req[k].pc \in {"verify", "save"}
    <3>1. req[k].op \in Op
      BY <2>0, <2>1, RequestFields DEF SubmitPc
    <3> QED
      BY <2>0, <2>1, <3>1 DEF SlotOK, InsideGate
  <2>2. CASE req[k].pc \in {"post", "persist"}
    <3> PICK o \in Op : o = req[k].op
      BY <2>0, <2>2, RequestFields
    <3> PICK e \in Entry : e = req[k].entry
      BY <2>0, <2>2, RequestFields
    <3> PICK todo \in SUBSET (Op \X Entry) : todo = req[k].todo
      BY <2>0, <2>2, RequestFields
    <3>1. StillOpen(o, e) /\ StillOpen(o, e)'
      BY <2>0, <2>2 DEF SlotOK, StillOpen
    <3>2. \A x \in todo : x[1] # o /\ Pending(x[2]) /\ StillOpen(x[1], x[2])'
      BY <2>0, <2>2 DEF SlotOK, StillOpen
    <3>3. \A x, y \in todo : x[1] = y[1] => x = y
      BY <2>0, <2>2 DEF SlotOK
    <3>4. IsTrue(o, e) => IsTrue(o, e)'
      BY EntryFields DEF IsTrue, Pending
    <3>5. (req[k].pc = "post" => Pending(e)) /\ (req[k].pc = "persist" => IsTrue(o, e))
      BY <2>0, <2>2 DEF SlotOK
    <3> QED
      BY <2>0, <2>2, <3>1, <3>2, <3>3, <3>4, <3>5 DEF SlotOK, InsideGate
  <2>3. CASE req[k].pc \notin InsideGate
    BY <2>0, <2>3 DEF SlotOK, InsideGate
  <2> QED
    BY <2>1, <2>2, <2>3 DEF InsideGate
<1> QED
  BY <1>1

\* Steps that are about something else.
LEMMA FrameKeeps ==
    ASSUME RelayInv, refused \subseteq refused',
           UNCHANGED <<relay, cleaned, upstream, artifact, gate, req>>
    PROVE  RelayInv'
<1>1. \A o \in Op : RelayOK(o)'
  BY DEF RelayInv, RelayOK, IsTrue, Pending
<1> QED
  BY <1>1, BackgroundKeeps DEF RelayInv, RelayTypeOK

\* Only what is settled is removed.
LEMMA CleanupKeeps ==
    ASSUME RelayInv, Cleanup
    PROVE  RelayInv'
<1> USE DEF RelayInv, RelayTypeOK
<1> DEFINE gone == {o \in Op : Removable(relay[o])}
<1>1. /\ relay' = [o \in Op |-> IF o \in gone THEN None ELSE relay[o]]
      /\ cleaned' = cleaned \union gone
      /\ UNCHANGED <<faults, upstream, artifact, refused, gate, req>>
  BY DEF Cleanup, delegationVars, upstreamVars
<1>2. \A o \in gone : ~Pending(relay[o])
  BY DEF Removable, Pending
<1>3. ASSUME NEW o \in Op
      PROVE  RelayOK(o)'
  BY <1>1 DEF RelayOK, IsTrue, Pending
<1>4. refused \subseteq refused'
  BY <1>1
<1> QED
  BY <1>1, <1>2, <1>3, <1>4, BackgroundKeeps

LEMMA ClockKeeps ==
    ASSUME RelayInv, refused \subseteq refused', Clock
    PROVE  RelayInv'
<1> USE DEF RelayInv, RelayTypeOK
<1>1. CASE UNCHANGED <<delegatedOnly, req>>
  BY <1>1, FrameKeeps DEF delegatedOnly, upstreamVars, relayVars
<1>2. ASSUME NEW o \in Op, UNCHANGED <<upstream, artifact, refused, cleaned, gate, req>>,
             relay[o] # None,
             \/ Pending(relay[o]) /\ relay' = [relay EXCEPT ![o].deferred = FALSE]
             \/ ~Pending(relay[o]) /\ relay' = [relay EXCEPT ![o].expired = TRUE]
      PROVE  RelayInv'
  <2>0. relay[o] \in Entry
    BY <1>2
  <2>1. /\ relay'[o] \in Entry /\ relay'[o].user = relay[o].user
        /\ relay'[o].content = relay[o].content /\ relay'[o].state = relay[o].state
        /\ \A x \in Op \ {o} : relay'[x] = relay[x]
        /\ relay' = [relay EXCEPT ![o] = relay'[o]]
    <3>1. CASE Pending(relay[o]) /\ relay' = [relay EXCEPT ![o].deferred = FALSE]
      BY <2>0, <3>1 DEF Entry
    <3>2. CASE ~Pending(relay[o]) /\ relay' = [relay EXCEPT ![o].expired = TRUE]
      <4>1. relay[o].state \in Terminal
        BY <1>2, <3>2 DEF Pending
      <4> QED
        BY <2>0, <3>2, <4>1, EntryFields DEF Entry
    <3> QED
      BY <1>2, <3>1, <3>2
  <2>2. relay' \in [Op -> Entry \union {None}] /\ relay'[o] # None
    BY <2>1, EntriesAssumption
  <2>3. ASSUME NEW x \in Op
        PROVE  RelayOK(x)'
    <3>1. CASE x = o
      BY <1>2, <2>1, <2>2, <3>1 DEF RelayOK, IsTrue, Pending
    <3>2. CASE x # o
      BY <1>2, <2>1, <3>2 DEF RelayOK, IsTrue, Pending
    <3> QED
      BY <3>1, <3>2
  <2>4. \A x \in Op :
          /\ relay[x] = None => relay'[x] = None
          /\ relay[x] # None /\ Pending(relay[x]) =>
               /\ relay'[x] # None /\ Pending(relay'[x])
               /\ relay'[x].user = relay[x].user /\ relay'[x].content = relay[x].content
    BY <1>2, <2>1, <2>2 DEF Pending
  <2> QED
    BY <1>2, <2>2, <2>3, <2>4, BackgroundKeeps
<1> QED
  BY <1>1, <1>2 DEF Clock, Pending, delegationVars, upstreamVars

LEMMA UpstreamStepKeeps ==
    ASSUME RelayInv, refused \subseteq refused', UpstreamStep
    PROVE  RelayInv'
<1> USE DEF RelayInv, RelayTypeOK
<1>1. ASSUME NEW o \in Op, UpstreamSettles(o)
      PROVE  RelayInv'
  <2>0. upstream[o] \in LedgerEntry /\ upstream[o].result \notin Terminal
    BY <1>1 DEF UpstreamSettles
  <2>1. PICK s \in Terminal : upstream' = [upstream EXCEPT ![o].result = s]
    BY <1>1 DEF UpstreamSettles
  <2>2. /\ upstream'[o] \in LedgerEntry /\ upstream'[o].content = upstream[o].content
        /\ \A x \in Op \ {o} : upstream'[x] = upstream[x]
        /\ upstream' = [upstream EXCEPT ![o] = upstream'[o]]
    BY <2>0, <2>1 DEF LedgerEntry, State
  <2>3. upstream' \in [Op -> LedgerEntry \union {None}] /\ upstream'[o] # None
    BY <2>2, EntriesAssumption
  <2>4. UNCHANGED <<faults, artifact, relay, cleaned, gate, req>>
    BY <1>1 DEF UpstreamSettles, delegationVars, relayVars
  <2>5. ASSUME NEW x \in Op
        PROVE  RelayOK(x)'
    <3>1. CASE x = o
      <4>1. upstream[o] # None
        BY <1>1 DEF UpstreamSettles
      <4>2. relay[o] # None /\ ~Pending(relay[o]) => relay[o].state \in Terminal
        BY DEF Pending
      <4>3. RelayOK(o)
        OBVIOUS
      <4>4. relay[o] # None => IsTrue(o, relay[o])'
        BY <2>0, <2>2, <2>3, <2>4, <4>1, <4>2, <4>3 DEF RelayOK, IsTrue, Pending
      <4> QED
        BY <2>2, <2>3, <2>4, <3>1, <4>1, <4>3, <4>4 DEF RelayOK
    <3>2. CASE x # o
      BY <2>2, <2>4, <3>2 DEF RelayOK, IsTrue, Pending
    <3> QED
      BY <3>1, <3>2
  <2> QED
    BY <2>0, <2>2, <2>3, <2>4, <2>5, BackgroundKeeps
<1>2. ASSUME artifact', UNCHANGED <<faults, upstream, relay, cleaned, gate, req>>
      PROVE  RelayInv'
  <2>1. \A o \in Op : RelayOK(o)'
    BY <1>2 DEF RelayOK, IsTrue, Pending
  <2> QED
    BY <1>2, <2>1, BackgroundKeeps
<1>3. CASE UNCHANGED <<relay, cleaned, upstream, artifact, gate, req>>
  BY <1>3, FrameKeeps
<1> QED
  BY <1>1, <1>2, <1>3 DEF UpstreamStep, delegationVars, relayVars

\* A restart forgets the requests that were under way.
LEMMA CrashKeeps ==
    ASSUME RelayInv, refused \subseteq refused', Crash
    PROVE  RelayInv'
<1> USE DEF RelayInv, RelayTypeOK
<1>1. /\ req' = [k \in Slot |-> [pc |-> "idle"]] /\ gate' = <<>>
      /\ UNCHANGED <<relay, cleaned, upstream, artifact>>
  BY DEF Crash, upstreamVars, relayVars
<1>2. req' \in [Slot -> Request] /\ gate' \in Seq(Slot)
  BY <1>1, RequestShapes
<1>3. \A k \in Slot : SlotOK(k)'
  BY <1>1 DEF SlotOK, InsideGate
<1>4. \A o \in Op : RelayOK(o)'
  BY <1>1 DEF RelayOK, IsTrue, Pending
<1> QED
  BY <1>1, <1>2, <1>3, <1>4

-----------------------------------------------------------------------------
(***************************************************************************)
(* The invariant holds.                                                    *)
(***************************************************************************)
LEMMA RelayInvNext ==
    ASSUME TypeOK, RelayInv, [Next]_vars
    PROVE  RelayInv'
<1>0. refused \subseteq refused'
  BY RefusedStays DEF TypeOK
<1>00. version \in Nat /\ RelayTypeOK /\ DelegationTypeOK /\ setting \in Setting
  <2>1. DelegationTypeOK /\ setting \in Setting /\ version \in 0..MaxVersion[setting]
    BY DEF TypeOK, DelegationTypeOK
  <2>2. MaxVersion[setting] \in Nat
    BY <2>1, LimitsAssumption
  <2> QED
    BY <2>1, <2>2 DEF RelayInv
<1>1. ASSUME NEW k \in Slot, HandlerStep(k)
      PROVE  RelayInv'
  <2>1. CASE TokenRequest(k)
    BY <1>0, <2>1, FrameKeeps DEF TokenRequest, delegatedOnly, upstreamVars, relayVars
  <2>2. CASE Read(k) \/ Fill(k) \/ List(k) \/ Authorized(k)
    BY <1>0, <1>00, <2>2, OutsideSteps, OutsideKeeps
  <2>3. CASE Admit(k)
    BY <1>0, <2>3, AdmitKeeps
  <2>4. CASE Verify(k)
    BY <1>0, <2>4, VerifyKeeps
  <2>5. CASE SaveRelay(k)
    BY <1>0, <2>5, SaveRelayKeeps
  <2>6. CASE Post(k)
    BY <1>0, <1>00, <2>6, PostKeeps
  <2>7. CASE Persist(k)
    BY <1>0, <2>7, PersistKeeps
  <2>8. CASE Poll(k)
    BY <1>0, <2>8, PollKeeps
  <2>9. CASE Pass(k)
    BY <1>0, <2>9, PassKeeps
  <2> QED
    BY <1>1, <2>1, <2>2, <2>3, <2>4, <2>5, <2>6, <2>7, <2>8, <2>9 DEF HandlerStep
<1>2. Submitted[setting] \subseteq Op \X Content /\ OpInUse \subseteq Op
  <2>1. /\ Submitted[setting] \in SUBSET (Op \X Content)
        /\ Earlier[setting] \in SUBSET (Op \X (Content \ WithArtifact))
    BY <1>00, LimitsAssumption
  <2> QED
    BY <2>1 DEF OpInUse
<1>3. ASSUME NEW k \in Slot, ClientStep(k)
      PROVE  RelayInv'
  <2>1. \/ BeginPass(k) \/ Authorize(k)
        \/ \E u \in Principals : BeginRead(k, u)
        \/ \E u \in Principals, x \in Op \X Content : BeginSubmit(k, u, x[1], x[2])
        \/ \E u \in Principals, o \in Op : BeginPoll(k, u, o)
    BY <1>2, <1>3 DEF ClientStep
  <2> QED
    BY <1>0, <1>00, <2>1, OutsideSteps, OutsideKeeps
<1>4. ASSUME NEW u \in Principals, NEW o \in Op, PollPending(u, o)
      PROVE  RelayInv'
  <2>1. PICK k \in Slot : BeginPoll(k, u, o)
    BY <1>4 DEF PollPending
  <2> QED
    BY <1>0, <1>00, <2>1, OutsideSteps, OutsideKeeps
<1>5. CASE UserStep
  BY <1>0, <1>5, FrameKeeps DEF UserStep, delegatedOnly, upstreamVars, relayVars
<1>6. CASE Cleanup
  BY <1>6, CleanupKeeps
<1>7. CASE Clock
  BY <1>0, <1>7, ClockKeeps
<1>8. CASE UpstreamStep
  BY <1>0, <1>8, UpstreamStepKeeps
<1>9. CASE Crash
  BY <1>0, <1>9, CrashKeeps
<1>10. CASE UNCHANGED vars
  BY <1>0, <1>10, FrameKeeps DEF vars, upstreamVars, relayVars
<1> QED
  BY <1>1, <1>3, <1>4, <1>5, <1>6, <1>7, <1>8, <1>9, <1>10 DEF Next

LEMMA InitIInv ==
    ASSUME Init
    PROVE  IInv
<1>1. setting \in Setting /\ MaxTokens[setting] \in Nat
  BY BoundsAssumption DEF Init, DelegationInit
<1>2. issued \in Nat /\ alive = 1..issued
  BY <1>1 DEF Init, DelegationInit
<1>3. credential \in [User -> Credential \union {None}] /\ past \in [User -> Past]
  <2>1. PICK authorized \in SUBSET User :
          /\ \E token \in Bijection(authorized, alive) :
               credential = [u \in User |->
                 IF u \in authorized THEN [fresh |-> TRUE, refresh |-> token[u]] ELSE None]
          /\ past = [u \in User |-> [revoked |-> "no", authorized |-> u \in authorized,
                                     overlapped |-> FALSE]]
    BY DEF Init, DelegationInit
  <2>2. PICK token \in Bijection(authorized, alive) :
          credential = [u \in User |->
            IF u \in authorized THEN [fresh |-> TRUE, refresh |-> token[u]] ELSE None]
    BY <2>1
  <2>3. \A u \in authorized : token[u] \in RefreshToken
    <3>1. token \in [authorized -> alive]
      BY <2>2 DEF Bijection, Injection, Surjection
    <3>2. \A t \in 1..issued : t \in RefreshToken
      BY <1>2 DEF RefreshToken
    <3> QED
      BY <1>2, <3>1, <3>2
  <2> QED
    BY <2>1, <2>2, <2>3 DEF Credential, Past
<1>4. /\ pending \in [Ceremony -> PendingAuthorization]
      /\ call \in [Slot -> Call]
      /\ faults \in FaultHistory
  BY DEF Init, DelegationInit, PendingAuthorization, Call, FaultHistory, NoFaults
<1>5. DelegationTypeOK
  BY <1>1, <1>2, <1>3, <1>4 DEF DelegationTypeOK
<1>6. /\ relay \in [Op -> Entry \union {None}]
      /\ \A o \in Op :
           relay[o] # None => Pending(relay[o]) /\ relay[o].content \notin WithArtifact
  <2>1. PICK u \in Principals :
          relay = [o \in Op |->
            IF \E x \in Earlier[setting] : x[1] = o
              THEN Left(u, (CHOOSE x \in Earlier[setting] : x[1] = o)[2]) ELSE None]
    BY DEF Init
  <2>2. u \in Principal
    BY DEF Principals, Principal
  <2>3. ASSUME NEW c \in Content \ WithArtifact
        PROVE  /\ Left(u, c) \in Entry /\ Left(u, c).state \notin Terminal
               /\ Left(u, c).content = c /\ Left(u, c) # None
    <3>1. Left(u, c) \in Entry
      BY <2>2 DEF Left, Entry
    <3> QED
      BY <3>1, EntriesAssumption DEF Left, Terminal
  <2>4. ASSUME NEW o \in Op, \E x \in Earlier[setting] : x[1] = o
        PROVE  (CHOOSE x \in Earlier[setting] : x[1] = o)[2] \in Content \ WithArtifact
    <3>1. Earlier[setting] \in SUBSET (Op \X (Content \ WithArtifact))
      BY <1>1, LimitsAssumption
    <3>2. (CHOOSE x \in Earlier[setting] : x[1] = o) \in Earlier[setting]
      BY <2>4
    <3> QED
      BY <3>1, <3>2
  <2>5. ASSUME NEW o \in Op
        PROVE  /\ relay[o] \in Entry \union {None}
               /\ relay[o] # None => Pending(relay[o]) /\ relay[o].content \notin WithArtifact
    BY <2>1, <2>3, <2>4 DEF Pending
  <2> QED
    BY <2>1, <2>5
<1>7. /\ gate \in Seq(Slot) /\ req \in [Slot -> Request]
      /\ upstream = [o \in Op |-> None] /\ artifact = FALSE /\ cleaned = {}
      /\ \A k \in Slot : req[k].pc = "idle"
  BY RequestShapes DEF Init
<1>8. CacheTypeOK
  BY <1>1, LimitsAssumption DEF Init, CacheTypeOK, Version
<1>9. RelayInv
  <2>1. RelayTypeOK
    BY <1>6, <1>7 DEF RelayTypeOK
  <2>2. \A k \in Slot : SlotOK(k)
    BY <1>7 DEF SlotOK, InsideGate
  <2>3. \A o \in Op : RelayOK(o)
    BY <1>6, <1>7 DEF RelayOK, IsTrue
  <2> QED
    BY <2>1, <2>2, <2>3 DEF RelayInv
<1> QED
  BY <1>5, <1>8, <1>9, TypeOKInParts DEF IInv, RelayInv

\* The inductive invariant holds in every reachable state.
THEOREM RelayInvariant == Spec => []IInv
<1>1. Init => IInv
  BY InitIInv
<1>2. ASSUME IInv, [Next]_vars
      PROVE  IInv'
  <2>1. RelayInv'
    BY <1>2, RelayInvNext, TypeOKInParts DEF IInv, RelayInv
  <2>2. CacheTypeOK'
    BY <1>2, CacheTypes DEF IInv
  <2>3. DelegationTypeOK'
    BY <1>2, NextIsDelegationStep, DelegationTypes DEF IInv, TypeOK
  <2>4. TypeOK'
    BY <2>1, <2>2, <2>3 DEF TypeOK, RelayInv, RelayTypeOK, CacheTypeOK
  <2> QED
    BY <2>1, <2>4 DEF IInv, RelayInv
<1> QED
  BY <1>1, <1>2, PTL DEF Spec

\* Every variable keeps its type: caches, relays, requests, tokens and calls.
THEOREM TypesHold == Spec => []TypeOK
<1>1. IInv => TypeOK
  BY DEF IInv
<1> QED
  BY <1>1, RelayInvariant, PTL

\* Whatever the upstream has received from this relay is recorded here, under
\* the content it was sent with, until the entry is cleaned up.
THEOREM SentIsRecorded == Spec => []NothingSentUnrecorded
<1>1. IInv => NothingSentUnrecorded
  BY DEF IInv, RelayOK, NothingSentUnrecorded
<1> QED
  BY <1>1, RelayInvariant, PTL

\* A terminal status is what the upstream has decided about the operation, or
\* a refusal it has given to a delivery of that very operation.
THEOREM StatusIsTrue == Spec => []SettledTruthfully
<1>1. IInv => SettledTruthfully
  BY DEF IInv, RelayOK, IsTrue, SettledTruthfully
<1> QED
  BY <1>1, RelayInvariant, PTL

\* An operation the relay has accepted refers to nothing that is not upstream.
THEOREM DependenciesHold == Spec => []ArtifactsFirst
<1>1. IInv => ArtifactsFirst
  BY DEF IInv, RelayOK, ArtifactsFirst
<1> QED
  BY <1>1, RelayInvariant, PTL

-----------------------------------------------------------------------------
(***************************************************************************)
(* Steps.                                                                  *)
(***************************************************************************)
LEMMA StepKeepsRelays ==
    ASSUME IInv, [Next]_vars, NEW o \in Op
    PROVE  KeptAsTaken(o)
<1> USE DEF KeptAsTaken
<1>0. relay \in [Op -> Entry \union {None}]
  BY DEF IInv, TypeOK
<1>1. ASSUME NEW k \in Slot, SaveRelay(k)
      PROVE  KeptAsTaken(o)
  <2>1. relay[req[k].op] = None
    BY <1>1 DEF SaveRelay, Serving, IInv, SlotOK
  <2> QED
    BY <1>0, <1>1, <2>1 DEF SaveRelay, Record
<1>2. ASSUME NEW k \in Slot, Persist(k)
      PROVE  KeptAsTaken(o)
  <2>1. /\ req[k] \in Request /\ req[k].entry \in Entry
        /\ StillOpen(req[k].op, req[k].entry)
        /\ relay' = [relay EXCEPT ![req[k].op] = req[k].entry]
    BY <1>2, RequestFields DEF Persist, Serving, IInv, SlotOK, TypeOK
  <2>2. req[k].entry # None
    BY <2>1, EntryFields
  <2> QED
    BY <1>0, <2>1, <2>2 DEF StillOpen
<1>3. CASE Cleanup
  BY <1>3 DEF Cleanup, Removable
<1>4. CASE Clock
  <2>1. CASE UNCHANGED relay
    BY <2>1
  <2>2. ASSUME NEW x \in Op, relay[x] # None, Pending(relay[x]),
               relay' = [relay EXCEPT ![x].deferred = FALSE]
        PROVE  KeptAsTaken(o)
    <3>1. relay[x] \in Entry
      BY <1>0, <2>2
    <3>2. /\ [relay[x] EXCEPT !.deferred = FALSE] \in Entry
          /\ [relay[x] EXCEPT !.deferred = FALSE].user = relay[x].user
          /\ [relay[x] EXCEPT !.deferred = FALSE].content = relay[x].content
      BY <3>1 DEF Entry
    <3> QED
      BY <1>0, <2>2, <3>2, EntriesAssumption
  <2>3. ASSUME NEW x \in Op, relay' = [relay EXCEPT ![x].expired = TRUE]
        PROVE  KeptAsTaken(o)
    BY <1>0, <2>3
  <2> QED
    BY <1>4, <2>1, <2>2, <2>3 DEF Clock, Pending, delegatedOnly, relayVars
<1>5. \/ UNCHANGED relay \/ Cleanup \/ Clock
      \/ \E k \in Slot : SaveRelay(k) \/ Persist(k)
  BY DEF Next, vars, HandlerStep, ClientStep, PollPending, UserStep, UpstreamStep,
     UpstreamSettles, Crash, TokenRequest, Read, Fill, List, Admit, Verify, Post, Poll, Pass,
     Authorized, BeginRead, BeginSubmit, BeginPoll, BeginPass, Authorize, delegatedOnly,
     relayVars
<1> QED
  BY <1>1, <1>2, <1>3, <1>4, <1>5

\* No step drops or replaces an operation the relay is responsible for, or
\* changes a status it has given as terminal.
THEOREM WhatIsTakenIsKept == Spec => RelaysAreKept
<1>1. IInv /\ [Next]_vars => [\A o \in Op : KeptAsTaken(o)]_vars
  BY StepKeepsRelays
<1> QED
  BY <1>1, RelayInvariant, PTL DEF Spec, RelaysAreKept

-----------------------------------------------------------------------------
(***************************************************************************)
(* Revoked authorizations.                                                 *)
(***************************************************************************)
\* Nothing is left from which a credential of u could come back.
NothingLeft(u) ==
    /\ credential[u] = None
    /\ Obtaining(u) = {}
    /\ \A a \in Ceremony : pending[a].user # u

NoComeback ==
    method = "authorization-code-pkce" =>
      \A u \in User : past[u].revoked = "yes" => NothingLeft(u)

\* Calls that are no attempt of u to obtain a token do not become one.
LEMMA StillNotObtaining ==
    ASSUME call \in [Slot -> Call], NEW u, NEW k \in Slot, NEW next, Become(k, next),
           Obtaining(u) = {},
           ~(next.pc \in {"refresh", "exchange", "redeem", "save"} /\ next.user = u)
    PROVE  Obtaining(u)' = {}
BY DEF Become, Obtaining

\* The steps of a call for a token.
LEMMA TokenStepNoComeback ==
    ASSUME DelegationTypeOK, NoComeback, method = "authorization-code-pkce",
           NEW k \in Slot, TokenStep(k), NEW u \in User, past'[u].revoked = "yes"
    PROVE  NothingLeft(u)'
<1> USE DEF DelegationTypeOK
<1> DEFINE w == call[k].user
<1>0. call[k] \in Call
  OBVIOUS
<1>1. past[u].revoked = "yes"
  <2>1. CASE UNCHANGED past
    BY <2>1
  <2>2. CASE ReadCredential(k)
    BY <2>2 DEF ReadCredential, Past
  <2>3. CASE Save(k)
    BY <2>3 DEF Save, Past
  <2> QED
    BY <2>1, <2>2, <2>3 DEF TokenStep, Refresh, Drop, NewGrant, Reread
<1>2. NothingLeft(u)
  BY <1>1 DEF NoComeback
<1>3. k \notin Obtaining(u)
  BY <1>2 DEF NothingLeft
<1>4. CASE ReadCredential(k)
  <2>1. w \in User
    BY <1>0, <1>4, CallFields DEF ReadCredential, At
  <2>2. PICK next : /\ Become(k, next)
                    /\ next.user = w
                    /\ w = u => next.pc = "failed"
    BY <1>2, <1>4, <2>1, WithoutCredentialIsCall DEF ReadCredential, NothingLeft
  <2>3. Obtaining(u)' = {}
    BY <1>2, <2>2, StillNotObtaining DEF NothingLeft
  <2> QED
    BY <1>2, <1>4, <2>3 DEF ReadCredential, storeVars, NothingLeft
<1>5. CASE Refresh(k) \/ NewGrant(k)
  <2>1. call[k].pc \in {"refresh", "exchange", "redeem"} /\ w # u
    BY <1>3, <1>5 DEF Refresh, NewGrant, At, Obtaining
  <2>2. \E next : Become(k, next) /\ next.user = w
    BY <1>5 DEF Refresh, NewGrant, EndpointFails, Move
  <2>3. Obtaining(u)' = {}
    BY <1>2, <2>1, <2>2, StillNotObtaining DEF NothingLeft
  <2> QED
    BY <1>2, <1>5, <2>3 DEF Refresh, NewGrant, storeVars, NothingLeft
<1>6. CASE Drop(k)
  <2>1. w \in User
    BY <1>0, <1>6, CallFields DEF Drop, At
  <2>2. Become(k, WithoutCredential(w)) /\ WithoutCredential(w).pc = "failed"
    BY <1>6, <2>1, WithoutCredentialIsCall DEF Drop
  <2>3. Obtaining(u)' = {}
    BY <1>2, <2>2, StillNotObtaining DEF NothingLeft
  <2>4. credential'[u] = None
    BY <1>2, <1>6 DEF Drop, DeleteCredential, NothingLeft
  <2>5. \A a \in Ceremony : pending'[a].user # u
    BY <1>2, <1>6, DelegationNoneAssumption DEF Drop, DeleteCredential, PendingWithout, NothingLeft
  <2> QED
    BY <2>3, <2>4, <2>5 DEF NothingLeft
<1>7. CASE Save(k)
  <2>1. w # u
    BY <1>3, <1>7 DEF Save, At, Obtaining
  <2>2. \E next : Become(k, next) /\ next.user = w
    BY <1>7 DEF Save, Move
  <2>3. Obtaining(u)' = {}
    BY <1>2, <2>1, <2>2, StillNotObtaining DEF NothingLeft
  <2> QED
    BY <1>2, <1>7, <2>1, <2>3 DEF Save, NothingLeft
<1>8. CASE Reread(k)
  <2>1. \E next : Become(k, next) /\ next.pc \in {"got", "failed"}
    BY <1>8 DEF Reread, Move
  <2>2. Obtaining(u)' = {}
    BY <1>2, <2>1, StillNotObtaining DEF NothingLeft
  <2> QED
    BY <1>2, <1>8, <2>2 DEF Reread, storeVars, NothingLeft
<1> QED
  BY <1>4, <1>5, <1>6, <1>7, <1>8 DEF TokenStep

LEMMA NoComebackNext ==
    ASSUME DelegationTypeOK, NoComeback, DelegationStep
    PROVE  NoComeback'
<1> USE DEF DelegationTypeOK
<1> SUFFICES ASSUME method' = "authorization-code-pkce",
                    NEW u \in User, past'[u].revoked = "yes"
             PROVE  NothingLeft(u)'
  BY DEF NoComeback
<1>0. method = "authorization-code-pkce"
  BY SettingStays DEF method
<1>1. past[u].revoked = "yes" => NothingLeft(u)
  BY <1>0 DEF NoComeback
<1>2. CASE \E k \in Slot : TokenStep(k)
  BY <1>0, <1>2, TokenStepNoComeback
<1>3. ASSUME NEW k \in Slot, CallStep(k)
      PROVE  NothingLeft(u)'
  <2>1. NothingLeft(u) /\ UNCHANGED <<credential, pending>>
    BY <1>1, <1>3 DEF CallStep, tokenVars, storeVars
  <2>2. \/ UNCHANGED call
        \/ \E next : Become(k, next) /\ next.pc \in {"none", "got", "read"}
    <3>1. NoCall.pc = "none"
      BY DEF NoCall
    <3>2. ASSUME NEW w \in Principal, AskForToken(k, w)
          PROVE  \E next : Become(k, next) /\ next.pc \in {"got", "read"}
      <4>1. [pc |-> IF w = None THEN "got" ELSE "read", user |-> w].pc \in {"got", "read"}
        OBVIOUS
      <4> QED
        BY <3>2, <4>1 DEF AskForToken
    <3> QED
      BY <1>3, <3>1, <3>2 DEF CallStep
  <2>3. Obtaining(u)' = {}
    BY <2>1, <2>2, StillNotObtaining DEF NothingLeft, Obtaining
  <2> QED
    BY <2>1, <2>3 DEF NothingLeft
<1>4. ASSUME NEW k \in Slot, NEW a \in Ceremony, CompleteAuthorization(k, a)
      PROVE  NothingLeft(u)'
  <2>1. NothingLeft(u)
    BY <1>1, <1>4 DEF CompleteAuthorization
  <2>2. \E next : /\ Become(k, next)
                  /\ next.pc = "none" \/ next.user # u
    BY <1>4, <2>1 DEF CompleteAuthorization, NoCall, NothingLeft
  <2>3. Obtaining(u)' = {}
    BY <2>1, <2>2, StillNotObtaining DEF NothingLeft
  <2> QED
    BY <1>4, <2>1, <2>3, DelegationNoneAssumption DEF CompleteAuthorization, NothingLeft
<1>5. ASSUME NEW w \in User, NEW a \in Ceremony, BeginAuthorization(w, a)
      PROVE  NothingLeft(u)'
  <2>1. w # u /\ past[u].revoked = "yes"
    BY <1>5 DEF BeginAuthorization, Past
  <2>2. NothingLeft(u) /\ UNCHANGED <<credential, call>>
    BY <1>1, <1>5, <2>1 DEF BeginAuthorization
  <2>3. \A b \in Ceremony : pending'[b].user # u
    BY <1>5, <2>1, <2>2, DelegationNoneAssumption DEF BeginAuthorization, NothingLeft
  <2> QED
    BY <2>2, <2>3 DEF NothingLeft, Obtaining
<1>6. ASSUME NEW w \in User, Revoke(w)
      PROVE  NothingLeft(u)'
  <2>1. UNCHANGED call /\ credential' = [credential EXCEPT ![w] = None]
        /\ pending' = PendingWithout(w)
    BY <1>6 DEF Revoke, DeleteCredential
  <2>2. CASE w = u
    <3>1. Obtaining(u) = {}
      BY <1>6, <2>2 DEF Revoke, Past
    <3>2. \A b \in Ceremony : pending'[b].user # u
      BY <2>1, <2>2, DelegationNoneAssumption DEF PendingWithout
    <3> QED
      BY <2>1, <2>2, <3>1, <3>2 DEF NothingLeft, Obtaining
  <2>3. CASE w # u
    <3>1. NothingLeft(u)
      BY <1>1, <1>6, <2>3 DEF Revoke, Past
    <3>2. \A b \in Ceremony : pending'[b].user # u
      BY <2>1, <3>1, DelegationNoneAssumption DEF PendingWithout, NothingLeft
    <3> QED
      BY <2>1, <2>3, <3>1, <3>2 DEF NothingLeft, Obtaining
  <2> QED
    BY <2>2, <2>3
<1>7. ASSUME NEW w \in User, CredentialAges(w)
      PROVE  NothingLeft(u)'
  <2>1. NothingLeft(u) /\ w # u
    BY <1>1, <1>7 DEF CredentialAges, NothingLeft
  <2> QED
    BY <1>7, <2>1 DEF CredentialAges, NothingLeft, Obtaining
<1>8. ASSUME NEW a \in Ceremony, LoginRunsOut(a)
      PROVE  NothingLeft(u)'
  <2>1. NothingLeft(u)
    BY <1>1, <1>8 DEF LoginRunsOut
  <2>2. \A b \in Ceremony : pending'[b].user # u
    <3>1. \A b \in Ceremony : pending'[b].user = pending[b].user
      BY <1>8 DEF LoginRunsOut, PendingAuthorization
    <3> QED
      BY <2>1, <3>1 DEF NothingLeft
  <2> QED
    BY <1>8, <2>1, <2>2 DEF LoginRunsOut, NothingLeft, Obtaining
<1>9. CASE UNCHANGED tokenVars /\ call' = [k \in Slot |-> NoCall]
  <2>1. NothingLeft(u)
    BY <1>1, <1>9 DEF tokenVars
  <2> QED
    BY <1>9, <2>1 DEF tokenVars, storeVars, NothingLeft, Obtaining, NoCall
<1>10. CASE UNCHANGED delegationVars
  BY <1>1, <1>10 DEF delegationVars, NothingLeft, Obtaining
<1>11. ASSUME NEW k \in Slot, NEW w \in User, EstablishTokenExchange(k, w)
       PROVE  NothingLeft(u)'
  BY <1>0, <1>11 DEF EstablishTokenExchange
<1> QED
  BY <1>2, <1>3, <1>4, <1>5, <1>6, <1>7, <1>8, <1>9, <1>10, <1>11 DEF DelegationStep

\* A user who has revoked the delegation, while no token was being obtained,
\* has no credential until they authorize again.
THEOREM RevocationHolds == Spec => []RevokedStaysRevoked
<1>1. Init => NoComeback
  BY DEF Init, DelegationInit, NoComeback
<1>2. TypeOK /\ NoComeback /\ [Next]_vars => NoComeback'
  BY NextIsDelegationStep, NoComebackNext DEF TypeOK
<1>3. NoComeback => RevokedStaysRevoked
  BY DEF NoComeback, NothingLeft, RevokedStaysRevoked
<1> QED
  BY <1>1, <1>2, <1>3, TypesHold, PTL DEF Spec
-----------------------------------------------------------------------------
(***************************************************************************)
(* What an outage shows.                                                   *)
(***************************************************************************)
ReadPc == {"read", "fill"}

\* What u has been shown or will be, and what is cached, is not of the future;
\* as long as no reads overlapped, an answer is not older than what was shown.
ViewOK(u) ==
    /\ seen[u].version <= version
    /\ cached[u] # None => cached[u] <= version
    /\ ~seen[u].overlapped =>
         /\ \A j, k \in Slot :
              /\ req[j].pc \in ReadPc /\ req[j].user = u
              /\ req[k].pc \in ReadPc /\ req[k].user = u
              => j = k
         /\ \A k \in Slot : req[k].pc = "fill" /\ req[k].user = u =>
              req[k].version >= seen[u].version
         /\ cached[u] # None => cached[u] >= seen[u].version

ViewInv ==
    /\ \A u \in Principal : ViewOK(u)
    /\ \A k \in Slot : req[k].pc = "fill" => req[k].version <= version

\* Steps that begin or complete no read.
NoReadStep ==
    /\ UNCHANGED <<cached, seen>>
    /\ version' = version \/ version' = version + 1
    /\ \A k \in Slot : req'[k].pc \in ReadPc => req'[k] = req[k]

LEMMA NoReadKeepsViews ==
    ASSUME TypeOK, ViewInv, NoReadStep
    PROVE  ViewInv'
<1>0. /\ version \in Nat
      /\ \A k \in Slot : req[k].pc = "fill" => req[k].version \in Nat
      /\ \A u \in Principal : seen[u].version \in Nat /\ (cached[u] # None => cached[u] \in Nat)
  BY RequestFields DEF TypeOK, DelegationTypeOK, Version
<1>1. ASSUME NEW u \in Principal PROVE ViewOK(u)'
  <2>1. ViewOK(u) /\ seen'[u] = seen[u] /\ cached'[u] = cached[u]
    BY DEF ViewInv, NoReadStep
  <2>2. \A j, k \in Slot :
          (~seen[u].overlapped /\ req'[j].pc \in ReadPc /\ req'[j].user = u
             /\ req'[k].pc \in ReadPc /\ req'[k].user = u) => j = k
    BY <2>1 DEF ViewOK, NoReadStep
  <2>3. \A k \in Slot : (~seen[u].overlapped /\ req'[k].pc = "fill" /\ req'[k].user = u) =>
          req'[k].version >= seen[u].version
    BY <2>1 DEF ViewOK, NoReadStep, ReadPc
  <2> QED
    BY <1>0, <2>1, <2>2, <2>3 DEF ViewOK, NoReadStep
<1>2. \A k \in Slot : req'[k].pc = "fill" => req'[k].version <= version'
  BY <1>0 DEF ViewInv, NoReadStep, ReadPc
<1> QED
  BY <1>1, <1>2 DEF ViewInv

\* Slot k begins, goes on with or ends a read of u.
LEMMA ReadKeepsViews ==
    ASSUME TypeOK, ViewInv, NEW k \in Slot, NEW u \in Principal, ViewOK(u)',
           \A j \in Slot \ {k} : req'[j] = req[j],
           req'[k].pc \in ReadPc => req'[k].user = u,
           req'[k].pc = "fill" => req'[k].version <= version,
           \A w \in Principal \ {u} : cached'[w] = cached[w] /\ seen'[w] = seen[w],
           version' = version
    PROVE  ViewInv'
<1>1. ASSUME NEW w \in Principal \ {u} PROVE ViewOK(w)'
  <2>1. ViewOK(w) /\ seen'[w] = seen[w] /\ cached'[w] = cached[w]
    BY DEF ViewInv
  <2>2. \A j \in Slot : req'[j].pc \in ReadPc /\ req'[j].user = w => req'[j] = req[j]
    OBVIOUS
  <2> QED
    BY <2>1, <2>2 DEF ViewOK, ReadPc
<1> QED
  BY <1>1 DEF ViewInv

LEMMA ReadBegins ==
    ASSUME TypeOK, ViewInv, NEW k \in Slot, NEW u \in Principal, BeginRead(k, u)
    PROVE  ViewInv'
<1>1. /\ version' = version /\ cached' = cached
      /\ req'[k] = [pc |-> "read", user |-> u]
      /\ \A j \in Slot \ {k} : req'[j] = req[j]
      /\ req[k].pc = "idle"
  BY DEF BeginRead, Continue, Idle, Serving, TypeOK, upstreamVars
<1>2. seen' = [seen EXCEPT ![u].overlapped = @ \/ Reading(u) # {}]
      /\ seen \in [Principal -> [version: Version, overlapped: BOOLEAN]]
  BY DEF BeginRead, TypeOK
<1>3. /\ seen'[u].version = seen[u].version
      /\ ~seen'[u].overlapped => ~seen[u].overlapped /\ Reading(u) = {}
      /\ \A w \in Principal \ {u} : seen'[w] = seen[w]
  BY <1>2
<1>4. ViewOK(u)'
  BY <1>1, <1>3 DEF ViewInv, ViewOK, Reading, ReadPc
<1> QED
  BY <1>1, <1>3, <1>4, ReadKeepsViews

\* Showing a version that is not older than what was shown.
LEMMA Shown ==
    ASSUME seen \in [Principal -> [version: Nat, overlapped: BOOLEAN]],
           NEW u \in Principal, NEW v \in Nat, Show(u, v)
    PROVE  /\ seen'[u].overlapped = seen[u].overlapped
           /\ seen'[u].version \in {v, seen[u].version}
           /\ v >= seen[u].version => seen'[u].version = v
           /\ \A w \in Principal \ {u} : seen'[w] = seen[w]
BY DEF Show

LEMMA ReadGoesOn ==
    ASSUME TypeOK, ViewInv, NEW k \in Slot, Read(k)
    PROVE  ViewInv'
<1>1. PICK u \in Principal : u = req[k].user /\ req[k].pc = "read"
  BY RequestFields DEF Read, Serving, TypeOK
<1>2. /\ version' = version /\ cached' = cached /\ version \in Nat
      /\ seen \in [Principal -> [version: Nat, overlapped: BOOLEAN]]
      /\ cached[u] # None => cached[u] \in Nat
      /\ \A j \in Slot \ {k} : req'[j] = req[j]
  BY DEF Read, Continue, Done, TypeOK, upstreamVars, Version, DelegationTypeOK
<1>3. ViewOK(u)
  BY DEF ViewInv
<1>4. CASE req'[k] = [pc |-> "fill", user |-> u, version |-> version] /\ UNCHANGED seen
  <2>1. ViewOK(u)'
    BY <1>1, <1>2, <1>3, <1>4 DEF ViewOK, ReadPc
  <2> QED
    BY <1>2, <1>4, <2>1, ReadKeepsViews
<1>5. CASE req'[k] = [pc |-> "idle"] /\ UNCHANGED seen
  <2>1. ViewOK(u)'
    BY <1>1, <1>2, <1>3, <1>5 DEF ViewOK, ReadPc
  <2> QED
    BY <1>2, <1>5, <2>1, ReadKeepsViews DEF ReadPc
<1>6. CASE req'[k] = [pc |-> "idle"] /\ cached[u] # None /\ Show(u, cached[u])
  <2>1. /\ seen'[u].overlapped = seen[u].overlapped
        /\ seen'[u].version \in {cached[u], seen[u].version}
        /\ cached[u] >= seen[u].version => seen'[u].version = cached[u]
        /\ \A w \in Principal \ {u} : seen'[w] = seen[w]
    BY <1>2, <1>6, Shown
  <2>2. ~seen[u].overlapped =>
          \A j \in Slot : ~(req'[j].pc \in ReadPc /\ req'[j].user = u)
    BY <1>1, <1>2, <1>3, <1>6 DEF ViewOK, ReadPc
  <2>3. seen'[u].version <= version /\ cached'[u] <= version /\ seen[u].version \in Nat
    BY <1>2, <1>3, <1>6, <2>1 DEF ViewOK
  <2>4. ~seen[u].overlapped => cached'[u] >= seen'[u].version
    BY <1>2, <1>3, <1>6, <2>1 DEF ViewOK
  <2>5. ViewOK(u)'
    BY <1>2, <2>1, <2>2, <2>3, <2>4 DEF ViewOK, ReadPc
  <2> QED
    BY <1>2, <1>6, <2>1, <2>5, ReadKeepsViews DEF ReadPc
<1>7. \/ req'[k] = [pc |-> "fill", user |-> u, version |-> version] /\ UNCHANGED seen
      \/ req'[k] = [pc |-> "idle"] /\ UNCHANGED seen
      \/ req'[k] = [pc |-> "idle"] /\ cached[u] # None /\ Show(u, cached[u])
  BY <1>1 DEF Read, Continue, Done, TypeOK
<1> QED
  BY <1>4, <1>5, <1>6, <1>7

LEMMA ReadEnds ==
    ASSUME TypeOK, ViewInv, NEW k \in Slot, Fill(k)
    PROVE  ViewInv'
<1>1. PICK u \in Principal, v \in Nat :
        u = req[k].user /\ v = req[k].version /\ req[k].pc = "fill"
  BY RequestFields DEF Fill, Serving, TypeOK
<1>2. /\ version' = version /\ version \in Nat
      /\ seen \in [Principal -> [version: Nat, overlapped: BOOLEAN]]
      /\ Show(u, v)
      /\ cached'[u] = v
      /\ \A w \in Principal \ {u} : cached'[w] = cached[w]
      /\ req'[k] = [pc |-> "idle"]
      /\ \A j \in Slot \ {k} : req'[j] = req[j]
  BY <1>1 DEF Fill, Continue, Done, TypeOK, upstreamVars, Version, CachedAnswer, DelegationTypeOK
<1>3. ViewOK(u) /\ v <= version
  BY <1>1 DEF ViewInv
<1>4. /\ seen'[u].overlapped = seen[u].overlapped
      /\ seen'[u].version \in {v, seen[u].version}
      /\ v >= seen[u].version => seen'[u].version = v
      /\ \A w \in Principal \ {u} : seen'[w] = seen[w]
  BY <1>2, Shown
<1>5. ~seen[u].overlapped =>
        /\ v >= seen[u].version
        /\ \A j \in Slot : ~(req'[j].pc \in ReadPc /\ req'[j].user = u)
  BY <1>1, <1>2, <1>3 DEF ViewOK, ReadPc
<1>6. ViewOK(u)'
  BY <1>2, <1>3, <1>4, <1>5 DEF ViewOK, ReadPc
<1> QED
  BY <1>2, <1>4, <1>6, ReadKeepsViews DEF ReadPc

\* A request that is no read stays none.
LEMMA GoesOnUnread ==
    ASSUME NEW k \in Slot, TypeOK,
           \/ UNCHANGED req
           \/ \E next : Continue(k, next) /\ next.pc \notin ReadPc
    PROVE  \A j \in Slot : req'[j].pc \in ReadPc => req'[j] = req[j]
BY DEF Continue, TypeOK

LEMMA ContinuesUnread ==
    ASSUME TypeOK, NEW k \in Slot,
           HandlerStep(k), ~Read(k), ~Fill(k)
    PROVE  \/ UNCHANGED req
           \/ \E next : Continue(k, next) /\ next.pc \notin ReadPc
<1>0. req[k] \in Request
  BY DEF TypeOK
<1>1. CASE TokenRequest(k)
  BY <1>1 DEF TokenRequest
<1>2. ASSUME NEW p \in SubmitPc, req[k].pc \in SubmitPc, req[k].kind = "submit", Wait(k, p)
      PROVE  \E next : Continue(k, next) /\ next.pc \notin ReadPc
  BY <1>0, <1>2, SubmissionGoesOn DEF Wait, SubmitPc, ReadPc
<1>3. Done(k) => \E next : Continue(k, next) /\ next.pc \notin ReadPc
  BY DEF Done, ReadPc
<1>4. ASSUME NEW o, NEW e, NEW todo, Deliver(k, o, e, todo)
      PROVE  \E next : Continue(k, next) /\ next.pc \notin ReadPc
  BY <1>4 DEF Deliver, ReadPc
<1>5. CASE List(k)
  BY <1>0, <1>2, <1>3, <1>5, RequestFields DEF List, Serving, SubmitPc
<1>6. CASE Admit(k)
  BY <1>2, <1>3, <1>4, <1>6 DEF Admit, Serving, SubmitPc, Return
<1>7. CASE Verify(k)
  BY <1>0, <1>2, <1>3, <1>7, RequestFields DEF Verify, Serving, SubmitPc, Return
<1>8. CASE SaveRelay(k) \/ Poll(k) \/ Pass(k)
  BY <1>3, <1>4, <1>8 DEF SaveRelay, Poll, Pass, Return
<1>9. CASE Persist(k)
  BY <1>3, <1>4, <1>9 DEF Persist, Return
<1>10. CASE Post(k)
  <2>1. PICK state : Outcome(k, state)
    BY <1>10 DEF Post
  <2>2. req[k].pc = "post"
    BY <1>10 DEF Post, Serving
  <2>3. PICK e : Continue(k, [req[k] EXCEPT !.pc = "persist", !.entry = e])
    BY <2>1 DEF Outcome
  <2>4. [req[k] EXCEPT !.pc = "persist", !.entry = e].pc = "persist"
    BY <1>0, <2>2 DEF Request
  <2> QED
    BY <2>3, <2>4 DEF ReadPc
<1>11. CASE Authorized(k)
  BY <1>3, <1>11 DEF Authorized
<1> QED
  BY <1>1, <1>5, <1>6, <1>7, <1>8, <1>9, <1>10, <1>11 DEF HandlerStep

LEMMA ViewsKept ==
    ASSUME TypeOK, ViewInv, [Next]_vars
    PROVE  ViewInv'
<1>1. ASSUME NEW k \in Slot, HandlerStep(k) PROVE ViewInv'
  <2>1. CASE Read(k)
    BY <2>1, ReadGoesOn
  <2>2. CASE Fill(k)
    BY <2>2, ReadEnds
  <2>3. CASE ~Read(k) /\ ~Fill(k)
    <3>1. \A j \in Slot : req'[j].pc \in ReadPc => req'[j] = req[j]
      BY <1>1, <2>3, ContinuesUnread, GoesOnUnread
    <3>2. UNCHANGED <<cached, seen, version>>
      BY <1>1, <2>3 DEF HandlerStep, TokenRequest, List, Admit, Verify, SaveRelay, Post, Persist,
         Poll, Pass, Authorized, delegatedOnly, cacheVars, upstreamVars
    <3> QED
      BY <3>1, <3>2, NoReadKeepsViews DEF NoReadStep
  <2> QED
    BY <2>1, <2>2, <2>3
<1>2. ASSUME NEW k \in Slot, ClientStep(k) PROVE ViewInv'
  <2>1. CASE \E u \in Principals : BeginRead(k, u)
    BY <2>1, ReadBegins DEF Principals, Principal
  <2>2. CASE ~\E u \in Principals : BeginRead(k, u)
    <3>1. UNCHANGED <<cached, seen, version>>
      BY <1>2, <2>2 DEF ClientStep, BeginSubmit, BeginPoll, BeginPass, Authorize, delegatedOnly,
         cacheVars, upstreamVars
    <3>2. \E next : Continue(k, next) /\ next.pc \notin ReadPc
      <4>1. \/ \E u, o, c : BeginSubmit(k, u, o, c)
            \/ \E u, o : BeginPoll(k, u, o)
            \/ BeginPass(k)
            \/ Authorize(k)
        BY <1>2, <2>2 DEF ClientStep
      <4>2. CASE \E u, o, c : BeginSubmit(k, u, o, c)
        BY <4>2 DEF BeginSubmit, ReadPc
      <4>3. CASE \E u, o : BeginPoll(k, u, o)
        BY <4>3 DEF BeginPoll, ReadPc
      <4>4. CASE BeginPass(k)
        <5>1. [pc |-> "gate", kind |-> "pass"].pc \notin ReadPc
          BY DEF ReadPc
        <5> QED
          BY <4>4, <5>1 DEF BeginPass
      <4>5. CASE Authorize(k)
        BY <4>5 DEF Authorize, ReadPc
      <4> QED
        BY <4>1, <4>2, <4>3, <4>4, <4>5
    <3> QED
      BY <3>1, <3>2, GoesOnUnread, NoReadKeepsViews DEF NoReadStep
  <2> QED
    BY <2>1, <2>2
<1>3. ASSUME NEW u, NEW o, PollPending(u, o) PROVE ViewInv'
  <2>1. PICK k \in Slot : BeginPoll(k, u, o)
    BY <1>3 DEF PollPending
  <2>2. \E next : Continue(k, next) /\ next.pc \notin ReadPc
    BY <2>1 DEF BeginPoll, ReadPc
  <2> QED
    BY <2>1, <2>2, GoesOnUnread, NoReadKeepsViews
    DEF NoReadStep, BeginPoll, cacheVars, upstreamVars
<1>4. CASE UserStep \/ Cleanup \/ Clock \/ UNCHANGED vars
  BY <1>4, NoReadKeepsViews
  DEF UserStep, Cleanup, Clock, vars, delegatedOnly, cacheVars, upstreamVars, NoReadStep
<1>5. CASE UpstreamStep
  BY <1>5, NoReadKeepsViews DEF UpstreamStep, UpstreamSettles, cacheVars, NoReadStep
<1>6. CASE Crash
  BY <1>6, NoReadKeepsViews DEF Crash, cacheVars, upstreamVars, NoReadStep, ReadPc
<1> QED
  BY <1>1, <1>2, <1>3, <1>4, <1>5, <1>6 DEF Next

\* During an outage a user is not shown anything older than before, unless two of
\* their reads overlapped: an answer is cached before it is returned, and reads that
\* do not overlap are answered in the order of the upstream's versions.
THEOREM OutagesShowLatest == Spec => []OutageShowsLatest
<1>1. Init => ViewInv
  BY DEF Init, ViewInv, ViewOK, ReadPc
<1>2. TypeOK /\ ViewInv /\ [Next]_vars => ViewInv'
  BY ViewsKept
<1>3. ViewInv => OutageShowsLatest
  BY DEF ViewInv, ViewOK, OutageShowsLatest
<1> QED
  BY <1>1, <1>2, <1>3, TypesHold, PTL DEF Spec
-----------------------------------------------------------------------------
(***************************************************************************)
(* Credentials in use.                                                     *)
(***************************************************************************)
\* The points of a request at which it has no call for a token.
NoCallPc == {"idle", "gate", "save", "persist", "fill"}
CallOver == {"none", "got", "failed"}

CallsMatch == \A k \in Slot : req[k].pc \in NoCallPc => call[k] = NoCall

\* What a step of a request is for the calls: its own may end, or begin.
SlotStep(k) ==
    /\ \A j \in Slot \ {k} : call'[j] = call[j] /\ req'[j] = req[j]
    /\ call'[k] = call[k] \/ call[k].pc \in CallOver
    /\ req'[k].pc \in NoCallPc => call'[k] = NoCall

LEMMA HandlerIsSlotStep ==
    ASSUME TypeOK, CallsMatch, NEW k \in Slot, HandlerStep(k), ~TokenRequest(k)
    PROVE  SlotStep(k)
<1>0. /\ req \in [Slot -> Request] /\ req[k] \in Request
      /\ call \in [Slot -> Call]
      /\ NoCall.pc = "none"
  BY DEF TypeOK, DelegationTypeOK, NoCall
<1>1. ASSUME NEW next, Continue(k, next)
      PROVE  req'[k] = next /\ \A j \in Slot \ {k} : req'[j] = req[j]
  BY <1>0, <1>1 DEF Continue
<1>2. ASSUME NEW next, Continue(k, next), Become(k, NoCall),
             call[k].pc \in CallOver
      PROVE  SlotStep(k)
  BY <1>0, <1>1, <1>2 DEF SlotStep, Become
<1>3. ASSUME NEW next, Continue(k, next), UNCHANGED call, req[k].pc \in NoCallPc
      PROVE  SlotStep(k)
  BY <1>0, <1>1, <1>3 DEF SlotStep, CallsMatch
<1>4. ASSUME NEW next, Continue(k, next), next.pc \notin NoCallPc, NEW u, AskForToken(k, u),
             req[k].pc \in NoCallPc
      PROVE  SlotStep(k)
  BY <1>0, <1>1, <1>4 DEF SlotStep, CallsMatch, AskForToken, Become, CallOver
<1>5. ASSUME NEW o, NEW e, NEW todo, Deliver(k, o, e, todo), req[k].pc \in NoCallPc
      PROVE  SlotStep(k)
  <2>1. PICK next : Continue(k, next) /\ next.pc = "post"
    BY <1>5 DEF Deliver
  <2>2. AskForToken(k, e.user)
    BY <1>5 DEF Deliver
  <2> QED
    BY <1>4, <1>5, <2>1, <2>2 DEF NoCallPc
<1>6. ASSUME NEW outcome, Requested(k, outcome)
      PROVE  Become(k, NoCall) /\ call[k].pc \in CallOver
  BY <1>6 DEF Requested, Become, At, CallOver
<1>7. CASE Read(k)
  BY <1>2, <1>6, <1>7 DEF Read, Done
<1>8. CASE Fill(k)
  BY <1>3, <1>8 DEF Fill, Done, Serving, NoCallPc, delegationVars
<1>9. CASE List(k)
  BY <1>2, <1>6, <1>9 DEF List, Wait, Done
<1>10. CASE Verify(k)
  BY <1>2, <1>6, <1>10 DEF Verify, Wait, Done, Return
<1>11. CASE Post(k)
  BY <1>2, <1>6, <1>11 DEF Post, Outcome, At, CallOver, Become
<1>12. CASE Admit(k)
  <2>1. req[k].pc = "gate" /\ req[k].kind = "submit"
    BY <1>12 DEF Admit, Serving
  <2>2. [req[k] EXCEPT !.pc = "verify"].pc = "verify"
    BY <1>0, <2>1, SubmissionGoesOn DEF SubmitPc
  <2> QED
    BY <1>3, <1>4, <1>5, <1>12, <2>1, <2>2 DEF Admit, Wait, Return, Done, NoCallPc
<1>13. CASE SaveRelay(k)
  BY <1>5, <1>13 DEF SaveRelay, Serving, NoCallPc
<1>14. CASE Persist(k)
  BY <1>3, <1>5, <1>14 DEF Persist, Serving, Return, Done, NoCallPc
<1>15. CASE Poll(k)
  BY <1>3, <1>5, <1>15 DEF Poll, Serving, Return, Done, NoCallPc
<1>16. CASE Pass(k)
  BY <1>3, <1>5, <1>16 DEF Pass, Serving, Return, Done, NoCallPc
<1>17. CASE Authorized(k)
  BY <1>2, <1>17 DEF Authorized, Done, Become, CallOver
<1> QED
  BY <1>7, <1>8, <1>9, <1>10, <1>11, <1>12, <1>13, <1>14, <1>15, <1>16, <1>17 DEF HandlerStep

LEMMA ClientIsSlotStep ==
    ASSUME TypeOK, CallsMatch, NEW k \in Slot,
           \/ ClientStep(k)
           \/ \E u, o : BeginPoll(k, u, o)
    PROVE  SlotStep(k)
<1>0. /\ req \in [Slot -> Request] /\ call \in [Slot -> Call]
      /\ NoCall.pc = "none"
  BY DEF TypeOK, DelegationTypeOK, NoCall
<1>1. Idle(k) => call[k] = NoCall
  BY DEF Idle, Serving, CallsMatch, NoCallPc
<1>2. ASSUME NEW next, Continue(k, next), Idle(k), next.pc \notin NoCallPc, NEW c, Become(k, c)
      PROVE  SlotStep(k)
  BY <1>0, <1>1, <1>2 DEF SlotStep, Continue, Become, CallOver
<1>3. ASSUME NEW next, Continue(k, next), Idle(k), UNCHANGED call
      PROVE  SlotStep(k)
  BY <1>0, <1>1, <1>3 DEF SlotStep, Continue
<1>4. ASSUME NEW u, BeginRead(k, u) PROVE SlotStep(k)
  BY <1>2, <1>4 DEF BeginRead, AskForToken, NoCallPc
<1>5. ASSUME NEW u, NEW o, NEW c, BeginSubmit(k, u, o, c) PROVE SlotStep(k)
  <2>1. PICK next : Continue(k, next) /\ next.pc = "list"
    BY <1>5 DEF BeginSubmit
  <2> QED
    BY <1>2, <1>5, <2>1 DEF BeginSubmit, AskForToken, NoCallPc
<1>6. ASSUME NEW u, NEW o, BeginPoll(k, u, o) PROVE SlotStep(k)
  BY <1>3, <1>6 DEF BeginPoll, delegationVars
<1>7. CASE BeginPass(k)
  BY <1>3, <1>7 DEF BeginPass, delegationVars
<1>8. CASE Authorize(k)
  <2>1. [pc |-> "authorize"].pc \notin NoCallPc
    BY DEF NoCallPc
  <2>2. \E c : Become(k, c)
    BY <1>8 DEF Authorize, CompleteAuthorization, EstablishTokenExchange
  <2> QED
    BY <1>2, <1>8, <2>1, <2>2 DEF Authorize
<1> QED
  BY <1>4, <1>5, <1>6, <1>7, <1>8 DEF ClientStep

LEMMA StepsOfCalls ==
    ASSUME TypeOK, CallsMatch, [Next]_vars
    PROVE  \/ \E k \in Slot : TokenRequest(k)
           \/ \E k \in Slot : SlotStep(k)
           \/ Crash
           \/ UNCHANGED <<call, req>>
<1>1. CASE \E k \in Slot : HandlerStep(k) \/ ClientStep(k)
  BY <1>1, HandlerIsSlotStep, ClientIsSlotStep
<1>2. CASE \E u \in Principals, o \in Op : PollPending(u, o)
  BY <1>2, ClientIsSlotStep DEF PollPending
<1>3. CASE UserStep \/ Cleanup \/ Clock \/ UpstreamStep \/ UNCHANGED vars
  BY <1>3 DEF UserStep, BeginAuthorization, Revoke, Cleanup, Clock, CredentialAges, LoginRunsOut,
     UpstreamStep, UpstreamSettles, delegationVars, vars
<1> QED
  BY <1>1, <1>2, <1>3 DEF Next

LEMMA CallsMatchNext ==
    ASSUME TypeOK, CallsMatch, [Next]_vars
    PROVE  CallsMatch'
<1>1. ASSUME NEW k \in Slot, TokenRequest(k) PROVE CallsMatch'
  <2>1. call[k] # NoCall /\ UNCHANGED req
    BY <1>1 DEF TokenRequest, TokenStep, ReadCredential, Refresh, Drop, NewGrant, Save, Reread,
       At, NoCall
  <2>2. \E next : Become(k, next)
    BY <1>1 DEF TokenRequest, TokenStep, ReadCredential, Refresh, Drop, NewGrant, Save, Reread,
       EndpointFails, Move
  <2> QED
    BY <2>1, <2>2 DEF CallsMatch, Become, TypeOK, DelegationTypeOK
<1>2. ASSUME NEW k \in Slot, SlotStep(k) PROVE CallsMatch'
  BY <1>2 DEF SlotStep, CallsMatch
<1>3. CASE Crash \/ UNCHANGED <<call, req>>
  BY <1>3 DEF Crash, CallsMatch
<1> QED
  BY <1>1, <1>2, <1>3, StepsOfCalls

\* A refresh token is held by the user it was issued for, only.
Holds(u, t) ==
    \/ credential[u] # None /\ credential[u].refresh = t
    \/ \E k \in Slot :
         call[k].pc \in {"refresh", "save"} /\ call[k].user = u /\ call[k].token = t

TokensOwned ==
    \A u \in User, t \in RefreshToken :
      Holds(u, t) => t <= issued /\ \A v \in User : Holds(v, t) => v = u

\* As long as nothing failed and no two calls obtained a token for u at once,
\* the refresh tokens u holds are accepted, and only one of them is being used.
Undisturbed(u) == ~past[u].overlapped /\ faults = NoFaults

CallOf(k, u, pc) == call[k].pc = pc /\ call[k].user = u

Kept(u) ==
    /\ \A k \in Slot : ~CallOf(k, u, "drop")
    /\ \A k \in Slot : CallOf(k, u, "refresh") =>
         /\ call[k].token \in alive
         /\ \A j \in Slot \ {k} :
              /\ ~CallOf(j, u, "refresh")
              /\ CallOf(j, u, "save") => call[j].token # call[k].token
    /\ \A k \in Slot : CallOf(k, u, "save") => call[k].token \in alive \union {None}
    /\ (Obtaining(u) = {} /\ credential[u] # None) => credential[u].refresh \in alive \union {None}
    /\ past[u].authorized => credential[u] # None /\ credential[u].refresh # None

TokenInv ==
    /\ CallsMatch
    /\ TokensOwned
    /\ \A u \in User : Undisturbed(u) => Kept(u)

\* Where a token that is held comes from.
HeldOrNew(w) ==
    \A u \in User, t \in RefreshToken :
      Holds(u, t)' => Holds(u, t) \/ (u = w /\ t = issued + 1 /\ issued' = issued + 1)

LEMMA OwnedNext ==
    ASSUME DelegationTypeOK, TokensOwned, NEW w, HeldOrNew(w),
           issued' = issued \/ issued' = issued + 1
    PROVE  TokensOwned'
<1> SUFFICES ASSUME NEW u \in User, NEW t \in RefreshToken, Holds(u, t)'
             PROVE  t <= issued' /\ \A v \in User : Holds(v, t)' => v = u
  BY DEF TokensOwned
<1>0. issued \in Nat /\ t \in Nat
  BY DEF DelegationTypeOK, RefreshToken
<1>1. CASE Holds(u, t)
  <2>1. t <= issued
    BY <1>1 DEF TokensOwned
  <2>2. ASSUME NEW v \in User, Holds(v, t)' PROVE v = u
    <3>1. Holds(v, t)
      BY <1>0, <2>1, <2>2 DEF HeldOrNew
    <3> QED
      BY <1>1, <3>1 DEF TokensOwned
  <2> QED
    BY <1>0, <2>1, <2>2
<1>2. CASE u = w /\ t = issued + 1 /\ issued' = issued + 1
  <2>1. ASSUME NEW v \in User, Holds(v, t)' PROVE v = u
    <3>1. ~Holds(v, t)
      BY <1>0, <1>2 DEF TokensOwned
    <3> QED
      BY <1>2, <2>1, <3>1 DEF HeldOrNew
  <2> QED
    BY <1>0, <1>2, <2>1
<1> QED
  BY <1>1, <1>2 DEF HeldOrNew

\* A step after which u holds nothing new, and its calls are still under way.
UserStays(u) ==
    /\ \A t \in RefreshToken : Holds(u, t) /\ t \in alive => t \in alive'
    /\ \A k \in Slot : call'[k].pc \in {"drop", "refresh", "save"} /\ call'[k].user = u =>
         call'[k] = call[k]
    /\ Obtaining(u)' = {} => Obtaining(u) = {}
    /\ \/ credential'[u] = credential[u]
       \/ credential'[u] = None /\ ~past'[u].authorized
       \/ /\ credential[u] # None /\ credential'[u] # None
          /\ credential'[u].refresh = credential[u].refresh
    /\ past'[u].authorized => past[u].authorized

LEMMA KeptStays ==
    ASSUME DelegationTypeOK, NEW u \in User, Kept(u), UserStays(u)
    PROVE  Kept(u)'
<1>0. /\ call \in [Slot -> Call]
      /\ \A k \in Slot : call[k].pc = "refresh" => call[k].token \in RefreshToken
      /\ \A k \in Slot : call[k].pc = "save" => call[k].token \in RefreshToken \union {None}
      /\ credential[u] # None => credential[u].refresh \in RefreshToken \union {None}
  BY CallFields DEF DelegationTypeOK, Credential
<1>1. \A k \in Slot, pc \in {"drop", "refresh", "save"} :
        CallOf(k, u, pc)' => CallOf(k, u, pc) /\ call'[k] = call[k]
  BY DEF UserStays, CallOf
<1>2. \A k \in Slot : CallOf(k, u, "refresh")' =>
        /\ call'[k].token \in alive'
        /\ \A j \in Slot \ {k} :
             /\ ~CallOf(j, u, "refresh")'
             /\ CallOf(j, u, "save")' => call'[j].token # call'[k].token
  <2> SUFFICES ASSUME NEW k \in Slot, CallOf(k, u, "refresh")'
               PROVE  /\ call'[k].token \in alive'
                      /\ \A j \in Slot \ {k} :
                           /\ ~CallOf(j, u, "refresh")'
                           /\ CallOf(j, u, "save")' => call'[j].token # call'[k].token
    OBVIOUS
  <2>1. CallOf(k, u, "refresh") /\ call'[k] = call[k]
    BY <1>1
  <2>2. Holds(u, call[k].token) /\ call[k].token \in alive
    BY <2>1 DEF Holds, CallOf, Kept
  <2>3. call'[k].token \in alive'
    BY <1>0, <2>1, <2>2 DEF UserStays, CallOf
  <2>4. \A j \in Slot \ {k} : ~CallOf(j, u, "refresh")'
    BY <1>1, <2>1 DEF Kept
  <2>5. \A j \in Slot \ {k} : CallOf(j, u, "save")' => call'[j].token # call'[k].token
    BY <1>1, <2>1 DEF Kept
  <2> QED
    BY <2>3, <2>4, <2>5
<1>3. ASSUME NEW k \in Slot, CallOf(k, u, "save")' PROVE call'[k].token \in alive' \union {None}
  <2>1. CallOf(k, u, "save") /\ call'[k] = call[k]
    BY <1>1, <1>3
  <2>2. Holds(u, call[k].token) /\ call[k].token \in alive \union {None}
    BY <2>1 DEF Holds, CallOf, Kept
  <2> QED
    BY <1>0, <2>1, <2>2 DEF UserStays, CallOf
<1>4. ASSUME Obtaining(u)' = {}, credential'[u] # None
      PROVE  credential'[u].refresh \in alive' \union {None}
  <2>1. credential[u] # None /\ credential'[u].refresh = credential[u].refresh
    BY <1>4 DEF UserStays
  <2>2. credential[u].refresh \in alive \union {None} /\ Holds(u, credential[u].refresh)
    BY <1>4, <2>1 DEF UserStays, Kept, Holds
  <2> QED
    BY <1>0, <2>1, <2>2 DEF UserStays
<1>5. past'[u].authorized => credential'[u] # None /\ credential'[u].refresh # None
  BY DEF UserStays, Kept
<1>6. \A k \in Slot : ~CallOf(k, u, "drop")'
  BY <1>1 DEF Kept
<1> QED
  BY <1>2, <1>3, <1>4, <1>5, <1>6 DEF Kept
LEMMA UndisturbedBefore ==
    ASSUME DelegationTypeOK, DelegationStep, NEW u \in User, Undisturbed(u)'
    PROVE  Undisturbed(u) /\ ~\E kind : Fault(kind)
<1>0. faults \in FaultHistory /\ past \in [User -> Past]
  BY DEF DelegationTypeOK
<1>1. ~\E kind : Fault(kind)
  BY <1>0, FaultTyped DEF Undisturbed
<1>2. ASSUME NEW k \in Slot, TokenStep(k)
      PROVE  UNCHANGED faults /\ (past[u].overlapped => past'[u].overlapped)
  <2>1. UNCHANGED faults
    BY <1>1, <1>2 DEF TokenStep, ReadCredential, Refresh, Drop, NewGrant, Save, Reread, EndpointFails
  <2>2. CASE ReadCredential(k)
    BY <1>0, <2>2 DEF ReadCredential, Past
  <2>3. CASE Save(k)
    BY <1>0, <2>3 DEF Save, Past
  <2>4. CASE UNCHANGED past
    BY <2>1, <2>4
  <2> QED
    BY <1>2, <2>1, <2>2, <2>3, <2>4 DEF TokenStep, Refresh, Drop, NewGrant, Reread
<1>3. CASE \E k \in Slot : CallStep(k)
  BY <1>1, <1>3 DEF CallStep, tokenVars, Undisturbed
<1>4. CASE \/ \E k \in Slot, w \in User : EstablishTokenExchange(k, w)
           \/ \E w \in User, a \in Ceremony : BeginAuthorization(w, a)
           \/ \E w \in User : Revoke(w)
  <2>1. UNCHANGED faults
    BY <1>4 DEF EstablishTokenExchange, BeginAuthorization, Revoke
  <2>2. \E w \in User : \/ past' = [past EXCEPT ![w].revoked = "no"]
                        \/ \E x : past' = [past EXCEPT ![w].revoked = x, ![w].authorized = FALSE]
    BY <1>4 DEF EstablishTokenExchange, BeginAuthorization, Revoke
  <2>3. PICK w \in User : \/ past' = [past EXCEPT ![w].revoked = "no"]
                         \/ \E x : past' = [past EXCEPT ![w].revoked = x, ![w].authorized = FALSE]
    BY <2>2
  <2>4. CASE u # w
    BY <1>0, <1>1, <2>1, <2>3, <2>4 DEF Undisturbed
  <2>5. CASE u = w
    <3>1. past'[u].overlapped = past[u].overlapped
      BY <1>0, <2>3, <2>5 DEF Past
    <3> QED
      BY <1>1, <2>1, <3>1 DEF Undisturbed
  <2> QED
    BY <2>4, <2>5
<1>5. CASE UNCHANGED <<past, faults>>
  BY <1>1, <1>5 DEF Undisturbed
<1>6. CASE \E k \in Slot : TokenStep(k)
  BY <1>1, <1>2, <1>6 DEF Undisturbed
<1> QED
  BY <1>1, <1>3, <1>4, <1>5, <1>6
  DEF DelegationStep, CompleteAuthorization, CredentialAges, LoginRunsOut, delegationVars

\* Steps that obtain nothing: calls may begin, credentials age or are deleted.
QuietStep ==
    /\ UNCHANGED serverVars
    /\ \A k \in Slot : call[k].pc \notin CallOver => call'[k] = call[k]
    /\ \A k \in Slot : call'[k] = call[k] \/ call'[k].pc \notin {"drop", "refresh", "save"}
    /\ \A u \in User :
         /\ \/ credential'[u] = credential[u]
            \/ credential'[u] = None /\ ~past'[u].authorized
            \/ /\ credential[u] # None /\ credential'[u] # None
               /\ credential'[u].refresh = credential[u].refresh
         /\ past'[u].authorized => past[u].authorized

LEMMA QuietKeeps ==
    ASSUME DelegationTypeOK, QuietStep
    PROVE  (\A w : HeldOrNew(w)) /\ \A u \in User : UserStays(u)
<1>1. \A u \in User, t \in RefreshToken : Holds(u, t)' => Holds(u, t)
  <2> SUFFICES ASSUME NEW u \in User, NEW t \in RefreshToken, Holds(u, t)' PROVE Holds(u, t)
    OBVIOUS
  <2>1. CASE credential'[u] # None /\ credential'[u].refresh = t
    BY <2>1 DEF QuietStep, Holds
  <2>2. CASE \E k \in Slot : call'[k].pc \in {"refresh", "save"} /\ call'[k].user = u
                              /\ call'[k].token = t
    BY <2>2 DEF QuietStep, Holds
  <2> QED
    BY <2>1, <2>2 DEF Holds
<1>2. ASSUME NEW u \in User PROVE UserStays(u)
  <2>1. Obtaining(u)' = {} => Obtaining(u) = {}
    BY DEF QuietStep, Obtaining, CallOver
  <2> QED
    BY <2>1 DEF UserStays, QuietStep, serverVars
<1> QED
  BY <1>1, <1>2 DEF HeldOrNew

LEMMA QuietSteps ==
    ASSUME DelegationTypeOK, DelegationStep, ~\E k \in Slot : TokenStep(k),
           \A k \in Slot : call[k].pc \notin CallOver => call'[k] = call[k]
    PROVE  QuietStep
<1> USE DEF DelegationTypeOK
<1>1. ASSUME NEW k \in Slot, NEW next, Become(k, next), next.pc \notin {"drop", "refresh", "save"}
      PROVE  \A j \in Slot : call'[j] = call[j] \/ call'[j].pc \notin {"drop", "refresh", "save"}
  BY <1>1 DEF Become
<1>2. ASSUME NEW k \in Slot, CallStep(k) PROVE QuietStep
  <2>1. UNCHANGED <<serverVars, credential, past>>
    BY <1>2 DEF CallStep, tokenVars, storeVars
  <2>2. UNCHANGED call \/ \E next : Become(k, next) /\ next.pc \notin {"drop", "refresh", "save"}
    <3>1. NoCall.pc = "none"
      BY DEF NoCall
    <3>2. ASSUME NEW u, AskForToken(k, u) PROVE \E next : Become(k, next) /\ next.pc \in {"got", "read"}
      <4>1. [pc |-> IF u = None THEN "got" ELSE "read", user |-> u].pc \in {"got", "read"}
        OBVIOUS
      <4> QED
        BY <3>2, <4>1 DEF AskForToken
    <3> QED
      BY <1>2, <3>1, <3>2 DEF CallStep
  <2> QED
    BY <1>1, <2>1, <2>2 DEF QuietStep
<1>3. ASSUME NEW k \in Slot, NEW a \in Ceremony, CompleteAuthorization(k, a) PROVE QuietStep
  <2>1. UNCHANGED <<serverVars, credential, past>>
    BY <1>3 DEF CompleteAuthorization
  <2>2. \E next : Become(k, next) /\ next.pc \notin {"drop", "refresh", "save"}
    BY <1>3 DEF CompleteAuthorization, NoCall
  <2> QED
    BY <1>1, <2>1, <2>2 DEF QuietStep
<1>4. ASSUME NEW k \in Slot, NEW w \in User, EstablishTokenExchange(k, w) PROVE QuietStep
  <2>1. UNCHANGED <<serverVars, credential>>
        /\ \A u \in User : past'[u].authorized = past[u].authorized
    BY <1>4 DEF EstablishTokenExchange, storeVars, Past
  <2>2. \E next : Become(k, next) /\ next.pc \notin {"drop", "refresh", "save"}
    BY <1>4 DEF EstablishTokenExchange
  <2> QED
    BY <1>1, <2>1, <2>2 DEF QuietStep
<1>5. ASSUME NEW w \in User, NEW a \in Ceremony, BeginAuthorization(w, a) PROVE QuietStep
  <2>1. UNCHANGED <<serverVars, credential, call>>
        /\ \A u \in User : past'[u].authorized = past[u].authorized
    BY <1>5 DEF BeginAuthorization, Past
  <2> QED
    BY <2>1 DEF QuietStep
<1>6. ASSUME NEW w \in User, Revoke(w) PROVE QuietStep
  <2>1. UNCHANGED <<serverVars, call>> /\ credential'[w] = None /\ ~past'[w].authorized
        /\ \A u \in User \ {w} : credential'[u] = credential[u] /\ past'[u] = past[u]
    BY <1>6 DEF Revoke, DeleteCredential, Past
  <2> QED
    BY <2>1 DEF QuietStep
<1>7. ASSUME NEW w \in User, CredentialAges(w) PROVE QuietStep
  <2>1. UNCHANGED <<serverVars, call, past>>
    BY <1>7 DEF CredentialAges
  <2>2. credential[w] \in Credential /\ credential' = [credential EXCEPT ![w].fresh = FALSE]
    BY <1>7 DEF CredentialAges
  <2>3. /\ credential'[w] \in Credential
        /\ credential'[w].refresh = credential[w].refresh
        /\ \A u \in User \ {w} : credential'[u] = credential[u]
    BY <2>2 DEF Credential
  <2> QED
    BY <2>1, <2>2, <2>3, CredentialAssumption DEF QuietStep
<1>8. CASE \/ \E a \in Ceremony : LoginRunsOut(a)
           \/ UNCHANGED delegationVars
  BY <1>8 DEF LoginRunsOut, delegationVars, serverVars, QuietStep
<1>9. CASE UNCHANGED tokenVars /\ call' = [k \in Slot |-> NoCall]
  BY <1>9 DEF tokenVars, storeVars, QuietStep, NoCall
<1> QED
  BY <1>2, <1>3, <1>4, <1>5, <1>6, <1>7, <1>8, <1>9 DEF DelegationStep

\* The steps of obtaining a token for u.
LEMMA TokenStepOwns ==
    ASSUME DelegationTypeOK, NEW k \in Slot, TokenStep(k)
    PROVE  /\ HeldOrNew(call[k].user)
           /\ issued' = issued \/ issued' = issued + 1
<1> USE DEF DelegationTypeOK
<1>0. call[k] \in Call
  OBVIOUS
<1>1. issued' = issued \/ issued' = issued + 1
  BY DEF TokenStep, ReadCredential, Refresh, Drop, NewGrant, Save, Reread, serverVars
<1>2. ASSUME NEW next, Become(k, next), next.pc \notin {"refresh", "save"},
             \A u \in User : credential'[u] \in {credential[u], None}
      PROVE  HeldOrNew(call[k].user)
  <2>1. ASSUME NEW u \in User, NEW t \in RefreshToken, Holds(u, t)' PROVE Holds(u, t)
    <3>1. CASE credential'[u] # None /\ credential'[u].refresh = t
      BY <1>2, <2>1, <3>1 DEF Holds
    <3>2. ASSUME NEW j \in Slot, call'[j].pc \in {"refresh", "save"}, call'[j].user = u,
                 call'[j].token = t
          PROVE  Holds(u, t)
      BY <1>2, <3>2 DEF Holds, Become
    <3> QED
      BY <2>1, <3>1, <3>2 DEF Holds
  <2> QED
    BY <2>1 DEF HeldOrNew
<1>9. ASSUME NEW pc, NEW x, Become(k, [pc |-> pc, user |-> call[k].user, token |-> x]),
             UNCHANGED credential,
             \/ x = None
             \/ Holds(call[k].user, x)
             \/ x = issued + 1 /\ issued' = issued + 1
      PROVE  HeldOrNew(call[k].user)
  <2>0. None \notin RefreshToken
    BY DelegationNoneAssumption DEF RefreshToken
  <2>1. ASSUME NEW u \in User, NEW t \in RefreshToken, Holds(u, t)'
        PROVE  Holds(u, t) \/ (u = call[k].user /\ t = issued + 1 /\ issued' = issued + 1)
    <3>1. CASE credential'[u] # None /\ credential'[u].refresh = t
      BY <1>9, <2>1, <3>1 DEF Holds
    <3>2. ASSUME NEW j \in Slot, call'[j].pc \in {"refresh", "save"}, call'[j].user = u,
                 call'[j].token = t
          PROVE  Holds(u, t) \/ (u = call[k].user /\ t = issued + 1 /\ issued' = issued + 1)
      <4>1. CASE j = k
        BY <1>9, <2>0, <3>2, <4>1 DEF Become
      <4>2. CASE j # k
        BY <1>9, <3>2, <4>2 DEF Become, Holds
      <4> QED
        BY <4>1, <4>2
    <3> QED
      BY <2>1, <3>1, <3>2 DEF Holds
  <2> QED
    BY <2>1 DEF HeldOrNew
<1>3. CASE ReadCredential(k)
  <2>1. PICK u, c : u = call[k].user /\ c = credential[u]
    OBVIOUS
  <2>2. u \in User /\ UNCHANGED credential
    BY <1>0, <1>3, <2>1, CallFields DEF ReadCredential, At, storeVars
  <2>3. CASE /\ c # None /\ c.refresh # None
             /\ Become(k, [pc |-> "refresh", user |-> u, token |-> c.refresh])
    <3>1. Holds(u, c.refresh)
      BY <2>1, <2>3 DEF Holds
    <3> QED
      BY <1>1, <1>9, <2>1, <2>2, <2>3, <3>1
  <2>4. CASE \E next : Become(k, next) /\ next.pc \notin {"refresh", "save"}
    BY <1>1, <1>2, <2>2, <2>4
  <2>5. CASE Become(k, [pc |-> "got", user |-> u]) \/ Become(k, WithoutCredential(u))
    <3>1. [pc |-> "got", user |-> u].pc = "got" /\ WithoutCredential(u).pc \in {"exchange", "failed"}
      BY <2>2, WithoutCredentialIsCall
    <3> QED
      BY <2>4, <2>5, <3>1
  <2> QED
    BY <1>3, <2>1, <2>3, <2>5 DEF ReadCredential
<1>4. CASE Refresh(k)
  <2>1. PICK u, t : u = call[k].user /\ t = call[k].token
    OBVIOUS
  <2>2. u \in User /\ t \in RefreshToken /\ UNCHANGED credential /\ Holds(u, t)
    BY <1>0, <1>4, <2>1, CallFields DEF Refresh, At, storeVars, Holds
  <2>3. issued + 1 # None /\ issued + 1 \in Nat
    BY DelegationNoneAssumption
  <2>4. CASE Become(k, [pc |-> "save", user |-> u, token |-> issued + 1]) /\ issued' = issued + 1
    BY <1>1, <1>9, <2>1, <2>2, <2>4
  <2>5. CASE Become(k, [pc |-> "save", user |-> u, token |-> t])
    BY <1>1, <1>9, <2>1, <2>2, <2>5
  <2>6. CASE Become(k, [pc |-> "drop", user |-> u]) \/ Become(k, [pc |-> "failed", user |-> u])
    <3>1. PICK next : Become(k, next) /\ next.pc \in {"drop", "failed"}
      BY <2>6
    <3> QED
      BY <1>1, <1>2, <2>2, <3>1
  <2> QED
    BY <1>4, <2>1, <2>3, <2>4, <2>5, <2>6 DEF Refresh, TokenToStore, EndpointFails, Move
<1>5. CASE Drop(k)
  <2>1. PICK u \in User : u = call[k].user
    BY <1>0, <1>5, CallFields DEF Drop, At
  <2>2. Become(k, WithoutCredential(u)) /\ WithoutCredential(u).pc \in {"exchange", "failed"}
        /\ \A w \in User : credential'[w] \in {credential[w], None}
    BY <1>5, <2>1, WithoutCredentialIsCall DEF Drop, DeleteCredential
  <2> QED
    BY <1>1, <1>2, <2>2
<1>6. CASE NewGrant(k)
  <2>1. PICK u \in User : u = call[k].user
    BY <1>0, <1>6, CallFields DEF NewGrant, At
  <2>2. UNCHANGED credential /\ None \notin RefreshToken
    BY <1>6, DelegationNoneAssumption DEF NewGrant, storeVars, RefreshToken
  <2>3. CASE Become(k, [pc |-> "save", user |-> u, token |-> issued + 1]) /\ issued' = issued + 1
    BY <1>1, <1>9, <2>1, <2>2, <2>3
  <2>4. CASE Become(k, [pc |-> "save", user |-> u, token |-> None])
    BY <1>1, <1>9, <2>1, <2>2, <2>4
  <2>5. CASE Become(k, [pc |-> "failed", user |-> u])
    <3>1. PICK next : Become(k, next) /\ next.pc = "failed"
      BY <2>5
    <3> QED
      BY <1>1, <1>2, <2>2, <3>1
  <2> QED
    BY <1>6, <2>1, <2>3, <2>4, <2>5 DEF NewGrant, EndpointFails, Move
<1>7. CASE Save(k)
  <2>1. PICK u \in User, t \in RefreshToken \union {None} : u = call[k].user /\ t = call[k].token
    BY <1>0, <1>7, CallFields DEF Save, At
  <2>2. /\ Become(k, [pc |-> "reread", user |-> u])
        /\ credential' = [credential EXCEPT ![u] = [fresh |-> TRUE, refresh |-> t]]
        /\ Holds(u, t)
    BY <1>7, <2>1 DEF Save, Move, Holds, At
  <2>3. ASSUME NEW w \in User, NEW x \in RefreshToken, Holds(w, x)' PROVE Holds(w, x)
    <3>1. CASE credential'[w] # None /\ credential'[w].refresh = x
      BY <2>2, <3>1 DEF Holds
    <3>2. ASSUME NEW j \in Slot, call'[j].pc \in {"refresh", "save"}, call'[j].user = w,
                 call'[j].token = x
          PROVE  Holds(w, x)
      BY <2>2, <3>2 DEF Holds, Become
    <3> QED
      BY <2>3, <3>1, <3>2 DEF Holds
  <2> QED
    BY <1>1, <2>3 DEF HeldOrNew
<1>8. CASE Reread(k)
  <2>1. UNCHANGED credential /\ \E next : Become(k, next) /\ next.pc \in {"got", "failed"}
    BY <1>8 DEF Reread, storeVars, Move
  <2>2. PICK next : Become(k, next) /\ next.pc \in {"got", "failed"}
    BY <2>1
  <2> QED
    BY <1>1, <1>2, <2>1, <2>2
<1> QED
  BY <1>1, <1>3, <1>4, <1>5, <1>6, <1>7, <1>8 DEF TokenStep
\* One of these steps leaves the credential of another user alone.
LEMMA TokenStepStays ==
    ASSUME DelegationTypeOK, TokensOwned, NEW k \in Slot, TokenStep(k),
           NEW u \in User, call[k].user # u
    PROVE  UserStays(u)
<1> USE DEF DelegationTypeOK
<1>0. call[k] \in Call
  OBVIOUS
<1>1. PICK w, next : w = call[k].user /\ w # u /\ Become(k, next) /\ next.user = w
  <2>1. call[k].pc # "none" /\ call[k].user \in User
    BY <1>0, CallFields DEF TokenStep, ReadCredential, Refresh, Drop, NewGrant, Save, Reread, At
  <2>2. \E next : Become(k, next) /\ next.user = call[k].user
    <3>1. \A pc : [pc |-> pc, user |-> call[k].user].user = call[k].user
      OBVIOUS
    <3>2. \A pc, t : [pc |-> pc, user |-> call[k].user, token |-> t].user = call[k].user
      OBVIOUS
    <3>3. WithoutCredential(call[k].user).user = call[k].user
      BY <2>1, WithoutCredentialIsCall
    <3>4. CASE ReadCredential(k)
      BY <3>1, <3>2, <3>3, <3>4 DEF ReadCredential
    <3>5. CASE Refresh(k) \/ NewGrant(k)
      BY <3>1, <3>2, <3>5 DEF Refresh, NewGrant, EndpointFails, Move
    <3>6. CASE Drop(k) \/ Save(k) \/ Reread(k)
      BY <3>1, <3>3, <3>6 DEF Drop, Save, Reread, Move
    <3> QED
      BY <3>4, <3>5, <3>6 DEF TokenStep
  <2> QED
    BY <2>2
<1>2. /\ \A j \in Slot : call'[j].user = u => call'[j] = call[j]
      /\ \A j \in Slot : call[j].user = u => call'[j] = call[j]
  BY <1>1 DEF Become
<1>3. credential'[u] = credential[u] /\ past'[u] = past[u]
  <2>1. UNCHANGED past \/ \E x : past' = [past EXCEPT ![w].overlapped = x]
          \/ past' = [past EXCEPT ![w].authorized = x]
    BY <1>1 DEF TokenStep, ReadCredential, Refresh, Drop, NewGrant, Save, Reread
  <2>2. UNCHANGED credential \/ \E x : credential' = [credential EXCEPT ![w] = x]
    BY <1>1 DEF TokenStep, ReadCredential, Refresh, Drop, NewGrant, Save, Reread, storeVars,
       DeleteCredential
  <2> QED
    BY <1>1, <2>1, <2>2
<1>4. \A t \in RefreshToken : Holds(u, t) /\ t \in alive => t \in alive'
  <2>1. CASE Refresh(k)
    <3>1. w \in User /\ call[k].token \in RefreshToken /\ Holds(w, call[k].token)
      BY <1>0, <1>1, <2>1, CallFields DEF Refresh, At, Holds
    <3>2. alive \ {call[k].token} \subseteq alive'
      BY <2>1 DEF Refresh, serverVars
    <3>3. \A t \in RefreshToken : Holds(u, t) => t # call[k].token
      BY <1>1, <3>1 DEF TokensOwned
    <3> QED
      BY <3>2, <3>3
  <2>2. CASE ~Refresh(k)
    BY <2>2 DEF TokenStep, ReadCredential, Drop, NewGrant, Save, Reread, serverVars
  <2> QED
    BY <2>1, <2>2
<1>5. Obtaining(u)' = {} => Obtaining(u) = {}
  BY <1>2 DEF Obtaining
<1> QED
  BY <1>2, <1>3, <1>4, <1>5 DEF UserStays

\* The call in slot k ends its part in what u holds, and the store stays.
LEMMA CallEnds ==
    ASSUME DelegationTypeOK, NEW u \in User, Kept(u), NEW k \in Slot, NEW next, Become(k, next),
           next.pc \notin {"drop", "refresh", "save"}, UNCHANGED <<credential, alive>>,
           past'[u].authorized = past[u].authorized, k \notin Obtaining(u)
    PROVE  Kept(u)'
<1>1. UserStays(u)
  <2>1. Obtaining(u)' = {} => Obtaining(u) = {}
    BY DEF Obtaining, Become, DelegationTypeOK
  <2>2. \A j \in Slot : call'[j].pc \in {"drop", "refresh", "save"} => call'[j] = call[j]
    BY DEF Become, DelegationTypeOK
  <2> QED
    BY <2>1, <2>2 DEF UserStays
<1> QED
  BY <1>1, KeptStays

\* The call in slot k has obtained a token for u, to be stored.
LEMMA TokenObtained ==
    ASSUME DelegationTypeOK, NEW u \in User, Kept(u), NEW k \in Slot, NEW x,
           Become(k, [pc |-> "save", user |-> u, token |-> x]),
           x \in alive' \union {None},
           \A j \in Slot \ {k} : CallOf(j, u, "refresh") => call[j].token # x,
           \A j \in Slot \ {k} :
             /\ CallOf(j, u, "refresh") => call[j].token \in alive'
             /\ CallOf(j, u, "save") => call[j].token \in alive' \union {None},
           UNCHANGED <<credential, past>>
    PROVE  Kept(u)'
<1>1. /\ call'[k] = [pc |-> "save", user |-> u, token |-> x]
      /\ \A j \in Slot \ {k} : call'[j] = call[j]
  BY DEF Become, DelegationTypeOK
<1>2. k \in Obtaining(u)'
  BY <1>1 DEF Obtaining
<1>3. \A j \in Slot : CallOf(j, u, "refresh")' =>
        /\ j # k /\ call'[j].token \in alive'
        /\ \A i \in Slot \ {j} :
             /\ ~CallOf(i, u, "refresh")'
             /\ CallOf(i, u, "save")' => call'[i].token # call'[j].token
  BY <1>1 DEF CallOf, Kept
<1>4. \A j \in Slot : CallOf(j, u, "save")' => call'[j].token \in alive' \union {None}
  BY <1>1 DEF CallOf
<1>5. \A j \in Slot : ~CallOf(j, u, "drop")'
  BY <1>1 DEF CallOf, Kept
<1> QED
  BY <1>2, <1>3, <1>4, <1>5 DEF Kept

LEMMA TokenStepKeeps ==
    ASSUME DelegationTypeOK, TokensOwned, NEW k \in Slot, TokenStep(k),
           NEW u \in User, Kept(u), Undisturbed(u)', ~\E kind : Fault(kind)
    PROVE  Kept(u)'
<1> USE DEF DelegationTypeOK
<1>0. call[k] \in Call /\ None \notin RefreshToken /\ issued \in Nat
  BY DelegationNoneAssumption DEF RefreshToken
<1>1. CASE call[k].user # u
  BY <1>1, TokenStepStays, KeptStays
<1>2. CASE call[k].user = u /\ ReadCredential(k)
  <2>1. PICK c : c = credential[u]
    OBVIOUS
  <2>2. /\ UNCHANGED <<credential, alive>> /\ past'[u].authorized = past[u].authorized
        /\ k \notin Obtaining(u)
    BY <1>2 DEF ReadCredential, storeVars, serverVars, Obtaining, At, Past
  <2>3. CASE \E next : Become(k, next) /\ next.pc \in {"got", "exchange", "failed"}
    <3>1. PICK next : Become(k, next) /\ next.pc \in {"got", "exchange", "failed"}
      BY <2>3
    <3> QED
      BY <2>2, <3>1, CallEnds
  <2>4. CASE /\ c # None /\ ~c.fresh /\ c.refresh # None
             /\ Become(k, [pc |-> "refresh", user |-> u, token |-> c.refresh])
    <3>1. Obtaining(u) = {}
      <4>1. past' = [past EXCEPT ![u].overlapped = @ \/ (c # None /\ ~c.fresh /\ c.refresh # None
                                                          /\ Obtaining(u) # {})]
        BY <1>2, <2>1 DEF ReadCredential
      <4>2. past[u] \in Past
        OBVIOUS
      <4>3. Obtaining(u) # {} => past'[u].overlapped
        BY <2>4, <4>1, <4>2 DEF Past
      <4> QED
        BY <4>3 DEF Undisturbed
    <3>2. c.refresh \in alive
      BY <2>1, <2>4, <3>1 DEF Kept
    <3>3. /\ call'[k] = [pc |-> "refresh", user |-> u, token |-> c.refresh]
          /\ \A j \in Slot \ {k} : call'[j] = call[j]
      BY <2>4 DEF Become
    <3>4. \A j \in Slot \ {k} : ~CallOf(j, u, "refresh")' /\ ~CallOf(j, u, "save")'
      BY <3>1, <3>3 DEF CallOf, Obtaining
    <3>5. ~CallOf(k, u, "save")' /\ call'[k].token \in alive' /\ k \in Obtaining(u)'
      BY <2>2, <3>2, <3>3 DEF CallOf, Obtaining
    <3>6. \A j \in Slot : ~CallOf(j, u, "drop")'
      BY <3>3 DEF CallOf, Kept
    <3>7. past'[u].authorized => credential'[u] # None /\ credential'[u].refresh # None
      BY <2>2 DEF Kept
    <3> QED
      BY <3>4, <3>5, <3>6, <3>7 DEF Kept
  <2>5. CASE Become(k, [pc |-> "got", user |-> u]) \/ Become(k, WithoutCredential(u))
    <3>1. [pc |-> "got", user |-> u].pc = "got" /\ WithoutCredential(u).pc \in {"exchange", "failed"}
      BY WithoutCredentialIsCall
    <3> QED
      BY <2>3, <2>5, <3>1
  <2> QED
    BY <1>2, <2>1, <2>4, <2>5 DEF ReadCredential
<1>3. CASE call[k].user = u /\ Refresh(k)
  <2>1. PICK t \in RefreshToken : t = call[k].token /\ CallOf(k, u, "refresh")
    BY <1>0, <1>3, CallFields DEF Refresh, At, CallOf
  <2>2. /\ t \in alive /\ t \in 1..issued
        /\ \A j \in Slot \ {k} :
             /\ ~CallOf(j, u, "refresh")
             /\ CallOf(j, u, "save") => call[j].token \in (alive \ {t}) \union {None}
    BY <2>1 DEF Kept
  <2>3. UNCHANGED <<credential, past>>
    BY <1>3 DEF Refresh, storeVars
  <2>4. CASE /\ alive' = (alive \ {t}) \union {issued + 1}
             /\ Become(k, [pc |-> "save", user |-> u, token |-> issued + 1])
    BY <2>2, <2>3, <2>4, TokenObtained
  <2>5. CASE alive' = alive /\ Become(k, [pc |-> "save", user |-> u, token |-> t])
    BY <2>2, <2>3, <2>5, TokenObtained
  <2>6. issued + 1 # None
    BY <1>0, DelegationNoneAssumption
  <2> QED
    BY <1>3, <2>1, <2>2, <2>4, <2>5, <2>6 DEF Refresh, TokenToStore, EndpointFails, serverVars
<1>4. CASE call[k].user = u /\ Drop(k)
  BY <1>4 DEF Drop, At, CallOf, Kept
<1>5. CASE call[k].user = u /\ NewGrant(k)
  <2>1. UNCHANGED <<credential, past>>
    BY <1>5 DEF NewGrant, storeVars
  <2>2. \A j \in Slot \ {k} :
          /\ CallOf(j, u, "refresh") => call[j].token \in alive /\ call[j].token \in RefreshToken
          /\ CallOf(j, u, "save") => call[j].token \in alive \union {None}
    BY <1>0, CallFields DEF Kept, CallOf
  <2>3. alive \subseteq 1..issued
    OBVIOUS
  <2>4. CASE /\ alive' = alive \union {issued + 1}
             /\ Become(k, [pc |-> "save", user |-> u, token |-> issued + 1])
    <3>1. \A j \in Slot \ {k} : CallOf(j, u, "refresh") => call[j].token # issued + 1
      BY <1>0, <2>2, <2>3
    <3> QED
      BY <2>1, <2>2, <2>4, <3>1, TokenObtained
  <2>5. CASE alive' = alive /\ Become(k, [pc |-> "save", user |-> u, token |-> None])
    BY <1>0, <2>1, <2>2, <2>5, TokenObtained
  <2> QED
    BY <1>5, <2>4, <2>5 DEF NewGrant, EndpointFails, serverVars
<1>6. CASE call[k].user = u /\ Save(k)
  <2>1. PICK t \in RefreshToken \union {None} : t = call[k].token /\ CallOf(k, u, "save")
    BY <1>0, <1>6, CallFields DEF Save, At, CallOf
  <2>2. /\ credential'[u] = [fresh |-> TRUE, refresh |-> t]
        /\ past'[u].authorized = (t # None)
        /\ alive' = alive
        /\ call'[k] = [pc |-> "reread", user |-> u]
        /\ \A j \in Slot \ {k} : call'[j] = call[j]
    BY <1>6, <2>1 DEF Save, serverVars, Past, Move, Become
  <2>3. /\ t \in alive \union {None}
        /\ credential'[u] # None
        /\ credential'[u].refresh = t
    <3>1. [fresh |-> TRUE, refresh |-> t] \in Credential
      BY DEF Credential
    <3>2. call[k].token \in alive \union {None}
      BY <2>1 DEF Kept
    <3>3. [fresh |-> TRUE, refresh |-> t].refresh = t
      OBVIOUS
    <3>4. credential'[u] # None
      BY <2>2, <3>1, CredentialAssumption
    <3> QED
      BY <2>1, <2>2, <3>2, <3>3, <3>4
  <2>4. \A j \in Slot, pc \in {"drop", "refresh", "save"} :
          CallOf(j, u, pc)' => j # k /\ CallOf(j, u, pc) /\ call'[j] = call[j]
    BY <2>2 DEF CallOf
  <2>5. \A j \in Slot : CallOf(j, u, "refresh")' =>
          /\ call'[j].token \in alive'
          /\ \A i \in Slot \ {j} :
               /\ ~CallOf(i, u, "refresh")'
               /\ CallOf(i, u, "save")' => call'[i].token # call'[j].token
    BY <2>2, <2>4 DEF Kept
  <2>6. \A j \in Slot : CallOf(j, u, "save")' => call'[j].token \in alive' \union {None}
    BY <2>2, <2>4 DEF Kept
  <2>7. \A j \in Slot : ~CallOf(j, u, "drop")'
    BY <2>4 DEF Kept
  <2>8. past'[u].authorized => credential'[u] # None /\ credential'[u].refresh # None
    BY <2>2, <2>3
  <2> QED
    BY <2>2, <2>3, <2>5, <2>6, <2>7, <2>8 DEF Kept
<1>7. CASE call[k].user = u /\ Reread(k)
  <2>1. PICK next : Become(k, next) /\ next.pc \in {"got", "failed"}
    BY <1>7 DEF Reread, Move
  <2>2. UNCHANGED <<credential, alive, past>> /\ k \notin Obtaining(u)
    BY <1>7 DEF Reread, storeVars, serverVars, At, Obtaining
  <2> QED
    BY <2>1, <2>2, CallEnds
<1> QED
  BY <1>1, <1>2, <1>3, <1>4, <1>5, <1>6, <1>7 DEF TokenStep

LEMMA TokenInvNext ==
    ASSUME TypeOK, TokenInv, [Next]_vars
    PROVE  TokenInv'
<1>0. DelegationTypeOK /\ DelegationStep /\ CallsMatch'
  BY NextIsDelegationStep, CallsMatchNext DEF TypeOK, TokenInv
<1>1. ASSUME NEW k \in Slot, TokenStep(k)
      PROVE  TokensOwned' /\ \A u \in User : Undisturbed(u)' => Kept(u)'
  <2>1. TokensOwned'
    BY <1>0, <1>1, TokenStepOwns, OwnedNext DEF TokenInv
  <2>2. ASSUME NEW u \in User, Undisturbed(u)' PROVE Kept(u)'
    <3>1. Undisturbed(u) /\ ~\E kind : Fault(kind)
      BY <1>0, <2>2, UndisturbedBefore
    <3> QED
      BY <1>0, <1>1, <2>2, <3>1, TokenStepKeeps DEF TokenInv
  <2> QED
    BY <2>1, <2>2
<1>2. CASE QuietStep
  <2>1. TokensOwned'
    <3>1. HeldOrNew(None) /\ issued' = issued
      BY <1>0, <1>2, QuietKeeps DEF QuietStep, serverVars
    <3> QED
      BY <1>0, <3>1, OwnedNext DEF TokenInv
  <2>2. ASSUME NEW u \in User, Undisturbed(u)' PROVE Kept(u)'
    <3>1. Undisturbed(u) /\ UserStays(u)
      BY <1>0, <1>2, <2>2, UndisturbedBefore, QuietKeeps
    <3> QED
      BY <1>0, <3>1, KeptStays DEF TokenInv
  <2> QED
    BY <1>0, <2>1, <2>2 DEF TokenInv
<1>3. CASE Crash
  <2>1. UNCHANGED <<credential, issued>> /\ call' = [k \in Slot |-> NoCall] /\ Fault("crash")
    BY <1>3 DEF Crash, tokenVars, storeVars, serverVars
  <2>2. HeldOrNew(None)
    BY <2>1 DEF HeldOrNew, Holds, NoCall
  <2>3. TokensOwned'
    BY <1>0, <2>1, <2>2, OwnedNext DEF TokenInv
  <2>4. \A u \in User : ~Undisturbed(u)'
    BY <1>0, <2>1, UndisturbedBefore
  <2> QED
    BY <1>0, <2>3, <2>4 DEF TokenInv
<1>4. CASE ~\E k \in Slot : TokenStep(k)
  <2>1. CASE Crash
    BY <1>3, <2>1
  <2>2. CASE (\E k \in Slot : SlotStep(k)) \/ UNCHANGED <<call, req>>
    <3>1. \A k \in Slot : call[k].pc \notin CallOver => call'[k] = call[k]
      BY <2>2 DEF SlotStep
    <3> QED
      BY <1>0, <1>2, <1>4, <3>1, QuietSteps
  <2> QED
    BY <1>4, <2>1, <2>2, StepsOfCalls DEF TokenInv, TokenRequest
<1> QED
  BY <1>0, <1>1, <1>4 DEF TokenInv

LEMMA TokenInvInit ==
    ASSUME Init
    PROVE  TokenInv
<1>1. /\ call = [k \in Slot |-> [pc |-> "none"]]
      /\ faults = NoFaults /\ alive = 1..issued /\ issued \in 0..MaxTokens[setting] /\ setting \in Setting
  BY DEF Init, DelegationInit
<1>2. issued \in Nat
  BY <1>1, BoundsAssumption
<1>3. CallsMatch
  BY <1>1 DEF CallsMatch, NoCall
<1>4. PICK authorized :
        /\ \E token \in Bijection(authorized, alive) :
             credential = [u \in User |->
               IF u \in authorized THEN [fresh |-> TRUE, refresh |-> token[u]] ELSE None]
        /\ past = [u \in User |-> [revoked |-> "no", authorized |-> u \in authorized,
                                   overlapped |-> FALSE]]
  BY DEF Init, DelegationInit
<1>10. PICK token \in Bijection(authorized, alive) :
         credential = [u \in User |->
           IF u \in authorized THEN [fresh |-> TRUE, refresh |-> token[u]] ELSE None]
  BY <1>4
<1>5. /\ \A u \in authorized : token[u] \in alive
      /\ \A u, v \in authorized : token[u] = token[v] => u = v
  BY <1>10 DEF Bijection, Injection, Surjection, IsInjective
<1>6. \A u \in User :
        /\ u \in authorized => /\ credential[u] = [fresh |-> TRUE, refresh |-> token[u]]
                              /\ credential[u].refresh = token[u]
        /\ u \notin authorized => credential[u] = None /\ ~past[u].authorized
  BY <1>4, <1>10
<1>7. \A u \in User, t \in RefreshToken : Holds(u, t) => u \in authorized /\ t = token[u]
  BY <1>1, <1>6 DEF Holds
<1>8. TokensOwned
  BY <1>1, <1>2, <1>5, <1>7 DEF TokensOwned
<1>9. ASSUME NEW u \in User PROVE Kept(u)
  <2>1. \A k \in Slot, pc \in {"drop", "refresh", "save"} : ~CallOf(k, u, pc)
    BY <1>1 DEF CallOf
  <2>2. credential[u] # None => u \in authorized /\ credential[u].refresh \in alive
    BY <1>5, <1>6
  <2>3. past[u].authorized => credential[u] # None /\ credential[u].refresh # None
    <3>1. CASE u \in authorized
      <4>1. credential[u] \in Credential
        <5>1. token[u] \in RefreshToken
          BY <1>1, <1>2, <1>5, <3>1 DEF RefreshToken
        <5>2. [fresh |-> TRUE, refresh |-> token[u]] \in Credential
          BY <5>1 DEF Credential
        <5> QED
          BY <1>6, <3>1, <5>2
      <4>2. credential[u].refresh # None
        BY <1>1, <1>2, <2>2, <4>1, CredentialAssumption, DelegationNoneAssumption
      <4> QED
        BY <4>1, <4>2, CredentialAssumption
    <3>2. CASE u \notin authorized
      BY <1>6, <3>2
    <3> QED
      BY <3>1, <3>2
  <2> QED
    BY <2>1, <2>2, <2>3 DEF Kept
<1> QED
  BY <1>3, <1>8, <1>9 DEF TokenInv

\* Using an authorization does not lose it: as long as nothing failed and no two
\* calls obtained a token for the user at once, the stored refresh token is one the
\* server accepts (the argument is about which tokens the calls under way hold).
THEOREM AuthorizationIsKept == Spec => []CredentialKept
<1>1. Init => TokenInv
  BY TokenInvInit
<1>2. TypeOK /\ TokenInv /\ [Next]_vars => TokenInv'
  BY TokenInvNext
<1>3. TokenInv => CredentialKept
  BY DEF TokenInv, Undisturbed, Kept, CredentialKept
<1> QED
  BY <1>1, <1>2, <1>3, TypesHold, PTL DEF Spec
=============================================================================
