------------------------ MODULE FederationDelegation ------------------------
(***************************************************************************)
(* bridge/src/services/federation-delegation-service.ts: the OAuth         *)
(* credentials with which the bridge calls the upstream for a local user.  *)
(*                                                                         *)
(* The store is one JSON file with atomic, serialised mutations.  What     *)
(* takes several steps is obtaining a token: a read of the store, a        *)
(* request to the token endpoint, a mutation, a second read.  call[k] is   *)
(* how far the request in slot k has got with that.                        *)
(*                                                                         *)
(* The authorization server is not part of the repository.  It numbers the *)
(* refresh tokens it issues and may rotate them: "alive" are those it      *)
(* still accepts.                                                          *)
(***************************************************************************)
EXTENDS Naturals, Sequences, Functions

CONSTANTS
    User,       \* local users that devices are assigned to
    Ceremony,   \* the OAuth state values that can be drawn
    Slot,       \* the requests that can be under way at the same time
    None,       \* undefined
    Setting,    \* the situations in which the bridge is explored
    MethodOf,   \* its configuration in each: "service", or a delegation method
    FaultKinds, \* the kinds of failure a behaviour may contain
    \* How much is explored in each situation:
    MaxTokens,  \* bound on the refresh tokens the server issues
    MaxFaults   \* bound on the number of failures

Method == {"service", "authorization-code-pkce", "token-exchange"}

ASSUME MethodAssumption == MethodOf \in [Setting -> Method]

ASSUME BoundsAssumption == MaxTokens \in [Setting -> Nat] /\ MaxFaults \in [Setting -> Nat]

ASSUME DelegationNoneAssumption == None \notin User \union Slot \union Nat

VARIABLES
    setting,     \* the situation; it never changes
    credential,  \* credentials in federation-delegation.json
    pending,     \* pending in federation-delegation.json
    issued,      \* the number of refresh tokens issued by the server
    alive,       \* those it accepts
    call,        \* accessToken(), establish or callback in each slot
    past,        \* history: what has befallen a user's authorization
    faults       \* history: the failures so far

delegationVars == <<setting, credential, pending, issued, alive, call, past, faults>>

-----------------------------------------------------------------------------
\* config.method of a delegated-user route, or "service".
method == MethodOf[setting]

RefreshToken == Nat \ {0}
Credential == [fresh: BOOLEAN, refresh: RefreshToken \union {None}]
ASSUME CredentialAssumption == None \notin Credential

PendingAuthorization ==
         [state: {"unused", "gone"}, user: {None}]
  \union [state: {"open", "overdue"}, user: User]

\* A call for user None is for the token of config.token, which is at hand.
\* "refresh", "exchange", "redeem" await the token endpoint, "save" the store
\* (token: what the endpoint returned), "got" and "failed" are the outcomes.
Call ==
         [pc: {"none"}]
  \union [pc: {"got"}, user: {None}]
  \union [pc: {"read", "drop", "exchange", "redeem", "reread", "got", "failed"}, user: User]
  \union [pc: {"refresh"}, user: User, token: RefreshToken]
  \union [pc: {"save"}, user: User, token: RefreshToken \union {None}]

\* revoked: the user asked for the credential to be deleted, "busy" if a token
\* was just being obtained, and has not authorized again.  authorized: they
\* hold an authorization that can be refreshed.  overlapped: a token
\* was refreshed while a result of another call was not stored yet.
Past == [revoked: {"no", "yes", "busy"}, authorized: BOOLEAN, overlapped: BOOLEAN]

\* The failures of a behaviour: how many there were, and of which kinds.
FaultHistory == [count: Nat, kinds: SUBSET FaultKinds]
NoFaults == [count |-> 0, kinds |-> {}]

DelegationTypeOK ==
    /\ setting \in Setting
    /\ credential \in [User -> Credential \union {None}]
    /\ pending \in [Ceremony -> PendingAuthorization]
    /\ issued \in Nat
    /\ alive \subseteq 1..issued
    /\ call \in [Slot -> Call]
    /\ past \in [User -> Past]
    /\ faults \in FaultHistory

\* A bridge starts on the files of an earlier run: the users in "authorized"
\* hold a valid credential, each with a refresh token of its own.
DelegationInit ==
    /\ setting \in Setting
    /\ issued \in 0..MaxTokens[setting]
    /\ alive = 1..issued
    /\ \E authorized \in IF method = "service" THEN {{}} ELSE SUBSET User :
         /\ \E token \in Bijection(authorized, alive) :
              credential = [u \in User |->
                IF u \in authorized THEN [fresh |-> TRUE, refresh |-> token[u]] ELSE None]
         /\ past = [u \in User |-> [revoked |-> "no", authorized |-> u \in authorized,
                                    overlapped |-> FALSE]]
    /\ pending = [a \in Ceremony |-> [state |-> "unused", user |-> None]]
    /\ call = [k \in Slot |-> [pc |-> "none"]]
    /\ faults = NoFaults

-----------------------------------------------------------------------------
Fault(kind) ==
    /\ kind \in FaultKinds
    /\ faults.count < MaxFaults[setting]
    /\ faults' = [count |-> faults.count + 1, kinds |-> faults.kinds \union {kind}]

At(k, pc) == call[k].pc = pc
NoCall == [pc |-> "none"]
Become(k, next) == call' = [call EXCEPT ![k] = next]
Move(k, pc) == Become(k, [pc |-> pc, user |-> call[k].user])

\* What the authorization server holds, and what only the store does.
serverVars == <<issued, alive>>
storeVars == <<setting, credential, pending>>

\* The calls of u that are obtaining a token, and will store it.
Obtaining(u) ==
    {k \in Slot : call[k].pc \in {"refresh", "exchange", "redeem", "save"} /\ call[k].user = u}

-----------------------------------------------------------------------------
(***************************************************************************)
(* accessToken                                                             *)
(***************************************************************************)
AskForToken(k, u) == Become(k, [pc |-> IF u = None THEN "got" ELSE "read", user |-> u])

\* How a call goes on that has no usable credential.
WithoutCredential(u) ==
    [pc |-> IF method = "token-exchange" THEN "exchange" ELSE "failed", user |-> u]

\* The stored credential is valid, can be refreshed, or is of no use.
ReadCredential(k) ==
    LET u == call[k].user
        c == credential[u]
    IN  /\ At(k, "read")
        /\ Become(k, IF c # None /\ c.fresh THEN [pc |-> "got", user |-> u]
                     ELSE IF c # None /\ c.refresh # None
                       THEN [pc |-> "refresh", user |-> u, token |-> c.refresh]
                     ELSE WithoutCredential(u))
        /\ past' = [past EXCEPT ![u].overlapped =
                      @ \/ (c # None /\ ~c.fresh /\ c.refresh # None /\ Obtaining(u) # {})]
        /\ UNCHANGED <<storeVars, serverVars, faults>>

\* Mutant: a rotated refresh token is not taken over.
OldTokenKept(k, t) == call[k].token

\* The refresh token that is stored: the new one, or the previous one.
TokenToStore(k, t) == IF t # None THEN t ELSE call[k].token

\* The token endpoint answers 5xx or not at all.
EndpointFails(k) == Fault("oauth") /\ Move(k, "failed")

\* refresh(): the server may replace the refresh token; it refuses a dead one,
\* and may answer 4xx to a live one (429, or invalid_client).
Refresh(k) ==
    LET t == call[k].token
        u == call[k].user
    IN  /\ At(k, "refresh")
        /\ \/ /\ t \in alive
              /\ issued < MaxTokens[setting]
              /\ issued' = issued + 1
              /\ alive' = (alive \ {t}) \union {issued + 1}
              /\ \/ /\ Become(k, [pc |-> "save", user |-> u,
                                  token |-> TokenToStore(k, issued + 1)])
                    /\ UNCHANGED faults
                 \/ EndpointFails(k)
           \/ /\ t \in alive
              /\ Become(k, [pc |-> "save", user |-> u, token |-> TokenToStore(k, None)])
              /\ UNCHANGED <<serverVars, faults>>
           \/ /\ Move(k, "drop")
              /\ \/ t \notin alive /\ UNCHANGED faults
                 \/ t \in alive /\ Fault("denied")
              /\ UNCHANGED serverVars
           \/ EndpointFails(k) /\ UNCHANGED serverVars
        /\ UNCHANGED <<storeVars, past>>

\* Mutant: only the credential is deleted.
PendingKept(u) == pending

\* The logins of u that are not completed are deleted too.
PendingWithout(u) ==
    [a \in Ceremony |-> IF pending[a].user = u THEN [state |-> "gone", user |-> None]
                        ELSE pending[a]]

\* revoke()
DeleteCredential(u) ==
    /\ credential' = [credential EXCEPT ![u] = None]
    /\ pending' = PendingWithout(u)

\* A refused refresh makes accessToken() revoke what is stored by now.
Drop(k) ==
    LET u == call[k].user
    IN  /\ At(k, "drop")
        /\ DeleteCredential(u)
        /\ Become(k, WithoutCredential(u))
        /\ UNCHANGED <<setting, serverVars, past, faults>>

\* exchange() and the redemption of a code: with or without a refresh token.
NewGrant(k) ==
    /\ At(k, "exchange") \/ At(k, "redeem")
    /\ \/ /\ issued < MaxTokens[setting]
          /\ issued' = issued + 1
          /\ alive' = alive \union {issued + 1}
          /\ Become(k, [pc |-> "save", user |-> call[k].user, token |-> issued + 1])
          /\ UNCHANGED faults
       \/ /\ Become(k, [pc |-> "save", user |-> call[k].user, token |-> None])
          /\ UNCHANGED <<serverVars, faults>>
       \/ EndpointFails(k) /\ UNCHANGED serverVars
    /\ UNCHANGED <<storeVars, past>>

\* saveCredential()
Save(k) ==
    LET u == call[k].user
        t == call[k].token
    IN  /\ At(k, "save")
        /\ credential' = [credential EXCEPT ![u] = [fresh |-> TRUE, refresh |-> t]]
        /\ past' = [past EXCEPT ![u].authorized = t # None]
        /\ Move(k, "reread")
        /\ UNCHANGED <<setting, pending, serverVars, faults>>

\* credentials[key]!.accessToken: a TypeError when it is gone again.
Reread(k) ==
    /\ At(k, "reread")
    /\ Move(k, IF credential[call[k].user] # None THEN "got" ELSE "failed")
    /\ UNCHANGED <<storeVars, serverVars, past, faults>>

TokenStep(k) ==
    \/ ReadCredential(k)
    \/ Refresh(k)
    \/ Drop(k)
    \/ NewGrant(k)
    \/ Save(k)
    \/ Reread(k)

-----------------------------------------------------------------------------
(***************************************************************************)
(* The authorization endpoints.                                            *)
(***************************************************************************)
\* beginAuthorization; overdue logins are removed.
BeginAuthorization(u, a) ==
    /\ method = "authorization-code-pkce"
    /\ pending[a].state = "unused"
    /\ pending' = [b \in Ceremony |->
                     IF b = a THEN [state |-> "open", user |-> u]
                     ELSE IF pending[b].state = "overdue"
                       THEN [state |-> "gone", user |-> None]
                     ELSE pending[b]]
    /\ past' = [past EXCEPT ![u].revoked = "no"]
    /\ UNCHANGED <<setting, credential, serverVars, call, faults>>

\* completeAuthorization takes the login, and goes on if it is not overdue.
CompleteAuthorization(k, a) ==
    /\ pending[a].state \in {"open", "overdue"}
    /\ pending' = [pending EXCEPT ![a] = [state |-> "gone", user |-> None]]
    /\ Become(k, IF pending[a].state = "open"
                   THEN [pc |-> "redeem", user |-> pending[a].user] ELSE NoCall)
    /\ UNCHANGED <<setting, credential, serverVars, past, faults>>

\* establishTokenExchange
EstablishTokenExchange(k, u) ==
    /\ method = "token-exchange"
    /\ Become(k, [pc |-> "exchange", user |-> u])
    /\ past' = [past EXCEPT ![u].revoked = "no"]
    /\ UNCHANGED <<storeVars, serverVars, faults>>

\* DELETE /federation/v1/authorization
Revoke(u) ==
    /\ method # "service"
    /\ DeleteCredential(u)
    /\ past' = [past EXCEPT ![u].revoked = IF Obtaining(u) = {} THEN "yes" ELSE "busy",
                            ![u].authorized = FALSE]
    /\ UNCHANGED <<setting, serverVars, call, faults>>

\* The access token's time, or a login's, is over.
CredentialAges(u) ==
    /\ credential[u] # None
    /\ credential[u].fresh
    /\ credential' = [credential EXCEPT ![u].fresh = FALSE]
    /\ UNCHANGED <<setting, pending, serverVars, call, past, faults>>

LoginRunsOut(a) ==
    /\ pending[a].state = "open"
    /\ pending' = [pending EXCEPT ![a].state = "overdue"]
    /\ UNCHANGED <<setting, credential, serverVars, call, past, faults>>
=============================================================================
