--------------------------- MODULE CandidateReview ---------------------------
(***************************************************************************)
(* bridge/src/services/candidate-review-service.ts and the endpoints that  *)
(* promote a candidate: what a scan is interpreted as becomes part of the  *)
(* source only as a reviewer has decided, by an ordinary write operation   *)
(* whose id is a function of the candidate's.                              *)
(*                                                                         *)
(* The store is one JSON file; each of its mutations is one step.  The     *)
(* write service is the source it promises to be (SpatialSource).  The     *)
(* scan a candidate is derived from is committed and stays so; a target is *)
(* always the local source.                                                *)
(***************************************************************************)
CONSTANTS
    Candidate, \* candidate ids; each is also the id of its promotion
    Payload,   \* what a candidate may propose, or a reviewer put instead
    Promoter,  \* the slots a promotion may run in
    Unset      \* undefined

VARIABLES
    candidate, \* xr-candidates.json
    promoting, \* the promotion in each slot
    shown      \* the <<candidate, confirmed payload>> of the previews shown

candidateVars == <<candidate, promoting, shown>>

-----------------------------------------------------------------------------
\* A token is the hash of the operation, which a candidate's payload decides.
\* "edited" is an acceptance, too, with the payload of the review.
Review ==
         [state: {"pending", "rejected"}]
  \union [state: {"accepted"}, payload: Payload]

\* Only what was accepted is promoted.
Record(results) ==
         [proposal: Payload, review: Review, promotion: {Unset}]
  \union [proposal: Payload, review: [state: {"accepted"}, payload: Payload],
          promotion: results]

Promoting(results) ==
         [pc: {"idle"}]
  \union [pc: {"submit", "await"}, candidate: Candidate, payload: Payload]
  \union [pc: {"mark"}, candidate: Candidate, payload: Payload, result: results]

CandidateTypeOK(results) ==
    /\ candidate \in [Candidate -> Record(results) \union {Unset}]
    /\ promoting \in [Promoter -> Promoting(results)]
    /\ shown \subseteq Candidate \X Payload

CandidateInit ==
    /\ candidate = [c \in Candidate |-> Unset]
    /\ promoting = [k \in Promoter |-> [pc |-> "idle"]]
    /\ shown = {}

-----------------------------------------------------------------------------
\* submit(): a known candidate keeps its content.
SubmitCandidate(c, p) ==
    /\ candidate[c] = Unset
    /\ candidate' = [candidate EXCEPT ![c] =
                       [proposal |-> p, review |-> [state |-> "pending"], promotion |-> Unset]]
    /\ UNCHANGED <<promoting, shown>>

\* What a reviewer can decide: the payload is the proposal or the review's own.
Decisions == [state: {"rejected"}] \union [state: {"accepted"}, payload: Payload]

\* Mutant: a later review replaces an earlier one.
AlwaysOpen(c) == TRUE

\* Only a pending candidate takes a decision.
IsOpen(c) == candidate[c].review.state = "pending"

ReviewCandidate(c) ==
    /\ candidate[c] # Unset
    /\ IsOpen(c)
    /\ \E decision \in Decisions :
         candidate' = [candidate EXCEPT ![c].review = decision]
    /\ UNCHANGED <<promoting, shown>>

IsAccepted(c) == candidate[c] # Unset /\ candidate[c].review.state = "accepted"

\* promotionPreview
Preview(c) ==
    /\ IsAccepted(c)
    /\ shown' = shown \union {<<c, candidate[c].review.payload>>}
    /\ UNCHANGED <<candidate, promoting>>

\* assertPromotionConfirmation: the token is that of the reviewed operation.
BeginPromote(k, c) ==
    /\ promoting[k].pc = "idle"
    /\ IsAccepted(c)
    /\ <<c, candidate[c].review.payload>> \in shown
    /\ promoting' = [promoting EXCEPT ![k] = [pc |-> "submit", candidate |-> c,
                                              payload |-> candidate[c].review.payload]]
    /\ UNCHANGED <<candidate, shown>>

PromotionAt(k, pc) == promoting[k].pc = pc
Promotion(k, next) == promoting' = [promoting EXCEPT ![k] = next]
EndPromotion(k) == Promotion(k, [pc |-> "idle"])

\* submit() has returned.
Answered(k, result) ==
    Promotion(k, [pc |-> "mark", candidate |-> promoting[k].candidate,
                  payload |-> promoting[k].payload, result |-> result])

\* markPromoted, whatever the result is.
MarkPromoted(k) ==
    /\ PromotionAt(k, "mark")
    /\ candidate' = [candidate EXCEPT ![promoting[k].candidate].promotion = promoting[k].result]
    /\ EndPromotion(k)
    /\ UNCHANGED shown
=============================================================================
