---------------------------- MODULE SpatialBranch ----------------------------
(***************************************************************************)
(* What Spatial Write promises of a branch that other clones push to as    *)
(* well, without its ledger format, checkout, provider calls and crashes.  *)
(* It is SpatialSource on the tip of the branch with three reservations:   *)
(* others commit in between, an answer can be about a commit below the tip *)
(* that another clone has covered, and what certain failures put in doubt  *)
(* ("trust") is not promised any more.                                     *)
(***************************************************************************)
EXTENDS Naturals, Sequences

CONSTANTS Path, OpId, Object, Val, None, Request,
          InitialObjects,  \* the collections at the start
          Foreign          \* who makes the commits of other clones

VARIABLES
    commits,   \* the branch: <<[by, objects], ...>>, objects as in SpatialSource
    request,   \* as in SpatialSource
    outcome,   \* as in SpatialSource
    trust      \* what no failure has put in doubt yet

branchVars == <<commits, request, outcome, trust>>

\* exact: a commit is the requested change of the commit right below it.
\* truthful: an answer is about a commit of the branch.
\* certain: the bridge knows which of its pushes the branch has taken.
Promises == {"exact", "truthful", "certain"}

Tip == commits[Len(commits)].objects
OnTop(by) == commits[Len(commits)].by = by

\* The source as the tip shows it, and as commit i did.
OnTip == INSTANCE SpatialSource WITH objects <- Tip
At(i) == INSTANCE SpatialSource WITH objects <- commits[i].objects

BranchInit ==
    /\ commits = <<[by |-> Foreign, objects |-> InitialObjects]>>
    /\ request = [o \in OpId |-> None]
    /\ outcome = [o \in OpId |-> None]
    /\ trust = Promises

\* The first submission under an operation id.
Accept(r) == OnTip!Accept(r) /\ UNCHANGED <<commits, trust>>

\* The branch is never rewritten: it gets one commit on top.
Grows(by) == commits' = Append(commits, [by |-> by, objects |-> Tip'])

\* An accepted operation that is not settled is committed, and not on top of
\* its own commit.  Whatever fails, no other collection is touched.
Commit(r) ==
    /\ request[r.id] = r
    /\ outcome[r.id] = None
    /\ Grows(r.id)
    /\ \A p \in Path \ {r.path} : Tip'[p] = Tip[p]
    /\ "exact" \in trust => OnTip!TakeEffect(r)
    /\ "certain" \in trust => ~OnTop(r.id)
    /\ trust' \in SUBSET trust
    /\ UNCHANGED <<request, outcome>>

\* Another clone commits.
ForeignCommit ==
    /\ Grows(Foreign)
    /\ trust' \in SUBSET trust
    /\ UNCHANGED <<request, outcome>>

\* A failure puts a promise in doubt, for good.
Doubt ==
    /\ trust' \in SUBSET trust
    /\ UNCHANGED <<commits, request, outcome>>

\* A refusal is about the tip, unless that is another clone's commit, which
\* the bridge need not have seen.
Seen == IF OnTop(Foreign) THEN DOMAIN commits ELSE {Len(commits)}

\* The operation was not applied: neither is it on top of the branch.
Refuse(r, answer) ==
    /\ \/ OnTip!RejectedIsTrue(r, answer)
       \/ /\ answer.state = "conflict"
          /\ "truthful" \in trust => \E i \in Seen : At(i)!ConflictIsTrue(r, answer)
    /\ "certain" \in trust => ~OnTop(r.id)

\* The branch has, or had, what the answer reports.
Confirm(r, answer) ==
    /\ request[r.id] = r
    /\ answer.state = "source-committed"
    /\ "truthful" \in trust =>
         \E i \in DOMAIN commits : At(i)!CommittedIsTrue(r, answer)

\* The operation is answered for good, possibly on its first submission.
Settle(r, answer) ==
    /\ request[r.id] \in {None, r}
    /\ outcome[r.id] = None
    /\ Refuse(r, answer) \/ Confirm(r, answer)
    /\ request' = [request EXCEPT ![r.id] = r]
    /\ outcome' = [outcome EXCEPT ![r.id] = answer]
    /\ UNCHANGED <<commits, trust>>

BranchNext ==
    \/ \E r \in Request :
         Accept(r) \/ Commit(r) \/ \E answer \in OnTip!SourceAnswer : Settle(r, answer)
    \/ ForeignCommit
    \/ Doubt

BranchSpec == BranchInit /\ [][BranchNext]_branchVars
=============================================================================
