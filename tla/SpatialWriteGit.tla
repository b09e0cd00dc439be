--------------------------- MODULE SpatialWriteGit ---------------------------
(***************************************************************************)
(* Spatial Write on the Git provider: the service of SpatialWrite, the     *)
(* store of GitRepository, other clones of the branch, and a process that  *)
(* can crash at any await.                                                 *)
(***************************************************************************)
EXTENDS SpatialWrite, GitRepository

CONSTANTS
    InitialTree,  \* the model collections on the remote at the start
    ForeignTree   \* the trees another clone may push

ASSUME TreesAssumption ==
    {InitialTree} \union ForeignTree \subseteq [Path -> Collection \union {Absent}]

ASSUME TagsAssumption == Caller = {Service} /\ Foreign \in Tag \ OpId

\* No two items of a collection have one id.
ASSUME UniqueAssumption ==
    \A tree \in {InitialTree} \union ForeignTree : \A p \in Path :
        UniqueIds(Bytes(tree[p]))

vars == <<call, faults, serviceVars, gitVars>>

\* What writeFile leaves when it stops inside a line of the collection, and
\* what it leaves when it stops between two lines.
Fragments ==
    LET next == call[Service].changes[1].content
    IN  {Torn} \union {SubSeq(next, 1, n) : n \in 0..Len(next)}

Init ==
    /\ ProviderInit
    /\ ServiceInit
    /\ GitInit(InitialTree)

Crash ==
    /\ Fault("crash")
    /\ job.pc # "idle"
    /\ Finish
    /\ GitRestart
    /\ UNCHANGED <<ledger, minted>>

Next ==
    \/ ServiceStep /\ UNCHANGED gitVars
    \/ GitStep(Service, Fragments) /\ UNCHANGED serviceVars
    \/ GitRefreshForOthers /\ UNCHANGED serviceVars
    \/ \E tree \in ForeignTree : ForeignPush(tree) /\ UNCHANGED serviceVars
    \/ Crash

Spec == Init /\ [][Next]_vars

\* As in SpatialWriteFs: the gate is first come, first served, clients retry
\* what has no terminal status, and awaits that are settled continue.  The
\* refresh interval runs out: not every read is throttled.
Fairness ==
    /\ \A o \in OpId : SF_vars(Retry(o) /\ UNCHANGED gitVars)
    /\ WF_vars(HandlerStep /\ UNCHANGED gitVars)
    /\ WF_vars(GitStep(Service, Fragments) /\ UNCHANGED serviceVars)
    /\ SF_vars(GitReadFetched(Service) /\ UNCHANGED serviceVars)

LiveSpec == Spec /\ Fairness

-----------------------------------------------------------------------------
Tree == [Path -> Collection \union {Absent}]
LocalTree == [Path -> Collection \union {Absent, Torn}]
Slot == CallState(Collection) \union [step: {"data"}, content: {Torn}]

TypeOK ==
    /\ call \in [Caller -> Slot]
    /\ faults \in FaultHistory
    /\ ServiceTypeOK
    /\ remote \in Seq([tag: Tag, tree: Tree])
    /\ local \in LocalTree
    /\ untracked \subseteq Path
    /\ base \in DOMAIN remote
    /\ gateHolder \in Caller \union {NoCaller}
    /\ initialized \in BOOLEAN

\* No failed write left untracked files, or the branch has a file on each path.
FollowsBranch ==
    \/ Free({"worktree"})
    \/ \A i \in DOMAIN remote : \A p \in Path : remote[i].tree[p] # Absent

\* The checkout holds commits of the branch only; and who was refused a push
\* knows that the branch did not take it.
CleanCheckout == Free({"worktree", "recover"})
CertainPushes == Free({"ack", "worktree", "recover"})

\* Collection r.path of "after" is that of "before" with request r applied.
IsRequestedChange(r, before, after) ==
    Changes(r, Bytes(before[r.path]), Bytes(after[r.path]))

\* Whatever fails, is lost or is pushed by others, each commit of the bridge
\* on the remote is exactly the change of the request its operation id is
\* bound to in the ledger, applied to the commit right below it, on the
\* revision the request names; nothing another clone pushed is overwritten.
CommitsAreRequestedChanges ==
    \A i \in 2..Len(remote) : remote[i].tag # Foreign =>
        LET entry == ledger[remote[i].tag]
        IN  /\ entry # None
            /\ IsRequestedChange(entry.op, remote[i - 1].tree, remote[i].tree)
            /\ \A p \in Path \ {entry.op.path} :
                 remote[i].tree[p] = remote[i - 1].tree[p]

\* The remote has, or once had, what the status says is committed.
OnceAuthoritative(op, status) ==
    \E i \in DOMAIN remote :
        Shows(op, status.obj, status.rev, Bytes(remote[i].tree[op.path]))

\* write.md: source-committed means that the authoritative source committed
\* the operation durably.  The checkout is not the authoritative source: the
\* answer is true as long as no write failed halfway and left its bytes there,
\* and no failed push kept its commit because the fetch after it failed too.
CommittedIsAuthoritative ==
    CleanCheckout => \A o \in OpId :
        (IsSettled(o) /\ ledger[o].status.state = "source-committed") =>
            OnceAuthoritative(ledger[o].op, ledger[o].status)

\* A refusal of an operation that did reach the remote needs somebody else's
\* commit on top of it, unless a push whose success was reported as a failure
\* or a checkout that is not the branch misled commit().
RefusedOnlyIfOvertaken ==
    CertainPushes => \A o \in OpId : \A i \in DOMAIN remote :
        (/\ remote[i].tag = o
         /\ IsSettled(o)
         /\ ledger[o].status.state # "source-committed") =>
            \E m \in DOMAIN remote : i < m /\ remote[m].tag # o

\* write.md: network loss after an authoritative commit and a retry do not
\* commit an operation a second time.
OncePerOperation ==
    \A i, j \in DOMAIN remote :
        (remote[i].tag = remote[j].tag /\ remote[i].tag # Foreign) => i = j

\* A write that stopped inside a line left a file the branch does not have:
\* no refresh removes it, and no operation on that collection gets past it.
TornForGood(o) ==
    LET path == ledger[o].op.path
    IN  ledger[o] # None /\ local[path] = Torn /\ path \in untracked

\* Once faults and foreign pushes stop, every operation is settled, unless a
\* write that stopped halfway has blocked its collection for ever.
EveryOperationSettles ==
    \A o \in OpId : IsPending(o) ~> (IsSettled(o) \/ []TornForGood(o))

-----------------------------------------------------------------------------
(***************************************************************************)
(* The service implements the branch it promises.                          *)
(***************************************************************************)
ObjectsIn(tree) == [p \in Path |-> ItemsIn(Bytes(tree[p]))]

BranchCommits ==
    [i \in DOMAIN remote |-> [by |-> remote[i].tag, objects |-> ObjectsIn(remote[i].tree)]]

BranchTrust ==
    {promise \in {"exact", "truthful", "certain"} :
        /\ promise = "exact" => FollowsBranch
        /\ promise = "truthful" => CleanCheckout
        /\ promise = "certain" => CertainPushes}

BranchPromise ==
    INSTANCE SpatialBranch WITH
        InitialObjects <- ObjectsIn(InitialTree),
        commits <- BranchCommits,
        request <- SourceRequest,
        outcome <- SourceOutcome,
        trust <- BranchTrust

\* On a branch that other clones push to, through any failures, crashes and
\* retries: a commit of the bridge is the bound, unsettled request applied to
\* the commit right below it, and never to its own commit; an operation is
\* settled once; and the answer is true of a commit of the branch, a refusal
\* even of the tip unless another clone has pushed.
ImplementsBranch == BranchPromise!BranchSpec
=============================================================================
