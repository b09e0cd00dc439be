---------------------------- MODULE ScanUploadGit ----------------------------
(***************************************************************************)
(* Scan upload with the Git provider: the provider's gate serialises the   *)
(* calls, and a commit reaches the branch as a whole or not at all.        *)
(***************************************************************************)
EXTENDS ScanUpload, GitRepository

ASSUME TagsAssumption == Foreign \in Tag \ Scan

vars == <<call, faults, scanVars, gitVars>>

Init ==
    /\ ProviderInit
    /\ ScanInit
    /\ GitInit([p \in Path |-> Absent])

\* What writeFile leaves when it stops halfway.
Fragments == {"partial"}

\* Other clones push to other paths: the branch moves, the scans do not.
Next ==
    \/ ScanStep /\ UNCHANGED gitVars
    \/ \E k \in Caller : GitStep(k, Fragments) /\ UNCHANGED scanVars
    \/ GitRefreshForOthers /\ UNCHANGED scanVars
    \/ ForeignPush(Tip) /\ UNCHANGED scanVars
    \/ ScanCrash /\ GitRestart

Spec == Init /\ [][Next]_vars

\* Node runs settled continuations; the headset drains its outbox again and
\* again; the provider's gate is first come, first served.
Fairness ==
    /\ \A k \in Caller : WF_vars(HandlerStep(k) /\ UNCHANGED gitVars)
    /\ \A k \in Caller : SF_vars(GitStep(k, Fragments) /\ UNCHANGED scanVars)
    /\ \A s \in Scan : WF_vars(ClientStep(s) /\ UNCHANGED gitVars)

LiveSpec == Spec /\ Fairness

-----------------------------------------------------------------------------
Tree == [Path -> RepositoryContent \union {Absent}]

TypeOK ==
    /\ call \in [Caller -> CallState(RepositoryContent)]
    /\ faults \in FaultHistory
    /\ ScanTypeOK
    /\ remote \in Seq([tag: Tag, tree: Tree])
    /\ local \in Tree
    /\ untracked \subseteq Path
    /\ base \in DOMAIN remote
    /\ gateHolder \in Caller \union {NoCaller}
    /\ initialized \in BOOLEAN

Complete(s, tree) ==
    /\ tree[ManifestPath(s)] = "manifest"
    /\ \A f \in File : tree[FilePath(s, f)] = "whole"

\* No failure so far left the checkout with content the branch does not have.
CleanCheckout == Free({"worktree", "recover"})

\* Once the outbox copy is deleted, the remote branch has the scan.
EvidenceNeverLost ==
    \A s \in Scan : client[s].pc = "removed" =>
        Tip[MarkerPath(s)] # Absent /\ Complete(s, Tip)

\* Every commit of the branch holds all of a scan or nothing of it.
ScansAreAtomic ==
    \A i \in DOMAIN remote : \A s \in Scan :
        LET tree == remote[i].tree
        IN  \/ \A p \in {q \in Path : q[1] = s} : tree[p] = Absent
            \/ tree[MarkerPath(s)] # Absent /\ Complete(s, tree)

\* A scan is committed to the branch at most once.
ScanCommittedOnce ==
    \A i, j \in DOMAIN remote :
        (remote[i].tag = remote[j].tag /\ remote[i].tag # Foreign) => i = j

\* Repeating the upload gets the scan delivered, whatever reads, pushes, lost
\* replies and timeouts came before; a crash can leave a torn staged file that
\* refuses every repetition.
EveryScanDelivered ==
    \A s \in Scan : <>(client[s].pc = "removed" \/ ~Free({"crash"}))
=============================================================================
