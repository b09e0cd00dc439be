---------------------------- MODULE GitRepository ----------------------------
(***************************************************************************)
(* bridge/src/repository/git-remote.ts: the store is a branch of a remote  *)
(* Git repository, worked on through one local checkout.  A gate of its    *)
(* own serialises the provider calls of the whole bridge.  readFile        *)
(* refreshes the checkout first unless it did so less than                 *)
(* refreshIntervalMs ago; commitFiles always refreshes, writes the         *)
(* checkout, commits, and pushes.  Other clones push to the same branch.   *)
(* reset --hard leaves untracked files alone and nothing runs git clean, so *)
(* a file written but never added, whole or in part, outlives every refresh *)
(* until the branch has a file on its path.                                *)
(***************************************************************************)
EXTENDS RepositoryProvider, FiniteSets

CONSTANTS
    Foreign,     \* the tag of a commit pushed by another clone
    NoCaller,    \* nobody holds the provider's gate
    MaxForeign   \* bound on the commits of other clones

ASSUME NoCallerAssumption == NoCaller \notin Caller

ASSUME MaxForeignAssumption == MaxForeign \in Nat

VARIABLES
    remote,       \* the commits of the remote branch: <<[tag, tree], ...>>
    local,        \* the tree in the working directory
    untracked,    \* the paths in it that were written but never added
    base,         \* the remote commit the checkout was last reset to
    gateHolder,   \* the call inside the gate across two awaits, or NoCaller
    initialized   \* initialize() has completed in this process

gitVars == <<remote, local, untracked, base, gateHolder, initialized>>

Tip == remote[Len(remote)].tree

\* writeFile of the first n changes.
Written(tree, changes, n) ==
    [p \in Path |->
       LET writes == {i \in DOMAIN changes : changes[i].path = p /\ i <= n}
       IN  IF writes = {} THEN tree[p]
           ELSE changes[CHOOSE i \in writes : \A j \in writes : j <= i].content]

-----------------------------------------------------------------------------
GitInit(initialTree) ==
    /\ remote = <<[tag |-> Foreign, tree |-> initialTree]>>
    /\ local = initialTree
    /\ untracked = {}
    /\ base = 1
    /\ gateHolder = NoCaller
    /\ initialized = FALSE

\* The checkout after fetch and reset --hard to the fetched branch.
Fetched ==
    [p \in Path |-> IF p \in untracked /\ Tip[p] = Absent THEN local[p] ELSE Tip[p]]

checkout == <<local, untracked, base, initialized>>

Reset ==
    /\ local' = Fetched
    /\ untracked' = {p \in untracked : Tip[p] = Absent}
    /\ base' = Len(remote)

\* refresh(); initialize() begins with a forced one.
Refresh == Reset /\ initialized' = TRUE

\* readFile on a refreshed checkout.
GitReadFetched(k) ==
    /\ call[k].step = "read"
    /\ gateHolder = NoCaller
    /\ Refresh
    /\ ReplyData(k, Fetched[call[k].path])
    /\ UNCHANGED <<faults, remote, gateHolder>>

\* readFile: refreshed, throttled, or the fetch fails.
GitRead(k) ==
    \/ GitReadFetched(k)
    \/ /\ call[k].step = "read"
       /\ gateHolder = NoCaller
       /\ \/ /\ initialized
             /\ ReplyData(k, local[call[k].path])
             /\ UNCHANGED faults
          \/ /\ Fault("read")
             /\ Reply(k, "failed")
       /\ UNCHANGED <<checkout, remote, gateHolder>>

\* Mutant: commitFiles checks its preconditions on the throttled checkout.
CheckedTreeStale == local

\* commitFiles refreshes before it checks.
CheckedTree == Fetched

AllWritten(tree, changes) == Written(tree, changes, Len(changes))
ChangedPaths(changes) == {changes[i].path : i \in DOMAIN changes}

\* Mutant: git add is given the first path only.
CommitTreeOfFirst(k) == Written(remote[base].tree, call[k].changes, 1)

\* The commit takes the paths of its own changes and no others.
CommitTree(k) == AllWritten(remote[base].tree, call[k].changes)

\* commitFiles up to the local commit.
GitCommitLocally(k) ==
    LET changes == call[k].changes
    IN  /\ call[k].step = "commit"
        /\ gateHolder = NoCaller
        /\ IF ~PreconditionsHold(changes, CheckedTree)
             THEN /\ Refresh
                  /\ Reply(k, "conflict")
                  /\ UNCHANGED gateHolder
             ELSE /\ local' = AllWritten(Fetched, changes)
                  /\ untracked' = untracked \ ChangedPaths(changes)
                  /\ base' = Len(remote)
                  /\ initialized' = TRUE
                  /\ IF AllWritten(Tip, changes) = Tip  \* nothing staged
                       THEN Reply(k, "committed") /\ UNCHANGED gateHolder
                       ELSE Advance(k, "push") /\ gateHolder' = k
        /\ UNCHANGED <<remote, faults>>

\* The first n changes are in the checkout, the last of them perhaps only a
\* fragment of its content because writeFile itself stopped halfway; then
\* writeFile, add or commit fails.  New files are tracked only if add succeeded.
PartlyWritten(changes, n, fragments, added) ==
    LET written == ChangedPaths(SubSeq(changes, 1, n))
        whole == Written(Fetched, changes, n)
    IN  /\ \/ local' = whole
           \/ /\ ~added
              /\ \E content \in fragments :
                   local' = [whole EXCEPT ![changes[n].path] = content]
        /\ untracked' = IF added THEN untracked \ written
                        ELSE {p \in untracked \union written : Tip[p] = Absent}

\* commitFiles fails before its local commit; nothing puts the checkout back.
\* (A crash at this point is this step followed by the crash.)
GitCommitFails(k, fragments) ==
    /\ call[k].step = "commit"
    /\ gateHolder = NoCaller
    /\ \/ /\ Fault("read")
          /\ UNCHANGED checkout
       \/ /\ Fault("worktree")
          /\ PreconditionsHold(call[k].changes, CheckedTree)
          /\ \E n \in 1..Len(call[k].changes), added \in BOOLEAN :
               /\ added => n = Len(call[k].changes)
               /\ PartlyWritten(call[k].changes, n, fragments, added)
          /\ base' = Len(remote)
          /\ initialized' = TRUE
    /\ Reply(k, "failed")
    /\ UNCHANGED <<remote, gateHolder>>

PushLands(k) ==
    /\ base = Len(remote)
    /\ remote' = Append(remote, [tag |-> call[k].tag, tree |-> CommitTree(k)])

\* push: the remote takes the commit only on top of what was fetched.  The
\* command can fail after the remote has taken it.
GitPush(k) ==
    /\ call[k].step = "push"
    /\ \/ /\ PushLands(k)
          /\ Reply(k, "committed")
          /\ gateHolder' = NoCaller
          /\ UNCHANGED faults
       \/ /\ PushLands(k)
          /\ Fault("ack")
          /\ Advance(k, "recover")
          /\ UNCHANGED gateHolder
       \/ /\ base # Len(remote)
          /\ Advance(k, "recover")
          /\ UNCHANGED <<remote, gateHolder, faults>>
       \/ /\ Fault("push")
          /\ Advance(k, "recover")
          /\ UNCHANGED <<remote, gateHolder>>
    /\ UNCHANGED checkout

\* Mutant: the gate is not released after a failed push.
GitRecoverKeepingGate(k) ==
    /\ call[k].step = "recover"
    /\ Reset
    /\ Reply(k, "conflict")
    /\ UNCHANGED <<remote, gateHolder, initialized, faults>>

\* After a failed push: fetch and reset, whose failure is swallowed; the
\* caller is told REPOSITORY_CONFLICT either way.
GitRecover(k) ==
    /\ call[k].step = "recover"
    /\ \/ Reset /\ UNCHANGED faults
       \/ Fault("recover") /\ UNCHANGED <<local, untracked, base>>
    /\ Reply(k, "conflict")
    /\ gateHolder' = NoCaller
    /\ UNCHANGED <<remote, initialized>>

\* fragments: what is in a file that the call was writing when it failed.
GitStep(k, fragments) ==
    \/ GitRead(k)
    \/ GitCommitLocally(k)
    \/ GitCommitFails(k, fragments)
    \/ GitPush(k)
    \/ GitRecover(k)

-----------------------------------------------------------------------------
\* Another service reads through the provider and the checkout is refreshed.
GitRefreshForOthers ==
    /\ gateHolder = NoCaller
    /\ Refresh
    /\ UNCHANGED <<remote, gateHolder, call, faults>>

\* Another clone pushes: the paths of this model as in tree.
ForeignPush(tree) ==
    /\ Cardinality({i \in DOMAIN remote : remote[i].tag = Foreign}) <= MaxForeign
    /\ remote' = Append(remote, [tag |-> Foreign, tree |-> tree])
    /\ UNCHANGED <<checkout, gateHolder, call, faults>>

\* The process is gone; the checkout and the remote are what they were.
GitRestart ==
    /\ gateHolder' = NoCaller
    /\ initialized' = FALSE
    /\ UNCHANGED <<remote, local, untracked, base>>
=============================================================================
