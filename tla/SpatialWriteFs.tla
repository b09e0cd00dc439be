--------------------------- MODULE SpatialWriteFs ---------------------------
(***************************************************************************)
(* Spatial Write on the filesystem provider: the service of SpatialWrite,  *)
(* the store of FilesystemRepository, one process that can crash at any    *)
(* await.  Within the process only the spatial write service writes the    *)
(* model collections, so Service is the only caller that touches Path.     *)
(***************************************************************************)
EXTENDS SpatialWrite, FilesystemRepository

CONSTANT InitialFiles  \* the collections at the start, by path

\* A source starts from collections without duplicate ids.
ASSUME InitialFilesAssumption ==
    /\ InitialFiles \in [Path -> Collection \union {Absent}]
    /\ \A p \in Path : UniqueIds(Bytes(InitialFiles[p]))

ASSUME OnlyServiceAssumption == Caller = {Service}

vars == <<call, faults, serviceVars, fsVars>>

Init ==
    /\ ProviderInit
    /\ ServiceInit
    /\ FsInit(InitialFiles)

\* The process stops and starts again: the gate, the request inside it and
\* its provider call are gone; the ledger and the files are what they were.
Crash ==
    /\ Fault("crash")
    /\ job.pc # "idle"
    /\ Finish
    /\ UNCHANGED <<ledger, minted, fsVars>>

Next ==
    \/ ServiceStep /\ UNCHANGED fsVars
    \/ FsStep(Service) /\ UNCHANGED serviceVars
    \/ Crash

Spec == Init /\ [][Next]_vars

\* The promise chain of the gate is first come, first served, a client keeps
\* retrying an operation it has no terminal status for, and Node runs the
\* continuation of a settled await.
Fairness ==
    /\ \A o \in OpId : SF_vars(Retry(o) /\ UNCHANGED fsVars)
    /\ WF_vars(HandlerStep /\ UNCHANGED fsVars)
    /\ WF_vars(FsStep(Service) /\ UNCHANGED serviceVars)

LiveSpec == Spec /\ Fairness

-----------------------------------------------------------------------------
TypeOK ==
    /\ call \in [Caller -> CallState(Collection)]
    /\ faults \in FaultHistory
    /\ ServiceTypeOK
    /\ files \in [Path -> Collection \union {Absent}]
    /\ landed \in Seq(OpId \X Path)

\* Every landing of operation o has been followed by somebody else's landing
\* on the same collection.
Overtaken(o) ==
    \A i \in DOMAIN landed : landed[i][1] = o =>
        \E m \in DOMAIN landed :
            i < m /\ landed[m][2] = landed[i][2] /\ landed[m][1] # o

\* After a crash or an error between the rename and the ledger write, the
\* retry finds the bytes it had prepared and does not write them again: an
\* operation lands a second time only after another one landed in between.
NoRepeatUntilOvertaken ==
    \A i, j \in DOMAIN landed :
        (i < j /\ landed[i][1] = landed[j][1]) =>
            \E m \in DOMAIN landed :
                /\ i < m /\ m < j
                /\ landed[m][2] = landed[i][2]
                /\ landed[m][1] # landed[i][1]

\* A client is told "conflict" or "rejected" about a write that did land only
\* if another write landed after it: the hash comparison of commit() settles
\* every other interrupted operation as committed.
RefusedOnlyIfOvertaken ==
    \A o \in OpId :
        (IsSettled(o) /\ ledger[o].status.state # "source-committed") => Overtaken(o)

\* Why the comparison works, at every await and after every crash: of what
\* landed, the ledger has the operation and its collection; and a pending
\* operation whose landing is the last one has exactly its prepared bytes in
\* the repository, whatever was prepared, refreshed or tried since.
RecoverableUntilOvertaken ==
    /\ \A i \in DOMAIN landed :
         LET entry == ledger[landed[i][1]]
         IN  entry # None /\ entry.op.path = landed[i][2]
    /\ \A o \in OpId : IsPending(o) =>
         \/ Bytes(files[ledger[o].op.path]) = ledger[o].prepared.next
         \/ Overtaken(o)

\* Every operation the ledger took in is settled in the end, once faults stop.
EveryOperationSettles ==
    \A o \in OpId : IsPending(o) ~> IsSettled(o)

\* write.md: a lost answer and a retry never apply an operation twice.
OncePerOperation ==
    \A i, j \in DOMAIN landed : landed[i][1] = landed[j][1] => i = j

-----------------------------------------------------------------------------
(***************************************************************************)
(* What makes the three invariants above inductive: the request inside the *)
(* gate is the only writer, so what it has read is still there.            *)
(***************************************************************************)
\* The request inside the gate and its ledger entry.  prepare() runs for an
\* operation that is new or whose last landing has been overtaken.
JobMatchesLedger ==
    /\ job.pc \in {"load", "commit", "finalize"} =>
         IsPending(job.op.id) /\ ledger[job.op.id].op = job.op
    /\ job.pc = "prepare" =>
         /\ ledger[job.op.id] # None =>
              IsPending(job.op.id) /\ ledger[job.op.id].op = job.op
         /\ Overtaken(job.op.id)

\* commit()'s call, at one of the steps before its reply.
WriteOf(op, prepared, step) ==
    [step |-> step, tag |-> op.id, done |-> 0,
     changes |-> <<[path |-> op.path, content |-> prepared.next,
                    ifAbsent |-> FALSE, expected |-> prepared.expected]>>]

\* The provider call of the request: a read's reply is still what the file
\* has, and a write that is under way expects what the file still has.
CallMatchesFiles ==
    LET prepared == ledger[job.op.id].prepared
    IN  /\ job.pc = "idle" => call[Service] = Idle
        /\ job.pc \in {"prepare", "load", "finalize"} =>
             call[Service] \in {Reading(job.op.path),
                               [step |-> "data", content |-> files[job.op.path]],
                               [step |-> "failed"]}
        /\ job.pc = "commit" =>
             \/ call[Service] \in {[step |-> "committed"], [step |-> "failed"]}
             \/ /\ \E step \in {"commit", "staged", "renaming"} :
                     call[Service] = WriteOf(job.op, prepared, step)
                /\ prepared.expected = Bytes(files[job.op.path])
                /\ Overtaken(job.op.id)

\* What the three properties rest on, and they themselves.
LandingInv ==
    /\ TypeOK
    /\ JobMatchesLedger
    /\ CallMatchesFiles
    /\ RecoverableUntilOvertaken
    /\ RefusedOnlyIfOvertaken
    /\ NoRepeatUntilOvertaken

\* What is written is what was asked for: no collection gets two items of one
\* id, a prepared write is the requested change of the collection it expects,
\* and who goes on to finalize has the prepared bytes in the file.
EffectsAreRequested ==
    /\ \A p \in Path : UniqueIds(Bytes(files[p]))
    /\ \A o \in OpId : IsPending(o) => Applies(ledger[o].op, ledger[o].prepared)
    /\ (\/ job.pc = "finalize"
        \/ job.pc = "commit" /\ call[Service].step = "committed") =>
         Bytes(files[job.op.path]) = ledger[job.op.id].prepared.next

\* The inductive invariant.
IInv == LandingInv /\ EffectsAreRequested

-----------------------------------------------------------------------------
(***************************************************************************)
(* The service implements the source it promises.                          *)
(***************************************************************************)
InitialObjects == [p \in Path |-> ItemsIn(Bytes(InitialFiles[p]))]

SourceObjects == [p \in Path |-> ItemsIn(Bytes(files[p]))]

SpatialPromise ==
    INSTANCE SpatialSource WITH
        InitialObjects <- InitialObjects,
        objects <- SourceObjects,
        request <- SourceRequest,
        outcome <- SourceOutcome

\* Each operation id is bound to one request, takes effect only as that
\* request and on the revision it names, and is settled once and truthfully.
ImplementsSource == SpatialPromise!SourceSpec
=============================================================================
