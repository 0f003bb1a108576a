----------------------------- MODULE Scheduler -----------------------------
(***************************************************************************)
(* Docker.Run (internal/executor/docker.go:281-383): the goroutine that    *)
(* validates the pipeline, spawns one goroutine per job, waits on the      *)
(* WaitGroup and collects the failures, and the job goroutines that wait   *)
(* on their dependencies' done channels, read the shared states map under  *)
(* its mutex, and start, skip or finish their job.                         *)
(*                                                                         *)
(* A critical section of mu (setState, getState) and a channel operation   *)
(* are one step each; so is each call on the Logger.  runJob is seen from  *)
(* outside here: it logs JobStart, later JobDone, and returns the error it *)
(* logged.  JobRun.tla opens it.                                           *)
(***************************************************************************)
EXTENDS Naturals, FiniteSets, Sequences, SequencesExt

CONSTANTS
    Name,       \* the job names
    NoName,     \* the empty string, blockedOn's initial value
    Pipelines   \* the pipelines Run may be called with

ASSUME PipelinesAssumption ==
    Pipelines \subseteq [jobs : Seq(Name), dependsOn : [Name -> Seq(Name)],
                         skippedJobs : SUBSET Name]

VARIABLES
    pipeline,    \* the argument of Run
    runPc,       \* where Run's own goroutine is
    result,      \* what Run returned, "none" before it returns
    failedNames, \* the jobs its error lists
    pc,          \* where each job's goroutine is
    idx,         \* its index in the loop over job.DependsOn
    blockedOn,   \* its local of that name
    jobErr,      \* what its runJob returned: TRUE for an error
    states,      \* the shared map of that name
    errs,        \* the names with an entry in the shared map of that name
    done,        \* the names whose done channel is closed
    wg,          \* the WaitGroup's counter
    log          \* the Logger calls about each job, in order

runVars == <<pipeline, runPc, result, failedNames>>
locals == <<idx, blockedOn, jobErr>>
shared == <<states, errs, done, wg>>
vars == <<runVars, pc, locals, shared, log>>

Abstract == INSTANCE PipelineSpec WITH outcome <- states

JobNames == ToSet(pipeline.jobs)
Deps(j) == ToSet(pipeline.dependsOn[j])
DepSeq(j) == pipeline.dependsOn[j]
Terminal == {"success", "failed", "skipped"}
Bad == {"failed", "skipped"}

RunPcs == {"report", "validate", "wait", "returned"}
Pcs == {"idle", "recv", "read", "logSkip", "runJob", "inJob", "record",
        "close", "wgDone", "exited"}
Events == {"JobSkipped", "JobStart", "JobDone", "JobDoneErr"}

TypeOK ==
    /\ pipeline \in Pipelines
    /\ runPc \in RunPcs
    /\ result \in Abstract!Results
    /\ failedNames \in SUBSET Name
    /\ pc \in [Name -> Pcs]
    /\ idx \in [Name -> Nat \ {0}]
    /\ blockedOn \in [Name -> Name \cup {NoName}]
    /\ jobErr \in [Name -> BOOLEAN]
    /\ states \in [Name -> Abstract!Outcomes]
    /\ errs \in SUBSET Name
    /\ done \in SUBSET Name
    /\ wg \in Nat
    /\ log \in [Name -> Seq(Events)]

Init ==
    /\ pipeline \in Pipelines
    /\ runPc = "report"
    /\ result = "none"
    /\ failedNames = {}
    /\ pc = [j \in Name |-> "idle"]
    /\ idx = [j \in Name |-> 1]
    /\ blockedOn = [j \in Name |-> NoName]
    /\ jobErr = [j \in Name |-> FALSE]
    /\ states = [j \in Name |-> "pending"]
    /\ errs = {}
    /\ done = {}
    /\ wg = 0
    /\ log = [j \in Name |-> <<>>]

Logged(j, e) == log' = [log EXCEPT ![j] = Append(@, e)]
Goto(j, from, to) == pc[j] = from /\ pc' = [pc EXCEPT ![j] = to]
ReturnFromRun(r) == runPc' = "returned" /\ result' = r

\* Jobs the parser skipped are reported before anything else; a pipeline
\* without jobs then succeeds.
ReportSkippedJobs ==
    /\ runPc = "report"
    /\ log' = [j \in Name |-> IF j \in pipeline.skippedJobs
                              THEN Append(log[j], "JobSkipped") ELSE log[j]]
    /\ IF pipeline.jobs = <<>> THEN ReturnFromRun("nil")
                               ELSE runPc' = "validate" /\ UNCHANGED result
    /\ UNCHANGED <<pipeline, failedNames, pc, locals, shared>>

\* All names are checked for duplicates before any dependency is looked up.
RejectDuplicate ==
    /\ runPc = "validate"
    /\ Abstract!HasDuplicate
    /\ ReturnFromRun("duplicate")
    /\ UNCHANGED <<pipeline, failedNames, pc, locals, shared, log>>

\* Mutant: dependencies are looked up before all names are known.
RejectUnknownFirst ==
    /\ runPc = "validate"
    /\ Abstract!HasUnknownDep
    /\ ReturnFromRun("unknown")
    /\ UNCHANGED <<pipeline, failedNames, pc, locals, shared, log>>

RejectUnknown ==
    /\ runPc = "validate"
    /\ ~Abstract!HasDuplicate
    /\ Abstract!HasUnknownDep
    /\ ReturnFromRun("unknown")
    /\ UNCHANGED <<pipeline, failedNames, pc, locals, shared, log>>

SpawnAll(count) ==
    /\ runPc = "validate"
    /\ ~Abstract!HasDuplicate
    /\ ~Abstract!HasUnknownDep
    /\ runPc' = "wait"
    /\ wg' = count
    /\ pc' = [j \in Name |-> IF j \in JobNames THEN "recv" ELSE "idle"]
    /\ UNCHANGED <<pipeline, result, failedNames, locals, states, errs, done, log>>

\* Mutant: wg.Add(1) before the loop.
SpawnAddsOne == SpawnAll(1)

\* The maps are filled and wg.Add(len(p.Jobs)) precedes the first go
\* statement; until a goroutine is scheduled it does nothing, so spawning
\* them all at once loses no interleaving.
Spawn == SpawnAll(Len(pipeline.jobs))

Receives(j) ==
    /\ idx[j] <= Len(DepSeq(j))
    /\ Goto(j, "recv", "read")
    /\ UNCHANGED <<runVars, locals, shared, log>>

DepDone(j) == DepSeq(j)[idx[j]] \in done

\* Mutants: the channel is not waited for; all that runs is.
ReceiveNothing(j) == Receives(j)
ReceiveAfterLevel(j) == Receives(j) /\ DepDone(j) /\ \A x \in Name : states[x] # "running"

\* <-done[dep] returns once that channel is closed.
ReceiveDone(j) == Receives(j) /\ DepDone(j)

ReadAs(j, bad) ==
    LET dep == DepSeq(j)[idx[j]] IN
    /\ Goto(j, "read", "recv")
    /\ idx' = [idx EXCEPT ![j] = @ + 1]
    /\ blockedOn' = IF states[dep] \in bad /\ blockedOn[j] = NoName
                    THEN [blockedOn EXCEPT ![j] = dep] ELSE blockedOn
    /\ UNCHANGED <<runVars, jobErr, shared, log>>

\* Mutant: only a failed dependency blocks, not a skipped one.
ReadStateFailedOnly(j) == ReadAs(j, {"failed"})

\* getState(dep), a critical section of its own after the receive; the first
\* dependency that did not succeed is remembered, later ones are not.
ReadState(j) == ReadAs(j, Bad)

DepsReceived(j) == pc[j] = "recv" /\ idx[j] > Len(DepSeq(j))

RecordSkip(j) ==
    /\ DepsReceived(j)
    /\ Goto(j, "recv", "logSkip")
    /\ states' = [states EXCEPT ![j] = "skipped"]
    /\ errs' = errs \cup {j}
    /\ UNCHANGED <<runVars, locals, done, wg, log>>

\* Mutant: the condition on blockedOn is lost.
SkipJobAlways(j) == RecordSkip(j)

SkipJob(j) == blockedOn[j] # NoName /\ RecordSkip(j)

\* Mutant: the call of JobSkipped is missing.
LogSkipSilent(j) ==
    /\ Goto(j, "logSkip", "close")
    /\ UNCHANGED <<runVars, locals, shared, log>>

LogSkip(j) ==
    /\ Goto(j, "logSkip", "close")
    /\ Logged(j, "JobSkipped")
    /\ UNCHANGED <<runVars, locals, shared>>

StartJob(j) ==
    /\ DepsReceived(j)
    /\ blockedOn[j] = NoName
    /\ Goto(j, "recv", "runJob")
    /\ states' = [states EXCEPT ![j] = "running"]
    /\ UNCHANGED <<runVars, locals, errs, done, wg, log>>

LogJobStart(j) ==
    /\ Goto(j, "runJob", "inJob")
    /\ Logged(j, "JobStart")
    /\ UNCHANGED <<runVars, locals, shared>>

\* runJob logs JobDone with the error it is about to return.
LogJobDone(j, failed) ==
    /\ Goto(j, "inJob", "record")
    /\ jobErr' = [jobErr EXCEPT ![j] = failed]
    /\ Logged(j, IF failed THEN "JobDoneErr" ELSE "JobDone")
    /\ UNCHANGED <<runVars, idx, blockedOn, shared>>

SetFinal(j) ==
    /\ Goto(j, "record", "close")
    /\ states' = [states EXCEPT ![j] = IF jobErr[j] THEN "failed" ELSE "success"]
    /\ errs' = IF jobErr[j] THEN errs \cup {j} ELSE errs
    /\ UNCHANGED <<runVars, locals, done, wg, log>>

\* Mutant: the channel is never closed.
CloseDoneForgotten(j) ==
    /\ Goto(j, "close", "wgDone")
    /\ UNCHANGED <<runVars, locals, shared, log>>

\* The deferred calls, last deferred first.
CloseDone(j) ==
    /\ Goto(j, "close", "wgDone")
    /\ done' = done \cup {j}
    /\ UNCHANGED <<runVars, locals, states, errs, wg, log>>

WgDone(j) ==
    /\ Goto(j, "wgDone", "exited")
    /\ wg' = wg - 1
    /\ UNCHANGED <<runVars, locals, states, errs, done, log>>

CollectFailures ==
    /\ runPc = "wait"
    /\ failedNames' = {j \in JobNames : states[j] = "failed"}
    /\ ReturnFromRun(IF failedNames' = {} THEN "nil" ELSE "failed")
    /\ UNCHANGED <<pipeline, pc, locals, shared, log>>

\* Mutant: wg.Wait is missing.
CollectWithoutWait == CollectFailures

\* wg.Wait has returned.  The sort that puts failedNames in order is left out:
\* the set of names is what the properties tell apart.
Collect == wg = 0 /\ CollectFailures

\* A returned Run stays returned; any other state without a step is a deadlock.
Terminated == runPc = "returned" /\ UNCHANGED vars

RunStep == ReportSkippedJobs \/ RejectDuplicate \/ RejectUnknown \/ Spawn \/ Collect

\* What a job's goroutine does by itself, runJob's own duration excluded.
JobStep(j) ==
    \/ ReceiveDone(j) \/ ReadState(j)
    \/ SkipJob(j) \/ LogSkip(j)
    \/ StartJob(j) \/ LogJobStart(j)
    \/ SetFinal(j) \/ CloseDone(j) \/ WgDone(j)

Next ==
    \/ RunStep
    \/ \E j \in Name : JobStep(j) \/ \E failed \in BOOLEAN : LogJobDone(j, failed)
    \/ Terminated

Spec == Init /\ [][Next]_vars

\* The Go scheduler runs every goroutine that can run.  How long a job takes is
\* up to its commands, which have no timeout: no fairness on LogJobDone.
FairSpec ==
    /\ Spec
    /\ WF_vars(RunStep)
    /\ \A j \in Name : WF_vars(JobStep(j))

-----------------------------------------------------------------------------
(* Safety *)

\* A dependent that gets past <-done[dep] reads dep's final state: the state is
\* set before the deferred close, on the failure and skip paths as well, and
\* never written again (docker.go:332-358).
DoneMeansFinal ==
    \A j \in Name : \A i \in 1..Len(DepSeq(j)) :
        (pc[j] = "read" /\ i = idx[j]) \/ i < idx[j] => states[DepSeq(j)[i]] \in Terminal

\* A job whose goroutine went past its dependency loop to runJob saw every one
\* of them succeed and return: their JobDone was logged without an error before
\* its own JobStart (docker.go:266-268).
RunsAfterItsDeps ==
    \A j \in JobNames : states[j] \in {"running", "success", "failed"} =>
        \A d \in Deps(j) : /\ states[d] = "success"
                           /\ Contains(log[d], "JobDone")

\* A job is skipped only when a job it depends on, directly or through others,
\* really ran and failed: a skip never comes out of nothing, and never from an
\* unrelated branch (docker.go:269-273).
SkippedForAnAncestorsFailure ==
    \A j \in JobNames : states[j] = "skipped" =>
        \E a \in Abstract!Ancestors(j) : states[a] = "failed"

\* No descendant of a failed job ever starts (docker.go:269-271).
FailureStopsDescendants ==
    \A j \in JobNames : states[j] \in {"running", "success", "failed"} =>
        \A a \in Abstract!Ancestors(j) : states[a] = "success"

\* What Run returns is the truth about all jobs: nil exactly when each of them
\* ran and succeeded, else the jobs that failed, each with an error recorded,
\* and every job is over by then (docker.go:361-383).
ResultIsTrue ==
    /\ result = "nil" => \A j \in JobNames : states[j] = "success"
    /\ result = "failed" =>
        /\ failedNames # {}
        /\ failedNames = {j \in JobNames : states[j] = "failed"}
        /\ failedNames \subseteq errs
        /\ \A j \in JobNames : states[j] \in Terminal

\* What the Logger is told of one job: its JobStart and then its JobDone, or one
\* JobSkipped, never both, and all of it before Run returns (docker.go:77-98).  A name
\* that the parser also lists in SkippedJobs is exempt: Run reports it at once, besides.
LoggerProtocol ==
    \A j \in JobNames \ pipeline.skippedJobs :
        /\ log[j] \in {<<>>, <<"JobSkipped">>, <<"JobStart">>, <<"JobStart", "JobDone">>,
                       <<"JobStart", "JobDoneErr">>}
        /\ result \in {"nil", "failed"} =>
            log[j] = CASE states[j] = "success" -> <<"JobStart", "JobDone">>
                       [] states[j] = "failed" -> <<"JobStart", "JobDoneErr">>
                       [] OTHER -> <<"JobSkipped">>

\* Run returns only when every goroutine it spawned has closed its channel and
\* counted down: none is left to write states or to call the Logger
\* (docker.go:329-334, 361).
NoGoroutineOutlivesRun ==
    runPc = "returned" => \A j \in Name : pc[j] \in {"idle", "exited"}

\* Run implements the promise of its doc comment.
ImplementsPipelineSpec == Abstract!Spec

-----------------------------------------------------------------------------
(* Liveness *)

\* One branch never holds up another: a job is decided, and over if it
\* itself ends, when its ancestors end, though a job it does not depend on
\* hangs forever (docker.go:267-273).
HungBranchHoldsUpNoOther ==
    \A j \in Name :
        (\A a \in Name :
            []<>(a \notin Abstract!Ancestors(j) \cup {j} \/ pc[a] # "inJob")) =>
        <>(j \notin JobNames \/ states[j] \in Terminal \/ result # "none")

\* The liveness of the abstract specification.
ImplementsFairness == Abstract!FairSpec
=============================================================================
