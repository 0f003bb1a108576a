------------------------------ MODULE Executor ------------------------------
(***************************************************************************)
(* The executor as a whole: Scheduler's goroutines, each of which calls    *)
(* JobRun's runJob between setting its job's state to running and setting  *)
(* it to failed or success (internal/executor/docker.go:353-358).  Two     *)
(* steps are joint: the call, which logs JobStart, and JobDone, whose      *)
(* error is the one Scheduler then records.  SetFinal waits for the        *)
(* deferred cleanups, since runJob returns only after them.                *)
(***************************************************************************)
EXTENDS Naturals, Sequences, SequencesExt

CONSTANTS Name, NoName, Pipelines, Configs, MaxServices, MaxRetries, Controllers

VARIABLES
    pipeline, runPc, result, failedNames, pc, idx, blockedOn, jobErr, states, errs,
    done, wg, log,
    ctrl, config, jpc, svc, phase, step, firstErr, mainErr, retErr, cleanups, ctrlMu,
    live, running, started, astray, excused, trace

S == INSTANCE Scheduler
R == INSTANCE JobRun

\* What the two components assume of their constants.
ASSUME ExecutorAssumption == S!PipelinesAssumption /\ R!ConfigsAssumption

schedulerVars == <<pipeline, runPc, result, failedNames, pc, idx, blockedOn, jobErr,
                   states, errs, done, wg, log>>
jobRunVars == <<ctrl, config, jpc, svc, phase, step, firstErr, mainErr, retErr, cleanups,
                ctrlMu, live, running, started, astray, excused, trace>>
vars == <<schedulerVars, jobRunVars>>

Init == S!Init /\ R!Init

\* Run's goroutine, and what a job's goroutine does around runJob.
Schedules ==
    /\ \/ S!RunStep
       \/ \E j \in Name :
            \/ S!ReceiveDone(j) \/ S!ReadState(j) \/ S!SkipJob(j) \/ S!LogSkip(j)
            \/ S!StartJob(j) \/ S!CloseDone(j) \/ S!WgDone(j)
    /\ UNCHANGED jobRunVars

CallsRunJob(j) == S!LogJobStart(j) /\ R!Begin(j)

InRunJob(j) == pc[j] = "inJob" /\ R!Inner(j) /\ UNCHANGED schedulerVars

\* Mutant: only the main phase's error is returned.
LogsMainErr(j) == S!LogJobDone(j, mainErr[j] # "nil") /\ R!LogDone(j)

LogsJobDone(j) == S!LogJobDone(j, retErr[j] # "nil") /\ R!LogDone(j)

CleansUp(j) == /\ pc[j] = "record"
               /\ \E answer \in R!Answers : R!Cleanup(j, answer)
               /\ UNCHANGED schedulerVars

RunJobReturns(j) == R!Return(j) /\ S!SetFinal(j)

CommandEnds(j) == R!StepEnds(j) /\ UNCHANGED schedulerVars
DaemonActs(j) == R!Daemon(j) /\ UNCHANGED schedulerVars
UserAnswers(j) == R!Answered(j) /\ UNCHANGED schedulerVars

Terminated == S!Terminated /\ UNCHANGED jobRunVars

GoroutineStep(j) ==
    CallsRunJob(j) \/ InRunJob(j) \/ LogsJobDone(j) \/ CleansUp(j) \/ RunJobReturns(j)

Next ==
    \/ Schedules
    \/ \E j \in Name : GoroutineStep(j) \/ CommandEnds(j) \/ UserAnswers(j) \/ DaemonActs(j)
    \/ Terminated

Spec == Init /\ [][Next]_vars

\* As in the two components: goroutines run and the daemon answers, commands and
\* users may take forever.
Fairness ==
    /\ WF_vars(Schedules)
    /\ \A j \in Name : WF_vars(GoroutineStep(j))

FairSpec == Spec /\ Fairness

-----------------------------------------------------------------------------

\* What the daemon still holds for a job through no fault of its own.
Leftovers(j) == live[j] \ excused[j]

\* A job only starts when all it depends on is not just successful but gone: its
\* containers, its network and whatever its steps left running are removed before
\* its done channel is closed, unless the daemon refuses, so the two never compete
\* for the daemon or the bind-mounted workspace (docker.go:333-334, 399-404).
DependenciesAreGone ==
    \A j \in S!JobNames : jpc[j] # "idle" =>
        \A d \in S!Deps(j) : /\ jpc[d] = "returned"
                             /\ running[d] \subseteq excused[d]
                             /\ astray[d] => R!Main \in excused[d]

\* Skipped jobs never reached the daemon, and when Run returns no job has left
\* anything it was told of but a network that a container the daemon would not
\* remove holds on to (docker.go:346-351, 361, 394-404).
RunLeavesNothingBehind ==
    /\ \A j \in S!JobNames : states[j] \in {"pending", "skipped"} =>
            live[j] = {} /\ trace[j] = <<>>
    /\ runPc = "returned" => \A j \in Name :
            /\ Leftovers(j) \subseteq {R!Net}
            /\ Leftovers(j) # {} => live[j] \cap excused[j] # {}

EveryStepOnce(j) ==
    [k \in 1..(config[j].main + config[j].after) |->
        [phase |-> IF k <= config[j].main THEN "main" ELSE "after",
         step |-> IF k <= config[j].main THEN k ELSE k - config[j].main,
         failed |-> FALSE, decision |-> "none"]]

FailedSteps(j) == {r \in ToSet(trace[j]) : r.failed}

\* What Run returns is what happened.  Without a controller a nil means that every
\* step of every job was run exactly once, in order, and succeeded; an error names
\* exactly the jobs a step or the setup of which failed.  With one, a job is
\* reported exactly when its setup failed or the user aborted it; failures the user
\* continued past leave no trace (docker.go:102-105, 354-358, 363-383, 540-552).
VerdictIsRight ==
    /\ result = "nil" /\ ~ctrl => \A j \in S!JobNames : trace[j] = EveryStepOnce(j)
    /\ result \in {"nil", "failed"} =>
        failedNames = {j \in S!JobNames :
            retErr[j] = "setup" \/ IF ctrl THEN R!AbortedJob(j) ELSE FailedSteps(j) # {}}

\* Two jobs never use the terminal at once, and no job that ends, by any path,
\* keeps it (docker.go:143-148, 534-536).
OnePromptAtATime == R!OnePromptAtATime

\* Run returns if every command ends and every prompt is answered, whatever the
\* daemon refuses and in whatever order jobs contend for the terminal
\* (docker.go:273-275, 361).
RunReturns ==
    (\A j \in Name : []<>(jpc[j] # "stream") /\ []<>(jpc[j] # "prompt")) =>
        <>(runPc = "returned")

\* Decision's doc comment: "Abort stops the whole pipeline immediately."
\* (docker.go:109).  Once a job was aborted no step starts, in any job.
AbortStopsThePipeline ==
    [][(\E i \in Name : R!AbortedJob(i)) =>
        \A j \in Name : ~(jpc[j] = "steps" /\ jpc'[j] = "exec")]_vars
=============================================================================
