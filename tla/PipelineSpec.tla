---------------------------- MODULE PipelineSpec ----------------------------
(***************************************************************************)
(* What Docker.Run promises of one pipeline, as its doc comment            *)
(* (docker.go:266-275) states it, with no goroutines, channels or locks:   *)
(* a job starts once all its dependencies succeeded, is skipped once they  *)
(* are all over and one of them did not succeed, and Run returns when      *)
(* every job is over.  Scheduler.tla is shown to implement this module.    *)
(***************************************************************************)
EXTENDS Sequences, SequencesExt

CONSTANTS
    Name,       \* the job names
    Pipelines   \* the pipelines Run may be called with: records of jobs, pipeline.Jobs in
                \* order; dependsOn, each job's DependsOn; and skippedJobs, the names
                \* the parser already gave up on

VARIABLES
    pipeline,    \* the pipeline of this run
    outcome,     \* what has become of each job
    result,      \* what Run returned, "none" before it returns
    failedNames  \* the jobs the returned error names

specVars == <<pipeline, outcome, result, failedNames>>

JobNames == ToSet(pipeline.jobs)
Deps(j) == ToSet(pipeline.dependsOn[j])

\* The jobs j depends on directly or transitively: the least set that holds
\* its dependencies and, with a job, that job's.
Ancestors(j) ==
    {a \in Name : \A S \in SUBSET Name :
        (Deps(j) \subseteq S /\ \A x \in S : Deps(x) \subseteq S) => a \in S}

HasDuplicate == \E m, n \in DOMAIN pipeline.jobs :
                    m # n /\ pipeline.jobs[m] = pipeline.jobs[n]
HasUnknownDep == \E j \in JobNames : ~(Deps(j) \subseteq JobNames)

Outcomes == {"pending", "running", "success", "failed", "skipped"}
Terminal == {"success", "failed", "skipped"}
Results == {"none", "nil", "duplicate", "unknown", "failed"}

Init ==
    /\ pipeline \in Pipelines
    /\ outcome = [j \in Name |-> "pending"]
    /\ result = "none"
    /\ failedNames = {}

\* A pipeline Run cannot schedule is refused before any job starts.
Reject(why) ==
    /\ result = "none"
    /\ outcome = [j \in Name |-> "pending"]
    /\ \/ why = "duplicate" /\ HasDuplicate
       \/ why = "unknown" /\ ~HasDuplicate /\ HasUnknownDep
    /\ result' = why
    /\ UNCHANGED <<pipeline, outcome, failedNames>>

Runnable == result = "none" /\ ~HasDuplicate /\ ~HasUnknownDep

Start(j) ==
    /\ Runnable
    /\ j \in JobNames
    /\ outcome[j] = "pending"
    /\ \A d \in Deps(j) : outcome[d] = "success"
    /\ outcome' = [outcome EXCEPT ![j] = "running"]
    /\ UNCHANGED <<pipeline, result, failedNames>>

Finish(j, o) ==
    /\ Runnable
    /\ j \in JobNames
    /\ outcome[j] = "running"
    /\ o \in {"success", "failed"}
    /\ outcome' = [outcome EXCEPT ![j] = o]
    /\ UNCHANGED <<pipeline, result, failedNames>>

Skip(j) ==
    /\ Runnable
    /\ j \in JobNames
    /\ outcome[j] = "pending"
    /\ \A d \in Deps(j) : outcome[d] \in Terminal
    /\ \E d \in Deps(j) : outcome[d] # "success"
    /\ outcome' = [outcome EXCEPT ![j] = "skipped"]
    /\ UNCHANGED <<pipeline, result, failedNames>>

Return ==
    /\ Runnable
    /\ \A j \in JobNames : outcome[j] \in Terminal
    /\ failedNames' = {j \in JobNames : outcome[j] = "failed"}
    /\ result' = IF failedNames' = {} THEN "nil" ELSE "failed"
    /\ UNCHANGED <<pipeline, outcome>>

Decide(j) == Start(j) \/ Skip(j)

Next ==
    \/ \E why \in {"duplicate", "unknown"} : Reject(why)
    \/ \E j \in Name : Decide(j)
    \/ \E j \in Name, o \in {"success", "failed"} : Finish(j, o)
    \/ Return

Spec == Init /\ [][Next]_specVars

\* Run decides every job whose dependencies are over and returns when all are
\* over.  Nothing is promised of Finish: no step has a timeout.
FairSpec ==
    /\ Spec
    /\ \A j \in Name : WF_specVars(Decide(j))
    /\ WF_specVars(Return)
=============================================================================
