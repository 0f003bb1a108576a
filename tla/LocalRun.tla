------------------------------ MODULE LocalRun ------------------------------
(***************************************************************************)
(* polyci run from the file to its exit code: Import's parsers, and then   *)
(* Docker.Run on the pipeline they return, as PipelineSpec specifies it    *)
(* and Scheduler is shown to implement it.  What a job does is left to     *)
(* JobRun: it succeeds or fails, with nobody who continues past a failure. *)
(***************************************************************************)
EXTENDS Import

CONSTANT MaxFollowed   \* bound on the jobs of a pipeline whose run is followed

VARIABLES
    states,       \* Run's states, of no job before it is called
    result,       \* what it returned
    failedNames   \* the jobs its error names

runVars == <<states, result, failedNames>>

DependsOn(n) ==
    FlattenSeq([x \in DOMAIN out.jobs |->
        IF out.jobs[x].name = n THEN out.jobs[x].depends ELSE <<>>])

AsPipeline ==
    [jobs |-> [x \in DOMAIN out.jobs |-> out.jobs[x].name],
     dependsOn |-> [n \in JobNames |-> DependsOn(n)],
     skippedJobs |-> out.skipped]

R == INSTANCE PipelineSpec WITH Pipelines <- {}, pipeline <- AsPipeline, outcome <- states

LocalInit ==
    /\ Init
    /\ states = <<>> /\ result = "none" /\ failedNames = {}

Imports ==
    /\ ParseCircleCI \/ ParseGitHub \/ ParseGitLab \/ NoDaemon \/ Plan \/ Check
    /\ UNCHANGED runVars

CallRun ==
    /\ Run
    /\ states' = IF RunRejects(out) THEN states ELSE [n \in JobNames |-> "pending"]
    /\ UNCHANGED <<result, failedNames>>

Followed == outcome = "run" /\ Len(out.jobs) <= MaxFollowed

\* A step under a shell that is not supported fails.
MaySucceed(n) ==
    \A x \in DOMAIN out.jobs : out.jobs[x].name = n =>
        \A y \in DOMAIN out.jobs[x].steps : out.jobs[x].steps[y].command # "oddShell"

FinishJob(n) == R!Finish(n, "failed") \/ (MaySucceed(n) /\ R!Finish(n, "success"))

RunGoesOn ==
    /\ Followed
    /\ UNCHANGED vars
    /\ R!Return \/ \E n \in JobNames : R!Start(n) \/ R!Skip(n) \/ FinishJob(n)

Over ==
    /\ outcome \notin {"start", "parsed"}
    /\ Followed => result # "none"
    /\ UNCHANGED <<vars, runVars>>

LocalNext == Imports \/ CallRun \/ RunGoesOn \/ Over

LocalSpec == LocalInit /\ [][LocalNext]_<<vars, runVars>>

-----------------------------------------------------------------------------
Succeeded == {n \in DOMAIN states : states[n] = "success"}
Begun(n) == states[n] \in {"running", "success", "failed"}

StageOf(n) ==
    CHOOSE s \in {G!StageIndex(G!Stages(file), out.jobs[x].stage) :
                    x \in {y \in DOMAIN out.jobs : out.jobs[y].name = n}} : TRUE

\* What the file puts before a job: every job of an earlier stage; every combination
\* of what it needs; what it requires, in one of the workflows that name it.
Predecessors(n) ==
    CASE provider = "gitlab" -> {{m \in JobNames : StageOf(m) < StageOf(n)}}
      [] provider = "github-actions" -> {{m \in JobNames : m[1] \in Needs(n[1])}}
      [] provider = "circleci" ->
            {DepsIn(C!Workflows(file)[w].refs, n) :
                w \in {v \in DOMAIN C!Workflows(file) : n \in Known(C!Workflows(file)[v].refs)}}

\* Whatever jobs fail, and in whatever order they end, no job starts before all that
\* its file puts before it has succeeded, and none is skipped unless one of those did
\* not; a failure is in the exit code (gitlab/parser.go:258-262, circleci/parser.go:
\* 53-55, githubactions/parser.go:46-51, main.go:126-130).
RunFollowsTheFile ==
    /\ \A n \in DOMAIN states :
        /\ Begun(n) => \E before \in Predecessors(n) : before \subseteq Succeeded
        /\ states[n] = "skipped" => \E before \in Predecessors(n) :
                \E m \in before \cap DOMAIN states : states[m] \in {"failed", "skipped"}
    /\ result = "nil" => Succeeded = JobNames

-----------------------------------------------------------------------------
\* What polyci plan prints: "Levels run one after another; jobs within the same level
\* run in parallel." (plan.go:69)
LevelsRunInTurn ==
    \A m, n \in DOMAIN states :
        Begun(n) /\ LevelIn(out.jobs)[m] < LevelIn(out.jobs)[n] => states[m] \in R!Terminal
=============================================================================
