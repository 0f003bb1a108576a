--------------------------- MODULE ExecutorProofs ---------------------------
(***************************************************************************)
(* Proofs about the executor as a whole, for any pipeline and any jobs:    *)
(* it implements both of its components, so that what SchedulerProofs and  *)
(* JobRunProofs prove holds of it, and together they give what neither     *)
(* says alone.                                                             *)
(***************************************************************************)
EXTENDS Executor, TLAPS

SP == INSTANCE SchedulerProofs
RP == INSTANCE JobRunProofs

\* The empty name is no job's, and a free lock is nobody's.
NamesNonEmpty == NoName \notin Name

-----------------------------------------------------------------------------
(* SP and RP are S and R again, with their proofs. *)

LEMMA SchedulerIsTheSame ==
    (S!Init <=> SP!Init) /\ (S!Next <=> SP!Next) /\ S!vars = SP!vars /\ S!vars' = SP!vars'
BY DEF
   S!runVars, SP!runVars, S!locals, SP!locals, S!shared, SP!shared, S!vars, SP!vars,
   S!JobNames, SP!JobNames, S!Deps, SP!Deps, S!DepSeq, SP!DepSeq, S!Bad, SP!Bad, S!Logged,
   SP!Logged, S!Goto, SP!Goto, S!ReturnFromRun, SP!ReturnFromRun, S!ReportSkippedJobs,
   SP!ReportSkippedJobs, S!RejectDuplicate, SP!RejectDuplicate, S!RejectUnknown,
   SP!RejectUnknown, S!SpawnAll, SP!SpawnAll, S!Spawn, SP!Spawn, S!Receives, SP!Receives,
   S!DepDone, SP!DepDone, S!ReceiveDone, SP!ReceiveDone, S!ReadAs, SP!ReadAs, S!ReadState,
   SP!ReadState, S!DepsReceived, SP!DepsReceived, S!RecordSkip, SP!RecordSkip, S!SkipJob,
   SP!SkipJob, S!LogSkip, SP!LogSkip, S!StartJob, SP!StartJob, S!LogJobStart,
   SP!LogJobStart, S!LogJobDone, SP!LogJobDone, S!SetFinal, SP!SetFinal, S!CloseDone,
   SP!CloseDone, S!WgDone, SP!WgDone, S!CollectFailures, SP!CollectFailures, S!Collect,
   SP!Collect, S!Terminated, SP!Terminated, S!RunStep, SP!RunStep, S!JobStep, SP!JobStep,
   S!Next, SP!Next, S!Init, SP!Init, S!Abstract!HasDuplicate, SP!Abstract!HasDuplicate,
   S!Abstract!HasUnknownDep, SP!Abstract!HasUnknownDep, S!Abstract!JobNames,
   SP!Abstract!JobNames, S!Abstract!Deps, SP!Abstract!Deps, S!ToSet, SP!ToSet,
   S!Abstract!ToSet, SP!Abstract!ToSet

LEMMA JobRunIsTheSame ==
    (R!Init <=> RP!Init) /\ (R!Next <=> RP!Next) /\ R!vars = RP!vars /\ R!vars' = RP!vars'
BY DEF
   R!jobLocals, RP!jobLocals, R!daemon, RP!daemon, R!vars, RP!vars, R!Net, RP!Net, R!Main,
   RP!Main, R!Set, RP!Set, R!Goto, RP!Goto, R!Services, RP!Services, R!Retries,
   RP!Retries, R!Begin, RP!Begin, R!SetupFails, RP!SetupFails, R!EnsureImage,
   RP!EnsureImage, R!EnsureSvcImage, RP!EnsureSvcImage, R!Creates, RP!Creates,
   R!CreateNetwork, RP!CreateNetwork, R!CreateService, RP!CreateService,
   R!CreateContainer, RP!CreateContainer, R!Starts, RP!Starts, R!StartService,
   RP!StartService, R!StartContainer, RP!StartContainer, R!StepCount, RP!StepCount,
   R!StartStep, RP!StartStep, R!FinishStep, RP!FinishStep, R!ExecGoesOn, RP!ExecGoesOn,
   R!ExecCreate, RP!ExecCreate, R!ExecAttach, RP!ExecAttach, R!StreamEnds, RP!StreamEnds,
   R!Inspect, RP!Inspect, R!LockCtrl, RP!LockCtrl, R!Decided, RP!Decided, R!MovesOn,
   RP!MovesOn, R!AbortErr, RP!AbortErr, R!FailureOr, RP!FailureOr, R!Decide, RP!Decide,
   R!EndMain, RP!EndMain, R!EndAfter, RP!EndAfter, R!LogDone, RP!LogDone, R!MustRefuse,
   RP!MustRefuse, R!RunCleanup, RP!RunCleanup, R!Cleanup, RP!Cleanup, R!Return, RP!Return,
   R!Terminated, RP!Terminated, R!ContainerExits, RP!ContainerExits, R!StrayEnds,
   RP!StrayEnds, R!Daemon, RP!Daemon, R!DockerCall, RP!DockerCall, R!Inner, RP!Inner,
   R!StepEnds, RP!StepEnds, R!Answered, RP!Answered, R!Next, RP!Next, R!Init, RP!Init,
   R!Answers, RP!Answers, R!Decisions, RP!Decisions, R!Resources, RP!Resources, R!Front,
   RP!Front, R!Last, RP!Last

-----------------------------------------------------------------------------
(* The executor implements Scheduler and JobRun. *)

LEMMA NextRunsTheScheduler ==
    ASSUME [Next]_vars
    PROVE  [S!Next]_(S!vars)
<1> USE DEF S!JobStep
<1>1. CASE Schedules
  BY <1>1 DEF Schedules, S!Next
<1>2. ASSUME NEW j \in Name, GoroutineStep(j)
      PROVE  [S!Next]_(S!vars)
  <2>1. (retErr[j] # "nil") \in BOOLEAN
    OBVIOUS
  <2>2. CASE CallsRunJob(j)
    BY <2>2 DEF CallsRunJob, S!Next
  <2>3. CASE InRunJob(j) \/ CleansUp(j)
    BY <2>3 DEF InRunJob, CleansUp, schedulerVars, S!vars, S!runVars, S!locals, S!shared
  <2>4. CASE LogsJobDone(j)
    BY <2>1, <2>4 DEF LogsJobDone, S!Next
  <2>5. CASE RunJobReturns(j)
    BY <2>5 DEF RunJobReturns, S!Next
  <2> QED BY <1>2, <2>2, <2>3, <2>4, <2>5 DEF GoroutineStep
<1>3. ASSUME NEW j \in Name, CommandEnds(j) \/ UserAnswers(j) \/ DaemonActs(j)
      PROVE  [S!Next]_(S!vars)
  BY <1>3 DEF CommandEnds, UserAnswers, DaemonActs, schedulerVars, S!vars, S!runVars, S!locals, S!shared
<1>4. CASE Terminated
  BY <1>4 DEF Terminated, S!Next
<1>5. CASE UNCHANGED vars
  BY <1>5 DEF vars, schedulerVars, S!vars, S!runVars, S!locals, S!shared
<1> QED BY <1>1, <1>2, <1>3, <1>4, <1>5 DEF Next

LEMMA NextRunsTheJobs ==
    ASSUME [Next]_vars
    PROVE  [R!Next]_(R!vars)
<1> USE DEF jobRunVars, R!vars, R!jobLocals, R!daemon
<1>1. CASE Schedules \/ Terminated
  BY <1>1 DEF Schedules, Terminated
<1>2. ASSUME NEW j \in Name, GoroutineStep(j)
      PROVE  [R!Next]_(R!vars)
  <2>1. CASE CallsRunJob(j) \/ LogsJobDone(j) \/ RunJobReturns(j)
    BY <2>1 DEF CallsRunJob, LogsJobDone, RunJobReturns, R!Next
  <2>2. CASE InRunJob(j)
    BY <2>2 DEF InRunJob, R!Next
  <2>3. CASE CleansUp(j)
    BY <2>3 DEF CleansUp, R!Next, R!Inner, R!DockerCall
  <2> QED BY <1>2, <2>1, <2>2, <2>3 DEF GoroutineStep
<1>3. ASSUME NEW j \in Name, CommandEnds(j) \/ UserAnswers(j) \/ DaemonActs(j)
      PROVE  [R!Next]_(R!vars)
  BY <1>3 DEF CommandEnds, UserAnswers, DaemonActs, R!Next
<1>4. CASE UNCHANGED vars
  BY <1>4 DEF vars
<1> QED BY <1>1, <1>2, <1>3, <1>4 DEF Next

\* Around what jobs really do, the goroutines of Run behave as Scheduler says: no
\* failing call, decision or lost container makes one leave it (docker.go:281-383).
THEOREM ImplementsScheduler == Spec => S!Spec
<1>1. Init => S!Init
  BY DEF Init
<1>2. [Next]_vars => [S!Next]_(S!vars)
  BY NextRunsTheScheduler
<1> QED BY <1>1, <1>2, PTL DEF Spec, S!Spec

\* And each job that is started behaves as JobRun says (docker.go:385-569).
THEOREM ImplementsJobRun == Spec => R!Spec
<1>1. Init => R!Init
  BY DEF Init
<1>2. [Next]_vars => [R!Next]_(R!vars)
  BY NextRunsTheJobs
<1> QED BY <1>1, <1>2, PTL DEF Spec, R!Spec

LEMMA SchedulerInv == ASSUME NamesNonEmpty PROVE Spec => []SP!IInv
<1>1. SP!NamesNonEmpty /\ S!PipelinesAssumption
  BY ExecutorAssumption DEF NamesNonEmpty, SP!NamesNonEmpty
<1>2. SP!Spec => []SP!IInv
  BY <1>1, SP!InductiveInvariant, PTL
<1>3. Init => SP!Init
  BY SchedulerIsTheSame DEF Init
<1>4. [Next]_vars => [SP!Next]_(SP!vars)
  BY NextRunsTheScheduler, SchedulerIsTheSame
<1> QED BY <1>2, <1>3, <1>4, PTL DEF Spec, SP!Spec

LEMMA JobRunInv == ASSUME NamesNonEmpty PROVE Spec => []RP!IInv
<1>1. RP!FreeIsNobody /\ R!ConfigsAssumption
  BY ExecutorAssumption DEF NamesNonEmpty, RP!FreeIsNobody
<1>2. RP!Spec => []RP!IInv
  BY <1>1, RP!InductiveInvariant, PTL
<1>3. Init => RP!Init
  BY JobRunIsTheSame DEF Init
<1>4. [Next]_vars => [RP!Next]_(RP!vars)
  BY NextRunsTheJobs, JobRunIsTheSame
<1> QED BY <1>2, <1>3, <1>4, PTL DEF Spec, RP!Spec

-----------------------------------------------------------------------------
(* A job's two places, in Run and in runJob, go together. *)

Inside == R!Pcs \ {"idle", "cleanup", "returned"}

TogetherOf(j) ==
    /\ pc[j] \in {"idle", "recv", "read", "logSkip", "runJob"} => jpc[j] = "idle"
    /\ states[j] = "skipped" => jpc[j] = "idle"
    /\ pc[j] = "inJob" => jpc[j] \in Inside
    /\ pc[j] = "record" => jpc[j] = "cleanup"
    /\ pc[j] \in {"close", "wgDone", "exited"} /\ states[j] # "skipped" => jpc[j] = "returned"
    /\ jpc[j] = "idle" => live[j] = {} /\ trace[j] = <<>>

Together == \A j \in Name : TogetherOf(j)

\* The invariants of both components, and what ties them.
JointInv == SP!IInv /\ RP!IInv /\ Together

\* What a step within runJob does, but for its end: it stays inside.
StaysInside(j) ==
    /\ \E to \in Inside : jpc' = [jpc EXCEPT ![j] = to]
    /\ jpc[j] \in Inside
    /\ \A i \in Name \ {j} :
        live'[i] = live[i] /\ trace'[i] = trace[i] /\ retErr'[i] = retErr[i]

LEMMA Types ==
    ASSUME JointInv
    PROVE  /\ jpc \in [Name -> R!Pcs] /\ live \in [Name -> SUBSET R!Resources]
           /\ trace \in [Name -> Seq(R!StepRun)] /\ retErr \in [Name -> R!Errs]
           /\ pc \in [Name -> S!Pcs] /\ states \in [Name -> S!Abstract!Outcomes]
BY DEF JointInv, RP!IInv, RP!TypeOK, SP!IInv, SP!TypeOK, R!Pcs, RP!Pcs, R!Resources,
   RP!Resources, R!Main, RP!Main, R!StepRun, RP!StepRun, R!Phases, RP!Phases, R!Errs, RP!Errs,
   R!Decisions, RP!Decisions, S!Pcs, SP!Pcs, S!Abstract!Outcomes, SP!Abstract!Outcomes

LEMMA FinishStaysInside ==
    ASSUME JointInv, NEW j \in Name, NEW from \in Inside, NEW failed \in BOOLEAN,
           R!FinishStep(j, from, failed), UNCHANGED <<live, retErr>>
    PROVE  StaysInside(j)
<1>1. {"lock", "steps"} \subseteq Inside
  BY DEF Inside, R!Pcs
<1> QED BY <1>1, Types DEF R!FinishStep, R!Goto, R!Set, StaysInside

LEMMA ExecStaysInside ==
    ASSUME JointInv, NEW j \in Name, NEW from \in Inside, NEW to \in Inside,
           NEW goesOn \in BOOLEAN, R!ExecGoesOn(j, from, to, goesOn)
    PROVE  StaysInside(j)
<1>1. CASE goesOn
  BY <1>1, Types DEF R!ExecGoesOn, R!Goto, R!Set, StaysInside
<1>2. CASE ~goesOn
  BY <1>2, FinishStaysInside DEF R!ExecGoesOn
<1> QED BY <1>1, <1>2

LEMMA CreatesStaysInside ==
    ASSUME JointInv, NEW j \in Name, NEW r, NEW from \in Inside, NEW to \in Inside,
           NEW answer \in R!Answers, R!Creates(j, r, from, to, answer)
    PROVE  StaysInside(j)
<1>1. "logDone" \in Inside
  BY DEF Inside, R!Pcs
<1> QED BY <1>1, Types DEF R!Creates, R!SetupFails, R!Goto, R!Set, StaysInside

LEMMA StartsStaysInside ==
    ASSUME JointInv, NEW j \in Name, NEW r, NEW from \in Inside, NEW to \in Inside,
           NEW answer \in R!Answers, R!Starts(j, r, from, to, answer)
    PROVE  StaysInside(j)
<1>1. "logDone" \in Inside
  BY DEF Inside, R!Pcs
<1> QED BY <1>1, Types DEF R!Starts, R!SetupFails, R!Goto, R!Set, StaysInside

LEMMA InnerStaysInside ==
    ASSUME JointInv, NEW j \in Name,
           (R!Inner(j) /\ jpc[j] # "cleanup") \/ R!StepEnds(j) \/ R!Answered(j)
    PROVE  StaysInside(j)
<1> USE DEF R!Goto, R!Set, R!daemon
<1>1. /\ Inside = {"image", "svcImage", "createNet", "createSvc", "startSvc", "create", "start",
                   "steps", "exec", "attach", "stream", "inspect", "lock", "prompt", "logDone"}
  BY DEF Inside, R!Pcs
<1>2. CASE R!EnsureImage(j) \/ R!EnsureSvcImage(j)
  BY <1>1, <1>2, Types DEF R!EnsureImage, R!EnsureSvcImage, R!SetupFails, StaysInside
<1>3. ASSUME NEW answer \in R!Answers,
             R!CreateNetwork(j, answer) \/ R!CreateService(j, answer) \/ R!CreateContainer(j, answer)
      PROVE  StaysInside(j)
  BY <1>1, <1>3, CreatesStaysInside DEF R!CreateNetwork, R!CreateService, R!CreateContainer
<1>4. ASSUME NEW answer \in R!Answers, R!StartService(j, answer) \/ R!StartContainer(j, answer)
      PROVE  StaysInside(j)
  BY <1>1, <1>4, StartsStaysInside DEF R!StartService, R!StartContainer
<1>5. ASSUME NEW answer \in R!Answers, R!ExecCreate(j, answer) \/ R!ExecAttach(j, answer)
      PROVE  StaysInside(j)
  BY <1>1, <1>5, ExecStaysInside DEF R!ExecCreate, R!ExecAttach
<1>6. ASSUME NEW how, R!StreamEnds(j, how)
      PROVE  StaysInside(j)
  BY <1>1, <1>6, ExecStaysInside DEF R!StreamEnds
<1>7. ASSUME NEW failed \in BOOLEAN, R!Inspect(j, failed)
      PROVE  StaysInside(j)
  BY <1>1, <1>7, FinishStaysInside DEF R!Inspect
<1>8. CASE R!StartStep(j) \/ R!LockCtrl(j) \/ R!EndMain(j) \/ R!EndAfter(j)
  BY <1>1, <1>8, Types DEF R!StartStep, R!LockCtrl, R!EndMain, R!EndAfter, R!jobLocals, StaysInside
<1>9. ASSUME NEW decision \in R!Decisions, R!Decide(j, decision)
      PROVE  StaysInside(j)
  <2>1. \A i \in Name \ {j} : retErr'[i] = retErr[i]
    BY <1>9, Types DEF R!Decide, R!AbortErr
  <2> QED BY <1>1, <1>9, <2>1, Types DEF R!Decide, R!Decided, StaysInside
<1>10. ASSUME NEW answer \in R!Answers, R!Cleanup(j, answer)
       PROVE  jpc[j] = "cleanup"
  BY <1>10 DEF R!Cleanup, R!RunCleanup
<1> QED BY <1>2, <1>3, <1>4, <1>5, <1>6, <1>7, <1>8, <1>9, <1>10
        DEF R!Inner, R!DockerCall, R!StepEnds, R!Answered

-----------------------------------------------------------------------------
(* Every step keeps the two together. *)

LEMMA InitTogether == Init => Together
BY DEF Init, S!Init, R!Init, Together, TogetherOf

LEMMA StayingInsideKeeps ==
    ASSUME JointInv, NEW j \in Name, StaysInside(j), pc' = pc, states' = states
    PROVE  Together'
<1>1. pc[j] = "inJob" /\ states[j] # "skipped"
  BY Types DEF JointInv, Together, TogetherOf, StaysInside, Inside, R!Pcs, S!Pcs
<1>2. jpc'[j] \in Inside /\ \A i \in Name \ {j} : jpc'[i] = jpc[i]
  BY Types DEF StaysInside
<1>3. TogetherOf(j)'
  BY <1>1, <1>2 DEF TogetherOf, Inside, R!Pcs
<1>4. ASSUME NEW i \in Name \ {j}
      PROVE  TogetherOf(i)'
  BY <1>2, <1>4 DEF JointInv, Together, TogetherOf, StaysInside, Inside, R!Pcs
<1> QED BY <1>3, <1>4 DEF Together

LEMMA SchedulesKeeps ==
    ASSUME JointInv, Schedules
    PROVE  Together'
<1>1. UNCHANGED <<jpc, live, trace>>
  BY DEF Schedules, jobRunVars
<1>2. SUFFICES ASSUME NEW i \in Name
               PROVE  TogetherOf(i)'
  BY DEF Together
<1>3. TogetherOf(i)
  BY DEF JointInv, Together
<1>4. CASE S!RunStep
  <2>1. CASE S!Spawn
    <3>1. pc[i] = "idle" /\ pc'[i] \in {"idle", "recv"} /\ states' = states
      BY <2>1 DEF JointInv, SP!IInv, SP!RunPhase, S!Spawn, S!SpawnAll
    <3> QED BY <1>1, <1>3, <3>1 DEF TogetherOf, Inside, R!Pcs
  <2>2. CASE ~S!Spawn
    <3>1. pc' = pc /\ states' = states
      BY <1>4, <2>2 DEF S!RunStep, S!ReportSkippedJobs, S!RejectDuplicate, S!RejectUnknown,
         S!Collect, S!CollectFailures, S!shared
    <3> QED BY <1>1, <1>3, <3>1 DEF TogetherOf, Inside, R!Pcs
  <2> QED BY <2>1, <2>2
<1>5. ASSUME NEW j \in Name,
             \/ S!ReceiveDone(j) \/ S!ReadState(j) \/ S!SkipJob(j) \/ S!LogSkip(j)
             \/ S!StartJob(j) \/ S!CloseDone(j) \/ S!WgDone(j)
      PROVE  TogetherOf(i)'
  <2>1. /\ i # j => pc'[i] = pc[i] /\ states'[i] = states[i]
        /\ \/ /\ pc[j] \in {"recv", "read"} /\ pc'[j] \in {"recv", "read"}
              /\ states'[j] = states[j]
           \/ pc[j] = "recv" /\ pc'[j] = "logSkip" /\ states'[j] = "skipped"
           \/ pc[j] = "logSkip" /\ pc'[j] = "close" /\ states'[j] = states[j]
           \/ pc[j] = "recv" /\ pc'[j] = "runJob" /\ states'[j] = "running"
           \/ /\ pc[j] \in {"close", "wgDone"} /\ pc'[j] \in {"wgDone", "exited"}
              /\ states'[j] = states[j]
    BY <1>5, Types DEF S!ReceiveDone, S!Receives, S!ReadState, S!ReadAs, S!SkipJob, S!RecordSkip,
       S!LogSkip, S!StartJob, S!CloseDone, S!WgDone, S!Goto, S!shared, S!DepsReceived
  <2>2. pc[j] = "logSkip" => states[j] = "skipped"
    BY DEF JointInv, SP!IInv, SP!PcState
  <2> QED BY <1>1, <1>3, <2>1, <2>2 DEF TogetherOf, Inside, R!Pcs
<1> QED BY <1>4, <1>5 DEF Schedules

LEMMA RunJobStepKeeps ==
    ASSUME JointInv, NEW j \in Name,
           CallsRunJob(j) \/ LogsJobDone(j) \/ RunJobReturns(j)
    PROVE  Together'
<1> USE DEF CallsRunJob, LogsJobDone, RunJobReturns, R!Begin, R!LogDone, R!Return,
            S!LogJobStart, S!LogJobDone, S!SetFinal, R!Goto, R!Set, S!Goto, R!daemon, S!shared
<1>1. /\ live' = live /\ trace' = trace
      /\ \A i \in Name \ {j} : pc'[i] = pc[i] /\ jpc'[i] = jpc[i] /\ states'[i] = states[i]
      /\ \/ /\ pc[j] = "runJob" /\ pc'[j] = "inJob" /\ jpc'[j] = "image" /\ states'[j] = states[j]
         \/ /\ pc[j] = "inJob" /\ pc'[j] = "record" /\ jpc'[j] = "cleanup" /\ states'[j] = states[j]
         \/ /\ pc[j] = "record" /\ pc'[j] = "close" /\ jpc'[j] = "returned"
            /\ states'[j] \in {"failed", "success"}
  BY Types
<1>2. pc[j] \in {"runJob", "inJob"} => states[j] = "running"
  BY DEF JointInv, SP!IInv, SP!PcState
<1>3. TogetherOf(j)'
  BY <1>1, <1>2 DEF TogetherOf, Inside, R!Pcs
<1>4. ASSUME NEW i \in Name \ {j}
      PROVE  TogetherOf(i)'
  BY <1>1, <1>4 DEF JointInv, Together, TogetherOf, Inside, R!Pcs
<1> QED BY <1>3, <1>4 DEF Together

LEMMA DaemonKeeps ==
    ASSUME JointInv, NEW j \in Name, CleansUp(j) \/ DaemonActs(j)
    PROVE  Together'
<1>1. /\ pc' = pc /\ states' = states /\ jpc' = jpc /\ trace' = trace
      /\ \A i \in Name \ {j} : live'[i] = live[i]
      /\ live' = live \/ jpc[j] = "cleanup"
  BY Types DEF CleansUp, DaemonActs, R!Cleanup, R!RunCleanup, R!Daemon, R!StrayEnds,
     R!ContainerExits, R!Set, schedulerVars
<1> QED BY <1>1 DEF JointInv, Together, TogetherOf, Inside, R!Pcs

LEMMA NextTogether ==
    ASSUME JointInv, [Next]_vars
    PROVE  Together'
<1>1. CASE Schedules
  BY <1>1, SchedulesKeeps
<1>2. ASSUME NEW j \in Name, GoroutineStep(j) \/ CommandEnds(j) \/ UserAnswers(j) \/ DaemonActs(j)
      PROVE  Together'
  <2>1. CASE CallsRunJob(j) \/ LogsJobDone(j) \/ RunJobReturns(j)
    BY <2>1, RunJobStepKeeps
  <2>2. CASE InRunJob(j) \/ CommandEnds(j) \/ UserAnswers(j)
    <3>1. pc' = pc /\ states' = states
      BY <2>2 DEF InRunJob, CommandEnds, UserAnswers, schedulerVars
    <3>2. pc[j] = "inJob" => jpc[j] # "cleanup"
      BY DEF JointInv, Together, TogetherOf, Inside
    <3>3. StaysInside(j)
      BY <2>2, <3>2, InnerStaysInside DEF InRunJob, CommandEnds, UserAnswers
    <3> QED BY <3>1, <3>3, StayingInsideKeeps
  <2>3. CASE CleansUp(j) \/ DaemonActs(j)
    BY <2>3, DaemonKeeps
  <2> QED BY <1>2, <2>1, <2>2, <2>3 DEF GoroutineStep
<1>3. CASE UNCHANGED <<pc, states, jpc, live, trace>>
  BY <1>3 DEF JointInv, Together, TogetherOf, Inside, R!Pcs
<1> QED BY <1>1, <1>2, <1>3 DEF Next, Terminated, S!Terminated, vars, schedulerVars, jobRunVars,
        S!vars, S!shared

\* What Run recorded of a job whose runJob ended is what runJob returned.
RecordOf(j) ==
    /\ pc[j] = "record" => (jobErr[j] <=> retErr[j] # "nil")
    /\ pc[j] \in {"close", "wgDone", "exited"} /\ states[j] # "skipped" =>
        (states[j] = "failed" <=> retErr[j] # "nil")

Records ==
    /\ \A j \in Name : RecordOf(j)
    /\ result # "failed" => failedNames = {}

LEMMA JointInvariant == ASSUME NamesNonEmpty PROVE Spec => []JointInv
<1>1. Init => Together
  BY InitTogether
<1>2. SP!IInv /\ RP!IInv /\ Together /\ [Next]_vars => Together'
  BY NextTogether DEF JointInv
<1>3. SP!IInv /\ RP!IInv /\ Together => JointInv
  BY DEF JointInv
<1> QED BY <1>1, <1>2, <1>3, SchedulerInv, JobRunInv, PTL DEF Spec

-----------------------------------------------------------------------------
(* The error that runJob returns is the one that Run records. *)

LEMMA StayingInsideRecords ==
    ASSUME JointInv, Records, NEW j \in Name, StaysInside(j), UNCHANGED schedulerVars
    PROVE  Records'
<1>1. pc[j] = "inJob"
  BY Types DEF JointInv, Together, TogetherOf, StaysInside, Inside, R!Pcs, S!Pcs
<1>2. /\ pc' = pc /\ states' = states /\ jobErr' = jobErr /\ result' = result
      /\ failedNames' = failedNames
  BY DEF schedulerVars
<1>3. ASSUME NEW i \in Name
      PROVE  RecordOf(i)'
  BY <1>1, <1>2 DEF Records, RecordOf, StaysInside
<1> QED BY <1>2, <1>3 DEF Records

LEMMA SchedulesRecords ==
    ASSUME JointInv, Records, Schedules
    PROVE  Records'
<1>1. retErr' = retErr
  BY DEF Schedules, jobRunVars
<1>2. CASE S!RunStep
  <2>1. result' # "failed" => failedNames' = {}
    BY <1>2 DEF Records, S!RunStep, S!ReportSkippedJobs, S!RejectDuplicate, S!RejectUnknown,
       S!Spawn, S!SpawnAll, S!Collect, S!CollectFailures, S!ReturnFromRun, JointInv, SP!IInv,
       SP!RunPhase
  <2>2. states' = states /\ jobErr' = jobErr
    BY <1>2 DEF S!RunStep, S!ReportSkippedJobs, S!RejectDuplicate, S!RejectUnknown, S!Spawn,
       S!SpawnAll, S!Collect, S!CollectFailures, S!shared, S!locals
  <2>3. \A i \in Name : pc'[i] = pc[i] \/ pc'[i] \in {"idle", "recv"}
    BY <1>2, Types DEF S!RunStep, S!ReportSkippedJobs, S!RejectDuplicate, S!RejectUnknown, S!Spawn,
       S!SpawnAll, S!Collect, S!CollectFailures
  <2> QED BY <1>1, <2>1, <2>2, <2>3 DEF Records, RecordOf
<1>3. ASSUME NEW j \in Name,
             \/ S!ReceiveDone(j) \/ S!ReadState(j) \/ S!SkipJob(j) \/ S!LogSkip(j)
             \/ S!StartJob(j) \/ S!CloseDone(j) \/ S!WgDone(j)
      PROVE  Records'
  <2>1. UNCHANGED <<result, failedNames, jobErr>>
    BY <1>3 DEF S!ReceiveDone, S!Receives, S!ReadState, S!ReadAs, S!SkipJob, S!RecordSkip,
       S!LogSkip, S!StartJob, S!CloseDone, S!WgDone, S!shared, S!locals, S!runVars
  <2>2. /\ \A i \in Name \ {j} : pc'[i] = pc[i] /\ states'[i] = states[i]
        /\ \/ pc'[j] \in {"recv", "read", "logSkip", "runJob"}
           \/ pc[j] = "logSkip" /\ states'[j] = states[j]
           \/ /\ pc[j] \in {"close", "wgDone"} /\ pc'[j] \in {"wgDone", "exited"}
              /\ states'[j] = states[j]
    BY <1>3, Types DEF S!ReceiveDone, S!Receives, S!ReadState, S!ReadAs, S!SkipJob, S!RecordSkip,
       S!LogSkip, S!StartJob, S!CloseDone, S!WgDone, S!Goto, S!shared, S!DepsReceived
  <2>3. pc[j] = "logSkip" => states[j] = "skipped" /\ pc'[j] # "record"
    BY <1>3, Types DEF JointInv, SP!IInv, SP!PcState, S!ReceiveDone, S!Receives, S!ReadState, S!ReadAs,
       S!SkipJob, S!RecordSkip, S!LogSkip, S!StartJob, S!CloseDone, S!WgDone, S!Goto
  <2>4. ASSUME NEW i \in Name
        PROVE  RecordOf(i)'
    BY <1>1, <2>1, <2>2, <2>3 DEF Records, RecordOf
  <2> QED BY <2>1, <2>4 DEF Records
<1> QED BY <1>2, <1>3 DEF Schedules

LEMMA RunJobStepRecords ==
    ASSUME JointInv, Records, NEW j \in Name,
           CallsRunJob(j) \/ LogsJobDone(j) \/ RunJobReturns(j)
    PROVE  Records'
<1> USE DEF CallsRunJob, LogsJobDone, RunJobReturns, R!Begin, R!LogDone, R!Return,
            S!LogJobStart, S!LogJobDone, S!SetFinal, S!Goto, S!shared, S!locals, S!runVars,
            R!jobLocals
<1>1. retErr' = retErr /\ UNCHANGED <<result, failedNames>>
  OBVIOUS
<1>2. jobErr \in [Name -> BOOLEAN] /\ (retErr[j] # "nil") \in BOOLEAN
  BY DEF JointInv, SP!IInv, SP!TypeOK
<1>3. /\ \A i \in Name \ {j} :
          pc'[i] = pc[i] /\ states'[i] = states[i] /\ jobErr'[i] = jobErr[i]
      /\ \/ pc'[j] = "inJob"
         \/ pc'[j] = "record" /\ jobErr'[j] = (retErr[j] # "nil")
         \/ /\ pc[j] = "record" /\ pc'[j] = "close"
            /\ states'[j] = IF jobErr[j] THEN "failed" ELSE "success"
  BY <1>2, Types
<1> HIDE DEF CallsRunJob, LogsJobDone, RunJobReturns
<1>4. ASSUME NEW i \in Name
      PROVE  RecordOf(i)'
  BY <1>1, <1>3 DEF Records, RecordOf
<1> QED BY <1>1, <1>4 DEF Records

LEMMA NextRecords ==
    ASSUME JointInv, Records, [Next]_vars
    PROVE  Records'
<1>1. CASE Schedules
  BY <1>1, SchedulesRecords
<1>2. ASSUME NEW j \in Name, GoroutineStep(j) \/ CommandEnds(j) \/ UserAnswers(j) \/ DaemonActs(j)
      PROVE  Records'
  <2>1. CASE CallsRunJob(j) \/ LogsJobDone(j) \/ RunJobReturns(j)
    BY <2>1, RunJobStepRecords
  <2>2. CASE InRunJob(j) \/ CommandEnds(j) \/ UserAnswers(j)
    <3>1. pc[j] = "inJob" => jpc[j] # "cleanup"
      BY DEF JointInv, Together, TogetherOf, Inside
    <3>2. StaysInside(j)
      BY <2>2, <3>1, InnerStaysInside DEF InRunJob, CommandEnds, UserAnswers
    <3> QED BY <2>2, <3>2, StayingInsideRecords DEF InRunJob, CommandEnds, UserAnswers
  <2>3. CASE CleansUp(j) \/ DaemonActs(j)
    <3>1. retErr' = retErr /\ UNCHANGED schedulerVars
      BY <2>3 DEF CleansUp, DaemonActs, R!Cleanup, R!RunCleanup, R!Daemon, R!StrayEnds,
         R!ContainerExits, R!jobLocals
    <3> QED BY <3>1 DEF Records, RecordOf, schedulerVars
  <2> QED BY <1>2, <2>1, <2>2, <2>3 DEF GoroutineStep
<1>3. CASE Terminated \/ UNCHANGED vars
  BY <1>3 DEF Terminated, S!Terminated, S!vars, S!runVars, S!locals, S!shared, vars, schedulerVars,
     jobRunVars, Records, RecordOf
<1> QED BY <1>1, <1>2, <1>3 DEF Next

LEMMA RecordsInv == ASSUME NamesNonEmpty PROVE Spec => []Records
<1>1. Init => Records
  BY DEF Init, S!Init, Records, RecordOf
<1>2. JointInv /\ Records /\ [Next]_vars => Records'
  BY NextRecords
<1> QED BY <1>1, <1>2, JointInvariant, PTL DEF Spec

-----------------------------------------------------------------------------
(* The theorems. *)

\* What is left of a job that returned, or never ran.
LEMMA Emptied ==
    ASSUME JointInv, NEW j \in Name, jpc[j] = "returned"
    PROVE  /\ Leftovers(j) \subseteq {R!Net}
           /\ Leftovers(j) # {} => live[j] \cap excused[j] # {}
           /\ running[j] \subseteq excused[j]
           /\ astray[j] => R!Main \in excused[j]
<1> USE DEF R!Net, RP!Net, R!Main, RP!Main
<1>1. cleanups[j] = <<>> /\ RP!ToSet(cleanups[j]) = {}
  BY DEF JointInv, RP!IInv, RP!PlaceOf, RP!ToSet
<1>2. \A r \in live[j] : r \in excused[j] \/ (r = R!Net /\ live[j] \cap excused[j] # {})
  BY <1>1 DEF JointInv, RP!IInv, RP!HoldingsOf, RP!Covered
<1>3. running[j] \subseteq live[j] \ {R!Net} /\ (astray[j] => R!Main \in running[j])
  BY DEF JointInv, RP!IInv, RP!HoldingsOf
<1> QED BY <1>2, <1>3 DEF Leftovers

\* Before a job starts, the containers of all it depends on are gone, unless the
\* daemon would not remove them (docker.go:333-334, 399-404).
THEOREM DependentsStartAlone == ASSUME NamesNonEmpty PROVE Spec => []DependenciesAreGone
<1>1. JointInv => DependenciesAreGone
  <2> SUFFICES ASSUME JointInv, NEW j \in S!JobNames, jpc[j] # "idle", NEW d \in S!Deps(j)
               PROVE  /\ jpc[d] = "returned" /\ running[d] \subseteq excused[d]
                      /\ astray[d] => R!Main \in excused[d]
    BY DEF DependenciesAreGone
  <2>1. j \in SP!JobNames /\ d \in SP!Deps(j)
    BY DEF S!JobNames, SP!JobNames, S!Deps, SP!Deps, S!ToSet, SP!ToSet
  <2>2. j \in Name /\ d \in Name
    BY <2>1, ExecutorAssumption, SP!PipelineData DEF JointInv, SP!IInv, SP!TypeOK
  <2>3. pc[j] \in {"inJob", "record", "close", "wgDone", "exited"} /\ states[j] # "skipped"
    BY <2>2, Types DEF JointInv, Together, TogetherOf, S!Pcs
  <2>4. states[j] \in {"running", "success", "failed"}
    BY <2>2, <2>3 DEF JointInv, SP!IInv, SP!PcState, SP!Terminal
  <2>5. states[d] = "success"
    BY <2>1, <2>2, <2>4 DEF JointInv, SP!IInv, SP!StartedAfterDeps
  <2>6. pc[d] \in {"close", "wgDone", "exited"}
    BY <2>2, <2>5, Types DEF JointInv, SP!IInv, SP!PcState, S!Pcs
  <2>7. jpc[d] = "returned"
    BY <2>2, <2>5, <2>6 DEF JointInv, Together, TogetherOf
  <2> QED BY <2>2, <2>7, Emptied
<1> QED BY <1>1, JointInvariant, PTL

\* Skipped jobs never reach the daemon, and when Run returns nothing is left that
\* the daemon was able to remove (docker.go:346-351, 361, 394-404).
THEOREM RunCleansUp == ASSUME NamesNonEmpty PROVE Spec => []RunLeavesNothingBehind
<1>1. JointInv => RunLeavesNothingBehind
  <2> SUFFICES ASSUME JointInv PROVE RunLeavesNothingBehind
    OBVIOUS
  <2>1. S!JobNames \subseteq Name
    <3>1. S!JobNames = SP!JobNames
      BY DEF S!JobNames, SP!JobNames, S!ToSet, SP!ToSet
    <3> QED BY <3>1, ExecutorAssumption, SP!PipelineData DEF JointInv, SP!IInv, SP!TypeOK
  <2>2. ASSUME NEW j \in S!JobNames, states[j] \in {"pending", "skipped"}
        PROVE  live[j] = {} /\ trace[j] = <<>>
    <3>1. j \in Name
      BY <2>1
    <3>2. states[j] = "pending" => pc[j] \in {"idle", "recv", "read"}
      BY <3>1, Types DEF JointInv, SP!IInv, SP!PcState, SP!Terminal, S!Pcs
    <3> QED BY <2>2, <3>1, <3>2 DEF JointInv, Together, TogetherOf
  <2>3. ASSUME runPc = "returned", NEW j \in Name
        PROVE  /\ Leftovers(j) \subseteq {R!Net}
               /\ Leftovers(j) # {} => live[j] \cap excused[j] # {}
    <3>1. pc[j] \in {"idle", "exited"}
      BY <2>3 DEF JointInv, SP!IInv, SP!RunPhase
    <3>2. jpc[j] = "returned" \/ live[j] = {}
      BY <3>1 DEF JointInv, Together, TogetherOf
    <3> QED BY <3>2, Emptied DEF Leftovers
  <2> QED BY <2>2, <2>3 DEF RunLeavesNothingBehind
<1> QED BY <1>1, JointInvariant, PTL

\* Of all the jobs that Run lets run side by side one at a time is at the prompt
\* (docker.go:143-148, 534-536).
THEOREM OneJobPrompts == ASSUME NamesNonEmpty PROVE Spec => []OnePromptAtATime
<1>1. JointInv => OnePromptAtATime
  BY DEF JointInv, RP!IInv, RP!TypeOK, RP!LockIsHeld, OnePromptAtATime, R!OnePromptAtATime
<1> QED BY <1>1, JointInvariant, PTL

LEMMA TraceAgrees == ASSUME NamesNonEmpty PROVE Spec => []RP!TraceInv
<1>1. RP!FreeIsNobody /\ R!ConfigsAssumption
  BY ExecutorAssumption DEF NamesNonEmpty, RP!FreeIsNobody
<1>2. RP!Spec => []RP!TraceInv
  BY <1>1, RP!LocalsAgreeWithTrace, PTL
<1>3. Init => RP!Init
  BY JobRunIsTheSame DEF Init
<1>4. [Next]_vars => [RP!Next]_(RP!vars)
  BY NextRunsTheJobs, JobRunIsTheSame
<1> QED BY <1>2, <1>3, <1>4, PTL DEF Spec, RP!Spec

LEMMA ResultsAreTrue == ASSUME NamesNonEmpty PROVE Spec => []SP!ResultIsTrue
<1>1. SP!NamesNonEmpty /\ S!PipelinesAssumption
  BY ExecutorAssumption DEF NamesNonEmpty, SP!NamesNonEmpty
<1>2. SP!Spec => []SP!ResultIsTrue
  BY <1>1, SP!RunTellsTheTruth, PTL
<1>3. Init => SP!Init
  BY SchedulerIsTheSame DEF Init
<1>4. [Next]_vars => [SP!Next]_(SP!vars)
  BY NextRunsTheScheduler, SchedulerIsTheSame
<1> QED BY <1>2, <1>3, <1>4, PTL DEF Spec, SP!Spec

LEMMA JobErrorsAreRight == ASSUME NamesNonEmpty PROVE Spec => []RP!ErrorIsTheRightOne
<1>1. RP!FreeIsNobody /\ R!ConfigsAssumption
  BY ExecutorAssumption DEF NamesNonEmpty, RP!FreeIsNobody
<1>2. RP!Spec => []RP!ErrorIsTheRightOne
  BY <1>1, RP!JobsReportTheRightError, PTL
<1>3. Init => RP!Init
  BY JobRunIsTheSame DEF Init
<1>4. [Next]_vars => [RP!Next]_(RP!vars)
  BY NextRunsTheJobs, JobRunIsTheSame
<1> QED BY <1>2, <1>3, <1>4, PTL DEF Spec, RP!Spec

\* A job that Run's result speaks of: it was skipped and executed nothing, or it is
\* over and its state tells its error.
LEMMA SpokenOf ==
    ASSUME JointInv, Records, RP!TraceInv, result \in {"nil", "failed"}, NEW j \in S!JobNames
    PROVE  /\ j \in Name
           /\ states[j] = "failed" <=> retErr[j] # "nil"
           /\ \/ states[j] = "skipped" /\ trace[j] = <<>> /\ retErr[j] = "nil"
              \/ RP!Over(j) /\ states[j] \in {"failed", "success"}
<1>1. j \in SP!JobNames
  BY DEF S!JobNames, SP!JobNames, S!ToSet, SP!ToSet
<1>2. j \in Name
  BY <1>1, ExecutorAssumption, SP!PipelineData DEF JointInv, SP!IInv, SP!TypeOK
<1>3. states[j] \in {"success", "failed", "skipped"}
  BY <1>1, <1>2 DEF JointInv, SP!IInv, SP!ResultKnown, SP!Terminal
<1>4. CASE states[j] = "skipped"
  <2>1. jpc[j] = "idle" /\ trace[j] = <<>>
    BY <1>2, <1>4 DEF JointInv, Together, TogetherOf
  <2>2. retErr[j] = "nil"
    BY <1>2, <2>1 DEF RP!TraceInv, RP!AccountOf, RP!LocalsOf, RP!Over
  <2> QED BY <1>2, <1>4, <2>1, <2>2
<1>5. CASE states[j] # "skipped"
  <2>1. pc[j] \in {"close", "wgDone", "exited"}
    BY <1>2, <1>3, <1>5, Types DEF JointInv, SP!IInv, SP!PcState, S!Pcs
  <2>2. jpc[j] = "returned"
    BY <1>2, <1>5, <2>1 DEF JointInv, Together, TogetherOf
  <2> QED BY <1>2, <1>3, <1>5, <2>1, <2>2 DEF Records, RecordOf, RP!Over
<1> QED BY <1>4, <1>5

\* What Run returns is what happened: nil, when nobody debugs, means that every step
\* of every job was run exactly once, in order, and succeeded, and an error names
\* exactly the jobs that failed or, with a controller, were aborted
\* (docker.go:102-105, 354-358, 363-383, 540-552).
THEOREM VerdictIsTheTruth == ASSUME NamesNonEmpty PROVE Spec => []VerdictIsRight
<1>1. /\ JointInv /\ Records
      /\ RP!TraceInv /\ RP!ErrorIsTheRightOne /\ SP!ResultIsTrue
      => VerdictIsRight
  <2> SUFFICES ASSUME JointInv, Records, RP!TraceInv, RP!ErrorIsTheRightOne, SP!ResultIsTrue,
                      result \in {"nil", "failed"}
               PROVE  VerdictIsRight
    BY DEF VerdictIsRight
  <2>1. /\ result = "nil" => \A j \in S!JobNames : states[j] = "success"
        /\ failedNames = {j \in S!JobNames : states[j] = "failed"}
    <3>1. S!JobNames = SP!JobNames
      BY DEF S!JobNames, SP!JobNames, S!ToSet, SP!ToSet
    <3> QED BY <3>1 DEF SP!ResultIsTrue, Records
  <2>2. ASSUME NEW j \in S!JobNames
        PROVE  retErr[j] # "nil" <=>
                 (retErr[j] = "setup" \/ IF ctrl THEN R!AbortedJob(j) ELSE FailedSteps(j) # {})
    <3>1. /\ R!AbortedJob(j) <=> RP!AbortedJob(j)
          /\ FailedSteps(j) = {r \in RP!ToSet(trace[j]) : r.failed}
      BY DEF R!AbortedJob, RP!AbortedJob, FailedSteps, ToSet, R!ToSet, RP!ToSet
    <3>2. CASE trace[j] = <<>> /\ retErr[j] = "nil"
      <4>1. ~RP!AbortedJob(j) /\ FailedSteps(j) = {}
        BY <3>2 DEF RP!AbortedJob, RP!ToSet, FailedSteps, ToSet
      <4> QED BY <3>1, <3>2, <4>1
    <3>3. CASE RP!Over(j) /\ retErr[j] # "setup"
      <4>1. j \in Name
        BY SpokenOf
      <4>2. CASE ctrl
        BY <3>1, <3>3, <4>1, <4>2 DEF RP!ErrorIsTheRightOne
      <4>3. CASE ~ctrl
        <5>1. retErr[j] # "nil" <=> \E r \in RP!Ran(j, "main") \cup RP!Ran(j, "after") : r.failed
          BY <3>3, <4>1, <4>3 DEF RP!ErrorIsTheRightOne
        <5>2. \A r \in RP!ToSet(trace[j]) : r.phase \in {"main", "after"}
          <6>1. trace[j] \in Seq(R!StepRun)
            BY <4>1, Types
          <6>2. \A k \in DOMAIN trace[j] : trace[j][k] \in R!StepRun
            BY <6>1
          <6> QED BY <6>2 DEF RP!ToSet, R!StepRun, R!Phases
        <5> QED BY <3>1, <3>3, <4>3, <5>1, <5>2 DEF RP!Ran
      <4> QED BY <4>2, <4>3
    <3>4. CASE retErr[j] = "setup"
      BY <3>4
    <3> QED BY <3>2, <3>3, <3>4, SpokenOf
  <2>3. failedNames = {j \in S!JobNames :
            retErr[j] = "setup" \/ IF ctrl THEN R!AbortedJob(j) ELSE FailedSteps(j) # {}}
    <3>1. \A j \in S!JobNames : states[j] = "failed" <=> retErr[j] # "nil"
      BY SpokenOf
    <3> QED BY <2>1, <2>2, <3>1
  <2>4. ASSUME result = "nil", ~ctrl, NEW j \in S!JobNames
        PROVE  trace[j] = EveryStepOnce(j)
    <3>1. j \in Name /\ RP!Over(j) /\ retErr[j] = "nil"
      BY <2>1, <2>4, SpokenOf
    <3>2. RP!Complete(j)
      <4>1. RP!IInv
        BY DEF JointInv
      <4> QED BY <2>4, <3>1, <4>1, ExecutorAssumption, RP!NoErrorIsComplete
    <3>3. /\ trace[j] \in Seq(R!StepRun)
          /\ config[j].main \in Nat /\ config[j].after \in Nat
      <4>1. R!ConfigsAssumption /\ RP!TypeOK
        BY ExecutorAssumption DEF JointInv, RP!IInv
      <4> QED BY <3>1, <4>1, Types, RP!ConfigData DEF JointInv, RP!IInv
    <3>4. ASSUME NEW k \in 1..Len(trace[j])
          PROVE  trace[j][k] =
                   [phase |-> IF k <= config[j].main THEN "main" ELSE "after",
                    step |-> IF k <= config[j].main THEN k ELSE k - config[j].main,
                    failed |-> FALSE, decision |-> "none"]
      <4>1. trace[j][k] \in R!StepRun /\ trace[j][k] \in RP!ToSet(trace[j])
        BY <3>3 DEF RP!ToSet
      <4>2. /\ RP!InTurn(j, k, trace[j][k]) /\ trace[j][k].decision = "none"
            /\ ~trace[j][k].failed
        BY <3>2, <4>1 DEF RP!Complete, RP!NoFailure
      <4> QED BY <4>1, <4>2 DEF RP!InTurn, R!StepRun
    <3>5. Len(trace[j]) = config[j].main + config[j].after
      BY <3>2 DEF RP!Complete
    <3>6. trace[j] = [k \in 1..Len(trace[j]) |-> trace[j][k]]
      BY <3>3
    <3>7. EveryStepOnce(j) = [k \in 1..Len(trace[j]) |-> trace[j][k]]
      BY <3>4, <3>5 DEF EveryStepOnce
    <3> QED BY <3>6, <3>7
  <2> QED BY <2>3, <2>4 DEF VerdictIsRight
<1> QED BY <1>1, JointInvariant, RecordsInv, TraceAgrees, JobErrorsAreRight, ResultsAreTrue, PTL
=============================================================================
