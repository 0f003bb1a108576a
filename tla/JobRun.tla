------------------------------- MODULE JobRun -------------------------------
(***************************************************************************)
(* Docker.runJob, runSteps and execStep (internal/executor/docker.go:      *)
(* 385-569, 672-711): what one job does with the Docker daemon between its *)
(* JobStart and the return of runJob, for several jobs at once, since they *)
(* share ctrlMu.                                                           *)
(*                                                                         *)
(* The daemon is external.  A call is answered, refused, or carried out    *)
(* with its answer lost; only the first returns no error.  A container may *)
(* exit, and a command may go on when execStep no longer looks at it.  The *)
(* resources of a job are numbers: Net its network, 1..MaxServices its     *)
(* service containers, Main its own container.                             *)
(***************************************************************************)
EXTENDS Naturals, Sequences, SequencesExt

CONSTANTS
    Name,          \* the job names
    NoName,        \* holder of a free ctrlMu
    Configs,       \* what jobs may consist of
    MaxServices,   \* bound on the services of a job
    MaxRetries,    \* bound on the Retry decisions in one job
    Controllers    \* whether New is given a StepController: TRUE, FALSE or either

\* services, main and after count the job's Services and its steps by phase.
ASSUME ConfigsAssumption ==
    /\ MaxServices \in Nat /\ MaxRetries \in Nat /\ Controllers \subseteq BOOLEAN
    /\ Configs \subseteq [services : 0..MaxServices, main : Nat, after : Nat]

VARIABLES
    ctrl,      \* whether d.ctrl is set
    config,    \* the job's services and steps
    jpc,       \* where its runJob is
    svc,       \* index in the loops over job.Services
    phase,     \* which call of runSteps: "main" or "after"
    step,      \* index in that call's loop over steps
    firstErr,  \* that call's local of the name
    mainErr,   \* what the first call returned
    retErr,    \* what runJob returns
    cleanups,  \* the resources the deferred functions remove
    ctrlMu,    \* the job that holds ctrlMu
    live,      \* the job's resources that exist in the daemon
    running,   \* its containers that run
    started,   \* its containers that were started, whether or not they still run
    astray,    \* whether a command of an earlier step still runs in its container
    excused,   \* the resources the daemon failed the job on: created or kept
               \* while the call returned an error
    trace      \* every execution of a step, with the decision that followed

jobLocals == <<ctrl, config, svc, phase, step, firstErr, mainErr, retErr, cleanups>>
daemon == <<live, running, started, astray, excused>>
vars == <<jobLocals, jpc, ctrlMu, daemon, trace>>

Net == 0
Main == MaxServices + 1
Resources == 0..Main
Pcs == {"idle", "image", "svcImage", "createNet", "createSvc", "startSvc", "create",
        "start", "steps", "exec", "attach", "stream", "inspect", "lock", "prompt",
        "logDone", "cleanup", "returned"}
Phases == {"main", "after"}
Errs == {"nil", "setup", "main", "after", "aborted"}
Decisions == {"Continue", "Abort", "Retry"}
Answers == {"ok", "refused", "lost"}
StepRun == [phase : Phases, step : Nat, failed : BOOLEAN, decision : Decisions \cup {"none"}]

TypeOK ==
    /\ ctrl \in Controllers
    /\ config \in [Name -> Configs]
    /\ jpc \in [Name -> Pcs]
    /\ svc \in [Name -> 1..(MaxServices + 1)]
    /\ phase \in [Name -> Phases]
    /\ step \in [Name -> Nat \ {0}]
    /\ firstErr \in [Name -> Errs]
    /\ mainErr \in [Name -> Errs]
    /\ retErr \in [Name -> Errs]
    /\ cleanups \in [Name -> Seq(Resources)]
    /\ ctrlMu \in Name \cup {NoName}
    /\ live \in [Name -> SUBSET Resources]
    /\ running \in [Name -> SUBSET Resources]
    /\ started \in [Name -> SUBSET Resources]
    /\ astray \in [Name -> BOOLEAN]
    /\ excused \in [Name -> SUBSET Resources]
    /\ trace \in [Name -> Seq(StepRun)]

Init ==
    /\ ctrl \in Controllers
    /\ config \in [Name -> Configs]
    /\ jpc = [j \in Name |-> "idle"]
    /\ svc = [j \in Name |-> 1]
    /\ phase = [j \in Name |-> "main"]
    /\ step = [j \in Name |-> 1]
    /\ firstErr = [j \in Name |-> "nil"]
    /\ mainErr = [j \in Name |-> "nil"]
    /\ retErr = [j \in Name |-> "nil"]
    /\ cleanups = [j \in Name |-> <<>>]
    /\ ctrlMu = NoName
    /\ live = [j \in Name |-> {}]
    /\ running = [j \in Name |-> {}]
    /\ started = [j \in Name |-> {}]
    /\ astray = [j \in Name |-> FALSE]
    /\ excused = [j \in Name |-> {}]
    /\ trace = [j \in Name |-> <<>>]

Set(f, j, v) == [f EXCEPT ![j] = v]
Goto(j, from, to) == jpc[j] = from /\ jpc' = Set(jpc, j, to)
Services(j) == 1..config[j].services
Retries(j) == Len(SelectSeq(trace[j], LAMBDA r : r.decision = "Retry"))

\* runJob is called and logs JobStart.
Begin(j) ==
    /\ Goto(j, "idle", "image")
    /\ UNCHANGED <<jobLocals, ctrlMu, daemon, trace>>

-----------------------------------------------------------------------------
(* Setup: every error ends the job, after the cleanups registered so far. *)

SetupFails(j, from) ==
    /\ Goto(j, from, "logDone")
    /\ retErr' = Set(retErr, j, "setup")

\* ensureImage: inspect, else pull.  It changes nothing a job would clean up.  A
\* pull that fails while it streams is no error: the stream is thrown away, and the
\* call that creates the container is refused.
EnsureImage(j) ==
    /\ \/ /\ Goto(j, "image", IF Services(j) = {} THEN "create" ELSE "svcImage")
          /\ UNCHANGED retErr
       \/ SetupFails(j, "image")
    /\ UNCHANGED <<ctrl, config, svc, phase, step, firstErr, mainErr, cleanups, ctrlMu, daemon, trace>>

\* Mutant: the second loop over the services goes on with the first one's index.
EnsureSvcImageNoReset(j) ==
    /\ \/ /\ svc[j] \in Services(j)
          /\ Goto(j, "svcImage", "svcImage")
          /\ svc' = Set(svc, j, svc[j] + 1)
          /\ UNCHANGED retErr
       \/ /\ svc[j] \notin Services(j)
          /\ Goto(j, "svcImage", "createNet")
          /\ UNCHANGED <<svc, retErr>>
    /\ UNCHANGED <<ctrl, config, phase, step, firstErr, mainErr, cleanups, ctrlMu, daemon, trace>>

\* All service images are asked for before anything is created.
EnsureSvcImage(j) ==
    /\ \/ /\ svc[j] \in Services(j)
          /\ Goto(j, "svcImage", "svcImage")
          /\ svc' = Set(svc, j, svc[j] + 1)
          /\ UNCHANGED retErr
       \/ /\ svc[j] \in Services(j)
          /\ SetupFails(j, "svcImage")
          /\ UNCHANGED svc
       \/ /\ svc[j] \notin Services(j)
          /\ Goto(j, "svcImage", "createNet")
          /\ svc' = Set(svc, j, 1)
          /\ UNCHANGED retErr
    /\ UNCHANGED <<ctrl, config, phase, step, firstErr, mainErr, cleanups, ctrlMu, daemon, trace>>

\* Mutant: the removal is not registered.
CreatesUnregistered(j, r, from, to, answer) ==
    /\ live' = IF answer = "refused" THEN live ELSE Set(live, j, live[j] \cup {r})
    /\ excused' = IF answer = "lost" THEN Set(excused, j, excused[j] \cup {r}) ELSE excused
    /\ IF answer = "ok" THEN Goto(j, from, to) /\ UNCHANGED retErr ELSE SetupFails(j, from)
    /\ UNCHANGED <<ctrl, config, svc, phase, step, firstErr, mainErr, cleanups, ctrlMu,
                   running, started, astray, trace>>

\* A call that creates r.  Only a caller that is told of it registers r's removal.
Creates(j, r, from, to, answer) ==
    /\ live' = IF answer = "refused" THEN live ELSE Set(live, j, live[j] \cup {r})
    /\ excused' = IF answer = "lost" THEN Set(excused, j, excused[j] \cup {r}) ELSE excused
    /\ IF answer = "ok"
       THEN /\ Goto(j, from, to)
            /\ cleanups' = Set(cleanups, j, Append(cleanups[j], r))
            /\ UNCHANGED retErr
       ELSE /\ SetupFails(j, from)
            /\ UNCHANGED cleanups
    /\ UNCHANGED <<ctrl, config, svc, phase, step, firstErr, mainErr, ctrlMu,
                   running, started, astray, trace>>

CreateNetwork(j, answer) == Creates(j, Net, "createNet", "createSvc", answer)
CreateService(j, answer) == Creates(j, svc[j], "createSvc", "startSvc", answer)
CreateContainer(j, answer) == Creates(j, Main, "create", "start", answer)

\* ContainerStart, whose container is registered for removal already.
Starts(j, r, from, to, answer) ==
    /\ IF answer = "refused"
       THEN UNCHANGED <<running, started>>
       ELSE /\ running' = Set(running, j, running[j] \cup {r})
            /\ started' = Set(started, j, started[j] \cup {r})
    /\ IF answer = "ok" THEN Goto(j, from, to) /\ UNCHANGED retErr
                        ELSE SetupFails(j, from)
    /\ UNCHANGED <<ctrl, config, phase, step, firstErr, mainErr, cleanups, ctrlMu, live,
                   astray, excused, trace>>

\* Mutant: services are created and never started.
StartServiceNot(j, answer) ==
    /\ Goto(j, "startSvc", IF svc[j] + 1 \in Services(j) THEN "createSvc" ELSE "create")
    /\ svc' = Set(svc, j, svc[j] + 1)
    /\ UNCHANGED <<ctrl, config, phase, step, firstErr, mainErr, retErr, cleanups, ctrlMu,
                   daemon, trace>>

StartService(j, answer) ==
    /\ Starts(j, svc[j], "startSvc",
              IF svc[j] + 1 \in Services(j) THEN "createSvc" ELSE "create", answer)
    /\ svc' = Set(svc, j, svc[j] + 1)

StartContainer(j, answer) ==
    /\ Starts(j, Main, "start", "steps", answer)
    /\ UNCHANGED svc

-----------------------------------------------------------------------------
(* runSteps: the main phase stops at its first failure, the after phase at *)
(* none, unless a controller decides. *)

StepCount(j) == IF phase[j] = "main" THEN config[j].main ELSE config[j].after

StartStep(j) ==
    /\ step[j] <= StepCount(j)
    /\ Goto(j, "steps", "exec")
    /\ UNCHANGED <<jobLocals, ctrlMu, daemon, trace>>

\* Mutants: a failure in the main phase does not stop it; one the controller
\* continued past is remembered.
FinishStepGoesOn(j, from, failed) ==
    /\ Goto(j, from, IF ctrl THEN "lock" ELSE "steps")
    /\ trace' = Set(trace, j, Append(trace[j],
           [phase |-> phase[j], step |-> step[j], failed |-> failed, decision |-> "none"]))
    /\ step' = IF ctrl THEN step ELSE Set(step, j, step[j] + 1)
    /\ firstErr' = IF failed /\ firstErr[j] = "nil" THEN Set(firstErr, j, phase[j]) ELSE firstErr

\* execStep returned: with an error or a nonzero exit code (failed), or neither.
\* Without a controller a failure is remembered if it is the first, and in the
\* main phase the rest of the steps is left out.
FinishStep(j, from, failed) ==
    /\ Goto(j, from, IF ctrl THEN "lock" ELSE "steps")
    /\ trace' = Set(trace, j, Append(trace[j],
           [phase |-> phase[j], step |-> step[j], failed |-> failed, decision |-> "none"]))
    /\ IF ctrl
       THEN UNCHANGED <<firstErr, step>>
       ELSE /\ firstErr' = IF failed /\ firstErr[j] = "nil"
                           THEN Set(firstErr, j, phase[j]) ELSE firstErr
            /\ step' = Set(step, j, IF failed /\ phase[j] = "main"
                                    THEN StepCount(j) + 1 ELSE step[j] + 1)

\* An early return of execStep, or its next call.
ExecGoesOn(j, from, to, goesOn) ==
    /\ IF goesOn THEN Goto(j, from, to) /\ UNCHANGED <<trace, firstErr, step>>
                 ELSE FinishStep(j, from, TRUE)
    /\ UNCHANGED <<ctrl, config, svc, phase, mainErr, retErr, cleanups, ctrlMu, live, running, started, excused>>

\* An exec that is created but not started runs nothing.  A shell that is not
\* supported ends the step before that, as a refusal does.
ExecCreate(j, answer) ==
    /\ ExecGoesOn(j, "exec", "attach", answer = "ok" /\ Main \in running[j])
    /\ UNCHANGED astray

\* Attaching starts the command.
ExecAttach(j, answer) ==
    /\ ExecGoesOn(j, "attach", "stream", answer = "ok" /\ Main \in running[j])
    /\ astray' = Set(astray, j, astray[j] \/ (answer = "lost" /\ Main \in running[j]))

\* The copy of the output ends: with the command, or before it, with an error or
\* with an early end that looks like the command's own.
StreamEnds(j, how) ==
    /\ ExecGoesOn(j, "stream", "inspect", how # "error")
    /\ astray' = Set(astray, j, astray[j] \/ (how # "command" /\ Main \in running[j]))

\* Only the exit code is looked at, which is 0 of a command that still runs.
Inspect(j, failed) ==
    /\ FinishStep(j, "inspect", failed)
    /\ UNCHANGED <<ctrl, config, svc, phase, mainErr, retErr, cleanups, ctrlMu, daemon>>

\* Mutant: ctrlMu is not locked.
LockCtrlNot(j) ==
    /\ Goto(j, "lock", "prompt")
    /\ ctrlMu' = j
    /\ UNCHANGED <<jobLocals, daemon, trace>>

LockCtrl(j) ==
    /\ ctrlMu = NoName
    /\ Goto(j, "lock", "prompt")
    /\ ctrlMu' = j
    /\ UNCHANGED <<jobLocals, daemon, trace>>

Decided(j, decision) ==
    /\ decision = "Retry" => Retries(j) < MaxRetries
    /\ Goto(j, "prompt", IF decision = "Abort" THEN "logDone" ELSE "steps")
    /\ trace' = Set(trace, j, Append(Front(trace[j]), [Last(trace[j]) EXCEPT !.decision = decision]))
    /\ UNCHANGED <<ctrl, config, svc, phase, firstErr, mainErr, cleanups, daemon>>

MovesOn(j, moves) == step' = IF moves THEN Set(step, j, step[j] + 1) ELSE step

AbortErr(j, decision, err) == retErr' = IF decision = "Abort" THEN Set(retErr, j, err) ELSE retErr

FailureOr(j, err) == IF Last(trace[j]).failed THEN phase[j] ELSE err

\* Mutants: Retry goes on to the next step; Abort forgets the failure of the step;
\* the early return of Abort leaves ctrlMu locked.
DecideRetryMovesOn(j, decision) ==
    /\ Decided(j, decision)
    /\ MovesOn(j, decision # "Abort")
    /\ AbortErr(j, decision, FailureOr(j, "aborted"))
    /\ ctrlMu' = NoName

DecideAbortHides(j, decision) ==
    /\ Decided(j, decision)
    /\ MovesOn(j, decision = "Continue")
    /\ AbortErr(j, decision, "aborted")
    /\ ctrlMu' = NoName

DecideAbortKeepsLock(j, decision) ==
    /\ Decided(j, decision)
    /\ MovesOn(j, decision = "Continue")
    /\ AbortErr(j, decision, FailureOr(j, "aborted"))
    /\ ctrlMu' = IF decision = "Abort" THEN ctrlMu ELSE NoName

\* AfterStep returned a decision and ctrlMu is released.  Continue moves on even
\* after a failure, which is then forgotten; Abort ends the job with the step's
\* failure or, if it has none, ErrAborted.
Decide(j, decision) ==
    /\ Decided(j, decision)
    /\ MovesOn(j, decision = "Continue")
    /\ AbortErr(j, decision, FailureOr(j, "aborted"))
    /\ ctrlMu' = NoName

\* Mutant: after_script is left out when the main phase failed.
EndMainFailed(j) ==
    /\ phase[j] = "main"
    /\ step[j] > StepCount(j)
    /\ Goto(j, "steps", IF firstErr[j] = "nil" THEN "steps" ELSE "logDone")
    /\ mainErr' = Set(mainErr, j, firstErr[j])
    /\ retErr' = Set(retErr, j, firstErr[j])
    /\ phase' = Set(phase, j, "after")
    /\ step' = Set(step, j, 1)
    /\ firstErr' = Set(firstErr, j, "nil")
    /\ UNCHANGED <<ctrl, config, svc, cleanups, ctrlMu, daemon, trace>>

\* The loop over the steps is over: after_script follows the main phase whatever
\* it returned, and the main phase's error goes first.
EndMain(j) ==
    /\ phase[j] = "main"
    /\ step[j] > StepCount(j)
    /\ Goto(j, "steps", "steps")
    /\ mainErr' = Set(mainErr, j, firstErr[j])
    /\ phase' = Set(phase, j, "after")
    /\ step' = Set(step, j, 1)
    /\ firstErr' = Set(firstErr, j, "nil")
    /\ UNCHANGED <<ctrl, config, svc, retErr, cleanups, ctrlMu, daemon, trace>>

EndAfter(j) ==
    /\ phase[j] = "after"
    /\ step[j] > StepCount(j)
    /\ Goto(j, "steps", "logDone")
    /\ retErr' = Set(retErr, j, IF mainErr[j] # "nil" THEN mainErr[j] ELSE firstErr[j])
    /\ UNCHANGED <<ctrl, config, svc, phase, step, firstErr, mainErr, cleanups, ctrlMu, daemon, trace>>

-----------------------------------------------------------------------------
(* The end: JobDone is logged, then the deferred cleanups run, last one first. *)

LogDone(j) ==
    /\ Goto(j, "logDone", "cleanup")
    /\ UNCHANGED <<jobLocals, ctrlMu, daemon, trace>>

\* The daemon keeps a network that running containers are attached to.
MustRefuse(j, r) == r = Net /\ running[j] # {}

RunCleanup(j, r, rest, answer) ==
    /\ jpc[j] = "cleanup"
    /\ cleanups' = Set(cleanups, j, rest)
    /\ \/ /\ answer # "refused"
          /\ ~MustRefuse(j, r)
          /\ live' = Set(live, j, live[j] \ {r})
          /\ running' = Set(running, j, running[j] \ {r})
          /\ astray' = Set(astray, j, astray[j] /\ r # Main)
          /\ UNCHANGED excused
       \/ /\ answer = "refused"
          /\ excused' = IF MustRefuse(j, r) THEN excused
                        ELSE Set(excused, j, excused[j] \cup {r})
          /\ UNCHANGED <<live, running, astray>>
    /\ UNCHANGED <<ctrl, config, jpc, svc, phase, step, firstErr, mainErr, retErr, ctrlMu, started, trace>>

\* Mutant: the cleanups run in the order they were registered.
CleanupInOrder(j, answer) ==
    cleanups[j] # <<>> /\ RunCleanup(j, Head(cleanups[j]), Tail(cleanups[j]), answer)

\* removeContainer (forced) and removeNetwork ignore the daemon's errors.
Cleanup(j, answer) ==
    cleanups[j] # <<>> /\ RunCleanup(j, Last(cleanups[j]), Front(cleanups[j]), answer)

\* Mutant: runJob returns with cleanups still to run.
ReturnEarly(j) ==
    /\ Goto(j, "cleanup", "returned")
    /\ UNCHANGED <<jobLocals, ctrlMu, daemon, trace>>

Return(j) ==
    /\ cleanups[j] = <<>>
    /\ Goto(j, "cleanup", "returned")
    /\ UNCHANGED <<jobLocals, ctrlMu, daemon, trace>>

Terminated == (\A j \in Name : jpc[j] = "returned") /\ UNCHANGED vars

-----------------------------------------------------------------------------
(* What happens in the daemon by itself: external. *)

\* A container's own process exits, and with it all that runs there.
ContainerExits(j, r) ==
    /\ r \in running[j]
    /\ running' = Set(running, j, running[j] \ {r})
    /\ astray' = Set(astray, j, astray[j] /\ r # Main)
    /\ UNCHANGED <<jobLocals, jpc, ctrlMu, live, started, excused, trace>>

StrayEnds(j) ==
    /\ astray[j]
    /\ astray' = Set(astray, j, FALSE)
    /\ UNCHANGED <<jobLocals, jpc, ctrlMu, live, running, started, excused, trace>>

Daemon(j) == StrayEnds(j) \/ \E r \in Resources : ContainerExits(j, r)

-----------------------------------------------------------------------------
\* Steps of runJob between Begin and LogDone that only need the daemon to answer.
DockerCall(j) ==
    \/ EnsureImage(j) \/ EnsureSvcImage(j)
    \/ \E answer \in Answers :
        \/ CreateNetwork(j, answer) \/ CreateService(j, answer) \/ StartService(j, answer)
        \/ CreateContainer(j, answer) \/ StartContainer(j, answer) \/ Cleanup(j, answer)
        \/ ExecCreate(j, answer) \/ ExecAttach(j, answer)
    \/ \E failed \in BOOLEAN : Inspect(j, failed)

Inner(j) ==
    \/ DockerCall(j)
    \/ StartStep(j) \/ LockCtrl(j) \/ EndMain(j) \/ EndAfter(j)

StepEnds(j) == \E how \in {"command", "error", "early"} : StreamEnds(j, how)
Answered(j) == \E decision \in Decisions : Decide(j, decision)

Next ==
    \/ \E j \in Name : Begin(j) \/ Inner(j) \/ StepEnds(j) \/ Answered(j)
                       \/ LogDone(j) \/ Return(j) \/ Daemon(j)
    \/ Terminated

Spec == Init /\ [][Next]_vars

-----------------------------------------------------------------------------
(* Safety *)

\* A runJob that returned left nothing behind that the daemon had told it of: what
\* is left was created by a call whose answer was lost or kept by a refused
\* removal, a network is left only with such a container, and a command, however
\* its step ended, goes on only in such a container.  It holds because cleanups go
\* in reverse order (docker.go:394-404) and because each resource is registered
\* before it is started (docker.go:423, 437, 458).
NothingLeftBehind ==
    \A j \in Name : jpc[j] = "returned" =>
        /\ live[j] \ excused[j] \subseteq {Net}
        /\ Net \in live[j] \ excused[j] => live[j] \cap excused[j] # {}
        /\ astray[j] => Main \in excused[j]

\* While a step may run, the job's container, its services and their network are
\* all there and each container was started, whichever call failed or lost its answer
\* on the way; a container may have exited since.  The job's own container is only
\* started after all of its services were (docker.go:406-464).
StepsHaveTheirContainers ==
    \A j \in Name :
        /\ jpc[j] \in {"steps", "exec", "attach", "stream", "inspect", "lock", "prompt"} =>
            /\ Services(j) \cup {Main} \subseteq live[j] \cap started[j]
            /\ Services(j) # {} => Net \in live[j]
        /\ Main \in started[j] => Services(j) \subseteq started[j]

Over(j) == jpc[j] \in {"logDone", "cleanup", "returned"}
Ran(j, p) == {r \in ToSet(trace[j]) : r.phase = p}
AbortedJob(j) == \E r \in ToSet(trace[j]) : r.decision = "Abort"

\* after_script runs in full, failures included, whenever the job's container was
\* started and no one aborted the job (docker.go:484-487).
AfterScriptAlwaysRuns ==
    \A j \in Name : Over(j) /\ retErr[j] # "setup" /\ ~AbortedJob(j) =>
        {r.step : r \in Ran(j, "after")} = 1..config[j].after

\* Each step execution follows from the one before: the same step again after
\* Retry, the next after Continue, nothing after Abort; with no controller the
\* next, but for a main step that failed the first of after_script
\* (docker.go:537-564).
StepsFollowDecisions ==
    \A j \in Name : \A k \in 1..(Len(trace[j]) - 1) :
        LET r == trace[j][k]
            s == trace[j][k + 1]
            Follows == \/ s.phase = r.phase /\ s.step = r.step + 1
                       \/ /\ r.phase = "main" /\ s.phase = "after" /\ s.step = 1
                          /\ r.step = config[j].main
        IN  CASE r.decision = "Retry" -> s.phase = r.phase /\ s.step = r.step
              [] r.decision = "Continue" -> Follows
              [] r.decision = "none" ->
                    IF r.failed /\ r.phase = "main" THEN s.phase = "after" /\ s.step = 1
                                                    ELSE Follows
              [] OTHER -> FALSE

\* The error a job reports: setup's; else without a controller the main phase's
\* before after_script's; with one only an abort makes a job fail, as ErrAborted
\* exactly if the step itself succeeded (docker.go:118-121, 494-502, 540-545).
ErrorIsTheRightOne ==
    \A j \in Name : Over(j) /\ retErr[j] # "setup" =>
        IF ctrl
        THEN /\ retErr[j] # "nil" <=> AbortedJob(j)
             /\ AbortedJob(j) =>
                    retErr[j] = IF Last(trace[j]).failed THEN Last(trace[j]).phase
                                                         ELSE "aborted"
        ELSE retErr[j] = IF \E r \in Ran(j, "main") : r.failed THEN "main"
                         ELSE IF \E r \in Ran(j, "after") : r.failed THEN "after"
                         ELSE "nil"

\* Two jobs never use the terminal at once, and no job that ends, by any path,
\* keeps it (docker.go:143-148, 534-536).
OnePromptAtATime ==
    /\ \A i, j \in Name : jpc[i] = "prompt" /\ jpc[j] = "prompt" => i = j
    /\ ctrlMu # NoName => jpc[ctrlMu] = "prompt"
=============================================================================
