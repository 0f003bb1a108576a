# A TLA+ verification of PolyCI

PolyCI reads a GitLab, CircleCI or GitHub Actions file, turns it into one
pipeline model and runs it on the local Docker daemon. This directory holds TLA+
modules translated from its Go source, TLC configurations that check them on
small instances, and proofs checked by TLAPS. `PROJECT.json` maps every
definition to the lines it models and lists runs, mutants, hazards and theorems.

    tlc -workers 2 -config MCScheduler.cfg MCScheduler.tla
    tlapm SchedulerProofs.tla

## 1. The system

| Component | State it keeps | Operations | Interacts with |
|---|---|---|---|
| `internal/executor` `Run` | `states`, `errs` under `mu`; one `done` channel per job; a WaitGroup | validate, one goroutine per job: wait, skip or run, record, close | `runJob`, Logger |
| `internal/executor` `runJob`, `runSteps` | the job's images, network, containers; its stack of cleanups; `ctrlMu`, shared | pull, create, start, exec steps in two phases, ask the controller, clean up | Docker daemon, StepController, Logger |
| `internal/executor` `Shell`, `tty_*.go` | terminal mode, the goroutine that forwards stdin, a flag that stops it | open, forward, restore | the terminal, Docker daemon |
| `internal/debugger` `Interactive` | a buffered reader on stdin, two options | `AfterStep`, the two prompts | `runSteps`, `Shell` |
| `internal/dag` | local: memo table, visiting marks, reasons | `Levels`, `FilterSkipped` | parsers, `polyci plan` |
| `internal/gitlab`, `internal/circleci`, `internal/githubactions` | local to `Parse` | jobs, dependencies, skipped jobs, findings | `dag`, pipeline model |
| `internal/pipeline` | types only | - | everyone |
| `cmd/polyci` `run`, `plan`, `check`, logger | the logger's mutex | parse, then run or print | parsers, executor |

What is hard here, and what would make it correct:

* **Run.** Goroutines wait on each other through channels closed in deferred
  calls and read a map under a mutex. A dependent must only read a final state;
  a failure must reach all descendants through skips, and nobody else; Run must
  not return before the last goroutine; a hung branch must not hold up another.
* **runJob.** Any daemon call may fail after others succeeded, or succeed with
  its answer lost; containers exit, and the stream of a step may end before its
  command. Everything created must be removed in an order the daemon accepts. Three errors (main phase, after_script, abort) compete for one result.
* **Controllers.** Retry, Continue and Abort over two phases; one terminal shared
  by concurrent jobs behind `ctrlMu`; a lock that must be released on every path.
* **Shell.** A goroutine that reads the same stdin as the next prompt must be
  gone before that prompt; the terminal must be restored on every path.
* **dag.** Memoised search with marks; passes to a fixed point. Both must agree
  with what they compute, on cyclic and duplicate input as well.
* **Parsers.** Jobs are skipped for their own sake or because of others; every
  job of the file must end up in exactly one of two lists, and the dependencies
  of what is kept must resolve. A setting given in several places must come from
  the right one. What the file puts before a job must still be there when the
  pipeline runs.

The hazards, each at its line, are in `PROJECT.json`.

## 2. Modules

    PipelineSpec <------------------------ LocalRun
        ^                                     |
        | implements                       Import
    Scheduler   JobRun                        |
            \     /              CircleCI, GitHub, GitLab
            Executor                          |
                         Dag <------------ Pipeline
                        ^    ^
                  DagFilter  DagLevels
                         \    /                        Terminal
                         Resolve

    SchedulerProofs, JobRunProofs, ExecutorProofs, TerminalProofs, DagLevelsProofs:
    proofs about the module of the name
    ResolveProofs: proofs about DagFilter, and from them and DagLevelsProofs about Resolve
    DagProofs: lemmas about Dag, sequences and recursive functions
    ImportProofs: proofs about the parsers, Import and LocalRun, from DagProofs

| Module | Models | State and actions |
|---|---|---|
| `PipelineSpec` | the doc comment of `Run` (docker.go:266-275), as an abstract specification | one `outcome` per job: `Start`, `Finish`, `Skip`; `Reject` and `Return` of Run |
| `Scheduler` | `Run`, docker.go:281-383 | the goroutine of Run (`runPc`) and one per job (`pc`); each channel operation, critical section of `mu` and Logger call is a step |
| `JobRun` | `runJob`, `runSteps`, `execStep`, docker.go:385-569, 672-711 | `jpc` is the place in the function; each daemon call, step, lock and decision is an action; `cleanups` is the stack of deferred removals; `live`, `running` and `astray` are the daemon's resources, running containers and commands no step waits for any more, `started` the containers that ever started |
| `Executor` | both, composed by INSTANCE | the joint steps are the call of `runJob`, its `JobDone` and its return |
| `Terminal` | `Interactive` and its prompts, `Docker.Shell` and its forwarder, the terminal's mode: interactive.go:43-114, docker.go:716-791, tty_*.go | `pc` is the place of the debugger's goroutine, `fwd` of the forwarder; `stdin` and `buf` hold what is typed and unread, each word with the mode it was typed in; `said` holds the lines that this call has read |
| `Dag` | the vocabulary of levels.go, and what its doc comments promise, without loops | operators only |
| `DagFilter` | `FilterSkipped`, levels.go:100-134 | `i`, `k` are the loop indices, `marked` and `chain` the map `reasons` |
| `DagLevels` | `Levels`, levels.go:25-85 | `stack` is the Go call stack of the closure `resolve`; one step per call or return; `maxLevel` is the local that bounds the loop over the levels |
| `Resolve` | CircleCI's use of the two, circleci/parser.go:106-124 | DagFilter's actions, then DagLevels' on what was kept |
| `Pipeline` | model.go, and what Run's validation, `plan` and `check` compute from a pipeline | operators only |
| `CircleCI`, `GitHub`, `GitLab` | the three `Parse` functions, with matrix.go and expression.go | operators on abstract files; `Parse` is a function from files to pipelines, as in the code |
| `Import` | the steps of `polyci run`, `plan` and `check` on one file, main.go:62-168 | one action per parser, then one per command |
| `LocalRun` | `polyci run` from the file to its exit code | Import's actions, then PipelineSpec's on the pipeline that was parsed |

`LocalRun` follows a run with `PipelineSpec` and not with `Scheduler`: the latter
is proved to implement the former, so what holds of every run of the one holds of
every run of the other, with far fewer states.

The parsers call `dag.FilterSkipped` and `dag.Levels`. Their modules use what
these compute, `DoomedIn`, `LevelsFail`, `LevelIn`, `MaxLevel` and `ByLevel` of
`Dag`; that the loops and the search compute just this is what `Resolve` checks on
small graphs and `DagLevelsProofs` and `ResolveProofs` prove for every graph. `Dag`
takes the nodes of a list at given places with `Those`, a recursive function, and the
parsers the elements that pass a test with `Select`, which is defined by it. `Filled`
adds to a mapping what it does not set from another. They stand for `SelectSeq` and
`@@`, which the prover cannot expand.

An abstract file keeps what the parsers decide on: names, references and their
order, repeated keys. A setting is a value that tells where in the file it was
given (`Text`), is blank, or is a key (`Key`), which stands for an expression
with the variable of that name. A variable is a key with such a value. A step is
one of the classes the parsers distinguish: it runs, does nothing, is unknown,
has a shell that is not supported or holds an expression. A GitLab file in which
a section has the wrong YAML kind is the flag `malformed`; for the other
providers, and for what is not YAML at all, such files are left out, since they
are rejected before anything else happens.

`MC*` modules only define small constants. Definitions preceded by "Mutant" are
variants of the definition after them that a plausible slip would give; no
specification uses them. PROJECT.json names for each property the mutant that
breaks it.

Abstractions of the executor. A job is a model value; commands, images, variables
and error texts are left out, since nothing there decides on them. A resource of
a job is a number: 0 its network, 1..MaxServices its services, MaxServices+1 its
own container. The daemon is external: a call is answered, refused, or carried
out with the answer lost (`Answers`), it refuses to remove a network in use
(`MustRefuse`), a container may exit at any moment (`ContainerExits`), and the
stream of a step may end with its command, before it, or with an error
(`StreamEnds`). `trace` and `log` are history variables: what ran, what was
logged; `started` and `said` likewise. `excused` holds the resources the daemon itself failed the job on.

## 3. Runs

| Run | Instance | Shows |
|---|---|---|
| `scheduler` | every acyclic graph of three jobs (both orders of two dependencies), the four-job diamond in reverse file order, duplicates, unknown and repeated dependencies, empty pipelines, skipped jobs | safety of `Run`; it implements `PipelineSpec`, its liveness included; a hung branch holds up no other |
| `scheduler_empty_name` | the same, one job has the empty name | violated: finding 2 |
| `job_run` | one job, 0-2 services, 0-2 main steps, 0-2 after steps, four of them at most, with and without a controller, 2 retries | cleanup, containers started before steps, phases, decisions, the error returned |
| `executor` | two jobs under a controller with one retry, in a chain or side by side; two in a chain, the first with a service, the second with after_script; two side by side, one with a service | what Run returns agrees with the steps and the decisions; the daemon is left clean; dependencies are gone before dependents start; one prompt at a time; Run returns |
| `abort_is_not_global` | two independent jobs under a controller | violated: finding 1 |
| `resolve` | about 6000 lists of three or four jobs with up to two dependencies, cycles, unknown names, duplicates, skipped jobs | FilterSkipped and Levels agree with `Dag`, end, and fit together |
| `terminal` | two calls of `AfterStep`, three words typed, of four kinds, every option, terminal or pipe, Unix or Windows | one reader of stdin at a time; a decision is what the answering line says; prompts end with the input; `Shell` returns on its own where stdin can be polled |
| `import` | 24,649 files of one to four jobs for the three providers; runs of up to four jobs are followed to the end | run never gets a cycle or an unknown name; every job is run or listed; a job's fault costs only what needs it; matrices are waited for whole; stages are barriers; settings come from the nearest place, whichever of two parents counts as nearer; the run follows the file |
| `extends_order` | GitLab files in which a job extends two others | violated: finding 3 |
| `import_empty_matrix` | the GitHub files of `import` | violated: finding 4 |
| `env_expression` | the same | violated: finding 5 |
| `plan_levels` | the CircleCI files of `import` | violated: finding 6 |

Why the bounds are enough. Run's goroutines only interact along dependencies:
three jobs give chains, forks and joins, the diamond a failure that reaches a
job on two paths. One job's runJob interacts with another's through `ctrlMu`
only, so `job_run` takes one job in many shapes and `executor` two in few. Two
services are the least with an order of removal among them and one left over
when the second fails; two steps per phase the least where one stops another;
services and steps only meet in that every step finds every service, which is why
the largest of both are not combined. One and two retries differ only in the
index of the step repeated. A second call of `AfterStep` is the least that meets
what the first one's shell left behind, and three words the least for a shell,
what is typed at it and an answer. Four nodes give chains against the file order
that need three passes of FilterSkipped and every kind of shared path in Levels.

A parser treats each job by itself but for references, which go over at most one
step in the code, or through `dag`: three jobs give a chain of references, two a
repeated key; two workflows are the least that share a job; two axes the least
with a product; four stages, one listed twice, leave room for an empty one. Three
variables and two parents let each place in a file override, be overridden and be
the only one to set a variable. `MaxFollowed` is the number of jobs up to which a
run is followed: four, which is two jobs of two combinations each; larger matrices
are parsed, but what their jobs wait for is already known
(`NeedsCoverEveryCombination`), so their runs show nothing new. The runs that end
in a violation follow three jobs, which is enough for them.

Fairness. `Scheduler!FairSpec`: weak fairness on Run's goroutine and on each
job's, which Go's scheduler gives; a goroutine blocked on a channel is not
enabled. None on `LogJobDone`: how long a job runs is up to its commands, which
have no timeout. `Executor!Fairness` likewise has none on the end of a stream, on
the user's answer or on what the daemon does by itself, and `RunReturns` says what
follows if streams end and answers come; the locks are taken by two jobs in the
instance, and a goroutine waiting for `ctrlMu` gets it since a job takes it a
bounded number of times. `Resolve` is one sequential program.
`Terminal!FairSpec`: weak fairness on the debugger and on the forwarder, both
goroutines; strong fairness on a poll that finds input, since signals do not
interrupt every one; a shell whose input was closed exits. Neither the user nor
an open shell has to do anything.

Deadlock is checked in every run. `LocalRun` has no liveness property of its own:
the parsers are functions that end, and that Run returns is `Scheduler`'s.

## 4. Proofs

`SchedulerProofs`, for any set `Name` and any `Pipelines` of the declared shape,
under `NamesNonEmpty == NoName \notin Name`, no job has the empty name. The
assumption is needed: without it finding 2 refutes the theorems. Graphs may be
cyclic: safety does not depend on acyclicity.

* `InductiveInvariant`: the strengthening `IInv`. `FailureStopsDescendants` is
  not inductive: between two receives a goroutine knows only part of its
  dependencies. `IInv` adds what each place in the goroutine knows: that the
  dependencies before `idx` are over, that `blockedOn` is the first of them that
  did not succeed and nobody's if all did, that `done` implies a terminal state,
  that the WaitGroup counts the goroutines not yet past `wg.Done` (so that 0
  means none), and what the log of each job holds.
* From it: `NoStaleRead`, `DependenciesFirst`, `NoDescendantRuns`,
  `SkipsAreJustified`, `RunTellsTheTruth`, `AllGoroutinesJoined`.
* `RunImplementsItsDoc`: `Spec => Abstract!Spec`, the map being `outcome <- states`.

`JobRunProofs`, for any jobs with any number of services and steps, under
`FreeIsNobody == NoName \notin Name`, which only says that a free lock has no
holder. That a returned job leaves nothing behind is far from inductive: it rests on
what every earlier place of `runJob` did. `IInv` has three parts.

* `PlaceOf`: what a place implies, e.g. that nothing is registered before the
  network is, that the services before `svc` exist and were started, that a job at
  the lock has run a step.
* `HoldingsOf`: every resource that exists is `Covered`, by a registered cleanup or
  by `excused`; the network is first on the stack of cleanups, so it is removed
  last; what runs exists; a stray command has its container. A network that the
  daemon would not remove is covered by the container that is still attached.
* `LockIsHeld`: the holder of `ctrlMu` is exactly the job at the prompt.

From it: `TypesAreRight`, `JobsCleanUp`, `StepsAreServed`, `TerminalIsExclusive`.

The rest of `JobRunProofs`, under the same assumption, is about what the jobs did. The
three properties of `trace` speak of the order of whole executions, while the code decides
each step from local variables. `TraceInv` ties the two: `LocalsOf` says what
`firstErr`, `mainErr` and the return value are in terms of the history, `LoopOf` that
the place of the loop (`phase`, `step`) is the one the last entry of `trace` leads to
(`LedTo`), `VerdictOf` what a job that is over ran and returns, and `InOrderOf` that
with neither a controller nor a failure the history is the steps in order up to that
place. From it: `EachStepFollows`, `AfterScriptRuns`, `JobsReportTheRightError`
(which needs that an abort returns at once) and `SuccessIsComplete`.

`ExecutorProofs`, for any pipelines and jobs, under the assumptions of both:
`ImplementsScheduler` and `ImplementsJobRun`, `Spec => S!Spec` and `Spec => R!Spec`.
So both invariants hold of the executor, and all that is proved from them. `SP` and
`RP` are the instances of the modules with the proofs; that their definitions are
those of `S` and `R` is a lemma that only expands them. `Together` ties a job's place
in `Run` to its place in `runJob`: it is idle before `JobStart` and if it is skipped,
cleaning up while `record`, and returned once its final state is set. With both
invariants it gives `DependentsStartAlone`, `RunCleansUp` and `OneJobPrompts`, which
neither component can state alone. `VerdictIsTheTruth` also takes
`SuccessIsComplete` and the error each job reports from `JobRunProofs`, and that
`Run` names the jobs whose `runJob` returned an error.

`TerminalProofs`, for any number of calls, words and options. `ShellIsWhere` says for
each place of `AfterStep` whether a session is open, the terminal raw and the
forwarder alive: outside `Shell` the forwarder is done or was never started, since
`Shell` waits for it. `CallIsJustified` says what the lines read in this call allow:
until the call ends none of them was an answer, and the one that ends it decides.
From them: `PromptsOwnTheTerminal`, `UsersDecide`, `RawOnlyInShell` and the action
property `OneForwarder`.

`DagLevelsProofs`, for any lists of nodes, with cycles, duplicates and unknown names.
Its hypothesis, `NodeLists \subseteq Seq(NodeSet)`, only says that the constant holds
what its name says. The invariant says of the call stack that it is a path of
dependencies whose names are marked and not yet memoised (`IsPath`), that each frame
has the maximum of the levels of the dependencies it has been through (`FrameOf`),
that a memoised level is one more than the greatest below it (`Memo`), that the outer
loop has memoised the nodes it passed (`Passed`), and that an error names a real
fault: a marked name met again closes a cycle along the stack (`Outcome`). Two
arguments are inductions over the natural numbers, which the library's theorems
cannot give here: `MinOfNat`, that every set of numbers has a least element, follows
from the well-foundedness of strict inclusion on finite sets, and `NatInd` is
induction over a set instead of an operator (both in `DagProofs`). `NoCycle` then takes the member of a
cycle with the least level, and `LongestChains` goes up the lengths of chains.
`OrderRight` rests on `ThoseFacts` and `ByLevelFacts`, what the two recursive
functions return for every list.

`ResolveProofs` begins with FilterSkipped, for any names, lists and skipped sets: `OnlyDoomedSkipped`,
`AllDoomedSkipped` and `ReasonsAreJustified`. The invariant says that what is
marked is doomed, that in a pass that has changed nothing the nodes before the
index have no marked dependency (so that a whole such pass makes `marked` closed,
and Doomed is the least closed set), and that every reason is a path of earlier
marks, which is why none repeats a name.

It then joins the two as circleci/parser.go:106-124 does. `LP`, its instance
of `DagLevelsProofs`, starts from an empty list, and the call of `Levels` replaces it
by what was kept, before the search begins; `RInv` says that this list is still what
`FilterSkipped` kept. It gives `LevelsFailsRightly`, `LevelsAreRight`,
`OrderIsRight`, and `LeavingOutBreaksNothing`, where a cycle among the kept nodes is
one of the file since their dependencies are unchanged (`KeptFacts`).

`ImportProofs`, for files of any size, of any of the three kinds, under
`FilesAssumption`. Besides the types of the constants this says that the default
stages are a list with `test` in it, as `defaultStages` (gitlab/parser.go:13-15) is,
that the job which CircleCI runs without workflows has a name, and that `"none"`, GitLab's mark of an empty list, is not one of the texts.
`InductiveInvariant` only says that `out` is what the parser of the file's provider
returns; the work is in lemmas about the three functions `Parse`.

* The operators. The prover has no induction over data, so a recursive function over
  an interval is compared with one that is built step by step: if both agree at the
  start and one step from equal values gives equal values, they are equal
  (`RecursionIsUnique`), and what each step preserves is true at the end
  (`RecursionKeeps`); both rest on `IntervalInd` of `DagProofs`. `ThoseFacts`,
  `ByLevelFacts` and `FlattenFacts` say what the functions on lists return,
  `CombinationFacts` that `Combinations` is the product of the axes, with no
  combination twice if no axis repeats a value, `LevelFacts` that on a list without
  cycles and unknown names there is a level for each name (take the greatest table
  that is right as far as it goes; a name it leaves out leads to a cycle).
* `PipelinesAreRunnable`. GitLab's jobs only wait for an earlier stage: the index of
  the stage falls along each dependency, so there is no circle (`StagedNoCycle`).
  GitHub's and CircleCI's are checked by `Levels`; CircleCI's are the jobs of several
  workflows, and `After` says what is true of the result after the first k of them.
* `NoJobIsDropped` and `FaultsStayLocal` follow a name through each list that it may
  leave: mappings and candidates in GitLab, the three phases in GitHub, `LeftOut` and
  what is kept in each workflow of CircleCI. That GitHub's `Levels` fails on
  combinations only if the file itself has a fault carries a cycle of combinations
  back to their base names (`GitHubLevels`).
* `CombinationsAreCovered` and `StagesHold`; the latter by induction over the stages,
  since a job only waits for the nearest stage that has jobs (`StagedBarrier`).
* `SettingsAreNearest`. `OfNearest` is the invariant of the loop of `resolveExtends`:
  after k parents each key has the value of the nearest of the entry and these
  parents, and each variable too, though `variables:` itself is merged (`MergeAdds`).
  The top level and `default:` are one more place each (`OnePlaceMore`). The property
  says nothing of a setting that depends on the order of the parents; what the code
  does with it, for every file, is `FirstParentWins`, the opposite of finding 3's
  claim.
* `RunIsFaithful`, from `RunInvariant`: the states of a run never contradict the
  dependencies of the pipeline, and `nil` means that all succeeded, since jobs that
  were all skipped for each other would form a cycle. What a job's file puts before
  it is then found among what the pipeline does: `requires:` in one of its workflows,
  all combinations of each of its `needs:`, the jobs of all earlier stages.

Two conditions in these properties are there because the proofs need them, and the code
does too. A CircleCI file whose two workflows order two jobs in opposite ways gives a
pipeline with a cycle; it also gives each job twice, which is why `run` and `plan` refuse
it (`AcceptedIsRunnable`). And a job that a GitHub file gives twice can vanish by finding
4 whichever of its entries has the empty axis, so `Declared` leaves out both.

Only model-checked: liveness and everything with fairness, which the prover cannot
handle (`HungBranchHoldsUpNoOther`, `ImplementsFairness`, `RunReturns`,
`ResolutionEnds`, `PromptsEndAtEof`, `ShellReturnsOnItsOwn`). Every invariant that a
passing run checks is also the subject of a theorem.

## 5. Findings

1. docker.go:109 says "Abort stops the whole pipeline immediately."; only the job
   that was asked stops (`abort_is_not_global`).
2. docker.go:336-346 uses "" for "no dependency failed"; a job named "" that
   fails does not stop its dependents (`scheduler_empty_name`). GitLab's parser
   lets the name through (gitlab/parser.go:144).
3. gitlab/parser.go:395-399 says of the fields of the referenced jobs, "if a list",
   that they are merged "matching GitLab's own extends merge semantics", where the
   last member of the list that gives a key wins; mergeExtends fills in what is
   missing, parent by parent, so the first one wins (parser.go:423-430, 464-486;
   `extends_order`).
4. model.go:20-27 says SkippedJobs lists every job that is not runnable; a GitHub
   job with an empty matrix axis is in no list, and jobs that need it run
   (`import_empty_matrix`).
5. README.md:301 says `${{ env.KEY }}` is "substituted from the workflow/job's own
   `env:`", and githubactions/parser.go:221-224 that this includes image and env
   values; these are substituted before the variables are known (parser.go:277-288),
   so the expression becomes the empty string and is reported as supported
   (expression.go:129) (`env_expression`).
6. `polyci plan` prints "Levels run one after another" (plan.go:69); Run starts a
   job when its own dependencies are over, whatever else of their level still runs
   (docker.go:338) (`plan_levels`).

Besides, without a run: model.go:22-23 says skipped jobs "are excluded from Jobs
entirely", but a CircleCI job that can run in one of two workflows and not in the
other is in both lists (circleci/parser.go:94-163). `EveryJobIsAccountedFor` keeps the
lists apart for files with one workflow only.

## 6. Not modelled, and the plan

Not modelled for good: flags and usage texts (`main`); the Docker client's setup,
but for its failure (`NoDaemon`); what only copies or formats bytes (lineWriter,
the logger's writers, the lists that `plan` and `check` print); the goroutine that
passes on the terminal's size, which reads no input and decides nothing;
`loadGitInfo`, which runs git; YAML decoding; `DefaultServiceAlias`, which edits
text; `env:` of single GitHub steps; `dependencyLevels` of circleci, which only a
test calls; a `term.Restore` that fails, whose error tty_unix.go:56 drops. A crash or
SIGINT leaves containers behind; the code keeps no record to recover from, so there is nothing to state about a restart. `execStep` reads
only the exit code of an inspect, which is 0 while a command still runs: a stream
that ends early makes such a step a success. `JobRun` has this behaviour
(`Inspect`), and nothing in the repository says what it should be instead.

Next, in this order:

1. Findings of the parsers: each is about a job of the pipeline or one that is skipped,
   and the confidence that `polyci check` prints falls if one of them gets worse.
2. `LocalRun` as an implementation of `PipelineSpec` from the call of `Run` on, so that
   theorems about the abstract specification carry over to files.
3. `Scheduler` and `Executor` under pipelines that the parsers return: the assumptions
   of `SchedulerProofs` and `ExecutorProofs` as theorems of `ImportProofs`.
