-------------------------- MODULE SchedulerProofs --------------------------
(***************************************************************************)
(* Proofs about Scheduler for every set of names and every pipeline,       *)
(* cyclic ones included: the inductive invariant and what follows from it. *)
(***************************************************************************)
EXTENDS Scheduler, TLAPS, FiniteSetTheorems, SequenceTheorems

\* The parsers key jobs by name; the code uses "" for "not blocked" (docker.go:336),
\* so what is proved holds of pipelines without a job named "".
NamesNonEmpty == NoName \notin Name

\* Where Run's goroutine is says what the others may have done.
RunPhase ==
    /\ runPc \in {"report", "validate"} =>
        /\ result = "none"
        /\ failedNames = {}
        /\ pc = [j \in Name |-> "idle"]
        /\ states = [j \in Name |-> "pending"]
    /\ runPc = "wait" =>
        /\ result = "none"
        /\ Abstract!Runnable
        /\ \A j \in JobNames : pc[j] # "idle"
    /\ runPc = "returned" =>
        /\ result # "none"
        /\ \A j \in Name : pc[j] \in {"idle", "exited"}
    /\ \A j \in Name : pc[j] # "idle" => j \in JobNames

\* A goroutine's place in its body fixes its job's state and channel.
PcState ==
    \A j \in Name :
        /\ pc[j] \in {"idle", "recv", "read"} => states[j] = "pending"
        /\ pc[j] = "logSkip" => states[j] = "skipped"
        /\ pc[j] \in {"runJob", "inJob", "record"} => states[j] = "running"
        /\ pc[j] \in {"close", "wgDone", "exited"} => states[j] \in Terminal
        /\ j \in done <=> pc[j] \in {"wgDone", "exited"}
        /\ states[j] = "failed" => j \in errs

\* The dependency loop has read a final state for each index it has passed.
LoopReadOf(j) ==
    /\ pc[j] = "read" => idx[j] \in DOMAIN DepSeq(j)
    /\ \A i \in DOMAIN DepSeq(j) :
        i < idx[j] \/ (i = idx[j] /\ pc[j] = "read") => DepSeq(j)[i] \in done
    /\ \A i \in DOMAIN DepSeq(j) :
        i < idx[j] /\ blockedOn[j] = NoName => states[DepSeq(j)[i]] = "success"
    /\ blockedOn[j] # NoName => /\ blockedOn[j] \in Deps(j)
                                /\ states[blockedOn[j]] \in Bad

LoopRead == \A j \in Name : LoopReadOf(j)

\* A job that started had nothing but successful dependencies, each of which
\* has logged it.
StartedAfterDeps ==
    \A j \in Name :
        /\ states[j] \in {"running", "success", "failed"} =>
            \A x \in Deps(j) : states[x] = "success"
        /\ states[j] = "success" \/ (pc[j] = "record" /\ ~jobErr[j]) =>
            Contains(log[j], "JobDone")

SkippedJustified ==
    \A j \in Name : states[j] = "skipped" =>
        \E a \in Abstract!Ancestors(j) : states[a] = "failed"

\* The WaitGroup counts the goroutines that have not counted down.
WaitGroupCounts ==
    runPc = "wait" => wg = Cardinality({j \in JobNames : pc[j] # "exited"})

ResultKnown ==
    /\ result \in {"nil", "failed"} => \A j \in JobNames : states[j] \in Terminal
    /\ result = "nil" => \A j \in JobNames : states[j] # "failed"
    /\ result = "failed" => /\ failedNames # {}
                            /\ failedNames = {j \in JobNames : states[j] = "failed"}

\* The inductive invariant.
IInv ==
    /\ TypeOK
    /\ RunPhase
    /\ PcState
    /\ LoopRead
    /\ StartedAfterDeps
    /\ SkippedJustified
    /\ WaitGroupCounts
    /\ ResultKnown

\* What the Logger was told of a job that the parser did not skip, by the place of
\* its goroutine.
LogOf(j) ==
    /\ pc[j] \in {"idle", "recv", "read", "logSkip", "runJob"} => log[j] = <<>>
    /\ pc[j] = "inJob" => log[j] = <<"JobStart">>
    /\ pc[j] = "record" =>
        log[j] = IF jobErr[j] THEN <<"JobStart", "JobDoneErr">> ELSE <<"JobStart", "JobDone">>
    /\ pc[j] \in {"close", "wgDone", "exited"} =>
        log[j] = CASE states[j] = "success" -> <<"JobStart", "JobDone">>
                   [] states[j] = "failed" -> <<"JobStart", "JobDoneErr">>
                   [] OTHER -> <<"JobSkipped">>

LogIsOrdered == \A j \in Name \ pipeline.skippedJobs : LogOf(j)

-----------------------------------------------------------------------------
(* Facts about pipelines. *)

\* What the assumption on Pipelines says of the pipeline of a run.
LEMMA PipelineData ==
    ASSUME pipeline \in Pipelines
    PROVE  /\ pipeline.jobs \in Seq(Name)
           /\ JobNames \subseteq Name
           /\ IsFiniteSet(JobNames)
           /\ \A j \in Name : /\ DepSeq(j) \in Seq(Name)
                              /\ Deps(j) = {DepSeq(j)[i] : i \in DOMAIN DepSeq(j)}
                              /\ Deps(j) \subseteq Name
<1>1. pipeline \in [jobs : Seq(Name), dependsOn : [Name -> Seq(Name)],
                    skippedJobs : SUBSET Name]
  BY PipelinesAssumption
<1>2. pipeline.jobs \in Seq(Name) /\ \A j \in Name : DepSeq(j) \in Seq(Name)
  BY <1>1 DEF DepSeq
<1>3. JobNames \subseteq Name
  BY <1>2 DEF JobNames, ToSet
<1>4. IsFiniteSet(JobNames)
  <2>1. DOMAIN pipeline.jobs = 1..Len(pipeline.jobs) /\ Len(pipeline.jobs) \in Nat
    BY <1>2
  <2>2. IsFiniteSet(1..Len(pipeline.jobs))
    BY <2>1, FS_Interval
  <2>3. [i \in 1..Len(pipeline.jobs) |-> pipeline.jobs[i]]
            \in Surjection(1..Len(pipeline.jobs), JobNames)
    BY <2>1 DEF Surjection, JobNames, ToSet
  <2> QED BY <2>2, <2>3, FS_Surjection
<1>5. \A j \in Name : /\ Deps(j) = {DepSeq(j)[i] : i \in DOMAIN DepSeq(j)}
                      /\ Deps(j) \subseteq Name
  BY <1>2 DEF Deps, DepSeq, ToSet
<1> QED BY <1>2, <1>3, <1>4, <1>5

\* wg.Add(len(p.Jobs)) is the number of names when no name is used twice.
LEMMA JobCount ==
    ASSUME pipeline \in Pipelines, ~Abstract!HasDuplicate
    PROVE  Cardinality(JobNames) = Len(pipeline.jobs)
<1> DEFINE n == Len(pipeline.jobs)
           f == [i \in 1..n |-> pipeline.jobs[i]]
<1>1. n \in Nat /\ DOMAIN pipeline.jobs = 1..n
  BY PipelineData
<1>2. f \in Surjection(1..n, JobNames)
  BY <1>1 DEF Surjection, JobNames, ToSet
<1>3. f \in Injection(1..n, JobNames)
  <2>1. f \in [1..n -> JobNames]
    BY <1>2 DEF Surjection
  <2>2. \A x, y \in 1..n : f[x] = f[y] => x = y
    BY <1>1 DEF Abstract!HasDuplicate
  <2> QED BY <2>1, <2>2 DEF Injection, IsInjective
<1>4. f \in Bijection(1..n, JobNames)
  BY <1>2, <1>3 DEF Bijection
<1> QED BY <1>1, <1>4, FS_CountingElements DEF ExistsBijection

\* The two modules speak of the same jobs and dependencies.
LEMMA SameJobs ==
    /\ Abstract!JobNames = JobNames
    /\ \A j : Abstract!Deps(j) = Deps(j)
BY DEF Abstract!JobNames, JobNames, Abstract!Deps, Deps, Abstract!ToSet, ToSet

\* Depending on a job is depending on all it depends on.
LEMMA AncestorsOfDep ==
    ASSUME pipeline \in Pipelines, NEW j \in Name, NEW x \in Deps(j)
    PROVE  /\ x \in Abstract!Ancestors(j)
           /\ Abstract!Ancestors(x) \subseteq Abstract!Ancestors(j)
<1>1. x \in Name /\ Deps(j) = Abstract!Deps(j)
  BY PipelineData, SameJobs
<1> QED BY <1>1 DEF Abstract!Ancestors

\* A set that holds j's dependencies and those of its members holds all of j's
\* ancestors.
LEMMA AncestorsLeast ==
    ASSUME NEW j \in Name, NEW S \in SUBSET Name,
           Deps(j) \subseteq S, \A x \in S : Deps(x) \subseteq S
    PROVE  Abstract!Ancestors(j) \subseteq S
BY SameJobs DEF Abstract!Ancestors

-----------------------------------------------------------------------------
(* The invariant holds initially and every step keeps it. *)

LEMMA InitIInv == Init => IInv
<1> SUFFICES ASSUME Init PROVE IInv
  OBVIOUS
<1> USE DEF Init
<1>1. TypeOK
  BY DEF TypeOK, RunPcs, Pcs, Events, Abstract!Results, Abstract!Outcomes
<1>2. RunPhase /\ PcState /\ WaitGroupCounts /\ ResultKnown
  BY DEF RunPhase, PcState, WaitGroupCounts, ResultKnown
<1>3. LoopRead
  BY PipelineData DEF LoopRead, LoopReadOf
<1>4. StartedAfterDeps /\ SkippedJustified
  BY DEF StartedAfterDeps, SkippedJustified
<1> QED BY <1>1, <1>2, <1>3, <1>4 DEF IInv

\* A step never changes the pipeline, and with it none of what is read from it.
LEMMA SamePipeline ==
    ASSUME pipeline' = pipeline
    PROVE  /\ JobNames' = JobNames
           /\ \A j : /\ DepSeq(j)' = DepSeq(j)
                    /\ Deps(j)' = Deps(j)
                    /\ Abstract!Ancestors(j)' = Abstract!Ancestors(j)
           /\ Abstract!HasDuplicate' = Abstract!HasDuplicate
           /\ Abstract!HasUnknownDep' = Abstract!HasUnknownDep
BY DEF JobNames, DepSeq, Deps, Abstract!Ancestors, Abstract!HasDuplicate,
       Abstract!HasUnknownDep, Abstract!Deps, Abstract!JobNames

\* A step that neither skips a job nor forgets a failure.
LEMMA NothingNewSkipped ==
    ASSUME SkippedJustified, pipeline' = pipeline,
           \A x \in Name : states[x] = "failed" => states'[x] = "failed",
           \A x \in Name : states'[x] = "skipped" => states[x] = "skipped"
    PROVE  SkippedJustified'
<1> SUFFICES ASSUME NEW j \in Name, states'[j] = "skipped"
             PROVE  \E a \in Abstract!Ancestors(j) : states'[a] = "failed"
  BY SamePipeline DEF SkippedJustified
<1>1. PICK a \in Abstract!Ancestors(j) : states[a] = "failed"
  BY DEF SkippedJustified
<1>2. a \in Name
  BY <1>1 DEF Abstract!Ancestors
<1> QED BY <1>1, <1>2

\* A job's goroutine moves only while Run waits.
LEMMA JobStepsWhileRunWaits ==
    ASSUME IInv, NEW j \in Name, pc[j] \notin {"idle", "exited"}
    PROVE  /\ runPc = "wait"
           /\ j \in JobNames
           /\ result = "none"
           /\ Deps(j) \subseteq JobNames
           /\ \A x \in Deps(j) : pc[x] # "idle"
<1>1. runPc = "wait" /\ j \in JobNames /\ result = "none" /\ Abstract!Runnable
  BY DEF IInv, TypeOK, RunPhase, RunPcs
<1>2. Deps(j) \subseteq JobNames
  BY <1>1, SameJobs DEF Abstract!Runnable, Abstract!HasUnknownDep
<1> QED BY <1>1, <1>2 DEF IInv, RunPhase

\* What a step of one goroutine keeps of the parts that do not depend on what it
\* does to the maps.
LEMMA JobStepKeeps ==
    ASSUME IInv, NEW j \in Name, pc[j] \notin {"idle", "exited"},
           NEW p \in Pcs \ {"idle", "exited"}, pc' = [pc EXCEPT ![j] = p],
           UNCHANGED runVars, UNCHANGED wg
    PROVE  RunPhase' /\ WaitGroupCounts' /\ ResultKnown'
<1>1. runPc = "wait" /\ j \in JobNames /\ result = "none"
  BY JobStepsWhileRunWaits
<1>2. pipeline' = pipeline /\ runPc' = runPc /\ result' = result
  BY DEF runVars
<1>3. RunPhase'
  BY <1>1, <1>2, SamePipeline DEF IInv, TypeOK, RunPhase, Abstract!Runnable, Pcs
<1>4. \A x \in JobNames : pc'[x] # "exited" <=> pc[x] # "exited"
  BY PipelineData DEF IInv, TypeOK, Pcs
<1>5. WaitGroupCounts'
  <2>1. {x \in JobNames' : pc'[x] # "exited"} = {x \in JobNames : pc[x] # "exited"}
    BY <1>2, <1>4, SamePipeline
  <2> QED BY <1>1, <2>1 DEF IInv, WaitGroupCounts
<1>6. ResultKnown'
  BY <1>1, <1>2 DEF ResultKnown
<1> QED BY <1>3, <1>5, <1>6

\* A step that moves no loop, changes no state a goroutine may have read, and
\* reopens no channel.
LEMMA NoLoopMoves ==
    ASSUME IInv, pipeline' = pipeline, idx' = idx, blockedOn' = blockedOn,
           done \subseteq done',
           \A x \in Name : states[x] \in Terminal => states'[x] = states[x],
           \A x \in Name : pc'[x] = "read" => pc[x] = "read"
    PROVE  LoopRead'
<1> SUFFICES ASSUME NEW j \in Name
             PROVE  LoopReadOf(j)'
  BY DEF LoopRead, LoopReadOf
<1>1. /\ pipeline \in Pipelines /\ DepSeq(j)' = DepSeq(j) /\ Deps(j)' = Deps(j)
      /\ \A i \in DOMAIN DepSeq(j) : DepSeq(j)[i] \in Name
      /\ blockedOn[j] # NoName => blockedOn[j] \in Name
  BY SamePipeline, PipelineData DEF IInv, TypeOK
<1>2. LoopReadOf(j)
  BY DEF IInv, LoopRead
<1> QED BY <1>1, <1>2 DEF LoopReadOf, Terminal, Bad

LEMMA NothingNewStarted ==
    ASSUME IInv, pipeline' = pipeline,
           \A x \in Name : states[x] = "success" => states'[x] = "success",
           \A x \in Name : states'[x] \in {"running", "success", "failed"} =>
                           states[x] \in {"running", "success", "failed"},
           \A x \in Name : states'[x] = "success" \/ (pc'[x] = "record" /\ ~jobErr'[x]) =>
                           \/ Contains(log[x], "JobDone")
                           \/ Contains(log'[x], "JobDone"),
           \A x \in Name : Contains(log[x], "JobDone") => Contains(log'[x], "JobDone")
    PROVE  StartedAfterDeps'
<1> SUFFICES ASSUME NEW j \in Name
             PROVE  /\ states'[j] \in {"running", "success", "failed"} =>
                        \A x \in Deps(j) : states'[x] = "success"
                    /\ states'[j] = "success" \/ (pc'[j] = "record" /\ ~jobErr'[j]) =>
                        Contains(log'[j], "JobDone")
  BY SamePipeline DEF StartedAfterDeps, Contains
<1> QED BY PipelineData DEF IInv, TypeOK, StartedAfterDeps

LEMMA AppendKeeps ==
    ASSUME NEW s \in Seq(Events), NEW e \in Events, NEW f
    PROVE  /\ Contains(s, f) => Contains(Append(s, e), f)
           /\ Contains(Append(s, e), e)
<1>1. Append(s, e)[Len(s) + 1] = e /\ \A i \in 1..Len(s) : Append(s, e)[i] = s[i]
  OBVIOUS
<1>2. Len(Append(s, e)) = Len(s) + 1 /\ Len(s) \in Nat
  OBVIOUS
<1> QED BY <1>1, <1>2 DEF Contains

LEMMA ReceiveDoneStep ==
    ASSUME NamesNonEmpty, IInv, NEW j \in Name, ReceiveDone(j)
    PROVE  IInv'
<1> USE DEF ReceiveDone, Receives, DepDone, Goto, locals, shared, runVars
<1>0. pipeline' = pipeline /\ pipeline \in Pipelines
  BY DEF IInv, TypeOK
<1>1. TypeOK'
  BY <1>0 DEF IInv, TypeOK, RunPcs, Pcs, Events, Abstract!Results, Abstract!Outcomes, Logged
<1>2. RunPhase' /\ WaitGroupCounts' /\ ResultKnown'
  BY JobStepKeeps DEF Pcs
<1>3. PcState'
  BY DEF IInv, TypeOK, PcState, Terminal, Pcs
<1>4. LoopRead'
  <2> SUFFICES ASSUME NEW x \in Name
               PROVE  LoopReadOf(x)'
    BY DEF LoopRead, LoopReadOf
  <2>1. DepSeq(x)' = DepSeq(x) /\ Deps(x)' = Deps(x)
    BY <1>0, SamePipeline
  <2>2. LoopReadOf(x) /\ DepSeq(x) \in Seq(Name) /\ idx[x] \in Nat \ {0}
    BY <1>0, PipelineData DEF IInv, LoopRead, TypeOK
  <2> QED BY <1>0, <2>1, <2>2 DEF IInv, TypeOK, LoopReadOf
<1>5. StartedAfterDeps'
  BY <1>0, NothingNewStarted, AppendKeeps DEF IInv, TypeOK, StartedAfterDeps, PcState, Logged, Events
<1>6. SkippedJustified'
  BY <1>0, NothingNewSkipped DEF IInv, TypeOK
<1> QED BY <1>1, <1>2, <1>3, <1>4, <1>5, <1>6 DEF IInv

LEMMA ReadStateStep ==
    ASSUME NamesNonEmpty, IInv, NEW j \in Name, ReadState(j)
    PROVE  IInv'
<1> USE DEF ReadState, ReadAs, Goto, locals, shared, runVars
<1>0. pipeline' = pipeline /\ pipeline \in Pipelines
  BY DEF IInv, TypeOK
<1>1. TypeOK'
  <2>1. DepSeq(j)[idx[j]] \in Name
    BY <1>0, PipelineData DEF IInv, LoopRead, LoopReadOf
  <2>2. blockedOn' \in [Name -> Name \cup {NoName}] /\ idx' \in [Name -> Nat \ {0}]
    BY <2>1 DEF IInv, TypeOK
  <2> QED BY <1>0, <2>2 DEF IInv, TypeOK, Pcs
<1>2. RunPhase' /\ WaitGroupCounts' /\ ResultKnown'
  BY JobStepKeeps DEF Pcs
<1>3. PcState'
  BY DEF IInv, TypeOK, PcState, Terminal, Pcs
<1>4. LoopRead'
  <2> SUFFICES ASSUME NEW x \in Name
               PROVE  LoopReadOf(x)'
    BY DEF LoopRead, LoopReadOf
  <2>1. DepSeq(x)' = DepSeq(x) /\ Deps(x)' = Deps(x)
    BY <1>0, SamePipeline
  <2>2. /\ LoopReadOf(x) /\ DepSeq(x) \in Seq(Name) /\ idx[x] \in Nat
        /\ Deps(x) = {DepSeq(x)[i] : i \in DOMAIN DepSeq(x)}
    BY <1>0, PipelineData DEF IInv, LoopRead, TypeOK
  <2>3. CASE x # j
    BY <2>1, <2>2, <2>3 DEF IInv, TypeOK, LoopReadOf
  <2>4. CASE x = j
    <3> DEFINE dep == DepSeq(j)[idx[j]]
    <3>1. idx[j] \in DOMAIN DepSeq(j) /\ dep \in done /\ dep \in Name /\ dep \in Deps(j)
      BY <2>2, <2>4 DEF LoopReadOf
    <3>2. states[dep] \in Terminal
      BY <3>1 DEF IInv, PcState
    <3>3. /\ idx'[j] = idx[j] + 1 /\ pc'[j] = "recv" /\ states' = states /\ done' = done
          /\ blockedOn'[j] = IF states[dep] \in Bad /\ blockedOn[j] = NoName
                             THEN dep ELSE blockedOn[j]
      BY DEF IInv, TypeOK
    <3>4. dep # NoName
      BY <3>1 DEF NamesNonEmpty
    <3> QED BY <2>1, <2>2, <2>4, <3>1, <3>2, <3>3, <3>4 DEF LoopReadOf, Terminal, Bad
  <2> QED BY <2>3, <2>4
<1>5. StartedAfterDeps'
  BY <1>0, NothingNewStarted, AppendKeeps DEF IInv, TypeOK, StartedAfterDeps, PcState, Logged, Events
<1>6. SkippedJustified'
  BY <1>0, NothingNewSkipped DEF IInv, TypeOK
<1> QED BY <1>1, <1>2, <1>3, <1>4, <1>5, <1>6 DEF IInv

LEMMA SkipJobStep ==
    ASSUME NamesNonEmpty, IInv, NEW j \in Name, SkipJob(j)
    PROVE  IInv'
<1> USE DEF SkipJob, RecordSkip, Goto, locals, shared, runVars
<1>0. pipeline' = pipeline /\ pipeline \in Pipelines
  BY DEF IInv, TypeOK
<1>1. TypeOK'
  BY <1>0 DEF IInv, TypeOK, RunPcs, Pcs, Events, Abstract!Results, Abstract!Outcomes, Logged, DepsReceived
<1>2. RunPhase' /\ WaitGroupCounts' /\ ResultKnown'
  BY JobStepKeeps DEF Pcs, DepsReceived
<1>3. PcState'
  BY DEF IInv, TypeOK, PcState, Terminal, Pcs, DepsReceived
<1>4. LoopRead'
  BY <1>0, NoLoopMoves DEF IInv, TypeOK, PcState, Terminal
<1>5. StartedAfterDeps'
  BY <1>0, NothingNewStarted, AppendKeeps DEF IInv, TypeOK, StartedAfterDeps, PcState, Logged, Events
<1>6. SkippedJustified'
  <2>1. /\ blockedOn[j] \in Deps(j) /\ blockedOn[j] \in Name
        /\ states[blockedOn[j]] \in Bad /\ states[j] = "pending"
    BY PipelineData DEF IInv, TypeOK, LoopRead, LoopReadOf, PcState, DepsReceived
  <2>2. PICK a \in Abstract!Ancestors(j) : states[a] = "failed"
    BY <1>0, <2>1, AncestorsOfDep DEF IInv, SkippedJustified, Bad
  <2>3. \A x \in Name : states[x] = "failed" => states'[x] = "failed"
    BY <2>1 DEF IInv, TypeOK
  <2> SUFFICES ASSUME NEW x \in Name, states'[x] = "skipped"
               PROVE  \E y \in Abstract!Ancestors(x) : states'[y] = "failed"
    BY <1>0, SamePipeline DEF SkippedJustified
  <2>4. CASE x = j
    BY <2>2, <2>3, <2>4 DEF Abstract!Ancestors
  <2>5. CASE x # j
    <3>1. PICK y \in Abstract!Ancestors(x) : states[y] = "failed"
      BY <2>5 DEF IInv, TypeOK, SkippedJustified
    <3> QED BY <2>3, <3>1 DEF Abstract!Ancestors
  <2> QED BY <2>4, <2>5
<1> QED BY <1>1, <1>2, <1>3, <1>4, <1>5, <1>6 DEF IInv

LEMMA LogSkipStep ==
    ASSUME NamesNonEmpty, IInv, NEW j \in Name, LogSkip(j)
    PROVE  IInv'
<1> USE DEF LogSkip, Goto, locals, shared, runVars
<1>0. pipeline' = pipeline /\ pipeline \in Pipelines
  BY DEF IInv, TypeOK
<1>1. TypeOK'
  BY <1>0 DEF IInv, TypeOK, RunPcs, Pcs, Events, Abstract!Results, Abstract!Outcomes, Logged
<1>2. RunPhase' /\ WaitGroupCounts' /\ ResultKnown'
  BY JobStepKeeps DEF Pcs
<1>3. PcState'
  BY DEF IInv, TypeOK, PcState, Terminal, Pcs
<1>4. LoopRead'
  BY <1>0, NoLoopMoves DEF IInv, TypeOK, PcState, Terminal
<1>5. StartedAfterDeps'
  <2>1. /\ Contains(log[j], "JobDone") => Contains(log'[j], "JobDone")
        /\ \A x \in Name \ {j} : log'[x] = log[x] /\ pc'[x] = pc[x]
        /\ pc'[j] # "record"
    BY AppendKeeps DEF IInv, TypeOK, Logged, Events
  <2> QED BY <1>0, <2>1, NothingNewStarted DEF IInv, TypeOK, StartedAfterDeps
<1>6. SkippedJustified'
  BY <1>0, NothingNewSkipped DEF IInv, TypeOK
<1> QED BY <1>1, <1>2, <1>3, <1>4, <1>5, <1>6 DEF IInv

LEMMA StartJobStep ==
    ASSUME NamesNonEmpty, IInv, NEW j \in Name, StartJob(j)
    PROVE  IInv'
<1> USE DEF StartJob, Goto, locals, shared, runVars
<1>0. pipeline' = pipeline /\ pipeline \in Pipelines
  BY DEF IInv, TypeOK
<1>1. TypeOK'
  BY <1>0 DEF IInv, TypeOK, RunPcs, Pcs, Events, Abstract!Results, Abstract!Outcomes, Logged
<1>2. RunPhase' /\ WaitGroupCounts' /\ ResultKnown'
  BY JobStepKeeps DEF Pcs, DepsReceived
<1>3. PcState'
  BY DEF IInv, TypeOK, PcState, Terminal, Pcs, DepsReceived
<1>4. LoopRead'
  BY <1>0, NoLoopMoves DEF IInv, TypeOK, PcState, Terminal
<1>5. StartedAfterDeps'
  <2>1. \A x \in Deps(j) : states[x] = "success"
    BY <1>0, PipelineData DEF IInv, TypeOK, LoopRead, LoopReadOf, DepsReceived
  <2>2. states[j] = "pending"
    BY DEF IInv, PcState, DepsReceived
  <2>3. \A x \in Name : states[x] = "success" => states'[x] = "success"
    BY <2>2 DEF IInv, TypeOK
  <2> SUFFICES ASSUME NEW x \in Name
               PROVE  /\ states'[x] \in {"running", "success", "failed"} =>
                          \A y \in Deps(x) : states'[y] = "success"
                      /\ states'[x] = "success" \/ (pc'[x] = "record" /\ ~jobErr'[x]) =>
                          Contains(log'[x], "JobDone")
    BY <1>0, SamePipeline DEF StartedAfterDeps, Contains
  <2> QED BY <1>0, <2>1, <2>3, PipelineData DEF IInv, TypeOK, StartedAfterDeps
<1>6. SkippedJustified'
  BY <1>0, NothingNewSkipped DEF IInv, TypeOK, PcState, DepsReceived
<1> QED BY <1>1, <1>2, <1>3, <1>4, <1>5, <1>6 DEF IInv

LEMMA LogJobStartStep ==
    ASSUME NamesNonEmpty, IInv, NEW j \in Name, LogJobStart(j)
    PROVE  IInv'
<1> USE DEF LogJobStart, Goto, locals, shared, runVars
<1>0. pipeline' = pipeline /\ pipeline \in Pipelines
  BY DEF IInv, TypeOK
<1>1. TypeOK'
  BY <1>0 DEF IInv, TypeOK, RunPcs, Pcs, Events, Abstract!Results, Abstract!Outcomes, Logged
<1>2. RunPhase' /\ WaitGroupCounts' /\ ResultKnown'
  BY JobStepKeeps DEF Pcs
<1>3. PcState'
  BY DEF IInv, TypeOK, PcState, Terminal, Pcs
<1>4. LoopRead'
  BY <1>0, NoLoopMoves DEF IInv, TypeOK, PcState, Terminal
<1>5. StartedAfterDeps'
  <2>1. /\ Contains(log[j], "JobDone") => Contains(log'[j], "JobDone")
        /\ \A x \in Name \ {j} : log'[x] = log[x] /\ pc'[x] = pc[x]
        /\ pc'[j] # "record"
    BY AppendKeeps DEF IInv, TypeOK, Logged, Events
  <2> QED BY <1>0, <2>1, NothingNewStarted DEF IInv, TypeOK, StartedAfterDeps
<1>6. SkippedJustified'
  BY <1>0, NothingNewSkipped DEF IInv, TypeOK
<1> QED BY <1>1, <1>2, <1>3, <1>4, <1>5, <1>6 DEF IInv

LEMMA LogJobDoneStep ==
    ASSUME NamesNonEmpty, IInv, NEW j \in Name, NEW failed \in BOOLEAN, LogJobDone(j, failed)
    PROVE  IInv'
<1> USE DEF LogJobDone, Goto, locals, shared, runVars
<1>0. pipeline' = pipeline /\ pipeline \in Pipelines
  BY DEF IInv, TypeOK
<1>1. TypeOK'
  BY <1>0 DEF IInv, TypeOK, RunPcs, Pcs, Events, Abstract!Results, Abstract!Outcomes, Logged
<1>2. RunPhase' /\ WaitGroupCounts' /\ ResultKnown'
  BY JobStepKeeps DEF Pcs
<1>3. PcState'
  BY DEF IInv, TypeOK, PcState, Terminal, Pcs
<1>4. LoopRead'
  BY <1>0, NoLoopMoves DEF IInv, TypeOK, PcState, Terminal
<1>5. StartedAfterDeps'
  <2>1. /\ Contains(log[j], "JobDone") => Contains(log'[j], "JobDone")
        /\ ~failed => Contains(log'[j], "JobDone")
        /\ \A x \in Name \ {j} : log'[x] = log[x] /\ jobErr'[x] = jobErr[x] /\ pc'[x] = pc[x]
        /\ jobErr'[j] = failed
    BY AppendKeeps DEF IInv, TypeOK, Logged, Events
  <2> QED BY <1>0, <2>1, NothingNewStarted DEF IInv, TypeOK, StartedAfterDeps
<1>6. SkippedJustified'
  BY <1>0, NothingNewSkipped DEF IInv, TypeOK
<1> QED BY <1>1, <1>2, <1>3, <1>4, <1>5, <1>6 DEF IInv

LEMMA SetFinalStep ==
    ASSUME NamesNonEmpty, IInv, NEW j \in Name, SetFinal(j)
    PROVE  IInv'
<1> USE DEF SetFinal, Goto, locals, shared, runVars
<1>0. pipeline' = pipeline /\ pipeline \in Pipelines
  BY DEF IInv, TypeOK
<1>1. TypeOK'
  BY <1>0 DEF IInv, TypeOK, RunPcs, Pcs, Events, Abstract!Results, Abstract!Outcomes, Logged
<1>2. RunPhase' /\ WaitGroupCounts' /\ ResultKnown'
  BY JobStepKeeps DEF Pcs
<1>3. PcState'
  BY DEF IInv, TypeOK, PcState, Terminal, Pcs
<1>4. LoopRead'
  BY <1>0, NoLoopMoves DEF IInv, TypeOK, PcState, Terminal
<1>5. StartedAfterDeps'
  BY <1>0, NothingNewStarted, AppendKeeps DEF IInv, TypeOK, StartedAfterDeps, PcState, Logged, Events
<1>6. SkippedJustified'
  BY <1>0, NothingNewSkipped DEF IInv, TypeOK, PcState
<1> QED BY <1>1, <1>2, <1>3, <1>4, <1>5, <1>6 DEF IInv

LEMMA CloseDoneStep ==
    ASSUME NamesNonEmpty, IInv, NEW j \in Name, CloseDone(j)
    PROVE  IInv'
<1> USE DEF CloseDone, Goto, locals, shared, runVars
<1>0. pipeline' = pipeline /\ pipeline \in Pipelines
  BY DEF IInv, TypeOK
<1>1. TypeOK'
  BY <1>0 DEF IInv, TypeOK, RunPcs, Pcs, Events, Abstract!Results, Abstract!Outcomes, Logged
<1>2. RunPhase' /\ WaitGroupCounts' /\ ResultKnown'
  BY JobStepKeeps DEF Pcs
<1>3. PcState'
  BY DEF IInv, TypeOK, PcState, Terminal, Pcs
<1>4. LoopRead'
  BY <1>0, NoLoopMoves DEF IInv, TypeOK, PcState, Terminal
<1>5. StartedAfterDeps'
  BY <1>0, NothingNewStarted, AppendKeeps DEF IInv, TypeOK, StartedAfterDeps, PcState, Logged, Events
<1>6. SkippedJustified'
  BY <1>0, NothingNewSkipped DEF IInv, TypeOK
<1> QED BY <1>1, <1>2, <1>3, <1>4, <1>5, <1>6 DEF IInv

LEMMA WgDoneStep ==
    ASSUME NamesNonEmpty, IInv, NEW j \in Name, WgDone(j)
    PROVE  IInv'
<1> USE DEF WgDone, Goto, locals, shared, runVars
<1>0. /\ pipeline' = pipeline /\ pipeline \in Pipelines /\ JobNames' = JobNames
      /\ runPc = "wait" /\ j \in JobNames /\ result = "none"
      /\ pc' = [pc EXCEPT ![j] = "exited"] /\ pc[j] = "wgDone"
  BY JobStepsWhileRunWaits, SamePipeline DEF IInv, TypeOK
<1>1. wg' \in Nat /\ WaitGroupCounts'
  <2> DEFINE Left == {x \in JobNames : pc[x] # "exited"}
  <2>1. IsFiniteSet(Left) /\ j \in Left /\ wg = Cardinality(Left)
    <3>1. IsFiniteSet(JobNames)
      BY <1>0, PipelineData
    <3> QED BY <1>0, <3>1, FS_Subset DEF IInv, WaitGroupCounts
  <2>2. {x \in JobNames : pc'[x] # "exited"} = Left \ {j}
    BY <1>0, PipelineData DEF IInv, TypeOK
  <2>3. wg' = Cardinality(Left \ {j}) /\ wg' \in Nat
    <3>1. /\ IsFiniteSet(Left \ {j})
          /\ Cardinality(Left \ {j}) = Cardinality(Left) - 1
      BY <2>1, FS_RemoveElement
    <3>2. Cardinality(Left \ {j}) \in Nat
      BY <3>1, FS_CardinalityType
    <3>3. wg' = wg - 1
      OBVIOUS
    <3> HIDE DEF Left
    <3> QED BY <2>1, <3>1, <3>2, <3>3
  <2> QED BY <1>0, <2>2, <2>3 DEF WaitGroupCounts
<1>2. TypeOK'
  BY <1>0, <1>1 DEF IInv, TypeOK, Pcs
<1>3. RunPhase'
  BY <1>0, SamePipeline DEF IInv, TypeOK, RunPhase, Abstract!Runnable
<1>4. PcState'
  BY DEF IInv, TypeOK, PcState, Terminal, Pcs
<1>5. LoopRead'
  BY <1>0, NoLoopMoves DEF IInv, TypeOK, PcState, Terminal
<1>6. StartedAfterDeps'
  BY <1>0, NothingNewStarted DEF IInv, TypeOK, StartedAfterDeps
<1>7. SkippedJustified'
  BY <1>0, NothingNewSkipped DEF IInv, TypeOK
<1>8. ResultKnown'
  BY <1>0 DEF ResultKnown
<1> QED BY <1>1, <1>2, <1>3, <1>4, <1>5, <1>6, <1>7, <1>8 DEF IInv

\* What Run's own steps keep when they leave every goroutine where it is.
LEMMA RunGoroutineKeeps ==
    ASSUME IInv, pipeline' = pipeline, UNCHANGED <<pc, locals, shared>>,
           \A x \in Name : Contains(log[x], "JobDone") => Contains(log'[x], "JobDone")
    PROVE  PcState' /\ LoopRead' /\ StartedAfterDeps' /\ SkippedJustified'
<1> USE DEF locals, shared
<1>1. PcState'
  BY DEF IInv, PcState
<1>2. LoopRead'
  BY NoLoopMoves
<1>3. StartedAfterDeps'
  BY NothingNewStarted DEF IInv, StartedAfterDeps
<1>4. SkippedJustified'
  BY NothingNewSkipped DEF IInv
<1> QED BY <1>1, <1>2, <1>3, <1>4

LEMMA ReportStep ==
    ASSUME IInv, ReportSkippedJobs
    PROVE  IInv'
<1> USE DEF ReportSkippedJobs, ReturnFromRun, locals, shared
<1>1. TypeOK'
  BY DEF IInv, TypeOK, RunPcs, Events, Abstract!Results
<1>2. RunPhase'
  BY SamePipeline DEF IInv, RunPhase
<1>3. \A x \in Name : Contains(log[x], "JobDone") => Contains(log'[x], "JobDone")
  BY AppendKeeps DEF IInv, TypeOK, Events
<1>4. PcState' /\ LoopRead' /\ StartedAfterDeps' /\ SkippedJustified'
  BY <1>3, RunGoroutineKeeps
<1>5. WaitGroupCounts'
  BY DEF WaitGroupCounts
<1>6. ResultKnown'
  <2>1. pipeline.jobs = <<>> => JobNames = {}
    BY DEF JobNames, ToSet
  <2> QED BY <2>1, SamePipeline DEF IInv, ResultKnown, RunPhase
<1> QED BY <1>1, <1>2, <1>4, <1>5, <1>6 DEF IInv

LEMMA RejectStep ==
    ASSUME IInv, RejectDuplicate \/ RejectUnknown
    PROVE  IInv'
<1> USE DEF RejectDuplicate, RejectUnknown, ReturnFromRun, locals, shared
<1>1. TypeOK'
  BY DEF IInv, TypeOK, RunPcs, Abstract!Results
<1>2. RunPhase'
  BY SamePipeline DEF IInv, RunPhase
<1>3. PcState' /\ LoopRead' /\ StartedAfterDeps' /\ SkippedJustified'
  BY RunGoroutineKeeps
<1>4. WaitGroupCounts' /\ ResultKnown'
  BY DEF WaitGroupCounts, ResultKnown
<1> QED BY <1>1, <1>2, <1>3, <1>4 DEF IInv

LEMMA SpawnStep ==
    ASSUME IInv, Spawn
    PROVE  IInv'
<1> USE DEF Spawn, SpawnAll, locals
<1>0. /\ pipeline' = pipeline /\ pipeline \in Pipelines /\ JobNames \subseteq Name
      /\ pc = [x \in Name |-> "idle"] /\ states = [x \in Name |-> "pending"]
      /\ result = "none" /\ JobNames' = JobNames
  BY SamePipeline, PipelineData DEF IInv, TypeOK, RunPhase
<1>1. wg' \in Nat /\ WaitGroupCounts'
  <2>1. {x \in JobNames : pc'[x] # "exited"} = JobNames
    BY <1>0
  <2>2. wg' = Cardinality(JobNames)
    BY <1>0, JobCount
  <2>3. wg' \in Nat
    BY <1>0, <2>2, PipelineData, FS_CardinalityType
  <2> QED BY <1>0, <2>1, <2>2, <2>3 DEF WaitGroupCounts
<1>2. TypeOK'
  BY <1>0, <1>1 DEF IInv, TypeOK, Pcs, RunPcs
<1>3. RunPhase'
  BY <1>0, SamePipeline DEF RunPhase, Abstract!Runnable
<1>4. PcState'
  BY <1>0 DEF IInv, PcState
<1>5. LoopRead'
  BY <1>0, NoLoopMoves
<1>6. StartedAfterDeps'
  BY <1>0, NothingNewStarted
<1>7. SkippedJustified'
  BY <1>0, NothingNewSkipped DEF IInv
<1>8. ResultKnown'
  BY <1>0 DEF ResultKnown
<1> QED BY <1>1, <1>2, <1>3, <1>4, <1>5, <1>6, <1>7, <1>8 DEF IInv

LEMMA CollectStep ==
    ASSUME IInv, Collect
    PROVE  IInv'
<1> USE DEF Collect, CollectFailures, ReturnFromRun, locals, shared
<1>0. pipeline' = pipeline /\ pipeline \in Pipelines /\ JobNames' = JobNames
  BY SamePipeline DEF IInv, TypeOK
<1>1. \A x \in JobNames : pc[x] = "exited"
  <2> DEFINE Left == {x \in JobNames : pc[x] # "exited"}
  <2>1. IsFiniteSet(Left)
    BY <1>0, PipelineData, FS_Subset
  <2>2. Left = {}
    BY <2>1, FS_EmptySet DEF IInv, WaitGroupCounts
  <2> QED BY <2>2
<1>2. TypeOK'
  BY <1>0, PipelineData DEF IInv, TypeOK, RunPcs, Abstract!Results
<1>3. RunPhase'
  BY <1>0, <1>1 DEF IInv, RunPhase, TypeOK, Pcs
<1>4. PcState' /\ LoopRead' /\ StartedAfterDeps' /\ SkippedJustified'
  BY RunGoroutineKeeps
<1>5. WaitGroupCounts'
  BY DEF WaitGroupCounts
<1>6. ResultKnown'
  BY <1>0, <1>1, PipelineData DEF IInv, PcState, ResultKnown
<1> QED BY <1>2, <1>3, <1>4, <1>5, <1>6 DEF IInv

\* Every step keeps the inductive invariant.
LEMMA NextIInv ==
    ASSUME NamesNonEmpty, IInv, [Next]_vars
    PROVE  IInv'
<1>1. CASE RunStep
  BY <1>1, ReportStep, RejectStep, SpawnStep, CollectStep DEF RunStep
<1>2. ASSUME NEW j \in Name, JobStep(j)
      PROVE  IInv'
  BY <1>2, ReceiveDoneStep, ReadStateStep, SkipJobStep, LogSkipStep, StartJobStep,
     LogJobStartStep, SetFinalStep, CloseDoneStep, WgDoneStep DEF JobStep
<1>3. ASSUME NEW j \in Name, NEW failed \in BOOLEAN, LogJobDone(j, failed)
      PROVE  IInv'
  BY <1>3, LogJobDoneStep
<1>4. CASE UNCHANGED vars
  <2>1. pipeline' = pipeline /\ UNCHANGED <<runPc, result, failedNames, pc, log, locals, shared>>
    BY <1>4 DEF vars, runVars
  <2>2. PcState' /\ LoopRead' /\ StartedAfterDeps' /\ SkippedJustified'
    BY <2>1, RunGoroutineKeeps
  <2>3. TypeOK' /\ RunPhase' /\ WaitGroupCounts' /\ ResultKnown'
    BY <2>1, SamePipeline DEF IInv, TypeOK, RunPhase, WaitGroupCounts, ResultKnown,
       Abstract!Runnable, locals, shared
  <2> QED BY <2>2, <2>3 DEF IInv
<1> QED BY <1>1, <1>2, <1>3, <1>4 DEF Next, Terminated

-----------------------------------------------------------------------------
(* The theorems. *)

\* Every reachable state of Run satisfies the inductive invariant, the types
\* included, whatever the pipeline (docker.go:281-383).
THEOREM InductiveInvariant == ASSUME NamesNonEmpty PROVE Spec => []IInv
<1>1. Init => IInv
  BY InitIInv
<1>2. IInv /\ [Next]_vars => IInv'
  BY NextIInv
<1> QED BY <1>1, <1>2, PTL DEF Spec

\* Run's variables have their types: no counter goes below zero, no log, state or
\* result is of another kind, whatever the pipeline (docker.go:305-328).
THEOREM TypesAreRight == ASSUME NamesNonEmpty PROVE Spec => []TypeOK
<1>1. IInv => TypeOK
  BY DEF IInv
<1> QED BY <1>1, InductiveInvariant, PTL

\* A job that passed a done channel finds a final state behind it
\* (docker.go:332-358), in every pipeline.
THEOREM NoStaleRead == ASSUME NamesNonEmpty PROVE Spec => []DoneMeansFinal
<1>1. IInv => DoneMeansFinal
  <2> SUFFICES ASSUME IInv, NEW j \in Name, NEW i \in 1..Len(DepSeq(j)),
                      (pc[j] = "read" /\ i = idx[j]) \/ i < idx[j]
               PROVE  states[DepSeq(j)[i]] \in Terminal
    BY DEF DoneMeansFinal
  <2>1. i \in DOMAIN DepSeq(j) /\ DepSeq(j)[i] \in Name
    BY PipelineData DEF IInv, TypeOK
  <2>2. DepSeq(j)[i] \in done
    BY <2>1 DEF IInv, LoopRead, LoopReadOf
  <2> QED BY <2>1, <2>2 DEF IInv, PcState
<1> QED BY <1>1, InductiveInvariant, PTL

\* A job runs only after each of its dependencies ended and logged success
\* (docker.go:266-268).
THEOREM DependenciesFirst == ASSUME NamesNonEmpty PROVE Spec => []RunsAfterItsDeps
<1>1. IInv => RunsAfterItsDeps
  BY PipelineData DEF IInv, TypeOK, StartedAfterDeps, RunsAfterItsDeps
<1> QED BY <1>1, InductiveInvariant, PTL

\* No descendant of a job that did not succeed runs, however far down
\* (docker.go:269-271).
THEOREM NoDescendantRuns == ASSUME NamesNonEmpty PROVE Spec => []FailureStopsDescendants
<1>1. IInv => FailureStopsDescendants
  <2> SUFFICES ASSUME IInv, NEW j \in JobNames,
                      states[j] \in {"running", "success", "failed"}
               PROVE  Abstract!Ancestors(j) \subseteq {x \in Name : states[x] = "success"}
    BY DEF FailureStopsDescendants
  <2> DEFINE S == {x \in Name : states[x] = "success"}
  <2>1. j \in Name /\ \A x \in Name : Deps(x) \subseteq Name
    BY PipelineData DEF IInv, TypeOK
  <2>2. Deps(j) \subseteq S /\ \A x \in S : Deps(x) \subseteq S
    BY <2>1 DEF IInv, StartedAfterDeps
  <2> QED BY <2>1, <2>2, AncestorsLeast
<1> QED BY <1>1, InductiveInvariant, PTL

\* A skipped job has an ancestor that ran and failed (docker.go:269-273): true of
\* any pipeline, even a cyclic one, by induction on the run and not on the graph.
THEOREM SkipsAreJustified == ASSUME NamesNonEmpty PROVE Spec => []SkippedForAnAncestorsFailure
<1>1. IInv => SkippedForAnAncestorsFailure
  BY PipelineData DEF IInv, TypeOK, SkippedJustified, SkippedForAnAncestorsFailure
<1> QED BY <1>1, InductiveInvariant, PTL

\* Run returns nil only if every job succeeded, and otherwise names exactly the
\* failed ones (docker.go:361-383).
THEOREM RunTellsTheTruth == ASSUME NamesNonEmpty PROVE Spec => []ResultIsTrue
<1>1. IInv => ResultIsTrue
  <2> SUFFICES ASSUME IInv PROVE ResultIsTrue
    OBVIOUS
  <2>1. \A x \in Name : states[x] = "failed" => x \in JobNames /\ x \in errs
    BY DEF IInv, RunPhase, PcState
  <2>2. ASSUME result = "nil", NEW j \in JobNames
        PROVE  states[j] = "success"
    <3>1. j \in Name /\ states[j] \in {"success", "skipped"}
      BY <2>2, PipelineData DEF IInv, TypeOK, ResultKnown, Terminal
    <3>2. states[j] # "skipped"
      BY <2>1, <2>2, <3>1 DEF IInv, SkippedJustified, ResultKnown, Abstract!Ancestors
    <3> QED BY <3>1, <3>2
  <2>3. ASSUME result = "failed"
        PROVE  /\ failedNames # {}
               /\ failedNames = {j \in JobNames : states[j] = "failed"}
               /\ failedNames \subseteq errs
               /\ \A j \in JobNames : states[j] \in Terminal
    BY <2>1, <2>3, PipelineData DEF IInv, TypeOK, ResultKnown
  <2> QED BY <2>2, <2>3 DEF ResultIsTrue
<1> QED BY <1>1, InductiveInvariant, PTL

\* Run never returns with one of its goroutines still at work (docker.go:361).
THEOREM AllGoroutinesJoined == ASSUME NamesNonEmpty PROVE Spec => []NoGoroutineOutlivesRun
<1>1. IInv => NoGoroutineOutlivesRun
  BY DEF IInv, RunPhase, NoGoroutineOutlivesRun
<1> QED BY <1>1, InductiveInvariant, PTL

-----------------------------------------------------------------------------
(* What the Logger is told. *)

LEMMA AppendToOne ==
    ASSUME NEW x, NEW y
    PROVE  Append(<<x>>, y) = <<x, y>>
<1> DEFINE S == {x, y}
           t == Append(<<x>>, y)
<1>1. <<x>> \in Seq(S) /\ <<x, y>> \in Seq(S) /\ Len(<<x>>) = 1 /\ Len(<<x, y>>) = 2
  OBVIOUS
<1>2. t \in Seq(S) /\ Len(t) = 2 /\ t[1] = <<x>>[1] /\ t[2] = y
  BY <1>1
<1>3. <<x, y>>[1] = x /\ <<x, y>>[2] = y /\ <<x>>[1] = x
  OBVIOUS
<1> HIDE DEF S, t
<1>4. \A i \in 1..Len(<<x, y>>) : t[i] = <<x, y>>[i]
  BY <1>1, <1>2, <1>3
<1>5. t = <<x, y>>
  BY <1>1, <1>2, <1>4, SeqEqual
<1> QED BY <1>5 DEF t

LEMMA OthersLogAlike ==
    ASSUME LogIsOrdered, NEW j \in Name, pipeline' = pipeline,
           \A i \in Name \ {j} : /\ pc'[i] = pc[i] /\ log'[i] = log[i]
                                 /\ jobErr'[i] = jobErr[i] /\ states'[i] = states[i],
           j \notin pipeline.skippedJobs => LogOf(j)'
    PROVE  LogIsOrdered'
BY DEF LogIsOrdered, LogOf

LEMMA JobStepLogs ==
    ASSUME IInv, LogIsOrdered, NEW j \in Name, JobStep(j)
    PROVE  LogIsOrdered'
<1> USE DEF Goto, Logged, runVars, locals, shared
<1>1. /\ pipeline' = pipeline
      /\ \A i \in Name \ {j} : /\ pc'[i] = pc[i] /\ log'[i] = log[i]
                               /\ jobErr'[i] = jobErr[i] /\ states'[i] = states[i]
  BY DEF IInv, TypeOK, JobStep, ReceiveDone, Receives, ReadState, ReadAs, SkipJob, RecordSkip,
         LogSkip, StartJob, LogJobStart, SetFinal, CloseDone, WgDone
<1>2. ASSUME j \notin pipeline.skippedJobs
      PROVE  LogOf(j)'
  <2>1. LogOf(j) /\ jobErr[j] \in BOOLEAN
    BY <1>2 DEF LogIsOrdered, IInv, TypeOK
  <2> USE DEF IInv, TypeOK, LogOf
  <2>2. CASE ReceiveDone(j) \/ ReadState(j)
    BY <2>1, <2>2 DEF ReceiveDone, Receives, ReadState, ReadAs
  <2>3. CASE SkipJob(j) \/ StartJob(j)
    BY <2>1, <2>3 DEF SkipJob, RecordSkip, StartJob
  <2>4. CASE LogSkip(j)
    <3>1. pc'[j] = "close" /\ log'[j] = Append(<<>>, "JobSkipped") /\ states'[j] = "skipped"
      BY <2>1, <2>4 DEF LogSkip, PcState
    <3> QED BY <3>1
  <2>5. CASE LogJobStart(j)
    <3>1. pc'[j] = "inJob" /\ log'[j] = Append(<<>>, "JobStart")
      BY <2>1, <2>5 DEF LogJobStart
    <3> QED BY <3>1
  <2>6. CASE SetFinal(j)
    BY <2>1, <2>6 DEF SetFinal
  <2>7. CASE CloseDone(j) \/ WgDone(j)
    BY <2>1, <2>7 DEF CloseDone, WgDone
  <2> QED BY <2>2, <2>3, <2>4, <2>5, <2>6, <2>7 DEF JobStep
<1> QED BY <1>1, <1>2, OthersLogAlike

LEMMA JobDoneLogs ==
    ASSUME IInv, LogIsOrdered, NEW j \in Name, NEW failed \in BOOLEAN, LogJobDone(j, failed)
    PROVE  LogIsOrdered'
<1> USE DEF LogJobDone, Goto, Logged, runVars, shared
<1>1. /\ pipeline' = pipeline
      /\ \A i \in Name \ {j} : /\ pc'[i] = pc[i] /\ log'[i] = log[i]
                               /\ jobErr'[i] = jobErr[i] /\ states'[i] = states[i]
  BY DEF IInv, TypeOK
<1>2. ASSUME j \notin pipeline.skippedJobs
      PROVE  LogOf(j)'
  <2>1. log[j] = <<"JobStart">>
    BY <1>2 DEF LogIsOrdered, LogOf
  <2>2. pc'[j] = "record" /\ jobErr'[j] = failed
    BY DEF IInv, TypeOK
  <2>3. log'[j] = Append(<<"JobStart">>, IF failed THEN "JobDoneErr" ELSE "JobDone")
    BY <2>1 DEF IInv, TypeOK
  <2>4. log'[j] = IF failed THEN <<"JobStart", "JobDoneErr">> ELSE <<"JobStart", "JobDone">>
    <3>1. CASE failed
      BY <2>3, <3>1, AppendToOne, Zenon
    <3>2. CASE ~failed
      BY <2>3, <3>2, AppendToOne, Zenon
    <3> QED BY <3>1, <3>2
  <2>5. log'[j] = IF jobErr'[j] THEN <<"JobStart", "JobDoneErr">> ELSE <<"JobStart", "JobDone">>
    BY <2>2, <2>4, Zenon
  <2> QED BY <2>2, <2>5 DEF LogOf
<1> QED BY <1>1, <1>2, OthersLogAlike

LEMMA RunStepLogs ==
    ASSUME IInv, LogIsOrdered, RunStep
    PROVE  LogIsOrdered'
<1> USE DEF ReturnFromRun, locals, shared, runVars
<1>1. CASE ReportSkippedJobs
  BY <1>1 DEF ReportSkippedJobs, LogIsOrdered, LogOf
<1>2. CASE Spawn
  <2>1. \A j \in Name : pc[j] = "idle" /\ pc'[j] \in {"recv", "idle"}
    BY <1>2 DEF Spawn, SpawnAll, IInv, RunPhase
  <2> QED BY <1>2, <2>1 DEF Spawn, SpawnAll, LogIsOrdered, LogOf
<1>3. CASE RejectDuplicate \/ RejectUnknown \/ Collect
  BY <1>3 DEF RejectDuplicate, RejectUnknown, Collect, CollectFailures, LogIsOrdered, LogOf
<1> QED BY <1>1, <1>2, <1>3 DEF RunStep

\* Whatever the interleaving, the Logger is told of a job's start and then of its end,
\* or of its skip, and when Run returns it was told what became of each job
\* (docker.go:77-98, 336-358).
THEOREM LoggerIsToldInOrder == ASSUME NamesNonEmpty PROVE Spec => []LoggerProtocol
<1>1. Init => LogIsOrdered
  BY DEF Init, LogIsOrdered, LogOf
<1>2. IInv /\ LogIsOrdered /\ [Next]_vars => LogIsOrdered'
  <2> SUFFICES ASSUME IInv, LogIsOrdered, [Next]_vars PROVE LogIsOrdered'
    OBVIOUS
  <2>1. CASE UNCHANGED vars
    BY <2>1 DEF vars, runVars, locals, shared, LogIsOrdered, LogOf
  <2> QED BY <2>1, RunStepLogs, JobStepLogs, JobDoneLogs DEF Next, Terminated
<1>3. IInv /\ LogIsOrdered => LoggerProtocol
  <2> SUFFICES ASSUME IInv, LogIsOrdered, NEW j \in JobNames \ pipeline.skippedJobs
               PROVE  /\ log[j] \in {<<>>, <<"JobSkipped">>, <<"JobStart">>,
                                     <<"JobStart", "JobDone">>, <<"JobStart", "JobDoneErr">>}
                      /\ result \in {"nil", "failed"} =>
                          log[j] = CASE states[j] = "success" -> <<"JobStart", "JobDone">>
                                     [] states[j] = "failed" -> <<"JobStart", "JobDoneErr">>
                                     [] OTHER -> <<"JobSkipped">>
    BY DEF LoggerProtocol
  <2>1. j \in Name /\ LogOf(j) /\ pc[j] \in Pcs
    BY PipelineData DEF IInv, TypeOK, LogIsOrdered
  <2>2. result \in {"nil", "failed"} => pc[j] \in {"close", "wgDone", "exited"}
    <3>1. result \in {"nil", "failed"} => states[j] \in Terminal /\ runPc = "returned"
      BY DEF IInv, TypeOK, ResultKnown, RunPhase, RunPcs
    <3>2. runPc = "returned" => pc[j] \in {"idle", "exited"}
      BY <2>1 DEF IInv, RunPhase
    <3>3. pc[j] = "idle" => states[j] = "pending"
      BY <2>1 DEF IInv, PcState
    <3> QED BY <3>1, <3>2, <3>3 DEF Terminal
  <2> QED BY <2>1, <2>2 DEF LogOf, Pcs
<1> QED BY <1>1, <1>2, <1>3, InductiveInvariant, PTL DEF Spec

-----------------------------------------------------------------------------
(* Run implements its doc comment: three of its steps are steps of the       *)
(* abstract specification for a job, three for the pipeline, and the others  *)
(* stutter.                                                                  *)

LEMMA StutterRefines ==
    ASSUME UNCHANGED <<pipeline, states, result, failedNames>>
    PROVE  UNCHANGED Abstract!specVars
BY DEF Abstract!specVars

LEMMA StartRefines ==
    ASSUME IInv, NEW j \in Name, StartJob(j)
    PROVE  Abstract!Start(j)
<1> USE DEF StartJob, DepsReceived, Goto
<1>1. j \in JobNames /\ Abstract!Runnable /\ states[j] = "pending"
  BY JobStepsWhileRunWaits DEF IInv, RunPhase, PcState
<1>2. \A x \in Deps(j) : states[x] = "success"
  BY PipelineData DEF IInv, TypeOK, LoopRead, LoopReadOf
<1> QED BY <1>1, <1>2, SameJobs DEF Abstract!Start, runVars

LEMMA SkipRefines ==
    ASSUME IInv, NEW j \in Name, SkipJob(j)
    PROVE  Abstract!Skip(j)
<1> USE DEF SkipJob, RecordSkip, DepsReceived, Goto
<1>1. j \in JobNames /\ Abstract!Runnable /\ states[j] = "pending"
  BY JobStepsWhileRunWaits DEF IInv, RunPhase, PcState
<1>2. \A x \in Deps(j) : x \in Name /\ x \in done
  BY PipelineData DEF IInv, TypeOK, LoopRead, LoopReadOf
<1>3. \A x \in Deps(j) : states[x] \in Abstract!Terminal
  BY <1>2 DEF IInv, PcState, Terminal, Abstract!Terminal
<1>4. \E x \in Deps(j) : states[x] # "success"
  BY DEF IInv, LoopRead, LoopReadOf, Bad
<1> QED BY <1>1, <1>3, <1>4, SameJobs DEF Abstract!Skip, runVars

LEMMA FinishRefines ==
    ASSUME IInv, NEW j \in Name, SetFinal(j)
    PROVE  \E o \in {"success", "failed"} : Abstract!Finish(j, o)
<1> USE DEF SetFinal, Goto
<1>1. j \in JobNames /\ Abstract!Runnable /\ states[j] = "running"
  BY JobStepsWhileRunWaits DEF IInv, RunPhase, PcState
<1>2. Abstract!Finish(j, IF jobErr[j] THEN "failed" ELSE "success")
  BY <1>1, SameJobs DEF Abstract!Finish, runVars
<1> QED BY <1>2

LEMMA RunStepRefines ==
    ASSUME IInv, RunStep
    PROVE  [Abstract!Next]_(Abstract!specVars)
<1> USE DEF ReturnFromRun, shared
<1>0. pipeline \in Pipelines
  BY DEF IInv, TypeOK
<1>1. CASE ReportSkippedJobs /\ pipeline.jobs = <<>>
  <2>1. JobNames = {} /\ ~Abstract!HasDuplicate /\ ~Abstract!HasUnknownDep
    BY <1>1, SameJobs DEF JobNames, ToSet, Abstract!HasDuplicate, Abstract!HasUnknownDep
  <2>2. failedNames = {} /\ result = "none"
    BY <1>1 DEF IInv, RunPhase, ReportSkippedJobs
  <2>3. Abstract!Return
    BY <1>1, <2>1, <2>2, SameJobs DEF ReportSkippedJobs, Abstract!Return, Abstract!Runnable
  <2> QED BY <2>3 DEF Abstract!Next
<1>2. CASE ReportSkippedJobs /\ pipeline.jobs # <<>>
  BY <1>2, StutterRefines DEF ReportSkippedJobs
<1>3. CASE RejectDuplicate
  <2>1. Abstract!Reject("duplicate")
    BY <1>3 DEF RejectDuplicate, IInv, RunPhase, Abstract!Reject
  <2> QED BY <2>1 DEF Abstract!Next
<1>4. CASE RejectUnknown
  <2>1. Abstract!Reject("unknown")
    BY <1>4 DEF RejectUnknown, IInv, RunPhase, Abstract!Reject
  <2> QED BY <2>1 DEF Abstract!Next
<1>5. CASE Spawn
  BY <1>5, StutterRefines DEF Spawn, SpawnAll
<1>6. CASE Collect
  <2>1. result = "none" /\ Abstract!Runnable
    BY <1>6 DEF Collect, CollectFailures, IInv, RunPhase
  <2>2. \A x \in JobNames : states[x] \in Abstract!Terminal
    BY <1>6, CollectStep, SamePipeline DEF Collect, CollectFailures, IInv, ResultKnown, Terminal, Abstract!Terminal
  <2>3. Abstract!Return
    BY <1>6, <2>1, <2>2, SameJobs DEF Collect, CollectFailures, Abstract!Return
  <2> QED BY <2>3 DEF Abstract!Next
<1> QED BY <1>1, <1>2, <1>3, <1>4, <1>5, <1>6 DEF RunStep

LEMMA StepRefines ==
    ASSUME IInv, [Next]_vars
    PROVE  [Abstract!Next]_(Abstract!specVars)
<1>1. CASE RunStep
  BY <1>1, RunStepRefines
<1>2. ASSUME NEW j \in Name, JobStep(j)
      PROVE  [Abstract!Next]_(Abstract!specVars)
  <2>1. CASE StartJob(j)
    BY <2>1, StartRefines DEF Abstract!Next, Abstract!Decide
  <2>2. CASE SkipJob(j)
    BY <2>2, SkipRefines DEF Abstract!Next, Abstract!Decide
  <2>3. CASE SetFinal(j)
    BY <2>3, FinishRefines DEF Abstract!Next
  <2>4. CASE ReceiveDone(j) \/ ReadState(j) \/ LogSkip(j) \/ LogJobStart(j)
             \/ CloseDone(j) \/ WgDone(j)
    BY <2>4, StutterRefines DEF ReceiveDone, Receives, ReadState, ReadAs, LogSkip, LogJobStart, CloseDone,
       WgDone, runVars, shared
  <2> QED BY <1>2, <2>1, <2>2, <2>3, <2>4 DEF JobStep
<1>3. ASSUME NEW j \in Name, NEW failed \in BOOLEAN, LogJobDone(j, failed)
      PROVE  [Abstract!Next]_(Abstract!specVars)
  BY <1>3, StutterRefines DEF LogJobDone, runVars, shared
<1>4. CASE UNCHANGED vars
  BY <1>4, StutterRefines DEF vars, runVars, shared
<1> QED BY <1>1, <1>2, <1>3, <1>4 DEF Next, Terminated

\* For every pipeline Run implements the promise of its doc comment
\* (docker.go:266-275): its goroutines, channels, mutex and WaitGroup add nothing
\* an observer of job states and results could see.
THEOREM RunImplementsItsDoc == ASSUME NamesNonEmpty PROVE Spec => ImplementsPipelineSpec
<1>1. Init => Abstract!Init
  BY DEF Init, Abstract!Init
<1>2. IInv /\ [Next]_vars => [Abstract!Next]_(Abstract!specVars)
  BY StepRefines
<1> QED BY <1>1, <1>2, InductiveInvariant, PTL DEF Spec, Abstract!Spec, ImplementsPipelineSpec
=============================================================================
