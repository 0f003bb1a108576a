---------------------------- MODULE ImportProofs ----------------------------
(***************************************************************************)
(* The parsers are right for every file: what they return can be run, and  *)
(* what they leave out is accounted for.                                   *)
(***************************************************************************)
EXTENDS LocalRun, DagProofs

-----------------------------------------------------------------------------
(* GitLab *)

LEMMA GitLabThose ==
    /\ \A s, K : G!Those(s, K) = Those(s, K)
    /\ \A s : G!Known(s) = Known(s)
    /\ \A s : G!Named(s) = Named(s)
    /\ \A p : G!Finished(p) = Finished(p)
    /\ G!Rejected = Rejected
    /\ \A s, n : G!LastOf(s, n) = LastOf(s, n)
BY DEF G!Those, Those, G!Known, Known, G!Named, Named, G!Finished, Finished, G!Rejected, Rejected,
   G!LastOf, LastOf, G!Max, Max

IsMapping(f) == {x \in DOMAIN f.entries : f.entries[x].mapping}

LEMMA GitLabSelections ==
    /\ \A f : G!Mappings(f) = Those(f.entries, IsMapping(f))
    /\ \A f : G!Candidates(f) =
         Those(G!Mappings(f), {x \in DOMAIN G!Mappings(f) : G!Mappings(f)[x].name \notin Hidden})
BY GitLabThose DEF G!Mappings, G!Candidates, G!Select, IsMapping

\* What of a candidate decides whether it runs depends on its name alone.
GitLabRuns(f, n) == G!Runnable(f, G!ResolveExtends(f, G!RawOf(f, n)))

GitLabRunnable(f) ==
    LET c == G!Candidates(f) IN Those(c, {x \in DOMAIN c : GitLabRuns(f, c[x].name)})

GitLabSkipped(f) ==
    LET c == G!Candidates(f) IN Those(c, {x \in DOMAIN c : ~GitLabRuns(f, c[x].name)})

GitLabJobs(f) == [x \in DOMAIN GitLabRunnable(f) |-> G!JobOf(f, GitLabRunnable(f)[x])]

GitLabOut(f) ==
    [ok |-> TRUE, jobs |-> G!AssignDependsOn(G!Stages(f), GitLabJobs(f)),
     skipped |-> Named(GitLabSkipped(f)), findings |-> G!FindingsOf(f)]

LEMMA GitLabParse ==
    ASSUME NEW f
    PROVE  G!Parse(f) = IF f.malformed THEN Rejected ELSE Finished(GitLabOut(f))
BY GitLabThose DEF G!Parse, G!Select, G!Resolved, GitLabOut, GitLabJobs, GitLabRunnable, GitLabSkipped,
   GitLabRuns

LEMMA GitLabCandidates ==
    ASSUME NEW f, G!IsFile(f)
    PROVE  /\ G!Candidates(f) \in Seq(ToSet(f.entries))
           /\ Known(G!Candidates(f)) = {f.entries[x].name : x \in IsMapping(f)} \ Hidden
           /\ HasDuplicate(G!Candidates(f)) => HasDuplicate(f.entries)
           /\ Known(f.entries) \subseteq Name
<1> DEFINE S == ToSet(f.entries)
           ms == G!Mappings(f)
           K == {x \in DOMAIN ms : ms[x].name \notin Hidden}
<1>1. f.entries \in Seq(S) /\ \A x \in DOMAIN f.entries : f.entries[x].name \in Name
  BY DEF G!IsFile, G!ToSet, ToSet
<1>2. IsMapping(f) \in SUBSET DOMAIN f.entries
  BY DEF IsMapping
<1>3. ms = Those(f.entries, IsMapping(f)) /\ G!Candidates(f) = Those(ms, K)
  BY GitLabSelections
<1> HIDE DEF ms, S
<1>4. /\ ms \in Seq(S)
      /\ Known(ms) = {f.entries[x].name : x \in IsMapping(f)}
      /\ HasDuplicate(ms) => \E x, y \in IsMapping(f) : x # y /\ f.entries[x].name = f.entries[y].name
  <2>1. Those(f.entries, IsMapping(f)) \in Seq(S)
    BY <1>1, <1>2, ThoseSet
  <2>2. /\ Known(Those(f.entries, IsMapping(f))) = {f.entries[x].name : x \in IsMapping(f)}
        /\ HasDuplicate(Those(f.entries, IsMapping(f))) =>
               \E x, y \in IsMapping(f) : x # y /\ f.entries[x].name = f.entries[y].name
    BY <1>1, <1>2, ThoseNames
  <2> QED BY <1>3, <2>1, <2>2
<1>5. K \in SUBSET DOMAIN ms
  OBVIOUS
<1>6. /\ Those(ms, K) \in Seq(S)
      /\ Known(Those(ms, K)) = {ms[x].name : x \in K}
      /\ HasDuplicate(Those(ms, K)) => \E x, y \in K : x # y /\ ms[x].name = ms[y].name
  <2> HIDE DEF K
  <2>1. Those(ms, K) \in Seq(S)
    BY <1>4, <1>5, ThoseSet
  <2>2. /\ Known(Those(ms, K)) = {ms[x].name : x \in K}
        /\ HasDuplicate(Those(ms, K)) => \E x, y \in K : x # y /\ ms[x].name = ms[y].name
    BY <1>4, <1>5, ThoseNames
  <2> QED BY <2>1, <2>2
<1>7. {ms[x].name : x \in K} = Known(ms) \ Hidden
  BY DEF Known
<1>8. HasDuplicate(Those(ms, K)) => HasDuplicate(f.entries)
  <2>1. HasDuplicate(Those(ms, K)) => HasDuplicate(ms)
    BY <1>5, <1>6 DEF HasDuplicate
  <2>2. HasDuplicate(ms) => HasDuplicate(f.entries)
    BY <1>2, <1>4 DEF HasDuplicate
  <2> QED BY <2>1, <2>2
<1>9. Known(f.entries) \subseteq Name
  BY <1>1 DEF Known
<1> QED BY <1>3, <1>4, <1>6, <1>7, <1>8, <1>9 DEF S

\* The candidates are those that run and those that do not.
LEMMA GitLabParts ==
    ASSUME NEW f, G!IsFile(f)
    PROVE  /\ GitLabRunnable(f) \in Seq(ToSet(f.entries))
           /\ Known(GitLabRunnable(f)) = {n \in Known(G!Candidates(f)) : GitLabRuns(f, n)}
           /\ Known(GitLabSkipped(f)) = {n \in Known(G!Candidates(f)) : ~GitLabRuns(f, n)}
           /\ HasDuplicate(GitLabRunnable(f)) => HasDuplicate(f.entries)
           /\ GitLabSkipped(f) \in Seq(ToSet(f.entries))
<1> DEFINE S == ToSet(f.entries)
           c == G!Candidates(f)
           K == {x \in DOMAIN c : GitLabRuns(f, c[x].name)}
           L == {x \in DOMAIN c : ~GitLabRuns(f, c[x].name)}
<1>1. c \in Seq(S) /\ (HasDuplicate(c) => HasDuplicate(f.entries))
  BY GitLabCandidates
<1>2. GitLabRunnable(f) = Those(c, K) /\ GitLabSkipped(f) = Those(c, L)
  BY DEF GitLabRunnable, GitLabSkipped
<1>3. K \in SUBSET DOMAIN c /\ L \in SUBSET DOMAIN c
  OBVIOUS
<1>4. /\ {c[x].name : x \in K} = {n \in Known(c) : GitLabRuns(f, n)}
      /\ {c[x].name : x \in L} = {n \in Known(c) : ~GitLabRuns(f, n)}
  BY DEF Known
<1> HIDE DEF S, c, K, L
<1>5. Those(c, K) \in Seq(S) /\ Those(c, L) \in Seq(S)
  BY <1>1, <1>3, ThoseSet
<1>6. Known(Those(c, K)) = {c[x].name : x \in K} /\ Known(Those(c, L)) = {c[x].name : x \in L}
  BY <1>1, <1>3, ThoseNames
<1>7. HasDuplicate(Those(c, K)) => HasDuplicate(c)
  <2>1. HasDuplicate(Those(c, K)) => \E x, y \in K : x # y /\ c[x].name = c[y].name
    BY <1>1, <1>3, ThoseNames
  <2> QED BY <1>3, <2>1 DEF HasDuplicate
<1> QED BY <1>1, <1>2, <1>4, <1>5, <1>6, <1>7 DEF S, c

LEMMA GitLabOutFacts ==
    ASSUME NEW f, G!IsFile(f)
    PROVE  /\ DOMAIN GitLabOut(f).jobs = DOMAIN GitLabRunnable(f)
           /\ \A x \in DOMAIN GitLabRunnable(f) :
                LET n == GitLabRunnable(f)[x].name
                    job == GitLabOut(f).jobs[x]
                IN  /\ job.name = n
                    /\ job.stage = G!StageOf(G!ResolveExtends(f, G!RawOf(f, n)))
                    /\ job.depends = Named(G!Preceding(G!Stages(f), GitLabJobs(f), job.stage))
           /\ \A x \in DOMAIN GitLabRunnable(f) :
                /\ GitLabJobs(f)[x].name = GitLabOut(f).jobs[x].name
                /\ GitLabJobs(f)[x].stage = GitLabOut(f).jobs[x].stage
           /\ Known(GitLabOut(f).jobs) = {n \in Known(G!Candidates(f)) : GitLabRuns(f, n)}
           /\ ToSet(GitLabOut(f).skipped) = {n \in Known(G!Candidates(f)) : ~GitLabRuns(f, n)}
           /\ HasDuplicate(GitLabOut(f).jobs) => HasDuplicate(f.entries)
           /\ GitLabOut(f).jobs = <<>> /\ GitLabOut(f).skipped = <<>> => Known(G!Candidates(f)) = {}
<1> DEFINE r == GitLabRunnable(f)
           jobs == GitLabOut(f).jobs
<1>1. DOMAIN GitLabJobs(f) = DOMAIN r /\ DOMAIN jobs = DOMAIN r
  BY DEF GitLabOut, GitLabJobs, G!AssignDependsOn
<1>2. ASSUME NEW x \in DOMAIN r
      PROVE  /\ GitLabJobs(f)[x].name = r[x].name
             /\ GitLabJobs(f)[x].stage = G!StageOf(G!ResolveExtends(f, G!RawOf(f, r[x].name)))
  BY DEF GitLabJobs, G!JobOf, G!Resolved
<1>3. ASSUME NEW x \in DOMAIN r
      PROVE  /\ jobs[x].name = GitLabJobs(f)[x].name
             /\ jobs[x].stage = GitLabJobs(f)[x].stage
             /\ jobs[x].depends = Named(G!Preceding(G!Stages(f), GitLabJobs(f), GitLabJobs(f)[x].stage))
  <2> DEFINE job == GitLabJobs(f)[x]
             deps == G!Named(G!Preceding(G!Stages(f), GitLabJobs(f), job.stage))
  <2>1. jobs[x] = [job EXCEPT !.depends = deps]
    BY <1>1 DEF GitLabOut, G!AssignDependsOn
  <2>2. {"name", "stage", "depends"} \subseteq DOMAIN job
    BY DEF GitLabJobs, G!JobOf
  <2>3. job = [i \in DOMAIN job |-> job[i]]
    BY DEF GitLabJobs, G!JobOf
  <2> HIDE DEF jobs, job, deps
  <2>4. jobs[x].name = job.name /\ jobs[x].stage = job.stage /\ jobs[x].depends = deps
    BY <2>1, <2>2
  <2> QED BY <2>4, GitLabThose DEF job, deps
<1> HIDE DEF r, jobs
<1>4. Known(jobs) = Known(r)
  BY <1>1, <1>2, <1>3 DEF Known
<1>5. HasDuplicate(jobs) => HasDuplicate(r)
  BY <1>1, <1>2, <1>3 DEF HasDuplicate
<1>6. GitLabOut(f).skipped = Named(GitLabSkipped(f))
  BY DEF GitLabOut
<1>7. ToSet(GitLabOut(f).skipped) = Known(GitLabSkipped(f))
  BY <1>6 DEF ToSet, Named, Known
<1>8. /\ Known(r) = {n \in Known(G!Candidates(f)) : GitLabRuns(f, n)}
      /\ Known(GitLabSkipped(f)) = {n \in Known(G!Candidates(f)) : ~GitLabRuns(f, n)}
      /\ HasDuplicate(r) => HasDuplicate(f.entries)
  BY GitLabParts DEF r
<1>9. ASSUME jobs = <<>>, GitLabOut(f).skipped = <<>> PROVE Known(G!Candidates(f)) = {}
  <2>1. Known(jobs) = {} /\ ToSet(GitLabOut(f).skipped) = {}
    BY <1>9 DEF Known, ToSet
  <2> QED BY <1>4, <1>7, <1>8, <2>1
<1> QED BY <1>1, <1>2, <1>3, <1>4, <1>5, <1>7, <1>8, <1>9 DEF r, jobs

GitLabIndex(f) ==
    [x \in DOMAIN GitLabOut(f).jobs |-> G!StageIndex(G!Stages(f), GitLabOut(f).jobs[x].stage)]

LEMMA StageIndexFacts ==
    ASSUME NEW stages \in Seq(Stage), NEW s, G!Contains(stages, s)
    PROVE  G!StageIndex(stages, s) \in 1..Len(stages) /\ stages[G!StageIndex(stages, s)] = s
<1> DEFINE T == {x \in DOMAIN stages : stages[x] = s}
<1>1. T \in SUBSET (0..Len(stages)) /\ T # {} /\ T \in SUBSET (1..Len(stages)) /\ Len(stages) \in Nat
  BY DEF G!Contains
<1>2. Max(T) \in T
  <2> HIDE DEF T
  <2> QED BY <1>1, MaxOfNat
<1>3. G!StageIndex(stages, s) = Max(T)
  BY DEF G!StageIndex, G!Max, Max
<1> QED BY <1>1, <1>2, <1>3

LEMMA StagesAreList == ASSUME NEW f, G!IsFile(f) PROVE G!Stages(f) \in Seq(Stage)
<1>1. DefaultStages \in Seq(Stage)
  BY FilesAssumption
<1>2. CASE f.stages = <<>>
  BY <1>1, <1>2 DEF G!Stages
<1>3. CASE f.stages # <<>>
  <2>1. f.stages \in Seq(Seq(Stage))
    BY DEF G!IsFile
  <2>2. f.stages[1] \in Seq(Stage)
    BY <1>3, <2>1
  <2> QED BY <1>3, <2>2 DEF G!Stages
<1> QED BY <1>2, <1>3

\* Each job that GitLab's parser returns waits for the nearest stage before its own.
LEMMA GitLabStaged ==
    ASSUME NEW f, G!IsFile(f)
    PROVE  Staged(GitLabOut(f).jobs, GitLabIndex(f), Len(G!Stages(f)))
<1> DEFINE stages == G!Stages(f)
           b == Len(stages)
           J == GitLabJobs(f)
           jobs == GitLabOut(f).jobs
           D == DOMAIN GitLabRunnable(f)
           ix == GitLabIndex(f)
           Index(s) == G!StageIndex(stages, s)
<1>1. stages \in Seq(Stage) /\ b \in Nat
  BY StagesAreList
<1>2. /\ DOMAIN jobs = D /\ DOMAIN J = D
      /\ \A x \in D :
            /\ jobs[x].name = GitLabRunnable(f)[x].name
            /\ jobs[x].stage = G!StageOf(G!ResolveExtends(f, G!RawOf(f, jobs[x].name)))
            /\ jobs[x].depends = Named(G!Preceding(stages, J, jobs[x].stage))
            /\ J[x].name = jobs[x].name /\ J[x].stage = jobs[x].stage
      /\ Known(jobs) = {n \in Known(G!Candidates(f)) : GitLabRuns(f, n)}
  BY GitLabOutFacts DEF GitLabJobs
<1>3. \A x \in D : ix[x] = Index(jobs[x].stage)
  BY <1>2 DEF GitLabIndex
<1>4. GitLabRunnable(f) \in Seq(ToSet(f.entries))
  BY GitLabParts
<1>5. D = 1..Len(GitLabRunnable(f)) /\ Len(GitLabRunnable(f)) \in Nat
  BY <1>4
<1> HIDE DEF jobs, J, ix, stages, b
<1>6. ASSUME NEW x \in D PROVE Index(jobs[x].stage) \in 1..b
  <2>1. GitLabRuns(f, jobs[x].name)
    BY <1>2 DEF Known
  <2>2. G!Contains(stages, jobs[x].stage)
    BY <1>2, <2>1 DEF GitLabRuns, G!Runnable, stages
  <2> QED BY <1>1, <2>2, StageIndexFacts DEF b
<1> HIDE DEF Index
<1>7. ix \in [DOMAIN jobs -> 0..b]
  <2>1. \A x \in D : ix[x] \in 0..b
    BY <1>1, <1>3, <1>6
  <2>2. ix = [x \in D |-> ix[x]]
    BY <1>2 DEF ix, GitLabIndex, jobs
  <2> QED BY <1>2, <2>1, <2>2
<1>8. \A x, y \in D : jobs[x].name = jobs[y].name => ix[x] = ix[y]
  BY <1>2, <1>3
<1>9. ASSUME NEW x \in D
      PROVE  ToSet(jobs[x].depends) = {jobs[y].name : y \in JustBefore(jobs, ix, x)}
  <2> DEFINE before == {Index(J[y].stage) : y \in DOMAIN J} \cap 1..(Index(jobs[x].stage) - 1)
             K == {y \in DOMAIN J : Index(J[y].stage) = Max(before)}
  <2>1. G!Preceding(stages, J, jobs[x].stage) = IF before = {} THEN <<>> ELSE Those(J, K)
    BY GitLabThose DEF G!Preceding, G!Select, G!Max, Max, Index
  <2>2. /\ \A n \in before : n \in 1..b /\ n < ix[x] /\ \E y \in D : n = ix[y]
        /\ \A y \in D : ix[y] < ix[x] => ix[y] \in before
    BY <1>1, <1>2, <1>3, <1>6
  <2> HIDE DEF before
  <2>3. CASE before = {}
    <3>1. JustBefore(jobs, ix, x) = {}
      BY <1>2, <2>2, <2>3 DEF JustBefore
    <3>2. jobs[x].depends = Named(<<>>)
      BY <1>2, <2>1, <2>3
    <3>3. ToSet(jobs[x].depends) = {}
      BY <3>2 DEF ToSet, Named
    <3> QED BY <3>1, <3>3
  <2>4. CASE before # {}
    <3>1. Max(before) \in before /\ \A n \in before : n <= Max(before)
      <4>1. before \in SUBSET (0..b)
        BY <1>1, <2>2
      <4> QED BY <1>1, <2>4, <4>1, MaxOfNat
    <3>2. K = JustBefore(jobs, ix, x)
      <4>1. ASSUME NEW y \in D, ix[y] = Max(before) PROVE y \in JustBefore(jobs, ix, x)
        BY <1>2, <2>2, <3>1, <4>1 DEF JustBefore
      <4>2. ASSUME NEW y \in JustBefore(jobs, ix, x) PROVE y \in D /\ ix[y] = Max(before)
        <5>1. y \in D /\ ix[y] < ix[x] /\ \A z \in D : ix[z] < ix[x] => ix[z] <= ix[y]
          BY <1>2 DEF JustBefore
        <5>2. PICK z \in D : Max(before) = ix[z] /\ ix[z] < ix[x]
          BY <2>2, <3>1
        <5>3. ix[z] <= ix[y] /\ ix[y] <= ix[z] /\ ix[y] \in 0..b /\ ix[z] \in 0..b
          BY <1>2, <1>7, <2>2, <3>1, <5>1, <5>2
        <5> QED BY <5>1, <5>2, <5>3
      <4>3. \A y \in D : Index(J[y].stage) = ix[y]
        BY <1>2, <1>3
      <4> QED BY <1>2, <4>1, <4>2, <4>3
    <3>3. K \in SUBSET DOMAIN J
      OBVIOUS
    <3>4. J \in Seq(ToSet(J))
      <4>1. J = [y \in 1..Len(GitLabRunnable(f)) |-> J[y]]
        BY <1>2, <1>5 DEF J, GitLabJobs
      <4> QED BY <1>5, <4>1, ArrayIsSeq
    <3> HIDE DEF K
    <3>5. Known(Those(J, K)) = {J[y].name : y \in K}
      BY <3>3, <3>4, ThoseNames
    <3>6. jobs[x].depends = Named(Those(J, K))
      BY <1>2, <2>1, <2>4
    <3>7. ToSet(jobs[x].depends) = Known(Those(J, K))
      BY <3>6 DEF ToSet, Named, Known
    <3>8. \A y \in K : J[y].name = jobs[y].name
      BY <1>2, <3>3
    <3> QED BY <3>2, <3>5, <3>7, <3>8
  <2> QED BY <2>3, <2>4
<1> QED BY <1>2, <1>7, <1>8, <1>9 DEF Staged, jobs, ix, b, stages

-----------------------------------------------------------------------------
(* A command works on what the parser of its file's provider returned. *)

\* The command goes on, or went, with what the parser returned.
HasPipeline == outcome \notin {"start", "error"}

IInv ==
    /\ \/ provider = "circleci" /\ file \in CircleCIFiles
       \/ provider = "github-actions" /\ file \in GitHubFiles
       \/ provider = "gitlab" /\ file \in GitLabFiles
    /\ outcome # "start" =>
        /\ provider = "circleci" => out = C!Parse(file)
        /\ provider = "github-actions" => out = H!Parse(file)
        /\ provider = "gitlab" => out = G!Parse(file)
    /\ HasPipeline => out.ok

LEMMA ConfidenceIsNoPlace == ASSUME NEW p PROVE Confidence(p) \in {"HIGH", "MEDIUM", "LOW"}
BY DEF Confidence

LEMMA StepIInv == ASSUME IInv, [LocalNext]_<<vars, runVars>> PROVE IInv'
<1>1. ASSUME NEW p, Parsed(p), \/ provider = "circleci" /\ p = C!Parse(file)
                               \/ provider = "github-actions" /\ p = H!Parse(file)
                               \/ provider = "gitlab" /\ p = G!Parse(file)
      PROVE  IInv'
  BY <1>1 DEF Parsed, IInv, HasPipeline
<1>2. ASSUME NEW how \in {"error", "rejected", "run", "plan", "HIGH", "MEDIUM", "LOW"}, Ends(how)
      PROVE  IInv'
  BY <1>2 DEF Ends, IInv, HasPipeline
<1>3. ASSUME Imports PROVE IInv'
  <2>1. CASE ParseCircleCI
    BY <1>1, <2>1 DEF ParseCircleCI
  <2>2. CASE ParseGitHub
    BY <1>1, <2>2 DEF ParseGitHub
  <2>3. CASE ParseGitLab
    BY <1>1, <2>3 DEF ParseGitLab
  <2>4. CASE NoDaemon
    BY <1>2, <2>4 DEF NoDaemon
  <2>5. CASE Plan
    BY <1>2, <2>5 DEF Plan
  <2>6. CASE Check
    <3>1. Confidence(out) \in {"HIGH", "MEDIUM", "LOW"}
      BY ConfidenceIsNoPlace
    <3> QED BY <1>2, <2>6, <3>1 DEF Check
  <2> QED BY <1>3, <2>1, <2>2, <2>3, <2>4, <2>5, <2>6 DEF Imports
<1>4. ASSUME CallRun PROVE IInv'
  BY <1>2, <1>4 DEF CallRun, Run
<1>5. ASSUME UNCHANGED vars PROVE IInv'
  BY <1>5 DEF vars, IInv, HasPipeline
<1>6. ASSUME RunGoesOn \/ Over \/ UNCHANGED <<vars, runVars>> PROVE UNCHANGED vars
  BY <1>6 DEF RunGoesOn, Over, vars
<1> QED BY <1>3, <1>4, <1>5, <1>6 DEF LocalNext

\* Once a file is parsed the pipeline is what its provider's parser returns, and stays
\* that until the command ends (main.go:62-168).
THEOREM InductiveInvariant == LocalSpec => []IInv
<1>1. LocalInit => IInv
  BY DEF LocalInit, Init, IInv, HasPipeline
<1> QED BY <1>1, StepIInv, PTL DEF LocalSpec

-----------------------------------------------------------------------------
(* GitLab's stages. *)

LEMMA GitLabReturns ==
    ASSUME IInv, HasPipeline, provider = "gitlab"
    PROVE  G!IsFile(file) /\ ~file.malformed /\ out = GitLabOut(file)
<1>1. G!IsFile(file) /\ out = G!Parse(file) /\ out.ok
  BY FilesAssumption DEF IInv, HasPipeline
<1>2. Rejected.ok = FALSE
  BY DEF Rejected
<1>3. ~file.malformed /\ out = Finished(GitLabOut(file))
  BY <1>1, <1>2, GitLabParse
<1>4. out = GitLabOut(file)
  BY <1>1, <1>2, <1>3 DEF Finished
<1> QED BY <1>1, <1>3, <1>4

\* A job's failure keeps exactly the jobs of later stages from running, for any stages
\* and any jobs, over stages that are empty or listed twice (gitlab/parser.go:258-284).
THEOREM StagesHold == LocalSpec => []StagesAreBarriers
<1>1. IInv => StagesAreBarriers
  <2> SUFFICES ASSUME IInv, IsParsed("gitlab"), ~HasDuplicate(out.jobs),
                      NEW x \in DOMAIN out.jobs, NEW y \in DOMAIN out.jobs, x # y
               PROVE  out.jobs[y].name \in DoomedIn(out.jobs, {out.jobs[x].name})
                        <=> G!StageIndex(G!Stages(file), out.jobs[x].stage)
                              < G!StageIndex(G!Stages(file), out.jobs[y].stage)
    BY DEF StagesAreBarriers
  <2> DEFINE ix == GitLabIndex(file)
  <2>1. G!IsFile(file) /\ out = GitLabOut(file)
    BY GitLabReturns DEF IsParsed, HasPipeline
  <2>2. Staged(out.jobs, ix, Len(G!Stages(file))) /\ Len(G!Stages(file)) \in Nat
    BY <2>1, GitLabStaged, StagesAreList
  <2>3. Known(out.jobs) \subseteq Name
    <3>1. Known(G!Candidates(file)) \subseteq Known(file.entries)
      <4>1. Known(G!Candidates(file)) = {file.entries[z].name : z \in IsMapping(file)} \ Hidden
        BY <2>1, GitLabCandidates
      <4> QED BY <4>1 DEF Known, IsMapping
    <3> QED BY <2>1, <3>1, GitLabCandidates, GitLabOutFacts
  <2>4. \A z \in DOMAIN out.jobs : ix[z] = G!StageIndex(G!Stages(file), out.jobs[z].stage)
    BY <2>1 DEF GitLabIndex
  <2> HIDE DEF ix
  <2>5. out.jobs[y].name \in DoomedIn(out.jobs, {out.jobs[x].name}) <=> ix[x] < ix[y]
    BY <2>2, <2>3, StagedBarrier
  <2> QED BY <2>4, <2>5
<1> QED BY <1>1, InductiveInvariant, PTL

-----------------------------------------------------------------------------
(* GitHub Actions *)

LEMMA GitHubSame ==
    /\ \A s, K : H!Those(s, K) = Those(s, K)
    /\ \A s : H!Known(s) = Known(s)
    /\ \A s : H!Named(s) = Named(s)
    /\ \A p : H!Finished(p) = Finished(p)
    /\ H!Rejected = Rejected
    /\ \A s, n : H!LastOf(s, n) = LastOf(s, n)
    /\ \A s : H!FlattenSeq(s) = FlattenSeq(s)
BY DEF H!Those, Those, H!Known, Known, H!Named, Named, H!Finished, Finished, H!Rejected, Rejected,
   H!LastOf, LastOf, H!Max, Max, H!FlattenSeq, FlattenSeq

LEMMA GitHubGraph ==
    /\ \A s : H!HasDuplicate(s) = HasDuplicate(s)
    /\ \A s : H!HasUnknown(s) = HasUnknown(s)
    /\ \A s : H!HasCycle(s) = HasCycle(s)
    /\ \A s : H!LevelIn(s) = LevelIn(s)
    /\ \A s, l : H!MaxLevel(s, l) = MaxLevel(s, l)
    /\ \A s, l, m : H!ByLevel(s, l, m) = ByLevel(s, l, m)
    /\ \A s, S : H!DoomedIn(s, S) = DoomedIn(s, S)
BY DEF H!HasDuplicate, HasDuplicate, H!HasUnknown, HasUnknown, H!HasCycle, HasCycle, H!LevelIn, LevelIn,
   H!MaxLevel, MaxLevel, H!ByLevel, ByLevel, H!DoomedIn, DoomedIn, H!ClosedIn, ClosedIn, H!DepsIn, DepsIn,
   H!Those, Those, H!Known, Known, H!Max, Max, H!ToSet, ToSet

\* The combinations over the first n axes.
Combos(axes, n) == {combo \in [1..n -> Value] : \A x \in 1..n : combo[x] \in ToSet(axes[x])}

LEMMA FunctionIsSeq ==
    ASSUME NEW S, NEW k \in Nat, NEW f \in [1..k -> S]
    PROVE  f \in Seq(S) /\ Len(f) = k
OBVIOUS

LEMMA MoreCombos ==
    ASSUME NEW axes \in Seq(Seq(Value)), NEW n \in 1..Len(axes), NEW cs \in Seq(Seq(Value)),
           ToSet(cs) = Combos(axes, n - 1)
    PROVE  LET all == FlattenSeq([c \in DOMAIN cs |->
                          [v \in DOMAIN axes[n] |-> Append(cs[c], axes[n][v])]])
           IN  /\ all \in Seq(Seq(Value)) /\ ToSet(all) = Combos(axes, n)
               /\ IsInjective(cs) /\ IsInjective(axes[n]) => IsInjective(all)
<1> DEFINE vs == axes[n]
           row(c) == [v \in DOMAIN vs |-> Append(cs[c], vs[v])]
           rows == [c \in DOMAIN cs |-> row(c)]
<1>1. vs \in Seq(Value) /\ n \in Nat /\ n - 1 \in Nat /\ Len(cs) \in Nat
  OBVIOUS
<1> HIDE DEF vs
<1>2. ASSUME NEW c \in DOMAIN cs PROVE row(c) \in Seq(Seq(Value))
  <2>1. cs[c] \in Seq(Value)
    OBVIOUS
  <2>2. \A v \in DOMAIN vs : Append(cs[c], vs[v]) \in Seq(Value)
    BY <1>1, <2>1
  <2> DEFINE f == row(c)
  <2>3. f = [v \in DOMAIN vs |-> f[v]] /\ \A v \in DOMAIN vs : f[v] \in Seq(Value)
    BY <2>2
  <2> HIDE DEF f
  <2>4. f \in Seq(Seq(Value))
    BY <1>1, <2>3, ArrayOver
  <2> QED BY <2>4 DEF f
<1>3. rows \in Seq(Seq(Seq(Value)))
  <2>1. rows = [c \in DOMAIN cs |-> rows[c]] /\ \A c \in DOMAIN cs : rows[c] \in Seq(Seq(Value))
    BY <1>2
  <2> HIDE DEF rows
  <2> QED BY <2>1, ArrayOver
<1>4. /\ FlattenSeq(rows) \in Seq(Seq(Value))
      /\ ToSet(FlattenSeq(rows)) = UNION {ToSet(rows[c]) : c \in DOMAIN rows}
  <2> HIDE DEF rows
  <2> QED BY <1>3, FlattenFacts
<1>7. ASSUME IsInjective(cs), IsInjective(vs) PROVE IsInjective(FlattenSeq(rows))
  <2>1. /\ \A c, d \in DOMAIN cs : cs[c] = cs[d] => c = d
        /\ \A v, w \in DOMAIN vs : vs[v] = vs[w] => v = w
    BY <1>7 DEF IsInjective
  <2>2. ASSUME NEW c \in DOMAIN cs, NEW d \in DOMAIN cs, NEW v \in DOMAIN vs, NEW w \in DOMAIN vs,
               Append(cs[c], vs[v]) = Append(cs[d], vs[w])
        PROVE  c = d /\ v = w
    <3>1. ASSUME NEW x \in DOMAIN cs PROVE cs[x] \in Seq(Value) /\ Len(cs[x]) = n - 1
      <4>1. cs[x] \in Combos(axes, n - 1)
        BY DEF ToSet
      <4>2. cs[x] \in [1..(n - 1) -> Value]
        BY <4>1 DEF Combos
      <4> QED BY <1>1, <4>2, FunctionIsSeq
    <3>2. cs[c] \in Seq(Value) /\ Len(cs[c]) = n - 1 /\ cs[d] \in Seq(Value) /\ Len(cs[d]) = n - 1
      BY <3>1
    <3>3. vs[v] \in Value /\ vs[w] \in Value
      BY <1>1
    <3>4. cs[c] = cs[d] /\ vs[v] = vs[w]
      <4>1. AppendSame(cs[c], vs[v], cs[d], vs[w])
        BY <2>2, <3>2 DEF AppendSame
      <4>2. cs[c] \in Seq(Value) /\ cs[d] \in Seq(Value)
        BY <3>2
      <4> QED BY <3>3, <4>1, <4>2, AppendSameFacts
    <3> QED BY <2>1, <3>4
  <2>3. \A c \in DOMAIN cs : \A v \in DOMAIN vs : rows[c][v] = Append(cs[c], vs[v])
    OBVIOUS
  <2>4. DOMAIN rows = DOMAIN cs /\ \A c \in DOMAIN cs : DOMAIN rows[c] = DOMAIN vs
    OBVIOUS
  <2> HIDE DEF rows
  <2>5. \A c, d \in DOMAIN cs : \A v, w \in DOMAIN vs : rows[c][v] = rows[d][w] => c = d /\ v = w
    <3> SUFFICES ASSUME NEW c \in DOMAIN cs, NEW d \in DOMAIN cs, NEW v \in DOMAIN vs, NEW w \in DOMAIN vs,
                        rows[c][v] = rows[d][w]
                 PROVE  c = d /\ v = w
      OBVIOUS
    <3>1. Append(cs[c], vs[v]) = Append(cs[d], vs[w])
      BY <2>3
    <3> QED BY <2>2, <3>1
  <2>6. \A c \in DOMAIN rows : IsInjective(rows[c])
    BY <2>4, <2>5 DEF IsInjective
  <2>7. \A c, d \in DOMAIN rows : c # d => ToSet(rows[c]) \cap ToSet(rows[d]) = {}
    <3> SUFFICES ASSUME NEW c \in DOMAIN rows, NEW d \in DOMAIN rows,
                        NEW k \in ToSet(rows[c]) \cap ToSet(rows[d])
                 PROVE  c = d
      OBVIOUS
    <3>1. PICK v \in DOMAIN vs : k = rows[c][v]
      BY <2>4 DEF ToSet
    <3>2. PICK w \in DOMAIN vs : k = rows[d][w]
      BY <2>4 DEF ToSet
    <3> QED BY <2>4, <2>5, <3>1, <3>2
  <2>8. Apart(rows)
    BY <2>6, <2>7 DEF Apart
  <2> QED BY <1>3, <2>8, FlattenFacts
<1>5. ASSUME NEW k \in UNION {ToSet(rows[c]) : c \in DOMAIN rows} PROVE k \in Combos(axes, n)
  <2>1. PICK c \in DOMAIN cs, v \in DOMAIN vs : k = Append(cs[c], vs[v])
    BY <1>5 DEF ToSet
  <2>2. cs[c] \in Combos(axes, n - 1) /\ vs[v] \in Value /\ vs[v] \in ToSet(axes[n])
    BY <1>1 DEF ToSet, vs
  <2>3. cs[c] \in [1..(n - 1) -> Value] /\ cs[c] \in Seq(Value) /\ Len(cs[c]) = n - 1
    <3>1. cs[c] \in [1..(n - 1) -> Value]
      BY <2>2 DEF Combos
    <3> QED BY <1>1, <3>1, FunctionIsSeq
  <2>4. k \in Seq(Value) /\ Len(k) = n /\ k[n] = vs[v] /\ \A x \in 1..(n - 1) : k[x] = cs[c][x]
    BY <1>1, <2>1, <2>2, <2>3
  <2>5. k \in [1..n -> Value]
    BY <2>4
  <2>6. \A x \in 1..n : x \in 1..(n - 1) \/ x = n
    BY <1>1
  <2> QED BY <2>2, <2>4, <2>5, <2>6 DEF Combos
<1>6. ASSUME NEW k \in Combos(axes, n) PROVE k \in UNION {ToSet(rows[c]) : c \in DOMAIN rows}
  <2> DEFINE p == [x \in 1..(n - 1) |-> k[x]]
  <2>1. k \in [1..n -> Value] /\ \A x \in 1..n : k[x] \in ToSet(axes[x])
    BY DEF Combos
  <2>2. 1..(n - 1) \subseteq 1..n /\ n \in 1..n
    BY <1>1
  <2>3. p \in Combos(axes, n - 1)
    BY <2>1, <2>2 DEF Combos
  <2>4. PICK c \in DOMAIN cs : cs[c] = p
    BY <2>3 DEF ToSet
  <2>5. PICK v \in DOMAIN vs : vs[v] = k[n]
    BY <2>1, <2>2 DEF ToSet, vs
  <2>6. k = Append(cs[c], vs[v])
    <3>1. p \in Seq(Value) /\ Len(p) = n - 1
      BY <1>1, <2>1, <2>2
    <3>2. \A x \in 1..(n - 1) : p[x] = k[x]
      OBVIOUS
    <3> HIDE DEF p
    <3>3. k \in Seq(Value) /\ Len(k) = n /\ k[n] \in Value
      <4>1. n \in Nat /\ k \in [1..n -> Value] /\ n \in 1..n
        BY <1>1, <2>1, <2>2
      <4> QED BY <4>1
    <3>4. Append(p, k[n]) \in Seq(Value) /\ Len(Append(p, k[n])) = n
      BY <1>1, <3>1, <3>3
    <3>5. \A x \in 1..n : Append(p, k[n])[x] = k[x]
      BY <1>1, <3>1, <3>2, <3>3
    <3>6. Append(p, k[n]) = k
      BY <3>3, <3>4, <3>5
    <3> QED BY <2>4, <2>5, <3>6
  <2>7. k \in ToSet(rows[c]) /\ c \in DOMAIN rows
    BY <2>6 DEF ToSet
  <2> QED BY <2>7
<1> QED BY <1>4, <1>5, <1>6, <1>7 DEF vs

\* expandMatrix makes every combination.
LEMMA CombinationFacts ==
    ASSUME NEW job, job.axes \in Seq(Seq(Value))
    PROVE  /\ H!Combinations(job) \in Seq(Seq(Value))
           /\ ToSet(H!Combinations(job)) = Product(job)
           /\ (\A x \in DOMAIN job.axes : IsInjective(job.axes[x])) => IsInjective(H!Combinations(job))
<1> DEFINE axes == job.axes
           N == Len(axes)
           T == Seq(Seq(Value))
           More(cs, n) == FlattenSeq([c \in DOMAIN cs |->
                              [v \in DOMAIN axes[n] |-> Append(cs[c], axes[n][v])]])
           Following(f, n) == IF n = 0 THEN << <<>> >> ELSE More(f[n - 1], n)
           h == CHOOSE h : h = [n \in 0..N |-> Following(h, n)]
           unique == \A x \in DOMAIN axes : IsInjective(axes[x])
           Good(n) == {cs \in T : ToSet(cs) = Combos(axes, n) /\ (unique => IsInjective(cs))}
<1>1. axes \in Seq(Seq(Value)) /\ N \in Nat /\ DOMAIN axes = 1..N
  OBVIOUS
<1>2. H!Combinations(job) = h[N]
  BY GitHubSame DEF H!Combinations
<1> HIDE DEF axes, N, unique
<1>3. << <<>> >> \in Good(0)
  <2> DEFINE cs == << <<>> >>
  <2>1. cs \in T /\ ToSet(cs) = {<<>>}
    BY DEF ToSet
  <2>2. Combos(axes, 0) = {<<>>}
    <3>1. 1..0 = {} /\ <<>> \in [{} -> Value] /\ \A k \in [{} -> Value] : k = <<>>
      OBVIOUS
    <3> QED BY <3>1 DEF Combos
  <2>3. IsInjective(cs)
    BY DEF IsInjective
  <2> QED BY <2>1, <2>2, <2>3
<1>4. ASSUME NEW n \in 1..N, NEW cs \in Good(n - 1) PROVE More(cs, n) \in Good(n)
  <2>1. n \in 1..Len(axes) /\ cs \in T /\ ToSet(cs) = Combos(axes, n - 1)
    BY DEF N
  <2>2. /\ More(cs, n) \in T /\ ToSet(More(cs, n)) = Combos(axes, n)
        /\ IsInjective(cs) /\ IsInjective(axes[n]) => IsInjective(More(cs, n))
    BY <1>1, <2>1, MoreCombos
  <2>3. unique => IsInjective(cs) /\ IsInjective(axes[n])
    BY <1>1 DEF unique
  <2> HIDE DEF More
  <2> QED BY <2>2, <2>3
<1> HIDE DEF More, Good
<1> DEFINE GoodAt == [n \in Nat |-> Good(n)]
           Step == [p \in Nat \X T |-> More(p[2], p[1])]
<1>5. \A n \in 0..N : GoodAt[n] = Good(n) /\ n \in Nat /\ Good(n) \subseteq T
  BY DEF Good
<1>6. \A n \in 1..N : \A cs \in T : Step[<<n, cs>>] = More(cs, n)
  <2> SUFFICES ASSUME NEW n \in 1..N, NEW cs \in T PROVE Step[<<n, cs>>] = More(cs, n)
    OBVIOUS
  <2>1. <<n, cs>> \in Nat \X T /\ <<n, cs>>[1] = n /\ <<n, cs>>[2] = cs
    OBVIOUS
  <2> HIDE DEF T
  <2> QED BY <2>1
<1> HIDE DEF GoodAt, Step, T
<1>7. Preserves(Step, 0, N, GoodAt)
  <2> SUFFICES ASSUME NEW n \in (0 + 1)..N, NEW cs \in GoodAt[n - 1] PROVE Step[<<n, cs>>] \in GoodAt[n]
    BY DEF Preserves
  <2>1. n \in 1..N /\ n \in 0..N /\ n - 1 \in 0..N
    BY <1>1
  <2>2. cs \in Good(n - 1) /\ cs \in T
    BY <1>5, <2>1
  <2> QED BY <1>4, <1>5, <1>6, <2>1, <2>2
<1>8. PICK f : IsOver(f, 0, N) /\ f[0] = << <<>> >> /\ Follows(f, 0, N, Step) /\ Keeps(f, 0, N, GoodAt)
  <2>1. 0 \in Nat /\ 0 <= N /\ << <<>> >> \in GoodAt[0]
    BY <1>1, <1>3, <1>5
  <2> QED BY <1>1, <1>7, <2>1, RecursionKeeps, Zenon
<1>9. \A n \in 1..N : f[n] = More(f[n - 1], n)
  <2> SUFFICES ASSUME NEW n \in 1..N PROVE f[n] = More(f[n - 1], n)
    OBVIOUS
  <2>1. n \in (0 + 1)..N /\ n - 1 \in 0..N
    BY <1>1
  <2>2. f[n - 1] \in T
    BY <1>5, <1>8, <2>1 DEF Keeps
  <2> QED BY <1>6, <1>8, <2>1, <2>2 DEF Follows
<1>10. f = [n \in 0..N |-> Following(f, n)]
  <2>1. ASSUME NEW n \in 0..N PROVE f[n] = Following(f, n)
    <3>1. n = 0 \/ n \in 1..N
      BY <1>1
    <3> QED BY <1>1, <1>8, <1>9, <3>1
  <2> HIDE DEF Following
  <2> QED BY <1>8, <2>1 DEF IsOver
<1>11. h = [n \in 0..N |-> Following(h, n)]
  <2> HIDE DEF Following
  <2> QED BY <1>10
<1> HIDE DEF h
<1>12. f = h
  <2>1. \A n \in 0..N : h[n] = Following(h, n)
    <3> HIDE DEF Following
    <3> QED BY <1>11
  <2>2. IsOver(h, 0, N)
    <3> HIDE DEF Following
    <3> QED BY <1>11 DEF IsOver
  <2>3. 0 \in Nat /\ 0 <= N /\ f[0] = h[0]
    BY <1>1, <1>8, <2>1
  <2>4. Alike(f, h, 0, N)
    <3> SUFFICES ASSUME NEW n \in (0 + 1)..N, f[n - 1] = h[n - 1] PROVE f[n] = h[n]
      BY DEF Alike
    <3>1. n \in 1..N /\ n \in 0..N /\ n # 0
      BY <1>1
    <3>2. h[n] = More(h[n - 1], n)
      BY <2>1, <3>1
    <3> QED BY <1>9, <3>1, <3>2
  <2> QED BY <1>1, <1>8, <2>2, <2>3, <2>4, RecursionIsUnique
<1>13. f[N] \in Good(N)
  <2>1. N \in 0..N
    BY <1>1
  <2> QED BY <1>5, <1>8, <2>1 DEF Keeps
<1>14. Combos(axes, N) = Product(job)
  BY <1>1 DEF Combos, Product, axes
<1> QED BY <1>2, <1>12, <1>13, <1>14 DEF Good, T, unique, axes

LEMMA LastOfFacts ==
    ASSUME NEW S, NEW s \in Seq(S), NEW n \in Known(s)
    PROVE  /\ LastOf(s, n) \in S /\ LastOf(s, n).name = n
           /\ \E x \in DOMAIN s : LastOf(s, n) = s[x]
<1> DEFINE T == {x \in DOMAIN s : s[x].name = n}
<1>1. T \in SUBSET (0..Len(s)) /\ Len(s) \in Nat /\ T # {} /\ T \subseteq DOMAIN s
  BY DEF Known
<1>2. Max(T) \in T
  <2> HIDE DEF T
  <2> QED BY <1>1, MaxOfNat
<1> DEFINE m == Max(T)
<1>3. LastOf(s, n) = s[m]
  BY DEF LastOf
<1>4. m \in DOMAIN s /\ s[m].name = n
  <2> HIDE DEF m
  <2> QED BY <1>2 DEF m
<1> HIDE DEF m
<1>5. s[m] \in S
  BY <1>4
<1> QED BY <1>3, <1>4, <1>5

DoesParse(f) == {x \in DOMAIN f.jobs : H!Parses(f.jobs[x])}

\* Phase 1: every name that was parsed has a definition that parses.
LEMMA GitHubParsed ==
    ASSUME NEW f \in H!FileSet
    PROVE  /\ f.jobs \in Seq(H!JobSet)
           /\ H!Parsed(f) \in Seq(H!JobSet)
           /\ Known(H!Parsed(f)) = {f.jobs[x].name : x \in DoesParse(f)}
           /\ \A n \in Known(H!Parsed(f)) :
                /\ H!BaseOf(f, n) \in H!JobSet /\ H!BaseOf(f, n).name = n
                /\ \E x \in DoesParse(f) : H!BaseOf(f, n) = f.jobs[x]
<1> DEFINE p == H!Parsed(f)
           K == DoesParse(f)
<1>1. f.jobs \in Seq(H!JobSet) /\ K \in SUBSET DOMAIN f.jobs
  BY DEF H!FileSet, DoesParse
<1>2. p = Those(f.jobs, K)
  BY GitHubSame DEF H!Parsed, H!Select, DoesParse
<1> HIDE DEF p, K
<1>3. /\ p \in Seq(H!JobSet)
      /\ \A y \in DOMAIN p : \E x \in K : p[y] = f.jobs[x]
  BY <1>1, <1>2, ThoseSet
<1>4. Known(p) = {f.jobs[x].name : x \in K}
  BY <1>1, <1>2, ThoseNames
<1>5. ASSUME NEW n \in Known(p)
      PROVE  /\ H!BaseOf(f, n) \in H!JobSet /\ H!BaseOf(f, n).name = n
             /\ \E x \in K : H!BaseOf(f, n) = f.jobs[x]
  <2>1. H!BaseOf(f, n) = LastOf(p, n)
    BY GitHubSame DEF H!BaseOf, p
  <2>2. /\ LastOf(p, n) \in H!JobSet /\ LastOf(p, n).name = n
        /\ \E x \in DOMAIN p : LastOf(p, n) = p[x]
    BY <1>3, LastOfFacts
  <2> QED BY <1>3, <2>1, <2>2
<1> QED BY <1>1, <1>3, <1>4, <1>5 DEF p, K

LEMMA GitHubBaseNodes ==
    ASSUME NEW f \in H!FileSet
    PROVE  /\ H!BaseNodes(f) \in Seq(NodeSet)
           /\ Known(H!BaseNodes(f)) = Known(H!Parsed(f))
           /\ HasDuplicate(H!BaseNodes(f)) => HasDuplicate(f.jobs)
           /\ \A y \in DOMAIN H!BaseNodes(f) :
                H!BaseNodes(f)[y].depends = H!BaseOf(f, H!BaseNodes(f)[y].name).needs
<1> DEFINE K == {x \in DOMAIN f.jobs : f.jobs[x].name \in Known(H!Parsed(f))}
           known == Those(f.jobs, K)
           bs == H!BaseNodes(f)
<1>1. f.jobs \in Seq(H!JobSet) /\ K \in SUBSET DOMAIN f.jobs
  BY GitHubParsed
<1>2. bs = [x \in DOMAIN known |->
                [name |-> known[x].name, depends |-> H!BaseOf(f, known[x].name).needs]]
  BY GitHubSame DEF H!BaseNodes, H!Select
<1>3. {f.jobs[x].name : x \in K} = Known(H!Parsed(f))
  <2>1. Known(H!Parsed(f)) = {f.jobs[x].name : x \in DoesParse(f)}
    BY GitHubParsed
  <2> QED BY <2>1 DEF DoesParse
<1> HIDE DEF K
<1>4. known \in Seq(H!JobSet) /\ Known(known) = Known(H!Parsed(f))
  <2>1. known \in Seq(H!JobSet)
    BY <1>1, ThoseSet
  <2>2. Known(known) = {f.jobs[x].name : x \in K}
    BY <1>1, ThoseNames
  <2> QED BY <1>3, <2>1, <2>2
<1>9. HasDuplicate(known) => HasDuplicate(f.jobs)
  <2>1. HasDuplicate(known) => \E x, y \in K : x # y /\ f.jobs[x].name = f.jobs[y].name
    BY <1>1, ThoseNames
  <2> QED BY <1>1, <2>1 DEF HasDuplicate
<1> HIDE DEF known, bs
<1>5. ASSUME NEW x \in DOMAIN known
      PROVE  /\ bs[x].name = known[x].name /\ bs[x].depends = H!BaseOf(f, known[x].name).needs
             /\ bs[x] \in NodeSet
  <2>1. known[x].name \in Known(H!Parsed(f))
    BY <1>4 DEF Known
  <2>2. H!BaseOf(f, known[x].name) \in H!JobSet
    BY <2>1, GitHubParsed
  <2>3. known[x] \in H!JobSet
    BY <1>4
  <2>4. known[x].name \in Name /\ H!BaseOf(f, known[x].name).needs \in Seq(Name)
    BY <2>2, <2>3 DEF H!JobSet
  <2> QED BY <1>2, <2>4 DEF NodeSet
<1>6. bs = [x \in DOMAIN known |-> bs[x]]
  BY <1>2
<1>7. bs \in Seq(NodeSet) /\ DOMAIN bs = DOMAIN known
  BY <1>4, <1>5, <1>6, ArrayOver
<1>8. Known(bs) = Known(known)
  BY <1>5, <1>7 DEF Known
<1>10. HasDuplicate(bs) => HasDuplicate(known)
  BY <1>5, <1>7 DEF HasDuplicate
<1> QED BY <1>4, <1>5, <1>7, <1>8, <1>9, <1>10 DEF bs

LEMMA GitHubKept ==
    ASSUME NEW f \in H!FileSet
    PROVE  /\ H!Kept(f) \in Seq(NodeSet)
           /\ Known(H!Kept(f)) = Known(H!Parsed(f)) \ H!LeftOut(f)
           /\ HasDuplicate(H!Kept(f)) => HasDuplicate(H!BaseNodes(f))
<1> DEFINE bs == H!BaseNodes(f)
           K == {x \in DOMAIN bs : bs[x].name \notin H!LeftOut(f)}
<1>1. bs \in Seq(NodeSet) /\ Known(bs) = Known(H!Parsed(f))
  BY GitHubBaseNodes
<1>2. H!Kept(f) = Those(bs, K)
  BY GitHubSame DEF H!Kept, H!Without
<1> HIDE DEF bs
<1>3. K \in SUBSET DOMAIN bs /\ {bs[x].name : x \in K} = Known(bs) \ H!LeftOut(f)
  BY DEF Known
<1> HIDE DEF K
<1>4. Those(bs, K) \in Seq(NodeSet)
  BY <1>1, <1>3, ThoseSet
<1>5. Known(Those(bs, K)) = {bs[x].name : x \in K}
  BY <1>1, <1>3, ThoseNames
<1>6. HasDuplicate(Those(bs, K)) => HasDuplicate(bs)
  <2>1. HasDuplicate(Those(bs, K)) => \E x, y \in K : x # y /\ bs[x].name = bs[y].name
    BY <1>1, <1>3, ThoseNames
  <2> QED BY <1>3, <2>1 DEF HasDuplicate
<1> QED BY <1>1, <1>2, <1>3, <1>4, <1>5, <1>6 DEF bs

\* The combinations of a job that was parsed.
CombosOf(f, b) == ToSet(H!Combinations(H!BaseOf(f, b)))

LEMMA GitHubExpansion ==
    ASSUME NEW f \in H!FileSet, NEW b \in Known(H!Parsed(f))
    PROVE  /\ H!Expansion(f, b) \in Seq({b} \X CombosOf(f, b))
           /\ ToSet(H!Expansion(f, b)) = {b} \X CombosOf(f, b)
           /\ CombosOf(f, b) = Product(H!BaseOf(f, b))
           /\ (\A x \in DOMAIN H!BaseOf(f, b).axes : IsInjective(H!BaseOf(f, b).axes[x]))
                  => IsInjective(H!Expansion(f, b))
<1> DEFINE job == H!BaseOf(f, b)
           cs == H!Combinations(job)
           e == H!Expansion(f, b)
<1>1. job.axes \in Seq(Seq(Value))
  BY GitHubParsed DEF H!JobSet
<1>2. /\ cs \in Seq(Seq(Value)) /\ ToSet(cs) = Product(job)
      /\ (\A x \in DOMAIN job.axes : IsInjective(job.axes[x])) => IsInjective(cs)
  BY <1>1, CombinationFacts
<1>3. e = [c \in DOMAIN cs |-> <<b, cs[c]>>] /\ CombosOf(f, b) = ToSet(cs)
  BY DEF H!Expansion, CombosOf
<1> HIDE DEF cs, e
<1>4. \A c \in DOMAIN cs : e[c] = <<b, cs[c]>> /\ e[c] \in {b} \X ToSet(cs)
  BY <1>3 DEF ToSet
<1>5. e = [c \in DOMAIN cs |-> e[c]]
  BY <1>3
<1>6. e \in Seq({b} \X ToSet(cs)) /\ DOMAIN e = DOMAIN cs
  BY <1>2, <1>4, <1>5, ArrayOver
<1>7. ToSet(e) = {b} \X ToSet(cs)
  <2>1. ToSet(e) = {e[c] : c \in DOMAIN cs}
    BY <1>6 DEF ToSet
  <2>2. ASSUME NEW q \in {b} \X ToSet(cs) PROVE q \in ToSet(e)
    <3>1. PICK c \in DOMAIN cs : q = <<b, cs[c]>>
      BY DEF ToSet
    <3> QED BY <1>4, <2>1, <3>1
  <2>3. \A q \in ToSet(e) : q \in {b} \X ToSet(cs)
    BY <1>4, <2>1
  <2> QED BY <2>2, <2>3
<1>8. IsInjective(cs) => IsInjective(e)
  BY <1>4, <1>6 DEF IsInjective
<1> QED BY <1>2, <1>3, <1>6, <1>7, <1>8 DEF e

GitHubNode(f, b, c) == [name |-> <<b, c>>, depends |-> H!Resolved(f, b)]

\* The nodes that a base job expands to.
GitHubNodesOf(f, b) ==
    LET names == H!Expansion(f, b) IN
    [x \in DOMAIN names |-> [name |-> names[x], depends |-> H!Resolved(f, b)]]

\* Phase 3: one node for each combination of each job that is kept.
LEMMA GitHubNodes ==
    ASSUME NEW f \in H!FileSet
    PROVE  LET All == UNION {{GitHubNode(f, b, c) : c \in CombosOf(f, b)} : b \in Known(H!Kept(f))} IN
           /\ H!Nodes(f) \in Seq(All) /\ ToSet(H!Nodes(f)) = All
           /\ ~HasDuplicate(H!Kept(f)) /\ (\A b \in Known(H!Kept(f)) : IsInjective(H!Expansion(f, b)))
                  => ~HasDuplicate(H!Nodes(f))
<1> DEFINE All == UNION {{GitHubNode(f, b, c) : c \in CombosOf(f, b)} : b \in Known(H!Kept(f))}
           kept == H!Kept(f)
           rows == [x \in DOMAIN kept |-> GitHubNodesOf(f, kept[x].name)]
<1>1. kept \in Seq(NodeSet) /\ Known(kept) \subseteq Known(H!Parsed(f))
  BY GitHubKept
<1>2. H!Nodes(f) = FlattenSeq(rows)
  BY GitHubSame DEF H!Nodes, GitHubNodesOf
<1>3. ASSUME NEW b \in Known(kept)
      PROVE  /\ GitHubNodesOf(f, b) \in Seq(All)
             /\ ToSet(GitHubNodesOf(f, b)) = {GitHubNode(f, b, c) : c \in CombosOf(f, b)}
             /\ \A k \in ToSet(GitHubNodesOf(f, b)) : k.name[1] = b
             /\ IsInjective(H!Expansion(f, b)) => IsInjective(GitHubNodesOf(f, b))
  <2> DEFINE names == H!Expansion(f, b)
             ns == GitHubNodesOf(f, b)
             Mine == {GitHubNode(f, b, c) : c \in CombosOf(f, b)}
  <2>1. names \in Seq({b} \X CombosOf(f, b)) /\ ToSet(names) = {b} \X CombosOf(f, b)
    BY <1>1, GitHubExpansion
  <2>2. ns = [x \in DOMAIN names |-> [name |-> names[x], depends |-> H!Resolved(f, b)]]
    BY DEF GitHubNodesOf
  <2> HIDE DEF names, ns
  <2>3. Mine \subseteq All
    OBVIOUS
  <2> HIDE DEF All
  <2>4. ASSUME NEW x \in DOMAIN names PROVE ns[x] \in Mine
    <3>1. PICK c \in CombosOf(f, b) : names[x] = <<b, c>>
      BY <2>1
    <3>2. ns[x] = GitHubNode(f, b, c)
      BY <2>2, <3>1 DEF GitHubNode
    <3> QED BY <3>2
  <2>5. ASSUME NEW c \in CombosOf(f, b) PROVE \E x \in DOMAIN names : ns[x] = GitHubNode(f, b, c)
    <3>1. PICK x \in DOMAIN names : names[x] = <<b, c>>
      BY <2>1 DEF ToSet
    <3> QED BY <2>2, <3>1 DEF GitHubNode
  <2>6. ns = [x \in DOMAIN names |-> ns[x]]
    BY <2>2
  <2>7. \A x \in DOMAIN names : ns[x] \in All
    BY <2>3, <2>4
  <2>8. ns \in Seq(All) /\ DOMAIN ns = DOMAIN names
    BY <2>1, <2>6, <2>7, ArrayOver
  <2>9. ToSet(ns) = Mine
    BY <2>4, <2>5, <2>8 DEF ToSet
  <2>10. \A k \in ToSet(ns) : k.name[1] = b
    BY <2>9 DEF GitHubNode
  <2>11. IsInjective(names) => IsInjective(ns)
    <3>1. \A x \in DOMAIN names : ns[x].name = names[x]
      BY <2>2
    <3> QED BY <2>8, <3>1 DEF IsInjective
  <2> QED BY <2>8, <2>9, <2>10, <2>11 DEF ns, names
<1> HIDE DEF kept
<1>4. rows = [x \in DOMAIN kept |-> rows[x]] /\ \A x \in DOMAIN kept : rows[x] = GitHubNodesOf(f, kept[x].name)
  OBVIOUS
<1> HIDE DEF rows, All
<1>5. \A x \in DOMAIN kept : kept[x].name \in Known(kept)
  BY DEF Known
<1>6. rows \in Seq(Seq(All)) /\ DOMAIN rows = DOMAIN kept
  <2>1. \A x \in DOMAIN kept : rows[x] \in Seq(All)
    BY <1>3, <1>4, <1>5
  <2> QED BY <1>1, <1>4, <2>1, ArrayOver
<1>7. FlattenSeq(rows) \in Seq(All) /\ ToSet(FlattenSeq(rows)) = UNION {ToSet(rows[x]) : x \in DOMAIN rows}
  BY <1>6, FlattenFacts
<1>8. UNION {ToSet(rows[x]) : x \in DOMAIN rows} = All
  <2> DEFINE Mine(b) == {GitHubNode(f, b, c) : c \in CombosOf(f, b)}
  <2>1. \A x \in DOMAIN kept : ToSet(rows[x]) = Mine(kept[x].name)
    BY <1>3, <1>4, <1>5
  <2>2. All = UNION {Mine(b) : b \in Known(kept)}
    BY DEF All, kept
  <2> HIDE DEF Mine
  <2>3. {ToSet(rows[x]) : x \in DOMAIN rows} = {Mine(b) : b \in Known(kept)}
    BY <1>6, <2>1 DEF Known
  <2> QED BY <2>2, <2>3
<1>9. ASSUME ~HasDuplicate(kept), \A b \in Known(kept) : IsInjective(H!Expansion(f, b))
      PROVE  ~HasDuplicate(FlattenSeq(rows))
  <2>1. \A x \in DOMAIN rows : IsInjective(rows[x])
    BY <1>3, <1>4, <1>5, <1>6, <1>9
  <2>2. \A x \in DOMAIN rows : \A k \in ToSet(rows[x]) : k.name[1] = kept[x].name
    BY <1>3, <1>4, <1>5, <1>6
  <2>3. \A x, y \in DOMAIN rows : x # y => kept[x].name # kept[y].name
    BY <1>6, <1>9 DEF HasDuplicate
  <2>4. \A x, y \in DOMAIN rows : x # y => ToSet(rows[x]) \cap ToSet(rows[y]) = {}
    BY <2>2, <2>3
  <2>5. Apart(rows)
    BY <2>1, <2>4 DEF Apart
  <2> DEFINE ns == FlattenSeq(rows)
  <2>6. IsInjective(ns)
    BY <1>6, <2>5, FlattenFacts
  <2>7. \A x \in DOMAIN ns : ns[x] \in All
    BY <1>7
  <2>8. \A k, m \in All : k.name = m.name => k = m
    <3> SUFFICES ASSUME NEW k \in All, NEW m \in All, k.name = m.name PROVE k = m
      OBVIOUS
    <3>1. PICK b \in Known(H!Kept(f)) : \E c \in CombosOf(f, b) : k = GitHubNode(f, b, c)
      BY DEF All, kept
    <3>2. PICK c \in CombosOf(f, b) : k = GitHubNode(f, b, c)
      BY <3>1
    <3>3. PICK d \in Known(H!Kept(f)) : \E e \in CombosOf(f, d) : m = GitHubNode(f, d, e)
      BY DEF All, kept
    <3>4. PICK e \in CombosOf(f, d) : m = GitHubNode(f, d, e)
      BY <3>3
    <3>5. k.name = <<b, c>> /\ m.name = <<d, e>>
      BY <3>2, <3>4 DEF GitHubNode
    <3>6. b = d /\ c = e
      <4>1. <<b, c>> = <<d, e>>
        BY <3>5
      <4>2. \A x, y, z, u : <<x, y>> = <<z, u>> => x = z /\ y = u
        OBVIOUS
      <4> QED BY <4>1, <4>2, Zenon
    <3> QED BY <3>2, <3>4, <3>6
  <2> HIDE DEF ns
  <2>9. ~HasDuplicate(ns)
    BY <2>6, <2>7, <2>8 DEF HasDuplicate, IsInjective
  <2> QED BY <2>9 DEF ns
<1> QED BY <1>2, <1>7, <1>8, <1>9 DEF All, kept

\* What needs: of a job that expands stands for.
LEMMA GitHubResolved ==
    ASSUME NEW f \in H!FileSet, ~H!UnknownNeed(f), NEW b \in Known(H!Kept(f)), CombosOf(f, b) # {}
    PROVE  LET needs == ToSet(H!BaseOf(f, b).needs) IN
           /\ needs \subseteq Known(H!Kept(f))
           /\ ToSet(H!Resolved(f, b)) = UNION {{n} \X CombosOf(f, n) : n \in needs}
           /\ H!Resolved(f, b) \in Seq(ToSet(H!Resolved(f, b)))
<1> DEFINE needs == H!BaseOf(f, b).needs
           rows == [x \in DOMAIN needs |-> H!Expansion(f, needs[x])]
           All == UNION {{n} \X CombosOf(f, n) : n \in ToSet(needs)}
<1>1. b \in Known(H!Parsed(f)) /\ Known(H!Kept(f)) \subseteq Known(H!Parsed(f))
  BY GitHubKept
<1>2. H!Expansion(f, b) # <<>>
  <2>1. ToSet(H!Expansion(f, b)) = {b} \X CombosOf(f, b)
    BY <1>1, GitHubExpansion
  <2>2. {b} \X CombosOf(f, b) # {}
    <3>1. PICK c \in CombosOf(f, b) : TRUE
      OBVIOUS
    <3>2. <<b, c>> \in {b} \X CombosOf(f, b)
      OBVIOUS
    <3> QED BY <3>2
  <2> QED BY <2>1, <2>2 DEF ToSet
<1>3. ToSet(needs) \subseteq Known(H!Kept(f))
  <2>1. b \in H!Known(H!Kept(f)) /\ H!ToSet(needs) = ToSet(needs)
    BY GitHubSame DEF H!ToSet, ToSet
  <2> QED BY <1>2, <2>1, GitHubSame DEF H!UnknownNeed
<1>4. needs \in Seq(Name)
  BY <1>1, GitHubParsed DEF H!JobSet
<1>5. H!Resolved(f, b) = FlattenSeq(rows)
  BY GitHubSame DEF H!Resolved
<1>6. rows = [x \in DOMAIN needs |-> rows[x]] /\ \A x \in DOMAIN needs : rows[x] = H!Expansion(f, needs[x])
  OBVIOUS
<1> HIDE DEF needs, rows, All
<1>7. ASSUME NEW x \in DOMAIN needs
      PROVE  /\ needs[x] \in ToSet(needs)
             /\ rows[x] \in Seq(All) /\ ToSet(rows[x]) = {needs[x]} \X CombosOf(f, needs[x])
  <2>1. needs[x] \in ToSet(needs)
    BY DEF ToSet
  <2>2. needs[x] \in Known(H!Parsed(f))
    BY <1>1, <1>3, <2>1
  <2> DEFINE Mine == {needs[x]} \X CombosOf(f, needs[x])
  <2>3. H!Expansion(f, needs[x]) \in Seq(Mine) /\ ToSet(H!Expansion(f, needs[x])) = Mine
    BY <2>2, GitHubExpansion
  <2>4. Mine \subseteq All
    BY <2>1 DEF All
  <2> HIDE DEF Mine
  <2>5. H!Expansion(f, needs[x]) \in Seq(All)
    BY <2>3, <2>4
  <2> QED BY <1>6, <2>1, <2>3, <2>5 DEF Mine
<1>8. rows \in Seq(Seq(All)) /\ DOMAIN rows = DOMAIN needs
  <2>1. \A x \in DOMAIN needs : rows[x] \in Seq(All)
    BY <1>7
  <2> QED BY <1>4, <1>6, <2>1, ArrayOver
<1>9. /\ FlattenSeq(rows) \in Seq(All)
      /\ ToSet(FlattenSeq(rows)) = UNION {ToSet(rows[x]) : x \in DOMAIN rows}
  BY <1>8, FlattenFacts
<1>10. UNION {ToSet(rows[x]) : x \in DOMAIN rows} = All
  <2> DEFINE Mine(n) == {n} \X CombosOf(f, n)
  <2>1. \A x \in DOMAIN needs : ToSet(rows[x]) = Mine(needs[x])
    BY <1>7
  <2>2. All = UNION {Mine(n) : n \in ToSet(needs)}
    BY DEF All
  <2> HIDE DEF Mine
  <2>3. {ToSet(rows[x]) : x \in DOMAIN rows} = {Mine(n) : n \in ToSet(needs)}
    <3>1. ToSet(needs) = {needs[x] : x \in DOMAIN needs}
      BY DEF ToSet
    <3> QED BY <1>8, <2>1, <3>1
  <2> QED BY <2>2, <2>3
<1> QED BY <1>3, <1>5, <1>9, <1>10 DEF All, needs

GitHubOrder(f) ==
    ByLevel(H!Nodes(f), LevelIn(H!Nodes(f)), MaxLevel(H!Nodes(f), LevelIn(H!Nodes(f))))

LEMMA GitHubReturns ==
    ASSUME IInv, HasPipeline, provider = "github-actions"
    PROVE  /\ file \in H!FileSet /\ ~H!UnknownNeed(file)
           /\ ~HasDuplicate(H!Nodes(file)) /\ ~HasUnknown(H!Nodes(file)) /\ ~HasCycle(H!Nodes(file))
           /\ out.jobs = [x \in DOMAIN GitHubOrder(file) |->
                  H!JobOf(file, GitHubOrder(file)[x], LevelIn(H!Nodes(file))[GitHubOrder(file)[x].name])]
           /\ out.skipped = H!SkippedIn(file)
           /\ ~(out.jobs = <<>> /\ out.skipped = <<>>)
<1> DEFINE ns == H!Nodes(file)
           order == GitHubOrder(file)
           jobs == [x \in DOMAIN order |-> H!JobOf(file, order[x], LevelIn(ns)[order[x].name])]
           all == [ok |-> TRUE, jobs |-> jobs, skipped |-> H!SkippedIn(file),
                   findings |-> H!FlattenSeq([x \in DOMAIN order |->
                      H!FindingsOf(file, H!BaseOf(file, order[x].name[1]), order[x].name[2])])]
<1>1. file \in H!FileSet /\ out = H!Parse(file) /\ out.ok
  BY FilesAssumption DEF IInv, HasPipeline
<1>2. H!Parse(file) = IF H!UnknownNeed(file) \/ H!LevelsFail(ns) THEN Rejected ELSE Finished(all)
  BY GitHubSame, GitHubGraph DEF H!Parse, GitHubOrder
<1>3. Rejected.ok = FALSE
  BY DEF Rejected
<1> HIDE DEF ns, order, jobs
<1>4. all.jobs = jobs /\ all.skipped = H!SkippedIn(file)
  OBVIOUS
<1> HIDE DEF all
<1>5. ~H!UnknownNeed(file) /\ ~H!LevelsFail(ns) /\ out = Finished(all)
  BY <1>1, <1>2, <1>3
<1>6. out = all /\ ~(all.jobs = <<>> /\ all.skipped = <<>>)
  BY <1>1, <1>3, <1>5 DEF Finished
<1>7. ~HasDuplicate(ns) /\ ~HasUnknown(ns) /\ ~HasCycle(ns)
  BY <1>5, GitHubGraph DEF H!LevelsFail
<1> QED BY <1>1, <1>4, <1>5, <1>6, <1>7 DEF ns, order, jobs

\* The jobs that are returned are the nodes.
LEMMA GitHubJobs ==
    ASSUME IInv, HasPipeline, provider = "github-actions"
    PROVE  /\ AreTheNodes(out.jobs, H!Nodes(file))
           /\ \A y \in DOMAIN out.jobs : \E node \in ToSet(H!Nodes(file)) :
                out.jobs[y].name = node.name /\ out.jobs[y].depends = node.depends
<1> DEFINE ns == H!Nodes(file)
           order == GitHubOrder(file)
           jobs == out.jobs
           S == UNION {{GitHubNode(file, b, c) : c \in CombosOf(file, b)} : b \in Known(H!Kept(file))}
<1>1. /\ file \in H!FileSet
      /\ ~HasUnknown(ns) /\ ~HasCycle(ns)
      /\ jobs = [x \in DOMAIN order |-> H!JobOf(file, order[x], LevelIn(ns)[order[x].name])]
  BY GitHubReturns
<1>2. ns \in Seq(S)
  BY <1>1, GitHubNodes
<1> HIDE DEF ns, S
<1>3. order \in Seq(S) /\ Permutes(order, ns)
  BY <1>1, <1>2, OrderFacts DEF GitHubOrder, ns
<1> HIDE DEF order, jobs
<1>4. DOMAIN jobs = DOMAIN order /\ \A y \in DOMAIN order :
         jobs[y].name = order[y].name /\ jobs[y].depends = order[y].depends
  BY <1>1 DEF H!JobOf
<1>5. AreTheNodes(jobs, ns)
  BY <1>3, <1>4, PermutedNodes
<1>6. ToSet(order) = ToSet(ns)
  BY <1>3, PermutesFacts
<1>7. \A y \in DOMAIN order : order[y] \in ToSet(ns)
  BY <1>6 DEF ToSet
<1> QED BY <1>4, <1>5, <1>7 DEF ns, jobs

\* The jobs of the pipeline are the combinations of the base jobs that are kept.
LEMMA GitHubNames ==
    ASSUME IInv, HasPipeline, provider = "github-actions"
    PROVE  /\ JobNames = {n \in JobNames : n[1] \in Known(H!Kept(file))}
           /\ \A b \in Known(H!Kept(file)) : {n \in JobNames : n[1] = b} = {b} \X CombosOf(file, b)
           /\ BaseNames = {b \in Known(H!Kept(file)) : CombosOf(file, b) # {}}
<1> DEFINE ns == H!Nodes(file)
           B == Known(H!Kept(file))
           Mine(b) == {GitHubNode(file, b, c) : c \in CombosOf(file, b)}
<1>1. file \in H!FileSet
  BY GitHubReturns
<1>2. ToSet(ns) = UNION {Mine(b) : b \in B}
  BY <1>1, GitHubNodes
<1>3. JobNames = Known(ns)
  <2>1. AreTheNodes(out.jobs, ns)
    BY GitHubJobs
  <2> HIDE DEF ns
  <2> QED BY <2>1, AreTheNodesFacts DEF JobNames
<1>4. Known(ns) = {node.name : node \in ToSet(ns)}
  BY DEF Known, ToSet
<1> HIDE DEF ns, B
<1>5. \A n : n \in JobNames <=> \E b \in B : \E c \in CombosOf(file, b) : n = <<b, c>>
  <2>1. \A b, c : GitHubNode(file, b, c).name = <<b, c>>
    BY DEF GitHubNode
  <2>2. \A m : m \in ToSet(ns) <=> \E b \in B : \E c \in CombosOf(file, b) : m = GitHubNode(file, b, c)
    BY <1>2
  <2>3. \A n : n \in JobNames <=> \E m \in ToSet(ns) : n = m.name
    BY <1>3, <1>4
  <2>4. ASSUME NEW n \in JobNames PROVE \E b \in B : \E c \in CombosOf(file, b) : n = <<b, c>>
    <3>1. PICK m \in ToSet(ns) : n = m.name
      BY <2>3
    <3>2. PICK b \in B : \E c \in CombosOf(file, b) : m = GitHubNode(file, b, c)
      BY <2>2
    <3>3. PICK c \in CombosOf(file, b) : m = GitHubNode(file, b, c)
      BY <3>2
    <3> QED BY <2>1, <3>1, <3>3
  <2>5. ASSUME NEW b \in B, NEW c \in CombosOf(file, b) PROVE <<b, c>> \in JobNames
    <3>1. GitHubNode(file, b, c) \in ToSet(ns)
      BY <2>2
    <3> QED BY <2>1, <2>3, <3>1
  <2> QED BY <2>4, <2>5
<1>6. \A n \in JobNames : n[1] \in B
  BY <1>5
<1>7. ASSUME NEW b \in B PROVE {n \in JobNames : n[1] = b} = {b} \X CombosOf(file, b)
  <2>1. ASSUME NEW n \in JobNames, n[1] = b PROVE n \in {b} \X CombosOf(file, b)
    BY <1>5, <2>1
  <2>2. ASSUME NEW n \in {b} \X CombosOf(file, b) PROVE n \in JobNames /\ n[1] = b
    <3>1. PICK c \in CombosOf(file, b) : n = <<b, c>>
      OBVIOUS
    <3> QED BY <1>5, <3>1
  <2> QED BY <2>1, <2>2
<1>8. BaseNames = {n[1] : n \in JobNames}
  BY DEF BaseNames
<1>9. ASSUME NEW b \in B, CombosOf(file, b) # {} PROVE b \in BaseNames
  <2>1. PICK c \in CombosOf(file, b) : TRUE
    BY <1>9
  <2>2. <<b, c>> \in JobNames /\ <<b, c>>[1] = b
    BY <1>5, <2>1
  <2> QED BY <1>8, <2>2
<1>10. ASSUME NEW b \in BaseNames PROVE b \in B /\ CombosOf(file, b) # {}
  <2>1. PICK n \in JobNames : n[1] = b
    BY <1>8
  <2>2. PICK d \in B : \E c \in CombosOf(file, d) : n = <<d, c>>
    BY <1>5
  <2> QED BY <2>1, <2>2
<1> QED BY <1>6, <1>7, <1>9, <1>10 DEF B

\* The jobs of a base job and what each job waits for.
LEMMA GitHubCovers ==
    ASSUME IInv, HasPipeline, provider = "github-actions"
    PROVE  /\ \A b \in BaseNames :
                {n \in JobNames : n[1] = b} = {b} \X Product(H!BaseOf(file, b))
           /\ \A x \in DOMAIN out.jobs :
                ToSet(out.jobs[x].depends) =
                  {n \in JobNames : n[1] \in ToSet(H!BaseOf(file, out.jobs[x].name[1]).needs)}
<1> DEFINE B == Known(H!Kept(file))
<1>1. file \in H!FileSet /\ ~H!UnknownNeed(file)
  BY GitHubReturns
<1>2. B \subseteq Known(H!Parsed(file))
  BY <1>1, GitHubKept
<1>3. /\ \A n \in JobNames : n[1] \in B
      /\ \A b \in B : {n \in JobNames : n[1] = b} = {b} \X CombosOf(file, b)
      /\ BaseNames = {b \in B : CombosOf(file, b) # {}}
  BY GitHubNames
<1>4. \A b \in B : CombosOf(file, b) = Product(H!BaseOf(file, b))
  BY <1>1, <1>2, GitHubExpansion
<1>5. \A b \in BaseNames : {n \in JobNames : n[1] = b} = {b} \X Product(H!BaseOf(file, b))
  BY <1>3, <1>4
<1>6. ASSUME NEW x \in DOMAIN out.jobs
      PROVE  ToSet(out.jobs[x].depends) =
                {n \in JobNames : n[1] \in ToSet(H!BaseOf(file, out.jobs[x].name[1]).needs)}
  <2>1. PICK node \in ToSet(H!Nodes(file)) :
            out.jobs[x].name = node.name /\ out.jobs[x].depends = node.depends
    BY GitHubJobs
  <2>2. PICK b \in B : \E c \in CombosOf(file, b) : node = GitHubNode(file, b, c)
    <3>1. ToSet(H!Nodes(file)) =
            UNION {{GitHubNode(file, d, c) : c \in CombosOf(file, d)} : d \in B}
      BY <1>1, GitHubNodes
    <3> QED BY <2>1, <3>1
  <2>3. out.jobs[x].name[1] = b /\ out.jobs[x].depends = H!Resolved(file, b)
    BY <2>1, <2>2 DEF GitHubNode
  <2> DEFINE needs == ToSet(H!BaseOf(file, b).needs)
  <2>4. needs \subseteq B /\ ToSet(H!Resolved(file, b)) = UNION {{n} \X CombosOf(file, n) : n \in needs}
    BY <1>1, <2>2, GitHubResolved
  <2> HIDE DEF needs, B
  <2>5. UNION {{n} \X CombosOf(file, n) : n \in needs} = {n \in JobNames : n[1] \in needs}
    <3>1. \A n \in needs : {n} \X CombosOf(file, n) = {m \in JobNames : m[1] = n}
      BY <1>3, <2>4
    <3> DEFINE Mine(n) == {n} \X CombosOf(file, n)
    <3>2. \A n \in needs : \A q : q \in Mine(n) <=> q \in JobNames /\ q[1] = n
      BY <3>1
    <3> HIDE DEF Mine
    <3>3. UNION {Mine(n) : n \in needs} = {q \in JobNames : q[1] \in needs}
      BY <3>2
    <3> QED BY <3>3 DEF Mine
  <2> QED BY <2>3, <2>4, <2>5 DEF needs
<1> QED BY <1>5, <1>6

\* Every combination of a matrix is a job of its own, and whoever needs the job waits
\* for each of them, for every file (githubactions/parser.go:48-51, matrix.go:11-18).
THEOREM CombinationsAreCovered == LocalSpec => []NeedsCoverEveryCombination
<1>1. IInv => NeedsCoverEveryCombination
  <2> SUFFICES ASSUME IInv, outcome = "parsed", provider = "github-actions"
               PROVE  /\ \A b \in BaseNames :
                            {n \in JobNames : n[1] = b} = {b} \X Product(H!BaseOf(file, b))
                      /\ \A x \in DOMAIN out.jobs :
                            ToSet(out.jobs[x].depends) =
                              {n \in JobNames : n[1] \in ToSet(H!BaseOf(file, out.jobs[x].name[1]).needs)}
    BY DEF NeedsCoverEveryCombination, IsParsed
  <2>1. HasPipeline
    BY DEF HasPipeline
  <2> QED BY <2>1, GitHubCovers
<1> QED BY <1>1, InductiveInvariant, PTL

-----------------------------------------------------------------------------
(* CircleCI *)

LEMMA CircleCISame ==
    /\ \A s, K : C!Those(s, K) = Those(s, K)
    /\ \A s : C!Known(s) = Known(s)
    /\ \A s : C!ToSet(s) = ToSet(s)
    /\ \A s : C!Named(s) = Named(s)
    /\ \A p : C!Finished(p) = Finished(p)
    /\ C!Rejected = Rejected /\ C!NoJobs = NoJobs
    /\ \A s, n : C!LastOf(s, n) = LastOf(s, n)
    /\ \A s, S : C!Without(s, S) = Without(s, S)
    /\ C!NodeSet = NodeSet
BY DEF C!Those, Those, C!Known, Known, C!Named, Named, C!Finished, Finished, C!Rejected, Rejected,
   C!LastOf, LastOf, C!Max, Max, C!Without, Without, C!ToSet, ToSet, C!NoJobs, NoJobs, C!NodeSet, NodeSet

LEMMA CircleCIGraph ==
    /\ \A s : C!LevelsFail(s) = LevelsFail(s)
    /\ \A s : C!LevelIn(s) = LevelIn(s)
    /\ \A s, l : C!MaxLevel(s, l) = MaxLevel(s, l)
    /\ \A s, l, m : C!ByLevel(s, l, m) = ByLevel(s, l, m)
    /\ \A s, S : C!DoomedIn(s, S) = DoomedIn(s, S)
BY DEF C!LevelsFail, LevelsFail, C!HasDuplicate, HasDuplicate, C!HasUnknown, HasUnknown, C!HasCycle, HasCycle,
   C!LevelIn, LevelIn, C!MaxLevel, MaxLevel, C!ByLevel, ByLevel, C!DoomedIn, DoomedIn, C!ClosedIn, ClosedIn,
   C!DepsIn, DepsIn, C!Those, Those, C!Known, Known, C!Max, Max, C!ToSet, ToSet

LEMMA NamedFacts ==
    ASSUME NEW S, NEW s \in Seq(S)
    PROVE  Named(s) \in Seq(Known(s)) /\ ToSet(Named(s)) = Known(s)
<1> DEFINE t == Named(s)
<1>1. t = [x \in DOMAIN s |-> t[x]] /\ \A x \in DOMAIN s : t[x] = s[x].name /\ t[x] \in Known(s)
  BY DEF Named, Known
<1> HIDE DEF t
<1>2. t \in Seq(Known(s)) /\ DOMAIN t = DOMAIN s
  BY <1>1, ArrayOver
<1>3. ToSet(t) = Known(s)
  BY <1>1, <1>2 DEF ToSet, Known
<1> QED BY <1>2, <1>3 DEF t

LEMMA CircleCIWorkflows ==
    ASSUME NEW f \in C!FileSet, ~f.hasWorkflows => Build \in Name
    PROVE  LET ws == C!Workflows(f) IN
           /\ Len(ws) \in Nat /\ DOMAIN ws = 1..Len(ws)
           /\ \A v \in DOMAIN ws : ws[v].refs \in Seq(NodeSet)
<1> DEFINE ws == f.workflows
           W == [name : STRING, refs : Seq(NodeSet)]
<1>1. ws \in Seq(W) /\ f.hasWorkflows \in BOOLEAN
  BY CircleCISame DEF C!FileSet
<1> HIDE DEF ws
<1>2. CASE f.hasWorkflows
  <2> DEFINE t == [w \in DOMAIN ws |-> LastOf(ws, ws[w].name)]
  <2>1. C!Workflows(f) = t
    BY <1>2, CircleCISame DEF C!Workflows, ws
  <2> HIDE DEF W
  <2>2. ASSUME NEW w \in DOMAIN ws PROVE LastOf(ws, ws[w].name) \in W
    <3>1. ws[w].name \in Known(ws)
      BY DEF Known
    <3> QED BY <1>1, <3>1, LastOfFacts
  <2>3. t = [w \in DOMAIN ws |-> t[w]] /\ \A w \in DOMAIN ws : t[w] \in W
    BY <2>2
  <2> HIDE DEF t
  <2>4. t \in Seq(W)
    BY <1>1, <2>3, ArrayOver
  <2>5. \A w \in W : w.refs \in Seq(NodeSet)
    BY DEF W
  <2>6. Len(t) \in Nat /\ DOMAIN t = 1..Len(t) /\ \A v \in DOMAIN t : t[v] \in W
    BY <2>4
  <2> QED BY <2>1, <2>5, <2>6
<1>3. CASE ~f.hasWorkflows
  <2> DEFINE node == [name |-> Build, depends |-> <<>>]
             refs == <<node>>
             w == [name |-> "default", refs |-> refs]
  <2>1. C!Workflows(f) = <<w>>
    BY <1>3 DEF C!Workflows
  <2>2. node \in NodeSet
    <3>1. Build \in Name /\ <<>> \in Seq(Name)
      BY <1>3
    <3> QED BY <3>1 DEF NodeSet
  <2>3. refs \in Seq(NodeSet)
    <3> HIDE DEF node
    <3> QED BY <2>2
  <2>4. w.refs \in Seq(NodeSet)
    <3> HIDE DEF refs
    <3> QED BY <2>3
  <2> HIDE DEF w
  <2>5. Len(<<w>>) = 1 /\ DOMAIN <<w>> = 1..1 /\ <<w>>[1] = w
    OBVIOUS
  <2>6. \A v \in 1..1 : v = 1
    OBVIOUS
  <2> QED BY <2>1, <2>4, <2>5, <2>6
<1> QED BY <1>1, <1>2, <1>3

\* The jobs of a workflow, those of them that are left out and those that are kept.
RefsOf(f, v) == C!Workflows(f)[v].refs
LeftIn(f, v) == C!LeftOut(f, RefsOf(f, v))
KeptIn(f, v) == Without(RefsOf(f, v), LeftIn(f, v))

IsCircleCI(f) == f \in C!FileSet /\ (~f.hasWorkflows => Build \in Name)

LEMMA CircleCIKept ==
    ASSUME NEW f, IsCircleCI(f), NEW v \in DOMAIN C!Workflows(f)
    PROVE  /\ RefsOf(f, v) \in Seq(NodeSet) /\ Known(RefsOf(f, v)) \subseteq Name
           /\ LeftIn(f, v) = DoomedIn(RefsOf(f, v), Known(RefsOf(f, v)) \ Known(C!Definitions(f)))
           /\ KeptIn(f, v) \in Seq(NodeSet)
           /\ Known(KeptIn(f, v)) = Known(RefsOf(f, v)) \ LeftIn(f, v)
           /\ \A m \in Known(KeptIn(f, v)) : DepsIn(KeptIn(f, v), m) = DepsIn(RefsOf(f, v), m)
           /\ LevelsFail(KeptIn(f, v)) => LevelsFail(RefsOf(f, v))
<1> DEFINE refs == RefsOf(f, v)
           skipped == Known(refs) \ Known(C!Definitions(f))
<1>2. refs \in Seq(NodeSet)
  BY CircleCIWorkflows DEF IsCircleCI, RefsOf
<1>3. LeftIn(f, v) = DoomedIn(refs, skipped)
  BY CircleCISame, CircleCIGraph DEF LeftIn, C!LeftOut
<1> HIDE DEF refs
<1>4. Known(refs) \subseteq Name
  <2>1. \A x \in DOMAIN refs : refs[x] \in NodeSet
    BY <1>2
  <2>2. \A x \in DOMAIN refs : refs[x].name \in Name
    BY <2>1 DEF NodeSet
  <2> QED BY <2>2 DEF Known
<1>5. skipped \in SUBSET Name
  BY <1>4
<1> HIDE DEF skipped
<1>6. KeptIn(f, v) = Without(refs, DoomedIn(refs, skipped))
  BY <1>3 DEF KeptIn, refs
<1> DEFINE kept == Without(refs, DoomedIn(refs, skipped))
<1>7. /\ kept \in Seq(NodeSet) /\ Known(kept) = Known(refs) \ DoomedIn(refs, skipped)
      /\ \A m \in Known(kept) : DepsIn(kept, m) = DepsIn(refs, m)
      /\ LevelsFail(kept) => LevelsFail(refs)
  BY <1>2, <1>5, WithoutFacts
<1> HIDE DEF kept
<1> QED BY <1>2, <1>3, <1>4, <1>6, <1>7 DEF kept, refs, skipped

SameJob(f, job, node) ==
    job.name = node.name /\ job.depends = node.depends /\ job.env = C!DefOf(f, node.name).env

\* What is true of the result p after the first k workflows.
After(f, k, p) ==
    /\ p.ok \/ (p = Rejected /\ \E v \in 1..k : LevelsFail(KeptIn(f, v)))
    /\ p.ok =>
        /\ p.jobs \in Seq(ToSet(p.jobs)) /\ p.skipped \in Seq(Name)
        /\ \A v \in 1..k : ~LevelsFail(KeptIn(f, v))
        /\ \A y \in DOMAIN p.jobs : \E v \in 1..k : \E x \in DOMAIN KeptIn(f, v) :
                SameJob(f, p.jobs[y], KeptIn(f, v)[x])
        /\ \A v \in 1..k : \A x \in DOMAIN KeptIn(f, v) : \E y \in DOMAIN p.jobs :
                SameJob(f, p.jobs[y], KeptIn(f, v)[x])
        /\ \A y, z \in DOMAIN p.jobs : y # z /\ p.jobs[y].name = p.jobs[z].name =>
                \E v, w \in 1..k : v # w /\ p.jobs[y].name \in Known(KeptIn(f, v)) \cap Known(KeptIn(f, w))
        /\ ToSet(p.skipped) = UNION {Known(RefsOf(f, v)) \cap LeftIn(f, v) : v \in 1..k}

\* A workflow's jobs in the order of their levels.
OrderIn(f, v) ==
    LET kept == KeptIn(f, v) IN ByLevel(kept, LevelIn(kept), MaxLevel(kept, LevelIn(kept)))

NewJobs(f, v) ==
    [x \in DOMAIN OrderIn(f, v) |->
        C!JobOf(f, OrderIn(f, v)[x], C!Workflows(f)[v].name,
                LevelIn(KeptIn(f, v))[OrderIn(f, v)[x].name])]

LEMMA CircleCINew ==
    ASSUME NEW f, IsCircleCI(f), NEW v \in DOMAIN C!Workflows(f), ~LevelsFail(KeptIn(f, v))
    PROVE  LET new == NewJobs(f, v)
               kept == KeptIn(f, v)
           IN  /\ new \in Seq(ToSet(new))
               /\ \A y \in DOMAIN new : \E x \in DOMAIN kept : SameJob(f, new[y], kept[x])
               /\ \A x \in DOMAIN kept : \E y \in DOMAIN new : SameJob(f, new[y], kept[x])
               /\ ~HasDuplicate(new)
<1> DEFINE new == NewJobs(f, v)
           kept == KeptIn(f, v)
           order == OrderIn(f, v)
<1>1. kept \in Seq(NodeSet) /\ ~HasUnknown(kept) /\ ~HasCycle(kept) /\ ~HasDuplicate(kept)
  BY CircleCIKept DEF LevelsFail
<1> HIDE DEF kept
<1>2. order \in Seq(NodeSet) /\ Permutes(order, kept)
  BY <1>1, OrderFacts DEF OrderIn, kept
<1> HIDE DEF order, new
<1>3. /\ new = [x \in DOMAIN order |-> new[x]]
      /\ \A x \in DOMAIN order : SameJob(f, new[x], order[x])
  BY DEF new, order, NewJobs, C!JobOf, SameJob
<1>4. DOMAIN order = 1..Len(order) /\ Len(order) \in Nat
  BY <1>2
<1>5. new \in Seq(ToSet(new)) /\ DOMAIN new = DOMAIN order
  <2>1. new = [x \in 1..Len(order) |-> new[x]]
    BY <1>3, <1>4
  <2> QED BY <1>3, <1>4, <2>1, ArrayIsSeq
<1>6. /\ \A y \in DOMAIN order : \E x \in DOMAIN kept : order[y] = kept[x]
      /\ \A x \in DOMAIN kept : \E y \in DOMAIN order : order[y] = kept[x]
      /\ ~HasDuplicate(order)
  <2>1. ToSet(order) = ToSet(kept) /\ (HasDuplicate(order) => HasDuplicate(kept))
    BY <1>2, PermutesFacts
  <2>2. \A y \in DOMAIN order : order[y] \in ToSet(kept)
    BY <2>1 DEF ToSet
  <2>3. \A x \in DOMAIN kept : kept[x] \in ToSet(order)
    BY <2>1 DEF ToSet
  <2>4. \A y \in DOMAIN order : \E x \in DOMAIN kept : order[y] = kept[x]
    BY <2>2 DEF ToSet
  <2>5. \A x \in DOMAIN kept : \E y \in DOMAIN order : order[y] = kept[x]
    BY <2>3 DEF ToSet
  <2> QED BY <1>1, <2>1, <2>4, <2>5
<1>7. \A y \in DOMAIN new : \E x \in DOMAIN kept : SameJob(f, new[y], kept[x])
  BY <1>3, <1>5, <1>6
<1>8. \A x \in DOMAIN kept : \E y \in DOMAIN new : SameJob(f, new[y], kept[x])
  BY <1>3, <1>5, <1>6
<1>9. ~HasDuplicate(new)
  BY <1>3, <1>5, <1>6 DEF HasDuplicate, SameJob
<1> QED BY <1>5, <1>7, <1>8, <1>9 DEF new, kept

\* A workflow's skipped jobs are listed once, after those that are listed already.
LEMMA ListSkippedFacts ==
    ASSUME NEW seen \in Seq(Name), NEW refs \in Seq(NodeSet), NEW left, Known(refs) \subseteq Name
    PROVE  LET list == C!ListSkipped(seen, refs, left) IN
           list \in Seq(Name) /\ ToSet(list) = ToSet(seen) \cup (Known(refs) \cap left)
<1> DEFINE first == {x \in DOMAIN refs : \A y \in 1..(x - 1) : refs[y].name # refs[x].name}
           K == {x \in first : refs[x].name \in left \ ToSet(seen)}
           fresh == Those(refs, K)
<1>1. C!ListSkipped(seen, refs, left) = seen \o Named(fresh)
  BY CircleCISame DEF C!ListSkipped
<1>2. K \in SUBSET DOMAIN refs
  OBVIOUS
<1>3. \A n \in Known(refs) : \E x \in first : refs[x].name = n
  <2> SUFFICES ASSUME NEW n \in Known(refs) PROVE \E x \in first : refs[x].name = n
    OBVIOUS
  <2> DEFINE T == {x \in DOMAIN refs : refs[x].name = n}
  <2>1. T \in SUBSET Nat /\ T # {} /\ DOMAIN refs = 1..Len(refs) /\ Len(refs) \in Nat
    BY DEF Known
  <2>2. PICK x \in T : \A y \in T : x <= y
    <3> HIDE DEF T
    <3> QED BY <2>1, MinOfNat
  <2>3. \A y \in 1..(x - 1) : y \in DOMAIN refs /\ ~(x <= y)
    BY <2>1
  <2>4. \A y \in 1..(x - 1) : refs[y].name # n
    BY <2>2, <2>3
  <2> QED BY <2>4
<1>4. {refs[x].name : x \in K} = (Known(refs) \cap left) \ ToSet(seen)
  <2>1. \A x \in K : refs[x].name \in (Known(refs) \cap left) \ ToSet(seen)
    BY DEF Known
  <2>2. \A n \in (Known(refs) \cap left) \ ToSet(seen) : \E x \in K : refs[x].name = n
    BY <1>3
  <2> HIDE DEF K
  <2> QED BY <2>1, <2>2
<1> HIDE DEF K, fresh
<1>5. fresh \in Seq(NodeSet)
  BY <1>2, ThoseSet DEF fresh
<1>6. Known(fresh) = {refs[x].name : x \in K}
  BY <1>2, ThoseNames DEF fresh
<1>7. Named(fresh) \in Seq(Known(fresh)) /\ ToSet(Named(fresh)) = Known(fresh)
  BY <1>5, NamedFacts
<1>8. Known(fresh) \subseteq Name
  BY <1>4, <1>6
<1>9. Named(fresh) \in Seq(Name)
  BY <1>7, <1>8, SeqWiden
<1>10. /\ seen \o Named(fresh) \in Seq(Name)
       /\ ToSet(seen \o Named(fresh)) = ToSet(seen) \cup ToSet(Named(fresh))
  BY <1>9, ToSetOfConcat
<1> QED BY <1>1, <1>4, <1>6, <1>7, <1>10

\* One more workflow.
LEMMA AfterOneMore ==
    ASSUME NEW f, IsCircleCI(f), NEW k \in DOMAIN C!Workflows(f), NEW p, After(f, k - 1, p)
    PROVE  After(f, k, C!AddWorkflow(f, p, C!Workflows(f)[k]))
<1> DEFINE kept == KeptIn(f, k)
           new == NewJobs(f, k)
           refs == RefsOf(f, k)
           left == LeftIn(f, k)
           q == C!AddWorkflow(f, p, C!Workflows(f)[k])
           full == [ok |-> TRUE, jobs |-> p.jobs \o new, skipped |-> C!ListSkipped(p.skipped, refs, left),
                    findings |-> p.findings \o C!FlattenSeq([x \in DOMAIN OrderIn(f, k) |->
                        C!FindingsOf(C!DefOf(f, OrderIn(f, k)[x].name))])]
<1>1. q = IF ~p.ok \/ LevelsFail(kept) THEN Rejected ELSE full
  BY CircleCISame, CircleCIGraph DEF C!AddWorkflow, OrderIn, NewJobs, KeptIn, RefsOf, LeftIn
<1>2. k \in Nat /\ \A v : v \in 1..k <=> v \in 1..(k - 1) \/ v = k
  BY CircleCIWorkflows DEF IsCircleCI
<1>3. full.ok = TRUE /\ full.jobs = p.jobs \o new /\ full.skipped = C!ListSkipped(p.skipped, refs, left)
  OBVIOUS
<1>4. Rejected.ok = FALSE
  BY DEF Rejected
<1> HIDE DEF full, q, kept, new, refs, left
<1>5. CASE ~p.ok \/ LevelsFail(kept)
  <2>1. q = Rejected
    BY <1>1, <1>5
  <2>2. \E v \in 1..k : LevelsFail(KeptIn(f, v))
    BY <1>2, <1>5 DEF After, kept
  <2> QED BY <1>4, <2>1, <2>2 DEF After, q
<1>6. CASE p.ok /\ ~LevelsFail(kept)
  <2>1. q = full
    BY <1>1, <1>6
  <2>2. /\ p.jobs \in Seq(ToSet(p.jobs)) /\ p.skipped \in Seq(Name)
        /\ \A v \in 1..(k - 1) : ~LevelsFail(KeptIn(f, v))
        /\ \A y \in DOMAIN p.jobs : \E v \in 1..(k - 1) : \E x \in DOMAIN KeptIn(f, v) :
                SameJob(f, p.jobs[y], KeptIn(f, v)[x])
        /\ \A v \in 1..(k - 1) : \A x \in DOMAIN KeptIn(f, v) : \E y \in DOMAIN p.jobs :
                SameJob(f, p.jobs[y], KeptIn(f, v)[x])
        /\ \A y, z \in DOMAIN p.jobs : y # z /\ p.jobs[y].name = p.jobs[z].name =>
                \E v, w \in 1..(k - 1) : v # w /\ p.jobs[y].name \in Known(KeptIn(f, v)) \cap Known(KeptIn(f, w))
        /\ ToSet(p.skipped) = UNION {Known(RefsOf(f, v)) \cap LeftIn(f, v) : v \in 1..(k - 1)}
    BY <1>6 DEF After
  <2>3. /\ new \in Seq(ToSet(new))
        /\ \A y \in DOMAIN new : \E x \in DOMAIN kept : SameJob(f, new[y], kept[x])
        /\ \A x \in DOMAIN kept : \E y \in DOMAIN new : SameJob(f, new[y], kept[x])
        /\ ~HasDuplicate(new)
    BY <1>6, CircleCINew DEF new, kept
  <2> DEFINE jobs == p.jobs \o new
             Both == ToSet(p.jobs) \cup ToSet(new)
             a == Len(p.jobs)
  <2>4. p.jobs \in Seq(Both) /\ new \in Seq(Both)
    <3>1. ToSet(p.jobs) \subseteq Both /\ ToSet(new) \subseteq Both
      OBVIOUS
    <3> HIDE DEF Both
    <3>2. p.jobs \in Seq(Both)
      BY <2>2, <3>1, SeqWiden
    <3>3. new \in Seq(Both)
      BY <2>3, <3>1, SeqWiden
    <3> QED BY <3>2, <3>3
  <2>5. /\ jobs \in Seq(Both) /\ ToSet(jobs) = Both
        /\ \A y \in DOMAIN jobs : \/ y \in DOMAIN p.jobs /\ jobs[y] = p.jobs[y]
                                  \/ y - a \in DOMAIN new /\ jobs[y] = new[y - a]
    <3> HIDE DEF Both
    <3>1. ToSet(jobs) = ToSet(p.jobs) \cup ToSet(new)
      BY <2>4, ToSetOfConcat
    <3>2. /\ jobs \in Seq(Both)
          /\ \A y \in DOMAIN jobs : \/ y \in DOMAIN p.jobs /\ jobs[y] = p.jobs[y]
                                    \/ y - a \in DOMAIN new /\ jobs[y] = new[y - a]
      BY <2>4, ToSetOfConcat
    <3> QED BY <3>1, <3>2 DEF Both
  <2>6. a \in Nat /\ DOMAIN jobs \subseteq Nat
    <3>1. a \in Nat
      BY <2>2
    <3> HIDE DEF jobs, Both
    <3> QED BY <2>5, <3>1
  <2> HIDE DEF jobs, Both, a
  <2>7. /\ \A y \in DOMAIN p.jobs : \E z \in DOMAIN jobs : jobs[z] = p.jobs[y]
        /\ \A y \in DOMAIN new : \E z \in DOMAIN jobs : jobs[z] = new[y]
    <3>1. \A y \in DOMAIN p.jobs : p.jobs[y] \in ToSet(jobs)
      BY <2>5 DEF ToSet, Both
    <3>2. \A y \in DOMAIN new : new[y] \in ToSet(jobs)
      BY <2>5 DEF ToSet, Both
    <3> QED BY <3>1, <3>2 DEF ToSet
  <2>8. \A v \in 1..k : ~LevelsFail(KeptIn(f, v))
    BY <1>2, <1>6, <2>2 DEF kept
  <2>9. ASSUME NEW y \in DOMAIN jobs
        PROVE  \E v \in 1..k : \E x \in DOMAIN KeptIn(f, v) : SameJob(f, jobs[y], KeptIn(f, v)[x])
    <3>1. CASE y \in DOMAIN p.jobs /\ jobs[y] = p.jobs[y]
      BY <1>2, <2>2, <3>1
    <3>2. CASE y - a \in DOMAIN new /\ jobs[y] = new[y - a]
      BY <1>2, <2>3, <3>2 DEF kept
    <3> QED BY <2>5, <3>1, <3>2
  <2>10. ASSUME NEW v \in 1..k, NEW x \in DOMAIN KeptIn(f, v)
         PROVE  \E y \in DOMAIN jobs : SameJob(f, jobs[y], KeptIn(f, v)[x])
    <3>1. CASE v \in 1..(k - 1)
      <4>1. PICK y \in DOMAIN p.jobs : SameJob(f, p.jobs[y], KeptIn(f, v)[x])
        BY <2>2, <3>1
      <4> QED BY <2>7, <4>1
    <3>2. CASE v = k
      <4>1. PICK y \in DOMAIN new : SameJob(f, new[y], kept[x])
        BY <2>3, <3>2 DEF kept
      <4> QED BY <2>7, <3>2, <4>1 DEF kept
    <3> QED BY <1>2, <3>1, <3>2
  <2>11. ASSUME NEW y \in DOMAIN jobs, NEW z \in DOMAIN jobs, y # z, jobs[y].name = jobs[z].name
         PROVE  \E v, w \in 1..k : v # w /\ jobs[y].name \in Known(KeptIn(f, v)) \cap Known(KeptIn(f, w))
    <3>1. ASSUME NEW u \in DOMAIN p.jobs
          PROVE  \E v \in 1..(k - 1) : p.jobs[u].name \in Known(KeptIn(f, v))
      <4>1. PICK v \in 1..(k - 1) : \E x \in DOMAIN KeptIn(f, v) : SameJob(f, p.jobs[u], KeptIn(f, v)[x])
        BY <2>2
      <4>2. PICK x \in DOMAIN KeptIn(f, v) : SameJob(f, p.jobs[u], KeptIn(f, v)[x])
        BY <4>1
      <4>3. p.jobs[u].name \in Known(KeptIn(f, v))
        BY <4>2 DEF SameJob, Known
      <4> QED BY <4>3
    <3>2. ASSUME NEW u \in DOMAIN new PROVE new[u].name \in Known(KeptIn(f, k))
      BY <2>3 DEF SameJob, Known, kept
    <3>3. k \notin 1..(k - 1)
      BY <1>2
    <3>4. CASE y \in DOMAIN p.jobs /\ jobs[y] = p.jobs[y] /\ z \in DOMAIN p.jobs /\ jobs[z] = p.jobs[z]
      <4>1. \E v, w \in 1..(k - 1) : v # w /\ p.jobs[y].name \in Known(KeptIn(f, v)) \cap Known(KeptIn(f, w))
        BY <2>2, <2>11, <3>4
      <4> QED BY <1>2, <3>4, <4>1
    <3>5. CASE y \in DOMAIN p.jobs /\ jobs[y] = p.jobs[y] /\ z - a \in DOMAIN new /\ jobs[z] = new[z - a]
      <4>1. PICK v \in 1..(k - 1) : p.jobs[y].name \in Known(KeptIn(f, v))
        BY <3>1, <3>5
      <4>2. jobs[y].name \in Known(KeptIn(f, v)) /\ jobs[y].name \in Known(KeptIn(f, k)) /\ v # k
        BY <2>11, <3>2, <3>3, <3>5, <4>1
      <4> QED BY <1>2, <4>2
    <3>6. CASE y - a \in DOMAIN new /\ jobs[y] = new[y - a] /\ z \in DOMAIN p.jobs /\ jobs[z] = p.jobs[z]
      <4>1. PICK v \in 1..(k - 1) : p.jobs[z].name \in Known(KeptIn(f, v))
        BY <3>1, <3>6
      <4>2. jobs[y].name \in Known(KeptIn(f, v)) /\ jobs[y].name \in Known(KeptIn(f, k)) /\ v # k
        BY <2>11, <3>2, <3>3, <3>6, <4>1
      <4> QED BY <1>2, <4>2
    <3>7. CASE y - a \in DOMAIN new /\ jobs[y] = new[y - a] /\ z - a \in DOMAIN new /\ jobs[z] = new[z - a]
      <4>1. y - a # z - a
        BY <2>6, <2>11
      <4> QED BY <2>3, <2>11, <3>7, <4>1 DEF HasDuplicate
    <3> QED BY <2>5, <3>4, <3>5, <3>6, <3>7
  <2>12. /\ full.skipped \in Seq(Name)
         /\ ToSet(full.skipped) = UNION {Known(RefsOf(f, v)) \cap LeftIn(f, v) : v \in 1..k}
    <3>1. refs \in Seq(NodeSet) /\ Known(refs) \subseteq Name
      BY CircleCIKept DEF refs
    <3>2. /\ C!ListSkipped(p.skipped, refs, left) \in Seq(Name)
          /\ ToSet(C!ListSkipped(p.skipped, refs, left)) = ToSet(p.skipped) \cup (Known(refs) \cap left)
      BY <2>2, <3>1, ListSkippedFacts
    <3> DEFINE Part(v) == Known(RefsOf(f, v)) \cap LeftIn(f, v)
    <3>3. Part(k) = Known(refs) \cap left /\ ToSet(p.skipped) = UNION {Part(v) : v \in 1..(k - 1)}
      BY <2>2 DEF refs, left
    <3> HIDE DEF Part
    <3>4. {Part(v) : v \in 1..k} = {Part(v) : v \in 1..(k - 1)} \cup {Part(k)}
      BY <1>2
    <3>5. UNION {Part(v) : v \in 1..k} = (UNION {Part(v) : v \in 1..(k - 1)}) \cup Part(k)
      BY <3>4
    <3>6. /\ full.skipped \in Seq(Name)
          /\ ToSet(full.skipped) = ToSet(p.skipped) \cup (Known(refs) \cap left)
      BY <1>3, <3>2
    <3>7. ToSet(full.skipped) = UNION {Part(v) : v \in 1..k}
      BY <3>3, <3>5, <3>6
    <3> QED BY <3>6, <3>7 DEF Part
  <2>13. full.jobs = jobs /\ full.ok
    BY <1>3 DEF jobs
  <2>14. After(f, k, full)
    <3>1. jobs \in Seq(ToSet(jobs))
      BY <2>5
    <3> QED BY <2>8, <2>9, <2>10, <2>11, <2>12, <2>13, <3>1 DEF After
  <2> QED BY <2>1, <2>14 DEF q
<1> QED BY <1>5, <1>6

LEMMA AfterNone == ASSUME NEW f PROVE After(f, 0, NoJobs)
<1>1. NoJobs.ok = TRUE /\ NoJobs.jobs = <<>> /\ NoJobs.skipped = <<>>
  BY DEF NoJobs, Rejected
<1>2. DOMAIN <<>> = {} /\ 1..0 = {} /\ \A T : <<>> \in Seq(T)
  OBVIOUS
<1>3. ToSet(<<>>) = {}
  BY <1>2 DEF ToSet
<1>4. UNION {Known(RefsOf(f, v)) \cap LeftIn(f, v) : v \in 1..0} = {}
  BY <1>2
<1> QED BY <1>1, <1>2, <1>3, <1>4 DEF After

\* The results after each number of workflows.
Result(f, h, n) == IF n = 0 THEN NoJobs ELSE C!AddWorkflow(f, h[n - 1], C!Workflows(f)[n])

AreResults(f, h, N) == IsOver(h, 0, N) /\ \A n \in 0..N : h[n] = Result(f, h, n) /\ After(f, n, h[n])

LEMMA CircleCIResults ==
    ASSUME NEW f, IsCircleCI(f)
    PROVE  \E h : AreResults(f, h, Len(C!Workflows(f)))
<1> DEFINE N == Len(C!Workflows(f))
           P == {k \in Nat : \E h : AreResults(f, h, k)}
<1>1. N \in Nat /\ DOMAIN C!Workflows(f) = 1..N
  BY CircleCIWorkflows DEF IsCircleCI
<1> HIDE DEF N
<1>2. 0 \in P
  <2> DEFINE h == [n \in 0..0 |-> NoJobs]
  <2>1. \A n \in 0..0 : n = 0 /\ h[n] = NoJobs
    OBVIOUS
  <2>2. IsOver(h, 0, 0)
    BY DEF IsOver
  <2> HIDE DEF h
  <2>3. \A n \in 0..0 : h[n] = Result(f, h, n) /\ After(f, n, h[n])
    BY <2>1, AfterNone DEF Result
  <2>4. AreResults(f, h, 0)
    BY <2>2, <2>3 DEF AreResults
  <2> QED BY <2>4
<1>3. ASSUME NEW k \in 1..N, k - 1 \in P PROVE k \in P
  <2>1. PICK h : AreResults(f, h, k - 1)
    BY <1>3
  <2> DEFINE q == C!AddWorkflow(f, h[k - 1], C!Workflows(f)[k])
             g == [n \in 0..k |-> IF n = k THEN q ELSE h[n]]
  <2>2. k \in Nat /\ k # 0 /\ k - 1 \in 0..(k - 1) /\ \A n \in 0..k : n = k \/ n \in 0..(k - 1)
    BY <1>1
  <2>3. After(f, k, q)
    <3>1. After(f, k - 1, h[k - 1])
      BY <2>1, <2>2 DEF AreResults
    <3> QED BY <1>1, <3>1, AfterOneMore
  <2>4. g[k] = q /\ \A n \in 0..(k - 1) : g[n] = h[n]
    BY <2>2
  <2>5. IsOver(g, 0, k)
    BY DEF IsOver
  <2> HIDE DEF g
  <2>6. ASSUME NEW n \in 0..k PROVE g[n] = Result(f, g, n) /\ After(f, n, g[n])
    <3>1. CASE n = k
      BY <2>2, <2>3, <2>4, <3>1 DEF Result
    <3>2. CASE n \in 0..(k - 1)
      <4>1. h[n] = Result(f, h, n) /\ After(f, n, h[n]) /\ g[n] = h[n]
        BY <2>1, <2>4, <3>2 DEF AreResults
      <4>2. CASE n = 0
        BY <4>1, <4>2 DEF Result
      <4>3. CASE n # 0
        <5>1. n - 1 \in 0..(k - 1)
          BY <2>2, <3>2, <4>3
        <5>2. g[n - 1] = h[n - 1]
          BY <2>4, <5>1
        <5> QED BY <4>1, <4>3, <5>2 DEF Result
      <4> QED BY <4>2, <4>3
    <3> QED BY <2>2, <3>1, <3>2
  <2>7. AreResults(f, g, k)
    BY <2>5, <2>6 DEF AreResults
  <2> QED BY <2>2, <2>7
<1>4. \A n \in 0..N : n \in P
  <2>1. P \in SUBSET Nat
    OBVIOUS
  <2> HIDE DEF P
  <2>2. \A n \in (0 + 1)..N : n - 1 \in P => n \in P
    BY <1>3
  <2> QED BY <1>1, <1>2, <2>1, <2>2, IntervalInd
<1>5. N \in P
  <2>1. N \in 0..N
    BY <1>1
  <2> HIDE DEF P
  <2> QED BY <1>4, <2>1
<1> QED BY <1>5 DEF N

\* What circleci.Parse returns is what is true after the last workflow.
LEMMA CircleCIParse ==
    ASSUME NEW f, IsCircleCI(f)
    PROVE  IF ~f.hasWorkflows /\ Build \notin Known(f.jobs) THEN C!Parse(f) = Rejected
           ELSE \E p : C!Parse(f) = Finished(p) /\ After(f, Len(C!Workflows(f)), p)
<1> DEFINE N == Len(C!Workflows(f))
           Recurs(h) == h = [w \in 0..N |-> IF w = 0 THEN NoJobs
                                            ELSE C!AddWorkflow(f, h[w - 1], C!Workflows(f)[w])]
           after == CHOOSE h : Recurs(h)
<1>1. N \in Nat
  BY CircleCIWorkflows DEF IsCircleCI
<1>2. C!Parse(f) = IF ~f.hasWorkflows /\ Build \notin Known(f.jobs) THEN Rejected ELSE Finished(after[N])
  BY CircleCISame DEF C!Parse
<1>3. PICK h : AreResults(f, h, N)
  BY CircleCIResults
<1> HIDE DEF N
<1>4. Recurs(h)
  <2>1. h = [n \in 0..N |-> h[n]] /\ \A n \in 0..N : h[n] = Result(f, h, n)
    BY <1>3 DEF AreResults, IsOver
  <2> QED BY <2>1 DEF Result
<1>5. Recurs(after)
  <2> HIDE DEF Recurs
  <2> QED BY <1>4
<1>6. IsOver(after, 0, N) /\ after[0] = NoJobs
  <2> HIDE DEF after
  <2>1. 0 \in 0..N
    BY <1>1
  <2> QED BY <1>5, <2>1 DEF IsOver
<1>7. IsOver(h, 0, N) /\ h[0] = NoJobs
  <2>1. 0 \in 0..N
    BY <1>1
  <2> QED BY <1>3, <2>1 DEF AreResults, Result
<1>8. Alike(after, h, 0, N)
  <2> HIDE DEF after
  <2> SUFFICES ASSUME NEW n \in (0 + 1)..N, after[n - 1] = h[n - 1] PROVE after[n] = h[n]
    BY DEF Alike
  <2>1. n \in 0..N /\ n # 0
    BY <1>1
  <2>2. after[n] = C!AddWorkflow(f, after[n - 1], C!Workflows(f)[n])
    BY <1>5, <2>1
  <2>3. h[n] = C!AddWorkflow(f, h[n - 1], C!Workflows(f)[n])
    BY <1>3, <2>1 DEF AreResults, Result
  <2> QED BY <2>2, <2>3
<1> HIDE DEF after
<1>9. after = h
  BY <1>1, <1>6, <1>7, <1>8, RecursionIsUnique
<1>10. After(f, N, after[N])
  <2>1. N \in 0..N
    BY <1>1
  <2> QED BY <1>3, <1>9, <2>1 DEF AreResults
<1> QED BY <1>2, <1>10 DEF N

\* The jobs of all workflows that are kept are the jobs, the others are skipped.
CircleCIJobs(f, p) ==
    /\ p.jobs \in Seq(ToSet(p.jobs))
    /\ \A v \in DOMAIN C!Workflows(f) : ~LevelsFail(KeptIn(f, v))
    /\ \A y \in DOMAIN p.jobs : \E v \in DOMAIN C!Workflows(f) : \E x \in DOMAIN KeptIn(f, v) :
            SameJob(f, p.jobs[y], KeptIn(f, v)[x])
    /\ \A v \in DOMAIN C!Workflows(f) : \A x \in DOMAIN KeptIn(f, v) : \E y \in DOMAIN p.jobs :
            SameJob(f, p.jobs[y], KeptIn(f, v)[x])
    /\ \A y, z \in DOMAIN p.jobs : y # z /\ p.jobs[y].name = p.jobs[z].name =>
            \E v, w \in DOMAIN C!Workflows(f) :
                v # w /\ p.jobs[y].name \in Known(KeptIn(f, v)) \cap Known(KeptIn(f, w))
    /\ Known(p.jobs) = UNION {Known(KeptIn(f, v)) : v \in DOMAIN C!Workflows(f)}
    /\ ToSet(p.skipped) =
            UNION {Known(RefsOf(f, v)) \cap LeftIn(f, v) : v \in DOMAIN C!Workflows(f)}

LEMMA CircleCIAfter ==
    ASSUME NEW f, IsCircleCI(f), NEW p, After(f, Len(C!Workflows(f)), p), p.ok
    PROVE  CircleCIJobs(f, p)
<1> DEFINE W == DOMAIN C!Workflows(f)
           N == Len(C!Workflows(f))
<1>1. W = 1..N
  BY CircleCIWorkflows DEF IsCircleCI
<1> HIDE DEF W, N
<1>2. /\ p.jobs \in Seq(ToSet(p.jobs))
      /\ \A v \in W : ~LevelsFail(KeptIn(f, v))
      /\ \A y \in DOMAIN p.jobs : \E v \in W : \E x \in DOMAIN KeptIn(f, v) :
              SameJob(f, p.jobs[y], KeptIn(f, v)[x])
      /\ \A v \in W : \A x \in DOMAIN KeptIn(f, v) : \E y \in DOMAIN p.jobs :
              SameJob(f, p.jobs[y], KeptIn(f, v)[x])
      /\ \A y, z \in DOMAIN p.jobs : y # z /\ p.jobs[y].name = p.jobs[z].name =>
              \E v, w \in W : v # w /\ p.jobs[y].name \in Known(KeptIn(f, v)) \cap Known(KeptIn(f, w))
      /\ ToSet(p.skipped) = UNION {Known(RefsOf(f, v)) \cap LeftIn(f, v) : v \in W}
  BY <1>1 DEF After, N
<1>3. ASSUME NEW n \in Known(p.jobs) PROVE \E v \in W : n \in Known(KeptIn(f, v))
  <2>1. PICK y \in DOMAIN p.jobs : p.jobs[y].name = n
    BY DEF Known
  <2>2. PICK v \in W : \E x \in DOMAIN KeptIn(f, v) : SameJob(f, p.jobs[y], KeptIn(f, v)[x])
    BY <1>2
  <2> QED BY <2>1, <2>2 DEF SameJob, Known
<1>4. ASSUME NEW v \in W, NEW n \in Known(KeptIn(f, v)) PROVE n \in Known(p.jobs)
  <2>1. PICK x \in DOMAIN KeptIn(f, v) : KeptIn(f, v)[x].name = n
    BY DEF Known
  <2>2. PICK y \in DOMAIN p.jobs : SameJob(f, p.jobs[y], KeptIn(f, v)[x])
    BY <1>2
  <2> QED BY <2>1, <2>2 DEF SameJob, Known
<1>5. Known(p.jobs) = UNION {Known(KeptIn(f, v)) : v \in W}
  BY <1>3, <1>4
<1> QED BY <1>2, <1>5 DEF CircleCIJobs, W

LEMMA CircleCIFile == ASSUME IInv, provider = "circleci" PROVE IsCircleCI(file)
BY FilesAssumption DEF IInv, IsCircleCI

LEMMA CircleCIReturns ==
    ASSUME IInv, HasPipeline, provider = "circleci"
    PROVE  IsCircleCI(file) /\ CircleCIJobs(file, out) /\ out.ok
<1>1. IsCircleCI(file) /\ out = C!Parse(file) /\ out.ok
  BY CircleCIFile DEF IInv, HasPipeline
<1>2. Rejected.ok = FALSE
  BY DEF Rejected
<1>3. PICK p : C!Parse(file) = Finished(p) /\ After(file, Len(C!Workflows(file)), p)
  BY <1>1, <1>2, CircleCIParse
<1>4. out = p
  BY <1>1, <1>2, <1>3 DEF Finished
<1> QED BY <1>1, <1>3, <1>4, CircleCIAfter

\* What the jobs of workflows that Levels accepts depend on, together.
LEMMA CircleCIRunnable ==
    ASSUME NEW f, IsCircleCI(f), NEW p, CircleCIJobs(f, p)
    PROVE  ~HasUnknown(p.jobs) /\ (HasCycle(p.jobs) => HasDuplicate(p.jobs))
<1> DEFINE W == DOMAIN C!Workflows(f)
           jobs == p.jobs
           Mine(v) == KeptIn(f, v)
<1>1. /\ \A v \in W : ~HasUnknown(Mine(v)) /\ ~HasCycle(Mine(v))
      /\ \A y \in DOMAIN jobs : \E v \in W : \E x \in DOMAIN Mine(v) : SameJob(f, jobs[y], Mine(v)[x])
      /\ \A v \in W : \A x \in DOMAIN Mine(v) : \E y \in DOMAIN jobs : SameJob(f, jobs[y], Mine(v)[x])
      /\ \A v \in W : Known(Mine(v)) \subseteq Known(jobs)
  BY DEF CircleCIJobs, LevelsFail
<1> HIDE DEF W, jobs, Mine
<1>2. ASSUME NEW y \in DOMAIN jobs
      PROVE  \E v \in W : jobs[y].name \in Known(Mine(v)) /\ ToSet(jobs[y].depends) \subseteq Known(Mine(v))
  <2>1. PICK v \in W : \E x \in DOMAIN Mine(v) : SameJob(f, jobs[y], Mine(v)[x])
    BY <1>1
  <2>2. PICK x \in DOMAIN Mine(v) : SameJob(f, jobs[y], Mine(v)[x])
    BY <2>1
  <2>3. jobs[y].name = Mine(v)[x].name /\ jobs[y].depends = Mine(v)[x].depends
    BY <2>2 DEF SameJob
  <2>4. jobs[y].name \in Known(Mine(v))
    BY <2>3 DEF Known
  <2>5. ToSet(jobs[y].depends) \subseteq DepsIn(Mine(v), jobs[y].name)
    BY <2>3 DEF DepsIn
  <2>6. DepsIn(Mine(v), jobs[y].name) \subseteq Known(Mine(v))
    BY <1>1, <2>4 DEF HasUnknown
  <2> QED BY <2>4, <2>5, <2>6
<1>3. ~HasUnknown(jobs)
  <2> SUFFICES ASSUME NEW m \in Known(jobs), NEW n \in DepsIn(jobs, m) PROVE n \in Known(jobs)
    BY DEF HasUnknown
  <2>1. PICK y \in DOMAIN jobs : n \in ToSet(jobs[y].depends)
    BY DEF DepsIn
  <2> QED BY <1>1, <1>2, <2>1
<1>4. ASSUME HasCycle(jobs), ~HasDuplicate(jobs) PROVE FALSE
  <2>1. PICK ring \in (SUBSET Known(jobs)) \ {{}} : \A m \in ring : DepsIn(jobs, m) \cap ring # {}
    BY <1>4 DEF HasCycle
  <2>2. PICK m0 \in ring : TRUE
    BY <2>1
  <2>3. PICK y0 \in DOMAIN jobs : jobs[y0].name = m0
    BY <2>1, <2>2 DEF Known
  <2>4. PICK v \in W : m0 \in Known(Mine(v))
    BY <1>2, <2>3
  <2> DEFINE part == ring \cap Known(Mine(v))
  <2>5. ASSUME NEW m \in part PROVE DepsIn(Mine(v), m) \cap part # {}
    <3>1. PICK x \in DOMAIN Mine(v) : Mine(v)[x].name = m
      BY DEF Known
    <3>2. PICK y \in DOMAIN jobs : SameJob(f, jobs[y], Mine(v)[x])
      BY <1>1
    <3>3. jobs[y].name = m /\ jobs[y].depends = Mine(v)[x].depends
      BY <3>1, <3>2 DEF SameJob
    <3>4. PICK d \in ring : d \in DepsIn(jobs, m)
      BY <2>1
    <3>5. PICK z \in DOMAIN jobs : jobs[z].name = m /\ d \in ToSet(jobs[z].depends)
      BY <3>4 DEF DepsIn
    <3>6. z = y
      BY <1>4, <3>3, <3>5 DEF HasDuplicate
    <3>7. d \in DepsIn(Mine(v), m)
      BY <3>1, <3>3, <3>5, <3>6 DEF DepsIn
    <3>8. d \in Known(Mine(v))
      BY <1>1, <3>7 DEF HasUnknown
    <3> QED BY <3>7, <3>8
  <2>6. part \in (SUBSET Known(Mine(v))) \ {{}}
    BY <2>2, <2>4
  <2> HIDE DEF part
  <2>7. HasCycle(Mine(v))
    BY <2>5, <2>6 DEF HasCycle
  <2> QED BY <1>1, <2>7
<1> QED BY <1>3, <1>4 DEF jobs

-----------------------------------------------------------------------------
(* Pipelines can be run. *)

\* What any parser returns for any file names no job that is not there, has a cycle
\* only with a name twice, and a name twice only where the file has it so: nothing that
\* Run accepts deadlocks it (model.go:100-108; docker.go:290-303, 338).
THEOREM PipelinesAreRunnable == LocalSpec => []AcceptedIsRunnable
<1>1. ASSUME IInv, HasPipeline, provider = "circleci"
      PROVE  /\ ~HasUnknown(out.jobs) /\ (HasCycle(out.jobs) => HasDuplicate(out.jobs))
             /\ HasDuplicate(out.jobs) =>
                    \E v, w \in DOMAIN C!Workflows(file) :
                        v # w /\ Known(RefsOf(file, v)) \cap Known(RefsOf(file, w)) # {}
  <2>1. IsCircleCI(file) /\ CircleCIJobs(file, out)
    BY <1>1, CircleCIReturns
  <2>2. ASSUME HasDuplicate(out.jobs)
        PROVE  \E v, w \in DOMAIN C!Workflows(file) :
                   v # w /\ Known(RefsOf(file, v)) \cap Known(RefsOf(file, w)) # {}
    <3>1. PICK y, z \in DOMAIN out.jobs : y # z /\ out.jobs[y].name = out.jobs[z].name
      BY <2>2 DEF HasDuplicate
    <3>2. PICK v, w \in DOMAIN C!Workflows(file) :
              v # w /\ out.jobs[y].name \in Known(KeptIn(file, v)) \cap Known(KeptIn(file, w))
      BY <2>1, <3>1 DEF CircleCIJobs
    <3>3. /\ Known(KeptIn(file, v)) \subseteq Known(RefsOf(file, v))
          /\ Known(KeptIn(file, w)) \subseteq Known(RefsOf(file, w))
      BY <2>1, CircleCIKept
    <3>4. Known(RefsOf(file, v)) \cap Known(RefsOf(file, w)) # {}
      BY <3>2, <3>3
    <3> QED BY <3>2, <3>4
  <2> QED BY <2>1, <2>2, CircleCIRunnable
<1>2. ASSUME IInv, HasPipeline, provider = "github-actions"
      PROVE  ~HasUnknown(out.jobs) /\ ~HasCycle(out.jobs) /\ ~HasDuplicate(out.jobs)
  BY <1>2, GitHubReturns, GitHubJobs, AreTheNodesFacts
<1>3. ASSUME IInv, HasPipeline, provider = "gitlab"
      PROVE  ~HasUnknown(out.jobs) /\ ~HasCycle(out.jobs)
             /\ (HasDuplicate(out.jobs) => HasDuplicate(file.entries))
  <2>1. G!IsFile(file) /\ out = GitLabOut(file)
    BY <1>3, GitLabReturns
  <2>2. Staged(out.jobs, GitLabIndex(file), Len(G!Stages(file))) /\ Len(G!Stages(file)) \in Nat
    BY <2>1, GitLabStaged, StagesAreList
  <2>3. ~HasUnknown(out.jobs)
    BY <2>2, StagedKnown
  <2>4. ~HasCycle(out.jobs)
    BY <2>2, StagedNoCycle
  <2> QED BY <2>1, <2>3, <2>4, GitLabOutFacts
<1>4. IInv => AcceptedIsRunnable
  <2> SUFFICES ASSUME IInv, outcome = "parsed" PROVE AcceptedIsRunnable
    BY DEF AcceptedIsRunnable
  <2>1. HasPipeline
    BY DEF HasPipeline
  <2>2. provider \in {"circleci", "github-actions", "gitlab"}
    BY DEF IInv
  <2>3. CASE provider = "circleci"
    BY <1>1, <2>1, <2>3 DEF AcceptedIsRunnable, Repeats, RefsOf
  <2>4. CASE provider = "github-actions"
    BY <1>2, <2>1, <2>4 DEF AcceptedIsRunnable
  <2>5. CASE provider = "gitlab"
    BY <1>3, <2>1, <2>5 DEF AcceptedIsRunnable
  <2> QED BY <2>2, <2>3, <2>4, <2>5
<1> QED BY <1>4, InductiveInvariant, PTL

-----------------------------------------------------------------------------
(* What does not run is skipped. *)

LEMMA GitHubLeftOut ==
    ASSUME NEW f \in H!FileSet
    PROVE  /\ H!Failed(f) \subseteq H!LeftOut(f) /\ H!LeftOut(f) \subseteq Known(f.jobs)
           /\ \A n \in H!LeftOut(f) : n \in H!Failed(f) \/
                (n \in Known(H!Parsed(f)) /\ ToSet(H!BaseOf(f, n).needs) \cap H!LeftOut(f) # {})
           /\ \A n \in Known(H!Parsed(f)) :
                ToSet(H!BaseOf(f, n).needs) \cap H!LeftOut(f) # {} => n \in H!LeftOut(f)
           /\ Known(f.jobs) \subseteq Name /\ Known(H!Parsed(f)) \subseteq Known(f.jobs)
<1> DEFINE bs == H!BaseNodes(f)
           left == H!LeftOut(f)
           failed == H!Failed(f)
<1>1. /\ bs \in Seq(NodeSet) /\ Known(bs) = Known(H!Parsed(f))
      /\ \A y \in DOMAIN bs : bs[y].depends = H!BaseOf(f, bs[y].name).needs
  BY GitHubBaseNodes
<1>2. left = DoomedIn(bs, failed)
  BY GitHubGraph DEF H!LeftOut
<1>3. Known(f.jobs) \subseteq Name
  <2>1. \A x \in DOMAIN f.jobs : f.jobs[x] \in H!JobSet
    BY GitHubParsed
  <2>2. \A x \in DOMAIN f.jobs : f.jobs[x].name \in Name
    BY <2>1 DEF H!JobSet
  <2> QED BY <2>2 DEF Known
<1>4. Known(H!Parsed(f)) \subseteq Known(f.jobs)
  <2>1. Known(H!Parsed(f)) = {f.jobs[x].name : x \in DoesParse(f)}
    BY GitHubParsed
  <2> QED BY <2>1 DEF Known, DoesParse
<1>5. failed \subseteq Known(f.jobs)
  BY DEF H!Failed, Known
<1> HIDE DEF bs, left, failed
<1>6. Known(bs) \subseteq Name /\ failed \in SUBSET Name
  BY <1>1, <1>3, <1>4, <1>5
<1>7. /\ failed \subseteq left
      /\ \A x \in DOMAIN bs : ToSet(bs[x].depends) \cap left # {} => bs[x].name \in left
      /\ \A n \in left : n \in failed \/ \E x \in DOMAIN bs :
                                bs[x].name = n /\ ToSet(bs[x].depends) \cap left # {}
  BY <1>2, <1>6, DoomedFacts
<1>8. ASSUME NEW n \in left
      PROVE  n \in failed \/ (n \in Known(H!Parsed(f)) /\ ToSet(H!BaseOf(f, n).needs) \cap left # {})
  <2>1. CASE n \in failed
    BY <2>1
  <2>2. CASE \E x \in DOMAIN bs : bs[x].name = n /\ ToSet(bs[x].depends) \cap left # {}
    <3>1. PICK x \in DOMAIN bs : bs[x].name = n /\ ToSet(bs[x].depends) \cap left # {}
      BY <2>2
    <3>2. n \in Known(bs) /\ bs[x].depends = H!BaseOf(f, n).needs
      BY <1>1, <3>1 DEF Known
    <3> QED BY <1>1, <3>1, <3>2
  <2> QED BY <1>7, <2>1, <2>2
<1>9. ASSUME NEW n \in Known(H!Parsed(f)), ToSet(H!BaseOf(f, n).needs) \cap left # {} PROVE n \in left
  <2>1. PICK x \in DOMAIN bs : bs[x].name = n
    BY <1>1 DEF Known
  <2>2. bs[x].depends = H!BaseOf(f, n).needs
    BY <1>1, <2>1
  <2> QED BY <1>7, <1>9, <2>1, <2>2
<1>10. left \subseteq Known(f.jobs)
  BY <1>4, <1>5, <1>8
<1> QED BY <1>3, <1>4, <1>7, <1>8, <1>9, <1>10 DEF left, failed

LEMMA GitHubSkipped ==
    ASSUME NEW f \in H!FileSet
    PROVE  ToSet(H!SkippedIn(f)) = H!LeftOut(f)
<1> DEFINE names == Named(f.jobs)
           K == {x \in DOMAIN names : names[x] \in H!LeftOut(f)}
           list == Those(names, K)
<1>1. H!SkippedIn(f) = list
  BY GitHubSame DEF H!SkippedIn, H!Select
<1>2. names \in Seq(Known(f.jobs)) /\ ToSet(names) = Known(f.jobs)
  BY GitHubParsed, NamedFacts
<1> HIDE DEF names
<1>3. K \in SUBSET DOMAIN names /\ \A x \in K : names[x] \in H!LeftOut(f)
  OBVIOUS
<1>4. \A n \in H!LeftOut(f) : \E x \in K : names[x] = n
  <2>1. \A n \in H!LeftOut(f) : n \in ToSet(names)
    BY <1>2, GitHubLeftOut
  <2>2. \A n \in H!LeftOut(f) : \E x \in DOMAIN names : names[x] = n
    BY <2>1 DEF ToSet
  <2> QED BY <2>2
<1> HIDE DEF K, list
<1>5. /\ \A y \in DOMAIN list : \E x \in K : list[y] = names[x]
      /\ \A x \in K : \E y \in DOMAIN list : list[y] = names[x]
  BY <1>2, <1>3, ThoseSet DEF list
<1>6. ToSet(list) = H!LeftOut(f)
  BY <1>3, <1>4, <1>5 DEF ToSet
<1> QED BY <1>1, <1>6

\* A job that is not left out and has no axis without values is expanded.
LEMMA GitHubAccounts ==
    ASSUME NEW f \in H!FileSet, NEW n \in Known(f.jobs), n \notin H!LeftOut(f),
           \A x \in DOMAIN f.jobs : f.jobs[x].name = n => <<>> \notin ToSet(f.jobs[x].axes)
    PROVE  n \in Known(H!Kept(f)) /\ CombosOf(f, n) # {}
<1>1. PICK z \in DOMAIN f.jobs : f.jobs[z].name = n
  BY DEF Known
<1>2. n \notin H!Failed(f)
  BY GitHubLeftOut
<1>3. z \in DoesParse(f)
  BY <1>1, <1>2 DEF DoesParse, H!Failed
<1>4. n \in Known(H!Parsed(f))
  BY <1>1, <1>3, GitHubParsed
<1>5. n \in Known(H!Kept(f))
  BY <1>4, GitHubKept
<1>6. CombosOf(f, n) = Product(H!BaseOf(f, n))
  BY <1>4, GitHubExpansion
<1>7. H!BaseOf(f, n) \in H!JobSet /\ <<>> \notin ToSet(H!BaseOf(f, n).axes)
  <2>1. PICK x \in DoesParse(f) : H!BaseOf(f, n) = f.jobs[x]
    BY <1>4, GitHubParsed
  <2>2. H!BaseOf(f, n) \in H!JobSet /\ H!BaseOf(f, n).name = n
    BY <1>4, GitHubParsed
  <2> QED BY <2>1, <2>2 DEF DoesParse
<1> DEFINE axes == H!BaseOf(f, n).axes
<1>8. axes \in Seq(Seq(Value))
  BY <1>7 DEF H!JobSet
<1>9. \A x \in DOMAIN axes : axes[x] \in Seq(Value) /\ axes[x] # <<>>
  BY <1>7, <1>8 DEF ToSet
<1> HIDE DEF axes
<1>10. \A x \in DOMAIN axes : axes[x][1] \in Value /\ axes[x][1] \in ToSet(axes[x])
  <2> SUFFICES ASSUME NEW x \in DOMAIN axes PROVE axes[x][1] \in Value /\ axes[x][1] \in ToSet(axes[x])
    OBVIOUS
  <2> DEFINE axis == axes[x]
  <2>1. axis \in Seq(Value) /\ axis # <<>>
    BY <1>9
  <2> HIDE DEF axis
  <2>2. 1 \in DOMAIN axis /\ axis[1] \in Value
    BY <2>1
  <2>3. axis[1] \in Value /\ axis[1] \in ToSet(axis)
    BY <2>2 DEF ToSet
  <2> QED BY <2>3 DEF axis
<1> DEFINE combo == [x \in DOMAIN axes |-> axes[x][1]]
<1>11. combo \in [DOMAIN axes -> Value] /\ \A x \in DOMAIN axes : combo[x] \in ToSet(axes[x])
  BY <1>10
<1> HIDE DEF combo
<1>12. combo \in Product(H!BaseOf(f, n))
  BY <1>11 DEF Product, axes
<1> QED BY <1>5, <1>6, <1>12

GitHubDeclared(f) ==
    Known(f.jobs) \ {f.jobs[x].name : x \in {y \in DOMAIN f.jobs : <<>> \in ToSet(f.jobs[y].axes)}}

LEMMA GitHubDeclaredFacts ==
    ASSUME NEW f \in H!FileSet, NEW n \in GitHubDeclared(f), n \notin H!LeftOut(f)
    PROVE  n \in Known(H!Kept(f)) /\ CombosOf(f, n) # {}
<1>1. n \in Known(f.jobs) /\
      \A x \in DOMAIN f.jobs : f.jobs[x].name = n => <<>> \notin ToSet(f.jobs[x].axes)
  BY DEF GitHubDeclared
<1> QED BY <1>1, GitHubAccounts

LEMMA CircleCILeftIn ==
    ASSUME NEW f, IsCircleCI(f), NEW v \in DOMAIN C!Workflows(f)
    PROVE  /\ Known(RefsOf(f, v)) \ Known(C!Definitions(f)) \subseteq LeftIn(f, v)
           /\ LeftIn(f, v) \subseteq Known(RefsOf(f, v))
           /\ \A n \in LeftIn(f, v) : n \notin Known(C!Definitions(f))
                                      \/ DepsIn(RefsOf(f, v), n) \cap LeftIn(f, v) # {}
<1> DEFINE refs == RefsOf(f, v)
           left == LeftIn(f, v)
           skipped == Known(refs) \ Known(C!Definitions(f))
<1>1. Known(refs) \subseteq Name /\ left = DoomedIn(refs, skipped)
  BY CircleCIKept
<1>2. \A n \in skipped : n \in Known(refs) /\ n \notin Known(C!Definitions(f))
  OBVIOUS
<1>3. skipped \in SUBSET Name
  BY <1>1
<1> HIDE DEF refs, left, skipped
<1>4. /\ skipped \subseteq left
      /\ \A n \in left : n \in skipped \/ \E x \in DOMAIN refs :
                                refs[x].name = n /\ ToSet(refs[x].depends) \cap left # {}
  BY <1>1, <1>3, DoomedFacts
<1>5. \A n \in left : n \in Known(refs)
                      /\ (n \notin Known(C!Definitions(f)) \/ DepsIn(refs, n) \cap left # {})
  BY <1>2, <1>4 DEF Known, DepsIn
<1> QED BY <1>4, <1>5 DEF refs, left, skipped

\* A job of a CircleCI file is one that is returned or one that is skipped.
LEMMA CircleCIAccounts ==
    ASSUME NEW f, IsCircleCI(f), NEW p, CircleCIJobs(f, p)
    PROVE  /\ UNION {Known(RefsOf(f, v)) : v \in DOMAIN C!Workflows(f)} \subseteq Known(p.jobs) \cup ToSet(p.skipped)
           /\ ToSet(p.skipped) = UNION {LeftIn(f, v) : v \in DOMAIN C!Workflows(f)}
           /\ Len(C!Workflows(f)) = 1 => Known(p.jobs) \cap ToSet(p.skipped) = {}
<1> DEFINE W == DOMAIN C!Workflows(f)
<1>1. /\ Known(p.jobs) = UNION {Known(KeptIn(f, v)) : v \in W}
      /\ ToSet(p.skipped) = UNION {Known(RefsOf(f, v)) \cap LeftIn(f, v) : v \in W}
  BY DEF CircleCIJobs
<1>2. \A v \in W : /\ Known(KeptIn(f, v)) = Known(RefsOf(f, v)) \ LeftIn(f, v)
                   /\ LeftIn(f, v) \subseteq Known(RefsOf(f, v))
  BY CircleCIKept, CircleCILeftIn
<1>3. Len(C!Workflows(f)) = 1 => \A v, w \in W : v = w
  <2>1. W = 1..Len(C!Workflows(f))
    BY CircleCIWorkflows DEF IsCircleCI
  <2> QED BY <2>1
<1> HIDE DEF W
<1>4. ASSUME NEW n \in UNION {Known(RefsOf(f, v)) : v \in W} PROVE n \in Known(p.jobs) \cup ToSet(p.skipped)
  <2>1. PICK v \in W : n \in Known(RefsOf(f, v))
    OBVIOUS
  <2> QED BY <1>1, <1>2, <2>1
<1>5. ToSet(p.skipped) = UNION {LeftIn(f, v) : v \in W}
  BY <1>1, <1>2
<1>6. ASSUME Len(C!Workflows(f)) = 1, NEW n \in Known(p.jobs) \cap ToSet(p.skipped) PROVE FALSE
  <2>1. PICK v \in W : n \in Known(KeptIn(f, v))
    BY <1>1
  <2>2. PICK w \in W : n \in LeftIn(f, w)
    BY <1>5
  <2> QED BY <1>2, <1>3, <1>6, <2>1, <2>2
<1> QED BY <1>4, <1>5, <1>6 DEF W

\* Whatever the file, each of its jobs is run or listed as skipped, and none is both but
\* a CircleCI job of two workflows (model.go:20-29).
THEOREM NoJobIsDropped == LocalSpec => []EveryJobIsAccountedFor
<1>1. ASSUME IInv, HasPipeline, provider = "circleci"
      PROVE  /\ Declared \subseteq BaseNames \cup Skipped
             /\ Len(C!Workflows(file)) = 1 => BaseNames \cap Skipped = {}
  <2>1. Declared = UNION {Known(RefsOf(file, v)) : v \in DOMAIN C!Workflows(file)}
    BY <1>1 DEF Declared, RefsOf
  <2>2. BaseNames = Known(out.jobs) /\ Skipped = ToSet(out.skipped)
    BY <1>1 DEF BaseNames, JobNames, Skipped
  <2>3. IsCircleCI(file) /\ CircleCIJobs(file, out)
    BY <1>1, CircleCIReturns
  <2> QED BY <2>1, <2>2, <2>3, CircleCIAccounts
<1>2. ASSUME IInv, HasPipeline, provider = "github-actions"
      PROVE  Declared \subseteq BaseNames \cup Skipped /\ BaseNames \cap Skipped = {}
  <2>1. file \in H!FileSet /\ out.skipped = H!SkippedIn(file)
    BY <1>2, GitHubReturns
  <2>2. Declared = GitHubDeclared(file)
    BY <1>2 DEF Declared, GitHubDeclared
  <2>3. Skipped = H!LeftOut(file)
    BY <2>1, GitHubSkipped DEF Skipped
  <2>4. BaseNames = {b \in Known(H!Kept(file)) : CombosOf(file, b) # {}}
    BY <1>2, GitHubNames
  <2>5. Known(H!Kept(file)) \cap H!LeftOut(file) = {}
    BY <2>1, GitHubKept
  <2>6. ASSUME NEW n \in GitHubDeclared(file), n \notin H!LeftOut(file)
        PROVE  n \in Known(H!Kept(file)) /\ CombosOf(file, n) # {}
    BY <2>1, <2>6, GitHubDeclaredFacts
  <2> QED BY <2>2, <2>3, <2>4, <2>5, <2>6
<1>3. ASSUME IInv, HasPipeline, provider = "gitlab"
      PROVE  Declared \subseteq BaseNames \cup Skipped /\ BaseNames \cap Skipped = {}
  <2>1. G!IsFile(file) /\ out = GitLabOut(file)
    BY <1>3, GitLabReturns
  <2>2. Declared = Known(G!Candidates(file))
    <3>1. Declared = {file.entries[x].name : x \in IsMapping(file)} \ Hidden
      BY <1>3 DEF Declared, IsMapping
    <3> QED BY <2>1, <3>1, GitLabCandidates
  <2>3. BaseNames = Known(out.jobs) /\ Skipped = ToSet(out.skipped)
    BY <1>3 DEF BaseNames, JobNames, Skipped
  <2>4. /\ Known(out.jobs) = {n \in Known(G!Candidates(file)) : GitLabRuns(file, n)}
        /\ ToSet(out.skipped) = {n \in Known(G!Candidates(file)) : ~GitLabRuns(file, n)}
    BY <2>1, GitLabOutFacts
  <2> QED BY <2>2, <2>3, <2>4
<1>4. IInv => EveryJobIsAccountedFor
  <2> SUFFICES ASSUME IInv, outcome = "parsed" PROVE EveryJobIsAccountedFor
    BY DEF EveryJobIsAccountedFor
  <2>1. HasPipeline /\ provider \in {"circleci", "github-actions", "gitlab"}
    BY DEF HasPipeline, IInv
  <2>2. CASE provider = "circleci"
    BY <1>1, <2>1, <2>2 DEF EveryJobIsAccountedFor
  <2>3. CASE provider = "github-actions"
    BY <1>2, <2>1, <2>3 DEF EveryJobIsAccountedFor
  <2>4. CASE provider = "gitlab"
    BY <1>3, <2>1, <2>4 DEF EveryJobIsAccountedFor
  <2> QED BY <2>1, <2>2, <2>3, <2>4
<1> QED BY <1>4, InductiveInvariant, PTL

-----------------------------------------------------------------------------
(* Faults stay with the jobs that have them. *)

\* The graph of a GitHub file's jobs, before any is left out.
EntriesOf(f) ==
    [x \in DOMAIN f.jobs |-> [name |-> f.jobs[x].name, depends |-> f.jobs[x].needs]]

HasNoFault(f) ==
    /\ ~LevelsFail(EntriesOf(f))
    /\ \A x \in DOMAIN f.jobs : \A y \in DOMAIN f.jobs[x].axes : IsInjective(f.jobs[x].axes[y])

LEMMA EntriesFacts ==
    ASSUME NEW f \in H!FileSet
    PROVE  /\ Known(EntriesOf(f)) = Known(f.jobs)
           /\ HasDuplicate(f.jobs) => HasDuplicate(EntriesOf(f))
           /\ \A n \in Known(H!Parsed(f)) : ToSet(H!BaseOf(f, n).needs) \subseteq DepsIn(EntriesOf(f), n)
<1> DEFINE L == EntriesOf(f)
<1>1. DOMAIN L = DOMAIN f.jobs /\ \A x \in DOMAIN f.jobs :
        L[x].name = f.jobs[x].name /\ L[x].depends = f.jobs[x].needs
  BY DEF EntriesOf
<1> HIDE DEF L
<1>2. Known(L) = Known(f.jobs)
  BY <1>1 DEF Known
<1>3. HasDuplicate(f.jobs) => HasDuplicate(L)
  BY <1>1 DEF HasDuplicate
<1>4. ASSUME NEW n \in Known(H!Parsed(f)) PROVE ToSet(H!BaseOf(f, n).needs) \subseteq DepsIn(L, n)
  <2>1. PICK x \in DoesParse(f) : H!BaseOf(f, n) = f.jobs[x]
    BY GitHubParsed
  <2>2. H!BaseOf(f, n).name = n
    BY GitHubParsed
  <2>3. x \in DOMAIN L /\ L[x].name = n /\ L[x].depends = H!BaseOf(f, n).needs
    BY <1>1, <2>1, <2>2 DEF DoesParse
  <2> QED BY <2>3 DEF DepsIn
<1> QED BY <1>2, <1>3, <1>4 DEF L

LEMMA GitHubNeedsKnown ==
    ASSUME NEW f \in H!FileSet, HasNoFault(f)
    PROVE  ~H!UnknownNeed(f)
<1>1. ~HasUnknown(EntriesOf(f))
  BY DEF HasNoFault, LevelsFail
<1>2. ASSUME NEW n \in Known(H!Kept(f)), NEW d \in ToSet(H!BaseOf(f, n).needs) PROVE d \in Known(H!Kept(f))
  <2>1. n \in Known(H!Parsed(f)) /\ n \notin H!LeftOut(f)
    BY GitHubKept
  <2>2. d \in DepsIn(EntriesOf(f), n) /\ n \in Known(EntriesOf(f))
    BY <2>1, EntriesFacts, GitHubLeftOut
  <2>3. d \in Known(f.jobs)
    BY <1>1, <2>2, EntriesFacts DEF HasUnknown
  <2>4. d \notin H!LeftOut(f)
    BY <2>1, GitHubLeftOut
  <2>5. d \in Known(H!Parsed(f))
    <3>1. PICK x \in DOMAIN f.jobs : f.jobs[x].name = d
      BY <2>3 DEF Known
    <3>2. d \notin H!Failed(f)
      BY <2>4, GitHubLeftOut
    <3>3. x \in DoesParse(f)
      BY <3>1, <3>2 DEF DoesParse, H!Failed
    <3>4. d \in {f.jobs[z].name : z \in DoesParse(f)}
      BY <3>1, <3>3
    <3> QED BY <3>4, GitHubParsed
  <2> QED BY <2>4, <2>5, GitHubKept
<1>3. \A n \in Known(H!Kept(f)) : ToSet(H!BaseOf(f, n).needs) \subseteq Known(H!Kept(f))
  BY <1>2
<1>4. H!Known(H!Kept(f)) = Known(H!Kept(f)) /\ \A s : H!ToSet(s) = ToSet(s)
  BY GitHubSame DEF H!ToSet, ToSet
<1> QED BY <1>3, <1>4 DEF H!UnknownNeed

LEMMA GitHubLevels ==
    ASSUME NEW f \in H!FileSet, HasNoFault(f)
    PROVE  ~LevelsFail(H!Nodes(f))
<1> DEFINE ns == H!Nodes(f)
           B == Known(H!Kept(f))
           Mine(b) == {GitHubNode(f, b, c) : c \in CombosOf(f, b)}
           Deps(b) == ToSet(H!BaseOf(f, b).needs)
<1>1. /\ ~HasDuplicate(EntriesOf(f)) /\ ~HasUnknown(EntriesOf(f)) /\ ~HasCycle(EntriesOf(f))
      /\ ~H!UnknownNeed(f)
  BY GitHubNeedsKnown DEF HasNoFault, LevelsFail
<1>2. ToSet(ns) = UNION {Mine(b) : b \in B}
  BY GitHubNodes
<1>3. B \subseteq Known(H!Parsed(f)) /\ Known(H!Parsed(f)) \subseteq Known(f.jobs)
  BY GitHubKept, GitHubLeftOut
<1>4. ~HasDuplicate(ns)
  <2>1. ~HasDuplicate(H!Kept(f))
    BY <1>1, EntriesFacts, GitHubBaseNodes, GitHubKept
  <2>2. ASSUME NEW b \in B PROVE IsInjective(H!Expansion(f, b))
    <3>1. PICK x \in DoesParse(f) : H!BaseOf(f, b) = f.jobs[x]
      BY <1>3, GitHubParsed
    <3>2. \A y \in DOMAIN H!BaseOf(f, b).axes : IsInjective(H!BaseOf(f, b).axes[y])
      BY <3>1 DEF HasNoFault, DoesParse
    <3> QED BY <1>3, <3>2, GitHubExpansion
  <2> QED BY <2>1, <2>2, GitHubNodes
<1>5. ASSUME NEW b \in B, NEW c \in CombosOf(f, b)
      PROVE  /\ Deps(b) \subseteq B
             /\ ToSet(GitHubNode(f, b, c).depends) = UNION {{n} \X CombosOf(f, n) : n \in Deps(b)}
             /\ GitHubNode(f, b, c).name = <<b, c>>
  <2>1. CombosOf(f, b) # {}
    OBVIOUS
  <2>2. /\ Deps(b) \subseteq B
        /\ ToSet(H!Resolved(f, b)) = UNION {{n} \X CombosOf(f, n) : n \in Deps(b)}
    BY <1>1, <2>1, GitHubResolved
  <2>3. GitHubNode(f, b, c).depends = H!Resolved(f, b) /\ GitHubNode(f, b, c).name = <<b, c>>
    BY DEF GitHubNode
  <2> HIDE DEF B, Deps
  <2> QED BY <2>2, <2>3
<1> HIDE DEF ns, B, Deps
<1>6. \A x \in DOMAIN ns : \E b \in B : \E c \in CombosOf(f, b) : ns[x] = GitHubNode(f, b, c)
  <2>1. \A x \in DOMAIN ns : ns[x] \in ToSet(ns)
    BY DEF ToSet
  <2>2. \A x \in DOMAIN ns : \E b \in B : ns[x] \in Mine(b)
    BY <1>2, <2>1
  <2> QED BY <2>2
<1>7. ASSUME NEW m \in Known(ns), NEW d \in DepsIn(ns, m)
      PROVE  \E b \in B : \E c \in CombosOf(f, b) : m = <<b, c>> /\ d[1] \in Deps(b)
                 /\ d[1] \in B /\ d \in {d[1]} \X CombosOf(f, d[1])
  <2>1. PICK x \in DOMAIN ns : ns[x].name = m /\ d \in ToSet(ns[x].depends)
    BY DEF DepsIn
  <2>2. PICK b \in B : \E c \in CombosOf(f, b) : ns[x] = GitHubNode(f, b, c)
    BY <1>6
  <2>3. PICK c \in CombosOf(f, b) : ns[x] = GitHubNode(f, b, c)
    BY <2>2
  <2>4. m = <<b, c>> /\ Deps(b) \subseteq B /\ d \in UNION {{n} \X CombosOf(f, n) : n \in Deps(b)}
    BY <1>5, <2>1, <2>3
  <2>5. PICK n \in Deps(b) : d \in {n} \X CombosOf(f, n)
    BY <2>4
  <2>6. d[1] = n
    BY <2>5
  <2> QED BY <2>4, <2>5, <2>6
<1>8. ~HasUnknown(ns)
  <2> SUFFICES ASSUME NEW m \in Known(ns), NEW d \in DepsIn(ns, m) PROVE d \in Known(ns)
    BY DEF HasUnknown
  <2>1. d[1] \in B /\ d \in {d[1]} \X CombosOf(f, d[1])
    BY <1>7
  <2>2. PICK c \in CombosOf(f, d[1]) : d = <<d[1], c>>
    BY <2>1
  <2>3. GitHubNode(f, d[1], c) \in ToSet(ns)
    BY <1>2, <2>1
  <2>4. PICK x \in DOMAIN ns : ns[x] = GitHubNode(f, d[1], c)
    BY <2>3 DEF ToSet
  <2>5. ns[x].name = d
    BY <2>2, <2>4 DEF GitHubNode
  <2> QED BY <2>5 DEF Known
<1>9. ASSUME HasCycle(ns) PROVE FALSE
  <2>1. PICK ring \in (SUBSET Known(ns)) \ {{}} : \A m \in ring : DepsIn(ns, m) \cap ring # {}
    BY <1>9 DEF HasCycle
  <2> DEFINE bases == {m[1] : m \in ring}
  <2>2. ASSUME NEW b \in bases
        PROVE  b \in Known(EntriesOf(f)) /\ DepsIn(EntriesOf(f), b) \cap bases # {}
    <3>1. PICK m \in ring : m[1] = b
      OBVIOUS
    <3>2. PICK d \in ring : d \in DepsIn(ns, m)
      BY <2>1
    <3>3. PICK a \in B : \E c \in CombosOf(f, a) : m = <<a, c>> /\ d[1] \in Deps(a)
      BY <1>7, <2>1, <3>2
    <3>4. a = b
      BY <3>1, <3>3
    <3>5. d[1] \in bases /\ d[1] \in Deps(b) /\ b \in B
      BY <3>2, <3>3, <3>4
    <3>6. b \in Known(H!Parsed(f)) /\ b \in Known(f.jobs)
      BY <1>3, <3>5 DEF B
    <3>7. Deps(b) \subseteq DepsIn(EntriesOf(f), b)
      BY <3>6, EntriesFacts DEF Deps
    <3>8. b \in Known(EntriesOf(f))
      BY <3>6, EntriesFacts
    <3> HIDE DEF bases
    <3> QED BY <3>5, <3>7, <3>8
  <2>3. bases \in (SUBSET Known(EntriesOf(f))) \ {{}}
    <3>1. PICK m \in ring : TRUE
      BY <2>1
    <3>2. m[1] \in bases
      OBVIOUS
    <3> HIDE DEF bases
    <3> QED BY <2>2, <3>2
  <2> HIDE DEF bases
  <2>4. HasCycle(EntriesOf(f))
    BY <2>2, <2>3 DEF HasCycle
  <2> QED BY <1>1, <2>4
<1> QED BY <1>4, <1>8, <1>9 DEF LevelsFail, ns

LEMMA GitHubRejects ==
    ASSUME NEW f \in H!FileSet, HasNoFault(f), ~H!Parse(f).ok
    PROVE  GitHubDeclared(f) = {}
<1> DEFINE ns == H!Nodes(f)
           order == ByLevel(ns, LevelIn(ns), MaxLevel(ns, LevelIn(ns)))
           jobs == [x \in DOMAIN order |-> H!JobOf(f, order[x], LevelIn(ns)[order[x].name])]
           All == UNION {{GitHubNode(f, b, c) : c \in CombosOf(f, b)} : b \in Known(H!Kept(f))}
<1>1. ~H!UnknownNeed(f) /\ ~LevelsFail(ns)
  BY GitHubNeedsKnown, GitHubLevels
<1>2. H!LevelsFail(ns) = LevelsFail(ns)
  BY GitHubGraph DEF H!LevelsFail, LevelsFail
<1>3. \E g : H!Parse(f) = Finished([ok |-> TRUE, jobs |-> jobs, skipped |-> H!SkippedIn(f), findings |-> g])
  <2>1. H!LevelIn(ns) = LevelIn(ns) /\ H!MaxLevel(ns, LevelIn(ns)) = MaxLevel(ns, LevelIn(ns))
        /\ H!ByLevel(ns, LevelIn(ns), MaxLevel(ns, LevelIn(ns))) = order
    BY GitHubGraph
  <2> QED BY <1>1, <1>2, <2>1, GitHubSame DEF H!Parse
<1>4. jobs = <<>> /\ H!SkippedIn(f) = <<>>
  <2>1. PICK g : H!Parse(f) = Finished([ok |-> TRUE, jobs |-> jobs, skipped |-> H!SkippedIn(f), findings |-> g])
    BY <1>3
  <2> DEFINE p == [ok |-> TRUE, jobs |-> jobs, skipped |-> H!SkippedIn(f), findings |-> g]
  <2>2. p.ok /\ p.jobs = jobs /\ p.skipped = H!SkippedIn(f) /\ H!Parse(f) = Finished(p)
    BY <2>1
  <2> HIDE DEF p, jobs
  <2> QED BY <2>2 DEF Finished
<1>5. H!LeftOut(f) = {}
  BY <1>4, GitHubSkipped DEF ToSet
<1>6. ns \in Seq(All) /\ ToSet(ns) = All
  BY GitHubNodes
<1>7. ToSet(order) = ToSet(ns)
  <2>1. ~HasUnknown(ns) /\ ~HasCycle(ns)
    BY <1>1 DEF LevelsFail
  <2> HIDE DEF ns, All
  <2>2. Permutes(order, ns)
    BY <1>6, <2>1, OrderFacts
  <2> HIDE DEF order
  <2> QED BY <2>2, PermutesFacts
<1>8. ToSet(order) = {}
  <2>1. DOMAIN order = DOMAIN jobs
    OBVIOUS
  <2> HIDE DEF order, jobs
  <2> QED BY <1>4, <2>1 DEF ToSet
<1>9. ASSUME NEW n \in GitHubDeclared(f) PROVE FALSE
  <2>1. n \in Known(H!Kept(f)) /\ CombosOf(f, n) # {}
    BY <1>5, GitHubDeclaredFacts
  <2>2. PICK c \in CombosOf(f, n) : TRUE
    BY <2>1
  <2>3. GitHubNode(f, n, c) \in All
    BY <2>1
  <2> HIDE DEF order, All, ns
  <2> QED BY <1>6, <1>7, <1>8, <2>3
<1> QED BY <1>9

LEMMA CircleCIRejects ==
    ASSUME NEW f, IsCircleCI(f), ~C!Parse(f).ok, f.hasWorkflows \/ Build \in Known(f.jobs)
    PROVE  \/ UNION {Known(RefsOf(f, v)) : v \in DOMAIN C!Workflows(f)} = {}
           \/ \E v \in DOMAIN C!Workflows(f) : LevelsFail(RefsOf(f, v))
<1>1. PICK p : C!Parse(f) = Finished(p) /\ After(f, Len(C!Workflows(f)), p)
  BY CircleCIParse
<1>2. DOMAIN C!Workflows(f) = 1..Len(C!Workflows(f))
  BY CircleCIWorkflows DEF IsCircleCI
<1>3. CASE ~p.ok
  <2>1. PICK v \in DOMAIN C!Workflows(f) : LevelsFail(KeptIn(f, v))
    BY <1>1, <1>2, <1>3 DEF After
  <2> QED BY <2>1, CircleCIKept
<1>4. CASE p.ok
  <2>1. p.jobs = <<>> /\ p.skipped = <<>>
    BY <1>1, <1>4 DEF Finished
  <2>2. Known(p.jobs) = {} /\ ToSet(p.skipped) = {}
    BY <2>1 DEF Known, ToSet
  <2>3. CircleCIJobs(f, p)
    BY <1>1, <1>4, CircleCIAfter
  <2> QED BY <2>2, <2>3, CircleCIAccounts
<1> QED BY <1>3, <1>4

\* Whatever the file, a job's fault costs that job and those that need it: of the jobs
\* that run none is faulty, a skipped one is faulty or needs one that is skipped, and a
\* file that is rejected has a fault of its own (circleci/parser.go:97-105,
\* githubactions/parser.go:84-88, 109-113; model.go:27-29).
THEOREM FaultsStayLocal == LocalSpec => []SkipsAreContained
<1> DEFINE Contained ==
        /\ \A n \in BaseNames : ~Faulty(n)
        /\ \A n \in Skipped : Faulty(n) \/ Needs(n) \cap Skipped # {}
<1>1. ASSUME IInv, HasPipeline, provider = "circleci" PROVE Contained
  <2> DEFINE W == DOMAIN C!Workflows(file)
             Defined == Known(C!Definitions(file))
  <2>1. IsCircleCI(file) /\ CircleCIJobs(file, out)
    BY <1>1, CircleCIReturns
  <2>2. BaseNames = Known(out.jobs) /\ Skipped = ToSet(out.skipped)
    BY <1>1 DEF BaseNames, JobNames, Skipped
  <2>3. \A n : Faulty(n) <=> n \notin Defined
    BY <1>1 DEF Faulty
  <2>4. \A n : Needs(n) = UNION {DepsIn(RefsOf(file, v), n) : v \in W}
    BY <1>1 DEF Needs, RefsOf
  <2>5. Skipped = UNION {LeftIn(file, v) : v \in W}
    BY <2>1, <2>2, CircleCIAccounts
  <2>6. BaseNames = UNION {Known(KeptIn(file, v)) : v \in W}
    BY <2>1, <2>2 DEF CircleCIJobs
  <2>7. ASSUME NEW n \in BaseNames PROVE n \in Defined
    <3>1. PICK v \in W : n \in Known(KeptIn(file, v))
      BY <2>6
    <3>2. n \in Known(RefsOf(file, v)) \ LeftIn(file, v)
      BY <2>1, <3>1, CircleCIKept
    <3> QED BY <2>1, <3>2, CircleCILeftIn
  <2>8. ASSUME NEW n \in Skipped PROVE n \notin Defined \/ Needs(n) \cap Skipped # {}
    <3>1. PICK v \in W : n \in LeftIn(file, v)
      BY <2>5
    <3>2. n \notin Defined \/ DepsIn(RefsOf(file, v), n) \cap LeftIn(file, v) # {}
      BY <2>1, <3>1, CircleCILeftIn
    <3>3. DepsIn(RefsOf(file, v), n) \subseteq Needs(n) /\ LeftIn(file, v) \subseteq Skipped
      BY <2>4, <2>5
    <3> QED BY <3>2, <3>3
  <2> QED BY <2>3, <2>7, <2>8
<1>2. ASSUME IInv, HasPipeline, provider = "github-actions" PROVE Contained
  <2>1. file \in H!FileSet /\ out.skipped = H!SkippedIn(file)
    BY <1>2, GitHubReturns
  <2>2. Skipped = H!LeftOut(file)
    BY <2>1, GitHubSkipped DEF Skipped
  <2>3. \A n : Faulty(n) <=> n \in H!Failed(file)
    BY <1>2 DEF Faulty
  <2>4. BaseNames \subseteq Known(H!Kept(file))
    BY <1>2, GitHubNames
  <2>5. Known(H!Kept(file)) \cap H!LeftOut(file) = {}
    BY <2>1, GitHubKept
  <2>6. H!Failed(file) \subseteq H!LeftOut(file)
    BY <2>1, GitHubLeftOut
  <2>7. ASSUME NEW n \in Known(H!Parsed(file)) PROVE ToSet(H!BaseOf(file, n).needs) \subseteq Needs(n)
    <3>1. H!BaseOf(file, n).name = n /\ \E x \in DoesParse(file) : H!BaseOf(file, n) = file.jobs[x]
      BY <2>1, GitHubParsed
    <3>2. PICK x \in DOMAIN file.jobs : file.jobs[x].name = n /\ H!BaseOf(file, n) = file.jobs[x]
      BY <3>1 DEF DoesParse
    <3>3. Needs(n) = UNION {ToSet(file.jobs[y].needs) : y \in {z \in DOMAIN file.jobs :
                                                                file.jobs[z].name = n}}
      BY <1>2 DEF Needs
    <3> QED BY <3>2, <3>3
  <2>8. ASSUME NEW n \in H!LeftOut(file)
        PROVE  n \in H!Failed(file) \/ Needs(n) \cap H!LeftOut(file) # {}
    <3>1. n \in H!Failed(file) \/
            (n \in Known(H!Parsed(file)) /\ ToSet(H!BaseOf(file, n).needs) \cap H!LeftOut(file) # {})
      BY <2>1, GitHubLeftOut
    <3> QED BY <2>7, <3>1
  <2> QED BY <2>2, <2>3, <2>4, <2>5, <2>6, <2>8
<1>3. ASSUME IInv, HasPipeline, provider = "gitlab" PROVE Contained
  <2>1. G!IsFile(file) /\ out = GitLabOut(file)
    BY <1>3, GitLabReturns
  <2>2. BaseNames = Known(out.jobs) /\ Skipped = ToSet(out.skipped)
    BY <1>3 DEF BaseNames, JobNames, Skipped
  <2>3. /\ Known(out.jobs) = {n \in Known(G!Candidates(file)) : GitLabRuns(file, n)}
        /\ ToSet(out.skipped) = {n \in Known(G!Candidates(file)) : ~GitLabRuns(file, n)}
    BY <2>1, GitLabOutFacts
  <2>4. \A n : Faulty(n) <=> ~GitLabRuns(file, n)
    BY <1>3 DEF Faulty, GitLabRuns
  <2> QED BY <2>2, <2>3, <2>4
<1>4. ASSUME IInv, outcome = "error", ~out.ok, provider = "circleci" PROVE FileFaulty
  <2>1. IsCircleCI(file) /\ out = C!Parse(file)
    BY <1>4, CircleCIFile DEF IInv
  <2>2. Declared = UNION {Known(RefsOf(file, v)) : v \in DOMAIN C!Workflows(file)}
    BY <1>4 DEF Declared, RefsOf
  <2>3. FileFaulty <=> \/ Declared = {}
                       \/ ~file.hasWorkflows /\ Build \notin Known(file.jobs)
                       \/ \E v \in DOMAIN C!Workflows(file) : LevelsFail(RefsOf(file, v))
    BY <1>4 DEF FileFaulty, RefsOf
  <2> QED BY <1>4, <2>1, <2>2, <2>3, CircleCIRejects
<1>5. ASSUME IInv, outcome = "error", ~out.ok, provider = "github-actions" PROVE FileFaulty
  <2>1. file \in H!FileSet /\ out = H!Parse(file)
    BY <1>5, FilesAssumption DEF IInv
  <2>2. Declared = GitHubDeclared(file)
    BY <1>5 DEF Declared, GitHubDeclared
  <2>3. FileFaulty <=> Declared = {} \/ ~HasNoFault(file)
    BY <1>5 DEF FileFaulty, HasNoFault, EntriesOf
  <2> QED BY <1>5, <2>1, <2>2, <2>3, GitHubRejects
<1>6. ASSUME IInv, outcome = "error", ~out.ok, provider = "gitlab" PROVE FileFaulty
  <2>1. G!IsFile(file) /\ out = G!Parse(file)
    BY <1>6, FilesAssumption DEF IInv
  <2>2. FileFaulty <=> Declared = {} \/ file.malformed
    BY <1>6 DEF FileFaulty
  <2>3. Declared = Known(G!Candidates(file))
    <3>1. Declared = {file.entries[x].name : x \in IsMapping(file)} \ Hidden
      BY <1>6 DEF Declared, IsMapping
    <3> QED BY <2>1, <3>1, GitLabCandidates
  <2>4. ~file.malformed => GitLabOut(file).jobs = <<>> /\ GitLabOut(file).skipped = <<>>
    <3>1. GitLabOut(file).ok
      BY DEF GitLabOut
    <3> QED BY <1>6, <2>1, <3>1, GitLabParse DEF Finished
  <2> QED BY <2>1, <2>2, <2>3, <2>4, GitLabOutFacts
<1>7. IInv => SkipsAreContained
  <2> SUFFICES ASSUME IInv PROVE SkipsAreContained
    OBVIOUS
  <2>1. provider \in {"circleci", "github-actions", "gitlab"} /\ (outcome = "parsed" => HasPipeline)
    BY DEF HasPipeline, IInv
  <2>2. outcome = "parsed" => Contained
    BY <1>1, <1>2, <1>3, <2>1
  <2>3. outcome = "error" /\ ~out.ok => FileFaulty
    BY <1>4, <1>5, <1>6, <2>1
  <2> QED BY <2>2, <2>3 DEF SkipsAreContained
<1> QED BY <1>7, InductiveInvariant, PTL

-----------------------------------------------------------------------------
(* The run of a pipeline that was parsed. *)

\* A name that two nodes would have is none of a job that is returned.
LEMMA GitHubUnique ==
    ASSUME NEW f \in H!FileSet, ~HasDuplicate(H!Nodes(f)), NEW b \in Known(H!Kept(f)), CombosOf(f, b) # {}
    PROVE  ~Twice(f.jobs, b)
<1> DEFINE bs == H!BaseNodes(f)
           kept == H!Kept(f)
           rows == [x \in DOMAIN kept |-> GitHubNodesOf(f, kept[x].name)]
           K == {x \in DOMAIN f.jobs : f.jobs[x].name \in Known(H!Parsed(f))}
           M == {x \in DOMAIN bs : bs[x].name \notin H!LeftOut(f)}
           known == Those(f.jobs, K)
<1>1. b \in Known(H!Parsed(f)) /\ b \notin H!LeftOut(f)
  BY GitHubKept
<1>2. ASSUME Twice(f.jobs, b) PROVE Twice(bs, b)
  <2>1. f.jobs \in Seq(H!JobSet) /\ K \in SUBSET DOMAIN f.jobs
    BY GitHubParsed
  <2>2. PICK x, y \in DOMAIN f.jobs : x # y /\ f.jobs[x].name = b /\ f.jobs[y].name = b
    BY <1>2 DEF Twice
  <2>3. x \in K /\ y \in K
    BY <1>1, <2>2
  <2>4. bs = [z \in DOMAIN known |->
                [name |-> known[z].name, depends |-> H!BaseOf(f, known[z].name).needs]]
    BY GitHubSame DEF H!BaseNodes, H!Select
  <2> HIDE DEF K, bs
  <2>5. Twice(Those(f.jobs, K), f.jobs[x].name)
    BY <2>1, <2>2, <2>3, ThoseTwice
  <2>6. Twice(known, b)
    BY <2>2, <2>5
  <2> HIDE DEF known
  <2> QED BY <2>4, <2>6 DEF Twice
<1>3. ASSUME Twice(bs, b) PROVE Twice(kept, b)
  <2>1. bs \in Seq(NodeSet)
    BY GitHubBaseNodes
  <2>2. PICK x, y \in DOMAIN bs : x # y /\ bs[x].name = b /\ bs[y].name = b
    BY <1>3 DEF Twice
  <2>3. x \in M /\ y \in M /\ M \in SUBSET DOMAIN bs
    BY <1>1, <2>2
  <2>4. kept = Those(bs, M)
    BY GitHubSame DEF H!Kept, H!Without
  <2> HIDE DEF M, bs, kept
  <2>5. Twice(Those(bs, M), bs[x].name)
    BY <2>1, <2>2, <2>3, ThoseTwice
  <2> QED BY <2>2, <2>4, <2>5
<1>4. ASSUME Twice(kept, b) PROVE FALSE
  <2> DEFINE All == UNION {{GitHubNode(f, a, c) : c \in CombosOf(f, a)} : a \in Known(kept)}
             ns == H!Nodes(f)
  <2>1. ns = FlattenSeq(rows)
    BY GitHubSame DEF H!Nodes, GitHubNodesOf
  <2>2. PICK x, y \in DOMAIN kept : x # y /\ kept[x].name = b /\ kept[y].name = b
    BY <1>4 DEF Twice
  <2>3. kept \in Seq(NodeSet)
    BY GitHubKept
  <2>4. ns \in Seq(All)
    BY GitHubNodes
  <2>5. IsInjective(ns)
    BY DEF HasDuplicate, IsInjective
  <2>6. rows = [z \in DOMAIN kept |-> rows[z]]
        /\ \A z \in DOMAIN kept : rows[z] = GitHubNodesOf(f, kept[z].name)
    OBVIOUS
  <2>7. GitHubNodesOf(f, b) # <<>>
    <3>1. ToSet(H!Expansion(f, b)) = {b} \X CombosOf(f, b) /\ H!Expansion(f, b) \in Seq({b} \X CombosOf(f, b))
      BY <1>1, GitHubExpansion
    <3>2. PICK c \in CombosOf(f, b) : TRUE
      OBVIOUS
    <3>3. PICK z \in DOMAIN H!Expansion(f, b) : H!Expansion(f, b)[z] = <<b, c>>
      BY <3>1, <3>2 DEF ToSet
    <3>4. DOMAIN GitHubNodesOf(f, b) = DOMAIN H!Expansion(f, b)
      BY DEF GitHubNodesOf
    <3> QED BY <3>3, <3>4
  <2>8. \A z \in DOMAIN kept : GitHubNodesOf(f, kept[z].name) \in Seq(ToSet(GitHubNodesOf(f, kept[z].name)))
    <3> SUFFICES ASSUME NEW z \in DOMAIN kept
                 PROVE  GitHubNodesOf(f, kept[z].name) \in Seq(ToSet(GitHubNodesOf(f, kept[z].name)))
      OBVIOUS
    <3> DEFINE a == kept[z].name
               names == H!Expansion(f, a)
    <3>1. a \in Known(H!Parsed(f))
      <4>1. a \in Known(kept)
        BY DEF Known
      <4> QED BY <4>1, GitHubKept
    <3>2. names \in Seq({a} \X CombosOf(f, a))
      BY <3>1, GitHubExpansion
    <3>3. GitHubNodesOf(f, a) = [v \in DOMAIN names |-> GitHubNodesOf(f, a)[v]]
          /\ DOMAIN GitHubNodesOf(f, a) = DOMAIN names
      BY DEF GitHubNodesOf
    <3> HIDE DEF names, a
    <3>4. \A v \in DOMAIN names : GitHubNodesOf(f, a)[v] \in ToSet(GitHubNodesOf(f, a))
      BY <3>3 DEF ToSet
    <3>5. GitHubNodesOf(f, a) \in Seq(ToSet(GitHubNodesOf(f, a)))
      BY <3>2, <3>3, <3>4, ArrayOver
    <3> QED BY <3>5 DEF a
  <2> DEFINE E == UNION {ToSet(rows[z]) : z \in DOMAIN kept}
  <2>9. \A z \in DOMAIN kept : rows[z] \in Seq(E)
    <3> SUFFICES ASSUME NEW z \in DOMAIN kept PROVE rows[z] \in Seq(E)
      OBVIOUS
    <3>1. rows[z] \in Seq(ToSet(rows[z])) /\ ToSet(rows[z]) \subseteq E
      BY <2>6, <2>8
    <3> HIDE DEF rows, E
    <3> QED BY <3>1, SeqWiden
  <2> HIDE DEF rows, E, kept, ns
  <2>10. rows \in Seq(Seq(E)) /\ DOMAIN rows = DOMAIN kept /\ Len(rows) = Len(kept)
    BY <2>3, <2>6, <2>9, ArrayOver
  <2>11. IsInjective(FlattenSeq(rows)) => DisjointUpTo(rows, Len(rows))
    BY <2>10, FlattenFacts
  <2>12. DOMAIN rows = 1..Len(rows)
    BY <2>10
  <2>13. ToSet(rows[x]) \cap ToSet(rows[y]) = {}
    BY <2>1, <2>2, <2>5, <2>10, <2>11, <2>12 DEF DisjointUpTo
  <2>14. rows[x] = GitHubNodesOf(f, b) /\ rows[y] = rows[x] /\ rows[x] \in Seq(E)
    BY <2>2, <2>6, <2>9
  <2>15. 1 \in DOMAIN rows[x]
    BY <2>7, <2>14
  <2> QED BY <2>13, <2>14, <2>15 DEF ToSet
<1> QED BY <1>2, <1>3, <1>4

JobLists(jobs) ==
    /\ jobs \in Seq(ToSet(jobs))
    /\ \A x \in DOMAIN jobs : jobs[x].depends \in Seq(ToSet(jobs[x].depends))

LEMMA GitHubLists ==
    ASSUME IInv, HasPipeline, provider = "github-actions"
    PROVE  JobLists(out.jobs)
<1> DEFINE ns == H!Nodes(file)
           order == GitHubOrder(file)
           All == UNION {{GitHubNode(file, b, c) : c \in CombosOf(file, b)} : b \in Known(H!Kept(file))}
<1>1. /\ file \in H!FileSet /\ ~H!UnknownNeed(file) /\ ~HasUnknown(ns) /\ ~HasCycle(ns)
      /\ out.jobs = [x \in DOMAIN order |-> H!JobOf(file, order[x], LevelIn(ns)[order[x].name])]
  BY GitHubReturns
<1>2. ns \in Seq(All) /\ ToSet(ns) = All
  BY <1>1, GitHubNodes
<1>3. order \in Seq(All)
  <2> HIDE DEF ns, All
  <2> QED BY <1>1, <1>2, OrderFacts DEF GitHubOrder, ns
<1>4. out.jobs = [x \in DOMAIN order |-> out.jobs[x]] /\ DOMAIN out.jobs = DOMAIN order
  BY <1>1
<1>5. out.jobs \in Seq(ToSet(out.jobs))
  <2>1. \A x \in DOMAIN order : out.jobs[x] \in ToSet(out.jobs)
    BY <1>4 DEF ToSet
  <2> HIDE DEF order, All
  <2> QED BY <1>3, <1>4, <2>1, ArrayOver
<1>6. ASSUME NEW x \in DOMAIN out.jobs PROVE out.jobs[x].depends \in Seq(ToSet(out.jobs[x].depends))
  <2>1. PICK node \in ToSet(ns) : out.jobs[x].depends = node.depends
    BY GitHubJobs
  <2>2. PICK b \in Known(H!Kept(file)) : \E c \in CombosOf(file, b) : node = GitHubNode(file, b, c)
    BY <1>2, <2>1
  <2>3. PICK c \in CombosOf(file, b) : node = GitHubNode(file, b, c)
    BY <2>2
  <2>4. node.depends = H!Resolved(file, b) /\ CombosOf(file, b) # {}
    BY <2>3 DEF GitHubNode
  <2>5. H!Resolved(file, b) \in Seq(ToSet(H!Resolved(file, b)))
    BY <1>1, <2>4, GitHubResolved
  <2> QED BY <2>1, <2>4, <2>5
<1> QED BY <1>5, <1>6 DEF JobLists

LEMMA CircleCILists ==
    ASSUME IInv, HasPipeline, provider = "circleci"
    PROVE  JobLists(out.jobs)
<1>1. IsCircleCI(file) /\ CircleCIJobs(file, out)
  BY CircleCIReturns
<1>2. out.jobs \in Seq(ToSet(out.jobs))
  BY <1>1 DEF CircleCIJobs
<1>3. ASSUME NEW x \in DOMAIN out.jobs PROVE out.jobs[x].depends \in Seq(ToSet(out.jobs[x].depends))
  <2>1. PICK v \in DOMAIN C!Workflows(file) : \E y \in DOMAIN KeptIn(file, v) :
            SameJob(file, out.jobs[x], KeptIn(file, v)[y])
    BY <1>1 DEF CircleCIJobs
  <2>2. PICK y \in DOMAIN KeptIn(file, v) : SameJob(file, out.jobs[x], KeptIn(file, v)[y])
    BY <2>1
  <2>3. KeptIn(file, v)[y] \in NodeSet
    <3>1. KeptIn(file, v) \in Seq(NodeSet)
      BY <1>1, CircleCIKept
    <3> QED BY <3>1
  <2>4. out.jobs[x].depends \in Seq(Name)
    BY <2>2, <2>3 DEF SameJob, NodeSet
  <2> DEFINE d == out.jobs[x].depends
  <2>5. d \in Seq(Name)
    BY <2>4
  <2> HIDE DEF d
  <2>6. d \in [1..Len(d) -> ToSet(d)] /\ Len(d) \in Nat
    BY <2>5 DEF ToSet
  <2>7. d \in Seq(ToSet(d))
    BY <2>6
  <2> QED BY <2>7 DEF d
<1> QED BY <1>2, <1>3 DEF JobLists

LEMMA GitLabLists ==
    ASSUME IInv, HasPipeline, provider = "gitlab"
    PROVE  JobLists(out.jobs)
<1> DEFINE run == GitLabRunnable(file)
<1>1. G!IsFile(file) /\ out = GitLabOut(file)
  BY GitLabReturns
<1>2. run \in Seq(ToSet(file.entries))
  BY <1>1, GitLabParts
<1>3. DOMAIN out.jobs = DOMAIN run /\ out.jobs = [x \in DOMAIN run |-> out.jobs[x]]
  <2>1. out.jobs = G!AssignDependsOn(G!Stages(file), GitLabJobs(file))
    BY <1>1 DEF GitLabOut
  <2> QED BY <2>1 DEF G!AssignDependsOn, GitLabJobs
<1> HIDE DEF run
<1>4. out.jobs \in Seq(ToSet(out.jobs))
  <2>1. \A x \in DOMAIN run : out.jobs[x] \in ToSet(out.jobs)
    BY <1>3 DEF ToSet
  <2> QED BY <1>2, <1>3, <2>1, ArrayOver
<1>5. ASSUME NEW x \in DOMAIN out.jobs PROVE out.jobs[x].depends \in Seq(ToSet(out.jobs[x].depends))
  <2> DEFINE jobs == GitLabJobs(file)
             st == out.jobs[x].stage
             p == G!Preceding(G!Stages(file), jobs, st)
  <2>1. out.jobs[x].depends = Named(p)
    BY <1>1, <1>3, GitLabOutFacts DEF run
  <2>2. jobs \in Seq(ToSet(jobs))
    <3>1. DOMAIN jobs = DOMAIN run /\ jobs = [y \in DOMAIN run |-> jobs[y]]
      BY DEF GitLabJobs, run
    <3> HIDE DEF jobs
    <3>2. \A y \in DOMAIN run : jobs[y] \in ToSet(jobs)
      BY <3>1 DEF ToSet
    <3> QED BY <1>2, <3>1, <3>2, ArrayOver
  <2> HIDE DEF jobs, st
  <2>3. p = <<>> \/ \E K \in SUBSET DOMAIN jobs : p = Those(jobs, K)
    BY GitLabThose DEF G!Preceding, G!Select
  <2> HIDE DEF p
  <2>4. p \in Seq(ToSet(jobs))
    <3>1. CASE p = <<>>
      BY <3>1
    <3>2. CASE \E K \in SUBSET DOMAIN jobs : p = Those(jobs, K)
      BY <2>2, <3>2, ThoseSet
    <3> QED BY <2>3, <3>1, <3>2
  <2>5. Named(p) \in Seq(Known(p)) /\ ToSet(Named(p)) = Known(p)
    BY <2>4, NamedFacts
  <2> QED BY <2>1, <2>5
<1> QED BY <1>4, <1>5 DEF JobLists

LEMMA PipelineLists == ASSUME IInv, HasPipeline PROVE JobLists(out.jobs)
<1>1. provider \in {"circleci", "github-actions", "gitlab"}
  BY DEF IInv
<1> QED BY <1>1, CircleCILists, GitHubLists, GitLabLists

\* What the scheduler sees of a pipeline.
LEMMA RunSees ==
    ASSUME JobLists(out.jobs)
    PROVE  /\ R!JobNames = JobNames /\ \A n \in JobNames : R!Deps(n) = DepsIn(out.jobs, n)
           /\ R!HasDuplicate <=> HasDuplicate(out.jobs)
           /\ R!HasUnknownDep <=> HasUnknown(out.jobs)
<1>1. R!JobNames = JobNames
  BY DEF R!JobNames, AsPipeline, R!ToSet, JobNames, Known
<1>2. ASSUME NEW n \in JobNames PROVE R!Deps(n) = DepsIn(out.jobs, n)
  <2> DEFINE rows == [x \in DOMAIN out.jobs |-> IF out.jobs[x].name = n THEN out.jobs[x].depends ELSE <<>>]
             E == UNION {ToSet(out.jobs[x].depends) : x \in DOMAIN out.jobs}
  <2>1. R!Deps(n) = ToSet(FlattenSeq(rows))
    BY DEF R!Deps, AsPipeline, R!ToSet, ToSet, DependsOn
  <2>2. rows = [x \in DOMAIN out.jobs |-> rows[x]]
    OBVIOUS
  <2>3. \A x \in DOMAIN out.jobs : rows[x] \in Seq(E)
    <3> SUFFICES ASSUME NEW x \in DOMAIN out.jobs PROVE rows[x] \in Seq(E)
      OBVIOUS
    <3>1. out.jobs[x].depends \in Seq(ToSet(out.jobs[x].depends)) /\ ToSet(out.jobs[x].depends) \subseteq E
      BY DEF JobLists
    <3> HIDE DEF E
    <3>2. out.jobs[x].depends \in Seq(E)
      BY <3>1, SeqWiden
    <3> QED BY <3>2
  <2>4. out.jobs \in Seq(ToSet(out.jobs))
    BY DEF JobLists
  <2>5. \A x \in DOMAIN out.jobs : rows[x] = IF out.jobs[x].name = n THEN out.jobs[x].depends ELSE <<>>
    OBVIOUS
  <2> HIDE DEF rows, E
  <2>6. rows \in Seq(Seq(E)) /\ DOMAIN rows = DOMAIN out.jobs
    BY <2>2, <2>3, <2>4, ArrayOver
  <2>7. ToSet(FlattenSeq(rows)) = UNION {ToSet(rows[x]) : x \in DOMAIN rows}
    BY <2>6, FlattenFacts
  <2>8. UNION {ToSet(rows[x]) : x \in DOMAIN rows} = DepsIn(out.jobs, n)
    <3>1. ToSet(<<>>) = {}
      BY DEF ToSet
    <3>2. \A x \in DOMAIN out.jobs : ToSet(rows[x]) = IF out.jobs[x].name = n
                                                      THEN ToSet(out.jobs[x].depends) ELSE {}
      BY <2>5, <3>1
    <3> QED BY <2>6, <3>2 DEF DepsIn
  <2> QED BY <2>1, <2>7, <2>8
<1>3. R!HasDuplicate <=> HasDuplicate(out.jobs)
  BY DEF R!HasDuplicate, AsPipeline, HasDuplicate
<1>4. R!HasUnknownDep <=> HasUnknown(out.jobs)
  BY <1>1, <1>2 DEF R!HasUnknownDep, HasUnknown, JobNames
<1> QED BY <1>1, <1>2, <1>3, <1>4

\* What states says of a run, in terms of the dependencies of the pipeline.
RunInv ==
    /\ outcome # "run" => states = <<>> /\ result = "none"
    /\ outcome = "run" =>
        /\ ~HasDuplicate(out.jobs) /\ ~HasUnknown(out.jobs) /\ ~HasCycle(out.jobs)
        /\ states \in [JobNames -> R!Outcomes]
        /\ \A n \in JobNames :
            /\ Begun(n) => \A d \in DepsIn(out.jobs, n) : states[d] = "success"
            /\ states[n] = "skipped" =>
                    \E d \in DepsIn(out.jobs, n) : states[d] \in {"failed", "skipped"}
        /\ result = "nil" => \A n \in JobNames : states[n] = "success"

LEMMA ImportsRunInv == ASSUME RunInv, IInv, Imports PROVE RunInv'
<1>1. outcome # "run" /\ outcome' # "run"
  <2>1. CASE ParseCircleCI \/ ParseGitHub \/ ParseGitLab
    BY <2>1 DEF ParseCircleCI, ParseGitHub, ParseGitLab, Parsed
  <2>2. CASE NoDaemon \/ Plan
    BY <2>2 DEF NoDaemon, Plan, Ends
  <2>3. CASE Check
    BY <2>3, ConfidenceIsNoPlace DEF Check, Ends
  <2> QED BY <2>1, <2>2, <2>3 DEF Imports
<1>2. states' = states /\ result' = result
  BY DEF Imports, runVars
<1> QED BY <1>1, <1>2 DEF RunInv

LEMMA CallRunInv == ASSUME RunInv, IInv, AcceptedIsRunnable, CallRun PROVE RunInv'
<1>1. /\ outcome = "parsed" /\ outcome' = (IF RunRejects(out) THEN "rejected" ELSE "run")
      /\ out' = out /\ result' = result
      /\ states' = IF RunRejects(out) THEN states ELSE [n \in JobNames |-> "pending"]
  BY DEF CallRun, Run, Ends
<1>2. JobNames' = JobNames
  BY <1>1 DEF JobNames
<1>3. CASE RunRejects(out)
  BY <1>1, <1>3 DEF RunInv
<1>4. CASE ~RunRejects(out)
  <2>1. outcome' = "run" /\ result' = "none" /\ states' = [n \in JobNames |-> "pending"]
    BY <1>1, <1>4 DEF RunInv
  <2>2. ~HasDuplicate(out.jobs) /\ ~HasUnknown(out.jobs) /\ ~HasCycle(out.jobs)
    BY <1>1, <1>4 DEF RunRejects, AcceptedIsRunnable
  <2>3. states' \in [JobNames -> R!Outcomes] /\ \A n \in JobNames : states'[n] = "pending"
    BY <2>1 DEF R!Outcomes
  <2> QED BY <1>1, <1>2, <2>1, <2>2, <2>3 DEF RunInv, Begun
<1> QED BY <1>3, <1>4

\* A step of a run that changes what has become of one job.
Becomes(j, from, to) ==
    /\ result = "none" /\ result' = result /\ j \in JobNames /\ states[j] = from
    /\ states' = [states EXCEPT ![j] = to]

LEMMA BecomesRunInv ==
    ASSUME RunInv, outcome = "run", UNCHANGED vars,
           NEW j, NEW from \in {"pending", "running"}, NEW to \in R!Outcomes, Becomes(j, from, to),
           to \in {"running", "success", "failed"} =>
                \A d \in DepsIn(out.jobs, j) : states[d] = "success",
           to = "skipped" => \E d \in DepsIn(out.jobs, j) : states[d] \in {"failed", "skipped"}
    PROVE  RunInv'
<1>1. outcome' = outcome /\ out' = out /\ JobNames' = JobNames
  BY DEF vars, JobNames
<1>2. /\ states \in [JobNames -> R!Outcomes] /\ j \in JobNames
      /\ ~HasDuplicate(out.jobs) /\ ~HasUnknown(out.jobs) /\ ~HasCycle(out.jobs)
      /\ result' = "none"
  BY DEF RunInv, Becomes
<1>3. /\ states' \in [JobNames -> R!Outcomes] /\ states'[j] = to
      /\ \A n \in JobNames : n # j => states'[n] = states[n]
  BY <1>2 DEF Becomes
<1>4. \A n \in JobNames : \A d \in DepsIn(out.jobs, n) : d \in JobNames
  BY <1>2 DEF HasUnknown, JobNames
<1>5. \A d \in JobNames : states[d] \in {"success", "failed", "skipped"} => states'[d] = states[d]
  BY <1>3 DEF Becomes
<1>6. ASSUME NEW n \in JobNames, Begun(n)' PROVE \A d \in DepsIn(out.jobs, n) : states'[d] = "success"
  <2>1. states'[n] \in {"running", "success", "failed"}
    BY <1>6 DEF Begun
  <2>2. \A d \in DepsIn(out.jobs, n) : states[d] = "success"
    <3>1. CASE n = j
      BY <1>3, <2>1, <3>1
    <3>2. CASE n # j
      BY <1>3, <2>1, <3>2 DEF RunInv, Begun
    <3> QED BY <3>1, <3>2
  <2> QED BY <1>4, <1>5, <2>2
<1>7. ASSUME NEW n \in JobNames, states'[n] = "skipped"
      PROVE  \E d \in DepsIn(out.jobs, n) : states'[d] \in {"failed", "skipped"}
  <2>1. \E d \in DepsIn(out.jobs, n) : states[d] \in {"failed", "skipped"}
    <3>1. CASE n = j
      BY <1>3, <1>7, <3>1
    <3>2. CASE n # j
      BY <1>3, <1>7, <3>2 DEF RunInv
    <3> QED BY <3>1, <3>2
  <2> QED BY <1>4, <1>5, <2>1
<1> QED BY <1>1, <1>2, <1>3, <1>6, <1>7 DEF RunInv

LEMMA RunsRunInv == ASSUME RunInv, IInv, RunGoesOn PROVE RunInv'
<1>1. outcome = "run" /\ HasPipeline /\ UNCHANGED vars
  BY DEF RunGoesOn, Followed, HasPipeline
<1>2. /\ states \in [JobNames -> R!Outcomes]
      /\ ~HasDuplicate(out.jobs) /\ ~HasUnknown(out.jobs) /\ ~HasCycle(out.jobs)
  BY <1>1 DEF RunInv
<1>3. R!JobNames = JobNames /\ \A n \in JobNames : R!Deps(n) = DepsIn(out.jobs, n)
  BY <1>1, PipelineLists, RunSees
<1>4. \A n \in JobNames : \A d \in DepsIn(out.jobs, n) : d \in JobNames
  BY <1>2 DEF HasUnknown, JobNames
<1>5. ASSUME NEW j \in JobNames, R!Start(j) PROVE RunInv'
  <2>1. Becomes(j, "pending", "running") /\ \A d \in DepsIn(out.jobs, j) : states[d] = "success"
    BY <1>3, <1>5 DEF R!Start, R!Runnable, Becomes
  <2>2. "running" \in R!Outcomes
    BY DEF R!Outcomes
  <2> QED BY <1>1, <2>1, <2>2, BecomesRunInv
<1>6. ASSUME NEW j \in JobNames, R!Skip(j) PROVE RunInv'
  <2>1. /\ Becomes(j, "pending", "skipped")
        /\ \A d \in DepsIn(out.jobs, j) : states[d] \in R!Terminal
        /\ \E d \in DepsIn(out.jobs, j) : states[d] # "success"
    BY <1>3, <1>6 DEF R!Skip, R!Runnable, Becomes
  <2>2. \E d \in DepsIn(out.jobs, j) : states[d] \in {"failed", "skipped"}
    BY <2>1 DEF R!Terminal
  <2>3. "skipped" \in R!Outcomes
    BY DEF R!Outcomes
  <2> QED BY <1>1, <2>1, <2>2, <2>3, BecomesRunInv
<1>7. ASSUME NEW j \in JobNames, NEW o \in {"success", "failed"}, R!Finish(j, o) PROVE RunInv'
  <2>1. Becomes(j, "running", o)
    BY <1>7 DEF R!Finish, R!Runnable, Becomes
  <2>2. \A d \in DepsIn(out.jobs, j) : states[d] = "success"
    <3>1. states[j] = "running"
      BY <2>1 DEF Becomes
    <3> QED BY <1>1, <3>1 DEF RunInv, Begun
  <2>3. o \in R!Outcomes
    BY DEF R!Outcomes
  <2> QED BY <1>1, <2>1, <2>2, <2>3, BecomesRunInv
<1>8. ASSUME R!Return PROVE RunInv'
  <2>1. /\ states' = states /\ \A j \in JobNames : states[j] \in R!Terminal
        /\ result' = "nil" => {j \in JobNames : states[j] = "failed"} = {}
    BY <1>3, <1>8 DEF R!Return
  <2>2. ASSUME result' = "nil", NEW n \in JobNames, states[n] # "success" PROVE FALSE
    <3> DEFINE S == {m \in JobNames : states[m] = "skipped"}
    <3>1. \A m \in JobNames : states[m] \in {"success", "skipped"}
      BY <2>1, <2>2 DEF R!Terminal
    <3>2. n \in S
      BY <2>2, <3>1
    <3>3. ASSUME NEW m \in S PROVE DepsIn(out.jobs, m) \cap S # {}
      <4>1. PICK d \in DepsIn(out.jobs, m) : states[d] \in {"failed", "skipped"}
        BY <1>1 DEF RunInv
      <4>2. d \in JobNames
        BY <1>4
      <4> QED BY <3>1, <4>1, <4>2
    <3>4. S \in (SUBSET Known(out.jobs)) \ {{}}
      BY <3>2 DEF JobNames
    <3> HIDE DEF S
    <3> QED BY <1>2, <3>3, <3>4 DEF HasCycle
  <2>3. outcome' = outcome /\ out' = out /\ JobNames' = JobNames
    BY <1>1 DEF vars, JobNames
  <2> QED BY <1>1, <2>1, <2>2, <2>3 DEF RunInv, Begun
<1>9. R!Return \/ \E n \in JobNames : R!Start(n) \/ R!Skip(n) \/ FinishJob(n)
  BY DEF RunGoesOn
<1> QED BY <1>5, <1>6, <1>7, <1>8, <1>9 DEF FinishJob

LEMMA StepRunInv == ASSUME RunInv, IInv, AcceptedIsRunnable, [LocalNext]_<<vars, runVars>> PROVE RunInv'
<1>1. CASE Imports
  BY <1>1, ImportsRunInv
<1>2. CASE CallRun
  BY <1>2, CallRunInv
<1>3. CASE RunGoesOn
  BY <1>3, RunsRunInv
<1>4. CASE Over \/ UNCHANGED <<vars, runVars>>
  BY <1>4 DEF Over, vars, runVars, RunInv, JobNames, Begun
<1> QED BY <1>1, <1>2, <1>3, <1>4 DEF LocalNext

\* A run of any pipeline that a parser returns keeps to the pipeline's dependencies: this
\* is the strengthening RunInv of RunFollowsTheFile (docker.go:305-383).
THEOREM RunInvariant == LocalSpec => []RunInv
<1>1. LocalInit => RunInv
  BY DEF LocalInit, Init, RunInv
<1>2. IInv /\ AcceptedIsRunnable /\ RunInv /\ [LocalNext]_<<vars, runVars>> => RunInv'
  BY StepRunInv
<1> QED BY <1>1, <1>2, InductiveInvariant, PipelinesAreRunnable, PTL DEF LocalSpec

LEMMA CircleCIFollows ==
    ASSUME IInv, RunInv, outcome = "run", provider = "circleci", NEW n \in JobNames
    PROVE  DepsIn(out.jobs, n) \in Predecessors(n)
<1>1. IsCircleCI(file) /\ CircleCIJobs(file, out) /\ ~HasDuplicate(out.jobs)
  BY CircleCIReturns DEF HasPipeline, RunInv
<1>2. PICK y \in DOMAIN out.jobs : out.jobs[y].name = n
  BY DEF JobNames, Known
<1>3. PICK v \in DOMAIN C!Workflows(file) : \E x \in DOMAIN KeptIn(file, v) :
            SameJob(file, out.jobs[y], KeptIn(file, v)[x])
  BY <1>1, <1>2 DEF CircleCIJobs
<1>4. PICK x \in DOMAIN KeptIn(file, v) : SameJob(file, out.jobs[y], KeptIn(file, v)[x])
  BY <1>3
<1>5. n \in Known(KeptIn(file, v))
  BY <1>2, <1>4 DEF SameJob, Known
<1>6. n \in Known(RefsOf(file, v)) /\ DepsIn(KeptIn(file, v), n) = DepsIn(RefsOf(file, v), n)
  BY <1>1, <1>5, CircleCIKept
<1>7. DepsIn(out.jobs, n) = ToSet(out.jobs[y].depends)
  BY <1>1, <1>2 DEF HasDuplicate, DepsIn
<1>8. ASSUME NEW z \in DOMAIN KeptIn(file, v), KeptIn(file, v)[z].name = n
      PROVE  KeptIn(file, v)[z].depends = out.jobs[y].depends
  <2>1. PICK u \in DOMAIN out.jobs : SameJob(file, out.jobs[u], KeptIn(file, v)[z])
    BY <1>1 DEF CircleCIJobs
  <2>2. u = y
    BY <1>1, <1>2, <1>8, <2>1 DEF SameJob, HasDuplicate
  <2> QED BY <2>1, <2>2 DEF SameJob
<1>9. DepsIn(KeptIn(file, v), n) = ToSet(out.jobs[y].depends)
  <2>1. KeptIn(file, v)[x].name = n
    BY <1>2, <1>4 DEF SameJob
  <2> QED BY <1>8, <2>1 DEF DepsIn
<1>10. DepsIn(out.jobs, n) = DepsIn(C!Workflows(file)[v].refs, n) /\ n \in Known(C!Workflows(file)[v].refs)
  BY <1>6, <1>7, <1>9 DEF RefsOf
<1>11. v \in {w \in DOMAIN C!Workflows(file) : n \in Known(C!Workflows(file)[w].refs)}
  BY <1>10
<1>12. Predecessors(n) = {DepsIn(C!Workflows(file)[w].refs, n) :
            w \in {u \in DOMAIN C!Workflows(file) : n \in Known(C!Workflows(file)[u].refs)}}
  BY DEF Predecessors
<1> QED BY <1>10, <1>11, <1>12

LEMMA GitHubFollows ==
    ASSUME IInv, RunInv, outcome = "run", provider = "github-actions", NEW n \in JobNames
    PROVE  DepsIn(out.jobs, n) \in Predecessors(n)
<1>1. HasPipeline
  BY DEF HasPipeline
<1>2. file \in H!FileSet /\ ~HasDuplicate(H!Nodes(file)) /\ ~HasDuplicate(out.jobs)
  BY <1>1, GitHubReturns DEF RunInv
<1>3. PICK x \in DOMAIN out.jobs : out.jobs[x].name = n
  BY DEF JobNames, Known
<1>4. DepsIn(out.jobs, n) = ToSet(out.jobs[x].depends)
  BY <1>2, <1>3 DEF HasDuplicate, DepsIn
<1>5. ToSet(out.jobs[x].depends) = {m \in JobNames : m[1] \in ToSet(H!BaseOf(file, n[1]).needs)}
  BY <1>1, <1>3, GitHubCovers
<1>6. Needs(n[1]) = ToSet(H!BaseOf(file, n[1]).needs)
  <2> DEFINE b == n[1]
  <2>1. b \in BaseNames
    BY DEF BaseNames
  <2>2. b \in Known(H!Kept(file)) /\ CombosOf(file, b) # {}
    BY <1>1, <2>1, GitHubNames
  <2>3. b \in Known(H!Parsed(file))
    BY <1>2, <2>2, GitHubKept
  <2>4. PICK y \in DoesParse(file) : H!BaseOf(file, b) = file.jobs[y]
    BY <1>2, <2>3, GitHubParsed
  <2>5. file.jobs[y].name = b /\ y \in DOMAIN file.jobs
    BY <1>2, <2>3, <2>4, GitHubParsed DEF DoesParse
  <2>6. ~Twice(file.jobs, b)
    BY <1>2, <2>2, GitHubUnique
  <2>7. {z \in DOMAIN file.jobs : file.jobs[z].name = b} = {y}
    BY <2>5, <2>6 DEF Twice
  <2>8. Needs(b) = UNION {ToSet(file.jobs[z].needs) : z \in {u \in DOMAIN file.jobs : file.jobs[u].name = b}}
    BY DEF Needs
  <2> HIDE DEF b
  <2>9. Needs(b) = ToSet(file.jobs[y].needs)
    BY <2>7, <2>8
  <2> QED BY <2>4, <2>9 DEF b
<1>7. Predecessors(n) = {{m \in JobNames : m[1] \in Needs(n[1])}}
  BY DEF Predecessors
<1> QED BY <1>4, <1>5, <1>6, <1>7

LEMMA GitLabStageOf ==
    ASSUME IInv, RunInv, outcome = "run", provider = "gitlab"
    PROVE  /\ \A x \in DOMAIN out.jobs : StageOf(out.jobs[x].name) = GitLabIndex(file)[x]
           /\ Staged(out.jobs, GitLabIndex(file), Len(G!Stages(file))) /\ Len(G!Stages(file)) \in Nat
           /\ Known(out.jobs) \subseteq Name
<1>1. G!IsFile(file) /\ out = GitLabOut(file) /\ ~HasDuplicate(out.jobs)
  BY GitLabReturns DEF HasPipeline, RunInv
<1>2. GitLabIndex(file) = [x \in DOMAIN out.jobs |-> G!StageIndex(G!Stages(file), out.jobs[x].stage)]
  BY <1>1 DEF GitLabIndex
<1>3. ASSUME NEW x \in DOMAIN out.jobs PROVE StageOf(out.jobs[x].name) = GitLabIndex(file)[x]
  <2>1. {y \in DOMAIN out.jobs : out.jobs[y].name = out.jobs[x].name} = {x}
    BY <1>1 DEF HasDuplicate
  <2> DEFINE index(y) == G!StageIndex(G!Stages(file), out.jobs[y].stage)
  <2>2. {index(y) : y \in {z \in DOMAIN out.jobs : out.jobs[z].name = out.jobs[x].name}} = {index(x)}
    <3> HIDE DEF index
    <3> QED BY <2>1
  <2>3. StageOf(out.jobs[x].name) = CHOOSE s \in {index(x)} : TRUE
    BY <2>2 DEF StageOf
  <2>4. GitLabIndex(file)[x] = index(x)
    BY <1>2
  <2> HIDE DEF index
  <2> QED BY <2>3, <2>4
<1>4. Staged(out.jobs, GitLabIndex(file), Len(G!Stages(file)))
  BY <1>1, GitLabStaged
<1>5. Len(G!Stages(file)) \in Nat
  BY <1>1, StagesAreList
<1>6. Known(out.jobs) \subseteq Name
  <2>1. Known(out.jobs) \subseteq Known(G!Candidates(file))
    BY <1>1, GitLabOutFacts
  <2>2. Known(G!Candidates(file)) \subseteq Known(file.entries) /\ Known(file.entries) \subseteq Name
    <3>1. Known(G!Candidates(file)) = {file.entries[x].name : x \in IsMapping(file)} \ Hidden
      BY <1>1, GitLabCandidates
    <3>2. Known(file.entries) \subseteq Name
      BY <1>1, GitLabCandidates
    <3> QED BY <3>1, <3>2 DEF IsMapping, Known
  <2> QED BY <2>1, <2>2
<1> QED BY <1>3, <1>4, <1>5, <1>6

\* A GitLab job only waits for the jobs of the stage before, and these for those of the
\* stage before theirs: who has begun is past all of them.
LEMMA GitLabFollows ==
    ASSUME IInv, RunInv, outcome = "run", provider = "gitlab", NEW n \in JobNames
    PROVE  /\ Begun(n) => {m \in JobNames : StageOf(m) < StageOf(n)} \subseteq Succeeded
           /\ DepsIn(out.jobs, n) \subseteq {m \in JobNames : StageOf(m) < StageOf(n)}
<1> DEFINE ix == GitLabIndex(file)
           b == Len(G!Stages(file))
<1>1. /\ \A x \in DOMAIN out.jobs : StageOf(out.jobs[x].name) = ix[x]
      /\ Staged(out.jobs, ix, b) /\ b \in Nat /\ Known(out.jobs) \subseteq Name
      /\ ~HasDuplicate(out.jobs) /\ states \in [JobNames -> R!Outcomes]
  BY GitLabStageOf DEF RunInv
<1> HIDE DEF ix, b
<1>2. PICK y \in DOMAIN out.jobs : out.jobs[y].name = n
  BY DEF JobNames, Known
<1>3. ASSUME Begun(n), NEW m \in JobNames, StageOf(m) < StageOf(n), m \notin Succeeded PROVE FALSE
  <2>1. PICK x \in DOMAIN out.jobs : out.jobs[x].name = m
    BY DEF JobNames, Known
  <2>2. ix[x] < ix[y] /\ ix[x] \in Nat /\ ix[y] \in Nat
    BY <1>1, <1>2, <1>3, <2>1 DEF Staged
  <2>3. x # y /\ m # n
    BY <1>1, <1>2, <2>1, <2>2 DEF HasDuplicate
  <2>4. n \in DoomedIn(out.jobs, {m})
    BY <1>1, <1>2, <2>1, <2>2, <2>3, StagedBarrier
  <2> DEFINE S == {m} \cup {k \in JobNames : ~Begun(k)}
  <2>5. S \in SUBSET Name
    BY <1>1 DEF JobNames
  <2>6. \A k \in S : k \in JobNames => states[k] # "success"
    BY <1>1, <1>3 DEF Begun, Succeeded
  <2>7. ASSUME NEW z \in DOMAIN out.jobs, ToSet(out.jobs[z].depends) \cap S # {} PROVE out.jobs[z].name \in S
    <3>1. PICK d \in S : d \in ToSet(out.jobs[z].depends)
      BY <2>7
    <3>2. out.jobs[z].name \in JobNames /\ d \in DepsIn(out.jobs, out.jobs[z].name)
      BY <3>1 DEF JobNames, Known, DepsIn
    <3>3. d \in JobNames
      BY <3>2 DEF RunInv, HasUnknown, JobNames
    <3>4. ~Begun(out.jobs[z].name)
      BY <2>6, <3>1, <3>2, <3>3 DEF RunInv
    <3> QED BY <3>2, <3>4
  <2>8. n \notin S
    BY <1>3, <2>3
  <2>9. m \in S
    OBVIOUS
  <2> HIDE DEF S
  <2>10. ClosedIn(out.jobs, {m}, S)
    BY <2>7, <2>9 DEF ClosedIn
  <2> QED BY <2>4, <2>5, <2>8, <2>10 DEF DoomedIn
<1>4. ASSUME NEW d \in DepsIn(out.jobs, n) PROVE d \in JobNames /\ StageOf(d) < StageOf(n)
  <2>1. PICK z \in DOMAIN out.jobs : out.jobs[z].name = n /\ d \in ToSet(out.jobs[z].depends)
    BY DEF DepsIn
  <2>2. PICK x \in DOMAIN out.jobs : d = out.jobs[x].name /\ ix[x] < ix[z]
    <3>1. InOrder(out.jobs, ix, b)
      BY <1>1, StagedFacts
    <3> QED BY <2>1, <3>1 DEF InOrder
  <2> QED BY <1>1, <2>1, <2>2 DEF JobNames, Known
<1> QED BY <1>3, <1>4

\* Whatever the file and whichever jobs fail, in whatever order they end: no job starts
\* before all that its file puts before it has succeeded, none is skipped unless one of
\* those did not, and Run only returns nil when every job succeeded
\* (gitlab/parser.go:258-262, circleci/parser.go:53-55, githubactions/parser.go:46-51,
\* docker.go:332-383, main.go:126-130).
THEOREM RunIsFaithful == LocalSpec => []RunFollowsTheFile
<1>1. ASSUME IInv, RunInv, outcome = "run", NEW n \in JobNames
      PROVE  /\ Begun(n) => \E before \in Predecessors(n) : before \subseteq Succeeded
             /\ states[n] = "skipped" => \E before \in Predecessors(n) :
                    \E m \in before \cap DOMAIN states : states[m] \in {"failed", "skipped"}
  <2>1. /\ DOMAIN states = JobNames
        /\ Begun(n) => \A d \in DepsIn(out.jobs, n) : states[d] = "success"
        /\ states[n] = "skipped" =>
                \E d \in DepsIn(out.jobs, n) : states[d] \in {"failed", "skipped"}
        /\ \A d \in DepsIn(out.jobs, n) : d \in JobNames
    BY <1>1 DEF RunInv, HasUnknown, JobNames
  <2>2. \E before \in Predecessors(n) :
            DepsIn(out.jobs, n) \subseteq before /\ (Begun(n) => before \subseteq Succeeded)
    <3>1. CASE provider \in {"circleci", "github-actions"}
      <4>1. DepsIn(out.jobs, n) \in Predecessors(n)
        BY <1>1, <3>1, CircleCIFollows, GitHubFollows
      <4>2. Begun(n) => DepsIn(out.jobs, n) \subseteq Succeeded
        BY <2>1 DEF Succeeded
      <4> QED BY <4>1, <4>2
    <3>2. CASE provider = "gitlab"
      <4>1. Predecessors(n) = {{m \in JobNames : StageOf(m) < StageOf(n)}}
        BY <3>2 DEF Predecessors
      <4> QED BY <1>1, <3>2, <4>1, GitLabFollows
    <3>3. provider \in {"circleci", "github-actions", "gitlab"}
      BY <1>1 DEF IInv
    <3> QED BY <3>1, <3>2, <3>3
  <2> QED BY <2>1, <2>2
<1>2. IInv /\ RunInv => RunFollowsTheFile
  <2> SUFFICES ASSUME IInv, RunInv PROVE RunFollowsTheFile
    OBVIOUS
  <2>1. CASE outcome # "run"
    <3>1. DOMAIN states = {} /\ result = "none"
      BY <2>1 DEF RunInv
    <3> QED BY <3>1 DEF RunFollowsTheFile
  <2>2. CASE outcome = "run"
    <3>1. DOMAIN states = JobNames
      BY <2>2 DEF RunInv
    <3>2. result = "nil" => Succeeded = JobNames
      BY <2>2, <3>1 DEF RunInv, Succeeded
    <3>3. \A n \in DOMAIN states :
            /\ Begun(n) => \E before \in Predecessors(n) : before \subseteq Succeeded
            /\ states[n] = "skipped" => \E before \in Predecessors(n) :
                    \E m \in before \cap DOMAIN states : states[m] \in {"failed", "skipped"}
      BY <1>1, <2>2, <3>1
    <3> QED BY <3>2, <3>3 DEF RunFollowsTheFile
  <2> QED BY <2>1, <2>2
<1> QED BY <1>2, InductiveInvariant, RunInvariant, PTL

-----------------------------------------------------------------------------
(* Where settings come from. *)

\* Nothing before the place x sets the key.
IsFirst(layer, x, key) == key \in DOMAIN layer[x] /\ \A y \in 0..(x - 1) : key \notin DOMAIN layer[y]

\* m has of the places 0..k for each key the value of the nearest that sets it.
FromNearest(layer, k, m, keys) ==
    \A key \in keys :
        /\ key \in DOMAIN m <=> \E x \in 0..k : key \in DOMAIN layer[x]
        /\ \A x \in 0..k : IsFirst(layer, x, key) => m[key] = layer[x][key]

\* more is m and what m does not set of next.
Adds(m, next, more, keys) ==
    \A key \in keys :
        /\ key \in DOMAIN more <=> key \in DOMAIN m \/ key \in DOMAIN next
        /\ key \in DOMAIN m => more[key] = m[key]
        /\ key \in DOMAIN next \ DOMAIN m => more[key] = next[key]

LEMMA OnePlaceMore ==
    ASSUME NEW layer, NEW k \in Nat \ {0}, NEW m, NEW keys, NEW more,
           FromNearest(layer, k - 1, m, keys), Adds(m, layer[k], more, keys)
    PROVE  FromNearest(layer, k, more, keys)
<1> SUFFICES ASSUME NEW key \in keys
             PROVE  /\ key \in DOMAIN more <=> \E x \in 0..k : key \in DOMAIN layer[x]
                    /\ \A x \in 0..k : IsFirst(layer, x, key) => more[key] = layer[x][key]
  BY DEF FromNearest
<1>1. \A x : x \in 0..k <=> x \in 0..(k - 1) \/ x = k
  OBVIOUS
<1>2. /\ key \in DOMAIN m <=> \E x \in 0..(k - 1) : key \in DOMAIN layer[x]
      /\ \A x \in 0..(k - 1) : IsFirst(layer, x, key) => m[key] = layer[x][key]
  BY DEF FromNearest
<1>3. /\ key \in DOMAIN more <=> key \in DOMAIN m \/ key \in DOMAIN layer[k]
      /\ key \in DOMAIN m => more[key] = m[key]
      /\ key \in DOMAIN layer[k] \ DOMAIN m => more[key] = layer[k][key]
  BY DEF Adds
<1>4. key \in DOMAIN more <=> \E x \in 0..k : key \in DOMAIN layer[x]
  BY <1>1, <1>2, <1>3
<1>5. ASSUME NEW x \in 0..k, IsFirst(layer, x, key) PROVE more[key] = layer[x][key]
  <2>1. key \in DOMAIN layer[x] /\ \A y \in 0..(x - 1) : key \notin DOMAIN layer[y]
    BY <1>5 DEF IsFirst
  <2>2. CASE x \in 0..(k - 1)
    <3>1. key \in DOMAIN m /\ m[key] = layer[x][key]
      BY <1>2, <1>5, <2>1, <2>2
    <3> QED BY <1>3, <3>1
  <2>3. CASE x = k
    <3>1. key \notin DOMAIN m
      BY <1>2, <2>1, <2>3
    <3> QED BY <1>3, <2>1, <2>3, <3>1
  <2> QED BY <1>1, <2>2, <2>3
<1> QED BY <1>4, <1>5

LEMMA FilledAdds == ASSUME NEW m, NEW next, NEW keys PROVE Adds(m, next, Filled(m, next), keys)
BY DEF Adds, Filled

LEMMA FirstPlace ==
    ASSUME NEW layer, NEW keys
    PROVE  FromNearest(layer, 0, layer[0], keys)
<1>1. \A x : x \in 0..0 <=> x = 0
  OBVIOUS
<1> QED BY <1>1 DEF FromNearest, IsFirst

\* A place that sets a key is not the first only if there is a first.
LEMMA SomePlaceIsFirst ==
    ASSUME NEW layer, NEW k \in Nat, NEW key, NEW z \in 0..k, key \in DOMAIN layer[z]
    PROVE  \E x \in 0..k : IsFirst(layer, x, key)
<1> DEFINE T == {x \in 0..k : key \in DOMAIN layer[x]}
<1>1. T \in SUBSET Nat /\ T # {}
  OBVIOUS
<1> HIDE DEF T
<1>2. PICK x \in T : \A y \in T : x <= y
  BY <1>1, MinOfNat
<1>3. x \in 0..k /\ key \in DOMAIN layer[x]
  BY <1>2 DEF T
<1>4. ASSUME NEW y \in 0..(x - 1), key \in DOMAIN layer[y] PROVE FALSE
  <2>1. y \in 0..k /\ ~(x <= y)
    BY <1>3
  <2>2. y \in T
    BY <1>4, <2>1 DEF T
  <2> QED BY <1>2, <2>1, <2>2
<1> QED BY <1>3, <1>4 DEF IsFirst

\* Nearest over a list of places whose first is the layer 0.
LEMMA NearestIs ==
    ASSUME NEW S, NEW places \in Seq(S), NEW k \in Nat, Len(places) = k + 1, NEW layer,
           \A x \in 0..k : layer[x] = places[x + 1],
           NEW m, NEW keys, FromNearest(layer, k, m, keys), NEW key \in keys
    PROVE  Nearest(places, key) = IF key \in DOMAIN m THEN m[key] ELSE "blank"
<1> DEFINE K == {x \in DOMAIN places : key \in DOMAIN places[x]}
           t == Those(places, K)
<1>1. Nearest(places, key) = IF t = <<>> THEN "blank" ELSE t[1][key]
  BY DEF Nearest, Select
<1>2. DOMAIN places = 1..(k + 1) /\ K \in SUBSET DOMAIN places
  OBVIOUS
<1>3. \A x \in 0..k : x + 1 \in DOMAIN places /\ layer[x] = places[x + 1]
  BY <1>2
<1>4. \A p \in DOMAIN places : p - 1 \in 0..k /\ p = (p - 1) + 1 /\ layer[p - 1] = places[p]
  <2> SUFFICES ASSUME NEW p \in 1..(k + 1) PROVE p - 1 \in 0..k /\ p = (p - 1) + 1 /\ layer[p - 1] = places[p]
    BY <1>2
  <2>1. p - 1 \in 0..k /\ p = (p - 1) + 1
    OBVIOUS
  <2> QED BY <1>3, <2>1
<1>5. key \in DOMAIN m <=> \E x \in 0..k : key \in DOMAIN layer[x]
  BY DEF FromNearest
<1>6. K = {} <=> key \notin DOMAIN m
  BY <1>3, <1>4, <1>5
<1>7. t \in Seq(S) /\ IsThose(t, places, K) /\ (t = <<>> <=> K = {})
  <2> HIDE DEF K
  <2>1. t \in Seq(S) /\ IsThose(t, places, K)
    BY <1>2, ThoseFacts
  <2>2. t = <<>> <=> K = {}
    BY <1>2, ThoseNames
  <2> QED BY <2>1, <2>2
<1> HIDE DEF t
<1>8. CASE key \notin DOMAIN m
  BY <1>1, <1>6, <1>7, <1>8
<1>9. CASE key \in DOMAIN m
  <2>1. t # <<>> /\ Len(t) \in Nat /\ 1 \in 1..Len(t)
    BY <1>6, <1>7, <1>9
  <2>2. PICK pos \in [1..Len(t) -> K] : /\ \A y, z \in 1..Len(t) : y < z => pos[y] < pos[z]
                                        /\ \A x \in K : \E y \in 1..Len(t) : pos[y] = x
                                        /\ \A y \in 1..Len(t) : t[y] = places[pos[y]]
    BY <1>7 DEF IsThose
  <2> DEFINE p == pos[1]
  <2>3. p \in K /\ t[1] = places[p]
    BY <2>1, <2>2
  <2>4. ASSUME NEW q \in K, q < p PROVE FALSE
    <3>1. PICK y \in 1..Len(t) : pos[y] = q
      BY <2>2
    <3>2. y = 1 \/ 1 < y
      BY <2>1
    <3>3. p \in Nat /\ q \in Nat
      BY <1>2, <2>3
    <3> QED BY <2>1, <2>2, <2>4, <3>1, <3>2, <3>3
  <2> HIDE DEF p
  <2>5. IsFirst(layer, p - 1, key)
    <3>1. p \in DOMAIN places /\ key \in DOMAIN layer[p - 1] /\ p \in 1..(k + 1)
      BY <1>2, <1>4, <2>3
    <3>2. ASSUME NEW y \in 0..((p - 1) - 1), key \in DOMAIN layer[y] PROVE FALSE
      <4>1. y \in 0..k /\ y + 1 < p
        BY <3>1
      <4>2. y + 1 \in K
        BY <1>3, <3>2, <4>1
      <4> QED BY <2>4, <4>1, <4>2
    <3> QED BY <3>1, <3>2 DEF IsFirst
  <2>6. p - 1 \in 0..k /\ layer[p - 1] = places[p]
    BY <1>4, <2>3
  <2>7. m[key] = layer[p - 1][key]
    BY <2>5, <2>6 DEF FromNearest
  <2> QED BY <1>1, <1>9, <2>1, <2>3, <2>6, <2>7
<1> QED BY <1>8, <1>9

\* The places of GitLab's settings of an entry, the nearest first.
GitLabPlaces(f, own) ==
    LET parents == G!Found(f, own)
    IN <<own>> \o [x \in DOMAIN parents |-> G!RawOf(f, parents[x])] \o <<f.top, f.default>>

LayersOf(places) == [x \in 0..(Len(places) - 1) |-> places[x + 1]]
VariablesOf(layer) == [x \in DOMAIN layer |-> G!Variables(layer[x])]

\* The keys whose values are overridden as a whole.
WholeKeys == DOMAIN G!Values \ {"variables"}

IsPlace(raw) == G!Gives(raw, DOMAIN G!Values)

LEMMA GitLabValues ==
    /\ DOMAIN G!Values = {"stage", "image", "script", "before_script", "after_script", "services",
                          "variables", "extends"}
    /\ G!Values["image"] = Text \cup {"blank"} /\ G!Values["script"] = Text \cup {"blank"}
    /\ G!Values["extends"] = Seq(Name)
BY DEF G!Values

LEMMA GitLabRaw ==
    ASSUME NEW f, G!IsFile(f), NEW n \in Known(G!Mappings(f))
    PROVE  IsPlace(G!RawOf(f, n))
<1>1. f.entries \in Seq(ToSet(f.entries)) /\ \A x \in DOMAIN f.entries : IsPlace(f.entries[x].raw)
  BY DEF G!IsFile, G!ToSet, ToSet, IsPlace
<1>2. IsMapping(f) \in SUBSET DOMAIN f.entries
  BY DEF IsMapping
<1>3. G!Mappings(f) = Those(f.entries, IsMapping(f))
  BY GitLabSelections
<1>4. G!Mappings(f) \in Seq(ToSet(f.entries))
  BY <1>1, <1>2, <1>3, ThoseSet
<1>5. LastOf(G!Mappings(f), n) \in ToSet(f.entries)
  BY <1>4, LastOfFacts
<1>6. G!RawOf(f, n) = LastOf(G!Mappings(f), n).raw
  BY GitLabThose DEF G!RawOf
<1> QED BY <1>1, <1>5, <1>6 DEF ToSet

LEMMA GitLabFound ==
    ASSUME NEW f, NEW own, IsPlace(own)
    PROVE  /\ G!Found(f, own) \in Seq(Name)
           /\ \A x \in DOMAIN G!Found(f, own) : G!Found(f, own)[x] \in Known(G!Mappings(f))
<1> DEFINE p == G!Parents(own)
           K == {x \in DOMAIN p : p[x] \in Known(G!Mappings(f))}
<1>1. p \in Seq(Name)
  <2>1. CASE "extends" \in DOMAIN own
    <3>1. own["extends"] \in Seq(Name)
      BY <2>1, GitLabValues DEF IsPlace, G!Gives
    <3> QED BY <2>1, <3>1 DEF G!Parents, G!Has
  <2>2. CASE "extends" \notin DOMAIN own
    BY <2>2 DEF G!Parents, G!Has
  <2> QED BY <2>1, <2>2
<1>2. G!Found(f, own) = Those(p, K) /\ K \in SUBSET DOMAIN p
  BY GitLabThose DEF G!Found, G!Select
<1>3. \A x \in K : p[x] \in Known(G!Mappings(f))
  OBVIOUS
<1> HIDE DEF p, K
<1>4. Those(p, K) \in Seq(Name)
  BY <1>1, <1>2, ThoseSet
<1>5. \A y \in DOMAIN Those(p, K) : \E x \in K : Those(p, K)[y] = p[x]
  BY <1>1, <1>2, ThoseSet
<1> QED BY <1>2, <1>3, <1>4, <1>5

LEMMA GitLabPlacesFacts ==
    ASSUME NEW f, G!IsFile(f), NEW own, IsPlace(own)
    PROVE  LET N == Len(G!Found(f, own))
               places == GitLabPlaces(f, own)
           IN  /\ N \in Nat /\ DOMAIN G!Found(f, own) = 1..N
               /\ places \in Seq(ToSet(places)) /\ Len(places) = N + 3
               /\ places[1] = own /\ places[N + 2] = f.top /\ places[N + 3] = f.default
               /\ \A x \in 1..N : places[x + 1] = G!RawOf(f, G!Found(f, own)[x])
               /\ \A y \in DOMAIN places : IsPlace(places[y])
<1> DEFINE found == G!Found(f, own)
           N == Len(found)
           rows == [x \in DOMAIN found |-> G!RawOf(f, found[x])]
           places == GitLabPlaces(f, own)
           S == {own, f.top, f.default} \cup {rows[x] : x \in 1..N}
<1>1. N \in Nat /\ DOMAIN found = 1..N
  <2>1. found \in Seq(Name)
    BY GitLabFound
  <2> HIDE DEF found
  <2> QED BY <2>1
<1>2. \A x \in 1..N : rows[x] = G!RawOf(f, found[x]) /\ IsPlace(rows[x])
  BY <1>1, GitLabFound, GitLabRaw
<1>3. IsPlace(f.top) /\ IsPlace(f.default)
  BY GitLabValues DEF G!IsFile, G!Gives, IsPlace
<1>4. rows = [x \in 1..N |-> rows[x]]
  BY <1>1
<1>5. places = <<own>> \o rows \o <<f.top, f.default>>
  BY DEF GitLabPlaces
<1> HIDE DEF found, N, rows, places
<1>6. rows \in Seq(S) /\ Len(rows) = N
  BY <1>1, <1>4
<1>7. <<own>> \in Seq(S) /\ <<f.top, f.default>> \in Seq(S)
  OBVIOUS
<1> HIDE DEF S
<1>8. places \in Seq(S) /\ Len(places) = N + 3
  BY <1>1, <1>5, <1>6, <1>7
<1>9. /\ places[1] = own /\ places[N + 2] = f.top /\ places[N + 3] = f.default
      /\ \A x \in 1..N : places[x + 1] = rows[x]
  BY <1>1, <1>5, <1>6, <1>7
<1>10. \A y \in DOMAIN places : places[y] \in S
  BY <1>8
<1>11. \A y \in DOMAIN places : IsPlace(places[y])
  <2>1. IsPlace(own)
    OBVIOUS
  <2> QED BY <1>2, <1>3, <1>10, <2>1 DEF S
<1>12. places \in Seq(ToSet(places))
  <2>1. places = [y \in 1..(N + 3) |-> places[y]]
    BY <1>1, <1>8
  <2> QED BY <1>1, <2>1, ArrayIsSeq
<1> QED BY <1>1, <1>2, <1>8, <1>9, <1>11, <1>12 DEF found, N, places

LEMMA GitLabFilled == \A m, next : G!Filled(m, next) = Filled(m, next)
BY DEF G!Filled, Filled

\* One more parent, as far as each kind of settings goes.
LEMMA MergeAdds ==
    ASSUME NEW child, NEW parent
    PROVE  /\ Adds(child, parent, G!MergeExtends(child, parent), WholeKeys)
           /\ Adds(G!Variables(child), G!Variables(parent),
                   G!Variables(G!MergeExtends(child, parent)), Key)
<1> DEFINE v == "variables"
           m == Filled(child, parent)
           all == Filled(child[v], G!Variables(parent))
           more == G!MergeExtends(child, parent)
<1>1. Adds(child, parent, m, WholeKeys)
  BY FilledAdds
<1>2. /\ DOMAIN m = DOMAIN child \cup DOMAIN parent
      /\ \A key \in DOMAIN m : m[key] = IF key \in DOMAIN child THEN child[key] ELSE parent[key]
  BY DEF Filled
<1>3. more = IF v \in DOMAIN child THEN [m EXCEPT ![v] = all] ELSE m
  BY GitLabFilled DEF G!MergeExtends, G!Has
<1>4. G!Variables(child) = IF v \in DOMAIN child THEN child[v] ELSE <<>>
  BY DEF G!Variables, G!Has, G!NoEnv
<1>5. G!Variables(parent) = IF v \in DOMAIN parent THEN parent[v] ELSE <<>>
  BY DEF G!Variables, G!Has, G!NoEnv
<1>6. G!Variables(more) = IF v \in DOMAIN more THEN more[v] ELSE <<>>
  BY DEF G!Variables, G!Has, G!NoEnv
<1>7. v \notin WholeKeys
  BY DEF WholeKeys
<1>8. m = [key \in DOMAIN m |-> m[key]]
  BY DEF Filled
<1> HIDE DEF m, all, more, v
<1>9. CASE v \in DOMAIN child
  <2>1. more = [m EXCEPT ![v] = all] /\ v \in DOMAIN m
    BY <1>2, <1>3, <1>9
  <2>2. DOMAIN more = DOMAIN m /\ more[v] = all /\ \A key \in DOMAIN m \ {v} : more[key] = m[key]
    BY <1>8, <2>1
  <2>3. Adds(child, parent, more, WholeKeys)
    BY <1>1, <1>2, <1>7, <2>2 DEF Adds
  <2>4. G!Variables(child) = child[v] /\ G!Variables(more) = all
    BY <1>4, <1>6, <1>9, <2>1, <2>2
  <2>5. Adds(child[v], G!Variables(parent), all, Key)
    BY FilledAdds DEF all
  <2> QED BY <2>3, <2>4, <2>5 DEF more
<1>10. CASE v \notin DOMAIN child
  <2>1. more = m
    BY <1>3, <1>10
  <2>2. G!Variables(child) = <<>> /\ G!Variables(more) = G!Variables(parent)
    BY <1>2, <1>4, <1>5, <1>6, <1>10, <2>1
  <2>3. Adds(<<>>, G!Variables(parent), G!Variables(parent), Key)
    BY DEF Adds
  <2> QED BY <1>1, <2>1, <2>2, <2>3 DEF more
<1> QED BY <1>9, <1>10

\* The entry after k parents.
Merged(f, own, h, k) ==
    IF k = 0 THEN own ELSE G!MergeExtends(h[k - 1], G!RawOf(f, G!Found(f, own)[k]))

OfNearest(f, own, k, m) ==
    LET layers == LayersOf(GitLabPlaces(f, own)) IN
    FromNearest(layers, k, m, WholeKeys) /\ FromNearest(VariablesOf(layers), k, G!Variables(m), Key)

AreMerged(f, own, h, N) ==
    IsOver(h, 0, N) /\ \A k \in 0..N : h[k] = Merged(f, own, h, k) /\ OfNearest(f, own, k, h[k])

LEMMA GitLabLayers ==
    ASSUME NEW f, G!IsFile(f), NEW own, IsPlace(own)
    PROVE  LET N == Len(G!Found(f, own))
               layers == LayersOf(GitLabPlaces(f, own))
           IN  /\ DOMAIN layers = 0..(N + 2) /\ DOMAIN VariablesOf(layers) = 0..(N + 2)
               /\ layers[0] = own /\ layers[N + 1] = f.top /\ layers[N + 2] = f.default
               /\ \A x \in 1..N : layers[x] = G!RawOf(f, G!Found(f, own)[x])
               /\ \A x \in 0..(N + 2) : VariablesOf(layers)[x] = G!Variables(layers[x])
<1> DEFINE N == Len(G!Found(f, own))
           places == GitLabPlaces(f, own)
           layers == LayersOf(places)
<1>1. /\ N \in Nat /\ Len(places) = N + 3
      /\ places[1] = own /\ places[N + 2] = f.top /\ places[N + 3] = f.default
      /\ \A x \in 1..N : places[x + 1] = G!RawOf(f, G!Found(f, own)[x])
  <2>1. N \in Nat
    BY GitLabPlacesFacts
  <2>2. Len(places) = N + 3
    BY GitLabPlacesFacts
  <2>3. places[1] = own /\ places[N + 2] = f.top /\ places[N + 3] = f.default
    BY GitLabPlacesFacts
  <2>4. \A x \in 1..N : places[x + 1] = G!RawOf(f, G!Found(f, own)[x])
    BY GitLabPlacesFacts
  <2> QED BY <2>1, <2>2, <2>3, <2>4
<1> HIDE DEF N, places
<1>2. DOMAIN layers = 0..(N + 2) /\ \A x \in 0..(N + 2) : layers[x] = places[x + 1]
  BY <1>1 DEF LayersOf
<1> HIDE DEF layers
<1>3. layers[0] = own /\ layers[N + 1] = f.top /\ layers[N + 2] = f.default
  BY <1>1, <1>2
<1>4. \A x \in 1..N : layers[x] = places[x + 1]
  BY <1>1, <1>2
<1>5. DOMAIN VariablesOf(layers) = 0..(N + 2)
      /\ \A x \in 0..(N + 2) : VariablesOf(layers)[x] = G!Variables(layers[x])
  BY <1>2 DEF VariablesOf
<1> QED BY <1>1, <1>2, <1>3, <1>4, <1>5 DEF N, places, layers

LEMMA GitLabMerges ==
    ASSUME NEW f, G!IsFile(f), NEW own, IsPlace(own)
    PROVE  \E h : AreMerged(f, own, h, Len(G!Found(f, own)))
<1> DEFINE N == Len(G!Found(f, own))
           layers == LayersOf(GitLabPlaces(f, own))
           variables == VariablesOf(layers)
           P == {k \in Nat : \E h : AreMerged(f, own, h, k)}
<1>1. N \in Nat
  BY GitLabPlacesFacts
<1>2. /\ layers[0] = own
      /\ \A x \in 1..N : layers[x] = G!RawOf(f, G!Found(f, own)[x])
      /\ \A x \in 0..(N + 2) : variables[x] = G!Variables(layers[x])
  <2>1. layers[0] = own
    BY GitLabLayers
  <2>2. \A x \in 1..N : layers[x] = G!RawOf(f, G!Found(f, own)[x])
    BY GitLabLayers
  <2>3. \A x \in 0..(N + 2) : variables[x] = G!Variables(layers[x])
    BY GitLabLayers
  <2> QED BY <2>1, <2>2, <2>3
<1>3. \A k, m : OfNearest(f, own, k, m) <=> /\ FromNearest(layers, k, m, WholeKeys)
                                            /\ FromNearest(variables, k, G!Variables(m), Key)
  BY DEF OfNearest
<1> HIDE DEF N, layers, variables
<1>4. 0 \in P
  <2> DEFINE h == [k \in 0..0 |-> own]
  <2>1. \A k \in 0..0 : k = 0 /\ h[k] = own
    OBVIOUS
  <2>2. IsOver(h, 0, 0)
    BY DEF IsOver
  <2> HIDE DEF h
  <2>3. OfNearest(f, own, 0, own)
    <3>1. FromNearest(layers, 0, layers[0], WholeKeys)
      BY FirstPlace
    <3>2. FromNearest(variables, 0, variables[0], Key)
      BY FirstPlace
    <3>3. variables[0] = G!Variables(own)
      BY <1>1, <1>2
    <3> QED BY <1>2, <1>3, <3>1, <3>2, <3>3
  <2>4. AreMerged(f, own, h, 0)
    BY <2>1, <2>2, <2>3 DEF AreMerged, Merged
  <2> QED BY <2>4
<1>5. ASSUME NEW k \in 1..N, k - 1 \in P PROVE k \in P
  <2>1. PICK h : AreMerged(f, own, h, k - 1)
    BY <1>5
  <2> DEFINE q == G!MergeExtends(h[k - 1], G!RawOf(f, G!Found(f, own)[k]))
             g == [n \in 0..k |-> IF n = k THEN q ELSE h[n]]
  <2>2. k \in Nat \ {0} /\ k # 0 /\ k - 1 \in 0..(k - 1) /\ \A n \in 0..k : n = k \/ n \in 0..(k - 1)
    BY <1>1
  <2>3. OfNearest(f, own, k, q)
    <3>1. OfNearest(f, own, k - 1, h[k - 1])
      BY <2>1, <2>2 DEF AreMerged
    <3>2. layers[k] = G!RawOf(f, G!Found(f, own)[k]) /\ variables[k] = G!Variables(layers[k])
      BY <1>1, <1>2
    <3>3. q = G!MergeExtends(h[k - 1], layers[k])
      BY <3>2
    <3> HIDE DEF q
    <3>4. /\ Adds(h[k - 1], layers[k], q, WholeKeys)
          /\ Adds(G!Variables(h[k - 1]), variables[k], G!Variables(q), Key)
      BY <3>2, <3>3, MergeAdds
    <3>5. FromNearest(layers, k, q, WholeKeys)
      <4>1. FromNearest(layers, k - 1, h[k - 1], WholeKeys)
        BY <1>3, <3>1
      <4> QED BY <2>2, <3>4, <4>1, OnePlaceMore
    <3>6. FromNearest(variables, k, G!Variables(q), Key)
      <4>1. FromNearest(variables, k - 1, G!Variables(h[k - 1]), Key)
        BY <1>3, <3>1
      <4> QED BY <2>2, <3>4, <4>1, OnePlaceMore
    <3> QED BY <1>3, <3>5, <3>6
  <2>4. g[k] = q /\ \A n \in 0..(k - 1) : g[n] = h[n]
    BY <2>2
  <2>5. IsOver(g, 0, k)
    BY DEF IsOver
  <2> HIDE DEF g
  <2>6. ASSUME NEW n \in 0..k PROVE g[n] = Merged(f, own, g, n) /\ OfNearest(f, own, n, g[n])
    <3>1. CASE n = k
      BY <2>2, <2>3, <2>4, <3>1 DEF Merged
    <3>2. CASE n \in 0..(k - 1)
      <4>1. h[n] = Merged(f, own, h, n) /\ OfNearest(f, own, n, h[n]) /\ g[n] = h[n]
        BY <2>1, <2>4, <3>2 DEF AreMerged
      <4>2. CASE n = 0
        BY <4>1, <4>2 DEF Merged
      <4>3. CASE n # 0
        <5>1. n - 1 \in 0..(k - 1)
          BY <2>2, <3>2, <4>3
        <5>2. g[n - 1] = h[n - 1]
          BY <2>4, <5>1
        <5> QED BY <4>1, <4>3, <5>2 DEF Merged
      <4> QED BY <4>2, <4>3
    <3> QED BY <2>2, <3>1, <3>2
  <2>7. AreMerged(f, own, g, k)
    BY <2>5, <2>6 DEF AreMerged
  <2> QED BY <2>2, <2>7
<1>6. \A n \in 0..N : n \in P
  <2>1. P \in SUBSET Nat
    OBVIOUS
  <2> HIDE DEF P
  <2>2. \A n \in (0 + 1)..N : n - 1 \in P => n \in P
    BY <1>5
  <2> QED BY <1>1, <1>4, <2>1, <2>2, IntervalInd
<1>7. N \in P
  <2>1. N \in 0..N
    BY <1>1
  <2> HIDE DEF P
  <2> QED BY <1>6, <2>1
<1> QED BY <1>7 DEF N

\* extends: takes what is still missing from the nearest parent that has it.
LEMMA GitLabExtends ==
    ASSUME NEW f, G!IsFile(f), NEW own, IsPlace(own)
    PROVE  OfNearest(f, own, Len(G!Found(f, own)), G!ResolveExtends(f, own))
<1> DEFINE found == G!Found(f, own)
           N == Len(found)
           Recurs(h) == h = [x \in 0..N |-> IF x = 0 THEN own
                                            ELSE G!MergeExtends(h[x - 1], G!RawOf(f, found[x]))]
           merged == CHOOSE h : Recurs(h)
<1>1. N \in Nat
  BY GitLabPlacesFacts
<1>2. G!ResolveExtends(f, own) = merged[N]
  BY DEF G!ResolveExtends
<1>3. PICK h : AreMerged(f, own, h, N)
  BY GitLabMerges
<1>4. \A x : G!MergeExtends(h[x - 1], G!RawOf(f, found[x])) =
             G!MergeExtends(h[x - 1], G!RawOf(f, G!Found(f, own)[x]))
  OBVIOUS
<1> HIDE DEF N, found
<1>5. Recurs(h)
  <2>1. h = [k \in 0..N |-> h[k]] /\ \A k \in 0..N : h[k] = Merged(f, own, h, k)
    BY <1>3 DEF AreMerged, IsOver
  <2> QED BY <1>4, <2>1 DEF Merged
<1>6. Recurs(merged)
  <2> HIDE DEF Recurs
  <2> QED BY <1>5
<1>7. IsOver(merged, 0, N) /\ merged[0] = own
  <2> HIDE DEF merged
  <2>1. 0 \in 0..N
    BY <1>1
  <2> QED BY <1>6, <2>1 DEF IsOver
<1>8. IsOver(h, 0, N) /\ h[0] = own
  <2>1. 0 \in 0..N
    BY <1>1
  <2> QED BY <1>3, <2>1 DEF AreMerged, Merged
<1>9. Alike(merged, h, 0, N)
  <2> HIDE DEF merged
  <2> SUFFICES ASSUME NEW n \in (0 + 1)..N, merged[n - 1] = h[n - 1] PROVE merged[n] = h[n]
    BY DEF Alike
  <2>1. n \in 0..N /\ n # 0
    BY <1>1
  <2>2. merged[n] = G!MergeExtends(merged[n - 1], G!RawOf(f, found[n]))
    BY <1>6, <2>1
  <2>3. h[n] = G!MergeExtends(h[n - 1], G!RawOf(f, found[n]))
    BY <1>5, <2>1
  <2> QED BY <2>2, <2>3
<1> HIDE DEF merged
<1>10. merged = h
  BY <1>1, <1>7, <1>8, <1>9, RecursionIsUnique
<1>11. OfNearest(f, own, N, merged[N])
  <2>1. N \in 0..N
    BY <1>1
  <2> QED BY <1>3, <1>10, <2>1 DEF AreMerged
<1> QED BY <1>2, <1>11 DEF N, found

\* The settings of an entry's job, with those of the top level and default:.
LEMMA GitLabGiven ==
    ASSUME NEW f, G!IsFile(f), NEW own, IsPlace(own)
    PROVE  LET raw == G!ResolveExtends(f, own)
               layers == LayersOf(GitLabPlaces(f, own))
               k == Len(G!Found(f, own)) + 2
           IN  /\ FromNearest(layers, k, G!Given(f, raw), WholeKeys)
               /\ FromNearest(VariablesOf(layers), k, Filled(G!Variables(raw), G!Variables(f.top)), Key)
<1> DEFINE N == Len(G!Found(f, own))
           raw == G!ResolveExtends(f, own)
           layers == LayersOf(GitLabPlaces(f, own))
           variables == VariablesOf(layers)
           env == Filled(G!Variables(raw), G!Variables(f.top))
<1>1. N \in Nat
  BY GitLabPlacesFacts
<1>2. layers[N + 1] = f.top /\ layers[N + 2] = f.default
  BY GitLabLayers
<1>3. \A x \in 0..(N + 2) : variables[x] = G!Variables(layers[x])
  BY GitLabLayers
<1>4. FromNearest(layers, N, raw, WholeKeys) /\ FromNearest(variables, N, G!Variables(raw), Key)
  BY GitLabExtends DEF OfNearest
<1>5. G!Variables(f.default) = <<>>
  <2>1. DOMAIN f.default \subseteq {"image", "before_script", "after_script"}
    BY DEF G!IsFile, G!Gives
  <2>2. "variables" \notin DOMAIN f.default
    BY <2>1
  <2> QED BY <2>2 DEF G!Variables, G!Has, G!NoEnv
<1>6. G!Given(f, raw) = Filled(Filled(raw, f.top), f.default)
  BY GitLabFilled DEF G!Given
<1> HIDE DEF N, raw, layers, variables
<1>7. variables[N + 1] = G!Variables(f.top) /\ variables[N + 2] = <<>>
  BY <1>1, <1>2, <1>3, <1>5
<1>8. N + 1 \in Nat \ {0} /\ N + 2 \in Nat \ {0} /\ (N + 1) - 1 = N /\ (N + 2) - 1 = N + 1
  BY <1>1
<1>9. FromNearest(layers, N + 2, G!Given(f, raw), WholeKeys)
  <2> DEFINE first == Filled(raw, f.top)
             second == Filled(first, f.default)
  <2>1. Adds(raw, layers[N + 1], first, WholeKeys)
    BY <1>2, FilledAdds
  <2>2. Adds(first, layers[N + 2], second, WholeKeys)
    BY <1>2, FilledAdds
  <2> HIDE DEF first, second
  <2>3. FromNearest(layers, N + 1, first, WholeKeys)
    BY <1>4, <1>8, <2>1, OnePlaceMore
  <2>4. FromNearest(layers, N + 2, second, WholeKeys)
    BY <1>8, <2>2, <2>3, OnePlaceMore
  <2> QED BY <1>6, <2>4 DEF first, second
<1>10. FromNearest(variables, N + 2, env, Key)
  <2>1. Adds(G!Variables(raw), variables[N + 1], env, Key)
    BY <1>7, FilledAdds
  <2> HIDE DEF env
  <2>2. Adds(env, variables[N + 2], env, Key)
    BY <1>7 DEF Adds
  <2>3. FromNearest(variables, N + 1, env, Key)
    BY <1>4, <1>8, <2>1, OnePlaceMore
  <2> QED BY <1>8, <2>2, <2>3, OnePlaceMore
<1> QED BY <1>9, <1>10 DEF N, raw, layers, variables, env

\* Nearest, over the places and over their variables.
LEMMA GitLabNearest ==
    ASSUME NEW f, G!IsFile(f), NEW own, IsPlace(own)
    PROVE  LET places == GitLabPlaces(f, own)
               given == G!Given(f, G!ResolveExtends(f, own))
               env == Filled(G!Variables(G!ResolveExtends(f, own)), G!Variables(f.top))
           IN  /\ \A key \in WholeKeys : Nearest(places, key) = G!Get(given, key)
               /\ \A key \in Key :
                    Nearest([p \in DOMAIN places |-> G!Variables(places[p])], key) =
                        IF key \in DOMAIN env THEN env[key] ELSE "blank"
<1> DEFINE N == Len(G!Found(f, own))
           places == GitLabPlaces(f, own)
           given == G!Given(f, G!ResolveExtends(f, own))
           env == Filled(G!Variables(G!ResolveExtends(f, own)), G!Variables(f.top))
           envs == [p \in DOMAIN places |-> G!Variables(places[p])]
           layers == LayersOf(places)
           variables == VariablesOf(layers)
<1>1. N \in Nat
  BY GitLabPlacesFacts
<1>2. places \in Seq(ToSet(places)) /\ Len(places) = N + 3
  BY GitLabPlacesFacts
<1>3. FromNearest(layers, N + 2, given, WholeKeys)
  BY GitLabGiven
<1>4. FromNearest(variables, N + 2, env, Key)
  BY GitLabGiven
<1> HIDE DEF N, places, given, env
<1>5. \A x \in 0..(N + 2) : layers[x] = places[x + 1]
  BY <1>1, <1>2 DEF LayersOf
<1>6. \A x \in 0..(N + 2) : variables[x] = G!Variables(places[x + 1])
  <2>1. DOMAIN layers = 0..(N + 2)
    BY <1>1, <1>2 DEF LayersOf
  <2> HIDE DEF layers
  <2> QED BY <1>5, <2>1 DEF VariablesOf
<1>7. envs \in Seq(ToSet(envs)) /\ Len(envs) = N + 3 /\ \A x \in 0..(N + 2) : variables[x] = envs[x + 1]
  <2>1. DOMAIN places = 1..(N + 3)
    BY <1>1, <1>2
  <2>2. envs = [p \in 1..(N + 3) |-> envs[p]]
    BY <2>1
  <2>3. \A x \in 0..(N + 2) : x + 1 \in 1..(N + 3)
    BY <1>1
  <2>4. \A x \in 0..(N + 2) : envs[x + 1] = G!Variables(places[x + 1])
    BY <2>1, <2>3
  <2> HIDE DEF envs, variables
  <2>5. envs \in Seq(ToSet(envs)) /\ Len(envs) = N + 3
    BY <1>1, <2>2, ArrayIsSeq
  <2> QED BY <1>6, <2>4, <2>5
<1> HIDE DEF layers, variables, envs
<1>8. N + 2 \in Nat /\ (N + 2) + 1 = N + 3
  BY <1>1
<1>9. ASSUME NEW key \in WholeKeys PROVE Nearest(places, key) = G!Get(given, key)
  <2>1. Nearest(places, key) = IF key \in DOMAIN given THEN given[key] ELSE "blank"
    BY <1>2, <1>3, <1>5, <1>8, NearestIs
  <2> QED BY <2>1 DEF G!Get, G!Has
<1>10. ASSUME NEW key \in Key
       PROVE  Nearest(envs, key) = IF key \in DOMAIN env THEN env[key] ELSE "blank"
  BY <1>4, <1>7, <1>8, NearestIs
<1> QED BY <1>9, <1>10 DEF places, given, env, envs

\* A setting of a job is one that some place has.
LEMMA GitLabGivenIsText ==
    ASSUME NEW f, G!IsFile(f), NEW own, IsPlace(own), NEW key \in {"image", "script"},
           key \in DOMAIN G!Given(f, G!ResolveExtends(f, own))
    PROVE  G!Given(f, G!ResolveExtends(f, own))[key] \in Text \cup {"blank"}
<1> DEFINE N == Len(G!Found(f, own))
           places == GitLabPlaces(f, own)
           given == G!Given(f, G!ResolveExtends(f, own))
           layers == LayersOf(places)
<1>1. N \in Nat
  BY GitLabPlacesFacts
<1>2. places \in Seq(ToSet(places)) /\ Len(places) = N + 3
  BY GitLabPlacesFacts
<1>3. \A y \in DOMAIN places : IsPlace(places[y])
  BY GitLabPlacesFacts
<1>4. FromNearest(layers, N + 2, given, WholeKeys)
  BY GitLabGiven
<1>5. key \in WholeKeys /\ G!Values[key] = Text \cup {"blank"}
  BY GitLabValues DEF WholeKeys
<1>6. key \in DOMAIN given
  OBVIOUS
<1> HIDE DEF N, places, given
<1>7. \A x \in 0..(N + 2) : layers[x] = places[x + 1] /\ x + 1 \in DOMAIN places
  BY <1>1, <1>2 DEF LayersOf
<1> HIDE DEF layers
<1>8. PICK z \in 0..(N + 2) : key \in DOMAIN layers[z]
  BY <1>4, <1>5, <1>6 DEF FromNearest
<1>9. PICK x \in 0..(N + 2) : IsFirst(layers, x, key)
  <2>1. N + 2 \in Nat
    BY <1>1
  <2> QED BY <1>8, <2>1, SomePlaceIsFirst
<1>10. given[key] = layers[x][key] /\ key \in DOMAIN layers[x]
  BY <1>4, <1>5, <1>9 DEF FromNearest, IsFirst
<1>11. IsPlace(layers[x])
  BY <1>3, <1>7
<1>12. layers[x][key] \in G!Values[key]
  BY <1>10, <1>11 DEF IsPlace, G!Gives
<1> QED BY <1>5, <1>10, <1>12 DEF given

\* What a job of GitLab's parser is given.
LEMMA GitLabFields ==
    ASSUME NEW f, G!IsFile(f), NEW x \in DOMAIN GitLabOut(f).jobs
    PROVE  LET job == GitLabOut(f).jobs[x]
               raw == G!ResolveExtends(f, G!RawOf(f, job.name))
               given == G!Given(f, raw)
           IN  /\ IsPlace(G!RawOf(f, job.name)) /\ GitLabRuns(f, job.name)
               /\ job.image = given.image
               /\ job.env = Filled(G!Variables(raw), G!Variables(f.top))
               /\ job.services = G!Listed(G!Get(given, "services"))
               /\ job.steps = Steps(G!Listed(G!Get(given, "before_script")) \o <<raw.script>>, "main")
                              \o Steps(G!Listed(G!Get(given, "after_script")), "after")
<1> DEFINE job == GitLabOut(f).jobs[x]
           made == GitLabJobs(f)[x]
           raw == G!ResolveExtends(f, G!RawOf(f, job.name))
           given == G!Given(f, raw)
<1>1. x \in DOMAIN GitLabRunnable(f)
  BY GitLabOutFacts
<1>2. job.name = GitLabRunnable(f)[x].name
  BY <1>1, GitLabOutFacts
<1>3. job.name \in {n \in Known(G!Candidates(f)) : GitLabRuns(f, n)}
  <2>1. job.name \in Known(GitLabOut(f).jobs)
    BY DEF Known
  <2> QED BY <2>1, GitLabOutFacts
<1>4. IsPlace(G!RawOf(f, job.name))
  <2>1. job.name \in {f.entries[y].name : y \in IsMapping(f)}
    BY <1>3, GitLabCandidates
  <2>2. G!Mappings(f) = Those(f.entries, IsMapping(f)) /\ IsMapping(f) \in SUBSET DOMAIN f.entries
    BY GitLabSelections DEF IsMapping
  <2>3. f.entries \in Seq(ToSet(f.entries))
    BY DEF G!IsFile, G!ToSet, ToSet
  <2>4. Known(Those(f.entries, IsMapping(f))) = {f.entries[y].name : y \in IsMapping(f)}
    BY <2>2, <2>3, ThoseNames
  <2>5. job.name \in Known(G!Mappings(f))
    BY <2>1, <2>2, <2>4
  <2> QED BY <2>5, GitLabRaw
<1>5. made = G!JobOf(f, GitLabRunnable(f)[x])
  BY <1>1 DEF GitLabJobs
<1>6. /\ made.image = given.image
      /\ made.env = G!Filled(G!Variables(raw), G!Variables(f.top))
      /\ made.services = G!Listed(G!Get(given, "services"))
      /\ made.steps = G!Steps(G!Listed(G!Get(given, "before_script")) \o <<raw.script>>, "main")
                              \o G!Steps(G!Listed(G!Get(given, "after_script")), "after")
  BY <1>2, <1>5 DEF G!JobOf, G!Resolved
<1>7. job.image = made.image /\ job.env = made.env /\ job.services = made.services /\ job.steps = made.steps
  <2> DEFINE deps == G!Named(G!Preceding(G!Stages(f), GitLabJobs(f), made.stage))
  <2>1. job = [made EXCEPT !.depends = deps]
    <3>1. DOMAIN GitLabJobs(f) = DOMAIN GitLabRunnable(f)
      BY DEF GitLabJobs
    <3> QED BY <1>1, <3>1 DEF GitLabOut, G!AssignDependsOn
  <2>2. {"image", "env", "services", "steps"} \subseteq DOMAIN made
    BY <1>5 DEF G!JobOf
  <2>3. made = [i \in DOMAIN made |-> made[i]]
    BY <1>5 DEF G!JobOf
  <2> HIDE DEF job, made, deps
  <2> QED BY <2>1, <2>2, <2>3
<1>8. \A cs, phase : G!Steps(cs, phase) = Steps(cs, phase)
  BY DEF G!Steps, Steps
<1> QED BY <1>3, <1>4, <1>6, <1>7, <1>8, GitLabFilled

\* The settings of a job, as a condition on it and its places.
SettingsAre(job, places, whole) ==
    LET variables == [p \in DOMAIN places |-> G!Variables(places[p])]
        all(key) == G!Listed(Nearest(places, key))
    IN  /\ \A key \in Key :
            LET value == Nearest(variables, key) IN
            IF key \notin DOMAIN job.env THEN value = "blank" ELSE value \in Key \cup {job.env[key]}
        /\ whole =>
            /\ <<job.image>> = all("image") /\ job.services = all("services")
            /\ job.steps = Steps(all("before_script") \o all("script"), "main")
                           \o Steps(all("after_script"), "after")

LEMMA GitLabSettings ==
    ASSUME NEW f, G!IsFile(f), NEW x \in DOMAIN GitLabOut(f).jobs
    PROVE  LET job == GitLabOut(f).jobs[x]
           IN  SettingsAre(job, GitLabPlaces(f, G!RawOf(f, job.name)), TRUE)
<1> DEFINE job == GitLabOut(f).jobs[x]
           own == G!RawOf(f, job.name)
           raw == G!ResolveExtends(f, own)
           given == G!Given(f, raw)
           places == GitLabPlaces(f, own)
           env == Filled(G!Variables(raw), G!Variables(f.top))
           envs == [p \in DOMAIN places |-> G!Variables(places[p])]
<1>1. IsPlace(own) /\ GitLabRuns(f, job.name)
  BY GitLabFields
<1>2. /\ job.image = given.image /\ job.env = env
      /\ job.services = G!Listed(G!Get(given, "services"))
      /\ job.steps = Steps(G!Listed(G!Get(given, "before_script")) \o <<raw.script>>, "main")
                     \o Steps(G!Listed(G!Get(given, "after_script")), "after")
  BY GitLabFields
<1>3. \A key \in WholeKeys : Nearest(places, key) = G!Get(given, key)
  BY <1>1, GitLabNearest
<1>4. \A key \in Key : Nearest(envs, key) = IF key \in DOMAIN env THEN env[key] ELSE "blank"
  BY <1>1, GitLabNearest
<1>5. {"image", "script", "services", "before_script", "after_script"} \subseteq WholeKeys
  BY GitLabValues DEF WholeKeys
<1>6. G!Get(given, "image") # "blank" /\ G!Get(raw, "script") # "blank"
  BY <1>1 DEF GitLabRuns, G!Runnable
<1>7. /\ "script" \in DOMAIN given /\ given["script"] = raw["script"]
      /\ "image" \in DOMAIN given /\ given["image"] # "blank" /\ given["script"] # "blank"
  <2>1. given = Filled(Filled(raw, f.top), f.default)
    BY GitLabFilled DEF G!Given
  <2>2. "script" \in DOMAIN raw /\ raw["script"] # "blank"
    BY <1>6 DEF G!Get, G!Has
  <2>3. "script" \in DOMAIN given /\ given["script"] = raw["script"]
    <3> HIDE DEF raw
    <3> QED BY <2>1, <2>2 DEF Filled
  <2>4. "image" \in DOMAIN given /\ given["image"] # "blank"
    BY <1>6 DEF G!Get, G!Has
  <2> QED BY <2>2, <2>3, <2>4
<1>8. ASSUME NEW key \in {"image", "script"} PROVE G!Listed(Nearest(places, key)) = <<given[key]>>
  <2>1. key \in DOMAIN given /\ given[key] # "blank"
    BY <1>7
  <2>2. given[key] \in Text \cup {"blank"}
    BY <1>1, <2>1, GitLabGivenIsText
  <2>3. given[key] # "none"
    BY <2>1, <2>2, FilesAssumption
  <2>4. Nearest(places, key) = given[key]
    <3> HIDE DEF places, given
    <3> QED BY <1>3, <1>5, <2>1 DEF G!Get, G!Has
  <2> QED BY <2>1, <2>3, <2>4 DEF G!Listed
<1> HIDE DEF job, own, raw, given, places, env, envs
<1>9. SettingsAre(job, places, TRUE)
  <2>1. \A key \in Key : IF key \notin DOMAIN job.env THEN Nearest(envs, key) = "blank"
                                                      ELSE Nearest(envs, key) \in Key \cup {job.env[key]}
    BY <1>2, <1>4
  <2>2. G!Listed(Nearest(places, "image")) = <<job.image>>
    BY <1>2, <1>8
  <2>3. G!Listed(Nearest(places, "script")) = <<raw.script>>
    BY <1>7, <1>8
  <2>4. \A key \in {"services", "before_script", "after_script"} :
            G!Listed(Nearest(places, key)) = G!Listed(G!Get(given, key))
    BY <1>3, <1>5
  <2>5. job.services = G!Listed(Nearest(places, "services"))
    BY <1>2, <2>4
  <2>6. job.steps = Steps(G!Listed(Nearest(places, "before_script"))
                          \o G!Listed(Nearest(places, "script")), "main")
                    \o Steps(G!Listed(Nearest(places, "after_script")), "after")
    BY <1>2, <2>3, <2>4
  <2> QED BY <2>1, <2>2, <2>5, <2>6 DEF SettingsAre, envs
<1> QED BY <1>9 DEF job, own, places

LEMMA CircleCISettings ==
    ASSUME IInv, HasPipeline, provider = "circleci", NEW y \in DOMAIN out.jobs
    PROVE  SettingsAre(out.jobs[y], <<[variables |-> C!DefOf(file, out.jobs[y].name).env]>>, FALSE)
<1> DEFINE job == out.jobs[y]
           env == C!DefOf(file, job.name).env
           places == <<[variables |-> env]>>
           envs == [p \in DOMAIN places |-> G!Variables(places[p])]
           layer == [x \in 0..0 |-> env]
<1>1. job.env = env
  <2>1. \E v \in DOMAIN C!Workflows(file) : \E x \in DOMAIN KeptIn(file, v) :
            SameJob(file, job, KeptIn(file, v)[x])
    BY CircleCIReturns DEF CircleCIJobs
  <2> QED BY <2>1 DEF SameJob
<1> HIDE DEF env
<1>2. envs = <<env>>
  BY DEF G!Variables, G!Has
<1>3. envs \in Seq({env}) /\ Len(envs) = 0 + 1 /\ layer[0] = env /\ \A x \in 0..0 : layer[x] = envs[x + 1]
  BY <1>2
<1> HIDE DEF envs, layer
<1>4. FromNearest(layer, 0, env, Key)
  <2>1. FromNearest(layer, 0, layer[0], Key)
    BY FirstPlace
  <2> QED BY <1>3, <2>1
<1>5. ASSUME NEW key \in Key PROVE Nearest(envs, key) = IF key \in DOMAIN env THEN env[key] ELSE "blank"
  <2> DEFINE k == 0
  <2>1. k \in Nat /\ Len(envs) = k + 1 /\ envs \in Seq({env})
    BY <1>3
  <2>2. \A x \in 0..k : layer[x] = envs[x + 1]
    BY <1>3
  <2>3. FromNearest(layer, k, env, Key)
    BY <1>3, <1>4
  <2> HIDE DEF k
  <2> QED BY <2>1, <2>2, <2>3, NearestIs
<1> HIDE DEF job
<1>6. SettingsAre(job, places, FALSE)
  BY <1>1, <1>5 DEF SettingsAre, envs
<1> QED BY <1>6 DEF job, env

LEMMA GitHubSettings ==
    ASSUME IInv, HasPipeline, provider = "github-actions", NEW y \in DOMAIN out.jobs
    PROVE  LET base == H!BaseOf(file, out.jobs[y].name[1]) IN
           SettingsAre(out.jobs[y], <<[variables |-> base.containerEnv], [variables |-> base.env],
                                      [variables |-> file.env]>>, FALSE)
<1> DEFINE job == out.jobs[y]
           base == H!BaseOf(file, job.name[1])
           merged == H!MergedEnv(file, base)
           places == <<[variables |-> base.containerEnv], [variables |-> base.env], [variables |-> file.env]>>
           envs == [p \in DOMAIN places |-> G!Variables(places[p])]
           layer == [x \in 0..2 |-> envs[x + 1]]
<1>1. job.env = [key \in DOMAIN merged |-> H!Substituted(merged[key], H!NoEnv)]
  <2>1. out.jobs = [x \in DOMAIN GitHubOrder(file) |->
                H!JobOf(file, GitHubOrder(file)[x], LevelIn(H!Nodes(file))[GitHubOrder(file)[x].name])]
    BY GitHubReturns
  <2>2. job = H!JobOf(file, GitHubOrder(file)[y], LevelIn(H!Nodes(file))[GitHubOrder(file)[y].name])
    BY <2>1
  <2> HIDE DEF job
  <2>3. job.name = GitHubOrder(file)[y].name
    BY <2>2 DEF H!JobOf
  <2>4. job.env = H!EnvOf(file, base)
    BY <2>2, <2>3 DEF H!JobOf
  <2> QED BY <2>4 DEF H!EnvOf
<1>2. merged = Filled(Filled(base.containerEnv, base.env), file.env)
  BY DEF H!MergedEnv, H!Filled, Filled
<1>3. envs = <<base.containerEnv, base.env, file.env>>
  BY DEF G!Variables, G!Has
<1> HIDE DEF job, base, merged, envs
<1>4. /\ envs \in Seq(ToSet(envs)) /\ Len(envs) = 2 + 1 /\ \A x \in 0..2 : layer[x] = envs[x + 1]
      /\ layer[0] = base.containerEnv /\ layer[1] = base.env /\ layer[2] = file.env
  <2>1. Len(envs) = 3 /\ envs[1] = base.containerEnv /\ envs[2] = base.env /\ envs[3] = file.env
    BY <1>3
  <2>2. envs = [p \in 1..3 |-> envs[p]]
    BY <1>3
  <2>3. envs \in Seq(ToSet(envs))
    BY <2>2, ArrayIsSeq
  <2> QED BY <2>1, <2>3
<1> HIDE DEF layer
<1>5. FromNearest(layer, 2, merged, Key)
  <2> DEFINE both == Filled(layer[0], layer[1])
             all == Filled(both, layer[2])
  <2>1. FromNearest(layer, 0, layer[0], Key)
    BY FirstPlace
  <2>2. Adds(layer[0], layer[1], both, Key) /\ Adds(both, layer[2], all, Key)
    BY FilledAdds
  <2>3. merged = all
    BY <1>2, <1>4
  <2> HIDE DEF both, all
  <2>4. 1 \in Nat \ {0} /\ 2 \in Nat \ {0} /\ 1 - 1 = 0 /\ 2 - 1 = 1
    OBVIOUS
  <2>5. FromNearest(layer, 1, both, Key)
    BY <2>1, <2>2, <2>4, OnePlaceMore
  <2>6. FromNearest(layer, 2, all, Key)
    BY <2>2, <2>4, <2>5, OnePlaceMore
  <2> QED BY <2>3, <2>6
<1>6. ASSUME NEW key \in Key PROVE Nearest(envs, key) = IF key \in DOMAIN merged THEN merged[key] ELSE "blank"
  <2> DEFINE k == 2
  <2>1. k \in Nat /\ Len(envs) = k + 1 /\ envs \in Seq(ToSet(envs))
    BY <1>4
  <2>2. \A x \in 0..k : layer[x] = envs[x + 1]
    BY <1>4
  <2>3. FromNearest(layer, k, merged, Key)
    BY <1>4, <1>5
  <2> HIDE DEF k
  <2> QED BY <2>1, <2>2, <2>3, NearestIs
<1>7. /\ DOMAIN job.env = DOMAIN merged
      /\ \A key \in DOMAIN merged : merged[key] \in Key \cup {job.env[key]}
  BY <1>1 DEF H!Substituted
<1>8. SettingsAre(job, places, FALSE)
  BY <1>6, <1>7 DEF SettingsAre, envs
<1> QED BY <1>8 DEF job, base

\* What the code promises of the settings of a job that runs, whatever it extends.
NearestFirst(job) == SettingsAre(job, Places(job, Parents(job)), provider = "gitlab")

LEMMA AllSettings ==
    ASSUME IInv, outcome = "parsed", NEW x \in DOMAIN out.jobs
    PROVE  NearestFirst(out.jobs[x])
<1> DEFINE job == out.jobs[x]
<1>1. HasPipeline
  BY DEF HasPipeline
<1>2. CASE provider = "gitlab"
  <2>1. G!IsFile(file) /\ out = GitLabOut(file)
    BY <1>1, <1>2, GitLabReturns
  <2>2. SettingsAre(job, GitLabPlaces(file, G!RawOf(file, job.name)), TRUE)
    BY <2>1, GitLabSettings
  <2>3. Places(job, Parents(job)) = GitLabPlaces(file, G!RawOf(file, job.name))
    BY <1>2 DEF Places, Parents, GitLabPlaces
  <2> QED BY <1>2, <2>2, <2>3 DEF NearestFirst
<1>3. CASE provider = "github-actions"
  <2> DEFINE base == H!BaseOf(file, job.name[1])
             places == <<[variables |-> base.containerEnv], [variables |-> base.env],
                         [variables |-> file.env]>>
  <2>1. SettingsAre(job, places, FALSE)
    BY <1>1, <1>3, GitHubSettings
  <2>2. Places(job, Parents(job)) = places
    BY <1>3 DEF Places
  <2> QED BY <1>3, <2>1, <2>2 DEF NearestFirst
<1>4. CASE provider = "circleci"
  <2> DEFINE places == <<[variables |-> C!DefOf(file, job.name).env]>>
  <2>1. SettingsAre(job, places, FALSE)
    BY <1>1, <1>4, CircleCISettings
  <2>2. Places(job, Parents(job)) = places
    BY <1>4 DEF Places
  <2> QED BY <1>4, <2>1, <2>2 DEF NearestFirst
<1> QED BY <1>2, <1>3, <1>4 DEF IInv

LEMMA NearestFirstTakes ==
    ASSUME NEW job, NearestFirst(job), NEW keys, NEW variables \in SUBSET Key
    PROVE  TakesNearest(job, Places(job, Parents(job)), keys, variables)
<1> DEFINE places == Places(job, Parents(job))
<1>1. SettingsAre(job, places, provider = "gitlab")
  BY DEF NearestFirst
<1> HIDE DEF places
<1>2. TakesNearest(job, places, keys, variables)
  BY <1>1 DEF TakesNearest, SettingsAre, VariablesIn
<1> QED BY <1>2 DEF places

\* The order of the places is the one in which ResolveExtends fills in what is missing:
\* a job has every setting from the nearest place that gives it, and of two parents
\* the first in the list is the nearer one, in every file (gitlab/parser.go:395-429;
\* githubactions/parser.go:221-224).
THEOREM FirstParentWins ==
    LocalSpec => [](outcome = "parsed" => \A x \in DOMAIN out.jobs :
        LET job == out.jobs[x] IN
        TakesNearest(job, Places(job, Parents(job)), Overridden, Key))
<1>1. IInv => (outcome = "parsed" => \A x \in DOMAIN out.jobs :
        LET job == out.jobs[x] IN
        TakesNearest(job, Places(job, Parents(job)), Overridden, Key))
  <2> SUFFICES ASSUME IInv, outcome = "parsed", NEW x \in DOMAIN out.jobs
               PROVE  TakesNearest(out.jobs[x], Places(out.jobs[x], Parents(out.jobs[x])), Overridden, Key)
    OBVIOUS
  <2>1. NearestFirst(out.jobs[x])
    BY AllSettings
  <2> QED BY <2>1, NearestFirstTakes
<1> QED BY <1>1, InductiveInvariant, PTL

\* Every variable of a job has the value of the nearest place that gives it one, and
\* image, services and scripts are overridden as a whole, for any places and any number
\* of parents, wherever the order of the parents makes no difference
\* (gitlab/parser.go:395-403, 460-463; githubactions/parser.go:221-224).
THEOREM SettingsAreNearest == LocalSpec => []SettingsComeFromTheNearest
<1>1. IInv => SettingsComeFromTheNearest
  <2> SUFFICES ASSUME IInv, outcome = "parsed", NEW x \in DOMAIN out.jobs,
                      NEW keys, NEW variables \in SUBSET Key
               PROVE  TakesNearest(out.jobs[x], Places(out.jobs[x], Parents(out.jobs[x])),
                                   keys, variables)
    BY DEF SettingsComeFromTheNearest
  <2>1. NearestFirst(out.jobs[x])
    BY AllSettings
  <2> QED BY <2>1, NearestFirstTakes
<1> QED BY <1>1, InductiveInvariant, PTL
=============================================================================
