------------------------------- MODULE Import -------------------------------
(***************************************************************************)
(* A command of polyci on one file (cmd/polyci/main.go:62-168): the        *)
(* provider's parser, then what run, plan or check makes of its pipeline.  *)
(* LocalRun puts the steps together and follows run.                       *)
(***************************************************************************)
EXTENDS Pipeline

CONSTANTS
    Build, Value, Hidden, Stage, TestStage, DefaultStages,   \* of the parsers
    CircleCIFiles, GitHubFiles, GitLabFiles                  \* the files considered

C == INSTANCE CircleCI
H == INSTANCE GitHub
G == INSTANCE GitLab

ASSUME FilesAssumption ==
    /\ Hidden \subseteq Name /\ Build \in Name
    /\ "none" \notin Text   \* GitLab's mark of a list without members is no text
    /\ DefaultStages \in Seq(Stage) /\ Contains(DefaultStages, TestStage)
    /\ CircleCIFiles \subseteq C!FileSet
    /\ GitHubFiles \subseteq H!FileSet
    /\ \A file \in GitLabFiles : G!IsFile(file)

VARIABLES
    provider,   \* of the file
    file,
    out,        \* the pipeline, once parsed
    outcome     \* where the command is: "start", "parsed", or how it ended

vars == <<provider, file, out, outcome>>

Init ==
    /\ \/ provider = "circleci" /\ file \in CircleCIFiles
       \/ provider = "github-actions" /\ file \in GitHubFiles
       \/ provider = "gitlab" /\ file \in GitLabFiles
    /\ out = NoJobs
    /\ outcome = "start"

\* resolvePipeline
Parsed(p) ==
    /\ outcome = "start"
    /\ out' = p
    /\ outcome' = IF p.ok THEN "parsed" ELSE "error"
    /\ UNCHANGED <<provider, file>>

ParseCircleCI == provider = "circleci" /\ Parsed(C!Parse(file))
ParseGitHub == provider = "github-actions" /\ Parsed(H!Parse(file))
ParseGitLab == provider = "gitlab" /\ Parsed(G!Parse(file))

Ends(how) ==
    /\ outcome = "parsed"
    /\ outcome' = how
    /\ UNCHANGED <<provider, file, out>>

\* executor.New finds no Docker daemon.
NoDaemon == Ends("error")
Run == Ends(IF RunRejects(out) THEN "rejected" ELSE "run")
Plan == Ends(IF PlanFails(out) THEN "error" ELSE "plan")
Check == Ends(Confidence(out))

-----------------------------------------------------------------------------
IsParsed(by) == outcome = "parsed" /\ provider = by

\* The names under which run knows jobs, and those that a file gives them.
JobNames == Known(out.jobs)
BaseNames == IF provider = "github-actions" THEN {n[1] : n \in JobNames} ELSE JobNames
Skipped == ToSet(out.skipped)

Repeats(S, names(_)) == \E v, w \in S : v # w /\ names(v) \cap names(w) # {}

\* Whatever the provider, the jobs a parser returns only depend on each other and
\* in no circle, so that no goroutine of Run waits in vain.  Names are unique except
\* where a CircleCI job is in two workflows or a GitLab key is repeated, and then
\* run and plan both refuse, which they must: two workflows may order two jobs in
\* opposite ways (model.go:100-108; docker.go:290-303, 338; plan.go:19-26).
AcceptedIsRunnable ==
    outcome = "parsed" =>
        /\ ~HasUnknown(out.jobs)
        /\ HasCycle(out.jobs) => HasDuplicate(out.jobs)
        /\ HasDuplicate(out.jobs) =>
            \/ /\ provider = "circleci"
               /\ LET refs == C!Workflows(file) IN
                  Repeats(DOMAIN refs, LAMBDA w : Known(refs[w].refs))
            \/ provider = "gitlab" /\ HasDuplicate(file.entries)

\* What a file declares as jobs: by reference from a workflow, under jobs:, or as a
\* mapping that is not hidden.  A name that GitHub's file gives a matrix with an axis
\* without values is left to NoJobVanishes.
Declared ==
    CASE provider = "circleci" ->
            UNION {Known(C!Workflows(file)[w].refs) : w \in DOMAIN C!Workflows(file)}
      [] provider = "github-actions" ->
            Known(file.jobs) \ {file.jobs[x].name : x \in {y \in DOMAIN file.jobs :
                                    <<>> \in ToSet(file.jobs[y].axes)}}
      [] provider = "gitlab" ->
            {file.entries[x].name : x \in {y \in DOMAIN file.entries :
                                    file.entries[y].mapping}} \ Hidden

\* No job is dropped without a word: each is run or listed as skipped, and never
\* both, except where a CircleCI job is in two workflows (model.go:20-29).
EveryJobIsAccountedFor ==
    outcome = "parsed" =>
        /\ Declared \subseteq BaseNames \cup Skipped
        /\ provider # "circleci" \/ Len(C!Workflows(file)) = 1 => BaseNames \cap Skipped = {}

\* The jobs a job of this name needs by itself, in any of its places in the file.
Needs(n) ==
    CASE provider = "circleci" ->
            UNION {DepsIn(C!Workflows(file)[w].refs, n) : w \in DOMAIN C!Workflows(file)}
      [] provider = "github-actions" ->
            UNION {ToSet(file.jobs[x].needs) : x \in {y \in DOMAIN file.jobs :
                                                        file.jobs[y].name = n}}
      [] provider = "gitlab" -> {}

\* A fault of the job's own, in one of its definitions.
Faulty(n) ==
    CASE provider = "circleci" -> n \notin Known(C!Definitions(file))
      [] provider = "github-actions" -> n \in H!Failed(file)
      [] provider = "gitlab" -> ~G!Runnable(file, G!ResolveExtends(file, G!RawOf(file, n)))

\* A fault of the file: nothing to run, names given twice, names of nothing, cycles.
FileFaulty ==
    CASE provider = "circleci" ->
            \/ Declared = {}
            \/ ~file.hasWorkflows /\ Build \notin Known(file.jobs)
            \/ \E w \in DOMAIN C!Workflows(file) : LevelsFail(C!Workflows(file)[w].refs)
      [] provider = "github-actions" ->
            \/ Declared = {}
            \/ LevelsFail([x \in DOMAIN file.jobs |->
                    [name |-> file.jobs[x].name, depends |-> file.jobs[x].needs]])
            \/ \E x \in DOMAIN file.jobs : \E y \in DOMAIN file.jobs[x].axes :
                    ~IsInjective(file.jobs[x].axes[y])
      [] provider = "gitlab" -> Declared = {} \/ file.malformed

\* One job's fault costs that job and those that need it, not the file: of the jobs
\* that run none is faulty, of the others each is or needs one that does not run,
\* and a file that is rejected has a fault of its own (circleci/parser.go:97-105,
\* githubactions/parser.go:84-88, 109-113; model.go:27-29).  A value that a matrix axis
\* gives twice counts as a fault of the file, as a name given twice does.
SkipsAreContained ==
    /\ outcome = "parsed" =>
        /\ \A n \in BaseNames : ~Faulty(n)
        /\ \A n \in Skipped : Faulty(n) \/ Needs(n) \cap Skipped # {}
    /\ outcome = "error" /\ ~out.ok => FileFaulty

\* The combinations of a matrix, without a loop.
Product(job) ==
    {combo \in [DOMAIN job.axes -> Value] :
        \A x \in DOMAIN job.axes : combo[x] \in ToSet(job.axes[x])}

\* Every combination of a matrix is a job, and whoever needs the job waits for all
\* of them (githubactions/parser.go:48-51, matrix.go:11-18).
NeedsCoverEveryCombination ==
    IsParsed("github-actions") =>
        /\ \A b \in BaseNames :
            {n \in JobNames : n[1] = b} = {b} \X Product(H!BaseOf(file, b))
        /\ \A x \in DOMAIN out.jobs :
            ToSet(out.jobs[x].depends) =
                {n \in JobNames : n[1] \in ToSet(H!BaseOf(file, out.jobs[x].name[1]).needs)}

\* GitLab's stages are barriers: a job's failure keeps exactly the jobs of later
\* stages from running, over empty stages and stages listed twice
\* (gitlab/parser.go:258-262).
StagesAreBarriers ==
    IsParsed("gitlab") /\ ~HasDuplicate(out.jobs) =>
        \A x, y \in DOMAIN out.jobs : x # y =>
            LET index(job) == G!StageIndex(G!Stages(file), job.stage) IN
            out.jobs[y].name \in DoomedIn(out.jobs, {out.jobs[x].name})
                <=> index(out.jobs[x]) < index(out.jobs[y])

\* The jobs that a job extends and the file has.
Parents(job) ==
    IF provider = "gitlab" THEN G!Found(file, G!RawOf(file, job.name)) ELSE <<>>

\* Where the settings of a job that runs may come from, the nearest place first: for
\* GitLab the entry, what it extends, the top level and default:; for GitHub Actions
\* the container, the job and the workflow, each with its variables.
Places(job, parents) ==
    CASE provider = "gitlab" ->
            <<G!RawOf(file, job.name)>>
            \o [x \in DOMAIN parents |-> G!RawOf(file, parents[x])]
            \o <<file.top, file.default>>
      [] provider = "github-actions" ->
            LET base == H!BaseOf(file, job.name[1]) IN
            <<[variables |-> base.containerEnv], [variables |-> base.env],
              [variables |-> file.env]>>
      [] provider = "circleci" -> <<[variables |-> C!DefOf(file, job.name).env]>>

Nearest(places, key) ==
    LET those == Select(places, LAMBDA place : key \in DOMAIN place) IN
    IF those = <<>> THEN "blank" ELSE Head(those)[key]

VariablesIn(places) == [p \in DOMAIN places |-> G!Variables(places[p])]

\* Of the given keys and variables, the job has the value of the nearest place that
\* gives one, and only then.
TakesNearest(job, places, keys, variables) ==
    LET whole(key) == G!Listed(Nearest(places, key)) IN
    /\ \A key \in variables :
        LET value == Nearest(VariablesIn(places), key) IN
        IF key \notin DOMAIN job.env THEN value = "blank"
                                     ELSE value \in Key \cup {job.env[key]}
    /\ provider = "gitlab" =>
        /\ "image" \in keys => <<job.image>> = whole("image")
        /\ "services" \in keys => job.services = whole("services")
        /\ {"before_script", "script", "after_script"} \subseteq keys =>
            job.steps = Steps(whole("before_script") \o whole("script"), "main")
                        \o Steps(whole("after_script"), "after")

Overridden == {"image", "services", "before_script", "script", "after_script"}

\* Every variable of a job has the value of the nearest place that gives it one, and
\* only then: variables are merged one by one over all places.  Image, services,
\* before_script and after_script are overridden as a whole (gitlab/parser.go:395-403,
\* 460-463).  Which of several parents is the nearest is left open: nothing is said of
\* what depends on it.  Values with expressions are left to
\* EnvExpressionsAreSubstituted.
SettingsComeFromTheNearest ==
    outcome = "parsed" => \A x \in DOMAIN out.jobs :
        LET job == out.jobs[x]
            first == Places(job, Parents(job))
            last == Places(job, Reverse(Parents(job)))
        IN  TakesNearest(job, first,
                {key \in Overridden : Nearest(first, key) = Nearest(last, key)},
                {key \in Key : Nearest(VariablesIn(first), key) = Nearest(VariablesIn(last), key)})

-----------------------------------------------------------------------------
(* What the comments say and the code does not do. *)

\* The fields of a job "(or jobs', if a list)" become defaults "matching GitLab's own
\* `extends` merge semantics" (gitlab/parser.go:395-399): in GitLab, of the members of
\* the list that give a key, the last one wins.
LastParentWins ==
    IsParsed("gitlab") => \A x \in DOMAIN out.jobs :
        LET job == out.jobs[x] IN
        TakesNearest(job, Places(job, Reverse(Parents(job))), Overridden, Key)

\* SkippedJobs "lists every job the parser recognized in the config but could not
\* turn into anything runnable at all", so that no omission is silent (model.go:20-27).
NoJobVanishes ==
    IsParsed("github-actions") => Known(file.jobs) \subseteq BaseNames \cup Skipped

\* "${{ env.<KEY> }} - substituted from the workflow/job's own env:" (README.md:301),
\* in image and env values too (githubactions/parser.go:221-224): with the value that
\* the job has for one of these, unless that is itself an expression.
EnvExpressionsAreSubstituted ==
    IsParsed("github-actions") => \A x \in DOMAIN out.jobs :
        LET job == out.jobs[x]
            base == H!BaseOf(file, job.name[1])
            merged == H!MergedEnv(file, base)
            agrees(text, value) ==
                text \in DOMAIN Filled(base.env, file.env) /\ merged[text] \notin Key =>
                    value = merged[text]
        IN  /\ agrees(base.image, job.image)
            /\ \A key \in DOMAIN merged : agrees(merged[key], job.env[key])
=============================================================================
