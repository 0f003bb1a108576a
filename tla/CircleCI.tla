------------------------------ MODULE CircleCI ------------------------------
(***************************************************************************)
(* circleci.Parse (internal/circleci/parser.go:56-453) on abstract files.  *)
(* A file whose sections are not of the YAML kind they must be is rejected *)
(* at once; it is left out.                                                *)
(***************************************************************************)
EXTENDS Pipeline

CONSTANT Build   \* the job that runs when there is no workflows: section

\* docker: lists images, "blank" where an entry names none.  "cache" stands for every
\* step that does nothing but log, "unknown" for one that is no step.
JobSet == [name : Name, docker : Seq(Text \cup {"blank"}), env : Env,
           steps : Seq({"run", "checkout", "cache", "unknown"})]

\* Keys may be repeated, in jobs: as well as in workflows:.
FileSet == [jobs : Seq(JobSet), hasWorkflows : BOOLEAN,
            workflows : Seq([name : STRING, refs : Seq(NodeSet)])]

Parses(job) ==
    /\ job.docker # <<>> /\ ~Contains(job.docker, "blank")
    /\ job.steps # <<>> /\ ~Contains(job.steps, "unknown")

\* A definition that parses is not undone by another under the same name that does not.
Definitions(file) == Select(file.jobs, Parses)
DefOf(file, n) == LastOf(Definitions(file), n)

FindingsOf(job) ==
    LET noOps == Select(job.steps, LAMBDA step : step # "run") IN
    [x \in DOMAIN noOps |-> IF noOps[x] = "checkout" THEN Finding("checkout", "Emulated")
                                                     ELSE Finding("step", "Unsupported")]

\* parseWorkflows: a repeated name is in the order twice, with the last one's jobs.
Workflows(file) ==
    IF file.hasWorkflows
    THEN [w \in DOMAIN file.workflows |-> LastOf(file.workflows, file.workflows[w].name)]
    ELSE <<[name |-> "default", refs |-> <<[name |-> Build, depends |-> <<>>]>>]>>

\* Mutant: only the jobs without a definition, not those that require them.
LeftOutAlone(file, refs) == Known(refs) \ Known(Definitions(file))

\* What FilterSkipped skips.
LeftOut(file, refs) == DoomedIn(refs, Known(refs) \ Known(Definitions(file)))

\* Mutant: only the first of requires: is kept.
JobOfFirst(file, ref, workflow, level) ==
    LET def == DefOf(file, ref.name) IN
    [name |-> ref.name, depends |-> Select(ref.depends, LAMBDA n : n = ref.depends[1]),
     stage |-> <<workflow, level>>, image |-> Head(def.docker), env |-> def.env,
     services |-> Tail(def.docker), steps |-> Steps(def.steps, "main")]

JobOf(file, ref, workflow, level) ==
    LET def == DefOf(file, ref.name) IN
    [name |-> ref.name, depends |-> ref.depends, stage |-> <<workflow, level>>,
     image |-> Head(def.docker), env |-> def.env, services |-> Tail(def.docker),
     steps |-> Steps(def.steps, "main")]

\* skippedSeen: a name is listed once, over all workflows.
ListSkipped(seen, refs, left) ==
    LET first == {x \in DOMAIN refs : \A y \in 1..(x - 1) : refs[y].name # refs[x].name}
    IN  seen \o Named(Those(refs, {x \in first : refs[x].name \in left \ ToSet(seen)}))

AddWorkflow(file, p, workflow) ==
    LET left == LeftOut(file, workflow.refs)
        kept == Without(workflow.refs, left)
        level == LevelIn(kept)
        order == ByLevel(kept, level, MaxLevel(kept, level))
    IN IF ~p.ok \/ LevelsFail(kept) THEN Rejected
       ELSE [ok |-> TRUE,
             jobs |-> p.jobs \o [x \in DOMAIN order |->
                          JobOf(file, order[x], workflow.name, level[order[x].name])],
             skipped |-> ListSkipped(p.skipped, workflow.refs, left),
             findings |-> p.findings \o
                 FlattenSeq([x \in DOMAIN order |-> FindingsOf(DefOf(file, order[x].name))])]

Parse(file) ==
    LET workflows == Workflows(file)
        after[w \in 0..Len(workflows)] ==
            IF w = 0 THEN NoJobs ELSE AddWorkflow(file, after[w - 1], workflows[w])
    IN IF ~file.hasWorkflows /\ Build \notin Known(file.jobs) THEN Rejected
       ELSE Finished(after[Len(workflows)])
=============================================================================
