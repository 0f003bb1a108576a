------------------------------- MODULE GitHub -------------------------------
(***************************************************************************)
(* githubactions.Parse (internal/githubactions/parser.go:52-449), matrix   *)
(* expansion (matrix.go) and expressions (expression.go) on abstract       *)
(* files.  A job made from a matrix is named by its base name and its      *)
(* combination.  An image, the value of a variable and a step may be a     *)
(* key, which stands for a text with ${{ env.<key> }} in it, or another    *)
(* context, which stands for one with an expression of that context.       *)
(***************************************************************************)
EXTENDS Pipeline

CONSTANT Value   \* of a matrix axis

\* A step is a run: step, one with a shell or working directory, one under a shell
\* that is not supported, or one with an expression; an action; or "bad", neither
\* run: nor uses:.
Contexts == {"matrix", "github", "other"} \cup Key
StepKind == {"run", "shell", "oddShell", "checkout", "action", "bad"} \cup Contexts

\* image: "blank" when there is no container: or it has none.  steps: is a list; the
\* list-valued axes of the matrix; whether it has include: or exclude:.
JobSet == [name : Name, image : Text \cup Contexts \cup {"blank"}, env : Env,
           containerEnv : Env, axes : Seq(Seq(Value)), include : BOOLEAN,
           steps : Seq(StepKind), needs : Seq(Name)]

\* inGit: HEAD can be read and names a branch.
FileSet == [jobs : Seq(JobSet), env : Env, inGit : BOOLEAN]

\* The cartesian product, axis by axis; without an axis, one empty combination.
Combinations(job) ==
    LET combos[n \in 0..Len(job.axes)] ==
            IF n = 0 THEN << <<>> >>
            ELSE FlattenSeq([c \in DOMAIN combos[n - 1] |->
                     [v \in DOMAIN job.axes[n] |-> Append(combos[n - 1][c], job.axes[n][v])]])
    IN  combos[Len(job.axes)]

\* Steps are only looked at in a combination.
Parses(job) ==
    /\ job.image # "blank"
    /\ Combinations(job) # <<>> => job.steps # <<>> /\ ~Contains(job.steps, "bad")

\* substituteExpressions, as far as values of variables go: nothing for a variable
\* that is not set.
Substituted(text, env) ==
    IF text \notin Key THEN text ELSE IF text \in DOMAIN env THEN env[text] ELSE ""

ExpressionLevel(context, job, inGit) ==
    IF \/ context \in Key
       \/ context = "matrix" /\ job.axes # <<>>
       \/ context = "github" /\ inGit
    THEN "Supported" ELSE "Unsupported"

\* The container's override the job's, and these the workflow's.
MergedEnv(file, job) == Filled(Filled(job.containerEnv, job.env), file.env)

\* An expression in one of them sees none of them.
EnvOf(file, job) ==
    LET merged == MergedEnv(file, job) IN
    [key \in DOMAIN merged |-> Substituted(merged[key], NoEnv)]

ImageOf(job) == Substituted(job.image, NoEnv)

TextFinding(text, job, inGit) ==
    CASE text = "checkout" -> Finding("checkout", "Emulated")
      [] text = "action" -> Finding("step", "Unsupported")
      [] text \in Contexts -> Finding("expression", ExpressionLevel(text, job, inGit))

\* What the matrix leaves out is reported with the first combination; of variables
\* with the same text one is.
FindingsOf(file, job, combo) ==
    LET env == MergedEnv(file, job)
        texts == <<job.image>> \o SetToSeq({env[key] : key \in DOMAIN env}) \o job.steps
        found == Select(texts, LAMBDA text : text \in Contexts \cup {"checkout", "action"})
    IN (IF job.include /\ combo = Combinations(job)[1]
        THEN <<Finding("matrix", "Unsupported")>> ELSE <<>>)
       \o [x \in DOMAIN found |-> TextFinding(found[x], job, file.inGit)]

-----------------------------------------------------------------------------
(* Phase 1 *)

Parsed(file) == Select(file.jobs, Parses)
BaseOf(file, n) == LastOf(Parsed(file), n)
Failed(file) == {file.jobs[x].name : x \in {y \in DOMAIN file.jobs : ~Parses(file.jobs[y])}}

(* Phase 2 *)

\* One node for each entry whose name was parsed, by this entry or another.
BaseNodes(file) ==
    LET known == Select(file.jobs, LAMBDA job : job.name \in Known(Parsed(file))) IN
    [x \in DOMAIN known |->
        [name |-> known[x].name, depends |-> BaseOf(file, known[x].name).needs]]

\* What FilterSkipped skips.
LeftOut(file) == DoomedIn(BaseNodes(file), Failed(file))
Kept(file) == Without(BaseNodes(file), LeftOut(file))

(* Phase 3 *)

Expansion(file, base) ==
    LET combos == Combinations(BaseOf(file, base)) IN
    [c \in DOMAIN combos |-> <<base, combos[c]>>]

\* Mutant: needs: stands for the first combination of a job.
ResolvedFirst(file, base) ==
    LET needs == BaseOf(file, base).needs IN
    FlattenSeq([x \in DOMAIN needs |->
        Select(Expansion(file, needs[x]), LAMBDA n : n = Expansion(file, needs[x])[1])])

Resolved(file, base) ==
    LET needs == BaseOf(file, base).needs IN
    FlattenSeq([x \in DOMAIN needs |-> Expansion(file, needs[x])])

\* Looked for in each combination of the job that needs it.
UnknownNeed(file) ==
    \E n \in Known(Kept(file)) :
        /\ Expansion(file, n) # <<>>
        /\ ~(ToSet(BaseOf(file, n).needs) \subseteq Known(Kept(file)))

Nodes(file) ==
    LET kept == Kept(file)
        nodesOf(base) == LET names == Expansion(file, base) IN
            [x \in DOMAIN names |-> [name |-> names[x], depends |-> Resolved(file, base)]]
    IN FlattenSeq([x \in DOMAIN kept |-> nodesOf(kept[x].name)])

JobOf(file, node, level) ==
    LET base == BaseOf(file, node.name[1])
        env == EnvOf(file, base)
    IN [name |-> node.name, depends |-> node.depends, stage |-> level, image |-> ImageOf(base),
        env |-> env, services |-> <<>>,
        steps |-> Steps([x \in DOMAIN base.steps |-> Substituted(base.steps[x], env)], "main")]

\* Mutant: the reasons of phase 1 are listed, without those of FilterSkipped.
SkippedInFailed(file) ==
    Select(Named(file.jobs), LAMBDA n : n \in Failed(file))

SkippedIn(file) ==
    Select(Named(file.jobs), LAMBDA n : n \in LeftOut(file))

Parse(file) ==
    LET nodes == Nodes(file)
        level == LevelIn(nodes)
        order == ByLevel(nodes, level, MaxLevel(nodes, level))
    IN IF UnknownNeed(file) \/ LevelsFail(nodes) THEN Rejected
       ELSE Finished(
            [ok |-> TRUE,
             jobs |-> [x \in DOMAIN order |-> JobOf(file, order[x], level[order[x].name])],
             skipped |-> SkippedIn(file),
             findings |-> FlattenSeq([x \in DOMAIN order |->
                 FindingsOf(file, BaseOf(file, order[x].name[1]), order[x].name[2])])])
=============================================================================
