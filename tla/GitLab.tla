------------------------------- MODULE GitLab -------------------------------
(***************************************************************************)
(* gitlab.Parse (internal/gitlab/parser.go:42-495) on abstract files.  The *)
(* top-level keys that are no jobs are fields of a file.                   *)
(***************************************************************************)
EXTENDS Pipeline

CONSTANTS
    Hidden,          \* the names that start with a dot
    Stage,           \* the names of stages
    TestStage,       \* test
    DefaultStages    \* the value of defaultStages

\* What an entry may define, and the values told apart.  "blank" is what counts as no
\* value, "none" a list without members, "bad" what is not a list of services.
\* variables: that is no mapping is one without variables.
Values == [stage |-> Stage \cup {"blank"}, image |-> Text \cup {"blank"},
           script |-> Text \cup {"blank"}, before_script |-> Text \cup {"blank", "none"},
           after_script |-> Text \cup {"blank", "none"}, services |-> Text \cup {"none", "bad"},
           variables |-> Env, extends |-> Seq(Name)]

Gives(raw, keys) == DOMAIN raw \subseteq keys /\ \A key \in DOMAIN raw : raw[key] \in Values[key]

\* stages: no list or one.  A key of top or default that is blank is left out: it
\* counts as not given.  malformed: a section is not of the YAML kind it must be.
IsFile(file) ==
    /\ Len(file.stages) <= 1 /\ file.stages \in Seq(Seq(Stage))
    /\ Gives(file.top, {"image", "before_script", "after_script", "services", "variables"})
    /\ Gives(file.default, {"image", "before_script", "after_script"})
    /\ \A settings \in {file.top, file.default} : \A key \in DOMAIN settings \ {"variables"} :
            settings[key] \notin {"blank", "bad"}
    /\ file.include \in BOOLEAN /\ file.malformed \in BOOLEAN
    /\ file.entries \in Seq(ToSet(file.entries))
    /\ \A x \in DOMAIN file.entries :
            LET e == file.entries[x] IN
            e.name \in Name /\ e.mapping \in BOOLEAN /\ Gives(e.raw, DOMAIN Values)

Stages(file) == IF file.stages = <<>> THEN DefaultStages ELSE file.stages[1]

Mappings(file) == Select(file.entries, LAMBDA e : e.mapping)

\* allEntries: of a repeated key the last value.
RawOf(file, n) == LastOf(Mappings(file), n).raw

Has(raw, key) == key \in DOMAIN raw
Get(raw, key) == IF Has(raw, key) THEN raw[key] ELSE "blank"
Variables(raw) == IF Has(raw, "variables") THEN raw.variables ELSE NoEnv

-----------------------------------------------------------------------------
(* extends: *)

Parents(raw) == IF Has(raw, "extends") THEN raw.extends ELSE <<>>
Missing(file, raw) == ToSet(Parents(raw)) \ Known(Mappings(file))
Found(file, raw) == Select(Parents(raw), LAMBDA n : n \in Known(Mappings(file)))

\* Mutant: variables: is overridden as every other key is.
MergeShallow(child, parent) == Filled(child, parent)

\* The child's keys override the parent's; variables: are merged one by one.
MergeExtends(child, parent) ==
    LET merged == Filled(child, parent) IN
    IF Has(child, "variables")
    THEN [merged EXCEPT !.variables = Filled(child.variables, Variables(parent))] ELSE merged

\* What is merged in later only fills in what is still missing.
ResolveExtends(file, raw) ==
    LET found == Found(file, raw)
        merged[x \in 0..Len(found)] ==
            IF x = 0 THEN raw ELSE MergeExtends(merged[x - 1], RawOf(file, found[x]))
    IN  merged[Len(found)]

\* A missing parent hides that another one has parents of its own.
ExtendsFinding(file, raw) ==
    Finding("extends",
            IF Missing(file, raw) # {}
               \/ \E n \in ToSet(Found(file, raw)) : Has(RawOf(file, n), "extends")
            THEN "Unsupported" ELSE "Emulated")

-----------------------------------------------------------------------------
(* The second pass *)

Candidates(file) == Select(Mappings(file), LAMBDA e : e.name \notin Hidden)

StageOf(raw) == IF Has(raw, "stage") /\ raw.stage # "blank" THEN raw.stage ELSE TestStage

\* The job's own, blank or not, then the top-level one, then the default.
Given(file, raw) == Filled(Filled(raw, file.top), file.default)

Runnable(file, raw) ==
    /\ Contains(Stages(file), StageOf(raw))
    /\ Get(Given(file, raw), "image") # "blank"
    /\ Get(raw, "script") # "blank"
    /\ Get(raw, "services") # "bad"

Resolved(file, e) == ResolveExtends(file, RawOf(file, e.name))

FindingsOf(file) ==
    LET extending == Select(Candidates(file),
                            LAMBDA e : Has(RawOf(file, e.name), "extends"))
    IN (IF file.include THEN <<Finding("include", "Unsupported")>> ELSE <<>>)
       \o [x \in DOMAIN extending |-> ExtendsFinding(file, RawOf(file, extending[x].name))]

-----------------------------------------------------------------------------
(* assignDependsOn *)

\* A stage that is listed twice counts where it is listed last.
StageIndex(stages, s) == Max({x \in DOMAIN stages : stages[x] = s})

\* Mutant: the stage just before, though it be empty.
PrecedingNext(stages, jobs, s) ==
    LET prev == StageIndex(stages, s) - 1 IN
    Select(jobs, LAMBDA job : StageIndex(stages, job.stage) = prev)

\* Mutant: the search starts at the job's own stage.
PrecedingOwn(stages, jobs, s) ==
    Select(jobs, LAMBDA job : StageIndex(stages, job.stage) = StageIndex(stages, s))

\* The jobs of the nearest stage before s that has any.
Preceding(stages, jobs, s) ==
    LET before == {StageIndex(stages, jobs[x].stage) : x \in DOMAIN jobs}
                    \cap 1..(StageIndex(stages, s) - 1)
    IN IF before = {} THEN <<>>
       ELSE Select(jobs, LAMBDA job : StageIndex(stages, job.stage) = Max(before))

AssignDependsOn(stages, jobs) ==
    [x \in DOMAIN jobs |->
        [jobs[x] EXCEPT !.depends = Named(Preceding(stages, jobs, jobs[x].stage))]]

-----------------------------------------------------------------------------
Listed(setting) == IF setting \in {"blank", "none"} THEN <<>> ELSE <<setting>>

JobOf(file, e) ==
    LET raw == Resolved(file, e)
        given == Given(file, raw)
    IN [name |-> e.name, depends |-> <<>>, stage |-> StageOf(raw), image |-> given.image,
        env |-> Filled(Variables(raw), Variables(file.top)),
        services |-> Listed(Get(given, "services")),
        steps |-> Steps(Listed(Get(given, "before_script")) \o <<raw.script>>, "main")
                  \o Steps(Listed(Get(given, "after_script")), "after")]

Parse(file) ==
    LET runnable == Select(Candidates(file), LAMBDA e : Runnable(file, Resolved(file, e)))
        skipped == Select(Candidates(file), LAMBDA e : ~Runnable(file, Resolved(file, e)))
        jobs == [x \in DOMAIN runnable |-> JobOf(file, runnable[x])]
    IN IF file.malformed THEN Rejected
       ELSE Finished([ok |-> TRUE,
                      jobs |-> AssignDependsOn(Stages(file), jobs),
                      skipped |-> Named(skipped),
                      findings |-> FindingsOf(file)])
=============================================================================
