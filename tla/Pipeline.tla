------------------------------ MODULE Pipeline ------------------------------
(***************************************************************************)
(* The model that every parser produces (internal/pipeline/model.go) and   *)
(* what the commands make of it: Run's validation                          *)
(* (internal/executor/docker.go:290-303), polyci plan and polyci check     *)
(* (cmd/polyci).  Images, values of variables and commands are names that  *)
(* tell where in a file they come from; services are a list of such names. *)
(***************************************************************************)
EXTENDS Dag, TLC

CONSTANTS
    Key,   \* the names of environment variables
    Text   \* values a file may give to a setting

\* The variables of a job or a part of a file.
Env == UNION {[keys -> Text \cup Key] : keys \in SUBSET Key}
NoEnv == <<>>

\* The steps of one phase of a job.
Steps(commands, phase) ==
    [x \in DOMAIN commands |-> [command |-> commands[x], phase |-> phase]]

\* What a parser returns: an error, or jobs, the names of skipped jobs and findings.
Rejected == [ok |-> FALSE, jobs |-> <<>>, skipped |-> <<>>, findings |-> <<>>]
NoJobs == [Rejected EXCEPT !.ok = TRUE]

\* Every parser's last check.
Finished(p) == IF p.jobs = <<>> /\ p.skipped = <<>> THEN Rejected ELSE p

\* The elements of s that pass a test, in order: SelectSeq, as a recursive function.
Select(s, Test(_)) == Those(s, {x \in DOMAIN s : Test(s[x])})

\* Of the elements with one name the last.
LastOf(s, n) == s[Max({x \in DOMAIN s : s[x].name = n})]

\* m, and what it does not set from next.
Filled(m, next) ==
    [key \in DOMAIN m \cup DOMAIN next |-> IF key \in DOMAIN m THEN m[key] ELSE next[key]]

Named(s) == [x \in DOMAIN s |-> s[x].name]

Finding(feature, level) == [feature |-> feature, level |-> level]

RunRejects(p) == HasDuplicate(p.jobs) \/ HasUnknown(p.jobs)

PlanFails(p) == LevelsFail(p.jobs)

-----------------------------------------------------------------------------
(* polyci check.  A category that is not in use is Not Present, as good as *)
(* Supported for the score.  Variables of single steps are left out.       *)

HasFinding(p, feature, level) == Contains(p.findings, Finding(feature, level))

CategoryStatus(used, unsupported, emulated) ==
    CASE ~used -> "Not Present"
      [] used /\ unsupported -> "Unsupported"
      [] used /\ ~unsupported /\ emulated -> "Emulated"
      [] OTHER -> "Supported"

Environment(p) ==
    CategoryStatus(\E x \in DOMAIN p.jobs : p.jobs[x].env # NoEnv, FALSE, FALSE)

ShellWorkingDir(p) ==
    LET Uses(kind) == \E x \in DOMAIN p.jobs : \E y \in DOMAIN p.jobs[x].steps :
                          p.jobs[x].steps[y].command = kind
    IN CategoryStatus(Uses("shell") \/ Uses("oddShell"), Uses("oddShell"), FALSE)

Filesystem(p) == CategoryStatus(p.jobs # <<>>, FALSE, HasFinding(p, "checkout", "Emulated"))

Services(p) ==
    CategoryStatus(\E x \in DOMAIN p.jobs : p.jobs[x].services # <<>>, FALSE, FALSE)

Expressions(p) ==
    CategoryStatus(\E x \in DOMAIN p.findings : p.findings[x].feature = "expression",
                   HasFinding(p, "expression", "Unsupported"),
                   HasFinding(p, "expression", "Emulated"))

Categories(p) ==
    <<Environment(p), ShellWorkingDir(p), Filesystem(p), Services(p), Expressions(p)>>

Score(status) ==
    CASE status = "Unsupported" -> 2
      [] status = "Emulated" -> 1
      [] OTHER -> 0

Confidence(p) ==
    LET score == FoldLeft(LAMBDA sum, status : sum + Score(status), 0, Categories(p)) IN
    CASE score = 0 -> "HIGH"
      [] score \in 1..2 -> "MEDIUM"
      [] OTHER -> "LOW"
=============================================================================
