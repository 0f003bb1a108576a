---------------------------- MODULE MCScheduler ----------------------------
(* Scheduler on small pipelines: every dependency graph of three jobs, up to *)
(* renaming, with both orders of a two-element DependsOn; the four-job       *)
(* diamond; and the pipelines Run rejects or has nothing to do for.          *)
EXTENDS SchedulerProofs, TLC

CONSTANTS a, b, c, d

Job4 == {a, b, c, d}

Deps3(bDeps, cDeps) ==
    [jobs |-> <<a, b, c>>,
     dependsOn |-> (a :> <<>> @@ b :> bDeps @@ c :> cDeps @@ d :> <<>>),
     skippedJobs |-> {}]

Acyclic3 ==
    {Deps3(bd, cd) : bd \in {<<>>, <<a>>},
                     cd \in {<<>>, <<a>>, <<b>>, <<a, b>>, <<b, a>>}}

Diamond ==
    [jobs |-> <<d, c, b, a>>,
     dependsOn |-> (a :> <<>> @@ b :> <<a>> @@ c :> <<a>> @@ d :> <<b, c>>),
     skippedJobs |-> {}]

NoDeps == [n \in Job4 |-> <<>>]

\* d was skipped by the parser; the other jobs are as in the second field.
Degenerate ==
    {[jobs |-> <<>>, dependsOn |-> NoDeps, skippedJobs |-> {d}],
     [jobs |-> <<a>>, dependsOn |-> NoDeps, skippedJobs |-> {c, d}],
     [jobs |-> <<a, b, a>>, dependsOn |-> [NoDeps EXCEPT ![b] = <<c>>], skippedJobs |-> {}],
     [jobs |-> <<a, b>>, dependsOn |-> [NoDeps EXCEPT ![b] = <<a, d>>], skippedJobs |-> {d}],
     [jobs |-> <<b, a>>, dependsOn |-> [NoDeps EXCEPT ![b] = <<a, a>>], skippedJobs |-> {}]}

SmallPipelines == Acyclic3 \cup {Diamond} \cup Degenerate
LivePipelines == Acyclic3 \cup Degenerate
=============================================================================
