---------------------------- MODULE MCExecutor -----------------------------
(* Two jobs, one after the other or side by side.  Nobody debugs those that  *)
(* have services or after_script, where the two are side by side only one;   *)
(* debugged jobs are of one step each.                                       *)
EXTENDS Executor, TLC

CONSTANTS a, b

TwoJobs == {a, b}

Pipe(bDeps) == [jobs |-> <<a, b>>, dependsOn |-> a :> <<>> @@ b :> bDeps, skippedJobs |-> {}]

ChainAndPair == {Pipe(<<a>>), Pipe(<<>>)}
PairOnly == {Pipe(<<>>)}

OneStep == [services |-> 0, main |-> 1, after |-> 0]
WithAfter == [services |-> 0, main |-> 1, after |-> 1]
WithService == [services |-> 1, main |-> 1, after |-> 0]

OneStepConfigs == {OneStep}
AllConfigs == {OneStep, WithAfter, WithService}

\* The instances that are run.
Debugged == ctrl /\ config = [j \in Name |-> OneStep]
InTurn == ~ctrl /\ pipeline = Pipe(<<a>>) /\ config = a :> WithService @@ b :> WithAfter
SideBySide == ~ctrl /\ pipeline = Pipe(<<>>) /\ config = a :> WithService @@ b :> OneStep

MCInit == Init /\ (Debugged \/ InTurn \/ SideBySide)

MCSpec == MCInit /\ [][Next]_vars /\ Fairness
=============================================================================
