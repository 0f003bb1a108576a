------------------------------ MODULE Resolve ------------------------------
(***************************************************************************)
(* FilterSkipped and then Levels on what it kept: how one workflow's jobs  *)
(* become runnable (internal/circleci/parser.go:106-124).  The other       *)
(* parsers and polyci plan use the two the same way, with the list built   *)
(* anew in between.                                                        *)
(***************************************************************************)
EXTENDS DagFilter

VARIABLES
    called,                                                        \* Levels was called
    nodes, top, stack, levels, visiting, maxLevel, order, result   \* of DagLevels

L == INSTANCE DagLevels WITH NodeLists <- {<<>>}

levelsVars == <<nodes, top, stack, levels, visiting, maxLevel, order, result>>
allVars == <<vars, called, levelsVars>>

ResolveInit == Init /\ called = FALSE /\ L!Init

Filters == Step /\ UNCHANGED <<called, levelsVars>>

\* Levels is called with the nodes that were kept.
Call ==
    /\ pc = "done"
    /\ ~called
    /\ called' = TRUE
    /\ nodes' = kept
    /\ UNCHANGED <<vars, top, stack, levels, visiting, maxLevel, order, result>>

Searches == called /\ L!Step /\ UNCHANGED <<vars, called>>

Resolved == result # "none" /\ UNCHANGED allVars

ResolveNext == Filters \/ Call \/ Searches \/ Resolved

ResolveSpec ==
    ResolveInit /\ [][ResolveNext]_allVars /\ WF_allVars(Filters \/ Call \/ Searches)

-----------------------------------------------------------------------------
(* DagFilter's properties hold throughout; these are of what was kept. *)

\* Levels fails exactly for a duplicate, a dependency on nothing or a cycle among
\* the jobs that were kept (levels.go:25-60).
ErrorsAreRight == called => L!ErrorsAreRight

\* A kept job's level is the length of its longest chain of dependencies
\* (levels.go:19-24).
LevelsAreLongestChains == L!LevelsAreLongestChains

\* The order names every kept job once, after its dependencies, and in the
\* file's order within a level (levels.go:22-24, 77-83).
OrderIsStableAndTopological == L!OrderIsStableAndTopological

\* Leaving jobs out never makes a good file bad: what is kept depends on nothing
\* that was left out, so if Levels fails then for a duplicate, a cycle or an
\* unknown name the file has itself (levels.go:87-94, parser.go:119-124).
SkippingBreaksNothing ==
    result \notin {"none", "ok"} =>
        \/ HasDuplicate(arg.nodes)
        \/ HasCycle(arg.nodes)
        \/ \E m \in Known(arg.nodes) :
                ~(DepsIn(arg.nodes, m) \subseteq Known(arg.nodes) \cup arg.skipped)

\* The passes end and the search ends, on graphs with cycles too.
ResolutionEnds == <>(result # "none")
=============================================================================
