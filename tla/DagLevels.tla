----------------------------- MODULE DagLevels -----------------------------
(***************************************************************************)
(* dag.Levels (internal/dag/levels.go:25-85): the recursive depth-first    *)
(* search that gives every job the length of its longest dependency chain, *)
(* or finds what makes the graph impossible to run.  The Go call stack of  *)
(* the closure resolve is the variable stack, one step is one call or      *)
(* return, so that the memo table and the visiting marks can be seen       *)
(* between them.                                                           *)
(***************************************************************************)
EXTENDS Dag

CONSTANT NodeLists   \* the arguments Levels may be given

VARIABLES
    nodes,      \* the argument
    top,        \* index of the loop that calls resolve for every node
    stack,      \* frames of resolve, innermost last: its name, the index of its
                \* loop over Depends and its maxDep
    levels,     \* the memo table, NoLevel for a name not in it
    visiting,   \* the names marked visiting
    maxLevel,   \* the local of that name
    order,      \* the flat order returned
    result      \* "none" while running, then "ok" or the error

vars == <<nodes, top, stack, levels, visiting, maxLevel, order, result>>

NoLevel == -1
Index(n) == CHOOSE x \in DOMAIN nodes : nodes[x].name = n
Depends(n) == nodes[Index(n)].depends
Results == {"none", "ok", "duplicate", "unknown", "circular"}

TypeOK ==
    /\ nodes \in Seq(NodeSet)
    /\ top \in 0..(Len(nodes) + 1)
    /\ stack \in Seq([name : Name, k : Nat \ {0}, maxDep : Nat \cup {-1}])
    /\ levels \in [Name -> Nat \cup {NoLevel}]
    /\ visiting \subseteq Name
    /\ maxLevel \in Nat
    /\ order \in Seq(Name)
    /\ result \in Results

Init ==
    /\ nodes \in NodeLists
    /\ top = 0
    /\ stack = <<>>
    /\ levels = [n \in Name |-> NoLevel]
    /\ visiting = {}
    /\ maxLevel = 0
    /\ order = <<>>
    /\ result = "none"

Fail(err) == result' = err /\ UNCHANGED <<nodes, top, stack, levels, visiting, maxLevel, order>>

\* Mutant: a second node of a name replaces the first.
BuildIndexUnchecked ==
    /\ result = "none"
    /\ top = 0
    /\ top' = 1
    /\ UNCHANGED <<nodes, stack, levels, visiting, maxLevel, order, result>>

BuildIndex ==
    /\ result = "none"
    /\ top = 0
    /\ \/ HasDuplicate(nodes) /\ Fail("duplicate")
       \/ ~HasDuplicate(nodes) /\ top' = 1
          /\ UNCHANGED <<nodes, stack, levels, visiting, maxLevel, order, result>>

Searching == result = "none" /\ top \in DOMAIN nodes
Frame == Last(stack)
LoopDone == stack # <<>> /\ Frame.k > Len(Depends(Frame.name))

\* resolve(n) is called, by the outer loop or by the innermost frame.
Calls(n) ==
    /\ Searching
    /\ IF stack = <<>> THEN n = nodes[top].name
                       ELSE ~LoopDone /\ n = Depends(Frame.name)[Frame.k]

Higher(a, b) == IF b > a THEN b ELSE a

\* The caller, the outer loop or the frame below, goes on with the level it was given.
Resume(frames, lvl, nextTop, frame) ==
    IF frames = <<>>
    THEN stack' = <<>> /\ top' = nextTop /\ maxLevel' = Higher(maxLevel, lvl)
    ELSE stack' = Append(Front(frames), frame) /\ UNCHANGED <<top, maxLevel>>

\* Mutants: the last dependency's level is taken for the highest; the loop over
\* Depends does not move on.
ReceiveLast(frames, lvl) ==
    Resume(frames, lvl, top + 1, [Last(frames) EXCEPT !.k = @ + 1, !.maxDep = lvl])
ReceiveStuck(frames, lvl) ==
    Resume(frames, lvl, top + 1, [Last(frames) EXCEPT !.maxDep = Higher(@, lvl)])

Receive(frames, lvl) ==
    Resume(frames, lvl, top + 1,
           [Last(frames) EXCEPT !.k = @ + 1, !.maxDep = Higher(@, lvl)])

CallMemoized(n) ==
    /\ Calls(n)
    /\ levels[n] # NoLevel
    /\ Receive(stack, levels[n])
    /\ UNCHANGED <<nodes, levels, visiting, order, result>>

CallUnknown(n) ==
    /\ Calls(n)
    /\ levels[n] = NoLevel
    /\ n \notin Known(nodes)
    /\ Fail("unknown")

CallCircular(n) ==
    /\ Calls(n)
    /\ levels[n] = NoLevel
    /\ n \in Known(nodes)
    /\ n \in visiting
    /\ Fail("circular")

CallNew(n) ==
    /\ Calls(n)
    /\ levels[n] = NoLevel
    /\ n \in Known(nodes)
    /\ n \notin visiting
    /\ visiting' = visiting \cup {n}
    /\ stack' = Append(stack, [name |-> n, k |-> 1, maxDep |-> -1])
    /\ UNCHANGED <<nodes, top, levels, maxLevel, order, result>>

ReturnLevel ==
    /\ Searching
    /\ LoopDone
    /\ visiting' = visiting \ {Frame.name}
    /\ levels' = [levels EXCEPT ![Frame.name] = Frame.maxDep + 1]
    /\ Receive(Front(stack), Frame.maxDep + 1)
    /\ UNCHANGED <<nodes, order, result>>

\* Mutant: the order is that of the file.
BuildOrderAsGiven ==
    /\ result = "none"
    /\ top > Len(nodes)
    /\ order' = [x \in DOMAIN nodes |-> nodes[x].name]
    /\ result' = "ok"
    /\ UNCHANGED <<nodes, top, stack, levels, visiting, maxLevel>>

BuildOrder ==
    /\ result = "none"
    /\ top > Len(nodes)
    /\ order' = LET sorted == ByLevel(nodes, levels, maxLevel) IN [x \in DOMAIN sorted |-> sorted[x].name]
    /\ result' = "ok"
    /\ UNCHANGED <<nodes, top, stack, levels, visiting, maxLevel>>

Terminated == result # "none" /\ UNCHANGED vars

Step == \/ BuildIndex \/ ReturnLevel \/ BuildOrder
        \/ \E n \in Name : CallMemoized(n) \/ CallUnknown(n) \/ CallCircular(n) \/ CallNew(n)

Next == Step \/ Terminated

Spec == Init /\ [][Next]_vars

-----------------------------------------------------------------------------
\* Levels fails exactly for a duplicate, a dependency on nothing or a cycle, and
\* the error names a fault the list really has: in particular the visiting marks
\* never take two paths to one node for a cycle (levels.go:36-60).
ErrorsAreRight ==
    /\ result = "duplicate" <=> result # "none" /\ HasDuplicate(nodes)
    /\ result = "unknown" => HasUnknown(nodes)
    /\ result = "circular" => HasCycle(nodes)
    /\ result = "ok" => ~HasDuplicate(nodes) /\ ~HasUnknown(nodes) /\ ~HasCycle(nodes)

\* The level of a node is the length of its longest chain of dependencies: 0 with
\* none, else one more than the highest of theirs (levels.go:17-19).  It is final
\* as soon as it is in the memo table.
LevelsAreLongestChains ==
    \A n \in Known(nodes) : levels[n] # NoLevel /\ result # "duplicate" =>
        LET deps == DepsIn(nodes, n) IN
        /\ deps = {} => levels[n] = 0
        /\ \A m \in deps : levels[m] # NoLevel /\ levels[m] < levels[n]
        /\ deps # {} => \E m \in deps : levels[n] = levels[m] + 1

\* The order names every node once, dependencies before dependents, and keeps the
\* given order within a level, whatever order the search went in
\* (levels.go:20-24, 77-84).
OrderIsStableAndTopological ==
    result = "ok" =>
        /\ Len(order) = Len(nodes) /\ ToSet(order) = Known(nodes)
        /\ \A i, k \in DOMAIN order : i < k =>
            /\ order[k] \notin DepsIn(nodes, order[i])
            /\ \/ levels[order[i]] < levels[order[k]]
               \/ levels[order[i]] = levels[order[k]] /\ Index(order[i]) < Index(order[k])
=============================================================================
