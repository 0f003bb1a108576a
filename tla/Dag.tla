-------------------------------- MODULE Dag --------------------------------
(***************************************************************************)
(* What a dependency graph is and what internal/dag promises about it,     *)
(* with no loops, passes or recursion: the definitions that DagFilter and  *)
(* DagLevels are held to.                                                  *)
(***************************************************************************)
EXTENDS Integers, Sequences, SequencesExt

CONSTANT Name   \* the names that may occur, of nodes or not

NodeSet == [name : Name, depends : Seq(Name)]

Known(nodes) == {nodes[x].name : x \in DOMAIN nodes}

HasDuplicate(nodes) ==
    \E x, y \in DOMAIN nodes : x # y /\ nodes[x].name = nodes[y].name

\* m depends on n directly.
DependsIn(nodes, m, n) ==
    \E x \in DOMAIN nodes : nodes[x].name = m /\ n \in ToSet(nodes[x].depends)

DepsIn(nodes, m) ==
    UNION {ToSet(nodes[x].depends) : x \in {y \in DOMAIN nodes : nodes[y].name = m}}

HasUnknown(nodes) == \E m \in Known(nodes) : ~(DepsIn(nodes, m) \subseteq Known(nodes))

\* A non-empty set of nodes each of which has a dependency in the set is what a
\* graph with a cycle has and one without has not.
HasCycle(nodes) ==
    \E C \in (SUBSET Known(nodes)) \ {{}} : \A m \in C : DepsIn(nodes, m) \cap C # {}

\* What Levels rejects.
LevelsFail(nodes) == HasDuplicate(nodes) \/ HasUnknown(nodes) \/ HasCycle(nodes)

\* The levels of nodes that it accepts: the lengths of the longest chains below them.
LevelIn(nodes) ==
    LET level[m \in Known(nodes)] ==
            IF DepsIn(nodes, m) = {} THEN 0 ELSE 1 + Max({level[n] : n \in DepsIn(nodes, m)})
    IN level

\* The nodes at the positions in K, in order.
Those(nodes, K) ==
    LET first[n \in 0..Len(nodes)] ==
            IF n = 0 THEN <<>>
            ELSE IF n \in K THEN Append(first[n - 1], nodes[n]) ELSE first[n - 1]
    IN  first[Len(nodes)]

\* The nodes of the levels 0..maxLevel by ascending level, in their own order within one.
ByLevel(nodes, level, maxLevel) ==
    LET below[lvl \in 0..(maxLevel + 1)] ==
            IF lvl = 0 THEN <<>>
            ELSE below[lvl - 1]
                    \o Those(nodes, {x \in DOMAIN nodes : level[nodes[x].name] = lvl - 1})
    IN  below[maxLevel + 1]

\* The highest level of a node, 0 where there is none.
MaxLevel(nodes, level) == Max({0} \cup {level[n] : n \in Known(nodes)})

\* S holds the skipped names and every node that depends on one in S.
ClosedIn(nodes, skipped, S) ==
    /\ skipped \subseteq S
    /\ \A x \in DOMAIN nodes : ToSet(nodes[x].depends) \cap S # {} => nodes[x].name \in S

\* The least such set: what cannot run when skipped cannot.
DoomedIn(nodes, skipped) ==
    {n \in Name : \A S \in SUBSET Name : ClosedIn(nodes, skipped, S) => n \in S}

\* The nodes whose names are not in S, in order.
Without(nodes, S) == Those(nodes, {x \in DOMAIN nodes : nodes[x].name \notin S})
=============================================================================
