----------------------------- MODULE DagFilter -----------------------------
(***************************************************************************)
(* dag.FilterSkipped (internal/dag/levels.go:100-134): passes over the     *)
(* jobs that mark every one with a skipped dependency, until a pass marks  *)
(* none.  A reason is the chain of names its text quotes: <<>> for a job   *)
(* the parser skipped itself, the dependency's name followed by its reason *)
(* for a job skipped because of it.                                        *)
(***************************************************************************)
EXTENDS Dag

CONSTANT
    Arguments   \* the arguments FilterSkipped may be given

ArgumentSet == [nodes : Seq(NodeSet), skipped : SUBSET Name]

ASSUME ArgumentsAssumption == Arguments \subseteq ArgumentSet

VARIABLES
    arg,      \* nodes and skipped
    i, k,     \* the indices of the loops over nodes and n.Depends
    changed,  \* the local of that name
    marked,   \* the names in the map reasons
    chain,    \* the reason of each of them
    kept,     \* the nodes returned
    pc        \* "pass", "collect" or "done"

vars == <<arg, i, k, changed, marked, chain, kept, pc>>

Node == arg.nodes[i]

TypeOK ==
    /\ arg \in ArgumentSet
    /\ i \in Nat \ {0}
    /\ k \in Nat \ {0}
    /\ changed \in BOOLEAN
    /\ marked \in SUBSET Name
    /\ chain \in [Name -> Seq(Name)]
    /\ pc \in {"pass", "collect", "done"}

Init ==
    /\ arg \in Arguments
    /\ i = 1 /\ k = 1
    /\ changed = FALSE
    /\ marked = arg.skipped
    /\ chain = [n \in Name |-> <<>>]
    /\ kept = <<>>
    /\ pc = "pass"

InPass == pc = "pass" /\ i \in DOMAIN arg.nodes
InDepends == InPass /\ Node.name \notin marked /\ k <= Len(Node.depends)

\* Either the node has a reason already or none of its dependencies has one.
NextNode ==
    /\ InPass
    /\ ~InDepends
    /\ i' = i + 1 /\ k' = 1
    /\ UNCHANGED <<arg, changed, marked, chain, kept, pc>>

NextDependency ==
    /\ InDepends
    /\ Node.depends[k] \notin marked
    /\ k' = k + 1
    /\ UNCHANGED <<arg, i, changed, marked, chain, kept, pc>>

MarkWith(reason) ==
    /\ marked' = marked \cup {Node.name}
    /\ chain' = [chain EXCEPT ![Node.name] = reason]
    /\ changed' = TRUE
    /\ i' = i + 1 /\ k' = 1
    /\ UNCHANGED <<arg, kept, pc>>

\* Mutants: any dependency is taken for a skipped one; the reason does not quote
\* the dependency's.
MarkAny == InDepends /\ LET dep == Node.depends[k] IN MarkWith(<<dep>> \o chain[dep])
MarkShort ==
    InDepends /\ LET dep == Node.depends[k] IN dep \in marked /\ MarkWith(<<dep>>)

\* The first skipped dependency gives the reason and ends the inner loop.
Mark ==
    LET dep == Node.depends[k] IN
    /\ InDepends
    /\ dep \in marked
    /\ MarkWith(<<dep>> \o chain[dep])

PassOver == pc = "pass" /\ i > Len(arg.nodes)

NextPass ==
    /\ PassOver
    /\ changed
    /\ changed' = FALSE
    /\ i' = 1 /\ k' = 1
    /\ UNCHANGED <<arg, marked, chain, kept, pc>>

\* Mutant: one pass is thought enough.
LastPassFirst ==
    /\ PassOver
    /\ pc' = "collect"
    /\ UNCHANGED <<arg, i, k, changed, marked, chain, kept>>

LastPass ==
    /\ PassOver
    /\ ~changed
    /\ pc' = "collect"
    /\ UNCHANGED <<arg, i, k, changed, marked, chain, kept>>

\* Mutant: only the jobs the parser skipped are left out.
CollectUnskipped ==
    /\ pc = "collect"
    /\ kept' = Without(arg.nodes, arg.skipped)
    /\ pc' = "done"
    /\ UNCHANGED <<arg, i, k, changed, marked, chain>>

Collect ==
    /\ pc = "collect"
    /\ kept' = Without(arg.nodes, marked)
    /\ pc' = "done"
    /\ UNCHANGED <<arg, i, k, changed, marked, chain>>

Terminated == pc = "done" /\ UNCHANGED vars

Step == NextNode \/ NextDependency \/ Mark \/ NextPass \/ LastPass \/ Collect
Next == Step \/ Terminated

Spec == Init /\ [][Next]_vars

-----------------------------------------------------------------------------
Doomed == DoomedIn(arg.nodes, arg.skipped)

\* No job is given up that could have run, at any time (levels.go:87-94).
NothingSkippedInVain == marked \subseteq Doomed

\* And when the passes end, every job that could not run is given up, in whatever
\* order the jobs were declared and through chains of any length; what is returned
\* is exactly the rest, in the order given (levels.go:106-133).
NothingDoomedIsKept ==
    /\ pc # "pass" => marked = Doomed
    /\ pc = "done" => kept = Without(arg.nodes, Doomed)

\* A reason is a path of dependencies that ends at a job the parser skipped
\* itself, and never runs in a circle, even where the graph does
\* (levels.go:96-99, 116-117).
ReasonsArePaths ==
    \A n \in marked : LET path == <<n>> \o chain[n] IN
        /\ \A x \in 1..(Len(path) - 1) : DependsIn(arg.nodes, path[x], path[x + 1])
        /\ Last(path) \in arg.skipped
        /\ \A x, y \in DOMAIN path : path[x] = path[y] => x = y
=============================================================================
