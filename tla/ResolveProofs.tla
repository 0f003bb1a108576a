--------------------------- MODULE ResolveProofs ---------------------------
(***************************************************************************)
(* A workflow's jobs become runnable the right way for every file: the     *)
(* invariants of FilterSkipped and of Levels hold of the two together, and *)
(* what is left out makes no good file bad.                                *)
(***************************************************************************)
EXTENDS Resolve, TLAPS

-----------------------------------------------------------------------------
(* FilterSkipped is right for every list of jobs and every set of skipped  *)
(* names: cyclic graphs, duplicate names and unknown dependencies too.     *)

\* What the pass going on has seen: no job before the current one is unmarked
\* with a marked dependency, unless the pass has changed something.
PassSeen ==
    pc = "pass" /\ ~changed =>
        /\ \A n \in DOMAIN arg.nodes : n < i /\ arg.nodes[n].name \notin marked =>
                ToSet(arg.nodes[n].depends) \cap marked = {}
        /\ i \in DOMAIN arg.nodes /\ Node.name \notin marked =>
                \A m \in DOMAIN Node.depends : m < k => Node.depends[m] \notin marked

\* The reason of a marked job is a path through marked jobs that ends at a
\* skipped one and that no job is on twice.
PathOf(n) ==
    /\ \A x \in DOMAIN chain[n] : chain[n][x] \in marked /\ chain[n][x] # n
    /\ \A x, y \in DOMAIN chain[n] : chain[n][x] = chain[n][y] => x = y
    /\ chain[n] = <<>> => n \in arg.skipped
    /\ chain[n] # <<>> => /\ DependsIn(arg.nodes, n, chain[n][1])
                          /\ chain[n][Len(chain[n])] \in arg.skipped
    /\ \A x \in 1..(Len(chain[n]) - 1) : DependsIn(arg.nodes, chain[n][x], chain[n][x + 1])

\* The inductive invariant.
IInv ==
    /\ TypeOK
    /\ arg.skipped \subseteq marked
    /\ NothingSkippedInVain
    /\ PassSeen
    /\ pc # "pass" => ClosedIn(arg.nodes, arg.skipped, marked)
    /\ pc = "done" => kept = Without(arg.nodes, marked)
    /\ \A n \in marked : PathOf(n)

LEMMA NodeFacts ==
    ASSUME TypeOK, NEW n \in DOMAIN arg.nodes
    PROVE  /\ n \in Nat \ {0} /\ n <= Len(arg.nodes)
           /\ arg.nodes[n].name \in Name
           /\ arg.nodes[n].depends \in Seq(Name)
           /\ Len(arg.nodes[n].depends) \in Nat
           /\ DOMAIN arg.nodes[n].depends = 1..Len(arg.nodes[n].depends)
           /\ ToSet(arg.nodes[n].depends) =
                {arg.nodes[n].depends[m] : m \in DOMAIN arg.nodes[n].depends}
<1>1. arg.nodes \in Seq(NodeSet)
  BY DEF TypeOK, ArgumentSet
<1>2. /\ DOMAIN arg.nodes = 1..Len(arg.nodes) /\ Len(arg.nodes) \in Nat
      /\ arg.nodes[n] \in NodeSet
  BY <1>1
<1>3. arg.nodes[n].name \in Name /\ arg.nodes[n].depends \in Seq(Name)
  BY <1>2 DEF NodeSet
<1>4. /\ Len(arg.nodes[n].depends) \in Nat
      /\ DOMAIN arg.nodes[n].depends = 1..Len(arg.nodes[n].depends)
  BY <1>3
<1> QED BY <1>2, <1>3, <1>4 DEF ToSet

LEMMA InitIInv == Init => IInv
<1> SUFFICES ASSUME Init PROVE IInv
  OBVIOUS
<1>1. TypeOK
  <2>1. arg \in ArgumentSet
    BY ArgumentsAssumption DEF Init
  <2>2. chain \in [Name -> Seq(Name)]
    BY DEF Init
  <2>3. marked \in SUBSET Name
    BY <2>1 DEF Init, ArgumentSet
  <2>4. i \in Nat \ {0} /\ k \in Nat \ {0} /\ pc = "pass"
    BY DEF Init
  <2>5. changed \in BOOLEAN
    BY Zenon DEF Init
  <2> QED BY <2>1, <2>2, <2>3, <2>4, <2>5 DEF TypeOK
<1>2. NothingSkippedInVain
  BY <1>1 DEF Init, TypeOK, NothingSkippedInVain, Doomed, DoomedIn, ClosedIn
<1>3. PassSeen
  BY <1>1, NodeFacts DEF Init, PassSeen, Node
<1>4. \A n \in marked : PathOf(n)
  BY <1>1 DEF Init, TypeOK, PathOf
<1> QED BY <1>1, <1>2, <1>3, <1>4 DEF Init, IInv

\* Doomed is a matter of the argument alone.
LEMMA SameDoomed ==
    ASSUME arg' = arg
    PROVE  /\ Doomed' = Doomed
           /\ \A S : ClosedIn(arg.nodes, arg.skipped, S)' <=> ClosedIn(arg.nodes, arg.skipped, S)
           /\ \A m, n : DependsIn(arg.nodes, m, n)' <=> DependsIn(arg.nodes, m, n)
BY DEF Doomed, DoomedIn, ClosedIn, DependsIn

\* Steps that mark nothing keep all that is said of marks.
LEMMA NothingMarked ==
    ASSUME IInv, arg' = arg, marked' = marked, chain' = chain
    PROVE  /\ NothingSkippedInVain'
           /\ arg'.skipped \subseteq marked'
           /\ ClosedIn(arg.nodes, arg.skipped, marked) => ClosedIn(arg.nodes, arg.skipped, marked)'
           /\ \A n \in marked' : PathOf(n)'
<1>1. /\ NothingSkippedInVain' /\ arg'.skipped \subseteq marked'
      /\ ClosedIn(arg.nodes, arg.skipped, marked)
            => ClosedIn(arg.nodes, arg.skipped, marked)'
  BY SameDoomed DEF IInv, NothingSkippedInVain, ClosedIn
<1>2. \A n \in marked' : PathOf(n)'
  BY SameDoomed DEF IInv, PathOf
<1> QED BY <1>1, <1>2

LEMMA NextNodeStep == ASSUME IInv, NextNode PROVE IInv'
<1> USE DEF NextNode, InPass, InDepends
<1>1. TypeOK'
  BY DEF IInv, TypeOK
<1>2. PassSeen'
  <2> SUFFICES ASSUME ~changed
               PROVE  \A n \in DOMAIN arg.nodes : n < i + 1 /\ arg.nodes[n].name \notin marked =>
                           ToSet(arg.nodes[n].depends) \cap marked = {}
    BY NodeFacts, <1>1 DEF PassSeen, Node, IInv, TypeOK
  <2> SUFFICES ASSUME NEW n \in DOMAIN arg.nodes, n < i + 1, arg.nodes[n].name \notin marked
               PROVE  ToSet(arg.nodes[n].depends) \cap marked = {}
    OBVIOUS
  <2>1. CASE n < i
    BY <2>1 DEF IInv, PassSeen
  <2>2. CASE n = i
    <3>1. \A m \in DOMAIN Node.depends : m < k
      BY <2>2, NodeFacts DEF IInv, TypeOK, Node
    <3>2. ToSet(Node.depends) = {Node.depends[m] : m \in DOMAIN Node.depends}
      BY <2>2, NodeFacts DEF IInv, Node
    <3>3. \A m \in DOMAIN Node.depends : Node.depends[m] \notin marked
      BY <2>2, <3>1 DEF IInv, PassSeen, Node
    <3> QED BY <2>2, <3>2, <3>3 DEF Node
  <2>3. n \in Nat /\ i \in Nat
    BY NodeFacts DEF IInv, TypeOK
  <2> QED BY <2>1, <2>2, <2>3
<1> QED BY <1>1, <1>2, NothingMarked DEF IInv

LEMMA NextDependencyStep == ASSUME IInv, NextDependency PROVE IInv'
<1> USE DEF NextDependency, InPass, InDepends
<1>1. TypeOK'
  BY DEF IInv, TypeOK
<1>2. PassSeen'
  <2>1. ASSUME ~changed, NEW m \in DOMAIN Node.depends, m < k + 1
        PROVE  Node.depends[m] \notin marked
    <3>1. m \in Nat /\ k \in Nat
      BY NodeFacts DEF IInv, TypeOK, Node
    <3>2. m < k \/ m = k
      BY <2>1, <3>1
    <3> QED BY <2>1, <3>2 DEF IInv, PassSeen
  <2> QED BY <2>1 DEF IInv, PassSeen, Node
<1> QED BY <1>1, <1>2, NothingMarked DEF IInv

LEMMA MarkStep == ASSUME IInv, Mark PROVE IInv'
<1> DEFINE name == Node.name
           dep == Node.depends[k]
<1>0. /\ pc = "pass" /\ i \in DOMAIN arg.nodes /\ name \notin marked /\ dep \in marked
      /\ k <= Len(Node.depends) /\ UNCHANGED <<arg, kept, pc>>
      /\ marked' = marked \cup {name} /\ chain' = [chain EXCEPT ![name] = <<dep>> \o chain[dep]]
      /\ changed' = TRUE /\ i' = i + 1 /\ k' = 1
  BY DEF Mark, MarkWith, InPass, InDepends
<1>1. /\ name \in Name /\ dep \in Name
      /\ DependsIn(arg.nodes, name, dep) /\ dep \in ToSet(Node.depends)
  <2>1. name \in Name /\ Node.depends \in Seq(Name) /\ k \in DOMAIN Node.depends
    BY <1>0, NodeFacts DEF IInv, TypeOK, Node
  <2>2. dep \in Name /\ dep \in ToSet(Node.depends)
    BY <2>1 DEF ToSet
  <2> QED BY <1>0, <2>1, <2>2 DEF DependsIn, Node
<1>2. chain[dep] \in Seq(Name) /\ chain'[name] = <<dep>> \o chain[dep]
  BY <1>0, <1>1 DEF IInv, TypeOK
<1> HIDE DEF name, dep
<1>3. TypeOK'
  <2>1. chain' \in [Name -> Seq(Name)] /\ marked' \in SUBSET Name
    BY <1>0, <1>1, <1>2 DEF IInv, TypeOK
  <2>2. i' \in Nat \ {0} /\ k' \in Nat \ {0} /\ changed' \in BOOLEAN
    BY <1>0 DEF IInv, TypeOK
  <2> QED BY <1>0, <2>1, <2>2 DEF IInv, TypeOK
<1>4. NothingSkippedInVain'
  <2>1. dep \in Doomed /\ marked \subseteq Doomed
    BY <1>0, <1>1 DEF IInv, NothingSkippedInVain
  <2>2. ASSUME NEW T \in SUBSET Name, ClosedIn(arg.nodes, arg.skipped, T)
        PROVE  name \in T
    <3>1. dep \in T
      BY <2>1, <2>2 DEF Doomed, DoomedIn
    <3> QED BY <1>0, <1>1, <2>2, <3>1 DEF ClosedIn, Node, name
  <2>3. name \in Doomed
    BY <1>1, <2>2 DEF Doomed, DoomedIn
  <2> QED BY <1>0, <2>1, <2>3, SameDoomed DEF NothingSkippedInVain
<1>5. PassSeen'
  BY <1>0 DEF PassSeen
<1>6. ASSUME NEW n \in marked'
      PROVE  PathOf(n)'
  <2>1. CASE n # name
    <3>1. n \in marked /\ chain'[n] = chain[n] /\ marked \subseteq marked' /\ arg' = arg
      BY <1>0, <1>6, <2>1 DEF IInv, TypeOK
    <3>2. PathOf(n)
      BY <3>1 DEF IInv
    <3> QED BY <3>1, <3>2, SameDoomed DEF PathOf
  <2>2. CASE n = name
    <3> DEFINE c == chain[dep]
               p == <<dep>> \o c
    <3>1. PathOf(dep)
      BY <1>0 DEF IInv
    <3>2. /\ p[1] = dep /\ Len(p) = Len(c) + 1 /\ Len(c) \in Nat
          /\ \A x \in 1..Len(c) : p[x + 1] = c[x]
          /\ DOMAIN p = 1..(Len(c) + 1) /\ DOMAIN c = 1..Len(c)
      BY <1>2
    <3>3. \A x \in DOMAIN p : x = 1 \/ (x - 1 \in DOMAIN c /\ p[x] = c[x - 1])
      BY <3>2
    <3>4. \A x \in DOMAIN p : p[x] \in marked /\ p[x] # name
      BY <1>0, <3>1, <3>2, <3>3 DEF PathOf
    <3>5. \A x, y \in DOMAIN p : p[x] = p[y] => x = y
      <4> SUFFICES ASSUME NEW x \in DOMAIN p, NEW y \in DOMAIN p, p[x] = p[y]
                   PROVE  x = y
        OBVIOUS
      <4>1. \A z \in DOMAIN c : c[z] # dep
        BY <3>1 DEF PathOf
      <4>2. \A u, v \in DOMAIN c : c[u] = c[v] => u = v
        BY <3>1 DEF PathOf
      <4>3. CASE x = 1
        BY <3>2, <3>3, <4>1, <4>3
      <4>4. CASE y = 1
        BY <3>2, <3>3, <4>1, <4>4
      <4>5. CASE x # 1 /\ y # 1
        <5>1. /\ x - 1 \in DOMAIN c /\ y - 1 \in DOMAIN c
              /\ c[x - 1] = c[y - 1]
          BY <3>3, <4>5
        <5>2. x - 1 = y - 1 /\ x \in Nat /\ y \in Nat
          BY <3>2, <4>2, <5>1
        <5> QED BY <5>2
      <4> QED BY <4>3, <4>4, <4>5
    <3>6. p # <<>> /\ p[Len(p)] \in arg.skipped
      <4>1. CASE c = <<>>
        BY <3>1, <3>2, <4>1 DEF PathOf
      <4>2. CASE c # <<>>
        BY <1>2, <3>1, <3>2, <4>2 DEF PathOf
      <4> QED BY <4>1, <4>2
    <3>7. \A x \in 1..(Len(p) - 1) : DependsIn(arg.nodes, p[x], p[x + 1])
      <4> SUFFICES ASSUME NEW x \in 1..Len(c) PROVE DependsIn(arg.nodes, p[x], p[x + 1])
        BY <3>2
      <4>1. CASE x = 1
        <5>1. c # <<>> /\ DependsIn(arg.nodes, dep, c[1])
          BY <1>2, <3>1, <3>2, <4>1 DEF PathOf
        <5> QED BY <3>2, <4>1, <5>1
      <4>2. CASE x # 1
        <5>1. x - 1 \in 1..(Len(c) - 1) /\ p[x] = c[x - 1] /\ p[x + 1] = c[x]
          BY <3>2, <4>2
        <5>2. \A z \in 1..(Len(c) - 1) : DependsIn(arg.nodes, c[z], c[z + 1])
          BY <3>1 DEF PathOf
        <5> QED BY <3>2, <5>1, <5>2
      <4> QED BY <4>1, <4>2
    <3>8. chain'[n] = p /\ arg' = arg /\ marked \subseteq marked'
      BY <1>0, <1>2, <2>2
    <3> HIDE DEF p, c
    <3>9. chain'[n] # <<>> /\ DependsIn(arg.nodes, n, chain'[n][1])
      BY <1>1, <2>2, <3>2, <3>6, <3>8
    <3> QED BY <2>2, <3>4, <3>5, <3>6, <3>7, <3>8, <3>9, SameDoomed DEF PathOf
  <2> QED BY <2>1, <2>2
<1> QED BY <1>0, <1>3, <1>4, <1>5, <1>6 DEF IInv

LEMMA LastPassStep == ASSUME IInv, LastPass PROVE IInv'
<1> USE DEF LastPass, PassOver
<1>1. ASSUME NEW n \in DOMAIN arg.nodes, arg.nodes[n].name \notin marked
      PROVE  ToSet(arg.nodes[n].depends) \cap marked = {}
  <2>1. n < i
    <3>1. Len(arg.nodes) \in Nat
      BY DEF IInv, TypeOK, ArgumentSet
    <3> QED BY <3>1, NodeFacts DEF IInv, TypeOK
  <2> QED BY <1>1, <2>1 DEF IInv, PassSeen
<1>2. ClosedIn(arg.nodes, arg.skipped, marked)
  BY <1>1 DEF IInv, ClosedIn
<1> QED BY <1>2, NothingMarked DEF IInv, TypeOK, PassSeen

LEMMA NextIInv == IInv /\ [Next]_vars => IInv'
<1> SUFFICES ASSUME IInv, [Next]_vars PROVE IInv'
  OBVIOUS
<1>1. CASE NextPass
  <2>0. changed' \in BOOLEAN
    BY <1>1, Zenon DEF NextPass
  <2>1. TypeOK'
    BY <1>1, <2>0 DEF NextPass, IInv, TypeOK
  <2>2. \A n \in DOMAIN arg.nodes : ~(n < 1) /\ \A m \in DOMAIN arg.nodes[n].depends : ~(m < 1)
    BY NodeFacts DEF IInv
  <2>3. PassSeen'
    BY <1>1, <2>2 DEF NextPass, PassSeen, Node
  <2> QED BY <1>1, <2>1, <2>3, NothingMarked DEF NextPass, PassOver, IInv
<1>2. CASE Collect
  BY <1>2, NothingMarked DEF Collect, IInv, TypeOK, PassSeen
<1>3. CASE UNCHANGED vars
  BY <1>3, NothingMarked DEF vars, IInv, TypeOK, PassSeen, Node
<1> QED BY <1>1, <1>2, <1>3, NextNodeStep, NextDependencyStep, MarkStep, LastPassStep
        DEF Next, Step, Terminated

THEOREM InductiveInvariant == Spec => []IInv
BY InitIInv, NextIInv, PTL DEF Spec

\* No job that could have run is ever given up (levels.go:87-94).
THEOREM OnlyDoomedSkipped == Spec => []NothingSkippedInVain
<1>1. IInv => NothingSkippedInVain
  BY DEF IInv
<1> QED BY <1>1, InductiveInvariant, PTL

\* Once the passes are over the marked jobs are exactly those that cannot run,
\* whatever the order of declaration (levels.go:106-108).
THEOREM AllDoomedSkipped == Spec => []NothingDoomedIsKept
<1>1. ASSUME IInv PROVE NothingDoomedIsKept
  <2>1. pc # "pass" => marked = Doomed
    BY <1>1 DEF IInv, TypeOK, NothingSkippedInVain, Doomed, DoomedIn
  <2> QED BY <1>1, <2>1 DEF IInv, NothingDoomedIsKept
<1> QED BY <1>1, InductiveInvariant, PTL

\* Every reason is a path without repetition to a job the parser skipped
\* (levels.go:96-99, 116-117).
THEOREM ReasonsAreJustified == Spec => []ReasonsArePaths
<1>1. IInv => ReasonsArePaths
  <2> SUFFICES ASSUME IInv, NEW n \in marked
               PROVE  LET path == <<n>> \o chain[n] IN
                        /\ \A x \in 1..(Len(path) - 1) : DependsIn(arg.nodes, path[x], path[x + 1])
                        /\ Last(path) \in arg.skipped
                        /\ \A x, y \in DOMAIN path : path[x] = path[y] => x = y
    BY DEF ReasonsArePaths
  <2> DEFINE c == chain[n]
             p == <<n>> \o c
  <2>1. PathOf(n) /\ n \in Name /\ c \in Seq(Name)
    BY DEF IInv, TypeOK
  <2>2. /\ p[1] = n /\ Len(p) = Len(c) + 1 /\ Len(c) \in Nat
        /\ \A x \in 1..Len(c) : p[x + 1] = c[x]
        /\ DOMAIN p = 1..(Len(c) + 1) /\ DOMAIN c = 1..Len(c)
        /\ c = <<>> <=> Len(c) = 0
    BY <2>1
  <2>3. \A x \in DOMAIN p : x = 1 \/ (x - 1 \in DOMAIN c /\ p[x] = c[x - 1])
    BY <2>2
  <2>4. \A x, y \in DOMAIN p : p[x] = p[y] => x = y
    BY <2>1, <2>2, <2>3 DEF PathOf
  <2>5. p[Len(p)] \in arg.skipped
    BY <2>1, <2>2 DEF PathOf
  <2>6. \A x \in 1..(Len(p) - 1) : DependsIn(arg.nodes, p[x], p[x + 1])
    <3> SUFFICES ASSUME NEW x \in 1..Len(c) PROVE DependsIn(arg.nodes, p[x], p[x + 1])
      BY <2>2
    <3>1. CASE x = 1
      BY <2>1, <2>2, <3>1 DEF PathOf
    <3>2. CASE x # 1
      <4>1. x - 1 \in 1..(Len(c) - 1) /\ p[x] = c[x - 1] /\ p[x + 1] = c[x]
        BY <2>2, <3>2
      <4> QED BY <2>1, <2>2, <4>1 DEF PathOf
    <3> QED BY <3>1, <3>2
  <2> QED BY <2>4, <2>5, <2>6 DEF Last
<1> QED BY <1>1, InductiveInvariant, PTL

-----------------------------------------------------------------------------
(* Levels, on what was kept. *)

LP == INSTANCE DagLevelsProofs WITH NodeLists <- {<<>>}

\* L and LP are one module under two names.
LEMMA SameLevels ==
    /\ L!Init <=> LP!Init
    /\ L!Step <=> LP!Step
    /\ L!ErrorsAreRight <=> LP!ErrorsAreRight
    /\ L!LevelsAreLongestChains <=> LP!LevelsAreLongestChains
    /\ L!OrderIsStableAndTopological <=> LP!OrderIsStableAndTopological
BY DEF L!Init, LP!Init, L!Step, LP!Step, L!NoLevel, LP!NoLevel, L!Index, LP!Index,
   L!Depends, LP!Depends, L!Results, LP!Results, L!Fail, LP!Fail, L!BuildIndex,
   LP!BuildIndex, L!Searching, LP!Searching, L!Frame, LP!Frame, L!LoopDone,
   LP!LoopDone, L!Calls, LP!Calls, L!Higher, LP!Higher, L!Resume, LP!Resume, L!Receive,
   LP!Receive, L!CallMemoized, LP!CallMemoized, L!CallUnknown, LP!CallUnknown,
   L!CallCircular, LP!CallCircular, L!CallNew, LP!CallNew, L!ReturnLevel,
   LP!ReturnLevel, L!BuildOrder, LP!BuildOrder, L!ErrorsAreRight, LP!ErrorsAreRight,
   L!LevelsAreLongestChains, LP!LevelsAreLongestChains, L!OrderIsStableAndTopological,
   LP!OrderIsStableAndTopological, L!NodeSet, LP!NodeSet, L!Known, LP!Known,
   L!HasDuplicate, LP!HasDuplicate, L!DepsIn, LP!DepsIn, L!HasUnknown, LP!HasUnknown,
   L!HasCycle, LP!HasCycle, L!Those, LP!Those, L!ByLevel, LP!ByLevel, L!ToSet,
   LP!ToSet, L!Last, LP!Last, L!Front, LP!Front

\* What L says of a graph is what Dag says of it.
LEMMA SameGraph ==
    ASSUME NEW ns
    PROVE  /\ L!HasDuplicate(ns) <=> HasDuplicate(ns)
           /\ L!HasUnknown(ns) <=> HasUnknown(ns)
           /\ L!HasCycle(ns) <=> HasCycle(ns)
BY DEF L!HasDuplicate, HasDuplicate, L!HasUnknown, HasUnknown, L!HasCycle, HasCycle,
       L!Known, Known, L!DepsIn, DepsIn, L!ToSet, ToSet

\* The inductive invariant.
RInv ==
    /\ IInv
    /\ LP!IInv
    /\ called => pc = "done" /\ nodes = kept
    /\ ~called => top = 0 /\ result = "none"
    /\ called \in BOOLEAN

\* The nodes left are those at the positions that no marked name has, in order.
LEMMA KeptFacts ==
    ASSUME NEW ns \in Seq(NodeSet), NEW S
    PROVE  /\ Without(ns, S) \in Seq(NodeSet)
           /\ \E pos \in [DOMAIN Without(ns, S) -> DOMAIN ns] :
                /\ \A y \in DOMAIN Without(ns, S) : /\ Without(ns, S)[y] = ns[pos[y]]
                                                   /\ ns[pos[y]].name \notin S
                /\ \A y, z \in DOMAIN Without(ns, S) : pos[y] = pos[z] => y = z
                /\ \A x \in DOMAIN ns : ns[x].name \notin S =>
                        \E y \in DOMAIN Without(ns, S) : pos[y] = x
<1> DEFINE K == {x \in DOMAIN ns : ns[x].name \notin S}
           s == Without(ns, S)
<1>1. K \in SUBSET DOMAIN ns
  OBVIOUS
<1>2. LP!Those(ns, K) = s
  BY DEF LP!Those, Those, Without
<1>3. s \in Seq(NodeSet) /\ LP!IsThose(s, ns, K)
  <2> HIDE DEF K
  <2> QED BY <1>1, <1>2, LP!ThoseFacts
<1> HIDE DEF s
<1>5. PICK pos \in [1..Len(s) -> K] :
        /\ \A y, z \in 1..Len(s) : y < z => pos[y] < pos[z]
        /\ \A x \in K : \E y \in 1..Len(s) : pos[y] = x
        /\ \A y \in 1..Len(s) : s[y] = ns[pos[y]]
  BY <1>3 DEF LP!IsThose
<1>6. DOMAIN s = 1..Len(s) /\ Len(s) \in Nat /\ \A x \in DOMAIN ns : x \in Nat
  BY <1>3
<1>7. \A y \in DOMAIN s : pos[y] \in DOMAIN ns /\ ns[pos[y]].name \notin S /\ pos[y] \in Nat
  BY <1>5, <1>6
<1>8. pos \in [DOMAIN s -> DOMAIN ns]
  BY <1>5, <1>6, <1>7
<1>9. ASSUME NEW y \in DOMAIN s, NEW z \in DOMAIN s, pos[y] = pos[z] PROVE y = z
  <2>1. ~(y < z) /\ ~(z < y)
    BY <1>5, <1>6, <1>7, <1>9
  <2>2. y \in Nat /\ z \in Nat
    BY <1>6
  <2> QED BY <2>1, <2>2
<1>10. \A x \in DOMAIN ns : ns[x].name \notin S => \E y \in DOMAIN s : pos[y] = x
  BY <1>5, <1>6
<1>11. \A y \in DOMAIN s : s[y] = ns[pos[y]]
  BY <1>5, <1>6
<1>12. \E p \in [DOMAIN s -> DOMAIN ns] :
         /\ \A y \in DOMAIN s : s[y] = ns[p[y]] /\ ns[p[y]].name \notin S
         /\ \A y, z \in DOMAIN s : p[y] = p[z] => y = z
         /\ \A x \in DOMAIN ns : ns[x].name \notin S => \E y \in DOMAIN s : p[y] = x
  BY <1>7, <1>8, <1>9, <1>10, <1>11, Zenon
<1> QED BY <1>3, <1>12, Zenon DEF s

LEMMA InitRInv == ResolveInit => RInv
<1> SUFFICES ASSUME ResolveInit PROVE RInv
  OBVIOUS
<1>1. IInv
  BY InitIInv DEF ResolveInit
<1>2. LP!Init /\ {<<>>} \subseteq Seq(LP!NodeSet)
  BY SameLevels DEF ResolveInit
<1>3. LP!IInv
  BY <1>2, LP!InitIInv
<1>4. top = 0 /\ result = "none" /\ called = FALSE
  BY DEF ResolveInit, L!Init
<1> QED BY <1>1, <1>3, <1>4 DEF RInv

LEMMA NextRInv == RInv /\ [ResolveNext]_allVars => RInv'
<1> SUFFICES ASSUME RInv, [ResolveNext]_allVars PROVE RInv'
  OBVIOUS
<1>1. CASE Filters
  <2>1. Step /\ called' = called /\ UNCHANGED levelsVars
    BY <1>1 DEF Filters
  <2>2. IInv'
    BY <2>1, NextIInv DEF RInv, Next
  <2>3. UNCHANGED LP!vars
    BY <2>1 DEF levelsVars, LP!vars
  <2>4. LP!IInv'
    BY <2>3, LP!StutterIInv DEF RInv
  <2>5. pc # "done"
    BY <2>1 DEF Step, NextNode, NextDependency, Mark, NextPass, LastPass, Collect, PassOver,
                InDepends, InPass
  <2> QED BY <2>1, <2>2, <2>4, <2>5, Zenon DEF RInv, levelsVars
<1>2. CASE Call
  <2>1. /\ pc = "done" /\ ~called /\ called' = TRUE /\ nodes' = kept
        /\ UNCHANGED vars
        /\ UNCHANGED <<top, stack, levels, visiting, maxLevel, order, result>>
    BY <1>2 DEF Call
  <2>2. IInv'
    BY <2>1, NextIInv DEF RInv
  <2>3. kept \in Seq(NodeSet)
    BY <2>1, KeptFacts DEF RInv, IInv, TypeOK, ArgumentSet
  <2>4. nodes' \in Seq(LP!NodeSet)
    BY <2>1, <2>3 DEF NodeSet, LP!NodeSet
  <2>5. LP!IInv'
    BY <2>1, <2>4, LP!GivenIInv DEF RInv
  <2> QED BY <2>1, <2>2, <2>5, Zenon DEF RInv, vars
<1>3. CASE Searches
  <2>1. called /\ L!Step /\ UNCHANGED vars /\ called' = called
    BY <1>3 DEF Searches
  <2>2. IInv'
    BY <2>1, NextIInv DEF RInv
  <2>3. LP!IInv'
    BY <2>1, SameLevels, LP!StepIInv DEF RInv
  <2>4. nodes' = nodes
    BY <2>1 DEF L!Step, L!BuildIndex, L!ReturnLevel, L!BuildOrder, L!CallMemoized,
                L!CallUnknown, L!CallCircular, L!CallNew, L!Fail
  <2> QED BY <2>1, <2>2, <2>3, <2>4, Zenon DEF RInv, vars
<1>4. CASE UNCHANGED allVars
  <2>1. UNCHANGED vars /\ UNCHANGED LP!vars /\ UNCHANGED <<called, nodes, top, result, pc, kept>>
    BY <1>4 DEF allVars, vars, levelsVars, LP!vars
  <2>2. IInv' /\ LP!IInv'
    BY <2>1, NextIInv, LP!StutterIInv DEF RInv
  <2> QED BY <2>1, <2>2, Zenon DEF RInv
<1> QED BY <1>1, <1>2, <1>3, <1>4 DEF ResolveNext, Resolved

\* The two together keep both invariants (parser.go:106-124).
THEOREM ResolveInvariant == ResolveSpec => []RInv
BY InitRInv, NextRInv, PTL DEF ResolveSpec

\* Levels fails exactly for a duplicate, an unknown dependency or a cycle among the
\* jobs that were kept, and names the right fault (levels.go:25-60).
THEOREM LevelsFailsRightly == ResolveSpec => []ErrorsAreRight
<1>1. RInv => ErrorsAreRight
  BY LP!ErrorsRight, SameLevels DEF RInv, ErrorsAreRight
<1> QED BY <1>1, ResolveInvariant, PTL

\* A level is the length of a longest chain of dependencies, from the moment it is
\* in the memo table (levels.go:17-19, 38-64).
THEOREM LevelsAreRight == ResolveSpec => []LevelsAreLongestChains
<1>1. RInv => LevelsAreLongestChains
  BY LP!LongestChains, SameLevels DEF RInv, LevelsAreLongestChains
<1> QED BY <1>1, ResolveInvariant, PTL

\* The order has every kept job once, after all it depends on, and as in the file
\* within a level (levels.go:20-24, 66-84).
THEOREM OrderIsRight == ResolveSpec => []OrderIsStableAndTopological
<1>1. RInv => OrderIsStableAndTopological
  BY LP!OrderRight, SameLevels DEF RInv, OrderIsStableAndTopological
<1> QED BY <1>1, ResolveInvariant, PTL

\* Whatever Levels then fails for is a fault the file has itself: leaving jobs out
\* leaves no job without a dependency it needs (levels.go:87-94).
THEOREM LeavingOutBreaksNothing == ResolveSpec => []SkippingBreaksNothing
<1>1. ASSUME RInv PROVE SkippingBreaksNothing
  <2> SUFFICES ASSUME result \notin {"none", "ok"}
               PROVE  \/ HasDuplicate(arg.nodes)
                      \/ HasCycle(arg.nodes)
                      \/ \E m \in Known(arg.nodes) :
                            ~(DepsIn(arg.nodes, m) \subseteq Known(arg.nodes) \cup arg.skipped)
    BY DEF SkippingBreaksNothing
  <2>1. /\ called /\ pc = "done" /\ nodes = kept /\ LP!IInv /\ IInv
    BY <1>1 DEF RInv
  <2>2. PICK ns \in Seq(NodeSet) : ns = arg.nodes
    BY <2>1 DEF IInv, TypeOK, ArgumentSet
  <2>3. kept = Without(ns, marked) /\ ClosedIn(ns, arg.skipped, marked)
    BY <2>1, <2>2 DEF IInv
  <2>4. PICK pos \in [DOMAIN kept -> DOMAIN ns] :
            /\ \A y \in DOMAIN kept : kept[y] = ns[pos[y]] /\ ns[pos[y]].name \notin marked
            /\ \A y, z \in DOMAIN kept : pos[y] = pos[z] => y = z
            /\ \A x \in DOMAIN ns : ns[x].name \notin marked => \E y \in DOMAIN kept : pos[y] = x
    BY <2>3, KeptFacts
  <2>5. \A n : n \in Known(kept) <=> n \in Known(ns) /\ n \notin marked
    <3>1. ASSUME NEW n, n \in Known(kept) PROVE n \in Known(ns) /\ n \notin marked
      <4>1. PICK y \in DOMAIN kept : kept[y].name = n
        BY <3>1 DEF Known
      <4> QED BY <2>4, <4>1 DEF Known
    <3>2. ASSUME NEW n, n \in Known(ns), n \notin marked PROVE n \in Known(kept)
      <4>1. PICK x \in DOMAIN ns : ns[x].name = n
        BY <3>2 DEF Known
      <4>2. PICK y \in DOMAIN kept : pos[y] = x
        BY <2>4, <3>2, <4>1
      <4> QED BY <2>4, <4>1, <4>2 DEF Known
    <3> QED BY <3>1, <3>2
  <2>6. ASSUME NEW m, NEW d \in DepsIn(kept, m)
        PROVE  \E x \in DOMAIN ns : /\ ns[x].name = m /\ m \notin marked
                                    /\ d \in ToSet(ns[x].depends)
    <3>1. PICK y \in DOMAIN kept : kept[y].name = m /\ d \in ToSet(kept[y].depends)
      BY DEF DepsIn
    <3> QED BY <2>4, <3>1
  <2>7. ASSUME NEW m, NEW d \in DepsIn(kept, m) PROVE d \in DepsIn(ns, m)
    <3>1. PICK x \in DOMAIN ns : ns[x].name = m /\ d \in ToSet(ns[x].depends)
      BY <2>6
    <3> QED BY <3>1 DEF DepsIn
  <2>8. HasDuplicate(kept) => HasDuplicate(ns)
    <3> SUFFICES ASSUME NEW y \in DOMAIN kept, NEW z \in DOMAIN kept, y # z,
                        kept[y].name = kept[z].name
                 PROVE  HasDuplicate(ns)
      BY DEF HasDuplicate
    <3>1. pos[y] # pos[z] /\ pos[y] \in DOMAIN ns /\ pos[z] \in DOMAIN ns
      BY <2>4
    <3>2. ns[pos[y]].name = ns[pos[z]].name
      BY <2>4
    <3> QED BY <3>1, <3>2 DEF HasDuplicate
  <2>9. HasCycle(kept) => HasCycle(ns)
    <3> SUFFICES ASSUME NEW C \in (SUBSET Known(kept)) \ {{}},
                        \A m \in C : DepsIn(kept, m) \cap C # {}
                 PROVE  HasCycle(ns)
      BY Zenon DEF HasCycle
    <3>1. C \in (SUBSET Known(ns)) \ {{}}
      BY <2>5
    <3>2. \A m \in C : DepsIn(ns, m) \cap C # {}
      BY <2>7
    <3> QED BY <3>1, <3>2 DEF HasCycle
  <2>10. HasUnknown(kept) =>
            \E m \in Known(ns) : ~(DepsIn(ns, m) \subseteq Known(ns) \cup arg.skipped)
    <3> SUFFICES ASSUME NEW m \in Known(kept), NEW d \in DepsIn(kept, m), d \notin Known(kept)
                 PROVE  \E n \in Known(ns) : ~(DepsIn(ns, n) \subseteq Known(ns) \cup arg.skipped)
      BY DEF HasUnknown
    <3>1. PICK x \in DOMAIN ns : ns[x].name = m /\ m \notin marked /\ d \in ToSet(ns[x].depends)
      BY <2>6
    <3>2. d \notin marked
      BY <2>3, <3>1 DEF ClosedIn
    <3>3. d \notin Known(ns) /\ d \notin arg.skipped
      BY <2>3, <2>5, <3>2 DEF ClosedIn
    <3>4. m \in Known(ns) /\ d \in DepsIn(ns, m)
      BY <2>5, <2>7
    <3> QED BY <3>3, <3>4
  <2>11. HasDuplicate(kept) \/ HasUnknown(kept) \/ HasCycle(kept)
    <3>1. L!ErrorsAreRight /\ result \in {"duplicate", "unknown", "circular"}
      BY <2>1, LP!ErrorsRight, SameLevels DEF LP!IInv, LP!TypeOK, LP!Results
    <3>2. L!HasDuplicate(nodes) \/ L!HasUnknown(nodes) \/ L!HasCycle(nodes)
      BY <3>1, Zenon DEF L!ErrorsAreRight
    <3> QED BY <2>1, <3>2, SameGraph
  <2> QED BY <2>2, <2>8, <2>9, <2>10, <2>11
<1> QED BY <1>1, ResolveInvariant, PTL
=============================================================================
