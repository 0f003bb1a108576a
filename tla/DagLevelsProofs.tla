-------------------------- MODULE DagLevelsProofs --------------------------
(***************************************************************************)
(* Levels is right for every list of nodes: whatever names, dependencies,  *)
(* cycles and duplicates it has.                                           *)
(***************************************************************************)
EXTENDS DagLevels, DagProofs

-----------------------------------------------------------------------------
FrameSet == [name : Name, k : Nat \ {0}, maxDep : Nat \cup {-1}]

\* What has not begun is empty.
Fresh ==
    top = 0 => /\ stack = <<>> /\ visiting = {} /\ order = <<>> /\ maxLevel = 0
               /\ levels = [n \in Name |-> NoLevel]
               /\ result \in {"none", "duplicate"}

\* The level of n is one more than the highest of its dependencies, all of which
\* have theirs, or 0.
LevelOf(n) ==
    /\ n \in Known(nodes)
    /\ \A d \in DOMAIN Depends(n) :
            levels[Depends(n)[d]] # NoLevel /\ levels[Depends(n)[d]] < levels[n]
    /\ levels[n] # 0 => \E d \in DOMAIN Depends(n) : levels[n] = levels[Depends(n)[d]] + 1

Memo == \A n \in Name : levels[n] # NoLevel => LevelOf(n)

\* A frame is at work on a node, and its maxDep is the highest level of the
\* dependencies its loop has passed.
FrameOf(f) ==
    /\ f.name \in Known(nodes) \cap visiting
    /\ levels[f.name] = NoLevel
    /\ f.k <= Len(Depends(f.name)) + 1
    /\ \A d \in 1..(f.k - 1) : levels[Depends(f.name)[d]] # NoLevel
                                 /\ levels[Depends(f.name)[d]] <= f.maxDep
    /\ f.maxDep # -1 => \E d \in 1..(f.k - 1) : f.maxDep = levels[Depends(f.name)[d]]

\* The frames s are a path of dependencies through different nodes, which are those
\* in marks; the outer loop has called the first.
IsPath(s, marks) ==
    /\ \A x \in 1..(Len(s) - 1) :
            /\ s[x].k <= Len(Depends(s[x].name))
            /\ s[x + 1].name = Depends(s[x].name)[s[x].k]
    /\ \A x, y \in DOMAIN s : s[x].name = s[y].name => x = y
    /\ \A n \in marks : \E x \in DOMAIN s : s[x].name = n
    /\ s # <<>> => top \in DOMAIN nodes /\ s[1].name = nodes[top].name

\* The outer loop leaves no node it has passed without a level.
Passed ==
    \A x \in DOMAIN nodes : x < top =>
        levels[nodes[x].name] # NoLevel /\ levels[nodes[x].name] <= maxLevel

Order == [x \in DOMAIN ByLevel(nodes, levels, maxLevel) |->
              ByLevel(nodes, levels, maxLevel)[x].name]

Outcome ==
    /\ result = "duplicate" <=> result # "none" /\ HasDuplicate(nodes)
    /\ result = "unknown" => HasUnknown(nodes)
    /\ result = "circular" => HasCycle(nodes)
    /\ result = "ok" => top > Len(nodes) /\ order = Order

\* The inductive invariant.
IInv ==
    /\ TypeOK
    /\ Fresh
    /\ top # 0 => ~HasDuplicate(nodes)
    /\ Memo
    /\ \A x \in DOMAIN stack : FrameOf(stack[x])
    /\ IsPath(stack, visiting)
    /\ Passed
    /\ Outcome

LEMMA NodeFacts ==
    ASSUME nodes \in Seq(NodeSet), NEW x \in DOMAIN nodes
    PROVE  /\ nodes[x].name \in Name /\ nodes[x].name \in Known(nodes)
           /\ nodes[x].depends \in Seq(Name)
           /\ Len(nodes) \in Nat /\ DOMAIN nodes = 1..Len(nodes)
<1>1. Len(nodes) \in Nat /\ DOMAIN nodes = 1..Len(nodes) /\ nodes[x] \in NodeSet
  OBVIOUS
<1> QED BY <1>1 DEF NodeSet, Known

\* Where no name is given twice, a name's node is the one that has it.
LEMMA IndexFacts ==
    ASSUME nodes \in Seq(NodeSet), ~HasDuplicate(nodes), NEW n \in Known(nodes)
    PROVE  /\ Index(n) \in DOMAIN nodes /\ nodes[Index(n)].name = n
           /\ \A x \in DOMAIN nodes : nodes[x].name = n => x = Index(n)
           /\ n \in Name
           /\ Depends(n) \in Seq(Name)
           /\ Len(Depends(n)) \in Nat /\ DOMAIN Depends(n) = 1..Len(Depends(n))
           /\ DepsIn(nodes, n) = {Depends(n)[d] : d \in DOMAIN Depends(n)}
<1>1. \E x \in DOMAIN nodes : nodes[x].name = n
  BY DEF Known
<1>2. Index(n) \in DOMAIN nodes /\ nodes[Index(n)].name = n
  BY <1>1 DEF Index
<1>3. \A x \in DOMAIN nodes : nodes[x].name = n => x = Index(n)
  BY <1>2 DEF HasDuplicate
<1>4. n \in Name /\ Depends(n) \in Seq(Name)
  BY <1>2, NodeFacts DEF Depends
<1>5. {x \in DOMAIN nodes : nodes[x].name = n} = {Index(n)}
  BY <1>2, <1>3
<1>6. DepsIn(nodes, n) = ToSet(Depends(n))
  BY <1>5 DEF DepsIn, Depends
<1>7. Len(Depends(n)) \in Nat /\ DOMAIN Depends(n) = 1..Len(Depends(n))
  BY <1>4
<1> QED BY <1>2, <1>3, <1>4, <1>6, <1>7 DEF ToSet

\* What is said of the argument stays true.
LEMMA SameNodes ==
    ASSUME nodes' = nodes
    PROVE  /\ \A n : Depends(n)' = Depends(n) /\ Index(n)' = Index(n)
           /\ Known(nodes') = Known(nodes)
           /\ HasDuplicate(nodes)' <=> HasDuplicate(nodes)
           /\ HasUnknown(nodes)' <=> HasUnknown(nodes)
           /\ HasCycle(nodes)' <=> HasCycle(nodes)
BY DEF Depends, Index, Known, HasDuplicate, HasUnknown, HasCycle, DepsIn

LEMMA FrontFacts ==
    ASSUME NEW S, NEW s \in Seq(S), s # <<>>
    PROVE  /\ Front(s) \in Seq(S) /\ Len(s) \in Nat \ {0} /\ Len(Front(s)) = Len(s) - 1
           /\ DOMAIN s = 1..Len(s) /\ DOMAIN Front(s) = 1..(Len(s) - 1)
           /\ \A x \in 1..(Len(s) - 1) : Front(s)[x] = s[x]
           /\ Last(s) = s[Len(s)] /\ Last(s) \in S
<1>1. Len(s) \in Nat \ {0} /\ DOMAIN s = 1..Len(s) /\ s[Len(s)] \in S
  OBVIOUS
<1>2. /\ SubSeq(s, 1, Len(s) - 1) \in Seq(S)
      /\ Len(SubSeq(s, 1, Len(s) - 1)) = Len(s) - 1
      /\ \A x \in 1..(Len(s) - 1) : SubSeq(s, 1, Len(s) - 1)[x] = s[x]
  BY <1>1
<1> QED BY <1>1, <1>2 DEF Front, Last

LEMMA InitIInv == NodeLists \subseteq Seq(NodeSet) => (Init => IInv)
<1> SUFFICES ASSUME NodeLists \subseteq Seq(NodeSet), Init PROVE IInv
  OBVIOUS
<1>1. nodes \in Seq(NodeSet)
  BY DEF Init
<1>2. Len(nodes) \in Nat /\ DOMAIN nodes = 1..Len(nodes)
  BY <1>1
<1>3. TypeOK
  BY <1>1, <1>2 DEF Init, TypeOK, Results, NoLevel
<1>4. Fresh /\ Memo /\ Passed
  BY <1>2 DEF Init, Fresh, Memo, Passed, NoLevel
<1>5. IsPath(stack, visiting) /\ \A x \in DOMAIN stack : FrameOf(stack[x])
  BY DEF Init, IsPath
<1> QED BY <1>3, <1>4, <1>5 DEF Init, IInv, Outcome

\* When only the result changes, what is said of the search stays true.
LEMMA SameSearch ==
    ASSUME IInv, result' \in Results, order' \in Seq(Name),
           UNCHANGED <<nodes, top, stack, levels, visiting, maxLevel>>
    PROVE  /\ TypeOK' /\ Memo' /\ Passed' /\ IsPath(stack, visiting)'
           /\ \A x \in DOMAIN stack' : FrameOf(stack[x])'
           /\ top' # 0 => ~HasDuplicate(nodes)'
<1>1. TypeOK'
  BY DEF IInv, TypeOK
<1>2. Memo'
  BY SameNodes DEF IInv, Memo, LevelOf
<1>3. Passed' /\ (top' # 0 => ~HasDuplicate(nodes)')
  BY SameNodes DEF IInv, Passed
<1>4. IsPath(stack, visiting)'
  BY SameNodes DEF IInv, IsPath
<1>5. \A x \in DOMAIN stack' : FrameOf(stack[x])'
  BY SameNodes DEF IInv, FrameOf
<1> QED BY <1>1, <1>2, <1>3, <1>4, <1>5

LEMMA BuildIndexStep == ASSUME IInv, BuildIndex PROVE IInv'
<1>1. CASE HasDuplicate(nodes)
  <2>1. UNCHANGED <<nodes, top, stack, levels, visiting, maxLevel, order>> /\ result' = "duplicate"
    BY <1>1 DEF BuildIndex, Fail
  <2>2. Outcome'
    BY <1>1, <2>1, SameNodes DEF Outcome
  <2>3. Fresh'
    BY <2>1 DEF IInv, Fresh
  <2> QED BY <2>1, <2>2, <2>3, SameSearch DEF IInv, TypeOK, Results
<1>2. CASE ~HasDuplicate(nodes)
  <2>1. /\ UNCHANGED <<nodes, stack, levels, visiting, maxLevel, order, result>>
        /\ top = 0 /\ top' = 1 /\ result = "none"
    BY <1>2 DEF BuildIndex
  <2>2. /\ stack = <<>> /\ visiting = {} /\ levels = [n \in Name |-> NoLevel]
        /\ Len(nodes) \in Nat /\ DOMAIN nodes = 1..Len(nodes)
    BY <2>1 DEF IInv, Fresh, TypeOK
  <2>3. TypeOK'
    BY <2>1, <2>2 DEF IInv, TypeOK
  <2>4. Memo' /\ Passed'
    BY <2>1, <2>2 DEF Memo, Passed
  <2>5. IsPath(stack, visiting)' /\ \A x \in DOMAIN stack' : FrameOf(stack[x])'
    BY <2>1, <2>2 DEF IsPath
  <2>6. Outcome' /\ Fresh'
    BY <2>1 DEF Outcome, Fresh
  <2> QED BY <1>2, <2>1, <2>3, <2>4, <2>5, <2>6, SameNodes DEF IInv
<1> QED BY <1>1, <1>2

\* What a call is made from: the outer loop or the last frame, which is at work on
\* a node that depends on n.
LEMMA CallFacts ==
    ASSUME IInv, NEW n \in Name, Calls(n)
    PROVE  /\ result = "none" /\ top \in DOMAIN nodes /\ top # 0
           /\ ~HasDuplicate(nodes)
           /\ stack = <<>> => n = nodes[top].name
           /\ stack # <<>> => /\ Frame = stack[Len(stack)] /\ Frame.name \in Known(nodes)
                             /\ Len(stack) \in DOMAIN stack
                             /\ FrameOf(Frame) /\ Frame \in FrameSet
                             /\ Frame.k \in DOMAIN Depends(Frame.name)
                             /\ n = Depends(Frame.name)[Frame.k]
                             /\ n \in DepsIn(nodes, Frame.name)
<1>0. nodes \in Seq(NodeSet) /\ stack \in Seq(FrameSet)
  BY DEF IInv, TypeOK, FrameSet
<1>1. result = "none" /\ top \in DOMAIN nodes /\ top # 0
  BY <1>0, NodeFacts DEF Calls, Searching
<1>2. ~HasDuplicate(nodes)
  BY <1>1 DEF IInv
<1>3. ASSUME stack # <<>>
      PROVE  /\ Frame = stack[Len(stack)] /\ Frame.name \in Known(nodes)
             /\ Len(stack) \in DOMAIN stack
             /\ FrameOf(Frame) /\ Frame \in FrameSet
             /\ Frame.k \in DOMAIN Depends(Frame.name)
             /\ n = Depends(Frame.name)[Frame.k]
             /\ n \in DepsIn(nodes, Frame.name)
  <2>1. Frame = stack[Len(stack)] /\ Frame \in FrameSet /\ Len(stack) \in DOMAIN stack
    BY <1>0, <1>3, FrontFacts DEF Frame
  <2>2. FrameOf(Frame)
    BY <2>1 DEF IInv
  <2>3. Frame.name \in Known(nodes)
    BY <2>2 DEF FrameOf
  <2>4. ~(Frame.k > Len(Depends(Frame.name))) /\ n = Depends(Frame.name)[Frame.k]
    BY <1>3 DEF Calls, LoopDone
  <2>5. /\ Len(Depends(Frame.name)) \in Nat
        /\ DOMAIN Depends(Frame.name) = 1..Len(Depends(Frame.name))
        /\ DepsIn(nodes, Frame.name) = {Depends(Frame.name)[d] : d \in DOMAIN Depends(Frame.name)}
    BY <1>0, <1>2, <2>3, IndexFacts
  <2>6. Frame.k \in Nat \ {0}
    BY <2>1 DEF FrameSet
  <2>7. Frame.k \in DOMAIN Depends(Frame.name)
    BY <2>4, <2>5, <2>6
  <2> QED BY <2>1, <2>2, <2>3, <2>4, <2>5, <2>7
<1>4. stack = <<>> => n = nodes[top].name
  BY DEF Calls
<1> QED BY <1>1, <1>2, <1>3, <1>4

LEMMA CallUnknownStep == ASSUME IInv, NEW n \in Name, CallUnknown(n) PROVE IInv'
<1>1. Calls(n) /\ n \notin Known(nodes) /\ result' = "unknown"
      /\ UNCHANGED <<nodes, top, stack, levels, visiting, maxLevel, order>>
  BY DEF CallUnknown, Fail
<1>2. stack # <<>>
  BY <1>1, CallFacts, NodeFacts DEF IInv, TypeOK
<1>3. HasUnknown(nodes)
  BY <1>1, <1>2, CallFacts DEF HasUnknown
<1>4. Outcome'
  BY <1>1, <1>3, CallFacts, SameNodes DEF Outcome
<1>5. Fresh'
  BY <1>1, CallFacts DEF Fresh
<1> QED BY <1>1, <1>4, <1>5, SameSearch DEF IInv, TypeOK, Results

\* A node that is called again while it is visited closes a cycle: the stack from
\* its frame on.
LEMMA CallCircularStep == ASSUME IInv, NEW n \in Name, CallCircular(n) PROVE IInv'
<1>1. Calls(n) /\ n \in visiting /\ result' = "circular"
      /\ UNCHANGED <<nodes, top, stack, levels, visiting, maxLevel, order>>
  BY DEF CallCircular, Fail
<1>2. PICK x0 \in DOMAIN stack : stack[x0].name = n
  BY <1>1 DEF IInv, IsPath
<1>3. stack \in Seq(FrameSet) /\ Len(stack) \in Nat /\ DOMAIN stack = 1..Len(stack) /\ stack # <<>>
  BY <1>2 DEF IInv, TypeOK, FrameSet
<1> DEFINE C == {stack[x].name : x \in x0..Len(stack)}
<1>4. C \subseteq Known(nodes) /\ n \in C
  <2>1. \A x \in x0..Len(stack) : x \in DOMAIN stack
    BY <1>2, <1>3
  <2>2. \A x \in DOMAIN stack : stack[x].name \in Known(nodes)
    BY DEF IInv, FrameOf
  <2>3. x0 \in x0..Len(stack)
    BY <1>2, <1>3
  <2> QED BY <1>2, <2>1, <2>2, <2>3
<1>5. ASSUME NEW x \in x0..Len(stack)
      PROVE  DepsIn(nodes, stack[x].name) \cap C # {}
  <2>1. CASE x = Len(stack)
    BY <1>1, <1>3, <1>4, <2>1, CallFacts
  <2>2. CASE x # Len(stack)
    <3>0. x0 \in Nat \ {0} /\ x \in Nat /\ x0 <= x /\ x <= Len(stack)
      BY <1>2, <1>3
    <3>1. x \in 1..(Len(stack) - 1) /\ x \in DOMAIN stack /\ x + 1 \in x0..Len(stack)
      <4> DEFINE a == Len(stack)
      <4>1. a \in Nat /\ x <= a /\ x # a
        BY <1>3, <2>2, <3>0
      <4> HIDE DEF a, C
      <4>2. x <= a - 1 /\ x + 1 <= a /\ x + 1 >= x0 /\ x >= 1
        BY <3>0, <4>1
      <4>3. x \in 1..(a - 1) /\ x \in 1..a /\ x + 1 \in x0..a
        BY <3>0, <4>1, <4>2
      <4> QED BY <1>3, <4>3 DEF a
    <3>2. /\ stack[x].k <= Len(Depends(stack[x].name))
          /\ stack[x + 1].name = Depends(stack[x].name)[stack[x].k]
      BY <3>1 DEF IInv, IsPath
    <3>3. stack[x].k \in Nat \ {0} /\ stack[x].name \in Known(nodes)
      <4>1. stack[x] \in FrameSet
        BY <1>3, <3>1
      <4>2. FrameOf(stack[x])
        BY <3>1 DEF IInv
      <4> QED BY <4>1, <4>2 DEF FrameSet, FrameOf
    <3>4. /\ Len(Depends(stack[x].name)) \in Nat
          /\ DOMAIN Depends(stack[x].name) = 1..Len(Depends(stack[x].name))
          /\ DepsIn(nodes, stack[x].name) =
                {Depends(stack[x].name)[d] : d \in DOMAIN Depends(stack[x].name)}
      BY <1>1, <3>3, CallFacts, IndexFacts DEF IInv, TypeOK
    <3>5. stack[x + 1].name \in DepsIn(nodes, stack[x].name)
      BY <3>2, <3>3, <3>4
    <3> QED BY <3>1, <3>5
  <2> QED BY <2>1, <2>2
<1>6. HasCycle(nodes)
  <2>1. \A m \in C : DepsIn(nodes, m) \cap C # {}
    BY <1>5
  <2> HIDE DEF C
  <2> QED BY <1>4, <2>1 DEF HasCycle
<1>7. Outcome'
  BY <1>1, <1>6, CallFacts, SameNodes DEF Outcome
<1>8. Fresh'
  BY <1>1, CallFacts DEF Fresh
<1> QED BY <1>1, <1>7, <1>8, SameSearch DEF IInv, TypeOK, Results

\* The caller has the level lvl of n for an answer and goes on: frames are those
\* below the call, marks the names visited once it is over.
LEMMA ReceiveStep ==
    ASSUME nodes \in Seq(NodeSet), ~HasDuplicate(nodes), nodes' = nodes,
           top \in DOMAIN nodes, maxLevel \in Nat,
           levels' \in [Name -> Nat \cup {NoLevel}],
           NEW frames \in Seq(FrameSet), NEW lvl \in Nat, NEW n \in Name, levels'[n] = lvl,
           NEW marks, visiting' = marks,
           \A x \in DOMAIN frames : FrameOf(frames[x])',
           IsPath(frames, marks),
           frames = <<>> => n = nodes[top].name,
           frames # <<>> => /\ Last(frames).k \in DOMAIN Depends(Last(frames).name)
                            /\ n = Depends(Last(frames).name)[Last(frames).k],
           \A x \in DOMAIN nodes : x < top =>
                levels'[nodes[x].name] # NoLevel /\ levels'[nodes[x].name] <= maxLevel,
           Receive(frames, lvl)
    PROVE  /\ stack' \in Seq(FrameSet) /\ maxLevel' \in Nat
           /\ top' \in 0..(Len(nodes) + 1) /\ top' # 0
           /\ \A x \in DOMAIN stack' : FrameOf(stack[x])'
           /\ IsPath(stack, visiting)'
           /\ Passed'
<1>0. /\ Len(nodes) \in Nat /\ DOMAIN nodes = 1..Len(nodes) /\ top \in 1..Len(nodes)
      /\ NoLevel = -1
      /\ \A x \in DOMAIN nodes : nodes[x].name \in Name
  BY NodeFacts DEF NoLevel
<1>1. CASE frames = <<>>
  <2>1. stack' = <<>> /\ top' = top + 1 /\ maxLevel' = Higher(maxLevel, lvl)
    BY <1>1 DEF Receive, Resume
  <2>2. maxLevel' \in Nat /\ maxLevel <= maxLevel' /\ lvl <= maxLevel'
    BY <2>1 DEF Higher
  <2>3. ASSUME NEW x \in DOMAIN nodes, x < top + 1
        PROVE  levels'[nodes[x].name] # NoLevel /\ levels'[nodes[x].name] <= maxLevel'
    <3>1. CASE x = top
      BY <1>0, <1>1, <2>2, <3>1
    <3>2. CASE x # top
      <4>1. x < top
        BY <1>0, <2>3, <3>2
      <4>2. levels'[nodes[x].name] # NoLevel /\ levels'[nodes[x].name] <= maxLevel
        BY <4>1
      <4>3. levels'[nodes[x].name] \in Nat
        BY <1>0, <4>2
      <4> QED BY <2>2, <4>2, <4>3
    <3> QED BY <3>1, <3>2
  <2>4. Passed'
    BY <2>1, <2>3 DEF Passed
  <2>5. IsPath(stack, visiting)'
    BY <1>1, <2>1 DEF IsPath
  <2> QED BY <1>0, <2>1, <2>2, <2>4, <2>5
<1>2. CASE frames # <<>>
  <2> DEFINE f == Last(frames)
             g == [f EXCEPT !.k = @ + 1, !.maxDep = Higher(@, lvl)]
             N == Len(frames)
  <2>1. stack' = Append(Front(frames), g) /\ top' = top /\ maxLevel' = maxLevel
    BY <1>2 DEF Receive, Resume
  <2>2. /\ Front(frames) \in Seq(FrameSet) /\ N \in Nat \ {0} /\ Len(Front(frames)) = N - 1
        /\ DOMAIN frames = 1..N /\ \A x \in 1..(N - 1) : Front(frames)[x] = frames[x]
        /\ f = frames[N] /\ f \in FrameSet
    BY <1>2, FrontFacts
  <2>3. f.name \in Name /\ f.k \in Nat \ {0} /\ f.maxDep \in Nat \cup {-1}
    BY <2>2 DEF FrameSet
  <2>4. /\ g \in FrameSet /\ g.name = f.name /\ g.k = f.k + 1 /\ g.maxDep = Higher(f.maxDep, lvl)
    <3>1. Higher(f.maxDep, lvl) \in Nat \cup {-1}
      BY <2>3 DEF Higher
    <3>2. f \in FrameSet /\ f.k + 1 \in Nat \ {0}
      BY <2>2, <2>3
    <3> HIDE DEF f
    <3> QED BY <3>1, <3>2 DEF FrameSet
  <2>5. /\ f.maxDep <= g.maxDep /\ lvl <= g.maxDep /\ g.maxDep \in Nat
        /\ g.maxDep = f.maxDep \/ g.maxDep = lvl
    BY <2>3, <2>4 DEF Higher
  <2> HIDE DEF f, g, N
  <2>6. FrameOf(f)'
    BY <2>2
  <2>7. /\ f.name \in Known(nodes) /\ f.name \in visiting' /\ levels'[f.name] = NoLevel
        /\ \A d \in 1..(f.k - 1) : levels'[Depends(f.name)[d]] # NoLevel
                                     /\ levels'[Depends(f.name)[d]] <= f.maxDep
        /\ f.maxDep # -1 => \E d \in 1..(f.k - 1) : f.maxDep = levels'[Depends(f.name)[d]]
    BY <2>6, SameNodes DEF FrameOf
  <2>8. /\ Depends(f.name) \in Seq(Name) /\ Len(Depends(f.name)) \in Nat
        /\ DOMAIN Depends(f.name) = 1..Len(Depends(f.name))
        /\ f.k \in 1..Len(Depends(f.name)) /\ Depends(f.name)[f.k] = n
    <3>1. f.k \in DOMAIN Depends(f.name) /\ Depends(f.name)[f.k] = n
      BY <1>2 DEF f
    <3> QED BY <2>7, <3>1, IndexFacts
  <2>9. FrameOf(g)'
    <3>1. g.k <= Len(Depends(g.name)) + 1
      BY <2>4, <2>8
    <3>2. ASSUME NEW d \in 1..(g.k - 1)
          PROVE  levels'[Depends(f.name)[d]] # NoLevel /\ levels'[Depends(f.name)[d]] <= g.maxDep
      <4>1. d \in 1..Len(Depends(f.name)) /\ Depends(f.name)[d] \in Name
        BY <2>3, <2>4, <2>8
      <4>2. CASE d = f.k
        BY <1>0, <2>5, <2>8, <4>2
      <4>3. CASE d # f.k
        <5>1. d \in 1..(f.k - 1)
          BY <2>3, <2>4, <4>3
        <5>2. levels'[Depends(f.name)[d]] # NoLevel /\ levels'[Depends(f.name)[d]] <= f.maxDep
          BY <2>7, <5>1
        <5>3. levels'[Depends(f.name)[d]] \in Nat
          BY <1>0, <4>1, <5>2
        <5> QED BY <2>3, <2>5, <5>2, <5>3
      <4> QED BY <4>2, <4>3
    <3>3. \E d \in 1..(g.k - 1) : g.maxDep = levels'[Depends(f.name)[d]]
      <4>1. f.k \in 1..(g.k - 1) /\ \A d \in 1..(f.k - 1) : d \in 1..(g.k - 1)
        BY <2>3, <2>4
      <4>2. CASE g.maxDep = lvl
        BY <2>8, <4>1, <4>2
      <4>3. CASE g.maxDep = f.maxDep
        <5>1. f.maxDep # -1
          BY <2>5, <4>3
        <5> QED BY <2>7, <4>1, <4>3, <5>1
      <4> QED BY <2>5, <4>2, <4>3
    <3> QED BY <2>4, <2>7, <3>1, <3>2, <3>3, SameNodes DEF FrameOf
  <2>10. /\ stack' \in Seq(FrameSet) /\ Len(stack') = N /\ DOMAIN stack' = 1..N
         /\ stack'[N] = g /\ \A x \in 1..(N - 1) : stack'[x] = frames[x]
    BY <2>1, <2>2, <2>4
  <2>11. \A x \in DOMAIN stack' : FrameOf(stack[x])'
    <3> SUFFICES ASSUME NEW x \in 1..N PROVE FrameOf(stack[x])'
      BY <2>10
    <3>1. CASE x = N
      BY <2>9, <2>10, <3>1
    <3>2. CASE x # N
      <4>1. x \in 1..(N - 1) /\ x \in DOMAIN frames
        BY <2>2, <3>2
      <4>2. FrameOf(frames[x])' /\ stack'[x] = frames[x]
        BY <2>10, <4>1
      <4> QED BY <4>2
    <3> QED BY <3>1, <3>2
  <2>12. \A x \in 1..N : stack'[x].name = frames[x].name
    <3> SUFFICES ASSUME NEW x \in 1..N PROVE stack'[x].name = frames[x].name
      OBVIOUS
    <3>1. CASE x = N
      BY <2>2, <2>4, <2>10, <3>1
    <3>2. CASE x # N
      <4>1. x \in 1..(N - 1)
        BY <2>2, <3>2
      <4> QED BY <2>10, <4>1
    <3> QED BY <3>1, <3>2
  <2>13. IsPath(stack, visiting)'
    <3>1. ASSUME NEW x \in 1..(N - 1)
          PROVE  /\ stack'[x].k <= Len(Depends(stack'[x].name))
                 /\ stack'[x + 1].name = Depends(stack'[x].name)[stack'[x].k]
      <4>1. x \in 1..N /\ x + 1 \in 1..N /\ x \in 1..(Len(frames) - 1)
        BY <2>2 DEF N
      <4>2. /\ frames[x].k <= Len(Depends(frames[x].name))
            /\ frames[x + 1].name = Depends(frames[x].name)[frames[x].k]
        BY <4>1 DEF IsPath
      <4> QED BY <2>10, <2>12, <4>1, <4>2
    <3>2. ASSUME NEW x \in 1..N, NEW y \in 1..N, stack'[x].name = stack'[y].name
          PROVE  x = y
      <4>1. frames[x].name = frames[y].name
        BY <2>12, <3>2
      <4> QED BY <2>2, <4>1 DEF IsPath
    <3>3. ASSUME NEW m \in visiting' PROVE \E x \in 1..N : stack'[x].name = m
      <4>1. IsPath(frames, visiting') /\ DOMAIN frames = 1..N
        BY <2>2
      <4>2. PICK x \in 1..N : frames[x].name = m
        BY <4>1 DEF IsPath
      <4> QED BY <2>12, <4>2
    <3>4. top' \in DOMAIN nodes /\ stack'[1].name = nodes[top].name
      <4>1. 1 \in 1..N
        BY <2>2
      <4>2. frames[1].name = nodes[top].name
        BY <1>2 DEF IsPath
      <4> QED BY <2>1, <2>12, <4>1, <4>2
    <3>5. \A m : Depends(m)' = Depends(m)
      BY SameNodes
    <3>6. \A x \in 1..(Len(stack') - 1) :
             /\ stack'[x].k <= Len(Depends(stack[x].name)')
             /\ stack'[x + 1].name = Depends(stack[x].name)'[stack'[x].k]
      BY <2>10, <3>1, <3>5
    <3>7. \A x, y \in DOMAIN stack' : stack'[x].name = stack'[y].name => x = y
      BY <2>10, <3>2
    <3>8. \A m \in visiting' : \E x \in DOMAIN stack' : stack'[x].name = m
      BY <2>10, <3>3
    <3>9. top' \in DOMAIN nodes' /\ stack'[1].name = nodes'[top'].name
      BY <2>1, <3>4
    <3> QED BY <3>6, <3>7, <3>8, <3>9, Zenon DEF IsPath
  <2>14. Passed'
    BY <2>1 DEF Passed
  <2> QED BY <1>0, <2>1, <2>10, <2>11, <2>13, <2>14
<1> QED BY <1>1, <1>2

LEMMA CallMemoizedStep == ASSUME IInv, NEW n \in Name, CallMemoized(n) PROVE IInv'
<1>1. /\ Calls(n) /\ levels[n] # NoLevel /\ Receive(stack, levels[n])
      /\ UNCHANGED <<nodes, levels, visiting, order, result>>
  BY DEF CallMemoized
<1>2. /\ nodes \in Seq(NodeSet) /\ stack \in Seq(FrameSet) /\ maxLevel \in Nat
      /\ levels \in [Name -> Nat \cup {NoLevel}]
      /\ \A x \in DOMAIN stack : FrameOf(stack[x])
      /\ IsPath(stack, visiting)
      /\ \A x \in DOMAIN nodes : x < top =>
            levels[nodes[x].name] # NoLevel /\ levels[nodes[x].name] <= maxLevel
  BY DEF IInv, TypeOK, FrameSet, Passed
<1>3. top \in DOMAIN nodes /\ ~HasDuplicate(nodes) /\ result = "none"
  BY <1>1, CallFacts
<1>4. PICK frames \in Seq(FrameSet) : frames = stack
  BY <1>2
<1>5. PICK marks : marks = visiting
  OBVIOUS
<1>6. \A x \in DOMAIN frames : FrameOf(frames[x])'
  <2> SUFFICES ASSUME NEW x \in DOMAIN frames PROVE FrameOf(frames[x])'
    OBVIOUS
  <2>1. FrameOf(frames[x])
    BY <1>2, <1>4
  <2> QED BY <1>1, <2>1, SameNodes DEF FrameOf
<1>7. PICK lvl \in Nat : lvl = levels[n]
  BY <1>1, <1>2
<1>8. frames # <<>> => /\ Last(frames).k \in DOMAIN Depends(Last(frames).name)
                       /\ n = Depends(Last(frames).name)[Last(frames).k]
  BY <1>1, <1>4, CallFacts DEF Frame
<1>9. frames = <<>> => n = nodes[top].name
  BY <1>1, <1>4, CallFacts
<1>10. /\ stack' \in Seq(FrameSet) /\ maxLevel' \in Nat
       /\ top' \in 0..(Len(nodes) + 1) /\ top' # 0
       /\ \A x \in DOMAIN stack' : FrameOf(stack[x])'
       /\ IsPath(stack, visiting)'
       /\ Passed'
  <2>1. Receive(frames, lvl) /\ IsPath(frames, marks)
    BY <1>1, <1>2, <1>4, <1>5, <1>7
  <2>2. levels' \in [Name -> Nat \cup {NoLevel}] /\ levels'[n] = lvl /\ visiting' = marks
        /\ nodes' = nodes
    BY <1>1, <1>2, <1>5, <1>7
  <2>3. \A x \in DOMAIN nodes : x < top =>
            levels'[nodes[x].name] # NoLevel /\ levels'[nodes[x].name] <= maxLevel
    BY <1>1, <1>2
  <2> QED BY <1>2, <1>3, <1>6, <1>8, <1>9, <2>1, <2>2, <2>3, ReceiveStep
<1>11. TypeOK'
  BY <1>1, <1>10 DEF IInv, TypeOK, FrameSet
<1>12. Memo'
  BY <1>1, SameNodes DEF IInv, Memo, LevelOf
<1>13. Outcome' /\ Fresh'
  BY <1>1, <1>3, <1>10 DEF Outcome, Fresh
<1> QED BY <1>1, <1>3, <1>10, <1>11, <1>12, <1>13, SameNodes DEF IInv

LEMMA CallNewStep == ASSUME IInv, NEW n \in Name, CallNew(n) PROVE IInv'
<1> DEFINE new == [name |-> n, k |-> 1, maxDep |-> -1]
           N == Len(stack)
<1>1. /\ Calls(n) /\ levels[n] = NoLevel /\ n \in Known(nodes) /\ n \notin visiting
      /\ visiting' = visiting \cup {n} /\ stack' = Append(stack, new)
      /\ UNCHANGED <<nodes, top, levels, maxLevel, order, result>>
  BY DEF CallNew
<1>2. /\ top \in DOMAIN nodes /\ top # 0 /\ ~HasDuplicate(nodes) /\ result = "none"
      /\ nodes \in Seq(NodeSet) /\ stack \in Seq(FrameSet)
  BY <1>1, CallFacts DEF IInv, TypeOK, FrameSet
<1>3. new \in FrameSet /\ new.name = n /\ new.k = 1 /\ new.maxDep = -1
  BY DEF FrameSet
<1> HIDE DEF new
<1>4. /\ N \in Nat /\ DOMAIN stack = 1..N
      /\ stack' \in Seq(FrameSet) /\ Len(stack') = N + 1 /\ DOMAIN stack' = 1..(N + 1)
      /\ stack'[N + 1] = new /\ \A x \in 1..N : stack'[x] = stack[x]
  BY <1>1, <1>2, <1>3
<1>5. \A x \in 1..(N + 1) : x \in 1..N \/ x = N + 1
  BY <1>4
<1> HIDE DEF N
<1>6. FrameOf(new)'
  <2>1. Len(Depends(n)) \in Nat
    BY <1>1, <1>2, IndexFacts
  <2>2. 1..(1 - 1) = {}
    OBVIOUS
  <2> QED BY <1>1, <1>3, <2>1, <2>2, SameNodes DEF FrameOf
<1>7. \A x \in 1..N : FrameOf(stack[x])
  BY <1>4 DEF IInv
<1>8. \A x \in DOMAIN stack' : FrameOf(stack[x])'
  <2> SUFFICES ASSUME NEW x \in 1..(N + 1) PROVE FrameOf(stack[x])'
    BY <1>4
  <2>1. CASE x = N + 1
    BY <1>4, <1>6, <2>1
  <2>2. CASE x \in 1..N
    <3>1. FrameOf(stack[x]) /\ stack'[x] = stack[x] /\ visiting \subseteq visiting'
      BY <1>1, <1>4, <1>7, <2>2
    <3> QED BY <1>1, <3>1, SameNodes DEF FrameOf
  <2> QED BY <1>5, <2>1, <2>2
<1>9. IsPath(stack, visiting)'
  <2>1. ASSUME NEW x \in 1..N
        PROVE  /\ stack'[x].k <= Len(Depends(stack[x].name)')
               /\ stack'[x + 1].name = Depends(stack[x].name)'[stack'[x].k]
    <3>1. stack'[x] = stack[x] /\ \A m : Depends(m)' = Depends(m)
      BY <1>1, <1>4, SameNodes
    <3>2. CASE x = N
      <4>1. stack # <<>> /\ Frame = stack[x]
        <5>1. Len(stack) # 0 /\ x = Len(stack)
          BY <1>4, <3>2 DEF N
        <5>2. stack # <<>>
          BY <5>1
        <5> QED BY <1>2, <5>1, <5>2, FrontFacts DEF Frame
      <4>2. /\ Frame.k \in DOMAIN Depends(Frame.name) /\ n = Depends(Frame.name)[Frame.k]
            /\ Frame.name \in Known(nodes)
        BY <1>1, <4>1, CallFacts
      <4>3. Frame.k <= Len(Depends(Frame.name))
        BY <1>2, <4>2, IndexFacts
      <4> QED BY <1>3, <1>4, <3>1, <3>2, <4>1, <4>2, <4>3
    <3>3. CASE x # N
      <4>1. x \in 1..(N - 1) /\ x + 1 \in 1..N
        BY <1>4, <3>3
      <4>2. stack'[x + 1] = stack[x + 1]
        BY <1>4, <4>1
      <4>3. /\ stack[x].k <= Len(Depends(stack[x].name))
            /\ stack[x + 1].name = Depends(stack[x].name)[stack[x].k]
        BY <4>1 DEF IInv, IsPath, N
      <4> QED BY <3>1, <4>2, <4>3
    <3> QED BY <3>2, <3>3
  <2>2. ASSUME NEW x \in 1..N PROVE stack'[x].name \in visiting /\ stack'[x].name # n
    BY <1>1, <1>4, <1>7 DEF FrameOf
  <2>3. ASSUME NEW x \in DOMAIN stack', NEW y \in DOMAIN stack', stack'[x].name = stack'[y].name
        PROVE  x = y
    <3>1. CASE x \in 1..N /\ y \in 1..N
      BY <1>4, <2>3, <3>1 DEF IInv, IsPath
    <3>2. CASE x = N + 1 \/ y = N + 1
      BY <1>3, <1>4, <1>5, <2>2, <2>3, <3>2
    <3> QED BY <1>4, <1>5, <3>1, <3>2
  <2>4. \A m \in visiting' : \E x \in DOMAIN stack' : stack'[x].name = m
    <3> SUFFICES ASSUME NEW m \in visiting' PROVE \E x \in DOMAIN stack' : stack'[x].name = m
      OBVIOUS
    <3>1. CASE m = n
      <4>1. N + 1 \in DOMAIN stack' /\ stack'[N + 1].name = m
        BY <1>3, <1>4, <3>1
      <4> QED BY <4>1
    <3>2. CASE m \in visiting
      <4>1. PICK x \in DOMAIN stack : stack[x].name = m
        BY <3>2 DEF IInv, IsPath
      <4>2. x \in DOMAIN stack' /\ stack'[x].name = m
        BY <1>4, <4>1
      <4> QED BY <4>2
    <3> QED BY <1>1, <3>1, <3>2
  <2>5. top' \in DOMAIN nodes' /\ stack'[1].name = nodes'[top'].name
    <3>1. CASE N = 0
      <4>1. stack = <<>>
        BY <1>2, <3>1 DEF N
      <4>2. n = nodes[top].name
        BY <1>1, <4>1, CallFacts
      <4> QED BY <1>1, <1>2, <1>3, <1>4, <3>1, <4>2
    <3>2. CASE N # 0
      <4>1. 1 \in 1..N /\ stack # <<>>
        BY <1>2, <1>4, <3>2 DEF N
      <4>2. stack[1].name = nodes[top].name
        BY <4>1 DEF IInv, IsPath
      <4> QED BY <1>1, <1>2, <1>4, <4>1, <4>2
    <3> QED BY <3>1, <3>2
  <2>6. \A x \in 1..(Len(stack') - 1) :
            /\ stack'[x].k <= Len(Depends(stack[x].name)')
            /\ stack'[x + 1].name = Depends(stack[x].name)'[stack'[x].k]
    <3>1. Len(stack') - 1 = N
      BY <1>4
    <3> QED BY <2>1, <3>1
  <2> QED BY <2>3, <2>4, <2>5, <2>6, Zenon DEF IsPath
<1>10. TypeOK'
  BY <1>1, <1>4 DEF IInv, TypeOK, FrameSet
<1>11. Memo' /\ Passed'
  BY <1>1, SameNodes DEF IInv, Memo, LevelOf, Passed
<1>12. Outcome' /\ Fresh'
  BY <1>1, <1>2 DEF Outcome, Fresh
<1> QED BY <1>1, <1>2, <1>8, <1>9, <1>10, <1>11, <1>12, SameNodes DEF IInv

LEMMA ReturnLevelStep == ASSUME IInv, ReturnLevel PROVE IInv'
<1> DEFINE N == Len(stack)
<1>1. /\ result = "none" /\ top \in DOMAIN nodes /\ stack # <<>>
      /\ Frame.k > Len(Depends(Frame.name))
      /\ visiting' = visiting \ {Frame.name}
      /\ levels' = [levels EXCEPT ![Frame.name] = Frame.maxDep + 1]
      /\ Receive(Front(stack), Frame.maxDep + 1)
      /\ UNCHANGED <<nodes, order, result>>
  BY DEF ReturnLevel, Searching, LoopDone
<1>2. /\ nodes \in Seq(NodeSet) /\ stack \in Seq(FrameSet) /\ maxLevel \in Nat
      /\ levels \in [Name -> Nat \cup {NoLevel}] /\ NoLevel = -1
      /\ \A x \in DOMAIN stack : FrameOf(stack[x])
      /\ IsPath(stack, visiting) /\ Memo /\ Passed
  BY DEF IInv, TypeOK, FrameSet, NoLevel
<1>3. top # 0 /\ ~HasDuplicate(nodes)
  BY <1>1, <1>2, NodeFacts DEF IInv
<1>4. /\ Front(stack) \in Seq(FrameSet) /\ N \in Nat \ {0} /\ Len(Front(stack)) = N - 1
      /\ DOMAIN stack = 1..N /\ DOMAIN Front(stack) = 1..(N - 1)
      /\ \A x \in 1..(N - 1) : Front(stack)[x] = stack[x]
      /\ Frame = stack[N] /\ Frame \in FrameSet
  BY <1>1, <1>2, FrontFacts DEF Frame
<1>5. PICK f \in FrameSet : f = Frame
  BY <1>4
<1>6. PICK a \in Name : a = f.name
  BY <1>5 DEF FrameSet
<1>7. f.k \in Nat \ {0} /\ f.maxDep \in Nat \cup {-1}
  BY <1>5 DEF FrameSet
<1>8. PICK lvl \in Nat : lvl = f.maxDep + 1
  BY <1>7
<1>9. FrameOf(f)
  BY <1>2, <1>4, <1>5
<1>10. /\ a \in Known(nodes) /\ levels[a] = NoLevel
       /\ \A d \in 1..(f.k - 1) : levels[Depends(a)[d]] # NoLevel
                                    /\ levels[Depends(a)[d]] <= f.maxDep
       /\ f.maxDep # -1 => \E d \in 1..(f.k - 1) : f.maxDep = levels[Depends(a)[d]]
  BY <1>6, <1>9 DEF FrameOf
<1>11. /\ Len(Depends(a)) \in Nat /\ DOMAIN Depends(a) = 1..Len(Depends(a))
       /\ Depends(a) \in Seq(Name) /\ DOMAIN Depends(a) = 1..(f.k - 1)
  <2>1. /\ Len(Depends(a)) \in Nat /\ DOMAIN Depends(a) = 1..Len(Depends(a))
        /\ Depends(a) \in Seq(Name)
    BY <1>2, <1>3, <1>10, IndexFacts
  <2>2. f.k = Len(Depends(a)) + 1
    BY <1>1, <1>5, <1>6, <1>7, <1>9, <2>1 DEF FrameOf
  <2> QED BY <2>1, <2>2
<1>12. /\ levels' \in [Name -> Nat \cup {NoLevel}] /\ levels'[a] = lvl
       /\ \A m \in Name : levels[m] # NoLevel => m # a /\ levels'[m] = levels[m]
       /\ \A m \in Name : m # a => levels'[m] = levels[m]
  BY <1>1, <1>2, <1>5, <1>6, <1>8, <1>10
<1>13. \A m : m \in Known(nodes) => \A d \in DOMAIN Depends(m) : Depends(m)[d] \in Name
  BY <1>2, <1>3, IndexFacts
<1>14. \A m : Depends(m)' = Depends(m) /\ Known(nodes)' = Known(nodes)
  BY <1>1, SameNodes
<1>15. Memo'
  <2> SUFFICES ASSUME NEW m \in Name, levels'[m] # NoLevel PROVE LevelOf(m)'
    BY DEF Memo, NoLevel
  <2>1. CASE m = a
    <3>1. ASSUME NEW d \in DOMAIN Depends(a)
          PROVE  /\ levels[Depends(a)[d]] # NoLevel /\ levels[Depends(a)[d]] <= f.maxDep
                 /\ levels'[Depends(a)[d]] = levels[Depends(a)[d]]
                 /\ levels[Depends(a)[d]] \in Nat
      <4>1. levels[Depends(a)[d]] # NoLevel /\ levels[Depends(a)[d]] <= f.maxDep
            /\ Depends(a)[d] \in Name
        BY <1>10, <1>11, <1>13
      <4> QED BY <1>2, <1>12, <4>1
    <3>2. \A d \in DOMAIN Depends(a) :
             levels'[Depends(a)[d]] # NoLevel /\ levels'[Depends(a)[d]] < levels'[a]
      BY <1>7, <1>8, <1>12, <3>1
    <3>3. levels'[a] # 0 => \E d \in DOMAIN Depends(a) : levels'[a] = levels'[Depends(a)[d]] + 1
      <4> SUFFICES ASSUME lvl # 0
                   PROVE  \E d \in DOMAIN Depends(a) : lvl = levels'[Depends(a)[d]] + 1
        BY <1>12
      <4>1. f.maxDep # -1
        BY <1>7, <1>8
      <4>2. PICK d \in DOMAIN Depends(a) : f.maxDep = levels[Depends(a)[d]]
        BY <1>10, <1>11, <4>1
      <4>3. lvl = levels'[Depends(a)[d]] + 1
        BY <1>8, <3>1, <4>2
      <4> QED BY <4>3
    <3> QED BY <1>10, <1>14, <2>1, <3>2, <3>3 DEF LevelOf, NoLevel
  <2>2. CASE m # a
    <3>1. levels'[m] = levels[m] /\ LevelOf(m)
      BY <1>2, <1>12, <2>2 DEF Memo
    <3>2. m \in Known(nodes)
      BY <3>1 DEF LevelOf
    <3>3. \A d \in DOMAIN Depends(m) : levels'[Depends(m)[d]] = levels[Depends(m)[d]]
      BY <1>12, <1>13, <3>1, <3>2 DEF LevelOf
    <3> QED BY <1>14, <3>1, <3>3 DEF LevelOf, NoLevel
  <2> QED BY <2>1, <2>2
<1>16. PICK frames \in Seq(FrameSet) : frames = Front(stack)
  BY <1>4
<1>17. PICK marks : marks = visiting \ {a}
  OBVIOUS
<1>18. \A x \in 1..(N - 1) : /\ x \in DOMAIN stack /\ x # N /\ frames[x] = stack[x]
                              /\ stack[x].name # a
  <2>1. \A x \in 1..(N - 1) : x \in 1..N /\ x # N /\ N \in 1..N
    BY <1>4
  <2>2. stack[N].name = a
    BY <1>4, <1>5, <1>6
  <2>3. \A x, y \in DOMAIN stack : stack[x].name = stack[y].name => x = y
    BY <1>2 DEF IsPath
  <2> QED BY <1>4, <1>16, <2>1, <2>2, <2>3
<1>19. \A x \in DOMAIN frames : FrameOf(frames[x])'
  <2> SUFFICES ASSUME NEW x \in 1..(N - 1) PROVE FrameOf(frames[x])'
    BY <1>4, <1>16
  <2>1. PICK g \in FrameSet : g = frames[x]
    BY <1>4, <1>16
  <2>2. FrameOf(g) /\ g.name # a
    BY <1>2, <1>18, <2>1
  <2>3. g.name \in Known(nodes) /\ g.name \in visiting' /\ g.name \in Name
    BY <1>1, <1>5, <1>6, <2>1, <2>2 DEF FrameOf, FrameSet
  <2>4. levels'[g.name] = NoLevel
    BY <1>12, <2>2, <2>3 DEF FrameOf
  <2>5. ASSUME NEW d \in 1..(g.k - 1)
        PROVE  /\ levels'[Depends(g.name)[d]] = levels[Depends(g.name)[d]]
               /\ levels[Depends(g.name)[d]] # NoLevel
               /\ levels[Depends(g.name)[d]] <= g.maxDep
    <3>1. g.k <= Len(Depends(g.name)) + 1 /\ g.k \in Nat \ {0}
      BY <2>1, <2>2 DEF FrameOf, FrameSet
    <3>2. /\ Len(Depends(g.name)) \in Nat
          /\ DOMAIN Depends(g.name) = 1..Len(Depends(g.name))
      BY <1>2, <1>3, <2>3, IndexFacts
    <3>3. d \in DOMAIN Depends(g.name)
      BY <3>1, <3>2
    <3>4. levels[Depends(g.name)[d]] # NoLevel /\ levels[Depends(g.name)[d]] <= g.maxDep
      BY <2>2 DEF FrameOf
    <3> QED BY <1>12, <1>13, <2>3, <3>3, <3>4
  <2>6. /\ g.k <= Len(Depends(g.name)) + 1
        /\ g.maxDep # -1 => \E d \in 1..(g.k - 1) : g.maxDep = levels'[Depends(g.name)[d]]
    BY <2>2, <2>5 DEF FrameOf
  <2>7. FrameOf(g)'
    BY <1>14, <2>3, <2>4, <2>5, <2>6 DEF FrameOf, NoLevel
  <2> QED BY <2>1, <2>7
<1>20. IsPath(frames, marks)
  <2>1. /\ \A x \in 1..(N - 1) :
                /\ stack[x].k <= Len(Depends(stack[x].name))
                /\ stack[x + 1].name = Depends(stack[x].name)[stack[x].k]
        /\ \A x, y \in DOMAIN stack : stack[x].name = stack[y].name => x = y
        /\ \A m \in visiting : \E x \in DOMAIN stack : stack[x].name = m
        /\ top \in DOMAIN nodes /\ stack[1].name = nodes[top].name
    BY <1>1, <1>2 DEF IsPath
  <2>2. \A x \in 1..(Len(frames) - 1) :
            /\ frames[x].k <= Len(Depends(frames[x].name))
            /\ frames[x + 1].name = Depends(frames[x].name)[frames[x].k]
    <3>1. \A x \in 1..(Len(frames) - 1) : x \in 1..(N - 1) /\ x + 1 \in 1..(N - 1)
      BY <1>4, <1>16
    <3> QED BY <1>18, <2>1, <3>1
  <2>3. ASSUME NEW x \in DOMAIN frames, NEW y \in DOMAIN frames, frames[x].name = frames[y].name
        PROVE  x = y
    <3>1. x \in 1..(N - 1) /\ y \in 1..(N - 1)
      BY <1>4, <1>16
    <3>2. x \in DOMAIN stack /\ y \in DOMAIN stack /\ stack[x].name = stack[y].name
      BY <1>18, <2>3, <3>1
    <3> QED BY <2>1, <3>2
  <2>4. \A m \in marks : \E x \in DOMAIN frames : frames[x].name = m
    <3> SUFFICES ASSUME NEW m \in visiting, m # a
                 PROVE  \E x \in DOMAIN frames : frames[x].name = m
      BY <1>17
    <3>1. PICK x \in DOMAIN stack : stack[x].name = m
      BY <2>1
    <3>2. x # N
      BY <1>4, <1>5, <1>6, <3>1
    <3>3. x \in 1..(N - 1)
      BY <1>4, <3>1, <3>2
    <3> QED BY <1>4, <1>16, <1>18, <3>1, <3>3
  <2>5. frames # <<>> => frames[1].name = nodes[top].name
    <3> SUFFICES ASSUME frames # <<>> PROVE frames[1].name = nodes[top].name
      OBVIOUS
    <3>1. Len(frames) # 0
      BY <1>16
    <3>2. 1 \in 1..(N - 1)
      BY <1>4, <1>16, <3>1
    <3> QED BY <1>18, <2>1, <3>2
  <2> QED BY <2>1, <2>2, <2>3, <2>4, <2>5, Zenon DEF IsPath
<1>21. frames = <<>> => a = nodes[top].name
  <2> SUFFICES ASSUME frames = <<>> PROVE a = nodes[top].name
    OBVIOUS
  <2>1. N = 1
    BY <1>4, <1>16
  <2> QED BY <1>1, <1>2, <1>4, <1>5, <1>6, <2>1 DEF IsPath
<1>22. frames # <<>> => /\ Last(frames).k \in DOMAIN Depends(Last(frames).name)
                        /\ a = Depends(Last(frames).name)[Last(frames).k]
  <2> SUFFICES ASSUME frames # <<>>
               PROVE  /\ Last(frames).k \in DOMAIN Depends(Last(frames).name)
                      /\ a = Depends(Last(frames).name)[Last(frames).k]
    OBVIOUS
  <2>1. Len(frames) \in Nat \ {0} /\ Last(frames) = frames[Len(frames)] /\ Last(frames) \in FrameSet
    BY <1>16, FrontFacts
  <2>2. N - 1 \in 1..(N - 1) /\ Last(frames) = stack[N - 1] /\ (N - 1) + 1 = N
    BY <1>4, <1>16, <1>18, <2>1
  <2>3. PICK g \in FrameSet : g = Last(frames)
    BY <2>1
  <2>4. g.k <= Len(Depends(g.name)) /\ a = Depends(g.name)[g.k]
    <3>1. /\ stack[N - 1].k <= Len(Depends(stack[N - 1].name))
          /\ stack[(N - 1) + 1].name = Depends(stack[N - 1].name)[stack[N - 1].k]
      BY <1>2, <2>2 DEF IsPath
    <3> QED BY <1>4, <1>5, <1>6, <2>2, <2>3, <3>1
  <2>5. FrameOf(g)
    BY <1>2, <1>18, <2>2, <2>3
  <2>6. g.k \in Nat \ {0} /\ g.name \in Known(nodes)
    BY <2>3, <2>5 DEF FrameSet, FrameOf
  <2>7. /\ Len(Depends(g.name)) \in Nat
        /\ DOMAIN Depends(g.name) = 1..Len(Depends(g.name))
    BY <1>2, <1>3, <2>6, IndexFacts
  <2> QED BY <2>3, <2>4, <2>6, <2>7
<1>23. \A x \in DOMAIN nodes : x < top =>
            levels'[nodes[x].name] # NoLevel /\ levels'[nodes[x].name] <= maxLevel
  <2>1. \A x \in DOMAIN nodes : nodes[x].name \in Name
    BY <1>2, NodeFacts
  <2> QED BY <1>2, <1>12, <2>1 DEF Passed
<1>24. /\ stack' \in Seq(FrameSet) /\ maxLevel' \in Nat
       /\ top' \in 0..(Len(nodes) + 1) /\ top' # 0
       /\ \A x \in DOMAIN stack' : FrameOf(stack[x])'
       /\ IsPath(stack, visiting)'
       /\ Passed'
  <2>1. Receive(frames, lvl) /\ visiting' = marks /\ nodes' = nodes
    BY <1>1, <1>5, <1>6, <1>8, <1>16, <1>17
  <2> QED BY <1>1, <1>2, <1>3, <1>12, <1>19, <1>20, <1>21, <1>22, <1>23, <2>1, ReceiveStep
<1>25. TypeOK'
  <2>1. visiting' \subseteq Name
    BY <1>1 DEF IInv, TypeOK
  <2> QED BY <1>1, <1>12, <1>24, <2>1 DEF IInv, TypeOK, FrameSet, NoLevel
<1>26. Outcome' /\ Fresh'
  BY <1>1, <1>24 DEF Outcome, Fresh
<1> QED BY <1>1, <1>3, <1>15, <1>24, <1>25, <1>26, SameNodes DEF IInv

\* maxLevel is the level no node exceeds, so that the order leaves out none.
LEMMA BuildOrderStep == ASSUME IInv, BuildOrder PROVE IInv'
<1>1. /\ result = "none" /\ result' = "ok" /\ top > Len(nodes) /\ order' = Order
      /\ UNCHANGED <<nodes, top, stack, levels, visiting, maxLevel>>
  BY DEF BuildOrder, Order
<1>2. /\ nodes \in Seq(NodeSet) /\ maxLevel \in Nat /\ top \in Nat /\ Len(nodes) \in Nat
  BY DEF IInv, TypeOK
<1>3. ByLevel(nodes, levels, maxLevel) \in Seq(NodeSet)
  BY <1>2, ByLevelFacts
<1>4. order' \in Seq(Name)
  <2> DEFINE s == ByLevel(nodes, levels, maxLevel)
  <2>1. Len(s) \in Nat /\ DOMAIN s = 1..Len(s) /\ \A x \in 1..Len(s) : s[x] \in NodeSet
    BY <1>3
  <2>2. order' = [x \in 1..Len(s) |-> s[x].name]
    BY <1>1, <2>1 DEF Order
  <2> HIDE DEF s
  <2>3. \A x \in 1..Len(s) : s[x].name \in Name
    BY <2>1 DEF NodeSet
  <2> QED BY <2>1, <2>2, <2>3
<1>5. top # 0 /\ ~HasDuplicate(nodes)
  BY <1>1, <1>2 DEF IInv
<1>6. Outcome'
  <2>1. Order' = Order
    BY <1>1 DEF Order
  <2> QED BY <1>1, <1>5, <2>1, SameNodes DEF Outcome
<1>7. Fresh'
  BY <1>1, <1>5 DEF Fresh
<1> QED BY <1>1, <1>4, <1>6, <1>7, SameSearch DEF IInv, Results

LEMMA StepIInv == IInv /\ Step => IInv'
BY BuildIndexStep, CallMemoizedStep, CallUnknownStep, CallCircularStep, CallNewStep,
   ReturnLevelStep, BuildOrderStep DEF Step

\* Before it begins Levels may be given another list.
LEMMA GivenIInv ==
    ASSUME IInv, top = 0, result = "none", nodes' \in Seq(NodeSet),
           UNCHANGED <<top, stack, levels, visiting, maxLevel, order, result>>
    PROVE  IInv'
<1>1. /\ stack = <<>> /\ visiting = {} /\ levels = [n \in Name |-> NoLevel]
      /\ Len(nodes') \in Nat /\ DOMAIN nodes' = 1..Len(nodes')
  BY DEF IInv, Fresh
<1>2. TypeOK'
  BY <1>1 DEF IInv, TypeOK, NoLevel, Results
<1>3. Fresh' /\ Outcome'
  BY DEF IInv, Fresh, Outcome, NoLevel
<1>4. Memo' /\ Passed'
  BY <1>1 DEF Memo, Passed, NoLevel
<1>5. IsPath(stack, visiting)' /\ \A x \in DOMAIN stack' : FrameOf(stack[x])'
  BY <1>1 DEF IsPath
<1> QED BY <1>2, <1>3, <1>4, <1>5 DEF IInv

LEMMA StutterIInv == IInv /\ UNCHANGED vars => IInv'
<1> SUFFICES ASSUME IInv, UNCHANGED vars PROVE IInv'
  OBVIOUS
<1>1. UNCHANGED <<nodes, top, stack, levels, visiting, maxLevel, order, result>>
  BY DEF vars
<1>2. Outcome' /\ Fresh'
  BY <1>1, SameNodes DEF IInv, Outcome, Fresh, Order
<1>3. result' \in Results /\ order' \in Seq(Name)
  BY <1>1 DEF IInv, TypeOK
<1> QED BY <1>1, <1>2, <1>3, SameSearch DEF IInv

\* The inductive invariant holds of every list Levels may be given.
THEOREM InductiveInvariant == NodeLists \subseteq Seq(NodeSet) => (Spec => []IInv)
<1>1. IInv /\ [Next]_vars => IInv'
  BY StepIInv, StutterIInv DEF Next, Terminated
<1> QED BY <1>1, InitIInv, PTL DEF Spec

-----------------------------------------------------------------------------
\* What the memo table says once it is complete.
LEMMA TableFacts ==
    ASSUME IInv, NEW n \in Known(nodes), levels[n] # NoLevel, ~HasDuplicate(nodes)
    PROVE  /\ n \in Name /\ levels[n] \in Nat
           /\ \A m \in DepsIn(nodes, n) : /\ m \in Known(nodes) /\ levels[m] # NoLevel
                                         /\ levels[m] \in Nat /\ levels[m] < levels[n]
           /\ levels[n] # 0 => \E m \in DepsIn(nodes, n) : levels[n] = levels[m] + 1
<1>1. nodes \in Seq(NodeSet) /\ levels \in [Name -> Nat \cup {NoLevel}]
  BY DEF IInv, TypeOK
<1>2. /\ n \in Name /\ Depends(n) \in Seq(Name)
      /\ DepsIn(nodes, n) = {Depends(n)[d] : d \in DOMAIN Depends(n)}
  BY <1>1, IndexFacts
<1>3. LevelOf(n) /\ levels[n] \in Nat
  BY <1>1, <1>2 DEF IInv, Memo
<1>4. ASSUME NEW m \in DepsIn(nodes, n)
      PROVE  /\ m \in Known(nodes) /\ levels[m] # NoLevel /\ levels[m] \in Nat
             /\ levels[m] < levels[n]
  <2>1. PICK d \in DOMAIN Depends(n) : m = Depends(n)[d]
    BY <1>2
  <2>2. levels[m] # NoLevel /\ levels[m] < levels[n] /\ m \in Name
    BY <1>2, <1>3, <2>1 DEF LevelOf
  <2>3. m \in Known(nodes)
    BY <2>2 DEF IInv, Memo, LevelOf
  <2> QED BY <1>1, <2>2, <2>3
<1>5. levels[n] # 0 => \E m \in DepsIn(nodes, n) : levels[n] = levels[m] + 1
  BY <1>2, <1>3 DEF LevelOf
<1> QED BY <1>2, <1>3, <1>4, <1>5

\* When Levels succeeds every node has its level, none above maxLevel.
LEMMA AllLevels ==
    ASSUME IInv, result = "ok"
    PROVE  /\ ~HasDuplicate(nodes)
           /\ \A x \in DOMAIN nodes :
                levels[nodes[x].name] \in Nat /\ levels[nodes[x].name] <= maxLevel
           /\ \A n \in Known(nodes) : levels[n] # NoLevel
<1>1. /\ nodes \in Seq(NodeSet) /\ levels \in [Name -> Nat \cup {NoLevel}] /\ top > Len(nodes)
      /\ top \in Nat /\ Len(nodes) \in Nat /\ DOMAIN nodes = 1..Len(nodes)
  BY DEF IInv, TypeOK, Outcome
<1>2. \A x \in DOMAIN nodes : x < top
  BY <1>1
<1>3. ~HasDuplicate(nodes)
  BY <1>1 DEF IInv
<1>4. \A x \in DOMAIN nodes : /\ levels[nodes[x].name] # NoLevel
                              /\ levels[nodes[x].name] <= maxLevel
                              /\ nodes[x].name \in Name
  BY <1>1, <1>2, NodeFacts DEF IInv, Passed
<1> QED BY <1>1, <1>3, <1>4 DEF Known

\* In a set of nodes that all depend into the set one would have the lowest level
\* and a dependency of a lower one.
LEMMA NoCycle == ASSUME IInv, result = "ok" PROVE ~HasCycle(nodes)
<1> SUFFICES ASSUME NEW C \in (SUBSET Known(nodes)) \ {{}},
                    \A m \in C : DepsIn(nodes, m) \cap C # {}
             PROVE  FALSE
  BY Zenon DEF HasCycle
<1> DEFINE T == {levels[n] : n \in C}
<1>1. T \in SUBSET Nat /\ T # {}
  BY AllLevels, TableFacts
<1>2. PICK l \in T : \A k \in T : l <= k
  <2> HIDE DEF T
  <2> QED BY <1>1, MinOfNat
<1>3. PICK n \in C : l = levels[n]
  BY <1>2
<1>4. PICK m \in C : m \in DepsIn(nodes, n)
  BY <1>3
<1>5. levels[m] < levels[n] /\ levels[m] \in Nat /\ levels[n] \in Nat
  BY <1>3, <1>4, AllLevels, TableFacts
<1>6. l <= levels[m]
  BY <1>2, <1>4
<1> QED BY <1>3, <1>5, <1>6

LEMMA NoUnknown == ASSUME IInv, result = "ok" PROVE ~HasUnknown(nodes)
BY AllLevels, TableFacts DEF HasUnknown

LEMMA ErrorsRight == IInv => ErrorsAreRight
<1> SUFFICES ASSUME IInv PROVE ErrorsAreRight
  OBVIOUS
<1>1. result = "ok" => ~HasDuplicate(nodes) /\ ~HasUnknown(nodes) /\ ~HasCycle(nodes)
  BY AllLevels, NoUnknown, NoCycle
<1> QED BY <1>1 DEF IInv, Outcome, ErrorsAreRight

LEMMA LongestChains == IInv => LevelsAreLongestChains
<1> SUFFICES ASSUME IInv, NEW n \in Known(nodes), levels[n] # NoLevel
             PROVE  LET deps == DepsIn(nodes, n) IN
                    /\ deps = {} => levels[n] = 0
                    /\ \A m \in deps : levels[m] # NoLevel /\ levels[m] < levels[n]
                    /\ deps # {} => \E m \in deps : levels[n] = levels[m] + 1
  BY DEF LevelsAreLongestChains
<1>1. nodes \in Seq(NodeSet)
  BY DEF IInv, TypeOK
<1>2. n \in Name
  BY <1>1, NodeFacts DEF Known
<1>3. ~HasDuplicate(nodes)
  BY <1>2 DEF IInv, Fresh
<1>4. DepsIn(nodes, n) # {} => levels[n] # 0
  <2> SUFFICES ASSUME NEW m \in DepsIn(nodes, n), levels[n] = 0 PROVE FALSE
    OBVIOUS
  <2>1. levels[m] \in Nat /\ levels[m] < levels[n]
    BY <1>3, TableFacts
  <2> QED BY <2>1
<1> QED BY <1>3, <1>4, TableFacts

\* The order is the nodes at some positions, each once, as the level and then the
\* position say.
LEMMA OrderRight == IInv => OrderIsStableAndTopological
<1> SUFFICES ASSUME IInv, result = "ok"
             PROVE  /\ Len(order) = Len(nodes) /\ ToSet(order) = Known(nodes)
                    /\ \A i, k \in DOMAIN order : i < k =>
                        /\ order[k] \notin DepsIn(nodes, order[i])
                        /\ \/ levels[order[i]] < levels[order[k]]
                           \/ /\ levels[order[i]] = levels[order[k]]
                              /\ Index(order[i]) < Index(order[k])
  BY DEF OrderIsStableAndTopological
<1> DEFINE s == ByLevel(nodes, levels, maxLevel)
           D == DOMAIN nodes
<1>1. /\ nodes \in Seq(NodeSet) /\ maxLevel \in Nat
      /\ order = [x \in DOMAIN s |-> s[x].name]
      /\ Len(nodes) \in Nat /\ D = 1..Len(nodes)
  BY DEF IInv, TypeOK, Outcome, Order
<1>2. Under(nodes, levels, maxLevel + 1) = D
  <2>1. \A x \in D : levels[nodes[x].name] \in 0..((maxLevel + 1) - 1)
    BY <1>1, AllLevels
  <2> QED BY <2>1 DEF Under
<1>3. s \in Seq(NodeSet) /\ IsByLevel(s, nodes, levels, D)
  BY <1>1, <1>2, ByLevelFacts
<1> HIDE DEF s
<1>4. PICK pos \in [1..Len(s) -> D] :
        /\ \A y, z \in 1..Len(s) : y < z =>
              \/ levels[nodes[pos[y]].name] < levels[nodes[pos[z]].name]
              \/ levels[nodes[pos[y]].name] = levels[nodes[pos[z]].name] /\ pos[y] < pos[z]
        /\ \A x \in D : \E y \in 1..Len(s) : pos[y] = x
        /\ \A y \in 1..Len(s) : s[y] = nodes[pos[y]]
  BY <1>3 DEF IsByLevel
<1>5. /\ Len(s) \in Nat /\ DOMAIN s = 1..Len(s) /\ DOMAIN order = 1..Len(s)
      /\ Len(order) = Len(s)
  BY <1>1, <1>3
<1>6. \A y \in 1..Len(s) : /\ order[y] = nodes[pos[y]].name /\ order[y] \in Known(nodes)
                           /\ Index(order[y]) = pos[y] /\ levels[order[y]] \in Nat
  <2> SUFFICES ASSUME NEW y \in 1..Len(s)
               PROVE  /\ order[y] = nodes[pos[y]].name /\ order[y] \in Known(nodes)
                      /\ Index(order[y]) = pos[y] /\ levels[order[y]] \in Nat
    OBVIOUS
  <2>1. order[y] = nodes[pos[y]].name /\ pos[y] \in D
    BY <1>1, <1>4, <1>5
  <2>2. order[y] \in Known(nodes)
    BY <1>1, <2>1, NodeFacts
  <2>3. Index(order[y]) = pos[y]
    BY <1>1, <2>1, <2>2, AllLevels, IndexFacts
  <2> QED BY <2>1, <2>2, <2>3, AllLevels
<1>7. ASSUME NEW i \in DOMAIN order, NEW k \in DOMAIN order, i < k
      PROVE  /\ order[k] \notin DepsIn(nodes, order[i])
             /\ \/ levels[order[i]] < levels[order[k]]
                \/ levels[order[i]] = levels[order[k]] /\ Index(order[i]) < Index(order[k])
  <2>1. \/ levels[order[i]] < levels[order[k]]
        \/ levels[order[i]] = levels[order[k]] /\ Index(order[i]) < Index(order[k])
    BY <1>4, <1>5, <1>6, <1>7
  <2>2. order[k] \in DepsIn(nodes, order[i]) => levels[order[k]] < levels[order[i]]
    BY <1>5, <1>6, AllLevels, TableFacts
  <2>3. levels[order[i]] \in Nat /\ levels[order[k]] \in Nat
    BY <1>5, <1>6
  <2> QED BY <2>1, <2>2, <2>3
<1>8. ToSet(order) = Known(nodes)
  <2>1. \A n \in Known(nodes) : \E y \in DOMAIN order : order[y] = n
    <3> SUFFICES ASSUME NEW n \in Known(nodes) PROVE \E y \in DOMAIN order : order[y] = n
      OBVIOUS
    <3>1. PICK x \in D : nodes[x].name = n
      BY DEF Known
    <3>2. PICK y \in 1..Len(s) : pos[y] = x
      BY <1>4
    <3> QED BY <1>5, <1>6, <3>1, <3>2
  <2>2. ToSet(order) = {order[y] : y \in DOMAIN order}
    BY DEF ToSet
  <2> QED BY <1>5, <1>6, <2>1, <2>2
<1>9. Len(order) = Len(nodes)
  <2>1. \A y, z \in 1..Len(s) : pos[y] = pos[z] => y = z
    <3>1. \A y, z \in 1..Len(s) : y < z => pos[y] # pos[z]
      <4> SUFFICES ASSUME NEW y \in 1..Len(s), NEW z \in 1..Len(s), y < z PROVE pos[y] # pos[z]
        OBVIOUS
      <4>1. levels[nodes[pos[y]].name] \in Nat /\ pos[y] \in Nat
        BY <1>1, <1>4, AllLevels
      <4> QED BY <1>4, <4>1
    <3>2. \A y, z \in 1..Len(s) : y = z \/ y < z \/ z < y
      <4> DEFINE n == Len(s)
      <4>1. n \in Nat
        BY <1>5
      <4> HIDE DEF n
      <4>2. \A y, z \in 1..n : y = z \/ y < z \/ z < y
        BY <4>1
      <4> QED BY <4>2 DEF n
    <3> QED BY <3>1, <3>2
  <2>2. pos \in Bijection(1..Len(s), D)
    BY <1>4, <2>1 DEF Bijection, Injection, Surjection, IsInjective
  <2>3. ExistsBijection(1..Len(s), 1..Len(nodes))
    BY <1>1, <2>2 DEF ExistsBijection
  <2>4. Cardinality(1..Len(s)) = Cardinality(1..Len(nodes)) /\ IsFiniteSet(1..Len(s))
    BY <1>5, <2>3, FS_Interval, FS_Bijection
  <2>5. \A n \in Nat : Cardinality(1..n) = n
    BY FS_Interval
  <2> QED BY <1>1, <1>5, <2>4, <2>5
<1> QED BY <1>7, <1>8, <1>9
=============================================================================
