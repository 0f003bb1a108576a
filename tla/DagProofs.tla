------------------------------ MODULE DagProofs ------------------------------
(***************************************************************************)
(* Lemmas about the operators of Dag, and about sequences and recursive    *)
(* functions, that the proofs about Levels and about the parsers rest on.  *)
(***************************************************************************)
EXTENDS Dag, FiniteSetTheorems, WellFoundedInduction, TLAPS

\* Every non-empty set of numbers has a least one.
LEMMA MinOfNat ==
    ASSUME NEW T \in SUBSET Nat, T # {}
    PROVE \E m \in T : \A n \in T : m <= n
<1> DEFINE R == StrictSubsetOrdering(Nat)
           F == FiniteSubsetsOf(Nat)
           D == {0..n : n \in T}
<1>1. IsWellFoundedOn(R, F)
  BY FS_StrictSubsetOrderingWellFounded
<1>2. \A n \in T : 0..n \in F
  BY FS_Interval DEF FiniteSubsetsOf
<1>3. D \subseteq F /\ D # {}
  BY <1>2
<1>4. \E x \in D : \A y \in D : ~(<<y, x>> \in R)
  <2> HIDE DEF R, F, D
  <2> QED BY <1>1, <1>3, WFMin
<1>5. PICK m \in T : \A n \in T : ~(<<0..n, 0..m>> \in R)
  BY <1>4
<1>6. ASSUME NEW n \in T, n < m PROVE FALSE
  <2>1. 0..n \subseteq 0..m /\ m \in 0..m /\ m \notin 0..n
    BY <1>6
  <2>2. 0..n \in SUBSET Nat /\ 0..m \in SUBSET Nat
    OBVIOUS
  <2>3. 0..n # 0..m BY <2>1
  <2>4. <<0..n, 0..m>> \in StrictSubsetOrdering(Nat)
     BY <2>1, <2>2, <2>3 DEF StrictSubsetOrdering
  <2> QED BY <2>4, <1>5
<1> QED BY <1>5, <1>6

\* What holds of 0 and goes from each number to the next holds of all: induction
\* over a set.
LEMMA NatInd ==
    ASSUME NEW T \in SUBSET Nat, 0 \in T, \A n \in Nat : n \in T => n + 1 \in T
    PROVE  T = Nat
<1> SUFFICES ASSUME Nat \ T # {} PROVE FALSE
  OBVIOUS
<1>1. PICK m \in Nat \ T : \A n \in Nat \ T : m <= n
  BY MinOfNat
<1>2. m # 0 /\ m - 1 \in Nat
  BY <1>1
<1>3. m - 1 \in T
  BY <1>1, <1>2
<1>4. (m - 1) + 1 = m
  BY <1>1
<1> QED BY <1>1, <1>2, <1>3, <1>4

\* s is the nodes at the positions K, in order.
IsThose(s, ns, K) ==
    \E pos \in [1..Len(s) -> K] :
        /\ \A y, z \in 1..Len(s) : y < z => pos[y] < pos[z]
        /\ \A x \in K : \E y \in 1..Len(s) : pos[y] = x
        /\ \A y \in 1..Len(s) : s[y] = ns[pos[y]]

LEMMA AppendThose ==
    ASSUME NEW S, NEW ns \in Seq(S), NEW s \in Seq(S), NEW n \in 1..Len(ns), NEW K \in SUBSET (1..(n-1)),
           IsThose(s, ns, K)
    PROVE  IsThose(Append(s, ns[n]), ns, K \cup {n})
<1> DEFINE t == Append(s, ns[n])
<1>1. PICK pos \in [1..Len(s) -> K] :
        /\ \A y, z \in 1..Len(s) : y < z => pos[y] < pos[z]
        /\ \A x \in K : \E y \in 1..Len(s) : pos[y] = x
        /\ \A y \in 1..Len(s) : s[y] = ns[pos[y]]
  BY DEF IsThose
<1>2. Len(s) \in Nat /\ n \in Nat /\ Len(t) = Len(s) + 1 /\ t[Len(s) + 1] = ns[n] /\ \A y \in 1..Len(s) : t[y] = s[y]
  OBVIOUS
<1> HIDE DEF t
<1> DEFINE q == [y \in 1..Len(t) |-> IF y <= Len(s) THEN pos[y] ELSE n]
<1>3. q \in [1..Len(t) -> K \cup {n}]
  BY <1>2
<1>4. /\ \A y \in 1..Len(s) : q[y] = pos[y] /\ q[y] \in K
      /\ q[Len(s) + 1] = n
  <2>1. \A y \in 1..Len(t) : q[y] = IF y <= Len(s) THEN pos[y] ELSE n
    OBVIOUS
  <2> HIDE DEF q
  <2>2. \A y \in 1..Len(s) : y \in 1..Len(t) /\ y <= Len(s)
    BY <1>2
  <2>3. Len(s) + 1 \in 1..Len(t) /\ ~(Len(s) + 1 <= Len(s))
    BY <1>2
  <2> QED BY <2>1, <2>2, <2>3
<1> HIDE DEF q
<1>5. ASSUME NEW y \in 1..Len(t), NEW z \in 1..Len(t), y < z PROVE q[y] < q[z]
  <2>0. y \in 1..Len(s)
    BY <1>2, <1>5
  <2>1. y \in 1..Len(s) /\ q[y] = pos[y] /\ q[y] \in 1..(n - 1)
    BY <1>4, <2>0
  <2>2. CASE z = Len(s) + 1
    BY <1>2, <1>4, <2>1, <2>2
  <2>3. CASE z # Len(s) + 1
    <3>1. z \in 1..Len(s)
      BY <1>2, <2>3
    <3> QED BY <1>1, <1>4, <1>5, <2>1, <3>1
  <2> QED BY <2>2, <2>3
<1>6. \A x \in K \cup {n} : \E y \in 1..Len(t) : q[y] = x
  <2>1. 1..Len(s) \subseteq 1..Len(t) /\ Len(s) + 1 \in 1..Len(t)
    BY <1>2
  <2> QED BY <1>1, <1>4, <2>1
<1>7. \A y \in 1..Len(t) : t[y] = ns[q[y]]
  <2>1. \A y \in 1..Len(t) : y \in 1..Len(s) \/ y = Len(s) + 1
    BY <1>2
  <2> QED BY <1>1, <1>2, <1>4, <2>1
<1> QED BY <1>3, <1>5, <1>6, <1>7 DEF IsThose, t

LEMMA ThoseFacts ==
    ASSUME NEW S, NEW ns \in Seq(S), NEW K \in SUBSET DOMAIN ns
    PROVE  Those(ns, K) \in Seq(S) /\ IsThose(Those(ns, K), ns, K)
<1> DEFINE N == Len(ns)
           Following(f, n) == IF n = 0 THEN <<>>
                              ELSE IF n \in K THEN Append(f[n - 1], ns[n]) ELSE f[n - 1]
           Good(m) == \E f \in [0..m -> Seq(S)] :
                          /\ \A n \in 0..m : f[n] = Following(f, n)
                          /\ \A n \in 0..m : IsThose(f[n], ns, K \cap 1..n)
           T == {m \in Nat : m <= N => Good(m)}
<1>1. N \in Nat /\ DOMAIN ns = 1..N
  OBVIOUS
<1>2. 0 \in T
  <2> DEFINE f == [n \in {0} |-> <<>>]
  <2>1. f \in [0..0 -> Seq(S)] /\ \A n \in 0..0 : n = 0 /\ f[n] = <<>>
    OBVIOUS
  <2>2. IsThose(<<>>, ns, {})
    <3> DEFINE p == [y \in {} |-> y]
    <3>1. 1..Len(<<>>) = {} /\ p \in [{} -> {}]
      OBVIOUS
    <3> HIDE DEF p
    <3>2. \E pos \in [{} -> {}] : TRUE
      BY <3>1
    <3> QED BY <3>1, <3>2 DEF IsThose
  <2>3. K \cap 1..0 = {}
    OBVIOUS
  <2>4. f[0] = <<>> /\ 0..0 = {0}
    OBVIOUS
  <2>5. Good(0)
    <3> HIDE DEF f
    <3>1. \A n \in 0..0 : f[n] = Following(f, n)
      BY <2>1
    <3>2. \A n \in 0..0 : IsThose(f[n], ns, K \cap 1..n)
      BY <2>1, <2>2, <2>3
    <3> HIDE DEF Following
    <3> QED BY <2>1, <3>1, <3>2
  <2> QED BY <2>5
<1>3. ASSUME NEW m \in Nat, m \in T
      PROVE  m + 1 \in T
  <2> SUFFICES ASSUME m + 1 <= N PROVE Good(m + 1)
    <3> HIDE DEF Good
    <3> QED OBVIOUS
  <2>0. Good(m)
    <3> HIDE DEF Good
    <3> QED BY <1>1, <1>3
  <2>1. PICK f \in [0..m -> Seq(S)] : /\ \A n \in 0..m : f[n] = Following(f, n)
                                      /\ \A n \in 0..m : IsThose(f[n], ns, K \cap 1..n)
    BY <2>0
  <2> DEFINE e == IF m + 1 \in K THEN Append(f[m], ns[m + 1]) ELSE f[m]
             g == [n \in 0..(m + 1) |-> IF n <= m THEN f[n] ELSE e]
  <2>2. ns[m + 1] \in S /\ f[m] \in Seq(S) /\ m + 1 \in 1..N
    BY <1>1
  <2>3. e \in Seq(S)
    BY <2>2
  <2>8. \A x : x \in 1..(m + 1) <=> x \in 1..m \/ x = m + 1
    BY <1>3
  <2>4. IsThose(e, ns, K \cap 1..(m + 1))
    <3>1. IsThose(f[m], ns, K \cap 1..m)
      BY <2>1
    <3>2. CASE m + 1 \in K
      <4>1. K \cap 1..(m + 1) = (K \cap 1..m) \cup {m + 1}
        BY <3>2, <2>8
      <4>2. K \cap 1..m \in SUBSET (1..((m + 1) - 1))
        OBVIOUS
      <4>3. IsThose(Append(f[m], ns[m + 1]), ns, (K \cap 1..m) \cup {m + 1})
        BY <1>1, <2>2, <3>1, <4>2, AppendThose
      <4> QED BY <3>2, <4>1, <4>3
    <3>3. CASE m + 1 \notin K
      <4>1. K \cap 1..(m + 1) = K \cap 1..m
        BY <3>3, <2>8
      <4> QED BY <3>1, <3>3, <4>1
    <3> QED BY <3>2, <3>3
  <2>5. g \in [0..(m + 1) -> Seq(S)] /\ (\A n \in 0..m : g[n] = f[n]) /\ g[m + 1] = e
    <3> HIDE DEF e
    <3> QED BY <2>3
  <2>6. \A n \in 0..(m + 1) : g[n] = Following(g, n)
    <3>1. ASSUME NEW n \in 0..m PROVE g[n] = Following(g, n)
      <4> HIDE DEF g
      <4>1. n # 0 => n - 1 \in 0..m
        OBVIOUS
      <4> QED BY <2>1, <2>5, <4>1
    <3>2. g[m + 1] = Following(g, m + 1)
      <4> HIDE DEF g
      <4>1. (m + 1) - 1 = m /\ m + 1 # 0 /\ m \in 0..m
        OBVIOUS
      <4> QED BY <2>5, <4>1
    <3> HIDE DEF g, Following
    <3> QED BY <3>1, <3>2
  <2>7. \A n \in 0..(m + 1) : IsThose(g[n], ns, K \cap 1..n)
    <3> HIDE DEF g, e
    <3>1. \A n \in 0..(m + 1) : n \in 0..m \/ n = m + 1
      OBVIOUS
    <3> QED BY <2>1, <2>4, <2>5, <3>1
  <2> HIDE DEF g, e, Following
  <2> QED BY <2>5, <2>6, <2>7
<1>4. Good(N)
  <2> HIDE DEF Good
  <2>1. T = Nat
    BY <1>2, <1>3, NatInd
  <2> QED BY <1>1, <2>1
<1>5. PICK f \in [0..N -> Seq(S)] : /\ \A n \in 0..N : f[n] = Following(f, n)
                                    /\ \A n \in 0..N : IsThose(f[n], ns, K \cap 1..n)
  BY <1>4
<1>6. f = [n \in 0..N |-> Following(f, n)]
  BY <1>5
<1> DEFINE h == CHOOSE h : h = [n \in 0..N |-> Following(h, n)]
<1>7. h = [n \in 0..N |-> Following(h, n)]
  <2> HIDE DEF Following
  <2> QED BY <1>6
<1>8. h = f
  <2> DEFINE U == {n \in Nat : n <= N => h[n] = f[n]}
  <2> HIDE DEF h
  <2>1. 0 \in U
    BY <1>1, <1>5, <1>7
  <2>2. ASSUME NEW n \in Nat, n \in U PROVE n + 1 \in U
    <3> SUFFICES ASSUME n + 1 <= N PROVE h[n + 1] = f[n + 1]
      OBVIOUS
    <3>1. h[n] = f[n] /\ n + 1 \in 0..N /\ (n + 1) - 1 = n /\ n + 1 # 0
      BY <1>1, <2>2
    <3>2. h[n + 1] = Following(h, n + 1) /\ f[n + 1] = Following(f, n + 1)
      <4> HIDE DEF Following
      <4> QED BY <1>5, <1>7, <3>1
    <3> QED BY <3>1, <3>2
  <2>3. U = Nat
    <3> HIDE DEF U
    <3> QED BY <2>1, <2>2, NatInd DEF U
  <2>4. \A n \in 0..N : h[n] = f[n]
    BY <1>1, <2>3
  <2>5. h = [n \in 0..N |-> h[n]]
     BY <1>7
  <2>6. f = [n \in 0..N |-> f[n]]
     OBVIOUS
  <2> HIDE DEF U
  <2> QED BY <2>4, <2>5, <2>6
<1>9. Those(ns, K) = h[N]
  BY DEF Those
<1>10. K \cap 1..N = K
  BY <1>1
<1> HIDE DEF h
<1> QED BY <1>1, <1>5, <1>8, <1>9, <1>10

\* s is the nodes at the positions K, by ascending level and in order within one.
IsByLevel(s, ns, level, K) ==
    \E pos \in [1..Len(s) -> K] :
        /\ \A y, z \in 1..Len(s) : y < z =>
              \/ level[ns[pos[y]].name] < level[ns[pos[z]].name]
              \/ level[ns[pos[y]].name] = level[ns[pos[z]].name] /\ pos[y] < pos[z]
        /\ \A x \in K : \E y \in 1..Len(s) : pos[y] = x
        /\ \A y \in 1..Len(s) : s[y] = ns[pos[y]]

Under(ns, level, l) == {x \in DOMAIN ns : level[ns[x].name] \in 0..(l - 1)}
At(ns, level, l) == {x \in DOMAIN ns : level[ns[x].name] = l}

LEMMA AppendLevel ==
    ASSUME NEW S, NEW ns \in Seq(S), NEW level, NEW l \in Nat,
           NEW s \in Seq(S), NEW t \in Seq(S),
           IsByLevel(s, ns, level, Under(ns, level, l)), IsThose(t, ns, At(ns, level, l))
    PROVE  IsByLevel(s \o t, ns, level, Under(ns, level, l + 1))
<1> DEFINE L(x) == level[ns[x].name]
           U == Under(ns, level, l)
           A == At(ns, level, l)
           V == Under(ns, level, l + 1)
           r == s \o t
           a == Len(s)
           b == Len(t)
<1>1. PICK p \in [1..a -> U] :
        /\ \A y, z \in 1..a : y < z =>
                L(p[y]) < L(p[z]) \/ (L(p[y]) = L(p[z]) /\ p[y] < p[z])
        /\ \A x \in U : \E y \in 1..a : p[y] = x
        /\ \A y \in 1..a : s[y] = ns[p[y]]
  BY DEF IsByLevel
<1>2. PICK q \in [1..b -> A] :
        /\ \A y, z \in 1..b : y < z => q[y] < q[z]
        /\ \A x \in A : \E y \in 1..b : q[y] = x
        /\ \A y \in 1..b : t[y] = ns[q[y]]
  BY DEF IsThose
<1>3. /\ a \in Nat /\ b \in Nat /\ Len(r) = a + b
      /\ \A y \in 1..a : r[y] = s[y]
      /\ \A y \in 1..b : r[a + y] = t[y]
  OBVIOUS
<1>4. /\ \A x \in U : L(x) \in Int /\ L(x) < l
      /\ \A x \in A : L(x) = l
  BY DEF Under, At
<1>5. V = U \cup A
  <2>1. \A v : v \in 0..((l + 1) - 1) <=> v \in 0..(l - 1) \/ v = l
    OBVIOUS
  <2> QED BY <2>1 DEF Under, At
<1> DEFINE o == [y \in 1..(a + b) |-> IF y <= a THEN p[y] ELSE q[y - a]]
<1>6. \A y \in 1..(a + b) : (y \in 1..a /\ y <= a) \/ (y - a \in 1..b /\ ~(y <= a) /\ y = a + (y - a))
  BY <1>3
<1>7. \A y \in 1..a : y \in 1..(a + b) /\ o[y] = p[y] /\ o[y] \in U
  <2>1. \A y \in 1..a : y \in 1..(a + b) /\ y <= a
    BY <1>3
  <2> QED BY <2>1
<1>8. \A y \in 1..b : a + y \in 1..(a + b) /\ o[a + y] = q[y] /\ o[a + y] \in A
  <2>1. \A y \in 1..b : a + y \in 1..(a + b) /\ ~(a + y <= a) /\ (a + y) - a = y
    BY <1>3
  <2> QED BY <2>1
<1>9. \A y \in 1..(a + b) : y \in 1..a \/ \E z \in 1..b : y = a + z
  BY <1>6
<1>10. o \in [1..(a + b) -> V]
  <2>1. \A y \in 1..(a + b) : o[y] \in V
    <3> HIDE DEF o
    <3> QED BY <1>5, <1>7, <1>8, <1>9
  <2>2. o = [y \in 1..(a + b) |-> o[y]]
    OBVIOUS
  <2> HIDE DEF o
  <2> QED BY <2>1, <2>2
<1> HIDE DEF o
<1>11. ASSUME NEW y \in 1..(a + b), NEW z \in 1..(a + b), y < z
       PROVE  L(o[y]) < L(o[z]) \/ (L(o[y]) = L(o[z]) /\ o[y] < o[z])
  <2> HIDE DEF L
  <2>1. CASE z \in 1..a
    <3>1. y \in 1..a
      BY <1>3, <1>11, <2>1
    <3> QED BY <1>1, <1>7, <1>11, <2>1, <3>1
  <2>2. ASSUME NEW w \in 1..b, z = a + w, y \in 1..a PROVE L(o[y]) < L(o[z])
    <3>1. L(o[y]) \in Int /\ L(o[y]) < l
      BY <1>4, <1>7, <2>2
    <3>2. L(o[z]) = l
      BY <1>4, <1>8, <2>2
    <3> QED BY <3>1, <3>2
  <2>3. ASSUME NEW w \in 1..b, z = a + w, NEW v \in 1..b, y = a + v
        PROVE  L(o[y]) = L(o[z]) /\ o[y] < o[z]
    <3>1. v < w
      BY <1>3, <1>11, <2>3
    <3>2. o[y] = q[v] /\ o[z] = q[w] /\ o[y] \in A /\ o[z] \in A
      BY <1>8, <2>3
    <3>3. q[v] < q[w]
      BY <1>2, <3>1
    <3> QED BY <1>4, <3>2, <3>3
  <2> QED BY <1>9, <2>1, <2>2, <2>3
<1>12. \A x \in V : \E y \in 1..(a + b) : o[y] = x
  <2> HIDE DEF a, b, U, A, V, L
  <2>1. ASSUME NEW x \in U PROVE \E y \in 1..(a + b) : o[y] = x
    <3>1. PICK y \in 1..a : p[y] = x
      BY <1>1
    <3> QED BY <1>7, <3>1
  <2>2. ASSUME NEW x \in A PROVE \E y \in 1..(a + b) : o[y] = x
    <3>1. PICK y \in 1..b : q[y] = x
      BY <1>2
    <3> QED BY <1>8, <3>1
  <2> QED BY <1>5, <2>1, <2>2
<1>13. \A y \in 1..(a + b) : r[y] = ns[o[y]]
  <2> HIDE DEF a, b, r, U, A, L
  <2>1. \A y \in 1..a : r[y] = ns[o[y]]
    BY <1>1, <1>3, <1>7
  <2>2. ASSUME NEW y \in 1..b PROVE r[a + y] = ns[o[a + y]]
    <3>1. r[a + y] = t[y] /\ t[y] = ns[q[y]]
      BY <1>2, <1>3
    <3>2. o[a + y] = q[y]
      BY <1>8
    <3> QED BY <3>1, <3>2
  <2> SUFFICES ASSUME NEW y \in 1..(a + b) PROVE r[y] = ns[o[y]]
    OBVIOUS
  <2>3. CASE y \in 1..a
    BY <2>1, <2>3
  <2>4. CASE \E z \in 1..b : y = a + z
    BY <2>2, <2>4
  <2> QED BY <1>9, <2>3, <2>4
<1>14. IsByLevel(r, ns, level, V)
  <2> HIDE DEF r, a, b, V, U, A
  <2>1. 1..Len(r) = 1..(a + b)
    BY <1>3
  <2>2. \A y, z \in 1..Len(r) : y < z => L(o[y]) < L(o[z]) \/ (L(o[y]) = L(o[z]) /\ o[y] < o[z])
    <3> HIDE DEF L
    <3> QED BY <1>11, <2>1
  <2>3. o \in [1..Len(r) -> V]
    BY <1>10, <2>1
  <2>4. /\ \A x \in V : \E y \in 1..Len(r) : o[y] = x
        /\ \A y \in 1..Len(r) : r[y] = ns[o[y]]
    BY <1>12, <1>13, <2>1
  <2> QED BY <2>2, <2>3, <2>4, Zenon DEF IsByLevel
<1> HIDE DEF r, V
<1> QED BY <1>14 DEF r, V

LEMMA ByLevelFacts ==
    ASSUME NEW S, NEW ns \in Seq(S), NEW level, NEW max \in Nat
    PROVE  /\ ByLevel(ns, level, max) \in Seq(S)
           /\ IsByLevel(ByLevel(ns, level, max), ns, level, Under(ns, level, max + 1))
<1> DEFINE N == max + 1
           Below(f, n) == IF n = 0 THEN <<>>
                          ELSE f[n - 1] \o Those(ns, {x \in DOMAIN ns : level[ns[x].name] = n - 1})
           U(n) == Under(ns, level, n)
           Good(m) == \E f \in [0..m -> Seq(S)] :
                          /\ \A n \in 0..m : f[n] = Below(f, n)
                          /\ \A n \in 0..m : IsByLevel(f[n], ns, level, U(n))
           T == {m \in Nat : m <= N => Good(m)}
<1>1. N \in Nat
  OBVIOUS
<1>2. 0 \in T
  <2> DEFINE f == [n \in {0} |-> <<>>]
  <2>1. f \in [0..0 -> Seq(S)] /\ \A n \in 0..0 : n = 0 /\ f[n] = <<>>
    OBVIOUS
  <2>2. U(0) = {}
    <3>1. 0..(0 - 1) = {}
      OBVIOUS
    <3> QED BY <3>1 DEF Under
  <2>3. IsByLevel(<<>>, ns, level, {})
    <3> DEFINE p == [y \in {} |-> y]
    <3>1. 1..Len(<<>>) = {} /\ p \in [{} -> {}]
      OBVIOUS
    <3> HIDE DEF p
    <3>2. \E pos \in [{} -> {}] : TRUE
      BY <3>1
    <3> QED BY <3>1, <3>2 DEF IsByLevel
  <2>4. Good(0)
    <3> HIDE DEF f, U
    <3>1. \A n \in 0..0 : f[n] = Below(f, n)
      BY <2>1
    <3>2. \A n \in 0..0 : IsByLevel(f[n], ns, level, U(n))
      BY <2>1, <2>2, <2>3
    <3> HIDE DEF Below
    <3> QED BY <2>1, <3>1, <3>2
  <2> QED BY <2>4
<1>3. ASSUME NEW m \in Nat, m \in T
      PROVE  m + 1 \in T
  <2> SUFFICES ASSUME m + 1 <= N PROVE Good(m + 1)
    <3> HIDE DEF Good
    <3> QED OBVIOUS
  <2>0. Good(m)
    <3> HIDE DEF Good
    <3> QED BY <1>1, <1>3
  <2>1. PICK f \in [0..m -> Seq(S)] : /\ \A n \in 0..m : f[n] = Below(f, n)
                                      /\ \A n \in 0..m : IsByLevel(f[n], ns, level, U(n))
    BY <2>0
  <2> DEFINE K == {x \in DOMAIN ns : level[ns[x].name] = m}
             e == f[m] \o Those(ns, K)
             g == [n \in 0..(m + 1) |-> IF n <= m THEN f[n] ELSE e]
  <2>2. f[m] \in Seq(S) /\ Those(ns, K) \in Seq(S) /\ IsThose(Those(ns, K), ns, K)
    <3>1. K \in SUBSET DOMAIN ns
      OBVIOUS
    <3> HIDE DEF K
    <3> QED BY <3>1, ThoseFacts
  <2>3. e \in Seq(S)
    <3> HIDE DEF K
    <3> QED BY <2>2
  <2>4. IsByLevel(e, ns, level, U(m + 1))
    <3>1. IsByLevel(f[m], ns, level, U(m))
      BY <2>1
    <3>2. K = At(ns, level, m)
      BY DEF At
    <3> HIDE DEF K
    <3> QED BY <2>2, <3>1, <3>2, AppendLevel
  <2>5. g \in [0..(m + 1) -> Seq(S)] /\ (\A n \in 0..m : g[n] = f[n]) /\ g[m + 1] = e
    <3> HIDE DEF e
    <3> QED BY <2>3
  <2>6. \A n \in 0..(m + 1) : g[n] = Below(g, n)
    <3>1. ASSUME NEW n \in 0..m PROVE g[n] = Below(g, n)
      <4> HIDE DEF g
      <4>1. n # 0 => n - 1 \in 0..m
        OBVIOUS
      <4> QED BY <2>1, <2>5, <4>1
    <3>2. g[m + 1] = Below(g, m + 1)
      <4> HIDE DEF g
      <4>1. (m + 1) - 1 = m /\ m + 1 # 0 /\ m \in 0..m
        OBVIOUS
      <4> QED BY <2>5, <4>1
    <3> HIDE DEF g, Below
    <3> QED BY <3>1, <3>2
  <2>7. \A n \in 0..(m + 1) : IsByLevel(g[n], ns, level, U(n))
    <3> HIDE DEF g, e, U
    <3>1. \A n \in 0..(m + 1) : n \in 0..m \/ n = m + 1
      OBVIOUS
    <3> QED BY <2>1, <2>4, <2>5, <3>1
  <2> HIDE DEF g, e, Below, U
  <2> QED BY <2>5, <2>6, <2>7
<1>4. Good(N)
  <2> HIDE DEF Good
  <2>1. T = Nat
    BY <1>2, <1>3, NatInd
  <2> QED BY <1>1, <2>1
<1>5. PICK f \in [0..N -> Seq(S)] : /\ \A n \in 0..N : f[n] = Below(f, n)
                                    /\ \A n \in 0..N : IsByLevel(f[n], ns, level, U(n))
  BY <1>4
<1>6. f = [n \in 0..N |-> Below(f, n)]
  BY <1>5
<1> DEFINE h == CHOOSE h : h = [n \in 0..N |-> Below(h, n)]
<1>7. h = [n \in 0..N |-> Below(h, n)]
  <2> HIDE DEF Below
  <2> QED BY <1>6
<1>8. h = f
  <2> DEFINE W == {n \in Nat : n <= N => h[n] = f[n]}
  <2> HIDE DEF h
  <2>1. 0 \in W
    <3>1. 0 \in 0..N /\ Below(h, 0) = <<>> /\ Below(f, 0) = <<>>
      BY <1>1
    <3> HIDE DEF Below, N
    <3> QED BY <1>5, <1>7, <3>1
  <2>2. ASSUME NEW n \in Nat, n \in W PROVE n + 1 \in W
    <3> SUFFICES ASSUME n + 1 <= N PROVE h[n + 1] = f[n + 1]
      OBVIOUS
    <3>1. h[n] = f[n] /\ n + 1 \in 0..N /\ (n + 1) - 1 = n /\ n + 1 # 0
      BY <1>1, <2>2
    <3>2. h[n + 1] = Below(h, n + 1) /\ f[n + 1] = Below(f, n + 1)
      <4> HIDE DEF Below
      <4> QED BY <1>5, <1>7, <3>1
    <3> QED BY <3>1, <3>2
  <2>3. W = Nat
    <3> HIDE DEF W
    <3> QED BY <2>1, <2>2, NatInd DEF W
  <2>4. ASSUME NEW n \in 0..N PROVE h[n] = f[n]
    <3>1. n \in Nat /\ n <= N
      BY <1>1
    <3>2. n \in W
      <4> HIDE DEF W, N
      <4> QED BY <2>3, <3>1
    <3> HIDE DEF Below, N
    <3> QED BY <3>1, <3>2
  <2>5. h = [n \in 0..N |-> h[n]]
     BY <1>7
  <2>6. f = [n \in 0..N |-> f[n]]
     OBVIOUS
  <2> HIDE DEF W
  <2> QED BY <2>4, <2>5, <2>6
<1>9. ByLevel(ns, level, max) = h[N]
  BY DEF ByLevel
<1> HIDE DEF h
<1> QED BY <1>1, <1>5, <1>8, <1>9

-----------------------------------------------------------------------------
(* Sequences and greatest elements. *)

\* A bounded non-empty set of numbers has a greatest one.
LEMMA MaxOfNat ==
    ASSUME NEW b \in Nat, NEW T \in SUBSET (0..b), T # {}
    PROVE  Max(T) \in T /\ \A n \in T : n <= Max(T)
<1> DEFINE U == {n \in 0..b : b - n \in T}
<1>1. U \in SUBSET Nat /\ U # {}
  <2>1. PICK t \in T : TRUE
    OBVIOUS
  <2>2. b - t \in 0..b /\ b - (b - t) = t
    OBVIOUS
  <2> QED BY <2>1, <2>2
<1>2. PICK m \in U : \A n \in U : m <= n
  <2> HIDE DEF U
  <2> QED BY <1>1, MinOfNat
<1>3. \A n \in T : n <= b - m
  <2> SUFFICES ASSUME NEW n \in T PROVE n <= b - m
    OBVIOUS
  <2>1. b - n \in U
    <3>1. b - n \in 0..b /\ b - (b - n) = n
      OBVIOUS
    <3> QED BY <3>1
  <2>2. m <= b - n
    BY <1>2, <2>1
  <2> QED BY <2>2
<1>4. \E x \in T : \A y \in T : x >= y
  <2> WITNESS b - m \in T
  <2> QED BY <1>3
<1>5. Max(T) \in T /\ \A y \in T : Max(T) >= y
  BY <1>4 DEF Max
<1> QED BY <1>5

\* What Those takes, as a set.
LEMMA ThoseSet ==
    ASSUME NEW S, NEW ns \in Seq(S), NEW K \in SUBSET DOMAIN ns
    PROVE  /\ Those(ns, K) \in Seq(S)
           /\ \A y \in DOMAIN Those(ns, K) : \E x \in K : Those(ns, K)[y] = ns[x]
           /\ \A x \in K : \E y \in DOMAIN Those(ns, K) : Those(ns, K)[y] = ns[x]
<1>1. Those(ns, K) \in Seq(S) /\ IsThose(Those(ns, K), ns, K)
  BY ThoseFacts
<1> DEFINE t == Those(ns, K)
<1>2. PICK pos \in [1..Len(t) -> K] : /\ \A x \in K : \E y \in 1..Len(t) : pos[y] = x
                                      /\ \A y \in 1..Len(t) : t[y] = ns[pos[y]]
  BY <1>1 DEF IsThose
<1>3. t \in Seq(S) /\ DOMAIN t = 1..Len(t)
  BY <1>1
<1> HIDE DEF t
<1>4. \A y \in DOMAIN t : \E x \in K : t[y] = ns[x]
  BY <1>2, <1>3
<1>5. \A x \in K : \E y \in DOMAIN t : t[y] = ns[x]
  BY <1>2, <1>3
<1> QED BY <1>3, <1>4, <1>5 DEF t

\* It takes no names that are not there, and no more of any than there are.
LEMMA ThoseNames ==
    ASSUME NEW S, NEW ns \in Seq(S), NEW K \in SUBSET DOMAIN ns
    PROVE  /\ Known(Those(ns, K)) = {ns[x].name : x \in K}
           /\ HasDuplicate(Those(ns, K)) => \E x, y \in K : x # y /\ ns[x].name = ns[y].name
           /\ Those(ns, K) = <<>> <=> K = {}
<1> DEFINE t == Those(ns, K)
<1>1. t \in Seq(S) /\ IsThose(t, ns, K)
  BY ThoseFacts
<1>2. t \in Seq(S) /\ DOMAIN t = 1..Len(t) /\ Len(t) \in Nat
  BY <1>1
<1> HIDE DEF t
<1>3. PICK pos \in [1..Len(t) -> K] : /\ \A y, z \in 1..Len(t) : y < z => pos[y] < pos[z]
                                      /\ \A x \in K : \E y \in 1..Len(t) : pos[y] = x
                                      /\ \A y \in 1..Len(t) : t[y] = ns[pos[y]]
  BY <1>1 DEF IsThose
<1>4. Known(t) = {ns[x].name : x \in K}
  <2>1. \A y \in DOMAIN t : pos[y] \in K /\ t[y].name = ns[pos[y]].name
    BY <1>2, <1>3
  <2>2. \A x \in K : \E y \in DOMAIN t : t[y].name = ns[x].name
    BY <1>2, <1>3
  <2> QED BY <2>1, <2>2 DEF Known
<1>5. ASSUME HasDuplicate(t)
      PROVE  \E x, y \in K : x # y /\ ns[x].name = ns[y].name
  <2>1. PICK y, z \in 1..Len(t) : y # z /\ t[y].name = t[z].name
    BY <1>2, <1>5 DEF HasDuplicate
  <2>2. pos[y] # pos[z]
    <3>1. y < z \/ z < y
      BY <1>2, <2>1
    <3>2. pos[y] \in Nat /\ pos[z] \in Nat
      BY <1>3
    <3> QED BY <1>3, <3>1, <3>2
  <2> QED BY <1>3, <2>1, <2>2
<1>6. t = <<>> <=> K = {}
  <2>1. CASE t = <<>>
    BY <1>3, <2>1
  <2>2. CASE t # <<>>
    <3>1. 1 \in 1..Len(t)
      BY <1>2, <2>2
    <3> QED BY <1>3, <2>2, <3>1
  <2> QED BY <2>1, <2>2
<1> QED BY <1>4, <1>5, <1>6 DEF t

\* Two nodes of one name.
Twice(ns, n) == \E x, y \in DOMAIN ns : x # y /\ ns[x].name = n /\ ns[y].name = n

\* It takes no fewer either.
LEMMA ThoseTwice ==
    ASSUME NEW S, NEW ns \in Seq(S), NEW K \in SUBSET DOMAIN ns,
           NEW x \in K, NEW y \in K, x # y, ns[x].name = ns[y].name
    PROVE  Twice(Those(ns, K), ns[x].name)
<1> DEFINE t == Those(ns, K)
<1>1. t \in Seq(S) /\ IsThose(t, ns, K)
  BY ThoseFacts
<1>2. DOMAIN t = 1..Len(t)
  BY <1>1
<1> HIDE DEF t
<1>3. PICK pos \in [1..Len(t) -> K] : /\ \A z \in K : \E v \in 1..Len(t) : pos[v] = z
                                      /\ \A v \in 1..Len(t) : t[v] = ns[pos[v]]
  BY <1>1 DEF IsThose
<1>4. PICK v \in 1..Len(t) : pos[v] = x
  BY <1>3
<1>5. PICK w \in 1..Len(t) : pos[w] = y
  BY <1>3
<1>6. v # w /\ t[v].name = ns[x].name /\ t[w].name = ns[x].name
  BY <1>3, <1>4, <1>5
<1>7. Twice(t, ns[x].name)
  BY <1>2, <1>6 DEF Twice
<1> QED BY <1>7 DEF t

\* An array with the indices of a sequence is one.
LEMMA ArrayIsSeq ==
    ASSUME NEW n \in Nat, NEW f, f = [x \in 1..n |-> f[x]]
    PROVE  f \in Seq(ToSet(f)) /\ Len(f) = n
<1>1. \A x \in 1..n : f[x] \in ToSet(f)
  BY DEF ToSet
<1>2. f \in [1..n -> ToSet(f)]
  BY <1>1
<1> QED BY <1>1

-----------------------------------------------------------------------------
(* Jobs in stages, each waiting for the nearest stage before its own. *)

JustBefore(jobs, ix, x) ==
    {y \in DOMAIN jobs : ix[y] < ix[x] /\ \A z \in DOMAIN jobs : ix[z] < ix[x] => ix[z] <= ix[y]}

Staged(jobs, ix, b) ==
    /\ ix \in [DOMAIN jobs -> 0..b]
    /\ \A x, y \in DOMAIN jobs : jobs[x].name = jobs[y].name => ix[x] = ix[y]
    /\ \A x \in DOMAIN jobs :
            ToSet(jobs[x].depends) = {jobs[y].name : y \in JustBefore(jobs, ix, x)}

InOrder(jobs, ix, b) ==
    /\ \A x \in DOMAIN jobs : ix[x] \in 0..b /\ ix[x] \in Nat
    /\ \A x, y \in DOMAIN jobs : jobs[x].name = jobs[y].name => ix[x] = ix[y]
    /\ \A x \in DOMAIN jobs : \A n \in ToSet(jobs[x].depends) :
            \E y \in DOMAIN jobs : n = jobs[y].name /\ ix[y] < ix[x]
    /\ \A x \in DOMAIN jobs : \A y \in JustBefore(jobs, ix, x) :
            jobs[y].name \in ToSet(jobs[x].depends)

LEMMA StagedFacts ==
    ASSUME NEW jobs, NEW b \in Nat, NEW ix, Staged(jobs, ix, b)
    PROVE  InOrder(jobs, ix, b)
<1>1. \A x \in DOMAIN jobs : ix[x] \in 0..b /\ ix[x] \in Nat
  BY DEF Staged
<1>2. \A x \in DOMAIN jobs : ToSet(jobs[x].depends) = {jobs[y].name : y \in JustBefore(jobs, ix, x)}
  BY DEF Staged
<1>3. \A x \in DOMAIN jobs : \A y \in JustBefore(jobs, ix, x) : y \in DOMAIN jobs /\ ix[y] < ix[x]
  BY DEF JustBefore
<1>4. ASSUME NEW x \in DOMAIN jobs, NEW n \in ToSet(jobs[x].depends)
      PROVE  \E y \in DOMAIN jobs : n = jobs[y].name /\ ix[y] < ix[x]
  <2>1. n \in {jobs[y].name : y \in JustBefore(jobs, ix, x)}
    BY <1>2
  <2> QED BY <1>3, <2>1
<1>5. \A x \in DOMAIN jobs : \A y \in JustBefore(jobs, ix, x) : jobs[y].name \in ToSet(jobs[x].depends)
  BY <1>2
<1>6. \A x, y \in DOMAIN jobs : jobs[x].name = jobs[y].name => ix[x] = ix[y]
  BY DEF Staged
<1> QED BY <1>1, <1>4, <1>5, <1>6 DEF InOrder

LEMMA StagedKnown ==
    ASSUME NEW jobs, NEW b \in Nat, NEW ix, Staged(jobs, ix, b)
    PROVE  ~HasUnknown(jobs)
<1> SUFFICES ASSUME NEW m \in Known(jobs), NEW n \in DepsIn(jobs, m) PROVE n \in Known(jobs)
  BY DEF HasUnknown
<1>1. PICK x \in DOMAIN jobs : n \in ToSet(jobs[x].depends)
  BY DEF DepsIn
<1>2. PICK y \in DOMAIN jobs : n = jobs[y].name
  BY <1>1, StagedFacts DEF InOrder
<1> QED BY <1>2 DEF Known

LEMMA StagedNoCycle ==
    ASSUME NEW jobs, NEW b \in Nat, NEW ix, Staged(jobs, ix, b)
    PROVE  ~HasCycle(jobs)
<1> SUFFICES ASSUME NEW Ring \in (SUBSET Known(jobs)) \ {{}},
                    \A m \in Ring : DepsIn(jobs, m) \cap Ring # {}
             PROVE FALSE
  BY DEF HasCycle
<1> DEFINE T == {ix[x] : x \in {y \in DOMAIN jobs : jobs[y].name \in Ring}}
<1>9. InOrder(jobs, ix, b)
  BY StagedFacts
<1>0. /\ \A x \in DOMAIN jobs : ix[x] \in Nat
      /\ \A x, y \in DOMAIN jobs : jobs[x].name = jobs[y].name => ix[x] = ix[y]
      /\ \A x \in DOMAIN jobs : \A n \in ToSet(jobs[x].depends) :
            \E y \in DOMAIN jobs : n = jobs[y].name /\ ix[y] < ix[x]
  BY <1>9 DEF InOrder
<1>1. T \in SUBSET Nat /\ T # {}
  <2>1. PICK n \in Ring : n \in Known(jobs)
    OBVIOUS
  <2> QED BY <1>0, <2>1 DEF Known
<1>2. PICK m \in T : \A n \in T : m <= n
  <2> HIDE DEF T
  <2> QED BY <1>1, MinOfNat
<1>3. PICK x \in DOMAIN jobs : jobs[x].name \in Ring /\ ix[x] = m
  BY <1>2
<1>4. PICK n \in Ring : n \in DepsIn(jobs, jobs[x].name)
  BY <1>3
<1>5. PICK z \in DOMAIN jobs : jobs[z].name = jobs[x].name /\ n \in ToSet(jobs[z].depends)
  BY <1>4 DEF DepsIn
<1>6. PICK y \in DOMAIN jobs : n = jobs[y].name /\ ix[y] < ix[z]
  BY <1>0, <1>5
<1>7. ix[y] < ix[x] /\ ix[y] \in T
  BY <1>0, <1>4, <1>5, <1>6
<1>8. ix[x] \in Nat /\ ix[y] \in Nat
  BY <1>0
<1>10. ix[x] <= ix[y]
  <2> HIDE DEF T
  <2> QED BY <1>2, <1>3, <1>7
<1> QED
  <2> HIDE DEF T
  <2> QED BY <1>7, <1>8, <1>10

\* A job's failure dooms exactly the jobs of later stages.
LEMMA StagedBarrier ==
    ASSUME NEW jobs, NEW b \in Nat, NEW ix, Staged(jobs, ix, b), ~HasDuplicate(jobs),
           Known(jobs) \subseteq Name,
           NEW x \in DOMAIN jobs, NEW y \in DOMAIN jobs, x # y
    PROVE  jobs[y].name \in DoomedIn(jobs, {jobs[x].name}) <=> ix[x] < ix[y]
<1>3. InOrder(jobs, ix, b)
  BY StagedFacts
<1>0. \A z \in DOMAIN jobs : ix[z] \in 0..b /\ jobs[z].name \in Name
  BY <1>3 DEF Known, InOrder
<1>1. ASSUME ix[x] < ix[y], NEW S \in SUBSET Name, ClosedIn(jobs, {jobs[x].name}, S),
             jobs[y].name \notin S
      PROVE  FALSE
  <2> DEFINE Late == {z \in DOMAIN jobs : ix[x] < ix[z] /\ jobs[z].name \notin S}
             T == {ix[z] : z \in Late}
  <2>1. T \in SUBSET Nat /\ T # {}
    BY <1>0, <1>1
  <2>2. PICK m \in T : \A n \in T : m <= n
    <3> HIDE DEF T
    <3> QED BY <2>1, MinOfNat
  <2>3. PICK z \in Late : ix[z] = m
    BY <2>2
  <2> DEFINE E == {ix[w] : w \in {v \in DOMAIN jobs : ix[v] < ix[z]}}
  <2>4. E \in SUBSET (0..b) /\ E # {}
    BY <1>0, <2>3
  <2>5. Max(E) \in E /\ \A n \in E : n <= Max(E)
    <3> HIDE DEF E
    <3> QED BY <2>4, MaxOfNat
  <2>6. PICK w \in DOMAIN jobs : ix[w] < ix[z] /\ ix[w] = Max(E)
    BY <2>5
  <2>7. w \in JustBefore(jobs, ix, z) /\ ix[x] <= ix[w]
    BY <2>3, <2>5, <2>6 DEF JustBefore
  <2>8. \A v \in JustBefore(jobs, ix, z) : jobs[v].name \notin S
    <3> SUFFICES ASSUME NEW v \in JustBefore(jobs, ix, z), jobs[v].name \in S PROVE FALSE
      OBVIOUS
    <3>1. jobs[v].name \in ToSet(jobs[z].depends)
      BY <1>3, <2>3 DEF InOrder
    <3>2. jobs[z].name \in S
      BY <1>1, <2>3, <3>1 DEF ClosedIn
    <3> QED BY <2>3, <3>2
  <2>9. CASE ix[x] = ix[w]
    <3>1. x \in JustBefore(jobs, ix, z)
      BY <2>7, <2>9 DEF JustBefore
    <3>2. jobs[x].name \in S
      BY <1>1 DEF ClosedIn
    <3> QED BY <2>8, <3>1, <3>2
  <2>10. CASE ix[x] # ix[w]
    <3>1. ix[x] < ix[w]
      BY <1>0, <2>7, <2>10
    <3>2. w \in Late
      BY <2>7, <2>8, <3>1
    <3>3. ix[z] <= ix[w]
      BY <2>2, <2>3, <3>2
    <3> QED BY <1>0, <2>3, <2>6, <3>3
  <2> QED BY <2>9, <2>10
<1>2. ASSUME jobs[y].name \in DoomedIn(jobs, {jobs[x].name})
      PROVE  ix[x] < ix[y]
  <2> DEFINE S == {jobs[x].name} \cup {jobs[z].name : z \in {v \in DOMAIN jobs : ix[x] < ix[v]}}
  <2>1. S \in SUBSET Name
    BY <1>0
  <2>2. ASSUME NEW z \in DOMAIN jobs, NEW n \in ToSet(jobs[z].depends), n \in S
        PROVE  jobs[z].name \in S
    <3>1. PICK w \in DOMAIN jobs : n = jobs[w].name /\ ix[w] < ix[z]
      BY <1>3 DEF InOrder
    <3>2. PICK v \in DOMAIN jobs : n = jobs[v].name /\ ix[x] <= ix[v]
      BY <1>0, <2>2
    <3>3. ix[v] = ix[w]
      BY <1>3, <3>1, <3>2 DEF InOrder
    <3>4. ix[x] < ix[z]
      BY <1>0, <3>1, <3>2, <3>3
    <3> QED BY <3>4
  <2>3. ClosedIn(jobs, {jobs[x].name}, S)
    <3> HIDE DEF S
    <3>1. jobs[x].name \in S
      BY DEF S
    <3> QED BY <2>2, <3>1 DEF ClosedIn
  <2>4. jobs[y].name \in S
    <3> HIDE DEF S
    <3> QED BY <1>2, <2>1, <2>3 DEF DoomedIn
  <2>5. jobs[y].name # jobs[x].name
    BY DEF HasDuplicate
  <2>6. PICK z \in DOMAIN jobs : ix[x] < ix[z] /\ jobs[y].name = jobs[z].name
    BY <2>4, <2>5
  <2> QED BY <1>3, <2>6 DEF InOrder
<1> QED BY <1>0, <1>1, <1>2 DEF DoomedIn

-----------------------------------------------------------------------------
(* The levels of a graph without cycles. *)

LEMMA Bounded ==
    ASSUME NEW N \in Nat, NEW f, \A x \in 1..N : f[x] \in Nat
    PROVE  \E b \in Nat : \A x \in 1..N : f[x] <= b
<1> DEFINE Below(k) == \E b \in Nat : \A x \in 1..k : f[x] <= b
           T == {k \in Nat : k <= N => Below(k)}
<1>1. 0 \in T
  <2>1. 1..0 = {}
    OBVIOUS
  <2>2. Below(0)
    BY <2>1
  <2> QED BY <2>2
<1>2. ASSUME NEW k \in Nat, k \in T PROVE k + 1 \in T
  <2> SUFFICES ASSUME k + 1 <= N PROVE Below(k + 1)
    <3> HIDE DEF Below
    <3> QED OBVIOUS
  <2>1. k <= N
    OBVIOUS
  <2>2. Below(k)
    <3> HIDE DEF Below
    <3> QED BY <1>2, <2>1
  <2>3. PICK b \in Nat : \A x \in 1..k : f[x] <= b
    BY <2>2
  <2>4. f[k + 1] \in Nat
    OBVIOUS
  <2>5. PICK c \in Nat : b <= c /\ f[k + 1] <= c
    <3>1. b + f[k + 1] \in Nat /\ b <= b + f[k + 1] /\ f[k + 1] <= b + f[k + 1]
      BY <2>4
    <3> QED BY <3>1
  <2>6. ASSUME NEW x \in 1..(k + 1) PROVE f[x] <= c
    <3>1. CASE x = k + 1
      BY <2>5, <3>1
    <3>2. CASE x # k + 1
      <4>1. x \in 1..k /\ x \in 1..N
        BY <2>1, <3>2
      <4>2. f[x] \in Nat /\ f[x] <= b
        BY <2>3, <4>1
      <4> QED BY <2>5, <4>2
    <3> QED BY <3>1, <3>2
  <2> QED BY <2>6
<1>3. T = Nat
  <2>1. T \in SUBSET Nat
    <3> HIDE DEF Below
    <3> QED OBVIOUS
  <2> HIDE DEF T
  <2> QED BY <1>1, <1>2, <2>1, NatInd
<1>4. Below(N)
  <2> HIDE DEF Below
  <2> QED BY <1>3
<1> QED BY <1>4

\* The numbers that the nodes have have a greatest one.
LEMMA MaxOverNodes ==
    ASSUME NEW S, NEW ns \in Seq(S), NEW f, NEW M \in SUBSET Known(ns), \A m \in M : f[m] \in Nat
    PROVE  LET T == {0} \cup {f[m] : m \in M} IN
           /\ Max(T) \in Nat /\ \A m \in M : f[m] <= Max(T)
           /\ M # {} => LET U == {f[m] : m \in M} IN
                            Max(U) \in U /\ Max(U) \in Nat /\ \A m \in M : f[m] <= Max(U)
<1> DEFINE g == [x \in 1..Len(ns) |-> IF ns[x].name \in M THEN f[ns[x].name] ELSE 0]
           T == {0} \cup {f[m] : m \in M}
           U == {f[m] : m \in M}
<1>1. Len(ns) \in Nat /\ \A x \in 1..Len(ns) : g[x] \in Nat
  OBVIOUS
<1>2. PICK b \in Nat : \A x \in 1..Len(ns) : g[x] <= b
  <2> HIDE DEF g
  <2> QED BY <1>1, Bounded
<1>3. \A m \in M : f[m] \in 0..b
  <2> SUFFICES ASSUME NEW m \in M PROVE f[m] \in 0..b
    OBVIOUS
  <2>1. PICK x \in 1..Len(ns) : ns[x].name = m
    BY DEF Known
  <2>2. g[x] = f[m]
    BY <2>1
  <2>3. f[m] <= b
    BY <1>2, <2>2
  <2> QED BY <2>3
<1>4. T \in SUBSET Nat /\ T # {} /\ U \in SUBSET Nat /\ T \in SUBSET (0..b) /\ U \in SUBSET (0..b)
  BY <1>3
<1>5. Max(T) \in T /\ \A n \in T : n <= Max(T)
  <2> HIDE DEF T
  <2> QED BY <1>4, MaxOfNat
<1>6. M # {} => U # {}
  OBVIOUS
<1>7. M # {} => Max(U) \in U /\ \A n \in U : n <= Max(U)
  <2> HIDE DEF U
  <2> QED BY <1>4, <1>6, MaxOfNat
<1>8. \A m \in M : f[m] \in T /\ f[m] \in U
  OBVIOUS
<1> HIDE DEF T, U
<1>9. Max(T) \in Nat
  BY <1>4, <1>5
<1>10. M # {} => Max(U) \in Nat
  BY <1>4, <1>7
<1> QED BY <1>5, <1>7, <1>8, <1>9, <1>10 DEF T, U

\* What LevelIn says of a node m when the levels of its dependencies are f's.
LevelOver(ns, f, m) ==
    IF DepsIn(ns, m) = {} THEN 0 ELSE 1 + Max({f[n] : n \in DepsIn(ns, m)})

LEMMA LevelOverIsNat ==
    ASSUME NEW S, NEW ns \in Seq(S), NEW f, NEW m, DepsIn(ns, m) \subseteq Known(ns),
           \A n \in DepsIn(ns, m) : f[n] \in Nat
    PROVE  LevelOver(ns, f, m) \in Nat
<1> DEFINE M == DepsIn(ns, m)
           U == {f[n] : n \in M}
<1> HIDE DEF M
<1>1. M \in SUBSET Known(ns) /\ \A n \in M : f[n] \in Nat
  BY DEF M
<1>2. M # {} => Max(U) \in Nat
  BY <1>1, MaxOverNodes
<1> QED BY <1>2 DEF LevelOver, M

LEMMA KnownIsFinite ==
    ASSUME NEW S, NEW ns \in Seq(S)
    PROVE  IsFiniteSet(Known(ns))
<1> DEFINE f == [x \in 1..Len(ns) |-> ns[x].name]
<1>1. Len(ns) \in Nat /\ DOMAIN ns = 1..Len(ns)
  OBVIOUS
<1>2. f \in Surjection(1..Len(ns), Known(ns))
  BY <1>1 DEF Surjection, Known
<1> HIDE DEF f
<1>3. \E n \in Nat : ExistsSurjection(1..n, Known(ns))
  BY <1>1, <1>2 DEF ExistsSurjection
<1> QED BY <1>3, FS_NatSurjection

\* The equation that defines LevelIn has a solution where no dependency is
\* unknown and nothing is cyclic, and LevelIn is one.
LEMMA LevelFacts ==
    ASSUME NEW S, NEW ns \in Seq(S), ~HasUnknown(ns), ~HasCycle(ns)
    PROVE  LET level == LevelIn(ns) IN
           \A m \in Known(ns) : level[m] \in Nat /\ level[m] = LevelOver(ns, level, m)
<1> DEFINE N == Known(ns)
           Solves(f, P) == f \in [P -> Nat] /\ \A m \in P : f[m] = LevelOver(ns, f, m)
           Good(P) == (\A m \in P : DepsIn(ns, m) \subseteq P) /\ \E f \in [P -> Nat] : Solves(f, P)
           R == StrictSubsetOrdering(N)
           F == FiniteSubsetsOf(N)
           D == {N \ P : P \in {Q \in SUBSET N : Good(Q)}}
<1>1. IsWellFoundedOn(R, F)
  BY FS_StrictSubsetOrderingWellFounded
<1>2. D \subseteq F
  <2>1. \A P \in SUBSET N : IsFiniteSet(N \ P)
    BY KnownIsFinite, FS_Subset
  <2> HIDE DEF N, Good
  <2> QED BY <2>1 DEF FiniteSubsetsOf
<1>3. D # {}
  <2>1. Good({})
    <3> DEFINE f == [m \in {} |-> 0]
    <3>1. f \in [{} -> Nat]
      OBVIOUS
    <3> HIDE DEF f
    <3> QED BY <3>1
  <2> HIDE DEF Good
  <2>2. {} \in {Q \in SUBSET N : Good(Q)}
    BY <2>1
  <2> QED BY <2>2
<1>4. PICK P \in SUBSET N : Good(P) /\ \A Q \in SUBSET N : Good(Q) => ~(<<N \ Q, N \ P>> \in R)
  <2>1. \E x \in D : \A y \in D : ~(<<y, x>> \in R)
    <3> HIDE DEF R, F, D
    <3> QED BY <1>1, <1>2, <1>3, WFMin
  <2> HIDE DEF R, N, Good
  <2> QED BY <2>1
<1>5. P = N
  <2> SUFFICES ASSUME P # N PROVE FALSE
    OBVIOUS
  <2>1. N \ P \in (SUBSET Known(ns)) \ {{}}
    OBVIOUS
  <2>2. PICK m \in N \ P : DepsIn(ns, m) \cap (N \ P) = {}
    BY <2>1 DEF HasCycle
  <2>3. DepsIn(ns, m) \subseteq P /\ DepsIn(ns, m) \subseteq N
    BY <2>2 DEF HasUnknown
  <2>4. PICK f \in [P -> Nat] : Solves(f, P)
    BY <1>4
  <2> DEFINE g == [n \in P \cup {m} |-> IF n = m THEN LevelOver(ns, f, m) ELSE f[n]]
  <2>5. LevelOver(ns, f, m) \in Nat
    <3>1. \A n \in DepsIn(ns, m) : f[n] \in Nat
      BY <2>3
    <3> QED BY <2>3, <3>1, LevelOverIsNat
  <2>6. /\ g \in [P \cup {m} -> Nat] /\ g[m] = LevelOver(ns, f, m)
        /\ \A n \in P : g[n] = f[n]
    BY <2>2, <2>5
  <2> HIDE DEF g
  <2>7. ASSUME NEW n \in P \cup {m} PROVE LevelOver(ns, g, n) = LevelOver(ns, f, n)
    <3>1. DepsIn(ns, n) \subseteq P
      BY <1>4, <2>3
    <3>2. \A k \in DepsIn(ns, n) : g[k] = f[k]
      BY <2>6, <3>1
    <3>3. {g[k] : k \in DepsIn(ns, n)} = {f[k] : k \in DepsIn(ns, n)}
      BY <3>2
    <3> QED BY <3>3 DEF LevelOver
  <2>8. \A n \in P \cup {m} : g[n] = LevelOver(ns, g, n)
    BY <2>4, <2>6, <2>7
  <2>9. Good(P \cup {m})
    <3>1. \A n \in P \cup {m} : DepsIn(ns, n) \subseteq P \cup {m}
      BY <1>4, <2>3
    <3> QED BY <2>6, <2>8, <3>1
  <2>10. P \cup {m} \in SUBSET N
    OBVIOUS
  <2>11. ~(<<N \ (P \cup {m}), N \ P>> \in R)
    <3> HIDE DEF Good, R
    <3> QED BY <1>4, <2>9, <2>10
  <2>12. N \ (P \cup {m}) \in SUBSET N /\ N \ P \in SUBSET N /\ N \ (P \cup {m}) \subseteq N \ P /\ N \ (P \cup {m}) # N \ P
    BY <2>2
  <2> QED BY <2>11, <2>12 DEF StrictSubsetOrdering
<1>6. PICK f \in [N -> Nat] : Solves(f, N)
  BY <1>4, <1>5
<1> DEFINE Eq(level) == level = [m \in N |-> LevelOver(ns, level, m)]
<1>7. Eq(f)
  <2> HIDE DEF N
  <2> QED BY <1>6
<1>8. LevelIn(ns) = CHOOSE level : Eq(level)
  BY DEF LevelIn, LevelOver
<1>9. Eq(LevelIn(ns))
  <2> HIDE DEF Eq
  <2> QED BY <1>7, <1>8
<1> DEFINE h == LevelIn(ns)
<1> HIDE DEF h
<1>10. \A m \in N : h[m] = LevelOver(ns, h, m)
  BY <1>9 DEF h
<1>11. \A m \in N : h[m] \in Nat
  <2> DEFINE C == {m \in N : h[m] \notin Nat}
  <2> SUFFICES ASSUME C # {} PROVE FALSE
    OBVIOUS
  <2>1. C \in (SUBSET Known(ns)) \ {{}}
    OBVIOUS
  <2>2. PICK m \in C : DepsIn(ns, m) \cap C = {}
    BY <2>1 DEF HasCycle
  <2>3. DepsIn(ns, m) \subseteq Known(ns)
    BY DEF HasUnknown
  <2>4. \A n \in DepsIn(ns, m) : h[n] \in Nat
    BY <2>2, <2>3
  <2>5. LevelOver(ns, h, m) \in Nat
    <3> HIDE DEF C
    <3> QED BY <2>3, <2>4, LevelOverIsNat
  <2> QED BY <1>10, <2>5
<1> QED BY <1>10, <1>11 DEF h

\* s has the elements of ns, each once, in some order.
Permutes(s, ns) ==
    \E pos \in [DOMAIN s -> DOMAIN ns] :
        /\ \A y, z \in DOMAIN s : y # z => pos[y] # pos[z]
        /\ \A x \in DOMAIN ns : \E y \in DOMAIN s : pos[y] = x
        /\ \A y \in DOMAIN s : s[y] = ns[pos[y]]

LEMMA PermutesFacts ==
    ASSUME NEW s, NEW ns, Permutes(s, ns)
    PROVE  /\ Known(s) = Known(ns) /\ ToSet(s) = ToSet(ns)
           /\ HasDuplicate(s) => HasDuplicate(ns)
<1>1. PICK pos \in [DOMAIN s -> DOMAIN ns] :
        /\ \A y, z \in DOMAIN s : y # z => pos[y] # pos[z]
        /\ \A x \in DOMAIN ns : \E y \in DOMAIN s : pos[y] = x
        /\ \A y \in DOMAIN s : s[y] = ns[pos[y]]
  BY DEF Permutes
<1>2. Known(s) = Known(ns)
  BY <1>1 DEF Known
<1>3. ToSet(s) = ToSet(ns)
  BY <1>1 DEF ToSet
<1>4. HasDuplicate(s) => HasDuplicate(ns)
  BY <1>1 DEF HasDuplicate
<1> QED BY <1>2, <1>3, <1>4

\* Ordered by level, a graph that Levels accepts has the same nodes.
LEMMA OrderFacts ==
    ASSUME NEW S, NEW ns \in Seq(S), ~HasUnknown(ns), ~HasCycle(ns)
    PROVE  LET order == ByLevel(ns, LevelIn(ns), MaxLevel(ns, LevelIn(ns))) IN
           order \in Seq(S) /\ Permutes(order, ns)
<1> DEFINE level == LevelIn(ns)
           max == MaxLevel(ns, level)
           order == ByLevel(ns, level, max)
<1>1. \A m \in Known(ns) : level[m] \in Nat
  BY LevelFacts
<1> HIDE DEF level
<1>2. max \in Nat /\ \A m \in Known(ns) : level[m] <= max
  <2>1. Known(ns) \in SUBSET Known(ns)
    OBVIOUS
  <2> QED BY <1>1, <2>1, MaxOverNodes DEF MaxLevel
<1> HIDE DEF max
<1>3. Under(ns, level, max + 1) = DOMAIN ns
  <2>1. ASSUME NEW x \in DOMAIN ns PROVE level[ns[x].name] \in 0..((max + 1) - 1)
    <3>1. ns[x].name \in Known(ns)
      BY DEF Known
    <3>2. level[ns[x].name] \in Nat /\ level[ns[x].name] <= max
      BY <1>1, <1>2, <3>1
    <3> QED BY <1>2, <3>2
  <2> QED BY <2>1 DEF Under
<1>4. order \in Seq(S) /\ IsByLevel(order, ns, level, DOMAIN ns)
  BY <1>2, <1>3, ByLevelFacts
<1> HIDE DEF order
<1>5. PICK pos \in [1..Len(order) -> DOMAIN ns] :
        /\ \A y, z \in 1..Len(order) : y < z =>
              \/ level[ns[pos[y]].name] < level[ns[pos[z]].name]
              \/ level[ns[pos[y]].name] = level[ns[pos[z]].name] /\ pos[y] < pos[z]
        /\ \A x \in DOMAIN ns : \E y \in 1..Len(order) : pos[y] = x
        /\ \A y \in 1..Len(order) : order[y] = ns[pos[y]]
  BY <1>4 DEF IsByLevel
<1>6. DOMAIN order = 1..Len(order) /\ Len(order) \in Nat
  BY <1>4
<1>7. ASSUME NEW y \in 1..Len(order), NEW z \in 1..Len(order), y < z PROVE pos[y] # pos[z]
  <2>1. pos[y] \in DOMAIN ns /\ pos[y] \in Nat
    OBVIOUS
  <2>2. level[ns[pos[y]].name] \in Nat
    BY <1>1, <2>1 DEF Known
  <2> QED BY <1>5, <1>7, <2>1, <2>2
<1>8. \A y, z \in DOMAIN order : y # z => pos[y] # pos[z]
  <2> SUFFICES ASSUME NEW y \in 1..Len(order), NEW z \in 1..Len(order), y # z PROVE pos[y] # pos[z]
    BY <1>6
  <2>1. y < z \/ z < y
    BY <1>6
  <2> QED BY <1>7, <2>1
<1>9. Permutes(order, ns)
  BY <1>5, <1>6, <1>8 DEF Permutes
<1> QED BY <1>4, <1>9 DEF order, max, level

\* jobs has the names and the dependencies of the nodes ns, each once, in some order.
AreTheNodes(jobs, ns) ==
    \E pos \in [DOMAIN jobs -> DOMAIN ns] :
        /\ \A y, z \in DOMAIN jobs : y # z => pos[y] # pos[z]
        /\ \A x \in DOMAIN ns : \E y \in DOMAIN jobs : pos[y] = x
        /\ \A y \in DOMAIN jobs : jobs[y].name = ns[pos[y]].name /\ jobs[y].depends = ns[pos[y]].depends

LEMMA AreTheNodesFacts ==
    ASSUME NEW jobs, NEW ns, AreTheNodes(jobs, ns)
    PROVE  /\ Known(jobs) = Known(ns)
           /\ \A m : DepsIn(jobs, m) = DepsIn(ns, m)
           /\ HasUnknown(jobs) => HasUnknown(ns)
           /\ HasCycle(jobs) => HasCycle(ns)
           /\ HasDuplicate(jobs) => HasDuplicate(ns)
<1>1. PICK pos \in [DOMAIN jobs -> DOMAIN ns] :
        /\ \A y, z \in DOMAIN jobs : y # z => pos[y] # pos[z]
        /\ \A x \in DOMAIN ns : \E y \in DOMAIN jobs : pos[y] = x
        /\ \A y \in DOMAIN jobs : jobs[y].name = ns[pos[y]].name /\ jobs[y].depends = ns[pos[y]].depends
  BY DEF AreTheNodes
<1>2. Known(jobs) = Known(ns)
  BY <1>1 DEF Known
<1>3. ASSUME NEW m PROVE DepsIn(jobs, m) = DepsIn(ns, m)
  <2>1. ASSUME NEW n \in DepsIn(jobs, m) PROVE n \in DepsIn(ns, m)
    <3>1. PICK y \in DOMAIN jobs : jobs[y].name = m /\ n \in ToSet(jobs[y].depends)
      BY DEF DepsIn
    <3>2. ns[pos[y]].name = m /\ n \in ToSet(ns[pos[y]].depends) /\ pos[y] \in DOMAIN ns
      BY <1>1, <3>1
    <3> QED BY <3>2 DEF DepsIn
  <2>2. ASSUME NEW n \in DepsIn(ns, m) PROVE n \in DepsIn(jobs, m)
    <3>1. PICK x \in DOMAIN ns : ns[x].name = m /\ n \in ToSet(ns[x].depends)
      BY DEF DepsIn
    <3>2. PICK y \in DOMAIN jobs : pos[y] = x
      BY <1>1
    <3>3. jobs[y].name = m /\ n \in ToSet(jobs[y].depends)
      BY <1>1, <3>1, <3>2
    <3> QED BY <3>3 DEF DepsIn
  <2> QED BY <2>1, <2>2
<1>4. HasUnknown(jobs) => HasUnknown(ns)
  BY <1>2, <1>3 DEF HasUnknown
<1>5. HasCycle(jobs) => HasCycle(ns)
  BY <1>2, <1>3 DEF HasCycle
<1>6. HasDuplicate(jobs) => HasDuplicate(ns)
  BY <1>1 DEF HasDuplicate
<1> QED BY <1>2, <1>3, <1>4, <1>5, <1>6

LEMMA PermutedNodes ==
    ASSUME NEW jobs, NEW s, NEW ns, Permutes(s, ns), DOMAIN jobs = DOMAIN s,
           \A y \in DOMAIN s : jobs[y].name = s[y].name /\ jobs[y].depends = s[y].depends
    PROVE  AreTheNodes(jobs, ns)
<1>1. PICK pos \in [DOMAIN s -> DOMAIN ns] :
        /\ \A y, z \in DOMAIN s : y # z => pos[y] # pos[z]
        /\ \A x \in DOMAIN ns : \E y \in DOMAIN s : pos[y] = x
        /\ \A y \in DOMAIN s : s[y] = ns[pos[y]]
  BY DEF Permutes
<1>2. \A y \in DOMAIN jobs : jobs[y].name = ns[pos[y]].name /\ jobs[y].depends = ns[pos[y]].depends
  BY <1>1
<1> QED BY <1>1, <1>2 DEF AreTheNodes

-----------------------------------------------------------------------------
(* What is left out of a graph. *)

LEMMA DoomedFacts ==
    ASSUME NEW ns, NEW skipped \in SUBSET Name, Known(ns) \subseteq Name
    PROVE  LET Doom == DoomedIn(ns, skipped) IN
           /\ skipped \subseteq Doom /\ Doom \subseteq Name
           /\ \A x \in DOMAIN ns : ToSet(ns[x].depends) \cap Doom # {} => ns[x].name \in Doom
           /\ \A n \in Doom : n \in skipped \/ \E x \in DOMAIN ns :
                                ns[x].name = n /\ ToSet(ns[x].depends) \cap Doom # {}
<1> DEFINE Doom == DoomedIn(ns, skipped)
<1>1. skipped \subseteq Doom /\ Doom \subseteq Name
  BY DEF DoomedIn, ClosedIn
<1>2. ASSUME NEW x \in DOMAIN ns, ToSet(ns[x].depends) \cap Doom # {} PROVE ns[x].name \in Doom
  <2>1. ns[x].name \in Name
    BY DEF Known
  <2>2. PICK d \in Doom : d \in ToSet(ns[x].depends)
    BY <1>2
  <2> SUFFICES ASSUME NEW S \in SUBSET Name, ClosedIn(ns, skipped, S) PROVE ns[x].name \in S
    BY <2>1 DEF DoomedIn
  <2>3. d \in S
    BY <2>2 DEF DoomedIn
  <2> QED BY <2>2, <2>3 DEF ClosedIn
<1>3. ASSUME NEW n \in Doom, n \notin skipped,
             ~ \E x \in DOMAIN ns : ns[x].name = n /\ ToSet(ns[x].depends) \cap Doom # {}
      PROVE  FALSE
  <2> DEFINE S == Doom \ {n}
  <2>1. S \in SUBSET Name /\ skipped \subseteq S
    BY <1>1, <1>3
  <2>2. ASSUME NEW x \in DOMAIN ns, ToSet(ns[x].depends) \cap S # {} PROVE ns[x].name \in S
    <3>1. ToSet(ns[x].depends) \cap Doom # {}
      BY <2>2
    <3> QED BY <1>2, <1>3, <3>1
  <2>3. ClosedIn(ns, skipped, S)
    <3> HIDE DEF S
    <3> QED BY <2>1, <2>2 DEF ClosedIn
  <2>4. n \in S
    <3> HIDE DEF S
    <3> QED BY <2>1, <2>3 DEF DoomedIn
  <2> QED BY <2>4
<1> QED BY <1>1, <1>2, <1>3

\* What is left of a graph when what cannot run is left out.
LEMMA WithoutFacts ==
    ASSUME NEW ns \in Seq(NodeSet), NEW skipped \in SUBSET Name
    PROVE  LET Doom == DoomedIn(ns, skipped)
               kept == Without(ns, Doom)
           IN  /\ kept \in Seq(NodeSet)
               /\ \A y \in DOMAIN kept : \E x \in DOMAIN ns : ns[x].name \notin Doom /\ kept[y] = ns[x]
               /\ Known(kept) = Known(ns) \ Doom
               /\ \A m \in Known(kept) : DepsIn(kept, m) = DepsIn(ns, m) /\ DepsIn(kept, m) \cap Doom = {}
               /\ LevelsFail(kept) => LevelsFail(ns)
<1> DEFINE Doom == DoomedIn(ns, skipped)
           K == {x \in DOMAIN ns : ns[x].name \notin Doom}
           kept == Without(ns, Doom)
<1>1. Known(ns) \subseteq Name
  <2>1. \A x \in DOMAIN ns : ns[x] \in NodeSet
    OBVIOUS
  <2>2. \A x \in DOMAIN ns : ns[x].name \in Name
    BY <2>1 DEF NodeSet
  <2> QED BY <2>2 DEF Known
<1>2. \A x \in DOMAIN ns : ToSet(ns[x].depends) \cap Doom # {} => ns[x].name \in Doom
  BY <1>1, DoomedFacts
<1> HIDE DEF Doom
<1>3. kept = Those(ns, K) /\ K \in SUBSET DOMAIN ns
  BY DEF Without
<1> HIDE DEF kept
<1>4. /\ kept \in Seq(NodeSet)
      /\ \A y \in DOMAIN kept : \E x \in K : kept[y] = ns[x]
      /\ \A x \in K : \E y \in DOMAIN kept : kept[y] = ns[x]
  <2> HIDE DEF K
  <2> QED BY <1>3, ThoseSet
<1>5. /\ Known(kept) = {ns[x].name : x \in K}
      /\ HasDuplicate(kept) => \E x, y \in K : x # y /\ ns[x].name = ns[y].name
  <2> HIDE DEF K
  <2> QED BY <1>3, ThoseNames
<1>6. Known(kept) = Known(ns) \ Doom
  BY <1>5 DEF Known
<1>7. ASSUME NEW m \in Known(kept) PROVE DepsIn(kept, m) = DepsIn(ns, m) /\ DepsIn(kept, m) \cap Doom = {}
  <2>1. m \notin Doom
    BY <1>6
  <2>2. ASSUME NEW n \in DepsIn(kept, m) PROVE n \in DepsIn(ns, m)
    <3>1. PICK y \in DOMAIN kept : kept[y].name = m /\ n \in ToSet(kept[y].depends)
      BY DEF DepsIn
    <3>2. PICK x \in K : kept[y] = ns[x]
      BY <1>4
    <3> QED BY <3>1, <3>2 DEF DepsIn
  <2>3. ASSUME NEW n \in DepsIn(ns, m) PROVE n \in DepsIn(kept, m) /\ n \notin Doom
    <3>1. PICK x \in DOMAIN ns : ns[x].name = m /\ n \in ToSet(ns[x].depends)
      BY DEF DepsIn
    <3>2. x \in K /\ n \notin Doom
      BY <1>2, <2>1, <3>1
    <3>3. PICK y \in DOMAIN kept : kept[y] = ns[x]
      BY <1>4, <3>2
    <3> QED BY <3>1, <3>2, <3>3 DEF DepsIn
  <2> QED BY <2>2, <2>3
<1>8. HasDuplicate(kept) => HasDuplicate(ns)
  BY <1>5 DEF HasDuplicate
<1>9. HasUnknown(kept) => HasUnknown(ns)
  <2> SUFFICES ASSUME NEW m \in Known(kept), NEW n \in DepsIn(kept, m), n \notin Known(kept) PROVE HasUnknown(ns)
    BY DEF HasUnknown
  <2>1. m \in Known(ns) /\ n \in DepsIn(ns, m) /\ n \notin Doom
    BY <1>6, <1>7
  <2>2. n \notin Known(ns)
    BY <1>6, <2>1
  <2> QED BY <2>1, <2>2 DEF HasUnknown
<1>10. HasCycle(kept) => HasCycle(ns)
  <2> SUFFICES ASSUME NEW Ring \in (SUBSET Known(kept)) \ {{}}, \A m \in Ring : DepsIn(kept, m) \cap Ring # {}
               PROVE  HasCycle(ns)
    BY DEF HasCycle
  <2>1. Ring \in (SUBSET Known(ns)) \ {{}}
    BY <1>6
  <2>2. \A m \in Ring : DepsIn(ns, m) \cap Ring # {}
    BY <1>7
  <2> QED BY <2>1, <2>2 DEF HasCycle
<1>11. LevelsFail(kept) => LevelsFail(ns)
  BY <1>8, <1>9, <1>10 DEF LevelsFail
<1> QED BY <1>4, <1>6, <1>7, <1>11 DEF kept, Doom

-----------------------------------------------------------------------------
(* Recursive functions over an interval, and FlattenSeq, which is one. *)

LEMMA IntervalInd ==
    ASSUME NEW a \in Nat, NEW N \in Nat, NEW P \in SUBSET Nat, a \in P,
           \A n \in (a + 1)..N : n - 1 \in P => n \in P
    PROVE  \A n \in a..N : n \in P
<1> DEFINE T == {k \in Nat : a + k <= N => a + k \in P}
<1>1. 0 \in T
  OBVIOUS
<1>2. ASSUME NEW k \in Nat, k \in T PROVE k + 1 \in T
  <2> SUFFICES ASSUME a + (k + 1) <= N PROVE a + (k + 1) \in P
    OBVIOUS
  <2>1. a + k \in P
    BY <1>2
  <2>2. a + (k + 1) \in (a + 1)..N /\ (a + (k + 1)) - 1 = a + k
    OBVIOUS
  <2> QED BY <2>1, <2>2
<1>3. T = Nat
  <2>1. T \in SUBSET Nat
    OBVIOUS
  <2> HIDE DEF T
  <2> QED BY <1>1, <1>2, <2>1, NatInd
<1>4. ASSUME NEW n \in a..N PROVE n \in P
  <2>1. n - a \in T
    <3>1. n - a \in Nat
      OBVIOUS
    <3> HIDE DEF T
    <3> QED BY <1>3, <3>1
  <2>2. a + (n - a) = n
    OBVIOUS
  <2> QED BY <2>1, <2>2
<1> QED BY <1>4

\* f is a function over a..N each of whose values Next makes of the one before.
Follows(f, a, N, Next) == \A n \in (a + 1)..N : f[n] = Next[<<n, f[n - 1]>>]
IsOver(f, a, N) == f = [n \in a..N |-> f[n]]
Alike(f, g, a, N) == \A n \in (a + 1)..N : f[n - 1] = g[n - 1] => f[n] = g[n]

\* Its values are in the sets Good, and Next keeps them there.
Keeps(f, a, N, Good) == \A n \in a..N : f[n] \in Good[n]
Preserves(Next, a, N, Good) == \A n \in (a + 1)..N : \A t \in Good[n - 1] : Next[<<n, t>>] \in Good[n]

LEMMA RecursionKeeps ==
    ASSUME NEW a \in Nat, NEW N \in Nat, a <= N, NEW Good, NEW z \in Good[a], NEW Next,
           Preserves(Next, a, N, Good)
    PROVE  \E f : IsOver(f, a, N) /\ f[a] = z /\ Follows(f, a, N, Next) /\ Keeps(f, a, N, Good)
<1> DEFINE Fits(f, k) == IsOver(f, a, k) /\ f[a] = z /\ Follows(f, a, k, Next) /\ Keeps(f, a, k, Good)
           P == {k \in Nat : \E f : Fits(f, k)}
<1>1. a \in P
  <2> DEFINE f == [n \in a..a |-> z]
  <2>1. f[a] = z /\ (a + 1)..a = {} /\ \A n \in a..a : n = a
    OBVIOUS
  <2>2. IsOver(f, a, a)
    BY DEF IsOver
  <2> HIDE DEF f
  <2>3. Fits(f, a)
    BY <2>1, <2>2 DEF Follows, Keeps
  <2> HIDE DEF Fits
  <2> QED BY <2>3
<1>2. ASSUME NEW k \in (a + 1)..N, k - 1 \in P PROVE k \in P
  <2>1. PICK f : Fits(f, k - 1)
    BY <1>2
  <2>2. k \in Nat /\ k - 1 \in Nat /\ k - 1 \in a..(k - 1) /\ a \in a..(k - 1)
    OBVIOUS
  <2> DEFINE v == Next[<<k, f[k - 1]>>]
             g == [n \in a..k |-> IF n = k THEN v ELSE f[n]]
  <2>3. f[k - 1] \in Good[k - 1]
    BY <2>1, <2>2 DEF Keeps
  <2>4. v \in Good[k]
    BY <2>3 DEF Preserves
  <2>5. g[k] = v /\ \A n \in a..(k - 1) : g[n] = f[n]
    BY <2>2
  <2>6. IsOver(g, a, k)
    BY DEF IsOver
  <2> HIDE DEF g
  <2>7. ASSUME NEW n \in (a + 1)..k PROVE g[n] = Next[<<n, g[n - 1]>>]
    <3>1. CASE n = k
      BY <2>2, <2>5, <3>1
    <3>2. CASE n # k
      <4>1. n \in (a + 1)..(k - 1) /\ n \in a..(k - 1) /\ n - 1 \in a..(k - 1)
        BY <2>2, <3>2
      <4> QED BY <2>1, <2>5, <4>1 DEF Follows
    <3> QED BY <3>1, <3>2
  <2>8. ASSUME NEW n \in a..k PROVE g[n] \in Good[n]
    <3>1. n = k \/ n \in a..(k - 1)
      BY <2>2
    <3> HIDE DEF v
    <3> QED BY <2>1, <2>4, <2>5, <3>1 DEF Keeps
  <2>9. g[a] = z
    BY <2>1, <2>2, <2>5
  <2>10. Fits(g, k)
    BY <2>6, <2>7, <2>8, <2>9 DEF Follows, Keeps
  <2> HIDE DEF Fits
  <2> QED BY <2>2, <2>10
<1>3. \A n \in a..N : n \in P
  <2>1. P \in SUBSET Nat
    <3> HIDE DEF Fits
    <3> QED OBVIOUS
  <2> HIDE DEF P
  <2> QED BY <1>1, <1>2, <2>1, IntervalInd
<1>4. N \in P
  <2>1. N \in a..N
    OBVIOUS
  <2> HIDE DEF P
  <2> QED BY <1>3, <2>1
<1> QED BY <1>4

LEMMA RecursionExists ==
    ASSUME NEW a \in Nat, NEW N \in Nat, a <= N, NEW T, NEW z \in T, NEW Next \in [Nat \X T -> T]
    PROVE  \E f \in [a..N -> T] : f[a] = z /\ Follows(f, a, N, Next)
<1> DEFINE Good == [n \in Nat |-> T]
<1>1. z \in Good[a] /\ \A n \in a..N : Good[n] = T
  OBVIOUS
<1>2. Preserves(Next, a, N, Good)
  <2> SUFFICES ASSUME NEW n \in (a + 1)..N, NEW t \in Good[n - 1] PROVE Next[<<n, t>>] \in Good[n]
    BY DEF Preserves
  <2>1. n \in Nat /\ n - 1 \in Nat
    OBVIOUS
  <2>2. Good[n] = T /\ Good[n - 1] = T
    BY <2>1
  <2> HIDE DEF Good
  <2> QED BY <2>1, <2>2
<1> HIDE DEF Good
<1>3. PICK f : IsOver(f, a, N) /\ f[a] = z /\ Follows(f, a, N, Next) /\ Keeps(f, a, N, Good)
  BY <1>1, <1>2, RecursionKeeps
<1>4. f \in [a..N -> T]
  BY <1>1, <1>3 DEF IsOver, Keeps
<1> QED BY <1>3, <1>4

LEMMA RecursionIsUnique ==
    ASSUME NEW a \in Nat, NEW N \in Nat, a <= N, NEW f, NEW g,
           IsOver(f, a, N), IsOver(g, a, N), f[a] = g[a], Alike(f, g, a, N)
    PROVE  f = g
<1> DEFINE P == {n \in Nat : f[n] = g[n]}
<1>1. P \in SUBSET Nat /\ a \in P
  OBVIOUS
<1>2. ASSUME NEW n \in (a + 1)..N, n - 1 \in P PROVE n \in P
  <2>1. n \in Nat
    OBVIOUS
  <2> QED BY <1>2, <2>1 DEF Alike
<1>3. \A n \in a..N : n \in P
  <2> HIDE DEF P
  <2> QED BY <1>1, <1>2, IntervalInd
<1>4. \A n \in a..N : f[n] = g[n]
  BY <1>3
<1> QED BY <1>4 DEF IsOver

LEMMA ToSetOfConcat ==
    ASSUME NEW S, NEW s \in Seq(S), NEW t \in Seq(S)
    PROVE  /\ s \o t \in Seq(S) /\ ToSet(s \o t) = ToSet(s) \cup ToSet(t)
           /\ \A y \in DOMAIN (s \o t) : \/ y \in DOMAIN s /\ (s \o t)[y] = s[y]
                                         \/ y - Len(s) \in DOMAIN t /\ (s \o t)[y] = t[y - Len(s)]
<1> DEFINE r == s \o t
<1>1. r \in Seq(S) /\ Len(r) = Len(s) + Len(t) /\ Len(s) \in Nat /\ Len(t) \in Nat
  OBVIOUS
<1>2. DOMAIN r = 1..Len(r) /\ DOMAIN s = 1..Len(s) /\ DOMAIN t = 1..Len(t)
  BY <1>1
<1>3. \A y \in 1..Len(r) : r[y] = IF y <= Len(s) THEN s[y] ELSE t[y - Len(s)]
  OBVIOUS
<1> HIDE DEF r
<1>4. \A y \in DOMAIN r : \/ y \in DOMAIN s /\ r[y] = s[y]
                          \/ y - Len(s) \in DOMAIN t /\ r[y] = t[y - Len(s)]
  BY <1>1, <1>2, <1>3
<1>5. \A y \in DOMAIN s : y \in DOMAIN r /\ r[y] = s[y]
  BY <1>1, <1>2, <1>3
<1>6. \A y \in DOMAIN t : y + Len(s) \in DOMAIN r /\ r[y + Len(s)] = t[y]
  <2> SUFFICES ASSUME NEW y \in 1..Len(t) PROVE y + Len(s) \in 1..Len(r) /\ r[y + Len(s)] = t[y]
    BY <1>2
  <2>1. y + Len(s) \in 1..Len(r) /\ ~(y + Len(s) <= Len(s)) /\ (y + Len(s)) - Len(s) = y
    BY <1>1
  <2> QED BY <1>3, <2>1
<1>7. ToSet(r) = ToSet(s) \cup ToSet(t)
  BY <1>4, <1>5, <1>6 DEF ToSet
<1> QED BY <1>1, <1>4, <1>7 DEF r

LEMMA SeqWiden ==
    ASSUME NEW A, NEW B, A \subseteq B, NEW s \in Seq(A)
    PROVE  s \in Seq(B)
<1>1. Len(s) \in Nat /\ s \in [1..Len(s) -> B]
  OBVIOUS
<1> QED BY <1>1

LEMMA ArrayOver ==
    ASSUME NEW S, NEW s \in Seq(S), NEW T, NEW f, f = [x \in DOMAIN s |-> f[x]],
           \A x \in DOMAIN s : f[x] \in T
    PROVE  f \in Seq(T) /\ DOMAIN f = DOMAIN s /\ Len(f) = Len(s)
<1>1. DOMAIN s = 1..Len(s) /\ Len(s) \in Nat
  OBVIOUS
<1>2. f \in [1..Len(s) -> T]
  BY <1>1
<1>3. f \in Seq(T) /\ Len(f) = Len(s)
  BY <1>1, <1>2
<1> QED BY <1>1, <1>2, <1>3

AppendSame(s, a, t, b) == Len(s) = Len(t) /\ Append(s, a) = Append(t, b)

LEMMA AppendSameFacts ==
    ASSUME NEW S, NEW s \in Seq(S), NEW t \in Seq(S), NEW v \in S, NEW w \in S, AppendSame(s, v, t, w)
    PROVE  s = t /\ v = w
<1>1. Len(s) \in Nat /\ s \in [1..Len(s) -> S] /\ t \in [1..Len(s) -> S]
  BY DEF AppendSame
<1>2. /\ Append(s, v)[Len(s) + 1] = v /\ \A x \in 1..Len(s) : Append(s, v)[x] = s[x]
      /\ Append(t, w)[Len(s) + 1] = w /\ \A x \in 1..Len(s) : Append(t, w)[x] = t[x]
  BY DEF AppendSame
<1>3. v = w /\ \A x \in 1..Len(s) : s[x] = t[x]
  BY <1>2 DEF AppendSame
<1>4. s = t
  BY <1>1, <1>3
<1> QED BY <1>3, <1>4

LEMMA ConcatInjective ==
    ASSUME NEW S, NEW s \in Seq(S), NEW t \in Seq(S), IsInjective(s), IsInjective(t),
           ToSet(s) \cap ToSet(t) = {}
    PROVE  IsInjective(s \o t)
<1> DEFINE r == s \o t
           a == Len(s)
<1>1. \A y \in DOMAIN r : \/ y \in DOMAIN s /\ r[y] = s[y]
                          \/ y - a \in DOMAIN t /\ r[y] = t[y - a]
  BY ToSetOfConcat
<1>2. a \in Nat /\ DOMAIN r \subseteq Nat
  <2>1. r \in Seq(S) /\ a \in Nat
    OBVIOUS
  <2> HIDE DEF r
  <2> QED BY <2>1
<1> HIDE DEF r, a
<1>3. \A y \in DOMAIN s, z \in DOMAIN t : s[y] # t[z]
  BY DEF ToSet
<1>4. /\ \A y, z \in DOMAIN s : s[y] = s[z] => y = z
      /\ \A y, z \in DOMAIN t : t[y] = t[z] => y = z
  BY DEF IsInjective
<1>5. ASSUME NEW y \in DOMAIN r, NEW z \in DOMAIN r, r[y] = r[z] PROVE y = z
  <2>1. CASE y \in DOMAIN s /\ r[y] = s[y] /\ z \in DOMAIN s /\ r[z] = s[z]
    BY <1>4, <1>5, <2>1
  <2>2. CASE y - a \in DOMAIN t /\ r[y] = t[y - a] /\ z - a \in DOMAIN t /\ r[z] = t[z - a]
    <3>1. y - a = z - a
      BY <1>4, <1>5, <2>2
    <3> QED BY <1>2, <3>1
  <2>3. CASE y \in DOMAIN s /\ r[y] = s[y] /\ z - a \in DOMAIN t /\ r[z] = t[z - a]
    BY <1>3, <1>5, <2>3
  <2>4. CASE y - a \in DOMAIN t /\ r[y] = t[y - a] /\ z \in DOMAIN s /\ r[z] = s[z]
    BY <1>3, <1>5, <2>4
  <2> QED BY <1>1, <2>1, <2>2, <2>3, <2>4
<1> QED BY <1>5 DEF IsInjective, r

LEMMA ConcatApart ==
    ASSUME NEW S, NEW s \in Seq(S), NEW t \in Seq(S), IsInjective(s \o t)
    PROVE  IsInjective(s) /\ ToSet(s) \cap ToSet(t) = {}
<1> DEFINE r == s \o t
           a == Len(s)
<1>1. r \in Seq(S) /\ Len(r) = a + Len(t) /\ a \in Nat /\ Len(t) \in Nat
  OBVIOUS
<1>2. DOMAIN r = 1..Len(r) /\ DOMAIN s = 1..a /\ DOMAIN t = 1..Len(t)
  BY <1>1
<1>3. \A y \in 1..Len(r) : r[y] = IF y <= a THEN s[y] ELSE t[y - a]
  OBVIOUS
<1> HIDE DEF r, a
<1>4. \A y \in DOMAIN s : y \in DOMAIN r /\ y <= a /\ r[y] = s[y]
  BY <1>1, <1>2, <1>3
<1>5. ASSUME NEW y \in 1..Len(t)
      PROVE  y + a \in DOMAIN r /\ ~(y + a <= a) /\ r[y + a] = t[y]
  <2>1. y + a \in 1..Len(r) /\ ~(y + a <= a) /\ (y + a) - a = y
    BY <1>1
  <2> QED BY <1>2, <1>3, <2>1
<1>6. \A y, z \in DOMAIN r : r[y] = r[z] => y = z
  BY DEF IsInjective, r
<1>7. IsInjective(s)
  BY <1>4, <1>6 DEF IsInjective
<1>8. ToSet(s) \cap ToSet(t) = {}
  <2> SUFFICES ASSUME NEW y \in DOMAIN s, NEW z \in DOMAIN t, s[y] = t[z] PROVE FALSE
    BY DEF ToSet
  <2>1. y \in DOMAIN r /\ y <= a /\ r[y] = s[y]
    BY <1>4
  <2>2. z + a \in DOMAIN r /\ ~(z + a <= a) /\ r[z + a] = t[z]
    BY <1>2, <1>5
  <2>3. y = z + a
    BY <1>6, <2>1, <2>2
  <2> QED BY <2>1, <2>2, <2>3
<1> QED BY <1>7, <1>8

\* No element is in two of the sequences, or twice in one.
Apart(ss) ==
    /\ \A x \in DOMAIN ss : IsInjective(ss[x])
    /\ \A x, y \in DOMAIN ss : x # y => ToSet(ss[x]) \cap ToSet(ss[y]) = {}

DisjointUpTo(ss, n) == \A x, y \in 1..n : x # y => ToSet(ss[x]) \cap ToSet(ss[y]) = {}

\* The elements of a flattened sequence of sequences are theirs.
LEMMA FlattenFacts ==
    ASSUME NEW S, NEW ss \in Seq(Seq(S))
    PROVE  /\ FlattenSeq(ss) \in Seq(S)
           /\ ToSet(FlattenSeq(ss)) = UNION {ToSet(ss[x]) : x \in DOMAIN ss}
           /\ Apart(ss) => IsInjective(FlattenSeq(ss))
           /\ IsInjective(FlattenSeq(ss)) => DisjointUpTo(ss, Len(ss))
<1> DEFINE N == Len(ss)
<1>1. N \in Nat /\ DOMAIN ss = 1..N /\ \A x \in 1..N : ss[x] \in Seq(S)
  OBVIOUS
<1>2. CASE N = 0
  <2>1. FlattenSeq(ss) = ss /\ ss = <<>>
    BY <1>2 DEF FlattenSeq
  <2>2. IsInjective(<<>>)
    BY DEF IsInjective
  <2>3. DisjointUpTo(ss, N)
    BY <1>2 DEF DisjointUpTo
  <2> QED BY <2>1, <2>2, <2>3 DEF ToSet
<1>3. CASE N # 0
  <2> DEFINE Following(h, i) == IF i = 1 THEN ss[i] ELSE h[i - 1] \o ss[i]
             T == Seq(S)
             Step == [p \in Nat \X T |-> IF p[1] \in 1..N THEN p[2] \o ss[p[1]] ELSE <<>>]
             h == CHOOSE h : h = [i \in 1..N |-> Following(h, i)]
  <2>1. Step \in [Nat \X T -> T] /\ \A i \in 1..N : \A t \in T : Step[<<i, t>>] = t \o ss[i]
    <3>1. ASSUME NEW p \in Nat \X T PROVE (IF p[1] \in 1..N THEN p[2] \o ss[p[1]] ELSE <<>>) \in T
      <4>1. p[2] \in T
        OBVIOUS
      <4>2. CASE p[1] \in 1..N
        <5>1. ss[p[1]] \in Seq(S)
          BY <1>1, <4>2
        <5> QED BY <4>1, <4>2, <5>1
      <4>3. CASE p[1] \notin 1..N
        BY <4>3
      <4> QED BY <4>2, <4>3
    <3>2. ASSUME NEW i \in 1..N, NEW t \in T PROVE Step[<<i, t>>] = t \o ss[i]
      <4>1. <<i, t>> \in Nat \X T /\ <<i, t>>[1] = i /\ <<i, t>>[2] = t
        BY <1>1
      <4> HIDE DEF T
      <4> QED BY <4>1
    <3> HIDE DEF T
    <3> QED BY <3>1, <3>2
  <2> HIDE DEF Step
  <2>2. PICK f \in [1..N -> T] : /\ f[1] = ss[1]
                                 /\ \A n \in (1 + 1)..N : f[n] = Step[<<n, f[n - 1]>>]
    <3>1. 1 \in Nat /\ 1 <= N /\ ss[1] \in T
      BY <1>1, <1>3
    <3>2. N \in Nat /\ Step \in [Nat \X T -> T]
      BY <1>1, <2>1
    <3> HIDE DEF T, N
    <3>3. \E f \in [1..N -> T] : f[1] = ss[1] /\ Follows(f, 1, N, Step)
      BY <3>1, <3>2, RecursionExists, Zenon
    <3> QED BY <3>3 DEF Follows
  <2>3. \A n \in (1 + 1)..N : f[n] = f[n - 1] \o ss[n]
    <3>1. ASSUME NEW n \in (1 + 1)..N PROVE f[n] = f[n - 1] \o ss[n]
      <4>1. n \in 1..N /\ n - 1 \in 1..N
        BY <1>1
      <4>2. f[n - 1] \in T
        BY <4>1
      <4> HIDE DEF T
      <4> QED BY <2>1, <2>2, <4>1, <4>2
    <3> QED BY <3>1
  <2>4. f = [i \in 1..N |-> Following(f, i)]
    <3>1. ASSUME NEW i \in 1..N PROVE f[i] = Following(f, i)
      <4>1. CASE i = 1
        BY <2>2, <4>1
      <4>2. CASE i # 1
        <5>1. i \in (1 + 1)..N
          BY <1>1, <4>2
        <5> QED BY <2>3, <4>2, <5>1
      <4> QED BY <4>1, <4>2
    <3> HIDE DEF Following
    <3> QED BY <3>1
  <2>5. h = [i \in 1..N |-> Following(h, i)]
    <3> HIDE DEF Following
    <3> QED BY <2>4
  <2>6. FlattenSeq(ss) = h[N]
    BY <1>3 DEF FlattenSeq
  <2> HIDE DEF h
  <2>7. f = h
    <3>1. 1 \in Nat /\ 1 <= N
      BY <1>1, <1>3
    <3>2. \A i \in 1..N : h[i] = Following(h, i)
      <4> HIDE DEF Following
      <4> QED BY <2>5
    <3>3. f[1] = h[1]
      <4>1. 1 \in 1..N
        BY <1>1, <1>3
      <4> QED BY <2>2, <3>2, <4>1
    <3>4. ASSUME NEW n \in (1 + 1)..N, f[n - 1] = h[n - 1] PROVE f[n] = h[n]
      <4>1. n \in 1..N /\ n # 1
        BY <1>1
      <4> QED BY <2>3, <3>2, <3>4, <4>1
    <3>5. f = [n \in 1..N |-> f[n]]
      OBVIOUS
    <3>6. h = [n \in 1..N |-> h[n]]
      <4> HIDE DEF Following
      <4> QED BY <2>5
    <3>7. \A n \in (1 + 1)..N : f[n - 1] = h[n - 1] => f[n] = h[n]
      BY <3>4
    <3>8. N \in Nat
      BY <1>1
    <3> HIDE DEF N, Following
    <3>9. IsOver(f, 1, N) /\ IsOver(h, 1, N) /\ Alike(f, h, 1, N)
      BY <3>5, <3>6, <3>7 DEF IsOver, Alike
    <3> QED BY <3>1, <3>3, <3>8, <3>9, RecursionIsUnique
  <2> DEFINE Holds(n) == /\ ToSet(f[n]) = UNION {ToSet(ss[x]) : x \in 1..n}
                         /\ Apart(ss) => IsInjective(f[n])
                         /\ IsInjective(f[n]) => DisjointUpTo(ss, n)
             P == {n \in Nat : n \in 1..N => Holds(n)}
  <2>8. 1 \in P
    <3>1. {ToSet(ss[x]) : x \in 1..1} = {ToSet(ss[1])}
      <4>1. 1..1 = {1}
        OBVIOUS
      <4> QED BY <4>1
    <3>2. 1 \in DOMAIN ss
      BY <1>1, <1>3
    <3>3. Apart(ss) => IsInjective(ss[1])
      BY <3>2, Zenon DEF Apart
    <3>4. Apart(ss) => IsInjective(f[1])
      BY <2>2, <3>3
    <3>5. ToSet(f[1]) = UNION {ToSet(ss[x]) : x \in 1..1}
      BY <2>2, <3>1
    <3>6. DisjointUpTo(ss, 1)
      <4>1. \A x, y \in 1..1 : x = y
        OBVIOUS
      <4> QED BY <4>1 DEF DisjointUpTo
    <3> QED BY <3>4, <3>5, <3>6
  <2>9. ASSUME NEW n \in (1 + 1)..N, n - 1 \in P PROVE n \in P
    <3>1. n \in Nat /\ n \in 1..N /\ n - 1 \in 1..N
      BY <1>1
    <3>2. /\ ToSet(f[n - 1]) = UNION {ToSet(ss[x]) : x \in 1..(n - 1)}
          /\ Apart(ss) => IsInjective(f[n - 1])
          /\ IsInjective(f[n - 1]) => DisjointUpTo(ss, n - 1)
      <4>1. Holds(n - 1)
        <5> HIDE DEF Holds
        <5> QED BY <2>9, <3>1
      <4> QED BY <4>1
    <3>3. f[n] = f[n - 1] \o ss[n] /\ f[n - 1] \in Seq(S) /\ ss[n] \in Seq(S)
      BY <1>1, <2>3, <3>1
    <3>4. ToSet(f[n]) = ToSet(f[n - 1]) \cup ToSet(ss[n])
      BY <3>3, ToSetOfConcat
    <3>5. \A x : x \in 1..n <=> x \in 1..(n - 1) \/ x = n
      BY <3>1
    <3>6. {ToSet(ss[x]) : x \in 1..n} = {ToSet(ss[x]) : x \in 1..(n - 1)} \cup {ToSet(ss[n])}
      BY <3>5
    <3>7. ToSet(f[n]) = UNION {ToSet(ss[x]) : x \in 1..n}
      BY <3>2, <3>4, <3>6
    <3>8. ASSUME Apart(ss) PROVE IsInjective(f[n])
      <4>1. IsInjective(f[n - 1])
        BY <3>2, <3>8
      <4>2. IsInjective(ss[n]) /\ \A x \in 1..(n - 1) : ToSet(ss[x]) \cap ToSet(ss[n]) = {}
        <5>1. \A x \in 1..(n - 1) : x \in DOMAIN ss /\ x # n
          BY <1>1, <3>1
        <5> QED BY <1>1, <3>1, <3>8, <5>1 DEF Apart
      <4>3. ToSet(f[n - 1]) \cap ToSet(ss[n]) = {}
        BY <3>2, <4>2
      <4>4. IsInjective(f[n - 1] \o ss[n])
        BY <3>3, <4>1, <4>2, <4>3, ConcatInjective
      <4> QED BY <3>3, <4>4
    <3>9. ASSUME IsInjective(f[n]) PROVE DisjointUpTo(ss, n)
      <4>1. IsInjective(f[n - 1]) /\ ToSet(f[n - 1]) \cap ToSet(ss[n]) = {}
        <5>1. IsInjective(f[n - 1] \o ss[n])
          BY <3>3, <3>9
        <5> QED BY <3>3, <5>1, ConcatApart
      <4>2. \A x, y \in 1..(n - 1) : x # y => ToSet(ss[x]) \cap ToSet(ss[y]) = {}
        BY <3>2, <4>1 DEF DisjointUpTo
      <4>3. \A x \in 1..(n - 1) : ToSet(ss[x]) \cap ToSet(ss[n]) = {}
        BY <3>2, <4>1
      <4> QED BY <3>5, <4>2, <4>3 DEF DisjointUpTo
    <3> QED BY <3>1, <3>7, <3>8, <3>9
  <2>10. \A n \in 1..N : n \in P
    <3>1. P \in SUBSET Nat /\ 1 \in Nat
      OBVIOUS
    <3> HIDE DEF P, N
    <3> QED BY <1>1, <2>8, <2>9, <3>1, IntervalInd
  <2>11. N \in 1..N
    BY <1>1, <1>3
  <2>12. Holds(N)
    <3> HIDE DEF Holds
    <3> QED BY <2>10, <2>11
  <2> HIDE DEF P
  <2> QED BY <1>1, <2>6, <2>7, <2>11, <2>12
<1> QED BY <1>2, <1>3
=============================================================================
