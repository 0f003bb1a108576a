----------------------------- MODULE MCResolve -----------------------------
(* Lists of nodes that may depend on each other, on themselves or on x, that *)
(* no node is named: four with at most one dependency each, three with at    *)
(* most two, and one list with a duplicate.                                  *)
EXTENDS Resolve

Names5 == {"a", "b", "c", "d", "x"}
N(n, deps) == [name |-> n, depends |-> deps]
One == {<<>>} \cup {<<m>> : m \in Names5}
Two == {deps \in UNION {[1..n -> {"a", "b", "c"}] : n \in 0..2} :
            Len(deps) = 2 => deps[1] # deps[2]}

SmallArguments ==
    {[nodes |-> <<N("a", p), N("b", q), N("c", r), N("d", s)>>, skipped |-> sk] :
        p, q, r, s \in One, sk \in {{}, {"a"}, {"b", "x"}}}
    \cup
    {[nodes |-> <<N("a", p), N("b", q), N("c", r)>>, skipped |-> sk] :
        p, q, r \in Two, sk \in {{}, {"c"}}}
    \cup
    {[nodes |-> <<N("a", <<>>), N("b", p), N("a", <<"b">>)>>, skipped |-> sk] :
        p \in One, sk \in {{}, {"c"}, {"x"}}}
=============================================================================
