-------------------------- MODULE MCMessageRouting --------------------------
(* Instances of MessageRouting for TLC: a card in every circuit, and many     *)
(* ways in which routers and access points join the circuits.                *)
EXTENDS MessageRouting, TLC

CONSTANTS n1, n2, n3, r1, r2, w1, w2, w3, a, b, c

TwoCards      == {n1, n2}
ThreeCards    == {n1, n2, n3}
NoHop         == {}
OneRouter     == {r1}
TwoRouters    == {r1, r2}
ThreePoints   == {w1, w2, w3}
ThreeCircuits == {a, b, c}

CardsApart(f) == \A n \in Card : f[n] = CASE n = n1 -> a [] n = n2 -> b [] n = n3 -> c

\* Two routers anywhere, both connectors in one circuit included.
Routed ==
  {[circuit |-> f, powered |-> {}, links |-> <<>>] :
     f \in {g \in [Node -> Circuit] : CardsApart(g)}}

\* An access point in a and two anywhere, in range of each other or not, with
\* and without power.  The router joins a and c; only the air leads to b.
Near == {R \in [AccessPoint -> SUBSET AccessPoint] :
           \A v, w \in AccessPoint : v \in R[w] <=> v # w /\ w \in R[v]}
Wireless ==
  [circuit : {g \in [Node -> Circuit] :
                /\ CardsApart(g) /\ g[<<r1, 1>>] = a /\ g[<<r1, 2>>] = c
                /\ g[w1] = a},
   powered : SUBSET AccessPoint, links : Near]

Symmetry == Permutations(Router)
=============================================================================
