------------------------ MODULE NetworkCircuit_proofs ------------------------
(***************************************************************************)
(* Proofs about NetworkCircuit, for any connectors, poles, cards and       *)
(* cables, when one player builds.                                         *)
(*                                                                         *)
(* They are in three layers: what Reach is in a graph that gains or loses  *)
(* an edge; what the calls on circuits do to caches that fit such a graph; *)
(* and which graph the cables and cards make, which no action changes by   *)
(* more than one edge.                                                     *)
(***************************************************************************)
EXTENDS NetworkCircuit, FiniteSetTheorems, TLAPS

-----------------------------------------------------------------------------
(* Graphs.                                                                 *)

Graph == [Node -> SUBSET Node]

\* Every link has two ends that know of it.
Sym(con) == \A a, b \in Node : b \in con[a] <=> a \in con[b]

LEMMA ReachClosed ==
  ASSUME NEW con \in Graph, NEW n \in Node
  PROVE  /\ Reach(con, n) \subseteq Node /\ n \in Reach(con, n)
         /\ \A x \in Reach(con, n) : con[x] \subseteq Reach(con, n)
  BY DEF Reach, Graph

LEMMA ReachLeast ==
  ASSUME NEW con \in Graph, NEW n \in Node, NEW S \in SUBSET Node,
         n \in S, \A x \in S : con[x] \subseteq S
  PROVE  Reach(con, n) \subseteq S
  BY DEF Reach

LEMMA ReachTrans ==
  ASSUME NEW con \in Graph, NEW n \in Node, NEW m \in Reach(con, n)
  PROVE  Reach(con, m) \subseteq Reach(con, n)
  BY ReachClosed, ReachLeast

\* In a network of links the nodes fall into classes.
LEMMA ReachSame ==
  ASSUME NEW con \in Graph, Sym(con), NEW n \in Node, NEW m \in Reach(con, n)
  PROVE  Reach(con, m) = Reach(con, n)
  <1> DEFINE S == {x \in Node : n \in Reach(con, x)}
  <1>1. n \in S
    BY ReachClosed
  <1>2. ASSUME NEW x \in S, NEW y \in con[x]
        PROVE  y \in S
    <2>1. y \in Node /\ x \in con[y]
      BY DEF Graph, Sym
    <2>2. x \in Reach(con, y)
      BY <2>1, ReachClosed
    <2>3. Reach(con, x) \subseteq Reach(con, y)
      BY <2>1, <2>2, ReachTrans
    <2> QED
      BY <2>1, <2>3
  <1>3. Reach(con, n) \subseteq S
    BY <1>1, <1>2, ReachLeast
  <1>4. m \in Node /\ n \in Reach(con, m)
    BY <1>3
  <1> QED
    BY <1>4, ReachTrans

LEMMA ReachApart ==
  ASSUME NEW con \in Graph, Sym(con), NEW n \in Node, NEW m \in Node
  PROVE  /\ m \in Reach(con, n) <=> n \in Reach(con, m)
         /\ m \notin Reach(con, n) => Reach(con, m) \cap Reach(con, n) = {}
  <1>1. m \in Reach(con, n) => n \in Reach(con, m)
    BY ReachClosed, ReachSame
  <1>2. n \in Reach(con, m) => m \in Reach(con, n)
    BY ReachClosed, ReachSame
  <1>3. ASSUME NEW x \in Reach(con, m) \cap Reach(con, n)
        PROVE  m \in Reach(con, n)
    <2>1. Reach(con, x) = Reach(con, m) /\ Reach(con, x) = Reach(con, n)
      BY ReachSame
    <2> QED
      BY <2>1, ReachClosed
  <1> QED
    BY <1>1, <1>2, <1>3

\* more is less with a link between a and b.
Joins(less, more, a, b) ==
  /\ less \in Graph /\ more \in Graph /\ Sym(less) /\ Sym(more)
  /\ a \in Node /\ b \in Node /\ b \in more[a]
  /\ \A x \in Node : less[x] \subseteq more[x]
  /\ \A x, y \in Node : y \in more[x] => y \in less[x] \/ {x, y} \subseteq {a, b}

\* The classes of a and b become one, the others stay.
LEMMA JoinReach ==
  ASSUME NEW less, NEW more, NEW a, NEW b, Joins(less, more, a, b)
  PROVE  /\ Reach(more, a) = Reach(less, a) \cup Reach(less, b)
         /\ Reach(more, b) = Reach(more, a)
         /\ \A n \in Node \ Reach(more, a) : Reach(more, n) = Reach(less, n)
  <1> USE DEF Joins
  <1> DEFINE U == Reach(less, a) \cup Reach(less, b)
  <1>1. ASSUME NEW n \in Node
        PROVE  Reach(less, n) \subseteq Reach(more, n)
    <2>1. \A x \in Reach(more, n) : less[x] \subseteq Reach(more, n)
      BY ReachClosed
    <2> QED
      BY <2>1, ReachClosed, ReachLeast
  <1>2. /\ U \subseteq Node /\ a \in U /\ b \in U
        /\ \A x \in U : more[x] \subseteq U
    BY ReachClosed DEF Graph
  <1>3. Reach(more, a) \subseteq U /\ Reach(more, b) \subseteq U
    <2> HIDE DEF U
    <2>1. U \in SUBSET Node /\ more \in Graph
      BY <1>2
    <2> QED
      BY <1>2, <2>1, ReachLeast
  <1>4. b \in Reach(more, a)
    BY ReachClosed
  <1>5. Reach(more, b) = Reach(more, a)
    BY <1>4, ReachSame
  <1>6. Reach(more, a) = U
    BY <1>1, <1>3, <1>5
  <1>7. ASSUME NEW n \in Node \ U
        PROVE  Reach(more, n) = Reach(less, n)
    <2>1. Reach(less, n) \cap U = {}
      BY ReachApart
    <2>2. \A x \in Reach(less, n) : more[x] \subseteq Reach(less, n)
      BY <1>2, <2>1, ReachClosed DEF Graph
    <2>3. Reach(more, n) \subseteq Reach(less, n)
      BY <2>2, ReachClosed, ReachLeast
    <2> QED
      BY <1>1, <2>3
  <1> QED
    BY <1>5, <1>6, <1>7

-----------------------------------------------------------------------------
(* Circuits that fit a graph.                                              *)

News == SUBSET (Node \X Node \X {"joined", "left"})
NetSet == [circuit : [Node -> Circuit \cup {None}],
           nodes : [Circuit -> SUBSET Node], news : News]

\* What the caches say of n is right.
FitsAt(net, con, n) ==
  IF net.circuit[n] = None THEN Reach(con, n) = {n}
  ELSE /\ net.nodes[net.circuit[n]] = Reach(con, n)
       /\ {m \in Node : net.circuit[m] = net.circuit[n]} = Reach(con, n)

Fits(net, con) == net \in NetSet /\ \A n \in Node : FitsAt(net, con, n)

\* k is a circuit no node refers to.
Fresh(net, k) == k \in Circuit /\ k # None /\ \A n \in Node : net.circuit[n] # k

LEMMA RecalculateIs ==
  ASSUME NEW net \in NetSet, NEW con \in Graph, NEW k \in Circuit, NEW n \in Node
  PROVE  LET r == Recalculate(net, con, k, n)
         IN /\ r \in NetSet /\ r.news = net.news
            /\ r.circuit = [m \in Node |-> IF m \in Reach(con, n) THEN k
                                           ELSE net.circuit[m]]
            /\ r.nodes = [net.nodes EXCEPT ![k] = Reach(con, n)]
  BY ReachClosed DEF NetSet, Recalculate

\* Recalculate mends whatever was wrong of the nodes it reaches.
LEMMA RecalculateFits ==
  ASSUME NEW net \in NetSet, NEW con \in Graph, Sym(con), NEW k \in Circuit,
         k # None, NEW n \in Node,
         \A m \in Node \ Reach(con, n) :
           FitsAt(net, con, m) /\ net.circuit[m] # k
  PROVE  Fits(Recalculate(net, con, k, n), con)
  <1> DEFINE r == Recalculate(net, con, k, n)
             R == Reach(con, n)
  <1>1. /\ r \in NetSet
        /\ r.circuit = [m \in Node |-> IF m \in R THEN k ELSE net.circuit[m]]
        /\ r.nodes = [net.nodes EXCEPT ![k] = R]
    BY RecalculateIs
  <1>2. net.nodes \in [Circuit -> SUBSET Node] /\ R \subseteq Node
        /\ net.circuit \in [Node -> Circuit \cup {None}]
    BY ReachClosed DEF NetSet
  <1> HIDE DEF r
  <1>3. ASSUME NEW m \in R
        PROVE  FitsAt(r, con, m)
    <2>1. Reach(con, m) = R
      BY ReachSame
    <2>2. r.circuit[m] = k /\ r.nodes[k] = R
      BY <1>1, <1>2
    <2>3. {x \in Node : r.circuit[x] = k} = R
      BY <1>1, <1>2
    <2> QED
      BY <2>1, <2>2, <2>3 DEF FitsAt
  <1>4. ASSUME NEW m \in Node \ R
        PROVE  FitsAt(r, con, m)
    <2>1. r.circuit[m] = net.circuit[m] /\ r.circuit[m] # k
      BY <1>1
    <2>2. Reach(con, m) \cap R = {}
      BY ReachApart
    <2>3. CASE r.circuit[m] = None
      BY <2>1, <2>3 DEF FitsAt
    <2>4. CASE r.circuit[m] # None
      <3>1. r.nodes[r.circuit[m]] = net.nodes[net.circuit[m]]
        BY <1>1, <1>2, <2>1, <2>4
      <3>2. {x \in Node : net.circuit[x] = net.circuit[m]} = Reach(con, m)
        BY <2>1, <2>4 DEF FitsAt
      <3>3. {x \in Node : r.circuit[x] = r.circuit[m]} = Reach(con, m)
        BY <1>1, <2>1, <2>2, <3>2
      <3> QED
        BY <2>1, <2>4, <3>1, <3>3 DEF FitsAt
    <2> QED
      BY <2>3, <2>4
  <1> QED
    BY <1>1, <1>2, <1>3, <1>4 DEF Fits, r

LEMMA SetCircuitIs ==
  ASSUME NEW net \in NetSet, NEW n \in Node, NEW k \in Circuit \cup {None}
  PROVE  LET r == SetCircuit(net, n, k)
         IN /\ r \in NetSet /\ r.nodes = net.nodes /\ r.news = net.news
            /\ r.circuit = [net.circuit EXCEPT ![n] = k]
  BY DEF NetSet, SetCircuit

\* What ConnectNodes makes of two circuits.
Merged(net, x, y, a, b) ==
  LET both == Merge(net, x, y)
      sum  == [circuit |-> both.circuit, nodes |-> both.nodes, news |-> both.news]
  IN SetCircuit(SetCircuit(sum, a, both.into), b, both.into)

\* The circuits x and y hold the class of a and b between them.
Halves(net, con, x, y, a, b) ==
  /\ x \in Circuit /\ y \in Circuit /\ x # None /\ y # None
  /\ a \in Node /\ b \in Reach(con, a)
  /\ net.nodes[x] \cup net.nodes[y] = Reach(con, a)
  /\ \A m \in Reach(con, a) : /\ m \notin net.nodes[x] => net.circuit[m] = y
                              /\ m \notin net.nodes[y] => net.circuit[m] = x
  /\ \A m \in Node \ Reach(con, a) : /\ FitsAt(net, con, m)
                                     /\ net.circuit[m] # x
                                     /\ net.circuit[m] # y

\* operator+ joins the two halves: the nodes of F move to T.
LEMMA MergeFits ==
  ASSUME NEW net \in NetSet, NEW con \in Graph, Sym(con),
         NEW x, NEW y, NEW a, NEW b, Halves(net, con, x, y, a, b)
  PROVE  LET done == Merged(net, x, y, a, b)
         IN /\ Fits(done, con)
            /\ net.nodes[x] \X net.nodes[y] \X {"joined"} \subseteq done.news
            /\ net.nodes[y] \X net.nodes[x] \X {"joined"} \subseteq done.news
  <1> USE DEF Halves
  <1> DEFINE U    == Reach(con, a)
             both == Merge(net, x, y)
             T    == both.into
             sum  == [circuit |-> both.circuit, nodes |-> both.nodes,
                      news |-> both.news]
             done == SetCircuit(SetCircuit(sum, a, T), b, T)
  <1>1. PICK F \in {x, y} :
          /\ {F, T} = {x, y}
          /\ both.circuit = [m \in Node |-> IF m \in net.nodes[F] THEN T
                                            ELSE net.circuit[m]]
          /\ both.nodes = [net.nodes EXCEPT ![T] = @ \cup net.nodes[F]]
          /\ both.news = net.news
               \cup (net.nodes[F] \X net.nodes[T] \X {"joined"})
               \cup (net.nodes[T] \X net.nodes[F] \X {"joined"})
    BY DEF Merge
  <1>2. /\ net.nodes \in [Circuit -> SUBSET Node]
        /\ net.circuit \in [Node -> Circuit \cup {None}]
        /\ net.news \in News /\ U \subseteq Node /\ a \in U /\ b \in Node
    BY ReachClosed DEF NetSet
  <1>3. /\ T \in Circuit /\ T # None /\ F \in Circuit
        /\ net.nodes[F] \cup net.nodes[T] = U
        /\ \A m \in U : m \notin net.nodes[F] => net.circuit[m] = T
        /\ \A m \in Node \ U : net.circuit[m] # T /\ m \notin net.nodes[F]
    BY <1>1
  <1> HIDE DEF both, T, U
  <1>4. /\ both.circuit \in [Node -> Circuit \cup {None}]
        /\ \A m \in Node : both.circuit[m] = IF m \in U THEN T
                                              ELSE net.circuit[m]
    BY <1>1, <1>2, <1>3
  <1>5. /\ both.nodes \in [Circuit -> SUBSET Node] /\ both.nodes[T] = U
        /\ \A k \in Circuit : k # T => both.nodes[k] = net.nodes[k]
    BY <1>1, <1>2, <1>3
  <1>6. both.news \in News
    BY <1>1, <1>2, <1>3 DEF News
  <1>7. /\ done \in NetSet /\ done.nodes = both.nodes /\ done.news = both.news
        /\ done.circuit = [[both.circuit EXCEPT ![a] = T] EXCEPT ![b] = T]
    <2>1. /\ sum \in NetSet /\ sum.circuit = both.circuit
          /\ sum.nodes = both.nodes /\ sum.news = both.news
      BY <1>4, <1>5, <1>6 DEF NetSet
    <2> HIDE DEF sum
    <2> DEFINE mid == SetCircuit(sum, a, T)
    <2>2. /\ mid \in NetSet /\ mid.circuit = [sum.circuit EXCEPT ![a] = T]
          /\ mid.nodes = sum.nodes /\ mid.news = sum.news
      BY <1>2, <1>3, <2>1, SetCircuitIs
    <2>3. done = SetCircuit(mid, b, T)
      OBVIOUS
    <2> HIDE DEF mid
    <2>4. /\ SetCircuit(mid, b, T) \in NetSet
          /\ SetCircuit(mid, b, T).circuit = [mid.circuit EXCEPT ![b] = T]
          /\ SetCircuit(mid, b, T).nodes = mid.nodes
          /\ SetCircuit(mid, b, T).news = mid.news
      <3>1. mid \in NetSet /\ b \in Node /\ T \in Circuit \cup {None}
        BY <1>2, <1>3, <2>2
      <3> QED
        BY <3>1, SetCircuitIs
    <2> QED
      BY <2>1, <2>2, <2>3, <2>4
  <1>8. b \in U
    BY DEF U
  <1>9. done.circuit = both.circuit
    BY <1>2, <1>3, <1>4, <1>7, <1>8
  <1> HIDE DEF done, sum
  <1>10. ASSUME NEW m \in U
         PROVE  FitsAt(done, con, m)
    <2>1. Reach(con, m) = U
      BY <1>10, ReachSame DEF U
    <2>2. {n \in Node : done.circuit[n] = T} = U
      BY <1>2, <1>3, <1>4, <1>9
    <2>3. done.circuit[m] = T /\ done.nodes[T] = U
      BY <1>2, <1>4, <1>5, <1>7, <1>9
    <2> QED
      BY <1>3, <2>1, <2>2, <2>3 DEF FitsAt
  <1>11. ASSUME NEW m \in Node \ U
         PROVE  FitsAt(done, con, m)
    <2>1. done.circuit[m] = net.circuit[m] /\ net.circuit[m] # T
      BY <1>3, <1>4, <1>9
    <2>2. Reach(con, m) \cap U = {} /\ FitsAt(net, con, m)
      BY ReachApart DEF U
    <2>3. CASE net.circuit[m] = None
      BY <2>1, <2>2, <2>3 DEF FitsAt
    <2>4. CASE net.circuit[m] # None
      <3>1. done.nodes[done.circuit[m]] = net.nodes[net.circuit[m]]
        BY <1>2, <1>5, <1>7, <2>1, <2>4
      <3>2. {n \in Node : net.circuit[n] = net.circuit[m]} = Reach(con, m)
        BY <2>2, <2>4 DEF FitsAt
      <3>3. {n \in Node : done.circuit[n] = done.circuit[m]} = Reach(con, m)
        BY <1>4, <1>9, <2>1, <2>2, <3>2
      <3> QED
        BY <2>1, <2>2, <2>4, <3>1, <3>3 DEF FitsAt
    <2> QED
      BY <2>3, <2>4
  <1>12. /\ net.nodes[x] \X net.nodes[y] \X {"joined"} \subseteq done.news
         /\ net.nodes[y] \X net.nodes[x] \X {"joined"} \subseteq done.news
    BY <1>1, <1>7
  <1> QED
    BY <1>7, <1>10, <1>11, <1>12 DEF Fits, Merged, done, sum, T, both

\* Nodes of two circuits that come to one were told of each other.
Told(net, then) ==
  \A m, n \in Node :
    /\ net.circuit[m] # None /\ net.circuit[n] # None
    /\ net.circuit[m] # net.circuit[n]
    /\ then.circuit[m] # None /\ then.circuit[m] = then.circuit[n]
    => <<m, n, "joined">> \in then.news

\* In the class of a: all have its circuit, or a is alone and has none.
LEMMA ClassOf ==
  ASSUME NEW net, NEW con \in Graph, Sym(con), Fits(net, con), NEW a \in Node
  PROVE  /\ net.circuit[a] \in Circuit \cup {None}
         /\ net.circuit[a] # None =>
              /\ net.nodes[net.circuit[a]] = Reach(con, a)
              /\ \A m \in Node :
                   m \in Reach(con, a) <=> net.circuit[m] = net.circuit[a]
         /\ net.circuit[a] = None => Reach(con, a) = {a}
  <1>1. net \in NetSet /\ FitsAt(net, con, a)
    BY DEF Fits
  <1>2. net.circuit \in [Node -> Circuit \cup {None}]
    BY <1>1 DEF NetSet
  <1>3. Reach(con, a) \subseteq Node
    BY ReachClosed
  <1> QED
    BY <1>1, <1>2, <1>3 DEF FitsAt

\* Outside the class of the new link the caches still fit.
LEMMA JoinOutside ==
  ASSUME NEW net, NEW less, NEW more, NEW a, NEW b, Joins(less, more, a, b),
         Fits(net, less), NEW m \in Node \ Reach(more, a)
  PROVE  FitsAt(net, more, m)
  <1>1. Reach(more, m) = Reach(less, m)
    BY JoinReach
  <1>2. FitsAt(net, less, m)
    BY DEF Fits
  <1> QED
    BY <1>1, <1>2 DEF FitsAt

LEMMA ConnectFits ==
  ASSUME NEW net, NEW less, NEW more, NEW k, NEW a, NEW b,
         Joins(less, more, a, b), Fits(net, less),
         net.circuit[b] = None => Fresh(net, k)
  PROVE  Fits(ConnectNodes(net, more, k, a, b), more)
  <1> DEFINE x    == net.circuit[a]
             base == IF net.circuit[b] = None
                     THEN Recalculate(net, more, k, b) ELSE net
             y    == base.circuit[b]
             U    == Reach(more, a)
             RA   == Reach(less, a)
             RB   == Reach(less, b)
  <1>1. /\ less \in Graph /\ more \in Graph /\ Sym(less) /\ Sym(more)
        /\ a \in Node /\ b \in Node
    BY DEF Joins
  <1>2. /\ U = RA \cup RB /\ Reach(more, b) = U /\ b \in U /\ a \in U
        /\ a \in RA /\ b \in RB /\ U \subseteq Node
    BY <1>1, JoinReach, ReachClosed
  <1>3. \A m \in Node \ U : FitsAt(net, more, m)
    BY JoinOutside
  <1>4. net.circuit[b] = None =>
          k \in Circuit /\ k # None /\ \A m \in Node : net.circuit[m] # k
    BY DEF Fresh
  <1>5. net \in NetSet /\ net.circuit \in [Node -> Circuit \cup {None}]
    BY DEF Fits, NetSet
  <1>6. /\ x \in Circuit \cup {None}
        /\ x # None => /\ net.nodes[x] = RA
                       /\ \A m \in Node : m \in RA <=> net.circuit[m] = x
        /\ x = None => RA = {a}
    BY <1>1, ClassOf
  <1>7. /\ net.circuit[b] \in Circuit \cup {None}
        /\ net.circuit[b] # None =>
             /\ net.nodes[net.circuit[b]] = RB
             /\ \A m \in Node : m \in RB <=> net.circuit[m] = net.circuit[b]
        /\ net.circuit[b] = None => RB = {b}
    BY <1>1, ClassOf
  <1>8. CASE net.circuit[b] = None
    <2>1. base = Recalculate(net, more, k, b) /\ Fits(base, more)
      BY <1>1, <1>2, <1>3, <1>4, <1>5, <1>8, RecalculateFits
    <2>7. LET r == Recalculate(net, more, k, b)
              R == Reach(more, b)
          IN /\ r \in NetSet /\ r.nodes = [net.nodes EXCEPT ![k] = R]
             /\ r.circuit = [m \in Node |-> IF m \in R THEN k ELSE net.circuit[m]]
      BY <1>1, <1>4, <1>8, <1>5, RecalculateIs
    <2>2. /\ base \in NetSet
          /\ base.circuit = [m \in Node |-> IF m \in U THEN k ELSE net.circuit[m]]
          /\ base.nodes = [net.nodes EXCEPT ![k] = U]
      BY <1>2, <2>1, <2>7
    <2>3. y = k
      BY <1>1, <1>2, <2>2
    <2>4. \A m \in Node \ U : FitsAt(base, more, m) /\ base.circuit[m] # k
      BY <1>4, <1>8, <2>1, <2>2 DEF Fits
    <2>5. CASE x = None
      <3>1. ConnectNodes(net, more, k, a, b) = Recalculate(base, more, k, a)
        BY <2>3, <2>5 DEF ConnectNodes
      <3> QED
        BY <1>1, <1>4, <1>8, <2>2, <2>4, <3>1, RecalculateFits
    <2>6. CASE x # None
      <3>1. x \in Circuit /\ x # k
        BY <1>1, <1>4, <1>8, <1>6, <2>6
      <3>2. ConnectNodes(net, more, k, a, b) = Merged(base, x, k, a, b)
        BY <2>3, <2>6, <3>1 DEF ConnectNodes, Merged
      <3>3. base.nodes[x] = RA /\ base.nodes[k] = U
        BY <1>4, <1>8, <1>5, <1>6, <2>2, <2>6, <3>1 DEF NetSet
      <3>4. \A m \in U : /\ m \notin base.nodes[x] => base.circuit[m] = k
                         /\ m \notin base.nodes[k] => base.circuit[m] = x
        BY <1>2, <2>2, <3>3
      <3>5. \A m \in Node \ U : FitsAt(base, more, m) /\ base.circuit[m] # x
                                /\ base.circuit[m] # k
        BY <1>2, <1>6, <2>2, <2>4, <2>6
      <3>6. base.nodes[x] \cup base.nodes[k] = Reach(more, a)
        BY <1>2, <3>3
      <3>7. base \in NetSet /\ k # None /\ b \in Reach(more, a)
        BY <1>2, <1>4, <1>8, <2>2
      <3> HIDE DEF base, x
      <3>8. Fits(Merged(base, x, k, a, b), more)
        <4>1. Halves(base, more, x, k, a, b)
          BY <1>1, <1>4, <1>8, <2>6, <3>1, <3>4, <3>5, <3>6, <3>7 DEF Halves
        <4> QED
          BY <1>1, <3>7, <4>1, MergeFits
      <3> QED
        BY <3>2, <3>8
    <2> QED
      BY <2>5, <2>6
  <1>9. CASE net.circuit[b] # None
    <2>1. base = net /\ y = net.circuit[b] /\ y \in Circuit
      BY <1>7, <1>9
    <2>2. net.nodes[y] = RB /\ \A m \in Node : m \in RB <=> net.circuit[m] = y
      BY <1>7, <1>9, <2>1
    <2>3. CASE x = None
      <3>1. ConnectNodes(net, more, k, a, b) = Recalculate(net, more, y, a)
        BY <2>1, <2>3 DEF ConnectNodes
      <3>2. \A m \in Node \ U : net.circuit[m] # y
        BY <1>2, <2>2
      <3> QED
        BY <1>1, <1>3, <1>5, <1>9, <2>1, <3>1, <3>2, RecalculateFits
    <2>4. CASE x # None /\ x # y
      <3>1. ConnectNodes(net, more, k, a, b) = Merged(net, x, y, a, b)
        BY <2>1, <2>4 DEF ConnectNodes, Merged
      <3>2. x \in Circuit
        BY <1>6, <2>4
      <3>3. \A m \in U : /\ m \notin net.nodes[x] => net.circuit[m] = y
                         /\ m \notin net.nodes[y] => net.circuit[m] = x
        BY <1>2, <1>6, <2>2, <2>4
      <3>4. \A m \in Node \ U : FitsAt(net, more, m) /\ net.circuit[m] # x
                                /\ net.circuit[m] # y
        BY <1>2, <1>3, <1>6, <2>2, <2>4
      <3>5. net.nodes[x] \cup net.nodes[y] = Reach(more, a)
        BY <1>2, <1>6, <2>2, <2>4
      <3>6. y # None /\ b \in Reach(more, a)
        BY <1>2, <1>9, <2>1
      <3> HIDE DEF base, y, x
      <3>7. Fits(Merged(net, x, y, a, b), more)
        <4>1. Halves(net, more, x, y, a, b)
          BY <1>1, <2>1, <2>4, <3>2, <3>3, <3>4, <3>5, <3>6 DEF Halves
        <4> QED
          BY <1>1, <1>5, <4>1, MergeFits
      <3> QED
        BY <3>1, <3>7
    <2>5. CASE x # None /\ x = y
      <3>1. ConnectNodes(net, more, k, a, b) = net
        BY <2>1, <2>5 DEF ConnectNodes
      <3>2. RA = U
        BY <1>2, <1>6, <2>2, <2>5
      <3>3. ASSUME NEW m \in U
            PROVE  FitsAt(net, more, m)
        <4>1. Reach(more, m) = U /\ Reach(less, m) = U
          BY <1>1, <3>2, ReachSame
        <4>2. FitsAt(net, less, m)
          BY <1>2 DEF Fits
        <4> QED
          BY <4>1, <4>2 DEF FitsAt
      <3> QED
        BY <1>3, <1>5, <3>1, <3>3 DEF Fits
    <2> QED
      BY <2>3, <2>4, <2>5
  <1> QED
    BY <1>8, <1>9

LEMMA ConnectTold ==
  ASSUME NEW net, NEW less, NEW more, NEW k, NEW a, NEW b,
         Joins(less, more, a, b), Fits(net, less),
         net.circuit[b] = None => Fresh(net, k)
  PROVE  Told(net, ConnectNodes(net, more, k, a, b))
  <1> DEFINE then == ConnectNodes(net, more, k, a, b)
             x    == net.circuit[a]
             y    == net.circuit[b]
             U    == Reach(more, a)
             RA   == Reach(less, a)
             RB   == Reach(less, b)
  <1>1. /\ less \in Graph /\ more \in Graph /\ Sym(less) /\ Sym(more)
        /\ a \in Node /\ b \in Node
    BY DEF Joins
  <1>2. U = RA \cup RB /\ b \in U /\ a \in RA /\ b \in RB /\ U \subseteq Node
    BY <1>1, JoinReach, ReachClosed
  <1>3. Fits(then, more)
    BY ConnectFits
  <1>4. /\ x # None => /\ net.nodes[x] = RA
                       /\ \A m \in Node : m \in RA <=> net.circuit[m] = x
        /\ x = None => RA = {a}
    BY <1>1, ClassOf
  <1>5. /\ y # None => /\ net.nodes[y] = RB
                       /\ \A m \in Node : m \in RB <=> net.circuit[m] = y
        /\ y = None => RB = {b}
    BY <1>1, ClassOf
  <1> HIDE DEF then
  <1> SUFFICES ASSUME NEW m \in Node, NEW n \in Node,
                      net.circuit[m] # None, net.circuit[n] # None,
                      net.circuit[m] # net.circuit[n],
                      then.circuit[m] # None,
                      then.circuit[m] = then.circuit[n]
               PROVE  <<m, n, "joined">> \in then.news
    BY DEF Told, then
  <1>6. n \in Reach(more, m)
    BY <1>1, <1>3, ClassOf
  <1>7. m \in U
    <2> SUFFICES ASSUME m \notin U PROVE FALSE
      OBVIOUS
    <2>1. Reach(more, m) = Reach(less, m)
      BY JoinReach
    <2>2. n \in Reach(less, m)
      BY <1>6, <2>1
    <2> QED
      BY <1>1, <2>2, ClassOf
  <1>8. n \in U
    BY <1>1, <1>6, <1>7, ReachSame
  <1>9. x # None /\ y # None /\ x # y
    BY <1>2, <1>4, <1>5, <1>7, <1>8
  <1>10. \/ m \in RA /\ n \in RB
         \/ m \in RB /\ n \in RA
    BY <1>2, <1>4, <1>5, <1>7, <1>8, <1>9
  <1>11. then = Merged(net, x, y, a, b)
    BY <1>9 DEF then, ConnectNodes, Merged
  <1>12. Halves(net, more, x, y, a, b)
    <2>1. x \in Circuit /\ y \in Circuit
      BY <1>1, <1>9, ClassOf
    <2>2. \A p \in U : /\ p \notin net.nodes[x] => net.circuit[p] = y
                       /\ p \notin net.nodes[y] => net.circuit[p] = x
      BY <1>2, <1>4, <1>5, <1>9
    <2>3. \A p \in Node \ U : /\ FitsAt(net, more, p)
                              /\ net.circuit[p] # x /\ net.circuit[p] # y
      BY <1>2, <1>4, <1>5, <1>9, JoinOutside
    <2>4. net.nodes[x] \cup net.nodes[y] = Reach(more, a)
      BY <1>2, <1>4, <1>5, <1>9
    <2> HIDE DEF x, y
    <2> QED
      BY <1>1, <1>2, <1>9, <2>1, <2>2, <2>3, <2>4 DEF Halves
  <1>13. net \in NetSet
    BY DEF Fits
  <1>14. /\ net.nodes[x] \X net.nodes[y] \X {"joined"} \subseteq then.news
         /\ net.nodes[y] \X net.nodes[x] \X {"joined"} \subseteq then.news
    BY <1>1, <1>11, <1>12, <1>13, MergeFits
  <1> HIDE DEF x, y, RA, RB
  <1>15. /\ RA \X RB \X {"joined"} \subseteq then.news
         /\ RB \X RA \X {"joined"} \subseteq then.news
    BY <1>4, <1>5, <1>9, <1>14
  <1> QED
    BY <1>10, <1>15

\* Where classes only shrink nobody is joined.
LEMMA ShrinkTold ==
  ASSUME NEW net, NEW then, NEW con \in Graph, NEW con2 \in Graph, Sym(con),
         Sym(con2), Fits(net, con), Fits(then, con2),
         \A n \in Node : Reach(con2, n) \subseteq Reach(con, n)
  PROVE  Told(net, then)
  <1> SUFFICES ASSUME NEW m \in Node, NEW n \in Node,
                      net.circuit[m] # None, net.circuit[m] # net.circuit[n],
                      then.circuit[m] # None,
                      then.circuit[m] = then.circuit[n]
               PROVE  FALSE
    BY DEF Told
  <1>1. n \in Reach(con2, m)
    BY ClassOf
  <1>2. n \in Reach(con, m)
    BY <1>1
  <1> QED
    BY <1>2, ClassOf

\* BeginPlay of a node that is still alone.
LEMMA BeginPlayFits ==
  ASSUME NEW net, NEW con \in Graph, Sym(con), NEW k, NEW n \in Node,
         Fits(net, con), Fresh(net, k)
  PROVE  Fits(BeginPlay(net, con, k, n), con)
  <1>1. net \in NetSet /\ k \in Circuit /\ k # None
    BY DEF Fits, Fresh
  <1>2. \A m \in Node \ Reach(con, n) : FitsAt(net, con, m) /\ net.circuit[m] # k
    BY DEF Fits, Fresh
  <1>3. Fits(Recalculate(net, con, k, n), con)
    BY <1>1, <1>2, RecalculateFits
  <1> QED
    BY <1>3 DEF BeginPlay

\* A node that is linked to nothing forgets its circuit.
LEMMA ForgetFits ==
  ASSUME NEW net, NEW con \in Graph, Sym(con), Fits(net, con), NEW n \in Node,
         Reach(con, n) = {n}
  PROVE  Fits(SetCircuit(net, n, None), con)
  <1> DEFINE r == SetCircuit(net, n, None)
  <1>1. /\ r \in NetSet /\ r.nodes = net.nodes
        /\ r.circuit = [net.circuit EXCEPT ![n] = None]
    BY SetCircuitIs DEF Fits
  <1>2. net.circuit \in [Node -> Circuit \cup {None}]
    BY DEF Fits, NetSet
  <1> HIDE DEF r
  <1>3. ASSUME NEW m \in Node
        PROVE  FitsAt(r, con, m)
    <2>1. CASE m = n
      BY <1>1, <1>2, <2>1 DEF FitsAt
    <2>2. CASE m # n /\ net.circuit[m] = None
      BY <1>1, <1>2, <2>2 DEF FitsAt, Fits
    <2>3. CASE m # n /\ net.circuit[m] # None
      <3>1. /\ net.nodes[net.circuit[m]] = Reach(con, m)
            /\ {x \in Node : net.circuit[x] = net.circuit[m]} = Reach(con, m)
        BY <2>3 DEF FitsAt, Fits
      <3>2. n \notin Reach(con, m)
        BY <2>3, ReachApart
      <3>3. r.circuit[m] = net.circuit[m]
        BY <1>1, <1>2, <2>3
      <3>4. {x \in Node : r.circuit[x] = r.circuit[m]} = Reach(con, m)
        BY <1>1, <1>2, <2>3, <3>1, <3>2, <3>3
      <3> QED
        BY <1>1, <2>3, <3>1, <3>3, <3>4 DEF FitsAt
    <2> QED
      BY <2>1, <2>2, <2>3
  <1> QED
    BY <1>1, <1>3 DEF Fits, r

\* DisconnectNodes of a and b, of which only the graph knows yet.
LEMMA DisconnectFits ==
  ASSUME NEW net, NEW less, NEW more, NEW k, NEW a, NEW b, a # b,
         Joins(less, more, a, b), Fits(net, more), Fresh(net, k)
  PROVE  Fits(DisconnectNodes(net, less, k, a, b), less)
  <1> DEFINE y     == net.circuit[b]
             U     == Reach(more, a)
             RA    == Reach(less, a)
             RB    == Reach(less, b)
             split == Recalculate(net, less, k, a)
             both  == Recalculate(split, less, y, b)
  <1>1. /\ less \in Graph /\ more \in Graph /\ Sym(less) /\ Sym(more)
        /\ a \in Node /\ b \in Node
    BY DEF Joins
  <1>2. /\ U = RA \cup RB /\ Reach(more, b) = U /\ b \in U /\ a \in RA
        /\ b \in RB /\ U \subseteq Node
        /\ \A m \in Node \ U : Reach(more, m) = Reach(less, m)
    BY <1>1, JoinReach, ReachClosed
  <1>3. y = net.circuit[a] /\ y \in Circuit /\ y # None
    BY <1>1, <1>2, ClassOf
  <1>4. net \in NetSet /\ \A m \in Node : m \in U <=> net.circuit[m] = y
    BY <1>1, <1>2, <1>3, ClassOf DEF Fits
  <1>5. CASE b \in RA
    <2>1. \A m \in Node : Reach(less, m) = Reach(more, m)
      BY <1>1, <1>2, <1>5, ReachSame
    <2>2. DisconnectNodes(net, less, k, a, b) = net
      BY <1>5 DEF DisconnectNodes
    <2> QED
      BY <1>4, <2>1, <2>2 DEF Fits, FitsAt
  <1>6. CASE b \notin RA
    <2>1. RA \cap RB = {}
      BY <1>1, <1>6, ReachApart
    <2>2. k \in Circuit /\ k # None /\ \A m \in Node : net.circuit[m] # k
      BY DEF Fresh
    <2>3. LET r == Recalculate(net, less, k, a)
          IN /\ r \in NetSet /\ r.nodes = [net.nodes EXCEPT ![k] = RA]
             /\ r.circuit = [m \in Node |-> IF m \in RA THEN k ELSE net.circuit[m]]
      BY <1>1, <1>4, <2>2, RecalculateIs
    <2>4. ASSUME NEW m \in Node \ RB
          PROVE  FitsAt(split, less, m) /\ split.circuit[m] # y
      <3>1. CASE m \in RA
        <4>1. Reach(less, m) = RA
          BY <1>1, <3>1, ReachSame
        <4>2. split.circuit[m] = k /\ split.nodes[k] = RA
          BY <2>2, <2>3, <3>1, <1>4 DEF NetSet
        <4>3. {x \in Node : split.circuit[x] = k} = RA
          BY <1>2, <2>2, <2>3
        <4> HIDE DEF split
        <4> QED
          BY <1>2, <1>3, <2>2, <4>1, <4>2, <4>3 DEF FitsAt, Fresh
      <3>2. CASE m \notin RA
        <4>1. m \notin U /\ net.circuit[m] # y
          BY <1>2, <1>4, <3>2
        <4>2. Reach(less, m) = Reach(more, m) /\ FitsAt(net, more, m)
          BY <1>2, <4>1 DEF Fits
        <4>3. split.circuit[m] = net.circuit[m]
          BY <2>3, <3>2
        <4>4. CASE net.circuit[m] = None
          <5> HIDE DEF split
          <5> QED
            BY <4>1, <4>2, <4>3, <4>4 DEF FitsAt
        <4>5. CASE net.circuit[m] # None
          <5>1. net.circuit[m] \in Circuit
            BY <1>4, <4>5 DEF NetSet
          <5>2. split.nodes[split.circuit[m]] = net.nodes[net.circuit[m]]
            BY <1>4, <2>2, <2>3, <4>3, <5>1 DEF NetSet
          <5>3. {x \in Node : net.circuit[x] = net.circuit[m]} = Reach(less, m)
            BY <4>2, <4>5 DEF FitsAt
          <5>4. \A x \in RA : net.circuit[x] = y
            BY <1>2, <1>4
          <5>5. \A x \in Node : split.circuit[x] = split.circuit[m]
                               <=> net.circuit[x] = net.circuit[m]
            BY <2>2, <2>3, <4>1, <4>3, <5>4
          <5> HIDE DEF split
          <5> QED
            BY <4>1, <4>2, <4>3, <4>5, <5>2, <5>3, <5>5 DEF FitsAt
        <4> QED
          BY <4>4, <4>5
      <3> QED
        BY <3>1, <3>2
    <2>5. Fits(both, less)
      <3>1. split \in NetSet
        BY <2>3
      <3> HIDE DEF split, y
      <3> QED
        BY <1>1, <1>3, <2>4, <3>1, RecalculateFits
    <2>6. PICK N \in News :
            DisconnectNodes(net, less, k, a, b) = [both EXCEPT !.news = N]
      <3> DEFINE Skip(S) == {n \in S : n \notin S}
      <3>1. \A S : Skip(S) = {}
        OBVIOUS
      <3>2. DisconnectNodes(net, less, k, a, b) = [both EXCEPT !.news = @
              \cup (Skip(split.nodes[y]) \X split.nodes[k] \X {"left"})
              \cup (Skip(both.nodes[k]) \X split.nodes[y] \X {"left"})]
        BY <1>3, <1>6 DEF DisconnectNodes
      <3>3. both.news \in News
        BY <2>5 DEF Fits, NetSet
      <3> DEFINE N == both.news
              \cup (Skip(split.nodes[y]) \X split.nodes[k] \X {"left"})
              \cup (Skip(both.nodes[k]) \X split.nodes[y] \X {"left"})
      <3>4. N = both.news
        <4> HIDE DEF both, split
        <4>5. \A S, T : Skip(S) \X T \X {"left"} = {}
          BY <3>1
        <4> QED
          BY <4>5
      <3>6. DisconnectNodes(net, less, k, a, b) = [both EXCEPT !.news = N]
        BY <3>2
      <3> QED
        BY <3>3, <3>4, <3>6
    <2> HIDE DEF both
    <2>7. [both EXCEPT !.news = N] \in NetSet
          /\ [both EXCEPT !.news = N].circuit = both.circuit
          /\ [both EXCEPT !.news = N].nodes = both.nodes
      BY <2>5 DEF Fits, NetSet
    <2> QED
      BY <2>5, <2>6, <2>7 DEF Fits, FitsAt
  <1> QED
    BY <1>5, <1>6

LEMMA JoinsBoth ==
  ASSUME NEW less, NEW more, NEW a, NEW b, Joins(less, more, a, b)
  PROVE  Joins(less, more, b, a)
  BY DEF Joins, Sym

\* What is left of a net once circuits nobody refers to are gone.
Cleaned(net) ==
  [circuit |-> net.circuit,
   nodes |-> [k \in Circuit |-> IF \E n \in Node : net.circuit[n] = k
                               THEN net.nodes[k] ELSE {}],
   news |-> {}]

LEMMA CleanFits ==
  ASSUME NEW net, NEW con \in Graph, Fits(net, con)
  PROVE  Fits(Cleaned(net), con)
  <1>1. /\ net.circuit \in [Node -> Circuit \cup {None}]
        /\ net.nodes \in [Circuit -> SUBSET Node]
    BY DEF Fits, NetSet
  <1>2. Cleaned(net) \in NetSet
    BY <1>1 DEF Cleaned, NetSet, News
  <1>3. ASSUME NEW n \in Node
        PROVE  FitsAt(Cleaned(net), con, n)
    <2>1. FitsAt(net, con, n) /\ Cleaned(net).circuit = net.circuit
      BY DEF Fits, Cleaned
    <2>2. net.circuit[n] # None =>
            Cleaned(net).nodes[net.circuit[n]] = net.nodes[net.circuit[n]]
      BY <1>1 DEF Cleaned
    <2> QED
      BY <2>1, <2>2 DEF FitsAt
  <1> QED
    BY <1>2, <1>3 DEF Fits

-----------------------------------------------------------------------------
(* The graph of cables and cards.                                          *)

\* Links, given the ends of cables.
LinksOf(E, cab, plug) ==
  [n \in Node |->
     IF n \in Card THEN {plug[n]} \ {None}
     ELSE {m \in Card : plug[m] = n}
            \cup {m \in Plug : \E c \in cab[n] : m \in {E[c][1], E[c][2]}}]

\* The cables that end at n, listed by n or not.
EndsAt(E, n) == {c \in Cable : n \in {E[c][1], E[c][2]}}

\* Cables have two ends and are listed at both once they began play; cards are
\* plugged into their case; wait is what has not begun play.
Wired(ex, E, cab, plug, wait) ==
  /\ ex \subseteq Node
  /\ E \in [Cable -> ((ex \cap Plug) \cup {None}) \X ((ex \cap Plug) \cup {None})]
  /\ \A c \in Cable : \/ E[c] = NoEnds
                      \/ None \notin {E[c][1], E[c][2]} /\ E[c][1] # E[c][2]
  /\ cab = [n \in Plug |-> EndsAt(E, n) \ wait]
  /\ plug \in [Card -> ex \cup {None}]
  /\ \A m \in Card : /\ plug[m] # None => plug[m] = CaseOf[m] /\ m \in ex
                     /\ m \in ex => CaseOf[m] \in ex
                     /\ m \in ex \ wait => plug[m] # None

\* a and b are the ends of a cable that is listed, or a card and its case.
Edge(E, plug, wait, a, b) ==
  \/ a \in Card /\ plug[a] = b
  \/ b \in Card /\ plug[b] = a
  \/ \E c \in Cable \ wait : {a, b} \subseteq {E[c][1], E[c][2]}

LEMMA NodesApart ==
  /\ Connector \subseteq Plug /\ Plug \subseteq Node /\ Card \subseteq Node
  /\ Plug \cap Card = {} /\ Node = Plug \cup Card /\ None \notin Node
  /\ Cable \cap Node = {} /\ None \notin Circuit
  /\ CaseOf \in [Card -> Connector]
  BY CircuitAssumptions DEF Plug, Node

LEMMA WiredGraph ==
  ASSUME NEW ex, NEW E, NEW cab, NEW plug, NEW wait,
         Wired(ex, E, cab, plug, wait)
  PROVE  /\ LinksOf(E, cab, plug) \in Graph /\ Sym(LinksOf(E, cab, plug))
         /\ \A a, b \in Node :
              b \in LinksOf(E, cab, plug)[a] <=> Edge(E, plug, wait, a, b)
  <1> DEFINE G == LinksOf(E, cab, plug)
  <1>1. \A c \in Cable : /\ E[c][1] \in Plug \cup {None}
                         /\ E[c][2] \in Plug \cup {None}
    BY DEF Wired
  <1>2. \A m \in Card : plug[m] \in Plug \cup {None}
    BY NodesApart DEF Wired
  <1>3. ASSUME NEW a \in Card, NEW b \in Node
        PROVE  b \in G[a] <=> Edge(E, plug, wait, a, b)
    <2>1. b \in G[a] <=> plug[a] = b
      BY NodesApart DEF LinksOf
    <2>2. ~ \E c \in Cable \ wait : {a, b} \subseteq {E[c][1], E[c][2]}
      BY <1>1, NodesApart
    <2>3. ~ (b \in Card /\ plug[b] = a)
      BY <1>2, NodesApart
    <2> QED
      BY <2>1, <2>2, <2>3 DEF Edge
  <1>4. ASSUME NEW a \in Plug, NEW b \in Node
        PROVE  b \in G[a] <=> Edge(E, plug, wait, a, b)
    <2>1. b \in G[a] <=> (b \in Card /\ plug[b] = a)
                          \/ \E c \in cab[a] : b \in {E[c][1], E[c][2]}
      <3>1. a \in Node /\ a \notin Card
        BY NodesApart
      <3>2. G[a] = {m \in Card : plug[m] = a}
                     \cup {m \in Plug : \E c \in cab[a] : m \in {E[c][1], E[c][2]}}
        BY <3>1 DEF LinksOf
      <3>3. \A c \in cab[a] : c \in Cable
        BY DEF Wired, EndsAt
      <3>4. (\E c \in cab[a] : b \in {E[c][1], E[c][2]}) => b \in Plug
        BY <1>1, <3>3, NodesApart
      <3> HIDE DEF G
      <3> QED
        BY <3>2, <3>4
    <2>2. cab[a] = EndsAt(E, a) \ wait
      BY DEF Wired
    <2>3. (\E c \in cab[a] : b \in {E[c][1], E[c][2]})
            <=> \E c \in Cable \ wait : {a, b} \subseteq {E[c][1], E[c][2]}
      BY <2>2 DEF EndsAt
    <2>4. a \notin Card
      BY NodesApart
    <2> QED
      BY <2>1, <2>3, <2>4 DEF Edge
  <1>5. \A a, b \in Node : b \in G[a] <=> Edge(E, plug, wait, a, b)
    BY <1>3, <1>4, NodesApart
  <1>6. G \in Graph
    <2>1. \A n \in Plug : cab[n] \subseteq Cable
      BY DEF Wired, EndsAt
    <2>2. \A n \in Node : G[n] \subseteq Node
      BY <1>2, NodesApart DEF LinksOf
    <2>3. G = [n \in Node |-> G[n]]
      BY DEF LinksOf
    <2> HIDE DEF G
    <2> QED
      BY <2>2, <2>3 DEF Graph
  <1>7. \A a, b \in Node : Edge(E, plug, wait, a, b) <=> Edge(E, plug, wait, b, a)
    BY DEF Edge
  <1> QED
    BY <1>5, <1>6, <1>7 DEF Sym

\* Two networks that differ by one edge.
LEMMA EdgeJoins ==
  ASSUME NEW ex1, NEW E1, NEW cab1, NEW plug1, NEW wait1,
         NEW ex2, NEW E2, NEW cab2, NEW plug2, NEW wait2,
         Wired(ex1, E1, cab1, plug1, wait1), Wired(ex2, E2, cab2, plug2, wait2),
         NEW a \in Node, NEW b \in Node, Edge(E2, plug2, wait2, a, b),
         \A x, y \in Node :
           Edge(E1, plug1, wait1, x, y) => Edge(E2, plug2, wait2, x, y),
         \A x, y \in Node :
           Edge(E2, plug2, wait2, x, y) =>
             Edge(E1, plug1, wait1, x, y) \/ {x, y} \subseteq {a, b}
  PROVE  Joins(LinksOf(E1, cab1, plug1), LinksOf(E2, cab2, plug2), a, b)
  <1> DEFINE G == LinksOf(E1, cab1, plug1)
             H == LinksOf(E2, cab2, plug2)
  <1>1. /\ G \in Graph /\ Sym(G)
        /\ \A x, y \in Node : y \in G[x] <=> Edge(E1, plug1, wait1, x, y)
    BY WiredGraph
  <1>2. /\ H \in Graph /\ Sym(H)
        /\ \A x, y \in Node : y \in H[x] <=> Edge(E2, plug2, wait2, x, y)
    BY WiredGraph
  <1> HIDE DEF G, H
  <1>3. Joins(G, H, a, b)
    BY <1>1, <1>2 DEF Joins, Graph
  <1> QED
    BY <1>3 DEF G, H

\* Two networks with the same edges.
LEMMA EdgesSame ==
  ASSUME NEW ex1, NEW E1, NEW cab1, NEW plug1, NEW wait1,
         NEW ex2, NEW E2, NEW cab2, NEW plug2, NEW wait2,
         Wired(ex1, E1, cab1, plug1, wait1), Wired(ex2, E2, cab2, plug2, wait2),
         \A x, y \in Node :
           Edge(E1, plug1, wait1, x, y) <=> Edge(E2, plug2, wait2, x, y)
  PROVE  LinksOf(E1, cab1, plug1) = LinksOf(E2, cab2, plug2)
  <1> DEFINE G == LinksOf(E1, cab1, plug1)
             H == LinksOf(E2, cab2, plug2)
  <1>1. /\ G \in Graph
        /\ \A x, y \in Node : y \in G[x] <=> Edge(E1, plug1, wait1, x, y)
    BY WiredGraph
  <1>2. /\ H \in Graph
        /\ \A x, y \in Node : y \in H[x] <=> Edge(E2, plug2, wait2, x, y)
    BY WiredGraph
  <1> HIDE DEF G, H
  <1>3. \A x \in Node : G[x] = H[x]
    BY <1>1, <1>2 DEF Graph
  <1>4. G = H
    BY <1>1, <1>2, <1>3 DEF Graph
  <1> QED
    BY <1>4 DEF G, H

-----------------------------------------------------------------------------
(* The invariant.                                                          *)

\* One player builds, so that nobody takes the room another one counts on.
OneBuilder == \A p, q \in Player : p = q

\* What waits for its turn after a load exists, and nothing is dismantled yet.
Waiting ==
  /\ todo \subseteq exists \cup {c \in Cable : ends[c] # NoEnds}
  /\ razing \in (exists \cap Plug) \cup {None}
  /\ razing # None => todo = {}

\* Every end has room for its cables, and where a hologram starts for one more.
\* Nobody starts a cable at what is being dismantled.
Roomy ==
  /\ \A n \in Plug : Cardinality(EndsAt(ends, n)) <= MaxCables[n]
  /\ from \in [Player -> (exists \cap Plug) \cup {None}]
  /\ \A p \in Player : from[p] # None =>
       /\ Cardinality(EndsAt(ends, from[p])) < MaxCables[from[p]]
       /\ from[p] # razing

LinkInv == Wired(exists, ends, cables, plugged, todo) /\ Waiting /\ Roomy

\* The links are those of the cables and cards, and the caches fit them.
NetInv == LinkInv /\ Fits(Net, Links) /\ news \in News
-----------------------------------------------------------------------------
(* The actions.                                                            *)

Announced ==
  \A m, n \in Node :
    /\ circuit[m] # None /\ circuit[n] # None /\ circuit[m] # circuit[n]
    /\ circuit'[m] # None /\ circuit'[m] = circuit'[n]
    => <<m, n, "joined">> \in news'

\* What each step does with the caches.
Kept == Fits(Net', Links') /\ news' \in News /\ Announced

LEMMA LinksIs ==
  /\ Links = LinksOf(ends, cables, plugged)
  /\ Links' = LinksOf(ends', cables', plugged')
  /\ \A cab, plug : Connected(cab, plug) = LinksOf(ends, cab, plug)
  BY DEF Links, Connected, LinksOf

LEMMA LinksGraph ==
  ASSUME LinkInv
  PROVE  /\ Links \in Graph /\ Sym(Links)
         /\ \A a, b \in Node : b \in Links[a] <=> Edge(ends, plugged, todo, a, b)
  <1>1. Wired(exists, ends, cables, plugged, todo)
    BY DEF LinkInv
  <1> QED
    BY <1>1, WiredGraph, LinksIs

LEMMA SpawnedFresh ==
  ASSUME Fits(Net, Links), NEW k \in Spawned
  PROVE  Fresh(Net, k)
  <1>1. circuit \in [Node -> Circuit \cup {None}]
    BY DEF Fits, NetSet, Net
  <1>2. \E j \in Circuit : \A n \in Node : circuit[n] # j
    BY <1>1, CircuitAssumptions
  <1>3. \E j : j \in Unused
    BY <1>2 DEF Unused
  <1>4. k \in Unused
    BY <1>3 DEF Spawned
  <1> QED
    BY <1>4, NodesApart DEF Unused, Fresh, Net

LEMMA BecomeKept ==
  ASSUME NEW net, NEW con \in Graph, Fits(net, con), Told(Net, net), Become(net),
         Links' = con
  PROVE  Kept
  <1>1. Net' = Cleaned(net)
    BY DEF Net, Cleaned, Become
  <1>2. Fits(Net', Links')
    BY <1>1, CleanFits
  <1>3. news' \in News
    BY DEF Become, Fits, NetSet
  <1>4. Announced
    BY DEF Announced, Told, Become, Net
  <1> QED
    BY <1>2, <1>3, <1>4 DEF Kept

\* A larger graph reaches further.
LEMMA ReachMore ==
  ASSUME NEW less \in Graph, NEW more \in Graph, NEW n \in Node,
         \A x \in Node : less[x] \subseteq more[x]
  PROVE  Reach(less, n) \subseteq Reach(more, n)
  <1>1. \A x \in Reach(more, n) : less[x] \subseteq Reach(more, n)
    BY ReachClosed
  <1> QED
    BY <1>1, ReachClosed, ReachLeast

LEMMA Lonely ==
  ASSUME NEW con \in Graph, NEW n \in Node, con[n] = {}
  PROVE  Reach(con, n) = {n}
  <1>1. {n} \in SUBSET Node
    OBVIOUS
  <1>2. Reach(con, n) \subseteq {n}
    BY <1>1, ReachLeast
  <1> QED
    BY <1>2, ReachClosed

\* Nothing but the caches of the network changes, for the better or not at all.
LEMMA SameKept ==
  ASSUME LinkInv, Fits(Net, Links), NEW net, Become(net), Fits(net, Links),
         Links' = Links
  PROVE  Kept
  <1>1. Links \in Graph /\ Sym(Links)
    BY LinksGraph
  <1>2. Told(Net, net)
    BY <1>1, ShrinkTold
  <1> QED
    BY <1>1, <1>2, BecomeKept

LEMMA StillKept ==
  ASSUME NetInv, UNCHANGED <<circuit, nodes>>, Links' = Links, news' \in News
  PROVE  Kept
  <1>1. Net' = Net
    BY DEF Net
  <1> QED
    BY <1>1 DEF Kept, NetInv, Announced

LEMMA BuildPlugKept ==
  ASSUME NetInv, NEW n \in Plug, NEW k \in Spawned, BuildPlug(n, k)
  PROVE  LinkInv' /\ Kept
  <1>1. LinkInv'
    <2>1. /\ todo = {} /\ razing = None /\ exists' = exists \cup {n}
          /\ ends' = ends /\ cables' = cables /\ plugged' = plugged
          /\ from' = from /\ razing' = razing /\ todo' = todo
      BY DEF BuildPlug, Calm
    <2>2. Wired(exists \cup {n}, ends, cables, plugged, todo)
      <3>1. Wired(exists, ends, cables, plugged, todo)
        BY DEF NetInv, LinkInv
      <3>2. ends \in [Cable -> (((exists \cup {n}) \cap Plug) \cup {None})
                               \X (((exists \cup {n}) \cap Plug) \cup {None})]
        BY <3>1 DEF Wired
      <3>3. plugged \in [Card -> exists \cup {n} \cup {None}]
        BY <3>1 DEF Wired
      <3>4. n \notin Card /\ n \in Node
        BY NodesApart
      <3> QED
        BY <3>1, <3>2, <3>3, <3>4 DEF Wired
    <2>3. Waiting' /\ Roomy'
      BY <2>1 DEF NetInv, LinkInv, Waiting, Roomy, EndsAt
    <2> QED
      BY <2>1, <2>2, <2>3 DEF LinkInv
  <1>2. Links' = Links
    BY DEF BuildPlug, Links, Connected
  <1>3. LinkInv /\ Fits(Net, Links) /\ Fresh(Net, k) /\ n \in Node
    BY SpawnedFresh, NodesApart DEF NetInv
  <1>4. Fits(BeginPlay(Net, Links, k, n), Links)
    BY <1>3, LinksGraph, BeginPlayFits
  <1>5. Become(BeginPlay(Net, Links, k, n))
    BY DEF BuildPlug, Links
  <1> QED
    BY <1>1, <1>2, <1>3, <1>4, <1>5, SameKept

LEMMA LoadPlugKept ==
  ASSUME NetInv, NEW n \in Plug, NEW k \in Spawned, LoadPlug(n, k)
  PROVE  LinkInv' /\ Kept
  <1>1. LinkInv'
    <2>1. /\ exists' = exists /\ ends' = ends /\ cables' = cables
          /\ plugged' = plugged /\ from' = from /\ razing' = razing
          /\ todo' = todo \ {n}
      BY DEF LoadPlug, linkVars
    <2>2. Wired(exists, ends, cables, plugged, todo \ {n})
      BY NodesApart DEF NetInv, LinkInv, Wired, EndsAt
    <2>3. Waiting' /\ Roomy'
      BY <2>1 DEF NetInv, LinkInv, Waiting, Roomy, EndsAt
    <2> QED
      BY <2>1, <2>2, <2>3 DEF LinkInv
  <1>2. Links' = Links
    BY DEF LoadPlug, Links, Connected, linkVars
  <1>3. LinkInv /\ Fits(Net, Links) /\ Fresh(Net, k) /\ n \in Node
    BY SpawnedFresh, NodesApart DEF NetInv
  <1>4. Fits(BeginPlay(Net, Links, k, n), Links)
    BY <1>3, LinksGraph, BeginPlayFits
  <1>5. Become(BeginPlay(Net, Links, k, n))
    BY DEF LoadPlug, Links
  <1> QED
    BY <1>1, <1>2, <1>3, <1>4, <1>5, SameKept

LEMMA SnapFromKept ==
  ASSUME NetInv, NEW p \in Player, NEW n \in Plug, SnapFrom(p, n)
  PROVE  LinkInv' /\ Kept
  <1>1. Wired(exists, ends, cables, plugged, todo)' /\ Waiting'
    BY DEF NetInv, LinkInv, Wired, EndsAt, Waiting, SnapFrom, linkVars
  <1>2. Roomy'
    <2>1. cables[n] = EndsAt(ends, n)
      BY DEF NetInv, LinkInv, Wired, SnapFrom, Calm, EndsAt
    <2>2. Cardinality(EndsAt(ends, n)) < MaxCables[n] /\ n # None /\ razing = None
      BY <2>1, NodesApart DEF SnapFrom, Room, Calm
    <2> QED
      BY <2>2, NodesApart DEF NetInv, LinkInv, Roomy, SnapFrom, linkVars
  <1>3. Links' = Links /\ news' \in News
    BY DEF SnapFrom, Links, Connected, linkVars, News
  <1>4. Kept
    BY <1>3, StillKept DEF SnapFrom
  <1> QED
    BY <1>1, <1>2, <1>4 DEF LinkInv

LEMMA DismantleKept ==
  ASSUME NetInv, NEW n \in Plug, Dismantle(n)
  PROVE  LinkInv' /\ Kept
  <1>1. Wired(exists, ends, cables, plugged, todo)' /\ Waiting'
    BY DEF NetInv, LinkInv, Wired, EndsAt, Waiting, Dismantle, linkVars, Calm
  <1>2. Roomy'
    BY DEF NetInv, LinkInv, Roomy, Dismantle, linkVars
  <1>3. Links' = Links /\ news' \in News
    BY DEF Dismantle, Links, Connected, linkVars, News
  <1>4. Kept
    BY <1>3, StillKept DEF Dismantle
  <1> QED
    BY <1>1, <1>2, <1>4 DEF LinkInv
\* BeginPlay gives a circuit to a node without one only.
LEMMA BeginPlayAdds ==
  ASSUME NEW net, NEW con \in Graph, Sym(con), NEW k, NEW n \in Node,
         Fits(net, con), Fresh(net, k)
  PROVE  LET r == BeginPlay(net, con, k, n)
         IN /\ \A x \in Node : net.circuit[x] # None
                                => r.circuit[x] = net.circuit[x]
            /\ n \notin Pole => r.circuit[n] # None
  <1>1. net \in NetSet /\ k \in Circuit /\ k # None
    BY DEF Fits, Fresh
  <1>2. CASE n \in Pole \/ net.circuit[n] # None
    BY <1>2 DEF BeginPlay
  <1>3. CASE ~ (n \in Pole \/ net.circuit[n] # None)
    <2>1. Reach(con, n) = {n}
      BY <1>3, ClassOf
    <2>2. Recalculate(net, con, k, n).circuit
            = [x \in Node |-> IF x \in Reach(con, n) THEN k ELSE net.circuit[x]]
      BY <1>1 DEF NetSet, Recalculate
    <2>3. BeginPlay(net, con, k, n) = Recalculate(net, con, k, n)
      BY <1>3 DEF BeginPlay
    <2> QED
      BY <1>1, <1>3, <2>1, <2>2, <2>3
  <1> QED
    BY <1>2, <1>3

LEMMA CardPlugged ==
  ASSUME NetInv, NEW m \in Card, CaseOf[m] \in exists, plugged[m] = None,
         NEW wait, wait \subseteq todo, todo \ wait \subseteq {m}
  PROVE  LET plug == [plugged EXCEPT ![m] = CaseOf[m]]
         IN /\ Wired(exists \cup {m}, ends, cables, plug, wait)
            /\ Joins(Links, LinksOf(ends, cables, plug), CaseOf[m], m)
  <1> DEFINE plug == [plugged EXCEPT ![m] = CaseOf[m]]
             ex   == exists \cup {m}
  <1>1. Wired(exists, ends, cables, plugged, todo)
    BY DEF NetInv, LinkInv
  <1>2. /\ CaseOf[m] \in Plug /\ CaseOf[m] \in Node /\ m \in Node
        /\ m \notin Plug /\ m \notin Cable /\ CaseOf[m] # None
    BY NodesApart
  <1>3. plugged \in [Card -> exists \cup {None}]
    BY <1>1 DEF Wired
  <1>4. /\ plug \in [Card -> ex \cup {None}] /\ plug[m] = CaseOf[m]
        /\ \A x \in Card : x # m => plug[x] = plugged[x]
    BY <1>3
  <1>5. ex \cap Plug = exists \cap Plug
    BY <1>2
  <1>6. \A n \in Plug : EndsAt(ends, n) \ wait = EndsAt(ends, n) \ todo
    BY <1>2 DEF EndsAt
  <1> HIDE DEF plug
  <1>7. Wired(ex, ends, cables, plug, wait)
    <2>1. ex \subseteq Node
      BY <1>1, <1>2 DEF Wired
    <2>2. ends \in [Cable -> ((ex \cap Plug) \cup {None})
                             \X ((ex \cap Plug) \cup {None})]
      <3> HIDE DEF ex
      <3> QED
        BY <1>1, <1>5 DEF Wired
    <2>3. cables = [n \in Plug |-> EndsAt(ends, n) \ wait]
      BY <1>1, <1>6 DEF Wired
    <2>4. \A c \in Cable : \/ ends[c] = NoEnds
                           \/ None \notin {ends[c][1], ends[c][2]}
                                /\ ends[c][1] # ends[c][2]
      BY <1>1 DEF Wired
    <2>5. ASSUME NEW x \in Card
          PROVE  /\ plug[x] # None => plug[x] = CaseOf[x] /\ x \in ex
                 /\ x \in ex => CaseOf[x] \in ex
                 /\ x \in ex \ wait => plug[x] # None
      BY <1>1, <1>2, <1>4 DEF Wired
    <2> HIDE DEF ex
    <2> QED
      BY <1>4, <2>1, <2>2, <2>3, <2>4, <2>5 DEF Wired
  <1> HIDE DEF ex
  <1>8. Edge(ends, plug, wait, CaseOf[m], m)
    BY <1>4 DEF Edge
  <1>9. ASSUME NEW x \in Node, NEW y \in Node
        PROVE  /\ Edge(ends, plugged, todo, x, y) => Edge(ends, plug, wait, x, y)
               /\ Edge(ends, plug, wait, x, y) =>
                    Edge(ends, plugged, todo, x, y) \/ {x, y} \subseteq {CaseOf[m], m}
    <2>1. Cable \ wait = Cable \ todo
      BY <1>2
    <2>2. /\ x \in Card /\ plugged[x] = y => plug[x] = y
          /\ y \in Card /\ plugged[y] = x => plug[y] = x
      BY <1>4, NodesApart
    <2>3. /\ x \in Card /\ plug[x] = y => plugged[x] = y \/ {x, y} \subseteq {CaseOf[m], m}
          /\ y \in Card /\ plug[y] = x => plugged[y] = x \/ {x, y} \subseteq {CaseOf[m], m}
      BY <1>4
    <2> QED
      BY <2>1, <2>2, <2>3 DEF Edge
  <1>10. Joins(LinksOf(ends, cables, plugged), LinksOf(ends, cables, plug), CaseOf[m], m)
    BY <1>1, <1>2, <1>7, <1>8, <1>9, EdgeJoins
  <1> QED
    BY <1>7, <1>10, LinksIs DEF plug, ex

LEMMA CardRemoved ==
  ASSUME NetInv, NEW m \in Card, plugged[m] # None, todo = {}
  PROVE  LET plug == [plugged EXCEPT ![m] = None]
         IN /\ Wired(exists \ {m}, ends, cables, plug, todo)
            /\ Joins(LinksOf(ends, cables, plug), Links, CaseOf[m], m)
            /\ LinksOf(ends, cables, plug)[m] = {}
  <1> DEFINE plug == [plugged EXCEPT ![m] = None]
             ex   == exists \ {m}
  <1>1. Wired(exists, ends, cables, plugged, todo)
    BY DEF NetInv, LinkInv
  <1>2. /\ CaseOf[m] \in Plug /\ CaseOf[m] \in Node /\ m \in Node
        /\ m \notin Plug /\ m \notin Cable /\ CaseOf[m] # None
        /\ \A x \in Card : CaseOf[x] # m
    BY NodesApart
  <1>3. plugged \in [Card -> exists \cup {None}] /\ plugged[m] = CaseOf[m]
    BY <1>1 DEF Wired
  <1>4. /\ plug[m] = None
        /\ \A x \in Card : x # m => plug[x] = plugged[x]
        /\ plug \in [Card -> exists \cup {None}]
    BY <1>3
  <1>5. ex \cap Plug = exists \cap Plug
    BY <1>2
  <1> HIDE DEF plug
  <1>6. plug \in [Card -> ex \cup {None}]
    <2>1. \A x \in Card : plug[x] # m
      BY <1>1, <1>2, <1>4, NodesApart DEF Wired
    <2> QED
      BY <1>4, <2>1
  <1>7. Wired(ex, ends, cables, plug, todo)
    <2>1. ex \subseteq Node
      BY <1>1 DEF Wired
    <2>2. ends \in [Cable -> ((ex \cap Plug) \cup {None})
                             \X ((ex \cap Plug) \cup {None})]
      <3> HIDE DEF ex
      <3> QED
        BY <1>1, <1>5 DEF Wired
    <2>4. \A c \in Cable : \/ ends[c] = NoEnds
                           \/ None \notin {ends[c][1], ends[c][2]}
                                /\ ends[c][1] # ends[c][2]
      BY <1>1 DEF Wired
    <2>5. ASSUME NEW x \in Card
          PROVE  /\ plug[x] # None => plug[x] = CaseOf[x] /\ x \in ex
                 /\ x \in ex => CaseOf[x] \in ex
                 /\ x \in ex \ todo => plug[x] # None
      BY <1>1, <1>2, <1>4 DEF Wired
    <2> HIDE DEF ex
    <2> QED
      BY <1>1, <1>6, <2>1, <2>2, <2>4, <2>5 DEF Wired
  <1> HIDE DEF ex
  <1>8. Edge(ends, plugged, todo, CaseOf[m], m)
    BY <1>3 DEF Edge
  <1>9. ASSUME NEW x \in Node, NEW y \in Node
        PROVE  /\ Edge(ends, plug, todo, x, y) => Edge(ends, plugged, todo, x, y)
               /\ Edge(ends, plugged, todo, x, y) =>
                    Edge(ends, plug, todo, x, y) \/ {x, y} \subseteq {CaseOf[m], m}
    <2>1. /\ x \in Card /\ plug[x] = y => plugged[x] = y
          /\ y \in Card /\ plug[y] = x => plugged[y] = x
      BY <1>4, NodesApart
    <2>2. /\ x \in Card /\ plugged[x] = y => plug[x] = y \/ {x, y} \subseteq {CaseOf[m], m}
          /\ y \in Card /\ plugged[y] = x => plug[y] = x \/ {x, y} \subseteq {CaseOf[m], m}
      BY <1>3, <1>4
    <2> QED
      BY <2>1, <2>2 DEF Edge
  <1>10. Joins(LinksOf(ends, cables, plug), LinksOf(ends, cables, plugged), CaseOf[m], m)
    BY <1>1, <1>2, <1>7, <1>8, <1>9, EdgeJoins
  <1>11. LinksOf(ends, cables, plug)[m] = {}
    BY <1>2, <1>4 DEF LinksOf
  <1> QED
    BY <1>7, <1>10, <1>11, LinksIs DEF plug, ex

\* Roomy is about cables only.
LEMMA RoomySame ==
  ASSUME LinkInv, ends' = ends, from' = from, razing' = razing,
         exists \cap Plug \subseteq exists'
  PROVE  Roomy'
  BY DEF LinkInv, Roomy, EndsAt

\* AddPCIDevice of a card; net is the caches before it or after its BeginPlay.
LEMMA PlugInKept ==
  ASSUME NetInv, NEW m \in Card, NEW k, Fresh(Net, k), CaseOf[m] \in exists,
         plugged[m] = None, NEW net, Fits(net, Links),
         net.circuit[m] = None => Fresh(net, k),
         \A then : Told(net, then) => Told(Net, then),
         PlugIn(net, m, k), ends' = ends, cables' = cables
  PROVE  Kept
  <1> DEFINE plug == [plugged EXCEPT ![m] = CaseOf[m]]
             more == LinksOf(ends, cables, plug)
             then == ConnectNodes(net, more, k, CaseOf[m], m)
  <1>1. Joins(Links, more, CaseOf[m], m)
    BY CardPlugged
  <1>2. Fits(then, more) /\ Told(net, then)
    BY <1>1, ConnectFits, ConnectTold
  <1>3. Become(then) /\ plugged' = plug
    BY LinksIs DEF PlugIn
  <1>4. Links' = more /\ more \in Graph
    BY <1>1, <1>3, LinksIs DEF Joins
  <1> HIDE DEF then, more
  <1>5. Told(Net, then)
    BY <1>2
  <1> QED
    BY <1>2, <1>3, <1>4, <1>5, BecomeKept

LEMMA BuildCardKept ==
  ASSUME NetInv, NEW m \in Card, NEW k \in Spawned, BuildCard(m, k)
  PROVE  LinkInv' /\ Kept
  <1>1. /\ CaseOf[m] \in exists /\ m \notin exists /\ todo = {} /\ razing = None
        /\ exists' = exists \cup {m} /\ ends' = ends /\ cables' = cables
        /\ from' = from /\ razing' = razing /\ todo' = todo
        /\ plugged' = [plugged EXCEPT ![m] = CaseOf[m]]
    BY DEF BuildCard, Calm, PlugIn
  <1>2. plugged[m] = None
    BY <1>1 DEF NetInv, LinkInv, Wired
  <1>3. LinkInv'
    <2>1. Wired(exists \cup {m}, ends, cables, [plugged EXCEPT ![m] = CaseOf[m]], todo)
      BY <1>1, <1>2, CardPlugged
    <2>2. Waiting'
      BY <1>1 DEF NetInv, LinkInv, Waiting
    <2>3. Roomy'
      BY <1>1, RoomySame DEF NetInv
    <2> QED
      BY <1>1, <2>1, <2>2, <2>3 DEF LinkInv
  <1>4. LinkInv /\ Fits(Net, Links) /\ Fresh(Net, k) /\ m \in Node /\ m \notin Pole
    BY SpawnedFresh, NodesApart DEF NetInv, Plug
  <1> DEFINE net == BeginPlay(Net, Links, k, m)
  <1>5. Fits(net, Links) /\ net.circuit[m] # None
    BY <1>4, LinksGraph, BeginPlayFits, BeginPlayAdds
  <1>6. ASSUME NEW then, Told(net, then)
        PROVE  Told(Net, then)
    <2>1. \A x \in Node : Net.circuit[x] # None => net.circuit[x] = Net.circuit[x]
      BY <1>4, LinksGraph, BeginPlayAdds
    <2> HIDE DEF net
    <2> QED
      BY <1>6, <2>1 DEF Told
  <1>7. PlugIn(net, m, k)
    BY DEF BuildCard, Links
  <1> HIDE DEF net
  <1> QED
    BY <1>1, <1>2, <1>3, <1>4, <1>5, <1>6, <1>7, PlugInKept

LEMMA LoadCardKept ==
  ASSUME NetInv, NEW m \in Card, NEW k \in Spawned, LoadCard(m, k)
  PROVE  LinkInv' /\ Kept
  <1>1. /\ m \in todo /\ exists' = exists /\ ends' = ends /\ cables' = cables
        /\ from' = from /\ razing' = razing
        /\ todo' \subseteq todo /\ todo \ todo' \subseteq {m}
    BY DEF LoadCard
  <1>2. m \in exists /\ CaseOf[m] \in exists
    BY <1>1, NodesApart DEF NetInv, LinkInv, Waiting, Wired
  <1>3. Waiting' /\ Roomy'
    BY <1>1, RoomySame DEF NetInv, LinkInv, Waiting
  <1>4. LinkInv /\ Fits(Net, Links) /\ Fresh(Net, k) /\ m \in Node
    BY SpawnedFresh, NodesApart DEF NetInv
  <1>5. CASE plugged[m] = None /\ PlugIn(Net, m, k)
    <2>1. plugged' = [plugged EXCEPT ![m] = CaseOf[m]]
      BY <1>5 DEF PlugIn
    <2>2. Wired(exists \cup {m}, ends, cables, [plugged EXCEPT ![m] = CaseOf[m]], todo')
      BY <1>1, <1>2, <1>5, CardPlugged
    <2>3. exists \cup {m} = exists
      BY <1>2
    <2>4. Kept
      BY <1>1, <1>2, <1>4, <1>5, PlugInKept
    <2> QED
      BY <1>1, <1>3, <2>1, <2>2, <2>3, <2>4 DEF LinkInv
  <1>6. CASE /\ Become(BeginPlay(Net, Connected(cables, plugged), k, m))
             /\ todo' = IF plugged[m] = None THEN todo ELSE todo \ {m}
             /\ UNCHANGED plugged
    <2>1. Wired(exists, ends, cables, plugged, todo')
      BY <1>6, NodesApart DEF NetInv, LinkInv, Wired, EndsAt
    <2>2. Links' = Links
      BY <1>1, <1>6 DEF Links, Connected
    <2>3. Fits(BeginPlay(Net, Links, k, m), Links)
      BY <1>4, LinksGraph, BeginPlayFits
    <2>4. Become(BeginPlay(Net, Links, k, m))
      BY <1>6 DEF Links
    <2>5. Kept
      BY <1>4, <2>2, <2>3, <2>4, SameKept
    <2> QED
      BY <1>1, <1>3, <1>6, <2>1, <2>5 DEF LinkInv
  <1> QED
    BY <1>5, <1>6 DEF LoadCard

LEMMA RemoveCardKept ==
  ASSUME NetInv, NEW m \in Card, NEW k \in Spawned, RemoveCard(m, k)
  PROVE  LinkInv' /\ Kept
  <1> DEFINE plug == [plugged EXCEPT ![m] = None]
             less == LinksOf(ends, cables, plug)
             net  == DisconnectNodes(Net, less, k, CaseOf[m], m)
             done == SetCircuit(net, m, None)
  <1>1. /\ todo = {} /\ plugged[m] # None
        /\ exists' = exists \ {m} /\ ends' = ends /\ cables' = cables
        /\ from' = from /\ razing' = razing /\ todo' = todo
        /\ plugged' = plug /\ Become(done)
    BY LinksIs DEF RemoveCard
  <1>2. /\ Wired(exists \ {m}, ends, cables, plug, todo)
        /\ Joins(less, Links, CaseOf[m], m) /\ less[m] = {}
    BY <1>1, CardRemoved
  <1>3. m \in Node /\ CaseOf[m] # m /\ m \notin Plug
    BY NodesApart
  <1>4. LinkInv'
    <2>1. Waiting' /\ Roomy'
      BY <1>1, <1>3, RoomySame DEF NetInv, LinkInv, Waiting
    <2> HIDE DEF plug
    <2> QED
      BY <1>1, <1>2, <2>1 DEF LinkInv
  <1>5. Fits(Net, Links) /\ Fresh(Net, k)
    BY SpawnedFresh DEF NetInv
  <1>6. less \in Graph /\ Sym(less) /\ Links \in Graph /\ Sym(Links)
        /\ \A x \in Node : less[x] \subseteq Links[x]
    BY <1>2 DEF Joins
  <1>7. Fits(net, less)
    BY <1>2, <1>3, <1>5, DisconnectFits
  <1>8. Links' = less
    BY <1>1, LinksIs
  <1> HIDE DEF less, net
  <1>9. Fits(done, less)
    BY <1>2, <1>3, <1>6, <1>7, Lonely, ForgetFits
  <1> HIDE DEF done
  <1>10. Told(Net, done)
    BY <1>5, <1>6, <1>9, ReachMore, ShrinkTold
  <1> QED
    BY <1>1, <1>4, <1>6, <1>8, <1>9, <1>10, BecomeKept
\* A cable that begins play, or is cut, is one edge.
LEMMA CableEdge ==
  ASSUME NEW ex, NEW plug, NEW E1, NEW cab1, NEW wait1, NEW E2, NEW cab2, NEW wait2,
         Wired(ex, E1, cab1, plug, wait1), Wired(ex, E2, cab2, plug, wait2),
         NEW c \in Cable \ wait2, NEW a \in Plug, NEW b \in Plug,
         E2[c] = <<a, b>>, E1[c] = NoEnds \/ c \in wait1,
         \A d \in Cable \ {c} : E1[d] = E2[d] /\ (d \in wait1 <=> d \in wait2)
  PROVE  /\ Joins(LinksOf(E1, cab1, plug), LinksOf(E2, cab2, plug), a, b)
         /\ \A x, y \in Node :
              y \in LinksOf(E2, cab2, plug)[x]
                <=> y \in LinksOf(E1, cab1, plug)[x] \/ {x, y} \subseteq {a, b}
  <1>1. ASSUME NEW x \in Node, NEW y \in Node
        PROVE  Edge(E2, plug, wait2, x, y)
                 <=> Edge(E1, plug, wait1, x, y) \/ {x, y} \subseteq {a, b}
    <2>1. ASSUME NEW d \in Cable \ wait2, {x, y} \subseteq {E2[d][1], E2[d][2]}
          PROVE  \/ \E f \in Cable \ wait1 : {x, y} \subseteq {E1[f][1], E1[f][2]}
                 \/ {x, y} \subseteq {a, b}
      BY <2>1
    <2>2. ASSUME NEW d \in Cable \ wait1, {x, y} \subseteq {E1[d][1], E1[d][2]}
          PROVE  \E f \in Cable \ wait2 : {x, y} \subseteq {E2[f][1], E2[f][2]}
      <3>1. d # c
        BY <2>2, NodesApart DEF NoEnds
      <3> QED
        BY <2>2, <3>1
    <2>3. {x, y} \subseteq {a, b} =>
            \E f \in Cable \ wait2 : {x, y} \subseteq {E2[f][1], E2[f][2]}
      OBVIOUS
    <2> QED
      BY <2>1, <2>2, <2>3 DEF Edge
  <1>2. a \in Node /\ b \in Node
    BY NodesApart
  <1>3. Edge(E2, plug, wait2, a, b)
    BY <1>1, <1>2
  <1>4. Joins(LinksOf(E1, cab1, plug), LinksOf(E2, cab2, plug), a, b)
    BY <1>1, <1>2, <1>3, EdgeJoins
  <1>5. /\ \A x, y \in Node :
             y \in LinksOf(E1, cab1, plug)[x] <=> Edge(E1, plug, wait1, x, y)
        /\ \A x, y \in Node :
             y \in LinksOf(E2, cab2, plug)[x] <=> Edge(E2, plug, wait2, x, y)
    BY WiredGraph
  <1> QED
    BY <1>1, <1>4, <1>5

LEMMA EndsFinite ==
  ASSUME NEW E, NEW n
  PROVE  IsFiniteSet(EndsAt(E, n)) /\ Cardinality(EndsAt(E, n)) \in Nat
  <1>1. EndsAt(E, n) \subseteq Cable
    BY DEF EndsAt
  <1> QED
    BY <1>1, CircuitAssumptions, FS_Subset, FS_CardinalityType

\* A cable between two ends with room.
LEMMA ConnectorsKept ==
  ASSUME NetInv, NEW c \in Cable, NEW c1 \in Plug, NEW c2 \in Plug, c1 # c2,
         NEW k, Fresh(Net, k), Room(c1), Room(c2), ConnectConnectors(c, c1, c2, k),
         NEW E, NEW wait, plugged' = plugged, ends' = E, c \notin wait,
         E[c] = <<c1, c2>>, ends[c] = NoEnds \/ c \in todo,
         \A d \in Cable \ {c} : ends[d] = E[d] /\ (d \in todo <=> d \in wait),
         Wired(exists, E, [n \in Plug |-> IF n \in {c1, c2} THEN cables[n] \cup {c}
                                          ELSE cables[n]], plugged, wait)
  PROVE  /\ cables' = [n \in Plug |-> IF n \in {c1, c2} THEN cables[n] \cup {c}
                                      ELSE cables[n]]
         /\ Kept
  <1> DEFINE cab  == [n \in Plug |-> IF n \in {c1, c2} THEN cables[n] \cup {c}
                                     ELSE cables[n]]
             con  == [Links EXCEPT ![c1] = @ \cup {c1, c2}, ![c2] = @ \cup {c1, c2}]
             more == LinksOf(E, cab, plugged)
             then == ConnectNodes(Net, con, k, c2, c1)
  <1>1. cables' = cab /\ Become(then)
    BY DEF ConnectConnectors, Links
  <1>2. /\ Joins(Links, more, c1, c2)
        /\ \A x, y \in Node :
             y \in more[x] <=> y \in Links[x] \/ {x, y} \subseteq {c1, c2}
    <2>1. Wired(exists, ends, cables, plugged, todo)
      BY DEF NetInv, LinkInv
    <2>2. c \in Cable \ wait /\ Wired(exists, E, cab, plugged, wait)
      OBVIOUS
    <2> HIDE DEF cab
    <2>3. /\ Joins(LinksOf(ends, cables, plugged), more, c1, c2)
          /\ \A x, y \in Node :
               y \in more[x]
                 <=> y \in LinksOf(ends, cables, plugged)[x] \/ {x, y} \subseteq {c1, c2}
      BY <2>1, <2>2, CableEdge
    <2> QED
      BY <2>3, LinksIs
  <1>3. c1 \in Node /\ c2 \in Node
    BY NodesApart
  <1> HIDE DEF more
  <1>4. Links \in Graph /\ more \in Graph
    BY <1>2 DEF Joins
  <1>5. con = more
    <2>1. con \in [Node -> SUBSET Node]
      BY <1>3, <1>4 DEF Graph
    <2>2. ASSUME NEW x \in Node
          PROVE  con[x] = more[x]
      <3>1. con[x] = IF x \in {c1, c2} THEN Links[x] \cup {c1, c2} ELSE Links[x]
        BY <1>3, <1>4 DEF Graph
      <3>2. more[x] \subseteq Node /\ Links[x] \subseteq Node
        BY <1>4 DEF Graph
      <3> HIDE DEF con
      <3>3. \A y \in Node : y \in more[x]
                             <=> y \in Links[x] \/ {x, y} \subseteq {c1, c2}
        BY <1>2
      <3>4. CASE x \in {c1, c2}
        <4>1. \A y \in Node : y \in more[x] <=> y \in Links[x] \cup {c1, c2}
          BY <3>3, <3>4
        <4> QED
          BY <1>3, <3>1, <3>2, <3>4, <4>1
      <3>5. CASE x \notin {c1, c2}
        BY <3>1, <3>2, <3>3, <3>5
      <3> QED
        BY <3>4, <3>5
    <2> HIDE DEF con
    <2> QED
      BY <1>4, <2>1, <2>2 DEF Graph
  <1>6. Joins(Links, con, c2, c1)
    BY <1>2, <1>5, JoinsBoth
  <1> HIDE DEF con
  <1>7. Fits(then, con) /\ Told(Net, then)
    BY <1>6, ConnectFits, ConnectTold DEF NetInv
  <1>8. Links' = con
    BY <1>1, <1>5, LinksIs DEF more
  <1> HIDE DEF then, cab
  <1> QED
    BY <1>1, <1>4, <1>5, <1>7, <1>8, BecomeKept DEF cab

LEMMA PlaceCableKept ==
  ASSUME NetInv, OneBuilder, NEW p \in Player, NEW n \in Plug, NEW c \in Cable,
         NEW k \in Spawned, PlaceCable(p, n, c, k)
  PROVE  LinkInv' /\ Kept
  <1> DEFINE m   == from[p]
             E   == [ends EXCEPT ![c] = <<m, n>>]
             cab == [x \in Plug |-> IF x \in {m, n} THEN cables[x] \cup {c}
                                    ELSE cables[x]]
  <1>1. /\ todo = {} /\ razing = None /\ m # None /\ n \in exists /\ n # m /\ Room(n)
        /\ ends[c] = NoEnds /\ ends' = E /\ from' = [from EXCEPT ![p] = None]
        /\ ConnectConnectors(c, m, n, k)
        /\ exists' = exists /\ plugged' = plugged /\ razing' = razing /\ todo' = todo
    BY DEF PlaceCable, Calm
  <1>2. Wired(exists, ends, cables, plugged, todo) /\ Roomy
    BY DEF NetInv, LinkInv
  <1>3. m \in exists /\ m \in Plug /\ from \in [Player -> (exists \cap Plug) \cup {None}]
    BY <1>1, <1>2 DEF Roomy
  <1>4. ends \in [Cable -> ((exists \cap Plug) \cup {None})
                           \X ((exists \cap Plug) \cup {None})]
    BY <1>2 DEF Wired
  <1>5. E[c] = <<m, n>> /\ \A d \in Cable \ {c} : E[d] = ends[d]
    BY <1>4
  <1>6. m # None /\ n # None
    BY <1>1, NodesApart
  <1> HIDE DEF m
  <1>7. E \in [Cable -> ((exists \cap Plug) \cup {None})
                        \X ((exists \cap Plug) \cup {None})]
    BY <1>1, <1>3, <1>4
  <1> HIDE DEF E
  <1>8. \A x \in Plug : /\ EndsAt(E, x) = IF x \in {m, n} THEN EndsAt(ends, x) \cup {c}
                                          ELSE EndsAt(ends, x)
                        /\ c \notin EndsAt(ends, x)
    BY <1>1, <1>5, NodesApart DEF EndsAt, NoEnds
  <1>9. \A x \in Plug : cables[x] = EndsAt(ends, x)
    BY <1>1, <1>2 DEF Wired
  <1>10. Wired(exists, E, cab, plugged, todo)
    <2>1. cab = [x \in Plug |-> EndsAt(E, x) \ todo]
      BY <1>1, <1>8, <1>9
    <2>2. \A d \in Cable : \/ E[d] = NoEnds
                           \/ None \notin {E[d][1], E[d][2]} /\ E[d][1] # E[d][2]
      BY <1>1, <1>2, <1>5, <1>6 DEF Wired
    <2> HIDE DEF cab
    <2> QED
      BY <1>2, <1>7, <2>1, <2>2 DEF Wired
  <1>11. Room(m) /\ Cardinality(EndsAt(ends, m)) < MaxCables[m]
         /\ Cardinality(EndsAt(ends, n)) < MaxCables[n]
    BY <1>1, <1>2, <1>3, <1>9 DEF Roomy, Room, m
  <1>12. Fresh(Net, k)
    BY SpawnedFresh DEF NetInv
  <1>13. /\ cables' = cab
         /\ Kept
    <2>1. \A d \in Cable \ {c} : ends[d] = E[d] /\ (d \in todo <=> d \in todo)
      BY <1>5
    <2>2. c \notin todo
      BY <1>1
    <2> QED
      BY <1>1, <1>3, <1>5, <1>10, <1>11, <1>12, <2>1, <2>2, ConnectorsKept
  <1>14. Roomy'
    <2>1. ASSUME NEW x \in Plug
          PROVE  Cardinality(EndsAt(E, x)) <= MaxCables[x]
      <3>1. CASE x \in {m, n}
        <4>1. Cardinality(EndsAt(E, x)) = Cardinality(EndsAt(ends, x)) + 1
          BY <1>8, <3>1, EndsFinite, FS_AddElement
        <4>2. MaxCables[x] \in Nat /\ Cardinality(EndsAt(ends, x)) \in Nat
          BY CircuitAssumptions, EndsFinite
        <4>3. Cardinality(EndsAt(ends, x)) < MaxCables[x]
          BY <1>11, <3>1
        <4> QED
          BY <4>1, <4>2, <4>3
      <3>2. CASE x \notin {m, n}
        BY <1>2, <1>8, <3>2 DEF Roomy
      <3> QED
        BY <3>1, <3>2
    <2>2. from' = [q \in Player |-> None]
      BY <1>1, <1>3 DEF OneBuilder
    <2> QED
      BY <1>1, <2>1, <2>2 DEF Roomy
  <1>15. Waiting'
    BY <1>1 DEF Waiting
  <1> HIDE DEF cab
  <1> QED
    BY <1>1, <1>10, <1>13, <1>14, <1>15 DEF LinkInv

LEMMA LoadCableKept ==
  ASSUME NetInv, NEW c \in Cable, NEW k \in Spawned, LoadCable(c, k)
  PROVE  LinkInv' /\ Kept
  <1> DEFINE c1  == ends[c][1]
             c2  == ends[c][2]
             wait == todo \ {c}
             cab == [x \in Plug |-> IF x \in {c1, c2} THEN cables[x] \cup {c}
                                    ELSE cables[x]]
  <1>1. /\ c \in todo /\ todo' = wait /\ ConnectConnectors(c, c1, c2, k)
        /\ exists' = exists /\ ends' = ends /\ plugged' = plugged
        /\ from' = from /\ razing' = razing
    BY DEF LoadCable
  <1>2. Wired(exists, ends, cables, plugged, todo) /\ Roomy /\ Waiting
    BY DEF NetInv, LinkInv
  <1>3. c \notin exists
    BY <1>2, NodesApart DEF Wired
  <1>4. ends[c] # NoEnds
    BY <1>1, <1>2, <1>3 DEF Waiting
  <1>5. c1 \in Plug /\ c2 \in Plug /\ c1 # c2 /\ ends[c] = <<c1, c2>>
    BY <1>2, <1>4 DEF Wired
  <1>6. \A x \in Plug : cables[x] = EndsAt(ends, x) \ todo
    BY <1>2 DEF Wired
  <1>7. ASSUME NEW x \in {c1, c2}
        PROVE  Room(x)
    <2>1. x \in Plug /\ c \in EndsAt(ends, x)
      BY <1>5 DEF EndsAt
    <2>2. /\ IsFiniteSet(EndsAt(ends, x) \ {c})
          /\ Cardinality(EndsAt(ends, x) \ {c}) = Cardinality(EndsAt(ends, x)) - 1
      BY <2>1, EndsFinite, FS_RemoveElement
    <2>3. cables[x] \subseteq EndsAt(ends, x) \ {c}
      BY <1>1, <1>6, <2>1
    <2>4. /\ Cardinality(cables[x]) <= Cardinality(EndsAt(ends, x) \ {c})
          /\ Cardinality(cables[x]) \in Nat
      BY <2>2, <2>3, FS_Subset, FS_CardinalityType
    <2>5. Cardinality(EndsAt(ends, x)) <= MaxCables[x] /\ MaxCables[x] \in Nat
      BY <1>2, <2>1, CircuitAssumptions DEF Roomy
    <2> QED
      BY <2>2, <2>4, <2>5, EndsFinite DEF Room
  <1> HIDE DEF c1, c2, wait
  <1>8. Wired(exists, ends, cab, plugged, wait)
    <2>1. \A x \in Plug : c \in EndsAt(ends, x) <=> x \in {c1, c2}
      BY DEF EndsAt, c1, c2
    <2>2. cab = [x \in Plug |-> EndsAt(ends, x) \ wait]
      BY <1>1, <1>6, <2>1 DEF wait
    <2>3. c \notin Card
      BY NodesApart
    <2> HIDE DEF cab
    <2> QED
      BY <1>2, <2>2, <2>3 DEF Wired, wait
  <1>9. Fresh(Net, k)
    BY SpawnedFresh DEF NetInv
  <1>10. /\ cables' = cab
         /\ Kept
    <2>1. \A d \in Cable \ {c} : ends[d] = ends[d] /\ (d \in todo <=> d \in wait)
      BY DEF wait
    <2>2. c \notin wait
      BY DEF wait
    <2> QED
      BY <1>1, <1>5, <1>7, <1>8, <1>9, <2>1, <2>2, ConnectorsKept
  <1>11. Waiting' /\ Roomy'
    BY <1>1, <1>2, RoomySame DEF NetInv, LinkInv, Waiting, wait
  <1> HIDE DEF cab
  <1> QED
    BY <1>1, <1>8, <1>10, <1>11 DEF LinkInv
LEMMA DismantleCableKept ==
  ASSUME NetInv, NEW c \in Cable, NEW k \in Spawned, DismantleCable(c, k)
  PROVE  LinkInv' /\ Kept
  <1> DEFINE c1   == ends[c][1]
             c2   == ends[c][2]
             E    == [ends EXCEPT ![c] = NoEnds]
             cab  == [x \in Plug |-> cables[x] \ {c}]
             less == LinksOf(E, cab, plugged)
             net  == DisconnectNodes(Net, less, k, c1, c2)
  <1>1. /\ todo = {} /\ ends[c] # NoEnds /\ RemoveCable(c, k) /\ ends' = E
        /\ exists' = exists /\ plugged' = plugged /\ from' = from
        /\ razing' = razing /\ todo' = todo
    BY DEF DismantleCable
  <1>2. Wired(exists, ends, cables, plugged, todo) /\ Roomy /\ Waiting
    BY DEF NetInv, LinkInv
  <1>3. /\ c1 \in Plug /\ c2 \in Plug /\ c1 # c2 /\ ends[c] = <<c1, c2>>
        /\ None \notin {c1, c2}
    BY <1>1, <1>2 DEF Wired
  <1>4. c \in cables[c1] /\ \A x \in Plug : cables[x] = EndsAt(ends, x)
    BY <1>1, <1>2, <1>3 DEF Wired, EndsAt
  <1>5. E[c] = NoEnds /\ \A d \in Cable \ {c} : E[d] = ends[d]
    BY <1>2 DEF Wired
  <1>6. E \in [Cable -> ((exists \cap Plug) \cup {None})
                        \X ((exists \cap Plug) \cup {None})]
    BY <1>2 DEF Wired, NoEnds
  <1> HIDE DEF E
  <1>7. \A x \in Plug : EndsAt(E, x) = EndsAt(ends, x) \ {c}
    BY <1>5, NodesApart DEF EndsAt, NoEnds
  <1>8. Wired(exists, E, cab, plugged, todo)
    <2>1. cab = [x \in Plug |-> EndsAt(E, x) \ todo]
      BY <1>1, <1>4, <1>7
    <2>2. \A d \in Cable : \/ E[d] = NoEnds
                           \/ None \notin {E[d][1], E[d][2]} /\ E[d][1] # E[d][2]
      BY <1>2, <1>5 DEF Wired
    <2> HIDE DEF cab
    <2> QED
      BY <1>2, <1>6, <2>1, <2>2 DEF Wired
  <1>9. less = Connected(cab, plugged)
    <2>1. \A x \in Plug : \A d \in cab[x] : d \in Cable \ {c}
      BY <1>4 DEF EndsAt
    <2>2. ASSUME NEW x \in Node
          PROVE  less[x] = Connected(cab, plugged)[x]
      <3>1. CASE x \in Card
        BY <3>1 DEF LinksOf, Connected
      <3>2. CASE x \notin Card
        <4>1. x \in Plug
          BY <3>2, NodesApart
        <4>2. \A y \in Plug : (\E d \in cab[x] : y \in {E[d][1], E[d][2]})
                 <=> \E d \in cab[x] : y \in {ends[d][1], ends[d][2]}
          BY <1>5, <2>1, <4>1
        <4> HIDE DEF cab
        <4> QED
          BY <3>2, <4>2 DEF LinksOf, Connected
      <3> QED
        BY <3>1, <3>2
    <2> HIDE DEF cab
    <2> QED
      BY <2>2 DEF LinksOf, Connected
  <1>10. Joins(less, Links, c1, c2)
    <2>1. c \in Cable \ todo
      BY <1>1
    <2>2. \A d \in Cable \ {c} : E[d] = ends[d] /\ (d \in todo <=> d \in todo)
      BY <1>5
    <2> HIDE DEF cab, c1, c2
    <2>3. Joins(less, LinksOf(ends, cables, plugged), c1, c2)
      BY <1>2, <1>3, <1>5, <1>8, <2>1, <2>2, CableEdge
    <2> QED
      BY <2>3, LinksIs
  <1>11. cables' = cab /\ Become(net)
    BY <1>1, <1>3, <1>4, <1>9 DEF RemoveCable
  <1>12. Fits(Net, Links) /\ Fresh(Net, k)
    BY SpawnedFresh DEF NetInv
  <1>13. Links' = less
    BY <1>1, <1>11, LinksIs
  <1> HIDE DEF c1, c2, cab, less
  <1>14. less \in Graph /\ Sym(less) /\ Links \in Graph /\ Sym(Links)
         /\ \A x \in Node : less[x] \subseteq Links[x]
    BY <1>10 DEF Joins
  <1>15. Fits(net, less)
    BY <1>3, <1>10, <1>12, DisconnectFits
  <1> HIDE DEF net
  <1>16. Told(Net, net)
    BY <1>12, <1>14, <1>15, ReachMore, ShrinkTold
  <1>17. Kept
    BY <1>11, <1>13, <1>14, <1>15, <1>16, BecomeKept
  <1>18. Roomy'
    <2>1. ASSUME NEW x \in Plug
          PROVE  Cardinality(EndsAt(E, x)) <= Cardinality(EndsAt(ends, x))
      BY <1>7, EndsFinite, FS_Subset
    <2>2. \A x \in Plug : /\ Cardinality(EndsAt(E, x)) \in Nat
                          /\ Cardinality(EndsAt(ends, x)) \in Nat
                          /\ MaxCables[x] \in Nat
      BY EndsFinite, CircuitAssumptions
    <2>3. \A x \in Plug : Cardinality(EndsAt(E, x)) <= MaxCables[x]
      BY <1>2, <2>1, <2>2 DEF Roomy
    <2>4. from \in [Player -> (exists \cap Plug) \cup {None}]
      BY <1>2 DEF Roomy
    <2>5. ASSUME NEW p \in Player, from[p] # None
          PROVE  /\ Cardinality(EndsAt(E, from[p])) < MaxCables[from[p]]
                 /\ from[p] # razing
      <3>1. from[p] \in Plug
        BY <2>4, <2>5
      <3>2. Cardinality(EndsAt(ends, from[p])) < MaxCables[from[p]] /\ from[p] # razing
        BY <1>2, <2>5 DEF Roomy
      <3> QED
        BY <2>1, <2>2, <3>1, <3>2
    <2> QED
      BY <1>1, <2>3, <2>4, <2>5 DEF Roomy
  <1>19. Waiting'
    BY <1>1, <1>2 DEF Waiting
  <1> QED
    BY <1>1, <1>8, <1>11, <1>17, <1>18, <1>19 DEF LinkInv

LEMMA DismantledKept ==
  ASSUME NetInv, Dismantled
  PROVE  LinkInv' /\ Kept
  <1>1. Wired(exists, ends, cables, plugged, todo) /\ Roomy /\ Waiting
    BY DEF NetInv, LinkInv
  <1>2. /\ razing # None /\ cables[razing] = {} /\ todo = {}
        /\ \A m \in Card : plugged[m] # razing
        /\ exists' = exists \ {razing} /\ razing' = None /\ cables' = cables
        /\ plugged' = plugged /\ from' = from /\ todo' = todo
        /\ Become(SetCircuit(Net, razing, None))
    BY <1>1 DEF Dismantled, Waiting
  <1>3. razing \in Plug /\ razing \in Node /\ razing \notin Card /\ EndsAt(ends, razing) = {}
    BY <1>1, <1>2, NodesApart DEF Wired, Waiting
  <1>4. \A c \in Cable : ends[c][1] # razing /\ ends[c][2] # razing
    BY <1>3 DEF EndsAt
  <1>5. ends' = ends
    <2>1. ends' = [c \in Cable |-> <<ends[c][1], ends[c][2]>>]
      BY <1>4 DEF Dismantled
    <2>2. \A c \in Cable : ends[c] = <<ends[c][1], ends[c][2]>>
      BY <1>1 DEF Wired
    <2> QED
      BY <1>1, <2>1, <2>2 DEF Wired
  <1>6. Links' = Links
    BY <1>2, <1>5, LinksIs
  <1> DEFINE ex == exists \ {razing}
  <1>7. Wired(ex, ends, cables, plugged, todo)
    <2>1. \A c \in Cable : ends[c] \in ((ex \cap Plug) \cup {None})
                                       \X ((ex \cap Plug) \cup {None})
      BY <1>1, <1>4 DEF Wired
    <2>2. ends \in [Cable -> ((ex \cap Plug) \cup {None})
                             \X ((ex \cap Plug) \cup {None})]
      <3> HIDE DEF ex
      <3> QED
        BY <1>1, <2>1 DEF Wired
    <2>3. plugged \in [Card -> ex \cup {None}]
      BY <1>1, <1>2 DEF Wired
    <2>4. ASSUME NEW x \in Card
          PROVE  /\ plugged[x] # None => plugged[x] = CaseOf[x] /\ x \in ex
                 /\ x \in ex => CaseOf[x] \in ex
                 /\ x \in ex \ todo => plugged[x] # None
      BY <1>1, <1>2, <1>3 DEF Wired
    <2>5. ex \subseteq Node
      BY <1>1 DEF Wired
    <2> HIDE DEF ex
    <2> QED
      BY <1>1, <2>2, <2>3, <2>4, <2>5 DEF Wired
  <1>8. Waiting' /\ Roomy'
    <2>1. Waiting'
      BY <1>2 DEF Waiting
    <2>2. from \in [Player -> (ex \cap Plug) \cup {None}]
      BY <1>1 DEF Roomy
    <2>3. \A p \in Player : from[p] # None => from[p] # razing'
      BY <1>2
    <2> QED
      BY <1>1, <1>2, <1>5, <2>1, <2>2, <2>3 DEF Roomy
  <1>9. LinkInv /\ Fits(Net, Links)
    BY DEF NetInv
  <1>10. Links[razing] = {}
    <2>1. \A b \in Node : ~ Edge(ends, plugged, todo, razing, b)
      BY <1>2, <1>3, <1>4 DEF Edge
    <2> QED
      BY <1>3, <1>9, <2>1, LinksGraph DEF Graph
  <1>11. Fits(SetCircuit(Net, razing, None), Links)
    BY <1>3, <1>9, <1>10, LinksGraph, Lonely, ForgetFits
  <1>12. Kept
    BY <1>2, <1>6, <1>9, <1>11, SameKept
  <1> HIDE DEF ex
  <1> QED
    BY <1>2, <1>5, <1>7, <1>8, <1>12 DEF LinkInv, ex

LEMMA LoadKept ==
  ASSUME NetInv, Load
  PROVE  LinkInv' /\ Kept
  <1> DEFINE wait == exists \cup {c \in Cable : None \notin {ends[c][1], ends[c][2]}}
             cab  == [n \in Plug |-> {}]
             plug == [m \in Card |-> None]
             net  == [Net EXCEPT !.circuit = [n \in Node |-> None]]
             con  == LinksOf(ends, cab, plug)
  <1>1. /\ todo = {} /\ razing = None /\ exists' = exists /\ ends' = ends
        /\ razing' = razing /\ cables' = cab /\ plugged' = plug /\ Become(net)
        /\ from' = [p \in Player |-> None] /\ todo' = wait
    BY DEF Load, Calm
  <1>2. Wired(exists, ends, cables, plugged, todo) /\ Roomy /\ Waiting
    BY DEF NetInv, LinkInv
  <1>3. Wired(exists, ends, cab, plug, wait)
    <2>1. \A n \in Plug : EndsAt(ends, n) \ wait = {}
      BY <1>2, NodesApart DEF Wired, EndsAt, NoEnds
    <2>2. cab = [n \in Plug |-> EndsAt(ends, n) \ wait]
      BY <2>1
    <2>3. plug \in [Card -> exists \cup {None}]
      OBVIOUS
    <2>4. \A m \in Card : /\ plug[m] = None
                          /\ m \in exists => CaseOf[m] \in exists /\ m \in wait
      BY <1>2 DEF Wired
    <2> HIDE DEF cab, plug, wait
    <2> QED
      BY <1>2, <2>2, <2>3, <2>4 DEF Wired
  <1>4. Waiting'
    <2>1. \A c \in Cable : None \notin {ends[c][1], ends[c][2]} => ends[c] # NoEnds
      BY DEF NoEnds
    <2> QED
      BY <1>1, <1>2, <2>1 DEF Waiting
  <1>5. Roomy'
    BY <1>1, <1>2 DEF Roomy
  <1>6. con \in Graph /\ \A n \in Node : con[n] = {}
    <2>1. \A n \in Node : con[n] = {}
      BY NodesApart DEF LinksOf
    <2>2. con \in Graph
      <3> HIDE DEF cab, plug
      <3> QED
        BY <1>3, WiredGraph
    <2> QED
      BY <2>1, <2>2
  <1> HIDE DEF con
  <1>7. \A n \in Node : Reach(con, n) = {n}
    BY <1>6, Lonely
  <1>8. net \in NetSet /\ net.circuit = [n \in Node |-> None]
    BY DEF NetInv, Fits, NetSet, Net
  <1> HIDE DEF net
  <1>9. Fits(net, con) /\ Told(Net, net)
    BY <1>7, <1>8 DEF Fits, FitsAt, Told
  <1>10. Links' = con
    BY <1>1, LinksIs DEF con
  <1>11. Kept
    BY <1>1, <1>6, <1>9, <1>10, BecomeKept
  <1> HIDE DEF cab, plug, wait
  <1> QED
    BY <1>1, <1>3, <1>4, <1>5, <1>11 DEF LinkInv

\* The invariant is inductive, and no step joins circuits without telling.
LEMMA StepKept ==
  ASSUME OneBuilder, NetInv, [Next]_vars
  PROVE  NetInv' /\ (UNCHANGED vars \/ Announced)
  <1> SUFFICES (LinkInv' /\ Kept) \/ UNCHANGED vars
    <2>1. CASE LinkInv' /\ Kept
      BY <2>1 DEF NetInv, Kept
    <2>2. CASE UNCHANGED vars
      <3>1. LinkInv'
        BY <2>2 DEF vars, linkVars, netVars, NetInv, LinkInv, Wired, EndsAt, Waiting, Roomy
      <3>2. Net' = Net /\ Links' = Links /\ news' = news
        BY <2>2 DEF vars, linkVars, netVars, Net, Links, Connected
      <3> QED
        BY <2>2, <3>1, <3>2 DEF NetInv
    <2> QED
      BY <2>1, <2>2
  <1>1. ASSUME NEW k \in Spawned, NEW n \in Plug, BuildPlug(n, k) \/ LoadPlug(n, k)
        PROVE  LinkInv' /\ Kept
    BY <1>1, BuildPlugKept, LoadPlugKept
  <1>2. ASSUME NEW k \in Spawned, NEW m \in Card,
               BuildCard(m, k) \/ RemoveCard(m, k) \/ LoadCard(m, k)
        PROVE  LinkInv' /\ Kept
    BY <1>2, BuildCardKept, RemoveCardKept, LoadCardKept
  <1>3. ASSUME NEW k \in Spawned, NEW c \in Cable, DismantleCable(c, k) \/ LoadCable(c, k)
        PROVE  LinkInv' /\ Kept
    BY <1>3, DismantleCableKept, LoadCableKept
  <1>4. ASSUME NEW k \in Spawned, NEW p \in Player, NEW n \in Plug, NEW c \in Cable,
               PlaceCable(p, n, c, k)
        PROVE  LinkInv' /\ Kept
    BY <1>4, PlaceCableKept
  <1>5. ASSUME NEW p \in Player, NEW n \in Plug, SnapFrom(p, n)
        PROVE  LinkInv' /\ Kept
    BY <1>5, SnapFromKept
  <1>6. ASSUME NEW n \in Plug, Dismantle(n)
        PROVE  LinkInv' /\ Kept
    BY <1>6, DismantleKept
  <1> QED
    BY <1>1, <1>2, <1>3, <1>4, <1>5, <1>6, DismantledKept, LoadKept DEF Next

LEMMA InitKept ==
  ASSUME Init
  PROVE  NetInv
  <1>1. /\ exists = {} /\ ends = [c \in Cable |-> NoEnds]
        /\ cables = [n \in Plug |-> {}] /\ plugged = [m \in Card |-> None]
        /\ circuit = [n \in Node |-> None] /\ nodes = [k \in Circuit |-> {}]
        /\ news = {} /\ from = [p \in Player |-> None]
        /\ razing = None /\ todo = {}
    BY DEF Init
  <1>2. \A n \in Plug : EndsAt(ends, n) = {}
    BY <1>1, NodesApart DEF EndsAt, NoEnds
  <1>3. Wired(exists, ends, cables, plugged, todo)
    BY <1>1, <1>2 DEF Wired, NoEnds
  <1>4. Waiting /\ Roomy
    <2>1. Cardinality({}) = 0 /\ \A n \in Plug : MaxCables[n] \in Nat
      BY FS_EmptySet, CircuitAssumptions
    <2>2. \A n \in Plug : Cardinality(EndsAt(ends, n)) <= MaxCables[n]
      BY <1>2, <2>1
    <2> QED
      BY <1>1, <2>2 DEF Waiting, Roomy
  <1>5. Links \in Graph /\ \A n \in Node : Links[n] = {}
    <2>1. LinkInv
      BY <1>3, <1>4 DEF LinkInv
    <2>2. \A a, b \in Node : ~ Edge(ends, plugged, todo, a, b)
      BY <1>1, NodesApart DEF Edge, NoEnds
    <2> QED
      BY <2>1, <2>2, LinksGraph DEF Graph
  <1>6. \A n \in Node : Reach(Links, n) = {n}
    BY <1>5, Lonely
  <1>7. Net \in NetSet /\ Net.circuit = circuit
    BY <1>1 DEF Net, NetSet, News
  <1>8. Fits(Net, Links)
    BY <1>1, <1>6, <1>7 DEF Fits, FitsAt
  <1> QED
    BY <1>1, <1>3, <1>4, <1>8 DEF NetInv, LinkInv, News

-----------------------------------------------------------------------------
(* Theorems.                                                               *)

\* The caches of circuits fit the links, whatever one player builds, cuts,
\* dismantles and loads (ConnectNodes, DisconnectNodes, Recalculate, operator+).
THEOREM NetHolds ==
  ASSUME OneBuilder
  PROVE  Spec => []NetInv
  <1>1. Init => NetInv
    BY InitKept
  <1>2. NetInv /\ [Next]_vars => NetInv'
    BY StepKept
  <1> QED
    BY <1>1, <1>2, PTL DEF Spec

\* Every cache, cable and hologram keeps its type (the UPROPERTYs of circuits,
\* nodes and cables).
THEOREM NetTyped ==
  ASSUME OneBuilder
  PROVE  Spec => []TypeOK
  <1>1. NetInv => TypeOK
    <2> SUFFICES ASSUME NetInv PROVE TypeOK
      OBVIOUS
    <2>1. Wired(exists, ends, cables, plugged, todo) /\ Waiting /\ Roomy
      BY DEF NetInv, LinkInv
    <2>2. ends \in [Cable -> (exists \cup {None}) \X (exists \cup {None})]
      BY <2>1 DEF Wired
    <2>3. cables \in [Plug -> SUBSET Cable]
      BY <2>1 DEF Wired, EndsAt
    <2>4. /\ circuit \in [Node -> Circuit \cup {None}]
          /\ nodes \in [Circuit -> SUBSET Node]
      BY DEF NetInv, Fits, NetSet, Net
    <2>5. from \in [Player -> exists \cup {None}] /\ razing \in exists \cup {None}
      BY <2>1 DEF Roomy, Waiting
    <2>6. todo \subseteq Node \cup Cable
      BY <2>1 DEF Waiting, Wired
    <2> QED
      BY <2>1, <2>2, <2>3, <2>4, <2>5, <2>6 DEF TypeOK, Wired, NetInv, News
  <1> QED
    BY <1>1, NetHolds, PTL

\* Two nodes refer to the same circuit exactly when a path of links joins them.
THEOREM CircuitsAreComponents ==
  ASSUME OneBuilder
  PROVE  Spec => []CircuitIsComponent
  <1>1. NetInv => CircuitIsComponent
    <2> SUFFICES ASSUME NetInv, NEW n \in exists
                 PROVE  IF circuit[n] = None THEN Reach(Links, n) = {n}
                        ELSE {m \in Node : circuit[m] = circuit[n]} = Reach(Links, n)
      BY DEF CircuitIsComponent
    <2>1. n \in Node
      BY DEF NetInv, LinkInv, Wired
    <2> QED
      BY <2>1 DEF NetInv, Fits, FitsAt, Net
  <1> QED
    BY <1>1, NetHolds, PTL

\* GetComponents finds all that is connected to the requester, and no more.
THEOREM LookupsAreExact ==
  ASSUME OneBuilder
  PROVE  Spec => []LookupExact
  <1>1. NetInv => LookupExact
    <2> SUFFICES ASSUME NetInv, NEW n \in exists, circuit[n] # None
                 PROVE  nodes[circuit[n]] = Reach(Links, n)
      BY DEF LookupExact, GetComponents
    <2>1. n \in Node
      BY DEF NetInv, LinkInv, Wired
    <2> QED
      BY <2>1 DEF NetInv, Fits, FitsAt, Net
  <1> QED
    BY <1>1, NetHolds, PTL

\* operator+ and its callers tell each side of the nodes it gained.
THEOREM JoinsAreAnnounced ==
  ASSUME OneBuilder
  PROVE  Spec => JoinAnnounced
  <1>1. NetInv /\ [Next]_vars => [Announced]_vars
    BY StepKept
  <1> QED
    BY <1>1, NetHolds, PTL DEF Spec, JoinAnnounced, Announced
=============================================================================
