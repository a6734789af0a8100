--------------------------- MODULE NetworkCircuit ---------------------------
(***************************************************************************)
(* The component network: connectors, poles and network cards (the nodes)  *)
(* joined by cables and PCI links, and the circuits (AFINNetworkCircuit)   *)
(* that cache which nodes hang together.                                   *)
(*                                                                         *)
(* A circuit is never computed on demand.  Every change of the links has   *)
(* to keep two caches right: the circuit each node refers to, and the      *)
(* nodes each circuit lists, from which components are looked up.  Circuits *)
(* are not saved: loading rebuilds them while actors begin play one after  *)
(* the other, in an order nobody controls.                                 *)
(*                                                                         *)
(* All of this runs on the game thread, so an action is a whole call.      *)
(* A definition whose name has an underscore is a mutation of the one it   *)
(* stands before.                                                          *)
(***************************************************************************)
EXTENDS Naturals, FiniteSets

CONSTANTS
  Connector,   \* UFINAdvancedNetworkConnectionComponents
  Pole,        \* plain UFINNetworkConnectionComponents: no circuit at first
  Card,        \* network cards, plugged into a computer case
  CaseOf,      \* the connector of the case a card is built into
  Cable,       \* cables that may exist at once
  MaxCables,   \* MaxCables of each connector and pole
  Circuit,     \* circuits that may exist at once
  Player,      \* players with a cable hologram
  None

Plug == Connector \cup Pole    \* what a cable can be connected to
Node == Plug \cup Card

ASSUME CircuitAssumptions ==
  /\ CaseOf \in [Card -> Connector]
  /\ MaxCables \in [Plug -> Nat]
  /\ Connector \cap Pole = {} /\ Plug \cap Card = {}
  /\ Cable \cap Node = {} /\ IsFiniteSet(Cable)
  /\ None \notin Node \cup Circuit
  \* SpawnActor never fails.
  /\ \A f \in [Node -> Circuit \cup {None}] :
       \E k \in Circuit : \A n \in Node : f[n] # k

NoEnds == <<None, None>>

VARIABLES
  exists,    \* the nodes in the world
  ends,      \* Connector1 and Connector2 of each cable
  cables,    \* ConnectedCables of each connector and pole
  plugged,   \* ConnectedComponent of each card, mirrored in ConnectedNodes
  circuit,   \* the Circuit each node refers to
  nodes,     \* Nodes of each circuit
  news,      \* NotifyNetworkUpdate calls of the last step
  from,      \* From of each player's cable hologram
  razing,    \* the building being dismantled
  todo       \* what still has to begin play after a load

linkVars == <<exists, ends, cables, plugged>>
netVars  == <<circuit, nodes, news>>
vars == <<linkVars, netVars, from, razing, todo>>

TypeOK ==
  /\ exists \subseteq Node
  /\ ends \in [Cable -> (exists \cup {None}) \X (exists \cup {None})]
  /\ cables \in [Plug -> SUBSET Cable]
  /\ plugged \in [Card -> exists \cup {None}]
  /\ circuit \in [Node -> Circuit \cup {None}]
  /\ nodes \in [Circuit -> SUBSET Node]
  /\ news \subseteq Node \X Node \X {"joined", "left"}
  /\ from \in [Player -> exists \cup {None}]
  /\ razing \in exists \cup {None}
  /\ todo \subseteq Node \cup Cable

Init ==
  /\ exists = {} /\ ends = [c \in Cable |-> NoEnds]
  /\ cables = [n \in Plug |-> {}] /\ plugged = [m \in Card |-> None]
  /\ circuit = [n \in Node |-> None] /\ nodes = [k \in Circuit |-> {}]
  /\ news = {} /\ from = [p \in Player |-> None]
  /\ razing = None /\ todo = {}

-----------------------------------------------------------------------------
(* The links.                                                              *)

\* GetConnected() of each node, given the cables and the plugged cards.
Connected(cab, plug) ==
  [n \in Node |->
     IF n \in Card THEN {plug[n]} \ {None}
     ELSE {m \in Card : plug[m] = n}
            \cup {m \in Plug : \E c \in cab[n] : m \in {ends[c][1], ends[c][2]}}]

\* The nodes AddNodeRecursive and IsNodeConnected_Internal visit from `n`: the
\* least set with `n` that holds the neighbours of its members.
Reach(con, n) ==
  {m \in Node : \A S \in SUBSET Node :
                   (n \in S /\ \A x \in S : con[x] \subseteq S) => m \in S}

-----------------------------------------------------------------------------
(* The circuits.  An operator on the caches maps a record `net` of them to *)
(* the record after the call; `k` is the circuit that a SpawnActor returns.*)

Net == [circuit |-> circuit, nodes |-> nodes, news |-> {}]

\* SpawnActor: a circuit that no node refers to; which one is all the same.
Unused   == Circuit \ {circuit[n] : n \in Node}
Spawned  == {CHOOSE k \in Unused : TRUE}

\* A circuit nobody refers to any more is left to the garbage collection.
Become(net) ==
  /\ circuit' = net.circuit
  /\ nodes' = [k \in Circuit |->
                 IF \E n \in Node : net.circuit[n] = k THEN net.nodes[k] ELSE {}]
  /\ news' = net.news

SetCircuit(net, n, k) == [net EXCEPT !.circuit[n] = k]

\* Recalculate(): the cache is rebuilt, every node reached moves to `k`.
Recalculate(net, con, k, n) ==
  LET R == Reach(con, n)
  IN  [net EXCEPT !.circuit = [m \in Node |-> IF m \in R THEN k ELSE net.circuit[m]],
                  !.nodes[k] = R]

\* operator+: the smaller circuit moves into the larger one, both sides hear
\* of the nodes they gained.
Merge_OneSided(net, x, y) ==
  LET bigger == Cardinality(net.nodes[y]) > Cardinality(net.nodes[x])
      F == IF bigger THEN x ELSE y
      T == IF bigger THEN y ELSE x
  IN  [circuit |-> [m \in Node |-> IF m \in net.nodes[F] THEN T ELSE net.circuit[m]],
       nodes   |-> [net.nodes EXCEPT ![T] = @ \cup net.nodes[F]],
       news    |-> net.news \cup (net.nodes[F] \X net.nodes[T] \X {"joined"}),
       into    |-> T]

Merge(net, x, y) ==
  LET bigger == Cardinality(net.nodes[y]) > Cardinality(net.nodes[x])
      F == IF bigger THEN x ELSE y
      T == IF bigger THEN y ELSE x
  IN  [circuit |-> [m \in Node |-> IF m \in net.nodes[F] THEN T ELSE net.circuit[m]],
       nodes   |-> [net.nodes EXCEPT ![T] = @ \cup net.nodes[F]],
       news    |-> net.news \cup (net.nodes[F] \X net.nodes[T] \X {"joined"})
                            \cup (net.nodes[T] \X net.nodes[F] \X {"joined"}),
       into    |-> T]

\* ConnectNodes(A, B), called when the two are linked already.  CircuitA is
\* read before Recalculate(B) may replace it: it is a stale circuit then.
ConnectNodes(net, con, k, A, B) ==
  LET x    == net.circuit[A]
      base == IF net.circuit[B] = None
              THEN Recalculate(net, con, k, B) ELSE net
      y    == base.circuit[B]
      both == Merge(base, x, y)
      sum  == [circuit |-> both.circuit, nodes |-> both.nodes, news |-> both.news]
  IN  IF x = None THEN Recalculate(base, con, y, A)
      ELSE IF x # y THEN SetCircuit(SetCircuit(sum, A, both.into), B, both.into)
      ELSE base

\* DisconnectNodes(A, B), called when the link is gone.  Both loops that ought
\* to notify skip the very nodes they run over.
DisconnectNodes_KeepB(net, con, k, A, B) ==
  IF B \in Reach(con, A) \/ net.circuit[A] # net.circuit[B] THEN net
  ELSE Recalculate(net, con, k, A)

DisconnectNodes(net, con, k, A, B) ==
  IF B \in Reach(con, A) \/ net.circuit[A] # net.circuit[B] THEN net
  ELSE LET y     == net.circuit[B]
           split == Recalculate(net, con, k, A)
           both  == Recalculate(split, con, y, B)
           Skip(S) == {n \in S : n \notin S}
       IN  [both EXCEPT !.news = @
              \cup (Skip(split.nodes[y]) \X split.nodes[k] \X {"left"})
              \cup (Skip(both.nodes[k]) \X split.nodes[y] \X {"left"})]

\* BeginPlay() of a node: a pole does nothing.
BeginPlay(net, con, k, n) ==
  IF n \in Pole \/ net.circuit[n] # None THEN net
                                         ELSE Recalculate(net, con, k, n)

-----------------------------------------------------------------------------
(* Cables.                                                                 *)

Room(n) == Cardinality(cables[n]) < MaxCables[n]

\* ConnectConnectors(): AddConnectedCable of both ends.  The nested calls end
\* in at most one ConnectNodes that has an effect.  An end without room does
\* not list the cable, but the circuits are joined all the same.
ConnectConnectors(c, c1, c2, k) ==
  LET cab == [n \in Plug |-> IF n \in {c1, c2} /\ Room(n)
                             THEN cables[n] \cup {c} ELSE cables[n]]
      con == [Connected(cables, plugged) EXCEPT
                ![c1] = IF Room(c1) THEN @ \cup {c1, c2} ELSE @,
                ![c2] = IF Room(c2) THEN @ \cup {c1, c2} ELSE @]
  IN  /\ cables' = cab
      /\ Become(IF Room(c2) THEN ConnectNodes(Net, con, k, c2, c1)
                ELSE IF Room(c1) THEN ConnectNodes(Net, con, k, c1, c2)
                ELSE Net)

\* EndPlay() of a cable: RemoveConnectedCable of both ends.
RemoveCable_OneEnd(c, k) ==
  LET c1  == ends[c][1]
      c2  == ends[c][2]
      cab == [n \in Plug |-> IF n = c1 THEN cables[n] \ {c} ELSE cables[n]]
      con == Connected(cab, plugged)
  IN  /\ cables' = cab
      /\ Become(DisconnectNodes(Net, con, k, c1, c2))

RemoveCable(c, k) ==
  LET c1  == ends[c][1]
      c2  == ends[c][2]
      cab == [n \in Plug |-> cables[n] \ {c}]
      con == Connected(cab, plugged)
  IN  /\ cables' = cab
      /\ Become(IF None \in {c1, c2} THEN Net
                ELSE IF c \in cables[c1] THEN DisconnectNodes(Net, con, k, c1, c2)
                ELSE IF c \in cables[c2] THEN DisconnectNodes(Net, con, k, c2, c1)
                ELSE Net)

-----------------------------------------------------------------------------
(* Actions.                                                                *)

\* Dismantling and loading run to their end before anything else does.
Calm == razing = None /\ todo = {}

\* A connector or pole is built.
BuildPlug(n, k) ==
  /\ Calm /\ n \in Plug \ exists
  /\ exists' = exists \cup {n}
  /\ Become(BeginPlay(Net, Connected(cables, plugged), k, n))
  /\ UNCHANGED <<ends, cables, plugged, from, razing, todo>>

\* AddConnectedNode() with the card of a case, by AddPCIDevice().
PlugIn(net, m, k) ==
  LET plug == [plugged EXCEPT ![m] = CaseOf[m]]
  IN  /\ plugged' = plug
      /\ Become(ConnectNodes(net, Connected(cables, plug), k, CaseOf[m], m))

\* A network card is built into its case: it begins play, then AddModule.
BuildCard(m, k) ==
  /\ Calm /\ m \in Card \ exists /\ CaseOf[m] \in exists
  /\ exists' = exists \cup {m}
  /\ PlugIn(BeginPlay(Net, Connected(cables, plugged), k, m), m, k)
  /\ UNCHANGED <<ends, cables, from, razing, todo>>

\* RemovePCIDevice(), when a card is taken out or destroyed with its case.
RemoveCard(m, k) ==
  /\ todo = {} /\ plugged[m] # None /\ razing \in {None, CaseOf[m]}
  /\ razing # None => cables[razing] = {}
  /\ LET plug == [plugged EXCEPT ![m] = None]
         net  == DisconnectNodes(Net, Connected(cables, plug), k, CaseOf[m], m)
     IN  plugged' = plug /\ Become(SetCircuit(net, m, None))
  /\ exists' = exists \ {m}
  /\ UNCHANGED <<ends, cables, from, razing, todo>>

\* The first step of a cable hologram: IsSnappedValid of the first connector.
SnapFrom(p, n) ==
  /\ Calm /\ n \in exists \cap Plug /\ Room(n)
  /\ from' = [from EXCEPT ![p] = n]
  /\ news' = {}
  /\ UNCHANGED <<linkVars, circuit, nodes, razing, todo>>

\* The second step and Construct(): only the second connector is checked.
PlaceCable(p, n, c, k) ==
  /\ Calm /\ from[p] # None /\ n \in (exists \cap Plug) \ {from[p]} /\ Room(n)
  /\ \A d \in cables[n] : from[p] \notin {ends[d][1], ends[d][2]}
  /\ ends[c] = NoEnds /\ ends' = [ends EXCEPT ![c] = <<from[p], n>>]
  /\ from' = [from EXCEPT ![p] = None]
  /\ ConnectConnectors(c, from[p], n, k)
  /\ UNCHANGED <<exists, plugged, razing, todo>>

\* A cable is dismantled, alone or with the building that lists it.
DismantleCable(c, k) ==
  /\ todo = {} /\ ends[c] # NoEnds
  /\ razing # None => c \in cables[razing]
  /\ RemoveCable(c, k)
  /\ ends' = [ends EXCEPT ![c] = NoEnds]
  /\ UNCHANGED <<exists, plugged, from, razing, todo>>

\* A building is dismantled: its cables first, then its modules, then itself.
\* A building some hologram starts at is left out.
Dismantle(n) ==
  /\ Calm /\ n \in exists \cap Plug /\ \A p \in Player : from[p] # n
  /\ razing' = n /\ news' = {}
  /\ UNCHANGED <<linkVars, circuit, nodes, from, todo>>

\* A cable that still ends here, unlisted, loses that end.
Dismantled ==
  /\ razing # None /\ cables[razing] = {} /\ \A m \in Card : plugged[m] # razing
  /\ exists' = exists \ {razing} /\ razing' = None
  /\ ends' = [c \in Cable |-> <<IF ends[c][1] = razing THEN None ELSE ends[c][1],
                                IF ends[c][2] = razing THEN None ELSE ends[c][2]>>]
  /\ Become(SetCircuit(Net, razing, None))
  /\ UNCHANGED <<cables, plugged, from, todo>>

\* The game is saved and loaded: neither circuits nor ConnectedCables are kept.
Load ==
  /\ Calm /\ exists # {}
  /\ cables' = [n \in Plug |-> {}] /\ plugged' = [m \in Card |-> None]
  /\ Become([Net EXCEPT !.circuit = [n \in Node |-> None]])
  /\ from' = [p \in Player |-> None]
  /\ todo' = exists \cup {c \in Cable : None \notin {ends[c][1], ends[c][2]}}
  /\ UNCHANGED <<exists, ends, razing>>

LoadPlug(n, k) ==
  /\ n \in todo \cap Plug
  /\ Become(BeginPlay(Net, Connected(cables, plugged), k, n))
  /\ todo' = todo \ {n}
  /\ UNCHANGED <<linkVars, from, razing>>

\* A card begins play before or after PostLoadGame of its case plugs it in.
LoadCard(m, k) ==
  /\ m \in todo \cap Card
  /\ \/ /\ plugged[m] = None /\ PlugIn(Net, m, k)
        /\ todo' = IF circuit[m] = None THEN todo ELSE todo \ {m}
     \/ /\ circuit[m] = None \/ plugged[m] # None
        /\ Become(BeginPlay(Net, Connected(cables, plugged), k, m))
        /\ todo' = IF plugged[m] = None THEN todo ELSE todo \ {m}
        /\ UNCHANGED plugged
  /\ UNCHANGED <<exists, ends, cables, from, razing>>

LoadCable(c, k) ==
  /\ c \in todo \cap Cable
  /\ ConnectConnectors(c, ends[c][1], ends[c][2], k)
  /\ todo' = todo \ {c}
  /\ UNCHANGED <<exists, ends, plugged, from, razing>>

Next ==
  \/ \E k \in Spawned :
       \/ \E n \in Plug : BuildPlug(n, k) \/ LoadPlug(n, k)
       \/ \E m \in Card : BuildCard(m, k) \/ RemoveCard(m, k) \/ LoadCard(m, k)
       \/ \E c \in Cable : DismantleCable(c, k) \/ LoadCable(c, k)
       \/ \E p \in Player, n \in Plug, c \in Cable : PlaceCable(p, n, c, k)
  \/ \E p \in Player, n \in Plug : SnapFrom(p, n)
  \/ \E n \in Plug : Dismantle(n)
  \/ Dismantled \/ Load

Spec == Init /\ [][Next]_vars

-----------------------------------------------------------------------------
(* Properties.                                                             *)

Links == Connected(cables, plugged)

\* Two nodes refer to the same circuit exactly when a path of links joins
\* them, whatever was built, cut, dismantled or is being loaded; a node that
\* has no circuit yet is linked to nothing.
CircuitIsComponent ==
  \A n \in exists :
    IF circuit[n] = None THEN Reach(Links, n) = {n}
    ELSE {m \in Node : circuit[m] = circuit[n]} = Reach(Links, n)

\* GetComponents(): what a node can look up is what its circuit lists.
GetComponents(n) == nodes[circuit[n]] \ Pole

\* A lookup finds every component that is connected to the requester and none
\* that is not: the list the circuit caches is never stale.
LookupExact ==
  \A n \in exists \ Pole : circuit[n] # None
    => GetComponents(n) = Reach(Links, n) \ Pole

\* When two circuits are joined, every node of each side is told of every node
\* of the other ("Causes correct update signals for the components",
\* operator+).
JoinAnnounced ==
  [][\A m, n \in Node :
       /\ circuit[m] # None /\ circuit[n] # None /\ circuit[m] # circuit[n]
       /\ circuit'[m] # None /\ circuit'[m] = circuit'[n]
       => <<m, n, "joined">> \in news']_vars

\* "When changes occur in the network, also sends signals to the componentes
\* accordingly" (FINNetworkCircuit.h): whoever loses a peer hears of it.
LossAnnounced ==
  [][\A m, n \in Node :
       /\ circuit[m] # None /\ circuit[m] = circuit[n]
       /\ circuit'[m] # None /\ circuit'[n] # None /\ circuit'[m] # circuit'[n]
       => <<m, n, "left">> \in news']_vars
=============================================================================
