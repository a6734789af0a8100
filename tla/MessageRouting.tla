--------------------------- MODULE MessageRouting ---------------------------
(***************************************************************************)
(* Network messages: how a message that a network card sends floods        *)
(* through routers (AFINNetworkRouter) and wireless access points          *)
(* (AFINWirelessAccessPoint) to other cards.                               *)
(*                                                                         *)
(* A flood is one nest of HandleMessage calls on the thread that ticks the *)
(* sending computer.  flood[c].stack is that nest: every frame is a loop   *)
(* over what is left to be called.  Factory ticks run on several threads,  *)
(* so floods of several computers, and calls by which others change ports  *)
(* and filters, come between any two steps.                                *)
(*                                                                         *)
(* Circuits are taken as they are (NetworkCircuit is about them): Init     *)
(* chooses a network, which stays.                                         *)
(***************************************************************************)
EXTENDS Naturals, Sequences, FiniteSets

CONSTANTS
  Card,         \* network cards, each of a computer of its own
  Router, AccessPoint, Circuit, Port,
  Network,      \* the wirings that are looked at
  MaxMessages,  \* bound: messages sent
  MaxChanges,   \* bound: changes of filters and ports
  None

\* The two connectors of a router, and the radio side of an access point.
RouterEnd == Router \X {1, 2}
Air       == AccessPoint \X {0}
Node      == Card \cup RouterEnd \cup AccessPoint
Handler   == Card \cup Router \cup AccessPoint
Message   == 1 .. MaxMessages

Wiring == [circuit : [Node -> Circuit], powered : SUBSET AccessPoint,
           links : [AccessPoint -> SUBSET AccessPoint]]

Filter == [PortList : SUBSET Port, isPortWhitelist : BOOLEAN,
           AddrList : SUBSET Card, isAddrWhitelist : BOOLEAN]
Frame  == [todo : SUBSET (Node \cup Air), links : SUBSET Air]
Flood  == [id : Message, receiver : Card \cup {None}, port : Port,
           stack : Seq(Frame)]

\* No thing is of two kinds, and None is none of them.
ASSUME RoutingAssumptions ==
  /\ MaxMessages \in Nat /\ MaxChanges \in Nat
  /\ Network \subseteq Wiring
  /\ IsFiniteSet(Router) /\ IsFiniteSet(AccessPoint)
  /\ None \notin Node /\ None \notin Flood /\ Card \cap AccessPoint = {}
  /\ Router \cap (Card \cup AccessPoint) = {}
  /\ (RouterEnd \cup Air) \cap (Card \cup AccessPoint) = {}

VARIABLES
  circuit,          \* the circuit of each node
  powered,          \* access points on a radar tower with power
  links,            \* mWirelessConnections of each access point
  filter,           \* the lists of each router
  OpenPorts,        \* of each card
  HandledMessages,  \* of each card, router and access point
  flood,            \* the message each card's computer is sending
  received,         \* how often each card signalled each message
  promised,         \* who each message was for when it was sent
  sent, changes     \* messages and changes so far

wiring == <<circuit, powered, links>>
vars == <<wiring, filter, OpenPorts, HandledMessages, flood, received,
          promised, sent, changes>>

InFlight == {flood[c].id : c \in {d \in Card : flood[d] # None}}

TypeOK ==
  /\ circuit \in [Node -> Circuit]
  /\ powered \subseteq AccessPoint
  /\ links \in [AccessPoint -> SUBSET AccessPoint]
  /\ filter \in [Router -> Filter]
  /\ OpenPorts \in [Card -> SUBSET Port]
  /\ HandledMessages \in [Handler -> SUBSET (1 .. sent)]
  /\ flood \in [Card -> Flood \cup {None}]
  /\ \A c \in Card : flood[c] # None =>
       flood[c].stack # <<>> /\ flood[c].id <= sent
  /\ received \in [Card -> [Message -> Nat]]
  /\ promised \in [Message -> (SUBSET Card) \cup {None}]
  /\ sent \in 0 .. MaxMessages /\ changes \in 0 .. MaxChanges

Init ==
  /\ \E N \in Network : /\ circuit = N.circuit
                       /\ powered = N.powered
                       /\ links = N.links
  /\ filter = [r \in Router |->
       [PortList |-> {}, isPortWhitelist |-> FALSE,
        AddrList |-> {}, isAddrWhitelist |-> FALSE]]
  /\ OpenPorts = [c \in Card |-> Port]
  /\ HandledMessages = [h \in Handler |-> {}]
  /\ flood = [c \in Card |-> None]
  /\ received = [c \in Card |-> [i \in Message |-> 0]]
  /\ promised = [i \in Message |-> {}]
  /\ sent = 0 /\ changes = 0

----------------------------------------------------------------------------
(* What a circuit holds, and where a message of card c on port p can get.  *)

GetComponents(a) == {n \in Node : circuit[n] = a}

\* The node a message is for if it is there; otherwise every router, or, of a
\* broadcast, everything.
Targets(a, receiver) ==
  IF receiver \in GetComponents(a) THEN {receiver}
  ELSE IF receiver = None THEN GetComponents(a)
  ELSE GetComponents(a) \ Card

Passes(r, c, p) ==
  /\ (c \in filter[r].AddrList) = filter[r].isAddrWhitelist
  /\ (p \in filter[r].PortList) = filter[r].isPortWhitelist

Crosses(c, p, a, b) ==
  \/ \E r \in Router, i \in {1, 2} :
       /\ Passes(r, c, p)
       /\ circuit[<<r, i>>] = a /\ circuit[<<r, 3 - i>>] = b
  \/ \E w \in powered : \E v \in links[w] \cap powered :
       circuit[w] = a /\ circuit[v] = b

\* The least set of circuits that holds the sender's and is closed.
Reached(c, p) ==
  {a \in Circuit : \A S \in SUBSET Circuit :
     /\ circuit[c] \in S
     /\ \A x \in S, y \in Circuit : Crosses(c, p, x, y) => y \in S
     => a \in S}

Addressees(c, receiver, p) ==
  {d \in Card : /\ circuit[d] \in Reached(c, p)
                /\ p \in OpenPorts[d]
                /\ receiver \in {None, d}}

----------------------------------------------------------------------------
(* The steps of a flood.                                                   *)

Loop(todo, air) == [todo |-> todo, links |-> air]
Links(w) == links[w] \X {0}

\* netFunc_send, netFunc_broadcast.  The id of a message is new.
Send(c, receiver, p) ==
  /\ flood[c] = None /\ sent < MaxMessages
  /\ sent' = sent + 1
  /\ flood' = [flood EXCEPT ![c] =
       [id |-> sent + 1, receiver |-> receiver, port |-> p,
        stack |-> <<Loop(Targets(circuit[c], receiver), {})>>]]
  /\ promised' = [promised EXCEPT ![sent + 1] = Addressees(c, receiver, p)]
  /\ UNCHANGED <<wiring, filter, OpenPorts, HandledMessages, received,
                 changes>>

Visit_Stay(c, t, frames) ==
  /\ flood[c] # None /\ t \in Head(flood[c].stack).todo
  /\ flood' = [flood EXCEPT ![c].stack = frames \o @]

\* The innermost loop of c calls t, and t starts the loops frames.
Visit(c, t, frames) ==
  /\ flood[c] # None /\ t \in Head(flood[c].stack).todo
  /\ LET top == Head(flood[c].stack)
         stack == frames \o <<Loop(top.todo \ {t}, top.links)>>
                         \o Tail(flood[c].stack)
     IN  flood' = [flood EXCEPT ![c] = [flood[c] EXCEPT !.stack = stack]]

\* The message is handed to h, which notes its id.
IsNew(c, h) == flood[c].id \notin HandledMessages[h]
Note(c, h) ==
  HandledMessages' = [HandledMessages EXCEPT ![h] = @ \cup {flood[c].id}]

HandleCard_Twice(c, d) ==
  /\ Visit(c, d, <<>>)
  /\ Note(c, d)
  /\ received' =
       IF flood[c].port \in OpenPorts[d] /\ flood[c].receiver \in {None, d}
       THEN [received EXCEPT ![d][flood[c].id] = @ + 1] ELSE received
  /\ UNCHANGED <<wiring, filter, OpenPorts, promised, sent, changes>>

\* HandleMessage of a card: noted first, then dropped or signalled.
HandleCard(c, d) ==
  /\ Visit(c, d, <<>>)
  /\ Note(c, d)
  /\ received' =
       IF /\ IsNew(c, d)
          /\ flood[c].port \in OpenPorts[d] /\ flood[c].receiver \in {None, d}
       THEN [received EXCEPT ![d][flood[c].id] = @ + 1] ELSE received
  /\ UNCHANGED <<wiring, filter, OpenPorts, promised, sent, changes>>

HandleRouter_NoNote(c, r, i) ==
  /\ flood[c] # None
  /\ Visit(c, <<r, i>>,
       IF Passes(r, c, flood[c].port)
       THEN <<Loop(Targets(circuit[<<r, 3 - i>>], flood[c].receiver), {})>>
       ELSE <<>>)
  /\ UNCHANGED <<wiring, filter, OpenPorts, HandledMessages, received,
                 promised, sent, changes>>

HandleRouter_SameSide(c, r, i) ==
  /\ flood[c] # None
  /\ Visit(c, <<r, i>>,
       IF IsNew(c, r) /\ Passes(r, c, flood[c].port)
       THEN <<Loop(Targets(circuit[<<r, i>>], flood[c].receiver), {})>>
       ELSE <<>>)
  /\ Note(c, r)
  /\ UNCHANGED <<wiring, filter, OpenPorts, received, promised, sent, changes>>

\* HandleMessage of a router, called at connector i: goes out at the other.
HandleRouter(c, r, i) ==
  /\ flood[c] # None
  /\ Visit(c, <<r, i>>,
       IF IsNew(c, r) /\ Passes(r, c, flood[c].port)
       THEN <<Loop(Targets(circuit[<<r, 3 - i>>], flood[c].receiver), {})>>
       ELSE <<>>)
  /\ Note(c, r)
  /\ UNCHANGED <<wiring, filter, OpenPorts, received, promised, sent, changes>>

\* HandleMessage of an access point without power does nothing.
Unpowered(c, w) ==
  /\ w \notin powered
  /\ Visit(c, w, <<>>) \/ Visit(c, <<w, 0>>, <<>>)
  /\ UNCHANGED <<wiring, filter, OpenPorts, HandledMessages, received,
                 promised, sent, changes>>

\* HandleMessage of an access point, called from its circuit: to the air only.
FromCircuit(c, w) ==
  /\ flood[c] # None /\ w \in powered
  /\ Visit(c, w, IF IsNew(c, w) THEN <<Loop(Links(w), {})>> ELSE <<>>)
  /\ Note(c, w)
  /\ UNCHANGED <<wiring, filter, OpenPorts, received, promised, sent, changes>>

FromWireless_NoRelay(c, w) ==
  /\ flood[c] # None /\ w \in powered
  /\ Visit(c, <<w, 0>>,
       IF ~IsNew(c, w) THEN <<>>
       ELSE <<Loop(Targets(circuit[w], flood[c].receiver), {})>>)
  /\ Note(c, w)
  /\ UNCHANGED <<wiring, filter, OpenPorts, received, promised, sent, changes>>

FromWireless_NoNote(c, w) ==
  /\ flood[c] # None /\ w \in powered
  /\ Visit(c, <<w, 0>>,
       LET found == flood[c].receiver \in GetComponents(circuit[w])
       IN  IF ~IsNew(c, w) THEN <<>>
           ELSE <<Loop(Targets(circuit[w], flood[c].receiver),
                       IF found THEN {} ELSE Links(w))>>)
  /\ UNCHANGED <<wiring, filter, OpenPorts, HandledMessages, received, promised,
                 sent, changes>>

\* HandleMessage of an access point, called by another one: into its circuit,
\* and on to the air unless the receiver is in the circuit.
FromWireless(c, w) ==
  /\ flood[c] # None /\ w \in powered
  /\ Visit(c, <<w, 0>>,
       IF ~IsNew(c, w) THEN <<>>
       ELSE LET found == flood[c].receiver \in GetComponents(circuit[w])
            IN  <<Loop(Targets(circuit[w], flood[c].receiver),
                       IF found THEN {} ELSE Links(w))>>)
  /\ Note(c, w)
  /\ UNCHANGED <<wiring, filter, OpenPorts, received, promised, sent, changes>>

\* The innermost loop has ended: an access point goes on to the air, any other
\* call returns to the loop around it, the outermost one to the program.
Return(c) ==
  /\ flood[c] # None /\ Head(flood[c].stack).todo = {}
  /\ LET top == Head(flood[c].stack)
         rest == (IF top.links # {} THEN <<Loop(top.links, {})>> ELSE <<>>)
                 \o Tail(flood[c].stack)
     IN  flood' = [flood EXCEPT ![c] =
                     IF rest = <<>> THEN None
                     ELSE [flood[c] EXCEPT !.stack = rest]]
  /\ UNCHANGED <<wiring, filter, OpenPorts, HandledMessages, received,
                 promised, sent, changes>>

FloodStep(c) ==
  \/ \E d \in Card : HandleCard(c, d)
  \/ \E r \in Router, i \in {1, 2} : HandleRouter(c, r, i)
  \/ \E w \in AccessPoint :
       Unpowered(c, w) \/ FromCircuit(c, w) \/ FromWireless(c, w)
  \/ Return(c)

----------------------------------------------------------------------------
(* Everything else.                                                        *)

\* The computer of card c is not in a call and makes one that changes what
\* messages in flight meet.
Changes(c) ==
  /\ flood[c] = None /\ changes < MaxChanges
  /\ changes' = changes + 1
  /\ promised' = [i \in Message |->
                    IF i \in InFlight THEN None ELSE promised[i]]
  /\ UNCHANGED <<wiring, HandledMessages, flood, received, sent>>

\* What one call of a setter of router r can leave.
Set(r) ==
  {[filter[r] EXCEPT !.isPortWhitelist = ~@],
   [filter[r] EXCEPT !.isAddrWhitelist = ~@]}
  \cup {[filter[r] EXCEPT !.PortList = P] : P \in SUBSET Port}
  \cup {[filter[r] EXCEPT !.AddrList = A] : A \in SUBSET Card}

SetFilter(c, r) ==
  /\ Changes(c)
  /\ \E f \in Set(r) : filter' = [filter EXCEPT ![r] = f]
  /\ UNCHANGED OpenPorts

\* open, close, closeAll
SetPorts(c) ==
  /\ Changes(c)
  /\ \E P \in {{}} \cup {OpenPorts[c] \cup {p} : p \in Port}
                   \cup {OpenPorts[c] \ {p} : p \in Port} :
       OpenPorts' = [OpenPorts EXCEPT ![c] = P]
  /\ UNCHANGED filter

\* Actors tick when all factories were ticked, and forget what they handled.
Tick ==
  /\ \A c \in Card : flood[c] = None
  /\ HandledMessages' = [h \in Handler |-> {}]
  /\ UNCHANGED <<wiring, filter, OpenPorts, flood, received, promised, sent,
                 changes>>

Next ==
  \/ \E c \in Card, d \in Card \cup {None}, p \in Port : Send(c, d, p)
  \/ \E c \in Card : FloodStep(c) \/ SetPorts(c)
  \/ \E c \in Card, r \in Router : SetFilter(c, r)
  \/ Tick

Spec == Init /\ [][Next]_vars

\* A thread that ticks a factory keeps running.
FairSpec == Spec /\ \A c \in Card : WF_vars(FloodStep(c))

----------------------------------------------------------------------------
(* Properties                                                              *)

\* A card signals a message at most once, over however many routers and access
\* points it comes, and however often their memory of it is emptied.
AtMostOnce == \A d \in Card, i \in Message : received[d][i] <= 1

\* Messages do not run in circles: calls nest no deeper than there are routers
\* and access points, in any network.
NoMessageLoop ==
  \A c \in Card : flood[c] # None =>
    Len(flood[c].stack) <= Cardinality(Router) + Cardinality(AccessPoint) + 1

\* When send or broadcast returns, exactly those cards signalled the message
\* that it was for, whose port is open and that can be reached by routers that
\* let it pass and access points in range of each other.  Not claimed of a
\* message under which a filter or port was changed.
ExactlyReached ==
  \A i \in 1 .. sent : i \notin InFlight /\ promised[i] # None =>
    {d \in Card : received[d][i] > 0} = promised[i]

\* Every send returns to the program.
SendReturns == \A c \in Card : flood[c] # None ~> flood[c] = None

----------------------------------------------------------------------------
(* Why they return.                                                        *)

\* What is left to the flood of c, the most important first: the routers and
\* access points to which its message is new, the loops it is in, whether the
\* innermost one goes on to the air, and what that loop has still to call.
Unnoted(c) == {h \in Router \cup AccessPoint : IsNew(c, h)}
Work(c) ==
  LET top == Head(flood[c].stack)
  IN  <<Cardinality(Unnoted(c)), Len(flood[c].stack),
        IF top.links = {} THEN 0 ELSE 1, Cardinality(top.todo)>>

\* The lexicographic order of such numbers.
Before(m, n) ==
  \E k \in 1 .. 4 : m[k] < n[k] /\ \A j \in 1 .. 4 : j < k => m[j] = n[j]

\* Every step of a flood leaves it less work, and nothing that others do (their
\* floods, new ports and filters) leaves it more, so that it ends on its own.
SendsEnd ==
  /\ [](\A c \in Card : flood[c] # None => Work(c) \in Nat \X Nat \X Nat \X Nat)
  /\ [][\A c \in Card : flood[c] # None /\ flood'[c] # None =>
          \/ Before(Work(c)', Work(c))
          \/ ~FloodStep(c) /\ Work(c)' = Work(c)]_vars
=============================================================================
