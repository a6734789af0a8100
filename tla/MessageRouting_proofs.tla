------------------------ MODULE MessageRouting_proofs ------------------------
(***************************************************************************)
(* Proofs about MessageRouting, for any network, cards, routers, access    *)
(* points and number of messages: floods do not loop, reach no card twice, *)
(* and reach exactly the cards they are for.                               *)
(***************************************************************************)
EXTENDS MessageRouting, TLAPS, FiniteSetTheorems, SequenceTheorems

Hop == Router \cup AccessPoint

\* The routers and access points that remember each message.
Noted == [i \in Message |-> {h \in Hop : i \in HandledMessages[h]}]

\* What AtMostOnce rests on: nobody has seen an id that was not given yet, and
\* a card remembers each message in flight that it signalled.
Remembered ==
  /\ \A d \in Card, i \in Message : i > sent => received[d][i] = 0
  /\ \A c, d \in Card : flood[c] # None /\ received[d][flood[c].id] > 0 =>
       flood[c].id \in HandledMessages[d]

\* What NoMessageLoop rests on: each loop but the outermost was begun by a
\* router or access point of its own, which remembers the message.
NestsByNotes ==
  \A c \in Card : flood[c] # None =>
    Len(flood[c].stack) <= Cardinality(Noted[flood[c].id]) + 1

RoutingInv == TypeOK /\ AtMostOnce /\ Remembered /\ NestsByNotes

----------------------------------------------------------------------------
(* Facts about the operators.                                              *)

LEMMA TargetsAreNodes ==
  ASSUME NEW a, NEW receiver, NEW g \in SUBSET Air
  PROVE  Loop(Targets(a, receiver), g) \in Frame
BY DEF Targets, GetComponents, Loop, Frame

LEMMA LinksAreAir ==
  ASSUME TypeOK, NEW w \in AccessPoint
  PROVE  Links(w) \in SUBSET Air
BY DEF TypeOK, Links, Air

LEMMA HopsAreFinite ==
  /\ IsFiniteSet(Hop)
  /\ Cardinality(Hop) = Cardinality(Router) + Cardinality(AccessPoint)
<1>1. IsFiniteSet(Router) /\ IsFiniteSet(AccessPoint)
  BY RoutingAssumptions
<1>2. Router \cap AccessPoint = {}
  BY RoutingAssumptions
<1>3. IsFiniteSet(Hop)
  BY <1>1, FS_Union DEF Hop
<1>4. Cardinality(Hop) = Cardinality(Router) + Cardinality(AccessPoint)
                         - Cardinality(Router \cap AccessPoint)
  BY <1>1, FS_Union DEF Hop
<1>5. Cardinality(Router \cap AccessPoint) = 0
  BY <1>2, FS_EmptySet
<1>6. Cardinality(Router) \in Nat /\ Cardinality(AccessPoint) \in Nat
  BY <1>1, FS_CardinalityType
<1>7. QED
  BY <1>3, <1>4, <1>5, <1>6

LEMMA NotedIsFinite ==
  ASSUME NEW i \in Message
  PROVE  /\ IsFiniteSet(Noted[i]) /\ Cardinality(Noted[i]) \in Nat
         /\ Cardinality(Noted[i]) <= Cardinality(Hop)
<1>1. Noted[i] \subseteq Hop
  BY DEF Noted
<1>2. QED
  BY <1>1, HopsAreFinite, FS_Subset, FS_CardinalityType

\* A step of a loop changes only the stack of its flood, which grows by the
\* loops the callee begins.
LEMMA Visiting ==
  ASSUME TypeOK, NEW c \in Card, NEW t, NEW frames \in Seq(Frame),
         Visit(c, t, frames)
  PROVE  /\ flood[c] # None /\ flood[c] \in Flood
         /\ flood' \in [Card -> Flood \cup {None}]
         /\ \A d \in Card : d # c => flood'[d] = flood[d]
         /\ flood'[c] \in Flood /\ flood'[c].id = flood[c].id
         /\ flood'[c].stack # <<>>
         /\ Len(flood'[c].stack) = Len(frames) + Len(flood[c].stack)
<1> DEFINE s == flood[c].stack
           top == Loop(Head(s).todo \ {t}, Head(s).links)
           new == frames \o <<top>> \o Tail(s)
<1>1. flood[c] # None /\ flood[c] \in Flood
  BY DEF Visit, TypeOK
<1>2. s \in Seq(Frame) /\ s # <<>>
  BY <1>1 DEF Flood, TypeOK
<1>3. Head(s) \in Frame /\ Tail(s) \in Seq(Frame) /\ Len(Tail(s)) = Len(s) - 1
      /\ Len(s) \in Nat
  BY <1>2
<1>4. top \in Frame
  BY <1>3 DEF Frame, Loop
<1>5. /\ <<top>> \in Seq(Frame) /\ Len(<<top>>) = 1
  BY <1>4
<1>6. /\ frames \o <<top>> \in Seq(Frame)
      /\ Len(frames \o <<top>>) = Len(frames) + 1 /\ Len(frames) \in Nat
  <2> HIDE DEF top
  <2>1. QED
    BY <1>5, ConcatProperties, LenProperties
<1>7. /\ new \in Seq(Frame) /\ Len(new) = Len(frames) + Len(s)
      /\ new # <<>>
  <2> HIDE DEF top, s
  <2>1. /\ new \in Seq(Frame)
        /\ Len(new) = Len(frames \o <<top>>) + Len(Tail(s))
    BY <1>3, <1>6, ConcatProperties
  <2>2. Len(new) = Len(frames) + Len(s) /\ Len(new) > 0
    BY <2>1, <1>2, <1>3, <1>6, LenProperties, EmptySeq
  <2>3. QED
    BY <2>1, <2>2, EmptySeq
<1>8. flood' = [flood EXCEPT ![c] = [flood[c] EXCEPT !.stack = new]]
  BY DEF Visit
<1>9. flood \in [Card -> Flood \cup {None}]
  BY DEF TypeOK
<1> HIDE DEF new
<1>10. [flood[c] EXCEPT !.stack = new] \in Flood
  BY <1>1, <1>7 DEF Flood
<1>11. flood'[c] = [flood[c] EXCEPT !.stack = new]
  BY <1>8, <1>9
<1>12. flood'[c].id = flood[c].id /\ flood'[c].stack = new
  BY <1>11, <1>1 DEF Flood
<1>13. QED
  BY <1>1, <1>7, <1>8, <1>9, <1>10, <1>11, <1>12

\* A step of a loop that begins at most one loop, and that only if a router or
\* access point notes a message it did not know, keeps NestsByNotes.
LEMMA NestsKept ==
  ASSUME TypeOK, NestsByNotes, NEW c \in Card, NEW t,
         NEW frames \in Seq(Frame), Visit(c, t, frames),
         \A h \in Hop : HandledMessages[h] \subseteq HandledMessages'[h],
         \/ Len(frames) = 0
         \/ /\ Len(frames) = 1
            /\ \E h \in Hop : /\ flood[c].id \notin HandledMessages[h]
                             /\ flood[c].id \in HandledMessages'[h]
  PROVE  NestsByNotes'
<1> DEFINE k == flood[c].id
<1>1. k \in Message
  BY Visiting DEF Flood
<1>2. \A i \in Message : /\ Noted[i] \subseteq Noted'[i]
                         /\ Noted'[i] \subseteq Hop
  BY DEF Noted
<1>3. \A i \in Message : /\ IsFiniteSet(Noted'[i])
                         /\ Cardinality(Noted'[i]) \in Nat
                         /\ Cardinality(Noted[i]) \in Nat
                         /\ Cardinality(Noted[i]) <= Cardinality(Noted'[i])
  BY <1>2, HopsAreFinite, FS_Subset, FS_CardinalityType
<1>4. ASSUME Len(frames) = 1
      PROVE  Cardinality(Noted[k]) + 1 <= Cardinality(Noted'[k])
  <2>1. PICK h \in Hop : /\ k \notin HandledMessages[h]
                        /\ k \in HandledMessages'[h]
    BY <1>4
  <2>2. h \notin Noted[k] /\ h \in Noted'[k]
    BY <1>1, <2>1 DEF Noted
  <2>3. Noted[k] # Noted'[k]
    BY <2>2
  <2>4. Cardinality(Noted[k]) < Cardinality(Noted'[k])
    BY <1>1, <1>2, <1>3, <2>3, FS_Subset
  <2>5. QED
    BY <1>1, <1>3, <2>4
<1>5. SUFFICES ASSUME NEW d \in Card, flood'[d] # None
               PROVE  Len(flood'[d].stack)
                        <= Cardinality(Noted'[flood'[d].id]) + 1
  BY DEF NestsByNotes
<1>6. CASE d = c
  <2>1. /\ flood'[c].id = k
        /\ Len(flood'[c].stack) = Len(frames) + Len(flood[c].stack)
        /\ flood[c] # None
    BY Visiting
  <2>2. Len(flood[c].stack) \in Nat
    BY Visiting, LenProperties DEF Flood
  <2>3. Len(flood[c].stack) <= Cardinality(Noted[k]) + 1
    BY <2>1 DEF NestsByNotes
  <2>4. Cardinality(Noted[k]) \in Nat /\ Cardinality(Noted'[k]) \in Nat
        /\ Cardinality(Noted[k]) <= Cardinality(Noted'[k])
    BY <1>1, <1>3
  <2>5. Len(frames) + Len(flood[c].stack) <= Cardinality(Noted'[k]) + 1
    <3> HIDE DEF k
    <3>1. CASE Len(frames) = 0
      BY <2>2, <2>3, <2>4, <3>1
    <3>2. CASE Len(frames) = 1
      BY <1>4, <2>2, <2>3, <2>4, <3>2
    <3>3. QED
      BY <3>1, <3>2
  <2>6. QED
    BY <1>6, <2>1, <2>5
<1>7. CASE d # c
  <2>1. flood'[d] = flood[d]
    BY <1>7, Visiting
  <2>2. flood[d] \in Flood
    BY <1>5, <2>1 DEF TypeOK
  <2>3. flood[d].id \in Message /\ Len(flood[d].stack) \in Nat
    BY <2>2, LenProperties DEF Flood
  <2>4. Len(flood[d].stack) <= Cardinality(Noted[flood[d].id]) + 1
    BY <1>5, <2>1 DEF NestsByNotes
  <2>5. QED
    BY <1>3, <2>1, <2>3, <2>4
<1>8. QED
  BY <1>6, <1>7

\* A step of a loop that signals nothing and forgets nothing keeps the
\* invariant, if it begins a loop only where the message is newly noted.
LEMMA VisitKeepsInv ==
  ASSUME RoutingInv, NEW c \in Card, NEW t,
         NEW frames \in Seq(Frame), Visit(c, t, frames),
         HandledMessages' \in [Handler -> SUBSET (1 .. sent)],
         \A h \in Handler : HandledMessages[h] \subseteq HandledMessages'[h],
         \/ Len(frames) = 0
         \/ /\ Len(frames) = 1
            /\ \E h \in Hop : /\ flood[c].id \notin HandledMessages[h]
                             /\ flood[c].id \in HandledMessages'[h],
         UNCHANGED <<wiring, filter, OpenPorts, received, promised, sent,
                     changes>>
  PROVE  RoutingInv'
<1> USE DEF RoutingInv
<1>1. flood[c] \in Flood /\ flood[c].id \in 1 .. sent
  BY Visiting DEF TypeOK, Flood, Message
<1>2. TypeOK'
  BY <1>1, Visiting DEF TypeOK, wiring
<1>3. AtMostOnce'
  BY DEF AtMostOnce
<1>4. Remembered'
  <2>1. \A d \in Card : flood'[d] # None =>
          flood[d] # None /\ flood'[d].id = flood[d].id
    BY Visiting
  <2>2. \A g \in Card : HandledMessages[g] \subseteq HandledMessages'[g]
    BY DEF Handler
  <2>3. ASSUME NEW e \in Card, NEW d \in Card,
               flood'[e] # None, received'[d][flood'[e].id] > 0
        PROVE  flood'[e].id \in HandledMessages'[d]
    <3>1. flood[e] # None /\ flood'[e].id = flood[e].id
      BY <2>1, <2>3
    <3>2. received[d][flood[e].id] > 0
      BY <2>3, <3>1
    <3>3. flood[e].id \in HandledMessages[d]
      BY <3>1, <3>2 DEF Remembered
    <3>4. QED
      BY <2>2, <3>1, <3>3
  <2>4. QED
    BY <2>3 DEF Remembered
<1>5. NestsByNotes'
  BY NestsKept DEF Hop, Handler
<1>6. QED
  BY <1>2, <1>3, <1>4, <1>5

\* What noting the message does to what the handlers remember.
LEMMA Noting ==
  ASSUME TypeOK, NEW c \in Card, flood[c] # None, NEW h \in Handler, Note(c, h)
  PROVE  /\ HandledMessages' \in [Handler -> SUBSET (1 .. sent)]
         /\ \A g \in Handler : HandledMessages[g] \subseteq HandledMessages'[g]
         /\ flood[c].id \in HandledMessages'[h]
<1>1. flood[c] \in Flood /\ flood[c].id \in 1 .. sent
  BY DEF TypeOK, Flood, Message
<1>2. QED
  BY <1>1 DEF TypeOK, Note

----------------------------------------------------------------------------
(* Every step keeps the invariant.                                         *)

LEMMA InitInv == Init => RoutingInv
<1> SUFFICES ASSUME Init PROVE RoutingInv
  OBVIOUS
<1>1. PICK N \in Network : circuit = N.circuit /\ powered = N.powered
                           /\ links = N.links
  BY DEF Init
<1>2. N \in Wiring
  BY RoutingAssumptions
<1>3. filter \in [Router -> Filter]
  BY DEF Init, Filter
<1>4. 0 \in 0 .. MaxMessages /\ 0 \in 0 .. MaxChanges
  BY RoutingAssumptions
<1>5. TypeOK
  BY <1>1, <1>2, <1>3, <1>4 DEF Init, TypeOK, Wiring
<1>6. AtMostOnce /\ Remembered /\ NestsByNotes
  BY DEF Init, AtMostOnce, Remembered, NestsByNotes
<1>7. QED
  BY <1>5, <1>6 DEF RoutingInv

LEMMA HandleRouterKeepsInv ==
  ASSUME RoutingInv, NEW c \in Card, NEW r \in Router, NEW i \in {1, 2},
         HandleRouter(c, r, i)
  PROVE  RoutingInv'
<1> DEFINE goes == IsNew(c, r) /\ Passes(r, c, flood[c].port)
           loop == Loop(Targets(circuit[<<r, 3 - i>>], flood[c].receiver), {})
           frames == IF goes THEN <<loop>> ELSE <<>>
<1>1. TypeOK /\ r \in Handler /\ r \in Hop
  BY DEF RoutingInv, Handler, Hop
<1>2. flood[c] # None /\ Visit(c, <<r, i>>, frames) /\ Note(c, r)
  BY DEF HandleRouter
<1>3. loop \in Frame
  BY TargetsAreNodes
<1>4. frames \in Seq(Frame) /\ (Len(frames) = 0 \/ (goes /\ Len(frames) = 1))
  <2> HIDE DEF goes, loop
  <2>1. QED
    BY <1>3
<1> HIDE DEF frames, loop
<1>5. UNCHANGED <<wiring, filter, OpenPorts, received, promised, sent, changes>>
  BY DEF HandleRouter
<1>6. QED
  BY <1>1, <1>2, <1>4, <1>5, Noting, VisitKeepsInv DEF IsNew

LEMMA FromCircuitKeepsInv ==
  ASSUME RoutingInv, NEW c \in Card, NEW w \in AccessPoint, FromCircuit(c, w)
  PROVE  RoutingInv'
<1> DEFINE loop == Loop(Links(w), {})
           frames == IF IsNew(c, w) THEN <<loop>> ELSE <<>>
<1>1. TypeOK /\ w \in Handler /\ w \in Hop
  BY DEF RoutingInv, Handler, Hop
<1>2. flood[c] # None /\ Visit(c, w, frames) /\ Note(c, w)
  BY DEF FromCircuit
<1>3. loop \in Frame
  BY <1>1, LinksAreAir DEF Loop, Frame
<1>4. /\ frames \in Seq(Frame)
      /\ Len(frames) = 0 \/ (IsNew(c, w) /\ Len(frames) = 1)
  <2> HIDE DEF loop
  <2>1. QED
    BY <1>3
<1> HIDE DEF frames, loop
<1>5. UNCHANGED <<wiring, filter, OpenPorts, received, promised, sent, changes>>
  BY DEF FromCircuit
<1>6. QED
  BY <1>1, <1>2, <1>4, <1>5, Noting, VisitKeepsInv DEF IsNew

LEMMA FromWirelessKeepsInv ==
  ASSUME RoutingInv, NEW c \in Card, NEW w \in AccessPoint, FromWireless(c, w)
  PROVE  RoutingInv'
<1> DEFINE found == flood[c].receiver \in GetComponents(circuit[w])
           air == IF found THEN {} ELSE Links(w)
           loop == Loop(Targets(circuit[w], flood[c].receiver), air)
           frames == IF ~IsNew(c, w) THEN <<>> ELSE <<loop>>
<1>1. TypeOK /\ w \in Handler /\ w \in Hop
  BY DEF RoutingInv, Handler, Hop
<1>2. flood[c] # None /\ Visit(c, <<w, 0>>, frames) /\ Note(c, w)
  BY DEF FromWireless
<1>3. loop \in Frame
  <2>1. air \in SUBSET Air
    BY <1>1, LinksAreAir
  <2>2. QED
    BY <2>1, TargetsAreNodes
<1>4. /\ frames \in Seq(Frame)
      /\ Len(frames) = 0 \/ (IsNew(c, w) /\ Len(frames) = 1)
  <2> HIDE DEF loop
  <2>1. QED
    BY <1>3
<1> HIDE DEF frames, loop
<1>5. UNCHANGED <<wiring, filter, OpenPorts, received, promised, sent, changes>>
  BY DEF FromWireless
<1>6. QED
  BY <1>1, <1>2, <1>4, <1>5, Noting, VisitKeepsInv DEF IsNew

LEMMA UnpoweredKeepsInv ==
  ASSUME RoutingInv, NEW c \in Card, NEW w \in AccessPoint, Unpowered(c, w)
  PROVE  RoutingInv'
<1>1. PICK t \in {w, <<w, 0>>} : Visit(c, t, <<>>)
  BY DEF Unpowered
<1>2. <<>> \in Seq(Frame) /\ Len(<<>>) = 0
  OBVIOUS
<1>3. HandledMessages' \in [Handler -> SUBSET (1 .. sent)]
  BY DEF Unpowered, RoutingInv, TypeOK
<1>4. UNCHANGED <<wiring, filter, OpenPorts, HandledMessages, received,
                  promised, sent, changes>>
  BY DEF Unpowered
<1>5. QED
  BY <1>1, <1>2, <1>3, <1>4, VisitKeepsInv

\* Only a card to which the message is new signals it, and that card had not
\* signalled it: else it would remember it.
LEMMA HandleCardKeepsInv ==
  ASSUME RoutingInv, NEW c \in Card, NEW d \in Card, HandleCard(c, d)
  PROVE  RoutingInv'
<1> DEFINE k == flood[c].id
           signals == /\ IsNew(c, d)
                      /\ flood[c].port \in OpenPorts[d]
                      /\ flood[c].receiver \in {None, d}
<1> USE DEF RoutingInv
<1>1. /\ Visit(c, d, <<>>) /\ Note(c, d) /\ d \in Handler
      /\ received' = IF signals THEN [received EXCEPT ![d][k] = @ + 1]
                     ELSE received
      /\ UNCHANGED <<wiring, filter, OpenPorts, promised, sent, changes>>
  BY DEF HandleCard, Handler
<1>2. <<>> \in Seq(Frame) /\ Len(<<>>) = 0
  OBVIOUS
<1>3. flood[c] # None /\ flood[c] \in Flood /\ k \in Message /\ k \in 1 .. sent
  <2>1. flood[c] # None /\ flood[c] \in Flood
    BY <1>1, <1>2, Visiting
  <2>2. k \in Message /\ k <= sent /\ sent \in Nat
    BY <2>1 DEF TypeOK, Flood
  <2>3. QED
    BY <2>1, <2>2 DEF Message
<1>4. /\ HandledMessages' \in [Handler -> SUBSET (1 .. sent)]
      /\ \A g \in Handler : HandledMessages[g] \subseteq HandledMessages'[g]
      /\ k \in HandledMessages'[d]
  BY <1>1, <1>3, Noting
<1>5. ASSUME signals PROVE received[d][k] = 0
  <2>1. k \notin HandledMessages[d]
    BY <1>5 DEF IsNew
  <2>2. ~(received[d][k] > 0)
    BY <1>3, <2>1 DEF Remembered
  <2>3. QED
    BY <1>3, <2>2 DEF TypeOK
<1>6. /\ received' \in [Card -> [Message -> Nat]]
      /\ \A x \in Card, i \in Message :
           \/ received'[x][i] = received[x][i]
           \/ x = d /\ i = k /\ received'[x][i] = 1
  <2> HIDE DEF signals, k
  <2>1. received \in [Card -> [Message -> Nat]]
    BY DEF TypeOK
  <2>2. CASE signals
    BY <1>1, <1>3, <1>5, <2>1, <2>2
  <2>3. CASE ~signals
    BY <1>1, <2>1, <2>3
  <2>4. QED
    BY <2>2, <2>3
<1>7. TypeOK'
  BY <1>1, <1>2, <1>3, <1>4, <1>6, Visiting DEF TypeOK, wiring
<1>8. AtMostOnce'
  BY <1>6 DEF AtMostOnce
<1>9. Remembered'
  <2>1. ASSUME NEW x \in Card, NEW i \in Message, i > sent'
        PROVE  received'[x][i] = 0
    <3>1. sent' = sent /\ sent \in Nat
      BY <1>1 DEF TypeOK
    <3>2. i > sent /\ i # k
      BY <1>3, <2>1, <3>1 DEF Message
    <3>3. QED
      BY <1>6, <3>2 DEF Remembered
  <2>2. \A e \in Card : flood'[e] # None =>
          /\ flood[e] # None /\ flood'[e].id = flood[e].id
          /\ flood[e].id \in Message
    BY <1>1, <1>2, Visiting DEF TypeOK, Flood
  <2>3. ASSUME NEW e \in Card, NEW x \in Card,
               flood'[e] # None, received'[x][flood'[e].id] > 0
        PROVE  flood'[e].id \in HandledMessages'[x]
    <3>1. flood[e] # None /\ flood'[e].id = flood[e].id
          /\ flood[e].id \in Message
      BY <2>2, <2>3
    <3>2. CASE x = d /\ flood[e].id = k
      BY <1>4, <3>1, <3>2
    <3>3. CASE ~(x = d /\ flood[e].id = k)
      <4>1. received[x][flood[e].id] > 0
        BY <1>6, <2>3, <3>1, <3>3
      <4>2. flood[e].id \in HandledMessages[x]
        BY <3>1, <4>1 DEF Remembered
      <4>3. QED
        BY <1>4, <3>1, <4>2 DEF Handler
    <3>4. QED
      BY <3>2, <3>3
  <2>4. QED
    BY <2>1, <2>3 DEF Remembered
<1>10. NestsByNotes'
  BY <1>1, <1>2, <1>4, NestsKept DEF Hop, Handler
<1>11. QED
  BY <1>7, <1>8, <1>9, <1>10

\* A message that is sent has an id that nobody has seen.
LEMMA SendKeepsInv ==
  ASSUME RoutingInv, NEW c \in Card, NEW receiver \in Card \cup {None},
         NEW p \in Port, Send(c, receiver, p)
  PROVE  RoutingInv'
<1> DEFINE loop == Loop(Targets(circuit[c], receiver), {})
           new == [id |-> sent + 1, receiver |-> receiver, port |-> p,
                   stack |-> <<loop>>]
<1> USE DEF RoutingInv
<1>1. /\ flood[c] = None /\ sent < MaxMessages /\ sent' = sent + 1
      /\ flood' = [flood EXCEPT ![c] = new]
      /\ promised' = [promised EXCEPT ![sent + 1] = Addressees(c, receiver, p)]
      /\ UNCHANGED <<wiring, filter, OpenPorts, HandledMessages, received,
                     changes>>
  BY DEF Send
<1>2. sent \in Nat /\ sent' \in 0 .. MaxMessages /\ sent + 1 \in Message
  BY <1>1, RoutingAssumptions DEF TypeOK, Message
<1>3. /\ new \in Flood /\ new.id = sent + 1
      /\ new.stack # <<>> /\ Len(new.stack) = 1
  <2>1. loop \in Frame
    BY TargetsAreNodes
  <2> HIDE DEF loop
  <2>2. QED
    BY <1>2, <2>1 DEF Flood
<1> HIDE DEF new, loop
<1>4. flood' \in [Card -> Flood \cup {None}] /\ flood'[c] = new
      /\ \A d \in Card : d # c => flood'[d] = flood[d]
  BY <1>1, <1>3 DEF TypeOK
<1>5. HandledMessages' \in [Handler -> SUBSET (1 .. sent')]
  BY <1>1, <1>2 DEF TypeOK
<1>6. promised' \in [Message -> (SUBSET Card) \cup {None}]
  <2>1. Addressees(c, receiver, p) \in SUBSET Card
    BY DEF Addressees
  <2>2. QED
    BY <1>1, <2>1 DEF TypeOK
<1>7. \A d \in Card : flood'[d] # None =>
        flood'[d].stack # <<>> /\ flood'[d].id <= sent'
  BY <1>1, <1>2, <1>3, <1>4 DEF TypeOK, Flood, Message
<1>8. TypeOK'
  BY <1>1, <1>2, <1>4, <1>5, <1>6, <1>7 DEF TypeOK, wiring
<1>9. AtMostOnce'
  BY <1>1 DEF AtMostOnce
<1>10. Remembered'
  <2>1. \A d \in Card, i \in Message : i > sent' => received'[d][i] = 0
    BY <1>1, <1>2 DEF Remembered, Message
  <2>2. \A d \in Card : received'[d][sent + 1] = 0
    BY <1>1, <1>2 DEF Remembered
  <2>3. \A e, d \in Card : flood'[e] # None /\ received'[d][flood'[e].id] > 0 =>
          flood'[e].id \in HandledMessages'[d]
    BY <1>1, <1>3, <1>4, <2>2 DEF Remembered
  <2>4. QED
    BY <2>1, <2>3 DEF Remembered
<1>11. NestsByNotes'
  <2>1. Noted' = Noted
    BY <1>1 DEF Noted
  <2>2. Cardinality(Noted[sent + 1]) \in Nat
    BY <1>2, NotedIsFinite
  <2>3. ASSUME NEW d \in Card, flood'[d] # None
        PROVE  Len(flood'[d].stack) <= Cardinality(Noted[flood'[d].id]) + 1
    <3>1. CASE d = c
      <4>1. Len(flood'[c].stack) = 1 /\ flood'[c].id = sent + 1
        BY <1>3, <1>4
      <4>2. 1 <= Cardinality(Noted[sent + 1]) + 1
        BY <2>2
      <4>3. QED
        BY <3>1, <4>1, <4>2
    <3>2. CASE d # c
      BY <1>4, <2>3, <3>2 DEF NestsByNotes
    <3>3. QED
      BY <3>1, <3>2
  <2>4. QED
    BY <2>1, <2>3 DEF NestsByNotes
<1>12. QED
  BY <1>8, <1>9, <1>10, <1>11

LEMMA ReturnKeepsInv ==
  ASSUME RoutingInv, NEW c \in Card, Return(c)
  PROVE  RoutingInv'
<1> DEFINE s == flood[c].stack
           top == Head(s)
           first == IF top.links # {} THEN <<Loop(top.links, {})>> ELSE <<>>
           rest == first \o Tail(s)
<1> USE DEF RoutingInv
<1>1. /\ flood[c] # None
      /\ flood' = [flood EXCEPT ![c] = IF rest = <<>> THEN None
                                       ELSE [flood[c] EXCEPT !.stack = rest]]
      /\ UNCHANGED <<wiring, filter, OpenPorts, HandledMessages, received,
                     promised, sent, changes>>
  BY DEF Return
<1>2. flood[c] \in Flood /\ s \in Seq(Frame) /\ s # <<>>
  BY <1>1 DEF TypeOK, Flood
<1>3. top \in Frame /\ Tail(s) \in Seq(Frame) /\ Len(Tail(s)) = Len(s) - 1
      /\ Len(s) \in Nat
  BY <1>2
<1>4. first \in Seq(Frame) /\ Len(first) \in Nat /\ Len(first) <= 1
  <2>1. Loop(top.links, {}) \in Frame
    BY <1>3 DEF Loop, Frame
  <2>2. QED
    BY <2>1
<1>5. rest \in Seq(Frame) /\ Len(rest) <= Len(s)
  <2> HIDE DEF first, s
  <2>1. rest \in Seq(Frame) /\ Len(rest) = Len(first) + Len(Tail(s))
    BY <1>3, <1>4, ConcatProperties
  <2> HIDE DEF rest
  <2>2. QED
    BY <1>3, <1>4, <2>1
<1> HIDE DEF rest
<1>6. \/ flood'[c] = None
      \/ /\ flood'[c] \in Flood /\ flood'[c].id = flood[c].id
         /\ flood'[c].stack # <<>> /\ Len(flood'[c].stack) <= Len(s)
  <2>1. flood'[c] = IF rest = <<>> THEN None
                    ELSE [flood[c] EXCEPT !.stack = rest]
    BY <1>1 DEF TypeOK
  <2>2. QED
    BY <1>2, <1>5, <2>1 DEF Flood
<1>7. \A d \in Card : d # c => flood'[d] = flood[d]
  BY <1>1 DEF TypeOK
<1>8. flood' \in [Card -> Flood \cup {None}]
  BY <1>1, <1>2, <1>5 DEF TypeOK, Flood
<1>9. TypeOK'
  BY <1>1, <1>6, <1>7, <1>8 DEF TypeOK, wiring
<1>10. AtMostOnce'
  BY <1>1 DEF AtMostOnce
<1>11. Remembered'
  <2>1. \A d \in Card : flood'[d] # None =>
          flood[d] # None /\ flood'[d].id = flood[d].id
    BY <1>1, <1>6, <1>7
  <2>2. QED
    BY <1>1, <2>1 DEF Remembered
<1>12. NestsByNotes'
  <2>1. Noted' = Noted
    BY <1>1 DEF Noted
  <2>2. ASSUME NEW d \in Card, flood'[d] # None
        PROVE  Len(flood'[d].stack) <= Cardinality(Noted[flood'[d].id]) + 1
    <3>1. CASE d # c
      BY <1>7, <2>2, <3>1 DEF NestsByNotes
    <3>2. CASE d = c
      <4>1. Len(s) <= Cardinality(Noted[flood[c].id]) + 1
        BY <1>1 DEF NestsByNotes
      <4>2. Cardinality(Noted[flood[c].id]) \in Nat
        BY <1>2, NotedIsFinite DEF Flood
      <4>3. flood'[c] \in Flood /\ flood'[c].id = flood[c].id
            /\ Len(flood'[c].stack) <= Len(s)
        BY <1>6, <2>2, <3>2
      <4>4. Len(flood'[c].stack) \in Nat
        BY <4>3, LenProperties DEF Flood
      <4>5. QED
        BY <1>3, <3>2, <4>1, <4>2, <4>3, <4>4
    <3>3. QED
      BY <3>1, <3>2
  <2>3. QED
    BY <2>1, <2>2 DEF NestsByNotes
<1>13. QED
  BY <1>9, <1>10, <1>11, <1>12

\* Steps that neither send, call nor signal.
LEMMA QuietKeepsInv ==
  ASSUME RoutingInv, TypeOK', UNCHANGED <<flood, received, sent>>,
         HandledMessages' = HandledMessages \/ \A c \in Card : flood[c] = None
  PROVE  RoutingInv'
<1>1. AtMostOnce'
  BY DEF RoutingInv, AtMostOnce
<1>2. Remembered'
  BY DEF RoutingInv, Remembered
<1>3. NestsByNotes'
  <2>1. CASE HandledMessages' = HandledMessages
    BY <2>1 DEF RoutingInv, NestsByNotes, Noted
  <2>2. CASE \A c \in Card : flood[c] = None
    BY <2>2 DEF NestsByNotes
  <2>3. QED
    BY <2>1, <2>2
<1>4. QED
  BY <1>1, <1>2, <1>3 DEF RoutingInv

LEMMA ChangesKeepsTypes ==
  ASSUME TypeOK, NEW c \in Card, Changes(c)
  PROVE  /\ changes' \in 0 .. MaxChanges
         /\ promised' \in [Message -> (SUBSET Card) \cup {None}]
<1>1. changes \in Nat /\ changes < MaxChanges /\ changes' = changes + 1
  BY DEF TypeOK, Changes
<1>2. changes' \in 0 .. MaxChanges
  BY <1>1, RoutingAssumptions
<1>3. promised' = [i \in Message |->
                     IF i \in InFlight THEN None ELSE promised[i]]
  BY DEF Changes
<1>4. promised \in [Message -> (SUBSET Card) \cup {None}]
  BY DEF TypeOK
<1>5. promised' \in [Message -> (SUBSET Card) \cup {None}]
  BY <1>3, <1>4
<1>6. QED
  BY <1>2, <1>5

LEMMA SetFilterKeepsInv ==
  ASSUME RoutingInv, NEW c \in Card, NEW r \in Router, SetFilter(c, r)
  PROVE  RoutingInv'
<1>1. TypeOK /\ Changes(c) /\ UNCHANGED OpenPorts
  BY DEF RoutingInv, SetFilter
<1>2. PICK f \in Set(r) : filter' = [filter EXCEPT ![r] = f]
  BY DEF SetFilter
<1>3. filter[r] \in Filter
  BY <1>1 DEF TypeOK
<1>4. f \in Filter
  BY <1>2, <1>3 DEF Set, Filter
<1>5. filter' \in [Router -> Filter]
  BY <1>1, <1>2, <1>4 DEF TypeOK
<1>6. UNCHANGED <<wiring, HandledMessages, flood, received, sent>>
  BY <1>1 DEF Changes
<1>7. TypeOK'
  BY <1>1, <1>5, <1>6, ChangesKeepsTypes DEF TypeOK, wiring
<1>8. QED
  BY <1>6, <1>7, QuietKeepsInv

LEMMA SetPortsKeepsInv ==
  ASSUME RoutingInv, NEW c \in Card, SetPorts(c)
  PROVE  RoutingInv'
<1>1. TypeOK /\ Changes(c) /\ UNCHANGED filter
  BY DEF RoutingInv, SetPorts
<1>2. PICK P \in SUBSET Port : OpenPorts' = [OpenPorts EXCEPT ![c] = P]
  <2>1. OpenPorts[c] \in SUBSET Port
    BY <1>1 DEF TypeOK
  <2>2. PICK P \in {{}} \cup {OpenPorts[c] \cup {p} : p \in Port}
                       \cup {OpenPorts[c] \ {p} : p \in Port} :
          OpenPorts' = [OpenPorts EXCEPT ![c] = P]
    BY DEF SetPorts
  <2>3. P \in SUBSET Port
    BY <2>1, <2>2
  <2>4. QED
    BY <2>2, <2>3
<1>3. UNCHANGED <<wiring, HandledMessages, flood, received, sent>>
  BY <1>1 DEF Changes
<1>4. TypeOK'
  BY <1>1, <1>2, <1>3, ChangesKeepsTypes DEF TypeOK, wiring
<1>5. QED
  BY <1>3, <1>4, QuietKeepsInv

\* Memories are emptied only when no message is under way: a card that forgets
\* one that it signalled is not called with it again.
LEMMA TickKeepsInv == ASSUME RoutingInv, Tick PROVE RoutingInv'
<1>1. TypeOK'
  BY DEF RoutingInv, Tick, TypeOK, wiring
<1>2. QED
  BY <1>1, QuietKeepsInv DEF Tick

LEMMA NextInv == RoutingInv /\ [Next]_vars => RoutingInv'
<1> SUFFICES ASSUME RoutingInv, [Next]_vars PROVE RoutingInv'
  OBVIOUS
<1>1. CASE \E c \in Card, d \in Card \cup {None}, p \in Port : Send(c, d, p)
  BY <1>1, SendKeepsInv
<1>2. ASSUME NEW c \in Card, FloodStep(c)
      PROVE  RoutingInv'
  <2>1. CASE \E d \in Card : HandleCard(c, d)
    BY <2>1, HandleCardKeepsInv
  <2>2. CASE \E r \in Router, i \in {1, 2} : HandleRouter(c, r, i)
    BY <2>2, HandleRouterKeepsInv
  <2>3. CASE \E w \in AccessPoint : Unpowered(c, w)
    BY <2>3, UnpoweredKeepsInv
  <2>4. CASE \E w \in AccessPoint : FromCircuit(c, w)
    BY <2>4, FromCircuitKeepsInv
  <2>5. CASE \E w \in AccessPoint : FromWireless(c, w)
    BY <2>5, FromWirelessKeepsInv
  <2>6. CASE Return(c)
    BY <2>6, ReturnKeepsInv
  <2>7. QED
    BY <1>2, <2>1, <2>2, <2>3, <2>4, <2>5, <2>6 DEF FloodStep
<1>3. CASE \E c \in Card : SetPorts(c)
  BY <1>3, SetPortsKeepsInv
<1>4. CASE \E c \in Card, r \in Router : SetFilter(c, r)
  BY <1>4, SetFilterKeepsInv
<1>5. CASE Tick
  BY <1>5, TickKeepsInv
<1>6. CASE UNCHANGED vars
  <2>1. UNCHANGED <<wiring, filter, OpenPorts, HandledMessages, flood,
                    received, promised, sent, changes>>
    BY <1>6 DEF vars
  <2>2. TypeOK'
    BY <2>1 DEF RoutingInv, TypeOK, wiring
  <2>3. QED
    BY <2>1, <2>2, QuietKeepsInv
<1>7. QED
  BY <1>1, <1>2, <1>3, <1>4, <1>5, <1>6 DEF Next

----------------------------------------------------------------------------
(* The theorems.                                                           *)

\* The inductive invariant holds of every network.
THEOREM RoutingHolds == Spec => []RoutingInv
BY InitInv, NextInv, PTL DEF Spec

\* Every variable has its type, and a message under way has an id that was
\* given to it (FINComputerNetworkCard.cpp, netFunc_send).
THEOREM TypeCorrect == Spec => []TypeOK
<1>1. RoutingInv => TypeOK
  BY DEF RoutingInv
<1>2. QED
  BY <1>1, RoutingHolds, PTL

\* A card signals no message twice, on whatever paths it comes and although
\* HandledMessages is emptied at every tick of the card
\* (FINComputerNetworkCard.cpp, HandleMessage).
THEOREM DeliveredOnce == Spec => []AtMostOnce
<1>1. RoutingInv => AtMostOnce
  BY DEF RoutingInv
<1>2. QED
  BY <1>1, RoutingHolds, PTL

\* Calls of HandleMessage nest no deeper than there are routers and access
\* points, in a network of any shape (FINNetworkRouter.cpp, HandleMessage).
THEOREM NoLoops == Spec => []NoMessageLoop
<1>1. ASSUME RoutingInv PROVE NoMessageLoop
  <2>1. SUFFICES ASSUME NEW c \in Card, flood[c] # None
                 PROVE  Len(flood[c].stack)
                          <= Cardinality(Router) + Cardinality(AccessPoint) + 1
    BY DEF NoMessageLoop
  <2>2. flood[c].id \in Message /\ Len(flood[c].stack) \in Nat
    BY <1>1, <2>1, LenProperties DEF RoutingInv, TypeOK, Flood
  <2>3. Len(flood[c].stack) <= Cardinality(Noted[flood[c].id]) + 1
    BY <1>1, <2>1 DEF RoutingInv, NestsByNotes
  <2>4. /\ Cardinality(Noted[flood[c].id]) \in Nat
        /\ Cardinality(Noted[flood[c].id]) <= Cardinality(Hop)
    BY <2>2, NotedIsFinite
  <2>5. Cardinality(Router) \in Nat /\ Cardinality(AccessPoint) \in Nat
    BY RoutingAssumptions, FS_CardinalityType
  <2>6. QED
    BY <2>2, <2>3, <2>4, <2>5, HopsAreFinite
<1>2. QED
  BY <1>1, RoutingHolds, PTL

----------------------------------------------------------------------------
(* Why every send returns.                                                 *)

LEMMA LoopsAreFinite ==
  ASSUME IsFiniteSet(Card), NEW f \in Frame
  PROVE  IsFiniteSet(f.todo)
<1>1. IsFiniteSet({1, 2}) /\ IsFiniteSet({0})
  <2>1. IsFiniteSet({1}) /\ IsFiniteSet({0})
    BY FS_Singleton
  <2>2. IsFiniteSet({1} \cup {2})
    BY <2>1, FS_AddElement
  <2>3. {1} \cup {2} = {1, 2}
    OBVIOUS
  <2>4. QED
    BY <2>1, <2>2, <2>3
<1>2. IsFiniteSet(RouterEnd) /\ IsFiniteSet(Air)
  BY <1>1, RoutingAssumptions, FS_Product DEF RouterEnd, Air
<1>3. IsFiniteSet(Card \cup RouterEnd)
  BY <1>2, FS_Union
<1>4. IsFiniteSet(Node)
  BY <1>3, RoutingAssumptions, FS_Union DEF Node
<1>5. IsFiniteSet(Node \cup Air)
  BY <1>2, <1>4, FS_Union
<1>6. f.todo \subseteq Node \cup Air
  BY DEF Frame
<1>7. QED
  BY <1>5, <1>6, FS_Subset

\* The four numbers of a work.
LEMMA WorkIs ==
  ASSUME NEW c \in Card
  PROVE  /\ Work(c) = <<Cardinality(Unnoted(c)), Len(flood[c].stack),
                       IF Head(flood[c].stack).links = {} THEN 0 ELSE 1,
                       Cardinality(Head(flood[c].stack).todo)>>
         /\ Work(c)' = <<Cardinality(Unnoted(c))', Len(flood'[c].stack),
                        IF Head(flood'[c].stack).links = {} THEN 0 ELSE 1,
                        Cardinality(Head(flood'[c].stack).todo)>>
BY DEF Work

LEMMA WorkIsFinite ==
  ASSUME IsFiniteSet(Card), NEW f \in Flood, f.stack # <<>>,
         NEW U \in SUBSET Hop
  PROVE  <<Cardinality(U), Len(f.stack),
           IF Head(f.stack).links = {} THEN 0 ELSE 1,
           Cardinality(Head(f.stack).todo)>> \in Nat \X Nat \X Nat \X Nat
<1>1. Len(f.stack) \in Nat /\ Head(f.stack) \in Frame
  BY DEF Flood
<1>2. Cardinality(Head(f.stack).todo) \in Nat
  BY <1>1, LoopsAreFinite, FS_CardinalityType
<1>3. Cardinality(U) \in Nat
  BY HopsAreFinite, FS_Subset, FS_CardinalityType
<1>4. QED
  BY <1>1, <1>2, <1>3

\* The works before and after a step of a flood that is under way.
LEMMA WorkType ==
  ASSUME IsFiniteSet(Card), NEW c \in Card
  PROVE  /\ TypeOK /\ flood[c] # None => Work(c) \in Nat \X Nat \X Nat \X Nat
         /\ TypeOK' /\ flood'[c] # None =>
              Work(c)' \in Nat \X Nat \X Nat \X Nat
<1>1. Unnoted(c) \in SUBSET Hop /\ Unnoted(c)' \in SUBSET Hop
  BY DEF Unnoted, Hop
<1>2. ASSUME TypeOK, flood[c] # None
      PROVE  Work(c) \in Nat \X Nat \X Nat \X Nat
  <2>1. flood[c] \in Flood /\ flood[c].stack # <<>>
    BY <1>2 DEF TypeOK
  <2>2. QED
    BY <1>1, <2>1, WorkIs, WorkIsFinite
<1>3. ASSUME TypeOK', flood'[c] # None
      PROVE  Work(c)' \in Nat \X Nat \X Nat \X Nat
  <2>1. flood'[c] \in Flood /\ flood'[c].stack # <<>>
    BY <1>3 DEF TypeOK
  <2>2. Cardinality(Unnoted(c))' = Cardinality(Unnoted(c)')
    OBVIOUS
  <2>3. QED
    BY <1>1, <2>1, <2>2, WorkIs, WorkIsFinite
<1>4. QED
  BY <1>2, <1>3

LEMMA BeforeIf ==
  ASSUME NEW m \in Nat \X Nat \X Nat \X Nat, NEW n \in Nat \X Nat \X Nat \X Nat,
         \/ m[1] < n[1]
         \/ m[1] <= n[1] /\ m[2] < n[2]
         \/ m[1] <= n[1] /\ m[2] = n[2] /\ m[3] < n[3]
         \/ m[1] <= n[1] /\ m[2] = n[2] /\ m[3] = n[3] /\ m[4] < n[4]
  PROVE  Before(m, n)
<1>1. m[1] < n[1] => Before(m, n)
  BY DEF Before
<1>2. m[1] = n[1] /\ m[2] < n[2] => Before(m, n)
  BY DEF Before
<1>3. m[1] = n[1] /\ m[2] = n[2] /\ m[3] < n[3] => Before(m, n)
  BY DEF Before
<1>4. m[1] = n[1] /\ m[2] = n[2] /\ m[3] = n[3] /\ m[4] < n[4] => Before(m, n)
  BY DEF Before
<1>5. m[1] \in Nat /\ n[1] \in Nat
  OBVIOUS
<1>6. m[1] <= n[1] => m[1] < n[1] \/ m[1] = n[1]
  BY <1>5
<1>7. QED
  BY <1>1, <1>2, <1>3, <1>4, <1>6

\* While nobody forgets a message, no fewer routers and access points know it.
LEMMA UnnotedShrinks ==
  ASSUME NEW c \in Card, flood'[c].id = flood[c].id,
         \A h \in Hop : HandledMessages[h] \subseteq HandledMessages'[h]
  PROVE  /\ Cardinality(Unnoted(c))' \in Nat /\ Cardinality(Unnoted(c)) \in Nat
         /\ Cardinality(Unnoted(c))' <= Cardinality(Unnoted(c))
         /\ (\E h \in Hop : /\ flood[c].id \notin HandledMessages[h]
                            /\ flood[c].id \in HandledMessages'[h]) =>
              Cardinality(Unnoted(c))' < Cardinality(Unnoted(c))
<1> DEFINE A == Unnoted(c)
           B == Unnoted(c)'
<1>1. A = {h \in Hop : flood[c].id \notin HandledMessages[h]}
  BY DEF Unnoted, IsNew, Hop
<1>2. B = {h \in Hop : flood[c].id \notin HandledMessages'[h]}
  BY DEF Unnoted, IsNew, Hop
<1>3. Cardinality(Unnoted(c))' = Cardinality(B)
  OBVIOUS
<1> HIDE DEF A, B
<1>4. A \subseteq Hop /\ B \subseteq A
  BY <1>1, <1>2
<1>5. IsFiniteSet(A) /\ IsFiniteSet(B)
  BY <1>4, HopsAreFinite, FS_Subset
<1>6. /\ Cardinality(A) \in Nat /\ Cardinality(B) \in Nat
      /\ Cardinality(B) <= Cardinality(A)
      /\ Cardinality(A) = Cardinality(B) => A = B
  BY <1>4, <1>5, FS_Subset, FS_CardinalityType
<1>7. ASSUME NEW h \in Hop, flood[c].id \notin HandledMessages[h],
             flood[c].id \in HandledMessages'[h]
      PROVE  Cardinality(B) < Cardinality(A)
  <2>1. A # B
    BY <1>1, <1>2, <1>7
  <2>2. QED
    BY <1>6, <2>1
<1>8. QED
  BY <1>3, <1>6, <1>7 DEF A

\* A step of a loop leaves less work: it begins no loop, or one where the message
\* was new.
LEMMA VisitWorks ==
  ASSUME IsFiniteSet(Card), TypeOK, TypeOK', NEW c \in Card, NEW t,
         NEW frames \in Seq(Frame), Visit(c, t, frames),
         \A h \in Hop : HandledMessages[h] \subseteq HandledMessages'[h],
         \/ frames = <<>>
         \/ \E h \in Hop : /\ flood[c].id \notin HandledMessages[h]
                           /\ flood[c].id \in HandledMessages'[h]
  PROVE  Before(Work(c)', Work(c))
<1> DEFINE s == flood[c].stack
           top == Head(s)
           next == Loop(top.todo \ {t}, top.links)
<1>1. /\ flood[c] # None /\ flood'[c] # None /\ flood'[c].id = flood[c].id
      /\ flood[c] \in Flood
  <2>1. flood'[c] \in Flood
    BY Visiting
  <2>2. QED
    BY <2>1, Visiting, RoutingAssumptions
<1>2. /\ Work(c) \in Nat \X Nat \X Nat \X Nat
      /\ Work(c)' \in Nat \X Nat \X Nat \X Nat
  BY <1>1, WorkType
<1>3. /\ Work(c)[1] = Cardinality(Unnoted(c))
      /\ Work(c)'[1] = Cardinality(Unnoted(c))'
      /\ Work(c)[2] = Len(s) /\ Work(c)'[2] = Len(flood'[c].stack)
      /\ Work(c)[3] = (IF top.links = {} THEN 0 ELSE 1)
      /\ Work(c)'[3] = (IF Head(flood'[c].stack).links = {} THEN 0 ELSE 1)
      /\ Work(c)[4] = Cardinality(top.todo)
      /\ Work(c)'[4] = Cardinality(Head(flood'[c].stack).todo)
  BY WorkIs
<1>4. Work(c)'[1] <= Work(c)[1]
  BY <1>1, <1>3, UnnotedShrinks
<1>5. CASE frames = <<>>
  <2>1. s \in Seq(Frame) /\ s # <<>> /\ top \in Frame /\ Tail(s) \in Seq(Frame)
    BY <1>1 DEF Flood, TypeOK
  <2>2. next \in Frame
    BY <2>1 DEF Frame, Loop
  <2>3. /\ flood'[c].stack = frames \o <<next>> \o Tail(s)
        /\ t \in top.todo
    BY <1>1 DEF Visit, TypeOK, Flood
  <2> HIDE DEF next
  <2>4. flood'[c].stack = <<next>> \o Tail(s)
    BY <1>5, <2>2, <2>3
  <2> HIDE DEF s
  <2>5. Head(<<next>> \o Tail(s)) = next
    BY <2>1, <2>2
  <2>6. next.todo = top.todo \ {t} /\ next.links = top.links
    BY DEF next, Loop
  <2>7. IsFiniteSet(top.todo)
    BY <2>1, LoopsAreFinite
  <2>8. /\ Cardinality(top.todo \ {t}) = Cardinality(top.todo) - 1
        /\ Cardinality(top.todo) \in Nat
    BY <2>3, <2>7, FS_RemoveElement, FS_CardinalityType
  <2>9. Work(c)'[4] < Work(c)[4] /\ Work(c)'[3] = Work(c)[3]
    <3>1. Head(flood'[c].stack) = next
      BY <2>4, <2>5
    <3>2. /\ Work(c)'[4] = Cardinality(top.todo \ {t})
          /\ Work(c)'[3] = (IF top.links = {} THEN 0 ELSE 1)
      BY <1>3, <2>6, <3>1
    <3> HIDE DEF top
    <3>3. Work(c)'[4] = Cardinality(top.todo) - 1
      BY <2>8, <3>2
    <3>4. QED
      BY <1>3, <2>8, <3>2, <3>3
  <2>10. Work(c)'[2] = Work(c)[2]
    <3>1. Len(frames) = 0 /\ Len(s) \in Nat
      BY <1>5, <2>1, LenProperties
    <3>2. Len(flood'[c].stack) = Len(frames) + Len(s)
      BY Visiting DEF s
    <3>3. QED
      BY <1>3, <3>1, <3>2
  <2>11. QED
    BY <1>2, <1>4, <2>9, <2>10, BeforeIf
<1>6. CASE \E h \in Hop : /\ flood[c].id \notin HandledMessages[h]
                          /\ flood[c].id \in HandledMessages'[h]
  <2>1. Work(c)'[1] < Work(c)[1]
    BY <1>1, <1>3, <1>6, UnnotedShrinks
  <2>2. QED
    BY <1>2, <2>1, BeforeIf
<1>7. QED
  BY <1>5, <1>6

\* So does the end of a loop.
LEMMA ReturnWorks ==
  ASSUME IsFiniteSet(Card), TypeOK, TypeOK', NEW c \in Card, Return(c),
         flood'[c] # None
  PROVE  Before(Work(c)', Work(c))
<1> DEFINE s == flood[c].stack
           top == Head(s)
           first == IF top.links # {} THEN <<Loop(top.links, {})>> ELSE <<>>
           rest == first \o Tail(s)
<1>1. /\ flood[c] # None /\ UNCHANGED HandledMessages
      /\ flood' = [flood EXCEPT ![c] = IF rest = <<>> THEN None
                                       ELSE [flood[c] EXCEPT !.stack = rest]]
  BY DEF Return
<1>2. /\ flood[c] \in Flood /\ s \in Seq(Frame) /\ s # <<>>
      /\ top \in Frame /\ Tail(s) \in Seq(Frame) /\ Len(Tail(s)) = Len(s) - 1
      /\ Len(s) \in Nat
  <2>1. flood[c] \in Flood /\ s \in Seq(Frame) /\ s # <<>>
    BY <1>1 DEF TypeOK, Flood
  <2>2. QED
    BY <2>1
<1>3. flood'[c].id = flood[c].id /\ flood'[c].stack = rest
  <2> HIDE DEF rest
  <2>1. flood'[c] = [flood[c] EXCEPT !.stack = rest]
    BY <1>1 DEF TypeOK
  <2>2. QED
    BY <1>2, <2>1 DEF Flood
<1>4. /\ Work(c) \in Nat \X Nat \X Nat \X Nat
      /\ Work(c)' \in Nat \X Nat \X Nat \X Nat
  BY <1>1, WorkType
<1>5. /\ Work(c)[1] = Cardinality(Unnoted(c))
      /\ Work(c)'[1] = Cardinality(Unnoted(c))'
      /\ Work(c)[2] = Len(s) /\ Work(c)'[2] = Len(flood'[c].stack)
      /\ Work(c)[3] = (IF top.links = {} THEN 0 ELSE 1)
      /\ Work(c)'[3] = (IF Head(flood'[c].stack).links = {} THEN 0 ELSE 1)
  BY WorkIs
<1>6. Work(c)'[1] <= Work(c)[1]
  BY <1>1, <1>3, <1>5, UnnotedShrinks
<1>7. CASE top.links = {}
  <2>1. rest = Tail(s)
    <3>1. first = <<>>
      BY <1>7
    <3> HIDE DEF first, s
    <3>2. QED
      BY <1>2, <3>1, ConcatEmptySeq
  <2>2. Work(c)'[2] < Work(c)[2]
    <3> HIDE DEF s, rest
    <3>1. QED
      BY <1>2, <1>3, <1>5, <2>1
  <2>3. QED
    BY <1>4, <1>6, <2>2, BeforeIf
<1>8. CASE top.links # {}
  <2> DEFINE air == Loop(top.links, {})
  <2>1. air \in Frame /\ air.links = {}
    BY <1>2 DEF Loop, Frame
  <2>2. rest = <<air>> \o Tail(s)
    BY <1>8
  <2> HIDE DEF air, rest, s
  <2>3. /\ Head(<<air>> \o Tail(s)) = air
        /\ Len(<<air>> \o Tail(s)) = 1 + Len(Tail(s))
    <3>1. <<air>> \in Seq(Frame) /\ Len(<<air>>) = 1
      BY <2>1
    <3>2. QED
      BY <1>2, <2>1, <3>1, ConcatProperties
  <2>4. Work(c)'[2] = Work(c)[2] /\ Work(c)'[3] < Work(c)[3]
    BY <1>2, <1>3, <1>5, <1>8, <2>1, <2>2, <2>3
  <2>5. QED
    BY <1>4, <1>6, <2>4, BeforeIf
<1>9. QED
  BY <1>7, <1>8

\* A step of the flood of c changes no other flood, and lets nobody forget.
LEMMA FloodRemembers ==
  ASSUME TypeOK, NEW c \in Card, FloodStep(c)
  PROVE  /\ \A h \in Handler : HandledMessages[h] \subseteq HandledMessages'[h]
         /\ \A d \in Card : d # c => flood'[d] = flood[d]
<1>1. \A t, frames : Visit(c, t, frames) =>
        /\ flood[c] # None
        /\ \A d \in Card : d # c => flood'[d] = flood[d]
  BY DEF Visit, TypeOK
<1>2. \A h \in Handler : Note(c, h) /\ flood[c] # None =>
        \A g \in Handler : HandledMessages[g] \subseteq HandledMessages'[g]
  BY Noting
<1>3. ASSUME NEW d \in Card, HandleCard(c, d)
      PROVE  /\ \A h \in Handler : HandledMessages[h] \subseteq HandledMessages'[h]
             /\ \A e \in Card : e # c => flood'[e] = flood[e]
  BY <1>1, <1>2, <1>3 DEF HandleCard, Handler
<1>4. ASSUME NEW r \in Router, NEW i \in {1, 2}, HandleRouter(c, r, i)
      PROVE  /\ \A h \in Handler : HandledMessages[h] \subseteq HandledMessages'[h]
             /\ \A e \in Card : e # c => flood'[e] = flood[e]
  BY <1>1, <1>2, <1>4 DEF HandleRouter, Handler
<1>5. ASSUME NEW w \in AccessPoint,
             Unpowered(c, w) \/ FromCircuit(c, w) \/ FromWireless(c, w)
      PROVE  /\ \A h \in Handler : HandledMessages[h] \subseteq HandledMessages'[h]
             /\ \A e \in Card : e # c => flood'[e] = flood[e]
  BY <1>1, <1>2, <1>5 DEF Unpowered, FromCircuit, FromWireless, Handler
<1>6. ASSUME Return(c)
      PROVE  /\ \A h \in Handler : HandledMessages[h] \subseteq HandledMessages'[h]
             /\ \A e \in Card : e # c => flood'[e] = flood[e]
  BY <1>6 DEF Return, TypeOK
<1>7. QED
  BY <1>3, <1>4, <1>5, <1>6 DEF FloodStep

LEMMA FloodStepWorks ==
  ASSUME IsFiniteSet(Card), TypeOK, TypeOK', NEW c \in Card, FloodStep(c),
         flood'[c] # None
  PROVE  Before(Work(c)', Work(c))
<1>1. \A h \in Hop : HandledMessages[h] \subseteq HandledMessages'[h]
  BY FloodRemembers DEF Hop, Handler
<1>2. <<>> \in Seq(Frame)
  OBVIOUS
<1>3. \A t : Visit(c, t, <<>>) => Before(Work(c)', Work(c))
  BY <1>1, <1>2, VisitWorks
<1>4. ASSUME NEW d \in Card, HandleCard(c, d)
      PROVE  Before(Work(c)', Work(c))
  BY <1>3, <1>4 DEF HandleCard
<1>5. ASSUME NEW w \in AccessPoint, Unpowered(c, w)
      PROVE  Before(Work(c)', Work(c))
  BY <1>3, <1>5 DEF Unpowered
<1>6. \A t : \A f \in Frame : \A h \in Hop :
        Visit(c, t, <<f>>) /\ IsNew(c, h) /\ Note(c, h) =>
          Before(Work(c)', Work(c))
  <2> SUFFICES ASSUME NEW t, NEW f \in Frame, NEW h \in Hop,
                      Visit(c, t, <<f>>), IsNew(c, h), Note(c, h)
               PROVE  Before(Work(c)', Work(c))
    OBVIOUS
  <2>1. flood[c] # None /\ h \in Handler
    BY DEF Visit, Hop, Handler
  <2>2. flood[c].id \notin HandledMessages[h] /\ flood[c].id \in HandledMessages'[h]
    BY <2>1, Noting DEF IsNew
  <2>3. <<f>> \in Seq(Frame)
    OBVIOUS
  <2>4. QED
    BY <1>1, <2>2, <2>3, VisitWorks
<1>7. ASSUME NEW r \in Router, NEW i \in {1, 2}, HandleRouter(c, r, i)
      PROVE  Before(Work(c)', Work(c))
  <2>1. PICK f \in Frame :
          f = Loop(Targets(circuit[<<r, 3 - i>>], flood[c].receiver), {})
    BY TargetsAreNodes
  <2>2. \/ Visit(c, <<r, i>>, <<>>)
        \/ Visit(c, <<r, i>>, <<f>>) /\ IsNew(c, r) /\ Note(c, r)
    BY <1>7, <2>1 DEF HandleRouter
  <2>3. QED
    BY <1>3, <1>6, <2>2 DEF Hop
<1>8. ASSUME NEW w \in AccessPoint, FromCircuit(c, w)
      PROVE  Before(Work(c)', Work(c))
  <2>1. PICK f \in Frame : f = Loop(Links(w), {})
    BY LinksAreAir DEF Loop, Frame
  <2>2. \/ Visit(c, w, <<>>)
        \/ Visit(c, w, <<f>>) /\ IsNew(c, w) /\ Note(c, w)
    BY <1>8, <2>1 DEF FromCircuit
  <2>3. QED
    BY <1>3, <1>6, <2>2 DEF Hop
<1>9. ASSUME NEW w \in AccessPoint, FromWireless(c, w)
      PROVE  Before(Work(c)', Work(c))
  <2> DEFINE air == IF flood[c].receiver \in GetComponents(circuit[w])
                      THEN {} ELSE Links(w)
  <2>1. PICK f \in Frame : f = Loop(Targets(circuit[w], flood[c].receiver), air)
    BY LinksAreAir, TargetsAreNodes
  <2>2. \/ Visit(c, <<w, 0>>, <<>>)
        \/ Visit(c, <<w, 0>>, <<f>>) /\ IsNew(c, w) /\ Note(c, w)
    BY <1>9, <2>1 DEF FromWireless
  <2>3. QED
    BY <1>3, <1>6, <2>2 DEF Hop
<1>10. Return(c) => Before(Work(c)', Work(c))
  BY ReturnWorks
<1>11. QED
  BY <1>4, <1>5, <1>7, <1>8, <1>9, <1>10 DEF FloodStep

\* What others do changes nothing of a flood under way but who knows its message.
LEMMA OthersRemember ==
  ASSUME TypeOK, NEW c \in Card, flood[c] # None, ~FloodStep(c), [Next]_vars
  PROVE  /\ flood'[c] = flood[c]
         /\ \A h \in Hop : HandledMessages[h] \subseteq HandledMessages'[h]
<1>1. ASSUME NEW d \in Card, FloodStep(d)
      PROVE  /\ flood'[c] = flood[c]
             /\ \A h \in Hop : HandledMessages[h] \subseteq HandledMessages'[h]
  BY <1>1, FloodRemembers DEF Hop, Handler
<1>2. ASSUME NEW d \in Card, NEW e \in Card \cup {None}, NEW p \in Port,
             Send(d, e, p)
      PROVE  flood'[c] = flood[c] /\ UNCHANGED HandledMessages
  BY <1>2 DEF Send, TypeOK
<1>3. ASSUME NEW d \in Card, SetPorts(d) \/ \E r \in Router : SetFilter(d, r)
      PROVE  UNCHANGED <<flood, HandledMessages>>
  BY <1>3 DEF SetPorts, SetFilter, Changes
<1>4. ~Tick
  BY DEF Tick
<1>5. UNCHANGED vars => UNCHANGED <<flood, HandledMessages>>
  BY DEF vars
<1>6. QED
  BY <1>1, <1>2, <1>3, <1>4, <1>5 DEF Next

LEMMA OthersWork ==
  ASSUME IsFiniteSet(Card), TypeOK, TypeOK', NEW c \in Card, flood[c] # None,
         ~FloodStep(c), [Next]_vars
  PROVE  Before(Work(c)', Work(c)) \/ Work(c)' = Work(c)
<1>1. /\ flood'[c] = flood[c]
      /\ \A h \in Hop : HandledMessages[h] \subseteq HandledMessages'[h]
  BY OthersRemember
<1>2. /\ Work(c) \in Nat \X Nat \X Nat \X Nat
      /\ Work(c)' \in Nat \X Nat \X Nat \X Nat
  BY <1>1, WorkType
<1>3. /\ Cardinality(Unnoted(c))' \in Nat /\ Cardinality(Unnoted(c)) \in Nat
      /\ Cardinality(Unnoted(c))' <= Cardinality(Unnoted(c))
  BY <1>1, UnnotedShrinks
<1>4. CASE Cardinality(Unnoted(c))' = Cardinality(Unnoted(c))
  BY <1>1, <1>4, WorkIs
<1>5. CASE Cardinality(Unnoted(c))' < Cardinality(Unnoted(c))
  <2>1. Work(c)'[1] < Work(c)[1]
    BY <1>5, WorkIs
  <2>2. QED
    BY <1>2, <2>1, BeforeIf
<1>6. QED
  BY <1>3, <1>4, <1>5

\* In a network with finitely many cards every send returns after finitely many
\* calls: each leaves it less work, in the order in which it may first be new to
\* fewer routers and access points, and what others do meanwhile adds nothing.
THEOREM SendsRunOut ==
  ASSUME IsFiniteSet(Card)
  PROVE  Spec => SendsEnd
<1> DEFINE Typed == \A c \in Card :
                      flood[c] # None => Work(c) \in Nat \X Nat \X Nat \X Nat
           Less == \A c \in Card : flood[c] # None /\ flood'[c] # None =>
                     \/ Before(Work(c)', Work(c))
                     \/ ~FloodStep(c) /\ Work(c)' = Work(c)
<1>1. TypeOK => Typed
  BY WorkType
<1>2. TypeOK /\ TypeOK' /\ [Next]_vars => [Less]_vars
  BY FloodStepWorks, OthersWork
<1>3. Spec => []Typed
  BY <1>1, TypeCorrect, PTL
<1>4. Spec => [][Less]_vars
  BY <1>2, TypeCorrect, PTL DEF Spec
<1>5. QED
  BY <1>3, <1>4 DEF SendsEnd

----------------------------------------------------------------------------
(* The course of a flood.  K are the handlers that remember its message, Q  *)
(* what its loops have still to call, G the cards that signalled it.        *)

Knowing(i) == {h \in Handler : i \in HandledMessages[h]}
Got(i)     == {d \in Card : received[d][i] > 0}
Left(f)    == f.todo \cup f.links
Pending(s) == UNION {Left(s[k]) : k \in 1 .. Len(s)}

\* A call of t with the message would change nothing any more.
Done(t, K) ==
  \/ t \in Card \cap K
  \/ \E r \in Router \cap K : t \in {<<r, 1>>, <<r, 2>>}
  \/ \E w \in AccessPoint : t \in {w, <<w, 0>>} /\ (w \in K \/ w \notin powered)

\* The circuits in which a message of c on port p has been handed out.
Entered(c, p, K) ==
  {a \in Circuit :
     \/ a = circuit[c]
     \/ \E r \in Router \cap K, i \in {1, 2} :
          Passes(r, c, p) /\ circuit[<<r, i>>] = a
     \/ \E w \in powered \cap K : circuit[w] = a}

\* The flood stays where the message can get, and wherever it got, everything
\* it is for there was called or will be.
Spread(c, R, p, K, Q) ==
  /\ Entered(c, p, K) \subseteq Reached(c, p)
  /\ \A a \in Entered(c, p, K) : \A t \in Targets(a, R) : t \in Q \/ Done(t, K)
  /\ \A w \in powered \cap K :
       \/ R \in GetComponents(circuit[w])
       \/ \A t \in Links(w) : t \in Q \/ Done(t, K)
  /\ \A t \in Node : t \in Q \/ t \in Card \cap K =>
       circuit[t] \in Entered(c, p, K)
  /\ \A v \in AccessPoint : <<v, 0>> \in Q =>
       \E w \in powered \cap K : v \in links[w]

\* A card that was handed the message has signalled it if it is for it.
Signalled(R, p, K, G) ==
  G = {d \in Card \cap K : p \in OpenPorts[d] /\ R \in {None, d}}

\* Of a message under way that nobody disturbed.
Right(c) ==
  flood[c] # None /\ promised[flood[c].id] # None =>
    LET i == flood[c].id
        R == flood[c].receiver
        p == flood[c].port
    IN /\ promised[i] = Addressees(c, R, p)
       /\ Spread(c, R, p, Knowing(i), Pending(flood[c].stack))
       /\ Signalled(R, p, Knowing(i), Got(i))

OwnIds ==
  \A c, d \in Card :
    flood[c] # None /\ flood[d] # None /\ flood[c].id = flood[d].id => c = d

FloodInv == RoutingInv /\ OwnIds /\ ExactlyReached /\ \A c \in Card : Right(c)

----------------------------------------------------------------------------
(* Where a message can get.                                                *)

LEMMA NodesHaveCircuits ==
  ASSUME TypeOK
  PROVE  /\ \A t \in Node : circuit[t] \in Circuit
         /\ \A e \in Card : e \in Node
         /\ \A w \in AccessPoint : w \in Node /\ <<w, 0>> \in Air
         /\ \A r \in Router, i \in {1, 2} :
              /\ <<r, i>> \in Node /\ <<r, 3 - i>> \in Node
              /\ 3 - i \in {1, 2}
BY DEF TypeOK, Node, RouterEnd, Air

\* Reached holds the sender's circuit and is closed ...
LEMMA ReachedIsClosed ==
  ASSUME TypeOK, NEW c \in Card, NEW p
  PROVE  /\ circuit[c] \in Reached(c, p)
         /\ \A x \in Reached(c, p), y \in Circuit :
              Crosses(c, p, x, y) => y \in Reached(c, p)
BY NodesHaveCircuits DEF Reached

\* ... and is the least such set.
LEMMA ReachedIsLeast ==
  ASSUME NEW c \in Card, NEW p, NEW S \in SUBSET Circuit, circuit[c] \in S,
         \A x \in S, y \in Circuit : Crosses(c, p, x, y) => y \in S
  PROVE  Reached(c, p) \subseteq S
BY DEF Reached

----------------------------------------------------------------------------
(* What the loops of a flood have still to call.                           *)

LEMMA PendingOfOne ==
  ASSUME NEW f \in Frame
  PROVE  Pending(<<f>>) = Left(f) /\ Pending(<<>>) = {}
<1>1. Len(<<f>>) = 1 /\ <<f>>[1] = f /\ 1 .. 1 = {1}
  OBVIOUS
<1>2. Pending(<<f>>) = Left(f)
  <2>1. \A t : t \in Pending(<<f>>) <=> \E k \in 1 .. Len(<<f>>) : t \in Left(<<f>>[k])
    BY DEF Pending
  <2>2. QED
    BY <1>1, <2>1
<1>3. Pending(<<>>) = {}
  <2>1. 1 .. Len(<<>>) = {}
    OBVIOUS
  <2>2. QED
    BY <2>1 DEF Pending
<1>4. QED
  BY <1>2, <1>3

LEMMA PendingOfConcat ==
  ASSUME NEW r \in Seq(Frame), NEW s \in Seq(Frame)
  PROVE  Pending(r \o s) = Pending(r) \cup Pending(s)
<1> DEFINE q == r \o s
<1>1. PICK m \in Nat, n \in Nat : m = Len(r) /\ n = Len(s)
  BY LenProperties
<1>2. /\ Len(q) = m + n
      /\ \A k \in 1 .. m + n : q[k] = IF k <= m THEN r[k] ELSE s[k - m]
  BY <1>1, ConcatProperties
<1> HIDE DEF q
<1>3. /\ \A t : t \in Pending(q) <=> \E k \in 1 .. m + n : t \in Left(q[k])
      /\ \A t : t \in Pending(r) <=> \E k \in 1 .. m : t \in Left(r[k])
      /\ \A t : t \in Pending(s) <=> \E k \in 1 .. n : t \in Left(s[k])
  BY <1>1, <1>2 DEF Pending
<1>4. ASSUME NEW t \in Pending(q) PROVE t \in Pending(r) \cup Pending(s)
  <2>1. PICK k \in 1 .. m + n : t \in Left(q[k])
    BY <1>3
  <2>2. CASE k <= m
    <3>1. k \in 1 .. m /\ q[k] = r[k]
      BY <1>2, <2>2
    <3>2. QED
      BY <1>3, <2>1, <3>1
  <2>3. CASE k > m
    <3>1. k - m \in 1 .. n /\ q[k] = s[k - m]
      BY <1>2, <2>3
    <3>2. QED
      BY <1>3, <2>1, <3>1
  <2>4. QED
    BY <2>2, <2>3
<1>5. ASSUME NEW t \in Pending(r) PROVE t \in Pending(q)
  <2>1. PICK k \in 1 .. m : t \in Left(r[k])
    BY <1>3
  <2>2. k \in 1 .. m + n /\ q[k] = r[k]
    BY <1>2
  <2>3. QED
    BY <1>3, <2>1, <2>2
<1>6. ASSUME NEW t \in Pending(s) PROVE t \in Pending(q)
  <2>1. PICK k \in 1 .. n : t \in Left(s[k])
    BY <1>3
  <2>2. m + k \in 1 .. m + n /\ ~(m + k <= m) /\ (m + k) - m = k
    OBVIOUS
  <2>3. q[m + k] = s[k]
    BY <1>2, <2>2
  <2>4. QED
    BY <1>3, <2>1, <2>2, <2>3
<1>7. Pending(q) = Pending(r) \cup Pending(s)
  BY <1>4, <1>5, <1>6
<1>8. QED
  BY <1>7 DEF q

LEMMA PendingOfHead ==
  ASSUME NEW s \in Seq(Frame), s # <<>>
  PROVE  Pending(s) = Left(Head(s)) \cup Pending(Tail(s))
<1>1. Head(s) \in Frame /\ Tail(s) \in Seq(Frame) /\ <<Head(s)>> \in Seq(Frame)
  OBVIOUS
<1>2. s = <<Head(s)>> \o Tail(s)
  OBVIOUS
<1>3. Pending(<<Head(s)>> \o Tail(s)) = Pending(<<Head(s)>>) \cup Pending(Tail(s))
  BY <1>1, PendingOfConcat
<1>4. QED
  BY <1>1, <1>2, <1>3, PendingOfOne

\* A step of a loop takes t from what is left to call and adds what the callee
\* begins.  The flood is of the same message.
LEMMA VisitPends ==
  ASSUME TypeOK, NEW c \in Card, NEW t, NEW frames \in Seq(Frame),
         Visit(c, t, frames)
  PROVE  LET Q == Pending(flood[c].stack)
             N == Pending(frames)
             Q1 == Pending(flood'[c].stack)
         IN /\ t \in Q /\ Q \ {t} \subseteq Q1
            /\ N \subseteq Q1 /\ Q1 \subseteq Q \cup N
            /\ flood'[c].receiver = flood[c].receiver
            /\ flood'[c].port = flood[c].port
<1> DEFINE s == flood[c].stack
           top == Loop(Head(s).todo \ {t}, Head(s).links)
           new == frames \o <<top>> \o Tail(s)
<1>1. flood[c] # None /\ flood[c] \in Flood
  BY DEF Visit, TypeOK
<1>2. s \in Seq(Frame) /\ s # <<>>
  BY <1>1 DEF Flood, TypeOK
<1>3. Head(s) \in Frame /\ Tail(s) \in Seq(Frame)
  BY <1>2
<1>4. top \in Frame
  BY <1>3 DEF Frame, Loop
<1>5. /\ flood'[c].stack = new /\ flood'[c].receiver = flood[c].receiver
      /\ flood'[c].port = flood[c].port
  <2>1. flood'[c] = [flood[c] EXCEPT !.stack = new]
    BY DEF Visit, TypeOK
  <2> HIDE DEF new
  <2>2. QED
    BY <1>1, <2>1 DEF Flood
<1>6. t \in Left(Head(s)) /\ Left(Head(s)) \ {t} \subseteq Left(top)
      /\ Left(top) \subseteq Left(Head(s))
  BY DEF Visit, Left, Loop
<1>7. Pending(s) = Left(Head(s)) \cup Pending(Tail(s))
  BY <1>2, PendingOfHead
<1>8. Pending(new) = Pending(frames) \cup Left(top) \cup Pending(Tail(s))
  <2> HIDE DEF top, s
  <2>1. <<top>> \in Seq(Frame) /\ Pending(<<top>>) = Left(top)
    BY <1>4, PendingOfOne
  <2>2. frames \o <<top>> \in Seq(Frame)
    BY <2>1, ConcatProperties
  <2>3. Pending(frames \o <<top>>) = Pending(frames) \cup Left(top)
    BY <2>1, PendingOfConcat
  <2>4. QED
    BY <1>3, <2>2, <2>3, PendingOfConcat
<1> HIDE DEF new, top
<1>9. QED
  BY <1>5, <1>6, <1>7, <1>8

----------------------------------------------------------------------------
(* A call by a loop, on K, Q and what the callee begins.                   *)

LEMMA EnteredGrows ==
  ASSUME NEW c \in Card, NEW p, NEW K, NEW L, K \subseteq L
  PROVE  Entered(c, p, K) \subseteq Entered(c, p, L)
BY DEF Entered

LEMMA DoneStays ==
  ASSUME NEW K, NEW L, K \subseteq L, NEW t, Done(t, K)
  PROVE  Done(t, L)
BY DEF Done

\* What has to be shown of a call that adds to K and changes Q.
LEMMA SpreadKept ==
  ASSUME NEW c \in Card, NEW R, NEW p, NEW K, NEW Q, NEW L, NEW P,
         Spread(c, R, p, K, Q), K \subseteq L,
         Entered(c, p, L) \subseteq Reached(c, p),
         \A t \in Q : t \in P \/ Done(t, L),
         \A a \in Entered(c, p, L) \ Entered(c, p, K) : \A t \in Targets(a, R) :
           t \in P \/ Done(t, L),
         \A w \in powered \cap (L \ K) :
           R \in GetComponents(circuit[w]) \/ \A t \in Links(w) : t \in P \/ Done(t, L),
         \A t \in Node : t \in P \ Q \/ t \in Card \cap (L \ K) =>
           circuit[t] \in Entered(c, p, L),
         \A v \in AccessPoint : <<v, 0>> \in P \ Q =>
           \E w \in powered \cap L : v \in links[w]
  PROVE  Spread(c, R, p, L, P)
<1>1. ASSUME NEW a \in Entered(c, p, L), NEW t \in Targets(a, R)
      PROVE  t \in P \/ Done(t, L)
  BY <1>1, DoneStays DEF Spread
<1>2. ASSUME NEW w \in powered \cap L, R \notin GetComponents(circuit[w]),
             NEW t \in Links(w)
      PROVE  t \in P \/ Done(t, L)
  BY <1>2, DoneStays DEF Spread
<1>3. ASSUME NEW t \in Node, t \in P \/ t \in Card \cap L
      PROVE  circuit[t] \in Entered(c, p, L)
  BY <1>3, EnteredGrows DEF Spread
<1>4. ASSUME NEW v \in AccessPoint, <<v, 0>> \in P
      PROVE  \E w \in powered \cap L : v \in links[w]
  BY <1>4 DEF Spread
<1>5. QED
  BY <1>1, <1>2, <1>3, <1>4 DEF Spread

LEMMA AirIsNoNode ==
  ASSUME NEW v \in AccessPoint
  PROVE  <<v, 0>> \notin Node
<1>1. <<v, 0>> \in Air /\ <<v, 0>> \notin RouterEnd
  BY DEF Air, RouterEnd
<1>2. QED
  BY <1>1, RoutingAssumptions DEF Node

LEMMA CardSpreads ==
  ASSUME TypeOK, NEW c \in Card, NEW R, NEW p, NEW K, NEW Q, NEW P,
         Spread(c, R, p, K, Q),
         NEW d \in Card, d \in Q, Q \ {d} \subseteq P, P \subseteq Q
  PROVE  Spread(c, R, p, K \cup {d}, P)
<1> DEFINE L == K \cup {d}
<1>1. d \notin Router /\ d \notin AccessPoint /\ powered \subseteq AccessPoint
  BY RoutingAssumptions DEF TypeOK
<1>2. Entered(c, p, L) = Entered(c, p, K) /\ powered \cap (L \ K) = {}
  BY <1>1 DEF Entered
<1>3. Done(d, L)
  BY DEF Done
<1>4. d \in Node /\ circuit[d] \in Entered(c, p, K)
  BY NodesHaveCircuits DEF Spread
<1>5. Entered(c, p, K) \subseteq Reached(c, p)
  BY DEF Spread
<1>6. K \subseteq L /\ L \ K \subseteq {d}
  OBVIOUS
<1> HIDE DEF L
<1>7. Spread(c, R, p, L, P)
  BY <1>2, <1>3, <1>4, <1>5, <1>6, SpreadKept
<1>8. QED
  BY <1>7 DEF L

\* A router hands on what is new to it and may pass, at its other end.
LEMMA RouterSpreads ==
  ASSUME TypeOK, NEW c \in Card, NEW R, NEW p, NEW K, NEW Q, NEW P, NEW N,
         Spread(c, R, p, K, Q), NEW r \in Router, NEW i \in {1, 2},
         N = IF r \notin K /\ Passes(r, c, p)
             THEN Targets(circuit[<<r, 3 - i>>], R) ELSE {},
         <<r, i>> \in Q, Q \ {<<r, i>>} \subseteq P,
         N \subseteq P, P \subseteq Q \cup N
  PROVE  Spread(c, R, p, K \cup {r}, P)
<1> DEFINE L == K \cup {r}
           t == <<r, i>>
           b == circuit[<<r, 3 - i>>]
           goes == r \notin K /\ Passes(r, c, p)
<1>1. r \notin Card /\ r \notin AccessPoint /\ powered \subseteq AccessPoint
  BY RoutingAssumptions DEF TypeOK
<1>2. K \subseteq L /\ L \ K \subseteq {r} /\ r \in L
  OBVIOUS
<1>3. Done(t, L)
  BY <1>2 DEF Done
<1>4. /\ b \in Circuit /\ circuit[t] \in Entered(c, p, K)
      /\ circuit[t] \in Reached(c, p)
  BY NodesHaveCircuits DEF Spread
<1>5. goes => b \in Reached(c, p)
  <2>1. Passes(r, c, p) => Crosses(c, p, circuit[t], b)
    BY DEF Crosses
  <2>2. QED
    BY <1>4, <2>1, ReachedIsClosed
<1>6. Entered(c, p, L) \subseteq Entered(c, p, K) \cup (IF goes THEN {b} ELSE {})
  <2>1. SUFFICES ASSUME NEW a \in Entered(c, p, L), a \notin Entered(c, p, K)
                 PROVE  goes /\ a = b
    OBVIOUS
  <2>2. r \notin K /\ Passes(r, c, p)
        /\ \E j \in {1, 2} : circuit[<<r, j>>] = a
    BY <1>1, <1>2, <2>1 DEF Entered
  <2>3. a = circuit[t] \/ a = b
    BY <2>2
  <2>4. QED
    BY <1>4, <2>1, <2>2, <2>3
<1>7. goes => b \in Entered(c, p, L)
  BY <1>2, <1>4, NodesHaveCircuits DEF Entered
<1>8. \A u \in N : u \in Node /\ circuit[u] = b /\ goes
  BY DEF Targets, GetComponents
<1>9. goes => N = Targets(b, R)
  OBVIOUS
<1>10. Entered(c, p, K) \subseteq Reached(c, p)
  BY DEF Spread
<1>11. powered \cap (L \ K) = {} /\ Card \cap (L \ K) = {}
  BY <1>1, <1>2
<1>12. P \ Q \subseteq N /\ \A u \in Q : u \in P \/ u = t
  OBVIOUS
<1> HIDE DEF L, b, goes, t
<1>13. Entered(c, p, L) \subseteq Reached(c, p)
  BY <1>5, <1>6, <1>10
<1>14. \A a \in Entered(c, p, L) \ Entered(c, p, K) : \A u \in Targets(a, R) :
         u \in P
  BY <1>6, <1>9
<1>15. \A u \in Node : u \in P \ Q => circuit[u] \in Entered(c, p, L)
  BY <1>7, <1>8, <1>12
<1>16. \A v \in AccessPoint : <<v, 0>> \notin P \ Q
  BY <1>8, <1>12, AirIsNoNode
<1>17. Spread(c, R, p, L, P)
  BY <1>2, <1>3, <1>11, <1>12, <1>13, <1>14, <1>15, <1>16, SpreadKept
<1>18. QED
  BY <1>17 DEF L

\* An access point called from its circuit.
LEMMA PointSpreads ==
  ASSUME TypeOK, NEW c \in Card, NEW R, NEW p, NEW K, NEW Q, NEW P, NEW N,
         Spread(c, R, p, K, Q), NEW w \in powered,
         N = IF w \notin K THEN Links(w) ELSE {},
         w \in Q, Q \ {w} \subseteq P, N \subseteq P, P \subseteq Q \cup N
  PROVE  Spread(c, R, p, K \cup {w}, P)
<1> DEFINE L == K \cup {w}
<1>1. w \notin Card /\ w \notin Router /\ w \in AccessPoint
  BY RoutingAssumptions DEF TypeOK
<1>2. K \subseteq L /\ L \ K \subseteq {w} /\ w \in L
  OBVIOUS
<1>3. Done(w, L)
  BY <1>1, <1>2 DEF Done
<1>4. circuit[w] \in Entered(c, p, K)
  BY <1>1, NodesHaveCircuits DEF Spread
<1>5. Entered(c, p, L) = Entered(c, p, K)
  BY <1>1, <1>2, <1>4 DEF Entered
<1>6. Entered(c, p, K) \subseteq Reached(c, p)
  BY DEF Spread
<1>7. \A u \in powered \cap (L \ K) : \A t \in Links(u) : t \in P
  BY <1>2
<1>8. \A t \in N : \E v \in links[w] : v \in AccessPoint /\ t = <<v, 0>>
  BY <1>1 DEF Links, TypeOK
<1>9. P \ Q \subseteq N /\ \A t \in Q : t \in P \/ t = w
  OBVIOUS
<1>10. \A t \in Node : t \notin P \ Q
  BY <1>8, <1>9, AirIsNoNode
<1>11. \A v \in AccessPoint : <<v, 0>> \in P \ Q =>
         \E u \in powered \cap L : v \in links[u]
  BY <1>2, <1>8, <1>9
<1>12. Card \cap (L \ K) = {}
  BY <1>1, <1>2
<1> HIDE DEF L
<1>13. Spread(c, R, p, L, P)
  BY <1>2, <1>3, <1>5, <1>6, <1>7, <1>9, <1>10, <1>11, <1>12, SpreadKept
<1>14. QED
  BY <1>13 DEF L

\* An access point called by another one hands out in its circuit what is new
\* to it, and goes on to the air unless the receiver is there.
LEMMA AirSpreads ==
  ASSUME TypeOK, NEW c \in Card, NEW R, NEW p, NEW K, NEW Q, NEW P, NEW N,
         Spread(c, R, p, K, Q), NEW w \in powered,
         N = IF w \notin K
             THEN Targets(circuit[w], R)
                  \cup (IF R \in GetComponents(circuit[w]) THEN {} ELSE Links(w))
             ELSE {},
         <<w, 0>> \in Q, Q \ {<<w, 0>>} \subseteq P,
         N \subseteq P, P \subseteq Q \cup N
  PROVE  Spread(c, R, p, K \cup {w}, P)
<1> DEFINE L == K \cup {w}
           b == circuit[w]
<1>1. w \notin Card /\ w \notin Router /\ w \in AccessPoint
  BY RoutingAssumptions DEF TypeOK
<1>2. K \subseteq L /\ L \ K \subseteq {w} /\ w \in L
  OBVIOUS
<1>3. Done(<<w, 0>>, L)
  BY <1>1, <1>2 DEF Done
<1>4. b \in Circuit
  BY <1>1, NodesHaveCircuits
<1>5. b \in Reached(c, p)
  <2>1. PICK u \in powered \cap K : w \in links[u]
    BY <1>1 DEF Spread
  <2>2. circuit[u] \in Circuit
    BY <2>1, NodesHaveCircuits DEF TypeOK
  <2>3. circuit[u] \in Entered(c, p, K)
    BY <2>1, <2>2 DEF Entered
  <2>4. circuit[u] \in Reached(c, p)
    BY <2>3 DEF Spread
  <2>5. Crosses(c, p, circuit[u], b)
    BY <2>1 DEF Crosses
  <2>6. QED
    BY <1>4, <2>4, <2>5, ReachedIsClosed
<1>6. Entered(c, p, L) \subseteq Entered(c, p, K) \cup (IF w \in K THEN {} ELSE {b})
  BY <1>1, <1>2 DEF Entered
<1>7. b \in Entered(c, p, L)
  BY <1>2, <1>4 DEF Entered
<1>8. /\ \A t \in Targets(b, R) : t \in Node /\ circuit[t] = b
      /\ \A t \in Links(w) : \E v \in links[w] : v \in AccessPoint /\ t = <<v, 0>>
  BY <1>1 DEF Targets, GetComponents, Links, TypeOK
<1>9. Entered(c, p, K) \subseteq Reached(c, p)
  BY DEF Spread
<1>10. /\ w \notin K => Targets(b, R) \subseteq P
       /\ w \notin K /\ R \notin GetComponents(b) => Links(w) \subseteq P
       /\ N \subseteq Targets(b, R) \cup Links(w)
  OBVIOUS
<1>11. P \ Q \subseteq N /\ \A t \in Q : t \in P \/ t = <<w, 0>>
  OBVIOUS
<1>12. Card \cap (L \ K) = {}
  BY <1>1, <1>2
<1> HIDE DEF L
<1>13. Entered(c, p, L) \subseteq Reached(c, p)
  BY <1>5, <1>6, <1>9
<1>14. \A a \in Entered(c, p, L) \ Entered(c, p, K) : \A t \in Targets(a, R) :
         t \in P
  BY <1>6, <1>10
<1>15. \A u \in powered \cap (L \ K) :
         R \in GetComponents(circuit[u]) \/ \A t \in Links(u) : t \in P
  BY <1>2, <1>10
<1>16. \A t \in Node : t \in P \ Q => circuit[t] \in Entered(c, p, L)
  BY <1>7, <1>8, <1>10, <1>11, AirIsNoNode
<1>17. \A v \in AccessPoint : <<v, 0>> \in P \ Q =>
         \E u \in powered \cap L : v \in links[u]
  <2>1. SUFFICES ASSUME NEW v \in AccessPoint, <<v, 0>> \in P \ Q
                 PROVE  v \in links[w]
    BY <1>2
  <2>2. <<v, 0>> \in Links(w)
    BY <1>8, <1>10, <1>11, <2>1, AirIsNoNode
  <2>3. QED
    BY <1>8, <2>2
<1>18. Spread(c, R, p, L, P)
  BY <1>2, <1>3, <1>11, <1>12, <1>13, <1>14, <1>15, <1>16, <1>17, SpreadKept
<1>19. QED
  BY <1>18 DEF L

\* A call that does nothing.
LEMMA DoneSpreads ==
  ASSUME NEW c \in Card, NEW R, NEW p, NEW K, NEW Q, NEW P, NEW t,
         Spread(c, R, p, K, Q), Done(t, K), Q \ {t} \subseteq P, P \subseteq Q
  PROVE  Spread(c, R, p, K, P)
<1>1. Entered(c, p, K) \subseteq Reached(c, p)
  BY DEF Spread
<1>2. \A u \in Q : u \in P \/ Done(u, K)
  OBVIOUS
<1>3. P \ Q = {} /\ K \ K = {} /\ Entered(c, p, K) \ Entered(c, p, K) = {}
  OBVIOUS
<1>4. QED
  BY <1>1, <1>2, <1>3, SpreadKept

\* A message that nobody knows is handed out in its sender's circuit.
LEMMA SentSpreads ==
  ASSUME TypeOK, NEW c \in Card, NEW R, NEW p
  PROVE  Spread(c, R, p, {}, Targets(circuit[c], R))
<1>1. Entered(c, p, {}) = {circuit[c]} /\ circuit[c] \in Reached(c, p)
  BY NodesHaveCircuits, ReachedIsClosed DEF Entered
<1>2. \A t \in Targets(circuit[c], R) : t \in Node /\ circuit[t] = circuit[c]
  BY DEF Targets, GetComponents
<1>3. \A v \in AccessPoint : <<v, 0>> \notin Targets(circuit[c], R)
  BY <1>2, AirIsNoNode
<1>4. QED
  BY <1>1, <1>2, <1>3 DEF Spread

----------------------------------------------------------------------------
(* A flood whose loops have ended got everywhere it should.                *)

\* What it means for each kind of callee that it is done.
LEMMA DoneMeans ==
  ASSUME NEW K
  PROVE  /\ \A d \in Card : Done(d, K) => d \in K
         /\ \A r \in Router, i \in {1, 2} : Done(<<r, i>>, K) => r \in K
         /\ \A w \in powered \cap AccessPoint :
              Done(w, K) \/ Done(<<w, 0>>, K) => w \in K
<1>1. ASSUME NEW d \in Card, Done(d, K) PROVE d \in K
  <2>1. d \notin RouterEnd \cup Air \cup AccessPoint
    BY RoutingAssumptions
  <2>2. QED
    BY <1>1, <2>1 DEF Done, RouterEnd, Air
<1>2. ASSUME NEW r \in Router, NEW i \in {1, 2}, Done(<<r, i>>, K) PROVE r \in K
  <2>1. <<r, i>> \in RouterEnd /\ <<r, i>> \notin Air
    BY DEF RouterEnd, Air
  <2>2. <<r, i>> \notin Card \cup AccessPoint
    BY <2>1, RoutingAssumptions
  <2>3. \A w \in AccessPoint : <<r, i>> \notin {w, <<w, 0>>}
    BY <2>1, <2>2 DEF Air
  <2>4. QED
    BY <1>2, <2>2, <2>3 DEF Done
<1>3. ASSUME NEW w \in powered \cap AccessPoint, NEW t \in {w, <<w, 0>>},
             Done(t, K)
      PROVE  w \in K
  <2>1. <<w, 0>> \in Air /\ <<w, 0>> \notin RouterEnd
    BY DEF RouterEnd, Air
  <2>2. t \notin Card /\ t \notin RouterEnd
    BY <2>1, RoutingAssumptions
  <2>3. w \notin Air
    BY RoutingAssumptions
  <2>4. \A u \in AccessPoint : t \in {u, <<u, 0>>} => u = w
    BY <2>1, <2>3, RoutingAssumptions DEF Air
  <2>5. \A r \in Router : t \notin {<<r, 1>>, <<r, 2>>}
    BY <2>2 DEF RouterEnd
  <2>6. QED
    BY <1>3, <2>2, <2>4, <2>5 DEF Done
<1>4. QED
  BY <1>1, <1>2, <1>3

\* Unless the receiver was found, the message got everywhere it could.
LEMMA SpreadIsClosed ==
  ASSUME TypeOK, NEW c \in Card, NEW R, NEW p, NEW K, Spread(c, R, p, K, {}),
         \A a \in Entered(c, p, K) : R \notin GetComponents(a)
  PROVE  Reached(c, p) \subseteq Entered(c, p, K)
<1> DEFINE E == Entered(c, p, K)
<1>1. \A a \in E : \A t \in GetComponents(a) \ Card : Done(t, K)
  BY DEF Spread, Targets
<1>2. ASSUME NEW x \in E, NEW y \in Circuit, Crosses(c, p, x, y)
      PROVE  y \in E
  <2>1. CASE \E r \in Router, i \in {1, 2} :
               /\ Passes(r, c, p)
               /\ circuit[<<r, i>>] = x /\ circuit[<<r, 3 - i>>] = y
    <3>1. PICK r \in Router, i \in {1, 2} :
                 /\ Passes(r, c, p)
                 /\ circuit[<<r, i>>] = x /\ circuit[<<r, 3 - i>>] = y
      BY <2>1
    <3>2. <<r, i>> \in GetComponents(x) \ Card /\ 3 - i \in {1, 2}
      BY <3>1, NodesHaveCircuits, RoutingAssumptions DEF GetComponents, RouterEnd
    <3>3. r \in K
      BY <1>1, <3>2, DoneMeans
    <3>4. QED
      BY <3>1, <3>2, <3>3 DEF Entered
  <2>2. CASE \E w \in powered : \E v \in links[w] \cap powered :
               circuit[w] = x /\ circuit[v] = y
    <3>0. PICK w \in powered : \E v \in links[w] \cap powered :
                 circuit[w] = x /\ circuit[v] = y
      BY <2>2
    <3>1. PICK v \in links[w] \cap powered : circuit[w] = x /\ circuit[v] = y
      BY <3>0
    <3>2. w \in AccessPoint /\ v \in AccessPoint
      BY <3>1 DEF TypeOK
    <3>3. w \in GetComponents(x) \ Card
      BY <3>1, <3>2, NodesHaveCircuits, RoutingAssumptions DEF GetComponents
    <3>4. w \in K
      BY <1>1, <3>2, <3>3, DoneMeans
    <3>5. <<v, 0>> \in Links(w) /\ R \notin GetComponents(circuit[w])
      BY <3>1 DEF Links
    <3>6. Done(<<v, 0>>, K)
      BY <3>4, <3>5 DEF Spread
    <3>7. v \in K
      BY <3>1, <3>2, <3>6, DoneMeans
    <3>8. QED
      BY <3>1, <3>7 DEF Entered
  <2>3. QED
    BY <1>2, <2>1, <2>2 DEF Crosses
<1>3. circuit[c] \in E /\ E \in SUBSET Circuit
  BY NodesHaveCircuits DEF Entered
<1> HIDE DEF E
<1>4. Reached(c, p) \subseteq E
  BY <1>2, <1>3, ReachedIsLeast
<1>5. QED
  BY <1>4 DEF E

LEMMA SpreadIsExact ==
  ASSUME TypeOK, NEW c \in Card, NEW R \in Card \cup {None}, NEW p, NEW K,
         NEW G, Spread(c, R, p, K, {}), Signalled(R, p, K, G)
  PROVE  G = Addressees(c, R, p)
<1>1. None \notin Node
  BY RoutingAssumptions
<1>2. ASSUME NEW d \in G PROVE d \in Addressees(c, R, p)
  <2>1. d \in Card \cap K /\ p \in OpenPorts[d] /\ R \in {None, d}
    BY DEF Signalled
  <2>2. circuit[d] \in Reached(c, p)
    BY <2>1, NodesHaveCircuits DEF Spread
  <2>3. QED
    BY <2>1, <2>2 DEF Addressees
<1>3. ASSUME NEW d \in Addressees(c, R, p) PROVE d \in G
  <2>1. /\ d \in Card /\ d \in Node /\ circuit[d] \in Reached(c, p)
        /\ p \in OpenPorts[d] /\ R \in {None, d}
    BY NodesHaveCircuits DEF Addressees
  <2>2. SUFFICES d \in K
    BY <2>1 DEF Signalled
  <2>3. CASE \E a \in Entered(c, p, K) : R \in GetComponents(a)
    <3>1. PICK a \in Entered(c, p, K) : R \in GetComponents(a)
      BY <2>3
    <3>2. R = d
      BY <1>1, <2>1, <3>1 DEF GetComponents
    <3>3. d \in Targets(a, R)
      BY <3>1, <3>2 DEF Targets
    <3>4. Done(d, K)
      BY <3>1, <3>3 DEF Spread
    <3>5. QED
      BY <2>1, <3>4, DoneMeans
  <2>4. CASE \A a \in Entered(c, p, K) : R \notin GetComponents(a)
    <3>1. circuit[d] \in Entered(c, p, K)
      BY <2>1, <2>4, SpreadIsClosed
    <3>2. d \in GetComponents(circuit[d])
      BY <2>1 DEF GetComponents
    <3>3. R = None
      BY <2>1, <2>4, <3>1, <3>2
    <3>4. d \in Targets(circuit[d], R)
      BY <1>1, <3>2, <3>3 DEF Targets, GetComponents
    <3>5. Done(d, K)
      BY <3>1, <3>4 DEF Spread
    <3>6. QED
      BY <2>1, <3>5, DoneMeans
  <2>5. QED
    BY <2>3, <2>4
<1>4. QED
  BY <1>2, <1>3

----------------------------------------------------------------------------
(* Every step keeps what is said of floods.                                *)

\* What a message can reach does not depend on messages.
LEMMA SameWorld ==
  ASSUME UNCHANGED <<wiring, filter, OpenPorts>>, NEW c, NEW R, NEW p
  PROVE  /\ Reached(c, p)' = Reached(c, p)
         /\ Addressees(c, R, p)' = Addressees(c, R, p)
         /\ \A K, Q : Spread(c, R, p, K, Q)' <=> Spread(c, R, p, K, Q)
         /\ \A K, G : Signalled(R, p, K, G)' <=> Signalled(R, p, K, G)
<1>1. circuit' = circuit /\ powered' = powered /\ links' = links
      /\ filter' = filter /\ OpenPorts' = OpenPorts
  BY DEF wiring
<1>2. \A r : Passes(r, c, p)' <=> Passes(r, c, p)
  BY <1>1 DEF Passes
<1>3. \A x, y : Crosses(c, p, x, y)' <=> Crosses(c, p, x, y)
  BY <1>1, <1>2 DEF Crosses
<1>4. Reached(c, p)' = Reached(c, p)
  BY <1>1, <1>3, Zenon DEF Reached
<1>5. Addressees(c, R, p)' = Addressees(c, R, p)
  BY <1>1, <1>4 DEF Addressees
<1>6. \A a : GetComponents(a)' = GetComponents(a) /\ Targets(a, R)' = Targets(a, R)
  BY <1>1 DEF GetComponents, Targets
<1>7. \A K, t : Done(t, K)' <=> Done(t, K)
  BY <1>1 DEF Done
<1>8. \A w : Links(w)' = Links(w)
  BY <1>1 DEF Links
<1>9. \A K : Entered(c, p, K)' = Entered(c, p, K)
  BY <1>1, <1>2 DEF Entered
<1>10. ASSUME NEW K, NEW Q
       PROVE  Spread(c, R, p, K, Q)' <=> Spread(c, R, p, K, Q)
  BY <1>1, <1>4, <1>6, <1>7, <1>8, <1>9, Zenon DEF Spread
<1>11. \A K, G : Signalled(R, p, K, G)' <=> Signalled(R, p, K, G)
  BY <1>1 DEF Signalled
<1>12. QED
  BY <1>4, <1>5, <1>10, <1>11

\* A flood that nobody touches, and whose message nobody handled, stays right.
LEMMA UntouchedIsRight ==
  ASSUME UNCHANGED <<wiring, filter, OpenPorts>>, NEW d \in Card, NEW i,
         flood[d] # None => i = flood[d].id, Right(d), flood'[d] = flood[d],
         promised'[i] = promised[i],
         Knowing(i)' = Knowing(i), Got(i)' = Got(i)
  PROVE  Right(d)'
BY SameWorld, Zenon DEF Right

\* What has to be shown of a call by a loop of c: that the flood of c is right
\* after it, if it is undisturbed.
LEMMA VisitKeepsFlood ==
  ASSUME FloodInv, RoutingInv', NEW c \in Card, NEW t,
         NEW frames \in Seq(Frame), Visit(c, t, frames),
         UNCHANGED <<wiring, filter, OpenPorts, promised, sent>>,
         NEW i, i = flood[c].id,
         NEW R, R = flood[c].receiver, NEW p, p = flood[c].port,
         \A h \in Handler, j \in Message : j # i =>
           (j \in HandledMessages'[h] <=> j \in HandledMessages[h]),
         \A d \in Card, j \in Message : j # i => received'[d][j] = received[d][j],
         Spread(c, R, p, Knowing(i), Pending(flood[c].stack))
         /\ Signalled(R, p, Knowing(i), Got(i))
           => /\ Spread(c, R, p, Knowing(i)', Pending(flood'[c].stack))
              /\ Signalled(R, p, Knowing(i)', Got(i)')
  PROVE  FloodInv'
<1>1. TypeOK /\ OwnIds /\ ExactlyReached /\ \A d \in Card : Right(d)
  BY DEF FloodInv, RoutingInv
<1>2. /\ flood[c] # None /\ flood[c] \in Flood
      /\ \A d \in Card : d # c => flood'[d] = flood[d]
      /\ flood'[c] \in Flood /\ flood'[c].id = i
      /\ flood'[c].receiver = R /\ flood'[c].port = p
  BY <1>1, Visiting, VisitPends
<1>3. flood'[c] # None /\ i \in Message
  BY <1>2, RoutingAssumptions DEF Flood
<1>4. \A d \in Card : /\ flood'[d] # None <=> flood[d] # None
                      /\ flood'[d] # None => flood'[d].id = flood[d].id
  BY <1>2, <1>3
<1>5. OwnIds'
  BY <1>1, <1>4 DEF OwnIds
<1>6. InFlight' = InFlight /\ i \in InFlight
  BY <1>2, <1>4 DEF InFlight
<1>7. ExactlyReached'
  <2>1. SUFFICES ASSUME NEW j \in 1 .. sent, j \notin InFlight, promised[j] # None
                 PROVE  {d \in Card : received'[d][j] > 0} = promised[j]
    BY <1>6 DEF ExactlyReached
  <2>2. j \in Message /\ j # i
    BY <1>1, <1>6, <2>1, RoutingAssumptions DEF TypeOK, Message
  <2>3. \A d \in Card : received'[d][j] = received[d][j]
    BY <2>2
  <2>4. {d \in Card : received[d][j] > 0} = promised[j]
    BY <1>1, <2>1 DEF ExactlyReached
  <2>5. QED
    BY <2>3, <2>4
<1>8. ASSUME NEW d \in Card PROVE Right(d)'
  <2>1. CASE d = c
    <3>1. SUFFICES ASSUME promised[i] # None
                   PROVE  Right(c)'
      BY <1>2, <2>1 DEF Right
    <3>2. /\ promised[i] = Addressees(c, R, p)
          /\ Spread(c, R, p, Knowing(i), Pending(flood[c].stack))
          /\ Signalled(R, p, Knowing(i), Got(i))
      BY <1>1, <1>2, <3>1 DEF Right
    <3>3. /\ Addressees(c, R, p)' = Addressees(c, R, p)
          /\ Spread(c, R, p, Knowing(i), Pending(flood[c].stack))'
               <=> Spread(c, R, p, Knowing(i)', Pending(flood'[c].stack))
          /\ Signalled(R, p, Knowing(i), Got(i))'
               <=> Signalled(R, p, Knowing(i)', Got(i)')
      BY SameWorld
    <3>4. /\ Addressees(c, R, p)' = promised'[i]
          /\ Spread(c, R, p, Knowing(i), Pending(flood[c].stack))'
          /\ Signalled(R, p, Knowing(i), Got(i))'
      BY <3>2, <3>3
    <3>5. QED
      BY <1>2, <3>4 DEF Right
  <2>2. CASE d # c /\ flood[d] = None
    BY <1>2, <2>2 DEF Right
  <2>3. CASE d # c /\ flood[d] # None
    <3>1. PICK j : j = flood[d].id
      OBVIOUS
    <3>2. j \in Message /\ j # i
      BY <1>1, <1>2, <2>3, <3>1 DEF TypeOK, Flood, OwnIds
    <3>3. Knowing(j)' = Knowing(j) /\ Got(j)' = Got(j)
      BY <3>2 DEF Knowing, Got
    <3>4. QED
      BY <1>1, <1>2, <2>3, <3>1, <3>3, UntouchedIsRight
  <2>4. QED
    BY <2>1, <2>2, <2>3
<1>9. QED
  BY <1>5, <1>7, <1>8 DEF FloodInv

\* Noting the message of c adds to who knows it and touches no other message.
LEMMA NotingKnows ==
  ASSUME TypeOK, NEW c \in Card, flood[c] # None, NEW h \in Handler, Note(c, h),
         NEW i, i = flood[c].id
  PROVE  /\ Knowing(i)' = Knowing(i) \cup {h}
         /\ IsNew(c, h) <=> h \notin Knowing(i)
         /\ \A g \in Handler, j \in Message : j # i =>
              (j \in HandledMessages'[g] <=> j \in HandledMessages[g])
<1>1. \A g \in Handler : HandledMessages'[g] =
        IF g = h THEN HandledMessages[h] \cup {i} ELSE HandledMessages[g]
  BY DEF TypeOK, Note
<1>2. QED
  BY <1>1 DEF Knowing, IsNew

\* Routers and access points signal nothing.
LEMMA HopsSignalNothing ==
  ASSUME NEW R, NEW p, NEW K, NEW G, NEW h \in Hop, Signalled(R, p, K, G)
  PROVE  Signalled(R, p, K \cup {h}, G)
<1>1. h \notin Card
  BY RoutingAssumptions DEF Hop
<1>2. QED
  BY <1>1 DEF Signalled

LEMMA HandleCardKeepsFlood ==
  ASSUME FloodInv, NEW c \in Card, NEW d \in Card, HandleCard(c, d)
  PROVE  FloodInv'
<1>1. RoutingInv /\ TypeOK /\ RoutingInv'
  BY HandleCardKeepsInv DEF FloodInv, RoutingInv
<1>2. PICK i, R, p : i = flood[c].id /\ R = flood[c].receiver /\ p = flood[c].port
  OBVIOUS
<1>3. /\ Visit(c, d, <<>>) /\ Note(c, d) /\ d \in Handler
      /\ received' = IF IsNew(c, d) /\ p \in OpenPorts[d] /\ R \in {None, d}
                     THEN [received EXCEPT ![d][i] = @ + 1] ELSE received
      /\ UNCHANGED <<wiring, filter, OpenPorts, promised, sent>>
  BY <1>2 DEF HandleCard, Handler
<1>4. <<>> \in Seq(Frame) /\ Pending(<<>>) = {}
  BY DEF Pending
<1>5. flood[c] # None /\ i \in Message
  BY <1>1, <1>2, <1>3, <1>4, Visiting DEF Flood
<1>6. /\ Knowing(i)' = Knowing(i) \cup {d}
      /\ IsNew(c, d) <=> d \notin Knowing(i)
      /\ \A h \in Handler, j \in Message : j # i =>
           (j \in HandledMessages'[h] <=> j \in HandledMessages[h])
  BY <1>1, <1>2, <1>3, <1>5, NotingKnows
<1>7. received \in [Card -> [Message -> Nat]]
  BY <1>1 DEF TypeOK
<1>8. \A e \in Card, j \in Message : j # i => received'[e][j] = received[e][j]
  BY <1>3, <1>5, <1>7
<1>9. Got(i)' = IF d \notin Knowing(i) /\ p \in OpenPorts[d] /\ R \in {None, d}
                THEN Got(i) \cup {d} ELSE Got(i)
  <2>1. CASE d \notin Knowing(i) /\ p \in OpenPorts[d] /\ R \in {None, d}
    <3>1. received' = [received EXCEPT ![d][i] = @ + 1]
      BY <1>3, <1>6, <2>1
    <3>2. \A e \in Card : received'[e][i] =
            IF e = d THEN received[e][i] + 1 ELSE received[e][i]
      BY <1>5, <1>7, <3>1
    <3>3. received[d][i] + 1 > 0
      BY <1>5, <1>7
    <3>4. QED
      BY <2>1, <3>2, <3>3 DEF Got
  <2>2. CASE ~(d \notin Knowing(i) /\ p \in OpenPorts[d] /\ R \in {None, d})
    <3>1. received' = received
      BY <1>3, <1>6, <2>2
    <3>2. QED
      BY <2>2, <3>1 DEF Got
  <2>3. QED
    BY <2>1, <2>2
<1>10. ASSUME Spread(c, R, p, Knowing(i), Pending(flood[c].stack)),
              Signalled(R, p, Knowing(i), Got(i))
       PROVE  /\ Spread(c, R, p, Knowing(i)', Pending(flood'[c].stack))
              /\ Signalled(R, p, Knowing(i)', Got(i)')
  <2>1. /\ d \in Pending(flood[c].stack)
        /\ Pending(flood[c].stack) \ {d} \subseteq Pending(flood'[c].stack)
        /\ Pending(flood'[c].stack) \subseteq Pending(flood[c].stack)
    BY <1>1, <1>3, <1>4, VisitPends
  <2>2. Spread(c, R, p, Knowing(i) \cup {d}, Pending(flood'[c].stack))
    BY <1>1, <1>10, <2>1, CardSpreads
  <2>3. Signalled(R, p, Knowing(i)', Got(i)')
    BY <1>6, <1>9, <1>10 DEF Signalled
  <2>4. QED
    BY <1>6, <2>2, <2>3
<1>11. Visit(c, d, <<>>) /\ UNCHANGED <<wiring, filter, OpenPorts, promised, sent>>
  BY <1>3
<1>12. \A h \in Handler, j \in Message : j # i =>
         (j \in HandledMessages'[h] <=> j \in HandledMessages[h])
  BY <1>6
<1>13. PICK t, frames : t = d /\ frames = <<>>
  OBVIOUS
<1>14. Visit(c, t, frames) /\ frames \in Seq(Frame)
  BY <1>4, <1>11, <1>13
<1>15. QED
  BY <1>1, <1>2, <1>8, <1>10, <1>11, <1>12, <1>14, VisitKeepsFlood

LEMMA HandleRouterKeepsFlood ==
  ASSUME FloodInv, NEW c \in Card, NEW r \in Router, NEW k \in {1, 2},
         HandleRouter(c, r, k)
  PROVE  FloodInv'
<1>1. RoutingInv /\ TypeOK /\ RoutingInv' /\ r \in Handler /\ r \in Hop
  BY HandleRouterKeepsInv DEF FloodInv, RoutingInv, Handler, Hop
<1>2. PICK i, R, p : i = flood[c].id /\ R = flood[c].receiver /\ p = flood[c].port
  OBVIOUS
<1> DEFINE loop == Loop(Targets(circuit[<<r, 3 - k>>], R), {})
           goes == r \notin Knowing(i) /\ Passes(r, c, p)
           frames == IF goes THEN <<loop>> ELSE <<>>
           N == IF goes THEN Targets(circuit[<<r, 3 - k>>], R) ELSE {}
<1>3. /\ flood[c] # None /\ Note(c, r)
      /\ UNCHANGED <<wiring, filter, OpenPorts, received, promised, sent>>
  BY DEF HandleRouter
<1>4. /\ Knowing(i)' = Knowing(i) \cup {r}
      /\ IsNew(c, r) <=> r \notin Knowing(i)
      /\ \A h \in Handler, j \in Message : j # i =>
           (j \in HandledMessages'[h] <=> j \in HandledMessages[h])
  BY <1>1, <1>2, <1>3, NotingKnows
<1>5. Visit(c, <<r, k>>, frames)
  BY <1>2, <1>4 DEF HandleRouter
<1>6. loop \in Frame /\ Left(loop) = Targets(circuit[<<r, 3 - k>>], R)
  <2>1. loop \in Frame
    BY TargetsAreNodes
  <2>2. QED
    BY <2>1 DEF Left, Loop
<1>7. frames \in Seq(Frame) /\ Pending(frames) = N
  <2> HIDE DEF loop, goes
  <2>1. <<loop>> \in Seq(Frame) /\ <<>> \in Seq(Frame)
    BY <1>6
  <2>2. QED
    BY <1>6, <2>1, PendingOfOne
<1> HIDE DEF frames
<1>8. ASSUME Spread(c, R, p, Knowing(i), Pending(flood[c].stack)),
             Signalled(R, p, Knowing(i), Got(i))
      PROVE  /\ Spread(c, R, p, Knowing(i)', Pending(flood'[c].stack))
             /\ Signalled(R, p, Knowing(i)', Got(i)')
  <2>0. PICK Q, P : Q = Pending(flood[c].stack) /\ P = Pending(flood'[c].stack)
    OBVIOUS
  <2>1. /\ <<r, k>> \in Q /\ Q \ {<<r, k>>} \subseteq P
        /\ N \subseteq P /\ P \subseteq Q \cup N
    <3> HIDE DEF N
    <3>1. QED
      BY <1>1, <1>5, <1>7, <2>0, VisitPends
  <2>2. Spread(c, R, p, Knowing(i) \cup {r}, Pending(flood'[c].stack))
    <3>1. PICK K : K = Knowing(i)
      OBVIOUS
    <3>2. N = IF r \notin K /\ Passes(r, c, p)
                THEN Targets(circuit[<<r, 3 - k>>], R) ELSE {}
      BY <3>1
    <3>3. Spread(c, R, p, K, Q)
      BY <1>8, <2>0, <3>1
    <3> HIDE DEF N
    <3>4. Spread(c, R, p, K \cup {r}, P)
      BY <1>1, <2>1, <3>2, <3>3, RouterSpreads
    <3>5. QED
      BY <2>0, <3>1, <3>4
  <2>3. Got(i)' = Got(i)
    BY <1>3 DEF Got
  <2>4. QED
    BY <1>1, <1>4, <1>8, <2>2, <2>3, HopsSignalNothing
<1>9. QED
  BY <1>1, <1>2, <1>3, <1>4, <1>5, <1>7, <1>8, VisitKeepsFlood

LEMMA FromCircuitKeepsFlood ==
  ASSUME FloodInv, NEW c \in Card, NEW w \in AccessPoint, FromCircuit(c, w)
  PROVE  FloodInv'
<1>1. RoutingInv /\ TypeOK /\ RoutingInv' /\ w \in Handler /\ w \in Hop
  BY FromCircuitKeepsInv DEF FloodInv, RoutingInv, Handler, Hop
<1>2. PICK i, R, p : i = flood[c].id /\ R = flood[c].receiver /\ p = flood[c].port
  OBVIOUS
<1> DEFINE loop == Loop(Links(w), {})
           frames == IF w \notin Knowing(i) THEN <<loop>> ELSE <<>>
           N == IF w \notin Knowing(i) THEN Links(w) ELSE {}
<1>3. /\ flood[c] # None /\ Note(c, w) /\ w \in powered
      /\ UNCHANGED <<wiring, filter, OpenPorts, received, promised, sent>>
  BY DEF FromCircuit
<1>4. /\ Knowing(i)' = Knowing(i) \cup {w}
      /\ IsNew(c, w) <=> w \notin Knowing(i)
      /\ \A h \in Handler, j \in Message : j # i =>
           (j \in HandledMessages'[h] <=> j \in HandledMessages[h])
  BY <1>1, <1>2, <1>3, NotingKnows
<1>5. Visit(c, w, frames)
  BY <1>4 DEF FromCircuit
<1>6. loop \in Frame /\ Left(loop) = Links(w)
  BY <1>1, LinksAreAir DEF Left, Loop, Frame
<1>7. frames \in Seq(Frame) /\ Pending(frames) = N
  <2> HIDE DEF loop
  <2>1. <<loop>> \in Seq(Frame) /\ <<>> \in Seq(Frame)
    BY <1>6
  <2>2. QED
    BY <1>6, <2>1, PendingOfOne
<1> HIDE DEF frames
<1>8. ASSUME Spread(c, R, p, Knowing(i), Pending(flood[c].stack)),
             Signalled(R, p, Knowing(i), Got(i))
      PROVE  /\ Spread(c, R, p, Knowing(i)', Pending(flood'[c].stack))
             /\ Signalled(R, p, Knowing(i)', Got(i)')
  <2>0. PICK Q, P : Q = Pending(flood[c].stack) /\ P = Pending(flood'[c].stack)
    OBVIOUS
  <2>1. /\ w \in Q /\ Q \ {w} \subseteq P
        /\ N \subseteq P /\ P \subseteq Q \cup N
    <3> HIDE DEF N
    <3>1. QED
      BY <1>1, <1>5, <1>7, <2>0, VisitPends
  <2>2. Spread(c, R, p, Knowing(i) \cup {w}, Pending(flood'[c].stack))
    <3>1. PICK K : K = Knowing(i)
      OBVIOUS
    <3>2. N = IF w \notin K THEN Links(w) ELSE {}
      BY <3>1
    <3>3. Spread(c, R, p, K, Q)
      BY <1>8, <2>0, <3>1
    <3> HIDE DEF N
    <3>4. Spread(c, R, p, K \cup {w}, P)
      BY <1>1, <1>3, <2>1, <3>2, <3>3, PointSpreads
    <3>5. QED
      BY <2>0, <3>1, <3>4
  <2>3. Got(i)' = Got(i)
    BY <1>3 DEF Got
  <2>4. QED
    BY <1>1, <1>4, <1>8, <2>2, <2>3, HopsSignalNothing
<1>9. QED
  BY <1>1, <1>2, <1>3, <1>4, <1>5, <1>7, <1>8, VisitKeepsFlood

LEMMA FromWirelessKeepsFlood ==
  ASSUME FloodInv, NEW c \in Card, NEW w \in AccessPoint, FromWireless(c, w)
  PROVE  FloodInv'
<1>1. RoutingInv /\ TypeOK /\ RoutingInv' /\ w \in Handler /\ w \in Hop
  BY FromWirelessKeepsInv DEF FloodInv, RoutingInv, Handler, Hop
<1>2. PICK i, R, p : i = flood[c].id /\ R = flood[c].receiver /\ p = flood[c].port
  OBVIOUS
<1> DEFINE air == IF R \in GetComponents(circuit[w]) THEN {} ELSE Links(w)
           loop == Loop(Targets(circuit[w], R), air)
           frames == IF w \in Knowing(i) THEN <<>> ELSE <<loop>>
           N == IF w \notin Knowing(i) THEN Targets(circuit[w], R) \cup air ELSE {}
<1>3. /\ flood[c] # None /\ Note(c, w) /\ w \in powered
      /\ UNCHANGED <<wiring, filter, OpenPorts, received, promised, sent>>
  BY DEF FromWireless
<1>4. /\ Knowing(i)' = Knowing(i) \cup {w}
      /\ IsNew(c, w) <=> w \notin Knowing(i)
      /\ \A h \in Handler, j \in Message : j # i =>
           (j \in HandledMessages'[h] <=> j \in HandledMessages[h])
  BY <1>1, <1>2, <1>3, NotingKnows
<1>5. Visit(c, <<w, 0>>, frames)
  BY <1>2, <1>4 DEF FromWireless
<1>6. loop \in Frame /\ Left(loop) = Targets(circuit[w], R) \cup air
  <2>1. air \in SUBSET Air
    BY <1>1, LinksAreAir
  <2>2. QED
    BY <2>1, TargetsAreNodes DEF Left, Loop
<1>7. frames \in Seq(Frame) /\ Pending(frames) = N
  <2> HIDE DEF loop
  <2>1. <<loop>> \in Seq(Frame) /\ <<>> \in Seq(Frame)
    BY <1>6
  <2>2. QED
    BY <1>6, <2>1, PendingOfOne
<1> HIDE DEF frames
<1>8. ASSUME Spread(c, R, p, Knowing(i), Pending(flood[c].stack)),
             Signalled(R, p, Knowing(i), Got(i))
      PROVE  /\ Spread(c, R, p, Knowing(i)', Pending(flood'[c].stack))
             /\ Signalled(R, p, Knowing(i)', Got(i)')
  <2>0. PICK Q, P : Q = Pending(flood[c].stack) /\ P = Pending(flood'[c].stack)
    OBVIOUS
  <2>1. /\ <<w, 0>> \in Q /\ Q \ {<<w, 0>>} \subseteq P
        /\ N \subseteq P /\ P \subseteq Q \cup N
    <3> HIDE DEF N
    <3>1. QED
      BY <1>1, <1>5, <1>7, <2>0, VisitPends
  <2>2. Spread(c, R, p, Knowing(i) \cup {w}, Pending(flood'[c].stack))
    <3>1. PICK K : K = Knowing(i)
      OBVIOUS
    <3>2. N = IF w \notin K THEN Targets(circuit[w], R) \cup air ELSE {}
      BY <3>1
    <3>3. Spread(c, R, p, K, Q)
      BY <1>8, <2>0, <3>1
    <3> HIDE DEF N
    <3>4. Spread(c, R, p, K \cup {w}, P)
      BY <1>1, <1>3, <2>1, <3>2, <3>3, AirSpreads
    <3>5. QED
      BY <2>0, <3>1, <3>4
  <2>3. Got(i)' = Got(i)
    BY <1>3 DEF Got
  <2>4. QED
    BY <1>1, <1>4, <1>8, <2>2, <2>3, HopsSignalNothing
<1>9. QED
  BY <1>1, <1>2, <1>3, <1>4, <1>5, <1>7, <1>8, VisitKeepsFlood

LEMMA UnpoweredKeepsFlood ==
  ASSUME FloodInv, NEW c \in Card, NEW w \in AccessPoint, Unpowered(c, w)
  PROVE  FloodInv'
<1>1. RoutingInv /\ TypeOK /\ RoutingInv'
  BY UnpoweredKeepsInv DEF FloodInv, RoutingInv
<1>2. PICK i, R, p : i = flood[c].id /\ R = flood[c].receiver /\ p = flood[c].port
  OBVIOUS
<1>3. PICK t \in {w, <<w, 0>>} : Visit(c, t, <<>>)
  BY DEF Unpowered
<1>4. <<>> \in Seq(Frame) /\ Pending(<<>>) = {}
  BY DEF Pending
<1>5. UNCHANGED <<wiring, filter, OpenPorts, HandledMessages, received,
                  promised, sent>>
  BY DEF Unpowered
<1>6. Knowing(i)' = Knowing(i) /\ Got(i)' = Got(i)
  BY <1>5 DEF Knowing, Got
<1>7. Done(t, Knowing(i))
  BY DEF Done, Unpowered
<1>8. /\ Pending(flood[c].stack) \ {t} \subseteq Pending(flood'[c].stack)
      /\ Pending(flood'[c].stack) \subseteq Pending(flood[c].stack)
  BY <1>1, <1>3, <1>4, VisitPends
<1>9. Spread(c, R, p, Knowing(i), Pending(flood[c].stack)) =>
        Spread(c, R, p, Knowing(i), Pending(flood'[c].stack))
  BY <1>7, <1>8, DoneSpreads
<1>10. QED
  BY <1>1, <1>2, <1>3, <1>4, <1>5, <1>6, <1>9, VisitKeepsFlood

\* A message that is sent is known to nobody yet.
LEMMA SendKeepsFlood ==
  ASSUME FloodInv, NEW c \in Card, NEW R \in Card \cup {None}, NEW p \in Port,
         Send(c, R, p)
  PROVE  FloodInv'
<1>1. /\ RoutingInv /\ TypeOK /\ RoutingInv' /\ OwnIds /\ ExactlyReached
      /\ \A d \in Card : Right(d)
  BY SendKeepsInv DEF FloodInv, RoutingInv
<1>2. PICK i : i = sent + 1
  OBVIOUS
<1> DEFINE loop == Loop(Targets(circuit[c], R), {})
           new == [id |-> i, receiver |-> R, port |-> p, stack |-> <<loop>>]
<1>3. /\ flood[c] = None /\ sent < MaxMessages /\ sent' = i
      /\ flood' = [flood EXCEPT ![c] = new]
      /\ promised' = [promised EXCEPT ![i] = Addressees(c, R, p)]
      /\ UNCHANGED <<wiring, filter, OpenPorts, HandledMessages, received>>
  BY <1>2 DEF Send
<1>4. sent \in Nat /\ i \in Message /\ i > sent
  BY <1>1, <1>2, <1>3, RoutingAssumptions DEF TypeOK, Message
<1>5. loop \in Frame /\ Left(loop) = Targets(circuit[c], R)
  BY TargetsAreNodes DEF Left, Loop
<1>6. Pending(<<loop>>) = Targets(circuit[c], R) /\ <<loop>> \in Seq(Frame)
  <2> HIDE DEF loop
  <2>1. QED
    BY <1>5, PendingOfOne
<1> HIDE DEF loop
<1>7. /\ flood'[c] = new /\ new # None
      /\ \A d \in Card : d # c => flood'[d] = flood[d]
  <2>1. new \in Flood
    BY <1>4, <1>6 DEF Flood
  <2>2. new # None
    BY <2>1, RoutingAssumptions
  <2>3. QED
    BY <1>1, <1>3, <2>2 DEF TypeOK
<1>8. /\ flood'[c].id = i /\ flood'[c].receiver = R /\ flood'[c].port = p
      /\ Pending(flood'[c].stack) = Targets(circuit[c], R)
  BY <1>6, <1>7
<1>9. /\ promised'[i] = Addressees(c, R, p)
      /\ \A j \in Message : j # i => promised'[j] = promised[j]
  BY <1>1, <1>3, <1>4 DEF TypeOK
<1>10. \A d \in Card : flood[d] # None =>
         flood[d].id \in Message /\ flood[d].id # i
  BY <1>1, <1>4 DEF TypeOK, Flood, Message
<1> HIDE DEF new
<1>11. OwnIds'
  BY <1>1, <1>7, <1>8, <1>10 DEF OwnIds
<1>12. InFlight \subseteq InFlight' /\ i \in InFlight'
  BY <1>3, <1>7, <1>8 DEF InFlight
<1>13. ExactlyReached'
  <2>1. SUFFICES ASSUME NEW j \in 1 .. sent', j \notin InFlight', promised'[j] # None
                 PROVE  {d \in Card : received'[d][j] > 0} = promised'[j]
    BY DEF ExactlyReached
  <2>2. j \in 1 .. sent /\ j # i /\ j \notin InFlight
    BY <1>2, <1>3, <1>4, <1>12, <2>1
  <2>3. j \in Message /\ promised'[j] = promised[j]
    BY <1>3, <1>4, <1>9, <2>2, RoutingAssumptions DEF Message
  <2>4. {d \in Card : received[d][j] > 0} = promised[j]
    BY <1>1, <2>1, <2>2, <2>3 DEF ExactlyReached
  <2>5. QED
    BY <1>3, <2>3, <2>4
<1>14. Knowing(i) = {} /\ Got(i) = {}
  <2>1. \A h \in Handler : i \notin HandledMessages[h]
    BY <1>1, <1>4 DEF TypeOK
  <2>2. \A d \in Card : received[d][i] = 0
    BY <1>1, <1>4 DEF RoutingInv, Remembered
  <2>3. QED
    BY <2>1, <2>2 DEF Knowing, Got
<1>15. \A j : Knowing(j)' = Knowing(j) /\ Got(j)' = Got(j)
  BY <1>3 DEF Knowing, Got
<1>16. Right(c)'
  <2>1. Spread(c, R, p, {}, Targets(circuit[c], R)) /\ Signalled(R, p, {}, {})
    BY <1>1, SentSpreads DEF Signalled
  <2>2. PICK K, Q, G : /\ K = Knowing(i)' /\ Q = Pending(flood'[c].stack)
                       /\ G = Got(i)'
    OBVIOUS
  <2>3. Spread(c, R, p, K, Q) /\ Signalled(R, p, K, G)
    BY <1>8, <1>14, <1>15, <2>1, <2>2
  <2>4. /\ Addressees(c, R, p)' = Addressees(c, R, p)
        /\ Spread(c, R, p, K, Q)' /\ Signalled(R, p, K, G)'
    BY <1>3, <2>3, SameWorld
  <2>5. QED
    BY <1>8, <1>9, <2>2, <2>4 DEF Right
<1>17. ASSUME NEW d \in Card, d # c PROVE Right(d)'
  <2>1. CASE flood[d] = None
    BY <1>7, <1>17, <2>1 DEF Right
  <2>2. CASE flood[d] # None
    <3>1. PICK j : j = flood[d].id
      OBVIOUS
    <3>2. promised'[j] = promised[j]
      BY <1>9, <1>10, <2>2, <3>1
    <3>3. QED
      BY <1>1, <1>3, <1>7, <1>15, <1>17, <3>1, <3>2, UntouchedIsRight
  <2>3. QED
    BY <2>1, <2>2
<1>18. QED
  BY <1>1, <1>11, <1>13, <1>16, <1>17 DEF FloodInv

\* A loop that ends leaves what is left to call as it was; the outermost one
\* leaves nothing.
LEMMA ReturnPends ==
  ASSUME TypeOK, NEW c \in Card, Return(c)
  PROVE  /\ flood[c] # None
         /\ \A d \in Card : d # c => flood'[d] = flood[d]
         /\ \/ flood'[c] = None /\ Pending(flood[c].stack) = {}
            \/ /\ flood'[c] # None /\ flood'[c].id = flood[c].id
               /\ flood'[c].receiver = flood[c].receiver
               /\ flood'[c].port = flood[c].port
               /\ Pending(flood'[c].stack) = Pending(flood[c].stack)
<1> DEFINE s == flood[c].stack
           top == Head(s)
           first == IF top.links # {} THEN <<Loop(top.links, {})>> ELSE <<>>
           rest == first \o Tail(s)
<1>1. /\ flood[c] # None /\ top.todo = {}
      /\ flood' = [flood EXCEPT ![c] = IF rest = <<>> THEN None
                                       ELSE [flood[c] EXCEPT !.stack = rest]]
  BY DEF Return
<1>2. flood[c] \in Flood /\ s \in Seq(Frame) /\ s # <<>>
  BY <1>1 DEF TypeOK, Flood
<1>3. top \in Frame /\ Tail(s) \in Seq(Frame)
  BY <1>2
<1>4. first \in Seq(Frame) /\ Pending(first) = Left(top)
  <2>1. Loop(top.links, {}) \in Frame /\ Left(Loop(top.links, {})) = Left(top)
    BY <1>1, <1>3 DEF Loop, Frame, Left
  <2>2. <<Loop(top.links, {})>> \in Seq(Frame) /\ <<>> \in Seq(Frame)
    BY <2>1
  <2>3. Pending(<<Loop(top.links, {})>>) = Left(top) /\ Pending(<<>>) = {}
    BY <2>1, PendingOfOne
  <2>4. top.links = {} => Left(top) = {}
    BY <1>1 DEF Left
  <2> HIDE DEF top
  <2>5. QED
    BY <2>2, <2>3, <2>4
<1>5. Pending(rest) = Pending(s) /\ rest \in Seq(Frame)
  <2>1. Pending(s) = Left(top) \cup Pending(Tail(s))
    BY <1>2, PendingOfHead
  <2> HIDE DEF first, top, s
  <2>2. QED
    BY <1>3, <1>4, <2>1, PendingOfConcat, ConcatProperties
<1> HIDE DEF rest
<1>6. /\ flood'[c] = IF rest = <<>> THEN None ELSE [flood[c] EXCEPT !.stack = rest]
      /\ \A d \in Card : d # c => flood'[d] = flood[d]
  BY <1>1 DEF TypeOK
<1>7. CASE rest = <<>>
  <2>1. Pending(<<>>) = {}
    <3>1. 1 .. Len(<<>>) = {}
      OBVIOUS
    <3>2. QED
      BY <3>1 DEF Pending
  <2>2. Pending(s) = {}
    BY <1>5, <1>7, <2>1
  <2>3. QED
    BY <1>1, <1>6, <1>7, <2>2
<1>8. CASE rest # <<>>
  <2>1. [flood[c] EXCEPT !.stack = rest] \in Flood
    BY <1>2, <1>5 DEF Flood
  <2>2. flood'[c] = [flood[c] EXCEPT !.stack = rest] /\ flood'[c] # None
    BY <1>6, <1>8, <2>1, RoutingAssumptions
  <2>3. QED
    BY <1>1, <1>2, <1>5, <1>6, <2>2 DEF Flood
<1>9. QED
  BY <1>7, <1>8

LEMMA ReturnKeepsFlood ==
  ASSUME FloodInv, NEW c \in Card, Return(c)
  PROVE  FloodInv'
<1>1. /\ RoutingInv /\ TypeOK /\ RoutingInv' /\ OwnIds /\ ExactlyReached
      /\ \A d \in Card : Right(d)
  BY ReturnKeepsInv DEF FloodInv, RoutingInv
<1>2. PICK i, R, p : i = flood[c].id /\ R = flood[c].receiver /\ p = flood[c].port
  OBVIOUS
<1>3. UNCHANGED <<wiring, filter, OpenPorts, HandledMessages, received,
                  promised, sent>>
  BY DEF Return
<1>4. \A j : Knowing(j)' = Knowing(j) /\ Got(j)' = Got(j)
  BY <1>3 DEF Knowing, Got
<1>5. /\ flood[c] # None
      /\ \A d \in Card : d # c => flood'[d] = flood[d]
      /\ flood'[c] # None => flood'[c].id = i
  BY <1>1, <1>2, ReturnPends
<1>6. OwnIds'
  BY <1>1, <1>2, <1>5 DEF OwnIds
<1>7. promised[i] # None =>
        /\ promised[i] = Addressees(c, R, p)
        /\ Spread(c, R, p, Knowing(i), Pending(flood[c].stack))
        /\ Signalled(R, p, Knowing(i), Got(i))
  BY <1>1, <1>2, <1>5 DEF Right
<1>8. \A j \in InFlight : j \in InFlight' \/ (j = i /\ flood'[c] = None)
  <2>1. SUFFICES ASSUME NEW d \in Card, flood[d] # None
                 PROVE  flood[d].id \in InFlight'
                        \/ (flood[d].id = i /\ flood'[c] = None)
    BY DEF InFlight
  <2>2. CASE d = c
    BY <1>2, <1>5, <2>2 DEF InFlight
  <2>3. CASE d # c
    BY <1>5, <2>1, <2>3 DEF InFlight
  <2>4. QED
    BY <2>2, <2>3
<1>9. ExactlyReached'
  <2>1. SUFFICES ASSUME NEW j \in 1 .. sent, j \notin InFlight', promised[j] # None
                 PROVE  Got(j) = promised[j]
    BY <1>3 DEF ExactlyReached, Got
  <2>2. CASE j \notin InFlight
    BY <1>1, <2>1, <2>2 DEF ExactlyReached, Got
  <2>3. CASE j \in InFlight
    <3>1. j = i /\ flood'[c] = None
      BY <1>8, <2>1, <2>3
    <3>2. Pending(flood[c].stack) = {}
      BY <1>1, <3>1, ReturnPends
    <3>3. /\ promised[i] = Addressees(c, R, p)
          /\ Spread(c, R, p, Knowing(i), {})
          /\ Signalled(R, p, Knowing(i), Got(i))
      BY <1>7, <2>1, <3>1, <3>2
    <3>4. R \in Card \cup {None}
      BY <1>1, <1>2, <1>5 DEF TypeOK, Flood
    <3>5. PICK K, G : K = Knowing(i) /\ G = Got(i)
      OBVIOUS
    <3>6. G = Addressees(c, R, p)
      BY <1>1, <3>3, <3>4, <3>5, SpreadIsExact
    <3>7. QED
      BY <3>1, <3>3, <3>5, <3>6
  <2>4. QED
    BY <2>2, <2>3
<1>10. ASSUME NEW d \in Card PROVE Right(d)'
  <2>1. CASE d # c
    BY <1>1, <1>3, <1>4, <1>5, <2>1, UntouchedIsRight
  <2>2. CASE d = c /\ flood'[c] = None
    BY <2>2 DEF Right
  <2>3. CASE d = c /\ flood'[c] # None
    <3>1. SUFFICES ASSUME promised[i] # None PROVE Right(c)'
      BY <1>3, <1>5, <2>3 DEF Right
    <3>2. PICK K, Q, G : /\ K = Knowing(i) /\ Q = Pending(flood[c].stack)
                         /\ G = Got(i)
      OBVIOUS
    <3>3. /\ flood'[c].id = i /\ flood'[c].receiver = R /\ flood'[c].port = p
          /\ Pending(flood'[c].stack) = Q /\ Knowing(i)' = K /\ Got(i)' = G
      BY <1>1, <1>2, <1>4, <2>3, <3>2, ReturnPends
    <3>4. /\ Addressees(c, R, p)' = promised'[i]
          /\ Spread(c, R, p, K, Q)' /\ Signalled(R, p, K, G)'
      BY <1>3, <1>7, <3>1, <3>2, SameWorld
    <3>5. QED
      BY <3>3, <3>4 DEF Right
  <2>4. QED
    BY <2>1, <2>2, <2>3
<1>11. QED
  BY <1>1, <1>6, <1>9, <1>10 DEF FloodInv

\* Steps that neither send, call nor return: what is under way is disturbed
\* by them, or nothing is under way, or nothing happens.
LEMMA QuietKeepsFlood ==
  ASSUME FloodInv, RoutingInv', UNCHANGED <<flood, received, sent>>,
         \/ promised' = [i \in Message |->
                           IF i \in InFlight THEN None ELSE promised[i]]
         \/ /\ UNCHANGED promised
            /\ \A c \in Card : flood[c] = None
  PROVE  FloodInv'
<1>1. RoutingInv /\ TypeOK /\ OwnIds /\ ExactlyReached
  BY DEF FloodInv, RoutingInv
<1>2. OwnIds' /\ InFlight' = InFlight
  BY <1>1 DEF OwnIds, InFlight
<1>3. \A i \in Message : i \notin InFlight => promised'[i] = promised[i]
  OBVIOUS
<1>4. 1 .. sent \subseteq Message
  BY <1>1, RoutingAssumptions DEF TypeOK, Message
<1>5. ExactlyReached'
  BY <1>1, <1>2, <1>3, <1>4 DEF ExactlyReached
<1>6. ASSUME NEW c \in Card PROVE Right(c)'
  <2>1. flood[c] # None => flood[c].id \in InFlight \cap Message
    BY <1>1 DEF InFlight, TypeOK, Flood
  <2>2. flood[c] # None => promised'[flood[c].id] = None
    BY <2>1
  <2>3. QED
    BY <2>2 DEF Right
<1>7. QED
  BY <1>2, <1>5, <1>6 DEF FloodInv

LEMMA StutterKeepsFlood ==
  ASSUME FloodInv, RoutingInv', UNCHANGED vars PROVE FloodInv'
<1>1. UNCHANGED <<wiring, filter, OpenPorts, HandledMessages, flood, received,
                  promised, sent>>
  BY DEF vars
<1>2. \A j : Knowing(j)' = Knowing(j) /\ Got(j)' = Got(j)
  BY <1>1 DEF Knowing, Got
<1>3. ASSUME NEW c \in Card PROVE Right(c)'
  <2>1. PICK i : i = flood[c].id
    OBVIOUS
  <2>2. QED
    BY <1>1, <1>2, <2>1, UntouchedIsRight DEF FloodInv
<1>4. QED
  BY <1>1, <1>3 DEF FloodInv, OwnIds, ExactlyReached, InFlight

LEMMA NextFlood == FloodInv /\ [Next]_vars => FloodInv'
<1> SUFFICES ASSUME FloodInv, [Next]_vars PROVE FloodInv'
  OBVIOUS
<1>1. RoutingInv'
  BY NextInv DEF FloodInv
<1>2. CASE \E c \in Card, d \in Card \cup {None}, p \in Port : Send(c, d, p)
  BY <1>2, SendKeepsFlood
<1>3. ASSUME NEW c \in Card, FloodStep(c)
      PROVE  FloodInv'
  <2>1. CASE \E d \in Card : HandleCard(c, d)
    BY <2>1, HandleCardKeepsFlood
  <2>2. CASE \E r \in Router, i \in {1, 2} : HandleRouter(c, r, i)
    BY <2>2, HandleRouterKeepsFlood
  <2>3. CASE \E w \in AccessPoint : Unpowered(c, w)
    BY <2>3, UnpoweredKeepsFlood
  <2>4. CASE \E w \in AccessPoint : FromCircuit(c, w)
    BY <2>4, FromCircuitKeepsFlood
  <2>5. CASE \E w \in AccessPoint : FromWireless(c, w)
    BY <2>5, FromWirelessKeepsFlood
  <2>6. CASE Return(c)
    BY <2>6, ReturnKeepsFlood
  <2>7. QED
    BY <1>3, <2>1, <2>2, <2>3, <2>4, <2>5, <2>6 DEF FloodStep
<1>4. ASSUME NEW c \in Card, Changes(c)
      PROVE  FloodInv'
  <2>1. /\ promised' = [i \in Message |->
                        IF i \in InFlight THEN None ELSE promised[i]]
        /\ UNCHANGED <<flood, received, sent>>
    BY <1>4 DEF Changes
  <2>2. QED
    BY <1>1, <2>1, QuietKeepsFlood
<1>5. CASE Tick
  BY <1>1, <1>5, QuietKeepsFlood DEF Tick
<1>6. CASE UNCHANGED vars
  BY <1>1, <1>6, StutterKeepsFlood
<1>7. QED
  BY <1>2, <1>3, <1>4, <1>5, <1>6 DEF Next, SetPorts, SetFilter

\* A message that nobody disturbed has reached, when send or broadcast returns,
\* exactly the cards it was for: over any network of routers and access points,
\* in whatever order the calls run and whoever sends at the same time
\* (HandleMessage of FINComputerNetworkCard.cpp, FINNetworkRouter.cpp and
\* FINWirelessAccessPoint.cpp).
THEOREM FloodsAreExact == Spec => []ExactlyReached
<1>1. Init => FloodInv
  <2> SUFFICES ASSUME Init PROVE FloodInv
    OBVIOUS
  <2>1. OwnIds /\ \A c \in Card : Right(c)
    BY DEF Init, OwnIds, Right
  <2>2. ExactlyReached
    <3>1. 1 .. 0 = {}
      OBVIOUS
    <3>2. QED
      BY <3>1 DEF Init, ExactlyReached
  <2>3. QED
    BY <2>1, <2>2, InitInv DEF FloodInv
<1>2. FloodInv => ExactlyReached
  BY DEF FloodInv
<1>3. QED
  BY <1>1, <1>2, NextFlood, PTL DEF Spec
=============================================================================
