-------------------------- MODULE MCNetworkCircuit --------------------------
(* Instances of NetworkCircuit for TLC: two connectors, one of them of a    *)
(* computer case with a network card, and a pole.                          *)
EXTENDS NetworkCircuit, TLC

CONSTANTS conA, conB, pole1, card1, wire1, wire2, wire3,
          k1, k2, k3, k4, k5, ann, bob

ConstConnector == {conA, conB}
ConstPole      == {pole1}
ConstCard      == {card1}
ConstCaseOf    == card1 :> conA
ConstCable     == {wire1, wire2, wire3}
ConstMax       == conA :> 2 @@ conB :> 2 @@ pole1 :> 2
ConstCircuit   == {k1, k2, k3, k4, k5}
OnePlayer      == {ann}
TwoPlayers     == {ann, bob}
ScarceMax      == conA :> 1 @@ conB :> 2 @@ pole1 :> 2

Symmetry == Permutations(ConstCable)
=============================================================================
