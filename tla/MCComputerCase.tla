--------------------------- MODULE MCComputerCase ---------------------------
(* Three CPUs and two players, so that a case can hold more CPUs than one,  *)
(* and two EEPROMs, so that one can be exchanged for another.  A future of   *)
(* each kind.                                                               *)
EXTENDS ComputerCase, TLC

CONSTANTS c1, c2, c3, e1, e2, p1, p2, f1, f2, f3, f4

ConstCpu    == {c1, c2, c3}
ConstEeprom == {e1, e2}
ConstPlayer == {p1, p2}
ConstFuture == {f1, f2, f3, f4}
ConstAsks   == f1 :> "startComputer" @@ f2 :> "stopComputer" @@ f3 :> "throw"
                 @@ f4 :> "setProperty"

Symmetry == Permutations(ConstCpu) \cup Permutations(ConstEeprom)
              \cup Permutations(ConstPlayer)
=============================================================================
