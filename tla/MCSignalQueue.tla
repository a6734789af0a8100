---------------------------- MODULE MCSignalQueue ----------------------------
(* Instances of SignalQueue for TLC: two computers, and as senders an object *)
(* of the game, a panel or a case of the mod and the media subsystem.        *)
EXTENDS SignalQueue, TLC

CONSTANTS pc1, pc2, belt, case, panel, media, f1, f2

ConstComputer == {pc1, pc2}
OneComputer   == {pc1}
ConstObject   == {belt}
ConstNative   == {belt}
BeltAndCase   == {belt, case}
ConstCase     == {case}
OneFactory    == {f1}
ConstFactory  == {f1, f2}
WithMedia     == {panel, media}
JustMedia     == {media}
NoObject      == {}

Symmetry == Permutations(ConstComputer) \cup Permutations(ConstFactory)
=============================================================================
