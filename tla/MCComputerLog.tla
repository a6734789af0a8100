---------------------------- MODULE MCComputerLog ----------------------------
(* The instances are in the configurations; nothing has to be defined.     *)
EXTENDS ComputerLog
=============================================================================
