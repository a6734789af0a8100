--------------------------- MODULE MCScreenBinding ---------------------------
(* The instances are in the configurations; nothing has to be defined.     *)
EXTENDS ScreenBinding
=============================================================================
