----------------------------- MODULE MCStorage -----------------------------
(* Two drives, a bay beside the floppy, two paths, a temporary file system. *)
EXTENDS Storage, TLC

Symmetry == Permutations(Drives) \cup Permutations(Paths)
============================================================================
