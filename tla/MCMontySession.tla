--------------------------- MODULE MCMontySession ---------------------------
(* Small instances of MontySession. *)
EXTENDS MontySession, TLC

CallSymmetry == Permutations(Run)
=============================================================================
