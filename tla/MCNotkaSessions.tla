--------------------------- MODULE MCNotkaSessions ---------------------------
(* Small instances of NotkaSessions for TLC.                               *)
EXTENDS NotkaSessions, TLC

Symmetry == Permutations(Clients)
=============================================================================
