--------------------------- MODULE MC_MasterComms ---------------------------
(* Model values for MasterComms.  Connections are interchangeable, so the  *)
(* safety runs use their permutations.                                     *)
EXTENDS MasterComms, TLC

Symmetry == Permutations(Conns)
=============================================================================
