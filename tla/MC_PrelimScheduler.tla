------------------------ MODULE MC_PrelimScheduler ------------------------
(* Workers and problems small enough that one fill takes several passes,   *)
(* the two workers fill up in different passes, and p2 displaces p1.  p1   *)
(* may be registered again with other metadata, one of which is a problem  *)
(* without memory: the fill then ends only if the others use up both       *)
(* workers, and counters wrap while it does not.                           *)
EXTENDS PrelimScheduler

CONSTANTS w1, w2, p1, p2

MCHellos == {[id |-> w1, mem |-> 3], [id |-> w2, mem |-> 1]}

MCProblems ==
  {[id |-> p1, mem |-> 1], [id |-> p2, mem |-> 2], [id |-> p1, mem |-> 0]}
=============================================================================
