---------------------------- MODULE ScheduleKeys ----------------------------
(***************************************************************************)
(* The keys of the Schedule map (scheduler/schedule.go): a pair of worker  *)
(* and problem as one string, which Apply splits again.  PrelimScheduler   *)
(* has the pairs; the theorems in ScheduleProofs say for which IDs that is *)
(* what the strings come to.  A string is the sequence of its characters.  *)
(***************************************************************************)
EXTENDS Integers, Sequences

CONSTANT At  \* the character "@"

\* problemID + "@" + workerID.
Key(workerID, problemID) == problemID \o <<At>> \o workerID

-----------------------------------------------------------------------------
(* strings.Split(k, "@").                                                  *)

\* i is the first place after n where s has the separator, or just past s.
Cut(s, n, i) ==
  /\ i \in n + 1 .. Len(s) + 1
  /\ i <= Len(s) => s[i] = At
  /\ \A j \in n + 1 .. i - 1 : s[j] # At

\* The substring that starts after place n.
After(s, n) == SubSeq(s, n + 1, (CHOOSE i \in Int : Cut(s, n, i)) - 1)

\* substrings[0] and substrings[1] of a key: Apply looks at no other.
ProblemOf(k) == After(k, 0)
WorkerOf(k) == After(k, Len(ProblemOf(k)) + 1)
=============================================================================
