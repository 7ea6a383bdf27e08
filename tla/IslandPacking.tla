--------------------------- MODULE IslandPacking ---------------------------
(***************************************************************************)
(* What the scheduler promises (scheduler/scheduler.go, sched.md): each    *)
(* fill gives every registered worker, independently of the others, the    *)
(* instances of a round-robin packing of its memory, problems of higher    *)
(* memory first, and tells every registered worker to run 0 instances of   *)
(* the problems removed since the last fill, as far as a counter of        *)
(* CountRange values shows it.  A fill is one step here; PrelimScheduler's *)
(* loops implement it.                                                     *)
(***************************************************************************)
EXTENDS Integers, Sequences, SequencesExt

CONSTANTS WorkerIDs, Problems, Hellos, None, CountRange

VARIABLES
  known,    \* the problems to schedule
  workers,  \* memory of each registered worker, or None
  removed,  \* problem IDs removed since the last fill
  sched,    \* the schedule, a function on pairs <<worker, problem>>
  empty     \* the schedule was reset and not filled again yet

vars == <<known, workers, removed, sched, empty>>

Registered == {w \in WorkerIDs : workers[w] # None}
Nothing == [k \in {} |-> 0]

Init ==
  /\ known = {}
  /\ workers = [w \in WorkerIDs |-> None]
  /\ removed = {}
  /\ sched = Nothing
  /\ empty = FALSE

Join(h) ==
  /\ workers' = [workers EXCEPT ![h.id] = h.mem]
  /\ UNCHANGED <<known, removed, sched, empty>>

Leave(w) ==
  /\ workers' = [workers EXCEPT ![w] = None]
  /\ UNCHANGED <<known, removed, sched, empty>>

Start(p) ==
  /\ known' = known \cup {p}
  /\ UNCHANGED <<workers, removed, sched, empty>>

Abort(p) ==
  /\ p \in known
  /\ known' = known \ {p}
  /\ removed' = removed \cup {p.id}
  /\ UNCHANGED <<workers, sched, empty>>

Reset ==
  /\ ~empty
  /\ empty' = TRUE
  /\ sched' = Nothing
  /\ UNCHANGED <<known, workers, removed>>

-----------------------------------------------------------------------------
(* One worker's memory.                                                    *)

\* What is left of mem when each of the first i problems of order has been
\* offered once, and an instance of it placed if it fitted.
AfterOffers(order, mem) ==
  LET left[i \in 0 .. Len(order)] ==
        IF i = 0 THEN mem
        ELSE LET m == left[i - 1]
             IN  IF m >= order[i].mem THEN m - order[i].mem ELSE m
  IN  left

\* What is left after r rounds of offers.
AfterRounds(order, mem) ==
  LET left[r \in Nat] ==
        IF r = 0 THEN mem ELSE AfterOffers(order, left[r - 1])[Len(order)]
  IN  left

\* Round r places an instance of the problem at i; a full worker has no round.
Places(order, mem, r, i) ==
  LET m == AfterRounds(order, mem)[r - 1]
  IN  m > 0 /\ AfterOffers(order, m)[i - 1] >= order[i].mem

\* The instances of an ID when nothing fits any more: as each round took memory,
\* that is so after mem of them.
Instances(order, mem, id) ==
  Cardinality({x \in (1 .. mem) \X DOMAIN order :
                 order[x[2]].id = id /\ Places(order, mem, x[1], x[2])})

Orders ==
  {s \in SetToSeqs(known) : \A i, j \in DOMAIN s : i < j => s[i].mem >= s[j].mem}

Fill ==
  /\ empty
  /\ empty' = FALSE
  /\ removed' = {}
  /\ \E order \in Orders :
       LET ids == {p.id : p \in known}
           count == [k \in Registered \X ids |-> Instances(order, workers[k[1]], k[2])]
           zeroed == Registered \X removed
       IN  sched' = [k \in {k \in DOMAIN count : count[k] > 0} \cup zeroed |->
                       IF k \in zeroed THEN 0 ELSE count[k] % CountRange]
  /\ UNCHANGED <<known, workers>>

Next ==
  \/ \E h \in Hellos : Join(h)
  \/ \E w \in WorkerIDs : Leave(w)
  \/ \E p \in Problems : Start(p) \/ Abort(p)
  \/ Reset
  \/ Fill

Spec == Init /\ [][Next]_vars
=============================================================================
