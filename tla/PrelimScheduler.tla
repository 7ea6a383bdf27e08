-------------------------- MODULE PrelimScheduler --------------------------
(***************************************************************************)
(* PrelimScheduler (scheduler/prelim_scheduler.go) with the Schedule map   *)
(* (scheduler/schedule.go) that master/master.go's sendSchedule fills and  *)
(* applies every five seconds.                                             *)
(*                                                                         *)
(* FillSchedule holds ss.mut from its sort to its return, so the other     *)
(* methods interleave before the lock and while Apply sends, never inside. *)
(* A types.Problem is abstracted to its ID and its memory, the fields the  *)
(* scheduler reads; two registrations of one ID are different values, as   *)
(* AddProblem's comparison of whole structs makes them.  Memory is counted *)
(* in whole units.                                                         *)
(***************************************************************************)
EXTENDS Integers, Sequences, Functions

CONSTANTS
  WorkerIDs,
  ProblemIDs,
  Problems,     \* types.Problem values the store may hold: [id, mem]
  Hellos,       \* types.Worker values of the workers' hellos: [id, mem]
  None,         \* nil: no entry in ss.workers
  CountRange,   \* number of values of a counter of the Schedule (2^32 for int32)
  IntRange      \* number of values of a counter of instanceCounts (2^64 for int)

ASSUME PrelimSchedulerAssumption ==
  /\ Problems \subseteq [id : ProblemIDs, mem : Nat]
  /\ Hellos \subseteq [id : WorkerIDs, mem : Nat]
  /\ None \notin Nat
  /\ None \notin WorkerIDs
  /\ CountRange \in Nat \ {0}
  /\ IntRange \in Nat \ {0}
  /\ IntRange % CountRange = 0

VARIABLES
  problems,  \* ss.problems
  workers,   \* ss.workers: memory of each registered worker, or None
  removed,   \* ss.removeList, as a set
  counts,    \* ss.instanceCounts, 0 where there is no entry
  shown,     \* shown[w]: Worker.Schedule, what GetWorkers reports
  sched,     \* the Schedule: a function on pairs <<worker, problem>>
  phase,     \* sendSchedule: "sleep", "reset", "fill", "apply" or "blocked"
  left,      \* FillSchedule: workers this pass has still to visit
  cur,       \* FillSchedule: the worker being visited, or None
  at,        \* FillSchedule: position in problems
  rem,       \* FillSchedule: workersRemainingMem
  changed,   \* FillSchedule: changeCount > 0
  todo,      \* Apply: keys not visited yet
  told       \* told[w]: instances the worker was last told to run

registry == <<problems, workers, removed, counts, shown>>
loopVars == <<left, cur, at, rem, changed>>
vars == <<registry, sched, phase, loopVars, todo, told>>

Pairs == WorkerIDs \X ProblemIDs
Registered == {w \in WorkerIDs : workers[w] # None}
IDs(s) == {s[i].id : i \in DOMAIN s}

\* Schedule.Get: an absent key counts as 0.
Get(s, w, p) == IF <<w, p>> \in DOMAIN s THEN s[<<w, p>>] ELSE 0

\* Schedule.Set.
Set(s, w, p, val) ==
  [k \in DOMAIN s \cup {<<w, p>>} |-> IF k = <<w, p>> THEN val ELSE s[k]]

\* Each counter wraps at the width of its type: the Schedule's int32 and
\* instanceCounts' int.
Inc(n) == (n + 1) % CountRange
IncInt(n) == (n + 1) % IntRange

Zero == [p \in ProblemIDs |-> 0]
Count == 0 .. CountRange - 1
IntCount == 0 .. IntRange - 1

TypeOK ==
  /\ problems \in Seq(Problems)
  /\ workers \in [WorkerIDs -> Nat \cup {None}]
  /\ removed \in SUBSET ProblemIDs
  /\ counts \in [ProblemIDs -> IntCount]
  /\ shown \in [WorkerIDs -> [ProblemIDs -> Count]]
  /\ DOMAIN sched \subseteq Pairs
  /\ \A k \in DOMAIN sched : sched[k] \in Count
  /\ phase \in {"sleep", "reset", "fill", "apply", "blocked"}
  /\ left \subseteq Registered
  /\ cur \in Registered \cup {None}
  /\ at \in Nat \ {0}
  /\ rem \in [WorkerIDs -> Nat]
  /\ changed \in BOOLEAN
  /\ todo \subseteq DOMAIN sched
  /\ told \in [WorkerIDs -> [ProblemIDs -> Count]]

Init ==
  /\ problems = <<>>
  /\ workers = [w \in WorkerIDs |-> None]
  /\ removed = {}
  /\ counts = Zero
  /\ shown = [w \in WorkerIDs |-> Zero]
  /\ sched = [k \in {} |-> 0]
  /\ phase = "sleep"
  /\ left = {}
  /\ cur = None
  /\ at = 1
  /\ rem = [w \in WorkerIDs |-> 0]
  /\ changed = FALSE
  /\ todo = {}
  /\ told = [w \in WorkerIDs |-> Zero]

-----------------------------------------------------------------------------
(* The methods other goroutines call, each under ss.mut.                   *)

MutFree == phase # "fill"

\* The worker behind the entry is a new process, that runs nothing yet.
AddWorker(h) ==
  /\ MutFree
  /\ workers' = [workers EXCEPT ![h.id] = h.mem]
  /\ shown' = [shown EXCEPT ![h.id] = Zero]
  /\ told' = [told EXCEPT ![h.id] = Zero]
  /\ UNCHANGED <<problems, removed, counts, sched, phase, loopVars, todo>>

\* The worker process ends with its stream.
RemoveWorker(w) ==
  /\ MutFree
  /\ workers' = [workers EXCEPT ![w] = None]
  /\ shown' = [shown EXCEPT ![w] = Zero]
  /\ told' = [told EXCEPT ![w] = Zero]
  /\ UNCHANGED <<problems, removed, counts, sched, phase, loopVars, todo>>

AddProblem(p) ==
  /\ MutFree
  /\ counts' = [counts EXCEPT ![p.id] = 0]
  /\ problems' = IF p \in Range(problems) THEN problems ELSE Append(problems, p)
  /\ UNCHANGED <<workers, removed, shown, sched, phase, loopVars, todo, told>>

\* slices.Delete of one entry.
Without(s, i) == [j \in 1 .. Len(s) - 1 |-> IF j < i THEN s[j] ELSE s[j + 1]]

\* Mutant: only a problem that has instances is put on removeList.
ListIfCounted(id) == IF counts[id] > 0 THEN removed \cup {id} ELSE removed
ListRemoved(id) == removed \cup {id}

\* The first entry with that ID goes.
RemoveProblem(id) ==
  /\ MutFree
  /\ \E i \in DOMAIN problems :
       /\ problems[i].id = id
       /\ \A j \in 1 .. i - 1 : problems[j].id # id
       /\ problems' = Without(problems, i)
  /\ counts' = [counts EXCEPT ![id] = 0]
  /\ removed' = ListRemoved(id)
  /\ UNCHANGED <<workers, shown, sched, phase, loopVars, todo, told>>

-----------------------------------------------------------------------------
(* FillSchedule.                                                           *)

\* sched.Reset comes before the lock.
Reset ==
  /\ phase = "sleep"
  /\ phase' = "reset"
  /\ sched' = [k \in {} |-> 0]
  /\ UNCHANGED <<registry, loopVars, todo, told>>

\* Mutant: by rising memory.
SortedUpwards(s) ==
  {t \in {[i \in DOMAIN s |-> s[f[i]]] : f \in Bijection(DOMAIN s, DOMAIN s)} :
     \A i, j \in DOMAIN t : i < j => t[i].mem <= t[j].mem}

\* Sorts by falling memory; the comparators order equal elements arbitrarily.
SortedProblems(s) ==
  {t \in {[i \in DOMAIN s |-> s[f[i]]] : f \in Bijection(DOMAIN s, DOMAIN s)} :
     \A i, j \in DOMAIN t : i < j => t[i].mem >= t[j].mem}

CountsKept == counts  \* mutant: the counters are not reset
CountsReset ==
  [p \in ProblemIDs |-> IF p \in IDs(problems) THEN 0 ELSE counts[p]]

LockAndSort ==
  /\ phase = "reset"
  /\ phase' = "fill"
  /\ problems' \in SortedProblems(problems)
  /\ counts' = CountsReset
  /\ rem' = [w \in WorkerIDs |-> IF w \in Registered THEN workers[w] ELSE 0]
  /\ left' = Registered
  /\ changed' = FALSE
  /\ UNCHANGED <<workers, removed, shown, sched, cur, at, todo, told>>

\* The next worker of the pass, by falling memory; a full one is skipped.
VisitWorker(w) ==
  /\ phase = "fill"
  /\ cur = None
  /\ w \in left
  /\ \A v \in left : workers[w] >= workers[v]
  /\ left' = left \ {w}
  /\ at' = 1
  /\ cur' = IF rem[w] > 0 THEN w ELSE None
  /\ UNCHANGED <<registry, sched, phase, rem, changed, todo, told>>

AtProblem == phase = "fill" /\ cur # None /\ at <= Len(problems)

FitsAlways == TRUE                            \* mutant: no check of the memory
FitsStrictly == rem[cur] > problems[at].mem   \* mutant: > for >=
Fits == rem[cur] >= problems[at].mem

NotCharged == rem  \* mutant: the instance is not subtracted
Charged == [rem EXCEPT ![cur] = @ - problems[at].mem]

Place ==
  /\ AtProblem
  /\ Fits
  /\ LET id == problems[at].id
         n  == Inc(Get(sched, cur, id))
     IN  /\ sched' = Set(sched, cur, id, n)
         /\ shown' = [shown EXCEPT ![cur][id] = n]
         /\ counts' = [counts EXCEPT ![id] = IncInt(@)]
  /\ rem' = Charged
  /\ changed' = TRUE
  /\ at' = at + 1
  /\ UNCHANGED <<problems, workers, removed, phase, left, cur, todo, told>>

DoesNotFit ==
  /\ AtProblem
  /\ ~Fits
  /\ at' = at + 1
  /\ UNCHANGED <<registry, sched, phase, left, cur, rem, changed, todo, told>>

\* Mutant: changeCount is reset for every worker, not for every pass.
WorkerDoneResets ==
  /\ phase = "fill"
  /\ cur # None
  /\ at > Len(problems)
  /\ cur' = None
  /\ at' = 1
  /\ changed' = FALSE
  /\ UNCHANGED <<registry, sched, phase, left, rem, todo, told>>

WorkerDone ==
  /\ phase = "fill"
  /\ cur # None
  /\ at > Len(problems)
  /\ cur' = None
  /\ at' = 1
  /\ UNCHANGED <<registry, sched, phase, left, rem, changed, todo, told>>

PassDone == phase = "fill" /\ cur = None /\ left = {}

NextPass ==
  /\ PassDone
  /\ changed
  /\ left' = Registered
  /\ changed' = FALSE
  /\ UNCHANGED <<registry, sched, phase, cur, at, rem, todo, told>>

KeepShown(zeroed) == shown  \* mutant: Worker.Schedule keeps its entry
Unshow(zeroed) ==
  [w \in WorkerIDs |-> [p \in ProblemIDs |->
     IF <<w, p>> \in zeroed THEN 0 ELSE shown[w][p]]]

\* The loop over removeList, which overwrites what the loop above set; then
\* FillSchedule returns and Apply starts.
Broadcast ==
  /\ PassDone
  /\ ~changed
  /\ LET zeroed == Registered \X removed
     IN  /\ sched' = [k \in DOMAIN sched \cup zeroed |->
                        IF k \in zeroed THEN 0 ELSE sched[k]]
         /\ shown' = Unshow(zeroed)
  /\ removed' = {}
  /\ phase' = "apply"
  /\ todo' = DOMAIN sched'
  /\ rem' = [w \in WorkerIDs |-> 0]
  /\ UNCHANGED <<problems, workers, counts, left, cur, at, changed, told>>

-----------------------------------------------------------------------------
(* Schedule.Apply with the callback of updateAndSendSchedOnce, in the      *)
(* arbitrary order of a Go map.  Delivery is modelled in MasterComms: a    *)
(* send to a worker that has left never returns.                           *)

ApplyEntry(w, p) ==
  /\ phase = "apply"
  /\ <<w, p>> \in todo
  /\ IF workers[w] # None
       THEN /\ told' = [told EXCEPT ![w][p] = sched[<<w, p>>]]
            /\ todo' = todo \ {<<w, p>>}
            /\ UNCHANGED phase
       ELSE /\ phase' = "blocked"
            /\ UNCHANGED <<told, todo>>
  /\ UNCHANGED <<registry, sched, loopVars>>

ApplyDone ==
  /\ phase = "apply"
  /\ todo = {}
  /\ phase' = "sleep"
  /\ UNCHANGED <<registry, sched, loopVars, todo, told>>

-----------------------------------------------------------------------------
Callers ==
  \/ \E h \in Hellos : AddWorker(h)
  \/ \E w \in WorkerIDs : RemoveWorker(w)
  \/ \E p \in Problems : AddProblem(p)
  \/ \E id \in ProblemIDs : RemoveProblem(id)

SendSchedule ==
  \/ Reset
  \/ LockAndSort
  \/ \E w \in WorkerIDs : VisitWorker(w)
  \/ Place
  \/ DoesNotFit
  \/ WorkerDone
  \/ NextPass
  \/ Broadcast
  \/ \E w \in WorkerIDs, p \in ProblemIDs : ApplyEntry(w, p)
  \/ ApplyDone

Next == Callers \/ SendSchedule

Spec == Init /\ [][Next]_vars

(* The goroutine of sendSchedule always runs on.                           *)
FairSpec == Spec /\ WF_vars(SendSchedule)
-----------------------------------------------------------------------------
(* Safety.                                                                 *)

UniqueIDs ==
  \A i, j \in DOMAIN problems : problems[i].id = problems[j].id => i = j

Used(w) ==
  SumFunction([i \in DOMAIN problems |->
                 Get(sched, w, problems[i].id) * problems[i].mem])

\* What FillSchedule hands out fits each worker's memory and, when the loop
\* ends, leaves no room for another instance of any problem (sched.md:12):
\* one worker's pass never spends another's memory, and changeCount does not
\* end the loop while some worker has room.  The counters cannot have wrapped
\* if their range exceeds the worker's memory, and a problem that takes none
\* always has room.
PacksToTheCap ==
  phase = "fill" /\ UniqueIDs =>
    \A w \in Registered :
      /\ Used(w) <= workers[w]
      /\ PassDone /\ ~changed /\ workers[w] < CountRange =>
           \A i \in DOMAIN problems :
             problems[i].mem > 0 => Used(w) + problems[i].mem > workers[w]

\* The workers the Schedule has an entry of p for, and their instances.
Holders(p) == {w \in WorkerIDs : <<w, p>> \in DOMAIN sched}
Scheduled(p) == SumFunction([w \in Holders(p) |-> sched[<<w, p>>]])

\* Between two fills, when GetProblem can read it, GetInstanceCount is the
\* instances of the schedule last filled, over all workers and modulo the width
\* of its counters, whatever was removed or re-registered since; only a problem
\* that was removed and started again before that fill is told 0 everywhere
\* while it is counted.
CountsMatchSchedule ==
  phase \in {"apply", "blocked", "sleep"} =>
    \A p \in ProblemIDs : counts[p] > 0 =>
      \/ counts[p] % CountRange = Scheduled(p) % CountRange
      \/ \A w \in Holders(p) : sched[<<w, p>>] = 0

\* Once a removed problem has been broadcast, no registered worker runs it:
\* if a worker was told to, the order to stop is still on its way.  This holds
\* across removals during Apply, workers that come and go between a fill and
\* its Apply, and problems started again.
RemovedProblemStopped ==
  \A w \in Registered, p \in ProblemIDs :
    p \notin removed \cup IDs(problems) /\ told[w][p] > 0 =>
      <<w, p>> \in todo /\ sched[<<w, p>>] = 0

\* The instances GetWorkers reports for a worker between two rounds are the
\* ones it was last told to run; never those of a process before it or of a
\* fill that was not applied.
ShownWasTold ==
  phase = "sleep" =>
    \A w \in Registered, p \in ProblemIDs :
      shown[w][p] > 0 => told[w][p] = shown[w][p]

\* The loops of FillSchedule implement the one-step packing.
Packing == INSTANCE IslandPacking WITH
    known <- Range(problems),
    empty <- phase \in {"reset", "fill"},
    sched <- IF phase \in {"reset", "fill"} THEN [k \in {} |-> 0] ELSE sched

PackingImplemented == Packing!Spec

\* What the worker runs stays within its memory between two rounds, the cap
\* of sched.md:12 ("1 per device till cap is met").
ToldWithinMemory ==
  phase = "sleep" =>
    \A w \in Registered :
      SumFunction([i \in DOMAIN problems |->
                     told[w][problems[i].id] * problems[i].mem]) <= workers[w]

-----------------------------------------------------------------------------
(* Liveness.                                                               *)

\* A problem that takes no memory fits as long as some worker has memory left.
NothingTaken ==
  /\ phase = "fill"
  /\ \E i \in DOMAIN problems : problems[i].mem = 0
  /\ \E w \in Registered : rem[w] > 0

\* FillSchedule returns (and releases ss.mut), so that schedules keep being
\* sent periodically (migration.txt:10), unless it comes to hand out nothing
\* but instances of a problem that takes no memory.  With such a problem, too,
\* it returns if the others use up the memory of every worker exactly.
FillTerminates ==
  []<>~NothingTaken => ((phase = "fill") ~> (phase # "fill"))

\* The problem with the most memory of all, if a worker has room for it, is
\* given to that worker again and again, whatever is added, removed, or
\* reconnects around it, unless Apply is stuck on a departed worker or a fill
\* on a problem that takes no memory.
Heaviest(w, p) ==
  /\ w \in Registered
  /\ p \in Range(problems)
  /\ p.mem <= workers[w]
  /\ \A q \in Range(problems) : q = p \/ q.mem < p.mem

HeaviestReachesWorker ==
  \A w \in WorkerIDs, p \in Problems :
    <>[]Heaviest(w, p) =>
      \/ []<>(told[w][p.id] > 0)
      \/ <>(phase = "blocked")
      \/ <>[]NothingTaken
=============================================================================
