------------------------ MODULE PrelimSchedulerProofs ------------------------
(***************************************************************************)
(* Proofs about PrelimScheduler, for any workers and problems of any       *)
(* memory and any width of the counters.                                   *)
(***************************************************************************)
EXTENDS ScheduleProofs

\* A counter starts and wraps within its type.
LEMMA CountType ==
  /\ 0 \in Count /\ 0 \in IntCount
  /\ Zero \in [ProblemIDs -> Count]
  /\ Zero \in [ProblemIDs -> IntCount]
  /\ \A n \in Count : Inc(n) \in Count
  /\ \A n \in IntCount : IncInt(n) \in IntCount
<1>1. 0 \in Count /\ 0 \in IntCount
  BY PrelimSchedulerAssumption DEF Count, IntCount
<1> QED
  BY <1>1, PrelimSchedulerAssumption DEF Inc, IncInt, Count, IntCount, Zero

\* What the Schedule holds for a pair, 0 if nothing, is a count.
LEMMA GetType ==
  ASSUME NEW w, NEW p, \A k \in DOMAIN sched : sched[k] \in Count
  PROVE  Get(sched, w, p) \in Count
  BY CountType DEF Get

\* Deleting an entry leaves a list of the others.
LEMMA WithoutType ==
  ASSUME NEW s \in Seq(Problems), NEW i \in DOMAIN s
  PROVE  Without(s, i) \in Seq(Problems)
<1>1. Len(s) - 1 \in Nat
  OBVIOUS
<1>2. \A j \in 1 .. Len(s) - 1 : Without(s, i)[j] \in Problems
  BY DEF Without
<1> QED
  BY <1>1, <1>2 DEF Without

\* Deleting an entry loses no ID but its own.
LEMMA WithoutIDs ==
  ASSUME NEW s \in Seq(Problems), NEW i \in DOMAIN s
  PROVE  IDs(s) \subseteq IDs(Without(s, i)) \cup {s[i].id}
<1> SUFFICES ASSUME NEW j \in DOMAIN s, j # i
             PROVE  s[j].id \in IDs(Without(s, i))
  BY DEF IDs
<1>1. CASE j < i
  <2>1. j \in DOMAIN Without(s, i) /\ Without(s, i)[j] = s[j]
    BY <1>1 DEF Without
  <2> QED
    BY <2>1 DEF IDs
<1>2. CASE j > i
  <2>1. j - 1 \in DOMAIN Without(s, i) /\ Without(s, i)[j - 1] = s[j]
    BY <1>2 DEF Without
  <2> QED
    BY <2>1 DEF IDs
<1> QED
  BY <1>1, <1>2

\* Appending an entry loses no ID.
LEMMA AppendIDs ==
  ASSUME NEW s \in Seq(Problems), NEW p \in Problems
  PROVE  IDs(s) \subseteq IDs(Append(s, p))
<1>1. \A i \in DOMAIN s : i \in DOMAIN Append(s, p) /\ Append(s, p)[i] = s[i]
  OBVIOUS
<1> QED
  BY <1>1 DEF IDs

\* Sorting permutes the list: it stays one of problems, with the same IDs.
LEMMA SortedType ==
  ASSUME NEW s \in Seq(Problems), NEW t \in SortedProblems(s)
  PROVE  t \in Seq(Problems) /\ IDs(t) = IDs(s)
<1>1. PICK f \in Bijection(DOMAIN s, DOMAIN s) : t = [i \in DOMAIN s |-> s[f[i]]]
  BY DEF SortedProblems
<1>2. /\ f \in [DOMAIN s -> DOMAIN s]
      /\ \A i \in DOMAIN s : \E j \in DOMAIN s : f[j] = i
  BY DEF Bijection, Injection, Surjection
<1>3. t \in Seq(Problems)
  <2>1. t = [i \in 1 .. Len(s) |-> s[f[i]]]
    BY <1>1
  <2>2. \A i \in 1 .. Len(s) : s[f[i]] \in Problems
    BY <1>2
  <2> QED
    BY <2>1, <2>2
<1>4. IDs(t) = IDs(s)
  BY <1>1, <1>2 DEF IDs
<1> QED
  BY <1>3, <1>4

-----------------------------------------------------------------------------
\* FillSchedule's loops are at rest outside it, Apply has keys to visit only
\* while it runs, and a fill starts from an empty Schedule.
AtRest ==
  /\ phase # "fill" => left = {} /\ cur = None
  /\ phase \notin {"apply", "blocked"} => todo = {}
  /\ phase = "reset" => DOMAIN sched = {}

TypeInv == TypeOK /\ AtRest

\* Every step keeps the types.
LEMMA TypeStep == TypeInv /\ [Next]_vars => TypeInv'
<1> SUFFICES ASSUME TypeInv, [Next]_vars PROVE TypeInv'
  OBVIOUS
<1> USE PrelimSchedulerAssumption
    DEF TypeInv, TypeOK, AtRest, MutFree, Registered, registry, loopVars
<1> USE CountType
<1>1. CASE Callers
  <2>1. ASSUME NEW h \in Hellos, AddWorker(h) PROVE TypeInv'
    <3>1. h.id \in WorkerIDs /\ h.mem \in Nat
      OBVIOUS
    <3> QED
      BY <2>1, <3>1 DEF AddWorker
  <2>2. ASSUME NEW w \in WorkerIDs, RemoveWorker(w) PROVE TypeInv'
    BY <2>2 DEF RemoveWorker
  <2>3. ASSUME NEW p \in Problems, AddProblem(p) PROVE TypeInv'
    <3>1. p.id \in ProblemIDs
      OBVIOUS
    <3>2. problems' \in Seq(Problems)
      BY <2>3 DEF AddProblem
    <3> QED
      BY <2>3, <3>1, <3>2 DEF AddProblem
  <2>4. ASSUME NEW id \in ProblemIDs, RemoveProblem(id) PROVE TypeInv'
    <3>1. PICK i \in DOMAIN problems : problems' = Without(problems, i)
      BY <2>4 DEF RemoveProblem
    <3>2. problems' \in Seq(Problems)
      BY <3>1, WithoutType
    <3> QED
      BY <2>4, <3>2 DEF RemoveProblem, ListRemoved
  <2> QED
    BY <1>1, <2>1, <2>2, <2>3, <2>4 DEF Callers
<1>2. CASE SendSchedule
  <2>1. CASE Reset
    BY <2>1 DEF Reset
  <2>2. CASE LockAndSort
    <3>1. problems' \in Seq(Problems)
      BY <2>2, SortedType DEF LockAndSort
    <3>2. counts' \in [ProblemIDs -> IntCount]
      BY <2>2 DEF LockAndSort, CountsReset
    <3> QED
      BY <2>2, <3>1, <3>2 DEF LockAndSort
  <2>3. ASSUME NEW w \in WorkerIDs, VisitWorker(w) PROVE TypeInv'
    BY <2>3 DEF VisitWorker
  <2>4. CASE Place
    <3>1. /\ cur \in WorkerIDs
          /\ problems[at] \in Problems
      BY <2>4 DEF Place, AtProblem
    <3> DEFINE id == problems[at].id
               n  == Inc(Get(sched, cur, id))
    <3>2. /\ id \in ProblemIDs
          /\ problems[at].mem \in Nat
      BY <3>1
    <3>3. n \in Count
      BY GetType
    <3>4. /\ DOMAIN sched' \subseteq Pairs
          /\ \A k \in DOMAIN sched' : sched'[k] \in Count
          /\ todo' \subseteq DOMAIN sched'
      <4>1. sched' = Set(sched, cur, id, n)
        BY <2>4 DEF Place
      <4> QED
        BY <2>4, <3>1, <3>2, <3>3, <4>1 DEF Place, Set, Pairs
    <3>5. shown' \in [WorkerIDs -> [ProblemIDs -> Count]]
      BY <2>4, <3>1, <3>2, <3>3 DEF Place
    <3>6. counts' \in [ProblemIDs -> IntCount]
      BY <2>4, <3>2 DEF Place
    <3>7. rem' \in [WorkerIDs -> Nat]
      BY <2>4, <3>1, <3>2 DEF Place, Fits, Charged
    <3> HIDE DEF id, n
    <3>8. /\ UNCHANGED <<problems, workers, removed, phase, left, cur, todo, told>>
          /\ changed' = TRUE
          /\ at' = at + 1
          /\ phase = "fill"
      BY <2>4 DEF Place, AtProblem
    <3>9. Registered' = Registered
      BY <3>8
    <3> QED
      BY <3>4, <3>5, <3>6, <3>7, <3>8, <3>9
  <2>5. CASE DoesNotFit
    BY <2>5 DEF DoesNotFit, AtProblem
  <2>6. CASE WorkerDone
    BY <2>6 DEF WorkerDone
  <2>7. CASE NextPass
    BY <2>7 DEF NextPass, PassDone
  <2>8. CASE Broadcast
    <3>1. /\ DOMAIN sched' = DOMAIN sched \cup (Registered \X removed)
          /\ \A k \in DOMAIN sched' : sched'[k] \in {0, sched[k]}
          /\ \A k \in DOMAIN sched' : k \notin DOMAIN sched => sched'[k] = 0
      BY <2>8 DEF Broadcast
    <3>2. shown' \in [WorkerIDs -> [ProblemIDs -> Count]]
      BY <2>8 DEF Broadcast, Unshow
    <3>3. /\ DOMAIN sched' \subseteq Pairs
          /\ \A k \in DOMAIN sched' : sched'[k] \in Count
      BY <3>1 DEF Pairs
    <3> QED
      BY <2>8, <3>1, <3>2, <3>3 DEF Broadcast, PassDone
  <2>9. ASSUME NEW w \in WorkerIDs, NEW p \in ProblemIDs, ApplyEntry(w, p)
       PROVE  TypeInv'
    <3>1. sched[<<w, p>>] \in Count
      BY <2>9 DEF ApplyEntry
    <3>2. told' \in [WorkerIDs -> [ProblemIDs -> Count]]
      <4>1. [told EXCEPT ![w][p] = sched[<<w, p>>]] \in [WorkerIDs -> [ProblemIDs -> Count]]
        BY <3>1
      <4> QED
        BY <2>9, <4>1 DEF ApplyEntry
    <3>3. todo' \subseteq todo
      BY <2>9 DEF ApplyEntry
    <3> QED
      BY <2>9, <3>2, <3>3 DEF ApplyEntry
  <2>10. CASE ApplyDone
    BY <2>10 DEF ApplyDone
  <2> QED
    BY <1>2, <2>1, <2>2, <2>3, <2>4, <2>5, <2>6, <2>7, <2>8, <2>9, <2>10 DEF SendSchedule
<1>3. CASE UNCHANGED vars
  BY <1>3 DEF vars
<1> QED
  BY <1>1, <1>2, <1>3 DEF Next

\* The initial state has the types.
LEMMA InitType == Init => TypeInv
<1> SUFFICES ASSUME Init PROVE TypeInv
  OBVIOUS
<1>1. /\ problems \in Seq(Problems)
      /\ DOMAIN sched = {}
      /\ counts \in [ProblemIDs -> IntCount]
      /\ shown \in [WorkerIDs -> [ProblemIDs -> Count]]
      /\ told \in [WorkerIDs -> [ProblemIDs -> Count]]
  BY CountType DEF Init
<1>2. /\ workers \in [WorkerIDs -> Nat \cup {None}]
      /\ rem \in [WorkerIDs -> Nat]
      /\ at \in Nat \ {0}
      /\ removed \in SUBSET ProblemIDs
  BY DEF Init
<1>3. /\ left = {} /\ todo = {}
      /\ cur = None
      /\ changed = FALSE
      /\ phase = "sleep"
  BY DEF Init
<1> QED
  BY <1>1, <1>2, <1>3 DEF TypeInv, TypeOK, AtRest

\* Type correctness of the scheduler.
THEOREM TypeCorrect == Spec => []TypeOK
<1>1. Init => TypeInv
  BY InitType
<1>2. TypeInv => TypeOK
  BY DEF TypeInv
<1> QED
  BY <1>1, <1>2, TypeStep, PTL DEF Spec

-----------------------------------------------------------------------------
(* The inductive invariant of removals.                                     *)

\* A count in the Schedule is that of a problem known, or removed since the
\* last broadcast; during a fill it is that of a registered worker.
ScheduleKnown ==
  \A k \in DOMAIN sched :
    /\ sched[k] > 0 => k[2] \in removed \cup IDs(problems)
    /\ phase = "fill" => k[1] \in Registered

RemovalInv == TypeInv /\ ScheduleKnown /\ RemovedProblemStopped

\* Every step keeps it: what Broadcast forgets of removeList it has scheduled.
LEMMA RemovalStep == RemovalInv /\ TypeInv' /\ [Next]_vars => RemovalInv'
<1> SUFFICES ASSUME RemovalInv, TypeInv', [Next]_vars
             PROVE  ScheduleKnown' /\ RemovedProblemStopped'
  BY DEF RemovalInv
<1> USE PrelimSchedulerAssumption, CountType
    DEF RemovalInv, ScheduleKnown, RemovedProblemStopped
<1> USE DEF TypeInv, TypeOK, AtRest, MutFree, Registered, Zero, registry, loopVars
<1>1. CASE Callers
  <2>1. ASSUME NEW h \in Hellos, AddWorker(h) PROVE ScheduleKnown' /\ RemovedProblemStopped'
    BY <2>1 DEF AddWorker
  <2>2. ASSUME NEW w \in WorkerIDs, RemoveWorker(w) PROVE ScheduleKnown' /\ RemovedProblemStopped'
    BY <2>2 DEF RemoveWorker
  <2>3. ASSUME NEW p \in Problems, AddProblem(p) PROVE ScheduleKnown' /\ RemovedProblemStopped'
    <3>1. IDs(problems) \subseteq IDs(problems')
      BY <2>3, AppendIDs DEF AddProblem
    <3> QED
      BY <2>3, <3>1 DEF AddProblem
  <2>4. ASSUME NEW id \in ProblemIDs, RemoveProblem(id)
        PROVE  ScheduleKnown' /\ RemovedProblemStopped'
    <3>1. PICK i \in DOMAIN problems : /\ problems[i].id = id
                                       /\ problems' = Without(problems, i)
      BY <2>4 DEF RemoveProblem
    <3>2. IDs(problems) \subseteq IDs(problems') \cup {id}
      BY <3>1, WithoutIDs
    <3> QED
      BY <2>4, <3>2 DEF RemoveProblem, ListRemoved
  <2> QED
    BY <1>1, <2>1, <2>2, <2>3, <2>4 DEF Callers
<1>2. CASE SendSchedule
  <2>1. CASE Reset
    BY <2>1 DEF Reset
  <2>2. CASE LockAndSort
    <3>1. IDs(problems') = IDs(problems)
      BY <2>2, SortedType DEF LockAndSort
    <3> QED
      BY <2>2, <3>1 DEF LockAndSort
  <2>3. ASSUME NEW w \in WorkerIDs, VisitWorker(w) PROVE ScheduleKnown' /\ RemovedProblemStopped'
    BY <2>3 DEF VisitWorker
  <2>4. CASE Place
    <3>1. /\ cur \in Registered
          /\ problems[at].id \in IDs(problems)
          /\ todo = {}
      BY <2>4 DEF Place, AtProblem, IDs
    <3>2. PICK n : sched' = Set(sched, cur, problems[at].id, n)
      BY <2>4 DEF Place
    <3>3. \A k \in DOMAIN sched' :
            k = <<cur, problems[at].id>> \/ (k \in DOMAIN sched /\ sched'[k] = sched[k])
      BY <3>2 DEF Set
    <3>4. UNCHANGED <<problems, workers, removed, phase, todo, told>>
      BY <2>4 DEF Place
    <3>5. IDs(problems)' = IDs(problems)
      BY <3>4
    <3> QED
      BY <3>1, <3>3, <3>4, <3>5
  <2>5. CASE DoesNotFit
    BY <2>5 DEF DoesNotFit
  <2>6. CASE WorkerDone
    BY <2>6 DEF WorkerDone
  <2>7. CASE NextPass
    BY <2>7 DEF NextPass
  <2>8. CASE Broadcast
    <3> DEFINE zeroed == Registered \X removed
    <3>1. /\ DOMAIN sched' = DOMAIN sched \cup zeroed
          /\ \A k \in DOMAIN sched' : sched'[k] = IF k \in zeroed THEN 0 ELSE sched[k]
      BY <2>8 DEF Broadcast
    <3>2. /\ todo' = DOMAIN sched'
          /\ removed' = {}
          /\ phase' = "apply"
          /\ phase = "fill"
          /\ todo = {}
          /\ UNCHANGED <<problems, workers, told>>
      BY <2>8 DEF Broadcast, PassDone
    <3>3. IDs(problems)' = IDs(problems)
      BY <3>2
    <3>4. ScheduleKnown'
      <4> SUFFICES ASSUME NEW k \in DOMAIN sched', sched'[k] > 0
                   PROVE  k[2] \in IDs(problems)
        BY <3>2, <3>3
      <4>1. k \in DOMAIN sched /\ k \notin zeroed /\ sched[k] > 0
        BY <3>1
      <4>2. k[1] \in Registered /\ k = <<k[1], k[2]>>
        BY <4>1, <3>2 DEF Pairs
      <4> QED
        BY <4>1, <4>2
    <3>5. RemovedProblemStopped'
      <4> SUFFICES ASSUME NEW w \in Registered, NEW q \in ProblemIDs,
                          q \notin IDs(problems), told[w][q] > 0
                   PROVE  <<w, q>> \in DOMAIN sched' /\ sched'[<<w, q>>] = 0
        BY <3>2, <3>3
      <4>1. q \in removed
        BY <3>2
      <4> QED
        BY <4>1, <3>1
    <3> QED
      BY <3>4, <3>5
  <2>9. ASSUME NEW w \in WorkerIDs, NEW p \in ProblemIDs, ApplyEntry(w, p)
       PROVE  ScheduleKnown' /\ RemovedProblemStopped'
    <3>1. CASE workers[w] = None
      <4>1. UNCHANGED <<registry, sched, told, todo>> /\ phase' = "blocked"
        BY <2>9, <3>1 DEF ApplyEntry
      <4>2. IDs(problems)' = IDs(problems)
        BY <4>1
      <4> QED
        BY <4>1, <4>2
    <3>2. CASE workers[w] # None
      <4>1. /\ <<w, p>> \in todo
            /\ told' = [told EXCEPT ![w][p] = sched[<<w, p>>]]
            /\ todo' = todo \ {<<w, p>>}
            /\ UNCHANGED <<registry, sched, phase>>
        BY <2>9, <3>2 DEF ApplyEntry
      <4>2. IDs(problems)' = IDs(problems)
        BY <4>1
      <4>3. ScheduleKnown'
        BY <4>1, <4>2
      <4>4. sched[<<w, p>>] \in Nat /\ (sched[<<w, p>>] > 0 => p \in removed \cup IDs(problems))
        BY <4>1 DEF Count
      <4>5. \A v \in WorkerIDs, q \in ProblemIDs :
              told'[v][q] = IF v = w /\ q = p THEN sched[<<w, p>>] ELSE told[v][q]
        BY <4>1
      <4>6. RemovedProblemStopped'
        BY <4>1, <4>2, <4>4, <4>5
      <4> QED
        BY <4>3, <4>6
    <3> QED
      BY <3>1, <3>2
  <2>10. CASE ApplyDone
    BY <2>10 DEF ApplyDone
  <2> QED
    BY <1>2, <2>1, <2>2, <2>3, <2>4, <2>5, <2>6, <2>7, <2>8, <2>9, <2>10 DEF SendSchedule
<1>3. CASE UNCHANGED vars
  BY <1>3 DEF vars
<1> QED
  BY <1>1, <1>2, <1>3 DEF Next

-----------------------------------------------------------------------------
(* The inductive invariant of Worker.Schedule.                              *)

\* What GetWorkers shows of a pair is the Schedule's count, from the fill that
\* set it until Apply has visited the pair, and what the worker was told else.
ShownFollows ==
  \A w \in Registered, p \in ProblemIDs : shown[w][p] > 0 =>
    IF (phase = "fill" /\ <<w, p>> \in DOMAIN sched) \/ <<w, p>> \in todo
      THEN sched[<<w, p>>] = shown[w][p]
      ELSE told[w][p] = shown[w][p]

ShownInv == TypeInv /\ ShownFollows

\* Every step keeps it.
LEMMA ShownStep == ShownInv /\ TypeInv' /\ [Next]_vars => ShownInv'
<1> SUFFICES ASSUME ShownInv, TypeInv', [Next]_vars
             PROVE  ShownFollows'
  BY DEF ShownInv
<1> USE PrelimSchedulerAssumption, CountType DEF ShownInv, ShownFollows
<1> USE DEF TypeInv, TypeOK, AtRest, MutFree, Registered, Zero, registry, loopVars
<1>1. CASE Callers
  <2>1. ASSUME NEW h \in Hellos, AddWorker(h) PROVE ShownFollows'
    BY <2>1 DEF AddWorker
  <2>2. ASSUME NEW w \in WorkerIDs, RemoveWorker(w) PROVE ShownFollows'
    BY <2>2 DEF RemoveWorker
  <2>3. ASSUME NEW p \in Problems, AddProblem(p) PROVE ShownFollows'
    BY <2>3 DEF AddProblem
  <2>4. ASSUME NEW id \in ProblemIDs, RemoveProblem(id) PROVE ShownFollows'
    BY <2>4 DEF RemoveProblem
  <2> QED
    BY <1>1, <2>1, <2>2, <2>3, <2>4 DEF Callers
<1>2. CASE SendSchedule
  <2>1. CASE Reset
    BY <2>1 DEF Reset
  <2>2. CASE LockAndSort
    BY <2>2 DEF LockAndSort
  <2>3. ASSUME NEW w \in WorkerIDs, VisitWorker(w) PROVE ShownFollows'
    BY <2>3 DEF VisitWorker
  <2>4. CASE Place
    <3> DEFINE id == problems[at].id
               n  == Inc(Get(sched, cur, id))
    <3>1. /\ cur \in Registered
          /\ id \in ProblemIDs
          /\ todo = {}
          /\ phase = "fill"
      BY <2>4 DEF Place, AtProblem
    <3>2. /\ sched' = Set(sched, cur, id, n)
          /\ shown' = [shown EXCEPT ![cur][id] = n]
          /\ UNCHANGED <<workers, phase, todo, told>>
      BY <2>4 DEF Place
    <3> HIDE DEF id, n
    <3>3. /\ DOMAIN sched' = DOMAIN sched \cup {<<cur, id>>}
          /\ sched'[<<cur, id>>] = n
          /\ \A k \in DOMAIN sched : k # <<cur, id>> => sched'[k] = sched[k]
      BY <3>2 DEF Set
    <3>4. \A v \in WorkerIDs, q \in ProblemIDs :
            shown'[v][q] = IF v = cur /\ q = id THEN n ELSE shown[v][q]
      BY <3>1, <3>2
    <3> SUFFICES ASSUME NEW v \in Registered, NEW q \in ProblemIDs, shown'[v][q] > 0
                 PROVE  IF <<v, q>> \in DOMAIN sched'
                          THEN sched'[<<v, q>>] = shown'[v][q]
                          ELSE told[v][q] = shown'[v][q]
      BY <3>1, <3>2
    <3>5. CASE v = cur /\ q = id
      BY <3>3, <3>4, <3>5
    <3>6. CASE ~(v = cur /\ q = id)
      <4>1. shown'[v][q] = shown[v][q] /\ <<v, q>> # <<cur, id>>
        BY <3>4, <3>6
      <4> QED
        BY <3>1, <3>3, <4>1
    <3> QED
      BY <3>5, <3>6
  <2>5. CASE DoesNotFit
    BY <2>5 DEF DoesNotFit
  <2>6. CASE WorkerDone
    BY <2>6 DEF WorkerDone
  <2>7. CASE NextPass
    BY <2>7 DEF NextPass
  <2>8. CASE Broadcast
    <3> DEFINE zeroed == Registered \X removed
    <3>1. /\ DOMAIN sched' = DOMAIN sched \cup zeroed
          /\ \A k \in DOMAIN sched' : sched'[k] = IF k \in zeroed THEN 0 ELSE sched[k]
          /\ \A v \in WorkerIDs, q \in ProblemIDs :
               shown'[v][q] = IF <<v, q>> \in zeroed THEN 0 ELSE shown[v][q]
      BY <2>8 DEF Broadcast, Unshow
    <3>2. /\ todo' = DOMAIN sched'
          /\ phase' = "apply"
          /\ phase = "fill"
          /\ todo = {}
          /\ UNCHANGED <<workers, told>>
      BY <2>8 DEF Broadcast, PassDone
    <3> HIDE DEF zeroed
    <3> QED
      BY <3>1, <3>2
  <2>9. ASSUME NEW w \in WorkerIDs, NEW p \in ProblemIDs, ApplyEntry(w, p)
       PROVE  ShownFollows'
    <3>1. CASE workers[w] = None
      BY <2>9, <3>1 DEF ApplyEntry
    <3>2. CASE workers[w] # None
      <4>1. /\ phase = "apply"
            /\ told' = [told EXCEPT ![w][p] = sched[<<w, p>>]]
            /\ todo' = todo \ {<<w, p>>}
            /\ <<w, p>> \in todo
            /\ UNCHANGED <<registry, sched, phase>>
        BY <2>9, <3>2 DEF ApplyEntry
      <4>2. \A v \in WorkerIDs, q \in ProblemIDs :
              told'[v][q] = IF v = w /\ q = p THEN sched[<<w, p>>] ELSE told[v][q]
        BY <4>1
      <4>3. \A v \in WorkerIDs, q \in ProblemIDs :
              <<v, q>> \in todo' <=> <<v, q>> \in todo /\ ~(v = w /\ q = p)
        BY <4>1
      <4> QED
        BY <4>1, <4>2, <4>3
    <3> QED
      BY <3>1, <3>2
  <2>10. CASE ApplyDone
    BY <2>10 DEF ApplyDone
  <2> QED
    BY <1>2, <2>1, <2>2, <2>3, <2>4, <2>5, <2>6, <2>7, <2>8, <2>9, <2>10 DEF SendSchedule
<1>3. CASE UNCHANGED vars
  BY <1>3 DEF vars
<1> QED
  BY <1>1, <1>2, <1>3 DEF Next

-----------------------------------------------------------------------------
\* A removed problem is stopped everywhere or the order is on its way, and
\* GetWorkers reports what was told, whatever the interleaving of removals,
\* departures, fills and Apply.
THEOREM RemovalsAndShown == Spec => [](RemovedProblemStopped /\ ShownWasTold)
<1>1. Init => TypeInv
  BY InitType
<1>2. Init /\ TypeInv => RemovalInv /\ ShownInv
  <2> SUFFICES ASSUME Init, TypeInv PROVE RemovalInv /\ ShownInv
    OBVIOUS
  <2>1. /\ DOMAIN sched = {}
        /\ Registered = {}
    BY DEF Init, Registered
  <2> QED
    BY <2>1 DEF RemovalInv, ShownInv, ScheduleKnown, RemovedProblemStopped, ShownFollows
<1>3. RemovalInv => RemovedProblemStopped
  BY DEF RemovalInv
<1>4. ShownInv => ShownWasTold
  BY DEF ShownInv, ShownFollows, ShownWasTold, TypeInv, TypeOK, AtRest, Registered
<1> QED
  BY <1>1, <1>2, <1>3, <1>4, TypeStep, RemovalStep, ShownStep, PTL DEF Spec

-----------------------------------------------------------------------------
(* The fill leaves no room.                                                 *)

\* Worker w has no room for the problems before place n of the list; a worker
\* without memory is skipped.
NoRoom(w, n) ==
  rem[w] = 0 \/ \A i \in DOMAIN problems : i < n => rem[w] < problems[i].mem

\* While a pass has placed nothing, the workers it is through with are full,
\* and the one it is at is as far as it came.
FullInv ==
  phase = "fill" /\ ~changed =>
    /\ \A w \in Registered \ left : w # cur => NoRoom(w, Len(problems) + 1)
    /\ cur # None => NoRoom(cur, at)

\* What the loop leaves behind when changeCount ends it.
NothingFits ==
  PassDone /\ ~changed =>
    \A w \in Registered, i \in DOMAIN problems :
      rem[w] = 0 \/ rem[w] < problems[i].mem

\* Every step keeps it: only Place takes memory, and it sets changed.
LEMMA FullStep == FullInv /\ TypeInv /\ [Next]_vars => FullInv'
<1> SUFFICES ASSUME FullInv, TypeInv, [Next]_vars, phase' = "fill", ~changed'
             PROVE  /\ \A w \in Registered' \ left' :
                         w # cur' => NoRoom(w, Len(problems) + 1)'
                    /\ cur' # None => NoRoom(cur, at)'
  BY DEF FullInv
<1> USE DEF TypeInv, TypeOK, AtRest, Registered, registry, loopVars
<1>1. CASE Callers
  BY <1>1 DEF Callers, AddWorker, RemoveWorker, AddProblem, RemoveProblem, MutFree
<1>2. CASE LockAndSort
  BY <1>2 DEF LockAndSort
<1>3. ASSUME NEW v \in WorkerIDs, VisitWorker(v)
      PROVE  /\ \A w \in Registered' \ left' :
                  w # cur' => NoRoom(w, Len(problems) + 1)'
             /\ cur' # None => NoRoom(cur, at)'
  <2>1. /\ cur = None /\ v \in left /\ left' = left \ {v} /\ at' = 1
        /\ cur' = IF rem[v] > 0 THEN v ELSE None
        /\ UNCHANGED <<problems, workers, rem, phase, changed>>
    BY <1>3 DEF VisitWorker
  <2>2. \A w \in Registered' \ left' : w # cur' => NoRoom(w, Len(problems) + 1)'
    BY <2>1, PrelimSchedulerAssumption DEF FullInv, NoRoom
  <2>3. \A i \in DOMAIN problems : ~(i < 1)
    OBVIOUS
  <2> QED
    BY <2>1, <2>2, <2>3 DEF NoRoom
<1>4. CASE Place
  BY <1>4 DEF Place
<1>5. CASE DoesNotFit
  <2>1. /\ phase = "fill" /\ cur # None /\ at' = at + 1 /\ rem[cur] < problems[at].mem
        /\ at \in DOMAIN problems
        /\ UNCHANGED <<problems, workers, left, cur, rem, changed>>
    BY <1>5, PrelimSchedulerAssumption DEF DoesNotFit, AtProblem, Fits
  <2>2. \A i \in DOMAIN problems : i < at + 1 => i < at \/ i = at
    OBVIOUS
  <2> QED
    BY <2>1, <2>2 DEF FullInv, NoRoom
<1>6. CASE WorkerDone
  <2>1. /\ phase = "fill" /\ cur # None /\ at > Len(problems) /\ cur' = None
        /\ UNCHANGED <<problems, workers, left, rem, changed>>
    BY <1>6 DEF WorkerDone
  <2>2. \A i \in DOMAIN problems : i < at
    BY <2>1
  <2> QED
    BY <2>1, <2>2 DEF FullInv, NoRoom
<1>7. CASE NextPass
  BY <1>7 DEF NextPass, PassDone
<1>8. CASE Reset \/ Broadcast \/ ApplyDone
  BY <1>8 DEF Reset, Broadcast, ApplyDone
<1>9. CASE \E w \in WorkerIDs, p \in ProblemIDs : ApplyEntry(w, p)
  BY <1>9 DEF ApplyEntry
<1>10. CASE UNCHANGED vars
  BY <1>10 DEF vars, FullInv, NoRoom
<1> QED
  BY <1>1, <1>2, <1>3, <1>4, <1>5, <1>6, <1>7, <1>8, <1>9, <1>10 DEF Next, SendSchedule

\* A loop that ends has found every worker full.
LEMMA FullMeansNothingFits == FullInv /\ TypeInv => NothingFits
<1> SUFFICES ASSUME FullInv, TypeInv, PassDone, ~changed,
                    NEW w \in Registered, NEW i \in DOMAIN problems
             PROVE  rem[w] = 0 \/ rem[w] < problems[i].mem
  BY DEF NothingFits
<1>1. NoRoom(w, Len(problems) + 1)
  BY PrelimSchedulerAssumption DEF FullInv, PassDone, Registered
<1>2. i < Len(problems) + 1
  BY DEF TypeInv, TypeOK
<1> QED
  BY <1>1, <1>2 DEF NoRoom

\* changeCount ends FillSchedule's loop only when no registered worker has room
\* left for an instance of any problem, in whichever passes the workers filled
\* up: the second half of PacksToTheCap, for any memories.
THEOREM FillsToTheCap == Spec => []NothingFits
<1>1. Init => FullInv
  BY DEF Init, FullInv
<1> QED
  BY <1>1, FullMeansNothingFits, InitType, TypeStep, FullStep, PTL DEF Spec

-----------------------------------------------------------------------------
(* The fill spends each worker's memory, once.                              *)

\* The terms of Used(w).
Terms(w) == [i \in DOMAIN problems |-> Get(sched, w, problems[i].id) * problems[i].mem]

\* What is handed out to a worker and what is left for it are within its
\* memory; they are all of it if its counters cannot wrap.
CapInv ==
  phase = "fill" /\ UniqueIDs =>
    \A w \in Registered :
      /\ Used(w) + rem[w] <= workers[w]
      /\ workers[w] < CountRange => Used(w) + rem[w] = workers[w]

\* A product of naturals is one, and grows with its factors.
LEMMA Products ==
  ASSUME NEW n \in Nat, NEW m \in Nat
  PROVE  /\ n * m \in Nat
         /\ (n + 1) * m = n * m + m
         /\ 0 * m = 0
         /\ n * 0 = 0
         /\ m > 0 => n <= n * m
<1>1. n * m \in Nat /\ (n + 1) * m = n * m + m
  OBVIOUS
<1>2. 0 * m = 0 /\ n * 0 = 0
  OBVIOUS
<1>3. m > 0 => n <= n * m
  <2> SUFFICES ASSUME m > 0 PROVE n <= n * m
    OBVIOUS
  <2>1. n * m = n * (m - 1) + n /\ m - 1 \in Nat
    OBVIOUS
  <2>2. n * (m - 1) \in Nat
    BY <2>1
  <2> QED
    BY <2>1, <2>2
<1> QED
  BY <1>1, <1>2, <1>3

\* Used(w) is a sum of naturals.
LEMMA TermsSummable ==
  ASSUME TypeInv, NEW w
  PROVE  /\ DOMAIN Terms(w) = DOMAIN problems
         /\ IsFiniteSet(DOMAIN problems)
         /\ \A i \in DOMAIN problems : Terms(w)[i] \in Nat
         /\ Used(w) = SumFunction(Terms(w))
<1>1. IsFiniteSet(DOMAIN problems)
  BY FS_Interval DEF TypeInv, TypeOK
<1>2. ASSUME NEW i \in DOMAIN problems PROVE Terms(w)[i] \in Nat
  <2>1. Get(sched, w, problems[i].id) \in Nat
    BY GetType DEF TypeInv, TypeOK, Count
  <2>2. problems[i].mem \in Nat
    BY PrelimSchedulerAssumption DEF TypeInv, TypeOK
  <2> QED
    BY <2>1, <2>2, Products DEF Terms
<1> QED
  BY <1>1, <1>2 DEF Terms, Used

\* An instance more on the worker that is visited: its term grows by the memory
\* taken off what is left for it, unless the counter wraps.
LEMMA PlaceSpends ==
  ASSUME CapInv, TypeInv, TypeInv', Place, UniqueIDs
  PROVE  /\ Used(cur)' + rem'[cur] <= workers[cur]
         /\ workers[cur] < CountRange => Used(cur)' + rem'[cur] = workers[cur]
<1> DEFINE id == problems[at].id
           m  == problems[at].mem
           n  == Get(sched, cur, id)
           f  == Terms(cur)
           h  == [i \in DOMAIN problems |-> Get(sched', cur, problems[i].id) * problems[i].mem]
<1>1. /\ phase = "fill" /\ cur \in Registered /\ at \in DOMAIN problems
      /\ sched' = Set(sched, cur, id, Inc(n))
      /\ rem' = [rem EXCEPT ![cur] = @ - m] /\ rem[cur] >= m
      /\ UNCHANGED <<problems, cur>>
  BY PrelimSchedulerAssumption
  DEF Place, AtProblem, Fits, Charged, TypeInv, TypeOK, Registered
<1>2. rem \in [WorkerIDs -> Nat] /\ cur \in WorkerIDs /\ workers[cur] \in Nat /\ m \in Nat
  BY <1>1, PrelimSchedulerAssumption DEF TypeInv, TypeOK, Registered
<1>3. n \in Count /\ n \in Nat
  BY GetType DEF TypeInv, TypeOK, Count
<1>4. /\ Used(cur) + rem[cur] <= workers[cur]
      /\ workers[cur] < CountRange => Used(cur) + rem[cur] = workers[cur]
  BY <1>1 DEF CapInv
<1>5. rem'[cur] = rem[cur] - m
  BY <1>1, <1>2
<1>6. /\ DOMAIN f = DOMAIN problems
      /\ IsFiniteSet(DOMAIN problems)
      /\ \A i \in DOMAIN problems : f[i] \in Nat
      /\ Used(cur) = SumFunction(f)
  BY TermsSummable
<1>7. /\ h = Terms(cur)'
      /\ \A i \in DOMAIN problems : h[i] \in Nat
      /\ Used(cur)' = SumFunction(h)
  <2>1. \A i \in DOMAIN problems : Get(sched', cur, problems[i].id) \in Nat
    BY CountType DEF TypeInv, TypeOK, Count, Get
  <2>2. \A i \in DOMAIN problems : problems[i].mem \in Nat
    BY PrelimSchedulerAssumption DEF TypeInv, TypeOK
  <2>3. \A i \in DOMAIN problems : h[i] \in Nat
    BY <2>1, <2>2, Products
  <2>4. h = Terms(cur)' /\ Used(cur)' = SumFunction(h)
    BY <1>1 DEF Terms, Used
  <2> QED
    BY <2>3, <2>4
<1>8. f[at] = n * m
  BY <1>1 DEF Terms
<1>9. h[at] = Inc(n) * m
  BY <1>1 DEF Get, Set
<1>10. \A i \in DOMAIN problems : i # at => h[i] = f[i]
  <2> SUFFICES ASSUME NEW i \in DOMAIN problems, i # at PROVE h[i] = f[i]
    OBVIOUS
  <2>1. problems[i].id # id
    BY <1>1 DEF UniqueIDs
  <2>2. Get(sched', cur, problems[i].id) = Get(sched, cur, problems[i].id)
    BY <1>1, <2>1 DEF Get, Set
  <2> QED
    BY <2>2 DEF Terms
<1>11. DOMAIN h = DOMAIN problems
  OBVIOUS
<1> HIDE DEF id, m, n, f, h
<1>12. /\ SumFunction(f) \in Nat /\ SumFunction(h) \in Nat
       /\ f[at] <= SumFunction(f)
  BY <1>1, <1>6, <1>7, <1>11, SumOfNats
<1>13. SumFunction(h) = SumFunction(f) + h[at] - f[at]
  <2>1. Summable(f) /\ Summable(h)
    BY <1>6, <1>7, <1>11 DEF Summable
  <2>2. DOMAIN h = DOMAIN f \cup {at} /\ at \in DOMAIN f
    BY <1>1, <1>6, <1>11
  <2>3. \A x \in DOMAIN f : x # at => h[x] = f[x]
    BY <1>6, <1>10
  <2> QED
    BY <2>1, <2>2, <2>3, SumChanges
<1>14. Inc(n) \in Nat /\ Inc(n) <= n + 1 /\ (n + 1 < CountRange => Inc(n) = n + 1)
  <2>1. CASE n + 1 < CountRange
    <3>1. n + 1 = 0 * CountRange + (n + 1) /\ n + 1 \in 0 .. CountRange - 1
      BY <1>3, <2>1, PrelimSchedulerAssumption
    <3>2. Inc(n) = n + 1
      BY <3>1, ModUnique, PrelimSchedulerAssumption DEF Inc
    <3> QED
      BY <1>3, <3>2
  <2>2. CASE n + 1 = CountRange
    <3>1. n + 1 = 1 * CountRange + 0 /\ 0 \in 0 .. CountRange - 1
      BY <1>3, <2>2, PrelimSchedulerAssumption
    <3>2. Inc(n) = 0
      BY <3>1, ModUnique, PrelimSchedulerAssumption DEF Inc
    <3> QED
      BY <1>3, <2>2, <3>2
  <2> QED
    BY <1>3, <2>1, <2>2, PrelimSchedulerAssumption DEF Count
<1>15. Inc(n) * m <= n * m + m
  <2>1. CASE Inc(n) = n + 1
    BY <1>2, <1>3, <2>1, Products
  <2>2. CASE Inc(n) <= n
    <3> DEFINE d == n - Inc(n)
    <3>1. d \in Nat /\ n = Inc(n) + d
      BY <1>3, <1>14, <2>2
    <3> HIDE DEF d
    <3>2. n * m = Inc(n) * m + d * m
      BY <1>2, <1>14, <3>1
    <3>3. d * m \in Nat /\ Inc(n) * m \in Nat
      BY <1>2, <1>14, <3>1, Products
    <3> QED
      BY <1>2, <3>2, <3>3
  <2> QED
    BY <1>3, <1>14, <2>1, <2>2
<1>16. n * m \in Nat /\ Inc(n) * m \in Nat
  BY <1>2, <1>3, <1>14, Products
<1>17. Used(cur)' + rem'[cur] <= workers[cur]
  <2>1. Used(cur)' = Used(cur) + Inc(n) * m - n * m
    BY <1>6, <1>7, <1>8, <1>9, <1>13
  <2>2. Used(cur) \in Nat /\ rem[cur] \in Nat
    BY <1>2, <1>6, <1>12
  <2> QED
    BY <1>2, <1>4, <1>5, <1>15, <1>16, <2>1, <2>2
<1>18. ASSUME workers[cur] < CountRange PROVE Inc(n) * m = n * m + m
  <2>1. CASE m = 0
    <3>1. Inc(n) * m = 0 /\ n * m = 0
      BY <1>3, <1>14, <2>1, Products
    <3> QED
      BY <2>1, <3>1
  <2>2. CASE m > 0
    <3>1. n <= n * m
      BY <1>2, <1>3, <2>2, Products
    <3>2. n * m <= Used(cur) /\ Used(cur) \in Nat
      BY <1>6, <1>8, <1>12
    <3>3. n + 1 <= workers[cur]
      BY <1>1, <1>2, <1>3, <1>4, <1>16, <2>2, <3>1, <3>2
    <3>4. Inc(n) = n + 1
      BY <1>2, <1>3, <1>14, <1>18, <3>3, PrelimSchedulerAssumption
    <3> QED
      BY <1>2, <1>3, <3>4, Products
  <2> QED
    BY <1>2, <2>1, <2>2
<1>19. workers[cur] < CountRange => Used(cur)' + rem'[cur] = workers[cur]
  <2>1. Used(cur)' = Used(cur) + Inc(n) * m - n * m
    BY <1>6, <1>7, <1>8, <1>9, <1>13
  <2>2. Used(cur) \in Nat /\ rem[cur] \in Nat
    BY <1>2, <1>6, <1>12
  <2> QED
    BY <1>2, <1>4, <1>5, <1>16, <1>18, <2>1, <2>2
<1> QED
  BY <1>17, <1>19

\* Every step keeps it: Place spends the memory of the worker that is visited,
\* and no other step of the loops spends any.
LEMMA CapStep == CapInv /\ TypeInv /\ TypeInv' /\ [Next]_vars => CapInv'
<1> SUFFICES ASSUME CapInv, TypeInv, TypeInv', [Next]_vars, phase' = "fill", UniqueIDs'
             PROVE  \A w \in Registered' :
                      /\ Used(w)' + rem'[w] <= workers'[w]
                      /\ workers'[w] < CountRange => Used(w)' + rem'[w] = workers'[w]
  BY DEF CapInv
<1>1. CASE LockAndSort
  <2>1. DOMAIN sched' = {} /\ workers' = workers
        /\ \A w \in Registered : rem'[w] = workers[w]
    BY <1>1 DEF LockAndSort, TypeInv, AtRest, Registered
  <2>2. \A w : Used(w)' = 0
    <3> SUFFICES ASSUME NEW w PROVE Used(w)' = 0
      OBVIOUS
    <3> DEFINE h == [i \in DOMAIN problems' |-> Get(sched', w, problems'[i].id) * problems'[i].mem]
    <3>1. problems' \in Seq(Problems)
      BY DEF TypeInv, TypeOK
    <3>2. IsFiniteSet(DOMAIN problems') /\ \A i \in DOMAIN problems' : problems'[i].mem \in Nat
      BY <3>1, FS_Interval, PrelimSchedulerAssumption
    <3>3. \A i \in DOMAIN problems' : h[i] = 0
      BY <2>1, <3>2, Products DEF Get
    <3> HIDE DEF h
    <3>4. DOMAIN h = DOMAIN problems'
      BY DEF h
    <3>5. SumFunction(h) = 0
      BY <3>2, <3>3, <3>4, SumOfZeros
    <3> QED
      BY <3>5 DEF h, Used
  <2>3. \A w \in Registered : workers[w] \in Nat
    BY DEF TypeInv, TypeOK, Registered
  <2> QED
    BY <2>1, <2>2, <2>3 DEF Registered
<1>2. CASE Place
  <2>1. /\ phase = "fill" /\ cur \in WorkerIDs /\ UNCHANGED <<problems, workers, cur>>
        /\ \A w \in WorkerIDs : w # cur => rem'[w] = rem[w]
        /\ sched' = Set(sched, cur, problems[at].id, Inc(Get(sched, cur, problems[at].id)))
    BY <1>2, PrelimSchedulerAssumption
    DEF Place, AtProblem, Charged, TypeInv, TypeOK, Registered
  <2>2. UniqueIDs
    BY <2>1 DEF UniqueIDs
  <2>3. ASSUME NEW w \in Registered, w # cur PROVE Used(w)' = Used(w)
    <3>1. \A p : Get(sched', w, p) = Get(sched, w, p)
      BY <2>1, <2>3 DEF Get, Set
    <3> QED
      BY <2>1, <3>1 DEF Used
  <2>4. /\ Used(cur)' + rem'[cur] <= workers[cur]
        /\ workers[cur] < CountRange => Used(cur)' + rem'[cur] = workers[cur]
    BY <1>2, <2>2, PlaceSpends
  <2>5. \A w \in Registered : /\ Used(w) + rem[w] <= workers[w]
                              /\ workers[w] < CountRange => Used(w) + rem[w] = workers[w]
    BY <2>1, <2>2 DEF CapInv
  <2> SUFFICES ASSUME NEW w \in Registered
               PROVE  /\ Used(w)' + rem'[w] <= workers[w]
                      /\ workers[w] < CountRange => Used(w)' + rem'[w] = workers[w]
    BY <2>1 DEF Registered
  <2>6. CASE w = cur
    <3>1. Used(w)' = Used(cur)'
      BY <2>1, <2>6 DEF Used
    <3> QED
      BY <2>4, <2>6, <3>1
  <2>7. CASE w # cur
    BY <2>1, <2>3, <2>5, <2>7 DEF Registered
  <2> QED
    BY <2>6, <2>7
<1>3. CASE UNCHANGED <<problems, workers, sched, phase, rem>>
  <2>1. UniqueIDs /\ phase = "fill" /\ Registered' = Registered
    BY <1>3 DEF UniqueIDs, Registered
  <2>2. \A w : Used(w)' = Used(w)
    BY <1>3 DEF Used
  <2> QED
    BY <1>3, <2>1, <2>2 DEF CapInv
<1>4. CASE Callers
  BY <1>4 DEF Callers, AddWorker, RemoveWorker, AddProblem, RemoveProblem, MutFree
<1>5. CASE \/ \E w \in WorkerIDs : VisitWorker(w)
           \/ DoesNotFit \/ WorkerDone \/ NextPass
  BY <1>3, <1>5 DEF VisitWorker, DoesNotFit, WorkerDone, NextPass, registry
<1>6. CASE Reset \/ Broadcast \/ ApplyDone \/ \E w \in WorkerIDs, p \in ProblemIDs : ApplyEntry(w, p)
  BY <1>6 DEF Reset, Broadcast, ApplyDone, ApplyEntry
<1>7. CASE UNCHANGED vars
  BY <1>3, <1>7 DEF vars, registry, loopVars
<1> QED
  BY <1>1, <1>2, <1>4, <1>5, <1>6, <1>7 DEF Next, SendSchedule

\* A fill never hands out more than a worker's memory, and ends only when no
\* problem fits what is left of it, for any memories and any number of workers
\* and problems.
THEOREM PacksFully == Spec => []PacksToTheCap
<1>1. Init => CapInv /\ FullInv
  BY DEF Init, CapInv, FullInv
<1>2. CapInv /\ FullInv /\ TypeInv => PacksToTheCap
  <2> SUFFICES ASSUME CapInv, FullInv, TypeInv, phase = "fill", UniqueIDs, NEW w \in Registered
               PROVE  /\ Used(w) <= workers[w]
                      /\ PassDone /\ ~changed /\ workers[w] < CountRange =>
                           \A i \in DOMAIN problems :
                             problems[i].mem > 0 => Used(w) + problems[i].mem > workers[w]
    BY DEF PacksToTheCap
  <2>1. rem[w] \in Nat /\ workers[w] \in Nat /\ \A i \in DOMAIN problems : problems[i].mem \in Nat
    BY PrelimSchedulerAssumption DEF TypeInv, TypeOK, Registered
  <2>2. Used(w) \in Nat
    BY TermsSummable, SumOfNats
  <2>3. /\ Used(w) + rem[w] <= workers[w]
        /\ workers[w] < CountRange => Used(w) + rem[w] = workers[w]
    BY DEF CapInv
  <2>4. NothingFits
    BY FullMeansNothingFits
  <2>5. ASSUME PassDone, ~changed, workers[w] < CountRange,
               NEW i \in DOMAIN problems, problems[i].mem > 0
        PROVE  Used(w) + problems[i].mem > workers[w]
    <3>1. rem[w] < problems[i].mem
      BY <2>1, <2>4, <2>5 DEF NothingFits
    <3> QED
      BY <2>1, <2>2, <2>3, <2>5, <3>1
  <2> QED
    BY <2>1, <2>2, <2>3, <2>5
<1> QED
  BY <1>1, <1>2, InitType, TypeStep, FullStep, CapStep, PTL DEF Spec

-----------------------------------------------------------------------------
(* How far a fill is from its end.                                          *)

MemoryLeft == SumFunction([w \in Registered |-> rem[w]])

\* The memory not handed out, whether this pass handed any out, the workers it
\* has still to visit and the offers to the one it is at.
ToDo ==
  <<MemoryLeft,
    IF changed THEN 1 ELSE 0,
    Cardinality(left),
    IF cur = None THEN 0 ELSE Len(problems) + 2 - at>>

Measures == Nat \X Nat \X Nat \X Nat

\* The order of the measures, by the first place where they differ.
Below(s, t) ==
  \/ s[1] < t[1]
  \/ s[1] = t[1] /\ s[2] < t[2]
  \/ s[1] = t[1] /\ s[2] = t[2] /\ s[3] < t[3]
  \/ s[1] = t[1] /\ s[2] = t[2] /\ s[3] = t[3] /\ s[4] < t[4]

\* There are finitely many workers at a time, and a pass offers no more problems
\* than there are.
VisitInv ==
  /\ IsFiniteSet(Registered)
  /\ phase = "fill" /\ cur # None => at <= Len(problems) + 1

TakesMemory == \A i \in DOMAIN problems : problems[i].mem > 0

Advances ==
  phase = "fill" /\ phase' = "fill" /\ TakesMemory => Below(ToDo', ToDo)

\* Only AddWorker makes a worker, and only one.
LEMMA VisitStep == VisitInv /\ TypeInv /\ [Next]_vars => VisitInv'
<1> SUFFICES ASSUME VisitInv, TypeInv, [Next]_vars PROVE VisitInv'
  OBVIOUS
<1>1. ASSUME NEW h \in Hellos, AddWorker(h) PROVE VisitInv'
  <2>1. Registered' \subseteq Registered \cup {h.id}
    BY <1>1 DEF AddWorker, Registered, TypeInv, TypeOK
  <2>2. IsFiniteSet(Registered \cup {h.id})
    BY FS_AddElement DEF VisitInv
  <2> QED
    BY <1>1, <2>1, <2>2, FS_Subset DEF AddWorker, MutFree, VisitInv
<1>2. ASSUME NEW w \in WorkerIDs, RemoveWorker(w) PROVE VisitInv'
  <2>1. Registered' \subseteq Registered
    BY <1>2 DEF RemoveWorker, Registered, TypeInv, TypeOK
  <2> QED
    BY <1>2, <2>1, FS_Subset DEF RemoveWorker, MutFree, VisitInv
<1>3. CASE workers' = workers /\ (phase' = "fill" /\ cur' # None => at' <= Len(problems') + 1)
  BY <1>3 DEF VisitInv, Registered
<1>4. CASE LockAndSort
  BY <1>3, <1>4 DEF LockAndSort, TypeInv, AtRest
<1>5. CASE \E w \in WorkerIDs : VisitWorker(w)
  BY <1>3, <1>5 DEF VisitWorker, registry, TypeInv, TypeOK
<1>6. CASE Place \/ DoesNotFit
  BY <1>3, <1>6 DEF Place, DoesNotFit, AtProblem, registry, TypeInv, TypeOK
<1>7. CASE WorkerDone \/ NextPass
  BY <1>3, <1>7 DEF WorkerDone, NextPass, PassDone, registry
<1>8. CASE Reset \/ Broadcast \/ ApplyDone \/ \E w \in WorkerIDs, p \in ProblemIDs : ApplyEntry(w, p)
  BY <1>3, <1>8 DEF Reset, Broadcast, ApplyDone, ApplyEntry, registry
<1>9. CASE \/ \E p \in Problems : AddProblem(p)
           \/ \E id \in ProblemIDs : RemoveProblem(id)
  BY <1>3, <1>9 DEF AddProblem, RemoveProblem, MutFree
<1>10. CASE UNCHANGED vars
  BY <1>3, <1>10 DEF vars, registry, loopVars, VisitInv
<1> QED
  BY <1>1, <1>2, <1>4, <1>5, <1>6, <1>7, <1>8, <1>9, <1>10 DEF Next, Callers, SendSchedule

\* The measure is of natural numbers.
LEMMA ToDoType == VisitInv /\ TypeInv /\ phase = "fill" => ToDo \in Measures
<1> SUFFICES ASSUME VisitInv, TypeInv, phase = "fill" PROVE ToDo \in Measures
  OBVIOUS
<1>1. MemoryLeft \in Nat
  BY SumOfNats DEF MemoryLeft, VisitInv, TypeInv, TypeOK, Registered
<1>2. Cardinality(left) \in Nat
  BY FS_Subset, FS_CardinalityType DEF VisitInv, TypeInv, TypeOK
<1>3. (IF cur = None THEN 0 ELSE Len(problems) + 2 - at) \in Nat
  BY DEF VisitInv, TypeInv, TypeOK
<1> QED
  BY <1>1, <1>2, <1>3 DEF ToDo, Measures

\* An instance takes its memory from the worker that is visited.
LEMMA PlaceTakes ==
  ASSUME VisitInv, TypeInv, Place, problems[at].mem > 0
  PROVE  MemoryLeft' < MemoryLeft
<1> DEFINE f == [w \in Registered |-> rem[w]]
           h == [w \in Registered |-> rem'[w]]
<1>1. /\ cur \in Registered /\ Registered' = Registered
      /\ rem' = [rem EXCEPT ![cur] = @ - problems[at].mem]
      /\ problems[at].mem \in Nat /\ rem[cur] \in Nat /\ rem[cur] >= problems[at].mem
  BY PrelimSchedulerAssumption
  DEF Place, AtProblem, Fits, Charged, TypeInv, TypeOK, Registered
<1>2. rem \in [WorkerIDs -> Nat] /\ Registered \subseteq WorkerIDs
  BY DEF TypeInv, TypeOK, Registered
<1>3. rem'[cur] = rem[cur] - problems[at].mem /\ \A w \in Registered : w # cur => rem'[w] = rem[w]
  BY <1>1, <1>2
<1>4. Summable(f) /\ Summable(h)
  BY <1>1, <1>2, <1>3 DEF Summable, VisitInv
<1>5. DOMAIN h = DOMAIN f \cup {cur} /\ \A w \in DOMAIN f : w # cur => h[w] = f[w]
  BY <1>1, <1>3
<1>6. f[cur] = rem[cur] /\ h[cur] = rem'[cur] /\ cur \in DOMAIN f
  BY <1>1
<1>7. MemoryLeft = SumFunction(f) /\ MemoryLeft' = SumFunction(h)
  BY <1>1 DEF MemoryLeft
<1> HIDE DEF f, h
<1>8. SumFunction(f) \in Int /\ SumFunction(h) = SumFunction(f) + rem'[cur] - rem[cur]
  BY <1>4, <1>5, <1>6, SumChanges
<1> QED
  BY <1>1, <1>3, <1>7, <1>8

\* The other steps of a fill leave the memory alone.
LEMMA MemoryStays == UNCHANGED <<workers, rem>> => MemoryLeft' = MemoryLeft
<1> SUFFICES ASSUME UNCHANGED <<workers, rem>> PROVE MemoryLeft' = MemoryLeft
  OBVIOUS
<1>1. Registered' = Registered
  BY DEF Registered
<1> QED
  BY <1>1 DEF MemoryLeft

\* Each step of the loops goes down in the order.
LEMMA AdvanceStep ==
  ASSUME VisitInv, TypeInv, Next, phase = "fill", phase' = "fill", TakesMemory
  PROVE  Below(ToDo', ToDo)
<1>1. ToDo \in Measures
  BY ToDoType
<1>2. MemoryLeft \in Nat /\ IsFiniteSet(left) /\ Cardinality(left) \in Nat
  <2>1. IsFiniteSet(left)
    BY FS_Subset DEF VisitInv, TypeInv, TypeOK
  <2> QED
    BY <1>1, <2>1, FS_CardinalityType DEF Measures, ToDo
<1>3. ASSUME NEW w \in WorkerIDs, VisitWorker(w) PROVE Below(ToDo', ToDo)
  <2>1. w \in left /\ left' = left \ {w} /\ changed' = changed /\ UNCHANGED <<workers, rem>>
    BY <1>3 DEF VisitWorker, registry
  <2>2. Cardinality(left \ {w}) = Cardinality(left) - 1
    BY <1>2, <2>1, FS_RemoveElement
  <2>3. Cardinality(left') < Cardinality(left)
    BY <1>2, <2>1, <2>2
  <2> QED
    BY <2>1, <2>3, MemoryStays DEF ToDo, Below
<1>4. CASE Place
  <2>1. problems[at].mem > 0
    BY <1>4 DEF Place, AtProblem, TakesMemory, TypeInv, TypeOK
  <2> QED
    BY <1>4, <2>1, PlaceTakes DEF ToDo, Below
<1>5. CASE DoesNotFit \/ WorkerDone
  <2>1. UNCHANGED <<workers, problems, rem, left, changed>>
    BY <1>5 DEF DoesNotFit, WorkerDone, registry
  <2>2. Len(problems) \in Nat /\ at \in Nat /\ (cur # None => at <= Len(problems) + 1)
    BY DEF VisitInv, TypeInv, TypeOK
  <2>3. cur # None /\ (cur' = None \/ (cur' = cur /\ at' = at + 1))
    BY <1>5 DEF DoesNotFit, WorkerDone, AtProblem
  <2> QED
    BY <2>1, <2>2, <2>3, MemoryStays DEF ToDo, Below
<1>6. CASE NextPass
  BY <1>6, MemoryStays DEF NextPass, registry, ToDo, Below
<1>7. CASE Callers
  BY <1>7 DEF Callers, AddWorker, RemoveWorker, AddProblem, RemoveProblem, MutFree
<1>8. CASE Reset \/ LockAndSort \/ Broadcast \/ ApplyDone
           \/ \E w \in WorkerIDs, p \in ProblemIDs : ApplyEntry(w, p)
  BY <1>8 DEF Reset, LockAndSort, Broadcast, ApplyDone, ApplyEntry
<1> QED
  BY <1>3, <1>4, <1>5, <1>6, <1>7, <1>8 DEF Next, SendSchedule

\* Each step of FillSchedule's loops comes closer to their end, by a measure of
\* natural numbers that cannot fall for ever: changeCount keeps the loops going
\* only as long as memory was handed out, whatever the workers and problems, if
\* each problem takes some.
THEOREM FillAdvances ==
  Spec => [](phase = "fill" => ToDo \in Measures) /\ [][Advances]_vars
<1>1. Init => VisitInv
  <2> SUFFICES ASSUME Init PROVE VisitInv
    OBVIOUS
  <2>1. Registered = {} /\ phase = "sleep"
    BY DEF Init, Registered
  <2> QED
    BY <2>1, FS_EmptySet DEF VisitInv
<1>2. VisitInv /\ TypeInv => (phase = "fill" => ToDo \in Measures)
  BY ToDoType
<1>3. VisitInv /\ TypeInv /\ [Next]_vars => [Advances]_vars
  BY AdvanceStep DEF Advances
<1> QED
  BY <1>1, <1>2, <1>3, VisitStep, InitType, TypeStep, PTL DEF Spec

-----------------------------------------------------------------------------
(* The inductive invariant of the instance counts.                          *)

\* A problem that is counted is in the list, so that the next fill resets its
\* counter; during the fill a counter shows what the Schedule has of its
\* problem, and after it what is still counted.
CountInv ==
  /\ \A p \in ProblemIDs : counts[p] > 0 => p \in IDs(problems)
  /\ phase = "fill" =>
       \A p \in ProblemIDs :
         IsFiniteSet(Holders(p)) /\ counts[p] % CountRange = Scheduled(p) % CountRange
  /\ CountsMatchSchedule

\* What a worker has of a problem can be summed up.
LEMMA HoldersSummable ==
  ASSUME TypeInv, NEW p, IsFiniteSet(Holders(p))
  PROVE  Summable([w \in Holders(p) |-> sched[<<w, p>>]])
<1>1. \A w \in Holders(p) : sched[<<w, p>>] \in Int
  BY PrelimSchedulerAssumption DEF Holders, TypeInv, TypeOK, Count
<1> QED
  BY <1>1 DEF Summable

\* An empty Schedule adds up to what a reset counter shows.
LEMMA NothingScheduled ==
  ASSUME DOMAIN sched = {}, NEW p
  PROVE  /\ Holders(p) = {} /\ IsFiniteSet(Holders(p))
         /\ Scheduled(p) % CountRange = 0 /\ 0 % CountRange = 0
<1>1. Holders(p) = {} /\ IsFiniteSet({})
  BY FS_EmptySet DEF Holders
<1> DEFINE f == [w \in Holders(p) |-> sched[<<w, p>>]]
<1>2. SumFunction(f) = 0
  BY <1>1, SumOfZeros
<1>3. Scheduled(p) = 0
  BY <1>2 DEF Scheduled
<1>4. 0 = 0 * CountRange + 0 /\ 0 \in 0 .. CountRange - 1
  BY PrelimSchedulerAssumption
<1>5. 0 % CountRange = 0
  BY <1>4, ModUnique, PrelimSchedulerAssumption
<1> QED
  BY <1>1, <1>3, <1>5

\* An instance more of one problem: both sides of its count wrap alike, and the
\* other problems keep theirs.
LEMMA PlaceCounts ==
  ASSUME CountInv, TypeInv, TypeInv', Place, NEW p \in ProblemIDs
  PROVE  IsFiniteSet(Holders(p)') /\ counts'[p] % CountRange = Scheduled(p)' % CountRange
<1> DEFINE id == problems[at].id
           n  == Get(sched, cur, id)
           f  == [w \in Holders(p) |-> sched[<<w, p>>]]
           h  == [w \in Holders(p)' |-> sched'[<<w, p>>]]
<1>1. /\ phase = "fill" /\ cur \in WorkerIDs /\ id \in ProblemIDs
      /\ sched' = Set(sched, cur, id, Inc(n))
      /\ counts' = [counts EXCEPT ![id] = IncInt(@)]
  BY PrelimSchedulerAssumption DEF Place, AtProblem, TypeInv, TypeOK, Registered
<1>2. /\ DOMAIN sched' = DOMAIN sched \cup {<<cur, id>>}
      /\ sched'[<<cur, id>>] = Inc(n)
      /\ \A k \in DOMAIN sched : k # <<cur, id>> => sched'[k] = sched[k]
  BY <1>1 DEF Set
<1>3. n \in Count
  BY GetType DEF TypeInv, TypeOK
<1>4. IsFiniteSet(Holders(p)) /\ counts[p] % CountRange = Scheduled(p) % CountRange
  BY <1>1 DEF CountInv
<1>5. Scheduled(p) = SumFunction(f) /\ Scheduled(p)' = SumFunction(h)
  BY DEF Scheduled
<1>6. counts \in [ProblemIDs -> IntCount]
  BY DEF TypeInv, TypeOK
<1> HIDE DEF id, n
<1>7. CASE p # id
  <2>1. Holders(p)' = Holders(p) /\ \A w \in Holders(p) : sched'[<<w, p>>] = sched[<<w, p>>]
    BY <1>2, <1>7 DEF Holders
  <2>2. h = f
    BY <2>1
  <2>3. counts'[p] = counts[p]
    BY <1>1, <1>6, <1>7
  <2> QED
    BY <1>4, <1>5, <2>1, <2>2, <2>3
<1>8. CASE p = id
  <2>1. Holders(p)' = Holders(p) \cup {cur}
    BY <1>1, <1>2, <1>8 DEF Holders
  <2>2. IsFiniteSet(Holders(p)')
    BY <1>4, <2>1, FS_AddElement
  <2>3. Summable(f)
    BY <1>4, HoldersSummable
  <2>4. Summable(h)
    <3>1. \A w \in Holders(p)' : sched'[<<w, p>>] \in Int
      BY PrelimSchedulerAssumption DEF Holders, TypeInv, TypeOK, Count
    <3> QED
      BY <2>2, <3>1 DEF Summable
  <2>5. /\ DOMAIN h = DOMAIN f \cup {cur}
        /\ \A w \in DOMAIN f : w # cur => h[w] = f[w]
    BY <1>2, <1>8, <2>1 DEF Holders
  <2>6. h[cur] = Inc(n)
    BY <1>2, <1>8, <2>1
  <2>7. (IF cur \in DOMAIN f THEN f[cur] ELSE 0) = n
    BY <1>1, <1>8 DEF n, Get, Holders
  <2> HIDE DEF f, h
  <2>8. SumFunction(f) \in Int /\ SumFunction(h) = SumFunction(f) + Inc(n) - n
    BY <2>3, <2>4, <2>5, <2>6, <2>7, SumChanges
  <2>9. (SumFunction(f) + ((n + 1) % CountRange) - n) % CountRange
          = ((SumFunction(f) % CountRange) + 1) % CountRange
    BY <1>3, <2>8, ModSum, PrelimSchedulerAssumption DEF Count
  <2>10. counts'[p] % CountRange = ((SumFunction(f) % CountRange) + 1) % CountRange
    <3>1. counts[p] \in Int /\ counts'[p] = (counts[p] + 1) % IntRange
      BY <1>1, <1>6, <1>8 DEF IncInt, IntCount
    <3>2. ((counts[p] + 1) % IntRange) % CountRange = ((counts[p] % CountRange) + 1) % CountRange
      BY <3>1, ModIncWide, PrelimSchedulerAssumption
    <3> QED
      BY <1>4, <1>5, <3>1, <3>2
  <2>11. SumFunction(h) % CountRange = counts'[p] % CountRange
    BY <2>8, <2>9, <2>10 DEF Inc
  <2> QED
    BY <1>5, <2>2, <2>11
<1> QED
  BY <1>7, <1>8

\* What removeList overwrites is told 0; the other problems keep their count.
LEMMA BroadcastCounts ==
  ASSUME CountInv, RemovalInv, Broadcast PROVE CountsMatchSchedule'
<1> SUFFICES ASSUME NEW p \in ProblemIDs
             PROVE  \/ counts'[p] % CountRange = Scheduled(p)' % CountRange
                    \/ \A w \in Holders(p)' : sched'[<<w, p>>] = 0
  BY DEF CountsMatchSchedule
<1> DEFINE zeroed == Registered \X removed
<1>1. /\ phase = "fill" /\ counts' = counts
      /\ sched' = [k \in DOMAIN sched \cup zeroed |-> IF k \in zeroed THEN 0 ELSE sched[k]]
  BY DEF Broadcast, PassDone
<1>2. CASE p \in removed
  <2>1. \A w \in Holders(p)' : w \in Registered
    BY <1>1, <1>2 DEF Holders, RemovalInv, ScheduleKnown
  <2> QED
    BY <1>1, <1>2, <2>1 DEF Holders
<1>3. CASE p \notin removed
  <2>1. /\ Holders(p)' = Holders(p)
        /\ \A w \in Holders(p) : sched'[<<w, p>>] = sched[<<w, p>>]
    BY <1>1, <1>3 DEF Holders
  <2>2. Scheduled(p)' = Scheduled(p)
    BY <2>1 DEF Scheduled
  <2> QED
    BY <1>1, <2>2 DEF CountInv
<1> QED
  BY <1>2, <1>3

\* Every step keeps it.
LEMMA CountStep ==
  CountInv /\ RemovalInv /\ TypeInv' /\ [Next]_vars => CountInv'
<1> SUFFICES ASSUME CountInv, RemovalInv, TypeInv', [Next]_vars PROVE CountInv'
  OBVIOUS
<1>0. counts \in [ProblemIDs -> IntCount] /\ (\A c \in IntCount : c \in Nat) /\ TypeInv
  BY DEF RemovalInv, TypeInv, TypeOK, IntCount
<1>a. ASSUME UNCHANGED sched, \A p \in ProblemIDs : counts'[p] \in {0, counts[p]},
             phase' = phase
      PROVE  CountsMatchSchedule'
  <2>1. \A p : Holders(p)' = Holders(p) /\ Scheduled(p)' = Scheduled(p)
    BY <1>a DEF Holders, Scheduled
  <2> QED
    BY <1>a, <2>1 DEF CountInv, CountsMatchSchedule
<1>1. ASSUME NEW p \in Problems, AddProblem(p) PROVE CountInv'
  <2>1. IDs(problems) \subseteq IDs(problems')
    BY <1>0, <1>1, AppendIDs DEF AddProblem, TypeInv, TypeOK
  <2>2. CountsMatchSchedule'
    BY <1>a, <1>0, <1>1 DEF AddProblem
  <2> QED
    BY <1>0, <1>1, <2>1, <2>2, PrelimSchedulerAssumption DEF AddProblem, MutFree, CountInv
<1>2. ASSUME NEW id \in ProblemIDs, RemoveProblem(id) PROVE CountInv'
  <2>1. PICK i \in DOMAIN problems : problems[i].id = id /\ problems' = Without(problems, i)
    BY <1>2 DEF RemoveProblem
  <2>2. IDs(problems) \subseteq IDs(problems') \cup {id}
    BY <1>0, <2>1, WithoutIDs DEF TypeInv, TypeOK
  <2>3. CountsMatchSchedule'
    BY <1>a, <1>0, <1>2 DEF RemoveProblem
  <2> QED
    BY <1>0, <1>2, <2>2, <2>3 DEF RemoveProblem, MutFree, CountInv
<1>3. CASE LockAndSort
  <2>1. IDs(problems') = IDs(problems)
    BY <1>0, <1>3, SortedType DEF LockAndSort, TypeInv, TypeOK
  <2>2. counts' = [p \in ProblemIDs |-> IF p \in IDs(problems) THEN 0 ELSE counts[p]]
    BY <1>3 DEF LockAndSort, CountsReset
  <2>3. \A p \in ProblemIDs : counts'[p] = 0
    BY <1>0, <2>2 DEF CountInv
  <2>4. sched' = sched /\ DOMAIN sched = {}
    BY <1>0, <1>3 DEF LockAndSort, TypeInv, AtRest
  <2>5. /\ \A p : IsFiniteSet(Holders(p)) /\ Scheduled(p) % CountRange = 0
        /\ 0 % CountRange = 0
    BY <2>4, NothingScheduled
  <2>6. \A p : Holders(p)' = Holders(p) /\ Scheduled(p)' = Scheduled(p)
    BY <2>4 DEF Holders, Scheduled
  <2>7. CountsMatchSchedule'
    BY <1>3 DEF LockAndSort, CountsMatchSchedule
  <2> QED
    BY <2>3, <2>5, <2>6, <2>7 DEF CountInv
<1>4. CASE Place
  <2>1. problems[at].id \in IDs(problems) /\ problems' = problems
    BY <1>0, <1>4 DEF Place, AtProblem, TypeInv, TypeOK, IDs
  <2>2. \A p \in ProblemIDs : p # problems[at].id => counts'[p] = counts[p]
    BY <1>0, <1>4 DEF Place
  <2>3. \A p \in ProblemIDs : counts'[p] > 0 => p \in IDs(problems)'
    BY <2>1, <2>2 DEF CountInv
  <2>4. CountsMatchSchedule'
    BY <1>4 DEF Place, AtProblem, CountsMatchSchedule
  <2> QED
    BY <1>0, <1>4, <2>3, <2>4, PlaceCounts DEF CountInv
<1>5. CASE UNCHANGED <<problems, counts, sched, phase>>
  <2>1. IDs(problems)' = IDs(problems)
    BY <1>5
  <2>2. \A p : Holders(p)' = Holders(p) /\ Scheduled(p)' = Scheduled(p)
    BY <1>5 DEF Holders, Scheduled
  <2> QED
    BY <1>a, <1>5, <2>1, <2>2 DEF CountInv
<1>6. CASE (\E h \in Hellos : AddWorker(h)) \/ \E w \in WorkerIDs : RemoveWorker(w)
  BY <1>5, <1>6 DEF AddWorker, RemoveWorker
<1>7. CASE \/ \E w \in WorkerIDs : VisitWorker(w)
           \/ DoesNotFit \/ WorkerDone \/ NextPass
  BY <1>5, <1>7 DEF VisitWorker, DoesNotFit, WorkerDone, NextPass, registry
<1>8. CASE Reset \/ Broadcast
  <2>1. /\ UNCHANGED <<problems, counts>>
        /\ phase' # "fill" /\ IDs(problems)' = IDs(problems)
    BY <1>8 DEF Reset, Broadcast, registry
  <2>2. CountsMatchSchedule'
    BY <1>8, BroadcastCounts DEF Reset, CountsMatchSchedule
  <2> QED
    BY <2>1, <2>2 DEF CountInv
<1>9. CASE ApplyDone \/ \E w \in WorkerIDs, p \in ProblemIDs : ApplyEntry(w, p)
  <2>1. /\ UNCHANGED <<problems, counts, sched>>
        /\ phase = "apply" /\ phase' \in {"apply", "blocked", "sleep"}
    BY <1>9 DEF ApplyEntry, ApplyDone, registry
  <2>2. \A p : Holders(p)' = Holders(p) /\ Scheduled(p)' = Scheduled(p)
    BY <2>1 DEF Holders, Scheduled
  <2>3. IDs(problems)' = IDs(problems)
    BY <2>1
  <2> QED
    BY <2>1, <2>2, <2>3 DEF CountInv, CountsMatchSchedule
<1>10. CASE UNCHANGED vars
  BY <1>5, <1>10 DEF vars, registry
<1> QED
  BY <1>1, <1>2, <1>3, <1>4, <1>6, <1>7, <1>8, <1>9, <1>10
  DEF Next, Callers, SendSchedule

\* Whenever GetProblem can read it, GetInstanceCount shows, modulo the width of
\* the counters, the instances the Schedule has of a problem over all workers,
\* unless they were all told to run none.
THEOREM CountsAreScheduled == Spec => []CountsMatchSchedule
<1>1. Init => CountInv /\ RemovalInv
  <2> SUFFICES ASSUME Init PROVE CountInv /\ RemovalInv
    OBVIOUS
  <2>1. \A p \in ProblemIDs : ~(counts[p] > 0)
    BY DEF Init, Zero
  <2>2. TypeInv
    BY InitType
  <2>3. DOMAIN sched = {} /\ Registered = {}
    BY DEF Init, Registered
  <2> QED
    BY <2>1, <2>2, <2>3
    DEF Init, CountInv, CountsMatchSchedule, RemovalInv, ScheduleKnown, RemovedProblemStopped
<1>2. CountInv => CountsMatchSchedule
  BY DEF CountInv
<1> QED
  BY <1>1, <1>2, InitType, TypeStep, RemovalStep, CountStep, PTL DEF Spec

-----------------------------------------------------------------------------
(* The abstract specification.                                              *)

\* No problem is listed twice.
Distinct == \A i, j \in DOMAIN problems : problems[i] = problems[j] => i = j

\* Deleting one of distinct entries deletes it from the set.
LEMMA WithoutRange ==
  ASSUME NEW s \in Seq(Problems), NEW i \in DOMAIN s,
         \A j, k \in DOMAIN s : s[j] = s[k] => j = k
  PROVE  /\ Range(Without(s, i)) = Range(s) \ {s[i]}
         /\ \A j, k \in DOMAIN Without(s, i) :
              Without(s, i)[j] = Without(s, i)[k] => j = k
<1> DEFINE t == Without(s, i)
<1>1. DOMAIN t = 1 .. Len(s) - 1 /\ Len(s) \in Nat /\ i \in 1 .. Len(s)
  BY DEF Without
<1>2. \A j \in DOMAIN t : t[j] = IF j < i THEN s[j] ELSE s[j + 1]
  BY DEF Without
<1> HIDE DEF t
<1>3. \A j, k \in DOMAIN t : t[j] = t[k] => j = k
  <2> SUFFICES ASSUME NEW j \in DOMAIN t, NEW k \in DOMAIN t, t[j] = t[k] PROVE j = k
    OBVIOUS
  <2> DEFINE a == IF j < i THEN j ELSE j + 1
             b == IF k < i THEN k ELSE k + 1
  <2>1. a \in DOMAIN s /\ b \in DOMAIN s /\ t[j] = s[a] /\ t[k] = s[b]
    BY <1>1, <1>2
  <2>2. a = b
    BY <2>1
  <2> QED
    BY <1>1, <2>2
<1>4. Range(t) \subseteq Range(s) \ {s[i]}
  <2> SUFFICES ASSUME NEW j \in DOMAIN t PROVE t[j] \in Range(s) \ {s[i]}
    BY DEF Range
  <2> DEFINE a == IF j < i THEN j ELSE j + 1
  <2>1. a \in DOMAIN s /\ t[j] = s[a] /\ a # i
    BY <1>1, <1>2
  <2> QED
    BY <2>1 DEF Range
<1>5. Range(s) \ {s[i]} \subseteq Range(t)
  <2> SUFFICES ASSUME NEW j \in DOMAIN s, j # i PROVE s[j] \in Range(t)
    BY DEF Range
  <2> DEFINE b == IF j < i THEN j ELSE j - 1
  <2>1. b \in DOMAIN t /\ t[b] = s[j]
    BY <1>1, <1>2
  <2> QED
    BY <2>1 DEF Range
<1> QED
  BY <1>3, <1>4, <1>5 DEF t

\* Appending a new entry adds it to the set.
LEMMA AppendRange ==
  ASSUME NEW s \in Seq(Problems), NEW p \in Problems
  PROVE  Range(Append(s, p)) = Range(s) \cup {p}
<1>1. /\ DOMAIN Append(s, p) = DOMAIN s \cup {Len(s) + 1}
      /\ \A i \in DOMAIN s : Append(s, p)[i] = s[i]
      /\ Append(s, p)[Len(s) + 1] = p
  OBVIOUS
<1> QED
  BY <1>1 DEF Range

\* Sorting keeps the set of the problems, and keeps them distinct.
LEMMA SortedRange ==
  ASSUME NEW s \in Seq(Problems), NEW t \in SortedProblems(s)
  PROVE  /\ Range(t) = Range(s)
         /\ (\A i, j \in DOMAIN s : s[i] = s[j] => i = j)
              => \A i, j \in DOMAIN t : t[i] = t[j] => i = j
<1>1. PICK f \in Bijection(DOMAIN s, DOMAIN s) : t = [i \in DOMAIN s |-> s[f[i]]]
  BY DEF SortedProblems
<1>2. /\ f \in [DOMAIN s -> DOMAIN s]
      /\ \A i \in DOMAIN s : \E j \in DOMAIN s : f[j] = i
      /\ \A i, j \in DOMAIN s : f[i] = f[j] => i = j
  BY DEF Bijection, Injection, Surjection, IsInjective
<1>3. Range(t) = Range(s)
  BY <1>1, <1>2 DEF Range
<1> QED
  BY <1>1, <1>2, <1>3

\* AddProblem looks before it appends.
LEMMA DistinctStep == Distinct /\ TypeInv /\ [Next]_vars => Distinct'
<1> SUFFICES ASSUME Distinct, TypeInv, [Next]_vars PROVE Distinct'
  OBVIOUS
<1> USE DEF TypeInv, TypeOK, Distinct
<1>1. ASSUME NEW p \in Problems, AddProblem(p) PROVE Distinct'
  <2>1. CASE p \in Range(problems)
    BY <1>1, <2>1 DEF AddProblem
  <2>2. CASE p \notin Range(problems)
    <3>1. /\ DOMAIN problems' = DOMAIN problems \cup {Len(problems) + 1}
          /\ \A i \in DOMAIN problems : problems'[i] = problems[i] /\ problems[i] # p
          /\ problems'[Len(problems) + 1] = p
      BY <1>1, <2>2 DEF AddProblem, Range
    <3> QED
      BY <3>1
  <2> QED
    BY <2>1, <2>2
<1>2. ASSUME NEW id \in ProblemIDs, RemoveProblem(id) PROVE Distinct'
  BY <1>2, WithoutRange DEF RemoveProblem
<1>3. CASE LockAndSort
  BY <1>3, SortedRange DEF LockAndSort
<1>4. CASE UNCHANGED problems
  BY <1>4
<1> QED
  BY <1>1, <1>2, <1>3, <1>4
  DEF Next, Callers, SendSchedule, AddWorker, RemoveWorker, Reset, VisitWorker, Place,
      DoesNotFit, WorkerDone, NextPass, Broadcast, ApplyEntry, ApplyDone, vars, registry

\* Each method and each step of the loops but their last is a step of the
\* one-step packing or changes nothing in it.
LEMMA PackingStep ==
  Distinct /\ TypeInv /\ [Next]_vars => [Packing!Next \/ Broadcast]_(Packing!vars)
<1> SUFFICES ASSUME Distinct, TypeInv, [Next]_vars
             PROVE  Packing!Next \/ Broadcast \/ UNCHANGED Packing!vars
  OBVIOUS
<1> USE DEF Packing!Next, Packing!vars, registry, loopVars
<1>1. ASSUME NEW h \in Hellos, AddWorker(h) PROVE Packing!Join(h)
  BY <1>1 DEF AddWorker, Packing!Join
<1>2. ASSUME NEW w \in WorkerIDs, RemoveWorker(w) PROVE Packing!Leave(w)
  BY <1>2 DEF RemoveWorker, Packing!Leave
<1>3. ASSUME NEW p \in Problems, AddProblem(p) PROVE Packing!Start(p)
  <2>1. Range(problems') = Range(problems) \cup {p}
    BY <1>3, AppendRange DEF AddProblem, TypeInv, TypeOK
  <2> QED
    BY <1>3, <2>1 DEF AddProblem, Packing!Start
<1>4. ASSUME NEW id \in ProblemIDs, RemoveProblem(id)
      PROVE  \E p \in Problems : Packing!Abort(p)
  <2>1. PICK i \in DOMAIN problems :
          problems[i].id = id /\ problems' = Without(problems, i)
    BY <1>4 DEF RemoveProblem
  <2>2. Range(problems') = Range(problems) \ {problems[i]}
    BY <2>1, WithoutRange DEF TypeInv, TypeOK, Distinct
  <2>3. problems[i] \in Problems /\ problems[i] \in Range(problems)
    BY DEF TypeInv, TypeOK, Range
  <2> QED
    BY <1>4, <2>1, <2>2, <2>3 DEF RemoveProblem, ListRemoved, Packing!Abort
<1>5. CASE Reset
  BY <1>5 DEF Reset, Packing!Reset, Packing!Nothing
<1>6. CASE LockAndSort
  <2>1. Range(problems') = Range(problems)
    BY <1>6, SortedRange DEF LockAndSort, TypeInv, TypeOK
  <2> QED
    BY <1>6, <2>1 DEF LockAndSort
<1>7. CASE \/ \E w \in WorkerIDs : VisitWorker(w)
           \/ Place \/ DoesNotFit \/ WorkerDone \/ NextPass
  BY <1>7 DEF VisitWorker, Place, DoesNotFit, AtProblem, WorkerDone, NextPass, PassDone
<1>8. CASE (\E w \in WorkerIDs, p \in ProblemIDs : ApplyEntry(w, p)) \/ ApplyDone
  <2>1. /\ phase \notin {"reset", "fill"} /\ phase' \notin {"reset", "fill"}
        /\ UNCHANGED <<problems, workers, removed, sched>>
    BY <1>8 DEF ApplyEntry, ApplyDone
  <2> QED
    BY <2>1
<1>9. CASE UNCHANGED vars
  BY <1>9 DEF vars
<1> QED
  BY <1>1, <1>2, <1>3, <1>4, <1>5, <1>6, <1>7, <1>8, <1>9 DEF Next, Callers, SendSchedule

\* FillSchedule apart, whose loops end in Broadcast, every step of the code is
\* one of IslandPacking: whoever calls AddWorker, RemoveWorker, AddProblem and
\* RemoveProblem while a schedule is reset, filled or applied sees one change
\* at a time, and no entry of a schedule that is not yet filled.
LEMMA MethodsImplementPacking ==
  Spec => Packing!Init /\ [][Packing!Next \/ Broadcast]_(Packing!vars)
<1>1. Init => Packing!Init
  <2>1. Range(<<>>) = {}
    BY DEF Range
  <2> QED
    BY <2>1 DEF Init, Packing!Init, Packing!Nothing
<1>2. Init => Distinct
  BY DEF Init, Distinct
<1> QED
  BY <1>1, <1>2, InitType, TypeStep, DistinctStep, PackingStep, PTL DEF Spec

-----------------------------------------------------------------------------
(* The loops of FillSchedule pack.                                          *)

\* A fill lists the problems by falling memory.
Sorted ==
  phase = "fill" =>
    \A i, j \in DOMAIN problems : i < j => problems[i].mem >= problems[j].mem

\* Each registered worker has been through some rounds of the packing of its
\* own memory, and the one that is visited through the offers before place at
\* of one more.
PackInv ==
  phase = "fill" =>
    \A w \in Registered :
      \E r \in Nat :
        IF w = cur
          THEN /\ Packing!AfterRounds(problems, workers[w])[r] > 0
               /\ at <= Len(problems) + 1
               /\ Offered(problems, workers[w], sched, w, rem[w], r, at - 1)
          ELSE Offered(problems, workers[w], sched, w, rem[w], r, 0)

\* The methods wait for the end of a fill, so that it is on one list.
LEMMA SortedStep == Sorted /\ TypeInv /\ [Next]_vars => Sorted'
<1> SUFFICES ASSUME Sorted, TypeInv, [Next]_vars, phase' = "fill" PROVE Sorted'
  BY DEF Sorted
<1>1. CASE LockAndSort
  BY <1>1 DEF LockAndSort, SortedProblems, Sorted
<1>2. CASE UNCHANGED <<problems, phase>>
  BY <1>2 DEF Sorted
<1>3. CASE Callers
  BY <1>3
  DEF Callers, AddWorker, RemoveWorker, AddProblem, RemoveProblem, MutFree
<1>4. CASE SendSchedule /\ ~LockAndSort
  BY <1>2, <1>4
  DEF SendSchedule, Reset, VisitWorker, Place, DoesNotFit, WorkerDone, NextPass,
      Broadcast, ApplyEntry, ApplyDone, registry
<1> QED
  BY <1>1, <1>2, <1>3, <1>4 DEF Next, vars, registry

\* The offer that is on is one of the round of the worker that is visited.
LEMMA OfferStep ==
  ASSUME PackInv, TypeInv, AtProblem,
         \/ Place
         \/ DoesNotFit
  PROVE  PackInv'
<1>1. /\ phase = "fill" /\ cur \in Registered /\ at \in DOMAIN problems
      /\ problems \in Seq(Problems) /\ at \in Nat /\ at \in 1 .. Len(problems)
      /\ workers[cur] \in Nat /\ rem[cur] \in Nat /\ problems[at].mem \in Nat
  BY PrelimSchedulerAssumption DEF AtProblem, TypeInv, TypeOK, Registered
<1>2. /\ UNCHANGED <<problems, workers, phase, cur>> /\ at' = at + 1
      /\ \A w : workers[w]' = workers[w]
  BY DEF Place, DoesNotFit, registry
<1>3. Registered' = Registered
  BY <1>2 DEF Registered
<1>4. PICK r \in Nat :
        /\ Packing!AfterRounds(problems, workers[cur])[r] > 0
        /\ Offered(problems, workers[cur], sched, cur, rem[cur], r, at - 1)
  BY <1>1 DEF PackInv
<1>5. Offered(problems, workers[cur], sched', cur, rem'[cur], r, at)
  <2>1. CASE Place
    <3> DEFINE id == problems[at].id
    <3>1. /\ rem[cur] >= problems[at].mem
          /\ sched' = Set(sched, cur, id, Inc(Get(sched, cur, id)))
          /\ rem' = [rem EXCEPT ![cur] = @ - problems[at].mem]
      BY <2>1 DEF Place, Fits, Charged
    <3>2. rem'[cur] = rem[cur] - problems[at].mem
      BY <1>1, <3>1 DEF TypeInv, TypeOK, Registered
    <3>3. Offered(problems, workers[cur], Set(sched, cur, id, Inc(Get(sched, cur, id))), cur,
                  rem[cur] - problems[at].mem, r, at)
      BY <1>1, <1>4, <3>1, OfferTaken
    <3> QED
      BY <3>1, <3>2, <3>3
  <2>2. CASE DoesNotFit
    <3>1. ~(rem[cur] >= problems[at].mem) /\ rem' = rem /\ sched' = sched
      BY <2>2 DEF DoesNotFit, Fits
    <3>2. Offered(problems, workers[cur], sched, cur, rem[cur], r, at)
      BY <1>1, <1>4, <3>1, OfferRefused
    <3> QED
      BY <3>1, <3>2
  <2> QED
    BY <2>1, <2>2
<1>6. ASSUME NEW w \in Registered, w # cur
      PROVE  \E q \in Nat : Offered(problems, workers[w], sched', w, rem'[w], q, 0)
  <2>1. PICK q \in Nat : Offered(problems, workers[w], sched, w, rem[w], q, 0)
    BY <1>1, <1>6 DEF PackInv
  <2>2. CASE Place
    <3>1. PICK id, n : sched' = Set(sched, cur, id, n)
      BY <2>2 DEF Place
    <3>2. rem'[w] = rem[w]
      BY <1>1, <1>6, <2>2 DEF Place, Charged, TypeInv, TypeOK, Registered
    <3>3. Offered(problems, workers[w], Set(sched, cur, id, n), w, rem[w], q, 0)
      BY <1>6, <2>1, OthersOffered
    <3> QED
      BY <3>1, <3>2, <3>3
  <2>3. CASE DoesNotFit
    BY <2>1, <2>3 DEF DoesNotFit
  <2> QED
    BY <2>2, <2>3
<1>7. at' - 1 = at /\ at' <= Len(problems) + 1
  BY <1>1, <1>2
<1> QED
  BY <1>1, <1>2, <1>3, <1>4, <1>5, <1>6, <1>7 DEF PackInv

\* Every step keeps it.
LEMMA PackStep == PackInv /\ TypeInv /\ [Next]_vars => PackInv'
<1> SUFFICES ASSUME PackInv, TypeInv, [Next]_vars, phase' = "fill" PROVE PackInv'
  BY DEF PackInv
<1>0. /\ problems \in Seq(Problems)
      /\ \A w \in Registered : w \in WorkerIDs /\ workers[w] \in Nat /\ rem[w] \in Nat /\ w # None
  BY PrelimSchedulerAssumption DEF TypeInv, TypeOK, Registered
<1>1. CASE LockAndSort
  <2>1. /\ workers' = workers /\ sched' = sched /\ DOMAIN sched = {}
        /\ cur' = cur /\ cur = None
        /\ \A w \in Registered : rem'[w] = workers[w]
    BY <1>1 DEF LockAndSort, TypeInv, TypeOK, AtRest, Registered
  <2>2. problems' \in Seq(Problems)
    BY <1>1, SortedType DEF LockAndSort, TypeInv, TypeOK
  <2>3. ASSUME NEW w \in Registered
        PROVE  Offered(problems', workers[w], sched, w, workers[w], 0, 0)
    BY <1>0, <2>1, <2>2, NothingOffered
  <2>4. Registered' = Registered
    BY <2>1 DEF Registered
  <2> QED
    BY <1>0, <2>1, <2>3, <2>4 DEF PackInv
<1>2. ASSUME NEW v \in WorkerIDs, VisitWorker(v) PROVE PackInv'
  <2>1. /\ phase = "fill" /\ cur = None /\ v \in left /\ v \in Registered
        /\ UNCHANGED <<problems, workers, sched, rem>>
        /\ at' = 1
        /\ cur' = IF rem[v] > 0 THEN v ELSE None
    BY <1>2 DEF VisitWorker, registry, TypeInv, TypeOK
  <2>2. Registered' = Registered
    BY <2>1 DEF Registered
  <2>3. \A w \in Registered : \E r \in Nat :
          Offered(problems, workers[w], sched, w, rem[w], r, 0)
    BY <1>0, <2>1 DEF PackInv
  <2>4. ASSUME NEW w \in Registered, NEW r \in Nat,
               Offered(problems, workers[w], sched, w, rem[w], r, 0)
        PROVE  Packing!AfterRounds(problems, workers[w])[r] = rem[w]
    BY <1>0, <2>4, RoundStart
  <2>5. 1 <= Len(problems) + 1 /\ 1 - 1 = 0
    BY <1>0
  <2> QED
    BY <1>0, <2>1, <2>2, <2>3, <2>4, <2>5 DEF PackInv
<1>3. CASE Place \/ DoesNotFit
  BY <1>3, OfferStep DEF Place, DoesNotFit
<1>4. CASE WorkerDone
  <2>1. /\ phase = "fill" /\ cur # None /\ at > Len(problems) /\ cur' = None
        /\ UNCHANGED <<problems, workers, sched, rem>>
        /\ cur \in Registered /\ at \in Nat
    BY <1>4 DEF WorkerDone, registry, TypeInv, TypeOK
  <2>2. Registered' = Registered
    BY <2>1 DEF Registered
  <2>3. PICK r \in Nat : /\ at <= Len(problems) + 1
                         /\ Offered(problems, workers[cur], sched, cur, rem[cur], r, at - 1)
    BY <2>1 DEF PackInv
  <2>4. at - 1 = Len(problems)
    BY <1>0, <2>1, <2>3
  <2>5. Offered(problems, workers[cur], sched, cur, rem[cur], r + 1, 0) /\ r + 1 \in Nat
    BY <1>0, <2>1, <2>3, <2>4, RoundOffered
  <2>6. \A w \in Registered : \E q \in Nat :
          Offered(problems, workers[w], sched, w, rem[w], q, 0)
    BY <2>1, <2>5 DEF PackInv
  <2> QED
    BY <1>0, <2>1, <2>2, <2>6 DEF PackInv
<1>5. CASE NextPass \/ UNCHANGED vars
  BY <1>5 DEF NextPass, vars, registry, loopVars, PackInv, Registered
<1>6. CASE Callers
  BY <1>6
  DEF Callers, AddWorker, RemoveWorker, AddProblem, RemoveProblem, MutFree
<1>7. CASE Reset \/ Broadcast \/ ApplyDone
  BY <1>7 DEF Reset, Broadcast, ApplyDone
<1>8. CASE \E w \in WorkerIDs, p \in ProblemIDs : ApplyEntry(w, p)
  BY <1>8 DEF ApplyEntry
<1> QED
  BY <1>1, <1>2, <1>3, <1>4, <1>5, <1>6, <1>7, <1>8 DEF Next, SendSchedule

\* The sorted list is one of the orders the packing may take.
LEMMA SortedIsOrder ==
  ASSUME TypeInv, Distinct, Sorted, phase = "fill"
  PROVE  problems \in Packing!Orders
<1> DEFINE D == DOMAIN problems
           S == Range(problems)
<1>1. problems \in [D -> S] /\ D = 1 .. Len(problems) /\ Len(problems) \in Nat
  BY DEF TypeInv, TypeOK, Range
<1>3. ExistsBijection(D, S)
  <2>1. \A y \in S : \E i \in D : problems[i] = y
    BY DEF Range
  <2>2. \A i, j \in D : problems[i] = problems[j] => i = j
    BY DEF Distinct
  <2> QED
    BY <1>1, <2>1, <2>2
    DEF ExistsBijection, Bijection, Injection, Surjection, IsInjective
<1>4. IsFiniteSet(D) /\ Cardinality(D) = Len(problems)
  <2>1. \A n \in Nat : IsFiniteSet(1 .. n) /\ Cardinality(1 .. n) = n
    BY FS_Interval
  <2> QED
    BY <1>1, <2>1
<1>5. Cardinality(S) = Len(problems)
  BY <1>3, <1>4, FS_Bijection
<1>6. \A T : Packing!Cardinality(T) = Cardinality(T)
  BY DEF Packing!Cardinality, Cardinality
<1>7. problems \in Packing!SetToSeqs(S)
  BY <1>1, <1>5, <1>6 DEF Packing!SetToSeqs, Distinct
<1>8. \A i, j \in DOMAIN problems : i < j => problems[i].mem >= problems[j].mem
  BY DEF Sorted
<1> QED
  BY <1>7, <1>8 DEF Packing!Orders

\* The step that ends the loops is the fill of the packing.
LEMMA BroadcastFills ==
  ASSUME TypeInv, ScheduleKnown, FullInv, PackInv, Distinct, Sorted, Broadcast
  PROVE  Packing!Fill
<1> DEFINE ids == {p.id : p \in Range(problems)}
           count == [k \in Registered \X ids |->
                       Packing!Instances(problems, workers[k[1]], k[2])]
           zeroed == Registered \X removed
           placed == {k \in DOMAIN count : count[k] > 0}
<1>1. /\ phase = "fill" /\ cur = None /\ phase' = "apply" /\ removed' = {}
      /\ UNCHANGED <<problems, workers>>
      /\ sched' = [k \in DOMAIN sched \cup zeroed |-> IF k \in zeroed THEN 0 ELSE sched[k]]
  BY DEF Broadcast, PassDone
<1>2. NothingFits /\ PassDone /\ ~changed
  BY FullMeansNothingFits DEF Broadcast
<1>3. /\ problems \in Seq(Problems)
      /\ \A w \in Registered : w \in WorkerIDs /\ workers[w] \in Nat /\ rem[w] \in Nat /\ w # None
      /\ \A i \in DOMAIN problems : problems[i].mem \in Nat /\ problems[i].id \in ProblemIDs
  BY PrelimSchedulerAssumption DEF TypeInv, TypeOK, Registered
<1>4. ASSUME NEW w \in Registered, NEW id \in ProblemIDs
      PROVE  /\ Packing!Instances(problems, workers[w], id) \in Nat
             /\ Get(sched, w, id) = Packing!Instances(problems, workers[w], id) % CountRange
             /\ <<w, id>> \in DOMAIN sched <=> Packing!Instances(problems, workers[w], id) > 0
             /\ <<w, id>> \in DOMAIN sched => id \in ids
  <2>1. PICK r \in Nat : Offered(problems, workers[w], sched, w, rem[w], r, 0)
    BY <1>1, <1>3 DEF PackInv
  <2>2. Full(problems, rem[w])
    BY <1>2, <1>3 DEF NothingFits, Full
  <2>3. (\E i \in DOMAIN problems : problems[i].id = id) => id \in ids
    BY DEF Range
  <2>4. workers[w] \in Nat /\ problems \in Seq(Problems)
    BY <1>3
  <2> HIDE DEF ids
  <2>5. /\ Packing!Instances(problems, workers[w], id) \in Nat
        /\ Get(sched, w, id) = Packing!Instances(problems, workers[w], id) % CountRange
        /\ <<w, id>> \in DOMAIN sched <=> Packing!Instances(problems, workers[w], id) > 0
        /\ <<w, id>> \in DOMAIN sched => \E i \in DOMAIN problems : problems[i].id = id
    BY <2>1, <2>2, <2>4, FullOffered
  <2> QED
    BY <2>3, <2>5
<1>5. ids \subseteq ProblemIDs
  BY <1>3 DEF Range
<1>6. DOMAIN sched = placed
  <2>1. ASSUME NEW k \in DOMAIN sched PROVE k \in placed
    <3>1. k = <<k[1], k[2]>> /\ k[1] \in Registered /\ k[2] \in ProblemIDs
      BY <1>1 DEF ScheduleKnown, TypeInv, TypeOK, Pairs
    <3>2. k[2] \in ids /\ Packing!Instances(problems, workers[k[1]], k[2]) > 0
      BY <1>4, <3>1
    <3> QED
      BY <3>1, <3>2
  <2>2. ASSUME NEW k \in placed PROVE k \in DOMAIN sched
    <3>1. k = <<k[1], k[2]>> /\ k[1] \in Registered /\ k[2] \in ids /\ k[2] \in ProblemIDs
      BY <1>5
    <3>2. Packing!Instances(problems, workers[k[1]], k[2]) > 0
      OBVIOUS
    <3> QED
      BY <1>4, <3>1, <3>2
  <2> QED
    BY <2>1, <2>2
<1>7. \A k \in placed : sched[k] = count[k] % CountRange
  <2> SUFFICES ASSUME NEW k \in placed PROVE sched[k] = count[k] % CountRange
    OBVIOUS
  <2>1. k = <<k[1], k[2]>> /\ k[1] \in Registered /\ k[2] \in ids /\ k[2] \in ProblemIDs
    BY <1>5
  <2>2. Get(sched, k[1], k[2]) = count[k] % CountRange
    BY <1>4, <2>1
  <2>3. Get(sched, k[1], k[2]) = sched[k]
    BY <1>6, <2>1 DEF Get
  <2> QED
    BY <2>2, <2>3
<1> HIDE DEF placed, count, ids
<1>8. sched' = [k \in placed \cup zeroed |->
                  IF k \in zeroed THEN 0 ELSE count[k] % CountRange]
  BY <1>1, <1>6, <1>7
<1>9. problems \in Packing!Orders
  BY <1>1, SortedIsOrder
<1>10. Packing!Registered = Registered
  BY DEF Packing!Registered, Registered
<1>11. (IF phase \in {"reset", "fill"} THEN [k \in {} |-> 0] ELSE sched)' = sched'
  BY <1>1
<1>12. Range(problems)' = Range(problems)
  BY <1>1
<1>13. (phase \in {"reset", "fill"}) /\ (phase \in {"reset", "fill"})' = FALSE
  BY <1>1
<1> HIDE DEF zeroed
<1> DEFINE filled(order) ==
             LET n == [k \in Packing!Registered \X {p.id : p \in Range(problems)} |->
                         Packing!Instances(order, workers[k[1]], k[2])]
                 z == Packing!Registered \X removed
             IN  [k \in {k \in DOMAIN n : n[k] > 0} \cup z |->
                    IF k \in z THEN 0 ELSE n[k] % CountRange]
<1>14. filled(problems) = sched'
  BY <1>8, <1>10 DEF placed, count, ids, zeroed
<1>15. \E order \in Packing!Orders :
         (IF phase \in {"reset", "fill"} THEN [k \in {} |-> 0] ELSE sched)' = filled(order)
  <2> HIDE DEF filled
  <2> QED
    BY <1>9, <1>11, <1>14
<1> QED
  BY <1>1, <1>12, <1>13, <1>15 DEF Packing!Fill

\* FillSchedule's loops, and every method that is called around them, implement
\* the packing: its rounds over all workers give each the instances of its own.
THEOREM FillImplementsPacking == Spec => PackingImplemented
<1>1. Init => Distinct /\ Sorted /\ FullInv /\ PackInv /\ ScheduleKnown /\ RemovedProblemStopped
  <2> SUFFICES ASSUME Init
               PROVE  Distinct /\ Sorted /\ FullInv /\ PackInv /\ ScheduleKnown /\ RemovedProblemStopped
    OBVIOUS
  <2>1. phase = "sleep" /\ problems = <<>> /\ DOMAIN sched = {} /\ Registered = {}
    BY DEF Init, Registered
  <2> QED
    BY <2>1 DEF Distinct, Sorted, FullInv, PackInv, ScheduleKnown, RemovedProblemStopped
<1>2. Init /\ TypeInv => RemovalInv
  BY <1>1 DEF RemovalInv
<1>3. RemovalInv => ScheduleKnown
  BY DEF RemovalInv
<1>4. /\ TypeInv /\ RemovalInv /\ FullInv /\ PackInv /\ Distinct /\ Sorted
      /\ [Packing!Next \/ Broadcast]_(Packing!vars)
      => [Packing!Next]_(Packing!vars)
  BY <1>3, BroadcastFills DEF Packing!Next
<1>5. Packing!Init /\ [][Packing!Next]_(Packing!vars) => PackingImplemented
  BY DEF PackingImplemented, Packing!Spec
<1> QED
  BY <1>1, <1>2, <1>4, <1>5, MethodsImplementPacking, InitType, TypeStep, RemovalStep, FullStep,
     DistinctStep, SortedStep, PackStep, PTL DEF Spec
=============================================================================
