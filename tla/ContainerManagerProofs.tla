----------------------- MODULE ContainerManagerProofs -----------------------
(***************************************************************************)
(* Proofs about ContainerManager, for any sets of problems, incarnations   *)
(* and containers and any finite set of containerIDs.                      *)
(***************************************************************************)
EXTENDS ContainerManager, FiniteSetTheorems, TLAPS

\* Every step keeps the types.
LEMMA TypeStep == TypeOK /\ [Next]_vars => TypeOK'
<1> SUFFICES ASSUME TypeOK, [Next]_vars PROVE TypeOK'
  OBVIOUS
<1> USE DEF TypeOK, Alive, tableVars, contVars
<1>1. CASE Manager
  <2>1. ASSUME NEW q \in ProblemIDs, NewProblem(q)
       PROVE  TypeOK'
    BY <2>1 DEF NewProblem
  <2>2. ASSUME NEW q \in ProblemIDs, NEW i \in Incs, TrackProblem(q, i)
       PROVE  TypeOK'
    BY <2>2 DEF TrackProblem
  <2>3. ASSUME NEW q \in ProblemIDs, UntrackProblem(q)
       PROVE  TypeOK'
    BY <2>3 DEF UntrackProblem
  <2>4. ASSUME NEW q \in ProblemIDs, NEW n \in 1 .. MaxInstances, Grow(q, n)
       PROVE  TypeOK'
    <3>1. Len(table[q]) \in Nat
      BY FS_Subset, FS_CardinalityType, ContainerManagerAssumption DEF Len, Used
    <3>2. n - Len(table[q]) \in 1 .. MaxInstances
      BY <2>4, <3>1, ContainerManagerAssumption DEF Grow
    <3>3. GrowOp(q, n - Len(table[q])) \in Ops
      BY <3>2 DEF GrowOp, Ops
    <3> QED
      BY <2>4, <3>3 DEF Grow
  <2>5. ASSUME NEW q \in ProblemIDs, NEW ids \in SUBSET IDs, Shrink(q, ids)
       PROVE  TypeOK'
    <3>1. table[q] \in Incs
      BY <2>5 DEF Shrink
    <3>2. stopped' \subseteq Conts
      BY <2>5, <3>1 DEF Shrink, Used
    <3>3. slots' \in [Incs -> [IDs -> Conts \cup {None}]]
      BY <2>5, <3>1 DEF Shrink
    <3> QED
      BY <2>5, <3>2, <3>3 DEF Shrink
  <2>6. ASSUME NEW q \in ProblemIDs, Incorporate(q)
       PROVE  TypeOK'
    <3>1. op' \in Ops \cup {None}
      BY <2>6 DEF Incorporate, Used, CallOp, Ops
    <3> QED
      BY <2>6, <3>1 DEF Incorporate
  <2> QED
    BY <1>1, <2>1, <2>2, <2>3, <2>4, <2>5, <2>6 DEF Manager
<1>2. CASE Holder
  <2>1. ASSUME NEW k \in Conts, NEW id \in IDs, Launch(k, id)
       PROVE  TypeOK'
    <3>1. op.prob \in ProblemIDs /\ op.left \in 1 .. MaxInstances
      BY <2>1 DEF Launch, Growing, Ops
    <3>2. op.left # 1 => op.left - 1 \in 1 .. MaxInstances
      BY <3>1, ContainerManagerAssumption
    <3>3. op' \in Ops \cup {None}
      BY <2>1, <3>1, <3>2 DEF Launch, GrowOp, Ops
    <3>4. /\ owner' \in [Conts -> Incs \cup {None}]
          /\ slots' \in [Incs -> [IDs -> Conts \cup {None}]]
      BY <2>1, <3>1, ContainerManagerAssumption DEF Launch
    <3> QED
      BY <2>1, <3>3, <3>4 DEF Launch
  <2>2. CASE LaunchFails
    BY <2>2 DEF LaunchFails
  <2>3. ASSUME NEW k \in Conts, LaunchLoses(k)
       PROVE  TypeOK'
    <3>1. op.prob \in ProblemIDs
      BY <2>3 DEF LaunchLoses, Growing, Ops
    <3> QED
      BY <2>3, <3>1 DEF LaunchLoses
  <2>4. CASE CallFails
    BY <2>4 DEF CallFails
  <2>5. CASE CallReturns("seed", "random")
    <3>1. op.cont \in Conts
      BY <2>5 DEF CallReturns, Calling, Ops
    <3> QED
      BY <2>5, <3>1 DEF CallReturns, CallOp, Ops
  <2>6. CASE CallReturns("random", "reply")
    <3>1. op.cont \in Conts
      BY <2>6 DEF CallReturns, Calling, Ops
    <3> QED
      BY <2>6, <3>1 DEF CallReturns, CallOp, Ops
  <2>7. CASE PushReply
    BY <2>7 DEF PushReply
  <2> QED
    BY <1>2, <2>1, <2>2, <2>3, <2>4, <2>5, <2>6, <2>7 DEF Holder
<1>3. ASSUME NEW k \in Conts, Container(k) PROVE TypeOK'
  <2>1. CASE StopContainer(k)
    BY <2>1 DEF StopContainer
  <2>2. CASE StopContainerFails(k)
    BY <2>2 DEF StopContainerFails
  <2>3. CASE ContainerExits(k)
    BY <2>3 DEF ContainerExits
  <2>4. CASE RunGenerations(k)
    BY <2>4 DEF RunGenerations
  <2>5. CASE GetBestPopulation(k)
    BY <2>5 DEF GetBestPopulation
  <2>6. CASE PushEmigration(k)
    BY <2>6 DEF PushEmigration
  <2> QED
    BY <1>3, <2>1, <2>2, <2>3, <2>4, <2>5, <2>6 DEF Container, Generations
<1>4. CASE UNCHANGED vars
  BY <1>4 DEF vars
<1> QED
  BY <1>1, <1>2, <1>3, <1>4 DEF Next

\* Type correctness of the container manager.
THEOREM TypeCorrect == Spec => []TypeOK
<1>1. Init => TypeOK
  BY DEF Init, TypeOK
<1> QED
  BY <1>1, TypeStep, PTL DEF Spec

-----------------------------------------------------------------------------
(* The inductive invariant.                                                 *)

\* The problems in the table are known, their contexts are valid, and no two
\* of them share an incarnation.
TrackedIsLive ==
  /\ \A p \in ProblemIDs : table[p] # None => p \in known /\ table[p] \in live
  /\ \A p, q \in ProblemIDs : table[p] # None /\ table[p] = table[q] => p = q

\* A valid context is that of a problem in the table.
LiveIsTracked ==
  \A i \in live : \E p \in ProblemIDs : table[p] = i

\* A container has one entry at most, in the incarnation that launched it, and
\* was not stopped on its own while it has one, nor before it was launched.
EntriesRun ==
  /\ \A i \in Incs : \A id \in IDs : slots[i][id] # None =>
       /\ owner[slots[i][id]] = i
       /\ slots[i][id] \notin stopped
       /\ \A other \in IDs : slots[i][other] = slots[i][id] => other = id
  /\ \A k \in stopped : owner[k] # None

\* While a method that holds pcMut is out of the process, in Podman or in a
\* container, nothing untracks the problem or stops the container it uses.
HolderUndisturbed ==
  op # None =>
    IF op.kind = "grow" THEN table[op.prob] \in live ELSE ~Done(op.cont)

ManagerInv ==
  /\ TypeOK
  /\ TrackedIsLive
  /\ LiveIsTracked
  /\ EntriesRun
  /\ HolderUndisturbed

\* Every step keeps the table.
LEMMA TableStep == ManagerInv /\ TypeOK' /\ [Next]_vars => TrackedIsLive' /\ LiveIsTracked'
<1> SUFFICES ASSUME ManagerInv, TypeOK', [Next]_vars
             PROVE  TrackedIsLive' /\ LiveIsTracked'
  OBVIOUS
<1> USE ContainerManagerAssumption
    DEF ManagerInv, TrackedIsLive, LiveIsTracked, tableVars
<1> USE DEF TypeOK
<1>1. CASE Manager
  <2>1. ASSUME NEW q \in ProblemIDs, NewProblem(q)
       PROVE  TrackedIsLive' /\ LiveIsTracked'
    BY <2>1 DEF NewProblem
  <2>2. ASSUME NEW q \in ProblemIDs, NEW i \in Incs, TrackProblem(q, i)
       PROVE  TrackedIsLive' /\ LiveIsTracked'
    BY <2>2 DEF TrackProblem
  <2>3. ASSUME NEW q \in ProblemIDs, UntrackProblem(q)
       PROVE  TrackedIsLive' /\ LiveIsTracked'
    BY <2>3 DEF UntrackProblem
  <2>4. ASSUME NEW q \in ProblemIDs, NEW n \in 1 .. MaxInstances, Grow(q, n)
       PROVE  TrackedIsLive' /\ LiveIsTracked'
    BY <2>4 DEF Grow
  <2>5. ASSUME NEW q \in ProblemIDs, NEW ids \in SUBSET IDs, Shrink(q, ids)
       PROVE  TrackedIsLive' /\ LiveIsTracked'
    BY <2>5 DEF Shrink
  <2>6. ASSUME NEW q \in ProblemIDs, Incorporate(q)
       PROVE  TrackedIsLive' /\ LiveIsTracked'
    BY <2>6 DEF Incorporate
  <2> QED
    BY <1>1, <2>1, <2>2, <2>3, <2>4, <2>5, <2>6 DEF Manager
<1>2. CASE Holder
  <2>1. ASSUME NEW k \in Conts, NEW id \in IDs, Launch(k, id)
       PROVE  TrackedIsLive' /\ LiveIsTracked'
    BY <2>1 DEF Launch
  <2>2. CASE LaunchFails
    BY <2>2 DEF LaunchFails
  <2>3. ASSUME NEW k \in Conts, LaunchLoses(k)
       PROVE  TrackedIsLive' /\ LiveIsTracked'
    BY <2>3 DEF LaunchLoses
  <2>4. CASE CallFails
    BY <2>4 DEF CallFails
  <2>5. CASE CallReturns("seed", "random")
    BY <2>5 DEF CallReturns
  <2>6. CASE CallReturns("random", "reply")
    BY <2>6 DEF CallReturns
  <2>7. CASE PushReply
    BY <2>7 DEF PushReply
  <2> QED
    BY <1>2, <2>1, <2>2, <2>3, <2>4, <2>5, <2>6, <2>7 DEF Holder
<1>3. ASSUME NEW k \in Conts, Container(k) PROVE TrackedIsLive' /\ LiveIsTracked'
  <2>1. CASE StopContainer(k)
    BY <2>1 DEF StopContainer
  <2>2. CASE StopContainerFails(k)
    BY <2>2 DEF StopContainerFails
  <2>3. CASE ContainerExits(k)
    BY <2>3 DEF ContainerExits
  <2>4. CASE RunGenerations(k)
    BY <2>4 DEF RunGenerations
  <2>5. CASE GetBestPopulation(k)
    BY <2>5 DEF GetBestPopulation
  <2>6. CASE PushEmigration(k)
    BY <2>6 DEF PushEmigration
  <2> QED
    BY <1>3, <2>1, <2>2, <2>3, <2>4, <2>5, <2>6 DEF Container, Generations
<1>4. CASE UNCHANGED vars
  BY <1>4 DEF vars
<1> QED
  BY <1>1, <1>2, <1>3, <1>4 DEF Next

\* Every step keeps the entries.
LEMMA EntriesStep == ManagerInv /\ TypeOK' /\ [Next]_vars => EntriesRun'
<1> SUFFICES ASSUME ManagerInv, TypeOK', [Next]_vars PROVE EntriesRun'
  OBVIOUS
<1> USE ContainerManagerAssumption DEF ManagerInv, EntriesRun, TypeOK, tableVars, contVars
<1>1. CASE Manager
  <2>1. ASSUME NEW q \in ProblemIDs, NewProblem(q)
       PROVE  EntriesRun'
    BY <2>1 DEF NewProblem
  <2>2. ASSUME NEW q \in ProblemIDs, NEW i \in Incs, TrackProblem(q, i)
       PROVE  EntriesRun'
    BY <2>2 DEF TrackProblem
  <2>3. ASSUME NEW q \in ProblemIDs, UntrackProblem(q)
       PROVE  EntriesRun'
    BY <2>3 DEF UntrackProblem
  <2>4. ASSUME NEW q \in ProblemIDs, NEW n \in 1 .. MaxInstances, Grow(q, n)
       PROVE  EntriesRun'
    BY <2>4 DEF Grow
  <2>5. ASSUME NEW q \in ProblemIDs, NEW ids \in SUBSET IDs, Shrink(q, ids)
       PROVE  EntriesRun'
    <3>1. /\ table[q] \in Incs
          /\ \A id \in ids : id \in IDs /\ slots[table[q]][id] # None
      BY <2>5 DEF Shrink, Used
    <3> SUFFICES ASSUME NEW j \in Incs, NEW id \in IDs, slots'[j][id] # None
                 PROVE  /\ owner'[slots'[j][id]] = j
                        /\ slots'[j][id] \notin stopped'
                        /\ \A other \in IDs : slots'[j][other] = slots'[j][id] => other = id
      BY <2>5, <3>1 DEF Shrink
    <3>2. /\ slots'[j][id] = slots[j][id]
          /\ j = table[q] => id \notin ids
      BY <2>5, <3>1 DEF Shrink
    <3>3. \A other \in IDs : slots'[j][other] \in {slots[j][other], None}
      BY <2>5, <3>1 DEF Shrink
    <3>4. slots[j][id] \notin {slots[table[q]][other] : other \in ids}
      <4> SUFFICES ASSUME NEW other \in ids, slots[j][id] = slots[table[q]][other]
                   PROVE  FALSE
        OBVIOUS
      <4>1. slots[j][id] # None
        BY <3>2
      <4>2. owner[slots[j][id]] = j /\ owner[slots[table[q]][other]] = table[q]
        BY <3>1, <4>1
      <4>3. id = other
        BY <3>1, <4>1, <4>2
      <4> QED
        BY <3>2, <4>2, <4>3
    <3> QED
      BY <2>5, <3>2, <3>3, <3>4 DEF Shrink
  <2>6. ASSUME NEW q \in ProblemIDs, Incorporate(q)
       PROVE  EntriesRun'
    BY <2>6 DEF Incorporate
  <2> QED
    BY <1>1, <2>1, <2>2, <2>3, <2>4, <2>5, <2>6 DEF Manager
<1>2. CASE Holder
  <2>1. ASSUME NEW k \in Conts, NEW id \in IDs, Launch(k, id)
       PROVE  EntriesRun'
    <3>1. table[op.prob] \in Incs /\ op.prob \in ProblemIDs
      BY <2>1 DEF Launch, Growing, HolderUndisturbed, Ops
    <3>2. owner[k] = None
      BY <2>1 DEF Launch, NextUnused
    <3>3. /\ owner' = [owner EXCEPT ![k] = table[op.prob]]
          /\ slots' = [slots EXCEPT ![table[op.prob]][id] = k]
          /\ UNCHANGED stopped
      BY <2>1 DEF Launch
    <3>4. k \notin stopped
      BY <3>2
    <3>5. \A j \in Incs, other \in IDs : slots[j][other] # k
      BY <3>2, ContainerManagerAssumption
    <3>6. \A j \in Incs, other \in IDs :
            slots'[j][other] = IF j = table[op.prob] /\ other = id THEN k ELSE slots[j][other]
      BY <3>1, <3>3
    <3>7. \A j \in Conts : owner'[j] = IF j = k THEN table[op.prob] ELSE owner[j]
      BY <3>3
    <3>10. \A j \in stopped' : owner'[j] # None
      BY <3>1, <3>3, <3>7
    <3> SUFFICES ASSUME NEW j \in Incs, NEW d \in IDs, slots'[j][d] # None
                 PROVE  /\ owner'[slots'[j][d]] = j
                        /\ slots'[j][d] \notin stopped'
                        /\ \A other \in IDs : slots'[j][other] = slots'[j][d] => other = d
      BY <3>10, Zenon
    <3>8. CASE j = table[op.prob] /\ d = id
      BY <3>3, <3>4, <3>5, <3>6, <3>7, <3>8
    <3>9. CASE ~(j = table[op.prob] /\ d = id)
      <4>1. slots'[j][d] = slots[j][d] /\ slots[j][d] \in Conts \ {k}
        <5>1. slots'[j][d] = slots[j][d]
          BY <3>6, <3>9
        <5>2. slots[j][d] \in Conts \cup {None}
          OBVIOUS
        <5> QED
          BY <3>5, <5>1, <5>2
      <4>2. owner'[slots[j][d]] = j /\ slots[j][d] \notin stopped
        BY <3>7, <4>1
      <4>3. ASSUME NEW other \in IDs, slots'[j][other] = slots[j][d]
            PROVE  other = d
        BY <3>6, <4>1, <4>3
      <4> QED
        BY <3>3, <4>1, <4>2, <4>3
    <3> QED
      BY <3>8, <3>9
  <2>2. CASE LaunchFails
    BY <2>2 DEF LaunchFails
  <2>3. ASSUME NEW k \in Conts, LaunchLoses(k)
       PROVE  EntriesRun'
    <3>1. table[op.prob] \in Incs /\ op.prob \in ProblemIDs
      BY <2>3 DEF LaunchLoses, Growing, HolderUndisturbed, Ops
    <3>2. owner[k] = None
      BY <2>3 DEF LaunchLoses, NextUnused
    <3> QED
      BY <2>3, <3>1, <3>2 DEF LaunchLoses
  <2>4. CASE CallFails
    BY <2>4 DEF CallFails
  <2>5. CASE CallReturns("seed", "random")
    BY <2>5 DEF CallReturns
  <2>6. CASE CallReturns("random", "reply")
    BY <2>6 DEF CallReturns
  <2>7. CASE PushReply
    BY <2>7 DEF PushReply
  <2> QED
    BY <1>2, <2>1, <2>2, <2>3, <2>4, <2>5, <2>6, <2>7 DEF Holder
<1>3. ASSUME NEW k \in Conts, Container(k) PROVE EntriesRun'
  <2>1. CASE StopContainer(k)
    BY <2>1 DEF StopContainer
  <2>2. CASE StopContainerFails(k)
    BY <2>2 DEF StopContainerFails
  <2>3. CASE ContainerExits(k)
    BY <2>3 DEF ContainerExits
  <2>4. CASE RunGenerations(k)
    BY <2>4 DEF RunGenerations
  <2>5. CASE GetBestPopulation(k)
    BY <2>5 DEF GetBestPopulation
  <2>6. CASE PushEmigration(k)
    BY <2>6 DEF PushEmigration
  <2> QED
    BY <1>3, <2>1, <2>2, <2>3, <2>4, <2>5, <2>6 DEF Container, Generations
<1>4. CASE UNCHANGED vars
  BY <1>4 DEF vars
<1> QED
  BY <1>1, <1>2, <1>3, <1>4 DEF Next

\* Every step leaves the holder of pcMut undisturbed.
LEMMA HolderStep == ManagerInv /\ TypeOK' /\ [Next]_vars => HolderUndisturbed'
<1> SUFFICES ASSUME ManagerInv, TypeOK', [Next]_vars PROVE HolderUndisturbed'
  OBVIOUS
<1> USE ContainerManagerAssumption
    DEF ManagerInv, HolderUndisturbed, Done, TypeOK, tableVars, contVars
<1>1. CASE Manager
  <2>1. ASSUME NEW q \in ProblemIDs, NewProblem(q)
       PROVE  HolderUndisturbed'
    BY <2>1 DEF NewProblem
  <2>2. ASSUME NEW q \in ProblemIDs, NEW i \in Incs, TrackProblem(q, i)
       PROVE  HolderUndisturbed'
    BY <2>2 DEF TrackProblem
  <2>3. ASSUME NEW q \in ProblemIDs, UntrackProblem(q)
       PROVE  HolderUndisturbed'
    BY <2>3 DEF UntrackProblem
  <2>4. ASSUME NEW q \in ProblemIDs, NEW n \in 1 .. MaxInstances, Grow(q, n)
       PROVE  HolderUndisturbed'
    BY <2>4 DEF Grow, GrowOp, TrackedIsLive
  <2>5. ASSUME NEW q \in ProblemIDs, NEW ids \in SUBSET IDs, Shrink(q, ids)
       PROVE  HolderUndisturbed'
    BY <2>5 DEF Shrink
  <2>6. ASSUME NEW q \in ProblemIDs, Incorporate(q)
       PROVE  HolderUndisturbed'
    <3>1. CASE op' = None
      BY <3>1
    <3>2. ASSUME NEW id \in Used(table[q]), op' = CallOp("seed", slots[table[q]][id])
          PROVE  HolderUndisturbed'
      <4>1. table[q] \in Incs /\ table[q] \in live
        BY <2>6 DEF Incorporate, TrackedIsLive
      <4>2. slots[table[q]][id] \notin stopped /\ owner[slots[table[q]][id]] = table[q]
        BY <4>1 DEF Used, EntriesRun
      <4> QED
        BY <2>6, <3>2, <4>1, <4>2 DEF Incorporate, CallOp
    <3> QED
      BY <2>6, <3>1, <3>2 DEF Incorporate
  <2> QED
    BY <1>1, <2>1, <2>2, <2>3, <2>4, <2>5, <2>6 DEF Manager
<1>2. CASE Holder
  <2>1. ASSUME NEW k \in Conts, NEW id \in IDs, Launch(k, id)
       PROVE  HolderUndisturbed'
    BY <2>1 DEF Launch, Growing, GrowOp
  <2>2. CASE LaunchFails
    BY <2>2 DEF LaunchFails
  <2>3. ASSUME NEW k \in Conts, LaunchLoses(k)
       PROVE  HolderUndisturbed'
    BY <2>3 DEF LaunchLoses, Growing
  <2>4. CASE CallFails
    BY <2>4 DEF CallFails
  <2>5. CASE CallReturns("seed", "random")
    BY <2>5 DEF CallReturns, Calling, CallOp
  <2>6. CASE CallReturns("random", "reply")
    BY <2>6 DEF CallReturns, Calling, CallOp
  <2>7. CASE PushReply
    BY <2>7 DEF PushReply
  <2> QED
    BY <1>2, <2>1, <2>2, <2>3, <2>4, <2>5, <2>6, <2>7 DEF Holder
<1>3. ASSUME NEW k \in Conts, Container(k) PROVE HolderUndisturbed'
  <2>1. CASE StopContainer(k)
    BY <2>1 DEF StopContainer
  <2>2. CASE StopContainerFails(k)
    BY <2>2 DEF StopContainerFails
  <2>3. CASE ContainerExits(k)
    BY <2>3 DEF ContainerExits
  <2>4. CASE RunGenerations(k)
    BY <2>4 DEF RunGenerations
  <2>5. CASE GetBestPopulation(k)
    BY <2>5 DEF GetBestPopulation
  <2>6. CASE PushEmigration(k)
    BY <2>6 DEF PushEmigration
  <2> QED
    BY <1>3, <2>1, <2>2, <2>3, <2>4, <2>5, <2>6 DEF Container, Generations
<1>4. CASE UNCHANGED vars
  BY <1>4 DEF vars
<1> QED
  BY <1>1, <1>2, <1>3, <1>4 DEF Next

-----------------------------------------------------------------------------
\* The container manager's locking: a container runs only for the incarnation
\* in the table, and the table's entries run, for any number of problems and
\* containers.
THEOREM ManagerSafe ==
  Spec => [](OnlyTrackedRun /\ TableHoldsRunning)
<1>1. Init => ManagerInv
  <2> SUFFICES ASSUME Init PROVE ManagerInv
    OBVIOUS
  <2>1. TypeOK
    BY DEF Init, TypeOK
  <2> QED
    BY <2>1 DEF Init, ManagerInv, TrackedIsLive, LiveIsTracked, EntriesRun,
                HolderUndisturbed
<1>2. ManagerInv /\ TypeOK' /\ [Next]_vars => ManagerInv'
  BY TableStep, EntriesStep, HolderStep DEF ManagerInv
<1>3. ManagerInv => OnlyTrackedRun /\ TableHoldsRunning
  <2> SUFFICES ASSUME ManagerInv PROVE OnlyTrackedRun /\ TableHoldsRunning
    BY DEF ManagerInv
  <2>1. ASSUME NEW k \in Conts, owner[k] # None, ~Done(k)
        PROVE  \E p \in known : table[p] = owner[k]
    <3>1. PICK p \in ProblemIDs : table[p] = owner[k]
      BY <2>1 DEF ManagerInv, LiveIsTracked, Done
    <3> QED
      BY <2>1, <3>1 DEF ManagerInv, TrackedIsLive
  <2>2. ASSUME NEW p \in ProblemIDs, table[p] # None, NEW id \in Used(table[p])
        PROVE  /\ owner[slots[table[p]][id]] = table[p]
               /\ ~Done(slots[table[p]][id])
               /\ \A other \in Used(table[p]) :
                    slots[table[p]][other] = slots[table[p]][id] => other = id
    <3>1. table[p] \in Incs /\ table[p] \in live
      BY <2>2 DEF ManagerInv, TypeOK, TrackedIsLive
    <3> QED
      BY <2>2, <3>1 DEF ManagerInv, EntriesRun, Used, Done
  <2> QED
    BY <2>1, <2>2 DEF OnlyTrackedRun, TableHoldsRunning
<1> QED
  BY <1>1, <1>2, <1>3, TypeCorrect, PTL DEF Spec
=============================================================================
