----------------------- MODULE ProblemLifecycleProofs -----------------------
(***************************************************************************)
(* Proofs about ProblemLifecycle, for any number of concurrent requests    *)
(* and any metadata.                                                       *)
(***************************************************************************)
EXTENDS ProblemLifecycle, TLAPS

-----------------------------------------------------------------------------
(* The inductive invariant.                                                 *)

\* RegisterProblem has metadata, RegisterImage finds it in the store, and a
\* launch keeps its problem tracked.
StoreInv ==
  \A r \in Reqs :
    /\ pc[r] = "newProblem" => arg[r] # Zero
    /\ pc[r] = "registerImage" => store # None
    /\ pc[r] = "launch" => tracked

\* Requests come one at a time; outside of RegisterProblem the store has the
\* image's path.
OneAtATime ==
  /\ \A q, r \in Reqs : pc[q] # "idle" /\ pc[r] # "idle" => q = r
  /\ store # None /\ (\A r \in Reqs : pc[r] # "registerImage") => store.path

\* Every entry of the scheduler is what the store has or will have again, and
\* so is what a request has read.
EntriesFromStore ==
  /\ \A e \in entries \ {Zero} :
       store # None /\ e.memory = store.memory /\ e.path
  /\ \A r \in Reqs :
       pc[r] \in {"addProblem", "trackProblem", "getInstanceCount"} => arg[r] = store

\* How far the scheduler and the container manager agree between the two calls
\* of a request.
CallsInStep ==
  /\ \A r \in Reqs :
       /\ pc[r] = "trackProblem" /\ arg[r] # Zero => Scheduled
       /\ pc[r] \in {"event", "launch"} => Scheduled /\ tracked
       /\ pc[r] = "untrackProblem" => ~Scheduled
       /\ pc[r] = "removeLast" => ~tracked
  /\ (\A r \in Reqs : pc[r] \notin {"trackProblem", "untrackProblem", "removeLast"})
       => (Scheduled <=> tracked)

\* What GetProblem has read.
ReadsAgree ==
  \A r \in Reqs :
    /\ pc[r] = "isRunning" /\ shown[r].count => tracked
    /\ pc[r] = "idle" /\ shown[r].count => shown[r].running

\* Only a scheduled problem is counted, and only GetProblem reads the count.
CountsInv ==
  /\ counted => Scheduled
  /\ \A r \in Reqs : pc[r] \notin {"idle", "isRunning"} => ~shown[r].count

SerialInv == OneByOne => OneAtATime /\ EntriesFromStore /\ CallsInStep /\ ReadsAgree

Inv == TypeOK /\ StoreInv /\ CountsInv /\ BareOnlyWhileStarting /\ SerialInv

-----------------------------------------------------------------------------
\* The initial values have their types, and no request is in progress.
LEMMA InitInv == Init => Inv
<1> SUFFICES ASSUME Init PROVE Inv
  OBVIOUS
<1>1. TypeOK
  <2>1. /\ pc \in [Reqs -> Labels]
        /\ arg \in [Reqs -> Problems \cup {Zero}]
        /\ shown \in [Reqs -> [count : BOOLEAN, running : BOOLEAN]]
    BY DEF Init, Labels
  <2>2. \A r \in Reqs : pc[r] = "launch" <=> holder = r
    BY ProblemLifecycleAssumption DEF Init
  <2>3. /\ store = None /\ entries = {} /\ holder = None /\ made = 0
        /\ ~tracked /\ ~island
    BY DEF Init
  <2>4. /\ listed \in BOOLEAN /\ counted \in BOOLEAN
        /\ told \in BOOLEAN /\ ran \in BOOLEAN
        /\ tracked \in BOOLEAN /\ island \in BOOLEAN
        /\ fault \in BOOLEAN /\ overlap \in BOOLEAN /\ again \in BOOLEAN /\ failed \in BOOLEAN
    BY DEF Init
  <2>5. entries \subseteq Problems \cup {Zero} /\ made \in 0 .. MaxReqs
    BY <2>3, ProblemLifecycleAssumption
  <2>6. round = "sleep" /\ adj = "none" /\ busy = FALSE
    BY DEF Init
  <2> QED
    BY <2>1, <2>2, <2>3, <2>4, <2>5, <2>6 DEF TypeOK
<1>2. StoreInv /\ CountsInv /\ BareOnlyWhileStarting
  BY DEF Init, StoreInv, CountsInv, BareOnlyWhileStarting
<1>3. SerialInv
  BY DEF Init, SerialInv, OneAtATime, EntriesFromStore, CallsInStep, ReadsAgree,
         Scheduled, Zero
<1> QED
  BY <1>1, <1>2, <1>3 DEF Inv

\* Every step keeps the types.
LEMMA TypeStep == TypeOK /\ StoreInv /\ [Next]_vars => TypeOK'
<1> SUFFICES ASSUME TypeOK, StoreInv, [Next]_vars PROVE TypeOK'
  OBVIOUS
<1> USE ProblemLifecycleAssumption DEF TypeOK, Labels, schedVars, contVars, reqVars
<1>1. ASSUME NEW r \in Reqs, NEW v \in Versions, RegisterProblem(r, v)
      PROVE  TypeOK'
  BY <1>1 DEF RegisterProblem, Request, Goto, Problem, Problems
<1>2. ASSUME NEW r \in Reqs, OtherRequest(r) PROVE TypeOK'
  BY <1>2 DEF OtherRequest, Request, Goto
<1>3. ASSUME NEW r \in Reqs, Step(r) PROVE TypeOK'
  <2>1. CASE NewProblem(r)
    BY <2>1 DEF NewProblem, Goto, StoreInv, Problems, Zero
  <2>2. CASE RegisterImage(r)
    <3>1. store \in Problems
      BY <2>2 DEF RegisterImage, Goto, StoreInv
    <3>2. [store EXCEPT !.path = TRUE] \in Problems
      BY <3>1 DEF Problems
    <3>3. store' \in Problems /\ store' # None
      <4>1. store' \in Problems
        BY <2>2, <3>2 DEF RegisterImage
      <4> QED
        BY <4>1 DEF Problems
    <3> QED
      BY <2>2, <3>3 DEF RegisterImage, Goto
  <2>3. CASE GetMetadata(r)
    <3>1. arg' \in [Reqs -> Problems \cup {Zero}]
      BY <2>3 DEF GetMetadata, Zero
    <3>2. pc' \in [Reqs -> Labels] /\ \A q \in Reqs : pc'[q] = "launch" <=> holder = q
      BY <2>3 DEF GetMetadata, Goto
    <3> QED
      BY <2>3, <3>1, <3>2 DEF GetMetadata
  <2>4. CASE AddProblem(r)
    BY <2>4 DEF AddProblem, Goto, Problems
  <2>5. CASE TrackProblem(r)
    BY <2>5 DEF TrackProblem, Goto, ContFree
  <2>6. CASE InstancesEvent(r)
    BY <2>6 DEF InstancesEvent, Goto, ContFree, Problems, Zero
  <2>7. CASE Launch(r)
    <3>1. tracked /\ pc[r] = "launch" /\ pc' = [pc EXCEPT ![r] = "idle"] /\ holder' = None
      BY <2>7 DEF Launch, Goto, StoreInv
    <3>2. pc' \in [Reqs -> Labels] /\ \A q \in Reqs : pc'[q] = "launch" <=> holder' = q
      BY <3>1
    <3>3. island' /\ ~failed' /\ island' \in BOOLEAN /\ failed' \in BOOLEAN
      BY <2>7, Zenon DEF Launch
    <3>4. /\ UNCHANGED <<store, entries, listed, counted, round, adj, told, ran>>
          /\ UNCHANGED <<tracked, busy, arg, shown, made, overlap, again, fault>>
      BY <2>7, Zenon DEF Launch
    <3> QED
      BY <3>1, <3>2, <3>3, <3>4
  <2>8. CASE LaunchFails(r)
    BY <2>8 DEF LaunchFails, Goto
  <2>9. CASE RemoveProblem(r)
    <3>1. entries' \subseteq Problems \cup {Zero} /\ counted' \in BOOLEAN /\ listed' \in BOOLEAN
      BY <2>9 DEF RemoveProblem, RemoveFirst, Scheduled
    <3>2. pc' \in [Reqs -> Labels] /\ \A q \in Reqs : pc'[q] = "launch" <=> holder = q
      BY <2>9 DEF RemoveProblem, Goto
    <3> QED
      BY <2>9, <3>1, <3>2 DEF RemoveProblem
  <2>10. CASE UntrackProblem(r)
    <3>1. pc' \in [Reqs -> Labels] /\ \A q \in Reqs : pc'[q] = "launch" <=> holder = q
      BY <2>10 DEF UntrackProblem, Goto
    <3>2. ~tracked' /\ ~island' /\ tracked' \in BOOLEAN /\ island' \in BOOLEAN
      BY <2>10, Zenon DEF UntrackProblem
    <3>3. /\ UNCHANGED <<store, entries, listed, counted, round, adj, told, ran>>
          /\ UNCHANGED <<holder, busy, arg, shown, made, overlap, again, fault>>
          /\ failed' \in BOOLEAN
      BY <2>10, Zenon DEF UntrackProblem
    <3> QED
      BY <3>1, <3>2, <3>3
  <2>11. CASE HasProblem(r)
    BY <2>11 DEF HasProblem, Goto
  <2>12. CASE GetInstanceCount(r)
    BY <2>12 DEF GetInstanceCount, Goto, SchedFree
  <2>13. CASE IsRunning(r)
    BY <2>13 DEF IsRunning, Goto, ContFree
  <2> QED
    BY <1>3, <2>1, <2>2, <2>3, <2>4, <2>5, <2>6, <2>7, <2>8, <2>9, <2>10, <2>11, <2>12, <2>13
    DEF Step
<1>4. CASE FillSchedule
  BY <1>4 DEF FillSchedule
<1>5. CASE FillDone
  <2>1. counted' \in BOOLEAN /\ listed' \in BOOLEAN
    BY <1>5, Zenon DEF FillDone, Scheduled
  <2>2. adj' \in {"none", "zero", "some"} /\ round' = "apply"
    BY <1>5 DEF FillDone
  <2> QED
    BY <1>5, <2>1, <2>2 DEF FillDone
<1>6. CASE Apply
  <2>1. told' \in BOOLEAN /\ ran' \in BOOLEAN
    BY <1>6, Zenon DEF Apply
  <2> QED
    BY <1>6, <2>1 DEF Apply
<1>7. CASE Incorporate
  <2>1. holder = None /\ busy' \in BOOLEAN /\ fault' \in BOOLEAN
    BY <1>7, Zenon DEF Incorporate, ContFree
  <2>2. /\ UNCHANGED <<store, entries, listed, counted, round, adj, told, ran>>
        /\ UNCHANGED <<tracked, island, holder, failed, pc, arg, shown, made, overlap, again>>
    BY <1>7, Zenon DEF Incorporate
  <2> QED
    BY <2>1, <2>2
<1>8. CASE RemoveResultListener
  BY <1>8 DEF RemoveResultListener, ContFree
<1>9. CASE Unlock
  <2>1. ~busy' /\ busy' \in BOOLEAN
    BY <1>9, Zenon DEF Unlock
  <2>2. /\ UNCHANGED <<store, entries, listed, counted, round, adj, told, ran>>
        /\ UNCHANGED <<tracked, island, holder, failed, pc, arg, shown, made>>
        /\ UNCHANGED <<overlap, again, fault>>
    BY <1>9, Zenon DEF Unlock
  <2> QED
    BY <2>1, <2>2
<1>10. CASE UNCHANGED vars
  BY <1>10 DEF vars
<1> QED
  BY <1>1, <1>2, <1>3, <1>4, <1>5, <1>6, <1>7, <1>8, <1>9, <1>10 DEF Next

\* RegisterProblem's metadata stays in hand, and nothing leaves the store.
LEMMA StoreStep == TypeOK /\ StoreInv /\ [Next]_vars => StoreInv'
<1> SUFFICES ASSUME TypeOK, StoreInv, [Next]_vars PROVE StoreInv'
  OBVIOUS
<1> USE ProblemLifecycleAssumption DEF TypeOK, StoreInv, schedVars, contVars, reqVars, Zero
<1>1. ASSUME NEW r \in Reqs, NEW v \in Versions, RegisterProblem(r, v)
      PROVE  StoreInv'
  <2>1. Problem(v, FALSE) \in [memory : Versions, path : BOOLEAN]
    BY DEF Problem
  <2> QED
    BY <1>1, <2>1 DEF RegisterProblem, Request, Goto
<1>2. ASSUME NEW r \in Reqs, OtherRequest(r) PROVE StoreInv'
  BY <1>2 DEF OtherRequest, Request, Goto
<1>3. ASSUME NEW r \in Reqs, Step(r) PROVE StoreInv'
  <2>1. CASE NewProblem(r)
    BY <2>1 DEF NewProblem, Goto, Problems
  <2>2. CASE RegisterImage(r)
    <3>1. [store EXCEPT !.path = TRUE] # None
      BY <2>2 DEF RegisterImage, Goto, Problems
    <3> QED
      BY <2>2, <3>1 DEF RegisterImage, Goto
  <2>3. CASE GetMetadata(r)
    BY <2>3 DEF GetMetadata, Goto
  <2>4. CASE AddProblem(r)
    BY <2>4 DEF AddProblem, Goto
  <2>5. CASE TrackProblem(r)
    BY <2>5 DEF TrackProblem, Goto, ContFree
  <2>6. CASE InstancesEvent(r)
    BY <2>6 DEF InstancesEvent, Goto
  <2>7. CASE Launch(r)
    BY <2>7 DEF Launch, Goto
  <2>8. CASE LaunchFails(r)
    BY <2>8 DEF LaunchFails, Goto
  <2>9. CASE RemoveProblem(r)
    BY <2>9 DEF RemoveProblem, Goto
  <2>10. CASE UntrackProblem(r)
    BY <2>10 DEF UntrackProblem, Goto, ContFree
  <2>11. CASE HasProblem(r)
    BY <2>11 DEF HasProblem, Goto
  <2>12. CASE GetInstanceCount(r)
    BY <2>12 DEF GetInstanceCount, Goto
  <2>13. CASE IsRunning(r)
    BY <2>13 DEF IsRunning, Goto
  <2> QED
    BY <1>3, <2>1, <2>2, <2>3, <2>4, <2>5, <2>6, <2>7, <2>8, <2>9, <2>10, <2>11, <2>12, <2>13
    DEF Step
<1>4. CASE FillSchedule
  BY <1>4 DEF FillSchedule
<1>5. CASE FillDone
  BY <1>5 DEF FillDone
<1>6. CASE Apply
  BY <1>6 DEF Apply
<1>7. CASE Incorporate
  BY <1>7 DEF Incorporate
<1>8. CASE RemoveResultListener
  BY <1>8 DEF RemoveResultListener
<1>9. CASE Unlock
  BY <1>9 DEF Unlock
<1>10. CASE UNCHANGED vars
  BY <1>10 DEF vars
<1> QED
  BY <1>1, <1>2, <1>3, <1>4, <1>5, <1>6, <1>7, <1>8, <1>9, <1>10 DEF Next

\* Counts come and go with entries of the scheduler.
LEMMA CountsStep == TypeOK /\ CountsInv /\ [Next]_vars => CountsInv'
<1> SUFFICES ASSUME TypeOK, CountsInv, [Next]_vars PROVE CountsInv'
  OBVIOUS
<1> USE DEF TypeOK, CountsInv, schedVars, contVars, reqVars, Scheduled
<1>1. ASSUME NEW r \in Reqs, NEW v \in Versions, RegisterProblem(r, v)
      PROVE  CountsInv'
  BY <1>1 DEF RegisterProblem, Request, Goto, Problem
<1>2. ASSUME NEW r \in Reqs, OtherRequest(r) PROVE CountsInv'
  BY <1>2 DEF OtherRequest, Request, Goto
<1>3. ASSUME NEW r \in Reqs, Step(r) PROVE CountsInv'
  <2>1. CASE NewProblem(r)
    BY <2>1 DEF NewProblem, Goto
  <2>2. CASE RegisterImage(r)
    BY <2>2 DEF RegisterImage, Goto
  <2>3. CASE GetMetadata(r)
    BY <2>3 DEF GetMetadata, Goto
  <2>4. CASE AddProblem(r)
    BY <2>4 DEF AddProblem, Goto
  <2>5. CASE TrackProblem(r)
    BY <2>5 DEF TrackProblem, Goto
  <2>6. CASE InstancesEvent(r)
    BY <2>6 DEF InstancesEvent, Goto
  <2>7. CASE Launch(r)
    BY <2>7 DEF Launch, Goto
  <2>8. CASE LaunchFails(r)
    BY <2>8 DEF LaunchFails, Goto
  <2>9. CASE RemoveProblem(r)
    BY <2>9 DEF RemoveProblem, Goto, RemoveFirst
  <2>10. CASE UntrackProblem(r)
    BY <2>10 DEF UntrackProblem, Goto
  <2>11. CASE HasProblem(r)
    BY <2>11 DEF HasProblem, Goto
  <2>12. CASE GetInstanceCount(r)
    BY <2>12 DEF GetInstanceCount, Goto
  <2>13. CASE IsRunning(r)
    BY <2>13 DEF IsRunning, Goto
  <2> QED
    BY <1>3, <2>1, <2>2, <2>3, <2>4, <2>5, <2>6, <2>7, <2>8, <2>9, <2>10, <2>11, <2>12, <2>13
    DEF Step
<1>4. CASE FillSchedule
  BY <1>4 DEF FillSchedule
<1>5. CASE FillDone
  BY <1>5 DEF FillDone
<1>6. CASE Apply
  BY <1>6 DEF Apply
<1>7. CASE Incorporate
  BY <1>7 DEF Incorporate
<1>8. CASE RemoveResultListener
  BY <1>8 DEF RemoveResultListener
<1>9. CASE Unlock
  BY <1>9 DEF Unlock
<1>10. CASE UNCHANGED vars
  BY <1>10 DEF vars
<1> QED
  BY <1>1, <1>2, <1>3, <1>4, <1>5, <1>6, <1>7, <1>8, <1>9, <1>10 DEF Next

\* Every step that leaves a tracked problem without a container is the launch
\* that failed, or has a request that is about to launch.
LEMMA BareStep == TypeOK /\ BareOnlyWhileStarting /\ [Next]_vars => BareOnlyWhileStarting'
<1> SUFFICES ASSUME TypeOK, BareOnlyWhileStarting, [Next]_vars
             PROVE  BareOnlyWhileStarting'
  OBVIOUS
<1> USE DEF TypeOK, BareOnlyWhileStarting, schedVars, contVars, reqVars
<1>1. ASSUME NEW r \in Reqs, NEW v \in Versions, RegisterProblem(r, v)
      PROVE  BareOnlyWhileStarting'
  BY <1>1 DEF RegisterProblem, Request, Goto, Problem
<1>2. ASSUME NEW r \in Reqs, OtherRequest(r) PROVE BareOnlyWhileStarting'
  BY <1>2 DEF OtherRequest, Request, Goto
<1>3. ASSUME NEW r \in Reqs, Step(r) PROVE BareOnlyWhileStarting'
  <2>1. CASE NewProblem(r)
    BY <2>1 DEF NewProblem, Goto
  <2>2. CASE RegisterImage(r)
    BY <2>2 DEF RegisterImage, Goto
  <2>3. CASE GetMetadata(r)
    BY <2>3 DEF GetMetadata, Goto
  <2>4. CASE AddProblem(r)
    BY <2>4 DEF AddProblem, Goto
  <2>5. CASE TrackProblem(r)
    BY <2>5 DEF TrackProblem, Goto
  <2>6. CASE InstancesEvent(r)
    BY <2>6 DEF InstancesEvent, Goto
  <2>7. CASE Launch(r)
    BY <2>7 DEF Launch, Goto
  <2>8. CASE LaunchFails(r)
    BY <2>8 DEF LaunchFails, Goto
  <2>9. CASE RemoveProblem(r)
    BY <2>9 DEF RemoveProblem, Goto
  <2>10. CASE UntrackProblem(r)
    BY <2>10 DEF UntrackProblem, Goto
  <2>11. CASE HasProblem(r)
    BY <2>11 DEF HasProblem, Goto
  <2>12. CASE GetInstanceCount(r)
    BY <2>12 DEF GetInstanceCount, Goto
  <2>13. CASE IsRunning(r)
    BY <2>13 DEF IsRunning, Goto
  <2> QED
    BY <1>3, <2>1, <2>2, <2>3, <2>4, <2>5, <2>6, <2>7, <2>8, <2>9, <2>10, <2>11, <2>12, <2>13
    DEF Step
<1>4. CASE FillSchedule
  BY <1>4 DEF FillSchedule
<1>5. CASE FillDone
  BY <1>5 DEF FillDone
<1>6. CASE Apply
  BY <1>6 DEF Apply
<1>7. CASE Incorporate
  BY <1>7 DEF Incorporate
<1>8. CASE RemoveResultListener
  BY <1>8 DEF RemoveResultListener
<1>9. CASE Unlock
  BY <1>9 DEF Unlock
<1>10. CASE UNCHANGED vars
  BY <1>10 DEF vars
<1> QED
  BY <1>1, <1>2, <1>3, <1>4, <1>5, <1>6, <1>7, <1>8, <1>9, <1>10 DEF Next

\* One request at a time keeps the two components in step.
LEMMA SerialStep == Inv /\ [Next]_vars => SerialInv'
<1> SUFFICES ASSUME Inv, [Next]_vars, OneByOne'
             PROVE  OneAtATime' /\ EntriesFromStore' /\ CallsInStep' /\ ReadsAgree'
  BY DEF SerialInv
<1> USE ProblemLifecycleAssumption DEF Inv, TypeOK, schedVars, contVars, reqVars
<1>1. ASSUME NEW r \in Reqs, NEW v \in Versions, RegisterProblem(r, v)
      PROVE  OneAtATime' /\ EntriesFromStore' /\ CallsInStep' /\ ReadsAgree'
  <2>1. OneByOne
    BY <1>1 DEF OneByOne, RegisterProblem, Request, Goto, Problem
  <2> OneAtATime /\ EntriesFromStore /\ CallsInStep /\ ReadsAgree
    BY <2>1 DEF SerialInv
  <2>2. OneAtATime'
    BY <1>1 DEF OneAtATime, OneByOne, RegisterProblem, Request, Goto, Problem
  <2>3. EntriesFromStore'
    BY <1>1 DEF EntriesFromStore, OneAtATime, OneByOne, Zero, RegisterProblem, Request, Goto,
       Problem
  <2>4. CallsInStep'
    BY <1>1 DEF CallsInStep, OneAtATime, EntriesFromStore, Scheduled, Zero, OneByOne,
       RegisterProblem, Request, Goto, Problem
  <2>5. ReadsAgree'
    BY <1>1 DEF ReadsAgree, OneAtATime, CallsInStep, CountsInv, RegisterProblem, Request,
       Goto, Problem
  <2> QED
    BY <2>2, <2>3, <2>4, <2>5
<1>2. ASSUME NEW r \in Reqs, OtherRequest(r)
      PROVE  OneAtATime' /\ EntriesFromStore' /\ CallsInStep' /\ ReadsAgree'
  <2>1. OneByOne
    BY <1>2 DEF OneByOne, OtherRequest, Request, Goto
  <2> OneAtATime /\ EntriesFromStore /\ CallsInStep /\ ReadsAgree
    BY <2>1 DEF SerialInv
  <2>2. OneAtATime'
    <3>1. PICK label \in Labels \ {"idle", "registerImage"} : Request(r, label)
      BY <1>2 DEF OtherRequest, Labels
    <3> QED
      BY <1>2, <3>1 DEF OneAtATime, OneByOne, OtherRequest, Request, Goto
  <2>3. EntriesFromStore'
    BY <1>2 DEF EntriesFromStore, OneAtATime, OneByOne, Zero, OtherRequest, Request, Goto
  <2>4. CallsInStep'
    BY <1>2 DEF CallsInStep, OneAtATime, EntriesFromStore, Scheduled, Zero, OneByOne,
       OtherRequest, Request, Goto
  <2>5. ReadsAgree'
    BY <1>2 DEF ReadsAgree, OneAtATime, CallsInStep, CountsInv, OtherRequest, Request, Goto
  <2> QED
    BY <2>2, <2>3, <2>4, <2>5
<1>3. ASSUME NEW r \in Reqs, Step(r)
      PROVE  OneAtATime' /\ EntriesFromStore' /\ CallsInStep' /\ ReadsAgree'
  <2>1. CASE NewProblem(r)
    <3>1. OneByOne
      BY <2>1 DEF OneByOne, NewProblem, Goto
    <3> OneAtATime /\ EntriesFromStore /\ CallsInStep /\ ReadsAgree
      BY <3>1 DEF SerialInv
    <3>2. OneAtATime'
      BY <2>1 DEF OneAtATime, OneByOne, NewProblem, Goto
    <3>3. EntriesFromStore'
      <4>1. store' = arg[r] /\ arg[r] # None /\ (store # None => store.memory = arg[r].memory)
        BY <2>1 DEF NewProblem, Goto, OneByOne, StoreInv, Zero
      <4>2. \A e \in entries \ {Zero} :
              store' # None /\ e.memory = store'.memory /\ e.path
        BY <4>1 DEF EntriesFromStore
      <4>3. \A q \in Reqs : pc'[q] \notin {"addProblem", "trackProblem", "getInstanceCount"}
        BY <2>1 DEF NewProblem, Goto, OneAtATime
      <4> QED
        BY <2>1, <4>2, <4>3 DEF NewProblem, EntriesFromStore
    <3>4. CallsInStep'
      BY <2>1 DEF CallsInStep, OneAtATime, EntriesFromStore, Scheduled, Zero, OneByOne,
         NewProblem, Goto
    <3>5. ReadsAgree'
      BY <2>1 DEF ReadsAgree, OneAtATime, CallsInStep, CountsInv, NewProblem, Goto
    <3> QED
      BY <3>2, <3>3, <3>4, <3>5
  <2>2. CASE RegisterImage(r)
    <3>1. OneByOne
      BY <2>2 DEF OneByOne, RegisterImage, Goto
    <3> OneAtATime /\ EntriesFromStore /\ CallsInStep /\ ReadsAgree
      BY <3>1 DEF SerialInv
    <3>2. OneAtATime'
      BY <2>2 DEF OneAtATime, OneByOne, RegisterImage, Goto
    <3>3. EntriesFromStore'
      <4>1. store \in Problems
        BY <2>2 DEF RegisterImage, Goto, StoreInv
      <4>2. store' # None /\ store'.memory = store.memory
        BY <2>2, <4>1 DEF RegisterImage, Problems
      <4>3. \A e \in entries \ {Zero} :
              store' # None /\ e.memory = store'.memory /\ e.path
        BY <4>2 DEF EntriesFromStore
      <4>4. \A q \in Reqs : pc'[q] \notin {"addProblem", "trackProblem", "getInstanceCount"}
        BY <2>2 DEF RegisterImage, Goto, OneAtATime
      <4> QED
        BY <2>2, <4>3, <4>4 DEF RegisterImage, EntriesFromStore
    <3>4. CallsInStep'
      BY <2>2 DEF CallsInStep, OneAtATime, EntriesFromStore, Scheduled, Zero, OneByOne,
         RegisterImage, Goto
    <3>5. ReadsAgree'
      BY <2>2 DEF ReadsAgree, OneAtATime, CallsInStep, CountsInv, RegisterImage, Goto
    <3> QED
      BY <3>2, <3>3, <3>4, <3>5
  <2>3. CASE GetMetadata(r)
    <3>1. OneByOne
      BY <2>3 DEF OneByOne, GetMetadata, Goto
    <3> OneAtATime /\ EntriesFromStore /\ CallsInStep /\ ReadsAgree
      BY <3>1 DEF SerialInv
    <3>2. OneAtATime'
      BY <2>3 DEF OneAtATime, OneByOne, GetMetadata, Goto
    <3>3. EntriesFromStore'
      BY <2>3 DEF EntriesFromStore, OneAtATime, OneByOne, Zero, GetMetadata, Goto
    <3>4. CallsInStep'
      BY <2>3 DEF CallsInStep, OneAtATime, EntriesFromStore, Scheduled, Zero, OneByOne,
         GetMetadata, Goto
    <3>5. ReadsAgree'
      BY <2>3 DEF ReadsAgree, OneAtATime, CallsInStep, CountsInv, GetMetadata, Goto
    <3> QED
      BY <3>2, <3>3, <3>4, <3>5
  <2>4. CASE AddProblem(r)
    <3>1. OneByOne
      BY <2>4 DEF OneByOne, AddProblem, Goto
    <3> OneAtATime /\ EntriesFromStore /\ CallsInStep /\ ReadsAgree
      BY <3>1 DEF SerialInv
    <3>2. OneAtATime'
      BY <2>4 DEF OneAtATime, OneByOne, AddProblem, Goto
    <3>3. EntriesFromStore'
      BY <2>4 DEF EntriesFromStore, OneAtATime, OneByOne, Zero, AddProblem, Goto
    <3>4. CallsInStep'
      BY <2>4 DEF CallsInStep, OneAtATime, EntriesFromStore, Scheduled, Zero, OneByOne,
         AddProblem, Goto
    <3>5. ReadsAgree'
      BY <2>4 DEF ReadsAgree, OneAtATime, CallsInStep, CountsInv, AddProblem, Goto
    <3> QED
      BY <3>2, <3>3, <3>4, <3>5
  <2>5. CASE TrackProblem(r)
    <3>1. OneByOne
      BY <2>5 DEF OneByOne, TrackProblem, Goto
    <3> OneAtATime /\ EntriesFromStore /\ CallsInStep /\ ReadsAgree
      BY <3>1 DEF SerialInv
    <3>2. OneAtATime'
      BY <2>5 DEF OneAtATime, OneByOne, TrackProblem, Goto
    <3>3. EntriesFromStore'
      BY <2>5 DEF EntriesFromStore, OneAtATime, OneByOne, Zero, TrackProblem, Goto
    <3>4. CallsInStep'
      <4>1. /\ tracked' = (store # None)
            /\ pc[r] = "trackProblem" /\ UNCHANGED entries
            /\ pc' = [pc EXCEPT ![r] = IF store = None THEN "idle" ELSE "event"]
        BY <2>5 DEF TrackProblem, Goto
      <4>2. \A q \in Reqs : q # r => pc'[q] = "idle"
        BY <4>1 DEF OneAtATime
      <4>3. pc'[r] = IF store = None THEN "idle" ELSE "event"
        BY <4>1
      <4>4. Scheduled' = Scheduled /\ (store # None <=> Scheduled)
        BY <4>1 DEF Scheduled, CallsInStep, EntriesFromStore, Zero
      <4> QED
        BY <4>1, <4>2, <4>3, <4>4 DEF CallsInStep
    <3>5. ReadsAgree'
      BY <2>5 DEF ReadsAgree, OneAtATime, CallsInStep, CountsInv, TrackProblem, Goto
    <3> QED
      BY <3>2, <3>3, <3>4, <3>5
  <2>6. CASE InstancesEvent(r)
    <3>1. OneByOne
      BY <2>6 DEF OneByOne, InstancesEvent, Goto
    <3> OneAtATime /\ EntriesFromStore /\ CallsInStep /\ ReadsAgree
      BY <3>1 DEF SerialInv
    <3>2. OneAtATime'
      BY <2>6 DEF OneAtATime, OneByOne, InstancesEvent, Goto
    <3>3. EntriesFromStore'
      BY <2>6 DEF EntriesFromStore, OneAtATime, OneByOne, Zero, InstancesEvent, Goto
    <3>4. CallsInStep'
      BY <2>6 DEF CallsInStep, OneAtATime, EntriesFromStore, Scheduled, Zero, OneByOne,
         InstancesEvent, Goto
    <3>5. ReadsAgree'
      BY <2>6 DEF ReadsAgree, OneAtATime, CallsInStep, CountsInv, InstancesEvent, Goto
    <3> QED
      BY <3>2, <3>3, <3>4, <3>5
  <2>7. CASE Launch(r)
    <3>1. OneByOne
      BY <2>7 DEF OneByOne, Launch, Goto
    <3> OneAtATime /\ EntriesFromStore /\ CallsInStep /\ ReadsAgree
      BY <3>1 DEF SerialInv
    <3>2. OneAtATime'
      BY <2>7 DEF OneAtATime, OneByOne, Launch, Goto
    <3>3. EntriesFromStore'
      BY <2>7 DEF EntriesFromStore, OneAtATime, OneByOne, Zero, Launch, Goto
    <3>4. CallsInStep'
      BY <2>7 DEF CallsInStep, OneAtATime, EntriesFromStore, Scheduled, Zero, OneByOne,
         Launch, Goto
    <3>5. ReadsAgree'
      BY <2>7 DEF ReadsAgree, OneAtATime, CallsInStep, CountsInv, Launch, Goto
    <3> QED
      BY <3>2, <3>3, <3>4, <3>5
  <2>8. CASE LaunchFails(r)
    <3>1. OneByOne
      BY <2>8 DEF OneByOne, LaunchFails, Goto
    <3> OneAtATime /\ EntriesFromStore /\ CallsInStep /\ ReadsAgree
      BY <3>1 DEF SerialInv
    <3>2. OneAtATime'
      BY <2>8 DEF OneAtATime, OneByOne, LaunchFails, Goto
    <3>3. EntriesFromStore'
      BY <2>8 DEF EntriesFromStore, OneAtATime, OneByOne, Zero, LaunchFails, Goto
    <3>4. CallsInStep'
      BY <2>8 DEF CallsInStep, OneAtATime, EntriesFromStore, Scheduled, Zero, OneByOne,
         LaunchFails, Goto
    <3>5. ReadsAgree'
      BY <2>8 DEF ReadsAgree, OneAtATime, CallsInStep, CountsInv, LaunchFails, Goto
    <3> QED
      BY <3>2, <3>3, <3>4, <3>5
  <2>9. CASE RemoveProblem(r)
    <3>1. OneByOne
      BY <2>9 DEF OneByOne, RemoveProblem, Goto
    <3> OneAtATime /\ EntriesFromStore /\ CallsInStep /\ ReadsAgree
      BY <3>1 DEF SerialInv
    <3>2. OneAtATime'
      BY <2>9 DEF OneAtATime, OneByOne, RemoveProblem, Goto, RemoveFirst
    <3>3. EntriesFromStore'
      BY <2>9 DEF EntriesFromStore, OneAtATime, OneByOne, Zero, RemoveProblem, Goto,
         RemoveFirst
    <3>4. CallsInStep'
      <4>1. ~Scheduled'
        <5>1. \A e, f \in entries \ {Zero} : e = f
          BY DEF EntriesFromStore, Problems
        <5> QED
          BY <2>9, <5>1 DEF RemoveProblem, RemoveFirst, Scheduled
      <4> QED
        BY <2>9, <4>1 DEF CallsInStep, OneAtATime, RemoveProblem, Goto
    <3>5. ReadsAgree'
      BY <2>9 DEF ReadsAgree, OneAtATime, CallsInStep, CountsInv, RemoveProblem, Goto,
         RemoveFirst
    <3> QED
      BY <3>2, <3>3, <3>4, <3>5
  <2>10. CASE UntrackProblem(r)
    <3>1. OneByOne
      BY <2>10 DEF OneByOne, UntrackProblem, Goto
    <3> OneAtATime /\ EntriesFromStore /\ CallsInStep /\ ReadsAgree
      BY <3>1 DEF SerialInv
    <3>2. OneAtATime'
      BY <2>10 DEF OneAtATime, OneByOne, UntrackProblem, Goto
    <3>3. EntriesFromStore'
      BY <2>10 DEF EntriesFromStore, OneAtATime, OneByOne, Zero, UntrackProblem, Goto
    <3>4. CallsInStep'
      BY <2>10 DEF CallsInStep, OneAtATime, EntriesFromStore, Scheduled, Zero, OneByOne,
         UntrackProblem, Goto
    <3>5. ReadsAgree'
      BY <2>10 DEF ReadsAgree, OneAtATime, CallsInStep, CountsInv, UntrackProblem, Goto
    <3> QED
      BY <3>2, <3>3, <3>4, <3>5
  <2>11. CASE HasProblem(r)
    <3>1. OneByOne
      BY <2>11 DEF OneByOne, HasProblem, Goto
    <3> OneAtATime /\ EntriesFromStore /\ CallsInStep /\ ReadsAgree
      BY <3>1 DEF SerialInv
    <3>2. OneAtATime'
      BY <2>11 DEF OneAtATime, OneByOne, HasProblem, Goto
    <3>3. EntriesFromStore'
      BY <2>11 DEF EntriesFromStore, OneAtATime, OneByOne, Zero, HasProblem, Goto
    <3>4. CallsInStep'
      BY <2>11 DEF CallsInStep, OneAtATime, EntriesFromStore, Scheduled, Zero, OneByOne,
         HasProblem, Goto
    <3>5. ReadsAgree'
      BY <2>11 DEF ReadsAgree, OneAtATime, CallsInStep, CountsInv, HasProblem, Goto
    <3> QED
      BY <3>2, <3>3, <3>4, <3>5
  <2>12. CASE GetInstanceCount(r)
    <3>1. OneByOne
      BY <2>12 DEF OneByOne, GetInstanceCount, Goto
    <3> OneAtATime /\ EntriesFromStore /\ CallsInStep /\ ReadsAgree
      BY <3>1 DEF SerialInv
    <3>2. OneAtATime'
      BY <2>12 DEF OneAtATime, OneByOne, GetInstanceCount, Goto
    <3>3. EntriesFromStore'
      BY <2>12 DEF EntriesFromStore, OneAtATime, OneByOne, Zero, GetInstanceCount, Goto
    <3>4. CallsInStep'
      BY <2>12 DEF CallsInStep, OneAtATime, EntriesFromStore, Scheduled, Zero, OneByOne,
         GetInstanceCount, Goto
    <3>5. ReadsAgree'
      BY <2>12 DEF ReadsAgree, OneAtATime, CallsInStep, CountsInv, GetInstanceCount, Goto
    <3> QED
      BY <3>2, <3>3, <3>4, <3>5
  <2>13. CASE IsRunning(r)
    <3>1. OneByOne
      BY <2>13 DEF OneByOne, IsRunning, Goto
    <3> OneAtATime /\ EntriesFromStore /\ CallsInStep /\ ReadsAgree
      BY <3>1 DEF SerialInv
    <3>2. OneAtATime'
      BY <2>13 DEF OneAtATime, OneByOne, IsRunning, Goto
    <3>3. EntriesFromStore'
      BY <2>13 DEF EntriesFromStore, OneAtATime, OneByOne, Zero, IsRunning, Goto
    <3>4. CallsInStep'
      BY <2>13 DEF CallsInStep, OneAtATime, EntriesFromStore, Scheduled, Zero, OneByOne,
         IsRunning, Goto
    <3>5. ReadsAgree'
      BY <2>13 DEF ReadsAgree, OneAtATime, CallsInStep, CountsInv, IsRunning, Goto
    <3> QED
      BY <3>2, <3>3, <3>4, <3>5
  <2> QED
    BY <1>3, <2>1, <2>2, <2>3, <2>4, <2>5, <2>6, <2>7, <2>8, <2>9, <2>10, <2>11, <2>12, <2>13
    DEF Step
<1>4. CASE FillSchedule
  BY <1>4 DEF FillSchedule, OneByOne, SerialInv, OneAtATime, EntriesFromStore, CallsInStep,
     ReadsAgree, Scheduled
<1>5. CASE FillDone
  BY <1>5 DEF FillDone, OneByOne, SerialInv, OneAtATime, EntriesFromStore, CallsInStep,
     ReadsAgree, Scheduled
<1>6. CASE Apply
  BY <1>6 DEF Apply, OneByOne, SerialInv, OneAtATime, EntriesFromStore, CallsInStep,
     ReadsAgree, Scheduled
<1>7. CASE Incorporate
  BY <1>7 DEF Incorporate, OneByOne, SerialInv, OneAtATime, EntriesFromStore, CallsInStep,
     ReadsAgree, Scheduled
<1>8. CASE RemoveResultListener
  BY <1>8 DEF RemoveResultListener, OneByOne, SerialInv, OneAtATime, EntriesFromStore, CallsInStep,
     ReadsAgree, Scheduled
<1>9. CASE Unlock
  BY <1>9 DEF Unlock, OneByOne, SerialInv, OneAtATime, EntriesFromStore, CallsInStep,
     ReadsAgree, Scheduled
<1>10. CASE UNCHANGED vars
  BY <1>10 DEF vars, OneByOne, SerialInv, OneAtATime, EntriesFromStore, CallsInStep,
     ReadsAgree, Scheduled
<1> QED
  BY <1>1, <1>2, <1>3, <1>4, <1>5, <1>6, <1>7, <1>8, <1>9, <1>10 DEF Next

\* The inductive invariant holds in every reachable state.
LEMMA InvHolds == Spec => []Inv
<1>1. Inv /\ [Next]_vars => Inv'
  BY TypeStep, StoreStep, CountsStep, BareStep, SerialStep DEF Inv
<1> QED
  BY <1>1, InitInv, PTL DEF Spec

-----------------------------------------------------------------------------
(* Results.                                                                 *)

\* Type correctness; in particular at most one holds the mutex of the container
\* manager, and the request that does is the one that launches.
THEOREM TypeCorrect == Spec => []TypeOK
<1>1. Inv => TypeOK
  BY DEF Inv
<1> QED
  BY <1>1, InvHolds, PTL

\* Whatever requests overlap, a tracked problem is without a container only
\* while a StartProblem is under way or after a launch that failed.
THEOREM BareProblems == Spec => []BareOnlyWhileStarting
<1>1. Inv => BareOnlyWhileStarting
  BY DEF Inv
<1> QED
  BY <1>1, InvHolds, PTL

\* When requests do not overlap, the scheduler and the container manager agree
\* after each of them on whether the problem runs.
THEOREM ComponentsAgree == Spec => []ScheduledIsTracked
<1>1. Inv => ScheduledIsTracked
  BY DEF Inv, SerialInv, CallsInStep, ScheduledIsTracked, AllIdle
<1> QED
  BY <1>1, InvHolds, PTL

\* And GetProblem never shows islands of a problem that is not running.
THEOREM ShownAgrees == Spec => []ShownConsistent
<1>1. Inv => ShownConsistent
  BY DEF Inv, SerialInv, ReadsAgree, ShownConsistent
<1> QED
  BY <1>1, InvHolds, PTL
=============================================================================
