------------------------- MODULE MasterCommsProofs -------------------------
(***************************************************************************)
(* Proofs about MasterComms, for any sets of workers and connections.      *)
(***************************************************************************)
EXTENDS MasterComms, TLAPS

\* Type correctness of the master's streams.
THEOREM TypeCorrect == Spec => []TypeOK
<1>1. Init => TypeOK
  BY DEF Init, TypeOK, PC, Serving, Frames
<1>2. TypeOK /\ [Next]_vars => TypeOK'
  <2> SUFFICES ASSUME TypeOK, [Next]_vars PROVE TypeOK'
    OBVIOUS
  <2> USE DEF TypeOK, Alive, Goto, popVars, schedVars, sendVars, connVars
  <2>1. ASSUME NEW c \in Conns, Connection(c) PROVE TypeOK'
    <3>1. CASE \E w \in WorkerIDs : RecvHello(c, w)
      BY <3>1 DEF RecvHello, PC
    <3>2. CASE RecvHelloFails(c)
      BY <3>2 DEF RecvHelloFails, PC
    <3>3. CASE LockChans(c)
      BY <3>3 DEF LockChans, PC
    <3>4. CASE StoreChan(c)
      BY <3>4 DEF StoreChan, PC
    <3>5. CASE AddWorker(c)
      BY <3>5 DEF AddWorker, PC, Serving
    <3>6. CASE StreamFails(c)
      BY <3>6 DEF StreamFails
    <3>7. CASE RemoveWorker(c)
      BY <3>7 DEF RemoveWorker, PC
    <3> QED
      BY <2>1, <3>1, <3>2, <3>3, <3>4, <3>5, <3>6, <3>7 DEF Connection
  <2>2. ASSUME NEW c \in Conns, Reader(c) PROVE TypeOK'
    <3>1. CASE \E f \in Frames : ReaderRecv(c, f)
      BY <3>1 DEF ReaderRecv
    <3>2. CASE ReaderExit(c)
      BY <3>2 DEF ReaderExit
    <3> QED
      BY <2>2, <3>1, <3>2 DEF Reader
  <2>3. ASSUME NEW c \in Conns, Handler(c) PROVE TypeOK'
    <3>1. CASE SelectFrame(c)
      <4>1. FrameTarget(rd[c]) \in PC
        BY <3>1 DEF SelectFrame, FrameTarget, Frames, PC, Serving
      <4> QED
        BY <3>1, <4>1 DEF SelectFrame
    <3>2. CASE SelectClosed(c)
      BY <3>2 DEF SelectClosed, PC
    <3>3. CASE PutMetric(c)
      BY <3>3 DEF PutMetric, PC, Serving
    <3>4. CASE PutImmig(c)
      BY <3>4 DEF PutImmig, PC, Serving
    <3>5. CASE \E r \in 1 .. round : SelectSchedule(c, r)
      BY <3>5 DEF SelectSchedule, PC, Serving
    <3>6. CASE SelectReply(c)
      BY <3>6 DEF SelectReply, PC, Serving
    <3>7. CASE SendOk(c)
      BY <3>7 DEF SendOk, PC, Serving
    <3>8. CASE SendFails(c)
      BY <3>8 DEF SendFails, PC
    <3> QED
      BY <2>3, <3>1, <3>2, <3>3, <3>4, <3>5, <3>6, <3>7, <3>8 DEF Handler
  <2>4. CASE Master
    <3>1. CASE UpdateMetrics
      BY <3>1 DEF UpdateMetrics
    <3>2. CASE IncorporateFails
      BY <3>2 DEF IncorporateFails
    <3>3. CASE Incorporate
      BY <3>3 DEF Incorporate
    <3>4. CASE SendPopulation
      BY <3>4 DEF SendPopulation
    <3>5. ASSUME NEW w \in WorkerIDs, SendMasterMsgAsync(w) PROVE TypeOK'
      BY <3>5 DEF SendMasterMsgAsync
    <3>6. CASE FillSchedule
      BY <3>6 DEF FillSchedule
    <3>6a. CASE FillDone
      BY <3>6a DEF FillDone
    <3>7. ASSUME NEW w \in WorkerIDs, ScheduleSend(w) PROVE TypeOK'
      BY <3>7 DEF ScheduleSend
    <3>8. CASE ApplyDone
      BY <3>8 DEF ApplyDone
    <3>9. CASE MapRace
      BY <3>9 DEF MapRace
    <3> QED
      BY <2>4, <3>1, <3>2, <3>3, <3>4, <3>5, <3>6, <3>6a, <3>7, <3>8, <3>9 DEF Master
  <2>5. CASE UNCHANGED vars
    BY <2>5 DEF vars
  <2> QED
    BY <2>1, <2>2, <2>3, <2>4, <2>5 DEF Next
<1> QED
  BY <1>1, <1>2, PTL DEF Spec

-----------------------------------------------------------------------------
(* The inductive invariant of the registrations.                            *)

\* Past the hello, a connection has the workerID it announced.
HelloKept ==
  \A c \in Conns : pc[c] \notin {"accept", "closed"} => who[c] \in WorkerIDs

\* channs only holds channels of connections that got as far as StoreChan,
\* under their own workerID.
ChanOwner ==
  \A w \in WorkerIDs : channs[w] # None =>
    /\ who[channs[w]] = w
    /\ pc[channs[w]] \notin {"accept", "lock", "store"}

\* A connection past StoreChan has an entry in channs, its own or a younger one.
ChanKept ==
  \A c \in Conns :
    pc[c] \in {"add", "remove"} \cup Serving => channs[who[c]] # None

\* So has every worker that Apply is still to visit.
TodoAddressable ==
  \A w \in todo : channs[w] # None

RegistrationInv ==
  /\ TypeOK
  /\ HelloKept
  /\ ChanOwner
  /\ ChanKept
  /\ TodoAddressable
  /\ NoGhostWorker

\* A worker that is not Impatient has one live connection at a time ...
PatientAlone ==
  \A c, d \in Conns :
    /\ who[c] = who[d]
    /\ who[c] \notin Impatient
    /\ pc[c] \notin {"accept", "closed"}
    /\ pc[d] \notin {"accept", "closed"}
    => c = d

\* ... and keeps its entry in the scheduler until its handler removes it.
PatientRegistered ==
  \A c \in Conns :
    pc[c] \in Serving \cup {"remove"} /\ who[c] \notin Impatient =>
      workers[who[c]] = c

PatientInv == RegistrationInv /\ PatientAlone /\ PatientRegistered

(* The inductive invariant of the schedule messages.                        *)

\* A send waits only during the Apply of its own round, no message in flight
\* is newer than that round, and none is older than what its stream has sent.
BlockedIsCurrent == \A b \in blocked : b[2] = round /\ sched = "apply"

SentUpToRound == \A c \in Conns : last[c] <= round /\ out[c] <= round

OutNotOlder ==
  \A c \in Conns : pc[c] = "send" => out[c] = 0 \/ last[c] <= out[c]

OrderInv == TypeOK /\ BlockedIsCurrent /\ SentUpToRound /\ OutNotOlder

\* Every step keeps the registrations.
LEMMA RegistrationStep ==
  RegistrationInv /\ TypeOK' /\ [Next]_vars => RegistrationInv'
<1> SUFFICES ASSUME RegistrationInv, TypeOK', [Next]_vars
             PROVE  RegistrationInv'
  OBVIOUS
<1> USE MasterCommsAssumption
    DEF RegistrationInv, HelloKept, ChanOwner, ChanKept, TodoAddressable,
        NoGhostWorker, Serving
<1> USE DEF TypeOK, Alive, Goto, popVars, schedVars, sendVars, connVars
<1>1. ASSUME NEW c \in Conns, Connection(c) PROVE RegistrationInv'
  <2>1. ASSUME NEW w \in WorkerIDs, RecvHello(c, w) PROVE RegistrationInv'
    BY <2>1 DEF RecvHello
  <2>2. CASE RecvHelloFails(c)
    BY <2>2 DEF RecvHelloFails
  <2>3. CASE LockChans(c)
    BY <2>3 DEF LockChans
  <2>4. CASE StoreChan(c)
    BY <2>4 DEF StoreChan
  <2>5. CASE AddWorker(c)
    BY <2>5 DEF AddWorker
  <2>6. CASE StreamFails(c)
    BY <2>6 DEF StreamFails
  <2>7. CASE RemoveWorker(c)
    BY <2>7 DEF RemoveWorker
  <2> QED
    BY <1>1, <2>1, <2>2, <2>3, <2>4, <2>5, <2>6, <2>7 DEF Connection
<1>2. ASSUME NEW c \in Conns, Reader(c) PROVE RegistrationInv'
  <2>1. CASE \E f \in Frames : ReaderRecv(c, f)
    BY <2>1 DEF ReaderRecv
  <2>2. CASE ReaderExit(c)
    BY <2>2 DEF ReaderExit
  <2> QED
    BY <1>2, <2>1, <2>2 DEF Reader
<1>3. ASSUME NEW c \in Conns, Handler(c) PROVE RegistrationInv'
  <2>1. CASE SelectFrame(c)
    BY <2>1 DEF SelectFrame, FrameTarget, Frames
  <2>2. CASE SelectClosed(c)
    BY <2>2 DEF SelectClosed
  <2>3. CASE PutMetric(c)
    BY <2>3 DEF PutMetric
  <2>4. CASE PutImmig(c)
    BY <2>4 DEF PutImmig
  <2>5. ASSUME NEW r \in 1 .. round, SelectSchedule(c, r) PROVE RegistrationInv'
    BY <2>5 DEF SelectSchedule
  <2>6. CASE SelectReply(c)
    BY <2>6 DEF SelectReply
  <2>7. CASE SendOk(c)
    BY <2>7 DEF SendOk
  <2>8. CASE SendFails(c)
    BY <2>8 DEF SendFails
  <2> QED
    BY <1>3, <2>1, <2>2, <2>3, <2>4, <2>5, <2>6, <2>7, <2>8 DEF Handler
<1>4. CASE Master
  <2>1. CASE UpdateMetrics
    BY <2>1 DEF UpdateMetrics
  <2>2. CASE IncorporateFails
    BY <2>2 DEF IncorporateFails
  <2>3. CASE Incorporate
    BY <2>3 DEF Incorporate
  <2>4. CASE SendPopulation
    BY <2>4 DEF SendPopulation
  <2>5. ASSUME NEW w \in WorkerIDs, SendMasterMsgAsync(w) PROVE RegistrationInv'
    BY <2>5 DEF SendMasterMsgAsync
  <2>6. CASE FillSchedule
    BY <2>6 DEF FillSchedule
  <2>6a. CASE FillDone
    BY <2>6a DEF FillDone
  <2>7. ASSUME NEW w \in WorkerIDs, ScheduleSend(w) PROVE RegistrationInv'
    BY <2>7 DEF ScheduleSend
  <2>8. CASE ApplyDone
    BY <2>8 DEF ApplyDone
  <2>9. CASE MapRace
    BY <2>9 DEF MapRace
  <2> QED
    BY <1>4, <2>1, <2>2, <2>3, <2>4, <2>5, <2>6, <2>6a, <2>7, <2>8, <2>9 DEF Master
<1>5. CASE UNCHANGED vars
  BY <1>5 DEF vars
<1> QED
  BY <1>1, <1>2, <1>3, <1>4, <1>5 DEF Next

\* Every step keeps them for the workers that are not Impatient.
LEMMA PatientStep ==
  PatientInv /\ RegistrationInv' /\ [Next]_vars => PatientInv'
<1> SUFFICES ASSUME PatientInv, RegistrationInv', [Next]_vars
             PROVE  PatientAlone' /\ PatientRegistered'
  BY DEF PatientInv
<1> USE MasterCommsAssumption
    DEF PatientInv, RegistrationInv, HelloKept, PatientAlone, PatientRegistered, Serving
<1> USE DEF TypeOK, Alive, Goto, popVars, schedVars, sendVars, connVars
<1>1. ASSUME NEW c \in Conns, Connection(c) PROVE PatientAlone' /\ PatientRegistered'
  <2>1. ASSUME NEW w \in WorkerIDs, RecvHello(c, w) PROVE PatientAlone' /\ PatientRegistered'
    BY <2>1 DEF RecvHello
  <2>2. CASE RecvHelloFails(c)
    BY <2>2 DEF RecvHelloFails
  <2>3. CASE LockChans(c)
    BY <2>3 DEF LockChans
  <2>4. CASE StoreChan(c)
    BY <2>4 DEF StoreChan
  <2>5. CASE AddWorker(c)
    BY <2>5 DEF AddWorker
  <2>6. CASE StreamFails(c)
    BY <2>6 DEF StreamFails
  <2>7. CASE RemoveWorker(c)
    BY <2>7 DEF RemoveWorker
  <2> QED
    BY <1>1, <2>1, <2>2, <2>3, <2>4, <2>5, <2>6, <2>7 DEF Connection
<1>2. ASSUME NEW c \in Conns, Reader(c) PROVE PatientAlone' /\ PatientRegistered'
  <2>1. CASE \E f \in Frames : ReaderRecv(c, f)
    BY <2>1 DEF ReaderRecv
  <2>2. CASE ReaderExit(c)
    BY <2>2 DEF ReaderExit
  <2> QED
    BY <1>2, <2>1, <2>2 DEF Reader
<1>3. ASSUME NEW c \in Conns, Handler(c) PROVE PatientAlone' /\ PatientRegistered'
  <2>1. CASE SelectFrame(c)
    BY <2>1 DEF SelectFrame, FrameTarget, Frames
  <2>2. CASE SelectClosed(c)
    BY <2>2 DEF SelectClosed
  <2>3. CASE PutMetric(c)
    BY <2>3 DEF PutMetric
  <2>4. CASE PutImmig(c)
    BY <2>4 DEF PutImmig
  <2>5. ASSUME NEW r \in 1 .. round, SelectSchedule(c, r) PROVE PatientAlone' /\ PatientRegistered'
    BY <2>5 DEF SelectSchedule
  <2>6. CASE SelectReply(c)
    BY <2>6 DEF SelectReply
  <2>7. CASE SendOk(c)
    BY <2>7 DEF SendOk
  <2>8. CASE SendFails(c)
    BY <2>8 DEF SendFails
  <2> QED
    BY <1>3, <2>1, <2>2, <2>3, <2>4, <2>5, <2>6, <2>7, <2>8 DEF Handler
<1>4. CASE Master
  <2>1. CASE UpdateMetrics
    BY <2>1 DEF UpdateMetrics
  <2>2. CASE IncorporateFails
    BY <2>2 DEF IncorporateFails
  <2>3. CASE Incorporate
    BY <2>3 DEF Incorporate
  <2>4. CASE SendPopulation
    BY <2>4 DEF SendPopulation
  <2>5. ASSUME NEW w \in WorkerIDs, SendMasterMsgAsync(w) PROVE PatientAlone' /\ PatientRegistered'
    BY <2>5 DEF SendMasterMsgAsync
  <2>6. CASE FillSchedule
    BY <2>6 DEF FillSchedule
  <2>6a. CASE FillDone
    BY <2>6a DEF FillDone
  <2>7. ASSUME NEW w \in WorkerIDs, ScheduleSend(w) PROVE PatientAlone' /\ PatientRegistered'
    BY <2>7 DEF ScheduleSend
  <2>8. CASE ApplyDone
    BY <2>8 DEF ApplyDone
  <2>9. CASE MapRace
    BY <2>9 DEF MapRace
  <2> QED
    BY <1>4, <2>1, <2>2, <2>3, <2>4, <2>5, <2>6, <2>6a, <2>7, <2>8, <2>9 DEF Master
<1>5. CASE UNCHANGED vars
  BY <1>5 DEF vars
<1> QED
  BY <1>1, <1>2, <1>3, <1>4, <1>5 DEF Next

\* Every step keeps the schedules in order.
LEMMA OrderStep ==
  OrderInv /\ TypeOK' /\ [Next]_vars => OrderInv'
<1> SUFFICES ASSUME OrderInv, TypeOK', [Next]_vars
             PROVE  OrderInv'
  OBVIOUS
<1> USE DEF OrderInv, BlockedIsCurrent, SentUpToRound, OutNotOlder, Serving
<1> USE DEF TypeOK, Alive, Goto, SenderFree, popVars, schedVars, sendVars, connVars
<1>1. ASSUME NEW c \in Conns, Connection(c) PROVE OrderInv'
  <2>1. ASSUME NEW w \in WorkerIDs, RecvHello(c, w) PROVE OrderInv'
    BY <2>1 DEF RecvHello
  <2>2. CASE RecvHelloFails(c)
    BY <2>2 DEF RecvHelloFails
  <2>3. CASE LockChans(c)
    BY <2>3 DEF LockChans
  <2>4. CASE StoreChan(c)
    BY <2>4 DEF StoreChan
  <2>5. CASE AddWorker(c)
    BY <2>5 DEF AddWorker
  <2>6. CASE StreamFails(c)
    BY <2>6 DEF StreamFails
  <2>7. CASE RemoveWorker(c)
    BY <2>7 DEF RemoveWorker
  <2> QED
    BY <1>1, <2>1, <2>2, <2>3, <2>4, <2>5, <2>6, <2>7 DEF Connection
<1>2. ASSUME NEW c \in Conns, Reader(c) PROVE OrderInv'
  <2>1. CASE \E f \in Frames : ReaderRecv(c, f)
    BY <2>1 DEF ReaderRecv
  <2>2. CASE ReaderExit(c)
    BY <2>2 DEF ReaderExit
  <2> QED
    BY <1>2, <2>1, <2>2 DEF Reader
<1>3. ASSUME NEW c \in Conns, Handler(c) PROVE OrderInv'
  <2>1. CASE SelectFrame(c)
    BY <2>1 DEF SelectFrame, FrameTarget, Frames
  <2>2. CASE SelectClosed(c)
    BY <2>2 DEF SelectClosed
  <2>3. CASE PutMetric(c)
    BY <2>3 DEF PutMetric
  <2>4. CASE PutImmig(c)
    BY <2>4 DEF PutImmig
  <2>5. ASSUME NEW r \in 1 .. round, SelectSchedule(c, r) PROVE OrderInv'
    BY <2>5 DEF SelectSchedule
  <2>6. CASE SelectReply(c)
    BY <2>6 DEF SelectReply
  <2>7. CASE SendOk(c)
    BY <2>7 DEF SendOk
  <2>8. CASE SendFails(c)
    BY <2>8 DEF SendFails
  <2> QED
    BY <1>3, <2>1, <2>2, <2>3, <2>4, <2>5, <2>6, <2>7, <2>8 DEF Handler
<1>4. CASE Master
  <2>1. CASE UpdateMetrics
    BY <2>1 DEF UpdateMetrics
  <2>2. CASE IncorporateFails
    BY <2>2 DEF IncorporateFails
  <2>3. CASE Incorporate
    BY <2>3 DEF Incorporate
  <2>4. CASE SendPopulation
    BY <2>4 DEF SendPopulation
  <2>5. ASSUME NEW w \in WorkerIDs, SendMasterMsgAsync(w) PROVE OrderInv'
    BY <2>5 DEF SendMasterMsgAsync
  <2>6. CASE FillSchedule
    BY <2>6 DEF FillSchedule
  <2>6a. CASE FillDone
    BY <2>6a DEF FillDone
  <2>7. ASSUME NEW w \in WorkerIDs, ScheduleSend(w) PROVE OrderInv'
    BY <2>7 DEF ScheduleSend
  <2>8. CASE ApplyDone
    BY <2>8 DEF ApplyDone
  <2>9. CASE MapRace
    BY <2>9 DEF MapRace
  <2> QED
    BY <1>4, <2>1, <2>2, <2>3, <2>4, <2>5, <2>6, <2>6a, <2>7, <2>8, <2>9 DEF Master
<1>5. CASE UNCHANGED vars
  BY <1>5 DEF vars
<1> QED
  BY <1>1, <1>2, <1>3, <1>4, <1>5 DEF Next

-----------------------------------------------------------------------------
\* The scheduler keeps no ghost, and every worker it knows or addresses has a
\* channel of its own, for any number of workers, connections and rounds.
THEOREM Registrations == Spec => [](NoGhostWorker /\ ScheduleAddressable)
<1>1. Init => RegistrationInv
  <2> SUFFICES ASSUME Init PROVE RegistrationInv
    OBVIOUS
  <2>1. TypeOK
    BY DEF Init, TypeOK, PC, Serving, Frames
  <2> QED
    BY <2>1 DEF Init, RegistrationInv, HelloKept, ChanOwner, ChanKept,
                TodoAddressable, NoGhostWorker, Serving
<1>2. RegistrationInv => NoGhostWorker /\ ScheduleAddressable
  <2> SUFFICES ASSUME RegistrationInv,
                      NEW w \in WorkerIDs, workers[w] # None
               PROVE  channs[w] # None
    BY DEF RegistrationInv, ScheduleAddressable, ChanOwner, TodoAddressable
  <2>1. /\ workers[w] \in Conns
        /\ who[workers[w]] = w
        /\ pc[workers[w]] \in Serving \cup {"remove"}
    BY DEF RegistrationInv, TypeOK, NoGhostWorker
  <2> QED
    BY <2>1 DEF RegistrationInv, ChanKept
<1> QED
  BY <1>1, <1>2, RegistrationStep, TypeCorrect, PTL DEF Spec

\* Handlers of a worker's successive streams never undo each other's
\* registration, if the worker does not come back before the old handler ended.
THEOREM PatientWorkers == Spec => []PatientServedIsRegistered
<1>1. Init => PatientInv
  <2> SUFFICES ASSUME Init PROVE PatientInv
    OBVIOUS
  <2>1. TypeOK
    BY DEF Init, TypeOK, PC, Serving, Frames
  <2> QED
    BY <2>1 DEF Init, PatientInv, PatientAlone, PatientRegistered, RegistrationInv,
                HelloKept, ChanOwner, ChanKept, TodoAddressable, NoGhostWorker, Serving
<1>2. PatientInv /\ TypeOK' /\ [Next]_vars => PatientInv'
  BY RegistrationStep, PatientStep DEF PatientInv
<1>3. PatientInv => PatientServedIsRegistered
  BY DEF PatientInv, PatientRegistered, PatientServedIsRegistered
<1> QED
  BY <1>1, <1>2, <1>3, TypeCorrect, PTL DEF Spec

\* On one stream schedules never go back.
THEOREM SchedulesInOrder == Spec => RoundsMonotone
<1>1. Init => OrderInv
  <2> SUFFICES ASSUME Init PROVE OrderInv
    OBVIOUS
  <2>1. TypeOK
    BY DEF Init, TypeOK, PC, Serving, Frames
  <2> QED
    BY <2>1 DEF Init, OrderInv, BlockedIsCurrent, SentUpToRound, OutNotOlder
<1>2. OrderInv /\ [Next]_vars => [\A c \in Conns : last'[c] >= last[c]]_vars
  <2> SUFFICES ASSUME OrderInv, Next, NEW c \in Conns
               PROVE  last'[c] >= last[c]
    BY DEF vars
  <2>1. last[c] \in Nat
    BY DEF OrderInv, TypeOK
  <2>2. ASSUME NEW d \in Conns, SendOk(d) PROVE last'[c] >= last[c]
    BY <2>1, <2>2 DEF SendOk, Goto, OrderInv, OutNotOlder, TypeOK
  <2>3. CASE UNCHANGED last
    BY <2>1, <2>3
  <2> QED
    BY <2>2, <2>3
    DEF Next, Connection, Reader, Handler, Master, sendVars,
        RecvHello, RecvHelloFails, LockChans, StoreChan, AddWorker, StreamFails,
        RemoveWorker, ReaderRecv, ReaderExit, SelectFrame, SelectClosed, PutMetric,
        PutImmig, SelectSchedule, SelectReply, SendFails, UpdateMetrics,
        IncorporateFails, Incorporate, SendPopulation, SendMasterMsgAsync,
        FillSchedule, FillDone, ScheduleSend, ApplyDone, MapRace
<1> QED
  BY <1>1, <1>2, OrderStep, TypeCorrect, PTL DEF Spec, RoundsMonotone
=============================================================================
