---------------------------- MODULE MasterComms ----------------------------
(***************************************************************************)
(* The master's side of the worker streams (comms/volpe/master.go) and the *)
(* four goroutines of master/master.go that feed on it: sendMetric,        *)
(* recvPopulation, sendPopulation and sendSchedule.                        *)
(*                                                                         *)
(* A connection c is one bidirectional gRPC stream: a StartStreams call,   *)
(* its handler loop and its reader goroutine.  masterSendChan is           *)
(* unbuffered and made per call, so the channel of a connection is named   *)
(* by the connection.  A connection is never reused; a worker that comes   *)
(* back opens a new one under the same workerID.                           *)
(*                                                                         *)
(* Messages are abstracted to what routing tells apart: a worker's frame   *)
(* is "metrics", "migration" or "other" (an unexpected hello, or empty); a *)
(* schedule message is the round that produced it; a population message    *)
(* has no content.  A worker's frames carry the ID of its hello, which     *)
(* WorkerComms puts into each.  A round sends a worker one message per     *)
(* problem, one after the other; one message stands for them.              *)
(***************************************************************************)
EXTENDS Naturals

CONSTANTS
  WorkerIDs,   \* worker_id values of the workers' config files
  Conns,       \* stream incarnations
  None,        \* nil: no map entry, no message in hand
  Impatient,   \* workers that may reconnect before their old stream is noticed dead
  MaxFrames,   \* bound: frames received per connection
  MaxRounds    \* bound: rounds of sendSchedule

ASSUME MasterCommsAssumption ==
  /\ None \notin Conns
  /\ None \notin WorkerIDs
  /\ Impatient \subseteq WorkerIDs
  /\ MaxFrames \in Nat
  /\ MaxRounds \in Nat

VARIABLES
  up,        \* connections whose gRPC stream still works
  who,       \* who[c]: workerID of the hello received on c
  pc,        \* pc[c]: where StartStreams and its handler loop are
  rd,        \* rd[c]: readerThread: "off", "recv", a frame in hand, or "closed"
  frames,    \* frames[c]: frames received so far
  channs,    \* mcs.channs: workerID -> channel
  workers,   \* ss.workers: workerID -> connection whose AddWorker made the entry
  metric,    \* sendMetric: workerID whose metrics it took off metricChan
  immig,     \* recvPopulation: workerID whose population it is incorporating
  emig,      \* recvPopulation: workerID whose reply it is pushing to emigChan
  spawned,   \* spawned[w]: sendMasterMsgAsync goroutines before the lookup
  parked,    \* parked[c]: sendMasterMsgAsync goroutines blocked on c's channel
  todo,      \* sendSchedule: workerIDs Apply has still to visit
  sched,     \* sendSchedule: "sleep", "fill" (it holds ss.mut) or "apply"
  blocked,   \* sendSchedule's sends <<c, round>> not yet taken by a handler
  round,     \* number of the current schedule
  out,       \* out[c]: round of the message c's handler is sending, 0: population
  last,      \* last[c]: newest round sent on c's stream
  fault      \* what ended the master process, or "none"

connVars  == <<up, who, pc, rd, frames>>
popVars   == <<immig, emig, spawned, parked>>
schedVars == <<todo, sched, blocked, round>>
sendVars  == <<out, last>>
vars == <<connVars, channs, workers, metric, popVars, schedVars, sendVars, fault>>

Frames  == {"metrics", "migration", "other"}
Serving == {"serve", "putMetric", "putImmig", "send"}
PC      == {"accept", "lock", "store", "add", "remove", "closed"} \cup Serving

TypeOK ==
  /\ up \in SUBSET Conns
  /\ who \in [Conns -> WorkerIDs \cup {None}]
  /\ pc \in [Conns -> PC]
  /\ rd \in [Conns -> {"off", "recv", "closed"} \cup Frames]
  /\ frames \in [Conns -> Nat]
  /\ channs \in [WorkerIDs -> Conns \cup {None}]
  /\ workers \in [WorkerIDs -> Conns \cup {None}]
  /\ metric \in WorkerIDs \cup {None}
  /\ immig \in WorkerIDs \cup {None}
  /\ emig \in WorkerIDs \cup {None}
  /\ spawned \in [WorkerIDs -> Nat]
  /\ parked \in [Conns -> Nat]
  /\ todo \in SUBSET WorkerIDs
  /\ sched \in {"sleep", "fill", "apply"}
  /\ blocked \in SUBSET (Conns \X Nat)
  /\ round \in Nat
  /\ out \in [Conns -> Nat]
  /\ last \in [Conns -> Nat]
  /\ fault \in {"none", "nilWorker", "mapRace"}

Init ==
  /\ up = Conns
  /\ who = [c \in Conns |-> None]
  /\ pc = [c \in Conns |-> "accept"]
  /\ rd = [c \in Conns |-> "off"]
  /\ frames = [c \in Conns |-> 0]
  /\ channs = [w \in WorkerIDs |-> None]
  /\ workers = [w \in WorkerIDs |-> None]
  /\ metric = None
  /\ immig = None
  /\ emig = None
  /\ spawned = [w \in WorkerIDs |-> 0]
  /\ parked = [c \in Conns |-> 0]
  /\ todo = {}
  /\ sched = "sleep"
  /\ blocked = {}
  /\ round = 0
  /\ out = [c \in Conns |-> 0]
  /\ last = [c \in Conns |-> 0]
  /\ fault = "none"

\* The process runs on; every step but a panic keeps it running.
Alive == fault = "none" /\ UNCHANGED fault

Goto(c, from, to) ==
  /\ pc[c] = from
  /\ pc' = [pc EXCEPT ![c] = to]

-----------------------------------------------------------------------------
(* StartStreams: hello, registration in channs, registration in the        *)
(* scheduler.                                                              *)

\* The first frame is a hello of worker w.  A worker that is not Impatient only
\* comes back once the handler of its previous stream has returned.
RecvHello(c, w) ==
  /\ Alive
  /\ c \in up
  /\ w \in Impatient \/ \A d \in Conns : who[d] = w => pc[d] = "closed"
  /\ Goto(c, "accept", "lock")
  /\ who' = [who EXCEPT ![c] = w]
  /\ UNCHANGED <<up, rd, frames, channs, workers, metric, popVars, schedVars, sendVars>>

\* The first Recv fails, or its frame is not a hello: the call returns an error.
RecvHelloFails(c) ==
  /\ Alive
  /\ Goto(c, "accept", "closed")
  /\ up' = up \ {c}
  /\ UNCHANGED <<who, rd, frames, channs, workers, metric, popVars, schedVars, sendVars>>

LockChans(c) ==
  /\ Alive
  /\ \A d \in Conns : pc[d] # "store"
  /\ Goto(c, "lock", "store")
  /\ UNCHANGED <<up, who, rd, frames, channs, workers, metric, popVars, schedVars, sendVars>>

StoreChan(c) ==
  /\ Alive
  /\ Goto(c, "store", "add")
  /\ channs' = [channs EXCEPT ![who[c]] = c]
  /\ UNCHANGED <<up, who, rd, frames, workers, metric, popVars, schedVars, sendVars>>

\* The scheduler's ss.mut is free.  Only FillSchedule holds it for longer than
\* one step.
SchedulerFree == sched # "fill"

\* sched.AddWorker; mcsStreamHandlerThread then starts readerThread.
AddWorker(c) ==
  /\ Alive
  /\ SchedulerFree
  /\ Goto(c, "add", "serve")
  /\ workers' = [workers EXCEPT ![who[c]] = c]
  /\ rd' = [rd EXCEPT ![c] = "recv"]
  /\ UNCHANGED <<up, who, frames, channs, metric, popVars, schedVars, sendVars>>

-----------------------------------------------------------------------------
(* readerThread.                                                           *)

ReaderRecv(c, f) ==
  /\ Alive
  /\ rd[c] = "recv"
  /\ c \in up
  /\ frames[c] < MaxFrames
  /\ rd' = [rd EXCEPT ![c] = f]
  /\ frames' = [frames EXCEPT ![c] = @ + 1]
  /\ UNCHANGED <<up, who, pc, channs, workers, metric, popVars, schedVars, sendVars>>

\* Mutant: readerThread returns without closing masterRecvChan.
ReaderExitSilently(c) ==
  /\ Alive
  /\ rd[c] = "recv"
  /\ c \notin up \/ pc[c] \in {"remove", "closed"}
  /\ rd' = [rd EXCEPT ![c] = "off"]
  /\ UNCHANGED <<up, who, pc, frames, channs, workers, metric, popVars, schedVars, sendVars>>

\* Recv fails, or the handler has cancelled the reader's context.
ReaderExit(c) ==
  /\ Alive
  /\ rd[c] = "recv"
  /\ c \notin up \/ pc[c] \in {"remove", "closed"}
  /\ rd' = [rd EXCEPT ![c] = "closed"]
  /\ UNCHANGED <<up, who, pc, frames, channs, workers, metric, popVars, schedVars, sendVars>>

\* The worker process or the network goes away (environment).
StreamFails(c) ==
  /\ Alive
  /\ c \in up
  /\ pc[c] \notin {"accept", "closed"}
  /\ up' = up \ {c}
  /\ UNCHANGED <<who, pc, rd, frames, channs, workers, metric, popVars, schedVars, sendVars>>

-----------------------------------------------------------------------------
(* mcsStreamHandlerThread: the select loop.  Nothing closes masterSendChan,*)
(* so its !ok branch has no action.                                        *)

FrameTarget(f) ==
  CASE f = "metrics"   -> "putMetric"
    [] f = "migration" -> "putImmig"
    [] f = "other"     -> "serve"

SelectFrame(c) ==
  /\ Alive
  /\ rd[c] \in Frames
  /\ Goto(c, "serve", FrameTarget(rd[c]))
  /\ rd' = [rd EXCEPT ![c] = "recv"]
  /\ UNCHANGED <<up, who, frames, channs, workers, metric, popVars, schedVars, sendVars>>

SelectClosed(c) ==
  /\ Alive
  /\ rd[c] = "closed"
  /\ Goto(c, "serve", "remove")
  /\ UNCHANGED <<up, who, rd, frames, channs, workers, metric, popVars, schedVars, sendVars>>

\* metricChan and immigChan are unbuffered: the handler waits for the reader.
PutMetric(c) ==
  /\ Alive
  /\ metric = None
  /\ Goto(c, "putMetric", "serve")
  /\ metric' = who[c]
  /\ UNCHANGED <<up, who, rd, frames, channs, workers, popVars, schedVars, sendVars>>

PutImmig(c) ==
  /\ Alive
  /\ immig = None
  /\ emig = None
  /\ Goto(c, "putImmig", "serve")
  /\ immig' = who[c]
  /\ UNCHANGED <<up, who, rd, frames, channs, workers, metric, emig, spawned, parked, schedVars, sendVars>>

SelectSchedule(c, r) ==
  /\ Alive
  /\ <<c, r>> \in blocked
  /\ Goto(c, "serve", "send")
  /\ out' = [out EXCEPT ![c] = r]
  /\ blocked' = blocked \ {<<c, r>>}
  /\ UNCHANGED <<up, who, rd, frames, channs, workers, metric, popVars, todo, sched, round, last>>

\* Mutant: the reply case does not wait for a sender.
SelectReplyUnguarded(c) ==
  /\ Alive
  /\ Goto(c, "serve", "send")
  /\ out' = [out EXCEPT ![c] = 0]
  /\ parked' = [parked EXCEPT ![c] = @ - 1]
  /\ UNCHANGED <<up, who, rd, frames, channs, workers, metric, immig, emig, spawned, schedVars, last>>

SelectReply(c) ==
  /\ Alive
  /\ parked[c] > 0
  /\ Goto(c, "serve", "send")
  /\ out' = [out EXCEPT ![c] = 0]
  /\ parked' = [parked EXCEPT ![c] = @ - 1]
  /\ UNCHANGED <<up, who, rd, frames, channs, workers, metric, immig, emig, spawned, schedVars, last>>

SendOk(c) ==
  /\ Alive
  /\ c \in up
  /\ Goto(c, "send", "serve")
  /\ last' = [last EXCEPT ![c] = IF out[c] = 0 THEN @ ELSE out[c]]
  /\ UNCHANGED <<up, who, rd, frames, channs, workers, metric, popVars, schedVars, out>>

\* Mutant: the handler ends on a failed Send without RemoveWorker.
SendFailsForgets(c) ==
  /\ Alive
  /\ c \notin up
  /\ Goto(c, "send", "closed")
  /\ UNCHANGED <<up, who, rd, frames, channs, workers, metric, popVars, schedVars, sendVars>>

\* Mutant: a failed Send reports the worker gone but the loop goes on.
SendFailsContinues(c) ==
  /\ Alive
  /\ c \notin up
  /\ Goto(c, "send", "serve")
  /\ workers' = [workers EXCEPT ![who[c]] = None]
  /\ UNCHANGED <<up, who, rd, frames, channs, metric, popVars, schedVars, sendVars>>

SendFails(c) ==
  /\ Alive
  /\ c \notin up
  /\ Goto(c, "send", "remove")
  /\ UNCHANGED <<up, who, rd, frames, channs, workers, metric, popVars, schedVars, sendVars>>

\* Mutant: the channel is taken out of channs together with the worker.
RemoveWorkerAndChan(c) ==
  /\ Alive
  /\ SchedulerFree
  /\ Goto(c, "remove", "closed")
  /\ workers' = [workers EXCEPT ![who[c]] = None]
  /\ channs' = [channs EXCEPT ![who[c]] = None]
  /\ up' = up \ {c}
  /\ UNCHANGED <<who, rd, frames, metric, popVars, schedVars, sendVars>>

\* sched.RemoveWorker, by workerID; then StartStreams returns, which ends the
\* stream.  channs keeps its entry.
RemoveWorker(c) ==
  /\ Alive
  /\ SchedulerFree
  /\ Goto(c, "remove", "closed")
  /\ workers' = [workers EXCEPT ![who[c]] = None]
  /\ up' = up \ {c}
  /\ UNCHANGED <<who, rd, frames, channs, metric, popVars, schedVars, sendVars>>

-----------------------------------------------------------------------------
(* The goroutines of master.go.                                            *)

\* Mutant: sendMetric does not go back to metricChan.
UpdateMetricsOnce ==
  /\ fault = "none"
  /\ SchedulerFree
  /\ metric # None
  /\ IF workers[metric] = None THEN fault' = "nilWorker" ELSE UNCHANGED fault
  /\ UNCHANGED <<connVars, channs, workers, metric, popVars, schedVars, sendVars>>

\* sendMetric: UpdateMetrics writes through the entry it looked up; a worker
\* that has no entry is a nil pointer and the process panics.
UpdateMetrics ==
  /\ fault = "none"
  /\ SchedulerFree
  /\ metric # None
  /\ IF workers[metric] = None
       THEN fault' = "nilWorker" /\ UNCHANGED metric
       ELSE metric' = None /\ UNCHANGED fault
  /\ UNCHANGED <<connVars, channs, workers, popVars, schedVars, sendVars>>

\* recvPopulation: IncorporatePopulation (module ContainerManager) fails, or
\* goes on to push the reply.
IncorporateFails ==
  /\ Alive
  /\ immig # None
  /\ immig' = None
  /\ UNCHANGED <<connVars, channs, workers, metric, emig, spawned, parked, schedVars, sendVars>>

Incorporate ==
  /\ Alive
  /\ immig # None
  /\ immig' = None
  /\ emig' = immig
  /\ UNCHANGED <<connVars, channs, workers, metric, spawned, parked, schedVars, sendVars>>

\* sendPopulation takes the reply off emigChan and spawns a goroutine for it.
SendPopulation ==
  /\ Alive
  /\ emig # None
  /\ emig' = None
  /\ spawned' = [spawned EXCEPT ![emig] = @ + 1]
  /\ UNCHANGED <<connVars, channs, workers, metric, immig, parked, schedVars, sendVars>>

\* sendMasterMsgAsync: SendMasterMessage reads channs, then blocks on the
\* channel it found; an unknown workerID is only logged.
SendMasterMsgAsync(w) ==
  /\ Alive
  /\ spawned[w] > 0
  /\ spawned' = [spawned EXCEPT ![w] = @ - 1]
  /\ parked' = IF channs[w] = None THEN parked
               ELSE [parked EXCEPT ![channs[w]] = @ + 1]
  /\ UNCHANGED <<connVars, channs, workers, metric, immig, emig, schedVars, sendVars>>

\* sendSchedule wakes up and FillSchedule (module PrelimScheduler) takes ss.mut.
FillSchedule ==
  /\ Alive
  /\ sched = "sleep"
  /\ round < MaxRounds
  /\ sched' = "fill"
  /\ round' = round + 1
  /\ UNCHANGED <<connVars, channs, workers, metric, popVars, todo, blocked, sendVars>>

\* FillSchedule has given some of the registered workers instances.
FillDone ==
  /\ Alive
  /\ sched = "fill"
  /\ sched' = "apply"
  /\ todo' \in SUBSET {w \in WorkerIDs : workers[w] # None}
  /\ UNCHANGED <<connVars, channs, workers, metric, popVars, round, blocked, sendVars>>

\* Apply's callback returns only when a handler has taken the message.
SenderNeverWaits == TRUE  \* mutant: a buffered or asynchronous send
SenderFree == blocked = {}

ScheduleSend(w) ==
  /\ Alive
  /\ sched = "apply"
  /\ SenderFree
  /\ w \in todo
  /\ todo' = todo \ {w}
  /\ blocked' = IF channs[w] = None THEN blocked
                ELSE blocked \cup {<<channs[w], round>>}
  /\ UNCHANGED <<connVars, channs, workers, metric, popVars, sched, round, sendVars>>

ApplyDone ==
  /\ Alive
  /\ sched = "apply"
  /\ SenderFree
  /\ todo = {}
  /\ sched' = "sleep"
  /\ UNCHANGED <<connVars, channs, workers, metric, popVars, todo, blocked, round, sendVars>>

\* SendMasterMessage reads channs without chans_mut.  A lookup while
\* StartStreams stores is a data race on a Go map: it returns some value (the
\* actions above), or the runtime detects it and ends the process.
MapRace ==
  /\ fault = "none"
  /\ \E c \in Conns : pc[c] = "store"
  /\ \/ \E w \in WorkerIDs : spawned[w] > 0
     \/ sched = "apply" /\ SenderFree /\ todo # {}
  /\ fault' = "mapRace"
  /\ UNCHANGED <<connVars, channs, workers, metric, popVars, schedVars, sendVars>>

-----------------------------------------------------------------------------
Connection(c) ==
  \/ \E w \in WorkerIDs : RecvHello(c, w)
  \/ RecvHelloFails(c)
  \/ LockChans(c)
  \/ StoreChan(c)
  \/ AddWorker(c)
  \/ StreamFails(c)
  \/ RemoveWorker(c)

Reader(c) ==
  \/ \E f \in Frames : ReaderRecv(c, f)
  \/ ReaderExit(c)

Handler(c) ==
  \/ SelectFrame(c)
  \/ SelectClosed(c)
  \/ PutMetric(c)
  \/ PutImmig(c)
  \/ \E r \in 1 .. round : SelectSchedule(c, r)
  \/ SelectReply(c)
  \/ SendOk(c)
  \/ SendFails(c)

Master ==
  \/ UpdateMetrics
  \/ IncorporateFails
  \/ Incorporate
  \/ SendPopulation
  \/ \E w \in WorkerIDs : SendMasterMsgAsync(w)
  \/ FillSchedule
  \/ FillDone
  \/ \E w \in WorkerIDs : ScheduleSend(w)
  \/ ApplyDone
  \/ MapRace

Next ==
  \/ \E c \in Conns : Connection(c) \/ Reader(c) \/ Handler(c)
  \/ Master

Spec == Init /\ [][Next]_vars

(* Fairness.  A goroutine that can step is scheduled (WF).  Go's select     *)
(* chooses uniformly among the ready cases, senders queue in FIFO order on  *)
(* a channel and a Mutex hands over to a waiter that starves, so a case or  *)
(* a lock that is there again and again is taken (SF).                      *)
(* Not fair, because the code lets them last for ever: FillDone (a problem  *)
(* of no memory, module PrelimScheduler), Incorporate and IncorporateFails  *)
(* (GetRandom has no timeout, module ContainerManager, and pcMut may be     *)
(* kept by RemoveResultListener, module ResultStreams), and SendOk (a       *)
(* worker that stays connected and reads nothing).  The properties below    *)
(* name them.  Nothing is assumed of the workers: frames, connections and   *)
(* failures may or may not happen.                                          *)
Fairness ==
  /\ \A c \in Conns :
       /\ WF_vars(ReaderExit(c))
       /\ WF_vars(SelectFrame(c) \/ SelectClosed(c) \/ SendFails(c))
       /\ SF_vars(\/ LockChans(c) \/ StoreChan(c) \/ AddWorker(c) \/ RemoveWorker(c)
                  \/ PutMetric(c) \/ PutImmig(c)
                  \/ \E r \in 1 .. round : SelectSchedule(c, r))
  /\ SF_vars(UpdateMetrics)
  /\ WF_vars(SendPopulation)
  /\ \A w \in WorkerIDs : WF_vars(SendMasterMsgAsync(w))
  /\ WF_vars(ApplyDone \/ \E w \in WorkerIDs : ScheduleSend(w))

FairSpec == Spec /\ Fairness

\* The same, where fills end, containers answer and connected workers read.
PromptSpec ==
  /\ FairSpec
  /\ WF_vars(FillDone)
  /\ WF_vars(Incorporate \/ IncorporateFails)
  /\ \A c \in Conns : WF_vars(SendOk(c))

-----------------------------------------------------------------------------
(* Safety.                                                                 *)

\* The scheduler never keeps a ghost: an entry of ss.workers was made by a
\* connection of that worker whose handler has not returned yet, whichever
\* way the handler ends (closed reader or failed Send) and however old and
\* new streams of one worker interleave.
NoGhostWorker ==
  \A w \in WorkerIDs : workers[w] # None =>
    /\ who[workers[w]] = w
    /\ pc[workers[w]] \in Serving \cup {"remove"}

\* A channel is only reached under the ID of the worker at its other end, and
\* every worker the scheduler knows or Apply is about to address has one: a
\* schedule send never fails with "unknown workerID" and never reaches
\* another worker's stream.
ScheduleAddressable ==
  /\ \A w \in WorkerIDs : channs[w] # None => who[channs[w]] = w
  /\ \A w \in WorkerIDs : workers[w] # None \/ w \in todo => channs[w] # None

\* On one stream schedules never go back: after a message of round r no
\* message of an older round is sent, because Apply blocks in each send.
RoundsMonotone ==
  [][\A c \in Conns : last'[c] >= last[c]]_vars

\* A worker that is being served is known to the scheduler through the entry
\* of its own connection, if it never reconnects early: AddWorker and
\* RemoveWorker of its successive streams then come in order.
PatientServedIsRegistered ==
  \A c \in Conns :
    pc[c] \in Serving /\ who[c] \notin Impatient => workers[who[c]] = c

\* Every worker that is being served over a working stream is known to the
\* scheduler, also one that came back early: scheduler.go:11-12 says that
\* AddWorker adds a new worker and RemoveWorker removes an existing one.
ServedIsRegistered ==
  \A c \in Conns : c \in up /\ pc[c] \in Serving => workers[who[c]] # None

\* sendMetric only updates the metrics of a worker the scheduler has, as
\* scheduler.go:13 says of UpdateMetrics.
MetricsOfKnownWorker ==
  metric # None => workers[metric] # None

-----------------------------------------------------------------------------
(* Liveness.                                                               *)

\* c's handler waits to hand over a migration while recvPopulation is still
\* incorporating an earlier one.
BehindIncorporate(c) == immig # None /\ pc[c] = "putImmig"

\* A worker whose stream broke is eventually taken out of the scheduler,
\* whatever its handler was waiting for when the stream broke, unless a fill
\* never gives ss.mut back or the handler is behind an IncorporatePopulation
\* that never returns: nothing else keeps a ghost in the schedule.
DepartedWorkerRemoved ==
  \A c \in Conns :
    []<>SchedulerFree /\ []<>~BehindIncorporate(c) =>
      ((c \notin up /\ pc[c] \in Serving) ~> (pc[c] = "closed" \/ fault # "none"))

\* c's worker neither reads what its handler sends nor goes away.
NotReading(c) == c \in up /\ pc[c] = "send"

\* A schedule message is eventually taken by the handler it waits for, or that
\* handler leaves, or it is behind an IncorporatePopulation that never returns
\* or a worker that never reads: for no other reason does Apply block for ever.
ScheduleSendTaken ==
  \A c \in Conns :
    []<>~BehindIncorporate(c) /\ []<>~NotReading(c) =>
      ((\E r \in 1 .. round : <<c, r>> \in blocked)
         ~> \/ \A r \in 1 .. round : <<c, r>> \notin blocked
            \/ pc[c] \in {"remove", "closed"}
            \/ fault # "none")

\* Every round of sendSchedule ends, so that the next one can be sent
\* (migration.txt:10).  Checked under PromptSpec, so that the only thing left
\* to wait for is a worker that has gone.
RoundCompletes ==
  (sched = "apply") ~> (sched = "sleep" \/ fault # "none")
=============================================================================
