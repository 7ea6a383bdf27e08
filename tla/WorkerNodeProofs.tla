-------------------------- MODULE WorkerNodeProofs --------------------------
(***************************************************************************)
(* Theorems about WorkerNode for every value of its constants: types, the  *)
(* containers of restarted workers, the image file of running containers,  *)
(* and the image a worker registers.  ImageTransferProofs has the lemmas   *)
(* about the download.                                                     *)
(***************************************************************************)
EXTENDS WorkerNode, ImageTransferProofs

-----------------------------------------------------------------------------
(* The inductive invariant.                                                 *)

\* A process that is gone leaves nothing but its containers.
ProcessInv ==
  ~up =>
    /\ hand = None
    /\ adj.pc = "idle"
    /\ image = None
    /\ table = None
    /\ exited = 0
    /\ hidden = 0

\* adjInstHandler fetches an image it does not have, and works on the table
\* only with one.
HandlerInv ==
  /\ adj.pc = "fetch" <=> cli.pc # "idle"
  /\ adj.pc = "fetch" => image = None
  /\ adj.pc \in {"apply", "grow"} => image # None
  /\ table # None => image # None
  /\ adj.pc = "grow" => table # None /\ adj.n > 0 /\ table + adj.n <= MaxInstances

\* What earlier processes left, and what this one has lost sight of.
OrphansInv ==
  IF up THEN boots > 0 /\ hidden + orphans <= MaxInstances * (boots - 1) + strays
        ELSE orphans <= MaxInstances * boots + strays

Inv ==
  /\ TypeOK
  /\ ProcessInv
  /\ HandlerInv
  /\ OrphansInv
  /\ TransferInv

-----------------------------------------------------------------------------
(* Frames and arithmetic.                                                   *)

\* The number of entries, and of those that run.
LEMMA EntriesType ==
  ASSUME TypeOK
  PROVE  /\ Entries \in Counts
         /\ Running \in Counts
         /\ table # None => Entries = table
BY WorkerNodeAssumption DEF TypeOK, Entries, Running, Counts

\* Another process may leave as many containers again.
LEMMA OneMoreBoot ==
  ASSUME NEW b \in Nat
  PROVE  /\ MaxInstances * (b + 1) = MaxInstances * b + MaxInstances
         /\ MaxInstances * b \in Nat
BY WorkerNodeAssumption

LEMMA LossCounted ==
  \A h, h2, o, o2, s, s2 \in Nat :
    h2 <= h /\ o2 - o = s2 - s => h2 + o2 - (h + o) <= s2 - s
OBVIOUS

LEMMA LossBounded ==
  ASSUME NEW h \in Nat, NEW h2 \in Nat, NEW o \in Nat, NEW o2 \in Nat,
         NEW s \in Nat, NEW s2 \in Nat, NEW b \in Nat,
         h + o <= b + s,
         h2 + o2 - (h + o) <= s2 - s
  PROVE  h2 + o2 <= b + s2
OBVIOUS

\* The containers a process may leave behind.
LEMMA OwnType ==
  ASSUME TypeOK, HandlerInv, NEW n \in Own
  PROVE  n \in Nat /\ n <= MaxInstances + hidden
<1>1. Running \in Counts /\ hidden \in Nat /\ MaxInstances \in Nat
  BY EntriesType, WorkerNodeAssumption DEF TypeOK
<1>2. ASSUME adj.pc = "grow" PROVE Running + 1 <= MaxInstances
  <2>1. /\ table \in Nat /\ adj.n \in Nat /\ adj.n > 0 /\ table + adj.n <= MaxInstances
        /\ Entries = table
        /\ exited \in Nat
    BY <1>2, EntriesType DEF HandlerInv, TypeOK, Counts, Entries
  <2> QED
    BY <1>1, <2>1 DEF Running
<1> QED
  BY <1>1, <1>2 DEF Own, Counts

\* What each action is to the transfer.
LEMMA StepOfTransfer == TypeOK /\ HandlerInv /\ [Next]_vars => ImageStep
<1> SUFFICES ASSUME TypeOK, HandlerInv, [Next]_vars PROVE ImageStep
  OBVIOUS
<1> USE DEF ImageStep
<1>1. events \in 0 .. MaxEvents /\ events \in events .. MaxEvents
  BY DEF TypeOK, ImageTypeOK
<1>2. Event => events' \in events .. MaxEvents
  BY <1>1, ImageTransferAssumption DEF Event
<1>3. ASSUME NEW k, Dies(k) PROVE Leave
  BY <1>3 DEF Dies, Leave
<1>4. CASE Take
  BY <1>1, <1>4 DEF Take, HandlerInv, Ask, Elsewhere, imageVars, masterImage, download
<1>5. CASE FetchFails
  BY <1>5 DEF FetchFails
<1>6. CASE Fetched
  BY <1>6 DEF Fetched
<1>7. CASE Apply \/ Launch \/ LaunchFails
  BY <1>1, <1>7 DEF Apply, Launch, LaunchFails, Elsewhere
<1>8. CASE MainReturns
  BY <1>3, <1>8 DEF MainReturns
<1>9. CASE Killed
  BY <1>3, <1>9 DEF Killed
<1>10. CASE Register \/ Transfer
  BY <1>10 DEF Register, Transfer
<1>11. CASE Boot \/ (\E n \in Counts : Assign(n)) \/ Displace \/ RemoveProblem
  BY <1>2, <1>11 DEF Boot, Assign, Displace, RemoveProblem, Elsewhere
<1>12. CASE StreamBreaks \/ Tell \/ TellNobody \/ Recv \/ ContainerExits \/ SendsOverlap
  BY <1>1, <1>12
  DEF StreamBreaks, Tell, TellNobody, Recv, ContainerExits, SendsOverlap, Elsewhere
<1>13. CASE UNCHANGED vars
  BY <1>1, <1>13 DEF vars, Elsewhere
<1> QED
  BY <1>4, <1>5, <1>6, <1>7, <1>8, <1>9, <1>10, <1>11, <1>12, <1>13 DEF Next, Handler

\* The environment's steps are counted up.
LEMMA EventsGrow == ImageTypeOK /\ ImageStep => events' >= events
<1> SUFFICES ASSUME ImageTypeOK, ImageStep PROVE events' >= events
  OBVIOUS
<1> USE ImageTransferAssumption
<1>0. events \in 0 .. MaxEvents
  BY DEF ImageTypeOK
<1>e. ASSUME Event PROVE events' >= events
  BY <1>0, <1>e DEF Event
<1>1. CASE Upload
  BY <1>0, <1>1, <1>e DEF Upload, CreateFile, CopyBlock, CopyFails, NewProblem, RegisterImage
<1>2. CASE Answer \/ Serve
  BY <1>0, <1>2 DEF Answer, Serve, Refuse, Open, ServeChunk, ServeEnds
<1>3. CASE Client
  BY <1>0, <1>3, <1>e DEF Client, RecvDetails, RecvChunk, WriteFails
<1> QED
  BY <1>0, <1>1, <1>2, <1>3, <1>e
  DEF ImageStep, RecvEof, CallBreaks, Received, Ask, Leave, Elsewhere

-----------------------------------------------------------------------------
(* Types.                                                                   *)

LEMMA TypeStep == TypeOK /\ HandlerInv /\ [Next]_vars => TypeOK'
<1> SUFFICES ASSUME TypeOK, HandlerInv, [Next]_vars PROVE TypeOK'
  OBVIOUS
<1>1. ImageTypeOK' /\ events' >= events
  BY ImageTypeStep, StepOfTransfer, EventsGrow DEF TypeOK
<1>2. boots \in 0 .. events' /\ (Event => boots + 1 \in 0 .. events')
  <2>1. events \in Nat /\ boots \in 0 .. events
    BY DEF TypeOK, ImageTypeOK
  <2>2. events' \in Nat
    BY <1>1 DEF ImageTypeOK
  <2> QED
    BY <1>1, <2>1, <2>2 DEF Event
<1> USE WorkerNodeAssumption
    DEF TypeOK, Counts, Free, schedule, process, messages, containers
<1>3. CASE Boot
  BY <1>1, <1>2, <1>3 DEF Boot, NewWorkerComms, Entries
<1>4. ASSUME NEW k \in Nat, Dies(k) PROVE TypeOK'
  <2>1. inbox' \in Seq(Counts)
    BY <1>4, Empty DEF Dies
  <2>2. adj' \in [pc : {"idle", "fetch", "apply", "grow"}, n : Counts]
    BY <1>4 DEF Dies
  <2>3. exited' \in 0 .. Entries' /\ orphans' \in Nat
    BY <1>4 DEF Dies, Entries
  <2> QED
    BY <1>1, <1>2, <1>4, <2>1, <2>2, <2>3 DEF Dies
<1>5. CASE MainReturns
  BY <1>4, <1>5, OwnType DEF MainReturns
<1>6. CASE Killed
  BY <1>4, <1>6, OwnType DEF Killed
<1>7. CASE StreamBreaks \/ SendsOverlap
  BY <1>1, <1>7 DEF StreamBreaks, SendsOverlap, Entries
<1>8. ASSUME NEW n \in Counts, Assign(n) PROVE TypeOK'
  BY <1>1, <1>2, <1>8 DEF Assign, Entries
<1>21. CASE Displace \/ RemoveProblem
  <2>1. /\ target' = 0 /\ owed' \in BOOLEAN /\ displaced' \in BOOLEAN
        /\ UNCHANGED <<process, messages, adj, image, containers>>
    BY <1>21 DEF Displace, RemoveProblem
  <2> QED
    BY <1>1, <1>2, <2>1 DEF Entries
<1>9. CASE Tell
  <2>1. inbox' \in Seq(Counts)
    <3>1. inbox' = Append(inbox, IF owed THEN 0 ELSE target) /\ inbox \in Seq(Counts)
      BY <1>9 DEF Tell
    <3>2. (IF owed THEN 0 ELSE target) \in Counts
      OBVIOUS
    <3> QED
      BY ONLY <3>1, <3>2, AppendProperties
  <2> QED
    BY <1>1, <1>2, <1>9, <2>1 DEF Tell, Entries
<1>20. CASE TellNobody
  BY <1>1, <1>2, <1>20 DEF TellNobody, Entries
<1>10. CASE Recv
  <2>1. hand' \in Counts /\ inbox' \in Seq(Counts)
    BY <1>10, HeadTailProperties DEF Recv
  <2> QED
    BY <1>1, <1>10, <2>1 DEF Recv, Entries
<1>11. CASE Take
  <2>1. adj' \in [pc : {"idle", "fetch", "apply", "grow"}, n : Counts]
    BY <1>11 DEF Take
  <2> QED
    BY <1>1, <1>11, <2>1 DEF Take, Entries
<1>12. CASE FetchFails
  <2>1. adj' \in [pc : {"idle", "fetch", "apply", "grow"}, n : Counts]
    BY <1>12 DEF FetchFails
  <2> QED
    BY <1>1, <1>2, <1>12, <2>1 DEF FetchFails, Entries
<1>13. CASE Fetched
  <2>1. image' \in Images
    BY <1>13 DEF Fetched, Images, ImageTypeOK, Clients
  <2> QED
    BY <1>1, <1>13, <2>1 DEF Fetched, Received, Entries
<1>14. CASE Apply
  <2>1. adj' \in [pc : {"idle", "fetch", "apply", "grow"}, n : Counts]
    BY <1>14, EntriesType DEF Apply, GrowTo
  <2>2. /\ table' \in Counts \cup {None} /\ exited' \in 0 .. Entries'
        /\ hidden' \in Nat
    BY <1>14 DEF Apply, Entries
  <2>3. orphans' \in Nat /\ strays' \in 0 .. MaxStrays
    <3>1. \A d \in Int : Stop(d) => orphans' \in Nat /\ strays' \in 0 .. MaxStrays
      BY DEF Stop, Stray
    <3>2. Running + hidden - (Running' + hidden') \in Int
      <4>1. Running \in Nat /\ hidden \in Nat
        BY EntriesType
      <4>2. Entries' \in Nat /\ exited' \in Nat
        BY <2>2 DEF Entries
      <4> QED
        BY ONLY <2>2, <4>1, <4>2 DEF Running
    <3> QED
      BY <1>14, <3>1, <3>2 DEF Apply
  <2> QED
    BY <1>1, <1>14, <2>1, <2>2, <2>3 DEF Apply
<1>15. CASE Launch
  <2>1. table \in Nat /\ table < MaxInstances /\ adj.n \in Nat /\ adj.n > 0
    BY <1>15 DEF Launch, HandlerInv
  <2>2. adj' \in [pc : {"idle", "fetch", "apply", "grow"}, n : Counts]
    <3>1. CASE adj' = Free
      BY <3>1
    <3>2. CASE adj' = [adj EXCEPT !.n = @ - 1]
      <4>1. adj \in [pc : {"idle", "fetch", "apply", "grow"}, n : Counts]
        OBVIOUS
      <4>2. adj.n - 1 \in Counts
        BY <2>1, <4>1
      <4> QED
        BY ONLY <3>2, <4>1, <4>2
    <3> QED
      BY <1>15, <3>1, <3>2 DEF Launch
  <2>3. /\ table' \in Counts \cup {None} /\ exited' \in 0 .. Entries'
        /\ hidden' \in Nat /\ strays' \in 0 .. MaxStrays
    <3>1. exited \in 0 .. table /\ hidden \in Nat /\ strays \in 0 .. MaxStrays /\ table # None
      BY <1>15, <2>1 DEF Entries
    <3>2. CASE IDCollides
      BY <2>1, <3>1, <3>2 DEF IDCollides, Stray, Entries
    <3>3. CASE table' = table + 1 /\ UNCHANGED <<exited, hidden, strays>>
      BY <2>1, <3>1, <3>3 DEF Entries
    <3> QED
      BY <1>15, <3>2, <3>3 DEF Launch
  <2>4. UNCHANGED <<schedule, process, messages, image, orphans>>
    BY <1>15 DEF Launch
  <2> QED
    BY <1>1, <1>2, <2>2, <2>3, <2>4
<1>16. CASE LaunchFails
  <2>1. orphans' \in Nat /\ strays' \in 0 .. MaxStrays
    BY <1>16 DEF LaunchFails, Stray
  <2> QED
    BY <1>1, <1>16, <2>1 DEF LaunchFails, Entries
<1>17. CASE ContainerExits
  <2>1. exited' \in 0 .. Entries /\ hidden' \in Nat /\ orphans' \in Nat
    <3>1. Entries \in Nat /\ exited \in 0 .. Entries /\ hidden \in Nat /\ orphans \in Nat
      BY EntriesType
    <3> QED
      BY ONLY <1>17, <3>1 DEF ContainerExits
  <2>2. UNCHANGED <<schedule, process, messages, adj, image, table, strays>>
    BY <1>17 DEF ContainerExits
  <2> QED
    BY <1>1, <1>2, <2>1, <2>2 DEF Entries
<1>18. CASE Register \/ Transfer
  <2>1. UNCHANGED <<schedule, process, messages, adj, image, containers>>
    BY <1>18 DEF Register, Transfer
  <2> QED
    BY <1>1, <1>2, <2>1 DEF Entries
<1>19. CASE UNCHANGED vars
  BY <1>1, <1>19 DEF vars, Entries
<1> QED
  BY <1>3, <1>5, <1>6, <1>7, <1>8, <1>9, <1>10, <1>11, <1>12, <1>13, <1>14, <1>15, <1>16,
     <1>17, <1>18, <1>19, <1>20, <1>21 DEF Next, Handler

-----------------------------------------------------------------------------
(* The parts of the invariant.                                              *)

LEMMA InitInv == Init => Inv
<1> SUFFICES ASSUME Init PROVE Inv
  OBVIOUS
<1>1. ImageTypeOK /\ TransferInv
  BY ImageInitType, TransferInit DEF Init
<1>2. TypeOK
  <2>1. events = 0
    BY DEF Init, ImageInit
  <2> QED
    <3>1. inbox \in Seq(Counts)
      BY Empty DEF Init
    <3>2. 0 \in Counts
      BY WorkerNodeAssumption DEF Counts
    <3>3. adj \in [pc : {"idle", "fetch", "apply", "grow"}, n : Counts]
      BY <3>2 DEF Init, Free
    <3>4. /\ boots \in 0 .. events /\ exited \in 0 .. Entries
          /\ hidden \in Nat /\ orphans \in Nat /\ strays \in 0 .. MaxStrays
      BY <2>1, WorkerNodeAssumption DEF Init, Entries
    <3>5. /\ owed \in BOOLEAN /\ displaced \in BOOLEAN /\ up \in BOOLEAN /\ stream \in BOOLEAN /\ (stream => up)
          /\ target \in Counts
          /\ hand \in Counts \cup {None}
          /\ image \in Images \cup {None}
          /\ table \in Counts \cup {None}
      BY DEF Init
    <3> QED
      BY <1>1, <3>1, <3>3, <3>4, <3>5 DEF TypeOK
<1>3. ProcessInv /\ HandlerInv
  BY DEF Init, ImageInit, ProcessInv, HandlerInv, Idle, Free
<1>4. OrphansInv
  BY WorkerNodeAssumption DEF Init, OrphansInv
<1> QED
  BY <1>1, <1>2, <1>3, <1>4 DEF Inv

\* Only a process that runs has a stream, a count in hand or containers.
LEMMA ProcessStep == Inv /\ [Next]_vars => ProcessInv'
<1> SUFFICES ASSUME Inv, [Next]_vars PROVE ProcessInv'
  OBVIOUS
<1> USE DEF Inv, ProcessInv, schedule, process, messages, containers
<1>1. ASSUME NEW k, Dies(k) PROVE ProcessInv'
  BY <1>1 DEF Dies, Free
<1>2. CASE MainReturns \/ Killed
  BY <1>1, <1>2 DEF MainReturns, Killed
<1>3. CASE Boot \/ StreamBreaks \/ (\E n \in Counts : Assign(n)) \/ Displace
           \/ RemoveProblem \/ Tell \/ TellNobody \/ Recv
  BY <1>3 DEF Boot, StreamBreaks, Assign, Displace, RemoveProblem, Tell, TellNobody, Recv
<1>4. CASE Take
  BY <1>4 DEF Take
<1>5. CASE FetchFails \/ Fetched
  BY <1>5 DEF FetchFails, Fetched, HandlerInv, RecvEof, Waiting, CallBreaks, Received
<1>6. CASE Apply \/ Launch \/ LaunchFails
  BY <1>6 DEF Apply, Launch, LaunchFails
<1>7. CASE ContainerExits
  BY <1>7, WorkerNodeAssumption DEF ContainerExits, Entries, TypeOK
<1>8. CASE SendsOverlap \/ Register \/ Transfer \/ UNCHANGED vars
  BY <1>8 DEF SendsOverlap, Register, Transfer, vars
<1> QED
  BY <1>2, <1>3, <1>4, <1>5, <1>6, <1>7, <1>8 DEF Next, Handler

\* The handler asks only for an image it does not have, and is back from its
\* call before it does anything else.
LEMMA HandlerStep == Inv /\ [Next]_vars => HandlerInv'
<1> SUFFICES ASSUME Inv, [Next]_vars PROVE HandlerInv'
  OBVIOUS
<1> USE DEF Inv, HandlerInv, schedule, process, messages, containers, imageVars, masterImage,
            download
<1>1. ASSUME NEW k, Dies(k) PROVE HandlerInv'
  BY <1>1 DEF Dies, Return, Idle, Free
<1>2. CASE MainReturns \/ Killed
  BY <1>1, <1>2 DEF MainReturns, Killed
<1>3. CASE Boot \/ StreamBreaks \/ (\E n \in Counts : Assign(n)) \/ Displace
           \/ RemoveProblem \/ Tell \/ TellNobody \/ Recv
  BY <1>3 DEF Boot, StreamBreaks, Assign, Displace, RemoveProblem, Tell, TellNobody, Recv
<1>4. CASE Take
  <2>1. adj'.pc = (IF HasImage THEN "apply" ELSE "fetch")
    BY <1>4 DEF Take
  <2>2. cli'.pc = (IF HasImage THEN "idle" ELSE "ask")
    BY <1>4 DEF Take, Idle
  <2> QED
    BY <1>4, <2>1, <2>2 DEF Take, HasImage
<1>5. CASE FetchFails
  <2>1. cli.pc # "idle" /\ cli'.pc = "idle"
    BY <1>5 DEF FetchFails, RecvEof, Waiting, CallBreaks, Return, Idle
  <2>2. adj'.pc = "idle"
    BY <1>5 DEF FetchFails, Free
  <2> QED
    BY <1>5, <2>1, <2>2 DEF FetchFails
<1>6. CASE Fetched
  <2>1. cli.pc # "idle" /\ cli'.pc = "idle"
    BY <1>6 DEF Fetched, Received, Return, Idle
  <2>2. adj'.pc = "apply"
    BY <1>6 DEF Fetched, TypeOK
  <2>3. image' # None
    <3>1. image' \in Images
      BY <1>6 DEF Fetched, Images, TypeOK, ImageTypeOK, Clients
    <3> QED
      BY <3>1, WorkerNodeAssumption
  <2> QED
    BY <1>6, <2>1, <2>2, <2>3 DEF Fetched
<1>7. CASE Apply
  <2>1. adj' = IF adj.n > Entries THEN [pc |-> "grow", n |-> adj.n - Entries] ELSE Free
    BY <1>7 DEF Apply, GrowTo
  <2>2. adj.n > Entries => table' = Entries
    BY <1>7, EntriesType DEF Apply, TypeOK, Counts
  <2>3. adj.n \in Nat /\ adj.n <= MaxInstances /\ Entries \in Nat
    BY EntriesType DEF TypeOK, Counts
  <2> QED
    BY <1>7, <2>1, <2>2, <2>3, WorkerNodeAssumption DEF Apply, Free
<1>8. CASE Launch
  <2>1. /\ table \in Nat /\ adj.n \in Nat /\ adj.n > 0 /\ table + adj.n <= MaxInstances
        /\ adj.pc = "grow"
    BY <1>8 DEF Launch, TypeOK, Counts
  <2>2. table' \in {table, table + 1}
    BY <1>8 DEF Launch, IDCollides
  <2>3. \/ adj.n = 1 /\ adj' = Free
        \/ adj.n # 1 /\ adj'.pc = "grow" /\ adj'.n = adj.n - 1
    BY <1>8 DEF Launch, TypeOK
  <2>4. UNCHANGED <<cli, image>>
    BY <1>8 DEF Launch
  <2>5. table' # None
    BY <2>1, <2>2, WorkerNodeAssumption
  <2> QED
    BY <2>1, <2>2, <2>3, <2>4, <2>5, WorkerNodeAssumption DEF Free
<1>9. CASE LaunchFails
  BY <1>9 DEF LaunchFails, Free
<1>10. CASE ContainerExits \/ SendsOverlap \/ UNCHANGED vars
  BY <1>10 DEF ContainerExits, SendsOverlap, vars
<1>11. CASE Register
  BY <1>11 DEF Register, Upload, CreateFile, CopyBlock, CopyFails, NewProblem, RegisterImage
<1>12. CASE Transfer
  <2>1. cli'.pc = "idle" <=> cli.pc = "idle"
    <3>1. CASE Answer \/ Serve
      BY <3>1 DEF Answer, Serve, Refuse, Open, ServeChunk, ServeEnds
    <3>2. CASE RecvDetails
      <4>1. cli'.pc = "recv" /\ cli.pc = "ask"
        BY <3>2 DEF RecvDetails, TypeOK, ImageTypeOK, Clients
      <4> QED
        BY <4>1
    <3>3. CASE RecvChunk
      BY <3>3 DEF RecvChunk, TypeOK, ImageTypeOK, Clients
    <3>4. ASSUME NEW k \in 0 .. Chunk - 1, WriteFails(k) PROVE cli'.pc = cli.pc
      BY <3>4 DEF WriteFails, TypeOK, ImageTypeOK, Clients
    <3> QED
      BY <1>12, <3>1, <3>2, <3>3, <3>4 DEF Transfer, Client
  <2> QED
    BY <1>12, <2>1 DEF Transfer
<1> QED
  BY <1>2, <1>3, <1>4, <1>5, <1>6, <1>7, <1>8, <1>9, <1>10, <1>11, <1>12 DEF Next, Handler

\* A process that ends leaves at most MaxInstances containers and those it had
\* lost sight of, and only one that is started can leave more.
LEMMA OrphansStep == Inv /\ [Next]_vars => OrphansInv'
<1> SUFFICES ASSUME Inv, [Next]_vars PROVE OrphansInv'
  OBVIOUS
<1> USE DEF Inv, OrphansInv, schedule, process, messages, containers
<1>1. boots \in Nat /\ orphans \in Nat /\ hidden \in Nat /\ strays \in Nat
  BY ImageTransferAssumption, WorkerNodeAssumption DEF TypeOK, ImageTypeOK
<1>2. /\ MaxInstances * boots \in Nat
      /\ up => boots > 0 /\ MaxInstances * (boots - 1) \in Nat
      /\ up => MaxInstances * boots = MaxInstances * (boots - 1) + MaxInstances
  <2>1. up => boots - 1 \in Nat /\ boots - 1 + 1 = boots
    BY <1>1
  <2> QED
    BY <1>1, <2>1, OneMoreBoot
<1>3. ASSUME NEW n \in Own, NEW k \in 0 .. n, up, Dies(k) PROVE OrphansInv'
  <2>1. k \in Nat /\ k <= MaxInstances + hidden /\ MaxInstances \in Nat
    <3>1. n \in Nat /\ n <= MaxInstances + hidden
      BY OwnType
    <3> QED
      BY ONLY <1>1, <3>1, WorkerNodeAssumption
  <2>2. hidden + orphans <= MaxInstances * (boots - 1) + strays
    BY <1>3
  <2>3. orphans + k <= MaxInstances * boots + strays
    BY <1>1, <1>2, <1>3, <2>1, <2>2
  <2> QED
    BY <1>3, <2>3 DEF Dies
<1>4. CASE MainReturns \/ Killed
  BY <1>3, <1>4, OwnType DEF MainReturns, Killed
<1>5. CASE Boot
  <2>1. boots' - 1 = boots /\ boots' > 0 /\ hidden = 0
    BY <1>1, <1>5 DEF Boot, ProcessInv
  <2> QED
    BY <1>1, <1>5, <2>1 DEF Boot
<1>6. CASE ContainerExits
  <2>1. /\ orphans' <= orphans /\ orphans' \in Nat /\ hidden' <= hidden /\ hidden' \in Nat
        /\ UNCHANGED <<up, boots, strays>>
    BY <1>1, <1>6 DEF ContainerExits
  <2> QED
    BY <1>1, <1>2, <2>1
<1>7. CASE StreamBreaks \/ (\E n \in Counts : Assign(n)) \/ Displace \/ RemoveProblem
           \/ Tell \/ TellNobody \/ Recv \/ SendsOverlap
  BY <1>7 DEF StreamBreaks, Assign, Displace, RemoveProblem, Tell, TellNobody, Recv,
              SendsOverlap
<1>8. CASE Take \/ FetchFails \/ Fetched
  BY <1>8 DEF Take, FetchFails, Fetched
\* What is lost sight of is counted.
<1>9. ASSUME up, UNCHANGED <<up, boots>>,
             hidden' \in Nat, orphans' \in Nat, strays' \in Nat,
             hidden' + orphans' - (hidden + orphans) <= strays' - strays
      PROVE  OrphansInv'
  <2> PICK b \in Nat : b = MaxInstances * (boots - 1)
    BY <1>2, <1>9
  <2>1. hidden + orphans <= b + strays
    BY <1>9
  <2>2. boots' > 0 /\ up' /\ MaxInstances * (boots' - 1) = b
    BY <1>2, <1>9
  <2>3. hidden' + orphans' <= b + strays'
    <3>1. PICK h2 \in Nat, o2 \in Nat, s2 \in Nat :
            h2 = hidden' /\ o2 = orphans' /\ s2 = strays'
      BY <1>9
    <3>2. h2 + o2 - (hidden + orphans) <= s2 - strays
      BY <1>9, <3>1
    <3>3. h2 + o2 <= b + s2
      BY ONLY <1>1, <2>1, <3>2, LossBounded
    <3> QED
      BY <3>1, <3>3
  <2> QED
    BY <2>2, <2>3
<1>10. CASE Apply \/ Launch \/ LaunchFails
  <2>1. up /\ UNCHANGED <<up, boots>>
    BY <1>10 DEF ProcessInv, Apply, Launch, LaunchFails
  <2>2. hidden' \in Nat /\ orphans' \in Nat /\ strays' \in Nat
    BY TypeStep, WorkerNodeAssumption DEF TypeOK
  <2>3. hidden' + orphans' - (hidden + orphans) <= strays' - strays
    <3>1. CASE Apply
      <4>1. hidden' <= hidden
        BY <1>1, <3>1 DEF Apply
      <4>2. orphans' - orphans = strays' - strays
        <5>1. \A d : Stop(d) => orphans' - orphans = strays' - strays
          BY <1>1 DEF Stop, Stray
        <5> QED
          BY <3>1, <5>1 DEF Apply
      <4> QED
        BY <1>1, <2>2, <4>1, <4>2, LossCounted
    <3>2. CASE Launch
      BY <1>1, <3>2 DEF Launch, IDCollides, Stray
    <3>3. CASE LaunchFails
      BY <1>1, <3>3 DEF LaunchFails, Stray
    <3> QED
      BY <1>10, <3>1, <3>2, <3>3
  <2> QED
    BY <1>9, <2>1, <2>2, <2>3
<1>11. CASE Register \/ Transfer \/ UNCHANGED vars
  BY <1>11 DEF Register, Transfer, vars
<1> QED
  BY <1>4, <1>5, <1>6, <1>7, <1>8, <1>10, <1>11 DEF Next, Handler

\* The inductive invariant holds in every reachable state.
LEMMA InvHolds == Spec => []Inv
<1>1. Inv /\ [Next]_vars => Inv'
  BY TypeStep, ProcessStep, HandlerStep, OrphansStep, StepOfTransfer, TransferStep
  DEF Inv, TypeOK
<1> QED
  BY <1>1, InitInv, PTL DEF Spec

-----------------------------------------------------------------------------
(* Results.                                                                 *)

\* Type correctness, of the worker and of the transfer.
THEOREM TypeCorrect == Spec => []TypeOK
<1>1. Inv => TypeOK
  BY DEF Inv
<1> QED
  BY <1>1, InvHolds, PTL

\* However often a worker is killed, loses its stream and is restarted, and
\* whatever launches and removals fail, it finds at most MaxInstances containers
\* for each time it ran and those that were lost sight of, each of which is
\* counted.
THEOREM ContainersBounded == Spec => []InstancesBounded
<1>1. Inv => InstancesBounded
  <2> SUFFICES ASSUME Inv PROVE InstancesBounded
    OBVIOUS
  <2>1. /\ boots \in Nat /\ orphans \in Nat /\ hidden \in Nat /\ strays \in Nat
        /\ Running \in Counts
    BY EntriesType, ImageTransferAssumption, WorkerNodeAssumption
    DEF Inv, TypeOK, ImageTypeOK
  <2>2. CASE up
    <3>1. boots - 1 \in Nat /\ boots - 1 + 1 = boots
      BY <2>1, <2>2 DEF Inv, OrphansInv
    <3>2. /\ MaxInstances * boots = MaxInstances * (boots - 1) + MaxInstances
          /\ MaxInstances * (boots - 1) \in Nat
      BY <3>1, OneMoreBoot
    <3>3. hidden + orphans <= MaxInstances * (boots - 1) + strays
      BY <2>2 DEF Inv, OrphansInv
    <3> QED
      BY <2>1, <3>2, <3>3, WorkerNodeAssumption DEF InstancesBounded, Counts
  <2>3. CASE ~up
    <3>1. Running = 0 /\ hidden = 0
      BY <2>3 DEF Inv, ProcessInv, Running, Entries
    <3>2. orphans <= MaxInstances * boots + strays /\ MaxInstances * boots \in Nat
      BY <2>1, <2>3, OneMoreBoot DEF Inv, OrphansInv
    <3> QED
      BY <2>1, <3>1, <3>2 DEF InstancesBounded
  <2> QED
    BY <2>2, <2>3
<1> QED
  BY <1>1, InvHolds, PTL

\* No step of the system writes into the image file of a process that may have
\* launched containers from it.
THEOREM ImageFileStable == Spec => FileNotRewritten
<1>1. Inv /\ [Next]_vars => [got' # got => table = None /\ image = None]_vars
  <2> SUFFICES ASSUME Inv, [Next]_vars, got' # got PROVE table = None /\ image = None
    OBVIOUS
  <2> USE DEF imageVars, download
  <2>1. cli.pc # "idle"
    <3>1. CASE Client
      BY <3>1 DEF Client, RecvDetails, RecvChunk, WriteFails
    <3>2. CASE Answer \/ Serve \/ Upload
      BY <3>2 DEF Answer, Serve, Refuse, Open, ServeChunk, ServeEnds, Upload, CreateFile, CopyBlock,
                  CopyFails, NewProblem, RegisterImage
    <3> QED
      BY <3>1, <3>2, StepOfTransfer
      DEF Inv, ImageStep, RecvEof, CallBreaks, Received, Ask, Leave, Elsewhere
  <2> QED
    BY <2>1 DEF Inv, HandlerInv
<1> QED
  BY <1>1, InvHolds, PTL DEF Spec, FileNotRewritten

\* A worker never launches from an image that is not, up to the filling after
\* its end, the one the master had, whatever the sizes of image and chunk, the
\* interleaving of the two ends, and the downloads and uploads that failed
\* before, unless a write of its own download failed, an upload disturbed it or
\* its size is none for an int32.
THEOREM ImageArrives == Spec => []ImageFaithful
<1>1. Init => ImageFaithful
  BY DEF Init, ImageFaithful
<1>2. Inv /\ ImageFaithful /\ [Next]_vars => ImageFaithful'
  <2> SUFFICES ASSUME Inv, ImageFaithful, [Next]_vars PROVE ImageFaithful'
    OBVIOUS
  <2>1. CASE Fetched
    <3> DEFINE new == [bytes |-> got, opened |-> srv.opened, clean |-> srv.clean,
                       whole |-> cli.whole]
    <3>1. image' = new /\ cli.pc = "recv" /\ cli.done >= cli.size
      BY <2>1 DEF Fetched, Received
    <3> QED
      BY <3>1, ReceivedWhole DEF Inv, TypeOK, ImageFaithful, Sound, Countable
  <2>2. CASE image' = image
    BY <2>2 DEF ImageFaithful, Sound
  <2>3. CASE image' = None
    BY <2>3 DEF ImageFaithful
  <2>4. Fetched \/ image' = image \/ image' = None
    BY DEF Next, Handler, Boot, MainReturns, Killed, Dies, StreamBreaks, Assign, Displace,
           RemoveProblem, Tell, TellNobody, Recv,
           Take, FetchFails, Apply, Launch, LaunchFails, ContainerExits, SendsOverlap,
           Register,
           Transfer, vars
  <2> QED
    BY <2>1, <2>2, <2>3, <2>4
<1> QED
  BY <1>1, <1>2, InvHolds, PTL DEF Spec
=============================================================================
