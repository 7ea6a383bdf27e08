----------------------------- MODULE WorkerNode -----------------------------
(***************************************************************************)
(* A worker (worker/worker.go, comms/volpe/worker.go) and one problem of   *)
(* the master it is connected to: the process and its restarts, the stream *)
(* of instance counts, adjInstHandler with the download of module          *)
(* ImageTransfer, the containers, and the two goroutines that send on the  *)
(* stream.  Containers are counted; ContainerManager has their contexts    *)
(* and IDs, MasterComms the master's end of the stream, PrelimScheduler    *)
(* where the counts come from.                                             *)
(***************************************************************************)
EXTENDS ImageTransfer

CONSTANTS
  MaxInstances,  \* the largest number of instances the schedule asks for
  MaxInbox,      \* bound: messages on their way to the worker
  MaxStrays,     \* bound: IDs drawn twice, containers lost, removals refused
  None

\* What the ProblemStore knows of an image: the file, and of its download the
\* history, opened, clean and whole (see Open and Idle).
Images == [bytes : Seq(Byte), opened : Seq(Byte), clean : BOOLEAN, whole : BOOLEAN]

ASSUME WorkerNodeAssumption ==
  /\ MaxInstances \in Nat
  /\ MaxInbox \in Nat
  /\ MaxStrays \in Nat
  /\ None \notin Nat
  /\ None \notin Images

VARIABLES
  target,   \* the problem's instances on this worker in the master's schedule
  owed,     \* the problem was aborted; the next round sends 0 for it
  displaced,  \* history: target fell to 0 and this worker was not told
  up,       \* the process runs
  boots,
  stream,   \* StartStreams of this process is not broken
  inbox,    \* instance counts on the stream
  hand,     \* the count HandleStreams is pushing into adjInstChan, or None
  adj,      \* adjInstHandler: "idle", "fetch", "apply" or "grow"; its count, or
            \* how many containers it has yet to launch
  image,    \* the problem in the worker's ProblemStore, or None
  table,    \* entries of the ContainerManager, or None when untracked
  exited,   \* of them, those whose container has ended
  hidden,   \* containers whose entry another took over
  orphans,  \* containers in Podman that no context of the process refers to
  strays    \* history: entries taken over, failed launches that left a
            \* container, and removals that were not carried out

schedule == <<target, owed, displaced>>
process == <<up, boots, stream>>
messages == <<inbox, hand>>
containers == <<table, exited, hidden, orphans, strays>>
vars == <<imageVars, events, schedule, process, messages, adj, image, containers>>

Entries == IF table = None THEN 0 ELSE table
Running == Entries - exited

Counts == 0 .. MaxInstances

Free == [pc |-> "idle", n |-> 0]

TypeOK ==
  /\ ImageTypeOK
  /\ target \in Counts
  /\ owed \in BOOLEAN
  /\ displaced \in BOOLEAN
  /\ up \in BOOLEAN
  /\ boots \in 0 .. events
  /\ stream \in BOOLEAN
  /\ stream => up
  /\ inbox \in Seq(Counts)
  /\ hand \in Counts \cup {None}
  /\ adj \in [pc : {"idle", "fetch", "apply", "grow"}, n : Counts]
  /\ image \in Images \cup {None}
  /\ table \in Counts \cup {None}
  /\ exited \in 0 .. Entries
  /\ hidden \in Nat
  /\ orphans \in Nat
  /\ strays \in 0 .. MaxStrays

Init ==
  /\ ImageInit
  /\ target \in Counts
  /\ owed = FALSE
  /\ displaced = FALSE
  /\ up = FALSE
  /\ boots = 0
  /\ stream = FALSE
  /\ inbox = <<>>
  /\ hand = None
  /\ adj = Free
  /\ image = None
  /\ table = None
  /\ exited = 0
  /\ hidden = 0
  /\ orphans = 0
  /\ strays = 0

-----------------------------------------------------------------------------
(* The process.                                                            *)

\* A new stream that starts with the hello.  Without the master this fails and
\* main panics.
NewWorkerComms == stream' = TRUE

\* main: an empty store, no containers, and the goroutines below.
Boot ==
  /\ ~up
  /\ Event
  /\ up' = TRUE
  /\ boots' = boots + 1
  /\ displaced' = FALSE
  /\ NewWorkerComms
  /\ UNCHANGED <<imageVars, target, owed, messages, adj, image, containers>>

\* The containers of the process.  A launch may have started one already that
\* has no entry yet.
Own == {Running + hidden}
         \cup IF adj.pc = "grow" /\ image.bytes # <<>> THEN {Running + hidden + 1} ELSE {}

\* The process is gone, and with it its calls; k containers stay in Podman.
Dies(k) ==
  /\ up' = FALSE
  /\ stream' = FALSE
  /\ inbox' = <<>>
  /\ hand' = None
  /\ adj' = Free
  /\ image' = None
  /\ table' = None
  /\ exited' = 0
  /\ hidden' = 0
  /\ orphans' = orphans + k
  /\ Return
  /\ UNCHANGED <<masterImage, got, events, schedule, boots, strays>>

\* Recv fails, HandleStreams and main return.  main's deferred cancel starts
\* the removal of the containers, which races with the end of the process.
MainReturns ==
  /\ up
  /\ ~stream
  /\ hand = None
  /\ \E n \in Own : \E k \in 0 .. n : Dies(k)

\* The process is killed: nothing is removed (environment).  It ends itself when
\* Inspect fails in a launch, whose nil result runImage dereferences.
Killed ==
  /\ up
  /\ \E k \in Own : Dies(k)

\* The network or the master's handler of this worker ends (environment).
StreamBreaks ==
  /\ stream
  /\ stream' = FALSE
  /\ UNCHANGED <<imageVars, events, schedule, up, boots, messages, adj, image, containers>>

-----------------------------------------------------------------------------
(* The master's schedule (environment; PrelimScheduler).                   *)

\* A fill gives the worker n instances.
Assign(n) ==
  /\ n > 0 /\ n # target
  /\ Event
  /\ target' = n
  /\ displaced' = FALSE
  /\ UNCHANGED <<imageVars, owed, process, messages, adj, image, containers>>

\* A fill gives the memory to another problem: no entry, and so no message.
Displace ==
  /\ target > 0
  /\ Event
  /\ target' = 0
  /\ displaced' = TRUE
  /\ UNCHANGED <<imageVars, owed, process, messages, adj, image, containers>>

\* RemoveProblem: the next round sends a 0 to the workers that are there then.
RemoveProblem ==
  /\ Event
  /\ target' = 0
  /\ owed' = TRUE
  /\ displaced' = FALSE
  /\ UNCHANGED <<imageVars, process, messages, adj, image, containers>>

\* A round of updateAndSendSchedOnce: the 0 of an aborted problem replaces its
\* count, a problem without instances has no entry.
Tell ==
  /\ stream
  /\ owed \/ target > 0
  /\ Len(inbox) < MaxInbox
  /\ inbox' = Append(inbox, IF owed THEN 0 ELSE target)
  /\ owed' = FALSE
  /\ UNCHANGED <<imageVars, events, target, displaced, process, hand, adj, image,
                 containers>>

\* A round while the worker is not there.
TellNobody ==
  /\ ~stream
  /\ owed
  /\ owed' = FALSE
  /\ UNCHANGED <<imageVars, events, target, displaced, process, messages, adj, image,
                 containers>>

-----------------------------------------------------------------------------
(* HandleStreams.  Migrations are dropped, other messages logged.          *)

\* What was received before the stream broke may still be delivered.
Recv ==
  /\ up
  /\ hand = None
  /\ inbox # <<>>
  /\ hand' = Head(inbox)
  /\ inbox' = Tail(inbox)
  /\ UNCHANGED <<imageVars, events, schedule, process, adj, image, containers>>

-----------------------------------------------------------------------------
(* adjInstHandler.                                                         *)

\* Mutant: the store is not asked.
NeverHasImage == FALSE

\* GetFileName: an image that was registered once is never fetched again.
HasImage == image # None

\* adjInstChan is unbuffered: the count is taken when the handler is back.
Take ==
  /\ hand # None
  /\ adj.pc = "idle"
  /\ hand' = None
  /\ adj' = [pc |-> IF HasImage THEN "apply" ELSE "fetch", n |-> hand]
  /\ cli' = IF HasImage THEN cli ELSE [Idle EXCEPT !.pc = "ask"]
  /\ UNCHANGED <<masterImage, srv, wire, got, events, schedule, process, inbox,
                 image, containers>>

\* The count is dropped; the next round brings it again.
FetchFails ==
  /\ RecvEof \/ CallBreaks
  /\ adj' = Free
  /\ UNCHANGED <<schedule, process, messages, image, containers>>

\* NewProblem and RegisterImage of the downloaded file.
Fetched ==
  /\ Received
  /\ adj' = [adj EXCEPT !.pc = "apply"]
  /\ image' = [bytes |-> got, opened |-> srv.opened, clean |-> srv.clean,
               whole |-> cli.whole]
  /\ UNCHANGED <<schedule, process, messages, containers>>

\* HandleInstancesEvent launches what the count is above the entries, or is done.
GrowTo(n) ==
  adj' = IF n > Entries THEN [pc |-> "grow", n |-> n - Entries] ELSE Free

Stray(n) == strays' = strays + n /\ strays' <= MaxStrays

\* stopContainer of d containers that run: Podman may refuse to remove some.
Stop(d) ==
  \/ UNCHANGED <<orphans, strays>>
  \/ \E r \in 1 .. d : Stray(r) /\ orphans' = orphans + r

\* Mutant: the surplus is stopped only where it is the whole problem.
ApplyNeverShrinks ==
  /\ adj.pc = "apply"
  /\ \/ /\ adj.n = 0
        /\ table' = None
        /\ exited' = 0
        /\ hidden' = 0
     \/ /\ adj.n > 0
        /\ table' = Entries
        /\ UNCHANGED <<exited, hidden>>
  /\ GrowTo(adj.n)
  /\ Stop(Running + hidden - (Running' + hidden'))
  /\ UNCHANGED <<imageVars, events, schedule, process, messages, image>>

\* Mutant: entries that are deleted are still counted as exited.
ApplyKeepsExited ==
  /\ adj.pc = "apply"
  /\ table' = IF adj.n = 0 THEN None ELSE IF adj.n <= Entries THEN adj.n ELSE Entries
  /\ GrowTo(adj.n)
  /\ UNCHANGED <<imageVars, events, schedule, process, messages, image, exited, hidden,
                 orphans, strays>>

\* Mutant: the loop starts at 0 instead of len(containers).
ApplyLaunchesAll ==
  /\ adj.pc = "apply"
  /\ adj.n > Entries
  /\ table' = Entries
  /\ adj' = [adj EXCEPT !.pc = "grow"]
  /\ UNCHANGED <<imageVars, events, schedule, process, messages, image, exited, hidden,
                 orphans, strays>>

\* TrackProblem where HasProblem says no, then HandleInstancesEvent: untrack,
\* whose cancel reaches the hidden containers too, stop the surplus (in any
\* order, exited or not), or start launching.
Apply ==
  /\ adj.pc = "apply"
  /\ \/ /\ adj.n = 0
        /\ table' = None
        /\ exited' = 0
        /\ hidden' = 0
     \/ /\ adj.n > 0
        /\ adj.n <= Entries
        /\ table' = adj.n
        /\ exited' \in 0 .. exited
        /\ exited - exited' <= Entries - adj.n
        /\ exited' <= adj.n
        /\ UNCHANGED hidden
     \/ /\ adj.n > Entries
        /\ table' = Entries
        /\ UNCHANGED <<exited, hidden>>
  /\ GrowTo(adj.n)
  /\ Stop(Running + hidden - (Running' + hidden'))
  /\ UNCHANGED <<imageVars, events, schedule, process, messages, image>>

\* The new container's random ID is that of an entry: its pointer is
\* overwritten, the table does not grow, and a container that runs is hidden.
IDCollides ==
  /\ table > 0
  /\ Stray(1)
  /\ \/ exited < table /\ hidden' = hidden + 1 /\ UNCHANGED exited
     \/ exited > 0 /\ exited' = exited - 1 /\ UNCHANGED hidden
  /\ UNCHANGED table

\* NewProblemContainer, once per turn of the loop: Podman loads the image file,
\* which an empty one never survives.
Launch ==
  /\ adj.pc = "grow"
  /\ image.bytes # <<>>
  /\ \/ table' = table + 1 /\ UNCHANGED <<exited, hidden, strays>>
     \/ IDCollides
  /\ adj' = IF adj.n = 1 THEN Free ELSE [adj EXCEPT !.n = @ - 1]
  /\ UNCHANGED <<imageVars, events, schedule, process, messages, image, orphans>>

\* The rest of the count is dropped as well.  If it fails once the container is
\* created (Start, NewClient), the container stays.
LaunchFails ==
  /\ adj.pc = "grow"
  /\ \/ UNCHANGED <<orphans, strays>>
     \/ image.bytes # <<>> /\ Stray(1) /\ orphans' = orphans + 1
  /\ adj' = Free
  /\ UNCHANGED <<imageVars, events, schedule, process, messages, image, table, exited, hidden>>

-----------------------------------------------------------------------------
(* Containers and senders.                                                 *)

\* The program in a container ends (environment); its entry stays.
ContainerExits ==
  /\ \/ exited < Entries /\ exited' = exited + 1 /\ UNCHANGED <<hidden, orphans>>
     \/ hidden > 0 /\ hidden' = hidden - 1 /\ UNCHANGED <<exited, orphans>>
     \/ orphans > 0 /\ orphans' = orphans - 1 /\ UNCHANGED <<exited, hidden>>
  /\ UNCHANGED <<imageVars, events, schedule, process, messages, adj, image, table, strays>>

\* deviceMetricsExporter sends every 5 s until main returns, also when it could
\* not read the figures; emigrationHandler whenever a container has a
\* population.
ExportsMetrics == up
Emigrates == Running + hidden > 0

\* The two send on one stream without a lock, which gRPC forbids; what a Send
\* returns is only logged.  Sends that overlap may break the stream, others
\* change nothing here.
SendsOverlap ==
  /\ stream
  /\ ExportsMetrics
  /\ Emigrates
  /\ stream' = FALSE
  /\ UNCHANGED <<imageVars, events, schedule, up, boots, messages, adj, image, containers>>

-----------------------------------------------------------------------------
Register ==
  Upload /\ UNCHANGED <<schedule, process, messages, adj, image, containers>>

Transfer ==
  /\ Answer \/ Serve \/ Client
  /\ UNCHANGED <<schedule, process, messages, adj, image, containers>>

Handler == Take \/ FetchFails \/ Fetched \/ Apply \/ Launch \/ LaunchFails

Next ==
  \/ Boot
  \/ MainReturns
  \/ Killed
  \/ StreamBreaks
  \/ \E n \in Counts : Assign(n)
  \/ Displace
  \/ RemoveProblem
  \/ Tell
  \/ TellNobody
  \/ Recv
  \/ Handler
  \/ ContainerExits
  \/ SendsOverlap
  \/ Register
  \/ Transfer

Spec == Init /\ [][Next]_vars

\* The image that was downloaded is the whole image of an upload.
Sound ==
  /\ image.clean
  /\ image.whole
  /\ Countable(Len(image.opened))

(* Goroutines run on, the master's server answers, and Podman answers and, *)
(* asked again and again, sometimes starts a container from an image that  *)
(* is whole.  Nothing is assumed of the master's rounds, of uploads, of    *)
(* the network or of the containers.                                       *)
Fairness ==
  /\ WF_vars(Recv)
  /\ WF_vars(MainReturns)
  /\ WF_vars(Take)
  /\ WF_vars(RecvEof /\ FetchFails)
  /\ WF_vars(Fetched)
  /\ WF_vars(Apply)
  /\ WF_vars(Launch \/ LaunchFails)
  /\ SF_vars(Launch /\ Sound)
  /\ WF_vars(Answer /\ Transfer)
  /\ WF_vars(Serve /\ Transfer)
  /\ WF_vars(Client /\ Transfer)

FairSpec == Spec /\ Fairness
-----------------------------------------------------------------------------
(* Safety.                                                                 *)

\* The file a worker registers starts with the whole image the master had when
\* it opened it, and only filling of less than a chunk follows, if what it
\* opened was a finished upload that no other touched meanwhile, it is not too
\* large for an int32, and no write into the worker's file failed.
ImageFaithful ==
  image # None /\ Sound =>
    /\ Len(image.bytes) >= Len(image.opened)
    /\ Len(image.bytes) < Len(image.opened) + Chunk
    /\ \A i \in 1 .. Len(image.opened) : image.bytes[i] = image.opened[i]

\* A worker process does not write into the image file once containers may
\* have been launched from it, whatever happens to its downloads, to the
\* schedule and to the problem on the master.
FileNotRewritten == [][got' # got => table = None /\ image = None]_vars

\* Whoever restarts a worker, over and over, finds at most MaxInstances
\* containers that nobody is removing for each time it ran, and one more for
\* each ID that was drawn twice, each failed launch that left its container and
\* each removal that was not carried out: launches count what is in the table,
\* and no process touches what an earlier one left.
InstancesBounded == Running + hidden + orphans <= MaxInstances * boots + strays

-----------------------------------------------------------------------------
(* Liveness.                                                               *)

\* The worker has the image, or will be able to get it.
Deliverable ==
  IF image = None
    THEN /\ meta = "path"
         /\ upload.pc = "idle"
         /\ Len(disk) = upload.size
         /\ Countable(Len(disk))
    ELSE Sound

\* The master's rounds go on: every abort is taken up by one, and a worker that
\* has instances is told their number again and again.  A fill that does not end
\* or a send to a worker that has left stops them (PrelimScheduler, MasterComms).
RoundsGoOn(n) == []<>~owed /\ (n > 0 => []<><<Tell>>_vars)

\* A worker that stays connected, to a master whose rounds go on, comes to have
\* as many entries as the schedule says, whatever failed on the way: counts that
\* are dropped with a failed download or launch, or that an ID drawn twice left
\* short, are told again, and an abort is told once.  A problem that was
\* displaced is the exception: nobody tells the worker.
TableFollowsSchedule ==
  \A n \in Counts :
    <>[](stream /\ target = n /\ ~displaced /\ Deliverable) /\ RoundsGoOn(n)
      => <>[](Entries = n)

\* A worker whose stream broke ends, wherever its handler is, so that it can
\* be started again; a download that counts bytes past the int32 limit may
\* keep it.
LostStreamEndsWorker ==
  (up /\ ~stream) ~> (~up \/ (cli.pc = "recv" /\ ~Countable(cli.size)))

\* An upload has left the server less of the file than it found.
Truncated == Len(disk) < srv.size

\* The master's GetProblemData returns, also when the worker has left, unless
\* an upload truncates the file under it.
TransferEnds == (srv.pc = "serve" /\ ~Truncated) ~> (srv.pc = "off" \/ Truncated)
=============================================================================
