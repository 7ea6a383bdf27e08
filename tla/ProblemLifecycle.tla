-------------------------- MODULE ProblemLifecycle --------------------------
(***************************************************************************)
(* The life of one problem on the master: the requests of the REST API     *)
(* (master/api/controller.go) and the ProblemStore, the scheduler and the  *)
(* container manager they change one after the other, each under a mutex   *)
(* of its own.  Requests run concurrently; FillSchedule and the Apply after*)
(* it, the populations that workers send and result streams come in between*)
(* and hold the two mutexes for a while or for ever.  The scheduler has one*)
(* worker with room for everything (PrelimScheduler has the packing), and  *)
(* the master launches one container per problem (ContainerManager has the *)
(* rest).                                                                  *)
(***************************************************************************)
EXTENDS Naturals, FiniteSets

CONSTANTS
  Reqs,      \* request handlers
  Versions,  \* metadata the problem is registered with: its memory, 0 for
             \* any that is not positive
  MaxReqs,   \* bound: requests made
  None

ASSUME ProblemLifecycleAssumption ==
  /\ Versions \subseteq Nat
  /\ MaxReqs \in Nat
  /\ None \notin Reqs \cup [memory : Versions, path : BOOLEAN]

VARIABLES
  store,    \* probstore.problems, the problem's types.Problem or None
  entries,  \* ss.problems, which holds no value twice
  listed,   \* the problem is in ss.removeList
  counted,  \* ss.instanceCounts has a count > 0 for it
  round,    \* of sendSchedule: "sleep"; "fill", which holds ss.mut; "apply"
  adj,      \* what the schedule to apply has for the problem
  told,     \* the worker's last instance count is > 0
  ran,      \* the worker was told one: populations may be on their way
  tracked,  \* cm.problemContainers has the problem
  island,   \* with a container
  holder,   \* the request that holds pcMut while it launches, or None
  busy,     \* IncorporatePopulation or RemoveResultListener holds pcMut
  pc,       \* the next call of a request
  arg,      \* the types.Problem a request has in hand
  shown,    \* what GetProblem read
  made,     \* requests made
  fault,    \* IncorporatePopulation met a nil container: the process is gone
  overlap,  \* history: two requests were in progress together
  again,    \* history: the problem was registered again with other metadata
  failed    \* history: the last launch of the tracked problem failed

schedVars == <<entries, listed, counted, round, adj, told, ran>>
contVars == <<tracked, island, holder, busy, failed>>
reqVars == <<pc, arg, shown, made, overlap>>
vars == <<store, again, schedVars, contVars, reqVars, fault>>

Problem(v, path) == [memory |-> v, path |-> path]
Problems == [memory : Versions, path : BOOLEAN]

\* The zero types.Problem, whose ID is the empty string.
Zero == None

Memory(e) == IF e = Zero THEN 0 ELSE e.memory
Scheduled == \E e \in entries : e # Zero

Labels ==
  {"idle", "newProblem", "registerImage",                     \* RegisterProblem
   "getMetadata", "addProblem", "trackProblem", "event", "launch", \* StartProblem
   "removeProblem", "untrackProblem",                         \* AbortProblem
   "hasProblem", "untrackFirst", "removeLast",                \* DeleteProblem
   "lookUp", "getInstanceCount", "isRunning"}                 \* GetProblem

TypeOK ==
  /\ store \in Problems \cup {None}
  /\ entries \subseteq Problems \cup {Zero}
  /\ listed \in BOOLEAN /\ counted \in BOOLEAN
  /\ round \in {"sleep", "fill", "apply"}
  /\ adj \in {"none", "zero", "some"}
  /\ told \in BOOLEAN /\ ran \in BOOLEAN
  /\ tracked \in BOOLEAN /\ island \in BOOLEAN
  /\ island => tracked
  /\ tracked => store # None
  /\ holder \in Reqs \cup {None}
  /\ busy \in BOOLEAN
  /\ busy => holder = None
  /\ pc \in [Reqs -> Labels]
  /\ \A r \in Reqs : pc[r] = "launch" <=> holder = r
  /\ arg \in [Reqs -> Problems \cup {Zero}]
  /\ shown \in [Reqs -> [count : BOOLEAN, running : BOOLEAN]]
  /\ made \in 0 .. MaxReqs
  /\ fault \in BOOLEAN /\ overlap \in BOOLEAN /\ again \in BOOLEAN /\ failed \in BOOLEAN

Init ==
  /\ store = None
  /\ entries = {}
  /\ listed = FALSE /\ counted = FALSE /\ told = FALSE /\ ran = FALSE
  /\ round = "sleep" /\ adj = "none"
  /\ tracked = FALSE /\ island = FALSE /\ failed = FALSE
  /\ holder = None /\ busy = FALSE
  /\ pc = [r \in Reqs |-> "idle"]
  /\ arg = [r \in Reqs |-> Zero]
  /\ shown = [r \in Reqs |-> [count |-> FALSE, running |-> FALSE]]
  /\ made = 0
  /\ fault = FALSE /\ overlap = FALSE /\ again = FALSE

-----------------------------------------------------------------------------
(* Requests.                                                               *)

Goto(r, from, to) ==
  /\ ~fault
  /\ pc[r] = from
  /\ pc' = [pc EXCEPT ![r] = to]

\* ss.mut and cm.pcMut are free.
SchedFree == round # "fill"
ContFree == holder = None /\ ~busy

Request(r, label) ==
  /\ made < MaxReqs
  /\ made' = made + 1
  /\ Goto(r, "idle", label)
  /\ overlap' = (overlap \/ \E q \in Reqs : pc[q] # "idle")
  /\ shown' = [shown EXCEPT ![r] = [count |-> FALSE, running |-> FALSE]]
  /\ UNCHANGED <<store, again, schedVars, contVars, fault>>

\* The metadata was checked and the image copied (module ImageTransfer).
RegisterProblem(r, v) ==
  /\ Request(r, "newProblem")
  /\ arg' = [arg EXCEPT ![r] = Problem(v, FALSE)]

OtherRequest(r) ==
  /\ \E label \in {"getMetadata", "removeProblem", "hasProblem", "lookUp"} :
       Request(r, label)
  /\ UNCHANGED arg

NewProblem(r) ==
  /\ Goto(r, "newProblem", "registerImage")
  /\ store' = arg[r]
  /\ again' = (again \/ (store # None /\ store.memory # arg[r].memory))
  /\ UNCHANGED <<schedVars, contVars, arg, shown, made, overlap, fault>>

RegisterImage(r) ==
  /\ Goto(r, "registerImage", "idle")
  /\ store' = [store EXCEPT !.path = TRUE]
  /\ UNCHANGED <<again, schedVars, contVars, arg, shown, made, overlap, fault>>

\* StartProblem and GetProblem answer 404 to an unknown ID and go on with the
\* zero Problem.
GetMetadata(r) ==
  /\ \/ Goto(r, "getMetadata", "addProblem")
     \/ Goto(r, "lookUp", "getInstanceCount")
  /\ arg' = [arg EXCEPT ![r] = store]
  /\ UNCHANGED <<store, again, schedVars, contVars, shown, made, overlap, fault>>

AddProblem(r) ==
  /\ Goto(r, "addProblem", "trackProblem")
  /\ SchedFree
  /\ entries' = entries \cup {arg[r]}
  /\ counted' = (counted /\ arg[r] = Zero)
  /\ UNCHANGED <<store, again, listed, round, adj, told, ran, contVars, arg, shown,
                 made, overlap, fault>>

\* An unknown problem ends the request with 500.
TrackProblem(r) ==
  /\ Goto(r, "trackProblem", IF store = None THEN "idle" ELSE "event")
  /\ ContFree
  /\ tracked' = (store # None)
  /\ UNCHANGED <<store, again, schedVars, island, holder, busy, failed, arg, shown,
                 made, overlap, fault>>

\* HandleInstancesEvent with 1 instance: nothing to do for a problem with a
\* container, 500 for one that is not tracked any more.
InstancesEvent(r) ==
  /\ ContFree
  /\ IF tracked /\ ~island
       THEN Goto(r, "event", "launch") /\ holder' = r
       ELSE Goto(r, "event", "idle") /\ UNCHANGED holder
  /\ arg' = [arg EXCEPT ![r] = store]
  /\ UNCHANGED <<store, again, schedVars, tracked, island, busy, failed, shown, made,
                 overlap, fault>>

\* Podman needs the image's path.
Launch(r) ==
  /\ Goto(r, "launch", "idle")
  /\ arg[r].path
  /\ island' = TRUE
  /\ holder' = None
  /\ failed' = FALSE
  /\ UNCHANGED <<store, again, schedVars, tracked, busy, arg, shown, made, overlap, fault>>

\* Mutant: an error path leaves pcMut locked.
LaunchFailsLocked(r) ==
  /\ Goto(r, "launch", "idle")
  /\ failed' = TRUE
  /\ UNCHANGED <<store, again, schedVars, tracked, island, holder, busy, arg, shown, made,
                 overlap, fault>>

\* 500; the problem stays tracked and scheduled.
LaunchFails(r) ==
  /\ Goto(r, "launch", "idle")
  /\ holder' = None
  /\ failed' = TRUE
  /\ UNCHANGED <<store, again, schedVars, tracked, island, busy, arg, shown, made,
                 overlap, fault>>

\* Mutant: the count stays in instanceCounts.
RemoveFirstKeepsCount ==
  IF Scheduled
    THEN \E e \in entries \ {Zero} :
           entries' = entries \ {e} /\ listed' = TRUE /\ UNCHANGED counted
    ELSE UNCHANGED <<entries, counted, listed>>

\* Mutant: the problem is not put on removeList.
RemoveFirstUnlisted ==
  IF Scheduled
    THEN \E e \in entries \ {Zero} :
           entries' = entries \ {e} /\ counted' = FALSE /\ UNCHANGED listed
    ELSE UNCHANGED <<entries, counted, listed>>

\* The first entry with the ID goes; which one that is depends on the memory of
\* the entries and on the order they came in.
RemoveFirst ==
  IF Scheduled
    THEN \E e \in entries \ {Zero} :
           entries' = entries \ {e} /\ counted' = FALSE /\ listed' = TRUE
    ELSE UNCHANGED <<entries, counted, listed>>

\* Mutant: DeleteProblem leaves the scheduler alone.
RemoveProblemAborting(r) ==
  /\ \/ Goto(r, "removeProblem", "untrackProblem") /\ RemoveFirst
     \/ Goto(r, "removeLast", "idle") /\ UNCHANGED <<entries, counted, listed>>
  /\ SchedFree
  /\ UNCHANGED <<store, again, round, adj, told, ran, contVars, arg, shown, made,
                 overlap, fault>>

\* Called first by AbortProblem, last by DeleteProblem.
RemoveProblem(r) ==
  /\ \/ Goto(r, "removeProblem", "untrackProblem")
     \/ Goto(r, "removeLast", "idle")
  /\ SchedFree
  /\ RemoveFirst
  /\ UNCHANGED <<store, again, round, adj, told, ran, contVars, arg, shown, made,
                 overlap, fault>>

\* Mutant: stops the containers and leaves the table alone.
UntrackProblemStops(r) ==
  /\ \/ Goto(r, "untrackProblem", "idle")
     \/ Goto(r, "untrackFirst", "removeLast")
  /\ ContFree
  /\ island' = FALSE
  /\ failed' = FALSE
  /\ UNCHANGED <<store, again, schedVars, tracked, holder, busy, arg, shown, made,
                 overlap, fault>>

\* Mutant: does not wait for pcMut.
UntrackProblemUnlocked(r) ==
  /\ \/ Goto(r, "untrackProblem", "idle")
     \/ Goto(r, "untrackFirst", "removeLast")
  /\ tracked' = FALSE
  /\ island' = FALSE
  /\ failed' = FALSE
  /\ UNCHANGED <<store, again, schedVars, holder, busy, arg, shown, made, overlap,
                 fault>>

UntrackProblem(r) ==
  /\ \/ Goto(r, "untrackProblem", "idle")
     \/ Goto(r, "untrackFirst", "removeLast")
  /\ ContFree
  /\ tracked' = FALSE
  /\ island' = FALSE
  /\ failed' = FALSE
  /\ UNCHANGED <<store, again, schedVars, holder, busy, arg, shown, made, overlap,
                 fault>>

\* DeleteProblem does nothing for a problem that is not tracked.
HasProblem(r) ==
  /\ Goto(r, "hasProblem", IF tracked THEN "untrackFirst" ELSE "idle")
  /\ ContFree
  /\ UNCHANGED <<store, again, schedVars, contVars, arg, shown, made, overlap, fault>>

GetInstanceCount(r) ==
  /\ Goto(r, "getInstanceCount", "isRunning")
  /\ SchedFree
  /\ shown' = [shown EXCEPT ![r].count = counted /\ arg[r] # Zero]
  /\ UNCHANGED <<store, again, schedVars, contVars, arg, made, overlap, fault>>

IsRunning(r) ==
  /\ Goto(r, "isRunning", "idle")
  /\ ContFree
  /\ shown' = [shown EXCEPT ![r].running = tracked]
  /\ UNCHANGED <<store, again, schedVars, contVars, arg, made, overlap, fault>>

-----------------------------------------------------------------------------
(* What runs beside the requests.                                          *)

\* sendSchedule starts a round: FillSchedule takes ss.mut.
FillSchedule ==
  /\ ~fault
  /\ round = "sleep"
  /\ round' = "fill"
  /\ UNCHANGED <<store, again, entries, listed, counted, adj, told, ran, contVars,
                 reqVars, fault>>

\* An entry that takes no memory always fits.
Endless == round = "fill" /\ \E e \in entries : Memory(e) = 0

\* The loop ends, with such an entry only when other entries use the worker's
\* memory up exactly.  The 0 of a removed problem replaces its count.
FillDone ==
  /\ ~fault
  /\ round = "fill"
  /\ Endless => \E e \in entries : Memory(e) > 0
  /\ round' = "apply"
  /\ counted' = Scheduled
  /\ adj' = (IF listed THEN "zero" ELSE IF Scheduled THEN "some" ELSE "none")
  /\ listed' = FALSE
  /\ UNCHANGED <<store, again, entries, told, ran, contVars, reqVars, fault>>

\* The worker's handler takes what Apply sends, and the round is over.
Apply ==
  /\ ~fault
  /\ round = "apply"
  /\ round' = "sleep"
  /\ told' = (adj = "some" \/ (adj = "none" /\ told))
  /\ ran' = (ran \/ adj = "some")
  /\ adj' = "none"
  /\ UNCHANGED <<store, again, entries, listed, counted, contVars, reqVars, fault>>

\* IncorporatePopulation of a tracked problem, which calls its container while it
\* holds pcMut; in any other case nothing changes here.
Incorporate ==
  /\ ~fault
  /\ ran
  /\ ContFree
  /\ tracked
  /\ IF island
       THEN busy' = TRUE /\ UNCHANGED fault
       ELSE fault' = TRUE /\ UNCHANGED busy
  /\ UNCHANGED <<store, again, schedVars, tracked, island, holder, failed, reqVars>>

\* A result stream ends, and its channel is taken from the sender, for whose
\* mutex RemoveResultListener may wait (module ResultStreams).
RemoveResultListener ==
  /\ ~fault
  /\ ContFree
  /\ tracked
  /\ island
  /\ busy' = TRUE
  /\ UNCHANGED <<store, again, schedVars, tracked, island, holder, failed, reqVars, fault>>

\* Either of them returns.
Unlock ==
  /\ ~fault
  /\ busy
  /\ busy' = FALSE
  /\ UNCHANGED <<store, again, schedVars, tracked, island, holder, failed, reqVars, fault>>

-----------------------------------------------------------------------------
Step(r) ==
  \/ NewProblem(r)
  \/ RegisterImage(r)
  \/ GetMetadata(r)
  \/ AddProblem(r)
  \/ TrackProblem(r)
  \/ InstancesEvent(r)
  \/ Launch(r)
  \/ LaunchFails(r)
  \/ RemoveProblem(r)
  \/ UntrackProblem(r)
  \/ HasProblem(r)
  \/ GetInstanceCount(r)
  \/ IsRunning(r)

Next ==
  \/ \E r \in Reqs :
       \/ \E v \in Versions : RegisterProblem(r, v)
       \/ OtherRequest(r)
       \/ Step(r)
  \/ FillSchedule
  \/ FillDone
  \/ Apply
  \/ Incorporate
  \/ RemoveResultListener
  \/ Unlock

Spec == Init /\ [][Next]_vars

\* A call is in progress under pcMut that has no timeout: a launch by Podman,
\* GetRandom, or the wait for a sender's mutex.
Unanswered == busy \/ \E r \in Reqs : pc[r] = "launch"

(* A request goes on when the mutex it waits for is free again and again   *)
(* (sync.Mutex does not starve).  A round starts when the sleep is over,   *)
(* and the loop of a fill ends when all entries take memory.  Nothing says *)
(* that a call under pcMut is answered, or that Apply ends: the handler of *)
(* a worker may have gone.                                                 *)
Fairness ==
  /\ \A r \in Reqs : SF_vars(Step(r) /\ pc[r] # "launch")
  /\ WF_vars(FillSchedule)
  /\ WF_vars(FillDone /\ ~Endless)

FairSpec == Spec /\ Fairness
-----------------------------------------------------------------------------
(* Safety.                                                                 *)

\* IncorporatePopulation takes a container of a tracked problem for granted
\* (contmanager.go:291).  It is missing only while a StartProblem is between
\* TrackProblem and the end of its launch, and after a launch that failed.
BareOnlyWhileStarting ==
  tracked /\ ~island => failed \/ \E r \in Reqs : pc[r] \in {"event", "launch"}

\* Requests were made one at a time, and always with the same metadata.
OneByOne == ~overlap /\ ~again
AllIdle == \A r \in Reqs : pc[r] = "idle"

\* The scheduler and the container manager agree on which problems run: the
\* two calls of each request keep them in step, also after requests that ended
\* with 404 or 500, as long as no two requests overlap and the problem is not
\* registered again with other metadata.
ScheduledIsTracked == OneByOne /\ AllIdle => (Scheduled <=> tracked)

\* So does what GetProblem puts together from three components: a problem with
\* islands is shown as running.
ShownConsistent ==
  OneByOne => \A r \in Reqs :
    pc[r] = "idle" /\ shown[r].count => shown[r].running

-----------------------------------------------------------------------------
(* Liveness.                                                               *)

\* Every request returns, whatever the other requests do, unless a call under
\* pcMut is never answered, or FillSchedule never ends over an entry that takes
\* no memory, which StartProblem of an unknown ID puts there and no request can
\* take out again: every method gives its mutex back on every path.
RequestsReturn ==
  []<>~Unanswered /\ []<>~Endless
    => \A r \in Reqs : pc[r] # "idle" ~> (pc[r] = "idle" \/ fault)

\* Workers stop a problem that no entry of the scheduler runs any more, in
\* whatever order requests, fills and Apply came, also when the request comes
\* while Apply delivers the old count, as long as rounds end.
AbortedIsStopped ==
  []<>(round = "sleep")
    => (told /\ ~Scheduled) ~> (~told \/ Scheduled \/ fault)
=============================================================================
