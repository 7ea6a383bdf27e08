--------------------------- MODULE ResultStreams ---------------------------
(***************************************************************************)
(* Result streams of one problem on the master: the API's StreamResults    *)
(* requests (master/api/controller.go), Register/RemoveResultListener of   *)
(* ContainerManager, and the sendResults goroutine of each ProblemContainer*)
(* (container_mgr/problem_container.go).                                   *)
(*                                                                         *)
(* A listener is one request with the unbuffered channel it made.  The     *)
(* master runs one container per problem; a container belongs to one       *)
(* tracking of the problem and is not used again.  pcMut is the manager's  *)
(* mutex, rcMut the container's.  A result has no content here.            *)
(***************************************************************************)
EXTENDS Naturals

CONSTANTS
  Listeners,
  Conts,     \* containers, numbered in the order they are launched
  None       \* nil; also an unlocked mutex

ASSUME ResultStreamsAssumption ==
  /\ Conts \subseteq Nat
  /\ None \notin Listeners \cup Conts

VARIABLES
  tracked,  \* the problem is in cm.problemContainers
  cont,     \* its container, or None
  used,     \* containers launched so far
  done,     \* containers whose context is cancelled
  pcMut,    \* listener that holds cm.pcMut across a step, or None
  rcMut,    \* rcMut[k]: sendResultOnce holds it
  chans,    \* chans[k]: resultChannels
  closed,   \* listeners whose channel is closed
  lis,      \* lis[l]: where StreamResults is
  at,       \* at[l]: container that l last registered with or deregisters from
  gone,     \* listeners whose client has left, so that writes may fail
  snd,      \* snd[k]: where sendResults is
  target,   \* target[k]: channel on which sendResultOnce is sending, or None
  todo,     \* todo[k]: channels its loop has still to visit
  fault     \* what ended the master process, or "none"

trackVars  == <<tracked, cont, used, done>>
listenVars == <<lis, at, gone>>
sendVars   == <<snd, target, todo>>
vars == <<trackVars, pcMut, rcMut, chans, closed, listenVars, sendVars, fault>>

TypeOK ==
  /\ tracked \in BOOLEAN
  /\ cont \in used \cup {None}
  /\ cont # None => tracked
  /\ used \subseteq Conts
  /\ done \subseteq used
  /\ pcMut \in Listeners \cup {None}
  /\ rcMut \in [Conts -> BOOLEAN]
  /\ chans \in [Conts -> SUBSET Listeners]
  /\ closed \subseteq Listeners
  /\ lis \in [Listeners -> {"start", "register", "recv", "write", "remove",
                            "deregister", "ended"}]
  /\ at \in [Listeners -> Conts \cup {None}]
  /\ gone \subseteq Listeners
  /\ snd \in [Conts -> {"off", "sleep", "lock", "get", "send", "close", "end"}]
  /\ target \in [Conts -> Listeners \cup {None}]
  /\ todo \in [Conts -> SUBSET Listeners]
  /\ fault \in {"none", "sendOnClosed", "closeOfClosed"}

Init ==
  /\ tracked = FALSE
  /\ cont = None
  /\ used = {}
  /\ done = {}
  /\ pcMut = None
  /\ rcMut = [k \in Conts |-> FALSE]
  /\ chans = [k \in Conts |-> {}]
  /\ closed = {}
  /\ lis = [l \in Listeners |-> "start"]
  /\ at = [l \in Listeners |-> None]
  /\ gone = {}
  /\ snd = [k \in Conts |-> "off"]
  /\ target = [k \in Conts |-> None]
  /\ todo = [k \in Conts |-> {}]
  /\ fault = "none"

Alive == fault = "none" /\ UNCHANGED fault

Goto(l, from, to) ==
  /\ lis[l] = from
  /\ lis' = [lis EXCEPT ![l] = to]

SenderGoto(k, from, to) ==
  /\ snd[k] = from
  /\ snd' = [snd EXCEPT ![k] = to]

-----------------------------------------------------------------------------
(* StartProblem and AbortProblem, as far as they track the problem.        *)

Track ==
  /\ Alive
  /\ pcMut = None
  /\ ~tracked
  /\ tracked' = TRUE
  /\ UNCHANGED <<cont, used, done, pcMut, rcMut, chans, closed, listenVars, sendVars>>

\* Mutant: HandleInstancesEvent does not look whether the problem is tracked.
LaunchUntracked(k) ==
  /\ Alive
  /\ pcMut = None
  /\ cont = None
  /\ k \notin used
  /\ \A j \in Conts \ used : k <= j
  /\ cont' = k
  /\ used' = used \cup {k}
  /\ snd' = [snd EXCEPT ![k] = "sleep"]
  /\ UNCHANGED <<tracked, done, pcMut, rcMut, chans, closed, listenVars, target, todo>>

\* HandleInstancesEvent for 1 instance launches the container, which starts
\* sendResults (a launch that fails changes nothing here).
Launch(k) ==
  /\ Alive
  /\ pcMut = None
  /\ tracked
  /\ cont = None
  /\ k \notin used
  /\ \A j \in Conts \ used : k <= j
  /\ cont' = k
  /\ used' = used \cup {k}
  /\ snd' = [snd EXCEPT ![k] = "sleep"]
  /\ UNCHANGED <<tracked, done, pcMut, rcMut, chans, closed, listenVars, target, todo>>

\* Mutant: does not take pcMut.
UntrackUnlocked ==
  /\ Alive
  /\ tracked
  /\ tracked' = FALSE
  /\ cont' = None
  /\ done' = done \cup ({cont} \ {None})
  /\ UNCHANGED <<used, pcMut, rcMut, chans, closed, listenVars, sendVars>>

UntrackProblem ==
  /\ Alive
  /\ pcMut = None
  /\ tracked
  /\ tracked' = FALSE
  /\ cont' = None
  /\ done' = done \cup ({cont} \ {None})
  /\ UNCHANGED <<used, pcMut, rcMut, chans, closed, listenVars, sendVars>>

-----------------------------------------------------------------------------
(* StreamResults.                                                          *)

\* RegisterResultListener finds no container: the request logs the error and
\* waits on its channel all the same.
RegisterFails(l) ==
  /\ Alive
  /\ pcMut = None
  /\ cont = None
  /\ Goto(l, "start", "recv")
  /\ UNCHANGED <<trackVars, pcMut, rcMut, chans, closed, at, gone, sendVars>>

\* It finds one, and keeps pcMut while it waits for rcMut.
Register(l) ==
  /\ Alive
  /\ pcMut = None
  /\ cont # None
  /\ Goto(l, "start", "register")
  /\ pcMut' = l
  /\ at' = [at EXCEPT ![l] = cont]
  /\ UNCHANGED <<trackVars, rcMut, chans, closed, gone, sendVars>>

RegisterResultChannel(l) ==
  /\ Alive
  /\ Goto(l, "register", "recv")
  /\ ~rcMut[at[l]]
  /\ pcMut' = None
  /\ chans' = [chans EXCEPT ![at[l]] = @ \cup {l}]
  /\ UNCHANGED <<trackVars, rcMut, closed, at, gone, sendVars>>

RecvClosed(l) ==
  /\ Alive
  /\ l \in closed
  /\ Goto(l, "recv", "remove")
  /\ UNCHANGED <<trackVars, pcMut, rcMut, chans, closed, at, gone, sendVars>>

\* The client closes its connection (environment).
ClientLeaves(l) ==
  /\ Alive
  /\ lis[l] \in {"recv", "write"}
  /\ gone' = gone \cup {l}
  /\ UNCHANGED <<trackVars, pcMut, rcMut, chans, closed, lis, at, sendVars>>

\* Also the five seconds of sleep.
WriteOk(l) ==
  /\ Alive
  /\ Goto(l, "write", "recv")
  /\ UNCHANGED <<trackVars, pcMut, rcMut, chans, closed, at, gone, sendVars>>

WriteFails(l) ==
  /\ Alive
  /\ l \in gone
  /\ Goto(l, "write", "remove")
  /\ UNCHANGED <<trackVars, pcMut, rcMut, chans, closed, at, gone, sendVars>>

\* Mutant: the early return does not unlock pcMut.
RemoveFailsLocked(l) ==
  /\ Alive
  /\ pcMut = None
  /\ cont = None
  /\ Goto(l, "remove", "ended")
  /\ pcMut' = l
  /\ UNCHANGED <<trackVars, rcMut, chans, closed, at, gone, sendVars>>

\* RemoveResultListener finds no container: it closes nothing.
RemoveFails(l) ==
  /\ Alive
  /\ pcMut = None
  /\ cont = None
  /\ Goto(l, "remove", "ended")
  /\ UNCHANGED <<trackVars, pcMut, rcMut, chans, closed, at, gone, sendVars>>

Remove(l) ==
  /\ Alive
  /\ pcMut = None
  /\ cont # None
  /\ Goto(l, "remove", "deregister")
  /\ pcMut' = l
  /\ at' = [at EXCEPT ![l] = cont]
  /\ UNCHANGED <<trackVars, rcMut, chans, closed, gone, sendVars>>

\* DeRegisterResultChannel of the problem's present container, then close: if
\* the channel is closed already the request panics, which the HTTP server
\* recovers, and the deferred unlock releases pcMut.
DeRegister(l) ==
  /\ Alive
  /\ Goto(l, "deregister", "ended")
  /\ ~rcMut[at[l]]
  /\ pcMut' = None
  /\ chans' = [chans EXCEPT ![at[l]] = @ \ {l}]
  /\ closed' = closed \cup {l}
  /\ UNCHANGED <<trackVars, rcMut, at, gone, sendVars>>

-----------------------------------------------------------------------------
(* sendResults.                                                            *)

\* The loop visits the channels in an arbitrary order, waiting at each.
Visit(k, rest) ==
  IF rest = {}
    THEN /\ snd' = [snd EXCEPT ![k] = "sleep"]
         /\ rcMut' = [rcMut EXCEPT ![k] = FALSE]
         /\ target' = [target EXCEPT ![k] = None]
         /\ UNCHANGED todo
    ELSE /\ \E l \in rest :
              /\ target' = [target EXCEPT ![k] = l]
              /\ todo' = [todo EXCEPT ![k] = rest \ {l}]
         /\ snd' = [snd EXCEPT ![k] = "send"]
         /\ UNCHANGED rcMut

SleepOver(k) ==
  /\ Alive
  /\ k \notin done
  /\ SenderGoto(k, "sleep", "lock")
  /\ UNCHANGED <<trackVars, pcMut, rcMut, chans, closed, listenVars, target, todo>>

\* Mutant: the loop is left without closing the channels.
SleepOverEnds(k) ==
  /\ Alive
  /\ k \in done
  /\ SenderGoto(k, "sleep", "end")
  /\ UNCHANGED <<trackVars, pcMut, rcMut, chans, closed, listenVars, target, todo>>

SleepOverDone(k) ==
  /\ Alive
  /\ k \in done
  /\ SenderGoto(k, "sleep", "close")
  /\ todo' = [todo EXCEPT ![k] = chans[k]]
  /\ UNCHANGED <<trackVars, pcMut, rcMut, chans, closed, listenVars, target>>

Lock(k) ==
  /\ Alive
  /\ ~rcMut[k]
  /\ SenderGoto(k, "lock", "get")
  /\ rcMut' = [rcMut EXCEPT ![k] = TRUE]
  /\ UNCHANGED <<trackVars, pcMut, chans, closed, listenVars, target, todo>>

\* Mutant: an error returns with rcMut locked.
GetResultsFailsLocked(k) ==
  /\ Alive
  /\ SenderGoto(k, "get", "sleep")
  /\ UNCHANGED <<trackVars, pcMut, rcMut, chans, closed, listenVars, target, todo>>

\* The call fails, times out, or is cancelled with the container's context.
GetResultsFails(k) ==
  /\ Alive
  /\ SenderGoto(k, "get", "sleep")
  /\ rcMut' = [rcMut EXCEPT ![k] = FALSE]
  /\ UNCHANGED <<trackVars, pcMut, chans, closed, listenVars, target, todo>>

GetResults(k) ==
  /\ Alive
  /\ snd[k] = "get"
  /\ Visit(k, chans[k])
  /\ UNCHANGED <<trackVars, pcMut, chans, closed, listenVars>>

\* The listener receives, and StreamResults goes on to write the result.
SendResult(k) ==
  /\ Alive
  /\ snd[k] = "send"
  /\ target[k] \notin closed
  /\ Goto(target[k], "recv", "write")
  /\ Visit(k, todo[k])
  /\ UNCHANGED <<trackVars, pcMut, chans, closed, at, gone>>

\* A send on a closed channel, also one that waits when it is closed, panics.
SendOnClosed(k) ==
  /\ fault = "none"
  /\ snd[k] = "send"
  /\ target[k] \in closed
  /\ fault' = "sendOnClosed"
  /\ UNCHANGED <<trackVars, pcMut, rcMut, chans, closed, listenVars, sendVars>>

\* The last loop ranges over resultChannels without rcMut.
CloseChannel(k, l) ==
  /\ fault = "none"
  /\ snd[k] = "close"
  /\ l \in todo[k]
  /\ IF l \in closed
       THEN fault' = "closeOfClosed" /\ UNCHANGED <<closed, todo>>
       ELSE /\ closed' = closed \cup {l}
            /\ todo' = [todo EXCEPT ![k] = @ \ {l}]
            /\ UNCHANGED fault
  /\ UNCHANGED <<trackVars, pcMut, rcMut, chans, listenVars, snd, target>>

\* Mutant: sendResults goes on after the loop.
SenderGoesOn(k) ==
  /\ Alive
  /\ todo[k] = {}
  /\ SenderGoto(k, "close", "sleep")
  /\ UNCHANGED <<trackVars, pcMut, rcMut, chans, closed, listenVars, target, todo>>

SenderEnds(k) ==
  /\ Alive
  /\ todo[k] = {}
  /\ SenderGoto(k, "close", "end")
  /\ UNCHANGED <<trackVars, pcMut, rcMut, chans, closed, listenVars, target, todo>>

-----------------------------------------------------------------------------
API ==
  \/ Track
  \/ \E k \in Conts : Launch(k)
  \/ UntrackProblem

Request(l) ==
  \/ RegisterFails(l)
  \/ Register(l)
  \/ RegisterResultChannel(l)
  \/ RecvClosed(l)
  \/ WriteOk(l)
  \/ WriteFails(l)
  \/ RemoveFails(l)
  \/ Remove(l)
  \/ DeRegister(l)

SendResults(k) ==
  \/ SleepOver(k)
  \/ SleepOverDone(k)
  \/ Lock(k)
  \/ GetResultsFails(k)
  \/ GetResults(k)
  \/ SendResult(k)
  \/ SendOnClosed(k)
  \/ \E l \in Listeners : CloseChannel(k, l)
  \/ SenderEnds(k)

Next ==
  \/ API
  \/ \E l \in Listeners : Request(l) \/ ClientLeaves(l)
  \/ \E k \in Conts : SendResults(k)

Spec == Init /\ [][Next]_vars

(* Goroutines run on; a write to a client that stays returns; GetResults    *)
(* has a timeout.  A Go mutex in starvation mode is handed over in order,   *)
(* so a request gets rcMut although sendResultOnce takes it again and       *)
(* again.  Nothing makes clients come or leave, or problems start or stop.  *)
Fairness ==
  /\ \A l \in Listeners :
       /\ WF_vars(lis[l] # "start" /\ Request(l))
       /\ SF_vars(RegisterResultChannel(l) \/ DeRegister(l))
  /\ \A k \in Conts : WF_vars(SendResults(k))

FairSpec == Spec /\ Fairness
-----------------------------------------------------------------------------
(* Safety.                                                                 *)

\* resultChannels never changes while sendResults is in a loop over it,
\* neither in the one under rcMut nor in the last one, which takes no lock:
\* requests reach a container only through the table, which it has left by
\* then, and keep pcMut until they are done with it.
ChannelsStable ==
  [][\A k \in Conts :
       chans'[k] # chans[k] => snd[k] \in {"off", "sleep", "lock"}]_vars

\* A request that registered and waits for a result is not forgotten: the
\* sender of its container still has its channel, or has closed it.
RegisteredIsServed ==
  \A l \in Listeners :
    lis[l] = "recv" /\ at[l] # None /\ l \notin closed =>
      /\ l \in chans[at[l]]
      /\ snd[at[l]] # "end"
      /\ snd[at[l]] = "close" => l \in todo[at[l]]

\* sendResults, whose panic ends the master, meets a closed channel only if
\* some client has left: while all of them stay, only the sender of a
\* listener's own container closes its channel before the request ends.
PanicNeedsLeaver == fault # "none" => gone # {}

-----------------------------------------------------------------------------
(* Liveness.                                                               *)

Undisturbed == gone = {} /\ fault = "none"

\* A stream of a problem that is stopped ends, if no client leaves.
StreamEnds ==
  \A l \in Listeners :
    (lis[l] = "recv" /\ at[l] \in done) ~> (lis[l] = "ended" \/ ~Undisturbed)

\* A request gives pcMut back, if no client leaves.
PcMutReleased == (pcMut # None) ~> (pcMut = None \/ ~Undisturbed)

\* RemoveResultListener "deregisters result channel" (contmanager.go:397),
\* whoever leaves when: it gets rcMut and returns.
RemovalCompletes ==
  \A l \in Listeners : (lis[l] = "deregister") ~> (lis[l] = "ended")
=============================================================================
