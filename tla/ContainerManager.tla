-------------------------- MODULE ContainerManager --------------------------
(***************************************************************************)
(* ContainerManager (container_mgr/contmanager.go) of one node, master or  *)
(* worker, and the life of its ProblemContainers                           *)
(* (container_mgr/problem_container.go, contrunner.go).                    *)
(*                                                                         *)
(* TrackProblem makes a cmProblem, called an incarnation of the problem    *)
(* here, with a context of its own; each container's context is a child of *)
(* it.  A container is one Podman container; the ones never launched have  *)
(* no owner.  pcMut is held through whole methods, which launch containers *)
(* and call into them one by one: op says what its holder is doing.        *)
(***************************************************************************)
EXTENDS Naturals, FiniteSets

CONSTANTS
  ProblemIDs,
  Incs,          \* incarnations, numbered in the order they are made
  Conts,         \* containers, numbered in the order they are launched
  IDs,           \* containerIDs: values of rand.Int32() % 2048
  MaxInstances,  \* the largest number of instances of an event
  None           \* nil; also an unlocked pcMut

ASSUME ContainerManagerAssumption ==
  /\ Incs \subseteq Nat
  /\ Conts \subseteq Nat
  /\ IsFiniteSet(IDs)
  /\ MaxInstances \in Nat
  /\ None \notin Incs \cup Conts \cup ProblemIDs

VARIABLES
  worker,   \* cm.worker
  known,    \* problems in the ProblemStore
  table,    \* cm.problemContainers: problem -> incarnation, or None
  made,     \* incarnations made so far
  live,     \* incarnations whose problemContext is not cancelled
  slots,    \* slots[i]: cmProblem.problemContainers, containerID -> container
  owner,    \* owner[k]: incarnation whose context is k's parent, or None
  stopped,  \* containers whose own cancel was called
  podman,   \* containers that exist in Podman
  lost,     \* containers that nobody will remove from Podman any more
  gen,      \* gen[k]: runGenerations: "off", "run", "best" or "push"
  op,       \* what the holder of pcMut is doing, or None
  fault     \* what ended the process, or "none"

tableVars == <<known, table, made, live, slots>>
contVars  == <<owner, stopped, podman, lost, gen>>
vars == <<worker, tableVars, contVars, op, fault>>

Alive == fault = "none"

\* containerContext.Err() # nil.
Done(k) == k \in stopped \/ owner[k] \notin live

Used(i) == {id \in IDs : slots[i][id] # None}
Len(i) == Cardinality(Used(i))

\* The holder launches n more containers of p; or it calls into container k.
GrowOp(p, n) == [kind |-> "grow", prob |-> p, left |-> n]
CallOp(kind, k) == [kind |-> kind, cont |-> k]

Ops ==
  [kind : {"grow"}, prob : ProblemIDs, left : 1 .. MaxInstances]
    \cup [kind : {"seed", "random", "reply"}, cont : Conts]

TypeOK ==
  /\ worker \in BOOLEAN
  /\ known \subseteq ProblemIDs
  /\ table \in [ProblemIDs -> Incs \cup {None}]
  /\ made \subseteq Incs
  /\ live \subseteq made
  /\ slots \in [Incs -> [IDs -> Conts \cup {None}]]
  /\ owner \in [Conts -> Incs \cup {None}]
  /\ stopped \subseteq Conts
  /\ podman \subseteq Conts
  /\ lost \subseteq Conts
  /\ gen \in [Conts -> {"off", "run", "best", "push"}]
  /\ op \in Ops \cup {None}
  /\ fault \in {"none", "nilContainer", "nilInspect"}

Init ==
  /\ worker \in BOOLEAN
  /\ known = {}
  /\ table = [p \in ProblemIDs |-> None]
  /\ made = {}
  /\ live = {}
  /\ slots = [i \in Incs |-> [id \in IDs |-> None]]
  /\ owner = [k \in Conts |-> None]
  /\ stopped = {}
  /\ podman = {}
  /\ lost = {}
  /\ gen = [k \in Conts |-> "off"]
  /\ op = None
  /\ fault = "none"

-----------------------------------------------------------------------------
(* Tracking.                                                               *)

\* The store gets the problem (RegisterProblem, or a worker's download); it
\* never loses one.
NewProblem(p) ==
  /\ Alive
  /\ known' = known \cup {p}
  /\ UNCHANGED <<worker, table, made, live, slots, contVars, op, fault>>

\* A problem tracked already is left alone, an unknown one is an error.
TrackProblem(p, i) ==
  /\ Alive
  /\ op = None
  /\ p \in known
  /\ table[p] = None
  /\ i \notin made
  /\ \A j \in Incs \ made : i <= j
  /\ table' = [table EXCEPT ![p] = i]
  /\ made' = made \cup {i}
  /\ live' = live \cup {i}
  /\ UNCHANGED <<worker, known, slots, contVars, op, fault>>

\* Mutant: stops the containers in the table instead of the problem's context.
UntrackByTable(p) ==
  /\ Alive
  /\ op = None
  /\ table[p] # None
  /\ table' = [table EXCEPT ![p] = None]
  /\ stopped' = stopped \cup {slots[table[p]][id] : id \in Used(table[p])}
  /\ UNCHANGED <<worker, known, made, live, slots, owner, podman, lost, gen, op, fault>>

\* UntrackProblem, and HandleInstancesEvent with 0 instances.
UntrackProblem(p) ==
  /\ Alive
  /\ op = None
  /\ table[p] # None
  /\ table' = [table EXCEPT ![p] = None]
  /\ live' = live \ {table[p]}
  /\ UNCHANGED <<worker, known, made, slots, contVars, op, fault>>

-----------------------------------------------------------------------------
(* HandleInstancesEvent of a tracked problem.                              *)

Grow(p, n) ==
  /\ Alive
  /\ op = None
  /\ table[p] # None
  /\ Len(table[p]) < n
  /\ op' = GrowOp(p, n - Len(table[p]))
  /\ UNCHANGED <<worker, tableVars, contVars, fault>>

Growing == Alive /\ op # None /\ op.kind = "grow"

NextUnused(k) ==
  owner[k] = None /\ \A j \in Conts : owner[j] = None => k <= j

\* Mutant: the loop does one launch too many.
LaunchCountsOn(k, id) ==
  /\ Growing
  /\ NextUnused(k)
  /\ LET i == table[op.prob]
     IN  /\ owner' = [owner EXCEPT ![k] = i]
         /\ slots' = [slots EXCEPT ![i][id] = k]
  /\ podman' = podman \cup {k}
  /\ gen' = [gen EXCEPT ![k] = IF worker THEN "run" ELSE "off"]
  /\ op' = IF op.left = 0 THEN None ELSE GrowOp(op.prob, op.left - 1)
  /\ UNCHANGED <<worker, known, table, made, live, stopped, lost, fault>>

\* NewProblemContainer: the container's ID is random, and its entry replaces
\* the one that had that ID.
Launch(k, id) ==
  /\ Growing
  /\ NextUnused(k)
  /\ LET i == table[op.prob]
     IN  /\ owner' = [owner EXCEPT ![k] = i]
         /\ slots' = [slots EXCEPT ![i][id] = k]
  /\ podman' = podman \cup {k}
  /\ gen' = [gen EXCEPT ![k] = IF worker THEN "run" ELSE "off"]
  /\ op' = IF op.left = 1 THEN None ELSE GrowOp(op.prob, op.left - 1)
  /\ UNCHANGED <<worker, known, table, made, live, stopped, lost, fault>>

\* It fails before the container is created: the loop is given up.
LaunchFails ==
  /\ Growing
  /\ op' = None
  /\ UNCHANGED <<worker, tableVars, contVars, fault>>

\* It fails once the container is created (Start, NewClient), and nothing in the
\* table or in any context refers to the container; or Inspect fails, whose
\* error is ignored, and its nil result ends the process.
LaunchLoses(k) ==
  /\ Growing
  /\ NextUnused(k)
  /\ owner' = [owner EXCEPT ![k] = table[op.prob]]
  /\ stopped' = stopped \cup {k}
  /\ podman' = podman \cup {k}
  /\ lost' = lost \cup {k}
  /\ \/ op' = None /\ UNCHANGED fault
     \/ fault' = "nilInspect" /\ UNCHANGED op
  /\ UNCHANGED <<worker, tableVars, gen>>

\* Mutant: the entries of the stopped containers stay.
ShrinkKeepsEntries(p, ids) ==
  /\ Alive
  /\ op = None
  /\ table[p] # None
  /\ ids # {}
  /\ ids \subseteq Used(table[p])
  /\ ids # Used(table[p])
  /\ stopped' = stopped \cup {slots[table[p]][id] : id \in ids}
  /\ UNCHANGED <<worker, tableVars, owner, podman, lost, gen, op, fault>>

\* Containers to stop, in the arbitrary order of a Go map.
Shrink(p, ids) ==
  /\ Alive
  /\ op = None
  /\ table[p] # None
  /\ ids # {}
  /\ ids \subseteq Used(table[p])
  /\ ids # Used(table[p])
  /\ LET i == table[p]
     IN  /\ stopped' = stopped \cup {slots[i][id] : id \in ids}
         /\ slots' = [slots EXCEPT ![i] = [id \in IDs |->
                                   IF id \in ids THEN None ELSE @[id]]]
  /\ UNCHANGED <<worker, known, table, made, live, owner, podman, lost, gen, op, fault>>

-----------------------------------------------------------------------------
(* The goroutines of a container.                                          *)

\* Mutant: AfterFunc is given the problem's context.
ProblemOver(k) == owner[k] # None /\ owner[k] \notin live /\ k \in podman \ lost
ToRemove(k) == owner[k] # None /\ Done(k) /\ k \in podman \ lost

\* stopContainer, run by context.AfterFunc.
StopContainer(k) ==
  /\ Alive
  /\ ToRemove(k)
  /\ podman' = podman \ {k}
  /\ UNCHANGED <<worker, tableVars, owner, stopped, lost, gen, op, fault>>

\* Podman cannot be reached or refuses; nobody tries again.
StopContainerFails(k) ==
  /\ Alive
  /\ ToRemove(k)
  /\ lost' = lost \cup {k}
  /\ UNCHANGED <<worker, tableVars, owner, stopped, podman, gen, op, fault>>

\* The program in the container ends; Podman removes it (sg.Remove).
ContainerExits(k) ==
  /\ Alive
  /\ k \in podman
  /\ podman' = podman \ {k}
  /\ UNCHANGED <<worker, tableVars, owner, stopped, lost, gen, op, fault>>

\* Mutant: looks at the error before the context.
RunGenerationsRetries(k) ==
  /\ Alive
  /\ gen[k] = "run"
  /\ gen' = [gen EXCEPT ![k] = IF Done(k) THEN "run" ELSE "best"]
  /\ UNCHANGED <<worker, tableVars, owner, stopped, podman, lost, op, fault>>

\* RunForGenerations returns; an error under a valid context is retried.
RunGenerations(k) ==
  /\ Alive
  /\ gen[k] = "run"
  /\ gen' = [gen EXCEPT ![k] = IF Done(k) THEN "off" ELSE "best"]
  /\ UNCHANGED <<worker, tableVars, owner, stopped, podman, lost, op, fault>>

GetBestPopulation(k) ==
  /\ Alive
  /\ gen[k] = "best"
  /\ \/ ~Done(k) /\ gen' = [gen EXCEPT ![k] = "push"]
     \/ gen' = [gen EXCEPT ![k] = "off"]
  /\ UNCHANGED <<worker, tableVars, owner, stopped, podman, lost, op, fault>>

\* The worker's emigrationHandler takes the population off wEmigChan.
PushEmigration(k) ==
  /\ Alive
  /\ gen[k] = "push"
  /\ gen' = [gen EXCEPT ![k] = "run"]
  /\ UNCHANGED <<worker, tableVars, owner, stopped, podman, lost, op, fault>>

-----------------------------------------------------------------------------
(* The master's IncorporatePopulation.  A worker never calls it: its       *)
(* HandleStreams drops the populations the master sends.                   *)

\* A tracked problem without containers gives a nil container to incPopToPC.
Incorporate(p) ==
  /\ Alive
  /\ ~worker
  /\ op = None
  /\ table[p] # None
  /\ IF Used(table[p]) = {}
       THEN fault' = "nilContainer" /\ UNCHANGED op
       ELSE /\ \E id \in Used(table[p]) :
                 op' = CallOp("seed", slots[table[p]][id])
            /\ UNCHANGED fault
  /\ UNCHANGED <<worker, tableVars, contVars>>

Calling(kind) == Alive /\ op # None /\ op.kind = kind

\* Mutant: InitFromSeedPopulation is called again after an error.
CallFailsRetries ==
  /\ Calling("seed")
  /\ UNCHANGED vars

\* InitFromSeedPopulation (also by its timeout of 5 seconds), GetRandom: an
\* error ends the call.
CallFails ==
  /\ Calling("seed") \/ Calling("random")
  /\ op' = None
  /\ UNCHANGED <<worker, tableVars, contVars, fault>>

CallReturns(kind, next) ==
  /\ Calling(kind)
  /\ op.cont \in podman
  /\ op' = CallOp(next, op.cont)
  /\ UNCHANGED <<worker, tableVars, contVars, fault>>

\* sendPopulation takes the reply off emigChan.
PushReply ==
  /\ Calling("reply")
  /\ op' = None
  /\ UNCHANGED <<worker, tableVars, contVars, fault>>

-----------------------------------------------------------------------------
Manager ==
  \/ \E p \in ProblemIDs :
       \/ NewProblem(p)
       \/ \E i \in Incs : TrackProblem(p, i)
       \/ UntrackProblem(p)
       \/ \E n \in 1 .. MaxInstances : Grow(p, n)
       \/ \E ids \in SUBSET IDs : Shrink(p, ids)
       \/ Incorporate(p)

Holder ==
  \/ \E k \in Conts, id \in IDs : Launch(k, id)
  \/ LaunchFails
  \/ \E k \in Conts : LaunchLoses(k)
  \/ CallFails
  \/ CallReturns("seed", "random")
  \/ CallReturns("random", "reply")
  \/ PushReply

Generations(k) == RunGenerations(k) \/ GetBestPopulation(k) \/ PushEmigration(k)

Container(k) ==
  \/ StopContainer(k)
  \/ StopContainerFails(k)
  \/ ContainerExits(k)
  \/ Generations(k)

Next == Manager \/ Holder \/ \E k \in Conts : Container(k)

Spec == Init /\ [][Next]_vars

\* The holder of pcMut waits for Podman, or for GetRandom, without a timeout.
Unanswered == op # None /\ op.kind \in {"grow", "random"}

(* Goroutines run on, emigrationHandler and sendPopulation keep receiving,  *)
(* and Podman answers the goroutine that removes a container.  Nothing says *)
(* that what holds pcMut is answered where it waits without a timeout.      *)
Fairness ==
  /\ WF_vars(~Unanswered /\ Holder)
  /\ \A k \in Conts :
       /\ WF_vars(StopContainer(k) \/ StopContainerFails(k))
       /\ WF_vars(Generations(k))

FairSpec == Spec /\ Fairness
-----------------------------------------------------------------------------
(* Safety.                                                                 *)

\* "Stops all containers and untracks the problem" (contmanager.go:147): a
\* container whose context is valid belongs to the incarnation that is
\* tracked now, even if its entry was overwritten by another container with
\* the same ID, and however often the problem was tracked before.
OnlyTrackedRun ==
  \A k \in Conts :
    owner[k] # None /\ ~Done(k) => \E p \in known : table[p] = owner[k]

\* The entries of a tracked problem are different containers of its current
\* incarnation with valid contexts: no population is given to a container
\* that was stopped, and stopping one entry never stops another.
TableHoldsRunning ==
  \A p \in ProblemIDs : table[p] # None =>
    \A id \in Used(table[p]) :
      LET k == slots[table[p]][id]
      IN  /\ owner[k] = table[p]
          /\ ~Done(k)
          /\ \A other \in Used(table[p]) : slots[table[p]][other] = k => other = id

-----------------------------------------------------------------------------
(* Liveness.                                                               *)

\* A container that is stopped, alone or with its problem, is removed from
\* Podman, unless Podman refused the one attempt.
StoppedIsRemoved ==
  \A k \in Conts :
    (owner[k] # None /\ Done(k))
      ~> (k \notin podman \/ k \in lost \/ fault # "none")

\* The goroutine of a stopped container ends, wherever it was.
GenerationsEnd ==
  \A k \in Conts : Done(k) ~> (gen[k] = "off" \/ fault # "none")

\* pcMut is released by the methods that manage containers, whatever fails in
\* them, unless a launch by Podman or a GetRandom is never answered: the call
\* with the seed population and the send of the reply do not keep it.  What
\* RemoveResultListener may do to it is in module ResultStreams.
MutexReleased ==
  []<>~Unanswered => ((op # None) ~> (op = None \/ fault # "none"))
=============================================================================
