# VolPE: specifications, model checking and proofs

VolPE runs population-based optimisation problems as containers ("islands") on
a set of worker machines. One **master** keeps a schedule of how many
containers of which problem each **worker** runs, collects populations from the
workers' containers, mixes them into its own container of the problem and sends
populations back. This directory holds TLA+ modules that model the program's
own control logic, the configurations that check them with TLC, and proofs
checked with TLAPS.

File names and line numbers below refer to `src/`. `PROJECT.json` maps every
definition to the lines it models.

## 1. The system

### Components

| Component (files) | State | Operations | Module |
|---|---|---|---|
| Master streams (`comms/volpe/master.go`, `master/master.go`) | `channs` (workerID to channel), one handler and one reader goroutine per stream, unbuffered `metricChan`, `immigChan`, `emigChan` | `StartStreams`, `mcsStreamHandlerThread`, `readerThread`, `SendMasterMessage`; goroutines `sendMetric`, `recvPopulation`, `sendPopulation`, `sendSchedule` | `MasterComms` |
| Scheduler (`scheduler/*.go`) | workers, problems, instance counters, `removeList`, the `Schedule` map | `AddWorker`, `RemoveWorker`, `AddProblem`, `RemoveProblem`, `FillSchedule`, `Schedule.Set/Get/Reset/Apply` | `PrelimScheduler`, `IslandPacking`, `ScheduleKeys` |
| Container manager (`container_mgr/*.go`) | `problemContainers` table, one context per tracked problem, one per container, Podman's containers | `TrackProblem`, `UntrackProblem`, `HandleInstancesEvent`, `IncorporatePopulation`, `runGenerations`, `stopContainer` | `ContainerManager` |
| Result streams (`master/api/controller.go`, `container_mgr/*.go`) | `resultChannels` per container, two mutexes, one unbuffered channel per HTTP request | `StreamResults`, `Register/RemoveResultListener`, `sendResults` | `ResultStreams` |
| REST API (`master/api/*.go`) | none of its own; each request runs in a goroutine | register, start, abort, delete a problem; queries | `ProblemLifecycle`, `ResultStreams`, `ImageTransfer` |
| Problem store (`model/problems.go`) | metadata by problem ID | `NewProblem`, `RegisterImage`, `GetMetadata`, `GetFileName` | `ProblemLifecycle` (metadata), `ImageTransfer` (path and file), `WorkerNode` (a worker's store) |
| Worker node (`worker/worker.go`, `comms/volpe/worker.go`) | one stream, channels between its goroutines, its own store and container manager | `main`, `HandleStreams`, `adjInstHandler`, `emigrationHandler`, `deviceMetricsExporter` | `WorkerNode` |
| Image transfer (`RegisterProblem`, `GetProblemData` at both ends) | a file on either side | upload, chunked copy | `ImageTransfer` |
| Metrics of containers, worker tracker | | no live caller | not modelled |
| Configuration, generated gRPC code | | | not modelled |

### Interaction

* A worker opens one gRPC stream and says hello. `StartStreams` makes a channel
  for it, stores it in `channs`, calls `AddWorker`, and serves the stream until
  it breaks, then calls `RemoveWorker`. Frames of the worker go to `metricChan`
  (read by `sendMetric`, which calls `UpdateMetrics`) or `immigChan` (read by
  `recvPopulation`, which calls `IncorporatePopulation`; its reply comes back
  through `emigChan`, `sendPopulation` and a goroutine per message).
* Every five seconds `sendSchedule` resets the schedule, has `FillSchedule`
  fill it and lets `Apply` send one message per entry through
  `SendMasterMessage`, which blocks until the worker's handler takes it.
* The API's requests run in goroutines of their own and call the scheduler, the
  store and the container manager directly.
* `ss.mut` guards the scheduler, `chans_mut` only the *writes* of `channs`,
  `pcMut` the container manager and `rcMut` the result channels of one
  container. `pcMut` is held while containers are launched, called into, and
  while a request waits for `rcMut`.

### What is hard, and what makes each component correct

* **Master streams.** Old and new streams of one worker overlap; a handler may
  be blocked on a channel when its stream breaks; nothing ever deletes a
  channel. Correct means: the scheduler knows exactly the workers being served,
  every schedule entry can be addressed, a broken stream always ends in
  `RemoveWorker`, a departed worker does not stop the others' schedule, no
  schedule overtakes a newer one.
* **Scheduler.** Three nested loops with a flag and float memory, counters kept
  by three methods, a schedule rebuilt from nothing, other goroutines between
  fill and `Apply`. Correct means: the loops end and pack each worker to its
  cap, removed problems stop everywhere, the reported figures are those that
  were sent, the heaviest problem is never starved.
* **Container manager.** Contexts, table and Podman change one after the other
  while `pcMut` is held for long; launches fail half way; IDs are random.
  Correct means: containers of a problem that is not tracked stop, entries of
  the table run, the mutex is always released.
* **Result streams.** A sender that holds a mutex across unbuffered sends,
  requests that hold another mutex across waiting for it, two places that close
  a channel, a loop without the lock. Correct means: no waiting request is
  forgotten, streams of stopped problems end, removal always completes, the
  master never panics.
* **REST requests.** Each makes two or three calls to components with a mutex of
  their own; several run at once, with fills and incoming populations between
  them; two of them go on after they answered 404. Correct means: scheduler and
  container manager agree on what runs, what is shown agrees with both, every
  request returns, workers stop what was aborted.
* **Worker node.** One goroutine receives and waits for another that downloads
  and launches; whatever fails drops the order in hand; the process ends with
  its stream, while its containers are being removed; what it left is unknown to
  its successor. Correct means: a connected worker comes to run what the
  schedule says, a cut-off one ends, restarts leave a bounded number of
  containers behind.
* **Image transfer.** Every frame is a whole buffer, the size is an `int32`, the
  two sides count differently, the file may be truncated under the reader.
  Correct means: what is registered starts with the image, calls return.

`PROJECT.json` lists the hazards one by one at their lines, with the property
that covers each or the reason why none does.

## 2. Plan

In order of importance; all of it is done.

1. `MasterComms`: streams and the schedule's delivery.
2. `PrelimScheduler` and its abstract specification `IslandPacking`.
3. `ContainerManager`: problems, containers, contexts.
4. `ResultStreams`: the API's listeners and `sendResults`.
5. `ImageTransfer`: both ends of `GetProblemData` and the upload.
6. `WorkerNode`, which composes `ImageTransfer` with the worker's process,
   stream and containers.
7. `ProblemLifecycle`: the API's requests as sequences of calls to the store,
   the scheduler and the container manager.
8. `ScheduleKeys`: the text of the schedule's keys, against the pairs
   `PrelimScheduler` uses.
9. `ScheduleProofs`: the lemmas about the scheduler's data (keys, sums over the
   schedule, counters that wrap, rounds of a packing) on which its proofs rest.

Each module from 1 to 7 has a run, and a `*Proofs` module for its types and its
safety invariants; `ImageTransfer` is run and proved through `WorkerNode`.
Worth adding where the code grows: the way back of populations from master to
worker (today the worker drops them), and `EventStream` once something sends on
its channels.

## 3. The modules and the code

### MasterComms

One `Conns` element is one `StartStreams` call with its handler loop
(`pc[c]`), its reader goroutine (`rd[c]`) and its unbuffered channel, which is
named by the connection. `pc` runs through `accept`, `lock`, `store`, `add`
(hello, `chans_mut`, the map store, `AddWorker`), the loop (`serve`, waiting
on a channel in `putMetric`/`putImmig`, writing in `send`), `remove` and
`closed`. The four goroutines of `master.go` are the variables `metric`,
`immig`/`emig`, `spawned`/`parked` and `todo`/`sched`/`blocked`/`round`.
`FillSchedule` and `FillDone` are the two ends of a fill, between which it holds
`ss.mut` (`SchedulerFree`) and handlers wait to register and to leave.
A message is what routing tells apart: its kind, or the round that made it.

Faults are states: `nilWorker` is the nil dereference of `UpdateMetrics`,
`mapRace` the runtime's detection of a concurrent map read and write in
`SendMasterMessage`. The race may also go unnoticed and return some value; then
the ordinary actions follow. Which workers `FillSchedule` gives instances to is
left open here and decided in `PrelimScheduler`.

`Impatient` names the workers that may come back before the master has noticed
that their old stream is dead. All others wait until the old handler has
returned. Both happen in the field, and what is true differs.

### PrelimScheduler and IslandPacking

`FillSchedule` is modelled loop by loop: the two sorts (any order among equals,
as the comparators leave it), `VisitWorker` for the inner loop's head, `Place`
and `DoesNotFit` for its body, `NextPass`, and `Broadcast` for the loop over
`removeList` that overwrites entries with 0. Other goroutines' methods need
`ss.mut` and so interleave before the lock (`Reset` runs without it) and during
`Apply`. `told[w]` is what the worker was last told to run; a worker that joins
or leaves starts from nothing. A send to a departed worker never returns
(phase `blocked`), as `MasterComms` shows.

Memory is counted in whole units; the code's `float32` may round, which is
outside this model. A problem may take no memory: then the loops end only if the
other problems use up the memory of every worker exactly. A negative memory,
which nothing rejects either, keeps the loops in the same way; it is not in
this module's `Problems`, and stands with no memory in `ProblemLifecycle`. An
entry of the schedule is an `int32` that wraps at `CountRange`, `instanceCounts`
an `int` that wraps at `IntRange`, a multiple of it; so `CountsMatchSchedule` is
about sums modulo `CountRange`, and `PacksToTheCap` says that memory is used up
only of workers whose memory is below it, and by problems that take some.

`IslandPacking` is what the scheduler promises: each fill is one step, giving
each registered worker, independently of the others, a round-robin packing of
its memory, and 0 for the problems removed. `AfterOffers` is what one round of
offers leaves of a worker's memory, problem by problem, and `AfterRounds` what
so many rounds leave; `Places` says which offers of which round are taken up,
and `Instances` counts those of one problem. Each round but the last takes
memory, so as many rounds as the worker has memory are enough; the code goes on
until a pass over *all* workers changes nothing. `PackingImplemented` states
that `PrelimScheduler` implements it, with an unfinished schedule mapped to the
empty one.

### ContainerManager

`TrackProblem` makes a `cmProblem`; each such *incarnation* has its context
(`live`) and its own map of containers (`slots`). `owner[k]` is the incarnation
whose context is the parent of container `k`'s. `op` says what the holder of
`pcMut` is doing between two steps: launching the remaining containers of an
event, or calling into a container. Launching can fail before Podman created
the container (`LaunchFails`) or after (`LaunchLoses`), where a failed
`Inspect` ends the process (fault `nilInspect`). `rand.Int32() % 2048` is
any element of `IDs`. `worker` distinguishes the two kinds of node; only a
worker runs `runGenerations`, only the master reaches `IncorporatePopulation`,
because a worker's `HandleStreams` drops the populations it receives.

### ResultStreams

One problem on the master, with the containers of its successive starts
(`Conts`) and the `StreamResults` requests (`Listeners`). `lis[l]` is where a
request is, `snd[k]` where a container's `sendResults` is. `pcMut` is only a
variable where it is kept across a step: in `register` and `deregister`, where
a request waits for `rcMut`. A send on an unbuffered channel is one step of
sender and listener together. A send on, or close of, a closed channel in
`sendResults` panics its goroutine and ends the master (`fault`); in a request
the HTTP server recovers the panic and the deferred unlock runs, so it only
ends the request.

### ProblemLifecycle

One problem and the requests about it (`Reqs`). `pc[r]` is the next call of a
request, named as in the code: `RegisterProblem` goes through `newProblem` and
`registerImage`, `StartProblem` through `getMetadata`, `addProblem`,
`trackProblem`, `event` and `launch`, and so on; each call is one action, under
the mutex of the component it changes. `ss.mut` is held by a fill
(`round = "fill"`); `pcMut` by a launch (`holder`), or by
`IncorporatePopulation` and `RemoveResultListener` while they wait for a
container or for a sender (`busy`), for as long as that takes. `arg[r]` is the
`types.Problem` the request read, which may be the zero Problem: `GetMetadata`'s
error is answered with 404 and the request goes on. The scheduler's sorted list
is the set `entries`: a problem registered again with other metadata is another
element, and `RemoveProblem` takes one of them.

A round of `sendSchedule` comes between the calls in its three steps:
`FillSchedule` takes `ss.mut`, `FillDone` leaves in `adj` what the schedule has
for the problem, and `Apply` delivers it, so that a request may come after the
fill and before the delivery. `Endless` is a fill over an entry that takes no
memory (or a negative one): it may end, if other entries use the worker up
exactly, or not. `Incorporate` also meets the tracked problem that has no
container, which it dereferences.

### ImageTransfer and WorkerNode

A file is the sequence of its bytes, and a byte names the upload it came from
and its place in it; so a mix of two images or a hole is visible. `disk` is the
master's file, written by `RegisterProblem` in blocks (`CreateFile`,
`CopyBlock`) and read by the server's `GetProblemData` (`srv`), which sends its
whole buffer whatever `Read` returned. `cli` and `got` are the worker's call and
its file, `wire` the frames between. A write of a chunk may fail part of the way
(`WriteFails`): the code ignores the error and counts the chunk. `opened`,
`clean` and `whole` are history: the file as it was when the server opened it,
that it was the whole of its upload and no other touched it since, and that no
write failed.
`Int32` is the conversion the code applies to the size, and `cli.done` the
client's count, which wraps in the same width.

`WorkerNode` is one worker and one problem. `inbox` is the stream from the
master, `hand` the count that `HandleStreams` is pushing into the unbuffered
`adjInstChan`, and `adj` what `adjInstHandler` does with the last it took:
`fetch` (with `cli` in the download), `apply` (`TrackProblem` and the shrinking
branches of `HandleInstancesEvent`), `grow` (its launches, counted down).
Containers are counted: `table` entries, of them `exited` whose container has
ended; `hidden` containers whose entry was overwritten by one with the same
random ID (`IDCollides`), which leaves the table short; and `orphans`, to which
no context of this process refers: left by earlier processes, by a launch that
failed after Podman had created its container (`LaunchFails`), or by a removal
Podman refused (`Stop`). Their contexts are the matter of `ContainerManager`.
`MainReturns` is the end of `main`, whose deferred cancel starts removals that
race with the end of the process: any number of the containers may survive.
`SendsOverlap` stands for the two goroutines that send on one stream without a
lock, which gRPC does not allow: the stream may break.

The schedule is the environment of `WorkerNode`: `Assign` gives the worker
instances, `RemoveProblem` makes the next round owe it a 0, and `Displace` takes
its instances away without any message, as `FillSchedule` does with a problem
that a heavier one displaces. `Tell` is a round that reaches the worker,
`TellNobody` one that finds it gone.

### ScheduleKeys

`Key` is the string that `Schedule.Set` makes of a worker and a problem,
`ProblemOf` and `WorkerOf` the two substrings that `Apply` takes out of it with
`strings.Split`. A string is a sequence of characters. There is no state and no
run: `ScheduleProofs` shows for which IDs the pairs of `PrelimScheduler` and the
strings of the code are the same thing.

Operators under a comment "Mutant:" are altered bodies of the definition below
them, used to confirm that a property notices the change. No specification
refers to them.

## 4. The runs

| Run | Configuration | Result |
|---|---|---|
| `comms_safety` | 2 workers, one of them impatient, 2 connections, 1 frame each, 2 rounds, symmetry of connections | passes, 1,056,988 states |
| `comms_live` | 1 impatient worker, 2 connections, 1 frame, 1 round | passes, 146,934 states |
| `comms_round` | 1 patient worker, 1 connection | `RoundCompletes` violated |
| `comms_metrics` | 1 patient worker | `MetricsOfKnownWorker` violated |
| `comms_reconnect` | 1 impatient worker, 2 connections | `ServedIsRegistered` violated |
| `sched_fill` | workers of memory 3 and 1, problems of memory 1 and 2, the lighter of which may be registered with memory 0, entries modulo 7, counters modulo 14 | passes, 253,494 states |
| `sched_told` | the same | `ToldWithinMemory` violated |
| `contman_node` | 2 problems, 2 incarnations, 2 containers, 2 container IDs, events of up to 2 instances, either kind of node | passes, 119,996 states |
| `results_master` | 2 listeners, 2 containers (two starts) | passes, 49,272 states |
| `results_leave` | 1 listener, 1 container | `RemovalCompletes` violated |
| `worker_node` | images of 3 and 5 bytes, chunks of 2, an `int32` that holds -5 to 4, 2 instances, 3 environment steps, 1 container that goes astray | passes, 287,446 states |
| `lifecycle` | 4 requests, 2 at a time, metadata with or without memory | passes, 307,233 states |

What the passing runs show:

* `comms_safety`. `NoGhostWorker`: an entry of the scheduler was made by a
  connection still being served, however it ends. `ScheduleAddressable`: each
  worker scheduled has a channel, and it is its own. `PatientServedIsRegistered`:
  a worker that never reconnects early stays known while it is served.
  `RoundsMonotone`: on one stream no older schedule follows a newer one.
* `comms_live`. A broken stream ends in `RemoveWorker`, unless a fill keeps
  `ss.mut` for ever or the handler is behind an `IncorporatePopulation` that
  never returns. A send of the schedule is taken, or its handler leaves, unless
  the handler is behind such a call or its worker stays connected and never
  reads. These are the premises of the two properties.
* `sched_fill`. `PacksToTheCap`, `FillTerminates` and `PackingImplemented` for
  the loops; `CountsMatchSchedule`, `ShownWasTold` and `RemovedProblemStopped`
  for what other methods see and workers are told, with removals and
  reconnections around the fill; `HeaviestReachesWorker` for fairness among
  problems. A problem without memory is in the run: a fill that comes to hand
  out nothing but its instances is the exception in `FillTerminates` and
  `HeaviestReachesWorker`. A problem removed and started again since the last
  fill is overwritten with 0 in the schedule although it is counted; that is the
  second case of `CountsMatchSchedule`.
* `contman_node`. `OnlyTrackedRun` and `TableHoldsRunning` relate contexts and
  table; `StoppedIsRemoved`, `GenerationsEnd` say that stopping completes,
  `MutexReleased` that `pcMut` comes back unless Podman or `GetRandom` never
  answers.
* `results_master`. `ChannelsStable`: the set of channels never changes under a
  loop over it, not even under the last one, which takes no lock.
  `RegisteredIsServed`: a waiting request is never dropped by its sender.
  `PanicNeedsLeaver`, `StreamEnds`, `PcMutReleased`: as long as no client
  leaves, nothing panics, streams of stopped problems end, and `pcMut` comes
  back. The next section says what one leaving client can do.
* `worker_node`. `TableFollowsSchedule`: a worker that stays connected, to a
  master whose rounds go on, comes to have as many entries as the schedule says,
  although any failed download or launch drops the order and a colliding ID
  leaves the table short; a displaced problem is excepted. `LostStreamEndsWorker`
  and `TransferEnds`: the process ends with its stream and the server's call
  returns, wherever the other side is. `ImageFaithful`: what is registered is
  the image, with less than a chunk after it. `FileNotRewritten`: no file is
  written that containers may have been launched from. `InstancesBounded`:
  restarts leave at most `MaxInstances` containers for each process that ran,
  and one for each that went astray (a colliding ID, a launch that failed half
  way, a refused removal). The other exceptions are in the properties: an image
  whose size or count leaves `int32`, an upload that truncates the file under a
  download, and a write into the worker's file that failed.
* `lifecycle`. `BareOnlyWhileStarting`: the nil container that
  `IncorporatePopulation` would dereference exists only between `TrackProblem`
  and the end of the launch, or after a launch that failed.
  `ScheduledIsTracked`, `ShownConsistent`: after requests that do not overlap,
  scheduler, container manager and what `GetProblem` shows agree.
  `RequestsReturn`: every request returns, unless a call under `pcMut` is never
  answered or a fill never ends. `AbortedIsStopped`: workers stop a problem
  that no entry runs any more, also when requests overlap each other, a fill or
  an `Apply` that still delivers the old count, as long as rounds end.

### Findings

The runs that end in a violation show disagreements between the code and what
its documents or comments say:

* **A departed worker stops the schedule** (`comms_round`, `master.go:322`). Its
  channel stays in `channs`; a send to it never returns, and no worker gets
  another schedule.
* **Late metrics end the master** (`comms_metrics`, `prelim_scheduler.go:49`).
  `sendMetric` may hold metrics of a worker that is removed before
  `UpdateMetrics` looks it up.
* **The old stream unregisters the new one** (`comms_reconnect`,
  `master.go:224`). `RemoveWorker` goes by ID; if the worker is back already,
  it is served and never scheduled again.
* **Displaced problems keep running** (`sched_told`, `prelim_scheduler.go:64`).
  The schedule is rebuilt from nothing and only aborted problems get a 0.
* **A leaving client stops the container manager** (`results_leave`,
  `contmanager.go:411`). Its request keeps `pcMut` and waits for `rcMut`, which
  the sender keeps while it waits for that request to receive.

The models also show the following, which no document or comment of the
repository speaks about. They are named in the properties that hold otherwise.

* A problem whose memory is not positive always fits, so a fill may never end and
  keep `ss.mut` (`prelim_scheduler.go:127`); nothing checks the memory of a
  registration. `StartProblem` of an unknown ID answers 404 and puts such a
  problem into the scheduler (`controller.go:200`).
* `GetRandom` is called without a timeout while `pcMut` is held
  (`contmanager.go:297`). A container that never answers it keeps every request
  and every migration of the master waiting.
* The error of `file.Write` is ignored (`comms/volpe/worker.go:165`): a worker
  whose disk is full registers a part of the image as the whole.
* Two requests that overlap can leave a problem scheduled and not tracked, or
  tracked and not scheduled.
* Two containers of a problem may draw the same ID (`contmanager.go:326`). The
  first then runs without an entry until the problem is untracked, when its
  context ends with the problem's (`OnlyTrackedRun`), and the next round launches
  one more than the schedule asks for (`InstancesBounded`).
* A launch that fails after Podman created the container leaves it
  (`problem_container.go:67`), and a failed `Inspect` ends the process
  (`contrunner.go:89`).
* An entry whose container has ended is never replaced (`contmanager.go:318`);
  `TableFollowsSchedule` therefore speaks of entries.
* An upload under a download leaves the server reading a file that is too short,
  for ever (`master.go:261`).

### Bounds

* Two connections are the least that let an old and a new stream of one worker
  overlap, and with two workers also let two workers wait on the same
  goroutine. Two rounds let a message of one round wait while the next begins.
  One frame per connection lets the handler block once in each place; a second
  frame leads back to the same states.
* With workers of memory 3 and 1 and problems of memory 1 and 2 a fill takes
  several passes, the workers fill up in different passes, a problem fits one
  time and not the next, and the heavier displaces the lighter. With the lighter
  registered without memory the fill goes on without end on the worker that is
  left over, and does end where the heavier use all memory up. `CountRange` 7
  exceeds every count of a fill that ends, so no wrap hides a mismatch there;
  `IntRange` 14 lets the two widths differ and both wrap. All invariants and
  `PackingImplemented` are proved for any width.
* Two incarnations let a problem be tracked again while containers of the first
  are still stopping; two containers and two IDs let IDs collide.
* Two containers let a request reach the container of a later start; two
  listeners let one keep the sender from the other.
* `worker_node`: with `Chunk` 2, the image of 3 bytes has a chunk that is partly
  filling and its size fits `Limit` 5 (an `int32` of -5 to 4); the image of 5
  bytes wraps to a negative size. `MaxFile` 6 ends the file of a client that
  waits for more bytes than there are. `Window` 1 and `MaxInbox` 1 are the least
  that let the sides be apart by a message. `MaxEvents` 3 lets an upload, a break,
  a failed write, a change of the schedule and a restart come in any order,
  three of them, or three of one kind; each starts from whatever state the
  others left. `MaxStrays` 1 lets one ID collide, one failed launch leave its
  container or one removal be refused, at any point; `InstancesBounded` is proved
  for any number.
* `lifecycle`: two requests at a time are the least that overlap; four in all
  register a problem, start it, abort or delete it, and start or register it
  again. `Versions` 0 and 1 give a problem without and one with memory, and
  two metadata that differ; with 0, 1 and 2 (670,000 states) the run passes as
  well but takes too long to be kept.
* `CHECK_DEADLOCK FALSE` is set for all but the scheduler: connections, rounds,
  containers, requests and environment steps are bounded, and a fault ends the
  process, so these models may stop. The scheduler's runs check deadlock.

### Fairness

* A goroutine that can take a step takes it (`WF`). Nothing is assumed of the
  environment: workers, clients, failures and API requests happen or not.
* Strong fairness stands where the Go runtime gives it. In `MasterComms`:
  senders queue on a channel in order, `select` chooses at random among ready
  cases, and a mutex in starvation mode is handed to the one that waits longest,
  so a waiting send or lock is not passed over for ever. In `ResultStreams` and
  `ProblemLifecycle` the same holds for a request that waits for a mutex.
* No step is fair that the code lets wait without a timeout or loop without an
  end. These steps are: the end of a fill over a problem without memory; the end
  of `IncorporatePopulation` (`GetRandom`); a launch by Podman or `GetRandom`
  under `pcMut`; `RemoveResultListener` waiting for a sender; the end of `Apply`
  (a departed worker); a `Send` to a worker that does not read. The properties
  that need one of them name it as a premise, `[]<>~X`: X does not last for ever.
  Each premise is the subject of a property or a finding of the module that has
  the detail (`FillTerminates`, `MutexReleased`, `RemovalCompletes`,
  `RoundCompletes`).
* Calls with a timeout return: `GetResults` and the seed call. In
  `ContainerManager`, Podman answers the goroutine that removes a container.
* The scheduler's only fair process is `sendSchedule`'s goroutine.
* In `WorkerNode` the goroutines of a living process run on, the master's server
  and Podman answer. `SF` on `Launch` says that Podman, asked again and again,
  sometimes starts a container from an image that is whole. Nothing is assumed
  of the master's rounds, of uploads, of the network, of crashes or of the
  programs in containers.

## 5. Proofs

Each `*Proofs` module is checked with TLAPS, without further assumptions than
the named `ASSUME` of the module it extends, which only say that the constants
are of their kinds, that `None` is not one of them, and that the sets counted
are finite. The results hold for any number of workers, connections, problems,
containers, listeners and requests, and for any chunk size and integer width.

| Theorem | Establishes | By |
|---|---|---|
| `MasterCommsProofs!TypeCorrect` | `TypeOK` | induction over the actions |
| `MasterCommsProofs!Registrations` | `NoGhostWorker`, `ScheduleAddressable` | `RegistrationInv`: a channel is stored before its worker is registered, and both belong to a stream of that worker |
| `MasterCommsProofs!PatientWorkers` | `PatientServedIsRegistered` | `PatientInv`: a patient worker has at most one connection between hello and return |
| `MasterCommsProofs!SchedulesInOrder` | `RoundsMonotone` | `OrderInv`: a waiting message is of the current round, nothing in flight or sent is newer, and no handler holds an older one than its stream has sent |
| `PrelimSchedulerProofs!TypeCorrect` | `TypeOK`, so remaining memory never falls below 0 | lemmas on `Get`, `Set`, `Inc`, `Without` and the sort |
| `PrelimSchedulerProofs!RemovalsAndShown` | `RemovedProblemStopped`, `ShownWasTold` | `RemovalInv`: the schedule names only problems that are known or removed; `ShownInv`: shown follows the schedule from `Place` to the delivery |
| `PrelimSchedulerProofs!FillsToTheCap` | the fill's loop ends only when no registered worker with memory left has room for any problem (`NothingFits`) | `FullInv`: while a pass has placed nothing, the workers it is through with have no room, nor has the current one for the problems before `at` |
| `PrelimSchedulerProofs!PacksFully` | `PacksToTheCap` | `CapInv`: what the entries of a worker need and what is left for it are within its memory, and exactly its memory if its counters cannot wrap; with `FillsToTheCap` at the end |
| `PrelimSchedulerProofs!FillAdvances` | if each problem takes memory, every step of a fill lowers a measure of natural numbers, so that a fill has finitely many steps | `VisitInv`: finitely many workers are registered, and `at` passes the list by one at most; the measure is the memory left over all workers, whether the pass placed something, the workers to visit, the offers to the current one |
| `PrelimSchedulerProofs!CountsAreScheduled` | `CountsMatchSchedule` | `CountInv`: during a fill each counter is the sum of the entries of its problem, modulo `CountRange`, which divides `IntRange`, and only listed problems are counted, so that the next fill resets every counter |
| `PrelimSchedulerProofs!FillImplementsPacking` | `PackingImplemented` | `PackInv`: each registered worker has been through some number of rounds of the packing of its own memory, and the visited one through the offers before `at`; `Sorted` and `Distinct`: the list is one of the orders `IslandPacking` may use; `FullInv` for the end, where `RoundsSuffice` says that the rounds of a full worker placed what those of the packing place |
| `ContainerManagerProofs!TypeCorrect` | `TypeOK` | `FiniteSetTheorems` for the number of entries |
| `ContainerManagerProofs!ManagerSafe` | `OnlyTrackedRun`, `TableHoldsRunning` | `ManagerInv`: a context is valid exactly if its incarnation is in the table, once, each container has one entry at most, where it was launched, and nobody disturbs the holder of `pcMut` |
| `ResultStreamsProofs!TypeCorrect` | `TypeOK` | induction over the actions |
| `ResultStreamsProofs!StreamsSafe` | `ChannelsStable`, `RegisteredIsServed` | `GuardInv`: a request that waits for `rcMut` has `pcMut` and its container is the problem's, while a sender in its last loop belongs to one that is not; `ListenerIsServed`: the same promise for a request that is writing |
| `ResultStreamsProofs!PanicsNeedLeaver` | `PanicNeedsLeaver` | `PanicInv`: while no client has left, a channel is with one sender, both loops visit only channels of the set, and a closed channel was closed by its sender in the last loop |
| `ProblemLifecycleProofs!TypeCorrect`, `BareProblems` | `TypeOK`, `BareOnlyWhileStarting` | `StoreInv`: what a request in progress may rely on (metadata in hand, a tracked problem while it launches) |
| `ProblemLifecycleProofs!ComponentsAgree`, `ShownAgrees` | `ScheduledIsTracked`, `ShownConsistent` | `SerialInv`: without overlap, how far the two components agree between the calls of each kind of request, and what `GetProblem` has read; `CountsInv`: only a scheduled problem is counted |
| `WorkerNodeProofs!TypeCorrect` | `TypeOK` | lemmas of `ImageTransferProofs` for the transfer's part |
| `WorkerNodeProofs!ContainersBounded` | `InstancesBounded` | `OrphansInv`: each process that is over left at most `MaxInstances` and what went astray; `HandlerInv`: a launch starts from what is in the table |
| `WorkerNodeProofs!ImageFileStable` | `FileNotRewritten` | `HandlerInv`: a download runs only while there is no image, and no table without one |
| `WorkerNodeProofs!ImageArrives` | `ImageFaithful` | `TransferInv`: chunks on the wire are the opened file's bytes at consecutive offsets from what the client has to where the server is, and the client's count is the length of its file as long as no write failed |
| `ScheduleProofs!KeysComeBack`, `KeysDiffer` | for IDs without `@`, `Apply` hands on what `Set` was given, and different pairs have different keys | the first cut of a key is at the end of the problem's ID, the second at its end |
| `ScheduleProofs!WorkerMisaddressed` | what is scheduled for a worker whose ID has an `@` goes to the ID before it | the same, with a cut inside the worker's ID |

Of the safety invariants none is inductive as it is stated. For instance
`ChannelsStable` says nothing of why a request cannot reach a container in its
last loop; that it keeps `pcMut` and that `UntrackProblem` needs it is what
`GuardInv` adds; `ImageFaithful` speaks of a file that is complete, and
`TransferInv` of every frame on its way to it. All strengthenings were evaluated
with TLC on the bounds above before they were proved. Each proof has one step
per action. The proofs about the transfer are split: `ImageTransferProofs` shows
that whatever a worker may do with it (`ImageStep`) keeps types and
`TransferInv`, and `WorkerNodeProofs` that each of its actions is such a step.

The fill's loops go over all workers in turn, and a worker that is full is
visited again as long as another one has room. `PackInv` therefore leaves the
number of rounds of each worker open: it differs between workers, and for one
worker it differs from the number `IslandPacking` uses. That this makes no
difference is `RoundsSuffice`, and that each method between the fills is a step
of `IslandPacking` of its own is `MethodsImplementPacking`.

What `AfterOffers`, `AfterRounds` and sums over a schedule compute is proved by
induction in `ScheduleProofs`. The induction principle is there as a lemma about
sets (`NatSet`, `SubsetSet`: a set that has 0 and the successor of each of its
elements has every natural number, and likewise for the subsets of a finite
set), because the library's theorems about it take an operator as a parameter,
which the provers cannot instantiate. `StepByStep` shows that a function defined
by recursion exists, `OffersUnfold`, `RoundsUnfold` and `SumUnfolds` that the
definitions are what their recursion says. Each induction names the set of
numbers for which its claim holds and applies the lemma to it.

Only model-checked, not proved: the liveness properties, which need fairness and
`ENABLED`. Of `FillTerminates` the measure is proved (`FillAdvances`); that a
step of the loops is always possible is left to TLC. Every safety invariant,
every action property and the refinement that a passing run checks is also
proved.

## 6. Not modelled

* Contents of populations, metrics and results: no decision depends on them.
* Rounding of `float32` memory: repeated subtraction (`prelim_scheduler.go:132`)
  may leave room for one instance fewer or more.
* `EventStream` (`controller.go:318`): it adds a channel to a map and waits for
  ever; nothing sends on it, and `distributeResults` is a busy loop over
  commented-out code.
* Populations that the master sends back: `HandleStreams` drops them
  (`comms/volpe/worker.go:90`), so the worker's branch of
  `IncorporatePopulation` is never reached.
* Failures inside gRPC other than a stream or call that breaks; Podman other
  than success or failure of a call.
* Container metrics and the worker tracker, which nothing calls; configuration;
  generated code; the web server's routing.
* `GetWorkers` and `ListProblems`: reads only. The figures `GetWorkers` returns
  are the subject of `ShownWasTold`.
