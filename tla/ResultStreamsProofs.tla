------------------------ MODULE ResultStreamsProofs ------------------------
(***************************************************************************)
(* Proofs about ResultStreams, for any sets of listeners and containers.   *)
(***************************************************************************)
EXTENDS ResultStreams, TLAPS

\* The initial values have their types.
LEMMA InitType == Init => TypeOK
<1> SUFFICES ASSUME Init PROVE TypeOK
  OBVIOUS
<1>1. rcMut \in [Conts -> BOOLEAN]
  <2>1. rcMut = [k \in Conts |-> FALSE]
    BY DEF Init
  <2> QED
    BY <2>1, Zenon
<1>2. tracked \in BOOLEAN /\ (cont # None => tracked)
  BY DEF Init
<1>3. /\ chans \in [Conts -> SUBSET Listeners]
      /\ lis \in [Listeners -> {"start", "register", "recv", "write", "remove",
                                "deregister", "ended"}]
      /\ at \in [Listeners -> Conts \cup {None}]
      /\ snd \in [Conts -> {"off", "sleep", "lock", "get", "send", "close", "end"}]
      /\ target \in [Conts -> Listeners \cup {None}]
      /\ todo \in [Conts -> SUBSET Listeners]
  BY DEF Init
<1> QED
  BY <1>1, <1>2, <1>3 DEF Init, TypeOK

\* Every step keeps the types.
LEMMA TypeStep == TypeOK /\ [Next]_vars => TypeOK'
<1> SUFFICES ASSUME TypeOK, [Next]_vars PROVE TypeOK'
  OBVIOUS
<1> USE ResultStreamsAssumption DEF TypeOK, Alive, trackVars, listenVars, sendVars
<1>1. CASE API
  <2>1. CASE Track
    BY <2>1 DEF Track
  <2>2. ASSUME NEW k \in Conts, Launch(k)
       PROVE  TypeOK'
    BY <2>2 DEF Launch
  <2>3. CASE UntrackProblem
    BY <2>3 DEF UntrackProblem
  <2> QED
    BY <1>1, <2>1, <2>2, <2>3 DEF API
<1>2. ASSUME NEW l \in Listeners, Request(l) PROVE TypeOK'
  <2>1. CASE RegisterFails(l)
    BY <2>1 DEF RegisterFails, Goto
  <2>2. CASE Register(l)
    BY <2>2 DEF Register, Goto
  <2>3. CASE RegisterResultChannel(l)
    BY <2>3 DEF RegisterResultChannel, Goto
  <2>4. CASE RecvClosed(l)
    BY <2>4 DEF RecvClosed, Goto
  <2>5. CASE WriteOk(l)
    BY <2>5 DEF WriteOk, Goto
  <2>6. CASE WriteFails(l)
    BY <2>6 DEF WriteFails, Goto
  <2>7. CASE RemoveFails(l)
    BY <2>7 DEF RemoveFails, Goto
  <2>8. CASE Remove(l)
    BY <2>8 DEF Remove, Goto
  <2>9. CASE DeRegister(l)
    BY <2>9 DEF DeRegister, Goto
  <2> QED
    BY <1>2, <2>1, <2>2, <2>3, <2>4, <2>5, <2>6, <2>7, <2>8, <2>9 DEF Request
<1>3. ASSUME NEW l \in Listeners, ClientLeaves(l) PROVE TypeOK'
  BY <1>3 DEF ClientLeaves
<1>4. ASSUME NEW k \in Conts, SendResults(k) PROVE TypeOK'
  <2>1. CASE SleepOver(k)
    BY <2>1 DEF SleepOver, SenderGoto
  <2>2. CASE SleepOverDone(k)
    BY <2>2 DEF SleepOverDone, SenderGoto
  <2>3. CASE Lock(k)
    BY <2>3 DEF Lock, SenderGoto
  <2>4. CASE GetResultsFails(k)
    BY <2>4 DEF GetResultsFails, SenderGoto
  <2>5. CASE GetResults(k)
    <3>1. CASE chans[k] = {}
      BY <2>5, <3>1 DEF GetResults, Visit
    <3>2. CASE chans[k] # {}
      <4>1. PICK l \in chans[k] :
              target' = [target EXCEPT ![k] = l] /\ todo' = [todo EXCEPT ![k] = chans[k] \ {l}]
        BY <2>5, <3>2 DEF GetResults, Visit
      <4>2. l \in Listeners /\ chans[k] \ {l} \subseteq Listeners
        BY <4>1
      <4> QED
        BY <2>5, <3>2, <4>1, <4>2 DEF GetResults, Visit
    <3> QED
      BY <3>1, <3>2
  <2>6. CASE SendResult(k)
    <3>1. lis' \in [Listeners -> {"start", "register", "recv", "write", "remove",
                                  "deregister", "ended"}]
      BY <2>6 DEF SendResult, Goto
    <3>2. CASE todo[k] = {}
      BY <2>6, <3>1, <3>2 DEF SendResult, Visit
    <3>3. CASE todo[k] # {}
      <4>1. PICK l \in todo[k] :
              target' = [target EXCEPT ![k] = l] /\ todo' = [todo EXCEPT ![k] = todo[k] \ {l}]
        BY <2>6, <3>1, <3>3 DEF SendResult, Visit
      <4>2. l \in Listeners /\ todo[k] \ {l} \subseteq Listeners
        BY <4>1
      <4> QED
        BY <2>6, <3>1, <3>3, <4>1, <4>2 DEF SendResult, Visit
    <3> QED
      BY <3>2, <3>3
  <2>7. CASE SendOnClosed(k)
    BY <2>7 DEF SendOnClosed
  <2>8. ASSUME NEW l \in Listeners, CloseChannel(k, l)
       PROVE  TypeOK'
    BY <2>8 DEF CloseChannel
  <2>9. CASE SenderEnds(k)
    BY <2>9 DEF SenderEnds, SenderGoto
  <2> QED
    BY <1>4, <2>1, <2>2, <2>3, <2>4, <2>5, <2>6, <2>7, <2>8, <2>9 DEF SendResults
<1>5. CASE UNCHANGED vars
  BY <1>5 DEF vars
<1> QED
  BY <1>1, <1>2, <1>3, <1>4, <1>5 DEF Next

\* Type correctness of the result streams.
THEOREM TypeCorrect == Spec => []TypeOK
<1>1. Init => TypeOK
  BY InitType
<1> QED
  BY <1>1, TypeStep, PTL DEF Spec

-----------------------------------------------------------------------------
(* The inductive invariant.                                                 *)

\* A request that waits for a container's rcMut holds pcMut, and its container
\* is still the problem's.
RequestsHoldPcMut ==
  \A l \in Listeners :
    lis[l] \in {"register", "deregister"} =>
      /\ pcMut = l
      /\ at[l] = cont
      /\ cont # None

\* sendResultOnce holds rcMut in its loop, and the last loop is entered only by
\* a container that is no longer the problem's.
LoopsGuarded ==
  /\ \A k \in Conts : snd[k] \in {"get", "send"} => rcMut[k]
  /\ \A k \in Conts : snd[k] \in {"close", "end"} => k \in done
  /\ cont \notin done

GuardInv ==
  /\ TypeOK
  /\ RequestsHoldPcMut
  /\ LoopsGuarded

\* RegisteredIsServed, also of a listener that is writing a result, which
\* comes back to wait for the next one.
ListenerIsServed ==
  /\ \A l \in Listeners : lis[l] = "start" => at[l] = None
  /\ \A l \in Listeners :
       lis[l] \in {"recv", "write"} /\ at[l] # None /\ l \notin closed =>
         /\ l \in chans[at[l]]
         /\ snd[at[l]] # "end"
         /\ snd[at[l]] = "close" => l \in todo[at[l]]

\* A request registers once, with one container, before its channel is closed.
RegisteredOnce ==
  /\ \A l \in Listeners : lis[l] \in {"start", "register"} =>
       l \notin closed /\ \A k \in Conts : l \notin chans[k]
  /\ \A l \in Listeners : \A j, k \in Conts : l \in chans[j] /\ l \in chans[k] => j = k

\* Both loops visit only channels of resultChannels.
LoopsOverChans ==
  /\ \A k \in Conts : snd[k] \in {"send", "close"} => todo[k] \subseteq chans[k]
  /\ \A k \in Conts : snd[k] = "send" => target[k] \in chans[k]

\* As long as no client has left, a channel is closed by the sender that has
\* it, once, and only then does its request go on to remove it.
ClosedBySender ==
  gone = {} =>
    /\ \A l \in closed : \A k \in Conts : l \in chans[k] =>
         snd[k] \in {"close", "end"} /\ l \notin todo[k]
    /\ \A l \in Listeners : lis[l] \in {"remove", "deregister"} => l \in closed

PanicInv ==
  /\ GuardInv
  /\ RegisteredOnce
  /\ LoopsOverChans
  /\ ClosedBySender
  /\ PanicNeedsLeaver

\* No step disturbs a request that has pcMut, or lets a sender into a loop that
\* is not guarded.
LEMMA GuardStep == GuardInv /\ [Next]_vars => GuardInv'
<1> SUFFICES ASSUME GuardInv, [Next]_vars PROVE RequestsHoldPcMut' /\ LoopsGuarded'
  BY TypeStep DEF GuardInv
<1> USE ResultStreamsAssumption DEF GuardInv, TypeOK, RequestsHoldPcMut, LoopsGuarded,
          Alive, trackVars, listenVars, sendVars
<1>1. CASE API
  <2>1. CASE Track
    BY <2>1 DEF Track
  <2>2. ASSUME NEW k \in Conts, Launch(k)
       PROVE  RequestsHoldPcMut' /\ LoopsGuarded'
    BY <2>2 DEF Launch
  <2>3. CASE UntrackProblem
    BY <2>3 DEF UntrackProblem
  <2> QED
    BY <1>1, <2>1, <2>2, <2>3 DEF API
<1>2. ASSUME NEW l \in Listeners, Request(l) PROVE RequestsHoldPcMut' /\ LoopsGuarded'
  <2>1. CASE RegisterFails(l)
    BY <2>1 DEF RegisterFails, Goto
  <2>2. CASE Register(l)
    BY <2>2 DEF Register, Goto
  <2>3. CASE RegisterResultChannel(l)
    BY <2>3 DEF RegisterResultChannel, Goto
  <2>4. CASE RecvClosed(l)
    BY <2>4 DEF RecvClosed, Goto
  <2>5. CASE WriteOk(l)
    BY <2>5 DEF WriteOk, Goto
  <2>6. CASE WriteFails(l)
    BY <2>6 DEF WriteFails, Goto
  <2>7. CASE RemoveFails(l)
    BY <2>7 DEF RemoveFails, Goto
  <2>8. CASE Remove(l)
    BY <2>8 DEF Remove, Goto
  <2>9. CASE DeRegister(l)
    BY <2>9 DEF DeRegister, Goto
  <2> QED
    BY <1>2, <2>1, <2>2, <2>3, <2>4, <2>5, <2>6, <2>7, <2>8, <2>9 DEF Request
<1>3. ASSUME NEW l \in Listeners, ClientLeaves(l) PROVE RequestsHoldPcMut' /\ LoopsGuarded'
  BY <1>3 DEF ClientLeaves
<1>4. ASSUME NEW k \in Conts, SendResults(k) PROVE RequestsHoldPcMut' /\ LoopsGuarded'
  <2>1. CASE SleepOver(k)
    BY <2>1 DEF SleepOver, SenderGoto
  <2>2. CASE SleepOverDone(k)
    BY <2>2 DEF SleepOverDone, SenderGoto
  <2>3. CASE Lock(k)
    BY <2>3 DEF Lock, SenderGoto
  <2>4. CASE GetResultsFails(k)
    BY <2>4 DEF GetResultsFails, SenderGoto
  <2>5. CASE GetResults(k)
    BY <2>5 DEF GetResults, Visit
  <2>6. CASE SendResult(k)
    BY <2>6 DEF SendResult, Goto, Visit
  <2>7. CASE SendOnClosed(k)
    BY <2>7 DEF SendOnClosed
  <2>8. ASSUME NEW l \in Listeners, CloseChannel(k, l)
       PROVE  RequestsHoldPcMut' /\ LoopsGuarded'
    BY <2>8 DEF CloseChannel
  <2>9. CASE SenderEnds(k)
    BY <2>9 DEF SenderEnds, SenderGoto
  <2> QED
    BY <1>4, <2>1, <2>2, <2>3, <2>4, <2>5, <2>6, <2>7, <2>8, <2>9 DEF SendResults
<1>5. CASE UNCHANGED vars
  BY <1>5 DEF vars
<1> QED
  BY <1>1, <1>2, <1>3, <1>4, <1>5 DEF Next

\* A step that changes resultChannels is one of a request that has pcMut and
\* rcMut, and its container is the problem's, so that no loop is running.
LEMMA StableStep ==
  GuardInv /\ [Next]_vars =>
    \A j \in Conts : chans'[j] # chans[j] => snd[j] \in {"off", "sleep", "lock"}
<1> DEFINE Stable == \A j \in Conts : chans'[j] # chans[j] => snd[j] \in {"off", "sleep", "lock"}
<1> SUFFICES ASSUME GuardInv, [Next]_vars PROVE Stable
  OBVIOUS
<1> USE ResultStreamsAssumption DEF GuardInv, TypeOK, RequestsHoldPcMut, LoopsGuarded,
          Alive, trackVars, listenVars, sendVars
<1>1. CASE API
  <2>1. CASE Track
    BY <2>1 DEF Track
  <2>2. ASSUME NEW k \in Conts, Launch(k)
       PROVE  Stable
    BY <2>2 DEF Launch
  <2>3. CASE UntrackProblem
    BY <2>3 DEF UntrackProblem
  <2> QED
    BY <1>1, <2>1, <2>2, <2>3 DEF API
<1>2. ASSUME NEW l \in Listeners, Request(l) PROVE Stable
  <2>1. CASE RegisterFails(l)
    BY <2>1 DEF RegisterFails, Goto
  <2>2. CASE Register(l)
    BY <2>2 DEF Register, Goto
  <2>3. CASE RegisterResultChannel(l)
    BY <2>3 DEF RegisterResultChannel, Goto
  <2>4. CASE RecvClosed(l)
    BY <2>4 DEF RecvClosed, Goto
  <2>5. CASE WriteOk(l)
    BY <2>5 DEF WriteOk, Goto
  <2>6. CASE WriteFails(l)
    BY <2>6 DEF WriteFails, Goto
  <2>7. CASE RemoveFails(l)
    BY <2>7 DEF RemoveFails, Goto
  <2>8. CASE Remove(l)
    BY <2>8 DEF Remove, Goto
  <2>9. CASE DeRegister(l)
    BY <2>9 DEF DeRegister, Goto
  <2> QED
    BY <1>2, <2>1, <2>2, <2>3, <2>4, <2>5, <2>6, <2>7, <2>8, <2>9 DEF Request
<1>3. ASSUME NEW l \in Listeners, ClientLeaves(l) PROVE Stable
  BY <1>3 DEF ClientLeaves
<1>4. ASSUME NEW k \in Conts, SendResults(k) PROVE Stable
  <2>1. CASE SleepOver(k)
    BY <2>1 DEF SleepOver, SenderGoto
  <2>2. CASE SleepOverDone(k)
    BY <2>2 DEF SleepOverDone, SenderGoto
  <2>3. CASE Lock(k)
    BY <2>3 DEF Lock, SenderGoto
  <2>4. CASE GetResultsFails(k)
    BY <2>4 DEF GetResultsFails, SenderGoto
  <2>5. CASE GetResults(k)
    BY <2>5 DEF GetResults, Visit
  <2>6. CASE SendResult(k)
    BY <2>6 DEF SendResult, Goto, Visit
  <2>7. CASE SendOnClosed(k)
    BY <2>7 DEF SendOnClosed
  <2>8. ASSUME NEW l \in Listeners, CloseChannel(k, l)
       PROVE  Stable
    BY <2>8 DEF CloseChannel
  <2>9. CASE SenderEnds(k)
    BY <2>9 DEF SenderEnds, SenderGoto
  <2> QED
    BY <1>4, <2>1, <2>2, <2>3, <2>4, <2>5, <2>6, <2>7, <2>8, <2>9 DEF SendResults
<1>5. CASE UNCHANGED vars
  BY <1>5 DEF vars
<1> QED
  BY <1>1, <1>2, <1>3, <1>4, <1>5 DEF Next

\* No step loses the channel of a listener that waits or is writing.
LEMMA ServedStep == GuardInv /\ ListenerIsServed /\ [Next]_vars => ListenerIsServed'
<1> SUFFICES ASSUME GuardInv, ListenerIsServed, [Next]_vars PROVE ListenerIsServed'
  OBVIOUS
<1> USE ResultStreamsAssumption DEF GuardInv, TypeOK, RequestsHoldPcMut, LoopsGuarded,
          ListenerIsServed, Alive, trackVars, listenVars, sendVars
<1>1. CASE API
  <2>1. CASE Track
    BY <2>1 DEF Track
  <2>2. ASSUME NEW k \in Conts, Launch(k)
       PROVE  ListenerIsServed'
    BY <2>2 DEF Launch
  <2>3. CASE UntrackProblem
    BY <2>3 DEF UntrackProblem
  <2> QED
    BY <1>1, <2>1, <2>2, <2>3 DEF API
<1>2. ASSUME NEW l \in Listeners, Request(l) PROVE ListenerIsServed'
  <2>1. CASE RegisterFails(l)
    BY <2>1 DEF RegisterFails, Goto
  <2>2. CASE Register(l)
    BY <2>2 DEF Register, Goto
  <2>3. CASE RegisterResultChannel(l)
    BY <2>3 DEF RegisterResultChannel, Goto
  <2>4. CASE RecvClosed(l)
    BY <2>4 DEF RecvClosed, Goto
  <2>5. CASE WriteOk(l)
    BY <2>5 DEF WriteOk, Goto
  <2>6. CASE WriteFails(l)
    BY <2>6 DEF WriteFails, Goto
  <2>7. CASE RemoveFails(l)
    BY <2>7 DEF RemoveFails, Goto
  <2>8. CASE Remove(l)
    BY <2>8 DEF Remove, Goto
  <2>9. CASE DeRegister(l)
    BY <2>9 DEF DeRegister, Goto
  <2> QED
    BY <1>2, <2>1, <2>2, <2>3, <2>4, <2>5, <2>6, <2>7, <2>8, <2>9 DEF Request
<1>3. ASSUME NEW l \in Listeners, ClientLeaves(l) PROVE ListenerIsServed'
  BY <1>3 DEF ClientLeaves
<1>4. ASSUME NEW k \in Conts, SendResults(k) PROVE ListenerIsServed'
  <2>1. CASE SleepOver(k)
    BY <2>1 DEF SleepOver, SenderGoto
  <2>2. CASE SleepOverDone(k)
    BY <2>2 DEF SleepOverDone, SenderGoto
  <2>3. CASE Lock(k)
    BY <2>3 DEF Lock, SenderGoto
  <2>4. CASE GetResultsFails(k)
    BY <2>4 DEF GetResultsFails, SenderGoto
  <2>5. CASE GetResults(k)
    <3>1. \A j \in Listeners : lis'[j] = "start" => lis[j] = "start"
      BY <2>5 DEF GetResults
    <3>2. \A j \in Listeners : lis'[j] \in {"recv", "write"} => lis[j] \in {"recv", "write"}
      BY <2>5 DEF GetResults
    <3>3. snd[k] # "close" /\ snd'[k] \in {"sleep", "send"}
      BY <2>5 DEF GetResults, Visit
    <3>4. \A j \in Conts \ {k} : snd'[j] = snd[j] /\ todo'[j] = todo[j]
      BY <2>5 DEF GetResults, Visit
    <3>5. chans' = chans /\ closed' = closed /\ at' = at
      BY <2>5 DEF GetResults
    <3>6. \A j \in Listeners : lis'[j] = "start" => at'[j] = None
      BY <3>1, <3>5
    <3>7. ASSUME NEW j \in Listeners, lis'[j] \in {"recv", "write"}, at'[j] # None, j \notin closed'
          PROVE  /\ j \in chans'[at'[j]]
                 /\ snd'[at'[j]] # "end"
                 /\ snd'[at'[j]] = "close" => j \in todo'[at'[j]]
      <4>1. at[j] \in Conts /\ at'[j] = at[j] /\ lis[j] \in {"recv", "write"}
        BY <3>2, <3>5, <3>7
      <4>2. j \in chans'[at'[j]]
        BY <3>5, <3>7, <4>1
      <4>3. CASE at[j] = k
        BY <3>3, <4>1, <4>2, <4>3
      <4>4. CASE at[j] # k
        BY <3>4, <3>5, <3>7, <4>1, <4>2, <4>4
      <4> QED
        BY <4>3, <4>4
    <3> QED
      BY <3>6, <3>7
  <2>6. CASE SendResult(k)
    <3>1. \A j \in Listeners : lis'[j] = "start" => lis[j] = "start"
      BY <2>6 DEF SendResult, Goto
    <3>2. \A j \in Listeners : lis'[j] \in {"recv", "write"} => lis[j] \in {"recv", "write"}
      BY <2>6 DEF SendResult, Goto
    <3>3. snd[k] # "close" /\ snd'[k] \in {"sleep", "send"}
      BY <2>6 DEF SendResult, Goto, Visit
    <3>4. \A j \in Conts \ {k} : snd'[j] = snd[j] /\ todo'[j] = todo[j]
      BY <2>6 DEF SendResult, Goto, Visit
    <3>5. chans' = chans /\ closed' = closed /\ at' = at
      BY <2>6 DEF SendResult, Goto
    <3>6. \A j \in Listeners : lis'[j] = "start" => at'[j] = None
      BY <3>1, <3>5
    <3>7. ASSUME NEW j \in Listeners, lis'[j] \in {"recv", "write"}, at'[j] # None, j \notin closed'
          PROVE  /\ j \in chans'[at'[j]]
                 /\ snd'[at'[j]] # "end"
                 /\ snd'[at'[j]] = "close" => j \in todo'[at'[j]]
      <4>1. at[j] \in Conts /\ at'[j] = at[j] /\ lis[j] \in {"recv", "write"}
        BY <3>2, <3>5, <3>7
      <4>2. j \in chans'[at'[j]]
        BY <3>5, <3>7, <4>1
      <4>3. CASE at[j] = k
        BY <3>3, <4>1, <4>2, <4>3
      <4>4. CASE at[j] # k
        BY <3>4, <3>5, <3>7, <4>1, <4>2, <4>4
      <4> QED
        BY <4>3, <4>4
    <3> QED
      BY <3>6, <3>7
  <2>7. CASE SendOnClosed(k)
    BY <2>7 DEF SendOnClosed
  <2>8. ASSUME NEW l \in Listeners, CloseChannel(k, l)
       PROVE  ListenerIsServed'
    <3>1. CASE l \in closed
      BY <2>8, <3>1 DEF CloseChannel
    <3>2. CASE l \notin closed
      <4>1. closed' = closed \cup {l} /\ todo' = [todo EXCEPT ![k] = todo[k] \ {l}]
        BY <2>8, <3>2 DEF CloseChannel
      <4>2. chans' = chans /\ lis' = lis /\ at' = at /\ snd' = snd
        BY <2>8 DEF CloseChannel
      <4>3. \A j \in Listeners \ {l} : \A c \in Conts : j \in todo[c] => j \in todo'[c]
        BY <4>1
      <4> QED
        BY <4>1, <4>2, <4>3
    <3> QED
      BY <3>1, <3>2
  <2>9. CASE SenderEnds(k)
    BY <2>9 DEF SenderEnds, SenderGoto
  <2> QED
    BY <1>4, <2>1, <2>2, <2>3, <2>4, <2>5, <2>6, <2>7, <2>8, <2>9 DEF SendResults
<1>5. CASE UNCHANGED vars
  BY <1>5 DEF vars
<1> QED
  BY <1>1, <1>2, <1>3, <1>4, <1>5 DEF Next

\* No step closes a channel twice, or sends on a closed one, unless a client
\* has left.
LEMMA PanicStep == PanicInv /\ GuardInv' /\ [Next]_vars => PanicInv'
<1> DEFINE Kept == RegisteredOnce' /\ LoopsOverChans' /\ ClosedBySender' /\ PanicNeedsLeaver'
<1> SUFFICES ASSUME PanicInv, [Next]_vars PROVE Kept
  BY DEF PanicInv
<1> USE ResultStreamsAssumption DEF PanicInv, GuardInv, TypeOK, RequestsHoldPcMut, LoopsGuarded,
          RegisteredOnce, LoopsOverChans, ClosedBySender, PanicNeedsLeaver,
          Alive, trackVars, listenVars, sendVars
<1>1. CASE API
  <2>1. CASE Track
    BY <2>1 DEF Track
  <2>2. ASSUME NEW k \in Conts, Launch(k)
       PROVE  Kept
    BY <2>2 DEF Launch
  <2>3. CASE UntrackProblem
    BY <2>3 DEF UntrackProblem
  <2> QED
    BY <1>1, <2>1, <2>2, <2>3 DEF API
<1>2. ASSUME NEW l \in Listeners, Request(l) PROVE Kept
  <2>1. CASE RegisterFails(l)
    BY <2>1 DEF RegisterFails, Goto
  <2>2. CASE Register(l)
    BY <2>2 DEF Register, Goto
  <2>3. CASE RegisterResultChannel(l)
    BY <2>3 DEF RegisterResultChannel, Goto
  <2>4. CASE RecvClosed(l)
    BY <2>4 DEF RecvClosed, Goto
  <2>5. CASE WriteOk(l)
    BY <2>5 DEF WriteOk, Goto
  <2>6. CASE WriteFails(l)
    BY <2>6 DEF WriteFails, Goto
  <2>7. CASE RemoveFails(l)
    BY <2>7 DEF RemoveFails, Goto
  <2>8. CASE Remove(l)
    BY <2>8 DEF Remove, Goto
  <2>9. CASE DeRegister(l)
    BY <2>9 DEF DeRegister, Goto
  <2> QED
    BY <1>2, <2>1, <2>2, <2>3, <2>4, <2>5, <2>6, <2>7, <2>8, <2>9 DEF Request
<1>3. ASSUME NEW l \in Listeners, ClientLeaves(l) PROVE Kept
  BY <1>3 DEF ClientLeaves
<1>4. ASSUME NEW k \in Conts, SendResults(k) PROVE Kept
  <2>1. CASE SleepOver(k)
    BY <2>1 DEF SleepOver, SenderGoto
  <2>2. CASE SleepOverDone(k)
    BY <2>2 DEF SleepOverDone, SenderGoto
  <2>3. CASE Lock(k)
    BY <2>3 DEF Lock, SenderGoto
  <2>4. CASE GetResultsFails(k)
    BY <2>4 DEF GetResultsFails, SenderGoto
  <2>5. CASE GetResults(k)
    BY <2>5 DEF GetResults, Visit
  <2>6. CASE SendResult(k)
    BY <2>6 DEF SendResult, Goto, Visit
  <2>7. CASE SendOnClosed(k)
    BY <2>7 DEF SendOnClosed
  <2>8. ASSUME NEW l \in Listeners, CloseChannel(k, l)
       PROVE  Kept
    BY <2>8 DEF CloseChannel
  <2>9. CASE SenderEnds(k)
    BY <2>9 DEF SenderEnds, SenderGoto
  <2> QED
    BY <1>4, <2>1, <2>2, <2>3, <2>4, <2>5, <2>6, <2>7, <2>8, <2>9 DEF SendResults
<1>5. CASE UNCHANGED vars
  BY <1>5 DEF vars
<1> QED
  BY <1>1, <1>2, <1>3, <1>4, <1>5 DEF Next

\* resultChannels never changes under a loop of sendResults, with or without
\* rcMut; and a request that registered and waits for a result keeps a sender
\* that has its channel, or finds it closed.
THEOREM StreamsSafe == Spec => ChannelsStable /\ []RegisteredIsServed
<1>1. Init => GuardInv /\ ListenerIsServed
  BY InitType, ResultStreamsAssumption DEF Init, GuardInv, RequestsHoldPcMut, LoopsGuarded,
     ListenerIsServed
<1>2. ListenerIsServed => RegisteredIsServed
  BY DEF ListenerIsServed, RegisteredIsServed
<1>3. GuardInv /\ [Next]_vars =>
        [\A k \in Conts :
           chans'[k] # chans[k] => snd[k] \in {"off", "sleep", "lock"}]_vars
  BY StableStep
<1> QED
  BY <1>1, <1>2, <1>3, GuardStep, ServedStep, PTL DEF Spec, ChannelsStable

\* sendResults never panics, and so never ends the master, as long as no client
\* has left.
THEOREM PanicsNeedLeaver == Spec => []PanicNeedsLeaver
<1>1. Init => PanicInv
  BY InitType, ResultStreamsAssumption
     DEF Init, PanicInv, GuardInv, RequestsHoldPcMut, LoopsGuarded, RegisteredOnce,
         LoopsOverChans, ClosedBySender, PanicNeedsLeaver
<1>2. PanicInv => GuardInv /\ PanicNeedsLeaver
  BY DEF PanicInv
<1> QED
  BY <1>1, <1>2, GuardStep, PanicStep, PTL DEF Spec
=============================================================================
