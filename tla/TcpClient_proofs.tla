-------------------------- MODULE TcpClient_proofs --------------------------
(***************************************************************************)
(* Theorems of TcpClient, for any number of connect().  After stop() in    *)
(* the loop thread the client makes no connection, whether or not it is    *)
(* destroyed early.  There is one way to a connection at a time, if        *)
(* connect() finds the connector at rest and the client is not destroyed   *)
(* early.  Both if no other thread calls stop().                           *)
(***************************************************************************)
EXTENDS TcpClient, SequenceTheorems, TLAPS

Functors == ConnectorFunctors \cup {"forceClose", "connectDestroyed"}

\* Functor f is in q; it is in q once at most.
Has(q, f) == \E i \in 1..Len(q) : q[i] = f
Once(q, f) == \A i, j \in 1..Len(q) : q[i] = f /\ q[j] = f => i = j

Typed == queue \in Seq(Functors) /\ batch \in Seq(Functors)

\* What stop() leaves behind
StopSound ==
    /\ otherPc \in {"idle", "start", "queueStart"}
    /\ stopped => ~cConnect /\ ~wants /\ pc # "restart" /\ otherPc = "idle"

\* A channel that is removed is freed by the only functor there is for it, so a
\* connector that is connecting keeps its channel.
ChannelSound ==
    /\ cState = "Connecting" => channel = "live"
    /\ channel # "removed" => ~Has(queue, "resetChannel") /\ ~Has(batch, "resetChannel")
    /\ Once(queue, "resetChannel") /\ Once(batch, "resetChannel")
    /\ ~(Has(queue, "resetChannel") /\ Has(batch, "resetChannel"))

IInv == Typed /\ StopSound /\ (~failed => ChannelSound)

LEMMA AppendFunctor ==
  ASSUME NEW q \in Seq(Functors), NEW f \in Functors, NEW g
  PROVE  /\ Append(q, f) \in Seq(Functors)
         /\ Has(Append(q, f), g) <=> Has(q, g) \/ g = f
         /\ g # f /\ Once(q, g) => Once(Append(q, f), g)
         /\ ~Has(q, g) => Once(Append(q, f), g)
  <1>1. /\ Append(q, f) \in Seq(Functors)
        /\ Len(Append(q, f)) = Len(q) + 1 /\ Len(q) \in Nat
        /\ \A i \in 1..Len(q) : Append(q, f)[i] = q[i]
        /\ Append(q, f)[Len(q) + 1] = f
    <2>1. Len(q) \in Nat
      BY LenProperties
    <2>. QED
      BY <2>1, AppendProperties
  <1>. DEFINE a == Append(q, f)
  <1>. HIDE DEF a
  <1>2. /\ Len(a) = Len(q) + 1 /\ Len(q) \in Nat
        /\ \A i \in 1..Len(q) : a[i] = q[i]
        /\ a[Len(q) + 1] = f
        /\ 1..Len(a) = (1..Len(q)) \cup {Len(q) + 1}
    BY <1>1 DEF a
  <1>3. Has(a, g) <=> Has(q, g) \/ g = f
    <2>1. ASSUME Has(a, g) PROVE Has(q, g) \/ g = f
      BY <1>2, <2>1 DEF Has
    <2>2. ASSUME Has(q, g) PROVE Has(a, g)
      BY <1>2, <2>2 DEF Has
    <2>3. ASSUME g = f PROVE Has(a, g)
      BY <1>2, <2>3 DEF Has
    <2>. QED
      BY <2>1, <2>2, <2>3
  <1>4. ASSUME g # f, Once(q, g) PROVE Once(a, g)
    BY <1>2, <1>4 DEF Once
  <1>5. ASSUME ~Has(q, g) PROVE Once(a, g)
    BY <1>2, <1>5 DEF Once, Has
  <1>. QED
    BY <1>1, <1>3, <1>4, <1>5 DEF a

LEMMA TakeFunctor ==
  ASSUME NEW q \in Seq(Functors), q # <<>>, NEW g
  PROVE  /\ Tail(q) \in Seq(Functors)
         /\ Has(Tail(q), g) => Has(q, g)
         /\ Head(q) # g /\ Has(q, g) => Has(Tail(q), g)
         /\ Once(q, g) => Once(Tail(q), g)
         /\ Head(q) = g => Has(q, g)
         /\ Head(q) = g /\ Once(q, g) => ~Has(Tail(q), g)
  <1>1. /\ Tail(q) \in Seq(Functors)
        /\ Len(Tail(q)) = Len(q) - 1 /\ Len(q) \in Nat \ {0}
        /\ \A i \in 1..Len(Tail(q)) : Tail(q)[i] = q[i + 1]
        /\ Head(q) = q[1]
    BY HeadTailProperties, EmptySeq
  <1>. DEFINE t == Tail(q)
  <1>. HIDE DEF t
  <1>2. /\ Len(t) = Len(q) - 1 /\ Len(q) \in Nat \ {0}
        /\ \A i \in 1..Len(t) : t[i] = q[i + 1]
        /\ \A i \in 1..Len(t) : i + 1 \in 1..Len(q) /\ i + 1 # 1
        /\ 1 \in 1..Len(q)
    BY <1>1 DEF t
  <1>3. Has(t, g) => Has(q, g)
    BY <1>2 DEF Has
  <1>4. ASSUME Head(q) # g, Has(q, g) PROVE Has(t, g)
    <2>1. PICK i \in 1..Len(q) : q[i] = g
      BY <1>4 DEF Has
    <2>2. i # 1
      BY <1>1, <1>4, <2>1
    <2>3. i - 1 \in 1..Len(t) /\ i - 1 + 1 = i
      BY <1>2, <2>2
    <2>4. t[i - 1] = g
      BY <1>2, <2>1, <2>3
    <2>. QED
      BY <2>3, <2>4 DEF Has
  <1>5. Once(q, g) => Once(t, g)
    BY <1>2 DEF Once
  <1>6. Head(q) = g => Has(q, g)
    BY <1>1, <1>2 DEF Has
  <1>7. Head(q) = g /\ Once(q, g) => ~Has(t, g)
    BY <1>1, <1>2 DEF Once, Has
  <1>. QED
    BY <1>1, <1>3, <1>4, <1>5, <1>6, <1>7 DEF t

LEMMA Init_IInv == Init => IInv
  BY EmptySeq DEF Init, IInv, Typed, StopSound, ChannelSound, Has, Once

\* The steps of a queued or due startInLoop() and of restart()
LEMMA StartInLoop_Channel ==
  ASSUME ChannelSound, NEW state, NEW want, NEW timers, ~failed,
         StartInLoop(state, want, timers), UNCHANGED <<queue>>,
         batch' = batch \/ (batch # <<>> /\ batch' = Tail(batch)), Typed
  PROVE  ~failed' => ChannelSound'
  <1>1. /\ Has(batch', "resetChannel") => Has(batch, "resetChannel")
        /\ Once(batch, "resetChannel") => Once(batch', "resetChannel")
    BY TakeFunctor DEF Typed
  <1>2. CASE Connecting(timers)
    BY <1>1, <1>2 DEF ChannelSound, Connecting
  <1>3. CASE UNCHANGED channel /\ (cState' = cState \/ cState' = "Disconnected")
    BY <1>1, <1>3 DEF ChannelSound
  <1>. QED
    BY <1>2, <1>3 DEF StartInLoop, Connect, Retry

\* An attempt ends: its channel is removed and one functor will free it.
LEMMA RemoveChannel ==
  ASSUME ChannelSound, Typed, channel = "live", RemoveAndResetChannel,
         cState' # "Connecting",
         batch' = batch \/ (batch # <<>> /\ batch' = Tail(batch))
  PROVE  ChannelSound' /\ queue' \in Seq(Functors)
  <1>1. /\ Has(batch', "resetChannel") => Has(batch, "resetChannel")
        /\ Once(batch, "resetChannel") => Once(batch', "resetChannel")
    BY TakeFunctor DEF Typed
  <1>2. queue' \in Seq(Functors) /\ Once(queue', "resetChannel")
    <2>1. queue' = Append(queue, "resetChannel") /\ ~Has(queue, "resetChannel") /\ queue \in Seq(Functors)
      BY DEF Typed, ChannelSound, RemoveAndResetChannel
    <2>2. "resetChannel" \in Functors
      BY DEF Functors, ConnectorFunctors
    <2>3. /\ Append(queue, "resetChannel") \in Seq(Functors)
          /\ Once(Append(queue, "resetChannel"), "resetChannel")
      BY <2>1, <2>2, AppendFunctor, Zenon
    <2>. QED
      BY <2>1, <2>3
  <1>. QED
    BY <1>1, <1>2 DEF ChannelSound, RemoveAndResetChannel

\* Any other functor is queued, or none, and the channel stays as it is.
LEMMA KeepsChannel ==
  ASSUME ChannelSound, Typed, UNCHANGED channel, cState' = cState \/ cState' # "Connecting",
         UNCHANGED queue \/ \E f \in Functors \ {"resetChannel"} : queue' = Append(queue, f),
         batch' = batch \/ (batch # <<>> /\ batch' = Tail(batch))
  PROVE  ChannelSound' /\ queue' \in Seq(Functors)
  <1>1. /\ Has(batch', "resetChannel") => Has(batch, "resetChannel")
        /\ Once(batch, "resetChannel") => Once(batch', "resetChannel")
    BY TakeFunctor DEF Typed
  <1>2. /\ queue' \in Seq(Functors)
        /\ Has(queue', "resetChannel") <=> Has(queue, "resetChannel")
        /\ Once(queue, "resetChannel") => Once(queue', "resetChannel")
    <2>1. CASE UNCHANGED queue
      BY <2>1 DEF Typed
    <2>2. ASSUME NEW f \in Functors \ {"resetChannel"}, queue' = Append(queue, f)
          PROVE  /\ queue' \in Seq(Functors)
                 /\ Has(queue', "resetChannel") <=> Has(queue, "resetChannel")
                 /\ Once(queue, "resetChannel") => Once(queue', "resetChannel")
      BY <2>2, AppendFunctor DEF Typed
    <2>. QED
      BY <2>1, <2>2
  <1>. QED
    BY <1>1, <1>2 DEF ChannelSound

LEMMA Typed_Next == Typed /\ [Next]_vars => Typed'
  <1> SUFFICES ASSUME Typed, [Next]_vars PROVE Typed'
    OBVIOUS
  <1>1. queue' = queue \/ queue' = <<>> \/ \E f \in Functors : queue' = Append(queue, f)
    <2>1. CASE LoopStep
      <3>1. CASE ChannelEvent
        BY <3>1 DEF ChannelEvent, Functors, ConnectorFunctors, AttemptFails, AttemptSucceeds, RemoveAndResetChannel
      <3>2. CASE CallStopInLoop
        BY <3>2 DEF CallStopInLoop, Functors, ConnectorFunctors, StopInLoop, RemoveAndResetChannel
      <3>3. CASE OrphanEvent \/ CallForceClose
        BY <3>3 DEF OrphanEvent, Functors, ConnectorFunctors, CallForceClose, OrphanCloses
      <3>4. CASE RemoveConnection
        BY <3>4 DEF RemoveConnection, Functors, ConnectorFunctors
      <3>5. CASE Poll \/ TimerFires \/ Restart \/ SwapPendingFunctors \/ EndFunctors
                  \/ CallStartInLoop \/ CallResetChannel \/ CallConnectDestroyed
        BY <3>5 DEF Poll, TimerFires, Restart, SwapPendingFunctors, EndFunctors,
               CallStartInLoop, CallResetChannel, CallConnectDestroyed
      <3>. QED
        BY <2>1, <3>1, <3>2, <3>3, <3>4, <3>5 DEF LoopStep
    <2>2. CASE OtherStep
      BY <2>2 DEF OtherStep, Functors, ConnectorFunctors, OtherSetConnect, OtherQueues, loopVars
    <2>4. CASE Calls
      <3>1. CASE LoopStop
        BY <3>1 DEF LoopStop, Functors, ConnectorFunctors
      <3>2. CASE Destroy
        BY <3>2 DEF Destroy, Functors, ConnectorFunctors
      <3>3. CASE LoopConnect \/ OtherConnect \/ OtherStop \/ Disconnect
        BY <3>3 DEF loopVars, LoopConnect, OtherConnect, OtherStop, Disconnect
      <3>. QED
        BY <2>4, <3>1, <3>2, <3>3 DEF Calls
    <2>3. CASE UNCHANGED vars
      BY <2>3 DEF vars, loopVars
    <2>. QED
      BY <2>1, <2>2, <2>3, <2>4 DEF Next
  <1>2. \/ batch' = batch
        \/ batch # <<>> /\ batch' = Tail(batch)
        \/ batch' = queue
    BY DEF Next, vars, clientVars, connectorVars, loopVars, faultVars, callVars,
           LoopStep, OtherStep, Calls, Poll, TimerFires, ChannelEvent, RemoveConnection, Restart,
           OrphanEvent, OrphanCloses, SwapPendingFunctors, EndFunctors, CallStartInLoop,
           CallStopInLoop, CallResetChannel, CallForceClose, CallConnectDestroyed, StopInLoop,
           AttemptFails, AttemptSucceeds, RemoveAndResetChannel, OtherSetConnect, OtherQueues,
           LoopConnect, LoopStop, Destroy, OtherConnect, OtherStop, Disconnect, Takes
  <1>3. queue' \in Seq(Functors)
    <2>1. \A f \in Functors : Append(queue, f) \in Seq(Functors)
      BY AppendProperties DEF Typed
    <2>. QED
      BY <1>1, <2>1, EmptySeq DEF Typed
  <1>4. batch' \in Seq(Functors)
    BY <1>2, TakeFunctor DEF Typed
  <1>. QED
    BY <1>3, <1>4 DEF Typed

LEMMA StopSound_Next ==
  ASSUME StopSound, [Next]_vars, ~StopElsewhere
  PROVE  StopSound'
  <1>. USE DEF StopSound
  <1>1. CASE LoopStep
    <2>1. CASE RemoveConnection
      BY <1>1, <2>1 DEF RemoveConnection, connectorVars, callVars
    <2>2. CASE Restart
      BY <2>2 DEF Restart, clientVars, callVars
    <2>3. CASE ~RemoveConnection /\ ~Restart
      <3>1. UNCHANGED <<wants, cConnect, callVars>>
        BY <1>1, <2>3 DEF LoopStep, Poll, TimerFires, ChannelEvent, OrphanEvent, OrphanCloses,
               SwapPendingFunctors, EndFunctors, CallStartInLoop, CallStopInLoop,
               CallResetChannel, CallForceClose, CallConnectDestroyed, clientVars, connectorVars
      <3>2. pc' = pc \/ pc' \in {"events", "functors", "poll"}
        BY <1>1, <2>3 DEF LoopStep, Poll, TimerFires, ChannelEvent, OrphanEvent,
               SwapPendingFunctors, EndFunctors, CallStartInLoop, CallStopInLoop,
               CallResetChannel, CallForceClose, CallConnectDestroyed
      <3>. QED
        BY <3>1, <3>2 DEF callVars
    <2>. QED
      BY <2>1, <2>2, <2>3
  <1>2. CASE OtherStep
    <2>1. CASE OtherSetConnect
      BY <2>1 DEF OtherSetConnect, OtherGoes, clientVars, loopVars
    <2>2. CASE OtherQueues
      BY <2>2 DEF OtherQueues, OtherGoes, clientVars, connectorVars
    <2>. QED
      BY <1>2, <2>1, <2>2 DEF OtherStep
  <1>3. CASE Calls
    <2>1. CASE LoopConnect
      BY <2>1 DEF LoopConnect, loopVars
    <2>2. CASE LoopStop
      BY <2>2 DEF LoopStop
    <2>3. CASE Destroy
      <3>1. UNCHANGED <<wants, pc, callVars>> /\ (cConnect' = cConnect \/ cConnect' = FALSE)
        BY <2>3 DEF Destroy
      <3>. QED
        BY <3>1 DEF callVars
    <2>4. CASE OtherConnect
      BY <2>4 DEF OtherConnect, OtherGoes
    <2>5. CASE OtherStop
      BY <2>5 DEF OtherStop
    <2>6. CASE Disconnect
      BY <2>6 DEF Disconnect, connectorVars, loopVars, callVars
    <2>. QED
      BY <1>3, <2>1, <2>2, <2>3, <2>4, <2>5, <2>6 DEF Calls
  <1>4. CASE UNCHANGED vars
    BY <1>4 DEF vars, clientVars, connectorVars, loopVars, callVars
  <1>. QED
    BY <1>1, <1>2, <1>3, <1>4 DEF Next


LEMMA ChannelSound_Next ==
  ASSUME Typed, ~failed, ChannelSound, Next
  PROVE  ~failed' => ChannelSound'
  <1>1. CASE TimerFires \/ Restart \/ CallStartInLoop \/ LoopConnect
    BY <1>1, StartInLoop_Channel DEF TimerFires, Restart, CallStartInLoop, LoopConnect, Takes,
           loopVars
  <1>2. CASE ChannelEvent
    <2>1. CASE cState = "Connecting"
      <3>1. RemoveAndResetChannel /\ cState' # "Connecting" /\ UNCHANGED batch
        BY <1>2, <2>1 DEF ChannelEvent, AttemptFails, AttemptSucceeds, Retry
      <3>. QED
        BY <2>1, <3>1, RemoveChannel DEF ChannelSound
    <2>2. CASE cState # "Connecting"
      <3>1. UNCHANGED <<channel, cState, queue, batch>>
        BY <1>2, <2>2 DEF ChannelEvent
      <3>. QED
        BY <3>1, KeepsChannel
    <2>. QED
      BY <2>1, <2>2
  <1>3. CASE CallStopInLoop
    <2>1. batch # <<>> /\ batch' = Tail(batch)
      BY <1>3 DEF CallStopInLoop, Takes
    <2>2. CASE cState = "Connecting"
      <3>1. RemoveAndResetChannel /\ cState' # "Connecting"
        BY <1>3, <2>2 DEF CallStopInLoop, StopInLoop, Retry
      <3>. QED
        BY <2>1, <2>2, <3>1, RemoveChannel DEF ChannelSound
    <2>3. CASE cState # "Connecting"
      <3>1. UNCHANGED <<channel, cState, queue>>
        BY <1>3, <2>3 DEF CallStopInLoop, StopInLoop
      <3>. QED
        BY <2>1, <3>1, KeepsChannel
    <2>. QED
      BY <2>2, <2>3
  <1>4. CASE CallResetChannel
    <2>1. /\ batch # <<>> /\ batch' = Tail(batch) /\ Head(batch) = "resetChannel"
          /\ channel' = "none" /\ UNCHANGED <<cState, queue>>
      BY <1>4 DEF CallResetChannel, Takes, ResetChannel
    <2>2. Has(batch, "resetChannel") /\ ~Has(Tail(batch), "resetChannel") /\ Once(Tail(batch), "resetChannel")
      BY <2>1, TakeFunctor DEF Typed, ChannelSound
    <2>. QED
      BY <2>1, <2>2 DEF ChannelSound
  <1>5. CASE SwapPendingFunctors
    <2>1. batch' = queue /\ queue' = <<>> /\ UNCHANGED <<channel, cState>>
      BY <1>5 DEF SwapPendingFunctors, connectorVars
    <2>2. ~Has(<<>>, "resetChannel") /\ Once(<<>>, "resetChannel")
      BY DEF Has, Once
    <2>. QED
      BY <2>1, <2>2 DEF ChannelSound
  <1>6. CASE Poll \/ EndFunctors \/ OtherSetConnect \/ OtherConnect \/ OtherStop \/ Disconnect
    <2>1. UNCHANGED <<channel, cState, queue, batch>>
      BY <1>6 DEF Poll, EndFunctors, OtherSetConnect, OtherConnect, OtherStop, Disconnect,
             connectorVars, loopVars
    <2>. QED
      BY <2>1, KeepsChannel
  <1>7. CASE CallConnectDestroyed
    <2>1. UNCHANGED <<channel, cState, queue>> /\ batch # <<>> /\ batch' = Tail(batch)
      BY <1>7 DEF CallConnectDestroyed, Takes, connectorVars
    <2>. QED
      BY <2>1, KeepsChannel
  <1>8. CASE RemoveConnection \/ OrphanEvent \/ CallForceClose
    <2>1. UNCHANGED <<channel, cState>>
      BY <1>8 DEF RemoveConnection, OrphanEvent, OrphanCloses, CallForceClose, connectorVars
    <2>2. queue' = queue \/ queue' = Append(queue, "connectDestroyed")
      BY <1>8 DEF RemoveConnection, OrphanEvent, OrphanCloses, CallForceClose
    <2>3. batch' = batch \/ (batch # <<>> /\ batch' = Tail(batch))
      BY <1>8 DEF RemoveConnection, OrphanEvent, CallForceClose, Takes
    <2>4. "connectDestroyed" \in Functors \ {"resetChannel"}
      BY DEF Functors
    <2>. QED
      BY <2>1, <2>2, <2>3, <2>4, KeepsChannel
  <1>9. CASE OtherQueues \/ LoopStop \/ Destroy
    <2>1. UNCHANGED <<channel, cState, batch>>
      BY <1>9 DEF OtherQueues, LoopStop, Destroy, connectorVars
    <2>2. queue' = queue \/ \E f \in {"startInLoop", "stopInLoop", "forceClose"} : queue' = Append(queue, f)
      BY <1>9 DEF OtherQueues, LoopStop, Destroy
    <2>3. {"startInLoop", "stopInLoop", "forceClose"} \subseteq Functors \ {"resetChannel"}
      BY DEF Functors, ConnectorFunctors
    <2>. QED
      BY <2>1, <2>2, <2>3, KeepsChannel
  <1>. QED
    BY <1>1, <1>2, <1>3, <1>4, <1>5, <1>6, <1>7, <1>8, <1>9
    DEF Next, LoopStep, OtherStep, Calls

LEMMA Next_IInv ==
  ASSUME IInv, [Next]_vars, ~StopElsewhere
  PROVE  IInv'
  <1>1. Typed' /\ StopSound'
    BY Typed_Next, StopSound_Next DEF IInv
  <1>2. CASE Next
    BY <1>1, <1>2, ChannelSound_Next DEF IInv, Next
  <1>3. CASE UNCHANGED vars
    <2>1. ChannelSound => ChannelSound'
      BY <1>3 DEF vars, connectorVars, loopVars, ChannelSound
    <2>. QED
      BY <1>1, <1>3, <2>1 DEF IInv, vars, faultVars
  <1>. QED
    BY <1>2, <1>3

\* What a step may not do after stop()
NoConnection ==
    stopped /\ stopped' =>
        /\ connection = "none" => connection' = "none"
        /\ channel = "none" => channel' = "none"

LEMMA Step_NoConnection ==
  ASSUME IInv, [Next]_vars
  PROVE  NoConnection
  <1> SUFFICES ASSUME stopped, stopped' PROVE
        /\ connection = "none" => connection' = "none"
        /\ channel = "none" => channel' = "none"
    BY DEF NoConnection
  <1>1. ~cConnect /\ pc # "restart" /\ otherPc = "idle"
    BY DEF IInv, StopSound
  <1>2. CASE UNCHANGED vars
    BY <1>2 DEF vars, clientVars, connectorVars
  <1>3. CASE Next
    <2>. ~failed /\ ChannelSound
      BY <1>3 DEF IInv, Next
    <2>1. CASE TimerFires \/ CallStartInLoop
      <3>1. \E timers : StartInLoop(cState, cConnect, timers) /\ UNCHANGED connection
        BY <2>1 DEF TimerFires, CallStartInLoop, clientVars
      <3>. QED
        BY <1>1, <3>1 DEF StartInLoop
    <2>2. CASE ChannelEvent \/ CallStopInLoop
      <3>1. connection = "none" => connection' = "none"
        BY <1>1, <2>2 DEF ChannelEvent, CallStopInLoop, AttemptFails, AttemptSucceeds, clientVars
      <3>2. channel' = channel \/ cState = "Connecting"
        BY <2>2 DEF ChannelEvent, CallStopInLoop, StopInLoop
      <3>. QED
        BY <3>1, <3>2 DEF ChannelSound
    <2>3. CASE CallResetChannel \/ RemoveConnection \/ Destroy
      BY <2>3 DEF CallResetChannel, ResetChannel, RemoveConnection, Destroy, clientVars,
             connectorVars
    <2>4. CASE Poll \/ OrphanEvent \/ SwapPendingFunctors \/ EndFunctors \/ CallForceClose
               \/ CallConnectDestroyed
      BY <2>4 DEF Poll, OrphanEvent, OrphanCloses, SwapPendingFunctors, EndFunctors,
             CallForceClose, CallConnectDestroyed, clientVars, connectorVars
    <2>5. CASE OtherStep \/ LoopStop \/ OtherStop \/ Disconnect
      BY <2>5 DEF OtherStep, OtherSetConnect, OtherQueues, LoopStop, OtherStop, Disconnect,
             clientVars, connectorVars
    <2>6. ~Restart /\ ~LoopConnect /\ ~OtherConnect
      BY <1>1 DEF Restart, LoopConnect, OtherConnect
    <2>. QED
      BY <1>3, <2>1, <2>2, <2>3, <2>4, <2>5, <2>6 DEF Next, LoopStep, Calls
  <1>. QED
    BY <1>2, <1>3

\* After stop() nothing connects until connect() is called again, for any number
\* of connect() and stop() in the loop thread and of connect() in another one,
\* if that one does not call stop() (Connector.cc:51-77, TcpClient.cc:117-128).
THEOREM StopCorrect == ASSUME ~StopElsewhere PROVE Spec => StopHolds
  <1>1. IInv /\ [Next]_vars => IInv'
    BY Next_IInv
  <1>2. IInv /\ [Next]_vars => NoConnection
    BY Step_NoConnection
  <1>. QED
    BY <1>1, <1>2, Init_IInv, PTL DEF Spec, StopHolds, NoConnection

-----------------------------------------------------------------------------
(* One way at a time *)

\* Where functor f is queued or about to be called
Queued(f) == Has(queue, f) \/ Has(batch, f)

\* The ways to a connection, and what becomes one: a connect() in the other
\* thread, a restart() that is about to start
Calling == otherPc \in {"start", "queueStart"}
Asked == Queued("startInLoop")
Waiting == armed > 0
Attempting == channel = "live"
Up == connection = "up"
Restarting == pc = "restart"

OneWay ==
    /\ Calling => ~Asked /\ ~Waiting /\ ~Attempting /\ ~Up /\ ~Restarting
    /\ Asked => ~Waiting /\ ~Attempting /\ ~Up /\ ~Restarting
    /\ Waiting => ~Attempting /\ ~Up /\ ~Restarting
    /\ Attempting => ~Up /\ ~Restarting
    /\ Up => ~Restarting
    /\ armed \in {0, 1}
    /\ Once(queue, "startInLoop") /\ Once(batch, "startInLoop")
    /\ ~(Has(queue, "startInLoop") /\ Has(batch, "startInLoop"))

\* The state that goes with each of them
StateSound ==
    /\ channel \in {"none", "live", "removed"}
    /\ Calling \/ Asked => cState = "Disconnected" /\ channel = "none"
    /\ Waiting => cState = "Disconnected"
    /\ Attempting => cState = "Connecting"
    /\ Up \/ Restarting => cState = "Connected"

\* A channel that was taken out of the loop is freed before the loop polls again,
\* so no timer that the attempt armed and no connection it made comes before that.
RemovedSound ==
    /\ channel = "removed" => Queued("resetChannel")
    /\ channel = "removed" /\ (Waiting \/ Up \/ Restarting) =>
          \/ /\ pc = "events" /\ Has(queue, "resetChannel")
             /\ "timer" \notin due /\ "connection" \notin due
          \/ pc = "functors" /\ Has(batch, "resetChannel")

\* What poll reported is still so when it is handled; functors are called when
\* there is nothing else to handle.
DueSound ==
    /\ "timer" \in due => Waiting
    /\ "channel" \in due => Attempting
    /\ "connection" \in due => Up \/ ~alive
    /\ pc \notin {"events", "restart"} => due = {}
    /\ pc # "functors" => batch = <<>>

\* While a stopInLoop is queued nothing has set connect_ again.
StopQueuedSound ==
    Queued("stopInLoop") => ~cConnect /\ (~wants \/ ~alive) /\ ~Restarting /\ ~Calling

\* What is left of a client that was destroyed
DestroyedSound ==
    /\ orphan => ~alive
    /\ ~alive =>
          /\ ~Up /\ ~Restarting /\ ~Calling
          /\ cConnect => ~Asked /\ ~Waiting /\ ~Attempting

ClientInv ==
    /\ ~failed /\ ~dangling
    /\ OneWay /\ StateSound /\ RemovedSound /\ DueSound /\ StopQueuedSound /\ DestroyedSound
    /\ ChannelSound

LEMMA Init_ClientInv == Init => ClientInv
  <1> SUFFICES ASSUME Init PROVE ClientInv
    OBVIOUS
  <1>1. \A f : ~Has(<<>>, f) /\ Once(<<>>, f)
    BY DEF Has, Once
  <1>2. \A f : ~Has(queue, f) /\ Once(queue, f) /\ ~Has(batch, f) /\ Once(batch, f)
    BY <1>1 DEF Init
  <1>. QED
    BY <1>2 DEF Init, ClientInv, OneWay, StateSound, RemovedSound, DueSound, StopQueuedSound,
         DestroyedSound, ChannelSound, Queued, Calling, Asked, Waiting, Attempting, Up, Restarting

\* What a step does to the functors of the connector
SameQueue ==
    \A f \in ConnectorFunctors :
        (Has(queue', f) <=> Has(queue, f)) /\ (Once(queue, f) => Once(queue', f))
SameBatch ==
    \A f \in ConnectorFunctors :
        (Has(batch', f) <=> Has(batch, f)) /\ (Once(batch, f) => Once(batch', f))
Adds(f) ==
    \A g \in ConnectorFunctors :
        /\ Has(queue', g) <=> Has(queue, g) \/ g = f
        /\ Once(queue, g) /\ (g # f \/ ~Has(queue, g)) => Once(queue', g)
Drops(f) ==
    \A g \in ConnectorFunctors :
        /\ g # f => (Has(batch', g) <=> Has(batch, g))
        /\ Once(batch, g) => Once(batch', g)
        /\ g = f => Has(batch, g) /\ (Once(batch, g) => ~Has(batch', g))

LEMMA QueueSame == ASSUME UNCHANGED queue PROVE SameQueue
  BY DEF SameQueue

LEMMA BatchSame == ASSUME UNCHANGED batch PROVE SameBatch
  BY DEF SameBatch

LEMMA QueueAdds ==
  ASSUME Typed, NEW f \in Functors, queue' = Append(queue, f)
  PROVE  Adds(f)
  <1>1. ASSUME NEW g \in ConnectorFunctors
        PROVE  /\ Has(queue', g) <=> Has(queue, g) \/ g = f
               /\ Once(queue, g) /\ (g # f \/ ~Has(queue, g)) => Once(queue', g)
    BY AppendFunctor DEF Typed
  <1>. QED
    BY <1>1 DEF Adds

LEMMA BatchDrops ==
  ASSUME Typed, NEW f, Takes(f)
  PROVE  Drops(f)
  <1>1. batch \in Seq(Functors) /\ batch # <<>> /\ Head(batch) = f /\ batch' = Tail(batch)
    BY DEF Takes, Typed
  <1>2. ASSUME NEW g \in ConnectorFunctors
        PROVE  /\ g # f => (Has(batch', g) <=> Has(batch, g))
               /\ Once(batch, g) => Once(batch', g)
               /\ g = f => Has(batch, g) /\ (Once(batch, g) => ~Has(batch', g))
    BY <1>1, TakeFunctor
  <1>. QED
    BY <1>2 DEF Drops

\* A functor that is not the connector's changes nothing.
LEMMA NotConnectors ==
  ASSUME NEW f, f \notin ConnectorFunctors
  PROVE  (Adds(f) => SameQueue) /\ (Drops(f) => SameBatch)
  BY DEF Adds, Drops, SameQueue, SameBatch

\* startInLoop() with nothing else under way: an attempt, a timer, or nothing
Starts(want) ==
    /\ ~failed'
    /\ \/ want /\ channel' = "live" /\ cState' = "Connecting" /\ armed' = 0
       \/ want /\ channel' = "none" /\ cState' = "Disconnected" /\ armed' = 1
       \/ channel' = "none" /\ cState' = "Disconnected" /\ armed' = 0

LEMMA StartsWell ==
  ASSUME ~failed, channel = "none", NEW want, StartInLoop("Disconnected", want, 0)
  PROVE  Starts(want)
  <1>1. CASE want /\ Connecting(0)
    BY <1>1 DEF Connecting, Starts
  <1>2. CASE want /\ Retry(0, TRUE) /\ UNCHANGED <<channel, gaveUp, failed>>
    BY <1>2 DEF Retry, Starts
  <1>3. CASE cState' = "Disconnected" /\ armed' = 0 /\ UNCHANGED <<channel, failed>>
    BY <1>3 DEF Starts
  <1>. QED
    BY <1>1, <1>2, <1>3 DEF StartInLoop, Connect

LEMMA PendingIsQueued == \A f : Pending(f) <=> Queued(f)
  BY DEF Pending, Queued, Has

\* Nothing is under way when a careful program calls connect().
LEMMA QuietFacts ==
  ASSUME ClientInv, MayConnect, ~HastyConnect
  PROVE  /\ ~Calling /\ ~Asked /\ ~Waiting /\ ~Attempting /\ ~Up /\ ~Restarting
         /\ ~Queued("stopInLoop") /\ cState = "Disconnected" /\ channel = "none" /\ armed = 0
  <1>1. /\ cState = "Disconnected" /\ armed = 0 /\ otherPc = "idle"
        /\ \A f \in ConnectorFunctors : ~Queued(f)
    BY PendingIsQueued DEF MayConnect, Quiet
  <1>2. ~Queued("startInLoop") /\ ~Queued("stopInLoop") /\ ~Queued("resetChannel")
    BY <1>1 DEF ConnectorFunctors
  <1>. QED
    BY <1>1, <1>2 DEF ClientInv, StateSound, RemovedSound, Calling, Asked, Waiting, Attempting, Up,
         Restarting

LEMMA Poll_ClientInv ==
  ASSUME Typed, ClientInv, Poll
  PROVE  ClientInv'
  <1>1. /\ pc = "poll" /\ pc' = "events" /\ due' \subseteq Ready
        /\ UNCHANGED <<wants, connection, alive, orphan, cConnect, cState, channel, armed,
                       queue, batch, failed, dangling, otherPc>>
    BY DEF Poll, clientVars, connectorVars, faultVars, callVars
  <1>2. SameQueue /\ SameBatch
    BY <1>1, QueueSame, BatchSame
  <1>3. /\ "timer" \in due' => armed > 0
        /\ "channel" \in due' => channel = "live"
        /\ "connection" \in due' => connection = "up" \/ orphan
    BY <1>1 DEF Ready
  <1>4. orphan => ~alive
    BY DEF ClientInv, DestroyedSound
  <1>5. OneWay'
    BY <1>1, <1>2, <1>3, <1>4
    DEF ClientInv, OneWay, Queued, Calling, Asked, Waiting, Attempting, Up, Restarting,
        SameQueue, SameBatch, Adds, Drops, ConnectorFunctors
  <1>6. StateSound'
    BY <1>1, <1>2, <1>3, <1>4
    DEF ClientInv, OneWay, StateSound, Queued, Calling, Asked, Waiting, Attempting, Up, Restarting,
        SameQueue, SameBatch, Adds, Drops, ConnectorFunctors
  <1>7. RemovedSound'
    BY <1>1, <1>2, <1>3, <1>4
    DEF ClientInv, OneWay, StateSound, DueSound, RemovedSound, Queued, Calling, Asked, Waiting, Attempting, Up, Restarting,
        SameQueue, SameBatch, Adds, Drops, ConnectorFunctors
  <1>8. DueSound'
    BY <1>1, <1>2, <1>3, <1>4
    DEF ClientInv, OneWay, DueSound, Queued, Calling, Asked, Waiting, Attempting, Up, Restarting,
        SameQueue, SameBatch, Adds, Drops, ConnectorFunctors
  <1>9. StopQueuedSound'
    BY <1>1, <1>2, <1>3, <1>4
    DEF ClientInv, OneWay, StateSound, StopQueuedSound, Queued, Calling, Asked, Waiting, Attempting, Up, Restarting,
        SameQueue, SameBatch, Adds, Drops, ConnectorFunctors
  <1>10. DestroyedSound'
    BY <1>1, <1>2, <1>3, <1>4
    DEF ClientInv, OneWay, DestroyedSound, Queued, Calling, Asked, Waiting, Attempting, Up, Restarting,
        SameQueue, SameBatch, Adds, Drops, ConnectorFunctors
  <1>11. ~failed' /\ ~dangling'
    BY <1>1, <1>2, <1>3, <1>4 DEF ClientInv
  <1>12. ChannelSound'
    BY <1>11, ChannelSound_Next DEF ClientInv, Next, LoopStep, OtherStep, Calls
  <1>. QED
    BY <1>5, <1>6, <1>7, <1>8, <1>9, <1>10, <1>11, <1>12 DEF ClientInv

LEMMA TimerFires_ClientInv ==
  ASSUME Typed, ClientInv, TimerFires
  PROVE  ClientInv'
  <1>1. /\ pc = "events" /\ "timer" \in due /\ due' = due \ {"timer"}
        /\ StartInLoop(cState, cConnect, armed - 1)
        /\ UNCHANGED <<wants, connection, alive, orphan, cConnect, queue, batch, pc, dangling, otherPc>>
    BY DEF TimerFires, Handles, clientVars, callVars
  <1>2. SameQueue /\ SameBatch
    BY <1>1, QueueSame, BatchSame
  <1>3. /\ Waiting /\ armed - 1 = 0 /\ cState = "Disconnected" /\ channel = "none"
    BY <1>1 DEF ClientInv, OneWay, StateSound, RemovedSound, DueSound, Waiting, Attempting
  <1>4. Starts(cConnect)
    BY <1>1, <1>3, StartsWell DEF ClientInv
  <1>5. OneWay'
    BY <1>1, <1>2, <1>3, <1>4
    DEF ClientInv, Starts, OneWay, Queued, Calling, Asked, Waiting, Attempting, Up, Restarting,
        SameQueue, SameBatch, Adds, Drops, ConnectorFunctors
  <1>6. StateSound'
    BY <1>1, <1>2, <1>3, <1>4
    DEF ClientInv, Starts, OneWay, StateSound, Queued, Calling, Asked, Waiting, Attempting, Up, Restarting,
        SameQueue, SameBatch, Adds, Drops, ConnectorFunctors
  <1>7. RemovedSound'
    BY <1>1, <1>2, <1>3, <1>4
    DEF ClientInv, Starts, OneWay, StateSound, DueSound, RemovedSound, Queued, Calling, Asked, Waiting, Attempting, Up, Restarting,
        SameQueue, SameBatch, Adds, Drops, ConnectorFunctors
  <1>8. DueSound'
    BY <1>1, <1>2, <1>3, <1>4
    DEF ClientInv, Starts, OneWay, DueSound, Queued, Calling, Asked, Waiting, Attempting, Up, Restarting,
        SameQueue, SameBatch, Adds, Drops, ConnectorFunctors
  <1>9. StopQueuedSound'
    BY <1>1, <1>2, <1>3, <1>4
    DEF ClientInv, Starts, OneWay, StateSound, StopQueuedSound, Queued, Calling, Asked, Waiting, Attempting, Up, Restarting,
        SameQueue, SameBatch, Adds, Drops, ConnectorFunctors
  <1>10. DestroyedSound'
    BY <1>1, <1>2, <1>3, <1>4
    DEF ClientInv, Starts, OneWay, DestroyedSound, Queued, Calling, Asked, Waiting, Attempting, Up, Restarting,
        SameQueue, SameBatch, Adds, Drops, ConnectorFunctors
  <1>11. ~failed' /\ ~dangling'
    BY <1>1, <1>2, <1>3, <1>4 DEF ClientInv, Starts
  <1>12. ChannelSound'
    BY <1>11, ChannelSound_Next DEF ClientInv, Next, LoopStep, OtherStep, Calls
  <1>. QED
    BY <1>5, <1>6, <1>7, <1>8, <1>9, <1>10, <1>11, <1>12 DEF ClientInv

LEMMA ChannelEvent_ClientInv ==
  ASSUME Typed, ClientInv, ChannelEvent
  PROVE  ClientInv'
  <1>1. /\ pc = "events" /\ "channel" \in due /\ due' = due \ {"channel"}
        /\ UNCHANGED <<wants, alive, orphan, cConnect, batch, pc, otherPc>>
    BY DEF ChannelEvent, Handles, callVars
  <1>2. Attempting /\ cState = "Connecting" /\ armed = 0 /\ connection # "up"
    BY <1>1 DEF ClientInv, OneWay, StateSound, DueSound, Waiting, Attempting, Up
  <1>3. /\ channel' = "removed" /\ queue' = Append(queue, "resetChannel") /\ failed' = failed
        /\ \/ /\ cState' = "Disconnected" /\ armed' = IF cConnect THEN 1 ELSE 0
              /\ UNCHANGED <<connection, dangling>>
           \/ /\ cState' = "Connected" /\ UNCHANGED armed /\ cConnect
              /\ connection' = "up" /\ (alive => ~dangling')
           \/ /\ cState' = "Connected" /\ UNCHANGED <<armed, connection, dangling>>
    <2>1. RemoveAndResetChannel /\ failed' = failed /\ (AttemptFails \/ AttemptSucceeds)
      BY <1>2 DEF ChannelEvent, AttemptFails, AttemptSucceeds
    <2>2. CASE AttemptFails
      <3>1. cState' = "Disconnected" /\ armed' = IF cConnect THEN 1 ELSE 0
        BY <1>2, <2>2 DEF AttemptFails, Retry
      <3>. QED
        BY <2>1, <2>2, <3>1 DEF AttemptFails, RemoveAndResetChannel
    <2>3. CASE AttemptSucceeds
      BY <2>1, <2>3, Zenon DEF AttemptSucceeds, RemoveAndResetChannel
    <2>. QED
      BY <2>1, <2>2, <2>3
  <1>4. Adds("resetChannel") /\ SameBatch
    BY <1>1, <1>3, QueueAdds, BatchSame DEF Functors, ConnectorFunctors
  <1>5. cConnect => alive
    BY <1>2 DEF ClientInv, DestroyedSound
  <1>6. OneWay'
    BY <1>1, <1>2, <1>3, <1>4, <1>5
    DEF ClientInv, OneWay, Queued, Calling, Asked, Waiting, Attempting, Up, Restarting,
        SameQueue, SameBatch, Adds, Drops, ConnectorFunctors
  <1>7. StateSound'
    BY <1>1, <1>2, <1>3, <1>4, <1>5
    DEF ClientInv, OneWay, StateSound, Queued, Calling, Asked, Waiting, Attempting, Up, Restarting,
        SameQueue, SameBatch, Adds, Drops, ConnectorFunctors
  <1>8. RemovedSound'
    BY <1>1, <1>2, <1>3, <1>4, <1>5
    DEF ClientInv, OneWay, StateSound, DueSound, RemovedSound, Queued, Calling, Asked, Waiting, Attempting, Up, Restarting,
        SameQueue, SameBatch, Adds, Drops, ConnectorFunctors
  <1>9. DueSound'
    BY <1>1, <1>2, <1>3, <1>4, <1>5
    DEF ClientInv, OneWay, DueSound, Queued, Calling, Asked, Waiting, Attempting, Up, Restarting,
        SameQueue, SameBatch, Adds, Drops, ConnectorFunctors
  <1>10. StopQueuedSound'
    BY <1>1, <1>2, <1>3, <1>4, <1>5
    DEF ClientInv, OneWay, StateSound, StopQueuedSound, Queued, Calling, Asked, Waiting, Attempting, Up, Restarting,
        SameQueue, SameBatch, Adds, Drops, ConnectorFunctors
  <1>11. DestroyedSound'
    BY <1>1, <1>2, <1>3, <1>4, <1>5
    DEF ClientInv, OneWay, DestroyedSound, Queued, Calling, Asked, Waiting, Attempting, Up, Restarting,
        SameQueue, SameBatch, Adds, Drops, ConnectorFunctors
  <1>12. ~failed' /\ ~dangling'
    BY <1>1, <1>2, <1>3, <1>4, <1>5 DEF ClientInv
  <1>13. ChannelSound'
    BY <1>12, ChannelSound_Next DEF ClientInv, Next, LoopStep, OtherStep, Calls
  <1>. QED
    BY <1>6, <1>7, <1>8, <1>9, <1>10, <1>11, <1>12, <1>13 DEF ClientInv

LEMMA RemoveConnection_ClientInv ==
  ASSUME Typed, ClientInv, RemoveConnection
  PROVE  ClientInv'
  <1>1. /\ pc = "events" /\ "connection" \in due /\ due' = due \ {"connection"}
        /\ connection = "up" /\ connection' = "none" /\ queue' = Append(queue, "connectDestroyed")
        /\ pc' = IF retry /\ wants THEN "restart" ELSE pc
        /\ (alive => ~dangling')
        /\ UNCHANGED <<wants, alive, orphan, cConnect, cState, channel, armed, batch, failed, otherPc>>
    BY DEF RemoveConnection, Handles, connectorVars, callVars
  <1>2. SameQueue /\ SameBatch
    <2>1. "connectDestroyed" \in Functors /\ "connectDestroyed" \notin ConnectorFunctors
      BY DEF Functors, ConnectorFunctors
    <2>. QED
      BY <1>1, <2>1, QueueAdds, NotConnectors, BatchSame
  <1>3. alive
    BY <1>1 DEF ClientInv, DestroyedSound, Up
  <1>4. OneWay'
    BY <1>1, <1>2, <1>3
    DEF ClientInv, OneWay, Queued, Calling, Asked, Waiting, Attempting, Up, Restarting,
        SameQueue, SameBatch, Adds, Drops, ConnectorFunctors
  <1>5. StateSound'
    BY <1>1, <1>2, <1>3
    DEF ClientInv, OneWay, StateSound, Queued, Calling, Asked, Waiting, Attempting, Up, Restarting,
        SameQueue, SameBatch, Adds, Drops, ConnectorFunctors
  <1>6. RemovedSound'
    BY <1>1, <1>2, <1>3
    DEF ClientInv, OneWay, StateSound, DueSound, RemovedSound, Queued, Calling, Asked, Waiting, Attempting, Up, Restarting,
        SameQueue, SameBatch, Adds, Drops, ConnectorFunctors
  <1>7. DueSound'
    BY <1>1, <1>2, <1>3
    DEF ClientInv, OneWay, DueSound, Queued, Calling, Asked, Waiting, Attempting, Up, Restarting,
        SameQueue, SameBatch, Adds, Drops, ConnectorFunctors
  <1>8. StopQueuedSound'
    BY <1>1, <1>2, <1>3
    DEF ClientInv, OneWay, StateSound, StopQueuedSound, Queued, Calling, Asked, Waiting, Attempting, Up, Restarting,
        SameQueue, SameBatch, Adds, Drops, ConnectorFunctors
  <1>9. DestroyedSound'
    BY <1>1, <1>2, <1>3
    DEF ClientInv, OneWay, DestroyedSound, Queued, Calling, Asked, Waiting, Attempting, Up, Restarting,
        SameQueue, SameBatch, Adds, Drops, ConnectorFunctors
  <1>10. ~failed' /\ ~dangling'
    BY <1>1, <1>2, <1>3 DEF ClientInv
  <1>11. ChannelSound'
    BY <1>10, ChannelSound_Next DEF ClientInv, Next, LoopStep, OtherStep, Calls
  <1>. QED
    BY <1>4, <1>5, <1>6, <1>7, <1>8, <1>9, <1>10, <1>11 DEF ClientInv

LEMMA Restart_ClientInv ==
  ASSUME Typed, ClientInv, Restart
  PROVE  ClientInv'
  <1>1. /\ pc = "restart" /\ pc' = "events" /\ cConnect' = TRUE
        /\ StartInLoop("Disconnected", TRUE, armed)
        /\ UNCHANGED <<wants, connection, alive, orphan, queue, batch, due, dangling, otherPc>>
    BY DEF Restart, clientVars, callVars
  <1>2. SameQueue /\ SameBatch
    BY <1>1, QueueSame, BatchSame
  <1>3. Restarting /\ armed = 0 /\ channel = "none"
    BY <1>1 DEF ClientInv, OneWay, StateSound, RemovedSound, Waiting, Attempting, Restarting
  <1>4. Starts(TRUE)
    BY <1>1, <1>3, StartsWell DEF ClientInv
  <1>5. OneWay'
    BY <1>1, <1>2, <1>3, <1>4
    DEF ClientInv, Starts, OneWay, Queued, Calling, Asked, Waiting, Attempting, Up, Restarting,
        SameQueue, SameBatch, Adds, Drops, ConnectorFunctors
  <1>6. StateSound'
    BY <1>1, <1>2, <1>3, <1>4
    DEF ClientInv, Starts, OneWay, StateSound, Queued, Calling, Asked, Waiting, Attempting, Up, Restarting,
        SameQueue, SameBatch, Adds, Drops, ConnectorFunctors
  <1>7. RemovedSound'
    BY <1>1, <1>2, <1>3, <1>4
    DEF ClientInv, Starts, OneWay, StateSound, DueSound, RemovedSound, Queued, Calling, Asked, Waiting, Attempting, Up, Restarting,
        SameQueue, SameBatch, Adds, Drops, ConnectorFunctors
  <1>8. DueSound'
    BY <1>1, <1>2, <1>3, <1>4
    DEF ClientInv, Starts, OneWay, DueSound, Queued, Calling, Asked, Waiting, Attempting, Up, Restarting,
        SameQueue, SameBatch, Adds, Drops, ConnectorFunctors
  <1>9. StopQueuedSound'
    BY <1>1, <1>2, <1>3, <1>4
    DEF ClientInv, Starts, OneWay, StateSound, StopQueuedSound, Queued, Calling, Asked, Waiting, Attempting, Up, Restarting,
        SameQueue, SameBatch, Adds, Drops, ConnectorFunctors
  <1>10. DestroyedSound'
    BY <1>1, <1>2, <1>3, <1>4
    DEF ClientInv, Starts, OneWay, DestroyedSound, Queued, Calling, Asked, Waiting, Attempting, Up, Restarting,
        SameQueue, SameBatch, Adds, Drops, ConnectorFunctors
  <1>11. ~failed' /\ ~dangling'
    BY <1>1, <1>2, <1>3, <1>4 DEF ClientInv, Starts
  <1>12. ChannelSound'
    BY <1>11, ChannelSound_Next DEF ClientInv, Next, LoopStep, OtherStep, Calls
  <1>. QED
    BY <1>5, <1>6, <1>7, <1>8, <1>9, <1>10, <1>11, <1>12 DEF ClientInv

LEMMA OrphanEvent_ClientInv ==
  ASSUME Typed, ClientInv, OrphanEvent
  PROVE  ClientInv'
  <1>1. /\ pc = "events" /\ due' = due \ {"connection"} /\ orphan /\ orphan' = FALSE
        /\ queue' = Append(queue, "connectDestroyed")
        /\ UNCHANGED <<wants, connection, alive, cConnect, cState, channel, armed, batch, pc, failed, dangling, otherPc>>
    BY DEF OrphanEvent, OrphanCloses, Handles, connectorVars, faultVars, callVars
  <1>2. SameQueue /\ SameBatch
    <2>1. "connectDestroyed" \in Functors /\ "connectDestroyed" \notin ConnectorFunctors
      BY DEF Functors, ConnectorFunctors
    <2>. QED
      BY <1>1, <2>1, QueueAdds, NotConnectors, BatchSame
  <1>3. OneWay'
    BY <1>1, <1>2
    DEF ClientInv, OneWay, Queued, Calling, Asked, Waiting, Attempting, Up, Restarting,
        SameQueue, SameBatch, Adds, Drops, ConnectorFunctors
  <1>4. StateSound'
    BY <1>1, <1>2
    DEF ClientInv, OneWay, StateSound, Queued, Calling, Asked, Waiting, Attempting, Up, Restarting,
        SameQueue, SameBatch, Adds, Drops, ConnectorFunctors
  <1>5. RemovedSound'
    BY <1>1, <1>2
    DEF ClientInv, OneWay, StateSound, DueSound, RemovedSound, Queued, Calling, Asked, Waiting, Attempting, Up, Restarting,
        SameQueue, SameBatch, Adds, Drops, ConnectorFunctors
  <1>6. DueSound'
    BY <1>1, <1>2
    DEF ClientInv, OneWay, DueSound, Queued, Calling, Asked, Waiting, Attempting, Up, Restarting,
        SameQueue, SameBatch, Adds, Drops, ConnectorFunctors
  <1>7. StopQueuedSound'
    BY <1>1, <1>2
    DEF ClientInv, OneWay, StateSound, StopQueuedSound, Queued, Calling, Asked, Waiting, Attempting, Up, Restarting,
        SameQueue, SameBatch, Adds, Drops, ConnectorFunctors
  <1>8. DestroyedSound'
    BY <1>1, <1>2
    DEF ClientInv, OneWay, DestroyedSound, Queued, Calling, Asked, Waiting, Attempting, Up, Restarting,
        SameQueue, SameBatch, Adds, Drops, ConnectorFunctors
  <1>9. ~failed' /\ ~dangling'
    BY <1>1, <1>2 DEF ClientInv
  <1>10. ChannelSound'
    BY <1>9, ChannelSound_Next DEF ClientInv, Next, LoopStep, OtherStep, Calls
  <1>. QED
    BY <1>3, <1>4, <1>5, <1>6, <1>7, <1>8, <1>9, <1>10 DEF ClientInv

LEMMA SwapPendingFunctors_ClientInv ==
  ASSUME Typed, ClientInv, SwapPendingFunctors
  PROVE  ClientInv'
  <1>1. /\ pc = "events" /\ due = {} /\ pc' = "functors" /\ batch' = queue /\ queue' = <<>>
        /\ UNCHANGED <<wants, connection, alive, orphan, cConnect, cState, channel, armed, due, failed, dangling, otherPc>>
    BY DEF SwapPendingFunctors, clientVars, connectorVars, faultVars, callVars
  <1>2. \A f : ~Has(batch, f) /\ ~Has(queue', f) /\ Once(queue', f)
    BY <1>1 DEF ClientInv, DueSound, Has, Once
  <1>3. \A f : (Has(batch', f) <=> Has(queue, f)) /\ (Once(batch', f) <=> Once(queue, f))
    BY <1>1
  <1>4. OneWay'
    BY <1>1, <1>2, <1>3
    DEF ClientInv, OneWay, Queued, Calling, Asked, Waiting, Attempting, Up, Restarting,
        SameQueue, SameBatch, Adds, Drops, ConnectorFunctors
  <1>5. StateSound'
    BY <1>1, <1>2, <1>3
    DEF ClientInv, OneWay, StateSound, Queued, Calling, Asked, Waiting, Attempting, Up, Restarting,
        SameQueue, SameBatch, Adds, Drops, ConnectorFunctors
  <1>6. RemovedSound'
    BY <1>1, <1>2, <1>3
    DEF ClientInv, OneWay, StateSound, DueSound, RemovedSound, Queued, Calling, Asked, Waiting, Attempting, Up, Restarting,
        SameQueue, SameBatch, Adds, Drops, ConnectorFunctors
  <1>7. DueSound'
    BY <1>1, <1>2, <1>3
    DEF ClientInv, OneWay, DueSound, Queued, Calling, Asked, Waiting, Attempting, Up, Restarting,
        SameQueue, SameBatch, Adds, Drops, ConnectorFunctors
  <1>8. StopQueuedSound'
    BY <1>1, <1>2, <1>3
    DEF ClientInv, OneWay, StateSound, StopQueuedSound, Queued, Calling, Asked, Waiting, Attempting, Up, Restarting,
        SameQueue, SameBatch, Adds, Drops, ConnectorFunctors
  <1>9. DestroyedSound'
    BY <1>1, <1>2, <1>3
    DEF ClientInv, OneWay, DestroyedSound, Queued, Calling, Asked, Waiting, Attempting, Up, Restarting,
        SameQueue, SameBatch, Adds, Drops, ConnectorFunctors
  <1>10. ~failed' /\ ~dangling'
    BY <1>1, <1>2, <1>3 DEF ClientInv
  <1>11. ChannelSound'
    BY <1>10, ChannelSound_Next DEF ClientInv, Next, LoopStep, OtherStep, Calls
  <1>. QED
    BY <1>4, <1>5, <1>6, <1>7, <1>8, <1>9, <1>10, <1>11 DEF ClientInv

LEMMA EndFunctors_ClientInv ==
  ASSUME Typed, ClientInv, EndFunctors
  PROVE  ClientInv'
  <1>1. /\ pc = "functors" /\ batch = <<>> /\ pc' = "poll"
        /\ UNCHANGED <<wants, connection, alive, orphan, cConnect, cState, channel, armed, queue, batch, due,
                       failed, dangling, otherPc>>
    BY DEF EndFunctors, clientVars, connectorVars, faultVars, callVars
  <1>2. SameQueue /\ SameBatch
    BY <1>1, QueueSame, BatchSame
  <1>3. \A f : ~Has(batch, f)
    BY <1>1 DEF Has
  <1>4. OneWay'
    BY <1>1, <1>2, <1>3
    DEF ClientInv, OneWay, Queued, Calling, Asked, Waiting, Attempting, Up, Restarting,
        SameQueue, SameBatch, Adds, Drops, ConnectorFunctors
  <1>5. StateSound'
    BY <1>1, <1>2, <1>3
    DEF ClientInv, OneWay, StateSound, Queued, Calling, Asked, Waiting, Attempting, Up, Restarting,
        SameQueue, SameBatch, Adds, Drops, ConnectorFunctors
  <1>6. RemovedSound'
    BY <1>1, <1>2, <1>3
    DEF ClientInv, OneWay, StateSound, DueSound, RemovedSound, Queued, Calling, Asked, Waiting, Attempting, Up, Restarting,
        SameQueue, SameBatch, Adds, Drops, ConnectorFunctors
  <1>7. DueSound'
    BY <1>1, <1>2, <1>3
    DEF ClientInv, OneWay, DueSound, Queued, Calling, Asked, Waiting, Attempting, Up, Restarting,
        SameQueue, SameBatch, Adds, Drops, ConnectorFunctors
  <1>8. StopQueuedSound'
    BY <1>1, <1>2, <1>3
    DEF ClientInv, OneWay, StateSound, StopQueuedSound, Queued, Calling, Asked, Waiting, Attempting, Up, Restarting,
        SameQueue, SameBatch, Adds, Drops, ConnectorFunctors
  <1>9. DestroyedSound'
    BY <1>1, <1>2, <1>3
    DEF ClientInv, OneWay, DestroyedSound, Queued, Calling, Asked, Waiting, Attempting, Up, Restarting,
        SameQueue, SameBatch, Adds, Drops, ConnectorFunctors
  <1>10. ~failed' /\ ~dangling'
    BY <1>1, <1>2, <1>3 DEF ClientInv
  <1>11. ChannelSound'
    BY <1>10, ChannelSound_Next DEF ClientInv, Next, LoopStep, OtherStep, Calls
  <1>. QED
    BY <1>4, <1>5, <1>6, <1>7, <1>8, <1>9, <1>10, <1>11 DEF ClientInv

LEMMA CallStartInLoop_ClientInv ==
  ASSUME Typed, ClientInv, CallStartInLoop
  PROVE  ClientInv'
  <1>1. /\ pc = "functors" /\ Takes("startInLoop") /\ StartInLoop(cState, cConnect, armed)
        /\ UNCHANGED <<wants, connection, alive, orphan, cConnect, queue, due, pc, dangling, otherPc>>
    BY DEF CallStartInLoop, Takes, clientVars, callVars
  <1>2. SameQueue /\ Drops("startInLoop")
    BY <1>1, QueueSame, BatchDrops
  <1>3. Asked /\ Has(batch, "startInLoop") /\ cState = "Disconnected" /\ channel = "none" /\ armed = 0
    BY <1>2 DEF ClientInv, OneWay, StateSound, Drops, ConnectorFunctors, Asked, Queued, Waiting
  <1>4. Starts(cConnect)
    BY <1>1, <1>3, StartsWell DEF ClientInv
  <1>5. OneWay'
    BY <1>1, <1>2, <1>3, <1>4
    DEF ClientInv, Starts, OneWay, Queued, Calling, Asked, Waiting, Attempting, Up, Restarting,
        SameQueue, SameBatch, Adds, Drops, ConnectorFunctors
  <1>6. StateSound'
    BY <1>1, <1>2, <1>3, <1>4
    DEF ClientInv, Starts, OneWay, StateSound, Queued, Calling, Asked, Waiting, Attempting, Up, Restarting,
        SameQueue, SameBatch, Adds, Drops, ConnectorFunctors
  <1>7. RemovedSound'
    BY <1>1, <1>2, <1>3, <1>4
    DEF ClientInv, Starts, OneWay, StateSound, DueSound, RemovedSound, Queued, Calling, Asked, Waiting, Attempting, Up, Restarting,
        SameQueue, SameBatch, Adds, Drops, ConnectorFunctors
  <1>8. DueSound'
    BY <1>1, <1>2, <1>3, <1>4
    DEF ClientInv, Starts, OneWay, DueSound, Queued, Calling, Asked, Waiting, Attempting, Up, Restarting,
        SameQueue, SameBatch, Adds, Drops, ConnectorFunctors
  <1>9. StopQueuedSound'
    BY <1>1, <1>2, <1>3, <1>4
    DEF ClientInv, Starts, OneWay, StateSound, StopQueuedSound, Queued, Calling, Asked, Waiting, Attempting, Up, Restarting,
        SameQueue, SameBatch, Adds, Drops, ConnectorFunctors
  <1>10. DestroyedSound'
    BY <1>1, <1>2, <1>3, <1>4
    DEF ClientInv, Starts, OneWay, DestroyedSound, Queued, Calling, Asked, Waiting, Attempting, Up, Restarting,
        SameQueue, SameBatch, Adds, Drops, ConnectorFunctors
  <1>11. ~failed' /\ ~dangling'
    BY <1>1, <1>2, <1>3, <1>4 DEF ClientInv, Starts
  <1>12. ChannelSound'
    BY <1>11, ChannelSound_Next DEF ClientInv, Next, LoopStep, OtherStep, Calls
  <1>. QED
    BY <1>5, <1>6, <1>7, <1>8, <1>9, <1>10, <1>11, <1>12 DEF ClientInv

LEMMA CallStopInLoop_ClientInv ==
  ASSUME Typed, ClientInv, CallStopInLoop
  PROVE  ClientInv'
  <1>1. /\ pc = "functors" /\ Takes("stopInLoop")
        /\ UNCHANGED <<wants, connection, alive, orphan, cConnect, due, pc, failed, dangling, otherPc>>
    BY DEF CallStopInLoop, Takes, clientVars, faultVars, callVars
  <1>2. Drops("stopInLoop")
    BY <1>1, BatchDrops
  <1>3. Queued("stopInLoop") /\ ~cConnect
    BY <1>2 DEF ClientInv, StopQueuedSound, Queued, Drops, ConnectorFunctors
  <1>4. \/ /\ cState = "Connecting" /\ cState' = "Disconnected" /\ armed' = armed /\ channel' = "removed"
           /\ queue' = Append(queue, "resetChannel")
        \/ UNCHANGED <<channel, queue, cState, armed>>
    <2>1. armed \in {0, 1}
      BY DEF ClientInv, OneWay
    <2>. QED
      BY <1>3, <2>1 DEF CallStopInLoop, StopInLoop, RemoveAndResetChannel, Retry
  <1>5. \/ /\ cState = "Connecting" /\ channel = "live" /\ cState' = "Disconnected" /\ armed' = armed
           /\ channel' = "removed" /\ Adds("resetChannel")
        \/ UNCHANGED <<channel, cState, armed>> /\ SameQueue
    BY <1>4, QueueAdds, QueueSame DEF ClientInv, ChannelSound, Functors, ConnectorFunctors
  <1>6. OneWay'
    BY <1>1, <1>2, <1>3, <1>4, <1>5
    DEF ClientInv, OneWay, Queued, Calling, Asked, Waiting, Attempting, Up, Restarting,
        SameQueue, SameBatch, Adds, Drops, ConnectorFunctors
  <1>7. StateSound'
    BY <1>1, <1>2, <1>3, <1>4, <1>5
    DEF ClientInv, OneWay, StateSound, Queued, Calling, Asked, Waiting, Attempting, Up, Restarting,
        SameQueue, SameBatch, Adds, Drops, ConnectorFunctors
  <1>8. RemovedSound'
    BY <1>1, <1>2, <1>3, <1>4, <1>5
    DEF ClientInv, OneWay, StateSound, DueSound, RemovedSound, Queued, Calling, Asked, Waiting, Attempting, Up, Restarting,
        SameQueue, SameBatch, Adds, Drops, ConnectorFunctors
  <1>9. DueSound'
    BY <1>1, <1>2, <1>3, <1>4, <1>5
    DEF ClientInv, OneWay, DueSound, Queued, Calling, Asked, Waiting, Attempting, Up, Restarting,
        SameQueue, SameBatch, Adds, Drops, ConnectorFunctors
  <1>10. StopQueuedSound'
    BY <1>1, <1>2, <1>3, <1>4, <1>5
    DEF ClientInv, OneWay, StateSound, StopQueuedSound, Queued, Calling, Asked, Waiting, Attempting, Up, Restarting,
        SameQueue, SameBatch, Adds, Drops, ConnectorFunctors
  <1>11. DestroyedSound'
    BY <1>1, <1>2, <1>3, <1>4, <1>5
    DEF ClientInv, OneWay, DestroyedSound, Queued, Calling, Asked, Waiting, Attempting, Up, Restarting,
        SameQueue, SameBatch, Adds, Drops, ConnectorFunctors
  <1>12. ~failed' /\ ~dangling'
    BY <1>1, <1>2, <1>3, <1>4, <1>5 DEF ClientInv
  <1>13. ChannelSound'
    BY <1>12, ChannelSound_Next DEF ClientInv, Next, LoopStep, OtherStep, Calls
  <1>. QED
    BY <1>6, <1>7, <1>8, <1>9, <1>10, <1>11, <1>12, <1>13 DEF ClientInv

LEMMA CallResetChannel_ClientInv ==
  ASSUME Typed, ClientInv, CallResetChannel
  PROVE  ClientInv'
  <1>1. /\ pc = "functors" /\ Takes("resetChannel") /\ channel' = "none"
        /\ UNCHANGED <<wants, connection, alive, orphan, cConnect, cState, armed, queue, due, pc, failed, dangling, otherPc>>
    BY DEF CallResetChannel, ResetChannel, Takes, clientVars, faultVars, callVars
  <1>2. SameQueue /\ Drops("resetChannel")
    BY <1>1, QueueSame, BatchDrops
  <1>3. channel = "removed"
    BY <1>2 DEF ClientInv, ChannelSound, Drops, ConnectorFunctors
  <1>4. OneWay'
    BY <1>1, <1>2, <1>3
    DEF ClientInv, OneWay, Queued, Calling, Asked, Waiting, Attempting, Up, Restarting,
        SameQueue, SameBatch, Adds, Drops, ConnectorFunctors
  <1>5. StateSound'
    BY <1>1, <1>2, <1>3
    DEF ClientInv, OneWay, StateSound, Queued, Calling, Asked, Waiting, Attempting, Up, Restarting,
        SameQueue, SameBatch, Adds, Drops, ConnectorFunctors
  <1>6. RemovedSound'
    BY <1>1, <1>2, <1>3
    DEF ClientInv, OneWay, StateSound, DueSound, RemovedSound, Queued, Calling, Asked, Waiting, Attempting, Up, Restarting,
        SameQueue, SameBatch, Adds, Drops, ConnectorFunctors
  <1>7. DueSound'
    BY <1>1, <1>2, <1>3
    DEF ClientInv, OneWay, DueSound, Queued, Calling, Asked, Waiting, Attempting, Up, Restarting,
        SameQueue, SameBatch, Adds, Drops, ConnectorFunctors
  <1>8. StopQueuedSound'
    BY <1>1, <1>2, <1>3
    DEF ClientInv, OneWay, StateSound, StopQueuedSound, Queued, Calling, Asked, Waiting, Attempting, Up, Restarting,
        SameQueue, SameBatch, Adds, Drops, ConnectorFunctors
  <1>9. DestroyedSound'
    BY <1>1, <1>2, <1>3
    DEF ClientInv, OneWay, DestroyedSound, Queued, Calling, Asked, Waiting, Attempting, Up, Restarting,
        SameQueue, SameBatch, Adds, Drops, ConnectorFunctors
  <1>10. ~failed' /\ ~dangling'
    BY <1>1, <1>2, <1>3 DEF ClientInv
  <1>11. ChannelSound'
    BY <1>10, ChannelSound_Next DEF ClientInv, Next, LoopStep, OtherStep, Calls
  <1>. QED
    BY <1>4, <1>5, <1>6, <1>7, <1>8, <1>9, <1>10, <1>11 DEF ClientInv

LEMMA CallForceClose_ClientInv ==
  ASSUME Typed, ClientInv, CallForceClose
  PROVE  ClientInv'
  <1>1. /\ pc = "functors" /\ Takes("forceClose")
        /\ (orphan' = orphan \/ orphan' = FALSE)
        /\ (queue' = queue \/ queue' = Append(queue, "connectDestroyed"))
        /\ UNCHANGED <<wants, connection, alive, cConnect, cState, channel, armed, due, pc, failed, dangling, otherPc>>
    BY DEF CallForceClose, OrphanCloses, Takes, clientVars, connectorVars, faultVars, callVars
  <1>2. SameQueue /\ SameBatch
    <2>1. /\ "connectDestroyed" \in Functors /\ "connectDestroyed" \notin ConnectorFunctors
          /\ "forceClose" \notin ConnectorFunctors
      BY DEF Functors, ConnectorFunctors
    <2>2. Drops("forceClose")
      BY <1>1, BatchDrops
    <2>. QED
      BY <1>1, <2>1, <2>2, QueueAdds, QueueSame, NotConnectors
  <1>3. OneWay'
    BY <1>1, <1>2
    DEF ClientInv, OneWay, Queued, Calling, Asked, Waiting, Attempting, Up, Restarting,
        SameQueue, SameBatch, Adds, Drops, ConnectorFunctors
  <1>4. StateSound'
    BY <1>1, <1>2
    DEF ClientInv, OneWay, StateSound, Queued, Calling, Asked, Waiting, Attempting, Up, Restarting,
        SameQueue, SameBatch, Adds, Drops, ConnectorFunctors
  <1>5. RemovedSound'
    BY <1>1, <1>2
    DEF ClientInv, OneWay, StateSound, DueSound, RemovedSound, Queued, Calling, Asked, Waiting, Attempting, Up, Restarting,
        SameQueue, SameBatch, Adds, Drops, ConnectorFunctors
  <1>6. DueSound'
    BY <1>1, <1>2
    DEF ClientInv, OneWay, DueSound, Queued, Calling, Asked, Waiting, Attempting, Up, Restarting,
        SameQueue, SameBatch, Adds, Drops, ConnectorFunctors
  <1>7. StopQueuedSound'
    BY <1>1, <1>2
    DEF ClientInv, OneWay, StateSound, StopQueuedSound, Queued, Calling, Asked, Waiting, Attempting, Up, Restarting,
        SameQueue, SameBatch, Adds, Drops, ConnectorFunctors
  <1>8. DestroyedSound'
    BY <1>1, <1>2
    DEF ClientInv, OneWay, DestroyedSound, Queued, Calling, Asked, Waiting, Attempting, Up, Restarting,
        SameQueue, SameBatch, Adds, Drops, ConnectorFunctors
  <1>9. ~failed' /\ ~dangling'
    BY <1>1, <1>2 DEF ClientInv
  <1>10. ChannelSound'
    BY <1>9, ChannelSound_Next DEF ClientInv, Next, LoopStep, OtherStep, Calls
  <1>. QED
    BY <1>3, <1>4, <1>5, <1>6, <1>7, <1>8, <1>9, <1>10 DEF ClientInv

LEMMA CallConnectDestroyed_ClientInv ==
  ASSUME Typed, ClientInv, CallConnectDestroyed
  PROVE  ClientInv'
  <1>1. /\ pc = "functors" /\ Takes("connectDestroyed")
        /\ UNCHANGED <<wants, connection, alive, orphan, cConnect, cState, channel, armed, queue, due, pc, failed, dangling, otherPc>>
    BY DEF CallConnectDestroyed, Takes, clientVars, connectorVars, faultVars, callVars
  <1>2. SameQueue /\ SameBatch
    <2>1. "connectDestroyed" \notin ConnectorFunctors
      BY DEF ConnectorFunctors
    <2>2. Drops("connectDestroyed")
      BY <1>1, BatchDrops
    <2>. QED
      BY <1>1, <2>1, <2>2, QueueSame, NotConnectors
  <1>3. OneWay'
    BY <1>1, <1>2
    DEF ClientInv, OneWay, Queued, Calling, Asked, Waiting, Attempting, Up, Restarting,
        SameQueue, SameBatch, Adds, Drops, ConnectorFunctors
  <1>4. StateSound'
    BY <1>1, <1>2
    DEF ClientInv, OneWay, StateSound, Queued, Calling, Asked, Waiting, Attempting, Up, Restarting,
        SameQueue, SameBatch, Adds, Drops, ConnectorFunctors
  <1>5. RemovedSound'
    BY <1>1, <1>2
    DEF ClientInv, OneWay, StateSound, DueSound, RemovedSound, Queued, Calling, Asked, Waiting, Attempting, Up, Restarting,
        SameQueue, SameBatch, Adds, Drops, ConnectorFunctors
  <1>6. DueSound'
    BY <1>1, <1>2
    DEF ClientInv, OneWay, DueSound, Queued, Calling, Asked, Waiting, Attempting, Up, Restarting,
        SameQueue, SameBatch, Adds, Drops, ConnectorFunctors
  <1>7. StopQueuedSound'
    BY <1>1, <1>2
    DEF ClientInv, OneWay, StateSound, StopQueuedSound, Queued, Calling, Asked, Waiting, Attempting, Up, Restarting,
        SameQueue, SameBatch, Adds, Drops, ConnectorFunctors
  <1>8. DestroyedSound'
    BY <1>1, <1>2
    DEF ClientInv, OneWay, DestroyedSound, Queued, Calling, Asked, Waiting, Attempting, Up, Restarting,
        SameQueue, SameBatch, Adds, Drops, ConnectorFunctors
  <1>9. ~failed' /\ ~dangling'
    BY <1>1, <1>2 DEF ClientInv
  <1>10. ChannelSound'
    BY <1>9, ChannelSound_Next DEF ClientInv, Next, LoopStep, OtherStep, Calls
  <1>. QED
    BY <1>3, <1>4, <1>5, <1>6, <1>7, <1>8, <1>9, <1>10 DEF ClientInv

LEMMA LoopConnect_ClientInv ==
  ASSUME Typed, ClientInv, LoopConnect, ~HastyConnect
  PROVE  ClientInv'
  <1>1. /\ alive /\ pc # "restart" /\ MayConnect /\ wants' = TRUE /\ cConnect' = TRUE
        /\ StartInLoop(cState, TRUE, armed)
        /\ UNCHANGED <<connection, alive, orphan, queue, batch, due, pc, dangling, otherPc>>
    BY DEF LoopConnect, loopVars
  <1>2. SameQueue /\ SameBatch
    BY <1>1, QueueSame, BatchSame
  <1>3. /\ ~Calling /\ ~Asked /\ ~Waiting /\ ~Attempting /\ ~Up /\ ~Restarting
        /\ ~Queued("stopInLoop") /\ cState = "Disconnected" /\ channel = "none" /\ armed = 0
    BY <1>1, QuietFacts
  <1>4. Starts(TRUE)
    BY <1>1, <1>3, StartsWell DEF ClientInv
  <1>5. OneWay'
    BY <1>1, <1>2, <1>3, <1>4
    DEF ClientInv, Starts, OneWay, Queued, Calling, Asked, Waiting, Attempting, Up, Restarting,
        SameQueue, SameBatch, Adds, Drops, ConnectorFunctors
  <1>6. StateSound'
    BY <1>1, <1>2, <1>3, <1>4
    DEF ClientInv, Starts, OneWay, StateSound, Queued, Calling, Asked, Waiting, Attempting, Up, Restarting,
        SameQueue, SameBatch, Adds, Drops, ConnectorFunctors
  <1>7. RemovedSound'
    BY <1>1, <1>2, <1>3, <1>4
    DEF ClientInv, Starts, OneWay, StateSound, DueSound, RemovedSound, Queued, Calling, Asked, Waiting, Attempting, Up, Restarting,
        SameQueue, SameBatch, Adds, Drops, ConnectorFunctors
  <1>8. DueSound'
    BY <1>1, <1>2, <1>3, <1>4
    DEF ClientInv, Starts, OneWay, DueSound, Queued, Calling, Asked, Waiting, Attempting, Up, Restarting,
        SameQueue, SameBatch, Adds, Drops, ConnectorFunctors
  <1>9. StopQueuedSound'
    BY <1>1, <1>2, <1>3, <1>4
    DEF ClientInv, Starts, OneWay, StateSound, StopQueuedSound, Queued, Calling, Asked, Waiting, Attempting, Up, Restarting,
        SameQueue, SameBatch, Adds, Drops, ConnectorFunctors
  <1>10. DestroyedSound'
    BY <1>1, <1>2, <1>3, <1>4
    DEF ClientInv, Starts, OneWay, DestroyedSound, Queued, Calling, Asked, Waiting, Attempting, Up, Restarting,
        SameQueue, SameBatch, Adds, Drops, ConnectorFunctors
  <1>11. ~failed' /\ ~dangling'
    BY <1>1, <1>2, <1>3, <1>4 DEF ClientInv, Starts
  <1>12. ChannelSound'
    BY <1>11, ChannelSound_Next DEF ClientInv, Next, LoopStep, OtherStep, Calls
  <1>. QED
    BY <1>5, <1>6, <1>7, <1>8, <1>9, <1>10, <1>11, <1>12 DEF ClientInv

LEMMA LoopStop_ClientInv ==
  ASSUME Typed, ClientInv, LoopStop
  PROVE  ClientInv'
  <1>1. /\ alive /\ pc # "restart" /\ otherPc = "idle" /\ wants' = FALSE /\ cConnect' = FALSE
        /\ queue' = Append(queue, "stopInLoop")
        /\ UNCHANGED <<connection, alive, orphan, cState, channel, armed, batch, due, pc, failed, dangling, otherPc>>
    BY DEF LoopStop, faultVars
  <1>2. Adds("stopInLoop") /\ SameBatch
    BY <1>1, QueueAdds, BatchSame DEF Functors, ConnectorFunctors
  <1>3. OneWay'
    BY <1>1, <1>2
    DEF ClientInv, OneWay, Queued, Calling, Asked, Waiting, Attempting, Up, Restarting,
        SameQueue, SameBatch, Adds, Drops, ConnectorFunctors
  <1>4. StateSound'
    BY <1>1, <1>2
    DEF ClientInv, OneWay, StateSound, Queued, Calling, Asked, Waiting, Attempting, Up, Restarting,
        SameQueue, SameBatch, Adds, Drops, ConnectorFunctors
  <1>5. RemovedSound'
    BY <1>1, <1>2
    DEF ClientInv, OneWay, StateSound, DueSound, RemovedSound, Queued, Calling, Asked, Waiting, Attempting, Up, Restarting,
        SameQueue, SameBatch, Adds, Drops, ConnectorFunctors
  <1>6. DueSound'
    BY <1>1, <1>2
    DEF ClientInv, OneWay, DueSound, Queued, Calling, Asked, Waiting, Attempting, Up, Restarting,
        SameQueue, SameBatch, Adds, Drops, ConnectorFunctors
  <1>7. StopQueuedSound'
    BY <1>1, <1>2
    DEF ClientInv, OneWay, StateSound, StopQueuedSound, Queued, Calling, Asked, Waiting, Attempting, Up, Restarting,
        SameQueue, SameBatch, Adds, Drops, ConnectorFunctors
  <1>8. DestroyedSound'
    BY <1>1, <1>2
    DEF ClientInv, OneWay, DestroyedSound, Queued, Calling, Asked, Waiting, Attempting, Up, Restarting,
        SameQueue, SameBatch, Adds, Drops, ConnectorFunctors
  <1>9. ~failed' /\ ~dangling'
    BY <1>1, <1>2 DEF ClientInv
  <1>10. ChannelSound'
    BY <1>9, ChannelSound_Next DEF ClientInv, Next, LoopStep, OtherStep, Calls
  <1>. QED
    BY <1>3, <1>4, <1>5, <1>6, <1>7, <1>8, <1>9, <1>10 DEF ClientInv

LEMMA Destroy_ClientInv ==
  ASSUME Typed, ClientInv, Destroy, ~DestroyEarly
  PROVE  ClientInv'
  <1>1. /\ alive /\ pc # "restart" /\ otherPc = "idle" /\ alive' = FALSE /\ connection' = "none"
        /\ UNCHANGED <<wants, cState, channel, armed, batch, due, pc, failed, otherPc>>
    BY DEF Destroy, callVars
  <1>2. \/ /\ connection = "up" /\ cConnect' = cConnect /\ dangling' = FALSE
           /\ (queue' = queue \/ queue' = Append(queue, "forceClose"))
        \/ /\ cConnect' = FALSE /\ queue' = Append(queue, "stopInLoop") /\ dangling' = dangling
    BY DEF Destroy
  <1>3. \/ connection = "up" /\ cConnect' = cConnect /\ ~dangling' /\ SameQueue
        \/ cConnect' = FALSE /\ Adds("stopInLoop") /\ dangling' = dangling
    <2>1. /\ "forceClose" \in Functors /\ "stopInLoop" \in Functors
          /\ "forceClose" \notin ConnectorFunctors
      BY DEF Functors, ConnectorFunctors
    <2>. QED
      BY <1>2, <2>1, QueueAdds, QueueSame, NotConnectors
  <1>4. SameBatch
    BY <1>1, BatchSame
  <1>5. OneWay'
    BY <1>1, <1>2, <1>3, <1>4
    DEF ClientInv, OneWay, Queued, Calling, Asked, Waiting, Attempting, Up, Restarting,
        SameQueue, SameBatch, Adds, Drops, ConnectorFunctors
  <1>6. StateSound'
    BY <1>1, <1>2, <1>3, <1>4
    DEF ClientInv, OneWay, StateSound, Queued, Calling, Asked, Waiting, Attempting, Up, Restarting,
        SameQueue, SameBatch, Adds, Drops, ConnectorFunctors
  <1>7. RemovedSound'
    BY <1>1, <1>2, <1>3, <1>4
    DEF ClientInv, OneWay, StateSound, DueSound, RemovedSound, Queued, Calling, Asked, Waiting, Attempting, Up, Restarting,
        SameQueue, SameBatch, Adds, Drops, ConnectorFunctors
  <1>8. DueSound'
    BY <1>1, <1>2, <1>3, <1>4
    DEF ClientInv, OneWay, DueSound, Queued, Calling, Asked, Waiting, Attempting, Up, Restarting,
        SameQueue, SameBatch, Adds, Drops, ConnectorFunctors
  <1>9. StopQueuedSound'
    BY <1>1, <1>2, <1>3, <1>4
    DEF ClientInv, OneWay, StateSound, StopQueuedSound, Queued, Calling, Asked, Waiting, Attempting, Up, Restarting,
        SameQueue, SameBatch, Adds, Drops, ConnectorFunctors
  <1>10. DestroyedSound'
    BY <1>1, <1>2, <1>3, <1>4
    DEF ClientInv, OneWay, DestroyedSound, Queued, Calling, Asked, Waiting, Attempting, Up, Restarting,
        SameQueue, SameBatch, Adds, Drops, ConnectorFunctors
  <1>11. ~failed' /\ ~dangling'
    BY <1>1, <1>2, <1>3, <1>4 DEF ClientInv
  <1>12. ChannelSound'
    BY <1>11, ChannelSound_Next DEF ClientInv, Next, LoopStep, OtherStep, Calls
  <1>. QED
    BY <1>5, <1>6, <1>7, <1>8, <1>9, <1>10, <1>11, <1>12 DEF ClientInv

LEMMA OtherConnect_ClientInv ==
  ASSUME Typed, ClientInv, OtherConnect, ~HastyConnect
  PROVE  ClientInv'
  <1>1. /\ alive /\ otherPc = "idle" /\ otherPc' = "start" /\ MayConnect /\ wants' = TRUE
        /\ UNCHANGED <<connection, alive, orphan, cConnect, cState, channel, armed, queue, batch, due, pc, failed, dangling>>
    BY DEF OtherConnect, OtherGoes, connectorVars, loopVars, faultVars
  <1>2. SameQueue /\ SameBatch
    BY <1>1, QueueSame, BatchSame
  <1>3. /\ ~Calling /\ ~Asked /\ ~Waiting /\ ~Attempting /\ ~Up /\ ~Restarting
        /\ ~Queued("stopInLoop") /\ cState = "Disconnected" /\ channel = "none" /\ armed = 0
    BY <1>1, QuietFacts
  <1>4. OneWay'
    BY <1>1, <1>2, <1>3
    DEF ClientInv, OneWay, Queued, Calling, Asked, Waiting, Attempting, Up, Restarting,
        SameQueue, SameBatch, Adds, Drops, ConnectorFunctors
  <1>5. StateSound'
    BY <1>1, <1>2, <1>3
    DEF ClientInv, OneWay, StateSound, Queued, Calling, Asked, Waiting, Attempting, Up, Restarting,
        SameQueue, SameBatch, Adds, Drops, ConnectorFunctors
  <1>6. RemovedSound'
    BY <1>1, <1>2, <1>3
    DEF ClientInv, OneWay, StateSound, DueSound, RemovedSound, Queued, Calling, Asked, Waiting, Attempting, Up, Restarting,
        SameQueue, SameBatch, Adds, Drops, ConnectorFunctors
  <1>7. DueSound'
    BY <1>1, <1>2, <1>3
    DEF ClientInv, OneWay, DueSound, Queued, Calling, Asked, Waiting, Attempting, Up, Restarting,
        SameQueue, SameBatch, Adds, Drops, ConnectorFunctors
  <1>8. StopQueuedSound'
    BY <1>1, <1>2, <1>3
    DEF ClientInv, OneWay, StateSound, StopQueuedSound, Queued, Calling, Asked, Waiting, Attempting, Up, Restarting,
        SameQueue, SameBatch, Adds, Drops, ConnectorFunctors
  <1>9. DestroyedSound'
    BY <1>1, <1>2, <1>3
    DEF ClientInv, OneWay, DestroyedSound, Queued, Calling, Asked, Waiting, Attempting, Up, Restarting,
        SameQueue, SameBatch, Adds, Drops, ConnectorFunctors
  <1>10. ~failed' /\ ~dangling'
    BY <1>1, <1>2, <1>3 DEF ClientInv
  <1>11. ChannelSound'
    BY <1>10, ChannelSound_Next DEF ClientInv, Next, LoopStep, OtherStep, Calls
  <1>. QED
    BY <1>4, <1>5, <1>6, <1>7, <1>8, <1>9, <1>10, <1>11 DEF ClientInv

LEMMA OtherSetConnect_ClientInv ==
  ASSUME Typed, ClientInv, OtherSetConnect, StopSound
  PROVE  ClientInv'
  <1>1. /\ otherPc = "start" /\ otherPc' = "queueStart" /\ cConnect' = TRUE
        /\ UNCHANGED <<wants, connection, alive, orphan, cState, channel, armed, queue, batch, due, pc, failed, dangling>>
    BY DEF OtherSetConnect, OtherGoes, StopSound, clientVars, loopVars, faultVars
  <1>2. SameQueue /\ SameBatch
    BY <1>1, QueueSame, BatchSame
  <1>3. OneWay'
    BY <1>1, <1>2
    DEF ClientInv, OneWay, Queued, Calling, Asked, Waiting, Attempting, Up, Restarting,
        SameQueue, SameBatch, Adds, Drops, ConnectorFunctors
  <1>4. StateSound'
    BY <1>1, <1>2
    DEF ClientInv, OneWay, StateSound, Queued, Calling, Asked, Waiting, Attempting, Up, Restarting,
        SameQueue, SameBatch, Adds, Drops, ConnectorFunctors
  <1>5. RemovedSound'
    BY <1>1, <1>2
    DEF ClientInv, OneWay, StateSound, DueSound, RemovedSound, Queued, Calling, Asked, Waiting, Attempting, Up, Restarting,
        SameQueue, SameBatch, Adds, Drops, ConnectorFunctors
  <1>6. DueSound'
    BY <1>1, <1>2
    DEF ClientInv, OneWay, DueSound, Queued, Calling, Asked, Waiting, Attempting, Up, Restarting,
        SameQueue, SameBatch, Adds, Drops, ConnectorFunctors
  <1>7. StopQueuedSound'
    BY <1>1, <1>2
    DEF ClientInv, OneWay, StateSound, StopQueuedSound, Queued, Calling, Asked, Waiting, Attempting, Up, Restarting,
        SameQueue, SameBatch, Adds, Drops, ConnectorFunctors
  <1>8. DestroyedSound'
    BY <1>1, <1>2
    DEF ClientInv, OneWay, DestroyedSound, Queued, Calling, Asked, Waiting, Attempting, Up, Restarting,
        SameQueue, SameBatch, Adds, Drops, ConnectorFunctors
  <1>9. ~failed' /\ ~dangling'
    BY <1>1, <1>2 DEF ClientInv
  <1>10. ChannelSound'
    BY <1>9, ChannelSound_Next DEF ClientInv, Next, LoopStep, OtherStep, Calls
  <1>. QED
    BY <1>3, <1>4, <1>5, <1>6, <1>7, <1>8, <1>9, <1>10 DEF ClientInv

LEMMA OtherQueues_ClientInv ==
  ASSUME Typed, ClientInv, OtherQueues, StopSound
  PROVE  ClientInv'
  <1>1. /\ otherPc = "queueStart" /\ otherPc' = "idle" /\ queue' = Append(queue, "startInLoop")
        /\ UNCHANGED <<wants, connection, alive, orphan, cConnect, cState, channel, armed, batch, due, pc, failed, dangling>>
    BY DEF OtherQueues, OtherGoes, StopSound, clientVars, connectorVars, faultVars
  <1>2. Adds("startInLoop") /\ SameBatch
    BY <1>1, QueueAdds, BatchSame DEF Functors, ConnectorFunctors
  <1>3. OneWay'
    BY <1>1, <1>2
    DEF ClientInv, OneWay, Queued, Calling, Asked, Waiting, Attempting, Up, Restarting,
        SameQueue, SameBatch, Adds, Drops, ConnectorFunctors
  <1>4. StateSound'
    BY <1>1, <1>2
    DEF ClientInv, OneWay, StateSound, Queued, Calling, Asked, Waiting, Attempting, Up, Restarting,
        SameQueue, SameBatch, Adds, Drops, ConnectorFunctors
  <1>5. RemovedSound'
    BY <1>1, <1>2
    DEF ClientInv, OneWay, StateSound, DueSound, RemovedSound, Queued, Calling, Asked, Waiting, Attempting, Up, Restarting,
        SameQueue, SameBatch, Adds, Drops, ConnectorFunctors
  <1>6. DueSound'
    BY <1>1, <1>2
    DEF ClientInv, OneWay, DueSound, Queued, Calling, Asked, Waiting, Attempting, Up, Restarting,
        SameQueue, SameBatch, Adds, Drops, ConnectorFunctors
  <1>7. StopQueuedSound'
    BY <1>1, <1>2
    DEF ClientInv, OneWay, StateSound, StopQueuedSound, Queued, Calling, Asked, Waiting, Attempting, Up, Restarting,
        SameQueue, SameBatch, Adds, Drops, ConnectorFunctors
  <1>8. DestroyedSound'
    BY <1>1, <1>2
    DEF ClientInv, OneWay, DestroyedSound, Queued, Calling, Asked, Waiting, Attempting, Up, Restarting,
        SameQueue, SameBatch, Adds, Drops, ConnectorFunctors
  <1>9. ~failed' /\ ~dangling'
    BY <1>1, <1>2 DEF ClientInv
  <1>10. ChannelSound'
    BY <1>9, ChannelSound_Next DEF ClientInv, Next, LoopStep, OtherStep, Calls
  <1>. QED
    BY <1>3, <1>4, <1>5, <1>6, <1>7, <1>8, <1>9, <1>10 DEF ClientInv

LEMMA Disconnect_ClientInv ==
  ASSUME Typed, ClientInv, Disconnect
  PROVE  ClientInv'
  <1>1. /\ alive /\ wants' = FALSE
        /\ UNCHANGED <<connection, alive, orphan, cConnect, cState, channel, armed, queue, batch, due, pc, failed, dangling, otherPc>>
    BY DEF Disconnect, connectorVars, loopVars, faultVars, callVars
  <1>2. SameQueue /\ SameBatch
    BY <1>1, QueueSame, BatchSame
  <1>3. OneWay'
    BY <1>1, <1>2
    DEF ClientInv, OneWay, Queued, Calling, Asked, Waiting, Attempting, Up, Restarting,
        SameQueue, SameBatch, Adds, Drops, ConnectorFunctors
  <1>4. StateSound'
    BY <1>1, <1>2
    DEF ClientInv, OneWay, StateSound, Queued, Calling, Asked, Waiting, Attempting, Up, Restarting,
        SameQueue, SameBatch, Adds, Drops, ConnectorFunctors
  <1>5. RemovedSound'
    BY <1>1, <1>2
    DEF ClientInv, OneWay, StateSound, DueSound, RemovedSound, Queued, Calling, Asked, Waiting, Attempting, Up, Restarting,
        SameQueue, SameBatch, Adds, Drops, ConnectorFunctors
  <1>6. DueSound'
    BY <1>1, <1>2
    DEF ClientInv, OneWay, DueSound, Queued, Calling, Asked, Waiting, Attempting, Up, Restarting,
        SameQueue, SameBatch, Adds, Drops, ConnectorFunctors
  <1>7. StopQueuedSound'
    BY <1>1, <1>2
    DEF ClientInv, OneWay, StateSound, StopQueuedSound, Queued, Calling, Asked, Waiting, Attempting, Up, Restarting,
        SameQueue, SameBatch, Adds, Drops, ConnectorFunctors
  <1>8. DestroyedSound'
    BY <1>1, <1>2
    DEF ClientInv, OneWay, DestroyedSound, Queued, Calling, Asked, Waiting, Attempting, Up, Restarting,
        SameQueue, SameBatch, Adds, Drops, ConnectorFunctors
  <1>9. ~failed' /\ ~dangling'
    BY <1>1, <1>2 DEF ClientInv
  <1>10. ChannelSound'
    BY <1>9, ChannelSound_Next DEF ClientInv, Next, LoopStep, OtherStep, Calls
  <1>. QED
    BY <1>3, <1>4, <1>5, <1>6, <1>7, <1>8, <1>9, <1>10 DEF ClientInv

LEMMA Next_ClientInv ==
  ASSUME Typed, StopSound, ClientInv, [Next]_vars, ~HastyConnect, ~StopElsewhere, ~DestroyEarly
  PROVE  ClientInv'
  <1>1. CASE LoopStep
    BY <1>1, Poll_ClientInv, TimerFires_ClientInv,
       ChannelEvent_ClientInv, RemoveConnection_ClientInv,
       Restart_ClientInv, OrphanEvent_ClientInv,
       SwapPendingFunctors_ClientInv, EndFunctors_ClientInv,
       CallStartInLoop_ClientInv, CallStopInLoop_ClientInv,
       CallResetChannel_ClientInv, CallForceClose_ClientInv,
       CallConnectDestroyed_ClientInv
    DEF LoopStep
  <1>2. CASE OtherStep
    BY <1>2, OtherSetConnect_ClientInv, OtherQueues_ClientInv DEF OtherStep
  <1>3. CASE Calls
    <2>1. ~OtherStop
      BY DEF OtherStop
    <2>. QED
      BY <1>3, <2>1, LoopConnect_ClientInv, LoopStop_ClientInv, Destroy_ClientInv,
         OtherConnect_ClientInv, Disconnect_ClientInv
      DEF Calls
  <1>4. CASE UNCHANGED vars
    BY <1>4
    DEF vars, clientVars, connectorVars, loopVars, faultVars, callVars, ClientInv, OneWay,
        StateSound, RemovedSound, DueSound, StopQueuedSound, DestroyedSound, ChannelSound, Queued, Calling, Asked, Waiting, Attempting, Up, Restarting
  <1>. QED
    BY <1>1, <1>2, <1>3, <1>4 DEF Next

LEMMA ClientInv_ClientSound == ASSUME ClientInv PROVE ClientSound
  <1>1. Ways <= 1
    <2>1. /\ armed \in {0, 1} /\ (Asked <=> Pending("startInLoop"))
      BY PendingIsQueued DEF ClientInv, OneWay, Asked
    <2>. QED
      BY <2>1 DEF Ways, ClientInv, OneWay, Waiting, Attempting, Up
  <1>2. channel = "live" <=> cState = "Connecting"
    BY DEF ClientInv, StateSound, ChannelSound, Attempting
  <1>3. channel = "removed" <=> Pending("resetChannel")
    BY PendingIsQueued DEF ClientInv, RemovedSound, ChannelSound, Queued
  <1>. QED
    BY <1>1, <1>2, <1>3 DEF ClientSound, ClientInv

\* The client makes one connection at a time, by one attempt or one timer, its
\* connector's state is that of its channel and no assertion of the two fails:
\* for any number of connect(), stop() and disconnect(), if connect() is called
\* again only when nothing is under way, no other thread calls stop() and the
\* client does not die while its connector has a functor queued
\* (Connector.cc:51, 133, 195; TcpClient.cc:171).
THEOREM ClientCorrect ==
  ASSUME ~HastyConnect, ~StopElsewhere, ~DestroyEarly
  PROVE  Spec => []ClientSound
  <1>1. IInv /\ ClientInv /\ [Next]_vars => IInv' /\ ClientInv'
    BY Next_IInv, Next_ClientInv DEF IInv
  <1>. QED
    BY <1>1, Init_IInv, Init_ClientInv, ClientInv_ClientSound, PTL DEF Spec
=============================================================================
