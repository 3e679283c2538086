----------------------------- MODULE TcpClient -----------------------------
(***************************************************************************)
(* A TcpClient and its Connector in one loop: connect() tries until the    *)
(* server takes the connection, a connection that was lost is made again   *)
(* (enableRetry), stop(), disconnect() and the destructor end it.          *)
(*                                                                         *)
(* The loop thread polls, handles what is ready and then calls the batch   *)
(* of queued functors.  The program calls the client in the loop thread    *)
(* between two of these steps, and from one other thread.  What a          *)
(* connection does between its establishment and its end is the module     *)
(* TcpConnection's matter.                                                 *)
(***************************************************************************)
EXTENDS Naturals, Sequences

CONSTANTS
    MaxConnects,     \* bound on the calls of connect()
    HastyConnect,    \* may connect() be called again before all is quiet?
    StopElsewhere,   \* may the other thread call stop()?
    DestroyEarly     \* may the client die while functors of its connector are queued?

ASSUME TcpClientAssumption ==
    /\ MaxConnects \in Nat
    /\ {HastyConnect, StopElsewhere, DestroyEarly} \subseteq BOOLEAN

VARIABLES
    retry, wants,    \* TcpClient's retry_ and connect_
    connection,      \* connection_: "none" or "up"
    alive,           \* the TcpClient exists
    orphan,          \* a connection that outlives the client
    cConnect,        \* Connector's connect_
    cState,          \* Connector's state_
    channel,         \* channel_: "none", "live", or "removed" from the loop
    armed,           \* timers that will call startInLoop
    queue, batch,    \* the functors queued, and those being called
    due,             \* what poll reported and is not handled
    pc,              \* of the loop: "poll", "events", "restart", "functors"
    otherPc,         \* of the other thread: "idle" or the call it is in
    connects,        \* calls of connect() so far
    stopped,         \* history: stop() was called, and no connect() after it
    gaveUp,          \* history: connect(2) failed for good
    failed,          \* an assertion failed
    dangling         \* a callback reached a destroyed TcpClient or Connector

clientVars == <<retry, wants, connection, alive, orphan>>
connectorVars == <<cConnect, cState, channel, armed, gaveUp>>
loopVars == <<queue, batch, due, pc>>
faultVars == <<failed, dangling>>
callVars == <<otherPc, connects, stopped>>
vars == <<clientVars, connectorVars, loopVars, faultVars, callVars>>

Init ==
    /\ retry \in BOOLEAN /\ wants = TRUE
    /\ connection = "none" /\ alive = TRUE /\ orphan = FALSE
    /\ cConnect = FALSE /\ cState = "Disconnected" /\ channel = "none"
    /\ armed = 0 /\ gaveUp = FALSE
    /\ queue = <<>> /\ batch = <<>> /\ due = {} /\ pc = "poll"
    /\ otherPc = "idle" /\ connects = 0 /\ stopped = FALSE
    /\ failed = FALSE /\ dangling = FALSE

Pending(f) == \E q \in {queue, batch} : \E i \in 1..Len(q) : q[i] = f

\* What the functors bound to the raw pointer of the connector are
ConnectorFunctors == {"startInLoop", "stopInLoop", "resetChannel"}

\* The connector is doing nothing and nothing is left for it to do.
Quiet ==
    /\ cState = "Disconnected" /\ armed = 0 /\ otherPc = "idle"
    /\ \A f \in ConnectorFunctors : ~Pending(f)

\* A careful program calls connect() for the first time, or when all is quiet.
MayConnect == connects < MaxConnects /\ (HastyConnect \/ Quiet)
-----------------------------------------------------------------------------
(* Connector *)

\* Mutation of Retry: the timer is not armed.
RetryOnce(timers, want) ==
    /\ cState' = "Disconnected"
    /\ armed' = timers

\* retry, with timers armed already and connect_ as it is then; the delay,
\* which doubles, is left out.
Retry(timers, want) ==
    /\ cState' = "Disconnected"
    /\ armed' = timers + (IF want THEN 1 ELSE 0)

Connecting(timers) ==
    /\ cState' = "Connecting"
    /\ channel' = "live"
    /\ failed' = (channel # "none")
    /\ armed' = timers
    /\ UNCHANGED gaveUp

\* connect(2) is under way, failed for now, or failed for good.
Connect(timers) ==
    \/ Connecting(timers)
    \/ Retry(timers, TRUE) /\ UNCHANGED <<channel, gaveUp, failed>>
    \/ /\ gaveUp' = TRUE
       /\ cState' = "Disconnected" /\ armed' = timers
       /\ UNCHANGED <<channel, failed>>

StartInLoop(state, want, timers) ==
    \/ /\ state # "Disconnected"
       /\ failed' = TRUE
       /\ UNCHANGED <<cState, channel, armed, gaveUp>>
    \/ /\ state = "Disconnected" /\ want
       /\ Connect(timers)
    \/ /\ state = "Disconnected" /\ ~want
       /\ cState' = state /\ armed' = timers
       /\ UNCHANGED <<channel, gaveUp, failed>>

RemoveAndResetChannel ==
    /\ channel' = "removed"
    /\ queue' = Append(queue, "resetChannel")

StopInLoop ==
    IF cState = "Connecting"
    THEN RemoveAndResetChannel /\ Retry(armed, cConnect)
    ELSE UNCHANGED <<channel, queue, cState, armed>>

ResetChannel == channel' = "none"

\* An attempt failed: the socket reports an error, or handleWrite finds
\* SO_ERROR set or the socket connected to itself.
AttemptFails ==
    /\ RemoveAndResetChannel
    /\ Retry(armed, cConnect)
    /\ UNCHANGED <<connection, dangling>>

\* handleWrite: the attempt succeeded.
AttemptSucceeds ==
    /\ RemoveAndResetChannel
    /\ cState' = "Connected" /\ UNCHANGED armed
    /\ IF cConnect
       THEN connection' = "up" /\ dangling' = ~alive
       ELSE UNCHANGED <<connection, dangling>>
-----------------------------------------------------------------------------
(* The loop *)

Ready == {e \in {"timer", "channel", "connection"} :
            \/ e = "timer" /\ armed > 0
            \/ e = "channel" /\ channel = "live"
            \/ e = "connection" /\ (connection = "up" \/ orphan)}

Poll ==
    /\ pc = "poll"
    /\ due' \in SUBSET Ready /\ (due' # {} \/ queue # <<>>)
    /\ pc' = "events"
    /\ UNCHANGED <<clientVars, connectorVars, queue, batch, faultVars, callVars>>

Handles(e) == pc = "events" /\ e \in due /\ due' = due \ {e}

TimerFires ==
    /\ Handles("timer")
    /\ StartInLoop(cState, cConnect, armed - 1)
    /\ UNCHANGED <<clientVars, cConnect, queue, batch, pc, dangling, callVars>>

\* handleError, which leaves nothing for the handleWrite of the same event to
\* do, or handleWrite alone
ChannelEvent ==
    /\ Handles("channel")
    /\ IF cState = "Connecting"
       THEN (AttemptFails \/ AttemptSucceeds) /\ UNCHANGED failed
       ELSE /\ failed' = (cState # "Disconnected")
            /\ UNCHANGED <<connection, dangling, cState, channel, armed, queue>>
    /\ UNCHANGED <<retry, wants, alive, orphan, cConnect, gaveUp, batch, pc, callVars>>

\* Mutation of RemoveConnection: connect_ is not looked at.
RemoveConnectionIfRetry ==
    /\ Handles("connection")
    /\ connection = "up"
    /\ connection' = "none"
    /\ queue' = Append(queue, "connectDestroyed")
    /\ pc' = IF retry THEN "restart" ELSE pc
    /\ dangling' = ~alive
    /\ UNCHANGED <<retry, wants, alive, orphan, connectorVars, batch, failed, callVars>>

\* The connection ends: handleClose calls TcpClient::removeConnection, which
\* looks at connect_ before it calls restart().
RemoveConnection ==
    /\ Handles("connection")
    /\ connection = "up"
    /\ connection' = "none"
    /\ queue' = Append(queue, "connectDestroyed")
    /\ pc' = IF retry /\ wants THEN "restart" ELSE pc
    /\ dangling' = ~alive
    /\ UNCHANGED <<retry, wants, alive, orphan, connectorVars, batch, failed, callVars>>

\* Mutation of Restart: without setState(kDisconnected).
RestartAsIs ==
    /\ pc = "restart" /\ pc' = "events"
    /\ cConnect' = TRUE
    /\ StartInLoop(cState, TRUE, armed)
    /\ UNCHANGED <<clientVars, queue, batch, due, dangling, callVars>>

\* restart(), in the same call of removeConnection
Restart ==
    /\ pc = "restart" /\ pc' = "events"
    /\ cConnect' = TRUE
    /\ StartInLoop("Disconnected", TRUE, armed)
    /\ UNCHANGED <<clientVars, queue, batch, due, dangling, callVars>>

\* The close callback that ~TcpClient has put in place
OrphanCloses ==
    /\ orphan' = FALSE
    /\ queue' = Append(queue, "connectDestroyed")
    /\ UNCHANGED <<retry, wants, connection, alive, connectorVars, faultVars, callVars>>

OrphanEvent ==
    /\ Handles("connection")
    /\ orphan /\ OrphanCloses
    /\ UNCHANGED <<batch, pc>>

SwapPendingFunctors ==
    /\ pc = "events" /\ due = {}
    /\ pc' = "functors"
    /\ batch' = queue /\ queue' = <<>>
    /\ UNCHANGED <<clientVars, connectorVars, due, faultVars, callVars>>

Takes(f) == pc = "functors" /\ batch # <<>> /\ Head(batch) = f /\ batch' = Tail(batch)

CallStartInLoop ==
    /\ Takes("startInLoop")
    /\ StartInLoop(cState, cConnect, armed)
    /\ UNCHANGED <<clientVars, cConnect, queue, due, pc, dangling, callVars>>

CallStopInLoop ==
    /\ Takes("stopInLoop")
    /\ StopInLoop
    /\ UNCHANGED <<clientVars, cConnect, gaveUp, due, pc, faultVars, callVars>>

CallResetChannel ==
    /\ Takes("resetChannel")
    /\ ResetChannel
    /\ UNCHANGED <<clientVars, cConnect, cState, armed, gaveUp, queue, due, pc, faultVars, callVars>>

CallForceClose ==
    /\ Takes("forceClose")
    /\ IF orphan
       THEN OrphanCloses
       ELSE UNCHANGED <<clientVars, connectorVars, queue, faultVars, callVars>>
    /\ UNCHANGED <<due, pc>>

CallConnectDestroyed ==
    /\ Takes("connectDestroyed")
    /\ UNCHANGED <<clientVars, connectorVars, queue, due, pc, faultVars, callVars>>

EndFunctors ==
    /\ pc = "functors" /\ batch = <<>>
    /\ pc' = "poll"
    /\ UNCHANGED <<clientVars, connectorVars, queue, batch, due, faultVars, callVars>>

LoopStep ==
    \/ Poll \/ TimerFires \/ ChannelEvent
    \/ RemoveConnection \/ Restart \/ OrphanEvent
    \/ SwapPendingFunctors \/ EndFunctors
    \/ CallStartInLoop \/ CallStopInLoop \/ CallResetChannel
    \/ CallForceClose \/ CallConnectDestroyed
-----------------------------------------------------------------------------
(* The program, in the loop thread *)

LoopConnect ==
    /\ alive /\ pc # "restart"
    /\ MayConnect /\ connects' = connects + 1
    /\ stopped' = FALSE
    /\ wants' = TRUE /\ cConnect' = TRUE
    /\ StartInLoop(cState, TRUE, armed)
    /\ UNCHANGED <<retry, connection, alive, orphan, loopVars, dangling, otherPc>>

LoopStop ==
    /\ alive /\ pc # "restart"
    /\ connects > 0 /\ otherPc = "idle" /\ ~stopped
    /\ stopped' = TRUE
    /\ wants' = FALSE /\ cConnect' = FALSE
    /\ queue' = Append(queue, "stopInLoop")
    /\ UNCHANGED <<retry, connection, alive, orphan, cState, channel, armed, gaveUp,
                   batch, due, pc, faultVars, otherPc, connects>>

\* ~TcpClient in the loop thread, one step there.  The connection is held by the
\* client alone (unique) or by the program too; without one the connector lives
\* on for a second.  (In another thread, where the loop may run between the
\* steps of the destructor, it is "not 100% safe", TcpClient.cc:89: not modelled.)
Destroy ==
    /\ alive /\ pc # "restart" /\ otherPc = "idle"
    /\ DestroyEarly \/ \A f \in ConnectorFunctors : ~Pending(f)
    /\ alive' = FALSE
    /\ connection' = "none"
    /\ IF connection = "up"
       THEN /\ orphan' = TRUE
            /\ \E unique \in BOOLEAN :
                 queue' = IF unique THEN Append(queue, "forceClose") ELSE queue
            /\ dangling' = (\E f \in ConnectorFunctors : Pending(f))
            /\ UNCHANGED cConnect
       ELSE /\ cConnect' = FALSE
            /\ queue' = Append(queue, "stopInLoop")
            /\ UNCHANGED <<orphan, dangling>>
    /\ UNCHANGED <<retry, wants, cState, channel, armed, gaveUp, batch, due, pc, failed, callVars>>
-----------------------------------------------------------------------------
(* The program, in another thread *)

OtherGoes(from, to) == otherPc = from /\ otherPc' = to

\* connect() and stop() set TcpClient's connect_, then the connector's, then
\* queue a functor.
OtherConnect ==
    /\ alive /\ OtherGoes("idle", "start")
    /\ MayConnect /\ connects' = connects + 1
    /\ stopped' = FALSE
    /\ wants' = TRUE
    /\ UNCHANGED <<retry, connection, alive, orphan, connectorVars, loopVars, faultVars>>

OtherStop ==
    /\ StopElsewhere /\ alive /\ connects > 0 /\ ~stopped /\ OtherGoes("idle", "stop")
    /\ wants' = FALSE
    /\ UNCHANGED <<retry, connection, alive, orphan, connectorVars, loopVars, faultVars, connects, stopped>>

OtherSetConnect ==
    /\ \/ OtherGoes("start", "queueStart") /\ cConnect' = TRUE
       \/ OtherGoes("stop", "queueStop") /\ cConnect' = FALSE
    /\ UNCHANGED <<clientVars, cState, channel, armed, gaveUp, loopVars, faultVars, connects, stopped>>

OtherQueues ==
    /\ \/ /\ OtherGoes("queueStart", "idle")
          /\ queue' = Append(queue, "startInLoop")
          /\ UNCHANGED stopped
       \/ /\ OtherGoes("queueStop", "idle")
          /\ queue' = Append(queue, "stopInLoop")
          /\ stopped' = TRUE
    /\ UNCHANGED <<clientVars, connectorVars, batch, due, pc, faultVars, connects>>

\* disconnect(), in either thread; the shutdown of the connection is
\* TcpConnection's matter.
Disconnect ==
    /\ alive /\ wants /\ connects > 0
    /\ wants' = FALSE
    /\ UNCHANGED <<retry, connection, alive, orphan, connectorVars, loopVars, faultVars, callVars>>

OtherStep == OtherSetConnect \/ OtherQueues
Calls ==
    \/ LoopConnect \/ LoopStop \/ Destroy
    \/ OtherConnect \/ OtherStop \/ Disconnect

Next == ~failed /\ (LoopStep \/ OtherStep \/ Calls)

Spec == Init /\ [][Next]_vars

(* The loop and the other thread are scheduled, and a server that keeps    *)
(* being tried takes a connection in the end.                              *)
FairSpec ==
    /\ Spec
    /\ WF_vars(LoopStep) /\ WF_vars(OtherStep)
    /\ SF_vars(TimerFires /\ cState' = "Connecting")
    /\ SF_vars(ChannelEvent /\ cState' = "Connected")
-----------------------------------------------------------------------------
(* Properties *)

\* What is on its way to a connection: a queued startInLoop, an armed timer,
\* an attempt, the connection itself
Ways == (IF Pending("startInLoop") THEN 1 ELSE 0) + armed
        + (IF channel = "live" THEN 1 ELSE 0) + (IF connection = "up" THEN 1 ELSE 0)

\* The client is making one connection at a time, by one attempt or one
\* timer; the connector's state is what its channel is, a channel that was
\* taken out of the loop is freed by exactly one functor, no assertion of
\* Connector and TcpClient fails and nobody calls back into a client that was
\* destroyed (Connector.cc:39, 51, 133, 195; TcpClient.cc:171).
ClientSound ==
    /\ ~failed /\ ~dangling
    /\ Ways <= 1
    /\ channel = "live" <=> cState = "Connecting"
    /\ channel = "removed" <=> Pending("resetChannel")

\* After stop() no attempt begins and no connection is established, whatever
\* is queued, armed or under way, until connect() is called again.
StopHolds ==
    [][stopped /\ stopped' =>
         /\ connection = "none" => connection' = "none"
         /\ channel = "none" => channel' = "none"]_vars

\* With enableRetry(), a client that is connecting or lost its connection gets
\* one, unless it is told to end or connect(2) fails for good.
Reconnects ==
    (retry /\ connects > 0) ~> (connection = "up" \/ ~wants \/ ~alive \/ gaveUp)
=============================================================================
