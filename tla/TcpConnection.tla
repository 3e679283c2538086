---------------------------- MODULE TcpConnection ----------------------------
(***************************************************************************)
(* One muduo::net::TcpConnection accepted by a TcpServer: its state        *)
(* machine, its Channel, its output buffer and socket, the functors posted *)
(* to its I/O loop, the map of connections of its server, the threads that *)
(* call it and the peer.                                                   *)
(*                                                                         *)
(* The I/O loop is EventLoop reduced to what it promises: poll, handle the *)
(* ready events of the channel, take the queued functors, run them in      *)
(* order.  A call of a user callback is a state of its own, callback, in   *)
(* which the user code may call the connection before it returns.  A       *)
(* foreign thread reads state_, writes it and posts its functor in         *)
(* separate steps, as the code does without a lock.                        *)
(*                                                                         *)
(* An assertion that fails is recorded in failed, and the program goes on  *)
(* as it does under NDEBUG.                                                *)
(***************************************************************************)
EXTENDS Naturals, Sequences, FiniteSets

CONSTANTS
    Threads,         \* threads other than the loops', holding a TcpConnectionPtr
    ForeignOps,      \* what they call: a subset of Operations
    LoopOps,         \* what the user's callbacks call
    SameLoop,        \* the I/O loop is the server's own loop (setThreadNum(0))
    ServerMayDie,    \* the TcpServer may be destroyed before the connection
    MsgLen,          \* bytes per message
    SndBuf,          \* bytes the socket's send buffer holds
    HighWaterMark,   \* highWaterMark_
    MaxSend,         \* bound on the calls of send()
    MaxClose,        \* bound on the calls of forceClose()
    MaxInput         \* bound on the messages the peer sends

Operations == {"send", "shutdown", "forceClose", "forceCloseWithDelay"}

LoopThread == "loop"

ASSUME TcpConnectionAssumption ==
    /\ IsFiniteSet(Threads) /\ LoopThread \notin Threads
    /\ ForeignOps \subseteq {"send", "shutdown", "forceClose"}
    /\ LoopOps \subseteq Operations
    /\ SameLoop \in BOOLEAN
    /\ ServerMayDie \in BOOLEAN
    /\ ServerMayDie => SameLoop      \* its functors hold a raw pointer to it
    /\ {MsgLen, SndBuf, HighWaterMark} \subseteq Nat \ {0}
    /\ {MaxSend, MaxClose, MaxInput} \subseteq Nat

VARIABLES
    state,              \* state_
    events,             \* channel_->events_
    addedToLoop,        \* channel_->addedToLoop_
    outputBuffer,       \* outputBuffer_, as bytes <<message, offset>>
    pendingFunctors,    \* of the I/O loop
    functors,           \* the batch doPendingFunctors runs
    phase,              \* of the I/O loop: "poll", "events", "functors"
    revents,            \* channel_->revents_ not yet dispatched
    callback,           \* the user callback the loop thread is in, or "none"
    connections,        \* the connection is in the server's connections_
    serverFunctors,     \* functors posted to the server's loop, if another one
    delayed,            \* a timer of forceCloseWithDelay is pending
    holds,              \* threads that hold a TcpConnectionPtr
    call,               \* call[t]: what thread t is in the middle of
    wire, taken,        \* bytes written to the socket; how many the peer has
    finSent,            \* shutdown(SHUT_WR) was done
    input,              \* the socket has data to read
    peer,               \* "open", "fin" (it closed) or "rst" (it reset)
    sockError,          \* SO_ERROR is set
    sent,               \* history: the thread of each accepted call of send()
    accepted,           \* history: bytes sendInLoop wrote or buffered
    owed,               \* history: messages its caller sent before shutdown()
    ups, messages, downs, \* history: user callbacks
    failed,             \* history: assertions that failed
    closes,             \* how often forceClose() was called
    received            \* how many messages the peer has sent

connVars == <<state, events, addedToLoop, outputBuffer>>
loopVars == <<pendingFunctors, functors, phase, revents, callback>>
ownerVars == <<connections, serverFunctors, delayed, holds>>
socketVars == <<wire, taken, finSent, input, peer, sockError>>
callbackVars == <<ups, messages, downs>>
sendVars == <<sent, accepted, owed>>
vars == <<connVars, loopVars, ownerVars, call, socketVars, callbackVars,
          sendVars, failed, closes, received>>

States == {"kConnecting", "kConnected", "kDisconnecting", "kDisconnected"}
Callbacks == {"up", "message", "writeComplete", "highWaterMark", "down", "destroyed"}
Methods == {"connectEstablished", "connectDestroyed", "sendInLoop", "shutdownInLoop",
            "forceCloseInLoop", "writeComplete", "highWaterMark"}
Asserts == {"connectEstablished", "handleClose", "erase", "remove"}

Bytes(m) == [i \in 1..MsgLen |-> <<m, i>>]
Functor(f, m) == [method |-> f, msg |-> m]
Post(f) == pendingFunctors' = Append(pendingFunctors, Functor(f, 0))
Lesser(a, b) == IF a <= b THEN a ELSE b
Elements(s) == {s[i] : i \in DOMAIN s}

\* Functors bound with a TcpConnectionPtr; sendInLoop and shutdownInLoop are
\* bound with a raw this.
Owning == Methods \ {"sendInLoop", "shutdownInLoop"}

\* Some shared_ptr keeps the connection alive: the server's map, a functor, the
\* guard of Channel::handleEvent or of a callback, a thread.
Alive ==
    \/ connections
    \/ \E f \in Elements(pendingFunctors \o functors) : f.method \in Owning
    \/ serverFunctors # <<>>
    \/ revents # {} \/ callback # "none"
    \/ holds # {}

TypeOK ==
    /\ state \in States
    /\ events \subseteq {"read", "write"}
    /\ addedToLoop \in BOOLEAN
    /\ outputBuffer \in Seq((1..MaxSend) \X (1..MsgLen))
    /\ pendingFunctors \in Seq([method : Methods, msg : 0..MaxSend])
    /\ functors \in Seq([method : Methods, msg : 0..MaxSend])
    /\ phase \in {"poll", "events", "functors"}
    /\ revents \subseteq {"HUP", "ERR", "IN", "OUT"}
    /\ callback \in Callbacks \cup {"none"}
    /\ connections \in BOOLEAN
    /\ serverFunctors \in Seq({"removeConnectionInLoop"})
    /\ delayed \in BOOLEAN
    /\ holds \subseteq Threads
    /\ call \in [Threads -> {"idle", "send", "shutdown", "shutdownSet",
                             "forceClose", "forceCloseSet"}]
    /\ wire \in Seq((1..MaxSend) \X (1..MsgLen))
    /\ taken \in 0..Len(wire)
    /\ finSent \in BOOLEAN
    /\ input \in BOOLEAN
    /\ peer \in {"open", "fin", "rst"}
    /\ sockError \in BOOLEAN
    /\ sent \in Seq(Threads \cup {LoopThread})
    /\ accepted \in Seq((1..MaxSend) \X (1..MsgLen))
    /\ owed \subseteq 1..MaxSend
    /\ {ups, messages, downs} \subseteq Nat
    /\ failed \subseteq Asserts
    /\ closes \in 0..MaxClose
    /\ received \in 0..MaxInput

\* TcpServer::newConnection has constructed the connection, put it into the map
\* and passed connectEstablished to the I/O loop.
Init ==
    /\ state = "kConnecting"
    /\ events = {}
    /\ addedToLoop = FALSE
    /\ outputBuffer = <<>>
    /\ pendingFunctors = <<Functor("connectEstablished", 0)>>
    /\ functors = <<>>
    /\ phase = "poll"
    /\ revents = {}
    /\ callback = "none"
    /\ connections = TRUE
    /\ serverFunctors = <<>>
    /\ delayed = FALSE
    /\ holds = {}
    /\ call = [t \in Threads |-> "idle"]
    /\ wire = <<>> /\ taken = 0
    /\ finSent = FALSE
    /\ input = FALSE
    /\ peer = "open"
    /\ sockError = FALSE
    /\ sent = <<>> /\ accepted = <<>> /\ owed = {}
    /\ ups = 0 /\ messages = 0 /\ downs = 0
    /\ failed = {}
    /\ closes = 0
    /\ received = 0

Check(label, holdsHere) == failed' = IF holdsHere THEN failed ELSE failed \cup {label}
-----------------------------------------------------------------------------
(* The socket *)

\* Bytes write(2) takes now; it fails with EPIPE or ECONNRESET on a socket
\* shut down or reset.
Room == SndBuf - (Len(wire) - taken)
WriteFails == finSent \/ peer = "rst"

\* Both directions are shut down.
HungUp == peer = "rst" \/ (peer = "fin" /\ finSent)

\* The events poll reports for a registered channel.  POLLHUP and POLLERR need
\* no interest; "HUP" stands for POLLHUP without POLLIN, which the socket also
\* reports to a channel that reads.
Ready ==
    IF events = {} \/ ~addedToLoop THEN {} ELSE
        (IF "read" \in events /\ (input \/ peer # "open") THEN {"IN"} ELSE {})
          \cup (IF "read" \notin events /\ HungUp THEN {"HUP"} ELSE {})
          \cup (IF "write" \in events /\ (Room > 0 \/ WriteFails) THEN {"OUT"} ELSE {})
          \cup (IF sockError THEN {"ERR"} ELSE {})
-----------------------------------------------------------------------------
(* Operations of the connection on its loop thread.  Each is a formula about *)
(* the variables its comment names.                                          *)

\* enableReading, enableWriting, disableWriting, disableAll: Channel::update()
EventsBecome(new) == events' = new /\ addedToLoop' = TRUE

\* Mutation of MayWriteDirectly: whatever is in the buffer.
MayAlwaysWrite == TRUE

\* sendInLoop writes to the socket itself if nothing is queued before the data.
MayWriteDirectly == "write" \notin events /\ outputBuffer = <<>>

\* sendInLoop: connVars, wire, accepted, pendingFunctors.
SendInLoop(m) ==
    LET data == Bytes(m)
        nwrote == IF MayWriteDirectly THEN Lesser(Room, MsgLen) ELSE 0
        oldLen == Len(outputBuffer)
        newLen == oldLen + MsgLen - nwrote
    IN  IF state = "kDisconnected" \/ (MayWriteDirectly /\ WriteFails)
        THEN UNCHANGED <<connVars, wire, accepted, pendingFunctors>>
        ELSE /\ wire' = wire \o SubSeq(data, 1, nwrote)
             /\ outputBuffer' = outputBuffer \o SubSeq(data, nwrote + 1, MsgLen)
             /\ IF nwrote < MsgLen /\ "write" \notin events
                THEN EventsBecome(events \cup {"write"})
                ELSE UNCHANGED <<events, addedToLoop>>
             /\ accepted' = accepted \o data
             /\ CASE nwrote = MsgLen -> Post("writeComplete")
                  [] nwrote < MsgLen /\ newLen >= HighWaterMark /\ oldLen < HighWaterMark
                       -> Post("highWaterMark")
                  [] OTHER -> UNCHANGED pendingFunctors
             /\ UNCHANGED state

\* Mutation of ShutdownInLoop: it does not look at isWriting().
ShutdownAtOnce == finSent' = TRUE

\* shutdownInLoop: finSent.  A channel that is writing shuts down when drained.
ShutdownInLoop == finSent' = (finSent \/ "write" \notin events)

\* Mutation of HandleClose: setState(kDisconnected) forgotten.
HandleCloseKeepsState ==
    /\ Check("handleClose", state \in {"kConnected", "kDisconnecting"})
    /\ EventsBecome({})
    /\ callback' = "down"
    /\ downs' = downs + 1
    /\ UNCHANGED <<state, outputBuffer>>

\* handleClose up to the connectionCallback_: connVars, callback, downs, failed.
HandleClose ==
    /\ Check("handleClose", state \in {"kConnected", "kDisconnecting"})
    /\ state' = "kDisconnected"
    /\ EventsBecome({})
    /\ callback' = "down"
    /\ downs' = downs + 1
    /\ UNCHANGED outputBuffer

\* handleRead: connVars, callback, messages, downs, failed, input, sockError.
HandleRead ==
    \/ /\ input
       /\ input' = FALSE
       /\ callback' = "message"
       /\ messages' = messages + 1
       /\ UNCHANGED <<connVars, downs, failed, sockError>>
    \/ /\ ~input /\ sockError                  \* ECONNRESET: handleError
       /\ sockError' = FALSE
       /\ UNCHANGED <<connVars, callback, messages, downs, failed, input>>
    \/ /\ ~input /\ ~sockError                 \* read returns 0
       /\ HandleClose
       /\ UNCHANGED <<messages, input, sockError>>

\* handleWrite has drained the buffer: disableWriting()
StopWriting == EventsBecome(events \ {"write"})

\* Mutation of FinishShutdown: shutdownInLoop() forgotten.
ForgetShutdown == UNCHANGED finSent

\* ... and the shutdown() that waited for it is done.
FinishShutdown == finSent' = (finSent \/ state = "kDisconnecting")

\* handleWrite: connVars, wire, pendingFunctors, finSent.
HandleWrite ==
    LET n == Lesser(Room, Len(outputBuffer))
        drained == n = Len(outputBuffer)
    IN  IF "write" \notin events \/ WriteFails
        THEN UNCHANGED <<connVars, wire, pendingFunctors, finSent>>
        ELSE /\ wire' = wire \o SubSeq(outputBuffer, 1, n)
             /\ outputBuffer' = SubSeq(outputBuffer, n + 1, Len(outputBuffer))
             /\ UNCHANGED state
             /\ IF drained
                THEN /\ StopWriting
                     /\ Post("writeComplete")
                     /\ FinishShutdown
                ELSE UNCHANGED <<events, addedToLoop, pendingFunctors, finSent>>

\* channel_->remove() at the end of connectDestroyed: events must be none.
RemoveChannel ==
    /\ Check("remove", events = {})
    /\ addedToLoop' = FALSE

\* Mutation of ConnectDestroyed: disableAll() forgotten.
ConnectDestroyedKeepsEvents ==
    \/ /\ state = "kConnected"
       /\ state' = "kDisconnected"
       /\ callback' = "destroyed"
       /\ downs' = downs + 1
       /\ UNCHANGED <<events, addedToLoop, outputBuffer, failed>>
    \/ /\ state # "kConnected"
       /\ RemoveChannel
       /\ UNCHANGED <<state, events, outputBuffer, callback, downs>>

\* connectDestroyed: connVars, callback, downs, failed.  connectionCallback_
\* comes before remove() when the connection was still up.
ConnectDestroyed ==
    \/ /\ state = "kConnected"
       /\ state' = "kDisconnected"
       /\ EventsBecome({})
       /\ callback' = "destroyed"
       /\ downs' = downs + 1
       /\ UNCHANGED <<outputBuffer, failed>>
    \/ /\ state # "kConnected"
       /\ RemoveChannel
       /\ UNCHANGED <<state, events, outputBuffer, callback, downs>>

\* Mutation of RemoveConnectionInLoop: connectDestroyed is not queued.
EraseConnection ==
    /\ Check("erase", connections)
    /\ connections' = FALSE
    /\ UNCHANGED pendingFunctors

\* TcpServer::removeConnectionInLoop: connections, pendingFunctors, failed.
RemoveConnectionInLoop ==
    /\ Check("erase", connections)
    /\ connections' = FALSE
    /\ Post("connectDestroyed")
-----------------------------------------------------------------------------
(* The I/O loop *)

LoopIdle(p) == phase = p /\ callback = "none"

\* poll returns; it was woken by the channel, by a queued functor or by
\* something else in the loop.
Poll ==
    /\ LoopIdle("poll")
    /\ Ready # {} \/ pendingFunctors # <<>> \/ delayed
    /\ revents' = Ready
    /\ phase' = "events"
    /\ UNCHANGED <<connVars, pendingFunctors, functors, callback, ownerVars, call,
                   socketVars, callbackVars, sendVars, failed, closes, received>>

\* Channel::handleEventWithGuard: close, error, read and write callbacks, in
\* this order
DispatchHangUp ==
    /\ LoopIdle("events")
    /\ "HUP" \in revents
    /\ revents' = revents \ {"HUP"}
    /\ HandleClose
    /\ UNCHANGED <<pendingFunctors, functors, phase, ownerVars, call, socketVars, ups,
                   messages, sendVars, closes, received>>

DispatchError ==
    /\ LoopIdle("events")
    /\ "ERR" \in revents /\ "HUP" \notin revents
    /\ revents' = revents \ {"ERR"}
    /\ sockError' = FALSE
    /\ UNCHANGED <<connVars, pendingFunctors, functors, phase, callback, ownerVars,
                   call, wire, taken, finSent, input, peer, callbackVars, sendVars,
                   failed, closes, received>>

DispatchRead ==
    /\ LoopIdle("events")
    /\ "IN" \in revents /\ revents \cap {"HUP", "ERR"} = {}
    /\ revents' = revents \ {"IN"}
    /\ HandleRead
    /\ UNCHANGED <<pendingFunctors, functors, phase, ownerVars, call, wire, taken,
                   finSent, peer, ups, sendVars, closes, received>>

DispatchWrite ==
    /\ LoopIdle("events")
    /\ revents = {"OUT"}
    /\ revents' = {}
    /\ HandleWrite
    /\ UNCHANGED <<functors, phase, callback, ownerVars, call, taken, input, peer,
                   sockError, callbackVars, sendVars, failed, closes, received>>

\* The timer of forceCloseWithDelay: forceClose() through a weak_ptr
DelayExpires ==
    /\ LoopIdle("events")
    /\ revents = {}
    /\ delayed
    /\ delayed' = FALSE
    /\ IF Alive /\ state \in {"kConnected", "kDisconnecting"}
       THEN state' = "kDisconnecting" /\ Post("forceCloseInLoop")
       ELSE UNCHANGED <<state, pendingFunctors>>
    /\ UNCHANGED <<events, addedToLoop, outputBuffer, functors, phase, revents, callback,
                   connections, serverFunctors, holds, call, socketVars, callbackVars,
                   sendVars, failed, closes, received>>

SwapPendingFunctors ==
    /\ LoopIdle("events")
    /\ revents = {}
    /\ functors' = pendingFunctors
    /\ pendingFunctors' = <<>>
    /\ phase' = "functors"
    /\ UNCHANGED <<connVars, revents, callback, ownerVars, call, socketVars, callbackVars,
                   sendVars, failed, closes, received>>

\* The next functor of the batch is f; it runs with the variables the
\* conjunct beside Takes(f) leaves it.
Takes(f) ==
    /\ LoopIdle("functors")
    /\ functors # <<>>
    /\ Head(functors).method = f
    /\ functors' = Tail(functors)
    /\ UNCHANGED <<phase, revents>>

RunConnectEstablished ==
    /\ Takes("connectEstablished")
    /\ Check("connectEstablished", state = "kConnecting")
    /\ state' = "kConnected"
    /\ EventsBecome({"read"})
    /\ callback' = "up"
    /\ ups' = ups + 1
    /\ holds' = Threads                \* the user hands out the TcpConnectionPtr
    /\ UNCHANGED <<outputBuffer, pendingFunctors, connections, serverFunctors, delayed,
                   call, socketVars, messages, downs, sendVars, closes, received>>

RunConnectDestroyed ==
    /\ Takes("connectDestroyed")
    /\ ConnectDestroyed
    /\ UNCHANGED <<pendingFunctors, ownerVars, call, socketVars, ups, messages, sendVars,
                   closes, received>>

RunSendInLoop ==
    /\ Takes("sendInLoop")
    /\ SendInLoop(Head(functors).msg)
    /\ UNCHANGED <<callback, ownerVars, call, taken, finSent, input, peer, sockError,
                   callbackVars, sent, owed, failed, closes, received>>

RunShutdownInLoop ==
    /\ Takes("shutdownInLoop")
    /\ ShutdownInLoop
    /\ UNCHANGED <<connVars, pendingFunctors, callback, ownerVars, call, wire, taken,
                   input, peer, sockError, callbackVars, sendVars, failed, closes,
                   received>>

\* Mutation of RunForceCloseInLoop: state_ is not tested again.
RunForceCloseUnchecked ==
    /\ Takes("forceCloseInLoop")
    /\ HandleClose
    /\ UNCHANGED <<pendingFunctors, ownerVars, call, socketVars, ups, messages, sendVars,
                   closes, received>>

RunForceCloseInLoop ==
    /\ Takes("forceCloseInLoop")
    /\ IF state \in {"kConnected", "kDisconnecting"}
       THEN HandleClose
       ELSE UNCHANGED <<connVars, callback, downs, failed>>
    /\ UNCHANGED <<pendingFunctors, ownerVars, call, socketVars, ups, messages, sendVars,
                   closes, received>>

RunUserCallback(f) ==
    /\ Takes(f)
    /\ callback' = f
    /\ UNCHANGED <<connVars, pendingFunctors, ownerVars, call, socketVars, callbackVars,
                   sendVars, failed, closes, received>>

EndFunctors ==
    /\ LoopIdle("functors")
    /\ functors = <<>>
    /\ phase' = "poll"
    /\ UNCHANGED <<connVars, pendingFunctors, functors, revents, callback, ownerVars,
                   call, socketVars, callbackVars, sendVars, failed, closes, received>>

RunFunctor ==
    \/ RunConnectEstablished \/ RunConnectDestroyed \/ RunSendInLoop
    \/ RunShutdownInLoop \/ RunForceCloseInLoop
    \/ \E f \in {"writeComplete", "highWaterMark"} : RunUserCallback(f)

LoopStep ==
    \/ Poll \/ DispatchHangUp \/ DispatchError \/ DispatchRead \/ DispatchWrite
    \/ DelayExpires \/ SwapPendingFunctors \/ RunFunctor \/ EndFunctors
-----------------------------------------------------------------------------
(* User code in a callback, on the loop thread *)

SentBy(t) == {m \in DOMAIN sent : sent[m] = t}

\* The bound on send(), counting the calls not yet numbered.
MaySend == Len(sent) + Cardinality({t \in Threads : call[t] = "send"}) < MaxSend

InCallback(op) == callback # "none" /\ op \in LoopOps

LoopSend ==
    /\ InCallback("send")
    /\ MaySend
    /\ state = "kConnected"
    /\ sent' = Append(sent, LoopThread)
    /\ SendInLoop(Len(sent'))
    /\ UNCHANGED <<functors, phase, revents, callback, ownerVars, call, taken, finSent,
                   input, peer, sockError, callbackVars, owed, failed, closes, received>>

LoopShutdown ==
    /\ InCallback("shutdown")
    /\ state = "kConnected"
    /\ state' = "kDisconnecting"
    /\ ShutdownInLoop
    /\ owed' = SentBy(LoopThread)
    /\ UNCHANGED <<events, addedToLoop, outputBuffer, loopVars, ownerVars, call, wire,
                   taken, input, peer, sockError, callbackVars, sent, accepted, failed,
                   closes, received>>

LoopForceClose ==
    /\ InCallback("forceClose")
    /\ closes < MaxClose
    /\ state \in {"kConnected", "kDisconnecting"}
    /\ closes' = closes + 1
    /\ state' = "kDisconnecting"
    /\ Post("forceCloseInLoop")
    /\ UNCHANGED <<events, addedToLoop, outputBuffer, functors, phase, revents, callback,
                   ownerVars, call, socketVars, callbackVars, sendVars, failed, received>>

LoopForceCloseWithDelay ==
    /\ InCallback("forceCloseWithDelay")
    /\ ~delayed
    /\ state \in {"kConnected", "kDisconnecting"}
    /\ state' = "kDisconnecting"
    /\ delayed' = TRUE
    /\ UNCHANGED <<events, addedToLoop, outputBuffer, loopVars, connections,
                   serverFunctors, holds, call, socketVars, callbackVars, sendVars,
                   failed, closes, received>>

\* The callback returns, and the handler it was called from finishes.
\* handleClose ends with closeCallback_: TcpServer::removeConnection, which on a
\* destroyed server is undefined: the model counts it as an erase that fails.
ReturnFromCallback ==
    /\ callback # "none"
    /\ callback' = "none"
    /\ \/ /\ callback \notin {"down", "destroyed"}
          /\ UNCHANGED <<addedToLoop, pendingFunctors, connections, serverFunctors, failed>>
       \/ /\ callback = "down" /\ SameLoop
          /\ RemoveConnectionInLoop
          /\ UNCHANGED <<addedToLoop, serverFunctors>>
       \/ /\ callback = "down" /\ ~SameLoop
          /\ serverFunctors' = Append(serverFunctors, "removeConnectionInLoop")
          /\ UNCHANGED <<addedToLoop, pendingFunctors, connections, failed>>
       \/ /\ callback = "destroyed"
          /\ RemoveChannel
          /\ UNCHANGED <<pendingFunctors, connections, serverFunctors>>
    /\ UNCHANGED <<state, events, outputBuffer, functors, phase, revents, delayed, holds,
                   call, socketVars, callbackVars, sendVars, closes, received>>
-----------------------------------------------------------------------------
(* Foreign threads *)

\* The call reads state_ and goes on.
Begin(t, op) ==
    /\ t \in holds
    /\ call[t] = "idle"
    /\ op \in ForeignOps
    /\ CASE op = "send" -> state = "kConnected" /\ MaySend
         [] op = "shutdown" -> state = "kConnected"
         [] op = "forceClose" -> state \in {"kConnected", "kDisconnecting"} /\ closes < MaxClose
    /\ call' = [call EXCEPT ![t] = op]
    /\ closes' = IF op = "forceClose" THEN closes + 1 ELSE closes
    /\ UNCHANGED <<connVars, loopVars, ownerVars, socketVars, callbackVars, sendVars,
                   failed, received>>

\* Mutation of PostSend: push_front for push_back.
PostSendFirst(t) ==
    /\ call[t] = "send"
    /\ call' = [call EXCEPT ![t] = "idle"]
    /\ sent' = Append(sent, t)
    /\ pendingFunctors' = <<Functor("sendInLoop", Len(sent'))>> \o pendingFunctors
    /\ UNCHANGED <<connVars, functors, phase, revents, callback, ownerVars, socketVars,
                   callbackVars, accepted, owed, failed, closes, received>>

\* send() queues sendInLoop.
PostSend(t) ==
    /\ call[t] = "send"
    /\ call' = [call EXCEPT ![t] = "idle"]
    /\ sent' = Append(sent, t)
    /\ pendingFunctors' = Append(pendingFunctors, Functor("sendInLoop", Len(sent')))
    /\ UNCHANGED <<connVars, functors, phase, revents, callback, ownerVars, socketVars,
                   callbackVars, accepted, owed, failed, closes, received>>

\* shutdown() and forceClose() write state_ ...
SetDisconnecting(t) ==
    /\ \/ /\ call[t] = "shutdown"
          /\ call' = [call EXCEPT ![t] = "shutdownSet"]
          /\ owed' = IF finSent THEN owed ELSE SentBy(t)
       \/ /\ call[t] = "forceClose"
          /\ call' = [call EXCEPT ![t] = "forceCloseSet"]
          /\ UNCHANGED owed
    /\ state' = "kDisconnecting"
    /\ UNCHANGED <<events, addedToLoop, outputBuffer, loopVars, ownerVars, socketVars,
                   callbackVars, sent, accepted, failed, closes, received>>

\* ... and queue the rest of the call.
PostClose(t) ==
    /\ \/ call[t] = "shutdownSet" /\ Post("shutdownInLoop")
       \/ call[t] = "forceCloseSet" /\ Post("forceCloseInLoop")
    /\ call' = [call EXCEPT ![t] = "idle"]
    /\ UNCHANGED <<connVars, functors, phase, revents, callback, ownerVars, socketVars,
                   callbackVars, sendVars, failed, closes, received>>

\* The thread drops its TcpConnectionPtr.  It keeps it while a functor bound
\* with the raw this may still be queued, which the code leaves to the user.
Release(t) ==
    /\ t \in holds
    /\ call[t] = "idle"
    /\ \A f \in Elements(pendingFunctors \o functors) : f.method \in Owning
    /\ holds' = holds \ {t}
    /\ UNCHANGED <<connVars, loopVars, connections, serverFunctors, delayed, call,
                   socketVars, callbackVars, sendVars, failed, closes, received>>
-----------------------------------------------------------------------------
(* The server, in its own loop, and the peer *)

RunServerFunctor ==
    /\ serverFunctors # <<>>
    /\ serverFunctors' = Tail(serverFunctors)
    /\ RemoveConnectionInLoop
    /\ UNCHANGED <<connVars, functors, phase, revents, callback, delayed, holds, call,
                   socketVars, callbackVars, sendVars, closes, received>>

\* ~TcpServer, called by some functor of the loop
DestroyServer ==
    /\ ServerMayDie
    /\ LoopIdle("functors")
    /\ connections
    /\ state # "kConnecting"
    /\ connections' = FALSE
    /\ ConnectDestroyed
    /\ UNCHANGED <<pendingFunctors, functors, phase, revents, serverFunctors, delayed,
                   holds, call, socketVars, ups, messages, sendVars, closes, received>>

PeerSends ==
    /\ peer = "open"
    /\ received < MaxInput
    /\ received' = received + 1
    /\ input' = TRUE
    /\ UNCHANGED <<connVars, loopVars, ownerVars, call, wire, taken, finSent, peer,
                   sockError, callbackVars, sendVars, failed, closes>>

PeerReads ==
    /\ peer # "rst"
    /\ taken < Len(wire)
    /\ taken' = taken + 1
    /\ UNCHANGED <<connVars, loopVars, ownerVars, call, wire, finSent, input, peer,
                   sockError, callbackVars, sendVars, failed, closes, received>>

PeerCloses ==
    /\ peer = "open"
    /\ peer' = "fin"
    /\ UNCHANGED <<connVars, loopVars, ownerVars, call, wire, taken, finSent, input,
                   sockError, callbackVars, sendVars, failed, closes, received>>

PeerResets ==
    /\ peer # "rst"
    /\ peer' = "rst"
    /\ sockError' = TRUE
    /\ UNCHANGED <<connVars, loopVars, ownerVars, call, wire, taken, finSent, input,
                   callbackVars, sendVars, failed, closes, received>>

UserStep == LoopSend \/ LoopShutdown \/ LoopForceClose \/ LoopForceCloseWithDelay

ThreadStep(t) == PostSend(t) \/ SetDisconnecting(t) \/ PostClose(t)

Next ==
    \/ LoopStep
    \/ ReturnFromCallback
    \/ UserStep
    \/ \E t \in Threads : (\E op \in ForeignOps : Begin(t, op)) \/ ThreadStep(t) \/ Release(t)
    \/ RunServerFunctor \/ DestroyServer
    \/ PeerSends \/ PeerReads \/ PeerCloses \/ PeerResets

Spec == Init /\ [][Next]_vars

\* The loops run, the timer of forceCloseWithDelay expires (TimerQueue, property
\* TimerRuns), callbacks return, a thread inside a call finishes it, and the
\* peer reads.  The user need not call anything and the peer need not close.
Fairness ==
    /\ WF_vars(LoopStep)
    /\ SF_vars(DelayExpires)
    /\ WF_vars(ReturnFromCallback)
    /\ WF_vars(RunServerFunctor)
    /\ \A t \in Threads : WF_vars(ThreadStep(t)) /\ WF_vars(Release(t))
    /\ WF_vars(PeerReads)

FairSpec == Spec /\ Fairness
-----------------------------------------------------------------------------
(* Properties *)

\* The callbacks the user sees follow the life cycle of a Session.
Life == INSTANCE Session
SessionSpec == Life!Spec

\* TcpConnection.cc:381, TcpServer.cc:117, Channel.cc:61: handleClose runs once
\* and while connected, the connection is in the map when it is removed, the
\* channel listens to nothing when it is removed.
NoAssertionFails == failed = {}

\* TcpServer.cc:117 by itself: a connection is taken out of the map once.
ErasedOnce == "erase" \notin failed

\* Channel.cc:61 by itself: a channel that is removed listens to nothing.
RemovedDisabled == "remove" \notin failed

\* TcpConnection.cc:72: when the last TcpConnectionPtr goes, the connection is
\* disconnected, whatever order the map, the functors and the threads let go.
DisconnectedWhenDestroyed == ~Alive => state = "kDisconnected"

\* The poller keeps a raw Channel*: as long as it does, the connection that owns
\* the channel is alive, and once it is destroyed nothing is registered.
RegisteredIsAlive == addedToLoop => Alive

\* The life of the object (TcpConnection.cc:67-73, Channel.cc:66-81).
LifeSound ==
    TypeOK /\ NoAssertionFails /\ DisconnectedWhenDestroyed /\ RegisteredIsAlive

\* Messages come between the first "up" and the first "down", also where the
\* calls of other threads and ~TcpServer make a connection go down twice
\* (TcpConnection.cc:266-335): a closed connection is never read from again.
MessagesWhileUp == [][messages' # messages => Life!IsUp]_vars

\* sendInLoop and handleWrite (TcpConnection.cc:138-191, 337-375): the socket
\* and the buffer hold exactly the bytes accepted, in order, however writes to
\* the socket are cut short and direct writes and buffered ones alternate.
NothingReordered == accepted = wire \o outputBuffer

\* TcpConnection.cc:93-110: a thread's messages go out in the order it sent
\* them, whichever threads send.
OrderPerThread ==
    \A i, j \in DOMAIN accepted :
        (i < j /\ sent[accepted[i][1]] = sent[accepted[j][1]])
            => accepted[i][1] <= accepted[j][1]

\* TcpConnection.cc:186-189, 350: while the connection is up the channel
\* listens for POLLOUT exactly when there is something to write, so buffered
\* data is neither forgotten nor polled for in vain.
WritingIffBuffered ==
    state \in {"kConnected", "kDisconnecting"} =>
        (("write" \in events) <=> (outputBuffer # <<>>))

\* shutdown() (TcpConnection.cc:193-212, 355-358): the FIN comes after
\* everything its caller sent before it, unless the peer reset the connection.
FinAfterData ==
    (finSent /\ peer # "rst") =>
        \A m \in owed : \A i \in 1..MsgLen : <<m, i>> \in Elements(wire)

\* What is buffered is being written, and it is all that a FIN waits for: the
\* interest in writing, the buffer and shutdown() agree (TcpConnection.cc:
\* 149-212, 337-375).
OutputSound == WritingIffBuffered /\ FinAfterData

\* A connection the peer closes or resets is cleaned up: disconnected,
\* out of the map, out of the poller, and destroyed once its users let go.
CloseCompletes ==
    (peer # "open") ~> (state = "kDisconnected" /\ ~connections /\ ~addedToLoop /\ ~Alive)

\* Data that waits in the output buffer when shutdown() is called does not keep
\* the connection half-closed forever: the FIN is sent once the peer has read.
ShutdownCompletes ==
    (state = "kDisconnecting") ~> (finSent \/ state = "kDisconnected")
=============================================================================
