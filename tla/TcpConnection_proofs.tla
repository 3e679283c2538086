------------------------- MODULE TcpConnection_proofs -------------------------
(***************************************************************************)
(* Theorems of TcpConnection, for every set of threads, whatever they and  *)
(* the user's callbacks call, every length of a message and every size of  *)
(* the socket's buffer.                                                    *)
(***************************************************************************)
EXTENDS TcpConnection, SequenceTheorems, FiniteSetTheorems, TLAPS

Byte == Nat \X Nat
FunctorType == [method : Methods, msg : Nat]

\* The queues of the loop, as far as the data depends on them.
QueuesTyped ==
    /\ pendingFunctors \in Seq(FunctorType)
    /\ functors \in Seq(FunctorType)
    /\ sent \in Seq(Threads \cup {LoopThread})

\* The socket never holds more than its buffer, and so write(2) takes between
\* no byte and all of them.
SocketSound ==
    /\ wire \in Seq(Byte)
    /\ taken \in Nat
    /\ taken <= Len(wire)
    /\ Len(wire) <= taken + SndBuf

BufferSound ==
    /\ outputBuffer \in Seq(Byte)
    /\ accepted \in Seq(Byte)

DataInv == QueuesTyped /\ SocketSound /\ BufferSound /\ NothingReordered

dataVars == <<wire, taken, outputBuffer, accepted>>
-----------------------------------------------------------------------------
(* Lemmas about bytes and functors *)

LEMMA BytesType ==
    ASSUME NEW m \in Nat
    PROVE  Bytes(m) \in Seq(Byte) /\ Len(Bytes(m)) = MsgLen
<1>1. MsgLen \in Nat
  BY TcpConnectionAssumption
<1>2. Bytes(m) \in [1..MsgLen -> Byte]
  BY <1>1 DEF Bytes, Byte
<1>3. Bytes(m) \in Seq(Byte)
  BY <1>1, <1>2, SeqDef
<1>4. Len(Bytes(m)) = MsgLen
  <2>1. DOMAIN Bytes(m) = 1..MsgLen
    BY DEF Bytes
  <2>2. DOMAIN Bytes(m) = 1..Len(Bytes(m)) /\ Len(Bytes(m)) \in Nat
    BY <1>3, LenProperties
  <2>3. QED
    BY <1>1, <2>1, <2>2
<1>5. QED
  BY <1>3, <1>4

\* A sequence of bytes cut in two, as write(2) cuts it.
LEMMA Cut ==
    ASSUME NEW s \in Seq(Byte), NEW n \in 0..Len(s)
    PROVE  /\ SubSeq(s, 1, n) \in Seq(Byte)
           /\ SubSeq(s, n + 1, Len(s)) \in Seq(Byte)
           /\ Len(SubSeq(s, 1, n)) = n
           /\ SubSeq(s, 1, n) \o SubSeq(s, n + 1, Len(s)) = s
<1>1. Len(s) \in Nat /\ \A i \in 1..Len(s) : s[i] \in Byte
  BY LenProperties, ElementOfSeq
<1>2. SubSeq(s, 1, n) \in Seq(Byte) /\ Len(SubSeq(s, 1, n)) = n
  <2>1. 1 \in Int /\ n \in Int /\ \A i \in 1..n : s[i] \in Byte
    BY <1>1
  <2>2. SubSeq(s, 1, n) \in Seq(Byte)
        /\ Len(SubSeq(s, 1, n)) = IF 1 <= n THEN n - 1 + 1 ELSE 0
    BY <2>1, SubSeqProperties
  <2>3. QED
    BY <2>2
<1>3. SubSeq(s, n + 1, Len(s)) \in Seq(Byte)
  <2>1. n + 1 \in Int /\ Len(s) \in Int /\ \A i \in (n + 1)..Len(s) : s[i] \in Byte
    BY <1>1
  <2>2. QED
    BY <2>1, SubSeqProperties
<1>4. SubSeq(s, 1, n) \o SubSeq(s, n + 1, Len(s)) = s
  <2>1. 1 \in 1..Len(s) + 1 /\ n \in (1 - 1)..Len(s) /\ Len(s) \in n..Len(s)
    BY <1>1
  <2>2. SubSeq(s, 1, n) \o SubSeq(s, n + 1, Len(s)) = SubSeq(s, 1, Len(s))
    BY <2>1, ConcatAdjacentSubSeq
  <2>3. QED
    BY <2>2, SubSeqFull
<1>5. QED
  BY <1>2, <1>3, <1>4

LEMMA Assoc == \A s, t, u \in Seq(Byte) : s \o (t \o u) = (s \o t) \o u
<1> SUFFICES ASSUME NEW s \in Seq(Byte), NEW t \in Seq(Byte), NEW u \in Seq(Byte)
             PROVE  s \o (t \o u) = (s \o t) \o u
  OBVIOUS
<1>1. (s \o t) \o u = s \o (t \o u)
  BY ConcatAssociative
<1>2. QED
  BY <1>1

LEMMA PostType ==
    ASSUME QueuesTyped, NEW f \in Methods, Post(f)
    PROVE  pendingFunctors' \in Seq(FunctorType)
<1>1. Functor(f, 0) \in FunctorType
  BY DEF Functor, FunctorType
<1>2. QED
  BY <1>1, AppendProperties DEF Post, QueuesTyped

LEMMA PostMsgType ==
    ASSUME QueuesTyped, NEW t \in Threads \cup {LoopThread}, sent' = Append(sent, t)
    PROVE  /\ sent' \in Seq(Threads \cup {LoopThread})
           /\ Len(sent') \in Nat
           /\ Append(pendingFunctors, Functor("sendInLoop", Len(sent'))) \in Seq(FunctorType)
<1>1. sent' \in Seq(Threads \cup {LoopThread})
  BY AppendProperties DEF QueuesTyped
<1>2. Len(sent') \in Nat
  BY <1>1, LenProperties
<1>3. Functor("sendInLoop", Len(sent')) \in FunctorType
  BY <1>2 DEF Functor, FunctorType, Methods
<1>4. QED
  BY <1>1, <1>2, <1>3, AppendProperties DEF QueuesTyped

LEMMA RoomType ==
    ASSUME SocketSound, NEW k \in Nat
    PROVE  /\ Room \in Nat
           /\ Lesser(Room, k) \in 0..k
           /\ Lesser(Room, k) <= Room
           /\ Len(wire) \in Nat
           /\ Len(wire) + Room = taken + SndBuf
<1>1. SndBuf \in Nat /\ Len(wire) \in Nat
  BY TcpConnectionAssumption, LenProperties DEF SocketSound
<1>2. Room \in Nat /\ Len(wire) + Room = taken + SndBuf
  BY <1>1 DEF SocketSound, Room
<1>3. QED
  BY <1>1, <1>2 DEF Lesser
-----------------------------------------------------------------------------
(* The two operations that write to the socket *)

LEMMA WireGrows ==
    ASSUME SocketSound, NEW s \in Seq(Byte), Len(s) <= Room,
           wire' = wire \o s, taken' = taken
    PROVE  SocketSound'
<1>1. /\ wire' \in Seq(Byte)
      /\ Len(wire') = Len(wire) + Len(s)
  BY ConcatProperties DEF SocketSound
<1>2. Len(s) \in Nat
  BY LenProperties
<1>3. Room \in Nat /\ Len(wire) \in Nat /\ Len(wire) + Room = taken + SndBuf
  BY RoomType
<1>4. SndBuf \in Nat
  BY TcpConnectionAssumption
<1>5. QED
  BY <1>1, <1>2, <1>3, <1>4 DEF SocketSound

\* sendInLoop: what it writes itself goes out only when nothing is buffered.
LEMMA SendInLoopData ==
    ASSUME DataInv, NEW m \in Nat, SendInLoop(m), UNCHANGED taken
    PROVE  SocketSound' /\ BufferSound' /\ NothingReordered'
<1> DEFINE data == Bytes(m)
           n == IF MayWriteDirectly THEN Lesser(Room, MsgLen) ELSE 0
           written == SubSeq(data, 1, n)
           rest == SubSeq(data, n + 1, MsgLen)
<1>1. MsgLen \in Nat
  BY TcpConnectionAssumption
<1>2. CASE state = "kDisconnected" \/ (MayWriteDirectly /\ WriteFails)
  <2>1. UNCHANGED dataVars
    BY <1>2 DEF SendInLoop, connVars, dataVars
  <2>2. QED
    BY <2>1 DEF DataInv, SocketSound, BufferSound, NothingReordered, dataVars
<1>3. CASE ~(state = "kDisconnected" \/ (MayWriteDirectly /\ WriteFails))
  <2>1. /\ wire' = wire \o written
        /\ outputBuffer' = outputBuffer \o rest
        /\ accepted' = accepted \o data
    BY <1>3 DEF SendInLoop
  <2>2. data \in Seq(Byte) /\ Len(data) = MsgLen
    BY BytesType
  <2>3. Room \in Nat /\ n \in 0..MsgLen /\ n <= Room
    BY <1>1, RoomType DEF DataInv
  <2> HIDE DEF data, n
  <2>4. /\ written \in Seq(Byte) /\ rest \in Seq(Byte)
        /\ Len(written) = n
        /\ written \o rest = data
    BY <2>2, <2>3, Cut
  <2>5. outputBuffer = <<>> \/ written = <<>>
    <3>1. CASE MayWriteDirectly
      BY <3>1 DEF MayWriteDirectly
    <3>2. CASE ~MayWriteDirectly
      <4>1. n = 0
        BY <3>2 DEF n
      <4>2. QED
        BY <2>4, <4>1, EmptySeq
    <3>3. QED
      BY <3>1, <3>2
  <2> HIDE DEF written, rest
  <2>6. SocketSound'
    BY <2>1, <2>3, <2>4, WireGrows DEF DataInv
  <2>7. BufferSound'
    BY <2>1, <2>2, <2>4, ConcatProperties DEF DataInv, BufferSound
  <2>8. wire \in Seq(Byte) /\ outputBuffer \in Seq(Byte) /\ accepted = wire \o outputBuffer
    BY DEF DataInv, SocketSound, BufferSound, NothingReordered
  <2>9. accepted \o data = (wire \o written) \o (outputBuffer \o rest)
    <3>1. accepted \o data = wire \o (outputBuffer \o (written \o rest))
      <4>1. written \o rest \in Seq(Byte)
        BY <2>4, ConcatProperties
      <4>2. QED
        BY <2>4, <2>8, <4>1, ConcatAssociative, SMTT(60)
    <3>2. outputBuffer \o (written \o rest) = written \o (outputBuffer \o rest)
      <4>1. CASE outputBuffer = <<>>
        <5>1. written \o rest \in Seq(Byte)
          BY <2>4, ConcatProperties
        <5>2. QED
          BY <2>4, <4>1, <5>1, ConcatEmptySeq
      <4>2. CASE written = <<>>
        <5>1. outputBuffer \o rest \in Seq(Byte)
          BY <2>4, <2>8, ConcatProperties
        <5>2. QED
          BY <2>4, <4>2, <5>1, ConcatEmptySeq
      <4>3. QED
        BY <2>5, <4>1, <4>2
    <3>3. wire \o (written \o (outputBuffer \o rest)) = (wire \o written) \o (outputBuffer \o rest)
      <4>1. outputBuffer \o rest \in Seq(Byte)
        BY <2>4, <2>8, ConcatProperties
      <4>2. QED
        BY <2>4, <2>8, <4>1, Assoc, ZenonT(60)
    <3>4. QED
      BY <3>1, <3>2, <3>3
  <2>10. NothingReordered'
    BY <2>1, <2>9 DEF NothingReordered
  <2>11. QED
    BY <2>6, <2>7, <2>10
<1>4. QED
  BY <1>2, <1>3

LEMMA SendInLoopQueue ==
    ASSUME QueuesTyped, NEW m \in Nat, SendInLoop(m)
    PROVE  pendingFunctors' \in Seq(FunctorType)
<1>1. \/ UNCHANGED pendingFunctors
      \/ Post("writeComplete")
      \/ Post("highWaterMark")
  BY ZenonT(60) DEF SendInLoop
<1>2. QED
  BY <1>1, PostType DEF QueuesTyped, Methods

\* handleWrite: a prefix of the buffer moves to the socket.
LEMMA HandleWriteData ==
    ASSUME DataInv, HandleWrite, UNCHANGED <<taken, accepted>>
    PROVE  SocketSound' /\ BufferSound' /\ NothingReordered'
<1> DEFINE n == Lesser(Room, Len(outputBuffer))
           written == SubSeq(outputBuffer, 1, n)
           rest == SubSeq(outputBuffer, n + 1, Len(outputBuffer))
<1>1. CASE "write" \notin events \/ WriteFails
  <2>1. UNCHANGED dataVars
    BY <1>1 DEF HandleWrite, connVars, dataVars
  <2>2. QED
    BY <2>1 DEF DataInv, SocketSound, BufferSound, NothingReordered, dataVars
<1>2. CASE ~("write" \notin events \/ WriteFails)
  <2>1. wire' = wire \o written /\ outputBuffer' = rest
    BY <1>2 DEF HandleWrite
  <2>2. outputBuffer \in Seq(Byte) /\ Len(outputBuffer) \in Nat
    BY LenProperties DEF DataInv, BufferSound
  <2>3. Room \in Nat /\ n \in 0..Len(outputBuffer) /\ n <= Room
    BY <2>2, RoomType DEF DataInv
  <2> HIDE DEF n
  <2>4. /\ written \in Seq(Byte) /\ rest \in Seq(Byte)
        /\ Len(written) = n
        /\ written \o rest = outputBuffer
    BY <2>2, <2>3, Cut
  <2> HIDE DEF written, rest
  <2>5. SocketSound'
    BY <2>1, <2>3, <2>4, WireGrows DEF DataInv
  <2>6. BufferSound'
    BY <2>1, <2>4 DEF DataInv, BufferSound
  <2>7. wire \in Seq(Byte) /\ accepted = wire \o outputBuffer
    BY DEF DataInv, SocketSound, NothingReordered
  <2>8. wire \o (written \o rest) = (wire \o written) \o rest
    BY <2>4, <2>7, Assoc, Zenon
  <2>9. NothingReordered'
    BY <2>1, <2>4, <2>7, <2>8 DEF NothingReordered
  <2>10. QED
    BY <2>5, <2>6, <2>9
<1>3. QED
  BY <1>1, <1>2

LEMMA HandleWriteQueue ==
    ASSUME QueuesTyped, HandleWrite
    PROVE  pendingFunctors' \in Seq(FunctorType)
<1>1. UNCHANGED pendingFunctors \/ Post("writeComplete")
  BY DEF HandleWrite
<1>2. QED
  BY <1>1, PostType DEF QueuesTyped, Methods
-----------------------------------------------------------------------------
(* The invariant is inductive *)

LEMMA DataInit == Init => DataInv
<1> SUFFICES ASSUME Init PROVE DataInv
  OBVIOUS
<1>1. Functor("connectEstablished", 0) \in FunctorType
  BY DEF Functor, FunctorType, Methods
<1>2. QueuesTyped
  BY <1>1, EmptySeq DEF Init, QueuesTyped
<1>3. <<>> \in Seq(Byte) /\ Len(<<>>) = 0 /\ SndBuf \in Nat
  BY EmptySeq, TcpConnectionAssumption
<1>4. SocketSound /\ BufferSound
  BY <1>3 DEF Init, SocketSound, BufferSound
<1>5. NothingReordered
  BY <1>3, ConcatEmptySeq DEF Init, NothingReordered
<1>6. QED
  BY <1>2, <1>4, <1>5 DEF DataInv

\* Most steps leave the data alone, and post at most one functor.
LEMMA DataUnchanged ==
    ASSUME DataInv, UNCHANGED dataVars, QueuesTyped'
    PROVE  DataInv'
BY DEF DataInv, SocketSound, BufferSound, NothingReordered, dataVars

LEMMA PostsOnly ==
    ASSUME DataInv, UNCHANGED <<dataVars, sent>>, functors' \in Seq(FunctorType),
           UNCHANGED pendingFunctors \/ \E f \in Methods : Post(f)
    PROVE  DataInv'
<1>1. QueuesTyped
  BY DEF DataInv
<1>2. pendingFunctors' \in Seq(FunctorType)
  BY <1>1, PostType DEF QueuesTyped
<1>3. QueuesTyped'
  BY <1>1, <1>2 DEF QueuesTyped
<1>4. QED
  BY <1>3, DataUnchanged DEF dataVars

LEMMA TakesType ==
    ASSUME DataInv, NEW f \in Methods, Takes(f)
    PROVE  Head(functors).msg \in Nat /\ functors' \in Seq(FunctorType)
<1>1. functors \in Seq(FunctorType) /\ functors # <<>> /\ functors' = Tail(functors)
  BY DEF DataInv, QueuesTyped, Takes
<1>2. Head(functors) \in FunctorType /\ Tail(functors) \in Seq(FunctorType)
  BY <1>1, HeadTailProperties
<1>3. QED
  BY <1>1, <1>2 DEF FunctorType

LEMMA LoopStepData == ASSUME DataInv, LoopStep PROVE DataInv'
<1> USE DEF connVars, loopVars, ownerVars, socketVars, sendVars, dataVars
<1>1. functors \in Seq(FunctorType)
  BY DEF DataInv, QueuesTyped
<1>2. CASE Poll
  BY <1>1, <1>2, PostsOnly DEF Poll
<1>hup. CASE DispatchHangUp
  <2>1. UNCHANGED outputBuffer
    BY <1>hup DEF DispatchHangUp, HandleClose
  <2>2. QED
    BY <1>1, <1>hup, <2>1, PostsOnly DEF DispatchHangUp
<1>3. CASE DispatchError
  BY <1>1, <1>3, PostsOnly DEF DispatchError
<1>4. CASE DispatchRead
  <2>1. UNCHANGED outputBuffer
    BY <1>4 DEF DispatchRead, HandleRead, HandleClose
  <2>2. QED
    BY <1>1, <1>4, <2>1, PostsOnly DEF DispatchRead
<1>5. CASE DispatchWrite
  <2>1. HandleWrite /\ UNCHANGED <<taken, accepted, functors, sent>>
    BY <1>5 DEF DispatchWrite
  <2>2. QueuesTyped'
    BY <2>1, HandleWriteQueue DEF DataInv, QueuesTyped
  <2>3. QED
    BY <2>1, <2>2, HandleWriteData DEF DataInv
<1>6. CASE DelayExpires
  <2>1. UNCHANGED pendingFunctors \/ Post("forceCloseInLoop")
    BY <1>6 DEF DelayExpires
  <2>2. QED
    BY <1>1, <1>6, <2>1, PostsOnly DEF DelayExpires, Methods
<1>7. CASE SwapPendingFunctors
  <2>1. QueuesTyped'
    BY <1>7, EmptySeq DEF SwapPendingFunctors, DataInv, QueuesTyped
  <2>2. QED
    BY <1>7, <2>1, DataUnchanged DEF SwapPendingFunctors
<1>8. CASE RunFunctor
  <2>1. CASE RunConnectEstablished
    <3>1. functors' \in Seq(FunctorType)
      BY <2>1, TakesType DEF RunConnectEstablished, Methods
    <3>2. QED
      BY <2>1, <3>1, PostsOnly DEF RunConnectEstablished
  <2>2. CASE RunConnectDestroyed
    <3>1. functors' \in Seq(FunctorType)
      BY <2>2, TakesType DEF RunConnectDestroyed, Methods
    <3>2. UNCHANGED outputBuffer
      BY <2>2 DEF RunConnectDestroyed, ConnectDestroyed
    <3>3. QED
      BY <2>2, <3>1, <3>2, PostsOnly DEF RunConnectDestroyed
  <2>3. CASE RunSendInLoop
    <3>1. Head(functors).msg \in Nat /\ functors' \in Seq(FunctorType)
      BY <2>3, TakesType DEF RunSendInLoop, Methods
    <3>2. SendInLoop(Head(functors).msg) /\ UNCHANGED <<taken, sent>>
      BY <2>3 DEF RunSendInLoop
    <3>3. QueuesTyped'
      BY <3>1, <3>2, SendInLoopQueue DEF DataInv, QueuesTyped
    <3>4. QED
      BY <3>1, <3>2, <3>3, SendInLoopData DEF DataInv
  <2>4. CASE RunShutdownInLoop
    <3>1. functors' \in Seq(FunctorType)
      BY <2>4, TakesType DEF RunShutdownInLoop, Methods
    <3>2. QED
      BY <2>4, <3>1, PostsOnly DEF RunShutdownInLoop
  <2>5. CASE RunForceCloseInLoop
    <3>1. functors' \in Seq(FunctorType)
      BY <2>5, TakesType DEF RunForceCloseInLoop, Methods
    <3>2. UNCHANGED outputBuffer
      BY <2>5 DEF RunForceCloseInLoop, HandleClose
    <3>3. QED
      BY <2>5, <3>1, <3>2, PostsOnly DEF RunForceCloseInLoop
  <2>6. ASSUME NEW f \in {"writeComplete", "highWaterMark"}, RunUserCallback(f)
        PROVE  DataInv'
    <3>1. functors' \in Seq(FunctorType)
      BY <2>6, TakesType DEF RunUserCallback, Methods
    <3>2. QED
      BY <2>6, <3>1, PostsOnly DEF RunUserCallback
  <2>7. QED
    BY <1>8, <2>1, <2>2, <2>3, <2>4, <2>5, <2>6 DEF RunFunctor
<1>9. CASE EndFunctors
  BY <1>1, <1>9, PostsOnly DEF EndFunctors
<1>10. QED
  BY <1>2, <1>hup, <1>3, <1>4, <1>5, <1>6, <1>7, <1>8, <1>9 DEF LoopStep

LEMMA UserStepData == ASSUME DataInv, UserStep \/ ReturnFromCallback PROVE DataInv'
<1> USE DEF connVars, loopVars, ownerVars, socketVars, sendVars, dataVars
<1>1. functors \in Seq(FunctorType)
  BY DEF DataInv, QueuesTyped
<1>2. CASE LoopSend
  <2>1. /\ sent' = Append(sent, LoopThread)
        /\ SendInLoop(Len(sent'))
        /\ UNCHANGED <<functors, taken>>
    BY <1>2 DEF LoopSend
  <2>2. Len(sent') \in Nat /\ sent' \in Seq(Threads \cup {LoopThread})
    BY <2>1, PostMsgType DEF DataInv
  <2>3. QueuesTyped'
    BY <2>1, <2>2, SendInLoopQueue DEF DataInv, QueuesTyped
  <2>4. QED
    BY <2>1, <2>2, <2>3, SendInLoopData DEF DataInv
<1>3. CASE LoopShutdown
  BY <1>1, <1>3, PostsOnly DEF LoopShutdown
<1>4. CASE LoopForceClose
  BY <1>1, <1>4, PostsOnly DEF LoopForceClose, Methods
<1>5. CASE LoopForceCloseWithDelay
  BY <1>1, <1>5, PostsOnly DEF LoopForceCloseWithDelay
<1>6. CASE ReturnFromCallback
  <2>1. UNCHANGED pendingFunctors \/ Post("connectDestroyed")
    BY <1>6 DEF ReturnFromCallback, RemoveConnectionInLoop
  <2>2. QED
    BY <1>1, <1>6, <2>1, PostsOnly DEF ReturnFromCallback, Methods
<1>7. QED
  BY <1>2, <1>3, <1>4, <1>5, <1>6 DEF UserStep

LEMMA ThreadStepData ==
    ASSUME DataInv, NEW t \in Threads,
           (\E op \in ForeignOps : Begin(t, op)) \/ ThreadStep(t) \/ Release(t)
    PROVE  DataInv'
<1> USE DEF connVars, loopVars, ownerVars, socketVars, sendVars, dataVars
<1>1. functors \in Seq(FunctorType)
  BY DEF DataInv, QueuesTyped
<1>2. ASSUME NEW op \in ForeignOps, Begin(t, op) PROVE DataInv'
  BY <1>1, <1>2, PostsOnly DEF Begin
<1>3. CASE PostSend(t)
  <2>1. /\ sent' = Append(sent, t)
        /\ pendingFunctors' = Append(pendingFunctors, Functor("sendInLoop", Len(sent')))
        /\ UNCHANGED <<functors, dataVars>>
    BY <1>3 DEF PostSend
  <2>2. QueuesTyped'
    BY <1>1, <2>1, PostMsgType DEF DataInv, QueuesTyped
  <2>3. QED
    BY <2>1, <2>2, DataUnchanged
<1>4. CASE SetDisconnecting(t)
  BY <1>1, <1>4, PostsOnly DEF SetDisconnecting
<1>5. CASE PostClose(t)
  BY <1>1, <1>5, PostsOnly DEF PostClose, Methods
<1>6. CASE Release(t)
  BY <1>1, <1>6, PostsOnly DEF Release
<1>7. QED
  BY <1>2, <1>3, <1>4, <1>5, <1>6 DEF ThreadStep

LEMMA OthersData ==
    ASSUME DataInv,
           \/ RunServerFunctor \/ DestroyServer
           \/ PeerSends \/ PeerReads \/ PeerCloses \/ PeerResets
    PROVE  DataInv'
<1> USE DEF connVars, loopVars, ownerVars, socketVars, sendVars, dataVars
<1>1. functors \in Seq(FunctorType)
  BY DEF DataInv, QueuesTyped
<1>2. CASE RunServerFunctor
  BY <1>1, <1>2, PostsOnly DEF RunServerFunctor, RemoveConnectionInLoop, Methods
<1>3. CASE DestroyServer
  BY <1>1, <1>3, PostsOnly DEF DestroyServer, ConnectDestroyed
<1>4. CASE PeerSends
  BY <1>1, <1>4, PostsOnly DEF PeerSends
<1>5. CASE PeerReads
  <2>1. Len(wire) \in Nat /\ SndBuf \in Nat
    BY LenProperties, TcpConnectionAssumption DEF DataInv, SocketSound
  <2>2. SocketSound'
    BY <1>5, <2>1 DEF PeerReads, DataInv, SocketSound
  <2>3. QED
    BY <1>5, <2>2 DEF PeerReads, DataInv, QueuesTyped, BufferSound, NothingReordered
<1>6. CASE PeerCloses
  BY <1>1, <1>6, PostsOnly DEF PeerCloses
<1>7. CASE PeerResets
  BY <1>1, <1>7, PostsOnly DEF PeerResets
<1>8. QED
  BY <1>2, <1>3, <1>4, <1>5, <1>6, <1>7

LEMMA DataNext == DataInv /\ [Next]_vars => DataInv'
<1> SUFFICES ASSUME DataInv, [Next]_vars PROVE DataInv'
  OBVIOUS
<1>1. CASE UNCHANGED vars
  <2>1. UNCHANGED <<dataVars, pendingFunctors, functors, sent>>
    BY <1>1 DEF vars, dataVars, connVars, loopVars, socketVars, sendVars
  <2>2. QED
    BY <2>1, PostsOnly DEF DataInv, QueuesTyped
<1>2. CASE Next
  BY <1>2, LoopStepData, UserStepData, ThreadStepData, OthersData DEF Next
<1>3. QED
  BY <1>1, <1>2

\* What was written to the socket and what is buffered are the bytes that were
\* accepted, in order, whoever sends, closes or destroys at whatever moment.
THEOREM DataCorrect == Spec => []NothingReordered
<1>1. DataInv => NothingReordered
  BY DEF DataInv
<1>2. QED
  BY <1>1, DataInit, DataNext, PTL DEF Spec
-----------------------------------------------------------------------------
(* The functors that wait *)

QueuedIn(s, f) == \E i \in DOMAIN s : s[i].method = f

\* Some functor that waits in the loop calls the method f.
Queued(f) == QueuedIn(functors, f) \/ QueuedIn(pendingFunctors, f)

LEMMA InEmpty == \A f : ~QueuedIn(<<>>, f)
BY DEF QueuedIn

LEMMA InOne == \A x, f : QueuedIn(<<x>>, f) <=> x.method = f
BY DEF QueuedIn

LEMMA InAppend ==
    ASSUME NEW s \in Seq(FunctorType), NEW x \in FunctorType
    PROVE  \A f : QueuedIn(Append(s, x), f) <=> QueuedIn(s, f) \/ x.method = f
<1>1. /\ DOMAIN s = 1..Len(s) /\ Len(s) \in Nat
      /\ DOMAIN Append(s, x) = 1..(Len(s) + 1)
      /\ \A i \in 1..Len(s) : Append(s, x)[i] = s[i]
      /\ Append(s, x)[Len(s) + 1] = x
  BY AppendProperties, LenProperties
<1>2. 1..(Len(s) + 1) = 1..Len(s) \cup {Len(s) + 1}
  BY <1>1
<1>3. QED
  BY <1>1, <1>2, Zenon DEF QueuedIn

LEMMA InTail ==
    ASSUME NEW s \in Seq(FunctorType), s # <<>>
    PROVE  \A f : QueuedIn(s, f) <=> Head(s).method = f \/ QueuedIn(Tail(s), f)
<1>1. /\ DOMAIN s = 1..Len(s) /\ Len(s) \in Nat \ {0}
      /\ DOMAIN Tail(s) = 1..(Len(s) - 1)
      /\ \A i \in 1..(Len(s) - 1) : Tail(s)[i] = s[i + 1]
      /\ Head(s) = s[1]
  BY HeadTailProperties, LenProperties, EmptySeq
<1> SUFFICES ASSUME NEW f
             PROVE  QueuedIn(s, f) <=> Head(s).method = f \/ QueuedIn(Tail(s), f)
  OBVIOUS
<1>2. ASSUME NEW i \in DOMAIN s, s[i].method = f
      PROVE  Head(s).method = f \/ QueuedIn(Tail(s), f)
  <2>1. CASE i = 1
    BY <1>1, <1>2, <2>1
  <2>2. CASE i # 1
    <3>1. i - 1 \in DOMAIN Tail(s) /\ Tail(s)[i - 1] = s[i]
      BY <1>1, <2>2
    <3>2. QED
      BY <1>2, <3>1 DEF QueuedIn
  <2>3. QED
    BY <2>1, <2>2
<1>3. ASSUME NEW i \in DOMAIN Tail(s), Tail(s)[i].method = f
      PROVE  QueuedIn(s, f)
  <2>1. i + 1 \in DOMAIN s /\ s[i + 1] = Tail(s)[i]
    BY <1>1
  <2>2. QED
    BY <1>3, <2>1 DEF QueuedIn
<1>4. Head(s).method = f => QueuedIn(s, f)
  BY <1>1 DEF QueuedIn
<1>5. QED
  BY <1>2, <1>3, <1>4 DEF QueuedIn

\* A functor bound to the method g is posted.
Posts(g) == \E m \in Nat : pendingFunctors' = Append(pendingFunctors, Functor(g, m))

LEMMA PostQueued ==
    ASSUME QueuesTyped, NEW g \in Methods, Posts(g)
    PROVE  \A f : QueuedIn(pendingFunctors', f) <=> QueuedIn(pendingFunctors, f) \/ f = g
<1>1. PICK m \in Nat : pendingFunctors' = Append(pendingFunctors, Functor(g, m))
  BY DEF Posts
<1>2. Functor(g, m) \in FunctorType /\ Functor(g, m).method = g
  BY DEF Functor, FunctorType
<1>3. QED
  BY <1>1, <1>2, InAppend DEF QueuesTyped

LEMMA PostPosts == \A f : Post(f) => Posts(f)
BY DEF Post, Posts

LEMMA TakeQueued ==
    ASSUME QueuesTyped, NEW g, Takes(g)
    PROVE  \A f : QueuedIn(functors, f) <=> f = g \/ QueuedIn(functors', f)
BY InTail DEF QueuesTyped, Takes

\* The batch loses its first functor or stays.
Shrinks == UNCHANGED functors \/ \E g : Takes(g)

LEMMA ShrinkQueued ==
    ASSUME QueuesTyped, Shrinks
    PROVE  \A f : QueuedIn(functors', f) => QueuedIn(functors, f)
BY TakeQueued DEF Shrinks
-----------------------------------------------------------------------------
(* The beginning *)

\* Nothing has happened to the connection but that its loop may have taken
\* connectEstablished from the queue.
Fresh ==
    /\ events = {} /\ addedToLoop = FALSE /\ outputBuffer = <<>>
    /\ \/ pendingFunctors = <<Functor("connectEstablished", 0)>> /\ functors = <<>>
       \/ pendingFunctors = <<>> /\ functors = <<Functor("connectEstablished", 0)>>
    /\ revents = {} /\ callback = "none"
    /\ connections = TRUE /\ serverFunctors = <<>> /\ delayed = FALSE /\ holds = {}
    /\ call = [t \in Threads |-> "idle"]
    /\ wire = <<>> /\ taken = 0 /\ finSent = FALSE
    /\ sent = <<>> /\ accepted = <<>> /\ owed = {}
    /\ ups = 0 /\ messages = 0 /\ downs = 0
    /\ failed = {} /\ closes = 0

StartInv ==
    /\ state \in States
    /\ phase # "functors" => functors = <<>>
    /\ revents # {} => phase = "events"
    /\ state = "kConnecting" => Fresh
    /\ state # "kConnecting" => ups = 1 /\ ~Queued("connectEstablished")

\* Until connectEstablished has run nothing else can happen to the connection.
LEMMA FreshNext ==
    ASSUME StartInv, state = "kConnecting", Next
    PROVE  \/ RunConnectEstablished
           \/ /\ state' = "kConnecting"
              /\ Fresh'
              /\ phase' # "functors" => functors' = <<>>
<1> USE DEF connVars, loopVars, ownerVars, socketVars, sendVars, callbackVars, LoopIdle, StartInv
<1>1. Fresh
  OBVIOUS
<1>2. Ready = {}
  BY <1>1 DEF Fresh, Ready
<1>3. \A f : Takes(f) => f = "connectEstablished"
  BY <1>1 DEF Fresh, Takes, Functor
<1>4. CASE LoopStep
  <2>1. CASE Poll
    BY <1>1, <1>2, <2>1 DEF Poll, Fresh
  <2>2. ~(DispatchHangUp \/ DispatchError \/ DispatchRead \/ DispatchWrite \/ DelayExpires)
    BY <1>1 DEF Fresh, DispatchHangUp, DispatchError, DispatchRead, DispatchWrite, DelayExpires
  <2>3. CASE SwapPendingFunctors
    BY <1>1, <2>3 DEF SwapPendingFunctors, Fresh
  <2>4. CASE RunFunctor
    <3>1. ~(RunConnectDestroyed \/ RunSendInLoop \/ RunShutdownInLoop \/ RunForceCloseInLoop)
      BY <1>3 DEF RunConnectDestroyed, RunSendInLoop, RunShutdownInLoop, RunForceCloseInLoop
    <3>2. \A f \in {"writeComplete", "highWaterMark"} : ~RunUserCallback(f)
      BY <1>3 DEF RunUserCallback
    <3>3. QED
      BY <2>4, <3>1, <3>2 DEF RunFunctor
  <2>5. CASE EndFunctors
    BY <1>1, <2>5 DEF EndFunctors, Fresh
  <2>6. QED
    BY <1>4, <2>1, <2>2, <2>3, <2>4, <2>5 DEF LoopStep
<1>5. ~(UserStep \/ ReturnFromCallback)
  BY <1>1 DEF Fresh, UserStep, InCallback, LoopSend, LoopShutdown, LoopForceClose,
              LoopForceCloseWithDelay, ReturnFromCallback
<1>6. ASSUME NEW t \in Threads
      PROVE  ~((\E op \in ForeignOps : Begin(t, op)) \/ ThreadStep(t) \/ Release(t))
  BY <1>1 DEF Fresh, Begin, ThreadStep, PostSend, SetDisconnecting, PostClose, Release
<1>7. ~(RunServerFunctor \/ DestroyServer)
  BY <1>1 DEF Fresh, RunServerFunctor, DestroyServer
<1>8. CASE PeerSends \/ PeerCloses \/ PeerResets
  BY <1>1, <1>8 DEF PeerSends, PeerCloses, PeerResets, Fresh
<1>9. CASE PeerReads
  BY <1>1, <1>9 DEF PeerReads, Fresh
<1>10. QED
  BY <1>4, <1>5, <1>6, <1>7, <1>8, <1>9 DEF Next

\* A step of a connection that has been established: the batch loses at most
\* its first functor, and what is posted is not connectEstablished.
LEMMA StartStay ==
    ASSUME QueuesTyped, StartInv, state # "kConnecting",
           state' \in States \ {"kConnecting"}, UNCHANGED <<ups, phase>>,
           revents' \subseteq revents, Shrinks,
           UNCHANGED pendingFunctors \/ \E g \in Methods \ {"connectEstablished"} : Posts(g)
    PROVE  StartInv'
<1>1. phase' # "functors" => functors' = <<>>
  <2>1. phase # "functors" => UNCHANGED functors
    BY DEF Shrinks, Takes, LoopIdle
  <2>2. QED
    BY <2>1 DEF StartInv
<1>2. ~QueuedIn(functors', "connectEstablished")
  BY ShrinkQueued DEF StartInv, Queued
<1>3. ~QueuedIn(pendingFunctors', "connectEstablished")
  BY PostQueued DEF StartInv, Queued
<1>4. QED
  BY <1>1, <1>2, <1>3 DEF StartInv, Queued

LEMMA SendInLoopPosts ==
    ASSUME NEW m, SendInLoop(m)
    PROVE  UNCHANGED pendingFunctors \/ Posts("writeComplete") \/ Posts("highWaterMark")
<1>1. \/ UNCHANGED pendingFunctors
      \/ Post("writeComplete")
      \/ Post("highWaterMark")
  BY ZenonT(60) DEF SendInLoop
<1>2. QED
  BY <1>1, PostPosts

LEMMA StartLoop ==
    ASSUME QueuesTyped, StartInv, state # "kConnecting", LoopStep
    PROVE  StartInv'
<1> USE DEF connVars, loopVars, ownerVars, socketVars, sendVars, callbackVars, LoopIdle, States
<1>1. state \in States \ {"kConnecting"} /\ ups = 1
  BY DEF StartInv
<1>2. CASE Poll
  BY <1>2 DEF Poll, StartInv, Queued
<1>hup. CASE DispatchHangUp
  <2>1. state' \in States \ {"kConnecting"}
    BY <1>1, <1>hup DEF DispatchHangUp, HandleClose
  <2>2. QED
    BY <1>hup, <2>1, StartStay DEF DispatchHangUp, Shrinks
<1>3. CASE DispatchError
  BY <1>1, <1>3, StartStay DEF DispatchError, Shrinks
<1>4. CASE DispatchRead
  <2>1. state' \in States \ {"kConnecting"}
    BY <1>1, <1>4 DEF DispatchRead, HandleRead, HandleClose
  <2>2. QED
    BY <1>4, <2>1, StartStay DEF DispatchRead, Shrinks
<1>5. CASE DispatchWrite
  <2>1. UNCHANGED state /\ (UNCHANGED pendingFunctors \/ Post("writeComplete"))
    BY <1>5 DEF DispatchWrite, HandleWrite
  <2>2. UNCHANGED pendingFunctors \/ Posts("writeComplete")
    BY <2>1, PostPosts
  <2>3. QED
    BY <1>1, <1>5, <2>1, <2>2, StartStay DEF DispatchWrite, Shrinks, Methods
<1>6. CASE DelayExpires
  <2>1. state' \in States \ {"kConnecting"} /\ (UNCHANGED pendingFunctors \/ Post("forceCloseInLoop"))
    BY <1>1, <1>6 DEF DelayExpires
  <2>2. UNCHANGED pendingFunctors \/ Posts("forceCloseInLoop")
    BY <2>1, PostPosts
  <2>3. QED
    BY <1>6, <2>1, <2>2, StartStay DEF DelayExpires, Shrinks, Methods
<1>7. CASE SwapPendingFunctors
  BY <1>1, <1>7, InEmpty DEF SwapPendingFunctors, StartInv, Queued
<1>8. CASE RunFunctor
  <2>1. ~RunConnectEstablished
    BY <1>1, TakeQueued DEF StartInv, Queued, RunConnectEstablished
  <2>2. CASE RunConnectDestroyed
    BY <1>1, <2>2, StartStay DEF RunConnectDestroyed, ConnectDestroyed, Takes, Shrinks
  <2>3. CASE RunSendInLoop
    <3>1. UNCHANGED state
      BY <2>3 DEF RunSendInLoop, SendInLoop
    <3>2. UNCHANGED pendingFunctors \/ Posts("writeComplete") \/ Posts("highWaterMark")
      BY <2>3, SendInLoopPosts DEF RunSendInLoop
    <3>3. Takes("sendInLoop") /\ UNCHANGED ups
      BY <2>3 DEF RunSendInLoop
    <3>4. QED
      BY <1>1, <3>1, <3>2, <3>3, StartStay DEF Takes, Shrinks, Methods
  <2>4. CASE RunShutdownInLoop
    BY <1>1, <2>4, StartStay DEF RunShutdownInLoop, Takes, Shrinks
  <2>5. CASE RunForceCloseInLoop
    BY <1>1, <2>5, StartStay DEF RunForceCloseInLoop, HandleClose, Takes, Shrinks
  <2>6. ASSUME NEW f \in {"writeComplete", "highWaterMark"}, RunUserCallback(f)
        PROVE  StartInv'
    BY <1>1, <2>6, StartStay DEF RunUserCallback, Takes, Shrinks
  <2>7. QED
    BY <1>8, <2>1, <2>2, <2>3, <2>4, <2>5, <2>6 DEF RunFunctor
<1>9. CASE EndFunctors
  BY <1>1, <1>9 DEF EndFunctors, StartInv, Queued
<1>10. QED
  BY <1>2, <1>hup, <1>3, <1>4, <1>5, <1>6, <1>7, <1>8, <1>9 DEF LoopStep

LEMMA StartOthers ==
    ASSUME QueuesTyped, StartInv, state # "kConnecting", Next, ~LoopStep
    PROVE  StartInv'
<1> USE DEF connVars, loopVars, ownerVars, socketVars, sendVars, callbackVars, States
<1>1. state \in States \ {"kConnecting"} /\ ups = 1
  BY DEF StartInv
<1>2. CASE LoopSend
  <2>1. UNCHANGED state /\ SendInLoop(Len(sent'))
    BY <1>2 DEF LoopSend, SendInLoop
  <2>2. UNCHANGED pendingFunctors \/ Posts("writeComplete") \/ Posts("highWaterMark")
    BY <2>1, SendInLoopPosts
  <2>3. QED
    BY <1>1, <1>2, <2>1, <2>2, StartStay DEF LoopSend, Shrinks, Methods
<1>3. CASE LoopShutdown
  BY <1>1, <1>3, StartStay DEF LoopShutdown, Shrinks
<1>4. CASE LoopForceClose
  <2>1. Posts("forceCloseInLoop")
    BY <1>4, PostPosts DEF LoopForceClose
  <2>2. QED
    BY <1>1, <1>4, <2>1, StartStay DEF LoopForceClose, Shrinks, Methods
<1>5. CASE LoopForceCloseWithDelay
  BY <1>1, <1>5, StartStay DEF LoopForceCloseWithDelay, Shrinks
<1>6. CASE ReturnFromCallback
  <2>1. UNCHANGED pendingFunctors \/ Post("connectDestroyed")
    BY <1>6 DEF ReturnFromCallback, RemoveConnectionInLoop
  <2>2. UNCHANGED pendingFunctors \/ Posts("connectDestroyed")
    BY <2>1, PostPosts
  <2>3. QED
    BY <1>1, <1>6, <2>2, StartStay DEF ReturnFromCallback, Shrinks, Methods
<1>7. ASSUME NEW t \in Threads,
             (\E op \in ForeignOps : Begin(t, op)) \/ ThreadStep(t) \/ Release(t)
      PROVE  StartInv'
  <2>1. CASE \E op \in ForeignOps : Begin(t, op)
    BY <1>1, <2>1, StartStay DEF Begin, Shrinks
  <2>2. CASE PostSend(t)
    <3>1. Posts("sendInLoop")
      <4>1. Len(sent') \in Nat
        BY <2>2, PostMsgType DEF PostSend
      <4>2. QED
        BY <2>2, <4>1 DEF PostSend, Posts
    <3>2. QED
      BY <1>1, <2>2, <3>1, StartStay DEF PostSend, Shrinks, Methods
  <2>3. CASE SetDisconnecting(t)
    BY <1>1, <2>3, StartStay DEF SetDisconnecting, Shrinks
  <2>4. CASE PostClose(t)
    <3>1. Posts("shutdownInLoop") \/ Posts("forceCloseInLoop")
      BY <2>4, PostPosts DEF PostClose
    <3>2. QED
      BY <1>1, <2>4, <3>1, StartStay DEF PostClose, Shrinks, Methods
  <2>5. CASE Release(t)
    BY <1>1, <2>5, StartStay DEF Release, Shrinks
  <2>6. QED
    BY <1>7, <2>1, <2>2, <2>3, <2>4, <2>5 DEF ThreadStep
<1>8. CASE RunServerFunctor
  <2>1. Posts("connectDestroyed")
    BY <1>8, PostPosts DEF RunServerFunctor, RemoveConnectionInLoop
  <2>2. QED
    BY <1>1, <1>8, <2>1, StartStay DEF RunServerFunctor, Shrinks, Methods
<1>9. CASE DestroyServer
  BY <1>1, <1>9, StartStay DEF DestroyServer, ConnectDestroyed, Shrinks
<1>10. CASE PeerSends \/ PeerReads \/ PeerCloses \/ PeerResets
  BY <1>1, <1>10, StartStay DEF PeerSends, PeerReads, PeerCloses, PeerResets, Shrinks
<1>11. QED
  BY <1>2, <1>3, <1>4, <1>5, <1>6, <1>7, <1>8, <1>9, <1>10 DEF Next, UserStep

LEMMA StartInit == Init => StartInv
BY DEF Init, StartInv, Fresh, States

LEMMA StartNext == QueuesTyped /\ StartInv /\ [Next]_vars => StartInv'
<1> SUFFICES ASSUME QueuesTyped, StartInv, [Next]_vars PROVE StartInv'
  OBVIOUS
<1>1. CASE UNCHANGED vars
  BY <1>1 DEF StartInv, Fresh, Queued, vars, connVars, loopVars, ownerVars, socketVars,
              sendVars, callbackVars
<1>2. CASE Next /\ state = "kConnecting"
  <2>1. CASE RunConnectEstablished
    <3>1. /\ Takes("connectEstablished") /\ Fresh
          /\ UNCHANGED <<pendingFunctors, phase, revents>>
          /\ state' = "kConnected" /\ ups' = ups + 1
      BY <1>2, <2>1 DEF StartInv, RunConnectEstablished, Takes
    <3>2. functors' = <<>> /\ pendingFunctors' = <<>> /\ ups' = 1
      BY <3>1 DEF Fresh, Takes
    <3>3. QED
      BY <3>1, <3>2, InEmpty DEF StartInv, Queued, States
  <2>2. CASE /\ state' = "kConnecting" /\ Fresh'
             /\ phase' # "functors" => functors' = <<>>
    BY <2>2 DEF StartInv, States, Fresh
  <2>3. QED
    BY <1>2, <2>1, <2>2, FreshNext
<1>3. CASE Next /\ state # "kConnecting"
  BY <1>3, StartLoop, StartOthers
<1>4. QED
  BY <1>1, <1>2, <1>3
-----------------------------------------------------------------------------
(* The callbacks of a session *)

\* Other threads only send, as the header asks (TcpConnection.h:70).  A foreign
\* shutdown() may store kDisconnecting over kDisconnected, and data sent after
\* that registers the closed channel again, for POLLOUT alone.
OthersOnlySend == ForeignOps \subseteq {"send"}

\* A connection that is down listens to nothing; one that is up always reads,
\* so that POLLHUP never comes without POLLIN.
SessionInv ==
    /\ call \in [Threads -> {"idle", "send"}]
    /\ \/ downs = 0 /\ state # "kDisconnected"
       \/ downs = 1 /\ state = "kDisconnected" /\ events = {} /\ "IN" \notin revents
    /\ state \in {"kConnected", "kDisconnecting"} => "read" \in events
    /\ "HUP" \notin revents

\* Where the connection goes down it was up.
LEMMA UpBefore ==
    ASSUME StartInv, SessionInv
    PROVE  /\ state \in {"kConnected", "kDisconnecting"} => ups = 1 /\ downs = 0
           /\ "IN" \in revents => ups = 1 /\ downs = 0 /\ state \in {"kConnected", "kDisconnecting"}
BY DEF StartInv, SessionInv, Fresh, States

\* Steps that keep state_, and turn at most POLLOUT on or off.
LEMMA SessionStay ==
    ASSUME SessionInv, UNCHANGED <<state, downs, call>>, revents' \subseteq revents,
           \/ events' \in {events, events \ {"write"}}
           \/ events' = events \cup {"write"} /\ state # "kDisconnected"
    PROVE  SessionInv'
BY DEF SessionInv

\* handleClose and connectDestroyed
LEMMA SessionDown ==
    ASSUME SessionInv, state' = "kDisconnected", downs = 0, downs' = 1, events' = {},
           "IN" \notin revents', revents' \subseteq revents, UNCHANGED call
    PROVE  SessionInv'
BY DEF SessionInv

\* shutdown() and forceClose() called on the loop's thread
LEMMA SessionForced ==
    ASSUME SessionInv, state \in {"kConnected", "kDisconnecting"}, state' = "kDisconnecting",
           UNCHANGED <<downs, call, events, revents>>
    PROVE  SessionInv'
BY DEF SessionInv

LEMMA SendInLoopEvents ==
    ASSUME NEW m, SendInLoop(m)
    PROVE  /\ UNCHANGED state
           /\ \/ UNCHANGED events
              \/ events' = events \cup {"write"} /\ state # "kDisconnected"
BY DEF SendInLoop, EventsBecome, connVars

LEMMA SessionLoop ==
    ASSUME QueuesTyped, StartInv, SessionInv, state # "kConnecting", LoopStep
    PROVE  SessionInv'
<1> USE DEF connVars, loopVars, ownerVars, socketVars, sendVars, callbackVars, LoopIdle
<1>1. CASE Poll
  <2>1. state \in {"kConnected", "kDisconnecting"} => "read" \in events
    BY DEF SessionInv
  <2>2. state = "kDisconnected" => events = {}
    BY DEF SessionInv
  <2>3. "HUP" \notin Ready /\ (events = {} => "IN" \notin Ready)
    BY <2>1, <2>2 DEF StartInv, States, Ready
  <2>4. UNCHANGED <<state, events, call, downs>> /\ revents' = Ready
    BY <1>1 DEF Poll
  <2>5. QED
    BY <2>3, <2>4 DEF SessionInv
<1>2. ~DispatchHangUp
  BY DEF DispatchHangUp, SessionInv
<1>3. CASE DispatchError
  BY <1>3, SessionStay DEF DispatchError
<1>4. CASE DispatchRead
  <2>1. UNCHANGED call /\ revents' = revents \ {"IN"} /\ "IN" \in revents
    BY <1>4 DEF DispatchRead
  <2>2. \/ UNCHANGED <<state, events, downs>>
        \/ downs' = downs + 1 /\ state' = "kDisconnected" /\ events' = {}
    BY <1>4 DEF DispatchRead, HandleRead, HandleClose, EventsBecome
  <2>3. downs = 0
    BY <2>1, UpBefore
  <2>4. QED
    BY <2>1, <2>2, <2>3, SessionStay, SessionDown
<1>5. CASE DispatchWrite
  <2>1. UNCHANGED state /\ events' \in {events, events \ {"write"}}
    BY <1>5 DEF DispatchWrite, HandleWrite, StopWriting, EventsBecome
  <2>2. QED
    BY <1>5, <2>1, SessionStay DEF DispatchWrite
<1>6. CASE DelayExpires
  <2>1. UNCHANGED <<downs, call, events, revents>>
        /\ \/ UNCHANGED state
           \/ state \in {"kConnected", "kDisconnecting"} /\ state' = "kDisconnecting"
    BY <1>6 DEF DelayExpires
  <2>2. QED
    BY <2>1, SessionStay, SessionForced
<1>7. CASE SwapPendingFunctors
  BY <1>7, SessionStay DEF SwapPendingFunctors
<1>8. CASE RunFunctor
  <2>1. ~RunConnectEstablished
    BY TakeQueued DEF StartInv, Queued, RunConnectEstablished
  <2>2. "IN" \notin revents /\ UNCHANGED <<revents, call>>
    BY <1>8 DEF RunFunctor, RunConnectEstablished, RunConnectDestroyed, RunSendInLoop,
                RunShutdownInLoop, RunForceCloseInLoop, RunUserCallback, Takes, StartInv
  <2>3. CASE RunConnectDestroyed
    <3>1. \/ UNCHANGED <<state, events, downs>>
          \/ state = "kConnected" /\ downs' = downs + 1 /\ state' = "kDisconnected" /\ events' = {}
      BY <2>3 DEF RunConnectDestroyed, ConnectDestroyed, EventsBecome
    <3>2. state = "kConnected" => downs = 0
      BY UpBefore
    <3>3. QED
      BY <2>2, <3>1, <3>2, SessionStay, SessionDown
  <2>4. CASE RunSendInLoop
    <3>1. UNCHANGED downs /\ SendInLoop(Head(functors).msg)
      BY <2>4 DEF RunSendInLoop
    <3>2. QED
      BY <2>2, <3>1, SendInLoopEvents, SessionStay
  <2>5. CASE RunShutdownInLoop
    BY <2>2, <2>5, SessionStay DEF RunShutdownInLoop
  <2>6. CASE RunForceCloseInLoop
    <3>1. \/ UNCHANGED <<state, events, downs>>
          \/ /\ state \in {"kConnected", "kDisconnecting"}
             /\ downs' = downs + 1 /\ state' = "kDisconnected" /\ events' = {}
      BY <2>6 DEF RunForceCloseInLoop, HandleClose, EventsBecome
    <3>2. state \in {"kConnected", "kDisconnecting"} => downs = 0
      BY UpBefore
    <3>3. QED
      BY <2>2, <3>1, <3>2, SessionStay, SessionDown
  <2>7. ASSUME NEW f \in {"writeComplete", "highWaterMark"}, RunUserCallback(f)
        PROVE  SessionInv'
    BY <2>2, <2>7, SessionStay DEF RunUserCallback
  <2>8. QED
    BY <1>8, <2>1, <2>3, <2>4, <2>5, <2>6, <2>7 DEF RunFunctor
<1>9. CASE EndFunctors
  BY <1>9, SessionStay DEF EndFunctors
<1>10. QED
  BY <1>1, <1>2, <1>3, <1>4, <1>5, <1>6, <1>7, <1>8, <1>9 DEF LoopStep

LEMMA SessionOthers ==
    ASSUME OthersOnlySend, StartInv, SessionInv, state # "kConnecting", Next, ~LoopStep
    PROVE  SessionInv'
<1> USE DEF connVars, loopVars, ownerVars, socketVars, sendVars, callbackVars
<1>1. CASE LoopSend
  <2>1. UNCHANGED <<downs, call, revents>> /\ SendInLoop(Len(sent'))
    BY <1>1 DEF LoopSend
  <2>2. QED
    BY <2>1, SendInLoopEvents, SessionStay
<1>2. CASE LoopShutdown
  BY <1>2, SessionForced DEF LoopShutdown
<1>3. CASE LoopForceClose
  BY <1>3, SessionForced DEF LoopForceClose
<1>4. CASE LoopForceCloseWithDelay
  BY <1>4, SessionForced DEF LoopForceCloseWithDelay
<1>5. CASE ReturnFromCallback
  BY <1>5, SessionStay DEF ReturnFromCallback
<1>6. ASSUME NEW t \in Threads,
             (\E op \in ForeignOps : Begin(t, op)) \/ ThreadStep(t) \/ Release(t)
      PROVE  SessionInv'
  <2>1. ASSUME NEW op \in ForeignOps, Begin(t, op) PROVE SessionInv'
    <3>1. op = "send"
      BY DEF OthersOnlySend
    <3>2. QED
      BY <2>1, <3>1 DEF Begin, SessionInv
  <2>2. CASE PostSend(t)
    BY <2>2 DEF PostSend, SessionInv
  <2>3. ~SetDisconnecting(t) /\ ~PostClose(t)
    BY DEF SetDisconnecting, PostClose, SessionInv
  <2>4. CASE Release(t)
    BY <2>4, SessionStay DEF Release
  <2>5. QED
    BY <1>6, <2>1, <2>2, <2>3, <2>4 DEF ThreadStep
<1>7. CASE RunServerFunctor
  BY <1>7, SessionStay DEF RunServerFunctor
<1>8. CASE DestroyServer
  <2>1. UNCHANGED <<call, revents>> /\ "IN" \notin revents
    BY <1>8 DEF DestroyServer, StartInv, LoopIdle
  <2>2. \/ UNCHANGED <<state, events, downs>>
        \/ state = "kConnected" /\ downs' = downs + 1 /\ state' = "kDisconnected" /\ events' = {}
    BY <1>8 DEF DestroyServer, ConnectDestroyed, EventsBecome
  <2>3. state = "kConnected" => downs = 0
    BY UpBefore
  <2>4. QED
    BY <2>1, <2>2, <2>3, SessionStay, SessionDown
<1>9. CASE PeerSends \/ PeerReads \/ PeerCloses \/ PeerResets
  BY <1>9, SessionStay DEF PeerSends, PeerReads, PeerCloses, PeerResets
<1>10. QED
  BY <1>1, <1>2, <1>3, <1>4, <1>5, <1>6, <1>7, <1>8, <1>9 DEF Next, UserStep

LEMMA SessionFresh == ASSUME Fresh, state = "kConnecting" PROVE SessionInv
BY DEF Fresh, SessionInv

LEMMA SessionNext ==
    ASSUME OthersOnlySend, QueuesTyped, StartInv, SessionInv, [Next]_vars
    PROVE  SessionInv'
<1>1. CASE UNCHANGED vars
  BY <1>1 DEF SessionInv, vars, connVars, loopVars, callbackVars
<1>2. CASE Next /\ state = "kConnecting"
  <2>1. CASE RunConnectEstablished
    <3>1. Fresh /\ revents' = revents
      BY <1>2, <2>1 DEF StartInv, RunConnectEstablished, Takes
    <3>2. state' = "kConnected" /\ events' = {"read"} /\ UNCHANGED <<call, downs>>
      BY <2>1 DEF RunConnectEstablished, EventsBecome
    <3>3. QED
      BY <3>1, <3>2 DEF Fresh, SessionInv
  <2>2. CASE state' = "kConnecting" /\ Fresh'
    BY <2>2 DEF Fresh, SessionInv
  <2>3. QED
    BY <1>2, <2>1, <2>2, FreshNext
<1>3. CASE Next /\ state # "kConnecting"
  BY <1>3, SessionLoop, SessionOthers
<1>4. QED
  BY <1>1, <1>2, <1>3

\* What a step does to the callbacks the user has seen.
LEMMA SessionStep ==
    ASSUME QueuesTyped, StartInv, SessionInv, [Next]_vars
    PROVE  [Life!Next]_(Life!vars)
<1> USE DEF connVars, loopVars, ownerVars, socketVars, sendVars, callbackVars,
            Life!vars, Life!Next, Life!IsUp
<1>1. CASE UNCHANGED vars
  BY <1>1 DEF vars
<1>2. CASE RunConnectEstablished
  <2>1. Queued("connectEstablished")
    BY <1>2, TakeQueued DEF RunConnectEstablished, Queued
  <2>2. ups = 0 /\ downs = 0
    BY <2>1 DEF StartInv, Fresh
  <2>3. QED
    BY <1>2, <2>2 DEF RunConnectEstablished, Life!Up
<1>3. CASE DispatchRead
  <2>1. ups = 1 /\ downs = 0
    BY <1>3, UpBefore DEF DispatchRead
  <2>2. QED
    BY <1>3, <2>1 DEF DispatchRead, HandleRead, HandleClose, Life!Message, Life!Down
<1>4. CASE RunForceCloseInLoop
  <2>1. state \in {"kConnected", "kDisconnecting"} => ups = 1 /\ downs = 0
    BY UpBefore
  <2>2. QED
    BY <1>4, <2>1 DEF RunForceCloseInLoop, HandleClose, Life!Down
<1>5. CASE RunConnectDestroyed \/ DestroyServer
  <2>1. ConnectDestroyed /\ UNCHANGED <<ups, messages>>
    BY <1>5 DEF RunConnectDestroyed, DestroyServer
  <2>2. QED
    BY <2>1, UpBefore DEF ConnectDestroyed, Life!Down
<1>6. CASE LoopStep /\ ~DispatchRead /\ ~RunFunctor
  <2>1. ~DispatchHangUp
    BY DEF DispatchHangUp, SessionInv
  <2>2. QED
    BY <1>6, <2>1 DEF LoopStep, Poll, DispatchError, DispatchWrite, DelayExpires,
                      SwapPendingFunctors, EndFunctors
<1>7. CASE RunSendInLoop \/ RunShutdownInLoop
           \/ \E f \in {"writeComplete", "highWaterMark"} : RunUserCallback(f)
  BY <1>7 DEF RunSendInLoop, RunShutdownInLoop, RunUserCallback
<1>8. CASE UserStep \/ ReturnFromCallback
  BY <1>8 DEF UserStep, LoopSend, LoopShutdown, LoopForceClose, LoopForceCloseWithDelay,
              ReturnFromCallback
<1>9. CASE \E t \in Threads : (\E op \in ForeignOps : Begin(t, op)) \/ ThreadStep(t) \/ Release(t)
  BY <1>9 DEF Begin, ThreadStep, PostSend, SetDisconnecting, PostClose, Release
<1>10. CASE RunServerFunctor \/ PeerSends \/ PeerReads \/ PeerCloses \/ PeerResets
  BY <1>10 DEF RunServerFunctor, PeerSends, PeerReads, PeerCloses, PeerResets
<1>11. QED
  BY <1>1, <1>2, <1>3, <1>4, <1>5, <1>6, <1>7, <1>8, <1>9, <1>10 DEF Next, LoopStep, RunFunctor

LEMMA SessionInit == Init => SessionInv /\ Life!Init
BY DEF Init, SessionInv, Life!Init

\* The user sees the connection come up once, then messages, then go down once:
\* the connection implements Session, ~TcpServer included, as long as other
\* threads only send.
THEOREM ImplementsSession == ASSUME OthersOnlySend PROVE Spec => SessionSpec
<1>1. Init => DataInv /\ StartInv /\ SessionInv
  BY DataInit, StartInit, SessionInit
<1>2. DataInv /\ StartInv /\ SessionInv /\ [Next]_vars => (DataInv /\ StartInv /\ SessionInv)'
  <2>1. DataInv => QueuesTyped
    BY DEF DataInv
  <2>2. QED
    BY <2>1, DataNext, StartNext, SessionNext
<1>3. DataInv /\ StartInv /\ SessionInv /\ [Next]_vars => [Life!Next]_(Life!vars)
  <2>1. DataInv => QueuesTyped
    BY DEF DataInv
  <2>2. QED
    BY <2>1, SessionStep
<1>4. Init => Life!Init
  BY SessionInit
<1>5. QED
  BY <1>1, <1>2, <1>3, <1>4, PTL DEF Spec, SessionSpec, Life!Spec
-----------------------------------------------------------------------------
(* No message after the end *)

\* A channel that reads, or is about to read, belongs to a connection that has
\* not gone down: whatever another thread stores in state_, enableReading() is
\* never called again.
ReadInv ==
    /\ "read" \in events \/ "IN" \in revents => downs = 0
    /\ "HUP" \in revents => "IN" \notin revents

\* Steps that do not turn reading on.
LEMMA ReadStay ==
    ASSUME ReadInv, UNCHANGED downs, events' \subseteq events \cup {"write"},
           revents' \subseteq revents
    PROVE  ReadInv'
BY DEF ReadInv

\* handleClose and connectDestroyed
LEMMA ReadDown ==
    ASSUME ReadInv, events' = {}, "IN" \notin revents'
    PROVE  ReadInv'
BY DEF ReadInv

LEMMA ReadFunctor ==
    ASSUME QueuesTyped, StartInv, ReadInv, state # "kConnecting", RunFunctor
    PROVE  ReadInv'
<1> USE DEF connVars, loopVars, callbackVars, LoopIdle
<1>1. ~RunConnectEstablished
  BY TakeQueued DEF StartInv, Queued, RunConnectEstablished
<1>2. "IN" \notin revents /\ UNCHANGED revents
  BY DEF RunFunctor, RunConnectEstablished, RunConnectDestroyed, RunSendInLoop,
         RunShutdownInLoop, RunForceCloseInLoop, RunUserCallback, Takes, StartInv
<1>3. CASE RunConnectDestroyed
  <2>1. UNCHANGED <<events, downs>> \/ events' = {}
    BY <1>3 DEF RunConnectDestroyed, ConnectDestroyed, EventsBecome
  <2>2. QED
    BY <1>2, <2>1, ReadStay, ReadDown
<1>4. CASE RunSendInLoop
  <2>1. UNCHANGED downs /\ SendInLoop(Head(functors).msg)
    BY <1>4 DEF RunSendInLoop
  <2>2. QED
    BY <1>2, <2>1, SendInLoopEvents, ReadStay
<1>5. CASE RunForceCloseInLoop
  <2>1. UNCHANGED <<events, downs>> \/ events' = {}
    BY <1>5 DEF RunForceCloseInLoop, HandleClose, EventsBecome
  <2>2. QED
    BY <1>2, <2>1, ReadStay, ReadDown
<1>6. CASE RunShutdownInLoop \/ \E f \in {"writeComplete", "highWaterMark"} : RunUserCallback(f)
  BY <1>2, <1>6, ReadStay DEF RunShutdownInLoop, RunUserCallback
<1>7. QED
  BY <1>1, <1>3, <1>4, <1>5, <1>6 DEF RunFunctor

LEMMA ReadLoop ==
    ASSUME QueuesTyped, StartInv, ReadInv, state # "kConnecting", LoopStep
    PROVE  ReadInv'
<1> USE DEF connVars, loopVars, callbackVars, LoopIdle
<1>1. CASE Poll
  <2>1. /\ "IN" \in Ready => "read" \in events
        /\ "HUP" \in Ready => "IN" \notin Ready
    BY DEF Ready
  <2>2. UNCHANGED <<events, downs>> /\ revents' = Ready
    BY <1>1 DEF Poll
  <2>3. QED
    BY <2>1, <2>2 DEF ReadInv
<1>2. CASE DispatchHangUp
  <2>1. events' = {} /\ "IN" \notin revents'
    BY <1>2 DEF DispatchHangUp, HandleClose, EventsBecome, ReadInv
  <2>2. QED
    BY <2>1, ReadDown
<1>3. CASE DispatchError \/ SwapPendingFunctors \/ EndFunctors \/ DelayExpires
  BY <1>3, ReadStay DEF DispatchError, SwapPendingFunctors, EndFunctors, DelayExpires
<1>4. CASE DispatchRead
  <2>1. revents' = revents \ {"IN"} /\ (UNCHANGED <<events, downs>> \/ events' = {})
    BY <1>4 DEF DispatchRead, HandleRead, HandleClose, EventsBecome
  <2>2. QED
    BY <2>1, ReadStay, ReadDown
<1>5. CASE DispatchWrite
  <2>1. events' \subseteq events
    BY <1>5 DEF DispatchWrite, HandleWrite, StopWriting, EventsBecome
  <2>2. QED
    BY <1>5, <2>1, ReadStay DEF DispatchWrite
<1>6. QED
  BY <1>1, <1>2, <1>3, <1>4, <1>5, ReadFunctor DEF LoopStep

LEMMA ReadOthers ==
    ASSUME StartInv, ReadInv, Next, ~LoopStep
    PROVE  ReadInv'
<1> USE DEF connVars, loopVars, ownerVars, socketVars, callbackVars
<1>1. CASE LoopSend
  <2>1. UNCHANGED <<downs, revents>> /\ SendInLoop(Len(sent'))
    BY <1>1 DEF LoopSend
  <2>2. QED
    BY <2>1, SendInLoopEvents, ReadStay
<1>2. CASE LoopShutdown \/ LoopForceClose \/ LoopForceCloseWithDelay \/ ReturnFromCallback
  BY <1>2, ReadStay DEF LoopShutdown, LoopForceClose, LoopForceCloseWithDelay, ReturnFromCallback
<1>3. ASSUME NEW t \in Threads,
             (\E op \in ForeignOps : Begin(t, op)) \/ ThreadStep(t) \/ Release(t)
      PROVE  ReadInv'
  BY <1>3, ReadStay DEF Begin, ThreadStep, PostSend, SetDisconnecting, PostClose, Release
<1>4. CASE DestroyServer
  <2>1. UNCHANGED revents /\ "IN" \notin revents
    BY <1>4 DEF DestroyServer, StartInv, LoopIdle
  <2>2. UNCHANGED <<events, downs>> \/ events' = {}
    BY <1>4 DEF DestroyServer, ConnectDestroyed, EventsBecome
  <2>3. QED
    BY <2>1, <2>2, ReadStay, ReadDown
<1>5. CASE RunServerFunctor \/ PeerSends \/ PeerReads \/ PeerCloses \/ PeerResets
  BY <1>5, ReadStay DEF RunServerFunctor, PeerSends, PeerReads, PeerCloses, PeerResets
<1>6. QED
  BY <1>1, <1>2, <1>3, <1>4, <1>5 DEF Next, UserStep

LEMMA ReadNext ==
    ASSUME QueuesTyped, StartInv, ReadInv, [Next]_vars
    PROVE  ReadInv'
<1>1. CASE UNCHANGED vars
  BY <1>1 DEF ReadInv, vars, connVars, loopVars, callbackVars
<1>2. CASE Next /\ state = "kConnecting"
  <2>1. CASE RunConnectEstablished
    BY <1>2, <2>1 DEF StartInv, Fresh, RunConnectEstablished, Takes, ReadInv
  <2>2. CASE Fresh'
    BY <2>2 DEF Fresh, ReadInv
  <2>3. QED
    BY <1>2, <2>1, <2>2, FreshNext
<1>3. CASE Next /\ state # "kConnecting"
  BY <1>3, ReadLoop, ReadOthers
<1>4. QED
  BY <1>1, <1>2, <1>3

\* Only handleRead delivers a message, and only while the connection is up.
LEMMA ReadStep ==
    ASSUME QueuesTyped, StartInv, ReadInv, [Next]_vars, messages' # messages
    PROVE  ups = 1 /\ downs = 0
<1> USE DEF loopVars, ownerVars, callbackVars
<1>1. CASE DispatchRead
  <2>1. "IN" \in revents
    BY <1>1 DEF DispatchRead
  <2>2. QED
    BY <2>1 DEF ReadInv, StartInv, Fresh
<1>2. ~(UNCHANGED vars)
  BY DEF vars
<1>3. LoopStep => DispatchRead
  BY DEF LoopStep, Poll, DispatchHangUp, DispatchError, DispatchWrite, DelayExpires,
         SwapPendingFunctors, EndFunctors, RunFunctor, RunConnectEstablished,
         RunConnectDestroyed, RunSendInLoop, RunShutdownInLoop, RunForceCloseInLoop,
         RunUserCallback
<1>4. ~(UserStep \/ ReturnFromCallback \/ RunServerFunctor \/ DestroyServer)
  BY DEF UserStep, LoopSend, LoopShutdown, LoopForceClose, LoopForceCloseWithDelay,
         ReturnFromCallback, RunServerFunctor, DestroyServer
<1>5. ASSUME NEW t \in Threads
      PROVE  ~((\E op \in ForeignOps : Begin(t, op)) \/ ThreadStep(t) \/ Release(t))
  BY DEF Begin, ThreadStep, PostSend, SetDisconnecting, PostClose, Release
<1>6. ~(PeerSends \/ PeerReads \/ PeerCloses \/ PeerResets)
  BY DEF PeerSends, PeerReads, PeerCloses, PeerResets
<1>7. QED
  BY <1>1, <1>2, <1>3, <1>4, <1>5, <1>6 DEF Next

\* Messages come only between "up" and the first "down", for any calls of any
\* threads and a server destroyed at any time its loop runs functors.
THEOREM NoMessageAfterDown == Spec => MessagesWhileUp
<1>1. Init => DataInv /\ StartInv /\ ReadInv
  BY DataInit, StartInit DEF Init, ReadInv
<1>2. DataInv /\ StartInv /\ ReadInv /\ [Next]_vars => (DataInv /\ StartInv /\ ReadInv)'
  <2>1. DataInv => QueuesTyped
    BY DEF DataInv
  <2>2. QED
    BY <2>1, DataNext, StartNext, ReadNext
<1>3. DataInv /\ StartInv /\ ReadInv /\ [Next]_vars => [messages' # messages => Life!IsUp]_vars
  <2>1. DataInv => QueuesTyped
    BY DEF DataInv
  <2>2. QED
    BY <2>1, ReadStep DEF Life!IsUp
<1>4. QED
  BY <1>1, <1>2, <1>3, PTL DEF Spec, MessagesWhileUp
-----------------------------------------------------------------------------
(* The life of the connection *)

\* If ~TcpServer may find the connection, nobody makes it kDisconnecting.
NoneDisconnecting == ServerMayDie => LoopOps \subseteq {"send"}

\* The map lets go of the connection when it goes down: first the callback runs,
\* then the server's loop erases it, then connectDestroyed waits for its turn.
LifeInv ==
    /\ failed = {}
    /\ state = "kDisconnected" => events = {}
    /\ ServerMayDie => state # "kDisconnecting" /\ delayed = FALSE
    /\ state # "kDisconnected" =>
           connections = TRUE /\ serverFunctors = <<>> /\ callback \notin {"down", "destroyed"}
    /\ callback = "down" => connections = TRUE /\ serverFunctors = <<>>
    /\ callback = "destroyed" => connections = FALSE
    /\ \/ serverFunctors = <<>>
       \/ serverFunctors = <<"removeConnectionInLoop">> /\ connections = TRUE
    /\ SameLoop => /\ serverFunctors = <<>>
                   /\ connections = TRUE /\ state = "kDisconnected" => callback = "down"
    /\ connections \in BOOLEAN
    /\ Queued("connectDestroyed") => connections = FALSE
    /\ addedToLoop => connections = TRUE \/ callback = "destroyed" \/ Queued("connectDestroyed")

lifeVars == <<failed, state, events, addedToLoop, connections, serverFunctors, delayed, callback>>

\* The loop takes a functor other than f, or none; the same of what is posted.
LEMMA QueuedSame ==
    ASSUME QueuesTyped, NEW f,
           UNCHANGED functors \/ \E g \in Methods \ {f} : Takes(g),
           UNCHANGED pendingFunctors \/ \E g \in Methods \ {f} : Posts(g)
    PROVE  Queued(f)' <=> Queued(f)
BY TakeQueued, PostQueued DEF Queued

LEMMA LifeStay ==
    ASSUME QueuesTyped, LifeInv,
           UNCHANGED <<failed, state, connections, serverFunctors, delayed>>,
           UNCHANGED <<events, addedToLoop>> \/ state # "kDisconnected",
           UNCHANGED callback \/ (callback = "none" /\ callback' \notin {"down", "destroyed"}),
           UNCHANGED functors \/ \E g \in Methods \ {"connectDestroyed"} : Takes(g),
           UNCHANGED pendingFunctors \/ \E g \in Methods \ {"connectDestroyed"} : Posts(g)
    PROVE  LifeInv'
<1>1. Queued("connectDestroyed")' <=> Queued("connectDestroyed")
  BY QueuedSame
<1>2. QED
  BY <1>1 DEF LifeInv

LEMMA LifeSame ==
    ASSUME QueuesTyped, LifeInv, UNCHANGED lifeVars,
           UNCHANGED functors \/ \E g \in Methods \ {"connectDestroyed"} : Takes(g),
           UNCHANGED pendingFunctors \/ \E g \in Methods \ {"connectDestroyed"} : Posts(g)
    PROVE  LifeInv'
<1>1. Queued("connectDestroyed")' <=> Queued("connectDestroyed")
  BY QueuedSame
<1>2. QED
  BY <1>1 DEF LifeInv, lifeVars

\* forceClose() and shutdown() on the loop's thread
LEMMA LifeDisconnecting ==
    ASSUME QueuesTyped, LifeInv, ~ServerMayDie,
           state \in {"kConnected", "kDisconnecting"}, state' = "kDisconnecting",
           UNCHANGED <<failed, addedToLoop, connections, serverFunctors, callback, functors>>,
           UNCHANGED pendingFunctors \/ Posts("forceCloseInLoop")
    PROVE  LifeInv'
<1>1. Queued("connectDestroyed")' <=> Queued("connectDestroyed")
  BY QueuedSame DEF Methods
<1>2. QED
  BY <1>1 DEF LifeInv

LEMMA LifeClose ==
    ASSUME QueuesTyped, LifeInv, state \in {"kConnected", "kDisconnecting"}, HandleClose,
           UNCHANGED <<connections, serverFunctors, delayed, pendingFunctors>>,
           UNCHANGED functors \/ Takes("forceCloseInLoop")
    PROVE  LifeInv'
<1>1. Queued("connectDestroyed")' <=> Queued("connectDestroyed")
  BY QueuedSame DEF Methods
<1>2. /\ failed' = failed /\ state' = "kDisconnected" /\ events' = {} /\ callback' = "down"
  BY DEF HandleClose, Check, EventsBecome
<1>3. QED
  BY <1>1, <1>2 DEF LifeInv

LEMMA LifeLoop ==
    ASSUME NoneDisconnecting, QueuesTyped, StartInv, SessionInv, LifeInv,
           state # "kConnecting", LoopStep
    PROVE  LifeInv'
<1> USE DEF connVars, loopVars, ownerVars, socketVars, sendVars, callbackVars, LoopIdle
<1>1. CASE Poll
  BY <1>1, LifeStay DEF Poll
<1>hup. ~DispatchHangUp
  BY DEF DispatchHangUp, SessionInv
<1>2. CASE DispatchError
  BY <1>2, LifeStay DEF DispatchError
<1>3. CASE DispatchRead
  <2>1. state \in {"kConnected", "kDisconnecting"}
    BY <1>3, UpBefore DEF DispatchRead
  <2>2. callback = "none"
        /\ UNCHANGED <<functors, pendingFunctors, connections, serverFunctors, delayed>>
    BY <1>3 DEF DispatchRead
  <2>3. CASE HandleClose
    BY <2>1, <2>2, <2>3, LifeClose
  <2>4. CASE ~HandleClose
    <3>1. /\ UNCHANGED <<failed, state, events, addedToLoop>>
          /\ UNCHANGED callback \/ callback' = "message"
      BY <1>3, <2>4 DEF DispatchRead, HandleRead
    <3>2. QED
      BY <2>2, <3>1, LifeStay
  <2>5. QED
    BY <2>3, <2>4
<1>4. CASE DispatchWrite
  <2>1. /\ UNCHANGED state
        /\ UNCHANGED <<events, addedToLoop>> \/ state # "kDisconnected"
        /\ UNCHANGED pendingFunctors \/ Post("writeComplete")
    BY <1>4 DEF DispatchWrite, HandleWrite, StopWriting, EventsBecome, LifeInv
  <2>2. UNCHANGED pendingFunctors \/ Posts("writeComplete")
    BY <2>1, PostPosts
  <2>3. QED
    BY <1>4, <2>1, <2>2, LifeStay DEF DispatchWrite, Methods
<1>5. CASE DelayExpires
  <2>1. ~ServerMayDie
    BY <1>5 DEF DelayExpires, LifeInv
  <2>2. CASE Alive /\ state \in {"kConnected", "kDisconnecting"}
    <3>1. state' = "kDisconnecting" /\ Posts("forceCloseInLoop")
      BY <1>5, <2>2, PostPosts DEF DelayExpires
    <3>2. QED
      BY <1>5, <2>1, <2>2, <3>1, LifeDisconnecting DEF DelayExpires
  <2>3. CASE ~(Alive /\ state \in {"kConnected", "kDisconnecting"})
    BY <1>5, <2>1, <2>3 DEF DelayExpires, LifeInv, Queued
  <2>4. QED
    BY <2>2, <2>3
<1>6. CASE SwapPendingFunctors
  <2>1. Queued("connectDestroyed")' <=> Queued("connectDestroyed")
    BY <1>6, InEmpty DEF SwapPendingFunctors, StartInv, Queued
  <2>2. UNCHANGED <<failed, state, events, addedToLoop, connections, serverFunctors, delayed, callback>>
    BY <1>6 DEF SwapPendingFunctors
  <2>3. QED
    BY <2>1, <2>2 DEF LifeInv
<1>7. CASE RunFunctor
  <2>1. ~RunConnectEstablished
    BY TakeQueued DEF StartInv, Queued, RunConnectEstablished
  <2>2. CASE RunConnectDestroyed
    <3>1. Takes("connectDestroyed") /\ Queued("connectDestroyed")
      BY <2>2, TakeQueued DEF RunConnectDestroyed, Queued
    <3>2. connections = FALSE /\ state = "kDisconnected" /\ events = {}
      BY <3>1 DEF LifeInv
    <3>3. /\ failed' = failed /\ addedToLoop' = FALSE
          /\ UNCHANGED <<state, events, connections, serverFunctors, delayed, callback>>
      BY <2>2, <3>2 DEF RunConnectDestroyed, ConnectDestroyed, RemoveChannel, Check
    <3>4. QED
      BY <3>2, <3>3 DEF LifeInv
  <2>3. CASE RunSendInLoop
    <3>1. UNCHANGED state /\ (UNCHANGED <<events, addedToLoop>> \/ state # "kDisconnected")
      BY <2>3 DEF RunSendInLoop, SendInLoop
    <3>2. UNCHANGED pendingFunctors \/ Posts("writeComplete") \/ Posts("highWaterMark")
      BY <2>3, SendInLoopPosts DEF RunSendInLoop
    <3>3. Takes("sendInLoop") /\ UNCHANGED <<failed, connections, serverFunctors, delayed, callback>>
      BY <2>3 DEF RunSendInLoop
    <3>4. Queued("connectDestroyed")' <=> Queued("connectDestroyed")
      BY <3>2, <3>3, QueuedSame DEF Methods
    <3>5. QED
      BY <3>1, <3>3, <3>4 DEF LifeInv
  <2>4. CASE RunShutdownInLoop
    <3>1. UNCHANGED <<lifeVars, pendingFunctors>> /\ Takes("shutdownInLoop")
      BY <2>4 DEF RunShutdownInLoop, lifeVars
    <3>2. "shutdownInLoop" \in Methods \ {"connectDestroyed"}
      BY DEF Methods
    <3>3. QED
      BY <3>1, <3>2, LifeSame
  <2>5. CASE RunForceCloseInLoop
    <3>1. CASE state \in {"kConnected", "kDisconnecting"}
      BY <2>5, <3>1, LifeClose DEF RunForceCloseInLoop
    <3>2. CASE state \notin {"kConnected", "kDisconnecting"}
      <4>1. UNCHANGED <<lifeVars, pendingFunctors>> /\ Takes("forceCloseInLoop")
        BY <2>5, <3>2 DEF RunForceCloseInLoop, lifeVars
      <4>2. "forceCloseInLoop" \in Methods \ {"connectDestroyed"}
        BY DEF Methods
      <4>3. QED
        BY <4>1, <4>2, LifeSame
    <3>3. QED
      BY <3>1, <3>2
  <2>6. ASSUME NEW f \in {"writeComplete", "highWaterMark"}, RunUserCallback(f)
        PROVE  LifeInv'
    <3>1. Takes(f) /\ callback = "none" /\ callback' = f
          /\ UNCHANGED <<failed, state, events, addedToLoop, connections, serverFunctors, delayed, pendingFunctors>>
      BY <2>6 DEF RunUserCallback, Takes
    <3>2. f \in Methods \ {"connectDestroyed"} /\ f \notin {"down", "destroyed"}
      BY DEF Methods
    <3>3. QED
      BY <3>1, <3>2, LifeStay
  <2>7. QED
    BY <1>7, <2>1, <2>2, <2>3, <2>4, <2>5, <2>6 DEF RunFunctor
<1>8. CASE EndFunctors
  BY <1>8, LifeStay DEF EndFunctors
<1>9. QED
  BY <1>1, <1>hup, <1>2, <1>3, <1>4, <1>5, <1>6, <1>7, <1>8 DEF LoopStep

LEMMA LifeReturn ==
    ASSUME QueuesTyped, LifeInv, ReturnFromCallback
    PROVE  LifeInv'
<1>1. UNCHANGED <<state, events, functors, delayed>> /\ callback' = "none" /\ callback # "none"
  BY DEF ReturnFromCallback
<1>2. CASE callback \notin {"down", "destroyed"}
  <2>1. UNCHANGED <<addedToLoop, pendingFunctors, connections, serverFunctors, failed>>
    BY <1>2 DEF ReturnFromCallback
  <2>2. Queued("connectDestroyed")' <=> Queued("connectDestroyed")
    BY <1>1, <2>1 DEF Queued
  <2>3. QED
    BY <1>1, <1>2, <2>1, <2>2 DEF LifeInv
<1>3. CASE callback = "down" /\ SameLoop
  <2>1. RemoveConnectionInLoop /\ UNCHANGED <<addedToLoop, serverFunctors>>
    BY <1>3 DEF ReturnFromCallback
  <2>2. Queued("connectDestroyed")'
    BY <2>1, PostPosts, PostQueued DEF RemoveConnectionInLoop, Queued, Methods
  <2>3. failed' = failed /\ connections' = FALSE
    BY <1>3, <2>1 DEF RemoveConnectionInLoop, Check, LifeInv
  <2>4. QED
    BY <1>1, <1>3, <2>1, <2>2, <2>3 DEF LifeInv
<1>4. CASE callback = "down" /\ ~SameLoop
  <2>1. /\ serverFunctors' = Append(serverFunctors, "removeConnectionInLoop")
        /\ UNCHANGED <<addedToLoop, pendingFunctors, connections, failed>>
    BY <1>4 DEF ReturnFromCallback
  <2>2. serverFunctors' = <<"removeConnectionInLoop">>
    BY <1>4, <2>1 DEF LifeInv
  <2>3. Queued("connectDestroyed")' <=> Queued("connectDestroyed")
    BY <1>1, <2>1 DEF Queued
  <2>4. connections = TRUE /\ state = "kDisconnected"
    BY <1>4 DEF LifeInv
  <2>5. ~ServerMayDie
    BY <1>4, TcpConnectionAssumption
  <2>6. QED
    BY <1>1, <1>4, <2>1, <2>2, <2>3, <2>4, <2>5 DEF LifeInv
<1>5. CASE callback = "destroyed"
  <2>1. RemoveChannel /\ UNCHANGED <<pendingFunctors, connections, serverFunctors>>
    BY <1>5 DEF ReturnFromCallback
  <2>2. connections = FALSE /\ state = "kDisconnected" /\ events = {}
    BY <1>5 DEF LifeInv
  <2>3. failed' = failed /\ addedToLoop' = FALSE
    BY <2>1, <2>2 DEF RemoveChannel, Check
  <2>4. Queued("connectDestroyed")' <=> Queued("connectDestroyed")
    BY <1>1, <2>1 DEF Queued
  <2>5. QED
    BY <1>1, <2>1, <2>2, <2>3, <2>4 DEF LifeInv
<1>6. QED
  BY <1>2, <1>3, <1>4, <1>5

LEMMA LifeOthers ==
    ASSUME OthersOnlySend, NoneDisconnecting, QueuesTyped, StartInv, SessionInv, LifeInv,
           state # "kConnecting", Next, ~LoopStep
    PROVE  LifeInv'
<1> USE DEF connVars, loopVars, ownerVars, socketVars, sendVars, callbackVars
<1>1. CASE LoopSend
  <2>1. state = "kConnected" /\ UNCHANGED state
    BY <1>1, SendInLoopEvents DEF LoopSend
  <2>2. UNCHANGED pendingFunctors \/ Posts("writeComplete") \/ Posts("highWaterMark")
    BY <1>1, SendInLoopPosts DEF LoopSend
  <2>3. QED
    <3>1. UNCHANGED <<failed, connections, serverFunctors, delayed, callback, functors>>
      BY <1>1 DEF LoopSend
    <3>2. Queued("connectDestroyed")' <=> Queued("connectDestroyed")
      BY <2>2, <3>1, QueuedSame DEF Methods
    <3>3. QED
      BY <2>1, <3>1, <3>2 DEF LifeInv
<1>2. CASE LoopShutdown
  <2>1. ~ServerMayDie
    BY <1>2 DEF LoopShutdown, InCallback, NoneDisconnecting
  <2>2. QED
    BY <1>2, <2>1, LifeDisconnecting DEF LoopShutdown
<1>3. CASE LoopForceClose
  <2>1. ~ServerMayDie /\ Posts("forceCloseInLoop")
    BY <1>3, PostPosts DEF LoopForceClose, InCallback, NoneDisconnecting
  <2>2. QED
    BY <1>3, <2>1, LifeDisconnecting DEF LoopForceClose
<1>4. CASE LoopForceCloseWithDelay
  <2>1. ~ServerMayDie
    BY <1>4 DEF LoopForceCloseWithDelay, InCallback, NoneDisconnecting
  <2>2. QED
    BY <1>4, <2>1, LifeDisconnecting DEF LoopForceCloseWithDelay
<1>5. CASE ReturnFromCallback
  BY <1>5, LifeReturn
<1>6. ASSUME NEW t \in Threads,
             (\E op \in ForeignOps : Begin(t, op)) \/ ThreadStep(t) \/ Release(t)
      PROVE  LifeInv'
  <2>1. CASE \E op \in ForeignOps : Begin(t, op)
    <3>1. UNCHANGED <<lifeVars, functors, pendingFunctors>>
      BY <2>1 DEF Begin, lifeVars
    <3>2. QED
      BY <3>1, LifeSame
  <2>2. CASE PostSend(t)
    <3>1. Posts("sendInLoop")
      <4>1. Len(sent') \in Nat
        BY <2>2, PostMsgType DEF PostSend
      <4>2. QED
        BY <2>2, <4>1 DEF PostSend, Posts
    <3>2. QED
      <4>1. UNCHANGED <<lifeVars, functors>>
        BY <2>2 DEF PostSend, lifeVars
      <4>2. "sendInLoop" \in Methods \ {"connectDestroyed"}
        BY DEF Methods
      <4>3. QED
        BY <3>1, <4>1, <4>2, LifeSame
  <2>3. call[t] \in {"idle", "send"}
    BY DEF OthersOnlySend, SessionInv
  <2>4. ~SetDisconnecting(t) /\ ~PostClose(t)
    BY <2>3 DEF SetDisconnecting, PostClose
  <2>5. CASE Release(t)
    <3>1. UNCHANGED <<lifeVars, functors, pendingFunctors>>
      BY <2>5 DEF Release, lifeVars
    <3>2. QED
      BY <3>1, LifeSame
  <2>6. QED
    BY <1>6, <2>1, <2>2, <2>4, <2>5 DEF ThreadStep
<1>7. CASE RunServerFunctor
  <2>1. serverFunctors = <<"removeConnectionInLoop">> /\ connections = TRUE
    BY <1>7 DEF RunServerFunctor, LifeInv
  <2>2. serverFunctors' = <<>> /\ RemoveConnectionInLoop
        /\ UNCHANGED <<state, events, addedToLoop, functors, callback, delayed>>
    BY <1>7, <2>1 DEF RunServerFunctor
  <2>3. Queued("connectDestroyed")'
    BY <2>2, PostPosts, PostQueued DEF RemoveConnectionInLoop, Queued, Methods
  <2>4. failed' = failed /\ connections' = FALSE
    BY <2>1, <2>2 DEF RemoveConnectionInLoop, Check
  <2>5. state = "kDisconnected" /\ callback # "down"
    BY <2>1 DEF LifeInv
  <2>6. QED
    BY <2>2, <2>3, <2>4, <2>5 DEF LifeInv
<1>8. CASE DestroyServer
  <2>1. ServerMayDie /\ SameLoop /\ connections = TRUE /\ callback = "none"
        /\ connections' = FALSE /\ UNCHANGED <<functors, pendingFunctors, serverFunctors, delayed>>
    BY <1>8, TcpConnectionAssumption DEF DestroyServer, LoopIdle, LifeInv
  <2>2. state = "kConnected"
    BY <2>1 DEF LifeInv, StartInv, States
  <2>3. /\ state' = "kDisconnected" /\ events' = {} /\ callback' = "destroyed" /\ failed' = failed
    BY <1>8, <2>2 DEF DestroyServer, ConnectDestroyed, EventsBecome
  <2>4. ~Queued("connectDestroyed")'
    BY <2>1 DEF Queued, LifeInv
  <2>5. QED
    BY <2>1, <2>3, <2>4 DEF LifeInv
<1>9. CASE PeerSends \/ PeerReads \/ PeerCloses \/ PeerResets
  <2>1. UNCHANGED <<lifeVars, functors, pendingFunctors>>
    BY <1>9 DEF PeerSends, PeerReads, PeerCloses, PeerResets, lifeVars
  <2>2. QED
    BY <2>1, LifeSame
<1>10. QED
  BY <1>1, <1>2, <1>3, <1>4, <1>5, <1>6, <1>7, <1>8, <1>9 DEF Next, UserStep

LEMMA LifeFresh == ASSUME Fresh, state = "kConnecting" PROVE LifeInv
<1>1. ~Queued("connectDestroyed")
  BY InEmpty, InOne DEF Fresh, Queued, Functor
<1>2. QED
  BY <1>1 DEF Fresh, LifeInv

LEMMA LifeNext ==
    ASSUME OthersOnlySend, NoneDisconnecting, QueuesTyped, StartInv, SessionInv, LifeInv,
           [Next]_vars
    PROVE  LifeInv'
<1>1. CASE UNCHANGED vars
  BY <1>1 DEF LifeInv, Queued, vars, connVars, loopVars, ownerVars
<1>2. CASE Next /\ state = "kConnecting"
  <2>1. CASE RunConnectEstablished
    <3>1. Fresh /\ Takes("connectEstablished")
      BY <1>2, <2>1 DEF StartInv, RunConnectEstablished
    <3>2. /\ state' = "kConnected" /\ failed' = failed /\ callback' = "up"
          /\ UNCHANGED <<connections, serverFunctors, delayed>>
      BY <1>2, <2>1 DEF RunConnectEstablished, Check
    <3>3. ~Queued("connectDestroyed")'
      <4>1. functors # <<>> /\ functors' = Tail(functors) /\ pendingFunctors' = pendingFunctors
        BY <2>1 DEF RunConnectEstablished, Takes
      <4>2. functors = <<Functor("connectEstablished", 0)>> /\ pendingFunctors = <<>>
        BY <3>1, <4>1 DEF Fresh
      <4>3. functors' = <<>> /\ pendingFunctors' = <<>>
        BY <4>1, <4>2
      <4>4. QED
        BY <4>3, InEmpty DEF Queued
    <3>4. QED
      BY <3>1, <3>2, <3>3 DEF Fresh, LifeInv
  <2>2. CASE state' = "kConnecting" /\ Fresh'
    <3>1. ~Queued("connectDestroyed")'
      BY <2>2, InEmpty, InOne DEF Fresh, Queued, Functor
    <3>2. QED
      BY <2>2, <3>1 DEF Fresh, LifeInv
  <2>3. QED
    BY <1>2, <2>1, <2>2, FreshNext
<1>3. CASE Next /\ state # "kConnecting"
  BY <1>3, LifeLoop, LifeOthers
<1>4. QED
  BY <1>1, <1>2, <1>3
-----------------------------------------------------------------------------
(* What is buffered, what is written and the FIN *)

\* All the bytes of message m are in s.
Holds(s, m) == \A i \in 1..MsgLen : <<m, i>> \in Elements(s)

OutputInv ==
    /\ WritingIffBuffered
    /\ owed \subseteq SentBy(LoopThread)
    /\ finSent \in BOOLEAN
    /\ finSent = TRUE => state \notin {"kConnecting", "kConnected"}
    /\ ~Queued("shutdownInLoop")
    /\ peer # "rst" => \A m \in SentBy(LoopThread) : Holds(accepted, m)
    /\ finSent = TRUE /\ peer # "rst" => \A m \in owed : Holds(wire, m)

outputVars == <<outputBuffer, wire, accepted, sent, owed, finSent>>

LEMMA ElementsConcat ==
    ASSUME NEW s \in Seq(Byte), NEW t \in Seq(Byte)
    PROVE  Elements(s \o t) = Elements(s) \cup Elements(t)
<1>1. /\ Len(s) \in Nat /\ Len(t) \in Nat
      /\ DOMAIN s = 1..Len(s) /\ DOMAIN t = 1..Len(t)
      /\ DOMAIN (s \o t) = 1..(Len(s) + Len(t))
      /\ \A i \in 1..(Len(s) + Len(t)) : (s \o t)[i] = IF i <= Len(s) THEN s[i] ELSE t[i - Len(s)]
  BY ConcatProperties, LenProperties
<1>2. ASSUME NEW i \in DOMAIN (s \o t) PROVE (s \o t)[i] \in Elements(s) \cup Elements(t)
  <2>1. CASE i <= Len(s)
    BY <1>1, <2>1 DEF Elements
  <2>2. CASE ~(i <= Len(s))
    <3>1. i - Len(s) \in DOMAIN t /\ (s \o t)[i] = t[i - Len(s)]
      BY <1>1, <2>2
    <3>2. QED
      BY <3>1 DEF Elements
  <2>3. QED
    BY <2>1, <2>2
<1>3. ASSUME NEW i \in DOMAIN s PROVE s[i] \in Elements(s \o t)
  <2>1. i \in DOMAIN (s \o t) /\ (s \o t)[i] = s[i]
    BY <1>1
  <2>2. QED
    BY <2>1 DEF Elements
<1>4. ASSUME NEW i \in DOMAIN t PROVE t[i] \in Elements(s \o t)
  <2>1. i + Len(s) \in DOMAIN (s \o t) /\ (s \o t)[i + Len(s)] = t[i]
    BY <1>1
  <2>2. QED
    BY <2>1 DEF Elements
<1>5. QED
  BY <1>2, <1>3, <1>4 DEF Elements

LEMMA HoldsConcat ==
    ASSUME NEW s \in Seq(Byte), NEW t \in Seq(Byte), NEW m
    PROVE  Holds(s, m) \/ Holds(t, m) => Holds(s \o t, m)
BY ElementsConcat DEF Holds

LEMMA HoldsBytes == \A m : Holds(Bytes(m), m)
BY DEF Holds, Bytes, Elements

\* What SendInLoop does to the data that waits, in one of its two outcomes.
LEMMA SendInLoopOutput ==
    ASSUME DataInv, NEW m \in Nat, SendInLoop(m)
    PROVE  \/ /\ UNCHANGED <<state, events, outputBuffer, wire, accepted>>
              /\ state = "kDisconnected" \/ WriteFails
           \/ \E s, t \in Seq(Byte) :
                /\ wire' = wire \o s /\ outputBuffer' = outputBuffer \o t
                /\ accepted' = accepted \o Bytes(m)
                /\ state' = state
                /\ \/ t # <<>> /\ events' = events \cup {"write"}
                   \/ t = <<>> /\ events' = events /\ "write" \notin events /\ outputBuffer = <<>>
<1> DEFINE n == IF MayWriteDirectly THEN Lesser(Room, MsgLen) ELSE 0
           s == SubSeq(Bytes(m), 1, n)
           t == SubSeq(Bytes(m), n + 1, MsgLen)
<1>1. CASE state = "kDisconnected" \/ (MayWriteDirectly /\ WriteFails)
  BY <1>1 DEF SendInLoop, connVars
<1>2. CASE ~(state = "kDisconnected" \/ (MayWriteDirectly /\ WriteFails))
  <2>1. /\ wire' = wire \o s /\ outputBuffer' = outputBuffer \o t
        /\ accepted' = accepted \o Bytes(m) /\ state' = state
        /\ IF n < MsgLen /\ "write" \notin events
           THEN EventsBecome(events \cup {"write"})
           ELSE UNCHANGED <<events, addedToLoop>>
    BY <1>2 DEF SendInLoop
  <2>2. MsgLen \in Nat \ {0} /\ Room \in Nat /\ n \in 0..MsgLen
    BY TcpConnectionAssumption, RoomType DEF DataInv
  <2>3. Bytes(m) \in Seq(Byte) /\ Len(Bytes(m)) = MsgLen
    BY BytesType
  <2>4. n = MsgLen => "write" \notin events /\ outputBuffer = <<>>
    BY <2>2 DEF MayWriteDirectly
  <2> HIDE DEF n
  <2>5. s \in Seq(Byte) /\ t \in Seq(Byte)
    BY <2>2, <2>3, Cut
  <2>6. Len(t) = MsgLen - n
    <3>1. \A i \in (n + 1)..MsgLen : Bytes(m)[i] \in Byte
      BY <2>2, <2>3, ElementOfSeq
    <3>2. n + 1 \in Int /\ MsgLen \in Int
      BY <2>2
    <3>3. Len(t) = IF n + 1 <= MsgLen THEN MsgLen - (n + 1) + 1 ELSE 0
      BY <3>1, <3>2, SubSeqProperties
    <3>4. QED
      BY <2>2, <3>3
  <2> HIDE DEF s, t
  <2>7. CASE n = MsgLen
    <3>1. t = <<>>
      BY <2>2, <2>5, <2>6, <2>7, EmptySeq
    <3>2. events' = events
      BY <2>1, <2>2, <2>7
    <3>3. QED
      BY <2>1, <2>4, <2>5, <2>7, <3>1, <3>2
  <2>8. CASE n # MsgLen
    <3>1. t # <<>> /\ n < MsgLen
      BY <2>2, <2>5, <2>6, <2>8, EmptySeq
    <3>2. events' = events \cup {"write"}
      BY <2>1, <3>1 DEF EventsBecome
    <3>3. QED
      BY <2>1, <2>5, <3>1, <3>2
  <2>9. QED
    BY <2>7, <2>8
<1>3. QED
  BY <1>1, <1>2

\* What HandleWrite does.
LEMMA HandleWriteOutput ==
    ASSUME DataInv, HandleWrite
    PROVE  \/ UNCHANGED <<state, events, outputBuffer, wire, finSent>>
           \/ \E s \in Seq(Byte) :
                /\ wire' = wire \o s /\ state' = state /\ "write" \in events
                /\ \/ outputBuffer' = <<>> /\ events' = events \ {"write"}
                      /\ finSent' = (finSent \/ state = "kDisconnecting")
                   \/ outputBuffer' # <<>> /\ events' = events /\ finSent' = finSent
<1> DEFINE n == Lesser(Room, Len(outputBuffer))
           s == SubSeq(outputBuffer, 1, n)
           t == SubSeq(outputBuffer, n + 1, Len(outputBuffer))
<1>1. CASE "write" \notin events \/ WriteFails
  BY <1>1 DEF HandleWrite, connVars
<1>2. CASE ~("write" \notin events \/ WriteFails)
  <2>1. /\ wire' = wire \o s /\ outputBuffer' = t /\ state' = state /\ "write" \in events
        /\ IF n = Len(outputBuffer)
           THEN events' = events \ {"write"} /\ finSent' = (finSent \/ state = "kDisconnecting")
           ELSE events' = events /\ finSent' = finSent
    BY <1>2 DEF HandleWrite, StopWriting, EventsBecome, FinishShutdown
  <2>2. outputBuffer \in Seq(Byte) /\ Len(outputBuffer) \in Nat
    BY LenProperties DEF DataInv, BufferSound
  <2>3. n \in 0..Len(outputBuffer)
    BY <2>2, RoomType DEF DataInv
  <2> HIDE DEF n
  <2>4. s \in Seq(Byte) /\ t \in Seq(Byte)
    BY <2>2, <2>3, Cut
  <2>5. Len(t) = Len(outputBuffer) - n
    <3>1. \A i \in (n + 1)..Len(outputBuffer) : outputBuffer[i] \in Byte
      BY <2>2, <2>3, ElementOfSeq
    <3>2. n + 1 \in Int /\ Len(outputBuffer) \in Int
      BY <2>2, <2>3
    <3>3. Len(t) = IF n + 1 <= Len(outputBuffer) THEN Len(outputBuffer) - (n + 1) + 1 ELSE 0
      BY <3>1, <3>2, SubSeqProperties
    <3>4. QED
      BY <2>2, <2>3, <3>3
  <2> HIDE DEF s, t
  <2>6. t = <<>> <=> n = Len(outputBuffer)
    BY <2>2, <2>3, <2>4, <2>5, EmptySeq
  <2>7. QED
    BY <2>1, <2>4, <2>6
<1>3. QED
  BY <1>1, <1>2

LEMMA SentAppend ==
    ASSUME QueuesTyped, NEW t \in Threads \cup {LoopThread}, sent' = Append(sent, t)
    PROVE  /\ t # LoopThread => SentBy(LoopThread)' = SentBy(LoopThread)
           /\ t = LoopThread => SentBy(LoopThread)' = SentBy(LoopThread) \cup {Len(sent')}
<1>1. /\ DOMAIN sent = 1..Len(sent) /\ Len(sent) \in Nat
      /\ DOMAIN sent' = 1..(Len(sent) + 1) /\ Len(sent') = Len(sent) + 1
      /\ \A i \in 1..Len(sent) : sent'[i] = sent[i]
      /\ sent'[Len(sent) + 1] = t
  <2>1. sent \in Seq(Threads \cup {LoopThread})
    BY DEF QueuesTyped
  <2>2. sent' \in Seq(Threads \cup {LoopThread})
    BY <2>1, AppendProperties
  <2>3. QED
    BY <2>1, <2>2, AppendProperties, LenProperties
<1>2. 1..(Len(sent) + 1) = 1..Len(sent) \cup {Len(sent) + 1}
  BY <1>1
<1>3. QED
  BY <1>1, <1>2 DEF SentBy

LEMMA OutputStay ==
    ASSUME QueuesTyped, OutputInv, UNCHANGED outputVars,
           peer' = peer \/ peer' = "rst",
           \/ UNCHANGED <<state, events>>
           \/ state' = "kDisconnected"
           \/ UNCHANGED events /\ state \in {"kConnected", "kDisconnecting"}
              /\ state' = "kDisconnecting",
           UNCHANGED functors \/ \E g \in Methods \ {"shutdownInLoop"} : Takes(g),
           UNCHANGED pendingFunctors \/ \E g \in Methods \ {"shutdownInLoop"} : Posts(g)
    PROVE  OutputInv'
<1>1. Queued("shutdownInLoop")' <=> Queued("shutdownInLoop")
  BY QueuedSame
<1>2. WritingIffBuffered'
  BY DEF OutputInv, WritingIffBuffered, outputVars
<1>3. SentBy(LoopThread)' = SentBy(LoopThread)
  BY DEF SentBy, outputVars
<1>4. QED
  BY <1>1, <1>2, <1>3 DEF OutputInv, outputVars

\* sendInLoop of a message m that the loop's thread, or another one, has sent.
LEMMA OutputSend ==
    ASSUME DataInv, OutputInv, NEW m \in Nat, SendInLoop(m), UNCHANGED <<owed, finSent, peer>>,
           ~Queued("shutdownInLoop")',
           \/ SentBy(LoopThread)' = SentBy(LoopThread)
           \/ /\ SentBy(LoopThread)' = SentBy(LoopThread) \cup {m}
              /\ state = "kConnected"
    PROVE  OutputInv'
<1>1. wire \in Seq(Byte) /\ accepted \in Seq(Byte) /\ Bytes(m) \in Seq(Byte)
  BY BytesType DEF DataInv, SocketSound, BufferSound
<1>2. CASE /\ UNCHANGED <<state, events, outputBuffer, wire, accepted>>
           /\ state = "kDisconnected" \/ WriteFails
  <2>1. WritingIffBuffered'
    BY <1>2 DEF OutputInv, WritingIffBuffered
  <2>2. peer # "rst" => SentBy(LoopThread)' = SentBy(LoopThread)
    BY <1>2 DEF WriteFails, OutputInv
  <2>3. owed' \subseteq SentBy(LoopThread)'
    BY DEF OutputInv
  <2>4. QED
    BY <1>2, <2>1, <2>2, <2>3 DEF OutputInv
<1>3. ASSUME NEW s \in Seq(Byte), NEW t \in Seq(Byte),
             wire' = wire \o s, outputBuffer' = outputBuffer \o t,
             accepted' = accepted \o Bytes(m), state' = state,
             \/ t # <<>> /\ events' = events \cup {"write"}
             \/ t = <<>> /\ events' = events /\ "write" \notin events /\ outputBuffer = <<>>
      PROVE  OutputInv'
  <2>1. WritingIffBuffered'
    <3>1. outputBuffer \in Seq(Byte)
      BY DEF DataInv, BufferSound
    <3>2. outputBuffer' = <<>> <=> outputBuffer = <<>> /\ t = <<>>
      BY <1>3, <3>1, ConcatEqualIffEmpty
    <3>3. QED
      BY <1>3, <3>2 DEF WritingIffBuffered
  <2>2. \A x : Holds(accepted, x) => Holds(accepted', x)
    BY <1>1, <1>3, HoldsConcat
  <2>3. \A x : Holds(wire, x) => Holds(wire', x)
    BY <1>1, <1>3, HoldsConcat
  <2>4. Holds(accepted', m)
    BY <1>1, <1>3, HoldsConcat, HoldsBytes
  <2>5. QED
    BY <1>3, <2>1, <2>2, <2>3, <2>4 DEF OutputInv, Holds
<1>4. QED
  BY <1>2, <1>3, SendInLoopOutput

LEMMA OutputWrite ==
    ASSUME DataInv, OutputInv, HandleWrite, UNCHANGED <<owed, accepted, sent, peer>>,
           NothingReordered', wire' \in Seq(Byte), ~Queued("shutdownInLoop")'
    PROVE  OutputInv'
<1>1. wire \in Seq(Byte)
  BY DEF DataInv, SocketSound
<1>2. SentBy(LoopThread)' = SentBy(LoopThread)
  BY DEF SentBy
<1>3. CASE UNCHANGED <<state, events, outputBuffer, wire, finSent>>
  BY <1>2, <1>3 DEF OutputInv, WritingIffBuffered
<1>4. ASSUME NEW s \in Seq(Byte),
             wire' = wire \o s, state' = state, "write" \in events,
             outputBuffer' = <<>>, events' = events \ {"write"},
             finSent' = (finSent \/ state = "kDisconnecting")
      PROVE  OutputInv'
  <2>1. accepted = wire'
    BY <1>4, ConcatEmptySeq DEF NothingReordered
  <2>2. WritingIffBuffered'
    BY <1>4 DEF WritingIffBuffered
  <2>3. finSent' \in BOOLEAN /\ (finSent' = TRUE => state' \notin {"kConnecting", "kConnected"})
    BY <1>4 DEF OutputInv
  <2>4. peer' # "rst" => \A m \in owed' : Holds(wire', m)
    BY <2>1 DEF OutputInv
  <2>5. QED
    BY <1>2, <2>2, <2>3, <2>4 DEF OutputInv
<1>5. ASSUME NEW s \in Seq(Byte),
             wire' = wire \o s, state' = state, "write" \in events,
             outputBuffer' # <<>>, events' = events, finSent' = finSent
      PROVE  OutputInv'
  <2>1. \A x : Holds(wire, x) => Holds(wire', x)
    BY <1>1, <1>5, HoldsConcat
  <2>2. WritingIffBuffered'
    BY <1>5 DEF WritingIffBuffered
  <2>3. QED
    BY <1>2, <1>5, <2>1, <2>2 DEF OutputInv
<1>6. QED
  BY <1>3, <1>4, <1>5, HandleWriteOutput

LEMMA OutputLoop ==
    ASSUME DataInv, StartInv, SessionInv, OutputInv, state # "kConnecting", LoopStep, DataInv'
    PROVE  OutputInv'
<1> USE DEF connVars, loopVars, ownerVars, socketVars, sendVars, callbackVars, LoopIdle
<1>1. QueuesTyped
  BY DEF DataInv
<1>2. CASE Poll \/ DispatchError \/ EndFunctors
  <2>1. UNCHANGED <<outputVars, peer, state, events, functors, pendingFunctors>>
    BY <1>2 DEF Poll, DispatchError, EndFunctors, outputVars
  <2>2. QED
    BY <1>1, <2>1, OutputStay
<1>hup. ~DispatchHangUp
  BY DEF DispatchHangUp, SessionInv
<1>3. CASE DispatchRead
  <2>1. UNCHANGED <<outputVars, peer, functors, pendingFunctors>>
        /\ (UNCHANGED <<state, events>> \/ state' = "kDisconnected")
    BY <1>3 DEF DispatchRead, HandleRead, HandleClose, outputVars
  <2>2. QED
    BY <1>1, <2>1, OutputStay
<1>4. CASE DispatchWrite
  <2>1. HandleWrite /\ UNCHANGED <<owed, accepted, sent, peer, functors>>
    BY <1>4 DEF DispatchWrite
  <2>2. UNCHANGED pendingFunctors \/ Posts("writeComplete")
    BY <2>1, PostPosts DEF HandleWrite
  <2>3. ~Queued("shutdownInLoop")'
    BY <1>1, <2>1, <2>2, QueuedSame DEF OutputInv, Methods
  <2>4. NothingReordered' /\ wire' \in Seq(Byte)
    BY DEF DataInv, SocketSound
  <2>5. QED
    BY <2>1, <2>3, <2>4, OutputWrite
<1>5. CASE DelayExpires
  <2>1. UNCHANGED <<outputVars, peer, events, functors>>
    BY <1>5 DEF DelayExpires, outputVars
  <2>2. \/ UNCHANGED <<state, pendingFunctors>>
        \/ /\ state \in {"kConnected", "kDisconnecting"} /\ state' = "kDisconnecting"
           /\ Posts("forceCloseInLoop")
    BY <1>5, PostPosts DEF DelayExpires
  <2>3. "forceCloseInLoop" \in Methods \ {"shutdownInLoop"}
    BY DEF Methods
  <2>4. QED
    BY <1>1, <2>1, <2>2, <2>3, OutputStay
<1>6. CASE SwapPendingFunctors
  <2>1. UNCHANGED <<outputVars, peer, state, events>>
    BY <1>6 DEF SwapPendingFunctors, outputVars
  <2>2. ~Queued("shutdownInLoop")'
    BY <1>6, InEmpty DEF SwapPendingFunctors, OutputInv, Queued
  <2>3. QED
    BY <2>1, <2>2 DEF OutputInv, outputVars, WritingIffBuffered, SentBy
<1>7. CASE RunFunctor
  <2>1. ~RunConnectEstablished
    BY <1>1, TakeQueued DEF StartInv, Queued, RunConnectEstablished
  <2>2. CASE RunConnectDestroyed
    <3>1. /\ UNCHANGED <<outputVars, peer, pendingFunctors>> /\ Takes("connectDestroyed")
          /\ UNCHANGED <<state, events>> \/ state' = "kDisconnected"
      BY <2>2 DEF RunConnectDestroyed, ConnectDestroyed, outputVars
    <3>2. "connectDestroyed" \in Methods \ {"shutdownInLoop"}
      BY DEF Methods
    <3>3. QED
      BY <1>1, <3>1, <3>2, OutputStay
  <2>3. CASE RunSendInLoop
    <3>1. /\ SendInLoop(Head(functors).msg) /\ Takes("sendInLoop")
          /\ UNCHANGED <<owed, finSent, peer, sent>>
      BY <2>3 DEF RunSendInLoop
    <3>2. Head(functors).msg \in Nat
      BY <3>1, TakesType DEF Methods
    <3>3. UNCHANGED pendingFunctors \/ Posts("writeComplete") \/ Posts("highWaterMark")
      BY <3>1, SendInLoopPosts
    <3>4. ~Queued("shutdownInLoop")'
      BY <1>1, <3>1, <3>3, QueuedSame DEF OutputInv, Methods
    <3>5. SentBy(LoopThread)' = SentBy(LoopThread)
      BY <3>1 DEF SentBy
    <3>6. QED
      BY <3>1, <3>2, <3>4, <3>5, OutputSend
  <2>4. ~RunShutdownInLoop
    BY <1>1, TakeQueued DEF OutputInv, Queued, RunShutdownInLoop
  <2>5. CASE RunForceCloseInLoop
    <3>1. /\ UNCHANGED <<outputVars, peer, pendingFunctors>> /\ Takes("forceCloseInLoop")
          /\ UNCHANGED <<state, events>> \/ state' = "kDisconnected"
      BY <2>5 DEF RunForceCloseInLoop, HandleClose, outputVars
    <3>2. "forceCloseInLoop" \in Methods \ {"shutdownInLoop"}
      BY DEF Methods
    <3>3. QED
      BY <1>1, <3>1, <3>2, OutputStay
  <2>6. ASSUME NEW f \in {"writeComplete", "highWaterMark"}, RunUserCallback(f)
        PROVE  OutputInv'
    <3>1. /\ UNCHANGED <<outputVars, peer, state, events, pendingFunctors>> /\ Takes(f)
      BY <2>6 DEF RunUserCallback, outputVars
    <3>2. f \in Methods \ {"shutdownInLoop"}
      BY DEF Methods
    <3>3. QED
      BY <1>1, <3>1, <3>2, OutputStay
  <2>7. QED
    BY <1>7, <2>1, <2>2, <2>3, <2>4, <2>5, <2>6 DEF RunFunctor
<1>8. QED
  BY <1>2, <1>hup, <1>3, <1>4, <1>5, <1>6, <1>7 DEF LoopStep

LEMMA OutputUser ==
    ASSUME DataInv, OutputInv, UserStep \/ ReturnFromCallback
    PROVE  OutputInv'
<1> USE DEF connVars, loopVars, ownerVars, socketVars, sendVars, callbackVars
<1>1. QueuesTyped
  BY DEF DataInv
<1>2. CASE LoopSend
  <2>1. /\ sent' = Append(sent, LoopThread) /\ SendInLoop(Len(sent')) /\ state = "kConnected"
        /\ UNCHANGED <<owed, finSent, peer, functors>>
    BY <1>2 DEF LoopSend
  <2>2. Len(sent') \in Nat
    BY <1>1, <2>1, PostMsgType
  <2>3. UNCHANGED pendingFunctors \/ Posts("writeComplete") \/ Posts("highWaterMark")
    BY <2>1, SendInLoopPosts
  <2>4. ~Queued("shutdownInLoop")'
    BY <1>1, <2>1, <2>3, QueuedSame DEF OutputInv, Methods
  <2>5. SentBy(LoopThread)' = SentBy(LoopThread) \cup {Len(sent')}
    BY <1>1, <2>1, SentAppend
  <2>6. QED
    BY <2>1, <2>2, <2>4, <2>5, OutputSend
<1>3. CASE LoopShutdown
  <2>1. /\ state = "kConnected" /\ state' = "kDisconnecting"
        /\ finSent' = (finSent \/ "write" \notin events) /\ owed' = SentBy(LoopThread)
        /\ UNCHANGED <<events, outputBuffer, wire, accepted, sent, peer, functors, pendingFunctors>>
    BY <1>3 DEF LoopShutdown, ShutdownInLoop
  <2>2. finSent = FALSE
    BY <2>1 DEF OutputInv
  <2>3. "write" \notin events => accepted = wire
    <3>1. "write" \notin events => outputBuffer = <<>>
      BY <2>1 DEF OutputInv, WritingIffBuffered
    <3>2. wire \in Seq(Byte)
      BY DEF DataInv, SocketSound
    <3>3. QED
      BY <3>1, <3>2, ConcatEmptySeq DEF DataInv, NothingReordered
  <2>4. finSent' = TRUE /\ peer # "rst" => \A m \in owed' : Holds(wire', m)
    BY <2>1, <2>2, <2>3 DEF OutputInv
  <2>5. WritingIffBuffered' /\ SentBy(LoopThread)' = SentBy(LoopThread)
    BY <2>1 DEF OutputInv, WritingIffBuffered, SentBy
  <2>6. ~Queued("shutdownInLoop")' /\ finSent' \in BOOLEAN
    BY <2>1, <2>2 DEF OutputInv, Queued
  <2>7. QED
    BY <2>1, <2>4, <2>5, <2>6 DEF OutputInv
<1>4. CASE LoopForceClose
  <2>1. /\ UNCHANGED <<outputVars, peer, events, functors>> /\ Posts("forceCloseInLoop")
        /\ state \in {"kConnected", "kDisconnecting"} /\ state' = "kDisconnecting"
    BY <1>4, PostPosts DEF LoopForceClose, outputVars
  <2>2. "forceCloseInLoop" \in Methods \ {"shutdownInLoop"}
    BY DEF Methods
  <2>3. QED
    BY <1>1, <2>1, <2>2, OutputStay
<1>5. CASE LoopForceCloseWithDelay
  <2>1. /\ UNCHANGED <<outputVars, peer, events, functors, pendingFunctors>>
        /\ state \in {"kConnected", "kDisconnecting"} /\ state' = "kDisconnecting"
    BY <1>5 DEF LoopForceCloseWithDelay, outputVars
  <2>2. QED
    BY <1>1, <2>1, OutputStay
<1>6. CASE ReturnFromCallback
  <2>1. UNCHANGED <<outputVars, peer, state, events, functors>>
    BY <1>6 DEF ReturnFromCallback, outputVars
  <2>2. UNCHANGED pendingFunctors \/ Posts("connectDestroyed")
    BY <1>6, PostPosts DEF ReturnFromCallback, RemoveConnectionInLoop
  <2>3. "connectDestroyed" \in Methods \ {"shutdownInLoop"}
    BY DEF Methods
  <2>4. QED
    BY <1>1, <2>1, <2>2, <2>3, OutputStay
<1>7. QED
  BY <1>2, <1>3, <1>4, <1>5, <1>6 DEF UserStep

LEMMA OutputOthers ==
    ASSUME OthersOnlySend, DataInv, SessionInv, OutputInv, Next,
           ~LoopStep, ~UserStep, ~ReturnFromCallback
    PROVE  OutputInv'
<1> USE DEF connVars, loopVars, ownerVars, socketVars, sendVars, callbackVars
<1>1. QueuesTyped
  BY DEF DataInv
<1>2. ASSUME NEW t \in Threads,
             (\E op \in ForeignOps : Begin(t, op)) \/ ThreadStep(t) \/ Release(t)
      PROVE  OutputInv'
  <2>1. CASE (\E op \in ForeignOps : Begin(t, op)) \/ Release(t)
    <3>1. UNCHANGED <<outputVars, peer, state, events, functors, pendingFunctors>>
      BY <2>1 DEF Begin, Release, outputVars
    <3>2. QED
      BY <1>1, <3>1, OutputStay
  <2>2. CASE PostSend(t)
    <3>1. /\ sent' = Append(sent, t) /\ t # LoopThread
          /\ UNCHANGED <<state, events, outputBuffer, wire, accepted, owed, finSent, peer, functors>>
      BY <2>2, TcpConnectionAssumption DEF PostSend
    <3>2. SentBy(LoopThread)' = SentBy(LoopThread)
      BY <1>1, <3>1, SentAppend
    <3>3. Posts("sendInLoop")
      <4>1. Len(sent') \in Nat
        BY <1>1, <3>1, PostMsgType
      <4>2. QED
        BY <2>2, <4>1 DEF PostSend, Posts
    <3>4. ~Queued("shutdownInLoop")'
      BY <1>1, <3>1, <3>3, QueuedSame DEF OutputInv, Methods
    <3>5. QED
      BY <3>1, <3>2, <3>4 DEF OutputInv, WritingIffBuffered
  <2>3. call[t] \in {"idle", "send"}
    BY DEF OthersOnlySend, SessionInv
  <2>4. ~SetDisconnecting(t) /\ ~PostClose(t)
    BY <2>3 DEF SetDisconnecting, PostClose
  <2>5. QED
    BY <1>2, <2>1, <2>2, <2>4 DEF ThreadStep
<1>3. CASE RunServerFunctor
  <2>1. UNCHANGED <<outputVars, peer, state, events, functors>> /\ Posts("connectDestroyed")
    BY <1>3, PostPosts DEF RunServerFunctor, RemoveConnectionInLoop, outputVars
  <2>2. "connectDestroyed" \in Methods \ {"shutdownInLoop"}
    BY DEF Methods
  <2>3. QED
    BY <1>1, <2>1, <2>2, OutputStay
<1>4. CASE DestroyServer
  <2>1. /\ UNCHANGED <<outputVars, peer, functors, pendingFunctors>>
        /\ UNCHANGED <<state, events>> \/ state' = "kDisconnected"
    BY <1>4 DEF DestroyServer, ConnectDestroyed, outputVars
  <2>2. QED
    BY <1>1, <2>1, OutputStay
<1>5. CASE PeerSends \/ PeerReads \/ PeerResets
  <2>1. /\ UNCHANGED <<outputVars, state, events, functors, pendingFunctors>>
        /\ peer' = peer \/ peer' = "rst"
    BY <1>5 DEF PeerSends, PeerReads, PeerResets, outputVars
  <2>2. QED
    BY <1>1, <2>1, OutputStay
<1>6. CASE PeerCloses
  <2>1. UNCHANGED <<outputVars, state, events, functors, pendingFunctors>> /\ peer = "open"
    BY <1>6 DEF PeerCloses, outputVars
  <2>2. QED
    BY <2>1 DEF OutputInv, WritingIffBuffered, SentBy, Queued, outputVars
<1>7. QED
  BY <1>2, <1>3, <1>4, <1>5, <1>6 DEF Next

LEMMA OutputFresh == ASSUME Fresh, state = "kConnecting" PROVE OutputInv
<1>1. ~Queued("shutdownInLoop")
  BY InEmpty, InOne DEF Fresh, Queued, Functor
<1>2. SentBy(LoopThread) = {}
  BY DEF Fresh, SentBy
<1>3. QED
  BY <1>1, <1>2 DEF Fresh, OutputInv, WritingIffBuffered

LEMMA OutputNext ==
    ASSUME OthersOnlySend, DataInv, StartInv, SessionInv, OutputInv, [Next]_vars, DataInv'
    PROVE  OutputInv'
<1> USE DEF connVars, loopVars, ownerVars, socketVars, sendVars
<1>1. CASE UNCHANGED vars
  BY <1>1 DEF OutputInv, WritingIffBuffered, SentBy, Queued, vars
<1>2. CASE Next /\ state = "kConnecting"
  <2>1. CASE RunConnectEstablished
    <3>1. Fresh /\ Takes("connectEstablished")
      BY <1>2, <2>1 DEF StartInv, RunConnectEstablished
    <3>2. /\ UNCHANGED <<outputVars, peer, pendingFunctors>>
          /\ events' = {"read"} /\ state' = "kConnected"
      BY <2>1 DEF RunConnectEstablished, EventsBecome, outputVars
    <3>3. ~Queued("shutdownInLoop")'
      <4>1. QueuesTyped /\ "connectEstablished" \in Methods \ {"shutdownInLoop"}
        BY DEF DataInv, Methods
      <4>2. QED
        BY <3>1, <3>2, <4>1, QueuedSame DEF OutputInv
    <3>4. SentBy(LoopThread)' = {}
      BY <3>1, <3>2 DEF Fresh, SentBy, outputVars
    <3>5. QED
      BY <3>1, <3>2, <3>3, <3>4 DEF Fresh, OutputInv, WritingIffBuffered, outputVars
  <2>2. CASE state' = "kConnecting" /\ Fresh'
    <3>1. ~Queued("shutdownInLoop")'
      BY <2>2, InEmpty, InOne DEF Fresh, Queued, Functor
    <3>2. SentBy(LoopThread)' = {}
      BY <2>2 DEF Fresh, SentBy
    <3>3. QED
      BY <2>2, <3>1, <3>2 DEF Fresh, OutputInv, WritingIffBuffered
  <2>3. QED
    BY <1>2, <2>1, <2>2, FreshNext
<1>3. CASE Next /\ state # "kConnecting"
  BY <1>3, OutputLoop, OutputUser, OutputOthers
<1>4. QED
  BY <1>1, <1>2, <1>3

OutputIndInv == DataInv /\ StartInv /\ SessionInv /\ OutputInv

\* While the connection is up it listens for POLLOUT exactly when data waits,
\* and a FIN comes after all its caller sent: for any data, any sizes, and a
\* server that may be destroyed, as long as other threads only send.
THEOREM OutputCorrect == ASSUME OthersOnlySend PROVE Spec => []OutputSound
<1>1. Init => OutputIndInv
  <2>1. Init => Fresh /\ state = "kConnecting"
    BY DEF Init, Fresh
  <2>2. QED
    BY <2>1, DataInit, StartInit, SessionInit, OutputFresh DEF OutputIndInv
<1>2. OutputIndInv /\ [Next]_vars => OutputIndInv'
  <2>1. DataInv => QueuesTyped
    BY DEF DataInv
  <2>2. QED
    BY <2>1, DataNext, StartNext, SessionNext, OutputNext DEF OutputIndInv
<1>3. OutputIndInv => OutputSound
  <2>1. owed \subseteq SentBy(LoopThread) /\ (finSent \in BOOLEAN)
        /\ (finSent = TRUE /\ peer # "rst" => \A m \in owed : Holds(wire, m))
        => FinAfterData
    BY DEF FinAfterData, Holds
  <2>2. QED
    BY <2>1 DEF OutputIndInv, OutputInv, OutputSound
<1>4. QED
  BY <1>1, <1>2, <1>3, PTL DEF Spec
-----------------------------------------------------------------------------
(* The order of the messages of one thread *)

Queue == functors \o pendingFunctors

Sends(x) == x.method = "sendInLoop"

\* The calls of sendInLoop in q are of messages that threads of s have sent, in
\* the order they were numbered.
Ordered(q, s) ==
    /\ \A i \in DOMAIN q : IF Sends(q[i])
                           THEN q[i].msg \in DOMAIN s /\ s[q[i].msg] \in Threads
                           ELSE q[i].msg = 0
    /\ \A i, j \in DOMAIN q : i < j /\ Sends(q[i]) /\ Sends(q[j]) => q[i].msg < q[j].msg

\* The bytes of a come in the order of s, and before those that wait in q.
Before(a, q, s) ==
    /\ \A i \in DOMAIN a : a[i][1] \in DOMAIN s /\ a[i][2] \in 1..MsgLen
    /\ \A i \in DOMAIN a, j \in DOMAIN q :
          Sends(q[j]) /\ s[a[i][1]] = s[q[j].msg] => a[i][1] <= q[j].msg
    /\ \A i, j \in DOMAIN a : i < j /\ s[a[i][1]] = s[a[j][1]] => a[i][1] <= a[j][1]

OrderInv == Ordered(Queue, sent) /\ Before(accepted, Queue, sent)

LEMMA OrderTail ==
    ASSUME NEW q \in Seq(FunctorType), q # <<>>, NEW s, NEW a, Ordered(q, s), Before(a, q, s)
    PROVE  Ordered(Tail(q), s) /\ Before(a, Tail(q), s)
<1>1. /\ DOMAIN q = 1..Len(q) /\ Len(q) \in Nat \ {0}
      /\ DOMAIN Tail(q) = 1..(Len(q) - 1)
      /\ \A i \in 1..(Len(q) - 1) : Tail(q)[i] = q[i + 1]
  BY HeadTailProperties, LenProperties, EmptySeq
<1>2. \A i \in DOMAIN Tail(q) : i + 1 \in DOMAIN q /\ Tail(q)[i] = q[i + 1]
  BY <1>1
<1>3. \A i, j \in DOMAIN Tail(q) : i < j => i + 1 < j + 1
  BY <1>1
<1>4. Ordered(Tail(q), s)
  BY <1>2, <1>3 DEF Ordered
<1>5. Before(a, Tail(q), s)
  BY <1>2 DEF Before
<1>6. QED
  BY <1>4, <1>5

LEMMA AppendParts ==
    ASSUME NEW S, NEW q \in Seq(S), NEW x \in S
    PROVE  /\ DOMAIN q = 1..Len(q) /\ Len(q) \in Nat
           /\ DOMAIN Append(q, x) = DOMAIN q \cup {Len(q) + 1}
           /\ \A i \in DOMAIN q : i < Len(q) + 1 /\ i \in Nat /\ Append(q, x)[i] = q[i]
           /\ Append(q, x)[Len(q) + 1] = x
           /\ Len(Append(q, x)) = Len(q) + 1
<1>1. /\ DOMAIN q = 1..Len(q) /\ Len(q) \in Nat
      /\ DOMAIN Append(q, x) = 1..(Len(q) + 1)
      /\ \A i \in 1..Len(q) : Append(q, x)[i] = q[i]
      /\ Append(q, x)[Len(q) + 1] = x
      /\ Len(Append(q, x)) = Len(q) + 1
  BY AppendProperties, LenProperties
<1>2. 1..(Len(q) + 1) = 1..Len(q) \cup {Len(q) + 1}
  BY <1>1
<1>3. QED
  BY <1>1, <1>2

LEMMA OrderAppend ==
    ASSUME NEW q \in Seq(FunctorType), NEW x \in FunctorType, ~Sends(x), x.msg = 0,
           NEW s, NEW a, Ordered(q, s), Before(a, q, s)
    PROVE  Ordered(Append(q, x), s) /\ Before(a, Append(q, x), s)
<1>1. /\ DOMAIN Append(q, x) = DOMAIN q \cup {Len(q) + 1}
      /\ \A i \in DOMAIN q : Append(q, x)[i] = q[i]
      /\ Append(q, x)[Len(q) + 1] = x
  BY AppendParts
<1>2. \A i \in DOMAIN Append(q, x) : Sends(Append(q, x)[i]) => i \in DOMAIN q
  BY <1>1
<1>3. Ordered(Append(q, x), s)
  BY <1>1, <1>2 DEF Ordered
<1>4. Before(a, Append(q, x), s)
  BY <1>1, <1>2 DEF Before
<1>5. QED
  BY <1>3, <1>4

\* A message is numbered after all the others, and so its call is queued last.
LEMMA OrderNumber ==
    ASSUME NEW q, NEW a, NEW s \in Seq(Threads \cup {LoopThread}),
           NEW t \in Threads \cup {LoopThread}, Ordered(q, s), Before(a, q, s)
    PROVE  Ordered(q, Append(s, t)) /\ Before(a, q, Append(s, t))
<1>1. /\ DOMAIN Append(s, t) = DOMAIN s \cup {Len(s) + 1}
      /\ \A i \in DOMAIN s : Append(s, t)[i] = s[i]
  BY AppendParts
<1>2. Ordered(q, Append(s, t))
  BY <1>1 DEF Ordered
<1>3. Before(a, q, Append(s, t))
  <2>1. \A i \in DOMAIN a : a[i][1] \in DOMAIN s
    BY DEF Before
  <2>2. \A j \in DOMAIN q : Sends(q[j]) => q[j].msg \in DOMAIN s
    BY DEF Ordered
  <2>3. QED
    BY <1>1, <2>1, <2>2 DEF Before
<1>4. QED
  BY <1>2, <1>3

LEMMA OrderPost ==
    ASSUME NEW q \in Seq(FunctorType), NEW a, NEW s \in Seq(Threads \cup {LoopThread}),
           NEW t \in Threads, Ordered(q, s), Before(a, q, s), NEW x \in FunctorType,
           x = Functor("sendInLoop", Len(Append(s, t)))
    PROVE  Ordered(Append(q, x), Append(s, t)) /\ Before(a, Append(q, x), Append(s, t))
<1> DEFINE r == Append(s, t)
           p == Append(q, x)
<1>1. /\ DOMAIN p = DOMAIN q \cup {Len(q) + 1}
      /\ \A i \in DOMAIN q : i \in Nat /\ i < Len(q) + 1 /\ p[i] = q[i]
      /\ p[Len(q) + 1] = x /\ Len(q) \in Nat
  BY AppendParts
<1>2. /\ DOMAIN r = DOMAIN s \cup {Len(s) + 1} /\ Len(s) \in Nat /\ Len(r) = Len(s) + 1
      /\ \A i \in DOMAIN s : i \in Nat /\ i < Len(s) + 1
      /\ r[Len(s) + 1] = t
  BY AppendParts
<1>3. Sends(x) /\ x.msg = Len(s) + 1
  BY <1>2 DEF Sends, Functor
<1>4. Ordered(q, r) /\ Before(a, q, r)
  BY OrderNumber
<1>5. \A j \in DOMAIN q : Sends(q[j]) => q[j].msg < Len(s) + 1
  BY <1>2 DEF Ordered
<1>6. \A i \in DOMAIN a : a[i][1] <= Len(s) + 1
  BY <1>2 DEF Before
<1> HIDE DEF r, p
<1>7. Ordered(p, r)
  <2>1. ASSUME NEW i \in DOMAIN p
        PROVE  IF Sends(p[i]) THEN p[i].msg \in DOMAIN r /\ r[p[i].msg] \in Threads
                              ELSE p[i].msg = 0
    <3>1. CASE i \in DOMAIN q
      BY <1>1, <1>4, <3>1 DEF Ordered
    <3>2. CASE i = Len(q) + 1
      BY <1>1, <1>2, <1>3, <3>2
    <3>3. QED
      BY <1>1, <3>1, <3>2
  <2>2. ASSUME NEW i \in DOMAIN p, NEW j \in DOMAIN p, i < j, Sends(p[i]), Sends(p[j])
        PROVE  p[i].msg < p[j].msg
    <3>1. i \in DOMAIN q
      BY <1>1, <2>2
    <3>2. CASE j \in DOMAIN q
      BY <1>1, <1>4, <2>2, <3>1, <3>2 DEF Ordered
    <3>3. CASE j = Len(q) + 1
      BY <1>1, <1>3, <1>5, <2>2, <3>1, <3>3
    <3>4. QED
      BY <1>1, <3>2, <3>3
  <2>3. QED
    BY <2>1, <2>2 DEF Ordered
<1>8. Before(a, p, r)
  <2>1. ASSUME NEW i \in DOMAIN a, NEW j \in DOMAIN p, Sends(p[j]), r[a[i][1]] = r[p[j].msg]
        PROVE  a[i][1] <= p[j].msg
    <3>1. CASE j \in DOMAIN q
      BY <1>1, <1>4, <2>1, <3>1 DEF Before
    <3>2. CASE j = Len(q) + 1
      BY <1>1, <1>3, <1>6, <3>2
    <3>3. QED
      BY <1>1, <3>1, <3>2
  <2>2. QED
    BY <1>4, <2>1 DEF Before
<1>9. QED
  BY <1>7, <1>8 DEF p, r

\* sendInLoop accepts the bytes of m after those of the messages before it.
LEMMA OrderAccept ==
    ASSUME NEW a \in Seq(Byte), NEW q, NEW s, NEW m \in Nat, m \in DOMAIN s, Before(a, q, s),
           \A i \in DOMAIN a : s[a[i][1]] = s[m] => a[i][1] <= m,
           \A j \in DOMAIN q : Sends(q[j]) /\ s[m] = s[q[j].msg] => m <= q[j].msg
    PROVE  Before(a \o Bytes(m), q, s)
<1> DEFINE b == a \o Bytes(m)
<1>1. Bytes(m) \in Seq(Byte) /\ Len(Bytes(m)) = MsgLen
  BY BytesType
<1>2. /\ Len(a) \in Nat /\ MsgLen \in Nat
      /\ DOMAIN a = 1..Len(a) /\ DOMAIN b = 1..(Len(a) + MsgLen)
      /\ \A i \in 1..(Len(a) + MsgLen) : b[i] = IF i <= Len(a) THEN a[i] ELSE Bytes(m)[i - Len(a)]
  <2>1. b \in Seq(Byte) /\ Len(b) = Len(a) + MsgLen
    BY <1>1, ConcatProperties
  <2>2. QED
    BY <1>1, <2>1, ConcatProperties, LenProperties, TcpConnectionAssumption
<1>3. \A i \in DOMAIN b : \/ i \in DOMAIN a /\ b[i] = a[i]
                          \/ i > Len(a) /\ b[i][1] = m /\ b[i][2] \in 1..MsgLen
  <2>1. ASSUME NEW i \in DOMAIN b, i > Len(a)
        PROVE  b[i][1] = m /\ b[i][2] \in 1..MsgLen
    <3>1. i - Len(a) \in 1..MsgLen /\ b[i] = Bytes(m)[i - Len(a)]
      BY <1>2, <2>1
    <3>2. b[i] = <<m, i - Len(a)>>
      BY <3>1 DEF Bytes
    <3>3. QED
      BY <3>1, <3>2
  <2>2. QED
    BY <1>2, <2>1
<1> HIDE DEF b
<1>4. \A i \in DOMAIN b : b[i][1] \in DOMAIN s /\ b[i][2] \in 1..MsgLen
  BY <1>3 DEF Before
<1>5. ASSUME NEW i \in DOMAIN b, NEW j \in DOMAIN q, Sends(q[j]), s[b[i][1]] = s[q[j].msg]
      PROVE  b[i][1] <= q[j].msg
  BY <1>3, <1>5 DEF Before
<1>6. ASSUME NEW i \in DOMAIN b, NEW j \in DOMAIN b, i < j, s[b[i][1]] = s[b[j][1]]
      PROVE  b[i][1] <= b[j][1]
  <2>1. CASE i \in DOMAIN a /\ b[i] = a[i]
    <3>1. CASE j \in DOMAIN a /\ b[j] = a[j]
      BY <1>6, <2>1, <3>1 DEF Before
    <3>2. CASE b[j][1] = m
      BY <1>6, <2>1, <3>2
    <3>3. QED
      BY <1>3, <3>1, <3>2
  <2>2. CASE i > Len(a) /\ b[i][1] = m
    <3>1. b[j][1] = m
      BY <1>2, <1>3, <1>6, <2>2
    <3>2. QED
      BY <2>2, <3>1
  <2>3. QED
    BY <1>3, <2>1, <2>2
<1>7. QED
  BY <1>4, <1>5, <1>6 DEF Before, b

LEMMA ConcatAppend ==
    ASSUME NEW S, NEW f \in Seq(S), NEW p \in Seq(S), NEW x \in S
    PROVE  f \o Append(p, x) = Append(f \o p, x)
<1>1. <<x>> \in Seq(S)
  OBVIOUS
<1>2. Append(p, x) = p \o <<x>>
  BY AppendIsConcat
<1>3. f \o p \in Seq(S)
  BY ConcatProperties
<1>4. Append(f \o p, x) = (f \o p) \o <<x>>
  BY <1>3, AppendIsConcat
<1>5. (f \o p) \o <<x>> = f \o (p \o <<x>>)
  BY <1>1, ConcatAssociative
<1>6. QED
  BY <1>2, <1>4, <1>5

LEMMA ConcatTail ==
    ASSUME NEW S, NEW f \in Seq(S), f # <<>>, NEW p \in Seq(S)
    PROVE  /\ Tail(f) \o p = Tail(f \o p)
           /\ f \o p # <<>> /\ Head(f \o p) = Head(f)
<1>1. /\ Tail(f) \in Seq(S) /\ Len(Tail(f)) = Len(f) - 1
      /\ \A i \in 1..(Len(f) - 1) : Tail(f)[i] = f[i + 1]
      /\ Len(f) \in Nat \ {0} /\ Len(p) \in Nat
  BY HeadTailProperties, EmptySeq, LenProperties
<1>2. /\ f \o p \in Seq(S) /\ Len(f \o p) = Len(f) + Len(p)
      /\ \A i \in 1..(Len(f) + Len(p)) : (f \o p)[i] = IF i <= Len(f) THEN f[i] ELSE p[i - Len(f)]
  BY ConcatProperties
<1>3. f \o p # <<>>
  BY <1>1, <1>2, EmptySeq
<1>4. /\ Tail(f \o p) \in Seq(S) /\ Len(Tail(f \o p)) = Len(f) + Len(p) - 1
      /\ \A i \in 1..(Len(f) + Len(p) - 1) : Tail(f \o p)[i] = (f \o p)[i + 1]
  <2>1. /\ Tail(f \o p) \in Seq(S) /\ Len(Tail(f \o p)) = Len(f \o p) - 1
        /\ \A i \in 1..Len(Tail(f \o p)) : Tail(f \o p)[i] = (f \o p)[i + 1]
    BY <1>2, <1>3, HeadTailProperties
  <2>2. QED
    BY <1>2, <2>1
<1>5. /\ Tail(f) \o p \in Seq(S) /\ Len(Tail(f) \o p) = Len(f) - 1 + Len(p)
      /\ \A i \in 1..(Len(f) - 1 + Len(p)) :
            (Tail(f) \o p)[i] = IF i <= Len(f) - 1 THEN Tail(f)[i] ELSE p[i - (Len(f) - 1)]
  <2>1. /\ Tail(f) \o p \in Seq(S) /\ Len(Tail(f) \o p) = Len(Tail(f)) + Len(p)
        /\ \A i \in 1..(Len(Tail(f)) + Len(p)) :
              (Tail(f) \o p)[i] = IF i <= Len(Tail(f)) THEN Tail(f)[i] ELSE p[i - Len(Tail(f))]
    BY <1>1, ConcatProperties
  <2>2. QED
    BY <1>1, <2>1
<1>6. ASSUME NEW i \in 1..(Len(f) + Len(p) - 1)
      PROVE  (Tail(f) \o p)[i] = Tail(f \o p)[i]
  <2>1. Tail(f \o p)[i] = (f \o p)[i + 1] /\ i + 1 \in 1..(Len(f) + Len(p))
    BY <1>1, <1>4
  <2>2. CASE i <= Len(f) - 1
    BY <1>1, <1>2, <1>5, <2>1, <2>2
  <2>3. CASE ~(i <= Len(f) - 1)
    <3>1. (f \o p)[i + 1] = p[i + 1 - Len(f)]
      BY <1>1, <1>2, <2>1, <2>3
    <3>2. (Tail(f) \o p)[i] = p[i - (Len(f) - 1)]
      BY <1>1, <1>5, <2>3
    <3>3. i + 1 - Len(f) = i - (Len(f) - 1)
      BY <1>1
    <3>4. QED
      BY <2>1, <3>1, <3>2, <3>3
  <2>4. QED
    BY <2>2, <2>3
<1>7. Tail(f) \o p = Tail(f \o p)
  <2>1. Len(Tail(f) \o p) = Len(Tail(f \o p)) /\ Len(Tail(f) \o p) = Len(f) + Len(p) - 1
    BY <1>1, <1>4, <1>5
  <2>2. QED
    BY <1>4, <1>5, <1>6, <2>1, SeqEqual
<1>8. Head(f \o p) = Head(f)
  <2>1. Head(f \o p) = (f \o p)[1] /\ Head(f) = f[1]
    BY <1>2, <1>3
  <2>2. QED
    BY <1>1, <1>2, <2>1
<1>9. QED
  BY <1>3, <1>7, <1>8

LEMMA QueueType == QueuesTyped => Queue \in Seq(FunctorType)
BY ConcatProperties DEF QueuesTyped, Queue

LEMMA QueueTakes ==
    ASSUME QueuesTyped, NEW g, Takes(g), UNCHANGED pendingFunctors
    PROVE  Queue # <<>> /\ Queue' = Tail(Queue) /\ Head(Queue) = Head(functors)
BY ConcatTail DEF QueuesTyped, Takes, Queue

LEMMA QueuePosts ==
    ASSUME QueuesTyped, UNCHANGED functors, NEW x \in FunctorType,
           pendingFunctors' = Append(pendingFunctors, x)
    PROVE  Queue' = Append(Queue, x)
BY ConcatAppend DEF QueuesTyped, Queue

\* The queue loses its first functor, or gets one that is not a sendInLoop.
LEMMA OrderStay ==
    ASSUME QueuesTyped, OrderInv, UNCHANGED <<sent, accepted>>,
           \/ UNCHANGED <<functors, pendingFunctors>>
           \/ UNCHANGED pendingFunctors /\ \E g \in Methods : Takes(g)
           \/ UNCHANGED functors /\ \E f \in Methods \ {"sendInLoop"} : Post(f)
    PROVE  OrderInv'
<1>1. CASE UNCHANGED <<functors, pendingFunctors>>
  <2>1. UNCHANGED Queue
    BY <1>1 DEF Queue
  <2>2. QED
    BY <2>1 DEF OrderInv
<1>2. ASSUME NEW g \in Methods, UNCHANGED pendingFunctors, Takes(g) PROVE OrderInv'
  <2>1. Queue # <<>> /\ Queue' = Tail(Queue) /\ Queue \in Seq(FunctorType)
    BY <1>2, QueueTakes, QueueType
  <2>2. Ordered(Tail(Queue), sent) /\ Before(accepted, Tail(Queue), sent)
    BY <2>1, OrderTail DEF OrderInv
  <2>3. QED
    BY <2>1, <2>2 DEF OrderInv
<1>3. ASSUME NEW f \in Methods \ {"sendInLoop"}, UNCHANGED functors, Post(f) PROVE OrderInv'
  <2>1. Functor(f, 0) \in FunctorType /\ ~Sends(Functor(f, 0)) /\ Functor(f, 0).msg = 0
    BY DEF Functor, FunctorType, Sends
  <2>2. Queue' = Append(Queue, Functor(f, 0)) /\ Queue \in Seq(FunctorType)
    BY <1>3, <2>1, QueuePosts, QueueType DEF Post
  <2>3. Ordered(Append(Queue, Functor(f, 0)), sent) /\ Before(accepted, Append(Queue, Functor(f, 0)), sent)
    BY <2>1, <2>2, OrderAppend DEF OrderInv
  <2>4. QED
    BY <2>2, <2>3 DEF OrderInv
<1>4. QED
  BY <1>1, <1>2, <1>3

\* sendInLoop(m) with the functors q before it posts its own.
LEMMA OrderSend ==
    ASSUME NEW m \in Nat, SendInLoop(m), NEW q \in Seq(FunctorType), NEW s,
           accepted \in Seq(Byte), m \in DOMAIN s, Ordered(q, s), Before(accepted, q, s),
           \A i \in DOMAIN accepted : s[accepted[i][1]] = s[m] => accepted[i][1] <= m,
           \A j \in DOMAIN q : Sends(q[j]) /\ s[m] = s[q[j].msg] => m <= q[j].msg,
           NEW Q, UNCHANGED pendingFunctors => Q = q,
           \A f \in Methods : Post(f) => Q = Append(q, Functor(f, 0))
    PROVE  Ordered(Q, s) /\ Before(accepted', Q, s)
<1>1. Before(accepted', q, s)
  <2>1. accepted' = accepted \/ accepted' = accepted \o Bytes(m)
    BY DEF SendInLoop
  <2>2. QED
    BY <2>1, OrderAccept
<1>2. UNCHANGED pendingFunctors \/ Post("writeComplete") \/ Post("highWaterMark")
  BY ZenonT(60) DEF SendInLoop
<1>3. CASE UNCHANGED pendingFunctors
  BY <1>1, <1>3
<1>4. ASSUME NEW f \in {"writeComplete", "highWaterMark"}, Post(f)
      PROVE  Ordered(Q, s) /\ Before(accepted', Q, s)
  <2>1. Functor(f, 0) \in FunctorType /\ ~Sends(Functor(f, 0)) /\ Functor(f, 0).msg = 0
    BY DEF Functor, FunctorType, Sends, Methods
  <2>2. Q = Append(q, Functor(f, 0))
    BY <1>4 DEF Methods
  <2>3. QED
    BY <1>1, <2>1, <2>2, OrderAppend
<1>5. QED
  BY <1>2, <1>3, <1>4

LEMMA OrderRunSend ==
    ASSUME DataInv, OrderInv, RunSendInLoop
    PROVE  OrderInv'
<1> DEFINE m == Head(functors).msg
           q == Tail(Queue)
<1>1. /\ Takes("sendInLoop") /\ SendInLoop(m) /\ UNCHANGED sent
      /\ functors # <<>> /\ Head(functors).method = "sendInLoop" /\ functors' = Tail(functors)
  BY DEF RunSendInLoop, Takes
<1>2. /\ functors \in Seq(FunctorType) /\ pendingFunctors \in Seq(FunctorType)
      /\ Queue \in Seq(FunctorType) /\ accepted \in Seq(Byte)
  BY QueueType DEF DataInv, QueuesTyped, BufferSound
<1>3. m \in Nat /\ Tail(functors) \in Seq(FunctorType)
  BY <1>1, TakesType DEF Methods
<1>4. Queue # <<>> /\ q = Tail(functors) \o pendingFunctors /\ Head(Queue) = Head(functors)
  BY <1>1, <1>2, ConcatTail DEF Queue
<1>5. /\ DOMAIN Queue = 1..Len(Queue) /\ Len(Queue) \in Nat \ {0} /\ Head(Queue) = Queue[1]
      /\ q \in Seq(FunctorType) /\ DOMAIN q = 1..(Len(Queue) - 1)
      /\ \A i \in 1..(Len(Queue) - 1) : q[i] = Queue[i + 1]
  BY <1>2, <1>4, HeadTailProperties, LenProperties, EmptySeq
<1>6. Queue[1].msg = m /\ Sends(Queue[1]) /\ 1 \in DOMAIN Queue
  <2>1. Queue[1] = Head(functors)
    BY <1>4, <1>5
  <2>2. 1 \in DOMAIN Queue
    BY <1>5
  <2>3. QED
    BY <1>1, <2>1, <2>2 DEF Sends
<1>7. Ordered(q, sent) /\ Before(accepted, q, sent)
  BY <1>2, <1>4, OrderTail DEF OrderInv
<1>8. m \in DOMAIN sent
  BY <1>6 DEF OrderInv, Ordered
<1>9. \A i \in DOMAIN accepted : sent[accepted[i][1]] = sent[m] => accepted[i][1] <= m
  BY <1>6 DEF OrderInv, Before
<1>10. \A j \in DOMAIN q : Sends(q[j]) /\ sent[m] = sent[q[j].msg] => m <= q[j].msg
  <2>1. ASSUME NEW j \in DOMAIN q, Sends(q[j]) PROVE m < q[j].msg /\ q[j].msg \in Nat
    <3>1. j + 1 \in DOMAIN Queue /\ 1 < j + 1 /\ q[j] = Queue[j + 1]
      BY <1>5
    <3>2. m < q[j].msg
      BY <1>6, <2>1, <3>1 DEF OrderInv, Ordered
    <3>3. q[j] \in FunctorType
      BY <1>5, LenProperties, ElementOfSeq
    <3>4. QED
      BY <3>2, <3>3 DEF FunctorType
  <2>2. QED
    BY <1>3, <2>1
<1>11. UNCHANGED pendingFunctors => Queue' = q
  BY <1>1, <1>4 DEF Queue
<1>12. \A f \in Methods : Post(f) => Queue' = Append(q, Functor(f, 0))
  <2>1. ASSUME NEW f \in Methods, Post(f) PROVE Queue' = Append(q, Functor(f, 0))
    <3>1. Functor(f, 0) \in FunctorType
      BY DEF Functor, FunctorType
    <3>2. Tail(functors) \o Append(pendingFunctors, Functor(f, 0)) = Append(q, Functor(f, 0))
      <4>1. Tail(functors) \o Append(pendingFunctors, Functor(f, 0))
              = Append(Tail(functors) \o pendingFunctors, Functor(f, 0))
        BY <1>2, <1>3, <3>1, ConcatAppend
      <4>2. QED
        BY <1>4, <4>1
    <3>3. Queue' = functors' \o pendingFunctors'
      BY DEF Queue
    <3>4. functors' = Tail(functors) /\ pendingFunctors' = Append(pendingFunctors, Functor(f, 0))
      BY <1>1, <2>1 DEF Post
    <3>5. QED
      BY <3>2, <3>3, <3>4
  <2>2. QED
    BY <2>1
<1> HIDE DEF m, q
<1>13. Ordered(Queue', sent) /\ Before(accepted', Queue', sent)
  <2>1. /\ SendInLoop(m) /\ m \in Nat /\ q \in Seq(FunctorType) /\ accepted \in Seq(Byte)
        /\ m \in DOMAIN sent /\ Ordered(q, sent) /\ Before(accepted, q, sent)
    BY <1>1, <1>2, <1>3, <1>5, <1>7, <1>8
  <2>2. QED
    BY <2>1, <1>9, <1>10, <1>11, <1>12, OrderSend
<1>14. QED
  BY <1>1, <1>13 DEF OrderInv

LEMMA OrderLoopSend ==
    ASSUME DataInv, OrderInv, LoopSend
    PROVE  OrderInv'
<1> DEFINE m == Len(sent')
           s == Append(sent, LoopThread)
<1>1. sent' = s /\ SendInLoop(m) /\ UNCHANGED functors
  BY DEF LoopSend, loopVars
<1>2. /\ sent \in Seq(Threads \cup {LoopThread}) /\ pendingFunctors \in Seq(FunctorType)
      /\ functors \in Seq(FunctorType) /\ Queue \in Seq(FunctorType) /\ accepted \in Seq(Byte)
  BY QueueType DEF DataInv, QueuesTyped, BufferSound
<1>3. Ordered(Queue, s) /\ Before(accepted, Queue, s)
  BY <1>2, OrderNumber DEF OrderInv
<1>4. /\ DOMAIN s = DOMAIN sent \cup {Len(sent) + 1} /\ m = Len(sent) + 1 /\ Len(sent) \in Nat
      /\ DOMAIN sent = 1..Len(sent)
      /\ \A i \in DOMAIN sent : s[i] = sent[i]
      /\ s[Len(sent) + 1] = LoopThread
  BY <1>1, <1>2, AppendParts
<1>5. m \in Nat /\ m \in DOMAIN s
  BY <1>4
<1>6. \A i \in DOMAIN accepted : s[accepted[i][1]] = s[m] => accepted[i][1] <= m
  BY <1>4 DEF OrderInv, Before
<1>7. \A j \in DOMAIN Queue : Sends(Queue[j]) => s[Queue[j].msg] # s[m]
  BY <1>4, TcpConnectionAssumption DEF OrderInv, Ordered
<1>8. UNCHANGED pendingFunctors => Queue' = Queue
  BY <1>1 DEF Queue
<1>9. \A f \in Methods : Post(f) => Queue' = Append(Queue, Functor(f, 0))
  <2>1. ASSUME NEW f \in Methods, Post(f) PROVE Queue' = Append(Queue, Functor(f, 0))
    <3>1. Functor(f, 0) \in FunctorType
      BY DEF Functor, FunctorType
    <3>2. QueuesTyped /\ pendingFunctors' = Append(pendingFunctors, Functor(f, 0))
      BY <2>1 DEF Post, DataInv
    <3>3. QED
      BY <1>1, <3>1, <3>2, QueuePosts
  <2>2. QED
    BY <2>1
<1> HIDE DEF m, s
<1>10. Ordered(Queue', s) /\ Before(accepted', Queue', s)
  BY <1>1, <1>2, <1>3, <1>5, <1>6, <1>7, <1>8, <1>9, OrderSend
<1>11. QED
  BY <1>1, <1>10 DEF OrderInv

LEMMA OrderPostSend ==
    ASSUME DataInv, OrderInv, NEW t \in Threads, PostSend(t)
    PROVE  OrderInv'
<1>1. /\ sent' = Append(sent, t) /\ UNCHANGED <<functors, accepted>>
      /\ pendingFunctors' = Append(pendingFunctors, Functor("sendInLoop", Len(sent')))
  BY DEF PostSend
<1>2. sent \in Seq(Threads \cup {LoopThread}) /\ Queue \in Seq(FunctorType) /\ QueuesTyped
  BY QueueType DEF DataInv, QueuesTyped
<1>3. Functor("sendInLoop", Len(sent')) \in FunctorType
  <2>1. Len(sent') \in Nat
    BY <1>1, <1>2, PostMsgType
  <2>2. QED
    BY <2>1 DEF Functor, FunctorType, Methods
<1>4. Queue' = Append(Queue, Functor("sendInLoop", Len(sent')))
  BY <1>1, <1>2, <1>3, QueuePosts
<1>5. Ordered(Queue', sent') /\ Before(accepted, Queue', sent')
  BY <1>1, <1>2, <1>3, <1>4, OrderPost DEF OrderInv
<1>6. QED
  BY <1>1, <1>5 DEF OrderInv

LEMMA OrderLoop ==
    ASSUME DataInv, StartInv, OrderInv, LoopStep
    PROVE  OrderInv'
<1> USE DEF connVars, loopVars, ownerVars, socketVars, sendVars, callbackVars, LoopIdle
<1>1. QueuesTyped
  BY DEF DataInv
<1>2. CASE Poll \/ DispatchHangUp \/ DispatchError \/ DispatchRead \/ EndFunctors
  <2>1. UNCHANGED <<sent, accepted, functors, pendingFunctors>>
    BY <1>2 DEF Poll, DispatchHangUp, DispatchError, DispatchRead, EndFunctors, HandleClose
  <2>2. QED
    BY <1>1, <2>1, OrderStay
<1>3. CASE DispatchWrite \/ DelayExpires
  <2>1. UNCHANGED <<sent, accepted, functors>>
    BY <1>3 DEF DispatchWrite, DelayExpires
  <2>2. UNCHANGED pendingFunctors \/ Post("writeComplete") \/ Post("forceCloseInLoop")
    BY <1>3 DEF DispatchWrite, HandleWrite, DelayExpires
  <2>3. {"writeComplete", "forceCloseInLoop"} \subseteq Methods \ {"sendInLoop"}
    BY DEF Methods
  <2>4. QED
    BY <1>1, <2>1, <2>2, <2>3, OrderStay
<1>4. CASE SwapPendingFunctors
  <2>1. /\ functors = <<>> /\ functors' = pendingFunctors /\ pendingFunctors' = <<>>
        /\ UNCHANGED <<sent, accepted>>
    BY <1>4 DEF SwapPendingFunctors, StartInv
  <2>2. Queue' = Queue
    <3>1. pendingFunctors \in Seq(FunctorType)
      BY <1>1 DEF QueuesTyped
    <3>2. pendingFunctors \o <<>> = <<>> \o pendingFunctors
      BY <3>1, ConcatEmptySeq
    <3>3. QED
      BY <2>1, <3>2 DEF Queue
  <2>3. QED
    BY <2>1, <2>2 DEF OrderInv
<1>5. CASE RunFunctor
  <2>1. CASE RunSendInLoop
    BY <2>1, OrderRunSend
  <2>2. CASE ~RunSendInLoop
    <3>1. UNCHANGED <<sent, accepted, pendingFunctors>>
      BY <1>5, <2>2 DEF RunFunctor, RunConnectEstablished, RunConnectDestroyed,
                        RunShutdownInLoop, RunForceCloseInLoop, RunUserCallback
    <3>2. \E g \in Methods : Takes(g)
      BY <1>5, <2>2 DEF RunFunctor, RunConnectEstablished, RunConnectDestroyed,
                        RunShutdownInLoop, RunForceCloseInLoop, RunUserCallback, Methods
    <3>3. QED
      BY <1>1, <3>1, <3>2, OrderStay
  <2>3. QED
    BY <2>1, <2>2
<1>6. QED
  BY <1>2, <1>3, <1>4, <1>5 DEF LoopStep

LEMMA OrderOthers ==
    ASSUME DataInv, OrderInv, Next, ~LoopStep
    PROVE  OrderInv'
<1> USE DEF connVars, loopVars, ownerVars, socketVars, sendVars, callbackVars
<1>1. QueuesTyped
  BY DEF DataInv
<1>2. {"forceCloseInLoop", "shutdownInLoop", "connectDestroyed"} \subseteq Methods \ {"sendInLoop"}
  BY DEF Methods
<1>3. CASE LoopSend
  BY <1>3, OrderLoopSend
<1>4. CASE LoopShutdown \/ LoopForceClose \/ LoopForceCloseWithDelay
  <2>1. UNCHANGED <<sent, accepted, functors>>
    BY <1>4 DEF LoopShutdown, LoopForceClose, LoopForceCloseWithDelay
  <2>2. UNCHANGED pendingFunctors \/ Post("forceCloseInLoop")
    BY <1>4 DEF LoopShutdown, LoopForceClose, LoopForceCloseWithDelay
  <2>3. QED
    BY <1>1, <1>2, <2>1, <2>2, OrderStay
<1>5. CASE ReturnFromCallback \/ RunServerFunctor
  <2>1. UNCHANGED <<sent, accepted, functors>>
    BY <1>5 DEF ReturnFromCallback, RunServerFunctor
  <2>2. UNCHANGED pendingFunctors \/ Post("connectDestroyed")
    BY <1>5 DEF ReturnFromCallback, RunServerFunctor, RemoveConnectionInLoop
  <2>3. QED
    BY <1>1, <1>2, <2>1, <2>2, OrderStay
<1>6. ASSUME NEW t \in Threads,
             (\E op \in ForeignOps : Begin(t, op)) \/ ThreadStep(t) \/ Release(t)
      PROVE  OrderInv'
  <2>1. CASE PostSend(t)
    BY <2>1, OrderPostSend
  <2>2. CASE ~PostSend(t)
    <3>1. UNCHANGED <<sent, accepted, functors>>
      BY <1>6, <2>2 DEF Begin, ThreadStep, SetDisconnecting, PostClose, Release
    <3>2. UNCHANGED pendingFunctors \/ Post("shutdownInLoop") \/ Post("forceCloseInLoop")
      BY <1>6, <2>2 DEF Begin, ThreadStep, SetDisconnecting, PostClose, Release
    <3>3. QED
      BY <1>1, <1>2, <3>1, <3>2, OrderStay
  <2>3. QED
    BY <2>1, <2>2
<1>7. CASE DestroyServer \/ PeerSends \/ PeerReads \/ PeerCloses \/ PeerResets
  <2>1. UNCHANGED <<sent, accepted, functors, pendingFunctors>>
    BY <1>7 DEF DestroyServer, PeerSends, PeerReads, PeerCloses, PeerResets
  <2>2. QED
    BY <1>1, <2>1, OrderStay
<1>8. QED
  BY <1>3, <1>4, <1>5, <1>6, <1>7 DEF Next, UserStep

LEMMA OrderInit == Init => OrderInv
<1> SUFFICES ASSUME Init PROVE OrderInv
  OBVIOUS
<1>1. Functor("connectEstablished", 0) \in FunctorType
  BY DEF Functor, FunctorType, Methods
<1>2. Queue = <<Functor("connectEstablished", 0)>>
  BY <1>1, ConcatEmptySeq DEF Init, Queue
<1>3. DOMAIN Queue = {1} /\ Queue[1] = Functor("connectEstablished", 0)
  BY <1>2
<1>4. ~Sends(Queue[1]) /\ Queue[1].msg = 0
  BY <1>3 DEF Sends, Functor
<1>5. Ordered(Queue, sent)
  BY <1>3, <1>4 DEF Ordered
<1>6. DOMAIN accepted = {}
  BY DEF Init
<1>7. Before(accepted, Queue, sent)
  BY <1>6 DEF Before
<1>8. QED
  BY <1>5, <1>7 DEF OrderInv

LEMMA OrderNext == DataInv /\ StartInv /\ OrderInv /\ [Next]_vars => OrderInv'
<1> SUFFICES ASSUME DataInv, StartInv, OrderInv, [Next]_vars PROVE OrderInv'
  OBVIOUS
<1>1. CASE UNCHANGED vars
  <2>1. UNCHANGED <<Queue, sent, accepted>>
    BY <1>1 DEF vars, loopVars, sendVars, Queue
  <2>2. QED
    BY <2>1 DEF OrderInv
<1>2. CASE Next
  BY <1>2, OrderLoop, OrderOthers
<1>3. QED
  BY <1>1, <1>2

\* Whatever threads send, close or destroy, the messages of each go out in the
\* order it sent them, the loop's own, which overtake the others', included.
THEOREM OrderCorrect == Spec => []OrderPerThread
<1>1. Init => DataInv /\ StartInv /\ OrderInv
  BY DataInit, StartInit, OrderInit
<1>2. DataInv /\ StartInv /\ OrderInv /\ [Next]_vars => (DataInv /\ StartInv /\ OrderInv)'
  <2>1. DataInv => QueuesTyped
    BY DEF DataInv
  <2>2. QED
    BY <2>1, DataNext, StartNext, OrderNext
<1>3. OrderInv => OrderPerThread
  BY DEF OrderInv, Before, OrderPerThread
<1>4. QED
  BY <1>1, <1>2, <1>3, PTL DEF Spec
-----------------------------------------------------------------------------
(* Types and the bound on the messages *)

Calls == {"idle", "send", "shutdown", "shutdownSet", "forceClose", "forceCloseSet"}

\* The types of the variables that are neither queues nor data.
LoopTyped ==
    /\ events \subseteq {"read", "write"}
    /\ addedToLoop \in BOOLEAN
    /\ phase \in {"poll", "events", "functors"}
    /\ revents \subseteq {"HUP", "ERR", "IN", "OUT"}
    /\ callback \in Callbacks \cup {"none"}
    /\ finSent \in BOOLEAN
    /\ input \in BOOLEAN
    /\ sockError \in BOOLEAN
    /\ ups \in Nat /\ messages \in Nat /\ downs \in Nat
    /\ failed \subseteq Asserts

OwnersTyped ==
    /\ connections \in BOOLEAN
    /\ serverFunctors \in Seq({"removeConnectionInLoop"})
    /\ delayed \in BOOLEAN
    /\ holds \subseteq Threads
    /\ call \in [Threads -> Calls]
    /\ peer \in {"open", "fin", "rst"}
    /\ owed \subseteq DOMAIN sent
    /\ closes \in 0..MaxClose
    /\ received \in 0..MaxInput

Sending == {t \in Threads : call[t] = "send"}

\* Each call of send() that has begun is one of the MaxSend.
SendsBounded == Len(sent) + Cardinality(Sending) <= MaxSend

loopTypedVars == <<events, addedToLoop, phase, revents, callback, finSent, input, sockError,
                   ups, messages, downs, failed>>
ownersTypedVars == <<connections, serverFunctors, delayed, holds, call, peer, owed, sent,
                     closes, received>>

LEMMA SendInLoopTyped ==
    ASSUME LoopTyped, NEW m, SendInLoop(m)
    PROVE  events' \subseteq {"read", "write"} /\ addedToLoop' \in BOOLEAN
BY DEF SendInLoop, EventsBecome, connVars, LoopTyped

LEMMA HandleCloseTyped ==
    ASSUME LoopTyped, HandleClose
    PROVE  /\ events' \subseteq {"read", "write"} /\ addedToLoop' \in BOOLEAN
           /\ callback' \in Callbacks /\ downs' \in Nat /\ failed' \subseteq Asserts
BY DEF HandleClose, EventsBecome, Check, Callbacks, Asserts, LoopTyped

LEMMA ConnectDestroyedTyped ==
    ASSUME LoopTyped, ConnectDestroyed
    PROVE  /\ events' \subseteq {"read", "write"} /\ addedToLoop' \in BOOLEAN
           /\ callback' \in Callbacks \cup {"none"} /\ downs' \in Nat /\ failed' \subseteq Asserts
<1>1. CASE state = "kConnected"
  BY <1>1 DEF ConnectDestroyed, EventsBecome, Callbacks, LoopTyped
<1>2. CASE state # "kConnected"
  <2>1. /\ UNCHANGED <<events, callback, downs>> /\ addedToLoop' = FALSE
        /\ failed' = failed \/ failed' = failed \cup {"remove"}
    BY <1>2 DEF ConnectDestroyed, RemoveChannel, Check
  <2>2. QED
    BY <2>1 DEF LoopTyped, Asserts
<1>3. QED
  BY <1>1, <1>2

LEMMA HandleReadTyped ==
    ASSUME LoopTyped, HandleRead
    PROVE  /\ events' \subseteq {"read", "write"} /\ addedToLoop' \in BOOLEAN
           /\ callback' \in Callbacks \cup {"none"} /\ failed' \subseteq Asserts
           /\ messages' \in Nat /\ downs' \in Nat
           /\ input' \in BOOLEAN /\ sockError' \in BOOLEAN
<1>1. CASE /\ HandleClose
           /\ UNCHANGED <<messages, input, sockError>>
  BY <1>1, HandleCloseTyped DEF LoopTyped
<1>2. CASE /\ input' = FALSE
           /\ callback' = "message"
           /\ messages' = messages + 1
           /\ UNCHANGED <<connVars, downs, failed, sockError>>
  <2>1. UNCHANGED <<events, addedToLoop, downs, failed, sockError>>
    BY <1>2 DEF connVars
  <2>2. messages' = messages + 1 /\ messages \in Nat
    BY <1>2 DEF LoopTyped
  <2>3. messages' \in Nat
    BY <2>2
  <2>4. input' \in BOOLEAN /\ callback' \in Callbacks
    BY <1>2 DEF Callbacks
  <2>5. QED
    BY <2>1, <2>3, <2>4 DEF LoopTyped
<1>3. CASE /\ sockError' = FALSE
           /\ UNCHANGED <<connVars, callback, messages, downs, failed, input>>
  BY <1>3 DEF connVars, LoopTyped
<1>4. \/ /\ HandleClose
         /\ UNCHANGED <<messages, input, sockError>>
      \/ /\ input' = FALSE
         /\ callback' = "message"
         /\ messages' = messages + 1
         /\ UNCHANGED <<connVars, downs, failed, sockError>>
      \/ /\ sockError' = FALSE
         /\ UNCHANGED <<connVars, callback, messages, downs, failed, input>>
  BY DEF HandleRead
<1>5. QED
  BY <1>1, <1>2, <1>3, <1>4

LEMMA LoopTypedLoop ==
    ASSUME LoopTyped, LoopStep
    PROVE  LoopTyped'
<1> USE DEF connVars, loopVars, ownerVars, socketVars, sendVars, callbackVars
<1>1. CASE Poll
  BY <1>1 DEF Poll, Ready, LoopTyped
<1>hup. CASE DispatchHangUp
  BY <1>hup, HandleCloseTyped DEF DispatchHangUp, LoopTyped
<1>2. CASE DispatchError
  BY <1>2 DEF DispatchError, LoopTyped
<1>3. CASE DispatchRead
  <2>1. /\ revents' \subseteq revents /\ UNCHANGED <<phase, finSent, ups>> /\ HandleRead
    BY <1>3 DEF DispatchRead
  <2>2. QED
    BY <2>1, HandleReadTyped DEF LoopTyped
<1>4. CASE DispatchWrite
  <2>1. events' \subseteq events /\ addedToLoop' \in BOOLEAN /\ finSent' \in BOOLEAN
    BY <1>4 DEF DispatchWrite, HandleWrite, StopWriting, EventsBecome, FinishShutdown, LoopTyped
  <2>2. /\ revents' = {}
        /\ UNCHANGED <<phase, callback, input, sockError, ups, messages, downs, failed>>
    BY <1>4 DEF DispatchWrite
  <2>3. QED
    BY <2>1, <2>2 DEF LoopTyped
<1>5. CASE DelayExpires
  BY <1>5 DEF DelayExpires, LoopTyped
<1>6. CASE SwapPendingFunctors
  BY <1>6 DEF SwapPendingFunctors, LoopTyped
<1>7. CASE RunFunctor
  <2>1. CASE RunConnectEstablished
    BY <2>1 DEF RunConnectEstablished, Takes, EventsBecome, Check, LoopTyped, Callbacks, Asserts
  <2>2. CASE RunConnectDestroyed
    BY <2>2, ConnectDestroyedTyped DEF RunConnectDestroyed, Takes, LoopTyped
  <2>3. CASE RunSendInLoop
    BY <2>3, SendInLoopTyped DEF RunSendInLoop, Takes, LoopTyped
  <2>4. CASE RunShutdownInLoop
    BY <2>4 DEF RunShutdownInLoop, ShutdownInLoop, Takes, LoopTyped
  <2>5. CASE RunForceCloseInLoop
    BY <2>5, HandleCloseTyped DEF RunForceCloseInLoop, Takes, LoopTyped
  <2>6. ASSUME NEW f \in {"writeComplete", "highWaterMark"}, RunUserCallback(f)
        PROVE  LoopTyped'
    BY <2>6 DEF RunUserCallback, Takes, LoopTyped, Callbacks
  <2>7. QED
    BY <1>7, <2>1, <2>2, <2>3, <2>4, <2>5, <2>6 DEF RunFunctor
<1>8. CASE EndFunctors
  BY <1>8 DEF EndFunctors, LoopTyped
<1>9. QED
  BY <1>1, <1>hup, <1>2, <1>3, <1>4, <1>5, <1>6, <1>7, <1>8 DEF LoopStep

LEMMA LoopTypedOthers ==
    ASSUME LoopTyped, Next, ~LoopStep
    PROVE  LoopTyped'
<1> USE DEF connVars, loopVars, ownerVars, socketVars, sendVars, callbackVars
<1>1. CASE LoopSend
  BY <1>1, SendInLoopTyped DEF LoopSend, LoopTyped
<1>2. CASE LoopShutdown \/ LoopForceClose \/ LoopForceCloseWithDelay
  BY <1>2 DEF LoopShutdown, ShutdownInLoop, LoopForceClose, LoopForceCloseWithDelay, LoopTyped
<1>3. CASE ReturnFromCallback
  <2>1. addedToLoop' \in BOOLEAN /\ failed' \subseteq Asserts
    BY <1>3 DEF ReturnFromCallback, RemoveConnectionInLoop, RemoveChannel, Check, LoopTyped, Asserts
  <2>2. /\ callback' = "none"
        /\ UNCHANGED <<events, phase, revents, finSent, input, sockError, ups, messages, downs>>
    BY <1>3 DEF ReturnFromCallback
  <2>3. QED
    BY <2>1, <2>2 DEF LoopTyped
<1>4. CASE \E t \in Threads : (\E op \in ForeignOps : Begin(t, op)) \/ ThreadStep(t) \/ Release(t)
  <2>1. UNCHANGED loopTypedVars
    BY <1>4 DEF Begin, ThreadStep, PostSend, SetDisconnecting, PostClose, Release, loopTypedVars
  <2>2. QED
    BY <2>1 DEF LoopTyped, loopTypedVars
<1>5. CASE RunServerFunctor
  BY <1>5 DEF RunServerFunctor, RemoveConnectionInLoop, Check, LoopTyped, Asserts
<1>6. CASE DestroyServer
  BY <1>6, ConnectDestroyedTyped DEF DestroyServer, LoopTyped
<1>7. CASE PeerSends \/ PeerReads \/ PeerCloses \/ PeerResets
  BY <1>7 DEF PeerSends, PeerReads, PeerCloses, PeerResets, LoopTyped
<1>8. QED
  BY <1>1, <1>2, <1>3, <1>4, <1>5, <1>6, <1>7 DEF Next, UserStep

LEMMA SentGrows ==
    ASSUME QueuesTyped, NEW t \in Threads \cup {LoopThread}, sent' = Append(sent, t)
    PROVE  /\ DOMAIN sent \subseteq DOMAIN sent'
           /\ Len(sent) \in Nat /\ Len(sent') = Len(sent) + 1
BY AppendParts DEF QueuesTyped

LEMMA CallTyped ==
    ASSUME OwnersTyped, NEW t \in Threads, NEW c \in Calls, call' = [call EXCEPT ![t] = c]
    PROVE  /\ call' \in [Threads -> Calls]
           /\ call'[t] = c
           /\ \A u \in Threads \ {t} : call'[u] = call[u]
BY DEF OwnersTyped

LEMMA OwnersTypedLoop ==
    ASSUME OwnersTyped, LoopStep
    PROVE  OwnersTyped' /\ UNCHANGED <<sent, call>>
<1> USE DEF connVars, loopVars, ownerVars, socketVars, sendVars, callbackVars
<1>1. CASE \/ Poll \/ DispatchHangUp \/ DispatchError \/ DispatchRead \/ DispatchWrite
         \/ SwapPendingFunctors \/ EndFunctors
  <2>1. UNCHANGED ownersTypedVars
    BY <1>1 DEF Poll, DispatchHangUp, DispatchError, DispatchRead, DispatchWrite, SwapPendingFunctors,
                EndFunctors,
                ownersTypedVars
  <2>2. QED
    BY <2>1 DEF OwnersTyped, ownersTypedVars
<1>2. CASE DelayExpires
  BY <1>2 DEF DelayExpires, OwnersTyped
<1>3. CASE RunFunctor
  <2>1. CASE RunConnectEstablished
    BY <2>1 DEF RunConnectEstablished, OwnersTyped
  <2>2. CASE \/ RunConnectDestroyed \/ RunSendInLoop \/ RunShutdownInLoop \/ RunForceCloseInLoop
             \/ \E f \in {"writeComplete", "highWaterMark"} : RunUserCallback(f)
    <3>1. UNCHANGED ownersTypedVars
      BY <2>2 DEF RunConnectDestroyed, RunSendInLoop, RunShutdownInLoop, RunForceCloseInLoop,
                  RunUserCallback, ownersTypedVars
    <3>2. QED
      BY <3>1 DEF OwnersTyped, ownersTypedVars
  <2>3. QED
    BY <1>3, <2>1, <2>2 DEF RunFunctor
<1>4. QED
  BY <1>1, <1>2, <1>3 DEF LoopStep

LEMMA OwnersTypedUser ==
    ASSUME QueuesTyped, OwnersTyped, UserStep
    PROVE  OwnersTyped'
<1> USE DEF connVars, loopVars, ownerVars, socketVars, sendVars, callbackVars
<1>1. CASE LoopSend
  <2>1. /\ DOMAIN sent \subseteq DOMAIN sent'
        /\ UNCHANGED <<connections, serverFunctors, delayed, holds, call, peer, owed, closes, received>>
    BY <1>1, SentGrows DEF LoopSend
  <2>2. QED
    BY <2>1 DEF OwnersTyped
<1>2. CASE LoopShutdown
  <2>1. /\ owed' \subseteq DOMAIN sent
        /\ UNCHANGED <<connections, serverFunctors, delayed, holds, call, peer, sent, closes, received>>
    BY <1>2 DEF LoopShutdown, SentBy
  <2>2. QED
    BY <2>1 DEF OwnersTyped
<1>3. CASE LoopForceClose
  <2>1. /\ closes' \in 0..MaxClose
        /\ UNCHANGED <<connections, serverFunctors, delayed, holds, call, peer, owed, sent, received>>
    BY <1>3, TcpConnectionAssumption DEF LoopForceClose, OwnersTyped
  <2>2. QED
    BY <2>1 DEF OwnersTyped
<1>4. CASE LoopForceCloseWithDelay
  BY <1>4 DEF LoopForceCloseWithDelay, OwnersTyped
<1>5. QED
  BY <1>1, <1>2, <1>3, <1>4 DEF UserStep

LEMMA OwnersTypedThread ==
    ASSUME QueuesTyped, OwnersTyped, NEW t \in Threads,
           (\E op \in ForeignOps : Begin(t, op)) \/ ThreadStep(t) \/ Release(t)
    PROVE  OwnersTyped'
<1> USE DEF connVars, loopVars, ownerVars, socketVars, sendVars, callbackVars
<1>1. ASSUME NEW op \in ForeignOps, Begin(t, op)
      PROVE  OwnersTyped'
  <2>1. op \in Calls
    BY TcpConnectionAssumption DEF Calls
  <2>2. call' \in [Threads -> Calls]
    BY <1>1, <2>1, CallTyped DEF Begin
  <2>3. closes' \in 0..MaxClose
    <3>1. CASE op = "forceClose"
      BY <1>1, <3>1, TcpConnectionAssumption DEF Begin, OwnersTyped
    <3>2. CASE op # "forceClose"
      BY <1>1, <3>2 DEF Begin, OwnersTyped
    <3>3. QED
      BY <3>1, <3>2
  <2>4. UNCHANGED <<connections, serverFunctors, delayed, holds, peer, owed, sent, received>>
    BY <1>1 DEF Begin
  <2>5. QED
    BY <2>2, <2>3, <2>4 DEF OwnersTyped
<1>2. CASE PostSend(t)
  <2>1. call' \in [Threads -> Calls]
    BY <1>2, CallTyped DEF PostSend, Calls
  <2>2. /\ DOMAIN sent \subseteq DOMAIN sent'
        /\ UNCHANGED <<connections, serverFunctors, delayed, holds, peer, owed, closes, received>>
    BY <1>2, SentGrows DEF PostSend
  <2>3. QED
    BY <2>1, <2>2 DEF OwnersTyped
<1>3. CASE SetDisconnecting(t)
  <2>1. call' = [call EXCEPT ![t] = "shutdownSet"] \/ call' = [call EXCEPT ![t] = "forceCloseSet"]
    BY <1>3 DEF SetDisconnecting
  <2>2. call' \in [Threads -> Calls]
    BY <2>1, CallTyped DEF Calls
  <2>3. owed' = owed \/ owed' = SentBy(t)
    BY <1>3 DEF SetDisconnecting
  <2>4. owed' \subseteq DOMAIN sent
    BY <2>3 DEF SentBy, OwnersTyped
  <2>5. UNCHANGED <<connections, serverFunctors, delayed, holds, peer, sent, closes, received>>
    BY <1>3 DEF SetDisconnecting
  <2>6. QED
    BY <2>2, <2>4, <2>5 DEF OwnersTyped
<1>4. CASE PostClose(t)
  <2>1. call' \in [Threads -> Calls]
    BY <1>4, CallTyped DEF PostClose, Calls
  <2>2. UNCHANGED <<connections, serverFunctors, delayed, holds, peer, owed, sent, closes, received>>
    BY <1>4 DEF PostClose
  <2>3. QED
    BY <2>1, <2>2 DEF OwnersTyped
<1>5. CASE Release(t)
  BY <1>5 DEF Release, OwnersTyped
<1>6. QED
  BY <1>1, <1>2, <1>3, <1>4, <1>5 DEF ThreadStep

LEMMA OwnersTypedOthers ==
    ASSUME QueuesTyped, OwnersTyped, Next, ~LoopStep
    PROVE  OwnersTyped'
<1> USE DEF connVars, loopVars, ownerVars, socketVars, sendVars, callbackVars
<1>1. CASE UserStep
  BY <1>1, OwnersTypedUser
<1>2. CASE ReturnFromCallback
  <2>1. connections' \in BOOLEAN
    BY <1>2 DEF ReturnFromCallback, RemoveConnectionInLoop, OwnersTyped
  <2>2. serverFunctors' = serverFunctors \/ serverFunctors' = Append(serverFunctors, "removeConnectionInLoop")
    BY <1>2 DEF ReturnFromCallback
  <2>3. serverFunctors' \in Seq({"removeConnectionInLoop"})
    BY <2>2, AppendProperties DEF OwnersTyped
  <2>4. UNCHANGED <<delayed, holds, call, peer, owed, sent, closes, received>>
    BY <1>2 DEF ReturnFromCallback
  <2>5. QED
    BY <2>1, <2>3, <2>4 DEF OwnersTyped
<1>3. CASE \E t \in Threads : (\E op \in ForeignOps : Begin(t, op)) \/ ThreadStep(t) \/ Release(t)
  BY <1>3, OwnersTypedThread
<1>4. CASE RunServerFunctor
  <2>1. connections' \in BOOLEAN /\ serverFunctors # <<>> /\ serverFunctors' = Tail(serverFunctors)
    BY <1>4 DEF RunServerFunctor, RemoveConnectionInLoop
  <2>2. serverFunctors' \in Seq({"removeConnectionInLoop"})
    BY <2>1, HeadTailProperties DEF OwnersTyped
  <2>3. UNCHANGED <<delayed, holds, call, peer, owed, sent, closes, received>>
    BY <1>4 DEF RunServerFunctor
  <2>4. QED
    BY <2>1, <2>2, <2>3 DEF OwnersTyped
<1>5. CASE DestroyServer
  BY <1>5 DEF DestroyServer, OwnersTyped
<1>6. CASE PeerSends
  BY <1>6, TcpConnectionAssumption DEF PeerSends, OwnersTyped
<1>7. CASE PeerReads \/ PeerCloses \/ PeerResets
  BY <1>7 DEF PeerReads, PeerCloses, PeerResets, OwnersTyped
<1>8. QED
  BY <1>1, <1>2, <1>3, <1>4, <1>5, <1>6, <1>7 DEF Next

LEMMA SendingFinite == IsFiniteSet(Sending) /\ Cardinality(Sending) \in Nat
<1>1. IsFiniteSet(Threads) /\ Sending \subseteq Threads
  BY TcpConnectionAssumption DEF Sending
<1>2. QED
  BY <1>1, FS_Subset, FS_CardinalityType

\* A call that begins adds one, a message that is posted takes one away.
LEMMA SendingChanges ==
    ASSUME OwnersTyped, NEW t \in Threads, NEW c \in Calls, call' = [call EXCEPT ![t] = c]
    PROVE  Sending' = IF c = "send" THEN Sending \cup {t} ELSE Sending \ {t}
<1>1. /\ call'[t] = c
      /\ \A u \in Threads \ {t} : call'[u] = call[u]
  BY CallTyped
<1>2. QED
  BY <1>1 DEF Sending

LEMMA SendsThread ==
    ASSUME QueuesTyped, OwnersTyped, SendsBounded, NEW t \in Threads,
           (\E op \in ForeignOps : Begin(t, op)) \/ ThreadStep(t) \/ Release(t)
    PROVE  SendsBounded'
<1> USE DEF sendVars, ownerVars
<1>1. IsFiniteSet(Sending) /\ Cardinality(Sending) \in Nat /\ Len(sent) \in Nat /\ MaxSend \in Nat
  BY SendingFinite, LenProperties, TcpConnectionAssumption DEF QueuesTyped
<1>2. ASSUME NEW op \in ForeignOps, Begin(t, op)
      PROVE  SendsBounded'
  <2>1. op \in Calls
    BY TcpConnectionAssumption DEF Calls
  <2>2. UNCHANGED sent /\ call[t] = "idle" /\ t \notin Sending
    BY <1>2 DEF Begin, Sending
  <2>3. Sending' = IF op = "send" THEN Sending \cup {t} ELSE Sending \ {t}
    BY <1>2, <2>1, SendingChanges DEF Begin
  <2>4. CASE op = "send"
    <3>1. Len(sent) + Cardinality(Sending) < MaxSend
      BY <1>2, <2>4 DEF Begin, MaySend, Sending
    <3>2. Cardinality(Sending') = Cardinality(Sending) + 1
      BY <1>1, <2>2, <2>3, <2>4, FS_AddElement
    <3>3. QED
      BY <1>1, <2>2, <3>1, <3>2 DEF SendsBounded
  <2>5. CASE op # "send"
    <3>1. Sending' = Sending
      BY <2>2, <2>3, <2>5
    <3>2. QED
      BY <2>2, <3>1 DEF SendsBounded
  <2>6. QED
    BY <2>4, <2>5
<1>3. CASE PostSend(t)
  <2>1. Sending' = Sending \ {t} /\ t \in Sending
    BY <1>3, SendingChanges DEF PostSend, Calls, Sending
  <2>2. Cardinality(Sending') = Cardinality(Sending) - 1
    BY <1>1, <2>1, FS_RemoveElement
  <2>3. Len(sent') = Len(sent) + 1
    BY <1>3, SentGrows DEF PostSend
  <2>4. QED
    BY <1>1, <2>2, <2>3 DEF SendsBounded
<1>4. CASE SetDisconnecting(t) \/ PostClose(t)
  <2>1. /\ UNCHANGED sent /\ call[t] # "send"
        /\ \E c \in Calls \ {"send"} : call' = [call EXCEPT ![t] = c]
    BY <1>4 DEF SetDisconnecting, PostClose, Calls
  <2>2. Sending' = Sending \ {t} /\ t \notin Sending
    BY <2>1, SendingChanges DEF Sending
  <2>3. Sending' = Sending
    BY <2>2
  <2>4. QED
    BY <2>1, <2>3 DEF SendsBounded
<1>5. CASE Release(t)
  BY <1>5 DEF Release, SendsBounded, Sending
<1>6. QED
  BY <1>2, <1>3, <1>4, <1>5 DEF ThreadStep

LEMMA SendsOthers ==
    ASSUME QueuesTyped, SendsBounded, Next, ~LoopStep,
           ~\E t \in Threads : (\E op \in ForeignOps : Begin(t, op)) \/ ThreadStep(t) \/ Release(t)
    PROVE  SendsBounded'
<1> USE DEF sendVars
<1>1. CASE LoopSend
  <2>1. IsFiniteSet(Sending) /\ Cardinality(Sending) \in Nat /\ Len(sent) \in Nat /\ MaxSend \in Nat
    BY SendingFinite, LenProperties, TcpConnectionAssumption DEF QueuesTyped
  <2>2. Len(sent') = Len(sent) + 1 /\ Len(sent) + Cardinality(Sending) < MaxSend
    BY <1>1, SentGrows DEF LoopSend, MaySend, Sending
  <2>3. Sending' = Sending
    BY <1>1 DEF LoopSend, Sending
  <2>4. QED
    BY <2>1, <2>2, <2>3 DEF SendsBounded
<1>2. CASE ~LoopSend
  <2>1. UNCHANGED <<sent, call>>
    BY <1>2 DEF Next, UserStep, LoopShutdown, LoopForceClose, LoopForceCloseWithDelay,
                ReturnFromCallback, RunServerFunctor, DestroyServer, PeerSends, PeerReads,
                PeerCloses, PeerResets
  <2>2. QED
    BY <2>1 DEF SendsBounded, Sending
<1>3. QED
  BY <1>1, <1>2

TypedInv == LoopTyped /\ OwnersTyped /\ SendsBounded

LEMMA TypedInit == Init => TypedInv
<1> SUFFICES ASSUME Init PROVE TypedInv
  OBVIOUS
<1>1. LoopTyped
  BY DEF Init, LoopTyped
<1>2. OwnersTyped
  <2>1. call \in [Threads -> Calls] /\ serverFunctors \in Seq({"removeConnectionInLoop"})
    BY DEF Init, Calls
  <2>2. closes \in 0..MaxClose /\ received \in 0..MaxInput
    <3>1. MaxClose \in Nat /\ MaxInput \in Nat
      BY TcpConnectionAssumption
    <3>2. QED
      BY <3>1 DEF Init
  <2>3. QED
    BY <2>1, <2>2 DEF Init, OwnersTyped
<1>3. SendsBounded
  <2>1. Sending = {} /\ Len(sent) = 0
    BY DEF Init, Sending
  <2>2. QED
    BY <2>1, FS_EmptySet, TcpConnectionAssumption DEF SendsBounded
<1>4. QED
  BY <1>1, <1>2, <1>3 DEF TypedInv

LEMMA TypedNext == QueuesTyped /\ TypedInv /\ [Next]_vars => TypedInv'
<1> SUFFICES ASSUME QueuesTyped, TypedInv, [Next]_vars PROVE TypedInv'
  OBVIOUS
<1> USE DEF TypedInv
<1>1. CASE UNCHANGED vars
  <2>1. LoopTyped'
    BY <1>1 DEF vars, connVars, loopVars, socketVars, callbackVars, LoopTyped
  <2>2. OwnersTyped' /\ SendsBounded'
    BY <1>1 DEF vars, ownerVars, socketVars, sendVars, OwnersTyped, SendsBounded, Sending
  <2>3. QED
    BY <2>1, <2>2
<1>2. CASE LoopStep
  <2>1. LoopTyped' /\ OwnersTyped' /\ UNCHANGED <<sent, call>>
    BY <1>2, LoopTypedLoop, OwnersTypedLoop
  <2>2. QED
    BY <2>1 DEF SendsBounded, Sending
<1>3. CASE Next /\ ~LoopStep
  <2>1. LoopTyped' /\ OwnersTyped'
    BY <1>3, LoopTypedOthers, OwnersTypedOthers
  <2>2. SendsBounded'
    BY <1>3, SendsThread, SendsOthers
  <2>3. QED
    BY <2>1, <2>2
<1>4. QED
  BY <1>1, <1>2, <1>3

LEMMA ConcatElements ==
    ASSUME NEW S, NEW f \in Seq(S), NEW p \in Seq(S)
    PROVE  /\ \A i \in DOMAIN f : i \in DOMAIN (f \o p) /\ (f \o p)[i] = f[i]
           /\ \A i \in DOMAIN p : Len(f) + i \in DOMAIN (f \o p) /\ (f \o p)[Len(f) + i] = p[i]
<1>1. /\ Len(f) \in Nat /\ Len(p) \in Nat
      /\ DOMAIN f = 1..Len(f) /\ DOMAIN p = 1..Len(p)
      /\ DOMAIN (f \o p) = 1..(Len(f) + Len(p))
      /\ \A i \in 1..(Len(f) + Len(p)) : (f \o p)[i] = IF i <= Len(f) THEN f[i] ELSE p[i - Len(f)]
  BY ConcatProperties, LenProperties
<1>2. ASSUME NEW i \in DOMAIN p
      PROVE  Len(f) + i \in DOMAIN (f \o p) /\ (f \o p)[Len(f) + i] = p[i]
  <2>1. /\ Len(f) + i \in 1..(Len(f) + Len(p)) /\ ~(Len(f) + i <= Len(f))
        /\ Len(f) + i - Len(f) = i
    BY <1>1
  <2>2. QED
    BY <1>1, <2>1
<1>3. QED
  BY <1>1, <1>2

LEMMA Retype ==
    ASSUME NEW S, NEW T, NEW s \in Seq(S), \A i \in DOMAIN s : s[i] \in T
    PROVE  s \in Seq(T)
<1>1. Len(s) \in Nat /\ DOMAIN s = 1..Len(s) /\ s \in [1..Len(s) -> S]
  BY LenProperties
<1>2. s \in [1..Len(s) -> T]
  BY <1>1
<1>3. QED
  BY <1>1, <1>2, SeqDef

LEMMA SentBound ==
    ASSUME QueuesTyped, SendsBounded
    PROVE  DOMAIN sent \subseteq 1..MaxSend
<1>1. /\ Cardinality(Sending) \in Nat /\ Len(sent) \in Nat /\ DOMAIN sent = 1..Len(sent)
      /\ MaxSend \in Nat
  BY SendingFinite, LenProperties, TcpConnectionAssumption DEF QueuesTyped
<1>2. QED
  BY <1>1 DEF SendsBounded

LEMMA QueuesTypeOK ==
    ASSUME QueuesTyped, OrderInv, SendsBounded
    PROVE  /\ pendingFunctors \in Seq([method : Methods, msg : 0..MaxSend])
           /\ functors \in Seq([method : Methods, msg : 0..MaxSend])
<1> DEFINE T == [method : Methods, msg : 0..MaxSend]
<1>1. MaxSend \in Nat
  BY TcpConnectionAssumption
<1>2. \A i \in DOMAIN Queue : Queue[i].msg \in 0..MaxSend
  BY <1>1, SentBound DEF OrderInv, Ordered
<1>3. \A f \in FunctorType : f.msg \in 0..MaxSend => f \in T
  BY DEF FunctorType
<1>4. ASSUME NEW i \in DOMAIN functors
      PROVE  functors[i] \in T
  <2>1. functors[i] \in FunctorType /\ functors[i].msg \in 0..MaxSend
    BY <1>2, ConcatElements, ElementOfSeq DEF QueuesTyped, Queue
  <2>2. QED
    BY <1>3, <2>1
<1>5. ASSUME NEW i \in DOMAIN pendingFunctors
      PROVE  pendingFunctors[i] \in T
  <2>1. Len(functors) + i \in DOMAIN Queue /\ Queue[Len(functors) + i] = pendingFunctors[i]
    BY ConcatElements DEF QueuesTyped, Queue
  <2>2. pendingFunctors[i] \in FunctorType /\ pendingFunctors[i].msg \in 0..MaxSend
    BY <1>2, <2>1, ElementOfSeq DEF QueuesTyped
  <2>3. QED
    BY <1>3, <2>2
<1>6. QED
  BY <1>4, <1>5, Retype DEF QueuesTyped

LEMMA BytesTypeOK ==
    ASSUME DataInv, OrderInv, SendsBounded
    PROVE  /\ accepted \in Seq((1..MaxSend) \X (1..MsgLen))
           /\ wire \in Seq((1..MaxSend) \X (1..MsgLen))
           /\ outputBuffer \in Seq((1..MaxSend) \X (1..MsgLen))
<1> DEFINE T == (1..MaxSend) \X (1..MsgLen)
<1>1. /\ accepted \in Seq(Byte) /\ wire \in Seq(Byte) /\ outputBuffer \in Seq(Byte)
      /\ accepted = wire \o outputBuffer
  BY DEF DataInv, SocketSound, BufferSound, NothingReordered
<1>2. ASSUME NEW i \in DOMAIN accepted PROVE accepted[i] \in T
  <2>1. accepted[i][1] \in 1..MaxSend /\ accepted[i][2] \in 1..MsgLen
    BY SentBound DEF DataInv, OrderInv, Before
  <2>2. accepted[i] \in Byte
    BY <1>1, ElementOfSeq
  <2>3. \A b \in Byte : b = <<b[1], b[2]>>
    BY DEF Byte
  <2>4. accepted[i] = <<accepted[i][1], accepted[i][2]>>
    BY <2>2, <2>3
  <2>5. QED
    BY <2>1, <2>4
<1>3. \A i \in DOMAIN wire : wire[i] \in T
  BY <1>1, <1>2, ConcatElements
<1>4. ASSUME NEW i \in DOMAIN outputBuffer PROVE outputBuffer[i] \in T
  <2>1. Len(wire) + i \in DOMAIN accepted /\ accepted[Len(wire) + i] = outputBuffer[i]
    BY <1>1, ConcatElements
  <2>2. QED
    BY <1>2, <2>1
<1>5. QED
  BY <1>1, <1>2, <1>3, <1>4, Retype

TypeInv == DataInv /\ StartInv /\ OrderInv /\ TypedInv

LEMMA TypeInvTypeOK == TypeInv => TypeOK
<1> SUFFICES ASSUME TypeInv PROVE TypeOK
  OBVIOUS
<1>1. DataInv /\ QueuesTyped /\ StartInv /\ OrderInv /\ LoopTyped /\ OwnersTyped /\ SendsBounded
  BY DEF TypeInv, TypedInv, DataInv
<1>2. /\ pendingFunctors \in Seq([method : Methods, msg : 0..MaxSend])
      /\ functors \in Seq([method : Methods, msg : 0..MaxSend])
  BY <1>1, QueuesTypeOK
<1>3. /\ accepted \in Seq((1..MaxSend) \X (1..MsgLen))
      /\ wire \in Seq((1..MaxSend) \X (1..MsgLen))
      /\ outputBuffer \in Seq((1..MaxSend) \X (1..MsgLen))
  BY <1>1, BytesTypeOK
<1>4. owed \subseteq 1..MaxSend
  BY <1>1, SentBound DEF OwnersTyped
<1>5. taken \in 0..Len(wire)
  BY <1>1, LenProperties DEF DataInv, SocketSound
<1>6. sent \in Seq(Threads \cup {LoopThread}) /\ state \in States
  BY <1>1 DEF QueuesTyped, StartInv
<1>7. /\ events \subseteq {"read", "write"}
      /\ addedToLoop \in BOOLEAN
      /\ phase \in {"poll", "events", "functors"}
      /\ revents \subseteq {"HUP", "ERR", "IN", "OUT"}
      /\ callback \in Callbacks \cup {"none"}
      /\ finSent \in BOOLEAN
      /\ input \in BOOLEAN
      /\ sockError \in BOOLEAN
      /\ {ups, messages, downs} \subseteq Nat
      /\ failed \subseteq Asserts
  BY <1>1 DEF LoopTyped
<1>8. /\ connections \in BOOLEAN
      /\ serverFunctors \in Seq({"removeConnectionInLoop"})
      /\ delayed \in BOOLEAN
      /\ holds \subseteq Threads
      /\ call \in [Threads -> {"idle", "send", "shutdown", "shutdownSet",
                               "forceClose", "forceCloseSet"}]
      /\ peer \in {"open", "fin", "rst"}
      /\ closes \in 0..MaxClose
      /\ received \in 0..MaxInput
  BY <1>1 DEF OwnersTyped, Calls
<1>9. QED
  BY <1>2, <1>3, <1>4, <1>5, <1>6, <1>7, <1>8, Zenon DEF TypeOK

\* The types of every variable, and with them the bound on the messages: no
\* call of send() that begins is ever one too many.
THEOREM TypeCorrect == Spec => []TypeOK
<1>1. Init => TypeInv
  BY DataInit, StartInit, OrderInit, TypedInit DEF TypeInv
<1>2. TypeInv /\ [Next]_vars => TypeInv'
  <2>1. TypeInv => QueuesTyped
    BY DEF TypeInv, DataInv
  <2>2. QED
    BY <2>1, DataNext, StartNext, OrderNext, TypedNext DEF TypeInv
<1>3. QED
  BY <1>1, <1>2, TypeInvTypeOK, PTL DEF Spec
-----------------------------------------------------------------------------
(* The life of the object *)

LEMMA QueuedKeepsAlive ==
    ASSUME QueuesTyped, Queued("connectDestroyed")
    PROVE  Alive
<1>1. \A x, i : i \in DOMAIN x => x[i] \in Elements(x)
  BY DEF Elements
<1>2. "connectDestroyed" \in Owning
  BY DEF Owning, Methods
<1>3. ASSUME NEW i \in DOMAIN functors, functors[i].method = "connectDestroyed"
      PROVE  Alive
  <2>1. functors \in Seq(FunctorType) /\ pendingFunctors \in Seq(FunctorType)
    BY DEF QueuesTyped
  <2>2. functors[i] \in Elements(pendingFunctors \o functors)
    <3>1. /\ Len(pendingFunctors) + i \in DOMAIN (pendingFunctors \o functors)
          /\ (pendingFunctors \o functors)[Len(pendingFunctors) + i] = functors[i]
      BY <2>1, ConcatElements
    <3>2. QED
      BY <1>1, <3>1
  <2>3. QED
    BY <1>2, <1>3, <2>2 DEF Alive
<1>4. ASSUME NEW i \in DOMAIN pendingFunctors, pendingFunctors[i].method = "connectDestroyed"
      PROVE  Alive
  <2>1. functors \in Seq(FunctorType) /\ pendingFunctors \in Seq(FunctorType)
    BY DEF QueuesTyped
  <2>2. pendingFunctors[i] \in Elements(pendingFunctors \o functors)
    <3>1. /\ i \in DOMAIN (pendingFunctors \o functors)
          /\ (pendingFunctors \o functors)[i] = pendingFunctors[i]
      BY <2>1, ConcatElements
    <3>2. QED
      BY <1>1, <3>1
  <2>3. QED
    BY <1>2, <1>4, <2>2 DEF Alive
<1>5. QED
  BY <1>3, <1>4 DEF Queued, QueuedIn

LEMMA LifeInvSound ==
    ASSUME TypeInv, LifeInv
    PROVE  LifeSound
<1>1. TypeOK /\ QueuesTyped /\ OwnersTyped /\ addedToLoop \in BOOLEAN
  BY TypeInvTypeOK DEF TypeInv, DataInv, TypedInv, TypeOK
<1>2. connections = TRUE => Alive
  BY DEF Alive
<1>3. callback = "destroyed" => Alive
  BY DEF Alive
<1>4. NoAssertionFails
  BY DEF LifeInv, NoAssertionFails
<1>5. DisconnectedWhenDestroyed
  BY <1>2 DEF LifeInv, DisconnectedWhenDestroyed
<1>6. RegisteredIsAlive
  BY <1>1, <1>2, <1>3, QueuedKeepsAlive DEF LifeInv, RegisteredIsAlive
<1>7. QED
  BY <1>1, <1>4, <1>5, <1>6 DEF LifeSound

LifeIndInv == TypeInv /\ SessionInv /\ LifeInv

\* No assertion fails, what is registered with the poller is alive, and what is
\* destroyed is disconnected, if other threads only send and ~TcpServer never
\* finds a connection that is being closed.
THEOREM LifeCorrect ==
    ASSUME OthersOnlySend, NoneDisconnecting
    PROVE  Spec => []LifeSound
<1>1. Init => LifeIndInv
  <2>1. Init => Fresh /\ state = "kConnecting"
    BY DEF Init, Fresh
  <2>2. QED
    BY <2>1, DataInit, StartInit, OrderInit, TypedInit, SessionInit, LifeFresh
       DEF TypeInv, LifeIndInv
<1>2. LifeIndInv /\ [Next]_vars => LifeIndInv'
  <2>1. LifeIndInv => QueuesTyped
    BY DEF LifeIndInv, TypeInv, DataInv
  <2>2. LifeIndInv /\ [Next]_vars => TypeInv'
    BY <2>1, DataNext, StartNext, OrderNext, TypedNext DEF TypeInv, LifeIndInv
  <2>3. LifeIndInv /\ [Next]_vars => SessionInv' /\ LifeInv'
    BY <2>1, SessionNext, LifeNext DEF TypeInv, LifeIndInv
  <2>4. QED
    BY <2>2, <2>3 DEF LifeIndInv
<1>3. LifeIndInv => LifeSound
  BY LifeInvSound DEF LifeIndInv
<1>4. QED
  BY <1>1, <1>2, <1>3, PTL DEF Spec
=============================================================================
