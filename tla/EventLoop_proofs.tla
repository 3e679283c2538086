-------------------------- MODULE EventLoop_proofs --------------------------
(***************************************************************************)
(* Theorems of EventLoop, for any number of threads, functors and I/O      *)
(* channels, and any bound on the functors queued.                         *)
(***************************************************************************)
EXTENDS EventLoop, SequenceTheorems, TLAPS

-----------------------------------------------------------------------------
(* Type correctness *)

LEMMA TypeInit == Init => TypeOK
BY EmptySeq DEF Init, TypeOK, PCs, Channels

LEMMA PushType ==
    ASSUME TypeOK, NEW f \in Functors, Push(f)
    PROVE  /\ pendingFunctors' \in Seq(Functors)
           /\ posted' \in Seq(Functors)
           /\ Len(posted) \in Nat
           /\ Len(posted') = Len(posted) + 1
           /\ Len(pendingFunctors) \in Nat
           /\ Len(pendingFunctors') = Len(pendingFunctors) + 1
           /\ 1..Len(posted) \subseteq 1..Len(posted')
<1>1. /\ Append(pendingFunctors, f) \in Seq(Functors)
      /\ Len(Append(pendingFunctors, f)) = Len(pendingFunctors) + 1
  BY AppendProperties DEF TypeOK
<1>2. /\ Append(posted, f) \in Seq(Functors)
      /\ Len(Append(posted, f)) = Len(posted) + 1
  BY AppendProperties DEF TypeOK
<1>3. Len(posted) \in Nat /\ Len(pendingFunctors) \in Nat
  BY LenProperties DEF TypeOK
<1> QED
  BY <1>1, <1>2, <1>3 DEF Push

\* What the body of a callback does to the typed state.
LEMMA CallbackBodyType ==
    ASSUME TypeOK, CallbackBody, UNCHANGED quiet
    PROVE  /\ quit' \in BOOLEAN
           /\ pendingFunctors' \in Seq(Functors)
           /\ wakeupFd' \in BOOLEAN
           /\ posted' \in Seq(Functors)
           /\ quiet' \subseteq 1..Len(posted')
<1>1. CASE UNCHANGED <<quit, pendingFunctors, posted, wakeupFd>>
  BY <1>1 DEF TypeOK
<1>2. CASE (\E f \in Functors : QueueFromLoop(f)) /\ UNCHANGED quit
  <2>1. PICK f \in Functors : QueueFromLoop(f)
    BY <1>2
  <2> QED
    BY <1>2, <2>1, PushType DEF QueueFromLoop, TypeOK
<1>3. CASE quit' = TRUE /\ UNCHANGED <<pendingFunctors, posted, wakeupFd>>
  BY <1>3 DEF TypeOK
<1> QED
  BY <1>1, <1>2, <1>3 DEF CallbackBody

LEMMA TypeNext == TypeOK /\ [Next]_vars => TypeOK'
<1> SUFFICES ASSUME TypeOK, [Next]_vars PROVE TypeOK'
  OBVIOUS
<1>1. ASSUME NEW t \in Threads, NEW f \in Functors, QueueInLoop(t, f)
      PROVE  TypeOK'
  BY <1>1, PushType DEF QueueInLoop, TypeOK
<1>2. ASSUME NEW t \in Threads, Quit(t) PROVE TypeOK'
  BY <1>2 DEF Quit, TypeOK, historyVars
<1>3. ASSUME NEW t \in Threads, Wakeup(t) PROVE TypeOK'
  BY <1>3 DEF Wakeup, TypeOK, historyVars
<1>4. ASSUME NEW f \in Functors, QueueOutsideLoop(f) PROVE TypeOK'
  <2>1. /\ pendingFunctors' \in Seq(Functors)
        /\ posted' \in Seq(Functors)
        /\ Len(posted') \in 1..Len(posted')
        /\ quiet \subseteq 1..Len(posted')
    BY <1>4, PushType DEF QueueOutsideLoop, QueueFromLoop, TypeOK
  <2> QED
    BY <1>4, <2>1 DEF QueueOutsideLoop, QueueFromLoop, TypeOK
<1>5. CASE LoopEnter
  BY <1>5 DEF LoopEnter, TypeOK, PCs, historyVars, threadVars
<1>6. CASE PollReturnReady
  BY <1>6 DEF PollReturnReady, PollReturn, TypeOK, PCs, historyVars, threadVars
<1>7. CASE PollTimeout
  BY <1>7 DEF PollTimeout, TypeOK, PCs, historyVars, threadVars
<1>8. CASE LoopStep
  <2>1. CASE TestQuit
    BY <2>1 DEF TestQuit, TypeOK, PCs, historyVars, threadVars
  <2>2. CASE HandleRead
    BY <2>2 DEF HandleRead, TypeOK, PCs, historyVars, threadVars
  <2>3. CASE SwapPendingFunctors
    BY <2>3 DEF SwapPendingFunctors, TypeOK, PCs, historyVars, threadVars
  <2>4. CASE CallFunctor
    <3>1. /\ Head(functors) \in Functors
          /\ Tail(functors) \in Seq(Functors)
      BY <2>4, HeadTailProperties DEF CallFunctor, TypeOK
    <3>2. Append(executed, Head(functors)) \in Seq(Functors)
      BY <3>1, AppendProperties DEF TypeOK
    <3>3. CallbackBody /\ UNCHANGED quiet
      BY <2>4 DEF CallFunctor
    <3> QED
      BY <2>4, <3>1, <3>2, <3>3, CallbackBodyType
      DEF CallFunctor, TypeOK, threadVars
  <2>5. CASE EndCalls
    BY <2>5 DEF EndCalls, TypeOK, PCs, historyVars, threadVars
  <2>6. ASSUME NEW c \in IoChannels, HandleEvent(c) PROVE TypeOK'
    <3>1. CallbackBody /\ UNCHANGED quiet
      BY <2>6 DEF HandleEvent
    <3> QED
      BY <2>6, <3>1, CallbackBodyType DEF HandleEvent, TypeOK, threadVars
  <2> QED
    BY <1>8, <2>1, <2>2, <2>3, <2>4, <2>5, <2>6 DEF LoopStep
<1>9. CASE UNCHANGED vars
  BY <1>9 DEF vars, TypeOK
<1> QED
  BY <1>1, <1>2, <1>3, <1>4, <1>5, <1>6, <1>7, <1>8, <1>9 DEF Next

\* Every variable of the loop keeps its type.
THEOREM TypeCorrect == Spec => []TypeOK
BY TypeInit, TypeNext, PTL DEF Spec
-----------------------------------------------------------------------------
(* The inductive invariant: what each phase of loop() implies of the locals *)
(* of doPendingFunctors, and the wakeup account of NoLostWakeup extended to *)
(* every phase from which poll can be reached without a swap of the queue.  *)

PhaseInv ==
    /\ callingPendingFunctors <=> pc = "calls"
    /\ pc # "calls" => functors = <<>>

WakeAccount ==
    (pc # "events" /\ pendingFunctors # <<>>) =>
        (WakeupComing \/ PendingPositions \subseteq quiet)

IInv == PhaseInv /\ FifoNoLoss /\ WakeAccount /\ NoLostQuit

LEMMA PhaseNext == TypeOK /\ PhaseInv /\ [Next]_vars => PhaseInv'
<1> SUFFICES ASSUME TypeOK, PhaseInv, [Next]_vars PROVE PhaseInv'
  OBVIOUS
<1> USE DEF PhaseInv, historyVars, threadVars
<1>1. ASSUME NEW t \in Threads, NEW f \in Functors, QueueInLoop(t, f)
      PROVE  PhaseInv'
  BY <1>1 DEF QueueInLoop
<1>2. ASSUME NEW t \in Threads, Quit(t) \/ Wakeup(t) PROVE PhaseInv'
  BY <1>2 DEF Quit, Wakeup
<1>3. ASSUME NEW f \in Functors, QueueOutsideLoop(f) PROVE PhaseInv'
  BY <1>3 DEF QueueOutsideLoop
<1>4. CASE LoopEnter \/ PollReturnReady \/ PollTimeout
  BY <1>4 DEF LoopEnter, PollReturnReady, PollReturn, PollTimeout
<1>5. CASE LoopStep
  BY <1>5 DEF LoopStep, TestQuit, HandleRead, HandleEvent, SwapPendingFunctors,
              CallFunctor, EndCalls
<1>6. CASE UNCHANGED vars
  BY <1>6 DEF vars
<1> QED
  BY <1>1, <1>2, <1>3, <1>4, <1>5, <1>6 DEF Next

-----------------------------------------------------------------------------
(* No functor is lost, duplicated or reordered *)

LEMMA FifoInit == Init => FifoNoLoss
<1>1. <<>> \o <<>> = <<>>
  BY EmptySeq, ConcatEmptySeq
<1> QED
  BY <1>1 DEF Init, FifoNoLoss

\* Queuing appends to both sides of the equation.
LEMMA FifoPush ==
    ASSUME TypeOK, FifoNoLoss, NEW f \in Functors, Push(f)
    PROVE  posted' = executed \o functors \o pendingFunctors'
<1> DEFINE run == executed \o functors
<1>1. run \in Seq(Functors)
  BY ConcatProperties DEF TypeOK
<1>2. <<f>> \in Seq(Functors) /\ pendingFunctors \in Seq(Functors)
  BY DEF TypeOK
<1>3. pendingFunctors' = pendingFunctors \o <<f>>
  BY AppendIsConcat DEF TypeOK, Push
<1>4. posted' = posted \o <<f>>
  BY AppendIsConcat DEF TypeOK, Push
<1> HIDE DEF run
<1>5. (run \o pendingFunctors) \o <<f>> = run \o (pendingFunctors \o <<f>>)
  BY <1>1, <1>2, ConcatAssociative
<1> QED
  BY <1>3, <1>4, <1>5 DEF FifoNoLoss, run

LEMMA FifoCallbackBody ==
    ASSUME TypeOK, FifoNoLoss, CallbackBody
    PROVE  posted' = executed \o functors \o pendingFunctors'
<1>1. CASE UNCHANGED <<quit, pendingFunctors, posted, wakeupFd>>
  BY <1>1 DEF FifoNoLoss
<1>2. ASSUME NEW f \in Functors, QueueFromLoop(f)
      PROVE  posted' = executed \o functors \o pendingFunctors'
  BY <1>2, FifoPush DEF QueueFromLoop
<1>3. CASE UNCHANGED <<pendingFunctors, posted>>
  BY <1>3 DEF FifoNoLoss
<1> QED
  BY <1>1, <1>2, <1>3 DEF CallbackBody

\* Calling the first functor of the batch moves it from one sequence to the
\* other.
LEMMA MoveHead ==
    ASSUME NEW S, NEW s \in Seq(S), NEW t \in Seq(S), t # <<>>
    PROVE  Append(s, Head(t)) \o Tail(t) = s \o t
<1>1. Head(t) \in S /\ Tail(t) \in Seq(S)
  BY HeadTailProperties
<1>2. Append(s, Head(t)) = s \o <<Head(t)>>
  BY <1>1, AppendIsConcat
<1>3. <<Head(t)>> \o Tail(t) = t
  <2>1. Len(t) \in Nat \ {0} /\ Len(Tail(t)) = Len(t) - 1
    BY EmptySeq, HeadTailProperties
  <2>2. t = SubSeq(t, 1, Len(t))
    BY SubSeqFull
  <2>3. SubSeq(t, 1, Len(t)) = <<t[1]>> \o SubSeq(t, 2, Len(t))
    BY <2>1, SubSeqRecursiveFirst
  <2> QED
    BY <2>2, <2>3, TailIsSubSeq
<1>4. <<Head(t)>> \in Seq(S)
  BY <1>1
<1>5. (s \o <<Head(t)>>) \o Tail(t) = s \o (<<Head(t)>> \o Tail(t))
  BY <1>1, <1>4, ConcatAssociative
<1> QED
  BY <1>2, <1>3, <1>5

LEMMA FifoNext == TypeOK /\ PhaseInv /\ FifoNoLoss /\ [Next]_vars => FifoNoLoss'
<1> SUFFICES ASSUME TypeOK, PhaseInv, FifoNoLoss, [Next]_vars PROVE FifoNoLoss'
  OBVIOUS
<1>1. ASSUME NEW t \in Threads, NEW f \in Functors, QueueInLoop(t, f)
      PROVE  FifoNoLoss'
  BY <1>1, FifoPush DEF QueueInLoop, FifoNoLoss
<1>2. ASSUME NEW t \in Threads, Quit(t) \/ Wakeup(t) PROVE FifoNoLoss'
  BY <1>2 DEF Quit, Wakeup, FifoNoLoss, historyVars
<1>3. ASSUME NEW f \in Functors, QueueOutsideLoop(f) PROVE FifoNoLoss'
  BY <1>3, FifoPush DEF QueueOutsideLoop, QueueFromLoop, FifoNoLoss
<1>4. CASE LoopEnter \/ PollReturnReady \/ PollTimeout
  BY <1>4 DEF LoopEnter, PollReturnReady, PollReturn, PollTimeout, FifoNoLoss,
              historyVars
<1>5. CASE TestQuit \/ HandleRead \/ EndCalls
  BY <1>5 DEF TestQuit, HandleRead, EndCalls, FifoNoLoss, historyVars
<1>6. CASE SwapPendingFunctors
  <2>1. functors = <<>>
    BY <1>6 DEF SwapPendingFunctors, PhaseInv
  <2>2. executed \o <<>> = executed
    BY ConcatEmptySeq DEF TypeOK
  <2>3. posted = executed \o pendingFunctors
    BY <2>1, <2>2 DEF FifoNoLoss
  <2>4. (executed \o pendingFunctors) \o <<>> = executed \o pendingFunctors
    BY ConcatProperties, ConcatEmptySeq DEF TypeOK
  <2> QED
    BY <1>6, <2>3, <2>4 DEF SwapPendingFunctors, FifoNoLoss, historyVars
<1>7. CASE CallFunctor
  <2>1. Append(executed, Head(functors)) \o Tail(functors) = executed \o functors
    BY <1>7, MoveHead DEF CallFunctor, TypeOK
  <2> QED
    BY <1>7, <2>1, FifoCallbackBody DEF CallFunctor, FifoNoLoss
<1>8. ASSUME NEW c \in IoChannels, HandleEvent(c) PROVE FifoNoLoss'
  BY <1>8, FifoCallbackBody DEF HandleEvent, FifoNoLoss
<1>9. CASE UNCHANGED vars
  BY <1>9 DEF vars, FifoNoLoss
<1> QED
  BY <1>1, <1>2, <1>3, <1>4, <1>5, <1>6, <1>7, <1>8, <1>9 DEF Next, LoopStep
-----------------------------------------------------------------------------
(* No wakeup is lost *)

\* A push that owes or makes a wakeup keeps the account.
LEMMA PendingGrows ==
    ASSUME TypeOK, NEW f \in Functors, Push(f)
    PROVE  PendingPositions' = PendingPositions \cup {Len(posted')}
<1>1. /\ Len(posted) \in Nat /\ Len(posted') = Len(posted) + 1
      /\ Len(pendingFunctors) \in Nat
      /\ Len(pendingFunctors') = Len(pendingFunctors) + 1
  BY PushType
<1> QED
  BY <1>1 DEF PendingPositions

LEMMA WakeNext ==
    TypeOK /\ PhaseInv /\ FifoNoLoss /\ WakeAccount /\ [Next]_vars => WakeAccount'
<1> SUFFICES ASSUME TypeOK, PhaseInv, FifoNoLoss, WakeAccount, [Next]_vars
             PROVE  WakeAccount'
  OBVIOUS
<1> USE DEF historyVars, threadVars
<1>1. ASSUME NEW t \in Threads, NEW f \in Functors, QueueInLoop(t, f)
      PROVE  WakeAccount'
  BY <1>1 DEF QueueInLoop, WakeAccount, WakeupComing
<1>2. ASSUME NEW t \in Threads, Quit(t) PROVE WakeAccount'
  BY <1>2 DEF Quit, WakeAccount, WakeupComing
<1>3. ASSUME NEW t \in Threads, Wakeup(t) PROVE WakeAccount'
  BY <1>3 DEF Wakeup, WakeAccount, WakeupComing
<1>4. ASSUME NEW f \in Functors, QueueOutsideLoop(f) PROVE WakeAccount'
  <2>1. PendingPositions' = PendingPositions \cup {Len(posted')}
    BY <1>4, PendingGrows DEF QueueOutsideLoop, QueueFromLoop
  <2>2. CASE WakeupComing
    BY <1>4, <2>2 DEF QueueOutsideLoop, QueueFromLoop, WakeAccount, WakeupComing
  <2>3. CASE PendingPositions \subseteq quiet
    BY <1>4, <2>1, <2>3 DEF QueueOutsideLoop, WakeAccount
  <2>4. CASE pendingFunctors = <<>>
    <3>1. PendingPositions = {}
      BY <2>4, LenProperties, EmptySeq DEF PendingPositions, TypeOK
    <3> QED
      BY <2>3, <3>1
  <2> QED
    BY <1>4, <2>2, <2>3, <2>4 DEF QueueOutsideLoop, WakeAccount
<1>5. CASE LoopEnter \/ PollReturnReady \/ PollTimeout
  BY <1>5 DEF LoopEnter, PollReturnReady, PollReturn, PollTimeout, WakeAccount,
              WakeupComing, PendingPositions
<1>6. CASE TestQuit \/ EndCalls
  BY <1>6 DEF TestQuit, EndCalls, WakeAccount, WakeupComing, PendingPositions
<1>7. CASE HandleRead
  BY <1>7 DEF HandleRead, WakeAccount
<1>8. CASE SwapPendingFunctors
  BY <1>8 DEF SwapPendingFunctors, WakeAccount
<1>9. CASE CallFunctor
  <2>1. callingPendingFunctors = TRUE
    BY <1>9 DEF CallFunctor, PhaseInv, TypeOK
  <2>2. ASSUME NEW f \in Functors, QueueFromLoop(f) PROVE WakeAccount'
    BY <2>1, <2>2 DEF QueueFromLoop, WakeAccount, WakeupComing
  <2>3. CASE UNCHANGED <<pendingFunctors, posted, wakeupFd>>
    BY <1>9, <2>3 DEF CallFunctor, WakeAccount, WakeupComing, PendingPositions
  <2> QED
    BY <1>9, <2>2, <2>3 DEF CallFunctor, CallbackBody
<1>10. ASSUME NEW c \in IoChannels, HandleEvent(c) PROVE WakeAccount'
  BY <1>10 DEF HandleEvent, WakeAccount
<1>11. CASE UNCHANGED vars
  BY <1>11 DEF vars, WakeAccount, WakeupComing, PendingPositions
<1> QED
  BY <1>1, <1>2, <1>3, <1>4, <1>5, <1>6, <1>7, <1>8, <1>9, <1>10, <1>11
  DEF Next, LoopStep

LEMMA QuitNext == NoLostQuit /\ [Next]_vars => NoLostQuit'
<1> SUFFICES ASSUME NoLostQuit, [Next]_vars PROVE NoLostQuit'
  OBVIOUS
<1> USE DEF NoLostQuit, WakeupComing, historyVars, threadVars
<1>1. ASSUME NEW t \in Threads, NEW f \in Functors, QueueInLoop(t, f)
      PROVE  NoLostQuit'
  BY <1>1 DEF QueueInLoop
<1>2. ASSUME NEW t \in Threads, Quit(t) \/ Wakeup(t) PROVE NoLostQuit'
  BY <1>2 DEF Quit, Wakeup
<1>3. ASSUME NEW f \in Functors, QueueOutsideLoop(f) PROVE NoLostQuit'
  BY <1>3 DEF QueueOutsideLoop
<1>4. CASE LoopEnter \/ PollReturnReady \/ PollTimeout
  BY <1>4 DEF LoopEnter, PollReturnReady, PollReturn, PollTimeout
<1>5. CASE LoopStep
  BY <1>5 DEF LoopStep, TestQuit, HandleRead, HandleEvent, SwapPendingFunctors,
              CallFunctor, EndCalls
<1>6. CASE UNCHANGED vars
  BY <1>6 DEF vars
<1> QED
  BY <1>1, <1>2, <1>3, <1>4, <1>5, <1>6 DEF Next

LEMMA InvariantHolds == Spec => []IInv
<1>1. Init => IInv
  BY FifoInit DEF Init, IInv, PhaseInv, WakeAccount, NoLostQuit
<1>2. TypeOK /\ IInv /\ [Next]_vars => IInv'
  BY PhaseNext, FifoNext, WakeNext, QuitNext DEF IInv
<1> QED
  BY <1>1, <1>2, TypeCorrect, PTL DEF Spec

\* Every functor queued runs once and in order (EventLoop.cc:160-171, 293-308).
THEOREM FifoCorrect == Spec => []FifoNoLoss
<1>1. IInv => FifoNoLoss
  BY DEF IInv
<1> QED
  BY <1>1, InvariantHolds, PTL

\* The loop never sleeps over a functor without a wakeup on its way, for any
\* number of threads (EventLoop.cc:167).
THEOREM WakeupCorrect == Spec => []NoLostWakeup
<1>1. IInv => NoLostWakeup
  BY DEF IInv, WakeAccount, NoLostWakeup
<1> QED
  BY <1>1, InvariantHolds, PTL

\* The loop never sleeps over a quit_ it has not seen (EventLoop.cc:136-146).
THEOREM QuitCorrect == Spec => []NoLostQuit
<1>1. IInv => NoLostQuit
  BY DEF IInv
<1> QED
  BY <1>1, InvariantHolds, PTL
-----------------------------------------------------------------------------
(* The loop implements FunctorQueue *)

\* The element of a concatenation just after its first part.
LEMMA FirstOfSecond ==
    ASSUME NEW S, NEW s \in Seq(S), NEW t \in Seq(S), t # <<>>
    PROVE  /\ Len(s) < Len(s \o t)
           /\ (s \o t)[Len(s) + 1] = t[1]
<1>1. Len(s) \in Nat /\ Len(t) \in Nat \ {0}
  BY EmptySeq, LenProperties
<1>2. /\ Len(s \o t) = Len(s) + Len(t)
      /\ \A i \in 1..Len(s) + Len(t) :
            (s \o t)[i] = IF i <= Len(s) THEN s[i] ELSE t[i - Len(s)]
  BY ConcatProperties
<1> QED
  BY <1>1, <1>2

\* The functor called is the oldest one that has not run.
LEMMA HeadIsOldest ==
    ASSUME TypeOK, FifoNoLoss, functors # <<>>
    PROVE  /\ Len(executed) < Len(posted)
           /\ Head(functors) = posted[Len(executed) + 1]
<1>1. /\ executed \in Seq(Functors)
      /\ functors \in Seq(Functors)
      /\ pendingFunctors \in Seq(Functors)
  BY DEF TypeOK
<1>2. functors \o pendingFunctors \in Seq(Functors)
  BY <1>1, ConcatProperties
<1>3. functors \o pendingFunctors # <<>>
  BY <1>1, ConcatEqualIffEmpty
<1>4. posted = executed \o (functors \o pendingFunctors)
  BY <1>1, ConcatAssociative, SMTT(60) DEF FifoNoLoss
<1>5. Len(executed) < Len(posted)
  BY <1>1, <1>2, <1>3, <1>4, FirstOfSecond
<1>6. posted[Len(executed) + 1] = (functors \o pendingFunctors)[1]
  BY <1>1, <1>2, <1>3, <1>4, FirstOfSecond
<1>7. (functors \o pendingFunctors)[1] = functors[1]
  <2>1. Len(functors) \in Nat \ {0} /\ Len(pendingFunctors) \in Nat
    BY <1>1, EmptySeq, LenProperties
  <2> QED
    BY <1>1, <2>1, ConcatProperties
<1> QED
  BY <1>5, <1>6, <1>7

LEMMA CallbackBodyPosts ==
    ASSUME CallbackBody
    PROVE  posted' = posted \/ \E f \in Functors : posted' = Append(posted, f)
BY DEF CallbackBody, QueueFromLoop, Push

LEMMA StepRefines == TypeOK /\ FifoNoLoss /\ [Next]_vars => [Queue!Next]_(Queue!vars)
<1> SUFFICES ASSUME TypeOK, FifoNoLoss, [Next]_vars
             PROVE  Queue!Next \/ UNCHANGED Queue!vars
  OBVIOUS
<1> USE DEF historyVars, threadVars, Queue!vars
<1>1. ASSUME NEW t \in Threads, NEW f \in Functors, QueueInLoop(t, f)
      PROVE  Queue!Next
  BY <1>1 DEF QueueInLoop, Push, Queue!Next, Queue!Post
<1>2. ASSUME NEW t \in Threads, Quit(t) \/ Wakeup(t) PROVE UNCHANGED Queue!vars
  BY <1>2 DEF Quit, Wakeup
<1>3. ASSUME NEW f \in Functors, QueueOutsideLoop(f) PROVE Queue!Next
  BY <1>3 DEF QueueOutsideLoop, QueueFromLoop, Push, Queue!Next, Queue!Post
<1>4. CASE LoopEnter \/ PollReturnReady \/ PollTimeout
  BY <1>4 DEF LoopEnter, PollReturnReady, PollReturn, PollTimeout
<1>5. CASE TestQuit \/ HandleRead \/ EndCalls \/ SwapPendingFunctors
  BY <1>5 DEF TestQuit, HandleRead, EndCalls, SwapPendingFunctors
<1>6. CASE CallFunctor
  BY <1>6, HeadIsOldest, CallbackBodyPosts DEF CallFunctor, Queue!Next, Queue!Run
<1>7. ASSUME NEW c \in IoChannels, HandleEvent(c)
      PROVE  Queue!Next \/ UNCHANGED Queue!vars
  BY <1>7, CallbackBodyPosts DEF HandleEvent, Queue!Next, Queue!Post
<1>8. CASE UNCHANGED vars
  BY <1>8 DEF vars
<1> QED
  BY <1>1, <1>2, <1>3, <1>4, <1>5, <1>6, <1>7, <1>8 DEF Next, LoopStep

\* What queueInLoop promises (EventLoop.h:73-75) is what the loop does.
THEOREM ImplementsQueue == Spec => QueueSpec
<1>1. Init => Queue!Init
  BY DEF Init, Queue!Init
<1> QED
  BY <1>1, StepRefines, TypeCorrect, FifoCorrect, PTL
  DEF Spec, QueueSpec, Queue!Spec
=============================================================================
