------------------------------ MODULE EventLoop ------------------------------
(***************************************************************************)
(* muduo::net::EventLoop: the loop thread (loop, doPendingFunctors), the   *)
(* eventfd that wakes it, and the operations other threads call on it      *)
(* (queueInLoop, runInLoop from outside the loop thread, quit).            *)
(*                                                                         *)
(* A critical section under mutex_ is one step, and so is every system     *)
(* call.  Between its push_back (or its write to quit_) and its write to   *)
(* the eventfd another thread can be overtaken by any number of steps of   *)
(* the loop.  The steps of the loop thread itself read and write           *)
(* callingPendingFunctors_ alone, so its own push_back and wakeup() are    *)
(* one step.  The eventfd is a flag: its counter is read out whole.        *)
(***************************************************************************)
EXTENDS Naturals, Sequences

CONSTANTS
    Threads,         \* the threads other than the loop's
    Functors,        \* the callbacks they queue
    IoChannels,      \* the channels polled beside wakeupChannel_
    wakeupChannel,   \* the channel of the eventfd
    MaxPosted        \* bound on the functors queued in one behaviour

ASSUME EventLoopAssumption ==
    /\ MaxPosted \in Nat
    /\ wakeupChannel \notin IoChannels

VARIABLES
    pc,                        \* where the loop thread is in loop()
    quit,                      \* quit_
    callingPendingFunctors,    \* callingPendingFunctors_
    pendingFunctors,           \* pendingFunctors_, guarded by mutex_
    functors,                  \* the local vector of doPendingFunctors, what is left of it
    activeChannels,            \* activeChannels_ not yet handled in this iteration
    wakeupFd,                  \* the eventfd is readable
    owes,                      \* the threads between their write and their wakeup()
    posted, executed,          \* history: functors in the order queued and run
    quiet                      \* history: positions in posted queued by the loop
                               \* thread outside loop(), which wake nobody

threadVars == <<owes>>
historyVars == <<posted, executed, quiet>>
vars == <<pc, quit, callingPendingFunctors, pendingFunctors, functors,
          activeChannels, wakeupFd, owes, posted, executed, quiet>>

Channels == IoChannels \cup {wakeupChannel}

\* "outside": not in loop();       "while": about to test quit_;
\* "poll":    in poller_->poll();  "events": in the loop over activeChannels_;
\* "calls":   in doPendingFunctors after the swap.
PCs == {"outside", "while", "poll", "events", "calls"}

TypeOK ==
    /\ pc \in PCs
    /\ quit \in BOOLEAN
    /\ callingPendingFunctors \in BOOLEAN
    /\ pendingFunctors \in Seq(Functors)
    /\ functors \in Seq(Functors)
    /\ activeChannels \subseteq Channels
    /\ wakeupFd \in BOOLEAN
    /\ owes \subseteq Threads
    /\ posted \in Seq(Functors)
    /\ executed \in Seq(Functors)
    /\ quiet \subseteq 1..Len(posted)

Init ==
    /\ pc = "outside"
    /\ quit = FALSE
    /\ callingPendingFunctors = FALSE
    /\ pendingFunctors = <<>>
    /\ functors = <<>>
    /\ activeChannels = {}
    /\ wakeupFd = FALSE
    /\ owes = {}
    /\ posted = <<>>
    /\ executed = <<>>
    /\ quiet = {}
-----------------------------------------------------------------------------
(* Operations of the other threads *)

\* pendingFunctors_.push_back(cb)
Push(f) ==
    /\ Len(posted) < MaxPosted
    /\ pendingFunctors' = Append(pendingFunctors, f)
    /\ posted' = Append(posted, f)

\* Mutation of QueueInLoop: && for || in the condition of the wakeup.
QueueInLoopIfCalling(t, f) ==
    /\ t \notin owes
    /\ Push(f)
    /\ owes' = IF callingPendingFunctors THEN owes \cup {t} ELSE owes
    /\ UNCHANGED <<pc, quit, callingPendingFunctors, functors, activeChannels,
                   wakeupFd, executed, quiet>>

\* queueInLoop, or runInLoop, by a thread that is not the loop's: the push ...
QueueInLoop(t, f) ==
    /\ t \notin owes
    /\ Push(f)
    /\ owes' = owes \cup {t}
    /\ UNCHANGED <<pc, quit, callingPendingFunctors, functors, activeChannels,
                   wakeupFd, executed, quiet>>

\* Mutation of Quit: no wakeup.
QuitSilently(t) ==
    /\ t \notin owes
    /\ quit' = TRUE
    /\ UNCHANGED <<pc, callingPendingFunctors, pendingFunctors, functors,
                   activeChannels, wakeupFd, owes, historyVars>>

\* quit() by a thread that is not the loop's: the assignment ...
Quit(t) ==
    /\ t \notin owes
    /\ quit' = TRUE
    /\ owes' = owes \cup {t}
    /\ UNCHANGED <<pc, callingPendingFunctors, pendingFunctors, functors,
                   activeChannels, wakeupFd, historyVars>>

\* ... and the wakeup() that follows either of them
Wakeup(t) ==
    /\ t \in owes
    /\ owes' = owes \ {t}
    /\ wakeupFd' = TRUE
    /\ UNCHANGED <<pc, quit, callingPendingFunctors, pendingFunctors, functors,
                   activeChannels, historyVars>>
-----------------------------------------------------------------------------
(* The loop thread *)

\* Mutation of QueueFromLoop: the loop thread never wakes itself.
QueueFromLoopSilently(f) == Push(f) /\ UNCHANGED wakeupFd

\* queueInLoop by the loop thread
QueueFromLoop(f) ==
    /\ Push(f)
    /\ wakeupFd' = (wakeupFd \/ callingPendingFunctors)

\* What the code a callback runs may do to the loop: nothing, queue a functor,
\* or quit().
CallbackBody ==
    \/ UNCHANGED <<quit, pendingFunctors, posted, wakeupFd>>
    \/ /\ \E f \in Functors : QueueFromLoop(f)
       /\ UNCHANGED quit
    \/ /\ quit' = TRUE
       /\ UNCHANGED <<pendingFunctors, posted, wakeupFd>>

\* queueInLoop by the owner of the loop while it is not in loop()
QueueOutsideLoop(f) ==
    /\ pc = "outside"
    /\ QueueFromLoop(f)
    /\ quiet' = quiet \cup {Len(posted')}
    /\ UNCHANGED <<pc, quit, callingPendingFunctors, functors, activeChannels,
                   owes, executed>>

\* loop() begins: quit_ = false, whatever it was
LoopEnter ==
    /\ pc = "outside"
    /\ pc' = "while"
    /\ quit' = FALSE
    /\ UNCHANGED <<callingPendingFunctors, pendingFunctors, functors,
                   activeChannels, wakeupFd, threadVars, historyVars>>

\* while (!quit_)
TestQuit ==
    /\ pc = "while"
    /\ pc' = IF quit THEN "outside" ELSE "poll"
    /\ UNCHANGED <<quit, callingPendingFunctors, pendingFunctors, functors,
                   activeChannels, wakeupFd, threadVars, historyVars>>

\* poll returns with the ready channels; which I/O channels those are is
\* up to the network.
PollReturn(ready) ==
    /\ pc = "poll"
    /\ ready \subseteq Channels
    /\ (wakeupChannel \in ready) <=> wakeupFd
    /\ ready # {}
    /\ activeChannels' = ready
    /\ pc' = "events"
    /\ UNCHANGED <<quit, callingPendingFunctors, pendingFunctors, functors,
                   wakeupFd, threadVars, historyVars>>

\* kPollTimeMs went by, or a signal interrupted the call, with nothing ready
PollTimeout ==
    /\ pc = "poll"
    /\ ~wakeupFd
    /\ activeChannels' = {}
    /\ pc' = "events"
    /\ UNCHANGED <<quit, callingPendingFunctors, pendingFunctors, functors,
                   wakeupFd, threadVars, historyVars>>

\* wakeupChannel_->handleEvent: handleRead empties the eventfd
HandleRead ==
    /\ pc = "events"
    /\ wakeupChannel \in activeChannels
    /\ activeChannels' = activeChannels \ {wakeupChannel}
    /\ wakeupFd' = FALSE
    /\ UNCHANGED <<pc, quit, callingPendingFunctors, pendingFunctors, functors,
                   threadVars, historyVars>>

\* handleEvent of any other channel: its callback
HandleEvent(c) ==
    /\ pc = "events"
    /\ c \in activeChannels \ {wakeupChannel}
    /\ activeChannels' = activeChannels \ {c}
    /\ CallbackBody
    /\ UNCHANGED <<pc, callingPendingFunctors, functors, threadVars, executed, quiet>>

\* Mutation of SwapPendingFunctors: a copy in place of the swap.
CopyPendingFunctors ==
    /\ pc = "events"
    /\ activeChannels = {}
    /\ callingPendingFunctors' = TRUE
    /\ functors' = pendingFunctors
    /\ pc' = "calls"
    /\ UNCHANGED <<quit, pendingFunctors, activeChannels, wakeupFd, threadVars, historyVars>>

\* All events handled; doPendingFunctors takes the queue
SwapPendingFunctors ==
    /\ pc = "events"
    /\ activeChannels = {}
    /\ callingPendingFunctors' = TRUE
    /\ functors' = pendingFunctors
    /\ pendingFunctors' = <<>>
    /\ pc' = "calls"
    /\ UNCHANGED <<quit, activeChannels, wakeupFd, threadVars, historyVars>>

\* Mutation of CallFunctor: the vector is run from its end.
CallLastFunctor ==
    /\ pc = "calls"
    /\ functors # <<>>
    /\ functors' = SubSeq(functors, 1, Len(functors) - 1)
    /\ executed' = Append(executed, functors[Len(functors)])
    /\ CallbackBody
    /\ UNCHANGED <<pc, callingPendingFunctors, activeChannels, threadVars, quiet>>

\* functors[i]()
CallFunctor ==
    /\ pc = "calls"
    /\ functors # <<>>
    /\ functors' = Tail(functors)
    /\ executed' = Append(executed, Head(functors))
    /\ CallbackBody
    /\ UNCHANGED <<pc, callingPendingFunctors, activeChannels, threadVars, quiet>>

\* The end of doPendingFunctors
EndCalls ==
    /\ pc = "calls"
    /\ functors = <<>>
    /\ callingPendingFunctors' = FALSE
    /\ pc' = "while"
    /\ UNCHANGED <<quit, pendingFunctors, functors, activeChannels, wakeupFd,
                   threadVars, historyVars>>

PollReturnReady == \E ready \in SUBSET Channels : PollReturn(ready)

LoopStep ==
    \/ TestQuit \/ HandleRead \/ SwapPendingFunctors \/ CallFunctor \/ EndCalls
    \/ \E c \in IoChannels : HandleEvent(c)

Next ==
    \/ \E t \in Threads, f \in Functors : QueueInLoop(t, f)
    \/ \E t \in Threads : Quit(t) \/ Wakeup(t)
    \/ \E f \in Functors : QueueOutsideLoop(f)
    \/ LoopEnter
    \/ PollReturnReady
    \/ PollTimeout
    \/ LoopStep

Spec == Init /\ [][Next]_vars

\* The loop thread and a thread inside queueInLoop or quit keep running, and
\* poll returns once the eventfd is readable.  Nothing is assumed of the I/O
\* channels, nor of the time-out of poll: whatever holds under this fairness
\* holds without waiting for kPollTimeMs.
Fairness ==
    /\ WF_vars(LoopStep)
    /\ WF_vars(PollReturnReady /\ wakeupFd)
    /\ \A t \in Threads : WF_vars(Wakeup(t))

FairSpec == Spec /\ Fairness
-----------------------------------------------------------------------------
(* Properties *)

\* The positions in posted of the functors still in pendingFunctors_.
PendingPositions == (Len(posted) - Len(pendingFunctors) + 1)..Len(posted)

\* Something is about to get the loop out of poll.
WakeupComing == wakeupFd \/ owes # {}

\* doPendingFunctors (EventLoop.cc:293-308): across the swap, the calls and
\* concurrent pushes no functor is lost, duplicated or reordered: what was
\* queued is what ran, then what is left of the batch, then the queue.
FifoNoLoss == posted = executed \o functors \o pendingFunctors

\* queueInLoop (EventLoop.cc:160-171): the loop never sleeps in poll over a
\* functor nobody is going to wake it for, although the queueing thread leaves
\* out the wakeup when the loop is handling events.  The exceptions are the
\* functors the owner queued while it was not in loop(): they wait for the
\* next event or the time-out.
NoLostWakeup ==
    (pc = "poll" /\ pendingFunctors # <<>>) =>
        (WakeupComing \/ PendingPositions \subseteq quiet)

\* quit() (EventLoop.cc:136-146): the loop never sleeps in poll over a quit_
\* it has not seen and will not be woken for.
NoLostQuit == (pc = "poll" /\ quit) => WakeupComing

\* EventLoop.h:73-75: a functor queued from another thread, or by a callback,
\* runs, unless the loop is not running; poll need not time out for it.
QueuedRunsPromptly ==
    \A i \in 1..MaxPosted :
        (i <= Len(posted) /\ i \notin quiet /\ pc # "outside")
            ~> (i <= Len(executed) \/ pc = "outside")

\* EventLoop.h:55: quit() takes a running loop out of loop().
QuitStopsLoop == (quit /\ pc # "outside") ~> (pc = "outside")
-----------------------------------------------------------------------------
\* The loop implements the queue of functors its callers see.
Queue == INSTANCE FunctorQueue
QueueSpec == Queue!Spec
=============================================================================
