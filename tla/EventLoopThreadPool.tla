------------------------- MODULE EventLoopThreadPool -------------------------
(***************************************************************************)
(* muduo::net::EventLoopThreadPool and the EventLoopThreads it owns: the   *)
(* start-up handshake, the hand-out of loops, and the destruction, each    *)
(* thread running its EventLoop meanwhile.                                 *)
(*                                                                         *)
(* Of EventLoop only what start and stop depend on is kept: quit_, the     *)
(* eventfd and where loop() is.  EventLoop is a local variable of          *)
(* threadFunc: it exists from "init" until the thread has finished.        *)
(*                                                                         *)
(* The destructor tests and dereferences loop_ without the lock.  Where    *)
(* that meets a thread that leaves loop(), the outcome is undefined: the   *)
(* write goes nowhere, or the program crashes.                             *)
(***************************************************************************)
EXTENDS Naturals, Sequences

CONSTANTS
    NumThreads,     \* numThreads_
    MaxCalls,       \* bound on the calls of getNextLoop
    LoopsMayQuit    \* whether what runs in a loop may call its quit(), once
                    \* startLoop() has returned the loop

ASSUME PoolAssumption ==
    /\ NumThreads \in Nat /\ MaxCalls \in Nat
    /\ LoopsMayQuit \in BOOLEAN

Threads == 1..NumThreads
NULL == 0

VARIABLES
    \* per thread
    thread,     \* where it is in threadFunc() and loop()
    loop_,      \* loop_ # NULL
    quit,       \* quit_ of its EventLoop
    wakeupFd,   \* its eventfd is readable
    \* the pool and its owner
    owner,      \* where the owner is in start(), ~EventLoopThread()
    atRest,     \* history: since the destruction began no loop has done
                \* anything but answer its quit()
    cur,        \* the thread being started or destroyed
    loops,      \* loops_: what startLoop() returned
    next,       \* next_
    given       \* history: how often getNextLoop returned each loop

threadVars == <<thread, loop_, quit, wakeupFd>>
dealVars == <<loops, next, given>>
vars == <<threadVars, owner, atRest, cur, dealVars>>

\* Threads: "unstarted"; "init" the loop is constructed and callback_ run;
\* "enter" before quit_ = false in loop(); "while"; "poll"; "left" loop();
\* "cleared" loop_ = NULL done; "finished".
ThreadPCs == {"unstarted", "init", "enter", "while", "poll", "left", "cleared", "finished"}

\* Owner, in startLoop(): "start"; "lock" at the lock, also after a wake-up;
\* "wait" on cond_; "return" after the unlock.  "serve".  In the destructor:
\* "destroy"; "quit" loop_ was not NULL; "wakeup" quit_ is set; "join".  "done".
\* "crashed": the program is gone.
OwnerPCs == {"start", "lock", "wait", "return", "serve", "destroy", "quit", "wakeup",
             "join", "done", "crashed"}

TypeOK ==
    /\ thread \in [Threads -> ThreadPCs]
    /\ loop_ \in [Threads -> BOOLEAN]
    /\ quit \in [Threads -> BOOLEAN]
    /\ wakeupFd \in [Threads -> BOOLEAN]
    /\ owner \in OwnerPCs
    /\ atRest \in BOOLEAN
    /\ cur \in 1..NumThreads + 1
    /\ loops \in Seq(Threads \cup {NULL})
    /\ next \in Nat /\ (next < NumThreads \/ next = 0)
    /\ given \in [0..NumThreads -> 0..MaxCalls]

Init ==
    /\ thread = [i \in Threads |-> "unstarted"]
    /\ loop_ = [i \in Threads |-> FALSE]
    /\ quit = [i \in Threads |-> FALSE]
    /\ wakeupFd = [i \in Threads |-> FALSE]
    /\ owner = IF NumThreads = 0 THEN "serve" ELSE "start"
    /\ atRest = FALSE
    /\ cur = 1
    /\ loops = <<>>
    /\ next = 0
    /\ given = [i \in 0..NumThreads |-> 0]

Exists(i) == thread[i] \in {"init", "enter", "while", "poll", "left", "cleared"}
-----------------------------------------------------------------------------
(* EventLoopThread::threadFunc and the loop it runs *)

\* Mutation of Publish: no notify().
PublishSilently(i) ==
    /\ thread[i] = "init"
    /\ thread' = [thread EXCEPT ![i] = "enter"]
    /\ loop_' = [loop_ EXCEPT ![i] = TRUE]
    /\ UNCHANGED <<quit, wakeupFd, owner, atRest, cur, dealVars>>

\* loop_ = &loop; cond_.notify()
Publish(i) ==
    /\ thread[i] = "init"
    /\ thread' = [thread EXCEPT ![i] = "enter"]
    /\ loop_' = [loop_ EXCEPT ![i] = TRUE]
    /\ owner' = IF owner = "wait" /\ cur = i THEN "lock" ELSE owner
    /\ UNCHANGED <<quit, wakeupFd, atRest, cur, dealVars>>

\* loop() begins: quit_ = false
Enter(i) ==
    /\ thread[i] = "enter"
    /\ thread' = [thread EXCEPT ![i] = "while"]
    /\ quit' = [quit EXCEPT ![i] = FALSE]
    /\ UNCHANGED <<loop_, wakeupFd, owner, atRest, cur, dealVars>>

\* while (!quit_)
TestQuit(i) ==
    /\ thread[i] = "while"
    /\ thread' = [thread EXCEPT ![i] = IF quit[i] THEN "left" ELSE "poll"]
    /\ UNCHANGED <<loop_, quit, wakeupFd, owner, atRest, cur, dealVars>>

\* poll returns for the eventfd, which handleRead empties
WokenUp(i) ==
    /\ thread[i] = "poll"
    /\ wakeupFd[i]
    /\ thread' = [thread EXCEPT ![i] = "while"]
    /\ wakeupFd' = [wakeupFd EXCEPT ![i] = FALSE]
    /\ UNCHANGED <<loop_, quit, owner, atRest, cur, dealVars>>

\* poll returns for something else, or times out; what it runs may call quit()
HandleEvents(i) ==
    /\ thread[i] = "poll"
    /\ thread' = [thread EXCEPT ![i] = "while"]
    /\ \/ UNCHANGED quit
       \/ LoopsMayQuit /\ i \in 1..Len(loops) /\ quit' = [quit EXCEPT ![i] = TRUE]
    /\ atRest' = FALSE
    /\ UNCHANGED <<loop_, wakeupFd, owner, cur, dealVars>>

\* loop_ = NULL, without the lock
Clear(i) ==
    /\ thread[i] = "left"
    /\ thread' = [thread EXCEPT ![i] = "cleared"]
    /\ loop_' = [loop_ EXCEPT ![i] = FALSE]
    /\ UNCHANGED <<quit, wakeupFd, owner, atRest, cur, dealVars>>

\* threadFunc returns; its EventLoop is destroyed
Finish(i) ==
    /\ thread[i] = "cleared"
    /\ thread' = [thread EXCEPT ![i] = "finished"]
    /\ UNCHANGED <<loop_, quit, wakeupFd, owner, atRest, cur, dealVars>>
-----------------------------------------------------------------------------
(* The owner: EventLoopThreadPool::start, EventLoopThread::startLoop *)

StartThread ==
    /\ owner = "start"
    /\ thread' = [thread EXCEPT ![cur] = "init"]
    /\ owner' = "lock"
    /\ UNCHANGED <<loop_, quit, wakeupFd, atRest, cur, dealVars>>

\* while (loop_ == NULL) cond_.wait()
TestPublished ==
    /\ owner = "lock"
    /\ owner' = IF loop_[cur] THEN "return" ELSE "wait"
    /\ UNCHANGED <<threadVars, atRest, cur, dealVars>>

\* Mutation of SpuriousWakeup: if for while around cond_.wait().
SpuriousReturn ==
    /\ owner = "wait"
    /\ owner' = "return"
    /\ UNCHANGED <<threadVars, atRest, cur, dealVars>>

\* cond_.wait() returns with no notification
SpuriousWakeup ==
    /\ owner = "wait"
    /\ owner' = "lock"
    /\ UNCHANGED <<threadVars, atRest, cur, dealVars>>

\* return loop_, read after the unlock; loops_.push_back(...)
ReturnLoop ==
    /\ owner = "return"
    /\ loops' = Append(loops, IF loop_[cur] THEN cur ELSE NULL)
    /\ cur' = IF cur = NumThreads THEN 1 ELSE cur + 1
    /\ owner' = IF cur = NumThreads THEN "serve" ELSE "start"
    /\ UNCHANGED <<threadVars, atRest, next, given>>

NextAfter(n) == IF n + 1 >= Len(loops) THEN 0 ELSE n + 1

\* getNextLoop: round robin over loops_, or the base loop (0) if it is empty
GetNextLoop ==
    /\ owner = "serve"
    /\ given' = [given EXCEPT ![IF loops = <<>> THEN 0 ELSE loops[next + 1]] = @ + 1]
    /\ next' = IF loops = <<>> THEN next ELSE NextAfter(next)
    /\ UNCHANGED <<threadVars, owner, atRest, cur, loops>>

CallsLeft == \A i \in DOMAIN given : given[i] < MaxCalls
-----------------------------------------------------------------------------
(* The owner: the destructors, one thread after the other *)

\* A loop that waits in poll(), or has ended.
Resting(i) == thread[i] \in {"poll", "cleared", "finished"}

BeginDestroy ==
    /\ owner = "serve" /\ NumThreads > 0
    /\ owner' = "destroy"
    /\ atRest' = \A i \in Threads : Resting(i)
    /\ UNCHANGED <<threadVars, cur, dealVars>>

NextThread == IF cur = NumThreads THEN "done" ELSE "destroy"

\* if (loop_ != NULL): a thread that has cleared it is not joined
TestLoop ==
    /\ owner = "destroy"
    /\ owner' = IF loop_[cur] THEN "quit" ELSE NextThread
    /\ cur' = IF loop_[cur] THEN cur ELSE cur + 1
    /\ UNCHANGED <<threadVars, atRest, dealVars>>

\* loop_->quit(): the assignment ...  loop_ is read again, and NULL by now if the
\* thread has left its loop; a build that keeps the value it tested writes to
\* a loop that is ending or has ended.
QuitLoop ==
    /\ owner = "quit"
    /\ \/ owner' = "wakeup" /\ quit' = [quit EXCEPT ![cur] = TRUE]
       \/ ~loop_[cur] /\ owner' = "crashed" /\ UNCHANGED quit
    /\ UNCHANGED <<thread, loop_, wakeupFd, atRest, cur, dealVars>>

\* ... and the wakeup, through wakeupFd_ of an EventLoop that may be destroyed
WakeupLoop ==
    /\ owner = "wakeup"
    /\ \/ owner' = "join" /\ wakeupFd' = [wakeupFd EXCEPT ![cur] = Exists(cur)]
       \/ ~Exists(cur) /\ owner' = "crashed" /\ UNCHANGED wakeupFd
    /\ UNCHANGED <<thread, loop_, quit, atRest, cur, dealVars>>

\* thread_.join()
Join ==
    /\ owner = "join"
    /\ thread[cur] = "finished"
    /\ owner' = NextThread
    /\ cur' = cur + 1
    /\ UNCHANGED <<threadVars, atRest, dealVars>>
-----------------------------------------------------------------------------
\* A crash ends the threads too.
Running == owner # "crashed"

ThreadStep(i) ==
    /\ Running
    /\ Publish(i) \/ Enter(i) \/ TestQuit(i) \/ WokenUp(i) \/ Clear(i) \/ Finish(i)

OwnerStep ==
    \/ StartThread \/ TestPublished \/ ReturnLoop
    \/ TestLoop \/ QuitLoop \/ WakeupLoop \/ Join

Next ==
    \/ \E i \in Threads : ThreadStep(i) \/ (Running /\ HandleEvents(i))
    \/ OwnerStep
    \/ SpuriousWakeup
    \/ CallsLeft /\ GetNextLoop
    \/ BeginDestroy

Spec == Init /\ [][Next]_vars

\* The threads and the owner keep running.  The pool need not be destroyed, no
\* loop need quit by itself, and poll is not assumed to time out.
FairSpec == Spec /\ WF_vars(OwnerStep) /\ \A i \in Threads : WF_vars(ThreadStep(i))
-----------------------------------------------------------------------------
(* Properties *)

\* startLoop (EventLoopThread.cc:41-55): every loop handed to the pool is that
\* of its thread, and it exists and takes functors until its own callbacks or
\* the destructor tell it to quit.  (A loop that quits before the owner has
\* looked at loop_ is not modelled: startLoop would return NULL, or wait for
\* ever.)
LoopsUsable ==
    \A i \in 1..Len(loops) :
        /\ loops[i] = i
        /\ (owner \in {"start", "lock", "wait", "return", "serve"} \/ i > cur)
              => thread[i] \in {"enter", "while", "poll"} \/ quit[i]

\* getNextLoop (EventLoopThreadPool.cc:52-69) deals the connections evenly.
Balanced ==
    (owner = "serve" /\ NumThreads > 0) =>
        \A i, j \in Threads : given[i] <= given[j] + 1

\* The comments at EventLoopThread.cc:32-35 and EventLoop.cc:139-141: the
\* destructor dereferences a loop that is gone only if, while it runs, some loop
\* does something of its own; loops that wait in poll() are destroyed safely.
CrashesInRacesOnly == owner = "crashed" => ~atRest

\* The pool while its owner starts, uses and destroys it: the loops it hands
\* out are there to be used, each in its turn, until they are told to quit.
PoolSound == TypeOK /\ LoopsUsable /\ Balanced /\ CrashesInRacesOnly

\* ~EventLoopThread (EventLoopThread.cc:36-37) does not hang once every thread
\* has cleared quit_ in loop(): quit() ends the loop and the thread is joined.
DestructorReturns ==
    owner = "destroy" /\ (\A i \in Threads : thread[i] \notin {"init", "enter"})
      ~> owner \in {"done", "crashed"}

\* Without that condition: a quit() before loop() is lost (EventLoop.cc:107).
HastyDestructorReturns == owner = "destroy" ~> owner \in {"done", "crashed"}

\* startLoop (EventLoopThread.cc:41-55) returns for every thread: no notify is
\* lost.
StartReturns == owner = "start" ~> owner = "serve"

\* The owner comes through: start() and the destructors do not hang.
OwnerReturns == StartReturns /\ DestructorReturns

\* Without the race: no crash at all.
NeverCrashes == Running
=============================================================================
