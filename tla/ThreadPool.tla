----------------------------- MODULE ThreadPool -----------------------------
(***************************************************************************)
(* muduo::ThreadPool: a bounded queue of tasks, the worker threads that    *)
(* take them, the threads that call run(), and the owner that starts and   *)
(* stops the pool.                                                         *)
(*                                                                         *)
(* A critical section under mutex_ is one step.  pthread_cond_wait gives   *)
(* the mutex up and goes to sleep in the same step, and may return without *)
(* a notification; notify wakes one of the sleepers, any of them.          *)
(* The pool has at least one thread: with none, run() just calls the task. *)
(* Tasks finish and do not call run() themselves.                          *)
(***************************************************************************)
EXTENDS Naturals, Sequences, FiniteSets

CONSTANTS
    Workers,         \* threads_
    Callers,         \* the threads that call run()
    MaxQueueSize,    \* maxQueueSize_; 0 is no limit
    MaxTasks         \* bound on the calls of run(), numbered 1..MaxTasks

ASSUME ThreadPoolAssumption ==
    /\ Workers # {} /\ IsFiniteSet(Workers) /\ IsFiniteSet(Callers)
    /\ MaxQueueSize \in Nat /\ MaxTasks \in Nat

VARIABLES
    queue,       \* queue_
    running,     \* running_
    worker,      \* where each worker is in runInThread()
    task,        \* the task each worker holds, 0 for the empty one
    caller,      \* where each caller is in run()
    arg,         \* the task a caller is passing to run()
    owner,       \* where the owner is in start() and stop()
    calls,       \* history: the number of calls of run()
    accepted,    \* history: the tasks in the order run() queued them
    done         \* history: the tasks that have been run

vars == <<queue, running, worker, task, caller, arg, owner, calls, accepted, done>>

Tasks == 1..MaxTasks

\* Workers: "unstarted"; "while" about to test running_; "lock" at the lock of
\* take(), also after a wake-up; "wait" asleep on notEmpty_; "task" running the
\* task; "exit".  Callers: "idle"; "lock"; "wait" asleep on notFull_.
\* Owner: "start" creating threads; "work"; "join" in stop(); "stopped".
TypeOK ==
    /\ queue \in Seq(Tasks)
    /\ running \in BOOLEAN
    /\ worker \in [Workers -> {"unstarted", "while", "lock", "wait", "task", "exit"}]
    /\ task \in [Workers -> Tasks \cup {0}]
    /\ caller \in [Callers -> {"idle", "lock", "wait"}]
    /\ arg \in [Callers -> Tasks \cup {0}]
    /\ owner \in {"start", "work", "join", "stopped"}
    /\ calls \in 0..MaxTasks
    /\ accepted \in Seq(Tasks)
    /\ done \subseteq Tasks

Init ==
    /\ queue = <<>>
    /\ running = TRUE
    /\ worker = [w \in Workers |-> "unstarted"]
    /\ task = [w \in Workers |-> 0]
    /\ caller = [c \in Callers |-> "idle"]
    /\ arg = [c \in Callers |-> 0]
    /\ owner = "start"
    /\ calls = 0 /\ accepted = <<>> /\ done = {}

isFull == MaxQueueSize > 0 /\ Len(queue) >= MaxQueueSize

Asleep(pc) == {t \in DOMAIN pc : pc[t] = "wait"}

\* pthread_cond_signal: pc and pc' differ by one sleeper that woke up
Notify(pc, next) ==
    \/ Asleep(pc) = {} /\ next = pc
    \/ \E t \in Asleep(pc) : next = [pc EXCEPT ![t] = "lock"]

\* Mutation of NotifyAll: notify() for notifyAll().
NotifyFirst(pc) ==
    IF Asleep(pc) = {} THEN pc ELSE [pc EXCEPT ![CHOOSE t \in Asleep(pc) : TRUE] = "lock"]

\* pthread_cond_broadcast
NotifyAll(pc) == [t \in DOMAIN pc |-> IF pc[t] = "wait" THEN "lock" ELSE pc[t]]
-----------------------------------------------------------------------------
(* The owner *)

\* start(): threads_[i].start()
StartThread(w) ==
    /\ owner = "start"
    /\ worker[w] = "unstarted"
    /\ worker' = [worker EXCEPT ![w] = "while"]
    /\ owner' = IF \A v \in Workers \ {w} : worker[v] # "unstarted" THEN "work" ELSE owner
    /\ UNCHANGED <<queue, running, task, caller, arg, calls, accepted, done>>

\* stop() up to the joins
Stop ==
    /\ owner = "work"
    /\ owner' = "join"
    /\ running' = FALSE
    /\ worker' = NotifyAll(worker)
    /\ UNCHANGED <<queue, task, caller, arg, calls, accepted, done>>

\* every thread joined
Join ==
    /\ owner = "join"
    /\ \A w \in Workers : worker[w] = "exit"
    /\ owner' = "stopped"
    /\ UNCHANGED <<queue, running, worker, task, caller, arg, calls, accepted, done>>
-----------------------------------------------------------------------------
(* The callers of run() *)

Run(c) ==
    /\ owner # "start"
    /\ caller[c] = "idle"
    /\ calls < MaxTasks
    /\ calls' = calls + 1
    /\ arg' = [arg EXCEPT ![c] = calls + 1]
    /\ caller' = [caller EXCEPT ![c] = "lock"]
    /\ UNCHANGED <<queue, running, worker, task, owner, accepted, done>>

\* while (isFull()) notFull_.wait()
WaitNotFull(c) ==
    /\ caller[c] = "lock"
    /\ isFull
    /\ caller' = [caller EXCEPT ![c] = "wait"]
    /\ UNCHANGED <<queue, running, worker, task, arg, owner, calls, accepted, done>>

\* Mutation of NotifyNotEmpty: only if the queue was empty.
NotifyIfWasEmpty == IF queue = <<>> THEN Notify(worker, worker') ELSE UNCHANGED worker

NotifyNotEmpty == Notify(worker, worker')

\* queue_.push_back(task); notEmpty_.notify()
PushTask(c) ==
    /\ caller[c] = "lock"
    /\ ~isFull
    /\ queue' = Append(queue, arg[c])
    /\ accepted' = Append(accepted, arg[c])
    /\ NotifyNotEmpty
    /\ caller' = [caller EXCEPT ![c] = "idle"]
    /\ arg' = [arg EXCEPT ![c] = 0]
    /\ UNCHANGED <<running, task, owner, calls, done>>
-----------------------------------------------------------------------------
(* The workers *)

\* while (running_), read without the lock
TestRunning(w) ==
    /\ worker[w] = "while"
    /\ worker' = [worker EXCEPT ![w] = IF running THEN "lock" ELSE "exit"]
    /\ UNCHANGED <<queue, running, task, caller, arg, owner, calls, accepted, done>>

\* take(): while (queue_.empty() && running_) notEmpty_.wait()
WaitNotEmpty(w) ==
    /\ worker[w] = "lock"
    /\ queue = <<>> /\ running
    /\ worker' = [worker EXCEPT ![w] = "wait"]
    /\ UNCHANGED <<queue, running, task, caller, arg, owner, calls, accepted, done>>

\* Mutation of NotifyNotFull: nobody is notified.
NotifyNobody == UNCHANGED caller

NotifyNotFull == IF MaxQueueSize > 0 THEN Notify(caller, caller') ELSE UNCHANGED caller

\* Mutation of Take: the task is not popped.
TakeFront(w) ==
    /\ worker[w] = "lock"
    /\ queue # <<>>
    /\ task' = [task EXCEPT ![w] = Head(queue)]
    /\ NotifyNotFull
    /\ worker' = [worker EXCEPT ![w] = "task"]
    /\ UNCHANGED <<queue, running, arg, owner, calls, accepted, done>>

\* take() returns the first task and tells one caller there is room
Take(w) ==
    /\ worker[w] = "lock"
    /\ queue # <<>>
    /\ task' = [task EXCEPT ![w] = Head(queue)]
    /\ queue' = Tail(queue)
    /\ NotifyNotFull
    /\ worker' = [worker EXCEPT ![w] = "task"]
    /\ UNCHANGED <<running, arg, owner, calls, accepted, done>>

\* take() returns the empty task: the pool is stopping
TakeNothing(w) ==
    /\ worker[w] = "lock"
    /\ queue = <<>> /\ ~running
    /\ worker' = [worker EXCEPT ![w] = "while"]
    /\ UNCHANGED <<queue, running, task, caller, arg, owner, calls, accepted, done>>

\* task() returns
RunTask(w) ==
    /\ worker[w] = "task"
    /\ done' = done \cup {task[w]}
    /\ task' = [task EXCEPT ![w] = 0]
    /\ worker' = [worker EXCEPT ![w] = "while"]
    /\ UNCHANGED <<queue, running, caller, arg, owner, calls, accepted>>

\* pthread_cond_wait may return with no notification
SpuriousWakeup ==
    \/ /\ \E w \in Asleep(worker) : worker' = [worker EXCEPT ![w] = "lock"]
       /\ UNCHANGED caller
    \/ /\ \E c \in Asleep(caller) : caller' = [caller EXCEPT ![c] = "lock"]
       /\ UNCHANGED worker
-----------------------------------------------------------------------------
WorkerStep(w) ==
    TestRunning(w) \/ WaitNotEmpty(w) \/ Take(w) \/ TakeNothing(w) \/ RunTask(w)

CallerStep(c) == WaitNotFull(c) \/ PushTask(c)

Next ==
    \/ \E w \in Workers : StartThread(w) \/ WorkerStep(w)
    \/ Stop \/ Join
    \/ \E c \in Callers : Run(c) \/ CallerStep(c)
    \/ /\ SpuriousWakeup
       /\ UNCHANGED <<queue, running, task, arg, owner, calls, accepted, done>>

Spec == Init /\ [][Next]_vars

\* Every started thread keeps running, and one that is awake gets the mutex in
\* the end; nobody has to call stop() or run(), and no spurious wake-up has to
\* happen.
FairSpec ==
    /\ Spec
    /\ WF_vars(Join) /\ \A w \in Workers : WF_vars(WorkerStep(w) \/ StartThread(w))
    /\ \A c \in Callers : WF_vars(CallerStep(c))
-----------------------------------------------------------------------------
(* Properties *)

\* run, take (ThreadPool.cc:72-81, 109-124): a task is never lost, run twice
\* or taken out of order: what run() accepted is what the workers took, then
\* the queue; the limit of the queue is kept.
Taken == SubSeq(accepted, 1, Len(accepted) - Len(queue))
TakenOnce ==
    /\ accepted = Taken \o queue
    /\ {Taken[i] : i \in 1..Len(Taken)} = (done \cup {task[w] : w \in Workers}) \ {0}
    /\ \A v, w \in Workers : task[v] = task[w] /\ task[v] # 0 => v = w /\ task[v] \notin done
    /\ MaxQueueSize > 0 => Len(queue) <= MaxQueueSize

\* The queue and the tasks taken from it.
QueueSound == TypeOK /\ TakenOnce

\* notEmpty_ (ThreadPool.cc:81, 111-114): one notify() per task is enough:
\* as many workers are awake as there are tasks queued, or all of them.
Awake == {w \in Workers : worker[w] \in {"while", "lock", "task"}}
WorkersAwake ==
    running /\ owner # "start" =>
        \/ Asleep(worker) = {}
        \/ Cardinality(Awake) >= Len(queue)

\* notFull_ (ThreadPool.cc:74-77, 120-123): one notify() per task taken is
\* enough: while a caller sleeps, the queue is full, or every free place has
\* a caller that is awake to take it.
CallersAwake ==
    Asleep(caller) # {} =>
        Cardinality({c \in Callers : caller[c] = "lock"}) >= MaxQueueSize - Len(queue)

\* No notification is lost on either condition, whatever is notified, woken
\* spuriously and taken in between (ThreadPool.cc:65-126).
NobodyOversleeps == WorkersAwake /\ CallersAwake

\* stop() (ThreadPool.cc:53-63) returns: no worker sleeps through it.
StopReturns == owner = "join" ~> owner = "stopped"

\* Until the pool is stopped every call of run() returns and its task is run.
\* (After stop() it may never return: stop() does not notify notFull_.)
TasksRun ==
    \A i \in Tasks : (i <= calls) ~> (i \in done \/ ~running)
=============================================================================
