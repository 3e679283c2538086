-------------------------- MODULE ThreadPool_proofs --------------------------
(***************************************************************************)
(* Theorems of the two pools of threads: of ThreadPool, for every set of   *)
(* workers and callers and every limit of the queue, and at the end of     *)
(* EventLoopThreadPool, for any number of threads and of calls.            *)
(***************************************************************************)
EXTENDS ThreadPool, SequenceTheorems, FiniteSetTheorems, TLAPS

\* The number of tasks the workers have taken.
TakenLen == Len(accepted) - Len(queue)

\* Every call of run() has a task of its own, which is not queued twice.
ArgsSound ==
    /\ \A c \in Callers : arg[c] = 0 <=> caller[c] = "idle"
    /\ \A c \in Callers : arg[c] <= calls
    /\ \A c, d \in Callers : arg[c] = arg[d] /\ arg[c] # 0 => c = d
    /\ \A c \in Callers : \A i \in 1..Len(accepted) : accepted[i] # arg[c]
    /\ \A i \in 1..Len(accepted) : accepted[i] <= calls
    /\ \A i, j \in 1..Len(accepted) : accepted[i] = accepted[j] => i = j

\* The queue is the end of what was accepted.
QueueIsSuffix ==
    /\ Len(queue) <= Len(accepted)
    /\ \A i \in 1..Len(queue) : queue[i] = accepted[TakenLen + i]

\* What comes before it is held by a worker or done.
TasksSound ==
    /\ \A w \in Workers : task[w] # 0 <=> worker[w] = "task"
    /\ \A w \in Workers : task[w] # 0 => task[w] \notin done
    /\ \A v, w \in Workers : task[v] = task[w] /\ task[v] # 0 => v = w
    /\ \A x \in Tasks : (\E i \in 1..TakenLen : accepted[i] = x)
                            <=> (x \in done \/ \E w \in Workers : task[w] = x)

LimitKept == MaxQueueSize > 0 => Len(queue) <= MaxQueueSize

IInv == TypeOK /\ ArgsSound /\ QueueIsSuffix /\ TasksSound /\ LimitKept
-----------------------------------------------------------------------------
(* Lemmas *)

LEMMA Lengths ==
    ASSUME TypeOK
    PROVE  /\ Len(queue) \in Nat /\ Len(accepted) \in Nat
           /\ \A i \in 1..Len(queue) : queue[i] \in Tasks
           /\ \A i \in 1..Len(accepted) : accepted[i] \in Tasks
           /\ 0 \notin Tasks /\ Tasks \subseteq Nat
<1>1. queue \in Seq(Tasks) /\ accepted \in Seq(Tasks)
  BY DEF TypeOK
<1>2. 0 \notin Tasks /\ Tasks \subseteq Nat
  BY ThreadPoolAssumption DEF Tasks
<1>3. QED
  BY <1>1, <1>2, LenProperties, ElementOfSeq

WorkerPlaces == {"unstarted", "while", "lock", "wait", "task", "exit"}
CallerPlaces == {"idle", "lock", "wait"}

\* A notification wakes a sleeper or nobody.
LEMMA NotifyWorker ==
    ASSUME worker \in [Workers -> WorkerPlaces], Notify(worker, worker')
    PROVE  /\ worker' \in [Workers -> WorkerPlaces]
           /\ \A w \in Workers : worker'[w] = "task" <=> worker[w] = "task"
BY DEF Notify, Asleep, WorkerPlaces

LEMMA NotifyCaller ==
    ASSUME caller \in [Callers -> CallerPlaces], Notify(caller, caller')
    PROVE  /\ caller' \in [Callers -> CallerPlaces]
           /\ \A c \in Callers : caller'[c] = "idle" <=> caller[c] = "idle"
BY DEF Notify, Asleep, CallerPlaces

\* The steps that only move threads between waiting, waking and testing.
LEMMA QuietStep ==
    ASSUME IInv, TypeOK', UNCHANGED <<queue, task, arg, calls, accepted, done>>,
           \A c \in Callers : caller'[c] = "idle" <=> caller[c] = "idle",
           \A w \in Workers : worker'[w] = "task" <=> worker[w] = "task"
    PROVE  IInv'
BY DEF IInv, ArgsSound, QueueIsSuffix, TasksSound, LimitKept, TakenLen
-----------------------------------------------------------------------------
(* The invariant is inductive *)

LEMMA InvInit == Init => IInv
<1> SUFFICES ASSUME Init PROVE IInv
  OBVIOUS
<1>1. <<>> \in Seq(Tasks) /\ Len(<<>>) = 0
  BY EmptySeq
<1>2. 0 \in 0..MaxTasks /\ MaxQueueSize \in Nat
  BY ThreadPoolAssumption
<1>3. TypeOK
  BY <1>1, <1>2 DEF Init, TypeOK
<1>4. 0 \notin Tasks
  BY <1>3, Lengths
<1>5. ArgsSound
  BY <1>1 DEF Init, ArgsSound
<1>6. QueueIsSuffix /\ LimitKept
  BY <1>1, <1>2 DEF Init, QueueIsSuffix, LimitKept
<1>7. TasksSound
  BY <1>1, <1>4 DEF Init, TasksSound, TakenLen
<1>8. QED
  BY <1>3, <1>5, <1>6, <1>7 DEF IInv

LEMMA RunInv == ASSUME IInv, NEW c \in Callers, Run(c) PROVE IInv'
<1>1. calls + 1 \in Tasks /\ calls \in Nat /\ calls' \in 0..MaxTasks /\ calls' = calls + 1
  BY ThreadPoolAssumption DEF IInv, TypeOK, Run, Tasks
<1>2. \A d \in Callers : arg'[d] = IF d = c THEN calls + 1 ELSE arg[d]
  BY DEF IInv, TypeOK, Run
<1>3. \A d \in Callers : caller'[d] = IF d = c THEN "lock" ELSE caller[d]
  BY DEF IInv, TypeOK, Run
<1>4. TypeOK'
  BY <1>1 DEF IInv, TypeOK, Run
<1>5. ArgsSound'
  <2>1. UNCHANGED accepted /\ \A d \in Callers : arg[d] \in Nat
    BY <1>1, Lengths DEF IInv, TypeOK, Run
  <2>2. \A i \in 1..Len(accepted) : accepted[i] \in Nat
    BY Lengths DEF IInv
  <2>3. QED
    BY <1>1, <1>2, <1>3, <2>1, <2>2 DEF IInv, ArgsSound
<1>6. QueueIsSuffix' /\ LimitKept'
  BY DEF IInv, QueueIsSuffix, LimitKept, TakenLen, Run
<1>7. TasksSound'
  BY DEF IInv, TasksSound, TakenLen, Run
<1>8. QED
  BY <1>4, <1>5, <1>6, <1>7 DEF IInv

LEMMA PushTaskInv == ASSUME IInv, NEW c \in Callers, PushTask(c) PROVE IInv'
<1>1. /\ queue' = Append(queue, arg[c])
      /\ accepted' = Append(accepted, arg[c])
      /\ ~isFull
      /\ UNCHANGED <<running, task, owner, calls, done>>
  BY DEF PushTask
<1>2. arg[c] \in Tasks
  BY DEF PushTask, IInv, TypeOK, ArgsSound
<1>3. /\ queue' \in Seq(Tasks) /\ Len(queue') = Len(queue) + 1
      /\ \A i \in 1..Len(queue) : queue'[i] = queue[i]
      /\ queue'[Len(queue) + 1] = arg[c]
  BY <1>1, <1>2, AppendProperties DEF IInv, TypeOK
<1>4. /\ accepted' \in Seq(Tasks) /\ Len(accepted') = Len(accepted) + 1
      /\ \A i \in 1..Len(accepted) : accepted'[i] = accepted[i]
      /\ accepted'[Len(accepted) + 1] = arg[c]
  BY <1>1, <1>2, AppendProperties DEF IInv, TypeOK
<1>5. Len(queue) \in Nat /\ Len(accepted) \in Nat
  BY Lengths DEF IInv
<1>6. /\ worker' \in [Workers -> WorkerPlaces]
      /\ \A w \in Workers : worker'[w] = "task" <=> worker[w] = "task"
  BY NotifyWorker DEF PushTask, NotifyNotEmpty, IInv, TypeOK, WorkerPlaces
<1>7. \A d \in Callers : /\ arg'[d] = IF d = c THEN 0 ELSE arg[d]
                         /\ caller'[d] = IF d = c THEN "idle" ELSE caller[d]
  BY DEF PushTask, IInv, TypeOK
<1>8. TypeOK'
  BY <1>1, <1>3, <1>4, <1>6 DEF PushTask, IInv, TypeOK, WorkerPlaces
<1>9. ArgsSound'
  <2>1. \A d \in Callers : arg'[d] = 0 <=> caller'[d] = "idle"
    BY <1>7 DEF IInv, ArgsSound
  <2>2. \A d \in Callers : arg'[d] <= calls'
    BY <1>1, <1>7 DEF IInv, TypeOK, ArgsSound
  <2>3. \A d, e \in Callers : arg'[d] = arg'[e] /\ arg'[d] # 0 => d = e
    BY <1>7 DEF IInv, ArgsSound
  <2>4. ASSUME NEW d \in Callers, NEW i \in 1..Len(accepted') PROVE accepted'[i] # arg'[d]
    <3>1. accepted'[i] \in Tasks /\ 0 \notin Tasks
      BY <1>8, Lengths, ElementOfSeq, <1>4 DEF IInv
    <3>2. CASE d = c
      BY <1>7, <3>1, <3>2
    <3>3. CASE d # c /\ i = Len(accepted) + 1
      BY <1>2, <1>4, <1>7, <3>1, <3>3 DEF IInv, ArgsSound
    <3>4. CASE d # c /\ i \in 1..Len(accepted)
      BY <1>4, <1>7, <3>4 DEF IInv, ArgsSound
    <3>5. QED
      BY <1>4, <1>5, <3>2, <3>3, <3>4
  <2>5. \A i \in 1..Len(accepted') : accepted'[i] <= calls'
    BY <1>1, <1>4, <1>5 DEF IInv, ArgsSound
  <2>6. \A i, j \in 1..Len(accepted') : accepted'[i] = accepted'[j] => i = j
    BY <1>4, <1>5 DEF IInv, ArgsSound
  <2>7. QED
    BY <2>1, <2>2, <2>3, <2>4, <2>5, <2>6 DEF ArgsSound
<1>10. TakenLen' = TakenLen /\ TakenLen \in 0..Len(accepted)
  BY <1>3, <1>4, <1>5 DEF TakenLen, IInv, QueueIsSuffix
<1>11. QueueIsSuffix'
  <2>1. ASSUME NEW i \in 1..Len(queue') PROVE queue'[i] = accepted'[TakenLen + i]
    <3>1. CASE i = Len(queue) + 1
      <4>1. TakenLen + i = Len(accepted) + 1
        BY <1>5, <3>1 DEF TakenLen
      <4>2. QED
        BY <1>3, <1>4, <3>1, <4>1
    <3>2. CASE i \in 1..Len(queue)
      <4>1. TakenLen + i \in 1..Len(accepted)
        BY <1>5, <1>10, <3>2 DEF TakenLen
      <4>2. QED
        BY <1>3, <1>4, <3>2, <4>1 DEF IInv, QueueIsSuffix
    <3>3. QED
      BY <1>3, <1>5, <3>1, <3>2
  <2>2. Len(queue') <= Len(accepted')
    BY <1>3, <1>4, <1>5 DEF IInv, QueueIsSuffix
  <2>3. QED
    BY <1>10, <2>1, <2>2 DEF QueueIsSuffix
<1>12. TasksSound'
  <2>1. \A i \in 1..TakenLen : accepted'[i] = accepted[i]
    BY <1>4, <1>5, <1>10
  <2>2. QED
    BY <1>1, <1>6, <1>10, <2>1 DEF IInv, TasksSound
<1>13. LimitKept'
  BY <1>1, <1>3, <1>5, ThreadPoolAssumption DEF LimitKept, isFull
<1>14. QED
  BY <1>8, <1>9, <1>11, <1>12, <1>13 DEF IInv

LEMMA TakeInv == ASSUME IInv, NEW w \in Workers, Take(w) PROVE IInv'
<1>1. /\ queue # <<>>
      /\ queue' = Tail(queue)
      /\ UNCHANGED <<running, arg, owner, calls, accepted, done>>
  BY DEF Take
<1>2. /\ Head(queue) \in Tasks
      /\ queue' \in Seq(Tasks)
      /\ Len(queue') = Len(queue) - 1
      /\ \A i \in 1..Len(queue') : queue'[i] = queue[i + 1]
  BY <1>1, HeadTailProperties DEF IInv, TypeOK
<1>3. /\ Len(queue) \in Nat /\ Len(queue') \in Nat /\ Len(accepted) \in Nat
      /\ Len(queue) >= 1
      /\ 0 \notin Tasks
  BY <1>1, <1>2, Lengths, LenProperties, EmptySeq DEF IInv, TypeOK
<1>4. /\ TakenLen' = TakenLen + 1
      /\ TakenLen \in Nat /\ TakenLen + 1 \in 1..Len(accepted)
  BY <1>1, <1>2, <1>3 DEF TakenLen, IInv, QueueIsSuffix
<1>5. Head(queue) = accepted[TakenLen + 1]
  <2>1. Head(queue) = queue[1]
    BY <1>1
  <2>2. QED
    BY <1>3, <2>1 DEF IInv, QueueIsSuffix
<1>6. \A v \in Workers : task'[v] = IF v = w THEN Head(queue) ELSE task[v]
  BY DEF Take, IInv, TypeOK
<1>7. \A v \in Workers : worker'[v] = IF v = w THEN "task" ELSE worker[v]
  BY DEF Take, IInv, TypeOK
<1>8. /\ caller' \in [Callers -> CallerPlaces]
      /\ \A c \in Callers : caller'[c] = "idle" <=> caller[c] = "idle"
  <2>1. Notify(caller, caller') \/ UNCHANGED caller
    BY DEF Take, NotifyNotFull
  <2>2. QED
    BY <2>1, NotifyCaller DEF IInv, TypeOK, CallerPlaces
<1>9. TypeOK'
  BY <1>1, <1>2, <1>8 DEF Take, IInv, TypeOK, CallerPlaces
<1>10. ArgsSound'
  BY <1>1, <1>8 DEF IInv, ArgsSound
<1>11. QueueIsSuffix'
  <2>1. ASSUME NEW i \in 1..Len(queue') PROVE queue'[i] = accepted[TakenLen + 1 + i]
    <3>1. i + 1 \in 1..Len(queue)
      BY <1>2, <1>3
    <3>2. queue[i + 1] = accepted[TakenLen + (i + 1)]
      BY <3>1 DEF IInv, QueueIsSuffix
    <3>3. TakenLen + (i + 1) = TakenLen + 1 + i
      BY <1>3, <1>4
    <3>4. QED
      BY <1>2, <3>2, <3>3
  <2>2. Len(queue') <= Len(accepted')
    BY <1>1, <1>2, <1>3 DEF IInv, QueueIsSuffix
  <2>3. QED
    BY <1>1, <1>4, <2>1, <2>2 DEF QueueIsSuffix
\* The task is new: no earlier one is equal to it.
<1>12. Head(queue) \notin done /\ \A v \in Workers : task[v] # Head(queue)
  <2>1. ~ \E i \in 1..TakenLen : accepted[i] = Head(queue)
    BY <1>3, <1>4, <1>5 DEF IInv, ArgsSound
  <2>2. QED
    BY <1>2, <2>1 DEF IInv, TasksSound
<1>13. worker[w] # "task" /\ task[w] = 0
  BY DEF Take, IInv, TasksSound
<1>14. TasksSound'
  <2>1. \A v \in Workers : task'[v] # 0 <=> worker'[v] = "task"
    BY <1>2, <1>3, <1>6, <1>7 DEF IInv, TasksSound
  <2>2. \A v \in Workers : task'[v] # 0 => task'[v] \notin done'
    BY <1>1, <1>6, <1>12 DEF IInv, TasksSound
  <2>3. \A u, v \in Workers : task'[u] = task'[v] /\ task'[u] # 0 => u = v
    BY <1>6, <1>12 DEF IInv, TasksSound
  <2>4. ASSUME NEW x \in Tasks
        PROVE  (\E i \in 1..(TakenLen + 1) : accepted[i] = x)
                   <=> (x \in done \/ \E v \in Workers : task'[v] = x)
    <3>1. (\E i \in 1..(TakenLen + 1) : accepted[i] = x)
              <=> (\E i \in 1..TakenLen : accepted[i] = x) \/ x = Head(queue)
      BY <1>4, <1>5
    <3>2. (\E v \in Workers : task'[v] = x)
              <=> (\E v \in Workers : task[v] = x) \/ x = Head(queue)
      BY <1>3, <1>6, <1>13
    <3>3. QED
      BY <3>1, <3>2 DEF IInv, TasksSound
  <2>5. QED
    BY <1>1, <1>4, <2>1, <2>2, <2>3, <2>4 DEF TasksSound
<1>15. LimitKept'
  BY <1>2, <1>3, ThreadPoolAssumption DEF IInv, LimitKept
<1>16. QED
  BY <1>9, <1>10, <1>11, <1>14, <1>15 DEF IInv

LEMMA RunTaskInv == ASSUME IInv, NEW w \in Workers, RunTask(w) PROVE IInv'
<1>1. /\ done' = done \cup {task[w]}
      /\ UNCHANGED <<queue, running, caller, arg, owner, calls, accepted>>
  BY DEF RunTask
<1>2. task[w] \in Tasks /\ 0 \notin Tasks
  BY Lengths DEF RunTask, IInv, TypeOK, TasksSound
<1>3. \A v \in Workers : /\ task'[v] = IF v = w THEN 0 ELSE task[v]
                         /\ worker'[v] = IF v = w THEN "while" ELSE worker[v]
  BY DEF RunTask, IInv, TypeOK
<1>4. TypeOK'
  BY <1>1, <1>2 DEF RunTask, IInv, TypeOK
<1>5. ArgsSound' /\ QueueIsSuffix' /\ LimitKept' /\ TakenLen' = TakenLen
  BY <1>1 DEF IInv, ArgsSound, QueueIsSuffix, LimitKept, TakenLen
<1>6. TasksSound'
  <2>1. \A v \in Workers : task'[v] # 0 <=> worker'[v] = "task"
    BY <1>3 DEF IInv, TasksSound
  <2>2. \A v \in Workers : task'[v] # 0 => task'[v] \notin done'
    BY <1>1, <1>3 DEF IInv, TasksSound
  <2>3. \A u, v \in Workers : task'[u] = task'[v] /\ task'[u] # 0 => u = v
    BY <1>3 DEF IInv, TasksSound
  <2>4. ASSUME NEW x \in Tasks
        PROVE  (x \in done \/ \E v \in Workers : task[v] = x)
                   <=> (x \in done' \/ \E v \in Workers : task'[v] = x)
    BY <1>1, <1>2, <1>3
  <2>5. QED
    BY <1>1, <1>5, <2>1, <2>2, <2>3, <2>4 DEF IInv, TasksSound
<1>7. QED
  BY <1>4, <1>5, <1>6 DEF IInv

LEMMA InvNext == IInv /\ [Next]_vars => IInv'
<1> SUFFICES ASSUME IInv, [Next]_vars PROVE IInv'
  OBVIOUS
<1> USE DEF IInv, TypeOK
<1>1. ASSUME NEW w \in Workers, StartThread(w) PROVE IInv'
  BY <1>1, QuietStep DEF StartThread
<1>2. CASE Stop
  BY <1>2, QuietStep DEF Stop, NotifyAll
<1>3. CASE Join
  BY <1>3, QuietStep DEF Join
<1>4. ASSUME NEW w \in Workers, TestRunning(w) \/ WaitNotEmpty(w) \/ TakeNothing(w)
      PROVE  IInv'
  BY <1>4, QuietStep DEF TestRunning, WaitNotEmpty, TakeNothing
<1>5. ASSUME NEW c \in Callers, WaitNotFull(c) PROVE IInv'
  BY <1>5, QuietStep DEF WaitNotFull
<1>6. CASE SpuriousWakeup /\ UNCHANGED <<queue, running, task, arg, owner, calls, accepted, done>>
  BY <1>6, QuietStep DEF SpuriousWakeup, Asleep
<1>7. CASE UNCHANGED vars
  BY <1>7, QuietStep DEF vars
<1> USE DEF WorkerStep, CallerStep
<1>8. QED
  BY <1>1, <1>2, <1>3, <1>4, <1>5, <1>6, <1>7, RunInv, PushTaskInv, TakeInv, RunTaskInv
  DEF Next
-----------------------------------------------------------------------------
(* The theorem *)

LEMMA InvImpliesQueueSound == IInv => QueueSound
<1> SUFFICES ASSUME IInv PROVE QueueSound
  OBVIOUS
<1>1. /\ Len(queue) \in Nat /\ Len(accepted) \in Nat
      /\ queue \in Seq(Tasks) /\ accepted \in Seq(Tasks)
      /\ TakenLen \in 0..Len(accepted)
      /\ 0 \notin Tasks
  BY Lengths DEF IInv, TypeOK, QueueIsSuffix, TakenLen
<1>2. /\ Taken \in Seq(Tasks) /\ Len(Taken) = TakenLen
      /\ \A i \in 1..TakenLen : Taken[i] = accepted[i]
  <2>1. /\ Taken = SubSeq(accepted, 1, TakenLen)
        /\ \A i \in 1..TakenLen : accepted[i] \in Tasks
    BY <1>1, ElementOfSeq DEF Taken, TakenLen
  <2>2. /\ Taken \in Seq(Tasks)
        /\ Len(Taken) = IF 1 <= TakenLen THEN TakenLen - 1 + 1 ELSE 0
        /\ \A i \in 1..(TakenLen - 1 + 1) : Taken[i] = accepted[1 + i - 1]
    <3>1. 1 \in Int /\ TakenLen \in Int
      BY <1>1
    <3>2. QED
      BY <2>1, <3>1, SubSeqProperties
  <2>3. TakenLen - 1 + 1 = TakenLen /\ \A i \in 1..TakenLen : 1 + i - 1 = i
    BY <1>1
  <2>4. QED
    BY <1>1, <2>2, <2>3
<1>3. accepted = Taken \o queue
  <2>1. /\ Taken \o queue \in Seq(Tasks)
        /\ Len(Taken \o queue) = TakenLen + Len(queue)
        /\ \A i \in 1..(TakenLen + Len(queue)) :
              (Taken \o queue)[i] = IF i <= TakenLen THEN Taken[i] ELSE queue[i - TakenLen]
    BY <1>1, <1>2, ConcatProperties
  <2>2. TakenLen + Len(queue) = Len(accepted)
    BY <1>1 DEF TakenLen
  <2>3. ASSUME NEW i \in 1..Len(accepted) PROVE accepted[i] = (Taken \o queue)[i]
    <3>1. CASE i <= TakenLen
      BY <1>1, <1>2, <2>1, <2>2, <3>1
    <3>2. CASE i > TakenLen
      <4>1. i - TakenLen \in 1..Len(queue) /\ TakenLen + (i - TakenLen) = i
        BY <1>1, <2>2, <3>2
      <4>2. queue[i - TakenLen] = accepted[i]
        BY <4>1 DEF IInv, QueueIsSuffix
      <4>3. i \in 1..(TakenLen + Len(queue)) /\ ~(i <= TakenLen)
        BY <1>1, <2>2, <3>2
      <4>4. (Taken \o queue)[i] = queue[i - TakenLen]
        BY <2>1, <4>3
      <4>5. QED
        BY <4>2, <4>4
    <3>3. i <= TakenLen \/ i > TakenLen
      BY <1>1
    <3>4. QED
      BY <3>1, <3>2, <3>3, Zenon
  <2>4. QED
    BY <1>1, <2>1, <2>2, <2>3, SeqEqual
<1>4. {Taken[i] : i \in 1..Len(Taken)} = (done \cup {task[w] : w \in Workers}) \ {0}
  <2>1. {Taken[i] : i \in 1..Len(Taken)} = {accepted[i] : i \in 1..TakenLen}
    BY <1>2
  <2>2. \A i \in 1..TakenLen : accepted[i] \in Tasks
    BY <1>1, ElementOfSeq
  <2>3. \A x \in Tasks : x \in {accepted[i] : i \in 1..TakenLen}
                            <=> x \in done \cup {task[w] : w \in Workers}
    BY DEF IInv, TasksSound
  <2>4. done \subseteq Tasks /\ {task[w] : w \in Workers} \subseteq Tasks \cup {0}
    BY DEF IInv, TypeOK
  <2>5. {accepted[i] : i \in 1..TakenLen} \subseteq Tasks
    BY <2>2
  <2>6. QED
    BY <1>1, <2>1, <2>3, <2>4, <2>5
<1>5. QED
  BY <1>3, <1>4 DEF IInv, TasksSound, LimitKept, QueueSound, TakenOnce

\* Whatever callers and workers do, and whenever the pool is stopped: the tasks
\* run() accepted are those the workers took, in order, then the queue; a task
\* is held by one worker at most and not run again, and the limit is kept.
THEOREM QueueCorrect == Spec => []QueueSound
BY InvInit, InvNext, InvImpliesQueueSound, PTL DEF Spec
-----------------------------------------------------------------------------
(* Nobody sleeps while there is something for him.  Of the state before, an  *)
(* induction step needs the type and the start of the pool: tasks come only  *)
(* after it, and no worker exits before the end.                             *)

StartSound ==
    /\ owner = "start" => queue = <<>> /\ \A c \in Callers : caller[c] = "idle"
    /\ running => \A w \in Workers : worker[w] # "exit"

WakeInv == StartSound /\ WorkersAwake /\ CallersAwake

Locked == {c \in Callers : caller[c] = "lock"}

LEMMA SetsFinite ==
    /\ IsFiniteSet(Awake) /\ Cardinality(Awake) \in Nat
    /\ IsFiniteSet(Awake') /\ Cardinality(Awake') \in Nat
    /\ IsFiniteSet(Locked) /\ Cardinality(Locked) \in Nat
    /\ IsFiniteSet(Locked') /\ Cardinality(Locked') \in Nat
<1>1. \A S : S \subseteq Workers => IsFiniteSet(S) /\ Cardinality(S) \in Nat
  BY ThreadPoolAssumption, FS_Subset, FS_CardinalityType
<1>2. \A S : S \subseteq Callers => IsFiniteSet(S) /\ Cardinality(S) \in Nat
  BY ThreadPoolAssumption, FS_Subset, FS_CardinalityType
<1>3. Awake \subseteq Workers /\ Awake' \subseteq Workers
  BY DEF Awake
<1>4. Locked \subseteq Callers /\ Locked' \subseteq Callers
  BY DEF Locked
<1>5. QED
  BY <1>1, <1>2, <1>3, <1>4

\* A notification of the workers makes one more of them awake, unless nobody
\* sleeps.
LEMMA NotifyAwake ==
    ASSUME TypeOK, Notify(worker, worker')
    PROVE  Asleep(worker') = {} \/ Cardinality(Awake') = Cardinality(Awake) + 1
<1>1. CASE Asleep(worker) = {} /\ worker' = worker
  BY <1>1
<1>2. ASSUME NEW t \in Asleep(worker), worker' = [worker EXCEPT ![t] = "lock"]
      PROVE  Cardinality(Awake') = Cardinality(Awake) + 1
  <2>1. Awake' = Awake \cup {t} /\ t \notin Awake
    BY <1>2 DEF Awake, Asleep, TypeOK
  <2>2. QED
    BY <2>1, SetsFinite, FS_AddElement
<1>3. QED
  BY <1>1, <1>2 DEF Notify

LEMMA NotifyLocked ==
    ASSUME TypeOK, Notify(caller, caller')
    PROVE  Asleep(caller') = {} \/ Cardinality(Locked') = Cardinality(Locked) + 1
<1>1. CASE Asleep(caller) = {} /\ caller' = caller
  BY <1>1
<1>2. ASSUME NEW t \in Asleep(caller), caller' = [caller EXCEPT ![t] = "lock"]
      PROVE  Cardinality(Locked') = Cardinality(Locked) + 1
  <2>1. Locked' = Locked \cup {t} /\ t \notin Locked
    BY <1>2 DEF Locked, Asleep, TypeOK
  <2>2. QED
    BY <2>1, SetsFinite, FS_AddElement
<1>3. QED
  BY <1>1, <1>2 DEF Notify

\* A step that lets nobody fall asleep, and adds no task, keeps WorkersAwake;
\* one that frees no place and lets no caller leave keeps CallersAwake.
LEMMA WorkersStay ==
    ASSUME WorkersAwake, running' => running, owner' # "start" => owner # "start",
           Len(queue) \in Nat, Len(queue') \in Nat, Len(queue') <= Len(queue),
           Asleep(worker') \subseteq Asleep(worker), Awake \subseteq Awake'
    PROVE  WorkersAwake'
<1>1. Cardinality(Awake) <= Cardinality(Awake')
  BY SetsFinite, FS_Subset
<1>2. QED
  BY <1>1, SetsFinite DEF WorkersAwake

LEMMA CallersStay ==
    ASSUME CallersAwake, Len(queue) \in Nat, Len(queue') \in Nat, Len(queue') >= Len(queue),
           Asleep(caller') \subseteq Asleep(caller), Locked \subseteq Locked'
    PROVE  CallersAwake'
<1>1. Cardinality(Locked) <= Cardinality(Locked')
  BY SetsFinite, FS_Subset
<1>2. QED
  BY <1>1, SetsFinite, ThreadPoolAssumption DEF CallersAwake, Locked

LEMMA WakeInit == Init => WakeInv
<1> SUFFICES ASSUME Init PROVE WakeInv
  OBVIOUS
<1>1. StartSound /\ WorkersAwake
  BY DEF Init, StartSound, WorkersAwake
<1>2. Asleep(caller) = {}
  BY DEF Init, Asleep
<1>3. QED
  BY <1>1, <1>2 DEF WakeInv, CallersAwake

LEMMA StartNext == ASSUME TypeOK, StartSound, Next PROVE StartSound'
<1> USE DEF TypeOK, StartSound
<1>1. ASSUME NEW w \in Workers, StartThread(w) \/ WorkerStep(w) PROVE StartSound'
  <2>1. CASE StartThread(w) \/ TestRunning(w) \/ WaitNotEmpty(w) \/ TakeNothing(w) \/ RunTask(w)
    BY <2>1 DEF StartThread, TestRunning, WaitNotEmpty, TakeNothing, RunTask
  <2>2. CASE Take(w)
    <3>1. owner # "start"
      BY <2>2 DEF Take
    <3>2. QED
      BY <2>2, <3>1 DEF Take
  <2>3. QED
    BY <1>1, <2>1, <2>2 DEF WorkerStep
<1>2. CASE Stop \/ Join
  BY <1>2 DEF Stop, Join
<1>3. ASSUME NEW c \in Callers, Run(c) \/ CallerStep(c) PROVE StartSound'
  <2>1. CASE Run(c) \/ WaitNotFull(c)
    BY <2>1 DEF Run, WaitNotFull
  <2>2. CASE PushTask(c)
    <3>1. owner # "start" /\ owner' = owner /\ running' = running
      BY <2>2 DEF PushTask
    <3>2. \A w \in Workers : worker'[w] = worker[w] \/ worker'[w] = "lock"
      BY <2>2 DEF PushTask, NotifyNotEmpty, Notify, Asleep
    <3>3. QED
      BY <3>1, <3>2
  <2>3. QED
    BY <1>3, <2>1, <2>2 DEF CallerStep
<1>4. CASE SpuriousWakeup /\ UNCHANGED <<queue, running, task, arg, owner, calls, accepted, done>>
  BY <1>4 DEF SpuriousWakeup, Asleep
<1>5. QED
  BY <1>1, <1>2, <1>3, <1>4 DEF Next

\* The workers, whatever step is made: PushTask wakes one for its task, a worker
\* that takes a task or tests running_ stays awake, and one falls asleep only
\* when there is nothing to do.
LEMMA WorkersNext == ASSUME TypeOK, TypeOK', WakeInv, Next PROVE WorkersAwake'
<1> USE DEF TypeOK, WakeInv
<1>0. Len(queue) \in Nat /\ Len(queue') \in Nat
  BY LenProperties
<1>1. ASSUME NEW w \in Workers, StartThread(w) PROVE WorkersAwake'
  <2>1. owner = "start" /\ queue' = <<>>
    BY <1>1 DEF StartThread, StartSound
  <2>2. QED
    BY <2>1, SetsFinite DEF WorkersAwake
<1>2. ASSUME NEW w \in Workers, TestRunning(w) PROVE WorkersAwake'
  <2>1. CASE running
    <3>1. Asleep(worker') = Asleep(worker) /\ Awake' = Awake
      BY <1>2, <2>1 DEF TestRunning, Asleep, Awake
    <3>2. UNCHANGED <<queue, running, owner>> /\ Len(queue') <= Len(queue)
      BY <1>0, <1>2 DEF TestRunning
    <3>3. QED
      BY <1>0, <3>1, <3>2, WorkersStay
  <2>2. CASE ~running
    BY <1>2, <2>2 DEF TestRunning, WorkersAwake
  <2>3. QED
    BY <2>1, <2>2
<1>3. ASSUME NEW w \in Workers, WaitNotEmpty(w) PROVE WorkersAwake'
  BY <1>3, SetsFinite DEF WaitNotEmpty, WorkersAwake
<1>4. ASSUME NEW w \in Workers, Take(w) PROVE WorkersAwake'
  <2>1. Asleep(worker') = Asleep(worker) /\ Awake' = Awake
    BY <1>4 DEF Take, Asleep, Awake
  <2>2. Len(queue') <= Len(queue)
    BY <1>0, <1>4, HeadTailProperties DEF Take
  <2>3. QED
    BY <1>0, <1>4, <2>1, <2>2, WorkersStay DEF Take
<1>5. ASSUME NEW w \in Workers, TakeNothing(w) \/ RunTask(w) PROVE WorkersAwake'
  <2>1. Asleep(worker') = Asleep(worker) /\ Awake' = Awake
    BY <1>5 DEF TakeNothing, RunTask, Asleep, Awake
  <2>2. QED
    BY <1>0, <1>5, <2>1, WorkersStay DEF TakeNothing, RunTask
<1>6. CASE Stop
  BY <1>6 DEF Stop, WorkersAwake
<1>7. CASE Join
  BY <1>0, <1>7, WorkersStay DEF Join, Awake
<1>8. ASSUME NEW c \in Callers, Run(c) \/ WaitNotFull(c) PROVE WorkersAwake'
  BY <1>0, <1>8, WorkersStay DEF Run, WaitNotFull, Awake
<1>9. ASSUME NEW c \in Callers, PushTask(c) PROVE WorkersAwake'
  <2>1. Len(queue') = Len(queue) + 1
    BY <1>9, AppendProperties DEF PushTask
  <2>2. Asleep(worker') = {} \/ Cardinality(Awake') = Cardinality(Awake) + 1
    BY <1>9, NotifyAwake DEF PushTask, NotifyNotEmpty
  <2>3. Asleep(worker) = {} => Asleep(worker') = {}
    BY <1>9 DEF PushTask, NotifyNotEmpty, Notify
  <2>4. UNCHANGED <<running, owner>>
    BY <1>9 DEF PushTask
  <2>5. QED
    BY <1>0, <2>1, <2>2, <2>3, <2>4, SetsFinite DEF WorkersAwake
<1>10. CASE SpuriousWakeup /\ UNCHANGED <<queue, running, task, arg, owner, calls, accepted, done>>
  <2>1. Asleep(worker') \subseteq Asleep(worker) /\ Awake \subseteq Awake'
    BY <1>10 DEF SpuriousWakeup, Asleep, Awake
  <2>2. QED
    BY <1>0, <1>10, <2>1, WorkersStay
<1>11. QED
  BY <1>1, <1>2, <1>3, <1>4, <1>5, <1>6, <1>7, <1>8, <1>9, <1>10 DEF Next, WorkerStep, CallerStep

\* The callers: a place that Take frees is announced to one of them, one that
\* takes a place is not counted any more, and one falls asleep only when the
\* queue is full.
LEMMA CallersNext == ASSUME TypeOK, TypeOK', WakeInv, LimitKept, Next PROVE CallersAwake'
<1> USE DEF TypeOK, WakeInv
<1>0. Len(queue) \in Nat /\ Len(queue') \in Nat
  BY LenProperties
<1>1. ASSUME NEW w \in Workers,
             StartThread(w) \/ TestRunning(w) \/ WaitNotEmpty(w) \/ TakeNothing(w) \/ RunTask(w)
      PROVE  CallersAwake'
  BY <1>0, <1>1, CallersStay
  DEF StartThread, TestRunning, WaitNotEmpty, TakeNothing, RunTask, Locked
<1>2. ASSUME NEW w \in Workers, Take(w) PROVE CallersAwake'
  <2>1. Len(queue') = Len(queue) - 1
    BY <1>2, HeadTailProperties DEF Take
  <2>2. CASE MaxQueueSize > 0
    <3>1. Asleep(caller') = {} \/ Cardinality(Locked') = Cardinality(Locked) + 1
      BY <1>2, <2>2, NotifyLocked DEF Take, NotifyNotFull
    <3>2. Asleep(caller) = {} => Asleep(caller') = {}
      BY <1>2, <2>2 DEF Take, NotifyNotFull, Notify
    <3>3. QED
      BY <1>0, <2>1, <3>1, <3>2, SetsFinite, ThreadPoolAssumption DEF CallersAwake, Locked
  <2>3. CASE MaxQueueSize = 0
    <3>1. 0 - Len(queue') <= Cardinality(Locked')
      BY <1>0, SetsFinite
    <3>2. QED
      BY <2>3, <3>1 DEF CallersAwake, Locked
  <2>4. QED
    BY <2>2, <2>3, ThreadPoolAssumption
<1>3. CASE Stop \/ Join
  BY <1>0, <1>3, CallersStay DEF Stop, Join, Locked
<1>4. ASSUME NEW c \in Callers, Run(c) PROVE CallersAwake'
  <2>1. Asleep(caller') = Asleep(caller) /\ Locked \subseteq Locked'
    BY <1>4 DEF Run, Asleep, Locked
  <2>2. Len(queue') >= Len(queue)
    BY <1>0, <1>4 DEF Run
  <2>3. QED
    BY <1>0, <2>1, <2>2, CallersStay
<1>5. ASSUME NEW c \in Callers, WaitNotFull(c) PROVE CallersAwake'
  <2>1. MaxQueueSize - Len(queue') <= 0
    BY <1>0, <1>5, ThreadPoolAssumption DEF WaitNotFull, isFull
  <2>2. QED
    BY <1>0, <2>1, SetsFinite, ThreadPoolAssumption DEF CallersAwake, Locked
<1>6. ASSUME NEW c \in Callers, PushTask(c) PROVE CallersAwake'
  <2>1. Len(queue') = Len(queue) + 1
    BY <1>6, AppendProperties DEF PushTask
  <2>2. Asleep(caller') = Asleep(caller)
    BY <1>6 DEF PushTask, Asleep
  <2>3. Locked' = Locked \ {c} /\ c \in Locked
    BY <1>6 DEF PushTask, Locked
  <2>4. Cardinality(Locked') = Cardinality(Locked) - 1
    BY <2>3, SetsFinite, FS_RemoveElement
  <2>5. QED
    BY <1>0, <2>1, <2>2, <2>4, SetsFinite, ThreadPoolAssumption DEF CallersAwake, Locked
<1>7. CASE SpuriousWakeup /\ UNCHANGED <<queue, running, task, arg, owner, calls, accepted, done>>
  <2>1. Asleep(caller') \subseteq Asleep(caller) /\ Locked \subseteq Locked'
    BY <1>7 DEF SpuriousWakeup, Asleep, Locked
  <2>2. QED
    BY <1>0, <1>7, <2>1, CallersStay
<1>8. QED
  BY <1>1, <1>2, <1>3, <1>4, <1>5, <1>6, <1>7 DEF Next, WorkerStep, CallerStep

LEMMA WakeNext == IInv /\ IInv' /\ WakeInv /\ [Next]_vars => WakeInv'
<1> SUFFICES ASSUME IInv, IInv', WakeInv, [Next]_vars PROVE WakeInv'
  OBVIOUS
<1>1. CASE Next
  BY <1>1, StartNext, WorkersNext, CallersNext DEF IInv, WakeInv
<1>2. CASE UNCHANGED vars
  <2>1. Awake' = Awake /\ Locked' = Locked
    BY <1>2 DEF vars, Awake, Locked
  <2>2. QED
    BY <1>2, <2>1 DEF vars, WakeInv, StartSound, WorkersAwake, CallersAwake, Locked
<1>3. QED
  BY <1>1, <1>2

\* For any number of workers and callers and any limit, with one notification
\* per task queued and per task taken: there are workers awake for all the
\* tasks of the queue, or none of them sleeps, and while a caller sleeps every
\* free place has a caller that is awake to take it (ThreadPool.cc:65-126).
THEOREM WakeupsSuffice == Spec => []NobodyOversleeps
<1>1. WakeInv => NobodyOversleeps
  BY DEF WakeInv, NobodyOversleeps
<1>2. QED
  BY <1>1, InvInit, InvNext, WakeInit, WakeNext, PTL DEF Spec
-----------------------------------------------------------------------------
(* EventLoopThreadPool *)

CONSTANTS NumThreads, MaxCalls, LoopsMayQuit
VARIABLES thread, loop_, quit, wakeupFd, starter, atRest, cur, loops, next, given

LoopPool == INSTANCE EventLoopThreadPool WITH owner <- starter

Started == 1..Len(loops)
Starting == {"start", "lock", "wait", "return"}

\* What the owner has done and which thread it is busy with
OwnerPlaced ==
    /\ IF starter \in Starting
       THEN cur \in LoopPool!Threads /\ Len(loops) = cur - 1
       ELSE Len(loops) = NumThreads
    /\ starter = "serve" => cur = 1
    /\ starter \in {"destroy", "quit", "wakeup", "join"} => cur \in LoopPool!Threads
    /\ \A i \in Started : loops[i] = i

\* A thread has its loop published while it runs it, and leaves it only when told;
\* nobody tells one whose loop startLoop() has not returned yet.
ThreadsPlaced ==
    /\ \A i \in LoopPool!Threads :
          /\ loop_[i] <=> thread[i] \in {"enter", "while", "poll", "left"}
          /\ thread[i] \in {"left", "cleared", "finished"} => quit[i]
          /\ i \in Started => thread[i] \notin {"unstarted", "init"}
          /\ i \notin Started => ~quit[i]
          /\ i \notin Started /\ (starter = "start" \/ i # cur) => thread[i] = "unstarted"
    /\ starter = "return" => loop_[cur]

\* The loops before next_ have been given out once more than the others.
Dealt ==
    /\ \A i, j \in LoopPool!Threads : (i <= next <=> j <= next) => given[i] = given[j]
    /\ \A i, j \in LoopPool!Threads : i <= next /\ next < j => given[i] = given[j] + 1

PoolInv == LoopPool!TypeOK /\ OwnerPlaced /\ ThreadsPlaced /\ Dealt

LEMMA PoolInit ==
    ASSUME NumThreads \in Nat, MaxCalls \in Nat, LoopPool!Init
    PROVE  PoolInv
<1>1. LoopPool!TypeOK
  BY EmptySeq DEF LoopPool!Init, LoopPool!TypeOK, LoopPool!Threads, LoopPool!ThreadPCs,
                  LoopPool!OwnerPCs, LoopPool!NULL
<1>2. OwnerPlaced
  BY EmptySeq DEF LoopPool!Init, OwnerPlaced, LoopPool!Threads, Starting, Started
<1>3. ThreadsPlaced
  BY EmptySeq DEF LoopPool!Init, ThreadsPlaced, LoopPool!Threads, Started
<1>4. Dealt
  BY DEF LoopPool!Init, Dealt, LoopPool!Threads
<1>5. QED
  BY <1>1, <1>2, <1>3, <1>4 DEF PoolInv

LEMMA PoolNext ==
    ASSUME NumThreads \in Nat, MaxCalls \in Nat, PoolInv, LoopPool!Next
    PROVE  PoolInv'
<1> USE DEF LoopPool!threadVars, LoopPool!dealVars
<1>1. /\ LoopPool!TypeOK /\ OwnerPlaced /\ ThreadsPlaced /\ Dealt
      /\ Len(loops) \in Nat /\ LoopPool!Threads = 1..NumThreads
  BY LenProperties DEF PoolInv, LoopPool!TypeOK, LoopPool!Threads
<1>2. ASSUME NEW i \in LoopPool!Threads, LoopPool!Publish(i) PROVE PoolInv'
  <2>1. LoopPool!TypeOK'
    BY <1>1, <1>2 DEF LoopPool!Publish, LoopPool!TypeOK, LoopPool!ThreadPCs, LoopPool!OwnerPCs
  <2>2. OwnerPlaced'
    BY <1>1, <1>2 DEF LoopPool!Publish, OwnerPlaced, Starting, Started, LoopPool!Threads
  <2>3. ThreadsPlaced'
    BY <1>1, <1>2 DEF LoopPool!Publish, ThreadsPlaced, OwnerPlaced, Started, Starting,
         LoopPool!TypeOK
  <2>4. Dealt'
    BY <1>1, <1>2 DEF LoopPool!Publish, Dealt
  <2>5. QED
    BY <2>1, <2>2, <2>3, <2>4 DEF PoolInv
<1>3. ASSUME NEW i \in LoopPool!Threads, LoopPool!Enter(i) PROVE PoolInv'
  <2>1. LoopPool!TypeOK'
    BY <1>1, <1>3 DEF LoopPool!Enter, LoopPool!TypeOK, LoopPool!ThreadPCs, LoopPool!OwnerPCs
  <2>2. OwnerPlaced'
    BY <1>1, <1>3 DEF LoopPool!Enter, OwnerPlaced, Starting, Started, LoopPool!Threads
  <2>3. ThreadsPlaced'
    BY <1>1, <1>3 DEF LoopPool!Enter, ThreadsPlaced, OwnerPlaced, Started, Starting,
         LoopPool!TypeOK
  <2>4. Dealt'
    BY <1>1, <1>3 DEF LoopPool!Enter, Dealt
  <2>5. QED
    BY <2>1, <2>2, <2>3, <2>4 DEF PoolInv
<1>4. ASSUME NEW i \in LoopPool!Threads, LoopPool!TestQuit(i) PROVE PoolInv'
  <2>1. LoopPool!TypeOK'
    BY <1>1, <1>4 DEF LoopPool!TestQuit, LoopPool!TypeOK, LoopPool!ThreadPCs, LoopPool!OwnerPCs
  <2>2. OwnerPlaced'
    BY <1>1, <1>4 DEF LoopPool!TestQuit, OwnerPlaced, Starting, Started, LoopPool!Threads
  <2>3. ThreadsPlaced'
    BY <1>1, <1>4 DEF LoopPool!TestQuit, ThreadsPlaced, OwnerPlaced, Started, Starting,
         LoopPool!TypeOK
  <2>4. Dealt'
    BY <1>1, <1>4 DEF LoopPool!TestQuit, Dealt
  <2>5. QED
    BY <2>1, <2>2, <2>3, <2>4 DEF PoolInv
<1>5. ASSUME NEW i \in LoopPool!Threads, LoopPool!WokenUp(i) PROVE PoolInv'
  <2>1. LoopPool!TypeOK'
    BY <1>1, <1>5 DEF LoopPool!WokenUp, LoopPool!TypeOK, LoopPool!ThreadPCs, LoopPool!OwnerPCs
  <2>2. OwnerPlaced'
    BY <1>1, <1>5 DEF LoopPool!WokenUp, OwnerPlaced, Starting, Started, LoopPool!Threads
  <2>3. ThreadsPlaced'
    BY <1>1, <1>5 DEF LoopPool!WokenUp, ThreadsPlaced, OwnerPlaced, Started, Starting,
         LoopPool!TypeOK
  <2>4. Dealt'
    BY <1>1, <1>5 DEF LoopPool!WokenUp, Dealt
  <2>5. QED
    BY <2>1, <2>2, <2>3, <2>4 DEF PoolInv
<1>6. ASSUME NEW i \in LoopPool!Threads, LoopPool!HandleEvents(i) PROVE PoolInv'
  <2>1. LoopPool!TypeOK'
    BY <1>1, <1>6 DEF LoopPool!HandleEvents, LoopPool!TypeOK, LoopPool!ThreadPCs, LoopPool!OwnerPCs
  <2>2. OwnerPlaced'
    BY <1>1, <1>6 DEF LoopPool!HandleEvents, OwnerPlaced, Starting, Started, LoopPool!Threads
  <2>3. ThreadsPlaced'
    BY <1>1, <1>6 DEF LoopPool!HandleEvents, ThreadsPlaced, OwnerPlaced, Started, Starting,
         LoopPool!TypeOK
  <2>4. Dealt'
    BY <1>1, <1>6 DEF LoopPool!HandleEvents, Dealt
  <2>5. QED
    BY <2>1, <2>2, <2>3, <2>4 DEF PoolInv
<1>7. ASSUME NEW i \in LoopPool!Threads, LoopPool!Clear(i) PROVE PoolInv'
  <2>1. LoopPool!TypeOK'
    BY <1>1, <1>7 DEF LoopPool!Clear, LoopPool!TypeOK, LoopPool!ThreadPCs, LoopPool!OwnerPCs
  <2>2. OwnerPlaced'
    BY <1>1, <1>7 DEF LoopPool!Clear, OwnerPlaced, Starting, Started, LoopPool!Threads
  <2>3. ThreadsPlaced'
    BY <1>1, <1>7 DEF LoopPool!Clear, ThreadsPlaced, OwnerPlaced, Started, Starting,
         LoopPool!TypeOK
  <2>4. Dealt'
    BY <1>1, <1>7 DEF LoopPool!Clear, Dealt
  <2>5. QED
    BY <2>1, <2>2, <2>3, <2>4 DEF PoolInv
<1>8. ASSUME NEW i \in LoopPool!Threads, LoopPool!Finish(i) PROVE PoolInv'
  <2>1. LoopPool!TypeOK'
    BY <1>1, <1>8 DEF LoopPool!Finish, LoopPool!TypeOK, LoopPool!ThreadPCs, LoopPool!OwnerPCs
  <2>2. OwnerPlaced'
    BY <1>1, <1>8 DEF LoopPool!Finish, OwnerPlaced, Starting, Started, LoopPool!Threads
  <2>3. ThreadsPlaced'
    BY <1>1, <1>8 DEF LoopPool!Finish, ThreadsPlaced, OwnerPlaced, Started, Starting,
         LoopPool!TypeOK
  <2>4. Dealt'
    BY <1>1, <1>8 DEF LoopPool!Finish, Dealt
  <2>5. QED
    BY <2>1, <2>2, <2>3, <2>4 DEF PoolInv
<1>9. CASE LoopPool!StartThread
  <2>1. LoopPool!TypeOK'
    BY <1>1, <1>9 DEF LoopPool!StartThread, LoopPool!TypeOK, LoopPool!ThreadPCs, LoopPool!OwnerPCs
  <2>2. OwnerPlaced'
    BY <1>1, <1>9 DEF LoopPool!StartThread, OwnerPlaced, Starting, Started, LoopPool!Threads
  <2>3. ThreadsPlaced'
    <3>1. /\ starter = "start" /\ starter' = "lock" /\ cur \in LoopPool!Threads
          /\ cur \notin Started /\ thread[cur] = "unstarted"
      BY <1>1, <1>9 DEF LoopPool!StartThread, ThreadsPlaced, OwnerPlaced, Started, Starting
    <3>2. /\ thread'[cur] = "init" /\ \A j \in LoopPool!Threads : j # cur => thread'[j] = thread[j]
          /\ UNCHANGED <<loop_, quit, cur, loops>> /\ Started' = Started
      BY <1>1, <1>9, <3>1 DEF LoopPool!StartThread, LoopPool!TypeOK, Started
    <3>3. QED
      BY <1>1, <3>1, <3>2 DEF ThreadsPlaced
  <2>4. Dealt'
    BY <1>1, <1>9 DEF LoopPool!StartThread, Dealt
  <2>5. QED
    BY <2>1, <2>2, <2>3, <2>4 DEF PoolInv
<1>10. CASE LoopPool!TestPublished
  <2>1. LoopPool!TypeOK'
    BY <1>1, <1>10 DEF LoopPool!TestPublished, LoopPool!TypeOK, LoopPool!ThreadPCs, LoopPool!OwnerPCs
  <2>2. OwnerPlaced'
    BY <1>1, <1>10 DEF LoopPool!TestPublished, OwnerPlaced, Starting, Started, LoopPool!Threads
  <2>3. ThreadsPlaced'
    BY <1>1, <1>10 DEF LoopPool!TestPublished, ThreadsPlaced, OwnerPlaced, Started, Starting,
         LoopPool!TypeOK
  <2>4. Dealt'
    BY <1>1, <1>10 DEF LoopPool!TestPublished, Dealt
  <2>5. QED
    BY <2>1, <2>2, <2>3, <2>4 DEF PoolInv
<1>11. CASE LoopPool!SpuriousWakeup
  <2>1. LoopPool!TypeOK'
    BY <1>1, <1>11 DEF LoopPool!SpuriousWakeup, LoopPool!TypeOK, LoopPool!ThreadPCs, LoopPool!OwnerPCs
  <2>2. OwnerPlaced'
    BY <1>1, <1>11 DEF LoopPool!SpuriousWakeup, OwnerPlaced, Starting, Started, LoopPool!Threads
  <2>3. ThreadsPlaced'
    BY <1>1, <1>11 DEF LoopPool!SpuriousWakeup, ThreadsPlaced, OwnerPlaced, Started, Starting,
         LoopPool!TypeOK
  <2>4. Dealt'
    BY <1>1, <1>11 DEF LoopPool!SpuriousWakeup, Dealt
  <2>5. QED
    BY <2>1, <2>2, <2>3, <2>4 DEF PoolInv
<1>12. CASE LoopPool!ReturnLoop
  <2>1. /\ starter = "return" /\ loop_[cur] /\ cur \in 1..NumThreads /\ Len(loops) = cur - 1
        /\ thread[cur] \notin {"unstarted", "init"}
    BY <1>1, <1>12 DEF LoopPool!ReturnLoop, ThreadsPlaced, OwnerPlaced, Starting
  <2>2. /\ loops' = Append(loops, cur) /\ loops \in Seq(LoopPool!Threads \cup {LoopPool!NULL})
        /\ cur \in LoopPool!Threads \cup {LoopPool!NULL}
    BY <1>1, <1>12, <2>1 DEF LoopPool!ReturnLoop, LoopPool!TypeOK
  <2>3. /\ loops' \in Seq(LoopPool!Threads \cup {LoopPool!NULL})
        /\ Len(loops') = cur /\ loops'[cur] = cur
        /\ \A i \in 1..Len(loops) : loops'[i] = loops[i]
    BY <1>1, <2>1, <2>2, AppendProperties
  <2>4. UNCHANGED <<thread, loop_, quit, wakeupFd, atRest, next, given>>
    BY <1>12 DEF LoopPool!ReturnLoop
  <2>5. \/ cur = NumThreads /\ cur' = 1 /\ starter' = "serve"
        \/ cur < NumThreads /\ cur' = cur + 1 /\ starter' = "start"
    BY <1>12, <2>1 DEF LoopPool!ReturnLoop
  <2>6. LoopPool!TypeOK'
    BY <1>1, <2>1, <2>3, <2>4, <2>5 DEF LoopPool!TypeOK, LoopPool!OwnerPCs
  <2>7. Started' = Started \cup {cur} /\ cur \notin Started
    BY <1>1, <2>1, <2>3 DEF Started
  <2>8. OwnerPlaced'
    BY <1>1, <2>1, <2>3, <2>5, <2>7 DEF OwnerPlaced, Starting, Started, LoopPool!Threads
  <2>9. ThreadsPlaced'
    <3>1. \A i \in 1..NumThreads : i \notin Started' => i \notin Started /\ i # cur
      BY <2>7
    <3>2. QED
      BY <1>1, <2>1, <2>4, <2>5, <2>7, <3>1 DEF ThreadsPlaced, LoopPool!Threads
  <2>10. Dealt'
    BY <1>1, <2>4 DEF Dealt, LoopPool!Threads
  <2>11. QED
    BY <2>6, <2>8, <2>9, <2>10 DEF PoolInv
<1>13. CASE LoopPool!CallsLeft /\ LoopPool!GetNextLoop
  <2>1. /\ starter = "serve" /\ Len(loops) = NumThreads /\ UNCHANGED <<thread, loop_, quit, wakeupFd, starter, atRest, cur, loops>>
        /\ given \in [0..NumThreads -> 0..MaxCalls] /\ \A i \in 0..NumThreads : given[i] < MaxCalls
        /\ next \in Nat /\ (next < NumThreads \/ next = 0)
    BY <1>1, <1>13 DEF LoopPool!GetNextLoop, LoopPool!CallsLeft, OwnerPlaced, Starting, LoopPool!TypeOK
  <2>2. OwnerPlaced' /\ ThreadsPlaced'
    BY <1>1, <2>1 DEF OwnerPlaced, ThreadsPlaced, Starting, Started, LoopPool!Threads
  <2>3. CASE NumThreads = 0
    <3>1. loops = <<>>
      BY <2>1, <2>3, EmptySeq DEF LoopPool!TypeOK
    <3>2. given' = [given EXCEPT ![0] = @ + 1] /\ next' = next
      BY <1>13, <3>1 DEF LoopPool!GetNextLoop
    <3>3. given' \in [0..NumThreads -> 0..MaxCalls] /\ LoopPool!Threads = {}
      BY <1>1, <2>1, <2>3, <3>2
    <3>4. LoopPool!TypeOK' /\ Dealt'
      BY <1>1, <2>1, <3>2, <3>3 DEF LoopPool!TypeOK, Dealt
    <3>5. QED
      BY <2>2, <3>4 DEF PoolInv
  <2>4. CASE NumThreads # 0
    <3>1. loops # <<>> /\ next + 1 \in 1..NumThreads /\ loops[next + 1] = next + 1
      BY <1>1, <2>1, <2>4, EmptySeq DEF OwnerPlaced, Started
    <3>2. /\ given' = [given EXCEPT ![next + 1] = @ + 1]
          /\ next' = IF next + 1 >= NumThreads THEN 0 ELSE next + 1
      BY <1>13, <2>1, <3>1 DEF LoopPool!GetNextLoop, LoopPool!NextAfter
    <3>3. /\ given' \in [0..NumThreads -> 0..MaxCalls]
          /\ given'[next + 1] = given[next + 1] + 1
          /\ \A i \in 1..NumThreads : given[i] \in Nat /\ (i # next + 1 => given'[i] = given[i])
      <4>1. next + 1 \in 0..NumThreads /\ given[next + 1] \in 0..MaxCalls /\ given[next + 1] < MaxCalls
        BY <2>1, <3>1
      <4>2. given[next + 1] + 1 \in 0..MaxCalls
        BY <4>1, MaxCalls \in Nat
      <4>3. \A i \in 1..NumThreads : given[i] \in Nat
        BY <2>1
      <4>4. given' \in [0..NumThreads -> 0..MaxCalls]
        BY <2>1, <3>2, <4>2
      <4>5. given'[next + 1] = given[next + 1] + 1
        BY <2>1, <3>2, <4>1
      <4>6. \A i \in 1..NumThreads : i # next + 1 => given'[i] = given[i]
        BY <2>1, <3>2
      <4>7. QED
        BY <4>3, <4>4, <4>5, <4>6
    <3>4. next' \in Nat /\ next' < NumThreads
      BY <1>1, <2>1, <2>4, <3>2
    <3>5. LoopPool!TypeOK'
      BY <1>1, <2>1, <3>3, <3>4 DEF LoopPool!TypeOK
    <3>6. Dealt'
      <4>1. CASE next + 1 < NumThreads
        <5>1. next' = next + 1
          BY <1>1, <2>1, <3>2, <4>1
        <5>2. QED
          <6>1. ASSUME NEW i \in 1..NumThreads, NEW j \in 1..NumThreads
                PROVE  /\ (i <= next + 1 <=> j <= next + 1) => given'[i] = given'[j]
                       /\ i <= next + 1 /\ next + 1 < j => given'[i] = given'[j] + 1
            <7>1. /\ (i <= next <=> j <= next) => given[i] = given[j]
                  /\ i <= next /\ next < j => given[i] = given[j] + 1
                  /\ j <= next /\ next < i => given[j] = given[i] + 1
              BY <1>1 DEF Dealt
            <7>2. /\ i <= next => given[i] = given[next + 1] + 1
                  /\ j <= next => given[j] = given[next + 1] + 1
              BY <1>1, <2>1, <3>1 DEF Dealt
            <7>3. \A k \in 1..NumThreads : /\ given[k] \in Nat /\ k \in Nat
                                          /\ given'[k] = IF k = next + 1 THEN given[k] + 1 ELSE given[k]
              BY <3>3
            <7>4. (i <= next + 1 <=> j <= next + 1) => given'[i] = given'[j]
              BY <2>1, <3>1, <7>1, <7>2, <7>3
            <7>5. i <= next + 1 /\ next + 1 < j => given'[i] = given'[j] + 1
              BY <2>1, <3>1, <7>1, <7>2, <7>3
            <7>6. QED
              BY <7>4, <7>5
          <6>2. QED
            BY <1>1, <5>1, <6>1 DEF Dealt, LoopPool!Threads
      <4>2. CASE next + 1 = NumThreads
        <5>1. next' = 0
          BY <1>1, <2>1, <3>2, <4>2
        <5>2. QED
          BY <1>1, <2>1, <3>1, <3>3, <4>2, <5>1, SMTT(60) DEF Dealt
      <4>3. QED
        BY <3>1, <4>1, <4>2, <2>1
    <3>7. QED
      BY <2>2, <3>5, <3>6 DEF PoolInv
  <2>5. QED
    BY <2>3, <2>4
<1>14. CASE LoopPool!BeginDestroy
  <2>1. LoopPool!TypeOK'
    BY <1>1, <1>14 DEF LoopPool!BeginDestroy, LoopPool!TypeOK, LoopPool!ThreadPCs, LoopPool!OwnerPCs
  <2>2. OwnerPlaced'
    BY <1>1, <1>14 DEF LoopPool!BeginDestroy, OwnerPlaced, Starting, Started, LoopPool!Threads
  <2>3. ThreadsPlaced'
    BY <1>1, <1>14 DEF LoopPool!BeginDestroy, ThreadsPlaced, OwnerPlaced, Started, Starting,
         LoopPool!TypeOK
  <2>4. Dealt'
    BY <1>1, <1>14 DEF LoopPool!BeginDestroy, Dealt
  <2>5. QED
    BY <2>1, <2>2, <2>3, <2>4 DEF PoolInv
<1>15. CASE LoopPool!TestLoop
  <2>1. LoopPool!TypeOK'
    BY <1>1, <1>15 DEF LoopPool!TestLoop, LoopPool!TypeOK, LoopPool!ThreadPCs, LoopPool!OwnerPCs, LoopPool!NextThread,
         OwnerPlaced, LoopPool!Threads
  <2>2. OwnerPlaced'
    BY <1>1, <1>15 DEF LoopPool!TestLoop, OwnerPlaced, Starting, Started, LoopPool!Threads, LoopPool!NextThread
  <2>3. ThreadsPlaced'
    BY <1>1, <1>15 DEF LoopPool!TestLoop, ThreadsPlaced, OwnerPlaced, Started, Starting,
         LoopPool!TypeOK, LoopPool!NextThread
  <2>4. Dealt'
    BY <1>1, <1>15 DEF LoopPool!TestLoop, Dealt
  <2>5. QED
    BY <2>1, <2>2, <2>3, <2>4 DEF PoolInv
<1>16. CASE LoopPool!QuitLoop
  <2>1. LoopPool!TypeOK'
    BY <1>1, <1>16 DEF LoopPool!QuitLoop, LoopPool!TypeOK, LoopPool!ThreadPCs, LoopPool!OwnerPCs
  <2>2. OwnerPlaced'
    BY <1>1, <1>16 DEF LoopPool!QuitLoop, OwnerPlaced, Starting, Started, LoopPool!Threads
  <2>3. ThreadsPlaced'
    BY <1>1, <1>16 DEF LoopPool!QuitLoop, ThreadsPlaced, OwnerPlaced, Started, Starting,
         LoopPool!TypeOK
  <2>4. Dealt'
    BY <1>1, <1>16 DEF LoopPool!QuitLoop, Dealt
  <2>5. QED
    BY <2>1, <2>2, <2>3, <2>4 DEF PoolInv
<1>17. CASE LoopPool!WakeupLoop
  <2>1. LoopPool!TypeOK'
    <3>1. LoopPool!Exists(cur) \in BOOLEAN
      BY DEF LoopPool!Exists
    <3>2. wakeupFd' \in [LoopPool!Threads -> BOOLEAN]
      BY <1>1, <1>17, <3>1 DEF LoopPool!WakeupLoop, LoopPool!TypeOK
    <3>3. QED
      BY <1>1, <1>17, <3>2 DEF LoopPool!WakeupLoop, LoopPool!TypeOK, LoopPool!OwnerPCs
  <2>2. OwnerPlaced'
    BY <1>1, <1>17 DEF LoopPool!WakeupLoop, OwnerPlaced, Starting, Started, LoopPool!Threads
  <2>3. ThreadsPlaced'
    BY <1>1, <1>17 DEF LoopPool!WakeupLoop, ThreadsPlaced, OwnerPlaced, Started, Starting,
         LoopPool!TypeOK
  <2>4. Dealt'
    BY <1>1, <1>17 DEF LoopPool!WakeupLoop, Dealt
  <2>5. QED
    BY <2>1, <2>2, <2>3, <2>4 DEF PoolInv
<1>18. CASE LoopPool!Join
  <2>1. LoopPool!TypeOK'
    BY <1>1, <1>18 DEF LoopPool!Join, LoopPool!TypeOK, LoopPool!ThreadPCs, LoopPool!OwnerPCs, LoopPool!NextThread,
         OwnerPlaced, LoopPool!Threads
  <2>2. OwnerPlaced'
    BY <1>1, <1>18 DEF LoopPool!Join, OwnerPlaced, Starting, Started, LoopPool!Threads, LoopPool!NextThread
  <2>3. ThreadsPlaced'
    BY <1>1, <1>18 DEF LoopPool!Join, ThreadsPlaced, OwnerPlaced, Started, Starting,
         LoopPool!TypeOK, LoopPool!NextThread
  <2>4. Dealt'
    BY <1>1, <1>18 DEF LoopPool!Join, Dealt
  <2>5. QED
    BY <2>1, <2>2, <2>3, <2>4 DEF PoolInv
<1>19. QED
  BY <1>2, <1>3, <1>4, <1>5, <1>6, <1>7, <1>8, <1>9, <1>10, <1>11, <1>12, <1>13, <1>14, <1>15, <1>16, <1>17, <1>18
  DEF LoopPool!Next, LoopPool!ThreadStep, LoopPool!OwnerStep

\* The threads the destructor has not told to quit yet.
Ahead(i) == i > cur \/ (i = cur /\ starter # "join")

Destroying == {"destroy", "quit", "wakeup", "join"}

\* Until the destructor comes to a loop that rests nothing wakes it up.
RestInv ==
    /\ \A i \in LoopPool!Threads :
          starter \in Starting \cup {"serve"} \/ (starter \in Destroying /\ Ahead(i))
              => ~wakeupFd[i]
    /\ atRest /\ starter \in Destroying =>
          \A i \in LoopPool!Threads : Ahead(i) => LoopPool!Resting(i)
    /\ atRest /\ starter \in {"quit", "wakeup"} => thread[cur] = "poll"
    /\ starter = "crashed" => ~atRest

LEMMA RestInit == LoopPool!Init => RestInv
BY DEF LoopPool!Init, RestInv, Destroying

LEMMA RestNext ==
    ASSUME NumThreads \in Nat, PoolInv, RestInv, LoopPool!Next
    PROVE  RestInv'
<1> USE DEF LoopPool!threadVars, LoopPool!dealVars, Destroying, Starting
<1>1. /\ LoopPool!Threads \subseteq Nat
      /\ thread \in [LoopPool!Threads -> LoopPool!ThreadPCs]
      /\ wakeupFd \in [LoopPool!Threads -> BOOLEAN]
      /\ cur \in Nat
      /\ starter \in Destroying => cur \in LoopPool!Threads
      /\ \A i \in LoopPool!Threads : loop_[i] <=> thread[i] \in {"enter", "while", "poll", "left"}
  BY DEF PoolInv, LoopPool!TypeOK, OwnerPlaced, ThreadsPlaced, LoopPool!Threads
<1>2. ASSUME NEW i \in LoopPool!Threads, LoopPool!ThreadStep(i) PROVE RestInv'
  <2>1. /\ UNCHANGED <<atRest, cur>>
        /\ \/ UNCHANGED starter
           \/ starter = "wait" /\ starter' = "lock"
        /\ starter # "crashed"
    BY <1>2 DEF LoopPool!ThreadStep, LoopPool!Running, LoopPool!Publish, LoopPool!Enter,
                LoopPool!TestQuit, LoopPool!WokenUp, LoopPool!Clear, LoopPool!Finish
  <2>2. \A j \in LoopPool!Threads :
            /\ wakeupFd'[j] => wakeupFd[j]
            /\ j # i => thread'[j] = thread[j]
    BY <1>1, <1>2 DEF LoopPool!ThreadStep, LoopPool!Publish, LoopPool!Enter,
                LoopPool!TestQuit, LoopPool!WokenUp, LoopPool!Clear, LoopPool!Finish
  <2>3. LoopPool!Resting(i) => \/ wakeupFd[i]
                               \/ thread[i] # "poll" /\ thread'[i] = "finished"
    BY <1>1, <1>2 DEF LoopPool!ThreadStep, LoopPool!Publish, LoopPool!Enter, LoopPool!TestQuit,
                LoopPool!WokenUp, LoopPool!Clear, LoopPool!Finish, LoopPool!Resting
  <2>4. \A j \in LoopPool!Threads : Ahead(j)' => Ahead(j) \/ starter \notin Destroying
    BY <2>1 DEF Ahead
  <2>5. ASSUME atRest, starter \in Destroying, NEW j \in LoopPool!Threads, Ahead(j)
        PROVE  LoopPool!Resting(j)' /\ (thread[j] = "poll" => thread'[j] = "poll")
    <3>1. LoopPool!Resting(j) /\ ~wakeupFd[j]
      BY <2>5 DEF RestInv
    <3>2. CASE j = i
      BY <2>3, <3>1, <3>2 DEF LoopPool!Resting
    <3>3. CASE j # i
      <4>1. thread'[j] = thread[j]
        BY <2>2, <3>3
      <4>2. QED
        BY <3>1, <4>1 DEF LoopPool!Resting
    <3>4. QED
      BY <3>2, <3>3
  <2>6. starter \in {"quit", "wakeup"} => Ahead(cur) /\ cur \in LoopPool!Threads
    BY <1>1 DEF Ahead
  <2>7. starter' \in Destroying => starter' = starter
    BY <2>1
  <2>8. \A j \in LoopPool!Threads :
            starter' \in Starting \cup {"serve"} \/ (starter' \in Destroying /\ Ahead(j)')
              => ~wakeupFd'[j]
    <3>1. starter' \in Starting \cup {"serve"} => starter \in Starting \cup {"serve"}
      BY <2>1
    <3>2. QED
      BY <2>2, <2>4, <2>7, <3>1 DEF RestInv
  <2>9. atRest' /\ starter' \in Destroying =>
            \A j \in LoopPool!Threads : Ahead(j)' => LoopPool!Resting(j)'
    BY <2>1, <2>4, <2>5, <2>7
  <2>10. atRest' /\ starter' \in {"quit", "wakeup"} => thread'[cur'] = "poll"
    <3>1. SUFFICES ASSUME atRest, starter \in {"quit", "wakeup"}
                   PROVE  thread'[cur] = "poll"
      BY <2>1, <2>7
    <3>2. thread[cur] = "poll"
      BY <3>1 DEF RestInv
    <3>3. QED
      BY <2>5, <2>6, <3>1, <3>2
  <2>11. starter' # "crashed"
    BY <2>1
  <2>12. QED
    BY <2>8, <2>9, <2>10, <2>11 DEF RestInv
<1>3. ASSUME NEW i \in LoopPool!Threads, LoopPool!HandleEvents(i), LoopPool!Running
      PROVE  RestInv'
  BY <1>3 DEF LoopPool!HandleEvents, LoopPool!Running, RestInv, Ahead
<1>4. CASE \/ LoopPool!StartThread \/ LoopPool!TestPublished \/ LoopPool!SpuriousWakeup
           \/ LoopPool!ReturnLoop \/ LoopPool!GetNextLoop
  <2>1. /\ starter \in Starting \cup {"serve"} /\ starter' \in Starting \cup {"serve"}
        /\ UNCHANGED wakeupFd
    BY <1>4 DEF LoopPool!StartThread, LoopPool!TestPublished, LoopPool!SpuriousWakeup,
                LoopPool!ReturnLoop, LoopPool!GetNextLoop
  <2>2. QED
    BY <2>1 DEF RestInv
<1>5. CASE LoopPool!BeginDestroy
  <2>1. /\ starter = "serve" /\ starter' = "destroy" /\ UNCHANGED <<wakeupFd, thread>>
        /\ atRest' => \A i \in LoopPool!Threads : LoopPool!Resting(i)
    BY <1>5 DEF LoopPool!BeginDestroy
  <2>2. QED
    BY <2>1 DEF RestInv, LoopPool!Resting
<1>6. CASE LoopPool!TestLoop
  <2>1. starter = "destroy" /\ UNCHANGED <<thread, wakeupFd, atRest>>
    BY <1>6 DEF LoopPool!TestLoop
  <2>2. CASE loop_[cur]
    <3>1. starter' = "quit" /\ cur' = cur
      BY <1>6, <2>2 DEF LoopPool!TestLoop
    <3>2. \A i \in LoopPool!Threads : Ahead(i)' <=> Ahead(i)
      BY <2>1, <3>1 DEF Ahead
    <3>3. atRest => thread[cur] = "poll"
      <4>1. Ahead(cur) /\ cur \in LoopPool!Threads
        BY <1>1, <2>1 DEF Ahead
      <4>2. QED
        BY <1>1, <2>1, <2>2, <4>1 DEF RestInv, LoopPool!Resting
    <3>4. QED
      BY <2>1, <3>1, <3>2, <3>3 DEF RestInv, LoopPool!Resting
  <2>3. CASE ~loop_[cur]
    <3>1. starter' \in {"done", "destroy"} /\ cur' = cur + 1
      BY <1>6, <2>3 DEF LoopPool!TestLoop, LoopPool!NextThread
    <3>2. \A i \in LoopPool!Threads : Ahead(i)' => Ahead(i)
      BY <1>1, <2>1, <3>1 DEF Ahead
    <3>3. QED
      BY <2>1, <3>1, <3>2 DEF RestInv, LoopPool!Resting
  <2>4. QED
    BY <2>2, <2>3
<1>7. CASE LoopPool!QuitLoop
  <2>1. /\ starter = "quit" /\ UNCHANGED <<thread, wakeupFd, atRest, cur>>
        /\ starter' = "wakeup" \/ (starter' = "crashed" /\ ~loop_[cur])
    BY <1>7 DEF LoopPool!QuitLoop
  <2>2. atRest => loop_[cur] /\ thread[cur] = "poll"
    BY <1>1, <2>1 DEF RestInv
  <2>3. \A i \in LoopPool!Threads : starter' = "wakeup" => (Ahead(i)' <=> Ahead(i))
    BY <2>1 DEF Ahead
  <2>4. QED
    BY <2>1, <2>2, <2>3 DEF RestInv, LoopPool!Resting
<1>8. CASE LoopPool!WakeupLoop
  <2>1. /\ starter = "wakeup" /\ UNCHANGED <<thread, atRest, cur>>
        /\ \/ starter' = "join" /\ wakeupFd' = [wakeupFd EXCEPT ![cur] = LoopPool!Exists(cur)]
           \/ starter' = "crashed" /\ ~LoopPool!Exists(cur)
    BY <1>8 DEF LoopPool!WakeupLoop
  <2>2. atRest => LoopPool!Exists(cur)
    BY <2>1 DEF RestInv, LoopPool!Exists
  <2>3. CASE starter' = "join"
    <3>1. \A i \in LoopPool!Threads :
              Ahead(i)' => Ahead(i) /\ i # cur /\ wakeupFd'[i] = wakeupFd[i]
      BY <1>1, <2>1, <2>3 DEF Ahead
    <3>2. QED
      BY <2>1, <2>3, <3>1 DEF RestInv, LoopPool!Resting
  <2>4. QED
    BY <2>1, <2>2, <2>3 DEF RestInv
<1>9. CASE LoopPool!Join
  <2>1. /\ starter = "join" /\ UNCHANGED <<thread, wakeupFd, atRest>>
        /\ starter' \in {"done", "destroy"} /\ cur' = cur + 1
    BY <1>9 DEF LoopPool!Join, LoopPool!NextThread
  <2>2. \A i \in LoopPool!Threads : Ahead(i)' => Ahead(i)
    BY <1>1, <2>1 DEF Ahead
  <2>3. QED
    BY <2>1, <2>2 DEF RestInv, LoopPool!Resting
<1>10. QED
  BY <1>2, <1>3, <1>4, <1>5, <1>6, <1>7, <1>8, <1>9 DEF LoopPool!Next, LoopPool!OwnerStep

\* What the invariant says of the loops, of the counts and of a crash
LEMMA PoolInvSound ==
    ASSUME NumThreads \in Nat, PoolInv, RestInv
    PROVE  LoopPool!PoolSound
<1>1. /\ LoopPool!TypeOK /\ OwnerPlaced /\ ThreadsPlaced /\ Dealt
      /\ Len(loops) \in Nat /\ LoopPool!Threads = 1..NumThreads
  BY LenProperties DEF PoolInv, LoopPool!TypeOK, LoopPool!Threads
<1>2. LoopPool!LoopsUsable
  <2>1. Len(loops) <= NumThreads
    BY <1>1 DEF OwnerPlaced
  <2>2. ASSUME NEW i \in 1..Len(loops)
        PROVE  loops[i] = i /\ (thread[i] \in {"enter", "while", "poll"} \/ quit[i])
    <3>1. i \in LoopPool!Threads /\ i \in Started /\ thread[i] \in LoopPool!ThreadPCs
      BY <1>1, <2>1 DEF Started, LoopPool!TypeOK
    <3>2. QED
      BY <1>1, <3>1 DEF OwnerPlaced, ThreadsPlaced, LoopPool!ThreadPCs
  <2>3. QED
    BY <2>2 DEF LoopPool!LoopsUsable
<1>3. LoopPool!Balanced
  <2>1. \A i \in LoopPool!Threads : given[i] \in Nat
    BY <1>1 DEF LoopPool!TypeOK
  <2>2. ASSUME NEW i \in LoopPool!Threads, NEW j \in LoopPool!Threads
        PROVE  given[i] <= given[j] + 1
    <3>1. next \in Nat /\ i \in Nat /\ j \in Nat
      BY <1>1 DEF LoopPool!TypeOK
    <3>2. \/ (i <= next <=> j <= next) \/ (i <= next /\ next < j) \/ (j <= next /\ next < i)
      BY <3>1
    <3>3. \/ given[i] = given[j] \/ given[i] = given[j] + 1 \/ given[j] = given[i] + 1
      BY <1>1, <3>2 DEF Dealt
    <3>4. QED
      BY <2>1, <3>3
  <2>3. QED
    BY <2>2 DEF LoopPool!Balanced
<1>4. QED
  BY <1>1, <1>2, <1>3 DEF LoopPool!PoolSound, LoopPool!CrashesInRacesOnly, RestInv

\* Every loop that startLoop() returned is that of its thread and takes functors
\* until it is told to quit, getNextLoop() deals them out evenly, and the pool
\* crashes in its destructor only if its loops do something meanwhile: for any
\* number of threads and calls, also when the loops quit by themselves or the
\* pool dies while a thread is still getting into its loop
\* (EventLoopThread.cc:29-55, EventLoopThreadPool.cc:52-69).
THEOREM LoopPoolCorrect ==
    ASSUME NumThreads \in Nat, MaxCalls \in Nat
    PROVE  LoopPool!Spec => []LoopPool!PoolSound
<1>1. LoopPool!Init => PoolInv /\ RestInv
  BY PoolInit, RestInit
<1>2. PoolInv /\ RestInv /\ [LoopPool!Next]_(LoopPool!vars) => PoolInv' /\ RestInv'
  <2>1. CASE LoopPool!Next
    BY <2>1, PoolNext, RestNext
  <2>2. CASE UNCHANGED LoopPool!vars
    BY <2>2 DEF LoopPool!vars, LoopPool!threadVars, LoopPool!dealVars, PoolInv, LoopPool!TypeOK,
                OwnerPlaced, ThreadsPlaced, Dealt, Started, Starting, LoopPool!Threads,
                RestInv, Ahead, LoopPool!Resting
  <2>3. QED
    BY <2>1, <2>2
<1>3. PoolInv /\ RestInv => LoopPool!PoolSound
  BY PoolInvSound
<1>4. QED
  BY <1>1, <1>2, <1>3, PTL DEF LoopPool!Spec
=============================================================================
