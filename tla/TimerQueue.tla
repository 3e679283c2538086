----------------------------- MODULE TimerQueue -----------------------------
(***************************************************************************)
(* muduo::net::TimerQueue: the timers of an EventLoop, kept in two sets    *)
(* (by expiration and by identity) and driven by one one-shot timerfd.     *)
(*                                                                         *)
(* addTimer and cancel take effect at once when the loop thread calls them *)
(* (between events or inside a timer's callback) and are queued in order   *)
(* when another thread does.  A Timer is identified by its address and by  *)
(* a sequence number, because the allocator reuses addresses.              *)
(*                                                                         *)
(* Time is counted in ticks.  howMuchTimeFromNow never arms the timerfd    *)
(* for less than 100 microseconds: one tick here.  The clock stops at      *)
(* MaxNow while the timerfd still counts down.                             *)
(***************************************************************************)
EXTENDS Naturals, Sequences, FiniteSets, SequencesExt

CONSTANTS
    Addrs,        \* addresses the allocator gives to Timer objects, in their order
    MaxTimers,    \* bound on the timers created in one behaviour
    MaxNow,       \* bound on the clock
    MaxCancels,   \* bound on the calls of cancel
    Delays,       \* how far in the future addTimer is asked for
    Intervals,    \* interval_ of a timer; 0 is a one-shot timer
    ForeignCalls  \* whether threads other than the loop's call addTimer and cancel

Off == MaxNow + 1000              \* the timerfd is disarmed

ASSUME TimerQueueAssumption ==
    /\ Addrs \subseteq Nat
    /\ MaxTimers \in Nat /\ MaxNow \in Nat /\ MaxCancels \in Nat
    /\ (Delays \cup Intervals) \subseteq 0..(Off - 1)   \* Off is later than any timer
    /\ ForeignCalls \in BOOLEAN

VARIABLES
    now,                 \* Timestamp::now()
    armed,               \* ticks before the timerfd is readable, 0 if it is, or Off
    active,              \* timerfdChannel_ is in activeChannels_, not yet handled
    created,             \* Timer::s_numCreated_
    heap,                \* the sequence_ of the Timer at an address, 0 if it is free
    expiration,          \* expiration_ of a timer, by sequence_
    interval,            \* interval_ of a timer, by sequence_
    timers,              \* timers_: pairs <<expiration, address>>
    activeTimers,        \* activeTimers_: pairs <<address, sequence>>
    cancelingTimers,     \* cancelingTimers_: pairs <<address, sequence>>
    calling,             \* callingExpiredTimers_
    readAt,              \* the local now of handleRead
    expired,             \* the local expired of handleRead: a sequence of addresses
    next,                \* the position in expired of the next timer to run
    pendingFunctors,     \* the addTimerInLoop and cancelInLoop queued for the loop
    ids,                 \* history: the TimerIds addTimer returned
    batch,               \* history: the sequences of the timers in expired
    runs,                \* history: how many times a timer has run
    cancels,             \* history: the calls of cancel
    cancelled            \* history: the timers cancelInLoop found, active or expired

timerVars == <<created, heap, expiration, interval>>
setVars == <<timers, activeTimers>>
batchVars == <<cancelingTimers, calling, readAt, expired, next, batch>>
vars == <<now, armed, active, timerVars, setVars, batchVars, pendingFunctors,
          ids, runs, cancels, cancelled>>

Sequences == 1..MaxTimers
TimerIds == Addrs \X Sequences

TypeOK ==
    /\ now \in 0..MaxNow
    /\ armed \in Nat
    /\ active \in BOOLEAN
    /\ created \in 0..MaxTimers
    /\ heap \in [Addrs -> 0..MaxTimers]
    /\ expiration \in [0..MaxTimers -> Nat]
    /\ interval \in [0..MaxTimers -> Nat]
    /\ timers \subseteq Nat \X Addrs
    /\ activeTimers \subseteq TimerIds
    /\ cancelingTimers \subseteq TimerIds
    /\ calling \in BOOLEAN
    /\ readAt \in 0..MaxNow
    /\ expired \in Seq(Addrs)
    /\ next \in 1..Len(expired) + 1
    /\ ids \subseteq TimerIds
    /\ batch \subseteq Sequences
    /\ cancelled \subseteq Sequences

Init ==
    /\ now = 0 /\ armed = Off /\ active = FALSE
    /\ created = 0
    /\ heap = [a \in Addrs |-> 0]
    /\ expiration = [s \in 0..MaxTimers |-> 0]
    /\ interval = [s \in 0..MaxTimers |-> 0]
    /\ timers = {} /\ activeTimers = {} /\ cancelingTimers = {}
    /\ calling = FALSE /\ readAt = 0 /\ expired = <<>> /\ next = 1 /\ batch = {}
    /\ pendingFunctors = <<>>
    /\ ids = {}
    /\ runs = [s \in Sequences |-> 0]
    /\ cancels = 0 /\ cancelled = {}
-----------------------------------------------------------------------------
\* How long resetTimerfd arms the timerfd for.
HowMuchTimeFromNow(when) == IF when > now THEN when - now ELSE 1

Earliest(ts) == CHOOSE e \in {t[1] : t \in ts} : \A t \in ts : e <= t[1]

\* Mutations of EarliestChanged: only the first timer sets the timerfd; the
\* first timer does not.
EarliestIfEmpty(when, ts) == ts = {}
EarliestIfBefore(when, ts) == ts # {} /\ when < Earliest(ts)

\* insert: whether the timerfd has to be set for this timer
EarliestChanged(when, ts) == ts = {} \/ when < Earliest(ts)

\* std::set keeps timers_ ordered by expiration, then by address.
Before(x, y) == x[1] < y[1] \/ (x[1] = y[1] /\ x[2] < y[2])

\* getExpired copies the timers that are due in the order of the set.
InOrder(due) ==
    CHOOSE s \in [1..Cardinality(due) -> due] :
        \A i, j \in DOMAIN s : i < j => Before(s[i], s[j])

\* The code a callback or any other event handler runs in the loop thread.
InLoopThread == ~calling \/ next > 1

\* new Timer(cb, when, interval)
NewTimer(a, when, i) ==
    /\ created < MaxTimers
    /\ heap[a] = 0
    /\ created' = created + 1
    /\ heap' = [heap EXCEPT ![a] = created + 1]
    /\ expiration' = [expiration EXCEPT ![created + 1] = when]
    /\ interval' = [interval EXCEPT ![created + 1] = i]
    /\ ids' = ids \cup {<<a, created + 1>>}

\* addTimerInLoop, for the Timer s at a expiring at when
AddTimerInLoop(a, s, when) ==
    /\ timers' = timers \cup {<<when, a>>}
    /\ activeTimers' = activeTimers \cup {<<a, s>>}
    /\ armed' = IF EarliestChanged(when, timers) THEN HowMuchTimeFromNow(when) ELSE armed

\* cancelInLoop of an active timer, which is deleted ...
CancelActive(id) ==
    /\ id \in activeTimers
    /\ timers' = timers \ {<<expiration[heap[id[1]]], id[1]>>}
    /\ activeTimers' = activeTimers \ {id}
    /\ heap' = [heap EXCEPT ![id[1]] = 0]
    /\ cancelled' = cancelled \cup {id[2]}
    /\ UNCHANGED cancelingTimers

\* Mutation of CancelOther: a timer that is being run is deleted at once.
CancelDeletesExpired(id) ==
    /\ id \notin activeTimers
    /\ heap' = IF calling /\ id[2] \in batch THEN [heap EXCEPT ![id[1]] = 0] ELSE heap
    /\ UNCHANGED <<setVars, cancelingTimers, cancelled>>

\* ... and of one that is not: it is being run, or it is gone.
CancelOther(id) ==
    /\ id \notin activeTimers
    /\ cancelingTimers' = IF calling THEN cancelingTimers \cup {id} ELSE cancelingTimers
    /\ cancelled' = IF calling /\ id[2] \in batch THEN cancelled \cup {id[2]} ELSE cancelled
    /\ UNCHANGED <<setVars, heap>>

CancelInLoop(id) == CancelActive(id) \/ CancelOther(id)

\* addTimer called by the loop thread
AddTimer(a, d, i) ==
    /\ InLoopThread
    /\ NewTimer(a, now + d, i)
    /\ AddTimerInLoop(a, created', now + d)
    /\ UNCHANGED <<now, active, batchVars, pendingFunctors, runs, cancels, cancelled>>

\* cancel called by the loop thread
Cancel(id) ==
    /\ InLoopThread
    /\ cancels < MaxCancels
    /\ cancels' = cancels + 1
    /\ CancelInLoop(id)
    /\ UNCHANGED <<now, armed, active, created, expiration, interval, calling, readAt,
                   expired, next, batch, pendingFunctors, ids, runs>>

\* addTimer called by another thread
AddTimerForeign(a, d, i) ==
    /\ ForeignCalls
    /\ NewTimer(a, now + d, i)
    /\ pendingFunctors' = Append(pendingFunctors, [op |-> "add", id |-> <<a, created'>>])
    /\ UNCHANGED <<now, armed, active, setVars, batchVars, runs, cancels, cancelled>>

\* cancel called by another thread
CancelForeign(id) ==
    /\ ForeignCalls
    /\ cancels < MaxCancels
    /\ cancels' = cancels + 1
    /\ pendingFunctors' = Append(pendingFunctors, [op |-> "cancel", id |-> id])
    /\ UNCHANGED <<now, armed, active, timerVars, setVars, batchVars, ids, runs, cancelled>>

\* doPendingFunctors calls what a foreign addTimer queued ...
CallAddTimer ==
    /\ ~calling
    /\ pendingFunctors # <<>>
    /\ Head(pendingFunctors).op = "add"
    /\ LET id == Head(pendingFunctors).id
       IN  AddTimerInLoop(id[1], id[2], expiration[id[2]])
    /\ pendingFunctors' = Tail(pendingFunctors)
    /\ UNCHANGED <<now, active, timerVars, batchVars, ids, runs, cancels, cancelled>>

\* ... and what a foreign cancel did
CallCancel ==
    /\ ~calling
    /\ pendingFunctors # <<>>
    /\ Head(pendingFunctors).op = "cancel"
    /\ CancelInLoop(Head(pendingFunctors).id)
    /\ pendingFunctors' = Tail(pendingFunctors)
    /\ UNCHANGED <<now, armed, active, created, expiration, interval, calling, readAt,
                   expired, next, batch, ids, runs, cancels>>
-----------------------------------------------------------------------------
\* Time goes by; at MaxNow for the timerfd only.
Tick ==
    /\ now < MaxNow \/ armed \notin {0, Off}
    /\ now' = IF now < MaxNow THEN now + 1 ELSE now
    /\ armed' = IF armed \in {0, Off} THEN armed ELSE armed - 1
    /\ UNCHANGED <<active, timerVars, setVars, batchVars, pendingFunctors, ids, runs,
                   cancels, cancelled>>

\* poll reports the timerfd; other channels may be handled before it.
PollReturn ==
    /\ armed = 0 /\ ~active /\ ~calling
    /\ active' = TRUE
    /\ UNCHANGED <<now, armed, timerVars, setVars, batchVars, pendingFunctors, ids,
                   runs, cancels, cancelled>>

\* handleRead up to the callbacks.  readTimerfd disarms the timerfd, unless it
\* was set again after poll returned: then it reads nothing and logs that.
HandleRead ==
    /\ active /\ ~calling
    /\ active' = FALSE
    /\ armed' = IF armed = 0 THEN Off ELSE armed
    /\ readAt' = now
    /\ LET due == {t \in timers : t[1] <= now}
       IN  /\ expired' = [k \in 1..Cardinality(due) |-> InOrder(due)[k][2]]
           /\ timers' = timers \ due
           /\ activeTimers' = activeTimers \ {<<t[2], heap[t[2]]>> : t \in due}
           /\ batch' = {heap[t[2]] : t \in due}
    /\ calling' = TRUE
    /\ cancelingTimers' = {}
    /\ next' = 1
    /\ UNCHANGED <<now, timerVars, pendingFunctors, ids, runs, cancels, cancelled>>

\* it->second->run(); what the callback calls follows as steps of their own
RunTimer ==
    /\ calling /\ next <= Len(expired)
    /\ next' = next + 1
    /\ runs' = LET s == heap[expired[next]]
               IN  IF s = 0 THEN runs ELSE [runs EXCEPT ![s] = @ + 1]
    /\ UNCHANGED <<now, armed, active, timerVars, setVars, cancelingTimers, calling,
                   readAt, expired, batch, pendingFunctors, ids, cancels, cancelled>>

\* Mutation of Restarted: cancelingTimers_ is not looked at.
RestartedThoughCancelled == {a \in ToSet(expired) : interval[heap[a]] > 0}
\* The timers of expired that reset starts again: their addresses
Restarted ==
    {a \in ToSet(expired) :
        /\ interval[heap[a]] > 0
        /\ <<a, heap[a]>> \notin cancelingTimers}

\* reset: repeating timers are inserted again, counted from the time handleRead
\* read, the others deleted; the timerfd is set for the earliest, if any.
Reset ==
    /\ calling /\ next = Len(expired) + 1
    /\ LET again == {heap[a] : a \in Restarted}
       IN  /\ expiration' = [s \in DOMAIN expiration |->
                                IF s \in again THEN readAt + interval[s] ELSE expiration[s]]
           /\ timers' = timers \cup {<<readAt + interval[heap[a]], a>> : a \in Restarted}
           /\ activeTimers' = activeTimers \cup {<<a, heap[a]>> : a \in Restarted}
    /\ heap' = [a \in Addrs |->
                   IF a \in ToSet(expired) \ Restarted THEN 0 ELSE heap[a]]
    /\ armed' = IF timers' = {} THEN armed ELSE HowMuchTimeFromNow(Earliest(timers'))
    /\ calling' = FALSE /\ expired' = <<>> /\ next' = 1 /\ batch' = {} /\ readAt' = 0
    /\ UNCHANGED <<now, active, created, interval, cancelingTimers, pendingFunctors, ids,
                   runs, cancels, cancelled>>

LoopStep == PollReturn \/ HandleRead \/ RunTimer \/ Reset

Next ==
    \/ \E a \in Addrs, d \in Delays, i \in Intervals :
          AddTimer(a, d, i) \/ AddTimerForeign(a, d, i)
    \/ \E id \in ids : Cancel(id) \/ CancelForeign(id)
    \/ Tick
    \/ CallAddTimer \/ CallCancel
    \/ LoopStep

Spec == Init /\ [][Next]_vars

\* The loop keeps running, and so does the clock.  doPendingFunctors is called
\* in every iteration of the loop, however often the timerfd fires: strong
\* fairness, because the functors are not called while handleRead is.
FairSpec ==
    /\ Spec
    /\ WF_vars(LoopStep)
    /\ SF_vars(CallAddTimer \/ CallCancel)
    /\ WF_vars(Tick)
-----------------------------------------------------------------------------
(* Properties *)

\* timers_ and activeTimers_ hold the same timers, each under the expiration
\* of the live object it points to (TimerQueue.cc:160-174, 200-216, 255-274,
\* of which the assertions compare the sizes alone).
SetsAgree ==
    /\ timers = {<<expiration[t[2]], t[1]>> : t \in activeTimers}
    /\ \A t \in activeTimers : heap[t[1]] = t[2]

\* handleRead (TimerQueue.cc:186-195) never runs or restarts a Timer that a
\* callback before it deleted, nor another one at the same address.
BatchIsAlive ==
    calling => {heap[a] : a \in ToSet(expired)} = batch /\ 0 \notin batch

\* Every Timer allocated and not deleted has exactly one owner: a queued
\* addTimerInLoop, activeTimers_ or the batch being run.  None is leaked, none
\* deleted twice.
QueuedAdds == {f.id[2] : f \in {g \in ToSet(pendingFunctors) : g.op = "add"}}
EveryTimerOwned ==
    LET live == {heap[a] : a \in Addrs} \ {0}
        known == {t[2] : t \in activeTimers}
    IN  /\ live = QueuedAdds \cup known \cup batch
        /\ QueuedAdds \cap known = {} /\ QueuedAdds \cap batch = {} /\ known \cap batch = {}

\* The memory of TimerQueue (TimerQueue.cc:157-250): no dangling pointer, no
\* leak, no double delete.
TimersAccounted == TypeOK /\ SetsAgree /\ BatchIsAlive /\ EveryTimerOwned

\* resetTimerfd (TimerQueue.cc:146-155, 241-249): while there are timers the
\* timerfd is set, and fires no later than the earliest of them, or one tick
\* from now if that one is overdue.
NoOversleep ==
    (timers # {} /\ ~calling /\ ~active) => armed <= HowMuchTimeFromNow(Earliest(timers))

\* cancelInLoop (TimerQueue.cc:157-175, 227-238): a timer that was cancelled
\* while it was active, or while its own batch was run, is not active again.
CancelledStaysOut == \A t \in activeTimers : t[2] \notin cancelled

\* Timer.h:34, TimerQueue.cc:228-238: a one-shot timer runs once, and one that
\* has run is not active any more.
OneShotRunsOnce ==
    \A s \in Sequences : interval[s] = 0 =>
        /\ runs[s] <= 1
        /\ runs[s] = 1 => \A t \in activeTimers : t[2] # s

\* handleRead and reset (TimerQueue.cc:177-250): what a batch puts back among
\* the active timers is neither cancelled nor spent.
BatchSound == CancelledStaysOut /\ OneShotRunsOnce

\* EventLoop.h:100-104: "Cancels the timer."  Once cancelInLoop has returned,
\* the callback does not run.  It does, for a timer that expired together with
\* the one whose callback cancels it.
CanceledNeverRuns ==
    [][\A s \in cancelled : runs'[s] = runs[s]]_vars

\* EventLoop.h:82-98: a timer added from any thread runs, unless it is
\* cancelled.  (Those that expire after the clock has stopped are left out.)
TimerRuns ==
    \A s \in Sequences :
        (s <= created /\ expiration[s] <= MaxNow) ~> (runs[s] > 0 \/ s \in cancelled)
=============================================================================
