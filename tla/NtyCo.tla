------------------------------- MODULE NtyCo -------------------------------
(***************************************************************************)
(* The scheduler of NtyCo (core/nty_schedule.c, nty_coroutine.c) and the   *)
(* wait of its socket calls (nty_poll_inner of nty_socket.c).              *)
(*                                                                         *)
(* One thread runs nty_schedule_run and, one at a time, the coroutines it  *)
(* resumes.  No call in the repository gives nty_poll_inner a timeout or   *)
(* nty_coroutine_sleep a time other than 0: the tree of sleeping           *)
(* coroutines is empty.                                                    *)
(***************************************************************************)
EXTENDS Integers, Sequences, FiniteSets, SequencesExt

VARIABLES
    phase,           \* where nty_schedule_run is
    ready,           \* sched->ready
    last,            \* last_co_ready
    waiting,         \* sched->waiting: the coroutine that waits for each fd
    interest,        \* poller_fd: the event each fd was added with
    events,          \* what is left of eventlist: fds, with EPOLLHUP or not
    running,         \* curr_thread
    alive,           \* the coroutines that were created and not freed
    eof,             \* those whose status has NTY_COROUTINE_STATUS_FDEOF
    failed           \* an assertion failed, or NULL was used

schedVars == <<phase, ready, last, waiting, interest, events, running, alive, eof, failed>>

None == 0            \* coroutines are numbered from 1

\* main has created the coroutines, and calls nty_schedule_run.
SchedInit(created) ==
    /\ phase = "test"
    /\ ready = created
    /\ last = None
    /\ waiting = <<>>
    /\ interest = <<>>
    /\ events = <<>>
    /\ running = None
    /\ alive = ToSet(created)
    /\ eof = {}
    /\ failed = FALSE

With(f, x, y) == [z \in DOMAIN f \cup {x} |-> IF z = x THEN y ELSE f[z]]
Without(f, x) == [z \in DOMAIN f \ {x} |-> f[z]]
-----------------------------------------------------------------------------
(* nty_schedule_run *)

Scheduling(where) == running = None /\ phase = where /\ ~failed

\* while (!nty_schedule_isdone(sched)), and the beginning of 2.
TestDone ==
    /\ Scheduling("test")
    /\ phase' = IF waiting = <<>> /\ ready = <<>> THEN "done"
                ELSE IF ready = <<>> THEN "epoll" ELSE "ready"
    /\ last' = IF ready = <<>> THEN None ELSE Last(ready)
    /\ UNCHANGED <<ready, waiting, interest, events, running, alive, eof, failed>>

\* 2. ready queue: as far as the coroutine that was its last
ResumeReady ==
    /\ Scheduling("ready")
    /\ LET co == Head(ready)
           dropped == co \in eof
       IN  /\ ready' = Tail(ready)
           /\ running' = IF dropped THEN None ELSE co
           /\ alive' = IF dropped THEN alive \ {co} ELSE alive
           /\ phase' = IF dropped \/ co = last THEN "epoll" ELSE "ready"
    /\ UNCHANGED <<last, waiting, interest, events, eof, failed>>

\* 3. nty_schedule_epoll: fired are the fds with their events, in any order.
EpollWait(fired) ==
    /\ Scheduling("epoll")
    /\ ready = <<>>
    /\ \E order \in SetToSeqs(fired) : events' = order
    /\ phase' = "events"
    /\ UNCHANGED <<ready, last, waiting, interest, running, alive, eof, failed>>

NoEpollWait ==
    /\ Scheduling("epoll")
    /\ ready # <<>>
    /\ phase' = "test"
    /\ UNCHANGED <<ready, last, waiting, interest, events, running, alive, eof, failed>>

\* The events, the last one first; nty_schedule_search_wait uses what it finds.
ResumeWaiting ==
    /\ Scheduling("events")
    /\ events # <<>>
    /\ LET e == Last(events) IN
       IF e.fd \in DOMAIN waiting
       THEN /\ running' = waiting[e.fd]
            /\ eof' = IF e.hup THEN eof \cup {running'} ELSE eof \ {running'}
            /\ failed' = failed
       ELSE failed' = TRUE /\ UNCHANGED <<running, eof>>
    /\ events' = Front(events)
    /\ UNCHANGED <<phase, ready, last, waiting, interest, alive>>

EventsDone ==
    /\ Scheduling("events")
    /\ events = <<>>
    /\ phase' = "test"
    /\ UNCHANGED <<ready, last, waiting, interest, events, running, alive, eof, failed>>
-----------------------------------------------------------------------------
(* What the running coroutine calls *)

Running(co) == running = co /\ ~failed

\* The scheduler's part of a step that calls none of these.
Goes == UNCHANGED schedVars

\* nty_coroutine_create
Creates(new) ==
    /\ ready' = Append(ready, new)
    /\ alive' = alive \cup {new}
    /\ UNCHANGED <<phase, last, waiting, interest, events, running, eof, failed>>

\* nty_coroutine_sleep(0)
YieldsReady(co) ==
    /\ ready' = Append(ready, co)
    /\ running' = None
    /\ UNCHANGED <<phase, last, waiting, interest, events, alive, eof, failed>>

\* Mutation of PollsFor: the descriptor is not added to epoll.
PollsForNothing(co, fd, event) ==
    /\ failed' = (fd \in DOMAIN waiting)
    /\ waiting' = With(waiting, fd, co)
    /\ running' = None
    /\ UNCHANGED <<phase, ready, last, interest, events, alive, eof>>

\* nty_poll_inner until it yields: epoll_ctl, which fails for what is not a
\* descriptor, and nty_schedule_sched_wait, which asserts that fd is not there.
PollsFor(co, fd, event) ==
    /\ failed' = (fd \in DOMAIN waiting)
    /\ waiting' = With(waiting, fd, co)
    /\ interest' = IF fd < 0 THEN interest ELSE With(interest, fd, event)
    /\ running' = None
    /\ UNCHANGED <<phase, ready, last, events, alive, eof>>

\* Mutation of EndsPoll: the coroutine stays in the tree.
EndsPollOnly(co, fd) ==
    /\ interest' = Without(interest, fd)
    /\ UNCHANGED <<phase, ready, last, events, running, alive, failed, waiting, eof>>

\* nty_poll_inner after that: nty_schedule_desched_wait uses what it finds, and
\* clears the status.
EndsPoll(co, fd) ==
    /\ interest' = Without(interest, fd)
    /\ waiting' = Without(waiting, fd)
    /\ failed' = (fd \notin DOMAIN waiting)
    /\ eof' = eof \ {co}
    /\ UNCHANGED <<phase, ready, last, events, running, alive>>

\* _exec: func has returned, and nty_coroutine_resume frees the coroutine.
Exits(co) ==
    /\ alive' = alive \ {co}
    /\ running' = None
    /\ UNCHANGED <<phase, ready, last, waiting, interest, events, eof, failed>>
=============================================================================
