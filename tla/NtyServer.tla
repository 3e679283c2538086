----------------------------- MODULE NtyServer -----------------------------
(***************************************************************************)
(* The echo server of NtyCo (sample/nty_server.c) on the scheduler: a      *)
(* coroutine server for each port, which creates a coroutine server_reader *)
(* for each connection and hands it the address of its own cli_fd.         *)
(*                                                                         *)
(* accept, recv and send in nty_accept, nty_recv and nty_send are those of *)
(* nty_socket.c itself (COROUTINE_HOOK): they wait in their turn, so that  *)
(* a call that waits may wait twice.                                       *)
(*                                                                         *)
(* The kernel and the peers are the environment.  Server s, the coroutine  *)
(* s, listens on descriptor s.                                             *)
(***************************************************************************)
EXTENDS NtyCo

CONSTANTS
    Servers,         \* the number of servers
    Fds,             \* the number of descriptors there are for connections
    MaxConns,        \* bound on the connections
    MaxRequests,     \* bound on the requests of all the connections
    Pieces,          \* the pieces in which an answer can be sent
    MaxErrors,       \* bound on the errors of accept(2)
    MaxSpins         \* bound on nty_coroutine_sleep(0)

ASSUME NtyServerAssumption ==
    /\ {Servers, Fds, Pieces} \subseteq Nat \ {0}
    /\ {MaxConns, MaxRequests, MaxErrors, MaxSpins} \subseteq Nat

VARIABLES
    pc, fd,          \* where each coroutine is, and its local fd
    answer,          \* what each has sent of an answer
    cliFd,           \* cli_fd of each server
    maker,           \* whose cli_fd a reader was given the address of
    backlog,         \* connections to be accepted
    open,            \* the connection each descriptor is for
    unread,          \* requests that a connection has to be read
    peer,            \* whether the peer of each connection is up, has closed
                     \* or reset it, and whether a call was told of the reset
    full,            \* connections whose peer has to read
    asked,           \* requests that the peer of a connection has sent
    errors, spins,   \* counters
    meant            \* history: the connection a reader was created for

kernelVars == <<backlog, open, unread, peer, full, asked>>
progVars == <<pc, fd, answer, cliFd, maker, errors, spins, meant>>
vars == <<schedVars, kernelVars, progVars>>

ServerIds == 1..Servers
ConnFds == (Servers + 1)..(Servers + Fds)
Conns == 1..Len(asked)
Readers == DOMAIN meant
NoConn == 0

\* The pieces that the calls of the hooked send() of an nty_send have sent, that
\* the one under way has, and whether the first of them has returned
NoAnswer == [sent |-> 0, now |-> 0, again |-> FALSE]

Init ==
    /\ SchedInit([s \in ServerIds |-> s])
    /\ pc = [s \in ServerIds |-> "accept"]
    /\ fd = [s \in ServerIds |-> s]
    /\ answer = [s \in ServerIds |-> NoAnswer]
    /\ cliFd = [s \in ServerIds |-> -1]
    /\ maker = <<>>
    /\ backlog = [s \in ServerIds |-> <<>>]
    /\ open = <<>>
    /\ unread = <<>>
    /\ peer = <<>> /\ full = {}
    /\ asked = <<>>
    /\ errors = 0 /\ spins = 0
    /\ meant = <<>>

At(co, where) == Running(co) /\ co \in DOMAIN pc /\ pc[co] = where
Goto(co, where) == pc' = [pc EXCEPT ![co] = where]
-----------------------------------------------------------------------------
(* The peers *)

Connect(s) ==
    /\ Len(asked) < MaxConns
    /\ backlog' = [backlog EXCEPT ![s] = Append(@, Len(asked) + 1)]
    /\ unread' = Append(unread, 0)
    /\ peer' = Append(peer, "up")
    /\ asked' = Append(asked, 0)
    /\ UNCHANGED <<schedVars, progVars, open, full>>

Ask(c) ==
    /\ peer[c] = "up" /\ FoldSeq(+, 0, asked) < MaxRequests
    /\ unread' = [unread EXCEPT ![c] = @ + 1]
    /\ asked' = [asked EXCEPT ![c] = @ + 1]
    /\ UNCHANGED <<schedVars, progVars, backlog, open, peer, full>>

ReadAnswer(c) ==
    /\ full' = full \ {c}
    /\ c \in full
    /\ UNCHANGED <<schedVars, progVars, backlog, open, unread, peer, asked>>

Leaves(c) ==
    /\ \/ peer[c] = "up" /\ peer' = [peer EXCEPT ![c] = "closed"]
       \/ peer[c] \in {"up", "closed"} /\ peer' = [peer EXCEPT ![c] = "reset"]
    /\ UNCHANGED <<schedVars, progVars, backlog, open, unread, full, asked>>
-----------------------------------------------------------------------------
(* epoll_wait, and the error that a call returns once *)

IsReset(c) == peer[c] \in {"reset", "told"}
Readable(f) ==
    IF f \in ServerIds THEN backlog[f] # <<>> ELSE unread[open[f]] > 0 \/ peer[open[f]] # "up"
Writable(f) == open[f] \notin full \/ IsReset(open[f])
Fires(f) == IF interest[f] = "IN" THEN Readable(f) ELSE Writable(f)
HangsUp(f) == f \notin ServerIds /\ IsReset(open[f])
Tells(c) == peer' = IF peer[c] = "reset" THEN [peer EXCEPT ![c] = "told"] ELSE peer

Poll ==
    /\ EpollWait({[fd |-> f, hup |-> HangsUp(f)] : f \in {g \in DOMAIN interest : Fires(g)}})
    /\ UNCHANGED <<kernelVars, progVars>>

Schedule ==
    \/ Poll
    \/ /\ TestDone \/ ResumeReady \/ NoEpollWait \/ ResumeWaiting \/ EventsDone
       /\ UNCHANGED <<kernelVars, progVars>>
-----------------------------------------------------------------------------
(* server *)

\* Mutation of PollsFirst: accept(2) is tried before the wait.
PollsLater(co) ==
    /\ \/ At(co, "accept") /\ backlog[co] # <<>> /\ Goto(co, "accept now") /\ Goes
       \/ /\ \/ At(co, "accept") /\ backlog[co] = <<>> /\ Goto(co, "accept wake")
             \/ At(co, "accept hook") /\ Goto(co, "accept hook wake")
             \/ At(co, "recv") /\ Goto(co, "recv wake")
             \/ At(co, "recv hook") /\ Goto(co, "recv hook wake")
          /\ PollsFor(co, fd[co], "IN")
    /\ UNCHANGED <<kernelVars, fd, answer, cliFd, maker, errors, spins, meant>>

\* nty_accept and nty_recv begin with nty_poll_inner, and so do the hooked
\* accept() and recv() that they call.
PollsFirst(co) ==
    /\ \/ At(co, "accept") /\ Goto(co, "accept wake")
       \/ At(co, "accept hook") /\ Goto(co, "accept hook wake")
       \/ At(co, "recv") /\ Goto(co, "recv wake")
       \/ At(co, "recv hook") /\ Goto(co, "recv hook wake")
    /\ PollsFor(co, fd[co], "IN")
    /\ UNCHANGED <<kernelVars, fd, answer, cliFd, maker, errors, spins, meant>>

\* The server of ntyco_httpd.c, when another process has the lock
Spins(s) ==
    /\ At(s, "accept")
    /\ spins < MaxSpins
    /\ spins' = spins + 1
    /\ YieldsReady(s)
    /\ UNCHANGED <<kernelVars, pc, fd, answer, cliFd, maker, errors, meant>>

Wakes(co) ==
    /\ \/ At(co, "accept wake") /\ Goto(co, "accept hook")
       \/ At(co, "accept hook wake") /\ Goto(co, "accept now")
       \/ At(co, "recv wake") /\ Goto(co, "recv hook")
       \/ At(co, "recv hook wake") /\ Goto(co, "recv now")
       \/ At(co, "send wake") /\ Goto(co, "send")
       \/ At(co, "send hook wake") /\ Goto(co, "send hook")
    /\ EndsPoll(co, fd[co])
    /\ UNCHANGED <<kernelVars, fd, answer, cliFd, maker, errors, spins, meant>>

\* nty_coroutine_create(&read_co, server_reader, &cli_fd), whatever nty_accept
\* has returned
MakesReader(s, f, c) ==
    LET new == Len(pc) + 1 IN
    /\ Creates(new)
    /\ cliFd' = [cliFd EXCEPT ![s] = f]
    /\ maker' = With(maker, new, s)
    /\ meant' = With(meant, new, c)
    /\ pc' = Append([pc EXCEPT ![s] = "accept"], "start")
    /\ fd' = Append(fd, -1)
    /\ answer' = Append(answer, NoAnswer)

\* accept_f with nothing to accept, without a descriptor left, and else
Accepts(s) ==
    /\ At(s, "accept now")
    /\ LET free == ConnFds \ DOMAIN open
           c == Head(backlog[s])
       IN  IF backlog[s] = <<>>
           THEN Goto(s, "accept hook") /\ Goes
                /\ UNCHANGED <<backlog, open, fd, answer, cliFd, maker, meant>>
           ELSE IF free = {} THEN MakesReader(s, -1, NoConn) /\ UNCHANGED <<backlog, open>>
           ELSE LET f == CHOOSE g \in free : \A h \in free : g <= h IN
                /\ MakesReader(s, f, c)
                /\ backlog' = [backlog EXCEPT ![s] = Tail(@)]
                /\ open' = With(open, f, c)
    /\ UNCHANGED <<unread, peer, full, asked, errors, spins>>

\* ECONNABORTED
AcceptFails(s) ==
    /\ At(s, "accept now")
    /\ backlog[s] # <<>> /\ IsReset(Head(backlog[s]))
    /\ errors < MaxErrors
    /\ errors' = errors + 1
    /\ MakesReader(s, -1, NoConn)
    /\ backlog' = [backlog EXCEPT ![s] = Tail(@)]
    /\ unread' = [unread EXCEPT ![Head(backlog[s])] = 0]
    /\ UNCHANGED <<open, peer, full, asked, spins>>
-----------------------------------------------------------------------------
(* server_reader *)

Starts(r) ==
    /\ At(r, "start")
    /\ fd' = [fd EXCEPT ![r] = cliFd[maker[r]]]
    /\ Goto(r, "recv")
    /\ Goes
    /\ UNCHANGED <<kernelVars, answer, cliFd, maker, errors, spins, meant>>

\* nty_close, and the end of the coroutine
Closes(r) ==
    /\ unread' = [unread EXCEPT ![open[fd[r]]] = 0]
    /\ open' = Without(open, fd[r])
    /\ Exits(r)
    /\ Goto(r, "exited")

\* recv_f: data, 0 at the end, or -1, after which server_reader reads again
Receives(r) ==
    /\ At(r, "recv now")
    /\ LET c == open[fd[r]] IN
       IF unread[c] > 0
       THEN /\ unread' = [unread EXCEPT ![c] = @ - 1]
            /\ Goto(r, "send") /\ Goes /\ UNCHANGED <<open, peer>>
       ELSE IF peer[c] \in {"closed", "told"} THEN Closes(r) /\ UNCHANGED peer
       ELSE Goto(r, "recv") /\ Goes /\ Tells(c) /\ UNCHANGED <<open, unread>>
    /\ UNCHANGED <<backlog, full, asked, fd, answer, cliFd, maker, errors, spins, meant>>

SendWaits(r, where) == PollsFor(r, fd[r], "OUT") /\ Goto(r, where)

\* send_f takes the rest of the answer, which ends both loops, or as much as the
\* socket has room for: the hooked send() waits.
Sends(r) ==
    /\ At(r, "send") \/ At(r, "send hook")
    /\ LET c == open[fd[r]] IN
       /\ c \notin full /\ ~IsReset(c)
       /\ \/ /\ answer' = [answer EXCEPT ![r] = NoAnswer]
             /\ full' \in {full, full \cup {c}}
             /\ Goto(r, "recv") /\ Goes
          \/ /\ \E n \in 1..Pieces - answer[r].sent - answer[r].now - 1 :
                   answer' = [answer EXCEPT ![r].now = @ + n]
             /\ full' = full \cup {c}
             /\ SendWaits(r, "send hook wake")
    /\ UNCHANGED <<backlog, open, unread, peer, asked, fd, cliFd, maker, errors, spins, meant>>

\* The retry of the hooked send() fails: that returns what it has sent or -1,
\* and nty_send waits too, unless this was -1 for a call that it had waited for.
Returns(r) ==
    LET a == answer[r] IN
    IF a.again /\ a.now = 0
    THEN /\ answer' = [answer EXCEPT ![r] = NoAnswer]
         /\ \/ a.sent = 0 /\ Closes(r)
            \/ a.sent > 0 /\ Goto(r, "recv") /\ Goes /\ UNCHANGED <<open, unread>>
    ELSE /\ answer' = [answer EXCEPT ![r] = [sent |-> a.sent + a.now, now |-> 0, again |-> TRUE]]
         /\ SendWaits(r, "send wake")
         /\ UNCHANGED <<open, unread>>

\* send_f fails: the socket has no room or was reset.
SendFails(r) ==
    /\ At(r, "send") \/ At(r, "send hook")
    /\ LET c == open[fd[r]] IN
       /\ c \in full \/ IsReset(c)
       /\ Tells(c)
    /\ IF pc[r] = "send"
       THEN SendWaits(r, "send hook wake") /\ UNCHANGED <<answer, open, unread>>
       ELSE Returns(r)
    /\ UNCHANGED <<backlog, full, asked, fd, cliFd, maker, errors, spins, meant>>

Coroutine ==
    \E co \in alive :
        \/ PollsFirst(co) \/ Wakes(co)
        \/ co \in ServerIds /\ (Spins(co) \/ Accepts(co) \/ AcceptFails(co))
        \/ co \notin ServerIds /\ (Starts(co) \/ Receives(co) \/ Sends(co) \/ SendFails(co))

Peer ==
    \/ \E s \in ServerIds : Connect(s)
    \/ \E c \in Conns : Ask(c) \/ ReadAnswer(c) \/ Leaves(c)

Next == Schedule \/ Coroutine \/ Peer

Spec == Init /\ [][Next]_vars

\* The thread runs on, and what is sent to a peer is read in the end.
FairSpec ==
    /\ Spec
    /\ WF_vars(Schedule) /\ WF_vars(Coroutine)
    /\ \A c \in 1..MaxConns : WF_vars(c \in Conns /\ ReadAnswer(c))
-----------------------------------------------------------------------------
(* Properties *)

Places(co) ==
    Cardinality({i \in DOMAIN ready : ready[i] = co})
    + Cardinality({f \in DOMAIN waiting : waiting[f] = co})
Woken == {"accept wake", "accept hook wake", "recv wake", "recv hook wake",
          "send wake", "send hook wake"}

\* No coroutine is lost, resumed from two places or used after it was freed:
\* one that is not running is either once in the ready queue or waits for one
\* descriptor, with epoll watching it, and what is left of the events is for
\* coroutines that wait, however the coroutines before them have created, closed
\* and exited (nty_schedule.c:121-179, 306-358).
Scheduled ==
    /\ ~failed
    /\ ToSet(ready) \cup {waiting[f] : f \in DOMAIN waiting} \subseteq alive
    /\ \A co \in alive : Places(co) = IF co = running /\ pc[co] \notin Woken THEN 0 ELSE 1
    /\ \A f \in DOMAIN waiting : f > 0 => f \in DOMAIN interest
    /\ \A i \in DOMAIN events : events[i].fd \in DOMAIN waiting

\* cli_fd is one variable for all the readers of a server, and a reader reads it
\* when it first runs: it still is the descriptor of its connection then, and
\* each connection has one reader (nty_server.c:55, 122).
RightDescriptor ==
    /\ \A r \in Readers : pc[r] \notin {"start", "exited"} /\ meant[r] # NoConn =>
           fd[r] \in DOMAIN open /\ open[fd[r]] = meant[r]
    /\ \A f \in DOMAIN open : Cardinality({r \in Readers \cap alive : meant[r] = open[f]}) = 1

\* Every connection is accepted and what its peer sends is read, whatever the
\* other coroutines do, unless accept(2) or send(2) fails and it is dropped
\* (nty_schedule_run, nty_schedule.c:306-358).
Served ==
    \A c \in 1..MaxConns : LET has == c \in Conns /\ unread[c] > 0 IN has ~> ~has
=============================================================================
