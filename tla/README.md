# A TLA+ model of the network libraries in this repository

The repository collects network programming material: tutorial servers (2.1, 2.2), the KCP
protocol (2.2.4), the NtyCo coroutine library (2.3), a packet responder over netmap (2.4), and the
muduo library with its examples and practice code around it (2.5). The modules here model the parts
with the most logic of their own and nearly all of the concurrency: muduo's core
(`src/2.5网络编程实践/muduo-master/muduo`, below `M/`), KCP (`ikcp.c`) and NtyCo's scheduler. Everything
else is listed under *Not modelled*.

## The system and its parts

| part | state | operations | who calls |
|---|---|---|---|
| `EventLoop` (`M/net/EventLoop.cc`) | `quit_`, `pendingFunctors_` under `mutex_`, `callingPendingFunctors_`, `activeChannels_`, the eventfd | `loop`, `quit`, `runInLoop`, `queueInLoop`, `wakeup`, `doPendingFunctors` | its own thread; `quit` and `queueInLoop` from any thread |
| `Channel`, `TcpConnection`, `TcpServer` | `state_`, interest of the channel, output buffer, the server's map, a `shared_ptr` count | `send`, `shutdown`, `forceClose`, `forceCloseWithDelay`, `handleRead/Write/Close/Error`, `connectEstablished/Destroyed`, `newConnection`, `removeConnection`, `~TcpServer` | user callbacks, foreign threads, the poller |
| `EPollPoller`, `PollPoller`, chosen by `newDefaultPoller` | map of channels, the kernel's set or the array of pollfds, `index` of each channel | `poll`, `updateChannel`, `removeChannel` | the loop, through `Channel::update` and `remove` |
| `TimerQueue` | `timers_`, `activeTimers_`, `cancelingTimers_`, the timerfd | `addTimer`, `cancel`, `handleRead` | any thread, through functors; the loop |
| `EventLoopThread(Pool)` | `loop_` under `mutex_`/`cond_`, `loops_`, `next_` | `startLoop`, `threadFunc`, destructor, `getNextLoop` | `TcpServer` |
| `Connector`, `TcpClient` | `connect_` (one each), `state_`, `channel_`, the retry timer, `connection_`, `retry_` | `connect`, `stop`, `disconnect`, `restart`, `retry`, `handleWrite/Error`, `removeConnection`, `~TcpClient` | user code in the loop thread and outside, the loop |
| `ThreadPool` (`M/base/ThreadPool.cc`) | `queue_`, `running_`, two conditions | `start`, `run`, `take`, `stop` | user threads, workers |
| `AsyncLogging` (`M/base/AsyncLogging.cc`) | `currentBuffer_`, `nextBuffer_`, `buffers_` under `mutex_`; the spare buffers of its thread | `append`, `start`, `stop`, `threadFunc` | any thread; its own thread |
| NtyCo (`nty_schedule.c`, `nty_coroutine.c`, `nty_socket.c`) and its echo server | ready queue, tree of waiting coroutines by fd, epoll set, the coroutine that runs | `nty_schedule_run`, `nty_poll_inner` in `nty_accept/recv/send` and in the hooked `accept/recv/send` they call, `nty_coroutine_create`, `nty_coroutine_sleep(0)`, `nty_close` | coroutines of one thread |
| KCP (`ikcp.c`) | `snd_queue`, `snd_buf`, `rcv_buf`, `rcv_queue`, `acklist`, numbers, windows, `cwnd` | `ikcp_send`, `ikcp_recv`, `ikcp_input`, `ikcp_update`, `ikcp_flush` | the user of each end, the network |

In muduo a call from another thread becomes a functor in the loop's queue and a write to its eventfd;
the loop polls, calls the channels that are ready, and then calls the functors it finds. Timers are a
channel (the timerfd) of the loop. A server hands each connection to the loop of a thread of its pool,
and the end of a connection hops from that loop to the server's and back. A client's connector makes a
channel for each attempt and hands the socket to a `TcpConnection`. NtyCo's scheduler resumes the
coroutines of its ready queue, then those whose descriptors epoll reports; `nty_accept` and
`nty_recv` wait and then call `accept` and `recv`, which are the hooked ones of the same file
(`COROUTINE_HOOK`) and wait again before they try; `nty_send` and the hooked `send` in it try first and
wait for what is left. KCP is a record and a set of functions on it; the program calls them and carries
the datagrams.

What is hard in this code: functors queued while the loop swaps or calls its queue; the decision
whether to write to the eventfd, made without the lock; raw pointers in functors; `state_` tested and
set without atomicity; the order of direct and buffered writes; destruction while events of the same
poll are still to be handled; timers cancelled by the callbacks of the batch they belong to; a quit
before the loop has begun; monitors with single notifications; a stop that meets an armed retry timer,
a queued start or a restart; buffers that have to come back; events for coroutines that others may
have woken, freed or replaced in the meantime; lost, doubled and reordered segments with numbers that
wrap, and a window that closes. `PROJECT.json` lists each with its line under "hazards", with the
properties that cover it or why none does.

## Modules

| module | models |
|---|---|
| `FunctorQueue` | abstract: what `queueInLoop` promises, one FIFO queue |
| `EventLoop`, `MC_EventLoop`, `EventLoop_proofs` | the loop, its functor queue, wakeup and quit; the theorems |
| `Session` | abstract: what a user of a connection sees: up, messages, down |
| `TcpConnection`, `MC_TcpConnection`, `TcpConnection_proofs` | a connection with its channel, loop, server, callers and peer; the theorems |
| `Poller` | abstract: the set of descriptors that is watched is the set the channels ask for |
| `EPollPoller`, `PollPoller` | the two implementations |
| `DefaultPoller`, `MC_DefaultPoller`, `MC_PollPoller`, `DefaultPoller_proofs` | the choice between them, and their instances; the theorems on both |
| `TimerQueue`, `MC_TimerQueue`, `TimerQueue_proofs` | timers, their two sets, the timerfd, the reuse of addresses; the theorems |
| `EventLoopThreadPool`, `MC_EventLoopThreadPool` | the threads that own loops, and the pool; its theorem is in `ThreadPool_proofs` |
| `TcpClient`, `MC_TcpClient`, `TcpClient_proofs` | a client with its connector and its loop; the theorems on `stop()` and on its one way to a connection |
| `ThreadPool`, `MC_ThreadPool`, `ThreadPool_proofs` | the pool of workers over a bounded queue; the theorems on its tasks and its wakeups, and the one on the pool of loops |
| `AsyncLogging`, `MC_AsyncLogging`, `AsyncLogging_proofs` | the exchange of log buffers; the theorems on its assertions and its messages |
| `FifoChannel` | abstract: messages arrive whole, once and in order |
| `Kcp`, `MC_Kcp` | two KCP peers and a network that loses, doubles and reorders |
| `NtyCo` | the scheduler, as actions that the running coroutine calls |
| `NtyServer`, `MC_NtyServer`, `NtyServer_proofs` | the echo server of `nty_server.c` on it, with the kernel and the peers; the theorems |

`EventLoop` refines `FunctorQueue`, `TcpConnection` refines `Session`, both pollers refine `Poller` and
`Kcp` refines `FifoChannel`, each through `INSTANCE` and a property of its run. `DefaultPoller` composes
the two pollers, `NtyServer` the scheduler with its coroutines. The queue of `TcpConnection`, the loop of
`TcpClient` and the eventfd of `EventLoopThreadPool` are the loop of `EventLoop` reduced to what that
module shows of it; the connection of `TcpClient` is up or down, and `TcpConnection` says what it does
in between.

Variables carry the names of the members they stand for, without the trailing underscore, and actions
those of the methods; `PROJECT.json` maps every definition to its lines. Operators under a comment
"Mutation of ..." are deliberately wrong variants of the definition after them; each shows that a
property would notice that mistake.

### EventLoop
A thread outside the loop queues a functor (the push is under `mutex_`, one step), then decides on
`callingPendingFunctors_` whether it `owes` a wakeup, and writes the eventfd in a later step.
`quit` likewise sets the flag and writes in two steps. The loop's own thread goes
through `enter`, `while`, `poll`, `handle`, `swap`, `calls`; callbacks may queue functors and quit.
`quiet` remembers the functors that the owner queued while it was not in `loop()`, for which the code
does not wake anybody.

### TcpConnection
One action per functor, event or user call. A user callback is a state of its own (`callback`), in
which user code may call the connection again before the handler goes on. A foreign thread reads
`state_`, writes it and posts in separate steps. Data are bytes `<<message, offset>>`, and the socket
takes as many as its send buffer has room for. `Alive` is the disjunction of everything that holds a
`shared_ptr`. A failed assertion is recorded in `failed` and the program goes on as under `NDEBUG`.
`writeCompleteCallback_` and `highWaterMarkCallback_` are taken to be set. The header calls `shutdown()`
"NOT thread safe" (`TcpConnection.h:70`), so foreign threads only send where the life cycle is checked;
`tcpconnection_dtor` and two configurations to be run by hand let them close as well. The events poll reports are
`POLLIN`, `POLLOUT`, `POLLERR` and, to a channel that does not read, `POLLHUP`, for which `handleEventWithGuard` calls
`closeCallback_` first. `removeConnection` of a server that was destroyed is undefined in the code; here it is the
`erase` that finds nothing and fails the assertion of `removeConnectionInLoop`.

### Pollers
`EPollPoller` keeps the index (`kNew`, `kAdded`, `kDeleted`) of each channel and the kernel's set, with the
`Channel*` each entry holds; a failing `epoll_ctl` or assertion is recorded. `PollPoller` keeps the
array, whose entries are negated when ignored, with removal by swapping. Channels are created,
enabled, disabled, removed and destroyed in any order their owners may choose, and descriptors are used
again. `DefaultPoller` has the variables of both and lets the environment variable decide which moves.

### TimerQueue
Time is a counter; callbacks of a batch are called one by one and may add and cancel timers, their
own included. Addresses are a small ordered set from which the allocator takes any free one, so that a
stale `TimerId` meets a new timer at the old address. The batch of `getExpired` is in the order of the set,
by expiration and then by address. Other threads add and cancel through the loop's functors.

### EventLoopThreadPool and ThreadPool
Monitors: a wait releases the lock and may wake up spuriously, a notification wakes one waiter
of the implementation's choice. `loop_` is read and cleared without the lock where the code does so. `~EventLoopThread`
tests it, reads it again for `quit()`, and `quit()` writes to the eventfd after it has set `quit_`: a thread that leaves its
loop between these steps makes them reads of `NULL` or of an `EventLoop` that is gone, which is undefined. The model lets the
write go nowhere or the program crash (`owner = "crashed"`). The history variable `atRest` tells whether, since the
destruction began, the loops have only answered their `quit()`.

### TcpClient
The loop polls, handles what is ready and calls the batch of functors, each a step. `connect()` and `stop()`
of another thread are three steps: the client's `connect_`, the connector's, the functor. `removeConnection`
tests `connect_` in one step and calls `restart()` in the next, as nothing keeps another thread out
between the two. A channel is "live", "removed" until the queued `resetChannel` frees it, or "none". The
timer's delay, which doubles, is left out. Three constants say what the program does that the code is not
made for: `HastyConnect` (`connect()` again before the connector is at rest: disconnected, with no timer armed, no
functor queued and no call under way), `StopElsewhere`, `DestroyEarly` (the client is destroyed with a functor of its
connector queued). `~TcpClient` runs in the loop thread, where it is one step. In another thread the loop may run
between its steps, and may call a client that is gone; `TcpClient_reg2.cc` and `TcpClient_reg3.cc` destroy it so, and
`TcpClient.cc:89` calls that "not 100% safe". It is not modelled.

### AsyncLogging
Each critical section is a step, and so is the writing of a batch, during which messages are appended.
A `BufferPtr` is a sequence of at most one buffer. The end of the wait needs no notification: the
time-out may have come.

### NtyCo and NtyServer
`NtyCo` is the scheduler and the calls into it; it has no next-state relation of its own. A coroutine
runs until it yields, so what it does between two yields is a sequence of steps with no other between
them but the kernel's and the peers'. A call of `nty_accept` or `nty_recv` yields twice, once in itself and
once in the hooked call; the answer that `nty_send` sends has two counts, its own (`sent`) and that of the
hooked call under way (`now`), for each of the two loops decides by its own count whether a failure is
returned. Peers close (`closed`) or reset (`reset`), of which one call is told by an error (`told`); epoll reports
`EPOLLHUP` for a connection that was reset. The readers get the address of their server's `cliFd`. The scheduler
does not look at epoll while its ready queue is not empty, so a coroutine that calls
`nty_coroutine_sleep(0)` in a loop, as the server of `ntyco_httpd.c` does while it has not got its lock, keeps
all others from their events: `MaxSpins` bounds it.

### Kcp
The functions of `ikcp.c` are functions from control block to control block. Time is a choice:
at each flush, any set of segments may have reached its `resendts` and the window probe may be due;
a retransmission while datagrams are under way counts as a fault. Sizes are in segments. `fastack` and
`xmit` stop where nothing tells larger values apart.

## Runs

The type invariant is part of the structural invariant of each module (`LifeSound`, `TableSound`,
`ArraySound`, `TimersAccounted`, `PoolSound`, `QueueSound`, `Accounted`); that of `EventLoop` is a theorem.
All bounds are constants of the `.cfg`.

| run | instance | shows |
|---|---|---|
| `eventloop` | 2 foreign threads, 2 functors, 1 I/O channel, 3 posts | `FifoNoLoss`: nothing queued is lost, doubled, reordered. `NoLostWakeup`, `NoLostQuit`: poll never sleeps over work or a quit. `QueueSpec`: refinement. `QueuedRunsPromptly`, `QuitStopsLoop`: neither waits for the 10 s time-out of poll |
| `tcpconnection` | 1 foreign thread that sends, callbacks that send, shut down, force the close at once or with delay; 2 messages of 2 bytes, room for 1 | `LifeSound`: no assertion fails, disconnected when destroyed, a registered channel is alive. `NothingReordered`, `OrderPerThread`: bytes in order, each thread's messages in order. `OutputSound`: `POLLOUT` exactly while data wait, FIN after data. `SessionSpec`: refinement. `CloseCompletes`, `ShutdownCompletes` |
| `tcpconnection_dtor` | the server dies under the connection, which a foreign thread shuts down | `MessagesWhileUp`, `NothingReordered`: what still holds when `connectDestroyed` competes with `handleClose` and `state_` is overwritten. That down comes once does not (see *What the checks found*) |
| `tcpconnection_dtor_disconnecting` | the server dies during a shutdown | **violated** `RemovedDisabled` |
| `pollers` | 4 channels, 3 descriptors, either poller | no assertion or `epoll_ctl` fails, no entry outlives its channel, `PollPoller`'s indices agree with its array, refinement of `Poller` by both (`PollPoller`: no channel enabled again) |
| `timerqueue` | 3 timers, 2 addresses, clock to 2 | the two sets agree, the batch stays allocated, no leak, the timerfd never sleeps past a timer, cancelled timers do not come back, one-shot timers run once, every timer runs or is cancelled |
| `eventloopthreadpool` | 3 threads, each may handle events and quit by itself; destroyed at any time after `start()` | `PoolSound`: live loops only, even distribution, and the destructor crashes at most where a loop does something of its own while it runs. `OwnerReturns`: `start()` returns, and so do destructors that find every thread in `loop()` |
| `threadpool` | 2 workers, 3 callers, queue of 2, 5 tasks | tasks taken once and in order, enough workers and callers are awake, `stop()` returns, tasks run |
| `tcpclient` | `connect()` up to 3 times from either thread, the connector being at rest; stop, disconnect, destruction in the loop thread when no functor of the connector is queued; failing attempts and lost connections without bound | `ClientSound`: one way to a connection at a time, each removed channel freed by one functor, no assertion fails, nothing called in a destroyed client. `StopHolds`: nothing connects after `stop()`. `Reconnects`: with `enableRetry()` a client gets its connection |
| `asynclogging` | 12 messages, buffers of 2, at most 3 buffers written at once | `LogSound`: assertions hold, messages are written once and in order, what is dropped is announced. `Logged`: what is appended is written, and `stop()` returns |
| `kcp` | 1 sender, 3 fragments in messages of 1 and 2, windows of 2, numbers modulo 16 from 14, 2 datagrams each way, 1 fault | `Accounted`: windows and buffers, and what is acknowledged was received. `ChannelSpec`: refinement of `FifoChannel`. `Delivered`: all messages arrive |
| `ntyserver` | 2 servers, 2 connections, 2 requests, answers of 2 pieces, 2 descriptors, 1 failing accept, 1 spin | `Scheduled`: no coroutine is lost, doubled or used after it was freed. `RightDescriptor`: each reader has its connection. `Served`: all requests are read |

Why the bounds are enough: the loop's races are between one post before and one after the swap, for
which three posts from two threads suffice; the connection's data races need a message split by a
full socket buffer and a second message behind it; swap-removal needs an element in the middle, so
three entries, and reuse of a descriptor a fourth channel; an address is used again by the
third timer on two addresses; three threads distinguish wrapping late from wrapping early; two waiters
on each side of a full queue show a lost notification. In `TimerQueue` the clock stops at `MaxNow`,
which a repeating timer reaches through several periods. The client's state is finite but for
the calls of `connect()`; three of them let a stop and a start follow an attempt, a connection and a loss. In `AsyncLogging` twelve messages fill six buffers, so that a batch is too
large and another follows it, with the spare buffer used up and not. In `Kcp` the numbers wrap, a
window of two fills and closes, and a fault loses, doubles or overtakes any datagram; its congestion
avoidance (the branch beyond `ssthresh`, which is at least 2) needs a window of three and is not
reached. In `NtyServer` two servers share the descriptors, so that one is closed and used again by the
other's reader.

Where `CHECK_DEADLOCK FALSE` is given the system may really stop: a destroyed connection or client, the
bound of calls reached, a log that was stopped, all messages delivered and acknowledged, a stopped pool
(callers blocked in `run()` after `stop()` stay blocked: `stop()` notifies `notEmpty_` only).

Fairness: threads that are running keep running (weak fairness of the loop's, workers', logging
thread's and scheduler's steps, and of a thread in the middle of a call). Nothing is assumed about users,
peers closing, I/O or poll's time-out, so what holds does not rely on the time-out; only `AsyncLogging`
assumes that its wait times out, because a notification while it writes is lost. `TcpConnection`
and `NtyServer` assume that the peer reads, without which a full buffer waits for ever; `TcpConnection` also
that the timer of `forceCloseWithDelay` expires (strong fairness, for the loop goes on in the meantime: this
is `TimerRuns` of `TimerQueue`). `TimerQueue` assumes that time passes, and strong fairness of a queued
functor's call in a loop that polls. `TcpClient` assumes of the server that, tried again and again, it takes a
connection (strong fairness of the attempt that gets under way and of the one that succeeds).
`Kcp` assumes that both ends call `ikcp_update` again and again, that timers come due, that the user
reads and that the network does not keep every datagram back (strong fairness, written out with the
conditions under which each step is possible); faults are bounded.

## What the checks found

`connectDestroyed` (`TcpConnection.cc:306`) disables the channel only in `kConnected`. `~TcpServer` over a
connection that is shutting down removes a channel that still listens, against `Channel.cc:61`: the run
`tcpconnection_dtor_disconnecting`.

These counterexamples are kept with a configuration of their own, to be run by hand on the `MC_` module
of the same name:

| configuration | violated | what happens |
|---|---|---|
| `PollPoller_reenable` | `WatchesInterest` | `updateChannel` (`PollPoller.cc:105`) never restores a negated descriptor: a channel disabled and enabled again, as `examples/hiredis/Hiredis.cc` does, is deaf under `poll(2)`; `EPollPoller` does not have this fault |
| `PollPoller_neverEnabled` | `RemovedIsIgnored` | a channel whose first update is `disableAll()`, as in `~Acceptor` before `listen()`, is not ignored, and its removal fails `PollPoller.cc:123` |
| `EventLoopThreadPool_hasty` | `HastyDestructorReturns` | `~EventLoopThread` directly after `startLoop()`, as at the end of `EventLoopThreadPool_unittest.cc:54-65`: `quit_` is set before `loop()` clears it (the FIXME of `EventLoop.cc:107`), and `join()` never returns |
| `EventLoopThreadPool` with the invariant `NeverCrashes` instead of its properties | `NeverCrashes` | a loop quits by itself and clears `loop_` between the test and the call in `~EventLoopThread` (`EventLoopThread.cc:32-36`), or its `EventLoop` is destroyed before `quit()` calls `wakeup()` (`EventLoop.cc:139-144`) |
| `TcpConnection_dtor` with the property `SessionSpec` | `SessionSpec` | a foreign `shutdown()` stores `kDisconnecting` over the `kDisconnected` of `connectDestroyed`, a queued send registers the removed channel for writing, the peer resets: `POLLHUP` without `POLLIN` (`Channel.cc:87-94`) calls `handleClose`, and the user is told "down" a second time |
| `TcpConnection_forceClose` | `ErasedOnce` | `forceClose()` of another thread stores `kDisconnecting` over `kDisconnected`, the connection is closed twice |
| `TimerQueue_cancelInBatch` | `CanceledNeverRuns` | a timer cancelled by an earlier callback of the same batch is still called |
| `TcpClient_stopElsewhere` | `StopHolds` | `stop()` in another thread, which `Connector.h:43` allows, between the test of `connect_` in `removeConnection` and `restart()`: the client connects again |
| `TcpClient_connectTwice` | `ClientSound` | a second `connect()` while the client is connecting fails the assertion of `Connector.cc:51` |
| `TcpClient_destroyEarly` | `ClientSound` | `~TcpClient` while `resetChannel` is queued: the connector dies with its channel (`Connector.cc:39`) |
| `NtyServer_noDescriptors` | `Scheduled` | without a descriptor left `nty_accept` returns -1 and the server creates a reader all the same; two readers wait for descriptor -1 and the assertion of `nty_schedule.c:172` fails |
| `AsyncLogging_stop` | `NothingLeft` | what was appended after the last batch was taken is not written when the log is stopped; nothing promises that it is |

What does hold in those cases is proved: the byte stream stays right (`DataCorrect`) also if another thread
forces the close, against the header's advice, and the whole of `LifeSound` holds when the server dies under a
connection that nobody closes (`LifeCorrect`). With the foreign `shutdown()` of the run `tcpconnection_dtor` it does
not (`DisconnectedWhenDestroyed`, `RegisteredIsAlive`, `ErasedOnce` and `SessionSpec` fail: `state_` is left at
`kDisconnecting`, and a send that was queued registers the removed channel again). What is left of the session then is proved without any condition on other threads:
messages come only before the first "down" (`NoMessageAfterDown`).

## What is proved

`EventLoop_proofs` proves for every set of threads, functors and I/O channels and every bound:

* `TypeCorrect`: `Spec => []TypeOK`;
* `FifoCorrect`: `Spec => []FifoNoLoss`;
* `WakeupCorrect`: `Spec => []NoLostWakeup`;
* `QuitCorrect`: `Spec => []NoLostQuit`;
* `ImplementsQueue`: `Spec => QueueSpec`, the refinement of `FunctorQueue`.

`NoLostWakeup` is not inductive: whether a functor pushed without a wakeup will be seen depends on where
the loop is. The invariant is `IInv`: `TypeOK`, `PhaseInv` (the flag `callingPendingFunctors_` and the batch
agree with the program counter), `FifoNoLoss`, `WakeAccount` (at every place from which the loop may get to
poll without another swap, pending functors have a wakeup coming or are quiet) and `NoLostQuit`. Each has a
lemma for `Next` with a step per action; the temporal theorems combine them with `PTL`. The refinement needs
`FifoNoLoss`: the oldest functor of the abstract queue is the head of the batch. The constants' assumption is
used for nothing but the sorts of the data.

`DefaultPoller_proofs` proves for every set of channels and descriptors, assuming only that the value for "no
entry" is not an entry and that descriptors are natural numbers:

* `TablesCorrect`: `Spec => []TableSound` of `EPollPoller`, and `NothingFails`, its part about assertions and
  `epoll_ctl`; `DefaultTablesCorrect`, the same for a loop that chooses its poller;
* `ImplementsPoller` and `DefaultImplementsPoller`: `EPollPoller` implements `Poller`;
* `ArrayCorrect`: with `~DisableNew`, `DefaultSpec => []ArraySound` of `PollPoller`;
* `ArrayImplementsPoller`: with `~Reenable`, `PollPoller` implements `Poller`.

None of these is inductive. That an `epoll_ctl` cannot fail rests on the index telling the kernel's state.
`IInv` says so: `MapSound` (`channels_` is a map from descriptors, of the channels whose index is not
`kNew`), `RemovedSound` (a removed channel has index `kNew`) and `KernelSound` (the kernel has exactly the
channels whose index is `kAdded`, with their events). `UsableIsAlone` turns it into what the two operations
read, `UpdateSucceeds` and `RemoveSucceeds` into what they do. For the array, `ArrayInv` says that indices
and entries are each other's inverse, also where a removal has swapped the last entry into the hole
(`ArrayRemoveInv`), and which entries are ignored. The two hypotheses are on what the owners of channels do, and
both are needed: `PollPoller_neverEnabled.cfg` and `PollPoller_reenable.cfg` are the counterexamples.

`TcpConnection_proofs` proves for every finite set of threads (the loop's not among them), every message
length, socket buffer and high-water mark:

* `TypeCorrect`: `Spec => []TypeOK`;
* `DataCorrect`: `Spec => []NothingReordered`;
* `OrderCorrect`: `Spec => []OrderPerThread`;
* `OutputCorrect`: if other threads only send (`OthersOnlySend`), `Spec => []OutputSound`;
* `LifeCorrect`: if moreover nobody closes a connection that `~TcpServer` may find (`NoneDisconnecting`),
  `Spec => []LifeSound`;
* `ImplementsSession`: if other threads only send (`OthersOnlySend`), `Spec => SessionSpec`, the refinement of
  `Session`, whenever the server dies;
* `NoMessageAfterDown`: `Spec => MessagesWhileUp`, with any calls of other threads.

`OthersOnlySend` is what the header asks (`TcpConnection.h:70`), and `TcpConnection_forceClose.cfg` shows what
happens without it;
`NoneDisconnecting` leaves out the bug that `tcpconnection_dtor_disconnecting` finds. `DataInv` adds to
`NothingReordered` that the socket holds at most its buffer, so that `write(2)` takes between nothing and
everything: `SendInLoopData` (either the buffer is empty or nothing is written directly) and `HandleWriteData`
(a prefix of the buffer moves to the socket) carry the argument, and every other step leaves the data alone and
posts at most one functor (`PostsOnly`). `StartInv` says that nothing else happens before
`connectEstablished`, `SessionInv` that the connection goes down once and reads nothing afterwards, `OrderInv`
orders what waits in the loop's queue, and `LifeInv` follows the hand-over from the server's map to
`connectDestroyed`: the callback, the server's functor, the loop's functor, one of them at a time.

`TimerQueue_proofs` proves for all addresses, bounds, delays and intervals below `Off` (the value that stands
for "never"):

* `AccountCorrect`: `Spec => []TimersAccounted`;
* `ArmedCorrect`: `Spec => []NoOversleep`;
* `BatchCorrect`: `Spec => []BatchSound`.

`AccountInv` says that each live timer waits in the loop's queue, is in both sets or in the batch, and only one of
the three, and that a sequence number was given once; it holds through the reuse of addresses because what is freed
has left all three. `TimeInv` bounds expirations by `now + Off`; `CancelInv` and `RunInv` are what
`cancelingTimers_` and `repeat_` are for. `LeastNat` gives the earliest timer.

`ThreadPool_proofs` proves, for every finite set of workers and of callers and every limit, `QueueCorrect`,
`Spec => []QueueSound`, and `WakeupsSuffice`, `Spec => []NobodyOversleeps`. `IInv` restates `TakenOnce` element by
element (`QueueIsSuffix`, `TasksSound`) and adds `ArgsSound`: the tasks in the hands of callers are new, and no task
is accepted twice. `WakeInv` counts those who are awake: a `notify()` with nobody to wake is only lost
where everybody is awake.

Its last section is about `EventLoopThreadPool`: `LoopPoolCorrect`, `Spec => []PoolSound`, for any number of threads
and of calls of `getNextLoop()`, with loops that quit by themselves and with an owner that destroys the pool at
once (which may hang, but hands out only loops that are there). `RestInv` is for `CrashesInRacesOnly`: until the destructor
comes to a loop that rests, nothing wakes it up, so its `loop_` stays. `PoolInv` follows the owner from thread to thread:
`OwnerPlaced` (where it is says which threads have been started, and `loops_` is these threads in order),
`ThreadsPlaced` (a thread that was started has published its loop, or the owner waits for it; `loop_` is cleared only
after a quit) and `Dealt` (the counts are equal, or one more up to `next_`).

`TcpClient_proofs` proves `StopCorrect`: if no other thread calls `stop()`, `Spec => StopHolds`, for any
number of `connect()` and `stop()` and for a client that is destroyed early. The step property rests on
`StopSound` (after `stop()` both `connect_` are false, no restart is under way and the other thread is in no
call) and on `ChannelSound`, without which a late event could remove a channel that is not there: a
connecting connector has a live channel, and there is one `resetChannel` in queue and batch together, and
only while the channel is removed. `ChannelSound` is an invariant as long as no assertion has failed; `TakeFunctor` and
`AppendFunctor` say what taking and queueing functors does to it.

`ClientCorrect`: with `~HastyConnect`, `~StopElsewhere` and `~DestroyEarly`, `Spec => []ClientSound`, again for any
number of `connect()`; each hypothesis has its counterexample above. `ClientInv` names what is or becomes a
connection (a `connect()` in the other thread, a queued `startInLoop`, an armed timer, an attempt, the
connection, a restart) and says that at most one of them is there (`OneWay`) and with which state of the connector
(`StateSound`). What keeps them apart in time is `RemovedSound` (a removed channel is freed before the loop polls again,
so before the timer that its attempt armed) and `DueSound` (what poll reported is still so when it is handled).
`StopQueuedSound` and `DestroyedSound` say why a late `stopInLoop` finds no new attempt, and what is left of a client
that was destroyed. There is one lemma per action.

`AsyncLogging_proofs` proves, for any size of buffers, any number of messages and any limit of at least two,
`BuffersCorrect`, `Spec => []BuffersSound` (the first part of `LogSound`), and `LogCorrect`, `Spec => []LogSound`.
`LocalsSound` is the strengthening of the first: while a batch is written it has two buffers if `nextBuffer_` had
been used up, else one, and cutting it down (`KeptLen`) leaves as many. `OrderInv` is that of the second:
the file followed by all that is in hand rises and has every message but the dropped ones. What is in hand
is flattened from a sequence of buffers by a recursive function of the community modules; the lemmas on it
(from `FlattenUnique` to `FlattenConcat`) get round induction by looking at the least length at which they fail.

`NtyServer_proofs` proves for any number of servers, descriptors, connections and requests:

* `DescriptorCorrect`: `Spec => []RightDescriptor`, also after an assertion has failed;
* `ScheduledUntilLost`: `Spec => [](Scheduled \/ TwoLost)`: the scheduler is correct until `accept(2)` has
  failed twice, and two readers were created without a connection;
* `SchedulerCorrect`: with `Fds >= MaxConns` and `MaxErrors <= 1`, `Spec => []Scheduled`.
  `NtyServer_noDescriptors.cfg` is the counterexample where descriptors run out.

`Strong` is the inductive invariant. `ReadySound` and `WaitSound` say where each coroutine is (in the ready queue,
in the tree under its own descriptor, or running), `EventSound` that what is left of the events is for others than
the running coroutine, `FdSound` that descriptors, connections and readers match one to one, and
`StartSound` why the shared `cli_fd` is safe: a reader is in the ready queue ahead of its server, and the server is
not among the events left, so it does not accept again before the reader has read `cli_fd`. `LostSound` says that
the reader of a failed `accept` gets no further than its first wait, that of `nty_recv`, on descriptor -1: the second one there
is what the assertion of `nty_schedule_sched_wait` meets (`WaitFails`). `HasDescriptor` counts: as many
descriptors as connections, and a connection in the backlog, leave one free.

Only model-checked: every liveness property (fairness and ENABLED are out of the prover's reach);
and everything about `Kcp` (`Accounted`, `ChannelSpec`), whose input folds over the segments of a datagram, a
recursion whose value the provers can only reach by induction over data.

## Not modelled

* `M/net`: `Acceptor` (a callback around `accept(2)` and a spare descriptor), `Buffer` (index arithmetic,
  sequential and tested), HTTP, inspector, protobuf codec and RPC channel (sequential parsers and a
  table of calls over `TcpConnection`). `M/base`: formatting and files of the log, latch and queues
  (monitors like those of `ThreadPool`), utilities.
* Several I/O loops around one dying server (the code marks its raw `this` with "FIXME: unsafe"), the
  destruction of an `EventLoop` that another thread is quitting (in `EventLoop`;
  `EventLoopThreadPool` has it) and of a `TcpClient` in another thread than its loop's (`TcpClient.cc:89`), the
  destructor of `TimerQueue`, a `ThreadPool` without threads, a thread's loop that quits before
  `startLoop()` has looked at it (it then returns `NULL` or waits for ever), clocks that go backwards.
* NtyCo's tree of sleeping coroutines: every wait has the time-out 1, for which `nty_schedule_sched_wait`
  returns before it inserts, and no program here sleeps for a time, so the tree stays empty. Signals
  (`SIGPIPE`: a send to a connection that was reset fails here, and the program goes on), and several processes behind one listening socket.
* KCP: times and round-trip estimates, stream mode, `dead_link`, the setters after creation, sizes in
  bytes. `kcp_hw` holds the same protocol a second time.
* The reactor of 2.2.2, the tutorial servers of 2.1 and 2.2.1, the packet responder of 2.4,
  the examples and the ports to Go and C++11, the recipes: programs without a concurrency of their own,
  or earlier stages and copies of the code modelled.

## Plan

1. Proofs: of `Kcp` the lemmas that `ParseUna` and `ParseAck` remove
   nothing the other peer has not got.
2. `Kcp` with a window of three, where congestion avoidance begins, and both peers sending.
3. `Acceptor` with its spare descriptor as an owner of the channels in `DefaultPoller`; the RPC channel
   over `TcpConnection`'s `Session`.
