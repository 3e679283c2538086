---------------------------- MODULE EPollPoller ----------------------------
(***************************************************************************)
(* muduo::net::EPollPoller: the map of channels, the index each channel    *)
(* carries for the poller and the interest list of the epoll descriptor.   *)
(* Channel's enable, disable and remove functions are the operations.      *)
(*                                                                         *)
(* Several channels may have one descriptor, one after the other: a        *)
(* descriptor is closed, and handed out again, after its channel is        *)
(* removed.  A channel that was removed is not used again.                 *)
(***************************************************************************)
EXTENDS Naturals, FiniteSets

CONSTANTS
    Channels,        \* Channel objects
    Fds,             \* descriptors
    NoFd             \* the entry of a descriptor epoll does not have

ASSUME EPollPollerAssumption == NoFd \notin [channel : Channels, events : SUBSET {"read", "write"}]

Events == {"read", "write"}

kNew == 0       \* -1 in the code
kAdded == 1
kDeleted == 2

VARIABLES
    fd,              \* fd_ of each channel
    events,          \* events_ of each channel
    index,           \* index_ of each channel
    removed,         \* channels that were removed
    channels,        \* channels_: the descriptors and their channels
    epoll,           \* the kernel's interest list
    failed           \* history: assertions and epoll_ctl calls that failed

vars == <<fd, events, index, removed, channels, epoll, failed>>

TypeOK ==
    /\ fd \in [Channels -> Fds]
    /\ events \in [Channels -> SUBSET Events]
    /\ index \in [Channels -> {kNew, kAdded, kDeleted}]
    /\ removed \subseteq Channels
    /\ channels \subseteq Channels
    /\ epoll \in [Fds -> [channel : Channels, events : SUBSET Events] \cup {NoFd}]
    /\ failed \subseteq {"update", "remove", "epoll_ctl"}

Init ==
    /\ fd \in [Channels -> Fds]
    /\ events = [c \in Channels |-> {}]
    /\ index = [c \in Channels |-> kNew]
    /\ removed = {}
    /\ channels = {}
    /\ epoll = [d \in Fds |-> NoFd]
    /\ failed = {}

\* channels_.find(fd): the channels_ entry of c's descriptor, as a set
Find(c) == {d \in channels : fd[d] = fd[c]}

\* update(operation, channel): epoll_ctl fails with EEXIST or ENOENT.
EpollCtl(op, c, ev) ==
    LET entry == epoll[fd[c]] IN
    IF (op = "ADD") # (entry = NoFd)
    THEN UNCHANGED epoll
    ELSE epoll' = [epoll EXCEPT ![fd[c]] =
                      IF op = "DEL" THEN NoFd ELSE [channel |-> c, events |-> ev]]

Fails(op, c) == (op = "ADD") # (epoll[fd[c]] = NoFd)

\* Mutation of Operation: a deleted descriptor is modified, not added again.
OperationOnDeleted(c, ev) ==
    CASE index[c] = kNew -> "ADD"
      [] index[c] = kAdded /\ ev = {} -> "DEL"
      [] OTHER -> "MOD"

\* The operation updateChannel asks epoll_ctl for.
Operation(c, ev) ==
    CASE index[c] \in {kNew, kDeleted} -> "ADD"
      [] index[c] = kAdded /\ ev = {} -> "DEL"
      [] OTHER -> "MOD"

\* The index updateChannel leaves.
IndexAfter(op) == IF op = "DEL" THEN kDeleted ELSE kAdded

\* updateChannel, after the channel set events_ to ev
UpdateChannel(c, ev) ==
    LET op == Operation(c, ev)
        found == IF index[c] = kNew THEN Find(c) = {} ELSE Find(c) = {c}
    IN  /\ channels' = channels \cup {c}
        /\ index' = [index EXCEPT ![c] = IndexAfter(op)]
        /\ EpollCtl(op, c, ev)
        /\ failed' = failed \cup (IF found THEN {} ELSE {"update"})
                            \cup (IF Fails(op, c) THEN {"epoll_ctl"} ELSE {})

\* The descriptor of c is c's: no other channel of it is in use.
Usable(c) ==
    /\ c \notin removed
    /\ \A d \in Channels \ {c} : fd[d] = fd[c] => (index[d] = kNew \/ d \in removed)

\* enableReading, enableWriting, disableReading, disableWriting, disableAll
SetEvents(c, ev) ==
    /\ Usable(c)
    /\ events' = [events EXCEPT ![c] = ev]
    /\ UpdateChannel(c, ev)
    /\ UNCHANGED <<fd, removed>>

\* Mutation of InKernel: removeChannel never deletes the descriptor.
NotInKernel(c) == FALSE

\* removeChannel deletes the descriptor from epoll if it is there.
InKernel(c) == index[c] = kAdded

\* Channel::remove, removeChannel
RemoveChannel(c) ==
    /\ Usable(c)
    /\ index[c] # kNew
    /\ events[c] = {}
    /\ channels' = channels \ Find(c)
    /\ IF InKernel(c) THEN EpollCtl("DEL", c, {}) ELSE UNCHANGED epoll
    /\ failed' = failed \cup (IF Find(c) = {c} THEN {} ELSE {"remove"})
                        \cup (IF InKernel(c) /\ Fails("DEL", c)
                              THEN {"epoll_ctl"} ELSE {})
    /\ index' = [index EXCEPT ![c] = kNew]
    /\ removed' = removed \cup {c}
    /\ UNCHANGED <<fd, events>>

Next ==
    \E c \in Channels :
        \/ \E ev \in SUBSET Events : SetEvents(c, ev)
        \/ RemoveChannel(c)

Spec == Init /\ [][Next]_vars
-----------------------------------------------------------------------------
(* Properties *)

\* EPollPoller.cc:118-136, 154-161, 185: no assertion of the poller fails, and
\* no epoll_ctl adds a descriptor twice or changes one that is not there.
NoFailure == failed = {}

\* fillActiveChannels (EPollPoller.cc:95-101): an entry of the interest list
\* points to a channel that is in channels_ under its descriptor, so the raw
\* pointer epoll_wait gives back is never that of a removed channel.
EntriesAreLive ==
    \A d \in Fds : epoll[d] # NoFd =>
        (epoll[d].channel \in channels \ removed /\ fd[epoll[d].channel] = d)

\* The tables of EPollPoller, the poller's and the kernel's, and what is
\* asserted of them.
TableSound == TypeOK /\ NoFailure /\ EntriesAreLive

\* What poll reports of a channel.
Watched == [c \in Channels |->
               IF epoll[fd[c]] # NoFd /\ epoll[fd[c]].channel = c
               THEN epoll[fd[c]].events ELSE {}]

\* Poller.h:44: the poller watches what the channels ask for.
Interface == INSTANCE Poller WITH interest <- events, watched <- Watched
PollerSpec == Interface!Spec
=============================================================================
