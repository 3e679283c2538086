----------------------------- MODULE PollPoller -----------------------------
(***************************************************************************)
(* muduo::net::PollPoller: the array pollfds_ given to poll(2), in which   *)
(* the entry of a channel that asks for nothing has the descriptor         *)
(* -fd - 1, and the index_ of each channel into it.                        *)
(*                                                                         *)
(* The descriptors are 0, 1, ...; as in EPollPoller one may be reused by   *)
(* another channel after its channel is removed, and a channel that was    *)
(* removed is not used again.                                              *)
(***************************************************************************)
EXTENDS Integers, Sequences

CONSTANTS
    Channels,
    Fds,             \* descriptors, a set of naturals
    Reenable,        \* channels that were disabled may be enabled again
    DisableNew       \* channels that were never enabled may be disabled

Events == {"read", "write"}

VARIABLES
    fd,              \* fd_ of each channel
    events,          \* events_ of each channel
    index,           \* index_ of each channel; -1 for none
    removed,         \* channels that were removed
    channels,        \* channels_
    pollfds,         \* pollfds_
    failed           \* history: assertions that failed

vars == <<fd, events, index, removed, channels, pollfds, failed>>

TypeOK ==
    /\ fd \in [Channels -> Fds]
    /\ events \in [Channels -> SUBSET Events]
    /\ index \in [Channels -> Nat \cup {-1}]
    /\ removed \subseteq Channels
    /\ channels \subseteq Channels
    /\ pollfds \in Seq([fd : Int, events : SUBSET Events])
    /\ failed \subseteq {"update", "remove"}

Init ==
    /\ fd \in [Channels -> Fds]
    /\ events = [c \in Channels |-> {}]
    /\ index = [c \in Channels |-> -1]
    /\ removed = {}
    /\ channels = {}
    /\ pollfds = <<>>
    /\ failed = {}

Ignored(d) == -d - 1        \* what poll(2) skips
Find(d) == {c \in channels : fd[c] = d}

Usable(c) ==
    /\ c \notin removed
    /\ \A d \in Channels \ {c} : fd[d] = fd[c] => (index[d] = -1 \/ d \in removed)

\* Mutation of AddChannel: pfd.events is not filled in.
AddChannelNoEvents(c, ev) ==
    /\ index[c] < 0
    /\ pollfds' = Append(pollfds, [fd |-> fd[c], events |-> {}])
    /\ index' = [index EXCEPT ![c] = Len(pollfds)]
    /\ channels' = channels \cup {c}
    /\ failed' = IF Find(fd[c]) = {} THEN failed ELSE failed \cup {"update"}

\* updateChannel of a channel that has no index
AddChannel(c, ev) ==
    /\ index[c] < 0
    /\ pollfds' = Append(pollfds, [fd |-> fd[c], events |-> ev])
    /\ index' = [index EXCEPT ![c] = Len(pollfds)]
    /\ channels' = channels \cup {c}
    /\ failed' = IF Find(fd[c]) = {} THEN failed ELSE failed \cup {"update"}

\* The descriptor updateChannel leaves in the entry.
EntryFd(c, ev, old) == IF ev = {} THEN Ignored(fd[c]) ELSE old

\* updateChannel of a channel that has one: the descriptor of the entry is
\* changed when there is nothing to wait for, and not otherwise.
ChangeChannel(c, ev) ==
    LET entry == pollfds[index[c] + 1] IN
    /\ index[c] >= 0
    /\ pollfds' = [pollfds EXCEPT ![index[c] + 1] =
                      [fd |-> EntryFd(c, ev, @.fd), events |-> ev]]
    /\ failed' = IF Find(fd[c]) = {c} /\ entry.fd \in {fd[c], Ignored(fd[c])}
                 THEN failed ELSE failed \cup {"update"}
    /\ UNCHANGED <<index, channels>>

\* enableReading, enableWriting, disableReading, disableWriting, disableAll
SetEvents(c, ev) ==
    /\ Usable(c)
    /\ Reenable \/ (index[c] >= 0 /\ events[c] = {} => ev = {})
    /\ DisableNew \/ (index[c] < 0 => ev # {})
    /\ events' = [events EXCEPT ![c] = ev]
    /\ AddChannel(c, ev) \/ ChangeChannel(c, ev)
    /\ UNCHANGED <<fd, removed>>

\* Mutation of ChannelAtEnd: a negative descriptor is not converted back.
ChannelAtEndAsIs(d) == d

\* The descriptor of the channel whose entry holds d.
ChannelAtEnd(d) == IF d < 0 THEN Ignored(d) ELSE d

\* Channel::remove, removeChannel: the last entry takes the place of c's, and
\* its channel, found by descriptor, the index of c.
RemoveChannel(c) ==
    LET idx == index[c]
        entry == pollfds[idx + 1]
        last == Len(pollfds) - 1
        channelAtEnd == ChannelAtEnd(pollfds[last + 1].fd)
    IN  /\ Usable(c)
        /\ idx >= 0
        /\ events[c] = {}
        /\ failed' = IF /\ Find(fd[c]) = {c}
                        /\ entry.fd = Ignored(fd[c]) /\ entry.events = events[c]
                     THEN failed ELSE failed \cup {"remove"}
        /\ channels' = channels \ Find(fd[c])
        /\ pollfds' = SubSeq([pollfds EXCEPT ![idx + 1] = pollfds[last + 1]], 1, last)
        /\ index' = IF idx = last THEN index
                    ELSE [d \in Channels |-> IF d \in channels' /\ fd[d] = channelAtEnd
                                             THEN idx ELSE index[d]]
        /\ removed' = removed \cup {c}
        /\ UNCHANGED <<fd, events>>

Next ==
    \E c \in Channels :
        \/ \E ev \in SUBSET Events : SetEvents(c, ev)
        \/ RemoveChannel(c)

Spec == Init /\ [][Next]_vars
-----------------------------------------------------------------------------
(* Properties *)

\* PollPoller.cc:84, 97-102, 117-125: no assertion fails.
NoFailure == failed = {}

\* PollPoller.cc:120-123 by itself: the entry of a channel that is removed is
\* ignored by poll.
RemovedIsIgnored == "remove" \notin failed

\* After any sequence of swaps with the last entry (PollPoller.cc:126-140),
\* the entries are those of the channels in channels_, one each, where their
\* index_ says.
IndicesAgree ==
    /\ \A c \in channels :
          /\ index[c] \in 0..Len(pollfds) - 1
          /\ pollfds[index[c] + 1].fd \in {fd[c], Ignored(fd[c])}
    /\ \A i \in DOMAIN pollfds : \E c \in channels : index[c] = i - 1

\* The array and the map of PollPoller, and what is asserted of them.
ArraySound == TypeOK /\ NoFailure /\ IndicesAgree

\* What poll reports of a channel, by the descriptor of an entry.
Watched == [c \in Channels |->
               IF c \in channels
               THEN UNION {pollfds[i].events : i \in {j \in DOMAIN pollfds : pollfds[j].fd = fd[c]}}
               ELSE {}]

\* Poller.h:44, "Changes the interested I/O events": after updateChannel the
\* poller watches what the channel asks for.
WatchesInterest == Watched = events

Interface == INSTANCE Poller WITH interest <- events, watched <- Watched
PollerSpec == Interface!Spec
=============================================================================
