------------------------- MODULE DefaultPoller_proofs -------------------------
(***************************************************************************)
(* For every set of channels and descriptors: the tables of EPollPoller    *)
(* and the kernel's interest list stay consistent, none of the poller's    *)
(* assertions and epoll_ctl calls fails, and the poller implements Poller; *)
(* the array of PollPoller and its map agree, and it implements Poller if  *)
(* channels that were disabled are not enabled again; and so does the      *)
(* poller of a loop, whichever of the two the environment chose.           *)
(***************************************************************************)
EXTENDS DefaultPoller, Integers, SequenceTheorems, TLAPS

-----------------------------------------------------------------------------
(* EPollPoller *)


\* channels_ holds the channels whose index is not kNew, and no two channels of
\* one descriptor: it is a map from descriptors.
MapSound ==
    /\ \A c \in Channels : c \in channels <=> index[c] # kNew
    /\ \A c, d \in channels : fd[c] = fd[d] => c = d

\* A removed channel has gone from the map.
RemovedSound == \A c \in removed : index[c] = kNew

\* The interest list holds the channels whose index is kAdded, each under its
\* descriptor and with its events; the others have no events.
KernelSound ==
    /\ \A c \in Channels : index[c] = kAdded =>
           epoll[fd[c]] = [channel |-> c, events |-> events[c]]
    /\ \A c \in Channels : index[c] # kAdded => events[c] = {}
    /\ \A d \in Fds : epoll[d] # NoFd =>
           /\ epoll[d].channel \in Channels
           /\ index[epoll[d].channel] = kAdded
           /\ fd[epoll[d].channel] = d

IInv == TypeOK /\ MapSound /\ RemovedSound /\ KernelSound /\ NoFailure

\* The descriptor of a usable channel is no other mapped channel's.
LEMMA UsableIsAlone ==
    ASSUME IInv, NEW c \in Channels, Usable(c)
    PROVE  /\ \A d \in Channels : d # c /\ fd[d] = fd[c] => index[d] = kNew
           /\ Find(c) = IF index[c] = kNew THEN {} ELSE {c}
           /\ epoll[fd[c]] = NoFd <=> index[c] # kAdded
<1>1. \A d \in Channels : d # c /\ fd[d] = fd[c] => index[d] = kNew
  BY DEF IInv, TypeOK, RemovedSound, Usable
<1>2. Find(c) = IF index[c] = kNew THEN {} ELSE {c}
  <2>1. channels \subseteq Channels
    BY DEF IInv, TypeOK
  <2>2. \A d \in channels : fd[d] = fd[c] => d = c
    BY <1>1, <2>1 DEF IInv, MapSound
  <2>3. QED
    BY <2>1, <2>2 DEF IInv, MapSound, Find
<1>3. epoll[fd[c]] = NoFd <=> index[c] # kAdded
  <2>1. fd[c] \in Fds
    BY DEF IInv, TypeOK
  <2>2. ASSUME index[c] = kAdded PROVE epoll[fd[c]] # NoFd
    <3>1. epoll[fd[c]] = [channel |-> c, events |-> events[c]]
      BY <2>2 DEF IInv, KernelSound
    <3>2. events[c] \in SUBSET {"read", "write"}
      BY DEF IInv, TypeOK, Events
    <3>3. QED
      BY <3>1, <3>2, EPollPollerAssumption
  <2>3. ASSUME epoll[fd[c]] # NoFd PROVE index[c] = kAdded
    <3>1. PICK d \in Channels : d = epoll[fd[c]].channel /\ index[d] = kAdded
                                /\ fd[d] = fd[c]
      BY <2>1, <2>3 DEF IInv, KernelSound
    <3>2. index[d] # kNew
      BY <3>1 DEF kAdded, kNew
    <3>3. QED
      BY <1>1, <3>1, <3>2
  <2>4. QED
    BY <2>2, <2>3
<1>4. QED
  BY <1>1, <1>2, <1>3

\* updateChannel asks epoll_ctl for what epoll can do: no call fails.
LEMMA UpdateSucceeds ==
    ASSUME IInv, NEW c \in Channels, NEW ev \in SUBSET Events, SetEvents(c, ev)
    PROVE  /\ failed' = failed
           /\ index' = [index EXCEPT ![c] = IF index[c] = kAdded /\ ev = {}
                                            THEN kDeleted ELSE kAdded]
           /\ epoll' = [epoll EXCEPT ![fd[c]] =
                          IF index[c] = kAdded /\ ev = {} THEN NoFd
                          ELSE [channel |-> c, events |-> ev]]
<1> DEFINE op == Operation(c, ev)
<1>1. index[c] \in {kNew, kAdded, kDeleted}
  BY DEF IInv, TypeOK
<1>2. op = IF index[c] # kAdded THEN "ADD" ELSE IF ev = {} THEN "DEL" ELSE "MOD"
  BY <1>1 DEF Operation, kNew, kAdded, kDeleted
<1>3. /\ epoll[fd[c]] = NoFd <=> index[c] # kAdded
      /\ Find(c) = IF index[c] = kNew THEN {} ELSE {c}
  BY UsableIsAlone DEF SetEvents
<1>4. ~ Fails(op, c)
  BY <1>2, <1>3 DEF Fails
<1>5. failed' = failed
  BY <1>3, <1>4 DEF SetEvents, UpdateChannel
<1>6. index' = [index EXCEPT ![c] = IF op = "DEL" THEN kDeleted ELSE kAdded]
  BY DEF SetEvents, UpdateChannel, IndexAfter
<1>7. epoll' = [epoll EXCEPT ![fd[c]] =
                  IF op = "DEL" THEN NoFd ELSE [channel |-> c, events |-> ev]]
  BY <1>4 DEF SetEvents, UpdateChannel, EpollCtl, Fails
<1>8. op = "DEL" <=> index[c] = kAdded /\ ev = {}
  BY <1>2
<1> HIDE DEF op
<1>9. QED
  BY <1>5, <1>6, <1>7, <1>8

\* removeChannel succeeds as well.
LEMMA RemoveSucceeds ==
    ASSUME IInv, NEW c \in Channels, RemoveChannel(c)
    PROVE  /\ failed' = failed
           /\ channels' = channels \ {c}
           /\ epoll' = [epoll EXCEPT ![fd[c]] = NoFd]
<1>1. /\ epoll[fd[c]] = NoFd <=> index[c] # kAdded
      /\ Find(c) = {c}
  BY UsableIsAlone DEF RemoveChannel
<1>2. failed' = failed
  BY <1>1 DEF RemoveChannel, InKernel, Fails
<1>3. channels' = channels \ {c}
  BY <1>1 DEF RemoveChannel
<1>4. epoll' = [epoll EXCEPT ![fd[c]] = NoFd]
  <2>1. CASE index[c] = kAdded
    BY <1>1, <2>1 DEF RemoveChannel, InKernel, EpollCtl
  <2>2. CASE index[c] # kAdded
    <3>1. epoll \in [Fds -> [channel : Channels, events : SUBSET Events] \cup {NoFd}]
      BY DEF IInv, TypeOK
    <3>2. epoll' = epoll /\ epoll[fd[c]] = NoFd
      BY <1>1, <2>2 DEF RemoveChannel, InKernel
    <3>3. QED
      BY <3>1, <3>2
  <2>3. QED
    BY <2>1, <2>2
<1>5. QED
  BY <1>2, <1>3, <1>4

-----------------------------------------------------------------------------
(* The invariant is inductive *)

LEMMA InvInit == Init => IInv
BY DEF Init, IInv, TypeOK, MapSound, RemovedSound, KernelSound, NoFailure, kNew, kAdded

LEMMA SetEventsInv ==
    ASSUME IInv, NEW c \in Channels, NEW ev \in SUBSET Events, SetEvents(c, ev)
    PROVE  IInv'
<1> DEFINE deleted == index[c] = kAdded /\ ev = {}
<1>1. /\ failed' = failed
      /\ index' = [index EXCEPT ![c] = IF deleted THEN kDeleted ELSE kAdded]
      /\ epoll' = [epoll EXCEPT ![fd[c]] =
                     IF deleted THEN NoFd ELSE [channel |-> c, events |-> ev]]
  BY UpdateSucceeds
<1>2. /\ events' = [events EXCEPT ![c] = ev]
      /\ channels' = channels \cup {c}
      /\ UNCHANGED <<fd, removed>>
      /\ Usable(c)
  BY DEF SetEvents, UpdateChannel
<1>3. \A d \in Channels : d # c /\ fd[d] = fd[c] => index[d] = kNew
  BY <1>2, UsableIsAlone
<1>4. deleted => ev = {}
  OBVIOUS
<1> HIDE DEF deleted
<1>5. TypeOK'
  BY <1>1, <1>2 DEF IInv, TypeOK
<1>6. MapSound'
  <2>1. \A d \in Channels : index'[d] = IF d = c THEN IF deleted THEN kDeleted ELSE kAdded
                                        ELSE index[d]
    BY <1>1 DEF IInv, TypeOK
  <2>2. \A d \in Channels : d \in channels' <=> index'[d] # kNew
    BY <1>2, <2>1 DEF IInv, MapSound, kNew, kAdded, kDeleted
  <2>3. \A d, e \in channels' : fd'[d] = fd'[e] => d = e
    BY <1>2, <1>3 DEF IInv, TypeOK, MapSound
  <2>4. QED
    BY <2>2, <2>3 DEF MapSound
<1>7. RemovedSound'
  BY <1>1, <1>2 DEF IInv, TypeOK, RemovedSound, Usable
<1>8. KernelSound'
  <2>1. ASSUME NEW d \in Channels, index'[d] = kAdded
        PROVE  epoll'[fd'[d]] = [channel |-> d, events |-> events'[d]]
    <3>1. CASE d = c
      <4>1. ~ deleted
        BY <1>1, <2>1, <3>1 DEF IInv, TypeOK, kAdded, kDeleted
      <4>2. QED
        BY <1>1, <1>2, <3>1, <4>1 DEF IInv, TypeOK
    <3>2. CASE d # c
      <4>1. index[d] = kAdded
        BY <1>1, <2>1, <3>2 DEF IInv, TypeOK
      <4>2. fd[d] # fd[c]
        BY <1>3, <3>2, <4>1 DEF kNew, kAdded
      <4>3. epoll'[fd'[d]] = epoll[fd[d]] /\ events'[d] = events[d]
        BY <1>1, <1>2, <3>2, <4>2 DEF IInv, TypeOK
      <4>4. QED
        BY <4>1, <4>3 DEF IInv, KernelSound
    <3>3. QED
      BY <3>1, <3>2
  <2>2. ASSUME NEW d \in Channels, index'[d] # kAdded
        PROVE  events'[d] = {}
    <3>1. CASE d = c
      BY <1>1, <1>2, <1>4, <2>2, <3>1 DEF IInv, TypeOK
    <3>2. CASE d # c
      BY <1>1, <1>2, <2>2, <3>2 DEF IInv, TypeOK, KernelSound
    <3>3. QED
      BY <3>1, <3>2
  <2>3. ASSUME NEW d \in Fds, epoll'[d] # NoFd
        PROVE  /\ epoll'[d].channel \in Channels
               /\ index'[epoll'[d].channel] = kAdded
               /\ fd'[epoll'[d].channel] = d
    <3>1. CASE d = fd[c]
      BY <1>1, <1>2, <2>3, <3>1 DEF IInv, TypeOK
    <3>2. CASE d # fd[c]
      <4>1. epoll'[d] = epoll[d]
        BY <1>1, <3>2 DEF IInv, TypeOK
      <4>2. /\ epoll[d].channel \in Channels
            /\ index[epoll[d].channel] = kAdded
            /\ fd[epoll[d].channel] = d
        BY <2>3, <4>1 DEF IInv, KernelSound
      <4>3. epoll[d].channel # c
        BY <3>2, <4>2
      <4>4. index'[epoll[d].channel] = index[epoll[d].channel]
        BY <1>1, <4>2, <4>3 DEF IInv, TypeOK
      <4>5. QED
        BY <1>2, <4>1, <4>2, <4>4
    <3>3. QED
      BY <3>1, <3>2
  <2>4. QED
    BY <2>1, <2>2, <2>3 DEF KernelSound
<1>9. NoFailure'
  BY <1>1 DEF IInv, NoFailure
<1>10. QED
  BY <1>5, <1>6, <1>7, <1>8, <1>9 DEF IInv

LEMMA RemoveInv ==
    ASSUME IInv, NEW c \in Channels, RemoveChannel(c)
    PROVE  IInv'
<1>1. /\ failed' = failed
      /\ channels' = channels \ {c}
      /\ epoll' = [epoll EXCEPT ![fd[c]] = NoFd]
  BY RemoveSucceeds
<1>2. /\ index' = [index EXCEPT ![c] = kNew]
      /\ removed' = removed \cup {c}
      /\ UNCHANGED <<fd, events>>
      /\ Usable(c)
      /\ events[c] = {}
  BY DEF RemoveChannel
<1>3. \A d \in Channels : d # c /\ fd[d] = fd[c] => index[d] = kNew
  BY <1>2, UsableIsAlone
<1>4. \A d \in Channels : index'[d] = IF d = c THEN kNew ELSE index[d]
  BY <1>2 DEF IInv, TypeOK
<1>5. \A d \in Fds : epoll'[d] = IF d = fd[c] THEN NoFd ELSE epoll[d]
  BY <1>1 DEF IInv, TypeOK
<1>6. TypeOK'
  BY <1>1, <1>2 DEF IInv, TypeOK
<1>7. MapSound' /\ RemovedSound'
  BY <1>1, <1>2, <1>4 DEF IInv, TypeOK, MapSound, RemovedSound
<1>8. KernelSound'
  <2>1. ASSUME NEW d \in Channels, index'[d] = kAdded
        PROVE  epoll'[fd'[d]] = [channel |-> d, events |-> events'[d]]
    <3>1. d # c /\ index[d] = kAdded
      BY <1>4, <2>1 DEF kNew, kAdded
    <3>2. fd[d] # fd[c] /\ fd[d] \in Fds
      BY <1>3, <3>1 DEF IInv, TypeOK, kNew, kAdded
    <3>3. QED
      BY <1>2, <1>5, <3>1, <3>2 DEF IInv, KernelSound
  <2>2. \A d \in Channels : index'[d] # kAdded => events'[d] = {}
    BY <1>2, <1>4 DEF IInv, KernelSound
  <2>3. ASSUME NEW d \in Fds, epoll'[d] # NoFd
        PROVE  /\ epoll'[d].channel \in Channels
               /\ index'[epoll'[d].channel] = kAdded
               /\ fd'[epoll'[d].channel] = d
    <3>1. d # fd[c] /\ epoll'[d] = epoll[d]
      BY <1>5, <2>3
    <3>2. /\ epoll[d].channel \in Channels
          /\ index[epoll[d].channel] = kAdded
          /\ fd[epoll[d].channel] = d
      BY <2>3, <3>1 DEF IInv, KernelSound
    <3>3. QED
      BY <1>2, <1>4, <3>1, <3>2
  <2>4. QED
    BY <2>1, <2>2, <2>3 DEF KernelSound
<1>9. NoFailure'
  BY <1>1 DEF IInv, NoFailure
<1>10. QED
  BY <1>6, <1>7, <1>8, <1>9 DEF IInv

LEMMA InvNext == IInv /\ [Next]_vars => IInv'
<1> SUFFICES ASSUME IInv, [Next]_vars PROVE IInv'
  OBVIOUS
<1>1. ASSUME NEW c \in Channels, NEW ev \in SUBSET Events, SetEvents(c, ev)
      PROVE  IInv'
  BY <1>1, SetEventsInv
<1>2. ASSUME NEW c \in Channels, RemoveChannel(c) PROVE IInv'
  BY <1>2, RemoveInv
<1>3. CASE UNCHANGED vars
  BY <1>3 DEF vars, IInv, TypeOK, MapSound, RemovedSound, KernelSound, NoFailure
<1>4. QED
  BY <1>1, <1>2, <1>3 DEF Next

LEMMA InvImpliesTableSound == IInv => TableSound
<1> SUFFICES ASSUME IInv PROVE TableSound
  OBVIOUS
<1>1. ASSUME NEW d \in Fds, epoll[d] # NoFd
      PROVE  epoll[d].channel \in channels \ removed /\ fd[epoll[d].channel] = d
  <2>1. PICK c \in Channels : c = epoll[d].channel /\ index[c] = kAdded /\ fd[c] = d
    BY <1>1 DEF IInv, KernelSound
  <2>2. c \in channels /\ c \notin removed
    BY <2>1 DEF IInv, MapSound, RemovedSound, kNew, kAdded
  <2>3. QED
    BY <2>1, <2>2
<1>2. QED
  BY <1>1 DEF TableSound, EntriesAreLive, IInv

LEMMA InvAlways == Spec => []IInv
BY InvInit, InvNext, PTL DEF Spec

\* The interest list never has a channel that was removed: the pointer that
\* fillActiveChannels takes from epoll_wait is that of a channel in channels_.
THEOREM TablesCorrect == Spec => []TableSound
BY InvAlways, InvImpliesTableSound, PTL

\* None of the assertions of updateChannel and removeChannel fails, and no
\* epoll_ctl finds a descriptor added that it adds, or missing that it changes.
THEOREM NothingFails == Spec => []NoFailure
<1>1. IInv => NoFailure
  BY DEF IInv
<1>2. QED
  BY <1>1, InvAlways, PTL
-----------------------------------------------------------------------------
(* Refinement of Poller *)

\* A channel is watched for the events it asks for.
LEMMA WatchedIsInterest == IInv => Watched = events
<1> SUFFICES ASSUME IInv, NEW c \in Channels
             PROVE  (IF epoll[fd[c]] # NoFd /\ epoll[fd[c]].channel = c
                     THEN epoll[fd[c]].events ELSE {}) = events[c]
  BY DEF IInv, TypeOK, Watched
<1>1. fd[c] \in Fds /\ events[c] \in SUBSET {"read", "write"}
  BY DEF IInv, TypeOK, Events
<1>2. CASE index[c] = kAdded
  <2>1. epoll[fd[c]] = [channel |-> c, events |-> events[c]]
    BY <1>2 DEF IInv, KernelSound
  <2>2. epoll[fd[c]] # NoFd
    BY <1>1, <2>1, EPollPollerAssumption
  <2>3. QED
    BY <2>1, <2>2
<1>3. CASE index[c] # kAdded
  <2>1. ~ (epoll[fd[c]] # NoFd /\ epoll[fd[c]].channel = c)
    BY <1>1, <1>3 DEF IInv, KernelSound
  <2>2. QED
    BY <1>3, <2>1 DEF IInv, KernelSound
<1>4. QED
  BY <1>2, <1>3

LEMMA RefineInit == Init => Interface!Init
<1> SUFFICES ASSUME Init PROVE Interface!Init
  OBVIOUS
<1>1. Watched = events
  BY InvInit, WatchedIsInterest
<1>2. QED
  BY <1>1 DEF Init, Interface!Init

LEMMA RefineNext == IInv /\ IInv' /\ [Next]_vars => [Interface!Next]_(Interface!vars)
<1> SUFFICES ASSUME IInv, IInv', [Next]_vars
             PROVE  Interface!Next \/ UNCHANGED <<events, Watched>>
  BY DEF Interface!vars
<1>1. Watched = events /\ Watched' = events'
  <2>1. (IInv => Watched = events)'
    BY WatchedIsInterest, PTL
  <2>2. QED
    BY <2>1, WatchedIsInterest
<1>2. ASSUME NEW c \in Channels, NEW ev \in SUBSET Events, SetEvents(c, ev)
      PROVE  Interface!Next
  BY <1>1, <1>2 DEF SetEvents, Interface!Next, Interface!UpdateChannel
<1>3. ASSUME UNCHANGED events PROVE UNCHANGED <<events, Watched>>
  BY <1>1, <1>3
<1>4. QED
  BY <1>2, <1>3 DEF Next, RemoveChannel, vars

\* Poller.h:44: after every updateChannel and removeChannel, epoll watches what
\* the channels ask for and nothing else.
THEOREM ImplementsPoller == Spec => PollerSpec
<1>1. QED
  BY InvAlways, RefineInit, RefineNext, PTL DEF Spec, PollerSpec, Interface!Spec
-----------------------------------------------------------------------------
(* The array of PollPoller *)

Entry(c) == pollfds[pindex[c] + 1]

\* channels_ holds the channels that were added and not removed, no two of one
\* descriptor; the others ask for nothing.
ArrayMapSound ==
    /\ \A c \in Channels : c \in pchannels <=> (pindex[c] # -1 /\ c \notin premoved)
    /\ \A c, d \in pchannels : pfd[c] = pfd[d] => c = d
    /\ \A c \in Channels \ pchannels : pevents[c] = {}

\* Each of them has one entry, and each entry is that of one of them.
EntriesSound ==
    /\ \A c \in pchannels :
          /\ pindex[c] + 1 \in DOMAIN pollfds
          /\ Entry(c).fd \in {pfd[c], Poll!Ignored(pfd[c])}
          /\ Entry(c).events = pevents[c]
    /\ \A i \in DOMAIN pollfds : \E c \in pchannels : pindex[c] + 1 = i
    /\ "update" \notin pfailed

\* A channel that asks for nothing is ignored, unless it never asked.
IgnoredSound ==
    ~DisableNew => /\ \A c \in pchannels : pevents[c] = {} => Entry(c).fd = Poll!Ignored(pfd[c])
                   /\ "remove" \notin pfailed

\* A channel that asks for something is not, unless it was ignored before.
NotIgnoredSound ==
    ~Reenable => \A c \in pchannels : pevents[c] # {} => Entry(c).fd = pfd[c]

ArrayInv == Poll!TypeOK /\ ArrayMapSound /\ EntriesSound /\ IgnoredSound /\ NotIgnoredSound

EntryType == [fd : Int, events : SUBSET Poll!Events]

LEMMA ArrayTypes ==
    ASSUME Poll!TypeOK
    PROVE  /\ pollfds \in Seq(EntryType) /\ Len(pollfds) \in Nat
           /\ DOMAIN pollfds = 1..Len(pollfds)
           /\ \A i \in DOMAIN pollfds : pollfds[i] \in EntryType
           /\ pindex \in [Channels -> Nat \cup {-1}]
           /\ pchannels \subseteq Channels
           /\ \A c \in Channels : pfd[c] \in Nat
<1>1. pollfds \in Seq(EntryType) /\ pfd \in [Channels -> Fds]
  BY DEF Poll!TypeOK, EntryType
<1>2. QED
  BY <1>1, LenProperties, ElementOfSeq, DefaultPollerAssumption DEF Poll!TypeOK

\* The descriptor of a usable channel is that of no other channel of the map.
LEMMA ArrayUsable ==
    ASSUME ArrayInv, NEW c \in Channels, Poll!Usable(c)
    PROVE  /\ c \notin premoved
           /\ c \in pchannels <=> pindex[c] # -1
           /\ \A d \in pchannels : pfd[d] = pfd[c] => d = c
           /\ Poll!Find(pfd[c]) = IF c \in pchannels THEN {c} ELSE {}
<1>1. c \notin premoved
  BY DEF Poll!Usable
<1>2. c \in pchannels <=> pindex[c] # -1
  BY <1>1 DEF ArrayInv, ArrayMapSound
<1>3. \A d \in pchannels : pfd[d] = pfd[c] => d = c
  BY ArrayTypes DEF ArrayInv, ArrayMapSound, Poll!Usable
<1>4. Poll!Find(pfd[c]) = IF c \in pchannels THEN {c} ELSE {}
  BY <1>3 DEF Poll!Find
<1>5. QED
  BY <1>1, <1>2, <1>3, <1>4

\* Two channels of the map do not share an entry.
LEMMA OneEntry ==
    ASSUME ArrayInv, NEW c \in pchannels, NEW d \in pchannels, pindex[c] = pindex[d]
    PROVE  c = d
<1>1. /\ Entry(c).fd \in {pfd[c], Poll!Ignored(pfd[c])}
      /\ Entry(d).fd \in {pfd[d], Poll!Ignored(pfd[d])}
      /\ Entry(c) = Entry(d)
  BY DEF ArrayInv, EntriesSound, Entry
<1>2. pfd[c] \in Nat /\ pfd[d] \in Nat
  BY ArrayTypes DEF ArrayInv
<1>3. pfd[c] = pfd[d]
  BY <1>1, <1>2 DEF Poll!Ignored
<1>4. QED
  BY <1>3 DEF ArrayInv, ArrayMapSound

LEMMA ArrayInit == Poll!Init => ArrayInv
<1> SUFFICES ASSUME Poll!Init PROVE ArrayInv
  OBVIOUS
<1>1. Poll!TypeOK
  BY DEF Poll!Init, Poll!TypeOK
<1>2. ArrayMapSound
  BY DEF Poll!Init, ArrayMapSound
<1>3. EntriesSound
  BY DEF Poll!Init, EntriesSound
<1>4. IgnoredSound /\ NotIgnoredSound
  BY DEF Poll!Init, IgnoredSound, NotIgnoredSound
<1>5. QED
  BY <1>1, <1>2, <1>3, <1>4 DEF ArrayInv

LEMMA AddInv ==
    ASSUME ArrayInv, NEW c \in Channels, NEW ev \in SUBSET Poll!Events,
           Poll!SetEvents(c, ev), Poll!AddChannel(c, ev)
    PROVE  ArrayInv'
<1> DEFINE entry == [fd |-> pfd[c], events |-> ev]
           n == Len(pollfds)
<1>1. /\ pollfds \in Seq(EntryType) /\ n \in Nat /\ DOMAIN pollfds = 1..n
      /\ pindex \in [Channels -> Nat \cup {-1}] /\ pchannels \subseteq Channels
      /\ \A d \in Channels : pfd[d] \in Nat
  BY ArrayTypes DEF ArrayInv
<1>2. /\ pollfds' = Append(pollfds, entry)
      /\ pindex' = [pindex EXCEPT ![c] = n]
      /\ pchannels' = pchannels \cup {c}
      /\ pevents' = [pevents EXCEPT ![c] = ev]
      /\ pindex[c] < 0
      /\ UNCHANGED <<pfd, premoved>>
      /\ Poll!Usable(c)
      /\ DisableNew \/ ev # {}
  BY DEF Poll!SetEvents, Poll!AddChannel
<1>3. /\ c \notin premoved /\ c \notin pchannels
      /\ \A d \in pchannels : pfd[d] # pfd[c]
      /\ Poll!Find(pfd[c]) = {}
  <2>1. pindex[c] = -1
    BY <1>1, <1>2
  <2>2. /\ c \notin premoved
        /\ c \in pchannels <=> pindex[c] # -1
        /\ \A d \in pchannels : pfd[d] = pfd[c] => d = c
        /\ Poll!Find(pfd[c]) = IF c \in pchannels THEN {c} ELSE {}
    BY <1>2, ArrayUsable
  <2>3. QED
    BY <2>1, <2>2
<1>4. pfailed' = pfailed
  BY <1>3 DEF Poll!AddChannel
<1>5. entry \in EntryType
  BY <1>1 DEF EntryType
<1>6. /\ pollfds' \in Seq(EntryType) /\ DOMAIN pollfds' = 1..(n + 1)
      /\ pollfds'[n + 1] = entry
      /\ \A i \in 1..n : pollfds'[i] = pollfds[i]
  BY <1>1, <1>2, <1>5, AppendProperties, LenProperties
<1>7. /\ pindex'[c] = n
      /\ \A d \in Channels \ {c} : pindex'[d] = pindex[d]
  BY <1>1, <1>2
<1>8. /\ pevents'[c] = ev
      /\ \A d \in Channels \ {c} : pevents'[d] = pevents[d]
  BY <1>2 DEF ArrayInv, Poll!TypeOK
<1>9. Entry(c)' = entry
  BY <1>6, <1>7 DEF Entry
<1>10. \A d \in pchannels : Entry(d)' = Entry(d) /\ d \in Channels \ {c}
  <2>1. \A d \in pchannels : pindex[d] + 1 \in 1..n
    BY <1>1 DEF ArrayInv, EntriesSound
  <2>2. QED
    BY <1>1, <1>3, <1>6, <1>7, <2>1 DEF Entry
<1> HIDE DEF entry, n
<1>11. Poll!TypeOK'
  BY <1>1, <1>2, <1>4, <1>6 DEF ArrayInv, Poll!TypeOK, EntryType, n
<1>12. ArrayMapSound'
  <2>1. \A d \in Channels : d \in pchannels' <=> (pindex'[d] # -1 /\ d \notin premoved')
    BY <1>1, <1>2, <1>3, <1>7 DEF ArrayInv, ArrayMapSound
  <2>2. \A d, e \in pchannels' : pfd'[d] = pfd'[e] => d = e
    BY <1>2, <1>3 DEF ArrayInv, ArrayMapSound
  <2>3. \A d \in Channels \ pchannels' : pevents'[d] = {}
    BY <1>2, <1>8 DEF ArrayInv, ArrayMapSound
  <2>4. QED
    BY <2>1, <2>2, <2>3 DEF ArrayMapSound
<1>13. EntriesSound'
  <2>1. ASSUME NEW d \in pchannels'
        PROVE  /\ pindex'[d] + 1 \in DOMAIN pollfds'
               /\ Entry(d)'.fd \in {pfd'[d], Poll!Ignored(pfd'[d])}
               /\ Entry(d)'.events = pevents'[d]
    <3>1. CASE d = c
      BY <1>1, <1>2, <1>6, <1>7, <1>8, <1>9, <3>1 DEF entry
    <3>2. CASE d \in pchannels
      <4>1. pindex[d] + 1 \in 1..n
        BY <1>1, <3>2 DEF ArrayInv, EntriesSound
      <4>2. pindex'[d] + 1 \in DOMAIN pollfds'
        BY <1>1, <1>6, <1>7, <1>10, <3>2, <4>1
      <4>3. QED
        BY <1>2, <1>8, <1>10, <3>2, <4>2 DEF ArrayInv, EntriesSound
    <3>3. QED
      BY <1>2, <3>1, <3>2
  <2>2. ASSUME NEW i \in DOMAIN pollfds'
        PROVE  \E d \in pchannels' : pindex'[d] + 1 = i
    <3>1. CASE i = n + 1
      BY <1>2, <1>7, <3>1
    <3>2. CASE i \in DOMAIN pollfds
      <4>1. PICK d \in pchannels : pindex[d] + 1 = i
        BY <3>2 DEF ArrayInv, EntriesSound
      <4>2. QED
        BY <1>2, <1>7, <1>10, <4>1
    <3>3. QED
      BY <1>1, <1>6, <3>1, <3>2
  <2>3. QED
    BY <1>4, <2>1, <2>2 DEF ArrayInv, EntriesSound
<1>14. IgnoredSound'
  <2>1. ASSUME ~DisableNew, NEW d \in pchannels', pevents'[d] = {}
        PROVE  Entry(d)'.fd = Poll!Ignored(pfd'[d])
    <3>1. d \in pchannels
      BY <1>2, <1>8, <2>1
    <3>2. QED
      BY <1>2, <1>8, <1>10, <2>1, <3>1 DEF ArrayInv, IgnoredSound
  <2>2. QED
    BY <1>4, <2>1 DEF ArrayInv, IgnoredSound
<1>15. NotIgnoredSound'
  <2>1. ASSUME ~Reenable, NEW d \in pchannels', pevents'[d] # {}
        PROVE  Entry(d)'.fd = pfd'[d]
    <3>1. CASE d = c
      BY <1>2, <1>9, <3>1 DEF entry
    <3>2. CASE d \in pchannels
      BY <1>2, <1>8, <1>10, <2>1, <3>2 DEF ArrayInv, NotIgnoredSound
    <3>3. QED
      BY <1>2, <3>1, <3>2
  <2>2. QED
    BY <2>1 DEF NotIgnoredSound
<1>16. QED
  BY <1>11, <1>12, <1>13, <1>14, <1>15 DEF ArrayInv

LEMMA ChangeInv ==
    ASSUME ArrayInv, NEW c \in Channels, NEW ev \in SUBSET Poll!Events,
           Poll!SetEvents(c, ev), Poll!ChangeChannel(c, ev)
    PROVE  ArrayInv'
<1> DEFINE k == pindex[c] + 1
           new == [fd |-> Poll!EntryFd(c, ev, Entry(c).fd), events |-> ev]
<1>1. /\ pollfds \in Seq(EntryType) /\ Len(pollfds) \in Nat /\ DOMAIN pollfds = 1..Len(pollfds)
      /\ \A i \in DOMAIN pollfds : pollfds[i] \in EntryType
      /\ pindex \in [Channels -> Nat \cup {-1}] /\ pchannels \subseteq Channels
      /\ \A d \in Channels : pfd[d] \in Nat
  BY ArrayTypes DEF ArrayInv
<1>2. /\ pollfds' = [pollfds EXCEPT ![k] = new]
      /\ pevents' = [pevents EXCEPT ![c] = ev]
      /\ pindex[c] >= 0
      /\ UNCHANGED <<pfd, premoved, pindex, pchannels>>
      /\ Poll!Usable(c)
      /\ Reenable \/ (pindex[c] >= 0 /\ pevents[c] = {} => ev = {})
  BY DEF Poll!SetEvents, Poll!ChangeChannel, Entry
<1>3. c \in pchannels /\ Poll!Find(pfd[c]) = {c}
  <2>1. pindex[c] # -1
    BY <1>1, <1>2
  <2>2. /\ c \in pchannels <=> pindex[c] # -1
        /\ Poll!Find(pfd[c]) = IF c \in pchannels THEN {c} ELSE {}
    BY <1>2, ArrayUsable
  <2>3. QED
    BY <2>1, <2>2
<1>4. k \in DOMAIN pollfds /\ Entry(c) \in EntryType /\ Entry(c).fd \in {pfd[c], Poll!Ignored(pfd[c])}
  BY <1>1, <1>3 DEF ArrayInv, EntriesSound, Entry
<1>5. pfailed' = pfailed
  BY <1>3, <1>4 DEF Poll!ChangeChannel, Entry
<1>6. new.fd \in {pfd[c], Poll!Ignored(pfd[c])} /\ new \in EntryType
  <2>1. new.fd \in {pfd[c], Poll!Ignored(pfd[c])}
    BY <1>4 DEF Poll!EntryFd
  <2>2. pfd[c] \in Int /\ Poll!Ignored(pfd[c]) \in Int
    BY <1>1 DEF Poll!Ignored
  <2>3. QED
    BY <2>1, <2>2 DEF EntryType
<1>7. /\ pollfds' \in Seq(EntryType) /\ DOMAIN pollfds' = DOMAIN pollfds
      /\ pollfds'[k] = new
      /\ \A i \in DOMAIN pollfds \ {k} : pollfds'[i] = pollfds[i]
  BY <1>1, <1>2, <1>4, <1>6, ExceptSeq
<1>8. /\ pevents'[c] = ev
      /\ \A d \in Channels \ {c} : pevents'[d] = pevents[d]
  BY <1>2 DEF ArrayInv, Poll!TypeOK
<1>9. Entry(c)' = new
  BY <1>2, <1>7 DEF Entry
<1>10. \A d \in pchannels \ {c} : Entry(d)' = Entry(d)
  <2>1. \A d \in pchannels \ {c} : pindex[d] + 1 \in DOMAIN pollfds \ {k}
    BY <1>1, <1>3, OneEntry DEF ArrayInv, EntriesSound
  <2>2. QED
    BY <1>2, <1>7, <2>1 DEF Entry
<1>11. new.events = ev /\ (ev = {} => new.fd = Poll!Ignored(pfd[c]))
  BY DEF Poll!EntryFd
<1>12. ~Reenable /\ ev # {} => new.fd = pfd[c]
  <2>1. ~Reenable /\ ev # {} => pevents[c] # {}
    BY <1>2
  <2>2. ~Reenable /\ ev # {} => Entry(c).fd = pfd[c]
    BY <1>3, <2>1 DEF ArrayInv, NotIgnoredSound
  <2>3. QED
    BY <2>2 DEF Poll!EntryFd
<1> HIDE DEF new, k
<1>13. Poll!TypeOK'
  BY <1>1, <1>2, <1>5, <1>7 DEF ArrayInv, Poll!TypeOK, EntryType
<1>14. ArrayMapSound'
  BY <1>1, <1>2, <1>3, <1>8 DEF ArrayInv, ArrayMapSound
<1>15. EntriesSound'
  <2>1. ASSUME NEW d \in pchannels
        PROVE  /\ Entry(d)'.fd \in {pfd[d], Poll!Ignored(pfd[d])}
               /\ Entry(d)'.events = pevents'[d]
    <3>1. CASE d = c
      BY <1>6, <1>8, <1>9, <1>11, <3>1
    <3>2. CASE d # c
      BY <1>1, <1>8, <1>10, <3>2 DEF ArrayInv, EntriesSound
    <3>3. QED
      BY <3>1, <3>2
  <2>2. QED
    BY <1>2, <1>5, <1>7, <2>1 DEF ArrayInv, EntriesSound
<1>16. IgnoredSound'
  <2>1. ASSUME ~DisableNew, NEW d \in pchannels, pevents'[d] = {}
        PROVE  Entry(d)'.fd = Poll!Ignored(pfd[d])
    <3>1. CASE d = c
      BY <1>8, <1>9, <1>11, <2>1, <3>1
    <3>2. CASE d # c
      BY <1>1, <1>8, <1>10, <2>1, <3>2 DEF ArrayInv, IgnoredSound
    <3>3. QED
      BY <3>1, <3>2
  <2>2. QED
    BY <1>2, <1>5, <2>1 DEF ArrayInv, IgnoredSound
<1>17. NotIgnoredSound'
  <2>1. ASSUME ~Reenable, NEW d \in pchannels, pevents'[d] # {}
        PROVE  Entry(d)'.fd = pfd[d]
    <3>1. CASE d = c
      BY <1>8, <1>9, <1>12, <2>1, <3>1
    <3>2. CASE d # c
      BY <1>1, <1>8, <1>10, <2>1, <3>2 DEF ArrayInv, NotIgnoredSound
    <3>3. QED
      BY <3>1, <3>2
  <2>2. QED
    BY <1>2, <2>1 DEF NotIgnoredSound
<1>18. QED
  BY <1>13, <1>14, <1>15, <1>16, <1>17 DEF ArrayInv

LEMMA ArrayRemoveInv ==
    ASSUME ArrayInv, NEW c \in Channels, Poll!RemoveChannel(c)
    PROVE  ArrayInv'
<1> DEFINE n == Len(pollfds)
           k == pindex[c] + 1
           moved == [pollfds EXCEPT ![k] = pollfds[n]]
<1>1. /\ pollfds \in Seq(EntryType) /\ n \in Nat /\ DOMAIN pollfds = 1..n
      /\ \A i \in DOMAIN pollfds : pollfds[i] \in EntryType
      /\ pindex \in [Channels -> Nat \cup {-1}] /\ pchannels \subseteq Channels
      /\ \A d \in Channels : pfd[d] \in Nat
  BY ArrayTypes DEF ArrayInv
<1>2. /\ Poll!Usable(c) /\ pindex[c] >= 0 /\ pevents[c] = {}
      /\ pchannels' = pchannels \ Poll!Find(pfd[c])
      /\ premoved' = premoved \cup {c}
      /\ UNCHANGED <<pfd, pevents>>
  BY DEF Poll!RemoveChannel
<1>3. c \in pchannels /\ Poll!Find(pfd[c]) = {c} /\ pchannels' = pchannels \ {c}
  <2>1. pindex[c] # -1
    BY <1>1, <1>2
  <2>2. /\ c \in pchannels <=> pindex[c] # -1
        /\ Poll!Find(pfd[c]) = IF c \in pchannels THEN {c} ELSE {}
    BY <1>2, ArrayUsable
  <2>3. QED
    BY <1>2, <2>1, <2>2
<1>4. k \in 1..n /\ n - 1 + 1 = n /\ n \in 1..n
  BY <1>1, <1>3 DEF ArrayInv, EntriesSound
<1>5. pollfds' = SubSeq(moved, 1, n - 1)
  BY <1>4 DEF Poll!RemoveChannel
<1>6. /\ moved \in Seq(EntryType) /\ Len(moved) = n
      /\ \A i \in 1..n : moved[i] = IF i = k THEN pollfds[n] ELSE pollfds[i]
  BY <1>1, <1>4, ExceptSeq, LenProperties
<1> HIDE DEF moved, n
<1>7. /\ pollfds' \in Seq(EntryType) /\ DOMAIN pollfds' = 1..(n - 1)
      /\ \A i \in 1..(n - 1) : pollfds'[i] = IF i = k THEN pollfds[n] ELSE pollfds[i]
  <2>1. 1 \in Int /\ n - 1 \in Int /\ \A i \in 1..(n - 1) : i \in 1..n /\ moved[i] \in EntryType
    BY <1>1, <1>4, <1>6
  <2>2. /\ pollfds' \in Seq(EntryType)
        /\ Len(pollfds') = IF 1 <= n - 1 THEN (n - 1) - 1 + 1 ELSE 0
        /\ \A i \in 1..(n - 1 - 1 + 1) : pollfds'[i] = moved[1 + i - 1]
    BY <1>5, <2>1, SubSeqProperties
  <2>3. Len(pollfds') = n - 1
    BY <1>1, <1>4, <2>2
  <2>4. DOMAIN pollfds' = 1..Len(pollfds')
    BY <2>2, LenProperties
  <2>5. \A i \in 1..(n - 1) : i \in 1..(n - 1 - 1 + 1) /\ 1 + i - 1 = i
    BY <1>1
  <2>6. QED
    BY <1>6, <2>1, <2>2, <2>3, <2>4, <2>5
<1>8. PICK e \in pchannels : pindex[e] + 1 = n
  BY <1>1, <1>4 DEF ArrayInv, EntriesSound
<1>9. Poll!ChannelAtEnd(pollfds[n].fd) = pfd[e]
  <2>1. pollfds[n].fd \in {pfd[e], Poll!Ignored(pfd[e])} /\ pfd[e] \in Nat
    BY <1>1, <1>8 DEF ArrayInv, EntriesSound, Entry
  <2>2. QED
    BY <2>1 DEF Poll!ChannelAtEnd, Poll!Ignored
<1>10. pindex' = IF pindex[c] = n - 1 THEN pindex
                 ELSE [d \in Channels |-> IF d \in pchannels' /\ pfd[d] = pfd[e]
                                          THEN pindex[c] ELSE pindex[d]]
  BY <1>4, <1>9 DEF Poll!RemoveChannel, n
<1>11. \A d \in pchannels : pindex[d] \in Nat /\ pindex[d] + 1 \in 1..n
  BY <1>1 DEF ArrayInv, EntriesSound
<1>12. \A d \in pchannels : pfd[d] = pfd[e] => d = e
  BY <1>8 DEF ArrayInv, ArrayMapSound
<1>13. /\ \A d \in Channels \ {e} : pindex'[d] = pindex[d]
       /\ c # e => pindex'[e] = pindex[c] /\ pindex[c] + 1 <= n - 1
       /\ c = e => pindex'[e] = pindex[e] /\ pindex[c] = n - 1
  <2>1. CASE pindex[c] = n - 1
    <3>1. c = e
      BY <1>1, <1>3, <1>8, <1>11, <2>1, OneEntry
    <3>2. QED
      BY <1>10, <2>1, <3>1
  <2>2. CASE pindex[c] # n - 1
    <3>1. c # e /\ pindex[c] + 1 <= n - 1
      BY <1>1, <1>3, <1>4, <1>8, <1>11, <2>2
    <3>2. pindex' = [d \in Channels |-> IF d \in pchannels' /\ pfd[d] = pfd[e]
                                        THEN pindex[c] ELSE pindex[d]]
      BY <1>10, <2>2
    <3>3. \A d \in Channels \ {e} : pindex'[d] = pindex[d]
      BY <1>3, <1>12, <3>2
    <3>4. e \in Channels /\ e \in pchannels'
      BY <1>1, <1>3, <1>8, <3>1
    <3>5. pindex'[e] = pindex[c]
      BY <3>2, <3>4
    <3>6. QED
      BY <3>1, <3>3, <3>5
  <2>3. QED
    BY <2>1, <2>2
<1>14. \A d \in pchannels \ {c} : pindex'[d] + 1 \in 1..(n - 1) /\ Entry(d)' = Entry(d)
  <2> SUFFICES ASSUME NEW d \in pchannels \ {c}
               PROVE  pindex'[d] + 1 \in 1..(n - 1) /\ Entry(d)' = Entry(d)
    OBVIOUS
  <2>1. CASE d = e
    <3>1. pindex'[d] = pindex[c] /\ k \in 1..(n - 1)
      BY <1>1, <1>4, <1>13, <2>1
    <3>2. pollfds'[k] = pollfds[n]
      BY <1>7, <3>1
    <3>3. QED
      BY <1>8, <2>1, <3>1, <3>2 DEF Entry
  <2>2. CASE d # e
    <3>1. pindex'[d] = pindex[d] /\ pindex[d] + 1 # k /\ pindex[d] + 1 # n
      BY <1>1, <1>3, <1>8, <1>11, <1>13, <2>2, OneEntry
    <3>2. pindex[d] + 1 \in 1..(n - 1)
      BY <1>1, <1>11, <3>1
    <3>3. QED
      BY <1>7, <3>1, <3>2 DEF Entry
  <2>3. QED
    BY <2>1, <2>2
<1>15. \A i \in 1..(n - 1) : \E d \in pchannels \ {c} : pindex'[d] + 1 = i
  <2> SUFFICES ASSUME NEW i \in 1..(n - 1)
               PROVE  \E d \in pchannels \ {c} : pindex'[d] + 1 = i
    OBVIOUS
  <2>1. CASE i = k
    <3>1. c # e
      BY <1>1, <1>8, <2>1
    <3>2. QED
      BY <1>8, <1>13, <2>1, <3>1
  <2>2. CASE i # k
    <3>1. i \in DOMAIN pollfds /\ i # n
      BY <1>1
    <3>2. PICK d \in pchannels : pindex[d] + 1 = i
      BY <3>1 DEF ArrayInv, EntriesSound
    <3>3. d # c /\ d # e
      BY <1>8, <2>2, <3>1, <3>2
    <3>4. QED
      BY <1>1, <1>13, <3>2, <3>3
  <2>3. QED
    BY <2>1, <2>2
<1>16. Entry(c) = pollfds[k] /\ Entry(c).events = pevents[c]
  BY <1>3 DEF ArrayInv, EntriesSound, Entry
<1>17. pfailed' \subseteq pfailed \cup {"remove"} /\ (~DisableNew => pfailed' = pfailed)
  <2>1. pfailed' = IF /\ Poll!Find(pfd[c]) = {c}
                      /\ Entry(c).fd = Poll!Ignored(pfd[c]) /\ Entry(c).events = pevents[c]
                   THEN pfailed ELSE pfailed \cup {"remove"}
    BY DEF Poll!RemoveChannel, Entry
  <2>2. ~DisableNew => Entry(c).fd = Poll!Ignored(pfd[c])
    BY <1>2, <1>3 DEF ArrayInv, IgnoredSound
  <2>3. QED
    BY <1>3, <1>16, <2>1, <2>2
<1> HIDE DEF k
<1>18. Poll!TypeOK'
  <2>1. pindex' \in [Channels -> Nat \cup {-1}]
    BY <1>1, <1>10
  <2>2. QED
    BY <1>1, <1>2, <1>3, <1>7, <1>17, <2>1 DEF ArrayInv, Poll!TypeOK, EntryType
<1>19. ArrayMapSound'
  <2>1. ASSUME NEW d \in Channels
        PROVE  d \in pchannels' <=> (pindex'[d] # -1 /\ d \notin premoved')
    <3>1. CASE d \in pchannels
      <4>1. pindex'[d] # -1
        BY <1>1, <1>3, <1>11, <1>13, <3>1
      <4>2. d \notin premoved
        BY <1>1, <3>1 DEF ArrayInv, ArrayMapSound
      <4>3. QED
        BY <1>2, <1>3, <3>1, <4>1, <4>2
    <3>2. CASE d \notin pchannels
      <4>1. d # c /\ d # e /\ pindex'[d] = pindex[d]
        BY <1>3, <1>8, <1>13, <3>2
      <4>2. QED
        BY <1>2, <1>3, <3>2, <4>1 DEF ArrayInv, ArrayMapSound
    <3>3. QED
      BY <3>1, <3>2
  <2>2. \A d, f \in pchannels' : pfd'[d] = pfd'[f] => d = f
    BY <1>2, <1>3 DEF ArrayInv, ArrayMapSound
  <2>3. \A d \in Channels \ pchannels' : pevents'[d] = {}
    BY <1>2, <1>3 DEF ArrayInv, ArrayMapSound
  <2>4. QED
    BY <2>1, <2>2, <2>3 DEF ArrayMapSound
<1>20. EntriesSound'
  <2>1. ASSUME NEW d \in pchannels'
        PROVE  /\ pindex'[d] + 1 \in DOMAIN pollfds'
               /\ Entry(d)'.fd \in {pfd'[d], Poll!Ignored(pfd'[d])}
               /\ Entry(d)'.events = pevents'[d]
    BY <1>2, <1>3, <1>7, <1>14 DEF ArrayInv, EntriesSound
  <2>2. "update" \notin pfailed'
    BY <1>17 DEF ArrayInv, EntriesSound
  <2>3. QED
    BY <1>3, <1>7, <1>15, <2>1, <2>2 DEF EntriesSound
<1>21. IgnoredSound'
  BY <1>2, <1>3, <1>14, <1>17 DEF ArrayInv, IgnoredSound
<1>22. NotIgnoredSound'
  BY <1>2, <1>3, <1>14 DEF ArrayInv, NotIgnoredSound
<1>23. QED
  BY <1>18, <1>19, <1>20, <1>21, <1>22 DEF ArrayInv

LEMMA ArrayNext == ArrayInv /\ [Poll!Next]_arrayVars => ArrayInv'
<1> SUFFICES ASSUME ArrayInv, [Poll!Next]_arrayVars PROVE ArrayInv'
  OBVIOUS
<1>1. ASSUME NEW c \in Channels, NEW ev \in SUBSET Poll!Events, Poll!SetEvents(c, ev)
      PROVE  ArrayInv'
  <2>1. Poll!AddChannel(c, ev) \/ Poll!ChangeChannel(c, ev)
    BY <1>1 DEF Poll!SetEvents
  <2>2. QED
    BY <1>1, <2>1, AddInv, ChangeInv
<1>2. ASSUME NEW c \in Channels, Poll!RemoveChannel(c) PROVE ArrayInv'
  BY <1>2, ArrayRemoveInv
<1>3. CASE UNCHANGED arrayVars
  BY <1>3 DEF arrayVars, ArrayInv, Poll!TypeOK, ArrayMapSound, EntriesSound, IgnoredSound,
              NotIgnoredSound, Entry
<1>4. QED
  BY <1>1, <1>2, <1>3 DEF Poll!Next

\* A call of the loop's channels is a step of one poller; the other stays.
LEMMA OnePoller ==
    ASSUME [ChannelCall]_allVars
    PROVE  [Next]_vars /\ [Poll!Next]_arrayVars
BY DEF ChannelCall, allVars

LEMMA DefaultAlways == DefaultSpec => [](IInv /\ ArrayInv)
<1>1. NewDefaultPoller => IInv /\ ArrayInv
  BY InvInit, ArrayInit DEF NewDefaultPoller
<1>2. IInv /\ ArrayInv /\ [ChannelCall]_allVars => (IInv /\ ArrayInv)'
  BY OnePoller, InvNext, ArrayNext
<1>3. QED
  BY <1>1, <1>2, PTL DEF DefaultSpec

LEMMA ArrayInvSound == ASSUME ~DisableNew, ArrayInv PROVE ArraySound
<1>1. Poll!NoFailure
  BY DEF ArrayInv, EntriesSound, IgnoredSound, Poll!TypeOK, Poll!NoFailure
<1>2. Poll!IndicesAgree
  <2>1. ASSUME NEW c \in pchannels
        PROVE  /\ pindex[c] \in 0..Len(pollfds) - 1
               /\ pollfds[pindex[c] + 1].fd \in {pfd[c], Poll!Ignored(pfd[c])}
    <3>1. /\ pindex[c] \in Nat \cup {-1} /\ pindex[c] + 1 \in 1..Len(pollfds)
          /\ Len(pollfds) \in Nat
      BY ArrayTypes DEF ArrayInv, EntriesSound
    <3>2. QED
      BY <3>1 DEF ArrayInv, EntriesSound, Entry
  <2>2. ASSUME NEW i \in DOMAIN pollfds
        PROVE  \E c \in pchannels : pindex[c] = i - 1
    <3>1. PICK c \in pchannels : pindex[c] + 1 = i
      BY DEF ArrayInv, EntriesSound
    <3>2. pindex[c] \in Nat \cup {-1}
      BY ArrayTypes DEF ArrayInv
    <3>3. QED
      BY <3>1, <3>2
  <2>3. QED
    BY <2>1, <2>2 DEF Poll!IndicesAgree
<1>3. QED
  BY <1>1, <1>2 DEF ArrayInv, ArraySound, Poll!ArraySound

\* Whatever is added, changed and removed, in whatever order, no assertion of
\* PollPoller fails and each channel finds its entry, if no channel is disabled
\* before it was ever enabled.
THEOREM ArrayCorrect == ASSUME ~DisableNew PROVE DefaultSpec => []ArraySound
BY DefaultAlways, ArrayInvSound, PTL

\* The interest list of a loop's EPollPoller never has a channel that was removed.
THEOREM DefaultTablesCorrect == DefaultSpec => []TableSound
BY DefaultAlways, InvImpliesTableSound, PTL

\* What poll is asked for is what the channels ask for.
LEMMA ArrayWatchedIsInterest == ASSUME ~Reenable, ArrayInv PROVE Poll!Watched = pevents
<1>1. ASSUME NEW c \in pchannels
      PROVE  UNION {pollfds[i].events : i \in {j \in DOMAIN pollfds : pollfds[j].fd = pfd[c]}}
               = pevents[c]
  <2>1. \A j \in DOMAIN pollfds : pollfds[j].fd = pfd[c] => j = pindex[c] + 1
    <3> SUFFICES ASSUME NEW j \in DOMAIN pollfds, pollfds[j].fd = pfd[c]
                 PROVE  j = pindex[c] + 1
      OBVIOUS
    <3>1. PICK d \in pchannels : pindex[d] + 1 = j
      BY DEF ArrayInv, EntriesSound
    <3>2. pfd[c] \in {pfd[d], Poll!Ignored(pfd[d])}
      BY <3>1 DEF ArrayInv, EntriesSound, Entry
    <3>3. pfd[c] \in Nat /\ pfd[d] \in Nat
      BY ArrayTypes DEF ArrayInv
    <3>4. pfd[c] = pfd[d]
      BY <3>2, <3>3 DEF Poll!Ignored
    <3>5. c = d
      BY <3>4 DEF ArrayInv, ArrayMapSound
    <3>6. QED
      BY <3>1, <3>5
  <2>2. pindex[c] + 1 \in DOMAIN pollfds /\ pollfds[pindex[c] + 1].events = pevents[c]
    BY DEF ArrayInv, EntriesSound, Entry
  <2>3. CASE pevents[c] = {}
    BY <2>1, <2>2, <2>3
  <2>4. CASE pevents[c] # {}
    <3>1. pollfds[pindex[c] + 1].fd = pfd[c]
      BY <2>4 DEF ArrayInv, NotIgnoredSound, Entry
    <3>2. {j \in DOMAIN pollfds : pollfds[j].fd = pfd[c]} = {pindex[c] + 1}
      BY <2>1, <2>2, <3>1
    <3>3. QED
      BY <2>2, <3>2
  <2>5. QED
    BY <2>3, <2>4
<1>2. \A c \in Channels \ pchannels : pevents[c] = {}
  BY DEF ArrayInv, ArrayMapSound
<1>3. pevents \in [Channels -> SUBSET Poll!Events]
  BY DEF ArrayInv, Poll!TypeOK
<1>4. QED
  BY <1>1, <1>2, <1>3 DEF Poll!Watched

LEMMA ArrayRefineInit == ASSUME ~Reenable, Poll!Init PROVE Poll!Interface!Init
<1>1. Poll!Watched = pevents
  BY ArrayInit, ArrayWatchedIsInterest
<1>2. QED
  BY <1>1 DEF Poll!Init, Poll!Interface!Init

LEMMA ArrayRefineNext ==
    ASSUME ~Reenable, ArrayInv, ArrayInv', [Poll!Next]_arrayVars
    PROVE  [Poll!Interface!Next]_(Poll!Interface!vars)
<1>1. Poll!Watched = pevents /\ Poll!Watched' = pevents'
  <2>1. (ArrayInv => Poll!Watched = pevents)'
    BY ArrayWatchedIsInterest, PTL
  <2>2. QED
    BY <2>1, ArrayWatchedIsInterest
<1>2. ASSUME NEW c \in Channels, NEW ev \in SUBSET Poll!Events, Poll!SetEvents(c, ev)
      PROVE  Poll!Interface!Next
  BY <1>1, <1>2 DEF Poll!SetEvents, Poll!Interface!Next, Poll!Interface!UpdateChannel
<1>3. ASSUME UNCHANGED pevents PROVE UNCHANGED Poll!Interface!vars
  BY <1>1, <1>3 DEF Poll!Interface!vars
<1>4. QED
  BY <1>2, <1>3 DEF Poll!Next, Poll!RemoveChannel, arrayVars

\* Poller.h:44 for the loops that use poll(2): it watches what the channels ask
\* for, if a channel that was disabled is never enabled again.
THEOREM ArrayImplementsPoller == ASSUME ~Reenable PROVE DefaultSpec => ArrayPollerSpec
<1>1. NewDefaultPoller => Poll!Interface!Init
  BY ArrayRefineInit DEF NewDefaultPoller
<1>2. ArrayInv /\ ArrayInv' /\ [ChannelCall]_allVars => [Poll!Interface!Next]_(Poll!Interface!vars)
  BY OnePoller, ArrayRefineNext
<1>3. QED
  BY <1>1, <1>2, DefaultAlways, PTL
     DEF DefaultSpec, ArrayPollerSpec, Poll!PollerSpec, Poll!Interface!Spec

\* ... and for those that use epoll, with no such condition.
THEOREM DefaultImplementsPoller == DefaultSpec => PollerSpec
<1>1. NewDefaultPoller => Interface!Init
  BY RefineInit DEF NewDefaultPoller
<1>2. IInv /\ IInv' /\ [ChannelCall]_allVars => [Interface!Next]_(Interface!vars)
  BY OnePoller, RefineNext
<1>3. QED
  BY <1>1, <1>2, DefaultAlways, PTL DEF DefaultSpec, PollerSpec, Interface!Spec
=============================================================================
