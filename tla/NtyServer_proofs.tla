---------------------------- MODULE NtyServer_proofs ----------------------------
(***************************************************************************)
(* For any number of servers, descriptors, connections and requests: the   *)
(* scheduler loses, doubles and misuses no coroutine, each reader has its  *)
(* own connection, and the assertion of nty_schedule_sched_wait fails only *)
(* if accept(2) has failed twice.                                          *)
(***************************************************************************)
EXTENDS NtyServer, SequenceTheorems, FiniteSetTheorems, FunctionTheorems, TLAPS

Coroutines == 1..Len(pc)
IsReader(co) == co \in Coroutines /\ co > Servers

ServerPCs == {"accept", "accept wake", "accept hook", "accept hook wake", "accept now"}
ReaderPCs == {"start", "recv", "recv wake", "recv hook", "recv hook wake", "recv now",
              "send", "send hook wake", "send hook", "send wake", "exited"}

\* The types that the proof uses
Typed ==
    /\ Servers <= Len(pc) /\ Len(pc) \in Nat /\ Len(fd) = Len(pc)
    /\ pc \in Seq(ServerPCs \cup ReaderPCs) /\ fd \in Seq(Int)
    /\ \A s \in ServerIds : pc[s] \in ServerPCs /\ fd[s] = s
    /\ \A r \in Coroutines : r > Servers =>
          /\ pc[r] \in ReaderPCs
          /\ maker[r] \in ServerIds /\ meant[r] \in Conns \cup {NoConn}
    /\ DOMAIN maker = {r \in Coroutines : r > Servers} /\ DOMAIN meant = DOMAIN maker
    /\ cliFd \in [ServerIds -> Int]
    /\ ready \in Seq(Nat)
    /\ events \in Seq([fd : Int, hup : BOOLEAN])
    /\ IsFiniteSet(DOMAIN interest)
    /\ asked \in Seq(Nat)
    /\ backlog \in [ServerIds -> Seq(Nat)]

\* A coroutine is alive until it has exited.
AliveSound ==
    /\ alive = {co \in Coroutines : pc[co] # "exited"}
    /\ running \in alive \cup {None}

\* The ready queue: each coroutine once, and one that has not begun, or a server
\* that has not asked for a connection
ReadySound ==
    /\ \A i \in DOMAIN ready :
          /\ ready[i] \in alive /\ ready[i] # running
          /\ pc[ready[i]] \in {"start", "accept"}
    /\ \A i, j \in DOMAIN ready : ready[i] = ready[j] => i = j
    /\ phase = "ready" => \E i \in DOMAIN ready : ready[i] = last

\* The tree of those that wait is a map from their descriptors.
WaitSound ==
    /\ \A f \in DOMAIN waiting :
          waiting[f] \in alive /\ fd[waiting[f]] = f /\ pc[waiting[f]] \in Woken
    /\ \A co \in alive :
          pc[co] \in Woken => fd[co] \in DOMAIN waiting /\ waiting[fd[co]] = co
    /\ \A co \in alive :
          pc[co] \notin Woken /\ co # running => \E i \in DOMAIN ready : ready[i] = co
    /\ DOMAIN interest = DOMAIN waiting \ {-1}
    /\ eof \subseteq {running} \ {None}
    /\ eof # {} => pc[running] \in Woken

\* What is left of the events: one for each descriptor, and none for the one the
\* running coroutine was woken for
EventSound ==
    /\ phase # "events" => events = <<>>
    /\ \A i \in DOMAIN events : events[i].fd \in DOMAIN interest
    /\ \A i, j \in DOMAIN events : events[i].fd = events[j].fd => i = j
    /\ running # None => \A i \in DOMAIN events : events[i].fd # fd[running]

\* The descriptor of a reader, which it has not read from cli_fd when it starts
FdOf(r) == IF pc[r] = "start" THEN cliFd[maker[r]] ELSE fd[r]

\* Descriptors and connections: who has one has its own.
FdSound ==
    /\ DOMAIN open \subseteq ConnFds
    /\ \A f \in DOMAIN open : open[f] \in Conns
    /\ \A r \in alive : (r > Servers /\ meant[r] # NoConn) =>
          FdOf(r) \in DOMAIN open /\ open[FdOf(r)] = meant[r]
    /\ \A r \in alive : (r > Servers /\ meant[r] = NoConn) => FdOf(r) = -1
    /\ \A f \in DOMAIN open : \E r \in alive : r > Servers /\ meant[r] = open[f] /\ FdOf(r) = f
    /\ \A r, q \in DOMAIN meant : meant[r] = meant[q] /\ meant[r] # NoConn => r = q

\* A reader without a connection is never woken up.
LostSound ==
    \A r \in alive : (r > Servers /\ meant[r] = NoConn) =>
        pc[r] \in {"start", "recv", "recv wake"} /\ (r = running => pc[r] # "recv wake")

\* A connection that is to be accepted is to be accepted once, and has no reader.
Pending(queues, conns, taken) ==
    /\ \A s \in ServerIds : \A i \in 1..Len(queues[s]) :
          queues[s][i] \in conns /\ \A r \in DOMAIN taken : taken[r] # queues[s][i]
    /\ \A s, t \in ServerIds : \A i \in 1..Len(queues[s]), j \in 1..Len(queues[t]) :
          queues[s][i] = queues[t][j] => s = t /\ i = j

BacklogSound == Pending(backlog, Conns, meant)

Begins(r) == r \in alive /\ r > Servers /\ pc[r] = "start"

\* Between the creation of a reader and its start its server does not get to
\* accept again.
StartSound ==
    /\ \A r \in alive : Begins(r) =>
          /\ pc[maker[r]] \in {"accept", "accept wake"}
          /\ pc[maker[r]] = "accept wake" =>
                maker[r] # running /\ \A i \in DOMAIN events : events[i].fd # maker[r]
    /\ \A i, j \in DOMAIN ready : Begins(ready[i]) /\ ready[j] = maker[ready[i]] => i < j
    /\ \A r, q \in alive : Begins(r) /\ Begins(q) /\ maker[r] = maker[q] => r = q

Strong ==
    /\ Typed /\ AliveSound /\ ReadySound /\ WaitSound /\ EventSound
    /\ FdSound /\ LostSound /\ BacklogSound /\ StartSound

\* accept(2) has failed twice
TwoLost == \E r, q \in Readers : r # q /\ meant[r] = NoConn /\ meant[q] = NoConn

IInv ==
    /\ ~failed => Strong
    /\ failed => TwoLost /\ RightDescriptor
-----------------------------------------------------------------------------
(* The operators of the scheduler *)

\* A map that gets an entry, and one that loses it
LEMMA WithFacts ==
    ASSUME NEW f, NEW x, NEW y
    PROVE  /\ DOMAIN With(f, x, y) = DOMAIN f \cup {x}
           /\ With(f, x, y)[x] = y
           /\ \A z \in DOMAIN f : z # x => With(f, x, y)[z] = f[z]
BY DEF With

LEMMA WithoutFacts ==
    ASSUME NEW f, NEW x
    PROVE  /\ DOMAIN Without(f, x) = DOMAIN f \ {x}
           /\ \A z \in DOMAIN f : z # x => Without(f, x)[z] = f[z]
BY DEF Without

\* The last of the events, and those before it
LEMMA FrontFacts ==
    ASSUME NEW S, NEW s \in Seq(S), s # <<>>
    PROVE  /\ Len(s) \in Nat \ {0} /\ Last(s) = s[Len(s)]
           /\ Front(s) \in Seq(S) /\ DOMAIN Front(s) = 1..Len(s) - 1
           /\ \A i \in DOMAIN Front(s) : Front(s)[i] = s[i]
<1>1. Len(s) \in Nat \ {0} /\ DOMAIN s = 1..Len(s)
  BY EmptySeq
<1>2. \A i \in 1..Len(s) - 1 : s[i] \in S
  BY <1>1
<1>3. Front(s) = SubSeq(s, 1, Len(s) - 1)
  BY DEF Front
<1>4. /\ SubSeq(s, 1, Len(s) - 1) \in Seq(S)
      /\ Len(SubSeq(s, 1, Len(s) - 1)) = IF 1 <= Len(s) - 1 THEN Len(s) - 1 - 1 + 1 ELSE 0
      /\ \A i \in 1..Len(s) - 1 - 1 + 1 : SubSeq(s, 1, Len(s) - 1)[i] = s[1 + i - 1]
  BY <1>1, <1>2, SubSeqProperties
<1>5. Len(Front(s)) = Len(s) - 1 /\ Front(s) \in Seq(S)
  BY <1>1, <1>3, <1>4
<1>6. DOMAIN Front(s) = 1..Len(s) - 1
  BY <1>1, <1>5, LenProperties
<1>7. \A i \in 1..Len(s) - 1 : Front(s)[i] = s[i]
  BY <1>1, <1>3, <1>4
<1>8. Last(s) = s[Len(s)]
  BY DEF Last
<1>9. QED
  BY <1>1, <1>5, <1>6, <1>7, <1>8

-----------------------------------------------------------------------------
(* What the invariant says of the descriptors *)

\* A coroutine has -1, the descriptor a server listens on or one of its own.
LEMMA FdRange ==
    ASSUME Strong, NEW co \in alive
    PROVE  /\ co \in Coroutines /\ co \in Nat \ {0} /\ co # None
           /\ co \in ServerIds <=> ~(co > Servers)
           /\ co \in ServerIds => FdOf(co) = co /\ fd[co] = co /\ pc[co] \in ServerPCs
           /\ co \notin ServerIds => /\ co \in DOMAIN meant /\ pc[co] \in ReaderPCs \ {"exited"}
                                     /\ FdOf(co) \in {-1} \cup DOMAIN open
                                     /\ FdOf(co) = -1 <=> meant[co] = NoConn
           /\ FdOf(co) \in {-1} \cup ServerIds \cup ConnFds
           /\ pc[co] # "start" => FdOf(co) = fd[co]
<1>1. co \in Coroutines /\ pc[co] # "exited" /\ Servers \in Nat
  BY NtyServerAssumption DEF Strong, AliveSound
<1>2. co \in Nat \ {0} /\ (co \in ServerIds <=> ~(co > Servers))
  BY <1>1 DEF Coroutines, ServerIds
<1>3. co \in ServerIds => FdOf(co) = co /\ fd[co] = co /\ pc[co] \in ServerPCs
  <2>1. co \in ServerIds => pc[co] \in ServerPCs /\ fd[co] = co
    BY DEF Strong, Typed
  <2>2. QED
    BY <2>1 DEF FdOf, ServerPCs
<1>4. co \notin ServerIds => co \in DOMAIN meant /\ pc[co] \in ReaderPCs \ {"exited"}
  BY <1>1, <1>2 DEF Strong, Typed
<1>5. co \notin ServerIds => FdOf(co) \in {-1} \cup DOMAIN open
  BY <1>2 DEF Strong, FdSound
<1>6. DOMAIN open \subseteq ConnFds /\ -1 \notin ConnFds
  BY <1>1 DEF Strong, FdSound, ConnFds
<1>7. co \notin ServerIds => (FdOf(co) = -1 <=> meant[co] = NoConn)
  <2>1. co \notin ServerIds /\ meant[co] # NoConn => FdOf(co) \in DOMAIN open
    BY <1>2 DEF Strong, FdSound
  <2>2. co \notin ServerIds /\ meant[co] = NoConn => FdOf(co) = -1
    BY <1>2 DEF Strong, FdSound
  <2>3. QED
    BY <2>1, <2>2, <1>6
<1>8. pc[co] # "start" => FdOf(co) = fd[co]
  BY DEF FdOf
<1>9. QED
  BY <1>1, <1>2, <1>3, <1>4, <1>5, <1>6, <1>7, <1>8 DEF None

\* Only what is not a descriptor is what two coroutines have.
LEMMA Distinct ==
    ASSUME Strong, NEW co \in alive, NEW other \in alive,
           FdOf(co) = FdOf(other), FdOf(co) # -1
    PROVE  co = other
<1>1. /\ DOMAIN open \subseteq ConnFds /\ ConnFds \cap ServerIds = {}
  BY NtyServerAssumption DEF Strong, FdSound, ConnFds, ServerIds
<1>2. CASE co \in ServerIds
  <2>1. other \in ServerIds
    BY <1>1, <1>2, FdRange
  <2>2. QED
    BY <1>2, <2>1, FdRange
<1>3. CASE co \notin ServerIds
  <2>1. other \notin ServerIds
    BY <1>1, <1>3, FdRange
  <2>2. meant[co] # NoConn /\ meant[other] # NoConn /\ co > Servers /\ other > Servers
    BY <1>3, <2>1, FdRange
  <2>3. meant[co] = open[FdOf(co)] /\ meant[other] = open[FdOf(other)]
    BY <2>2 DEF Strong, FdSound
  <2>4. co \in DOMAIN meant /\ other \in DOMAIN meant
    BY <1>3, <2>1, FdRange
  <2>5. QED
    BY <2>2, <2>3, <2>4 DEF Strong, FdSound
<1>4. QED
  BY <1>2, <1>3

\* Who waits for it is who has it, and the running coroutine gets nothing more
\* from the events.
LEMMA NoEvent ==
    ASSUME Strong, NEW co \in alive, co = running, pc[co] \notin Woken
    PROVE  /\ FdOf(co) \in DOMAIN waiting => FdOf(co) = -1
           /\ FdOf(co) \notin DOMAIN interest
           /\ \A i \in DOMAIN events : events[i].fd # FdOf(co)
<1>1. ASSUME FdOf(co) \in DOMAIN waiting, FdOf(co) # -1 PROVE FALSE
  <2> DEFINE w == waiting[FdOf(co)]
  <2>1. w \in alive /\ fd[w] = FdOf(co) /\ pc[w] \in Woken
    BY <1>1 DEF Strong, WaitSound
  <2>2. pc[w] # "start"
    BY <2>1 DEF Woken
  <2>3. FdOf(w) = FdOf(co)
    BY <2>1, <2>2, FdRange
  <2> HIDE DEF w
  <2>4. w = co
    BY <1>1, <2>1, <2>3, Distinct
  <2>5. QED
    BY <2>1, <2>4
<1>2. DOMAIN interest = DOMAIN waiting \ {-1}
  BY DEF Strong, WaitSound
<1>3. \A i \in DOMAIN events : events[i].fd \in DOMAIN interest
  BY DEF Strong, EventSound
<1>4. QED
  BY <1>1, <1>2, <1>3

\* The numbers of the coroutines, and the servers' first
LEMMA Numbers ==
    ASSUME Strong
    PROVE  /\ Servers \in Nat \ {0} /\ Len(pc) \in Nat /\ ServerIds \subseteq Coroutines
           /\ Coroutines \subseteq Nat \ {0} /\ alive \subseteq Coroutines
           /\ \A r \in alive : Begins(r) => maker[r] \in ServerIds /\ r \in DOMAIN meant
           /\ \A r \in DOMAIN meant : r \in Coroutines /\ r > Servers /\ r \notin ServerIds
<1>1. Servers \in Nat \ {0} /\ Len(pc) \in Nat /\ Servers <= Len(pc)
  BY NtyServerAssumption DEF Strong, Typed
<1>2. ServerIds \subseteq Coroutines /\ Coroutines \subseteq Nat \ {0}
  BY <1>1 DEF ServerIds, Coroutines
<1>3. alive \subseteq Coroutines
  BY DEF Strong, AliveSound
<1>4. \A r \in Coroutines : r > Servers => maker[r] \in ServerIds /\ r \in DOMAIN meant
  BY DEF Strong, Typed
<1>5. \A r \in DOMAIN meant : r \in Coroutines /\ r > Servers
  BY DEF Strong, Typed
<1>6. \A r \in Coroutines : r > Servers => r \notin ServerIds
  BY <1>1, <1>2 DEF ServerIds
<1>7. QED
  BY <1>1, <1>2, <1>3, <1>4, <1>5, <1>6 DEF Begins

\* A coroutine goes on to another place.
LEMMA GotoFacts ==
    ASSUME Strong, NEW co \in alive, NEW where, Goto(co, where),
           where \in IF co \in ServerIds THEN ServerPCs ELSE ReaderPCs
    PROVE  /\ pc' \in Seq(ServerPCs \cup ReaderPCs) /\ Len(pc') = Len(pc)
           /\ Coroutines' = Coroutines
           /\ \A x \in Coroutines : pc'[x] = IF x = co THEN where ELSE pc[x]
           /\ \A s \in ServerIds : pc'[s] \in ServerPCs
           /\ \A r \in Coroutines : r > Servers => pc'[r] \in ReaderPCs
<1>1. pc \in Seq(ServerPCs \cup ReaderPCs) /\ co \in 1..Len(pc)
  BY Numbers DEF Strong, Typed, Coroutines
<1>2. pc' = [pc EXCEPT ![co] = where]
  BY DEF Goto
<1>3. /\ \A s \in ServerIds : pc[s] \in ServerPCs
      /\ \A r \in Coroutines : r > Servers => pc[r] \in ReaderPCs
  BY DEF Strong, Typed
<1>4. where \in ServerPCs \cup ReaderPCs
  OBVIOUS
<1>5. /\ pc' \in Seq(ServerPCs \cup ReaderPCs) /\ Len(pc') = Len(pc)
      /\ \A x \in Coroutines : pc'[x] = IF x = co THEN where ELSE pc[x]
  BY <1>1, <1>2, <1>4, ExceptSeq DEF Coroutines
<1>6. Coroutines' = Coroutines
  BY <1>5 DEF Coroutines
<1>7. \A s \in ServerIds : pc'[s] \in ServerPCs
  BY <1>3, <1>5, Numbers
<1>8. \A r \in Coroutines : r > Servers => pc'[r] \in ReaderPCs
  <2>1. co > Servers => co \notin ServerIds
    BY FdRange
  <2>2. QED
    BY <2>1, <1>3, <1>5
<1>9. QED
  BY <1>5, <1>6, <1>7, <1>8

\* The invariant says what RightDescriptor says.
LEMMA StrongRight == Strong => RightDescriptor
<1> SUFFICES ASSUME Strong PROVE RightDescriptor
  OBVIOUS
<1>1. ASSUME NEW r \in Readers, pc[r] \notin {"start", "exited"}, meant[r] # NoConn
      PROVE  fd[r] \in DOMAIN open /\ open[fd[r]] = meant[r]
  <2>1. r \in Coroutines /\ r > Servers
    BY DEF Readers, Strong, Typed
  <2>2. r \in alive
    BY <1>1, <2>1 DEF Strong, AliveSound
  <2>3. FdOf(r) = fd[r]
    BY <1>1 DEF FdOf
  <2>4. QED
    BY <1>1, <2>1, <2>2, <2>3 DEF Strong, FdSound
<1>2. ASSUME NEW f \in DOMAIN open
      PROVE  Cardinality({r \in Readers \cap alive : meant[r] = open[f]}) = 1
  <2>1. PICK r \in alive : r > Servers /\ meant[r] = open[f]
    BY DEF Strong, FdSound
  <2>2. r \in Readers
    <3>1. r \in Coroutines
      BY <2>1 DEF Strong, AliveSound
    <3>2. QED
      BY <2>1, <3>1 DEF Readers, Strong, Typed
  <2>3. open[f] # NoConn
    BY DEF Strong, FdSound, Conns, NoConn
  <2>4. \A q \in Readers : meant[q] = open[f] => q = r
    BY <2>1, <2>2, <2>3 DEF Strong, FdSound, Readers
  <2>5. {q \in Readers \cap alive : meant[q] = open[f]} = {r}
    BY <2>1, <2>2, <2>4
  <2>6. QED
    BY <2>5, FS_Singleton
<1>3. QED
  BY <1>1, <1>2 DEF RightDescriptor

\* And what Scheduled says, as long as no assertion has failed
LEMMA StrongScheduled == Strong /\ ~failed => Scheduled
<1> SUFFICES ASSUME Strong, ~failed PROVE Scheduled
  OBVIOUS
<1>1. ToSet(ready) \cup {waiting[f] : f \in DOMAIN waiting} \subseteq alive
  <2>1. ToSet(ready) \subseteq alive
    BY DEF ToSet, Strong, ReadySound
  <2>2. {waiting[f] : f \in DOMAIN waiting} \subseteq alive
    BY DEF Strong, WaitSound
  <2>3. QED
    BY <2>1, <2>2
<1>2. ASSUME NEW co \in alive
      PROVE  Places(co) = IF co = running /\ pc[co] \notin Woken THEN 0 ELSE 1
  <2> DEFINE R == {i \in DOMAIN ready : ready[i] = co}
             W == {f \in DOMAIN waiting : waiting[f] = co}
  <2>1. \A i \in DOMAIN ready : /\ ready[i] # running /\ pc[ready[i]] \in {"start", "accept"}
                                /\ \A j \in DOMAIN ready : ready[i] = ready[j] => i = j
    BY DEF Strong, ReadySound
  <2>2. \A f \in DOMAIN waiting : fd[waiting[f]] = f /\ pc[waiting[f]] \in Woken
    BY DEF Strong, WaitSound
  <2>3. pc[co] \in Woken => fd[co] \in DOMAIN waiting /\ waiting[fd[co]] = co
    BY DEF Strong, WaitSound
  <2>4. pc[co] \notin Woken /\ co # running => \E i \in DOMAIN ready : ready[i] = co
    BY DEF Strong, WaitSound
  <2>5. CASE pc[co] \in Woken
    <3>1. R = {}
      BY <2>1, <2>5 DEF Woken
    <3>2. W = {fd[co]}
      BY <2>2, <2>3, <2>5
    <3>3. Cardinality(R) = 0 /\ Cardinality(W) = 1
      BY <3>1, <3>2, FS_Singleton, FS_EmptySet
    <3>4. QED
      BY <2>5, <3>3 DEF Places
  <2>6. CASE pc[co] \notin Woken /\ co # running
    <3>1. PICK i \in DOMAIN ready : ready[i] = co
      BY <2>4, <2>6
    <3>2. R = {i}
      BY <2>1, <3>1
    <3>3. W = {}
      BY <2>2, <2>6
    <3>4. Cardinality(R) = 1 /\ Cardinality(W) = 0
      BY <3>2, <3>3, FS_Singleton, FS_EmptySet
    <3>5. QED
      BY <2>6, <3>4 DEF Places
  <2>7. CASE pc[co] \notin Woken /\ co = running
    <3>1. R = {} /\ W = {}
      BY <2>1, <2>2, <2>7
    <3>2. Cardinality(R) = 0 /\ Cardinality(W) = 0
      BY <3>1, FS_EmptySet
    <3>3. QED
      BY <2>7, <3>2 DEF Places
  <2>8. QED
    BY <2>5, <2>6, <2>7
<1>3. DOMAIN interest = DOMAIN waiting \ {-1}
  BY DEF Strong, WaitSound
<1>4. \A f \in DOMAIN waiting : f > 0 => f \in DOMAIN interest
  BY <1>3
<1>5. \A i \in DOMAIN events : events[i].fd \in DOMAIN waiting
  BY <1>3 DEF Strong, EventSound
<1>6. QED
  BY <1>1, <1>2, <1>4, <1>5 DEF Scheduled

-----------------------------------------------------------------------------
(* The first state *)

LEMMA InitStrong == Init => Strong
<1> SUFFICES ASSUME Init PROVE Strong
  OBVIOUS
<1>0. Servers \in Nat \ {0} /\ ServerIds = 1..Servers
  BY NtyServerAssumption DEF ServerIds
<1>1. /\ pc = [s \in ServerIds |-> "accept"] /\ fd = [s \in ServerIds |-> s]
      /\ cliFd = [s \in ServerIds |-> -1] /\ maker = <<>> /\ meant = <<>>
      /\ backlog = [s \in ServerIds |-> <<>>] /\ open = <<>> /\ asked = <<>>
  BY DEF Init
<1>2. /\ phase = "test" /\ waiting = <<>> /\ interest = <<>> /\ events = <<>>
      /\ ready = [s \in ServerIds |-> s]
      /\ running = None /\ alive = ToSet(ready) /\ eof = {}
  BY DEF Init, SchedInit
<1>3. /\ pc \in Seq(ServerPCs \cup ReaderPCs) /\ fd \in Seq(Int) /\ ready \in Seq(Nat)
      /\ Len(pc) = Servers /\ Len(fd) = Servers
  <2>1. pc \in [1..Servers -> ServerPCs \cup ReaderPCs] /\ fd \in [1..Servers -> Int]
        /\ ready \in [1..Servers -> Nat]
    BY <1>0, <1>1, <1>2 DEF ServerPCs
  <2>2. QED
    BY <1>0, <2>1, SeqDef, LenProperties
<1>4. Coroutines = ServerIds /\ alive = ServerIds
  BY <1>0, <1>2, <1>3 DEF Coroutines, ToSet
<1>5. /\ DOMAIN maker = {} /\ DOMAIN meant = {} /\ DOMAIN open = {} /\ DOMAIN waiting = {}
      /\ DOMAIN interest = {} /\ DOMAIN events = {} /\ DOMAIN ready = ServerIds
  BY <1>1, <1>2
<1>6. \A co \in alive : ~(co > Servers) /\ co \in Nat \ {0} /\ pc[co] = "accept" /\ ready[co] = co
  BY <1>0, <1>1, <1>2, <1>4
<1>7. Typed
  <2>1. IsFiniteSet(DOMAIN interest)
    BY <1>5, FS_EmptySet
  <2>2. events \in Seq([fd : Int, hup : BOOLEAN]) /\ asked \in Seq(Nat)
        /\ backlog \in [ServerIds -> Seq(Nat)] /\ cliFd \in [ServerIds -> Int]
    BY <1>1, <1>2
  <2>3. QED
    BY <1>0, <1>1, <1>3, <1>4, <1>5, <2>1, <2>2 DEF Typed, ServerPCs
<1>8. AliveSound
  BY <1>1, <1>2, <1>4 DEF AliveSound
<1>9. ReadySound
  BY <1>0, <1>2, <1>4, <1>5, <1>6 DEF ReadySound, None
<1>10. WaitSound
  BY <1>2, <1>4, <1>5, <1>6 DEF WaitSound, Woken
<1>11. EventSound
  BY <1>2, <1>5 DEF EventSound
<1>12. FdSound
  BY <1>5, <1>6 DEF FdSound
<1>13. LostSound /\ StartSound
  BY <1>5, <1>6, <1>4 DEF LostSound, StartSound, Begins
<1>14. BacklogSound
  <2>1. \A s \in ServerIds : 1..Len(backlog[s]) = {}
    BY <1>1
  <2>2. QED
    BY <2>1, Zenon DEF BacklogSound, Pending
<1>15. QED
  BY <1>7, <1>8, <1>9, <1>10, <1>11, <1>12, <1>13, <1>14 DEF Strong
-----------------------------------------------------------------------------
(* The steps of the running coroutine *)

SameProgram == UNCHANGED <<fd, cliFd, maker, meant, backlog, open, asked>>

\* A step between two calls: the scheduler is as it was.
LEMMA MovesStep ==
    ASSUME Strong, NEW co \in alive, co = running, NEW where \in {"recv", "send", "accept hook"},
           Goto(co, where), Goes, SameProgram,
           pc[co] \notin Woken \cup {"start"},
           co \in ServerIds => pc[co] = "accept now" /\ where = "accept hook",
           co \notin ServerIds => where # "accept hook" /\ meant[co] # NoConn
    PROVE  Strong'
<1>1. /\ co \in Coroutines /\ co # None /\ (co \in ServerIds <=> ~(co > Servers))
      /\ (co \in ServerIds => pc[co] \in ServerPCs)
      /\ (co \notin ServerIds => pc[co] \in ReaderPCs)
      /\ pc[co] # "exited"
  BY FdRange DEF Strong, AliveSound
<1>2. /\ pc' \in Seq(ServerPCs \cup ReaderPCs) /\ Len(pc') = Len(pc)
      /\ Coroutines' = Coroutines
      /\ \A x \in Coroutines : pc'[x] = IF x = co THEN where ELSE pc[x]
      /\ \A s \in ServerIds : pc'[s] \in ServerPCs
      /\ \A r \in Coroutines : r > Servers => pc'[r] \in ReaderPCs
  <2>1. where \in IF co \in ServerIds THEN ServerPCs ELSE ReaderPCs
    BY DEF ServerPCs, ReaderPCs, Woken
  <2>2. QED
    BY <2>1, GotoFacts
<1>3. /\ Coroutines' = Coroutines /\ alive' = alive /\ running' = co /\ ready' = ready
      /\ waiting' = waiting /\ interest' = interest /\ events' = events /\ eof' = eof
      /\ phase' = phase /\ last' = last
      /\ fd' = fd /\ cliFd' = cliFd /\ maker' = maker /\ meant' = meant
      /\ backlog' = backlog /\ open' = open /\ asked' = asked
  BY <1>2 DEF Goes, schedVars, SameProgram
<1>4. ServerIds \subseteq Coroutines /\ Servers \in Nat
  BY Numbers
<1>5. \A r \in alive : r \in Coroutines /\ FdOf(r)' = FdOf(r)
  BY <1>2, <1>3 DEF FdOf, Strong, AliveSound
<1>6. Typed'
  <2>1. Typed
    BY DEF Strong
  <2>2. Conns' = Conns
    BY <1>3 DEF Conns
  <2> HIDE DEF ServerPCs, ReaderPCs
  <2>3. QED
    BY <2>1, <2>2, <1>2, <1>3 DEF Typed
<1>7. AliveSound'
  BY <1>1, <1>2, <1>3 DEF Strong, AliveSound
<1>8. ReadySound'
  <2>1. \A i \in DOMAIN ready : ready[i] \in Coroutines /\ ready[i] # co /\ pc'[ready[i]] = pc[ready[i]]
    BY <1>2, <1>5 DEF Strong, ReadySound
  <2>2. QED
    BY <2>1, <1>3 DEF Strong, ReadySound
<1>9. WaitSound'
  <2>1. \A f \in DOMAIN waiting : waiting[f] # co /\ pc'[waiting[f]] = pc[waiting[f]]
    BY <1>2, <1>5 DEF Strong, WaitSound
  <2>2. \A x \in alive : pc'[x] \in Woken => pc[x] \in Woken
    BY <1>2, <1>5 DEF Woken
  <2>3. \A x \in alive : pc'[x] \notin Woken /\ x # co => pc[x] \notin Woken
    BY <1>2, <1>5
  <2>4. eof = {}
    BY DEF Strong, WaitSound
  <2>5. QED
    BY <2>1, <2>2, <2>3, <2>4, <1>3 DEF Strong, WaitSound
<1>10. EventSound'
  BY <1>3 DEF Strong, EventSound
<1>11. FdSound'
  <2>1. \A r \in alive : FdOf(r)' = FdOf(r)
    BY <1>3, <1>5
  <2>2. Conns' = Conns
    BY <1>3 DEF Conns
  <2>3. QED
    <3>1. meant' = meant /\ open' = open /\ alive' = alive
      BY <1>3
    <3>2. \A f \in DOMAIN open :
            \E r \in alive : r > Servers /\ meant[r] = open[f] /\ FdOf(r)' = f
      <4>1. ASSUME NEW f \in DOMAIN open
            PROVE  \E r \in alive : r > Servers /\ meant[r] = open[f] /\ FdOf(r)' = f
        <5>1. PICK r \in alive : r > Servers /\ meant[r] = open[f] /\ FdOf(r) = f
          BY DEF Strong, FdSound
        <5>2. FdOf(r)' = f
          BY <2>1, <5>1
        <5>3. QED
          BY <5>1, <5>2
      <4>2. QED
        BY <4>1
    <3>3. \A r \in alive : (r > Servers /\ meant[r] # NoConn) =>
            FdOf(r)' \in DOMAIN open /\ open[FdOf(r)'] = meant[r]
      BY <2>1 DEF Strong, FdSound
    <3>4. \A r \in alive : (r > Servers /\ meant[r] = NoConn) => FdOf(r)' = -1
      BY <2>1 DEF Strong, FdSound
    <3>5. /\ DOMAIN open \subseteq ConnFds /\ \A f \in DOMAIN open : open[f] \in Conns
          /\ \A r, q \in DOMAIN meant : meant[r] = meant[q] /\ meant[r] # NoConn => r = q
      BY DEF Strong, FdSound
    <3>6. QED
      BY <2>2, <3>1, <3>2, <3>3, <3>4, <3>5 DEF FdSound
<1>12. LostSound'
  BY <1>1, <1>2, <1>3, <1>5 DEF Strong, LostSound
<1>13. BacklogSound'
  <2>1. Conns' = Conns
    BY <1>3 DEF Conns
  <2>2. BacklogSound /\ backlog' = backlog /\ meant' = meant
    BY <1>3 DEF Strong
  <2>3. QED
    BY <2>1, <2>2 DEF BacklogSound
<1>14. StartSound'
  <2>1. \A r \in alive : Begins(r)' <=> Begins(r)
    BY <1>2, <1>3, <1>5 DEF Begins
  <2>2. \A r \in alive : Begins(r) =>
            maker[r] \in Coroutines /\ maker[r] # co /\ pc'[maker[r]] = pc[maker[r]]
    <3>1. \A r \in alive : Begins(r) => maker[r] \in ServerIds
      BY <1>5 DEF Strong, Typed, Begins
    <3>2. \A r \in alive : Begins(r) => maker[r] # co
      BY <3>1 DEF Strong, StartSound
    <3>3. QED
      BY <3>1, <3>2, <1>2, <1>4
  <2>3. \A i \in DOMAIN ready : ready[i] \in alive
    BY DEF Strong, ReadySound
  <2>4. QED
    BY <2>1, <2>2, <2>3, <1>3 DEF Strong, StartSound
<1>15. QED
  BY <1>6, <1>7, <1>8, <1>9, <1>10, <1>11, <1>12, <1>13, <1>14 DEF Strong

\* The end of nty_poll_inner: the coroutine takes its entries away.
LEMMA WakesStep ==
    ASSUME Strong, ~failed, NEW co \in alive, Wakes(co)
    PROVE  Strong' /\ ~failed'
<1>0. PICK where \in {"accept hook", "accept now", "recv hook", "recv now", "send", "send hook"} :
          /\ Goto(co, where) /\ running = co /\ pc[co] \in Woken
          /\ (where \in {"accept hook", "accept now"} <=> pc[co] \in {"accept wake", "accept hook wake"})
          /\ (pc[co] = "recv wake" <=> where = "recv hook")
  BY DEF Wakes, At, Running, Woken
<1>1. /\ co \in Coroutines /\ co # None /\ (co \in ServerIds <=> ~(co > Servers))
      /\ (co \in ServerIds => pc[co] \in ServerPCs)
      /\ (co \notin ServerIds => pc[co] \in ReaderPCs \ {"exited"})
      /\ FdOf(co) = fd[co]
  BY <1>0, FdRange DEF Woken
<1>2. /\ pc' \in Seq(ServerPCs \cup ReaderPCs) /\ Len(pc') = Len(pc)
      /\ Coroutines' = Coroutines
      /\ \A x \in Coroutines : pc'[x] = IF x = co THEN where ELSE pc[x]
      /\ \A s \in ServerIds : pc'[s] \in ServerPCs
      /\ \A r \in Coroutines : r > Servers => pc'[r] \in ReaderPCs
  <2>1. where \in IF co \in ServerIds THEN ServerPCs ELSE ReaderPCs
    BY <1>0, <1>1 DEF ServerPCs, ReaderPCs, Woken
  <2>2. QED
    BY <1>0, <2>1, GotoFacts
<1>3. /\ Coroutines' = Coroutines /\ alive' = alive /\ running' = co /\ ready' = ready
      /\ events' = events /\ phase' = phase /\ last' = last
      /\ fd' = fd /\ cliFd' = cliFd /\ maker' = maker /\ meant' = meant
      /\ backlog' = backlog /\ open' = open /\ asked' = asked
      /\ waiting' = Without(waiting, fd[co]) /\ interest' = Without(interest, fd[co])
      /\ eof' = eof \ {co} /\ failed' = (fd[co] \notin DOMAIN waiting)
  BY <1>0, <1>2 DEF Wakes, EndsPoll, kernelVars
<1>4. fd[co] \in DOMAIN waiting /\ waiting[fd[co]] = co
  BY <1>0 DEF Strong, WaitSound
<1>5. /\ DOMAIN waiting' = DOMAIN waiting \ {fd[co]}
      /\ \A f \in DOMAIN waiting' : waiting'[f] = waiting[f]
      /\ DOMAIN interest' = DOMAIN interest \ {fd[co]}
  <2>1. /\ DOMAIN Without(waiting, fd[co]) = DOMAIN waiting \ {fd[co]}
        /\ \A f \in DOMAIN waiting : f # fd[co] => Without(waiting, fd[co])[f] = waiting[f]
        /\ DOMAIN Without(interest, fd[co]) = DOMAIN interest \ {fd[co]}
    BY DEF Without
  <2>2. \A f \in DOMAIN waiting \ {fd[co]} : f \in DOMAIN waiting /\ f # fd[co]
    OBVIOUS
  <2>3. QED
    BY <1>3, <2>1, <2>2
<1>6. \A r \in alive : r \in Coroutines /\ FdOf(r)' = FdOf(r)
  <2>1. \A r \in alive : r \in Coroutines /\ (pc'[r] = "start" <=> pc[r] = "start")
    BY <1>0, <1>2 DEF Woken, Strong, AliveSound
  <2>2. QED
    BY <2>1, <1>3 DEF FdOf
<1>7. Typed'
  <2>1. Typed
    BY DEF Strong
  <2>2. Conns' = Conns
    BY <1>3 DEF Conns
  <2>3. IsFiniteSet(DOMAIN interest')
    <3>1. IsFiniteSet(DOMAIN interest) /\ DOMAIN interest' \subseteq DOMAIN interest
      BY <2>1, <1>5 DEF Typed
    <3>2. QED
      BY <3>1, FS_Subset, Zenon
  <2> HIDE DEF ServerPCs, ReaderPCs
  <2>4. QED
    BY <2>1, <2>2, <2>3, <1>2, <1>3 DEF Typed
<1>8. AliveSound'
  BY <1>0, <1>1, <1>2, <1>3 DEF Strong, AliveSound, Woken
<1>9. ReadySound'
  <2>1. \A i \in DOMAIN ready : ready[i] \in Coroutines /\ ready[i] # co /\ pc'[ready[i]] = pc[ready[i]]
    BY <1>0, <1>2, <1>6 DEF Strong, ReadySound
  <2>2. QED
    BY <2>1, <1>0, <1>3 DEF Strong, ReadySound
<1>10. WaitSound'
  <2>1. \A f \in DOMAIN waiting' :
          waiting'[f] \in alive /\ fd[waiting'[f]] = f /\ pc'[waiting'[f]] \in Woken
    <3>1. \A f \in DOMAIN waiting : waiting[f] \in alive /\ fd[waiting[f]] = f /\ pc[waiting[f]] \in Woken
      BY DEF Strong, WaitSound
    <3>2. \A f \in DOMAIN waiting' : waiting[f] # co
      BY <3>1, <1>5
    <3>3. QED
      BY <3>1, <3>2, <1>2, <1>5, <1>6
  <2>2. \A x \in alive : pc'[x] \in Woken => x # co /\ pc[x] \in Woken
    BY <1>2, <1>6 DEF Woken
  <2>3. \A x \in alive : pc'[x] \in Woken => fd[x] \in DOMAIN waiting' /\ waiting'[fd[x]] = x
    <3>1. \A x \in alive : pc'[x] \in Woken => fd[x] \in DOMAIN waiting /\ waiting[fd[x]] = x
      BY <2>2 DEF Strong, WaitSound
    <3>2. \A x \in alive : pc'[x] \in Woken => fd[x] # fd[co]
      BY <3>1, <2>2, <1>4
    <3>3. QED
      BY <3>1, <3>2, <1>5
  <2>4. \A x \in alive : pc'[x] \notin Woken /\ x # co => \E i \in DOMAIN ready : ready[i] = x
    BY <1>0, <1>2, <1>6 DEF Strong, WaitSound
  <2>5. DOMAIN interest' = DOMAIN waiting' \ {-1}
    BY <1>5 DEF Strong, WaitSound
  <2>6. eof' = {}
    BY <1>0, <1>3 DEF Strong, WaitSound
  <2>7. QED
    BY <2>1, <2>3, <2>4, <2>5, <2>6, <1>3 DEF WaitSound
<1>11. EventSound'
  <2>1. \A i \in DOMAIN events : events[i].fd \in DOMAIN interest /\ events[i].fd # fd[co]
    BY <1>0, <1>1 DEF Strong, EventSound
  <2>2. QED
    BY <2>1, <1>3, <1>5 DEF Strong, EventSound
<1>12. FdSound'
  BY <1>3, <1>6 DEF Strong, FdSound, Conns
<1>13. LostSound'
  <2>1. co > Servers => meant[co] # NoConn
    BY <1>0 DEF Strong, LostSound, Woken
  <2>2. QED
    BY <2>1, <1>0, <1>2, <1>3, <1>6 DEF Strong, LostSound
<1>14. BacklogSound'
  <2>1. Conns' = Conns
    BY <1>3 DEF Conns
  <2>2. BacklogSound /\ backlog' = backlog /\ meant' = meant
    BY <1>3 DEF Strong
  <2>3. QED
    BY <2>1, <2>2 DEF BacklogSound
<1>15. StartSound'
  <2>1. \A r \in alive : Begins(r)' <=> Begins(r)
    BY <1>0, <1>2, <1>3, <1>6 DEF Begins, Woken
  <2>2. \A r \in alive : Begins(r) => maker[r] \in ServerIds /\ maker[r] # co
    <3>1. \A r \in alive : Begins(r) => maker[r] # co
      BY <1>0 DEF Strong, StartSound, Woken
    <3>2. QED
      BY <3>1, Numbers
  <2>3. \A r \in alive : Begins(r) => pc'[maker[r]] = pc[maker[r]]
    BY <2>2, <1>2, Numbers
  <2>4. \A i \in DOMAIN ready : ready[i] \in alive
    BY DEF Strong, ReadySound
  <2>5. QED
    BY <1>0, <2>1, <2>2, <2>3, <2>4, <1>3 DEF Strong, StartSound
<1>16. QED
  BY <1>3, <1>4, <1>7, <1>8, <1>9, <1>10, <1>11, <1>12, <1>13, <1>14, <1>15 DEF Strong

\* Where a server and a reader wait
WaitPCs(co) ==
    IF co \in ServerIds THEN {"accept wake", "accept hook wake"}
    ELSE {"recv wake", "recv hook wake", "send wake", "send hook wake"}

\* The call of nty_poll_inner
WaitsAt(co, where) ==
    /\ co = running /\ Goto(co, where) /\ SameProgram
    /\ \E event \in {"IN", "OUT"} : PollsFor(co, fd[co], event)
    /\ pc[co] \notin Woken \cup {"start"}
    /\ where \in WaitPCs(co)
    /\ where = "accept hook wake" => pc[co] = "accept hook"
    /\ co \notin ServerIds /\ meant[co] = NoConn => where = "recv wake"

\* A coroutine waits for a descriptor that nobody waits for.
LEMMA WaitsStep ==
    ASSUME Strong, NEW co \in alive, NEW where, WaitsAt(co, where), fd[co] \notin DOMAIN waiting
    PROVE  Strong' /\ ~failed'
<1>0. /\ Goto(co, where) /\ co = running /\ pc[co] \notin Woken /\ pc[co] # "start"
      /\ where \in Woken
      /\ where \in WaitPCs(co)
      /\ where = "accept hook wake" => pc[co] = "accept hook"
      /\ SameProgram /\ \E event \in {"IN", "OUT"} : PollsFor(co, fd[co], event)
  BY DEF WaitsAt, WaitPCs, Woken
<1>1. /\ co \in Coroutines /\ co # None /\ (co \in ServerIds <=> ~(co > Servers))
      /\ FdOf(co) = fd[co] /\ pc[co] # "exited"
      /\ fd[co] \in {-1} \cup ServerIds \cup ConnFds
  <2>1. /\ co \in Coroutines /\ co # None /\ (co \in ServerIds <=> ~(co > Servers))
        /\ FdOf(co) \in {-1} \cup ServerIds \cup ConnFds
    BY FdRange
  <2>2. FdOf(co) = fd[co]
    BY <1>0 DEF FdOf
  <2>3. pc[co] # "exited"
    BY DEF Strong, AliveSound
  <2>4. QED
    BY <2>1, <2>2, <2>3
<1>2. /\ pc' \in Seq(ServerPCs \cup ReaderPCs) /\ Len(pc') = Len(pc)
      /\ Coroutines' = Coroutines
      /\ \A x \in Coroutines : pc'[x] = IF x = co THEN where ELSE pc[x]
      /\ \A s \in ServerIds : pc'[s] \in ServerPCs
      /\ \A r \in Coroutines : r > Servers => pc'[r] \in ReaderPCs
  <2>1. where \in IF co \in ServerIds THEN ServerPCs ELSE ReaderPCs
    BY <1>0 DEF ServerPCs, ReaderPCs, WaitPCs
  <2>2. QED
    BY <1>0, <2>1, GotoFacts
<1>3. /\ alive' = alive /\ running' = None /\ ready' = ready /\ eof' = eof
      /\ events' = events /\ phase' = phase /\ last' = last /\ Coroutines' = Coroutines
      /\ fd' = fd /\ cliFd' = cliFd /\ maker' = maker /\ meant' = meant
      /\ backlog' = backlog /\ open' = open /\ asked' = asked
      /\ waiting' = With(waiting, fd[co], co) /\ ~failed'
  BY <1>0, <1>2 DEF PollsFor, SameProgram
<1>4. /\ DOMAIN waiting' = DOMAIN waiting \cup {fd[co]} /\ waiting'[fd[co]] = co
      /\ \A f \in DOMAIN waiting : waiting'[f] = waiting[f]
  <2>1. waiting' = With(waiting, fd[co], co)
    BY <1>3
  <2>2. QED
    BY <2>1 DEF With
<1>5. DOMAIN interest' = DOMAIN waiting' \ {-1} /\ DOMAIN interest' \subseteq DOMAIN interest \cup {fd[co]}
  <2>1. PICK event \in {"IN", "OUT"} :
            interest' = IF fd[co] < 0 THEN interest ELSE With(interest, fd[co], event)
    BY <1>0 DEF PollsFor
  <2>2. fd[co] < 0 <=> fd[co] = -1
    BY <1>1, NtyServerAssumption DEF ServerIds, ConnFds
  <2>3. DOMAIN interest = DOMAIN waiting \ {-1}
    BY DEF Strong, WaitSound
  <2>4. CASE fd[co] = -1
    BY <2>1, <2>2, <2>3, <2>4, <1>4
  <2>5. CASE fd[co] # -1
    <3>1. DOMAIN interest' = DOMAIN interest \cup {fd[co]}
      <4>1. interest' = With(interest, fd[co], event)
        BY <2>1, <2>2, <2>5
      <4>2. QED
        BY <4>1 DEF With
    <3>2. QED
      BY <2>3, <2>5, <3>1, <1>4
  <2>6. QED
    BY <2>4, <2>5
<1>6. \A r \in alive : r \in Coroutines /\ FdOf(r)' = FdOf(r)
  <2>1. \A r \in alive : r \in Coroutines /\ (pc'[r] = "start" <=> pc[r] = "start")
    BY <1>0, <1>2 DEF Woken, Strong, AliveSound
  <2>2. QED
    BY <2>1, <1>3 DEF FdOf
<1>7. Typed'
  <2>1. Typed
    BY DEF Strong
  <2>2. Conns' = Conns
    BY <1>3 DEF Conns
  <2>3. IsFiniteSet(DOMAIN interest')
    <3>1. IsFiniteSet(DOMAIN interest)
      BY <2>1 DEF Typed
    <3>2. IsFiniteSet(DOMAIN interest \cup {fd[co]})
      BY <3>1, FS_AddElement
    <3>3. QED
      BY <3>2, <1>5, FS_Subset, Zenon
  <2> HIDE DEF ServerPCs, ReaderPCs
  <2>4. QED
    BY <2>1, <2>2, <2>3, <1>2, <1>3 DEF Typed
<1>8. AliveSound'
  BY <1>0, <1>1, <1>2, <1>3 DEF Strong, AliveSound, Woken
<1>9. ReadySound'
  <2>1. \A i \in DOMAIN ready : /\ ready[i] \in alive /\ ready[i] # None
                                /\ pc'[ready[i]] = pc[ready[i]]
    BY <1>0, <1>2, <1>6, FdRange DEF Strong, ReadySound
  <2>2. QED
    BY <2>1, <1>3 DEF Strong, ReadySound
<1>10. WaitSound'
  <2>1. \A f \in DOMAIN waiting' :
          waiting'[f] \in alive /\ fd[waiting'[f]] = f /\ pc'[waiting'[f]] \in Woken
    <3>1. \A f \in DOMAIN waiting :
            /\ waiting[f] \in alive /\ fd[waiting[f]] = f /\ pc[waiting[f]] \in Woken
            /\ waiting[f] # co
      BY <1>0 DEF Strong, WaitSound
    <3>2. \A f \in DOMAIN waiting : pc'[waiting[f]] = pc[waiting[f]]
      BY <3>1, <1>2, <1>6
    <3>3. pc'[co] \in Woken
      BY <1>0, <1>1, <1>2
    <3>4. QED
      BY <3>1, <3>2, <3>3, <1>4
  <2>2. \A x \in alive : pc'[x] \in Woken => fd[x] \in DOMAIN waiting' /\ waiting'[fd[x]] = x
    <3>1. \A x \in alive : x # co /\ pc'[x] \in Woken => fd[x] \in DOMAIN waiting /\ waiting[fd[x]] = x
      BY <1>2, <1>6 DEF Strong, WaitSound
    <3>2. QED
      BY <3>1, <1>4
  <2>3. \A x \in alive : pc'[x] \notin Woken => \E i \in DOMAIN ready : ready[i] = x
    BY <1>0, <1>2, <1>6 DEF Strong, WaitSound
  <2>4. eof' = {}
    BY <1>0, <1>3 DEF Strong, WaitSound
  <2>5. QED
    BY <2>1, <2>2, <2>3, <2>4, <1>3, <1>5 DEF WaitSound
<1>11. EventSound'
  <2>1. \A i \in DOMAIN events : events[i].fd \in DOMAIN interest /\ events[i].fd \in DOMAIN waiting \ {-1}
    BY DEF Strong, EventSound, WaitSound
  <2>2. QED
    BY <2>1, <1>3, <1>4, <1>5 DEF Strong, EventSound
<1>12. FdSound'
  BY <1>3, <1>6 DEF Strong, FdSound, Conns
<1>13. LostSound'
  <2>1. \A r \in alive : r # None /\ (r # co => pc'[r] = pc[r])
    BY <1>2, <1>6, FdRange
  <2>2. co > Servers /\ meant[co] = NoConn => pc'[co] = "recv wake"
    BY <1>1, <1>2 DEF WaitsAt
  <2>3. QED
    BY <2>1, <2>2, <1>3 DEF Strong, LostSound
<1>14. BacklogSound'
  <2>1. Conns' = Conns
    BY <1>3 DEF Conns
  <2>2. BacklogSound /\ backlog' = backlog /\ meant' = meant
    BY <1>3 DEF Strong
  <2>3. QED
    BY <2>1, <2>2 DEF BacklogSound
<1>15. StartSound'
  <2>1. \A r \in alive : Begins(r)' <=> Begins(r)
    BY <1>0, <1>2, <1>3, <1>6 DEF Begins, Woken
  <2>2. \A r \in alive : Begins(r) => maker[r] \in ServerIds
    BY Numbers
  <2>3. ASSUME NEW r \in alive, Begins(r)
        PROVE  /\ pc'[maker[r]] \in {"accept", "accept wake"}
               /\ pc'[maker[r]] = "accept wake" =>
                     maker[r] # None /\ \A i \in DOMAIN events : events[i].fd # maker[r]
    <3>1. maker[r] \in ServerIds /\ maker[r] # None
      BY <2>2, <2>3 DEF ServerIds, None
    <3>2. CASE maker[r] = co
      <4>0. pc[co] \in {"accept", "accept wake"}
        BY <2>3, <3>2 DEF Strong, StartSound
      <4>1. pc'[maker[r]] = "accept wake"
        BY <4>0, <1>0, <1>1, <1>2, <3>1, <3>2 DEF WaitPCs
      <4>2. FdOf(co) = co
        BY <3>1, <3>2, FdRange
      <4>3. \A i \in DOMAIN events : events[i].fd # co
        BY <4>2, <1>0, NoEvent
      <4>4. QED
        BY <3>1, <3>2, <4>1, <4>3
    <3>3. CASE maker[r] # co
      <4>1. pc'[maker[r]] = pc[maker[r]]
        BY <3>1, <3>3, <1>2, Numbers
      <4>2. QED
        BY <2>3, <3>1, <4>1 DEF Strong, StartSound
    <3>4. QED
      BY <3>2, <3>3
  <2>4. \A i \in DOMAIN ready : ready[i] \in alive
    BY DEF Strong, ReadySound
  <2>5. QED
    BY <2>1, <2>3, <2>4, <1>3 DEF Strong, StartSound
<1>16. QED
  BY <1>3, <1>7, <1>8, <1>9, <1>10, <1>11, <1>12, <1>13, <1>14, <1>15 DEF Strong

\* The assertion of nty_schedule_sched_wait fails: both that have the descriptor
\* have -1, which accept(2) returned for them.
LEMMA WaitFails ==
    ASSUME Strong, NEW co \in alive, NEW where, WaitsAt(co, where), fd[co] \in DOMAIN waiting
    PROVE  TwoLost' /\ RightDescriptor'
<1>0. /\ Goto(co, where) /\ co = running /\ pc[co] \notin Woken /\ pc[co] # "start"
      /\ where \in Woken
      /\ where \in WaitPCs(co)
      /\ where = "accept hook wake" => pc[co] = "accept hook"
      /\ SameProgram /\ \E event \in {"IN", "OUT"} : PollsFor(co, fd[co], event)
  BY DEF WaitsAt, WaitPCs, Woken
<1>1. FdOf(co) = fd[co] /\ fd[co] = -1
  <2>1. FdOf(co) = fd[co]
    BY <1>0, FdRange
  <2>2. FdOf(co) \in DOMAIN waiting => FdOf(co) = -1
    BY <1>0, NoEvent
  <2>3. QED
    BY <2>1, <2>2
<1>2. co \in DOMAIN meant /\ meant[co] = NoConn
  BY <1>1, FdRange DEF ServerIds
<1> DEFINE w == waiting[fd[co]]
<1>3. w \in alive /\ fd[w] = -1 /\ pc[w] \in Woken
  BY <1>1 DEF Strong, WaitSound
<1>4. w \in DOMAIN meant /\ meant[w] = NoConn /\ w # co
  <2>1. pc[w] # "start" /\ w # co
    BY <1>0, <1>3 DEF Woken
  <2> HIDE DEF w
  <2>2. QED
    BY <1>3, <2>1, FdRange DEF ServerIds
<1>5. /\ alive' = alive /\ fd' = fd /\ meant' = meant /\ open' = open
  BY <1>0 DEF PollsFor, SameProgram
<1> HIDE DEF w
<1>6. TwoLost'
  BY <1>2, <1>4, <1>5 DEF TwoLost, Readers
<1>7. RightDescriptor'
  <2>1. \A x \in Coroutines : pc'[x] = IF x = co THEN where ELSE pc[x]
    <3>1. where \in IF co \in ServerIds THEN ServerPCs ELSE ReaderPCs
      BY <1>0 DEF ServerPCs, ReaderPCs, WaitPCs
    <3>2. QED
      BY <1>0, <3>1, GotoFacts
  <2>2. \A r \in Readers : pc'[r] \notin {"start", "exited"} => pc[r] \notin {"start", "exited"}
    <3>1. pc[co] # "exited"
      BY DEF Strong, AliveSound
    <3>2. QED
      BY <2>1, <3>1, <1>0, Numbers DEF Readers
  <2>3. RightDescriptor /\ Readers' = Readers
    BY <1>5, StrongRight DEF Readers
  <2>4. \A f \in DOMAIN open :
            {r \in Readers' \cap alive' : meant'[r] = open'[f]} = {r \in Readers \cap alive : meant[r] = open[f]}
    BY <2>3, <1>5
  <2>5. QED
    BY <2>2, <2>3, <2>4, <1>5 DEF RightDescriptor
<1>8. QED
  BY <1>6, <1>7

LEMMA AppendFacts ==
    ASSUME NEW S, NEW s \in Seq(S), NEW x \in S
    PROVE  /\ Append(s, x) \in Seq(S) /\ Len(s) \in Nat /\ Len(Append(s, x)) = Len(s) + 1
           /\ DOMAIN s = 1..Len(s) /\ DOMAIN Append(s, x) = 1..Len(s) + 1
           /\ \A i \in 1..Len(s) : Append(s, x)[i] = s[i]
           /\ Append(s, x)[Len(s) + 1] = x
<1>1. /\ Append(s, x) \in Seq(S) /\ Len(Append(s, x)) = Len(s) + 1
      /\ \A i \in 1..Len(s) : Append(s, x)[i] = s[i]
      /\ Append(s, x)[Len(s) + 1] = x
  BY AppendProperties
<1>2. QED
  BY <1>1, LenProperties

\* A server that cannot get the lock goes to the end of the ready queue.
LEMMA SpinsStep ==
    ASSUME Strong, ~failed, NEW co \in alive, co \in ServerIds, Spins(co)
    PROVE  Strong' /\ ~failed'
<1>0. /\ co = running /\ pc[co] = "accept" /\ co \in Nat \ {0} /\ co # None
      /\ co \in Coroutines /\ ready \in Seq(Nat) /\ DOMAIN ready = 1..Len(ready) /\ Len(ready) \in Nat
  BY FdRange, LenProperties DEF Spins, At, Running, Strong, Typed
<1>1. /\ Coroutines' = Coroutines /\ alive' = alive /\ running' = None /\ eof' = eof
      /\ events' = events /\ phase' = phase /\ last' = last /\ pc' = pc /\ failed' = failed
      /\ fd' = fd /\ cliFd' = cliFd /\ maker' = maker /\ meant' = meant
      /\ backlog' = backlog /\ open' = open /\ asked' = asked
      /\ waiting' = waiting /\ interest' = interest
      /\ ready' = Append(ready, co)
  BY DEF Spins, YieldsReady, kernelVars, Coroutines
<1>2. /\ ready' \in Seq(Nat) /\ DOMAIN ready' = 1..Len(ready) + 1
      /\ \A i \in 1..Len(ready) : ready'[i] = ready[i]
      /\ ready'[Len(ready) + 1] = co
  BY <1>0, <1>1, AppendFacts
<1>3. \A i \in 1..Len(ready) : ready[i] \in alive /\ ready[i] # co /\ ready[i] # None
  BY <1>0, FdRange DEF Strong, ReadySound
<1>4. Typed'
  <2>1. Conns' = Conns /\ Typed
    BY <1>1 DEF Conns, Strong
  <2> HIDE DEF ServerPCs, ReaderPCs
  <2>2. QED
    BY <2>1, <1>1, <1>2 DEF Typed
<1>5. AliveSound'
  BY <1>1 DEF Strong, AliveSound
<1>6. ReadySound'
  <2>1. \A i \in 1..Len(ready) + 1 : i \in 1..Len(ready) \/ i = Len(ready) + 1
    BY <1>0
  <2>2. \A i \in 1..Len(ready) + 1 :
          ready'[i] \in alive /\ ready'[i] # None /\ pc[ready'[i]] \in {"start", "accept"}
    BY <2>1, <1>0, <1>2, <1>3, SMTT(60) DEF Strong, ReadySound
  <2>3. \A i, j \in 1..Len(ready) + 1 : ready'[i] = ready'[j] => i = j
    BY <2>1, <1>0, <1>2, <1>3 DEF Strong, ReadySound
  <2>4. phase = "ready" => \E i \in 1..Len(ready) + 1 : ready'[i] = last
    BY <1>0, <1>2 DEF Strong, ReadySound
  <2>5. QED
    BY <2>2, <2>3, <2>4, <1>1, <1>2 DEF ReadySound
<1>7. WaitSound'
  <2>1. \A x \in alive : pc[x] \notin Woken => \E i \in DOMAIN ready' : ready'[i] = x
    <3>1. \A x \in alive : pc[x] \notin Woken /\ x # co => \E i \in 1..Len(ready) : ready[i] = x
      BY <1>0 DEF Strong, WaitSound
    <3>2. \A i \in 1..Len(ready) : i \in DOMAIN ready'
      BY <1>0, <1>2
    <3>3. Len(ready) + 1 \in DOMAIN ready'
      BY <1>0, <1>2
    <3>4. QED
      BY <3>1, <3>2, <3>3, <1>2
  <2>2. eof = {}
    BY <1>0 DEF Strong, WaitSound, Woken
  <2>3. QED
    BY <2>1, <2>2, <1>1 DEF Strong, WaitSound
<1>8. EventSound'
  BY <1>1 DEF Strong, EventSound
<1>9. FdSound'
  BY <1>1 DEF Strong, FdSound, FdOf, Conns
<1>10. LostSound'
  BY <1>1, FdRange DEF Strong, LostSound
<1>11. BacklogSound'
  <2>1. Conns' = Conns
    BY <1>1 DEF Conns
  <2>2. BacklogSound /\ backlog' = backlog /\ meant' = meant
    BY <1>1 DEF Strong
  <2>3. QED
    BY <2>1, <2>2 DEF BacklogSound
<1>12. StartSound'
  <2>1. \A r : Begins(r)' <=> Begins(r)
    BY <1>1 DEF Begins
  <2>2. \A r \in alive : Begins(r) => maker[r] \in ServerIds /\ maker[r] # None
    BY Numbers DEF ServerIds, None
  <2>3. \A i, j \in 1..Len(ready) + 1 : Begins(ready'[i]) /\ ready'[j] = maker[ready'[i]] => i < j
    <3>1. ~Begins(co)
      BY <1>0 DEF Begins
    <3>2. \A i \in 1..Len(ready) + 1 : Begins(ready'[i]) => i \in 1..Len(ready)
      BY <3>1, <1>0, <1>2
    <3>3. \A j \in 1..Len(ready) + 1 : j \in 1..Len(ready) \/ j = Len(ready) + 1
      BY <1>0
    <3>4. \A i, j \in 1..Len(ready) : Begins(ready[i]) /\ ready[j] = maker[ready[i]] => i < j
      BY <1>0 DEF Strong, StartSound
    <3>5. \A i \in 1..Len(ready) : i < Len(ready) + 1
      BY <1>0
    <3>6. ASSUME NEW i \in 1..Len(ready) + 1, NEW j \in 1..Len(ready) + 1,
                 Begins(ready'[i]), ready'[j] = maker[ready'[i]]
          PROVE  i < j
      <4>1. i \in 1..Len(ready) /\ ready'[i] = ready[i]
        BY <3>2, <3>6, <1>2
      <4>2. CASE j = Len(ready) + 1
        BY <4>1, <4>2, <3>5
      <4>3. CASE j \in 1..Len(ready)
        BY <4>1, <4>3, <3>4, <3>6, <1>2
      <4>4. QED
        BY <3>3, <4>2, <4>3
    <3>7. QED
      BY <3>6
  <2>4. QED
    BY <2>1, <2>2, <2>3, <1>1, <1>2 DEF Strong, StartSound
<1>13. QED
  BY <1>1, <1>4, <1>5, <1>6, <1>7, <1>8, <1>9, <1>10, <1>11, <1>12 DEF Strong

\* accept(2) has returned a descriptor or -1, and the server makes a reader.
Accepted(s, f, c) ==
    /\ f \in ConnFds \ DOMAIN open /\ c = Head(backlog[s])
    /\ backlog' = [backlog EXCEPT ![s] = Tail(@)] /\ open' = With(open, f, c)

Dropped(s, f, c) ==
    /\ f = -1 /\ c = NoConn
    /\ backlog' \in {backlog, [backlog EXCEPT ![s] = Tail(@)]} /\ open' = open

Shorter(queues, s) == [queues EXCEPT ![s] = Tail(@)]

\* The queue of a listening socket loses its first connection.
LEMMA PendingTail ==
    ASSUME NEW queues \in [ServerIds -> Seq(Nat)], NEW conns, NEW taken, NEW s \in ServerIds,
           NEW rest, Pending(queues, conns, taken), queues[s] # <<>>, rest = Shorter(queues, s)
    PROVE  /\ Head(queues[s]) \in conns /\ \A r \in DOMAIN taken : taken[r] # Head(queues[s])
           /\ rest \in [ServerIds -> Seq(Nat)]
           /\ Pending(rest, conns, taken)
           /\ \A t \in ServerIds : \A i \in 1..Len(rest[t]) : rest[t][i] # Head(queues[s])
<1> USE DEF Shorter
<1>1. /\ Tail(queues[s]) \in Seq(Nat) /\ Len(Tail(queues[s])) = Len(queues[s]) - 1
      /\ \A i \in 1..Len(Tail(queues[s])) : Tail(queues[s])[i] = queues[s][i + 1]
  BY HeadTailProperties
<1>2. Len(queues[s]) \in Nat \ {0} /\ Head(queues[s]) = queues[s][1]
  BY EmptySeq
<1>3. rest[s] = Tail(queues[s]) /\ \A t \in ServerIds : t # s => rest[t] = queues[t]
  OBVIOUS
<1>4. rest \in [ServerIds -> Seq(Nat)]
  BY <1>1
<1>5. \A i \in 1..Len(rest[s]) :
          i + 1 \in 1..Len(queues[s]) /\ rest[s][i] = queues[s][i + 1] /\ i + 1 # 1
  BY <1>1, <1>2, <1>3
<1>6. /\ \A t \in ServerIds : \A i \in 1..Len(queues[t]) :
            queues[t][i] \in conns /\ \A r \in DOMAIN taken : taken[r] # queues[t][i]
      /\ \A t, u \in ServerIds : \A i \in 1..Len(queues[t]), j \in 1..Len(queues[u]) :
            queues[t][i] = queues[u][j] => t = u /\ i = j
  BY DEF Pending
<1>7. 1 \in 1..Len(queues[s])
  BY <1>2
<1>8. Head(queues[s]) \in conns /\ \A r \in DOMAIN taken : taken[r] # Head(queues[s])
  BY <1>2, <1>6, <1>7
<1>9. ASSUME NEW t \in ServerIds, NEW i \in 1..Len(rest[t])
      PROVE  \E k \in 1..Len(queues[t]) :
                /\ rest[t][i] = queues[t][k]
                /\ t = s => k # 1 /\ k = i + 1
                /\ t # s => k = i
  <2>1. CASE t = s
    BY <2>1, <1>5
  <2>2. CASE t # s
    BY <2>2, <1>3
  <2>3. QED
    BY <2>1, <2>2
<1> HIDE DEF Shorter
<1>10. ASSUME NEW t \in ServerIds, NEW i \in 1..Len(rest[t])
       PROVE  /\ rest[t][i] \in conns /\ rest[t][i] # Head(queues[s])
              /\ \A r \in DOMAIN taken : taken[r] # rest[t][i]
  <2>1. PICK k \in 1..Len(queues[t]) : rest[t][i] = queues[t][k] /\ (t = s => k # 1)
    BY <1>9
  <2>2. QED
    BY <2>1, <1>2, <1>6, <1>7
<1>11. ASSUME NEW t \in ServerIds, NEW u \in ServerIds, NEW i \in 1..Len(rest[t]),
              NEW j \in 1..Len(rest[u]), rest[t][i] = rest[u][j]
       PROVE  t = u /\ i = j
  <2>1. PICK k \in 1..Len(queues[t]) :
            rest[t][i] = queues[t][k] /\ (t = s => k = i + 1) /\ (t # s => k = i)
    BY <1>9
  <2>2. PICK l \in 1..Len(queues[u]) :
            rest[u][j] = queues[u][l] /\ (u = s => l = j + 1) /\ (u # s => l = j)
    BY <1>9
  <2>3. queues[t][k] = queues[u][l]
    BY <2>1, <2>2, <1>11
  <2>4. t = u /\ k = l
    BY <2>1, <2>2, <2>3, <1>6
  <2>5. i \in Nat /\ j \in Nat
    BY <1>4
  <2>6. QED
    BY <2>1, <2>2, <2>4, <2>5
<1>12. Pending(rest, conns, taken)
  BY <1>10, <1>11 DEF Pending
<1>13. QED
  BY <1>4, <1>8, <1>10, <1>12

\* What is left has nothing of a connection that is not in it.
LEMMA PendingWith ==
    ASSUME NEW queues, NEW conns, NEW taken, NEW r, NEW c, Pending(queues, conns, taken),
           \A t \in ServerIds : \A i \in 1..Len(queues[t]) : queues[t][i] # c
    PROVE  Pending(queues, conns, With(taken, r, c))
BY DEF Pending, With

\* The head of the queue gets its reader; or nobody does.
LEMMA PendingFacts ==
    ASSUME Strong, NEW s \in ServerIds, NEW c, NEW f, NEW r, backlog[s] # <<>>,
           Accepted(s, f, c) \/ Dropped(s, f, c)
    PROVE  /\ c \in IF f = -1 THEN {NoConn} ELSE Conns
           /\ c # NoConn => \A q \in DOMAIN meant : meant[q] # c
           /\ backlog' \in [ServerIds -> Seq(Nat)]
           /\ Pending(backlog', Conns, With(meant, r, c))
<1>1. backlog \in [ServerIds -> Seq(Nat)] /\ Pending(backlog, Conns, meant)
  BY DEF Strong, Typed, BacklogSound
<1>2. NoConn \notin Conns
  BY DEF NoConn, Conns
<1>3. CASE backlog' = backlog /\ Dropped(s, f, c)
  <2>1. c = NoConn /\ f = -1
    BY <1>3 DEF Dropped
  <2>2. \A t \in ServerIds : \A i \in 1..Len(backlog[t]) : backlog[t][i] # c
    BY <2>1, <1>1, <1>2 DEF Pending
  <2>3. Pending(backlog, Conns, With(meant, r, c))
    BY <2>2, <1>1, PendingWith
  <2>4. QED
    BY <2>1, <2>3, <1>1, <1>3
<1>4. CASE backlog' = [backlog EXCEPT ![s] = Tail(@)]
  <2> DEFINE rest == Shorter(backlog, s)
             h == Head(backlog[s])
  <2>1. /\ h \in Conns /\ \A q \in DOMAIN meant : meant[q] # h
        /\ rest \in [ServerIds -> Seq(Nat)] /\ Pending(rest, Conns, meant)
        /\ \A t \in ServerIds : \A i \in 1..Len(rest[t]) : rest[t][i] # h
    BY <1>1, PendingTail
  <2>2. backlog' = rest
    BY <1>4 DEF Shorter
  <2>3. (c = NoConn /\ f = -1) \/ (c = h /\ f # -1)
    <3>1. CASE Accepted(s, f, c)
      <4>1. f \in ConnFds /\ c = h
        BY <3>1 DEF Accepted
      <4>2. -1 \notin ConnFds
        BY NtyServerAssumption DEF ConnFds
      <4>3. QED
        BY <4>1, <4>2
    <3>2. CASE Dropped(s, f, c)
      BY <3>2 DEF Dropped
    <3>3. QED
      BY <3>1, <3>2
  <2> HIDE DEF rest, h
  <2>4. c \in IF f = -1 THEN {NoConn} ELSE Conns
    BY <2>1, <2>3
  <2>5. c # NoConn => \A q \in DOMAIN meant : meant[q] # c
    BY <2>1, <2>3
  <2>6. \A t \in ServerIds : \A i \in 1..Len(rest[t]) : rest[t][i] # c
    <3>1. \A t \in ServerIds : \A i \in 1..Len(rest[t]) : rest[t][i] \in Conns
      BY <2>1 DEF Pending
    <3>2. QED
      BY <3>1, <2>1, <2>3, <1>2
  <2>7. Pending(rest, Conns, With(meant, r, c))
    BY <2>1, <2>6, PendingWith
  <2>8. QED
    BY <2>1, <2>2, <2>4, <2>5, <2>7
<1>5. QED
  BY <1>3, <1>4 DEF Accepted, Dropped

Accepting(s) == s = running /\ pc[s] = "accept now"

\* The server makes a reader: nobody reads its cli_fd before that reader does.
LEMMA MakesReaderStep ==
    ASSUME Strong, ~failed, NEW s \in alive, s \in ServerIds, Accepting(s),
           NEW f, NEW c, MakesReader(s, f, c), backlog[s] # <<>>,
           Accepted(s, f, c) \/ Dropped(s, f, c), UNCHANGED asked
    PROVE  Strong' /\ ~failed'
<1>n. PICK fresh : fresh = Len(pc) + 1
  OBVIOUS
<1>0. /\ s = running /\ s \in Nat \ {0} /\ s # None
      /\ s \in Coroutines /\ s <= Servers
      /\ ready \in Seq(Nat) /\ DOMAIN ready = 1..Len(ready) /\ Len(ready) \in Nat
      /\ Len(pc) \in Nat /\ fresh \in Nat \ {0} /\ fresh \notin Coroutines /\ fresh > Servers
      /\ Servers \in Nat \ {0} /\ Typed
  <2>1. s = running
    BY DEF Accepting
  <2>2. s \in Nat \ {0} /\ s # None /\ s \in Coroutines /\ s <= Servers
    BY FdRange DEF ServerIds
  <2>3. ready \in Seq(Nat) /\ Len(pc) \in Nat /\ Servers <= Len(pc) /\ Typed
    BY DEF Strong, Typed
  <2>4. DOMAIN ready = 1..Len(ready) /\ Len(ready) \in Nat
    BY <2>3, LenProperties
  <2>5. fresh \in Nat \ {0} /\ fresh \notin Coroutines /\ fresh > Servers /\ Servers \in Nat \ {0}
    BY <2>3, <1>n, NtyServerAssumption DEF Coroutines
  <2>6. QED
    BY <2>1, <2>2, <2>3, <2>4, <2>5
<1>1. /\ alive' = alive \cup {fresh} /\ running' = running /\ eof' = eof /\ failed' = failed
      /\ events' = events /\ phase' = phase /\ last' = last
      /\ waiting' = waiting /\ interest' = interest /\ asked' = asked
      /\ ready' = Append(ready, fresh) /\ fd' = Append(fd, -1)
      /\ pc' = Append([pc EXCEPT ![s] = "accept"], "start")
      /\ maker' = With(maker, fresh, s) /\ meant' = With(meant, fresh, c)
      /\ cliFd' = [cliFd EXCEPT ![s] = f] /\ Conns' = Conns
  BY <1>n DEF MakesReader, Creates, Conns
<1>2. /\ ready' \in Seq(Nat) /\ DOMAIN ready' = 1..Len(ready) + 1
      /\ \A i \in 1..Len(ready) : ready'[i] = ready[i]
      /\ ready'[Len(ready) + 1] = fresh
  BY <1>0, <1>1, AppendFacts
<1>3. /\ pc' \in Seq(ServerPCs \cup ReaderPCs) /\ Len(pc') = Len(pc) + 1
      /\ \A x \in Coroutines : pc'[x] = IF x = s THEN "accept" ELSE pc[x]
      /\ pc'[fresh] = "start"
  <2> DEFINE moved == [pc EXCEPT ![s] = "accept"]
             places == ServerPCs \cup ReaderPCs
  <2>1. pc \in Seq(places) /\ "accept" \in places /\ "start" \in places /\ s \in 1..Len(pc)
    BY <1>0 DEF Typed, Coroutines, ServerPCs, ReaderPCs
  <2> HIDE DEF places
  <2>2. /\ moved \in Seq(places) /\ Len(moved) = Len(pc)
        /\ \A x \in 1..Len(pc) : moved[x] = IF x = s THEN "accept" ELSE pc[x]
    BY <2>1, ExceptSeq
  <2>3. pc' = Append(moved, "start")
    BY <1>1
  <2> HIDE DEF moved
  <2>4. /\ pc' \in Seq(places) /\ Len(pc') = Len(moved) + 1
        /\ \A x \in 1..Len(moved) : pc'[x] = moved[x]
        /\ pc'[Len(moved) + 1] = "start"
    BY <2>1, <2>2, <2>3, AppendFacts
  <2>5. QED
    BY <2>2, <2>4, <1>n DEF Coroutines, places
<1>4. /\ fd' \in Seq(Int) /\ Len(fd') = Len(pc) + 1 /\ fd'[fresh] = -1
      /\ \A x \in Coroutines : fd'[x] = fd[x]
  <2>1. fd \in Seq(Int) /\ Len(fd) = Len(pc) /\ -1 \in Int
    BY <1>0 DEF Typed
  <2>2. QED
    BY <2>1, <1>1, <1>n, AppendFacts DEF Coroutines
<1>5. /\ DOMAIN maker' = DOMAIN maker \cup {fresh} /\ maker'[fresh] = s
      /\ \A r \in DOMAIN maker : r # fresh => maker'[r] = maker[r]
      /\ DOMAIN meant' = DOMAIN meant \cup {fresh} /\ meant'[fresh] = c
      /\ \A r \in DOMAIN meant : r # fresh => meant'[r] = meant[r]
  BY <1>1 DEF With
<1>6. /\ c \in IF f = -1 THEN {NoConn} ELSE Conns
      /\ c # NoConn => \A q \in DOMAIN meant : meant[q] # c
      /\ backlog' \in [ServerIds -> Seq(Nat)]
      /\ Pending(backlog', Conns, With(meant, fresh, c))
  BY PendingFacts
<1>7. /\ Coroutines' = Coroutines \cup {fresh} /\ NoConn \notin Conns
      /\ DOMAIN meant = {r \in Coroutines : r > Servers} /\ DOMAIN maker = DOMAIN meant
      /\ alive \subseteq Coroutines /\ alive \subseteq Nat \ {0}
  <2>1. Coroutines' = Coroutines \cup {fresh}
    <3>1. Len(pc') = Len(pc) + 1
      BY <1>3
    <3>2. QED
      BY <3>1, <1>0, <1>n DEF Coroutines
  <2>2. alive \subseteq Coroutines
    BY DEF Strong, AliveSound
  <2>3. QED
    BY <2>1, <2>2, <1>0, SMTT(60) DEF Typed, NoConn, Conns, Coroutines
<1>8. /\ f \in {-1} \cup ConnFds /\ f \notin DOMAIN open
      /\ f # -1 => open' = With(open, f, c)
      /\ f = -1 => open' = open
  <2>1. -1 \notin ConnFds /\ DOMAIN open \subseteq ConnFds
    BY <1>0, NtyServerAssumption DEF ConnFds, Strong, FdSound
  <2>2. CASE Accepted(s, f, c)
    BY <2>1, <2>2 DEF Accepted
  <2>3. CASE Dropped(s, f, c)
    BY <2>1, <2>3 DEF Dropped
  <2>4. QED
    BY <2>2, <2>3
<1>9. \A r \in alive : /\ r # fresh /\ (r # s => pc'[r] = pc[r]) /\ fd'[r] = fd[r]
                       /\ r > Servers => r \in DOMAIN meant /\ maker'[r] = maker[r] /\ meant'[r] = meant[r]
  BY <1>0, <1>3, <1>4, <1>5, <1>7
<1>10. \A r \in alive : /\ Begins(r) => maker[r] \in ServerIds /\ maker[r] # s
                        /\ pc'[r] = "start" <=> pc[r] = "start"
  <2>1. \A r \in alive : Begins(r) => maker[r] \in ServerIds
    BY Numbers
  <2>2. \A r \in alive : Begins(r) => maker[r] # s
    BY DEF Strong, StartSound, Accepting
  <2>3. pc[s] # "start"
    BY DEF Accepting
  <2>4. QED
    BY <2>1, <2>2, <2>3, <1>0, <1>3, <1>7
<1>11. \A r \in alive : FdOf(r)' = FdOf(r)
  <2>1. SUFFICES ASSUME NEW r \in alive PROVE FdOf(r)' = FdOf(r)
    OBVIOUS
  <2>2. CASE pc[r] = "start"
    <3>1. r > Servers /\ Begins(r)
      BY <2>2, FdRange DEF Begins, ServerPCs
    <3>2. maker[r] \in ServerIds /\ maker[r] # s /\ maker'[r] = maker[r]
      BY <3>1, <1>9, <1>10
    <3>3. cliFd'[maker[r]] = cliFd[maker[r]]
      BY <3>2, <1>0, <1>1 DEF Typed
    <3>4. QED
      BY <2>2, <3>2, <3>3, <1>10 DEF FdOf
  <2>3. CASE pc[r] # "start"
    BY <2>3, <1>9, <1>10 DEF FdOf
  <2>4. QED
    BY <2>2, <2>3
<1>12. FdOf(fresh)' = f
  <2>1. cliFd'[s] = f
    <3>1. cliFd \in [ServerIds -> Int]
      BY <1>0 DEF Typed
    <3>2. QED
      BY <3>1, <1>1
  <2>2. QED
    BY <2>1, <1>3, <1>5 DEF FdOf
<1>13. Typed'
  <2>1. \A x \in ServerIds : x \in Coroutines /\ pc'[x] \in ServerPCs /\ fd'[x] = x
    <3>1. \A x \in ServerIds : x \in Coroutines /\ pc[x] \in ServerPCs /\ fd[x] = x
      BY <1>0, Numbers DEF Typed
    <3>2. "accept" \in ServerPCs
      BY DEF ServerPCs
    <3>3. QED
      BY <3>1, <3>2, <1>3, <1>4
  <2>2. \A r \in Coroutines : r > Servers =>
            pc'[r] \in ReaderPCs /\ maker'[r] \in ServerIds /\ meant'[r] \in Conns \cup {NoConn}
    <3>1. \A r \in Coroutines : r > Servers =>
              /\ pc[r] \in ReaderPCs /\ maker[r] \in ServerIds /\ meant[r] \in Conns \cup {NoConn}
              /\ r \in DOMAIN meant /\ r \in DOMAIN maker /\ r # fresh /\ r # s
      BY <1>0, <1>7, Numbers DEF Typed
    <3>2. QED
      BY <3>1, <1>3, <1>5
  <2>3. pc'[fresh] \in ReaderPCs /\ maker'[fresh] \in ServerIds /\ meant'[fresh] \in Conns \cup {NoConn}
    BY <1>3, <1>5, <1>6 DEF ReaderPCs
  <2>4. DOMAIN maker' = {r \in Coroutines' : r > Servers} /\ DOMAIN meant' = DOMAIN maker'
    BY <1>0, <1>5, <1>7
  <2>5. cliFd' \in [ServerIds -> Int] /\ Len(pc') \in Nat /\ Servers <= Len(pc') /\ Len(fd') = Len(pc')
    <3>1. cliFd \in [ServerIds -> Int] /\ Len(pc) \in Nat /\ Servers <= Len(pc)
      BY <1>0 DEF Typed
    <3>2. f \in Int
      BY <1>8, NtyServerAssumption DEF ConnFds
    <3>3. cliFd' \in [ServerIds -> Int]
      BY <3>1, <3>2, <1>1
    <3>4. Len(pc') = Len(pc) + 1 /\ Len(fd') = Len(pc) + 1
      BY <1>3, <1>4
    <3>5. QED
      BY <3>1, <3>3, <3>4, <1>0
  <2>6. events \in Seq([fd : Int, hup : BOOLEAN]) /\ IsFiniteSet(DOMAIN interest) /\ asked \in Seq(Nat)
    BY <1>0 DEF Typed
  <2> HIDE DEF ServerPCs, ReaderPCs
  <2>7. \A r \in Coroutines' : r > Servers =>
            pc'[r] \in ReaderPCs /\ maker'[r] \in ServerIds /\ meant'[r] \in Conns' \cup {NoConn}
    BY <2>2, <2>3, <1>1, <1>7
  <2>8. QED
    BY <2>1, <2>4, <2>5, <2>6, <2>7, <1>1, <1>2, <1>3, <1>4, <1>6 DEF Typed
<1>14. AliveSound'
  <2>1. alive = {x \in Coroutines : pc[x] # "exited"} /\ running \in alive \cup {None}
    BY DEF Strong, AliveSound
  <2>2. pc[s] # "exited"
    BY <2>1
  <2>3. QED
    BY <2>1, <2>2, <1>0, <1>1, <1>3, <1>7 DEF AliveSound
<1>15. ReadySound'
  <2>1. \A i \in 1..Len(ready) + 1 : i \in 1..Len(ready) \/ i = Len(ready) + 1
    BY <1>0
  <2>2. \A i \in 1..Len(ready) : /\ ready[i] \in alive /\ ready[i] # running
                                 /\ pc[ready[i]] \in {"start", "accept"}
    BY <1>0 DEF Strong, ReadySound
  <2>3. \A i \in 1..Len(ready) : ready[i] # fresh /\ pc'[ready[i]] = pc[ready[i]]
    BY <2>2, <1>0, <1>9
  <2>4. fresh # running
    BY <1>0
  <2>5. \A i \in 1..Len(ready) + 1 :
          ready'[i] \in alive' /\ ready'[i] # running' /\ pc'[ready'[i]] \in {"start", "accept"}
    <3>1. ASSUME NEW i \in 1..Len(ready)
          PROVE  ready'[i] \in alive' /\ ready'[i] # running'
                 /\ pc'[ready'[i]] \in {"start", "accept"}
      <4>1. ready'[i] = ready[i]
        BY <1>2
      <4>2. ready[i] \in alive /\ ready[i] # running /\ pc'[ready[i]] \in {"start", "accept"}
        BY <2>2, <2>3
      <4>3. QED
        BY <4>1, <4>2, <1>1
    <3>2. LET i == Len(ready) + 1
          IN  ready'[i] \in alive' /\ ready'[i] # running' /\ pc'[ready'[i]] \in {"start", "accept"}
      <4>1. ready'[Len(ready) + 1] = fresh
        BY <1>2
      <4>2. fresh \in alive' /\ pc'[fresh] = "start" /\ running' = running
        BY <1>1, <1>3
      <4>3. QED
        BY <4>1, <4>2, <2>4
    <3>3. QED
      BY <2>1, <3>1, <3>2
  <2>6. \A i, j \in 1..Len(ready) : ready[i] = ready[j] => i = j
    BY <1>0 DEF Strong, ReadySound
  <2>7. \A i, j \in 1..Len(ready) + 1 : ready'[i] = ready'[j] => i = j
    <3>1. /\ \A i \in 1..Len(ready) : ready'[i] = ready[i] /\ ready'[i] # fresh
          /\ ready'[Len(ready) + 1] = fresh
      BY <2>3, <1>2
    <3>2. ASSUME NEW i \in 1..Len(ready) + 1, NEW j \in 1..Len(ready) + 1, ready'[i] = ready'[j]
          PROVE  i = j
      <4>1. CASE i \in 1..Len(ready) /\ j \in 1..Len(ready)
        BY <2>6, <3>1, <3>2, <4>1
      <4>2. CASE i = Len(ready) + 1 \/ j = Len(ready) + 1
        BY <2>1, <3>1, <3>2, <4>2
      <4>3. QED
        BY <2>1, <4>1, <4>2
    <3>3. QED
      BY <3>2
  <2>8. phase = "ready" => \E i \in 1..Len(ready) : ready[i] = last
    BY <1>0 DEF Strong, ReadySound
  <2>9. \A i \in 1..Len(ready) : i \in 1..Len(ready) + 1
    BY <1>0
  <2>10. phase' = "ready" => \E i \in DOMAIN ready' : ready'[i] = last'
    BY <2>8, <2>9, <1>1, <1>2
  <2>11. QED
    BY <2>5, <2>7, <2>10, <1>2 DEF ReadySound
<1>16. WaitSound'
  <2>1. pc[s] \notin Woken /\ s = running
    BY DEF Accepting, Woken
  <2>2. "start" \notin Woken /\ "accept" \notin Woken
    BY DEF Woken
  <2>3. \A g \in DOMAIN waiting' :
          waiting'[g] \in alive' /\ fd'[waiting'[g]] = g /\ pc'[waiting'[g]] \in Woken
    <3>1. \A g \in DOMAIN waiting :
            waiting[g] \in alive /\ fd[waiting[g]] = g /\ pc[waiting[g]] \in Woken
      BY DEF Strong, WaitSound
    <3>2. \A g \in DOMAIN waiting : waiting[g] # s
      BY <2>1, <3>1
    <3>3. QED
      BY <3>1, <3>2, <1>1, <1>9
  <2>4. \A x \in alive' : pc'[x] \in Woken => fd'[x] \in DOMAIN waiting' /\ waiting'[fd'[x]] = x
    <3>1. \A x \in alive : pc[x] \in Woken => fd[x] \in DOMAIN waiting /\ waiting[fd[x]] = x
      BY DEF Strong, WaitSound
    <3>2. \A x \in alive : pc'[x] \in Woken => x # s
      BY <2>2, <1>0, <1>3
    <3>3. \A x \in alive : pc'[x] \in Woken => fd'[x] \in DOMAIN waiting /\ waiting[fd'[x]] = x
      <4>1. \A x \in alive : pc'[x] \in Woken => pc[x] \in Woken
        BY <3>2, <1>9
      <4>2. \A x \in alive : fd'[x] = fd[x]
        BY <1>9
      <4>3. QED
        BY <3>1, <4>1, <4>2
    <3>4. pc'[fresh] \notin Woken
      BY <2>2, <1>3
    <3>5. QED
      BY <3>3, <3>4, <1>1
  <2>5. \A x \in alive' : pc'[x] \notin Woken /\ x # running' => \E i \in DOMAIN ready' : ready'[i] = x
    <3>1. \A x \in alive : pc[x] \notin Woken /\ x # running => \E i \in 1..Len(ready) : ready[i] = x
      BY <1>0 DEF Strong, WaitSound
    <3>2. \A i \in 1..Len(ready) : i \in DOMAIN ready'
      BY <1>0, <1>2
    <3>3. Len(ready) + 1 \in DOMAIN ready'
      BY <1>0, <1>2
    <3>4. \A x \in alive : pc'[x] \notin Woken /\ x # running => \E i \in DOMAIN ready' : ready'[i] = x
      <4>1. \A x \in alive : pc'[x] \notin Woken /\ x # running => pc[x] \notin Woken
        BY <2>1, <1>9
      <4>2. QED
        BY <3>1, <3>2, <4>1, <1>2
    <3>5. \E i \in DOMAIN ready' : ready'[i] = fresh
      BY <3>3, <1>2
    <3>6. QED
      BY <3>4, <3>5, <1>1
  <2>6. DOMAIN interest = DOMAIN waiting \ {-1} /\ eof = {}
    BY <2>1 DEF Strong, WaitSound
  <2>7. QED
    BY <2>3, <2>4, <2>5, <2>6, <1>1 DEF WaitSound
<1>17. EventSound'
  <2>1. fd'[running] = fd[running]
    BY <1>0, <1>4
  <2>2. QED
    BY <2>1, <1>1 DEF Strong, EventSound
<1>18. FdSound'
  <2>0. /\ DOMAIN open \subseteq ConnFds
        /\ \A g \in DOMAIN open : open[g] \in Conns
        /\ \A r \in alive : (r > Servers /\ meant[r] # NoConn) =>
              FdOf(r) \in DOMAIN open /\ open[FdOf(r)] = meant[r]
        /\ \A r \in alive : (r > Servers /\ meant[r] = NoConn) => FdOf(r) = -1
        /\ \A g \in DOMAIN open : \E r \in alive : r > Servers /\ meant[r] = open[g] /\ FdOf(r) = g
        /\ \A r, q \in DOMAIN meant : (meant[r] = meant[q] /\ meant[r] # NoConn) => r = q
    BY DEF Strong, FdSound
  <2>1. /\ DOMAIN open' = IF f = -1 THEN DOMAIN open ELSE DOMAIN open \cup {f}
        /\ \A g \in DOMAIN open : open'[g] = open[g]
        /\ f # -1 => open'[f] = c
    BY <1>8 DEF With
  <2>2. /\ DOMAIN open' \subseteq ConnFds
        /\ \A g \in DOMAIN open' : open'[g] \in Conns'
    BY <2>0, <2>1, <1>1, <1>6, <1>8
  <2>3. \A r \in alive : r > Servers => meant'[r] = meant[r]
    BY <1>9
  <2>4. c = NoConn <=> f = -1
    BY <1>6, <1>7
  <2>5. \A r \in alive' : (r > Servers /\ meant'[r] # NoConn) =>
              FdOf(r)' \in DOMAIN open' /\ open'[FdOf(r)'] = meant'[r]
    <3>1. \A r \in alive : (r > Servers /\ meant'[r] # NoConn) =>
              FdOf(r)' \in DOMAIN open' /\ open'[FdOf(r)'] = meant'[r]
      BY <2>0, <2>1, <2>3, <1>11
    <3>2. \A r : r = fresh /\ meant'[r] # NoConn => FdOf(r)' \in DOMAIN open' /\ open'[FdOf(r)'] = meant'[r]
      BY <2>1, <2>4, <1>5, <1>12
    <3>3. QED
      BY <3>1, <3>2, <1>1
  <2>6. \A r \in alive' : (r > Servers /\ meant'[r] = NoConn) => FdOf(r)' = -1
    <3>1. \A r \in alive : (r > Servers /\ meant'[r] = NoConn) => FdOf(r)' = -1
      BY <2>0, <2>3, <1>11
    <3>2. \A r : r = fresh /\ meant'[r] = NoConn => FdOf(r)' = -1
      BY <2>4, <1>5, <1>12
    <3>3. QED
      BY <3>1, <3>2, <1>1
  <2>7. \A g \in DOMAIN open' : \E r \in alive' : r > Servers /\ meant'[r] = open'[g] /\ FdOf(r)' = g
    <3>1. ASSUME NEW g \in DOMAIN open
          PROVE  \E r \in alive' : r > Servers /\ meant'[r] = open'[g] /\ FdOf(r)' = g
      <4>1. PICK r \in alive : r > Servers /\ meant[r] = open[g] /\ FdOf(r) = g
        BY <2>0
      <4>2. FdOf(r)' = g
        BY <4>1, <1>11
      <4>3. meant'[r] = open'[g] /\ r \in alive'
        BY <4>1, <2>1, <2>3, <1>1
      <4>4. QED
        BY <4>1, <4>2, <4>3
    <3>2. f # -1 => fresh \in alive' /\ fresh > Servers /\ meant'[fresh] = open'[f] /\ FdOf(fresh)' = f
      BY <2>1, <1>0, <1>1, <1>5, <1>12
    <3>3. QED
      BY <3>1, <3>2, <2>1
  <2>8. \A r, q \in DOMAIN meant' : (meant'[r] = meant'[q] /\ meant'[r] # NoConn) => r = q
    <3>1. \A r \in DOMAIN meant : r # fresh /\ meant'[r] = meant[r]
      BY <1>0, <1>5, <1>7
    <3>2. c # NoConn => \A q \in DOMAIN meant : meant[q] # c
      BY <1>6
    <3>3. \A r, q \in DOMAIN meant : (meant'[r] = meant'[q] /\ meant'[r] # NoConn) => r = q
      BY <3>1, <2>0
    <3>4. \A r \in DOMAIN meant : meant'[r] = meant'[fresh] => meant'[r] = NoConn
      BY <3>1, <3>2, <1>5
    <3>5. QED
      BY <3>3, <3>4, <1>5
  <2>9. QED
    BY <2>2, <2>5, <2>6, <2>7, <2>8 DEF FdSound
<1>19. LostSound'
  <2>1. \A r \in alive : (r > Servers /\ meant[r] = NoConn) =>
            pc[r] \in {"start", "recv", "recv wake"} /\ (r = running => pc[r] # "recv wake")
    BY DEF Strong, LostSound
  <2>2. \A r \in alive : r > Servers => r # s
    BY <1>0
  <2>3. \A r \in alive : (r > Servers /\ meant'[r] = NoConn) =>
            pc'[r] \in {"start", "recv", "recv wake"} /\ (r = running => pc'[r] # "recv wake")
    BY <2>1, <2>2, <1>9
  <2>4. pc'[fresh] = "start"
    BY <1>3
  <2>5. QED
    BY <2>3, <2>4, <1>1 DEF LostSound
<1>20. BacklogSound'
  <2>1. Pending(backlog', Conns', meant')
    BY <1>1, <1>6
  <2>2. QED
    BY <2>1 DEF BacklogSound
<1>21. StartSound'
  <2>1. \A r : r = fresh => Begins(r)'
    BY <1>0, <1>1, <1>3 DEF Begins
  <2>2. \A r \in alive : (Begins(r)' <=> Begins(r)) /\ (Begins(r) => maker'[r] = maker[r])
    BY <1>1, <1>9, <1>10 DEF Begins
  <2>3. \A r : Begins(r) => r \in alive
    BY DEF Begins
  <2>4. \A r : Begins(r)' <=> r = fresh \/ Begins(r)
    <3>1. \A r : Begins(r)' => r \in alive'
      BY DEF Begins
    <3>2. QED
      BY <2>1, <2>2, <2>3, <3>1, <1>1
  <2>5. \A r : Begins(r) => maker[r] \in ServerIds /\ maker[r] # s /\ maker'[r] = maker[r]
    BY <2>2, <2>3, <1>10
  <2>6. \A r \in alive' : Begins(r)' =>
            /\ pc'[maker'[r]] \in {"accept", "accept wake"}
            /\ pc'[maker'[r]] = "accept wake" =>
                  maker'[r] # running' /\ \A i \in DOMAIN events' : events'[i].fd # maker'[r]
    <3>1. \A r : Begins(r) => /\ pc[maker[r]] \in {"accept", "accept wake"}
                              /\ pc[maker[r]] = "accept wake" =>
                                    maker[r] # running /\ \A i \in DOMAIN events : events[i].fd # maker[r]
      BY <2>3 DEF Strong, StartSound
    <3>2. \A r : Begins(r) => pc'[maker[r]] = pc[maker[r]]
      BY <2>5, <1>3, Numbers
    <3>3. pc'[maker'[fresh]] = "accept"
      BY <1>0, <1>3, <1>5
    <3>4. SUFFICES ASSUME NEW r \in alive', Begins(r)'
                   PROVE  /\ pc'[maker'[r]] \in {"accept", "accept wake"}
                          /\ pc'[maker'[r]] = "accept wake" =>
                                maker'[r] # running /\ \A i \in DOMAIN events : events[i].fd # maker'[r]
      BY <1>1
    <3>5. CASE r = fresh
      BY <3>3, <3>5
    <3>6. CASE r # fresh
      <4>1. Begins(r)
        BY <2>4, <3>4, <3>6
      <4>2. maker'[r] = maker[r] /\ pc'[maker[r]] = pc[maker[r]]
        BY <4>1, <2>5, <3>2
      <4>3. QED
        BY <4>1, <4>2, <3>1
    <3>7. QED
      BY <3>5, <3>6
  <2>7. \A i, j \in DOMAIN ready' : \A r : r = ready'[i] /\ Begins(r)' /\ ready'[j] = maker'[r] => i < j
    <3>1. \A i \in 1..Len(ready) : ready[i] \in alive /\ ready[i] # s
      BY <1>0 DEF Strong, ReadySound
    <3>2. \A i, j \in 1..Len(ready) : Begins(ready[i]) /\ ready[j] = maker[ready[i]] => i < j
      BY <1>0 DEF Strong, StartSound
    <3>3. \A r : Begins(r) => maker[r] # fresh
      BY <2>5, <1>0 DEF ServerIds
    <3>4. SUFFICES ASSUME NEW i \in 1..Len(ready) + 1, NEW j \in 1..Len(ready) + 1, NEW r,
                          r = ready'[i], Begins(r)', ready'[j] = maker'[r]
                   PROVE  i < j
      BY <1>2
    <3>5. CASE r = fresh
      <4>1. maker'[r] = s
        BY <3>5, <1>5
      <4>2. \A k \in 1..Len(ready) : ready'[k] # s
        BY <3>1, <1>2
      <4>3. ready'[Len(ready) + 1] # s
        BY <1>0, <1>2
      <4>4. QED
        BY <4>1, <4>2, <4>3, <3>4, <1>0
    <3>6. CASE Begins(r) /\ r # fresh
      <4>1. i \in 1..Len(ready) /\ ready[i] = r
        BY <3>4, <3>6, <1>0, <1>2
      <4>2. maker'[r] = maker[r] /\ maker[r] # fresh
        BY <3>3, <3>6, <2>5
      <4>3. j \in 1..Len(ready) /\ ready[j] = maker[r]
        BY <3>4, <4>2, <1>0, <1>2
      <4>4. QED
        BY <4>1, <4>3, <3>2, <3>6
    <3>7. QED
      BY <3>4, <3>5, <3>6, <2>4
  <2>8. \A r, q \in alive' : Begins(r)' /\ Begins(q)' /\ maker'[r] = maker'[q] => r = q
    <3>1. \A r, q \in alive : Begins(r) /\ Begins(q) /\ maker[r] = maker[q] => r = q
      BY DEF Strong, StartSound
    <3>2. \A r : Begins(r) => maker'[r] # maker'[fresh]
      BY <2>5, <1>5
    <3>3. QED
      BY <3>1, <3>2, <2>3, <2>4, <2>5
  <2>9. \A i, j \in DOMAIN ready' :
            (/\ ready'[i] \in alive' /\ ready'[i] > Servers /\ pc'[ready'[i]] = "start"
             /\ ready'[j] = maker'[ready'[i]]) => i < j
    BY <2>7 DEF Begins
  <2>10. QED
    BY <2>6, <2>8, <2>9 DEF StartSound, Begins
<1>22. QED
  BY <1>1, <1>13, <1>14, <1>15, <1>16, <1>17, <1>18, <1>19, <1>20, <1>21 DEF Strong

\* A reader reads the cli_fd of its maker.
LEMMA StartsStep ==
    ASSUME Strong, ~failed, NEW co \in alive, co \notin ServerIds, Starts(co)
    PROVE  Strong' /\ ~failed'
<1>s. pc[co] = "start" /\ Goto(co, "recv")
  BY DEF Starts, At
<1>0. co = running /\ co \in Coroutines /\ co # None /\ co > Servers
  BY FdRange DEF Starts, At, Running
<1>1. /\ alive' = alive /\ running' = running /\ ready' = ready /\ eof' = eof
      /\ events' = events /\ phase' = phase /\ last' = last /\ failed' = failed
      /\ cliFd' = cliFd /\ maker' = maker /\ meant' = meant
      /\ backlog' = backlog /\ open' = open /\ asked' = asked /\ Conns' = Conns
      /\ waiting' = waiting /\ interest' = interest
      /\ fd' = [fd EXCEPT ![co] = cliFd[maker[co]]]
  BY DEF Starts, Goes, schedVars, kernelVars, Conns
<1>2. /\ pc' \in Seq(ServerPCs \cup ReaderPCs) /\ Len(pc') = Len(pc)
      /\ Coroutines' = Coroutines
      /\ \A x \in Coroutines : pc'[x] = IF x = co THEN "recv" ELSE pc[x]
      /\ \A s \in ServerIds : pc'[s] \in ServerPCs
      /\ \A r \in Coroutines : r > Servers => pc'[r] \in ReaderPCs
  <2>1. "recv" \in IF co \in ServerIds THEN ServerPCs ELSE ReaderPCs
    BY DEF ReaderPCs
  <2>2. QED
    BY <1>s, <2>1, GotoFacts
<1>3. /\ fd' \in Seq(Int) /\ Len(fd') = Len(fd)
      /\ \A x \in Coroutines : fd'[x] = IF x = co THEN FdOf(co) ELSE fd[x]
  <2>1. fd \in Seq(Int) /\ Len(fd) = Len(pc)
    BY DEF Strong, Typed
  <2>2. cliFd[maker[co]] \in Int
    <3>1. maker[co] \in ServerIds
      BY <1>0 DEF Strong, Typed
    <3>2. cliFd \in [ServerIds -> Int]
      BY DEF Strong, Typed
    <3>3. QED
      BY <3>1, <3>2
  <2>3. co \in 1..Len(fd)
    BY <2>1, <1>0 DEF Coroutines
  <2>4. /\ fd' \in Seq(Int) /\ Len(fd') = Len(fd)
        /\ \A x \in 1..Len(fd) : fd'[x] = IF x = co THEN cliFd[maker[co]] ELSE fd[x]
    BY <2>1, <2>2, <2>3, <1>1, ExceptSeq
  <2>5. cliFd[maker[co]] = FdOf(co)
    BY <1>s DEF FdOf
  <2>6. QED
    BY <2>1, <2>4, <2>5 DEF Coroutines
<1>4. alive \subseteq Coroutines
  BY Numbers
<1>5. \A r \in alive : FdOf(r)' = FdOf(r)
  <2>1. FdOf(co)' = fd'[co]
    BY <1>0, <1>2 DEF FdOf
  <2>2. \A r \in alive : r # co => FdOf(r)' = FdOf(r)
    BY <1>1, <1>2, <1>3, <1>4 DEF FdOf
  <2>3. QED
    BY <2>1, <2>2, <1>0, <1>3
<1>6. Typed'
  <2>1. Typed
    BY DEF Strong
  <2>2. \A s \in ServerIds : fd'[s] = s
    <3>1. \A s \in ServerIds : s \in Coroutines /\ fd[s] = s
      BY <2>1, Numbers DEF Typed
    <3>2. QED
      BY <3>1, <1>3
  <2> HIDE DEF ServerPCs, ReaderPCs
  <2>3. QED
    BY <2>1, <2>2, <1>1, <1>2, <1>3 DEF Typed
<1>7. AliveSound'
  <2>1. alive = {x \in Coroutines : pc[x] # "exited"} /\ running \in alive \cup {None}
    BY DEF Strong, AliveSound
  <2>2. QED
    BY <2>1, <1>1, <1>2 DEF AliveSound
<1>8. ReadySound'
  <2>1. \A i \in DOMAIN ready : ready[i] \in alive /\ ready[i] # co /\ pc'[ready[i]] = pc[ready[i]]
    BY <1>0, <1>2, <1>4 DEF Strong, ReadySound
  <2>2. QED
    BY <2>1, <1>1 DEF Strong, ReadySound
<1>9. "start" \notin Woken /\ "recv" \notin Woken
  BY DEF Woken
<1>10. WaitSound'
  <2>1. \A f \in DOMAIN waiting : waiting[f] \in alive /\ fd[waiting[f]] = f /\ pc[waiting[f]] \in Woken
    BY DEF Strong, WaitSound
  <2>2. \A f \in DOMAIN waiting : waiting[f] # co
    BY <2>1, <1>s, <1>9
  <2>3. \A f \in DOMAIN waiting : waiting[f] \in alive /\ fd'[waiting[f]] = f /\ pc'[waiting[f]] \in Woken
    BY <2>1, <2>2, <1>2, <1>3, <1>4
  <2>4. \A x \in alive : pc'[x] \in Woken => x # co /\ pc[x] \in Woken
    BY <1>2, <1>4, <1>9
  <2>5. \A x \in alive : pc'[x] \in Woken => fd'[x] \in DOMAIN waiting /\ waiting[fd'[x]] = x
    <3>1. \A x \in alive : x # co => fd'[x] = fd[x]
      BY <1>3, <1>4
    <3>2. \A x \in alive : pc[x] \in Woken => fd[x] \in DOMAIN waiting /\ waiting[fd[x]] = x
      BY DEF Strong, WaitSound
    <3>3. QED
      BY <2>4, <3>1, <3>2
  <2>6. \A x \in alive : pc'[x] \notin Woken /\ x # running => \E i \in DOMAIN ready : ready[i] = x
    <3>1. \A x \in alive : x # running => pc'[x] = pc[x]
      BY <1>0, <1>2, <1>4
    <3>2. QED
      BY <3>1 DEF Strong, WaitSound
  <2>7. DOMAIN interest = DOMAIN waiting \ {-1} /\ eof = {}
    BY <1>s, <1>0, <1>9 DEF Strong, WaitSound
  <2>8. QED
    BY <2>3, <2>5, <2>6, <2>7, <1>1 DEF WaitSound
<1>11. EventSound'
  <2>1. \A i \in DOMAIN events : events[i].fd # FdOf(co)
    BY <1>s, <1>0, <1>9, NoEvent
  <2>2. fd'[running] = FdOf(co)
    BY <1>0, <1>3
  <2>3. QED
    BY <2>1, <2>2, <1>1 DEF Strong, EventSound
<1>12. FdSound'
  BY <1>1, <1>5 DEF Strong, FdSound
<1>13. LostSound'
  <2>1. \A r \in alive : r # co => pc'[r] = pc[r]
    BY <1>2, <1>4
  <2>2. pc'[co] = "recv"
    BY <1>0, <1>2
  <2>3. QED
    BY <2>1, <2>2, <1>1 DEF Strong, LostSound
<1>14. BacklogSound'
  <2>1. BacklogSound
    BY DEF Strong
  <2>2. QED
    BY <2>1, <1>1 DEF BacklogSound
<1>15. StartSound'
  <2>1. \A r : Begins(r)' => Begins(r) /\ r # co
    BY <1>1, <1>2, <1>4 DEF Begins
  <2>2. \A r : Begins(r) => maker[r] \in ServerIds /\ r \in alive
    BY Numbers DEF Begins
  <2>3. \A s \in ServerIds : pc'[s] = pc[s]
    BY <1>2, Numbers
  <2>4. \A r \in alive : Begins(r)' =>
            /\ pc'[maker[r]] \in {"accept", "accept wake"}
            /\ pc'[maker[r]] = "accept wake" =>
                  maker[r] # running /\ \A i \in DOMAIN events : events[i].fd # maker[r]
    BY <2>1, <2>2, <2>3 DEF Strong, StartSound
  <2>5. \A i, j \in DOMAIN ready : Begins(ready[i]) /\ ready[j] = maker[ready[i]] => i < j
    BY DEF Strong, StartSound
  <2>6. \A i, j \in DOMAIN ready : \A r : r = ready[i] /\ Begins(r)' /\ ready[j] = maker[r] => i < j
    BY <2>1, <2>5
  <2>7. \A r, q \in alive : Begins(r)' /\ Begins(q)' /\ maker[r] = maker[q] => r = q
    BY <2>1 DEF Strong, StartSound
  <2>8. QED
    BY <2>4, <2>6, <2>7, <1>1 DEF StartSound, Begins
<1>16. QED
  BY <1>1, <1>6, <1>7, <1>8, <1>10, <1>11, <1>12, <1>13, <1>14, <1>15 DEF Strong

\* A reader that holds a connection and may close it
MayClose(co) == co = running /\ pc[co] \notin Woken \cup {"start"} /\ meant[co] # NoConn

\* A reader closes its connection and is gone.
LEMMA ClosesStep ==
    ASSUME Strong, ~failed, NEW co \in alive, co \notin ServerIds, MayClose(co), Closes(co),
           UNCHANGED <<fd, cliFd, maker, meant, backlog, asked>>
    PROVE  Strong' /\ ~failed'
<1>s. pc[co] # "start" /\ pc[co] \notin Woken /\ Goto(co, "exited") /\ "exited" \notin Woken
  BY DEF MayClose, Closes, Woken
<1>0. /\ co = running /\ co \in Coroutines /\ co # None /\ co > Servers /\ meant[co] # NoConn
      /\ FdOf(co) = fd[co] /\ fd[co] # -1
  BY <1>s, FdRange DEF MayClose
<1>1. /\ alive' = alive \ {co} /\ running' = None /\ ready' = ready /\ eof' = eof
      /\ events' = events /\ phase' = phase /\ last' = last /\ failed' = failed
      /\ fd' = fd /\ cliFd' = cliFd /\ maker' = maker /\ meant' = meant
      /\ backlog' = backlog /\ asked' = asked /\ Conns' = Conns
      /\ waiting' = waiting /\ interest' = interest
      /\ open' = Without(open, fd[co])
  BY DEF Closes, Exits, Conns
<1>2. /\ pc' \in Seq(ServerPCs \cup ReaderPCs) /\ Len(pc') = Len(pc)
      /\ Coroutines' = Coroutines
      /\ \A x \in Coroutines : pc'[x] = IF x = co THEN "exited" ELSE pc[x]
      /\ \A s \in ServerIds : pc'[s] \in ServerPCs
      /\ \A r \in Coroutines : r > Servers => pc'[r] \in ReaderPCs
  <2>1. "exited" \in IF co \in ServerIds THEN ServerPCs ELSE ReaderPCs
    BY DEF ReaderPCs
  <2>2. QED
    BY <1>s, <2>1, GotoFacts
<1>3. alive \subseteq Coroutines /\ alive \subseteq Nat \ {0}
  BY Numbers
<1>4. \A r \in alive' : /\ r \in alive /\ r # co /\ r \in Coroutines /\ r # None
                        /\ pc'[r] = pc[r] /\ FdOf(r)' = FdOf(r) /\ FdOf(r) # fd[co]
  <2>1. \A r \in alive' : r \in alive /\ r # co /\ r \in Coroutines /\ r # None
    BY <1>1, <1>3 DEF None
  <2>2. \A r \in alive' : pc'[r] = pc[r]
    BY <2>1, <1>2
  <2>3. \A r \in alive' : FdOf(r)' = FdOf(r)
    BY <2>2, <1>1 DEF FdOf
  <2>4. \A r \in alive' : FdOf(r) # fd[co]
    BY <2>1, <1>0, Distinct
  <2>5. QED
    BY <2>1, <2>2, <2>3, <2>4
<1>5. \A r \in alive : r # co => r \in alive'
  BY <1>1
<1>6. Typed'
  <2>1. Typed
    BY DEF Strong
  <2> HIDE DEF ServerPCs, ReaderPCs
  <2>2. QED
    BY <2>1, <1>1, <1>2 DEF Typed
<1>7. AliveSound'
  <2>1. alive = {x \in Coroutines : pc[x] # "exited"}
    BY DEF Strong, AliveSound
  <2>2. \A x \in Coroutines : pc'[x] # "exited" <=> x # co /\ pc[x] # "exited"
    BY <1>2
  <2>3. alive' = {x \in Coroutines' : pc'[x] # "exited"}
    BY <2>1, <2>2, <1>1, <1>2
  <2>4. QED
    BY <2>3, <1>1 DEF AliveSound
<1>8. ReadySound'
  <2>1. \A i \in DOMAIN ready : ready[i] \in alive'
    BY <1>0, <1>5 DEF Strong, ReadySound
  <2>2. \A i \in DOMAIN ready : ready[i] # None /\ pc'[ready[i]] = pc[ready[i]]
    BY <2>1, <1>4
  <2>3. QED
    BY <2>1, <2>2, <1>1 DEF Strong, ReadySound
<1>9. WaitSound'
  <2>1. \A f \in DOMAIN waiting : waiting[f] \in alive /\ fd[waiting[f]] = f /\ pc[waiting[f]] \in Woken
    BY DEF Strong, WaitSound
  <2>2. \A f \in DOMAIN waiting : waiting[f] # co
    BY <2>1, <1>s
  <2>3. \A f \in DOMAIN waiting : waiting[f] \in alive' /\ fd[waiting[f]] = f /\ pc'[waiting[f]] \in Woken
    BY <2>1, <2>2, <1>4, <1>5
  <2>4. \A x \in alive' : pc'[x] \in Woken => fd[x] \in DOMAIN waiting /\ waiting[fd[x]] = x
    BY <1>4 DEF Strong, WaitSound
  <2>5. \A x \in alive' : pc'[x] \notin Woken => \E i \in DOMAIN ready : ready[i] = x
    BY <1>0, <1>4 DEF Strong, WaitSound
  <2>6. DOMAIN interest = DOMAIN waiting \ {-1} /\ eof = {}
    BY <1>s, <1>0 DEF Strong, WaitSound
  <2>7. QED
    BY <2>3, <2>4, <2>5, <2>6, <1>1 DEF WaitSound
<1>10. EventSound'
  BY <1>1 DEF Strong, EventSound
<1>11. FdSound'
  <2>0. /\ DOMAIN open \subseteq ConnFds
        /\ \A g \in DOMAIN open : open[g] \in Conns
        /\ \A r \in alive : (r > Servers /\ meant[r] # NoConn) =>
              FdOf(r) \in DOMAIN open /\ open[FdOf(r)] = meant[r]
        /\ \A r \in alive : (r > Servers /\ meant[r] = NoConn) => FdOf(r) = -1
        /\ \A g \in DOMAIN open : \E r \in alive : r > Servers /\ meant[r] = open[g] /\ FdOf(r) = g
        /\ \A r, q \in DOMAIN meant : (meant[r] = meant[q] /\ meant[r] # NoConn) => r = q
    BY DEF Strong, FdSound
  <2>1. /\ DOMAIN open' = DOMAIN open \ {fd[co]}
        /\ \A g \in DOMAIN open' : open'[g] = open[g]
    BY <1>1 DEF Without
  <2>2. \A r \in alive' : (r > Servers /\ meant[r] # NoConn) =>
              FdOf(r)' \in DOMAIN open' /\ open'[FdOf(r)'] = meant[r]
    BY <2>0, <2>1, <1>4
  <2>3. \A r \in alive' : (r > Servers /\ meant[r] = NoConn) => FdOf(r)' = -1
    BY <2>0, <1>4
  <2>4. ASSUME NEW g \in DOMAIN open'
        PROVE  \E r \in alive' : r > Servers /\ meant[r] = open'[g] /\ FdOf(r)' = g
    <3>1. PICK r \in alive : r > Servers /\ meant[r] = open[g] /\ FdOf(r) = g
      BY <2>0, <2>1
    <3>2. r # co
      BY <3>1, <2>1, <1>0
    <3>3. r \in alive'
      BY <3>2, <1>5
    <3>4. FdOf(r)' = g /\ meant[r] = open'[g]
      BY <3>1, <3>3, <2>1, <1>4
    <3>5. QED
      BY <3>1, <3>3, <3>4
  <2>5. DOMAIN open' \subseteq ConnFds /\ \A g \in DOMAIN open' : open'[g] \in Conns
    BY <2>0, <2>1
  <2>6. QED
    BY <2>0, <2>2, <2>3, <2>4, <2>5, <1>1 DEF FdSound
<1>12. LostSound'
  BY <1>1, <1>4 DEF Strong, LostSound
<1>13. BacklogSound'
  <2>1. BacklogSound
    BY DEF Strong
  <2>2. QED
    BY <2>1, <1>1 DEF BacklogSound
<1>14. StartSound'
  <2>1. \A r : Begins(r)' => Begins(r) /\ r # co
    BY <1>4 DEF Begins
  <2>2. \A r : Begins(r) => maker[r] \in ServerIds /\ r \in alive /\ maker[r] # None
    BY Numbers DEF Begins, ServerIds, None
  <2>3. \A s \in ServerIds : pc'[s] = pc[s]
    BY <1>2, Numbers
  <2>4. \A r \in alive' : Begins(r)' =>
            /\ pc'[maker[r]] \in {"accept", "accept wake"}
            /\ pc'[maker[r]] = "accept wake" =>
                  maker[r] # None /\ \A i \in DOMAIN events : events[i].fd # maker[r]
    BY <2>1, <2>2, <2>3 DEF Strong, StartSound
  <2>5. \A i, j \in DOMAIN ready : Begins(ready[i]) /\ ready[j] = maker[ready[i]] => i < j
    BY DEF Strong, StartSound
  <2>6. \A i, j \in DOMAIN ready : \A r : r = ready[i] /\ Begins(r)' /\ ready[j] = maker[r] => i < j
    BY <2>1, <2>5
  <2>7. \A r, q \in alive' : Begins(r)' /\ Begins(q)' /\ maker[r] = maker[q] => r = q
    BY <2>1, <1>4 DEF Strong, StartSound
  <2>8. \A i, j \in DOMAIN ready' :
            (/\ ready'[i] \in alive' /\ ready'[i] > Servers /\ pc'[ready'[i]] = "start"
             /\ ready'[j] = maker'[ready'[i]]) => i < j
    BY <2>6, <1>1 DEF Begins
  <2>9. \A r \in alive' : Begins(r)' =>
            /\ pc'[maker'[r]] \in {"accept", "accept wake"}
            /\ pc'[maker'[r]] = "accept wake" =>
                  maker'[r] # running' /\ \A i \in DOMAIN events' : events'[i].fd # maker'[r]
    BY <2>4, <1>1
  <2>10. \A r, q \in alive' : Begins(r)' /\ Begins(q)' /\ maker'[r] = maker'[q] => r = q
    BY <2>7, <1>1
  <2>11. QED
    BY <2>8, <2>9, <2>10 DEF StartSound, Begins
<1>15. QED
  BY <1>1, <1>6, <1>7, <1>8, <1>9, <1>10, <1>11, <1>12, <1>13, <1>14 DEF Strong
-----------------------------------------------------------------------------
(* The steps of the scheduler *)

\* They leave the coroutines as they are.
LEMMA SchedulerFrame ==
    ASSUME Strong, UNCHANGED <<kernelVars, progVars>>, alive' = alive, interest' = interest,
           running' \in alive \cup {None}, ready' \in Seq(Nat),
           events' \in Seq([fd : Int, hup : BOOLEAN])
    PROVE  /\ Typed' /\ AliveSound' /\ FdSound' /\ BacklogSound'
           /\ \A r : (FdOf(r)' = FdOf(r)) /\ (Begins(r)' <=> Begins(r))
<1>1. /\ pc' = pc /\ fd' = fd /\ cliFd' = cliFd /\ maker' = maker /\ meant' = meant
      /\ backlog' = backlog /\ open' = open /\ asked' = asked /\ Conns' = Conns
      /\ Coroutines' = Coroutines
  BY DEF kernelVars, progVars, Conns, Coroutines
<1>2. Typed'
  <2>1. Typed
    BY DEF Strong
  <2> HIDE DEF ServerPCs, ReaderPCs
  <2>2. QED
    BY <2>1, <1>1 DEF Typed
<1>3. AliveSound'
  BY <1>1 DEF Strong, AliveSound
<1>4. \A r : (FdOf(r)' = FdOf(r)) /\ (Begins(r)' <=> Begins(r))
  BY <1>1 DEF FdOf, Begins
<1>5. FdSound'
  BY <1>1, <1>4 DEF Strong, FdSound
<1>6. BacklogSound'
  <2>1. BacklogSound
    BY DEF Strong
  <2>2. QED
    BY <2>1, <1>1 DEF BacklogSound
<1>7. QED
  BY <1>2, <1>3, <1>4, <1>5, <1>6

\* It goes on in nty_schedule_run.
LEMMA TurnsStep ==
    ASSUME Strong, TestDone \/ NoEpollWait \/ EventsDone, UNCHANGED <<kernelVars, progVars>>
    PROVE  Strong' /\ ~failed'
<1>0. ~failed /\ running = None /\ events = <<>>
  BY DEF TestDone, NoEpollWait, EventsDone, Scheduling, Strong, EventSound
<1>1. /\ ready' = ready /\ waiting' = waiting /\ interest' = interest /\ events' = events
      /\ running' = running /\ alive' = alive /\ eof' = eof /\ failed' = failed
      /\ pc' = pc /\ fd' = fd /\ maker' = maker /\ meant' = meant
  BY DEF TestDone, NoEpollWait, EventsDone, kernelVars, progVars
<1>2. ready \in Seq(Nat) /\ events \in Seq([fd : Int, hup : BOOLEAN])
  BY DEF Strong, Typed
<1>3. /\ Typed' /\ AliveSound' /\ FdSound' /\ BacklogSound'
      /\ \A r : (FdOf(r)' = FdOf(r)) /\ (Begins(r)' <=> Begins(r))
  BY <1>0, <1>1, <1>2, SchedulerFrame
<1>4. phase' = "ready" => \E i \in DOMAIN ready : ready[i] = last'
  <2>1. SUFFICES ASSUME phase' = "ready" PROVE \E i \in DOMAIN ready : ready[i] = last'
    OBVIOUS
  <2>2. ready # <<>> /\ last' = Last(ready)
    BY <2>1 DEF TestDone, NoEpollWait, EventsDone
  <2>3. Len(ready) \in DOMAIN ready
    BY <2>2, <1>2, EmptySeq
  <2>4. QED
    BY <2>2, <2>3 DEF Last
<1>5. ReadySound'
  BY <1>1, <1>4 DEF Strong, ReadySound
<1>6. WaitSound'
  BY <1>1 DEF Strong, WaitSound
<1>7. EventSound'
  BY <1>0, <1>1 DEF EventSound
<1>8. LostSound'
  BY <1>1 DEF Strong, LostSound
<1>9. StartSound'
  BY <1>1, <1>3 DEF Strong, StartSound, Begins
<1>10. QED
  BY <1>0, <1>1, <1>3, <1>5, <1>6, <1>7, <1>8, <1>9 DEF Strong

\* It resumes the first of the ready queue, which had nothing from epoll.
LEMMA ResumeReadyStep ==
    ASSUME Strong, ResumeReady, UNCHANGED <<kernelVars, progVars>>
    PROVE  Strong' /\ ~failed'
<1> DEFINE co == Head(ready)
<1>0. /\ ~failed /\ running = None /\ events = <<>> /\ eof \subseteq {None}
      /\ ready \in Seq(Nat) /\ events \in Seq([fd : Int, hup : BOOLEAN])
      /\ \E i \in DOMAIN ready : ready[i] = last
  <2>1. ~failed /\ running = None /\ phase = "ready"
    BY DEF ResumeReady, Scheduling
  <2>2. events = <<>>
    BY <2>1 DEF Strong, EventSound
  <2>3. eof \subseteq {None} /\ ready \in Seq(Nat) /\ events \in Seq([fd : Int, hup : BOOLEAN])
    BY <2>1 DEF Strong, WaitSound, Typed
  <2>4. \E i \in DOMAIN ready : ready[i] = last
    BY <2>1 DEF Strong, ReadySound
  <2>5. QED
    BY <2>1, <2>2, <2>3, <2>4
<1>1. /\ ready # <<>> /\ DOMAIN ready = 1..Len(ready) /\ Len(ready) \in Nat \ {0} /\ co = ready[1]
      /\ Tail(ready) \in Seq(Nat) /\ DOMAIN Tail(ready) = 1..Len(ready) - 1
      /\ \A i \in DOMAIN Tail(ready) : Tail(ready)[i] = ready[i + 1]
  <2>1. ready # <<>>
    BY <1>0
  <2>2. Len(ready) \in Nat \ {0} /\ DOMAIN ready = 1..Len(ready) /\ co = ready[1]
    BY <2>1, <1>0, EmptySeq
  <2>3. /\ Tail(ready) \in Seq(Nat) /\ Len(Tail(ready)) = Len(ready) - 1
        /\ \A i \in 1..Len(Tail(ready)) : Tail(ready)[i] = ready[i + 1]
    BY <2>1, <1>0, HeadTailProperties
  <2>4. DOMAIN Tail(ready) = 1..Len(ready) - 1
    BY <2>3, LenProperties
  <2>5. QED
    BY <2>1, <2>2, <2>3, <2>4
<1> HIDE DEF co
<1>2. \A i \in 1..Len(ready) : /\ ready[i] \in alive /\ pc[ready[i]] \in {"start", "accept"}
                               /\ \A j \in 1..Len(ready) : ready[i] = ready[j] => i = j
  BY <1>1 DEF Strong, ReadySound
<1>3. co \in alive /\ co # None /\ co \notin eof /\ pc[co] \in {"start", "accept"} /\ pc[co] \notin Woken
  <2>1. co \in alive /\ pc[co] \in {"start", "accept"}
    BY <1>1, <1>2
  <2>2. co # None
    BY <2>1, FdRange
  <2>3. pc[co] \notin Woken
    BY <2>1 DEF Woken
  <2>4. QED
    BY <2>1, <2>2, <2>3, <1>0
<1>4. /\ ready' = Tail(ready) /\ running' = co /\ alive' = alive
      /\ phase' = IF co = last THEN "epoll" ELSE "ready"
      /\ last' = last /\ waiting' = waiting /\ interest' = interest /\ events' = events
      /\ eof' = eof /\ failed' = failed
      /\ pc' = pc /\ fd' = fd /\ maker' = maker /\ meant' = meant
  BY <1>3 DEF ResumeReady, kernelVars, progVars, co
<1>5. /\ Typed' /\ AliveSound' /\ FdSound' /\ BacklogSound'
      /\ \A r : (FdOf(r)' = FdOf(r)) /\ (Begins(r)' <=> Begins(r))
  BY <1>0, <1>1, <1>3, <1>4, SchedulerFrame
<1>6. \A i \in DOMAIN ready' : i + 1 \in 1..Len(ready) /\ ready'[i] = ready[i + 1] /\ i + 1 # 1 /\ i \in Nat
  BY <1>1, <1>4
<1>7. \A i \in 1..Len(ready) : i # 1 => i - 1 \in DOMAIN ready' /\ ready'[i - 1] = ready[i]
  <2>1. \A i \in 1..Len(ready) : i # 1 => i - 1 \in 1..Len(ready) - 1 /\ i - 1 + 1 = i
    BY <1>1
  <2>2. QED
    BY <2>1, <1>1, <1>4
<1>8. ReadySound'
  <2>1. 1 \in 1..Len(ready)
    BY <1>1
  <2>2. \A i \in DOMAIN ready' :
          ready'[i] \in alive /\ ready'[i] # co /\ pc[ready'[i]] \in {"start", "accept"}
    BY <2>1, <1>1, <1>2, <1>6
  <2>3. ASSUME NEW i \in DOMAIN ready', NEW j \in DOMAIN ready', ready'[i] = ready'[j] PROVE i = j
    <3>1. i + 1 = j + 1
      BY <2>3, <1>2, <1>6
    <3>2. QED
      BY <3>1, <1>6
  <2>4. ASSUME phase' = "ready" PROVE \E i \in DOMAIN ready' : ready'[i] = last
    <3>1. co # last
      BY <2>4, <1>4
    <3>2. PICK i \in 1..Len(ready) : ready[i] = last
      BY <1>0, <1>1
    <3>3. i # 1
      BY <3>1, <3>2, <1>1
    <3>4. QED
      BY <3>2, <3>3, <1>7
  <2>5. QED
    BY <2>2, <2>3, <2>4, <1>4 DEF ReadySound
<1>9. WaitSound'
  <2>1. ASSUME NEW x \in alive, pc[x] \notin Woken, x # co PROVE \E i \in DOMAIN ready' : ready'[i] = x
    <3>1. x # running
      BY <1>0, FdRange
    <3>2. PICK i \in 1..Len(ready) : ready[i] = x
      BY <2>1, <3>1, <1>1 DEF Strong, WaitSound
    <3>3. i # 1
      BY <2>1, <3>2, <1>1
    <3>4. QED
      BY <3>2, <3>3, <1>7
  <2>2. eof = {}
    BY <1>0 DEF Strong, WaitSound
  <2>3. QED
    BY <2>1, <2>2, <1>4 DEF Strong, WaitSound
<1>10. EventSound'
  BY <1>0, <1>4 DEF EventSound
<1>11. LostSound'
  <2>1. pc[co] # "recv wake"
    BY <1>3
  <2>2. QED
    BY <2>1, <1>4 DEF Strong, LostSound
<1>12. StartSound'
  <2>1. \A r \in alive : Begins(r) =>
            /\ pc[maker[r]] \in {"accept", "accept wake"}
            /\ pc[maker[r]] = "accept wake" => maker[r] # co
    BY <1>3 DEF Strong, StartSound
  <2>2. \A i, j \in DOMAIN ready' : Begins(ready'[i]) /\ ready'[j] = maker[ready'[i]] => i < j
    <3>1. \A i, j \in 1..Len(ready) : Begins(ready[i]) /\ ready[j] = maker[ready[i]] => i < j
      BY <1>1 DEF Strong, StartSound
    <3>2. SUFFICES ASSUME NEW i \in DOMAIN ready', NEW j \in DOMAIN ready',
                          Begins(ready'[i]), ready'[j] = maker[ready'[i]]
                   PROVE  i < j
      OBVIOUS
    <3>3. i + 1 < j + 1
      BY <3>1, <3>2, <1>6
    <3>4. QED
      BY <3>3, <1>6
  <2>3. \A i, j \in DOMAIN ready' : \A r : r = ready'[i] /\ Begins(r)' /\ ready'[j] = maker'[r] => i < j
    BY <2>2, <1>4, <1>5
  <2>4. \A r, q \in alive : Begins(r) /\ Begins(q) /\ maker[r] = maker[q] => r = q
    BY DEF Strong, StartSound
  <2>5. \A i, j \in DOMAIN ready' :
            (/\ ready'[i] \in alive' /\ ready'[i] > Servers /\ pc'[ready'[i]] = "start"
             /\ ready'[j] = maker'[ready'[i]]) => i < j
    BY <2>3 DEF Begins
  <2>6. \A r \in alive' : Begins(r)' =>
            /\ pc'[maker'[r]] \in {"accept", "accept wake"}
            /\ pc'[maker'[r]] = "accept wake" =>
                  maker'[r] # running' /\ \A i \in DOMAIN events' : events'[i].fd # maker'[r]
    <3>1. DOMAIN events' = {}
      BY <1>0, <1>4
    <3>2. maker' = maker /\ pc' = pc /\ running' = co /\ alive' = alive
      BY <1>4
    <3>3. \A r : Begins(r)' <=> Begins(r)
      BY <1>5
    <3>4. QED
      BY <2>1, <3>1, <3>2, <3>3
  <2>7. \A r, q \in alive' : Begins(r)' /\ Begins(q)' /\ maker'[r] = maker'[q] => r = q
    BY <2>4, <1>4, <1>5
  <2>8. QED
    BY <2>5, <2>6, <2>7 DEF StartSound, Begins
<1>13. QED
  BY <1>0, <1>4, <1>5, <1>8, <1>9, <1>10, <1>11, <1>12 DEF Strong

\* What epoll_wait returns has each descriptor once.
LEMMA FiredFacts ==
    ASSUME NEW F, IsFiniteSet(F), F \subseteq Int, NEW hup \in [F -> BOOLEAN],
           NEW order \in SetToSeqs({[fd |-> f, hup |-> hup[f]] : f \in F})
    PROVE  /\ order \in Seq([fd : Int, hup : BOOLEAN])
           /\ \A i \in DOMAIN order : order[i].fd \in F
           /\ \A i, j \in DOMAIN order : order[i].fd = order[j].fd => i = j
<1> DEFINE fired == {[fd |-> f, hup |-> hup[f]] : f \in F}
           g == [e \in fired |-> e.fd]
<1>1. \A e \in fired : e.fd \in F /\ e \in [fd : Int, hup : BOOLEAN] /\ e.hup = hup[e.fd]
  OBVIOUS
<1>2. \A e, d \in fired : e.fd = d.fd => e = d
  OBVIOUS
<1>3. g \in Injection(fired, F)
  <2>1. g \in [fired -> F]
    BY <1>1
  <2>2. \A e, d \in fired : g[e] = g[d] => e = d
    BY <1>2
  <2> HIDE DEF g, fired
  <2>3. QED
    BY <2>1, <2>2 DEF Injection, IsInjective
<1> HIDE DEF fired, g
<1>4. IsFiniteSet(fired)
  BY <1>3, FS_Injection
<1>5. Cardinality(fired) \in Nat
  BY <1>4, FS_CardinalityType
<1>6. /\ order \in [1..Cardinality(fired) -> fired]
      /\ \A i, j \in 1..Cardinality(fired) : i # j => order[i] # order[j]
  BY DEF SetToSeqs, fired
<1>7. DOMAIN order = 1..Cardinality(fired)
  BY <1>6
<1>8. \A i \in DOMAIN order : order[i] \in fired
  BY <1>6
<1>9. order \in Seq([fd : Int, hup : BOOLEAN])
  <2> DEFINE E == [fd : Int, hup : BOOLEAN]
  <2>1. \A e \in fired : e \in E
    BY <1>1
  <2> HIDE DEF E
  <2>2. order \in [1..Cardinality(fired) -> E]
    BY <2>1, <1>6
  <2>3. order \in Seq(E)
    BY <2>2, <1>5, SeqDef
  <2>4. QED
    BY <2>3 DEF E
<1>10. \A i, j \in DOMAIN order : order[i].fd = order[j].fd => i = j
  BY <1>2, <1>6, <1>7, <1>8
<1>11. QED
  BY <1>1, <1>8, <1>9, <1>10

\* It asks epoll when nobody is in the ready queue.
LEMMA PollStep ==
    ASSUME Strong, Poll
    PROVE  Strong' /\ ~failed'
<1> DEFINE F == {f \in DOMAIN interest : Fires(f)}
           hup == [f \in F |-> HangsUp(f)]
<1>0. hup \in [F -> BOOLEAN] /\ EpollWait({[fd |-> f, hup |-> hup[f]] : f \in F})
  <2>1. hup \in [F -> BOOLEAN] /\ \A f \in F : hup[f] = HangsUp(f)
    BY DEF HangsUp, IsReset
  <2>2. EpollWait({[fd |-> f, hup |-> HangsUp(f)] : f \in F})
    BY DEF Poll
  <2> HIDE DEF F, hup
  <2>3. {[fd |-> f, hup |-> HangsUp(f)] : f \in F} = {[fd |-> f, hup |-> hup[f]] : f \in F}
    BY <2>1
  <2>4. QED
    BY <2>1, <2>2, <2>3
<1> HIDE DEF hup
<1>1. /\ ~failed /\ running = None /\ ready = <<>> /\ UNCHANGED <<kernelVars, progVars>>
      /\ events' \in SetToSeqs({[fd |-> f, hup |-> hup[f]] : f \in F})
      /\ ready' = ready /\ last' = last /\ waiting' = waiting /\ interest' = interest
      /\ running' = running /\ alive' = alive /\ eof' = eof /\ failed' = failed
      /\ phase' = "events"
  BY <1>0 DEF EpollWait, Scheduling, Poll
<1>2. IsFiniteSet(F) /\ F \subseteq Int /\ F \subseteq DOMAIN interest
  <2>1. IsFiniteSet(DOMAIN interest) /\ F \subseteq DOMAIN interest
    BY DEF Strong, Typed
  <2>2. IsFiniteSet(F)
    <3> HIDE DEF F
    <3>1. QED
      BY <2>1, FS_Subset
  <2>3. ASSUME NEW f \in DOMAIN interest PROVE f \in Int
    <3>1. f \in DOMAIN waiting /\ waiting[f] \in alive /\ fd[waiting[f]] = f
      BY DEF Strong, WaitSound
    <3>2. waiting[f] \in Coroutines /\ fd \in Seq(Int) /\ Len(fd) = Len(pc)
      BY <3>1 DEF Strong, AliveSound, Typed
    <3>3. fd[waiting[f]] \in Int
      BY <3>2, ElementOfSeq DEF Coroutines
    <3>4. QED
      BY <3>1, <3>3
  <2>4. QED
    BY <2>1, <2>2, <2>3
<1> HIDE DEF F
<1>3. /\ events' \in Seq([fd : Int, hup : BOOLEAN])
      /\ \A i \in DOMAIN events' : events'[i].fd \in F
      /\ \A i, j \in DOMAIN events' : events'[i].fd = events'[j].fd => i = j
  BY <1>0, <1>1, <1>2, FiredFacts, SMTT(60)
<1>4. ready \in Seq(Nat)
  BY DEF Strong, Typed
<1>5. /\ Typed' /\ AliveSound' /\ FdSound' /\ BacklogSound'
      /\ \A r : (FdOf(r)' = FdOf(r)) /\ (Begins(r)' <=> Begins(r))
  BY <1>1, <1>3, <1>4, SchedulerFrame
<1>6. pc' = pc /\ fd' = fd /\ maker' = maker /\ meant' = meant
  BY <1>1 DEF progVars
<1>7. ReadySound'
  BY <1>1, <1>6 DEF Strong, ReadySound
<1>8. WaitSound'
  BY <1>1, <1>6 DEF Strong, WaitSound
<1>9. EventSound'
  BY <1>1, <1>2, <1>3 DEF EventSound
<1>10. LostSound'
  BY <1>1, <1>6 DEF Strong, LostSound
<1>11. StartSound'
  <2>1. ASSUME NEW r, Begins(r) PROVE FALSE
    <3>1. r \in alive /\ pc[r] \notin Woken /\ r # running
      BY <2>1, <1>1, FdRange DEF Begins, Woken
    <3>2. \E i \in DOMAIN ready : ready[i] = r
      BY <3>1 DEF Strong, WaitSound
    <3>3. QED
      BY <3>2, <1>1
  <2>2. \A r : ~Begins(r)'
    BY <2>1, <1>5
  <2>3. DOMAIN ready' = {}
    BY <1>1
  <2>4. QED
    BY <2>2, <2>3 DEF StartSound
<1>12. QED
  BY <1>1, <1>5, <1>7, <1>8, <1>9, <1>10, <1>11 DEF Strong

\* It resumes who waits for the last of the events.
LEMMA ResumeWaitingStep ==
    ASSUME Strong, ResumeWaiting, UNCHANGED <<kernelVars, progVars>>
    PROVE  Strong' /\ ~failed'
<1> DEFINE e == Last(events)
           co == waiting[e.fd]
<1>0. /\ ~failed /\ running = None /\ events # <<>> /\ eof = {} /\ phase = "events"
      /\ ready \in Seq(Nat) /\ events \in Seq([fd : Int, hup : BOOLEAN])
  <2>1. ~failed /\ running = None /\ events # <<>> /\ phase = "events"
    BY DEF ResumeWaiting, Scheduling
  <2>2. QED
    BY <2>1 DEF Strong, WaitSound, Typed
<1>1. /\ Len(events) \in Nat \ {0} /\ e = events[Len(events)] /\ DOMAIN events = 1..Len(events)
      /\ Front(events) \in Seq([fd : Int, hup : BOOLEAN])
      /\ DOMAIN Front(events) = 1..Len(events) - 1
      /\ \A i \in DOMAIN Front(events) : Front(events)[i] = events[i]
  BY <1>0, FrontFacts, LenProperties
<1>2. /\ \A i \in DOMAIN events : events[i].fd \in DOMAIN interest
      /\ \A i, j \in DOMAIN events : events[i].fd = events[j].fd => i = j
  BY DEF Strong, EventSound
<1>3. \A i \in DOMAIN Front(events) :
          i \in DOMAIN events /\ Front(events)[i] = events[i] /\ events[i].fd # e.fd
  BY <1>1, <1>2
<1>4. e.fd \in DOMAIN interest /\ e.fd \in DOMAIN waiting /\ e.fd # -1
  <2>1. e.fd \in DOMAIN interest
    BY <1>1, <1>2
  <2>2. QED
    BY <2>1 DEF Strong, WaitSound
<1>5. co \in alive /\ fd[co] = e.fd /\ pc[co] \in Woken
  BY <1>4 DEF Strong, WaitSound
<1>6. /\ running' = co /\ eof' \subseteq {co} /\ failed' = failed /\ events' = Front(events)
      /\ phase' = phase /\ ready' = ready /\ last' = last /\ waiting' = waiting
      /\ interest' = interest /\ alive' = alive
      /\ pc' = pc /\ fd' = fd /\ maker' = maker /\ meant' = meant
  BY <1>0, <1>4 DEF ResumeWaiting, progVars
<1> HIDE DEF e, co
<1>7. co # None /\ FdOf(co) = e.fd
  BY <1>5, FdRange DEF Woken
<1>8. /\ Typed' /\ AliveSound' /\ FdSound' /\ BacklogSound'
      /\ \A r : (FdOf(r)' = FdOf(r)) /\ (Begins(r)' <=> Begins(r))
  BY <1>0, <1>1, <1>5, <1>6, SchedulerFrame
<1>9. ReadySound'
  <2>1. \A i \in DOMAIN ready : pc[ready[i]] \in {"start", "accept"}
    BY DEF Strong, ReadySound
  <2>2. \A i \in DOMAIN ready : ready[i] # co
    BY <2>1, <1>5 DEF Woken
  <2>3. phase' # "ready"
    BY <1>0, <1>6
  <2>4. QED
    BY <2>2, <2>3, <1>6 DEF Strong, ReadySound
<1>10. WaitSound'
  <2>1. \A x \in alive : pc[x] \notin Woken => \E i \in DOMAIN ready : ready[i] = x
    BY <1>0, FdRange DEF Strong, WaitSound
  <2>2. eof' \subseteq {co} \ {None}
    BY <1>6, <1>7
  <2>3. QED
    BY <2>1, <2>2, <1>5, <1>6 DEF Strong, WaitSound
<1>11. EventSound'
  <2>1. phase' # "events" => events' = <<>>
    BY <1>0, <1>6
  <2>2. \A i \in DOMAIN events' : events'[i].fd \in DOMAIN interest /\ events'[i].fd # fd[co]
    BY <1>2, <1>3, <1>5, <1>6
  <2>3. \A i, j \in DOMAIN events' : events'[i].fd = events'[j].fd => i = j
    BY <1>2, <1>3, <1>6
  <2>4. QED
    BY <2>1, <2>2, <2>3, <1>6 DEF EventSound
<1>12. LostSound'
  <2>1. \A r \in alive : (r > Servers /\ meant[r] = NoConn) => r # co
    BY <1>4, <1>7 DEF Strong, FdSound
  <2>2. QED
    BY <2>1, <1>6 DEF Strong, LostSound
<1>13. StartSound'
  <2>1. \A r \in alive : Begins(r) =>
            /\ pc[maker[r]] \in {"accept", "accept wake"}
            /\ pc[maker[r]] = "accept wake" => \A i \in DOMAIN events : events[i].fd # maker[r]
    BY DEF Strong, StartSound
  <2>2. co \in ServerIds => e.fd = co
    BY <1>5, FdRange
  <2>3. \A r \in alive : Begins(r) => maker[r] \in ServerIds
    BY Numbers
  <2>4. Len(events) \in DOMAIN events
    BY <1>1
  <2>5. \A r \in alive : Begins(r) /\ pc[maker[r]] = "accept wake" => maker[r] # co
    BY <2>1, <2>2, <2>3, <2>4, <1>1
  <2>6. \A r \in alive' : Begins(r)' =>
            /\ pc'[maker'[r]] \in {"accept", "accept wake"}
            /\ pc'[maker'[r]] = "accept wake" =>
                  maker'[r] # running' /\ \A i \in DOMAIN events' : events'[i].fd # maker'[r]
    <3>1. maker' = maker /\ pc' = pc /\ running' = co /\ alive' = alive /\ events' = Front(events)
      BY <1>6
    <3>2. \A r : Begins(r)' <=> Begins(r)
      BY <1>8
    <3>3. \A r \in alive : Begins(r) /\ pc[maker[r]] = "accept wake" =>
              \A i \in DOMAIN Front(events) : Front(events)[i].fd # maker[r]
      BY <2>1, <1>3
    <3>4. QED
      BY <2>1, <2>5, <3>1, <3>2, <3>3
  <2>7. \A i, j \in DOMAIN ready : Begins(ready[i]) /\ ready[j] = maker[ready[i]] => i < j
    BY DEF Strong, StartSound
  <2>8. \A r, q \in alive : Begins(r) /\ Begins(q) /\ maker[r] = maker[q] => r = q
    BY DEF Strong, StartSound
  <2>9. \A i, j \in DOMAIN ready' :
            (/\ ready'[i] \in alive' /\ ready'[i] > Servers /\ pc'[ready'[i]] = "start"
             /\ ready'[j] = maker'[ready'[i]]) => i < j
    BY <2>7, <1>6 DEF Begins
  <2>10. \A r, q \in alive' : Begins(r)' /\ Begins(q)' /\ maker'[r] = maker'[q] => r = q
    BY <2>8, <1>6, <1>8
  <2>11. QED
    BY <2>6, <2>9, <2>10 DEF StartSound, Begins
<1>14. QED
  BY <1>0, <1>6, <1>8, <1>9, <1>10, <1>11, <1>12, <1>13 DEF Strong
-----------------------------------------------------------------------------
(* The steps of the peers *)

\* A backlog gets one more.
Longer(queues, s, c) == [queues EXCEPT ![s] = Append(@, c)]

\* A connection that is new is to be accepted by one server.
LEMMA PendingAppend ==
    ASSUME NEW queues \in [ServerIds -> Seq(Nat)], NEW conns, NEW more, NEW taken, NEW s \in ServerIds,
           NEW c \in Nat, Pending(queues, conns, taken), conns \subseteq more,
           c \in more, c \notin conns, \A r \in DOMAIN taken : taken[r] # c
    PROVE  /\ Longer(queues, s, c) \in [ServerIds -> Seq(Nat)]
           /\ Pending(Longer(queues, s, c), more, taken)
<1> DEFINE longer == Longer(queues, s, c)
<1>1. /\ Append(queues[s], c) \in Seq(Nat) /\ Len(queues[s]) \in Nat
      /\ Len(Append(queues[s], c)) = Len(queues[s]) + 1
      /\ \A i \in 1..Len(queues[s]) : Append(queues[s], c)[i] = queues[s][i]
      /\ Append(queues[s], c)[Len(queues[s]) + 1] = c
  BY AppendFacts
<1>2. /\ longer[s] = Append(queues[s], c) /\ \A t \in ServerIds : t # s => longer[t] = queues[t]
      /\ longer \in [ServerIds -> Seq(Nat)]
  BY <1>1 DEF Longer
<1> HIDE DEF longer
<1>3. /\ \A t \in ServerIds : \A i \in 1..Len(queues[t]) :
            queues[t][i] \in conns /\ \A r \in DOMAIN taken : taken[r] # queues[t][i]
      /\ \A t, u \in ServerIds : \A i \in 1..Len(queues[t]), j \in 1..Len(queues[u]) :
            queues[t][i] = queues[u][j] => t = u /\ i = j
  BY DEF Pending
<1>4. ASSUME NEW t \in ServerIds, NEW i \in 1..Len(longer[t])
      PROVE  \/ i \in 1..Len(queues[t]) /\ longer[t][i] = queues[t][i]
             \/ t = s /\ i = Len(queues[s]) + 1 /\ longer[t][i] = c
  <2>1. CASE t = s
    BY <2>1, <1>1, <1>2
  <2>2. CASE t # s
    BY <2>2, <1>2
  <2>3. QED
    BY <2>1, <2>2
<1>5. ASSUME NEW t \in ServerIds, NEW i \in 1..Len(longer[t])
      PROVE  longer[t][i] \in more /\ \A r \in DOMAIN taken : taken[r] # longer[t][i]
  BY <1>3, <1>4
<1>6. ASSUME NEW t \in ServerIds, NEW u \in ServerIds, NEW i \in 1..Len(longer[t]),
             NEW j \in 1..Len(longer[u]), longer[t][i] = longer[u][j]
      PROVE  t = u /\ i = j
  <2>1. \A v \in ServerIds : \A k \in 1..Len(queues[v]) : queues[v][k] # c
    BY <1>3
  <2>2. CASE longer[t][i] = c
    <3>1. longer[u][j] = c
      BY <2>2, <1>6
    <3>2. t = s /\ i = Len(queues[s]) + 1
      BY <2>1, <2>2, <1>4
    <3>3. u = s /\ j = Len(queues[s]) + 1
      BY <2>1, <3>1, <1>4
    <3>4. QED
      BY <3>2, <3>3
  <2>3. CASE longer[t][i] # c
    <3>1. /\ i \in 1..Len(queues[t]) /\ longer[t][i] = queues[t][i]
          /\ j \in 1..Len(queues[u]) /\ longer[u][j] = queues[u][j]
      BY <2>3, <1>4, <1>6
    <3>2. queues[t][i] = queues[u][j]
      BY <3>1, <1>6
    <3>3. QED
      <4>1. \A k \in 1..Len(queues[t]) : \A l \in 1..Len(queues[u]) :
              queues[t][k] = queues[u][l] => t = u /\ k = l
        BY DEF Pending
      <4>2. QED
        BY <4>1, <3>1, <3>2
  <2>4. QED
    BY <2>2, <2>3
<1>7. Pending(longer, more, taken)
  BY <1>5, <1>6 DEF Pending
<1>8. QED
  BY <1>2, <1>7 DEF longer

\* The peers touch no coroutine and no descriptor.
LEMMA PeerFrame ==
    Peer => UNCHANGED <<schedVars, progVars, open>>
BY DEF Peer, Connect, Ask, ReadAnswer, Leaves, schedVars, progVars

LEMMA PeerStep ==
    ASSUME Strong, Peer
    PROVE  Strong'
<1>1. /\ phase' = phase /\ ready' = ready /\ last' = last /\ waiting' = waiting
      /\ interest' = interest /\ events' = events /\ running' = running /\ alive' = alive
      /\ eof' = eof /\ pc' = pc /\ fd' = fd /\ cliFd' = cliFd /\ maker' = maker
      /\ meant' = meant /\ open' = open
  BY PeerFrame DEF schedVars, progVars
<1>2. /\ asked \in Seq(Nat) /\ Len(asked) \in Nat
      /\ backlog \in [ServerIds -> Seq(Nat)] /\ Pending(backlog, Conns, meant)
      /\ \A r \in DOMAIN meant : meant[r] \in Conns \cup {NoConn}
  <2>1. Typed
    BY DEF Strong
  <2>2. asked \in Seq(Nat) /\ backlog \in [ServerIds -> Seq(Nat)] /\ Pending(backlog, Conns, meant)
    BY <2>1 DEF Typed, Strong, BacklogSound
  <2>3. \A r \in DOMAIN meant : r \in Coroutines /\ r > Servers
    BY Numbers
  <2>4. QED
    BY <2>1, <2>2, <2>3, LenProperties DEF Typed
<1>3. /\ asked' \in Seq(Nat) /\ Conns \subseteq Conns'
      /\ backlog' \in [ServerIds -> Seq(Nat)] /\ Pending(backlog', Conns', meant)
  <2>1. ASSUME NEW s \in ServerIds, Connect(s)
        PROVE  /\ asked' \in Seq(Nat) /\ Conns \subseteq Conns'
               /\ backlog' \in [ServerIds -> Seq(Nat)] /\ Pending(backlog', Conns', meant)
    <3> DEFINE c == Len(asked) + 1
    <3>1. asked' = Append(asked, 0) /\ backlog' = [backlog EXCEPT ![s] = Append(@, c)]
      BY <2>1 DEF Connect
    <3>2. asked' \in Seq(Nat) /\ Len(asked') = c
      BY <3>1, <1>2, AppendProperties
    <3>3. Conns' = 1..c /\ Conns = 1..Len(asked) /\ c \in Nat /\ NoConn # c
      BY <3>2, <1>2 DEF Conns, NoConn
    <3>4. Conns \subseteq Conns' /\ c \in Conns' /\ c \notin Conns
      BY <3>3, <1>2
    <3>5. \A r \in DOMAIN meant : meant[r] # c
      BY <3>3, <3>4, <1>2
    <3> HIDE DEF c
    <3>6. backlog' \in [ServerIds -> Seq(Nat)] /\ Pending(backlog', Conns', meant)
      <4>1. backlog' = Longer(backlog, s, c)
        BY <3>1 DEF Longer
      <4>2. ASSUME NEW more, Conns \subseteq more, c \in more
            PROVE  /\ Longer(backlog, s, c) \in [ServerIds -> Seq(Nat)]
                   /\ Pending(Longer(backlog, s, c), more, meant)
        <5>1. c \in Nat /\ c \notin Conns
          BY <3>3, <3>4
        <5>2. backlog \in [ServerIds -> Seq(Nat)] /\ Pending(backlog, Conns, meant)
          BY <1>2
        <5>3. QED
          BY <5>1, <5>2, <4>2, <3>5, PendingAppend
      <4>3. Pending(Longer(backlog, s, c), Conns', meant)
        BY <4>2, <3>4
      <4>4. QED
        BY <4>1, <4>2, <4>3, <3>4
    <3>7. QED
      BY <3>2, <3>4, <3>6
  <2>2. ASSUME NEW c \in Conns, Ask(c) \/ ReadAnswer(c) \/ Leaves(c)
        PROVE  /\ asked' \in Seq(Nat) /\ Conns \subseteq Conns'
               /\ backlog' \in [ServerIds -> Seq(Nat)] /\ Pending(backlog', Conns', meant)
    <3>1. backlog' = backlog /\ asked' \in {asked, [asked EXCEPT ![c] = @ + 1]}
      BY <2>2 DEF Ask, ReadAnswer, Leaves
    <3>2. asked[c] \in Nat
      BY <1>2, ElementOfSeq DEF Conns
    <3>3. [asked EXCEPT ![c] = @ + 1] \in Seq(Nat) /\ Len([asked EXCEPT ![c] = @ + 1]) = Len(asked)
      BY <3>2, <1>2, ExceptSeq DEF Conns
    <3>4. asked' \in Seq(Nat) /\ Len(asked') = Len(asked)
      BY <3>1, <3>3, <1>2
    <3>5. Conns' = Conns
      BY <3>4 DEF Conns
    <3>6. QED
      BY <3>1, <3>4, <3>5, <1>2
  <2>3. QED
    BY <2>1, <2>2 DEF Peer
<1>4. Typed'
  <2>1. Typed
    BY DEF Strong
  <2>2. Coroutines' = Coroutines
    BY <1>1 DEF Coroutines
  <2> HIDE DEF ServerPCs, ReaderPCs
  <2>3. QED
    BY <2>1, <2>2, <1>1, <1>3 DEF Typed
<1>5. AliveSound'
  BY <1>1 DEF Strong, AliveSound, Coroutines
<1>6. ReadySound'
  BY <1>1 DEF Strong, ReadySound
<1>7. WaitSound'
  BY <1>1 DEF Strong, WaitSound
<1>8. EventSound'
  BY <1>1 DEF Strong, EventSound
<1>9. FdSound'
  <2>1. \A r : FdOf(r)' = FdOf(r)
    BY <1>1 DEF FdOf
  <2>2. QED
    BY <2>1, <1>1, <1>3 DEF Strong, FdSound
<1>10. LostSound'
  BY <1>1 DEF Strong, LostSound
<1>11. BacklogSound'
  BY <1>1, <1>3 DEF BacklogSound
<1>12. StartSound'
  BY <1>1 DEF Strong, StartSound, Begins
<1>13. QED
  BY <1>4, <1>5, <1>6, <1>7, <1>8, <1>9, <1>10, <1>11, <1>12 DEF Strong

\* Whatever they do after an assertion has failed
LEMMA PeerKeeps ==
    ASSUME Peer
    PROVE  /\ failed' = failed
           /\ TwoLost => TwoLost'
           /\ RightDescriptor => RightDescriptor'
<1>1. /\ failed' = failed /\ meant' = meant /\ pc' = pc /\ fd' = fd /\ open' = open
      /\ alive' = alive /\ Readers' = Readers
  BY PeerFrame DEF schedVars, progVars, Readers
<1>2. TwoLost => TwoLost'
  BY <1>1 DEF TwoLost
<1>3. RightDescriptor => RightDescriptor'
  <2>1. \A f \in DOMAIN open :
            {r \in Readers' \cap alive' : meant'[r] = open'[f]} = {r \in Readers \cap alive : meant[r] = open[f]}
    BY <1>1
  <2>2. QED
    BY <2>1, <1>1 DEF RightDescriptor
<1>4. QED
  BY <1>1, <1>2, <1>3
-----------------------------------------------------------------------------
(* The invariant holds whatever is done. *)

\* A coroutine begins to wait.
LEMMA WaitsInv ==
    ASSUME Strong, NEW co \in alive, NEW where, WaitsAt(co, where)
    PROVE  IInv'
<1>1. failed' = (fd[co] \in DOMAIN waiting)
  BY DEF WaitsAt, PollsFor
<1>2. CASE fd[co] \in DOMAIN waiting
  BY <1>1, <1>2, WaitFails DEF IInv
<1>3. CASE fd[co] \notin DOMAIN waiting
  BY <1>3, WaitsStep DEF IInv
<1>4. QED
  BY <1>2, <1>3

\* Who holds a connection: the readers that have got past nty_recv's own wait
LEMMA HoldsConn ==
    ASSUME Strong, NEW co \in alive, co \notin ServerIds, pc[co] \notin {"start", "recv", "recv wake"}
    PROVE  meant[co] # NoConn /\ fd[co] \in DOMAIN open
<1>1. co > Servers
  BY FdRange
<1>2. meant[co] # NoConn
  BY <1>1 DEF Strong, LostSound
<1>3. fd[co] = FdOf(co)
  BY DEF FdOf
<1>4. QED
  BY <1>1, <1>2, <1>3 DEF Strong, FdSound

\* A set of numbers has a least one.
LEMMA LeastNat ==
    ASSUME NEW S, S \subseteq Nat, S # {}
    PROVE  \E x \in S : \A y \in S : x <= y
<1> DEFINE R == OpToRel(<, Nat)
<1>1. IsWellFoundedOn(R, Nat)
  BY NatLessThanWellFounded, Zenon
<1>2. \A x, y \in Nat : y < x => <<y, x>> \in R
  BY DEF OpToRel
<1> HIDE DEF R
<1>3. \E x \in S : \A y \in S : ~ (<<y, x>> \in R)
  BY <1>1, WFMin, Zenon
<1>4. PICK x \in S : \A y \in S : ~ (<<y, x>> \in R)
  BY <1>3, Zenon
<1>5. ASSUME NEW y \in S PROVE x <= y
  <2>1. ~(y < x)
    BY <1>2, <1>4
  <2>2. x \in Nat /\ y \in Nat
    BY <1>4
  <2>3. QED
    BY <2>1, <2>2
<1>6. QED
  BY <1>5

\* The descriptor that accept(2) returns
LEMMA LeastFree ==
    ASSUME NEW free \in SUBSET ConnFds, free # {}
    PROVE  (CHOOSE g \in free : \A h \in free : g <= h) \in free
<1>1. free \subseteq Nat
  BY NtyServerAssumption DEF ConnFds
<1>2. \E g \in free : \A h \in free : g <= h
  BY <1>1, LeastNat
<1>3. QED
  BY <1>2

LEMMA AcceptsStep ==
    ASSUME Strong, ~failed, NEW s \in alive, s \in ServerIds, Accepts(s)
    PROVE  Strong' /\ ~failed'
<1> DEFINE free == ConnFds \ DOMAIN open
           f == CHOOSE g \in free : \A h \in free : g <= h
<1>1. Accepting(s) /\ pc[s] = "accept now" /\ s = running /\ asked' = asked
  BY DEF Accepts, At, Running, Accepting
<1>2. CASE backlog[s] = <<>>
  <2>1. /\ Goto(s, "accept hook") /\ Goes /\ SameProgram
    BY <1>1, <1>2 DEF Accepts, SameProgram
  <2>2. pc[s] \notin Woken \cup {"start"}
    BY <1>1 DEF Woken
  <2>3. Strong'
    BY <1>1, <2>1, <2>2, MovesStep
  <2>4. failed' = failed
    BY <2>1 DEF Goes, schedVars
  <2>5. QED
    BY <2>3, <2>4
<1>3. CASE backlog[s] # <<>> /\ free = {}
  <2>1. MakesReader(s, -1, NoConn) /\ UNCHANGED <<backlog, open>>
    BY <1>3 DEF Accepts
  <2>2. Dropped(s, -1, NoConn)
    BY <2>1 DEF Dropped
  <2>3. QED
    BY <1>1, <1>3, <2>1, <2>2, MakesReaderStep
<1>4. CASE backlog[s] # <<>> /\ free # {}
  <2>1. /\ MakesReader(s, f, Head(backlog[s]))
        /\ backlog' = [backlog EXCEPT ![s] = Tail(@)]
        /\ open' = With(open, f, Head(backlog[s]))
    BY <1>4 DEF Accepts
  <2>2. f \in free
    BY <1>4, LeastFree
  <2> HIDE DEF f
  <2>3. Accepted(s, f, Head(backlog[s]))
    BY <2>1, <2>2 DEF Accepted
  <2>4. QED
    BY <1>1, <1>4, <2>1, <2>3, MakesReaderStep
<1>5. QED
  BY <1>2, <1>3, <1>4

LEMMA AcceptFailsStep ==
    ASSUME Strong, ~failed, NEW s \in alive, s \in ServerIds, AcceptFails(s)
    PROVE  Strong' /\ ~failed'
<1>1. Accepting(s) /\ asked' = asked /\ backlog[s] # <<>>
  BY DEF AcceptFails, At, Running, Accepting
<1>2. /\ MakesReader(s, -1, NoConn) /\ open' = open
      /\ backlog' = [backlog EXCEPT ![s] = Tail(@)]
  BY DEF AcceptFails
<1>3. Dropped(s, -1, NoConn)
  BY <1>2 DEF Dropped
<1>4. QED
  BY <1>1, <1>2, <1>3, MakesReaderStep

\* A reader that has its connection reads or writes and goes on.
LEMMA ReaderMoves ==
    ASSUME Strong, ~failed, NEW co \in alive, co \notin ServerIds, co = running,
           NEW where \in {"recv", "send"}, Goto(co, where), Goes, SameProgram,
           pc[co] \in {"recv now", "send", "send hook"}
    PROVE  Strong' /\ ~failed'
<1>1. meant[co] # NoConn
  BY HoldsConn
<1>2. pc[co] \notin Woken \cup {"start"}
  BY DEF Woken
<1>3. Strong'
  BY <1>1, <1>2, MovesStep
<1>4. QED
  BY <1>3 DEF Goes, schedVars

LEMMA ReaderCloses ==
    ASSUME Strong, ~failed, NEW co \in alive, co \notin ServerIds, co = running, Closes(co),
           pc[co] \in {"recv now", "send", "send hook"},
           UNCHANGED <<fd, cliFd, maker, meant, backlog, asked>>
    PROVE  Strong' /\ ~failed'
<1>1. meant[co] # NoConn
  BY HoldsConn
<1>2. MayClose(co)
  BY <1>1 DEF MayClose, Woken
<1>3. QED
  BY <1>2, ClosesStep

\* A reader waits until it can write.
LEMMA ReaderWaits ==
    ASSUME Strong, ~failed, NEW co \in alive, co \notin ServerIds, co = running,
           NEW where \in {"send wake", "send hook wake"}, SendWaits(co, where), SameProgram,
           pc[co] \in {"send", "send hook"}
    PROVE  IInv'
<1>1. meant[co] # NoConn
  BY HoldsConn
<1>2. WaitsAt(co, where)
  BY <1>1 DEF SendWaits, WaitsAt, WaitPCs, Woken
<1>3. QED
  BY <1>2, WaitsInv

\* Every step of the running coroutine
LEMMA CoroutineStep ==
    ASSUME Strong, ~failed, Coroutine
    PROVE  IInv'
<1> USE DEF At, Running
<1>1. PICK co \in alive :
          \/ PollsFirst(co) \/ Wakes(co)
          \/ co \in ServerIds /\ (Spins(co) \/ Accepts(co) \/ AcceptFails(co))
          \/ co \notin ServerIds /\ (Starts(co) \/ Receives(co) \/ Sends(co) \/ SendFails(co))
  BY DEF Coroutine
<1>2. CASE PollsFirst(co)
  <2>1. CASE pc[co] = "accept" /\ Goto(co, "accept wake")
    <3>1. co \in ServerIds
      <4>1. "accept" \notin ReaderPCs
        BY DEF ReaderPCs
      <4>2. QED
        BY <2>1, <4>1, FdRange
    <3>2. WaitsAt(co, "accept wake")
      BY <1>2, <2>1, <3>1 DEF PollsFirst, WaitsAt, WaitPCs, Woken, SameProgram, kernelVars
    <3>3. QED
      BY <3>2, WaitsInv
  <2>2. CASE pc[co] = "recv" /\ Goto(co, "recv wake")
    <3>1. co \notin ServerIds
      <4>1. "recv" \notin ServerPCs
        BY DEF ServerPCs
      <4>2. QED
        BY <2>2, <4>1, FdRange
    <3>2. WaitsAt(co, "recv wake")
      BY <1>2, <2>2, <3>1 DEF PollsFirst, WaitsAt, WaitPCs, Woken, SameProgram, kernelVars
    <3>3. QED
      BY <3>2, WaitsInv
  <2>3. CASE pc[co] = "accept hook" /\ Goto(co, "accept hook wake")
    <3>1. co \in ServerIds
      <4>1. "accept hook" \notin ReaderPCs
        BY DEF ReaderPCs
      <4>2. QED
        BY <2>3, <4>1, FdRange
    <3>2. WaitsAt(co, "accept hook wake")
      BY <1>2, <2>3, <3>1 DEF PollsFirst, WaitsAt, WaitPCs, Woken, SameProgram, kernelVars
    <3>3. QED
      BY <3>2, WaitsInv
  <2>4. CASE pc[co] = "recv hook" /\ Goto(co, "recv hook wake")
    <3>1. co \notin ServerIds
      <4>1. "recv hook" \notin ServerPCs
        BY DEF ServerPCs
      <4>2. QED
        BY <2>4, <4>1, FdRange
    <3>2. meant[co] # NoConn
      BY <2>4, <3>1, HoldsConn
    <3>3. WaitsAt(co, "recv hook wake")
      BY <1>2, <2>4, <3>1, <3>2 DEF PollsFirst, WaitsAt, WaitPCs, Woken, SameProgram, kernelVars
    <3>4. QED
      BY <3>3, WaitsInv
  <2>5. QED
    BY <1>2, <2>1, <2>2, <2>3, <2>4 DEF PollsFirst
<1>3. CASE Wakes(co)
  BY <1>3, WakesStep DEF IInv
<1>4. CASE co \in ServerIds /\ Spins(co)
  BY <1>4, SpinsStep DEF IInv
<1>5. CASE co \in ServerIds /\ Accepts(co)
  BY <1>5, AcceptsStep DEF IInv
<1>6. CASE co \in ServerIds /\ AcceptFails(co)
  BY <1>6, AcceptFailsStep DEF IInv
<1>7. CASE co \notin ServerIds /\ Starts(co)
  BY <1>7, StartsStep DEF IInv
<1>8. CASE co \notin ServerIds /\ Receives(co)
  <2>1. /\ co = running /\ pc[co] = "recv now"
        /\ UNCHANGED <<fd, cliFd, maker, meant, backlog, asked>>
        /\ \/ Goto(co, "send") /\ Goes /\ UNCHANGED open
           \/ Closes(co)
           \/ Goto(co, "recv") /\ Goes /\ UNCHANGED open
    BY <1>8 DEF Receives
  <2>2. CASE Closes(co)
    BY <1>8, <2>1, <2>2, ReaderCloses DEF IInv
  <2>3. CASE (Goto(co, "send") \/ Goto(co, "recv")) /\ Goes /\ UNCHANGED open
    BY <1>8, <2>1, <2>3, ReaderMoves DEF IInv, SameProgram
  <2>4. QED
    BY <2>1, <2>2, <2>3
<1>9. CASE co \notin ServerIds /\ Sends(co)
  <2>1. /\ co = running /\ pc[co] \in {"send", "send hook"} /\ SameProgram
    BY <1>9 DEF Sends, SameProgram
  <2>2. CASE Goto(co, "recv") /\ Goes
    BY <1>9, <2>1, <2>2, ReaderMoves DEF IInv
  <2>3. CASE SendWaits(co, "send hook wake")
    BY <1>9, <2>1, <2>3, ReaderWaits
  <2>4. QED
    BY <1>9, <2>2, <2>3 DEF Sends
<1>10. CASE co \notin ServerIds /\ SendFails(co)
  <2>1. /\ co = running /\ pc[co] \in {"send", "send hook"}
        /\ UNCHANGED <<fd, cliFd, maker, meant, backlog, asked>>
        /\ \/ UNCHANGED open /\ \E where \in {"send wake", "send hook wake"} : SendWaits(co, where)
           \/ Closes(co)
           \/ Goto(co, "recv") /\ Goes /\ UNCHANGED open
    BY <1>10 DEF SendFails, Returns
  <2>2. CASE Closes(co)
    BY <1>10, <2>1, <2>2, ReaderCloses DEF IInv
  <2>3. CASE Goto(co, "recv") /\ Goes /\ UNCHANGED open
    BY <1>10, <2>1, <2>3, ReaderMoves DEF IInv, SameProgram
  <2>4. CASE UNCHANGED open /\ \E where \in {"send wake", "send hook wake"} : SendWaits(co, where)
    BY <1>10, <2>1, <2>4, ReaderWaits DEF SameProgram
  <2>5. QED
    BY <2>1, <2>2, <2>3, <2>4
<1>11. QED
  BY <1>1, <1>2, <1>3, <1>4, <1>5, <1>6, <1>7, <1>8, <1>9, <1>10

\* Nobody but the peers acts after an assertion has failed.
LEMMA OnlyPeers == Schedule \/ Coroutine => ~failed
<1>1. Poll => ~failed
  BY DEF Poll, EpollWait, Scheduling
<1>2. TestDone \/ ResumeReady \/ NoEpollWait \/ ResumeWaiting \/ EventsDone => ~failed
  BY DEF TestDone, ResumeReady, NoEpollWait, ResumeWaiting, EventsDone, Scheduling
<1>3. Coroutine => ~failed
  BY DEF Coroutine, PollsFirst, Wakes, Spins, Accepts, AcceptFails, Starts, Receives, Sends,
         SendFails, At, Running
<1>4. QED
  BY <1>1, <1>2, <1>3 DEF Schedule

LEMMA ScheduleStep ==
    ASSUME Strong, Schedule
    PROVE  Strong' /\ ~failed'
<1>1. CASE Poll
  BY <1>1, PollStep
<1>2. CASE ResumeReady /\ UNCHANGED <<kernelVars, progVars>>
  BY <1>2, ResumeReadyStep
<1>3. CASE ResumeWaiting /\ UNCHANGED <<kernelVars, progVars>>
  BY <1>3, ResumeWaitingStep
<1>4. CASE (TestDone \/ NoEpollWait \/ EventsDone) /\ UNCHANGED <<kernelVars, progVars>>
  BY <1>4, TurnsStep
<1>5. QED
  BY <1>1, <1>2, <1>3, <1>4 DEF Schedule

LEMMA NextStep == IInv /\ [Next]_vars => IInv'
<1> SUFFICES ASSUME IInv, [Next]_vars PROVE IInv'
  OBVIOUS
<1>1. CASE Peer
  <2>1. CASE failed
    BY <1>1, <2>1, PeerKeeps DEF IInv
  <2>2. CASE ~failed
    BY <1>1, <2>2, PeerStep, PeerKeeps DEF IInv
  <2>3. QED
    BY <2>1, <2>2
<1>2. CASE Schedule
  BY <1>2, OnlyPeers, ScheduleStep DEF IInv
<1>3. CASE Coroutine
  BY <1>3, OnlyPeers, CoroutineStep DEF IInv
<1>4. CASE UNCHANGED vars
  <2>1. UNCHANGED <<schedVars, kernelVars, progVars>>
    BY <1>4 DEF vars
  <2>2. failed' = failed
    BY <2>1 DEF schedVars
  <2>3. Strong => Strong'
    <3>1. /\ phase' = phase /\ ready' = ready /\ last' = last /\ waiting' = waiting
          /\ interest' = interest /\ events' = events /\ running' = running /\ alive' = alive
          /\ eof' = eof /\ pc' = pc /\ fd' = fd /\ cliFd' = cliFd /\ maker' = maker
          /\ meant' = meant /\ open' = open /\ backlog' = backlog /\ asked' = asked
      BY <2>1 DEF schedVars, kernelVars, progVars
    <3>2. Conns' = Conns /\ Coroutines' = Coroutines
      BY <3>1 DEF Conns, Coroutines
    <3>3. Typed => Typed'
      BY <3>1, <3>2 DEF Typed
    <3>4. AliveSound /\ ReadySound => AliveSound' /\ ReadySound'
      BY <3>1, <3>2 DEF AliveSound, ReadySound
    <3>5. WaitSound /\ EventSound => WaitSound' /\ EventSound'
      BY <3>1 DEF WaitSound, EventSound
    <3>6. FdSound => FdSound'
      BY <3>1, <3>2 DEF FdSound, FdOf
    <3>7. LostSound /\ BacklogSound => LostSound' /\ BacklogSound'
      BY <3>1, <3>2 DEF LostSound, BacklogSound
    <3>8. StartSound => StartSound'
      BY <3>1 DEF StartSound, Begins
    <3>9. QED
      BY <3>3, <3>4, <3>5, <3>6, <3>7, <3>8 DEF Strong
  <2>4. TwoLost /\ RightDescriptor => TwoLost' /\ RightDescriptor'
    BY <2>1 DEF TwoLost, RightDescriptor, Readers, schedVars, kernelVars, progVars
  <2>5. QED
    BY <2>2, <2>3, <2>4 DEF IInv
<1>5. QED
  BY <1>1, <1>2, <1>3, <1>4 DEF Next
-----------------------------------------------------------------------------
(* The theorems *)

LEMMA Inductive == Spec => []IInv
<1>1. Init => IInv
  <2>1. Init => ~failed
    BY DEF Init, SchedInit
  <2>2. QED
    BY <2>1, InitStrong DEF IInv
<1>2. QED
  BY <1>1, NextStep, PTL DEF Spec

\* A reader reads the descriptor of its own connection from the cli_fd that it
\* shares with the other readers of its server, and no connection has two
\* readers or none (nty_server.c:55, 122).
THEOREM DescriptorCorrect == Spec => []RightDescriptor
<1>1. IInv => RightDescriptor
  BY StrongRight DEF IInv
<1>2. QED
  BY <1>1, Inductive, PTL

\* Until accept(2) has failed twice, the scheduler loses no coroutine, resumes
\* none from two places and uses none that was freed: the assertion of
\* nty_schedule_sched_wait can fail only then (nty_schedule.c:172).
THEOREM ScheduledUntilLost == Spec => [](Scheduled \/ TwoLost)
<1>1. IInv => Scheduled \/ TwoLost
  BY StrongScheduled DEF IInv
<1>2. QED
  BY <1>1, Inductive, PTL
-----------------------------------------------------------------------------
(* Descriptors enough, and one error of accept(2) at most *)

LEMMA IntervalSize ==
    ASSUME NEW a \in Nat, NEW n \in Nat
    PROVE  /\ IsFiniteSet(1..n) /\ Cardinality(1..n) = n
           /\ IsFiniteSet(a + 1..a + n) /\ Cardinality(a + 1..a + n) = n
<1>1. IsFiniteSet(1..n) /\ Cardinality(1..n) = IF 1 > n THEN 0 ELSE n - 1 + 1
  BY FS_Interval
<1>2. /\ IsFiniteSet(a + 1..a + n)
      /\ Cardinality(a + 1..a + n) = IF a + 1 > a + n THEN 0 ELSE a + n - (a + 1) + 1
  <2>1. a + 1 \in Int /\ a + n \in Int
    OBVIOUS
  <2>2. QED
    BY <2>1, FS_Interval
<1>3. (IF 1 > n THEN 0 ELSE n - 1 + 1) = n
  OBVIOUS
<1>4. (IF a + 1 > a + n THEN 0 ELSE a + n - (a + 1) + 1) = n
  OBVIOUS
<1>5. QED
  BY <1>1, <1>2, <1>3, <1>4

\* As many descriptors as connections: there is one for a connection that is to
\* be accepted.
LEMMA HasDescriptor ==
    ASSUME Strong, NEW s \in ServerIds, backlog[s] # <<>>, Len(asked) <= Fds
    PROVE  ConnFds \ DOMAIN open # {}
<1> DEFINE h == Head(backlog[s])
           T == Conns \ {h}
<1>1. Servers \in Nat /\ Fds \in Nat /\ Len(asked) \in Nat
  <2>1. asked \in Seq(Nat)
    BY DEF Strong, Typed
  <2>2. QED
    BY <2>1, NtyServerAssumption, LenProperties
<1>2. h \in Conns /\ \A r \in DOMAIN meant : meant[r] # h
  <2>1. backlog \in [ServerIds -> Seq(Nat)] /\ Pending(backlog, Conns, meant)
    BY DEF Strong, Typed, BacklogSound
  <2>2. QED
    BY <2>1, PendingTail
<1>3. \A f \in DOMAIN open : open[f] \in T
  <2>1. ASSUME NEW f \in DOMAIN open PROVE open[f] \in Conns /\ open[f] # h
    <3>1. PICK r \in alive : r > Servers /\ meant[r] = open[f]
      BY DEF Strong, FdSound
    <3>2. r \in DOMAIN meant
      BY <3>1, Numbers DEF Strong, Typed
    <3>3. QED
      BY <3>1, <3>2, <1>2 DEF Strong, FdSound
  <2>2. QED
    BY <2>1
<1>4. \A f, g \in DOMAIN open : open[f] = open[g] => f = g
  <2>1. ASSUME NEW f \in DOMAIN open, NEW g \in DOMAIN open, open[f] = open[g] PROVE f = g
    <3>1. PICK r \in alive : r > Servers /\ meant[r] = open[f] /\ FdOf(r) = f
      BY DEF Strong, FdSound
    <3>2. PICK q \in alive : q > Servers /\ meant[q] = open[g] /\ FdOf(q) = g
      BY DEF Strong, FdSound
    <3>3. r \in DOMAIN meant /\ q \in DOMAIN meant
      BY <3>1, <3>2, Numbers DEF Strong, Typed
    <3>4. meant[r] # NoConn
      <4>1. open[f] \in Conns
        BY DEF Strong, FdSound
      <4>2. QED
        BY <4>1, <3>1 DEF Conns, NoConn
    <3>5. r = q
      BY <2>1, <3>1, <3>2, <3>3, <3>4 DEF Strong, FdSound
    <3>6. QED
      BY <3>1, <3>2, <3>5
  <2>2. QED
    BY <2>1
<1>5. IsFiniteSet(T) /\ Cardinality(T) = Len(asked) - 1
  <2>1. IsFiniteSet(Conns) /\ Cardinality(Conns) = Len(asked)
    BY <1>1, IntervalSize DEF Conns
  <2>2. QED
    BY <2>1, <1>2, FS_RemoveElement
<1>6. IsFiniteSet(ConnFds) /\ Cardinality(ConnFds) = Fds
  <2>1. /\ IsFiniteSet(Servers + 1..Servers + Fds)
        /\ Cardinality(Servers + 1..Servers + Fds) = Fds
    BY <1>1, IntervalSize
  <2>2. QED
    BY <1>1, <2>1 DEF ConnFds
<1> HIDE DEF T, h
<1>7. ASSUME ConnFds \subseteq DOMAIN open PROVE FALSE
  <2> DEFINE g == [f \in ConnFds |-> open[f]]
  <2>1. g \in [ConnFds -> T] /\ \A x \in ConnFds : g[x] = open[x]
    BY <1>3, <1>7
  <2>2. Cardinality(T) < Cardinality(ConnFds)
    BY <1>1, <1>5, <1>6
  <2> HIDE DEF g
  <2>3. \E x, y \in ConnFds : x # y /\ g[x] = g[y]
    BY <1>5, <1>6, <2>1, <2>2, FS_PigeonHole
  <2>4. QED
    BY <2>1, <2>3, <1>4, <1>7
<1>8. QED
  BY <1>7

\* What has been lost: nothing before accept(2) has failed
FewLost ==
    /\ errors \in Nat /\ errors <= MaxErrors /\ Len(asked) <= MaxConns
    /\ errors = 0 => \A r \in Readers : meant[r] # NoConn
    /\ ~TwoLost

\* A reader that is created has a connection, unless the error is accept(2)'s.
Excused(c) == c # NoConn \/ (errors = 0 /\ errors' # 0)

LEMMA FewLostMade ==
    ASSUME Strong, FewLost, NEW s, NEW f, NEW c, MakesReader(s, f, c), Excused(c)
    PROVE  /\ errors' = 0 /\ errors = 0 => \A r \in Readers' : meant'[r] # NoConn
           /\ ~TwoLost'
<1>n. PICK new : new = Len(pc) + 1
  OBVIOUS
<1>1. meant' = With(meant, new, c) /\ new \notin Readers
  <2>1. Len(pc) \in Nat /\ \A r \in DOMAIN meant : r \in 1..Len(pc)
    BY Numbers DEF Coroutines
  <2>2. new \notin DOMAIN meant
    BY <2>1, <1>n
  <2>3. QED
    BY <2>2, <1>n DEF MakesReader, Readers
<1>2. /\ Readers' = Readers \cup {new} /\ meant'[new] = c
      /\ \A r \in Readers : meant'[r] = meant[r]
  <2>1. /\ DOMAIN meant' = DOMAIN meant \cup {new} /\ meant'[new] = c
        /\ \A r \in DOMAIN meant : r # new => meant'[r] = meant[r]
    BY <1>1 DEF With
  <2>2. Readers' = DOMAIN meant' /\ Readers = DOMAIN meant
    BY DEF Readers
  <2>3. \A r \in Readers : r # new
    BY <1>1
  <2>4. QED
    BY <2>1, <2>2, <2>3
<1>3. CASE c # NoConn
  BY <1>2, <1>3 DEF FewLost, TwoLost
<1>4. CASE errors = 0 /\ errors' # 0
  BY <1>2, <1>4 DEF FewLost, TwoLost
<1>5. QED
  BY <1>3, <1>4 DEF Excused

LEMMA FewLostStep ==
    ASSUME Fds >= MaxConns, MaxErrors <= 1, IInv, FewLost, [Next]_vars
    PROVE  FewLost'
<1>0. {MaxConns, MaxErrors, Fds} \subseteq Nat
  BY NtyServerAssumption
<1>1. ~failed /\ Strong
  BY DEF IInv, FewLost
<1>2. asked \in Seq(Nat) /\ Len(asked) \in Nat
  BY <1>1, LenProperties DEF Strong, Typed
<1>3. ASSUME NEW s \in ServerIds, s \in alive, AcceptFails(s)
      PROVE  FewLost'
  <2>1. /\ errors < MaxErrors /\ errors' = errors + 1 /\ asked' = asked
        /\ MakesReader(s, -1, NoConn)
    BY <1>3 DEF AcceptFails
  <2>2. errors = 0 /\ errors' = 1
    BY <1>0, <2>1 DEF FewLost
  <2>3. ~TwoLost'
    BY <1>1, <2>1, <2>2, FewLostMade DEF Excused
  <2>4. QED
    BY <1>0, <2>1, <2>2, <2>3 DEF FewLost
<1>4. ASSUME NEW s \in ServerIds, s \in alive, Accepts(s)
      PROVE  FewLost'
  <2> DEFINE free == ConnFds \ DOMAIN open
             f == CHOOSE g \in free : \A h \in free : g <= h
  <2>1. errors' = errors /\ asked' = asked
    BY <1>4 DEF Accepts
  <2>2. CASE backlog[s] = <<>>
    <3>1. meant' = meant
      BY <1>4, <2>2 DEF Accepts
    <3>2. Readers' = Readers
      BY <3>1 DEF Readers
    <3>3. TwoLost' <=> TwoLost
      BY <3>1, <3>2 DEF TwoLost
    <3>4. QED
      BY <2>1, <3>1, <3>2, <3>3 DEF FewLost
  <2>3. CASE backlog[s] # <<>>
    <3>1. free # {}
      BY <1>0, <1>1, <1>2, <2>3, HasDescriptor DEF FewLost
    <3>2. MakesReader(s, f, Head(backlog[s]))
      BY <1>4, <2>3, <3>1 DEF Accepts
    <3>3. Head(backlog[s]) # NoConn
      <4>1. backlog \in [ServerIds -> Seq(Nat)] /\ Pending(backlog, Conns, meant)
        BY <1>1 DEF Strong, Typed, BacklogSound
      <4>2. Head(backlog[s]) \in Conns
        BY <4>1, <2>3, PendingTail
      <4>3. QED
        BY <4>2 DEF Conns, NoConn
    <3> HIDE DEF f
    <3>4. /\ errors = 0 => \A r \in Readers' : meant'[r] # NoConn
          /\ ~TwoLost'
      BY <1>1, <2>1, <3>2, <3>3, FewLostMade DEF Excused
    <3>5. QED
      BY <2>1, <3>4 DEF FewLost
  <2>4. QED
    BY <2>2, <2>3
<1>5. ASSUME NEW s \in ServerIds, Connect(s)
      PROVE  FewLost'
  <2>1. meant' = meant /\ errors' = errors /\ asked' = Append(asked, 0) /\ Len(asked) < MaxConns
    BY <1>5 DEF Connect, progVars
  <2>2. Len(asked') = Len(asked) + 1
    BY <1>2, <2>1, AppendProperties
  <2>3. QED
    BY <1>0, <1>2, <2>1, <2>2 DEF FewLost, TwoLost, Readers
<1>6. ASSUME NEW c \in Conns, Ask(c)
      PROVE  FewLost'
  <2>1. meant' = meant /\ errors' = errors /\ asked' = [asked EXCEPT ![c] = @ + 1]
    BY <1>6 DEF Ask, progVars
  <2>2. asked[c] \in Nat
    BY <1>2, ElementOfSeq DEF Conns
  <2>3. Len(asked') = Len(asked)
    BY <1>2, <2>1, <2>2, ExceptSeq DEF Conns
  <2>4. QED
    BY <2>1, <2>3 DEF FewLost, TwoLost, Readers
<1>7. CASE UNCHANGED <<errors, asked, meant>>
  BY <1>7 DEF FewLost, TwoLost, Readers
<1>8. CASE Schedule \/ UNCHANGED vars
  BY <1>7, <1>8 DEF Schedule, Poll, vars, kernelVars, progVars
<1>9. ASSUME NEW co \in alive,
             \/ PollsFirst(co) \/ Wakes(co) \/ Spins(co)
             \/ Starts(co) \/ Receives(co) \/ Sends(co) \/ SendFails(co)
      PROVE  UNCHANGED <<errors, asked, meant>>
  BY <1>9 DEF PollsFirst, Wakes, Spins, Starts, Receives, Sends, SendFails, kernelVars
<1>10. CASE Coroutine
  BY <1>3, <1>4, <1>7, <1>9, <1>10 DEF Coroutine
<1>11. ASSUME NEW c \in Conns, ReadAnswer(c) \/ Leaves(c)
       PROVE  UNCHANGED <<errors, asked, meant>>
  BY <1>11 DEF ReadAnswer, Leaves, progVars
<1>12. CASE Peer
  BY <1>5, <1>6, <1>7, <1>11, <1>12 DEF Peer
<1>13. QED
  BY <1>8, <1>10, <1>12 DEF Next

\* The scheduler is correct at all times if there is a descriptor for every
\* connection and accept(2) fails once at most: NtyServer_noDescriptors.cfg shows
\* what happens else (nty_schedule.c:121-179, 306-358).
THEOREM SchedulerCorrect ==
    ASSUME Fds >= MaxConns, MaxErrors <= 1
    PROVE  Spec => []Scheduled
<1>1. Init => FewLost
  <2>1. Init => Readers = {} /\ errors = 0 /\ Len(asked) = 0
    BY DEF Init, Readers
  <2>2. QED
    BY <2>1, NtyServerAssumption DEF FewLost, TwoLost
<1>2. IInv /\ FewLost /\ [Next]_vars => FewLost'
  BY FewLostStep
<1>3. IInv /\ FewLost => Scheduled
  BY StrongScheduled DEF IInv, FewLost
<1>4. QED
  BY <1>1, <1>2, <1>3, Inductive, PTL DEF Spec
=============================================================================
