-------------------------- MODULE TimerQueue_proofs --------------------------
(***************************************************************************)
(* Theorems of TimerQueue, for every set of addresses, delays and          *)
(* intervals and every bound: the timers are accounted for, the timerfd is *)
(* set for the earliest, and a batch puts back what it may.                *)
(***************************************************************************)
EXTENDS TimerQueue, SequenceTheorems, FiniteSetTheorems, FunctionTheorems, TLAPS

Request == [op : {"add", "cancel"}, id : TimerIds]
Adds(f) == f.op = "add"

\* The timers that wait to be added, and those that are active.
Waiting(s) == \E k \in DOMAIN pendingFunctors :
                  Adds(pendingFunctors[k]) /\ pendingFunctors[k].id[2] = s
Active(s) == \E t \in activeTimers : t[2] = s

\* The types, those of the histories and of the queue included.
TypeInv ==
    /\ TypeOK
    /\ pendingFunctors \in Seq(Request)
    /\ runs \in [Sequences -> Nat]
    /\ cancelingTimers \subseteq ids

\* A sequence_ is given once: what lives at an address is what addTimer returned
\* for it, and no two addresses hold one sequence_.
HeapInv ==
    /\ \A a \in Addrs : heap[a] # 0 => <<a, heap[a]>> \in ids
    /\ \A i, j \in ids : i[2] = j[2] => i = j
    /\ \A i \in ids : i[2] <= created

\* The queue asks for each timer once, and for live ones only.
QueueInv ==
    /\ \A k \in DOMAIN pendingFunctors :
          LET f == pendingFunctors[k] IN
          f.id \in ids /\ (Adds(f) => heap[f.id[1]] = f.id[2])
    /\ \A k, l \in DOMAIN pendingFunctors :
          /\ Adds(pendingFunctors[k]) /\ Adds(pendingFunctors[l])
          /\ pendingFunctors[k].id[2] = pendingFunctors[l].id[2]
          => k = l

\* expired holds the timers of the batch, each once; there is no batch but in
\* handleRead.
BatchInv ==
    /\ ~calling => expired = <<>> /\ batch = {}
    /\ \A k \in DOMAIN expired : heap[expired[k]] \in batch
    /\ \A s \in batch : \E k \in DOMAIN expired : heap[expired[k]] = s
    /\ \A k, l \in DOMAIN expired : expired[k] = expired[l] => k = l

\* A live timer waits, is active or is in the batch, and only one of the three.
OwnerInv ==
    /\ \A a \in Addrs, s \in Sequences :
          heap[a] = s => Waiting(s) \/ Active(s) \/ s \in batch
    /\ \A s \in Sequences : /\ ~(Waiting(s) /\ Active(s))
                            /\ ~(Waiting(s) /\ s \in batch)
                            /\ ~(Active(s) /\ s \in batch)

AccountInv == TypeInv /\ HeapInv /\ QueueInv /\ SetsAgree /\ BatchInv /\ OwnerInv

\* No timer is as late as Off from now, nor asks for such an interval.
TimeBounds ==
    /\ \A s \in 0..MaxTimers : expiration[s] < now + Off /\ interval[s] < Off
    /\ readAt <= now

\* The timerfd fires in time, because Off is later than any timer.
TimeInv == TimeBounds /\ NoOversleep

\* What was cancelled neither waits nor is active, and reset does not start it.
CancelInv ==
    \A s \in cancelled :
        /\ s <= created /\ ~Waiting(s) /\ ~Active(s)
        /\ s \in batch => \E i \in cancelingTimers : i[2] = s

\* A one-shot timer that waits or is active has not run; the batch runs each of
\* its timers once.
RunInv ==
    /\ \A s \in Sequences : interval[s] = 0 => /\ runs[s] <= 1
                                               /\ Waiting(s) \/ Active(s) => runs[s] = 0
    /\ \A s \in Sequences : s > created => interval[s] = 0 /\ runs[s] = 0
    /\ \A k \in DOMAIN expired : LET s == heap[expired[k]] IN
          interval[s] = 0 => runs[s] = IF k < next THEN 1 ELSE 0
-----------------------------------------------------------------------------
(* The order of timers_ *)

\* A set of expirations has an earliest one.
LEMMA LeastNat ==
    ASSUME NEW S, S \subseteq Nat, S # {}
    PROVE  \E x \in S : \A y \in S : x <= y
<1> DEFINE R == OpToRel(<, Nat)
<1>1. IsWellFoundedOn(R, Nat)
  BY NatLessThanWellFounded, Zenon
<1>2. \A x, y \in Nat : y < x => <<y, x>> \in R
  BY DEF OpToRel
<1> HIDE DEF R
<1>3. \E x \in S : \A y \in S : ~ (<<y, x>> \in R)
  BY <1>1, WFMin, Zenon
<1>4. PICK x \in S : \A y \in S : ~ (<<y, x>> \in R)
  BY <1>3, Zenon
<1>5. ASSUME NEW y \in S PROVE x <= y
  <2>1. ~(y < x)
    BY <1>2, <1>4
  <2>2. x \in Nat /\ y \in Nat
    BY <1>4
  <2>3. QED
    BY <2>1, <2>2
<1>6. QED
  BY <1>5

\* timers_ is ordered totally and strictly.
LEMMA BeforeOrders ==
    ASSUME NEW S, S \subseteq Nat \X Addrs
    PROVE  /\ \A x \in S : ~Before(x, x)
           /\ \A x, y \in S : x = y \/ Before(x, y) \/ Before(y, x)
           /\ \A x, y, z \in S : Before(x, y) /\ Before(y, z) => Before(x, z)
<1>1. \A x \in S : x[1] \in Nat /\ x[2] \in Nat /\ x = <<x[1], x[2]>>
  <2>1. Addrs \subseteq Nat
    BY TimerQueueAssumption
  <2>2. \A x \in Nat \X Addrs : x[1] \in Nat /\ x[2] \in Addrs /\ x = <<x[1], x[2]>>
    OBVIOUS
  <2>3. QED
    BY <2>1, <2>2
<1>2. \A x \in S : ~Before(x, x)
  BY <1>1 DEF Before
<1>3. ASSUME NEW x \in S, NEW y \in S PROVE x = y \/ Before(x, y) \/ Before(y, x)
  <2>1. /\ x[1] \in Nat /\ x[2] \in Nat /\ y[1] \in Nat /\ y[2] \in Nat
        /\ x = <<x[1], x[2]>> /\ y = <<y[1], y[2]>>
    BY <1>1
  <2>2. CASE x[1] = y[1] /\ x[2] = y[2]
    BY <2>1, <2>2, Zenon
  <2>3. CASE ~(x[1] = y[1] /\ x[2] = y[2])
    BY <2>1, <2>3 DEF Before
  <2>4. QED
    BY <2>2, <2>3
<1>4. \A x, y, z \in S : Before(x, y) /\ Before(y, z) => Before(x, z)
  BY <1>1 DEF Before
<1>5. QED
  BY <1>2, <1>3, <1>4

\* A finite set of timers can be copied in its order: the place of a timer is
\* the number of those that are not after it.
LEMMA OrderExists ==
    ASSUME NEW S, S \subseteq Nat \X Addrs, IsFiniteSet(S)
    PROVE  \E s \in [1..Cardinality(S) -> S] :
              \A i, j \in DOMAIN s : i < j => Before(s[i], s[j])
<1> DEFINE n == Cardinality(S)
           Upto(x) == {y \in S : y = x \/ Before(y, x)}
           place == [x \in S |-> Cardinality(Upto(x))]
<1>1. n \in Nat
  BY FS_CardinalityType
<1>2. ASSUME NEW x \in S
      PROVE  IsFiniteSet(Upto(x)) /\ Cardinality(Upto(x)) \in 1..n
  <2>1. Upto(x) \in SUBSET S /\ x \in Upto(x)
    OBVIOUS
  <2>2. IsFiniteSet(Upto(x)) /\ Cardinality(Upto(x)) <= n
    BY <2>1, FS_Subset
  <2>3. Cardinality(Upto(x)) \in Nat
    BY <2>2, FS_CardinalityType
  <2>4. Cardinality(Upto(x)) # 0
    BY <2>1, <2>2, FS_EmptySet
  <2>5. QED
    BY <1>1, <2>2, <2>3, <2>4
<1>3. ASSUME NEW x \in S, NEW y \in S, Before(x, y)
      PROVE  Cardinality(Upto(x)) < Cardinality(Upto(y))
  <2>1. Upto(x) \in SUBSET Upto(y)
    BY <1>3, BeforeOrders
  <2>2. y \in Upto(y) /\ y \notin Upto(x)
    BY <1>3, BeforeOrders
  <2>3. IsFiniteSet(Upto(y)) /\ Cardinality(Upto(y)) \in Nat /\ Cardinality(Upto(x)) \in Nat
    BY <1>2
  <2>4. /\ Cardinality(Upto(x)) <= Cardinality(Upto(y))
        /\ Cardinality(Upto(y)) = Cardinality(Upto(x)) => Upto(y) = Upto(x)
    BY <2>1, <2>3, FS_Subset
  <2>5. QED
    BY <2>2, <2>3, <2>4
<1>4. place \in [S -> 1..n]
  BY <1>2
<1>5. \A x, y \in S : Before(x, y) => place[x] < place[y]
  BY <1>3
<1> HIDE DEF place, n
<1>6. ASSUME NEW x \in S, NEW y \in S, place[x] = place[y] PROVE x = y
  <2>1. ~(place[x] < place[y]) /\ ~(place[y] < place[x])
    BY <1>4, <1>1, <1>6
  <2>2. QED
    BY <1>5, <2>1, BeforeOrders
<1>7. place \in Injection(S, 1..n)
  BY <1>4, <1>6 DEF Injection, IsInjective
<1>8. IsFiniteSet(1..n) /\ Cardinality(1..n) = n
  BY <1>1, FS_Interval
<1>9. place \in Surjection(S, 1..n)
  BY <1>7, <1>8, FS_Injection DEF n
<1>10. \A i \in 1..n : \E x \in S : place[x] = i
  BY <1>9 DEF Surjection
<1> DEFINE s == [i \in 1..n |-> CHOOSE x \in S : place[x] = i]
<1>11. \A i \in 1..n : s[i] \in S /\ place[s[i]] = i
  BY <1>10
<1>12. s \in [1..n -> S] /\ DOMAIN s = 1..n
  BY <1>11
<1> HIDE DEF s
<1>13. ASSUME NEW i \in 1..n, NEW j \in 1..n, i < j PROVE Before(s[i], s[j])
  <2>1. s[i] \in S /\ s[j] \in S /\ place[s[i]] = i /\ place[s[j]] = j
    BY <1>11
  <2>2. s[i] # s[j] /\ ~Before(s[j], s[i])
    BY <2>1, <1>5, <1>13, <1>1
  <2>3. QED
    BY <2>1, <2>2, BeforeOrders
<1>14. \A i, j \in DOMAIN s : i < j => Before(s[i], s[j])
  BY <1>12, <1>13
<1>15. QED
  BY <1>12, <1>14 DEF n

\* getExpired copies every timer that is due, once.
LEMMA InOrderCopies ==
    ASSUME NEW S, S \subseteq Nat \X Addrs, IsFiniteSet(S)
    PROVE  /\ Cardinality(S) \in Nat
           /\ InOrder(S) \in [1..Cardinality(S) -> S]
           /\ \A i, j \in 1..Cardinality(S) : InOrder(S)[i] = InOrder(S)[j] => i = j
           /\ \A x \in S : \E i \in 1..Cardinality(S) : InOrder(S)[i] = x
<1> DEFINE n == Cardinality(S)
           s == InOrder(S)
<1>1. n \in Nat
  BY FS_CardinalityType
<1>2. s \in [1..n -> S] /\ \A i, j \in DOMAIN s : i < j => Before(s[i], s[j])
  BY OrderExists DEF InOrder
<1> HIDE DEF n, s
<1>3. ASSUME NEW i \in 1..n, NEW j \in 1..n, s[i] = s[j] PROVE i = j
  <2>1. s[i] \in S /\ s[j] \in S /\ DOMAIN s = 1..n
    BY <1>2
  <2>2. ~(i < j) /\ ~(j < i)
    BY <1>2, <1>3, <2>1, BeforeOrders
  <2>3. QED
    BY <1>1, <2>2
<1>4. s \in Injection(1..n, S)
  BY <1>2, <1>3 DEF Injection, IsInjective
<1>5. IsFiniteSet(1..n) /\ Cardinality(1..n) = n
  BY <1>1, FS_Interval
<1>6. s \in Surjection(1..n, S)
  BY <1>4, <1>5, FS_Injection DEF n
<1>7. \A x \in S : \E i \in 1..n : s[i] = x
  BY <1>6 DEF Surjection
<1>8. QED
  BY <1>1, <1>2, <1>3, <1>7 DEF n, s
LEMMA EarliestIsLeast ==
    ASSUME NEW ts, ts \subseteq Nat \X Addrs, ts # {}
    PROVE  /\ Earliest(ts) \in Nat
           /\ \A t \in ts : Earliest(ts) <= t[1]
           /\ \E t \in ts : t[1] = Earliest(ts)
<1> DEFINE S == {t[1] : t \in ts}
<1>1. S \subseteq Nat /\ S # {}
  OBVIOUS
<1>2. \E e \in S : \A y \in S : e <= y
  BY <1>1, LeastNat
<1>3. \E e \in S : \A t \in ts : e <= t[1]
  BY <1>2
<1>4. Earliest(ts) \in S /\ \A t \in ts : Earliest(ts) <= t[1]
  BY <1>3 DEF Earliest
<1>5. QED
  BY <1>1, <1>4
-----------------------------------------------------------------------------
(* Lemmas on the state *)

\* What the invariants say of a timer that waits, is active or is in the batch.
LEMMA LiveFacts ==
    ASSUME AccountInv
    PROVE  /\ \A t \in activeTimers : /\ t[1] \in Addrs /\ t[2] \in Sequences
                                      /\ t = <<t[1], t[2]>>
                                      /\ heap[t[1]] = t[2] /\ t \in ids
           /\ \A k \in DOMAIN expired : /\ expired[k] \in Addrs
                                        /\ heap[expired[k]] \in batch
                                        /\ heap[expired[k]] # 0
           /\ \A k \in DOMAIN pendingFunctors :
                 LET f == pendingFunctors[k] IN
                 f \in Request /\ f.id \in ids /\ f.id[1] \in Addrs /\ f.id[2] \in Sequences
           /\ \A a, b \in Addrs : heap[a] = heap[b] /\ heap[a] # 0 => a = b
           /\ \A s : (Waiting(s) \/ Active(s) \/ s \in batch) => s \in 1..created
<1>1. \A t \in TimerIds : t[1] \in Addrs /\ t[2] \in Sequences /\ t = <<t[1], t[2]>>
  BY DEF TimerIds
<1>2. 0 \notin Sequences
  BY DEF Sequences
<1>3. ids \subseteq TimerIds /\ created \in 0..MaxTimers /\ heap \in [Addrs -> 0..MaxTimers]
  BY DEF AccountInv, TypeInv, TypeOK
<1>4. ASSUME NEW a \in Addrs, heap[a] # 0
      PROVE  <<a, heap[a]>> \in ids /\ heap[a] \in 1..created
  <2>1. <<a, heap[a]>> \in ids
    BY <1>4 DEF AccountInv, HeapInv
  <2>2. <<a, heap[a]>>[2] <= created
    BY <2>1 DEF AccountInv, HeapInv
  <2>3. heap[a] \in 0..MaxTimers
    BY <1>3
  <2>4. QED
    BY <1>3, <1>4, <2>1, <2>2, <2>3
<1>5. ASSUME NEW t \in activeTimers
      PROVE  /\ t[1] \in Addrs /\ t[2] \in Sequences
             /\ t = <<t[1], t[2]>>
             /\ heap[t[1]] = t[2] /\ t \in ids /\ t[2] \in 1..created
  <2>1. t \in TimerIds
    BY DEF AccountInv, TypeInv, TypeOK
  <2>2. heap[t[1]] = t[2]
    BY DEF AccountInv, SetsAgree
  <2>3. heap[t[1]] # 0
    BY <1>1, <1>2, <2>1, <2>2
  <2>4. <<t[1], t[2]>> \in ids /\ t[2] \in 1..created
    BY <1>1, <1>4, <2>1, <2>2, <2>3
  <2>5. QED
    BY <1>1, <2>1, <2>2, <2>4
<1>6. ASSUME NEW k \in DOMAIN expired
      PROVE  expired[k] \in Addrs /\ heap[expired[k]] \in batch /\ heap[expired[k]] # 0
  <2>1. expired \in Seq(Addrs) /\ batch \subseteq Sequences
    BY DEF AccountInv, TypeInv, TypeOK
  <2>2. expired[k] \in Addrs
    BY <2>1, ElementOfSeq, LenProperties
  <2>3. heap[expired[k]] \in batch
    BY DEF AccountInv, BatchInv
  <2>4. QED
    BY <1>2, <2>1, <2>2, <2>3
<1>7. ASSUME NEW k \in DOMAIN pendingFunctors
      PROVE  /\ pendingFunctors[k] \in Request /\ pendingFunctors[k].id \in ids
             /\ pendingFunctors[k].id[1] \in Addrs /\ pendingFunctors[k].id[2] \in Sequences
  <2>1. pendingFunctors \in Seq(Request)
    BY DEF AccountInv, TypeInv
  <2>2. pendingFunctors[k] \in Request
    BY <2>1, ElementOfSeq, LenProperties
  <2>3. pendingFunctors[k].id \in ids
    BY DEF AccountInv, QueueInv
  <2>4. QED
    BY <1>1, <1>3, <2>2, <2>3
<1>8. ASSUME NEW a \in Addrs, NEW b \in Addrs, heap[a] = heap[b], heap[a] # 0 PROVE a = b
  <2>1. <<a, heap[a]>> \in ids /\ <<b, heap[b]>> \in ids
    BY <1>4, <1>8
  <2>2. <<a, heap[a]>> = <<b, heap[b]>>
    BY <2>1, <1>8 DEF AccountInv, HeapInv
  <2>3. QED
    BY <2>2
<1>9. ASSUME NEW s, Waiting(s) \/ Active(s) \/ s \in batch PROVE s \in 1..created
  <2>1. CASE Waiting(s)
    <3>1. PICK k \in DOMAIN pendingFunctors : pendingFunctors[k].id[2] = s
      BY <2>1 DEF Waiting
    <3>2. pendingFunctors[k].id[2] <= created /\ s \in Sequences
      BY <1>7, <3>1 DEF AccountInv, HeapInv
    <3>3. QED
      BY <1>3, <3>1, <3>2 DEF Sequences
  <2>2. CASE Active(s)
    BY <1>5, <2>2 DEF Active
  <2>3. CASE s \in batch
    <3>1. PICK k \in DOMAIN expired : heap[expired[k]] = s
      BY <2>3 DEF AccountInv, BatchInv
    <3>2. QED
      BY <1>4, <1>6, <3>1
  <2>4. QED
    BY <1>9, <2>1, <2>2, <2>3
<1>10. QED
  BY <1>5, <1>6, <1>7, <1>8, <1>9

\* An event that leaves the queue alone leaves alone who waits; a timer that is
\* not the first request of a queue still waits when that one is taken.
LEMMA QueueTail ==
    ASSUME pendingFunctors \in Seq(Request), pendingFunctors # <<>>,
           pendingFunctors' = Tail(pendingFunctors)
    PROVE  /\ pendingFunctors' \in Seq(Request)
           /\ 1 \in DOMAIN pendingFunctors /\ Head(pendingFunctors) = pendingFunctors[1]
           /\ \A k \in DOMAIN pendingFunctors' :
                 /\ k + 1 \in DOMAIN pendingFunctors
                 /\ pendingFunctors'[k] = pendingFunctors[k + 1]
           /\ \A k \in DOMAIN pendingFunctors :
                 k # 1 => k - 1 \in DOMAIN pendingFunctors' /\ k \in Nat
<1>1. Len(pendingFunctors) \in Nat \ {0} /\ DOMAIN pendingFunctors = 1..Len(pendingFunctors)
  BY EmptySeq, LenProperties
<1>2. /\ pendingFunctors' \in Seq(Request) /\ Len(pendingFunctors') = Len(pendingFunctors) - 1
      /\ \A k \in 1..Len(pendingFunctors') : pendingFunctors'[k] = pendingFunctors[k + 1]
      /\ DOMAIN pendingFunctors' = 1..Len(pendingFunctors')
  BY HeadTailProperties, LenProperties
<1>3. Head(pendingFunctors) = pendingFunctors[1]
  BY HeadTailProperties
<1>4. QED
  BY <1>1, <1>2, <1>3

LEMMA QueueAppend ==
    ASSUME pendingFunctors \in Seq(Request), NEW f \in Request,
           pendingFunctors' = Append(pendingFunctors, f)
    PROVE  /\ pendingFunctors' \in Seq(Request)
           /\ \A k \in DOMAIN pendingFunctors :
                 /\ k \in DOMAIN pendingFunctors' /\ pendingFunctors'[k] = pendingFunctors[k]
                 /\ k # Len(pendingFunctors) + 1
           /\ Len(pendingFunctors) + 1 \in DOMAIN pendingFunctors'
           /\ pendingFunctors'[Len(pendingFunctors) + 1] = f
           /\ \A k \in DOMAIN pendingFunctors' :
                 k \in DOMAIN pendingFunctors \/ k = Len(pendingFunctors) + 1
<1>1. Len(pendingFunctors) \in Nat /\ DOMAIN pendingFunctors = 1..Len(pendingFunctors)
  BY LenProperties
<1>2. /\ pendingFunctors' \in Seq(Request) /\ Len(pendingFunctors') = Len(pendingFunctors) + 1
      /\ \A k \in 1..Len(pendingFunctors) : pendingFunctors'[k] = pendingFunctors[k]
      /\ pendingFunctors'[Len(pendingFunctors) + 1] = f
      /\ DOMAIN pendingFunctors' = 1..Len(pendingFunctors')
  BY AppendProperties, LenProperties
<1>3. QED
  BY <1>1, <1>2
-----------------------------------------------------------------------------
(* addTimer *)

\* What new Timer(cb, when, interval) does.
LEMMA NewTimerFacts ==
    ASSUME AccountInv, NEW a \in Addrs, NEW when \in Nat, NEW i \in Nat, NewTimer(a, when, i)
    PROVE  /\ created' = created + 1 /\ created' \in 1..MaxTimers
           /\ heap[a] = 0
           /\ heap' \in [Addrs -> 0..MaxTimers]
           /\ heap'[a] = created'
           /\ \A b \in Addrs : b # a => heap'[b] = heap[b]
           /\ expiration' \in [0..MaxTimers -> Nat] /\ interval' \in [0..MaxTimers -> Nat]
           /\ expiration'[created'] = when /\ interval'[created'] = i
           /\ \A s \in 0..MaxTimers : s # created' =>
                 expiration'[s] = expiration[s] /\ interval'[s] = interval[s]
           /\ ids' = ids \cup {<<a, created'>>} /\ ids' \subseteq TimerIds
           /\ HeapInv'
<1>1. /\ created \in 0..MaxTimers /\ heap \in [Addrs -> 0..MaxTimers] /\ ids \subseteq TimerIds
      /\ expiration \in [0..MaxTimers -> Nat] /\ interval \in [0..MaxTimers -> Nat]
  BY DEF AccountInv, TypeInv, TypeOK
<1>2. created' = created + 1 /\ created' \in 1..MaxTimers /\ heap[a] = 0
  BY <1>1, TimerQueueAssumption DEF NewTimer
<1>3. /\ heap' = [heap EXCEPT ![a] = created']
      /\ expiration' = [expiration EXCEPT ![created'] = when]
      /\ interval' = [interval EXCEPT ![created'] = i]
      /\ ids' = ids \cup {<<a, created'>>}
  BY DEF NewTimer
<1>4. heap' \in [Addrs -> 0..MaxTimers] /\ heap'[a] = created'
      /\ \A b \in Addrs : b # a => heap'[b] = heap[b]
  BY <1>1, <1>2, <1>3
<1>5. /\ expiration' \in [0..MaxTimers -> Nat] /\ interval' \in [0..MaxTimers -> Nat]
      /\ expiration'[created'] = when /\ interval'[created'] = i
      /\ \A s \in 0..MaxTimers : s # created' =>
            expiration'[s] = expiration[s] /\ interval'[s] = interval[s]
  BY <1>1, <1>2, <1>3
<1>6. ids' \subseteq TimerIds
  BY <1>1, <1>2, <1>3 DEF TimerIds, Sequences
<1>7. HeapInv'
  <2>1. ASSUME NEW b \in Addrs, heap'[b] # 0 PROVE <<b, heap'[b]>> \in ids'
    <3>1. CASE b = a
      BY <1>3, <1>4, <3>1
    <3>2. CASE b # a
      BY <1>3, <1>4, <2>1, <3>2 DEF AccountInv, HeapInv
    <3>3. QED
      BY <3>1, <3>2
  <2>2. \A j \in ids : j[2] # created'
    <3>1. \A j \in ids : j[2] \in Sequences /\ j[2] <= created
      BY <1>1 DEF AccountInv, HeapInv, TimerIds
    <3>2. QED
      BY <1>1, <1>2, <3>1 DEF Sequences
  <2>3. \A j, k \in ids' : j[2] = k[2] => j = k
    BY <1>3, <2>2 DEF AccountInv, HeapInv
  <2>4. ASSUME NEW j \in ids' PROVE j[2] <= created'
    <3>1. CASE j \in ids
      <4>1. j[2] \in Sequences /\ j[2] <= created
        BY <1>1, <3>1 DEF AccountInv, HeapInv, TimerIds
      <4>2. QED
        BY <1>1, <1>2, <4>1 DEF Sequences
    <3>2. CASE j = <<a, created'>>
      BY <1>2, <3>2
    <3>3. QED
      BY <1>3, <3>1, <3>2
  <2>5. QED
    BY <2>1, <2>3, <2>4 DEF HeapInv
<1>8. QED
  BY <1>2, <1>3, <1>4, <1>5, <1>6, <1>7

\* The clock, a delay and an interval are numbers.
LEMMA DelayFacts ==
    ASSUME AccountInv, NEW d \in Delays, NEW i \in Intervals
    PROVE  now \in 0..MaxNow /\ d \in Nat /\ i \in Nat /\ now + d \in Nat
<1>1. now \in 0..MaxNow /\ MaxNow \in Nat
  <2>1. TypeOK
    BY DEF AccountInv, TypeInv
  <2>2. QED
    BY <2>1, TimerQueueAssumption DEF TypeOK
<1>2. d \in Nat /\ i \in Nat
  BY TimerQueueAssumption
<1>3. QED
  BY <1>1, <1>2

LEMMA AddTimerAccounts ==
    ASSUME AccountInv, NEW a \in Addrs, NEW d \in Delays, NEW i \in Intervals, AddTimer(a, d, i)
    PROVE  AccountInv'
<1> DEFINE s == created'
           when == now + d
<1>1. now \in 0..MaxNow /\ d \in Nat /\ i \in Nat /\ when \in Nat
  BY DelayFacts
<1>2. /\ s = created + 1 /\ s \in 1..MaxTimers /\ heap[a] = 0
      /\ heap' \in [Addrs -> 0..MaxTimers] /\ heap'[a] = s
      /\ \A b \in Addrs : b # a => heap'[b] = heap[b]
      /\ expiration' \in [0..MaxTimers -> Nat] /\ interval' \in [0..MaxTimers -> Nat]
      /\ expiration'[s] = when
      /\ \A r \in 0..MaxTimers : r # s => expiration'[r] = expiration[r]
      /\ ids' = ids \cup {<<a, s>>} /\ ids' \subseteq TimerIds
      /\ HeapInv'
  BY <1>1, NewTimerFacts DEF AddTimer
<1>3. /\ timers' = timers \cup {<<when, a>>}
      /\ activeTimers' = activeTimers \cup {<<a, s>>}
      /\ armed' = IF EarliestChanged(when, timers) THEN HowMuchTimeFromNow(when) ELSE armed
  BY DEF AddTimer, AddTimerInLoop
<1>4. UNCHANGED <<now, active, cancelingTimers, calling, readAt, expired, next, batch,
                  pendingFunctors, runs, cancels, cancelled>>
  BY DEF AddTimer, batchVars
<1> HIDE DEF when
<1>5. TypeOK /\ TypeInv
  BY DEF AccountInv, TypeInv
<1>6. TypeInv'
  <2>1. armed' \in Nat
    BY <1>1, <1>3, <1>5 DEF TypeOK, HowMuchTimeFromNow
  <2>2. timers' \subseteq Nat \X Addrs /\ activeTimers' \subseteq TimerIds
    BY <1>1, <1>2, <1>3, <1>5, SMTT(60) DEF TypeOK, TimerIds, Sequences
  <2>3. s \in 0..MaxTimers
    BY <1>2
  <2>4. TypeOK'
    BY <1>2, <1>4, <1>5, <2>1, <2>2, <2>3 DEF TypeOK
  <2>5. QED
    BY <1>2, <1>4, <1>5, <2>4 DEF TypeInv
<1>7. \A r : (Waiting(r) \/ Active(r) \/ r \in batch) => r # s /\ r \in 1..created
  <2>1. created \in Nat
    BY <1>5 DEF TypeOK
  <2>2. QED
    BY <1>2, <2>1, LiveFacts
<1>8. QueueInv'
  <2>1. ASSUME NEW k \in DOMAIN pendingFunctors
        PROVE  /\ pendingFunctors[k].id \in ids'
               /\ Adds(pendingFunctors[k]) =>
                     heap'[pendingFunctors[k].id[1]] = pendingFunctors[k].id[2]
    <3>1. /\ pendingFunctors[k].id \in ids /\ pendingFunctors[k].id[1] \in Addrs
          /\ pendingFunctors[k].id[2] # 0
      BY LiveFacts DEF Sequences
    <3>2. Adds(pendingFunctors[k]) => heap[pendingFunctors[k].id[1]] = pendingFunctors[k].id[2]
      BY DEF AccountInv, QueueInv
    <3>3. QED
      BY <1>2, <3>1, <3>2
  <2>2. QED
    BY <1>4, <2>1 DEF AccountInv, QueueInv
<1>9. \A t \in activeTimers : t[1] \in Addrs /\ t[1] # a /\ t[2] # s /\ t[2] \in 0..MaxTimers
                              /\ heap[t[1]] = t[2]
  BY <1>2, <1>7, LiveFacts DEF Sequences, Active
<1>10. SetsAgree'
  <2>1. \A t \in activeTimers : <<expiration'[t[2]], t[1]>> = <<expiration[t[2]], t[1]>>
    BY <1>2, <1>9
  <2>2. <<expiration'[<<a, s>>[2]], <<a, s>>[1]>> = <<when, a>>
    BY <1>2
  <2>3. timers = {<<expiration[t[2]], t[1]>> : t \in activeTimers}
    BY DEF AccountInv, SetsAgree
  <2>4. timers' = {<<expiration'[t[2]], t[1]>> : t \in activeTimers'}
    <3>1. ASSUME NEW p \in timers'
          PROVE  p \in {<<expiration'[t[2]], t[1]>> : t \in activeTimers'}
      <4>1. CASE p \in timers
        <5>1. PICK t \in activeTimers : p = <<expiration[t[2]], t[1]>>
          BY <2>3, <4>1
        <5>2. t \in activeTimers' /\ p = <<expiration'[t[2]], t[1]>>
          BY <1>3, <2>1, <5>1
        <5>3. QED
          BY <5>2
      <4>2. CASE p = <<when, a>>
        <5>1. <<a, s>> \in activeTimers' /\ p = <<expiration'[<<a, s>>[2]], <<a, s>>[1]>>
          BY <1>3, <2>2, <4>2
        <5>2. QED
          BY <5>1
      <4>3. QED
        BY <1>3, <4>1, <4>2
    <3>2. ASSUME NEW t \in activeTimers'
          PROVE  <<expiration'[t[2]], t[1]>> \in timers'
      <4>1. CASE t \in activeTimers
        <5>1. <<expiration[t[2]], t[1]>> \in timers
          BY <2>3, <4>1
        <5>2. QED
          BY <1>3, <2>1, <4>1, <5>1
      <4>2. CASE t = <<a, s>>
        BY <1>3, <2>2, <4>2
      <4>3. QED
        BY <1>3, <4>1, <4>2
    <3>3. QED
      BY <3>1, <3>2
  <2>5. \A t \in activeTimers' : heap'[t[1]] = t[2]
    BY <1>2, <1>3, <1>9
  <2>6. QED
    BY <2>4, <2>5 DEF SetsAgree
<1>11. \A k \in DOMAIN expired : heap'[expired[k]] = heap[expired[k]]
  BY <1>2, LiveFacts
<1>12. BatchInv'
  BY <1>4, <1>11 DEF AccountInv, BatchInv
<1>13. /\ \A r : Waiting(r)' <=> Waiting(r)
       /\ \A r : Active(r)' <=> Active(r) \/ r = s
  <2>1. \A r : Waiting(r)' <=> Waiting(r)
    BY <1>4 DEF Waiting
  <2>2. <<a, s>>[2] = s
    OBVIOUS
  <2>3. \A r : Active(r)' <=> Active(r) \/ r = s
    BY <1>3, <2>2, Zenon DEF Active
  <2>4. QED
    BY <2>1, <2>3
<1>14. OwnerInv'
  <2>1. ASSUME NEW b \in Addrs, NEW r \in Sequences, heap'[b] = r
        PROVE  Waiting(r)' \/ Active(r)' \/ r \in batch'
    <3>1. CASE b = a
      BY <1>2, <1>13, <2>1, <3>1
    <3>2. CASE b # a
      BY <1>2, <1>4, <1>13, <2>1, <3>2 DEF AccountInv, OwnerInv
    <3>3. QED
      BY <3>1, <3>2
  <2>2. \A r \in Sequences : /\ ~(Waiting(r)' /\ Active(r)')
                             /\ ~(Waiting(r)' /\ r \in batch')
                             /\ ~(Active(r)' /\ r \in batch')
    BY <1>4, <1>7, <1>13 DEF AccountInv, OwnerInv
  <2>3. QED
    BY <2>1, <2>2 DEF OwnerInv
<1>15. QED
  BY <1>2, <1>6, <1>8, <1>10, <1>12, <1>14 DEF AccountInv

LEMMA AddTimerForeignAccounts ==
    ASSUME AccountInv, NEW a \in Addrs, NEW d \in Delays, NEW i \in Intervals,
           AddTimerForeign(a, d, i)
    PROVE  AccountInv'
<1> DEFINE s == created'
           f == [op |-> "add", id |-> <<a, s>>]
           last == Len(pendingFunctors) + 1
<1>1. now \in 0..MaxNow /\ d \in Nat /\ i \in Nat /\ now + d \in Nat
  BY DelayFacts
<1>2. /\ s = created + 1 /\ s \in 1..MaxTimers /\ heap[a] = 0
      /\ heap' \in [Addrs -> 0..MaxTimers] /\ heap'[a] = s
      /\ \A b \in Addrs : b # a => heap'[b] = heap[b]
      /\ expiration' \in [0..MaxTimers -> Nat] /\ interval' \in [0..MaxTimers -> Nat]
      /\ \A r \in 0..MaxTimers : r # s => expiration'[r] = expiration[r]
      /\ ids' = ids \cup {<<a, s>>} /\ ids' \subseteq TimerIds
      /\ HeapInv'
  BY <1>1, NewTimerFacts DEF AddTimerForeign
<1>3. pendingFunctors' = Append(pendingFunctors, f)
  BY DEF AddTimerForeign
<1>4. UNCHANGED <<now, armed, active, timers, activeTimers, cancelingTimers, calling, readAt,
                  expired, next, batch, runs, cancels, cancelled>>
  BY DEF AddTimerForeign, batchVars, setVars
<1>5. TypeOK /\ TypeInv
  BY DEF AccountInv, TypeInv
<1>6. f \in Request /\ Adds(f) /\ f.id = <<a, s>> /\ f.id[1] = a /\ f.id[2] = s
  BY <1>2 DEF Request, TimerIds, Sequences, Adds
<1> HIDE DEF f, last
<1>7. /\ pendingFunctors' \in Seq(Request)
      /\ \A k \in DOMAIN pendingFunctors :
            k \in DOMAIN pendingFunctors' /\ pendingFunctors'[k] = pendingFunctors[k] /\ k # last
      /\ last \in DOMAIN pendingFunctors' /\ pendingFunctors'[last] = f
      /\ \A k \in DOMAIN pendingFunctors' : k \in DOMAIN pendingFunctors \/ k = last
  BY <1>3, <1>5, <1>6, QueueAppend DEF last, TypeInv
<1>8. TypeInv'
  <2>1. s \in 0..MaxTimers
    BY <1>2
  <2>2. TypeOK'
    BY <1>2, <1>4, <1>5, <2>1 DEF TypeOK
  <2>3. QED
    BY <1>2, <1>4, <1>5, <1>7, <2>2 DEF TypeInv
<1>9. \A r : (Waiting(r) \/ Active(r) \/ r \in batch) => r # s /\ r \in 1..created
  <2>1. created \in Nat
    BY <1>5 DEF TypeOK
  <2>2. QED
    BY <1>2, <2>1, LiveFacts
<1>10. ASSUME NEW k \in DOMAIN pendingFunctors
       PROVE  /\ pendingFunctors[k].id \in ids'
              /\ Adds(pendingFunctors[k]) =>
                    /\ heap'[pendingFunctors[k].id[1]] = pendingFunctors[k].id[2]
                    /\ pendingFunctors[k].id[2] # s
  <2>1. /\ pendingFunctors[k].id \in ids /\ pendingFunctors[k].id[1] \in Addrs
        /\ pendingFunctors[k].id[2] # 0
    BY LiveFacts DEF Sequences
  <2>2. Adds(pendingFunctors[k]) => heap[pendingFunctors[k].id[1]] = pendingFunctors[k].id[2]
    BY DEF AccountInv, QueueInv
  <2>3. Adds(pendingFunctors[k]) => pendingFunctors[k].id[2] # s
    BY <1>9 DEF Waiting
  <2>4. QED
    BY <1>2, <2>1, <2>2, <2>3
<1>11. QueueInv'
  <2>1. ASSUME NEW k \in DOMAIN pendingFunctors'
        PROVE  /\ pendingFunctors'[k].id \in ids'
               /\ Adds(pendingFunctors'[k]) =>
                     heap'[pendingFunctors'[k].id[1]] = pendingFunctors'[k].id[2]
    <3>1. CASE k \in DOMAIN pendingFunctors
      BY <1>7, <1>10, <3>1
    <3>2. CASE k = last
      BY <1>2, <1>6, <1>7, <3>2
    <3>3. QED
      BY <1>7, <3>1, <3>2
  <2>2. ASSUME NEW k \in DOMAIN pendingFunctors', NEW l \in DOMAIN pendingFunctors',
               Adds(pendingFunctors'[k]), Adds(pendingFunctors'[l]),
               pendingFunctors'[k].id[2] = pendingFunctors'[l].id[2]
        PROVE  k = l
    <3>1. CASE k \in DOMAIN pendingFunctors /\ l \in DOMAIN pendingFunctors
      BY <1>7, <2>2, <3>1 DEF AccountInv, QueueInv
    <3>2. CASE k \in DOMAIN pendingFunctors /\ l = last
      BY <1>6, <1>7, <1>10, <2>2, <3>2
    <3>3. CASE k = last /\ l \in DOMAIN pendingFunctors
      BY <1>6, <1>7, <1>10, <2>2, <3>3
    <3>4. CASE k = last /\ l = last
      BY <3>4
    <3>5. QED
      BY <1>7, <3>1, <3>2, <3>3, <3>4
  <2>3. QED
    BY <2>1, <2>2 DEF QueueInv
<1>12. \A t \in activeTimers : t[1] \in Addrs /\ t[1] # a /\ t[2] # s /\ t[2] \in 0..MaxTimers
                               /\ heap[t[1]] = t[2]
  BY <1>2, <1>9, LiveFacts DEF Sequences, Active
<1>13. SetsAgree'
  <2>1. \A t \in activeTimers : <<expiration'[t[2]], t[1]>> = <<expiration[t[2]], t[1]>>
    BY <1>2, <1>12
  <2>2. timers = {<<expiration[t[2]], t[1]>> : t \in activeTimers}
    BY DEF AccountInv, SetsAgree
  <2>3. timers' = {<<expiration'[t[2]], t[1]>> : t \in activeTimers'}
    BY <1>4, <2>1, <2>2
  <2>4. \A t \in activeTimers' : heap'[t[1]] = t[2]
    BY <1>2, <1>4, <1>12
  <2>5. QED
    BY <2>3, <2>4 DEF SetsAgree
<1>14. \A k \in DOMAIN expired : heap'[expired[k]] = heap[expired[k]]
  BY <1>2, LiveFacts
<1>15. BatchInv'
  BY <1>4, <1>14 DEF AccountInv, BatchInv
<1>16. \A r : Active(r)' <=> Active(r)
  BY <1>4 DEF Active
<1>17. \A r : Waiting(r)' <=> Waiting(r) \/ r = s
  <2>1. ASSUME NEW r, Waiting(r)' PROVE Waiting(r) \/ r = s
    <3>1. PICK k \in DOMAIN pendingFunctors' :
             Adds(pendingFunctors'[k]) /\ pendingFunctors'[k].id[2] = r
      BY <2>1 DEF Waiting
    <3>2. QED
      BY <1>6, <1>7, <3>1 DEF Waiting
  <2>2. ASSUME NEW r, Waiting(r) PROVE Waiting(r)'
    <3>1. PICK k \in DOMAIN pendingFunctors :
             Adds(pendingFunctors[k]) /\ pendingFunctors[k].id[2] = r
      BY <2>2 DEF Waiting
    <3>2. QED
      BY <1>7, <3>1 DEF Waiting
  <2>3. ASSUME NEW r, r = s PROVE Waiting(r)'
    BY <1>6, <1>7, <2>3 DEF Waiting
  <2>4. QED
    BY <2>1, <2>2, <2>3
<1>18. OwnerInv'
  <2>1. ASSUME NEW b \in Addrs, NEW r \in Sequences, heap'[b] = r
        PROVE  Waiting(r)' \/ Active(r)' \/ r \in batch'
    <3>1. CASE b = a
      BY <1>2, <1>17, <2>1, <3>1
    <3>2. CASE b # a
      BY <1>2, <1>4, <1>16, <1>17, <2>1, <3>2 DEF AccountInv, OwnerInv
    <3>3. QED
      BY <3>1, <3>2
  <2>2. \A r \in Sequences : /\ ~(Waiting(r)' /\ Active(r)')
                             /\ ~(Waiting(r)' /\ r \in batch')
                             /\ ~(Active(r)' /\ r \in batch')
    BY <1>4, <1>9, <1>16, <1>17 DEF AccountInv, OwnerInv
  <2>3. QED
    BY <2>1, <2>2 DEF OwnerInv
<1>19. QED
  BY <1>2, <1>8, <1>11, <1>13, <1>15, <1>18 DEF AccountInv
-----------------------------------------------------------------------------
(* cancel *)

LEMMA CancelForeignAccounts ==
    ASSUME AccountInv, NEW id \in ids, CancelForeign(id)
    PROVE  AccountInv'
<1> DEFINE f == [op |-> "cancel", id |-> id]
           last == Len(pendingFunctors) + 1
<1>1. pendingFunctors' = Append(pendingFunctors, f)
  BY DEF CancelForeign
<1>2. UNCHANGED <<now, armed, active, created, heap, expiration, interval, timers, activeTimers,
                  cancelingTimers, calling, readAt, expired, next, batch, ids, runs, cancelled>>
  BY DEF CancelForeign, batchVars, setVars, timerVars
<1>3. TypeOK /\ TypeInv
  BY DEF AccountInv, TypeInv
<1>4. f \in Request /\ ~Adds(f) /\ f.id = id
  BY <1>3 DEF Request, Adds, TypeOK
<1> HIDE DEF f, last
<1>5. /\ pendingFunctors' \in Seq(Request)
      /\ \A k \in DOMAIN pendingFunctors :
            k \in DOMAIN pendingFunctors' /\ pendingFunctors'[k] = pendingFunctors[k] /\ k # last
      /\ last \in DOMAIN pendingFunctors' /\ pendingFunctors'[last] = f
      /\ \A k \in DOMAIN pendingFunctors' : k \in DOMAIN pendingFunctors \/ k = last
  BY <1>1, <1>3, <1>4, QueueAppend DEF last, TypeInv
<1>6. TypeInv'
  <2>1. TypeOK'
    BY <1>2, <1>3 DEF TypeOK
  <2>2. QED
    BY <1>2, <1>3, <1>5, <2>1 DEF TypeInv
<1>7. HeapInv' /\ SetsAgree' /\ BatchInv'
  BY <1>2 DEF AccountInv, HeapInv, SetsAgree, BatchInv
<1>8. QueueInv'
  <2>1. ASSUME NEW k \in DOMAIN pendingFunctors'
        PROVE  /\ pendingFunctors'[k].id \in ids'
               /\ Adds(pendingFunctors'[k]) =>
                     /\ heap'[pendingFunctors'[k].id[1]] = pendingFunctors'[k].id[2]
                     /\ k \in DOMAIN pendingFunctors
    <3>1. CASE k \in DOMAIN pendingFunctors
      BY <1>2, <1>5, <3>1 DEF AccountInv, QueueInv
    <3>2. CASE k = last
      BY <1>2, <1>4, <1>5, <3>2
    <3>3. QED
      BY <1>5, <3>1, <3>2
  <2>2. ASSUME NEW k \in DOMAIN pendingFunctors', NEW l \in DOMAIN pendingFunctors',
               Adds(pendingFunctors'[k]), Adds(pendingFunctors'[l]),
               pendingFunctors'[k].id[2] = pendingFunctors'[l].id[2]
        PROVE  k = l
    BY <1>5, <2>1, <2>2 DEF AccountInv, QueueInv
  <2>3. QED
    BY <2>1, <2>2 DEF QueueInv
<1>9. \A r : (Active(r)' <=> Active(r)) /\ (Waiting(r)' <=> Waiting(r))
  <2>1. ASSUME NEW r, Waiting(r)' PROVE Waiting(r)
    <3>1. PICK k \in DOMAIN pendingFunctors' :
             Adds(pendingFunctors'[k]) /\ pendingFunctors'[k].id[2] = r
      BY <2>1 DEF Waiting
    <3>2. QED
      BY <1>4, <1>5, <3>1 DEF Waiting
  <2>2. ASSUME NEW r, Waiting(r) PROVE Waiting(r)'
    <3>1. PICK k \in DOMAIN pendingFunctors :
             Adds(pendingFunctors[k]) /\ pendingFunctors[k].id[2] = r
      BY <2>2 DEF Waiting
    <3>2. QED
      BY <1>5, <3>1 DEF Waiting
  <2>3. \A r : Active(r)' <=> Active(r)
    BY <1>2 DEF Active
  <2>4. QED
    BY <2>1, <2>2, <2>3
<1>10. OwnerInv'
  BY <1>2, <1>9 DEF AccountInv, OwnerInv
<1>11. QED
  BY <1>6, <1>7, <1>8, <1>10 DEF AccountInv

\* The queue stays, or loses its first request.
QueueShift(n) ==
    /\ n \in {0, 1}
    /\ pendingFunctors' \in Seq(Request)
    /\ \A k \in DOMAIN pendingFunctors' :
          /\ k \in Nat /\ k + n \in DOMAIN pendingFunctors
          /\ pendingFunctors'[k] = pendingFunctors[k + n]
    /\ \A k \in DOMAIN pendingFunctors :
          k \in Nat /\ (k # n => k - n \in DOMAIN pendingFunctors')

LEMMA QueueShifts ==
    ASSUME pendingFunctors \in Seq(Request)
    PROVE  /\ UNCHANGED pendingFunctors => QueueShift(0)
           /\ pendingFunctors # <<>> /\ pendingFunctors' = Tail(pendingFunctors) =>
                 /\ QueueShift(1) /\ 1 \in DOMAIN pendingFunctors
                 /\ Head(pendingFunctors) = pendingFunctors[1]
<1>1. Len(pendingFunctors) \in Nat /\ DOMAIN pendingFunctors = 1..Len(pendingFunctors)
  BY LenProperties
<1>2. UNCHANGED pendingFunctors => QueueShift(0)
  BY <1>1 DEF QueueShift
<1>3. ASSUME pendingFunctors # <<>>, pendingFunctors' = Tail(pendingFunctors)
      PROVE  /\ QueueShift(1) /\ 1 \in DOMAIN pendingFunctors
             /\ Head(pendingFunctors) = pendingFunctors[1]
  <2>1. /\ pendingFunctors' \in Seq(Request)
        /\ 1 \in DOMAIN pendingFunctors /\ Head(pendingFunctors) = pendingFunctors[1]
        /\ \A k \in DOMAIN pendingFunctors' :
              /\ k + 1 \in DOMAIN pendingFunctors
              /\ pendingFunctors'[k] = pendingFunctors[k + 1]
        /\ \A k \in DOMAIN pendingFunctors :
              k # 1 => k - 1 \in DOMAIN pendingFunctors' /\ k \in Nat
    BY <1>3, QueueTail
  <2>2. DOMAIN pendingFunctors' = 1..Len(pendingFunctors') /\ Len(pendingFunctors') \in Nat
    BY <2>1, LenProperties
  <2>3. QED
    BY <1>1, <2>1, <2>2 DEF QueueShift
<1>4. QED
  BY <1>2, <1>3

\* What is left of the queue is as sound as the queue was, if the timers that
\* still wait live where they did.
LEMMA ShiftedQueue ==
    ASSUME AccountInv, NEW n, QueueShift(n), UNCHANGED ids,
           \A k \in DOMAIN pendingFunctors :
              Adds(pendingFunctors[k]) /\ k # n =>
                 heap'[pendingFunctors[k].id[1]] = heap[pendingFunctors[k].id[1]]
    PROVE  /\ QueueInv'
           /\ \A r : Waiting(r)' => Waiting(r)
           /\ \A r : Waiting(r) =>
                 \/ Waiting(r)'
                 \/ /\ n = 1 /\ 1 \in DOMAIN pendingFunctors
                    /\ Adds(pendingFunctors[1]) /\ r = pendingFunctors[1].id[2]
           /\ n = 1 /\ 1 \in DOMAIN pendingFunctors /\ Adds(pendingFunctors[1]) =>
                 \A r : r = pendingFunctors[1].id[2] => ~Waiting(r)'
<1>1. /\ \A k \in DOMAIN pendingFunctors' :
            /\ k \in Nat /\ k + n \in DOMAIN pendingFunctors /\ k + n # n
            /\ pendingFunctors'[k] = pendingFunctors[k + n]
      /\ \A k \in DOMAIN pendingFunctors :
            k \in Nat /\ (k # n => k - n \in DOMAIN pendingFunctors')
      /\ n \in {0, 1}
  <2>1. DOMAIN pendingFunctors' = 1..Len(pendingFunctors') /\ Len(pendingFunctors') \in Nat
    BY LenProperties DEF QueueShift
  <2>2. QED
    BY <2>1 DEF QueueShift
<1>2. \A k \in DOMAIN pendingFunctors : k - n + n = k
  BY <1>1
<1>3. QueueInv'
  <2>1. ASSUME NEW k \in DOMAIN pendingFunctors'
        PROVE  /\ pendingFunctors'[k].id \in ids'
               /\ Adds(pendingFunctors'[k]) =>
                     heap'[pendingFunctors'[k].id[1]] = pendingFunctors'[k].id[2]
    <3>1. k + n \in DOMAIN pendingFunctors /\ k + n # n
          /\ pendingFunctors'[k] = pendingFunctors[k + n]
      BY <1>1
    <3>2. /\ pendingFunctors[k + n].id \in ids
          /\ Adds(pendingFunctors[k + n]) =>
                heap[pendingFunctors[k + n].id[1]] = pendingFunctors[k + n].id[2]
      BY <3>1 DEF AccountInv, QueueInv
    <3>3. QED
      BY <3>1, <3>2
  <2>2. ASSUME NEW k \in DOMAIN pendingFunctors', NEW l \in DOMAIN pendingFunctors',
               Adds(pendingFunctors'[k]), Adds(pendingFunctors'[l]),
               pendingFunctors'[k].id[2] = pendingFunctors'[l].id[2]
        PROVE  k = l
    <3>1. /\ k + n \in DOMAIN pendingFunctors /\ pendingFunctors'[k] = pendingFunctors[k + n]
          /\ l + n \in DOMAIN pendingFunctors /\ pendingFunctors'[l] = pendingFunctors[l + n]
          /\ k \in Nat /\ l \in Nat
      BY <1>1
    <3>2. k + n = l + n
      BY <2>2, <3>1 DEF AccountInv, QueueInv
    <3>3. QED
      BY <1>1, <3>1, <3>2
  <2>3. QED
    BY <2>1, <2>2 DEF QueueInv
<1>4. ASSUME NEW r, Waiting(r)' PROVE Waiting(r)
  <2>1. PICK k \in DOMAIN pendingFunctors' :
           Adds(pendingFunctors'[k]) /\ pendingFunctors'[k].id[2] = r
    BY <1>4 DEF Waiting
  <2>2. QED
    BY <1>1, <2>1 DEF Waiting
<1>5. ASSUME NEW r, Waiting(r)
      PROVE  \/ Waiting(r)'
             \/ /\ n = 1 /\ 1 \in DOMAIN pendingFunctors
                /\ Adds(pendingFunctors[1]) /\ r = pendingFunctors[1].id[2]
  <2>1. PICK k \in DOMAIN pendingFunctors :
           Adds(pendingFunctors[k]) /\ pendingFunctors[k].id[2] = r
    BY <1>5 DEF Waiting
  <2>2. CASE k # n
    <3>1. k - n \in DOMAIN pendingFunctors' /\ pendingFunctors'[k - n] = pendingFunctors[k]
      BY <1>1, <1>2, <2>2
    <3>2. QED
      BY <2>1, <3>1 DEF Waiting
  <2>3. CASE k = n
    <3>1. DOMAIN pendingFunctors = 1..Len(pendingFunctors)
      BY LenProperties DEF AccountInv, TypeInv
    <3>2. n = 1
      BY <1>1, <2>3, <3>1
    <3>3. QED
      BY <2>1, <2>3, <3>2
  <2>4. QED
    BY <2>2, <2>3
<1>6. ASSUME n = 1, 1 \in DOMAIN pendingFunctors, Adds(pendingFunctors[1]),
             NEW r, r = pendingFunctors[1].id[2]
      PROVE  ~Waiting(r)'
  <2>1. ASSUME NEW k \in DOMAIN pendingFunctors', Adds(pendingFunctors'[k])
        PROVE  pendingFunctors'[k].id[2] # r
    <3>1. k + n \in DOMAIN pendingFunctors /\ k + n # 1
          /\ pendingFunctors'[k] = pendingFunctors[k + n]
      BY <1>1, <1>6
    <3>2. \A l \in DOMAIN pendingFunctors :
             Adds(pendingFunctors[l]) /\ pendingFunctors[l].id[2] = r => l = 1
      BY <1>6 DEF AccountInv, QueueInv
    <3>3. QED
      BY <2>1, <3>1, <3>2
  <2>2. QED
    BY <2>1 DEF Waiting
<1>7. QED
  BY <1>3, <1>4, <1>5, <1>6

\* cancelInLoop, called at once or from the queue, where it is not an addTimer.
CancelFrame ==
    UNCHANGED <<now, armed, active, created, expiration, interval, calling, readAt,
                expired, next, batch, ids, runs>>

LEMMA CancelTypes ==
    ASSUME AccountInv, NEW id \in ids, CancelFrame, pendingFunctors' \in Seq(Request),
           heap' \in [Addrs -> 0..MaxTimers], timers' \subseteq timers,
           activeTimers' \subseteq activeTimers, cancelingTimers' \subseteq cancelingTimers \cup {id},
           cancelled' \subseteq cancelled \cup {id[2]}
    PROVE  TypeInv'
<1>1. TypeOK /\ TypeInv
  BY DEF AccountInv, TypeInv
<1>2. id \in TimerIds /\ id[2] \in Sequences
  BY <1>1 DEF TypeOK, TimerIds
<1>3. cancelingTimers' \subseteq ids /\ cancelingTimers' \subseteq TimerIds
      /\ cancelled' \subseteq Sequences
  BY <1>1, <1>2 DEF TypeOK, TypeInv
<1>4. timers' \subseteq Nat \X Addrs /\ activeTimers' \subseteq TimerIds
  BY <1>1 DEF TypeOK
<1>5. TypeOK'
  BY <1>1, <1>3, <1>4 DEF TypeOK, CancelFrame
<1>6. QED
  BY <1>1, <1>3, <1>5 DEF TypeInv, CancelFrame

LEMMA CancelActiveAccounts ==
    ASSUME AccountInv, NEW id \in ids, CancelActive(id), CancelFrame, NEW n, QueueShift(n),
           n = 1 /\ 1 \in DOMAIN pendingFunctors => ~Adds(pendingFunctors[1])
    PROVE  AccountInv'
<1> DEFINE a == id[1]
           s == id[2]
           t0 == <<expiration[heap[id[1]]], id[1]>>
<1>1. /\ id \in activeTimers
      /\ timers' = timers \ {t0}
      /\ activeTimers' = activeTimers \ {id}
      /\ heap' = [heap EXCEPT ![a] = 0]
      /\ cancelled' = cancelled \cup {s} /\ UNCHANGED cancelingTimers
  BY DEF CancelActive
<1>2. a \in Addrs /\ s \in Sequences /\ heap[a] = s /\ id = <<a, s>> /\ s # 0 /\ Active(s)
  BY <1>1, LiveFacts DEF Sequences, Active
<1>3. TypeOK /\ TypeInv
  BY DEF AccountInv, TypeInv
<1>4. /\ heap' \in [Addrs -> 0..MaxTimers] /\ heap'[a] = 0
      /\ \A b \in Addrs : b # a => heap'[b] = heap[b]
  BY <1>1, <1>2, <1>3, TimerQueueAssumption DEF TypeOK
<1>5. t0 = <<expiration[s], a>>
  BY <1>2
<1> HIDE DEF t0, a, s
<1>6. TypeInv'
  BY <1>1, <1>4, CancelTypes DEF QueueShift, s
<1>7. \A b \in Addrs : heap[b] = s => b = a
  BY <1>2, LiveFacts
<1>8. HeapInv'
  <2>1. \A b \in Addrs : heap'[b] # 0 => <<b, heap'[b]>> \in ids
    BY <1>4 DEF AccountInv, HeapInv
  <2>2. QED
    BY <2>1 DEF AccountInv, HeapInv, CancelFrame
<1>9. ~Waiting(s) /\ s \notin batch
  BY <1>2 DEF AccountInv, OwnerInv
<1>10. /\ QueueInv'
       /\ \A r : Waiting(r)' <=> Waiting(r)
  <2>1. ASSUME NEW k \in DOMAIN pendingFunctors, Adds(pendingFunctors[k])
        PROVE  heap'[pendingFunctors[k].id[1]] = heap[pendingFunctors[k].id[1]]
    <3>1. pendingFunctors[k].id[2] # s
      BY <1>9, <2>1 DEF Waiting
    <3>2. heap[pendingFunctors[k].id[1]] = pendingFunctors[k].id[2]
      BY <2>1 DEF AccountInv, QueueInv
    <3>3. pendingFunctors[k].id[1] # a /\ pendingFunctors[k].id[1] \in Addrs
      BY <1>2, <3>1, <3>2, LiveFacts
    <3>4. QED
      BY <1>4, <3>3
  <2>2. UNCHANGED ids
    BY DEF CancelFrame
  <2>3. QED
    BY <2>1, <2>2, ShiftedQueue
<1>11. \A t \in activeTimers : t # id => t[1] # a /\ t[1] \in Addrs /\ heap[t[1]] = t[2]
                                         /\ t[2] # s
  <2>1. ASSUME NEW t \in activeTimers, t # id
        PROVE  t[1] # a /\ t[1] \in Addrs /\ heap[t[1]] = t[2] /\ t[2] # s
    <3>1. t[1] \in Addrs /\ heap[t[1]] = t[2] /\ t = <<t[1], t[2]>>
      BY LiveFacts
    <3>2. CASE t[1] = a
      BY <1>2, <2>1, <3>1, <3>2
    <3>3. CASE t[1] # a
      BY <1>7, <3>1, <3>3
    <3>4. QED
      BY <3>2, <3>3
  <2>2. QED
    BY <2>1
<1>12. SetsAgree'
  <2>1. timers = {<<expiration[t[2]], t[1]>> : t \in activeTimers}
    BY DEF AccountInv, SetsAgree
  <2>2. \A t \in activeTimers : t # id => <<expiration[t[2]], t[1]>> # t0
    BY <1>5, <1>11
  <2>3. <<expiration[id[2]], id[1]>> = t0
    BY <1>5 DEF a, s
  <2>4. timers' = {<<expiration[t[2]], t[1]>> : t \in activeTimers'}
    BY <1>1, <2>1, <2>2, <2>3
  <2>5. UNCHANGED expiration
    BY DEF CancelFrame
  <2>6. \A t \in activeTimers' : heap'[t[1]] = t[2]
    BY <1>1, <1>4, <1>11
  <2>7. QED
    BY <2>4, <2>5, <2>6 DEF SetsAgree
<1>13. BatchInv'
  <2>1. \A k \in DOMAIN expired : heap'[expired[k]] = heap[expired[k]]
    BY <1>2, <1>4, <1>9, LiveFacts
  <2>2. UNCHANGED <<expired, batch, calling>>
    BY DEF CancelFrame
  <2>3. QED
    BY <2>1, <2>2 DEF AccountInv, BatchInv
<1>14. \A r : Active(r)' <=> Active(r) /\ r # s
  <2>1. ASSUME NEW r, Active(r)' PROVE Active(r) /\ r # s
    BY <1>1, <1>11, <2>1 DEF Active
  <2>2. ASSUME NEW r, Active(r), r # s PROVE Active(r)'
    <3>1. PICK t \in activeTimers : t[2] = r
      BY <2>2 DEF Active
    <3>2. t # id
      BY <2>2, <3>1 DEF s
    <3>3. QED
      BY <1>1, <3>1, <3>2 DEF Active
  <2>3. QED
    BY <2>1, <2>2
<1>15. OwnerInv'
  <2>1. UNCHANGED batch
    BY DEF CancelFrame
  <2>2. ASSUME NEW b \in Addrs, NEW r \in Sequences, heap'[b] = r
        PROVE  Waiting(r)' \/ Active(r)' \/ r \in batch'
    <3>1. b # a
      BY <1>4, <2>2 DEF Sequences
    <3>2. heap[b] = r /\ r # s
      BY <1>4, <1>7, <2>2, <3>1
    <3>3. QED
      BY <1>10, <1>14, <2>1, <3>2 DEF AccountInv, OwnerInv
  <2>3. \A r \in Sequences : /\ ~(Waiting(r)' /\ Active(r)')
                             /\ ~(Waiting(r)' /\ r \in batch')
                             /\ ~(Active(r)' /\ r \in batch')
    BY <1>10, <1>14, <2>1 DEF AccountInv, OwnerInv
  <2>4. QED
    BY <2>2, <2>3 DEF OwnerInv
<1>16. QED
  BY <1>6, <1>8, <1>10, <1>12, <1>13, <1>15 DEF AccountInv

LEMMA CancelOtherAccounts ==
    ASSUME AccountInv, NEW id \in ids, CancelOther(id), CancelFrame, NEW n, QueueShift(n),
           n = 1 /\ 1 \in DOMAIN pendingFunctors => ~Adds(pendingFunctors[1])
    PROVE  AccountInv'
<1>1. /\ UNCHANGED <<timers, activeTimers, heap>>
      /\ cancelingTimers' \subseteq cancelingTimers \cup {id}
      /\ cancelled' \subseteq cancelled \cup {id[2]}
  BY DEF CancelOther, setVars
<1>2. UNCHANGED <<created, expiration, calling, expired, batch, ids>>
  BY DEF CancelFrame
<1>3. heap' \in [Addrs -> 0..MaxTimers]
  BY <1>1 DEF AccountInv, TypeInv, TypeOK
<1>4. TypeInv'
  BY <1>1, <1>3, CancelTypes DEF QueueShift
<1>5. HeapInv' /\ SetsAgree' /\ BatchInv'
  BY <1>1, <1>2 DEF AccountInv, HeapInv, SetsAgree, BatchInv
<1>6. /\ QueueInv'
      /\ \A r : Waiting(r)' <=> Waiting(r)
  BY <1>1, <1>2, ShiftedQueue
<1>7. \A r : Active(r)' <=> Active(r)
  BY <1>1 DEF Active
<1>8. OwnerInv'
  BY <1>1, <1>2, <1>6, <1>7 DEF AccountInv, OwnerInv
<1>9. QED
  BY <1>4, <1>5, <1>6, <1>8 DEF AccountInv

LEMMA CancelAccounts ==
    ASSUME AccountInv, NEW id \in ids, Cancel(id)
    PROVE  AccountInv'
<1>1. CancelFrame /\ UNCHANGED pendingFunctors
  BY DEF Cancel, CancelFrame
<1>2. QueueShift(0)
  BY <1>1, QueueShifts DEF AccountInv, TypeInv
<1>3. CancelActive(id) \/ CancelOther(id)
  BY DEF Cancel, CancelInLoop
<1>4. QED
  BY <1>1, <1>2, <1>3, CancelActiveAccounts, CancelOtherAccounts

LEMMA CallCancelAccounts ==
    ASSUME AccountInv, CallCancel
    PROVE  AccountInv'
<1> DEFINE id == Head(pendingFunctors).id
<1>1. CancelFrame
  BY DEF CallCancel, CancelFrame
<1>2. pendingFunctors # <<>> /\ pendingFunctors' = Tail(pendingFunctors)
      /\ Head(pendingFunctors).op = "cancel"
  BY DEF CallCancel
<1>3. /\ QueueShift(1) /\ 1 \in DOMAIN pendingFunctors
      /\ Head(pendingFunctors) = pendingFunctors[1]
  BY <1>2, QueueShifts DEF AccountInv, TypeInv
<1>4. ~Adds(pendingFunctors[1])
  BY <1>2, <1>3 DEF Adds
<1>5. id \in ids
  BY <1>3, LiveFacts
<1>6. CancelActive(id) \/ CancelOther(id)
  BY DEF CallCancel, CancelInLoop
<1> HIDE DEF id
<1>7. QED
  BY <1>1, <1>3, <1>4, <1>5, <1>6, CancelActiveAccounts, CancelOtherAccounts
-----------------------------------------------------------------------------
(* The queue, the clock and handleRead *)

LEMMA CallAddTimerAccounts ==
    ASSUME AccountInv, CallAddTimer
    PROVE  AccountInv'
<1> DEFINE id == pendingFunctors[1].id
           a == id[1]
           s == id[2]
<1>1. pendingFunctors # <<>> /\ pendingFunctors' = Tail(pendingFunctors)
      /\ Head(pendingFunctors).op = "add"
  BY DEF CallAddTimer
<1>2. /\ QueueShift(1) /\ 1 \in DOMAIN pendingFunctors
      /\ Head(pendingFunctors) = pendingFunctors[1]
  BY <1>1, QueueShifts DEF AccountInv, TypeInv
<1>3. Adds(pendingFunctors[1])
  BY <1>1, <1>2 DEF Adds
<1>4. /\ id \in ids /\ a \in Addrs /\ s \in Sequences /\ id = <<a, s>>
      /\ heap[a] = s /\ Waiting(s)
  <2>1. id \in ids /\ a \in Addrs /\ s \in Sequences
    BY <1>2, LiveFacts
  <2>2. id \in TimerIds
    BY <2>1 DEF AccountInv, TypeInv, TypeOK
  <2>3. id = <<a, s>>
    BY <2>2 DEF TimerIds
  <2>4. heap[a] = s
    BY <1>2, <1>3 DEF AccountInv, QueueInv
  <2>5. Waiting(s)
    BY <1>2, <1>3 DEF Waiting
  <2>6. QED
    BY <2>1, <2>3, <2>4, <2>5
<1>5. /\ timers' = timers \cup {<<expiration[s], a>>}
      /\ activeTimers' = activeTimers \cup {<<a, s>>}
      /\ armed' = IF EarliestChanged(expiration[s], timers)
                  THEN HowMuchTimeFromNow(expiration[s]) ELSE armed
  BY <1>2 DEF CallAddTimer, AddTimerInLoop
<1>6. UNCHANGED <<now, active, created, heap, expiration, interval, cancelingTimers, calling,
                  readAt, expired, next, batch, ids, runs, cancels, cancelled>>
  BY DEF CallAddTimer, batchVars, timerVars
<1>7. TypeOK /\ TypeInv
  BY DEF AccountInv, TypeInv
<1>8. \A r : (Waiting(r)' => Waiting(r)) /\ (Waiting(r) => Waiting(r)' \/ r = s)
             /\ (r = s => ~Waiting(r)')
  BY <1>2, <1>3, <1>6, ShiftedQueue
<1>9. QueueInv'
  BY <1>2, <1>6, ShiftedQueue
<1> HIDE DEF id, a, s
<1>10. ~Active(s) /\ s \notin batch
  BY <1>4 DEF AccountInv, OwnerInv
<1>11. TypeInv'
  <2>1. expiration[s] \in Nat
    BY <1>4, <1>7, TimerQueueAssumption DEF TypeOK, Sequences
  <2>2. armed' \in Nat
    BY <1>5, <1>7, <2>1, TimerQueueAssumption DEF TypeOK, HowMuchTimeFromNow
  <2>3. timers' \subseteq Nat \X Addrs /\ activeTimers' \subseteq TimerIds
    BY <1>4, <1>5, <1>7, <2>1 DEF TypeOK, TimerIds
  <2>4. TypeOK'
    BY <1>6, <1>7, <2>2, <2>3 DEF TypeOK
  <2>5. pendingFunctors' \in Seq(Request)
    BY <1>2 DEF QueueShift
  <2>6. QED
    BY <1>6, <1>7, <2>4, <2>5 DEF TypeInv
<1>12. HeapInv' /\ BatchInv'
  BY <1>6 DEF AccountInv, HeapInv, BatchInv
<1>13. SetsAgree'
  <2>1. timers = {<<expiration[t[2]], t[1]>> : t \in activeTimers}
        /\ \A t \in activeTimers : heap[t[1]] = t[2]
    BY DEF AccountInv, SetsAgree
  <2>2. <<a, s>>[1] = a /\ <<a, s>>[2] = s
    OBVIOUS
  <2>3. timers' = {<<expiration[t[2]], t[1]>> : t \in activeTimers'}
    BY <1>5, <2>1, <2>2
  <2>4. \A t \in activeTimers' : heap[t[1]] = t[2]
    BY <1>4, <1>5, <2>1, <2>2
  <2>5. QED
    BY <1>6, <2>3, <2>4 DEF SetsAgree
<1>14. \A r : Active(r)' <=> Active(r) \/ r = s
  <2>1. <<a, s>>[2] = s
    OBVIOUS
  <2>2. QED
    BY <1>5, <2>1, Zenon DEF Active
<1>15. OwnerInv'
  BY <1>6, <1>8, <1>10, <1>14 DEF AccountInv, OwnerInv
<1>16. QED
  BY <1>9, <1>11, <1>12, <1>13, <1>15 DEF AccountInv

\* What neither touches the timers nor the queue nor the batch.
LEMMA AccountStays ==
    ASSUME AccountInv, TypeInv',
           UNCHANGED <<created, heap, expiration, timers, activeTimers, calling, expired,
                       batch, pendingFunctors, ids>>
    PROVE  AccountInv'
<1>1. HeapInv' /\ QueueInv' /\ SetsAgree' /\ BatchInv'
  BY DEF AccountInv, HeapInv, QueueInv, SetsAgree, BatchInv
<1>2. \A r : (Waiting(r)' <=> Waiting(r)) /\ (Active(r)' <=> Active(r))
  BY DEF Waiting, Active
<1>3. OwnerInv'
  BY <1>2 DEF AccountInv, OwnerInv
<1>4. QED
  BY <1>1, <1>3 DEF AccountInv

LEMMA TickAccounts ==
    ASSUME AccountInv, Tick
    PROVE  AccountInv'
<1>1. UNCHANGED <<active, created, heap, expiration, interval, timers, activeTimers,
                  cancelingTimers, calling, readAt, expired, next, batch, pendingFunctors, ids,
                  runs, cancels, cancelled>>
  BY DEF Tick, timerVars, setVars, batchVars
<1>2. TypeOK /\ TypeInv
  BY DEF AccountInv, TypeInv
<1>3. now' \in 0..MaxNow /\ armed' \in Nat
  BY <1>2, TimerQueueAssumption DEF TypeOK, Tick
<1>4. TypeOK'
  BY <1>1, <1>2, <1>3 DEF TypeOK
<1>5. TypeInv'
  BY <1>1, <1>2, <1>4 DEF TypeInv
<1>6. QED
  BY <1>1, <1>5, AccountStays

LEMMA PollReturnAccounts ==
    ASSUME AccountInv, PollReturn
    PROVE  AccountInv'
<1>1. UNCHANGED <<now, armed, created, heap, expiration, interval, timers, activeTimers,
                  cancelingTimers, calling, readAt, expired, next, batch, pendingFunctors, ids,
                  runs, cancels, cancelled>>
  BY DEF PollReturn, timerVars, setVars, batchVars
<1>2. TypeOK /\ TypeInv /\ active' \in BOOLEAN
  BY DEF AccountInv, TypeInv, PollReturn
<1>3. TypeOK'
  BY <1>1, <1>2 DEF TypeOK
<1>4. TypeInv'
  BY <1>1, <1>2, <1>3 DEF TypeInv
<1>5. QED
  BY <1>1, <1>4, AccountStays

\* The timer that is run is one of the batch.
LEMMA RunTimerFacts ==
    ASSUME AccountInv, RunTimer
    PROVE  /\ next \in DOMAIN expired /\ next \in Nat
           /\ next' = next + 1 /\ next' \in 1..Len(expired) + 1
           /\ heap[expired[next]] \in batch /\ heap[expired[next]] \in Sequences
           /\ runs' = [runs EXCEPT ![heap[expired[next]]] = @ + 1]
<1>1. expired \in Seq(Addrs) /\ next \in 1..Len(expired) + 1 /\ batch \subseteq Sequences
  BY DEF AccountInv, TypeInv, TypeOK
<1>2. DOMAIN expired = 1..Len(expired) /\ Len(expired) \in Nat
  BY <1>1, LenProperties
<1>3. next \in DOMAIN expired /\ next \in Nat /\ next' = next + 1 /\ next' \in 1..Len(expired) + 1
  BY <1>1, <1>2 DEF RunTimer
<1>4. heap[expired[next]] \in batch /\ heap[expired[next]] # 0
  BY <1>3, LiveFacts
<1>5. QED
  BY <1>1, <1>3, <1>4 DEF RunTimer

LEMMA RunTimerAccounts ==
    ASSUME AccountInv, RunTimer
    PROVE  AccountInv'
<1>1. UNCHANGED <<now, armed, active, created, heap, expiration, interval, timers, activeTimers,
                  cancelingTimers, calling, readAt, expired, batch, pendingFunctors, ids,
                  cancels, cancelled>>
  BY DEF RunTimer, timerVars, setVars
<1>2. TypeOK /\ TypeInv
  BY DEF AccountInv, TypeInv
<1>3. next' \in 1..Len(expired) + 1 /\ runs' \in [Sequences -> Nat]
  <2>1. runs \in [Sequences -> Nat]
    BY <1>2 DEF TypeInv
  <2>2. QED
    BY <2>1, RunTimerFacts
<1>4. TypeOK'
  BY <1>1, <1>2, <1>3 DEF TypeOK
<1>5. TypeInv'
  BY <1>1, <1>2, <1>3, <1>4 DEF TypeInv
<1>6. QED
  BY <1>1, <1>5, AccountStays

\* A timer of timers_ is that of one entry of activeTimers_, and the other way
\* round.
LEMMA TimersFacts ==
    ASSUME AccountInv
    PROVE  /\ \A t \in timers :
                 /\ t[2] \in Addrs /\ t[1] \in Nat /\ t = <<t[1], t[2]>>
                 /\ <<t[2], heap[t[2]]>> \in activeTimers
                 /\ heap[t[2]] \in Sequences /\ t[1] = expiration[heap[t[2]]]
           /\ \A t \in activeTimers : <<expiration[t[2]], t[1]>> \in timers
           /\ \A t, u \in timers : t[2] = u[2] => t = u
           /\ IsFiniteSet(timers)
<1>1. ASSUME NEW t \in timers
      PROVE  /\ t[2] \in Addrs /\ t[1] \in Nat /\ t = <<t[1], t[2]>>
             /\ <<t[2], heap[t[2]]>> \in activeTimers
             /\ heap[t[2]] \in Sequences /\ t[1] = expiration[heap[t[2]]]
  <2>1. PICK u \in activeTimers : t = <<expiration[u[2]], u[1]>>
    BY DEF AccountInv, SetsAgree
  <2>2. u[1] \in Addrs /\ u[2] \in Sequences /\ u = <<u[1], u[2]>> /\ heap[u[1]] = u[2]
    BY LiveFacts
  <2>3. t[2] = u[1] /\ t[1] = expiration[u[2]] /\ t = <<t[1], t[2]>>
    BY <2>1
  <2>4. t \in Nat \X Addrs
    BY DEF AccountInv, TypeInv, TypeOK
  <2>5. QED
    BY <2>2, <2>3, <2>4
<1>2. \A t \in activeTimers : <<expiration[t[2]], t[1]>> \in timers
  BY DEF AccountInv, SetsAgree
<1>3. ASSUME NEW t \in timers, NEW u \in timers, t[2] = u[2] PROVE t = u
  BY <1>1, <1>3
<1>4. IsFiniteSet(timers)
  <2> DEFINE place == [t \in timers |-> heap[t[2]]]
  <2>1. place \in [timers -> 1..MaxTimers]
    BY <1>1 DEF Sequences
  <2>2. ASSUME NEW t \in timers, NEW u \in timers, place[t] = place[u] PROVE t = u
    <3>1. heap[t[2]] = heap[u[2]] /\ heap[t[2]] \in Sequences
      BY <1>1, <2>2
    <3> HIDE DEF place
    <3>2. t[2] = u[2]
      <4>1. 0 \notin Sequences
        BY DEF Sequences
      <4>2. QED
        BY <1>1, <3>1, <4>1, LiveFacts
    <3>3. QED
      BY <1>3, <3>2
  <2> HIDE DEF place
  <2>3. place \in Injection(timers, 1..MaxTimers)
    BY <2>1, <2>2 DEF Injection, IsInjective
  <2>4. IsFiniteSet(1..MaxTimers)
    BY FS_Interval, TimerQueueAssumption
  <2>5. QED
    BY <2>3, <2>4, FS_Injection
<1>5. QED
  BY <1>1, <1>2, <1>3, <1>4

\* getExpired: expired holds the addresses of the timers that are due, each once.
LEMMA HandleReadFacts ==
    ASSUME AccountInv, HandleRead
    PROVE  LET due == {t \in timers : t[1] <= now} IN
           /\ expired' \in Seq(Addrs)
           /\ \A k \in DOMAIN expired' : \E t \in due : expired'[k] = t[2]
           /\ \A t \in due : \E k \in DOMAIN expired' : expired'[k] = t[2]
           /\ \A k, l \in DOMAIN expired' : expired'[k] = expired'[l] => k = l
           /\ next' \in 1..Len(expired') + 1
<1> DEFINE due == {t \in timers : t[1] <= now}
           n == Cardinality(due)
           order == InOrder(due)
<1>1. IsFiniteSet(due) /\ due \subseteq Nat \X Addrs
  <2>1. due \in SUBSET timers /\ timers \subseteq Nat \X Addrs
    BY DEF AccountInv, TypeInv, TypeOK
  <2>2. QED
    BY <2>1, TimersFacts, FS_Subset
<1> HIDE DEF due
<1>2. /\ n \in Nat /\ order \in [1..n -> due]
      /\ \A i, j \in 1..n : order[i] = order[j] => i = j
      /\ \A x \in due : \E i \in 1..n : order[i] = x
  BY <1>1, InOrderCopies
<1>3. expired' = [k \in 1..n |-> order[k][2]] /\ next' = 1
  BY DEF HandleRead, due
<1> HIDE DEF n, order
<1>4. \A k \in 1..n : order[k] \in due /\ order[k][2] \in Addrs
  BY <1>1, <1>2
<1>5. /\ DOMAIN expired' = 1..n /\ \A k \in 1..n : expired'[k] = order[k][2]
      /\ expired' \in [1..n -> Addrs]
  BY <1>3, <1>4
<1>6. expired' \in Seq(Addrs)
  BY <1>2, <1>5, SeqDef
<1>7. \A k, l \in 1..n : expired'[k] = expired'[l] => k = l
  <2>1. \A t, u \in due : t[2] = u[2] => t = u
    BY TimersFacts DEF due
  <2>2. QED
    BY <1>2, <1>4, <1>5, <2>1
<1>8. next' \in 1..Len(expired') + 1
  <2>1. Len(expired') \in Nat
    BY <1>6, LenProperties
  <2>2. next' = 1
    BY <1>3
  <2>3. 1 \in 1..Len(expired') + 1
    BY <2>1
  <2>4. QED
    BY <2>2, <2>3
<1>9. /\ \A k \in DOMAIN expired' : \E t \in due : expired'[k] = t[2]
      /\ \A t \in due : \E k \in DOMAIN expired' : expired'[k] = t[2]
  BY <1>2, <1>4, <1>5
<1>10. QED
  BY <1>5, <1>6, <1>7, <1>8, <1>9 DEF due

LEMMA HandleReadAccounts ==
    ASSUME AccountInv, HandleRead
    PROVE  AccountInv'
<1> DEFINE due == {t \in timers : t[1] <= now}
<1>1. /\ expired' \in Seq(Addrs)
      /\ \A k \in DOMAIN expired' : \E t \in due : expired'[k] = t[2]
      /\ \A t \in due : \E k \in DOMAIN expired' : expired'[k] = t[2]
      /\ \A k, l \in DOMAIN expired' : expired'[k] = expired'[l] => k = l
      /\ next' \in 1..Len(expired') + 1
  BY HandleReadFacts
<1>2. /\ ~calling /\ active' = FALSE /\ calling' = TRUE /\ readAt' = now
      /\ armed' = IF armed = 0 THEN Off ELSE armed
      /\ timers' = timers \ due
      /\ activeTimers' = activeTimers \ {<<t[2], heap[t[2]]>> : t \in due}
      /\ batch' = {heap[t[2]] : t \in due}
      /\ cancelingTimers' = {}
      /\ UNCHANGED <<now, created, heap, expiration, interval, pendingFunctors, ids, runs,
                     cancels, cancelled>>
  BY DEF HandleRead, timerVars
<1>3. \A t \in due : t \in timers
  OBVIOUS
<1> HIDE DEF due
<1>4. TypeOK /\ TypeInv
  BY DEF AccountInv, TypeInv
<1>5. batch = {}
  BY <1>2 DEF AccountInv, BatchInv
<1>6. TypeInv'
  <2>1. armed' \in Nat
    BY <1>2, <1>4, TimerQueueAssumption DEF TypeOK, Off
  <2>2. batch' \subseteq Sequences
    BY <1>2, <1>3, TimersFacts
  <2>3. timers' \subseteq Nat \X Addrs /\ activeTimers' \subseteq TimerIds
    BY <1>2, <1>4 DEF TypeOK
  <2>4. TypeOK'
    BY <1>1, <1>2, <1>4, <2>1, <2>2, <2>3 DEF TypeOK
  <2>5. QED
    BY <1>2, <1>4, <2>4 DEF TypeInv
<1>7. HeapInv' /\ QueueInv'
  BY <1>2 DEF AccountInv, HeapInv, QueueInv
<1>8. \A t \in activeTimers :
         /\ t[1] \in Addrs /\ t = <<t[1], t[2]>> /\ heap[t[1]] = t[2]
         /\ t \in activeTimers' <=> <<expiration[t[2]], t[1]>> \notin due
  <2>1. ASSUME NEW t \in activeTimers
        PROVE  /\ t[1] \in Addrs /\ t = <<t[1], t[2]>> /\ heap[t[1]] = t[2]
               /\ <<expiration[t[2]], t[1]>> \in timers
    BY LiveFacts, TimersFacts
  <2>2. ASSUME NEW t \in activeTimers, <<expiration[t[2]], t[1]>> \in due
        PROVE  t \in {<<u[2], heap[u[2]]>> : u \in due}
    <3> DEFINE u == <<expiration[t[2]], t[1]>>
    <3>1. u \in due /\ u[2] = t[1]
      BY <2>2
    <3>2. <<u[2], heap[u[2]]>> = t
      BY <2>1, <3>1
    <3>3. QED
      BY <3>1, <3>2
  <2>3. ASSUME NEW t \in activeTimers, t \in {<<u[2], heap[u[2]]>> : u \in due}
        PROVE  <<expiration[t[2]], t[1]>> \in due
    <3>1. PICK u \in due : t = <<u[2], heap[u[2]]>>
      BY <2>3
    <3>2. u[1] = expiration[heap[u[2]]] /\ u = <<u[1], u[2]>>
      BY <1>3, TimersFacts
    <3>3. t[1] = u[2] /\ t[2] = heap[u[2]]
      BY <3>1
    <3>4. <<expiration[t[2]], t[1]>> = u
      BY <3>2, <3>3
    <3>5. QED
      BY <3>4
  <2>4. QED
    BY <1>2, <2>1, <2>2, <2>3
<1>9. SetsAgree'
  <2>1. timers = {<<expiration[t[2]], t[1]>> : t \in activeTimers}
    BY DEF AccountInv, SetsAgree
  <2>2. activeTimers' \subseteq activeTimers
    BY <1>2
  <2>3. timers' = {<<expiration[t[2]], t[1]>> : t \in activeTimers'}
    BY <1>2, <1>8, <2>1, <2>2
  <2>4. \A t \in activeTimers' : heap[t[1]] = t[2]
    BY <1>8, <2>2
  <2>5. UNCHANGED <<heap, expiration>>
    BY <1>2
  <2>6. QED
    BY <2>3, <2>4, <2>5 DEF SetsAgree
<1>10. BatchInv'
  <2>1. \A k \in DOMAIN expired' : heap[expired'[k]] \in batch'
    BY <1>1, <1>2
  <2>2. \A s \in batch' : \E k \in DOMAIN expired' : heap[expired'[k]] = s
    BY <1>1, <1>2
  <2>3. QED
    BY <1>1, <1>2, <2>1, <2>2 DEF BatchInv
<1>11. \A r : Waiting(r)' <=> Waiting(r)
  BY <1>2 DEF Waiting
<1>12. \A r : Active(r)' => Active(r) /\ r \notin batch'
  <2>1. ASSUME NEW r, Active(r)' PROVE Active(r) /\ r \notin batch'
    <3>1. PICK t \in activeTimers' : t[2] = r
      BY <2>1 DEF Active
    <3>2. t \in activeTimers /\ <<expiration[t[2]], t[1]>> \notin due
      BY <1>2, <1>8, <3>1
    <3>3. ASSUME NEW u \in due, heap[u[2]] = r PROVE FALSE
      <4>1. /\ u[2] \in Addrs /\ u[1] = expiration[heap[u[2]]] /\ u = <<u[1], u[2]>>
            /\ heap[u[2]] \in Sequences
        BY <1>3, TimersFacts
      <4>2. u[2] = t[1]
        <5>1. heap[u[2]] = heap[t[1]] /\ t[1] \in Addrs
          BY <1>8, <3>1, <3>2, <3>3
        <5>2. heap[u[2]] # 0
          BY <4>1 DEF Sequences
        <5>3. QED
          BY <4>1, <5>1, <5>2, LiveFacts
      <4>3. QED
        BY <3>1, <3>2, <3>3, <4>1, <4>2
    <3>4. QED
      BY <1>2, <3>1, <3>2, <3>3 DEF Active
  <2>2. QED
    BY <2>1
<1>13. \A r : Active(r) => Active(r)' \/ r \in batch'
  <2>1. ASSUME NEW t \in activeTimers PROVE t \in activeTimers' \/ t[2] \in batch'
    <3>1. CASE <<expiration[t[2]], t[1]>> \in due
      <4>1. heap[<<expiration[t[2]], t[1]>>[2]] = t[2]
        BY <1>8
      <4>2. QED
        BY <1>2, <3>1, <4>1
    <3>2. QED
      BY <1>8, <3>1
  <2>2. QED
    BY <2>1 DEF Active
<1>14. \A r : r \in batch' => Active(r)
  <2>1. \A t \in due : <<t[2], heap[t[2]]>> \in activeTimers
                       /\ <<t[2], heap[t[2]]>>[2] = heap[t[2]]
    BY <1>3, TimersFacts
  <2>2. QED
    BY <1>2, <2>1 DEF Active
<1>15. OwnerInv'
  <2>1. ASSUME NEW b \in Addrs, NEW r \in Sequences, heap'[b] = r
        PROVE  Waiting(r)' \/ Active(r)' \/ r \in batch'
    BY <1>2, <1>5, <1>11, <1>13, <2>1 DEF AccountInv, OwnerInv
  <2>2. \A r \in Sequences : /\ ~(Waiting(r)' /\ Active(r)')
                             /\ ~(Waiting(r)' /\ r \in batch')
                             /\ ~(Active(r)' /\ r \in batch')
    BY <1>11, <1>12, <1>14 DEF AccountInv, OwnerInv
  <2>3. QED
    BY <2>1, <2>2 DEF OwnerInv
<1>16. QED
  BY <1>6, <1>7, <1>9, <1>10, <1>15 DEF AccountInv

\* reset: what it puts back, and what it leaves alone.
LEMMA ResetFacts ==
    ASSUME AccountInv, Reset
    PROVE  /\ Restarted \subseteq ToSet(expired)
           /\ \A a \in ToSet(expired) : a \in Addrs /\ heap[a] \in batch /\ heap[a] \in Sequences
           /\ \A a \in Addrs : heap[a] \in batch => a \in ToSet(expired)
           /\ expiration' \in [0..MaxTimers -> Nat]
           /\ \A a \in Restarted : expiration'[heap[a]] = readAt + interval[heap[a]]
           /\ \A s \in 0..MaxTimers : s \notin batch => expiration'[s] = expiration[s]
           /\ \A s \in 0..MaxTimers : \/ expiration'[s] = expiration[s]
                                      \/ expiration'[s] = readAt + interval[s]
           /\ timers' = timers \cup {<<readAt + interval[heap[a]], a>> : a \in Restarted}
           /\ activeTimers' = activeTimers \cup {<<a, heap[a]>> : a \in Restarted}
           /\ heap' \in [Addrs -> 0..MaxTimers]
           /\ \A a \in Addrs :
                 heap'[a] = IF a \in ToSet(expired) \ Restarted THEN 0 ELSE heap[a]
           /\ timers' \subseteq Nat \X Addrs /\ activeTimers' \subseteq TimerIds
<1> DEFINE again == {heap[a] : a \in Restarted}
<1>1. TypeOK
  BY DEF AccountInv, TypeInv
<1>2. ToSet(expired) = {expired[k] : k \in DOMAIN expired}
  BY DEF ToSet
<1>3. \A a \in ToSet(expired) : a \in Addrs /\ heap[a] \in batch /\ heap[a] \in Sequences
  <2>1. batch \subseteq Sequences
    BY <1>1 DEF TypeOK
  <2>2. QED
    BY <1>2, <2>1, LiveFacts
<1>4. ASSUME NEW a \in Addrs, heap[a] \in batch PROVE a \in ToSet(expired)
  <2>1. PICK k \in DOMAIN expired : heap[expired[k]] = heap[a]
    BY <1>4 DEF AccountInv, BatchInv
  <2>2. expired[k] = a
    BY <2>1, LiveFacts
  <2>3. QED
    BY <1>2, <2>2
<1>5. Restarted \subseteq ToSet(expired)
  BY DEF Restarted
<1>6. readAt \in Nat /\ expiration \in [0..MaxTimers -> Nat] /\ interval \in [0..MaxTimers -> Nat]
      /\ heap \in [Addrs -> 0..MaxTimers] /\ timers \subseteq Nat \X Addrs
      /\ activeTimers \subseteq TimerIds
  BY <1>1, TimerQueueAssumption DEF TypeOK
<1>7. /\ expiration' = [s \in DOMAIN expiration |->
                           IF s \in again THEN readAt + interval[s] ELSE expiration[s]]
      /\ timers' = timers \cup {<<readAt + interval[heap[a]], a>> : a \in Restarted}
      /\ activeTimers' = activeTimers \cup {<<a, heap[a]>> : a \in Restarted}
      /\ heap' = [a \in Addrs |-> IF a \in ToSet(expired) \ Restarted THEN 0 ELSE heap[a]]
  BY DEF Reset
<1>8. \A a \in Restarted : heap[a] \in again /\ heap[a] \in 0..MaxTimers
  BY <1>3, <1>5 DEF Sequences
<1>9. again \subseteq batch
  BY <1>3, <1>5
<1> HIDE DEF again
<1>10. /\ DOMAIN expiration = 0..MaxTimers
       /\ \A s \in 0..MaxTimers :
             /\ interval[s] \in Nat /\ expiration[s] \in Nat
             /\ expiration'[s] = IF s \in again THEN readAt + interval[s] ELSE expiration[s]
             /\ expiration'[s] \in Nat
  <2>1. DOMAIN expiration = 0..MaxTimers
    BY <1>6
  <2>2. ASSUME NEW s \in 0..MaxTimers
        PROVE  /\ interval[s] \in Nat /\ expiration[s] \in Nat
               /\ expiration'[s] = IF s \in again THEN readAt + interval[s] ELSE expiration[s]
    BY <1>6, <1>7, <2>1
  <2>3. \A s \in 0..MaxTimers : expiration'[s] \in Nat
    BY <1>6, <2>2
  <2>4. QED
    BY <2>1, <2>2, <2>3
<1>11. expiration' \in [0..MaxTimers -> Nat]
  BY <1>7, <1>10
<1>12. heap' \in [Addrs -> 0..MaxTimers]
  BY <1>6, <1>7, TimerQueueAssumption
<1>13. timers' \subseteq Nat \X Addrs
  <2>1. \A a \in Restarted : readAt + interval[heap[a]] \in Nat /\ a \in Addrs
    BY <1>3, <1>5, <1>6, <1>8, <1>10
  <2>2. QED
    BY <1>6, <1>7, <2>1
<1>14. activeTimers' \subseteq TimerIds
  BY <1>3, <1>5, <1>6, <1>7 DEF TimerIds
<1>15. /\ \A a \in Restarted : expiration'[heap[a]] = readAt + interval[heap[a]]
       /\ \A s \in 0..MaxTimers : s \notin batch => expiration'[s] = expiration[s]
       /\ \A s \in 0..MaxTimers : \/ expiration'[s] = expiration[s]
                                  \/ expiration'[s] = readAt + interval[s]
  BY <1>8, <1>9, <1>10
<1>16. \A a \in Addrs :
          heap'[a] = IF a \in ToSet(expired) \ Restarted THEN 0 ELSE heap[a]
  BY <1>7
<1>17. QED
  BY <1>3, <1>4, <1>5, <1>7, <1>11, <1>12, <1>13, <1>14, <1>15, <1>16

LEMMA ResetAccounts ==
    ASSUME AccountInv, Reset
    PROVE  AccountInv'
<1>1. /\ Restarted \subseteq ToSet(expired)
      /\ \A a \in ToSet(expired) : a \in Addrs /\ heap[a] \in batch /\ heap[a] \in Sequences
      /\ \A a \in Addrs : heap[a] \in batch => a \in ToSet(expired)
  BY ResetFacts
<1>2. /\ expiration' \in [0..MaxTimers -> Nat]
      /\ \A a \in Restarted : expiration'[heap[a]] = readAt + interval[heap[a]]
      /\ \A s \in 0..MaxTimers : s \notin batch => expiration'[s] = expiration[s]
  BY ResetFacts
<1>3. /\ timers' = timers \cup {<<readAt + interval[heap[a]], a>> : a \in Restarted}
      /\ activeTimers' = activeTimers \cup {<<a, heap[a]>> : a \in Restarted}
      /\ timers' \subseteq Nat \X Addrs /\ activeTimers' \subseteq TimerIds
  BY ResetFacts
<1>4. /\ heap' \in [Addrs -> 0..MaxTimers]
      /\ \A a \in Addrs :
            heap'[a] = IF a \in ToSet(expired) \ Restarted THEN 0 ELSE heap[a]
  BY ResetFacts
<1>5. /\ armed' = IF timers' = {} THEN armed ELSE HowMuchTimeFromNow(Earliest(timers'))
      /\ calling' = FALSE /\ expired' = <<>> /\ next' = 1 /\ batch' = {} /\ readAt' = 0
      /\ UNCHANGED <<now, active, created, interval, cancelingTimers, pendingFunctors, ids,
                     runs, cancels, cancelled>>
  BY DEF Reset
<1>6. TypeOK /\ TypeInv
  BY DEF AccountInv, TypeInv
<1>7. TypeInv'
  <2>1. armed' \in Nat
    <3>1. CASE timers' = {}
      BY <1>5, <1>6, <3>1 DEF TypeOK
    <3>2. CASE timers' # {}
      <4>1. Earliest(timers') \in Nat
        BY <1>3, <3>2, EarliestIsLeast
      <4>2. now \in Nat /\ armed' = HowMuchTimeFromNow(Earliest(timers'))
        BY <1>5, <1>6, <3>2, TimerQueueAssumption DEF TypeOK
      <4>3. QED
        BY <4>1, <4>2 DEF HowMuchTimeFromNow
    <3>3. QED
      BY <3>1, <3>2
  <2>2. /\ <<>> \in Seq(Addrs) /\ 1 \in 1..Len(<<>>) + 1 /\ {} \subseteq Sequences
        /\ 0 \in 0..MaxNow
    BY EmptySeq, TimerQueueAssumption
  <2>3. expired' \in Seq(Addrs) /\ next' \in 1..Len(expired') + 1 /\ batch' \subseteq Sequences
        /\ readAt' \in 0..MaxNow /\ calling' \in BOOLEAN
    BY <1>5, <2>2
  <2>4. TypeOK'
    BY <1>2, <1>3, <1>4, <1>5, <1>6, <2>1, <2>3 DEF TypeOK
  <2>5. QED
    BY <1>5, <1>6, <2>4 DEF TypeInv
<1>8. HeapInv'
  <2>1. \A b \in Addrs : heap'[b] # 0 => <<b, heap'[b]>> \in ids
    BY <1>4 DEF AccountInv, HeapInv
  <2>2. QED
    BY <1>5, <2>1 DEF AccountInv, HeapInv
<1>9. QueueInv'
  <2>1. ASSUME NEW k \in DOMAIN pendingFunctors, Adds(pendingFunctors[k])
        PROVE  heap'[pendingFunctors[k].id[1]] = pendingFunctors[k].id[2]
    <3>1. heap[pendingFunctors[k].id[1]] = pendingFunctors[k].id[2]
      BY <2>1 DEF AccountInv, QueueInv
    <3>2. pendingFunctors[k].id[2] \notin batch
      <4>1. Waiting(pendingFunctors[k].id[2])
        BY <2>1 DEF Waiting
      <4>2. pendingFunctors[k].id[2] \in Sequences
        BY LiveFacts
      <4>3. QED
        BY <4>1, <4>2 DEF AccountInv, OwnerInv
    <3>3. pendingFunctors[k].id[1] \in Addrs
      BY LiveFacts
    <3>4. QED
      BY <1>1, <1>4, <3>1, <3>2, <3>3
  <2>2. QED
    BY <1>5, <2>1 DEF AccountInv, QueueInv
<1>10. \A t \in activeTimers :
          /\ t[1] \in Addrs /\ t[2] \in 0..MaxTimers /\ t[2] \notin batch
          /\ heap'[t[1]] = t[2] /\ expiration'[t[2]] = expiration[t[2]]
  <2>1. ASSUME NEW t \in activeTimers
        PROVE  /\ t[1] \in Addrs /\ t[2] \in 0..MaxTimers /\ t[2] \notin batch
               /\ heap[t[1]] = t[2]
    <3>1. t[1] \in Addrs /\ t[2] \in Sequences /\ heap[t[1]] = t[2] /\ Active(t[2])
      BY LiveFacts DEF Active
    <3>2. QED
      BY <3>1 DEF AccountInv, OwnerInv, Sequences
  <2>2. QED
    BY <1>1, <1>2, <1>4, <2>1
<1>11. SetsAgree'
  <2>1. timers = {<<expiration[t[2]], t[1]>> : t \in activeTimers}
    BY DEF AccountInv, SetsAgree
  <2>2. timers = {<<expiration'[t[2]], t[1]>> : t \in activeTimers}
    BY <1>10, <2>1
  <2>3. \A a \in Restarted : /\ <<a, heap[a]>>[1] = a /\ <<a, heap[a]>>[2] = heap[a]
                             /\ expiration'[heap[a]] = readAt + interval[heap[a]]
                             /\ heap'[a] = heap[a]
    <3>1. \A a \in Restarted : <<a, heap[a]>>[1] = a /\ <<a, heap[a]>>[2] = heap[a]
      OBVIOUS
    <3>2. \A a \in Restarted : heap'[a] = heap[a]
      BY <1>1, <1>4
    <3>3. QED
      BY <1>2, <3>1, <3>2
  <2>4. timers' = {<<expiration'[t[2]], t[1]>> : t \in activeTimers'}
    <3> DEFINE place(t) == <<expiration'[t[2]], t[1]>>
               again == {<<a, heap[a]>> : a \in Restarted}
    <3>1. {<<readAt + interval[heap[a]], a>> : a \in Restarted} = {place(t) : t \in again}
      <4>1. \A a \in Restarted :
               place(<<a, heap[a]>>) = <<readAt + interval[heap[a]], a>>
        BY <2>3
      <4>2. \A a \in Restarted : <<a, heap[a]>> \in again
        OBVIOUS
      <4>3. \A t \in again : \E a \in Restarted : t = <<a, heap[a]>>
        OBVIOUS
      <4> HIDE DEF place, again
      <4>4. ASSUME NEW a \in Restarted
            PROVE  <<readAt + interval[heap[a]], a>> \in {place(t) : t \in again}
        <5>1. PICK t \in again : t = <<a, heap[a]>>
          BY <4>2
        <5>2. place(t) = <<readAt + interval[heap[a]], a>>
          BY <4>1, <5>1
        <5>3. QED
          BY <5>2
      <4>5. ASSUME NEW t \in again
            PROVE  \E a \in Restarted : place(t) = <<readAt + interval[heap[a]], a>>
        <5>1. PICK a \in Restarted : t = <<a, heap[a]>>
          BY <4>3
        <5>2. place(t) = <<readAt + interval[heap[a]], a>>
          BY <4>1, <5>1
        <5>3. QED
          BY <5>2
      <4>6. QED
        BY <4>4, <4>5
    <3>2. timers = {place(t) : t \in activeTimers} /\ activeTimers' = activeTimers \cup again
      BY <1>3, <2>2
    <3> HIDE DEF again
    <3>3. timers' = {place(t) : t \in activeTimers'}
      BY <1>3, <3>1, <3>2
    <3>4. QED
      BY <3>3
  <2>5. \A t \in activeTimers' : heap'[t[1]] = t[2]
    BY <1>3, <1>10, <2>3
  <2>6. QED
    BY <2>4, <2>5 DEF SetsAgree
<1>12. BatchInv'
  <2>1. DOMAIN expired' = {}
    BY <1>5
  <2>2. QED
    BY <1>5, <2>1 DEF BatchInv
<1>13. \A r : Waiting(r)' <=> Waiting(r)
  BY <1>5 DEF Waiting
<1>14. \A r : Active(r)' <=> Active(r) \/ \E a \in Restarted : heap[a] = r
  <2>1. \A a \in Restarted : <<a, heap[a]>>[2] = heap[a] /\ <<a, heap[a]>> \in activeTimers'
    BY <1>3
  <2>2. ASSUME NEW r, Active(r)' PROVE Active(r) \/ \E a \in Restarted : heap[a] = r
    <3>1. PICK t \in activeTimers' : t[2] = r
      BY <2>2 DEF Active
    <3>2. CASE t \in activeTimers
      BY <3>1, <3>2 DEF Active
    <3>3. CASE t \in {<<a, heap[a]>> : a \in Restarted}
      BY <2>1, <3>1, <3>3
    <3>4. QED
      BY <1>3, <3>1, <3>2, <3>3
  <2>3. ASSUME NEW r, Active(r) PROVE Active(r)'
    BY <1>3, <2>3 DEF Active
  <2>4. ASSUME NEW r, NEW a \in Restarted, heap[a] = r PROVE Active(r)'
    BY <2>1, <2>4 DEF Active
  <2>5. QED
    BY <2>2, <2>3, <2>4
<1>15. OwnerInv'
  <2>1. ASSUME NEW b \in Addrs, NEW r \in Sequences, heap'[b] = r
        PROVE  Waiting(r)' \/ Active(r)' \/ r \in batch'
    <3>1. r # 0
      BY DEF Sequences
    <3>2. heap[b] = r /\ (b \in ToSet(expired) => b \in Restarted)
      BY <1>4, <2>1, <3>1
    <3>3. CASE b \in Restarted
      BY <1>14, <3>2, <3>3
    <3>4. CASE b \notin Restarted
      <4>1. r \notin batch
        BY <1>1, <3>2, <3>4
      <4>2. Waiting(r) \/ Active(r)
        BY <3>2, <4>1 DEF AccountInv, OwnerInv
      <4>3. QED
        BY <1>13, <1>14, <4>2
    <3>5. QED
      BY <3>3, <3>4
  <2>2. \A a \in Restarted : heap[a] \in batch
    BY <1>1
  <2>3. \A r \in Sequences : /\ ~(Waiting(r)' /\ Active(r)')
                             /\ ~(Waiting(r)' /\ r \in batch')
                             /\ ~(Active(r)' /\ r \in batch')
    BY <1>5, <1>13, <1>14, <2>2 DEF AccountInv, OwnerInv
  <2>4. QED
    BY <2>1, <2>3 DEF OwnerInv
<1>16. QED
  BY <1>7, <1>8, <1>9, <1>11, <1>12, <1>15 DEF AccountInv
-----------------------------------------------------------------------------
(* The memory of TimerQueue *)

LEMMA AccountInit == Init => AccountInv
<1> SUFFICES ASSUME Init PROVE AccountInv
  OBVIOUS
<1>1. TypeInv
  <2>1. /\ 0 \in 0..MaxNow /\ 0 \in 0..MaxTimers /\ Off \in Nat
        /\ <<>> \in Seq(Addrs) /\ 1 \in 1..Len(<<>>) + 1 /\ <<>> \in Seq(Request)
    BY TimerQueueAssumption, EmptySeq DEF Off
  <2>2. heap \in [Addrs -> 0..MaxTimers]
    BY <2>1 DEF Init
  <2>3. expiration \in [0..MaxTimers -> Nat] /\ interval \in [0..MaxTimers -> Nat]
    BY DEF Init
  <2>4. runs \in [Sequences -> Nat]
    BY DEF Init
  <2>5. next \in 1..Len(expired) + 1
    BY <2>1 DEF Init
  <2>6. TypeOK
    BY <2>1, <2>2, <2>3, <2>5 DEF TypeOK, Init
  <2>7. QED
    BY <2>1, <2>4, <2>6 DEF TypeInv, Init
<1>2. HeapInv
  BY DEF Init, HeapInv
<1>3. DOMAIN pendingFunctors = {} /\ DOMAIN expired = {}
  BY DEF Init
<1>4. QueueInv /\ BatchInv
  BY <1>3 DEF Init, QueueInv, BatchInv
<1>5. SetsAgree
  BY DEF Init, SetsAgree
<1>6. OwnerInv
  BY <1>3 DEF Init, OwnerInv, Waiting, Active, Sequences
<1>7. QED
  BY <1>1, <1>2, <1>4, <1>5, <1>6 DEF AccountInv

LEMMA AccountStep == AccountInv /\ [Next]_vars => AccountInv'
<1> SUFFICES ASSUME AccountInv, [Next]_vars PROVE AccountInv'
  OBVIOUS
<1>1. CASE UNCHANGED vars
  <2>1. UNCHANGED <<now, armed, active, created, heap, expiration, interval, timers, activeTimers,
                    cancelingTimers, calling, readAt, expired, next, batch, pendingFunctors, ids,
                    runs, cancels, cancelled>>
    BY <1>1 DEF vars, timerVars, setVars, batchVars
  <2>2. TypeInv'
    BY <2>1 DEF AccountInv, TypeInv, TypeOK
  <2>3. QED
    BY <2>1, <2>2, AccountStays
<1>2. CASE Next
  <2>1. ASSUME NEW a \in Addrs, NEW d \in Delays, NEW i \in Intervals,
               AddTimer(a, d, i) \/ AddTimerForeign(a, d, i)
        PROVE  AccountInv'
    BY <2>1, AddTimerAccounts, AddTimerForeignAccounts
  <2>2. ASSUME NEW id \in ids, Cancel(id) \/ CancelForeign(id)
        PROVE  AccountInv'
    BY <2>2, CancelAccounts, CancelForeignAccounts
  <2>3. CASE Tick \/ CallAddTimer \/ CallCancel
    BY <2>3, TickAccounts, CallAddTimerAccounts, CallCancelAccounts
  <2>4. CASE LoopStep
    BY <2>4, PollReturnAccounts, HandleReadAccounts, RunTimerAccounts, ResetAccounts DEF LoopStep
  <2>5. QED
    BY <1>2, <2>1, <2>2, <2>3, <2>4 DEF Next
<1>3. QED
  BY <1>1, <1>2

LEMMA AccountSuffices == AccountInv => TimersAccounted
<1> SUFFICES ASSUME AccountInv PROVE TimersAccounted
  OBVIOUS
<1>1. ToSet(expired) = {expired[k] : k \in DOMAIN expired}
  BY DEF ToSet
<1>2. 0 \notin batch
  <2>1. batch \subseteq Sequences /\ 0 \notin Sequences
    BY DEF AccountInv, TypeInv, TypeOK, Sequences
  <2>2. QED
    BY <2>1
<1>3. BatchIsAlive
  <2>1. \A a \in ToSet(expired) : heap[a] \in batch
    BY <1>1, LiveFacts
  <2>2. \A s \in batch : \E a \in ToSet(expired) : heap[a] = s
    BY <1>1 DEF AccountInv, BatchInv
  <2>3. QED
    BY <1>2, <2>1, <2>2 DEF BatchIsAlive
<1>4. \A s : s \in QueuedAdds <=> Waiting(s)
  <2>1. ToSet(pendingFunctors) = {pendingFunctors[k] : k \in DOMAIN pendingFunctors}
    BY DEF ToSet
  <2>2. ASSUME NEW s, s \in QueuedAdds PROVE Waiting(s)
    <3>1. PICK f \in ToSet(pendingFunctors) : f.op = "add" /\ f.id[2] = s
      BY <2>2 DEF QueuedAdds
    <3>2. QED
      BY <2>1, <3>1 DEF Waiting, Adds
  <2>3. ASSUME NEW s, Waiting(s) PROVE s \in QueuedAdds
    <3>1. PICK k \in DOMAIN pendingFunctors :
             Adds(pendingFunctors[k]) /\ pendingFunctors[k].id[2] = s
      BY <2>3 DEF Waiting
    <3>2. pendingFunctors[k] \in ToSet(pendingFunctors)
      BY <2>1
    <3>3. QED
      BY <3>1, <3>2 DEF QueuedAdds, Adds
  <2>4. QED
    BY <2>2, <2>3
<1>5. EveryTimerOwned
  <2> DEFINE live == {heap[a] : a \in Addrs} \ {0}
             known == {t[2] : t \in activeTimers}
  <2>1. \A s : s \in known <=> Active(s)
    BY DEF Active
  <2>2. heap \in [Addrs -> 0..MaxTimers] /\ created \in 0..MaxTimers
    BY DEF AccountInv, TypeInv, TypeOK
  <2>3. ASSUME NEW s \in live PROVE Waiting(s) \/ Active(s) \/ s \in batch
    <3>1. PICK a \in Addrs : heap[a] = s /\ s \in Sequences
      BY <2>2 DEF Sequences
    <3>2. QED
      BY <3>1 DEF AccountInv, OwnerInv
  <2>4. ASSUME NEW s, Waiting(s) \/ Active(s) \/ s \in batch PROVE s \in live
    <3>1. s \in 1..created
      BY <2>4, LiveFacts
    <3>2. \E a \in Addrs : heap[a] = s
      <4>1. CASE Waiting(s)
        BY <4>1, LiveFacts DEF Waiting, AccountInv, QueueInv
      <4>2. CASE Active(s)
        BY <4>2, LiveFacts DEF Active
      <4>3. CASE s \in batch
        BY <4>3, LiveFacts DEF AccountInv, BatchInv
      <4>4. QED
        BY <2>4, <4>1, <4>2, <4>3
    <3>3. QED
      BY <2>2, <3>1, <3>2
  <2>5. ASSUME NEW s PROVE /\ ~(Waiting(s) /\ Active(s))
                           /\ ~(Waiting(s) /\ s \in batch)
                           /\ ~(Active(s) /\ s \in batch)
    <3>1. Waiting(s) \/ Active(s) \/ s \in batch => s \in Sequences
      BY <2>2, LiveFacts, TimerQueueAssumption DEF Sequences
    <3>2. QED
      BY <3>1 DEF AccountInv, OwnerInv
  <2> HIDE DEF live, known
  <2>6. live = QueuedAdds \cup known \cup batch
    BY <1>4, <2>1, <2>3, <2>4
  <2>7. QueuedAdds \cap known = {} /\ QueuedAdds \cap batch = {} /\ known \cap batch = {}
    BY <1>4, <2>1, <2>5
  <2>8. QED
    BY <2>6, <2>7 DEF EveryTimerOwned, live, known
<1>6. TypeOK /\ SetsAgree
  BY DEF AccountInv, TypeInv
<1>7. QED
  BY <1>3, <1>5, <1>6 DEF TimersAccounted

\* timers_ and activeTimers_ agree with the heap, a batch holds live timers, and
\* every live timer has exactly one owner (TimerQueue.cc:157-250), whatever the
\* allocator returns and however calls and events are interleaved.
THEOREM AccountCorrect == Spec => []TimersAccounted
<1>1. Spec => []AccountInv
  BY AccountInit, AccountStep, PTL DEF Spec
<1>2. QED
  BY <1>1, AccountSuffices, PTL
-----------------------------------------------------------------------------
(* The timerfd *)

LEMMA EarliestIs ==
    ASSUME NEW ts, ts \subseteq Nat \X Addrs, NEW e \in Nat,
           \A t \in ts : e <= t[1], \E t \in ts : t[1] = e
    PROVE  Earliest(ts) = e
<1>1. ts # {} /\ \A t \in ts : t[1] \in Nat
  OBVIOUS
<1>2. /\ Earliest(ts) \in Nat
      /\ \A t \in ts : Earliest(ts) <= t[1]
      /\ \E t \in ts : t[1] = Earliest(ts)
  BY <1>1, EarliestIsLeast
<1>3. Earliest(ts) <= e /\ e <= Earliest(ts)
  BY <1>2
<1>4. QED
  BY <1>2, <1>3

\* addTimerInLoop sets the timerfd if, and only if, it has to.
LEMMA AddTimerArms ==
    ASSUME AccountInv, NoOversleep, ~calling, ~active,
           NEW a \in Addrs, NEW s, NEW when \in Nat, AddTimerInLoop(a, s, when)
    PROVE  armed' <= HowMuchTimeFromNow(Earliest(timers'))
<1>1. /\ timers' = timers \cup {<<when, a>>}
      /\ armed' = IF EarliestChanged(when, timers) THEN HowMuchTimeFromNow(when) ELSE armed
  BY DEF AddTimerInLoop
<1>2. timers \subseteq Nat \X Addrs /\ armed \in Nat /\ now \in Nat
  BY TimerQueueAssumption DEF AccountInv, TypeInv, TypeOK
<1>3. timers' \subseteq Nat \X Addrs /\ <<when, a>>[1] = when /\ <<when, a>> \in timers'
      /\ \A t \in timers : t[1] \in Nat
  BY <1>1, <1>2
<1>4. HowMuchTimeFromNow(when) \in Nat
  BY <1>2 DEF HowMuchTimeFromNow
<1>5. CASE EarliestChanged(when, timers)
  <2>1. \A t \in timers : when <= t[1]
    <3>1. CASE timers = {}
      BY <3>1
    <3>2. CASE timers # {} /\ when < Earliest(timers)
      BY <1>2, <1>3, <3>2, EarliestIsLeast
    <3>3. QED
      BY <1>5, <3>1, <3>2 DEF EarliestChanged
  <2>2. \A t \in timers' : when <= t[1]
    BY <1>1, <1>3, <2>1
  <2>3. Earliest(timers') = when
    BY <1>3, <2>2, EarliestIs
  <2>4. QED
    BY <1>1, <1>4, <1>5, <2>3
<1>6. CASE ~EarliestChanged(when, timers)
  <2>1. timers # {} /\ ~(when < Earliest(timers))
    BY <1>6 DEF EarliestChanged
  <2>2. /\ Earliest(timers) \in Nat
        /\ \A t \in timers : Earliest(timers) <= t[1]
        /\ \E t \in timers : t[1] = Earliest(timers)
    BY <1>2, <2>1, EarliestIsLeast
  <2>3. \A t \in timers' : Earliest(timers) <= t[1]
    BY <1>1, <1>3, <2>1, <2>2
  <2>4. Earliest(timers') = Earliest(timers)
    BY <1>1, <1>3, <2>2, <2>3, EarliestIs
  <2>5. armed <= HowMuchTimeFromNow(Earliest(timers))
    BY <2>1 DEF NoOversleep
  <2>6. QED
    BY <1>1, <1>6, <2>4, <2>5
<1>7. QED
  BY <1>5, <1>6

\* Fewer timers are due no earlier.
LEMMA FewerTimers ==
    ASSUME AccountInv, NoOversleep, timers' \subseteq timers,
           UNCHANGED <<now, armed, active, calling>>
    PROVE  NoOversleep'
<1> SUFFICES ASSUME timers' # {}, ~calling', ~active'
             PROVE  armed' <= HowMuchTimeFromNow(Earliest(timers))'
  BY DEF NoOversleep
<1>1. timers \subseteq Nat \X Addrs /\ armed \in Nat /\ now \in Nat
  BY TimerQueueAssumption DEF AccountInv, TypeInv, TypeOK
<1>2. timers # {} /\ timers' \subseteq Nat \X Addrs
  BY <1>1
<1>3. /\ Earliest(timers) \in Nat /\ Earliest(timers') \in Nat
      /\ \A t \in timers : Earliest(timers) <= t[1]
      /\ \E t \in timers' : t[1] = Earliest(timers')
  BY <1>1, <1>2, EarliestIsLeast
<1>4. Earliest(timers) <= Earliest(timers')
  BY <1>3
<1>5. armed <= HowMuchTimeFromNow(Earliest(timers))
  BY <1>2 DEF NoOversleep
<1>6. armed <= HowMuchTimeFromNow(Earliest(timers'))
  BY <1>1, <1>3, <1>4, <1>5 DEF HowMuchTimeFromNow
<1>7. QED
  BY <1>6 DEF HowMuchTimeFromNow

\* The clock and the timerfd run together.
LEMMA TickArms ==
    ASSUME AccountInv, TimeInv, Tick
    PROVE  NoOversleep'
<1> SUFFICES ASSUME timers' # {}, ~calling', ~active'
             PROVE  armed' <= HowMuchTimeFromNow(Earliest(timers))'
  BY DEF NoOversleep
<1>1. UNCHANGED <<timers, calling, active>>
  BY DEF Tick, setVars, batchVars
<1>2. timers \subseteq Nat \X Addrs /\ armed \in Nat /\ now \in Nat /\ now' \in {now, now + 1}
      /\ armed' = IF armed \in {0, Off} THEN armed ELSE armed - 1
  BY TimerQueueAssumption DEF AccountInv, TypeInv, TypeOK, Tick
<1> DEFINE first == Earliest(timers)
<1>3. first \in Nat /\ \E t \in timers : t[1] = first
  BY <1>1, <1>2, EarliestIsLeast
<1>4. first < now + Off
  <2>1. PICK t \in timers : t[1] = first
    BY <1>3
  <2>2. t[1] = expiration[heap[t[2]]] /\ heap[t[2]] \in Sequences
    BY TimersFacts
  <2>3. heap[t[2]] \in 0..MaxTimers
    BY <2>2 DEF Sequences
  <2>4. t[1] < now + Off
    BY <2>2, <2>3 DEF TimeInv, TimeBounds
  <2>5. QED
    BY <2>1, <2>4
<1>5. armed <= HowMuchTimeFromNow(first)
  BY <1>1 DEF TimeInv, NoOversleep
<1> HIDE DEF first
<1>6. Off \in Nat /\ Off > 1
  BY TimerQueueAssumption DEF Off
<1>7. armed # Off
  BY <1>2, <1>3, <1>4, <1>5, <1>6 DEF HowMuchTimeFromNow
<1>8. armed' <= IF first > now' THEN first - now' ELSE 1
  <2>0. armed \in Nat /\ first \in Nat /\ now \in Nat /\ now' \in Nat
    BY <1>2, <1>3
  <2>1. CASE armed = 0
    <3>1. armed' = 0
      BY <1>2, <2>1
    <3>2. \A x, y \in Nat : 0 <= IF x > y THEN x - y ELSE 1
      OBVIOUS
    <3>3. 0 <= IF first > now' THEN first - now' ELSE 1
      BY <2>0, <3>2
    <3>4. QED
      BY <3>1, <3>3, Zenon
  <2>2. CASE armed # 0
    <3>1. armed' = armed - 1
      BY <1>2, <1>7, <2>2
    <3>2. armed <= IF first > now THEN first - now ELSE 1
      BY <1>5 DEF HowMuchTimeFromNow
    <3>3. CASE now' = now
      BY <2>0, <3>1, <3>2, <3>3
    <3>4. CASE now' = now + 1
      BY <2>0, <3>1, <3>2, <3>4
    <3>5. QED
      BY <1>2, <3>3, <3>4
  <2>3. QED
    BY <2>1, <2>2
<1>9. Earliest(timers') = first
  BY <1>1 DEF first
<1>10. QED
  BY <1>8, <1>9 DEF HowMuchTimeFromNow

\* reset sets the timerfd for the earliest timer there is.
LEMMA ResetArms ==
    ASSUME AccountInv, Reset
    PROVE  NoOversleep'
<1> SUFFICES ASSUME timers' # {}, ~calling', ~active'
             PROVE  armed' <= HowMuchTimeFromNow(Earliest(timers))'
  BY DEF NoOversleep
<1>1. armed' = HowMuchTimeFromNow(Earliest(timers')) /\ now' = now
  BY DEF Reset
<1>2. timers' \subseteq Nat \X Addrs
  BY ResetFacts
<1>3. Earliest(timers') \in Nat
  BY <1>2, EarliestIsLeast
<1>4. now \in Nat
  BY TimerQueueAssumption DEF AccountInv, TypeInv, TypeOK
<1>5. QED
  BY <1>1, <1>3, <1>4 DEF HowMuchTimeFromNow

\* What addTimer and reset compute stays within Off.
LEMMA TimeBoundsStep ==
    ASSUME AccountInv, TimeBounds, Next
    PROVE  TimeBounds'
<1>1. /\ now \in Nat /\ readAt \in Nat /\ Off \in Nat
      /\ expiration \in [0..MaxTimers -> Nat] /\ interval \in [0..MaxTimers -> Nat]
  BY TimerQueueAssumption DEF AccountInv, TypeInv, TypeOK, Off
<1>2. ASSUME NEW a \in Addrs, NEW d \in Delays, NEW i \in Intervals,
             AddTimer(a, d, i) \/ AddTimerForeign(a, d, i)
      PROVE  TimeBounds'
  <2>1. d \in 0..(Off - 1) /\ i \in 0..(Off - 1)
    BY TimerQueueAssumption
  <2>2. d \in Nat /\ i \in Nat /\ now + d \in Nat /\ d < Off /\ i < Off
    BY <1>1, <2>1
  <2>3. NewTimer(a, now + d, i) /\ UNCHANGED <<now, readAt>>
    BY <1>2 DEF AddTimer, AddTimerForeign, batchVars
  <2>4. /\ expiration'[created'] = now + d /\ interval'[created'] = i
        /\ \A s \in 0..MaxTimers : s # created' =>
              expiration'[s] = expiration[s] /\ interval'[s] = interval[s]
    BY <2>2, <2>3, NewTimerFacts
  <2>5. ASSUME NEW s \in 0..MaxTimers
        PROVE  expiration'[s] < now + Off /\ interval'[s] < Off
    <3>1. CASE s = created'
      BY <1>1, <2>2, <2>4, <3>1
    <3>2. CASE s # created'
      BY <2>4, <3>2 DEF TimeBounds
    <3>3. QED
      BY <3>1, <3>2
  <2>6. QED
    BY <2>3, <2>5 DEF TimeBounds
<1>3. ASSUME UNCHANGED <<now, readAt, expiration, interval>> PROVE TimeBounds'
  BY <1>3 DEF TimeBounds
<1>4. ASSUME NEW id \in ids, Cancel(id) \/ CancelForeign(id) PROVE TimeBounds'
  <2>1. UNCHANGED <<now, readAt, expiration, interval>>
    BY <1>4 DEF Cancel, CancelForeign, batchVars, timerVars
  <2>2. QED
    BY <1>3, <2>1
<1>5. CASE Tick
  <2>1. UNCHANGED <<readAt, expiration, interval>> /\ now' \in {now, now + 1}
    BY <1>5 DEF Tick, batchVars, timerVars
  <2>2. now' \in Nat /\ now <= now'
    BY <1>1, <2>1
  <2>3. readAt' <= now'
    BY <1>1, <2>1, <2>2 DEF TimeBounds
  <2>4. ASSUME NEW s \in 0..MaxTimers
        PROVE  expiration'[s] < now' + Off /\ interval'[s] < Off
    <3>1. /\ expiration[s] < now + Off /\ interval[s] < Off
          /\ expiration[s] \in Nat /\ interval[s] \in Nat
      BY <1>1 DEF TimeBounds
    <3>2. QED
      BY <1>1, <2>1, <2>2, <3>1
  <2>5. QED
    BY <2>3, <2>4 DEF TimeBounds
<1>6. CASE CallAddTimer \/ CallCancel \/ PollReturn \/ RunTimer
  <2>1. UNCHANGED <<now, readAt, expiration, interval>>
    BY <1>6 DEF CallAddTimer, CallCancel, PollReturn, RunTimer, batchVars, timerVars
  <2>2. QED
    BY <1>3, <2>1
<1>7. CASE HandleRead
  <2>1. UNCHANGED <<now, expiration, interval>> /\ readAt' = now
    BY <1>7 DEF HandleRead, timerVars
  <2>2. QED
    BY <1>1, <2>1 DEF TimeBounds
<1>8. CASE Reset
  <2>1. UNCHANGED <<now, interval>> /\ readAt' = 0
    BY <1>8 DEF Reset
  <2>2. ASSUME NEW s \in 0..MaxTimers
        PROVE  expiration'[s] < now + Off /\ interval[s] < Off
    <3>1. \/ expiration'[s] = expiration[s]
          \/ expiration'[s] = readAt + interval[s]
      BY <1>8, ResetFacts
    <3>2. /\ expiration[s] < now + Off /\ interval[s] < Off /\ readAt <= now
          /\ expiration[s] \in Nat /\ interval[s] \in Nat
      BY <1>1 DEF TimeBounds
    <3>3. readAt + interval[s] < now + Off
      BY <1>1, <3>2
    <3>4. QED
      BY <3>1, <3>2, <3>3
  <2>3. QED
    BY <1>1, <2>1, <2>2 DEF TimeBounds
<1>9. QED
  BY <1>2, <1>4, <1>5, <1>6, <1>7, <1>8 DEF Next, LoopStep

LEMMA OversleepStep ==
    ASSUME AccountInv, TimeInv, Next
    PROVE  NoOversleep'
<1>1. NoOversleep /\ now \in Nat
  BY TimerQueueAssumption DEF TimeInv, AccountInv, TypeInv, TypeOK
<1>2. ASSUME UNCHANGED <<now, armed, active, timers, calling>> PROVE NoOversleep'
  BY <1>1, <1>2, FewerTimers
<1>3. ASSUME NEW a \in Addrs, NEW s, NEW when \in Nat, AddTimerInLoop(a, s, when),
             UNCHANGED <<now, active, calling>>
      PROVE  NoOversleep'
  <2> SUFFICES ASSUME timers' # {}, ~calling', ~active'
               PROVE  armed' <= HowMuchTimeFromNow(Earliest(timers))'
    BY DEF NoOversleep
  <2>1. armed' <= HowMuchTimeFromNow(Earliest(timers'))
    BY <1>1, <1>3, AddTimerArms
  <2>2. QED
    BY <1>3, <2>1 DEF HowMuchTimeFromNow
<1>4. ASSUME NEW a \in Addrs, NEW d \in Delays, NEW i \in Intervals,
             AddTimer(a, d, i) \/ AddTimerForeign(a, d, i)
      PROVE  NoOversleep'
  <2>1. CASE AddTimer(a, d, i)
    <3>1. AddTimerInLoop(a, created', now + d) /\ UNCHANGED <<now, active, calling>>
      BY <2>1 DEF AddTimer, batchVars
    <3>2. d \in Nat
      BY TimerQueueAssumption
    <3>3. now + d \in Nat
      BY <1>1, <3>2
    <3>4. QED
      BY <1>3, <3>1, <3>3
  <2>2. CASE AddTimerForeign(a, d, i)
    <3>1. UNCHANGED <<now, armed, active, timers, calling>>
      BY <2>2 DEF AddTimerForeign, setVars, batchVars
    <3>2. QED
      BY <1>2, <3>1
  <2>3. QED
    BY <1>4, <2>1, <2>2
<1>5. ASSUME NEW id, CancelInLoop(id), UNCHANGED <<now, armed, active, calling>>
      PROVE  NoOversleep'
  <2>1. timers' \subseteq timers
    BY <1>5 DEF CancelInLoop, CancelActive, CancelOther, setVars
  <2>2. QED
    BY <1>1, <1>5, <2>1, FewerTimers
<1>6. ASSUME NEW id \in ids, Cancel(id) \/ CancelForeign(id) PROVE NoOversleep'
  <2>1. CASE Cancel(id)
    <3>1. CancelInLoop(id) /\ UNCHANGED <<now, armed, active, calling>>
      BY <2>1 DEF Cancel
    <3>2. QED
      BY <1>5, <3>1
  <2>2. CASE CancelForeign(id)
    <3>1. UNCHANGED <<now, armed, active, timers, calling>>
      BY <2>2 DEF CancelForeign, setVars, batchVars
    <3>2. QED
      BY <1>2, <3>1
  <2>3. QED
    BY <1>6, <2>1, <2>2
<1>7. CASE Tick
  BY <1>7, TickArms
<1>8. CASE CallAddTimer
  <2> DEFINE id == pendingFunctors[1].id
  <2>1. pendingFunctors # <<>> /\ Head(pendingFunctors) = pendingFunctors[1]
        /\ 1 \in DOMAIN pendingFunctors
    BY <1>8, QueueShifts DEF AccountInv, TypeInv, CallAddTimer
  <2>2. AddTimerInLoop(id[1], id[2], expiration[id[2]]) /\ UNCHANGED <<now, active, calling>>
    BY <1>8, <2>1 DEF CallAddTimer, batchVars
  <2>3. id[1] \in Addrs /\ id[2] \in Sequences
    BY <2>1, LiveFacts
  <2> HIDE DEF id
  <2>4. expiration[id[2]] \in Nat
    <3>1. id[2] \in 0..MaxTimers
      BY <2>3 DEF Sequences
    <3>2. QED
      BY <3>1 DEF AccountInv, TypeInv, TypeOK
  <2>5. QED
    BY <1>3, <2>2, <2>3, <2>4
<1>9. CASE CallCancel
  <2>1. CancelInLoop(Head(pendingFunctors).id) /\ UNCHANGED <<now, armed, active, calling>>
    BY <1>9 DEF CallCancel
  <2>2. QED
    BY <1>5, <2>1
<1>10. CASE PollReturn
  BY <1>10 DEF PollReturn, NoOversleep
<1>11. CASE HandleRead
  BY <1>11 DEF HandleRead, NoOversleep
<1>12. CASE RunTimer
  BY <1>12 DEF RunTimer, NoOversleep
<1>13. CASE Reset
  BY <1>13, ResetArms
<1>14. QED
  BY <1>4, <1>6, <1>7, <1>8, <1>9, <1>10, <1>11, <1>12, <1>13 DEF Next, LoopStep

LEMMA TimeStep == AccountInv /\ TimeInv /\ [Next]_vars => TimeInv'
<1> SUFFICES ASSUME AccountInv, TimeInv, [Next]_vars PROVE TimeInv'
  OBVIOUS
<1>1. TimeBounds
  BY DEF TimeInv
<1>2. CASE Next
  <2>1. TimeBounds' /\ NoOversleep'
    BY <1>1, <1>2, TimeBoundsStep, OversleepStep
  <2>2. QED
    BY <2>1 DEF TimeInv
<1>3. CASE UNCHANGED vars
  <2>1. UNCHANGED <<now, armed, active, timers, calling, expiration, interval, readAt>>
    BY <1>3 DEF vars, timerVars, setVars, batchVars
  <2>2. NoOversleep'
    BY <2>1, FewerTimers DEF TimeInv
  <2>3. TimeBounds'
    BY <1>1, <2>1 DEF TimeBounds
  <2>4. QED
    BY <2>2, <2>3 DEF TimeInv
<1>4. QED
  BY <1>2, <1>3

LEMMA TimeInit == Init => TimeInv
<1> SUFFICES ASSUME Init PROVE TimeInv
  OBVIOUS
<1>1. 0 < Off /\ 0 <= 0 /\ 0 < 0 + Off
  BY TimerQueueAssumption DEF Off
<1>2. \A s \in 0..MaxTimers : expiration[s] = 0 /\ interval[s] = 0
  BY DEF Init
<1>3. now = 0 /\ readAt = 0 /\ timers = {}
  BY DEF Init
<1>4. QED
  BY <1>1, <1>2, <1>3 DEF TimeInv, TimeBounds, NoOversleep

\* While there are timers the timerfd is set for the earliest of them
\* (TimerQueue.cc:146-155, 241-249), for all delays and intervals.
THEOREM ArmedCorrect == Spec => []NoOversleep
<1>1. Spec => []AccountInv
  BY AccountInit, AccountStep, PTL DEF Spec
<1>2. TimeInv => NoOversleep
  BY DEF TimeInv
<1>3. QED
  BY <1>1, <1>2, TimeInit, TimeStep, PTL DEF Spec
-----------------------------------------------------------------------------
(* What a batch puts back *)

\* Who waits and who is active after a step, in terms of before: somebody new
\* (n), the batch, or those that were.
LEMMA WhoWaits ==
    ASSUME AccountInv, Next
    PROVE  /\ created <= created'
           /\ \A s \in Sequences : Waiting(s)' => Waiting(s) \/ s > created
           /\ \A s \in Sequences : Active(s)' =>
                 \/ Waiting(s) \/ Active(s) \/ s > created
                 \/ \E a \in Restarted : calling /\ heap[a] = s /\ ~calling'
           /\ \A s \in batch' : s \in batch \/ (Active(s) /\ HandleRead)
<1>1. created \in Nat /\ batch \subseteq Sequences
  BY DEF AccountInv, TypeInv, TypeOK
<1>2. ASSUME UNCHANGED <<created, activeTimers, pendingFunctors, batch>>
      PROVE  /\ created <= created' /\ UNCHANGED batch
             /\ \A s : (Waiting(s)' => Waiting(s)) /\ (Active(s)' => Active(s))
  BY <1>1, <1>2 DEF Waiting, Active
<1>3. ASSUME NEW a \in Addrs, NEW d \in Delays, NEW i \in Intervals,
             AddTimer(a, d, i) \/ AddTimerForeign(a, d, i)
      PROVE  /\ created <= created' /\ UNCHANGED batch
             /\ \A s : Waiting(s)' => Waiting(s) \/ s > created
             /\ \A s : Active(s)' => Active(s) \/ s > created
  <2>1. NewTimer(a, now + d, i)
    BY <1>3 DEF AddTimer, AddTimerForeign
  <2>2. created' = created + 1
    BY <2>1 DEF NewTimer
  <2>3. CASE AddTimer(a, d, i)
    <3>1. /\ activeTimers' = activeTimers \cup {<<a, created'>>}
          /\ UNCHANGED <<pendingFunctors, batch>>
      BY <2>3 DEF AddTimer, AddTimerInLoop, batchVars
    <3>2. \A s : Waiting(s)' => Waiting(s)
      BY <3>1 DEF Waiting
    <3>3. <<a, created'>>[2] = created'
      OBVIOUS
    <3>4. \A s : Active(s)' => Active(s) \/ s = created'
      BY <3>1, <3>3, Zenon DEF Active
    <3>5. QED
      BY <1>1, <2>2, <3>1, <3>2, <3>4
  <2>4. CASE AddTimerForeign(a, d, i)
    <3> DEFINE f == [op |-> "add", id |-> <<a, created'>>]
    <3>1. pendingFunctors' = Append(pendingFunctors, f) /\ UNCHANGED <<activeTimers, batch>>
      BY <2>4 DEF AddTimerForeign, setVars, batchVars
    <3>2. f \in Request /\ f.id[2] = created'
      <4>1. created < MaxTimers
        BY <2>1 DEF NewTimer
      <4>2. created' \in Sequences
        BY <1>1, <2>2, <4>1, TimerQueueAssumption DEF Sequences
      <4>3. QED
        BY <4>2 DEF Request, TimerIds
    <3> HIDE DEF f
    <3>3. /\ \A k \in DOMAIN pendingFunctors : pendingFunctors'[k] = pendingFunctors[k]
          /\ \A k \in DOMAIN pendingFunctors' :
                k \in DOMAIN pendingFunctors \/ pendingFunctors'[k] = f
      BY <3>1, <3>2, QueueAppend DEF AccountInv, TypeInv
    <3>4. \A s : Waiting(s)' => Waiting(s) \/ s = created'
      BY <3>2, <3>3 DEF Waiting
    <3>5. \A s : Active(s)' => Active(s)
      BY <3>1 DEF Active
    <3>6. QED
      BY <1>1, <2>2, <3>1, <3>4, <3>5
  <2>5. QED
    BY <1>3, <2>3, <2>4
<1>4. ASSUME NEW id, CancelInLoop(id) PROVE \A s : Active(s)' => Active(s)
  BY <1>4 DEF CancelInLoop, CancelActive, CancelOther, setVars, Active
<1>5. ASSUME NEW id \in ids, Cancel(id) \/ CancelForeign(id)
      PROVE  /\ created <= created' /\ UNCHANGED batch
             /\ \A s : (Waiting(s)' => Waiting(s)) /\ (Active(s)' => Active(s))
  <2>1. CASE Cancel(id)
    <3>1. CancelInLoop(id) /\ UNCHANGED <<created, pendingFunctors, batch>>
      BY <2>1 DEF Cancel
    <3>2. \A s : Waiting(s)' => Waiting(s)
      BY <3>1 DEF Waiting
    <3>3. QED
      BY <1>1, <1>4, <3>1, <3>2
  <2>2. CASE CancelForeign(id)
    <3> DEFINE f == [op |-> "cancel", id |-> id]
    <3>1. /\ pendingFunctors' = Append(pendingFunctors, f)
          /\ UNCHANGED <<created, activeTimers, batch>>
      BY <2>2 DEF CancelForeign, setVars, batchVars, timerVars
    <3>2. f \in Request /\ ~Adds(f)
      BY DEF AccountInv, TypeInv, TypeOK, Request, Adds
    <3> HIDE DEF f
    <3>3. /\ \A k \in DOMAIN pendingFunctors : pendingFunctors'[k] = pendingFunctors[k]
          /\ \A k \in DOMAIN pendingFunctors' :
                k \in DOMAIN pendingFunctors \/ pendingFunctors'[k] = f
      BY <3>1, <3>2, QueueAppend DEF AccountInv, TypeInv
    <3>4. \A s : Waiting(s)' => Waiting(s)
      BY <3>2, <3>3 DEF Waiting
    <3>5. \A s : Active(s)' => Active(s)
      BY <3>1 DEF Active
    <3>6. QED
      BY <1>1, <3>1, <3>4, <3>5
  <2>3. QED
    BY <1>5, <2>1, <2>2
<1>6. CASE CallAddTimer \/ CallCancel
  <2>1. /\ pendingFunctors # <<>> /\ pendingFunctors' = Tail(pendingFunctors)
        /\ UNCHANGED <<created, batch>>
    BY <1>6 DEF CallAddTimer, CallCancel, timerVars, batchVars
  <2>2. pendingFunctors \in Seq(Request)
    BY DEF AccountInv, TypeInv
  <2>3. /\ 1 \in DOMAIN pendingFunctors /\ Head(pendingFunctors) = pendingFunctors[1]
        /\ \A k \in DOMAIN pendingFunctors' :
              k + 1 \in DOMAIN pendingFunctors /\ pendingFunctors'[k] = pendingFunctors[k + 1]
    BY <2>1, <2>2, QueueTail
  <2>4. \A s : Waiting(s)' => Waiting(s)
    BY <2>3 DEF Waiting
  <2>5. \A s : Active(s)' => Active(s) \/ Waiting(s)
    <3>1. CASE CallCancel
      BY <1>4, <3>1 DEF CallCancel
    <3>2. CASE CallAddTimer
      <4> DEFINE id == pendingFunctors[1].id
      <4>1. activeTimers' = activeTimers \cup {<<id[1], id[2]>>} /\ Adds(pendingFunctors[1])
        BY <2>3, <3>2 DEF CallAddTimer, AddTimerInLoop, Adds
      <4>2. Waiting(id[2])
        BY <2>3, <4>1 DEF Waiting
      <4> HIDE DEF id
      <4>3. <<id[1], id[2]>>[2] = id[2]
        OBVIOUS
      <4>4. \A s : Active(s)' => Active(s) \/ s = id[2]
        BY <4>1, <4>3, Zenon DEF Active
      <4>5. QED
        BY <4>2, <4>4
    <3>3. QED
      BY <1>6, <3>1, <3>2
  <2>6. QED
    BY <1>1, <2>1, <2>4, <2>5
<1>7. CASE Tick \/ PollReturn \/ RunTimer
  <2>1. UNCHANGED <<created, activeTimers, pendingFunctors, batch>>
    BY <1>7 DEF Tick, PollReturn, RunTimer, timerVars, setVars, batchVars
  <2>2. QED
    BY <1>2, <2>1
<1>8. CASE HandleRead
  <2>1. UNCHANGED <<created, pendingFunctors>> /\ activeTimers' \subseteq activeTimers
        /\ batch' = {heap[t[2]] : t \in {u \in timers : u[1] <= now}}
    BY <1>8 DEF HandleRead, timerVars
  <2>2. \A s : (Waiting(s)' => Waiting(s)) /\ (Active(s)' => Active(s))
    BY <2>1 DEF Waiting, Active
  <2>3. ASSUME NEW s \in batch' PROVE Active(s)
    <3>1. PICK t \in timers : heap[t[2]] = s
      BY <2>1
    <3>2. <<t[2], heap[t[2]]>> \in activeTimers /\ <<t[2], heap[t[2]]>>[2] = s
      BY <3>1, TimersFacts
    <3>3. QED
      BY <3>2 DEF Active
  <2>4. QED
    BY <1>1, <1>8, <2>1, <2>2, <2>3
<1>9. CASE Reset
  <2>1. UNCHANGED <<created, pendingFunctors>> /\ batch' = {} /\ calling /\ ~calling'
        /\ activeTimers' = activeTimers \cup {<<a, heap[a]>> : a \in Restarted}
    BY <1>9 DEF Reset
  <2>2. \A s : Waiting(s)' => Waiting(s)
    BY <2>1 DEF Waiting
  <2>3. ASSUME NEW s, Active(s)' PROVE Active(s) \/ \E a \in Restarted : heap[a] = s
    <3>1. PICK t \in activeTimers' : t[2] = s
      BY <2>3 DEF Active
    <3>2. CASE t \in activeTimers
      BY <3>1, <3>2 DEF Active
    <3>3. CASE t \in {<<a, heap[a]>> : a \in Restarted}
      <4>1. PICK a \in Restarted : t = <<a, heap[a]>>
        BY <3>3
      <4>2. QED
        BY <3>1, <4>1
    <3>4. QED
      BY <2>1, <3>1, <3>2, <3>3
  <2>4. QED
    BY <1>1, <2>1, <2>2, <2>3
<1>10. CASE Tick \/ CallAddTimer \/ CallCancel \/ LoopStep
  BY <1>6, <1>7, <1>8, <1>9, <1>10 DEF LoopStep
<1>11. QED
  BY <1>3, <1>5, <1>10 DEF Next

\* What a step never touches: the interval of a timer that exists, the count of
\* one that does not run, the timers of a batch that is neither taken nor put
\* back, and the cancellations of that batch.
LEMMA TimersKept ==
    ASSUME AccountInv, Next
    PROVE  /\ \A s \in Sequences : (s <= created \/ s > created') => interval'[s] = interval[s]
           /\ UNCHANGED runs \/ RunTimer
           /\ \/ HandleRead \/ Reset
              \/ /\ expired' = expired /\ (next' = next \/ RunTimer)
                 /\ \A k \in DOMAIN expired : heap'[expired[k]] = heap[expired[k]]
           /\ batch # {} => cancelingTimers \subseteq cancelingTimers'
<1>1. created \in 0..MaxTimers /\ interval \in [0..MaxTimers -> Nat]
      /\ heap \in [Addrs -> 0..MaxTimers]
  BY DEF AccountInv, TypeInv, TypeOK
<1>2. ASSUME NEW a \in Addrs, NEW d \in Delays, NEW i \in Intervals,
             AddTimer(a, d, i) \/ AddTimerForeign(a, d, i)
      PROVE  /\ \A s \in Sequences :
                   (s <= created \/ s > created') => interval'[s] = interval[s]
             /\ UNCHANGED <<runs, expired, next, cancelingTimers>>
             /\ \A k \in DOMAIN expired : heap'[expired[k]] = heap[expired[k]]
  <2>1. NewTimer(a, now + d, i) /\ UNCHANGED <<runs, expired, next, cancelingTimers>>
    BY <1>2 DEF AddTimer, AddTimerForeign, batchVars
  <2>2. now + d \in Nat /\ i \in Nat
    BY DelayFacts
  <2>3. /\ created' = created + 1 /\ heap[a] = 0
        /\ \A b \in Addrs : b # a => heap'[b] = heap[b]
        /\ \A s \in 0..MaxTimers : s # created' => interval'[s] = interval[s]
    BY <2>1, <2>2, NewTimerFacts
  <2>4. \A k \in DOMAIN expired : heap'[expired[k]] = heap[expired[k]]
    BY <2>3, LiveFacts
  <2>5. ASSUME NEW s \in Sequences, s <= created \/ s > created' PROVE interval'[s] = interval[s]
    <3>1. s \in 0..MaxTimers /\ s # created'
      BY <1>1, <2>3, <2>5 DEF Sequences
    <3>2. QED
      BY <2>3, <3>1
  <2>6. QED
    BY <2>1, <2>4, <2>5
<1>3. ASSUME NEW id \in ids, CancelInLoop(id)
      PROVE  /\ \A k \in DOMAIN expired : heap'[expired[k]] = heap[expired[k]]
             /\ cancelingTimers \subseteq cancelingTimers'
  <2>1. CASE CancelActive(id)
    <3>1. /\ id \in activeTimers /\ UNCHANGED cancelingTimers
          /\ heap' = [heap EXCEPT ![id[1]] = 0]
      BY <2>1 DEF CancelActive
    <3>2. heap[id[1]] = id[2] /\ Active(id[2]) /\ id[2] \in Sequences
      BY <3>1, LiveFacts DEF Active
    <3>3. id[2] \notin batch
      BY <3>2 DEF AccountInv, OwnerInv
    <3>4. \A k \in DOMAIN expired : expired[k] \in Addrs /\ expired[k] # id[1]
      BY <3>2, <3>3, LiveFacts
    <3>5. QED
      BY <1>1, <3>1, <3>4
  <2>2. CASE CancelOther(id)
    BY <2>2 DEF CancelOther
  <2>3. QED
    BY <1>3, <2>1, <2>2 DEF CancelInLoop
<1>4. ASSUME NEW id \in ids, Cancel(id) \/ CancelForeign(id)
      PROVE  /\ UNCHANGED <<interval, runs, expired, next>>
             /\ \A k \in DOMAIN expired : heap'[expired[k]] = heap[expired[k]]
             /\ cancelingTimers \subseteq cancelingTimers'
  <2>1. CASE Cancel(id)
    <3>1. CancelInLoop(id) /\ UNCHANGED <<interval, runs, expired, next>>
      BY <2>1 DEF Cancel
    <3>2. QED
      BY <1>3, <3>1
  <2>2. CASE CancelForeign(id)
    BY <2>2 DEF CancelForeign, timerVars, batchVars
  <2>3. QED
    BY <1>4, <2>1, <2>2
<1>5. CASE CallCancel
  <2>1. pendingFunctors # <<>> /\ CancelInLoop(Head(pendingFunctors).id)
        /\ UNCHANGED <<interval, runs, expired, next>>
    BY <1>5 DEF CallCancel
  <2>2. Head(pendingFunctors).id \in ids
    <3>1. pendingFunctors \in Seq(Request)
      BY DEF AccountInv, TypeInv
    <3>2. pendingFunctors' = Tail(pendingFunctors)
      BY <1>5 DEF CallCancel
    <3>3. 1 \in DOMAIN pendingFunctors /\ Head(pendingFunctors) = pendingFunctors[1]
      BY <2>1, <3>1, <3>2, QueueTail
    <3>4. QED
      BY <3>3, LiveFacts
  <2>3. QED
    BY <1>3, <2>1, <2>2
<1>6. CASE Tick \/ CallAddTimer \/ PollReturn
  <2>1. UNCHANGED <<interval, runs, expired, next, heap, cancelingTimers>>
    BY <1>6 DEF Tick, CallAddTimer, PollReturn, timerVars, batchVars
  <2>2. QED
    BY <2>1
<1>7. CASE RunTimer
  <2>1. UNCHANGED <<interval, expired, heap, cancelingTimers>>
    BY <1>7 DEF RunTimer, timerVars
  <2>2. QED
    BY <1>7, <2>1
<1>8. CASE HandleRead
  <2>1. UNCHANGED <<interval, runs>> /\ ~calling
    BY <1>8 DEF HandleRead, timerVars
  <2>2. batch = {}
    BY <2>1 DEF AccountInv, BatchInv
  <2>3. QED
    BY <1>8, <2>1, <2>2
<1>9. CASE Reset
  <2>1. UNCHANGED <<interval, runs, cancelingTimers>>
    BY <1>9 DEF Reset
  <2>2. QED
    BY <1>9, <2>1
<1>10. CASE Tick \/ CallAddTimer \/ CallCancel \/ LoopStep
  BY <1>5, <1>6, <1>7, <1>8, <1>9, <1>10 DEF LoopStep
<1>11. CASE \E id \in ids : Cancel(id) \/ CancelForeign(id)
  BY <1>4, <1>11
<1>12. CASE \E a \in Addrs, d \in Delays, i \in Intervals :
               AddTimer(a, d, i) \/ AddTimerForeign(a, d, i)
  BY <1>2, <1>12
<1>13. QED
  BY <1>10, <1>11, <1>12 DEF Next

LEMMA AccountTypes ==
    ASSUME AccountInv
    PROVE  /\ created \in Nat /\ heap \in [Addrs -> 0..MaxTimers] /\ batch \subseteq Sequences
           /\ activeTimers \subseteq TimerIds /\ cancelled \subseteq Sequences
           /\ interval \in [0..MaxTimers -> Nat] /\ runs \in [Sequences -> Nat]
           /\ next \in Nat /\ Sequences \subseteq Nat \ {0}
<1>1. TypeOK /\ TypeInv
  BY DEF AccountInv, TypeInv
<1>2. Len(expired) \in Nat
  BY <1>1, LenProperties DEF TypeOK
<1>3. next \in Nat
  BY <1>1, <1>2 DEF TypeOK
<1>4. Sequences \subseteq Nat \ {0}
  BY TimerQueueAssumption DEF Sequences
<1>5. created \in Nat
  BY <1>1, TimerQueueAssumption DEF TypeOK
<1>6. QED
  BY <1>1, <1>3, <1>4, <1>5 DEF TypeOK, TypeInv

\* Who is cancelled by a step is gone, or is in the batch and will not be put
\* back.
LEMMA NewlyCancelled ==
    ASSUME AccountInv, AccountInv', Next, NEW s \in cancelled' \ cancelled
    PROVE  /\ s <= created' /\ ~Waiting(s)' /\ ~Active(s)'
           /\ s \in batch' => \E i \in cancelingTimers' : i[2] = s
<1>1. PICK id \in ids : CancelInLoop(id) /\ UNCHANGED <<created, batch>>
  <2>1. CASE Tick \/ CallAddTimer \/ LoopStep
    <3>1. UNCHANGED cancelled
      BY <2>1 DEF Tick, CallAddTimer, LoopStep, PollReturn, HandleRead, RunTimer, Reset
    <3>2. QED
      BY <3>1
  <2>2. CASE CallCancel
    <3>1. pendingFunctors # <<>> /\ CancelInLoop(Head(pendingFunctors).id)
          /\ UNCHANGED <<created, batch>> /\ pendingFunctors' = Tail(pendingFunctors)
      BY <2>2 DEF CallCancel
    <3>2. pendingFunctors \in Seq(Request)
      BY DEF AccountInv, TypeInv
    <3>3. 1 \in DOMAIN pendingFunctors /\ Head(pendingFunctors) = pendingFunctors[1]
      BY <3>1, <3>2, QueueTail
    <3>4. Head(pendingFunctors).id \in ids
      BY <3>3, LiveFacts
    <3>5. QED
      BY <3>1, <3>4
  <2>3. CASE \E id \in ids : Cancel(id)
    BY <2>3 DEF Cancel
  <2>4. CASE \E id \in ids : CancelForeign(id)
    <3>1. UNCHANGED cancelled
      BY <2>4 DEF CancelForeign
    <3>2. QED
      BY <3>1
  <2>5. CASE \E a \in Addrs, d \in Delays, i \in Intervals :
                AddTimer(a, d, i) \/ AddTimerForeign(a, d, i)
    <3>1. UNCHANGED cancelled
      BY <2>5 DEF AddTimer, AddTimerForeign
    <3>2. QED
      BY <3>1
  <2>6. QED
    BY <2>1, <2>2, <2>3, <2>4, <2>5 DEF Next
<1>2. CASE CancelActive(id)
  <2>1. /\ id \in activeTimers /\ cancelled' = cancelled \cup {id[2]}
        /\ heap' = [heap EXCEPT ![id[1]] = 0]
    BY <1>2 DEF CancelActive
  <2>2. s = id[2] /\ id[1] \in Addrs /\ heap[id[1]] = s /\ s \in Sequences /\ Active(s)
    BY <2>1, LiveFacts DEF Active
  <2>3. s \notin batch /\ ~Waiting(s)
    BY <2>2 DEF AccountInv, OwnerInv
  <2>4. s \in 1..created /\ created \in Nat
    BY <2>2, LiveFacts, AccountTypes
  <2>5. \A b \in Addrs : heap'[b] # s
    <3>1. heap \in [Addrs -> 0..MaxTimers] /\ s # 0
      BY <2>2, AccountTypes
    <3>2. QED
      BY <2>1, <2>2, <3>1, LiveFacts
  <2>6. ~Active(s)'
    <3>1. \A t \in activeTimers' : t[1] \in Addrs /\ heap'[t[1]] = t[2]
      BY DEF AccountInv, SetsAgree, TypeInv, TypeOK, TimerIds
    <3>2. QED
      BY <2>5, <3>1 DEF Active
  <2>7. ~Waiting(s)'
    BY <2>2, <2>3, <2>4, WhoWaits
  <2>8. QED
    BY <1>1, <2>3, <2>4, <2>6, <2>7
<1>3. CASE CancelOther(id)
  <2>1. calling /\ s \in batch /\ s = id[2] /\ id \in cancelingTimers'
    BY <1>3 DEF CancelOther
  <2>2. s \in Sequences /\ s \in 1..created /\ created \in Nat
    BY <2>1, LiveFacts, AccountTypes
  <2>3. s \in batch'
    BY <1>1, <2>1
  <2>4. ~Waiting(s)' /\ ~Active(s)'
    BY <2>2, <2>3 DEF AccountInv, OwnerInv
  <2>5. QED
    BY <1>1, <2>1, <2>2, <2>4
<1>4. QED
  BY <1>1, <1>2, <1>3 DEF CancelInLoop

LEMMA CancelStep ==
    ASSUME AccountInv, AccountInv', CancelInv, Next
    PROVE  CancelInv'
<1>1. ASSUME NEW s \in cancelled
      PROVE  /\ s <= created' /\ ~Waiting(s)' /\ ~Active(s)'
             /\ s \in batch' => \E i \in cancelingTimers' : i[2] = s
  <2>1. s \in Sequences /\ s \in Nat /\ created \in Nat /\ created' \in Nat
    BY DEF AccountInv, TypeInv, TypeOK, Sequences
  <2>2. /\ s <= created /\ ~Waiting(s) /\ ~Active(s)
        /\ s \in batch => \E i \in cancelingTimers : i[2] = s
    BY DEF CancelInv
  <2>3. /\ created <= created'
        /\ Waiting(s)' => Waiting(s) \/ s > created
        /\ Active(s)' => \/ Waiting(s) \/ Active(s) \/ s > created
                         \/ \E a \in Restarted : calling /\ heap[a] = s /\ ~calling'
        /\ s \in batch' => s \in batch \/ Active(s)
    BY <2>1, WhoWaits
  <2>4. s <= created' /\ ~Waiting(s)'
    BY <2>1, <2>2, <2>3
  <2>5. ASSUME NEW a \in Restarted, heap[a] = s PROVE FALSE
    <3>1. a \in ToSet(expired) /\ <<a, heap[a]>> \notin cancelingTimers
      BY DEF Restarted
    <3>2. PICK k \in DOMAIN expired : a = expired[k]
      BY <3>1 DEF ToSet
    <3>3. a \in Addrs /\ s \in batch /\ s # 0
      BY <2>5, <3>2, LiveFacts
    <3>4. PICK i \in cancelingTimers : i[2] = s
      BY <2>2, <3>3
    <3>5. i \in ids /\ <<a, s>> \in ids /\ <<a, s>>[2] = s
      BY <2>5, <3>3 DEF AccountInv, HeapInv, TypeInv
    <3>6. i = <<a, s>>
      BY <3>4, <3>5 DEF AccountInv, HeapInv
    <3>7. QED
      BY <2>5, <3>1, <3>4, <3>6
  <2>6. ~Active(s)'
    BY <2>1, <2>2, <2>3, <2>5
  <2>7. s \in batch' => \E i \in cancelingTimers' : i[2] = s
    BY <2>2, <2>3, TimersKept
  <2>8. QED
    BY <2>4, <2>6, <2>7
<1>2. \A s \in cancelled' \ cancelled :
         /\ s <= created' /\ ~Waiting(s)' /\ ~Active(s)'
         /\ s \in batch' => \E i \in cancelingTimers' : i[2] = s
  BY NewlyCancelled
<1>3. QED
  BY <1>1, <1>2 DEF CancelInv

\* RunTimer counts one timer of the batch, which neither waits nor is active.
LEMMA RunTimerRuns ==
    ASSUME AccountInv, RunInv, RunTimer
    PROVE  RunInv'
<1> DEFINE s0 == heap[expired[next]]
<1>1. /\ next \in DOMAIN expired /\ next \in Nat /\ next' = next + 1
      /\ s0 \in batch /\ s0 \in Sequences
      /\ runs' = [runs EXCEPT ![s0] = @ + 1]
  BY RunTimerFacts
<1>2. UNCHANGED <<created, heap, interval, activeTimers, expired, batch, pendingFunctors>>
  BY DEF RunTimer, timerVars, setVars
<1>3. \A k \in DOMAIN expired : /\ heap[expired[k]] \in Sequences /\ k \in Nat
                                /\ heap[expired[k]] = s0 => k = next
  <2>1. \A k \in DOMAIN expired : heap[expired[k]] \in Sequences
    BY LiveFacts, AccountTypes
  <2>2. DOMAIN expired \subseteq Nat
    <3>1. DOMAIN expired = 1..Len(expired)
      BY LenProperties DEF AccountInv, TypeInv, TypeOK
    <3>2. QED
      BY <3>1
  <2>3. \A k \in DOMAIN expired : heap[expired[k]] = s0 => expired[k] = expired[next]
    BY <1>1, LiveFacts
  <2>4. QED
    BY <1>1, <2>1, <2>2, <2>3 DEF AccountInv, BatchInv
<1>4. interval[s0] = 0 => runs[s0] = 0
  <2>1. interval[s0] = 0 => runs[s0] = IF next < next THEN 1 ELSE 0
    BY <1>1 DEF RunInv
  <2>2. ~(next < next)
    BY <1>1
  <2>3. QED
    BY <2>1, <2>2
<1>5. ~Waiting(s0) /\ ~Active(s0) /\ s0 <= created
  <2>1. s0 \in 1..created
    BY <1>1, LiveFacts
  <2>2. QED
    BY <1>1, <2>1, AccountTypes DEF AccountInv, OwnerInv
<1>6. \A s : (Waiting(s)' <=> Waiting(s)) /\ (Active(s)' <=> Active(s))
  BY <1>2 DEF Waiting, Active
<1> HIDE DEF s0
<1>7. runs'[s0] = runs[s0] + 1 /\ \A s \in Sequences : s # s0 => runs'[s] = runs[s]
  BY <1>1, AccountTypes
<1>8. ASSUME NEW s \in Sequences, interval[s] = 0
      PROVE  /\ runs'[s] <= 1
             /\ Waiting(s)' \/ Active(s)' => runs'[s] = 0
  <2>1. CASE s = s0
    BY <1>4, <1>5, <1>6, <1>7, <1>8, <2>1
  <2>2. CASE s # s0
    BY <1>6, <1>7, <1>8, <2>2 DEF RunInv
  <2>3. QED
    BY <2>1, <2>2
<1>9. ASSUME NEW s \in Sequences, s > created PROVE interval[s] = 0 /\ runs'[s] = 0
  <2>1. s # s0
    BY <1>5, <1>9, AccountTypes
  <2>2. QED
    BY <1>7, <1>9, <2>1 DEF RunInv
<1>10. ASSUME NEW k \in DOMAIN expired, interval[heap[expired[k]]] = 0
       PROVE  runs'[heap[expired[k]]] = IF k < next' THEN 1 ELSE 0
  <2>1. CASE k = next
    <3>1. heap[expired[k]] = s0
      BY <2>1 DEF s0
    <3>2. k < next'
      BY <1>1, <2>1
    <3>3. QED
      BY <1>4, <1>7, <1>10, <3>1, <3>2
  <2>2. CASE k # next
    <3>1. runs'[heap[expired[k]]] = runs[heap[expired[k]]]
      BY <1>3, <1>7, <2>2
    <3>2. k < next' <=> k < next
      BY <1>1, <1>3, <2>2
    <3>3. runs[heap[expired[k]]] = IF k < next THEN 1 ELSE 0
      BY <1>10 DEF RunInv
    <3>4. QED
      BY <3>1, <3>2, <3>3
  <2>3. QED
    BY <2>1, <2>2
<1>11. /\ \A s \in Sequences : interval'[s] = 0 => /\ runs'[s] <= 1
                                                   /\ Waiting(s)' \/ Active(s)' => runs'[s] = 0
  BY <1>2, <1>8
<1>12. \A s \in Sequences : s > created' => interval'[s] = 0 /\ runs'[s] = 0
  BY <1>2, <1>9
<1>13. \A k \in DOMAIN expired' : interval'[heap'[expired'[k]]] = 0 =>
          runs'[heap'[expired'[k]]] = IF k < next' THEN 1 ELSE 0
  BY <1>2, <1>10
<1>14. QED
  BY <1>11, <1>12, <1>13 DEF RunInv

LEMMA RunStep ==
    ASSUME AccountInv, AccountInv', RunInv, Next
    PROVE  RunInv'
<1>1. CASE RunTimer
  BY <1>1, RunTimerRuns
<1>2. CASE ~RunTimer
  <2>1. UNCHANGED runs
    BY <1>2, TimersKept
  <2>2. created \in Nat /\ created' \in Nat /\ created <= created' /\ Sequences \subseteq Nat \ {0}
    <3>1. created' \in 0..MaxTimers
      BY DEF AccountInv, TypeInv, TypeOK
    <3>2. QED
      BY <3>1, AccountTypes, WhoWaits, TimerQueueAssumption
  <2>3. ASSUME NEW s \in Sequences, interval'[s] = 0
        PROVE  /\ runs'[s] <= 1
               /\ Waiting(s)' \/ Active(s)' => runs'[s] = 0
    <3>1. CASE s <= created
      <4>1. interval[s] = 0
        BY <2>3, <3>1, TimersKept
      <4>2. ~(s > created)
        BY <2>2, <3>1
      <4>3. Waiting(s)' \/ Active(s)' =>
               Waiting(s) \/ Active(s) \/ \E a \in Restarted : heap[a] = s
        <5>1. /\ Waiting(s)' => Waiting(s) \/ s > created
              /\ Active(s)' => \/ Waiting(s) \/ Active(s) \/ s > created
                               \/ \E a \in Restarted : calling /\ heap[a] = s /\ ~calling'
          BY WhoWaits
        <5>2. QED
          BY <4>2, <5>1
      <4>4. \A a \in Restarted : heap[a] # s
        <5>1. \A a \in Restarted : interval[heap[a]] > 0
          BY DEF Restarted
        <5>2. QED
          BY <4>1, <5>1
      <4>5. QED
        BY <2>1, <4>1, <4>3, <4>4 DEF RunInv
    <3>2. CASE s > created
      <4>1. runs[s] = 0
        BY <3>2 DEF RunInv
      <4>2. QED
        BY <2>1, <4>1
    <3>3. QED
      BY <2>2, <3>1, <3>2
  <2>4. ASSUME NEW s \in Sequences, s > created' PROVE interval'[s] = 0 /\ runs'[s] = 0
    <3>1. s > created
      BY <2>2, <2>4
    <3>2. interval'[s] = interval[s]
      BY <2>4, TimersKept
    <3>3. QED
      BY <2>1, <3>1, <3>2 DEF RunInv
  <2>5. ASSUME NEW k \in DOMAIN expired', interval'[heap'[expired'[k]]] = 0
        PROVE  runs'[heap'[expired'[k]]] = IF k < next' THEN 1 ELSE 0
    <3>1. CASE HandleRead
      <4>1. next' = 1 /\ UNCHANGED <<heap, interval>>
        BY <3>1 DEF HandleRead, timerVars
      <4>2. k \in Nat \ {0}
        <5>1. expired' \in Seq(Addrs)
          BY <3>1, HandleReadFacts
        <5>2. DOMAIN expired' = 1..Len(expired')
          BY <5>1, LenProperties
        <5>3. QED
          BY <5>2
      <4> DEFINE s == heap'[expired'[k]]
      <4>3. s \in batch' /\ s \in Sequences
        <5>1. s \in batch'
          BY DEF AccountInv, BatchInv
        <5>2. batch' \subseteq Sequences
          BY DEF AccountInv, TypeInv, TypeOK
        <5>3. QED
          BY <5>1, <5>2
      <4>4. Active(s)
        <5>1. ~calling
          BY <3>1 DEF HandleRead
        <5>2. batch = {}
          BY <5>1 DEF AccountInv, BatchInv
        <5>3. QED
          BY <4>3, <5>2, WhoWaits
      <4> HIDE DEF s
      <4>5. interval[s] = 0
        BY <2>5, <4>1 DEF s
      <4>6. runs[s] = 0
        BY <4>3, <4>4, <4>5 DEF RunInv
      <4>7. ~(k < next')
        BY <4>1, <4>2
      <4>8. QED
        BY <2>1, <4>6, <4>7 DEF s
    <3>2. CASE Reset
      <4>1. expired' = <<>>
        BY <3>2 DEF Reset
      <4>2. QED
        BY <4>1
    <3>3. CASE ~HandleRead /\ ~Reset
      <4>1. /\ expired' = expired /\ next' = next
            /\ \A l \in DOMAIN expired : heap'[expired[l]] = heap[expired[l]]
        BY <1>2, <3>3, TimersKept
      <4> DEFINE s == heap[expired[k]]
      <4>2. k \in DOMAIN expired /\ heap'[expired'[k]] = s
        BY <4>1
      <4>3. s \in batch /\ s \in Sequences
        BY <4>2, LiveFacts, AccountTypes
      <4>4. s <= created
        BY <2>2, <4>3, LiveFacts
      <4>5. interval'[s] = interval[s]
        BY <4>3, <4>4, TimersKept
      <4>6. interval[s] = 0 => runs[s] = IF k < next THEN 1 ELSE 0
        BY <4>2 DEF RunInv
      <4> HIDE DEF s
      <4>7. QED
        BY <2>1, <2>5, <4>1, <4>2, <4>5, <4>6
    <3>4. QED
      BY <3>1, <3>2, <3>3
  <2>6. QED
    BY <2>3, <2>4, <2>5 DEF RunInv
<1>3. QED
  BY <1>1, <1>2

LEMMA BatchStep == AccountInv /\ AccountInv' /\ CancelInv /\ RunInv /\ [Next]_vars
                      => CancelInv' /\ RunInv'
<1> SUFFICES ASSUME AccountInv, AccountInv', CancelInv, RunInv, [Next]_vars
             PROVE  CancelInv' /\ RunInv'
  OBVIOUS
<1>1. CASE Next
  BY <1>1, CancelStep, RunStep
<1>2. CASE UNCHANGED vars
  <2>1. UNCHANGED <<created, heap, interval, activeTimers, cancelingTimers, expired, next, batch,
                    pendingFunctors, runs, cancelled>>
    BY <1>2 DEF vars, timerVars, setVars, batchVars
  <2>2. \A s : (Waiting(s)' <=> Waiting(s)) /\ (Active(s)' <=> Active(s))
    BY <2>1 DEF Waiting, Active
  <2>3. QED
    BY <2>1, <2>2 DEF CancelInv, RunInv
<1>3. QED
  BY <1>1, <1>2

LEMMA BatchInit == Init => CancelInv /\ RunInv
<1> SUFFICES ASSUME Init PROVE CancelInv /\ RunInv
  OBVIOUS
<1>1. cancelled = {} /\ DOMAIN expired = {}
  BY DEF Init
<1>2. \A s \in Sequences : interval[s] = 0 /\ runs[s] = 0
  BY DEF Init, Sequences
<1>3. QED
  BY <1>1, <1>2 DEF CancelInv, RunInv

LEMMA BatchSuffices == AccountInv /\ CancelInv /\ RunInv => BatchSound
<1> SUFFICES ASSUME AccountInv, CancelInv, RunInv PROVE BatchSound
  OBVIOUS
<1>1. CancelledStaysOut
  BY DEF CancelInv, Active, CancelledStaysOut
<1>2. OneShotRunsOnce
  BY DEF RunInv, Active, OneShotRunsOnce
<1>3. QED
  BY <1>1, <1>2 DEF BatchSound

\* A batch puts back neither a timer that was cancelled while it was active or
\* in that batch, nor one that was to run once (TimerQueue.cc:157-175, 227-238).
THEOREM BatchCorrect == Spec => []BatchSound
<1>1. Spec => []AccountInv
  BY AccountInit, AccountStep, PTL DEF Spec
<1>2. Spec => [](CancelInv /\ RunInv)
  BY <1>1, BatchInit, BatchStep, PTL DEF Spec
<1>3. QED
  BY <1>1, <1>2, BatchSuffices, PTL
=============================================================================
