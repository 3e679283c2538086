------------------------ MODULE AsyncLogging_proofs ------------------------
(***************************************************************************)
(* Whatever the sizes and however many messages are appended, if a batch   *)
(* that is cut down keeps two buffers (DropAbove >= 2): no assertion of    *)
(* AsyncLogging::threadFunc fails, and each message is written once and in *)
(* order, or dropped with a notice.                                        *)
(***************************************************************************)
EXTENDS AsyncLogging, SequenceTheorems, NaturalsInduction, WellFoundedInduction, TLAPS

Buffer == Seq(Nat)

\* The locals of threadFunc: while a batch is written it holds the buffers that
\* the spare ones are to come from, two if nextBuffer_ was used up.
LocalsSound ==
    /\ thread \in {"none", "begin", "while", "lock", "wait", "write", "refill", "exit"}
    /\ newBuffer2 \in {Null, <<Empty>>}
    /\ thread \in {"while", "lock", "wait"} => buffersToWrite = <<>>
    /\ thread \in {"none", "begin"} => buffersToWrite = <<>>
    /\ thread \in {"write", "refill"} =>
          /\ newBuffer1 = Null
          /\ Len(buffersToWrite) >= (IF newBuffer2 = Null THEN 2 ELSE 1)

\* The thread begins while start() waits for it.
StartSound ==
    /\ owner = "idle" => thread = "none"
    /\ owner # "idle" => thread # "none"
    /\ thread = "begin" => owner = "latch"
    /\ owner = "latch" => running

Typed ==
    /\ currentBuffer \in Buffer
    /\ buffers \in Seq(Buffer) /\ buffersToWrite \in Seq(Buffer)
    /\ count \in Nat

IInv == Typed /\ BuffersSound /\ LocalsSound /\ StartSound

USE DEF Null, Empty, Buffer

LEMMA Init_IInv == Init => IInv
  BY DEF Init, IInv, Typed, BuffersSound, LocalsSound, StartSound

\* First(n, bufs) has n buffers, or all of them if there are fewer.
LEMMA FirstLen ==
  ASSUME NEW n \in Nat, NEW bufs \in Seq(Buffer)
  PROVE  /\ First(n, bufs) \in Seq(Buffer)
         /\ Len(bufs) <= n => Len(First(n, bufs)) = Len(bufs)
         /\ Len(bufs) > n => Len(First(n, bufs)) = n
  <1>. DEFINE m == IF Len(bufs) > n THEN n ELSE Len(bufs)
  <1>1. Len(bufs) \in Nat /\ m \in 0..Len(bufs)
    BY LenProperties
  <1>2. SubSeq(bufs, 1, m) \in Seq(Buffer) /\ Len(SubSeq(bufs, 1, m)) = m
    BY <1>1, SubSeqProperties
  <1>. QED
    BY <1>1, <1>2 DEF First

\* A batch that is cut down keeps two buffers.
LEMMA KeptLen ==
  ASSUME NEW bufs \in Seq(Buffer)
  PROVE  /\ Kept(bufs) \in Seq(Buffer)
         /\ Len(bufs) >= 2 => Len(Kept(bufs)) >= 2
         /\ Len(bufs) >= 1 => Len(Kept(bufs)) >= 1
  <1>1. Len(bufs) \in Nat
    BY LenProperties
  <1>2. CASE Len(bufs) > DropAbove
    BY <1>1, <1>2, FirstLen, AsyncLoggingAssumption DEF Kept
  <1>3. CASE ~(Len(bufs) > DropAbove)
    BY <1>1, <1>3 DEF Kept
  <1>. QED
    BY <1>2, <1>3

LEMMA Append_IInv == IInv /\ AppendMessage => IInv'
  <1> SUFFICES ASSUME IInv, AppendMessage PROVE IInv'
    OBVIOUS
  <1>1. Typed'
    <2>. DEFINE next == IF nextBuffer # Null THEN nextBuffer[1] ELSE Empty
    <2>1. next \in Buffer
      <3>1. CASE nextBuffer = Null
        BY <3>1, EmptySeq
      <3>2. CASE nextBuffer = <<Empty>>
        BY <3>2, EmptySeq
      <3>. QED
        BY <3>1, <3>2 DEF IInv, BuffersSound
    <2>2. count' \in Nat
      BY DEF IInv, Typed, AppendMessage
    <2>3. /\ Append(currentBuffer, count') \in Buffer
          /\ Append(next, count') \in Buffer
          /\ Append(buffers, currentBuffer) \in Seq(Buffer)
      BY <2>1, <2>2, AppendProperties DEF IInv, Typed
    <2>4. currentBuffer' \in Buffer /\ buffers' \in Seq(Buffer)
      BY <2>3 DEF IInv, Typed, AppendMessage
    <2>. QED
      BY <2>2, <2>4 DEF IInv, Typed, AppendMessage, locals
  <1>2. BuffersSound'
    BY DEF IInv, Typed, BuffersSound, AppendMessage, locals
  <1>3. LocalsSound' /\ StartSound'
    BY DEF IInv, LocalsSound, StartSound, AppendMessage, locals
  <1>. QED
    BY <1>1, <1>2, <1>3 DEF IInv

LEMMA Owner_IInv == IInv /\ (Start \/ Stop \/ OwnerStep) => IInv'
  BY DEF IInv, Typed, BuffersSound, LocalsSound, StartSound, Start, Stop, OwnerStep,
         Started, StopNotifies, Join, front, locals

LEMMA Take_IInv ==
  ASSUME IInv, thread \in {"lock", "wait"}, TakeBuffers
  PROVE  IInv'
  <1>1. Typed'
    <2>1. newBuffer1 = <<Empty>>
      BY DEF IInv, BuffersSound
    <2>2. currentBuffer' = Empty /\ Empty \in Buffer
      BY <2>1, EmptySeq DEF TakeBuffers
    <2>3. buffersToWrite' \in Seq(Buffer)
      BY AppendProperties DEF IInv, Typed, TakeBuffers
    <2>4. buffers' = <<>> /\ <<>> \in Seq(Buffer)
      BY EmptySeq DEF TakeBuffers
    <2>. QED
      BY <2>2, <2>3, <2>4 DEF IInv, Typed, TakeBuffers
  <1>2. Len(buffersToWrite') = Len(buffers) + 1 /\ Len(buffers) \in Nat
    BY DEF IInv, Typed, TakeBuffers
  <1>3. nextBuffer = Null => Len(buffers) >= 1
    BY <1>2, EmptySeq DEF IInv, Typed, BuffersSound
  <1>4. BuffersSound' /\ StartSound'
    BY DEF IInv, BuffersSound, StartSound, TakeBuffers
  <1>5. LocalsSound'
    BY <1>2, <1>3 DEF IInv, BuffersSound, LocalsSound, TakeBuffers
  <1>. QED
    BY <1>1, <1>4, <1>5 DEF IInv

LEMMA Write_IInv == IInv /\ WriteOut => IInv'
  <1> SUFFICES ASSUME IInv, WriteOut PROVE IInv'
    OBVIOUS
  <1>1. buffersToWrite \in Seq(Buffer) /\ Len(buffersToWrite) \in Nat
    BY LenProperties DEF IInv, Typed
  <1>2. Len(buffersToWrite) >= (IF newBuffer2 = Null THEN 2 ELSE 1)
    BY DEF IInv, LocalsSound, WriteOut
  <1>3. buffersToWrite' \in Seq(Buffer)
    BY <1>1, KeptLen, FirstLen DEF WriteOut
  <1>4. Len(buffersToWrite') >= (IF newBuffer2 = Null THEN 2 ELSE 1)
    <2>1. Len(Kept(buffersToWrite)) >= (IF newBuffer2 = Null THEN 2 ELSE 1)
      BY <1>1, <1>2, KeptLen
    <2>2. Kept(buffersToWrite) \in Seq(Buffer) /\ Len(Kept(buffersToWrite)) \in Nat
      BY <1>1, KeptLen, LenProperties
    <2>. QED
      BY <2>1, <2>2, FirstLen DEF WriteOut
  <1>5. ~failed'
    <2>1. Len(buffersToWrite) >= 1
      BY <1>1, <1>2
    <2>2. buffersToWrite # <<>>
      BY <2>1, EmptySeq
    <2>. QED
      BY <2>2 DEF WriteOut
  <1>6. Typed' /\ BuffersSound' /\ StartSound'
    BY <1>3, <1>5 DEF IInv, Typed, BuffersSound, StartSound, WriteOut, front
  <1>7. LocalsSound'
    BY <1>4 DEF IInv, LocalsSound, WriteOut, front
  <1>. QED
    BY <1>6, <1>7 DEF IInv

LEMMA Refill_IInv == IInv /\ Refill => IInv'
  <1> SUFFICES ASSUME IInv, Refill PROVE IInv'
    OBVIOUS
  <1>1. newBuffer1 = Null /\ Len(buffersToWrite) >= (IF newBuffer2 = Null THEN 2 ELSE 1)
    BY DEF IInv, LocalsSound, Refill
  <1>2. newBuffer2 \in {Null, <<Empty>>}
    BY DEF IInv, LocalsSound
  <1>3. newBuffer1' = <<Empty>> /\ newBuffer2' = <<Empty>> /\ UNCHANGED failed
    BY <1>1, <1>2 DEF Refill, Reset
  <1>4. Typed'
    BY EmptySeq DEF IInv, Typed, Refill, front
  <1>5. BuffersSound'
    BY <1>3 DEF IInv, BuffersSound, Refill, front
  <1>6. LocalsSound' /\ StartSound'
    BY <1>3 DEF IInv, LocalsSound, StartSound, Refill
  <1>. QED
    BY <1>4, <1>5, <1>6 DEF IInv

LEMMA Next_IInv == IInv /\ [Next]_vars => IInv'
  <1> SUFFICES ASSUME IInv, [Next]_vars PROVE IInv'
    OBVIOUS
  <1>1. CASE AppendMessage
    BY <1>1, Append_IInv
  <1>2. CASE Start \/ Stop \/ OwnerStep
    BY <1>2, Owner_IInv
  <1>3. CASE Begin
    <2>1. running
      BY <1>3 DEF IInv, StartSound, Begin
    <2>2. ~failed'
      BY <1>3, <2>1 DEF Begin
    <2>. QED
      BY <1>3, <2>1, <2>2 DEF IInv, Typed, BuffersSound, LocalsSound, StartSound, Begin, front
  <1>4. CASE TestRunning
    <2>1. newBuffer1 = <<Empty>> /\ newBuffer2 = <<Empty>> /\ buffersToWrite = <<>>
      BY <1>4 DEF IInv, BuffersSound, LocalsSound, TestRunning
    <2>2. ~failed'
      BY <1>4, <2>1 DEF TestRunning
    <2>. QED
      BY <1>4, <2>1, <2>2 DEF IInv, Typed, BuffersSound, LocalsSound, StartSound, TestRunning,
                              front, locals
  <1>5. CASE Wait
    BY <1>5 DEF IInv, Typed, BuffersSound, LocalsSound, StartSound, Wait, front, locals
  <1>6. CASE Lock \/ EndWait
    BY <1>6, Take_IInv DEF Lock, EndWait
  <1>7. CASE WriteOut
    BY <1>7, Write_IInv
  <1>8. CASE Refill
    BY <1>8, Refill_IInv
  <1>9. CASE UNCHANGED vars
    BY <1>9 DEF vars, front, locals, IInv, Typed, BuffersSound, LocalsSound, StartSound
  <1>. QED
    BY <1>1, <1>2, <1>3, <1>4, <1>5, <1>6, <1>7, <1>8, <1>9 DEF Next, ThreadStep

\* No assertion of threadFunc fails: the spare buffers always come back empty,
\* for any size of the buffers, limit and number of messages
\* (AsyncLogging.cc:53-128).
THEOREM BuffersCorrect == Spec => []BuffersSound
  <1>1. IInv => BuffersSound
    BY DEF IInv
  <1>. QED
    BY <1>1, Init_IInv, Next_IInv, PTL DEF Spec
HIDE DEF Buffer
-----------------------------------------------------------------------------
(* What FlattenSeq computes.  It is defined by recursion over the number   *)
(* of sequences; that there is such a function, and one only, is shown by  *)
(* looking at the least number for which it fails.                         *)

\* A set of numbers has a least element.
LEMMA LeastNat ==
  ASSUME NEW S, S \subseteq Nat, S # {}
  PROVE  \E x \in S : \A y \in S : x <= y
  <1>. DEFINE R == OpToRel(<, Nat)
  <1>1. IsWellFoundedOn(R, Nat)
    BY NatLessThanWellFounded, Zenon
  <1>2. \A x, y \in Nat : y < x => <<y, x>> \in R
    BY DEF OpToRel
  <1>. HIDE DEF R
  <1>3. PICK x \in S : \A y \in S : ~ (<<y, x>> \in R)
    BY <1>1, WFMin, Zenon
  <1>4. ASSUME NEW y \in S PROVE x <= y
    <2>1. ~(y < x) /\ x \in Nat /\ y \in Nat
      BY <1>2, <1>3
    <2>. QED
      BY <2>1
  <1>. QED
    BY <1>4

\* The recursion of FlattenSeq
FlattenStep(seqs, g) ==
    [i \in 1..Len(seqs) |-> IF i = 1 THEN seqs[i] ELSE g[i - 1] \o seqs[i]]

\* Two functions that obey it agree as far as their sequences do.
LEMMA FlattenUnique ==
  ASSUME NEW seqs \in Seq(Buffer), NEW other \in Seq(Buffer), NEW g, NEW h,
         g = FlattenStep(seqs, g), h = FlattenStep(other, h),
         NEW n \in Nat, n <= Len(seqs), n <= Len(other),
         \A i \in 1..n : seqs[i] = other[i]
  PROVE  \A i \in 1..n : g[i] = h[i]
  <1>. DEFINE Bad == {i \in 1..n : g[i] # h[i]}
  <1>. SUFFICES ASSUME Bad # {} PROVE FALSE
    OBVIOUS
  <1>1. PICK i \in Bad : \A j \in Bad : i <= j
    <2>1. Bad \subseteq Nat
      OBVIOUS
    <2>. QED
      BY <2>1, LeastNat
  <1>2. /\ i \in 1..n /\ i \in 1..Len(seqs) /\ i \in 1..Len(other)
        /\ Len(seqs) \in Nat /\ Len(other) \in Nat
    <2>1. Len(seqs) \in Nat /\ Len(other) \in Nat
      BY LenProperties
    <2>. QED
      BY <2>1
  <1>3. /\ g[i] = IF i = 1 THEN seqs[i] ELSE g[i - 1] \o seqs[i]
        /\ h[i] = IF i = 1 THEN other[i] ELSE h[i - 1] \o other[i]
    BY <1>2 DEF FlattenStep
  <1>4. i # 1 => i - 1 \in 1..n /\ i - 1 \notin Bad
    BY <1>1, <1>2
  <1>5. i # 1 => g[i - 1] = h[i - 1]
    BY <1>4
  <1>6. g[i] = h[i]
    BY <1>2, <1>3, <1>5
  <1>. QED
    BY <1>1, <1>6

\* There is a function that obeys it, and its values are sequences.
LEMMA FlattenExists ==
  ASSUME NEW seqs \in Seq(Buffer)
  PROVE  \E g \in [1..Len(seqs) -> Buffer] : g = FlattenStep(seqs, g)
  <1>. DEFINE Has(s) == \E g \in [1..Len(s) -> Buffer] : g = FlattenStep(s, g)
              Bad == {n \in Nat : \E s \in Seq(Buffer) : Len(s) = n /\ ~Has(s)}
  <1>. SUFFICES ASSUME Bad # {} PROVE FALSE
    <2>1. Len(seqs) \in Nat
      BY LenProperties
    <2>2. Bad = {}
      OBVIOUS
    <2>. QED
      BY <2>1, <2>2
  <1>1. PICK n \in Bad : \A m \in Bad : n <= m
    BY LeastNat
  <1>2. PICK s \in Seq(Buffer) : Len(s) = n /\ ~Has(s)
    BY <1>1
  <1>3. n # 0
    <2>. SUFFICES ASSUME n = 0 PROVE FALSE
      OBVIOUS
    <2>1. [i \in 1..0 |-> <<>>] \in [1..Len(s) -> Buffer]
      BY <1>2
    <2>2. [i \in 1..0 |-> <<>>] = FlattenStep(s, [i \in 1..0 |-> <<>>])
      BY <1>2 DEF FlattenStep
    <2>. QED
      BY <1>2, <2>1, <2>2
  <1>. DEFINE t == SubSeq(s, 1, n - 1)
  <1>4. /\ n \in Nat \ {0} /\ n - 1 \in Nat
        /\ \A i \in 1..n : s[i] \in Buffer
    BY <1>1, <1>2, <1>3, ElementOfSeq
  <1>5. t \in Seq(Buffer) /\ Len(t) = n - 1 /\ \A i \in 1..n - 1 : t[i] = s[i]
    BY <1>4, SubSeqProperties
  <1>. HIDE DEF t
  <1>6. Has(t)
    <2>1. n - 1 \notin Bad
      BY <1>1, <1>4
    <2>. QED
      BY <1>4, <1>5, <2>1
  <1>7. PICK g \in [1..n - 1 -> Buffer] : g = FlattenStep(t, g)
    BY <1>5, <1>6
  <1>. DEFINE h == [i \in 1..n |-> IF i = n THEN IF n = 1 THEN s[1] ELSE g[n - 1] \o s[n]
                                   ELSE g[i]]
  <1>8. h \in [1..Len(s) -> Buffer]
    <2>1. n # 1 => g[n - 1] \in Buffer
      BY <1>4, <1>7
    <2>2. n # 1 => g[n - 1] \o s[n] \in Buffer
      <3>1. n # 1 => s[n] \in Buffer
        BY <1>4
      <3>. QED
        BY <2>1, <3>1, ConcatProperties DEF Buffer
    <2>. QED
      BY <1>2, <1>4, <1>7, <2>2
  <1>9. ASSUME NEW i \in 1..n PROVE h[i] = IF i = 1 THEN s[i] ELSE h[i - 1] \o s[i]
    <2>1. CASE i = n
      BY <1>4, <2>1
    <2>2. CASE i # n
      <3>1. i \in 1..n - 1 /\ h[i] = g[i] /\ (i # 1 => h[i - 1] = g[i - 1])
        BY <1>4, <2>2
      <3>2. g[i] = IF i = 1 THEN t[i] ELSE g[i - 1] \o t[i]
        BY <1>5, <1>7, <3>1 DEF FlattenStep
      <3>. QED
        BY <1>5, <3>1, <3>2
    <2>. QED
      BY <2>1, <2>2
  <1>10. h = FlattenStep(s, h)
    BY <1>2, <1>9 DEF FlattenStep
  <1>. QED
    BY <1>2, <1>8, <1>10

\* FlattenSeq is the last value of any such function.
LEMMA FlattenIs ==
  ASSUME NEW seqs \in Seq(Buffer), Len(seqs) # 0, NEW g, g = FlattenStep(seqs, g)
  PROVE  FlattenSeq(seqs) = g[Len(seqs)]
  <1>. DEFINE f == CHOOSE f : f = FlattenStep(seqs, f)
  <1>1. f = FlattenStep(seqs, f)
    BY Zenon
  <1>2. FlattenSeq(seqs) = f[Len(seqs)]
    BY DEF FlattenSeq, FlattenStep
  <1>. HIDE DEF f
  <1>3. Len(seqs) \in Nat /\ Len(seqs) \in 1..Len(seqs)
    BY LenProperties
  <1>4. \A i \in 1..Len(seqs) : f[i] = g[i]
    BY <1>1, <1>3, FlattenUnique
  <1>. QED
    BY <1>2, <1>3, <1>4

LEMMA FlattenNone == FlattenSeq(<<>>) = <<>>
  BY DEF FlattenSeq

LEMMA FlattenAppend ==
  ASSUME NEW seqs \in Seq(Buffer), NEW b \in Buffer
  PROVE  /\ FlattenSeq(seqs) \in Buffer
         /\ FlattenSeq(Append(seqs, b)) = FlattenSeq(seqs) \o b
  <1>. DEFINE a == Append(seqs, b)
              n == Len(seqs)
  <1>1. n \in Nat /\ a \in Seq(Buffer) /\ Len(a) = n + 1 /\ a[n + 1] = b
        /\ \A i \in 1..n : seqs[i] = a[i]
    BY LenProperties, AppendProperties
  <1>2. PICK g \in [1..n -> Buffer] : g = FlattenStep(seqs, g)
    BY FlattenExists
  <1>3. PICK h \in [1..Len(a) -> Buffer] : h = FlattenStep(a, h)
    BY <1>1, FlattenExists
  <1>4. \A i \in 1..n : g[i] = h[i]
    <2>. HIDE DEF a
    <2>1. n <= Len(seqs) /\ n <= Len(a)
      BY <1>1
    <2>2. g = FlattenStep(seqs, g) /\ h = FlattenStep(a, h)
      BY <1>2, <1>3
    <2>3. n \in Nat /\ a \in Seq(Buffer) /\ \A i \in 1..n : seqs[i] = a[i]
      BY <1>1
    <2>. HIDE DEF n
    <2>. QED
      BY <2>1, <2>2, <2>3, FlattenUnique
  <1>. HIDE DEF a
  <1>5. FlattenSeq(a) = h[n + 1]
    BY <1>1, <1>3, FlattenIs
  <1>6. h[n + 1] = IF n + 1 = 1 THEN b ELSE h[n] \o b
    <2>1. n + 1 \in 1..Len(a) /\ n + 1 - 1 = n
      BY <1>1
    <2>2. h[n + 1] = IF n + 1 = 1 THEN a[n + 1] ELSE h[n + 1 - 1] \o a[n + 1]
      <3>1. FlattenStep(a, h)[n + 1] = IF n + 1 = 1 THEN a[n + 1] ELSE h[n + 1 - 1] \o a[n + 1]
        BY <2>1 DEF FlattenStep
      <3>. QED
        BY <1>3, <3>1
    <2>. QED
      BY <1>1, <2>1, <2>2
  <1>7. CASE n = 0
    <2>1. seqs = <<>> /\ FlattenSeq(seqs) = <<>>
      BY <1>7, EmptySeq, FlattenNone
    <2>2. FlattenSeq(a) = b
      BY <1>5, <1>6, <1>7
    <2>3. <<>> \o b = b /\ <<>> \in Buffer
      BY ConcatEmptySeq, EmptySeq DEF Buffer
    <2>. QED
      BY <2>1, <2>2, <2>3 DEF a
  <1>8. CASE n # 0
    <2>1. n \in 1..n /\ FlattenSeq(seqs) = g[n]
      BY <1>1, <1>2, <1>8, FlattenIs
    <2>2. g[n] \in Buffer /\ g[n] = h[n]
      BY <1>2, <1>4, <2>1
    <2>3. FlattenSeq(a) = h[n] \o b
      BY <1>1, <1>5, <1>6, <1>8
    <2>. QED
      BY <2>1, <2>2, <2>3 DEF a
  <1>. QED
    BY <1>7, <1>8

\* A sequence that is not empty is what comes before its last element, and that.
LEMMA LastOf ==
  ASSUME NEW seqs \in Seq(Buffer), seqs # <<>>
  PROVE  \E rest \in Seq(Buffer) :
            /\ seqs = Append(rest, seqs[Len(seqs)]) /\ Len(rest) = Len(seqs) - 1
            /\ seqs[Len(seqs)] \in Buffer
  <1>. DEFINE n == Len(seqs)
              rest == SubSeq(seqs, 1, n - 1)
  <1>1. n \in Nat \ {0} /\ n \in 1..n /\ \A i \in 1..n : seqs[i] \in Buffer
    BY EmptySeq, LenProperties, ElementOfSeq
  <1>2. /\ rest \in Seq(Buffer) /\ Len(rest) = n - 1
        /\ \A i \in 1..n - 1 : rest[i] = seqs[i]
    <2>1. /\ 1 \in Int /\ n - 1 \in Int /\ \A i \in 1..n - 1 : seqs[i] \in Buffer
          /\ n - 1 - 1 + 1 = n - 1
      BY <1>1
    <2>2. /\ rest \in Seq(Buffer)
          /\ Len(rest) = IF 1 <= n - 1 THEN n - 1 - 1 + 1 ELSE 0
          /\ \A i \in 1..n - 1 - 1 + 1 : rest[i] = seqs[1 + i - 1]
      <3>. HIDE DEF n
      <3>. QED
        BY <2>1, SubSeqProperties
    <2>. QED
      BY <1>1, <2>1, <2>2
  <1>. HIDE DEF rest
  <1>3. /\ Append(rest, seqs[n]) \in Seq(Buffer) /\ Len(Append(rest, seqs[n])) = n
        /\ \A i \in 1..n : Append(rest, seqs[n])[i] = seqs[i]
    <2>1. /\ Append(rest, seqs[n]) \in Seq(Buffer)
          /\ Len(Append(rest, seqs[n])) = Len(rest) + 1
          /\ \A i \in 1..Len(rest) : Append(rest, seqs[n])[i] = rest[i]
          /\ Append(rest, seqs[n])[Len(rest) + 1] = seqs[n]
      BY <1>1, <1>2, AppendProperties
    <2>. QED
      BY <1>1, <1>2, <2>1
  <1>4. seqs = Append(rest, seqs[n])
    BY <1>3, SeqEqual
  <1>. QED
    BY <1>1, <1>2, <1>4

\* \o is associative, as a formula.
LEMMA Associative ==
  /\ \A s, t, u \in Seq(Nat) : (s \o t) \o u = s \o (t \o u)
  /\ \A s, t, u \in Seq(Buffer) : (s \o t) \o u = s \o (t \o u)
  <1>1. ASSUME NEW s \in Seq(Nat), NEW t \in Seq(Nat), NEW u \in Seq(Nat)
        PROVE  (s \o t) \o u = s \o (t \o u)
    BY ConcatAssociative, SMTT(60)
  <1>2. ASSUME NEW s \in Seq(Buffer), NEW t \in Seq(Buffer), NEW u \in Seq(Buffer)
        PROVE  (s \o t) \o u = s \o (t \o u)
    BY ConcatAssociative
  <1>. QED
    BY <1>1, <1>2

\* Flattening distributes over concatenation.
LEMMA FlattenConcat ==
  ASSUME NEW s \in Seq(Buffer), NEW t \in Seq(Buffer)
  PROVE  FlattenSeq(s \o t) = FlattenSeq(s) \o FlattenSeq(t)
  <1>. DEFINE Good(u) == FlattenSeq(s \o u) = FlattenSeq(s) \o FlattenSeq(u)
              Bad == {n \in Nat : \E u \in Seq(Buffer) : Len(u) = n /\ ~Good(u)}
  <1>. SUFFICES ASSUME Bad # {} PROVE FALSE
    <2>1. Len(t) \in Nat
      BY LenProperties
    <2>. QED
      BY <2>1
  <1>1. PICK n \in Bad : \A m \in Bad : n <= m
    BY LeastNat
  <1>2. PICK u \in Seq(Buffer) : Len(u) = n /\ ~Good(u)
    BY <1>1
  <1>3. FlattenSeq(s) \in Buffer
    <2>1. <<>> \in Buffer
      BY EmptySeq DEF Buffer
    <2>. QED
      BY <2>1, FlattenAppend
  <1>4. u # <<>>
    <2>1. s \o <<>> = s /\ FlattenSeq(s) \o <<>> = FlattenSeq(s)
      BY <1>3, ConcatEmptySeq DEF Buffer
    <2>. QED
      BY <1>2, <2>1, FlattenNone
  <1>5. PICK rest \in Seq(Buffer) :
            /\ u = Append(rest, u[n]) /\ Len(rest) = n - 1 /\ u[n] \in Buffer
    BY <1>2, <1>4, LastOf
  <1>6. Good(rest)
    <2>1. n \in Nat /\ Len(rest) \in Nat
      BY <1>1, LenProperties
    <2>2. Len(rest) < n
      BY <1>5, <2>1
    <2>3. Len(rest) \notin Bad
      <3>. HIDE DEF Bad
      <3>. QED
        BY <1>1, <2>1, <2>2
    <2>. QED
      BY <2>1, <2>3
  <1>7. s \o u = Append(s \o rest, u[n])
    <2>1. /\ s \o rest \in Seq(Buffer)
          /\ u = rest \o <<u[n]>> /\ <<u[n]>> \in Seq(Buffer)
          /\ Append(s \o rest, u[n]) = (s \o rest) \o <<u[n]>>
      <3>1. s \o rest \in Seq(Buffer)
        BY ConcatProperties
      <3>2. u = rest \o <<u[n]>>
        BY <1>5, AppendIsConcat
      <3>3. Append(s \o rest, u[n]) = (s \o rest) \o <<u[n]>>
        BY <1>5, <3>1, AppendIsConcat
      <3>4. <<u[n]>> \in Seq(Buffer)
        BY <1>5
      <3>. QED
        BY <3>1, <3>2, <3>3, <3>4
    <2>2. (s \o rest) \o <<u[n]>> = s \o (rest \o <<u[n]>>)
      <3>1. s \in Seq(Buffer) /\ rest \in Seq(Buffer) /\ <<u[n]>> \in Seq(Buffer)
        BY <1>5, <2>1
      <3>. HIDE DEF Bad
      <3>. DEFINE one == <<u[n]>>
      <3>. HIDE DEF one
      <3>2. one \in Seq(Buffer)
        BY <3>1 DEF one
      <3>3. (s \o rest) \o one = s \o (rest \o one)
        BY <3>1, <3>2, Associative, ZenonT(60)
      <3>. QED
        BY <3>3 DEF one
    <2>. QED
      BY <2>1, <2>2
  <1>8. /\ FlattenSeq(s \o u) = FlattenSeq(s \o rest) \o u[n]
        /\ FlattenSeq(u) = FlattenSeq(rest) \o u[n]
        /\ FlattenSeq(rest) \in Buffer
    <2>1. s \o rest \in Seq(Buffer)
      BY ConcatProperties
    <2>. QED
      BY <1>5, <1>7, <2>1, FlattenAppend
  <1>9. Good(u)
    <2>1. /\ FlattenSeq(s) \in Seq(Nat) /\ FlattenSeq(rest) \in Seq(Nat) /\ u[n] \in Seq(Nat)
      BY <1>3, <1>5, <1>8 DEF Buffer
    <2>2. (FlattenSeq(s) \o FlattenSeq(rest)) \o u[n] = FlattenSeq(s) \o (FlattenSeq(rest) \o u[n])
      <3>. HIDE DEF Bad
      <3>. QED
        BY <2>1, Associative, ZenonT(60)
    <2>. QED
      BY <1>6, <1>8, <2>2
  <1>. QED
    BY <1>2, <1>9

-----------------------------------------------------------------------------
(* The order of the messages *)

\* What is in one log comes before what is in the other.
Before(s, t) == \A x \in ToSet(s) \ {Notice}, y \in ToSet(t) \ {Notice} : x < y

LEMMA ToSetFacts ==
  ASSUME NEW s \in Seq(Nat)
  PROVE  /\ ToSet(s) = {s[i] : i \in 1..Len(s)} /\ ToSet(s) \subseteq Nat
         /\ ToSet(s) = {} <=> s = <<>>
         /\ DOMAIN s = 1..Len(s) /\ Len(s) \in Nat
  <1>1. DOMAIN s = 1..Len(s) /\ Len(s) \in Nat /\ \A i \in 1..Len(s) : s[i] \in Nat
    BY LenProperties, ElementOfSeq
  <1>2. ToSet(s) = {s[i] : i \in 1..Len(s)} /\ ToSet(s) \subseteq Nat
    BY <1>1 DEF ToSet
  <1>3. ToSet(s) = {} => s = <<>>
    <2>1. ToSet(s) = {} => 1 \notin 1..Len(s)
      BY <1>2
    <2>. QED
      BY <1>1, <2>1, EmptySeq
  <1>4. s = <<>> => ToSet(s) = {}
    <2>1. s = <<>> => 1..Len(s) = {}
      BY <1>1
    <2>. QED
      BY <1>2, <2>1
  <1>. QED
    BY <1>1, <1>2, <1>3, <1>4

\* What a concatenation holds, and when it rises
LEMMA ConcatFacts ==
  ASSUME NEW s \in Seq(Nat), NEW t \in Seq(Nat)
  PROVE  /\ s \o t \in Seq(Nat)
         /\ ToSet(s \o t) = ToSet(s) \cup ToSet(t)
         /\ Rising(s \o t) <=> Rising(s) /\ Rising(t) /\ Before(s, t)
  <1>. DEFINE m == Len(s)
              n == Len(t)
              u == s \o t
  <1>1. /\ m \in Nat /\ n \in Nat
        /\ \A i \in 1..m : s[i] \in Nat
        /\ \A i \in 1..n : t[i] \in Nat
    BY LenProperties, ElementOfSeq
  <1>2. /\ u \in Seq(Nat) /\ Len(u) = m + n
        /\ \A i \in 1..m + n : u[i] = IF i <= m THEN s[i] ELSE t[i - m]
    BY ConcatProperties
  <1>. HIDE DEF u
  <1>3. DOMAIN u = 1..m + n /\ DOMAIN s = 1..m /\ DOMAIN t = 1..n
    BY <1>2, ToSetFacts
  <1>4. /\ \A i \in 1..m : i \in 1..m + n /\ u[i] = s[i]
        /\ \A i \in 1..n : m + i \in 1..m + n /\ u[m + i] = t[i]
        /\ \A i \in 1..m + n : i \in 1..m \/ \E j \in 1..n : i = m + j
    <2>1. ASSUME NEW i \in 1..m PROVE i \in 1..m + n /\ u[i] = s[i]
      BY <1>1, <1>2
    <2>2. ASSUME NEW i \in 1..n PROVE m + i \in 1..m + n /\ u[m + i] = t[i]
      <3>1. m + i \in 1..m + n /\ ~(m + i <= m) /\ (m + i) - m = i
        BY <1>1
      <3>. QED
        BY <1>2, <3>1
    <2>3. ASSUME NEW i \in 1..m + n PROVE i \in 1..m \/ \E j \in 1..n : i = m + j
      <3>1. CASE i <= m
        BY <1>1, <3>1
      <3>2. CASE ~(i <= m)
        <4>1. i - m \in 1..n /\ i = m + (i - m)
          BY <1>1, <3>2
        <4>. QED
          BY <4>1
      <3>. QED
        BY <3>1, <3>2
    <2>. QED
      BY <2>1, <2>2, <2>3
  <1>5. ToSet(u) = ToSet(s) \cup ToSet(t)
    <2>1. /\ ToSet(u) = {u[i] : i \in 1..m + n} /\ ToSet(s) = {s[i] : i \in 1..m}
          /\ ToSet(t) = {t[i] : i \in 1..n}
      BY <1>2, ToSetFacts
    <2>2. ASSUME NEW x \in ToSet(u) PROVE x \in ToSet(s) \cup ToSet(t)
      <3>1. PICK i \in 1..m + n : x = u[i]
        BY <2>1
      <3>2. CASE i \in 1..m
        BY <1>4, <2>1, <3>1, <3>2
      <3>3. ASSUME NEW j \in 1..n, i = m + j PROVE x \in ToSet(t)
        BY <1>4, <2>1, <3>1, <3>3
      <3>. QED
        BY <1>4, <3>2, <3>3
    <2>3. ASSUME NEW x \in ToSet(s) PROVE x \in ToSet(u)
      BY <1>4, <2>1
    <2>4. ASSUME NEW x \in ToSet(t) PROVE x \in ToSet(u)
      BY <1>4, <2>1
    <2>. QED
      BY <2>2, <2>3, <2>4
  <1>6. ASSUME Rising(u) PROVE Rising(s) /\ Rising(t) /\ Before(s, t)
    <2>1. \A i, j \in 1..m + n : (i < j /\ Notice \notin {u[i], u[j]}) => u[i] < u[j]
      BY <1>3, <1>6 DEF Rising
    <2>2. Rising(s)
      BY <1>3, <1>4, <2>1 DEF Rising
    <2>3. Rising(t)
      <3>. SUFFICES ASSUME NEW i \in 1..n, NEW j \in 1..n, i < j, Notice \notin {t[i], t[j]}
                    PROVE  t[i] < t[j]
        BY <1>3 DEF Rising
      <3>1. m + i \in 1..m + n /\ m + j \in 1..m + n /\ m + i < m + j
        BY <1>1
      <3>2. u[m + i] = t[i] /\ u[m + j] = t[j]
        BY <1>4
      <3>. QED
        BY <2>1, <3>1, <3>2
    <2>4. Before(s, t)
      <3>. SUFFICES ASSUME NEW x \in ToSet(s) \ {Notice}, NEW y \in ToSet(t) \ {Notice}
                    PROVE  x < y
        BY DEF Before
      <3>1. PICK i \in 1..m : x = s[i]
        BY ToSetFacts
      <3>2. PICK j \in 1..n : y = t[j]
        BY ToSetFacts
      <3>3. i \in 1..m + n /\ m + j \in 1..m + n /\ i < m + j /\ u[i] = x /\ u[m + j] = y
        BY <1>1, <1>4, <3>1, <3>2
      <3>. QED
        BY <2>1, <3>3
    <2>. QED
      BY <2>2, <2>3, <2>4
  <1>7. ASSUME Rising(s), Rising(t), Before(s, t) PROVE Rising(u)
    <2>. SUFFICES ASSUME NEW i \in 1..m + n, NEW j \in 1..m + n, i < j,
                         Notice \notin {u[i], u[j]}
                  PROVE  u[i] < u[j]
      BY <1>3 DEF Rising
    <2>1. CASE i \in 1..m /\ j \in 1..m
      BY <1>3, <1>4, <1>7, <2>1 DEF Rising
    <2>2. CASE i \in 1..m /\ j \notin 1..m
      <3>1. PICK l \in 1..n : j = m + l
        BY <1>4, <2>2
      <3>2. u[i] = s[i] /\ u[j] = t[l]
        BY <1>4, <2>2, <3>1
      <3>3. s[i] \in ToSet(s) /\ t[l] \in ToSet(t)
        BY <2>2, ToSetFacts
      <3>4. u[i] \in ToSet(s) \ {Notice} /\ u[j] \in ToSet(t) \ {Notice}
        BY <3>2, <3>3
      <3>. QED
        BY <1>7, <3>4 DEF Before
    <2>3. CASE i \notin 1..m
      <3>1. PICK k \in 1..n : i = m + k
        BY <1>4, <2>3
      <3>2. j \notin 1..m
        BY <1>1, <2>3
      <3>3. PICK l \in 1..n : j = m + l
        BY <1>4, <3>2
      <3>4. k < l /\ u[i] = t[k] /\ u[j] = t[l]
        BY <1>1, <1>4, <3>1, <3>3
      <3>. QED
        BY <1>3, <1>7, <3>4 DEF Rising
    <2>. QED
      BY <2>1, <2>2, <2>3
  <1>. QED
    BY <1>2, <1>5, <1>6, <1>7 DEF u

LEMMA BeforeConcat ==
  ASSUME NEW s \in Seq(Nat), NEW t \in Seq(Nat), NEW u \in Seq(Nat)
  PROVE  /\ Before(s \o t, u) <=> Before(s, u) /\ Before(t, u)
         /\ Before(u, s \o t) <=> Before(u, s) /\ Before(u, t)
  <1>1. ToSet(s \o t) = ToSet(s) \cup ToSet(t)
    BY ConcatFacts
  <1>. QED
    BY <1>1 DEF Before

\* The batch is what is kept of it and what is not.
LEMMA KeptAndDropped ==
  ASSUME NEW bufs \in Seq(Buffer)
  PROVE  /\ Kept(bufs) \in Seq(Buffer) /\ Dropped(bufs) \in Seq(Buffer)
         /\ bufs = Kept(bufs) \o Dropped(bufs)
         /\ ~(Len(bufs) > DropAbove) => Dropped(bufs) = <<>>
         /\ (Len(bufs) > DropAbove /\ \A i \in 1..Len(bufs) : bufs[i] # <<>>) =>
                FlattenSeq(Dropped(bufs)) # <<>>
  <1>. DEFINE n == Len(bufs)
              k == IF n > DropAbove THEN 2 ELSE n
              d == SubSeq(bufs, k + 1, n)
  <1>1. n \in Nat /\ k \in 0..n /\ \A i \in 1..n : bufs[i] \in Buffer
    BY AsyncLoggingAssumption, LenProperties, ElementOfSeq
  <1>2. Kept(bufs) = SubSeq(bufs, 1, k)
    <2>1. CASE n > DropAbove
      BY <1>1, <2>1, AsyncLoggingAssumption DEF Kept, First
    <2>2. CASE ~(n > DropAbove)
      <3>1. SubSeq(bufs, 1, n) = bufs
        BY SubSeqFull
      <3>. QED
        BY <2>2, <3>1 DEF Kept
    <2>. QED
      BY <2>1, <2>2
  <1>3. Kept(bufs) \in Seq(Buffer) /\ Len(Kept(bufs)) = k
    BY <1>1, <1>2, SubSeqProperties
  <1>4. Dropped(bufs) = d
    BY <1>3 DEF Dropped
  <1>5. /\ d \in Seq(Buffer) /\ Len(d) = n - k
        /\ \A i \in 1..n - k : d[i] = bufs[k + i]
    <2>1. /\ k + 1 \in Int /\ n \in Int /\ \A i \in k + 1 .. n : bufs[i] \in Buffer
          /\ n - (k + 1) + 1 = n - k
      BY <1>1
    <2>. HIDE DEF n, k
    <2>2. /\ d \in Seq(Buffer)
          /\ Len(d) = IF k + 1 <= n THEN n - (k + 1) + 1 ELSE 0
          /\ \A i \in 1 .. n - (k + 1) + 1 : d[i] = bufs[k + 1 + i - 1]
      BY <2>1, SubSeqProperties
    <2>. QED
      BY <1>1, <2>1, <2>2
  <1>6. bufs = Kept(bufs) \o d
    <2>1. 1 \in 1..n + 1 /\ k \in 1 - 1 .. n /\ n \in k..n
      BY <1>1
    <2>2. SubSeq(bufs, 1, k) \o SubSeq(bufs, k + 1, n) = SubSeq(bufs, 1, n)
      <3>. HIDE DEF k
      <3>. QED
        BY <2>1, ConcatAdjacentSubSeq
    <2>3. SubSeq(bufs, 1, n) = bufs
      BY SubSeqFull
    <2>. QED
      BY <1>2, <2>2, <2>3
  <1>7. ASSUME ~(n > DropAbove) PROVE d = <<>>
    BY <1>1, <1>5, <1>7, EmptySeq
  <1>8. ASSUME n > DropAbove, \A i \in 1..n : bufs[i] # <<>> PROVE FlattenSeq(d) # <<>>
    <2>. HIDE DEF d
    <2>1. k = 2 /\ n > 2 /\ Len(d) \in 1..n - k /\ Len(d) \in 1..Len(d)
      BY <1>1, <1>5, <1>8, AsyncLoggingAssumption
    <2>2. d # <<>>
      BY <2>1, EmptySeq
    <2>3. PICK rest \in Seq(Buffer) : d = Append(rest, d[Len(d)]) /\ d[Len(d)] \in Buffer
      BY <1>5, <2>2, LastOf
    <2>4. d[Len(d)] # <<>>
      <3>1. d[Len(d)] = bufs[k + Len(d)] /\ k + Len(d) = n /\ n \in 1..n
        BY <1>1, <1>5, <2>1
      <3>. QED
        BY <1>8, <3>1
    <2>5. FlattenSeq(d) = FlattenSeq(rest) \o d[Len(d)] /\ FlattenSeq(rest) \in Buffer
      BY <2>3, FlattenAppend
    <2>. QED
      BY <2>3, <2>4, <2>5, ConcatEqualIffEmpty DEF Buffer
  <1>. QED
    BY <1>3, <1>4, <1>5, <1>6, <1>7, <1>8

-----------------------------------------------------------------------------
(* LogSound *)

\* What is in the file and in memory, and what was dropped, is what was
\* appended; Notice, which is no message, is in the file only.
OrderInv ==
    /\ file \in Seq(Nat)
    /\ Rising(file \o InHand)
    /\ ToSet(file \o InHand) \ {Notice} = (1..count) \ dropped
    /\ Notice \notin ToSet(InHand)
    /\ dropped \subseteq 1..count
    /\ dropped = {} <=> Notice \notin ToSet(file)

\* A buffer that is not the only one has messages in it: what is left out of a
\* batch is not nothing.
Filled ==
    /\ \A i \in 1..Len(buffers) : buffers[i] # <<>>
    /\ buffers # <<>> => currentBuffer # <<>>
    /\ (thread = "write" /\ Len(buffersToWrite) > 1) =>
          \A i \in 1..Len(buffersToWrite) : buffersToWrite[i] # <<>>

LogInv == IInv /\ OrderInv /\ Filled

\* What the logging thread has taken and not written
Taken == IF thread = "write" THEN FlattenSeq(buffersToWrite) ELSE <<>>

LEMMA InHandFacts ==
  ASSUME Typed
  PROVE  /\ InHand = (Taken \o FlattenSeq(buffers)) \o currentBuffer
         /\ Taken \in Seq(Nat) /\ FlattenSeq(buffers) \in Seq(Nat) /\ currentBuffer \in Seq(Nat)
         /\ Taken \o FlattenSeq(buffers) \in Seq(Nat)
         /\ InHand \in Seq(Nat)
  <1>1. InHand = (Taken \o FlattenSeq(buffers)) \o currentBuffer
    BY DEF InHand, Taken
  <1>2. FlattenSeq(buffers) \in Buffer /\ FlattenSeq(buffersToWrite) \in Buffer
    <2>1. <<>> \in Buffer /\ buffers \in Seq(Buffer) /\ buffersToWrite \in Seq(Buffer)
      BY EmptySeq DEF Typed, Buffer
    <2>. QED
      BY <2>1, FlattenAppend
  <1>3. /\ Taken \in Seq(Nat) /\ FlattenSeq(buffers) \in Seq(Nat) /\ currentBuffer \in Seq(Nat)
    BY <1>2, EmptySeq DEF Taken, Typed, Buffer
  <1>4. Taken \o FlattenSeq(buffers) \in Seq(Nat)
    BY <1>3, ConcatFacts
  <1>5. (Taken \o FlattenSeq(buffers)) \o currentBuffer \in Seq(Nat)
    BY <1>3, <1>4, ConcatFacts
  <1>. QED
    BY <1>1, <1>3, <1>4, <1>5

LEMMA Init_LogInv == Init => LogInv
  <1> SUFFICES ASSUME Init PROVE LogInv
    OBVIOUS
  <1>1. IInv
    BY Init_IInv
  <1>2. Filled
    BY DEF Init, Filled
  <1>3. InHand = <<>> /\ file = <<>> /\ count = 0 /\ dropped = {}
    <2>1. InHand = (<<>> \o <<>>) \o <<>>
      BY FlattenNone DEF Init, InHand
    <2>2. <<>> \in Seq(Nat) /\ <<>> \o <<>> = <<>>
      BY EmptySeq, ConcatEmptySeq
    <2>. QED
      BY <2>1, <2>2 DEF Init
  <1>4. /\ <<>> \in Seq(Nat) /\ <<>> \o <<>> = <<>> /\ ToSet(<<>>) = {} /\ Rising(<<>>)
    <2>1. <<>> \in Seq(Nat) /\ <<>> \o <<>> = <<>>
      BY EmptySeq, ConcatEmptySeq
    <2>2. ToSet(<<>>) = {}
      BY <2>1, ToSetFacts
    <2>3. DOMAIN <<>> = {}
      OBVIOUS
    <2>. QED
      BY <2>1, <2>2, <2>3 DEF Rising
  <1>5. 1..0 = {}
    OBVIOUS
  <1>6. OrderInv
    BY <1>3, <1>4, <1>5 DEF OrderInv
  <1>. QED
    BY <1>1, <1>2, <1>6 DEF LogInv

\* append() puts its message at the end, whatever it does with the buffers.
LEMMA Append_InHand ==
  ASSUME LogInv, AppendMessage
  PROVE  InHand' = InHand \o <<count'>>
  <1>. DEFINE fb == FlattenSeq(buffers)
              one == <<count'>>
  <1>1. Typed /\ BuffersSound
    BY DEF LogInv, IInv
  <1>2. /\ Taken \in Seq(Nat) /\ fb \in Seq(Nat) /\ currentBuffer \in Seq(Nat)
        /\ Taken \o fb \in Seq(Nat) /\ one \in Seq(Nat)
    <2>1. count' \in Nat
      BY <1>1 DEF Typed, AppendMessage
    <2>. QED
      BY <1>1, <2>1, InHandFacts
  <1>3. InHand = (Taken \o fb) \o currentBuffer
    BY <1>1, InHandFacts
  <1>4. InHand' = (Taken \o FlattenSeq(buffers')) \o currentBuffer'
    BY DEF InHand, Taken, AppendMessage, locals
  <1>5. CASE Len(currentBuffer) < BufferSize
    <2>1. buffers' = buffers /\ currentBuffer' = currentBuffer \o one
      <3>1. Append(currentBuffer, count') = currentBuffer \o one
        <4>1. count' \in Nat
          BY <1>1 DEF Typed, AppendMessage
        <4>. QED
          BY <1>2, <4>1, AppendIsConcat
      <3>. QED
        BY <1>5, <3>1 DEF AppendMessage
    <2>. HIDE DEF fb, one
    <2>2. InHand' = (Taken \o fb) \o (currentBuffer \o one)
      BY <1>4, <2>1 DEF fb
    <2>3. ((Taken \o fb) \o currentBuffer) \o one = (Taken \o fb) \o (currentBuffer \o one)
      BY <1>2, Associative, ZenonT(60)
    <2>. QED
      BY <1>3, <2>2, <2>3 DEF one
  <1>6. CASE ~(Len(currentBuffer) < BufferSize)
    <2>1. buffers' = Append(buffers, currentBuffer)
      BY <1>6 DEF AppendMessage
    <2>2. currentBuffer' = one
      <3>1. nextBuffer # Null => nextBuffer[1] = <<>>
        BY <1>1 DEF BuffersSound
      <3>2. Append(<<>>, count') = one
        OBVIOUS
      <3>. QED
        BY <1>6, <3>1, <3>2 DEF AppendMessage
    <2>3. FlattenSeq(Append(buffers, currentBuffer)) = fb \o currentBuffer
      BY <1>1, FlattenAppend DEF Typed
    <2>. HIDE DEF fb, one
    <2>4. InHand' = (Taken \o (fb \o currentBuffer)) \o one
      BY <1>4, <2>1, <2>2, <2>3
    <2>5. Taken \o (fb \o currentBuffer) = (Taken \o fb) \o currentBuffer
      BY <1>2, Associative, Zenon
    <2>. QED
      BY <1>3, <2>4, <2>5 DEF one
  <1>. QED
    BY <1>5, <1>6

LEMMA Append_LogInv == LogInv /\ AppendMessage => LogInv'
  <1> SUFFICES ASSUME LogInv, AppendMessage PROVE LogInv'
    OBVIOUS
  <1>1. IInv'
    BY Append_IInv DEF LogInv
  <1>. DEFINE one == <<count'>>
              log == file \o InHand
  <1>2. count \in Nat /\ count' = count + 1 /\ one \in Seq(Nat)
    BY DEF LogInv, IInv, Typed, AppendMessage
  <1>3. /\ file \in Seq(Nat) /\ InHand \in Seq(Nat) /\ log \in Seq(Nat)
        /\ UNCHANGED <<file, dropped>>
    <2>1. file \in Seq(Nat) /\ InHand \in Seq(Nat)
      BY InHandFacts DEF LogInv, IInv, OrderInv
    <2>. QED
      BY <2>1, ConcatFacts DEF AppendMessage, output
  <1>4. ToSet(one) = {count + 1} /\ Rising(one)
    <2>1. Len(one) = 1 /\ one[1] = count + 1
      BY <1>2
    <2>2. ToSet(one) = {one[i] : i \in 1..Len(one)} /\ DOMAIN one = 1..Len(one)
      BY <1>2, ToSetFacts
    <2>3. 1..Len(one) = {1}
      BY <2>1
    <2>. HIDE DEF one
    <2>4. ToSet(one) = {count + 1}
      BY <2>1, <2>2, <2>3
    <2>5. Rising(one)
      BY <2>2, <2>3 DEF Rising
    <2>. QED
      BY <2>4, <2>5
  <1>. HIDE DEF one
  <1>5. (file \o InHand)' = log \o one
    <2>1. (file \o InHand)' = file \o (InHand \o one)
      BY <1>3, Append_InHand DEF one
    <2>. HIDE DEF log
    <2>2. (file \o InHand) \o one = file \o (InHand \o one)
      BY <1>2, <1>3, Associative, Zenon
    <2>. QED
      BY <2>1, <2>2 DEF log
  <1>6. Rising(log) /\ ToSet(log) \ {Notice} = (1..count) \ dropped
    BY DEF LogInv, OrderInv
  <1>. HIDE DEF log
  <1>7. Before(log, one)
    BY <1>2, <1>4, <1>6 DEF Before
  <1>8. Rising(log \o one) /\ ToSet(log \o one) = ToSet(log) \cup {count + 1}
    BY <1>2, <1>3, <1>4, <1>6, <1>7, ConcatFacts
  <1>9. dropped \subseteq 1..count /\ Notice # count + 1 /\ 1..count + 1 = (1..count) \cup {count + 1}
        /\ count + 1 \notin 1..count
    BY <1>2 DEF LogInv, OrderInv, Notice
  <1>10. ToSet(log \o one) \ {Notice} = (1..count + 1) \ dropped
    BY <1>6, <1>8, <1>9
  <1>11. Notice \notin ToSet(InHand \o one)
    <2>1. ToSet(InHand \o one) = ToSet(InHand) \cup {count + 1}
      BY <1>2, <1>3, <1>4, ConcatFacts
    <2>. QED
      BY <1>9, <2>1 DEF LogInv, OrderInv
  <1>12. OrderInv'
    <2>1. Rising((file \o InHand)') /\ ToSet((file \o InHand)') \ {Notice} = (1..count') \ dropped'
      BY <1>2, <1>3, <1>5, <1>8, <1>10
    <2>2. InHand' = InHand \o one
      BY Append_InHand DEF one
    <2>3. Notice \notin ToSet(InHand')
      BY <1>11, <2>2
    <2>4. /\ file' \in Seq(Nat) /\ dropped' \subseteq 1..count'
          /\ dropped' = {} <=> Notice \notin ToSet(file')
      BY <1>2, <1>3, <1>9 DEF LogInv, OrderInv
    <2>. QED
      BY <2>1, <2>3, <2>4 DEF OrderInv
  <1>13. Filled'
    <2>1. currentBuffer' # <<>>
      <3>1. \E b \in Buffer : currentBuffer' = Append(b, count')
        <4>1. <<>> \in Buffer /\ currentBuffer \in Buffer /\ (nextBuffer # Null => nextBuffer[1] = <<>>)
          BY EmptySeq DEF LogInv, IInv, Typed, BuffersSound, Buffer
        <4>. QED
          BY <4>1 DEF AppendMessage
      <3>. QED
        BY <1>2, <3>1, AppendProperties DEF Buffer
    <2>2. \A i \in 1..Len(buffers') : buffers'[i] # <<>>
      <3>1. CASE buffers' = buffers
        BY <3>1 DEF LogInv, Filled
      <3>2. CASE buffers' = Append(buffers, currentBuffer) /\ ~(Len(currentBuffer) < BufferSize)
        <4>1. currentBuffer # <<>>
          BY <3>2, AsyncLoggingAssumption
        <4>2. /\ Len(buffers') = Len(buffers) + 1 /\ Len(buffers) \in Nat
              /\ \A i \in 1..Len(buffers) : buffers'[i] = buffers[i]
              /\ buffers'[Len(buffers) + 1] = currentBuffer
          BY <3>2, AppendProperties, LenProperties DEF LogInv, IInv, Typed
        <4>. QED
          BY <4>1, <4>2 DEF LogInv, Filled
      <3>. QED
        BY <3>1, <3>2 DEF AppendMessage
    <2>. QED
      BY <2>1, <2>2 DEF LogInv, Filled, AppendMessage, locals
  <1>. QED
    BY <1>1, <1>12, <1>13 DEF LogInv

\* A step that moves no message keeps the order.
LEMMA Order_Stutter ==
  ASSUME OrderInv, InHand' = InHand, UNCHANGED <<file, dropped, count>>
  PROVE  OrderInv'
  BY DEF OrderInv

LEMMA Take_LogInv ==
  ASSUME LogInv, thread \in {"lock", "wait"}, TakeBuffers
  PROVE  LogInv'
  <1>1. IInv'
    BY Take_IInv DEF LogInv
  <1>2. Typed /\ newBuffer1 = <<Empty>>
    BY DEF LogInv, IInv, BuffersSound
  <1>3. /\ thread' = "write" /\ buffersToWrite' = Append(buffers, currentBuffer)
        /\ buffers' = <<>> /\ currentBuffer' = <<>>
        /\ UNCHANGED <<file, dropped, count>>
    BY <1>2 DEF TakeBuffers, output
  <1>4. InHand' = InHand
    <2>. DEFINE fb == FlattenSeq(buffers)
    <2>1. /\ fb \in Seq(Nat) /\ currentBuffer \in Seq(Nat) /\ fb \o currentBuffer \in Seq(Nat)
          /\ Taken = <<>> /\ InHand = (Taken \o fb) \o currentBuffer
      <3>1. /\ fb \in Seq(Nat) /\ currentBuffer \in Seq(Nat)
            /\ InHand = (Taken \o fb) \o currentBuffer
        BY <1>2, InHandFacts
      <3>. QED
        BY <3>1, ConcatFacts DEF Taken
    <2>2. FlattenSeq(Append(buffers, currentBuffer)) = fb \o currentBuffer
      BY <1>2, FlattenAppend DEF Typed
    <2>3. InHand' = ((fb \o currentBuffer) \o <<>>) \o <<>>
      BY <1>3, <2>2, FlattenNone DEF InHand
    <2>. HIDE DEF fb
    <2>4. (fb \o currentBuffer) \o <<>> = fb \o currentBuffer /\ <<>> \o fb = fb
      BY <2>1, ConcatEmptySeq
    <2>. QED
      BY <2>1, <2>3, <2>4
  <1>5. OrderInv'
    BY <1>3, <1>4, Order_Stutter DEF LogInv
  <1>6. Filled'
    <2>1. /\ Len(buffersToWrite') = Len(buffers) + 1 /\ Len(buffers) \in Nat
          /\ \A i \in 1..Len(buffers) : buffersToWrite'[i] = buffers[i]
          /\ buffersToWrite'[Len(buffers) + 1] = currentBuffer
      BY <1>2, <1>3, AppendProperties, LenProperties DEF Typed
    <2>2. ASSUME Len(buffersToWrite') > 1 PROVE \A i \in 1..Len(buffersToWrite') : buffersToWrite'[i] # <<>>
      <3>1. buffers # <<>>
        BY <2>1, <2>2, EmptySeq
      <3>2. currentBuffer # <<>> /\ \A i \in 1..Len(buffers) : buffers[i] # <<>>
        BY <3>1 DEF LogInv, Filled
      <3>. QED
        BY <2>1, <3>2
    <2>3. buffers' = <<>>
      BY <1>3
    <2>4. \A i \in 1..Len(buffers') : buffers'[i] # <<>>
      <3>1. 1..Len(buffers') = {}
        BY <2>3
      <3>. QED
        BY <3>1
    <2>. QED
      BY <2>2, <2>3, <2>4 DEF Filled
  <1>. QED
    BY <1>1, <1>5, <1>6 DEF LogInv

\* What is kept of the batch goes behind the file, what is dropped goes: a and n
\* are the file and the notice, k and d what is kept and dropped, b and c the
\* buffers that are full and the current one.
LEMMA CutOut ==
  ASSUME NEW a \in Seq(Nat), NEW n \in Seq(Nat), NEW k \in Seq(Nat), NEW d \in Seq(Nat),
         NEW b \in Seq(Nat), NEW c \in Seq(Nat),
         ToSet(n) \subseteq {Notice}, Notice \notin ToSet(d),
         Rising(a \o (((k \o d) \o b) \o c))
  PROVE  /\ Rising(((a \o n) \o k) \o ((<<>> \o b) \o c))
         /\ ToSet(((a \o n) \o k) \o ((<<>> \o b) \o c)) \ {Notice} =
              (ToSet(a \o (((k \o d) \o b) \o c)) \ {Notice}) \ ToSet(d)
  <1>1. /\ k \o d \in Seq(Nat) /\ (k \o d) \o b \in Seq(Nat) /\ ((k \o d) \o b) \o c \in Seq(Nat)
        /\ a \o n \in Seq(Nat) /\ (a \o n) \o k \in Seq(Nat)
        /\ b \o c \in Seq(Nat)
    <2>1. k \o d \in Seq(Nat) /\ a \o n \in Seq(Nat) /\ b \o c \in Seq(Nat)
      BY ConcatFacts
    <2>2. (k \o d) \o b \in Seq(Nat) /\ (a \o n) \o k \in Seq(Nat)
      BY <2>1, ConcatFacts
    <2>3. ((k \o d) \o b) \o c \in Seq(Nat)
      BY <2>2, ConcatFacts
    <2>. QED
      BY <2>1, <2>2, <2>3
  <1>2. <<>> \o b = b
    BY ConcatEmptySeq
  <1>. DEFINE kd == k \o d
              kdb == kd \o b
              kdbc == kdb \o c
              an == a \o n
              ank == an \o k
              bc == b \o c
  <1>3. /\ Rising(a) /\ Rising(kdbc) /\ Before(a, kdbc)
        /\ ToSet(a \o kdbc) = ToSet(a) \cup ToSet(kdbc)
    BY <1>1, ConcatFacts
  <1>4. /\ Rising(kdb) /\ Rising(c) /\ Before(kdb, c)
        /\ ToSet(kdbc) = ToSet(kdb) \cup ToSet(c)
    BY <1>1, <1>3, ConcatFacts
  <1>5. /\ Rising(kd) /\ Rising(b) /\ Before(kd, b)
        /\ ToSet(kdb) = ToSet(kd) \cup ToSet(b)
    BY <1>1, <1>4, ConcatFacts
  <1>6. /\ Rising(k) /\ Before(k, d)
        /\ ToSet(kd) = ToSet(k) \cup ToSet(d)
    BY <1>5, ConcatFacts
  <1>7. /\ Before(a, k) /\ Before(a, d) /\ Before(a, b) /\ Before(a, c)
        /\ Before(k, b) /\ Before(d, b) /\ Before(k, c) /\ Before(d, c) /\ Before(b, c)
    <2>1. ToSet(kdbc) = ((ToSet(k) \cup ToSet(d)) \cup ToSet(b)) \cup ToSet(c)
      BY <1>4, <1>5, <1>6
    <2>2. ToSet(kdb) = (ToSet(k) \cup ToSet(d)) \cup ToSet(b)
      BY <1>5, <1>6
    <2>. HIDE DEF kd, kdb, kdbc
    <2>3. Before(a, k) /\ Before(a, d) /\ Before(a, b) /\ Before(a, c)
      BY <1>3, <2>1 DEF Before
    <2>4. Before(k, c) /\ Before(d, c) /\ Before(b, c)
      BY <1>4, <2>2 DEF Before
    <2>5. Before(k, b) /\ Before(d, b)
      BY <1>5, <1>6 DEF Before
    <2>. QED
      BY <2>3, <2>4, <2>5
  <1>8. Rising(n) /\ Before(a, n) /\ Before(n, k) /\ Before(n, b) /\ Before(n, c)
    <2>1. \A i \in DOMAIN n : n[i] = Notice
      BY DEF ToSet
    <2>. QED
      BY <2>1 DEF Before, Rising
  <1>9. Rising(an) /\ ToSet(an) = ToSet(a) \cup ToSet(n)
    BY <1>3, <1>8, ConcatFacts
  <1>10. Before(an, k) /\ Before(an, b) /\ Before(an, c)
    BY <1>7, <1>8, BeforeConcat
  <1>11. Rising(ank) /\ ToSet(ank) = ToSet(an) \cup ToSet(k)
    BY <1>1, <1>6, <1>9, <1>10, ConcatFacts
  <1>12. Before(ank, b) /\ Before(ank, c)
    BY <1>1, <1>7, <1>10, BeforeConcat
  <1>13. Rising(bc) /\ ToSet(bc) = ToSet(b) \cup ToSet(c)
    BY <1>4, <1>5, <1>7, ConcatFacts
  <1>14. Before(ank, bc)
    <2>1. ank \in Seq(Nat)
      BY <1>1
    <2>. HIDE DEF ank
    <2>. QED
      BY <1>12, <2>1, BeforeConcat
  <1>15. Rising(ank \o bc) /\ ToSet(ank \o bc) = ToSet(ank) \cup ToSet(bc)
    BY <1>1, <1>11, <1>13, <1>14, ConcatFacts
  <1>16. ToSet(ank \o bc) \ {Notice} = (ToSet(a \o kdbc) \ {Notice}) \ ToSet(d)
    <2>1. ToSet(ank \o bc) = ToSet(a) \cup ToSet(n) \cup ToSet(k) \cup ToSet(b) \cup ToSet(c)
      BY <1>9, <1>11, <1>13, <1>15
    <2>2. ToSet(a \o kdbc) = ToSet(a) \cup ToSet(k) \cup ToSet(d) \cup ToSet(b) \cup ToSet(c)
      BY <1>3, <1>4, <1>5, <1>6
    <2>3. ASSUME NEW x \in ToSet(d)
          PROVE  x \notin ToSet(a) /\ x \notin ToSet(k) /\ x \notin ToSet(b) /\ x \notin ToSet(c)
      <3>1. x # Notice /\ x \in Nat /\ ~(x < x)
        BY ToSetFacts
      <3>. QED
        BY <1>6, <1>7, <3>1 DEF Before
    <2>. HIDE DEF ank, bc, kdbc
    <2>. QED
      BY <2>1, <2>2, <2>3
  <1>. QED
    BY <1>2, <1>15, <1>16

\* The batch is written, and what is too much of it dropped.
LEMMA Write_LogInv == LogInv /\ WriteOut => LogInv'
  <1> SUFFICES ASSUME LogInv, WriteOut PROVE LogInv'
    OBVIOUS
  <1>1. IInv'
    BY Write_IInv DEF LogInv
  <1>2. Typed /\ thread = "write" /\ thread' = "refill" /\ UNCHANGED front
    BY DEF LogInv, IInv, WriteOut
  <1>. DEFINE k == FlattenSeq(Kept(buffersToWrite))
              d == FlattenSeq(Dropped(buffersToWrite))
              b == FlattenSeq(buffers)
              c == currentBuffer
              n == IF Len(buffersToWrite) > DropAbove THEN <<Notice>> ELSE <<>>
  <1>3. buffersToWrite \in Seq(Buffer)
    BY <1>2 DEF Typed
  <1>4. /\ k \in Seq(Nat) /\ d \in Seq(Nat)
        /\ FlattenSeq(buffersToWrite) = k \o d
    <2>1. /\ Kept(buffersToWrite) \in Seq(Buffer) /\ Dropped(buffersToWrite) \in Seq(Buffer)
          /\ buffersToWrite = Kept(buffersToWrite) \o Dropped(buffersToWrite)
      BY <1>3, KeptAndDropped
    <2>2. k \in Buffer /\ d \in Buffer
      <3>1. <<>> \in Buffer
        BY EmptySeq DEF Buffer
      <3>. QED
        BY <2>1, <3>1, FlattenAppend
    <2>3. FlattenSeq(Kept(buffersToWrite) \o Dropped(buffersToWrite)) = k \o d
      BY <2>1, FlattenConcat
    <2>. QED
      BY <2>1, <2>2, <2>3 DEF Buffer
  <1>5. /\ b \in Seq(Nat) /\ c \in Seq(Nat) /\ file \in Seq(Nat)
        /\ InHand = ((k \o d) \o b) \o c
    <2>1. Taken = k \o d
      BY <1>2, <1>4 DEF Taken
    <2>. QED
      BY <1>2, <2>1, InHandFacts DEF LogInv, OrderInv
  <1>6. /\ n \in Seq(Nat) /\ ToSet(n) \subseteq {Notice}
        /\ Notice \in ToSet(n) <=> Len(buffersToWrite) > DropAbove
    <2>1. <<Notice>> \in Seq(Nat) /\ ToSet(<<Notice>>) = {Notice}
      <3>1. <<Notice>> \in Seq(Nat)
        BY DEF Notice
      <3>2. DOMAIN <<Notice>> = {1} /\ <<Notice>>[1] = Notice
        OBVIOUS
      <3>. QED
        BY <3>1, <3>2 DEF ToSet
    <2>2. <<>> \in Seq(Nat) /\ ToSet(<<>>) = {}
      BY EmptySeq, ToSetFacts
    <2>. QED
      BY <2>1, <2>2
  <1>7. /\ file' = (file \o n) \o k
        /\ InHand' = (<<>> \o b) \o c
        /\ dropped' = dropped \cup ToSet(d)
        /\ count' = count
    <2>1. file' = (file \o n) \o k /\ dropped' = dropped \cup ToSet(d)
      BY DEF WriteOut
    <2>2. count' = count /\ UNCHANGED <<buffers, currentBuffer>>
      BY <1>2 DEF front
    <2>3. InHand' = (<<>> \o b) \o c
      BY <1>2, <2>2 DEF InHand
    <2>. QED
      BY <2>1, <2>2, <2>3
  <1>8. ~(Len(buffersToWrite) > DropAbove) => ToSet(d) = {}
    <2>1. ~(Len(buffersToWrite) > DropAbove) => Dropped(buffersToWrite) = <<>>
      BY <1>3, KeptAndDropped
    <2>2. Dropped(buffersToWrite) = <<>> => d = <<>>
      BY FlattenNone
    <2>. QED
      BY <1>4, <2>1, <2>2, ToSetFacts
  <1>9. Len(buffersToWrite) > DropAbove => ToSet(d) # {}
    <2>. SUFFICES ASSUME Len(buffersToWrite) > DropAbove PROVE ToSet(d) # {}
      OBVIOUS
    <2>1. Len(buffersToWrite) > 1
      BY <1>3, LenProperties, AsyncLoggingAssumption
    <2>2. \A i \in 1..Len(buffersToWrite) : buffersToWrite[i] # <<>>
      BY <1>2, <2>1 DEF LogInv, Filled
    <2>3. d # <<>>
      BY <1>3, <2>2, KeptAndDropped
    <2>. QED
      BY <1>4, <2>3, ToSetFacts
  <1>. HIDE DEF k, d, b, c, n
  <1>10. /\ k \o d \in Seq(Nat) /\ (k \o d) \o b \in Seq(Nat) /\ file \o n \in Seq(Nat)
         /\ <<>> \o b = b /\ b \o c \in Seq(Nat)
    <2>1. k \o d \in Seq(Nat) /\ file \o n \in Seq(Nat) /\ b \o c \in Seq(Nat)
      BY <1>4, <1>5, <1>6, ConcatFacts
    <2>2. (k \o d) \o b \in Seq(Nat)
      BY <1>5, <2>1, ConcatFacts
    <2>. QED
      BY <1>5, <2>1, <2>2, ConcatEmptySeq
  <1>11. /\ ToSet(InHand) = ToSet(k) \cup ToSet(d) \cup ToSet(b) \cup ToSet(c)
         /\ ToSet(InHand') = ToSet(b) \cup ToSet(c)
         /\ ToSet(file') = ToSet(file) \cup ToSet(n) \cup ToSet(k) /\ file' \in Seq(Nat)
    <2>1. ToSet(InHand) = ToSet((k \o d) \o b) \cup ToSet(c)
      BY <1>5, <1>10, ConcatFacts
    <2>2. ToSet((k \o d) \o b) = ToSet(k \o d) \cup ToSet(b) /\ ToSet(k \o d) = ToSet(k) \cup ToSet(d)
      BY <1>4, <1>5, <1>10, ConcatFacts
    <2>3. InHand' = b \o c /\ ToSet(b \o c) = ToSet(b) \cup ToSet(c)
      BY <1>5, <1>7, <1>10, ConcatFacts
    <2>4. ToSet(file') = ToSet(file \o n) \cup ToSet(k) /\ file' \in Seq(Nat)
      BY <1>4, <1>7, <1>10, ConcatFacts
    <2>5. ToSet(file \o n) = ToSet(file) \cup ToSet(n)
      BY <1>5, <1>6, ConcatFacts
    <2>. QED
      BY <2>1, <2>2, <2>3, <2>4, <2>5
  <1>12. /\ Rising(file \o InHand) /\ ToSet(file \o InHand) \ {Notice} = (1..count) \ dropped
         /\ Notice \notin ToSet(InHand) /\ dropped \subseteq 1..count
         /\ dropped = {} <=> Notice \notin ToSet(file)
    BY DEF LogInv, OrderInv
  <1>13. Notice \notin ToSet(k) /\ Notice \notin ToSet(d) /\ Notice \notin ToSet(InHand')
    BY <1>11, <1>12
  <1>14. /\ Rising(((file \o n) \o k) \o ((<<>> \o b) \o c))
         /\ ToSet(((file \o n) \o k) \o ((<<>> \o b) \o c)) \ {Notice} =
              (ToSet(file \o (((k \o d) \o b) \o c)) \ {Notice}) \ ToSet(d)
    <2>1. Rising(file \o (((k \o d) \o b) \o c))
      BY <1>5, <1>12
    <2>. QED
      BY <1>4, <1>5, <1>6, <1>13, <2>1, CutOut, SMTT(60)
  <1>15. ToSet(d) \subseteq 1..count
    <2>1. ToSet(file \o InHand) = ToSet(file) \cup ToSet(InHand)
      <3>1. InHand \in Seq(Nat)
        BY <1>2, InHandFacts
      <3>. QED
        BY <1>5, <3>1, ConcatFacts
    <2>. QED
      BY <1>11, <1>12, <1>13, <2>1
  <1>16. OrderInv'
    <2>1. Rising(file' \o InHand')
      BY <1>7, <1>14
    <2>2. ToSet(file' \o InHand') \ {Notice} = (1..count') \ dropped'
      BY <1>5, <1>7, <1>12, <1>14
    <2>3. dropped' \subseteq 1..count'
      BY <1>7, <1>12, <1>15
    <2>4. dropped' = {} <=> Notice \notin ToSet(file')
      BY <1>6, <1>7, <1>8, <1>9, <1>11, <1>12, <1>13
    <2>. QED
      BY <1>11, <1>13, <2>1, <2>2, <2>3, <2>4 DEF OrderInv
  <1>17. Filled'
    BY <1>2 DEF LogInv, Filled, front
  <1>. QED
    BY <1>1, <1>16, <1>17 DEF LogInv

\* The steps that leave the buffers with messages in them alone
LEMMA Other_LogInv ==
  ASSUME LogInv, IInv', UNCHANGED <<front, output>>,
         thread' # "write" \/ UNCHANGED <<thread, buffersToWrite>>, thread # "write" \/ thread' = "write"
  PROVE  LogInv'
  <1>1. InHand' = InHand
    BY DEF InHand, front
  <1>2. UNCHANGED <<file, dropped, count, buffers, currentBuffer>>
    BY DEF front, output
  <1>3. OrderInv'
    BY <1>1, <1>2, Order_Stutter DEF LogInv
  <1>4. Filled'
    BY <1>2 DEF LogInv, Filled
  <1>. QED
    BY <1>3, <1>4 DEF LogInv

LEMMA Next_LogInv == LogInv /\ [Next]_vars => LogInv'
  <1> SUFFICES ASSUME LogInv, [Next]_vars PROVE LogInv'
    OBVIOUS
  <1>1. IInv'
    BY Next_IInv DEF LogInv
  <1>2. CASE AppendMessage
    BY <1>2, Append_LogInv
  <1>3. CASE Start
    <2>1. thread = "none" /\ thread' = "begin" /\ UNCHANGED <<front, output>>
      BY <1>3 DEF LogInv, IInv, StartSound, Start
    <2>. QED
      BY <1>1, <2>1, Other_LogInv
  <1>4. CASE Stop \/ OwnerStep \/ UNCHANGED vars
    <2>1. UNCHANGED <<front, output, thread, buffersToWrite>>
      BY <1>4 DEF Stop, OwnerStep, Started, StopNotifies, Join, vars, locals
    <2>. QED
      BY <1>1, <2>1, Other_LogInv
  <1>5. CASE Begin \/ TestRunning \/ Wait \/ Refill
    <2>1. thread # "write" /\ thread' # "write" /\ UNCHANGED <<front, output>>
      BY <1>5 DEF Begin, TestRunning, Wait, Refill
    <2>. QED
      BY <1>1, <2>1, Other_LogInv
  <1>6. CASE Lock \/ EndWait
    BY <1>6, Take_LogInv DEF Lock, EndWait
  <1>7. CASE WriteOut
    BY <1>7, Write_LogInv
  <1>. QED
    BY <1>2, <1>3, <1>4, <1>5, <1>6, <1>7 DEF Next, ThreadStep

\* Through all the exchanges of buffers each message reaches the file once and in
\* the order of append(), or was dropped with a notice, for any size of the
\* buffers, limit and number of messages (AsyncLogging.cc:29-128).
THEOREM LogCorrect == Spec => []LogSound
  <1>1. LogInv => LogSound
    BY DEF LogInv, IInv, OrderInv, LogSound
  <1>. QED
    BY <1>1, Init_LogInv, Next_LogInv, PTL DEF Spec
=============================================================================
