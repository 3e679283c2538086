---------------------------- MODULE AsyncLogging ----------------------------
(***************************************************************************)
(* muduo::AsyncLogging: threads append messages to a buffer in memory, and *)
(* a thread of its own writes the buffers to the log file.  There are two  *)
(* buffers on either side at first; the logging thread puts a fresh one in *)
(* place of the one it takes, and gets it back from what it has written.   *)
(*                                                                         *)
(* A critical section under mutex_ is one step; the logging thread gives   *)
(* the mutex up while it waits.  Messages are numbered in the order of     *)
(* append(), which is called by any thread at any time, and all of them    *)
(* fit into a buffer.  The rolling of files (LogFile) is left out.         *)
(***************************************************************************)
EXTENDS Naturals, Sequences, SequencesExt

CONSTANTS
    BufferSize,      \* messages that fit into a buffer of kLargeBuffer
    DropAbove,       \* buffers that are written at once, 25 in the code
    MaxMessages      \* bound on the calls of append()

ASSUME AsyncLoggingAssumption ==
    /\ {BufferSize, DropAbove, MaxMessages} \subseteq Nat
    /\ BufferSize > 0 /\ DropAbove >= 2

\* A BufferPtr is a sequence of at most one buffer: <<>> is the null pointer.
VARIABLES
    currentBuffer,   \* the buffer *currentBuffer_, which is never null
    nextBuffer,      \* nextBuffer_
    buffers,         \* buffers_
    newBuffer1, newBuffer2, buffersToWrite,  \* locals of threadFunc
    running,         \* running_
    thread,          \* where threadFunc is
    owner,           \* where start() and stop() are
    notified,        \* the logging thread has been woken up
    count,           \* history: the calls of append()
    file,            \* the log file: messages, and Notice
    dropped,         \* history: the messages that were dropped
    failed           \* an assertion failed

locals == <<newBuffer1, newBuffer2, buffersToWrite>>
front == <<currentBuffer, nextBuffer, buffers, count>>
output == <<file, dropped>>
vars == <<front, locals, running, thread, owner, notified, output, failed>>

Null == <<>>
Empty == <<>>
Notice == 0      \* "Dropped log messages at ..."

Init ==
    /\ currentBuffer = Empty
    /\ nextBuffer = <<Empty>>
    /\ buffers = <<>>
    /\ newBuffer1 = Null /\ newBuffer2 = Null /\ buffersToWrite = <<>>
    /\ running = FALSE
    /\ thread = "none" /\ owner = "idle" /\ notified = FALSE
    /\ count = 0
    /\ file = <<>> /\ dropped = {}
    /\ failed = FALSE
-----------------------------------------------------------------------------
(* The threads that log *)

AppendMessage ==
    /\ count < MaxMessages /\ count' = count + 1
    /\ IF Len(currentBuffer) < BufferSize
       THEN /\ currentBuffer' = Append(currentBuffer, count')
            /\ UNCHANGED <<nextBuffer, buffers, notified>>
       ELSE /\ buffers' = Append(buffers, currentBuffer)
            /\ currentBuffer' = Append(IF nextBuffer # Null THEN nextBuffer[1] ELSE Empty, count')
            /\ nextBuffer' = Null
            /\ notified' = (notified \/ thread = "wait")
    /\ UNCHANGED <<locals, running, thread, owner, output, failed>>
-----------------------------------------------------------------------------
(* start() and stop() *)

Start ==
    /\ owner = "idle" /\ owner' = "latch"
    /\ running' = TRUE
    /\ thread' = "begin"
    /\ UNCHANGED <<front, locals, notified, output, failed>>

\* latch_.wait()
Started ==
    /\ owner = "latch" /\ thread # "begin"
    /\ owner' = "started"
    /\ UNCHANGED <<front, locals, running, thread, notified, output, failed>>

Stop ==
    /\ owner = "started" /\ owner' = "notify"
    /\ running' = FALSE
    /\ UNCHANGED <<front, locals, thread, notified, output, failed>>

StopNotifies ==
    /\ owner = "notify" /\ owner' = "join"
    /\ notified' = (notified \/ thread = "wait")
    /\ UNCHANGED <<front, locals, running, thread, output, failed>>

Join ==
    /\ owner = "join" /\ thread = "exit"
    /\ owner' = "stopped"
    /\ UNCHANGED <<front, locals, running, thread, notified, output, failed>>
-----------------------------------------------------------------------------
(* threadFunc *)

\* latch_.countDown(), and the two spare buffers
Begin ==
    /\ thread = "begin" /\ thread' = "while"
    /\ failed' = ~running
    /\ newBuffer1' = <<Empty>> /\ newBuffer2' = <<Empty>>
    /\ UNCHANGED <<front, buffersToWrite, running, owner, notified, output>>

TestRunning ==
    /\ thread = "while"
    /\ thread' = IF running THEN "lock" ELSE "exit"
    /\ failed' = (running /\ ~(newBuffer1 = <<Empty>> /\ newBuffer2 = <<Empty>>
                               /\ buffersToWrite = <<>>))
    /\ UNCHANGED <<front, locals, running, owner, notified, output>>

\* The rest of the critical section: takes what there is and leaves the spare
\* buffers in its place.
TakeBuffers ==
    /\ thread' = "write" /\ notified' = FALSE
    /\ buffersToWrite' = Append(buffers, currentBuffer)
    /\ buffers' = <<>>
    /\ currentBuffer' = newBuffer1[1] /\ newBuffer1' = Null
    /\ IF nextBuffer = Null
       THEN nextBuffer' = newBuffer2 /\ newBuffer2' = Null
       ELSE UNCHANGED <<nextBuffer, newBuffer2>>
    /\ UNCHANGED <<running, owner, output, failed, count>>

Lock == thread = "lock" /\ buffers # <<>> /\ TakeBuffers

Wait ==
    /\ thread = "lock" /\ buffers = <<>>
    /\ thread' = "wait"
    /\ UNCHANGED <<front, locals, running, owner, notified, output, failed>>

\* Mutation of EndWait: wait() instead of waitForSeconds(flushInterval_).
EndWaitIfNotified == thread = "wait" /\ notified /\ TakeBuffers

\* A notification, the time-out or a spurious wake-up
EndWait == thread = "wait" /\ TakeBuffers

First(n, bufs) == SubSeq(bufs, 1, IF Len(bufs) > n THEN n ELSE Len(bufs))

\* Mutation of Kept: the message takes the place of a buffer.
KeptOne(bufs) == IF Len(bufs) > DropAbove THEN First(1, bufs) ELSE bufs

\* What is written of the buffers that were taken, and what is not
Kept(bufs) == IF Len(bufs) > DropAbove THEN First(2, bufs) ELSE bufs
Dropped(bufs) == SubSeq(bufs, Len(Kept(bufs)) + 1, Len(bufs))

WriteOut ==
    /\ thread = "write" /\ thread' = "refill"
    /\ failed' = (buffersToWrite = <<>>)
    /\ dropped' = dropped \cup ToSet(FlattenSeq(Dropped(buffersToWrite)))
    /\ file' = file \o (IF Len(buffersToWrite) > DropAbove THEN <<Notice>> ELSE <<>>)
                    \o FlattenSeq(Kept(buffersToWrite))
    /\ buffersToWrite' = First(2, Kept(buffersToWrite))
    /\ UNCHANGED <<front, newBuffer1, newBuffer2, running, owner, notified>>

\* reset()
Reset(buffer) == Empty

\* The spare buffers come back, from the end of buffersToWrite.
Refill ==
    /\ thread = "refill" /\ thread' = "while"
    /\ LET n == Len(buffersToWrite)
           wanted == (IF newBuffer1 = Null THEN 1 ELSE 0) + (IF newBuffer2 = Null THEN 1 ELSE 0)
           last == Reset(buffersToWrite[n])
       IN  IF n < wanted
           THEN failed' = TRUE /\ UNCHANGED <<newBuffer1, newBuffer2>>
           ELSE /\ newBuffer1' = IF newBuffer1 = Null THEN <<last>> ELSE newBuffer1
                /\ newBuffer2' = IF newBuffer2 # Null THEN newBuffer2
                                 ELSE IF newBuffer1 # Null THEN <<last>>
                                 ELSE <<Reset(buffersToWrite[n - 1])>>
                /\ UNCHANGED failed
    /\ buffersToWrite' = <<>>
    /\ UNCHANGED <<front, running, owner, notified, output>>

ThreadStep == Begin \/ TestRunning \/ Lock \/ Wait \/ EndWait \/ WriteOut \/ Refill
OwnerStep == Started \/ StopNotifies \/ Join

Next == ~failed /\ (AppendMessage \/ Start \/ Stop \/ OwnerStep \/ ThreadStep)

Spec == Init /\ [][Next]_vars

\* Both threads run, and waitForSeconds times out.
FairSpec == Spec /\ WF_vars(ThreadStep) /\ WF_vars(OwnerStep)
-----------------------------------------------------------------------------
(* Properties *)

\* No assertion of threadFunc fails: wherever append() has taken the buffers
\* from, what comes back from the file is enough for the two spare buffers, and
\* they and nextBuffer_ are empty (AsyncLogging.cc:29-126).
BuffersSound ==
    /\ ~failed
    /\ nextBuffer \in {Null, <<Empty>>}
    /\ thread \in {"while", "lock", "wait"} => newBuffer1 = <<Empty>> /\ newBuffer2 = <<Empty>>
    /\ nextBuffer = Null => buffers # <<>>

\* The messages that are on their way to the file
InHand == (IF thread = "write" THEN FlattenSeq(buffersToWrite) ELSE <<>>)
            \o FlattenSeq(buffers) \o currentBuffer

\* Rising, but for the notices, and so without a message that is there twice
Rising(log) ==
    \A i, j \in DOMAIN log : (i < j /\ Notice \notin {log[i], log[j]}) => log[i] < log[j]

\* Through all the exchanges of buffers the messages reach the file once and in
\* the order of append(); only a batch of too many buffers loses some, and the
\* file says so (AsyncLogging.cc:70-102).
LogSound ==
    /\ BuffersSound
    /\ Rising(file \o InHand)
    /\ ToSet(file \o InHand) \ {Notice} = (1..count) \ dropped
    /\ dropped = {} <=> Notice \notin ToSet(file)

\* What is appended is written or dropped within the flush interval, unless the
\* log is stopped, and stop() returns (AsyncLogging.cc:74, AsyncLogging.h:45-50).
Logged ==
    /\ \A m \in 1..MaxMessages :
           (m <= count /\ running) ~> (m \in ToSet(file) \cup dropped \/ ~running)
    /\ owner = "notify" ~> owner = "stopped"

\* That stop() leaves nothing in memory, which it does not promise: what was
\* appended after the last batch was taken is lost.
NothingLeft == owner = "stopped" /\ dropped = {} => InHand = <<>>
=============================================================================
