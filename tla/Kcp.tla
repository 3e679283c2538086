-------------------------------- MODULE Kcp --------------------------------
(***************************************************************************)
(* The KCP protocol (ikcp.c): two peers, each with a control block that    *)
(* sends and receives, over datagrams that are lost, doubled and           *)
(* reordered.  The control block is a record with the names of IKCPCB, and *)
(* the functions of ikcp.c are functions from control block to control     *)
(* block.                                                                  *)
(*                                                                         *)
(* Time is left out: at each flush any set of the segments in snd_buf may  *)
(* have reached its resendts, and the window probe may be due or not.  A   *)
(* timeout while datagrams are in flight is possible, and a fault.         *)
(* Sizes are counted in segments.  Message mode only (stream = 0).         *)
(***************************************************************************)
EXTENDS Integers, Sequences, FiniteSets, FiniteSetsExt, SequencesExt

CONSTANTS
    Peers, Senders,  \* the two ends, and those that send messages
    SnMod,          \* sequence numbers are modulo this, 2^32 in the code
    Start,           \* the number an idle connection has reached, 0 when created
    SndWnd, RcvWnd,  \* snd_wnd, rcv_wnd
    Mss,             \* mss, the unit of incr
    NoCwnd,          \* nocwnd: congestion control is off
    FastResend,      \* fastresend, 0 for off
    FastLimit,       \* fastlimit
    Parts,           \* the numbers of fragments of a message
    PerDatagram,     \* segments that fit into the mtu
    MaxSegments,     \* bound on the fragments sent by a peer
    NetCap,          \* bound on the datagrams in flight to a peer
    MaxAcks,         \* bound on acklist: a peer flushes before it takes more
    MaxFaults        \* bound on the datagrams lost or doubled and the timeouts
                     \* that come too early

ASSUME KcpAssumption ==
    /\ Cardinality(Peers) = 2 /\ Senders \subseteq Peers
    /\ {SnMod, SndWnd, RcvWnd, Mss, PerDatagram} \subseteq Nat \ {0}
    /\ Start \in 0..(SnMod - 1)
    /\ {FastResend, FastLimit, MaxSegments, NetCap, MaxAcks, MaxFaults} \subseteq Nat
    /\ NoCwnd \in BOOLEAN
    \* ikcp_send takes less than IKCP_WND_RCV fragments, ikcp_wndsize no less.
    /\ Parts \subseteq 1..RcvWnd
    \* Numbers do not go round while a datagram of their last use is around.
    /\ 2 * (MaxSegments + RcvWnd) <= SnMod
    /\ PerDatagram <= MaxAcks

VARIABLES
    kcp,             \* the control block of each peer
    net,             \* the datagrams in flight
    faults,          \* how many faults there have been
    sent, received   \* history: messages given to ikcp_send, got from ikcp_recv

vars == <<kcp, net, faults, sent, received>>

Other(p) == CHOOSE q \in Peers : q # p
Lesser(a, b) == IF a <= b THEN a ELSE b
Greater(a, b) == IF a >= b THEN a ELSE b

Sn == 0..(SnMod - 1)
Plus(sn, n) == (sn + n) % SnMod

\* _itimediff: the difference as a signed number
Diff(later, earlier) ==
    LET d == (later - earlier) % SnMod
    IN  IF d < SnMod \div 2 THEN d ELSE d - SnMod

CtlSegment(c, n, k, wnd) == [cmd |-> c, sn |-> n, una |-> k.rcv_nxt, wnd |-> wnd, data |-> <<>>]

IKCP_THRESH_INIT == 2
IKCP_THRESH_MIN == 2

\* ikcp_create; ikcp_wndsize and ikcp_nodelay have set the constants.  The
\* default of rmt_wnd is IKCP_WND_RCV, which the peers use.
Create == [
    snd_queue |-> <<>>, snd_buf |-> <<>>, snd_una |-> Start, snd_nxt |-> Start,
    rcv_queue |-> <<>>, rcv_buf |-> <<>>, rcv_nxt |-> Start, acklist |-> <<>>,
    rmt_wnd |-> RcvWnd, cwnd |-> 0, incr |-> 0, ssthresh |-> IKCP_THRESH_INIT,
    probe |-> {}, probe_wait |-> FALSE]

Init ==
    /\ kcp = [p \in Peers |-> Create]
    /\ net = {}
    /\ faults = 0
    /\ sent = [p \in Peers |-> <<>>]
    /\ received = [p \in Peers |-> <<>>]
-----------------------------------------------------------------------------
(* ikcp_send, ikcp_recv *)

Message(m, count) == [i \in 1..count |-> [msg |-> m, frg |-> count - i]]

Send(k, message) == [k EXCEPT !.snd_queue = @ \o message]

\* Mutation of MoveAvailable: the order of rcv_buf is trusted.
MoveInOrderOfArrival(k) ==
    LET n == Lesser(Len(k.rcv_buf), RcvWnd - Len(k.rcv_queue))
    IN  [k EXCEPT !.rcv_queue = @ \o [i \in 1..n |-> k.rcv_buf[i].data],
                  !.rcv_buf = SubSeq(@, n + 1, Len(@)),
                  !.rcv_nxt = Plus(@, n)]

\* move available data from rcv_buf -> rcv_queue
MoveAvailable(k) ==
    LET n == Max({j \in 0..Len(k.rcv_buf) :
                    /\ j = 0 \/ Len(k.rcv_queue) + j <= RcvWnd
                    /\ \A i \in 1..j : k.rcv_buf[i].sn = Plus(k.rcv_nxt, i - 1)})
    IN  [k EXCEPT !.rcv_queue = @ \o [i \in 1..n |-> k.rcv_buf[i].data],
                  !.rcv_buf = SubSeq(@, n + 1, Len(@)),
                  !.rcv_nxt = Plus(@, n)]

\* ikcp_peeksize >= 0: the first message of rcv_queue is there, or its last
\* fragments cannot come.
Readable(k) ==
    /\ k.rcv_queue # <<>>
    /\ Len(k.rcv_queue) >= Head(k.rcv_queue).frg + 1

FirstMessage(k) ==
    LET ends == {i \in 1..Len(k.rcv_queue) : k.rcv_queue[i].frg = 0} \cup {Len(k.rcv_queue)}
    IN  SubSeq(k.rcv_queue, 1, Min(ends))

\* fast recover: a window that was full is told as soon as it opens.
Recover(old, k) ==
    IF Len(old.rcv_queue) >= RcvWnd /\ Len(k.rcv_queue) < RcvWnd
    THEN [k EXCEPT !.probe = @ \cup {"ASK_TELL"}]
    ELSE k

Recv(k) ==
    LET n == Len(FirstMessage(k))
    IN  Recover(k, MoveAvailable([k EXCEPT !.rcv_queue = SubSeq(@, n + 1, Len(@))]))
-----------------------------------------------------------------------------
(* ikcp_input *)

ShrinkBuf(k) ==
    [k EXCEPT !.snd_una = IF k.snd_buf = <<>> THEN k.snd_nxt ELSE k.snd_buf[1].sn]

\* ikcp_parse_una: the beginning of snd_buf, which is in order
ParseUna(k, una) ==
    [k EXCEPT !.snd_buf = SelectSeq(@, LAMBDA s : Diff(una, s.sn) <= 0)]

Outstanding(k, sn) == Diff(sn, k.snd_una) >= 0 /\ Diff(sn, k.snd_nxt) < 0

\* Mutation of ParseAck: an acknowledgement acknowledges what came before, too.
ParseAckCumulative(k, sn) ==
    IF Outstanding(k, sn)
    THEN [k EXCEPT !.snd_buf = SelectSeq(@, LAMBDA s : Diff(s.sn, sn) > 0)]
    ELSE k

ParseAck(k, sn) ==
    IF Outstanding(k, sn)
    THEN [k EXCEPT !.snd_buf = SelectSeq(@, LAMBDA s : s.sn # sn)]
    ELSE k

\* fastack stops at FastResend, beyond which nothing reads it.
ParseFastack(k, sn) ==
    IF Outstanding(k, sn)
    THEN [k EXCEPT !.snd_buf = [i \in DOMAIN @ |->
             IF Diff(sn, @[i].sn) > 0
             THEN [@[i] EXCEPT !.fastack = Lesser(@ + 1, FastResend)]
             ELSE @[i]]]
    ELSE k

\* ikcp_parse_data
ParseData(k, seg) ==
    LET before == SelectSeq(k.rcv_buf, LAMBDA s : Diff(s.sn, seg.sn) < 0)
        after == SelectSeq(k.rcv_buf, LAMBDA s : Diff(s.sn, seg.sn) > 0)
        repeat == \E i \in DOMAIN k.rcv_buf : k.rcv_buf[i].sn = seg.sn
        new == [sn |-> seg.sn, data |-> Head(seg.data)]
    IN  MoveAvailable(IF repeat THEN k
                      ELSE [k EXCEPT !.rcv_buf = before \o <<new>> \o after])

InWindow(k, sn) == Diff(sn, Plus(k.rcv_nxt, RcvWnd)) < 0

\* IKCP_CMD_PUSH: ikcp_ack_push, ikcp_parse_data
InputPush(k, seg) ==
    LET acked == [k EXCEPT !.acklist = Append(@, seg.sn)]
    IN  IF ~InWindow(k, seg.sn) THEN k
        ELSE IF Diff(seg.sn, k.rcv_nxt) >= 0 THEN ParseData(acked, seg) ELSE acked

\* One segment of a datagram.
InputSegment(k, seg) ==
    LET told == ShrinkBuf(ParseUna([k EXCEPT !.rmt_wnd = seg.wnd], seg.una))
    IN  CASE seg.cmd = "ACK" -> ShrinkBuf(ParseAck(told, seg.sn))
          [] seg.cmd = "PUSH" -> InputPush(told, seg)
          [] seg.cmd = "WASK" -> [told EXCEPT !.probe = @ \cup {"ASK_TELL"}]
          [] seg.cmd = "WINS" -> told

\* The congestion window grows when snd_una has moved.
GrowCwnd(k) ==
    LET i0 == Greater(k.incr, Mss)
        avoid == i0 + (Mss * Mss) \div i0 + Mss \div 16
        grown == IF k.cwnd < k.ssthresh
                 THEN [k EXCEPT !.cwnd = @ + 1, !.incr = @ + Mss]
                 ELSE [k EXCEPT !.incr = avoid,
                                !.cwnd = IF (@ + 1) * Mss <= avoid
                                         THEN (avoid + Mss - 1) \div Mss ELSE @]
    IN  IF k.cwnd >= k.rmt_wnd THEN k
        ELSE IF grown.cwnd > k.rmt_wnd
             THEN [grown EXCEPT !.cwnd = k.rmt_wnd, !.incr = k.rmt_wnd * Mss]
             ELSE grown

\* ikcp_input: the segments of a datagram in order, then the fast
\* acknowledgement of the greatest one acknowledged.
Input(k, segs) ==
    LET acks == {segs[i].sn : i \in {j \in DOMAIN segs : segs[j].cmd = "ACK"}}
        in == FoldLeft(InputSegment, k, segs)
        fast == IF acks = {} THEN in
                ELSE ParseFastack(in, CHOOSE m \in acks : \A a \in acks : Diff(a, m) <= 0)
    IN  IF Diff(fast.snd_una, k.snd_una) > 0 THEN GrowCwnd(fast) ELSE fast
-----------------------------------------------------------------------------
(* ikcp_update, ikcp_flush *)

\* ikcp_wnd_unused
WndUnused(k) == Greater(RcvWnd - Len(k.rcv_queue), 0)

\* Mutation of Probe: a closed window is never asked about.
NeverProbe(k, probeDue) == k

\* probe window size (if remote window size equals zero)
Probe(k, probeDue) ==
    IF k.rmt_wnd # 0 THEN [k EXCEPT !.probe_wait = FALSE]
    ELSE IF ~k.probe_wait THEN [k EXCEPT !.probe_wait = TRUE]
    ELSE IF probeDue THEN [k EXCEPT !.probe = @ \cup {"ASK_SEND"}]
    ELSE k

SendWindow(k) ==
    LET w == Lesser(SndWnd, k.rmt_wnd) IN IF NoCwnd THEN w ELSE Lesser(k.cwnd, w)

\* move data from snd_queue to snd_buf
FillSndBuf(k) ==
    LET room == Greater(Diff(Plus(k.snd_una, SendWindow(k)), k.snd_nxt), 0)
        n == Lesser(room, Len(k.snd_queue))
        new(i) == [sn |-> Plus(k.snd_nxt, i - 1), data |-> k.snd_queue[i], xmit |-> 0, fastack |-> 0]
    IN  [k EXCEPT !.snd_buf = @ \o [i \in 1..n |-> new(i)],
                  !.snd_queue = SubSeq(@, n + 1, Len(@)),
                  !.snd_nxt = Plus(@, n)]

\* Why segment i of snd_buf is sent, if it is.
Reason(k, i, due) ==
    LET s == k.snd_buf[i] IN
    IF s.xmit = 0 THEN "first"
    ELSE IF s.sn \in due THEN "lost"
    ELSE IF FastResend > 0 /\ s.fastack >= FastResend /\ (s.xmit <= FastLimit \/ FastLimit = 0)
    THEN "fast"
    ELSE "no"

\* update ssthresh; windowUsed is the window of this flush.
Congestion(k, fast, lost, windowUsed) ==
    LET half(n) == Greater(n \div 2, IKCP_THRESH_MIN)
        changed == IF ~fast THEN k
                   ELSE LET t == half(Diff(k.snd_nxt, k.snd_una)) IN
                        [k EXCEPT !.ssthresh = t, !.cwnd = t + FastResend,
                                  !.incr = (t + FastResend) * Mss]
        slowed == IF ~lost THEN changed
                  ELSE [changed EXCEPT !.ssthresh = half(windowUsed), !.cwnd = 1, !.incr = Mss]
    IN  IF slowed.cwnd < 1 THEN [slowed EXCEPT !.cwnd = 1, !.incr = Mss] ELSE slowed

\* ikcp_flush: the control block it leaves and the segments it sends.  xmit
\* stops beyond FastLimit, where nothing but dead_link reads it.
Flush(k, due, probeDue) ==
    LET probed == Probe(k, probeDue)
        filled == FillSndBuf(probed)
        wnd == WndUnused(k)
        why == [i \in DOMAIN filled.snd_buf |-> Reason(filled, i, due)]
        buf == [i \in DOMAIN filled.snd_buf |->
                  LET s == filled.snd_buf[i] IN
                  IF why[i] = "no" THEN s
                  ELSE [s EXCEPT !.xmit = Lesser(@ + 1, FastLimit + 1),
                                 !.fastack = IF why[i] = "fast" THEN 0 ELSE @]]
        push(i) == [cmd |-> "PUSH", sn |-> buf[i].sn, una |-> k.rcv_nxt, wnd |-> wnd,
                    data |-> <<buf[i].data>>]
        sending == SetToSortSeq({i \in DOMAIN why : why[i] # "no"}, <)
        ctl(flag, c) == IF flag \in probed.probe THEN <<CtlSegment(c, 0, k, wnd)>> ELSE <<>>
        after == [filled EXCEPT !.acklist = <<>>, !.probe = {}, !.snd_buf = buf]
    IN  [kcp |-> Congestion(after, "fast" \in Range(why), "lost" \in Range(why),
                            SendWindow(probed)),
         out |-> [i \in DOMAIN k.acklist |-> CtlSegment("ACK", k.acklist[i], k, wnd)]
                   \o ctl("ASK_SEND", "WASK") \o ctl("ASK_TELL", "WINS")
                   \o [j \in DOMAIN sending |-> push(sending[j])]]

\* ikcp_output whenever the next segment does not fit into the mtu
Datagrams(p, out) ==
    {[to |-> Other(p), segs |-> SubSeq(out, i, Lesser(i + PerDatagram - 1, Len(out)))] :
        i \in {j \in 1..Len(out) : (j - 1) % PerDatagram = 0}}
-----------------------------------------------------------------------------
(* The actions *)

SentBy(p) == FoldLeft(LAMBDA n, m : n + Len(m), 0, sent[p])

AppSend(p, count) ==
    /\ p \in Senders
    /\ SentBy(p) + count <= MaxSegments
    /\ LET message == Message(Len(sent[p]) + 1, count) IN
       /\ kcp' = [kcp EXCEPT ![p] = Send(@, message)]
       /\ sent' = [sent EXCEPT ![p] = Append(@, message)]
    /\ UNCHANGED <<net, faults, received>>

AppRecv(p) ==
    /\ Readable(kcp[p])
    /\ kcp' = [kcp EXCEPT ![p] = Recv(@)]
    /\ received' = [received EXCEPT ![Other(p)] = Append(@, FirstMessage(kcp[p]))]
    /\ UNCHANGED <<net, faults, sent>>

\* Nothing is under way that could spare a retransmission.
Quiet == net = {} /\ \A p \in Peers : kcp[p].acklist = <<>>

\* ikcp_update calls ikcp_flush
Sent(p, f) == net \cup Datagrams(p, f.out)

Update(p, due, probeDue) ==
    LET f == Flush(kcp[p], due, probeDue) IN
    /\ Cardinality({d \in Sent(p, f) : d.to # p}) <= NetCap
    /\ faults' = IF due = {} \/ Quiet THEN faults ELSE faults + 1
    /\ faults' <= MaxFaults
    /\ kcp' = [kcp EXCEPT ![p] = f.kcp]
    /\ net' = Sent(p, f)
    /\ UNCHANGED <<sent, received>>

\* Segments that were sent before and whose resendts may have come.
MayBeDue(p) == {s.sn : s \in {t \in Range(kcp[p].snd_buf) : t.xmit > 0}}

Deliver(d) ==
    /\ kcp' = [kcp EXCEPT ![d.to] = Input(@, d.segs)]
    /\ Len(kcp'[d.to].acklist) <= MaxAcks
    /\ UNCHANGED <<sent, received>>

\* The network delivers a datagram, or delivers it and keeps it, or loses it.
DeliverOnce(d) == Deliver(d) /\ net' = net \ {d} /\ UNCHANGED faults

DeliverTwice(d) == Deliver(d) /\ faults < MaxFaults /\ faults' = faults + 1 /\ UNCHANGED net

Lose(d) ==
    /\ faults < MaxFaults
    /\ faults' = faults + 1
    /\ net' = net \ {d}
    /\ UNCHANGED <<kcp, sent, received>>

Next ==
    \/ \E p \in Peers :
          \/ \E count \in Parts : AppSend(p, count)
          \/ AppRecv(p)
          \/ \E due \in SUBSET MayBeDue(p), probeDue \in BOOLEAN : Update(p, due, probeDue)
    \/ \E d \in net : DeliverOnce(d) \/ DeliverTwice(d) \/ Lose(d)

Spec == Init /\ [][Next]_vars

\* ikcp_update is called again and again, every timer expires in the end, the
\* user reads what there is, and the network does not keep all datagrams back.
\* Strong fairness, with the conditions under which the steps are possible
\* written out, for TLC.
NetTo(p) == {d \in net : d.to = p}
Due(p) == IF Quiet THEN MayBeDue(p) ELSE {}
CanUpdate(p) ==
    LET f == Flush(kcp[p], Due(p), TRUE) IN
    /\ Cardinality({d \in Sent(p, f) : d.to # p}) <= NetCap
    /\ <<f.kcp, Sent(p, f)>> # <<kcp[p], net>>
CanDeliver(p) == NetTo(p) # {} /\ kcp[p].acklist = <<>>

FairSpec ==
    /\ Spec
    /\ \A p \in Peers :
         /\ []<>Readable(kcp[p]) => []<><<AppRecv(p)>>_vars
         /\ []<>CanUpdate(p) => []<><<Update(p, Due(p), TRUE)>>_vars
         /\ []<>CanDeliver(p) => []<><<\E d \in NetTo(p) : DeliverOnce(d)>>_vars
-----------------------------------------------------------------------------
(* Properties *)

TypeOK ==
    /\ \A p \in Peers :
         /\ {kcp[p].snd_una, kcp[p].snd_nxt, kcp[p].rcv_nxt} \subseteq Sn
         /\ Range(kcp[p].acklist) \subseteq Sn
         /\ kcp[p].probe \subseteq {"ASK_SEND", "ASK_TELL"}
         /\ {kcp[p].rmt_wnd, kcp[p].cwnd, kcp[p].incr, kcp[p].ssthresh} \subseteq Nat
    /\ \A d \in net : d.to \in Peers /\ \A i \in DOMAIN d.segs : d.segs[i].sn \in Sn
    /\ faults \in 0..MaxFaults

Sns(buf) == {buf[i].sn : i \in DOMAIN buf}
InOrder(buf, from, to) ==
    \A i \in DOMAIN buf :
        /\ Diff(buf[i].sn, from) >= 0 /\ Diff(buf[i].sn, to) < 0
        /\ i > 1 => Diff(buf[i].sn, buf[i - 1].sn) > 0

\* The buffers are in order and in their windows, and a segment leaves snd_buf
\* only when the other peer has it: whatever una and ack numbers arrive, late,
\* twice or out of order, what is not in rcv_buf or read is still in snd_buf
\* (ikcp_parse_ack, ikcp_parse_una, ikcp_parse_data, ikcp.c:670-895).
Accounted ==
    /\ TypeOK
    /\ \A p \in Peers :
         LET k == kcp[p]
             o == kcp[Other(p)]
         IN  /\ InOrder(k.snd_buf, k.snd_una, k.snd_nxt)
             /\ InOrder(k.rcv_buf, k.rcv_nxt, Plus(k.rcv_nxt, RcvWnd))
             /\ Len(k.rcv_queue) <= RcvWnd
             /\ Diff(k.snd_nxt, o.rcv_nxt) >= 0
             /\ \A n \in 0..(Diff(k.snd_nxt, o.rcv_nxt) - 1) :
                  Plus(o.rcv_nxt, n) \in Sns(k.snd_buf) \cup Sns(o.rcv_buf)

\* Over that network the user gets whole messages, in order and once.
Channel == INSTANCE FifoChannel WITH Messages <- {Message(m, c) : m \in 1..MaxSegments, c \in Parts}
ChannelSpec == Channel!Spec

\* Every message arrives: no loss, closed window or lost window probe stops the
\* connection for ever (ikcp_flush, ikcp.c:1184-1252).
Delivered == \A p \in Senders : (sent[p] # <<>>) ~> (received[p] = sent[p])
=============================================================================
