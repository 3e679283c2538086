---------------------------- MODULE FifoChannel ----------------------------
(***************************************************************************)
(* What a reliable transport promises its users: each peer's messages      *)
(* arrive whole, once and in the order they were sent.                     *)
(***************************************************************************)
EXTENDS Naturals, Sequences

CONSTANTS Peers, Messages

VARIABLES
    sent,            \* sent[p]: what peer p has sent
    received         \* received[p]: what the other one has received of it

vars == <<sent, received>>

Init == sent = [p \in Peers |-> <<>>] /\ received = sent

Send(p, m) ==
    /\ sent' = [sent EXCEPT ![p] = Append(@, m)]
    /\ UNCHANGED received

Receive(p) ==
    /\ Len(received[p]) < Len(sent[p])
    /\ received' = [received EXCEPT ![p] = Append(@, sent[p][Len(@) + 1])]
    /\ UNCHANGED sent

Next == \E p \in Peers : Receive(p) \/ \E m \in Messages : Send(p, m)

Spec == Init /\ [][Next]_vars
=============================================================================
