------------------------------- MODULE Poller -------------------------------
(***************************************************************************)
(* What the Poller interface promises the loop: after updateChannel, poll  *)
(* reports a channel for exactly the events the channel asks for.          *)
(***************************************************************************)
CONSTANTS Channels, Events

VARIABLES
    interest,        \* events_ of each channel
    watched          \* the events poll reports for it

vars == <<interest, watched>>

Init ==
    /\ interest = [c \in Channels |-> {}]
    /\ watched = interest

UpdateChannel(c, ev) ==
    /\ interest' = [interest EXCEPT ![c] = ev]
    /\ watched' = interest'

Next == \E c \in Channels, ev \in SUBSET Events : UpdateChannel(c, ev)

Spec == Init /\ [][Next]_vars
=============================================================================
