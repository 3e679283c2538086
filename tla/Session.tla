------------------------------- MODULE Session -------------------------------
(***************************************************************************)
(* What the owner of a TcpConnection is promised about its callbacks: one  *)
(* connectionCallback when the connection is up, then any number of        *)
(* messageCallbacks, then one connectionCallback when it is down.          *)
(***************************************************************************)
EXTENDS Naturals

VARIABLES ups, messages, downs      \* how many times each was called

vars == <<ups, messages, downs>>

Init == ups = 0 /\ messages = 0 /\ downs = 0

IsUp == ups = 1 /\ downs = 0

Up      == ups = 0 /\ downs = 0 /\ ups' = 1 /\ UNCHANGED <<messages, downs>>
Message == IsUp /\ messages' = messages + 1 /\ UNCHANGED <<ups, downs>>
Down    == IsUp /\ downs' = 1 /\ UNCHANGED <<ups, messages>>

Next == Up \/ Message \/ Down

Spec == Init /\ [][Next]_vars
=============================================================================
