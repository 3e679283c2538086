---------------------------- MODULE FunctorQueue ----------------------------
(***************************************************************************)
(* What EventLoop::queueInLoop promises its callers, and nothing of how:   *)
(* functors are accepted in some order by any thread, and the loop thread  *)
(* runs each of them once, in the order in which they were accepted.       *)
(***************************************************************************)
EXTENDS Naturals, Sequences

CONSTANT Functors    \* the callbacks that may be queued

VARIABLES
    posted,          \* the functors accepted so far, in order
    executed         \* the functors run so far, in order

vars == <<posted, executed>>

Init == posted = <<>> /\ executed = <<>>

Post(f) ==
    /\ posted' = Append(posted, f)
    /\ UNCHANGED executed

\* The loop runs the oldest functor it has not run; running it may queue
\* another one in the same step.
Run ==
    /\ Len(executed) < Len(posted)
    /\ executed' = Append(executed, posted[Len(executed) + 1])
    /\ \/ UNCHANGED posted
       \/ \E f \in Functors : posted' = Append(posted, f)

Next == Run \/ \E f \in Functors : Post(f)

Spec == Init /\ [][Next]_vars
=============================================================================
