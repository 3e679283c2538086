---- MODULE MC_EventLoop ----
(* A small instance of EventLoop for TLC: two foreign threads and one I/O
   channel beside the loop thread. *)
EXTENDS EventLoop, TLC

Symmetry == Permutations(Threads) \cup Permutations(Functors)
====
