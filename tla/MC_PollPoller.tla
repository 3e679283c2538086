---- MODULE MC_PollPoller ----
(* Four channels over three descriptors, 0 among them. *)
EXTENDS PollPoller, TLC

Symmetry == Permutations(Channels)
====
