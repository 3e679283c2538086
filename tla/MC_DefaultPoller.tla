---- MODULE MC_DefaultPoller ----
(* Four channels over three descriptors, so that descriptors are reused. *)
EXTENDS DefaultPoller, TLC

Symmetry == Permutations(Channels)
====
