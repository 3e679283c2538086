---- MODULE MC_Kcp ----
(* Small instances of Kcp for TLC. *)
EXTENDS Kcp, TLC
====
