---- MODULE MC_TcpConnection ----
(* Small instances of TcpConnection for TLC. *)
EXTENDS TcpConnection, TLC

Symmetry == Permutations(Threads)
====
