---- MODULE MC_TcpClient ----
(* Small instances of TcpClient for TLC. *)
EXTENDS TcpClient
====
