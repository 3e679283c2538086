---- MODULE MC_NtyServer ----
(* Small instances of NtyServer for TLC. *)
EXTENDS NtyServer, TLC
====
