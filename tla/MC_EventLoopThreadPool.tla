---- MODULE MC_EventLoopThreadPool ----
(* Small instances of EventLoopThreadPool for TLC. *)
EXTENDS EventLoopThreadPool
====
