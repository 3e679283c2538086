---- MODULE MC_TimerQueue ----
(* Small instances of TimerQueue for TLC: fewer addresses than timers, so that
   the allocator reuses one.  The addresses are ordered, so not symmetric. *)
EXTENDS TimerQueue
====
