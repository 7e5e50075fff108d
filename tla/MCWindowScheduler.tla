------------------------- MODULE MCWindowScheduler -------------------------
(* Two threads that call a scheduler whose windows last a few seconds.     *)
EXTENDS WindowScheduler
=============================================================================
