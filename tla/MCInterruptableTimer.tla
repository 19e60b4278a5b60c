------------------------- MODULE MCInterruptableTimer -------------------------
(* InterruptableTimer with a few calls of start() for TLC. *)
EXTENDS InterruptableTimer
===============================================================================
