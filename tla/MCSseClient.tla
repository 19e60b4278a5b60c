------------------------------ MODULE MCSseClient ------------------------------
(* A client that connects a few times, with and without a deadline, for TLC. *)
EXTENDS SseClient
===============================================================================
