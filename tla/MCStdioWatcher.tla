------------------------------ MODULE MCStdioWatcher ------------------------------
(* Two watchers, on one descriptor or on two, for TLC. *)
EXTENDS StdioWatcher

CONSTANTS v, w

Watchers == {v, w}

OneOrTwo == {[x \in Watchers |-> 2], [x \in Watchers |-> IF x = v THEN 1 ELSE 2]}
===============================================================================
