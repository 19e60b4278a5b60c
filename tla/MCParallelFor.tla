----------------------------- MODULE MCParallelFor -----------------------------
(* Small calls of parallel_for for TLC. *)
EXTENDS ParallelFor

MCBounds == {0, 1, 3}           \* empty, reversed and non-empty ranges
MCCores == {2}                  \* what a count of zero resolves to
WrapBounds == {0, 3}            \* with SizeMax = 3, `end` is the largest size_t
===============================================================================
