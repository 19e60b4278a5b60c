------------------------------- MODULE MCDelegate -------------------------------
(* A delegate with a few listeners and two invoking threads for TLC. *)
EXTENDS Delegate, TLC

Symmetry == Permutations(Invoker)
=================================================================================
