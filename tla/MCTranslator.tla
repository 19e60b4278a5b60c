------------------------------ MODULE MCTranslator ------------------------------
(* Two threads that set two settings, for TLC. *)
EXTENDS Translator

TwoSettings == {"language", "working_directory"}
=================================================================================
