------------------------------- MODULE Translator -------------------------------
(***************************************************************************)
(* default_translator (src/src/globalization/translator.cpp), "a           *)
(* thread-safe implementation of the default translator without locks":    *)
(* an immutable translator behind one atomic pointer, named here by its    *)
(* settings.  A setter reads the two settings it does not change from the  *)
(* current translator, with one load each and in an order the compiler     *)
(* chooses, constructs a new translator, and stores it.                    *)
(***************************************************************************)
CONSTANTS
    Thread,
    Value,              \* what a setting may be
    Setters,            \* the settings the threads change
    Default,            \* the value of every setting of a new translator
    None                \* an argument that has not been read yet

Field == {"virtual_fs", "working_directory", "language"}

VARIABLES
    impl,               \* the settings of the current translator
    field,              \* the setting each thread is changing
    args,               \* the arguments of its update()
    pc,
    latest              \* history: what the last setter of each setting stored

vars == <<impl, field, args, pc, latest>>

Init ==
    /\ impl = [f \in Field |-> Default]
    /\ field = [t \in Thread |-> "language"]
    /\ args = [t \in Thread |-> [f \in Field |-> None]]
    /\ pc = [t \in Thread |-> "idle"]
    /\ latest = impl

(* set_virtual_fs, set_working_directory, set_language *)
Set(t) == \E f \in Setters, v \in Value :
    /\ pc[t] = "idle"
    /\ field' = [field EXCEPT ![t] = f]
    /\ args' = [args EXCEPT ![t] = [g \in Field |-> IF g = f THEN v ELSE None]]
    /\ pc' = [pc EXCEPT ![t] = "reading"]
    /\ UNCHANGED <<impl, latest>>

(* current()->virtual_fs() and the like *)
Read(t) == \E f \in Field :
    /\ pc[t] = "reading"
    /\ args[t][f] = None
    /\ args' = [args EXCEPT ![t][f] = impl[f]]
    /\ UNCHANGED <<impl, field, pc, latest>>

(* The constructor finds the language file and parses it, or throws. *)
Construct(t) ==
    /\ pc[t] = "reading"
    /\ \A f \in Field : args[t][f] # None
    /\ \E result \in {"constructed", "failed"} : pc' = [pc EXCEPT ![t] = result]
    /\ UNCHANGED <<impl, field, args, latest>>

Store(t) ==
    /\ pc[t] = "constructed"
    /\ impl' = args[t]
    /\ latest' = [latest EXCEPT ![field[t]] = args[t][field[t]]]
    /\ pc' = [pc EXCEPT ![t] = "idle"]
    /\ UNCHANGED <<field, args>>

(* The setter ends with the constructor's exception. *)
Throw(t) ==
    /\ pc[t] = "failed"
    /\ pc' = [pc EXCEPT ![t] = "idle"]
    /\ UNCHANGED <<impl, field, args, latest>>

Next == \E t \in Thread : Set(t) \/ Read(t) \/ Construct(t) \/ Store(t) \/ Throw(t)

Spec == Init /\ [][Next]_vars
-----------------------------------------------------------------------------
(* A setting has the value its last successful setter gave it, whatever    *)
(* other setters, successful or not, run at the same time.  This holds as  *)
(* long as only one setting is ever set.                                   *)
SettersKept == impl = latest
===============================================================================
