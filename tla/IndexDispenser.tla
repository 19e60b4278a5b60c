---------------------------- MODULE IndexDispenser ----------------------------
(***************************************************************************)
(* What a caller of essence::parallel_for is promised, without threads,    *)
(* counters or locks: the indices of the range are handed out in any       *)
(* order, each at most once; an index may be dropped only after a handler  *)
(* asked to exit or a handler failed; the call ends when no index is       *)
(* pending or running, and it raises one of the failures if there was one. *)
(***************************************************************************)
CONSTANTS
    Index,      \* the indices a call may range over
    None        \* no exception

VARIABLES
    todo,       \* indices not yet given to a handler
    running,    \* indices a handler is working on
    failed,     \* indices whose handler threw
    exiting,    \* some handler has set its exit flag
    outcome,    \* "running", "returned" or "threw"
    raised      \* the index whose exception reached the caller

vars == <<todo, running, failed, exiting, outcome, raised>>

TypeOK ==
    /\ todo \subseteq Index
    /\ running \subseteq Index
    /\ failed \subseteq Index
    /\ exiting \in BOOLEAN
    /\ outcome \in {"running", "returned", "threw"}
    /\ raised \in Index \cup {None}

Init ==
    /\ todo \in SUBSET Index
    /\ running = {}
    /\ failed = {}
    /\ exiting = FALSE
    /\ outcome = "running"
    /\ raised = None

(* A handler starts on a pending index. *)
Take(k) ==
    /\ k \in todo
    /\ todo' = todo \ {k}
    /\ running' = running \cup {k}
    /\ UNCHANGED <<failed, exiting, outcome, raised>>

(* A handler returns; it may have set its exit flag. *)
Finish(k) ==
    /\ k \in running
    /\ running' = running \ {k}
    /\ exiting' \in {exiting, TRUE}
    /\ UNCHANGED <<todo, failed, outcome, raised>>

(* A handler throws. *)
Fail(k) ==
    /\ k \in running
    /\ running' = running \ {k}
    /\ failed' = failed \cup {k}
    /\ UNCHANGED <<todo, exiting, outcome, raised>>

(* Pending indices are given up. *)
Drop ==
    /\ exiting \/ failed # {}
    /\ todo' \in SUBSET todo
    /\ UNCHANGED <<running, failed, exiting, outcome, raised>>

Return ==
    /\ outcome = "running"
    /\ todo = {} /\ running = {} /\ failed = {}
    /\ outcome' = "returned"
    /\ UNCHANGED <<todo, running, failed, exiting, raised>>

(* Whatever is still pending is given up. *)
Throw ==
    /\ outcome = "running"
    /\ running = {}
    /\ outcome' = "threw"
    /\ raised' \in failed
    /\ todo' = {}
    /\ UNCHANGED <<running, failed, exiting>>

Next ==
    \/ \E k \in Index : Take(k) \/ Finish(k) \/ Fail(k)
    \/ Drop
    \/ Return
    \/ Throw

Spec == Init /\ [][Next]_vars
===============================================================================
