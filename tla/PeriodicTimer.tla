----------------------------- MODULE PeriodicTimer -----------------------------
(***************************************************************************)
(* What the owner of an essence::interruptable_timer relies on.  At most   *)
(* one session (the callback given to one start()) is armed; its callback  *)
(* fires again and again, one call at a time.  A session ends only while   *)
(* its callback is not running, and never fires once it has ended.         *)
(***************************************************************************)
CONSTANTS
    Session,        \* the sessions an owner can start
    None            \* no session

VARIABLES
    session,        \* the armed session
    firing,         \* the session whose callback is running
    stopping        \* the owner has asked the session to end

vars == <<session, firing, stopping>>

TypeOK ==
    /\ session \in Session \cup {None}
    /\ firing \in Session \cup {None}
    /\ stopping \in BOOLEAN

Init == session = None /\ firing = None /\ stopping = FALSE

RequestStop ==
    /\ ~stopping
    /\ stopping' = TRUE
    /\ UNCHANGED <<session, firing>>

Stopped ==
    /\ stopping
    /\ firing = None
    /\ session' = None
    /\ stopping' = FALSE
    /\ UNCHANGED firing

Arm(s) ==
    /\ session = None /\ ~stopping
    /\ session' = s
    /\ UNCHANGED <<firing, stopping>>

Fire ==
    /\ session # None
    /\ firing = None
    /\ firing' = session
    /\ UNCHANGED <<session, stopping>>

Fired ==
    /\ firing # None
    /\ firing' = None
    /\ UNCHANGED <<session, stopping>>

Next == RequestStop \/ Stopped \/ (\E s \in Session : Arm(s)) \/ Fire \/ Fired

Spec == Init /\ [][Next]_vars
===============================================================================
