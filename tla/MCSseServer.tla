------------------------------- MODULE MCSseServer -------------------------------
(* Two threads and messages with and without data and identifiers, for TLC. *)
EXTENDS SseServer

CONSTANTS a, b

Threads == {a, b}

Tickers == {b}

Chars == {"x", "7"}

(* Each message has a text or an identifier of its own. *)
Outboxes ==
    [t \in Threads |-> IF t = a THEN {[data |-> <<<<"x">>>>, id |-> <<>>]}
                       ELSE {[data |-> <<>>, id |-> <<"7">>]}]
===============================================================================
