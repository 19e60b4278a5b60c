-------------------------------- MODULE Delegate --------------------------------
(***************************************************************************)
(* essence::delegate (src/include/essence/delegate.hpp): one thread        *)
(* subscribes and unsubscribes, any number of threads invoke.  listeners_  *)
(* is not synchronised, so its users must be one thread at a time; the     *)
(* invokers read readable_buffer_, an immutable array that each change     *)
(* replaces with one atomic store.                                         *)
(*                                                                         *)
(* An array ends with an empty function.  A listener may itself be an      *)
(* empty std::function, may throw, and may call back into the delegate     *)
(* (the owner's steps fall inside a call).                                 *)
(***************************************************************************)
EXTENDS Naturals, Sequences, SequencesExt

CONSTANTS
    Invoker,            \* threads that trigger the delegate
    Handler,            \* callables
    Empty,              \* an empty std::function, which a caller may subscribe if
    AllowEmpty,         \* this holds
    MaxListeners,       \* bound: how many listeners are ever added
    None

ASSUME HandlerAssumption == Empty \notin Handler
ASSUME BoundAssumption == MaxListeners \in Nat
ASSUME FlagAssumption == AllowEmpty \in BOOLEAN
ASSUME NoneAssumption == None \notin Nat

Id == 1 .. MaxListeners
Function == IF AllowEmpty THEN Handler \cup {Empty} ELSE Handler
Listener == [id : Id, function : Function]

VARIABLES
    returns_value,      \* R is not void
    listeners,          \* the owner's list
    readable,           \* the published array, without its empty terminator
    counter,            \* global_counter_
    alive,              \* the delegate exists, and with it lifetime_observer_
    pending,            \* the ids an add has not published yet
    dropping,           \* the id a token is removing, or None
    tokens,             \* ids whose token the owner holds
    pc,                 \* where each invoker is
    buffer, pos,        \* its copy of the pointer, and ptr
    subscribed,         \* history: ids whose add has returned, not removed since
    removed,            \* history: ids whose removal has returned
    called, due, over   \* history, per invocation: the ids it has called, and
                        \* `subscribed` and `removed` when it began

owner == <<listeners, readable, counter, alive, pending, dropping, tokens>>
invocation == <<returns_value, pc, buffer, pos>>
history == <<called, due, over>>
vars == <<owner, invocation, subscribed, removed, history>>

Outcome == {"done", "threw", "bad_function_call"}

TypeOK ==
    /\ returns_value \in BOOLEAN
    /\ listeners \in Seq(Listener) /\ readable \in Seq(Listener)
    /\ counter \in 0 .. MaxListeners
    /\ alive \in BOOLEAN
    /\ pending \subseteq Id /\ dropping \in Id \cup {None}
    /\ tokens \subseteq Id /\ subscribed \subseteq Id /\ removed \subseteq Id
    /\ pc \in [Invoker -> {"idle", "next", "calling"} \cup Outcome]
    /\ buffer \in [Invoker -> Seq(Listener)]
    /\ pos \in [Invoker -> Nat]
    /\ called \in [Invoker -> Seq(Id)]
    /\ due \in [Invoker -> SUBSET Id] /\ over \in [Invoker -> SUBSET Id]

(* The constructor publishes an empty array. *)
Init ==
    /\ returns_value \in BOOLEAN
    /\ listeners = <<>> /\ readable = <<>> /\ counter = 0
    /\ alive = TRUE
    /\ pending = {} /\ dropping = None /\ tokens = {}
    /\ subscribed = {} /\ removed = {}
    /\ pc = [t \in Invoker |-> "idle"]
    /\ buffer = [t \in Invoker |-> <<>>]
    /\ pos = [t \in Invoker |-> 1]
    /\ called = [t \in Invoker |-> <<>>]
    /\ due = [t \in Invoker |-> {}] /\ over = [t \in Invoker |-> {}]

-----------------------------------------------------------------------------
(* The owner *)

Quiet == pending = {} /\ dropping = None

(* add_listener<false> for each of the functions: += of a handler, += of   *)
(* another delegate, or add_listener, which also yields a token.           *)
Add(functions, token) ==
    LET ids == counter + 1 .. counter + Len(functions) IN
    /\ alive /\ Quiet
    /\ counter + Len(functions) <= MaxListeners
    /\ counter' = counter + Len(functions)
    /\ listeners' = listeners \o
          [k \in 1 .. Len(functions) |-> [id |-> counter + k, function |-> functions[k]]]
    /\ pending' = ids
    /\ tokens' = IF token THEN tokens \cup ids ELSE tokens
    /\ UNCHANGED <<readable, alive, dropping, invocation, subscribed, removed, history>>

AddListener == \E f \in Function : Add(<<f>>, TRUE)
AddHandler == \E f \in Function : Add(<<f>>, FALSE)
AddDelegate == \E f, g \in Function : Add(<<f, g>>, FALSE)

(* remove_listener: the listener of an id, the only one that has it. *)
Ids(list) == {list[k].id : k \in DOMAIN list}
Without(list, i) == RemoveAt(list, CHOOSE k \in DOMAIN list : list[k].id = i)

(* The last token of a listener goes away, before or after the delegate.   *)
DropToken == \E i \in tokens :
    /\ Quiet
    /\ tokens' = tokens \ {i}
    /\ IF alive /\ i \in Ids(listeners)
         THEN /\ listeners' = Without(listeners, i)
              /\ dropping' = i
              /\ subscribed' = subscribed \ {i}
         ELSE UNCHANGED <<listeners, dropping, subscribed>>
    /\ UNCHANGED <<readable, counter, alive, pending, invocation, removed, history>>

(* update_readable_buffer(), the end of every add and removal. *)
PublishAs(array) ==
    /\ ~Quiet
    /\ readable' = array
    /\ subscribed' = subscribed \cup pending
    /\ removed' = IF dropping = None THEN removed ELSE removed \cup {dropping}
    /\ pending' = {} /\ dropping' = None
    /\ UNCHANGED <<listeners, counter, alive, tokens, invocation, history>>

(* Faults: an array without the newest listener, in another order, or with *)
(* an element that was never constructed.                                  *)
PublishOneLess == PublishAs(IF listeners = <<>> THEN <<>> ELSE Front(listeners))
PublishReversed == PublishAs(Reverse(listeners))
PublishOverwritten == PublishAs(Append(listeners, None))

Publish == PublishAs(listeners)

(* The new array cannot be allocated: the add throws, and gives no token,  *)
(* with the listener left in listeners_.                                   *)
PublishThrows ==
    /\ pending # {}
    /\ pending' = {}
    /\ tokens' = tokens \ pending
    /\ UNCHANGED <<listeners, readable, counter, alive, dropping, invocation,
                   subscribed, removed, history>>

Destroy ==
    /\ alive /\ Quiet
    /\ alive' = FALSE
    /\ UNCHANGED <<listeners, readable, counter, pending, dropping, tokens, invocation,
                   subscribed, removed, history>>

-----------------------------------------------------------------------------
(* try_invoke *)

Goto(t, from, to) ==
    /\ pc[t] = from
    /\ pc' = [pc EXCEPT ![t] = to]

(* *ptr is a listener: neither the terminator nor an empty function. *)
IsCallable(t, p) == p <= Len(buffer[t]) /\ buffer[t][p].function # Empty

Load(t) ==
    /\ alive
    /\ Goto(t, "idle", "next")
    /\ buffer' = [buffer EXCEPT ![t] = readable]
    /\ due' = [due EXCEPT ![t] = subscribed]
    /\ over' = [over EXCEPT ![t] = removed]
    /\ UNCHANGED <<owner, returns_value, pos, subscribed, removed, called>>

Call(t) ==
    /\ IsCallable(t, pos[t])
    /\ Goto(t, "next", "calling")
    /\ called' = [called EXCEPT ![t] = Append(@, buffer[t][pos[t]].id)]
    /\ UNCHANGED <<owner, returns_value, buffer, pos, subscribed, removed, due, over>>

(* A void delegate stops at the first empty function.  With a return value *)
(* it calls *ptr untested and looks at the one after it, which for an      *)
(* empty array is past the end (whatever is read there, *ptr is empty).    *)
Exhausted(t) ==
    /\ ~IsCallable(t, pos[t])
    /\ Goto(t, "next", IF returns_value THEN "bad_function_call" ELSE "done")
    /\ UNCHANGED <<owner, returns_value, buffer, pos, subscribed, removed, history>>

HandlerReturns(t) ==
    LET last == returns_value /\ ~IsCallable(t, pos[t] + 1) IN
    /\ Goto(t, "calling", IF last THEN "done" ELSE "next")
    /\ pos' = [pos EXCEPT ![t] = @ + 1]
    /\ UNCHANGED <<owner, returns_value, buffer, subscribed, removed, history>>

HandlerThrows(t) ==
    /\ Goto(t, "calling", "threw")
    /\ UNCHANGED <<owner, returns_value, buffer, pos, subscribed, removed, history>>

(* The next invocation by the same thread. *)
Again(t) ==
    /\ pc[t] \in Outcome
    /\ pc' = [pc EXCEPT ![t] = "idle"]
    /\ buffer' = [buffer EXCEPT ![t] = <<>>]
    /\ pos' = [pos EXCEPT ![t] = 1]
    /\ called' = [called EXCEPT ![t] = <<>>]
    /\ due' = [due EXCEPT ![t] = {}] /\ over' = [over EXCEPT ![t] = {}]
    /\ UNCHANGED <<owner, returns_value, subscribed, removed>>

OwnerStep ==
    AddListener \/ AddHandler \/ AddDelegate \/ DropToken \/ Publish \/ PublishThrows \/ Destroy

InvokerStep(t) == Load(t) \/ Call(t) \/ Exhausted(t) \/ HandlerReturns(t) \/ HandlerThrows(t) \/ Again(t)

Next == OwnerStep \/ \E t \in Invoker : InvokerStep(t)

Spec == Init /\ [][Next]_vars
-----------------------------------------------------------------------------
(* Properties *)

(* An invocation that ran to its end called every listener whose           *)
(* subscription had returned before it began and was not being removed,    *)
(* while the owner went on changing the list.                              *)
EveryoneCalled ==
    \A t \in Invoker : pc[t] = "done" => due[t] \subseteq ToSet(called[t])

(* No invocation that begins after a removal has returned calls the        *)
(* removed listener, and none calls a listener twice or out of the order   *)
(* of subscription; the types hold as well.                                *)
OnlySubscribers ==
    /\ TypeOK
    /\ \A t \in Invoker :
          /\ ToSet(called[t]) \cap over[t] = {}
          /\ \A i, j \in DOMAIN called[t] : i < j => called[t][i] < called[t][j]

(* "A delegate with a return value cannot be invoked, within which no      *)
(* subscriber exists": operator() says so, and nothing else is thrown by   *)
(* the delegate itself.  Not an invariant: with a return value the array   *)
(* of no listeners is walked past its end, and its empty end called.       *)
NoSubscriberReported == \A t \in Invoker : pc[t] # "bad_function_call"
-----------------------------------------------------------------------------
(* The inductive invariant behind OnlySubscribers and EveryoneCalled.      *)

Increasing(list) == \A i, j \in DOMAIN list : i < j => list[i].id < list[j].id

(* The owner's list: ids are given in the order of counter, each once, and  *)
(* an id that was removed, or is being removed, is not in the list.         *)
ListInv ==
    /\ Increasing(listeners)
    /\ Ids(listeners) \cup removed \cup tokens \cup ({dropping} \ {None}) \subseteq 1 .. counter
    /\ pending \cup subscribed \subseteq Ids(listeners)
    /\ (removed \cup {dropping}) \cap Ids(listeners) = {}

(* The published array lags behind the list: it has everyone who is         *)
(* subscribed and nobody whose removal has returned.                        *)
ArrayInv ==
    /\ Increasing(readable)
    /\ subscribed \subseteq Ids(readable)
    /\ removed \cap Ids(readable) = {}

(* An invocation walks the array it found, from the front, one call each.   *)
Walk(t) ==
    /\ Increasing(buffer[t])
    /\ due[t] \subseteq Ids(buffer[t])
    /\ over[t] \cap Ids(buffer[t]) = {}
    /\ Len(called[t]) <= Len(buffer[t])
    /\ \A k \in DOMAIN called[t] : called[t][k] = buffer[t][k].id
    /\ pc[t] \in {"idle", "next"} => Len(called[t]) + 1 = pos[t]
    /\ pc[t] = "idle" => Len(called[t]) = 0
    /\ pc[t] = "calling" => Len(called[t]) = pos[t]
    /\ pc[t] = "done" /\ ~AllowEmpty => Len(called[t]) = Len(buffer[t])

WalkInv == \A t \in Invoker : Walk(t)

IInv == TypeOK /\ ListInv /\ ArrayInv /\ WalkInv
===============================================================================
