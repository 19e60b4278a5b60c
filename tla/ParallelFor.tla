------------------------------ MODULE ParallelFor ------------------------------
(***************************************************************************)
(* essence::parallel_for (src/src/thread.cpp): one call, its caller and    *)
(* the workers it starts with std::async.  The workers share the atomic    *)
(* counter `current`, whose fetch_add hands out the indices, and a mutex   *)
(* that protects `last_exception`.  std::async is called with the default  *)
(* policy, so a worker may also be deferred: it then runs inside the       *)
(* caller's item.get().                                                    *)
(*                                                                         *)
(* A size_t has SizeMax + 1 values and the counter wraps, as fetch_add     *)
(* does.  The handler is the environment: each call returns, returns with  *)
(* `exit` set, or throws an exception, named here by the index it was      *)
(* thrown for.                                                             *)
(***************************************************************************)
EXTENDS Integers, FiniteSets

CONSTANTS
    SizeMax,                \* the largest size_t
    Bounds,                 \* the values `start` and `end` are called with
    MaxThreads,             \* the largest thread_count a call asks for
    HardwareConcurrency,    \* what std::thread::hardware_concurrency() may return
    None                    \* a null exception_ptr, and the owner of a free mutex

ASSUME SizeAssumption == SizeMax \in Nat
ASSUME BoundsAssumption == Bounds \subseteq 0 .. SizeMax
ASSUME ThreadAssumption == MaxThreads \in Nat
ASSUME HardwareAssumption == HardwareConcurrency \subseteq 0 .. MaxThreads
ASSUME NoneAssumption == None \notin Int

Word == 0 .. SizeMax
Thread == 0 .. (MaxThreads - 1)

(* The counter cannot wrap: there is room above every bound for one last   *)
(* fetch_add of every worker.                                              *)
NoWrap == \A b \in Bounds : b + MaxThreads <= SizeMax

(* The platform knows of a core: otherwise a count of zero starts no worker. *)
CoresKnown == 0 \notin HardwareConcurrency

VARIABLES
    start, end,         \* arguments
    thread_count,       \* argument; resolved by Dispatch
    has_handler,        \* argument: handler is not an empty std::function
    caller,             \* where the calling thread is
    spawned,            \* number of futures in `workers`
    joined,             \* number of futures the caller has got
    current,            \* the shared counter (the loop variable when sequential)
    mutex,              \* the worker in the catch block
    last_exception,     \* the shared exception pointer
    pc, id, exit,       \* each worker's position and locals (worker 0 is the
                        \* loop itself when sequential)
    handled,            \* history: how often the handler was called for an index
    thrown,             \* history: indices whose handler threw
    outcome,            \* "running", "returned" or "threw"
    raised              \* the exception that reached the caller

args == <<start, end, has_handler>>
callerVars == <<thread_count, caller, spawned, joined>>
sharedVars == <<current, mutex, last_exception>>
workerVars == <<pc, id, exit>>
history == <<handled, thrown>>
result == <<outcome, raised>>
vars == <<args, callerVars, sharedVars, workerVars, history, result>>

CallerStates == {"called", "sequential", "spawning", "joining", "gone"}
WorkerStates == {"unborn", "deferred", "fetch", "test", "handling",
                 "catching", "cancelling", "done"}

TypeOK ==
    /\ start \in Bounds /\ end \in Bounds /\ has_handler \in BOOLEAN
    /\ thread_count \in 0 .. MaxThreads
    /\ caller \in CallerStates
    /\ caller = "sequential" => thread_count = 1
    /\ spawned \in 0 .. MaxThreads
    /\ joined \in 0 .. MaxThreads
    /\ current \in Word
    /\ mutex \in Thread \cup {None}
    /\ last_exception \in Word \cup {None}
    /\ pc \in [Thread -> WorkerStates]
    /\ id \in [Thread -> Word]
    /\ exit \in [Thread -> BOOLEAN]
    /\ handled \in [Word -> Nat]
    /\ thrown \subseteq Word
    /\ outcome \in {"running", "returned", "threw"}
    /\ raised \in Word \cup {None}

Init ==
    /\ start \in Bounds /\ end \in Bounds /\ has_handler \in BOOLEAN
    /\ thread_count \in 0 .. MaxThreads
    /\ caller = "called"
    /\ spawned = 0 /\ joined = 0
    /\ current = start
    /\ mutex = None
    /\ last_exception = None
    /\ pc = [i \in Thread |-> "unborn"]
    /\ id = [i \in Thread |-> 0]
    /\ exit = [i \in Thread |-> FALSE]
    /\ handled = [k \in Word |-> 0]
    /\ thrown = {}
    /\ outcome = "running" /\ raised = None

Goto(i, from, to) ==
    /\ pc[i] = from
    /\ pc' = [pc EXCEPT ![i] = to]

-----------------------------------------------------------------------------
(* The caller *)

(* An empty handler returns at once. *)
RejectHandler ==
    /\ caller = "called"
    /\ ~has_handler
    /\ caller' = "gone"
    /\ outcome' = "returned"
    /\ UNCHANGED <<args, thread_count, spawned, joined, sharedVars, workerVars, history,
                   raised>>

(* A count of zero asks the platform; one thread runs in the caller. *)
Dispatch ==
    /\ caller = "called"
    /\ has_handler
    /\ \E n \in IF thread_count = 0 THEN HardwareConcurrency ELSE {thread_count} :
        /\ thread_count' = n
        /\ IF n = 1
             THEN /\ caller' = "sequential"
                  /\ pc' = [pc EXCEPT ![0] = "fetch"]
             ELSE /\ caller' = "spawning"
                  /\ UNCHANGED pc
    /\ UNCHANGED <<args, spawned, joined, sharedVars, id, exit, history, result>>

(* std::async starts a thread, or defers the task to the get(). *)
SpawnWhile(more) ==
    /\ caller = "spawning"
    /\ more
    /\ \E mode \in {"fetch", "deferred"} : pc' = [pc EXCEPT ![spawned] = mode]
    /\ spawned' = spawned + 1
    /\ UNCHANGED <<args, thread_count, caller, joined, sharedVars, id, exit, history, result>>

(* Fault: i <= thread_count in the loop that starts the workers. *)
SpawnOneTooMany == SpawnWhile(spawned <= thread_count)

Spawn == SpawnWhile(spawned < thread_count)

SpawnedAll ==
    /\ caller = "spawning"
    /\ spawned = thread_count
    /\ caller' = "joining"
    /\ UNCHANGED <<args, thread_count, spawned, joined, sharedVars, workerVars, history,
                   result>>

(* item.get() runs a deferred task ... *)
RunDeferred ==
    /\ caller = "joining"
    /\ joined < thread_count
    /\ pc[joined] = "deferred"
    /\ pc' = [pc EXCEPT ![joined] = "fetch"]
    /\ UNCHANGED <<args, callerVars, sharedVars, id, exit, history, result>>

(* ... and returns when the task is over. *)
JoinWhen(ready) ==
    /\ caller = "joining"
    /\ joined < thread_count
    /\ ready
    /\ joined' = joined + 1
    /\ UNCHANGED <<args, thread_count, caller, spawned, sharedVars, workerVars, history, result>>

(* Fault: the futures are dropped, not waited for. *)
JoinWithoutWaiting == JoinWhen(TRUE)

Join == JoinWhen(pc[joined] = "done")

Conclude ==
    /\ caller = "joining"
    /\ joined = thread_count
    /\ caller' = "gone"
    /\ outcome' = IF last_exception = None THEN "returned" ELSE "threw"
    /\ raised' = last_exception
    /\ UNCHANGED <<args, thread_count, spawned, joined, sharedVars, workerVars, history>>

-----------------------------------------------------------------------------
(* The sequential loop: the same handler call, no shared state.  The loop  *)
(* variable is `current`; an exception leaves the loop and the function.   *)

SequentialEnd ==
    /\ caller = "sequential"
    /\ Goto(0, "fetch", "done")
    /\ current >= end
    /\ caller' = "gone"
    /\ outcome' = "returned"
    /\ UNCHANGED <<args, thread_count, spawned, joined, sharedVars, id, exit, history, raised>>

SequentialStep ==
    /\ caller = "sequential"
    /\ pc[0] = "fetch"
    /\ current < end
    /\ id' = [id EXCEPT ![0] = current]
    /\ current' = current + 1
    /\ IF exit[0]
         THEN UNCHANGED <<pc, handled>>
         ELSE /\ handled' = [handled EXCEPT ![current] = @ + 1]
              /\ pc' = [pc EXCEPT ![0] = "handling"]
    /\ UNCHANGED <<args, callerVars, mutex, last_exception, exit, thrown, result>>

SequentialThrow ==
    /\ caller = "sequential"
    /\ Goto(0, "catching", "done")
    /\ caller' = "gone"
    /\ outcome' = "threw"
    /\ raised' = id[0]
    /\ UNCHANGED <<args, thread_count, spawned, joined, sharedVars, id, exit, history>>

-----------------------------------------------------------------------------
(* A worker *)

(* fetch_add(1) wraps. *)
Successor == (current + 1) % (SizeMax + 1)

FetchValue(i, value) ==
    /\ caller \in {"spawning", "joining"}
    /\ Goto(i, "fetch", "test")
    /\ id' = [id EXCEPT ![i] = value]
    /\ current' = Successor
    /\ UNCHANGED <<args, callerVars, mutex, last_exception, exit, history, result>>

(* Fault: ++current, the value after the increment. *)
FetchIncremented(i) == FetchValue(i, Successor)

(* id = current.fetch_add(1): the value before the increment. *)
Fetch(i) == FetchValue(i, current)

(* if (id >= end) break; *)
LeaveLoop(i) ==
    /\ Goto(i, "test", "done")
    /\ id[i] >= end
    /\ UNCHANGED <<args, callerVars, sharedVars, id, exit, history, result>>

(* A worker whose handler asked to exit keeps fetching, and discards. *)
Skip(i) ==
    /\ Goto(i, "test", "fetch")
    /\ id[i] < end
    /\ exit[i]
    /\ UNCHANGED <<args, callerVars, sharedVars, id, exit, history, result>>

CallHandler(i) ==
    /\ Goto(i, "test", "handling")
    /\ id[i] < end
    /\ ~exit[i]
    /\ handled' = [handled EXCEPT ![id[i]] = @ + 1]
    /\ UNCHANGED <<args, callerVars, sharedVars, id, exit, thrown, result>>

(* The handler returns, with or without `exit` set (for both loops). *)
HandlerReturns(i) ==
    /\ Goto(i, "handling", "fetch")
    /\ \E e \in BOOLEAN : exit' = [exit EXCEPT ![i] = e]
    /\ UNCHANGED <<args, callerVars, sharedVars, id, history, result>>

HandlerThrows(i) ==
    /\ Goto(i, "handling", "catching")
    /\ thrown' = thrown \cup {id[i]}
    /\ UNCHANGED <<args, callerVars, sharedVars, id, exit, handled, result>>

(* The catch block: lock, remember the exception ... *)
Remember(i, exception) ==
    /\ caller # "sequential"
    /\ Goto(i, "catching", "cancelling")
    /\ mutex = None
    /\ mutex' = i
    /\ last_exception' = exception
    /\ UNCHANGED <<args, callerVars, current, id, exit, history, result>>

(* Fault: the exception is not stored. *)
RecordExceptionForgotten(i) == Remember(i, last_exception)

RecordException(i) == Remember(i, id[i])

(* ... store the counter, unlock and leave the loop. *)
LeaveCatch(i, counter, holder) ==
    /\ Goto(i, "cancelling", "done")
    /\ current' = counter
    /\ mutex' = holder
    /\ UNCHANGED <<args, callerVars, last_exception, id, exit, history, result>>

(* Fault: the counter is reset to the wrong bound. *)
CancelRewinds(i) == LeaveCatch(i, start, None)

(* Fault: the mutex is not released. *)
CancelKeepsLock(i) == LeaveCatch(i, end, mutex)

Cancel(i) == LeaveCatch(i, end, None)

-----------------------------------------------------------------------------
CallerStep ==
    \/ RejectHandler \/ Dispatch \/ Spawn \/ SpawnedAll
    \/ RunDeferred \/ Join \/ Conclude
    \/ SequentialEnd \/ SequentialStep \/ SequentialThrow

WorkerStep(i) ==
    \/ Fetch(i) \/ LeaveLoop(i) \/ Skip(i) \/ CallHandler(i)
    \/ HandlerReturns(i) \/ HandlerThrows(i)
    \/ RecordException(i) \/ Cancel(i)

Next == CallerStep \/ \E i \in Thread : WorkerStep(i)

Spec == Init /\ [][Next]_vars

(* Threads are scheduled and a handler call ends. *)
Fairness == WF_vars(CallerStep) /\ \A i \in Thread : WF_vars(WorkerStep(i))

FairSpec == Spec /\ Fairness
-----------------------------------------------------------------------------
(* Properties *)

(* The size_t counter hands an index to at most one handler call, and only *)
(* indices of the range: workers racing on fetch_add, on the exit flag and *)
(* on the counter reset of a catch block never repeat or invent one.       *)
DispensedOnce ==
    \A k \in Word : /\ handled[k] <= 1
                    /\ handled[k] > 0 => start <= k /\ k < end

(* "The exceptions will be transferred to the calling thread": a call      *)
(* during which a handler threw ends by throwing, with an exception of one *)
(* of its handlers, and no other call does.                                *)
ExceptionTransferred ==
    /\ outcome = "returned" => thrown = {}
    /\ outcome = "threw" => raised \in thrown

(* No worker outlives the call: `current`, `mutex` and `last_exception`    *)
(* are locals that every worker captured by reference.                     *)
QuiescentWhenGone ==
    caller = "gone" => /\ \A i \in Thread : pc[i] \in {"unborn", "done"}
                       /\ mutex = None

(* A worker that left through its catch block. *)
Cancelled == \E i \in Thread : pc[i] = "done" /\ id[i] < end

(* A fetch_add of this step hands out nothing below `end`.                 *)
FetchesPastEnd == \A i \in Thread : pc[i] = "fetch" /\ pc'[i] = "test" => id'[i] >= end

(* The comment in the catch block: storing `end` stops the other workers,  *)
(* and "this will work even when current is the largest value that size_t  *)
(* can fit".  Once a catch block has stored `end`, no fetch_add hands out  *)
(* an index of the range any more.  This is what the code is meant to do,  *)
(* and it does not: see CancelStopsWithRoom.                               *)
CancelStops == [][Cancelled => FetchesPastEnd]_vars

(* The worker that stored `end` is gone; each of the others takes one more *)
(* value, the last one end + thread_count - 2, and that must be a size_t.  *)
ResetRoom == end + thread_count <= SizeMax + 2

(* What the store of `end` does guarantee: the range is over, for any `end` *)
(* when two workers share it, and with more of them when size_t has room    *)
(* for the values the others still take.  Without it the second of them     *)
(* gets 0 and the range begins again.                                       *)
CancelStopsWithRoom == [][Cancelled /\ ResetRoom => FetchesPastEnd]_vars

(* The call comes to an end, whatever the handlers do. *)
Terminates == <>(caller = "gone")

(* The call is an index dispenser.  Pending are the indices the counter    *)
(* has not reached and the fetched ones no handler has been called for.    *)
Todo ==
    IF caller = "gone" \/ ~has_handler
      THEN {}
      ELSE {k \in Word : k < end /\ (k >= current \/ \E i \in Thread : pc[i] = "test" /\ id[i] = k)}

Running == {id[i] : i \in {j \in Thread : pc[j] = "handling"}}

Exiting == \E i \in Thread : exit[i]

Dispenser == INSTANCE IndexDispenser WITH
    Index <- Word, todo <- Todo, running <- Running, failed <- thrown, exiting <- Exiting

ImplementsDispenser == Dispenser!Spec

-----------------------------------------------------------------------------
(* The inductive invariant behind DispensedOnce, QuiescentWhenGone and     *)
(* ExceptionTransferred.                                                   *)

Catching(i) == pc[i] \in {"catching", "cancelling"}

(* Where the caller is determines which workers exist. *)
ControlInv ==
    /\ caller = "called" => \A i \in Thread : pc[i] = "unborn"
    /\ caller = "sequential" =>
          /\ pc[0] \in {"fetch", "handling", "catching"}
          /\ \A i \in Thread : i # 0 => pc[i] = "unborn"
    /\ caller = "spawning" => \A i \in Thread : i >= spawned => pc[i] = "unborn"
    /\ caller = "joining" => \A i \in Thread : i >= thread_count => pc[i] = "unborn"
    /\ caller = "gone" => \A i \in Thread : pc[i] \in {"unborn", "done"}
    /\ \A i \in Thread : i < joined => pc[i] = "done"
    /\ caller \in {"called", "sequential", "spawning"} => joined = 0
    /\ joined <= thread_count
    /\ spawned <= thread_count
    /\ caller \in {"called", "sequential"} => spawned = 0
    /\ (outcome = "running") <=> (caller # "gone")

MutexInv == \A i \in Thread : (mutex = i) <=> (pc[i] = "cancelling")

(* A thrown exception is on its way to last_exception or in it. *)
ExceptionInv ==
    /\ \A i \in Thread : Catching(i) => id[i] \in thrown
    /\ caller \in {"spawning", "joining"} =>
          \/ thrown = {}
          \/ last_exception # None
          \/ \E i \in Thread : pc[i] = "catching"
    /\ caller = "called" => thrown = {}
    /\ caller = "sequential" => (thrown # {} => pc[0] = "catching")
    /\ last_exception # None => last_exception \in thrown

(* Workers whose last fetch_add went past the range, each of which may     *)
(* have pushed the counter one beyond both bounds.                         *)
Spent == {i \in Thread : pc[i] = "done" \/ (pc[i] = "test" /\ id[i] >= end)}

CounterInv ==
    \/ current <= start + Cardinality(Spent)
    \/ current <= end + Cardinality(Spent)

(* What the counter has not reached was not handed out, and what a worker  *)
(* holds is its own.                                                       *)
FreshInv == \A k \in Word : k >= current => handled[k] = 0

WorkingInv == \A i \in Thread :
    pc[i] = "handling" \/ Catching(i) => start <= id[i] /\ id[i] < end

HeldInv == \A i \in Thread :
    pc[i] = "test" /\ id[i] < end =>
        /\ start <= id[i] /\ id[i] < current
        /\ handled[id[i]] = 0
        /\ \A j \in Thread : j # i /\ pc[j] = "test" => id[j] # id[i]

HandedOutInv ==
    /\ start <= current \/ end <= current
    /\ FreshInv
    /\ WorkingInv
    /\ HeldInv

(* Workers that took a value beyond the range. *)
Past == {i \in Thread : pc[i] \in {"test", "done"} /\ id[i] >= end}

(* After a cancellation the counter is beyond the range, by one at most for *)
(* every worker that took a value there, or no worker is left to take one.  *)
ResetInv == Cancelled /\ caller # "gone" /\ ResetRoom =>
    \/ end <= current /\ current <= end + Cardinality(Past)
    \/ \A i \in Thread : i < thread_count => i \in Spent

(* What holds however the counter wraps ... *)
SafeInv ==
    /\ TypeOK
    /\ ControlInv
    /\ MutexInv
    /\ ExceptionInv
    /\ ExceptionTransferred
    /\ CounterInv
    /\ ResetInv

(* ... and what needs room above the bounds. *)
IInv ==
    /\ SafeInv
    /\ HandedOutInv
    /\ DispensedOnce

(* The refinement of IndexDispenser needs more.  A worker handles an index  *)
(* of its own, and a worker whose handler asked to exit handles none.       *)
BusyInv == \A i \in Thread :
    pc[i] = "handling" =>
        /\ ~exit[i]
        /\ handled[id[i]] > 0
        /\ \A j \in Thread \ {i} : pc[j] = "handling" => id[j] # id[i]

(* Nothing is left of the range when a worker has gone past it, and there   *)
(* is a worker (needs CoresKnown).                                          *)
ExhaustedInv ==
    /\ Spent # {} /\ caller # "gone" => current >= end
    /\ caller \in {"spawning", "joining"} => thread_count > 0

CallInv ==
    /\ caller # "gone" => raised = None
    /\ caller \notin {"called", "gone"} => has_handler

DispenserInv == IInv /\ BusyInv /\ ExhaustedInv /\ CallInv
===============================================================================
