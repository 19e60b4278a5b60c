--------------------------- MODULE InterruptableTimer ---------------------------
(***************************************************************************)
(* essence::interruptable_timer (src/src/interruptable_timer.cpp): the     *)
(* worker thread and the thread that owns the timer and calls start(),     *)
(* stop() and the destructor.  They share four flags and a pointer, each   *)
(* atomic, and two condition variables.  change_state() stores and         *)
(* notifies without holding a mutex, so each of its steps is an action     *)
(* that may fall between a waiter's test of its predicate and its block.   *)
(*                                                                         *)
(* Time is not modelled: a wait_for may time out at any moment.  The       *)
(* worker is the only user of mutex_timer_, which is left out.             *)
(***************************************************************************)
EXTENDS Naturals, FiniteSets

CONSTANTS
    MaxStarts,      \* bound: how many times start() is called
    EarlyWorker,    \* may the worker run before the constructor has finished?
    None

ASSUME StartsAssumption == MaxStarts \in Nat
ASSUME EarlyAssumption == EarlyWorker \in BOOLEAN
ASSUME NoneAssumption == None \notin Nat \cup {"worker", "owner"}

Session == 1 .. MaxStarts

(* A timer_info: a callback with a positive period is `valid`.             *)
Info == [session : Session, valid : BOOLEAN, deferred : BOOLEAN]

ASSUME NoInfoAssumption == None \notin Info

VARIABLES
    timer_info,         \* the shared pointer
    timer_running, idle_pending, idle_running, stop_pending,
    mutex_idle,         \* who holds mutex_idle_
    owner,              \* where the owner is
    goal,               \* its call: "none", "start", "stop" or "destroy"
    next_info,          \* the timer_info its start() will publish
    worker,             \* where the worker is
    info,               \* the worker's local copy of the pointer
    starts,             \* history: calls of start() so far
    session,            \* history: the session that is armed
    waited,             \* history: the worker has waited for info->deferred_time
    missed              \* history: condition variables whose last notification
                        \* found the worker between its test and its block

memory == <<timer_info, timer_running, idle_pending, idle_running, stop_pending>>
call == <<goal, next_info, starts>>
history == <<session, missed>>
vars == <<memory, mutex_idle, owner, call, worker, info, waited, history>>

OwnerStates == {"construct", "rest", "store_info", "store_running", "store_pending",
                "notify_idle", "notify_timer", "await_test", "await_block",
                "await_wait", "store_stop", "destroying", "terminated"}
WorkerStates == {"loop", "notify", "idle_test", "idle_block", "idle_wait",
                 "enter", "clear_pending", "load", "defer",
                 "defer_test", "defer_block", "defer_wait", "timer_test", "callback",
                 "period_test", "period_block", "period_wait",
                 "leave", "reset_pending", "ended"}

FlagsOK ==
    /\ timer_running \in BOOLEAN /\ idle_pending \in BOOLEAN
    /\ idle_running \in BOOLEAN /\ stop_pending \in BOOLEAN
    /\ waited \in BOOLEAN

TypeOK ==
    /\ FlagsOK
    /\ timer_info \in Info \cup {None}
    /\ mutex_idle \in {"worker", "owner", None}
    /\ owner \in OwnerStates
    /\ goal \in {"none", "start", "arm", "stop", "destroy"}
    /\ next_info \in Info \cup {None}
    /\ goal \in {"start", "arm"} => next_info # None
    /\ worker \in WorkerStates
    /\ info \in Info \cup {None}
    /\ starts \in 0 .. MaxStarts
    /\ session \in Session \cup {None}
    /\ missed \subseteq {"idle", "timer"}

(* The flags after worker_thread_ hold whatever the allocation held until  *)
(* the constructor stores them.                                            *)
Init ==
    /\ timer_info = None
    /\ timer_running \in BOOLEAN /\ idle_pending \in BOOLEAN /\ idle_running \in BOOLEAN
    /\ stop_pending = FALSE
    /\ mutex_idle = None
    /\ owner = "construct" /\ goal = "none" /\ next_info = None /\ starts = 0
    /\ worker = "loop" /\ info = None /\ waited = FALSE
    /\ session = None /\ missed = {}

-----------------------------------------------------------------------------
(* The owner *)

OwnerGoto(from, to) ==
    /\ owner = from
    /\ owner' = to
    /\ UNCHANGED <<info, waited>>

(* worker_thread_ is initialised before these members. *)
Construct ==
    /\ OwnerGoto("construct", "rest")
    /\ idle_running' = TRUE /\ idle_pending' = TRUE /\ timer_running' = FALSE
    /\ UNCHANGED <<timer_info, stop_pending, mutex_idle, call, worker, history>>

(* start() begins with stop(), and publishes its timer_info afterwards. *)
Call(g) ==
    /\ OwnerGoto("rest", "store_info")
    /\ goal' = g
    /\ IF g = "start"
         THEN /\ starts < MaxStarts
              /\ starts' = starts + 1
              /\ next_info' \in {i \in Info : i.session = starts'}
         ELSE UNCHANGED <<starts, next_info>>
    /\ UNCHANGED <<memory, mutex_idle, worker, history>>

Start == Call("start")
Stop == Call("stop")
Destroy == Call("destroy")

(* change_state(new_state, timer_running, idle_pending), one action per    *)
(* step.  The goal "arm" is the second change_state of start().            *)
StoreInfo ==
    /\ OwnerGoto("store_info", "store_running")
    /\ timer_info' = IF goal = "arm" THEN next_info ELSE None
    /\ session' = IF goal = "arm" THEN next_info.session ELSE session
    /\ UNCHANGED <<timer_running, idle_pending, idle_running, stop_pending, mutex_idle, call,
                   worker, missed>>

StoreRunning ==
    /\ OwnerGoto("store_running", "store_pending")
    /\ timer_running' = (goal = "arm")
    /\ UNCHANGED <<timer_info, idle_pending, idle_running, stop_pending, mutex_idle, call, worker,
                   history>>

StorePending ==
    /\ OwnerGoto("store_pending", "notify_idle")
    /\ idle_pending' = (goal \in {"start", "stop"})
    /\ UNCHANGED <<timer_info, timer_running, idle_running, stop_pending, mutex_idle, call,
                   worker, history>>

(* notify_all wakes who is blocked; a waiter that has tested its predicate *)
(* and not yet blocked misses it.                                          *)
Notify(cv, woken, late, awake) ==
    /\ worker' = woken
    /\ missed' = IF worker \in late /\ awake THEN missed \cup {cv} ELSE missed
    /\ UNCHANGED <<memory, mutex_idle, call, session>>

AfterNotify == CASE goal \in {"start", "stop"} -> "await_test"
                 [] goal = "destroy" -> "store_stop"
                 [] OTHER -> "rest"

WakeIdle(woken) ==
    /\ OwnerGoto("notify_idle", "notify_timer")
    /\ Notify("idle", woken, {"idle_block"}, ~idle_pending)

WakeTimer(woken) ==
    /\ OwnerGoto("notify_timer", AfterNotify)
    /\ Notify("timer", woken, {"defer_block", "period_block"}, ~timer_running)

(* Fault: change_state notifies only one of the condition variables. *)
NotifyIdleForgotten == WakeIdle(worker)
NotifyTimerForgotten == WakeTimer(worker)

NotifyIdle == WakeIdle(IF worker = "idle_wait" THEN "idle_test" ELSE worker)

NotifyTimer == WakeTimer(CASE worker = "defer_wait" -> "defer_test"
                           [] worker = "period_wait" -> "period_test"
                           [] OTHER -> worker)

(* stop() waits on cv_idle_ for idle_running_ ... *)
AwaitTest ==
    /\ OwnerGoto("await_test", "await_block")
    /\ mutex_idle = None /\ ~idle_running
    /\ mutex_idle' = "owner"
    /\ UNCHANGED <<memory, call, worker, history>>

AwaitBlock ==
    /\ OwnerGoto("await_block", "await_wait")
    /\ mutex_idle' = None
    /\ UNCHANGED <<memory, call, worker, history>>

(* ... and returns; start() goes on to publish its timer_info. *)
ReturnWhen(ready, next_goal) ==
    /\ OwnerGoto("await_test", IF goal = "start" THEN "store_info" ELSE "rest")
    /\ mutex_idle = None /\ ready
    /\ session' = None
    /\ goal' = next_goal
    /\ UNCHANGED <<memory, mutex_idle, next_info, starts, worker, missed>>

AfterStop == IF goal = "start" THEN "arm" ELSE goal

(* Fault: stop() does not wait for idle_running_. *)
StopReturnsTooEarly == ReturnWhen(TRUE, AfterStop)

(* Fault: stop() goes on as start() does. *)
StopReturnsArmed == ReturnWhen(idle_running, "arm")

StopReturns == ReturnWhen(idle_running, AfterStop)

StoreStop ==
    /\ OwnerGoto("store_stop", "destroying")
    /\ stop_pending' = TRUE
    /\ UNCHANGED <<timer_info, timer_running, idle_pending, idle_running, mutex_idle, call,
                   worker, history>>

(* Nobody has joined worker_thread_: destroying it ends the program. *)
Terminate ==
    /\ OwnerGoto("destroying", "terminated")
    /\ UNCHANGED <<memory, mutex_idle, call, worker, history>>

-----------------------------------------------------------------------------
(* The worker: timer_routine() *)

(* What most of its steps leave alone besides what WorkerGoto does. *)
workerRest == <<idle_pending, idle_running, mutex_idle, owner, info, waited, missed>>

WorkerGoto(from, to) ==
    /\ owner # "terminated" /\ (EarlyWorker \/ owner # "construct")
    /\ worker = from
    /\ worker' = to
    /\ UNCHANGED <<timer_info, timer_running, stop_pending, call, session>>

TestStop ==
    /\ WorkerGoto("loop", IF stop_pending THEN "ended" ELSE "notify")
    /\ UNCHANGED workerRest

(* "notify the subscriber of the stopped state" *)
NotifyOwner ==
    /\ WorkerGoto("notify", "idle_test")
    /\ owner' = IF owner = "await_wait" THEN "await_test" ELSE owner
    /\ UNCHANGED <<idle_pending, idle_running, mutex_idle, info, waited, missed>>

(* cv_idle_.wait(lock, !idle_pending_): the mutex is held from the test to *)
(* the block.                                                              *)
IdleTest ==
    /\ WorkerGoto("idle_test", IF idle_pending THEN "idle_block" ELSE "enter")
    /\ mutex_idle = None
    /\ mutex_idle' = IF idle_pending THEN "worker" ELSE None
    /\ missed' = missed \ {"idle"}
    /\ UNCHANGED <<idle_pending, idle_running, owner, info, waited>>

IdleBlock ==
    /\ WorkerGoto("idle_block", "idle_wait")
    /\ mutex_idle' = None
    /\ UNCHANGED <<idle_pending, idle_running, owner, info, waited, missed>>

EnterWith(running) ==
    /\ WorkerGoto("enter", "clear_pending")
    /\ idle_running' = running
    /\ UNCHANGED <<idle_pending, mutex_idle, owner, info, waited, missed>>

(* Fault: idle_running_ is not cleared before the pointer is read. *)
EnterSilently == EnterWith(idle_running)

Enter == EnterWith(FALSE)

ClearPending ==
    /\ WorkerGoto("clear_pending", "load")
    /\ idle_pending' = FALSE
    /\ UNCHANGED <<idle_running, mutex_idle, owner, info, waited, missed>>

LoadInfo ==
    /\ WorkerGoto("load", IF timer_info # None /\ timer_info.valid THEN "defer" ELSE "leave")
    /\ info' = timer_info
    /\ waited' = FALSE
    /\ UNCHANGED <<idle_pending, idle_running, mutex_idle, owner, missed>>

(* if (timer_running_ && info->deferred_time > 0) *)
Defer ==
    /\ WorkerGoto("defer", IF timer_running /\ info.deferred THEN "defer_test" ELSE "timer_test")
    /\ waited' = (timer_running /\ info.deferred)
    /\ UNCHANGED <<idle_pending, idle_running, mutex_idle, owner, info, missed>>

(* The two wait_for on cv_timer_, before the first call and between calls. *)
TimerWait == {[test |-> "defer_test", block |-> "defer_block", wait |-> "defer_wait"],
              [test |-> "period_test", block |-> "period_block", wait |-> "period_wait"]}

WaitTest == \E w \in TimerWait :
    /\ WorkerGoto(w.test, IF timer_running THEN w.block ELSE "timer_test")
    /\ missed' = missed \ {"timer"}
    /\ UNCHANGED <<idle_pending, idle_running, mutex_idle, owner, info, waited>>

WaitBlock == \E w \in TimerWait :
    /\ WorkerGoto(w.block, w.wait)
    /\ UNCHANGED workerRest

Timeout == \E w \in TimerWait :
    /\ WorkerGoto(w.wait, "timer_test")
    /\ missed' = missed \ {"timer"}
    /\ UNCHANGED <<idle_pending, idle_running, mutex_idle, owner, info, waited>>

TimerTest ==
    /\ WorkerGoto("timer_test", IF timer_running THEN "callback" ELSE "leave")
    /\ UNCHANGED workerRest

CallbackReturns ==
    /\ WorkerGoto("callback", "period_test")
    /\ UNCHANGED workerRest

Leave ==
    /\ WorkerGoto("leave", "reset_pending")
    /\ idle_running' = TRUE
    /\ UNCHANGED <<idle_pending, mutex_idle, owner, info, waited, missed>>

ResetWith(pending) ==
    /\ WorkerGoto("reset_pending", "loop")
    /\ idle_pending' = pending
    /\ UNCHANGED <<idle_running, mutex_idle, owner, info, waited, missed>>

(* Fault: idle_pending_ is left set at the end of a round. *)
ResetPendingForgotten == ResetWith(idle_pending)

ResetPending == ResetWith(FALSE)

(* A condition variable may wake a waiter for no reason. *)
SpuriousWakeup ==
    \/ /\ WorkerGoto("idle_wait", "idle_test")
       /\ UNCHANGED workerRest
    \/ /\ OwnerGoto("await_wait", "await_test")
       /\ UNCHANGED <<memory, mutex_idle, call, worker, history>>

-----------------------------------------------------------------------------
OwnerCall == Start \/ Stop \/ Destroy

OwnerStep ==
    \/ Construct \/ StoreInfo \/ StoreRunning \/ StorePending \/ NotifyIdle \/ NotifyTimer
    \/ AwaitTest \/ AwaitBlock \/ StopReturns \/ StoreStop \/ Terminate

WorkerStep ==
    \/ TestStop \/ NotifyOwner \/ IdleTest \/ IdleBlock \/ Enter \/ ClearPending
    \/ LoadInfo \/ Defer \/ WaitTest \/ WaitBlock \/ TimerTest \/ CallbackReturns
    \/ Leave \/ ResetPending

Next == OwnerCall \/ OwnerStep \/ WorkerStep \/ Timeout \/ SpuriousWakeup

Spec == Init /\ [][Next]_vars

(* Both threads are scheduled and a callback returns; the owner need not   *)
(* call anything.  A worker that found nothing to do spins, and raises     *)
(* idle_running_ for a part of each round: strong fairness says that the   *)
(* waiting stop() does not test the flag in the wrong part for ever.       *)
(* Wakeups without a notification come to an end.                          *)
SchedulingFairness ==
    /\ WF_vars(OwnerStep) /\ WF_vars(WorkerStep) /\ SF_vars(StopReturns)
    /\ <>[][~ SpuriousWakeup]_vars

FairSpec == Spec /\ SchedulingFairness

(* A wait_for also ends by itself, when its time is not out of reach. *)
PeriodsElapse == WF_vars(Timeout)

-----------------------------------------------------------------------------
(* Properties *)

(* The destructor does not wait, so what is promised ends where it begins. *)
InUse == goal # "destroy"

(* The class as its owner sees it: no callback of a session runs after the *)
(* stop() or start() that ended the session has returned, although the     *)
(* worker works on its own copy of the pointer and the flags are stored    *)
(* one by one without a lock.                                              *)
Owned == INSTANCE PeriodicTimer WITH
    firing <- IF worker = "callback" THEN info.session ELSE None,
    stopping <- goal \in {"start", "stop"} /\ owner # "rest"

ImplementsPeriodicTimer == Owned!Spec

(* Where the worker holds a timer_info it may still fire. *)
Armed == {"defer", "defer_test", "defer_block", "defer_wait", "timer_test", "callback",
          "period_test", "period_block", "period_wait"}

(* The worker's copy of the pointer belongs to the session that is armed   *)
(* as long as the worker may fire it; so once stop() has seen              *)
(* idle_running_, no callback is running and none will start.              *)
StopMeansStopped == worker \in Armed => session = info.session

(* "Processes deferring": a start() with a deferred time calls back only   *)
(* after the worker has waited for that time.  Not an invariant: the wait  *)
(* is skipped when the worker wakes between two stores of start().         *)
DeferralHonoured == worker = "callback" /\ info.deferred => waited

(* stop(), and the stop() in start(), come back although every             *)
(* notification may be missed: the worker never leaves idle_pending_ set   *)
(* behind, so it passes cv_idle_ and notifies again.                       *)
StopComesBack == PeriodsElapse => (owner = "store_info" /\ InUse ~> owner = "rest")

(* The timer is interruptable: even if a period never elapses, stop()      *)
(* comes back, unless its notification fell between the worker's test of   *)
(* timer_running_ and its block (then it lasts until the period elapses).  *)
StopInterrupts ==
    owner = "store_info" /\ InUse ~> owner = "rest" \/ "timer" \in missed

(* A started timer calls back, unless it is stopped first or the           *)
(* notification of start() fell between the worker's test of idle_pending_ *)
(* and its block.                                                          *)
StartFires == PeriodsElapse =>
    \A s \in Session :
        owner = "rest" /\ session = s /\ timer_info.valid
            ~> \/ worker = "callback" /\ info.session = s
               \/ owner # "rest"
               \/ "idle" \in missed

-----------------------------------------------------------------------------
(* The inductive invariant behind StopMeansStopped. *)

(* From idle_running_ = false to idle_running_ = true. *)
Busy == Armed \cup {"clear_pending", "load", "leave"}

(* Between the first change_state of stop() and its return. *)
Ending == goal \in {"start", "stop"} /\ owner \in {"store_running", "store_pending",
    "notify_idle", "notify_timer", "await_test", "await_block", "await_wait"}

BusyInv == worker \in Busy => ~ idle_running

(* The pointer leads to the armed session, and to none while one ends. *)
PointerInv ==
    /\ timer_info # None => timer_info.session = session
    /\ Ending => timer_info = None
    /\ goal = "arm" /\ owner = "store_info" => session = None
    /\ goal = "stop" /\ owner = "rest" => session = None
    /\ goal = "arm" => owner \in {"store_info", "store_running", "store_pending",
                                  "notify_idle", "notify_timer", "rest"}
    /\ owner \in {"await_test", "await_block", "await_wait"} => Ending

ArmedInv == worker \in Armed => info # None /\ session = info.session

ConstructInv == owner = "construct" => worker = "loop" /\ goal = "none" /\ timer_info = None

IInv == TypeOK /\ BusyInv /\ PointerInv /\ ArmedInv /\ ConstructInv
===============================================================================
