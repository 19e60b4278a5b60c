------------------------ MODULE InterruptableTimerProofs ------------------------
(***************************************************************************)
(* Theorems about InterruptableTimer for any number of calls of start().   *)
(***************************************************************************)
EXTENDS InterruptableTimer, TLAPS

(* The flags are Booleans, and stay so. *)
LEMMA FlagsStep == FlagsOK /\ [Next]_vars => FlagsOK'
<1> USE DEF FlagsOK, memory, call, history, workerRest
<1> SUFFICES ASSUME FlagsOK, [Next]_vars
             PROVE  FlagsOK'
  OBVIOUS
<1>1. FlagsOK'
  <2>1. CASE Construct
    BY <2>1, Zenon DEF Construct, OwnerGoto
  <2>2. CASE Start
    BY <2>2, Zenon DEF Start, Call, OwnerGoto
  <2>3. CASE Stop
    BY <2>3, Zenon DEF Stop, Call, OwnerGoto
  <2>4. CASE Destroy
    BY <2>4, Zenon DEF Destroy, Call, OwnerGoto
  <2>5. CASE StoreInfo
    BY <2>5, Zenon DEF StoreInfo, OwnerGoto
  <2>6. CASE StoreRunning
    BY <2>6, Zenon DEF StoreRunning, OwnerGoto
  <2>7. CASE StorePending
    <3>1. idle_pending' \in BOOLEAN
      BY <2>7, SMT DEF StorePending
    <3> QED
      BY <3>1, <2>7, Zenon DEF StorePending, OwnerGoto
  <2>8. CASE NotifyIdle
    BY <2>8, Zenon DEF NotifyIdle, WakeIdle, Notify, OwnerGoto
  <2>9. CASE NotifyTimer
    BY <2>9, Zenon DEF NotifyTimer, WakeTimer, AfterNotify, Notify, OwnerGoto
  <2>10. CASE AwaitTest
    BY <2>10, Zenon DEF AwaitTest, OwnerGoto
  <2>11. CASE AwaitBlock
    BY <2>11, Zenon DEF AwaitBlock, OwnerGoto
  <2>12. CASE StopReturns
    BY <2>12, Zenon DEF StopReturns, ReturnWhen, AfterStop, OwnerGoto
  <2>13. CASE StoreStop
    BY <2>13, Zenon DEF StoreStop, OwnerGoto
  <2>14. CASE Terminate
    BY <2>14, Zenon DEF Terminate, OwnerGoto
  <2>15. CASE TestStop
    BY <2>15, Zenon DEF TestStop, WorkerGoto
  <2>16. CASE NotifyOwner
    BY <2>16, Zenon DEF NotifyOwner, WorkerGoto
  <2>17. CASE IdleTest
    BY <2>17, Zenon DEF IdleTest, WorkerGoto
  <2>18. CASE IdleBlock
    BY <2>18, Zenon DEF IdleBlock, WorkerGoto
  <2>19. CASE Enter
    BY <2>19, Zenon DEF Enter, EnterWith, WorkerGoto
  <2>20. CASE ClearPending
    BY <2>20, Zenon DEF ClearPending, WorkerGoto
  <2>21. CASE LoadInfo
    BY <2>21, Zenon DEF LoadInfo, WorkerGoto
  <2>22. CASE Defer
    BY <2>22, Zenon DEF Defer, WorkerGoto
  <2>23. CASE WaitTest
    BY <2>23, Zenon DEF WaitTest, WorkerGoto, TimerWait
  <2>24. CASE WaitBlock
    BY <2>24, Zenon DEF WaitBlock, WorkerGoto, TimerWait
  <2>25. CASE Timeout
    BY <2>25, Zenon DEF Timeout, WorkerGoto, TimerWait
  <2>26. CASE TimerTest
    BY <2>26, Zenon DEF TimerTest, WorkerGoto
  <2>27. CASE CallbackReturns
    BY <2>27, Zenon DEF CallbackReturns, WorkerGoto
  <2>28. CASE Leave
    BY <2>28, Zenon DEF Leave, WorkerGoto
  <2>29. CASE ResetPending
    BY <2>29, Zenon DEF ResetPending, ResetWith, WorkerGoto
  <2>30. CASE SpuriousWakeup
    BY <2>30, Zenon DEF SpuriousWakeup, WorkerGoto, OwnerGoto
  <2>31. CASE UNCHANGED vars
    BY <2>31 DEF vars, FlagsOK
  <2> QED
    BY <2>1, <2>2, <2>3, <2>4, <2>5, <2>6, <2>7, <2>8, <2>9, <2>10, <2>11, <2>12,
       <2>13, <2>14, <2>15, <2>16, <2>17, <2>18, <2>19, <2>20, <2>21, <2>22, <2>23, <2>24,
       <2>25, <2>26, <2>27, <2>28, <2>29, <2>30, <2>31
    DEF Next, OwnerCall, OwnerStep, WorkerStep
<1> QED
  BY <1>1

(* Every variable keeps its type, whether or not the worker runs before    *)
(* the constructor has finished.                                           *)
THEOREM TypeCorrect == Spec => []TypeOK
<1> USE StartsAssumption, NoneAssumption DEF TypeOK, OwnerStates, WorkerStates, memory, call, history, workerRest
<1>1. Init => TypeOK
  <2>1. Init => FlagsOK
    BY Zenon DEF Init, FlagsOK
  <2> QED
    BY <2>1 DEF Init
<1>2. TypeOK /\ [Next]_vars => TypeOK'
  <2> SUFFICES ASSUME TypeOK, [Next]_vars
               PROVE  TypeOK'
    OBVIOUS
  <2>0. FlagsOK'
    BY FlagsStep DEF TypeOK
  <2>1. CASE Construct
    BY <2>0, <2>1 DEF Construct, OwnerGoto
  <2>2. CASE Start
    BY <2>0, <2>2, NoInfoAssumption DEF Start, Call, OwnerGoto
  <2>3. CASE Stop
    BY <2>0, <2>3 DEF Stop, Call, OwnerGoto
  <2>4. CASE Destroy
    BY <2>0, <2>4 DEF Destroy, Call, OwnerGoto
  <2>5. CASE StoreInfo
    BY <2>0, <2>5 DEF Info, Session, StoreInfo, OwnerGoto
  <2>6. CASE StoreRunning
    BY <2>0, <2>6 DEF StoreRunning, OwnerGoto
  <2>7. CASE StorePending
    BY <2>0, <2>7 DEF StorePending, OwnerGoto
  <2>8. CASE NotifyIdle
    BY <2>0, <2>8 DEF NotifyIdle, WakeIdle, Notify, OwnerGoto
  <2>9. CASE NotifyTimer
    BY <2>0, <2>9 DEF NotifyTimer, WakeTimer, AfterNotify, Notify, OwnerGoto
  <2>10. CASE AwaitTest
    BY <2>0, <2>10 DEF AwaitTest, OwnerGoto
  <2>11. CASE AwaitBlock
    BY <2>0, <2>11 DEF AwaitBlock, OwnerGoto
  <2>12. CASE StopReturns
    BY <2>0, <2>12 DEF StopReturns, ReturnWhen, AfterStop, OwnerGoto
  <2>13. CASE StoreStop
    BY <2>0, <2>13 DEF StoreStop, OwnerGoto
  <2>14. CASE Terminate
    BY <2>0, <2>14 DEF Terminate, OwnerGoto
  <2>15. CASE TestStop
    BY <2>0, <2>15 DEF TestStop, WorkerGoto
  <2>16. CASE NotifyOwner
    BY <2>0, <2>16 DEF NotifyOwner, WorkerGoto
  <2>17. CASE IdleTest
    BY <2>0, <2>17 DEF IdleTest, WorkerGoto
  <2>18. CASE IdleBlock
    BY <2>0, <2>18 DEF IdleBlock, WorkerGoto
  <2>19. CASE Enter
    BY <2>0, <2>19 DEF Enter, EnterWith, WorkerGoto
  <2>20. CASE ClearPending
    BY <2>0, <2>20 DEF ClearPending, WorkerGoto
  <2>21. CASE LoadInfo
    BY <2>0, <2>21 DEF LoadInfo, WorkerGoto
  <2>22. CASE Defer
    BY <2>0, <2>22 DEF Defer, WorkerGoto
  <2>23. CASE WaitTest
    BY <2>0, <2>23 DEF WaitTest, WorkerGoto, TimerWait
  <2>24. CASE WaitBlock
    BY <2>0, <2>24 DEF WaitBlock, WorkerGoto, TimerWait
  <2>25. CASE Timeout
    BY <2>0, <2>25 DEF Timeout, WorkerGoto, TimerWait
  <2>26. CASE TimerTest
    BY <2>0, <2>26 DEF TimerTest, WorkerGoto
  <2>27. CASE CallbackReturns
    BY <2>0, <2>27 DEF CallbackReturns, WorkerGoto
  <2>28. CASE Leave
    BY <2>0, <2>28 DEF Leave, WorkerGoto
  <2>29. CASE ResetPending
    BY <2>0, <2>29 DEF ResetPending, ResetWith, WorkerGoto
  <2>30. CASE SpuriousWakeup
    <3>1. ASSUME WorkerGoto("idle_wait", "idle_test"),
                 UNCHANGED <<mutex_idle, owner, info, missed>>
          PROVE  TypeOK'
      BY <2>0, <3>1 DEF WorkerGoto
    <3>2. ASSUME OwnerGoto("await_wait", "await_test"),
                 UNCHANGED <<timer_info, mutex_idle, goal, next_info, starts, worker,
                             session, missed>>
          PROVE  TypeOK'
      BY <2>0, <3>2 DEF OwnerGoto
    <3> QED
      BY <2>30, <3>1, <3>2 DEF SpuriousWakeup
  <2>31. CASE UNCHANGED vars
    BY <2>0, <2>31 DEF vars, FlagsOK
  <2> QED
    BY <2>1, <2>2, <2>3, <2>4, <2>5, <2>6, <2>7, <2>8, <2>9, <2>10, <2>11, <2>12,
       <2>13, <2>14, <2>15, <2>16, <2>17, <2>18, <2>19, <2>20, <2>21, <2>22, <2>23, <2>24,
       <2>25, <2>26, <2>27, <2>28, <2>29, <2>30, <2>31
    DEF Next, OwnerCall, OwnerStep, WorkerStep
<1> QED
  BY <1>1, <1>2, PTL DEF Spec

(* If the worker starts after the constructor, the worker's copy of the    *)
(* pointer always belongs to the session that is armed, so stop() returns  *)
(* only in the stopped state.                                              *)
LEMMA Invariant ==
  ASSUME ~ EarlyWorker
  PROVE  Spec => []IInv
<1> USE StartsAssumption, NoneAssumption, NoInfoAssumption
<1>1. Init => BusyInv /\ PointerInv /\ ArmedInv /\ ConstructInv
  BY DEF Init, BusyInv, PointerInv, ArmedInv, ConstructInv, Busy, Armed, Ending
<1>2. TypeOK /\ BusyInv /\ PointerInv /\ ArmedInv /\ ConstructInv /\ [Next]_vars
      => BusyInv' /\ PointerInv' /\ ArmedInv' /\ ConstructInv'
  <2> SUFFICES ASSUME TypeOK, BusyInv, PointerInv, ArmedInv, ConstructInv, [Next]_vars
               PROVE  BusyInv' /\ PointerInv' /\ ArmedInv' /\ ConstructInv'
    OBVIOUS
  <2> USE DEF TypeOK, BusyInv, PointerInv, ArmedInv, ConstructInv, Busy, Armed, Ending,
              Info, Session, memory, call, history, workerRest
  <2>1. CASE Construct
    <3>1. worker \in Busy => FALSE
      BY <2>1 DEF Construct, OwnerGoto
    <3>2. BusyInv'
      BY <3>1, <2>1 DEF Construct, OwnerGoto
    <3>3. PointerInv'
      BY <2>1 DEF Construct, OwnerGoto
    <3>4. ArmedInv' /\ ConstructInv'
      BY <2>1 DEF Construct, OwnerGoto
    <3> QED
      BY <3>2, <3>3, <3>4
  <2>2. CASE Start
    BY <2>2 DEF Start, Call, OwnerGoto
  <2>3. CASE Stop
    BY <2>3 DEF Stop, Call, OwnerGoto
  <2>4. CASE Destroy
    BY <2>4 DEF Destroy, Call, OwnerGoto
  <2>5. CASE StoreInfo
    BY <2>5 DEF StoreInfo, OwnerGoto
  <2>6. CASE StoreRunning
    BY <2>6 DEF StoreRunning, OwnerGoto
  <2>7. CASE StorePending
    BY <2>7 DEF StorePending, OwnerGoto
  <2>8. CASE NotifyIdle
    BY <2>8 DEF NotifyIdle, WakeIdle, Notify, OwnerGoto
  <2>9. CASE NotifyTimer
    BY <2>9 DEF NotifyTimer, WakeTimer, AfterNotify, Notify, OwnerGoto
  <2>10. CASE AwaitTest
    BY <2>10 DEF AwaitTest, OwnerGoto
  <2>11. CASE AwaitBlock
    BY <2>11 DEF AwaitBlock, OwnerGoto
  <2>12. CASE StopReturns
    BY <2>12 DEF StopReturns, ReturnWhen, AfterStop, OwnerGoto
  <2>13. CASE StoreStop
    BY <2>13 DEF StoreStop, OwnerGoto
  <2>14. CASE Terminate
    BY <2>14 DEF Terminate, OwnerGoto
  <2>15. CASE TestStop
    BY <2>15 DEF TestStop, WorkerGoto
  <2>16. CASE NotifyOwner
    BY <2>16 DEF NotifyOwner, WorkerGoto
  <2>17. CASE IdleTest
    BY <2>17 DEF IdleTest, WorkerGoto
  <2>18. CASE IdleBlock
    BY <2>18 DEF IdleBlock, WorkerGoto
  <2>19. CASE Enter
    BY <2>19 DEF Enter, EnterWith, WorkerGoto
  <2>20. CASE ClearPending
    BY <2>20 DEF ClearPending, WorkerGoto
  <2>21. CASE LoadInfo
    BY <2>21 DEF LoadInfo, WorkerGoto
  <2>22. CASE Defer
    BY <2>22 DEF Defer, WorkerGoto
  <2>23. CASE WaitTest
    BY <2>23 DEF WaitTest, WorkerGoto, TimerWait
  <2>24. CASE WaitBlock
    BY <2>24 DEF WaitBlock, WorkerGoto, TimerWait
  <2>25. CASE Timeout
    BY <2>25 DEF Timeout, WorkerGoto, TimerWait
  <2>26. CASE TimerTest
    BY <2>26 DEF TimerTest, WorkerGoto
  <2>27. CASE CallbackReturns
    BY <2>27 DEF CallbackReturns, WorkerGoto
  <2>28. CASE Leave
    BY <2>28 DEF Leave, WorkerGoto
  <2>29. CASE ResetPending
    BY <2>29 DEF ResetPending, ResetWith, WorkerGoto
  <2>30. CASE SpuriousWakeup
    BY <2>30 DEF SpuriousWakeup, WorkerGoto, OwnerGoto
  <2>31. CASE UNCHANGED vars
    BY <2>31 DEF vars, FlagsOK
  <2> QED
    BY <2>1, <2>2, <2>3, <2>4, <2>5, <2>6, <2>7, <2>8, <2>9, <2>10, <2>11, <2>12,
       <2>13, <2>14, <2>15, <2>16, <2>17, <2>18, <2>19, <2>20, <2>21, <2>22, <2>23, <2>24,
       <2>25, <2>26, <2>27, <2>28, <2>29, <2>30, <2>31
    DEF Next, OwnerCall, OwnerStep, WorkerStep
<1>3. IInv <=> TypeOK /\ BusyInv /\ PointerInv /\ ArmedInv /\ ConstructInv
  BY DEF IInv
<1> QED
  BY <1>1, <1>2, <1>3, TypeCorrect, PTL DEF Spec

(* No callback can fire for a session that stop() has ended. *)
THEOREM StoppedIsStopped ==
  ASSUME ~ EarlyWorker
  PROVE  Spec => []StopMeansStopped
<1>1. IInv => StopMeansStopped
  BY DEF IInv, ArmedInv, StopMeansStopped
<1> QED
  BY <1>1, Invariant, PTL

(* The class implements what its owner relies on: every step of the two    *)
(* threads is a step of PeriodicTimer or invisible to the owner.           *)
THEOREM TimerImplementsPeriodicTimer ==
  ASSUME ~ EarlyWorker
  PROVE  Spec => ImplementsPeriodicTimer
<1> USE NoneAssumption
<1>1. Init => Owned!Init
  BY DEF Init, Owned!Init
<1>2. IInv /\ [Next]_vars => [Owned!Next]_(Owned!vars)
  <2> SUFFICES ASSUME IInv, [Next]_vars
               PROVE  [Owned!Next]_(Owned!vars)
    OBVIOUS
  <2> USE DEF IInv, TypeOK, Owned!vars, Armed, Busy, memory, call, history, workerRest
  <2>1. CASE Construct
    BY <2>1 DEF ConstructInv, Construct, OwnerGoto
  <2>2. CASE Start
    <3>1. ~ (goal \in {"start", "stop"} /\ owner # "rest")
      BY <2>2 DEF Start, Call, OwnerGoto
    <3>2. goal' \in {"start", "stop"} /\ owner' # "rest"
      BY <2>2 DEF Start, Call, OwnerGoto
    <3>3. UNCHANGED <<worker, info, session>>
      BY <2>2 DEF Start, Call, OwnerGoto
    <3> QED
      BY <3>1, <3>2, <3>3 DEF Owned!Next, Owned!RequestStop
  <2>3. CASE Stop
    <3>1. ~ (goal \in {"start", "stop"} /\ owner # "rest")
      BY <2>3 DEF Stop, Call, OwnerGoto
    <3>2. goal' \in {"start", "stop"} /\ owner' # "rest"
      BY <2>3 DEF Stop, Call, OwnerGoto
    <3>3. UNCHANGED <<worker, info, session>>
      BY <2>3 DEF Stop, Call, OwnerGoto
    <3> QED
      BY <3>1, <3>2, <3>3 DEF Owned!Next, Owned!RequestStop
  <2>4. CASE Destroy
    BY <2>4 DEF Destroy, Call, OwnerGoto
  <2>5. CASE StoreInfo
    <3>1. CASE goal = "arm"
      <4>1. session = None /\ session' \in Session /\ UNCHANGED <<goal, worker, info>>
        BY <2>5, <3>1 DEF StoreInfo, OwnerGoto, PointerInv, Info
      <4>2. Owned!Arm(session')
        BY <4>1, <3>1 DEF Owned!Arm
      <4> QED
        BY <4>1, <4>2 DEF Owned!Next
    <3>2. CASE goal # "arm"
      BY <2>5, <3>2 DEF StoreInfo, OwnerGoto
    <3> QED
      BY <3>1, <3>2
  <2>6. CASE StoreRunning
    BY <2>6 DEF StoreRunning, OwnerGoto
  <2>7. CASE StorePending
    BY <2>7 DEF StorePending, OwnerGoto
  <2>8. CASE NotifyIdle
    BY <2>8 DEF NotifyIdle, WakeIdle, Notify, OwnerGoto
  <2>9. CASE NotifyTimer
    BY <2>9 DEF NotifyTimer, WakeTimer, AfterNotify, Notify, OwnerGoto
  <2>10. CASE AwaitTest
    BY <2>10 DEF AwaitTest, OwnerGoto
  <2>11. CASE AwaitBlock
    BY <2>11 DEF AwaitBlock, OwnerGoto
  <2>12. CASE StopReturns
    <3>1. goal \in {"start", "stop"} /\ owner # "rest"
      BY <2>12 DEF StopReturns, ReturnWhen, AfterStop, OwnerGoto, PointerInv, Ending
    <3>2. ~ (goal' \in {"start", "stop"} /\ owner' # "rest")
      BY <2>12 DEF StopReturns, ReturnWhen, AfterStop, OwnerGoto
    <3>3. worker # "callback"
      BY <2>12 DEF StopReturns, ReturnWhen, AfterStop, BusyInv
    <3>4. session' = None /\ UNCHANGED <<worker, info>>
      BY <2>12 DEF StopReturns, ReturnWhen, AfterStop, OwnerGoto
    <3>5. Owned!Stopped
      BY <3>1, <3>2, <3>3, <3>4 DEF Owned!Stopped
    <3> QED
      BY <3>5 DEF Owned!Next
  <2>13. CASE StoreStop
    BY <2>13 DEF StoreStop, OwnerGoto
  <2>14. CASE Terminate
    BY <2>14 DEF Terminate, OwnerGoto
  <2>15. CASE TestStop
    BY <2>15 DEF TestStop, WorkerGoto
  <2>16. CASE NotifyOwner
    BY <2>16 DEF NotifyOwner, WorkerGoto
  <2>17. CASE IdleTest
    BY <2>17 DEF IdleTest, WorkerGoto
  <2>18. CASE IdleBlock
    BY <2>18 DEF IdleBlock, WorkerGoto
  <2>19. CASE Enter
    BY <2>19 DEF Enter, EnterWith, WorkerGoto
  <2>20. CASE ClearPending
    BY <2>20 DEF ClearPending, WorkerGoto
  <2>21. CASE LoadInfo
    BY <2>21 DEF LoadInfo, WorkerGoto
  <2>22. CASE Defer
    BY <2>22 DEF Defer, WorkerGoto
  <2>23. CASE WaitTest
    BY <2>23 DEF WaitTest, WorkerGoto, TimerWait
  <2>24. CASE WaitBlock
    BY <2>24 DEF WaitBlock, WorkerGoto, TimerWait
  <2>25. CASE Timeout
    BY <2>25 DEF Timeout, WorkerGoto, TimerWait
  <2>26. CASE TimerTest
    <3>1. UNCHANGED <<goal, owner, info, session>>
      BY <2>26 DEF TimerTest, WorkerGoto
    <3>2. CASE timer_running
      <4>1. worker # "callback" /\ worker' = "callback"
        BY <2>26, <3>2 DEF TimerTest, WorkerGoto
      <4>2. session # None /\ info.session = session
        BY <2>26 DEF TimerTest, WorkerGoto, ArmedInv, Info, Session
      <4>3. Owned!Fire
        BY <3>1, <4>1, <4>2 DEF Owned!Fire
      <4> QED
        BY <4>3 DEF Owned!Next
    <3>3. CASE ~ timer_running
      BY <2>26, <3>1, <3>3 DEF TimerTest, WorkerGoto
    <3> QED
      BY <3>2, <3>3
  <2>27. CASE CallbackReturns
    <3>1. UNCHANGED <<goal, owner, info, session>>
      BY <2>27 DEF CallbackReturns, WorkerGoto
    <3>2. worker = "callback" /\ worker' # "callback"
      BY <2>27 DEF CallbackReturns, WorkerGoto
    <3>3. info.session # None
      BY <3>2 DEF ArmedInv, Info, Session
    <3>4. Owned!Fired
      BY <3>1, <3>2, <3>3 DEF Owned!Fired
    <3> QED
      BY <3>4 DEF Owned!Next
  <2>28. CASE Leave
    BY <2>28 DEF Leave, WorkerGoto
  <2>29. CASE ResetPending
    BY <2>29 DEF ResetPending, ResetWith, WorkerGoto
  <2>30. CASE SpuriousWakeup
    BY <2>30 DEF SpuriousWakeup, WorkerGoto, OwnerGoto
  <2>31. CASE UNCHANGED vars
    BY <2>31 DEF vars, FlagsOK
  <2> QED
    BY <2>1, <2>2, <2>3, <2>4, <2>5, <2>6, <2>7, <2>8, <2>9, <2>10, <2>11, <2>12,
       <2>13, <2>14, <2>15, <2>16, <2>17, <2>18, <2>19, <2>20, <2>21, <2>22, <2>23, <2>24,
       <2>25, <2>26, <2>27, <2>28, <2>29, <2>30, <2>31
    DEF Next, OwnerCall, OwnerStep, WorkerStep
<1> QED
  BY <1>1, <1>2, Invariant, PTL DEF Spec, ImplementsPeriodicTimer, Owned!Spec
=================================================================================
