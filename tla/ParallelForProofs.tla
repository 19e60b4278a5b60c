--------------------------- MODULE ParallelForProofs ---------------------------
(***************************************************************************)
(* Theorems about ParallelFor for every size_t, every range and every      *)
(* number of threads.                                                      *)
(***************************************************************************)
EXTENDS ParallelFor, FiniteSetTheorems, TLAPS

(* Every variable keeps its type: in particular the counter, the indices   *)
(* held by workers and the stored exception are size_t values, however     *)
(* the counter wraps.                                                      *)
THEOREM TypeCorrect == Spec => []TypeOK
<1> USE SizeAssumption, BoundsAssumption, ThreadAssumption,
        HardwareAssumption, NoneAssumption DEF Word, Thread
<1>1. Init => TypeOK
  BY DEF Init, TypeOK, CallerStates, WorkerStates
<1>2. TypeOK /\ [Next]_vars => TypeOK'
  <2> SUFFICES ASSUME TypeOK, [Next]_vars
               PROVE  TypeOK'
    OBVIOUS
  <2> USE
    DEF TypeOK, CallerStates, WorkerStates, args, callerVars, sharedVars, workerVars,
        history, result, Goto
  <2>1. CASE RejectHandler
    BY <2>1 DEF RejectHandler
  <2>2. CASE Dispatch
    BY <2>2 DEF Dispatch
  <2>3. CASE Spawn
    BY <2>3 DEF Spawn, SpawnWhile
  <2>4. CASE SpawnedAll
    BY <2>4 DEF SpawnedAll
  <2>5. CASE RunDeferred
    BY <2>5 DEF RunDeferred
  <2>6. CASE Join
    <3>1. joined' \in 0 .. MaxThreads
      BY <2>6 DEF Join, JoinWhen
    <3> QED
      BY <3>1, <2>6 DEF Join, JoinWhen
  <2>7. CASE Conclude
    BY <2>7 DEF Conclude
  <2>8. CASE SequentialEnd
    BY <2>8 DEF SequentialEnd
  <2>9. CASE SequentialStep
    <3>1. current \in Word /\ current + 1 \in Word /\ handled[current] + 1 \in Nat
      BY <2>9 DEF SequentialStep
    <3>2. handled' \in [Word -> Nat]
      BY <3>1, <2>9 DEF SequentialStep
    <3>3. pc' \in [Thread -> WorkerStates] /\ id' \in [Thread -> Word]
      BY <3>1, <2>9 DEF SequentialStep
    <3>4. UNCHANGED <<start, end, has_handler, thread_count, caller, spawned, joined,
                      mutex, last_exception, exit, thrown, outcome, raised>>
          /\ current' \in Word
      BY <3>1, <2>9 DEF SequentialStep
    <3> QED
      BY <3>2, <3>3, <3>4
  <2>10. CASE SequentialThrow
    BY <2>10, SMTT(30) DEF SequentialThrow
  <2>11. ASSUME NEW i \in Thread, Fetch(i)
         PROVE  TypeOK'
    <3>1. current' \in Word
      BY <2>11 DEF Fetch, FetchValue, Successor, Goto
    <3>2. pc' \in [Thread -> WorkerStates] /\ id' \in [Thread -> Word]
      BY <2>11 DEF Fetch, FetchValue, Successor, Goto
    <3>3. UNCHANGED <<start, end, has_handler, thread_count, caller, spawned, joined, mutex,
                      last_exception, exit, handled, thrown, outcome, raised>>
      BY <2>11 DEF Fetch, FetchValue, Successor, Goto
    <3> QED
      BY <3>1, <3>2, <3>3
  <2>12. ASSUME NEW i \in Thread, LeaveLoop(i)
         PROVE  TypeOK'
    BY <2>12 DEF LeaveLoop
  <2>13. ASSUME NEW i \in Thread, Skip(i)
         PROVE  TypeOK'
    BY <2>13 DEF Skip
  <2>14. ASSUME NEW i \in Thread, CallHandler(i)
         PROVE  TypeOK'
    <3>1. handled' \in [Word -> Nat]
      BY <2>14 DEF CallHandler
    <3> QED
      BY <3>1, <2>14 DEF CallHandler
  <2>15. ASSUME NEW i \in Thread, HandlerReturns(i)
         PROVE  TypeOK'
    BY <2>15 DEF HandlerReturns
  <2>16. ASSUME NEW i \in Thread, HandlerThrows(i)
         PROVE  TypeOK'
    BY <2>16 DEF HandlerThrows
  <2>17. ASSUME NEW i \in Thread, RecordException(i)
         PROVE  TypeOK'
    BY <2>17 DEF RecordException, Remember
  <2>18. ASSUME NEW i \in Thread, Cancel(i)
         PROVE  TypeOK'
    BY <2>18 DEF Cancel, LeaveCatch, Goto
  <2>19. CASE UNCHANGED vars
    BY <2>19 DEF vars
  <2> QED
    BY <2>1, <2>2, <2>3, <2>4, <2>5, <2>6, <2>7, <2>8, <2>9, <2>10, <2>11, <2>12,
       <2>13, <2>14, <2>15, <2>16, <2>17, <2>18, <2>19
    DEF Next, CallerStep, WorkerStep
<1> QED
  BY <1>1, <1>2, PTL DEF Spec

(* Which workers exist follows the caller. *)
LEMMA ControlStep ==
  ASSUME TypeOK, ControlInv, [Next]_vars
  PROVE  ControlInv'
<1> USE ThreadAssumption, HardwareAssumption, NoneAssumption
  DEF TypeOK, ControlInv, CallerStates, WorkerStates, Thread, args, callerVars,
      sharedVars, workerVars, history, result, Goto
<1>1. CASE RejectHandler
  BY <1>1 DEF RejectHandler
<1>2. CASE Dispatch
  BY <1>2 DEF Dispatch
<1>3. CASE Spawn
  BY <1>3 DEF Spawn, SpawnWhile
<1>4. CASE SpawnedAll
  BY <1>4 DEF SpawnedAll
<1>5. CASE RunDeferred
  BY <1>5 DEF RunDeferred
<1>6. CASE Join
  BY <1>6 DEF Join, JoinWhen
<1>7. CASE Conclude
  BY <1>7 DEF Conclude
<1>8. CASE SequentialEnd
  BY <1>8 DEF SequentialEnd
<1>9. CASE SequentialStep
  BY <1>9 DEF SequentialStep
<1>10. CASE SequentialThrow
  BY <1>10 DEF SequentialThrow
<1>11. ASSUME NEW i \in Thread, Fetch(i)
       PROVE  ControlInv'
  BY <1>11 DEF Fetch, FetchValue, Successor, Goto
<1>12. ASSUME NEW i \in Thread, LeaveLoop(i)
       PROVE  ControlInv'
  BY <1>12 DEF LeaveLoop
<1>13. ASSUME NEW i \in Thread, Skip(i)
       PROVE  ControlInv'
  BY <1>13 DEF Skip
<1>14. ASSUME NEW i \in Thread, CallHandler(i)
       PROVE  ControlInv'
  BY <1>14 DEF CallHandler
<1>15. ASSUME NEW i \in Thread, HandlerReturns(i)
       PROVE  ControlInv'
  BY <1>15 DEF HandlerReturns
<1>16. ASSUME NEW i \in Thread, HandlerThrows(i)
       PROVE  ControlInv'
  BY <1>16 DEF HandlerThrows
<1>17. ASSUME NEW i \in Thread, RecordException(i)
       PROVE  ControlInv'
  BY <1>17 DEF RecordException, Remember
<1>18. ASSUME NEW i \in Thread, Cancel(i)
       PROVE  ControlInv'
  BY <1>18 DEF Cancel, LeaveCatch, Goto
<1>19. CASE UNCHANGED vars
  BY <1>19 DEF vars
<1> QED
  BY <1>1, <1>2, <1>3, <1>4, <1>5, <1>6, <1>7, <1>8, <1>9, <1>10, 
     <1>11, <1>12, <1>13, <1>14, <1>15, <1>16, <1>17, <1>18, <1>19
  DEF Next, CallerStep, WorkerStep

(* The mutex is held exactly in the catch block. *)
LEMMA MutexStep ==
  ASSUME TypeOK, ControlInv, MutexInv, [Next]_vars
  PROVE  MutexInv'
<1> USE ThreadAssumption, NoneAssumption
  DEF TypeOK, ControlInv, MutexInv, Thread, args, callerVars, sharedVars, workerVars,
      history, result, Goto
<1>1. CASE RejectHandler
  BY <1>1 DEF RejectHandler
<1>2. CASE Dispatch
  BY <1>2 DEF Dispatch
<1>3. CASE Spawn
  BY <1>3 DEF Spawn, SpawnWhile
<1>4. CASE SpawnedAll
  BY <1>4 DEF SpawnedAll
<1>5. CASE RunDeferred
  BY <1>5 DEF RunDeferred
<1>6. CASE Join
  BY <1>6 DEF Join, JoinWhen
<1>7. CASE Conclude
  BY <1>7 DEF Conclude
<1>8. CASE SequentialEnd
  BY <1>8 DEF SequentialEnd
<1>9. CASE SequentialStep
  BY <1>9 DEF SequentialStep
<1>10. CASE SequentialThrow
  BY <1>10 DEF SequentialThrow
<1>11. ASSUME NEW i \in Thread, Fetch(i)
       PROVE  MutexInv'
  BY <1>11 DEF Fetch, FetchValue, Successor, Goto
<1>12. ASSUME NEW i \in Thread, LeaveLoop(i)
       PROVE  MutexInv'
  BY <1>12 DEF LeaveLoop
<1>13. ASSUME NEW i \in Thread, Skip(i)
       PROVE  MutexInv'
  BY <1>13 DEF Skip
<1>14. ASSUME NEW i \in Thread, CallHandler(i)
       PROVE  MutexInv'
  BY <1>14 DEF CallHandler
<1>15. ASSUME NEW i \in Thread, HandlerReturns(i)
       PROVE  MutexInv'
  BY <1>15 DEF HandlerReturns
<1>16. ASSUME NEW i \in Thread, HandlerThrows(i)
       PROVE  MutexInv'
  BY <1>16 DEF HandlerThrows
<1>17. ASSUME NEW i \in Thread, RecordException(i)
       PROVE  MutexInv'
  BY <1>17 DEF RecordException, Remember
<1>18. ASSUME NEW i \in Thread, Cancel(i)
       PROVE  MutexInv'
  BY <1>18 DEF Cancel, LeaveCatch, Goto
<1>19. CASE UNCHANGED vars
  BY <1>19 DEF vars
<1> QED
  BY <1>1, <1>2, <1>3, <1>4, <1>5, <1>6, <1>7, <1>8, <1>9, <1>10, 
     <1>11, <1>12, <1>13, <1>14, <1>15, <1>16, <1>17, <1>18, <1>19
  DEF Next, CallerStep, WorkerStep

(* A thrown exception is never lost on its way to the caller. *)
LEMMA ExceptionStep ==
  ASSUME TypeOK, ControlInv, ExceptionInv, ExceptionTransferred, [Next]_vars
  PROVE  ExceptionInv' /\ ExceptionTransferred'
<1> USE ThreadAssumption, NoneAssumption
  DEF TypeOK, ControlInv, ExceptionInv, ExceptionTransferred, Catching, Thread, args,
      callerVars, sharedVars, workerVars, history, result, Goto
<1>1. CASE RejectHandler
  BY <1>1 DEF RejectHandler
<1>2. CASE Dispatch
  BY <1>2 DEF Dispatch
<1>3. CASE Spawn
  BY <1>3 DEF Spawn, SpawnWhile
<1>4. CASE SpawnedAll
  BY <1>4 DEF SpawnedAll
<1>5. CASE RunDeferred
  BY <1>5 DEF RunDeferred
<1>6. CASE Join
  BY <1>6 DEF Join, JoinWhen
<1>7. CASE Conclude
  BY <1>7 DEF Conclude
<1>8. CASE SequentialEnd
  BY <1>8 DEF SequentialEnd
<1>9. CASE SequentialStep
  BY <1>9 DEF SequentialStep
<1>10. CASE SequentialThrow
  BY <1>10 DEF SequentialThrow
<1>11. ASSUME NEW i \in Thread, Fetch(i)
       PROVE  ExceptionInv' /\ ExceptionTransferred'
  BY <1>11 DEF Fetch, FetchValue, Successor, Goto
<1>12. ASSUME NEW i \in Thread, LeaveLoop(i)
       PROVE  ExceptionInv' /\ ExceptionTransferred'
  BY <1>12 DEF LeaveLoop
<1>13. ASSUME NEW i \in Thread, Skip(i)
       PROVE  ExceptionInv' /\ ExceptionTransferred'
  BY <1>13 DEF Skip
<1>14. ASSUME NEW i \in Thread, CallHandler(i)
       PROVE  ExceptionInv' /\ ExceptionTransferred'
  BY <1>14 DEF CallHandler
<1>15. ASSUME NEW i \in Thread, HandlerReturns(i)
       PROVE  ExceptionInv' /\ ExceptionTransferred'
  BY <1>15 DEF HandlerReturns
<1>16. ASSUME NEW i \in Thread, HandlerThrows(i)
       PROVE  ExceptionInv' /\ ExceptionTransferred'
  BY <1>16 DEF HandlerThrows
<1>17. ASSUME NEW i \in Thread, RecordException(i)
       PROVE  ExceptionInv' /\ ExceptionTransferred'
  BY <1>17 DEF RecordException, Remember
<1>18. ASSUME NEW i \in Thread, Cancel(i)
       PROVE  ExceptionInv' /\ ExceptionTransferred'
  BY <1>18 DEF Cancel, LeaveCatch, Goto
<1>19. CASE UNCHANGED vars
  BY <1>19 DEF vars
<1> QED
  BY <1>1, <1>2, <1>3, <1>4, <1>5, <1>6, <1>7, <1>8, <1>9, <1>10,
     <1>11, <1>12, <1>13, <1>14, <1>15, <1>16, <1>17, <1>18, <1>19
  DEF Next, CallerStep, WorkerStep

(* A worker that has gone past the range stays past it. *)
LEMMA SpentGrows ==
  ASSUME TypeOK, ControlInv, [Next]_vars
  PROVE  Spent \subseteq Spent'
<1> USE SizeAssumption, BoundsAssumption
  DEF TypeOK, ControlInv, Spent, Word, Thread, args, callerVars, sharedVars, workerVars,
      history, result, Goto
<1>1. CASE RejectHandler
  BY <1>1 DEF RejectHandler
<1>2. CASE Dispatch
  BY <1>2 DEF Dispatch
<1>3. CASE Spawn
  BY <1>3 DEF Spawn, SpawnWhile
<1>4. CASE SpawnedAll
  BY <1>4 DEF SpawnedAll
<1>5. CASE RunDeferred
  BY <1>5 DEF RunDeferred
<1>6. CASE Join
  BY <1>6 DEF Join, JoinWhen
<1>7. CASE Conclude
  BY <1>7 DEF Conclude
<1>8. CASE SequentialEnd
  BY <1>8 DEF SequentialEnd
<1>9. CASE SequentialStep
  BY <1>9 DEF SequentialStep
<1>10. CASE SequentialThrow
  BY <1>10 DEF SequentialThrow
<1>11. ASSUME NEW i \in Thread, Fetch(i)
       PROVE  Spent \subseteq Spent'
  BY <1>11 DEF Fetch, FetchValue, Successor, Goto
<1>12. ASSUME NEW i \in Thread, LeaveLoop(i)
       PROVE  Spent \subseteq Spent'
  BY <1>12 DEF LeaveLoop
<1>13. ASSUME NEW i \in Thread, Skip(i)
       PROVE  Spent \subseteq Spent'
  BY <1>13, SMTT(30) DEF Skip
<1>14. ASSUME NEW i \in Thread, CallHandler(i)
       PROVE  Spent \subseteq Spent'
  BY <1>14, SMTT(30) DEF CallHandler
<1>15. ASSUME NEW i \in Thread, HandlerReturns(i)
       PROVE  Spent \subseteq Spent'
  BY <1>15 DEF HandlerReturns
<1>16. ASSUME NEW i \in Thread, HandlerThrows(i)
       PROVE  Spent \subseteq Spent'
  BY <1>16 DEF HandlerThrows
<1>17. ASSUME NEW i \in Thread, RecordException(i)
       PROVE  Spent \subseteq Spent'
  BY <1>17 DEF RecordException, Remember
<1>18. ASSUME NEW i \in Thread, Cancel(i)
       PROVE  Spent \subseteq Spent'
  BY <1>18 DEF Cancel, LeaveCatch, Goto
<1>19. CASE UNCHANGED vars
  BY <1>19 DEF vars
<1> QED
  BY <1>1, <1>2, <1>3, <1>4, <1>5, <1>6, <1>7, <1>8, <1>9, <1>10,
     <1>11, <1>12, <1>13, <1>14, <1>15, <1>16, <1>17, <1>18, <1>19
  DEF Next, CallerStep, WorkerStep

(* There are at most MaxThreads workers to go past the range, and one less *)
(* while some worker has not.                                              *)
LEMMA SpentBound ==
  ASSUME NEW S, S \subseteq Thread
  PROVE  /\ IsFiniteSet(S)
         /\ Cardinality(S) \in 0 .. MaxThreads
         /\ S # Thread => Cardinality(S) < MaxThreads
<1>1. IsFiniteSet(Thread) /\ Cardinality(Thread) = MaxThreads
  <2>1. 0 \in Int /\ MaxThreads - 1 \in Int
    BY ThreadAssumption
  <2>2. Cardinality(0 .. MaxThreads - 1) = IF 0 > MaxThreads - 1 THEN 0 ELSE (MaxThreads - 1) - 0 + 1
    BY <2>1, FS_Interval
  <2> QED
    BY <2>1, <2>2, FS_Interval, ThreadAssumption DEF Thread
<1>2. IsFiniteSet(S) /\ Cardinality(S) \in Nat /\ Cardinality(S) <= MaxThreads
  BY <1>1, FS_Subset, FS_CardinalityType
<1>3. S # Thread => Cardinality(S) # MaxThreads
  BY <1>1, FS_Subset
<1> QED
  BY <1>2, <1>3, ThreadAssumption

(* size_t arithmetic: the successor, or zero after the largest value. *)
LEMMA WordSuccessor ==
  ASSUME NEW m \in Nat, NEW c \in 0 .. m
  PROVE  (c + 1) % (m + 1) = IF c = m THEN 0 ELSE c + 1
<1>1. CASE c = m
  BY <1>1
<1>2. CASE c < m
  BY <1>2
<1> QED
  BY <1>1, <1>2

(* Every spent worker pushed the counter at most one beyond the bounds. *)
LEMMA CounterStep ==
  ASSUME TypeOK, TypeOK', ControlInv, CounterInv, [Next]_vars
  PROVE  CounterInv'
<1>1. /\ Cardinality(Spent) \in Nat /\ Cardinality(Spent') \in Nat
      /\ IsFiniteSet(Spent) /\ IsFiniteSet(Spent')
  BY SpentBound DEF Spent
<1>2. Cardinality(Spent) <= Cardinality(Spent')
  BY <1>1, SpentGrows, FS_Subset
<1>3. start \in Nat /\ end \in Nat /\ current \in Nat /\ current' \in Nat
  BY SizeAssumption, BoundsAssumption DEF TypeOK, Word
<1>4. UNCHANGED <<start, end>>
  BY
    DEF Next, CallerStep, WorkerStep, vars, args, callerVars, sharedVars, Goto,
        RejectHandler, Dispatch, Spawn, SpawnWhile,
         SpawnedAll, RunDeferred, Join, JoinWhen, Conclude, SequentialEnd, SequentialStep,
         SequentialThrow, Fetch, FetchValue, Successor, LeaveLoop, Skip, CallHandler, HandlerReturns,
         HandlerThrows, RecordException, Remember, Cancel, LeaveCatch
<1>5. CASE current' <= current
  BY <1>1, <1>2, <1>3, <1>4, <1>5 DEF CounterInv
<1>6. CASE current' <= end
  BY <1>1, <1>3, <1>4, <1>6 DEF CounterInv
<1>7. CASE SequentialStep
  BY <1>6, <1>7, <1>3 DEF SequentialStep
<1>8. ASSUME NEW i \in Thread, Fetch(i)
      PROVE  CounterInv'
  <2>1. current' = current + 1 \/ current' = 0
    BY <1>8, SizeAssumption, WordSuccessor DEF Fetch, FetchValue, Successor, TypeOK, Word
  <2>2. CASE current < end \/ current' = 0
    BY <1>3, <1>5, <1>6, <2>1, <2>2
  <2>3. CASE current >= end /\ current' = current + 1
    <3>1. i \notin Spent /\ i \in Spent'
      BY <1>8, <2>3
        DEF Fetch, FetchValue, Successor, Spent, TypeOK, args, callerVars, sharedVars,
            Goto
    <3>2. Spent \cup {i} \subseteq Spent'
      BY <3>1, SpentGrows
    <3>3. Cardinality(Spent \cup {i}) = Cardinality(Spent) + 1
      BY <1>1, <3>1, FS_AddElement
    <3>4. Cardinality(Spent) + 1 <= Cardinality(Spent')
      <4>1. Cardinality(Spent \cup {i}) <= Cardinality(Spent')
        BY <1>1, <3>2, FS_Subset
      <4> QED
        BY <3>3, <4>1
    <3> QED
      BY <1>1, <1>3, <1>4, <2>3, <3>4 DEF CounterInv
  <2> QED
    BY <1>3, <2>1, <2>2, <2>3
<1>9. ASSUME NEW i \in Thread, Cancel(i)
      PROVE  CounterInv'
  BY <1>3, <1>4, <1>6, <1>9 DEF Cancel, LeaveCatch, Goto
<1>10. CASE UNCHANGED current
  BY <1>3, <1>5, <1>10
<1> QED
  BY <1>7, <1>8, <1>9, <1>10
 
    DEF Next, CallerStep, WorkerStep, vars, callerVars, sharedVars, Goto, RejectHandler,
        Dispatch, Spawn, SpawnWhile, SpawnedAll,
      RunDeferred, Join, JoinWhen, Conclude, SequentialEnd, SequentialThrow, LeaveLoop, Skip,
      CallHandler, HandlerReturns, HandlerThrows, RecordException, Remember

(* Hence, with room for it above the bounds, fetch_add never wraps. *)
LEMMA NeverWraps ==
  ASSUME NoWrap, TypeOK, CounterInv, NEW i \in Thread, Fetch(i)
  PROVE  current' = current + 1
<1>1. Cardinality(Spent) \in Nat /\ Cardinality(Spent) < MaxThreads
  <2>1. Spent \subseteq Thread /\ i \notin Spent
    BY DEF Fetch, FetchValue, Successor, Spent, Goto
  <2> QED
    BY <2>1, SpentBound
<1>2. start + MaxThreads <= SizeMax /\ end + MaxThreads <= SizeMax
  BY DEF NoWrap, TypeOK
<1>3. current \in Nat /\ start \in Nat /\ end \in Nat
  BY SizeAssumption, BoundsAssumption DEF TypeOK, Word
<1>4. current < SizeMax
  BY <1>1, <1>2, <1>3, SizeAssumption, ThreadAssumption DEF CounterInv
<1> QED
  BY <1>3, <1>4, SizeAssumption, WordSuccessor DEF Fetch, FetchValue, Successor, Goto

(* The sequential loop hands out the index its loop variable leaves. *)
LEMMA SequentialHandsOut ==
  ASSUME TypeOK, ControlInv, HandedOutInv, DispensedOnce, SequentialStep
  PROVE  HandedOutInv' /\ DispensedOnce'
<1>1. /\ 0 \in Thread /\ current \in Word /\ current \in Nat /\ current < end /\ current' = current + 1
      /\ start \in Nat /\ end \in Nat /\ start <= current
  BY SizeAssumption, BoundsAssumption, ThreadAssumption
  DEF TypeOK, SequentialStep, Word, Thread, HandedOutInv
<1>2. /\ UNCHANGED <<start, end>>
      /\ id' \in [Thread -> Word] /\ id'[0] = current
      /\ \A i \in Thread : pc'[i] # "test" /\ (i # 0 => pc'[i] = "unborn")
      /\ ~ Catching(0)'
  BY <1>1 DEF TypeOK, ControlInv, SequentialStep, args, callerVars, sharedVars, Goto, Catching
<1>3. /\ handled' \in [Word -> Nat]
      /\ \A k \in Word : handled'[k] = handled[k] \/ (k = current /\ handled'[k] = 1)
  <2>1. handled[current] = 0
    BY <1>1 DEF HandedOutInv, FreshInv
  <2>2. handled' = handled \/ handled' = [handled EXCEPT ![current] = @ + 1]
    BY DEF SequentialStep
  <2> QED
    BY <1>1, <2>1, <2>2 DEF TypeOK
<1>4. FreshInv'
  BY <1>1, <1>3, SizeAssumption DEF HandedOutInv, FreshInv, Word
<1>5. WorkingInv'
  BY <1>1, <1>2 DEF WorkingInv, Catching
<1>6. HeldInv'
  BY <1>2 DEF HeldInv
<1>7. DispensedOnce'
  BY <1>1, <1>2, <1>3 DEF DispensedOnce, TypeOK
<1> QED
  BY <1>1, <1>2, <1>4, <1>5, <1>6, <1>7 DEF HandedOutInv

(* What fetch_add returns belongs to no other worker. *)
LEMMA FetchHandsOut ==
  ASSUME NoWrap, TypeOK, CounterInv, HandedOutInv, DispensedOnce,
         NEW i \in Thread, Fetch(i)
  PROVE  HandedOutInv' /\ DispensedOnce'
<1>1. /\ current \in Word /\ current \in Nat /\ current' = current + 1
      /\ start \in Nat /\ end \in Nat
  <2>1. current' = current + 1
    BY NeverWraps
  <2> QED
    BY <2>1, SizeAssumption, BoundsAssumption DEF TypeOK, Word
<1>2. /\ UNCHANGED <<start, end, handled>>
      /\ pc'[i] = "test" /\ id'[i] = current
      /\ \A j \in Thread \ {i} : pc'[j] = pc[j] /\ id'[j] = id[j]
      /\ \A j \in Thread : id[j] \in Nat
  BY SizeAssumption
    DEF TypeOK, Fetch, FetchValue, Successor, args, callerVars, sharedVars, Goto, history,
        Word
<1>3. FreshInv'
  BY <1>1, <1>2, SizeAssumption DEF HandedOutInv, FreshInv, Word
<1>4. WorkingInv'
  <2> SUFFICES ASSUME NEW j \in Thread, pc'[j] = "handling" \/ Catching(j)'
               PROVE  start <= id'[j] /\ id'[j] < end
    BY <1>2 DEF WorkingInv
  <2>1. j # i
    BY <1>2 DEF Catching
  <2> QED
    BY <1>2, <2>1 DEF HandedOutInv, WorkingInv, Catching
<1>5. HeldInv'
  <2> SUFFICES ASSUME NEW j \in Thread, pc'[j] = "test", id'[j] < end
               PROVE  /\ start <= id'[j] /\ id'[j] < current'
                      /\ handled[id'[j]] = 0
                      /\ \A l \in Thread : l # j /\ pc'[l] = "test" => id'[l] # id'[j]
    BY <1>2 DEF HeldInv
  <2>1. \A l \in Thread \ {i} : pc[l] = "test" => id[l] < current \/ id[l] >= end
    BY <1>1, <1>2 DEF HandedOutInv, HeldInv
  <2>2. CASE j = i
    <3>1. start <= current /\ current < end /\ handled[current] = 0
      BY <1>1, <1>2, <2>2 DEF HandedOutInv, FreshInv
    <3>2. ASSUME NEW l \in Thread, l # i, pc'[l] = "test"
          PROVE  id'[l] # current
      <4>1. id[l] \in Nat /\ (id[l] < current \/ id[l] >= end) /\ id'[l] = id[l]
        BY <1>2, <2>1, <3>2
      <4> QED
        BY <1>1, <3>1, <4>1
    <3> QED
      BY <1>1, <1>2, <2>2, <3>1, <3>2
  <2>3. CASE j # i
    <3>1. /\ pc[j] = "test" /\ id'[j] = id[j] /\ id[j] \in Nat
          /\ start <= id[j] /\ id[j] < current /\ handled[id[j]] = 0
      BY <1>2, <2>3 DEF HandedOutInv, HeldInv
    <3>2. ASSUME NEW l \in Thread, l # j, pc'[l] = "test"
          PROVE  id'[l] # id[j]
      <4>1. CASE l = i
        BY <1>1, <1>2, <3>1, <4>1
      <4>2. CASE l # i
        BY <1>2, <2>3, <3>1, <3>2, <4>2 DEF HandedOutInv, HeldInv
      <4> QED
        BY <4>1, <4>2
    <3> QED
      BY <1>1, <3>1, <3>2
  <2> QED
    BY <2>2, <2>3
<1>6. start <= current' \/ end <= current'
  BY <1>1 DEF HandedOutInv
<1>7. DispensedOnce'
  BY <1>2 DEF DispensedOnce
<1> QED
  BY <1>2, <1>3, <1>4, <1>5, <1>6, <1>7 DEF HandedOutInv

(* An index a worker has fetched and tested was not handed out before. *)
LEMMA CallHandlerHandsOut ==
  ASSUME TypeOK, HandedOutInv, DispensedOnce, NEW i \in Thread, CallHandler(i)
  PROVE  HandedOutInv' /\ DispensedOnce'
<1>1. /\ UNCHANGED <<start, end, current, id>>
      /\ pc[i] = "test" /\ pc'[i] = "handling"
      /\ \A j \in Thread \ {i} : pc'[j] = pc[j]
      /\ \A j \in Thread : id[j] \in Word
  BY DEF TypeOK, CallHandler, args, callerVars, sharedVars, Goto
<1>2. /\ start <= id[i] /\ id[i] < end /\ id[i] < current /\ handled[id[i]] = 0
      /\ \A j \in Thread : j # i /\ pc[j] = "test" => id[j] # id[i]
  BY DEF CallHandler, Goto, HandedOutInv, HeldInv
<1>3. /\ handled'[id[i]] = 1
      /\ \A k \in Word \ {id[i]} : handled'[k] = handled[k]
  BY <1>1, <1>2 DEF TypeOK, CallHandler
<1>4. FreshInv'
  <2> SUFFICES ASSUME NEW k \in Word, k >= current
               PROVE  handled'[k] = 0
    BY <1>1 DEF FreshInv
  <2>1. k # id[i]
    BY <1>1, <1>2, SizeAssumption DEF TypeOK, Word
  <2> QED
    BY <1>3, <2>1 DEF HandedOutInv, FreshInv
<1>5. WorkingInv'
  BY <1>1, <1>2 DEF HandedOutInv, WorkingInv, Catching
<1>6. HeldInv'
  <2> SUFFICES ASSUME NEW j \in Thread, pc'[j] = "test", id[j] < end
               PROVE  /\ start <= id[j] /\ id[j] < current
                      /\ handled'[id[j]] = 0
                      /\ \A l \in Thread : l # j /\ pc'[l] = "test" => id[l] # id[j]
    BY <1>1 DEF HeldInv
  <2>1. j # i /\ pc[j] = "test"
    BY <1>1
  <2>2. id[j] \in Word \ {id[i]}
    BY <1>1, <1>2, <2>1
  <2>3. handled'[id[j]] = 0
    BY <1>3, <2>1, <2>2 DEF HandedOutInv, HeldInv
  <2> QED
    BY <1>1, <2>1, <2>3 DEF HandedOutInv, HeldInv
<1>7. DispensedOnce'
  BY <1>1, <1>2, <1>3 DEF DispensedOnce
<1> QED
  BY <1>1, <1>4, <1>5, <1>6, <1>7 DEF HandedOutInv

(* Storing `end` into the counter makes no index fresh again. *)
LEMMA CancelHandsOut ==
  ASSUME TypeOK, HandedOutInv, DispensedOnce, NEW i \in Thread, Cancel(i)
  PROVE  HandedOutInv' /\ DispensedOnce'
<1>1. /\ UNCHANGED <<start, end, id, handled>>
      /\ current' = end /\ end \in Nat
      /\ pc'[i] = "done"
      /\ \A j \in Thread \ {i} : pc'[j] = pc[j]
  BY BoundsAssumption
    DEF TypeOK, Cancel, LeaveCatch, args, callerVars, sharedVars, Goto, history
<1>2. FreshInv'
  BY <1>1, SizeAssumption DEF FreshInv, DispensedOnce, TypeOK, Word
<1>3. WorkingInv'
  BY <1>1 DEF HandedOutInv, WorkingInv, Catching
<1>4. HeldInv'
  BY <1>1 DEF HandedOutInv, HeldInv
<1>5. DispensedOnce'
  BY <1>1 DEF DispensedOnce
<1> QED
  BY <1>1, <1>2, <1>3, <1>4, <1>5 DEF HandedOutInv

(* Indices below the counter are handed out once, the others not yet. *)
LEMMA HandedOutStep ==
  ASSUME NoWrap, TypeOK, ControlInv, CounterInv, HandedOutInv, DispensedOnce, [Next]_vars
  PROVE  HandedOutInv' /\ DispensedOnce'
<1> USE SizeAssumption, BoundsAssumption, ThreadAssumption
  DEF TypeOK, ControlInv, HandedOutInv, FreshInv, WorkingInv, HeldInv,
       DispensedOnce, Catching, Word, Thread, args, callerVars, sharedVars, workerVars, history, result, Goto
<1>1. CASE RejectHandler
  BY <1>1 DEF RejectHandler
<1>2. CASE Dispatch
  BY <1>2, ZenonT(30) DEF Dispatch
<1>3. CASE Spawn
  BY <1>3, SMTT(30) DEF Spawn, SpawnWhile
<1>4. CASE SpawnedAll
  BY <1>4 DEF SpawnedAll
<1>5. CASE RunDeferred
  BY <1>5 DEF RunDeferred
<1>6. CASE Join
  BY <1>6 DEF Join, JoinWhen
<1>7. CASE Conclude
  BY <1>7 DEF Conclude
<1>8. CASE SequentialEnd
  BY <1>8 DEF SequentialEnd
<1>9. CASE SequentialStep
  BY <1>9, SequentialHandsOut
<1>10. CASE SequentialThrow
  BY <1>10 DEF SequentialThrow
<1>11. ASSUME NEW i \in Thread, Fetch(i)
       PROVE  HandedOutInv' /\ DispensedOnce'
  BY <1>11, FetchHandsOut
<1>12. ASSUME NEW i \in Thread, LeaveLoop(i)
       PROVE  HandedOutInv' /\ DispensedOnce'
  BY <1>12 DEF LeaveLoop
<1>13. ASSUME NEW i \in Thread, Skip(i)
       PROVE  HandedOutInv' /\ DispensedOnce'
  BY <1>13 DEF Skip
<1>14. ASSUME NEW i \in Thread, CallHandler(i)
       PROVE  HandedOutInv' /\ DispensedOnce'
  BY <1>14, CallHandlerHandsOut
<1>15. ASSUME NEW i \in Thread, HandlerReturns(i)
       PROVE  HandedOutInv' /\ DispensedOnce'
  BY <1>15 DEF HandlerReturns
<1>16. ASSUME NEW i \in Thread, HandlerThrows(i)
       PROVE  HandedOutInv' /\ DispensedOnce'
  BY <1>16 DEF HandlerThrows
<1>17. ASSUME NEW i \in Thread, RecordException(i)
       PROVE  HandedOutInv' /\ DispensedOnce'
  BY <1>17 DEF RecordException, Remember
<1>18. ASSUME NEW i \in Thread, Cancel(i)
       PROVE  HandedOutInv' /\ DispensedOnce'
  BY <1>18, CancelHandsOut
<1>19. CASE UNCHANGED vars
  BY <1>19 DEF vars
<1> QED
  BY <1>1, <1>2, <1>3, <1>4, <1>5, <1>6, <1>7, <1>8, <1>9, <1>10,
     <1>11, <1>12, <1>13, <1>14, <1>15, <1>16, <1>17, <1>18, <1>19
  DEF Next, CallerStep, WorkerStep

(* While workers are started and joined, a step that is not a fetch stores  *)
(* `end`, or keeps the counter, the workers past the range and the fact     *)
(* that none was cancelled.                                                 *)
LEMMA NoFetchKeeps ==
  ASSUME TypeOK, ControlInv, [Next]_vars, caller \in {"spawning", "joining"}, caller' # "gone",
         ~ \E i \in Thread : Fetch(i)
  PROVE  \/ current' = end
         \/ current' = current /\ Past' = Past /\ (Cancelled' => Cancelled)
<1> USE ThreadAssumption
  DEF TypeOK, ControlInv, Past, Cancelled, Thread, args, callerVars, sharedVars, workerVars,
      history, result, Goto
<1>1. CASE RejectHandler \/ Dispatch \/ Conclude \/ SequentialEnd \/ SequentialThrow \/ SequentialStep
  BY <1>1 DEF RejectHandler, Dispatch, Conclude, SequentialEnd, SequentialThrow, SequentialStep
<1>2. CASE Spawn
  BY <1>2 DEF Spawn, SpawnWhile
<1>3. CASE SpawnedAll \/ Join
  BY <1>3 DEF SpawnedAll, Join, JoinWhen
<1>4. CASE RunDeferred
  BY <1>4 DEF RunDeferred
<1>5. ASSUME NEW i \in Thread, LeaveLoop(i) \/ Skip(i) \/ CallHandler(i)
      PROVE  current' = current /\ Past' = Past /\ (Cancelled' => Cancelled)
  <2>1. /\ id' = id /\ end' = end /\ current' = current /\ pc[i] = "test"
        /\ \A j \in Thread : j # i => pc'[j] = pc[j]
    BY <1>5 DEF LeaveLoop, Skip, CallHandler
  <2>2. \/ pc'[i] = "done" /\ id[i] >= end
        \/ pc'[i] \notin {"test", "done"} /\ id[i] < end
    BY <1>5 DEF LeaveLoop, Skip, CallHandler
  <2>3. \A j \in Thread : id[j] \in Int /\ end \in Int
    BY BoundsAssumption, SizeAssumption DEF Word
  <2>4. ~ (id[i] >= end /\ id[i] < end)
    BY <2>3
  <2>5. \A j \in Thread : j \in Past' <=> j \in Past
    BY <2>1, <2>2, <2>4
  <2>6. Cancelled' => Cancelled
    BY <2>1, <2>2, <2>4
  <2> QED
    BY <2>1, <2>5, <2>6
<1>6. ASSUME NEW i \in Thread, HandlerReturns(i) \/ HandlerThrows(i) \/ RecordException(i)
      PROVE  current' = current /\ Past' = Past /\ (Cancelled' => Cancelled)
  BY <1>6 DEF HandlerReturns, HandlerThrows, RecordException, Remember
<1>7. ASSUME NEW i \in Thread, Cancel(i)
      PROVE  current' = end
  BY <1>7 DEF Cancel, LeaveCatch
<1>8. CASE UNCHANGED vars
  BY <1>8 DEF vars
<1> QED
  BY <1>1, <1>2, <1>3, <1>4, <1>5, <1>6, <1>7, <1>8 DEF Next, CallerStep, WorkerStep

(* A worker that fetches after a cancellation, when the counter is beyond   *)
(* the range by at most one for every worker past it: the value it gets is  *)
(* a size_t, and when the counter wraps then, it was the last to fetch.     *)
LEMMA FetchAfterReset ==
  ASSUME TypeOK, ControlInv, ResetRoom, Cancelled, NEW i \in Thread, Fetch(i),
         end <= current, current <= end + Cardinality(Past)
  PROVE  \/ end <= current' /\ current' <= end + Cardinality(Past')
         \/ \A j \in Thread : j < thread_count => j \in Spent'
<1> DEFINE Team == 0 .. (thread_count - 1)
<1>1. PICK c \in Thread : pc[c] = "done" /\ id[c] < end
  BY DEF Cancelled
<1>2. /\ pc[i] = "fetch" /\ caller \in {"spawning", "joining"} /\ pc' = [pc EXCEPT ![i] = "test"]
      /\ id' = [id EXCEPT ![i] = current] /\ UNCHANGED <<end, thread_count, caller>>
  BY DEF Fetch, FetchValue, Goto, args, callerVars
<1>3. /\ thread_count \in Nat /\ end \in 0 .. SizeMax /\ current \in 0 .. SizeMax
      /\ \A j \in Thread : id[j] \in 0 .. SizeMax
  BY ThreadAssumption, BoundsAssumption, SizeAssumption DEF TypeOK, Word
<1>4. \A j \in Thread : pc[j] # "unborn" => j \in Team
  BY <1>2, ThreadAssumption DEF ControlInv, TypeOK, Thread
<1>5. i \in Team /\ c \in Team /\ i # c /\ i \notin Past /\ c \notin Past
  BY <1>1, <1>2, <1>3, <1>4 DEF Past
<1>6. Past \subseteq Team \ {i, c}
  BY <1>4, <1>5 DEF Past
<1>7. IsFiniteSet(Team \ {i, c}) /\ Cardinality(Team \ {i, c}) = thread_count - 2
  <2>1. IsFiniteSet(Team) /\ Cardinality(Team) = thread_count
    <3>1. Cardinality(Team) = IF 0 > thread_count - 1 THEN 0 ELSE (thread_count - 1) - 0 + 1
      BY <1>3, FS_Interval
    <3> QED
      BY <1>3, <3>1, FS_Interval
  <2>2. IsFiniteSet(Team \ {i}) /\ Cardinality(Team \ {i}) = thread_count - 1
    BY <1>5, <2>1, FS_RemoveElement
  <2>3. (Team \ {i}) \ {c} = Team \ {i, c} /\ c \in Team \ {i}
    BY <1>5
  <2>4. ASSUME NEW S, IsFiniteSet(S), c \in S
        PROVE  IsFiniteSet(S \ {c}) /\ Cardinality(S \ {c}) = Cardinality(S) - 1
    BY <2>4, FS_RemoveElement
  <2>5. IsFiniteSet((Team \ {i}) \ {c}) /\ Cardinality((Team \ {i}) \ {c}) = Cardinality(Team \ {i}) - 1
    <3> HIDE DEF Team
    <3> QED
      BY <2>2, <2>3, <2>4
  <2> QED
    BY <1>3, <2>2, <2>3, <2>5
<1>8. /\ IsFiniteSet(Past) /\ Cardinality(Past) \in Nat /\ Cardinality(Past) <= thread_count - 2
      /\ Cardinality(Past) = thread_count - 2 => Past = Team \ {i, c}
  <2>1. ASSUME NEW S, IsFiniteSet(S), Past \subseteq S
        PROVE  /\ IsFiniteSet(Past) /\ Cardinality(Past) \in Nat /\ Cardinality(Past) <= Cardinality(S)
               /\ Cardinality(Past) = Cardinality(S) => Past = S
    BY <2>1, FS_Subset, FS_CardinalityType
  <2> HIDE DEF Team
  <2> QED
    BY <1>6, <1>7, <2>1
<1>9. current <= SizeMax /\ id'[i] = current /\ current >= end
  BY <1>2, <1>3 DEF TypeOK
<1>10. Past' = Past \cup {i}
  BY <1>2, <1>5, <1>9 DEF Past, TypeOK
<1>11. Cardinality(Past') = Cardinality(Past) + 1
  BY <1>5, <1>8, <1>10, FS_AddElement
<1>12. CASE current < SizeMax
  <2>1. current' = current + 1
    BY <1>3, <1>12, SizeAssumption, WordSuccessor DEF Fetch, FetchValue, Successor
  <2> QED
    BY <1>2, <1>3, <1>8, <1>11, <2>1
<1>13. CASE current >= SizeMax
  <2>1. Cardinality(Past) = thread_count - 2
    BY <1>3, <1>8, <1>9, <1>13, SizeAssumption DEF ResetRoom
  <2>2. \A j \in Thread : j < thread_count => j \in Past \/ j = i \/ j = c
    BY <1>3, <1>8, <2>1, ThreadAssumption DEF Thread
  <2>3. \A j \in Past' : j \in Spent'
    BY DEF Past, Spent
  <2>4. c \in Spent'
    BY <1>1, <1>2, <1>5 DEF Spent, TypeOK
  <2> QED
    BY <1>2, <1>10, <2>2, <2>3, <2>4
<1>14. current < SizeMax \/ current >= SizeMax
  BY <1>3, SizeAssumption
<1> QED
  BY <1>12, <1>13, <1>14

LEMMA ResetStep ==
  ASSUME TypeOK, TypeOK', ControlInv, ControlInv', ResetInv, [Next]_vars
  PROVE  ResetInv'
<1> SUFFICES ASSUME Cancelled', caller' # "gone", ResetRoom'
             PROVE  \/ end' <= current' /\ current' <= end' + Cardinality(Past')
                    \/ \A j \in Thread : j < thread_count' => j \in Spent'
  BY DEF ResetInv
<1>1. caller \in {"spawning", "joining"} /\ UNCHANGED <<end, thread_count>>
  <2>1. caller' \in {"spawning", "joining"}
    BY DEF Cancelled, ControlInv, TypeOK, CallerStates
  <2>2. CASE Dispatch
    BY <2>2, ThreadAssumption DEF Dispatch, Cancelled, ControlInv, TypeOK, Thread
  <2>3. CASE ~ Dispatch
    BY <2>1, <2>3 DEF TypeOK, CallerStates, Next, CallerStep, WorkerStep, vars, args, callerVars,
       Goto, RejectHandler, Spawn, SpawnWhile, SpawnedAll, RunDeferred, Join, JoinWhen, Conclude,
       SequentialEnd, SequentialStep, SequentialThrow, Fetch, FetchValue, LeaveLoop, Skip,
       CallHandler, HandlerReturns, HandlerThrows, RecordException, Remember, Cancel, LeaveCatch
  <2> QED
    BY <2>2, <2>3
<1>2. Spent \subseteq Spent' /\ ResetRoom
  BY <1>1, SpentGrows DEF ResetRoom
<1>3. Cardinality(Past') \in Nat /\ end \in Nat
  <2>1. Past' \subseteq Thread
    BY DEF Past
  <2>2. Cardinality(Past') \in 0 .. MaxThreads
    BY <2>1, SpentBound
  <2>3. end \in Nat
    BY BoundsAssumption, SizeAssumption DEF TypeOK
  <2> QED
    BY <2>2, <2>3
<1>4. ASSUME NEW i \in Thread, Fetch(i)
      PROVE  \/ end <= current' /\ current' <= end + Cardinality(Past')
             \/ \A j \in Thread : j < thread_count => j \in Spent'
  <2>1. Cancelled
    BY <1>4 DEF Fetch, FetchValue, Goto, args, Cancelled, TypeOK
  <2>2. CASE end <= current /\ current <= end + Cardinality(Past)
    BY <1>2, <1>4, <2>1, <2>2, FetchAfterReset
  <2>3. CASE \A j \in Thread : j < thread_count => j \in Spent
    BY <1>2, <2>3
  <2> QED
    BY <1>1, <1>2, <2>1, <2>2, <2>3 DEF ResetInv
<1>5. CASE ~ \E i \in Thread : Fetch(i)
  <2>1. CASE current' = end
    BY <1>1, <1>3, <2>1
  <2>2. CASE current' = current /\ Past' = Past /\ (Cancelled' => Cancelled)
    BY <1>1, <1>2, <2>2 DEF ResetInv
  <2> QED
    BY <1>1, <1>5, <2>1, <2>2, NoFetchKeeps
<1> QED
  BY <1>1, <1>4, <1>5

(* The part of the inductive invariant that holds however the counter      *)
(* wraps: who runs when, who holds the mutex, where an exception is, and   *)
(* how far the counter can have gone.                                      *)
THEOREM SafeInvariant == Spec => []SafeInv
<1>1. Init => SafeInv
  <2> SUFFICES ASSUME Init
               PROVE  SafeInv
    OBVIOUS
  <2>1. TypeOK
    BY SizeAssumption, BoundsAssumption, ThreadAssumption, NoneAssumption
    DEF Init, TypeOK, CallerStates, WorkerStates, Word, Thread
  <2>2. ControlInv /\ MutexInv /\ ExceptionInv /\ ExceptionTransferred
    BY ThreadAssumption, NoneAssumption
    DEF Init, ControlInv, MutexInv, ExceptionInv, ExceptionTransferred, Catching, Thread
  <2>3. CounterInv
    <3>1. Cardinality(Spent) \in Nat
      BY SpentBound DEF Spent
    <3> QED
      BY <2>1, <3>1, SizeAssumption, BoundsAssumption DEF Init, CounterInv, TypeOK
  <2>4. ResetInv
    BY DEF Init, ResetInv, Cancelled
  <2> QED
    BY <2>1, <2>2, <2>3, <2>4 DEF SafeInv
<1>2. SafeInv /\ TypeOK' /\ [Next]_vars => SafeInv'
  BY ControlStep, MutexStep, ExceptionStep, CounterStep, ResetStep DEF SafeInv
<1> QED
  BY <1>1, <1>2, TypeCorrect, PTL DEF Spec

(* A call during which a handler threw ends by throwing one of the thrown  *)
(* exceptions, and no other call throws: for every schedule, every number  *)
(* of threads and however the counter wraps.                               *)
THEOREM ExceptionsReachTheCaller == Spec => []ExceptionTransferred
<1>1. SafeInv => ExceptionTransferred
  BY DEF SafeInv
<1> QED
  BY <1>1, SafeInvariant, PTL

(* No worker touches the locals of a call that is over. *)
THEOREM NoWorkerOutlivesTheCall == Spec => []QuiescentWhenGone
<1>1. SafeInv => QuiescentWhenGone
  BY NoneAssumption, ThreadAssumption
  DEF SafeInv, TypeOK, ControlInv, MutexInv, QuiescentWhenGone, Thread
<1> QED
  BY <1>1, SafeInvariant, PTL

(* With room above the bounds, the whole inductive invariant holds.        *)
LEMMA FullInvariant ==
  ASSUME NoWrap
  PROVE  Spec => []IInv
<1>1. Init => HandedOutInv /\ DispensedOnce
  BY SizeAssumption, BoundsAssumption, ThreadAssumption
  DEF Init, HandedOutInv, FreshInv, WorkingInv, HeldInv, Catching, DispensedOnce, Word, Thread
<1>2. SafeInv /\ SafeInv' /\ HandedOutInv /\ DispensedOnce /\ [Next]_vars
      => HandedOutInv' /\ DispensedOnce'
  BY HandedOutStep DEF SafeInv
<1>3. SafeInv /\ HandedOutInv /\ DispensedOnce <=> IInv
  BY DEF IInv
<1> QED
  BY <1>1, <1>2, <1>3, SafeInvariant, PTL DEF Spec

(* While there is room above the bounds for one increment per worker,      *)
(* every index of the range, and no other, is given to at most one handler *)
(* call.                                                                   *)
THEOREM IndicesDispensedOnce ==
  ASSUME NoWrap
  PROVE  Spec => []DispensedOnce
<1>1. IInv => DispensedOnce
  BY DEF IInv
<1> QED
  BY <1>1, FullInvariant, PTL

(* An exception stops the range, wherever it lies in size_t, as long as     *)
(* size_t has room for the values that the other workers still take: after  *)
(* a catch block has stored `end`, no worker fetches an index below it.     *)
(* Two workers may so share a range that ends at the largest size_t, which  *)
(* the comment in the catch block is about; three may not, where the run    *)
(* parallel_for_wrap shows CancelStops violated.                            *)
THEOREM CancellationStopsWithRoom == Spec => CancelStopsWithRoom
<1>1. SafeInv /\ [Next]_vars => [Cancelled /\ ResetRoom => FetchesPastEnd]_vars
  <2> SUFFICES ASSUME SafeInv, [Next]_vars, Cancelled, ResetRoom,
                      NEW i \in Thread, pc[i] = "fetch", pc'[i] = "test"
               PROVE  id'[i] >= end
    BY DEF FetchesPastEnd
  <2> USE DEF SafeInv
  <2>1. ASSUME NEW j \in Thread, Fetch(j)
        PROVE  id'[i] >= end
    <3>1. /\ j = i /\ id'[i] = current /\ caller \in {"spawning", "joining"}
          /\ pc[i] = "fetch"
      BY <2>1 DEF Fetch, FetchValue, Goto, TypeOK
    <3>2. i < thread_count /\ i \notin Spent
      BY <3>1, ThreadAssumption DEF ControlInv, TypeOK, Thread, Spent
    <3>3. end <= current
      BY <3>1, <3>2 DEF ResetInv
    <3> QED
      BY <3>1, <3>3, SizeAssumption, BoundsAssumption DEF TypeOK, Word
  <2>2. ASSUME ~ \E j \in Thread : Fetch(j)
        PROVE  pc'[i] # "test"
    BY <2>2 DEF TypeOK, ControlInv, Next, CallerStep, WorkerStep, vars,
        workerVars, callerVars, sharedVars, Goto, RejectHandler, Dispatch, Spawn, SpawnWhile,
        SpawnedAll, RunDeferred, Join, JoinWhen, Conclude, SequentialEnd, SequentialStep,
        SequentialThrow, LeaveLoop, Skip, CallHandler, HandlerReturns, HandlerThrows,
        RecordException, Remember, Cancel, LeaveCatch
  <2> QED
    BY <2>1, <2>2
<1> QED
  BY <1>1, SafeInvariant, PTL DEF Spec, CancelStopsWithRoom

-----------------------------------------------------------------------------
(* The refinement of IndexDispenser.                                       *)

(* A called handler gets an index that was never handled.                  *)
LEMMA CallHandlerBusy ==
  ASSUME TypeOK, HeldInv, BusyInv, NEW i \in Thread, CallHandler(i)
  PROVE  BusyInv'
<1>1. /\ ~exit[i] /\ id' = id /\ exit' = exit
      /\ \A j \in Thread \ {i} : pc'[j] = pc[j]
      /\ handled[id[i]] = 0 /\ \A j \in Thread : id[j] \in Word
  BY DEF TypeOK, HeldInv, CallHandler, Goto
<1>2. handled'[id[i]] > 0 /\ \A k \in Word \ {id[i]} : handled'[k] = handled[k]
  BY <1>1 DEF TypeOK, CallHandler
<1>3. \A j \in Thread \ {i} :
          pc[j] = "handling" => /\ ~exit[j] /\ handled[id[j]] > 0 /\ id[j] # id[i]
                                /\ \A k \in Thread \ {j} : pc[k] = "handling" => id[k] # id[j]
  BY <1>1 DEF BusyInv
<1>4. \A j \in Thread \ {i} : pc[j] = "handling" => handled'[id[j]] > 0
  BY <1>1, <1>2, <1>3
<1> QED
  BY <1>1, <1>2, <1>3, <1>4 DEF BusyInv

(* Workers handle different indices, and none whose handler asked to exit   *)
(* goes on.                                                                 *)
LEMMA BusyStep ==
  ASSUME TypeOK, ControlInv, HeldInv, BusyInv, [Next]_vars
  PROVE  BusyInv'
<1> USE SizeAssumption, BoundsAssumption, ThreadAssumption
  DEF TypeOK, ControlInv, HeldInv, BusyInv, Word, Thread, args, callerVars, sharedVars, workerVars,
      history, result, Goto
<1>1. CASE RejectHandler
  BY <1>1 DEF RejectHandler
<1>2. CASE Dispatch
  BY <1>2 DEF Dispatch
<1>3. CASE Spawn
  BY <1>3 DEF Spawn, SpawnWhile
<1>4. CASE SpawnedAll
  BY <1>4 DEF SpawnedAll
<1>5. CASE RunDeferred
  BY <1>5 DEF RunDeferred
<1>6. CASE Join
  BY <1>6 DEF Join, JoinWhen
<1>7. CASE Conclude
  BY <1>7 DEF Conclude
<1>8. CASE SequentialEnd
  BY <1>8 DEF SequentialEnd
<1>9. CASE SequentialStep
  <2>1. \A j \in Thread : pc'[j] = "handling" => j = 0
    BY <1>9 DEF SequentialStep
  <2>2. CASE exit[0]
    BY <1>9, <2>1, <2>2 DEF SequentialStep
  <2>3. CASE ~exit[0]
    <3>1. 0 \in Thread /\ current \in Word /\ handled[current] \in Nat
      BY <1>9 DEF SequentialStep
    <3>2. id'[0] = current /\ handled'[current] = handled[current] + 1 /\ ~exit'[0]
      BY <1>9, <2>3, <3>1 DEF SequentialStep
    <3>3. handled'[current] > 0
      BY <3>1, <3>2
    <3> QED
      BY <2>1, <3>1, <3>2, <3>3
  <2> QED
    BY <2>2, <2>3
<1>10. CASE SequentialThrow
  BY <1>10 DEF SequentialThrow
<1>11. ASSUME NEW i \in Thread, Fetch(i)
       PROVE  BusyInv'
  BY <1>11 DEF Fetch, FetchValue, Successor
<1>12. ASSUME NEW i \in Thread, LeaveLoop(i)
       PROVE  BusyInv'
  BY <1>12 DEF LeaveLoop
<1>13. ASSUME NEW i \in Thread, Skip(i)
       PROVE  BusyInv'
  BY <1>13 DEF Skip
<1>14. ASSUME NEW i \in Thread, CallHandler(i)
       PROVE  BusyInv'
  BY <1>14, CallHandlerBusy
<1>15. ASSUME NEW i \in Thread, HandlerReturns(i)
       PROVE  BusyInv'
  BY <1>15 DEF HandlerReturns
<1>16. ASSUME NEW i \in Thread, HandlerThrows(i)
       PROVE  BusyInv'
  BY <1>16 DEF HandlerThrows
<1>17. ASSUME NEW i \in Thread, RecordException(i)
       PROVE  BusyInv'
  BY <1>17 DEF RecordException, Remember
<1>18. ASSUME NEW i \in Thread, Cancel(i)
       PROVE  BusyInv'
  BY <1>18 DEF Cancel, LeaveCatch
<1>19. CASE UNCHANGED vars
  BY <1>19 DEF vars
<1> QED
  BY <1>1, <1>2, <1>3, <1>4, <1>5, <1>6, <1>7, <1>8, <1>9, <1>10,
     <1>11, <1>12, <1>13, <1>14, <1>15, <1>16, <1>17, <1>18, <1>19
  DEF Next, CallerStep, WorkerStep

(* What is exhausted stays so, and the call that runs has its handler.      *)
LEMMA ExhaustedStep ==
  ASSUME NoWrap, CoresKnown, TypeOK, ControlInv, CounterInv, ExhaustedInv, CallInv, [Next]_vars
  PROVE  ExhaustedInv' /\ CallInv'
<1> USE SizeAssumption, BoundsAssumption, ThreadAssumption, HardwareAssumption
  DEF TypeOK, ControlInv, ExhaustedInv, CallInv, Spent, CoresKnown, Word, Thread, args, callerVars,
      sharedVars, workerVars, history, result, Goto
<1>1. CASE RejectHandler
  BY <1>1 DEF RejectHandler
<1>2. CASE Dispatch
  <2>1. thread_count' > 0
    BY <1>2 DEF Dispatch
  <2>2. Spent' = {}
    BY <1>2 DEF Dispatch
  <2> QED
    BY <1>2, <2>1, <2>2 DEF Dispatch
<1>3. CASE Spawn
  BY <1>3 DEF Spawn, SpawnWhile
<1>4. CASE SpawnedAll
  BY <1>4 DEF SpawnedAll
<1>5. CASE RunDeferred
  BY <1>5 DEF RunDeferred
<1>6. CASE Join
  BY <1>6 DEF Join, JoinWhen
<1>7. CASE Conclude
  BY <1>7 DEF Conclude
<1>8. CASE SequentialEnd
  BY <1>8 DEF SequentialEnd
<1>9. CASE SequentialStep
  BY <1>9 DEF SequentialStep
<1>10. CASE SequentialThrow
  BY <1>10 DEF SequentialThrow
<1>11. ASSUME NEW i \in Thread, Fetch(i)
       PROVE  ExhaustedInv' /\ CallInv'
  <2>1. current' = current + 1
    BY <1>11, NeverWraps
  <2>2. UNCHANGED <<end, caller, thread_count, raised, has_handler>> /\ caller # "gone"
    BY <1>11 DEF Fetch, FetchValue
  <2>3. /\ id'[i] = current
        /\ \A j \in Thread \ {i} : pc'[j] = pc[j] /\ id'[j] = id[j]
        /\ current \in Nat /\ end \in Nat
    BY <1>11 DEF Fetch, FetchValue
  <2>4. CASE current >= end
    BY <2>1, <2>2, <2>3, <2>4
  <2>5. CASE current < end
    <3>1. Spent' = {}
      <4>1. Spent = {}
        BY <2>2, <2>3, <2>5
      <4>2. pc'[i] = "test" /\ ~(id'[i] >= end')
        BY <1>11, <2>2, <2>3, <2>5 DEF Fetch, FetchValue
      <4>3. \A j \in Thread : ~(pc'[j] = "done" \/ (pc'[j] = "test" /\ id'[j] >= end'))
        <5> SUFFICES ASSUME NEW j \in Thread
                     PROVE  ~(pc'[j] = "done" \/ (pc'[j] = "test" /\ id'[j] >= end'))
          OBVIOUS
        <5>1. CASE j = i
          BY <4>2, <5>1, Zenon
        <5>2. CASE j # i
          BY <2>2, <2>3, <4>1, <5>2
        <5> QED
          BY <5>1, <5>2
      <4> QED
        BY <4>3
    <3> QED
      BY <2>2, <3>1
  <2> QED
    BY <2>3, <2>4, <2>5
<1>12. ASSUME NEW i \in Thread, LeaveLoop(i)
       PROVE  ExhaustedInv' /\ CallInv'
  BY <1>12 DEF LeaveLoop
<1>13. ASSUME NEW i \in Thread, Skip(i)
       PROVE  ExhaustedInv' /\ CallInv'
  BY <1>13 DEF Skip
<1>14. ASSUME NEW i \in Thread, CallHandler(i)
       PROVE  ExhaustedInv' /\ CallInv'
  BY <1>14 DEF CallHandler
<1>15. ASSUME NEW i \in Thread, HandlerReturns(i)
       PROVE  ExhaustedInv' /\ CallInv'
  BY <1>15 DEF HandlerReturns
<1>16. ASSUME NEW i \in Thread, HandlerThrows(i)
       PROVE  ExhaustedInv' /\ CallInv'
  BY <1>16 DEF HandlerThrows
<1>17. ASSUME NEW i \in Thread, RecordException(i)
       PROVE  ExhaustedInv' /\ CallInv'
  BY <1>17 DEF RecordException, Remember
<1>18. ASSUME NEW i \in Thread, Cancel(i)
       PROVE  ExhaustedInv' /\ CallInv'
  BY <1>18 DEF Cancel, LeaveCatch
<1>19. CASE UNCHANGED vars
  BY <1>19 DEF vars
<1> QED
  BY <1>1, <1>2, <1>3, <1>4, <1>5, <1>6, <1>7, <1>8, <1>9, <1>10,
     <1>11, <1>12, <1>13, <1>14, <1>15, <1>16, <1>17, <1>18, <1>19
  DEF Next, CallerStep, WorkerStep

LEMMA RefinementInvariant ==
  ASSUME NoWrap, CoresKnown
  PROVE  Spec => []DispenserInv
<1>1. Init => BusyInv /\ ExhaustedInv /\ CallInv
  BY ThreadAssumption DEF Init, BusyInv, ExhaustedInv, CallInv, Spent, Thread
<1>2. IInv /\ BusyInv /\ ExhaustedInv /\ CallInv /\ [Next]_vars
        => BusyInv' /\ ExhaustedInv' /\ CallInv'
  BY BusyStep, ExhaustedStep DEF IInv, SafeInv, HandedOutInv
<1> QED
  BY <1>1, <1>2, FullInvariant, PTL DEF Spec, DispenserInv

(* What the abstract state is made of.                                      *)
LEMMA SameTodo ==
  ASSUME UNCHANGED <<end, current, has_handler, id>>, (caller = "gone") <=> (caller' = "gone"),
         \A i \in Thread : (pc[i] = "test") <=> (pc'[i] = "test")
  PROVE  Todo' = Todo
BY DEF Todo

LEMMA SameRunning ==
  ASSUME \A i \in Thread : (pc[i] = "handling") <=> (pc'[i] = "handling"),
         \A i \in Thread : pc[i] = "handling" => id'[i] = id[i]
  PROVE  Running' = Running
<1>1. {j \in Thread : pc[j] = "handling"} = {j \in Thread : pc'[j] = "handling"}
  OBVIOUS
<1> QED
  BY <1>1 DEF Running

LEMMA NoneRunning ==
  ASSUME \A i \in Thread : pc[i] # "handling"
  PROVE  Running = {}
BY DEF Running

LEMMA SameAbstraction ==
  ASSUME Todo' = Todo, Running' = Running, UNCHANGED <<thrown, exit, outcome, raised>>
  PROVE  UNCHANGED Dispenser!vars
BY DEF Dispenser!vars, Exiting

(* A fetched index stays pending.                                           *)
LEMMA FetchRefines ==
  ASSUME NoWrap, DispenserInv, NEW i \in Thread, Fetch(i)
  PROVE  UNCHANGED Dispenser!vars
<1> USE DEF DispenserInv, IInv, SafeInv, TypeOK
<1>1. current' = current + 1 /\ current \in Nat
  BY NeverWraps, SizeAssumption DEF Word
<1>2. /\ pc[i] = "fetch" /\ pc'[i] = "test" /\ id'[i] = current
      /\ \A j \in Thread \ {i} : pc'[j] = pc[j] /\ id'[j] = id[j]
      /\ UNCHANGED <<end, has_handler, caller, thrown, exit, outcome, raised>>
      /\ caller # "gone"
  BY DEF Fetch, FetchValue, Goto, args, callerVars, result, history
<1>3. Todo' = Todo
  <2>1. \A k \in Word : k >= current <=> k >= current' \/ k = current
    BY <1>1, SizeAssumption DEF Word
  <2>2. \A k \in Word : (\E j \in Thread : pc'[j] = "test" /\ id'[j] = k)
                            <=> k = current \/ \E j \in Thread : pc[j] = "test" /\ id[j] = k
    BY <1>2
  <2>3. \A k \in Word : (k >= current \/ \E j \in Thread : pc[j] = "test" /\ id[j] = k)
                            <=> (k >= current' \/ \E j \in Thread : pc'[j] = "test" /\ id'[j] = k)
    BY <2>1, <2>2
  <2>4. {k \in Word : k < end /\ (k >= current \/ \E j \in Thread : pc[j] = "test" /\ id[j] = k)}
          = {k \in Word : k < end /\ (k >= current' \/ \E j \in Thread : pc'[j] = "test" /\ id'[j] = k)}
    BY <2>3, ZenonT(30)
  <2> QED
    BY <1>2, <2>4 DEF Todo
<1>4. Running' = Running
  BY <1>2, SameRunning
<1> QED
  BY <1>2, <1>3, <1>4, SameAbstraction

(* The handler is called for a fetched index, which was pending.            *)
LEMMA CallHandlerRefines ==
  ASSUME DispenserInv, NEW i \in Thread, CallHandler(i)
  PROVE  Dispenser!Take(id[i])
<1> USE DEF DispenserInv, IInv, SafeInv, TypeOK
<1>1. /\ pc[i] = "test" /\ pc'[i] = "handling" /\ id[i] < end /\ id[i] \in Word
      /\ \A j \in Thread \ {i} : pc'[j] = pc[j]
      /\ UNCHANGED <<id, current, end, has_handler, caller, thrown, exit, outcome, raised>>
  BY DEF CallHandler, Goto, args, callerVars, sharedVars, result
<1>2. caller \notin {"called", "gone"} /\ has_handler
  BY <1>1 DEF ControlInv, CallInv
<1>3. id[i] \in Todo
  BY <1>1, <1>2 DEF Todo
<1>4. id[i] < current /\ \A j \in Thread \ {i} : pc[j] = "test" => id[j] # id[i]
  BY <1>1 DEF HandedOutInv, HeldInv
<1>5. ~(id[i] >= current)
  BY <1>1, <1>4, SizeAssumption DEF Word
<1>6. Todo' = Todo \ {id[i]}
  BY <1>1, <1>2, <1>4, <1>5 DEF Todo
<1>7. Running' = Running \cup {id[i]}
  BY <1>1 DEF Running
<1> QED
  BY <1>1, <1>3, <1>6, <1>7 DEF Dispenser!Take, Exiting

(* A handler that ends gives its index up, which no other handler has.      *)
LEMMA HandlerEnds ==
  ASSUME DispenserInv, NEW i \in Thread, pc[i] = "handling", pc'[i] # "handling", id' = id,
         \A j \in Thread \ {i} : pc'[j] = pc[j]
  PROVE  id[i] \in Running /\ Running' = Running \ {id[i]}
BY DEF DispenserInv, BusyInv, Running

LEMMA HandlerReturnsRefines ==
  ASSUME DispenserInv, NEW i \in Thread, HandlerReturns(i)
  PROVE  Dispenser!Finish(id[i])
<1> USE DEF DispenserInv, IInv, SafeInv, TypeOK
<1>1. /\ pc[i] = "handling" /\ pc'[i] = "fetch"
      /\ \A j \in Thread \ {i} : pc'[j] = pc[j] /\ exit'[j] = exit[j]
      /\ UNCHANGED <<id, current, end, has_handler, caller, thrown, outcome, raised>>
  BY DEF HandlerReturns, Goto, args, callerVars, sharedVars, result, history
<1>2. ~exit[i]
  BY <1>1 DEF BusyInv
<1>3. Exiting' \in {Exiting, TRUE}
  BY <1>1, <1>2 DEF Exiting
<1>4. Todo' = Todo
  BY <1>1, SameTodo
<1> QED
  BY <1>1, <1>3, <1>4, HandlerEnds DEF Dispenser!Finish

LEMMA HandlerThrowsRefines ==
  ASSUME DispenserInv, NEW i \in Thread, HandlerThrows(i)
  PROVE  Dispenser!Fail(id[i])
<1> USE DEF DispenserInv, IInv, SafeInv, TypeOK
<1>1. /\ pc[i] = "handling" /\ pc'[i] = "catching" /\ thrown' = thrown \cup {id[i]}
      /\ \A j \in Thread \ {i} : pc'[j] = pc[j]
      /\ UNCHANGED <<id, exit, current, end, has_handler, caller, outcome, raised>>
  BY DEF HandlerThrows, Goto, args, callerVars, sharedVars, result
<1>2. Todo' = Todo
  BY <1>1, SameTodo
<1> QED
  BY <1>1, <1>2, HandlerEnds DEF Dispenser!Fail, Exiting

(* A worker that skips an index drops it: its handler asked to exit.        *)
LEMMA SkipRefines ==
  ASSUME DispenserInv, NEW i \in Thread, Skip(i)
  PROVE  Dispenser!Drop
<1> USE DEF DispenserInv, IInv, SafeInv, TypeOK
<1>1. /\ pc[i] = "test" /\ pc'[i] = "fetch" /\ exit[i]
      /\ \A j \in Thread \ {i} : pc'[j] = pc[j]
      /\ UNCHANGED <<id, exit, current, end, has_handler, caller, thrown, outcome, raised>>
  BY DEF Skip, Goto, args, callerVars, sharedVars, result, history
<1>2. Todo' \subseteq Todo
  BY <1>1 DEF Todo
<1>3. Running' = Running
  BY <1>1, SameRunning
<1> QED
  BY <1>1, <1>2, <1>3 DEF Dispenser!Drop, Exiting

(* A catch block drops everything that is not fetched.                      *)
LEMMA CancelRefines ==
  ASSUME DispenserInv, NEW i \in Thread, Cancel(i)
  PROVE  Dispenser!Drop
<1> USE DEF DispenserInv, IInv, SafeInv, TypeOK
<1>1. /\ pc[i] = "cancelling" /\ pc'[i] = "done" /\ current' = end
      /\ \A j \in Thread \ {i} : pc'[j] = pc[j]
      /\ UNCHANGED <<id, exit, end, has_handler, caller, thrown, outcome, raised>>
  BY DEF Cancel, LeaveCatch, Goto, args, callerVars, result, history
<1>2. id[i] \in thrown
  BY <1>1 DEF ExceptionInv, Catching
<1>3. \A k \in Word : k < end => ~(k >= end)
  BY SizeAssumption, BoundsAssumption DEF Word
<1>4. Todo' \subseteq Todo
  BY <1>1, <1>3 DEF Todo
<1>5. Running' = Running
  BY <1>1, SameRunning
<1> QED
  BY <1>1, <1>2, <1>4, <1>5 DEF Dispenser!Drop, Exiting

(* The workers' other steps are not seen.                                   *)
LEMMA WorkerRefines ==
  ASSUME NoWrap, DispenserInv, NEW i \in Thread, WorkerStep(i)
  PROVE  [Dispenser!Next]_(Dispenser!vars)
<1>1. id[i] \in Word
  BY DEF DispenserInv, IInv, SafeInv, TypeOK
<1>2. CASE LeaveLoop(i)
  <2>1. /\ pc[i] = "test" /\ pc'[i] = "done" /\ id[i] >= end
        /\ \A j \in Thread \ {i} : pc'[j] = pc[j]
        /\ UNCHANGED <<id, exit, current, end, has_handler, caller, thrown, outcome, raised>>
    BY <1>2 DEF LeaveLoop, Goto, args, callerVars, sharedVars, result, history,
                DispenserInv, IInv, SafeInv, TypeOK
  <2>2. \A k \in Word : k < end => id[i] # k
    BY <1>1, <2>1, SizeAssumption, BoundsAssumption
    DEF Word, DispenserInv, IInv, SafeInv, TypeOK
  <2>3. Todo' = Todo
    BY <2>1, <2>2 DEF Todo
  <2>4. Running' = Running
    BY <2>1, SameRunning
  <2> QED
    BY <2>1, <2>3, <2>4, SameAbstraction
<1>3. CASE RecordException(i)
  <2>1. /\ pc[i] = "catching" /\ pc'[i] = "cancelling"
        /\ \A j \in Thread \ {i} : pc'[j] = pc[j]
        /\ UNCHANGED <<id, exit, current, end, has_handler, caller, thrown, outcome, raised>>
    BY <1>3 DEF RecordException, Remember, Goto, args, callerVars, result, history,
                DispenserInv, IInv, SafeInv, TypeOK
  <2>2. Todo' = Todo /\ Running' = Running
    BY <2>1, SameTodo, SameRunning
  <2> QED
    BY <2>1, <2>2, SameAbstraction
<1> QED
  BY <1>1, <1>2, <1>3, FetchRefines, SkipRefines, CallHandlerRefines, HandlerReturnsRefines,
     HandlerThrowsRefines, CancelRefines
  DEF WorkerStep, Dispenser!Next

(* A call without a handler has nothing to hand out.                        *)
LEMMA RejectHandlerRefines ==
  ASSUME DispenserInv, RejectHandler
  PROVE  Dispenser!Return
<1> USE DEF DispenserInv, IInv, SafeInv
<1>1. /\ outcome = "running" /\ outcome' = "returned" /\ ~has_handler /\ ~has_handler'
      /\ UNCHANGED <<pc, id, exit, thrown, raised>> /\ thrown = {}
  BY DEF RejectHandler, ControlInv, ExceptionInv, args, workerVars, history
<1>2. Todo = {} /\ Todo' = {}
  BY <1>1 DEF Todo
<1>3. Running = {}
  <2>1. \A i \in Thread : pc[i] = "unborn"
    BY DEF ControlInv, RejectHandler
  <2> QED
    BY <2>1, NoneRunning
<1>4. Running' = Running
  BY <1>1, SameRunning
<1> QED
  BY <1>1, <1>2, <1>3, <1>4 DEF Dispenser!Return, Exiting

(* The call returns when nothing is left and no handler threw ...           *)
LEMMA ConcludeRefines ==
  ASSUME DispenserInv, Conclude
  PROVE  Dispenser!Return \/ Dispenser!Throw
<1> USE DEF DispenserInv, IInv, SafeInv
<1>1. /\ outcome = "running" /\ raised = None
      /\ caller = "joining" /\ caller' = "gone" /\ joined = thread_count
      /\ outcome' = IF last_exception = None THEN "returned" ELSE "threw"
      /\ raised' = last_exception
      /\ UNCHANGED <<pc, id, exit, thrown>>
  BY DEF Conclude, ControlInv, CallInv, workerVars, history
<1>2. \A i \in Thread : pc[i] \in {"unborn", "done"}
  BY <1>1, ThreadAssumption DEF ControlInv, Thread, TypeOK
<1>3. Running = {} /\ Running' = {} /\ Todo' = {}
  BY <1>1, <1>2, NoneRunning, SameRunning DEF Todo
<1>4. CASE last_exception = None
  <2>1. thrown = {}
    BY <1>1, <1>2, <1>4 DEF ExceptionInv
  <2>2. 0 \in Thread /\ pc[0] = "done"
    BY <1>1, ThreadAssumption DEF ControlInv, ExhaustedInv, Thread, TypeOK
  <2>3. current >= end
    BY <1>1, <2>2 DEF ExhaustedInv, Spent
  <2>4. \A k \in Word : k < end => ~(k >= current)
    BY <2>3, SizeAssumption, BoundsAssumption DEF Word, TypeOK
  <2>5. Todo = {}
    BY <1>2, <2>4 DEF Todo
  <2> QED
    BY <1>1, <1>3, <1>4, <2>1, <2>5 DEF Dispenser!Return, Exiting
<1>5. CASE last_exception # None
  <2>1. last_exception \in thrown
    BY <1>5 DEF ExceptionInv
  <2> QED
    BY <1>1, <1>3, <1>5, <2>1 DEF Dispenser!Throw, Exiting
<1> QED
  BY <1>4, <1>5

(* ... and so does the sequential loop, ...                                 *)
LEMMA SequentialEndRefines ==
  ASSUME DispenserInv, SequentialEnd
  PROVE  Dispenser!Return
<1> USE DEF DispenserInv, IInv, SafeInv
<1>1. /\ outcome = "running" /\ outcome' = "returned"
      /\ caller = "sequential" /\ caller' = "gone" /\ pc[0] = "fetch" /\ current >= end
      /\ pc' = [pc EXCEPT ![0] = "done"]
      /\ UNCHANGED <<id, exit, thrown, raised>>
  BY DEF SequentialEnd, ControlInv, Goto, history
<1>2. \A i \in Thread : pc[i] \notin {"test", "handling"} /\ pc'[i] # "handling"
  BY <1>1 DEF ControlInv, TypeOK
<1>3. Running = {} /\ Running' = Running
  BY <1>2, NoneRunning, SameRunning
<1>4. thrown = {}
  BY <1>1 DEF ExceptionInv
<1>5. \A k \in Word : k < end => ~(k >= current)
  BY <1>1, SizeAssumption, BoundsAssumption DEF Word, TypeOK
<1>6. Todo = {} /\ Todo' = {}
  BY <1>1, <1>2, <1>5 DEF Todo
<1> QED
  BY <1>1, <1>3, <1>4, <1>6 DEF Dispenser!Return, Exiting

(* ... which a throwing handler leaves.                                     *)
LEMMA SequentialThrowRefines ==
  ASSUME DispenserInv, SequentialThrow
  PROVE  Dispenser!Throw
<1> USE DEF DispenserInv, IInv, SafeInv
<1>1. /\ outcome = "running" /\ outcome' = "threw" /\ raised' = id[0]
      /\ caller = "sequential" /\ caller' = "gone" /\ pc[0] = "catching"
      /\ pc' = [pc EXCEPT ![0] = "done"]
      /\ UNCHANGED <<id, exit, thrown>>
  BY DEF SequentialThrow, ControlInv, Goto, history
<1>2. \A i \in Thread : pc[i] # "handling" /\ pc'[i] # "handling"
  BY <1>1 DEF ControlInv, TypeOK
<1>3. Running = {} /\ Running' = Running
  BY <1>2, NoneRunning, SameRunning
<1>4. 0 \in Thread
  BY <1>1, ThreadAssumption DEF TypeOK, Thread
<1>5. id[0] \in thrown
  BY <1>1, <1>4 DEF ExceptionInv, Catching
<1>6. Todo' = {}
  BY <1>1 DEF Todo
<1> QED
  BY <1>1, <1>3, <1>5, <1>6 DEF Dispenser!Throw, Exiting

(* A round of the sequential loop takes the next index or drops it.         *)
LEMMA SequentialStepRefines ==
  ASSUME DispenserInv, SequentialStep
  PROVE  Dispenser!Take(current) \/ Dispenser!Drop
<1> USE DEF DispenserInv, IInv, SafeInv
<1>1. 0 \in Thread /\ current \in Word /\ current < end /\ current' = current + 1
  BY ThreadAssumption DEF SequentialStep, TypeOK, Thread
<1>2. /\ caller = "sequential" /\ pc[0] = "fetch" /\ has_handler /\ id' = [id EXCEPT ![0] = current]
      /\ pc' = IF exit[0] THEN pc ELSE [pc EXCEPT ![0] = "handling"]
      /\ UNCHANGED <<end, has_handler, caller, exit, thrown, outcome, raised>>
  BY DEF SequentialStep, CallInv, args, callerVars, result
<1>3. \A i \in Thread : pc[i] \notin {"test", "handling"} /\ pc'[i] # "test"
  BY <1>2 DEF ControlInv, TypeOK
<1>4. \A k \in Word : k >= current' <=> k >= current /\ k # current
  BY <1>1, SizeAssumption DEF Word
<1>5. current \in Todo /\ Todo' = Todo \ {current}
  <2>1. Todo = {k \in Word : k < end /\ k >= current}
    BY <1>2, <1>3 DEF Todo
  <2>2. Todo' = {k \in Word : k < end /\ k >= current'}
    BY <1>2, <1>3 DEF Todo
  <2>3. current >= current
    BY <1>1, SizeAssumption DEF Word
  <2> QED
    BY <1>1, <1>4, <2>1, <2>2, <2>3
<1>6. Running = {}
  BY <1>3, NoneRunning
<1>7. CASE exit[0]
  <2>1. Running' = Running
    BY <1>2, <1>3, <1>7, SameRunning
  <2> QED
    BY <1>1, <1>2, <1>5, <1>7, <2>1 DEF Dispenser!Drop, Exiting
<1>8. CASE ~exit[0]
  <2>1. Running' = {current}
    BY <1>1, <1>2, <1>3, <1>8 DEF Running, TypeOK
  <2> QED
    BY <1>1, <1>2, <1>5, <1>6, <2>1 DEF Dispenser!Take, Exiting
<1> QED
  BY <1>7, <1>8

LEMMA CallerRefines ==
  ASSUME DispenserInv, CallerStep
  PROVE  [Dispenser!Next]_(Dispenser!vars)
<1> USE DEF DispenserInv, IInv, SafeInv
<1>1. CASE Dispatch
  <2>1. /\ UNCHANGED <<id, exit, current, end, has_handler, thrown, outcome, raised>>
        /\ caller # "gone" /\ caller' # "gone"
        /\ \A i \in Thread : pc[i] = "unborn" /\ pc'[i] \notin {"test", "handling"}
    BY <1>1 DEF Dispatch, ControlInv, TypeOK, args, sharedVars, result, history
  <2>2. Todo' = Todo /\ Running' = Running
    BY <2>1, SameTodo, SameRunning
  <2> QED
    BY <2>1, <2>2, SameAbstraction
<1>2. CASE Spawn
  <2>1. /\ UNCHANGED <<id, exit, current, end, has_handler, caller, thrown, outcome, raised>>
        /\ pc[spawned] = "unborn" /\ pc'[spawned] \notin {"test", "handling"}
        /\ \A i \in Thread \ {spawned} : pc'[i] = pc[i]
    BY <1>2, ThreadAssumption
    DEF Spawn, SpawnWhile, ControlInv, TypeOK, Thread, args, sharedVars, result, history
  <2>2. Todo' = Todo /\ Running' = Running
    BY <2>1, SameTodo, SameRunning
  <2> QED
    BY <2>1, <2>2, SameAbstraction
<1>3. CASE SpawnedAll \/ Join
  <2>1. /\ UNCHANGED <<id, pc, exit, current, end, has_handler, thrown, outcome, raised>>
        /\ caller # "gone" /\ caller' # "gone"
    BY <1>3 DEF SpawnedAll, Join, JoinWhen, args, sharedVars, workerVars, result, history
  <2>2. Todo' = Todo /\ Running' = Running
    BY <2>1, SameTodo, SameRunning
  <2> QED
    BY <2>1, <2>2, SameAbstraction
<1>4. CASE RunDeferred
  <2>1. /\ UNCHANGED <<id, exit, current, end, has_handler, caller, thrown, outcome, raised>>
        /\ pc[joined] = "deferred" /\ pc' = [pc EXCEPT ![joined] = "fetch"]
    BY <1>4 DEF RunDeferred, args, callerVars, sharedVars, result, history
  <2>2. Todo' = Todo /\ Running' = Running
    BY <2>1, SameTodo, SameRunning DEF TypeOK
  <2> QED
    BY <2>1, <2>2, SameAbstraction
<1>5. SequentialStep => current \in Word
  BY DEF TypeOK
<1> QED
  BY <1>1, <1>2, <1>3, <1>4, <1>5, RejectHandlerRefines, ConcludeRefines, SequentialEndRefines,
     SequentialThrowRefines, SequentialStepRefines
  DEF CallerStep, Dispenser!Next

(* With room above the bounds and a core to run on, parallel_for is an      *)
(* index dispenser: every index is handed out, unless a handler asked to    *)
(* exit or threw, and the call ends when none is pending or handled.        *)
THEOREM ParallelForImplementsIndexDispenser ==
  ASSUME NoWrap, CoresKnown
  PROVE  Spec => ImplementsDispenser
<1>1. Init => Dispenser!Init
  <2> SUFFICES ASSUME Init PROVE Dispenser!Init
    OBVIOUS
  <2>1. Running = {} /\ ~Exiting /\ Todo \subseteq Word
    BY DEF Init, Running, Exiting, Todo
  <2> QED
    BY <2>1 DEF Init, Dispenser!Init
<1>2. DispenserInv /\ [Next]_vars => [Dispenser!Next]_(Dispenser!vars)
  <2> SUFFICES ASSUME DispenserInv, [Next]_vars PROVE [Dispenser!Next]_(Dispenser!vars)
    OBVIOUS
  <2>1. CASE UNCHANGED vars
    <3>1. /\ UNCHANGED <<id, pc, exit, current, end, has_handler, caller, thrown, outcome, raised>>
      BY <2>1 DEF vars, args, callerVars, sharedVars, workerVars, result, history
    <3>2. Todo' = Todo /\ Running' = Running
      BY <3>1, SameTodo, SameRunning
    <3> QED
      BY <3>1, <3>2, SameAbstraction
  <2> QED
    BY <2>1, CallerRefines, WorkerRefines DEF Next
<1> QED
  BY <1>1, <1>2, RefinementInvariant, PTL DEF Spec, ImplementsDispenser, Dispenser!Spec
===============================================================================
