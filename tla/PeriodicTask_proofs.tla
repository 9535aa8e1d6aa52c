------------------------- MODULE PeriodicTask_proofs -------------------------
(***************************************************************************)
(* Proofs about PeriodicTask: TaskInv is inductive, and the safety         *)
(* properties of stop() follow from it.                                    *)
(***************************************************************************)
EXTENDS PeriodicTask, TLAPS

(* The initial state satisfies the invariant.                              *)
LEMMA InitInv == Init => TaskInv
<1> SUFFICES ASSUME Init PROVE TaskInv
  OBVIOUS
<1>1. MaxRuns \in Nat
  BY TaskAssumption DEF TaskAssumption
<1>2. 0 \in 0..MaxRuns
  BY <1>1
<1>3. QED
  BY <1>2 DEF Init, TaskInv, TaskTypeOK, MutexHeld, StopBegun, NoThreadAfterStop

(* No step of the owner, of the thread or of time breaks it.               *)
LEMMA NextInv == TaskInv /\ [Next]_vars => TaskInv'
<1> SUFFICES ASSUME TaskInv, [Next]_vars PROVE TaskInv'
  OBVIOUS
<1>0. MaxRuns \in Nat
  BY TaskAssumption DEF TaskAssumption
<1> USE <1>0 DEF TaskInv, TaskTypeOK, MutexHeld, StopBegun, NoThreadAfterStop
<1>1. CASE RunLock
  BY <1>1 DEF RunLock
<1>2. CASE Spawn
  BY <1>2 DEF Spawn
<1>3. CASE Activate
  BY <1>3 DEF Activate
<1>4. CASE StopLock
  BY <1>4 DEF StopLock
<1>5. CASE StopClear
  BY <1>5 DEF StopClear, Clear
<1>6. CASE StopNotify
  BY <1>6 DEF StopNotify
<1>7. CASE StopJoin
  BY <1>7 DEF StopJoin, Joinable
<1>8. CASE ThreadStart
  BY <1>8 DEF ThreadStart, LoopOrExit
<1>9. CASE Wake
  BY <1>9 DEF Wake
<1>10. CASE AfterWake
  BY <1>10 DEF AfterWake, StopSeen
<1>11. CASE run_once
  BY <1>11 DEF run_once
<1>12. CASE Relock
  BY <1>12 DEF Relock, LoopOrExit
<1>13. CASE RelockStop
  BY <1>13 DEF RelockStop
<1>14. CASE Tick
  BY <1>14 DEF Tick
<1>15. CASE UNCHANGED vars
  BY <1>15 DEF vars
<1>16. CASE Stopped
  BY <1>15, <1>16 DEF Stopped
<1>17. QED
  BY <1>1, <1>2, <1>3, <1>4, <1>5, <1>6, <1>7, <1>8, <1>9, <1>10, <1>11, <1>12,
     <1>13, <1>14, <1>15, <1>16 DEF Next, OwnerStep, StopStep, TaskStep

(* The invariant holds of every behaviour.                                 *)
THEOREM Invariance == Spec => []TaskInv
<1>1. QED
  BY InitInv, NextInv, PTL DEF Spec

(* When stop() has returned the thread has ended, so run_once() is not     *)
(* called on a Notka object that is being destroyed.                       *)
THEOREM ThreadIsGoneAfterStop == Spec => []NoThreadAfterStop
<1>1. TaskInv => NoThreadAfterStop
  BY DEF TaskInv
<1>2. QED
  BY <1>1, Invariance, PTL

(* Once stop() has cleared the flag, run_once() is called at most once.    *)
THEOREM OneLateRun == Spec => []AtMostOneLateRun
<1>1. TaskInv => AtMostOneLateRun
  BY DEF TaskInv, TaskTypeOK, AtMostOneLateRun
<1>2. QED
  BY <1>1, Invariance, PTL

(* The thread does not miss that it was started.                           *)
THEOREM StartIsSeen == Spec => []StartedStaysActive
<1>1. TaskInv => StartedStaysActive
  BY DEF TaskInv, TaskTypeOK, StartedStaysActive
<1>2. QED
  BY <1>1, Invariance, PTL
=============================================================================
