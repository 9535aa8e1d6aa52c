----------------------------- MODULE PeriodicTask -----------------------------
(***************************************************************************)
(* PeriodicTask: a thread that calls run_once() once per interval, and the *)
(* owner that starts it (the constructor calls run()) and stops it (~Notka *)
(* calls stop()). The two share the flag active under a std::mutex, and    *)
(* the condition variable should_stop, on which the thread sleeps with the *)
(* mutex released. Time is the flag due, set when the interval is over; a  *)
(* wait may also end for no reason at all.                                 *)
(***************************************************************************)
EXTENDS Naturals

CONSTANT MaxRuns  \* bound: intervals that pass

ASSUME TaskAssumption == MaxRuns \in Nat

VARIABLES
    mutex,    \* holder: free, owner or task
    active,   \* PeriodicTask::active
    owner,    \* where the owner of the task is
    task,     \* where the task's thread is
    notified, \* the thread was waiting when notify_one() was called
    due,      \* the interval is over
    ticks,    \* intervals passed
    runs      \* history: calls of run_once(), counted anew once active is cleared

vars == <<mutex, active, owner, task, notified, due, ticks, runs>>

Init ==
    /\ mutex = "free"
    /\ active = FALSE
    /\ owner = "new"
    /\ task = "none"
    /\ notified = FALSE
    /\ due = FALSE
    /\ ticks = 0
    /\ runs = 0

-----------------------------------------------------------------------------
(* The owner.                                                              *)

\* run() locks the mutex; had the task been active it would return.
RunLock ==
    /\ owner = "new"
    /\ mutex = "free"
    /\ ~active
    /\ mutex' = "owner"
    /\ owner' = "spawn"
    /\ UNCHANGED <<active, task, notified, due, ticks, runs>>

\* The thread is created while active is still false ...
Spawn ==
    /\ owner = "spawn"
    /\ task' = "lock"
    /\ owner' = "activate"
    /\ UNCHANGED <<mutex, active, notified, due, ticks, runs>>

\* ... and cannot look at it before run() returns.
Activate ==
    /\ owner = "activate"
    /\ active' = TRUE
    /\ mutex' = "free"
    /\ owner' = "running"
    /\ UNCHANGED <<task, notified, due, ticks, runs>>

\* stop() locks the mutex, ...
StopLock ==
    /\ owner = "running"
    /\ mutex = "free"
    /\ mutex' = "owner"
    /\ owner' = "clear"
    /\ UNCHANGED <<active, task, notified, due, ticks, runs>>

\* ... clears active and unlocks it, ...
ClearKept == active
Clear == FALSE
StopClear ==
    /\ owner = "clear"
    /\ active' = Clear
    /\ mutex' = "free"
    /\ owner' = "notify"
    /\ runs' = 0
    /\ UNCHANGED <<task, notified, due, ticks>>

\* ... wakes the thread, if it waits now (a notification is not kept), ...
StopNotify ==
    /\ owner = "notify"
    /\ notified' = (task = "wait")
    /\ owner' = "join"
    /\ UNCHANGED <<mutex, active, task, due, ticks, runs>>

\* ... and joins it.
Joinable == task = "exited"
StopJoin ==
    /\ owner = "join"
    /\ Joinable
    /\ owner' = "stopped"
    /\ UNCHANGED <<mutex, active, task, notified, due, ticks, runs>>

-----------------------------------------------------------------------------
(* The thread.                                                             *)

\* The top of while (active), with the mutex held: to the wait, or out.
LoopOrExit ==
    IF active THEN task' = "wait" /\ mutex' = "free"
              ELSE task' = "exited" /\ mutex' = "free"

\* The thread starts without the mutex.
ThreadStartUnlocked ==
    /\ task = "lock"
    /\ task' = IF active THEN "wait" ELSE "exited"
    /\ UNCHANGED <<mutex, active, owner, notified, due, ticks, runs>>

\* The thread starts. wait_for() releases the mutex as it goes to sleep.
ThreadStart ==
    /\ task = "lock"
    /\ mutex = "free"
    /\ LoopOrExit
    /\ UNCHANGED <<active, owner, notified, due, ticks, runs>>

\* The wait ends without the mutex.
WakeUnlocked ==
    /\ task = "wait"
    /\ notified' = FALSE
    /\ task' = "woken"
    /\ UNCHANGED <<mutex, active, owner, due, ticks, runs>>

\* wait_for() returns: notified, at the end of the interval, or spuriously.
Wake ==
    /\ task = "wait"
    /\ mutex = "free"
    /\ notified' = FALSE
    /\ mutex' = "task"
    /\ task' = "woken"
    /\ UNCHANGED <<active, owner, due, ticks, runs>>

\* The flag comes before the clock.
StopSeenIgnored == FALSE
StopSeen == ~active
AfterWake ==
    /\ task = "woken"
    /\ mutex' = "free"
    /\ task' = IF StopSeen THEN "exited" ELSE IF due THEN "run" ELSE "wait"
    /\ due' = (due /\ StopSeen)
    /\ UNCHANGED <<active, owner, notified, ticks, runs>>

\* run_once(), with the mutex released; it may tell the loop to end.
run_once ==
    /\ task = "run"
    /\ task' \in {"relock", "relock_stop"}
    /\ runs' = runs + 1
    /\ UNCHANGED <<mutex, active, owner, notified, due, ticks>>

Relock ==
    /\ task = "relock"
    /\ mutex = "free"
    /\ LoopOrExit
    /\ UNCHANGED <<active, owner, notified, due, ticks, runs>>

RelockStop ==
    /\ task = "relock_stop"
    /\ mutex = "free"
    /\ active' = FALSE
    /\ task' = "exited"
    /\ UNCHANGED <<mutex, owner, notified, due, ticks, runs>>

-----------------------------------------------------------------------------
Tick ==
    /\ ticks < MaxRuns
    /\ ticks' = ticks + 1
    /\ due' = TRUE
    /\ UNCHANGED <<mutex, active, owner, task, notified, runs>>

Stopped ==
    /\ owner = "stopped"
    /\ UNCHANGED vars

StopStep == StopClear \/ StopNotify \/ StopJoin
OwnerStep == RunLock \/ Spawn \/ Activate \/ StopLock \/ StopStep
\* What a thread does by itself, and the wait that ends for a reason.
TaskStep ==
    \/ ThreadStart \/ AfterWake \/ run_once \/ Relock \/ RelockStop
    \/ (notified \/ due) /\ Wake

Next == OwnerStep \/ TaskStep \/ Wake \/ Tick \/ Stopped

Spec == Init /\ [][Next]_vars

(***************************************************************************)
(* The thread runs; stop(), once it has the mutex, runs to its end. Nobody *)
(* has to call stop(), time may stand still, and no spurious wake-up is    *)
(* counted on: only the notification ends the last wait.                   *)
(***************************************************************************)
FairSpec == Spec /\ WF_vars(TaskStep) /\ WF_vars(StopStep)

-----------------------------------------------------------------------------
(* Properties.                                                             *)

TaskTypeOK ==
    /\ mutex \in {"free", "owner", "task"}
    /\ active \in BOOLEAN
    /\ owner \in {"new", "spawn", "activate", "running", "clear", "notify",
                  "join", "stopped"}
    /\ task \in {"none", "lock", "wait", "woken", "run", "relock",
                 "relock_stop", "exited"}
    /\ notified \in BOOLEAN
    /\ due \in BOOLEAN
    /\ ticks \in 0..MaxRuns
    /\ runs \in Nat

(* The mutex guards the flag: whoever is in a critical section holds it.   *)
MutexHeld ==
    /\ mutex = "owner" <=> owner \in {"spawn", "activate", "clear"}
    /\ mutex = "task" <=> task = "woken"

(* run_once() uses the Notka object: when stop() has returned, and Notka   *)
(* goes on to destroy itself, the thread is gone.                          *)
NoThreadAfterStop == owner = "stopped" => task = "exited"

(* After stop() cleared the flag run_once() is called at most once more: a *)
(* call the thread had already decided on.                                 *)
StopBegun == owner \in {"notify", "join", "stopped"}
AtMostOneLateRun == StopBegun => runs <= 1

(* The thread cannot miss that it was started: between run() and stop() it *)
(* ends only when a run_once() told it to.                                 *)
StartedStaysActive ==
    owner = "running" => IF task = "exited" THEN runs >= 1 ELSE active

(* The invariant the theorems rest on: types, the mutex, and what is left  *)
(* of the thread's life before it is started, while it runs and once stop  *)
(* has begun.                                                              *)
TaskInv ==
    /\ TaskTypeOK
    /\ MutexHeld
    /\ owner \in {"new", "spawn"} => task = "none" /\ ~active
    /\ owner = "activate" => task = "lock" /\ ~active
    /\ owner \in {"running", "clear"} =>
          /\ task # "none"
          /\ active <=> task # "exited"
          /\ task \in {"exited", "relock", "relock_stop"} => runs >= 1
    /\ StopBegun =>
          /\ task # "none"
          /\ ~active
          /\ runs = 0 \/ (runs = 1 /\ task \in {"relock", "relock_stop", "exited"})
    /\ NoThreadAfterStop

(* stop() returns: its wake-up cannot be lost, wherever the thread is.     *)
StopReturns == owner = "clear" ~> owner = "stopped"
=============================================================================
