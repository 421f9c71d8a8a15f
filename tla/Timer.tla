-------------------------------- MODULE Timer --------------------------------
(***************************************************************************)
(* common/timer.h: a thread that calls a handler at every interval, and    *)
(* the owner that constructs the timer, starts it and destroys it.  They   *)
(* share is_running_, the mutex and the condition variable, on which the   *)
(* thread sleeps in wait_for: that call tests is_running_ before it        *)
(* sleeps and after every wake-up, and returns when the interval is over   *)
(* or is_running_ is false.  A wake-up may be spurious.                    *)
(***************************************************************************)
EXTENDS Naturals

CONSTANT MaxCalls  \* bound on the number of handler calls counted

ASSUME TimerAssumption == MaxCalls \in Nat \ {0}

VARIABLES owner,      \* where the owner is
          thread,     \* where the timer thread is
          phase,      \* which wait_for the thread is in: the first, or the loop's
          mutex,      \* who holds mtx_
          isRunning,  \* is_running_
          expired,    \* is the interval of the current wait_for over?
          intervals,  \* intervals that have passed since the last call, up to 2
          calls       \* handler calls, up to MaxCalls

ownerVars == <<owner, isRunning>>
threadVars == <<phase, expired, intervals, calls>>
timerVars == <<owner, thread, phase, mutex, isRunning, expired, intervals, calls>>

OwnerAt == {"constructed", "started", "stopping", "unlocking", "notifying",
            "joining", "destroyed"}
ThreadAt == {"none", "locking", "waiting", "asleep", "woken", "returned",
             "handler", "exited"}

\* Where the thread holds the mutex.
Holding == {"waiting", "returned", "handler"}

-----------------------------------------------------------------------------
(* The owner. *)

Start ==
  /\ owner = "constructed"
  /\ owner' = "started" /\ thread' = "locking"
  /\ UNCHANGED <<mutex, isRunning, threadVars>>

\* Mutant of LockToStop: is_running_ is an atomic, so do without the mutex.
StopWithoutLock ==
  /\ owner \in {"constructed", "started"}
  /\ owner' = "stopping"
  /\ UNCHANGED <<thread, mutex, isRunning, threadVars>>

\* ~Timer, of a timer that was started or not.
LockToStop ==
  /\ owner \in {"constructed", "started"} /\ mutex = "free"
  /\ owner' = "stopping" /\ mutex' = "owner"
  /\ UNCHANGED <<thread, isRunning, threadVars>>

StopRunning ==
  /\ owner = "stopping"
  /\ owner' = "unlocking" /\ isRunning' = FALSE
  /\ UNCHANGED <<thread, mutex, threadVars>>

UnlockStopped ==
  /\ owner = "unlocking"
  /\ owner' = "notifying" /\ mutex' = "free"
  /\ UNCHANGED <<thread, isRunning, threadVars>>

\* notify_all wakes the thread only if it is asleep by now.
Notify ==
  /\ owner = "notifying"
  /\ owner' = "joining"
  /\ thread' = IF thread = "asleep" THEN "woken" ELSE thread
  /\ UNCHANGED <<mutex, isRunning, threadVars>>

Join ==
  /\ owner = "joining" /\ thread \in {"none", "exited"}
  /\ owner' = "destroyed"
  /\ UNCHANGED <<thread, mutex, isRunning, threadVars>>

-----------------------------------------------------------------------------
(* The thread. *)

Lock ==
  /\ thread = "locking" /\ mutex = "free"
  /\ thread' = "waiting" /\ mutex' = "thread"
  /\ UNCHANGED <<ownerVars, threadVars>>

\* Mutant of Wait: the predicate is not tested before sleeping.
WaitWithoutTest ==
  /\ thread = "waiting"
  /\ thread' = "asleep" /\ mutex' = "free" /\ expired' = FALSE
  /\ UNCHANGED <<ownerVars, phase, intervals, calls>>

\* wait_for tests its predicate, then sleeps and releases the mutex at once.
Wait ==
  /\ thread = "waiting"
  /\ IF isRunning THEN thread' = "asleep" /\ mutex' = "free"
                  ELSE thread' = "returned" /\ UNCHANGED mutex
  /\ expired' = FALSE
  /\ UNCHANGED <<ownerVars, phase, intervals, calls>>

IntervalPasses ==
  /\ thread = "asleep"
  /\ thread' = "woken" /\ expired' = TRUE
  /\ intervals' = IF intervals < 2 THEN intervals + 1 ELSE 2
  /\ UNCHANGED <<ownerVars, mutex, phase, calls>>

SpuriousWakeup ==
  /\ thread = "asleep"
  /\ thread' = "woken"
  /\ UNCHANGED <<ownerVars, mutex, threadVars>>

\* Mutant of Reacquire: wait_for without a predicate returns on any wake-up.
ReacquireAndReturn ==
  /\ thread = "woken" /\ mutex = "free"
  /\ thread' = "returned" /\ mutex' = "thread"
  /\ UNCHANGED <<ownerVars, threadVars>>

\* Awake, it takes the mutex back and returns, or goes back to sleep.
Reacquire ==
  /\ thread = "woken" /\ mutex = "free"
  /\ IF expired \/ ~isRunning THEN thread' = "returned" /\ mutex' = "thread"
                              ELSE thread' = "asleep" /\ UNCHANGED mutex
  /\ UNCHANGED <<ownerVars, threadVars>>

Exit ==
  /\ thread = "returned" /\ ~isRunning
  /\ thread' = "exited" /\ mutex' = "free"
  /\ UNCHANGED <<ownerVars, threadVars>>

\* After the first wait_for the loop is entered, and waits again.
EnterLoop ==
  /\ thread = "returned" /\ phase = "delay" /\ isRunning
  /\ thread' = "waiting" /\ phase' = "loop"
  /\ UNCHANGED <<ownerVars, mutex, expired, intervals, calls>>

\* The handler is called with the mutex held.
CallHandler ==
  /\ thread = "returned" /\ phase = "loop" /\ isRunning
  /\ thread' = "handler"
  /\ UNCHANGED <<ownerVars, mutex, threadVars>>

HandlerReturns ==
  /\ thread = "handler"
  /\ thread' = IF isRunning THEN "waiting" ELSE "exited"
  /\ mutex' = IF isRunning THEN mutex ELSE "free"
  /\ intervals' = 0
  /\ calls' = IF calls < MaxCalls THEN calls + 1 ELSE MaxCalls
  /\ UNCHANGED <<ownerVars, phase, expired>>

-----------------------------------------------------------------------------
TimerInit ==
  /\ owner = "constructed" /\ thread = "none" /\ phase = "delay"
  /\ mutex = "free" /\ isRunning = TRUE
  /\ expired = FALSE /\ intervals = 0 /\ calls = 0

OwnerNext == Start \/ LockToStop \/ StopRunning \/ UnlockStopped \/ Notify \/ Join

ThreadNext ==
  \/ Lock \/ Wait \/ IntervalPasses \/ SpuriousWakeup \/ Reacquire
  \/ Exit \/ EnterLoop \/ CallHandler \/ HandlerReturns

TimerNext == OwnerNext \/ ThreadNext

TimerSpec == TimerInit /\ [][TimerNext]_timerVars

(***************************************************************************)
(* Both threads run and the handler returns.  The owner that waits for the *)
(* mutex gets it, since the thread leaves it free for an interval in every *)
(* round; the thread gets it back, since the owner takes it once.  Nothing *)
(* is assumed about the interval: a destructor must not have to wait for   *)
(* it.                                                                     *)
(***************************************************************************)
FairSpec ==
  /\ TimerSpec
  /\ SF_timerVars(LockToStop)
  /\ WF_timerVars(StopRunning \/ UnlockStopped \/ Notify \/ Join)
  /\ WF_timerVars(Lock \/ Wait \/ Reacquire \/ Exit \/ EnterLoop \/ CallHandler \/ HandlerReturns)

-----------------------------------------------------------------------------
TimerTypeOK ==
  /\ owner \in OwnerAt /\ thread \in ThreadAt
  /\ phase \in {"delay", "loop"}
  /\ mutex \in {"free", "owner", "thread"}
  /\ isRunning \in BOOLEAN /\ expired \in BOOLEAN
  /\ intervals \in 0..2 /\ calls \in 0..MaxCalls

(***************************************************************************)
(* Once the destructor has stopped the timer, the handler does not run:    *)
(* what it refers to may be destroyed next.                                *)
(***************************************************************************)
NoCallAfterStop ==
  owner \in {"unlocking", "notifying", "joining", "destroyed"} => thread # "handler"

(***************************************************************************)
(* The handler is called an interval after the last call at the earliest,  *)
(* and two intervals after the start: "Delay to avoid first dead result"   *)
(* (timer.h:37).                                                           *)
(***************************************************************************)
HandlerPaced == thread = "handler" => intervals >= IF calls = 0 THEN 2 ELSE 1

(***************************************************************************)
(* A destructor returns, even if the interval never ends: the notification *)
(* is never lost between the thread's test of is_running_ and its sleep.   *)
(***************************************************************************)
DestructorReturns == owner = "stopping" ~> owner = "destroyed"
=============================================================================
