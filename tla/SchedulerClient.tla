-------------------------- MODULE SchedulerClient ---------------------------
(***************************************************************************)
(* SingleThreadedSchedulerClient of src/src/scheduler.cpp: a queue of      *)
(* callbacks, run one at a time by tasks "ProcessQueue" of the scheduler.  *)
(* A region that holds m_cs_callbacks_pending is one step.  Callbacks are  *)
(* numbered in the order in which they are added.                          *)
(***************************************************************************)
EXTENDS Scheduler

CONSTANTS Adders,        \* the threads that call AddToProcessQueue
          Main,          \* the thread of Shutdown, which calls EmptyQueue
          MaxCallbacks   \* bound: callbacks added

ASSUME ProcsAssumption ==
    /\ IsFiniteSet(Threads) /\ Threads # {}
    /\ Threads \cap Adders = {} /\ Main \notin Threads \cup Adders
    /\ "ProcessQueue" \notin Timers
    /\ MaxCallbacks \in Nat

Procs   == Threads \cup Adders \cup {Main}
Runners == Threads \cup {Main}
Tasks   == Timers \cup {"ProcessQueue"}

VARIABLES
    m_callbacks_pending,
    m_are_callbacks_running,
    callback,             \* the callback that a thread in ProcessQueue took
    nAdded                \* callbacks added so far

clientVars == <<m_callbacks_pending, m_are_callbacks_running, callback, nAdded>>

(* Where a thread goes on after the call it makes here.                    *)
Home(p) == IF p \in Threads THEN "top" ELSE IF p = Main THEN "flush" ELSE "idle"

(* Fault for the mutation runs: a callback that runs does not matter.      *)
QueueEmpty == m_callbacks_pending = <<>>

(* The test of MaybeScheduleProcessQueue and of ProcessQueue.              *)
NothingToRun == m_are_callbacks_running \/ m_callbacks_pending = <<>>

(* MaybeScheduleProcessQueue: the test, and then, with                     *)
(* m_cs_callbacks_pending free again, the call of schedule.                *)
MaybeScheduleProcessQueue(p) ==
    /\ pc[p] = "maybe"
    /\ Goto(p, IF NothingToRun THEN Home(p) ELSE "schedule")
    /\ UNCHANGED <<schedVars, clientVars>>

ScheduleProcessQueue(p) ==
    /\ pc[p] = "schedule"
    /\ schedule(p, "ProcessQueue", now)
    /\ UNCHANGED clientVars

AddToProcessQueue(p) ==
    /\ nAdded < MaxCallbacks
    /\ m_callbacks_pending' = Append(m_callbacks_pending, nAdded + 1)
    /\ nAdded' = nAdded + 1
    /\ Goto(p, "maybe")
    /\ UNCHANGED <<schedVars, m_are_callbacks_running, callback>>

(* ProcessQueue up to the call of the callback, which runs at pc           *)
(* "callback".                                                             *)
ProcessQueue(p) ==
    /\ pc[p] = "run" /\ task[p] = "ProcessQueue"
    /\ IF NothingToRun
       THEN Goto(p, Home(p)) /\ UNCHANGED clientVars
       ELSE /\ m_are_callbacks_running' = TRUE
            /\ callback' = [callback EXCEPT ![p] = Head(m_callbacks_pending)]
            /\ m_callbacks_pending' = Tail(m_callbacks_pending)
            /\ Goto(p, "callback")
            /\ UNCHANGED nAdded
    /\ UNCHANGED schedVars

(* The destructor of RAIICallbacksRunning.                                 *)
CallbacksNotRunning(p) ==
    /\ m_are_callbacks_running' = FALSE
    /\ callback' = [callback EXCEPT ![p] = 0]
    /\ Goto(p, "maybe")
    /\ UNCHANGED <<schedVars, m_callbacks_pending, nAdded>>

ClientStep(p) ==
    \/ MaybeScheduleProcessQueue(p)
    \/ ScheduleProcessQueue(p)
    \/ Notify(p, Home(p)) /\ UNCHANGED clientVars

InitClient ==
    /\ m_callbacks_pending = <<>>
    /\ m_are_callbacks_running = FALSE
    /\ callback = [t \in Runners |-> 0]
    /\ nAdded = 0

-----------------------------------------------------------------------------
(* Who runs a callback, and which one.                                     *)
Executing == {t \in Runners : pc[t] \in {"callback", "slot"}}
current   == IF Executing = {} THEN 0 ELSE callback[CHOOSE t \in Executing : TRUE]
Queue     == INSTANCE CallbackQueue WITH pending <- m_callbacks_pending, added <- nAdded
=============================================================================
