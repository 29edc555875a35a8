----------------------------- MODULE Scheduler ------------------------------
(***************************************************************************)
(* CScheduler of src/src/scheduler.cpp: a queue of tasks in the order of   *)
(* their times, serviced by any number of threads that wait on one         *)
(* condition variable.                                                     *)
(*                                                                         *)
(* A region of code that holds newTaskMutex is one step, from the lock to  *)
(* the wait, the unlock or the return.  A notification that the code sends *)
(* after the unlock is a step of its own.  Tasks are names; what running   *)
(* one means is left to the modules that extend this one, in which the     *)
(* thread is at pc "run" until the task has returned.                      *)
(***************************************************************************)
EXTENDS Integers, Sequences, FiniteSets

CONSTANTS Threads,    \* the threads that call serviceQueue
          Timers,     \* tasks given to scheduleEvery
          Delta,      \* the interval of each
          MaxTime     \* bound: the clock stops here

ASSUME TimerAssumption ==
    IsFiniteSet(Timers) /\ Delta \in [Timers -> Nat \ {0}] /\ MaxTime \in Nat

VARIABLES
    taskQueue,        \* the multimap: records of time and f, sorted by time
    now,              \* system_clock::now()
    waiting,          \* threads inside newTaskScheduled.wait or wait_until
    stopRequested, stopWhenEmpty,
    nThreadsServicingQueue,
    interrupted,      \* threads reached by threadGroup.interrupt_all()
    pc,               \* where every thread is
    timeToWaitFor,    \* the time a thread passed to wait_until (0 elsewhere)
    task              \* the task a thread took ("none" in the loop)

schedVars == <<taskQueue, now, waiting, stopRequested, stopWhenEmpty,
               nThreadsServicingQueue, interrupted, timeToWaitFor, task>>

Goto(t, l) == pc' = [pc EXCEPT ![t] = l]

(* multimap::insert puts a task after the ones with the same time.         *)
Insert(q, f, at) ==
    LET n == Cardinality({i \in DOMAIN q : q[i].time <= at})
    IN SubSeq(q, 1, n) \o <<[time |-> at, f |-> f]>> \o SubSeq(q, n + 1, Len(q))

(* Fault for the mutation runs: a drain ends the threads at once.          *)
ShouldStopEarly == stopRequested \/ stopWhenEmpty

shouldStop == stopRequested \/ (stopWhenEmpty /\ taskQueue = <<>>)

(* notify_one wakes one of the threads that wait, if there is any.         *)
NotifyOne ==
    IF waiting = {} THEN UNCHANGED waiting
                    ELSE \E t \in waiting : waiting' = waiting \ {t}

(* Fault for the mutation runs: stop notifies nobody.                      *)
NotifyNobody == UNCHANGED waiting

NotifyAll == waiting' = {}

-----------------------------------------------------------------------------
(* serviceQueue.  pc: "start", not yet called; "seed", in RandAddSeedSleep *)
(* with the mutex free; "wait" and "timed", in wait and in wait_until;     *)
(* "run", in f(); "top", f() returned; "gone", left serviceQueue.          *)

(* The head of the outer loop with n threads counted: leave, find the      *)
(* queue empty, or wait for the time of the first task.                    *)
Top(t, n) ==
    /\ \/ /\ shouldStop
          /\ Goto(t, "gone")
          /\ nThreadsServicingQueue' = n - 1
          /\ NotifyOne
          /\ timeToWaitFor' = [timeToWaitFor EXCEPT ![t] = 0]
       \/ /\ ~shouldStop /\ taskQueue = <<>>
          /\ Goto(t, "seed")
          /\ nThreadsServicingQueue' = n
          /\ timeToWaitFor' = [timeToWaitFor EXCEPT ![t] = 0]
          /\ UNCHANGED waiting
       \/ /\ ~shouldStop /\ taskQueue # <<>>
          /\ Goto(t, "timed")
          /\ waiting' = waiting \cup {t}
          /\ timeToWaitFor' = [timeToWaitFor EXCEPT ![t] = Head(taskQueue).time]
          /\ nThreadsServicingQueue' = n
    /\ task' = [task EXCEPT ![t] = "none"]
    /\ UNCHANGED <<taskQueue, now, stopRequested, stopWhenEmpty, interrupted>>

Enter(t) == pc[t] = "start" /\ Top(t, nThreadsServicingQueue + 1)
Again(t) == pc[t] = "top" /\ Top(t, nThreadsServicingQueue)

(* The loop that waits while the queue is empty.                           *)
Await(t) ==
    IF ~shouldStop /\ taskQueue = <<>>
    THEN /\ Goto(t, "wait")
         /\ waiting' = waiting \cup {t}
         /\ UNCHANGED <<taskQueue, now, stopRequested, stopWhenEmpty,
                        nThreadsServicingQueue, interrupted, timeToWaitFor, task>>
    ELSE Top(t, nThreadsServicingQueue)

Seeded(t) == pc[t] = "seed" /\ Await(t)
Woken(t)  == pc[t] = "wait" /\ t \notin waiting \cup interrupted /\ Await(t)

(* A wait ends: without a cause, or because its time has come.             *)
Wake(t) ==
    /\ t \in waiting
    /\ waiting' = waiting \ {t}
    /\ UNCHANGED <<taskQueue, now, stopRequested, stopWhenEmpty,
                   nThreadsServicingQueue, interrupted, timeToWaitFor, task, pc>>

TimedOut(t) == pc[t] = "timed" /\ now >= timeToWaitFor[t] /\ Wake(t)

TakeFirst(t) ==
    /\ task' = [task EXCEPT ![t] = Head(taskQueue).f]
    /\ taskQueue' = Tail(taskQueue)
    /\ Goto(t, "run")
    /\ timeToWaitFor' = [timeToWaitFor EXCEPT ![t] = 0]
    /\ UNCHANGED <<now, waiting, stopRequested, stopWhenEmpty, nThreadsServicingQueue,
                   interrupted>>

(* wait_until returns.  Before its time the thread looks at the queue      *)
(* again; after it, it takes the task that is now the first one.           *)
Resumed(t) ==
    /\ pc[t] = "timed" /\ t \notin waiting \cup interrupted
    /\ IF now < timeToWaitFor[t] \/ shouldStop \/ taskQueue = <<>>
       THEN Top(t, nThreadsServicingQueue)
       ELSE TakeFirst(t)

(* boost::thread_interrupted leaves a sleep or a wait, and is rethrown.    *)
Interrupted(t) ==
    /\ pc[t] \in {"seed", "wait", "timed"} /\ t \in interrupted
    /\ waiting' = waiting \ {t}
    /\ nThreadsServicingQueue' = nThreadsServicingQueue - 1
    /\ timeToWaitFor' = [timeToWaitFor EXCEPT ![t] = 0]
    /\ Goto(t, "gone")
    /\ UNCHANGED <<taskQueue, now, stopRequested, stopWhenEmpty, interrupted, task>>

ServiceStep(t) ==
    Enter(t) \/ Again(t) \/ Seeded(t) \/ Woken(t) \/ TimedOut(t) \/ Resumed(t) \/ Interrupted(t)

-----------------------------------------------------------------------------
(* What other threads do.  pc "notify": newTaskMutex is released again and *)
(* the notification is still to be sent.                                   *)

schedule(p, f, at) ==
    /\ taskQueue' = Insert(taskQueue, f, at)
    /\ Goto(p, "notify")
    /\ UNCHANGED <<now, waiting, stopRequested, stopWhenEmpty, nThreadsServicingQueue,
                   interrupted, timeToWaitFor, task>>

Notify(p, next) ==
    /\ pc[p] = "notify"
    /\ NotifyOne
    /\ Goto(p, next)
    /\ UNCHANGED <<taskQueue, now, stopRequested, stopWhenEmpty, nThreadsServicingQueue,
                   interrupted, timeToWaitFor, task>>

(* Repeat: the predicate runs and, while it holds, the task is scheduled   *)
(* again.  Here it holds as long as the clock still reaches that time.     *)
Repeat(t, next) ==
    /\ pc[t] = "run" /\ task[t] \in Timers
    /\ IF now + Delta[task[t]] <= MaxTime
       THEN schedule(t, task[t], now + Delta[task[t]])
       ELSE Goto(t, next) /\ UNCHANGED schedVars

Tick ==
    /\ now < MaxTime
    /\ now' = now + 1
    /\ UNCHANGED <<taskQueue, waiting, stopRequested, stopWhenEmpty, nThreadsServicingQueue,
                   interrupted, timeToWaitFor, task, pc>>

(* Every task is moved forward, and one thread is notified.                *)
MockForward ==
    /\ \E i \in DOMAIN taskQueue : taskQueue[i].time > now
    /\ taskQueue' = [i \in DOMAIN taskQueue |->
                        [taskQueue[i] EXCEPT !.time = taskQueue[i].time - 1]]
    /\ NotifyOne
    /\ UNCHANGED <<now, stopRequested, stopWhenEmpty, nThreadsServicingQueue, interrupted,
                   timeToWaitFor, task, pc>>

stop(drain) ==
    /\ IF drain THEN stopWhenEmpty' = TRUE /\ UNCHANGED stopRequested
                ELSE stopRequested' = TRUE /\ UNCHANGED stopWhenEmpty
    /\ UNCHANGED <<taskQueue, now, waiting, nThreadsServicingQueue, interrupted,
                   timeToWaitFor, task>>

(* Before the threads start, the timers are scheduled for their first      *)
(* interval and nothing else is in the queue.                              *)
InitScheduler ==
    /\ taskQueue \in [1..Cardinality(Timers) -> {[time |-> Delta[f], f |-> f] : f \in Timers}]
    /\ \A f \in Timers : \E i \in DOMAIN taskQueue : taskQueue[i].f = f
    /\ \A i, j \in DOMAIN taskQueue : i < j => taskQueue[i].time <= taskQueue[j].time
    /\ now = 0 /\ waiting = {}
    /\ stopRequested = FALSE /\ stopWhenEmpty = FALSE
    /\ nThreadsServicingQueue = 0 /\ interrupted = {}
    /\ timeToWaitFor = [t \in Threads |-> 0]
=============================================================================
