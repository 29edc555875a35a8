----------------------------- MODULE CheckQueue -----------------------------
(***************************************************************************)
(* The parallel verification queue of src/src/checkqueue.h.  A master      *)
(* (the thread that connects a block, validation.cpp ConnectBlock) takes   *)
(* the ControlMutex, adds batches of script checks, and then joins the     *)
(* pool of workers in Loop(true) until every check is accounted for.       *)
(*                                                                         *)
(* A region of the code that holds CCheckQueue::mutex is one step here:    *)
(* from the lock to the wait, the return or the unlock.  The queue is a    *)
(* stack in the code, whose comment says that the order does not matter;   *)
(* here it is a set, and a batch is any subset of the right size.          *)
(***************************************************************************)
EXTENDS Integers, FiniteSets

CONSTANTS Masters,      \* threads that may connect blocks
          Workers,      \* ThreadScriptCheck threads
          Checks,       \* the CScriptCheck objects of one session
          BatchSize,    \* nBatchSize
          NoThread      \* ControlMutex is free

Threads == Masters \cup Workers

ASSUME ThreadsAssumption ==
    /\ IsFiniteSet(Masters) /\ IsFiniteSet(Workers)
    /\ Masters \cap Workers = {}
    /\ NoThread \notin Masters
ASSUME ChecksAssumption == IsFiniteSet(Checks)
ASSUME BatchAssumption == BatchSize \in Nat \ {0}

VARIABLES
    controlMutex,   \* the holder of ControlMutex
    queue,          \* checks not yet taken by a thread
    nIdle,          \* threads waiting on a condition variable
    nTotal,         \* threads inside Loop
    nTodo,          \* checks added and not yet accounted for
    fAllOk,         \* the verdict so far
    pc,             \* where each thread is
    vChecks,        \* the part of a thread's batch it has not executed
    nNow,           \* the size of a thread's last batch
    fOk,            \* the verdict of a thread on its batch
    verdict,        \* what Wait() returned to a master
    interrupted,    \* threads that threadGroup.interrupt_all() has reached
    added, bad, ran,\* history of the session: checks added, the ones that
                    \* fail when executed, and the ones executed
    batch           \* history: the checks nNow counts, until accounted for

shared  == <<queue, nIdle, nTotal, nTodo, fAllOk>>
locals  == <<vChecks, nNow, fOk>>
history == <<added, bad, ran>>
vars    == <<controlMutex, shared, pc, locals, verdict, interrupted, history, batch>>

(* "out": not in a session (a master) or not started (a worker).           *)
(* "adding": the master holds a CCheckQueueControl.  "lock": about to take *)
(* the mutex at the top of Loop's do.  "wait"/"woken": inside cond.wait.   *)
(* "run": executing its batch without the mutex.  "done": Wait() returned. *)
(* "gone": a worker that an interruption ended.                            *)
PCs == {"out", "adding", "lock", "wait", "woken", "run", "done", "gone"}

Init ==
    /\ controlMutex = NoThread
    /\ queue = {} /\ nIdle = 0 /\ nTotal = 0 /\ nTodo = 0 /\ fAllOk = TRUE
    /\ pc = [t \in Threads |-> "out"]
    /\ vChecks = [t \in Threads |-> {}]
    /\ nNow = [t \in Threads |-> 0]
    /\ fOk = [t \in Threads |-> TRUE]
    /\ verdict = [m \in Masters |-> TRUE]
    /\ interrupted = {}
    /\ added = {} /\ bad = {} /\ ran = {}
    /\ batch = [t \in Threads |-> {}]

-----------------------------------------------------------------------------
(* The master's side: CCheckQueueControl and Add.                          *)

(* CCheckQueueControl's constructor.                                       *)
Enter(m) ==
    /\ pc[m] = "out"
    /\ controlMutex = NoThread
    /\ controlMutex' = m
    /\ pc' = [pc EXCEPT ![m] = "adding"]
    /\ added' = {} /\ bad' = {} /\ ran' = {}
    /\ UNCHANGED <<shared, locals, verdict, interrupted, batch>>

(* condWorker: notify_one for one check, notify_all for more.              *)
Notified(n, woken) ==
    LET waiting == {w \in Workers : pc[w] = "wait"} IN
    IF n = 1 THEN IF waiting = {} THEN woken = {}
                                  ELSE \E w \in waiting : woken = {w}
             ELSE woken = waiting

(* Add(S), where the checks in B will fail when they are executed.         *)
Add(m, S, B) ==
    /\ pc[m] = "adding"
    /\ S # {}
    /\ queue' = queue \cup S
    /\ nTodo' = nTodo + Cardinality(S)
    /\ \E woken \in SUBSET Workers :
          /\ Notified(Cardinality(S), woken)
          /\ pc' = [t \in Threads |-> IF t \in woken THEN "woken" ELSE pc[t]]
    /\ added' = added \cup S
    /\ bad' = bad \cup B
    /\ UNCHANGED <<controlMutex, nIdle, nTotal, fAllOk, locals, verdict,
                   interrupted, ran, batch>>

(* Wait() of the master, or Thread() of a worker, enters Loop.             *)
EnterLoop(t) ==
    /\ pc[t] = IF t \in Masters THEN "adding" ELSE "out"
    /\ pc' = [pc EXCEPT ![t] = "lock"]
    /\ nNow' = [nNow EXCEPT ![t] = 0]
    /\ fOk' = [fOk EXCEPT ![t] = TRUE]
    /\ UNCHANGED <<controlMutex, shared, vChecks, verdict, interrupted,
                   history, batch>>

(* ~CCheckQueueControl, after Wait.                                        *)
Leave(m) ==
    /\ pc[m] = "done"
    /\ controlMutex' = NoThread
    /\ pc' = [pc EXCEPT ![m] = "out"]
    /\ UNCHANGED <<shared, locals, verdict, interrupted, history,
                   batch>>

-----------------------------------------------------------------------------
(* Loop.  A thread that gets the mutex at "lock" first accounts for its    *)
(* last batch, or counts itself in; one that is "woken" left cond.wait and *)
(* only stops being idle.                                                  *)
HasMutex(t) == pc[t] \in {"lock", "woken"}

(* Faults for the mutation runs: a batch's result is dropped, nTodo counts  *)
(* queued checks only, a wakeup accounts for the batch a second time, and  *)
(* the last worker forgets the master.                                     *)
AllOkDropsBatch(t) == fAllOk
TodoQueuedOnly(t)  == Cardinality(queue)
TodoTwice(t)       == nTodo - nNow[t]
PcNoNotify(t)      == pc

AllOkAfter(t) == fAllOk /\ (pc[t] = "lock" => fOk[t])
TodoAfter(t)  == IF pc[t] = "lock" THEN nTodo - nNow[t] ELSE nTodo
TotalAfter(t) == IF pc[t] = "lock" /\ nNow[t] = 0 THEN nTotal + 1 ELSE nTotal
IdleAfter(t)  == IF pc[t] = "woken" THEN nIdle - 1 ELSE nIdle

(* A worker that accounts for the last element notifies the master.        *)
PcAfter(t) ==
    IF pc[t] = "lock" /\ nNow[t] > 0 /\ TodoAfter(t) = 0 /\ t \in Workers
    THEN [x \in Threads |-> IF x \in Masters /\ pc[x] = "wait" THEN "woken"
                                                              ELSE pc[x]]
    ELSE pc

(* The number of work units to take from a queue of n.                     *)
Units(n, total, idle) ==
    LET share   == n \div (total + idle + 1)
        limited == IF share < BatchSize THEN share ELSE BatchSize
    IN  IF limited < 1 THEN 1 ELSE limited

Take(t) ==
    /\ HasMutex(t)
    /\ queue # {}
    /\ nIdle' = IdleAfter(t) /\ nTotal' = TotalAfter(t)
    /\ nTodo' = TodoAfter(t) /\ fAllOk' = AllOkAfter(t)
    /\ LET n == Units(Cardinality(queue), nTotal', nIdle') IN
          \E S \in SUBSET queue :
             /\ Cardinality(S) = n
             /\ queue' = queue \ S
             /\ vChecks' = [vChecks EXCEPT ![t] = S]
             /\ batch' = [batch EXCEPT ![t] = S]
             /\ nNow' = [nNow EXCEPT ![t] = n]
    /\ fOk' = [fOk EXCEPT ![t] = fAllOk']
    /\ pc' = [PcAfter(t) EXCEPT ![t] = "run"]
    /\ UNCHANGED <<controlMutex, verdict, interrupted, history>>

Sleep(t) ==
    /\ HasMutex(t)
    /\ queue = {}
    /\ ~(t \in Masters /\ TodoAfter(t) = 0)
    /\ nIdle' = IdleAfter(t) + 1 /\ nTotal' = TotalAfter(t)
    /\ nTodo' = TodoAfter(t) /\ fAllOk' = AllOkAfter(t)
    /\ pc' = [PcAfter(t) EXCEPT ![t] = "wait"]
    /\ batch' = [batch EXCEPT ![t] = {}]
    /\ UNCHANGED <<controlMutex, queue, locals, verdict, interrupted, history>>

Return(m) ==
    /\ HasMutex(m)
    /\ queue = {}
    /\ TodoAfter(m) = 0
    /\ nIdle' = IdleAfter(m) /\ nTotal' = TotalAfter(m) - 1 /\ nTodo' = 0
    /\ verdict' = [verdict EXCEPT ![m] = AllOkAfter(m)]
    /\ fAllOk' = TRUE
    /\ pc' = [pc EXCEPT ![m] = "done"]
    /\ batch' = [batch EXCEPT ![m] = {}]
    /\ UNCHANGED <<controlMutex, queue, locals, interrupted, history>>

(* One check of the batch, in any order: executed only while fOk holds.    *)
RunCheck(t, c) ==
    /\ pc[t] = "run"
    /\ c \in vChecks[t]
    /\ vChecks' = [vChecks EXCEPT ![t] = @ \ {c}]
    /\ fOk' = [fOk EXCEPT ![t] = @ /\ c \notin bad]
    /\ ran' = IF fOk[t] THEN ran \cup {c} ELSE ran
    /\ pc' = [pc EXCEPT ![t] = IF vChecks'[t] = {} THEN "lock" ELSE @]
    /\ UNCHANGED <<controlMutex, shared, nNow, verdict, interrupted, added, bad,
                   batch>>

(* A condition variable may wake a thread that nobody notified.            *)
SpuriousWakeup(t) ==
    /\ pc[t] = "wait"
    /\ pc' = [pc EXCEPT ![t] = "woken"]
    /\ UNCHANGED <<controlMutex, shared, locals, verdict, interrupted, history,
                   batch>>

(* threadGroup.interrupt_all() in Shutdown: cond.wait throws, so nIdle and *)
(* nTotal keep counting the thread.  A worker ends.  A master of the group *)
(* (ThreadImport) unwinds into ~CCheckQueueControl, which calls Wait again.*)
Interrupt(t) ==
    /\ pc[t] \in {"wait", "woken"}
    /\ t \notin interrupted
    /\ interrupted' = interrupted \cup {t}
    /\ pc' = [pc EXCEPT ![t] = IF t \in Masters THEN "lock" ELSE "gone"]
    /\ nNow' = [nNow EXCEPT ![t] = 0]
    /\ fOk' = [fOk EXCEPT ![t] = TRUE]
    /\ UNCHANGED <<controlMutex, shared, vChecks, verdict, history, batch>>

MasterStep(m) == Enter(m) \/ Return(m) \/ Leave(m)
AddStep(m)    == \E S \in SUBSET (Checks \ added) : \E B \in SUBSET S : Add(m, S, B)
LoopStep(t)   == Take(t) \/ Sleep(t)
WorkStep(t)   == \E c \in Checks : RunCheck(t, c)

Next ==
    \/ \E m \in Masters : MasterStep(m) \/ AddStep(m)
    \/ \E t \in Threads : \/ EnterLoop(t) \/ LoopStep(t) \/ WorkStep(t)
                          \/ SpuriousWakeup(t) \/ Interrupt(t)

(* Every runnable thread is scheduled: a worker that was started, and a    *)
(* master from the construction of its control object to its destructor.   *)
Fairness ==
    /\ \A m \in Masters : WF_vars(Return(m)) /\ WF_vars(Leave(m))
    /\ \A t \in Threads : /\ WF_vars(EnterLoop(t)) /\ WF_vars(LoopStep(t))
                          /\ WF_vars(WorkStep(t))

Spec == Init /\ [][Next]_vars /\ Fairness

-----------------------------------------------------------------------------
(* Checks that are added and not yet accounted for.                        *)
Pending == queue \cup UNION {batch[t] : t \in Threads}

(* The state of CCheckQueue, of its control object and of the threads in   *)
(* Loop stays within its types.                                            *)
TypeOK ==
    /\ controlMutex \in Masters \cup {NoThread}
    /\ queue \in SUBSET Checks
    /\ nIdle \in Int /\ nTotal \in Int /\ nTodo \in Nat
    /\ fAllOk \in BOOLEAN
    /\ pc \in [Threads -> PCs]
    /\ vChecks \in [Threads -> SUBSET Checks]
    /\ nNow \in [Threads -> Nat]
    /\ fOk \in [Threads -> BOOLEAN]
    /\ verdict \in [Masters -> BOOLEAN]
    /\ interrupted \in SUBSET Threads
    /\ added \in SUBSET Checks /\ bad \in SUBSET added /\ ran \in SUBSET added
    /\ batch \in [Threads -> SUBSET Checks]

(* CCheckQueueControl::Wait returns true exactly when every check added in *)
(* the session succeeds, whatever thread executed it and whatever another  *)
(* session or an interruption left behind; and a true verdict means that   *)
(* every check was executed, none skipped because of a stale fOk.          *)
VerdictExact ==
    \A m \in Masters : pc[m] = "done" =>
        /\ verdict[m] <=> bad = {}
        /\ verdict[m] => ran = added

(* "guarantees the passed queue is finished before continuing": once the   *)
(* ControlMutex is free nothing of the session is queued, executing or     *)
(* uncounted, and fAllOk is ready for the next session.                    *)
FinishedBeforeRelease ==
    (\A m \in Masters : pc[m] \in {"out", "done"}) =>
        /\ Pending = {} /\ nTodo = 0 /\ fAllOk
        /\ \A t \in Threads : pc[t] # "run" /\ vChecks[t] = {}

(* nTodo "includes elements that are no longer queued, but still in the    *)
(* worker's own batches", each of them once.                               *)
TodoExact == nTodo = Cardinality(Pending)

(* A master that calls Wait gets its verdict: no notification is lost      *)
(* between the last worker and the master, and interrupted workers leave   *)
(* their work to the others.                                               *)
WaitReturns == \A m \in Masters : pc[m] = "lock" ~> pc[m] = "done"
=============================================================================
