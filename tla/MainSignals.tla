---------------------------- MODULE MainSignals -----------------------------
(***************************************************************************)
(* CMainSignals of src/src/validationinterface.cpp over the callback queue *)
(* and the scheduler, with Shutdown of src/src/init.cpp.  Each callback    *)
(* emits one signal (BlockConnected, UpdatedBlockTip, ...), which calls    *)
(* the interfaces that are registered, one after the other.                *)
(***************************************************************************)
EXTENDS SchedulerClient

CONSTANTS Early,      \* interfaces that Shutdown unregisters first (net
                      \* processing, transaction index)
          Late,       \* interfaces that stay until the queue is flushed
          HowToStop   \* how the threads are told to end: "interrupt"
                      \* (Shutdown), "drain" or "stop" (CScheduler::stop)

Interfaces == Early \cup Late

ASSUME InterfacesAssumption ==
    /\ Early \cap Late = {}
    /\ HowToStop \subseteq {"interrupt", "drain", "stop"}

VARIABLES
    registered,   \* m_connMainSignals
    alive,        \* interfaces whose object exists
    slots,        \* interfaces that the signal being emitted still has to visit
    slot,         \* the interface that is being called
    how           \* the way to stop that was chosen

signalVars == <<registered, alive, slots, slot, how>>
vars == <<schedVars, pc, clientVars, signalVars>>

Init ==
    /\ InitScheduler /\ InitClient
    /\ pc = [p \in Procs |-> IF p \in Threads THEN "start" ELSE IF p = Main THEN "up" ELSE "idle"]
    /\ task = [t \in Runners |-> IF t = Main THEN "ProcessQueue" ELSE "none"]
    /\ registered = Early /\ alive = Interfaces
    /\ slots = [t \in Runners |-> {}]
    /\ slot = [t \in Runners |-> {}]
    /\ how = "none"

-----------------------------------------------------------------------------
(* An emission visits the connections that exist when it starts, and skips *)
(* the ones that are disconnected before their turn (boost::signals2).     *)

Process(t) ==
    /\ ProcessQueue(t)
    /\ slots' = [slots EXCEPT ![t] = IF pc'[t] = "callback" THEN registered ELSE {}]
    /\ UNCHANGED <<registered, alive, slot, how>>

CallSlot(t) ==
    /\ pc[t] = "callback"
    /\ \E i \in slots[t] :
          /\ slots' = [slots EXCEPT ![t] = @ \ {i}]
          /\ IF i \in registered
             THEN slot' = [slot EXCEPT ![t] = {i}] /\ Goto(t, "slot")
             ELSE UNCHANGED <<slot, pc>>
    /\ UNCHANGED <<schedVars, clientVars, registered, alive, how>>

SlotReturns(t) ==
    /\ pc[t] = "slot"
    /\ slot' = [slot EXCEPT ![t] = {}]
    /\ Goto(t, "callback")
    /\ UNCHANGED <<schedVars, clientVars, registered, alive, slots, how>>

EndCallback(t) ==
    /\ pc[t] = "callback" /\ slots[t] = {}
    /\ CallbacksNotRunning(t)
    /\ UNCHANGED signalVars

-----------------------------------------------------------------------------
Running == pc[Main] \in {"up", "stopping"}

RegisterValidationInterface(i) ==
    /\ pc[Main] = "up" /\ i \notin registered
    /\ registered' = registered \cup {i}
    /\ UNCHANGED <<schedVars, pc, clientVars, alive, slots, slot, how>>

(* A thread that holds cs_main reports a change of the chain.              *)
Signal(p) ==
    /\ pc[p] = "idle" /\ Running
    /\ AddToProcessQueue(p)
    /\ UNCHANGED signalVars

(* Shutdown, first part.  The order is that of the code: RPC stops, early  *)
(* interfaces are unregistered one by one while other threads still signal *)
(* (the message handler until g_connman->Stop() has joined it); then the   *)
(* scheduler's threads are told to end, and are joined.                    *)
UnregisterValidationInterface(i) ==
    /\ Running /\ i \in registered \cap Early
    /\ registered' = registered \ {i}
    /\ Goto(Main, "stopping")
    /\ UNCHANGED <<schedVars, clientVars, alive, slots, slot, how>>

AddersGone == \A p \in Adders : pc[p] = "idle"

StopThreads(h) ==
    /\ Running /\ registered \cap Early = {} /\ AddersGone
    /\ how' = h
    /\ IF h = "interrupt"
       THEN /\ interrupted' = Threads
            /\ Goto(Main, "join")
            /\ UNCHANGED <<taskQueue, now, waiting, stopRequested, stopWhenEmpty,
                           nThreadsServicingQueue, timeToWaitFor, task>>
       ELSE stop(h = "drain") /\ Goto(Main, "notifyall")
    /\ UNCHANGED <<clientVars, registered, alive, slots, slot>>

StopNotifies ==
    /\ pc[Main] = "notifyall"
    /\ NotifyAll
    /\ Goto(Main, "join")
    /\ UNCHANGED <<taskQueue, now, stopRequested, stopWhenEmpty, nThreadsServicingQueue,
                   interrupted, timeToWaitFor, task, clientVars, signalVars>>

(* Fault for the mutation runs: join_all is left out.                      *)
NotJoined == TRUE

(* join_all, then the early interfaces are destroyed, then FlushStateToDisk *)
(* reports one more change, as AddToProcessQueue.                           *)
Joined == \A t \in Threads : pc[t] = "gone"

Destroy ==
    /\ pc[Main] = "join" /\ Joined
    /\ alive' = alive \ Early
    /\ Goto(Main, "destroyed")
    /\ UNCHANGED <<schedVars, clientVars, registered, slots, slot, how>>

FlushStateSignals ==
    /\ pc[Main] = "destroyed"
    /\ IF nAdded < MaxCallbacks THEN AddToProcessQueue(Main)
                                ELSE Goto(Main, "flush") /\ UNCHANGED <<schedVars, clientVars>>
    /\ UNCHANGED signalVars

(* EmptyQueue: ProcessQueue until nothing is pending.                       *)
EmptyQueue ==
    /\ pc[Main] = "flush"
    /\ Goto(Main, IF m_callbacks_pending = <<>> THEN "done" ELSE "run")
    /\ UNCHANGED <<schedVars, clientVars, signalVars>>

(* The rest: every interface is unregistered and its object is deleted.     *)
UnregisterAllValidationInterfaces ==
    /\ pc[Main] = "done" /\ alive # {}
    /\ registered' = {} /\ alive' = {}
    /\ UNCHANGED <<schedVars, pc, clientVars, slots, slot, how>>

-----------------------------------------------------------------------------
CallbackStep(t) == Process(t) \/ CallSlot(t) \/ SlotReturns(t) \/ EndCallback(t)

QueueStep(p) == ClientStep(p) /\ UNCHANGED signalVars
ThreadStep(t) ==
    \/ ServiceStep(t) /\ UNCHANGED <<clientVars, signalVars>>
    \/ Repeat(t, Home(t)) /\ UNCHANGED <<clientVars, signalVars>>
    \/ CallbackStep(t)
    \/ QueueStep(t)
ShutdownStep ==
    \/ StopNotifies \/ Destroy \/ FlushStateSignals \/ EmptyQueue
    \/ CallbackStep(Main) \/ QueueStep(Main)

Next ==
    \/ \E t \in Threads : ThreadStep(t) \/ (Wake(t) /\ UNCHANGED <<clientVars, signalVars>>)
    \/ \E p \in Adders : Signal(p) \/ QueueStep(p)
    \/ ShutdownStep
    \/ \E i \in Interfaces : RegisterValidationInterface(i) \/ UnregisterValidationInterface(i)
    \/ \E h \in HowToStop : StopThreads(h)
    \/ UnregisterAllValidationInterfaces
    \/ (Tick \/ MockForward) /\ UNCHANGED <<clientVars, signalVars>>

Spec ==
    /\ Init /\ [][Next]_vars
    /\ \A t \in Threads : WF_vars(ThreadStep(t))
    /\ \A p \in Adders : WF_vars(QueueStep(p))
    /\ WF_vars(ShutdownStep)
    /\ WF_vars(Tick /\ UNCHANGED <<clientVars, signalVars>>)

-----------------------------------------------------------------------------
ThreadPCs == {"start", "top", "seed", "wait", "timed", "run", "gone", "maybe", "schedule",
              "notify", "callback", "slot"}
AdderPCs  == {"idle", "maybe", "schedule", "notify"}
MainPCs   == {"up", "stopping", "notifyall", "join", "destroyed", "flush", "run", "callback",
              "slot", "maybe", "schedule", "notify", "done"}

TypeOK ==
    /\ pc \in [Procs -> ThreadPCs \cup AdderPCs \cup MainPCs]
    /\ \A t \in Threads : pc[t] \in ThreadPCs
    /\ \A p \in Adders : pc[p] \in AdderPCs
    /\ pc[Main] \in MainPCs
    /\ taskQueue \in Seq([time : Int, f : Tasks]) /\ now \in Nat
    /\ task \in [Runners -> Tasks \cup {"none"}]
    /\ waiting \subseteq Threads /\ interrupted \subseteq Threads
    /\ stopRequested \in BOOLEAN /\ stopWhenEmpty \in BOOLEAN
    /\ nThreadsServicingQueue \in Nat
    /\ m_callbacks_pending \in Seq(Nat \ {0}) /\ nAdded \in Nat
    /\ m_are_callbacks_running \in BOOLEAN
    /\ callback \in [Runners -> Nat]
    /\ registered \subseteq Interfaces /\ alive \subseteq Interfaces
    /\ slots \in [Runners -> SUBSET Interfaces] /\ slot \in [Runners -> SUBSET Interfaces]
    /\ how \in {"none", "interrupt", "drain", "stop"}

(* The client implements the abstract queue: callbacks run one at a time   *)
(* and in order although several threads may be inside ProcessQueue, and   *)
(* every callback is run, by a thread or, after Shutdown, by EmptyQueue.   *)
ImplementsQueue == Queue!Spec

(* The safety part of it: one at a time, and in the order of addition.     *)
OneAtATimeInOrder == Queue!Init /\ [][Queue!Next]_(Queue!vars)

(* When the threads are joined none is counted, which EmptyQueue and the   *)
(* destructor of CScheduler assert; and threads that end because of        *)
(* stop(drain = true) leave no work behind: scheduler.h says that they end *)
(* "when there is no work left to be done".                                *)
LeftClean ==
    Joined /\ pc[Main] \in {"notifyall", "join", "destroyed", "flush"}
        => /\ nThreadsServicingQueue = 0
           /\ how = "drain" /\ pc[Main] \in {"notifyall", "join"}
                  => taskQueue = <<>> /\ m_callbacks_pending = <<>>

(* No signal calls an interface whose object has been destroyed, although  *)
(* Unregister does not wait for a call that has begun.                     *)
SlotsAlive == \A t \in Runners : slot[t] \subseteq alive

(* Shutdown gets past join_all and EmptyQueue, however the threads were    *)
(* told to end and wherever they were.                                     *)
StopReturns == how # "none" ~> pc[Main] = "done"
=============================================================================
