------------------------- MODULE MainSignalsProofs --------------------------
(* For any number of scheduler threads, signalling threads, timers and     *)
(* interfaces: callbacks run one at a time and in order, Shutdown destroys *)
(* no interface that is being called, and a drained scheduler is empty.    *)
EXTENDS MainSignals, FiniteSetTheorems, SequenceTheorems, TLAPS

(* The inductive invariant, and its preservation by the scheduler and by   *)
(* the threads that add callbacks.                                         *)

(* The queue of tasks: inserting one keeps the others, and taking the      *)
(* first one keeps the rest.                                               *)

(* A task is in the queue.                                                 *)
HasTask(q, f) == \E i \in DOMAIN q : q[i].f = f

(* What is left of a sequence after its first n elements.                  *)
LEMMA RestLen ==
    ASSUME NEW T, NEW q \in Seq(T), NEW n \in Nat, n <= Len(q)
    PROVE  Len(SubSeq(q, n + 1, Len(q))) = Len(q) - n
BY SMT

(* A function on 1..n is a sequence.                                       *)
LEMMA FcnSeq ==
    ASSUME NEW T, NEW n \in Nat, NEW g \in [1..n -> T]
    PROVE  g \in Seq(T)
BY SMT

(* The length of a concatenation, and its second part.                     *)
LEMMA ConcatLen ==
    ASSUME NEW T, NEW q \in Seq(T), NEW p \in Seq(T)
    PROVE  q \o p \in Seq(T) /\ Len(q \o p) = Len(q) + Len(p)
BY SMT

LEMMA ConcatSecond ==
    ASSUME NEW T, NEW q \in Seq(T), NEW p \in Seq(T), NEW i \in 1..Len(p)
    PROVE  (q \o p)[Len(q) + i] = p[i]
BY SMT

(* A sequence with one more element, after the first n ones.               *)
After(q, n, r) == SubSeq(q, 1, n) \o <<r>> \o SubSeq(q, n + 1, Len(q))

(* An element of a sequence.                                               *)
Has(q, r) == \E i \in DOMAIN q : q[i] = r

(* It has that element and the ones it had.                                *)
LEMMA InsertAt ==
    ASSUME NEW T, NEW q \in Seq(T), NEW r \in T, NEW n \in Nat, n <= Len(q)
    PROVE  /\ After(q, n, r) \in Seq(T)
           /\ Has(After(q, n, r), r)
           /\ \A j \in DOMAIN q : Has(After(q, n, r), q[j])
<1> DEFINE A == SubSeq(q, 1, n)
           B == SubSeq(q, n + 1, Len(q))
           R == <<r>>
           C == A \o R
           D == C \o B
<1>0. Len(q) \in Nat /\ DOMAIN q = 1..Len(q) /\ n \in Nat /\ n <= Len(q)
  BY LenProperties
<1>1. A \in Seq(T) /\ Len(A) = n
  BY <1>0, SMT
<1>2. ASSUME NEW i \in 1..n PROVE A[i] = q[i]
  BY <1>0, SMT
<1>3. B \in Seq(T)
  BY <1>0, SMT
<1>4. Len(B) = Len(q) - n
  BY <1>0, RestLen, Zenon
<1>5. ASSUME NEW i \in 1..(Len(q) - n) PROVE B[i] = q[n + i]
  BY <1>0, SMT
<1>6. R \in Seq(T) /\ Len(R) = 1 /\ R[1] = r
  BY SMT
<1> HIDE DEF A, B, R
<1>7. C \in Seq(T) /\ Len(C) = n + 1
  BY <1>1, <1>6, ConcatLen, Zenon
<1>8. C[n + 1] = r
  <2>1. 1 \in 1..Len(R)
    BY <1>6, SMT
  <2>2. A \in Seq(T) /\ R \in Seq(T)
    BY <1>1, <1>6, Zenon
  <2>3. (A \o R)[Len(A) + 1] = R[1]
    BY <2>1, <2>2, ConcatSecond, SMT
  <2> QED
    BY <1>1, <1>6, <2>3, Zenon
<1>9. ASSUME NEW i \in 1..n PROVE C[i] = q[i]
  BY <1>0, <1>1, <1>2, <1>6, SMT
<1> HIDE DEF C
<1>10. D \in Seq(T)
  BY <1>3, <1>7, SMT
<1>11. Len(D) = Len(q) + 1 /\ DOMAIN D = 1..(Len(q) + 1)
  BY <1>0, <1>3, <1>4, <1>7, SMT
<1>12. ASSUME NEW i \in 1..(n + 1) PROVE D[i] = C[i]
  BY <1>0, <1>3, <1>4, <1>7, SMT
<1>13. ASSUME NEW i \in 1..(Len(q) - n) PROVE D[n + 1 + i] = B[i]
  BY <1>0, <1>3, <1>4, <1>7, SMT
<1> HIDE DEF D
<1>14. n + 1 \in DOMAIN D /\ D[n + 1] = r
  BY <1>0, <1>8, <1>11, <1>12, SMT
<1>15. ASSUME NEW j \in DOMAIN q PROVE \E i \in DOMAIN D : D[i] = q[j]
  <2>1. CASE j <= n
    <3>1. j \in 1..n /\ j \in 1..(n + 1) /\ j \in DOMAIN D
      BY <1>0, <1>11, <2>1, SMT
    <3> QED
      BY <1>9, <1>12, <3>1, Zenon
  <2>2. CASE j > n
    <3>1. j - n \in 1..(Len(q) - n) /\ n + 1 + (j - n) \in DOMAIN D /\ n + (j - n) = j
      BY <1>0, <1>11, <2>2, SMT
    <3> QED
      BY <1>5, <1>13, <3>1, Zenon
  <2> QED
    BY <1>0, <2>1, <2>2, SMT
<1> QED
  BY <1>10, <1>14, <1>15, Zenon DEF After, Has, D, C, R, A, B

(* multimap::insert adds the task and keeps every other one.               *)
LEMMA InsertProps ==
    ASSUME NEW S, NEW q \in Seq([time : Int, f : S]), NEW f \in S, NEW at \in Int
    PROVE  /\ Insert(q, f, at) \in Seq([time : Int, f : S])
           /\ HasTask(Insert(q, f, at), f)
           /\ \A g : HasTask(q, g) => HasTask(Insert(q, f, at), g)
<1> DEFINE E == {i \in DOMAIN q : q[i].time <= at}
           r == [time |-> at, f |-> f]
<1>1. Cardinality(E) \in Nat /\ Cardinality(E) <= Len(q)
  <2>1. DOMAIN q = 1..Len(q) /\ Len(q) \in Nat /\ 1 \in Int /\ Len(q) \in Int
    BY LenProperties
  <2>2. /\ IsFiniteSet(1..Len(q))
        /\ Cardinality(1..Len(q)) = IF 1 > Len(q) THEN 0 ELSE Len(q) - 1 + 1
    BY <2>1, FS_Interval, Zenon
  <2>3. E \in SUBSET (1..Len(q))
    BY <2>1, Zenon
  <2> HIDE DEF E
  <2>4. IsFiniteSet(E) /\ Cardinality(E) <= Cardinality(1..Len(q))
    BY <2>2, <2>3, FS_Subset, Zenon
  <2>5. Cardinality(E) \in Nat
    BY <2>4, FS_CardinalityType, Zenon
  <2> QED
    BY <2>1, <2>2, <2>4, <2>5
<1>2. r \in [time : Int, f : S] /\ r.f = f
  OBVIOUS
<1>3. Insert(q, f, at) = After(q, Cardinality(E), r)
  BY Zenon DEF Insert, After
<1> HIDE DEF E, r
<1> DEFINE n == Cardinality(E)
<1>4. /\ After(q, n, r) \in Seq([time : Int, f : S])
      /\ Has(After(q, n, r), r)
      /\ \A j \in DOMAIN q : Has(After(q, n, r), q[j])
  <2> HIDE DEF n
  <2> QED
    BY <1>1, <1>2, InsertAt, Zenon DEF n
<1> DEFINE I == After(q, n, r)
<1>5. /\ I \in Seq([time : Int, f : S]) /\ Has(I, r)
      /\ \A j \in DOMAIN q : Has(I, q[j])
  BY <1>4, Zenon
<1> HIDE DEF n, I
<1>6. HasTask(I, f)
  BY <1>2, <1>5, Zenon DEF Has, HasTask
<1>7. \A g : HasTask(q, g) => HasTask(I, g)
  BY <1>5, Zenon DEF Has, HasTask
<1> QED
  BY <1>3, <1>5, <1>6, <1>7, Zenon DEF I, n

(* The front of the queue and the rest.                                    *)
LEMMA TailProps ==
    ASSUME NEW S, NEW q \in Seq([time : Int, f : S]), q # <<>>
    PROVE  /\ Tail(q) \in Seq([time : Int, f : S])
           /\ Head(q).f \in S
           /\ \A g : HasTask(q, g) => Head(q).f = g \/ HasTask(Tail(q), g)
<1>1. Tail(q) \in Seq([time : Int, f : S]) /\ Head(q) \in [time : Int, f : S]
  BY HeadTailProperties, Zenon
<1>2. Head(q).f \in S
  BY <1>1, SMT
<1>3. ASSUME NEW g, HasTask(q, g) PROVE Head(q).f = g \/ HasTask(Tail(q), g)
  <2>1. PICK i \in DOMAIN q : q[i].f = g
    BY <1>3, Zenon DEF HasTask
  <2>2. CASE i = 1
    BY <2>1, <2>2, SMT
  <2>3. CASE i # 1
    <3>1. i - 1 \in DOMAIN Tail(q) /\ Tail(q)[i - 1] = q[i]
      BY <2>3, SMT
    <3> QED
      BY <2>1, <3>1, Zenon DEF HasTask
  <2> QED
    BY <2>2, <2>3, Zenon
<1> QED
  BY <1>1, <1>2, <1>3, Zenon
-----------------------------------------------------------------------------
(* The inductive invariant.                                                *)

PCs == ThreadPCs \cup AdderPCs \cup MainPCs

(* The parts of TypeOK.                                                    *)
PcOK ==
    /\ pc \in [Procs -> PCs]
    /\ \A t \in Threads : pc[t] \in ThreadPCs
    /\ \A p \in Adders : pc[p] \in AdderPCs
    /\ pc[Main] \in MainPCs
SchedOK ==
    /\ taskQueue \in Seq([time : Int, f : Tasks]) /\ now \in Nat
    /\ task \in [Runners -> Tasks \cup {"none"}]
    /\ waiting \subseteq Threads /\ interrupted \subseteq Threads
    /\ stopRequested \in BOOLEAN /\ stopWhenEmpty \in BOOLEAN
ClientOK ==
    /\ m_callbacks_pending \in Seq(Nat \ {0}) /\ nAdded \in Nat
    /\ m_are_callbacks_running \in BOOLEAN
    /\ callback \in [Runners -> Nat]
SignalOK ==
    /\ registered \subseteq Interfaces /\ alive \subseteq Interfaces
    /\ slots \in [Runners -> SUBSET Interfaces] /\ slot \in [Runners -> SUBSET Interfaces]
    /\ how \in {"none", "interrupt", "drain", "stop"}

(* The thread of Shutdown has not passed join_all.                         *)
Before == pc[Main] \in {"up", "stopping", "notifyall", "join"}

InCallback(t) == pc[t] \in {"callback", "slot"}

(* m_are_callbacks_running says that exactly one thread runs a callback.   *)
RunInv ==
    /\ \A t \in Runners : InCallback(t) => m_are_callbacks_running /\ callback[t] # 0
    /\ \A t, u \in Runners : InCallback(t) /\ InCallback(u) => t = u
    /\ m_are_callbacks_running => \E t \in Runners : InCallback(t)

(* What Shutdown has established at each of its points.                    *)
ShutInv ==
    /\ Running => how = "none"
    /\ how = "none" => /\ ~stopRequested /\ ~stopWhenEmpty /\ interrupted = {}
                       /\ \A t \in Threads : pc[t] # "gone"
    /\ how = "drain" => ~stopRequested /\ interrupted = {}
    /\ ~Running => registered \cap Early = {} /\ AddersGone
    /\ ~Before => Joined

(* An interface is being called only at pc "slot", and objects exist until *)
(* the point of Shutdown that destroys them.                               *)
SlotInv ==
    /\ \A t \in Runners : slot[t] # {} => pc[t] = "slot"
    /\ \A t \in Runners : slots[t] # {} => InCallback(t)
    /\ slot[Main] \subseteq Late
    /\ Before => Interfaces \subseteq alive
    /\ pc[Main] # "done" => Late \subseteq alive

(* The threads inside serviceQueue are the counted ones.                   *)
Counted == {t \in Threads : pc[t] \notin {"start", "gone"}}
CountInv == nThreadsServicingQueue = Cardinality(Counted)

(* Somebody will look at the callbacks that are pending.                   *)
InQueue == HasTask(taskQueue, "ProcessQueue")
WorkInv ==
    Before /\ m_callbacks_pending # <<>> =>
        \/ m_are_callbacks_running
        \/ InQueue
        \/ \E p \in Procs : pc[p] \in {"maybe", "schedule"}
        \/ \E t \in Threads : pc[t] = "run" /\ task[t] = "ProcessQueue"

(* In a drain the last thread to leave sees an empty queue.                *)
DrainInv ==
    how = "drain" /\ pc[Main] \in {"notifyall", "join"} /\ taskQueue # <<>> => ~Joined

IndInv ==
    /\ PcOK /\ SchedOK /\ ClientOK /\ SignalOK
    /\ RunInv /\ ShutInv /\ SlotInv /\ CountInv /\ WorkInv /\ DrainInv

-----------------------------------------------------------------------------
USE TimerAssumption, ProcsAssumption, InterfacesAssumption

(* The kinds of processes are disjoint.                                    *)
LEMMA Kinds ==
    /\ Threads \subseteq Procs /\ Adders \subseteq Procs /\ Main \in Procs
    /\ Threads \subseteq Runners /\ Main \in Runners /\ Runners \subseteq Procs
    /\ \A t \in Threads : t \notin Adders /\ t # Main
    /\ \A p \in Adders : p \notin Threads /\ p # Main /\ p \notin Runners
BY Zenon DEF Procs, Runners

(* The counted threads are finitely many.                                  *)
LEMMA CountedFinite == IsFiniteSet(Counted) /\ Cardinality(Counted) \in Nat
<1>1. Counted \subseteq Threads
  BY Zenon DEF Counted
<1>2. IsFiniteSet(Counted)
  BY <1>1, FS_Subset, Zenon
<1> QED
  BY <1>2, FS_CardinalityType, Zenon

(* The invariant implies the type invariant.                               *)
LEMMA Typed == IndInv => TypeOK
<1> SUFFICES ASSUME IndInv PROVE TypeOK
  BY Zenon
<1>1. nThreadsServicingQueue \in Nat
  BY CountedFinite, Zenon DEF IndInv, CountInv
<1> QED
  BY <1>1, Zenon DEF IndInv, TypeOK, PcOK, SchedOK, ClientOK, SignalOK, PCs

(* The thread that runs a callback determines the current one.             *)
LEMMA CurrentOf ==
    ASSUME NEW t \in Runners, InCallback(t),
           \A u \in Runners : InCallback(u) => t = u
    PROVE  current = callback[t]
<1>1. t \in Executing /\ \A u \in Executing : u = t
  BY Zenon DEF Executing, InCallback
<1>2. (CHOOSE u \in Executing : TRUE) = t
  BY <1>1, Zenon
<1> QED
  BY <1>1, <1>2, Zenon DEF current

(* Without such a thread there is no current callback.                     *)
LEMMA CurrentNone ==
    ASSUME \A u \in Runners : ~InCallback(u)
    PROVE  current = 0
BY Zenon DEF current, Executing, InCallback

(* One process moves.                                                      *)
LEMMA Moved ==
    ASSUME PcOK, NEW p \in Procs, NEW l \in PCs, Goto(p, l)
    PROVE  /\ pc' \in [Procs -> PCs] /\ pc'[p] = l
           /\ \A q \in Procs : q # p => pc'[q] = pc[q]
BY Zenon DEF PcOK, Goto

(* A move after which the process is at a point of its own kind.           *)
LEMMA MovedTyped ==
    ASSUME PcOK, NEW p \in Procs, NEW l, Goto(p, l),
           p \in Threads => l \in ThreadPCs,
           p \in Adders => l \in AdderPCs,
           p = Main => l \in MainPCs
    PROVE  PcOK' /\ l \in PCs
<1>1. l \in PCs
  BY Zenon DEF Procs, PCs
<1>2. /\ pc' \in [Procs -> PCs] /\ pc'[p] = l
      /\ \A q \in Procs : q # p => pc'[q] = pc[q]
  BY <1>1, Moved, Zenon
<1> QED
  BY <1>1, <1>2, Kinds, Zenon DEF PcOK

(* The current callback is the same while the same thread runs it.         *)
LEMMA CurrentSame ==
    ASSUME RunInv, \A t \in Runners : InCallback(t)' <=> InCallback(t), callback' = callback
    PROVE  current' = current
<1>1. CASE \E t \in Runners : InCallback(t)
  <2>1. PICK t \in Runners : InCallback(t)
    BY <1>1, Zenon
  <2>2. \A u \in Runners : InCallback(u) => t = u
    BY <2>1, Zenon DEF RunInv
  <2>3. current = callback[t]
    BY <2>1, <2>2, CurrentOf, Zenon
  <2>4. InCallback(t)' /\ (\A u \in Runners : InCallback(u) => t = u)'
    BY <2>1, <2>2, Zenon
  <2>5. current' = callback'[t]
    BY <2>4, CurrentOf, Zenon DEF InCallback, current, Executing
  <2> QED
    BY <2>3, <2>5, Zenon
<1>2. CASE \A t \in Runners : ~InCallback(t)
  <2>1. (\A t \in Runners : ~InCallback(t))'
    BY <1>2, Zenon
  <2> QED
    BY <1>2, <2>1, CurrentNone, Zenon DEF InCallback, current, Executing
<1> QED
  BY <1>1, <1>2, Zenon

(* A step of a process that Shutdown still allows to take one.             *)
LEMMA AllowedMove ==
    ASSUME IndInv, NEW p \in Procs, NEW l, Goto(p, l),
           p \in Threads => pc[p] # "gone" /\ l \in ThreadPCs,
           p \in Adders => l \in AdderPCs /\ (pc[p] # "idle" \/ Running),
           p = Main => l \in MainPCs /\ ~Before,
           l \notin {"up", "stopping", "notifyall", "join"},
           l = "gone" => how # "none" /\ (how = "drain" => taskQueue' = <<>>),
           UNCHANGED <<stopRequested, stopWhenEmpty, interrupted, registered, how>>
    PROVE  /\ PcOK' /\ ShutInv' /\ DrainInv'
           /\ pc'[p] = l /\ \A q \in Procs : q # p => pc'[q] = pc[q]
           /\ Before' <=> Before
<1> USE DEF IndInv
<1>1. PcOK' /\ l \in PCs
  BY MovedTyped, Zenon
<1>2. pc'[p] = l /\ \A q \in Procs : q # p => pc'[q] = pc[q]
  BY <1>1, Moved, Zenon
<1>3. /\ Running' <=> Running
      /\ Before' <=> Before
  BY <1>2, Kinds, Zenon DEF Running, Before
<1>4. p \in Threads => Before
  BY Zenon DEF ShutInv, Joined
<1>5. p \in Adders => Running
  BY Zenon DEF ShutInv, AddersGone
<1>6. ShutInv'
  <2>1. (how = "none" => \A t \in Threads : pc[t] # "gone")'
    BY <1>2, Kinds, Zenon DEF ShutInv
  <2>2. (~Running => registered \cap Early = {} /\ AddersGone)'
    BY <1>2, <1>3, <1>5, Kinds, Zenon DEF ShutInv, AddersGone
  <2>3. (~Before => Joined)'
    BY <1>2, <1>3, <1>4, Kinds, Zenon DEF ShutInv, Joined
  <2> QED
    BY <1>3, <2>1, <2>2, <2>3, Zenon DEF ShutInv
<1>7. DrainInv'
  <2>1. CASE p \in Threads /\ l # "gone"
    BY <1>2, <2>1, Zenon DEF DrainInv, Joined
  <2>2. CASE l = "gone"
    BY <2>2, Zenon DEF DrainInv
  <2>3. CASE p \in Adders
    BY <1>3, <1>5, <2>3, Zenon DEF DrainInv, ShutInv
  <2>4. CASE p = Main
    BY <1>2, <2>4, Zenon DEF DrainInv
  <2> QED
    BY <2>1, <2>2, <2>3, <2>4, Zenon DEF Procs
<1> QED
  BY <1>1, <1>2, <1>3, <1>6, <1>7, Zenon

(* Such a step that begins and ends no callback.                           *)
LEMMA QuietMove ==
    ASSUME IndInv, NEW p \in Procs, NEW l, Goto(p, l),
           p \in Threads => pc[p] # "gone" /\ l \in ThreadPCs,
           p \in Adders => l \in AdderPCs /\ (pc[p] # "idle" \/ Running),
           p = Main => l \in MainPCs /\ ~Before /\ pc[p] # "done",
           l \notin {"up", "stopping", "notifyall", "join"},
           pc[p] \notin {"callback", "slot"}, l \notin {"callback", "slot"},
           l = "gone" => how # "none" /\ (how = "drain" => taskQueue' = <<>>),
           UNCHANGED <<m_are_callbacks_running, callback, stopRequested, stopWhenEmpty,
                       interrupted, signalVars>>
    PROVE  /\ PcOK' /\ SignalOK' /\ RunInv' /\ ShutInv' /\ SlotInv' /\ DrainInv'
           /\ current' = current /\ (Before' => Before)
<1> USE DEF IndInv
<1>0. UNCHANGED <<registered, alive, slots, slot, how>>
  BY Zenon DEF signalVars
<1>1. /\ PcOK' /\ ShutInv' /\ DrainInv'
      /\ pc'[p] = l /\ \A q \in Procs : q # p => pc'[q] = pc[q]
      /\ Before' <=> Before
  BY <1>0, AllowedMove, Zenon
<1>2. SignalOK'
  BY <1>0, Zenon DEF SignalOK
<1>3. \A t \in Runners : InCallback(t)' <=> InCallback(t)
  BY <1>1, Kinds, Zenon DEF InCallback
<1>4. RunInv'
  BY <1>3, Zenon DEF RunInv
<1>5. SlotInv'
  <2>1. (\A t \in Runners : slot[t] # {} => pc[t] = "slot")'
    BY <1>0, <1>1, Kinds, Zenon DEF SlotInv
  <2>2. (\A t \in Runners : slots[t] # {} => InCallback(t))'
    BY <1>0, <1>3, Zenon DEF SlotInv
  <2>3. (pc[Main] # "done" => Late \subseteq alive)'
    BY <1>0, <1>1, Kinds, Zenon DEF SlotInv
  <2> QED
    BY <1>0, <1>1, <2>1, <2>2, <2>3, Zenon DEF SlotInv
<1>6. current' = current
  BY <1>3, <1>4, CurrentSame, Zenon
<1> QED
  BY <1>1, <1>2, <1>4, <1>5, <1>6, Zenon

(* A step inside serviceQueue changes no count.                            *)
LEMMA CountSame ==
    ASSUME IndInv, NEW p \in Procs, NEW l \in PCs, Goto(p, l),
           p \in Threads => (pc[p] \in {"start", "gone"} <=> l \in {"start", "gone"}),
           nThreadsServicingQueue' = nThreadsServicingQueue
    PROVE  CountInv'
<1>1. pc'[p] = l /\ \A q \in Procs : q # p => pc'[q] = pc[q]
  BY Moved, Zenon DEF IndInv
<1>2. Counted' = Counted
  BY <1>1, Kinds, Zenon DEF Counted
<1> QED
  BY <1>2, Zenon DEF CountInv, IndInv

(* Entering serviceQueue and leaving it.                                   *)
LEMMA CountUp ==
    ASSUME IndInv, NEW t \in Threads, NEW l \in PCs, Goto(t, l),
           pc[t] = "start", l \notin {"start", "gone"},
           nThreadsServicingQueue' = nThreadsServicingQueue + 1
    PROVE  CountInv'
<1>1. pc'[t] = l /\ \A q \in Procs : q # t => pc'[q] = pc[q]
  BY Moved, Kinds, Zenon DEF IndInv
<1>2. Counted' = Counted \cup {t} /\ t \notin Counted
  BY <1>1, Kinds, Zenon DEF Counted
<1>3. Cardinality(Counted \cup {t}) = Cardinality(Counted) + 1
  BY <1>2, CountedFinite, FS_AddElement, Zenon
<1> QED
  BY <1>2, <1>3, Zenon DEF CountInv, IndInv

LEMMA CountDown ==
    ASSUME IndInv, NEW t \in Threads, Goto(t, "gone"),
           pc[t] \notin {"start", "gone"},
           nThreadsServicingQueue' = nThreadsServicingQueue - 1
    PROVE  CountInv'
<1>0. "gone" \in PCs
  BY Zenon DEF PCs, ThreadPCs
<1>1. pc'[t] = "gone" /\ \A q \in Procs : q # t => pc'[q] = pc[q]
  BY <1>0, Moved, Kinds, Zenon DEF IndInv
<1>2. Counted' = Counted \ {t} /\ t \in Counted
  BY <1>1, Kinds, Zenon DEF Counted
<1>3. Cardinality(Counted \ {t}) = Cardinality(Counted) - 1
  BY <1>2, CountedFinite, FS_RemoveElement, Zenon
<1> QED
  BY <1>2, <1>3, Zenon DEF CountInv, IndInv

(* A move that takes no look at the callbacks from anybody.                *)
LEMMA WorkSame ==
    ASSUME IndInv, NEW p \in Procs, NEW l \in PCs, Goto(p, l),
           pc[p] \notin {"maybe", "schedule"},
           p \in Threads /\ pc[p] = "run" => task[p] # "ProcessQueue",
           InQueue => InQueue',
           \A t \in Threads : t # p => task'[t] = task[t],
           UNCHANGED <<m_callbacks_pending, m_are_callbacks_running>>,
           Before' => Before
    PROVE  WorkInv'
<1>1. pc'[p] = l /\ \A q \in Procs : q # p => pc'[q] = pc[q]
  BY Moved, Zenon DEF IndInv
<1>2. ASSUME NEW q \in Procs, pc[q] \in {"maybe", "schedule"}
      PROVE  pc'[q] \in {"maybe", "schedule"}
  BY <1>1, <1>2, Zenon
<1>3. ASSUME NEW t \in Threads, pc[t] = "run", task[t] = "ProcessQueue"
      PROVE  pc'[t] = "run" /\ task'[t] = "ProcessQueue"
  BY <1>1, <1>3, Kinds, Zenon
<1> QED
  BY <1>2, <1>3, Zenon DEF WorkInv, IndInv

(* Shutdown told the threads to end when one of them finds that it should. *)
LEMMA StopKnown ==
    ASSUME IndInv, shouldStop
    PROVE  how # "none" /\ (how = "drain" => taskQueue = <<>>)
BY Zenon DEF IndInv, ShutInv, shouldStop

-----------------------------------------------------------------------------
(* The steps of a scheduler thread inside serviceQueue.                    *)
Others == <<clientVars, signalVars>>

(* What notify_one leaves in waiting.                                      *)
LEMMA NotifyTyped ==
    ASSUME waiting \subseteq Threads, NotifyOne
    PROVE  waiting' \subseteq Threads
BY Zenon DEF NotifyOne

(* The head of the outer loop.                                             *)
LEMMA TopInv ==
    ASSUME IndInv, NEW t \in Threads, pc[t] \in {"start", "top", "seed", "wait", "timed"},
           NEW n, Top(t, n), UNCHANGED Others,
           n = IF pc[t] = "start" THEN nThreadsServicingQueue + 1 ELSE nThreadsServicingQueue
    PROVE  IndInv' /\ current' = current
<1>0. t \in Procs /\ t \in Runners /\ t # Main /\ t \notin Adders
  BY Kinds, Zenon
<1>1. /\ UNCHANGED <<m_callbacks_pending, m_are_callbacks_running, callback, nAdded,
                     stopRequested, stopWhenEmpty, interrupted, signalVars, taskQueue, now>>
      /\ task' = [task EXCEPT ![t] = "none"]
  BY Zenon DEF Top, Others, clientVars
<1>2. ClientOK'
  BY <1>1, Zenon DEF IndInv, ClientOK
<1>3. ASSUME waiting' \subseteq Threads PROVE SchedOK'
  BY <1>0, <1>1, <1>3, Zenon DEF IndInv, SchedOK
<1>4. InQueue' = InQueue /\ \A u \in Threads : u # t => task'[u] = task[u]
  BY <1>0, <1>1, Kinds, Zenon DEF IndInv, SchedOK, InQueue
<1>5. CASE shouldStop
  <2>1. /\ Goto(t, "gone") /\ NotifyOne
        /\ nThreadsServicingQueue' = n - 1
    BY <1>5, Zenon DEF Top
  <2>2. /\ PcOK' /\ SignalOK' /\ RunInv' /\ ShutInv' /\ SlotInv' /\ DrainInv'
        /\ current' = current /\ (Before' => Before)
    BY <1>0, <1>1, <1>5, <2>1, StopKnown, QuietMove, Zenon DEF ThreadPCs
  <2>3. SchedOK'
    BY <1>3, <2>1, NotifyTyped, Zenon DEF IndInv, SchedOK
  <2>4. "gone" \in PCs
    BY Zenon DEF PCs, ThreadPCs
  <2>5. CountInv'
    <3>1. CASE pc[t] = "start"
      <4>1. nThreadsServicingQueue' = nThreadsServicingQueue
        BY <2>1, <3>1, Typed, SMT DEF TypeOK
      <4> QED
        BY <1>0, <2>1, <2>4, <3>1, <4>1, CountSame, Zenon
    <3>2. CASE pc[t] # "start"
      BY <2>1, <3>2, CountDown, Zenon
    <3> QED
      BY <3>1, <3>2, Zenon
  <2>6. WorkInv'
    BY <1>0, <1>1, <1>4, <2>1, <2>2, <2>4, WorkSame, Zenon
  <2> QED
    BY <1>2, <2>2, <2>3, <2>5, <2>6, Zenon DEF IndInv
<1>6. CASE ~shouldStop
  <2>1. PICK l \in {"seed", "timed"} :
           /\ Goto(t, l)
           /\ nThreadsServicingQueue' = n
           /\ waiting' \in {waiting, waiting \cup {t}}
    BY <1>6, Zenon DEF Top
  <2>2. /\ PcOK' /\ SignalOK' /\ RunInv' /\ ShutInv' /\ SlotInv' /\ DrainInv'
        /\ current' = current /\ (Before' => Before)
    BY <1>0, <1>1, <2>1, QuietMove, Zenon DEF ThreadPCs
  <2>3. SchedOK'
    BY <1>3, <2>1, Zenon DEF IndInv, SchedOK
  <2>4. l \in PCs
    BY <2>1, Zenon DEF PCs, ThreadPCs
  <2>5. CountInv'
    <3>1. CASE pc[t] = "start"
      BY <2>1, <2>4, <3>1, CountUp, Zenon
    <3>2. CASE pc[t] # "start"
      BY <1>0, <2>1, <2>4, <3>2, CountSame, Zenon
    <3> QED
      BY <3>1, <3>2, Zenon
  <2>6. WorkInv'
    BY <1>0, <1>1, <1>4, <2>1, <2>2, <2>4, WorkSame, Zenon
  <2> QED
    BY <1>2, <2>2, <2>3, <2>5, <2>6, Zenon DEF IndInv
<1> QED
  BY <1>5, <1>6, Zenon

(* The loop that waits while the queue is empty.                           *)
LEMMA AwaitInv ==
    ASSUME IndInv, NEW t \in Threads, pc[t] \in {"seed", "wait"}, Await(t), UNCHANGED Others
    PROVE  IndInv' /\ current' = current
<1>0. t \in Procs /\ t \in Runners /\ t # Main /\ t \notin Adders
  BY Kinds, Zenon
<1>1. CASE ~shouldStop /\ taskQueue = <<>>
  <2>1. /\ Goto(t, "wait") /\ waiting' = waiting \cup {t}
        /\ UNCHANGED <<taskQueue, now, stopRequested, stopWhenEmpty, nThreadsServicingQueue,
                       interrupted, task>>
        /\ UNCHANGED <<m_callbacks_pending, m_are_callbacks_running, callback, nAdded,
                       signalVars>>
    BY <1>1, Zenon DEF Await, Others, clientVars
  <2>2. /\ PcOK' /\ SignalOK' /\ RunInv' /\ ShutInv' /\ SlotInv' /\ DrainInv'
        /\ current' = current /\ (Before' => Before)
    BY <1>0, <2>1, QuietMove, Zenon DEF ThreadPCs
  <2>3. SchedOK' /\ ClientOK'
    BY <2>1, Zenon DEF IndInv, SchedOK, ClientOK
  <2>4. "wait" \in PCs
    BY Zenon DEF PCs, ThreadPCs
  <2>5. CountInv'
    BY <1>0, <2>1, <2>4, CountSame, Zenon
  <2>6. WorkInv'
    BY <1>0, <2>1, <2>2, <2>4, WorkSame, Zenon DEF InQueue
  <2> QED
    BY <2>2, <2>3, <2>5, <2>6, Zenon DEF IndInv
<1>2. CASE ~(~shouldStop /\ taskQueue = <<>>)
  <2>1. Top(t, nThreadsServicingQueue)
    BY <1>2, Zenon DEF Await
  <2> QED
    BY <2>1, TopInv, Zenon
<1> QED
  BY <1>1, <1>2, Zenon

(* wait_until returns.                                                     *)
LEMMA ResumedInv ==
    ASSUME IndInv, NEW t \in Threads, Resumed(t), UNCHANGED Others
    PROVE  IndInv' /\ current' = current
<1>0. t \in Procs /\ t \in Runners /\ t # Main /\ t \notin Adders /\ pc[t] = "timed"
  BY Kinds, Zenon DEF Resumed
<1>1. CASE Top(t, nThreadsServicingQueue)
  BY <1>0, <1>1, TopInv, Zenon
<1>2. CASE TakeFirst(t) /\ taskQueue # <<>>
  <2>1. /\ Goto(t, "run") /\ taskQueue' = Tail(taskQueue)
        /\ task' = [task EXCEPT ![t] = Head(taskQueue).f]
        /\ UNCHANGED <<now, waiting, stopRequested, stopWhenEmpty, nThreadsServicingQueue,
                       interrupted>>
        /\ UNCHANGED <<m_callbacks_pending, m_are_callbacks_running, callback, nAdded,
                       signalVars>>
    BY <1>2, Zenon DEF TakeFirst, Others, clientVars
  <2>2. /\ PcOK' /\ SignalOK' /\ RunInv' /\ ShutInv' /\ SlotInv' /\ DrainInv'
        /\ current' = current /\ (Before' => Before)
    BY <1>0, <2>1, QuietMove, Zenon DEF ThreadPCs
  <2>3. /\ Tail(taskQueue) \in Seq([time : Int, f : Tasks])
        /\ Head(taskQueue).f \in Tasks
        /\ InQueue => Head(taskQueue).f = "ProcessQueue" \/ HasTask(Tail(taskQueue), "ProcessQueue")
    BY <1>2, TailProps, Zenon DEF IndInv, SchedOK, InQueue
  <2>4. SchedOK' /\ ClientOK' /\ task'[t] = Head(taskQueue).f
    BY <1>0, <2>1, <2>3, Zenon DEF IndInv, SchedOK, ClientOK
  <2>5. "run" \in PCs
    BY Zenon DEF PCs, ThreadPCs
  <2>6. CountInv'
    BY <1>0, <2>1, <2>5, CountSame, Zenon
  <2>7. WorkInv'
    <3>1. pc'[t] = "run"
      BY <1>0, <2>1, <2>5, Moved, Zenon DEF IndInv
    <3>2. CASE task'[t] = "ProcessQueue"
      BY <3>1, <3>2, Zenon DEF WorkInv
    <3>3. CASE task'[t] # "ProcessQueue"
      <4>1. InQueue => InQueue'
        BY <2>1, <2>3, <2>4, <3>3, Zenon DEF InQueue
      <4>2. \A u \in Threads : u # t => task'[u] = task[u]
        BY <2>1, Kinds, Zenon DEF IndInv, SchedOK
      <4> QED
        BY <1>0, <2>1, <2>2, <2>5, <4>1, <4>2, WorkSame, Zenon
    <3> QED
      BY <3>2, <3>3, Zenon
  <2> QED
    BY <2>2, <2>4, <2>6, <2>7, Zenon DEF IndInv
<1> QED
  BY <1>1, <1>2, Zenon DEF Resumed

(* boost::thread_interrupted leaves serviceQueue.                          *)
LEMMA InterruptedInv ==
    ASSUME IndInv, NEW t \in Threads, Interrupted(t), UNCHANGED Others
    PROVE  IndInv' /\ current' = current
<1>0. t \in Procs /\ t \in Runners /\ t # Main /\ t \notin Adders
  BY Kinds, Zenon
<1>1. /\ Goto(t, "gone") /\ waiting' = waiting \ {t}
      /\ pc[t] \in {"seed", "wait", "timed"} /\ t \in interrupted
      /\ nThreadsServicingQueue' = nThreadsServicingQueue - 1
      /\ UNCHANGED <<taskQueue, now, stopRequested, stopWhenEmpty, interrupted, task>>
      /\ UNCHANGED <<m_callbacks_pending, m_are_callbacks_running, callback, nAdded,
                     signalVars>>
  BY Zenon DEF Interrupted, Others, clientVars
<1>2. how # "none" /\ how # "drain"
  BY <1>1, Zenon DEF IndInv, ShutInv
<1>3. /\ PcOK' /\ SignalOK' /\ RunInv' /\ ShutInv' /\ SlotInv' /\ DrainInv'
      /\ current' = current /\ (Before' => Before)
  BY <1>0, <1>1, <1>2, QuietMove, Zenon DEF ThreadPCs
<1>4. SchedOK' /\ ClientOK'
  BY <1>1, Zenon DEF IndInv, SchedOK, ClientOK
<1>5. CountInv'
  BY <1>1, CountDown, Zenon
<1>6. "gone" \in PCs
  BY Zenon DEF PCs, ThreadPCs
<1>7. WorkInv'
  BY <1>0, <1>1, <1>3, <1>6, WorkSame, Zenon DEF InQueue
<1> QED
  BY <1>3, <1>4, <1>5, <1>7, Zenon DEF IndInv

(* A step of the clock or of the condition variable, in which nobody moves. *)
LEMMA StillInv ==
    ASSUME IndInv, UNCHANGED <<pc, clientVars, signalVars>>, SchedOK',
           UNCHANGED <<stopRequested, stopWhenEmpty, nThreadsServicingQueue, interrupted, task>>,
           InQueue => InQueue', taskQueue = <<>> => taskQueue' = <<>>
    PROVE  IndInv' /\ current' = current
<1> USE DEF IndInv, clientVars, signalVars
<1>1. PcOK' /\ ClientOK' /\ SignalOK'
  BY Zenon DEF PcOK, ClientOK, SignalOK
<1>2. \A t \in Runners : InCallback(t)' <=> InCallback(t)
  BY Zenon DEF InCallback
<1>3. RunInv'
  BY <1>2, Zenon DEF RunInv
<1>4. ShutInv' /\ SlotInv'
  BY <1>2, Zenon DEF ShutInv, SlotInv, Running, Before, AddersGone, Joined
<1>5. CountInv' /\ DrainInv'
  BY Zenon DEF CountInv, Counted, DrainInv, Joined
<1>6. WorkInv'
  BY Zenon DEF WorkInv, Before
<1>7. current' = current
  BY <1>2, CurrentSame, Zenon
<1> QED
  BY <1>1, <1>3, <1>4, <1>5, <1>6, <1>7, Zenon

(* Wake-ups, the clock, and MockForward.                                   *)
LEMMA WakeInv ==
    ASSUME IndInv, NEW t \in Threads, Wake(t), UNCHANGED Others
    PROVE  IndInv' /\ current' = current
<1>1. SchedOK'
  BY Zenon DEF IndInv, SchedOK, Wake
<1> QED
  BY <1>1, StillInv, Zenon DEF Wake, Others, InQueue

LEMMA TickInv ==
    ASSUME IndInv, Tick, UNCHANGED Others
    PROVE  IndInv' /\ current' = current
<1>1. now' \in Nat
  BY SMT DEF IndInv, SchedOK, Tick
<1>2. SchedOK'
  BY <1>1, Zenon DEF IndInv, SchedOK, Tick
<1> QED
  BY <1>2, StillInv, Zenon DEF Tick, Others, InQueue

LEMMA MockForwardInv ==
    ASSUME IndInv, MockForward, UNCHANGED Others
    PROVE  IndInv' /\ current' = current
<1> DEFINE R == [time : Int, f : Tasks]
<1>1. /\ Len(taskQueue) \in Nat /\ DOMAIN taskQueue = 1..Len(taskQueue)
      /\ \A i \in DOMAIN taskQueue : taskQueue[i] \in R
  <2> HIDE DEF R
  <2>1. taskQueue \in Seq(R)
    BY Zenon DEF IndInv, SchedOK, R
  <2>2. /\ Len(taskQueue) \in Nat /\ DOMAIN taskQueue = 1..Len(taskQueue)
        /\ taskQueue \in [1..Len(taskQueue) -> R]
    BY <2>1, LenProperties, Zenon
  <2> QED
    BY <2>2, Zenon
<1>2. ASSUME NEW i \in DOMAIN taskQueue
      PROVE  /\ [taskQueue[i] EXCEPT !.time = taskQueue[i].time - 1] \in R
             /\ [taskQueue[i] EXCEPT !.time = taskQueue[i].time - 1].f = taskQueue[i].f
  <2> DEFINE r == taskQueue[i]
  <2>1. r \in R
    BY <1>1, Zenon
  <2> HIDE DEF r
  <2>2. [r EXCEPT !.time = r.time - 1] \in R /\ [r EXCEPT !.time = r.time - 1].f = r.f
    BY <2>1, SMT
  <2> QED
    BY <2>2, Zenon DEF r
<1>3. taskQueue' = [i \in DOMAIN taskQueue |->
                       [taskQueue[i] EXCEPT !.time = taskQueue[i].time - 1]]
  BY Zenon DEF MockForward
<1>4. taskQueue' \in [1..Len(taskQueue) -> R]
  BY <1>1, <1>2, <1>3, Zenon
<1>5. taskQueue' \in Seq(R)
  <2> HIDE DEF R
  <2> QED
    BY <1>1, <1>4, FcnSeq, Zenon
<1>6. SchedOK'
  BY <1>5, NotifyTyped, Zenon DEF IndInv, SchedOK, MockForward
<1>7. InQueue => InQueue'
  BY <1>2, <1>3, Zenon DEF InQueue, HasTask
<1>8. taskQueue # <<>>
  BY SMT DEF MockForward
<1> QED
  BY <1>6, <1>7, <1>8, StillInv, Zenon DEF MockForward, Others

(* The steps inside serviceQueue together.                                 *)
LEMMA ServiceInv ==
    ASSUME IndInv, NEW t \in Threads, ServiceStep(t), UNCHANGED Others
    PROVE  IndInv' /\ current' = current
<1>1. CASE Enter(t)
  BY <1>1, TopInv, Zenon DEF Enter
<1>2. CASE Again(t)
  BY <1>2, TopInv, Zenon DEF Again
<1>3. CASE Seeded(t) \/ Woken(t)
  BY <1>3, AwaitInv, Zenon DEF Seeded, Woken
<1>4. CASE TimedOut(t)
  BY <1>4, WakeInv, Zenon DEF TimedOut
<1>5. CASE Resumed(t)
  BY <1>5, ResumedInv, Zenon
<1>6. CASE Interrupted(t)
  BY <1>6, InterruptedInv, Zenon
<1> QED
  BY <1>1, <1>2, <1>3, <1>4, <1>5, <1>6, Zenon DEF ServiceStep

-----------------------------------------------------------------------------
(* The steps of schedule, of Repeat and of the callback queue.             *)

(* A process schedules a task, at a point where it has nothing else to do. *)
LEMMA ScheduleInv ==
    ASSUME IndInv, NEW p \in Procs, NEW f \in Tasks, NEW at \in Int, schedule(p, f, at),
           pc[p] \in {"run", "schedule"}, p \in Threads \/ pc[p] # "run",
           pc[p] = "run" => task[p] # "ProcessQueue",
           pc[p] = "schedule" => f = "ProcessQueue", UNCHANGED Others
    PROVE  IndInv' /\ current' = current
<1>1. /\ Goto(p, "notify") /\ taskQueue' = Insert(taskQueue, f, at)
      /\ UNCHANGED <<now, waiting, stopRequested, stopWhenEmpty, nThreadsServicingQueue,
                     interrupted, task>>
      /\ UNCHANGED <<m_callbacks_pending, m_are_callbacks_running, callback, nAdded,
                     signalVars>>
  BY Zenon DEF schedule, Others, clientVars
<1>2. p = Main => ~Before
  BY Zenon DEF Before
<1>3. "notify" \in ThreadPCs /\ "notify" \in AdderPCs /\ "notify" \in MainPCs /\ "notify" \in PCs
  BY Zenon DEF PCs, ThreadPCs, AdderPCs, MainPCs
<1>4. /\ PcOK' /\ SignalOK' /\ RunInv' /\ ShutInv' /\ SlotInv' /\ DrainInv'
      /\ current' = current /\ (Before' => Before)
  BY <1>1, <1>2, <1>3, QuietMove, Zenon
<1>5. /\ Insert(taskQueue, f, at) \in Seq([time : Int, f : Tasks])
      /\ HasTask(Insert(taskQueue, f, at), f)
      /\ \A g : HasTask(taskQueue, g) => HasTask(Insert(taskQueue, f, at), g)
  BY InsertProps, Zenon DEF IndInv, SchedOK
<1>6. SchedOK' /\ ClientOK'
  BY <1>1, <1>5, Zenon DEF IndInv, SchedOK, ClientOK
<1>7. CountInv'
  BY <1>1, <1>3, CountSame, Zenon
<1>8. WorkInv'
  <2>1. CASE f = "ProcessQueue"
    BY <1>1, <1>5, <2>1, Zenon DEF WorkInv, InQueue
  <2>2. CASE pc[p] = "run"
    <3>1. InQueue => InQueue'
      BY <1>1, <1>5, Zenon DEF InQueue
    <3> QED
      BY <1>1, <1>3, <1>4, <2>2, <3>1, WorkSame, Zenon
  <2> QED
    BY <2>1, <2>2, Zenon
<1> QED
  BY <1>4, <1>6, <1>7, <1>8, Zenon DEF IndInv

(* Where a process goes on is a point of its own kind.                     *)
LEMMA HomeTyped ==
    ASSUME NEW p \in Procs
    PROVE  /\ p \in Threads => Home(p) \in ThreadPCs
           /\ p \in Adders => Home(p) \in AdderPCs
           /\ p = Main => Home(p) \in MainPCs
           /\ Home(p) \in PCs
           /\ Home(p) \in {"top", "flush", "idle"}
BY Kinds, Zenon DEF Home, Procs, ThreadPCs, AdderPCs, MainPCs, PCs

(* The predicate of a timer ran.                                           *)
LEMMA RepeatInv ==
    ASSUME IndInv, NEW t \in Threads, Repeat(t, Home(t)), UNCHANGED Others
    PROVE  IndInv' /\ current' = current
<1>0. t \in Procs /\ t \in Runners /\ t # Main /\ t \notin Adders
  BY Kinds, Zenon
<1>1. pc[t] = "run" /\ task[t] \in Timers /\ task[t] # "ProcessQueue"
  BY Zenon DEF Repeat
<1>2. CASE schedule(t, task[t], now + Delta[task[t]])
  <2>1. now + Delta[task[t]] \in Int
    BY <1>1, SMT DEF IndInv, SchedOK
  <2>2. task[t] \in Tasks
    BY <1>1, Zenon DEF Tasks
  <2> QED
    BY <1>0, <1>1, <1>2, <2>1, <2>2, ScheduleInv, Zenon
<1>3. CASE Goto(t, Home(t)) /\ UNCHANGED schedVars
  <2>1. /\ UNCHANGED <<taskQueue, now, waiting, stopRequested, stopWhenEmpty,
                       nThreadsServicingQueue, interrupted, task>>
        /\ UNCHANGED <<m_callbacks_pending, m_are_callbacks_running, callback, nAdded,
                       signalVars>>
    BY <1>3, Zenon DEF schedVars, Others, clientVars
  <2>2. /\ PcOK' /\ SignalOK' /\ RunInv' /\ ShutInv' /\ SlotInv' /\ DrainInv'
        /\ current' = current /\ (Before' => Before)
    BY <1>0, <1>1, <1>3, <2>1, HomeTyped, QuietMove, Zenon
  <2>3. SchedOK' /\ ClientOK'
    BY <2>1, Zenon DEF IndInv, SchedOK, ClientOK
  <2>4. CountInv'
    BY <1>0, <1>1, <1>3, <2>1, HomeTyped, CountSame, Zenon
  <2>5. WorkInv'
    BY <1>0, <1>1, <1>3, <2>1, <2>2, HomeTyped, WorkSame, Zenon DEF InQueue
  <2> QED
    BY <2>2, <2>3, <2>4, <2>5, Zenon DEF IndInv
<1> QED
  BY <1>2, <1>3, Zenon DEF Repeat

(* MaybeScheduleProcessQueue, the call of schedule, and its notification.  *)
LEMMA QueueStepInv ==
    ASSUME IndInv, NEW p \in Procs, QueueStep(p)
    PROVE  IndInv' /\ [Queue!Next]_(Queue!vars)
<1>0. UNCHANGED Others /\ pc[p] \in {"maybe", "schedule", "notify"}
  BY Zenon DEF QueueStep, ClientStep, Others, MaybeScheduleProcessQueue, ScheduleProcessQueue,
               Notify, schedule
<1>1. UNCHANGED <<m_callbacks_pending, m_are_callbacks_running, callback, nAdded, signalVars>>
  BY <1>0, Zenon DEF Others, clientVars
<1>2. p = Main => ~Before /\ pc[p] # "done"
  BY <1>0, Zenon DEF Before
<1>3. IndInv' /\ current' = current
  <2>1. ASSUME NEW l \in {Home(p), "schedule"}, Goto(p, l), pc[p] \in {"maybe", "notify"},
               UNCHANGED <<taskQueue, now, stopRequested, stopWhenEmpty,
                           nThreadsServicingQueue, interrupted, task>>,
               waiting' \subseteq Threads,
               pc[p] = "maybe" /\ ~NothingToRun => l = "schedule"
        PROVE  IndInv' /\ current' = current
    <3>1. /\ l \in PCs /\ l \in {"top", "flush", "idle", "schedule"}
          /\ p \in Threads => l \in ThreadPCs
          /\ p \in Adders => l \in AdderPCs
          /\ p = Main => l \in MainPCs
      BY <2>1, HomeTyped, Zenon DEF PCs, ThreadPCs, AdderPCs, MainPCs
    <3>2. /\ PcOK' /\ SignalOK' /\ RunInv' /\ ShutInv' /\ SlotInv' /\ DrainInv'
          /\ current' = current /\ (Before' => Before)
      BY <1>0, <1>1, <1>2, <2>1, <3>1, QuietMove, Zenon
    <3>3. SchedOK' /\ ClientOK'
      BY <1>1, <2>1, Zenon DEF IndInv, SchedOK, ClientOK
    <3>4. CountInv'
      BY <2>1, <3>1, CountSame, Zenon
    <3>5. pc'[p] = l
      BY <2>1, <3>1, Moved, Zenon DEF IndInv
    <3>6. WorkInv'
      <4>1. CASE pc[p] = "maybe" /\ NothingToRun
        BY <1>1, <4>1, Zenon DEF WorkInv, NothingToRun
      <4>2. CASE pc[p] = "maybe" /\ ~NothingToRun
        BY <2>1, <3>5, <4>2, Zenon DEF WorkInv
      <4>3. CASE pc[p] = "notify"
        BY <1>1, <2>1, <3>1, <3>2, <4>3, WorkSame, Zenon DEF InQueue
      <4> QED
        BY <2>1, <4>1, <4>2, <4>3, Zenon
    <3> QED
      BY <3>2, <3>3, <3>4, <3>6, Zenon DEF IndInv
  <2>2. CASE MaybeScheduleProcessQueue(p)
    <3>1. /\ pc[p] = "maybe" /\ Goto(p, IF NothingToRun THEN Home(p) ELSE "schedule")
          /\ UNCHANGED <<taskQueue, now, stopRequested, stopWhenEmpty, waiting,
                         nThreadsServicingQueue, interrupted, task>>
      BY <2>2, Zenon DEF MaybeScheduleProcessQueue, schedVars
    <3>2. waiting' \subseteq Threads
      BY <3>1, Zenon DEF IndInv, SchedOK
    <3>3. CASE NothingToRun
      BY <2>1, <3>1, <3>2, <3>3, Zenon
    <3>4. CASE ~NothingToRun
      BY <2>1, <3>1, <3>2, <3>4, Zenon
    <3> QED
      BY <3>3, <3>4, Zenon
  <2>3. CASE ScheduleProcessQueue(p)
    <3>1. now \in Int /\ "ProcessQueue" \in Tasks
      BY SMT DEF IndInv, SchedOK, Tasks
    <3> QED
      BY <1>0, <2>3, <3>1, ScheduleInv, Zenon DEF ScheduleProcessQueue
  <2>4. CASE Notify(p, Home(p))
    <3>1. waiting' \subseteq Threads
      BY <2>4, NotifyTyped, Zenon DEF Notify, IndInv, SchedOK
    <3> QED
      BY <2>1, <2>4, <3>1, Zenon DEF Notify
  <2> QED
    BY <2>2, <2>3, <2>4, Zenon DEF QueueStep, ClientStep
<1> QED
  BY <1>1, <1>3, Zenon DEF Queue!vars

(* A callback is added, which is Add of the abstract queue.                *)
LEMMA AddInv ==
    ASSUME IndInv, NEW p \in Adders \cup {Main}, AddToProcessQueue(p), UNCHANGED signalVars,
           p \in Adders => Running, p = Main => pc[Main] = "destroyed", pc[p] \in {"idle", "destroyed"}
    PROVE  IndInv' /\ Queue!Next
<1>0. p \in Procs /\ p \notin Threads
  BY Kinds, Zenon
<1>1. /\ Goto(p, "maybe") /\ nAdded' = nAdded + 1
      /\ m_callbacks_pending' = Append(m_callbacks_pending, nAdded + 1)
      /\ UNCHANGED <<m_are_callbacks_running, callback, taskQueue, now, waiting, stopRequested,
                     stopWhenEmpty, nThreadsServicingQueue, interrupted, task>>
  BY Zenon DEF AddToProcessQueue, schedVars
<1>2. "maybe" \in AdderPCs /\ "maybe" \in MainPCs /\ "maybe" \in PCs
  BY Zenon DEF PCs, AdderPCs, MainPCs
<1>3. p = Main => ~Before
  BY Zenon DEF Before
<1>4. /\ PcOK' /\ SignalOK' /\ RunInv' /\ ShutInv' /\ SlotInv' /\ DrainInv'
      /\ current' = current /\ (Before' => Before)
  BY <1>0, <1>1, <1>2, <1>3, QuietMove, Zenon
<1>5. nAdded + 1 \in Nat \ {0} /\ nAdded + 1 \in Nat
  BY SMT DEF IndInv, ClientOK
<1>6. Append(m_callbacks_pending, nAdded + 1) \in Seq(Nat \ {0})
  BY <1>5, AppendProperties, Zenon DEF IndInv, ClientOK
<1>7. SchedOK' /\ ClientOK'
  BY <1>1, <1>5, <1>6, Zenon DEF IndInv, SchedOK, ClientOK
<1>8. CountInv'
  BY <1>0, <1>1, <1>2, CountSame, Zenon
<1>9. WorkInv'
  <2>1. pc'[p] = "maybe"
    BY <1>0, <1>1, <1>2, Moved, Zenon DEF IndInv
  <2> QED
    BY <1>0, <2>1, Zenon DEF WorkInv
<1>10. Queue!Add
  BY <1>1, <1>4, Zenon DEF Queue!Add
<1> QED
  BY <1>4, <1>7, <1>8, <1>9, <1>10, Zenon DEF IndInv, Queue!Next

(* A step of the thread of Shutdown between two calls, past join_all.      *)
LEMMA FlushMove ==
    ASSUME IndInv, NEW l \in {"flush", "run", "done"}, Goto(Main, l),
           pc[Main] \in {"destroyed", "flush"},
           UNCHANGED <<schedVars, clientVars, signalVars>>
    PROVE  IndInv' /\ [Queue!Next]_(Queue!vars)
<1>0. Main \in Procs /\ Main \notin Threads /\ Main \notin Adders /\ ~Before
  BY Kinds, Zenon DEF Before
<1>1. UNCHANGED <<m_callbacks_pending, m_are_callbacks_running, callback, nAdded, taskQueue, now,
                  waiting, stopRequested, stopWhenEmpty, nThreadsServicingQueue, interrupted,
                  task>>
  BY Zenon DEF schedVars, clientVars
<1>2. l \in PCs /\ l \in MainPCs
  BY Zenon DEF PCs, MainPCs
<1>3. /\ PcOK' /\ SignalOK' /\ RunInv' /\ ShutInv' /\ SlotInv' /\ DrainInv'
      /\ current' = current /\ (Before' => Before)
  BY <1>0, <1>1, <1>2, QuietMove, Zenon
<1>4. SchedOK' /\ ClientOK'
  BY <1>1, Zenon DEF IndInv, SchedOK, ClientOK
<1>5. CountInv'
  BY <1>0, <1>1, <1>2, CountSame, Zenon
<1>6. WorkInv'
  BY <1>0, <1>3, Zenon DEF WorkInv
<1> QED
  BY <1>1, <1>3, <1>4, <1>5, <1>6, Zenon DEF IndInv, Queue!vars

-----------------------------------------------------------------------------
(* The steps of a thread inside ProcessQueue.                              *)

(* A thread takes a callback, or finds nothing to run.                     *)
LEMMA ProcessInv ==
    ASSUME IndInv, NEW t \in Runners, Process(t)
    PROVE  IndInv' /\ [Queue!Next]_(Queue!vars)
<1>0. /\ t \in Procs /\ t \notin Adders
      /\ t = Main => ~Before /\ pc[t] # "done"
      /\ pc[t] = "run" /\ task[t] = "ProcessQueue"
  BY Kinds, Zenon DEF Process, ProcessQueue, Before
<1>1. /\ UNCHANGED <<taskQueue, now, waiting, stopRequested, stopWhenEmpty,
                     nThreadsServicingQueue, interrupted, task, registered, alive, slot, how>>
      /\ slots' = [slots EXCEPT ![t] = IF pc'[t] = "callback" THEN registered ELSE {}]
  BY Zenon DEF Process, ProcessQueue, schedVars
<1>2. slots[t] = {} /\ slot[t] = {}
  BY <1>0, Zenon DEF IndInv, SlotInv, InCallback
<1>3. SchedOK'
  BY <1>1, Zenon DEF IndInv, SchedOK
<1>4. CASE NothingToRun
  <2>1. /\ Goto(t, Home(t))
        /\ UNCHANGED <<m_callbacks_pending, m_are_callbacks_running, callback, nAdded>>
    BY <1>4, Zenon DEF Process, ProcessQueue, clientVars
  <2>2. pc'[t] = Home(t)
    BY <1>0, <2>1, HomeTyped, Moved, Zenon DEF IndInv
  <2>3. pc'[t] # "callback"
    BY <1>0, <2>2, HomeTyped, Zenon
  <2>4. slots' = slots
    <3>1. slots' = [slots EXCEPT ![t] = {}]
      BY <1>1, <2>3, Zenon
    <3> QED
      BY <1>2, <3>1, Zenon DEF IndInv, SignalOK
  <2>5. /\ PcOK' /\ SignalOK' /\ RunInv' /\ ShutInv' /\ SlotInv' /\ DrainInv'
        /\ current' = current /\ (Before' => Before)
    BY <1>0, <1>1, <2>1, <2>4, HomeTyped, QuietMove, Zenon DEF signalVars
  <2>6. ClientOK'
    BY <2>1, Zenon DEF IndInv, ClientOK
  <2>7. CountInv'
    BY <1>0, <1>1, <2>1, HomeTyped, CountSame, Zenon
  <2>8. WorkInv'
    BY <1>4, <2>1, Zenon DEF WorkInv, NothingToRun
  <2> QED
    BY <1>3, <2>1, <2>5, <2>6, <2>7, <2>8, Zenon DEF IndInv, Queue!vars
<1>5. CASE ~NothingToRun
  <2>1. /\ Goto(t, "callback") /\ m_are_callbacks_running' = TRUE
        /\ callback' = [callback EXCEPT ![t] = Head(m_callbacks_pending)]
        /\ m_callbacks_pending' = Tail(m_callbacks_pending)
        /\ UNCHANGED nAdded
        /\ m_callbacks_pending # <<>> /\ ~m_are_callbacks_running
    BY <1>5, Zenon DEF Process, ProcessQueue, NothingToRun
  <2>2. "callback" \in PCs /\ "callback" \in ThreadPCs /\ "callback" \in MainPCs
    BY Zenon DEF PCs, ThreadPCs, MainPCs
  <2>3. /\ PcOK' /\ ShutInv' /\ DrainInv'
        /\ pc'[t] = "callback" /\ \A q \in Procs : q # t => pc'[q] = pc[q]
        /\ Before' <=> Before
    BY <1>0, <1>1, <2>1, <2>2, AllowedMove, Zenon
  <2>4. Head(m_callbacks_pending) \in Nat \ {0} /\ Tail(m_callbacks_pending) \in Seq(Nat \ {0})
    BY <2>1, HeadTailProperties, Zenon DEF IndInv, ClientOK
  <2>5. callback' \in [Runners -> Nat] /\ callback'[t] = Head(m_callbacks_pending)
    BY <2>1, <2>4, Zenon DEF IndInv, ClientOK
  <2>6. ClientOK'
    BY <2>1, <2>4, <2>5, Zenon DEF IndInv, ClientOK
  <2>7. SignalOK' /\ \A u \in Runners : u # t => slots'[u] = slots[u]
    BY <1>1, <2>3, Zenon DEF IndInv, SignalOK
  <2>8. \A u \in Runners : ~InCallback(u)
    BY <2>1, Zenon DEF IndInv, RunInv
  <2>9. InCallback(t)' /\ \A u \in Runners : InCallback(u)' => u = t
    BY <2>3, <2>8, Kinds, Zenon DEF InCallback
  <2>10. RunInv'
    BY <2>1, <2>4, <2>5, <2>9, Zenon DEF RunInv
  <2>11. SlotInv'
    <3>1. (\A u \in Runners : slot[u] # {} => pc[u] = "slot")'
      BY <1>1, <1>2, <2>3, Kinds, Zenon DEF IndInv, SlotInv
    <3>2. (\A u \in Runners : slots[u] # {} => InCallback(u))'
      BY <2>7, <2>8, <2>9, Zenon DEF IndInv, SlotInv
    <3>3. (pc[Main] # "done" => Late \subseteq alive)'
      BY <1>0, <1>1, <2>3, Kinds, Zenon DEF IndInv, SlotInv
    <3> QED
      BY <1>1, <2>3, <3>1, <3>2, <3>3, Zenon DEF IndInv, SlotInv
  <2>12. CountInv'
    BY <1>0, <1>1, <2>1, <2>2, CountSame, Zenon
  <2>13. WorkInv'
    BY <2>1, Zenon DEF WorkInv
  <2>14. Queue!Begin
    <3>1. current = 0
      BY <2>8, CurrentNone, Zenon
    <3>2. current' = callback'[t]
      BY <2>9, CurrentOf, Zenon DEF InCallback, current, Executing
    <3> QED
      BY <2>1, <2>5, <3>1, <3>2, Zenon DEF Queue!Begin
  <2> QED
    BY <1>3, <2>3, <2>6, <2>7, <2>10, <2>11, <2>12, <2>13, <2>14, Zenon DEF IndInv, Queue!Next
<1> QED
  BY <1>4, <1>5, Zenon

(* A step of the thread that runs the callback, between two slots.         *)
LEMMA WithinCallback ==
    ASSUME IndInv, NEW t \in Runners, InCallback(t), NEW l \in {"callback", "slot"}, Goto(t, l),
           UNCHANGED <<schedVars, clientVars, registered, alive, how>>,
           slots' \in [Runners -> SUBSET Interfaces], slot' \in [Runners -> SUBSET Interfaces],
           \A u \in Runners : u # t => slots'[u] = slots[u] /\ slot'[u] = slot[u],
           slot'[t] # {} => l = "slot",
           t = Main => slot'[t] \subseteq Late
    PROVE  IndInv' /\ [Queue!Next]_(Queue!vars)
<1>0. /\ t \in Procs /\ t \notin Adders
      /\ t = Main => ~Before /\ pc[t] # "done"
      /\ pc[t] \in {"callback", "slot"}
  BY Kinds, Zenon DEF InCallback, Before
<1>1. /\ UNCHANGED <<taskQueue, now, waiting, stopRequested, stopWhenEmpty,
                     nThreadsServicingQueue, interrupted, task>>
      /\ UNCHANGED <<m_callbacks_pending, m_are_callbacks_running, callback, nAdded>>
  BY Zenon DEF schedVars, clientVars
<1>2. l \in PCs /\ l \in ThreadPCs /\ l \in MainPCs
  BY Zenon DEF PCs, ThreadPCs, MainPCs
<1>3. /\ PcOK' /\ ShutInv' /\ DrainInv'
      /\ pc'[t] = l /\ \A q \in Procs : q # t => pc'[q] = pc[q]
      /\ Before' <=> Before
  BY <1>0, <1>1, <1>2, AllowedMove, Zenon
<1>4. SchedOK' /\ ClientOK' /\ SignalOK'
  BY <1>1, Zenon DEF IndInv, SchedOK, ClientOK, SignalOK
<1>5. \A u \in Runners : InCallback(u)' <=> InCallback(u)
  BY <1>0, <1>3, Kinds, Zenon DEF InCallback
<1>6. RunInv'
  BY <1>1, <1>5, Zenon DEF IndInv, RunInv
<1>7. SlotInv'
  <2>1. (\A u \in Runners : slot[u] # {} => pc[u] = "slot")'
    BY <1>3, Kinds, Zenon DEF IndInv, SlotInv
  <2>2. (\A u \in Runners : slots[u] # {} => InCallback(u))'
    BY <1>5, Zenon DEF IndInv, SlotInv
  <2>3. (pc[Main] # "done" => Late \subseteq alive)'
    BY <1>0, <1>3, Kinds, Zenon DEF IndInv, SlotInv
  <2>4. (slot[Main] \subseteq Late)'
    BY Kinds, Zenon DEF IndInv, SlotInv
  <2> QED
    BY <1>3, <2>1, <2>2, <2>3, <2>4, Zenon DEF IndInv, SlotInv
<1>8. CountInv'
  BY <1>0, <1>1, <1>2, CountSame, Zenon
<1>9. WorkInv'
  BY <1>0, <1>1, <1>2, <1>3, WorkSame, Zenon DEF InQueue
<1>10. current' = current
  BY <1>1, <1>5, CurrentSame, Zenon DEF IndInv
<1> QED
  BY <1>1, <1>3, <1>4, <1>6, <1>7, <1>8, <1>9, <1>10, Zenon DEF IndInv, Queue!vars

(* The signal goes on to the next connection, and a slot returns.          *)
LEMMA CallSlotInv ==
    ASSUME IndInv, NEW t \in Runners, CallSlot(t)
    PROVE  IndInv' /\ [Queue!Next]_(Queue!vars)
<1>0. InCallback(t) /\ UNCHANGED <<schedVars, clientVars, registered, alive, how>>
  BY Zenon DEF CallSlot, InCallback
<1>1. PICK i \in slots[t] :
         /\ slots' = [slots EXCEPT ![t] = @ \ {i}]
         /\ IF i \in registered
            THEN slot' = [slot EXCEPT ![t] = {i}] /\ Goto(t, "slot")
            ELSE UNCHANGED <<slot, pc>>
  BY Zenon DEF CallSlot
<1>2. i \in Interfaces
  BY Zenon DEF IndInv, SignalOK
<1>3. /\ slots' \in [Runners -> SUBSET Interfaces]
      /\ \A u \in Runners : u # t => slots'[u] = slots[u]
  BY <1>1, Zenon DEF IndInv, SignalOK
<1>4. CASE i \in registered
  <2>1. slot' = [slot EXCEPT ![t] = {i}] /\ Goto(t, "slot")
    BY <1>1, <1>4, Zenon
  <2>2. /\ slot' \in [Runners -> SUBSET Interfaces] /\ slot'[t] = {i}
        /\ \A u \in Runners : u # t => slot'[u] = slot[u]
    BY <1>2, <2>1, Zenon DEF IndInv, SignalOK
  <2>3. t = Main => i \in Late
    BY <1>0, <1>2, <1>4, Zenon DEF InCallback, IndInv, ShutInv, Running, Interfaces
  <2> QED
    BY <1>0, <1>3, <2>1, <2>2, <2>3, WithinCallback, Zenon
<1>5. CASE i \notin registered
  <2>1. UNCHANGED <<slot, pc>>
    BY <1>1, <1>5, Zenon
  <2>2. pc[t] = "callback" /\ t \in Procs
    BY Kinds, Zenon DEF CallSlot
  <2>3. Goto(t, "callback")
    BY <2>1, <2>2, Zenon DEF Goto, IndInv, PcOK
  <2>4. slot[t] = {}
    BY <2>2, Zenon DEF IndInv, SlotInv
  <2>5. slot' \in [Runners -> SUBSET Interfaces]
    BY <2>1, Zenon DEF IndInv, SignalOK
  <2> QED
    BY <1>0, <1>3, <2>1, <2>3, <2>4, <2>5, WithinCallback, Zenon
<1> QED
  BY <1>4, <1>5, Zenon

LEMMA SlotReturnsInv ==
    ASSUME IndInv, NEW t \in Runners, SlotReturns(t)
    PROVE  IndInv' /\ [Queue!Next]_(Queue!vars)
<1>1. InCallback(t) /\ UNCHANGED <<schedVars, clientVars, registered, alive, how, slots>>
  BY Zenon DEF SlotReturns, InCallback
<1>2. Goto(t, "callback") /\ slot' = [slot EXCEPT ![t] = {}]
  BY Zenon DEF SlotReturns
<1>3. /\ slot' \in [Runners -> SUBSET Interfaces] /\ slot'[t] = {}
      /\ slots' \in [Runners -> SUBSET Interfaces]
      /\ \A u \in Runners : u # t => slots'[u] = slots[u] /\ slot'[u] = slot[u]
  BY <1>1, <1>2, Zenon DEF IndInv, SignalOK
<1> QED
  BY <1>1, <1>2, <1>3, WithinCallback, Zenon

(* The callback returned, which is End of the abstract queue.              *)
LEMMA EndCallbackInv ==
    ASSUME IndInv, NEW t \in Runners, EndCallback(t)
    PROVE  IndInv' /\ Queue!Next
<1>0. /\ t \in Procs /\ t \notin Adders /\ InCallback(t) /\ pc[t] = "callback"
      /\ t = Main => ~Before
      /\ slots[t] = {} /\ slot[t] = {}
  BY Kinds, Zenon DEF EndCallback, InCallback, Before, IndInv, SlotInv
<1>1. /\ Goto(t, "maybe") /\ m_are_callbacks_running' = FALSE
      /\ callback' = [callback EXCEPT ![t] = 0]
      /\ UNCHANGED <<m_callbacks_pending, nAdded, taskQueue, now, waiting, stopRequested,
                     stopWhenEmpty, nThreadsServicingQueue, interrupted, task, registered,
                     alive, slots, slot, how>>
  BY Zenon DEF EndCallback, CallbacksNotRunning, schedVars, signalVars
<1>2. "maybe" \in PCs /\ "maybe" \in ThreadPCs /\ "maybe" \in MainPCs
  BY Zenon DEF PCs, ThreadPCs, MainPCs
<1>3. /\ PcOK' /\ ShutInv' /\ DrainInv'
      /\ pc'[t] = "maybe" /\ \A q \in Procs : q # t => pc'[q] = pc[q]
      /\ Before' <=> Before
  BY <1>0, <1>1, <1>2, AllowedMove, Zenon
<1>4. SchedOK' /\ SignalOK'
  BY <1>1, Zenon DEF IndInv, SchedOK, SignalOK
<1>5. ClientOK'
  <2>1. 0 \in Nat
    BY SMT
  <2> QED
    BY <1>1, <2>1, Zenon DEF IndInv, ClientOK
<1>6. \A u \in Runners : InCallback(u) => t = u
  BY <1>0, Zenon DEF IndInv, RunInv
<1>7. \A u \in Runners : ~InCallback(u)'
  BY <1>3, <1>6, Kinds, Zenon DEF InCallback
<1>8. RunInv'
  BY <1>1, <1>7, Zenon DEF RunInv
<1>9. SlotInv'
  <2>1. (\A u \in Runners : slot[u] # {} => pc[u] = "slot")'
    BY <1>0, <1>1, <1>3, Kinds, Zenon DEF IndInv, SlotInv
  <2>2. (\A u \in Runners : slots[u] # {} => InCallback(u))'
    BY <1>0, <1>1, <1>6, Zenon DEF IndInv, SlotInv
  <2>3. (pc[Main] # "done" => Late \subseteq alive)'
    BY <1>0, <1>1, <1>3, Kinds, Zenon DEF IndInv, SlotInv
  <2> QED
    BY <1>1, <1>3, <2>1, <2>2, <2>3, Zenon DEF IndInv, SlotInv
<1>10. CountInv'
  BY <1>0, <1>1, <1>2, CountSame, Zenon
<1>11. WorkInv'
  BY <1>0, <1>3, Zenon DEF WorkInv
<1>12. Queue!End
  <2>1. current = callback[t] /\ callback[t] # 0
    BY <1>0, <1>6, CurrentOf, Zenon DEF IndInv, RunInv
  <2>2. current' = 0
    BY <1>7, CurrentNone, Zenon DEF InCallback, current, Executing
  <2> QED
    BY <1>1, <2>1, <2>2, Zenon DEF Queue!End
<1> QED
  BY <1>3, <1>4, <1>5, <1>8, <1>9, <1>10, <1>11, <1>12, Zenon DEF IndInv, Queue!Next

-----------------------------------------------------------------------------
(* Shutdown.                                                               *)

(* What a step of its thread that keeps the queues leaves alone.           *)
LEMMA MainMove ==
    ASSUME IndInv, NEW l \in MainPCs, Goto(Main, l), l \notin {"callback", "slot"},
           pc[Main] \notin {"callback", "slot"},
           UNCHANGED <<clientVars, taskQueue, now, task, nThreadsServicingQueue, slots, slot>>,
           Before' => Before
    PROVE  /\ PcOK' /\ ClientOK' /\ RunInv' /\ CountInv' /\ WorkInv'
           /\ pc'[Main] = l
           /\ \A q \in Procs : q # Main => pc'[q] = pc[q]
           /\ Joined' <=> Joined
           /\ AddersGone' <=> AddersGone
           /\ \A t \in Runners : InCallback(t)' <=> InCallback(t)
           /\ UNCHANGED <<m_callbacks_pending, current, nAdded>>
<1> USE DEF IndInv
<1>0. Main \in Procs /\ Main \notin Threads /\ Main \notin Adders /\ l \in PCs
  BY Kinds, Zenon DEF PCs
<1>1. UNCHANGED <<m_callbacks_pending, m_are_callbacks_running, callback, nAdded>>
  BY Zenon DEF clientVars
<1>2. PcOK'
  BY <1>0, MovedTyped, Zenon
<1>3. pc'[Main] = l /\ \A q \in Procs : q # Main => pc'[q] = pc[q]
  BY <1>0, Moved, Zenon
<1>4. \A t \in Runners : InCallback(t)' <=> InCallback(t)
  BY <1>3, Kinds, Zenon DEF InCallback
<1>5. RunInv' /\ ClientOK'
  BY <1>1, <1>4, Zenon DEF RunInv, ClientOK
<1>6. /\ Joined' <=> Joined
      /\ AddersGone' <=> AddersGone
  BY <1>3, Kinds, Zenon DEF Joined, AddersGone
<1>7. CountInv'
  BY <1>0, CountSame, Zenon
<1>8. WorkInv'
  <2>1. ASSUME Before' PROVE pc[Main] \notin {"maybe", "schedule"}
    BY <2>1, Zenon DEF Before
  <2>2. CASE Before'
    BY <1>0, <1>1, <2>1, <2>2, WorkSame, Zenon DEF InQueue
  <2>3. CASE ~Before'
    BY <2>3, Zenon DEF WorkInv
  <2> QED
    BY <2>2, <2>3, Zenon
<1>9. current' = current
  BY <1>1, <1>4, CurrentSame, Zenon
<1> QED
  BY <1>1, <1>2, <1>3, <1>4, <1>5, <1>6, <1>7, <1>8, <1>9, Zenon

(* Interfaces come and go while the node runs.                             *)
LEMMA RegisterInv ==
    ASSUME IndInv, NEW i \in Interfaces, RegisterValidationInterface(i)
    PROVE  IndInv' /\ [Queue!Next]_(Queue!vars)
<1>0. /\ pc[Main] = "up" /\ registered' = registered \cup {i}
      /\ UNCHANGED <<schedVars, pc, clientVars, alive, slots, slot, how>>
  BY Zenon DEF RegisterValidationInterface
<1>1. Goto(Main, "up") /\ "up" \in MainPCs
  BY <1>0, Kinds, Zenon DEF Goto, IndInv, PcOK, MainPCs
<1>2. Before /\ Before' /\ Running /\ Running'
  BY <1>0, Zenon DEF Before, Running
<1>3. UNCHANGED <<taskQueue, now, waiting, stopRequested, stopWhenEmpty,
                  nThreadsServicingQueue, interrupted, task>>
  BY <1>0, Zenon DEF schedVars
<1>4. /\ PcOK' /\ ClientOK' /\ RunInv' /\ CountInv' /\ WorkInv'
      /\ \A t \in Runners : InCallback(t)' <=> InCallback(t)
      /\ UNCHANGED <<m_callbacks_pending, current, nAdded>>
  BY <1>0, <1>1, <1>2, <1>3, MainMove, Zenon
<1>5. SchedOK' /\ SignalOK'
  BY <1>0, <1>3, Zenon DEF IndInv, SchedOK, SignalOK
<1>6. ShutInv'
  BY <1>0, <1>2, <1>3, Zenon DEF IndInv, ShutInv
<1>7. SlotInv' /\ DrainInv'
  BY <1>0, <1>2, <1>4, Zenon DEF IndInv, SlotInv, DrainInv
<1> QED
  BY <1>4, <1>5, <1>6, <1>7, Zenon DEF IndInv, Queue!vars

LEMMA UnregisterInv ==
    ASSUME IndInv, NEW i \in Interfaces, UnregisterValidationInterface(i)
    PROVE  IndInv' /\ [Queue!Next]_(Queue!vars)
<1>0. /\ Running /\ registered' = registered \ {i} /\ Goto(Main, "stopping")
      /\ UNCHANGED <<schedVars, clientVars, alive, slots, slot, how>>
  BY Zenon DEF UnregisterValidationInterface
<1>1. "stopping" \in MainPCs /\ Before
  BY <1>0, Zenon DEF MainPCs, Running, Before
<1>2. UNCHANGED <<taskQueue, now, waiting, stopRequested, stopWhenEmpty,
                  nThreadsServicingQueue, interrupted, task>>
  BY <1>0, Zenon DEF schedVars
<1>3. /\ PcOK' /\ ClientOK' /\ RunInv' /\ CountInv' /\ WorkInv'
      /\ pc'[Main] = "stopping"
      /\ \A q \in Procs : q # Main => pc'[q] = pc[q]
      /\ \A t \in Runners : InCallback(t)' <=> InCallback(t)
      /\ UNCHANGED <<m_callbacks_pending, current, nAdded>>
  BY <1>0, <1>1, <1>2, MainMove, Zenon DEF Running
<1>4. Before' /\ Running'
  BY <1>3, Zenon DEF Before, Running
<1>5. SchedOK' /\ SignalOK'
  BY <1>0, <1>2, Zenon DEF IndInv, SchedOK, SignalOK
<1>6. ShutInv'
  <2>1. \A t \in Threads : pc'[t] = pc[t]
    BY <1>3, Kinds, Zenon
  <2> QED
    BY <1>0, <1>2, <1>4, <2>1, Zenon DEF IndInv, ShutInv
<1>7. SlotInv'
  <2>1. (\A t \in Runners : slot[t] # {} => pc[t] = "slot")'
    BY <1>0, <1>3, Kinds, Zenon DEF IndInv, SlotInv, Running
  <2> QED
    BY <1>0, <1>1, <1>3, <1>4, <2>1, Zenon DEF IndInv, SlotInv, Running
<1>8. DrainInv'
  BY <1>3, Zenon DEF DrainInv
<1> QED
  BY <1>3, <1>5, <1>6, <1>7, <1>8, Zenon DEF IndInv, Queue!vars

(* The threads are told to end.                                            *)
LEMMA StopThreadsInv ==
    ASSUME IndInv, NEW h \in HowToStop, StopThreads(h)
    PROVE  IndInv' /\ [Queue!Next]_(Queue!vars)
<1>0. /\ Running /\ registered \cap Early = {} /\ AddersGone
      /\ how' = h /\ h \in {"interrupt", "drain", "stop"} /\ how = "none"
      /\ UNCHANGED <<clientVars, registered, alive, slots, slot, taskQueue, now, waiting,
                     nThreadsServicingQueue, task>>
      /\ ~stopRequested /\ interrupted = {}
  BY Zenon DEF StopThreads, stop, IndInv, ShutInv
<1>1. PICK l \in {"notifyall", "join"} : Goto(Main, l)
  BY Zenon DEF StopThreads
<1>2. /\ interrupted' \subseteq Threads
      /\ stopRequested' \in BOOLEAN /\ stopWhenEmpty' \in BOOLEAN
      /\ how' = "drain" => ~stopRequested' /\ interrupted' = {}
  <2>1. CASE h = "interrupt"
    BY <1>0, <2>1, Zenon DEF StopThreads, IndInv, SchedOK
  <2>2. CASE h = "drain"
    BY <1>0, <2>2, Zenon DEF StopThreads, stop, IndInv, SchedOK
  <2>3. CASE h = "stop"
    BY <1>0, <2>3, Zenon DEF StopThreads, stop, IndInv, SchedOK
  <2> QED
    BY <1>0, <2>1, <2>2, <2>3, Zenon
<1>3. l \in MainPCs /\ Before /\ l \notin {"callback", "slot"} /\ pc[Main] \notin {"callback", "slot"}
  BY <1>0, Zenon DEF MainPCs, Running, Before
<1>4. /\ PcOK' /\ ClientOK' /\ RunInv' /\ CountInv' /\ WorkInv'
      /\ pc'[Main] = l
      /\ \A q \in Procs : q # Main => pc'[q] = pc[q]
      /\ Joined' <=> Joined
      /\ AddersGone' <=> AddersGone
      /\ \A t \in Runners : InCallback(t)' <=> InCallback(t)
      /\ UNCHANGED <<m_callbacks_pending, current, nAdded>>
  BY <1>0, <1>1, <1>3, MainMove, Zenon
<1>5. Before' /\ ~Running'
  BY <1>4, Zenon DEF Before, Running
<1>6. SchedOK' /\ SignalOK'
  BY <1>0, <1>2, Zenon DEF IndInv, SchedOK, SignalOK
<1>7. ShutInv'
  BY <1>0, <1>2, <1>4, <1>5, Zenon DEF ShutInv
<1>8. SlotInv'
  <2>1. (\A t \in Runners : slot[t] # {} => pc[t] = "slot")'
    BY <1>0, <1>3, <1>4, Kinds, Zenon DEF IndInv, SlotInv
  <2> QED
    BY <1>0, <1>3, <1>4, <1>5, <2>1, Zenon DEF IndInv, SlotInv, Before
<1>9. DrainInv'
  <2>1. ~Joined
    BY <1>0, Zenon DEF IndInv, ShutInv, Joined
  <2> QED
    BY <1>4, <2>1, Zenon DEF DrainInv
<1> QED
  BY <1>4, <1>6, <1>7, <1>8, <1>9, Zenon DEF IndInv, Queue!vars

(* stop() notifies the waiting threads; join_all returns.                  *)
LEMMA StopNotifiesInv ==
    ASSUME IndInv, StopNotifies
    PROVE  IndInv' /\ [Queue!Next]_(Queue!vars)
<1>0. /\ pc[Main] = "notifyall" /\ waiting' = {} /\ Goto(Main, "join")
      /\ UNCHANGED <<taskQueue, now, stopRequested, stopWhenEmpty, nThreadsServicingQueue,
                     interrupted, task, clientVars, registered, alive, slots, slot, how>>
  BY Zenon DEF StopNotifies, NotifyAll, signalVars
<1>1. "join" \in MainPCs /\ Before /\ ~Running
  BY <1>0, Zenon DEF MainPCs, Running, Before
<1>2. /\ PcOK' /\ ClientOK' /\ RunInv' /\ CountInv' /\ WorkInv'
      /\ pc'[Main] = "join"
      /\ \A q \in Procs : q # Main => pc'[q] = pc[q]
      /\ Joined' <=> Joined
      /\ AddersGone' <=> AddersGone
      /\ \A t \in Runners : InCallback(t)' <=> InCallback(t)
      /\ UNCHANGED <<m_callbacks_pending, current, nAdded>>
  BY <1>0, <1>1, MainMove, Zenon
<1>3. Before' /\ ~Running'
  BY <1>2, Zenon DEF Before, Running
<1>4. SchedOK' /\ SignalOK'
  BY <1>0, Zenon DEF IndInv, SchedOK, SignalOK
<1>5. ShutInv'
  <2>1. \A t \in Threads : pc'[t] = pc[t]
    BY <1>2, Kinds, Zenon
  <2> QED
    BY <1>0, <1>1, <1>2, <1>3, <2>1, Zenon DEF IndInv, ShutInv
<1>6. SlotInv'
  <2>1. (\A t \in Runners : slot[t] # {} => pc[t] = "slot")'
    BY <1>0, <1>2, Kinds, Zenon DEF IndInv, SlotInv
  <2> QED
    BY <1>0, <1>1, <1>2, <1>3, <2>1, Zenon DEF IndInv, SlotInv
<1>7. DrainInv'
  BY <1>0, <1>2, Zenon DEF IndInv, DrainInv
<1> QED
  BY <1>2, <1>4, <1>5, <1>6, <1>7, Zenon DEF IndInv, Queue!vars

LEMMA DestroyInv ==
    ASSUME IndInv, Destroy
    PROVE  IndInv' /\ [Queue!Next]_(Queue!vars)
<1>0. /\ pc[Main] = "join" /\ Joined /\ alive' = alive \ Early /\ Goto(Main, "destroyed")
      /\ UNCHANGED <<taskQueue, now, waiting, stopRequested, stopWhenEmpty,
                     nThreadsServicingQueue, interrupted, task, clientVars, registered, slots,
                     slot, how>>
  BY Zenon DEF Destroy, schedVars
<1>1. "destroyed" \in MainPCs /\ Before /\ ~Running
  BY <1>0, Zenon DEF MainPCs, Running, Before
<1>2. /\ PcOK' /\ ClientOK' /\ RunInv' /\ CountInv' /\ WorkInv'
      /\ pc'[Main] = "destroyed"
      /\ \A q \in Procs : q # Main => pc'[q] = pc[q]
      /\ Joined' <=> Joined
      /\ AddersGone' <=> AddersGone
      /\ \A t \in Runners : InCallback(t)' <=> InCallback(t)
      /\ UNCHANGED <<m_callbacks_pending, current, nAdded>>
  BY <1>0, <1>1, MainMove, Zenon
<1>3. ~Before' /\ ~Running'
  BY <1>2, Zenon DEF Before, Running
<1>4. SchedOK' /\ SignalOK'
  BY <1>0, Zenon DEF IndInv, SchedOK, SignalOK
<1>5. ShutInv'
  <2>1. \A t \in Threads : pc'[t] = pc[t]
    BY <1>2, Kinds, Zenon
  <2> QED
    BY <1>0, <1>1, <1>2, <1>3, <2>1, Zenon DEF IndInv, ShutInv
<1>6. SlotInv'
  <2>1. (\A t \in Runners : slot[t] # {} => pc[t] = "slot")'
    BY <1>0, <1>2, Kinds, Zenon DEF IndInv, SlotInv
  <2>2. (Late \subseteq alive)'
    BY <1>0, <1>1, Zenon DEF IndInv, SlotInv, Interfaces
  <2> QED
    BY <1>0, <1>2, <1>3, <2>1, <2>2, Zenon DEF IndInv, SlotInv
<1>7. DrainInv'
  BY <1>2, Zenon DEF DrainInv
<1> QED
  BY <1>2, <1>4, <1>5, <1>6, <1>7, Zenon DEF IndInv, Queue!vars

(* At the end every interface is unregistered and destroyed.               *)
LEMMA UnregisterAllInv ==
    ASSUME IndInv, UnregisterAllValidationInterfaces
    PROVE  IndInv' /\ [Queue!Next]_(Queue!vars)
<1>0. /\ pc[Main] = "done" /\ registered' = {} /\ alive' = {}
      /\ UNCHANGED <<taskQueue, now, waiting, stopRequested, stopWhenEmpty,
                     nThreadsServicingQueue, interrupted, task, pc, clientVars, slots, slot, how>>
  BY Zenon DEF UnregisterAllValidationInterfaces, schedVars
<1>1. Goto(Main, "done") /\ "done" \in MainPCs
  BY <1>0, Kinds, Zenon DEF Goto, IndInv, PcOK, MainPCs
<1>2. ~Before /\ ~Before' /\ ~Running /\ ~Running'
  BY <1>0, Zenon DEF Before, Running
<1>3. /\ PcOK' /\ ClientOK' /\ RunInv' /\ CountInv' /\ WorkInv'
      /\ Joined' <=> Joined
      /\ AddersGone' <=> AddersGone
      /\ \A t \in Runners : InCallback(t)' <=> InCallback(t)
      /\ UNCHANGED <<m_callbacks_pending, current, nAdded>>
  BY <1>0, <1>1, <1>2, MainMove, Zenon
<1>4. SchedOK' /\ SignalOK'
  BY <1>0, Zenon DEF IndInv, SchedOK, SignalOK
<1>5. ShutInv'
  BY <1>0, <1>2, <1>3, Zenon DEF IndInv, ShutInv
<1>6. SlotInv' /\ DrainInv'
  BY <1>0, <1>2, <1>3, Zenon DEF IndInv, SlotInv, DrainInv
<1> QED
  BY <1>3, <1>4, <1>5, <1>6, Zenon DEF IndInv, Queue!vars

-----------------------------------------------------------------------------
(* The scheduler starts with its timers and no callback.                   *)
LEMMA InitInv == Init => IndInv /\ Queue!Init
<1> SUFFICES ASSUME Init PROVE IndInv /\ Queue!Init
  BY Zenon
<1> USE DEF Init, InitScheduler, InitClient
<1>1. \A p \in Procs : pc[p] = IF p \in Threads THEN "start" ELSE IF p = Main THEN "up" ELSE "idle"
  BY Zenon
<1>2. /\ \A t \in Threads : pc[t] = "start"
      /\ \A p \in Adders : pc[p] = "idle"
      /\ pc[Main] = "up"
  BY <1>1, Kinds, Zenon
<1>3. PcOK
  <2>1. pc \in [Procs -> PCs]
    BY Zenon DEF PCs, ThreadPCs, AdderPCs, MainPCs
  <2> QED
    BY <1>2, <2>1, Zenon DEF PcOK, ThreadPCs, AdderPCs, MainPCs
<1>4. taskQueue \in Seq([time : Int, f : Tasks])
  <2>1. Cardinality(Timers) \in Nat
    BY FS_CardinalityType, Zenon
  <2> DEFINE R == [time : Int, f : Tasks]
             S == {[time |-> Delta[f], f |-> f] : f \in Timers}
  <2>2. \A f \in Timers : [time |-> Delta[f], f |-> f] \in R
    BY SMT DEF Tasks
  <2>3. ASSUME NEW s \in S PROVE s \in R
    <3>1. PICK f \in Timers : s = [time |-> Delta[f], f |-> f]
      BY Zenon
    <3> QED
      BY <2>2, <3>1, Zenon
  <2>4. taskQueue \in [1..Cardinality(Timers) -> S]
    BY Zenon
  <2> HIDE DEF R, S
  <2>5. taskQueue \in [1..Cardinality(Timers) -> R]
    BY <2>3, <2>4, SMT
  <2>6. taskQueue \in Seq(R)
    BY <2>1, <2>5, FcnSeq, Zenon
  <2> QED
    BY <2>6, Zenon DEF R
<1>5. SchedOK
  <2>1. now \in Nat
    BY SMT
  <2> QED
    BY <1>4, <2>1, Zenon DEF SchedOK, Tasks
<1>6. ClientOK
  <2>1. 0 \in Nat
    BY SMT
  <2>2. m_callbacks_pending \in Seq(Nat \ {0})
    BY EmptySeq, Zenon
  <2> QED
    BY <2>1, <2>2, Zenon DEF ClientOK
<1>7. SignalOK
  BY Zenon DEF SignalOK, Interfaces
<1>8. \A t \in Runners : ~InCallback(t)
  BY <1>2, Zenon DEF Runners, InCallback
<1>9. RunInv
  BY <1>8, Zenon DEF RunInv
<1>10. ShutInv
  BY <1>2, Zenon DEF ShutInv, Running, Before
<1>11. SlotInv
  BY Kinds, Zenon DEF SlotInv, Interfaces
<1>12. CountInv
  <2>1. Counted = {}
    BY <1>2, Zenon DEF Counted
  <2> QED
    BY <2>1, FS_EmptySet, Zenon DEF CountInv
<1>13. WorkInv /\ DrainInv
  BY Zenon DEF WorkInv, DrainInv
<1>14. Queue!Init
  BY <1>8, CurrentNone, Zenon DEF Queue!Init
<1> QED
  BY <1>3, <1>5, <1>6, <1>7, <1>9, <1>10, <1>11, <1>12, <1>13, <1>14, Zenon DEF IndInv

(* Every step keeps the invariant and is a step of the abstract queue or   *)
(* none.                                                                   *)
LEMMA NextStep == IndInv /\ [Next]_vars => IndInv' /\ [Queue!Next]_(Queue!vars)
<1> SUFFICES ASSUME IndInv, [Next]_vars PROVE IndInv' /\ [Queue!Next]_(Queue!vars)
  BY Zenon
<1>0. ASSUME IndInv' /\ current' = current, UNCHANGED Others
      PROVE  IndInv' /\ [Queue!Next]_(Queue!vars)
  BY <1>0, Zenon DEF Others, clientVars, Queue!vars
<1>1. CASE UNCHANGED vars
  <2>1. SchedOK'
    BY <1>1, Zenon DEF vars, schedVars, IndInv, SchedOK
  <2>2. IndInv' /\ current' = current
    BY <1>1, <2>1, StillInv, Zenon DEF vars, schedVars, InQueue
  <2> QED
    BY <1>0, <1>1, <2>2, Zenon DEF vars, Others
<1>2. ASSUME NEW t \in Runners, CallbackStep(t)
      PROVE  IndInv' /\ [Queue!Next]_(Queue!vars)
  BY <1>2, ProcessInv, CallSlotInv, SlotReturnsInv, EndCallbackInv, Zenon DEF CallbackStep
<1>3. ASSUME NEW t \in Threads, ThreadStep(t) \/ (Wake(t) /\ UNCHANGED <<clientVars, signalVars>>)
      PROVE  IndInv' /\ [Queue!Next]_(Queue!vars)
  <2>1. CASE ServiceStep(t) /\ UNCHANGED <<clientVars, signalVars>>
    BY <1>0, <2>1, ServiceInv, Zenon DEF Others
  <2>2. CASE Repeat(t, Home(t)) /\ UNCHANGED <<clientVars, signalVars>>
    BY <1>0, <2>2, RepeatInv, Zenon DEF Others
  <2>3. CASE CallbackStep(t)
    BY <1>2, <2>3, Kinds, Zenon
  <2>4. CASE QueueStep(t)
    BY <2>4, QueueStepInv, Kinds, Zenon
  <2>5. CASE Wake(t) /\ UNCHANGED <<clientVars, signalVars>>
    BY <1>0, <2>5, WakeInv, Zenon DEF Others
  <2> QED
    BY <1>3, <2>1, <2>2, <2>3, <2>4, <2>5, Zenon DEF ThreadStep
<1>4. ASSUME NEW p \in Adders, Signal(p) \/ QueueStep(p)
      PROVE  IndInv' /\ [Queue!Next]_(Queue!vars)
  <2>1. CASE Signal(p)
    BY <2>1, AddInv, Kinds, Zenon DEF Signal
  <2>2. CASE QueueStep(p)
    BY <2>2, QueueStepInv, Kinds, Zenon
  <2> QED
    BY <1>4, <2>1, <2>2, Zenon
<1>5. CASE ShutdownStep
  <2>1. CASE FlushStateSignals
    <3>1. CASE AddToProcessQueue(Main)
      BY <2>1, <3>1, AddInv, Kinds, Zenon DEF FlushStateSignals
    <3>2. CASE Goto(Main, "flush") /\ UNCHANGED <<schedVars, clientVars>>
      BY <2>1, <3>2, FlushMove, Zenon DEF FlushStateSignals
    <3> QED
      BY <2>1, <3>1, <3>2, Zenon DEF FlushStateSignals
  <2>2. CASE EmptyQueue
    <3>1. PICK l \in {"flush", "run", "done"} : Goto(Main, l)
      BY <2>2, Zenon DEF EmptyQueue
    <3> QED
      BY <2>2, <3>1, FlushMove, Zenon DEF EmptyQueue
  <2>3. CASE CallbackStep(Main) \/ QueueStep(Main)
    BY <1>2, <2>3, QueueStepInv, Kinds, Zenon
  <2> QED
    BY <1>5, <2>1, <2>2, <2>3, StopNotifiesInv, DestroyInv, Zenon DEF ShutdownStep
<1>6. CASE (Tick \/ MockForward) /\ UNCHANGED <<clientVars, signalVars>>
  BY <1>0, <1>6, TickInv, MockForwardInv, Zenon DEF Others
<1> QED
  BY <1>1, <1>3, <1>4, <1>5, <1>6, RegisterInv, UnregisterInv, StopThreadsInv, UnregisterAllInv,
     Zenon DEF Next

-----------------------------------------------------------------------------
(* The scheduler, its client and Shutdown stay well typed.                 *)
THEOREM TypeCorrect == Spec => []TypeOK
BY Typed, InitInv, NextStep, PTL DEF Spec

(* SingleThreadedSchedulerClient runs callbacks one at a time and in the   *)
(* order in which they were added, whatever the number of threads.         *)
THEOREM CallbacksInOrder == Spec => OneAtATimeInOrder
BY InitInv, NextStep, PTL DEF Spec, OneAtATimeInOrder

(* Shutdown destroys no interface that a signal is calling.                *)
THEOREM NoSlotOfTheDead == Spec => []SlotsAlive
<1>1. IndInv => SlotsAlive
  <2> SUFFICES ASSUME IndInv, NEW t \in Runners, slot[t] # {} PROVE slot[t] \subseteq alive
    BY Zenon DEF SlotsAlive
  <2>1. pc[t] = "slot" /\ slot[t] \subseteq Interfaces
    BY Zenon DEF IndInv, SlotInv, SignalOK
  <2>2. CASE t \in Threads
    BY <2>1, <2>2, Zenon DEF IndInv, ShutInv, SlotInv, Joined
  <2>3. CASE t = Main
    BY <2>1, <2>3, Zenon DEF IndInv, SlotInv
  <2> QED
    BY <2>2, <2>3, Zenon DEF Runners
<1> QED
  BY <1>1, InitInv, NextStep, PTL DEF Spec

(* Joined threads are not counted, and a drain leaves no work behind.      *)
THEOREM DrainIsClean == Spec => []LeftClean
<1>1. IndInv => LeftClean
  <2> SUFFICES ASSUME IndInv, Joined, pc[Main] \in {"notifyall", "join", "destroyed", "flush"}
               PROVE  /\ nThreadsServicingQueue = 0
                      /\ how = "drain" /\ pc[Main] \in {"notifyall", "join"}
                             => taskQueue = <<>> /\ m_callbacks_pending = <<>>
    BY Zenon DEF LeftClean
  <2>1. nThreadsServicingQueue = 0
    <3>1. Counted = {}
      BY Zenon DEF Counted, Joined
    <3> QED
      BY <3>1, FS_EmptySet, Zenon DEF IndInv, CountInv
  <2>2. ASSUME how = "drain", pc[Main] \in {"notifyall", "join"}
        PROVE  taskQueue = <<>> /\ m_callbacks_pending = <<>>
    <3>1. taskQueue = <<>>
      BY <2>2, Zenon DEF IndInv, DrainInv
    <3>2. ~InQueue
      BY <3>1, SMT DEF InQueue, HasTask
    <3>3. Before /\ AddersGone
      BY <2>2, Zenon DEF Before, Running, IndInv, ShutInv
    <3>4. /\ \A p \in Procs : pc[p] \notin {"maybe", "schedule"}
          /\ \A t \in Runners : ~InCallback(t)
      BY <2>2, <3>3, Zenon DEF Procs, Runners, InCallback, Joined, AddersGone
    <3>5. ~m_are_callbacks_running
      BY <3>4, Zenon DEF IndInv, RunInv
    <3> QED
      BY <3>1, <3>2, <3>3, <3>4, <3>5, Zenon DEF IndInv, WorkInv, Joined
  <2> QED
    BY <2>1, <2>2, Zenon
<1> QED
  BY <1>1, InitInv, NextStep, PTL DEF Spec
=============================================================================
