-------------------------- MODULE CheckQueueProofs --------------------------
(* The verdict of CCheckQueueControl::Wait is exact for any number of      *)
(* masters, workers and checks, any batch size, and any interleaving with  *)
(* interruptions.                                                          *)
EXTENDS CheckQueue, FiniteSetTheorems, TLAPS

(* A thread with a batch the queue has not accounted for.                  *)
Busy(t) == pc[t] \in {"run", "lock"}

(* A session whose verdict is still open.                                  *)
Open == \E m \in Masters : pc[m] \notin {"out", "done"}

(* ControlMutex admits one master at a time.                               *)
SessionInv ==
    /\ \A m \in Masters : pc[m] = "out" <=> controlMutex # m
    /\ \A m \in Masters : pc[m] # "gone"
    /\ \A w \in Workers : pc[w] \notin {"adding", "done"}

(* Every check added is in the queue, in one batch, or accounted for.      *)
BatchInv ==
    /\ queue \subseteq added
    /\ \A t \in Threads :
          /\ batch[t] \subseteq added
          /\ batch[t] \cap queue = {}
          /\ vChecks[t] \subseteq batch[t]
          /\ vChecks[t] # {} <=> pc[t] = "run"
          /\ ~Busy(t) => batch[t] = {}
          /\ Busy(t) => nNow[t] = Cardinality(batch[t])
    /\ \A t, u \in Threads : t # u => batch[t] \cap batch[u] = {}

(* Between sessions nothing is left over.                                  *)
QuietInv == ~Open => Pending = {} /\ fAllOk

(* What fOk and fAllOk say about the checks they have seen.                *)
ResultInv ==
    /\ \A t \in Threads : Busy(t) =>
          IF fOk[t] THEN /\ (batch[t] \ vChecks[t]) \cap bad = {}
                         /\ batch[t] \ vChecks[t] \subseteq ran
                    ELSE batch[t] # {} /\ bad # {}
    /\ Open => IF fAllOk THEN /\ (added \ Pending) \cap bad = {}
                              /\ added \ Pending \subseteq ran
                         ELSE bad # {}

IndInv ==
    /\ TypeOK /\ SessionInv /\ BatchInv /\ TodoExact
    /\ QuietInv /\ ResultInv /\ VerdictExact

-----------------------------------------------------------------------------
USE ThreadsAssumption, ChecksAssumption, BatchAssumption

(* What it means to be pending.                                            *)
LEMMA PendingDef ==
    ASSUME NEW c
    PROVE  c \in Pending <=> c \in queue \/ \E t \in Threads : c \in batch[t]
BY Zenon DEF Pending

(* The pending checks are finitely many.                                   *)
LEMMA PendingFinite ==
    ASSUME TypeOK
    PROVE  /\ Pending \subseteq Checks
           /\ IsFiniteSet(Pending)
<1>1. Pending \subseteq Checks
  BY DEF TypeOK, Pending
<1> QED
  BY <1>1, FS_Subset, Zenon

(* The queue is initially consistent.                                      *)
LEMMA InitInv == Init => IndInv
<1> SUFFICES ASSUME Init PROVE IndInv
  BY Zenon
<1>1. Pending = {}
  BY Zenon DEF Init, Pending
<1>2. TypeOK
  BY DEF Init, TypeOK, Threads, PCs
<1>3. SessionInv /\ VerdictExact
  BY Zenon DEF Init, SessionInv, VerdictExact, Threads
<1>4. BatchInv
  BY Zenon DEF Init, BatchInv, Busy
<1>5. TodoExact
  BY <1>1, FS_EmptySet, Zenon DEF Init, TodoExact
<1>6. QuietInv /\ ResultInv
  BY <1>1, Zenon DEF Init, QuietInv, ResultInv, Open, Busy, Threads
<1> QED
  BY <1>2, <1>3, <1>4, <1>5, <1>6, Zenon DEF IndInv

(* A thread that gets the mutex leaves in nTodo what the others hold.      *)
LEMMA Accounting ==
    ASSUME IndInv, NEW t \in Threads, HasMutex(t)
    PROVE  /\ TodoAfter(t) \in Nat
           /\ TodoAfter(t) = Cardinality(Pending \ batch[t])
           /\ TodoAfter(t) = 0 <=> Pending \ batch[t] = {}
<1> USE DEF IndInv
<1>1. batch[t] \subseteq Pending /\ Pending \cap batch[t] = batch[t]
  BY PendingDef, Zenon
<1>2. /\ IsFiniteSet(Pending \ batch[t])
      /\ Cardinality(Pending \ batch[t]) = Cardinality(Pending) - Cardinality(batch[t])
  BY <1>1, PendingFinite, FS_Difference, Zenon
<1>3. TodoAfter(t) = Cardinality(Pending \ batch[t])
  <2>1. CASE pc[t] = "lock"
    BY <1>2, <2>1, Zenon DEF TodoAfter, TodoExact, BatchInv, Busy
  <2>2. CASE pc[t] = "woken"
    <3>1. batch[t] = {}
      BY <2>2, Zenon DEF BatchInv, Busy
    <3> QED
      BY <2>2, <3>1, Zenon DEF TodoAfter, TodoExact
  <2> QED
    BY <2>1, <2>2, Zenon DEF HasMutex
<1> QED
  BY <1>2, <1>3, FS_CardinalityType, FS_EmptySet, Zenon

(* CCheckQueueControl's constructor starts from a finished queue.          *)
LEMMA EnterInv ==
    ASSUME IndInv, NEW m \in Masters, Enter(m)
    PROVE  IndInv'
<1> USE DEF IndInv, Enter, shared, locals
<1>0. m \in Threads
  BY Zenon DEF Threads
<1>1. ~Open
  BY Zenon DEF SessionInv, Open
<1>2. Pending = {} /\ Pending' = {} /\ queue = {} /\ \A t \in Threads : batch[t] = {}
  BY <1>1, Zenon DEF QuietInv, Pending
<1>3. TypeOK'
  BY <1>0, Zenon DEF TypeOK, PCs
<1>4. SessionInv' /\ VerdictExact'
  BY <1>0, Zenon DEF TypeOK, SessionInv, VerdictExact, Threads
<1>5. BatchInv'
  BY <1>0, <1>2, Zenon DEF TypeOK, BatchInv, Busy
<1>6. TodoExact'
  BY <1>2, Zenon DEF TodoExact
<1>7. QuietInv'
  BY <1>1, <1>2, Zenon DEF QuietInv
<1>8. ResultInv'
  BY <1>0, <1>1, <1>2 DEF TypeOK, QuietInv, ResultInv, Busy, Open
<1> QED
  BY <1>3, <1>4, <1>5, <1>6, <1>7, <1>8, Zenon

(* Add puts new checks in the queue and wakes workers.                     *)
LEMMA AddInv ==
    ASSUME IndInv, NEW m \in Masters, NEW S \in SUBSET (Checks \ added),
           NEW B \in SUBSET S, Add(m, S, B)
    PROVE  IndInv'
<1> USE DEF IndInv, Add, locals
<1>0. m \in Threads
  BY Zenon DEF Threads
<1>1. PICK woken \in SUBSET Workers :
        /\ \A w \in woken : pc[w] = "wait"
        /\ pc' = [t \in Threads |-> IF t \in woken THEN "woken" ELSE pc[t]]
  BY Zenon DEF Notified
<1>2. Pending' = Pending \cup S /\ Pending \cap S = {}
  BY DEF Pending, BatchInv
<1>3. /\ Cardinality(S) \in Nat
      /\ Cardinality(Pending') = Cardinality(Pending) + Cardinality(S)
  <2>1. IsFiniteSet(S) /\ IsFiniteSet(Pending)
    BY PendingFinite, FS_Subset, Zenon
  <2>2. Cardinality(S) \in Nat /\ Cardinality(Pending) \in Nat
    BY <2>1, FS_CardinalityType, Zenon
  <2>3. Cardinality(Pending \cup S)
          = Cardinality(Pending) + Cardinality(S) - Cardinality(Pending \cap S)
    BY <2>1, FS_Union, Zenon
  <2> QED
    <3>1. Cardinality(Pending \cap S) = 0
      BY <1>2, FS_EmptySet, Zenon
    <3>2. Cardinality(Pending') = Cardinality(Pending \cup S)
      BY <1>2, Zenon
    <3> QED
      BY <2>2, <2>3, <3>1, <3>2
<1>4. TypeOK'
  BY <1>1, <1>3 DEF TypeOK, PCs
<1>5. SessionInv' /\ VerdictExact'
  BY <1>0, <1>1, Zenon DEF TypeOK, SessionInv, VerdictExact, Threads
<1>6. \A t \in Threads : /\ Busy(t)' <=> Busy(t)
                         /\ (pc[t] = "run")' <=> pc[t] = "run"
  BY <1>1, Zenon DEF TypeOK, Busy
<1>7. BatchInv'
  BY <1>6, Zenon DEF TypeOK, BatchInv
<1>8. TodoExact'
  BY <1>3, Zenon DEF TodoExact
<1>9. Open /\ Open'
  BY <1>0, <1>1, Zenon DEF Open, TypeOK, Threads
<1>10. QuietInv'
  BY <1>9, Zenon DEF QuietInv
<1>11. ResultInv'
  BY <1>2, <1>6, <1>9 DEF ResultInv, TypeOK, BatchInv
<1> QED
  BY <1>4, <1>5, <1>7, <1>8, <1>10, <1>11, Zenon

(* Entering Loop changes only the thread's own state.                      *)
LEMMA EnterLoopInv ==
    ASSUME IndInv, NEW t \in Threads, EnterLoop(t)
    PROVE  IndInv'
<1> USE DEF IndInv, EnterLoop, shared, history
<1>1. batch[t] = {} /\ vChecks[t] = {} /\ pc[t] \in {"adding", "out"}
  BY Zenon DEF BatchInv, Busy
<1>2. Pending' = Pending
  BY Zenon DEF Pending
<1>3. TypeOK'
  BY Zenon DEF TypeOK, PCs
<1>4. SessionInv' /\ VerdictExact'
  BY <1>1, Zenon DEF TypeOK, SessionInv, VerdictExact, Threads
<1>5. BatchInv'
  BY <1>1, FS_EmptySet, ZenonT(60) DEF TypeOK, BatchInv, Busy
<1>6. TodoExact'
  BY <1>2, Zenon DEF TodoExact
<1>7. Open' <=> Open
  BY Zenon DEF Open, TypeOK, Threads
<1>8. QuietInv'
  BY <1>2, <1>7, Zenon DEF QuietInv
<1>9. ResultInv'
  BY <1>1, <1>2, <1>7, Zenon DEF ResultInv, TypeOK, Busy
<1> QED
  BY <1>3, <1>4, <1>5, <1>6, <1>8, <1>9, Zenon

(* The destructor releases a finished queue.                               *)
LEMMA LeaveInv ==
    ASSUME IndInv, NEW m \in Masters, Leave(m)
    PROVE  IndInv'
<1> USE DEF IndInv, Leave, shared, locals, history
<1>0. m \in Threads
  BY Zenon DEF Threads
<1>1. Pending' = Pending
  BY Zenon DEF Pending
<1>2. TypeOK'
  BY <1>0, Zenon DEF TypeOK, PCs
<1>3. SessionInv' /\ VerdictExact'
  BY <1>0, Zenon DEF TypeOK, SessionInv, VerdictExact, Threads
<1>4. BatchInv'
  BY <1>0, Zenon DEF TypeOK, BatchInv, Busy
<1>5. TodoExact'
  BY <1>1, Zenon DEF TodoExact
<1>6. Open' <=> Open
  BY <1>0, Zenon DEF Open, TypeOK, Threads
<1>7. QuietInv' /\ ResultInv'
  BY <1>0, <1>1, <1>6, Zenon DEF QuietInv, ResultInv, TypeOK, Busy
<1> QED
  BY <1>2, <1>3, <1>4, <1>5, <1>7, Zenon

(* A notification by the last worker only moves masters from wait to woken.*)
LEMMA PcAfterWakes ==
    ASSUME TypeOK, NEW t \in Threads
    PROVE  /\ PcAfter(t) \in [Threads -> PCs]
           /\ \A u \in Threads : \/ PcAfter(t)[u] = pc[u]
                               \/ /\ u \in Masters /\ pc[u] = "wait"
                                  /\ PcAfter(t)[u] = "woken"
BY Zenon DEF PcAfter, TypeOK, PCs

(* A batch holds at least one check.                                       *)
LEMMA UnitsPositive ==
    ASSUME NEW n \in Nat, NEW total, NEW idle
    PROVE  Units(n, total, idle) # 0
BY DEF Units

(* The verdict a thread leaves after accounting for its batch.             *)
LEMMA AllOkAfterType ==
    ASSUME TypeOK, NEW t \in Threads
    PROVE  /\ AllOkAfter(t) \in BOOLEAN
           /\ TotalAfter(t) \in Int /\ IdleAfter(t) \in Int
BY DEF AllOkAfter, TotalAfter, IdleAfter, TypeOK

(* It speaks for the batches accounted for, the thread's last one included.*)
LEMMA AllOkAfterMeaning ==
    ASSUME IndInv, Open, NEW t \in Threads, HasMutex(t)
    PROVE  IF AllOkAfter(t)
           THEN /\ (added \ (Pending \ batch[t])) \cap bad = {}
                /\ added \ (Pending \ batch[t]) \subseteq ran
           ELSE bad # {}
<1> USE DEF IndInv
<1>1. vChecks[t] = {} /\ pc[t] \in {"lock", "woken"}
  BY Zenon DEF HasMutex, BatchInv
<1>2. pc[t] = "woken" => batch[t] = {}
  BY Zenon DEF BatchInv, Busy
<1>3. CASE fAllOk /\ pc[t] = "lock" /\ fOk[t]
  <2>1. /\ batch[t] \cap bad = {} /\ batch[t] \subseteq ran
        /\ (added \ Pending) \cap bad = {} /\ added \ Pending \subseteq ran
    BY <1>1, <1>3, Zenon DEF ResultInv, Busy
  <2> QED
    BY <1>3, <2>1, Zenon DEF AllOkAfter
<1>4. CASE fAllOk /\ pc[t] = "lock" /\ ~fOk[t]
  BY <1>4, Zenon DEF ResultInv, Busy, AllOkAfter
<1>5. CASE fAllOk /\ pc[t] = "woken"
  BY <1>2, <1>5, Zenon DEF ResultInv, AllOkAfter
<1>6. CASE ~fAllOk
  BY <1>6, Zenon DEF ResultInv, AllOkAfter
<1> QED
  BY <1>1, <1>3, <1>4, <1>5, <1>6, Zenon

(* Taking a batch accounts for the thread's last one.                      *)
LEMMA TakeInv ==
    ASSUME IndInv, NEW t \in Threads, Take(t)
    PROVE  IndInv'
<1> USE DEF IndInv, history
<1>1. /\ HasMutex(t) /\ queue # {}
      /\ nIdle' = IdleAfter(t) /\ nTotal' = TotalAfter(t)
      /\ nTodo' = TodoAfter(t) /\ fAllOk' = AllOkAfter(t)
      /\ fOk' = [fOk EXCEPT ![t] = fAllOk']
      /\ pc' = [PcAfter(t) EXCEPT ![t] = "run"]
      /\ UNCHANGED <<controlMutex, verdict, interrupted, added, bad, ran>>
  BY Zenon DEF Take
<1>2. PICK S \in SUBSET queue :
         /\ Cardinality(S) = Units(Cardinality(queue), nTotal', nIdle')
         /\ queue' = queue \ S
         /\ vChecks' = [vChecks EXCEPT ![t] = S]
         /\ batch' = [batch EXCEPT ![t] = S]
         /\ nNow' = [nNow EXCEPT ![t] = Cardinality(S)]
  BY Zenon DEF Take
<1>3. IsFiniteSet(queue) /\ IsFiniteSet(S) /\ Cardinality(queue) \in Nat
      /\ Cardinality(S) \in Nat
  BY FS_Subset, FS_CardinalityType, Zenon DEF TypeOK
<1>4. S # {}
  BY <1>2, <1>3, UnitsPositive, FS_EmptySet, Zenon
<1>5. Pending' = Pending \ batch[t]
  BY <1>2 DEF Pending, TypeOK, BatchInv
<1>6. \A u \in Threads \ {t} :
         /\ batch'[u] = batch[u] /\ vChecks'[u] = vChecks[u] /\ nNow'[u] = nNow[u]
         /\ fOk'[u] = fOk[u]
         /\ \/ pc'[u] = pc[u]
            \/ u \in Masters /\ pc[u] = "wait" /\ pc'[u] = "woken"
  BY <1>1, <1>2, PcAfterWakes DEF TypeOK
<1>7. /\ batch'[t] = S /\ vChecks'[t] = S /\ nNow'[t] = Cardinality(S)
      /\ fOk'[t] = fAllOk' /\ pc'[t] = "run"
  BY <1>1, <1>2, PcAfterWakes DEF TypeOK
<1>8. pc[t] \in {"lock", "woken"} /\ vChecks[t] = {}
  BY <1>1, Zenon DEF HasMutex, BatchInv
<1>9. TypeOK'
  BY <1>1, <1>2, <1>3, <1>8, Accounting, AllOkAfterType, PcAfterWakes, Zenon
     DEF TypeOK, PCs
<1>10. SessionInv' /\ VerdictExact'
  BY <1>1, <1>6, <1>7, <1>8 DEF SessionInv, VerdictExact, Threads
<1>11. BatchInv'
  BY <1>1, <1>2, <1>4, <1>6, <1>7, <1>8, SMTT(30) DEF BatchInv, Busy
<1>12. TodoExact'
  BY <1>1, <1>5, Accounting, Zenon DEF TodoExact
<1>13. Open
  BY <1>1, Zenon DEF QuietInv, Pending
<1>14. Open'
  BY <1>6, <1>7, <1>8, <1>13, Zenon DEF Open, Threads
<1>15. QuietInv'
  BY <1>14, Zenon DEF QuietInv
<1>16. ResultInv'
  <2>1. IF fAllOk' THEN /\ (added \ Pending') \cap bad = {}
                        /\ added \ Pending' \subseteq ran
                   ELSE bad # {}
    BY <1>1, <1>5, <1>13, AllOkAfterMeaning, Zenon
  <2> QED
    BY <1>1, <1>4, <1>6, <1>7, <1>8, <2>1 DEF ResultInv, Busy
<1> QED
  BY <1>9, <1>10, <1>11, <1>12, <1>15, <1>16, Zenon

(* Going to sleep accounts for the thread's last batch.                    *)
LEMMA SleepInv ==
    ASSUME IndInv, NEW t \in Threads, Sleep(t)
    PROVE  IndInv'
<1> USE DEF IndInv, Sleep, locals, history
<1>1. pc[t] \in {"lock", "woken"} /\ vChecks[t] = {}
  BY Zenon DEF HasMutex, BatchInv
<1>2. /\ batch'[t] = {} /\ pc'[t] = "wait"
      /\ \A u \in Threads \ {t} :
            /\ batch'[u] = batch[u]
            /\ \/ pc'[u] = pc[u]
               \/ u \in Masters /\ pc[u] = "wait" /\ pc'[u] = "woken"
  BY PcAfterWakes, Zenon DEF TypeOK
<1>3. Pending' = Pending \ batch[t]
  BY DEF Pending, TypeOK, BatchInv
<1>4. TypeOK'
  <2>1. nTodo' \in Nat
    BY Accounting, Zenon
  <2>2. nIdle' \in Int /\ nTotal' \in Int /\ fAllOk' \in BOOLEAN
    BY AllOkAfterType
  <2>3. pc' \in [Threads -> PCs] /\ batch' \in [Threads -> SUBSET Checks]
    BY PcAfterWakes, Zenon DEF TypeOK, PCs
  <2> QED
    BY <2>1, <2>2, <2>3, Zenon DEF TypeOK
<1>5. SessionInv' /\ VerdictExact'
  BY <1>1, <1>2 DEF SessionInv, VerdictExact, Threads
<1>6. BatchInv'
  BY <1>1, <1>2 DEF BatchInv, Busy
<1>7. TodoExact'
  BY <1>3, Accounting, Zenon DEF TodoExact
<1>8. Open' <=> Open
  BY <1>1, <1>2, Zenon DEF Open, Threads
<1>9. QuietInv'
  <2> SUFFICES ASSUME ~Open PROVE Pending' = {} /\ fAllOk'
    BY <1>8, Zenon DEF QuietInv
  <2>1. Pending = {} /\ fAllOk /\ batch[t] = {}
    BY Zenon DEF QuietInv, Pending
  <2> QED
    BY <1>1, <1>3, <2>1, Zenon DEF ResultInv, Busy, AllOkAfter
<1>10. ResultInv'
  <2>1. Open => IF fAllOk' THEN /\ (added \ Pending') \cap bad = {}
                                /\ added \ Pending' \subseteq ran
                           ELSE bad # {}
    BY <1>3, AllOkAfterMeaning, Zenon
  <2> QED
    BY <1>1, <1>2, <1>8, <2>1, Zenon DEF ResultInv, Busy
<1> QED
  BY <1>4, <1>5, <1>6, <1>7, <1>9, <1>10, Zenon

(* Wait returns the verdict of the whole session.                          *)
LEMMA ReturnInv ==
    ASSUME IndInv, NEW m \in Masters, Return(m)
    PROVE  IndInv'
<1> USE DEF IndInv, Return, locals, history
<1>0. m \in Threads
  BY Zenon DEF Threads
<1>1. pc[m] \in {"lock", "woken"} /\ vChecks[m] = {} /\ Open
  BY <1>0, Zenon DEF HasMutex, BatchInv, Open
<1>2. Pending' = Pending \ batch[m] /\ Pending' = {}
  <2>1. Pending' = Pending \ batch[m]
    BY <1>0 DEF Pending, TypeOK, BatchInv
  <2>2. Pending \ batch[m] = {}
    BY <1>0, Accounting, Zenon
  <2> QED
    BY <2>1, <2>2, Zenon
<1>3. TypeOK'
  <2>1. nIdle' \in Int /\ nTotal' \in Int /\ nTodo' \in Nat
    BY <1>0, AllOkAfterType
  <2>2. fAllOk' \in BOOLEAN /\ verdict' \in [Masters -> BOOLEAN]
    BY <1>0, AllOkAfterType, Zenon DEF TypeOK
  <2>3. pc' \in [Threads -> PCs] /\ batch' \in [Threads -> SUBSET Checks]
    BY <1>0, Zenon DEF TypeOK, PCs
  <2> QED
    BY <2>1, <2>2, <2>3, Zenon DEF TypeOK
<1>4. SessionInv'
  BY <1>0, <1>1, Zenon DEF TypeOK, SessionInv, Threads
<1>5. BatchInv'
  BY <1>0, <1>1 DEF TypeOK, BatchInv, Busy
<1>6. TodoExact'
  BY <1>2, FS_EmptySet, Zenon DEF TodoExact
<1>7. ~Open'
  BY <1>0, <1>1, Zenon DEF Open, SessionInv, TypeOK, Threads
<1>8. QuietInv'
  BY <1>2, Zenon DEF QuietInv
<1>9. ResultInv'
  BY <1>0, <1>1, <1>7, Zenon DEF ResultInv, TypeOK, Busy
<1>10. VerdictExact'
  <2>1. \A n \in Masters : (pc[n] = "done")' => n = m
    BY <1>0, <1>1, Zenon DEF SessionInv, TypeOK, Threads
  <2>2. verdict'[m] = AllOkAfter(m)
    BY Zenon DEF TypeOK
  <2>3. IF AllOkAfter(m) THEN added \cap bad = {} /\ added \subseteq ran
                         ELSE bad # {}
    BY <1>0, <1>1, <1>2, AllOkAfterMeaning, Zenon
  <2>4. AllOkAfter(m) \in BOOLEAN
    BY <1>0, AllOkAfterType, Zenon
  <2> QED
    BY <2>1, <2>2, <2>3, <2>4, Zenon DEF VerdictExact, TypeOK
<1> QED
  BY <1>3, <1>4, <1>5, <1>6, <1>8, <1>9, <1>10, Zenon

(* Executing one check of a batch.                                         *)
LEMMA RunCheckInv ==
    ASSUME IndInv, NEW t \in Threads, NEW c \in Checks, RunCheck(t, c)
    PROVE  IndInv'
<1> USE DEF IndInv, RunCheck, shared
<1>1. /\ pc'[t] = IF vChecks[t] \ {c} = {} THEN "lock" ELSE "run"
      /\ vChecks'[t] = vChecks[t] \ {c}
      /\ \A u \in Threads \ {t} : /\ pc'[u] = pc[u] /\ vChecks'[u] = vChecks[u]
                                 /\ fOk'[u] = fOk[u]
  BY Zenon DEF TypeOK
<1>2. (fOk'[t] <=> fOk[t] /\ c \notin bad) /\ fOk'[t] \in BOOLEAN
  BY Zenon DEF TypeOK
<1>3. Pending' = Pending /\ c \in batch[t] /\ c \in added
  BY SMTT(30) DEF Pending, BatchInv
<1>4. TypeOK'
  BY <1>1, <1>2, <1>3, Zenon DEF TypeOK, PCs
<1>5. SessionInv'
  BY <1>1 DEF SessionInv, Threads
<1>6. BatchInv'
  BY <1>1, SMTT(30) DEF BatchInv, Busy
<1>7. TodoExact'
  BY <1>3, Zenon DEF TodoExact
<1>8. Open' <=> Open
  BY <1>1 DEF Open, Threads
<1>9. Open
  BY <1>3, PendingDef, Zenon DEF QuietInv
<1>10. QuietInv'
  BY <1>8, <1>9, Zenon DEF QuietInv
<1>11. ResultInv'
  <2>1. \A u \in Threads \ {t} : Busy(u)' =>
          IF fOk'[u] THEN /\ (batch'[u] \ vChecks'[u]) \cap bad' = {}
                          /\ batch'[u] \ vChecks'[u] \subseteq ran'
                     ELSE batch'[u] # {} /\ bad' # {}
    BY <1>1, Zenon DEF ResultInv, Busy
  <2>2. IF fOk'[t] THEN /\ (batch'[t] \ vChecks'[t]) \cap bad' = {}
                        /\ batch'[t] \ vChecks'[t] \subseteq ran'
                   ELSE batch'[t] # {} /\ bad' # {}
    BY <1>1, <1>2, <1>3, SMTT(30) DEF ResultInv, Busy
  <2> QED
    BY <1>3, <1>8, <2>1, <2>2, Zenon DEF ResultInv
<1>12. VerdictExact'
  BY <1>1, <1>9 DEF VerdictExact, Threads, Open, SessionInv
<1> QED
  BY <1>4, <1>5, <1>6, <1>7, <1>10, <1>11, <1>12, Zenon

(* A spurious wakeup, or an interruption, finds a thread without a batch.  *)
LEMMA WakeInv ==
    ASSUME IndInv, NEW t \in Threads, SpuriousWakeup(t) \/ Interrupt(t)
    PROVE  IndInv'
<1> USE DEF IndInv, SpuriousWakeup, Interrupt, shared, locals, history
<1>1. /\ pc[t] \in {"wait", "woken"} /\ batch[t] = {} /\ vChecks[t] = {}
      /\ pc'[t] \in {"woken", "lock", "gone"}
      /\ pc'[t] = "lock" => fOk'[t] /\ nNow'[t] = 0
      /\ pc'[t] = "gone" <=> pc'[t] # "woken" /\ t \notin Masters
      /\ UNCHANGED <<controlMutex, queue, nTodo, fAllOk, batch, vChecks, verdict,
                     added, bad, ran>>
  BY DEF BatchInv, Busy, TypeOK
<1>2. \A u \in Threads \ {t} : /\ pc'[u] = pc[u] /\ nNow'[u] = nNow[u]
                              /\ fOk'[u] = fOk[u]
  BY Zenon DEF TypeOK
<1>3. Pending' = Pending
  BY DEF Pending
<1>4. TypeOK'
  <2>1. CASE SpuriousWakeup(t)
    BY <2>1, Zenon DEF TypeOK, PCs
  <2>2. CASE Interrupt(t)
    BY <2>2, Zenon DEF TypeOK, PCs
  <2> QED
    BY <2>1, <2>2, Zenon
<1>5. SessionInv' /\ VerdictExact'
  BY <1>1, <1>2, SMTT(30) DEF SessionInv, VerdictExact, Threads
<1>6. BatchInv'
  BY <1>1, <1>2, FS_EmptySet, ZenonT(60) DEF BatchInv, Busy
<1>7. TodoExact'
  BY <1>3, Zenon DEF TodoExact
<1>8. Open' <=> Open
  BY <1>1, <1>2, Zenon DEF Open, Threads
<1>9. QuietInv' /\ ResultInv'
  BY <1>1, <1>2, <1>3, <1>8, Zenon DEF QuietInv, ResultInv, Busy
<1> QED
  BY <1>4, <1>5, <1>6, <1>7, <1>9, Zenon

(* Every step of Next preserves the invariant.                             *)
LEMMA NextInv == IndInv /\ [Next]_vars => IndInv'
<1> SUFFICES ASSUME IndInv, [Next]_vars PROVE IndInv'
  BY Zenon
<1>1. CASE UNCHANGED vars
  BY <1>1, SMTT(30) DEF vars, shared, locals, history, IndInv, TypeOK, SessionInv, BatchInv,
              TodoExact, QuietInv, ResultInv, VerdictExact, Pending, Open, Busy
<1>2. ASSUME NEW m \in Masters, MasterStep(m) PROVE IndInv'
  BY <1>2, EnterInv, ReturnInv, LeaveInv, Zenon DEF MasterStep
<1>3. ASSUME NEW m \in Masters, AddStep(m) PROVE IndInv'
  BY <1>3, AddInv, Zenon DEF AddStep
<1>4. ASSUME NEW t \in Threads, EnterLoop(t) \/ LoopStep(t) PROVE IndInv'
  BY <1>4, EnterLoopInv, TakeInv, SleepInv, Zenon DEF LoopStep
<1>5. ASSUME NEW t \in Threads, WorkStep(t) PROVE IndInv'
  BY <1>5, RunCheckInv, Zenon DEF WorkStep
<1>6. ASSUME NEW t \in Threads, SpuriousWakeup(t) \/ Interrupt(t) PROVE IndInv'
  BY <1>6, WakeInv, Zenon
<1> QED
  BY <1>1, <1>2, <1>3, <1>4, <1>5, <1>6, Zenon DEF Next

(* The state of the queue and of its threads stays well typed, nTodo never *)
(* below zero included.                                                    *)
THEOREM TypeCorrect == Spec => []TypeOK
<1>1. IndInv => TypeOK
  BY Zenon DEF IndInv
<1> QED
  BY <1>1, InitInv, NextInv, PTL DEF Spec

(* Wait returns true exactly when every check of the session succeeds, and *)
(* then every check was executed.                                          *)
THEOREM VerdictCorrect == Spec => []VerdictExact
<1>1. IndInv => VerdictExact
  BY Zenon DEF IndInv
<1> QED
  BY <1>1, InitInv, NextInv, PTL DEF Spec

(* When ControlMutex is released the queue is finished: nothing queued, in *)
(* a batch or uncounted, and fAllOk reset.                                 *)
THEOREM ReleaseCorrect == Spec => []FinishedBeforeRelease
<1>1. IndInv => FinishedBeforeRelease
  <2> SUFFICES ASSUME IndInv, \A m \in Masters : pc[m] \in {"out", "done"}
               PROVE  /\ Pending = {} /\ nTodo = 0 /\ fAllOk
                      /\ \A t \in Threads : pc[t] # "run" /\ vChecks[t] = {}
    BY Zenon DEF FinishedBeforeRelease
  <2>1. Pending = {} /\ fAllOk
    BY Zenon DEF IndInv, QuietInv, Open
  <2>2. nTodo = 0
    BY <2>1, FS_EmptySet, Zenon DEF IndInv, TodoExact
  <2>3. \A t \in Threads : pc[t] # "run" /\ vChecks[t] = {}
    BY <2>1, SMTT(30) DEF IndInv, BatchInv, Pending
  <2> QED
    BY <2>1, <2>2, <2>3, Zenon
<1> QED
  BY <1>1, InitInv, NextInv, PTL DEF Spec

(* nTodo counts exactly the checks not yet accounted for.                  *)
THEOREM TodoCorrect == Spec => []TodoExact
<1>1. IndInv => TodoExact
  BY Zenon DEF IndInv
<1> QED
  BY <1>1, InitInv, NextInv, PTL DEF Spec
=============================================================================
