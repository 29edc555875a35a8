-------------------------- MODULE CoinsCacheProofs --------------------------
(* The coin caches are transparent, for any outpoints, coins and blocks:   *)
(* what each operation does to a layer does to the map its readers see     *)
(* what the abstract operation does, the flags stay sound, and the memory  *)
(* that the caches say they use is the memory of their coins.              *)
EXTENDS CoinsCache, CoinsViewProofs, FiniteSetTheorems, WellFoundedInduction

-----------------------------------------------------------------------------
(* cachedCoinsUsage.  MapThenSumSet sums over a set element by element:    *)
(* such a sum exists for every finite set, is linear, and changes with one *)
(* summand by as much as the summand does.                                 *)

(* A set of numbers has a least member.                                    *)
LEMMA NatMin ==
    ASSUME NEW T, T \subseteq Nat, T # {}
    PROVE  \E x \in T : \A y \in T : x <= y
<1>1. PICK x \in T : \A y \in T : ~ (<<y, x>> \in OpToRel(<, Nat))
  BY WFMin, NatLessThanWellFounded, Zenon
<1>2. \A y \in T : ~ (y < x)
  BY <1>1, Zenon DEF OpToRel
<1> QED BY <1>2

(* The element that a fold over s takes first, and the sums that it        *)
(* computes for the subsets of S.                                          *)
One(s) == CHOOSE x \in s : TRUE

Sums(m, S, F) ==
    F = [s \in SUBSET S |-> IF s = {} THEN 0 ELSE m[One(s)] + F[s \ {One(s)}]]

(* Taking one element away leaves a smaller set.                           *)
LEMMA Smaller ==
    ASSUME NEW S, IsFiniteSet(S), NEW s \in SUBSET S
    PROVE  /\ IsFiniteSet(s) /\ Cardinality(s) \in Nat /\ Cardinality(s) <= Cardinality(S)
           /\ s # {} => /\ One(s) \in s /\ s \ {One(s)} \in SUBSET S
                        /\ Cardinality(s \ {One(s)}) = Cardinality(s) - 1
<1>1. IsFiniteSet(s) /\ Cardinality(s) <= Cardinality(S)
  BY FS_Subset
<1>2. Cardinality(s) \in Nat
  BY <1>1, FS_CardinalityType, Zenon
<1>3. ASSUME s # {} PROVE One(s) \in s
  BY <1>3, Zenon DEF One
<1>4. ASSUME s # {} PROVE Cardinality(s \ {One(s)}) = Cardinality(s) - 1
  BY <1>1, <1>3, <1>4, FS_RemoveElement, Zenon
<1> QED BY <1>1, <1>2, <1>3, <1>4, Zenon

(* Induction over the subsets of a finite set.                             *)
LEMMA SubsetInduction ==
    ASSUME NEW S, IsFiniteSet(S), NEW P \in SUBSET (SUBSET S), {} \in P,
           \A s \in SUBSET S : s # {} /\ s \ {One(s)} \in P => s \in P
    PROVE  P = SUBSET S
<1> DEFINE T == {Cardinality(s) : s \in (SUBSET S) \ P}
<1> SUFFICES ASSUME P # SUBSET S PROVE FALSE
  BY Zenon
<1>1. T \subseteq Nat /\ T # {}
  <2>1. \A s \in (SUBSET S) \ P : Cardinality(s) \in Nat
    BY Smaller, Zenon
  <2> QED BY <2>1
<1>2. PICK n \in T : \A k \in T : n <= k
  <2> HIDE DEF T
  <2> QED BY <1>1, NatMin, Zenon
<1>3. PICK s \in (SUBSET S) \ P : \A t \in (SUBSET S) \ P : Cardinality(s) <= Cardinality(t)
  BY <1>2
<1>4. s # {} /\ s \ {One(s)} \in SUBSET S /\ Cardinality(s) \in Nat
      /\ Cardinality(s \ {One(s)}) = Cardinality(s) - 1
  BY <1>3, Smaller, Zenon
<1>5. s \ {One(s)} \in P
  <2>1. ASSUME s \ {One(s)} \notin P PROVE Cardinality(s) <= Cardinality(s) - 1
    <3>1. s \ {One(s)} \in (SUBSET S) \ P
      BY <1>4, <2>1, Zenon
    <3> QED BY <1>3, <1>4, <3>1
  <2> QED BY <1>4, <2>1
<1> QED BY <1>3, <1>4, <1>5, Zenon

(* The sums of a finite set exist.                                         *)
LEMMA SumsExist ==
    ASSUME NEW S, IsFiniteSet(S), NEW m \in [S -> Int]
    PROVE  \E F : Sums(m, S, F)
<1> DEFINE Right(F, s) == F[s] = IF s = {} THEN 0 ELSE m[One(s)] + F[s \ {One(s)}]
           Upto(n) == \E F \in [SUBSET S -> Int] :
                         \A s \in SUBSET S : Cardinality(s) <= n => Right(F, s)
           Bad == {n \in Nat : ~Upto(n)}
<1>1. Upto(0)
  <2> DEFINE F == [s \in SUBSET S |-> 0]
  <2>1. F \in [SUBSET S -> Int]
    OBVIOUS
  <2>2. ASSUME NEW s \in SUBSET S, Cardinality(s) <= 0 PROVE Right(F, s)
    <3>1. s = {}
      <4>1. IsFiniteSet(s) /\ Cardinality(s) \in Nat
        BY Smaller, Zenon
      <4>2. Cardinality(s) = 0
        BY <2>2, <4>1
      <4> QED BY <4>1, <4>2, FS_EmptySet, Zenon
    <3> QED BY <3>1, Zenon
  <2> HIDE DEF F
  <2> QED BY <2>1, <2>2, Zenon
<1>2. ASSUME NEW n \in Nat, Upto(n) PROVE Upto(n + 1)
  <2>1. PICK F \in [SUBSET S -> Int] : \A s \in SUBSET S : Cardinality(s) <= n => Right(F, s)
    BY <1>2, Zenon
  <2>2. \A s \in SUBSET S : s # {} => m[One(s)] + F[s \ {One(s)}] \in Int
    BY Smaller
  <2> DEFINE G == [s \in SUBSET S |-> IF s = {} THEN 0 ELSE m[One(s)] + F[s \ {One(s)}]]
  <2>3. G \in [SUBSET S -> Int]
    BY <2>2
  <2>4. ASSUME NEW s \in SUBSET S, Cardinality(s) <= n PROVE G[s] = F[s]
    BY <2>1, <2>4, Zenon
  <2>5. ASSUME NEW s \in SUBSET S, Cardinality(s) <= n + 1 PROVE Right(G, s)
    <3>1. CASE s = {}
      BY <3>1, Zenon
    <3>2. CASE s # {}
      <4>1. s \ {One(s)} \in SUBSET S /\ Cardinality(s \ {One(s)}) <= n
        BY <2>5, <3>2, Smaller
      <4>2. G[s \ {One(s)}] = F[s \ {One(s)}]
        BY <2>4, <4>1, Zenon
      <4>3. G[s] = m[One(s)] + F[s \ {One(s)}]
        BY <3>2, Zenon
      <4> HIDE DEF G
      <4> QED BY <3>2, <4>2, <4>3, Zenon
    <3> QED BY <3>1, <3>2, Zenon
  <2> HIDE DEF G
  <2> QED BY <2>3, <2>5, Zenon
<1>3. Bad = {}
  <2> SUFFICES ASSUME Bad # {} PROVE FALSE
    BY Zenon
  <2>1. Bad \subseteq Nat
    BY Zenon
  <2> HIDE DEF Bad
  <2>2. PICK n \in Bad : \A k \in Bad : n <= k
    BY <2>1, NatMin, Zenon
  <2>3. n \in Nat /\ ~Upto(n)
    BY <2>2, Zenon DEF Bad
  <2> HIDE DEF Upto
  <2>4. n # 0 /\ n - 1 \in Nat /\ (n - 1) + 1 = n
    BY <1>1, <2>3
  <2>5. n - 1 \notin Bad
    BY <2>2, <2>3
  <2>6. Upto(n - 1)
    BY <2>4, <2>5, Zenon DEF Bad
  <2> QED BY <1>2, <2>3, <2>4, <2>6
<1>4. Upto(Cardinality(S))
  BY <1>3, FS_CardinalityType, Zenon
<1>5. PICK F \in [SUBSET S -> Int] : \A s \in SUBSET S : Right(F, s)
  BY <1>4, Smaller, Zenon
<1> QED BY <1>5 DEF Sums

(* The sums are integers.                                                  *)
LEMMA SumsType ==
    ASSUME NEW S, IsFiniteSet(S), NEW m \in [S -> Int], NEW F, Sums(m, S, F)
    PROVE  F \in [SUBSET S -> Int]
<1> DEFINE P == {s \in SUBSET S : F[s] \in Int}
<1>1. {} \in P
  BY DEF Sums
<1>2. ASSUME NEW s \in SUBSET S, s # {}, s \ {One(s)} \in P PROVE s \in P
  <2>1. F[s] = m[One(s)] + F[s \ {One(s)}]
    BY <1>2, Zenon DEF Sums
  <2>2. m[One(s)] \in Int
    BY <1>2, Smaller, Zenon
  <2> QED BY <1>2, <2>1, <2>2
<1>3. P = SUBSET S
  <2>1. P \in SUBSET (SUBSET S)
    BY Zenon
  <2> HIDE DEF P
  <2> QED BY <1>1, <1>2, <2>1, SubsetInduction, Zenon
<1> QED BY <1>3, Zenon DEF Sums

(* A sum of sums.                                                          *)
LEMMA SumsAdd ==
    ASSUME NEW S, IsFiniteSet(S), NEW m \in [S -> Int], NEW d \in [S -> Int], NEW t \in [S -> Int],
           \A x \in S : t[x] = m[x] + d[x],
           NEW F, Sums(m, S, F), NEW D, Sums(d, S, D), NEW G, Sums(t, S, G)
    PROVE  G[S] = F[S] + D[S]
<1> DEFINE P == {s \in SUBSET S : G[s] = F[s] + D[s]}
<1>0. F \in [SUBSET S -> Int] /\ D \in [SUBSET S -> Int] /\ G \in [SUBSET S -> Int]
  BY SumsType, Zenon
<1>1. {} \in P
  BY DEF Sums
<1>2. ASSUME NEW s \in SUBSET S, s # {}, s \ {One(s)} \in P PROVE s \in P
  <2>1. /\ F[s] = m[One(s)] + F[s \ {One(s)}] /\ D[s] = d[One(s)] + D[s \ {One(s)}]
        /\ G[s] = t[One(s)] + G[s \ {One(s)}]
    BY <1>2, Zenon DEF Sums
  <2>2. /\ One(s) \in S /\ m[One(s)] \in Int /\ d[One(s)] \in Int
        /\ t[One(s)] = m[One(s)] + d[One(s)] /\ s \ {One(s)} \in SUBSET S
    BY <1>2, Smaller, Zenon
  <2>3. F[s \ {One(s)}] \in Int /\ D[s \ {One(s)}] \in Int
    BY <1>0, <2>2, Zenon
  <2> QED BY <1>2, <2>1, <2>2, <2>3
<1>3. P = SUBSET S
  <2>1. P \in SUBSET (SUBSET S)
    BY Zenon
  <2> HIDE DEF P
  <2> QED BY <1>1, <1>2, <2>1, SubsetInduction, Zenon
<1> QED BY <1>3, Zenon

(* A sum with one summand that is not zero, and one with none.             *)
LEMMA SumsOne ==
    ASSUME NEW S, IsFiniteSet(S), NEW o \in S, NEW k \in Int,
           NEW F, Sums([x \in S |-> IF x = o THEN k ELSE 0], S, F)
    PROVE  F[S] = k
<1> DEFINE m == [x \in S |-> IF x = o THEN k ELSE 0]
           P == {s \in SUBSET S : F[s] = IF o \in s THEN k ELSE 0}
<1>1. {} \in P
  BY Zenon DEF Sums
<1>2. ASSUME NEW s \in SUBSET S, s # {}, s \ {One(s)} \in P PROVE s \in P
  <2>1. F[s] = m[One(s)] + F[s \ {One(s)}]
    BY <1>2, Zenon DEF Sums
  <2>2. One(s) \in s /\ One(s) \in S
    BY <1>2, Smaller, Zenon
  <2>3. CASE o = One(s)
    BY <1>2, <2>1, <2>2, <2>3
  <2>4. CASE o # One(s)
    BY <1>2, <2>1, <2>2, <2>4
  <2> QED BY <2>3, <2>4
<1>3. P = SUBSET S
  <2>1. P \in SUBSET (SUBSET S)
    BY Zenon
  <2> HIDE DEF P
  <2> QED BY <1>1, <1>2, <2>1, SubsetInduction, Zenon
<1> QED BY <1>3, Zenon

-----------------------------------------------------------------------------
USE CoinsAssumption, EntriesAssumption, BlocksAssumption
-----------------------------------------------------------------------------
(* Without an open view the scratch layer is empty; with one, both layers  *)
(* know their best block.                                                  *)
LifeCycle ==
    /\ ~open => view = EmptyCache /\ viewBest = NullHash
    /\ open => viewBest \in Blocks /\ tipBest \in Blocks

IndInv == TypeOK /\ FlagsSoundInv /\ LifeCycle

(* What a step does to the maps that the readers of each layer see.        *)
Visible == <<TipCoins, TipBlock, ViewCoins, ViewBlock, open>>

(* The initial layers are empty.                                           *)
LEMMA InitInv == Init => IndInv /\ Utxo!Init
<1> SUFFICES ASSUME Init PROVE IndInv /\ Utxo!Init
  BY Zenon
<1>1. db \in Views
  BY Zenon DEF Init, Views
<1>2. TipCoins = db /\ ViewCoins = db /\ FlagsSoundInv /\ EmptyCache \in Caches
  BY <1>1, EmptyView, Zenon DEF Init, TipCoins, ViewCoins, FlagsSoundInv
<1>3. TypeOK /\ LifeCycle
  BY <1>1, <1>2, Zenon DEF Init, TypeOK, LifeCycle
<1>4. Utxo!Init
  BY <1>1, <1>2, Zenon DEF Init, Utxo!Init, TipBlock, ViewBlock, BestOf, Views
<1> QED
  BY <1>2, <1>3, <1>4, Zenon DEF IndInv

(* The views of a state that satisfies the invariant.                      *)
LEMMA ViewsTyped ==
    ASSUME IndInv
    PROVE  /\ db \in Views /\ TipCoins \in Views /\ ViewCoins \in Views
           /\ tip \in Caches /\ view \in Caches
           /\ FlagsSound(tip, db) /\ FlagsSound(view, TipCoins)
           /\ TipBlock \in Blocks
BY ViewType, Zenon DEF IndInv, TypeOK, FlagsSoundInv, TipCoins, ViewCoins, TipBlock, BestOf

(* Opening a view is Begin.                                                *)
LEMMA OpenStep ==
    ASSUME IndInv, OpenView
    PROVE  IndInv' /\ Utxo!Begin
<1> USE DEF OpenView, dbVars
<1>1. TipCoins' = TipCoins /\ ViewCoins' = ViewCoins
  BY Zenon DEF TipCoins, ViewCoins
<1>2. TipBlock' = TipBlock /\ ViewBlock' = ViewBlock
  BY ViewsTyped, Zenon DEF TipBlock, ViewBlock, BestOf, IndInv, LifeCycle
<1>3. IndInv'
  BY <1>1, ViewsTyped, Zenon DEF IndInv, TypeOK, FlagsSoundInv, LifeCycle
<1> QED
  BY <1>1, <1>2, <1>3, Zenon DEF Utxo!Begin

(* A read of the view below it, when the view has no entry, is invisible.  *)
LEMMA FillStep ==
    ASSUME IndInv, NEW o \in Outpoints, FillTip(o), db' = db
    PROVE  /\ tip' \in Caches /\ TipCoins' = TipCoins
           /\ FlagsSound(tip, db)'
<1>1. CASE view[o] = NoEntry
  BY <1>1, ViewsTyped, FetchView, Zenon DEF FillTip, TipCoins
<1>2. CASE view[o] # NoEntry
  BY <1>2, ViewsTyped, Zenon DEF FillTip, TipCoins
<1> QED
  BY <1>1, <1>2, Zenon

(* A read in the view is invisible.                                        *)
LEMMA ReadViewStep ==
    ASSUME IndInv, NEW o \in Outpoints, ReadView(o)
    PROVE  IndInv' /\ UNCHANGED Visible
<1> USE DEF ReadView, dbVars
<1>1. tip' \in Caches /\ TipCoins' = TipCoins /\ FlagsSound(tip, db)'
  BY FillStep, Zenon
<1>2. view' \in Caches /\ ViewCoins' = ViewCoins /\ FlagsSound(view', TipCoins)
  BY <1>1, ViewsTyped, FetchView, Zenon DEF ViewCoins
<1>3. IndInv'
  BY <1>1, <1>2, Zenon DEF IndInv, TypeOK, FlagsSoundInv, LifeCycle
<1> QED
  BY <1>1, <1>2, <1>3, Zenon DEF Visible, TipBlock, ViewBlock

(* AddCoin on the view is Add.                                             *)
LEMMA AddStep ==
    ASSUME IndInv, NEW o \in Outpoints, NEW c \in Coins, NEW overwrite \in BOOLEAN,
           AddToView(o, c, overwrite)
    PROVE  IndInv' /\ Utxo!Add(o, c)
<1> USE DEF AddToView, dbVars, tipVars
<1>1. TipCoins' = TipCoins
  BY Zenon DEF TipCoins
<1>2. /\ view' \in Caches
      /\ View(view', TipCoins) = IF c \in Unspendable THEN ViewCoins
                                 ELSE [ViewCoins EXCEPT ![o] = c]
      /\ FlagsSound(view', TipCoins)
  BY ViewsTyped, AddView DEF OverwriteDeclared, ViewCoins
<1>3. IndInv'
  BY <1>1, <1>2, Zenon DEF IndInv, TypeOK, FlagsSoundInv, LifeCycle
<1>4. ViewCoins' = View(view', TipCoins)
  BY <1>1, Zenon DEF ViewCoins
<1> QED
  BY <1>1, <1>2, <1>3, <1>4, Zenon DEF Utxo!Add, TipBlock, ViewBlock

(* SpendCoin on the view is Spend.                                         *)
LEMMA SpendStep ==
    ASSUME IndInv, NEW o \in Outpoints, SpendInView(o)
    PROVE  IndInv' /\ Utxo!Spend(o)
<1> USE DEF SpendInView, dbVars
<1>1. tip' \in Caches /\ TipCoins' = TipCoins /\ FlagsSound(tip, db)'
  BY FillStep, Zenon
<1>2. /\ view' \in Caches
      /\ View(view', TipCoins) = [ViewCoins EXCEPT ![o] = Spent]
      /\ FlagsSound(view', TipCoins)
  BY ViewsTyped, SpendView, Zenon DEF ViewCoins
<1>3. IndInv'
  BY <1>1, <1>2, Zenon DEF IndInv, TypeOK, FlagsSoundInv, LifeCycle
<1>4. ViewCoins' = View(view', TipCoins)
  BY <1>1, Zenon DEF ViewCoins
<1> QED
  BY <1>1, <1>2, <1>3, <1>4, Zenon DEF Utxo!Spend, TipBlock, ViewBlock

(* SetBestBlock on the view is SetBest.                                    *)
LEMMA SetBestStep ==
    ASSUME IndInv, NEW b \in Blocks, SetBestBlock(b)
    PROVE  IndInv' /\ Utxo!SetBest(b)
<1> USE DEF SetBestBlock, dbVars, tipVars
<1>1. TipCoins' = TipCoins /\ ViewCoins' = ViewCoins
  BY Zenon DEF TipCoins, ViewCoins
<1>2. TipBlock' = TipBlock /\ ViewBlock' = b
  BY Zenon DEF TipBlock, ViewBlock, BestOf
<1>3. IndInv'
  BY <1>1, Zenon DEF IndInv, TypeOK, FlagsSoundInv, LifeCycle
<1> QED
  BY <1>1, <1>2, <1>3, Zenon DEF Utxo!SetBest

(* Flush of the view is Commit: the tip then shows what the view showed.   *)
LEMMA FlushViewStep ==
    ASSUME IndInv, FlushView
    PROVE  IndInv' /\ Utxo!Commit
<1> USE DEF FlushView, CloseView, dbVars
<1>1. tip' \in Caches /\ TipCoins' = ViewCoins /\ FlagsSound(tip, db)'
  BY ViewsTyped, BatchView, Zenon DEF TipCoins, ViewCoins
<1>2. view' \in Caches /\ ViewCoins' = TipCoins' /\ FlagsSound(view', TipCoins')
  BY <1>1, ViewsTyped, EmptyView, Zenon DEF ViewCoins
<1>3. TipBlock' = ViewBlock /\ ViewBlock' = ViewBlock
  BY Zenon DEF TipBlock, ViewBlock, BestOf, IndInv, LifeCycle
<1>4. IndInv'
  BY <1>1, <1>2, Zenon DEF IndInv, TypeOK, FlagsSoundInv, LifeCycle
<1> QED
  BY <1>1, <1>2, <1>3, <1>4, Zenon DEF Utxo!Commit

(* Dropping the view is Abort.                                             *)
LEMMA DropViewStep ==
    ASSUME IndInv, DropView
    PROVE  IndInv' /\ Utxo!Abort
<1> USE DEF DropView, CloseView, dbVars, tipVars
<1>1. TipCoins' = TipCoins /\ TipBlock' = TipBlock
  BY Zenon DEF TipCoins, TipBlock
<1>2. view' \in Caches /\ ViewCoins' = TipCoins /\ FlagsSound(view', TipCoins)
  BY <1>1, ViewsTyped, EmptyView, Zenon DEF ViewCoins
<1>3. ViewBlock' = TipBlock
  BY <1>1, Zenon DEF ViewBlock, BestOf
<1>4. IndInv'
  BY <1>1, <1>2, Zenon DEF IndInv, TypeOK, FlagsSoundInv, LifeCycle
<1> QED
  BY <1>1, <1>2, <1>3, <1>4, Zenon DEF Utxo!Abort

(* Reading or uncaching in the tip is invisible.                           *)
LEMMA TrimStep ==
    ASSUME IndInv, NEW o \in Outpoints, ReadTip(o) \/ UncacheTip(o)
    PROVE  IndInv' /\ UNCHANGED Visible
<1> USE DEF ReadTip, UncacheTip, dbVars, viewVars
<1>1. tip' \in Caches /\ TipCoins' = TipCoins /\ FlagsSound(tip, db)'
  BY ViewsTyped, FetchView, UncacheView DEF TipCoins
<1>2. ViewCoins' = ViewCoins /\ FlagsSound(view, TipCoins)'
  BY <1>1, ViewsTyped, Zenon DEF ViewCoins
<1>3. IndInv'
  BY <1>1, <1>2 DEF IndInv, TypeOK, FlagsSoundInv, LifeCycle
<1> QED
  BY <1>1, <1>2, <1>3, Zenon DEF Visible, TipBlock, ViewBlock

(* Flush of the tip into the database is invisible.                        *)
LEMMA FlushTipStep ==
    ASSUME IndInv, FlushTip
    PROVE  IndInv' /\ UNCHANGED Visible
<1> USE DEF FlushTip, viewVars
<1>1. db' = TipCoins /\ db' \in Views
  BY ViewsTyped, DbWriteView, Zenon DEF TipCoins
<1>2. tip' \in Caches /\ TipCoins' = TipCoins /\ FlagsSound(tip, db)'
  BY <1>1, EmptyView, Zenon DEF TipCoins
<1>3. ViewCoins' = ViewCoins /\ FlagsSound(view, TipCoins)'
  BY <1>2, ViewsTyped, Zenon DEF ViewCoins
<1>4. TipBlock' = TipBlock /\ ViewBlock' = ViewBlock
  BY Zenon DEF TipBlock, ViewBlock, BestOf
<1>5. IndInv'
  BY <1>1, <1>2, <1>3, ViewsTyped, Zenon DEF IndInv, TypeOK, FlagsSoundInv, LifeCycle
<1> QED
  BY <1>2, <1>3, <1>4, <1>5, Zenon DEF Visible

(* Every step preserves the invariant and is a step of UtxoSet or none.    *)
LEMMA NextStep == IndInv /\ [Next]_vars => IndInv' /\ [Utxo!Next]_Visible
<1> SUFFICES ASSUME IndInv, [Next]_vars PROVE IndInv' /\ [Utxo!Next]_Visible
  BY Zenon
<1>1. CASE UNCHANGED vars
  BY <1>1, Zenon DEF vars, dbVars, tipVars, viewVars, IndInv, TypeOK, FlagsSoundInv,
              LifeCycle, Visible, TipCoins, ViewCoins, TipBlock, ViewBlock
<1>2. CASE OpenView
  BY <1>2, OpenStep, Zenon DEF Utxo!Next
<1>3. CASE FlushView
  BY <1>3, FlushViewStep, Zenon DEF Utxo!Next
<1>4. CASE DropView
  BY <1>4, DropViewStep, Zenon DEF Utxo!Next
<1>5. CASE FlushTip
  BY <1>5, FlushTipStep, Zenon
<1>6. ASSUME NEW o \in Outpoints, ReadView(o) \/ ReadTip(o) \/ UncacheTip(o)
      PROVE  IndInv' /\ [Utxo!Next]_Visible
  BY <1>6, ReadViewStep, TrimStep, Zenon
<1>7. ASSUME NEW o \in Outpoints, SpendInView(o)
      PROVE  IndInv' /\ [Utxo!Next]_Visible
  BY <1>7, SpendStep, Zenon DEF Utxo!Next
<1>8. ASSUME NEW o \in Outpoints, NEW c \in Coins, NEW overwrite \in BOOLEAN,
             AddToView(o, c, overwrite)
      PROVE  IndInv' /\ [Utxo!Next]_Visible
  BY <1>8, AddStep, Zenon DEF Utxo!Next
<1>9. ASSUME NEW b \in Blocks, SetBestBlock(b)
      PROVE  IndInv' /\ [Utxo!Next]_Visible
  BY <1>9, SetBestStep, Zenon DEF Utxo!Next
<1> QED
  BY <1>1, <1>2, <1>3, <1>4, <1>5, <1>6, <1>7, <1>8, <1>9, Zenon DEF Next

(* The layers stay well typed.                                             *)
THEOREM TypeCorrect == Spec => []TypeOK
<1>1. IndInv => TypeOK
  BY Zenon DEF IndInv
<1> QED
  BY <1>1, InitInv, NextStep, PTL DEF Spec

(* DIRTY and FRESH mean what coins.h says they mean, in both layers.       *)
THEOREM FlagsCorrect == Spec => []FlagsSoundInv
<1>1. IndInv => FlagsSoundInv
  BY Zenon DEF IndInv
<1> QED
  BY <1>1, InitInv, NextStep, PTL DEF Spec

(* Flush never meets a misapplied FRESH flag.                              *)
THEOREM FlushNeverThrows == Spec => []NeverMisapplied
<1>1. IndInv => NeverMisapplied
  BY ViewsTyped, BatchView, Zenon DEF NeverMisapplied, TipCoins
<1> QED
  BY <1>1, InitInv, NextStep, PTL DEF Spec

(* The stack of caches implements the map of unspent coins.                *)
THEOREM Refinement == Spec => ImplementsUtxoSet
<1>1. IndInv /\ [Next]_vars => [Utxo!Next]_Utxo!vars
  BY NextStep, Zenon DEF Visible, Utxo!vars
<1> QED
  BY <1>1, InitInv, NextStep, PTL DEF Spec, ImplementsUtxoSet, Utxo!Spec

-----------------------------------------------------------------------------
(* The memory of a cache is such a sum, and so is what BatchWrite adds.    *)

(* The memory of every entry, and what BatchWrite adds for every entry.    *)
Memories(cache) == [o \in Outpoints |-> EntryMemory(cache[o])]
Merges(child, parent) == [o \in Outpoints |-> MergeMemory(child[o], parent[o])]

(* The memory of an entry, and every change of it, is an integer.          *)
LEMMA MemoryTypes ==
    /\ \A c \in Coin : Memory(c) \in Int
    /\ \A e \in Entry : EntryMemory(e) \in Int
    /\ \A e, p \in Entry : MergeMemory(e, p) \in Int
<1>1. \A c \in Coin : Memory(c) \in Int
  BY SMTT(30) DEF Memory, Coin
<1>2. \A e \in Entry : e # NoEntry => e.coin \in Coin
  BY Zenon DEF Entry, Entries, Coin
<1>3. \A e \in Entry : EntryMemory(e) \in Int
  BY <1>1, <1>2, SMTT(30) DEF EntryMemory
<1>4. \A e, p \in Entry : MergeMemory(e, p) \in Int
  BY <1>1, <1>2, SMTT(30) DEF MergeMemory
<1> QED BY <1>1, <1>3, <1>4, Zenon

(* MemoryUsage is the sum of the memories.                                 *)
LEMMA UsageIsSum ==
    ASSUME IsFiniteSet(Outpoints), NEW cache \in Caches
    PROVE  \E F : Sums(Memories(cache), Outpoints, F) /\ MemoryUsage(cache) = F[Outpoints]
<1>0. Memories(cache) \in [Outpoints -> Int]
  BY MemoryTypes, Zenon DEF Memories, Caches, Entry
<1>1. PICK F : Sums(Memories(cache), Outpoints, F)
  BY <1>0, SumsExist, Zenon
<1>2. F = [s \in SUBSET Outpoints |-> IF s = {} THEN 0
              ELSE Memories(cache)[CHOOSE x \in s : TRUE] + F[s \ {CHOOSE x \in s : TRUE}]]
  BY <1>1, Zenon DEF Sums, One
<1>3. \A s \in SUBSET Outpoints : s # {} =>
         Memories(cache)[CHOOSE x \in s : TRUE] = EntryMemory(cache[CHOOSE x \in s : TRUE])
  BY Zenon DEF Memories
<1>4. F = [s \in SUBSET Outpoints |-> IF s = {} THEN 0
              ELSE EntryMemory(cache[CHOOSE x \in s : TRUE]) + F[s \ {CHOOSE x \in s : TRUE}]]
  BY <1>2, <1>3, SMTT(30)
<1> DEFINE iter[s \in SUBSET Outpoints] ==
              IF s = {} THEN 0
              ELSE LET x == CHOOSE x \in s : TRUE IN EntryMemory(cache[x]) + iter[s \ {x}]
<1>5. MemoryUsage(cache) = iter[Outpoints]
  BY Zenon DEF MemoryUsage, MapThenSumSet, MapThenFoldSet
<1>6. iter = [s \in SUBSET Outpoints |-> IF s = {} THEN 0
              ELSE EntryMemory(cache[CHOOSE x \in s : TRUE]) + iter[s \ {CHOOSE x \in s : TRUE}]]
  <2> HIDE DEF iter
  <2> QED BY <1>4, Zenon DEF iter
<1> HIDE DEF iter
<1>7. iter = [s \in SUBSET Outpoints |-> IF s = {} THEN 0
              ELSE Memories(cache)[CHOOSE x \in s : TRUE] + iter[s \ {CHOOSE x \in s : TRUE}]]
  BY <1>3, <1>6, SMTT(30)
<1> QED BY <1>5, <1>7, Zenon DEF Sums, One

(* BatchMemory is the sum of what BatchWrite adds for each entry.          *)
LEMMA BatchIsSum ==
    ASSUME IsFiniteSet(Outpoints), NEW child \in Caches, NEW parent \in Caches
    PROVE  \E F : Sums(Merges(child, parent), Outpoints, F) /\ BatchMemory(child, parent) = F[Outpoints]
<1>0. Merges(child, parent) \in [Outpoints -> Int]
  BY MemoryTypes, Zenon DEF Merges, Caches, Entry
<1>1. PICK F : Sums(Merges(child, parent), Outpoints, F)
  BY <1>0, SumsExist, Zenon
<1>2. F = [s \in SUBSET Outpoints |-> IF s = {} THEN 0
              ELSE Merges(child, parent)[CHOOSE x \in s : TRUE] + F[s \ {CHOOSE x \in s : TRUE}]]
  BY <1>1, Zenon DEF Sums, One
<1>3. \A s \in SUBSET Outpoints : s # {} =>
         Merges(child, parent)[CHOOSE x \in s : TRUE] =
            MergeMemory(child[CHOOSE x \in s : TRUE], parent[CHOOSE x \in s : TRUE])
  BY Zenon DEF Merges
<1>4. F = [s \in SUBSET Outpoints |-> IF s = {} THEN 0
              ELSE MergeMemory(child[CHOOSE x \in s : TRUE], parent[CHOOSE x \in s : TRUE])
                   + F[s \ {CHOOSE x \in s : TRUE}]]
  BY <1>2, <1>3, SMTT(30)
<1> DEFINE iter[s \in SUBSET Outpoints] ==
              IF s = {} THEN 0
              ELSE LET x == CHOOSE x \in s : TRUE IN MergeMemory(child[x], parent[x]) + iter[s \ {x}]
<1>5. BatchMemory(child, parent) = iter[Outpoints]
  BY Zenon DEF BatchMemory, MapThenSumSet, MapThenFoldSet
<1>6. iter = [s \in SUBSET Outpoints |-> IF s = {} THEN 0
              ELSE MergeMemory(child[CHOOSE x \in s : TRUE], parent[CHOOSE x \in s : TRUE])
                   + iter[s \ {CHOOSE x \in s : TRUE}]]
  <2> HIDE DEF iter
  <2> QED BY <1>4, Zenon DEF iter
<1> HIDE DEF iter
<1>7. iter = [s \in SUBSET Outpoints |-> IF s = {} THEN 0
              ELSE Merges(child, parent)[CHOOSE x \in s : TRUE] + iter[s \ {CHOOSE x \in s : TRUE}]]
  BY <1>3, <1>6, SMTT(30)
<1> QED BY <1>5, <1>7, Zenon DEF Sums, One

(* Two caches that agree on every outpoint but o.                          *)
DiffersAt(cache, next, o) == \A x \in Outpoints : x # o => next[x] = cache[x]

(* A change of one entry changes the usage by as much as the memory of     *)
(* that entry.                                                             *)
LEMMA UsageOfOne ==
    ASSUME IsFiniteSet(Outpoints), NEW cache \in Caches, NEW next \in Caches, NEW o \in Outpoints,
           DiffersAt(cache, next, o)
    PROVE  MemoryUsage(next) = MemoryUsage(cache) + (EntryMemory(next[o]) - EntryMemory(cache[o]))
<1> DEFINE k == EntryMemory(next[o]) - EntryMemory(cache[o])
           one == [x \in Outpoints |-> IF x = o THEN k ELSE 0]
<1>0. cache[o] \in Entry /\ next[o] \in Entry
  BY Zenon DEF Caches, Entry
<1>1. EntryMemory(next[o]) \in Int /\ EntryMemory(cache[o]) \in Int /\ k \in Int
  BY <1>0, MemoryTypes, SMTT(30)
<1> HIDE DEF k
<1>2. /\ one \in [Outpoints -> Int] /\ Memories(cache) \in [Outpoints -> Int]
      /\ Memories(next) \in [Outpoints -> Int]
  BY <1>0, <1>1, MemoryTypes, SMTT(30) DEF Memories, Caches, Entry
<1>3. \A x \in Outpoints : Memories(next)[x] = Memories(cache)[x] + one[x]
  <2>1. Memories(next)[o] = EntryMemory(next[o]) /\ Memories(cache)[o] = EntryMemory(cache[o]) /\ one[o] = k
    BY Zenon DEF Memories, Caches
  <2>2. ASSUME NEW x \in Outpoints, x # o
        PROVE  Memories(next)[x] = Memories(cache)[x] /\ one[x] = 0
    BY <2>2, Zenon DEF Memories, Caches, DiffersAt
  <2>3. Memories(next)[o] = Memories(cache)[o] + one[o]
    BY <1>1, <2>1, SMTT(30) DEF k
  <2> SUFFICES ASSUME NEW x \in Outpoints PROVE Memories(next)[x] = Memories(cache)[x] + one[x]
    BY Zenon
  <2>4. CASE x = o
    BY <2>3, <2>4, Zenon
  <2>5. CASE x # o
    <3>1. Memories(cache)[x] \in Int
      BY <1>2, Zenon
    <3> HIDE DEF one
    <3> QED BY <2>2, <2>5, <3>1, SMTT(30)
  <2> QED BY <2>4, <2>5, Zenon
<1>4. PICK F : Sums(Memories(cache), Outpoints, F) /\ MemoryUsage(cache) = F[Outpoints]
  BY UsageIsSum, Zenon
<1>5. PICK G : Sums(Memories(next), Outpoints, G) /\ MemoryUsage(next) = G[Outpoints]
  BY <1>0, UsageIsSum, Zenon
<1>6. PICK D : Sums(one, Outpoints, D)
  BY <1>2, SumsExist, Zenon
<1>7. D[Outpoints] = k
  BY <1>1, <1>6, SumsOne, SMTT(30)
<1>8. G[Outpoints] = F[Outpoints] + D[Outpoints]
  <2> HIDE DEF one
  <2> QED BY <1>2, <1>3, <1>4, <1>5, <1>6, SumsAdd, SMTT(30)
<1>9. MemoryUsage(next) = MemoryUsage(cache) + k
  BY <1>4, <1>5, <1>7, <1>8, Zenon
<1> QED BY <1>9, Zenon DEF k

(* An empty cache uses no memory.                                          *)
LEMMA UsageOfEmpty ==
    ASSUME IsFiniteSet(Outpoints)
    PROVE  MemoryUsage(EmptyCache) = 0
<1>0. EmptyCache \in Caches
  BY Zenon DEF EmptyCache, Caches
<1>1. PICK F : Sums(Memories(EmptyCache), Outpoints, F) /\ MemoryUsage(EmptyCache) = F[Outpoints]
  BY <1>0, UsageIsSum, Zenon
<1>2. CASE Outpoints = {}
  BY <1>1, <1>2, Zenon DEF Sums
<1>3. CASE Outpoints # {}
  <2>1. PICK o \in Outpoints : TRUE
    BY <1>3, Zenon
  <2>2. Memories(EmptyCache) = [x \in Outpoints |-> IF x = o THEN 0 ELSE 0]
    BY Zenon DEF Memories, EmptyCache, EntryMemory
  <2> QED BY <1>1, <2>1, <2>2, SumsOne, SMTT(30)
<1> QED BY <1>2, <1>3, Zenon

(* What BatchWrite adds for an entry is what the merge changes.            *)
LEMMA MergeAdds ==
    ASSUME NEW c \in Entry, NEW p \in Entry
    PROVE  EntryMemory(MergeEntry(c, p)) = EntryMemory(p) + MergeMemory(c, p)
<1>1. EntryMemory(p) \in Int /\ EntryMemory(c) \in Int
  BY MemoryTypes, Zenon
<1>2. CASE c = NoEntry \/ ~c.dirty
  <2>1. MergeEntry(c, p) = p /\ MergeMemory(c, p) = 0
    BY <1>2, Zenon DEF MergeEntry, MergeMemory
  <2> QED BY <1>1, <2>1, SMTT(30)
<1>3. CASE c # NoEntry /\ c.dirty /\ p = NoEntry
  <2>1. EntryMemory(p) = 0 /\ EntryMemory(c) = Memory(c.coin)
    BY <1>3, Zenon DEF EntryMemory
  <2>2. CASE c.fresh /\ c.coin = Spent
    <3>1. MergeEntry(c, p) = NoEntry /\ MergeMemory(c, p) = 0
      BY <1>3, <2>2, Zenon DEF MergeEntry, MergeMemory
    <3> QED BY <1>3, <2>1, <3>1, SMTT(30)
  <2>3. CASE ~(c.fresh /\ c.coin = Spent)
    <3>1. /\ MergeEntry(c, p) = [coin |-> c.coin, dirty |-> TRUE, fresh |-> c.fresh]
          /\ MergeMemory(c, p) = Memory(c.coin)
      BY <1>3, <2>3, Zenon DEF MergeEntry, MergeMemory
    <3>2. MergeEntry(c, p) \in Entries /\ MergeEntry(c, p).coin = c.coin
      BY <1>3, <3>1, SMTT(30) DEF Entry, Entries
    <3>3. EntryMemory(MergeEntry(c, p)) = Memory(c.coin)
      BY <3>2, Zenon DEF EntryMemory
    <3> QED BY <1>1, <2>1, <3>1, <3>3, SMTT(30)
  <2> QED BY <2>2, <2>3, Zenon
<1>4. CASE c # NoEntry /\ c.dirty /\ p # NoEntry
  <2>1. /\ EntryMemory(p) = Memory(p.coin) /\ EntryMemory(c) = Memory(c.coin)
        /\ p \in Entries /\ c \in Entries
    BY <1>4, Zenon DEF EntryMemory, Entry
  <2>2. CASE p.fresh /\ c.coin = Spent
    <3>1. MergeEntry(c, p) = NoEntry /\ MergeMemory(c, p) = - Memory(p.coin)
      BY <1>4, <2>2, Zenon DEF MergeEntry, MergeMemory
    <3>2. EntryMemory(MergeEntry(c, p)) = 0
      BY <3>1, Zenon DEF EntryMemory
    <3> QED BY <1>1, <2>1, <3>1, <3>2, SMTT(30)
  <2>3. CASE ~(p.fresh /\ c.coin = Spent)
    <3>1. /\ MergeEntry(c, p) = [p EXCEPT !.coin = c.coin, !.dirty = TRUE]
          /\ MergeMemory(c, p) = Memory(c.coin) - Memory(p.coin)
      BY <1>4, <2>3, Zenon DEF MergeEntry, MergeMemory
    <3>2. MergeEntry(c, p) \in Entries /\ MergeEntry(c, p).coin = c.coin
      BY <2>1, <3>1, Zenon DEF Entries
    <3>3. EntryMemory(MergeEntry(c, p)) = Memory(c.coin)
      BY <3>2, Zenon DEF EntryMemory
    <3> QED BY <1>1, <2>1, <3>1, <3>3, SMTT(30)
  <2> QED BY <2>2, <2>3, Zenon
<1> QED BY <1>2, <1>3, <1>4, Zenon

(* What BatchWrite adds is what the batch changes.                         *)
LEMMA UsageOfBatch ==
    ASSUME IsFiniteSet(Outpoints), NEW child \in Caches, NEW parent \in Caches
    PROVE  MemoryUsage(BatchWrite(child, parent)) = MemoryUsage(parent) + BatchMemory(child, parent)
<1>0. /\ \A o \in Outpoints : child[o] \in Entry /\ parent[o] \in Entry
      /\ BatchWrite(child, parent) \in Caches
  <2>1. \A o \in Outpoints : child[o] \in Entry /\ parent[o] \in Entry
    BY Zenon DEF Caches, Entry
  <2> QED BY <2>1, EntryTypes, Zenon DEF BatchWrite, Caches, Entry
<1> DEFINE w == BatchWrite(child, parent)
<1>1. /\ Memories(parent) \in [Outpoints -> Int] /\ Memories(w) \in [Outpoints -> Int]
      /\ Merges(child, parent) \in [Outpoints -> Int]
  <2>1. \A o \in Outpoints : w[o] \in Entry
    BY <1>0, Zenon DEF Caches, Entry
  <2> QED BY <1>0, <2>1, MemoryTypes, Zenon DEF Memories, Merges
<1>2. \A o \in Outpoints : Memories(w)[o] = Memories(parent)[o] + Merges(child, parent)[o]
  BY <1>0, MergeAdds, Zenon DEF Memories, Merges, BatchWrite
<1> HIDE DEF w
<1>3. PICK F : Sums(Memories(parent), Outpoints, F) /\ MemoryUsage(parent) = F[Outpoints]
  BY UsageIsSum, Zenon
<1>4. PICK G : Sums(Memories(w), Outpoints, G) /\ MemoryUsage(w) = G[Outpoints]
  BY <1>0, UsageIsSum, Zenon DEF w
<1>5. PICK D : Sums(Merges(child, parent), Outpoints, D) /\ BatchMemory(child, parent) = D[Outpoints]
  BY BatchIsSum, Zenon
<1>6. G[Outpoints] = F[Outpoints] + D[Outpoints]
  BY <1>1, <1>2, <1>3, <1>4, <1>5, SumsAdd, SMTT(30)
<1> QED BY <1>3, <1>4, <1>5, <1>6, Zenon DEF w

-----------------------------------------------------------------------------
(* What each operation on an entry changes.                                *)
LEMMA EntryChanges ==
    ASSUME NEW e \in Entry, NEW b \in Coin
    PROVE  /\ EntryMemory(FetchEntry(e, b)) - EntryMemory(e) = IF e = NoEntry THEN Memory(b) ELSE 0
           /\ EntryMemory(SpendEntry(FetchEntry(e, b))) = 0
           /\ EntryMemory(UncacheEntry(e)) - EntryMemory(e) =
                 IF UncacheEntry(e) = NoEntry THEN - EntryMemory(e) ELSE 0
<1>1. EntryMemory(e) \in Int /\ Memory(b) \in Int /\ FetchEntry(e, b) \in Entry
  BY MemoryTypes, EntryTypes, Zenon
<1>2. EntryMemory(FetchEntry(e, b)) - EntryMemory(e) = IF e = NoEntry THEN Memory(b) ELSE 0
  <2>1. CASE e # NoEntry
    <3>1. FetchEntry(e, b) = e
      BY <2>1, Zenon DEF FetchEntry
    <3> QED BY <1>1, <2>1, <3>1, SMTT(30)
  <2>2. CASE e = NoEntry /\ b = Spent
    <3>1. FetchEntry(e, b) = e /\ Memory(b) = 0
      BY <2>2, Zenon DEF FetchEntry, Memory
    <3> QED BY <1>1, <2>2, <3>1, SMTT(30)
  <2>3. CASE e = NoEntry /\ b # Spent
    <3>1. FetchEntry(e, b) = [coin |-> b, dirty |-> FALSE, fresh |-> FALSE] /\ EntryMemory(e) = 0
      BY <2>3, Zenon DEF FetchEntry, EntryMemory
    <3>2. FetchEntry(e, b) \in Entries /\ FetchEntry(e, b).coin = b
      BY <3>1, SMTT(30) DEF Entries, Coin
    <3>3. EntryMemory(FetchEntry(e, b)) = Memory(b)
      BY <3>2, Zenon DEF EntryMemory
    <3> QED BY <1>1, <2>3, <3>1, <3>3, SMTT(30)
  <2> QED BY <2>1, <2>2, <2>3, Zenon
<1>3. EntryMemory(SpendEntry(FetchEntry(e, b))) = 0
  <2>1. PICK f \in Entry : f = FetchEntry(e, b)
    BY <1>1, Zenon
  <2>2. CASE f = NoEntry
    BY <2>1, <2>2, Zenon DEF SpendEntry, EntryMemory
  <2>3. CASE f # NoEntry /\ f.fresh
    BY <2>1, <2>3, Zenon DEF SpendEntry, EntryMemory
  <2>4. CASE f # NoEntry /\ ~f.fresh
    <3>1. SpendEntry(f) = [f EXCEPT !.coin = Spent, !.dirty = TRUE] /\ f \in Entries
      BY <2>4, Zenon DEF SpendEntry, Entry
    <3>2. SpendEntry(f) \in Entries /\ SpendEntry(f).coin = Spent
      BY <3>1, Zenon DEF Entries
    <3> QED BY <2>1, <3>2, Zenon DEF EntryMemory, Memory
  <2> QED BY <2>2, <2>3, <2>4, Zenon
<1>4. EntryMemory(UncacheEntry(e)) - EntryMemory(e) =
         IF UncacheEntry(e) = NoEntry THEN - EntryMemory(e) ELSE 0
  <2>1. CASE UncacheEntry(e) = NoEntry
    <3>1. EntryMemory(UncacheEntry(e)) = 0
      BY <2>1, Zenon DEF EntryMemory
    <3> QED BY <1>1, <2>1, <3>1, SMTT(30)
  <2>2. CASE UncacheEntry(e) # NoEntry
    <3>1. UncacheEntry(e) = e
      BY <2>2, Zenon DEF UncacheEntry
    <3> QED BY <1>1, <2>2, <3>1, SMTT(30)
  <2> QED BY <2>1, <2>2, Zenon
<1> QED BY <1>2, <1>3, <1>4, Zenon

(* The running sums of the operations.                                     *)
LEMMA UsageOfFetch ==
    ASSUME IsFiniteSet(Outpoints), NEW cache \in Caches, NEW base \in Views, NEW o \in Outpoints
    PROVE  MemoryUsage(FetchCoin(cache, base, o)) = MemoryUsage(cache) + FetchMemory(cache, base, o)
<1>1. cache[o] \in Entry /\ base[o] \in Coin
  BY Zenon DEF Caches, Entry, Views, Coin
<1>2. FetchEntry(cache[o], base[o]) \in Entry
  BY <1>1, EntryTypes, Zenon
<1>3. /\ FetchCoin(cache, base, o) \in Caches
      /\ FetchCoin(cache, base, o)[o] = FetchEntry(cache[o], base[o])
      /\ DiffersAt(cache, FetchCoin(cache, base, o), o)
  BY <1>2, Zenon DEF FetchCoin, Caches, Entry, DiffersAt
<1>4. FetchMemory(cache, base, o) =
         EntryMemory(FetchEntry(cache[o], base[o])) - EntryMemory(cache[o])
  BY <1>1, EntryChanges, Zenon DEF FetchMemory
<1>9. MemoryUsage(FetchCoin(cache, base, o)) =
        MemoryUsage(cache) + (EntryMemory(FetchCoin(cache, base, o)[o]) - EntryMemory(cache[o]))
  BY <1>3, UsageOfOne, Zenon
<1> QED BY <1>3, <1>4, <1>9, Zenon

LEMMA UsageOfSpend ==
    ASSUME IsFiniteSet(Outpoints), NEW cache \in Caches, NEW base \in Views, NEW o \in Outpoints
    PROVE  MemoryUsage(SpendCoin(cache, base, o)) = MemoryUsage(cache) + SpendMemory(cache, base, o)
<1>1. cache[o] \in Entry /\ base[o] \in Coin
  BY Zenon DEF Caches, Entry, Views, Coin
<1> DEFINE f == FetchEntry(cache[o], base[o])
           e == SpendEntry(f)
<1>2. f \in Entry /\ e \in Entry
  BY <1>1, EntryTypes, Zenon
<1>3. /\ SpendCoin(cache, base, o) \in Caches /\ SpendCoin(cache, base, o)[o] = e
      /\ DiffersAt(cache, SpendCoin(cache, base, o), o)
  BY <1>2, Zenon DEF SpendCoin, Caches, Entry, DiffersAt
<1>4. /\ SpendMemory(cache, base, o) = FetchMemory(cache, base, o) - EntryMemory(f)
      /\ FetchMemory(cache, base, o) = EntryMemory(f) - EntryMemory(cache[o])
      /\ EntryMemory(e) = 0
  BY <1>1, EntryChanges, Zenon DEF FetchMemory, SpendMemory
<1>5. EntryMemory(f) \in Int /\ EntryMemory(cache[o]) \in Int
  BY <1>1, <1>2, MemoryTypes, Zenon
<1> HIDE DEF f, e
<1>6. SpendMemory(cache, base, o) = EntryMemory(e) - EntryMemory(cache[o])
  BY <1>4, <1>5, SMTT(30)
<1>9. MemoryUsage(SpendCoin(cache, base, o)) =
        MemoryUsage(cache) + (EntryMemory(SpendCoin(cache, base, o)[o]) - EntryMemory(cache[o]))
  BY <1>3, UsageOfOne, Zenon
<1> QED BY <1>3, <1>6, <1>9, Zenon

LEMMA UsageOfAdd ==
    ASSUME IsFiniteSet(Outpoints), NEW cache \in Caches, NEW o \in Outpoints, NEW c \in Coins,
           NEW overwrite \in BOOLEAN
    PROVE  MemoryUsage(AddCoin(cache, o, c, overwrite)) = MemoryUsage(cache) + AddMemory(cache, o, c)
<1>1. cache[o] \in Entry /\ EntryMemory(cache[o]) \in Int
  BY MemoryTypes, Zenon DEF Caches, Entry
<1>2. ASSUME AddEntry(cache[o], c, overwrite) \in Entry
      PROVE  /\ AddCoin(cache, o, c, overwrite) \in Caches
             /\ AddCoin(cache, o, c, overwrite)[o] = AddEntry(cache[o], c, overwrite)
             /\ DiffersAt(cache, AddCoin(cache, o, c, overwrite), o)
  BY <1>2, Zenon DEF AddCoin, Caches, Entry, DiffersAt
<1>3. CASE c \in Unspendable
  <2>1. AddEntry(cache[o], c, overwrite) = cache[o] /\ AddMemory(cache, o, c) = 0
    BY <1>3, Zenon DEF AddEntry, AddMemory
  <2>2. AddMemory(cache, o, c) = EntryMemory(cache[o]) - EntryMemory(cache[o])
    BY <1>1, <2>1, SMTT(30)
  <2>9. MemoryUsage(AddCoin(cache, o, c, overwrite)) =
          MemoryUsage(cache) + (EntryMemory(AddCoin(cache, o, c, overwrite)[o]) - EntryMemory(cache[o]))
    BY <1>1, <1>2, <2>1, UsageOfOne, Zenon
  <2> QED BY <1>1, <1>2, <2>1, <2>2, <2>9, Zenon
<1>4. CASE c \notin Unspendable
  <2>1. AddEntry(cache[o], c, overwrite) \in Entry
    <3>1. \E b \in Coin : TRUE
      BY Zenon DEF Coin
    <3> QED BY <1>1, <1>4, <3>1, AddSeen, Zenon
  <2>2. AddEntry(cache[o], c, overwrite).coin = c /\ AddEntry(cache[o], c, overwrite) # NoEntry
    <3>1. AddEntry(cache[o], c, overwrite) =
             [coin |-> c, dirty |-> TRUE,
              fresh |-> Found(cache[o]).fresh \/ (~overwrite /\ ~Found(cache[o]).dirty)]
      BY <1>4, Zenon DEF AddEntry
    <3> DEFINE fr == Found(cache[o]).fresh \/ (~overwrite /\ ~Found(cache[o]).dirty)
    <3>2. fr \in BOOLEAN
      BY Zenon
    <3> HIDE DEF fr
    <3>3. [coin |-> c, dirty |-> TRUE, fresh |-> fr] \in Entries
      BY <3>2, SMTT(30) DEF Entries
    <3>4. [coin |-> c, dirty |-> TRUE, fresh |-> fr].coin = c
      BY Zenon
    <3> QED BY <3>1, <3>3, <3>4, Zenon DEF fr
  <2>3. AddMemory(cache, o, c) = EntryMemory(AddEntry(cache[o], c, overwrite)) - EntryMemory(cache[o])
    BY <1>4, <2>2, Zenon DEF AddMemory, EntryMemory
  <2>9. MemoryUsage(AddCoin(cache, o, c, overwrite)) =
          MemoryUsage(cache) + (EntryMemory(AddCoin(cache, o, c, overwrite)[o]) - EntryMemory(cache[o]))
    BY <1>2, <2>1, UsageOfOne, Zenon
  <2> QED BY <1>2, <2>1, <2>3, <2>9, Zenon
<1> QED BY <1>3, <1>4, Zenon

LEMMA UsageOfUncache ==
    ASSUME IsFiniteSet(Outpoints), NEW cache \in Caches, NEW o \in Outpoints
    PROVE  MemoryUsage(Uncache(cache, o)) = MemoryUsage(cache) + UncacheMemory(cache, o)
<1>1. cache[o] \in Entry /\ Spent \in Coin
  BY Zenon DEF Caches, Entry, Coin
<1>2. UncacheEntry(cache[o]) \in Entry
  BY <1>1, EntryTypes, Zenon
<1>3. /\ Uncache(cache, o) \in Caches /\ Uncache(cache, o)[o] = UncacheEntry(cache[o])
      /\ DiffersAt(cache, Uncache(cache, o), o)
  BY <1>2, Zenon DEF Uncache, Caches, Entry, DiffersAt
<1>4. UncacheMemory(cache, o) = EntryMemory(UncacheEntry(cache[o])) - EntryMemory(cache[o])
  BY <1>1, EntryChanges, Zenon DEF UncacheMemory
<1>9. MemoryUsage(Uncache(cache, o)) =
        MemoryUsage(cache) + (EntryMemory(Uncache(cache, o)[o]) - EntryMemory(cache[o]))
  BY <1>3, UsageOfOne, Zenon
<1> QED BY <1>3, <1>4, <1>9, Zenon

(* Every step keeps both running sums exact.                               *)
LEMMA UsageStep ==
    ASSUME IsFiniteSet(Outpoints), IndInv, UsageExact, [Next]_vars
    PROVE  UsageExact'
<1>0. db \in Views /\ TipCoins \in Views /\ tip \in Caches /\ view \in Caches
  BY ViewsTyped, Zenon
<1>00. tipUsage = MemoryUsage(tip) /\ viewUsage = MemoryUsage(view)
  BY Zenon DEF UsageExact
<1>1. CASE UNCHANGED vars
  BY <1>00, <1>1, Zenon DEF vars, tipVars, viewVars, UsageExact
<1>2. CASE OpenView
  BY <1>00, <1>2, Zenon DEF OpenView, UsageExact
<1>3. CASE FlushView
  BY <1>0, <1>00, <1>3, UsageOfBatch, UsageOfEmpty, Zenon DEF FlushView, CloseView, UsageExact
<1>4. CASE DropView
  BY <1>00, <1>4, UsageOfEmpty, Zenon DEF DropView, CloseView, tipVars, UsageExact
<1>5. CASE FlushTip
  BY <1>00, <1>5, UsageOfEmpty, Zenon DEF FlushTip, viewVars, UsageExact
<1>6. ASSUME NEW o \in Outpoints, FillTip(o) PROVE tipUsage' = MemoryUsage(tip')
  <2>1. CASE view[o] = NoEntry
    BY <1>0, <1>00, <1>6, <2>1, UsageOfFetch, Zenon DEF FillTip
  <2>2. CASE view[o] # NoEntry
    BY <1>00, <1>6, <2>2, Zenon DEF FillTip
  <2> QED BY <2>1, <2>2, Zenon
<1>7. ASSUME NEW o \in Outpoints, ReadView(o) PROVE UsageExact'
  BY <1>0, <1>00, <1>6, <1>7, UsageOfFetch, Zenon DEF ReadView, UsageExact
<1>8. ASSUME NEW o \in Outpoints, SpendInView(o) PROVE UsageExact'
  BY <1>0, <1>00, <1>6, <1>8, UsageOfSpend, Zenon DEF SpendInView, UsageExact
<1>9. ASSUME NEW o \in Outpoints, ReadTip(o) PROVE UsageExact'
  BY <1>0, <1>00, <1>9, UsageOfFetch, Zenon DEF ReadTip, viewVars, UsageExact
<1>10. ASSUME NEW o \in Outpoints, UncacheTip(o) PROVE UsageExact'
  BY <1>0, <1>00, <1>10, UsageOfUncache, Zenon DEF UncacheTip, viewVars, UsageExact
<1>11. ASSUME NEW o \in Outpoints, NEW c \in Coins, NEW overwrite \in BOOLEAN,
              AddToView(o, c, overwrite)
       PROVE  UsageExact'
  BY <1>0, <1>00, <1>11, UsageOfAdd, ZenonT(60) DEF AddToView, tipVars, UsageExact
<1>12. ASSUME NEW b \in Blocks, SetBestBlock(b) PROVE UsageExact'
  BY <1>00, <1>12, Zenon DEF SetBestBlock, tipVars, UsageExact
<1> QED
  BY <1>1, <1>2, <1>3, <1>4, <1>5, <1>7, <1>8, <1>9, <1>10, <1>11, <1>12, Zenon DEF Next

(* cachedCoinsUsage of both layers is exactly the memory of the coins in   *)
(* them, after any sequence of operations on finitely many outpoints (an   *)
(* outpoint has 36 bytes): the running sum never drifts from what it       *)
(* counts.                                                                 *)
THEOREM UsageCorrect ==
    ASSUME IsFiniteSet(Outpoints)
    PROVE  Spec => []UsageExact
<1>1. Init => UsageExact
  BY UsageOfEmpty, Zenon DEF Init, UsageExact
<1>2. IndInv /\ UsageExact /\ [Next]_vars => UsageExact'
  BY UsageStep, Zenon
<1> QED BY <1>1, <1>2, InitInv, NextStep, PTL DEF Spec
=============================================================================
