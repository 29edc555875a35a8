------------------------ MODULE BlockIndexSyncProofs ------------------------
(***************************************************************************)
(* Proofs about BlockIndexSync, for every tree of blocks, every assignment *)
(* of transactions to blocks and every bound: the index misses nothing     *)
(* below its position, it has the active chain when its notifications are  *)
(* drained, and a caller that waited for it sees its tip indexed.          *)
(***************************************************************************)
EXTENDS BlockIndexSync, SequenceTheorems, WellFoundedInduction, TLAPS

-----------------------------------------------------------------------------
(* The tree of blocks.                                                     *)

LEMMA NatMin ==
    ASSUME NEW T, T \subseteq Nat, T # {}
    PROVE  \E x \in T : \A y \in T : x <= y
<1>1. PICK x \in T : \A y \in T : ~ (<<y, x>> \in OpToRel(<, Nat))
  BY WFMin, NatLessThanWellFounded, Zenon
<1>2. \A y \in T : ~ (y < x)
  BY <1>1 DEF OpToRel
<1> QED BY <1>2

(* Induction from the genesis block upwards.                               *)
LEMMA TreeInduction ==
    ASSUME NEW S \in SUBSET Blocks, Genesis \in S,
           \A b \in Blocks \ {Genesis} : Parent[b] \in S => b \in S
    PROVE  S = Blocks
<1> DEFINE T == {Height[c] : c \in Blocks \ S}
<1> SUFFICES ASSUME S # Blocks PROVE FALSE
  OBVIOUS
<1>1. T \subseteq Nat /\ T # {}
  BY HeightAssumption
<1>2. PICK n \in T : \A m \in T : n <= m
  <2> HIDE DEF T
  <2> QED BY <1>1, NatMin, Zenon
<1>3. PICK c \in Blocks \ S : \A e \in Blocks \ S : Height[c] <= Height[e]
  BY <1>2
<1>4. c # Genesis /\ Parent[c] \in Blocks /\ Height[c] = Height[Parent[c]] + 1
  BY <1>3, TreeAssumption, HeightAssumption
<1>5. Parent[c] \in S
  BY <1>3, <1>4, HeightAssumption
<1> QED BY <1>3, <1>4, <1>5

(* Ancestry is reflexive, bounded by the genesis block, and transitive.    *)
LEMMA AncestorsOfAncestors ==
    ASSUME NEW b \in Blocks
    PROVE  /\ b \in Ancestors[b] /\ Genesis \in Ancestors[b]
           /\ \A a \in Ancestors[b] : a \in Blocks /\ Ancestors[a] \subseteq Ancestors[b]
<1> DEFINE S == {c \in Blocks : /\ c \in Ancestors[c] /\ Genesis \in Ancestors[c]
                                /\ \A a \in Ancestors[c] : Ancestors[a] \subseteq Ancestors[c]}
<1>1. Genesis \in S
  BY AncestorsAssumption, TreeAssumption
<1>2. ASSUME NEW c \in Blocks \ {Genesis}, Parent[c] \in S
      PROVE  c \in S
  BY <1>2, AncestorsAssumption
<1>3. S = Blocks
  <2>1. S \in SUBSET Blocks
    OBVIOUS
  <2> HIDE DEF S
  <2> QED BY <1>1, <1>2, <2>1, TreeInduction, Zenon
<1> QED BY <1>3, AncestorsAssumption

(* The parent of an ancestor is one.                                       *)
LEMMA ParentOfAncestor ==
    ASSUME NEW b \in Blocks, NEW a \in Ancestors[b], a # Genesis
    PROVE  Parent[a] \in Blocks /\ Parent[a] \in Ancestors[b]
<1>1. a \in Blocks /\ Parent[a] \in Blocks
  BY AncestorsAssumption, TreeAssumption
<1>2. Parent[a] \in Ancestors[a]
  BY <1>1, AncestorsAssumption, AncestorsOfAncestors
<1> QED BY <1>1, <1>2, AncestorsOfAncestors

(* A proper ancestor is lower.                                             *)
LEMMA AncestorsLower ==
    ASSUME NEW b \in Blocks, NEW a \in Ancestors[b]
    PROVE  a = b \/ Height[a] < Height[b]
<1> DEFINE S == {c \in Blocks : \A d \in Ancestors[c] : d = c \/ Height[d] < Height[c]}
<1>1. Genesis \in S
  BY AncestorsAssumption, TreeAssumption
<1>2. ASSUME NEW c \in Blocks \ {Genesis}, Parent[c] \in S
      PROVE  c \in S
  <2>1. Height[c] = Height[Parent[c]] + 1 /\ Parent[c] \in Blocks
    BY TreeAssumption, HeightAssumption
  <2>2. ASSUME NEW d \in Ancestors[c], d # c
        PROVE  Height[d] < Height[c]
    <3>1. d \in Ancestors[Parent[c]] /\ d \in Blocks
      BY <2>2, AncestorsAssumption
    <3> QED BY <1>2, <2>1, <3>1, HeightAssumption
  <2> QED BY <2>2
<1>3. S = Blocks
  <2>1. S \in SUBSET Blocks
    OBVIOUS
  <2> HIDE DEF S
  <2> QED BY <1>1, <1>2, <2>1, TreeInduction, Zenon
<1> QED BY <1>3

(* A block has one ancestor at each height up to its own.                  *)
LEMMA OneAtEachHeight ==
    ASSUME NEW b \in Blocks, NEW a \in Ancestors[b], NEW c \in Ancestors[b],
           Height[a] = Height[c]
    PROVE  a = c
<1> DEFINE S == {d \in Blocks : \A x, y \in Ancestors[d] : Height[x] = Height[y] => x = y}
<1>1. Genesis \in S
  BY AncestorsAssumption, TreeAssumption
<1>2. ASSUME NEW d \in Blocks \ {Genesis}, Parent[d] \in S
      PROVE  d \in S
  <2>1. Ancestors[d] = {d} \cup Ancestors[Parent[d]]
    BY AncestorsAssumption
  <2>2. \A x \in Ancestors[d] : x = d \/ Height[x] < Height[d]
    BY AncestorsLower
  <2>3. \A x \in Ancestors[d] : Height[x] \in Nat
    BY AncestorsAssumption, HeightAssumption
  <2> QED BY <1>2, <2>1, <2>2, <2>3
<1>3. S = Blocks
  <2>1. S \in SUBSET Blocks
    OBVIOUS
  <2> HIDE DEF S
  <2> QED BY <1>1, <1>2, <2>1, TreeInduction, Zenon
<1> QED BY <1>3

LEMMA SomeAtEachHeight ==
    ASSUME NEW b \in Blocks, NEW h \in Nat, h <= Height[b]
    PROVE  \E a \in Ancestors[b] : Height[a] = h
<1> DEFINE S == {c \in Blocks : h <= Height[c] => \E a \in Ancestors[c] : Height[a] = h}
<1>1. Genesis \in S
  BY AncestorsAssumption, TreeAssumption, HeightAssumption
<1>2. ASSUME NEW c \in Blocks \ {Genesis}, Parent[c] \in S
      PROVE  c \in S
  <2>1. Height[c] = Height[Parent[c]] + 1 /\ Parent[c] \in Blocks /\ Height[Parent[c]] \in Nat
    BY TreeAssumption, HeightAssumption
  <2>2. Ancestors[c] = {c} \cup Ancestors[Parent[c]]
    BY AncestorsAssumption
  <2>3. ASSUME h <= Height[c] PROVE h = Height[c] \/ h <= Height[Parent[c]]
    BY <2>1, <2>3
  <2> QED BY <1>2, <2>2, <2>3
<1>3. S = Blocks
  <2>1. S \in SUBSET Blocks
    OBVIOUS
  <2> HIDE DEF S
  <2> QED BY <1>1, <1>2, <2>1, TreeInduction, Zenon
<1> QED BY <1>3

-----------------------------------------------------------------------------
(* What GetAncestor, FindFork and NextSyncBlock return.                    *)

LEMMA GetAncestorFacts ==
    ASSUME NEW b \in Blocks, NEW h, NEW a \in Blocks, GetAncestor(b, h) = a
    PROVE  a \in Ancestors[b] /\ Height[a] = h
<1>1. a # NullHash
  BY TreeAssumption
<1> QED BY <1>1 DEF GetAncestor

LEMMA FindForkFacts ==
    ASSUME NEW b \in Blocks, tip \in Blocks
    PROVE  FindFork(b) \in Ancestors[b] /\ FindFork(b) \in Active /\ FindFork(b) \in Blocks
<1> DEFINE Common == Ancestors[b] \cap Ancestors[tip]
           S == {c \in Blocks : \E a \in Common :
                    \A d \in Common \cap Ancestors[c] : Height[d] <= Height[a]}
<1>1. Genesis \in Common /\ Genesis \in Blocks /\ Common \subseteq Blocks
  BY AncestorsOfAncestors, TreeAssumption, AncestorsAssumption
<1>2. Genesis \in S
  <2>1. \A d \in Common \cap Ancestors[Genesis] : Height[d] <= Height[Genesis]
    BY AncestorsAssumption, HeightAssumption
  <2> QED BY <1>1, <2>1
<1>3. ASSUME NEW c \in Blocks \ {Genesis}, Parent[c] \in S
      PROVE  c \in S
  <2>1. Ancestors[c] = {c} \cup Ancestors[Parent[c]]
    BY AncestorsAssumption
  <2>2. \A d \in Ancestors[c] : Height[d] \in Nat /\ Height[d] <= Height[c]
    BY AncestorsAssumption, HeightAssumption, AncestorsLower
  <2>3. CASE c \in Common
    BY <2>2, <2>3
  <2>4. CASE c \notin Common
    BY <1>3, <2>1, <2>4
  <2> QED BY <2>3, <2>4
<1>4. S = Blocks
  <2>1. S \in SUBSET Blocks
    OBVIOUS
  <2> HIDE DEF S
  <2> QED BY <1>2, <1>3, <2>1, TreeInduction, Zenon
<1>5. \E a \in Common : \A d \in Common : Height[d] <= Height[a]
  BY <1>4
<1>6. FindFork(b) \in Common
  BY <1>5 DEF FindFork, Active
<1> QED BY <1>1, <1>6 DEF Active

(* The block that ThreadSync takes next is the genesis block or the        *)
(* successor of an ancestor of the block it took last; there is none only  *)
(* where the tip is at or below that block.                                *)
LEMMA NextSyncBlockFacts ==
    ASSUME NEW b \in Blocks \cup {NullHash}, tip \in Blocks
    PROVE  /\ NextSyncBlock(b) \in Blocks \cup {NullHash}
           /\ b = NullHash => NextSyncBlock(b) = Genesis
           /\ b # NullHash /\ NextSyncBlock(b) # NullHash =>
                 NextSyncBlock(b) # Genesis /\ Parent[NextSyncBlock(b)] \in Ancestors[b]
           /\ NextSyncBlock(b) = NullHash => b \in Blocks /\ tip \in Ancestors[b]
<1>1. CASE b = NullHash
  BY <1>1, TreeAssumption DEF NextSyncBlock
<1>2. CASE b # NullHash
  <2> DEFINE fork == FindFork(b)
             next == GetAncestor(tip, Height[fork] + 1)
  <2>1. b \in Blocks /\ NextSyncBlock(b) = next
    BY <1>2 DEF NextSyncBlock, NextActive
  <2>2. fork \in Ancestors[b] /\ fork \in Ancestors[tip] /\ fork \in Blocks /\ Height[fork] \in Nat
    BY <2>1, FindForkFacts, HeightAssumption DEF Active
  <2> HIDE DEF fork
  <2>3. CASE \E a \in Ancestors[tip] : Height[a] = Height[fork] + 1
    <3>1. next \in Ancestors[tip] /\ Height[next] = Height[fork] + 1
      BY <2>3 DEF GetAncestor
    <3> HIDE DEF next
    <3>2. next \in Blocks /\ next # Genesis
      BY <2>2, <3>1, AncestorsAssumption, HeightAssumption
    <3>3. Parent[next] \in Ancestors[tip] /\ Parent[next] \in Blocks
      BY <3>1, <3>2, ParentOfAncestor
    <3>4. Height[Parent[next]] = Height[fork]
      BY <2>2, <3>1, <3>2, <3>3, HeightAssumption
    <3>5. Parent[next] = fork
      BY <2>2, <3>3, <3>4, OneAtEachHeight
    <3> QED BY <1>2, <2>1, <2>2, <3>2, <3>5, TreeAssumption
  <2>4. CASE ~ \E a \in Ancestors[tip] : Height[a] = Height[fork] + 1
    <3>1. next = NullHash
      BY <2>4 DEF GetAncestor
    <3>2. ~ (Height[fork] + 1 <= Height[tip])
      BY <2>2, <2>4, SomeAtEachHeight
    <3>3. fork = tip
      BY <2>2, <3>2, AncestorsLower, HeightAssumption
    <3> QED BY <1>2, <2>1, <2>2, <3>1, <3>3
  <2> QED BY <2>3, <2>4
<1> QED BY <1>1, <1>2

-----------------------------------------------------------------------------
(* The invariants.                                                         *)

(* What a crash or a shutdown may not interrupt.  Without it the index     *)
(* misses a block (README, "Where the code and its comments disagree").    *)
Undisturbed == "write" \notin CrashAt /\ ~InterruptEarly

(* Where ThreadSync is, against what was written to the database.          *)
Written ==
    /\ TypeOK
    /\ m_synced \in BOOLEAN /\ m_interrupt \in BOOLEAN
    /\ pc \in {"off", "init", "top", "time", "write"} => ~m_synced
    /\ pc = "synced" => m_synced
    /\ m_interrupt => pindex # NullHash /\ pc \notin {"off", "init"}
    /\ pc = "top" => Covers(pindex)
    /\ pc \in {"time", "write"} =>
          pindex # NullHash /\ (pindex = Genesis \/ Covers(Parent[pindex]))
    /\ IF pc = "write" THEN locator = pindex ELSE Covers(locator)
    /\ m_synced => Covers(m_best_block_index)

Entries == [kind : {"connected", "flushed", "wait"}, block : Blocks]

Connected(e) == e.kind = "connected"
IsWait(e)    == e.kind = "wait"

(* An index at block b that still has the notifications i + 1 .. n of q to *)
(* come is at target or above it, or it will take one of them.             *)
Reaches(q, b, i, n, target) ==
    \/ target \in Ancestors[b]
    \/ \E j \in (i + 1) .. n : Connected(q[j]) /\ Parent[q[j].block] \in Ancestors[b]

(* So it is wherever one of the first n notifications takes the index.     *)
Walk(q, n, target) == \A i \in 1 .. n : Connected(q[i]) => Reaches(q, q[i].block, i, n, target)

(* The queue, against the chain and against the thread that waits for it.  *)
Following ==
    /\ callTip \in Blocks /\ registered \in BOOLEAN
    /\ pc = "off" => ~registered
    /\ caller = "waiting" => m_synced /\ registered
    /\ \A i \in DOMAIN queue : Connected(queue[i]) => queue[i].block # Genesis
    /\ \A i, k \in DOMAIN queue : IsWait(queue[i]) /\ IsWait(queue[k]) => i = k
    /\ Walk(queue, Len(queue), tip)
    /\ m_synced /\ registered => Reaches(queue, m_best_block_index, 0, Len(queue), tip)
    /\ \A i \in DOMAIN queue : IsWait(queue[i]) =>
          /\ caller = "waiting"
          /\ Walk(queue, i, callTip)
          /\ Reaches(queue, m_best_block_index, 0, i, callTip)
    /\ CallersSeeTip

(* Each transaction of the chain that ends in b has its position there.    *)
RightIn(b, pos) == b = NullHash \/ \A c \in Ancestors[b] \ {Genesis} : \A t \in TxsOf[c] : pos[t] = c
Right(b) == RightIn(b, txPos)

(* The stored positions in the first session.                              *)
Positions ==
    /\ restarts \in Nat
    /\ restarts = 0 =>
        /\ pc \in {"off", "init"} => locator = NullHash
        /\ pc = "top" => Right(pindex)
        /\ pc \in {"time", "write"} => pindex = Genesis \/ Right(Parent[pindex])
        /\ m_synced => Right(m_best_block_index)

-----------------------------------------------------------------------------
(* Covers under the steps that touch the index.                            *)

LEMMA CoversBelow ==
    ASSUME NEW b \in Blocks, NEW a \in Ancestors[b], NEW blocks, CoveredBy(b, blocks)
    PROVE  CoveredBy(a, blocks)
<1>1. b # NullHash
  BY TreeAssumption
<1>2. Ancestors[a] \subseteq Ancestors[b]
  BY AncestorsOfAncestors
<1> QED BY <1>1, <1>2 DEF CoveredBy

LEMMA CoversMore ==
    ASSUME NEW b, NEW blocks, NEW more, blocks \subseteq more, CoveredBy(b, blocks)
    PROVE  CoveredBy(b, more)
BY DEF CoveredBy

LEMMA CoversWritten ==
    ASSUME NEW b \in Blocks, WriteBlock(b), b = Genesis \/ CoveredBy(Parent[b], indexed)
    PROVE  CoveredBy(b, indexed') /\ indexed \subseteq indexed'
<1>1. CASE b = Genesis
  BY <1>1, AncestorsAssumption DEF CoveredBy, WriteBlock
<1>2. CASE b # Genesis
  <2>1. Ancestors[b] = {b} \cup Ancestors[Parent[b]] /\ Parent[b] # NullHash
    BY <1>2, AncestorsAssumption, TreeAssumption
  <2> QED BY <1>2, <2>1 DEF CoveredBy, WriteBlock
<1> QED BY <1>1, <1>2

LEMMA WrittenTypes ==
    ASSUME NEW b \in Blocks, TypeOK, WriteBlock(b)
    PROVE  indexed' \subseteq Blocks /\ txPos' \in [Txs -> Blocks \cup {NoBlock}]
BY DEF TypeOK, WriteBlock

(* The block that Connects accepts stands on the best block's chain.       *)
LEMMA ConnectsFacts ==
    ASSUME NEW b \in Blocks, b # Genesis, m_best_block_index \in Blocks, Connects(b)
    PROVE  Parent[b] \in Blocks /\ Parent[b] \in Ancestors[m_best_block_index]
<1>1. Parent[b] \in Blocks
  BY TreeAssumption
<1> QED BY <1>1, GetAncestorFacts DEF Connects

(* What a delivery does: the index takes the block of the notification, or *)
(* it stays where it is and may write its locator.                         *)
Takes == m_synced /\ registered /\ Head(queue).kind = "connected" /\ Connects(Head(queue).block)

LEMMA DeliverCases ==
    ASSUME TypeOK, Deliver
    PROVE  /\ queue \in Seq(Entries) /\ queue # <<>> /\ Head(queue) \in Entries
           /\ queue' = Tail(queue) /\ queue' \in Seq(Entries)
           /\ caller' = IF Head(queue).kind = "wait" THEN "returned" ELSE caller
           /\ UNCHANGED <<chainVars, m_synced, m_interrupt, registered, pc, pindex, callTip>>
           /\ Takes => /\ WriteBlock(Head(queue).block)
                       /\ m_best_block_index' = Head(queue).block
                       /\ locator' = locator
           /\ ~Takes => /\ m_best_block_index' = m_best_block_index
                        /\ indexed' = indexed /\ txPos' = txPos
                        /\ locator' = locator \/ (m_synced /\ locator' = m_best_block_index)
<1> DEFINE e == Head(queue)
<1>1. queue \in Seq(Entries) /\ queue # <<>> /\ e \in Entries /\ Tail(queue) \in Seq(Entries)
  <2>1. queue \in Seq(Entries) /\ queue # <<>>
    BY Zenon DEF TypeOK, Entries, Deliver
  <2> QED BY <2>1
<1>2. /\ queue' = Tail(queue)
      /\ caller' = IF e.kind = "wait" THEN "returned" ELSE caller
      /\ UNCHANGED <<chainVars, m_synced, m_interrupt, registered, pc, pindex, callTip>>
  BY DEF Deliver
<1>3. CASE e.kind = "connected" /\ registered
  <2>1. BlockConnected(e.block)
    BY <1>3 DEF Deliver
  <2> QED BY <1>1, <1>2, <1>3, <2>1, Zenon DEF BlockConnected, Takes, dbVars
<1>4. CASE e.kind = "flushed" /\ registered
  <2>1. ChainStateFlushed(e.block)
    BY <1>4 DEF Deliver
  <2>2. ~Takes
    BY <1>4 DEF Takes
  <2>3. m_synced => m_best_block_index # NullHash
    BY DEF TypeOK
  <2> QED BY <1>1, <1>2, <1>4, <2>1, <2>2, <2>3, Zenon DEF ChainStateFlushed, Commit
<1>5. CASE ~(e.kind = "connected" /\ registered) /\ ~(e.kind = "flushed" /\ registered)
  <2>1. UNCHANGED <<m_best_block_index, dbVars>>
    BY <1>5 DEF Deliver
  <2>2. ~Takes
    BY <1>5 DEF Takes
  <2> QED BY <1>1, <1>2, <2>1, <2>2, Zenon DEF dbVars
<1> QED BY <1>3, <1>4, <1>5

LEMMA TypeStep ==
    ASSUME Written, [Next]_vars
    PROVE  TypeOK'
<1> USE DEF Entries
<1>1. TypeOK
  BY Zenon DEF Written
<1>2. ASSUME NEW b \in Blocks, ConnectBlock(b) PROVE TypeOK'
  BY <1>1, <1>2 DEF ConnectBlock, TypeOK, memVars, dbVars, callVars
<1>3. CASE DisconnectBlock
  BY <1>1, <1>3, TreeAssumption DEF DisconnectBlock, TypeOK, memVars, dbVars, callVars
<1>4. CASE FlushStateToDisk
  BY <1>1, <1>4 DEF FlushStateToDisk, TypeOK, memVars, dbVars, callVars
<1>5. CASE Start
  BY <1>1, <1>5 DEF Start, TypeOK, chainVars, dbVars, callVars
<1>6. CASE InitIndex
  <2>1. tip \in Blocks /\ (locator = NullHash \/ FindFork(locator) \in Blocks)
    BY <1>1, FindForkFacts DEF TypeOK
  <2>2. PICK best \in {IF locator = NullHash THEN NullHash ELSE FindFork(locator)} :
           /\ m_best_block_index' = best
           /\ m_synced' = (best = tip)
           /\ pindex' = best
           /\ pc' = IF best = tip THEN "done" ELSE "top"
    BY <1>6, Zenon DEF InitIndex
  <2>3. best \in Blocks \cup {NullHash}
    BY <2>1, <2>2
  <2>4. UNCHANGED <<tip, diskTip, node, queue, locator, indexed, txPos, caller>>
    BY <1>6, Zenon DEF InitIndex, chainVars, dbVars, callVars
  <2> QED BY <1>1, <2>1, <2>2, <2>3, <2>4, TreeAssumption DEF TypeOK
<1>7. CASE SyncInterrupted
  <2>1. pindex # NullHash
    BY <1>7, Zenon DEF Written, SyncInterrupted
  <2> QED BY <1>1, <1>7, <2>1 DEF SyncInterrupted, Commit, TypeOK, chainVars, dbVars, callVars
<1>8. CASE SyncNext
  <2>1. /\ NextSyncBlock(pindex) \in Blocks \cup {NullHash}
        /\ NextSyncBlock(pindex) = NullHash => pindex \in Blocks
    BY <1>1, NextSyncBlockFacts DEF TypeOK
  <2> QED BY <1>1, <1>8, <2>1, TreeAssumption DEF SyncNext, TypeOK, chainVars, dbVars, callVars
<1>9. CASE SyncLastCommit
  BY <1>1, <1>9 DEF SyncLastCommit, Commit, TypeOK, chainVars, memVars, callVars
<1>10. CASE SyncCommit
  <2>1. pindex # NullHash
    BY <1>10, Zenon DEF Written, SyncCommit
  <2> QED BY <1>1, <1>10, <2>1 DEF SyncCommit, Commit, TypeOK, chainVars, callVars
<1>11. CASE SyncWrite
  <2>1. pindex \in Blocks
    BY <1>1, <1>11 DEF Written, SyncWrite, TypeOK
  <2>2. indexed' \subseteq Blocks /\ txPos' \in [Txs -> Blocks \cup {NoBlock}]
    BY <1>1, <1>11, <2>1, WrittenTypes DEF SyncWrite
  <2> QED BY <1>1, <1>11, <2>2 DEF SyncWrite, TypeOK, chainVars, memVars, callVars
<1>12. CASE Deliver
  <2>1. Head(queue).block \in Blocks /\ queue' \in Seq(Entries)
    BY <1>1, <1>12, DeliverCases
  <2>2. /\ m_best_block_index' \in Blocks \cup {NullHash}
        /\ m_synced' => m_best_block_index' # NullHash
        /\ locator' \in Blocks \cup {NullHash}
    BY <1>1, <1>12, <2>1, DeliverCases, TreeAssumption DEF TypeOK
  <2>3. indexed' \subseteq Blocks /\ txPos' \in [Txs -> Blocks \cup {NoBlock}]
    BY <1>1, <1>12, <2>1, DeliverCases, WrittenTypes DEF TypeOK
  <2>4. /\ tip' = tip /\ diskTip' = diskTip /\ pindex' = pindex /\ pc' = pc /\ node' = node
        /\ caller' \in {"idle", "waiting", "returned"}
    BY <1>1, <1>12, DeliverCases DEF TypeOK, chainVars
  <2> QED BY <1>1, <2>1, <2>2, <2>3, <2>4 DEF TypeOK
<1>13. CASE BlockUntilSyncedToCurrentChain
  <2>1. queue' \in Seq(Entries)
    <3>1. [kind |-> "wait", block |-> tip] \in Entries /\ queue \in Seq(Entries)
      BY <1>1 DEF TypeOK
    <3>2. queue' = queue \/ queue' = Append(queue, [kind |-> "wait", block |-> tip])
      BY <1>13, Zenon DEF BlockUntilSyncedToCurrentChain
    <3> HIDE DEF Entries
    <3> QED BY <3>1, <3>2
  <2>2. caller' \in {"idle", "waiting", "returned"}
    BY <1>13, Zenon DEF BlockUntilSyncedToCurrentChain
  <2>3. UNCHANGED <<tip, diskTip, node, m_synced, m_best_block_index, locator, indexed, txPos,
                    pc, pindex>>
    BY <1>13, Zenon DEF BlockUntilSyncedToCurrentChain, chainVars, memVars, dbVars
  <2> QED BY <1>1, <2>1, <2>2, <2>3, Zenon DEF TypeOK
<1>14. CASE Interrupt
  BY <1>1, <1>14, Zenon DEF Interrupt, TypeOK, chainVars, dbVars, callVars
<1>15. CASE StopIndex
  BY <1>1, <1>15 DEF StopIndex, TypeOK, dbVars, callVars
<1>16. CASE Shutdown \/ Crash
  <2>1. ProcessEnds /\ tip' \in {tip, diskTip} /\ diskTip' \in {tip, diskTip}
    BY <1>16, Zenon DEF Shutdown, Crash
  <2>2. queue' \in Seq(Entries)
    BY <2>1 DEF ProcessEnds
  <2> QED BY <1>1, <2>1, <2>2 DEF ProcessEnds, TypeOK, dbVars
<1>17. CASE Restart
  BY <1>1, <1>17 DEF Restart, TypeOK, memVars, dbVars, callVars
<1>18. CASE UNCHANGED vars
  BY <1>1, <1>18 DEF vars, TypeOK, chainVars, memVars, dbVars, callVars
<1> QED
  BY <1>2, <1>3, <1>4, <1>5, <1>6, <1>7, <1>8, <1>9, <1>10, <1>11, <1>12, <1>13, <1>14, <1>15,
     <1>16, <1>17, <1>18, Zenon DEF Next, ThreadSync

-----------------------------------------------------------------------------
LEMMA WrittenInit == Init => Written
<1> SUFFICES ASSUME Init PROVE Written
  OBVIOUS
<1>1. TypeOK
  BY TreeAssumption DEF Init, TypeOK
<1> QED BY <1>1, Zenon DEF Init, Written, Covers, CoveredBy

(* The part of Written that reads the index is kept by every step that     *)
(* leaves ThreadSync and the database alone.                               *)
LEMMA WrittenKept ==
    ASSUME Written, TypeOK', UNCHANGED <<m_synced, m_interrupt, m_best_block_index, dbVars, pc, pindex>>
    PROVE  Written'
BY Zenon DEF Written, Covers, dbVars

LEMMA WrittenStep ==
    ASSUME Undisturbed, Written, [Next]_vars
    PROVE  Written'
<1>1. TypeOK /\ TypeOK'
  BY TypeStep, Zenon DEF Written
<1>2. CASE \/ \E b \in Blocks : ConnectBlock(b)
           \/ DisconnectBlock \/ FlushStateToDisk \/ BlockUntilSyncedToCurrentChain
           \/ StopIndex \/ Restart \/ UNCHANGED vars
  <2>1. UNCHANGED <<m_synced, m_interrupt, m_best_block_index, dbVars, pc, pindex>>
    BY <1>2, Zenon DEF ConnectBlock, DisconnectBlock, FlushStateToDisk,
         BlockUntilSyncedToCurrentChain, StopIndex, Restart, vars, memVars
  <2> QED BY <1>1, <2>1, WrittenKept, Zenon
<1>3. CASE Start
  <2>1. pc = "off" /\ pc' = "init"
        /\ UNCHANGED <<m_synced, m_interrupt, m_best_block_index, locator, indexed, pindex>>
    BY <1>3, Zenon DEF Start, dbVars
  <2> QED BY <1>1, <2>1 DEF Written, Covers
<1>4. CASE InitIndex
  <2>1. PICK best \in {IF locator = NullHash THEN NullHash ELSE FindFork(locator)} :
           /\ m_best_block_index' = best
           /\ m_synced' = (best = tip)
           /\ pindex' = best
           /\ pc' = IF best = tip THEN "done" ELSE "top"
    BY <1>4, Zenon DEF InitIndex
  <2>2. pc = "init" /\ UNCHANGED <<locator, indexed, m_interrupt>>
    BY <1>4, Zenon DEF InitIndex, dbVars
  <2>3. CoveredBy(locator, indexed) /\ tip \in Blocks /\ locator \in Blocks \cup {NullHash}
    BY <1>1, <2>2 DEF Written, TypeOK, Covers
  <2>4. CoveredBy(best, indexed)
    BY <2>1, <2>3, FindForkFacts, CoversBelow DEF CoveredBy
  <2>5. CoveredBy(best, indexed') /\ CoveredBy(locator', indexed')
    BY <2>2, <2>3, <2>4 DEF CoveredBy
  <2>6. ~m_interrupt
    BY <2>2 DEF Written
  <2> QED BY <1>1, <2>1, <2>2, <2>5, <2>6 DEF Written, Covers
<1>5. CASE SyncInterrupted
  <2>1. /\ pc = "top" /\ pc' = "done" /\ pindex # NullHash /\ CoveredBy(pindex, indexed)
        /\ UNCHANGED <<m_synced, m_interrupt, indexed, pindex>>
        /\ locator' = pindex /\ ~m_synced
    BY <1>5, Zenon DEF SyncInterrupted, Commit, Written, Covers
  <2> QED BY <1>1, <2>1 DEF Written, Covers
<1>6. CASE SyncNext
  <2>1. /\ pc = "top" /\ ~m_interrupt /\ ~m_synced
        /\ CoveredBy(pindex, indexed) /\ CoveredBy(locator, indexed)
        /\ UNCHANGED <<m_interrupt, locator, indexed>>
    BY <1>6 DEF SyncNext, Written, dbVars, Covers
  <2>2. CoveredBy(locator', indexed') /\ CoveredBy(pindex, indexed')
    BY <2>1 DEF CoveredBy
  <2>3. CASE NextSyncBlock(pindex) = NullHash
    <3>1. m_best_block_index' = pindex /\ m_synced' /\ pc' = "synced" /\ pindex' = pindex
      BY <1>6, <2>3, Zenon DEF SyncNext
    <3>2. m_synced' \in BOOLEAN
      BY <1>6, <2>3, Zenon DEF SyncNext
    <3> QED BY <1>1, <2>1, <2>2, <3>1, <3>2 DEF Written, Covers
  <2>4. CASE NextSyncBlock(pindex) # NullHash
    <3>1. pindex' = NextSyncBlock(pindex) /\ pc' = "time" /\ m_synced' = m_synced
      BY <1>6, <2>4, Zenon DEF SyncNext
    <3>2. pindex' = Genesis \/ (pindex \in Blocks /\ Parent[pindex'] \in Ancestors[pindex])
      BY <1>1, <2>4, <3>1, NextSyncBlockFacts DEF TypeOK
    <3>3. pindex' = Genesis \/ CoveredBy(Parent[pindex'], indexed)
      BY <2>1, <3>2, CoversBelow
    <3>4. pindex' = Genesis \/ CoveredBy(Parent[pindex'], indexed')
      BY <2>1, <3>3 DEF CoveredBy
    <3> QED BY <1>1, <2>1, <2>2, <2>4, <3>1, <3>4 DEF Written, Covers
  <2> QED BY <2>3, <2>4
<1>7. CASE SyncLastCommit
  <2>1. /\ pc = "synced" /\ pc' = "done" /\ m_synced /\ CoveredBy(m_best_block_index, indexed)
        /\ UNCHANGED <<m_synced, m_interrupt, m_best_block_index, indexed, pindex>>
    BY <1>7, Zenon DEF SyncLastCommit, Written, memVars, Covers
  <2>2. locator' = m_best_block_index
    BY <1>1, <1>7, <2>1, Zenon DEF SyncLastCommit, Commit, TypeOK
  <2> QED BY <1>1, <2>1, <2>2 DEF Written, Covers
<1>8. CASE SyncCommit
  <2>1. /\ pc = "time" /\ pc' = "write" /\ pindex # NullHash /\ ~m_synced
        /\ UNCHANGED <<m_synced, m_interrupt, indexed, pindex>>
    BY <1>8, Zenon DEF SyncCommit, Written
  <2>2. locator' = pindex
    BY <1>8, <2>1, Zenon DEF SyncCommit, Commit
  <2> QED BY <1>1, <2>1, <2>2 DEF Written, Covers
<1>9. CASE SyncWrite
  <2>1. /\ pc \in {"time", "write"} /\ pc' = "top" /\ ~m_synced
        /\ UNCHANGED <<m_synced, m_interrupt, locator, pindex>>
        /\ WriteBlock(pindex) /\ pindex # NullHash
        /\ pindex = Genesis \/ CoveredBy(Parent[pindex], indexed)
        /\ CoveredBy(locator, indexed) \/ locator = pindex
    BY <1>9, Zenon DEF SyncWrite, Written, memVars, Covers
  <2>2. CoveredBy(pindex, indexed') /\ indexed \subseteq indexed'
    BY <1>1, <2>1, CoversWritten DEF TypeOK
  <2>3. CoveredBy(locator, indexed')
    BY <2>1, <2>2, CoversMore DEF CoveredBy
  <2> QED BY <1>1, <2>1, <2>2, <2>3 DEF Written, Covers
<1>10. CASE Deliver
  <2> USE <1>1, <1>10, DeliverCases
  <2>1. pc' = pc /\ pindex' = pindex /\ m_synced' = m_synced /\ m_interrupt' = m_interrupt
    BY Zenon
  <2>2. CASE Takes
    <3>1. m_synced /\ CoveredBy(m_best_block_index, indexed) /\ m_best_block_index \in Blocks
          /\ pc \notin {"off", "init", "top", "time", "write"}
      BY <2>2 DEF Takes, Written, TypeOK, Covers
    <3> DEFINE b == Head(queue).block
    <3>2. b \in Blocks /\ WriteBlock(b) /\ m_best_block_index' = b /\ locator' = locator /\ Connects(b)
      BY <2>2 DEF Takes, Entries
    <3> HIDE DEF b
    <3>3. b = Genesis \/ CoveredBy(Parent[b], indexed)
      BY <3>1, <3>2, ConnectsFacts, CoversBelow
    <3>4. CoveredBy(b, indexed') /\ indexed \subseteq indexed'
      BY <3>2, <3>3, CoversWritten
    <3>5. CoveredBy(locator, indexed')
      BY <3>1, <3>4, CoversMore DEF Written, Covers
    <3>6. CoveredBy(locator', indexed') /\ CoveredBy(m_best_block_index', indexed')
      BY <3>2, <3>4, <3>5 DEF CoveredBy
    <3> QED BY <2>1, <3>1, <3>6 DEF Written, Covers
  <2>3. CASE ~Takes
    <3>1. /\ m_best_block_index' = m_best_block_index /\ indexed' = indexed
          /\ locator' = locator \/ (m_synced /\ locator' = m_best_block_index)
      BY <2>3, Zenon
    <3> QED BY <2>1, <3>1 DEF Written, Covers
  <2> QED BY <2>2, <2>3
<1>11. CASE Interrupt
  <2>1. pindex # NullHash /\ m_interrupt' /\ pc \notin {"off", "init"}
        /\ UNCHANGED <<m_synced, m_best_block_index, locator, indexed, pc, pindex>>
    BY <1>11, Zenon DEF Interrupt, Undisturbed, dbVars
  <2>2. m_interrupt' \in BOOLEAN
    BY <1>11, Zenon DEF Interrupt
  <2> QED BY <1>1, <2>1, <2>2 DEF Written, Covers
<1>12. CASE Shutdown \/ Crash
  <2>1. pc # "write"
    BY <1>12 DEF Shutdown, Crash, Undisturbed
  <2>2. ProcessEnds
    BY <1>12, Zenon DEF Shutdown, Crash
  <2> QED BY <1>1, <2>1, <2>2 DEF ProcessEnds, Written, Covers, CoveredBy, dbVars
<1> QED
  BY <1>2, <1>3, <1>4, <1>5, <1>6, <1>7, <1>8, <1>9, <1>10, <1>11, <1>12, Zenon
     DEF Next, ThreadSync

-----------------------------------------------------------------------------
(* Reaches and Walk as the queue and the target change.                    *)

LEMMA EntryBlock ==
    ASSUME NEW q \in Seq(Entries), NEW i \in 1 .. Len(q)
    PROVE  q[i] \in Entries /\ q[i].block \in Blocks
<1>1. q[i] \in Entries
  OBVIOUS
<1> QED BY <1>1 DEF Entries

LEMMA ReachesLower ==
    ASSUME NEW q, NEW b \in Blocks, NEW i, NEW n, NEW target \in Blocks, NEW below \in Ancestors[target],
           Reaches(q, b, i, n, target)
    PROVE  Reaches(q, b, i, n, below)
<1>1. target \in Ancestors[b] => below \in Ancestors[b]
  BY AncestorsOfAncestors
<1> QED BY <1>1, Zenon DEF Reaches

LEMMA ReachesAppend ==
    ASSUME NEW q \in Seq(Entries), NEW e \in Entries, NEW b \in Blocks, NEW target \in Blocks,
           NEW n \in 0 .. Len(q), NEW i \in 0 .. n, Reaches(q, b, i, n, target)
    PROVE  /\ Reaches(Append(q, e), b, i, n, target)
           /\ Reaches(Append(q, e), b, i, n + 1, target)
<1>1. \A j \in (i + 1) .. n : Append(q, e)[j] = q[j] /\ j \in (i + 1) .. (n + 1)
  OBVIOUS
<1> QED BY <1>1, Zenon DEF Reaches

(* A block on top of the target is the next target.                        *)
LEMMA ReachesConnect ==
    ASSUME NEW q \in Seq(Entries), NEW e \in Entries, Connected(e), NEW b \in Blocks,
           NEW i \in 0 .. Len(q), Reaches(q, b, i, Len(q), Parent[e.block])
    PROVE  Reaches(Append(q, e), b, i, Len(q) + 1, e.block)
<1>1. \A j \in (i + 1) .. Len(q) : Append(q, e)[j] = q[j] /\ j \in (i + 1) .. (Len(q) + 1)
  OBVIOUS
<1>2. Append(q, e)[Len(q) + 1] = e /\ Len(q) + 1 \in (i + 1) .. (Len(q) + 1)
  OBVIOUS
<1> QED BY <1>1, <1>2, Zenon DEF Reaches

(* A notification that the index does not take does not count.             *)
LEMMA ReachesTail ==
    ASSUME NEW q \in Seq(Entries), q # <<>>, NEW b \in Blocks, NEW target \in Blocks,
           NEW n \in 1 .. Len(q), NEW i \in 0 .. n, Reaches(q, b, i, n, target),
           i = 0 => ~(Connected(q[1]) /\ Parent[q[1].block] \in Ancestors[b])
    PROVE  Reaches(Tail(q), b, IF i = 0 THEN 0 ELSE i - 1, n - 1, target)
<1> DEFINE k == IF i = 0 THEN 0 ELSE i - 1
<1>1. CASE target \in Ancestors[b]
  BY <1>1, Zenon DEF Reaches
<1>2. ASSUME NEW j \in (i + 1) .. n, Connected(q[j]), Parent[q[j].block] \in Ancestors[b]
      PROVE  Reaches(Tail(q), b, k, n - 1, target)
  <2>1. ~(i = 0 /\ j = 1)
    BY <1>2
  <2>2. j - 1 \in (k + 1) .. (n - 1) /\ j \in 2 .. Len(q)
    BY <2>1
  <2>3. Tail(q)[j - 1] = q[j]
    BY <2>2
  <2> HIDE DEF k
  <2> QED BY <1>2, <2>2, <2>3, Zenon DEF Reaches
<1> QED BY <1>1, <1>2 DEF Reaches

LEMMA WalkLower ==
    ASSUME NEW q \in Seq(Entries), NEW n \in 0 .. Len(q), NEW target \in Blocks,
           NEW below \in Ancestors[target], Walk(q, n, target)
    PROVE  Walk(q, n, below)
<1>1. \A i \in 1 .. n : i \in 1 .. Len(q)
  OBVIOUS
<1>2. \A i \in 1 .. n : q[i].block \in Blocks
  BY <1>1, EntryBlock, Zenon
<1> QED BY <1>2, ReachesLower, Zenon DEF Walk

LEMMA WalkAppend ==
    ASSUME NEW q \in Seq(Entries), NEW e \in Entries, NEW target \in Blocks,
           NEW n \in 0 .. Len(q), Walk(q, n, target)
    PROVE  /\ Walk(Append(q, e), n, target)
           /\ n = Len(q) /\ ~Connected(e) => Walk(Append(q, e), n + 1, target)
<1>1. \A i \in 1 .. n : /\ Append(q, e)[i] = q[i] /\ q[i].block \in Blocks /\ i \in 0 .. n
                        /\ Connected(q[i]) => Reaches(q, q[i].block, i, n, target)
  <2>1. \A i \in 1 .. n : Append(q, e)[i] = q[i] /\ i \in 0 .. n /\ i \in 1 .. Len(q)
    OBVIOUS
  <2> QED BY <2>1, EntryBlock, Zenon DEF Walk
<1>2. \A i \in 1 .. n : Connected(q[i]) =>
         /\ Reaches(Append(q, e), q[i].block, i, n, target)
         /\ Reaches(Append(q, e), q[i].block, i, n + 1, target)
  BY <1>1, ReachesAppend, Zenon
<1>3. n = Len(q) => \A i \in 1 .. (n + 1) : i \in 1 .. n \/ Append(q, e)[i] = e
  OBVIOUS
<1> QED BY <1>1, <1>2, <1>3, Zenon DEF Walk

LEMMA WalkConnect ==
    ASSUME NEW q \in Seq(Entries), NEW e \in Entries, Connected(e), Walk(q, Len(q), Parent[e.block])
    PROVE  Walk(Append(q, e), Len(q) + 1, e.block)
<1>1. \A i \in 1 .. Len(q) : /\ Append(q, e)[i] = q[i] /\ q[i].block \in Blocks /\ i \in 0 .. Len(q)
                             /\ Connected(q[i]) => Reaches(q, q[i].block, i, Len(q), Parent[e.block])
  <2>1. \A i \in 1 .. Len(q) : Append(q, e)[i] = q[i] /\ i \in 0 .. Len(q)
    OBVIOUS
  <2> QED BY <2>1, EntryBlock, Zenon DEF Walk
<1>2. \A i \in 1 .. Len(q) : Connected(q[i]) =>
         Reaches(Append(q, e), q[i].block, i, Len(q) + 1, e.block)
  BY <1>1, ReachesConnect, Zenon
<1>3. \A i \in 1 .. (Len(q) + 1) : i \in 1 .. Len(q) \/ Append(q, e)[i] = e
  OBVIOUS
<1>4. e.block \in Ancestors[e.block]
  BY AncestorsOfAncestors DEF Entries
<1> QED BY <1>1, <1>2, <1>3, <1>4, Zenon DEF Walk, Reaches

LEMMA WalkTail ==
    ASSUME NEW q \in Seq(Entries), q # <<>>, NEW target \in Blocks,
           NEW n \in 1 .. Len(q), Walk(q, n, target)
    PROVE  Walk(Tail(q), n - 1, target)
<1> SUFFICES ASSUME NEW i \in 1 .. (n - 1), Connected(Tail(q)[i])
             PROVE  Reaches(Tail(q), Tail(q)[i].block, i, n - 1, target)
  BY Zenon DEF Walk
<1>1. Tail(q)[i] = q[i + 1] /\ i + 1 \in 1 .. n /\ i + 1 \in 0 .. n /\ q[i + 1].block \in Blocks
  <2>1. Tail(q)[i] = q[i + 1] /\ i + 1 \in 1 .. n /\ i + 1 \in 0 .. n /\ i + 1 \in 1 .. Len(q)
    OBVIOUS
  <2> QED BY <2>1, EntryBlock, Zenon
<1>2. Reaches(q, q[i + 1].block, i + 1, n, target)
  BY <1>1, Zenon DEF Walk
<1>3. i + 1 # 0 /\ (IF i + 1 = 0 THEN 0 ELSE (i + 1) - 1) = i
  OBVIOUS
<1>4. Reaches(Tail(q), q[i + 1].block, IF i + 1 = 0 THEN 0 ELSE (i + 1) - 1, n - 1, target)
  BY <1>1, <1>2, <1>3, ReachesTail, Zenon
<1> QED BY <1>1, <1>3, <1>4, Zenon

-----------------------------------------------------------------------------
LEMMA FollowingInit == Init => Following
<1> SUFFICES ASSUME Init PROVE Following
  OBVIOUS
<1>1. queue = <<>> /\ Len(queue) = 0 /\ DOMAIN queue = {} /\ 1 .. Len(queue) = {}
  BY DEF Init
<1>2. Walk(queue, Len(queue), tip)
  BY <1>1, Zenon DEF Walk
<1> QED BY <1>1, <1>2, TreeAssumption, Zenon DEF Init, Following, CallersSeeTip

(* The index only gains blocks.                                            *)
LEMMA IndexGrows ==
    ASSUME Written, [Next]_vars
    PROVE  indexed \subseteq indexed'
<1>1. TypeOK
  BY Zenon DEF Written
<1>2. ASSUME NEW b, WriteBlock(b) PROVE indexed \subseteq indexed'
  BY <1>2 DEF WriteBlock
<1>3. CASE SyncWrite
  BY <1>2, <1>3 DEF SyncWrite
<1>4. CASE Deliver
  <2>1. WriteBlock(Head(queue).block) \/ indexed' = indexed
    BY <1>1, <1>4, DeliverCases, Zenon
  <2> QED BY <1>2, <2>1
<1>5. CASE ~SyncWrite /\ ~Deliver
  <2>1. indexed' = indexed
    BY <1>5, Zenon DEF Next, ThreadSync, ConnectBlock, DisconnectBlock, FlushStateToDisk, Start,
       InitIndex, SyncInterrupted, SyncNext, SyncLastCommit, SyncCommit,
       BlockUntilSyncedToCurrentChain, Interrupt, StopIndex, Shutdown, Crash, ProcessEnds, Restart,
       vars, dbVars
  <2> QED BY <2>1
<1> QED BY <1>3, <1>4, <1>5

LEMMA CallersKept ==
    ASSUME CallersSeeTip, indexed \subseteq indexed', callTip' = callTip,
           caller' = "returned" => caller = "returned"
    PROVE  CallersSeeTip'
BY CoversMore DEF CallersSeeTip, Covers

(* Steps that leave the queue and the chain alone.                         *)
LEMMA FollowingKept ==
    ASSUME Following, indexed \subseteq indexed', UNCHANGED <<tip, queue, caller, callTip>>,
           registered' \in BOOLEAN, pc' = "off" => ~registered',
           m_synced' /\ registered' => Reaches(queue, m_best_block_index', 0, Len(queue), tip),
           caller = "waiting" => UNCHANGED <<m_synced, registered, m_best_block_index>>
    PROVE  Following'
<1>1. CallersSeeTip'
  BY CallersKept, Zenon DEF Following
<1>2. Walk(queue, Len(queue), tip)' /\ (\A i, t : Walk(queue', i, t) = Walk(queue, i, t))
  BY Zenon DEF Following
<1>3. \A i \in DOMAIN queue : IsWait(queue[i]) =>
         Reaches(queue', m_best_block_index', 0, i, callTip')
  BY Zenon DEF Following
<1>4. (Len(queue))' = Len(queue)
  OBVIOUS
<1> QED BY <1>1, <1>2, <1>3, <1>4, Zenon DEF Following

LEMMA AppendFacts ==
    ASSUME NEW q \in Seq(Entries), NEW e \in Entries
    PROVE  /\ Append(q, e) \in Seq(Entries)
           /\ Len(Append(q, e)) = Len(q) + 1 /\ DOMAIN q = 1 .. Len(q)
           /\ \A i \in DOMAIN q : Append(q, e)[i] = q[i] /\ i \in 0 .. Len(q) /\ 0 \in 0 .. i
           /\ \A i \in DOMAIN Append(q, e) : \/ i \in DOMAIN q /\ Append(q, e)[i] = q[i]
                                             \/ i = Len(q) + 1 /\ Append(q, e)[i] = e
           /\ Len(q) \in 0 .. Len(q) /\ 0 \in 0 .. Len(q)
OBVIOUS

(* A notification at the end of the queue: the call that waits sees what   *)
(* was before it.                                                          *)
LEMMA WaitsKept ==
    ASSUME Written, Following, NEW e \in Entries, queue' = Append(queue, e),
           NEW i \in DOMAIN queue, IsWait(queue[i])
    PROVE  /\ caller = "waiting" /\ m_best_block_index \in Blocks
           /\ Walk(queue', i, callTip)
           /\ Reaches(queue', m_best_block_index, 0, i, callTip)
<1>1. queue \in Seq(Entries) /\ callTip \in Blocks
  BY Zenon DEF Written, TypeOK, Entries, Following
<1>2. /\ caller = "waiting" /\ m_synced
      /\ Walk(queue, i, callTip) /\ Reaches(queue, m_best_block_index, 0, i, callTip)
  BY Zenon DEF Following
<1>3. m_best_block_index \in Blocks
  BY <1>2 DEF Written, TypeOK
<1>4. i \in 0 .. Len(queue) /\ 0 \in 0 .. i
  BY <1>1, AppendFacts, Zenon
<1>5. Walk(Append(queue, e), i, callTip)
  BY <1>1, <1>2, <1>4, WalkAppend, Zenon
<1>6. Reaches(Append(queue, e), m_best_block_index, 0, i, callTip)
  BY <1>1, <1>2, <1>3, <1>4, ReachesAppend, Zenon
<1> QED BY <1>2, <1>3, <1>5, <1>6, Zenon

LEMMA FollowingAppend ==
    ASSUME Written, Following, NEW e \in Entries, queue' = Append(queue, e), ~IsWait(e),
           indexed \subseteq indexed',
           UNCHANGED <<m_synced, registered, m_best_block_index, pc, caller, callTip>>,
           Connected(e) => e.block # Genesis,
           Walk(queue', Len(queue) + 1, tip'),
           m_synced /\ registered => Reaches(queue', m_best_block_index, 0, Len(queue) + 1, tip')
    PROVE  Following'
<1>1. queue \in Seq(Entries)
  BY Zenon DEF Written, TypeOK, Entries
<1>2. (Len(queue))' = Len(queue) + 1
  BY <1>1
<1>3. \A i \in DOMAIN queue' : \/ i \in DOMAIN queue /\ queue'[i] = queue[i]
                               \/ queue'[i] = e
  BY <1>1, AppendFacts, Zenon
<1>4. \A i \in DOMAIN queue' : Connected(queue'[i]) => queue'[i].block # Genesis
  BY <1>3, Zenon DEF Following
<1>5. \A i, k \in DOMAIN queue' : IsWait(queue'[i]) /\ IsWait(queue'[k]) => i = k
  BY <1>3, Zenon DEF Following
<1>6. \A i \in DOMAIN queue' : IsWait(queue'[i]) =>
         /\ caller = "waiting" /\ Walk(queue', i, callTip)
         /\ Reaches(queue', m_best_block_index, 0, i, callTip)
  <2> TAKE i \in DOMAIN queue'
  <2> HAVE IsWait(queue'[i])
  <2>1. i \in DOMAIN queue /\ IsWait(queue[i])
    BY <1>3, Zenon
  <2> QED BY <2>1, WaitsKept, Zenon
<1>7. CallersSeeTip'
  BY CallersKept, Zenon DEF Following
<1> QED BY <1>2, <1>4, <1>5, <1>6, <1>7, Zenon DEF Following

LEMMA FollowingWait ==
    ASSUME Written, Following, BlockUntilSyncedToCurrentChain
    PROVE  Following'
<1>1. /\ queue \in Seq(Entries) /\ tip \in Blocks /\ m_synced /\ registered /\ callTip' = tip
      /\ caller # "waiting" /\ indexed' = indexed
      /\ UNCHANGED <<tip, m_synced, registered, m_best_block_index, pc>>
  BY Zenon DEF Written, TypeOK, Entries, BlockUntilSyncedToCurrentChain, chainVars, memVars, dbVars
<1>2. m_best_block_index \in Blocks
  BY <1>1 DEF Written, TypeOK
<1>3. \A i \in DOMAIN queue : ~IsWait(queue[i])
  BY <1>1, Zenon DEF Following
<1>4. CASE HasTip
  <2>1. caller' = "returned" /\ queue' = queue
    BY <1>4, Zenon DEF BlockUntilSyncedToCurrentChain
  <2>2. tip \in Ancestors[m_best_block_index]
    BY <1>1, <1>2, <1>4, GetAncestorFacts DEF HasTip
  <2>3. CoveredBy(tip, indexed)
    BY <1>1, <1>2, <2>2, CoversBelow DEF Written, Covers
  <2>4. CallersSeeTip'
    BY <1>1, <2>3, Zenon DEF CallersSeeTip, Covers
  <2>5. (Len(queue))' = Len(queue)
    BY <2>1
  <2> QED BY <1>1, <1>3, <2>1, <2>4, <2>5 DEF Following
<1>5. CASE ~HasTip
  <2> DEFINE e == [kind |-> "wait", block |-> tip]
  <2>1. caller' = "waiting" /\ queue' = Append(queue, e)
    BY <1>5, Zenon DEF BlockUntilSyncedToCurrentChain
  <2>2. e \in Entries /\ IsWait(e) /\ ~Connected(e)
    BY <1>1 DEF Entries, IsWait, Connected
  <2> HIDE DEF e
  <2>3. \A i \in DOMAIN queue' : \/ i \in DOMAIN queue /\ queue'[i] = queue[i]
                                 \/ i = Len(queue) + 1 /\ queue'[i] = e
    BY <1>1, <2>1, <2>2, AppendFacts, Zenon
  <2>4. \A i \in DOMAIN queue' : IsWait(queue'[i]) => i = Len(queue) + 1
    BY <1>3, <2>3, Zenon
  <2>5. \A i \in DOMAIN queue' : Connected(queue'[i]) => queue'[i].block # Genesis
    BY <2>2, <2>3, Zenon DEF Following
  <2>6. Walk(queue', Len(queue) + 1, tip)
    BY <1>1, <2>1, <2>2, WalkAppend, AppendFacts, Zenon DEF Following
  <2>7. Reaches(queue', m_best_block_index, 0, Len(queue) + 1, tip)
    BY <1>1, <1>2, <2>1, <2>2, ReachesAppend, AppendFacts, Zenon DEF Following
  <2>8. (Len(queue))' = Len(queue) + 1
    BY <1>1, <2>1
  <2>9. CallersSeeTip' /\ callTip' \in Blocks /\ registered' \in BOOLEAN
    BY <1>1, <2>1 DEF CallersSeeTip, Following
  <2>10. \A i \in DOMAIN queue' : IsWait(queue'[i]) =>
            /\ caller' = "waiting" /\ Walk(queue', i, callTip')
            /\ Reaches(queue', m_best_block_index', 0, i, callTip')
    BY <1>1, <2>1, <2>4, <2>6, <2>7, Zenon
  <2>11. pc' = "off" => ~registered'
    BY <1>1, Zenon DEF Following
  <2>12. \A i, k \in DOMAIN queue' : IsWait(queue'[i]) /\ IsWait(queue'[k]) => i = k
    BY <2>4, Zenon
  <2> QED BY <1>1, <2>5, <2>6, <2>7, <2>8, <2>9, <2>10, <2>11, <2>12, Zenon DEF Following
<1> QED BY <1>4, <1>5

LEMMA GetAncestorOf ==
    ASSUME NEW b \in Blocks, NEW a \in Ancestors[b]
    PROVE  GetAncestor(b, Height[a]) = a
<1> DEFINE c == CHOOSE x \in Ancestors[b] : Height[x] = Height[a]
<1>1. c \in Ancestors[b] /\ Height[c] = Height[a]
  OBVIOUS
<1>2. c = a
  BY <1>1, OneAtEachHeight
<1> QED BY <1>2 DEF GetAncestor

LEMMA TailFacts ==
    ASSUME NEW q \in Seq(Entries), q # <<>>
    PROVE  /\ Tail(q) \in Seq(Entries) /\ Len(Tail(q)) = Len(q) - 1
           /\ Head(q) = q[1] /\ 1 \in DOMAIN q /\ 1 \in 1 .. Len(q) /\ Len(q) \in 1 .. Len(q)
           /\ \A i \in DOMAIN Tail(q) : /\ Tail(q)[i] = q[i + 1] /\ i + 1 \in DOMAIN q
                                        /\ i + 1 \in 1 .. Len(q) /\ (i + 1) - 1 = i /\ i + 1 # 1
OBVIOUS

(* The first notification is taken or ignored; either way the rest of the  *)
(* queue leads where the whole queue did.                                  *)
LEMMA ReachesDelivered ==
    ASSUME Written, Following, Deliver, m_synced, registered,
           NEW n \in 1 .. Len(queue), NEW target \in Blocks,
           Walk(queue, n, target), Reaches(queue, m_best_block_index, 0, n, target)
    PROVE  Reaches(queue', m_best_block_index', 0, n - 1, target)
<1>1. TypeOK /\ m_best_block_index \in Blocks
  BY DEF Written, TypeOK
<1>2. queue \in Seq(Entries) /\ queue # <<>> /\ queue' = Tail(queue)
  BY <1>1, DeliverCases, Zenon
<1>3. /\ Head(queue) = queue[1] /\ 1 \in DOMAIN queue /\ queue[1].block \in Blocks
      /\ 1 \in 1 .. n /\ 1 \in 0 .. n /\ 0 \in 0 .. n
  <2>1. Head(queue) = queue[1] /\ 1 \in DOMAIN queue /\ queue[1].block \in Blocks
    BY <1>2, TailFacts, EntryBlock, Zenon
  <2>2. 1 \in 1 .. n /\ 1 \in 0 .. n /\ 0 \in 0 .. n
    OBVIOUS
  <2> QED BY <2>1, <2>2
<1>4. CASE Takes
  <2>1. m_best_block_index' = queue[1].block /\ Connected(queue[1])
    BY <1>1, <1>3, <1>4, DeliverCases, Zenon DEF Takes, Connected
  <2>2. Reaches(queue, queue[1].block, 1, n, target)
    BY <1>3, <2>1, Zenon DEF Walk
  <2>3. 1 # 0 /\ (IF 1 = 0 THEN 0 ELSE 1 - 1) = 0
    OBVIOUS
  <2>4. Reaches(Tail(queue), queue[1].block, IF 1 = 0 THEN 0 ELSE 1 - 1, n - 1, target)
    BY <1>2, <1>3, <2>2, <2>3, ReachesTail, Zenon
  <2> QED BY <1>2, <2>1, <2>3, <2>4, Zenon
<1>5. CASE ~Takes
  <2>1. m_best_block_index' = m_best_block_index
    BY <1>1, <1>5, DeliverCases, Zenon
  <2>2. ASSUME Connected(queue[1]), Parent[queue[1].block] \in Ancestors[m_best_block_index]
        PROVE  FALSE
    <3> DEFINE b == queue[1].block
    <3>1. b \in Blocks /\ b # Genesis
      BY <1>3, <2>2, Zenon DEF Following
    <3>2. Parent[b] \in Blocks /\ Height[Parent[b]] = Height[b] - 1
      <4> HIDE DEF b
      <4> QED BY <3>1, TreeAssumption, HeightAssumption
    <3>3. GetAncestor(m_best_block_index, Height[Parent[b]]) = Parent[b]
      BY <1>1, <2>2, GetAncestorOf, Zenon
    <3>4. Connects(b)
      BY <3>2, <3>3, Zenon DEF Connects
    <3> QED BY <1>3, <1>5, <2>2, <3>4, Zenon DEF Takes, Connected
  <2>3. (IF 0 = 0 THEN 0 ELSE 0 - 1) = 0
    OBVIOUS
  <2>4. Reaches(Tail(queue), m_best_block_index, IF 0 = 0 THEN 0 ELSE 0 - 1, n - 1, target)
    BY <1>1, <1>2, <1>3, <2>2, ReachesTail, Zenon
  <2> QED BY <1>2, <2>1, <2>3, <2>4, Zenon
<1> QED BY <1>4, <1>5

LEMMA FollowingDeliver ==
    ASSUME Written, Following, Deliver
    PROVE  Following'
<1>1. TypeOK
  BY Zenon DEF Written
<1>2. /\ queue \in Seq(Entries) /\ queue # <<>> /\ queue' = Tail(queue)
      /\ caller' = IF IsWait(Head(queue)) THEN "returned" ELSE caller
      /\ UNCHANGED <<tip, m_synced, registered, pc, callTip>>
  BY <1>1, DeliverCases, Zenon DEF chainVars, IsWait
<1>3. /\ Head(queue) = queue[1] /\ 1 \in DOMAIN queue
      /\ Len(queue) \in 1 .. Len(queue) /\ (Len(queue))' = Len(queue) - 1
  BY <1>2, TailFacts, Zenon
<1>4. \A i \in DOMAIN queue' : /\ queue'[i] = queue[i + 1] /\ i + 1 \in DOMAIN queue
                               /\ i + 1 \in 1 .. Len(queue) /\ (i + 1) - 1 = i /\ i + 1 # 1
  BY <1>2, TailFacts, Zenon
<1>5. indexed \subseteq indexed'
  BY IndexGrows, Zenon DEF Next
<1>6. \A i \in DOMAIN queue' : Connected(queue'[i]) => queue'[i].block # Genesis
  <2>1. \A i \in DOMAIN queue : Connected(queue[i]) => queue[i].block # Genesis
    BY Zenon DEF Following
  <2> TAKE i \in DOMAIN queue'
  <2>2. queue'[i] = queue[i + 1] /\ i + 1 \in DOMAIN queue
    BY <1>4, Zenon
  <2>3. Connected(queue[i + 1]) => queue[i + 1].block # Genesis
    BY <2>1, <2>2, Zenon
  <2> QED BY <2>2, <2>3, Zenon
<1>7. \A i, k \in DOMAIN queue' : IsWait(queue'[i]) /\ IsWait(queue'[k]) => i = k
  <2> TAKE i, k \in DOMAIN queue'
  <2> HAVE IsWait(queue'[i]) /\ IsWait(queue'[k])
  <2>1. i + 1 = k + 1
    BY <1>4, Zenon DEF Following
  <2> QED BY <1>4, <2>1, Zenon
<1>8. Walk(queue', Len(queue) - 1, tip)
  BY <1>1, <1>2, <1>3, WalkTail, Zenon DEF Following, TypeOK
<1>9. m_synced /\ registered => Reaches(queue', m_best_block_index', 0, Len(queue) - 1, tip)
  BY <1>1, <1>3, ReachesDelivered, Zenon DEF Following, TypeOK
<1>10. \A i \in DOMAIN queue' : IsWait(queue'[i]) =>
          /\ caller' = "waiting" /\ Walk(queue', i, callTip)
          /\ Reaches(queue', m_best_block_index', 0, i, callTip)
  <2> TAKE i \in DOMAIN queue'
  <2> HAVE IsWait(queue'[i])
  <2>1. /\ i + 1 \in DOMAIN queue /\ IsWait(queue[i + 1])
        /\ i + 1 \in 1 .. Len(queue) /\ (i + 1) - 1 = i /\ i + 1 # 1
    BY <1>4, Zenon
  <2>2. /\ caller = "waiting" /\ m_synced /\ registered /\ callTip \in Blocks
        /\ Walk(queue, i + 1, callTip) /\ Reaches(queue, m_best_block_index, 0, i + 1, callTip)
    BY <2>1, Zenon DEF Following
  <2>3. ~IsWait(queue[1])
    BY <1>3, <2>1, Zenon DEF Following
  <2>4. Walk(queue', (i + 1) - 1, callTip)
    BY <1>2, <2>1, <2>2, WalkTail, Zenon
  <2>5. Reaches(queue', m_best_block_index', 0, (i + 1) - 1, callTip)
    BY <2>1, <2>2, ReachesDelivered, Zenon
  <2> QED BY <1>2, <1>3, <2>1, <2>2, <2>3, <2>4, <2>5, Zenon
<1>11. CallersSeeTip'
  <2>1. CASE IsWait(queue[1])
    <3>1. /\ m_synced /\ callTip \in Blocks /\ ~Connected(queue[1])
          /\ Reaches(queue, m_best_block_index, 0, 1, callTip)
      BY <1>3, <2>1 DEF Following, IsWait, Connected
    <3>2. callTip \in Ancestors[m_best_block_index]
      BY <3>1 DEF Reaches
    <3>3. m_best_block_index \in Blocks /\ CoveredBy(m_best_block_index, indexed)
      BY <3>1 DEF Written, TypeOK, Covers
    <3>4. CoveredBy(callTip, indexed)
      BY <3>2, <3>3, CoversBelow
    <3>5. CoveredBy(callTip, indexed')
      BY <1>5, <3>4, CoversMore, Zenon
    <3> QED BY <1>2, <3>5, Zenon DEF CallersSeeTip, Covers
  <2>2. CASE ~IsWait(queue[1])
    BY <1>2, <1>3, <1>5, <2>2, CallersKept, Zenon DEF Following
  <2> QED BY <2>1, <2>2
<1>12. /\ callTip' \in Blocks /\ registered' \in BOOLEAN /\ (pc' = "off" => ~registered')
       /\ caller' = "waiting" => m_synced' /\ registered'
  BY <1>2 DEF Following
<1> QED BY <1>2, <1>3, <1>6, <1>7, <1>8, <1>9, <1>10, <1>11, <1>12, Zenon DEF Following

LEMMA FollowingStep ==
    ASSUME Written, Following, [Next]_vars
    PROVE  Following'
<1>1. /\ TypeOK /\ queue \in Seq(Entries) /\ tip \in Blocks
      /\ m_synced => m_best_block_index \in Blocks
  <2>1. TypeOK /\ queue \in Seq(Entries) /\ tip \in Blocks
    BY Zenon DEF Written, TypeOK, Entries
  <2> QED BY <2>1 DEF TypeOK
<1>2. indexed \subseteq indexed'
  BY IndexGrows, Zenon
<1>3. /\ Walk(queue, Len(queue), tip) /\ registered \in BOOLEAN
      /\ m_synced /\ registered => Reaches(queue, m_best_block_index, 0, Len(queue), tip)
      /\ caller = "waiting" => m_synced /\ registered
      /\ pc = "off" => ~registered
  BY Zenon DEF Following
<1>4. ASSUME NEW b \in Blocks, ConnectBlock(b)
      PROVE  Following'
  <2> DEFINE e == [kind |-> "connected", block |-> b]
  <2>1. /\ Parent[b] = tip /\ tip' = b /\ queue' = Append(queue, e)
        /\ UNCHANGED <<m_synced, registered, m_best_block_index, pc, caller, callTip>>
    BY <1>4, Zenon DEF ConnectBlock, memVars, callVars
  <2>2. e \in Entries /\ Connected(e) /\ ~IsWait(e) /\ e.block = b
    BY DEF Entries, Connected, IsWait
  <2>3. b # Genesis
    BY <1>1, <2>1, TreeAssumption
  <2> HIDE DEF e
  <2>4. Walk(queue', Len(queue) + 1, tip')
    BY <1>1, <1>3, <2>1, <2>2, WalkConnect, Zenon
  <2>5. m_synced /\ registered => Reaches(queue', m_best_block_index, 0, Len(queue) + 1, tip')
    BY <1>1, <1>3, <2>1, <2>2, ReachesConnect, AppendFacts, Zenon
  <2> QED BY <1>2, <2>1, <2>2, <2>3, <2>4, <2>5, FollowingAppend, Zenon
<1>5. CASE FlushStateToDisk
  <2> DEFINE e == [kind |-> "flushed", block |-> tip]
  <2>1. /\ tip' = tip /\ queue' = Append(queue, e)
        /\ UNCHANGED <<m_synced, registered, m_best_block_index, pc, caller, callTip>>
    BY <1>5, Zenon DEF FlushStateToDisk, memVars, callVars
  <2>2. e \in Entries /\ ~Connected(e) /\ ~IsWait(e)
    BY <1>1 DEF Entries, Connected, IsWait
  <2> HIDE DEF e
  <2>3. Walk(queue', Len(queue) + 1, tip')
    BY <1>1, <1>3, <2>1, <2>2, WalkAppend, AppendFacts, Zenon
  <2>4. m_synced /\ registered => Reaches(queue', m_best_block_index, 0, Len(queue) + 1, tip')
    BY <1>1, <1>3, <2>1, <2>2, ReachesAppend, AppendFacts, Zenon
  <2> QED BY <1>2, <2>1, <2>2, <2>3, <2>4, FollowingAppend, Zenon
<1>6. CASE DisconnectBlock
  <2>1. /\ tip # Genesis /\ tip' = Parent[tip]
        /\ UNCHANGED <<queue, m_synced, registered, m_best_block_index, pc, caller, callTip>>
    BY <1>6, Zenon DEF DisconnectBlock, memVars, callVars
  <2>2. tip' \in Ancestors[tip]
    BY <1>1, <2>1, AncestorsOfAncestors, ParentOfAncestor
  <2>3. Walk(queue, Len(queue), tip')
    <3>1. Len(queue) \in 0 .. Len(queue)
      BY <1>1
    <3> QED BY <1>1, <1>3, <2>2, <3>1, WalkLower, Zenon
  <2>4. m_synced /\ registered => Reaches(queue, m_best_block_index, 0, Len(queue), tip')
    BY <1>1, <1>3, <2>2, ReachesLower, Zenon
  <2>5. CallersSeeTip'
    BY <1>2, <2>1, CallersKept, Zenon DEF Following
  <2>6. (Len(queue))' = Len(queue)
    BY <2>1
  <2> QED BY <2>1, <2>3, <2>4, <2>5, <2>6, Zenon DEF Following
<1>7. CASE InitIndex
  <2>1. UNCHANGED <<tip, queue, caller, callTip, registered>> /\ pc' # "off" /\ pc = "init"
    BY <1>7 DEF InitIndex, chainVars, callVars
  <2>2. ~m_synced
    BY <2>1 DEF Written
  <2>3. m_synced' => m_best_block_index' = tip
    BY <1>7, Zenon DEF InitIndex
  <2>4. m_synced' => Reaches(queue, m_best_block_index', 0, Len(queue), tip)
    BY <1>1, <2>3, AncestorsOfAncestors, Zenon DEF Reaches
  <2> QED BY <1>2, <1>3, <2>1, <2>2, <2>4, FollowingKept, Zenon
<1>8. CASE SyncNext
  <2>1. UNCHANGED <<tip, queue, caller, callTip, registered>> /\ pc = "top" /\ pc' # "off"
    BY <1>8 DEF SyncNext, chainVars, callVars
  <2>2. ~m_synced /\ pindex \in Blocks \cup {NullHash}
    BY <1>1, <2>1 DEF Written, TypeOK
  <2>3. m_synced' => NextSyncBlock(pindex) = NullHash /\ m_best_block_index' = pindex
    BY <1>8, <2>2, Zenon DEF SyncNext
  <2>4. m_synced' => tip \in Ancestors[m_best_block_index']
    BY <1>1, <2>2, <2>3, NextSyncBlockFacts
  <2>5. m_synced' => Reaches(queue, m_best_block_index', 0, Len(queue), tip)
    BY <2>4, Zenon DEF Reaches
  <2> QED BY <1>2, <1>3, <2>1, <2>2, <2>5, FollowingKept, Zenon
<1>9. CASE SyncInterrupted \/ SyncCommit
  <2>1. /\ UNCHANGED <<tip, queue, caller, callTip, registered, m_synced>>
        /\ pc \in {"top", "time"} /\ pc' # "off"
    BY <1>9 DEF SyncInterrupted, SyncCommit, chainVars, callVars
  <2>2. ~m_synced
    BY <2>1 DEF Written
  <2> QED BY <1>2, <1>3, <2>1, <2>2, FollowingKept, Zenon
<1>10. CASE Start \/ SyncLastCommit \/ SyncWrite \/ Interrupt \/ Restart \/ UNCHANGED vars
  <2>1. /\ UNCHANGED <<tip, queue, caller, callTip, m_synced, m_best_block_index>>
        /\ (pc' = pc /\ registered' = registered)
           \/ (pc' # "off" /\ registered' = registered)
           \/ (pc = "off" /\ pc' # "off" /\ registered' = TRUE)
    BY <1>10 DEF Start, SyncLastCommit, SyncWrite, Interrupt, Restart, vars, chainVars, memVars, callVars
  <2>2. pc = "off" => ~m_synced
    BY DEF Written
  <2>3. /\ registered' \in BOOLEAN /\ (pc' = "off" => ~registered')
        /\ m_synced' /\ registered' => m_synced /\ registered
        /\ caller = "waiting" => registered' = registered
    <3>1. CASE registered' = registered
      BY <1>3, <2>1, <3>1, Zenon
    <3>2. CASE pc = "off" /\ pc' # "off" /\ registered' = TRUE
      <4>1. registered' \in BOOLEAN
        BY <3>2
      <4> QED BY <1>3, <2>1, <2>2, <3>2, <4>1, Zenon
    <3> QED BY <2>1, <3>1, <3>2, Zenon
  <2>4. m_synced' /\ registered' => Reaches(queue, m_best_block_index', 0, Len(queue), tip)
    BY <1>3, <2>1, <2>3, Zenon
  <2> QED BY <1>2, <2>1, <2>3, <2>4, FollowingKept, Zenon
<1>11. CASE StopIndex
  <2>1. /\ UNCHANGED <<tip, queue, caller, callTip>> /\ registered' = FALSE /\ caller # "waiting"
    BY <1>11, Zenon DEF StopIndex, callVars
  <2> QED BY <1>2, <2>1, FollowingKept, Zenon
<1>12. CASE Shutdown \/ Crash
  <2>1. ProcessEnds
    BY <1>12, Zenon DEF Shutdown, Crash
  <2>2. queue' = <<>> /\ registered' = FALSE /\ caller' = "idle" /\ callTip' = Genesis
    BY <2>1, Zenon DEF ProcessEnds
  <2>3. (Len(queue))' = 0 /\ DOMAIN queue' = {} /\ 1 .. 0 = {}
    BY <2>2
  <2>4. Walk(queue', 0, tip')
    BY <2>3, Zenon DEF Walk
  <2> QED BY <2>2, <2>3, <2>4, TreeAssumption, Zenon DEF Following, CallersSeeTip
<1>13. CASE Deliver
  BY <1>13, FollowingDeliver, Zenon
<1>14. CASE BlockUntilSyncedToCurrentChain
  BY <1>14, FollowingWait, Zenon
<1> QED
  BY <1>4, <1>5, <1>6, <1>7, <1>8, <1>9, <1>10, <1>11, <1>12, <1>13, <1>14, Zenon
     DEF Next, ThreadSync

-----------------------------------------------------------------------------
(* The stored positions.                                                   *)

LEMMA RightBelow ==
    ASSUME NEW b \in Blocks, NEW a \in Ancestors[b], NEW pos, RightIn(b, pos)
    PROVE  RightIn(a, pos)
<1>1. b # NullHash /\ Ancestors[a] \subseteq Ancestors[b]
  BY TreeAssumption, AncestorsOfAncestors
<1> QED BY <1>1 DEF RightIn

(* A transaction of the new block is in no block below it.                 *)
LEMMA RightWritten ==
    ASSUME NEW b \in Blocks, WriteBlock(b), b = Genesis \/ RightIn(Parent[b], txPos)
    PROVE  RightIn(b, txPos')
<1>1. CASE b = Genesis
  BY <1>1, AncestorsAssumption DEF RightIn
<1>2. CASE b # Genesis
  <2>1. Ancestors[b] = {b} \cup Ancestors[Parent[b]] /\ Parent[b] # NullHash
    BY <1>2, AncestorsAssumption, TreeAssumption
  <2>2. txPos' = [t \in Txs |-> IF t \in TxsOf[b] THEN b ELSE txPos[t]]
    BY <1>2 DEF WriteBlock
  <2>3. ASSUME NEW c \in Ancestors[b] \ {Genesis}, NEW t \in TxsOf[c]
        PROVE  txPos'[t] = c
    <3>1. c \in Blocks /\ t \in Txs
      BY AncestorsAssumption, IndexAssumption
    <3>2. CASE c = b
      BY <2>2, <3>1, <3>2
    <3>3. CASE c # b
      <4>1. t \notin TxsOf[b]
        BY <3>3, NoTxTwice
      <4>2. txPos[t] = c
        BY <1>2, <2>1, <3>3 DEF RightIn
      <4> QED BY <2>2, <3>1, <4>1, <4>2
    <3> QED BY <3>2, <3>3
  <2> QED BY <2>3 DEF RightIn
<1> QED BY <1>1, <1>2

LEMMA PositionsInit == Init => Positions
BY DEF Init, Positions

LEMMA PositionsStep ==
    ASSUME Written, Positions, [Next]_vars
    PROVE  Positions'
<1>1. /\ TypeOK /\ tip \in Blocks /\ pindex \in Blocks \cup {NullHash}
      /\ m_synced => m_best_block_index \in Blocks
  BY DEF Written, TypeOK
<1>2. CASE Shutdown \/ Crash
  <2>1. restarts' = restarts + 1
    BY <1>2, Zenon DEF Shutdown, Crash, ProcessEnds
  <2>2. restarts \in Nat
    BY Zenon DEF Positions
  <2>3. restarts' \in Nat /\ ~(restarts' = 0)
    BY <2>1, <2>2, SMT
  <2> QED BY <2>3, Zenon DEF Positions
<1>3. CASE ~(Shutdown \/ Crash)
  <2>1. restarts' = restarts
    BY <1>3, Zenon DEF Next, ThreadSync, ConnectBlock, DisconnectBlock, FlushStateToDisk, Start,
       InitIndex, SyncInterrupted, SyncNext, SyncLastCommit, SyncCommit, SyncWrite, Deliver,
       BlockUntilSyncedToCurrentChain, Interrupt, StopIndex, Restart, vars, chainVars
  <2>2. SUFFICES ASSUME restarts = 0
                 PROVE  /\ pc' \in {"off", "init"} => locator' = NullHash
                        /\ pc' = "top" => RightIn(pindex', txPos')
                        /\ pc' \in {"time", "write"} =>
                              pindex' = Genesis \/ RightIn(Parent[pindex'], txPos')
                        /\ m_synced' => RightIn(m_best_block_index', txPos')
    BY <2>1, Zenon DEF Positions, Right
  <2>3. /\ pc \in {"off", "init"} => locator = NullHash
        /\ pc = "top" => RightIn(pindex, txPos)
        /\ pc \in {"time", "write"} => pindex = Genesis \/ RightIn(Parent[pindex], txPos)
        /\ m_synced => RightIn(m_best_block_index, txPos)
    BY <2>2, Zenon DEF Positions, Right
  <2>4. /\ pc \in {"off", "init", "top", "time", "write"} => ~m_synced
        /\ pc \in {"time", "write"} => pindex # NullHash
    BY Zenon DEF Written
  <2>5. CASE \/ \E b \in Blocks : ConnectBlock(b)
             \/ DisconnectBlock \/ FlushStateToDisk \/ BlockUntilSyncedToCurrentChain
             \/ Interrupt \/ StopIndex \/ Restart \/ UNCHANGED vars
    <3>1. UNCHANGED <<m_synced, m_best_block_index, locator, txPos, pc, pindex>>
      BY <2>5, Zenon DEF ConnectBlock, DisconnectBlock, FlushStateToDisk,
           BlockUntilSyncedToCurrentChain, Interrupt, StopIndex, Restart, vars, memVars, dbVars
    <3> QED BY <2>3, <3>1, Zenon
  <2>6. CASE Start
    <3>1. pc = "off" /\ pc' = "init" /\ UNCHANGED <<m_synced, locator>>
      BY <2>6, Zenon DEF Start, dbVars
    <3> QED BY <2>3, <2>4, <3>1
  <2>7. CASE InitIndex
    <3>1. pc = "init" /\ locator = NullHash
      BY <2>3, <2>7 DEF InitIndex
    <3>2. /\ m_best_block_index' = NullHash /\ pindex' = NullHash
          /\ pc' = IF NullHash = tip THEN "done" ELSE "top"
      BY <2>7, <3>1, Zenon DEF InitIndex
    <3> QED BY <3>2 DEF RightIn
  <2>8. CASE SyncInterrupted
    <3>1. pc = "top" /\ pc' = "done" /\ m_synced' = m_synced
      BY <2>8, Zenon DEF SyncInterrupted
    <3> QED BY <2>4, <3>1
  <2>9. CASE SyncNext
    <3>1. pc = "top" /\ txPos' = txPos
      BY <2>9, Zenon DEF SyncNext, dbVars
    <3>2. CASE NextSyncBlock(pindex) = NullHash
      <4>1. m_best_block_index' = pindex /\ pc' = "synced"
        BY <2>9, <3>2, Zenon DEF SyncNext
      <4> QED BY <2>3, <3>1, <4>1
    <3>3. CASE NextSyncBlock(pindex) # NullHash
      <4>1. pindex' = NextSyncBlock(pindex) /\ pc' = "time" /\ m_synced' = m_synced
        BY <2>9, <3>3, Zenon DEF SyncNext
      <4>2. pindex' = Genesis \/ (pindex \in Blocks /\ Parent[pindex'] \in Ancestors[pindex])
        BY <1>1, <3>3, <4>1, NextSyncBlockFacts
      <4>3. pindex' = Genesis \/ RightIn(Parent[pindex'], txPos)
        BY <2>3, <3>1, <4>2, RightBelow
      <4> QED BY <2>4, <3>1, <4>1, <4>3
    <3> QED BY <3>2, <3>3
  <2>10. CASE SyncLastCommit
    <3>1. pc = "synced" /\ pc' = "done" /\ UNCHANGED <<m_synced, m_best_block_index, txPos>>
      BY <2>10, Zenon DEF SyncLastCommit, memVars
    <3> QED BY <2>3, <3>1
  <2>11. CASE SyncCommit
    <3>1. pc = "time" /\ pc' = "write" /\ UNCHANGED <<m_synced, txPos, pindex>>
      BY <2>11, Zenon DEF SyncCommit
    <3> QED BY <2>3, <2>4, <3>1
  <2>12. CASE SyncWrite
    <3>1. /\ pc \in {"time", "write"} /\ pc' = "top" /\ UNCHANGED <<m_synced, pindex>>
          /\ WriteBlock(pindex)
      BY <2>12, Zenon DEF SyncWrite, memVars
    <3>2. pindex \in Blocks
      BY <1>1, <2>4, <3>1
    <3>3. RightIn(pindex, txPos')
      BY <2>3, <3>1, <3>2, RightWritten
    <3> QED BY <2>4, <3>1, <3>3
  <2>13. CASE Deliver
    <3>1. UNCHANGED <<m_synced, pc, pindex>>
      BY <1>1, <2>13, DeliverCases, Zenon
    <3>2. CASE Takes
      <4> DEFINE b == Head(queue).block
      <4>1. /\ Head(queue) \in Entries /\ WriteBlock(b) /\ m_best_block_index' = b
            /\ Connects(b) /\ m_synced /\ locator' = locator
        BY <1>1, <2>13, <3>2, DeliverCases, Zenon DEF Takes
      <4>2. b \in Blocks
        BY <4>1 DEF Entries
      <4> HIDE DEF b
      <4>3. b = Genesis \/ RightIn(Parent[b], txPos)
        BY <1>1, <2>3, <4>1, <4>2, ConnectsFacts, RightBelow
      <4>4. RightIn(b, txPos')
        BY <4>1, <4>2, <4>3, RightWritten
      <4>5. pc \notin {"off", "init", "top", "time", "write"}
        BY <2>4, <4>1
      <4> QED BY <3>1, <4>1, <4>4, <4>5
    <3>3. CASE ~Takes
      <4>1. /\ UNCHANGED <<m_best_block_index, txPos>>
            /\ locator' = locator \/ m_synced
        BY <1>1, <2>13, <3>3, DeliverCases, Zenon
      <4>2. pc \in {"off", "init"} => locator' = NullHash
        BY <2>3, <2>4, <4>1
      <4> QED BY <2>3, <3>1, <4>1, <4>2, Zenon
    <3> QED BY <3>2, <3>3
  <2> QED
    BY <1>3, <2>5, <2>6, <2>7, <2>8, <2>9, <2>10, <2>11, <2>12, <2>13, Zenon DEF Next, ThreadSync
<1> QED BY <1>2, <1>3

-----------------------------------------------------------------------------
IndexInv == Written /\ Following /\ Positions

LEMMA IndexInductive ==
    ASSUME Undisturbed
    PROVE  Spec => []IndexInv
<1>1. Init => IndexInv
  BY WrittenInit, FollowingInit, PositionsInit, Zenon DEF IndexInv
<1>2. IndexInv /\ [Next]_vars => IndexInv'
  BY WrittenStep, FollowingStep, PositionsStep, Zenon DEF IndexInv
<1> QED BY <1>1, <1>2, PTL DEF Spec

(* Nothing below the position of the index is missing from it, for a crash *)
(* anywhere but between the locator and the block that ThreadSync writes.  *)
THEOREM NothingMissing ==
    ASSUME Undisturbed
    PROVE  Spec => []IndexComplete
<1>1. IndexInv => IndexComplete
  BY Zenon DEF IndexInv, Written, IndexComplete
<1> QED BY <1>1, IndexInductive, PTL

(* With its notifications drained the index has the active chain, and in   *)
(* the first session every stored position is on it: whatever blocks were  *)
(* connected and disconnected while ThreadSync ran or while notifications  *)
(* were waiting.                                                           *)
THEOREM DrainedIsCaughtUp ==
    ASSUME Undisturbed
    PROVE  Spec => []CaughtUp
<1>1. IndexInv => CaughtUp
  <2> SUFFICES ASSUME IndexInv, m_synced, registered, Backlog = {}
               PROVE  /\ tip \in Ancestors[m_best_block_index]
                      /\ restarts = 0 =>
                            \A b \in Active \ {Genesis} : \A t \in TxsOf[b] : txPos[t] = b
    BY Zenon DEF CaughtUp
  <2>1. tip \in Blocks /\ m_best_block_index \in Blocks /\ queue \in Seq(Entries)
    <3>1. queue \in Seq(Entries)
      BY Zenon DEF IndexInv, Written, TypeOK, Entries
    <3> QED BY <3>1 DEF IndexInv, Written, TypeOK
  <2>2. \A i \in 1 .. Len(queue) : ~Connected(queue[i])
    BY <2>1 DEF Backlog, Connected
  <2>3. Reaches(queue, m_best_block_index, 0, Len(queue), tip)
    BY Zenon DEF IndexInv, Following
  <2>4. tip \in Ancestors[m_best_block_index]
    BY <2>2, <2>3 DEF Reaches
  <2>5. restarts = 0 => RightIn(tip, txPos)
    BY <2>1, <2>4, RightBelow DEF IndexInv, Positions, Right
  <2>6. tip # NullHash
    BY <2>1, TreeAssumption
  <2> QED BY <2>4, <2>5, <2>6 DEF RightIn, Active
<1> QED BY <1>1, IndexInductive, PTL

(* A call of BlockUntilSyncedToCurrentChain that returned true saw every   *)
(* block indexed that was active when it was made.                         *)
THEOREM WaitersSeeTheirTip ==
    ASSUME Undisturbed
    PROVE  Spec => []CallersSeeTip
<1>1. IndexInv => CallersSeeTip
  BY Zenon DEF IndexInv, Following
<1> QED BY <1>1, IndexInductive, PTL
=============================================================================
