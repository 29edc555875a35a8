-------------------------- MODULE ChainFlushProofs --------------------------
(* A crash at any moment, with or without a loss of power, pruned or not,  *)
(* leaves a coin database from which startup recovers the coins of a tip,  *)
(* for every tree of valid blocks.  The argument is made per outpoint:     *)
(* between two batches its coin is the one of the old tip or of the new    *)
(* one, undoing a block that touches it gives the coin below that block    *)
(* whatever was there, and redoing one gives the coin above it.            *)
EXTENDS ChainFlush, CoinsViewProofs

USE CoinsAssumption, EntriesAssumption, TreeAssumption

(* The coins of a block, by outpoint.                                      *)
LEMMA UtxoFacts ==
    /\ \A b \in Blocks, o \in Outpoints : Utxo[b][o] \in Coin
    /\ \A b \in Blocks : Utxo[b] \in Views
    /\ \A b \in MaybeBlock : CoinsAt(b) \in Views
    /\ \A b \in NonGenesis, o \in Outpoints :
          Utxo[b][o] = IF o \in Inputs[b] THEN Spent
                       ELSE IF o \in Outputs[b] THEN Height[b]
                       ELSE Utxo[Parent[b]][o]
BY UtxoAssumption DEF Views, Coin, MaybeBlock, CoinsAt

(* What is in the undo data of a block.                                    *)
LEMMA UndoFacts ==
    ASSUME NEW b \in NonGenesis, NEW o \in Outpoints
    PROVE  /\ Parent[b] \in Blocks
           /\ Height[b] \in Coins /\ Height[b] \notin Unspendable
           /\ o \in Inputs[b] => UndoCoin(b, o) \in Coins /\ UndoCoin(b, o) \notin Unspendable
           /\ o \in Outputs[b] => Utxo[Parent[b]][o] = Spent
           /\ o \in Inputs[b] \ Outputs[b] => UndoCoin(b, o) = Utxo[Parent[b]][o]
<1>1. Parent[b] \in Blocks /\ Height[b] \in Coins /\ Unspendable = {}
  BY OutpointsAssumption, Zenon DEF NonGenesis
<1>2. o \in Outputs[b] => Utxo[Parent[b]][o] = Spent
  BY ValidAssumption, Zenon
<1>3. Utxo[Parent[b]][o] \in Coin
  BY <1>1, UtxoFacts, Zenon
<1>4. o \in Inputs[b] => UndoCoin(b, o) \in Coins
  BY <1>1, <1>3, ValidAssumption, Zenon DEF UndoCoin, Coin
<1> QED
  BY <1>1, <1>2, <1>4, Zenon DEF UndoCoin

(* AddCoin after HaveCoin has answered whether there is a coin.            *)
LEMMA AddAfterHave ==
    ASSUME NEW e \in Entry, NEW b \in Coin, NEW c \in Coins, c \notin Unspendable,
           EntrySound(e, b)
    PROVE  LET f == FetchEntry(e, b)
               a == AddEntry(f, c, Seen(f, b) # Spent)
           IN  a \in Entry /\ Seen(a, b) = c /\ EntrySound(a, b)
<1> DEFINE f == FetchEntry(e, b)
           w == Seen(f, b) # Spent
<1>1. f \in Entry /\ EntrySound(f, b)
  BY EntryTypes, FetchSeen, Zenon
<1>2. w \in BOOLEAN
  BY Zenon
<1>3. w \/ Seen(f, b) = Spent
  BY Zenon
<1>4. w \/ Found(f).coin = Spent
  BY Zenon DEF Found, NewEntry, Seen
<1> HIDE DEF f, w
<1>5. /\ AddEntry(f, c, w) \in Entry /\ Seen(AddEntry(f, c, w), b) = c
      /\ EntrySound(AddEntry(f, c, w), b)
  BY <1>1, <1>2, <1>3, <1>4, AddSeen
<1> QED
  BY <1>5, Zenon DEF f, w

(* Undoing a block at one outpoint, whatever coin is there.                *)
LEMMA UndoSeen ==
    ASSUME NEW e \in Entry, NEW c \in Coin, EntrySound(e, c),
           NEW b \in NonGenesis, NEW o \in Outpoints
    PROVE  /\ UndoEntry(e, c, b, o) \in Entry
           /\ EntrySound(UndoEntry(e, c, b, o), c)
           /\ Seen(UndoEntry(e, c, b, o), c) =
                 IF o \in Inputs[b] \cup Outputs[b] THEN Utxo[Parent[b]][o] ELSE Seen(e, c)
<1> DEFINE f == FetchEntry(e, c)
           r == IF o \in Inputs[b] THEN AddEntry(f, UndoCoin(b, o), Seen(f, c) # Spent)
                                   ELSE e
           s == SpendEntry(FetchEntry(r, c))
<1>1. /\ r \in Entry /\ EntrySound(r, c)
      /\ Seen(r, c) = IF o \in Inputs[b] THEN UndoCoin(b, o) ELSE Seen(e, c)
  BY AddAfterHave, UndoFacts
<1>2. UndoEntry(e, c, b, o) = IF o \in Outputs[b] THEN s ELSE r
  BY Zenon DEF UndoEntry
<1> HIDE DEF r
<1>3. s \in Entry /\ EntrySound(s, c) /\ Seen(s, c) = Spent
  BY <1>1, EntryTypes, SpendSeen, Zenon
<1> HIDE DEF s
<1> QED
  BY <1>1, <1>2, <1>3, UndoFacts

(* Redoing a block at one outpoint, whatever coin is there.                *)
LEMMA RedoSeen ==
    ASSUME NEW e \in Entry, NEW c \in Coin, EntrySound(e, c),
           NEW b \in NonGenesis, NEW o \in Outpoints
    PROVE  /\ RedoEntry(e, c, b, o) \in Entry
           /\ EntrySound(RedoEntry(e, c, b, o), c)
           /\ Seen(RedoEntry(e, c, b, o), c) =
                 IF o \in Inputs[b] \cup Outputs[b] THEN Utxo[b][o] ELSE Seen(e, c)
<1> DEFINE f == FetchEntry(e, c)
           r == IF o \in Outputs[b] THEN AddEntry(f, Height[b], Seen(f, c) # Spent)
                                    ELSE e
           s == SpendEntry(FetchEntry(r, c))
<1>1. /\ r \in Entry /\ EntrySound(r, c)
      /\ Seen(r, c) = IF o \in Outputs[b] THEN Height[b] ELSE Seen(e, c)
  BY AddAfterHave, UndoFacts
<1>2. RedoEntry(e, c, b, o) = IF o \in Inputs[b] THEN s ELSE r
  BY Zenon DEF RedoEntry
<1> HIDE DEF r
<1>3. s \in Entry /\ EntrySound(s, c) /\ Seen(s, c) = Spent
  BY <1>1, EntryTypes, SpendSeen, Zenon
<1> HIDE DEF s
<1> QED
  BY <1>1, <1>2, <1>3, UtxoFacts, Zenon

(* Connecting a block at one outpoint.                                     *)
LEMMA ConnectSeen ==
    ASSUME NEW e \in Entry, NEW c \in Coin, EntrySound(e, c),
           NEW b \in NonGenesis, NEW o \in Outpoints,
           Seen(e, c) = Utxo[Parent[b]][o]
    PROVE  /\ ConnectEntry(e, c, b, o) \in Entry
           /\ EntrySound(ConnectEntry(e, c, b, o), c)
           /\ Seen(ConnectEntry(e, c, b, o), c) = Utxo[b][o]
<1> DEFINE s     == Seen(e, c)
           cb    == o \in Coinbase
           added == IF o \in Outputs[b] THEN AddEntry(NoEntry, Height[b], cb) ELSE NoEntry
           spent == SpendEntry(FetchEntry(added, s))
           child == IF o \in Inputs[b] THEN spent ELSE added
           p     == IF o \in Inputs[b] \ Outputs[b] THEN FetchEntry(e, c) ELSE e
<1>1. s \in Coin /\ cb \in BOOLEAN /\ NoEntry \in Entry
  BY EntryTypes DEF Entry
<1>2. EntrySound(NoEntry, s) /\ Seen(NoEntry, s) = s /\ Found(NoEntry).coin = Spent
  BY Zenon DEF EntrySound, Seen, Found, NewEntry
<1>3. /\ added \in Entry /\ EntrySound(added, s)
      /\ Seen(added, s) = IF o \in Outputs[b] THEN Height[b] ELSE s
  <2>1. CASE o \in Outputs[b]
    <3>1. s = Spent
      BY <2>1, UndoFacts, Zenon
    <3>2. Height[b] \in Coins /\ Height[b] \notin Unspendable
      BY UndoFacts, Zenon
    <3> HIDE DEF s, cb
    <3> QED
      BY <1>1, <1>2, <2>1, <3>1, <3>2, AddSeen
  <2>2. CASE o \notin Outputs[b]
    BY <1>1, <1>2, <2>2, Zenon
  <2> QED
    BY <2>1, <2>2, Zenon
<1>4. /\ p \in Entry /\ EntrySound(p, c) /\ Seen(p, c) = s
  BY EntryTypes, FetchSeen, Zenon
<1>5. ConnectEntry(e, c, b, o) = MergeEntry(child, p)
  BY Zenon DEF ConnectEntry
<1> HIDE DEF added, p, s
<1>6. spent \in Entry /\ EntrySound(spent, s) /\ Seen(spent, s) = Spent
  BY <1>1, <1>3, EntryTypes, SpendSeen, Zenon
<1> HIDE DEF spent
<1>7. /\ child \in Entry /\ EntrySound(child, s)
      /\ Seen(child, s) = IF o \in Inputs[b] THEN Spent
                          ELSE IF o \in Outputs[b] THEN Height[b] ELSE s
  BY <1>3, <1>6, Zenon
<1>8. s = Utxo[Parent[b]][o]
  BY Zenon DEF s
<1> HIDE DEF child
<1>9. /\ MergeEntry(child, p) \in Entry
      /\ EntrySound(MergeEntry(child, p), c)
      /\ Seen(MergeEntry(child, p), c) = Seen(child, s)
  BY <1>4, <1>7, EntryTypes, MergeSeen, SMTT(30)
<1> QED
  BY <1>5, <1>7, <1>8, <1>9, UtxoFacts, Zenon

(* Disconnecting a block at one outpoint.                                  *)
DisconnectEntry(e, c, b, o) ==
    MergeEntry(UndoEntry(NoEntry, Seen(e, c), b, o),
               IF o \in Inputs[b] \cup Outputs[b] THEN FetchEntry(e, c) ELSE e)

LEMMA DisconnectSeen ==
    ASSUME NEW e \in Entry, NEW c \in Coin, EntrySound(e, c),
           NEW b \in NonGenesis, NEW o \in Outpoints,
           Seen(e, c) = Utxo[b][o]
    PROVE  /\ DisconnectEntry(e, c, b, o) \in Entry
           /\ EntrySound(DisconnectEntry(e, c, b, o), c)
           /\ Seen(DisconnectEntry(e, c, b, o), c) = Utxo[Parent[b]][o]
<1> DEFINE s == Seen(e, c)
           u == UndoEntry(NoEntry, s, b, o)
           p == IF o \in Inputs[b] \cup Outputs[b] THEN FetchEntry(e, c) ELSE e
<1>1. s \in Coin /\ NoEntry \in Entry /\ EntrySound(NoEntry, s) /\ Seen(NoEntry, s) = s
  BY EntryTypes, Zenon DEF Entry, EntrySound, Seen
<1>2. p \in Entry /\ EntrySound(p, c) /\ Seen(p, c) = s
  BY EntryTypes, FetchSeen, Zenon
<1>3. /\ u \in Entry /\ EntrySound(u, s)
      /\ Seen(u, s) = IF o \in Inputs[b] \cup Outputs[b] THEN Utxo[Parent[b]][o] ELSE s
  <2> HIDE DEF s
  <2> QED
    BY <1>1, UndoSeen
<1>4. DisconnectEntry(e, c, b, o) = MergeEntry(u, p)
  BY Zenon DEF DisconnectEntry
<1>5. Seen(u, s) = Utxo[Parent[b]][o]
  BY <1>3, UtxoFacts, Zenon
<1> HIDE DEF u, p, s
<1> QED
  BY <1>2, <1>3, <1>4, <1>5, EntryTypes, MergeSeen
-----------------------------------------------------------------------------
(* The inductive invariant.                                                *)

(* CoinsOfBest and InTransition, of any state of the coin database.        *)
DbSound(coins, top, heads) ==
    IF heads = <<>> THEN coins = CoinsAt(top)
    ELSE /\ top = NullHash
         /\ \A o \in Outpoints : coins[o] \in {CoinsAt(heads[1])[o], CoinsAt(heads[2])[o]}

(* Also the states that a loss of power can bring back.                    *)
LogSound ==
    \A i \in 1 .. Len(dbLog) : DbSound(dbLog[i].coins, dbLog[i].best, dbLog[i].heads)

Up == {"running", "index", "unlink", "coins", "replayed"}

(* pcoinsTip shows the tip, above a database in one piece or on its way to *)
(* the tip.                                                                *)
UpSound ==
    pc \in Up =>
        /\ best \in Blocks
        /\ View(cache, db) = Utxo[best]
        /\ pc \in {"running", "index", "unlink"} => dbHeads = <<>>
        /\ dbHeads # <<>> => dbHeads[1] = best

(* The replay's view: a coin is the one of the block it is at, or already  *)
(* the one of the block it is going to.                                    *)
ReplaySound ==
    pc = "replay" =>
        /\ dbHeads # <<>> /\ cursor \in Blocks
        /\ \A o \in Outpoints :
              View(cache, db)[o] \in {Utxo[cursor][o], Utxo[dbHeads[1]][o]}

CoinsSound ==
    /\ DbSound(db, dbBest, dbHeads)
    /\ LogSound
    /\ FlagsSound(cache, db)
    /\ UpSound
    /\ pc = "down" => cache = EmptyCache
    /\ ReplaySound

IndInv == TypeOK /\ CoinsSound

(* The parts of vars.                                                      *)
USE DEF coinsDb, blockDb, files, blockMem, coinsMem

LEMMA InitInv == Init => IndInv
<1> SUFFICES ASSUME Init PROVE IndInv
  BY Zenon
<1>1. db \in Views /\ db = CoinsAt(dbBest) /\ db = Utxo[Genesis]
  BY UtxoAssumption DEF Init, Views, CoinsAt
<1>2. /\ EmptyCache \in Caches /\ View(EmptyCache, db) = db /\ FlagsSound(EmptyCache, db)
  BY <1>1, EmptyView, Zenon
<1>3. dbLog \in Seq([coins : Views, best : MaybeBlock, heads : Heads]) /\ Len(dbLog) = 0
  BY DEF Init
<1>4. TypeOK
  BY <1>1, <1>2, <1>3, Zenon DEF Init, TypeOK, MaybeBlock, Heads, Flags, PCs, NoPlan
<1>5. CoinsSound
  BY <1>1, <1>2, <1>3, SMTT(30) DEF Init, CoinsSound, DbSound, LogSound, UpSound, ReplaySound
<1> QED
  BY <1>4, <1>5, Zenon DEF IndInv

(* Steps that leave the coins alone.                                       *)
LEMMA CoinsUnchanged ==
    ASSUME CoinsSound, UNCHANGED <<coinsDb, coinsMem, cursor>>,
           \/ pc' = pc
           \/ pc' = "aborted"
           \/ pc \in {"running", "index", "unlink"} /\ pc' \in Up
    PROVE  CoinsSound'
BY ZenonT(60) DEF CoinsSound, DbSound, LogSound, UpSound, ReplaySound, View, FlagsSound, CoinsAt, Up

LEMMA AcceptBlockInv ==
    ASSUME IndInv, NEW b \in Blocks, NEW newFile \in BOOLEAN, AcceptBlock(b, newFile)
    PROVE  IndInv'
<1>1. CoinsSound'
  BY CoinsUnchanged, Zenon DEF IndInv, AcceptBlock
<1>2. mem' \in Flags
  BY Zenon DEF IndInv, TypeOK, AcceptBlock, Flags
<1>3. lastFile' \in Nat /\ fileOf' \in [Blocks -> Nat]
  BY DEF IndInv, TypeOK, AcceptBlock, FindBlockPos
<1>4. blk' \in SUBSET Blocks /\ blkSafe' \in SUBSET blk' /\ revSafe' \in SUBSET rev
  BY Zenon DEF IndInv, TypeOK, AcceptBlock, FindBlockPos, InFile
<1>5. TypeOK'
  BY <1>2, <1>3, <1>4, Zenon DEF IndInv, TypeOK, AcceptBlock, FindBlockPos
<1> QED
  BY <1>1, <1>5, Zenon DEF IndInv

LEMMA AbortNodeInv ==
    ASSUME IndInv, AbortNode
    PROVE  IndInv'
<1>1. CoinsSound'
  BY CoinsUnchanged, Zenon DEF IndInv, AbortNode
<1>2. TypeOK'
  BY Zenon DEF IndInv, TypeOK, AbortNode, PCs
<1> QED
  BY <1>1, <1>2, Zenon DEF IndInv

LEMMA BeginFlushInv ==
    ASSUME IndInv, NEW p \in Flushes, BeginFlush(p)
    PROVE  IndInv'
<1>1. CoinsSound'
  BY CoinsUnchanged, Zenon DEF IndInv, BeginFlush, FirstWrite, Up
<1>2. p \in [prune : SUBSET Nat, full : BOOLEAN]
  <2>1. \A m, h : FilesToPrune(m, h) \in SUBSET Nat
    BY DEF IndInv, TypeOK, FilesToPrune
  <2>2. CASE p \in {[prune |-> {}, full |-> full] : full \in BOOLEAN}
    BY <2>2
  <2>3. CASE PruneMode /\ p \in {[prune |-> FilesToPrune(m, h), full |-> TRUE] :
                        m \in 0 .. MaxFile, h \in {Height[b] : b \in Blocks}}
    <3>1. PICK m \in 0 .. MaxFile, h \in {Height[b] : b \in Blocks} :
              p = [prune |-> FilesToPrune(m, h), full |-> TRUE]
      BY <2>3
    <3> QED
      BY <2>1, <3>1, Zenon
  <2> QED
    BY <2>2, <2>3, SMTT(30) DEF Flushes
<1>3. mem' \in Flags /\ dirty' \in SUBSET Blocks
  BY Zenon DEF IndInv, TypeOK, BeginFlush, Flags
<1>4. TypeOK'
  BY <1>2, <1>3, Zenon DEF IndInv, TypeOK, BeginFlush, FirstWrite, FlushBlockFile, InFile, PCs
<1> QED
  BY <1>1, <1>4, Zenon DEF IndInv

LEMMA WriteBatchSyncInv ==
    ASSUME IndInv, WriteBatchSync
    PROVE  IndInv'
<1>1. CoinsSound'
  BY CoinsUnchanged, Zenon DEF IndInv, WriteBatchSync, AfterIndex, Up
<1>2. disk' \in Flags
  BY Zenon DEF IndInv, TypeOK, WriteBatchSync, Flags
<1>3. TypeOK'
  BY <1>2, Zenon DEF IndInv, TypeOK, WriteBatchSync, AfterIndex, PCs
<1> QED
  BY <1>1, <1>3, Zenon DEF IndInv

LEMMA UnlinkPrunedFilesInv ==
    ASSUME IndInv, UnlinkPrunedFiles
    PROVE  IndInv'
<1>1. CoinsSound'
  BY CoinsUnchanged, Zenon DEF IndInv, UnlinkPrunedFiles, Up
<1>2. TypeOK'
  BY Zenon DEF IndInv, TypeOK, UnlinkPrunedFiles, PCs
<1> QED
  BY <1>1, <1>2, Zenon DEF IndInv

(* A cache is known by its entries.                                        *)
LEMMA CacheByEntry ==
    ASSUME NEW c, NEW v \in Views, NEW base \in Views,
           c = [o \in Outpoints |-> c[o]],
           \A o \in Outpoints : c[o] \in Entry /\ EntrySound(c[o], base[o])
                                 /\ Seen(c[o], base[o]) = v[o]
    PROVE  c \in Caches /\ FlagsSound(c, base) /\ View(c, base) = v
<1>1. c \in Caches /\ FlagsSound(c, base)
  BY Zenon DEF Caches, FlagsSound, Entry
<1>2. View(c, base) = v
  BY Zenon DEF View, Views
<1> QED
  BY <1>1, <1>2, Zenon

(* The entries of a cache that shows a tip.                                *)
LEMMA TipEntries ==
    ASSUME IndInv, pc \in Up, NEW o \in Outpoints
    PROVE  /\ cache[o] \in Entry /\ db[o] \in Coin /\ EntrySound(cache[o], db[o])
           /\ Seen(cache[o], db[o]) = Utxo[best][o]
BY ViewType, SMTT(30) DEF IndInv, TypeOK, CoinsSound, UpSound, FlagsSound

(* A new cache for a new tip.                                              *)
LEMMA NewTip ==
    ASSUME IndInv, pc = "running", pc' = pc, UNCHANGED <<coinsDb, cursor>>,
           best' \in Blocks,
           cache' = [o \in Outpoints |-> cache'[o]],
           \A o \in Outpoints : cache'[o] \in Entry /\ EntrySound(cache'[o], db[o])
                                 /\ Seen(cache'[o], db[o]) = Utxo[best'][o]
    PROVE  cache' \in Caches /\ CoinsSound'
<1>1. Utxo[best'] \in Views /\ db \in Views
  BY UtxoFacts, Zenon DEF IndInv, TypeOK
<1>2. cache' \in Caches /\ FlagsSound(cache', db) /\ View(cache', db) = Utxo[best']
  BY <1>1, CacheByEntry, Zenon
<1>3. DbSound(db, dbBest, dbHeads)' /\ LogSound'
  BY ZenonT(60) DEF IndInv, CoinsSound, DbSound, LogSound, CoinsAt
<1>4. FlagsSound(cache, db)' /\ UpSound' /\ ReplaySound'
  BY <1>2, Zenon DEF IndInv, CoinsSound, UpSound, Up, ReplaySound, FlagsSound, View
<1> QED
  BY <1>2, <1>3, <1>4, Zenon DEF CoinsSound

LEMMA ConnectTipInv ==
    ASSUME IndInv, NEW b \in Blocks, ConnectTip(b)
    PROVE  IndInv'
<1>1. best \in Blocks /\ pc \in Up
  BY Zenon DEF IndInv, CoinsSound, UpSound, ConnectTip, Up
<1>2. b \in NonGenesis
  BY <1>1, Zenon DEF ConnectTip, NonGenesis
<1>3. ASSUME NEW o \in Outpoints
      PROVE  LET e == ConnectEntry(cache[o], db[o], b, o)
             IN  e \in Entry /\ EntrySound(e, db[o]) /\ Seen(e, db[o]) = Utxo[b][o]
  BY <1>1, <1>2, TipEntries, ConnectSeen, SMTT(30) DEF ConnectTip
<1>4. cache' \in Caches /\ CoinsSound'
  <2>1. /\ cache' = [o \in Outpoints |-> cache'[o]]
        /\ \A o \in Outpoints : cache'[o] = ConnectEntry(cache[o], db[o], b, o)
    BY Zenon DEF ConnectTip
  <2> QED
    BY <1>3, <2>1, NewTip, Zenon DEF ConnectTip
<1>5. mem' \in Flags
  BY Zenon DEF IndInv, TypeOK, ConnectTip, WriteUndoDataForBlock, Flags
<1>6. rev' \in SUBSET Blocks /\ revSafe' \in SUBSET rev' /\ dirty' \in SUBSET Blocks
  BY Zenon DEF IndInv, TypeOK, ConnectTip, WriteUndoDataForBlock
<1>7. TypeOK'
  BY <1>4, <1>5, <1>6, Zenon DEF IndInv, TypeOK, ConnectTip, MaybeBlock
<1> QED
  BY <1>4, <1>7, Zenon DEF IndInv

LEMMA DisconnectTipInv ==
    ASSUME IndInv, DisconnectTip
    PROVE  IndInv'
<1>1. best \in NonGenesis /\ pc \in Up /\ Parent[best] \in Blocks
  BY Zenon DEF IndInv, CoinsSound, UpSound, DisconnectTip, Up, NonGenesis
<1>2. ASSUME NEW o \in Outpoints
      PROVE  LET e == DisconnectEntry(cache[o], db[o], best, o)
             IN  /\ e \in Entry /\ EntrySound(e, db[o])
                 /\ Seen(e, db[o]) = Utxo[Parent[best]][o]
  BY <1>1, TipEntries, DisconnectSeen
<1>3. cache' \in Caches /\ CoinsSound'
  <2>1. /\ cache' = [o \in Outpoints |-> cache'[o]]
        /\ \A o \in Outpoints : cache'[o] = DisconnectEntry(cache[o], db[o], best, o)
    BY Zenon DEF DisconnectTip, DisconnectEntry
  <2> QED
    BY <1>1, <1>2, <2>1, NewTip, SMTT(30) DEF DisconnectTip
<1>4. TypeOK'
  BY <1>1, <1>3, Zenon DEF IndInv, TypeOK, DisconnectTip, MaybeBlock
<1> QED
  BY <1>3, <1>4, Zenon DEF IndInv
-----------------------------------------------------------------------------
(* The coin batches.                                                       *)

LEMMA LogBatchInv ==
    ASSUME IndInv, LogBatch
    PROVE  /\ dbLog' \in Seq([coins : Views, best : MaybeBlock, heads : Heads])
           /\ LogSound'
<1> DEFINE st  == [coins |-> db, best |-> dbBest, heads |-> dbHeads]
           St  == [coins : Views, best : MaybeBlock, heads : Heads]
           log == Append(dbLog, st)
<1>1. st \in St /\ dbLog \in Seq(St) /\ DbSound(st.coins, st.best, st.heads)
  BY Zenon DEF IndInv, TypeOK, CoinsSound
<1>2. \A i \in 1 .. Len(dbLog) : DbSound(dbLog[i].coins, dbLog[i].best, dbLog[i].heads)
  BY Zenon DEF IndInv, CoinsSound, LogSound
<1> HIDE DEF st, St
<1>3. /\ log \in Seq(St) /\ Len(log) = Len(dbLog) + 1
      /\ \A i \in 1 .. Len(log) : log[i] = IF i <= Len(dbLog) THEN dbLog[i] ELSE st
  BY <1>1
<1>4. \A i \in 1 .. Len(log) : DbSound(log[i].coins, log[i].best, log[i].heads)
  BY <1>1, <1>2, <1>3
<1> HIDE DEF log
<1>5. /\ Tail(log) \in Seq(St) /\ Len(Tail(log)) = Len(log) - 1
      /\ \A i \in 1 .. Len(Tail(log)) : Tail(log)[i] = log[i + 1] /\ i + 1 \in 1 .. Len(log)
  BY <1>1, <1>3
<1>6. \A i \in 1 .. Len(Tail(log)) :
          DbSound(Tail(log)[i].coins, Tail(log)[i].best, Tail(log)[i].heads)
  BY <1>4, <1>5, Zenon
<1>7. dbLog' \in {<<>>, log, Tail(log)}
  BY Zenon DEF LogBatch, log, st
<1>8. /\ dbLog' \in Seq(St)
      /\ \A i \in 1 .. Len(dbLog') : DbSound(dbLog'[i].coins, dbLog'[i].best, dbLog'[i].heads)
  <2>1. CASE dbLog' = <<>>
    BY <2>1
  <2>2. CASE dbLog' = log
    BY <1>3, <1>4, <2>2, Zenon
  <2>3. CASE dbLog' = Tail(log)
    BY <1>5, <1>6, <2>3, Zenon
  <2> QED
    BY <1>7, <2>1, <2>2, <2>3, Zenon
<1> QED
  BY <1>8, Zenon DEF St, LogSound, DbSound, CoinsAt

(* The two tips of the transition that a batch belongs to.                 *)
LEMMA OldTipFacts ==
    ASSUME IndInv, pc \in {"coins", "replayed"}
    PROVE  /\ OldTip \in MaybeBlock /\ best \in Blocks
           /\ <<best, OldTip>> \in Heads /\ <<best, OldTip>> # <<>>
           /\ \A o \in Outpoints : db[o] \in {Utxo[best][o], CoinsAt(OldTip)[o]}
<1>1. best \in Blocks /\ (dbHeads # <<>> => dbHeads[1] = best)
  BY Zenon DEF IndInv, CoinsSound, UpSound, Up
<1>2. dbHeads # <<>> => dbHeads \in Blocks \X MaybeBlock
  BY Zenon DEF IndInv, TypeOK, Heads
<1>3. OldTip \in MaybeBlock
  BY <1>2, Zenon DEF IndInv, TypeOK, OldTip, MaybeBlock
<1>4. <<best, OldTip>> \in Heads /\ <<best, OldTip>> # <<>>
  BY <1>1, <1>3, Zenon DEF Heads
<1>5. CASE dbHeads = <<>>
  <2>1. db = CoinsAt(dbBest) /\ OldTip = dbBest
    BY <1>5, Zenon DEF IndInv, CoinsSound, DbSound, OldTip
  <2> QED
    BY <1>1, <1>3, <1>4, <2>1, Zenon
<1>6. CASE dbHeads # <<>>
  <2>1. /\ dbBest = NullHash /\ OldTip = dbHeads[2]
        /\ \A o \in Outpoints : db[o] \in {CoinsAt(dbHeads[1])[o], CoinsAt(dbHeads[2])[o]}
    BY <1>6, Zenon DEF IndInv, CoinsSound, DbSound, OldTip
  <2>2. CoinsAt(dbHeads[1]) = Utxo[best]
    BY <1>1, <1>6, Zenon DEF CoinsAt
  <2> QED
    BY <1>1, <1>3, <1>4, <2>1, <2>2, Zenon
<1> QED
  BY <1>5, <1>6, Zenon

LEMMA WritePartialInv ==
    ASSUME IndInv, NEW S \in SUBSET Outpoints, WritePartial(S)
    PROVE  IndInv'
<1>1. pc \in Up /\ pc \in {"coins", "replayed"} /\ best \in Blocks
  BY OldTipFacts, Zenon DEF WritePartial, Up
<1>2. ASSUME NEW o \in Outpoints
      PROVE  /\ cache'[o] \in Entry /\ EntrySound(cache'[o], db'[o])
             /\ Seen(cache'[o], db'[o]) = Utxo[best][o]
             /\ db'[o] \in {db[o], Utxo[best][o]} /\ db'[o] \in Coin
  <2>1. /\ cache[o] \in Entry /\ db[o] \in Coin /\ EntrySound(cache[o], db[o])
        /\ Seen(cache[o], db[o]) = Utxo[best][o]
    BY <1>1, TipEntries, Zenon
  <2>2. CASE o \in S
    <3>1. cache[o] # NoEntry /\ cache'[o] = NoEntry /\ db'[o] = DbEntry(cache[o], db[o])
      BY <2>2, Zenon DEF WritePartial
    <3>2. DbEntry(cache[o], db[o]) = Seen(cache[o], db[o])
      BY <2>1, <3>1, Zenon DEF DbEntry, Seen, EntrySound
    <3>3. Utxo[best][o] \in Coin
      BY <1>1, UtxoFacts, Zenon
    <3> QED
      BY <2>1, <3>1, <3>2, <3>3, Zenon DEF Entry, EntrySound, Seen
  <2>3. CASE o \notin S
    BY <2>1, <2>3, Zenon DEF WritePartial
  <2> QED
    BY <2>2, <2>3, Zenon
<1>3. db' \in Views /\ db' = [o \in Outpoints |-> db'[o]]
  <2>1. db' = [o \in Outpoints |-> IF o \in S THEN DbEntry(cache[o], db[o]) ELSE db[o]]
    BY Zenon DEF WritePartial
  <2>2. \A o \in Outpoints : db'[o] \in Coin
    BY <1>2, Zenon
  <2> QED
    BY <2>1, <2>2, Zenon DEF Views, Coin
<1>4. cache' \in Caches /\ FlagsSound(cache', db') /\ View(cache', db') = Utxo[best]
  <2>1. cache' = [o \in Outpoints |-> cache'[o]]
    BY Zenon DEF WritePartial
  <2>2. Utxo[best] \in Views
    BY <1>1, UtxoFacts, Zenon
  <2> QED
    BY <1>2, <1>3, <2>1, <2>2, CacheByEntry
<1>5. /\ dbBest' = NullHash /\ dbHeads' = <<best, OldTip>> /\ dbHeads' # <<>>
      /\ dbHeads' \in Heads /\ dbHeads'[1] = best /\ dbHeads'[2] = OldTip
  BY <1>1, OldTipFacts, Zenon DEF WritePartial, MarkTransition
<1>6. DbSound(db', dbBest', dbHeads')
  <2>1. \A o \in Outpoints : db'[o] \in {Utxo[best][o], CoinsAt(OldTip)[o]}
    BY <1>1, <1>2, OldTipFacts, Zenon
  <2>2. CoinsAt(best) = Utxo[best]
    BY <1>1, Zenon DEF CoinsAt
  <2> QED
    BY <1>5, <2>1, <2>2, Zenon DEF DbSound
<1>7. /\ dbLog' \in Seq([coins : Views, best : MaybeBlock, heads : Heads])
      /\ LogSound'
  BY LogBatchInv, Zenon DEF WritePartial
<1>8. TypeOK'
  BY <1>3, <1>4, <1>5, <1>7, Zenon DEF IndInv, TypeOK, WritePartial, MaybeBlock
<1>9. UNCHANGED <<best, pc>>
  BY Zenon DEF WritePartial
<1>10. CoinsSound'
  <2>1. DbSound(db, dbBest, dbHeads)' /\ FlagsSound(cache, db)' /\ View(cache, db)' = Utxo[best]
    BY <1>4, <1>6, Zenon DEF DbSound, CoinsAt, FlagsSound, View
  <2>2. UpSound' /\ ReplaySound' /\ (pc = "down" => cache = EmptyCache)'
    BY <1>1, <1>5, <1>9, <2>1, Zenon DEF UpSound, ReplaySound
  <2> QED
    BY <1>7, <2>1, <2>2, Zenon DEF CoinsSound
<1> QED
  BY <1>8, <1>10, Zenon DEF IndInv

LEMMA WriteFinalInv ==
    ASSUME IndInv, WriteFinal
    PROVE  IndInv'
<1>1. pc \in Up /\ best \in Blocks
  BY OldTipFacts, Zenon DEF WriteFinal, Up
<1>2. cache \in Caches /\ db \in Views /\ FlagsSound(cache, db) /\ View(cache, db) = Utxo[best]
  BY <1>1, Zenon DEF IndInv, TypeOK, CoinsSound, UpSound
<1>3. db' = Utxo[best] /\ db' \in Views /\ db' = CoinsAt(best)
  BY <1>1, <1>2, DbWriteView, UtxoFacts, SMTT(30) DEF WriteFinal, CoinsAt
<1>4. cache' \in Caches /\ View(cache', db') = Utxo[best] /\ FlagsSound(cache', db')
  BY <1>3, EmptyView, Zenon DEF WriteFinal
<1>5. /\ dbLog' \in Seq([coins : Views, best : MaybeBlock, heads : Heads])
      /\ LogSound'
  BY LogBatchInv, Zenon DEF WriteFinal
<1>6. TypeOK'
  BY <1>1, <1>3, <1>4, <1>5, Zenon DEF IndInv, TypeOK, WriteFinal, MaybeBlock, Heads, NoPlan, PCs
<1>7. dbHeads' = <<>> /\ dbBest' = best /\ best' = best /\ pc' = "running"
  BY Zenon DEF WriteFinal
<1>8. CoinsSound'
  <2>1. DbSound(db, dbBest, dbHeads)' /\ FlagsSound(cache, db)'
    BY <1>3, <1>4, <1>7, Zenon DEF DbSound, CoinsAt, FlagsSound
  <2>2. UpSound' /\ ReplaySound' /\ (pc = "down" => cache = EmptyCache)'
    BY <1>1, <1>4, <1>7, Zenon DEF UpSound, ReplaySound, View
  <2> QED
    BY <1>5, <2>1, <2>2, Zenon DEF CoinsSound
<1> QED
  BY <1>6, <1>8, Zenon DEF IndInv
-----------------------------------------------------------------------------
(* Crash, startup and replay.                                              *)

LEMMA CrashInv ==
    ASSUME IndInv, Crash
    PROVE  IndInv'
<1>1. /\ db' \in Views /\ dbBest' \in MaybeBlock /\ dbHeads' \in Heads
      /\ DbSound(db', dbBest', dbHeads')
  <2>1. CASE UNCHANGED <<db, dbBest, dbHeads>>
    BY <2>1, Zenon DEF IndInv, TypeOK, CoinsSound, DbSound, CoinsAt
  <2>2. CASE \E i \in DOMAIN dbLog : /\ db' = dbLog[i].coins
                                     /\ dbBest' = dbLog[i].best
                                     /\ dbHeads' = dbLog[i].heads
    <3>1. PICK i \in DOMAIN dbLog : /\ db' = dbLog[i].coins
                                    /\ dbBest' = dbLog[i].best
                                    /\ dbHeads' = dbLog[i].heads
      BY <2>2, Zenon
    <3> DEFINE St == [coins : Views, best : MaybeBlock, heads : Heads]
    <3>2. dbLog \in Seq(St)
      BY Zenon DEF IndInv, TypeOK
    <3>3. i \in 1 .. Len(dbLog) /\ dbLog[i] \in St
      <4> HIDE DEF St
      <4> QED
        BY <3>2
    <3>4. DbSound(dbLog[i].coins, dbLog[i].best, dbLog[i].heads)
      BY <3>3, Zenon DEF IndInv, CoinsSound, LogSound
    <3> QED
      BY <3>1, <3>3, <3>4, Zenon
  <2> QED
    BY <2>1, <2>2, Zenon DEF Crash
<1>2. cache' = EmptyCache /\ cache' \in Caches /\ FlagsSound(cache', db')
  BY <1>1, EmptyView, Zenon DEF Crash
<1>3. dbLog' = <<>> /\ pc' = "down"
  BY Zenon DEF Crash
<1>4. /\ blk' \in SUBSET Blocks /\ rev' \in SUBSET Blocks
      /\ blkSafe' = blk' /\ revSafe' = rev'
  BY Zenon DEF IndInv, TypeOK, Crash
<1>5. TypeOK'
  <2>1. dbLog' \in Seq([coins : Views, best : MaybeBlock, heads : Heads])
    BY <1>3
  <2> QED
    BY <1>1, <1>2, <1>3, <1>4, <2>1, SMTT(30) DEF IndInv, TypeOK, Crash, LoadBlockIndexDB, MaybeBlock, NoPlan, PCs
<1>6. CoinsSound'
  <2>1. DbSound(db, dbBest, dbHeads)' /\ FlagsSound(cache, db)'
    BY <1>1, <1>2, Zenon DEF DbSound, CoinsAt, FlagsSound
  <2>2. LogSound'
    BY <1>3 DEF LogSound
  <2> QED
    BY <1>2, <1>3, <2>1, <2>2, Zenon DEF CoinsSound, UpSound, Up, ReplaySound
<1> QED
  BY <1>5, <1>6, Zenon DEF IndInv

(* LoadBlockIndex keeps the types.                                         *)
LEMMA LoadBlockIndexType ==
    ASSUME TypeOK, LoadBlockIndex
    PROVE  /\ mem' \in Flags /\ dirty' \in SUBSET Blocks
           /\ blk' \in SUBSET Blocks /\ blkSafe' \in SUBSET blk'
           /\ fileOf' \in [Blocks -> Nat]
<1>1. CASE Genesis \in disk.known
  BY <1>1, Zenon DEF TypeOK, LoadBlockIndex
<1>2. CASE Genesis \notin disk.known
  <2>1. /\ mem' = [mem EXCEPT !.known = @ \cup {Genesis}, !.data = @ \cup {Genesis}]
        /\ dirty' = {Genesis} /\ blk' = blk \cup {Genesis} /\ blkSafe' = blkSafe \ {Genesis}
        /\ fileOf' = [fileOf EXCEPT ![Genesis] = lastFile]
    BY <1>2, Zenon DEF LoadBlockIndex
  <2>2. mem \in Flags /\ fileOf \in [Blocks -> Nat] /\ lastFile \in Nat
    BY Zenon DEF TypeOK
  <2>3. mem' \in Flags
    BY <2>1, <2>2, Zenon DEF Flags
  <2>4. fileOf' \in [Blocks -> Nat]
    BY <2>1, <2>2, Zenon
  <2> QED
    BY <2>1, <2>3, <2>4, Zenon DEF TypeOK
<1> QED
  BY <1>1, <1>2, Zenon

LEMMA LoadChainTipInv ==
    ASSUME IndInv, LoadChainTip
    PROVE  IndInv'
<1>1. best' \in Blocks /\ Utxo[best'] = CoinsAt(dbBest)
  BY Zenon DEF IndInv, TypeOK, LoadChainTip, MaybeBlock, CoinsAt
<1>2. db \in Views /\ db = CoinsAt(dbBest) /\ cache = EmptyCache
  BY Zenon DEF IndInv, TypeOK, CoinsSound, DbSound, LoadChainTip
<1>3. View(cache, db) = Utxo[best']
  BY <1>1, <1>2, EmptyView, Zenon
<1>4. pc' \in {"running", "aborted"} /\ UNCHANGED <<coinsDb, cache, cursor>> /\ dbHeads = <<>>
  BY Zenon DEF LoadChainTip
<1>5. TypeOK'
  BY <1>1, <1>4, LoadBlockIndexType, SMTT(30) DEF IndInv, TypeOK, LoadChainTip, MaybeBlock, PCs
<1>6. CoinsSound'
  <2>1. DbSound(db, dbBest, dbHeads)' /\ LogSound' /\ FlagsSound(cache, db)'
    BY <1>4, ZenonT(60) DEF IndInv, CoinsSound, DbSound, LogSound, FlagsSound, CoinsAt
  <2> QED
    BY <1>1, <1>3, <1>4, <2>1, Zenon DEF CoinsSound, UpSound, Up, ReplaySound, View
<1> QED
  BY <1>5, <1>6, Zenon DEF IndInv

LEMMA HeadsFacts ==
    ASSUME IndInv, dbHeads # <<>>
    PROVE  /\ dbHeads[1] \in Blocks /\ dbHeads[2] \in MaybeBlock
           /\ \A o \in Outpoints : db[o] \in {Utxo[dbHeads[1]][o], CoinsAt(dbHeads[2])[o]}
<1>1. dbHeads[1] \in Blocks /\ dbHeads[2] \in MaybeBlock
  BY Zenon DEF IndInv, TypeOK, Heads
<1> QED
  BY <1>1, Zenon DEF IndInv, CoinsSound, DbSound, CoinsAt

LEMMA StartReplayInv ==
    ASSUME IndInv, StartReplay
    PROVE  IndInv'
<1>1. cursor' \in Blocks /\ Utxo[cursor'] = CoinsAt(dbHeads[2])
  BY HeadsFacts, Zenon DEF StartReplay, MaybeBlock, CoinsAt
<1>2. db \in Views /\ cache = EmptyCache
  BY Zenon DEF IndInv, TypeOK, CoinsSound, StartReplay
<1>3. \A o \in Outpoints : View(cache, db)[o] \in {Utxo[cursor'][o], Utxo[dbHeads[1]][o]}
  BY <1>1, <1>2, HeadsFacts, EmptyView, Zenon DEF StartReplay
<1>4. /\ pc' \in {"replay", "aborted"} /\ UNCHANGED <<coinsDb, coinsMem>>
      /\ dbHeads # <<>>
  BY Zenon DEF StartReplay
<1>5. TypeOK'
  BY <1>1, <1>4, LoadBlockIndexType, SMTT(30) DEF IndInv, TypeOK, StartReplay, MaybeBlock, PCs
<1>6. CoinsSound'
  <2>1. DbSound(db, dbBest, dbHeads)' /\ LogSound' /\ FlagsSound(cache, db)'
    BY <1>4, ZenonT(60) DEF IndInv, CoinsSound, DbSound, LogSound, FlagsSound, CoinsAt
  <2> QED
    BY <1>1, <1>3, <1>4, <2>1, Zenon DEF CoinsSound, UpSound, Up, ReplaySound, View
<1> QED
  BY <1>5, <1>6, Zenon DEF IndInv

(* One step of the replay, from the block at the cursor to a neighbour:    *)
(* the step sets the outpoints that the block touches to the coins of the  *)
(* neighbour, and the two agree on the others.                             *)
LEMMA ReplayMove ==
    ASSUME IndInv, pc = "replay", pc' = pc, UNCHANGED <<coinsDb, best>>,
           cursor' \in Blocks, NEW T \in SUBSET Outpoints,
           cache' = [o \in Outpoints |-> cache'[o]],
           \A o \in Outpoints : cache'[o] \in Entry /\ EntrySound(cache'[o], db[o]),
           \A o \in T : Seen(cache'[o], db[o]) = Utxo[cursor'][o],
           \A o \in Outpoints \ T : /\ Seen(cache'[o], db[o]) = Seen(cache[o], db[o])
                                     /\ Utxo[cursor'][o] = Utxo[cursor][o]
    PROVE  cache' \in Caches /\ CoinsSound'
<1>1. cache' \in Caches /\ FlagsSound(cache', db)
  BY Zenon DEF Caches, FlagsSound, Entry
<1>2. \A o \in Outpoints : View(cache', db)[o] \in {Utxo[cursor'][o], Utxo[dbHeads[1]][o]}
  BY Zenon DEF IndInv, CoinsSound, ReplaySound, View
<1>3. DbSound(db, dbBest, dbHeads)' /\ LogSound' /\ FlagsSound(cache, db)'
  BY <1>1, ZenonT(60) DEF IndInv, CoinsSound, DbSound, LogSound, FlagsSound, CoinsAt
<1>4. UpSound' /\ ReplaySound'
  BY <1>2, Zenon DEF IndInv, CoinsSound, UpSound, Up, ReplaySound, View
<1> QED
  BY <1>1, <1>3, <1>4, Zenon DEF CoinsSound

(* The entries of the replay's view.                                       *)
LEMMA ReplayEntries ==
    ASSUME IndInv, NEW o \in Outpoints
    PROVE  cache[o] \in Entry /\ db[o] \in Coin /\ EntrySound(cache[o], db[o])
BY ViewType, Zenon DEF IndInv, TypeOK, CoinsSound, FlagsSound

LEMMA RollbackBlockInv ==
    ASSUME IndInv, RollbackBlock
    PROVE  IndInv'
<1>1. CASE ~RollbackOk
  <2>1. CoinsSound'
    BY <1>1, CoinsUnchanged, Zenon DEF IndInv, RollbackBlock
  <2>2. TypeOK'
    BY <1>1, Zenon DEF IndInv, TypeOK, RollbackBlock, PCs
  <2> QED
    BY <2>1, <2>2, Zenon DEF IndInv
<1>2. CASE RollbackOk
  <2> DEFINE T == Inputs[cursor] \cup Outputs[cursor]
  <2>1. cursor \in NonGenesis /\ Parent[cursor] \in Blocks /\ cursor' = Parent[cursor]
    BY <1>2, Zenon DEF IndInv, CoinsSound, ReplaySound, RollbackBlock, NonGenesis
  <2>2. ASSUME NEW o \in Outpoints
        PROVE  /\ cache'[o] \in Entry /\ EntrySound(cache'[o], db[o])
               /\ Seen(cache'[o], db[o]) =
                     IF o \in T THEN Utxo[Parent[cursor]][o] ELSE Seen(cache[o], db[o])
    <3>1. cache'[o] = UndoEntry(cache[o], db[o], cursor, o)
      BY <1>2, Zenon DEF RollbackBlock
    <3> QED
      BY <2>1, <3>1, ReplayEntries, UndoSeen, SMTT(30)
  <2>3. \A o \in Outpoints \ T : Utxo[Parent[cursor]][o] = Utxo[cursor][o]
    BY <2>1, UtxoFacts, Zenon
  <2>4. T \in SUBSET Outpoints
    BY <2>1, OutpointsAssumption, Zenon DEF NonGenesis
  <2> HIDE DEF T
  <2>5. cache' \in Caches /\ CoinsSound'
    <3>1. cache' = [o \in Outpoints |-> cache'[o]]
      BY <1>2, Zenon DEF RollbackBlock
    <3>2. pc = "replay" /\ pc' = pc /\ UNCHANGED <<coinsDb, best>>
      BY <1>2, Zenon DEF RollbackBlock
    <3> QED
      BY <2>1, <2>2, <2>3, <2>4, <3>1, <3>2, ReplayMove, Zenon
  <2>6. TypeOK'
    BY <1>2, <2>1, <2>5, Zenon DEF IndInv, TypeOK, RollbackBlock, MaybeBlock
  <2> QED
    BY <2>5, <2>6, Zenon DEF IndInv
<1> QED
  BY <1>1, <1>2, Zenon

LEMMA RollforwardBlockInv ==
    ASSUME IndInv, NEW b \in Blocks, RollforwardBlock(b)
    PROVE  IndInv'
<1>1. CASE ~Readable(b)
  <2>1. CoinsSound'
    BY <1>1, CoinsUnchanged, Zenon DEF IndInv, RollforwardBlock
  <2>2. TypeOK'
    BY <1>1, Zenon DEF IndInv, TypeOK, RollforwardBlock, PCs
  <2> QED
    BY <2>1, <2>2, Zenon DEF IndInv
<1>2. CASE Readable(b)
  <2> DEFINE T == Inputs[b] \cup Outputs[b]
  <2>1. b \in NonGenesis /\ Parent[b] = cursor /\ cursor' = b
    BY <1>2, Zenon DEF IndInv, CoinsSound, ReplaySound, RollforwardBlock, NonGenesis
  <2>2. ASSUME NEW o \in Outpoints
        PROVE  /\ cache'[o] \in Entry /\ EntrySound(cache'[o], db[o])
               /\ Seen(cache'[o], db[o]) = IF o \in T THEN Utxo[b][o] ELSE Seen(cache[o], db[o])
    <3>1. cache'[o] = RedoEntry(cache[o], db[o], b, o)
      BY <1>2, Zenon DEF RollforwardBlock
    <3> QED
      BY <2>1, <3>1, ReplayEntries, RedoSeen, SMTT(30)
  <2>3. \A o \in Outpoints \ T : Utxo[b][o] = Utxo[cursor][o]
    BY <2>1, UtxoFacts, Zenon
  <2>4. T \in SUBSET Outpoints
    BY OutpointsAssumption, Zenon
  <2> HIDE DEF T
  <2>5. cache' \in Caches /\ CoinsSound'
    <3>1. cache' = [o \in Outpoints |-> cache'[o]]
      BY <1>2, Zenon DEF RollforwardBlock
    <3>2. pc = "replay" /\ pc' = pc /\ UNCHANGED <<coinsDb, best>>
      BY <1>2, Zenon DEF RollforwardBlock
    <3> QED
      BY <2>1, <2>2, <2>3, <2>4, <3>1, <3>2, ReplayMove, Zenon
  <2>6. TypeOK'
    BY <1>2, <2>1, <2>5, Zenon DEF IndInv, TypeOK, RollforwardBlock, MaybeBlock
  <2> QED
    BY <2>5, <2>6, Zenon DEF IndInv
<1> QED
  BY <1>1, <1>2, Zenon

LEMMA EndReplayInv ==
    ASSUME IndInv, EndReplay
    PROVE  IndInv'
<1>1. /\ cursor \in Blocks /\ dbHeads # <<>> /\ cursor = dbHeads[1]
      /\ \A o \in Outpoints : View(cache, db)[o] = Utxo[cursor][o]
  BY Zenon DEF IndInv, CoinsSound, ReplaySound, EndReplay
<1>2. View(cache, db) = Utxo[cursor]
  <2>1. View(cache, db) \in Views
    BY ViewType, Zenon DEF IndInv, TypeOK
  <2>2. Utxo[cursor] \in Views
    BY <1>1, UtxoFacts, Zenon
  <2> QED
    BY <1>1, <2>1, <2>2, SMTT(30) DEF Views
<1>3. best' = cursor /\ pc' = "replayed" /\ UNCHANGED <<coinsDb, cache>>
  BY Zenon DEF EndReplay
<1>4. TypeOK'
  BY <1>1, Zenon DEF IndInv, TypeOK, EndReplay, MaybeBlock, PCs
<1>5. CoinsSound'
  <2>1. DbSound(db, dbBest, dbHeads)' /\ LogSound' /\ FlagsSound(cache, db)'
    BY <1>3, ZenonT(60) DEF IndInv, CoinsSound, DbSound, LogSound, FlagsSound, CoinsAt
  <2> QED
    BY <1>1, <1>2, <1>3, <2>1, Zenon DEF CoinsSound, UpSound, Up, ReplaySound, View
<1> QED
  BY <1>4, <1>5, Zenon DEF IndInv
-----------------------------------------------------------------------------
LEMMA NextInv == IndInv /\ [Next]_vars => IndInv'
<1> SUFFICES ASSUME IndInv, [Next]_vars PROVE IndInv'
  BY Zenon
<1>1. ASSUME NEW b \in Blocks, NEW newFile \in BOOLEAN, AcceptBlock(b, newFile)
      PROVE  IndInv'
  BY <1>1, AcceptBlockInv, Zenon
<1>2. ASSUME NEW b \in Blocks, ConnectTip(b) PROVE IndInv'
  BY <1>2, ConnectTipInv, Zenon
<1>3. CASE DisconnectTip
  BY <1>3, DisconnectTipInv, Zenon
<1>4. CASE AbortNode
  BY <1>4, AbortNodeInv, Zenon
<1>5. ASSUME NEW p \in Flushes, BeginFlush(p) PROVE IndInv'
  BY <1>5, BeginFlushInv, Zenon
<1>6. CASE FlushStep
  BY <1>6, WriteBatchSyncInv, UnlinkPrunedFilesInv, WriteFinalInv, Zenon DEF FlushStep
<1>7. ASSUME NEW S \in SUBSET Outpoints, WritePartial(S) PROVE IndInv'
  BY <1>7, WritePartialInv, Zenon
<1>8. CASE Crash
  BY <1>8, CrashInv, Zenon
<1>9. CASE Startup
  BY <1>9, LoadChainTipInv, StartReplayInv, Zenon DEF Startup
<1>10. CASE ReplayStep
  BY <1>10, RollbackBlockInv, RollforwardBlockInv, EndReplayInv, Zenon DEF ReplayStep
<1>11. CASE UNCHANGED vars
  BY <1>11, ZenonT(60) DEF vars, IndInv, TypeOK, CoinsSound, DbSound, LogSound, UpSound, ReplaySound,
               View, FlagsSound, CoinsAt
<1> QED
  BY <1>1, <1>2, <1>3, <1>4, <1>5, <1>6, <1>7, <1>8, <1>9, <1>10, <1>11, Zenon DEF Next

LEMMA IndInvHolds == Spec => []IndInv
BY InitInv, NextInv, PTL DEF Spec

(* Everything on disk and in memory stays within its types.                *)
THEOREM TypeCorrect == Spec => []TypeOK
<1>1. IndInv => TypeOK
  BY Zenon DEF IndInv
<1> QED
  BY <1>1, IndInvHolds, PTL

(* A coin database that names its best block holds that block's coins,     *)
(* wherever a flush or a replay stopped and whatever a power loss undid.   *)
THEOREM BestCorrect == Spec => []CoinsOfBest
<1>1. IndInv => CoinsOfBest
  BY Zenon DEF IndInv, CoinsSound, DbSound, CoinsOfBest
<1> QED
  BY <1>1, IndInvHolds, PTL

(* Between two batches every coin is the old tip's or the new tip's.       *)
THEOREM TransitionCorrect == Spec => []InTransition
<1>1. IndInv => InTransition
  BY Zenon DEF IndInv, CoinsSound, DbSound, InTransition
<1> QED
  BY <1>1, IndInvHolds, PTL

(* A node that runs reads the coins of its tip through pcoinsTip, after    *)
(* any number of crashes, replays and crashes in replays.                  *)
THEOREM TipCorrect == Spec => []TipCoinsExact
<1>1. IndInv => TipCoinsExact
  BY Zenon DEF IndInv, CoinsSound, UpSound, Up, TipCoinsExact
<1> QED
  BY <1>1, IndInvHolds, PTL

(* assert(old_heads[0] == hashBlock) never fails.                          *)
THEOREM TransitionKept == Spec => []SameTransition
<1>1. IndInv => SameTransition
  BY Zenon DEF IndInv, CoinsSound, UpSound, Up, SameTransition
<1> QED
  BY <1>1, IndInvHolds, PTL

-----------------------------------------------------------------------------
(* Without pruning, no crash leaves the coin database with a block that    *)
(* the block tree database and the files do not have, and no startup fails *)
(* for one.  FlushBlockFile commits the last block file and its undo file  *)
(* only: a loss of power is covered when there is one block file, the end  *)
(* of the process always.                                                  *)

NothingPruned == ~PruneMode /\ (PowerLoss => MaxFile = 0)

(* The data and undo data of a block and of all blocks below it.           *)
HasChain(b, data, undo) ==
    Ancestors[b] \subseteq data /\ Ancestors[b] \ {Genesis} \subseteq undo

(* The same for every block that a state of the coin database names.       *)
HasState(tip, heads, data, undo) ==
    /\ tip \in Blocks => HasChain(tip, data, undo)
    /\ heads # <<>> =>
          /\ HasChain(heads[1], data, undo)
          /\ heads[2] \in Blocks => HasChain(heads[2], data, undo)

(* All blocks are in the last file when it matters.                        *)
FilesSound ==
    /\ PowerLoss => lastFile = 0 /\ diskLastFile = 0 /\ \A b \in Blocks : fileOf[b] = 0
    /\ plan.prune = {} /\ pc # "unlink" /\ pc # "aborted"

(* The block tree database has nothing that is not committed to the files, *)
(* and lacks nothing that is not dirty.                                    *)
IndexSound ==
    /\ PowerLoss => disk.data \subseteq blkSafe /\ disk.undo \subseteq revSafe
    /\ disk.data \subseteq mem.data /\ disk.undo \subseteq mem.undo
    /\ mem.data \subseteq disk.data \cup dirty /\ mem.undo \subseteq disk.undo \cup dirty
    /\ dirty \subseteq mem.data
    /\ mem.data \subseteq blk /\ mem.undo \subseteq rev
    /\ disk.known = disk.data /\ mem.known = mem.data
    /\ pc = "index" /\ PowerLoss => blk \subseteq blkSafe /\ rev \subseteq revSafe
    /\ pc \in {"coins", "down"} => dirty = {}

(* The database, its states that a loss of power can bring back, and the   *)
(* chain in memory have their blocks.                                      *)
StatesSound ==
    /\ HasState(dbBest, dbHeads, disk.data, disk.undo)
    /\ \A i \in 1 .. Len(dbLog) : HasState(dbLog[i].best, dbLog[i].heads, disk.data, disk.undo)
ChainsSound ==
    /\ pc \in {"running", "index", "coins"} =>
          best \in Blocks /\ HasChain(best, mem.data, mem.undo)
    /\ pc = "replay" => cursor \in Blocks /\ HasChain(cursor, mem.data, mem.undo)
    /\ pc = "replayed" => best \in Blocks /\ HasChain(best, disk.data, disk.undo)

DiskInv == FilesSound /\ IndexSound /\ StatesSound /\ ChainsSound

(* The types of what is on disk and in memory.                             *)
LEMMA FileTypes ==
    ASSUME TypeOK
    PROVE  /\ mem \in Flags /\ disk \in Flags /\ dirty \subseteq Blocks
           /\ blkSafe \subseteq blk /\ revSafe \subseteq rev
           /\ blk \subseteq Blocks /\ rev \subseteq Blocks
           /\ fileOf \in [Blocks -> Nat]
           /\ mem.data \subseteq Blocks /\ mem.undo \subseteq Blocks
BY Zenon DEF TypeOK, Flags

(* A chain is still there when there is more.                              *)
LEMMA ChainMono ==
    ASSUME NEW b, NEW data, NEW undo, NEW data2, NEW undo2,
           data \subseteq data2, undo \subseteq undo2, HasChain(b, data, undo)
    PROVE  HasChain(b, data2, undo2)
BY Zenon DEF HasChain

LEMMA StateMono ==
    ASSUME NEW tip, NEW heads, NEW data, NEW undo, NEW data2, NEW undo2,
           data \subseteq data2, undo \subseteq undo2, HasState(tip, heads, data, undo)
    PROVE  HasState(tip, heads, data2, undo2)
BY ChainMono, Zenon DEF HasState

(* A block is at the top of its own chain.                                 *)
LEMMA OnOwnChain ==
    ASSUME NEW b \in Blocks
    PROVE  b \in Ancestors[b]
<1>1. CASE b = Genesis
  BY <1>1, AncestorsAssumption, Zenon
<1>2. CASE b # Genesis
  <2>1. Ancestors[b] = {b} \cup Ancestors[Parent[b]]
    BY <1>2, AncestorsAssumption, Zenon
  <2> QED
    BY <2>1, Zenon
<1> QED
  BY <1>1, <1>2, Zenon

(* The chain of a block contains the block and the chain of its parent.    *)
LEMMA GenesisChain ==
    ASSUME NEW data, NEW undo, Genesis \in data
    PROVE  HasChain(Genesis, data, undo)
<1>1. Ancestors[Genesis] = {Genesis}
  BY AncestorsAssumption, Zenon
<1> QED
  BY <1>1, Zenon DEF HasChain

LEMMA ChainDown ==
    ASSUME NEW data, NEW undo, NEW b \in Blocks \ {Genesis}, HasChain(b, data, undo)
    PROVE  b \in data /\ b \in undo /\ Parent[b] \in Blocks /\ HasChain(Parent[b], data, undo)
<1>1. Ancestors[b] = {b} \cup Ancestors[Parent[b]] /\ Parent[b] \in Blocks
  BY AncestorsAssumption, Zenon
<1> QED
  BY <1>1, Zenon DEF HasChain

LEMMA ChainUp ==
    ASSUME NEW data, NEW undo, NEW b \in Blocks \ {Genesis}, b \in data, b \in undo,
           HasChain(Parent[b], data, undo)
    PROVE  HasChain(b, data, undo)
<1>1. Ancestors[b] = {b} \cup Ancestors[Parent[b]]
  BY AncestorsAssumption, Zenon
<1> QED
  BY <1>1, Zenon DEF HasChain

LEMMA DiskInit ==
    ASSUME Init
    PROVE  DiskInv
<1>1. FilesSound
  BY Zenon DEF Init, FilesSound, NoPlan
<1>2. IndexSound
  BY SMT DEF Init, IndexSound
<1>3. StatesSound
  BY SMT DEF Init, StatesSound, HasState
<1>4. ChainsSound
  <2>1. Genesis \in mem.data /\ best = Genesis /\ pc = "running"
    BY Zenon DEF Init
  <2>2. HasChain(Genesis, mem.data, mem.undo)
    BY <2>1, GenesisChain, Zenon
  <2> QED
    BY <2>1, <2>2, Zenon DEF ChainsSound
<1> QED
  BY <1>1, <1>2, <1>3, <1>4, Zenon DEF DiskInv

(* Steps that do not move the databases, the files or the index.           *)
LEMMA StatesKept ==
    ASSUME StatesSound, UNCHANGED <<coinsDb, disk>>
    PROVE  StatesSound'
BY Zenon DEF StatesSound, HasState, HasChain

LEMMA IndexKept ==
    ASSUME IndexSound, UNCHANGED <<disk, mem, dirty, blk, rev, blkSafe, revSafe>>,
           pc' = "index" => pc = "index",
           pc' \in {"coins", "down"} => pc \in {"coins", "down"}
    PROVE  IndexSound'
BY Zenon DEF IndexSound

LEMMA FilesKept ==
    ASSUME FilesSound, UNCHANGED <<lastFile, diskLastFile, fileOf>>,
           plan' = plan \/ plan'.prune = {}, pc' # "unlink", pc' # "aborted"
    PROVE  FilesSound'
BY Zenon DEF FilesSound

(* The file of a block, and what FlushBlockFile commits.                   *)
LEMMA AllInFile ==
    ASSUME FilesSound, PowerLoss, NEW bs, bs \subseteq Blocks
    PROVE  InFile(bs, lastFile) = bs
BY Zenon DEF FilesSound, InFile

LEMMA AcceptBlockDisk ==
    ASSUME NothingPruned, TypeOK, DiskInv, NEW b \in Blocks, NEW newFile \in BOOLEAN,
           AcceptBlock(b, newFile)
    PROVE  DiskInv'
<1> USE DEF DiskInv
<1>1. PowerLoss => ~newFile /\ lastFile' = lastFile /\ lastFile = 0
  BY SMT DEF NothingPruned, AcceptBlock, FindBlockPos, FilesSound
<1>2. PowerLoss => /\ blkSafe' = blkSafe \ {b} /\ revSafe' = revSafe
                   /\ fileOf' = [fileOf EXCEPT ![b] = 0]
  BY <1>1, Zenon DEF AcceptBlock, FindBlockPos
<1>3. /\ mem'.data = mem.data \cup {b} /\ mem'.undo = mem.undo
      /\ mem'.known = mem.known \cup {b}
  BY FileTypes, SMT DEF AcceptBlock, Flags
<1>4. /\ pc = "running" /\ pc' = pc /\ b \notin mem.data /\ blk' = blk \cup {b}
      /\ dirty' = dirty \cup {b} /\ rev' = rev
      /\ UNCHANGED <<coinsDb, disk, diskLastFile, best, cursor, plan>>
  BY Zenon DEF AcceptBlock
<1>5. FilesSound'
  <2>1. PowerLoss => \A c \in Blocks : fileOf'[c] = 0
    BY <1>2, FileTypes, SMT DEF FilesSound
  <2> QED
    BY <1>1, <1>4, <2>1, Zenon DEF FilesSound
<1>6. IndexSound'
  BY <1>2, <1>3, <1>4, SMT DEF IndexSound
<1>7. StatesSound'
  BY <1>4, StatesKept, Zenon
<1>8. ChainsSound'
  BY <1>3, <1>4, Zenon DEF ChainsSound, HasChain
<1> QED
  BY <1>5, <1>6, <1>7, <1>8, Zenon

LEMMA ConnectTipDisk ==
    ASSUME TypeOK, DiskInv, NEW b \in Blocks, ConnectTip(b)
    PROVE  DiskInv'
<1> USE DEF DiskInv
<1>1. /\ mem'.data = mem.data /\ mem'.undo = mem.undo \cup {b} /\ mem'.known = mem.known
  BY FileTypes, SMT DEF ConnectTip, WriteUndoDataForBlock, Flags
<1>2. /\ pc = "running" /\ pc' = pc /\ b \in mem.data /\ Parent[b] = best /\ best' = b
      /\ UNCHANGED <<coinsDb, disk, diskLastFile, blk, blkSafe, fileOf, lastFile, plan>>
  BY Zenon DEF ConnectTip
<1>3. /\ rev' = IF b \in mem.undo THEN rev ELSE rev \cup {b}
      /\ revSafe' = IF b \in mem.undo THEN revSafe ELSE revSafe \ {b}
      /\ dirty' = IF b \in mem.undo THEN dirty ELSE dirty \cup {b}
  BY Zenon DEF ConnectTip, WriteUndoDataForBlock
<1>4. FilesSound'
  BY <1>2, FilesKept, Zenon DEF FilesSound
<1>5. IndexSound'
  BY <1>1, <1>2, <1>3, SMT DEF IndexSound
<1>6. StatesSound'
  BY <1>2, StatesKept, Zenon
<1>7. ChainsSound'
  <2>1. best \in Blocks /\ HasChain(best, mem.data, mem.undo)
    BY <1>2, Zenon DEF ChainsSound
  <2>2. HasChain(Parent[b], mem'.data, mem'.undo)
    BY <1>1, <1>2, <2>1, Zenon DEF HasChain
  <2>3. b # Genesis
    BY <1>2, <2>1, Zenon
  <2>4. HasChain(b, mem'.data, mem'.undo)
    <3>1. b \in mem'.data /\ b \in mem'.undo
      BY <1>1, <1>2, Zenon
    <3> QED
      BY <2>2, <2>3, <3>1, ChainUp, Zenon
  <2> QED
    BY <1>2, <2>4, Zenon DEF ChainsSound
<1> QED
  BY <1>4, <1>5, <1>6, <1>7, Zenon

LEMMA DisconnectTipDisk ==
    ASSUME DiskInv, DisconnectTip
    PROVE  DiskInv'
<1> USE DEF DiskInv
<1>1. /\ pc = "running" /\ pc' = pc /\ best # Genesis /\ best' = Parent[best]
      /\ UNCHANGED <<coinsDb, blockDb, files, blockMem, plan>>
  BY Zenon DEF DisconnectTip
<1>2. FilesSound' /\ IndexSound' /\ StatesSound'
  BY <1>1, FilesKept, IndexKept, StatesKept, Zenon DEF FilesSound
<1>3. best \in Blocks /\ HasChain(best, mem.data, mem.undo)
  BY <1>1, Zenon DEF ChainsSound
<1>4. Parent[best] \in Blocks /\ HasChain(Parent[best], mem.data, mem.undo)
  BY <1>1, <1>3, ChainDown, Zenon
<1>5. ChainsSound'
  BY <1>1, <1>4, Zenon DEF ChainsSound
<1> QED
  BY <1>2, <1>5, Zenon

(* The tip can be read and undone.                                         *)
LEMMA NoAbortNode ==
    ASSUME IndInv, DiskInv
    PROVE  ~AbortNode
<1> SUFFICES ASSUME AbortNode PROVE FALSE
  BY Zenon
<1>1. pc = "running" /\ best \in Blocks /\ HasChain(best, mem.data, mem.undo)
  BY Zenon DEF AbortNode, DiskInv, ChainsSound
<1>2. mem.data \subseteq blk /\ mem.undo \subseteq rev
  BY Zenon DEF DiskInv, IndexSound
<1>3. best # Genesis /\ ~(Undoable(best) /\ UndoClean(View(cache, db), best))
  BY <1>2, Zenon DEF AbortNode
<1>4. Undoable(best)
  <2>1. best \in mem.data /\ best \in mem.undo
    BY <1>1, <1>3, ChainDown, Zenon
  <2> QED
    BY <1>2, <2>1, Zenon DEF Undoable, Readable
<1>5. View(cache, db) = Utxo[best]
  BY <1>1, Zenon DEF IndInv, CoinsSound, UpSound, Up
<1>6. best \in NonGenesis /\ Inputs[best] \subseteq Outpoints /\ Outputs[best] \subseteq Outpoints
  BY <1>1, <1>3, OutpointsAssumption, Zenon DEF NonGenesis
<1>7. UndoClean(Utxo[best], best)
  <2>1. \A o \in Inputs[best] : Utxo[best][o] = Spent
    BY <1>6, UtxoFacts, Zenon
  <2>2. \A o \in Outputs[best] \ Inputs[best] : Utxo[best][o] = Height[best]
    BY <1>6, UtxoFacts, Zenon
  <2> QED
    BY <2>1, <2>2, Zenon DEF UndoClean
<1> QED
  BY <1>3, <1>4, <1>5, <1>7, Zenon

LEMMA BeginFlushDisk ==
    ASSUME NothingPruned, TypeOK, DiskInv, NEW p \in Flushes, BeginFlush(p)
    PROVE  DiskInv'
<1> USE DEF DiskInv
<1>1. p.prune = {}
  <2>1. p \in {[prune |-> {}, full |-> full] : full \in BOOLEAN}
    BY SMT DEF Flushes, NothingPruned
  <2> QED
    BY <2>1, SMT
<1>2. {b \in mem.data : fileOf[b] \in p.prune} = {}
  BY <1>1, Zenon
<1>3. /\ mem'.data = mem.data /\ mem'.undo = mem.undo /\ mem'.known = mem.known
      /\ dirty' = dirty
  BY <1>2, FileTypes, SMT DEF BeginFlush, Flags
<1>4. /\ pc = "running" /\ pc' = "index" /\ plan' = p
      /\ UNCHANGED <<coinsDb, blockDb, blk, rev, fileOf, lastFile, best>>
  BY Zenon DEF BeginFlush, FirstWrite
<1>5. PowerLoss => blkSafe' = blkSafe \cup blk /\ revSafe' = revSafe \cup rev
  BY FileTypes, AllInFile, Zenon DEF BeginFlush, FlushBlockFile
<1>6. FilesSound'
  BY <1>1, <1>4, FilesKept, Zenon
<1>7. IndexSound'
  BY <1>3, <1>4, <1>5, SMT DEF IndexSound
<1>8. StatesSound'
  BY <1>4, StatesKept, Zenon
<1>9. ChainsSound'
  BY <1>3, <1>4, Zenon DEF ChainsSound
<1> QED
  BY <1>6, <1>7, <1>8, <1>9, Zenon

(* After this write the database lacks nothing.                            *)
LEMMA WriteBatchSyncDisk ==
    ASSUME DiskInv, WriteBatchSync
    PROVE  DiskInv'
<1> USE DEF DiskInv
<1>1. /\ disk'.data = (disk.data \ dirty) \cup (mem.data \cap dirty)
      /\ disk'.undo = (disk.undo \ dirty) \cup (mem.undo \cap dirty)
      /\ disk'.known = disk.known \cup dirty
      /\ dirty' = {}
  BY Zenon DEF WriteBatchSync
<1>2. /\ pc = "index" /\ pc' \in {"coins", "running"} /\ diskLastFile' = lastFile
      /\ UNCHANGED <<coinsDb, files, mem, fileOf, lastFile, best, plan>>
  BY Zenon DEF WriteBatchSync, AfterIndex, FilesSound
<1>3. disk'.data = mem.data /\ disk'.undo = mem.undo
  BY <1>1, Zenon DEF IndexSound
<1>4. FilesSound'
  BY <1>2, Zenon DEF FilesSound
<1>5. IndexSound'
  <2>1. disk'.known = mem.data
    BY <1>1, Zenon DEF IndexSound
  <2> QED
    BY <1>1, <1>2, <1>3, <2>1, Zenon DEF IndexSound
<1>6. StatesSound'
  <2>1. disk.data \subseteq disk'.data /\ disk.undo \subseteq disk'.undo
    BY <1>3, Zenon DEF IndexSound
  <2>2. HasState(dbBest, dbHeads, disk'.data, disk'.undo)
    <3>1. HasState(dbBest, dbHeads, disk.data, disk.undo)
      BY Zenon DEF StatesSound
    <3> QED
      BY <2>1, <3>1, StateMono, Zenon
  <2>3. ASSUME NEW i \in 1 .. Len(dbLog)
        PROVE  HasState(dbLog[i].best, dbLog[i].heads, disk'.data, disk'.undo)
    <3>1. HasState(dbLog[i].best, dbLog[i].heads, disk.data, disk.undo)
      BY Zenon DEF StatesSound
    <3> QED
      BY <2>1, <3>1, StateMono, Zenon
  <2> QED
    BY <1>2, <2>2, <2>3, Zenon DEF StatesSound
<1>7. ChainsSound'
  BY <1>2, Zenon DEF ChainsSound
<1> QED
  BY <1>4, <1>5, <1>6, <1>7, Zenon

(* The states of the coin database that a loss of power can bring back.    *)
LEMMA LogBatchDisk ==
    ASSUME TypeOK, StatesSound, LogBatch, disk' = disk
    PROVE  \A i \in 1 .. Len(dbLog') :
              HasState(dbLog'[i].best, dbLog'[i].heads, disk.data, disk.undo)
<1> DEFINE st  == [coins |-> db, best |-> dbBest, heads |-> dbHeads]
           St  == [coins : Views, best : MaybeBlock, heads : Heads]
           log == Append(dbLog, st)
           Has(s) == HasState(s.best, s.heads, disk.data, disk.undo)
<1>1. st \in St /\ dbLog \in Seq(St) /\ Has(st)
  BY Zenon DEF TypeOK, StatesSound
<1>2. \A i \in 1 .. Len(dbLog) : Has(dbLog[i])
  BY Zenon DEF StatesSound
<1>3. dbLog' \in {<<>>, log, Tail(log)}
  BY Zenon DEF LogBatch
<1> SUFFICES \A i \in 1 .. Len(dbLog') : Has(dbLog'[i])
  BY Zenon
<1> HIDE DEF st, St, Has
<1>4. /\ log \in Seq(St) /\ Len(log) = Len(dbLog) + 1
      /\ \A i \in 1 .. Len(log) : log[i] = IF i <= Len(dbLog) THEN dbLog[i] ELSE st
  BY <1>1
<1>5. \A i \in 1 .. Len(log) : Has(log[i])
  BY <1>1, <1>2, <1>4
<1> HIDE DEF log
<1>6. \A i \in 1 .. Len(Tail(log)) : Tail(log)[i] = log[i + 1] /\ i + 1 \in 1 .. Len(log)
  BY <1>1, <1>4
<1>7. \A i \in 1 .. Len(Tail(log)) : Has(Tail(log)[i])
  BY <1>5, <1>6, Zenon
<1>8. \A i \in 1 .. Len(<<>>) : Has(<<>>[i])
  BY SMT
<1> QED
  BY <1>3, <1>5, <1>7, <1>8, Zenon

(* In a flush and at the end of a replay the chain of the tip is in the    *)
(* block tree database.                                                    *)
LEMMA TipOnDisk ==
    ASSUME DiskInv, pc \in {"coins", "replayed"}
    PROVE  /\ best \in Blocks /\ HasChain(best, disk.data, disk.undo)
           /\ HasChain(best, mem.data, mem.undo)
<1>1. /\ pc = "coins" => dirty = {}
      /\ mem.data \subseteq disk.data \cup dirty /\ mem.undo \subseteq disk.undo \cup dirty
      /\ disk.data \subseteq mem.data /\ disk.undo \subseteq mem.undo
  BY Zenon DEF DiskInv, IndexSound
<1>2. CASE pc = "coins"
  <2>1. best \in Blocks /\ HasChain(best, mem.data, mem.undo)
    BY <1>2, Zenon DEF DiskInv, ChainsSound
  <2>2. mem.data \subseteq disk.data /\ mem.undo \subseteq disk.undo
    BY <1>1, <1>2, Zenon
  <2> QED
    BY <2>1, <2>2, ChainMono, Zenon
<1>3. CASE pc = "replayed"
  <2>1. best \in Blocks /\ HasChain(best, disk.data, disk.undo)
    BY <1>3, Zenon DEF DiskInv, ChainsSound
  <2>2. disk.data \subseteq mem.data /\ disk.undo \subseteq mem.undo
    BY <1>1, Zenon
  <2> QED
    BY <2>1, <2>2, ChainMono, Zenon
<1> QED
  BY <1>2, <1>3, Zenon

LEMMA WritePartialDisk ==
    ASSUME TypeOK, DiskInv, NEW S \in SUBSET Outpoints, WritePartial(S)
    PROVE  DiskInv'
<1> USE DEF DiskInv
<1>1. /\ pc \in {"coins", "replayed"} /\ LogBatch /\ dbBest' = NullHash
      /\ dbHeads' = <<best, OldTip>>
      /\ UNCHANGED <<blockDb, files, blockMem, best, cursor, plan, pc>>
  BY Zenon DEF WritePartial, MarkTransition
<1>2. FilesSound' /\ IndexSound'
  BY <1>1, FilesKept, IndexKept, Zenon DEF FilesSound
<1>3. HasState(NullHash, dbHeads', disk.data, disk.undo)
  <2>1. dbHeads'[1] = best /\ dbHeads'[2] = OldTip
    BY <1>1, SMT
  <2>2. OldTip \in Blocks => HasChain(OldTip, disk.data, disk.undo)
    BY Zenon DEF OldTip, StatesSound, HasState
  <2>3. HasChain(best, disk.data, disk.undo)
    BY <1>1, TipOnDisk, Zenon
  <2> QED
    BY <2>1, <2>2, <2>3, Zenon DEF HasState
<1>4. StatesSound'
  <2>1. \A i \in 1 .. Len(dbLog') :
            HasState(dbLog'[i].best, dbLog'[i].heads, disk.data, disk.undo)
    BY <1>1, LogBatchDisk, Zenon
  <2> QED
    BY <1>1, <1>3, <2>1, Zenon DEF StatesSound
<1>5. ChainsSound'
  BY <1>1, Zenon DEF ChainsSound
<1> QED
  BY <1>2, <1>4, <1>5, Zenon

LEMMA WriteFinalDisk ==
    ASSUME TypeOK, DiskInv, WriteFinal
    PROVE  DiskInv'
<1> USE DEF DiskInv
<1>1. /\ pc \in {"coins", "replayed"} /\ LogBatch /\ dbBest' = best
      /\ dbHeads' = <<>> /\ pc' = "running" /\ plan'.prune = {}
      /\ UNCHANGED <<blockDb, files, blockMem, best, cursor>>
  BY Zenon DEF WriteFinal, NoPlan
<1>2. FilesSound' /\ IndexSound'
  BY <1>1, FilesKept, IndexKept, Zenon DEF FilesSound
<1>3. /\ best \in Blocks /\ HasChain(best, disk.data, disk.undo)
      /\ HasChain(best, mem.data, mem.undo)
  BY <1>1, TipOnDisk, Zenon
<1>4. StatesSound'
  <2>1. \A i \in 1 .. Len(dbLog') :
            HasState(dbLog'[i].best, dbLog'[i].heads, disk.data, disk.undo)
    BY <1>1, LogBatchDisk, Zenon
  <2>2. HasState(best, <<>>, disk.data, disk.undo)
    BY <1>3, Zenon DEF HasState
  <2> QED
    BY <1>1, <2>1, <2>2, Zenon DEF StatesSound
<1>5. ChainsSound'
  BY <1>1, <1>3, Zenon DEF ChainsSound
<1> QED
  BY <1>2, <1>4, <1>5, Zenon

(* A crash takes nothing that the block tree database points to.           *)
LEMMA CrashDisk ==
    ASSUME TypeOK, DiskInv, Crash
    PROVE  DiskInv'
<1> USE DEF DiskInv
<1>1. /\ dbLog' = <<>> /\ pc' = "down" /\ plan'.prune = {} /\ mem' = disk /\ dirty' = {}
      /\ lastFile' = diskLastFile /\ blkSafe' = blk' /\ revSafe' = rev'
      /\ UNCHANGED <<disk, diskLastFile, fileOf>>
  BY Zenon DEF Crash, LoadBlockIndexDB, NoPlan
<1>2. disk.data \subseteq blk' /\ disk.undo \subseteq rev'
  <2>1. PICK lostBlk \in SUBSET (IF PowerLoss THEN blk \ blkSafe ELSE {}),
             lostRev \in SUBSET (IF PowerLoss THEN rev \ revSafe ELSE {}) :
             /\ blk' = (blk \ lostBlk) \cap disk.data
             /\ rev' = (rev \ lostRev) \cap disk.undo
    BY Zenon DEF Crash
  <2>3. CASE PowerLoss
    <3>1. disk.data \subseteq blkSafe /\ blkSafe \subseteq blk
      BY <2>3, FileTypes, Zenon DEF IndexSound
    <3>2. disk.undo \subseteq revSafe /\ revSafe \subseteq rev
      BY <2>3, FileTypes, Zenon DEF IndexSound
    <3>3. lostBlk \cap blkSafe = {} /\ lostRev \cap revSafe = {}
      BY <2>3, SMT
    <3> QED
      BY <2>1, <3>1, <3>2, <3>3, SMT
  <2>4. CASE ~PowerLoss
    <3>1. disk.data \subseteq blk /\ disk.undo \subseteq rev
      BY Zenon DEF IndexSound
    <3>2. lostBlk = {} /\ lostRev = {}
      BY <2>4, SMT
    <3> QED
      BY <2>1, <3>1, <3>2, SMT
  <2> QED
    BY <2>3, <2>4, Zenon
<1>3. FilesSound'
  BY <1>1, Zenon DEF FilesSound
<1>4. IndexSound'
  <2>1. mem'.data = disk.data /\ mem'.undo = disk.undo /\ mem'.known = disk.data
    BY <1>1, Zenon DEF IndexSound
  <2> QED
    BY <1>1, <1>2, <2>1, Zenon DEF IndexSound
<1>5. HasState(dbBest', dbHeads', disk.data, disk.undo)
  <2>1. CASE UNCHANGED <<db, dbBest, dbHeads>>
    BY <2>1, Zenon DEF StatesSound
  <2>2. CASE \E i \in DOMAIN dbLog : /\ db' = dbLog[i].coins
                                     /\ dbBest' = dbLog[i].best
                                     /\ dbHeads' = dbLog[i].heads
    <3>1. DOMAIN dbLog = 1 .. Len(dbLog)
      <4> DEFINE St == [coins : Views, best : MaybeBlock, heads : Heads]
      <4>1. dbLog \in Seq(St)
        BY Zenon DEF TypeOK
      <4> HIDE DEF St
      <4> QED
        BY <4>1, SMT
    <3> QED
      BY <2>2, <3>1, Zenon DEF StatesSound
  <2> QED
    BY <2>1, <2>2, Zenon DEF Crash
<1>6. StatesSound'
  BY <1>1, <1>5, SMT DEF StatesSound
<1>7. ChainsSound'
  BY <1>1, Zenon DEF ChainsSound
<1> QED
  BY <1>3, <1>4, <1>6, <1>7, Zenon

(* After LoadBlockIndex the index is the database's, and has the genesis   *)
(* block.                                                                  *)
LEMMA LoadBlockIndexFacts ==
    ASSUME TypeOK, DiskInv, pc = "down", LoadBlockIndex
    PROVE  /\ Genesis \in mem'.data /\ mem'.known = mem'.data
           /\ disk.data \subseteq mem'.data /\ disk.undo \subseteq mem'.undo
           /\ mem'.data \subseteq disk.data \cup dirty' /\ mem'.undo \subseteq disk.undo \cup dirty'
           /\ dirty' \subseteq mem'.data
           /\ mem'.data \subseteq blk' /\ mem'.undo \subseteq rev
           /\ PowerLoss => disk.data \subseteq blkSafe' /\ \A b \in Blocks : fileOf'[b] = 0
<1> USE DEF DiskInv
<1>1. CASE Genesis \in disk.known
  <2>1. UNCHANGED <<mem, dirty, blk, blkSafe, fileOf>>
    BY <1>1, Zenon DEF LoadBlockIndex
  <2> QED
    BY <1>1, <2>1, Zenon DEF IndexSound, FilesSound
<1>2. CASE Genesis \notin disk.known
  <2>1. /\ dirty' = {Genesis} /\ blk' = blk \cup {Genesis} /\ blkSafe' = blkSafe \ {Genesis}
        /\ fileOf' = [fileOf EXCEPT ![Genesis] = lastFile] /\ dirty = {}
    BY <1>2, Zenon DEF LoadBlockIndex, IndexSound
  <2>2. /\ mem'.data = mem.data \cup {Genesis} /\ mem'.undo = mem.undo
        /\ mem'.known = mem.known \cup {Genesis}
    <3>1. mem' = [mem EXCEPT !.known = @ \cup {Genesis}, !.data = @ \cup {Genesis}]
      BY <1>2, Zenon DEF LoadBlockIndex
    <3>2. mem \in Flags
      BY FileTypes, Zenon
    <3> QED
      BY <3>1, <3>2, SMT DEF Flags
  <2>3. PowerLoss => \A b \in Blocks : fileOf'[b] = 0
    BY <2>1, FileTypes, SMT DEF FilesSound
  <2> QED
    BY <1>2, <2>1, <2>2, <2>3, SMT DEF IndexSound
<1> QED
  BY <1>1, <1>2, Zenon

(* The part of LoadChainTip and of StartReplay that they share.            *)
LEMMA Loaded ==
    ASSUME TypeOK, DiskInv, pc = "down", LoadBlockIndex, pc' \in {"running", "replay"},
           UNCHANGED <<coinsDb, blockDb, rev, revSafe, lastFile, plan>>
    PROVE  FilesSound' /\ IndexSound' /\ StatesSound'
<1>1. FilesSound'
  BY LoadBlockIndexFacts, Zenon DEF DiskInv, FilesSound
<1>2. IndexSound'
  BY LoadBlockIndexFacts, Zenon DEF DiskInv, IndexSound
<1>3. StatesSound'
  BY StatesKept, Zenon DEF DiskInv
<1> QED
  BY <1>1, <1>2, <1>3, Zenon

LEMMA LoadChainTipDisk ==
    ASSUME TypeOK, DiskInv, LoadChainTip
    PROVE  DiskInv'
<1>1. /\ pc = "down" /\ LoadBlockIndex /\ best' = IF dbBest = NullHash THEN Genesis ELSE dbBest
      /\ UNCHANGED <<coinsDb, blockDb, rev, revSafe, lastFile, plan>>
  BY Zenon DEF LoadChainTip
<1>2. best' \in Blocks /\ HasChain(best', mem'.data, mem'.undo)
  <2>1. CASE dbBest = NullHash
    <3>1. Genesis \in mem'.data
      BY <1>1, LoadBlockIndexFacts, Zenon
    <3>2. HasChain(Genesis, mem'.data, mem'.undo)
      BY <3>1, GenesisChain, Zenon
    <3> QED
      BY <1>1, <2>1, <3>2, Zenon
  <2>2. CASE dbBest # NullHash
    <3>1. dbBest \in Blocks /\ HasChain(dbBest, disk.data, disk.undo)
      BY <2>2, Zenon DEF TypeOK, MaybeBlock, DiskInv, StatesSound, HasState
    <3>2. disk.data \subseteq mem'.data /\ disk.undo \subseteq mem'.undo
      BY <1>1, LoadBlockIndexFacts, Zenon
    <3>3. HasChain(dbBest, mem'.data, mem'.undo)
      BY <3>1, <3>2, ChainMono, Zenon
    <3> QED
      BY <1>1, <2>2, <3>1, <3>3, Zenon
  <2> QED
    BY <2>1, <2>2, Zenon
<1>3. pc' = "running"
  <2>1. best' \in mem'.data
    BY <1>2, OnOwnChain, Zenon DEF HasChain
  <2>2. Genesis \in mem'.data /\ mem'.known = mem'.data /\ mem'.data \subseteq blk'
    BY <1>1, LoadBlockIndexFacts, Zenon
  <2> QED
    BY <2>1, <2>2, Zenon DEF LoadChainTip
<1>4. FilesSound' /\ IndexSound' /\ StatesSound'
  BY <1>1, <1>3, Loaded, Zenon
<1>5. ChainsSound'
  BY <1>2, <1>3, Zenon DEF ChainsSound
<1> QED
  BY <1>4, <1>5, Zenon DEF DiskInv

LEMMA StartReplayDisk ==
    ASSUME TypeOK, DiskInv, StartReplay
    PROVE  DiskInv'
<1>1. /\ pc = "down" /\ dbHeads # <<>> /\ LoadBlockIndex
      /\ cursor' = IF dbHeads[2] = NullHash THEN Genesis ELSE dbHeads[2]
      /\ UNCHANGED <<coinsDb, blockDb, rev, revSafe, lastFile, plan>>
  BY Zenon DEF StartReplay
<1>2. /\ Genesis \in mem'.data /\ mem'.known = mem'.data
      /\ disk.data \subseteq mem'.data /\ disk.undo \subseteq mem'.undo
  BY <1>1, LoadBlockIndexFacts, Zenon
<1>3. dbHeads[1] \in Blocks /\ dbHeads[2] \in MaybeBlock
  BY <1>1, SMT DEF TypeOK, Heads
<1>4. /\ HasChain(dbHeads[1], disk.data, disk.undo)
      /\ dbHeads[2] \in Blocks => HasChain(dbHeads[2], disk.data, disk.undo)
  BY <1>1, Zenon DEF DiskInv, StatesSound, HasState
<1>5. cursor' \in Blocks /\ HasChain(cursor', mem'.data, mem'.undo)
  <2>1. CASE dbHeads[2] = NullHash
    <3>1. HasChain(Genesis, mem'.data, mem'.undo)
      BY <1>2, GenesisChain, Zenon
    <3> QED
      BY <1>1, <2>1, <3>1, Zenon
  <2>2. CASE dbHeads[2] # NullHash
    <3>1. dbHeads[2] \in Blocks /\ HasChain(dbHeads[2], disk.data, disk.undo)
      BY <1>3, <1>4, <2>2, Zenon DEF MaybeBlock
    <3>2. HasChain(dbHeads[2], mem'.data, mem'.undo)
      BY <1>2, <3>1, ChainMono, Zenon
    <3> QED
      BY <1>1, <2>2, <3>1, <3>2, Zenon
  <2> QED
    BY <2>1, <2>2, Zenon
<1>6. pc' = "replay"
  <2>1. dbHeads[1] \in mem'.data
    BY <1>2, <1>3, <1>4, OnOwnChain, Zenon DEF HasChain
  <2>2. cursor' \in mem'.data
    BY <1>5, OnOwnChain, Zenon DEF HasChain
  <2> QED
    BY <1>2, <2>1, <2>2, Zenon DEF StartReplay
<1>7. FilesSound' /\ IndexSound' /\ StatesSound'
  BY <1>1, <1>6, Loaded, Zenon
<1>8. ChainsSound'
  BY <1>5, <1>6, Zenon DEF ChainsSound
<1> QED
  BY <1>7, <1>8, Zenon DEF DiskInv

(* The replay finds what it rolls back and forward.                        *)
LEMMA RollbackBlockDisk ==
    ASSUME DiskInv, RollbackBlock
    PROVE  DiskInv'
<1>1. /\ pc = "replay" /\ cursor # Genesis
      /\ UNCHANGED <<coinsDb, blockDb, files, blockMem, best, plan>>
  BY Zenon DEF RollbackBlock
<1>2. cursor \in Blocks /\ HasChain(cursor, mem.data, mem.undo)
  BY <1>1, Zenon DEF DiskInv, ChainsSound
<1>3. /\ cursor \in mem.data /\ cursor \in mem.undo
      /\ Parent[cursor] \in Blocks /\ HasChain(Parent[cursor], mem.data, mem.undo)
  BY <1>1, <1>2, ChainDown, Zenon
<1>4. RollbackOk
  BY <1>3, Zenon DEF RollbackOk, Undoable, Readable, DiskInv, IndexSound
<1>5. cursor' = Parent[cursor] /\ pc' = pc
  BY <1>4, Zenon DEF RollbackBlock
<1>6. FilesSound' /\ IndexSound' /\ StatesSound'
  BY <1>1, <1>5, FilesKept, IndexKept, StatesKept, Zenon DEF DiskInv, FilesSound
<1>7. ChainsSound'
  BY <1>1, <1>3, <1>5, Zenon DEF ChainsSound
<1> QED
  BY <1>6, <1>7, Zenon DEF DiskInv

LEMMA RollforwardBlockDisk ==
    ASSUME IndInv, DiskInv, NEW b \in Blocks, RollforwardBlock(b)
    PROVE  DiskInv'
<1>1. /\ pc = "replay" /\ b \in Ancestors[dbHeads[1]] /\ Parent[b] = cursor
      /\ UNCHANGED <<coinsDb, blockDb, files, blockMem, best, plan>>
  BY Zenon DEF RollforwardBlock
<1>2. cursor \in Blocks /\ HasChain(cursor, mem.data, mem.undo) /\ dbHeads # <<>>
  BY <1>1, Zenon DEF DiskInv, ChainsSound, IndInv, CoinsSound, ReplaySound
<1>3. b # Genesis
  BY <1>1, <1>2, Zenon
<1>4. b \in mem.data /\ b \in mem.undo
  <2>1. HasChain(dbHeads[1], disk.data, disk.undo)
    BY <1>2, Zenon DEF DiskInv, StatesSound, HasState
  <2>2. disk.data \subseteq mem.data /\ disk.undo \subseteq mem.undo
    BY Zenon DEF DiskInv, IndexSound
  <2> QED
    BY <1>1, <1>3, <2>1, <2>2, Zenon DEF HasChain
<1>5. Readable(b)
  BY <1>4, Zenon DEF Readable, DiskInv, IndexSound
<1>6. cursor' = b /\ pc' = pc
  BY <1>5, Zenon DEF RollforwardBlock
<1>7. HasChain(b, mem.data, mem.undo)
  BY <1>1, <1>2, <1>3, <1>4, ChainUp, Zenon
<1>8. FilesSound' /\ IndexSound' /\ StatesSound'
  BY <1>1, <1>6, FilesKept, IndexKept, StatesKept, Zenon DEF DiskInv, FilesSound
<1>9. ChainsSound'
  BY <1>1, <1>6, <1>7, Zenon DEF ChainsSound
<1> QED
  BY <1>8, <1>9, Zenon DEF DiskInv

LEMMA EndReplayDisk ==
    ASSUME IndInv, DiskInv, EndReplay
    PROVE  DiskInv'
<1>1. /\ pc = "replay" /\ pc' = "replayed" /\ cursor = dbHeads[1] /\ best' = cursor
      /\ UNCHANGED <<coinsDb, blockDb, files, blockMem, plan>>
  BY Zenon DEF EndReplay
<1>2. cursor \in Blocks /\ dbHeads # <<>>
  BY <1>1, Zenon DEF IndInv, CoinsSound, ReplaySound
<1>3. HasChain(cursor, disk.data, disk.undo)
  BY <1>1, <1>2, Zenon DEF DiskInv, StatesSound, HasState
<1>4. FilesSound' /\ IndexSound' /\ StatesSound'
  BY <1>1, FilesKept, IndexKept, StatesKept, Zenon DEF DiskInv
<1>5. ChainsSound'
  BY <1>1, <1>2, <1>3, Zenon DEF ChainsSound
<1> QED
  BY <1>4, <1>5, Zenon DEF DiskInv
-----------------------------------------------------------------------------
LEMMA NextDisk ==
    ASSUME NothingPruned, IndInv, DiskInv, [Next]_vars
    PROVE  DiskInv'
<1>0. TypeOK
  BY Zenon DEF IndInv
<1>1. ASSUME NEW b \in Blocks, NEW newFile \in BOOLEAN, AcceptBlock(b, newFile)
      PROVE  DiskInv'
  BY <1>0, <1>1, AcceptBlockDisk, Zenon
<1>2. ASSUME NEW b \in Blocks, ConnectTip(b) PROVE DiskInv'
  BY <1>0, <1>2, ConnectTipDisk, Zenon
<1>3. CASE DisconnectTip
  BY <1>3, DisconnectTipDisk, Zenon
<1>4. ~AbortNode
  BY NoAbortNode, Zenon
<1>5. ASSUME NEW p \in Flushes, BeginFlush(p) PROVE DiskInv'
  BY <1>0, <1>5, BeginFlushDisk, Zenon
<1>6. CASE FlushStep
  <2>1. ~UnlinkPrunedFiles
    BY Zenon DEF UnlinkPrunedFiles, DiskInv, FilesSound
  <2> QED
    BY <1>0, <1>6, <2>1, WriteBatchSyncDisk, WriteFinalDisk, Zenon DEF FlushStep
<1>7. ASSUME NEW S \in SUBSET Outpoints, WritePartial(S) PROVE DiskInv'
  BY <1>0, <1>7, WritePartialDisk, Zenon
<1>8. CASE Crash
  BY <1>0, <1>8, CrashDisk, Zenon
<1>9. CASE Startup
  BY <1>0, <1>9, LoadChainTipDisk, StartReplayDisk, Zenon DEF Startup
<1>10. CASE ReplayStep
  BY <1>10, RollbackBlockDisk, RollforwardBlockDisk, EndReplayDisk, Zenon DEF ReplayStep
<1>11. CASE UNCHANGED vars
  <2>1. /\ UNCHANGED <<coinsDb, blockDb, files, blockMem, best, cursor, plan, pc>>
    BY <1>11, Zenon DEF vars
  <2>2. FilesSound' /\ IndexSound' /\ StatesSound'
    BY <2>1, FilesKept, IndexKept, StatesKept, Zenon DEF DiskInv, FilesSound
  <2>3. ChainsSound'
    BY <2>1, Zenon DEF DiskInv, ChainsSound
  <2> QED
    BY <2>2, <2>3, Zenon DEF DiskInv
<1> QED
  BY <1>1, <1>2, <1>3, <1>4, <1>5, <1>6, <1>7, <1>8, <1>9, <1>10, <1>11, Zenon DEF Next

LEMMA DiskInvHolds ==
    ASSUME NothingPruned
    PROVE  Spec => []DiskInv
<1>1. Init => DiskInv
  BY DiskInit, Zenon
<1>2. IndInv /\ DiskInv /\ [Next]_vars => DiskInv'
  BY NextDisk, Zenon
<1> QED
  BY <1>1, <1>2, IndInvHolds, PTL DEF Spec

(* Without pruning, the block tree database and the files have at every    *)
(* moment each block and its undo data that the coin database needs to be  *)
(* rolled back or forward, after any crashes, and with one block file also *)
(* after any losses of power.                                              *)
THEOREM IndexFirst ==
    ASSUME NothingPruned
    PROVE  Spec => []IndexBeforeCoins
<1>1. IndInv /\ DiskInv => IndexBeforeCoins
  <2> SUFFICES ASSUME IndInv, DiskInv PROVE IndexBeforeCoins
    BY Zenon
  <2>1. dbHeads = <<>> \/ (DOMAIN dbHeads = {1, 2} /\ dbHeads # <<>>)
    BY SMT DEF IndInv, TypeOK, Heads
  <2>2. DOMAIN <<>> = {}
    BY SMT
  <2>3. ASSUME NEW b \in Blocks \cap ({dbBest} \cup {dbHeads[i] : i \in DOMAIN dbHeads})
        PROVE  HasChain(b, disk.data, disk.undo)
    <3>1. HasState(dbBest, dbHeads, disk.data, disk.undo)
      BY Zenon DEF DiskInv, StatesSound
    <3>2. b = dbBest \/ (dbHeads # <<>> /\ (b = dbHeads[1] \/ b = dbHeads[2]))
      BY <2>1, <2>2, Zenon
    <3> QED
      BY <3>1, <3>2, Zenon DEF HasState
  <2>4. Needed \subseteq disk.data /\ Needed \ {Genesis} \subseteq disk.undo
    <3> SUFFICES ASSUME NEW x \in Needed
                 PROVE  x \in disk.data /\ (x # Genesis => x \in disk.undo)
      BY Zenon
    <3>1. PICK b \in Blocks \cap ({dbBest} \cup {dbHeads[i] : i \in DOMAIN dbHeads}) :
             x \in Ancestors[b]
      BY Zenon DEF Needed
    <3> QED
      BY <2>3, <3>1, Zenon DEF HasChain
  <2>5. disk.data \subseteq blk /\ disk.undo \subseteq rev
    BY Zenon DEF DiskInv, IndexSound
  <2> QED
    BY <2>4, <2>5, Zenon DEF IndexBeforeCoins
<1> QED
  BY <1>1, IndInvHolds, DiskInvHolds, PTL

(* Under the same premise neither startup nor a change of tip ever finds a *)
(* block or undo data missing, or undo data that does not fit the coins.   *)
THEOREM NoAbort ==
    ASSUME NothingPruned
    PROVE  Spec => []NeverAborts
<1>1. DiskInv => NeverAborts
  BY Zenon DEF DiskInv, FilesSound, NeverAborts
<1> QED
  BY <1>1, DiskInvHolds, PTL

-----------------------------------------------------------------------------
(* Pruning without a loss of power.  The flags of the index, in memory and *)
(* on disk, name files that exist; on disk they lag behind only for dirty  *)
(* blocks; and no block of a file that is about to be deleted has them.    *)
HonestFlags(flags) == /\ flags.data \subseteq blk /\ flags.undo \subseteq rev
                      /\ flags.undo \subseteq flags.data

SameFlags(b) == /\ b \in mem.data <=> b \in disk.data
                /\ b \in mem.undo <=> b \in disk.undo

PruneInv ==
    /\ HonestFlags(mem) /\ HonestFlags(disk)
    /\ \A b \in Blocks \ dirty : SameFlags(b)
    /\ pc \in {"index", "unlink"} => \A b \in mem.data : fileOf[b] \notin plan.prune
    /\ pc \in {"unlink", "down"} => dirty = {}

LEMMA PruneInit ==
    ASSUME Init
    PROVE  PruneInv
BY Zenon DEF Init, PruneInv, HonestFlags, SameFlags

(* A step that leaves the files and the index alone.                       *)
LEMMA PruneKept ==
    ASSUME PruneInv, UNCHANGED <<disk, mem, dirty, blk, rev, fileOf>>,
           pc' \in {"index", "unlink", "down"} => pc' = pc /\ plan' = plan
    PROVE  PruneInv'
BY Zenon DEF PruneInv, HonestFlags, SameFlags

LEMMA AcceptBlockPrune ==
    ASSUME TypeOK, PruneInv, NEW b \in Blocks, NEW newFile \in BOOLEAN, AcceptBlock(b, newFile)
    PROVE  PruneInv'
<1>1. /\ mem'.data = mem.data \cup {b} /\ mem'.undo = mem.undo /\ blk' = blk \cup {b}
      /\ rev' = rev /\ disk' = disk /\ dirty' = dirty \cup {b} /\ pc' = "running"
  BY FileTypes, Zenon DEF AcceptBlock, Flags
<1> QED BY <1>1, Zenon DEF PruneInv, HonestFlags, SameFlags

LEMMA ConnectTipPrune ==
    ASSUME TypeOK, PruneInv, NEW b \in Blocks, ConnectTip(b)
    PROVE  PruneInv'
<1>1. /\ mem'.data = mem.data /\ mem'.undo = mem.undo \cup {b} /\ blk' = blk /\ b \in mem.data
      /\ disk' = disk /\ pc' = "running"
      /\ rev' = IF b \in mem.undo THEN rev ELSE rev \cup {b}
      /\ dirty' = IF b \in mem.undo THEN dirty ELSE dirty \cup {b}
  BY FileTypes, Zenon DEF ConnectTip, WriteUndoDataForBlock, Flags
<1> QED BY <1>1, Zenon DEF PruneInv, HonestFlags, SameFlags

(* PruneOneBlockFile clears both flags of every block in the file.         *)
LEMMA BeginFlushPrune ==
    ASSUME TypeOK, PruneInv, NEW p, BeginFlush(p)
    PROVE  PruneInv'
<1> DEFINE pruned == {b \in mem.data : fileOf[b] \in p.prune}
<1>1. /\ mem'.data = mem.data \ pruned /\ mem'.undo = mem.undo \ pruned
      /\ UNCHANGED <<blk, rev, disk, fileOf>> /\ dirty' = dirty \cup pruned
      /\ pc' = "index" /\ plan' = p
  BY FileTypes, Zenon DEF BeginFlush, FirstWrite, Flags
<1>2. \A b \in mem'.data : fileOf'[b] \notin plan'.prune
  BY <1>1, Zenon
<1>3. \A b \in Blocks : b \notin dirty' => b \notin pruned /\ b \notin dirty
  BY <1>1, Zenon
<1> HIDE DEF pruned
<1> QED BY <1>1, <1>2, <1>3, Zenon DEF PruneInv, HonestFlags, SameFlags

(* After the write, the database and memory agree on every block.          *)
LEMMA WriteBatchSyncPrune ==
    ASSUME TypeOK, PruneInv, WriteBatchSync
    PROVE  PruneInv'
<1>1. /\ disk'.data = (disk.data \ dirty) \cup (mem.data \cap dirty)
      /\ disk'.undo = (disk.undo \ dirty) \cup (mem.undo \cap dirty)
      /\ UNCHANGED <<mem, blk, rev, fileOf, plan>> /\ dirty' = {} /\ pc = "index"
  BY Zenon DEF WriteBatchSync
<1>2. disk.data \subseteq Blocks /\ disk.undo \subseteq Blocks /\ mem.data \subseteq Blocks
      /\ mem.undo \subseteq Blocks
  BY FileTypes, Zenon DEF Flags
<1>3. disk'.data = mem.data
  BY <1>1, <1>2, Zenon DEF PruneInv, SameFlags
<1>4. disk'.undo = mem.undo
  BY <1>1, <1>2, Zenon DEF PruneInv, SameFlags
<1> QED BY <1>1, <1>3, <1>4, Zenon DEF PruneInv, HonestFlags, SameFlags

(* The files go after the database forgot their blocks.                    *)
LEMMA UnlinkPrune ==
    ASSUME TypeOK, PruneInv, UnlinkPrunedFiles
    PROVE  PruneInv'
<1> DEFINE gone == {b \in Blocks : fileOf[b] \in plan.prune}
<1>1. /\ blk' = blk \ gone /\ rev' = rev \ gone /\ UNCHANGED <<mem, disk, dirty, fileOf>>
      /\ pc = "unlink" /\ pc' = "coins"
  BY Zenon DEF UnlinkPrunedFiles
<1>2. disk.data \subseteq Blocks /\ disk.undo \subseteq Blocks /\ mem.data \subseteq Blocks
  BY FileTypes, Zenon DEF Flags
<1>3. disk.data = mem.data /\ disk.undo = mem.undo
  <2>1. dirty = {} /\ \A b \in Blocks : SameFlags(b)
    BY <1>1, Zenon DEF PruneInv
  <2>2. mem.undo \subseteq Blocks
    BY FileTypes, Zenon DEF Flags
  <2> QED BY <1>2, <2>1, <2>2, Zenon DEF SameFlags
<1>4. \A b \in mem.data : b \notin gone
  BY <1>1, <1>2, Zenon DEF PruneInv
<1> HIDE DEF gone
<1> QED BY <1>1, <1>3, <1>4, Zenon DEF PruneInv, HonestFlags, SameFlags

(* Only a loss of power takes file contents.                               *)
LEMMA CrashPrune ==
    ASSUME TypeOK, ~PowerLoss, PruneInv, Crash
    PROVE  PruneInv'
<1>1. mem' = disk /\ disk' = disk /\ dirty' = {} /\ pc' = "down"
  BY Zenon DEF Crash, LoadBlockIndexDB
<1>2. PICK lostBlk \in SUBSET {}, lostRev \in SUBSET {} :
         blk' = (blk \ lostBlk) \cap disk.data /\ rev' = (rev \ lostRev) \cap disk.undo
  BY Zenon DEF Crash
<1>3. blk' = disk.data /\ rev' = disk.undo
  BY <1>2, Zenon DEF PruneInv, HonestFlags
<1> QED BY <1>1, <1>3, Zenon DEF PruneInv, HonestFlags, SameFlags

LEMMA LoadPrune ==
    ASSUME TypeOK, PruneInv, pc = "down", LoadBlockIndex, UNCHANGED <<disk, rev>>,
           pc' \in {"running", "replay", "aborted"}
    PROVE  PruneInv'
<1>1. CASE Genesis \in disk.known
  BY <1>1, Zenon DEF LoadBlockIndex, PruneInv, HonestFlags, SameFlags
<1>2. CASE Genesis \notin disk.known
  <2>1. /\ mem'.data = mem.data \cup {Genesis} /\ mem'.undo = mem.undo
        /\ blk' = blk \cup {Genesis} /\ dirty' = {Genesis}
    BY <1>2, FileTypes, ZenonT(60) DEF LoadBlockIndex, Flags
  <2> QED BY <2>1, Zenon DEF PruneInv, HonestFlags, SameFlags
<1> QED BY <1>1, <1>2, Zenon

LEMMA NextPrune ==
    ASSUME ~PowerLoss, TypeOK, PruneInv, [Next]_vars
    PROVE  PruneInv'
<1>1. ASSUME NEW b \in Blocks, NEW newFile \in BOOLEAN, AcceptBlock(b, newFile) PROVE PruneInv'
  BY <1>1, AcceptBlockPrune, Zenon
<1>2. ASSUME NEW b \in Blocks, ConnectTip(b) PROVE PruneInv'
  BY <1>2, ConnectTipPrune, Zenon
<1>3. CASE DisconnectTip
  BY <1>3, PruneKept, Zenon DEF DisconnectTip
<1>4. CASE AbortNode
  BY <1>4, PruneKept, Zenon DEF AbortNode
<1>5. ASSUME NEW p \in Flushes, BeginFlush(p) PROVE PruneInv'
  BY <1>5, BeginFlushPrune, Zenon
<1>6. CASE FlushStep
  <2>1. CASE WriteFinal
    BY <2>1, PruneKept, Zenon DEF WriteFinal
  <2> QED BY <1>6, <2>1, WriteBatchSyncPrune, UnlinkPrune, Zenon DEF FlushStep
<1>7. ASSUME NEW S \in SUBSET Outpoints, WritePartial(S) PROVE PruneInv'
  BY <1>7, PruneKept, Zenon DEF WritePartial
<1>8. CASE Crash
  BY <1>8, CrashPrune, Zenon
<1>9. CASE Startup
  <2>1. CASE LoadChainTip
    BY <2>1, LoadPrune, Zenon DEF LoadChainTip
  <2>2. CASE StartReplay
    BY <2>2, LoadPrune, Zenon DEF StartReplay
  <2> QED BY <1>9, <2>1, <2>2, Zenon DEF Startup
<1>10. CASE ReplayStep
  <2>1. CASE RollbackBlock
    BY <2>1, PruneKept, Zenon DEF RollbackBlock
  <2>2. ASSUME NEW b \in Blocks, RollforwardBlock(b) PROVE PruneInv'
    BY <2>2, PruneKept, Zenon DEF RollforwardBlock
  <2>3. CASE EndReplay
    BY <2>3, PruneKept, Zenon DEF EndReplay
  <2> QED BY <1>10, <2>1, <2>2, <2>3, Zenon DEF ReplayStep
<1>11. CASE UNCHANGED vars
  BY <1>11, PruneKept, Zenon DEF vars
<1> QED
  BY <1>1, <1>2, <1>3, <1>4, <1>5, <1>6, <1>7, <1>8, <1>9, <1>10, <1>11, Zenon DEF Next

(* A running node never believes that it has a block or undo file that it  *)
(* pruned, wherever the process was killed; a loss of power is covered for *)
(* a node that does not prune and has a single block file.                 *)
THEOREM PruneHonest ==
    ASSUME PowerLoss => NothingPruned
    PROVE  Spec => []FlagsHonest
<1>1. CASE ~PowerLoss
  <2>1. Init => PruneInv
    BY PruneInit, Zenon
  <2>2. IndInv /\ PruneInv /\ [Next]_vars => PruneInv'
    BY <1>1, NextPrune, Zenon DEF IndInv
  <2>3. PruneInv => FlagsHonest
    BY Zenon DEF PruneInv, HonestFlags, FlagsHonest
  <2> QED BY <2>1, <2>2, <2>3, InitInv, NextInv, PTL DEF Spec
<1>2. CASE PowerLoss
  <2>1. NothingPruned
    BY <1>2, Zenon
  <2>2. Spec => []DiskInv
    BY <2>1, DiskInvHolds, Zenon
  <2>3. DiskInv => FlagsHonest
    BY Zenon DEF DiskInv, IndexSound, FlagsHonest
  <2> QED BY <2>2, <2>3, PTL
<1> QED BY <1>1, <1>2, Zenon
=============================================================================
