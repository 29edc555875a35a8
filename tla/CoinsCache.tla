----------------------------- MODULE CoinsCache -----------------------------
(***************************************************************************)
(* The stack of coin views of a running node: the view in which ConnectTip *)
(* and DisconnectTip change coins, on top of pcoinsTip, on top of the coin *)
(* database.  The thread in these functions holds cs_main, so pcoinsTip is *)
(* flushed and trimmed only while no view is open.                         *)
(***************************************************************************)
EXTENDS CoinsView

CONSTANTS Blocks, NullHash

ASSUME BlocksAssumption == NullHash \notin Blocks

VARIABLES db,        \* the coins in the database
          dbBest,    \* DB_BEST_BLOCK
          tip,       \* pcoinsTip->cacheCoins
          tipBest,   \* pcoinsTip->hashBlock, null until first asked for
          tipUsage,  \* pcoinsTip->cachedCoinsUsage
          view, viewBest, viewUsage,    \* the same of the open view
          open       \* a view is open

dbVars   == <<db, dbBest>>
tipVars  == <<tip, tipBest, tipUsage>>
viewVars == <<view, viewBest, viewUsage>>
vars     == <<dbVars, tipVars, viewVars, open>>

TipCoins  == View(tip, db)
ViewCoins == View(view, TipCoins)

(* GetBestBlock of a cache over a base.                                    *)
BestOf(hash, base) == IF hash = NullHash THEN base ELSE hash
TipBlock  == BestOf(tipBest, dbBest)
ViewBlock == BestOf(viewBest, TipBlock)

Init ==
    /\ db \in [Outpoints -> (Coins \ Unspendable) \cup {Spent}]
    /\ dbBest \in Blocks
    /\ tip = EmptyCache /\ tipBest = NullHash /\ tipUsage = 0
    /\ view = EmptyCache /\ viewBest = NullHash /\ viewUsage = 0
    /\ open = FALSE

-----------------------------------------------------------------------------
(* A read in the view fills every layer above the one that answers.        *)
FillTip(o) ==
    /\ tip' = IF view[o] = NoEntry THEN FetchCoin(tip, db, o) ELSE tip
    /\ tipUsage' = IF view[o] = NoEntry THEN tipUsage + FetchMemory(tip, db, o)
                                        ELSE tipUsage

(* ConnectTip or DisconnectTip constructs its view; ConnectBlock asserts   *)
(* that GetBestBlock is the parent block, which caches it in both layers.  *)
OpenView ==
    /\ ~open
    /\ open' = TRUE
    /\ tipBest' = TipBlock /\ viewBest' = TipBlock
    /\ UNCHANGED <<dbVars, tip, tipUsage, view, viewUsage>>

(* GetCoin, HaveCoin and AccessCoin on the view.                           *)
ReadView(o) ==
    /\ open
    /\ FillTip(o)
    /\ view' = FetchCoin(view, TipCoins, o)
    /\ viewUsage' = viewUsage + FetchMemory(view, TipCoins, o)
    /\ UNCHANGED <<dbVars, tipBest, viewBest, open>>

(* Fault for the mutation runs: overwrite is false without a HaveCoin.     *)
OverwriteGuessed(o, overwrite) == TRUE

(* The rule on overwrite that AddCoins and UndoCoinSpend keep: false only  *)
(* when HaveCoin was asked, or when BIP30 and BIP34 rule out an unspent    *)
(* coin with this outpoint.                                                *)
OverwriteDeclared(o, overwrite) ==
    overwrite \/ ViewCoins[o] = Spent \/ view[o] # NoEntry

AddToView(o, c, overwrite) ==
    /\ open
    /\ OverwriteDeclared(o, overwrite)
    /\ ~AddThrows(view, o, c, overwrite)
    /\ view' = AddCoin(view, o, c, overwrite)
    /\ viewUsage' = viewUsage + AddMemory(view, o, c)
    /\ UNCHANGED <<dbVars, tipVars, viewBest, open>>

SpendInView(o) ==
    /\ open
    /\ FillTip(o)
    /\ view' = SpendCoin(view, TipCoins, o)
    /\ viewUsage' = viewUsage + SpendMemory(view, TipCoins, o)
    /\ UNCHANGED <<dbVars, tipBest, viewBest, open>>

SetBestBlock(b) ==
    /\ open
    /\ viewBest' = b
    /\ UNCHANGED <<dbVars, tipVars, view, viewUsage, open>>

CloseView ==
    /\ view' = EmptyCache /\ viewBest' = NullHash /\ viewUsage' = 0
    /\ open' = FALSE

(* view.Flush() in ConnectTip and DisconnectTip, and the end of its scope. *)
FlushView ==
    /\ open
    /\ ~BatchThrows(view, tip)
    /\ tip' = BatchWrite(view, tip)
    /\ tipUsage' = tipUsage + BatchMemory(view, tip)
    /\ tipBest' = viewBest
    /\ CloseView
    /\ UNCHANGED dbVars

(* The block fails: the view goes out of scope unflushed.  So it does when *)
(* AddCoin throws, which ConnectBlock turns into "tx-duplicate".           *)
DropView ==
    /\ open
    /\ CloseView
    /\ UNCHANGED <<dbVars, tipVars>>

-----------------------------------------------------------------------------
(* pcoinsTip without a view: reads, Uncache after a rejected transaction,  *)
(* and Flush from FlushStateToDisk, which asks for GetBestBlock first.     *)
ReadTip(o) ==
    /\ ~open
    /\ tip' = FetchCoin(tip, db, o)
    /\ tipUsage' = tipUsage + FetchMemory(tip, db, o)
    /\ UNCHANGED <<dbVars, tipBest, viewVars, open>>

UncacheTip(o) ==
    /\ ~open
    /\ tip' = Uncache(tip, o)
    /\ tipUsage' = tipUsage + UncacheMemory(tip, o)
    /\ UNCHANGED <<dbVars, tipBest, viewVars, open>>

FlushTip ==
    /\ ~open
    /\ TipBlock # NullHash
    /\ db' = DbWrite(tip, db) /\ dbBest' = TipBlock
    /\ tipBest' = TipBlock
    /\ tip' = EmptyCache /\ tipUsage' = 0
    /\ UNCHANGED <<viewVars, open>>

Next ==
    \/ OpenView \/ FlushView \/ DropView \/ FlushTip
    \/ \E o \in Outpoints :
          \/ ReadView(o) \/ SpendInView(o) \/ ReadTip(o) \/ UncacheTip(o)
          \/ \E c \in Coins, overwrite \in BOOLEAN : AddToView(o, c, overwrite)
    \/ \E b \in Blocks : SetBestBlock(b)

Spec == Init /\ [][Next]_vars

-----------------------------------------------------------------------------
(* Each layer of the stack is a map of entries and a best block.           *)
TypeOK ==
    /\ db \in Views /\ dbBest \in Blocks
    /\ tip \in Caches /\ tipBest \in Blocks \cup {NullHash}
    /\ view \in Caches /\ viewBest \in Blocks \cup {NullHash}
    /\ open \in BOOLEAN

(* The flags are sound in both layers, after any sequence of reads, adds,  *)
(* spends, flushes of either layer, uncaching and dropped views: this is   *)
(* what keeps a coin from being lost or from coming back after a flush.    *)
FlagsSoundInv == FlagsSound(tip, db) /\ FlagsSound(view, TipCoins)

(* view.Flush() never throws "FRESH flag misapplied".                      *)
NeverMisapplied == ~BatchThrows(view, tip)

(* cachedCoinsUsage is the memory of the coins that are really cached, the *)
(* number the flush decision in FlushStateToDisk is made from.             *)
UsageExact == tipUsage = MemoryUsage(tip) /\ viewUsage = MemoryUsage(view)

(* The stack of caches behaves as one map of coins with one scratch view:  *)
(* no layering, flushing or trimming is visible.                           *)
Utxo == INSTANCE UtxoSet WITH
            tipCoins <- TipCoins, tipBlock <- TipBlock,
            viewCoins <- ViewCoins, viewBlock <- ViewBlock, open <- open
ImplementsUtxoSet == Utxo!Spec
=============================================================================
