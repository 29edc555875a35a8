----------------------------- MODULE ChainFlush -----------------------------
(***************************************************************************)
(* What a node keeps on disk and how it comes back from a crash: block and *)
(* undo files, the block tree database, and the coin database that is      *)
(* written in batches (FlushStateToDisk and CCoinsViewDB::BatchWrite), and *)
(* ReplayBlocks at startup.                                                *)
(*                                                                         *)
(* The coin at an outpoint is its nHeight: the same transaction in two     *)
(* branches gives different coins at one outpoint.  cs_main is held during *)
(* a flush, so only a crash can come between its steps.  Which block is    *)
(* connected or disconnected is the choice of the chain selection.         *)
(***************************************************************************)
EXTENDS BlockTree, CoinsView, Sequences

CONSTANTS Inputs, Outputs,   \* the outpoints each block spends and creates
          Coinbase,          \* the outpoints of coinbase transactions
          Utxo,              \* the coins after each block
          MaxFile,           \* block files are 0 .. MaxFile
          PruneMode,         \* fPruneMode
          KeepBlocks,        \* MIN_BLOCKS_TO_KEEP
          PowerLoss,         \* a crash may lose what was not synced
          MaxUnsynced,       \* coin batches that LevelDB keeps unsynced
          MaxCrashes

NonGenesis == Blocks \ {Genesis}

ASSUME OutpointsAssumption ==
    /\ Inputs \in [Blocks -> SUBSET Outpoints]
    /\ Outputs \in [Blocks -> SUBSET Outpoints]
    /\ Coinbase \subseteq Outpoints
    /\ Unspendable = {}
    /\ \A b \in NonGenesis : Height[b] \in Coins
    /\ PruneMode \in BOOLEAN /\ PowerLoss \in BOOLEAN
    /\ MaxFile \in Nat /\ MaxUnsynced \in Nat /\ MaxCrashes \in Nat

(* The genesis block's output is not in the set.                           *)
ASSUME UtxoAssumption ==
    /\ Utxo \in [Blocks -> Views]
    /\ \A o \in Outpoints : Utxo[Genesis][o] = Spent
    /\ \A b \in NonGenesis, o \in Outpoints :
          Utxo[b][o] = IF o \in Inputs[b] THEN Spent
                       ELSE IF o \in Outputs[b] THEN Height[b]
                       ELSE Utxo[Parent[b]][o]

(* The blocks are valid: inputs exist, and outputs are new (BIP30).        *)
ASSUME ValidAssumption ==
    \A b \in NonGenesis :
        /\ \A o \in Inputs[b] : o \in Outputs[b] \/ Utxo[Parent[b]][o] # Spent
        /\ \A o \in Outputs[b] : Utxo[Parent[b]][o] = Spent

VARIABLES
    db, dbBest, dbHeads,  \* the coin database, DB_BEST_BLOCK, DB_HEAD_BLOCKS
    dbLog,                \* its states that a power loss can bring back
    disk,                 \* the block tree database: blocks that are known,
                          \* that have data, that have undo data
    mem,                  \* the same in mapBlockIndex
    dirty,                \* setDirtyBlockIndex
    blk, rev,             \* blocks whose data, and undo data, is in a file
    blkSafe, revSafe,     \* the part of it that was committed (fdatasync)
    fileOf,               \* nFile of each block
    lastFile,             \* nLastBlockFile
    diskLastFile,         \* DB_LAST_BLOCK
    cache, best,          \* pcoinsTip and the tip; the replay's view
    cursor,               \* where ReplayBlocks is
    plan,                 \* of the flush: the files to prune, and whether
                          \* the coins are flushed
    pc, crashes

coinsDb   == <<db, dbBest, dbHeads, dbLog>>
blockDb   == <<disk, diskLastFile>>
files     == <<blk, rev, blkSafe, revSafe>>
blockMem  == <<mem, dirty, fileOf, lastFile>>
coinsMem  == <<cache, best>>
vars      == <<coinsDb, blockDb, files, blockMem, coinsMem, cursor, plan, pc, crashes>>

(* "down": not running.  "running".  In FlushStateToDisk, before "index":  *)
(* the block tree write, "unlink": UnlinkPrunedFiles, "coins": a coin      *)
(* batch.  In ReplayBlocks, "replay" and, in its Flush, "replayed".        *)
(* "aborted": AbortNode or a refused startup.                              *)
PCs == {"down", "running", "index", "unlink", "coins", "replay", "replayed", "aborted"}

NoPlan == [prune |-> {}, full |-> FALSE]

(* A new data directory whose genesis block was just connected.            *)
Init ==
    /\ db = [o \in Outpoints |-> Spent] /\ dbBest = NullHash /\ dbHeads = <<>>
    /\ dbLog = <<>>
    /\ disk = [known |-> {}, data |-> {}, undo |-> {}]
    /\ mem = [known |-> {Genesis}, data |-> {Genesis}, undo |-> {}]
    /\ dirty = {Genesis}
    /\ blk = {Genesis} /\ rev = {} /\ blkSafe = {} /\ revSafe = {}
    /\ fileOf = [b \in Blocks |-> 0] /\ lastFile = 0 /\ diskLastFile = 0
    /\ cache = EmptyCache /\ best = Genesis /\ cursor = NullHash
    /\ plan = NoPlan /\ pc = "running" /\ crashes = 0
-----------------------------------------------------------------------------
(* Blocks arrive and are connected and disconnected.                       *)

InFile(bs, f) == {b \in bs : fileOf[b] = f}

(* FlushBlockFile commits the last block file and its undo file.           *)
FlushBlockFile ==
    /\ blkSafe' = blkSafe \cup InFile(blk, lastFile)
    /\ revSafe' = revSafe \cup InFile(rev, lastFile)

(* The block goes to the last file, or to a new one, and then the last one *)
(* is committed.                                                           *)
FindBlockPos(b, newFile) ==
    /\ newFile => lastFile < MaxFile /\ InFile(blk, lastFile) # {}
    /\ lastFile' = IF newFile THEN lastFile + 1 ELSE lastFile
    /\ blkSafe' = (IF newFile THEN blkSafe \cup InFile(blk, lastFile) ELSE blkSafe) \ {b}
    /\ revSafe' = IF newFile THEN revSafe \cup InFile(rev, lastFile) ELSE revSafe
    /\ fileOf' = [fileOf EXCEPT ![b] = lastFile']

(* SaveBlockToDisk and ReceivedBlockTransactions.                          *)
AcceptBlock(b, newFile) ==
    /\ pc = "running"
    /\ Parent[b] \in mem.known /\ b \notin mem.data
    /\ FindBlockPos(b, newFile)
    /\ blk' = blk \cup {b}
    /\ mem' = [mem EXCEPT !.known = @ \cup {b}, !.data = @ \cup {b}]
    /\ dirty' = dirty \cup {b}
    /\ UNCHANGED <<coinsDb, blockDb, rev, coinsMem, cursor, plan, pc, crashes>>

(* A view on pcoinsTip in which ConnectBlock adds every output and then    *)
(* spends every input, flushed into pcoinsTip: what becomes of the entry e *)
(* of pcoinsTip over the coin of the database.                             *)
ConnectEntry(e, coin, b, o) ==
    LET added == IF o \in Outputs[b] THEN AddEntry(NoEntry, Height[b], o \in Coinbase)
                                     ELSE NoEntry
        child == IF o \in Inputs[b] THEN SpendEntry(FetchEntry(added, Seen(e, coin)))
                                    ELSE added
    IN  MergeEntry(child, IF o \in Inputs[b] \ Outputs[b] THEN FetchEntry(e, coin) ELSE e)

(* The coin that the undo data of b holds for its input o.                 *)
UndoCoin(b, o) == IF o \in Outputs[b] THEN Height[b] ELSE Utxo[Parent[b]][o]

(* ApplyBlockUndo in a view with entry e over a coin: every input is       *)
(* restored, overwriting what HaveCoin finds, then every output is spent.  *)
UndoEntry(e, coin, b, o) ==
    LET found    == FetchEntry(e, coin)
        restored == IF o \in Inputs[b]
                    THEN AddEntry(found, UndoCoin(b, o), Seen(found, coin) # Spent)
                    ELSE e
    IN  IF o \in Outputs[b] THEN SpendEntry(FetchEntry(restored, coin)) ELSE restored

(* DISCONNECT_OK rather than DISCONNECT_UNCLEAN.                           *)
UndoClean(coins, b) ==
    /\ \A o \in Inputs[b] : coins[o] = Spent
    /\ \A o \in Outputs[b] \ Inputs[b] : coins[o] = Height[b]

(* Fault for the mutation runs: inputs are spent before outputs are added. *)
RedoSpendFirst(e, coin, b, o) ==
    LET spent == IF o \in Inputs[b] THEN SpendEntry(FetchEntry(e, coin)) ELSE e
        found == FetchEntry(spent, coin)
    IN  IF o \in Outputs[b] THEN AddEntry(found, Height[b], Seen(found, coin) # Spent)
                            ELSE spent

(* RollforwardBlock: AddCoins with check = true, then SpendCoin.           *)
RedoEntry(e, coin, b, o) ==
    LET found == FetchEntry(e, coin)
        added == IF o \in Outputs[b]
                 THEN AddEntry(found, Height[b], Seen(found, coin) # Spent)
                 ELSE e
    IN  IF o \in Inputs[b] THEN SpendEntry(FetchEntry(added, coin)) ELSE added

(* Fault for the mutation runs: the new undo position is not marked dirty. *)
WriteUndoDataNotDirty(b) ==
    /\ mem' = [mem EXCEPT !.undo = @ \cup {b}]
    /\ rev' = IF b \in mem.undo THEN rev ELSE rev \cup {b}
    /\ revSafe' = IF b \in mem.undo THEN revSafe ELSE revSafe \ {b}
    /\ dirty' = dirty

(* WriteUndoDataForBlock, when the block has no undo position yet.         *)
WriteUndoDataForBlock(b) ==
    /\ mem' = [mem EXCEPT !.undo = @ \cup {b}]
    /\ rev' = IF b \in mem.undo THEN rev ELSE rev \cup {b}
    /\ revSafe' = IF b \in mem.undo THEN revSafe ELSE revSafe \ {b}
    /\ dirty' = IF b \in mem.undo THEN dirty ELSE dirty \cup {b}

ConnectTip(b) ==
    /\ pc = "running"
    /\ b \in mem.data /\ Parent[b] = best
    /\ b \in blk
    /\ WriteUndoDataForBlock(b)
    /\ cache' = [o \in Outpoints |-> ConnectEntry(cache[o], db[o], b, o)]
    /\ best' = b
    /\ UNCHANGED <<coinsDb, blockDb, blk, blkSafe, fileOf, lastFile, cursor,
                   plan, pc, crashes>>

(* Can the block and its undo data be read?                                *)
Readable(b) == b \in mem.data \cap blk
Undoable(b) == Readable(b) /\ b \in mem.undo \cap rev

DisconnectTip ==
    /\ pc = "running"
    /\ best # Genesis
    /\ Undoable(best) /\ UndoClean(View(cache, db), best)
    /\ cache' = [o \in Outpoints |->
                    LET child == UndoEntry(NoEntry, Seen(cache[o], db[o]), best, o)
                        read  == o \in Inputs[best] \cup Outputs[best]
                    IN  MergeEntry(child, IF read THEN FetchEntry(cache[o], db[o])
                                                  ELSE cache[o])]
    /\ best' = Parent[best]
    /\ UNCHANGED <<coinsDb, blockDb, files, blockMem, cursor, plan, pc, crashes>>

(* A block or its undo data cannot be read, or does not fit: AbortNode.    *)
AbortNode ==
    /\ pc = "running"
    /\ \/ \E b \in mem.data : Parent[b] = best /\ b \notin blk
       \/ best # Genesis /\ ~(Undoable(best) /\ UndoClean(View(cache, db), best))
    /\ pc' = "aborted"
    /\ UNCHANGED <<coinsDb, blockDb, files, blockMem, coinsMem, cursor, plan, crashes>>
-----------------------------------------------------------------------------
(* FlushStateToDisk.                                                       *)

(* FindFilesToPrune goes through the files in order, up to some m, and     *)
(* FindFilesToPruneManual up to the height h: only files below the last    *)
(* one whose blocks are all KeepBlocks below the tip.  (The wrap-around of *)
(* the unsigned subtraction is ruled out by nPruneAfterHeight.)            *)
FilesToPrune(m, h) ==
    {f \in 0 .. lastFile - 1 :
        /\ f <= m
        /\ InFile(mem.data, f) # {}
        /\ \A b \in InFile(mem.data, f) :
              Height[b] <= h /\ Height[b] + KeepBlocks <= Height[best]}

Flushes ==
    {[prune |-> {}, full |-> full] : full \in BOOLEAN} \cup
    IF PruneMode
    THEN {[prune |-> FilesToPrune(m, h), full |-> TRUE] :
              m \in 0 .. MaxFile, h \in {Height[b] : b \in Blocks}}
    ELSE {}

(* Faults for the mutation runs: a full flush leaves out the block index,  *)
(* and files are deleted before the block index says so.                   *)
FirstWriteCoins(p)  == IF p.full THEN "coins" ELSE "index"
FirstWriteUnlink(p) == IF p.prune # {} THEN "unlink" ELSE "index"

(* "This can only be done if the blocks / block index write was also done" *)
FirstWrite(p) == "index"

(* PruneOneBlockFile for each file to prune, then FlushBlockFile.  Without *)
(* full this is the periodic write of the block index only.                *)
BeginFlush(p) ==
    /\ pc = "running"
    /\ plan' = p
    /\ LET pruned == {b \in mem.data : fileOf[b] \in p.prune} IN
          /\ mem' = [mem EXCEPT !.data = @ \ pruned, !.undo = @ \ pruned]
          /\ dirty' = dirty \cup pruned
    /\ FlushBlockFile
    /\ pc' = FirstWrite(p)
    /\ UNCHANGED <<coinsDb, blockDb, blk, rev, fileOf, lastFile, coinsMem,
                   cursor, crashes>>

AfterIndex == IF plan.prune # {} THEN "unlink"
              ELSE IF plan.full THEN "coins" ELSE "running"

(* WriteBatchSync: the dirty entries and DB_LAST_BLOCK, in one batch.      *)
WriteBatchSync ==
    /\ pc = "index"
    /\ disk' = [known |-> disk.known \cup dirty,
                data  |-> (disk.data \ dirty) \cup (mem.data \cap dirty),
                undo  |-> (disk.undo \ dirty) \cup (mem.undo \cap dirty)]
    /\ diskLastFile' = lastFile
    /\ dirty' = {}
    /\ pc' = AfterIndex
    /\ UNCHANGED <<coinsDb, files, mem, fileOf, lastFile, coinsMem, cursor, plan, crashes>>

UnlinkPrunedFiles ==
    /\ pc = "unlink"
    /\ LET gone == {b \in Blocks : fileOf[b] \in plan.prune} IN
          /\ blk' = blk \ gone /\ blkSafe' = blkSafe \ gone
          /\ rev' = rev \ gone /\ revSafe' = revSafe \ gone
    /\ pc' = "coins"
    /\ UNCHANGED <<coinsDb, blockDb, blockMem, coinsMem, cursor, plan, crashes>>

(* CCoinsViewDB::BatchWrite.  LevelDB writes these batches without a sync. *)
OldTip == IF dbBest # NullHash THEN dbBest
          ELSE IF dbHeads # <<>> THEN dbHeads[2] ELSE NullHash

LogBatch ==
    LET log == Append(dbLog, [coins |-> db, best |-> dbBest, heads |-> dbHeads])
    IN  dbLog' = IF ~PowerLoss THEN <<>>
                 ELSE IF Len(log) <= MaxUnsynced THEN log ELSE Tail(log)

(* Fault for the mutation runs: a partial batch leaves no mark.            *)
MarkNothing ==
    /\ dbBest' = dbBest
    /\ dbHeads' = dbHeads

(* The first batch marks the transition; later ones leave the same mark.   *)
MarkTransition ==
    /\ dbBest' = NullHash
    /\ dbHeads' = <<best, OldTip>>

(* A partial batch with the entries at S, which leave the cache.           *)
WritePartial(S) ==
    /\ pc \in {"coins", "replayed"}
    /\ S # {} /\ \A o \in S : cache[o] # NoEntry
    /\ LogBatch
    /\ db' = [o \in Outpoints |-> IF o \in S THEN DbEntry(cache[o], db[o]) ELSE db[o]]
    /\ cache' = [o \in Outpoints |-> IF o \in S THEN NoEntry ELSE cache[o]]
    /\ MarkTransition
    /\ UNCHANGED <<blockDb, files, blockMem, best, cursor, plan, pc, crashes>>

(* The last batch.  After a replay, LoadChainTip makes best the tip.       *)
WriteFinal ==
    /\ pc \in {"coins", "replayed"}
    /\ LogBatch
    /\ db' = DbWrite(cache, db) /\ cache' = EmptyCache
    /\ dbBest' = best /\ dbHeads' = <<>>
    /\ plan' = NoPlan
    /\ pc' = "running"
    /\ UNCHANGED <<blockDb, files, blockMem, best, cursor, crashes>>

-----------------------------------------------------------------------------
(* Crash and startup.                                                      *)

(* What startup will find in the block tree database.                      *)
LoadBlockIndexDB ==
    mem' = disk /\ dirty' = {} /\ lastFile' = diskLastFile

(* The process ends.  A loss of power also takes any of the file writes    *)
(* that were not committed, and a suffix of the coin batches.  Bytes that  *)
(* no entry of the block tree database points to are dead.                 *)
Crash ==
    /\ pc \notin {"down", "aborted"} /\ crashes < MaxCrashes
    /\ crashes' = crashes + 1
    /\ \E lostBlk \in SUBSET (IF PowerLoss THEN blk \ blkSafe ELSE {}),
          lostRev \in SUBSET (IF PowerLoss THEN rev \ revSafe ELSE {}) :
          /\ blk' = (blk \ lostBlk) \cap disk.data
          /\ rev' = (rev \ lostRev) \cap disk.undo
    /\ blkSafe' = blk' /\ revSafe' = rev'
    /\ \/ UNCHANGED <<db, dbBest, dbHeads>>
       \/ \E i \in DOMAIN dbLog : /\ db' = dbLog[i].coins
                                  /\ dbBest' = dbLog[i].best
                                  /\ dbHeads' = dbLog[i].heads
    /\ dbLog' = <<>>
    /\ LoadBlockIndexDB
    /\ cache' = EmptyCache /\ best' = NullHash /\ cursor' = NullHash
    /\ plan' = NoPlan
    /\ pc' = "down"
    /\ UNCHANGED <<blockDb, fileOf>>

(* LoadBlockIndex, then LoadGenesisBlock unless the index has the block.   *)
LoadBlockIndex ==
    IF Genesis \in disk.known
    THEN UNCHANGED <<mem, dirty, blk, blkSafe, fileOf>>
    ELSE /\ mem' = [mem EXCEPT !.known = @ \cup {Genesis}, !.data = @ \cup {Genesis}]
         /\ dirty' = {Genesis}
         /\ blk' = blk \cup {Genesis} /\ blkSafe' = blkSafe \ {Genesis}
         /\ fileOf' = [fileOf EXCEPT ![Genesis] = lastFile]

(* Without head blocks: LoadChainTip, or, with an empty coin database, the *)
(* genesis block is connected from its file.                               *)
LoadChainTip ==
    /\ pc = "down"
    /\ dbHeads = <<>>
    /\ LoadBlockIndex
    /\ best' = IF dbBest = NullHash THEN Genesis ELSE dbBest
    /\ pc' = IF best' \in mem'.known /\ (dbBest = NullHash => Genesis \in mem'.data \cap blk')
             THEN "running" ELSE "aborted"
    /\ UNCHANGED <<coinsDb, blockDb, rev, revSafe, lastFile, cache, cursor, plan, crashes>>

(* ReplayBlocks: with no old tip it starts above the genesis block.        *)
StartReplay ==
    /\ pc = "down"
    /\ dbHeads # <<>>
    /\ LoadBlockIndex
    /\ cursor' = IF dbHeads[2] = NullHash THEN Genesis ELSE dbHeads[2]
    /\ pc' = IF dbHeads[1] \in mem'.known /\ cursor' \in mem'.known
             THEN "replay" ELSE "aborted"
    /\ UNCHANGED <<coinsDb, blockDb, rev, revSafe, lastFile, coinsMem, plan, crashes>>

(* Fault for the mutation runs: an unclean rollback is refused.            *)
RollbackOkOnlyClean == Undoable(cursor) /\ UndoClean(View(cache, db), cursor)

RollbackOk == Undoable(cursor)

(* One block of the old branch, down to the fork.                          *)
RollbackBlock ==
    /\ pc = "replay"
    /\ cursor \notin Ancestors[dbHeads[1]] /\ cursor # Genesis
    /\ IF RollbackOk
       THEN /\ cache' = [o \in Outpoints |-> UndoEntry(cache[o], db[o], cursor, o)]
            /\ cursor' = Parent[cursor]
            /\ pc' = pc
       ELSE pc' = "aborted" /\ UNCHANGED <<cache, cursor>>
    /\ UNCHANGED <<coinsDb, blockDb, files, blockMem, best, plan, crashes>>

(* One block of the new branch, from the fork up.                          *)
RollforwardBlock(b) ==
    /\ pc = "replay"
    /\ cursor \in Ancestors[dbHeads[1]]
    /\ b \in Ancestors[dbHeads[1]] /\ Parent[b] = cursor
    /\ IF Readable(b)
       THEN /\ cache' = [o \in Outpoints |-> RedoEntry(cache[o], db[o], b, o)]
            /\ cursor' = b
            /\ pc' = pc
       ELSE pc' = "aborted" /\ UNCHANGED <<cache, cursor>>
    /\ UNCHANGED <<coinsDb, blockDb, files, blockMem, best, plan, crashes>>

(* SetBestBlock, and the Flush that follows.                               *)
EndReplay ==
    /\ pc = "replay"
    /\ cursor = dbHeads[1]
    /\ best' = cursor /\ cursor' = NullHash
    /\ pc' = "replayed"
    /\ UNCHANGED <<coinsDb, blockDb, files, blockMem, cache, plan, crashes>>

-----------------------------------------------------------------------------
ReplayStep == RollbackBlock \/ (\E b \in Blocks : RollforwardBlock(b)) \/ EndReplay
FlushStep  == WriteBatchSync \/ UnlinkPrunedFiles \/ WriteFinal
Startup    == LoadChainTip \/ StartReplay

Next ==
    \/ \E b \in Blocks : (\E newFile \in BOOLEAN : AcceptBlock(b, newFile)) \/ ConnectTip(b)
    \/ DisconnectTip \/ AbortNode
    \/ pc = "running" /\ \E p \in Flushes : BeginFlush(p)
    \/ FlushStep
    \/ \E S \in SUBSET Outpoints : WritePartial(S)
    \/ Crash \/ Startup \/ ReplayStep

(* A node that stopped is started again, and a thread inside startup or a  *)
(* flush goes on.                                                          *)
Fairness ==
    WF_vars(Startup) /\ WF_vars(ReplayStep) /\ WF_vars(FlushStep)

Spec == Init /\ [][Next]_vars /\ Fairness

-----------------------------------------------------------------------------
Flags == [known : SUBSET Blocks, data : SUBSET Blocks, undo : SUBSET Blocks]
MaybeBlock == Blocks \cup {NullHash}
Heads == {<<>>} \cup (Blocks \X MaybeBlock)

(* The state on disk and in memory stays within its types; in particular   *)
(* the head blocks of an interrupted flush are a new tip and an old one.   *)
TypeOK ==
    /\ db \in Views /\ dbBest \in MaybeBlock /\ dbHeads \in Heads
    /\ dbLog \in Seq([coins : Views, best : MaybeBlock, heads : Heads])
    /\ disk \in Flags /\ mem \in Flags /\ dirty \in SUBSET Blocks
    /\ blk \in SUBSET Blocks /\ rev \in SUBSET Blocks
    /\ blkSafe \in SUBSET blk /\ revSafe \in SUBSET rev
    /\ fileOf \in [Blocks -> Nat] /\ lastFile \in Nat /\ diskLastFile \in Nat
    /\ cache \in Caches /\ best \in MaybeBlock /\ cursor \in MaybeBlock
    /\ plan \in [prune : SUBSET Nat, full : BOOLEAN]
    /\ pc \in PCs /\ crashes \in Nat

(* The coins before the first block and after a block.                     *)
CoinsAt(b) == IF b = NullHash THEN Utxo[Genesis] ELSE Utxo[b]

(* A coin database that names a best block, or none and no head blocks,    *)
(* holds the coins of exactly that block: a flush that stops anywhere, and *)
(* a replay that stops anywhere, are never taken for a finished one.       *)
CoinsOfBest == dbHeads = <<>> => db = CoinsAt(dbBest)

(* "In the first batch, mark the database as being in the middle of a      *)
(* transition from old_tip to hashBlock": between two batches every coin   *)
(* is the one of the old tip or the one of the new tip, and no best block  *)
(* is named, also after crashes in the middle of replays.                  *)
InTransition ==
    dbHeads # <<>> =>
        /\ dbBest = NullHash
        /\ \A o \in Outpoints : db[o] \in {CoinsAt(dbHeads[1])[o], CoinsAt(dbHeads[2])[o]}

(* What a running node reads through pcoinsTip are the coins of its tip,   *)
(* also when startup had to replay a flush, or several.                    *)
TipCoinsExact ==
    pc \in {"running", "index", "unlink", "coins", "replayed"} =>
        View(cache, db) = Utxo[best]

(* assert(old_heads[0] == hashBlock) in CCoinsViewDB::BatchWrite.          *)
SameTransition ==
    pc \in {"coins", "replayed"} /\ dbHeads # <<>> => dbHeads[1] = best

(* "Flush best chain related state. This can only be done if the blocks /  *)
(* block index write was also done": the block tree database has every     *)
(* block that the coin database needs to be rolled back or forward.        *)
Needed == UNION {Ancestors[b] : b \in Blocks \cap ({dbBest} \cup {dbHeads[i] : i \in DOMAIN dbHeads})}
IndexBeforeCoins ==
    /\ Needed \subseteq disk.data \cap blk
    /\ Needed \ {Genesis} \subseteq disk.undo \cap rev

(* Neither startup nor a change of tip finds a block or undo data missing  *)
(* or inconsistent with the coins.                                         *)
NeverAborts == pc # "aborted"

(* "Block and undo files are deleted in lock-step" and "the block index is *)
(* updated by unsetting HAVE_DATA and HAVE_UNDO": a running node never     *)
(* believes that it has a file it deleted, wherever a crash fell.          *)
FlagsHonest == pc = "running" => mem.data \subseteq blk /\ mem.undo \subseteq rev

(* A node that stops, wherever it was, runs again: replaying a flush that  *)
(* was interrupted ends, whatever the earlier crashes left.                *)
Recovers == pc = "down" ~> pc = "running"
=============================================================================
