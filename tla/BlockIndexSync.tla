--------------------------- MODULE BlockIndexSync ---------------------------
(***************************************************************************)
(* BaseIndex of src/src/index/base.cpp, with the transaction index of      *)
(* src/src/index/txindex.cpp: a database on the side that follows the      *)
(* active chain.  A thread of its own brings the index up to the tip;      *)
(* after that the notifications BlockConnected and ChainStateFlushed keep  *)
(* it there.  The notifications arrive through the queue of CMainSignals,  *)
(* here the sequence that module CallbackQueue specifies.                  *)
(*                                                                         *)
(* A step of the chain, and a region of the code that holds cs_main, is    *)
(* one step.  A crash is the end of the process: what was written to the   *)
(* index database stays, the chain goes back to the last flush.            *)
(***************************************************************************)
EXTENDS BlockTree, Sequences

CONSTANTS Txs, NoBlock,
          TxsOf,           \* the transactions of a block
          MaxChainSteps,   \* bound: blocks connected or disconnected
          MaxRestarts,     \* bound: shutdowns and crashes
          CrashAt,         \* the places of ThreadSync where a crash may come
          InterruptEarly   \* whether a shutdown may interrupt ThreadSync
                           \* before its first block

ASSUME IndexAssumption ==
    /\ TxsOf \in [Blocks -> SUBSET Txs]
    /\ NoBlock \notin Blocks
    /\ MaxChainSteps \in Nat /\ MaxRestarts \in Nat

(* A chain does not have a transaction twice (BIP30).                      *)
ASSUME NoTxTwice ==
    \A b \in Blocks : \A a \in Ancestors[b] \ {b} : TxsOf[a] \cap TxsOf[b] = {}

VARIABLES
    tip,            \* ::ChainActive().Tip()
    diskTip,        \* the tip as of the last FlushStateToDisk
    queue,          \* notifications not yet delivered: records of kind, block
    registered,     \* the index receives them
    m_synced, m_best_block_index, m_interrupt,
    locator,        \* DB_BEST_BLOCK: the first block of the locator
    indexed,        \* blocks whose transactions were written (WriteBlock)
    txPos,          \* the block a transaction's stored position is in
    pc,             \* where ThreadSync is
    pindex,         \* its local variable
    node,           \* "up", "stopping" or "down"
    caller,         \* a thread in BlockUntilSyncedToCurrentChain
    callTip,        \* the tip when it called
    steps, restarts \* counters for the bounds

chainVars == <<tip, diskTip, node, steps, restarts>>
dbVars    == <<locator, indexed, txPos>>
memVars   == <<m_synced, m_best_block_index, m_interrupt, registered>>
callVars  == <<caller, callTip>>
vars      == <<chainVars, queue, memVars, dbVars, pc, pindex, callVars>>

Active == Ancestors[tip]

(* GetAncestor(h), NullHash if h is above the block.                       *)
GetAncestor(b, h) ==
    IF \E a \in Ancestors[b] : Height[a] = h
    THEN CHOOSE a \in Ancestors[b] : Height[a] = h ELSE NullHash

(* ::ChainActive().FindFork.  FindForkInGlobalIndex gives the same for a   *)
(* locator, which lists the block and the ones below it.                   *)
FindFork(b) == CHOOSE a \in Ancestors[b] \cap Active :
                   \A c \in Ancestors[b] \cap Active : Height[c] <= Height[a]

(* ::ChainActive().Next, NullHash at the tip.                              *)
NextActive(b) == GetAncestor(tip, Height[b] + 1)

(* Faults for the mutation runs: a block that left the chain is not traced *)
(* back to the fork; the fork itself is the next block.                    *)
NextSyncByHeight(b) == IF b = NullHash THEN Genesis ELSE NextActive(b)
NextSyncFork(b)     == IF b = NullHash THEN Genesis ELSE FindFork(b)

NextSyncBlock(b) == IF b = NullHash THEN Genesis ELSE NextActive(FindFork(b))

Init ==
    /\ tip = Genesis /\ diskTip = Genesis /\ node = "up"
    /\ queue = <<>> /\ registered = FALSE
    /\ m_synced = FALSE /\ m_best_block_index = NullHash /\ m_interrupt = FALSE
    /\ locator = NullHash /\ indexed = {} /\ txPos = [t \in Txs |-> NoBlock]
    /\ pc = "off" /\ pindex = NullHash
    /\ caller = "idle" /\ callTip = Genesis
    /\ steps = 0 /\ restarts = 0

-----------------------------------------------------------------------------
(* The chain.                                                              *)

ConnectBlock(b) ==
    /\ node = "up" /\ steps < MaxChainSteps
    /\ Parent[b] = tip
    /\ tip' = b
    /\ queue' = Append(queue, [kind |-> "connected", block |-> b])
    /\ steps' = steps + 1
    /\ UNCHANGED <<diskTip, node, restarts, memVars, dbVars, pc, pindex, callVars>>

DisconnectBlock ==
    /\ node = "up" /\ steps < MaxChainSteps
    /\ tip # Genesis
    /\ tip' = Parent[tip]
    /\ steps' = steps + 1
    /\ UNCHANGED <<diskTip, node, restarts, queue, memVars, dbVars, pc, pindex, callVars>>

FlushStateToDisk ==
    /\ node = "up" /\ diskTip # tip
    /\ diskTip' = tip
    /\ queue' = Append(queue, [kind |-> "flushed", block |-> tip])
    /\ UNCHANGED <<tip, node, steps, restarts, memVars, dbVars, pc, pindex, callVars>>

-----------------------------------------------------------------------------
(* Writing.                                                                *)

(* TxIndex::WriteBlock: the genesis block is left out.                     *)
WriteBlock(b) ==
    IF b = Genesis THEN UNCHANGED <<indexed, txPos>>
    ELSE /\ indexed' = indexed \cup {b}
         /\ txPos' = [t \in Txs |-> IF t \in TxsOf[b] THEN b ELSE txPos[t]]

(* CommitInternal: GetLocator takes the tip where it is given no block.    *)
Commit(best) == locator' = IF best = NullHash THEN tip ELSE best

-----------------------------------------------------------------------------
(* Start registers the index, and then calls Init and starts ThreadSync.   *)

Start ==
    /\ node = "up" /\ pc = "off"
    /\ registered' = TRUE
    /\ pc' = "init"
    /\ UNCHANGED <<chainVars, queue, m_synced, m_best_block_index, m_interrupt, dbVars, pindex,
                   callVars>>

InitIndex ==
    /\ pc = "init"
    /\ \E best \in {IF locator = NullHash THEN NullHash ELSE FindFork(locator)} :
          /\ m_best_block_index' = best
          /\ m_synced' = (best = tip)
          /\ pindex' = best
          /\ pc' = IF best = tip THEN "done" ELSE "top"
    /\ UNCHANGED <<chainVars, queue, registered, m_interrupt, dbVars, callVars>>

-----------------------------------------------------------------------------
(* ThreadSync.  pc: "top", the head of the loop; "time", the next block is *)
(* chosen and cs_main is free; "write", the locator is written or not due; *)
(* "synced", m_synced is set and the last Commit is still to come.         *)

SyncInterrupted ==
    /\ pc = "top" /\ m_interrupt
    /\ m_best_block_index' = pindex
    /\ Commit(pindex)
    /\ pc' = "done"
    /\ UNCHANGED <<chainVars, queue, m_synced, m_interrupt, registered, indexed, txPos, pindex,
                   callVars>>

SyncNext ==
    /\ pc = "top" /\ ~m_interrupt
    /\ IF NextSyncBlock(pindex) = NullHash
       THEN /\ m_best_block_index' = pindex
            /\ m_synced' = TRUE
            /\ pc' = "synced"
            /\ UNCHANGED pindex
       ELSE /\ pindex' = NextSyncBlock(pindex)
            /\ pc' = "time"
            /\ UNCHANGED <<m_best_block_index, m_synced>>
    /\ UNCHANGED <<chainVars, queue, m_interrupt, registered, dbVars, callVars>>

SyncLastCommit ==
    /\ pc = "synced"
    /\ Commit(m_best_block_index)
    /\ pc' = "done"
    /\ UNCHANGED <<chainVars, queue, memVars, indexed, txPos, pindex, callVars>>

(* Every SYNC_LOCATOR_WRITE_INTERVAL seconds the position is written.      *)
SyncCommit ==
    /\ pc = "time"
    /\ m_best_block_index' = pindex
    /\ Commit(pindex)
    /\ pc' = "write"
    /\ UNCHANGED <<chainVars, queue, m_synced, m_interrupt, registered, indexed, txPos, pindex,
                   callVars>>

(* The block is read from disk and written to the index.                   *)
SyncWrite ==
    /\ pc \in {"time", "write"}
    /\ WriteBlock(pindex)
    /\ pc' = "top"
    /\ UNCHANGED <<chainVars, queue, memVars, locator, pindex, callVars>>

ThreadSync == SyncInterrupted \/ SyncNext \/ SyncLastCommit \/ SyncCommit \/ SyncWrite

-----------------------------------------------------------------------------
(* Notifications, delivered one at a time in order.                        *)

(* Fault for the mutation runs: every block is taken.                      *)
ConnectsAlways(b) == TRUE

(* A block that does not connect to an ancestor of the best block is       *)
(* ignored, with a warning.                                                *)
Connects(b) == GetAncestor(m_best_block_index, Height[b] - 1) = Parent[b]

BlockConnected(b) ==
    IF m_synced /\ Connects(b)
    THEN /\ WriteBlock(b)
         /\ m_best_block_index' = b
         /\ UNCHANGED locator
    ELSE UNCHANGED <<m_best_block_index, dbVars>>

ChainStateFlushed(b) ==
    /\ IF m_synced /\ GetAncestor(m_best_block_index, Height[b]) = b
       THEN Commit(m_best_block_index) ELSE UNCHANGED locator
    /\ UNCHANGED <<m_best_block_index, indexed, txPos>>

Deliver ==
    /\ node # "down" /\ queue # <<>>
    /\ queue' = Tail(queue)
    /\ \E e \in {Head(queue)} :
          /\ CASE e.kind = "connected" /\ registered -> BlockConnected(e.block)
               [] e.kind = "flushed" /\ registered   -> ChainStateFlushed(e.block)
               [] OTHER -> UNCHANGED <<m_best_block_index, dbVars>>
          /\ caller' = IF e.kind = "wait" THEN "returned" ELSE caller
    /\ UNCHANGED <<chainVars, m_synced, m_interrupt, registered, pc, pindex, callTip>>

(* Fault for the mutation runs: the best block only has to be as high.     *)
HighEnough == Height[m_best_block_index] >= Height[tip]

(* The best block is the tip or a successor of it.                         *)
HasTip == GetAncestor(m_best_block_index, Height[tip]) = tip

(* BlockUntilSyncedToCurrentChain, and SyncWithValidationInterfaceQueue,   *)
(* which queues a callback and waits for it.                               *)
BlockUntilSyncedToCurrentChain ==
    /\ node = "up" /\ registered /\ m_synced /\ caller # "waiting"
    /\ callTip' = tip
    /\ IF HasTip
       THEN caller' = "returned" /\ UNCHANGED queue
       ELSE /\ caller' = "waiting"
            /\ queue' = Append(queue, [kind |-> "wait", block |-> tip])
    /\ UNCHANGED <<chainVars, memVars, dbVars, pc, pindex>>

-----------------------------------------------------------------------------
(* Interrupt and Shutdown of init.cpp: m_interrupt is set; RPC calls end;  *)
(* Stop unregisters the index and joins ThreadSync; then the chain state   *)
(* is flushed.                                                             *)

Interrupt ==
    /\ node = "up" /\ pc \notin {"off", "init"} /\ ~m_interrupt /\ restarts < MaxRestarts
    /\ InterruptEarly \/ pindex # NullHash
    /\ m_interrupt' = TRUE
    /\ UNCHANGED <<chainVars, queue, m_synced, m_best_block_index, registered, dbVars, pc, pindex,
                   callVars>>

StopIndex ==
    /\ node = "up" /\ m_interrupt /\ caller # "waiting"
    /\ registered' = FALSE
    /\ node' = "stopping"
    /\ UNCHANGED <<tip, diskTip, steps, restarts, queue, m_synced, m_best_block_index, m_interrupt,
                   dbVars, pc, pindex, callVars>>

ProcessEnds ==
    /\ node' = "down" /\ restarts' = restarts + 1
    /\ queue' = <<>> /\ registered' = FALSE
    /\ m_synced' = FALSE /\ m_best_block_index' = NullHash /\ m_interrupt' = FALSE
    /\ pc' = "off" /\ pindex' = NullHash
    /\ caller' = "idle" /\ callTip' = Genesis
    /\ UNCHANGED <<steps, dbVars>>

Shutdown ==
    /\ node = "stopping" /\ pc = "done"
    /\ diskTip' = tip
    /\ ProcessEnds /\ UNCHANGED tip

Crash ==
    /\ node # "down" /\ restarts < MaxRestarts
    /\ pc \in CrashAt
    /\ tip' = diskTip
    /\ ProcessEnds /\ UNCHANGED diskTip

Restart == node = "down" /\ node' = "up"
           /\ UNCHANGED <<tip, diskTip, steps, restarts, queue, memVars, dbVars, pc, pindex, callVars>>

-----------------------------------------------------------------------------
Next ==
    \/ \E b \in Blocks : ConnectBlock(b)
    \/ DisconnectBlock \/ FlushStateToDisk
    \/ Start \/ InitIndex
    \/ ThreadSync \/ Deliver \/ BlockUntilSyncedToCurrentChain
    \/ Interrupt \/ StopIndex \/ Shutdown \/ Crash \/ Restart

Spec ==
    /\ Init /\ [][Next]_vars
    /\ WF_vars(Start) /\ WF_vars(InitIndex) /\ WF_vars(ThreadSync) /\ WF_vars(Deliver)

-----------------------------------------------------------------------------
TypeOK ==
    /\ tip \in Blocks /\ diskTip \in Blocks
    /\ queue \in Seq([kind : {"connected", "flushed", "wait"}, block : Blocks])
    /\ m_best_block_index \in Blocks \cup {NullHash} /\ (m_synced => m_best_block_index # NullHash)
    /\ locator \in Blocks \cup {NullHash} /\ indexed \subseteq Blocks
    /\ txPos \in [Txs -> Blocks \cup {NoBlock}]
    /\ pindex \in Blocks \cup {NullHash}
    /\ pc \in {"off", "init", "top", "time", "write", "synced", "done"}
    /\ node \in {"up", "stopping", "down"} /\ caller \in {"idle", "waiting", "returned"}

CoveredBy(b, blocks) == b = NullHash \/ Ancestors[b] \ {Genesis} \subseteq blocks
Covers(b) == CoveredBy(b, indexed)

(* Nothing below the position of the index is missing from it: neither     *)
(* below the locator on disk, from which a restart goes on, nor below the  *)
(* best block once the index is in sync.  (ThreadSync writes the locator   *)
(* and then the block; CrashAt says whether a crash may come in between.)  *)
IndexComplete ==
    /\ TypeOK
    /\ pc # "write" => Covers(locator)
    /\ m_synced => Covers(m_best_block_index)

Backlog == {i \in DOMAIN queue : queue[i].kind = "connected"}

(* When the notifications are drained the index has the active chain, in   *)
(* spite of the stale ones that it received or ignored after it got in     *)
(* sync; and, in the first session, each transaction is looked up in the   *)
(* block of the active chain that has it, not in one of a stale branch.    *)
CaughtUp ==
    m_synced /\ registered /\ Backlog = {}
        => /\ tip \in Ancestors[m_best_block_index]
           /\ restarts = 0 =>
                 \A b \in Active \ {Genesis} : \A t \in TxsOf[b] : txPos[t] = b

(* A call of BlockUntilSyncedToCurrentChain that returned true saw every   *)
(* block indexed that was active when it was made.                         *)
CallersSeeTip == caller = "returned" => Covers(callTip)

(* A started index gets in sync, unless the node stops first.              *)
GetsInSync == (pc = "init") ~> (m_synced \/ m_interrupt \/ node = "down")
=============================================================================
