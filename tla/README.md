# A TLA+ model of the node

This directory is a verification project for the full node in `src/src`: TLA+ modules that
model its state machines, TLC configurations that check them on small instances, and TLAPS
proofs, for every instance, of the properties that matter most.  All file names below are
relative to `src/src`.

## The system and its parts

A node receives headers and blocks from peers, keeps a tree of them, chooses the branch with
the most work that it may use, and applies its blocks to a set of unspent outputs (coins).
Everything else (memory pool, relay, wallet, RPC) hangs on that.

| Part | State | Operations | What makes it hard | Should hold |
|---|---|---|---|---|
| Script check queue (`checkqueue.h`) | `queue`, `nIdle`, `nTotal`, `nTodo`, `fAllOk`, two condition variables | `Add`, `Loop`, `Wait`, control object | threads, lost or spurious wakeups, verdicts of batches recorded late | exact verdict, nothing left over, `Wait` returns |
| Coins views (`coins.cpp`) | entries with DIRTY and FRESH, usage counter, best block | `FetchCoin`, `AddCoin`, `SpendCoin`, `Uncache`, `BatchWrite`, `Flush` | flags of several levels combine | the stack is one set of coins; no logic error |
| State on disk (`txdb.cpp`, `validation.cpp`, `init.cpp`) | coin database, block tree database, block and undo files | `FlushStateToDisk`, `BatchWrite`, pruning, `ReplayBlocks` | crash between any two writes, and during recovery | recovery gives exactly the coins of a block |
| Chain selection (`validation.cpp`, `chain.cpp`) | block index with status flags, `setBlockIndexCandidates`, `mapBlocksUnlinked`, `m_failed_blocks`, finalized block, tip | `AcceptBlockHeader`, `AcceptBlock`, `ActivateBestChain`, six RPC commands, `LoadBlockIndex` | `cs_main` released in the middle, blocks out of order, failed reorganisations, restarts | the tip is the best usable block; the index passes `CheckBlockIndex` |
| Scheduler, validation interface (`scheduler.cpp`, `validationinterface.cpp`, `init.cpp`) | task queue, callback queue, registered interfaces | `schedule`, `serviceQueue`, `ProcessQueue`, signals, `Shutdown` | several threads, one order; lost wakeups; objects destroyed while signals are emitted | callbacks in order, none lost, none on a dead object, `Shutdown` ends |
| Block indexes (`index/base.cpp`, `index/txindex.cpp`) | locator on disk, `m_best_block_index`, `m_synced` | `ThreadSync`, `BlockConnected`, `ChainStateFlushed`, `BlockUntilSyncedToCurrentChain` | stale notifications, a chain that forks under the thread, restarts | no block below the locator is missing; callers see their tip |
| Block download (`net_processing.cpp`) | blocks in flight, per-peer queues and counters, window | headers, `SendMessages`, `block`, `cmpctblock`, `blocktxn`, timeouts | peers leave, late answers, damaged blocks | counters agree, the right peer is blamed, download goes on |
| Memory pool (`txmempool.cpp`, `validation.cpp`) | entries, links, sums, disconnected transactions | add, remove, expire, trim, reorganisation | long sequences, eviction, upgrades undone and redone | links and sums exact, entries minable, nothing dropped without a reason |
| Address manager, ban manager | tables and reference counts; ban map and dirty flag | `Add`, `Good`, `ResolveCollisions`; `Ban`, `DumpBanlist` | long sequences; a ban during a dump | counts agree; no ban is lost |
| Proof of work, subsidy, adjusted time | none, or a cached value | `CalculateASERT`, `GetBlockSubsidy`, `AddTimeData` | widths, truncation, boundaries | within limits, equal to a reference |
| Connections, HTTP, caches | sockets, queues, cuckoo cache | | bounds, wakeups | bounds kept |
| Script interpreter, mining, wallet, GUI, cryptography | | | sequential or input/output | not modelled |

`AcceptBlock` stores a block and calls `ActivateBestChain`; this connects blocks in a view on
`pcoinsTip`, with the scripts checked by the check queue, and flushes the view into
`pcoinsTip`; `FlushStateToDisk` writes the block index and then `pcoinsTip`; at startup
`LoadBlockIndex`, `ReplayBlocks` and `LoadChainTip` rebuild what is in memory.  Blocks come from
the block download; each change of the chain is reported through `CMainSignals`, whose queue
feeds the block indexes; and `DisconnectTip` and `ConnectTip` move transactions between blocks
and the memory pool.  These eight parts are modelled; `PROJECT.json` lists the others with the
reason they are not, and under `hazards` the lines where things can go wrong.

## Modules

| Module | What it is |
|---|---|
| `CheckQueue`, `CheckQueueProofs`, `MCCheckQueue` | the check queue and its proofs |
| `UtxoSet` | abstract: a set of coins, a scratch copy that is applied as a whole or dropped |
| `CoinsView`, `CoinsViewProofs` | the operations on one cache as operators, and lemmas on them |
| `CoinsCache`, `CoinsCacheProofs`, `MCCoinsCache` | the stack view - `pcoinsTip` - database, which implements `UtxoSet` |
| `BlockTree` | constants: a tree of blocks with heights and ancestors |
| `ChainFlush`, `MCChainFlush` | what is on disk, crashes and replay; uses `CoinsView` |
| `ChainFlushProofs` | proofs about its coins, its blocks and files, and pruning |
| `ChainState`, `ChainStateProofs`, `MCChainState` | block index and choice of the active chain |
| `CallbackQueue` | abstract: callbacks that run one at a time, in order, each of them |
| `Scheduler`, `SchedulerClient`, `MainSignals`, `MCMainSignals` | `CScheduler`; `SingleThreadedSchedulerClient` on it; `CMainSignals` and `Shutdown` on both, which implement `CallbackQueue` |
| `MainSignalsProofs` | the inductive invariant, its steps, and the theorems |
| `BlockIndexSync`, `BlockIndexSyncProofs`, `MCBlockIndexSync` | `BaseIndex` with `TxIndex`, over a chain that reorganises; uses `BlockTree` |
| `BlockDownload`, `BlockDownloadProofs`, `MCBlockDownload` | blocks in flight, window, stalling, compact blocks; uses `BlockTree` |
| `Mempool`, `MCMempool` | the memory pool over reorganisations; uses `BlockTree` |

### CheckQueue

The threads are masters, which hold `ControlMutex` through a `CCheckQueueControl`, and
workers.  `pc` says where a thread is.  Every region of code that holds the inner mutex is one
action (`Take`, `Sleep` and `Return` are the three outcomes of one pass through `Loop`, after
the results of the last batch are recorded by `AllOkAfter`, `TodoAfter`, `PcAfter`); executing
a check is an action of its own, so threads interleave between any two checks.  A condition
variable may wake a thread without a notification (`SpuriousWakeup`), and a worker may be
interrupted while it waits (`Interrupt`), as at shutdown.  Which checks fail is chosen when they
are added.

### CoinsView and CoinsCache

A cache maps outpoints to entries: a coin or `Spent`, with DIRTY and FRESH, or no entry.  The
`...Entry` operators are the code's branches for one outpoint, the `...Memory` operators the
changes to `cachedCoinsUsage`.  `CoinsCache` stacks a view, which lives while one block is
connected or a transaction is checked, on `pcoinsTip` on the database, with every operation in
any order.  A coin is a model value with a size; scripts that are unspendable are a subset.
`AddCoin` without `possible_overwrite` on an unspent coin throws, and callers never do so
(BIP30, which validation enforces before it adds); the guard of `AddToView` says so.

### ChainFlush

Variables for each of: coin database (`db`, `dbBest`, `dbHeads`), block tree database (`disk`),
files (`blk`, `rev`, and the part that was committed, `blkSafe`, `revSafe`), and memory (`mem`,
`dirty`, `cache`, `best`).  `pc` goes through `FlushStateToDisk`: commit of the last file,
`WriteBatchSync`, `UnlinkPrunedFiles`, any number of `WritePartial`, `WriteFinal`.  The coin
batches are not synced: with `PowerLoss` a crash may take back a suffix of at most
`MaxUnsynced` of them (`dbLog`), and any file write that was not committed.  `Crash` may come at
any step, also in `ReplayBlocks`, whose steps are `RollbackBlock`, `RollforwardBlock`, `EndReplay`
and the batches of its own flush.  The coin at an outpoint is its height, so that one
transaction in two branches gives different coins.  `-reindex`, `VerifyDB` and a full disk are
left out.

### ChainState

Status flags are sets of blocks: `data` (with it TRANSACTIONS, as nothing is pruned here),
`scripts`, `failed`, `failedParent`, `parked`, `parkedParent`.  `linked` is
`HaveTxsDownloaded`, `unlinked` the waiting blocks of `mapBlocksUnlinked`.  A step is what runs
with `cs_main` held, or part of it; `CsMainFree` tells when another thread may take it.
`ActivateBestChain` is `Enter`, `Resume` (next iteration of the outer loop), `FindMostWorkChain`
(one candidate), `Break`, `BeginStep`, `StepDisconnect`, `ConnectTip`, `ConnectInvalid` and
`ConnectUnfinalizable`; `abc` holds its locals, in particular `pindexMostWork`, which survives
a release of `cs_main`.  `UnwindBlock` (`invalidateblock`, `parkblock`, `finalizeblock`) is
`BeginUnwind`, `UnwindTip`, `EndUnwind`, with `cs_main` free in between.  `pending` says that some
caller still has to enter `ActivateBestChain`.  With `Concurrent = FALSE` threads wait for each
other, which separates what needs a race from what does not.

Abstractions: which blocks violate rules is given by `BadContext` and `BadConnect`; the batch of
32 blocks in `ActivateBestChainStep` is 2; the time that finalization waits is a choice among
the blocks that are deep enough; the addresses that break ties are the same after a restart;
one unwinding command runs at a time; the genesis block is never invalidated or parked;
`pindexBestInvalid`, `pindexBestParked` and `pindexBestHeader` only feed warnings and are left
out; the floor of `nBlockReverseSequenceId` is never reached; a stop in the middle of a loop is
the same as a restart.

### Scheduler, SchedulerClient and MainSignals

`Scheduler` has the multimap of tasks as a sorted sequence, the condition variable as the set
`waiting`, and a clock.  A region that holds `newTaskMutex` is one step; a `notify_one` after the
unlock is another.  A waiting thread may be woken by a notification, its timeout, for nothing
(`Wake`), or by an interruption.  `SchedulerClient` adds the queue of callbacks: the test in
`MaybeScheduleProcessQueue` and the call of `schedule` after it are two steps, and so are taking a
callback and marking that none runs.  `MainSignals` adds the interfaces: an emission visits those
that were connected when it began and skips those that were disconnected since
(boost::signals2, external), and a call that has begun is not waited for.  The thread `Main` goes
through `Shutdown` in the order of the code: early interfaces are unregistered, the threads are
told to end (by interruption, or by `stop(drain)`) and joined, early objects are destroyed,
`FlushStateToDisk` signals once more, `EmptyQueue` runs what is pending, the others are
unregistered and destroyed.

### BlockIndexSync

`tip` moves by connecting and disconnecting blocks, each connection adding a notification to
`queue`, which is the sequence that `CallbackQueue` specifies and `MainSignals` implements.
`Start` registers the index before `InitIndex` reads the locator, as the code does.  `ThreadSync`
is one step per region under `cs_main` or per database write: `NextSyncBlock` with the test for
the end and `m_synced` in one region, then the periodic commit, then `WriteBlock`.  A
notification is applied (`BlockConnected`, with its tests on ancestors), ignored, or commits
(`ChainStateFlushed`).  A thread in `BlockUntilSyncedToCurrentChain` compares tips and otherwise
queues a mark that it waits for.  `Shutdown` and `Crash` end the process; the chain goes back to
its last flush and the index to what is in its database.  `CrashAt` says at which points of
`ThreadSync` a crash may come.

### BlockDownload

Peers announce (headers or inv), answer requests soundly, with damage, or not at all, send what
was not asked, and leave.  One thread handles all messages, so a handler is one action.  `dl` is
the state of downloads: `mapBlocksInFlight`, the peers' lists and counters, the entries with a
partial block, `nStallingSince`, and, for each block in flight, the requests that are still to be
answered.  `SendMessages` is the timeouts, the stalling test and `FindNextBlocksToDownload` with
its window; `CmpctBlock` and `BlockTxn` reconstruct a block, ask for what is missing, fall back to
a full request, or drop it.  A timer that is set may run out at any later step.

### Mempool

`pool` is `mapTx` with `mapLinks` and two of the sums per entry.  `AcceptToMemoryPool` checks
inputs, rules, lock times, maturity and the limits of ancestors and descendants, adds, expires and
trims.  A step of `ActivateBestChainStep` (or `UnwindBlock`) is `DisconnectTip` and `ConnectTip` as
often as its target needs, and `EndStep`, which is `updateMempoolForReorg` or the clearing after a
failure.  Between the blocks of such a step `cs_main` is held, so no other action comes between.
The orders in which a salted set, or entry times, list transactions are a choice among `Orders`.

## Runs

| Run | Instance | Shows |
|---|---|---|
| `check_queue` | 1 master, 1 worker, 4 checks, batches of up to 2, any number of sessions | verdict, accounting of `nTodo`, nothing left at release, `Wait` returns |
| `coins_cache` | 2 outpoints, coins of two sizes, an unspendable one, 2 block hashes | flags, usage counter, refinement of `UtxoSet` |
| `chain_flush` | branches of 1 and 2 blocks, 3 outpoints, 2 power failures, 2 unsynced batches | coins on disk and at the tip are exact, startup never refuses, recovery ends |
| `chain_prune` | 2 files, pruning, a crash | a running node never believes that it has a file that it deleted |
| `chain_network` | branches of 3 and 4 blocks in any order, concurrent callers, a `finalizeblock` at any time, an invalid block, parking, finalization at depth 2 (339,609 states) | blocks are linked, best tip |
| `chain_commands` | 6 blocks, two of them invalid, any 2 of the 6 commands on any block | chain valid, finalized block respected, best tip, marks have a cause |
| `chain_restart` | 6 blocks, one invalid, one at a time, a stop at any step after any flushes | what is loaded is consistent, deep reorganisations need the extra work, progress before `cs_main` is released, every caller returns |
| `callbacks` | 2 scheduler threads, a signalling thread, a timer, 2 callbacks, one early and one late interface, shutdown by interruption or drain (231,697 states) | refinement of `CallbackQueue`, nothing left after a drain, no call of a dead object, `Shutdown` ends |
| `index_sync` | branches of 2 and 2 blocks that share transactions, 4 chain steps, a shutdown or crash, a caller (261,007 states) | nothing missing below the locator, the drained index has the chain, callers see their tip, the index gets in sync |
| `block_download` | 4 blocks, a sound and a faulty peer, 2 blocks in transit, a window of 1 (181,623 states) | counters, outstanding requests, who stalls, always something to do |
| `mempool` | 6 blocks in 3 branches above genesis, 15 transactions, two branches activate rules (1,465 states) | links and sums, minable entries, order of the disconnected transactions, reinstatement |

Why the bounds are enough to be of interest.  Four checks are the fewest for which a thread
takes two at once, so that a check is skipped after a failure in its own batch and the master
and the worker hold batches at the same time; two workers and three checks (447,362 states)
pass as well, and the safety properties are proved for any number of both.  Two power failures
are needed for one inside the replay of the other.  The two branches of `MCChainFlush` create an
outpoint at two heights, and spend one in the block after it and one in the block that creates
it, so that a replay rolls back one block and forward two, or the reverse, over coins that the
interrupted flush may have written already.  With block a2 as well, which spends in the other
branch and creates the third outpoint in both, the same properties pass on 829,434 states in
two minutes.  Branches of three and four blocks are what
the depth cases 1, 2, 3 and more of the unparking rule need, and a finalization depth of 2 makes
a reorganisation cross the finalized block; without `finalizeblock`, a third branch of one block
can be added (173,735 states).  In `chain_restart` block b2 has exactly the work that
does not yet unpark its branch, and b3 has more.

Two scheduler threads are what it takes for one to run a callback while the other finds the
queue marked as running, and two callbacks for one to be added between the end of the first and
the mark; with `stop(false)` as a third way to end, the same properties pass on 288,543 states.
Four chain steps let the chain fork below a block that the index has read and notifications of
the dead branch arrive after `m_synced`; five pass as well (949,569 states).  In `block_download`
the window of one block makes every reordering a stall, and the stale block gives the faulty peer
a branch that the other does not have; with a faulty peer that announces that branch too, and
with one that also has all blocks, the same properties pass on 258,376 and 460,516 states.

`mempool` is a fixed scenario rather than a small set: every transaction is there for one branch of the code (a child before its parent in a block, a conflict
confirmed by another branch, an immature coinbase, a lock time, a rule that a block activates or
that its disconnection deactivates, each limit), and sizes that are distinct powers of two make a
sum say which transactions it counts.

`MaxCommands`, `MaxCrashes`, `MaxRestarts`, `MaxFile`, `MaxUnsynced`, `MaxTime`, `MaxCallbacks`,
`MaxChainSteps` and `MaxConnections` are the bounds in guards.  Deadlock is not checked where a
node may simply have nothing to do.

Each property has a mutant in `PROJECT.json`: an operator marked "Fault for the mutation runs"
that changes the model like a plausible mistake in the code, for which TLC finds the property
violated.

### Where the code and its comments disagree

One further run, `reconsider_header`, is expected to find a violation; `findings` in `PROJECT.json`
describes it: a header that was invalidated and reconsidered stays in `m_failed_blocks`.  The
models show four more when their constants are set for it, and `TipIsBest` and
`CandidatesRight` hold when `finalizeblock`, `parkblock` and `unparkblock` race with activation on
five blocks (105,951 states):

- `pindexMostWork` is kept over a release of `cs_main` (`validation.cpp:2957`), and a block that
  was invalidated meanwhile is connected, while the comment at line 2623 expects the chain to be
  valid.  `ChainValid` fails in `MCChainState` with `Concurrent = TRUE` and `invalidateblock`.
- Finalization during a reorganisation that fails rules out the old tip (line 2610), so that
  `cs_main` is released with less work than before, against the comment at line 2950.
  `ForwardProgress` fails with an invalid block at the end of the longer branch and a finalization
  depth that it reaches.
- A stop between the write of the index and the write of the coins after `invalidateblock` leaves
  a tip that is marked, and no candidate at startup (line 4614, comment at 2763): with
  `invalidateblock` and a restart, `candidates` becomes empty while `CsMainFree` holds and no
  `UnwindBlock` is under way.
- A shutdown that interrupts `ThreadSync` before its first block commits a locator for no block,
  which `GetLocator` turns into the one of the active tip (`index/base.cpp:94-101`, `162-166`,
  `chain.cpp:29-31`), against the comments of `index/base.h`.  `IndexComplete` fails with
  `InterruptEarly = TRUE` and `CrashAt = {}`.

### Limits of the passing runs

The passing runs are set so that they do not meet these, nor the following.  The models also
reach these when their constants are set for it, except for the last three, which are outside
of what they cover:

- Only the last block file is committed before `WriteBatchSync`.  Undo data is appended to the
  file of its block, which may be an earlier one, so the index can refer to undo data that a
  power failure takes back.  `chain_flush` therefore has one file, and `chain_prune`, which has
  two, has process crashes only.
- Pruned files are deleted before the coins are flushed.  If the chain grew by more than the
  288 blocks that are kept since the last full flush, the replay of an interrupted flush needs a
  deleted file.  `chain_prune` checks what a running node believes, not that a replay succeeds.
- `finalizeblock` on another branch while `ActivateBestChain` keeps an earlier `pindexMostWork`
  leaves a chain active that forks before the finalized block, and a reorganisation to the finalized
  branch that then fails does not return to it.  `TipNotBeforeFinalized` is checked without races
  (`chain_commands`), and `ForwardProgress` without commands (`chain_restart`).
- A block that is stored below an invalidated header whose data is missing is not put into
  `mapBlocksUnlinked`, and stays unlinked after `reconsiderblock`.  `BlocksLinked` is checked
  with `finalizeblock` as the only command (`chain_network`).
- Finalization during a reorganisation that fails also leaves out of `setBlockIndexCandidates` what
  was worse than the old tip and is better than the new one: with `MaxReorgDepth = 1` and a branch
  from a block that is finalized on the way, `TipIsBest` and `CandidatesRight` fail.  In their runs no
  block has such a branch.
- `LoadBlockIndex` marks the children of a failed block, not their descendants.  The model does
  the same; `FindMostWorkChain` marks the rest when it meets them.
- `preciousblock` resets its counter when the chain has grown, which can move a tip down in the
  order of the candidates: two headers are made precious, the block of the second becomes the tip, the
  block of the first is left out as the worse one, and `preciousblock` on the tip then gives it the
  number of the first, so that the addresses decide.  `CandidatesRight` fails with
  `Commands = {"precious"}` and `MaxCommands = 3`; it is checked, and proved, without that command.
- A branch is unparked from the block that has the work down, and the marks do not come back if
  that block then fails or conflicts with the finalized block.  After a restart, or when another
  block follows the same unparked ones, a deep branch can be chosen with less work than
  `RequiredWork`.  `DeepReorgNeedsWork` is checked with a single deep branch, and a finalization
  depth that does not reach its fork.
- `parkblock` in a loop against `ActivateBestChain` with a kept `pindexMostWork` can undo and redo
  one block for ever.  `Settles` is checked without commands.
- With several threads in `serviceQueue`, one that wakes at its time takes whatever task is first
  by then (`scheduler.cpp:72-77`), so a task can start before its own time.  The node starts one
  such thread.  No property says when a task runs, only that it does.
- `ThreadSync` commits the locator of a block before it writes that block (`index/base.cpp:124-138`).
  A crash between the two leaves one block out of the index.  `CrashAt` of `index_sync` leaves out
  that point (`"write"`), and the theorems have it as a premise.
- After a restart a transaction's position in the index may be the one in a block of a dead
  branch: blocks that were indexed before are written again only above the fork with the locator.
  `CaughtUp` speaks of positions in the first session only.
- The second `FlushStateToDisk` of `Shutdown` queues a callback that nobody runs, as a comment in
  `init.cpp` says.  `MainSignals` ends before it.
- In `BlockDownload` blocks are valid by consensus, peers have no permissions, and `submitblock`
  does not store a block that is in flight.
- In `Mempool` what is evicted first is any choice, as fees are not modelled, and `DisconnectTip`
  does not fail after its coins were flushed.

## Fairness

`CheckQueue`: weak fairness of each thread's own steps; a thread that has the mutex or can take
it goes on, which the operating system's scheduler provides.  None is assumed for
spurious wakeups, interrupts or the addition of checks.  `ChainFlush`: weak fairness of startup, of the replay
and of the steps of a flush, which are sequential code; the operator restarts a node that
stopped.  None for blocks, crashes or the start of a flush.  `ChainState` (`LiveSpec`): weak
fairness of the thread inside, or waiting for, `ActivateBestChain` and of the one inside
`UnwindBlock`.  None for blocks, commands, flushes or restarts.  `MainSignals`: weak fairness of
each scheduler thread, of a thread that is inside `AddToProcessQueue`, of the thread in
`Shutdown`, and of the clock; none for new signals, registrations, spurious wakeups or the start of a
shutdown.  Weak fairness is enough although threads compete for two mutexes: a region is one
step, and no thread can keep another's step disabled for ever.  `BlockIndexSync`: weak
fairness of `Start`, `InitIndex`, the thread and the delivery of notifications, which is what
`CallbackQueue` promises and `MainSignals` is checked to keep; none for the chain, callers,
shutdown or crashes.  `BlockDownload` and `Mempool` are checked for safety; that the download is
never stuck is the invariant `NeverStuck`, as nothing obliges a peer to answer.

## Proofs

All theorems hold for every value of the constants that satisfies the named assumptions.

`CheckQueueProofs` (assumptions: sets of threads and finite sets of checks that are disjoint
where they must be, a positive batch size).  The inductive invariant says that every check
added is in the queue, in the batch of exactly one thread, or accounted for, what `nTodo` counts,
and what `fOk` and `fAllOk` say of the checks that are done.  `VerdictExact` alone is not inductive:
it speaks of the moment of return, and needs where each unfinished check is.  From it:
`TypeCorrect`, `VerdictCorrect`, `ReleaseCorrect`, `TodoCorrect`.

`CoinsViewProofs` has a lemma per operation: what the entry shows afterwards, and that
`EntrySound` (an entry that is not DIRTY agrees with the level below; a FRESH one has no
unspent coin below) is kept.  `CoinsCacheProofs` lifts them to the stack: the flags
are sound at each level (`FlagsCorrect`), a flush never throws (`FlushNeverThrows`), and
every step is a step or a stutter of `UtxoSet` (`Refinement`).  `UsageCorrect` is about the running
sum `cachedCoinsUsage`: lemmas on sums over a finite set (proved by taking a least counterexample)
say that a change of one entry changes the sum by the difference at that entry, and that a sum
over entries that do not change stays; each operation is then one of the two, and `BatchWrite`
is a sum over all entries of the child.  Its premise, that there are finitely many outpoints, is
that an outpoint has 36 bytes.

`ChainFlushProofs` (assumptions: a tree; `Utxo` is what the blocks make of it; blocks are
valid).  The inductive invariant `IndInv` is the type invariant and `CoinsSound`: the database,
and each state of it that a loss of power can bring back, holds the coins of its best block or,
outpoint by outpoint, those of one of its two heads; the flags of the cache are sound over it;
a running node sees the coins of its tip; and a replay at `cursor` sees, at each outpoint, the
coin of the block at `cursor` or already the one of the new head.  The last part is what
`CoinsOfBest` and `TipCoinsExact` lack: undoing and redoing blocks on a mixture of two sets keeps
it, at the new head both alternatives are the same, and what a crash in the middle leaves is a
mixture of the same two sets, so that a
second crash in the middle is harmless.  Theorems: `TypeCorrect`, `BestCorrect`,
`TransitionCorrect`, `TipCorrect`, `TransitionKept`.

The second part of `ChainFlushProofs` (premise `NothingPruned`: no pruning, and a loss of power only
with one block file; see the limits above).  The invariant `DiskInv`, on top of `IndInv`: the block tree
database has only what is committed to the files and lacks only what is dirty; nothing is dirty
while coins are written; every block that the coin database names, or named in a state that a
loss of power can bring back, has its whole chain in the block tree database; so does the chain
of the tip in memory, and the block where a replay is.  `IndexBeforeCoins` alone is not inductive:
the write of the coins keeps it because of what the preceding write of the index left, and a crash
because nothing that the index refers to was uncommitted.  Theorems: `IndexFirst`
(`IndexBeforeCoins`) and `NoAbort` (`NeverAborts`); the latter also uses `TipCoinsExact` for the
undo data to fit the coins.  With pruning, `PruneInv` says that the flags in memory and those in
the block tree database name files that exist, that the two differ for dirty blocks only, and that
from the moment files are chosen for deletion no block in memory is said to be in one of them.  The
last two are what `FlagsHonest` lacks: a crash brings back the flags on disk, so these must have
given up a file before it is deleted.  `PruneHonest` is `FlagsHonest` for a node that prunes and is
killed at any point, and for one that does not and loses power.

`ChainStateProofs` (assumptions: a tree, work that grows along it, as `CheckProofOfWork` refuses a
target of zero or one that overflows and `GetBlockProof` is then at least one; addresses that differ, a closed set of headers known at the start).  Types come first
(`ChainStateTypes`); the theorems then have an invariant each, and the premises that the limits above
call for.  Each premise excludes a case in which the model, like the code, does not keep the property.

- `ChainStateMarks` (`MarksInherited`; no restart, and the assertion of `AcceptBlockHeader`,
  `FailedBlocksFailed`, not hit): a block that inherited a mark has an ancestor with that mark of
  its own, also in the middle of `UnwindBlock`.  The lemma behind it is about `UpdateFlags`
  (`ClearedInherited`): the deepest ancestor that loses a mark is an ancestor of every block that
  inherited one from a block that lost it.
- `ChainStateFinalized` (`TipNotBeforeFinalized`; no `finalizeblock` in a race with activation): the tip,
  and the chain that `ActivateBestChain` is working on, are in one line with the finalized block,
  except while `finalizeblock` itself is disconnecting the blocks above the fork.  `InvalidChainFound`
  moves the finalized block down, a restart forgets it.
- `ChainStateValid` (`ChainValid`; no restart, neither `invalidateblock` nor `finalizeblock` in a race
  with activation, `FailedBlocksFailed`): the active chain is stored, connected and without a mark, and the
  chain to come is stored and without a mark.  The second half is what the property lacks, as
  `pindexMostWork` survives the release of `cs_main`.
- `ChainStateLinked` (`BlocksLinked`; neither `invalidateblock` nor `reconsiderblock`; with restarts at any
  point): a block in want of an ancestor waits in `mapBlocksUnlinked` or misses an ancestor that
  will never be accepted, and the same is true of what the block tree database has, which lags
  behind by the dirty blocks only.  The part about the database carries the property over a
  restart.
- `ChainStateCandidates` (`CandidatesRight`), `ChainStateProgress` (`ForwardProgress`) and
  `ChainStateBest` (`TipIsBest`, without `-parkdeepreorg`) have the premise `WorkDecides`: no block is
  finalized and `unparkblock` is the only command.  Threads race, blocks fail, branches are parked and
  the node restarts as it may.  `CBlockIndexWorkComparator` is first proved to be a strict order in which
  a block sorts above its ancestors.  The invariant `CandInv` follows `setBlockIndexCandidates` while
  `cs_main` is held, when `CandidatesRight` does not hold: a block that is linked and not marked is a
  candidate, or sorts below the tip, or below the tip with which the lock was taken (`OrderOK`).
  Between a disconnected block and the connection of a better one only the last alternative is true,
  and the inner loop of `ActivateBestChain` ends only when the new tip is not below the old one; this
  is `ForwardProgress`, and why it is proved together with the rest.  `FlagsOK` says that the
  active chain, the old tip and the chain to come have no mark, so that an invalid block never takes away the
  chain to fall back to, and `SavedOK` that what a restart reads was so as well.  For `TipIsBest`,
  `BestOK` adds that no candidate is better than `pindexMostWork`, unless somebody waits to enter
  `ActivateBestChain`.  With parking that does not hold: `FindMostWorkChain` unparks blocks on its way, and one
  of them may be better than what it returns.

`BlockDownloadProofs` (assumptions: a tree; what a peer announces it has; positive limits).  It
first proves that `Request`, which marks a set of blocks at once, is what the code's loop over
`MarkBlockAsInFlight` does (`RequestOneMore`), and that `First` takes no more blocks than asked.
The invariant `DownloadInv` says that the map, the lists and the counters agree, that
`nPeersWithValidatedDownloads` counts the peers with a list, that a block in flight has an
unanswered request, that no peer is above its limit, that no stored block is in flight and that a
peer that is gone has no list.  A compact block breaks the part about requests in the middle of
the handler, for that one block, and restores it.  Theorems: `DownloadsAgree` (`InFlightAgree`),
`DownloadsAsked` (`InFlightIsAsked`), `DownloadsStaller` (`StallerIsBehind`).  `WindowInv`, on top of
it, says that the tip is a highest block of those stored with all their ancestors and that the last
common block of a peer is such a block.  So the block above the last common one on the peer's
chain exists and is in the window, and is either requested or moves the window: this is
`DownloadsNeverStuck` (`NeverStuck`).

`MainSignalsProofs` (assumptions: finitely many threads and timers, kinds
of processes disjoint, early and late interfaces disjoint).  Besides types, the inductive
invariant says that `m_are_callbacks_running` is set exactly while one thread runs a callback,
what `Shutdown` has established at each of its points, where an interface may be in the middle of a
call, that `nThreadsServicingQueue` counts the threads inside, that somebody will look at pending
callbacks (a queued task, a thread about to queue one, or the thread that runs one), and that in
a drain the last thread to leave leaves an empty queue.  The part about pending callbacks is
what a drain needs: an empty task queue alone does not say that no callback is pending.
Theorems: `TypeCorrect`; `CallbacksInOrder`, the safety part of the refinement of
`CallbackQueue`; `NoSlotOfTheDead` (`SlotsAlive`); `DrainIsClean` (`LeftClean`).

`BlockIndexSyncProofs` (assumptions: a tree; a chain does not have a transaction twice, BIP30;
premise `Undisturbed`: no crash between locator and block, no interruption before the first
block).  It first proves of the tree what the code takes for granted (ancestors are transitive
and comparable, one at each height, what `GetAncestor` and `FindFork` return) by taking a block of
least height that would be an exception.  The invariant is `Written` (how far the database is, at
each point of `ThreadSync`), `Following` and `Positions`.  `Following` is the part that
`CaughtUp` lacks: from the block where the index is, and from each block to which a pending
notification would take it, the notifications still to come lead on until the tip is reached, so
an index that ignores a stale notification never ignores the one it needed.  The same holds, up to
its mark, for the tip of a thread that waits.  Theorems: `NothingMissing` (`IndexComplete`),
`DrainedIsCaughtUp` (`CaughtUp`), `WaitersSeeTheirTip` (`CallersSeeTip`).

Only model-checked:

- Of `ChainState`, `DeepReorgNeedsWork`, whose premise would have to say that there is a single deep
  branch, and `TipIsBest`, `CandidatesRight` and `ForwardProgress` where blocks are finalized or other
  commands than `unparkblock` are given, and `TipIsBest` with parking.
- `Mempool`: `LinksAndSums`, `PoolStillValid` and `QueueRight` speak of closures under descent,
  which are fixed points, and sums over them.
- Everything about liveness (`WaitReturns`, `Recovers`, `Settles`, `StopReturns`, `GetsInSync`, the
  fairness of `ImplementsQueue`), which is out of the prover's reach.

## Not modelled

- `-reindex`, `-loadblock`, `VerifyDB`, `RewindBlockIndex`, a full disk: they run on a quiet node, or
  end it.  The migration of the old transaction index ran once on a quiet database.
- The serving side of the protocol (`getdata`, `getheaders`), addresses, the orphan pool and the
  punishment score below its threshold: one thread's bookkeeping in maps with bounds.  Their
  hazards are listed with a note.
- Fees, priorities, fee estimation and `mempool.dat`: arithmetic on amounts, and a file that is
  read once.
- Address manager and ban manager: each is a table behind one lock on which no other part
  relies.  `CAddrMan::Check_` tests the invariants of the first at run time.
- Proof of work, subsidy, adjusted time: pure functions on 256-bit integers.  A model at a reduced
  width would say nothing about the constants, and what matters about them is the constants.
- Connection manager, HTTP server, RPC dispatch, key-value store, GUI, ZMQ, seeder, Tor: input and
  output.  What the modelled parts see of them is their environment: peers that come, answer, do
  not answer and leave; commands; atomic batches.
- Script interpreter, transaction checks, signature caches, mining, wallet, cryptography,
  serialization: sequential functions of large inputs.  Their outcomes are constants of the models.
