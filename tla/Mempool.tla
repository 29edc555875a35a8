------------------------------- MODULE Mempool -------------------------------
(***************************************************************************)
(* The memory pool of txmempool.cpp and what validation.cpp does to it:    *)
(* transactions are accepted, evicted, confirmed and, when the chain is    *)
(* reorganised, put back (DisconnectedBlockTransactions).  A step of       *)
(* ActivateBestChainStep or UnwindBlock holds cs_main from its first       *)
(* DisconnectTip or ConnectTip to the end of updateMempoolForReorg; it is  *)
(* a sequence of actions here, and nothing else happens between them.      *)
(*                                                                         *)
(* An entry keeps four sums over its in-pool ancestors and descendants     *)
(* (size, fee, count, sigops), changed together by every update; the model *)
(* keeps the size.  With sizes that are distinct powers of two a sum tells *)
(* which transactions it counts.                                           *)
(***************************************************************************)
EXTENDS BlockTree, FiniteSetsExt, SequencesExt

CONSTANTS
    Txs,
    Inputs,         \* Inputs[t]: the outpoints <<transaction, n>> that t spends
    Size,           \* GetTxSize
    CoinBases,      \* the coinbase transactions
    BlockTxs,       \* BlockTxs[b]: the transactions of b, in the order of the block
    Final,          \* Final[t]: the tips on which the lock times of t have passed
    Allowed,        \* Allowed[t]: the tips whose rules t satisfies
    Upgrades,       \* blocks after which the rules differ from those before them
    COINBASE_MATURITY,
    LimitAncestorSize, LimitDescendantSize,
    SizeLimit,      \* -maxmempool
    Expiring,       \* the transactions that may outlive -mempoolexpiry
    MAX_DISCONNECTED_TX_POOL_SIZE,
    Orders          \* orders in which a salted set or the entry times may list Txs

VARIABLES
    tip,            \* ChainActive().Tip()
    pool,           \* mapTx, mapLinks and the sums of the entries
    queuedTx,       \* DisconnectedBlockTransactions, oldest entry first
    fBlocksDisconnected,
    target          \* the block the running step is heading for, NullHash between steps

vars == <<tip, pool, queuedTx, fBlocksDisconnected, target>>

ASSUME MempoolAssumption ==
    /\ Inputs \in [Txs -> SUBSET (Txs \X Nat)]
    /\ Size \in [Txs -> Nat \ {0}]
    /\ CoinBases \subseteq Txs /\ \A t \in CoinBases : Inputs[t] = {}
    /\ DOMAIN BlockTxs = Blocks /\ \A b \in Blocks : BlockTxs[b] \in Seq(Txs)
    /\ COINBASE_MATURITY \in Nat
    /\ Orders # {} /\ \A o \in Orders : IsInjective(o) /\ ToSet(o) = Txs

PoolStates ==
    [mapTx : SUBSET Txs,
     parents : [Txs -> SUBSET Txs], children : [Txs -> SUBSET Txs],
     nSizeWithAncestors : [Txs -> Int], nSizeWithDescendants : [Txs -> Int]]

TypeOK ==
    /\ tip \in Blocks /\ pool \in PoolStates
    /\ queuedTx \in Seq(Txs)
    /\ fBlocksDisconnected \in BOOLEAN
    /\ target \in Blocks \cup {NullHash}

-----------------------------------------------------------------------------
(* Coins.                                                                  *)

Confirmed(b) == UNION {ToSet(BlockTxs[a]) : a \in Ancestors[b]}
Spent(T)     == UNION {Inputs[t] : t \in T}

(* pcoinsTip->HaveCoin when the tip is b.                                  *)
HaveCoin(b, o) == o[1] \in Confirmed(b) /\ o \notin Spent(Confirmed(b))

InputTxs(t) == {o[1] : o \in Inputs[t]}

HeightOf(b, t) == Height[CHOOSE a \in Ancestors[b] : t \in ToSet(BlockTxs[a])]

(* No input of t is a coinbase too young for the block after b.            *)
Mature(b, t) ==
    \A c \in InputTxs(t) \cap CoinBases \cap Confirmed(b) :
       Height[b] + 1 - HeightOf(b, c) >= COINBASE_MATURITY

SumSize(T) == MapThenSumSet(LAMBDA t : Size[t], T)

(* Lock times that have passed stay so on the same branch, the rules       *)
(* change only where script flags do, and a block alone always fits the    *)
(* queue of disconnected transactions (20 blocks of the largest size do).  *)
ASSUME RulesAssumption ==
    \A b \in Blocks \ {Genesis} :
       /\ \A t \in Txs :
             /\ Parent[b] \in Final[t] => b \in Final[t]
             /\ b \notin Upgrades => (b \in Allowed[t] <=> Parent[b] \in Allowed[t])
       /\ SumSize(ToSet(BlockTxs[b])) <= MAX_DISCONNECTED_TX_POOL_SIZE

(* Blocks are valid: they spend what their chain left unspent, or their    *)
(* own transactions made.                                                  *)
ASSUME BlocksAssumption ==
    \A b \in Blocks \ {Genesis} :
       LET own == ToSet(BlockTxs[b]) IN
       /\ IsInjective(BlockTxs[b]) /\ own \cap Confirmed(Parent[b]) = {}
       /\ \A t \in own :
             /\ \A o \in Inputs[t] : HaveCoin(Parent[b], o) \/ o[1] \in own
             /\ \A u \in own \ {t} : Inputs[t] \cap Inputs[u] = {}
             /\ Parent[b] \in Final[t] /\ Mature(Parent[b], t)

-----------------------------------------------------------------------------
(* mapLinks.                                                               *)

(* What can be reached from the transactions of T over links, T included.  *)
Closure(links, T) ==
    LET reach[n \in Nat] ==
          IF n = 0 THEN T
          ELSE LET near == reach[n - 1] IN near \cup UNION {links[t] : t \in near}
    IN  reach[Cardinality(Txs)]

CalculateDescendants(m, T) == Closure(m.children, T)

(* CalculateMemPoolAncestors with fSearchForParents FALSE: over mapLinks.  *)
LinkedAncestors(m, t) == Closure(m.parents, m.parents[t])

(* ... and TRUE, for a transaction that is not in the pool yet.            *)
AncestorsOfNew(m, t) == Closure(m.parents, InputTxs(t) \cap m.mapTx)

WithinLimits(m, t, ancestors) ==
    /\ SumSize(ancestors) + Size[t] <= LimitAncestorSize \/ ancestors = {}
    /\ \A a \in ancestors : m.nSizeWithDescendants[a] + Size[t] <= LimitDescendantSize

addUnchecked(m, t, ancestors) ==
    LET parents == InputTxs(t) \cap m.mapTx IN
    [mapTx    |-> m.mapTx \cup {t},
     parents  |-> [m.parents EXCEPT ![t] = parents],
     children |-> [u \in Txs |-> IF u = t THEN {}
                                 ELSE IF u \in parents THEN m.children[u] \cup {t}
                                 ELSE m.children[u]],
     nSizeWithAncestors |-> [m.nSizeWithAncestors EXCEPT ![t] = Size[t] + SumSize(ancestors)],
     nSizeWithDescendants |->
         [u \in Txs |-> IF u = t THEN Size[t]
                        ELSE IF u \in ancestors THEN m.nSizeWithDescendants[u] + Size[t]
                        ELSE m.nSizeWithDescendants[u]]]

(* RemoveStaged: UpdateForRemoveFromMempool, which takes the ancestors from *)
(* mapLinks, then removeUnchecked for each transaction.                    *)
RemoveStaged(m, stage, updateDescendants) ==
    LET below(r) == CalculateDescendants(m, {r}) \ {r}
        fewerAncestors(u) ==
            IF updateDescendants THEN SumSize({r \in stage : u \in below(r)}) ELSE 0
        fewerDescendants(u) == SumSize({r \in stage : u \in LinkedAncestors(m, r)})
        kept(f, g(_)) == [u \in Txs |-> IF u \in stage THEN 0 ELSE f[u] - g(u)]
    IN  [mapTx    |-> m.mapTx \ stage,
         parents  |-> [u \in Txs |-> IF u \in stage THEN {} ELSE m.parents[u] \ stage],
         children |-> [u \in Txs |-> IF u \in stage THEN {} ELSE m.children[u] \ stage],
         nSizeWithAncestors |-> kept(m.nSizeWithAncestors, fewerAncestors),
         nSizeWithDescendants |-> kept(m.nSizeWithDescendants, fewerDescendants)]

(* removeRecursive: t, or what spends it if it is not in the pool itself.  *)
removeRecursive(m, t) ==
    LET roots == IF t \in m.mapTx THEN {t} ELSE {u \in m.mapTx : t \in InputTxs(u)}
    IN  RemoveStaged(m, CalculateDescendants(m, roots), FALSE)

removeConflicts(m, t) ==
    RemoveStaged(m, CalculateDescendants(m, {u \in m.mapTx \ {t} :
                                                Inputs[u] \cap Inputs[t] # {}}), FALSE)

EmptyPool ==
    [mapTx |-> {}, parents |-> [t \in Txs |-> {}], children |-> [t \in Txs |-> {}],
     nSizeWithAncestors |-> [t \in Txs |-> 0], nSizeWithDescendants |-> [t \in Txs |-> 0]]

-----------------------------------------------------------------------------
(* Eviction.                                                               *)

Fits(m) == SumSize(m.mapTx) <= SizeLimit

(* Expire, then TrimToSize: while the pool is too large the entry with the *)
(* least descendant score goes with its descendants.  Fees are abstracted, *)
(* so any entry may be the one; the last package removed was one too many. *)
Expire(m, old) == RemoveStaged(m, CalculateDescendants(m, old), FALSE)

TrimToSize(m) ==
    LET without(T) == RemoveStaged(m, CalculateDescendants(m, T), FALSE)
    IN  {n \in {m} : Fits(n)}
        \cup {without(T) : T \in {T \in SUBSET m.mapTx :
                  Fits(without(T)) /\ \E t \in T : ~Fits(without(T \ {t}))}}

LimitSize(m) == UNION {TrimToSize(Expire(m, old)) : old \in SUBSET (Expiring \cap m.mapTx)}

-----------------------------------------------------------------------------
(* AcceptToMemoryPoolWorker, up to the eviction.                           *)

InputsAvailable(b, m, t) ==
    \A o \in Inputs[t] : o[1] \in m.mapTx \/ HaveCoin(b, o)

Acceptable(b, m, t) ==
    /\ t \notin CoinBases
    /\ b \in Final[t] /\ b \in Allowed[t]
    /\ t \notin m.mapTx
    /\ Inputs[t] \cap Spent(m.mapTx) = {}
    /\ InputsAvailable(b, m, t)
    /\ Mature(b, t)
    /\ WithinLimits(m, t, AncestorsOfNew(m, t))

-----------------------------------------------------------------------------
(* DisconnectedBlockTransactions.                                          *)

(* Fault for the mutation runs: queued parents stay where they are.        *)
AddAtEnd(queue, t, order) == IF Contains(queue, t) THEN queue ELSE Append(queue, t)

(* One transaction of addForBlock: it goes to the end, then its queued     *)
(* parents behind it, then theirs, in the order of the set each time.      *)
addTransaction(queue, t, order) ==
    IF Contains(queue, t) THEN queue
    ELSE LET level[n \in Nat] ==
               IF n = 0 THEN [queue |-> Append(queue, t), parents |-> InputTxs(t)]
               ELSE LET was  == level[n - 1]
                        known == SelectSeq(order, LAMBDA u :
                                     u \in was.parents /\ Contains(was.queue, u))
                    IN  [queue |-> SelectSeq(was.queue, LAMBDA u : ~Contains(known, u)) \o known,
                         parents |-> UNION {InputTxs(u) : u \in ToSet(known)}]
         IN  level[Cardinality(Txs)].queue

Queued(queue, vtx, order) ==
    FoldLeft(LAMBDA q, t : addTransaction(q, t, order), queue, Reverse(vtx))

(* How many of the earliest entries go to keep the size under control.     *)
Excess(queue) ==
    Min({n \in 0..Len(queue) :
            SumSize(ToSet(SubSeq(queue, n + 1, Len(queue)))) <= MAX_DISCONNECTED_TX_POOL_SIZE})

addForBlock(m, queue, vtx, order) ==
    LET all == Queued(queue, vtx, order)
        n   == Excess(all)
    IN  [pool  |-> FoldLeft(removeRecursive, m, SubSeq(all, 1, n)),
         queue |-> SubSeq(all, n + 1, Len(all))]

importMempool(m, queue, order) ==
    LET vtx == SelectSeq(order, LAMBDA t : t \in m.mapTx)
        all == Queued(<<>>, vtx, Reverse(order)) \o queue
    IN  [pool |-> EmptyPool, queue |-> SubSeq(all, Excess(all) + 1, Len(all))]

(* CTxMemPool::removeForBlock: parents before children.                    *)
removeForBlock(m, vtx, order) ==
    LET one(n, t) == removeConflicts(IF t \in n.mapTx THEN RemoveStaged(n, {t}, TRUE) ELSE n, t)
    IN  FoldLeft(one, m, Reverse(Queued(<<>>, vtx, order)))

(* The loop of updateMempoolForReorg over the queue, newest entry first;   *)
(* txids collects what was added back.                                     *)
TryAgain(b, add, s, t) ==
    IF add /\ Acceptable(b, s.pool, t)
    THEN [pool  |-> addUnchecked(s.pool, t, AncestorsOfNew(s.pool, t)),
          txids |-> Append(s.txids, t)]
    ELSE [s EXCEPT !.pool = removeRecursive(@, t)]

(* Fault for the mutation runs: oldest entry first.                        *)
ResurrectOldest(b, m, queue, add) ==
    FoldLeft(LAMBDA s, t : TryAgain(b, add, s, t), [pool |-> m, txids |-> <<>>], queue)

Resurrect(b, m, queue, add) ==
    FoldLeft(LAMBDA s, t : TryAgain(b, add, s, t), [pool |-> m, txids |-> <<>>], Reverse(queue))

(* One transaction of UpdateTransactionsFromBlock: link its children that  *)
(* did not come from the block, then UpdateForDescendants.                 *)
UpdateForDescendants(m, t, already) ==
    LET new     == {u \in m.mapTx \ already : t \in InputTxs(u)}
        linked  == [m EXCEPT !.children[t] = @ \cup new,
                             !.parents = [u \in Txs |-> IF u \in new THEN @[u] \cup {t} ELSE @[u]]]
        below   == (CalculateDescendants(linked, {t}) \ {t}) \ already
    IN  [linked EXCEPT
           !.nSizeWithAncestors =
               [u \in Txs |-> IF u \in below THEN @[u] + Size[t] ELSE @[u]],
           !.nSizeWithDescendants[t] = @ + SumSize(below)]

UpdateOne(m, t, txids) ==
    IF t \in m.mapTx THEN UpdateForDescendants(m, t, ToSet(txids)) ELSE m

(* Fault for the mutation runs: parents before children.                   *)
UpdateParentsFirst(m, txids) == FoldLeft(LAMBDA n, t : UpdateOne(n, t, txids), m, txids)

UpdateTransactionsFromBlock(m, txids) ==
    FoldLeft(LAMBDA n, t : UpdateOne(n, t, txids), m, Reverse(txids))

(* What removeForReorg finds to be not minable any more.                   *)
Unminable(b, m) ==
    {t \in m.mapTx : \/ b \notin Final[t]
                     \/ /\ InputTxs(t) \cap CoinBases # {}
                        /\ ~(InputsAvailable(b, m, t) /\ Mature(b, t))}

(* Fault for the mutation runs: their descendants stay.                    *)
RemoveUnminable(b, m) == RemoveStaged(m, Unminable(b, m), FALSE)

removeForReorg(b, m) == RemoveStaged(m, CalculateDescendants(m, Unminable(b, m)), FALSE)

updateMempoolForReorg(b, m, queue, add) ==
    LET back == Resurrect(b, m, queue, add)
    IN  LimitSize(removeForReorg(b, UpdateTransactionsFromBlock(back.pool, back.txids)))

-----------------------------------------------------------------------------
Init ==
    /\ tip = Genesis /\ pool = EmptyPool
    /\ queuedTx = <<>> /\ fBlocksDisconnected = FALSE /\ target = NullHash

(* A transaction arrives from a peer, the wallet or an RPC.                *)
AcceptToMemoryPool(t) ==
    /\ target = NullHash
    /\ Acceptable(tip, pool, t)
    /\ pool' \in LimitSize(addUnchecked(pool, t, AncestorsOfNew(pool, t)))
    /\ UNCHANGED <<tip, queuedTx, fBlocksDisconnected, target>>

(* ActivateBestChainStep heads for a block that is not in the chain,       *)
(* UnwindBlock for the block before the tip.                               *)
Targets == {b \in Blocks : b \notin Ancestors[tip] \/ b = Parent[tip]}

Heading(b) == IF target = NullHash THEN b \in Targets ELSE b = target

DisconnectTip(order) ==
    /\ \E b \in Blocks : Heading(b) /\ tip \notin Ancestors[b] /\ target' = b
    /\ tip' = Parent[tip]
    /\ LET was == IF tip \in Upgrades THEN importMempool(pool, queuedTx, order)
                  ELSE [pool |-> pool, queue |-> queuedTx]
           now == addForBlock(was.pool, was.queue, BlockTxs[tip], order)
       IN  pool' = now.pool /\ queuedTx' = now.queue
    /\ fBlocksDisconnected' = TRUE

ConnectTip(order) ==
    \E next \in Blocks :
       /\ Parent[next] = tip
       /\ \E b \in Blocks : Heading(b) /\ next \in Ancestors[b] /\ target' = b
       /\ tip' = next
       /\ LET mined == removeForBlock(pool, BlockTxs[next], order)
              left  == SelectSeq(queuedTx, LAMBDA t : ~Contains(BlockTxs[next], t))
              now   == IF next \in Upgrades THEN importMempool(mined, left, order)
                       ELSE [pool |-> mined, queue |-> left]
          IN  pool' = now.pool /\ queuedTx' = now.queue
       /\ UNCHANGED fBlocksDisconnected

(* The end of a step: every block was disconnected and some may have been  *)
(* connected (add), or the step failed or unwinds a deep chain (~add).     *)
EndStep(add) ==
    /\ target # NullHash
    /\ add => tip \in Ancestors[target]
    /\ IF ~add \/ fBlocksDisconnected \/ queuedTx # <<>>
       THEN pool' \in updateMempoolForReorg(tip, pool, queuedTx, add)
       ELSE UNCHANGED pool
    /\ queuedTx' = <<>> /\ fBlocksDisconnected' = FALSE /\ target' = NullHash
    /\ UNCHANGED tip

Next ==
    \/ \E t \in Txs : AcceptToMemoryPool(t)
    \/ \E order \in Orders : DisconnectTip(order) \/ ConnectTip(order)
    \/ \E add \in BOOLEAN : EndStep(add)

Spec == Init /\ [][Next]_vars

-----------------------------------------------------------------------------
(* What CTxMemPool::check asserts about the pool by itself, which holds    *)
(* even inside a reorganisation: mapLinks agrees with the inputs, the sums *)
(* of an entry count exactly its ancestors and its descendants, and no     *)
(* output is spent twice.                                                  *)
LinksAndSums ==
    /\ TypeOK
    /\ \A t \in pool.mapTx :
          /\ pool.parents[t] = InputTxs(t) \cap pool.mapTx
          /\ pool.children[t] = {u \in pool.mapTx : t \in InputTxs(u)}
          /\ pool.nSizeWithAncestors[t] = SumSize(Closure(pool.parents, {t}))
          /\ pool.nSizeWithDescendants[t] = SumSize(Closure(pool.children, {t}))
          /\ \A u \in pool.mapTx \ {t} : Inputs[t] \cap Inputs[u] = {}

(* Between steps every entry could be in the next block: its inputs are    *)
(* unspent outputs of the chain or of other entries, its lock times have   *)
(* passed, its coinbases are mature, and it satisfies the rules of the     *)
(* next block, after any number of reorganisations across an upgrade.      *)
PoolStillValid ==
    target = NullHash =>
       \A t \in pool.mapTx :
          /\ InputsAvailable(tip, pool, t) /\ t \notin Confirmed(tip)
          /\ tip \in Final[t] /\ tip \in Allowed[t] /\ Mature(tip, t)

(* The comment on updateMempoolForReorg: the queue holds nothing that is   *)
(* confirmed or in the pool; and no transaction precedes one that spends   *)
(* it, so the reverse iteration adds parents before children.              *)
QueueRight ==
    /\ IsInjective(queuedTx)
    /\ ToSet(queuedTx) \cap (pool.mapTx \cup Confirmed(tip)) = {}
    /\ \A i, j \in DOMAIN queuedTx : queuedTx[i] \in InputTxs(queuedTx[j]) => j < i

(* A transaction taken out of the chain comes back to the pool unless the  *)
(* new chain, the rules or the limits keep it out: at the end of a         *)
(* successful step a queued transaction missing from the pool is a         *)
(* coinbase, not minable on the new tip, in conflict with an entry, without *)
(* one of its inputs, or past a limit.                                     *)
KeptOut(t) ==
    \/ t \in CoinBases
    \/ tip \notin Final[t] \/ tip \notin Allowed[t] \/ ~Mature(tip, t)
    \/ Inputs[t] \cap Spent(pool'.mapTx) # {}
    \/ ~InputsAvailable(tip, pool', t)
    \/ t \in Expiring
    \/ LET all == pool.mapTx \cup ToSet(queuedTx)
           up   == [u \in Txs |-> InputTxs(u) \cap all]
           down == [u \in Txs |-> {v \in all : u \in InputTxs(v)}]
       IN  \/ SumSize(all \ CoinBases) > SizeLimit
           \/ SumSize(Closure(up, {t})) > LimitAncestorSize
           \/ \E a \in Closure(up, {t}) : SumSize(Closure(down, {a})) > LimitDescendantSize

Reinstated ==
    [][EndStep(TRUE) => \A t \in ToSet(queuedTx) \ pool'.mapTx : KeptOut(t)]_vars
=============================================================================
