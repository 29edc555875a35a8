----------------------------- MODULE CoinsView ------------------------------
(***************************************************************************)
(* CCoinsViewCache (src/src/coins.cpp) as functions on one cache layer.  A *)
(* cache maps an outpoint to an entry with the DIRTY and FRESH flags, or   *)
(* to NoEntry.  Its base is the map that base->GetCoin answers from, where *)
(* Spent stands for "returns false": neither a cache nor the database ever *)
(* returns true for a spent coin, so the branch of FetchCoin for one, which*)
(* would mark it FRESH, is dead here.                                      *)
(***************************************************************************)
EXTENDS Integers, FiniteSets, FiniteSetsExt

CONSTANTS Outpoints,
          Coins,        \* coins that are not spent
          Unspendable,  \* the ones whose scriptPubKey can never be spent
          Spent,        \* a cleared coin, Coin::IsSpent
          NoEntry,      \* cacheCoins.find(o) == cacheCoins.end()
          MemoryOf      \* Coin::DynamicMemoryUsage of an unspent coin

ASSUME CoinsAssumption ==
    /\ Spent \notin Coins
    /\ Unspendable \subseteq Coins
    /\ MemoryOf \in [Coins -> Nat]

Entries == [coin : Coins \cup {Spent}, dirty : BOOLEAN, fresh : BOOLEAN]

ASSUME EntriesAssumption == NoEntry \notin Entries

Caches == [Outpoints -> Entries \cup {NoEntry}]
Views  == [Outpoints -> Coins \cup {Spent}]

(* A cache with no entries, and the entry that emplace constructs.         *)
EmptyCache == [o \in Outpoints |-> NoEntry]
NewEntry   == [coin |-> Spent, dirty |-> FALSE, fresh |-> FALSE]

(* What GetCoin answers from a cache on top of base.                       *)
Seen(e, coin) == IF e = NoEntry THEN coin ELSE e.coin
View(cache, base) == [o \in Outpoints |-> Seen(cache[o], base[o])]

(* FetchCoin pulls an unspent coin of the base into the cache.             *)
FetchEntry(e, coin) ==
    IF e # NoEntry \/ coin = Spent THEN e
    ELSE [coin |-> coin, dirty |-> FALSE, fresh |-> FALSE]
FetchCoin(cache, base, o) == [cache EXCEPT ![o] = FetchEntry(@, base[o])]

(* The comments on the flags in coins.h: an entry without DIRTY is what    *)
(* the parent view has, and FRESH means that the parent view has no        *)
(* unspent coin there; a FRESH entry is never a tombstone.                 *)
EntrySound(e, coin) ==
    e # NoEntry =>
        /\ ~e.dirty => e.coin = coin
        /\ e.fresh => coin = Spent /\ e.dirty
        /\ e.coin = Spent => e.dirty /\ ~e.fresh
FlagsSound(cache, base) == \A o \in Outpoints : EntrySound(cache[o], base[o])

-----------------------------------------------------------------------------
(* AddCoin.                                                                *)
Found(e) == IF e = NoEntry THEN NewEntry ELSE e

(* "Adding new coin that replaces non-pruned entry"                        *)
AddThrows(cache, o, c, overwrite) ==
    /\ c \notin Unspendable
    /\ ~overwrite
    /\ Found(cache[o]).coin # Spent

(* Fault for the mutation runs: a tombstone that the base still needs is   *)
(* marked FRESH.                                                           *)
AddEntryFresh(e, c, overwrite) ==
    IF c \in Unspendable THEN e
    ELSE [coin |-> c, dirty |-> TRUE, fresh |-> Found(e).fresh \/ ~overwrite]

AddEntry(e, c, overwrite) ==
    IF c \in Unspendable THEN e
    ELSE [coin  |-> c,
          dirty |-> TRUE,
          fresh |-> Found(e).fresh \/ (~overwrite /\ ~Found(e).dirty)]
AddCoin(cache, o, c, overwrite) == [cache EXCEPT ![o] = AddEntry(@, c, overwrite)]

-----------------------------------------------------------------------------
(* SpendCoin: a FRESH entry is dropped, any other is kept as a dirty       *)
(* tombstone for the base.                                                 *)
SpendEntry(e) ==
    IF e = NoEntry THEN NoEntry
    ELSE IF e.fresh THEN NoEntry
    ELSE [e EXCEPT !.coin = Spent, !.dirty = TRUE]

SpendCoin(cache, base, o) ==
    [cache EXCEPT ![o] = SpendEntry(FetchEntry(@, base[o]))]

(* Uncache drops an entry that was only read.                              *)
UncacheEntry(e) ==
    IF e = NoEntry THEN NoEntry
    ELSE IF e.dirty \/ e.fresh THEN e ELSE NoEntry
Uncache(cache, o) == [cache EXCEPT ![o] = UncacheEntry(@)]

-----------------------------------------------------------------------------
(* Fault for the mutation runs: the child's FRESH flag is copied over an   *)
(* entry of the parent.                                                    *)
MergeEntryFresh(c, p) ==
    IF c = NoEntry THEN p
    ELSE IF ~c.dirty THEN p
    ELSE IF c.coin = Spent /\ (IF p = NoEntry THEN c.fresh ELSE p.fresh)
         THEN NoEntry
         ELSE [coin |-> c.coin, dirty |-> TRUE,
               fresh |-> c.fresh \/ (p # NoEntry /\ p.fresh)]

(* BatchWrite of a child's entry c over the parent's entry p.              *)
MergeEntry(c, p) ==
    IF c = NoEntry THEN p
    ELSE IF ~c.dirty THEN p
    ELSE IF p = NoEntry
         THEN IF c.fresh /\ c.coin = Spent
              THEN NoEntry
              ELSE [coin |-> c.coin, dirty |-> TRUE, fresh |-> c.fresh]
         ELSE IF p.fresh /\ c.coin = Spent
              THEN NoEntry
              ELSE [p EXCEPT !.coin = c.coin, !.dirty = TRUE]

BatchWrite(child, parent) ==
    [o \in Outpoints |-> MergeEntry(child[o], parent[o])]

(* "FRESH flag misapplied to cache entry for base transaction with         *)
(* spendable outputs"                                                      *)
BatchThrows(child, parent) ==
    \E o \in Outpoints :
        /\ child[o] # NoEntry /\ parent[o] # NoEntry
        /\ child[o].dirty /\ child[o].fresh
        /\ parent[o].coin # Spent

(* CCoinsViewDB::BatchWrite, all batches of it: a dirty entry is erased or *)
(* written.                                                                *)
DbEntry(e, coin) ==
    IF e = NoEntry THEN coin
    ELSE IF e.dirty THEN e.coin ELSE coin
DbWrite(cache, db) == [o \in Outpoints |-> DbEntry(cache[o], db[o])]

-----------------------------------------------------------------------------
(* cachedCoinsUsage, kept by every operation as a running sum.             *)
Memory(coin) == IF coin = Spent THEN 0 ELSE MemoryOf[coin]
EntryMemory(e) == IF e = NoEntry THEN 0 ELSE Memory(e.coin)

FetchMemory(cache, base, o) ==
    IF cache[o] = NoEntry THEN Memory(base[o]) ELSE 0
AddMemory(cache, o, c) ==
    IF c \in Unspendable THEN 0 ELSE Memory(c) - EntryMemory(cache[o])
SpendMemory(cache, base, o) ==
    FetchMemory(cache, base, o) - EntryMemory(FetchEntry(cache[o], base[o]))
UncacheMemory(cache, o) ==
    IF UncacheEntry(cache[o]) = NoEntry THEN - EntryMemory(cache[o]) ELSE 0

(* Fault for the mutation runs: an erased entry is not subtracted.         *)
MergeMemoryErased(c, p) ==
    IF c = NoEntry THEN 0
    ELSE IF ~c.dirty THEN 0
    ELSE Memory(c.coin) - (IF p = NoEntry THEN 0
                           ELSE IF p.fresh /\ c.coin = Spent THEN 0
                           ELSE Memory(p.coin))

(* What one entry of BatchWrite adds to the parent's sum.                  *)
MergeMemory(c, p) ==
    IF c = NoEntry THEN 0
    ELSE IF ~c.dirty THEN 0
    ELSE IF p = NoEntry
         THEN IF c.fresh /\ c.coin = Spent THEN 0 ELSE Memory(c.coin)
         ELSE IF p.fresh /\ c.coin = Spent
              THEN - Memory(p.coin)
              ELSE Memory(c.coin) - Memory(p.coin)

BatchMemory(child, parent) ==
    MapThenSumSet(LAMBDA o : MergeMemory(child[o], parent[o]), Outpoints)

(* What the sum should be.                                                 *)
MemoryUsage(cache) == MapThenSumSet(LAMBDA o : EntryMemory(cache[o]), Outpoints)
=============================================================================
