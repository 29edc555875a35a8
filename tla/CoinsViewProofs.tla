--------------------------- MODULE CoinsViewProofs ---------------------------
(* What the operations of CCoinsViewCache do to the map that the readers   *)
(* of a cache see, and to the soundness of its flags: first on one entry,  *)
(* then on a cache over a base.                                            *)
EXTENDS CoinsView, TLAPS

USE CoinsAssumption, EntriesAssumption

Entry == Entries \cup {NoEntry}
Coin  == Coins \cup {Spent}

(* Every operation on an entry gives an entry.                             *)
LEMMA EntryTypes ==
    /\ \A e \in Entry, b \in Coin : Seen(e, b) \in Coin /\ FetchEntry(e, b) \in Entry
    /\ \A e \in Entry : SpendEntry(e) \in Entry /\ UncacheEntry(e) \in Entry
    /\ \A e, p \in Entry : MergeEntry(e, p) \in Entry
<1>1. ASSUME NEW e \in Entry, NEW b \in Coin
      PROVE  Seen(e, b) \in Coin /\ FetchEntry(e, b) \in Entry
  BY Zenon DEF Entry, Coin, Entries, Seen, FetchEntry
<1>2. ASSUME NEW e \in Entry
      PROVE  SpendEntry(e) \in Entry /\ UncacheEntry(e) \in Entry
  BY Zenon DEF Entry, Entries, SpendEntry, UncacheEntry
<1>3. ASSUME NEW e \in Entry, NEW p \in Entry
      PROVE  MergeEntry(e, p) \in Entry
  BY Zenon DEF Entry, Entries, MergeEntry
<1> QED
  BY <1>1, <1>2, <1>3, Zenon

(* FetchCoin on an entry.                                                  *)
LEMMA FetchSeen ==
    ASSUME NEW e \in Entry, NEW b \in Coin
    PROVE  /\ Seen(FetchEntry(e, b), b) = Seen(e, b)
           /\ EntrySound(e, b) => EntrySound(FetchEntry(e, b), b)
BY Zenon DEF Entry, Coin, Entries, Seen, FetchEntry, EntrySound

(* AddCoin on an entry.                                                    *)
LEMMA AddSeen ==
    ASSUME NEW e \in Entry, NEW b \in Coin, NEW c \in Coins,
           NEW overwrite \in BOOLEAN, c \notin Unspendable
    PROVE  /\ AddEntry(e, c, overwrite) \in Entry
           /\ Seen(AddEntry(e, c, overwrite), b) = c
           /\ EntrySound(e, b) /\ (overwrite \/ Found(e).coin = Spent)
              /\ (overwrite \/ Seen(e, b) = Spent)
                => EntrySound(AddEntry(e, c, overwrite), b)
<1> DEFINE a == AddEntry(e, c, overwrite)
<1>1. /\ a \in Entry /\ a # NoEntry /\ a.coin = c /\ a.dirty
      /\ a.fresh <=> Found(e).fresh \/ (~overwrite /\ ~Found(e).dirty)
  <2>1. a = [coin |-> c, dirty |-> TRUE,
             fresh |-> Found(e).fresh \/ (~overwrite /\ ~Found(e).dirty)]
    BY Zenon DEF AddEntry
  <2>2. (Found(e).fresh \/ (~overwrite /\ ~Found(e).dirty)) \in BOOLEAN
    BY Zenon
  <2>3. a \in Entries
    BY <2>1, <2>2 DEF Entries
  <2> HIDE DEF a
  <2> QED
    BY <2>1, <2>3, Zenon DEF Entry
<1>2. Seen(a, b) = c
  BY <1>1, Zenon DEF Seen
<1>3. ASSUME EntrySound(e, b), overwrite \/ Seen(e, b) = Spent, a.fresh
      PROVE  b = Spent
  BY <1>1, <1>3, Zenon DEF EntrySound, Seen, Found, NewEntry, Entry, Entries
<1> QED
  BY <1>1, <1>2, <1>3, Zenon DEF EntrySound

(* SpendCoin on an entry.                                                  *)
LEMMA SpendSeen ==
    ASSUME NEW e \in Entry, NEW b \in Coin, EntrySound(e, b)
    PROVE  /\ Seen(SpendEntry(FetchEntry(e, b)), b) = Spent
           /\ EntrySound(SpendEntry(FetchEntry(e, b)), b)
<1>1. CASE e = NoEntry /\ b = Spent
  BY <1>1, Zenon DEF Seen, FetchEntry, SpendEntry, EntrySound
<1>2. CASE e = NoEntry /\ b # Spent
  <2> DEFINE f == [coin |-> b, dirty |-> FALSE, fresh |-> FALSE]
  <2> DEFINE s == [f EXCEPT !.coin = Spent, !.dirty = TRUE]
  <2>1. f \in Entries /\ f.fresh = FALSE
    BY Zenon DEF Entries, Coin
  <2>2. s \in Entries /\ s.coin = Spent /\ s.dirty /\ s.fresh = FALSE
    BY Zenon DEF Entries
  <2>3. FetchEntry(e, b) = f
    BY <1>2, Zenon DEF FetchEntry
  <2> HIDE DEF f
  <2>4. SpendEntry(f) = s
    BY <2>1, Zenon DEF SpendEntry
  <2> HIDE DEF s
  <2> QED
    BY <2>2, <2>3, <2>4, Zenon DEF Seen, EntrySound
<1>3. CASE e # NoEntry
  <2>1. FetchEntry(e, b) = e /\ e \in Entries
    BY <1>3, Zenon DEF FetchEntry, Entry
  <2>2. CASE e.fresh
    BY <1>3, <2>1, <2>2, Zenon DEF Seen, SpendEntry, EntrySound
  <2>3. CASE ~e.fresh
    <3> DEFINE s == [e EXCEPT !.coin = Spent, !.dirty = TRUE]
    <3>1. s \in Entries /\ s.coin = Spent /\ s.dirty /\ s.fresh = e.fresh
      BY <2>1, Zenon DEF Entries
    <3>2. SpendEntry(e) = s
      BY <1>3, <2>3, Zenon DEF SpendEntry
    <3> HIDE DEF s
    <3> QED
      BY <2>1, <2>3, <3>1, <3>2, Zenon DEF Seen, EntrySound
  <2> QED
    BY <2>2, <2>3, Zenon
<1> QED
  BY <1>1, <1>2, <1>3, Zenon

(* Uncache on an entry.                                                    *)
LEMMA UncacheSeen ==
    ASSUME NEW e \in Entry, NEW b \in Coin, EntrySound(e, b)
    PROVE  /\ Seen(UncacheEntry(e), b) = Seen(e, b)
           /\ EntrySound(UncacheEntry(e), b)
BY Zenon DEF Seen, UncacheEntry, EntrySound, Entry, Entries

(* BatchWrite on an entry: the parent then shows what the child showed.    *)
LEMMA MergeSeen ==
    ASSUME NEW c \in Entry, NEW p \in Entry, NEW b \in Coin,
           EntrySound(p, b), EntrySound(c, Seen(p, b))
    PROVE  /\ Seen(MergeEntry(c, p), b) = Seen(c, Seen(p, b))
           /\ EntrySound(MergeEntry(c, p), b)
<1>1. CASE c = NoEntry
  BY <1>1, Zenon DEF MergeEntry, Seen
<1>2. CASE c # NoEntry /\ ~c.dirty
  BY <1>2, Zenon DEF MergeEntry, Seen, EntrySound
<1>3. CASE c # NoEntry /\ c.dirty /\ p = NoEntry
  <2> DEFINE m == [coin |-> c.coin, dirty |-> TRUE, fresh |-> c.fresh]
  <2>1. c \in Entries /\ ~(c.fresh /\ c.coin = Spent)
    BY <1>3, Zenon DEF Entry, EntrySound
  <2>2. m \in Entries /\ m.coin = c.coin /\ m.dirty /\ m.fresh = c.fresh
    BY <2>1, Zenon DEF Entries
  <2>3. MergeEntry(c, p) = m
    BY <1>3, <2>1, Zenon DEF MergeEntry
  <2> HIDE DEF m
  <2> QED
    BY <1>3, <2>1, <2>2, <2>3, Zenon DEF Seen, EntrySound
<1>4. CASE c # NoEntry /\ c.dirty /\ p # NoEntry
  <2>1. c \in Entries /\ p \in Entries
    BY <1>4, Zenon DEF Entry
  <2>2. CASE p.fresh /\ c.coin = Spent
    BY <1>4, <2>2, Zenon DEF MergeEntry, Seen, EntrySound
  <2>3. CASE ~(p.fresh /\ c.coin = Spent)
    <3> DEFINE m == [p EXCEPT !.coin = c.coin, !.dirty = TRUE]
    <3>1. m \in Entries /\ m.coin = c.coin /\ m.dirty /\ m.fresh = p.fresh
      BY <2>1, Zenon DEF Entries
    <3>2. MergeEntry(c, p) = m
      BY <1>4, <2>3, Zenon DEF MergeEntry
    <3> HIDE DEF m
    <3> QED
      BY <1>4, <2>1, <2>3, <3>1, <3>2, Zenon DEF Seen, EntrySound
  <2> QED
    BY <2>2, <2>3, Zenon
<1> QED
  BY <1>1, <1>2, <1>3, <1>4, Zenon
-----------------------------------------------------------------------------
(* The same facts for a cache over a base.                                 *)

(* Caches and views, by outpoint.                                          *)
LEMMA ViewType ==
    ASSUME NEW cache \in Caches, NEW base \in Views
    PROVE  /\ View(cache, base) \in Views
           /\ \A o \in Outpoints : /\ cache[o] \in Entry /\ base[o] \in Coin
                                  /\ View(cache, base)[o] = Seen(cache[o], base[o])
BY EntryTypes, Zenon DEF View, Caches, Views, Entry, Coin

(* Reading is invisible.                                                   *)
LEMMA FetchView ==
    ASSUME NEW cache \in Caches, NEW base \in Views, NEW o \in Outpoints,
           FlagsSound(cache, base)
    PROVE  /\ FetchCoin(cache, base, o) \in Caches
           /\ View(FetchCoin(cache, base, o), base) = View(cache, base)
           /\ FlagsSound(FetchCoin(cache, base, o), base)
<1>1. /\ FetchEntry(cache[o], base[o]) \in Entry
      /\ Seen(FetchEntry(cache[o], base[o]), base[o]) = Seen(cache[o], base[o])
      /\ EntrySound(FetchEntry(cache[o], base[o]), base[o])
  BY ViewType, EntryTypes, FetchSeen, Zenon DEF FlagsSound
<1> QED
  BY <1>1, Zenon DEF FetchCoin, View, FlagsSound, Caches, Entry

(* AddCoin puts the coin in the map.                                       *)
LEMMA AddView ==
    ASSUME NEW cache \in Caches, NEW base \in Views, NEW o \in Outpoints,
           NEW c \in Coins, NEW overwrite \in BOOLEAN,
           FlagsSound(cache, base),
           ~AddThrows(cache, o, c, overwrite),
           overwrite \/ View(cache, base)[o] = Spent \/ cache[o] # NoEntry
    PROVE  /\ AddCoin(cache, o, c, overwrite) \in Caches
           /\ View(AddCoin(cache, o, c, overwrite), base) =
                 IF c \in Unspendable THEN View(cache, base)
                                      ELSE [View(cache, base) EXCEPT ![o] = c]
           /\ FlagsSound(AddCoin(cache, o, c, overwrite), base)
<1>1. CASE c \in Unspendable
  <2>1. AddCoin(cache, o, c, overwrite) = cache
    BY <1>1, Zenon DEF AddCoin, AddEntry, Caches
  <2> QED
    BY <1>1, <2>1, Zenon
<1>2. CASE c \notin Unspendable
  <2>1. /\ overwrite \/ Found(cache[o]).coin = Spent
        /\ overwrite \/ Seen(cache[o], base[o]) = Spent
    BY <1>2, ViewType, Zenon DEF AddThrows, Found, Seen
  <2>2. /\ AddEntry(cache[o], c, overwrite) \in Entry
        /\ Seen(AddEntry(cache[o], c, overwrite), base[o]) = c
        /\ EntrySound(AddEntry(cache[o], c, overwrite), base[o])
    BY <1>2, <2>1, ViewType, EntryTypes, AddSeen DEF FlagsSound
  <2> QED
    BY <1>2, <2>2, Zenon DEF AddCoin, View, FlagsSound, Caches, Entry
<1> QED
  BY <1>1, <1>2, Zenon

(* SpendCoin removes the coin from the map.                                *)
LEMMA SpendView ==
    ASSUME NEW cache \in Caches, NEW base \in Views, NEW o \in Outpoints,
           FlagsSound(cache, base)
    PROVE  /\ SpendCoin(cache, base, o) \in Caches
           /\ View(SpendCoin(cache, base, o), base) =
                 [View(cache, base) EXCEPT ![o] = Spent]
           /\ FlagsSound(SpendCoin(cache, base, o), base)
<1>1. /\ SpendEntry(FetchEntry(cache[o], base[o])) \in Entry
      /\ Seen(SpendEntry(FetchEntry(cache[o], base[o])), base[o]) = Spent
      /\ EntrySound(SpendEntry(FetchEntry(cache[o], base[o])), base[o])
  <2>1. FetchEntry(cache[o], base[o]) \in Entry
    BY ViewType, EntryTypes, Zenon
  <2> QED
    BY <2>1, ViewType, EntryTypes, SpendSeen, Zenon DEF FlagsSound
<1> QED
  BY <1>1, Zenon DEF SpendCoin, View, FlagsSound, Caches, Entry

(* Uncache is invisible.                                                   *)
LEMMA UncacheView ==
    ASSUME NEW cache \in Caches, NEW base \in Views, NEW o \in Outpoints,
           FlagsSound(cache, base)
    PROVE  /\ Uncache(cache, o) \in Caches
           /\ View(Uncache(cache, o), base) = View(cache, base)
           /\ FlagsSound(Uncache(cache, o), base)
<1>1. /\ UncacheEntry(cache[o]) \in Entry
      /\ Seen(UncacheEntry(cache[o]), base[o]) = Seen(cache[o], base[o])
      /\ EntrySound(UncacheEntry(cache[o]), base[o])
  BY ViewType, EntryTypes, UncacheSeen, Zenon DEF FlagsSound
<1> QED
  BY <1>1, Zenon DEF Uncache, View, FlagsSound, Caches, Entry

(* Flushing a cache into its parent makes the parent's map the child's,    *)
(* and does not throw.                                                     *)
LEMMA BatchView ==
    ASSUME NEW child \in Caches, NEW parent \in Caches, NEW base \in Views,
           FlagsSound(parent, base), FlagsSound(child, View(parent, base))
    PROVE  /\ BatchWrite(child, parent) \in Caches
           /\ View(BatchWrite(child, parent), base) = View(child, View(parent, base))
           /\ FlagsSound(BatchWrite(child, parent), base)
           /\ ~BatchThrows(child, parent)
<1>1. ASSUME NEW o \in Outpoints
      PROVE  /\ MergeEntry(child[o], parent[o]) \in Entry
             /\ Seen(MergeEntry(child[o], parent[o]), base[o])
                  = Seen(child[o], Seen(parent[o], base[o]))
             /\ EntrySound(MergeEntry(child[o], parent[o]), base[o])
  <2>1. /\ child[o] \in Entry /\ parent[o] \in Entry /\ base[o] \in Coin
        /\ EntrySound(parent[o], base[o])
        /\ EntrySound(child[o], Seen(parent[o], base[o]))
    BY ViewType, Zenon DEF FlagsSound
  <2> QED
    BY <2>1, EntryTypes, MergeSeen, Zenon
<1>2. ~BatchThrows(child, parent)
  BY ViewType DEF BatchThrows, FlagsSound, EntrySound, Seen
<1> QED
  BY <1>1, <1>2, ViewType, Zenon DEF BatchWrite, View, FlagsSound, Caches, Entry

(* Flushing a cache into the database makes the database the cache's map.  *)
LEMMA DbWriteView ==
    ASSUME NEW cache \in Caches, NEW base \in Views, FlagsSound(cache, base)
    PROVE  DbWrite(cache, base) = View(cache, base)
BY Zenon DEF DbWrite, DbEntry, View, Seen, FlagsSound, EntrySound, Caches, Views

(* An empty cache shows its base.                                          *)
LEMMA EmptyView ==
    ASSUME NEW base \in Views
    PROVE  /\ EmptyCache \in Caches
           /\ View(EmptyCache, base) = base
           /\ FlagsSound(EmptyCache, base)
BY Zenon DEF EmptyCache, View, Seen, FlagsSound, EntrySound, Caches, Views
=============================================================================
