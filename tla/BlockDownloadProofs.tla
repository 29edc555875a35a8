------------------------ MODULE BlockDownloadProofs -------------------------
(***************************************************************************)
(* Proofs about BlockDownload, for any number of peers and blocks, any     *)
(* limits and window, and whatever the peers send.                         *)
(***************************************************************************)
EXTENDS BlockDownload, FiniteSetTheorems, WellFoundedInduction, TLAPS

-----------------------------------------------------------------------------
(* The operations on what is in flight.                                    *)

Kinds == {"block", "cmpct", "txn"}

LEMMA ReceivedType ==
    ASSUME NEW d \in Downloads, NEW b \in Blocks
    PROVE  MarkBlockAsReceived(d, b) \in Downloads
<1>1. CASE d.mapBlocksInFlight[b] = NoPeer
  BY <1>1, Zenon DEF MarkBlockAsReceived
<1>2. CASE d.mapBlocksInFlight[b] # NoPeer
  <2>1. d.mapBlocksInFlight[b] \in Peers
    BY <1>2, Zenon DEF Downloads
  <2> QED BY <1>2, <2>1 DEF MarkBlockAsReceived, Downloads
<1> QED BY <1>1, <1>2, Zenon

LEMMA AddedType ==
    ASSUME NEW d \in Downloads, NEW p \in Peers, NEW bs \in SUBSET Blocks, IsFiniteSet(bs),
           NEW kinds \in SUBSET Kinds
    PROVE  Added(d, p, bs, kinds) \in Downloads
<1>1. Cardinality(bs) \in Nat
  BY FS_CardinalityType, Zenon
<1> DEFINE n == Cardinality(bs)
<1> HIDE DEF n
<1>2. /\ [b \in Blocks |-> IF b \in bs THEN p ELSE d.mapBlocksInFlight[b]] \in [Blocks -> Peers \cup {NoPeer}]
      /\ [d.vBlocksInFlight EXCEPT ![p] = @ \cup bs] \in [Peers -> SUBSET Blocks]
      /\ d.partialBlock \in [Peers -> SUBSET Blocks] /\ d.nStallingSince \in [Peers -> BOOLEAN]
      /\ [b \in Blocks |-> IF b \in bs THEN d.asked[b] \cup kinds ELSE d.asked[b]]
             \in [Blocks -> SUBSET {"block", "cmpct", "txn"}]
  BY Zenon DEF Downloads, Kinds
<1>3. /\ [d.nBlocksInFlight EXCEPT ![p] = @ + n] \in [Peers -> Int]
      /\ [d.nBlocksInFlightValidHeaders EXCEPT ![p] = @ + n] \in [Peers -> Int]
      /\ d.nPeersWithValidatedDownloads
             + (IF d.nBlocksInFlightValidHeaders[p] = 0 /\ bs # {} THEN 1 ELSE 0) \in Int
  BY <1>1 DEF Downloads, n
<1> QED BY <1>2, <1>3, Zenon DEF Added, Downloads, n

(* Equal records.                                                          *)
LEMMA SameDownloads ==
    ASSUME NEW d \in Downloads, NEW e \in Downloads,
           d.mapBlocksInFlight = e.mapBlocksInFlight, d.vBlocksInFlight = e.vBlocksInFlight,
           d.partialBlock = e.partialBlock, d.nBlocksInFlight = e.nBlocksInFlight,
           d.nBlocksInFlightValidHeaders = e.nBlocksInFlightValidHeaders,
           d.nPeersWithValidatedDownloads = e.nPeersWithValidatedDownloads,
           d.nStallingSince = e.nStallingSince, d.asked = e.asked
    PROVE  d = e
BY DEF Downloads

(* Records that differ in the requests only.                               *)
SameFlight(d, e) ==
    /\ e.mapBlocksInFlight = d.mapBlocksInFlight /\ e.vBlocksInFlight = d.vBlocksInFlight
    /\ e.partialBlock = d.partialBlock /\ e.nBlocksInFlight = d.nBlocksInFlight
    /\ e.nBlocksInFlightValidHeaders = d.nBlocksInFlightValidHeaders
    /\ e.nPeersWithValidatedDownloads = d.nPeersWithValidatedDownloads
    /\ e.nStallingSince = d.nStallingSince

LEMMA AskFields ==
    ASSUME NEW d \in Downloads, NEW b \in Blocks, NEW p, NEW kind \in Kinds
    PROVE  /\ Ask(d, p, kind, b) \in Downloads /\ SameFlight(d, Ask(d, p, kind, b))
           /\ Ask(d, p, kind, b).asked =
                  IF d.mapBlocksInFlight[b] = p THEN [d.asked EXCEPT ![b] = @ \cup {kind}] ELSE d.asked
BY Zenon DEF Ask, Downloads, SameFlight, Kinds

LEMMA AnsweredFields ==
    ASSUME NEW d \in Downloads, NEW b \in Blocks, NEW p, NEW kind \in Kinds
    PROVE  /\ Answered(d, p, kind, b) \in Downloads /\ SameFlight(d, Answered(d, p, kind, b))
           /\ Answered(d, p, kind, b).asked =
                  IF d.mapBlocksInFlight[b] = p THEN [d.asked EXCEPT ![b] = @ \ {kind}] ELSE d.asked
BY Zenon DEF Answered, Downloads, SameFlight, Kinds

(* Marking and requesting one more block after those in bs is the same as  *)
(* requesting it with them: Request is what the code's loop does.          *)
LEMMA RequestOneMore ==
    ASSUME NEW d \in Downloads, NEW p \in Peers, NEW bs \in SUBSET Blocks, IsFiniteSet(bs),
           d.nBlocksInFlightValidHeaders[p] >= 0,
           NEW b \in Blocks \ bs, d.mapBlocksInFlight[b] = NoPeer, NEW kind \in {"block", "cmpct"}
    PROVE  /\ Request(d, p, kind, {}) = d
           /\ Request(d, p, kind, bs \cup {b}) =
                  Ask(MarkBlockAsInFlight(Request(d, p, kind, bs), p, b), p, kind, b)
<1>1. /\ Cardinality(bs) \in Nat /\ Cardinality({}) = 0 /\ Cardinality({b}) = 1
      /\ Cardinality(bs \cup {b}) = Cardinality(bs) + 1 /\ (Cardinality(bs) = 0 <=> bs = {})
      /\ IsFiniteSet({}) /\ IsFiniteSet({b}) /\ IsFiniteSet(bs \cup {b}) /\ {kind} \in SUBSET Kinds
      /\ p # NoPeer /\ kind \in Kinds
  BY FS_CardinalityType, FS_AddElement, FS_EmptySet, FS_Singleton, DownloadAssumption, Zenon DEF Kinds
<1>2. Request(d, p, kind, {}) = d
  <2>1. Request(d, p, kind, {}) \in Downloads
    BY <1>1, AddedType, Zenon DEF Request
  <2> QED BY <1>1, <2>1, SameDownloads DEF Request, Added, Downloads
<1>3. Request(d, p, kind, bs \cup {b}) =
                  Ask(MarkBlockAsInFlight(Request(d, p, kind, bs), p, b), p, kind, b)
  <2> DEFINE r == Request(d, p, kind, bs)
             m == Added(r, p, {b}, {})
             all == Request(d, p, kind, bs \cup {b})
  <2>1. r \in Downloads /\ all \in Downloads
    BY <1>1, AddedType, Zenon DEF Request
  <2>2. /\ r.mapBlocksInFlight[b] = NoPeer /\ r = Added(d, p, bs, {kind})
        /\ r.nBlocksInFlightValidHeaders[p] = d.nBlocksInFlightValidHeaders[p] + Cardinality(bs)
    BY Zenon DEF Request, Added, Downloads
  <2>3. MarkBlockAsInFlight(r, p, b) = m /\ m \in Downloads
    <3> HIDE DEF r
    <3> QED BY <1>1, <2>1, <2>2, AddedType, Zenon DEF MarkBlockAsInFlight, MarkBlockAsReceived
  <2>4. m.mapBlocksInFlight[b] = p
    BY Zenon DEF Added
  <2> DEFINE e == Ask(m, p, kind, b)
  <2>5. e \in Downloads /\ SameFlight(m, e) /\ e.asked = [m.asked EXCEPT ![b] = @ \cup {kind}]
    <3> HIDE DEF m
    <3> QED BY <1>1, <2>3, <2>4, AskFields
  <2>6. all.mapBlocksInFlight = m.mapBlocksInFlight
    BY Zenon DEF Request, Added
  <2>7. all.vBlocksInFlight = m.vBlocksInFlight /\ all.partialBlock = m.partialBlock
        /\ all.nStallingSince = m.nStallingSince
    BY Zenon DEF Request, Added, Downloads
  <2>8. /\ all.nBlocksInFlight = [d.nBlocksInFlight EXCEPT ![p] = @ + (Cardinality(bs) + 1)]
        /\ r.nBlocksInFlight = [d.nBlocksInFlight EXCEPT ![p] = @ + Cardinality(bs)]
        /\ m.nBlocksInFlight = [r.nBlocksInFlight EXCEPT ![p] = @ + 1]
    BY <1>1, Zenon DEF Request, Added
  <2>9. /\ all.nBlocksInFlightValidHeaders =
              [d.nBlocksInFlightValidHeaders EXCEPT ![p] = @ + (Cardinality(bs) + 1)]
        /\ r.nBlocksInFlightValidHeaders =
              [d.nBlocksInFlightValidHeaders EXCEPT ![p] = @ + Cardinality(bs)]
        /\ m.nBlocksInFlightValidHeaders = [r.nBlocksInFlightValidHeaders EXCEPT ![p] = @ + 1]
    BY <1>1, Zenon DEF Request, Added
  <2>10. /\ all.nPeersWithValidatedDownloads = d.nPeersWithValidatedDownloads
               + IF d.nBlocksInFlightValidHeaders[p] = 0 THEN 1 ELSE 0
         /\ r.nPeersWithValidatedDownloads = d.nPeersWithValidatedDownloads
               + IF d.nBlocksInFlightValidHeaders[p] = 0 /\ bs # {} THEN 1 ELSE 0
         /\ m.nPeersWithValidatedDownloads = r.nPeersWithValidatedDownloads
               + IF r.nBlocksInFlightValidHeaders[p] = 0 THEN 1 ELSE 0
    BY Zenon DEF Request, Added
  <2>11. /\ all.asked = [c \in Blocks |-> IF c \in bs \cup {b} THEN d.asked[c] \cup {kind} ELSE d.asked[c]]
         /\ r.asked = [c \in Blocks |-> IF c \in bs THEN d.asked[c] \cup {kind} ELSE d.asked[c]]
         /\ m.asked = [c \in Blocks |-> IF c \in {b} THEN r.asked[c] \cup {} ELSE r.asked[c]]
    BY Zenon DEF Request, Added
  <2> HIDE DEF all, r, m, e
  <2>12. all.nBlocksInFlight = m.nBlocksInFlight
    BY <1>1, <2>8 DEF Downloads
  <2>13. all.nBlocksInFlightValidHeaders = m.nBlocksInFlightValidHeaders
    BY <1>1, <2>9 DEF Downloads
  <2>14. all.nPeersWithValidatedDownloads = m.nPeersWithValidatedDownloads
    <3>1. d.nBlocksInFlightValidHeaders[p] \in Nat /\ d.nPeersWithValidatedDownloads \in Int
      BY DEF Downloads
    <3> QED BY <1>1, <2>2, <2>10, <3>1
  <2>15. all.asked = [m.asked EXCEPT ![b] = @ \cup {kind}]
    <3>1. \A c \in Blocks : m.asked[c] = IF c \in bs THEN d.asked[c] \cup {kind} ELSE d.asked[c]
      BY <2>11
    <3>2. \A c \in Blocks : all.asked[c] = IF c \in bs \cup {b} THEN d.asked[c] \cup {kind} ELSE d.asked[c]
      BY <2>11, Zenon
    <3>3. \A c \in Blocks : all.asked[c] = [m.asked EXCEPT ![b] = @ \cup {kind}][c]
      BY <2>11, <3>1, <3>2, Zenon
    <3> QED BY <2>11, <3>3, Zenon
  <2>16. all = e
    BY <2>1, <2>5, <2>6, <2>7, <2>12, <2>13, <2>14, <2>15, SameDownloads DEF SameFlight
  <2> QED BY <2>3, <2>16, Zenon DEF all, r, m, e
<1> QED BY <1>2, <1>3, Zenon

-----------------------------------------------------------------------------
(* The map, the lists and the counters agree; the lists are finite, and    *)
(* only a peer with blocks in flight stalls.                               *)

Busy(d) == {p \in Peers : d.vBlocksInFlight[p] # {}}

FlightOK(d) ==
    /\ d \in Downloads
    /\ \A b \in Blocks, p \in Peers : d.mapBlocksInFlight[b] = p <=> b \in d.vBlocksInFlight[p]
    /\ \A p \in Peers :
          /\ d.partialBlock[p] \subseteq d.vBlocksInFlight[p] /\ IsFiniteSet(d.vBlocksInFlight[p])
          /\ d.nBlocksInFlight[p] = Cardinality(d.vBlocksInFlight[p])
          /\ d.nBlocksInFlightValidHeaders[p] = d.nBlocksInFlight[p]
          /\ d.nStallingSince[p] => d.vBlocksInFlight[p] # {}
    /\ IsFiniteSet(Busy(d)) /\ d.nPeersWithValidatedDownloads = Cardinality(Busy(d))

(* Every block in flight has a request that is not answered, and one that  *)
(* was begun as a compact block has another one than that for it.          *)
AskedOK(d, bs) ==
    /\ \A b \in bs : d.mapBlocksInFlight[b] # NoPeer => d.asked[b] # {}
    /\ \A p \in Peers : \A b \in d.partialBlock[p] \cap bs : d.asked[b] \cap {"block", "txn"} # {}

Limited(d) == \A p \in Peers : d.nBlocksInFlight[p] <= MAX_BLOCKS_IN_TRANSIT_PER_PEER

LEMMA SameFlightOK ==
    ASSUME NEW d, NEW e \in Downloads, FlightOK(d), SameFlight(d, e)
    PROVE  FlightOK(e)
BY DEF FlightOK, SameFlight, Busy

LEMMA ReceivedOK ==
    ASSUME NEW d, FlightOK(d), NEW b \in Blocks, NEW r, r = MarkBlockAsReceived(d, b)
    PROVE  /\ FlightOK(r) /\ r.mapBlocksInFlight[b] = NoPeer
           /\ \A c \in Blocks \ {b} : /\ r.mapBlocksInFlight[c] = d.mapBlocksInFlight[c]
                                      /\ r.asked[c] = d.asked[c]
           /\ \A q \in Peers : /\ r.vBlocksInFlight[q] = d.vBlocksInFlight[q] \ {b}
                               /\ r.partialBlock[q] = d.partialBlock[q] \ {b}
                               /\ r.nBlocksInFlight[q] <= d.nBlocksInFlight[q]
<1>0. r \in Downloads /\ d \in Downloads
  BY ReceivedType, Zenon DEF FlightOK
<1>00. \A q \in Peers : Cardinality(d.vBlocksInFlight[q]) \in Nat
  BY FS_CardinalityType, Zenon DEF FlightOK
<1>1. CASE d.mapBlocksInFlight[b] = NoPeer
  <2>1. r = d
    BY <1>1, Zenon DEF MarkBlockAsReceived
  <2>2. \A q \in Peers : b \notin d.vBlocksInFlight[q]
    BY <1>1, DownloadAssumption DEF FlightOK
  <2> QED BY <1>00, <1>1, <2>1, <2>2 DEF FlightOK
<1>2. CASE d.mapBlocksInFlight[b] # NoPeer
  <2>1. PICK p \in Peers : p = d.mapBlocksInFlight[b]
    BY <1>0, <1>2 DEF Downloads
  <2>2. /\ r.mapBlocksInFlight = [d.mapBlocksInFlight EXCEPT ![b] = NoPeer]
        /\ r.vBlocksInFlight = [d.vBlocksInFlight EXCEPT ![p] = @ \ {b}]
        /\ r.partialBlock = [d.partialBlock EXCEPT ![p] = @ \ {b}]
        /\ r.nBlocksInFlight = [d.nBlocksInFlight EXCEPT ![p] = @ - 1]
        /\ r.nBlocksInFlightValidHeaders = [d.nBlocksInFlightValidHeaders EXCEPT ![p] = @ - 1]
        /\ r.nPeersWithValidatedDownloads = d.nPeersWithValidatedDownloads
              - IF d.nBlocksInFlightValidHeaders[p] = 1 THEN 1 ELSE 0
        /\ r.nStallingSince = [d.nStallingSince EXCEPT ![p] = FALSE]
        /\ r.asked = [d.asked EXCEPT ![b] = {}]
    BY <1>2, <2>1, Zenon DEF MarkBlockAsReceived
  <2>3. b \in d.vBlocksInFlight[p] /\ \A q \in Peers \ {p} : b \notin d.vBlocksInFlight[q]
    BY <2>1, Zenon DEF FlightOK
  <2>4. \A q \in Peers : /\ r.vBlocksInFlight[q] = d.vBlocksInFlight[q] \ {b}
                         /\ r.partialBlock[q] = d.partialBlock[q] \ {b}
    BY <1>0, <2>2, <2>3 DEF FlightOK, Downloads
  <2>5. /\ r.mapBlocksInFlight[b] = NoPeer
        /\ \A c \in Blocks \ {b} : /\ r.mapBlocksInFlight[c] = d.mapBlocksInFlight[c]
                                   /\ r.asked[c] = d.asked[c]
    BY <1>0, <2>2 DEF Downloads
  <2>6. /\ IsFiniteSet(r.vBlocksInFlight[p])
        /\ Cardinality(r.vBlocksInFlight[p]) = Cardinality(d.vBlocksInFlight[p]) - 1
    BY <2>3, <2>4, FS_RemoveElement DEF FlightOK
  <2>7. \A q \in Peers : /\ IsFiniteSet(r.vBlocksInFlight[q])
                         /\ r.nBlocksInFlight[q] = Cardinality(r.vBlocksInFlight[q])
                         /\ r.nBlocksInFlightValidHeaders[q] = r.nBlocksInFlight[q]
                         /\ r.nBlocksInFlight[q] <= d.nBlocksInFlight[q]
    <3>1. \A q \in Peers : /\ d.nBlocksInFlight[q] = Cardinality(d.vBlocksInFlight[q])
                           /\ d.nBlocksInFlightValidHeaders[q] = d.nBlocksInFlight[q]
                           /\ IsFiniteSet(d.vBlocksInFlight[q])
      BY Zenon DEF FlightOK
    <3>2. /\ r.nBlocksInFlight[p] = d.nBlocksInFlight[p] - 1
          /\ r.nBlocksInFlightValidHeaders[p] = d.nBlocksInFlightValidHeaders[p] - 1
          /\ \A q \in Peers \ {p} :
                /\ r.nBlocksInFlight[q] = d.nBlocksInFlight[q]
                /\ r.nBlocksInFlightValidHeaders[q] = d.nBlocksInFlightValidHeaders[q]
                /\ r.vBlocksInFlight[q] = d.vBlocksInFlight[q]
      BY <1>0, <2>2 DEF Downloads
    <3> QED BY <1>00, <2>6, <3>1, <3>2
  <2>8. \A q \in Peers : r.nStallingSince[q] => r.vBlocksInFlight[q] # {}
    BY <1>0, <2>2 DEF FlightOK, Downloads
  <2>9. IsFiniteSet(Busy(r)) /\ r.nPeersWithValidatedDownloads = Cardinality(Busy(r))
    <3>1. p \in Busy(d) /\ d.nBlocksInFlightValidHeaders[p] = Cardinality(d.vBlocksInFlight[p])
      BY <2>3, Zenon DEF Busy, FlightOK
    <3>2. \A q \in Peers \ {p} : q \in Busy(r) <=> q \in Busy(d)
      BY <2>3, <2>4 DEF Busy
    <3>3. CASE d.nBlocksInFlightValidHeaders[p] = 1
      <4>1. r.vBlocksInFlight[p] = {}
        BY <2>6, <3>1, <3>3, FS_EmptySet
      <4>2. Busy(r) = Busy(d) \ {p}
        BY <3>2, <4>1, Zenon DEF Busy
      <4> QED BY <2>2, <3>1, <3>3, <4>2, FS_RemoveElement DEF FlightOK
    <3>4. CASE d.nBlocksInFlightValidHeaders[p] # 1
      <4>1. r.vBlocksInFlight[p] # {}
        BY <1>00, <2>6, <3>1, <3>4, FS_EmptySet
      <4>2. Busy(r) = Busy(d)
        BY <3>1, <3>2, <4>1, Zenon DEF Busy
      <4>3. Cardinality(Busy(d)) \in Nat
        BY FS_CardinalityType, Zenon DEF FlightOK
      <4> QED BY <2>2, <3>4, <4>2, <4>3 DEF FlightOK
    <3> QED BY <3>3, <3>4, Zenon
  <2>10. \A c \in Blocks, q \in Peers : r.mapBlocksInFlight[c] = q <=> c \in r.vBlocksInFlight[q]
    BY <2>4, <2>5, DownloadAssumption DEF FlightOK
  <2>11. \A q \in Peers : r.partialBlock[q] \subseteq r.vBlocksInFlight[q]
    BY <2>4 DEF FlightOK
  <2>12. FlightOK(r)
    BY <1>0, <2>7, <2>8, <2>9, <2>10, <2>11, Zenon DEF FlightOK
  <2> QED BY <2>4, <2>5, <2>7, <2>12, Zenon
<1> QED BY <1>1, <1>2, Zenon

LEMMA AddedOK ==
    ASSUME NEW d, FlightOK(d), NEW p \in Peers, NEW bs \in SUBSET Blocks, IsFiniteSet(bs),
           \A b \in bs : d.mapBlocksInFlight[b] = NoPeer, NEW kinds \in SUBSET Kinds,
           NEW r, r = Added(d, p, bs, kinds)
    PROVE  /\ FlightOK(r)
           /\ \A b \in bs : r.mapBlocksInFlight[b] = p /\ r.asked[b] = d.asked[b] \cup kinds
           /\ \A c \in Blocks \ bs : /\ r.mapBlocksInFlight[c] = d.mapBlocksInFlight[c]
                                     /\ r.asked[c] = d.asked[c]
           /\ r.vBlocksInFlight[p] = d.vBlocksInFlight[p] \cup bs
           /\ r.nBlocksInFlight[p] = d.nBlocksInFlight[p] + Cardinality(bs)
           /\ \A q \in Peers \ {p} : /\ r.vBlocksInFlight[q] = d.vBlocksInFlight[q]
                                     /\ r.nBlocksInFlight[q] = d.nBlocksInFlight[q]
           /\ r.partialBlock = d.partialBlock /\ r.nStallingSince = d.nStallingSince
<1>0. r \in Downloads /\ d \in Downloads
  BY AddedType, Zenon DEF FlightOK
<1>1. /\ \A q \in Peers : Cardinality(d.vBlocksInFlight[q]) \in Nat
      /\ Cardinality(bs) \in Nat /\ Cardinality(Busy(d)) \in Nat
  BY FS_CardinalityType, Zenon DEF FlightOK
<1>2. /\ r.mapBlocksInFlight = [b \in Blocks |-> IF b \in bs THEN p ELSE d.mapBlocksInFlight[b]]
      /\ r.vBlocksInFlight = [d.vBlocksInFlight EXCEPT ![p] = @ \cup bs]
      /\ r.partialBlock = d.partialBlock /\ r.nStallingSince = d.nStallingSince
      /\ r.asked = [b \in Blocks |-> IF b \in bs THEN d.asked[b] \cup kinds ELSE d.asked[b]]
  BY Zenon DEF Added
<1>3. /\ r.nBlocksInFlight = [d.nBlocksInFlight EXCEPT ![p] = @ + Cardinality(bs)]
      /\ r.nBlocksInFlightValidHeaders =
             [d.nBlocksInFlightValidHeaders EXCEPT ![p] = @ + Cardinality(bs)]
      /\ r.nPeersWithValidatedDownloads = d.nPeersWithValidatedDownloads
             + IF d.nBlocksInFlightValidHeaders[p] = 0 /\ bs # {} THEN 1 ELSE 0
  BY Zenon DEF Added
<1>4. /\ \A b \in bs : r.mapBlocksInFlight[b] = p /\ r.asked[b] = d.asked[b] \cup kinds
      /\ \A c \in Blocks \ bs : /\ r.mapBlocksInFlight[c] = d.mapBlocksInFlight[c]
                                /\ r.asked[c] = d.asked[c]
  BY <1>2, Zenon
<1>5. /\ r.vBlocksInFlight[p] = d.vBlocksInFlight[p] \cup bs
      /\ \A q \in Peers \ {p} : r.vBlocksInFlight[q] = d.vBlocksInFlight[q]
  BY <1>0, <1>2, Zenon DEF Downloads
<1>6. /\ r.nBlocksInFlight[p] = d.nBlocksInFlight[p] + Cardinality(bs)
      /\ r.nBlocksInFlightValidHeaders[p] = d.nBlocksInFlightValidHeaders[p] + Cardinality(bs)
      /\ \A q \in Peers \ {p} :
            /\ r.nBlocksInFlight[q] = d.nBlocksInFlight[q]
            /\ r.nBlocksInFlightValidHeaders[q] = d.nBlocksInFlightValidHeaders[q]
  BY <1>0, <1>3, Zenon DEF Downloads
<1>7. \A q \in Peers : bs \cap d.vBlocksInFlight[q] = {}
  BY DownloadAssumption DEF FlightOK
<1>8. /\ IsFiniteSet(r.vBlocksInFlight[p])
      /\ Cardinality(r.vBlocksInFlight[p]) = Cardinality(d.vBlocksInFlight[p]) + Cardinality(bs)
  <2>1. IsFiniteSet(d.vBlocksInFlight[p]) /\ Cardinality(d.vBlocksInFlight[p] \cap bs) = 0
    BY <1>7, FS_EmptySet, Zenon DEF FlightOK
  <2>2. /\ IsFiniteSet(d.vBlocksInFlight[p] \cup bs)
        /\ Cardinality(d.vBlocksInFlight[p] \cup bs) =
               Cardinality(d.vBlocksInFlight[p]) + Cardinality(bs)
                   - Cardinality(d.vBlocksInFlight[p] \cap bs)
    BY <2>1, FS_Union, Zenon
  <2> QED BY <1>1, <1>5, <2>1, <2>2
<1>9. \A q \in Peers : /\ IsFiniteSet(r.vBlocksInFlight[q])
                       /\ r.nBlocksInFlight[q] = Cardinality(r.vBlocksInFlight[q])
                       /\ r.nBlocksInFlightValidHeaders[q] = r.nBlocksInFlight[q]
  <2>1. \A q \in Peers : /\ d.nBlocksInFlight[q] = Cardinality(d.vBlocksInFlight[q])
                         /\ d.nBlocksInFlightValidHeaders[q] = d.nBlocksInFlight[q]
                         /\ IsFiniteSet(d.vBlocksInFlight[q])
    BY Zenon DEF FlightOK
  <2> QED BY <1>1, <1>5, <1>6, <1>8, <2>1, Zenon
<1>10. /\ \A q \in Peers : r.nStallingSince[q] => r.vBlocksInFlight[q] # {}
       /\ \A q \in Peers : r.partialBlock[q] \subseteq r.vBlocksInFlight[q]
  BY <1>2, <1>5 DEF FlightOK
<1>11. \A c \in Blocks, q \in Peers : r.mapBlocksInFlight[c] = q <=> c \in r.vBlocksInFlight[q]
  BY <1>4, <1>5, <1>7, DownloadAssumption DEF FlightOK
<1>12. IsFiniteSet(Busy(r)) /\ r.nPeersWithValidatedDownloads = Cardinality(Busy(r))
  <2>1. \A q \in Peers \ {p} : q \in Busy(r) <=> q \in Busy(d)
    BY <1>5, Zenon DEF Busy
  <2>2. d.nBlocksInFlightValidHeaders[p] = 0 <=> p \notin Busy(d)
    BY FS_EmptySet DEF Busy, FlightOK
  <2>3. IsFiniteSet(Busy(d)) /\ d.nPeersWithValidatedDownloads = Cardinality(Busy(d))
    BY Zenon DEF FlightOK
  <2>4. CASE p \notin Busy(d) /\ bs # {}
    <3>1. Busy(r) = Busy(d) \cup {p}
      BY <1>5, <2>1, <2>4, Zenon DEF Busy
    <3>2. IsFiniteSet(Busy(r)) /\ Cardinality(Busy(r)) = Cardinality(Busy(d)) + 1
      BY <2>3, <2>4, <3>1, FS_AddElement
    <3> QED BY <1>3, <2>2, <2>3, <2>4, <3>2, Zenon
  <2>5. CASE ~(p \notin Busy(d) /\ bs # {})
    <3>1. Busy(r) = Busy(d)
      BY <1>5, <2>1, <2>5, Zenon DEF Busy
    <3> QED BY <1>1, <1>3, <2>2, <2>3, <2>5, <3>1
  <2> QED BY <2>4, <2>5, Zenon
<1>13. FlightOK(r)
  BY <1>0, <1>9, <1>10, <1>11, <1>12, Zenon DEF FlightOK
<1> QED BY <1>2, <1>4, <1>5, <1>6, <1>13, Zenon

-----------------------------------------------------------------------------
(* The tree of blocks.                                                     *)

LEMMA NatMin ==
    ASSUME NEW T, T \subseteq Nat, T # {}
    PROVE  \E x \in T : \A y \in T : x <= y
<1>1. PICK x \in T : \A y \in T : ~ (<<y, x>> \in OpToRel(<, Nat))
  BY WFMin, NatLessThanWellFounded, Zenon
<1>2. \A y \in T : ~ (y < x)
  BY <1>1, Zenon DEF OpToRel
<1> QED BY <1>2

(* Induction from the genesis block upwards.                               *)
LEMMA TreeInduction ==
    ASSUME NEW S \in SUBSET Blocks, Genesis \in S,
           \A b \in Blocks \ {Genesis} : Parent[b] \in S => b \in S
    PROVE  S = Blocks
<1> DEFINE T == {Height[c] : c \in Blocks \ S}
<1> SUFFICES ASSUME S # Blocks PROVE FALSE
  BY Zenon
<1>1. T \subseteq Nat /\ T # {}
  BY HeightAssumption
<1>2. PICK n \in T : \A m \in T : n <= m
  <2> HIDE DEF T
  <2> QED BY <1>1, NatMin, Zenon
<1>3. PICK c \in Blocks \ S : \A e \in Blocks \ S : Height[c] <= Height[e]
  BY <1>2
<1>4. c # Genesis /\ Parent[c] \in Blocks /\ Height[c] = Height[Parent[c]] + 1
  BY <1>3, TreeAssumption, HeightAssumption, Zenon
<1>5. Parent[c] \in S
  BY <1>3, <1>4, HeightAssumption
<1> QED BY <1>3, <1>4, <1>5, Zenon

(* What is true of the chain of the genesis block, and of a block's if it  *)
(* is true of its parent's: ancestry is a partial order with the genesis   *)
(* block at its bottom, a block's ancestors are in a line, and each of     *)
(* them but the block itself has a child among them.                       *)
Line(b) ==
    /\ b \in Ancestors[b] /\ Genesis \in Ancestors[b]
    /\ \A a \in Ancestors[b] :
          /\ a \in Blocks /\ Ancestors[a] \subseteq Ancestors[b]
          /\ a = b \/ (/\ Height[a] < Height[b]
                       /\ \E c \in Ancestors[b] \ {Genesis} : Parent[c] = a)
          /\ \A c \in Ancestors[b] : a \in Ancestors[c] \/ c \in Ancestors[a]

LEMMA TreeFacts == \A b \in Blocks : Line(b)
<1> DEFINE S == {b \in Blocks : Line(b)}
<1>1. Genesis \in S
  BY AncestorsAssumption, TreeAssumption, Zenon DEF Line
<1>2. ASSUME NEW b \in Blocks \ {Genesis}, Parent[b] \in S
      PROVE  b \in S
  <2>1. /\ Ancestors[b] = {b} \cup Ancestors[Parent[b]] /\ Parent[b] \in Blocks
        /\ Height[b] = Height[Parent[b]] + 1
        /\ \A c \in Blocks : Height[c] \in Nat
    BY AncestorsAssumption, TreeAssumption, HeightAssumption, Zenon
  <2>2. Line(Parent[b])
    BY <1>2, Zenon
  <2>3. ASSUME NEW a \in Ancestors[b]
        PROVE  a = b \/ (Height[a] < Height[b]
                            /\ \E c \in Ancestors[b] \ {Genesis} : Parent[c] = a)
    <3>1. CASE a = Parent[b]
      BY <2>1, <3>1
    <3>2. CASE a # Parent[b] /\ a # b
      BY <2>1, <2>2, <3>2 DEF Line
    <3> QED BY <3>1, <3>2, Zenon
  <2>4. ASSUME NEW a \in Ancestors[b]
        PROVE  a \in Blocks /\ Ancestors[a] \subseteq Ancestors[b]
    BY <2>1, <2>2, Zenon DEF Line
  <2>5. ASSUME NEW a \in Ancestors[b], NEW c \in Ancestors[b]
        PROVE  a \in Ancestors[c] \/ c \in Ancestors[a]
    BY <2>1, <2>2, Zenon DEF Line
  <2> QED BY <2>1, <2>2, <2>3, <2>4, <2>5, Zenon DEF Line
<1>3. S = Blocks
  <2>1. S \in SUBSET Blocks
    BY Zenon
  <2> HIDE DEF S
  <2> QED BY <1>1, <1>2, <2>1, TreeInduction, Zenon
<1> QED BY <1>3, Zenon

(* The highest and the lowest block of a set.                              *)
LEMMA LowestFacts ==
    ASSUME NEW S \in SUBSET Blocks, S # {}
    PROVE  Lowest(S) \in S /\ \A c \in S : Height[Lowest(S)] <= Height[c]
<1> DEFINE T == {Height[c] : c \in S}
<1>1. T \subseteq Nat /\ T # {}
  BY HeightAssumption, Zenon
<1>2. PICK n \in T : \A m \in T : n <= m
  <2> HIDE DEF T
  <2> QED BY <1>1, NatMin, Zenon
<1>3. \E b \in S : \A c \in S : Height[b] <= Height[c]
  BY <1>2, Zenon
<1> QED BY <1>3, Zenon DEF Lowest

LEMMA HighestFacts ==
    ASSUME NEW b \in Blocks, NEW S \in SUBSET Ancestors[b], S # {}
    PROVE  Highest(S) \in S /\ \A c \in S : Height[c] <= Height[Highest(S)]
<1> DEFINE T == {Height[b] - Height[c] : c \in S}
<1>1. \A c \in S : c \in Blocks /\ Height[c] \in Nat /\ Height[b] \in Nat /\ Height[c] <= Height[b]
  BY TreeFacts, HeightAssumption DEF Line
<1>2. T \subseteq Nat /\ T # {}
  BY <1>1
<1>3. PICK n \in T : \A m \in T : n <= m
  <2> HIDE DEF T
  <2> QED BY <1>2, NatMin, Zenon
<1>4. PICK h \in S : n = Height[b] - Height[h]
  BY <1>3, Zenon
<1>5. ASSUME NEW c \in S PROVE Height[c] <= Height[h]
  <2>1. n <= Height[b] - Height[c]
    BY <1>3, Zenon
  <2> HIDE DEF T
  <2> QED BY <1>1, <1>4, <2>1
<1> QED BY <1>4, <1>5, Zenon DEF Highest

(* A chain is finite.                                                     *)
LEMMA ChainFinite == \A b \in Blocks : IsFiniteSet(Ancestors[b])
<1> DEFINE S == {b \in Blocks : IsFiniteSet(Ancestors[b])}
<1>1. Genesis \in S
  <2>1. IsFiniteSet({Genesis})
    BY FS_Singleton, Zenon
  <2> QED BY <2>1, AncestorsAssumption, TreeAssumption, Zenon
<1>2. ASSUME NEW b \in Blocks \ {Genesis}, Parent[b] \in S
      PROVE  b \in S
  <2>1. Ancestors[b] = Ancestors[Parent[b]] \cup {b}
    BY AncestorsAssumption, Zenon
  <2> QED BY <1>2, <2>1, FS_AddElement
<1>3. S = Blocks
  <2>1. S \in SUBSET Blocks
    BY Zenon
  <2> HIDE DEF S
  <2> QED BY <1>1, <1>2, <2>1, TreeInduction, Zenon
<1> QED BY <1>3, Zenon

(* First takes no more blocks than it is asked for.                        *)
LEMMA FirstFacts ==
    ASSUME NEW b \in Blocks, NEW S \in SUBSET Ancestors[b], NEW n \in Nat
    PROVE  /\ First(S, n) \subseteq S /\ IsFiniteSet(First(S, n))
           /\ Cardinality(First(S, n)) \in Nat /\ Cardinality(First(S, n)) <= n
<1>1. First(S, n) \subseteq S
  BY Zenon DEF First
<1>2. IsFiniteSet(S) /\ IsFiniteSet(First(S, n))
  BY <1>1, ChainFinite, FS_Subset, Zenon
<1>3. CASE First(S, n) = {}
  BY <1>1, <1>2, <1>3, FS_EmptySet
<1>4. CASE First(S, n) # {}
  <2> DEFINE h == Highest(First(S, n))
             T == {c \in S : Height[c] <= Height[h]}
  <2>1. h \in First(S, n) /\ \A c \in First(S, n) : Height[c] <= Height[h]
    <3>1. First(S, n) \in SUBSET Ancestors[b]
      BY <1>1, Zenon
    <3> QED BY <1>4, <3>1, HighestFacts, Zenon
  <2>2. Cardinality(T) <= n
    BY <2>1, Zenon DEF First
  <2>3. First(S, n) \subseteq T /\ T \subseteq S
    BY <1>1, <2>1, Zenon
  <2>4. IsFiniteSet(T) /\ Cardinality(First(S, n)) <= Cardinality(T)
    <3> HIDE DEF T
    <3> QED BY <1>2, <2>3, FS_Subset, Zenon
  <2>5. Cardinality(T) \in Nat /\ Cardinality(First(S, n)) \in Nat
    <3> HIDE DEF T
    <3> QED BY <1>2, <2>4, FS_CardinalityType, Zenon
  <2> HIDE DEF T
  <2> QED BY <1>1, <1>2, <2>2, <2>4, <2>5
<1> QED BY <1>3, <1>4, Zenon

-----------------------------------------------------------------------------
(* What a step does to the blocks in flight: only p's list grows, by       *)
(* blocks of bs at most.                                                   *)

DownloadOK(d) == FlightOK(d) /\ AskedOK(d, Blocks) /\ Limited(d)

Grows(d, e, p, bs) ==
    /\ \A q \in Peers \ {p} : e.vBlocksInFlight[q] \subseteq d.vBlocksInFlight[q]
    /\ e.vBlocksInFlight[p] \subseteq d.vBlocksInFlight[p] \cup bs

(* The blocks to request in a message: on one chain, none in flight or     *)
(* stored, no more than there is room for.                                 *)
LEMMA RequestStep ==
    ASSUME NEW d, DownloadOK(d), NEW p \in Peers, NEW bs \in SUBSET Blocks, IsFiniteSet(bs),
           \A b \in bs : d.mapBlocksInFlight[b] = NoPeer, NEW kind \in Kinds,
           bs = {} \/ d.nBlocksInFlight[p] + Cardinality(bs) <= MAX_BLOCKS_IN_TRANSIT_PER_PEER,
           NEW r, r = Request(d, p, kind, bs)
    PROVE  DownloadOK(r) /\ Grows(d, r, p, bs)
           /\ r.vBlocksInFlight[p] = d.vBlocksInFlight[p] \cup bs
           /\ \A q \in Peers \ {p} : r.vBlocksInFlight[q] = d.vBlocksInFlight[q]
<1>1. /\ FlightOK(r)
      /\ \A b \in bs : r.mapBlocksInFlight[b] = p /\ r.asked[b] = d.asked[b] \cup {kind}
      /\ \A c \in Blocks \ bs : /\ r.mapBlocksInFlight[c] = d.mapBlocksInFlight[c]
                                /\ r.asked[c] = d.asked[c]
      /\ r.vBlocksInFlight[p] = d.vBlocksInFlight[p] \cup bs
      /\ r.nBlocksInFlight[p] = d.nBlocksInFlight[p] + Cardinality(bs)
      /\ \A q \in Peers \ {p} : /\ r.vBlocksInFlight[q] = d.vBlocksInFlight[q]
                                /\ r.nBlocksInFlight[q] = d.nBlocksInFlight[q]
      /\ r.partialBlock = d.partialBlock
  <2>1. {kind} \in SUBSET Kinds /\ r = Added(d, p, bs, {kind}) /\ FlightOK(d)
    BY Zenon DEF Request, DownloadOK
  <2> QED BY <2>1, AddedOK
<1>2. \A q \in Peers : r.nBlocksInFlight[q] <= MAX_BLOCKS_IN_TRANSIT_PER_PEER
  <2>1. d.nBlocksInFlight[p] \in Int /\ d.nBlocksInFlight[p] <= MAX_BLOCKS_IN_TRANSIT_PER_PEER
    BY Zenon DEF DownloadOK, FlightOK, Limited, Downloads
  <2>2. bs = {} => Cardinality(bs) = 0
    BY FS_EmptySet, Zenon
  <2>3. r.nBlocksInFlight[p] <= MAX_BLOCKS_IN_TRANSIT_PER_PEER
    BY <1>1, <2>1, <2>2
  <2> QED BY <1>1, <2>3, Zenon DEF DownloadOK, Limited
<1>3. \A b \in Blocks : r.mapBlocksInFlight[b] # NoPeer => r.asked[b] # {}
  BY <1>1 DEF DownloadOK, AskedOK
<1>4. ASSUME NEW q \in Peers, NEW b \in r.partialBlock[q] \cap Blocks
      PROVE  r.asked[b] \cap {"block", "txn"} # {}
  <2>1. d.asked[b] \cap {"block", "txn"} # {}
    BY <1>1, Zenon DEF DownloadOK, AskedOK
  <2>2. b \in bs \/ b \in Blocks \ bs
    BY Zenon
  <2> QED BY <1>1, <2>1, <2>2, Zenon
<1> QED BY <1>1, <1>2, <1>3, <1>4, Zenon DEF DownloadOK, AskedOK, Limited, Grows

LEMMA ReceivedStep ==
    ASSUME NEW d, FlightOK(d), NEW b \in Blocks, AskedOK(d, Blocks \ {b}), Limited(d),
           NEW p \in Peers, NEW r, r = MarkBlockAsReceived(d, b)
    PROVE  DownloadOK(r) /\ \A q \in Peers : r.vBlocksInFlight[q] = d.vBlocksInFlight[q] \ {b}
<1>1. /\ FlightOK(r) /\ r.mapBlocksInFlight[b] = NoPeer
      /\ \A c \in Blocks \ {b} : /\ r.mapBlocksInFlight[c] = d.mapBlocksInFlight[c]
                                 /\ r.asked[c] = d.asked[c]
      /\ \A q \in Peers : /\ r.vBlocksInFlight[q] = d.vBlocksInFlight[q] \ {b}
                          /\ r.partialBlock[q] = d.partialBlock[q] \ {b}
                          /\ r.nBlocksInFlight[q] <= d.nBlocksInFlight[q]
  BY ReceivedOK
<1>2. Limited(r)
  <2>1. \A q \in Peers : r.nBlocksInFlight[q] \in Int /\ d.nBlocksInFlight[q] \in Int
    BY <1>1 DEF FlightOK, Downloads
  <2> QED BY <1>1, <2>1, DownloadAssumption, SMTT(30) DEF Limited
<1>3. \A c \in Blocks : r.mapBlocksInFlight[c] # NoPeer => r.asked[c] # {}
  BY <1>1, Zenon DEF AskedOK
<1>4. \A q \in Peers : \A c \in r.partialBlock[q] \cap Blocks : r.asked[c] \cap {"block", "txn"} # {}
  BY <1>1, SMTT(30) DEF AskedOK
<1> QED BY <1>1, <1>2, <1>3, <1>4, Zenon DEF DownloadOK, AskedOK

(* A request for a block in flight from p settles what it is waiting for.  *)
LEMMA AskStep ==
    ASSUME NEW d, FlightOK(d), NEW b \in Blocks, AskedOK(d, Blocks \ {b}), Limited(d),
           NEW p \in Peers, d.mapBlocksInFlight[b] \notin {p, NoPeer} => AskedOK(d, Blocks),
           NEW kind \in {"block", "txn"}, NEW r, r = Ask(d, p, kind, b)
    PROVE  DownloadOK(r) /\ r.vBlocksInFlight = d.vBlocksInFlight
<1>1. /\ r \in Downloads /\ SameFlight(d, r)
      /\ r.asked = IF d.mapBlocksInFlight[b] = p THEN [d.asked EXCEPT ![b] = @ \cup {kind}] ELSE d.asked
  <2>1. d \in Downloads /\ kind \in Kinds
    BY Zenon DEF FlightOK, Kinds
  <2> QED BY <2>1, AskFields, Zenon
<1>2. FlightOK(r) /\ Limited(r)
  BY <1>1, SameFlightOK, Zenon DEF Limited, SameFlight
<1>3. \A c \in Blocks : d.mapBlocksInFlight[c] = NoPeer => \A q \in Peers : c \notin d.partialBlock[q]
  BY DownloadAssumption, SMTT(30) DEF FlightOK
<1>4. \A c \in Blocks \ {b} : r.asked[c] = d.asked[c]
  BY <1>1, SMTT(30) DEF FlightOK, Downloads
<1>5. CASE d.mapBlocksInFlight[b] = p
  <2>1. kind \in r.asked[b]
    BY <1>1, <1>5, SMTT(30) DEF FlightOK, Downloads
  <2> QED BY <1>1, <1>2, <1>4, <2>1, SMTT(30) DEF AskedOK, DownloadOK, SameFlight
<1>6. CASE d.mapBlocksInFlight[b] # p
  <2>1. r.asked = d.asked
    BY <1>1, <1>6, Zenon
  <2>2. AskedOK(d, Blocks)
    BY <1>3, <1>6, Zenon DEF AskedOK
  <2> QED BY <1>1, <1>2, <2>1, <2>2, Zenon DEF AskedOK, DownloadOK, SameFlight
<1> QED BY <1>5, <1>6, Zenon

LEMMA AnsweredStep ==
    ASSUME NEW d, DownloadOK(d), NEW b \in Blocks, NEW p \in Peers,
           NEW kind \in Kinds, NEW r, r = Answered(d, p, kind, b)
    PROVE  /\ FlightOK(r) /\ AskedOK(r, Blocks \ {b}) /\ Limited(r) /\ SameFlight(d, r)
           /\ d.mapBlocksInFlight[b] # p => AskedOK(r, Blocks)
           /\ b \in d.partialBlock[p] /\ kind = "cmpct" => AskedOK(r, Blocks)
<1>1. /\ r \in Downloads /\ SameFlight(d, r)
      /\ r.asked = IF d.mapBlocksInFlight[b] = p THEN [d.asked EXCEPT ![b] = @ \ {kind}] ELSE d.asked
  BY AnsweredFields, SMTT(30) DEF DownloadOK, FlightOK
<1>2. FlightOK(r) /\ Limited(r)
  BY <1>1, SameFlightOK, Zenon DEF Limited, SameFlight, DownloadOK
<1>3. \A c \in Blocks \ {b} : r.asked[c] = d.asked[c]
  BY <1>1, SMTT(30) DEF DownloadOK, FlightOK, Downloads
<1>4. AskedOK(r, Blocks \ {b})
  BY <1>1, <1>3, Zenon DEF AskedOK, SameFlight, DownloadOK
<1>5. d.mapBlocksInFlight[b] # p => AskedOK(r, Blocks)
  BY <1>1, Zenon DEF AskedOK, SameFlight, DownloadOK
<1>6. ASSUME b \in d.partialBlock[p], kind = "cmpct", d.mapBlocksInFlight[b] = p
      PROVE  AskedOK(r, Blocks)
  <2>1. r.asked[b] \cap {"block", "txn"} # {}
    BY <1>1, <1>6, SMTT(30) DEF DownloadOK, AskedOK, FlightOK, Downloads
  <2> QED BY <1>1, <1>3, <1>4, <2>1, Zenon DEF AskedOK, SameFlight
<1> QED BY <1>1, <1>2, <1>4, <1>5, <1>6, Zenon

LEMMA PartialFields ==
    ASSUME NEW m \in Downloads, NEW b \in Blocks, NEW p \in Peers,
           NEW s, s = WithPartial(m, p, b)
    PROVE  /\ s \in Downloads
           /\ s.partialBlock = [m.partialBlock EXCEPT ![p] = @ \cup {b}]
           /\ s.mapBlocksInFlight = m.mapBlocksInFlight /\ s.vBlocksInFlight = m.vBlocksInFlight
           /\ s.nBlocksInFlight = m.nBlocksInFlight /\ s.asked = m.asked
           /\ s.nBlocksInFlightValidHeaders = m.nBlocksInFlightValidHeaders
           /\ s.nPeersWithValidatedDownloads = m.nPeersWithValidatedDownloads
           /\ s.nStallingSince = m.nStallingSince
BY Zenon DEF WithPartial, Downloads

LEMMA PartialKept ==
    ASSUME NEW m, FlightOK(m), NEW b \in Blocks, AskedOK(m, Blocks \ {b}), Limited(m),
           NEW p \in Peers, m.mapBlocksInFlight[b] = p, NEW s \in Downloads,
           s.partialBlock = [m.partialBlock EXCEPT ![p] = @ \cup {b}],
           s.mapBlocksInFlight = m.mapBlocksInFlight, s.vBlocksInFlight = m.vBlocksInFlight,
           s.nBlocksInFlight = m.nBlocksInFlight, s.asked = m.asked,
           s.nBlocksInFlightValidHeaders = m.nBlocksInFlightValidHeaders,
           s.nPeersWithValidatedDownloads = m.nPeersWithValidatedDownloads,
           s.nStallingSince = m.nStallingSince
    PROVE  FlightOK(s) /\ AskedOK(s, Blocks \ {b}) /\ Limited(s)
<1>3. \A q \in Peers : s.partialBlock[q] = IF q = p THEN m.partialBlock[q] \cup {b} ELSE m.partialBlock[q]
  <2>1. m.partialBlock \in [Peers -> SUBSET Blocks]
    BY Zenon DEF FlightOK, Downloads
  <2> QED BY <2>1, Zenon
<1>4. FlightOK(s)
  BY <1>3, SMTT(30) DEF FlightOK, Busy
<1>5. AskedOK(s, Blocks \ {b})
  BY <1>3, SMTT(30) DEF AskedOK
<1> QED BY <1>4, <1>5, Zenon DEF Limited

(* A compact block is begun, or continued, as a download from p.           *)
LEMMA MarkedStep ==
    ASSUME NEW d, FlightOK(d), NEW b \in Blocks, AskedOK(d, Blocks \ {b}), Limited(d),
           NEW p \in Peers,
           \/ d.mapBlocksInFlight[b] = p
           \/ d.mapBlocksInFlight[b] = NoPeer /\ d.nBlocksInFlight[p] < MAX_BLOCKS_IN_TRANSIT_PER_PEER,
           NEW m, m = MarkBlockAsInFlight(d, p, b)
    PROVE  /\ FlightOK(m) /\ AskedOK(m, Blocks \ {b}) /\ Limited(m) /\ m.mapBlocksInFlight[b] = p
           /\ Grows(d, m, p, {b})
<1>0. p # NoPeer /\ d \in Downloads
  BY DownloadAssumption, Zenon DEF FlightOK
<1>1. CASE d.mapBlocksInFlight[b] = p
  BY <1>1, Zenon DEF MarkBlockAsInFlight, Grows
<1>2. CASE d.mapBlocksInFlight[b] = NoPeer /\ d.nBlocksInFlight[p] < MAX_BLOCKS_IN_TRANSIT_PER_PEER
  <2>1. m = Added(d, p, {b}, {})
    BY <1>0, <1>2, Zenon DEF MarkBlockAsInFlight, MarkBlockAsReceived
  <2>2. IsFiniteSet({b}) /\ Cardinality({b}) = 1 /\ {} \in SUBSET Kinds /\ {b} \in SUBSET Blocks
        /\ \A c \in {b} : d.mapBlocksInFlight[c] = NoPeer
    BY <1>2, FS_Singleton, Zenon
  <2>3. /\ FlightOK(m)
        /\ \A c \in {b} : m.mapBlocksInFlight[c] = p /\ m.asked[c] = d.asked[c] \cup {}
        /\ \A c \in Blocks \ {b} : /\ m.mapBlocksInFlight[c] = d.mapBlocksInFlight[c]
                                   /\ m.asked[c] = d.asked[c]
        /\ m.vBlocksInFlight[p] = d.vBlocksInFlight[p] \cup {b}
        /\ m.nBlocksInFlight[p] = d.nBlocksInFlight[p] + Cardinality({b})
        /\ \A q \in Peers \ {p} : /\ m.vBlocksInFlight[q] = d.vBlocksInFlight[q]
                                  /\ m.nBlocksInFlight[q] = d.nBlocksInFlight[q]
        /\ m.partialBlock = d.partialBlock /\ m.nStallingSince = d.nStallingSince
    <3>1. PICK bs \in SUBSET Blocks, ks \in SUBSET Kinds : bs = {b} /\ ks = {}
      BY Zenon
    <3>2. /\ FlightOK(m)
          /\ \A c \in bs : m.mapBlocksInFlight[c] = p /\ m.asked[c] = d.asked[c] \cup ks
          /\ \A c \in Blocks \ bs : /\ m.mapBlocksInFlight[c] = d.mapBlocksInFlight[c]
                                     /\ m.asked[c] = d.asked[c]
          /\ m.vBlocksInFlight[p] = d.vBlocksInFlight[p] \cup bs
          /\ m.nBlocksInFlight[p] = d.nBlocksInFlight[p] + Cardinality(bs)
          /\ \A q \in Peers \ {p} : /\ m.vBlocksInFlight[q] = d.vBlocksInFlight[q]
                                    /\ m.nBlocksInFlight[q] = d.nBlocksInFlight[q]
          /\ m.partialBlock = d.partialBlock /\ m.nStallingSince = d.nStallingSince
      <4>1. m = Added(d, p, bs, ks) /\ IsFiniteSet(bs) /\ \A c \in bs : d.mapBlocksInFlight[c] = NoPeer
        BY <2>1, <2>2, <3>1, Zenon
      <4> QED BY <4>1, AddedOK, SMTT(60)
    <3> QED BY <3>1, <3>2, Zenon
  <2>4. m.nBlocksInFlight[p] <= MAX_BLOCKS_IN_TRANSIT_PER_PEER
    <3>1. d.nBlocksInFlight[p] \in Int
      BY <1>0, Zenon DEF Downloads
    <3> QED BY <1>2, <2>2, <2>3, <3>1, DownloadAssumption, SMTT(30)
  <2>5. Limited(m)
    BY <2>3, <2>4, Zenon DEF Limited
  <2>6. AskedOK(m, Blocks \ {b})
    BY <2>3, SMTT(30) DEF AskedOK
  <2> QED BY <2>3, <2>5, <2>6, Zenon DEF Grows
<1> QED BY <1>1, <1>2, Zenon

LEMMA StartedStep ==
    ASSUME NEW m, FlightOK(m), NEW b \in Blocks, AskedOK(m, Blocks \ {b}), Limited(m),
           NEW p \in Peers, m.mapBlocksInFlight[b] = p,
           NEW s, s = WithPartial(m, p, b)
    PROVE  /\ FlightOK(s) /\ AskedOK(s, Blocks \ {b}) /\ Limited(s) /\ s.mapBlocksInFlight[b] = p
           /\ s.vBlocksInFlight = m.vBlocksInFlight
<1>1. m \in Downloads
  BY Zenon DEF FlightOK
<1>2. /\ s \in Downloads
      /\ s.partialBlock = [m.partialBlock EXCEPT ![p] = @ \cup {b}]
      /\ s.mapBlocksInFlight = m.mapBlocksInFlight /\ s.vBlocksInFlight = m.vBlocksInFlight
      /\ s.nBlocksInFlight = m.nBlocksInFlight /\ s.asked = m.asked
      /\ s.nBlocksInFlightValidHeaders = m.nBlocksInFlightValidHeaders
      /\ s.nPeersWithValidatedDownloads = m.nPeersWithValidatedDownloads
      /\ s.nStallingSince = m.nStallingSince
  BY <1>1, PartialFields, SMTT(30)
<1>3. FlightOK(s) /\ AskedOK(s, Blocks \ {b}) /\ Limited(s)
  BY <1>2, PartialKept, SMTT(30)
<1> QED BY <1>2, <1>3, Zenon

-----------------------------------------------------------------------------
(* The inductive invariant.  The index is closed under parents, and no     *)
(* block that is stored is in flight.                                      *)

IndexOK ==
    /\ mapBlockIndex \subseteq Blocks /\ hasData \subseteq mapBlockIndex /\ tip \in hasData
    /\ \A b \in mapBlockIndex : Ancestors[b] \subseteq mapBlockIndex

NodesOK ==
    /\ fDisconnect \subseteq mapNodeState /\ mapNodeState \subseteq Peers
    /\ connections \in [Peers -> 0 .. MaxConnections]

AvailOK ==
    /\ pindexBestKnownBlock \in [Peers -> mapBlockIndex \cup {NullHash}]
    /\ hashLastUnknownBlock \in [Peers -> Blocks \cup {NullHash}]
    /\ pindexLastCommonBlock \in [Peers -> mapBlockIndex \cup {NullHash}]

ListsOK ==
    \A p \in Peers : /\ p \notin mapNodeState => dl.vBlocksInFlight[p] = {}
                     /\ dl.vBlocksInFlight[p] \cap hasData = {}

DownloadInv == IndexOK /\ NodesOK /\ AvailOK /\ DownloadOK(dl) /\ ListsOK

LEMMA DownloadInvInit == Init => DownloadInv
<1> SUFFICES ASSUME Init PROVE DownloadInv
  BY Zenon
<1>1. IndexOK /\ NodesOK /\ AvailOK
  BY TreeAssumption, AncestorsAssumption, DownloadAssumption, SMTT(30) DEF Init, IndexOK, NodesOK, AvailOK
<1>2. /\ dl \in Downloads
      /\ \A b \in Blocks : dl.mapBlocksInFlight[b] = NoPeer
      /\ \A p \in Peers : /\ dl.vBlocksInFlight[p] = {} /\ dl.partialBlock[p] = {}
                          /\ dl.nBlocksInFlight[p] = 0 /\ dl.nBlocksInFlightValidHeaders[p] = 0
                          /\ dl.nStallingSince[p] = FALSE
      /\ dl.nPeersWithValidatedDownloads = 0
  BY SMTT(30) DEF Init, Downloads
<1>3. Busy(dl) = {}
  BY <1>2, Zenon DEF Busy
<1>4. FlightOK(dl)
  BY <1>2, <1>3, FS_EmptySet, DownloadAssumption, Zenon DEF FlightOK
<1> QED BY <1>1, <1>2, <1>4, DownloadAssumption, SMTT(30) DEF DownloadInv, DownloadOK, AskedOK, Limited, ListsOK

LEMMA InvGivesProperties == DownloadInv => InFlightAgree /\ InFlightIsAsked /\ StallerIsBehind
<1> SUFFICES ASSUME DownloadInv PROVE InFlightAgree /\ InFlightIsAsked /\ StallerIsBehind
  BY Zenon
<1>1. InFlightAgree
  BY Zenon DEF DownloadInv, IndexOK, NodesOK, AvailOK, DownloadOK, FlightOK, Limited, ListsOK, Busy,
         InFlightAgree, TypeOK
<1>2. InFlightIsAsked
  BY DownloadAssumption, Zenon DEF DownloadInv, NodesOK, DownloadOK, AskedOK, InFlightIsAsked
<1>3. StallerIsBehind
  BY Zenon DEF DownloadInv, DownloadOK, FlightOK, StallerIsBehind
<1> QED BY <1>1, <1>2, <1>3, Zenon

-----------------------------------------------------------------------------
(* The steps of the handlers, apart from the downloads.                    *)

LEMMA KnownUp ==
    ASSUME IndexOK, NEW b \in Blocks \ {Genesis}, Parent[b] \in mapBlockIndex
    PROVE  /\ \A c \in mapBlockIndex \cup {b} : Ancestors[c] \subseteq mapBlockIndex \cup {b}
           /\ mapBlockIndex \cup Ancestors[b] = mapBlockIndex \cup {b}
<1>1. Ancestors[b] = {b} \cup Ancestors[Parent[b]]
  BY AncestorsAssumption, Zenon
<1> QED BY <1>1, Zenon DEF IndexOK

LEMMA NewBlockStep ==
    ASSUME IndexOK, NEW b \in Blocks \ {Genesis}, NEW forced \in BOOLEAN, ProcessNewBlock(b, forced)
    PROVE  IndexOK' /\ hasData' \subseteq hasData \cup {b} /\ mapBlockIndex \subseteq mapBlockIndex'
<1>1. CASE Parent[b] \in mapBlockIndex /\ (forced \/ Height[b] >= Height[tip])
  <2>1. hasData' = hasData \cup {b} /\ mapBlockIndex' = mapBlockIndex \cup {b}
    BY <1>1, Zenon DEF ProcessNewBlock
  <2>2. tip' \in hasData'
    BY <1>1, <2>1, Zenon DEF ProcessNewBlock, IndexOK
  <2>3. \A c \in mapBlockIndex' : Ancestors[c] \subseteq mapBlockIndex'
    BY <1>1, <2>1, KnownUp, Zenon
  <2> QED BY <2>1, <2>2, <2>3, Zenon DEF IndexOK
<1>2. CASE ~(Parent[b] \in mapBlockIndex /\ (forced \/ Height[b] >= Height[tip]))
  BY <1>2, SMTT(30) DEF ProcessNewBlock, IndexOK, index
<1> QED BY <1>1, <1>2, Zenon

LEMMA HeadersIndex ==
    ASSUME IndexOK, NEW b \in Blocks, mapBlockIndex' = mapBlockIndex \cup Ancestors[b],
           hasData' = hasData, tip' = tip
    PROVE  IndexOK' /\ mapBlockIndex \subseteq mapBlockIndex' /\ b \in mapBlockIndex'
<1>1. b \in Ancestors[b] /\ \A a \in Ancestors[b] : a \in Blocks /\ Ancestors[a] \subseteq Ancestors[b]
  BY TreeFacts, Zenon DEF Line
<1> QED BY <1>1, Zenon DEF IndexOK

LEMMA BestKnownType ==
    ASSUME AvailOK, NEW known, mapBlockIndex \subseteq known, NEW p \in Peers
    PROVE  /\ BestKnown(p, known) \in known \cup {NullHash}
           /\ StillUnknown(p, known) \in Blocks \cup {NullHash}
BY Zenon DEF AvailOK, BestKnown, Better, StillUnknown

LEMMA AvailStep ==
    ASSUME AvailOK, NEW p \in Peers, NEW b \in Blocks, mapBlockIndex \subseteq mapBlockIndex',
           UpdateBlockAvailability(p, b, mapBlockIndex'), pindexLastCommonBlock' = pindexLastCommonBlock
    PROVE  AvailOK'
<1>1. /\ BestKnown(p, mapBlockIndex') \in mapBlockIndex' \cup {NullHash}
      /\ StillUnknown(p, mapBlockIndex') \in Blocks \cup {NullHash}
  BY BestKnownType, Zenon
<1>2. pindexBestKnownBlock' \in [Peers -> mapBlockIndex' \cup {NullHash}]
  BY <1>1, Zenon DEF AvailOK, UpdateBlockAvailability, Better
<1>3. hashLastUnknownBlock' \in [Peers -> Blocks \cup {NullHash}]
  BY <1>1, Zenon DEF AvailOK, UpdateBlockAvailability
<1>4. pindexLastCommonBlock' \in [Peers -> mapBlockIndex' \cup {NullHash}]
  BY Zenon DEF AvailOK
<1> QED BY <1>2, <1>3, <1>4, Zenon DEF AvailOK

LEMMA AvailKept ==
    ASSUME AvailOK, mapBlockIndex \subseteq mapBlockIndex', UNCHANGED avail
    PROVE  AvailOK'
BY Zenon DEF AvailOK, avail

LEMMA NodesKept ==
    ASSUME NodesOK, NEW p, p \in mapNodeState, UNCHANGED <<mapNodeState, connections>>,
           fDisconnect' \in {fDisconnect, fDisconnect \cup {p}}
    PROVE  NodesOK'
BY Zenon DEF NodesOK

LEMMA ListsKept ==
    ASSUME ListsOK, NodesOK, NEW p \in mapNodeState, NEW bs, NEW e, Grows(dl, e, p, bs), dl' = e,
           mapNodeState' = mapNodeState, bs \cap hasData' = {},
           \A q \in Peers : e.vBlocksInFlight[q] \cap (hasData' \ hasData) = {}
    PROVE  ListsOK'
BY Zenon DEF ListsOK, Grows, NodesOK

(* The outcomes of a compact block, d being the downloads before.          *)
LEMMA ReconstructStep ==
    ASSUME IndexOK, NEW d, FlightOK(d), NEW b \in Blocks \ {Genesis}, AskedOK(d, Blocks \ {b}),
           Limited(d), NEW p \in Peers, d.mapBlocksInFlight[b] = p, NEW outcome,
           Reconstruct(p, b, outcome, d)
    PROVE  /\ DownloadOK(dl') /\ \A q \in Peers : dl'.vBlocksInFlight[q] \subseteq d.vBlocksInFlight[q]
           /\ fDisconnect' \in {fDisconnect, fDisconnect \cup {p}}
           /\ \/ hasData' = hasData /\ tip' = tip
              \/ /\ ProcessNewBlock(b, TRUE)
                 /\ \A q \in Peers : b \notin dl'.vBlocksInFlight[q]
<1>0. p # NoPeer
  BY DownloadAssumption, Zenon
<1>1. CASE dl' = MarkBlockAsReceived(d, b)
  <2>1. DownloadOK(dl') /\ \A q \in Peers : dl'.vBlocksInFlight[q] = d.vBlocksInFlight[q] \ {b}
    BY <1>1, ReceivedStep, SMTT(30)
  <2> QED BY <2>1, Zenon DEF Reconstruct, Misbehaving
<1>2. ASSUME NEW kind \in {"block", "txn"}, dl' = Ask(d, p, kind, b),
             UNCHANGED <<hasData, tip, fDisconnect>>
      PROVE  /\ DownloadOK(dl') /\ \A q \in Peers : dl'.vBlocksInFlight[q] \subseteq d.vBlocksInFlight[q]
             /\ fDisconnect' \in {fDisconnect, fDisconnect \cup {p}}
             /\ hasData' = hasData /\ tip' = tip
  <2>1. DownloadOK(dl') /\ dl'.vBlocksInFlight = d.vBlocksInFlight
    BY <1>2, AskStep, SMTT(30)
  <2> QED BY <1>2, <2>1, Zenon
<1> QED BY <1>1, <1>2, Zenon DEF Reconstruct

-----------------------------------------------------------------------------
(* Every step keeps the invariant.                                         *)

LEMMA ComeAndGo ==
    ASSUME DownloadInv, NEW p \in Peers, InitializeNode(p) \/ Leave(p) \/ Timeout(p)
    PROVE  DownloadInv'
<1>1. UNCHANGED <<index, avail, dl>>
  BY Zenon DEF InitializeNode, Leave, Timeout
<1>2. IndexOK' /\ AvailOK' /\ DownloadOK(dl')
  BY <1>1, Zenon DEF DownloadInv, IndexOK, AvailOK, index, avail
<1>3. ListsOK'
  BY <1>1, Zenon DEF DownloadInv, ListsOK, InitializeNode, Leave, Timeout, index
<1>4. NodesOK'
  <2>1. CASE InitializeNode(p)
    <3>1. connections[p] + 1 \in 0 .. MaxConnections
      BY <2>1, DownloadAssumption, SMTT(30) DEF InitializeNode, DownloadInv, NodesOK
    <3> QED BY <2>1, <3>1, Zenon DEF InitializeNode, DownloadInv, NodesOK
  <2>2. CASE Leave(p) \/ Timeout(p)
    BY <2>2, Zenon DEF Leave, Timeout, Serving, DownloadInv, NodesOK
  <2> QED BY <2>1, <2>2, Zenon
<1> QED BY <1>2, <1>3, <1>4, Zenon DEF DownloadInv

LEMMA FinalizeFlight ==
    ASSUME NEW d, DownloadOK(d), NEW p \in Peers, NEW r,
           r = Destroyed(d, p)
    PROVE  /\ DownloadOK(r) /\ r.vBlocksInFlight[p] = {}
           /\ \A q \in Peers \ {p} : r.vBlocksInFlight[q] = d.vBlocksInFlight[q]
<1>0. FlightOK(d) /\ d \in Downloads
  BY Zenon DEF DownloadOK, FlightOK
<1>1. /\ r.mapBlocksInFlight =
             [b \in Blocks |-> IF b \in d.vBlocksInFlight[p] THEN NoPeer ELSE d.mapBlocksInFlight[b]]
      /\ r.vBlocksInFlight = [d.vBlocksInFlight EXCEPT ![p] = {}]
      /\ r.partialBlock = [d.partialBlock EXCEPT ![p] = {}]
      /\ r.nBlocksInFlight = [d.nBlocksInFlight EXCEPT ![p] = 0]
      /\ r.nBlocksInFlightValidHeaders = [d.nBlocksInFlightValidHeaders EXCEPT ![p] = 0]
      /\ r.nPeersWithValidatedDownloads = d.nPeersWithValidatedDownloads
             - IF d.nBlocksInFlightValidHeaders[p] # 0 THEN 1 ELSE 0
      /\ r.nStallingSince = [d.nStallingSince EXCEPT ![p] = FALSE]
      /\ r.asked = [b \in Blocks |-> IF b \in d.vBlocksInFlight[p] THEN {} ELSE d.asked[b]]
  BY Zenon DEF Destroyed, Freed
<1>2. r \in Downloads
  BY <1>0, SMTT(30) DEF Downloads, Destroyed, Freed
<1>3. /\ \A b \in d.vBlocksInFlight[p] : r.mapBlocksInFlight[b] = NoPeer
      /\ \A b \in Blocks \ d.vBlocksInFlight[p] : /\ r.mapBlocksInFlight[b] = d.mapBlocksInFlight[b]
                                                  /\ r.asked[b] = d.asked[b]
  BY <1>0, <1>1, Zenon DEF Downloads
<1>4. /\ r.vBlocksInFlight[p] = {} /\ r.partialBlock[p] = {} /\ r.nBlocksInFlight[p] = 0
      /\ r.nBlocksInFlightValidHeaders[p] = 0 /\ r.nStallingSince[p] = FALSE
  BY <1>0, <1>1, Zenon DEF Downloads
<1>5. \A q \in Peers \ {p} :
         /\ r.vBlocksInFlight[q] = d.vBlocksInFlight[q] /\ r.partialBlock[q] = d.partialBlock[q]
         /\ r.nBlocksInFlight[q] = d.nBlocksInFlight[q] /\ r.nStallingSince[q] = d.nStallingSince[q]
         /\ r.nBlocksInFlightValidHeaders[q] = d.nBlocksInFlightValidHeaders[q]
  BY <1>0, <1>1, Zenon DEF Downloads
<1>6. \A b \in Blocks, q \in Peers : r.mapBlocksInFlight[b] = q <=> b \in r.vBlocksInFlight[q]
  BY <1>0, <1>3, <1>4, <1>5, DownloadAssumption, SMTT(30) DEF FlightOK
<1>7. ASSUME NEW q \in Peers
      PROVE  /\ r.partialBlock[q] \subseteq r.vBlocksInFlight[q] /\ IsFiniteSet(r.vBlocksInFlight[q])
             /\ r.nBlocksInFlight[q] = Cardinality(r.vBlocksInFlight[q])
             /\ r.nBlocksInFlightValidHeaders[q] = r.nBlocksInFlight[q]
             /\ r.nStallingSince[q] => r.vBlocksInFlight[q] # {}
  <2>1. CASE q = p
    BY <1>4, <2>1, FS_EmptySet, Zenon
  <2>2. CASE q # p
    <3>1. /\ d.partialBlock[q] \subseteq d.vBlocksInFlight[q] /\ IsFiniteSet(d.vBlocksInFlight[q])
          /\ d.nBlocksInFlight[q] = Cardinality(d.vBlocksInFlight[q])
          /\ d.nBlocksInFlightValidHeaders[q] = d.nBlocksInFlight[q]
          /\ d.nStallingSince[q] => d.vBlocksInFlight[q] # {}
      BY <1>0, Zenon DEF FlightOK
    <3> QED BY <1>5, <2>2, <3>1, Zenon
  <2> QED BY <2>1, <2>2, Zenon
<1>8. IsFiniteSet(Busy(r)) /\ r.nPeersWithValidatedDownloads = Cardinality(Busy(r))
  <2>1. Busy(r) = Busy(d) \ {p}
    BY <1>4, <1>5, Zenon DEF Busy
  <2>2. /\ IsFiniteSet(Busy(d)) /\ d.nPeersWithValidatedDownloads = Cardinality(Busy(d))
        /\ d.nBlocksInFlightValidHeaders[p] = 0 <=> p \notin Busy(d)
    BY <1>0, FS_EmptySet, SMTT(30) DEF Busy, FlightOK
  <2>3. Cardinality(Busy(d)) \in Nat
    BY <2>2, FS_CardinalityType, Zenon
  <2>4. CASE p \in Busy(d)
    <3>1. IsFiniteSet(Busy(d) \ {p}) /\ Cardinality(Busy(d) \ {p}) = Cardinality(Busy(d)) - 1
      BY <2>2, <2>4, FS_RemoveElement, Zenon
    <3> QED BY <1>1, <2>1, <2>2, <2>4, <3>1, Zenon
  <2>5. CASE p \notin Busy(d)
    <3>1. Busy(r) = Busy(d)
      BY <2>1, <2>5, Zenon
    <3> QED BY <1>1, <2>2, <2>3, <2>5, <3>1, SMTT(30)
  <2> QED BY <2>4, <2>5, Zenon
<1>9. FlightOK(r)
  BY <1>2, <1>6, <1>7, <1>8, Zenon DEF FlightOK
<1>10. Limited(r)
  BY <1>4, <1>5, DownloadAssumption, SMTT(30) DEF DownloadOK, Limited
<1>11. AskedOK(r, Blocks)
  <2>1. \A b \in Blocks : r.mapBlocksInFlight[b] # NoPeer => r.asked[b] # {}
    BY <1>3, Zenon DEF DownloadOK, AskedOK
  <2>2. ASSUME NEW q \in Peers, NEW b \in r.partialBlock[q] \cap Blocks
        PROVE  r.asked[b] \cap {"block", "txn"} # {}
    <3>1. q # p /\ b \in d.partialBlock[q] /\ b \in d.vBlocksInFlight[q]
      BY <1>0, <1>4, <1>5, Zenon DEF FlightOK
    <3>2. b \notin d.vBlocksInFlight[p]
      BY <1>0, <3>1, SMTT(30) DEF FlightOK
    <3> QED BY <1>3, <3>1, <3>2, Zenon DEF DownloadOK, AskedOK
  <2> QED BY <2>1, <2>2, Zenon DEF AskedOK
<1> QED BY <1>4, <1>5, <1>9, <1>10, <1>11, Zenon DEF DownloadOK

LEMMA FinalizeStep ==
    ASSUME DownloadInv, NEW p \in Peers, FinalizeNode(p)
    PROVE  DownloadInv'
<1>1. /\ DownloadOK(dl') /\ dl'.vBlocksInFlight[p] = {}
      /\ \A q \in Peers \ {p} : dl'.vBlocksInFlight[q] = dl.vBlocksInFlight[q]
  BY FinalizeFlight, SMTT(30) DEF FinalizeNode, DownloadInv
<1>2. UNCHANGED <<index, connections>> /\ mapNodeState' = mapNodeState \ {p}
      /\ fDisconnect' = fDisconnect \ {p}
  BY Zenon DEF FinalizeNode
<1>3. IndexOK' /\ NodesOK'
  BY <1>2, Zenon DEF DownloadInv, IndexOK, NodesOK, index
<1>4. AvailOK'
  BY <1>2, Zenon DEF FinalizeNode, DownloadInv, AvailOK, index
<1>5. ListsOK'
  BY <1>1, <1>2, Zenon DEF DownloadInv, ListsOK, index
<1> QED BY <1>1, <1>3, <1>4, <1>5, Zenon DEF DownloadInv

LEMMA InvStep ==
    ASSUME DownloadInv, NEW p \in Peers, NEW b \in Blocks, Inv(p, b)
    PROVE  DownloadInv'
<1>1. UNCHANGED <<index, nodes, pindexLastCommonBlock, dl>>
  BY Zenon DEF Inv
<1>2. IndexOK' /\ NodesOK' /\ ListsOK' /\ DownloadOK(dl')
  BY <1>1, Zenon DEF DownloadInv, IndexOK, NodesOK, ListsOK, index, nodes
<1>3. mapBlockIndex' = mapBlockIndex
  BY <1>1, Zenon DEF index
<1>4. AvailOK'
  BY <1>1, <1>3, AvailStep, Zenon DEF DownloadInv, Inv
<1> QED BY <1>2, <1>4, Zenon DEF DownloadInv

LEMMA BlockStep ==
    ASSUME DownloadInv, NEW p \in Peers, NEW b \in Blocks \ {Genesis}, NEW sound \in BOOLEAN,
           Block(p, b, sound)
    PROVE  DownloadInv'
<1>1. DownloadOK(dl') /\ \A q \in Peers : dl'.vBlocksInFlight[q] = dl.vBlocksInFlight[q] \ {b}
  <2>1. FlightOK(dl) /\ AskedOK(dl, Blocks \ {b}) /\ Limited(dl) /\ dl' = MarkBlockAsReceived(dl, b)
    BY Zenon DEF DownloadInv, DownloadOK, AskedOK, Block
  <2> QED BY <2>1, ReceivedStep, SMTT(30)
<1>2. IndexOK' /\ hasData' \subseteq hasData \cup {b} /\ mapBlockIndex \subseteq mapBlockIndex'
  <2>1. CASE sound
    <3>1. InFlight(b) \in BOOLEAN /\ ProcessNewBlock(b, InFlight(b))
      BY <2>1, Zenon DEF Block, InFlight
    <3> QED BY <3>1, NewBlockStep, Zenon DEF DownloadInv
  <2>2. CASE ~sound
    BY <2>2, SMTT(30) DEF Block, DownloadInv, IndexOK, index
  <2> QED BY <2>1, <2>2, Zenon
<1>3. /\ UNCHANGED <<mapNodeState, connections, avail>> /\ p \in mapNodeState
      /\ fDisconnect' \in {fDisconnect, fDisconnect \cup {p}}
  BY Zenon DEF Block, Serving, Misbehaving
<1>4. NodesOK' /\ AvailOK'
  BY <1>2, <1>3, NodesKept, AvailKept, Zenon DEF DownloadInv
<1>5. ListsOK'
  BY <1>1, <1>2, <1>3, Zenon DEF ListsOK, DownloadInv
<1> QED BY <1>1, <1>2, <1>4, <1>5, Zenon DEF DownloadInv

LEMMA BlockTxnStep ==
    ASSUME DownloadInv, NEW p \in Peers, NEW b \in Blocks \ {Genesis}, BlockTxn(p, b)
    PROVE  DownloadInv'
<1>1. PICK d : d = Answered(dl, p, "txn", b)
  BY Zenon
<1>2. PICK outcome : Reconstruct(p, b, outcome, d)
  BY <1>1, Zenon DEF BlockTxn
<1>3. FlightOK(d) /\ AskedOK(d, Blocks \ {b}) /\ Limited(d) /\ SameFlight(dl, d)
  BY <1>1, AnsweredStep, Zenon DEF DownloadInv, Kinds
<1>4. d.mapBlocksInFlight[b] = p /\ d.vBlocksInFlight = dl.vBlocksInFlight
  BY <1>3, Zenon DEF SameFlight, BlockTxn
<1>5. /\ DownloadOK(dl') /\ \A q \in Peers : dl'.vBlocksInFlight[q] \subseteq d.vBlocksInFlight[q]
      /\ fDisconnect' \in {fDisconnect, fDisconnect \cup {p}}
      /\ \/ hasData' = hasData /\ tip' = tip
         \/ ProcessNewBlock(b, TRUE) /\ \A q \in Peers : b \notin dl'.vBlocksInFlight[q]
  BY <1>2, <1>3, <1>4, ReconstructStep, Zenon DEF DownloadInv
<1>6. /\ UNCHANGED <<mapNodeState, connections, avail, mapBlockIndex>> /\ p \in mapNodeState
  BY Zenon DEF BlockTxn, Serving
<1>7. CASE hasData' = hasData /\ tip' = tip
  BY <1>4, <1>5, <1>6, <1>7, NodesKept, AvailKept, Zenon DEF DownloadInv, IndexOK, ListsOK
<1>8. CASE ProcessNewBlock(b, TRUE) /\ \A q \in Peers : b \notin dl'.vBlocksInFlight[q]
  <2>1. IndexOK' /\ hasData' \subseteq hasData \cup {b}
    BY <1>8, NewBlockStep, Zenon DEF DownloadInv
  <2>2. ListsOK'
    BY <1>4, <1>5, <1>6, <1>8, <2>1, SMTT(30) DEF DownloadInv, ListsOK
  <2> QED BY <1>5, <1>6, <2>1, <2>2, NodesKept, AvailKept, Zenon DEF DownloadInv
<1> QED BY <1>5, <1>7, <1>8, Zenon

(* The blocks that ProcessHeadersMessage and SendMessages request.         *)
LEMMA DirectFetchFacts ==
    ASSUME DownloadInv, NEW p \in Peers, NEW b \in Blocks
    PROVE  /\ DirectFetch(p, b) \subseteq Blocks \ hasData /\ IsFiniteSet(DirectFetch(p, b))
           /\ \A c \in DirectFetch(p, b) : dl.mapBlocksInFlight[c] = NoPeer
           /\ DirectFetch(p, b) = {} \/ dl.nBlocksInFlight[p] + Cardinality(DirectFetch(p, b))
                                            <= MAX_BLOCKS_IN_TRANSIT_PER_PEER
<1> DEFINE want == {c \in Ancestors[b] \ (Active \cup hasData) : ~InFlight(c)}
           walked == {c \in want : Cardinality({e \in want : Height[e] > Height[c]})
                                      <= MAX_BLOCKS_IN_TRANSIT_PER_PEER}
           room == MAX_BLOCKS_IN_TRANSIT_PER_PEER - dl.nBlocksInFlight[p]
<1>1. room \in Nat /\ Max({0, room}) = room /\ dl.nBlocksInFlight[p] \in Int
  <2>1. dl.nBlocksInFlight[p] \in Int /\ dl.nBlocksInFlight[p] <= MAX_BLOCKS_IN_TRANSIT_PER_PEER
    BY Zenon DEF DownloadInv, DownloadOK, FlightOK, Downloads, Limited
  <2>2. room \in Nat
    BY <2>1, DownloadAssumption, SMTT(30)
  <2> HIDE DEF room
  <2> QED BY <2>1, <2>2, SMTT(30) DEF Max
<1>2. walked \in SUBSET Ancestors[b] /\ walked \subseteq Blocks \ hasData
      /\ \A c \in walked : dl.mapBlocksInFlight[c] = NoPeer
  BY AncestorsAssumption, Zenon DEF InFlight
<1>3. DirectFetch(p, b) = {} \/ DirectFetch(p, b) = First(walked, room)
  BY <1>1, Zenon DEF DirectFetch
<1> HIDE DEF walked, room
<1>4. /\ First(walked, room) \subseteq walked /\ IsFiniteSet(First(walked, room))
      /\ Cardinality(First(walked, room)) \in Nat /\ Cardinality(First(walked, room)) <= room
  BY <1>1, <1>2, FirstFacts, Zenon
<1>5. dl.nBlocksInFlight[p] + Cardinality(First(walked, room)) <= MAX_BLOCKS_IN_TRANSIT_PER_PEER
  BY <1>1, <1>4, DownloadAssumption, SMTT(30) DEF room
<1> QED BY <1>2, <1>3, <1>4, <1>5, FS_EmptySet, Zenon

LEMMA HeadersMessageStep ==
    ASSUME DownloadInv, NEW p \in mapNodeState, NEW b \in Blocks, NEW direct \in BOOLEAN,
           ProcessHeadersMessage(p, b, direct),
           UNCHANGED <<mapNodeState, connections, pindexLastCommonBlock>>
    PROVE  DownloadInv'
<1>0. p \in Peers
  BY Zenon DEF DownloadInv, NodesOK
<1>1. PICK fetch : fetch = IF direct THEN DirectFetch(p, b) ELSE {}
  BY Zenon
<1>2. PICK kind \in {"block", "cmpct"} : dl' = Request(dl, p, kind, fetch)
  BY <1>1, Zenon DEF ProcessHeadersMessage
<1>3. /\ fetch \subseteq Blocks \ hasData /\ IsFiniteSet(fetch)
      /\ \A c \in fetch : dl.mapBlocksInFlight[c] = NoPeer
      /\ fetch = {} \/ dl.nBlocksInFlight[p] + Cardinality(fetch) <= MAX_BLOCKS_IN_TRANSIT_PER_PEER
  BY <1>0, <1>1, DirectFetchFacts, FS_EmptySet, Zenon
<1>4. DownloadOK(dl') /\ Grows(dl, dl', p, fetch)
  <2>1. fetch \in SUBSET Blocks /\ kind \in Kinds
    BY <1>3, Zenon DEF Kinds
  <2> QED BY <1>0, <1>2, <1>3, <2>1, RequestStep, Zenon DEF DownloadInv
<1>5. mapBlockIndex' = mapBlockIndex \cup Ancestors[b] /\ UNCHANGED <<hasData, tip, fDisconnect>>
      /\ UpdateBlockAvailability(p, b, mapBlockIndex')
  BY Zenon DEF ProcessHeadersMessage
<1>6. IndexOK' /\ mapBlockIndex \subseteq mapBlockIndex'
  BY <1>5, HeadersIndex, Zenon DEF DownloadInv
<1>7. AvailOK'
  BY <1>0, <1>5, <1>6, AvailStep, Zenon DEF DownloadInv
<1>8. NodesOK'
  BY <1>5, NodesKept, Zenon DEF DownloadInv
<1>9. ListsOK'
  BY <1>3, <1>4, <1>5, ListsKept, Zenon DEF DownloadInv
<1> QED BY <1>4, <1>6, <1>7, <1>8, <1>9, Zenon DEF DownloadInv

LEMMA NearCompactStep ==
    ASSUME DownloadInv, NEW p \in Peers, NEW b \in Blocks \ {Genesis},
           NEW d, d = Answered(dl, p, "cmpct", b), NearCompact(p, b, d)
    PROVE  /\ DownloadOK(dl') /\ Grows(dl, dl', p, {b})
           /\ fDisconnect' \in {fDisconnect, fDisconnect \cup {p}}
           /\ \/ hasData' = hasData /\ tip' = tip
              \/ ProcessNewBlock(b, TRUE) /\ \A q \in Peers : b \notin dl'.vBlocksInFlight[q]
<1>1. /\ FlightOK(d) /\ AskedOK(d, Blocks \ {b}) /\ Limited(d) /\ SameFlight(dl, d)
      /\ dl.mapBlocksInFlight[b] # p => AskedOK(d, Blocks)
      /\ b \in dl.partialBlock[p] => AskedOK(d, Blocks)
  BY AnsweredStep, Zenon DEF DownloadInv, Kinds
<1>2. /\ d.mapBlocksInFlight = dl.mapBlocksInFlight /\ d.vBlocksInFlight = dl.vBlocksInFlight
      /\ d.partialBlock = dl.partialBlock
  BY <1>1, Zenon DEF SameFlight
<1>3. ASSUME AskedOK(d, Blocks), dl' = d
      PROVE  DownloadOK(dl') /\ Grows(dl, dl', p, {b})
  BY <1>1, <1>2, <1>3, Zenon DEF DownloadOK, Grows
<1>4. CASE /\ d.mapBlocksInFlight[b] = p /\ b \in d.partialBlock[p]
           /\ dl' = d /\ UNCHANGED <<hasData, tip, fDisconnect>>
  BY <1>1, <1>2, <1>3, <1>4, Zenon
<1>5. ASSUME \/ d.mapBlocksInFlight[b] = p
             \/ /\ d.mapBlocksInFlight[b] = NoPeer
                /\ d.nBlocksInFlight[p] < MAX_BLOCKS_IN_TRANSIT_PER_PEER,
             NEW outcome,
             Reconstruct(p, b, outcome, WithPartial(MarkBlockAsInFlight(d, p, b), p, b))
      PROVE  /\ DownloadOK(dl') /\ Grows(dl, dl', p, {b})
             /\ fDisconnect' \in {fDisconnect, fDisconnect \cup {p}}
             /\ \/ hasData' = hasData /\ tip' = tip
                \/ ProcessNewBlock(b, TRUE) /\ \A q \in Peers : b \notin dl'.vBlocksInFlight[q]
  <2>1. PICK m : m = MarkBlockAsInFlight(d, p, b)
    BY Zenon
  <2>2. /\ FlightOK(m) /\ AskedOK(m, Blocks \ {b}) /\ Limited(m) /\ m.mapBlocksInFlight[b] = p
        /\ Grows(d, m, p, {b})
    BY <1>1, <1>5, <2>1, MarkedStep, SMTT(30)
  <2>3. PICK s : s = WithPartial(m, p, b)
    BY Zenon
  <2>4. /\ FlightOK(s) /\ AskedOK(s, Blocks \ {b}) /\ Limited(s) /\ s.mapBlocksInFlight[b] = p
        /\ s.vBlocksInFlight = m.vBlocksInFlight
    BY <2>2, <2>3, StartedStep, SMTT(30)
  <2>5. Reconstruct(p, b, outcome, s) /\ IndexOK
    BY <1>5, <2>1, <2>3, Zenon DEF DownloadInv
  <2>6. /\ DownloadOK(dl') /\ \A q \in Peers : dl'.vBlocksInFlight[q] \subseteq s.vBlocksInFlight[q]
        /\ fDisconnect' \in {fDisconnect, fDisconnect \cup {p}}
        /\ \/ hasData' = hasData /\ tip' = tip
           \/ ProcessNewBlock(b, TRUE) /\ \A q \in Peers : b \notin dl'.vBlocksInFlight[q]
    BY <2>4, <2>5, ReconstructStep, Zenon
  <2>7. Grows(dl, dl', p, {b})
    BY <1>2, <2>2, <2>4, <2>6, Zenon DEF Grows
  <2> QED BY <2>6, <2>7, Zenon
<1>6. CASE /\ d.mapBlocksInFlight[b] # p
           /\ \/ dl' = MarkBlockAsReceived(d, b) /\ ProcessNewBlock(b, TRUE)
              \/ dl' = d /\ UNCHANGED <<hasData, tip>>
           /\ UNCHANGED fDisconnect
  <2>1. AskedOK(d, Blocks)
    BY <1>1, <1>2, <1>6, Zenon
  <2>2. CASE dl' = MarkBlockAsReceived(d, b) /\ ProcessNewBlock(b, TRUE)
    <3>1. DownloadOK(dl') /\ \A q \in Peers : dl'.vBlocksInFlight[q] = d.vBlocksInFlight[q] \ {b}
      BY <1>1, <2>2, ReceivedStep, SMTT(30)
    <3> QED BY <1>2, <1>6, <2>2, <3>1, Zenon DEF Grows
  <2>3. CASE dl' = d /\ UNCHANGED <<hasData, tip>>
    BY <1>3, <1>6, <2>1, <2>3, Zenon
  <2> QED BY <1>6, <2>2, <2>3, Zenon
<1> QED BY <1>4, <1>5, <1>6, DownloadAssumption, Zenon DEF NearCompact

LEMMA CmpctBlockStep ==
    ASSUME DownloadInv, NEW p \in Peers, NEW b \in Blocks \ {Genesis}, CmpctBlock(p, b)
    PROVE  DownloadInv'
<1>0. /\ p \in mapNodeState /\ Parent[b] \in mapBlockIndex
      /\ mapBlockIndex' = mapBlockIndex \cup {b} /\ UpdateBlockAvailability(p, b, mapBlockIndex')
      /\ UNCHANGED <<mapNodeState, connections, pindexLastCommonBlock>>
  BY Zenon DEF CmpctBlock, Serving
<1>1. PICK d : d = Answered(dl, p, "cmpct", b)
  BY Zenon
<1>2. /\ FlightOK(d) /\ AskedOK(d, Blocks \ {b}) /\ Limited(d) /\ SameFlight(dl, d)
      /\ dl.mapBlocksInFlight[b] # p => AskedOK(d, Blocks)
  BY <1>1, AnsweredStep, Zenon DEF DownloadInv, Kinds
<1>3. /\ d.mapBlocksInFlight = dl.mapBlocksInFlight /\ d.vBlocksInFlight = dl.vBlocksInFlight
  BY <1>2, Zenon DEF SameFlight
<1>4. CASE b \notin hasData /\ ~InFlight(b) /\ ProcessHeadersMessage(p, b, TRUE)
  BY <1>0, <1>4, HeadersMessageStep, Zenon
<1>5. ASSUME /\ DownloadOK(dl') /\ Grows(dl, dl', p, {b})
             /\ fDisconnect' \in {fDisconnect, fDisconnect \cup {p}},
             \/ hasData' = hasData /\ tip' = tip
             \/ ProcessNewBlock(b, TRUE) /\ \A q \in Peers : b \notin dl'.vBlocksInFlight[q],
             b \notin hasData \/ \A q \in Peers : b \notin dl'.vBlocksInFlight[q]
      PROVE  DownloadInv'
  <2>1. IndexOK' /\ hasData' \subseteq hasData \cup {b}
    <3>1. CASE hasData' = hasData /\ tip' = tip
      <4>1. \A c \in mapBlockIndex \cup {b} : Ancestors[c] \subseteq mapBlockIndex \cup {b}
        BY <1>0, KnownUp, Zenon DEF DownloadInv
      <4> QED BY <1>0, <3>1, <4>1, Zenon DEF DownloadInv, IndexOK
    <3>2. CASE ProcessNewBlock(b, TRUE)
      BY <3>2, NewBlockStep, Zenon DEF DownloadInv
    <3> QED BY <1>5, <3>1, <3>2, Zenon
  <2>2. AvailOK' /\ NodesOK'
    BY <1>0, <1>5, AvailStep, NodesKept, Zenon DEF DownloadInv
  <2>3. ListsOK'
    BY <1>0, <1>5, <2>1, Zenon DEF DownloadInv, ListsOK, Grows
  <2> QED BY <1>5, <2>1, <2>2, <2>3, Zenon DEF DownloadInv
<1>6. ASSUME AskedOK(d, Blocks), dl' = d
      PROVE  DownloadOK(dl') /\ Grows(dl, dl', p, {b})
  BY <1>2, <1>3, <1>6, Zenon DEF DownloadOK, Grows
<1>7. b \in hasData => dl.mapBlocksInFlight[b] = NoPeer /\ \A q \in Peers : b \notin dl.vBlocksInFlight[q]
  BY SMTT(30) DEF DownloadInv, ListsOK, DownloadOK, FlightOK, Downloads
<1>8. CASE b \in hasData /\ dl' = d /\ UNCHANGED <<hasData, tip, fDisconnect>>
  <2>1. AskedOK(d, Blocks)
    BY <1>2, <1>7, <1>8, DownloadAssumption, Zenon
  <2> QED BY <1>3, <1>5, <1>6, <1>7, <1>8, <2>1, Zenon
<1>9. CASE b \notin hasData /\ dl' = Ask(d, p, "block", b) /\ UNCHANGED <<hasData, tip, fDisconnect>>
  <2>1. DownloadOK(dl') /\ dl'.vBlocksInFlight = d.vBlocksInFlight
    BY <1>2, <1>3, <1>9, AskStep, SMTT(30)
  <2>2. Grows(dl, dl', p, {b})
    BY <1>3, <2>1, Zenon DEF Grows
  <2> QED BY <1>5, <1>9, <2>1, <2>2, Zenon
<1>10. CASE b \notin hasData /\ ~InFlight(b) /\ dl' = d /\ UNCHANGED <<hasData, tip, fDisconnect>>
  <2>1. AskedOK(d, Blocks)
    BY <1>2, <1>10, DownloadAssumption, Zenon DEF InFlight
  <2> QED BY <1>5, <1>6, <1>10, <2>1, Zenon
<1>11. CASE b \notin hasData /\ NearCompact(p, b, d)
  BY <1>1, <1>5, <1>11, NearCompactStep, Zenon
<1> QED BY <1>1, <1>4, <1>8, <1>9, <1>10, <1>11, Zenon DEF CmpctBlock

LEMMA LastCommonFacts ==
    ASSUME DownloadInv, NEW p \in Peers, NEW best \in mapBlockIndex
    PROVE  LastCommon(p, best) \in mapBlockIndex
<1>1. best \in Blocks /\ tip \in Blocks /\ Ancestors[best] \subseteq mapBlockIndex
  BY Zenon DEF DownloadInv, IndexOK
<1> DEFINE S == {b \in Active : Height[b] <= Height[best]}
           guess == IF pindexLastCommonBlock[p] # NullHash THEN pindexLastCommonBlock[p] ELSE Highest(S)
<1>2. Highest(S) \in Blocks
  <2>1. S \in SUBSET Ancestors[tip] /\ Genesis \in S
    BY <1>1, TreeFacts, HeightAssumption, SMTT(30) DEF Active, Line
  <2> HIDE DEF S
  <2>2. Highest(S) \in S
    BY <1>1, <2>1, HighestFacts, Zenon
  <2> QED BY <1>1, <2>1, <2>2, AncestorsAssumption, Zenon
<1>3. guess \in Blocks
  <2>1. pindexLastCommonBlock[p] # NullHash => pindexLastCommonBlock[p] \in Blocks
    BY Zenon DEF DownloadInv, AvailOK, IndexOK
  <2> HIDE DEF S
  <2> QED BY <1>2, <2>1, Zenon
<1>4. LastCommon(p, best) = Highest(Ancestors[guess] \cap Ancestors[best])
  BY Zenon DEF LastCommon
<1> HIDE DEF guess
<1>5. /\ Ancestors[guess] \cap Ancestors[best] \in SUBSET Ancestors[best]
      /\ Ancestors[guess] \cap Ancestors[best] # {}
  BY <1>1, <1>3, TreeFacts, Zenon DEF Line
<1>6. Highest(Ancestors[guess] \cap Ancestors[best]) \in Ancestors[guess] \cap Ancestors[best]
  BY <1>1, <1>5, HighestFacts, Zenon
<1> QED BY <1>1, <1>4, <1>6, Zenon

LEMMA FindNextFacts ==
    ASSUME DownloadInv, NEW p \in Peers, NEW count \in Nat,
           NEW next, next = FindNextBlocksToDownload(p, count)
    PROVE  /\ next.blocks \subseteq Blocks \ hasData /\ IsFiniteSet(next.blocks)
           /\ \A c \in next.blocks : dl.mapBlocksInFlight[c] = NoPeer
           /\ Cardinality(next.blocks) \in Nat /\ Cardinality(next.blocks) <= count
           /\ next.common \in mapBlockIndex \cup {NullHash}
           /\ next.staller # NoPeer =>
                 next.staller \in Peers /\ dl.vBlocksInFlight[next.staller] # {}
<1> DEFINE best == BestKnown(p, mapBlockIndex)
           common == LastCommon(p, best)
           windowEnd == Height[common] + BLOCK_DOWNLOAD_WINDOW
           walk == {b \in Ancestors[best] : Height[b] > Height[common] /\ Height[b] <= windowEnd + 1}
           missing == {b \in walk : b \notin hasData /\ b \notin Active}
           linked == {b \in walk \ missing : HaveTxsDownloaded(b)}
           wanted == {b \in missing : ~InFlight(b)}
           inWindow == {b \in wanted : Height[b] <= windowEnd}
           flying == missing \ wanted
           waiting == IF flying = {} THEN NoPeer ELSE dl.mapBlocksInFlight[Lowest(flying)]
<1>1. best \in mapBlockIndex \cup {NullHash}
  <2>1. AvailOK
    BY Zenon DEF DownloadInv
  <2> QED BY <2>1, BestKnownType, Zenon
<1>2. CASE best = NullHash \/ Height[best] < Height[tip]
  <2>1. /\ next.blocks = {} /\ next.staller = NoPeer
        /\ next.common = pindexLastCommonBlock[p]
    BY <1>2, Zenon DEF FindNextBlocksToDownload
  <2>2. pindexLastCommonBlock[p] \in mapBlockIndex \cup {NullHash}
    BY Zenon DEF DownloadInv, AvailOK
  <2> HIDE DEF best
  <2> QED BY <2>1, <2>2, FS_EmptySet, SMTT(30)
<1>3. CASE ~(best = NullHash \/ Height[best] < Height[tip])
  <2>1. /\ next.blocks = First(inWindow, count)
        /\ next.staller = IF inWindow = {} /\ wanted # {} /\ waiting # p THEN waiting ELSE NoPeer
        /\ next.common = IF linked = {} THEN common ELSE Highest(linked)
    BY <1>3, Zenon DEF FindNextBlocksToDownload
  <2> HIDE DEF best
  <2>2. best \in mapBlockIndex /\ best \in Blocks /\ Ancestors[best] \subseteq mapBlockIndex
        /\ Ancestors[best] \subseteq Blocks
    BY <1>1, <1>3, AncestorsAssumption, Zenon DEF DownloadInv, IndexOK
  <2>3. common \in mapBlockIndex
    BY <2>2, LastCommonFacts, Zenon
  <2>4. walk \subseteq Ancestors[best]
    BY Zenon
  <2> HIDE DEF walk, common
  <2>5. /\ missing \subseteq walk /\ missing \cap hasData = {} /\ linked \subseteq walk
        /\ wanted \subseteq missing /\ inWindow \subseteq wanted
        /\ \A c \in inWindow : dl.mapBlocksInFlight[c] = NoPeer
        /\ flying \subseteq missing /\ \A c \in flying : dl.mapBlocksInFlight[c] # NoPeer
    BY Zenon DEF InFlight
  <2> HIDE DEF missing, linked, wanted, inWindow, flying
  <2>6. inWindow \in SUBSET Ancestors[best] /\ linked \in SUBSET Ancestors[best]
        /\ inWindow \cap hasData = {} /\ flying \in SUBSET Blocks
    BY <2>2, <2>4, <2>5, Zenon
  <2>7. /\ First(inWindow, count) \subseteq inWindow /\ IsFiniteSet(First(inWindow, count))
        /\ Cardinality(First(inWindow, count)) \in Nat /\ Cardinality(First(inWindow, count)) <= count
    BY <2>2, <2>6, FirstFacts, Zenon
  <2>8. next.common \in mapBlockIndex
    <3>1. linked # {} => Highest(linked) \in linked
      BY <2>2, <2>6, HighestFacts, Zenon
    <3> QED BY <2>1, <2>2, <2>3, <2>6, <3>1, Zenon
  <2>9. waiting # NoPeer => waiting \in Peers /\ dl.vBlocksInFlight[waiting] # {}
    <3>1. ASSUME flying # {} PROVE Lowest(flying) \in flying
      BY <2>6, <3>1, LowestFacts, Zenon
    <3>2. \A c \in Blocks : dl.mapBlocksInFlight[c] # NoPeer =>
             dl.mapBlocksInFlight[c] \in Peers /\ c \in dl.vBlocksInFlight[dl.mapBlocksInFlight[c]]
      BY SMTT(30) DEF DownloadInv, DownloadOK, FlightOK, Downloads
    <3> QED BY <2>6, <3>1, <3>2, Zenon
  <2>10. next.staller # NoPeer => next.staller = waiting
    BY <2>1, Zenon
  <2> HIDE DEF waiting
  <2>11. /\ next.blocks \subseteq Blocks \ hasData /\ IsFiniteSet(next.blocks)
         /\ \A c \in next.blocks : dl.mapBlocksInFlight[c] = NoPeer
         /\ Cardinality(next.blocks) \in Nat /\ Cardinality(next.blocks) <= count
    BY <2>1, <2>2, <2>5, <2>6, <2>7, Zenon
  <2> QED BY <2>8, <2>9, <2>10, <2>11, Zenon
<1> QED BY <1>2, <1>3, Zenon

LEMMA StallFields ==
    ASSUME NEW d \in Downloads, NEW q \in Peers, NEW s, s = Stalling(d, q)
    PROVE  /\ s \in Downloads
           /\ s.nStallingSince = [d.nStallingSince EXCEPT ![q] = TRUE]
           /\ s.mapBlocksInFlight = d.mapBlocksInFlight /\ s.vBlocksInFlight = d.vBlocksInFlight
           /\ s.nBlocksInFlight = d.nBlocksInFlight /\ s.asked = d.asked
           /\ s.nBlocksInFlightValidHeaders = d.nBlocksInFlightValidHeaders
           /\ s.nPeersWithValidatedDownloads = d.nPeersWithValidatedDownloads
           /\ s.partialBlock = d.partialBlock
BY Zenon DEF Stalling, Downloads

LEMMA StallStep ==
    ASSUME NEW d, DownloadOK(d), NEW q \in Peers, d.vBlocksInFlight[q] # {},
           NEW s, s = Stalling(d, q)
    PROVE  DownloadOK(s) /\ s.vBlocksInFlight = d.vBlocksInFlight
<1>1. d \in Downloads /\ FlightOK(d) /\ AskedOK(d, Blocks) /\ Limited(d)
  BY Zenon DEF DownloadOK, FlightOK
<1>2. /\ s \in Downloads
      /\ s.nStallingSince = [d.nStallingSince EXCEPT ![q] = TRUE]
      /\ s.mapBlocksInFlight = d.mapBlocksInFlight /\ s.vBlocksInFlight = d.vBlocksInFlight
      /\ s.nBlocksInFlight = d.nBlocksInFlight /\ s.asked = d.asked
      /\ s.nBlocksInFlightValidHeaders = d.nBlocksInFlightValidHeaders
      /\ s.nPeersWithValidatedDownloads = d.nPeersWithValidatedDownloads
      /\ s.partialBlock = d.partialBlock
  BY <1>1, StallFields, SMTT(30)
<1>3. \A x \in Peers : s.nStallingSince[x] => d.vBlocksInFlight[x] # {}
  <2>1. d.nStallingSince \in [Peers -> BOOLEAN]
    BY <1>1, Zenon DEF Downloads
  <2>2. \A x \in Peers : x # q => s.nStallingSince[x] = d.nStallingSince[x]
    BY <1>2, <2>1, Zenon
  <2> QED BY <1>1, <2>2, Zenon DEF FlightOK
<1>4. FlightOK(s)
  BY <1>1, <1>2, <1>3, SMTT(30) DEF FlightOK, Busy
<1>5. AskedOK(s, Blocks) /\ Limited(s)
  BY <1>1, <1>2, Zenon DEF AskedOK, Limited
<1> QED BY <1>2, <1>4, <1>5, Zenon DEF DownloadOK

LEMMA SendMessagesStep ==
    ASSUME DownloadInv, NEW p \in Peers, SendMessages(p)
    PROVE  DownloadInv'
<1>1. /\ p \in mapNodeState /\ dl.nBlocksInFlight[p] < MAX_BLOCKS_IN_TRANSIT_PER_PEER
      /\ UNCHANGED <<index, nodes>>
      /\ pindexBestKnownBlock' = [pindexBestKnownBlock EXCEPT ![p] = BestKnown(p, mapBlockIndex)]
      /\ hashLastUnknownBlock' = [hashLastUnknownBlock EXCEPT ![p] = StillUnknown(p, mapBlockIndex)]
  BY Zenon DEF SendMessages, Serving
<1>2. PICK count \in Nat : count = MAX_BLOCKS_IN_TRANSIT_PER_PEER - dl.nBlocksInFlight[p]
  <2>1. dl.nBlocksInFlight[p] \in Int
    BY Zenon DEF DownloadInv, DownloadOK, FlightOK, Downloads
  <2> QED BY <1>1, <2>1, DownloadAssumption, SMTT(30)
<1>3. PICK next, d :
         /\ next = FindNextBlocksToDownload(p, count) /\ d = Request(dl, p, "block", next.blocks)
         /\ dl' = IF d.nBlocksInFlight[p] = 0 /\ next.staller # NoPeer
                  THEN Stalling(d, next.staller) ELSE d
         /\ pindexLastCommonBlock' = [pindexLastCommonBlock EXCEPT ![p] = next.common]
  BY <1>2, Zenon DEF SendMessages
<1>4. /\ next.blocks \subseteq Blocks \ hasData /\ IsFiniteSet(next.blocks)
      /\ \A c \in next.blocks : dl.mapBlocksInFlight[c] = NoPeer
      /\ Cardinality(next.blocks) \in Nat /\ Cardinality(next.blocks) <= count
      /\ next.common \in mapBlockIndex \cup {NullHash}
      /\ next.staller # NoPeer => next.staller \in Peers /\ dl.vBlocksInFlight[next.staller] # {}
  BY <1>3, FindNextFacts, Zenon
<1>5. /\ DownloadOK(d) /\ d.vBlocksInFlight[p] = dl.vBlocksInFlight[p] \cup next.blocks
      /\ \A q \in Peers \ {p} : d.vBlocksInFlight[q] = dl.vBlocksInFlight[q]
  <2>1. /\ next.blocks \in SUBSET Blocks /\ "block" \in Kinds /\ DownloadOK(dl)
        /\ dl.nBlocksInFlight[p] \in Int
    BY <1>4, Zenon DEF Kinds, DownloadInv, DownloadOK, FlightOK, Downloads
  <2>2. dl.nBlocksInFlight[p] + Cardinality(next.blocks) <= MAX_BLOCKS_IN_TRANSIT_PER_PEER
    BY <1>2, <1>4, <2>1, DownloadAssumption, SMTT(30)
  <2> QED BY <1>3, <1>4, <2>1, <2>2, RequestStep, SMTT(30)
<1>6. DownloadOK(dl') /\ dl'.vBlocksInFlight = d.vBlocksInFlight
  <2>1. CASE d.nBlocksInFlight[p] = 0 /\ next.staller # NoPeer
    <3>1. next.staller \in Peers /\ d.vBlocksInFlight[next.staller] # {}
      BY <1>4, <1>5, <2>1, Zenon
    <3> QED BY <1>3, <1>5, <2>1, <3>1, StallStep, SMTT(30)
  <2>2. CASE ~(d.nBlocksInFlight[p] = 0 /\ next.staller # NoPeer)
    BY <1>3, <1>5, <2>2, Zenon
  <2> QED BY <2>1, <2>2, Zenon
<1>7. IndexOK' /\ NodesOK'
  BY <1>1, Zenon DEF DownloadInv, IndexOK, NodesOK, index, nodes
<1>8. AvailOK'
  <2>1. /\ BestKnown(p, mapBlockIndex) \in mapBlockIndex \cup {NullHash}
        /\ StillUnknown(p, mapBlockIndex) \in Blocks \cup {NullHash}
    BY BestKnownType, Zenon DEF DownloadInv
  <2> QED BY <1>1, <1>3, <1>4, <2>1, Zenon DEF DownloadInv, AvailOK, index
<1>9. ListsOK'
  BY <1>1, <1>4, <1>5, <1>6, Zenon DEF DownloadInv, ListsOK, index, nodes
<1> QED BY <1>6, <1>7, <1>8, <1>9, Zenon DEF DownloadInv

LEMMA DownloadInvStep == DownloadInv /\ [Next]_vars => DownloadInv'
<1> SUFFICES ASSUME DownloadInv, [Next]_vars PROVE DownloadInv'
  BY Zenon
<1>1. CASE UNCHANGED vars
  BY <1>1, Zenon DEF vars, index, nodes, avail, DownloadInv, IndexOK, NodesOK, AvailOK, ListsOK
<1>2. ASSUME NEW p \in Peers, Announce(p) PROVE DownloadInv'
  <2>1. PICK b \in Blocks : Inv(p, b) \/ \E direct \in BOOLEAN : Headers(p, b, direct)
    BY <1>2, DownloadAssumption, Zenon DEF Announce
  <2>2. CASE Inv(p, b)
    BY <2>2, InvStep, Zenon
  <2>3. ASSUME NEW direct \in BOOLEAN, Headers(p, b, direct) PROVE DownloadInv'
    BY <2>3, HeadersMessageStep, Zenon DEF Headers, Serving
  <2> QED BY <2>1, <2>2, <2>3, Zenon
<1>3. ASSUME NEW p \in Peers, Deliver(p) PROVE DownloadInv'
  <2>1. PICK b \in Blocks \ {Genesis} :
           \/ \E sound \in BOOLEAN : Block(p, b, sound)
           \/ CmpctBlock(p, b) \/ BlockTxn(p, b)
    BY <1>3, DownloadAssumption, Zenon DEF Deliver
  <2> QED BY <2>1, BlockStep, CmpctBlockStep, BlockTxnStep, Zenon
<1> QED BY <1>1, <1>2, <1>3, ComeAndGo, FinalizeStep, SendMessagesStep, Zenon DEF Next

-----------------------------------------------------------------------------
LEMMA DownloadInvAlways == Spec => []DownloadInv
BY DownloadInvInit, DownloadInvStep, PTL DEF Spec

(* The map of blocks in flight, the peers' lists and the counters agree    *)
(* whatever arrives, times out or leaves (MarkBlockAsReceived,             *)
(* MarkBlockAsInFlight, FinalizeNode), and no peer is ever over its limit. *)
THEOREM DownloadsAgree == Spec => []InFlightAgree
BY DownloadInvAlways, InvGivesProperties, PTL

(* A block in flight has a request its peer has not answered.              *)
THEOREM DownloadsAsked == Spec => []InFlightIsAsked
BY DownloadInvAlways, InvGivesProperties, PTL

(* The timer nStallingSince runs only against a peer with blocks in flight.*)
THEOREM DownloadsStaller == Spec => []StallerIsBehind
BY DownloadInvAlways, InvGivesProperties, PTL

-----------------------------------------------------------------------------
(* Why the download never gets stuck: the tip is a highest block of those  *)
(* stored with all their ancestors, and the last common block of a peer is *)
(* one of those.                                                           *)

TipHighest ==
    /\ HaveTxsDownloaded(tip)
    /\ \A b \in Blocks : HaveTxsDownloaded(b) => Height[b] <= Height[tip]

CommonStored ==
    \A p \in Peers : pindexLastCommonBlock[p] # NullHash =>
                        HaveTxsDownloaded(pindexLastCommonBlock[p])

WindowInv == TipHighest /\ CommonStored

(* A chain has one block of each height.                                   *)
LEMMA OnePerHeight ==
    ASSUME NEW b \in Blocks, NEW a \in Ancestors[b], NEW c \in Ancestors[b], Height[c] <= Height[a]
    PROVE  c = a \/ Height[c] < Height[a]
<1>1. a \in Blocks /\ c \in Blocks /\ (a \in Ancestors[c] \/ c \in Ancestors[a])
  BY TreeFacts, Zenon DEF Line
<1>2. (a = c \/ Height[a] < Height[c]) \/ (c = a \/ Height[c] < Height[a])
  BY <1>1, TreeFacts, Zenon DEF Line
<1>3. Height[a] \in Nat /\ Height[c] \in Nat
  BY <1>1, HeightAssumption, Zenon
<1> HIDE DEF Line
<1> QED BY <1>2, <1>3, SMTT(30)

(* First leaves out none of a set of one chain but for its limit.          *)
LEMMA FirstOfSome ==
    ASSUME NEW b \in Blocks, NEW S \in SUBSET Ancestors[b], S # {}
    PROVE  First(S, 1) # {}
<1>1. S \in SUBSET Blocks
  BY AncestorsAssumption, Zenon
<1>2. PICK l : l = Lowest(S)
  BY Zenon
<1>3. l \in S /\ \A c \in S : Height[l] <= Height[c]
  BY <1>1, <1>2, LowestFacts, Zenon
<1>4. ASSUME NEW c \in S, Height[c] <= Height[l] PROVE c = l
  <2>1. c = l \/ Height[c] < Height[l]
    BY <1>3, <1>4, OnePerHeight, Zenon
  <2>2. Height[l] <= Height[c] /\ Height[l] \in Nat /\ Height[c] \in Nat
    BY <1>1, <1>3, HeightAssumption, Zenon
  <2> QED BY <2>1, <2>2, SMTT(30)
<1>5. Height[l] <= Height[l]
  <2>1. Height[l] \in Nat
    BY <1>1, <1>3, HeightAssumption, Zenon
  <2> QED BY <2>1, SMTT(30)
<1>6. {c \in S : Height[c] <= Height[l]} = {l}
  BY <1>3, <1>4, <1>5, Zenon
<1>7. Cardinality({c \in S : Height[c] <= Height[l]}) <= 1
  BY <1>6, FS_Singleton, SMTT(30)
<1> QED BY <1>3, <1>7, Zenon DEF First

(* The first block of a chain above a.                                     *)
LEMMA NextAbove ==
    ASSUME NEW b \in Blocks, NEW a \in Ancestors[b], a # b
    PROVE  \E c \in Ancestors[b] : /\ c \in Blocks /\ Height[c] = Height[a] + 1
                                  /\ Ancestors[c] = {c} \cup Ancestors[a]
<1>1. PICK c \in Ancestors[b] \ {Genesis} : Parent[c] = a
  BY TreeFacts, Zenon DEF Line
<1>2. c \in Blocks
  BY AncestorsAssumption, Zenon
<1> QED BY <1>1, <1>2, AncestorsAssumption, HeightAssumption, Zenon

LEMMA StoredBelow ==
    ASSUME NEW b \in Blocks, HaveTxsDownloaded(b), NEW a \in Ancestors[b]
    PROVE  HaveTxsDownloaded(a)
BY TreeFacts, Zenon DEF Line, HaveTxsDownloaded

LEMMA LastCommonStored ==
    ASSUME DownloadInv, WindowInv, NEW p \in Peers, NEW best \in mapBlockIndex
    PROVE  LastCommon(p, best) \in Ancestors[best] /\ HaveTxsDownloaded(LastCommon(p, best))
<1>1. best \in Blocks /\ tip \in Blocks
  BY Zenon DEF DownloadInv, IndexOK
<1> DEFINE S == {b \in Active : Height[b] <= Height[best]}
           guess == IF pindexLastCommonBlock[p] # NullHash THEN pindexLastCommonBlock[p] ELSE Highest(S)
<1>2. Highest(S) \in Blocks /\ HaveTxsDownloaded(Highest(S))
  <2>1. S \in SUBSET Ancestors[tip] /\ Genesis \in S
    BY <1>1, TreeFacts, HeightAssumption, SMTT(30) DEF Active, Line
  <2> HIDE DEF S
  <2>2. Highest(S) \in Ancestors[tip]
    BY <1>1, <2>1, HighestFacts, Zenon
  <2>3. HaveTxsDownloaded(tip)
    BY Zenon DEF WindowInv, TipHighest
  <2> QED BY <1>1, <2>2, <2>3, StoredBelow, AncestorsAssumption, Zenon
<1>3. guess \in Blocks /\ HaveTxsDownloaded(guess)
  <2>1. pindexLastCommonBlock[p] # NullHash =>
           pindexLastCommonBlock[p] \in Blocks /\ HaveTxsDownloaded(pindexLastCommonBlock[p])
    BY Zenon DEF DownloadInv, AvailOK, IndexOK, WindowInv, CommonStored
  <2> HIDE DEF S
  <2> QED BY <1>2, <2>1, Zenon
<1>4. LastCommon(p, best) = Highest(Ancestors[guess] \cap Ancestors[best])
  BY Zenon DEF LastCommon
<1> HIDE DEF guess
<1>5. /\ Ancestors[guess] \cap Ancestors[best] \in SUBSET Ancestors[best]
      /\ Ancestors[guess] \cap Ancestors[best] # {}
  BY <1>1, <1>3, TreeFacts, Zenon DEF Line
<1>6. Highest(Ancestors[guess] \cap Ancestors[best]) \in Ancestors[guess] \cap Ancestors[best]
  BY <1>1, <1>5, HighestFacts, Zenon
<1> QED BY <1>3, <1>4, <1>6, StoredBelow, Zenon

(* The window of FindNextBlocksToDownload is not empty, or it moves.       *)
LEMMA FindNextMoves ==
    ASSUME DownloadInv, WindowInv, NEW p \in Peers,
           NEW best, best = BestKnown(p, mapBlockIndex), best # NullHash,
           NEW count \in Nat, NEW next, next = FindNextBlocksToDownload(p, count)
    PROVE  /\ next.common # NullHash => HaveTxsDownloaded(next.common)
           /\ (Height[best] > Height[tip] /\ (\A b \in Ancestors[best] : ~InFlight(b)) /\ count = 1) =>
                 next.blocks # {} \/ Height[next.common] > Height[LastCommon(p, best)]
<1>1. best \in mapBlockIndex /\ best \in Blocks /\ tip \in Blocks /\ hasData \subseteq Blocks
  <2>1. AvailOK
    BY Zenon DEF DownloadInv
  <2> QED BY <2>1, BestKnownType, Zenon DEF DownloadInv, IndexOK
<1>2. Height[best] \in Nat /\ Height[tip] \in Nat
  BY <1>1, HeightAssumption, Zenon
<1>3. CASE Height[best] < Height[tip]
  <2>1. next.common = pindexLastCommonBlock[p]
    BY <1>3, Zenon DEF FindNextBlocksToDownload
  <2>2. ~(Height[best] > Height[tip])
    BY <1>2, <1>3, SMTT(30)
  <2> QED BY <2>1, <2>2, Zenon DEF WindowInv, CommonStored
<1>4. CASE ~(Height[best] < Height[tip])
  <2> DEFINE common == LastCommon(p, best)
             windowEnd == Height[common] + BLOCK_DOWNLOAD_WINDOW
             walk == {b \in Ancestors[best] : Height[b] > Height[common] /\ Height[b] <= windowEnd + 1}
             missing == {b \in walk : b \notin hasData /\ b \notin Active}
             linked == {b \in walk \ missing : HaveTxsDownloaded(b)}
             wanted == {b \in missing : ~InFlight(b)}
             inWindow == {b \in wanted : Height[b] <= windowEnd}
  <2>1. /\ next.blocks = First(inWindow, count)
        /\ next.common = IF linked = {} THEN common ELSE Highest(linked)
    BY <1>4, Zenon DEF FindNextBlocksToDownload
  <2>2. common \in Ancestors[best] /\ HaveTxsDownloaded(common) /\ common \in Blocks
    BY <1>1, LastCommonStored, AncestorsAssumption, Zenon
  <2>3. inWindow \in SUBSET Ancestors[best] /\ linked \in SUBSET Ancestors[best]
    BY Zenon
  <2>4. linked # {} => /\ Highest(linked) \in linked
                       /\ \A c \in linked : Height[c] <= Height[Highest(linked)]
    <3> HIDE DEF linked
    <3> QED BY <1>1, <2>3, HighestFacts, Zenon
  <2>5. HaveTxsDownloaded(next.common)
    BY <2>1, <2>2, <2>4, Zenon
  <2>6. ASSUME Height[best] > Height[tip], \A b \in Ancestors[best] : ~InFlight(b), count = 1,
               next.blocks = {}
        PROVE  Height[next.common] > Height[common]
    <3>1. common # best
      <4>1. HaveTxsDownloaded(best) => Height[best] <= Height[tip]
        BY <1>1, Zenon DEF WindowInv, TipHighest
      <4>2. ~(Height[best] <= Height[tip])
        BY <1>2, <2>6, SMTT(30)
      <4> QED BY <2>2, <4>1, <4>2, Zenon
    <3>2. PICK c \in Ancestors[best] :
             c \in Blocks /\ Height[c] = Height[common] + 1 /\ Ancestors[c] = {c} \cup Ancestors[common]
      BY <1>1, <2>2, <3>1, NextAbove, Zenon
    <3>3. Height[c] > Height[common] /\ Height[c] <= windowEnd + 1 /\ Height[c] <= windowEnd
      <4>1. Height[common] \in Nat /\ BLOCK_DOWNLOAD_WINDOW \in Nat \ {0}
        BY <2>2, HeightAssumption, DownloadAssumption, Zenon
      <4> HIDE DEF common
      <4> QED BY <3>2, <4>1, SMTT(30)
    <3>4. c \in walk
      BY <3>3, Zenon
    <3>5. inWindow = {}
      <4> HIDE DEF inWindow
      <4> QED BY <1>1, <2>1, <2>3, <2>6, FirstOfSome, Zenon
    <3>6. c \in hasData \/ c \in Active
      BY <2>6, <3>3, <3>4, <3>5, Zenon
    <3>7. c \in hasData
      BY <3>6, Zenon DEF Active, WindowInv, TipHighest, HaveTxsDownloaded
    <3>8. c \in linked
      BY <2>2, <3>2, <3>4, <3>7, Zenon DEF HaveTxsDownloaded
    <3>9. next.common \in Ancestors[best] /\ Height[c] <= Height[next.common]
      <4> HIDE DEF linked
      <4> QED BY <2>1, <2>3, <2>4, <3>8, Zenon
    <3>10. Height[next.common] \in Nat /\ Height[c] \in Nat /\ Height[common] \in Nat
      BY <1>1, <2>2, <3>2, <3>9, AncestorsAssumption, HeightAssumption, Zenon
    <3> HIDE DEF common
    <3> QED BY <3>3, <3>9, <3>10, SMTT(30)
  <2> QED BY <2>5, <2>6, Zenon
<1> QED BY <1>3, <1>4, Zenon

LEMMA WindowInvInit == Init => WindowInv
<1> SUFFICES ASSUME Init PROVE WindowInv
  BY Zenon
<1>1. hasData = {Genesis} /\ tip = Genesis /\ \A p \in Peers : pindexLastCommonBlock[p] = NullHash
  BY Zenon DEF Init
<1>2. \A b \in Blocks : HaveTxsDownloaded(b) => b = Genesis
  BY <1>1, TreeFacts, Zenon DEF HaveTxsDownloaded, Line
<1>3. Height[Genesis] <= Height[Genesis]
  BY HeightAssumption, SMTT(30)
<1>4. HaveTxsDownloaded(tip)
  BY <1>1, AncestorsAssumption, Zenon DEF HaveTxsDownloaded
<1> QED BY <1>1, <1>2, <1>3, <1>4, Zenon DEF WindowInv, TipHighest, CommonStored

LEMMA TipHighestStep ==
    ASSUME DownloadInv, TipHighest, NEW b \in Blocks, NEW forced, ProcessNewBlock(b, forced)
    PROVE  TipHighest' /\ hasData \subseteq hasData'
<1>1. CASE Parent[b] \in mapBlockIndex /\ (forced \/ Height[b] >= Height[tip])
  <2> DEFINE linked == {c \in hasData' : Ancestors[c] \subseteq hasData'}
             most == {c \in linked : \A e \in linked : Height[e] <= Height[c]}
  <2>1. hasData' = hasData \cup {b} /\ tip' \in most
    BY <1>1, Zenon DEF ProcessNewBlock
  <2>2. \A c \in Blocks : Ancestors[c] \subseteq hasData' => c \in linked
    BY TreeFacts, Zenon DEF Line
  <2> QED BY <2>1, <2>2, Zenon DEF TipHighest, HaveTxsDownloaded
<1>2. CASE ~(Parent[b] \in mapBlockIndex /\ (forced \/ Height[b] >= Height[tip]))
  <2>1. hasData' = hasData /\ tip' = tip
    BY <1>2, Zenon DEF ProcessNewBlock, index
  <2> QED BY <2>1, Zenon DEF TipHighest, HaveTxsDownloaded
<1> QED BY <1>1, <1>2, Zenon

(* Blocks are only stored by ProcessNewBlock.                              *)
LEMMA DeliverStores ==
    ASSUME NEW p \in Peers, Deliver(p)
    PROVE  /\ pindexLastCommonBlock' = pindexLastCommonBlock
           /\ \/ hasData' = hasData /\ tip' = tip
              \/ \E b \in Blocks, forced \in BOOLEAN : ProcessNewBlock(b, forced)
<1>1. PICK b \in Blocks \ {Genesis} :
         \/ \E sound \in BOOLEAN : Block(p, b, sound)
         \/ CmpctBlock(p, b) \/ BlockTxn(p, b)
  BY DownloadAssumption, Zenon DEF Deliver
<1> DEFINE Goal == \/ hasData' = hasData /\ tip' = tip
                   \/ \E c \in Blocks, forced \in BOOLEAN : ProcessNewBlock(c, forced)
<1>2. ASSUME NEW outcome, NEW d, Reconstruct(p, b, outcome, d) PROVE Goal
  <2>1. (hasData' = hasData /\ tip' = tip) \/ ProcessNewBlock(b, TRUE)
    BY <1>2, Zenon DEF Reconstruct
  <2> QED BY <2>1, Zenon
<1>3. ASSUME NEW sound \in BOOLEAN, Block(p, b, sound)
      PROVE  Goal /\ pindexLastCommonBlock' = pindexLastCommonBlock
  <2>1. InFlight(b) \in BOOLEAN
    BY Zenon DEF InFlight
  <2>2. ProcessNewBlock(b, InFlight(b)) \/ (hasData' = hasData /\ tip' = tip)
    BY <1>3, Zenon DEF Block, index
  <2> QED BY <1>3, <2>1, <2>2, Zenon DEF Block, avail
<1>4. ASSUME BlockTxn(p, b) PROVE Goal /\ pindexLastCommonBlock' = pindexLastCommonBlock
  BY <1>2, <1>4, Zenon DEF BlockTxn, avail
<1>5. ASSUME NEW d, NearCompact(p, b, d) PROVE Goal
  <2>1. \/ hasData' = hasData /\ tip' = tip
        \/ ProcessNewBlock(b, TRUE)
        \/ \E outcome, e : Reconstruct(p, b, outcome, e)
    BY <1>5, Zenon DEF NearCompact
  <2> QED BY <1>2, <2>1, Zenon
<1>6. ASSUME CmpctBlock(p, b) PROVE Goal /\ pindexLastCommonBlock' = pindexLastCommonBlock
  <2>1. \/ hasData' = hasData /\ tip' = tip
        \/ \E d : NearCompact(p, b, d)
        \/ ProcessHeadersMessage(p, b, TRUE)
    BY <1>6, Zenon DEF CmpctBlock
  <2>2. ASSUME ProcessHeadersMessage(p, b, TRUE) PROVE Goal
    BY <2>2, Zenon DEF ProcessHeadersMessage
  <2>3. pindexLastCommonBlock' = pindexLastCommonBlock
    BY <1>6, Zenon DEF CmpctBlock
  <2> QED BY <1>5, <2>1, <2>2, <2>3, Zenon
<1> QED BY <1>1, <1>3, <1>4, <1>6, Zenon

LEMMA WindowInvStep == DownloadInv /\ WindowInv /\ [Next]_vars => WindowInv'
<1> SUFFICES ASSUME DownloadInv, WindowInv, [Next]_vars PROVE WindowInv'
  BY Zenon
<1>1. ASSUME UNCHANGED <<hasData, tip, pindexLastCommonBlock>> PROVE WindowInv'
  BY <1>1, Zenon DEF WindowInv, TipHighest, CommonStored, HaveTxsDownloaded
<1>2. ASSUME NEW p \in Peers, Deliver(p) PROVE WindowInv'
  <2>1. /\ pindexLastCommonBlock' = pindexLastCommonBlock
        /\ \/ hasData' = hasData /\ tip' = tip
           \/ \E b \in Blocks, forced \in BOOLEAN : ProcessNewBlock(b, forced)
    BY <1>2, DeliverStores, Zenon
  <2>2. ASSUME NEW b \in Blocks, NEW forced \in BOOLEAN, ProcessNewBlock(b, forced) PROVE WindowInv'
    <3>1. TipHighest' /\ hasData \subseteq hasData'
      BY <2>2, TipHighestStep, Zenon DEF WindowInv
    <3> QED BY <2>1, <3>1, Zenon DEF WindowInv, CommonStored, HaveTxsDownloaded
  <2> QED BY <1>1, <2>1, <2>2, Zenon
<1>3. ASSUME NEW p \in Peers, NEW c, c # NullHash => HaveTxsDownloaded(c), UNCHANGED <<hasData, tip>>,
             pindexLastCommonBlock' = [pindexLastCommonBlock EXCEPT ![p] = c]
      PROVE  WindowInv'
  <2>1. \A q \in Peers : pindexLastCommonBlock'[q] \in {pindexLastCommonBlock[q], c}
    BY <1>3, Zenon DEF DownloadInv, AvailOK
  <2> QED BY <1>3, <2>1, Zenon DEF WindowInv, TipHighest, CommonStored, HaveTxsDownloaded
<1>4. ASSUME NEW p \in Peers, FinalizeNode(p) PROVE WindowInv'
  <2>1. UNCHANGED <<hasData, tip>> /\ pindexLastCommonBlock' = [pindexLastCommonBlock EXCEPT ![p] = NullHash]
    BY <1>4, Zenon DEF FinalizeNode, index
  <2> QED BY <1>3, <2>1, Zenon
<1>5. ASSUME NEW p \in Peers, SendMessages(p) PROVE WindowInv'
  <2>1. dl.nBlocksInFlight[p] \in Int /\ dl.nBlocksInFlight[p] < MAX_BLOCKS_IN_TRANSIT_PER_PEER
    BY <1>5, Zenon DEF SendMessages, DownloadInv, DownloadOK, FlightOK, Downloads
  <2>2. PICK count \in Nat : count = MAX_BLOCKS_IN_TRANSIT_PER_PEER - dl.nBlocksInFlight[p]
    BY <2>1, DownloadAssumption, SMTT(30)
  <2>3. PICK next : /\ next = FindNextBlocksToDownload(p, count)
                    /\ pindexLastCommonBlock' = [pindexLastCommonBlock EXCEPT ![p] = next.common]
    BY <1>5, <2>2, Zenon DEF SendMessages
  <2>4. PICK best : best = BestKnown(p, mapBlockIndex)
    BY Zenon
  <2>5. next.common # NullHash => HaveTxsDownloaded(next.common)
    <3>1. CASE best = NullHash
      <4>1. next.common = pindexLastCommonBlock[p]
        BY <2>3, <2>4, <3>1, Zenon DEF FindNextBlocksToDownload
      <4> QED BY <4>1, Zenon DEF WindowInv, CommonStored
    <3>2. CASE best # NullHash
      BY <2>3, <2>4, <3>2, FindNextMoves, Zenon
    <3> QED BY <3>1, <3>2, Zenon
  <2>6. UNCHANGED <<hasData, tip>>
    BY <1>5, Zenon DEF SendMessages, index
  <2> QED BY <1>3, <2>3, <2>5, <2>6, Zenon
<1>6. ASSUME NEW p \in Peers, InitializeNode(p) \/ Leave(p) \/ Timeout(p) \/ Announce(p)
      PROVE  WindowInv'
  <2>1. UNCHANGED <<hasData, tip, pindexLastCommonBlock>>
    BY <1>6, Zenon DEF InitializeNode, Leave, Timeout, Announce, Inv, Headers, ProcessHeadersMessage,
                       index, avail
  <2> QED BY <1>1, <2>1, Zenon
<1>7. CASE UNCHANGED vars
  BY <1>1, <1>7, Zenon DEF vars, index, avail
<1> QED BY <1>2, <1>4, <1>5, <1>6, <1>7, Zenon DEF Next

LEMMA WindowGivesNeverStuck == DownloadInv /\ WindowInv => NeverStuck
<1> SUFFICES ASSUME DownloadInv, WindowInv, NEW p \in Peers,
                    NEW best, best = BestKnown(p, mapBlockIndex), best # NullHash,
                    NEW next, next = FindNextBlocksToDownload(p, 1),
                    Height[best] > Height[tip], \A b \in Ancestors[best] : ~InFlight(b)
             PROVE  next.blocks # {} \/ Height[next.common] > Height[LastCommon(p, best)]
  BY Zenon DEF NeverStuck, DownloadInv, NodesOK
<1>1. 1 \in Nat
  OBVIOUS
<1> QED BY <1>1, FindNextMoves, Zenon

(* While a peer is known to have a better chain and no block of it is in   *)
(* flight, the next SendMessages to that peer requests a block or moves    *)
(* its window (FindNextBlocksToDownload).                                  *)
THEOREM DownloadsNeverStuck == Spec => []NeverStuck
<1>1. Spec => []WindowInv
  BY DownloadInvAlways, WindowInvInit, WindowInvStep, PTL DEF Spec
<1> QED BY <1>1, DownloadInvAlways, WindowGivesNeverStuck, PTL
=============================================================================
