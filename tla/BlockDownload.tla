---------------------------- MODULE BlockDownload ----------------------------
(***************************************************************************)
(* Block download of net_processing.cpp: which blocks are in flight from   *)
(* which peer, the counters kept beside that, the download window, the     *)
(* stalling and download timeouts, compact blocks, and peers that leave.   *)
(*                                                                         *)
(* Messages of all peers are handled by one thread, so a handler is one    *)
(* action.  What another thread can put between two halves of a handler is *)
(* FinalizeNode for another peer, which commutes with ProcessNewBlock (it  *)
(* touches no download state).  The blocks themselves are valid; only a    *)
(* copy of one may be damaged.  Timers are abstracted to "has been set":   *)
(* once set, a timer may run out at any later step.                        *)
(***************************************************************************)
EXTENDS BlockTree, FiniteSetsExt

CONSTANTS
    Peers, NoPeer,
    Faulty,                \* peers that may be late, leave, or send bad data
    Holds,                 \* Holds[p]: the blocks peer p has
    Announces,             \* Announces[p]: the last blocks of its headers messages
    MAX_BLOCKS_IN_TRANSIT_PER_PEER, BLOCK_DOWNLOAD_WINDOW,
    MaxConnections         \* bound on InitializeNode, per peer

VARIABLES
    mapBlockIndex,         \* blocks whose header is known
    hasData,               \* blocks stored
    tip,                   \* ChainActive().Tip()
    mapNodeState,          \* the peers InitializeNode made a state for
    fDisconnect,           \* those of them marked for disconnection
    connections,           \* [Peers -> Nat], how often each has connected
    pindexBestKnownBlock, hashLastUnknownBlock, pindexLastCommonBlock,
    dl                     \* the blocks in flight and their counters

index == <<mapBlockIndex, hasData, tip>>
nodes == <<mapNodeState, fDisconnect, connections>>
avail == <<pindexBestKnownBlock, hashLastUnknownBlock, pindexLastCommonBlock>>
vars  == <<index, nodes, avail, dl>>

ASSUME DownloadAssumption ==
    /\ NoPeer \notin Peers /\ Faulty \subseteq Peers
    /\ Holds \in [Peers -> SUBSET Blocks]
    /\ \A p \in Peers : \A b \in Holds[p] : Ancestors[b] \subseteq Holds[p]
    /\ Announces \in [Peers -> SUBSET (Blocks \ {Genesis})]
    /\ \A p \in Peers : Announces[p] \subseteq Holds[p]
    /\ MAX_BLOCKS_IN_TRANSIT_PER_PEER \in Nat \ {0}
    /\ BLOCK_DOWNLOAD_WINDOW \in Nat \ {0} /\ MaxConnections \in Nat \ {0}

(* mapBlocksInFlight, and of each peer's state vBlocksInFlight (with the   *)
(* entries that have a partialBlock), nBlocksInFlight,                     *)
(* nBlocksInFlightValidHeaders and whether nStallingSince is set.  A block *)
(* in flight has the requests its peer has not answered yet: for the whole *)
(* block, its compact form, or transactions missing from a compact block.  *)
(* An answer that comes later is a block sent unasked.                     *)
Downloads ==
    [mapBlocksInFlight : [Blocks -> Peers \cup {NoPeer}],
     vBlocksInFlight : [Peers -> SUBSET Blocks],
     partialBlock : [Peers -> SUBSET Blocks],
     nBlocksInFlight : [Peers -> Int],
     nBlocksInFlightValidHeaders : [Peers -> Int],
     nPeersWithValidatedDownloads : Int,
     nStallingSince : [Peers -> BOOLEAN],
     asked : [Blocks -> SUBSET {"block", "cmpct", "txn"}]]

TypeOK ==
    /\ mapBlockIndex \subseteq Blocks /\ hasData \subseteq mapBlockIndex
    /\ tip \in hasData
    /\ fDisconnect \subseteq mapNodeState /\ mapNodeState \subseteq Peers
    /\ connections \in [Peers -> 0 .. MaxConnections]
    /\ pindexBestKnownBlock \in [Peers -> mapBlockIndex \cup {NullHash}]
    /\ hashLastUnknownBlock \in [Peers -> Blocks \cup {NullHash}]
    /\ pindexLastCommonBlock \in [Peers -> mapBlockIndex \cup {NullHash}]
    /\ dl \in Downloads

-----------------------------------------------------------------------------
(* The chain, as far as this component sees it.                            *)

Active == Ancestors[tip]

(* HaveTxsDownloaded: the block and all blocks below it are stored.        *)
HaveTxsDownloaded(b) == Ancestors[b] \subseteq hasData

InFlight(b) == dl.mapBlocksInFlight[b] # NoPeer

(* ProcessNewBlock of a sound copy of b: AcceptBlock drops an unrequested  *)
(* block with less work than the tip, else stores it; ActivateBestChain    *)
(* then moves to the stored chain with the most work.                      *)
ProcessNewBlock(b, forced) ==
    IF Parent[b] \in mapBlockIndex /\ (forced \/ Height[b] >= Height[tip])
    THEN /\ hasData' = hasData \cup {b}
         /\ mapBlockIndex' = mapBlockIndex \cup {b}
         /\ LET linked == {c \in hasData' : Ancestors[c] \subseteq hasData'}
                most   == {c \in linked : \A e \in linked : Height[e] <= Height[c]}
            IN  IF tip \in most THEN tip' = tip ELSE tip' \in most
    ELSE UNCHANGED index

-----------------------------------------------------------------------------
(* The bookkeeping of blocks in flight.                                    *)

(* Fault for the mutation runs: the stalling timer of the peer runs on.     *)
StillStalling(d, b) ==
    LET p == d.mapBlocksInFlight[b] IN
    IF p = NoPeer THEN d
    ELSE [mapBlocksInFlight |-> [d.mapBlocksInFlight EXCEPT ![b] = NoPeer],
          vBlocksInFlight |-> [d.vBlocksInFlight EXCEPT ![p] = @ \ {b}],
          partialBlock |-> [d.partialBlock EXCEPT ![p] = @ \ {b}],
          nBlocksInFlight |-> [d.nBlocksInFlight EXCEPT ![p] = @ - 1],
          nBlocksInFlightValidHeaders |-> [d.nBlocksInFlightValidHeaders EXCEPT ![p] = @ - 1],
          nPeersWithValidatedDownloads |-> d.nPeersWithValidatedDownloads
              - IF d.nBlocksInFlightValidHeaders[p] = 1 THEN 1 ELSE 0,
          nStallingSince |-> d.nStallingSince,
          asked |-> [d.asked EXCEPT ![b] = {}]]

MarkBlockAsReceived(d, b) ==
    LET p == d.mapBlocksInFlight[b] IN
    IF p = NoPeer THEN d
    ELSE [mapBlocksInFlight |-> [d.mapBlocksInFlight EXCEPT ![b] = NoPeer],
          vBlocksInFlight |-> [d.vBlocksInFlight EXCEPT ![p] = @ \ {b}],
          partialBlock |-> [d.partialBlock EXCEPT ![p] = @ \ {b}],
          nBlocksInFlight |-> [d.nBlocksInFlight EXCEPT ![p] = @ - 1],
          nBlocksInFlightValidHeaders |-> [d.nBlocksInFlightValidHeaders EXCEPT ![p] = @ - 1],
          nPeersWithValidatedDownloads |-> d.nPeersWithValidatedDownloads
              - IF d.nBlocksInFlightValidHeaders[p] = 1 THEN 1 ELSE 0,
          nStallingSince |-> [d.nStallingSince EXCEPT ![p] = FALSE],
          asked |-> [d.asked EXCEPT ![b] = {}]]

(* Blocks that are in flight from nobody are now from p, with the requests *)
(* in kinds: what MarkBlockAsInFlight does for each of them.               *)
Added(d, p, bs, kinds) ==
    [mapBlocksInFlight |-> [b \in Blocks |-> IF b \in bs THEN p ELSE d.mapBlocksInFlight[b]],
     vBlocksInFlight |-> [d.vBlocksInFlight EXCEPT ![p] = @ \cup bs],
     partialBlock |-> d.partialBlock,
     nBlocksInFlight |-> [d.nBlocksInFlight EXCEPT ![p] = @ + Cardinality(bs)],
     nBlocksInFlightValidHeaders |->
         [d.nBlocksInFlightValidHeaders EXCEPT ![p] = @ + Cardinality(bs)],
     nPeersWithValidatedDownloads |-> d.nPeersWithValidatedDownloads
         + IF d.nBlocksInFlightValidHeaders[p] = 0 /\ bs # {} THEN 1 ELSE 0,
     nStallingSince |-> d.nStallingSince,
     asked |-> [b \in Blocks |-> IF b \in bs THEN d.asked[b] \cup kinds ELSE d.asked[b]]]

MarkBlockAsInFlight(d, p, b) ==
    IF d.mapBlocksInFlight[b] = p THEN d ELSE Added(MarkBlockAsReceived(d, b), p, {b}, {})

-----------------------------------------------------------------------------
(* What a peer is assumed to have.                                         *)

Better(best, b) == IF best = NullHash \/ Height[b] >= Height[best] THEN b ELSE best

(* ProcessBlockAvailability: pindexBestKnownBlock of p, given the headers  *)
(* known.                                                                  *)
BestKnown(p, known) ==
    IF hashLastUnknownBlock[p] \in known
    THEN Better(pindexBestKnownBlock[p], hashLastUnknownBlock[p])
    ELSE pindexBestKnownBlock[p]

StillUnknown(p, known) ==
    IF hashLastUnknownBlock[p] \in known THEN NullHash ELSE hashLastUnknownBlock[p]

UpdateBlockAvailability(p, b, known) ==
    /\ pindexBestKnownBlock' = [pindexBestKnownBlock EXCEPT ![p] =
           IF b \in known THEN Better(BestKnown(p, known), b) ELSE BestKnown(p, known)]
    /\ hashLastUnknownBlock' = [hashLastUnknownBlock EXCEPT ![p] =
           IF b \in known THEN StillUnknown(p, known) ELSE b]

-----------------------------------------------------------------------------
(* FindNextBlocksToDownload.                                               *)

Highest(S) == CHOOSE b \in S : \A c \in S : Height[c] <= Height[b]
Lowest(S)  == CHOOSE b \in S : \A c \in S : Height[b] <= Height[c]

(* The first n blocks of a part of a chain, from the lowest one up.        *)
First(S, n) == {b \in S : Cardinality({c \in S : Height[c] <= Height[b]}) <= n}

(* Fault for the mutation runs: the guess is kept although the peer is on   *)
(* another branch.                                                         *)
CommonGuess(p, best) ==
    IF pindexLastCommonBlock[p] # NullHash THEN pindexLastCommonBlock[p]
    ELSE Highest({b \in Active : Height[b] <= Height[best]})

(* pindexLastCommonBlock: a first guess on our chain, brought back to an   *)
(* ancestor of the peer's best block.                                      *)
LastCommon(p, best) ==
    LET guess == IF pindexLastCommonBlock[p] # NullHash THEN pindexLastCommonBlock[p]
                 ELSE Highest({b \in Active : Height[b] <= Height[best]})
    IN  Highest(Ancestors[guess] \cap Ancestors[best])

(* The result: the blocks to request, the peer that holds up the window,   *)
(* and the new pindexLastCommonBlock.                                      *)
FindNextBlocksToDownload(p, count) ==
    LET best      == BestKnown(p, mapBlockIndex)
        common    == LastCommon(p, best)
        windowEnd == Height[common] + BLOCK_DOWNLOAD_WINDOW
        walk      == {b \in Ancestors[best] : /\ Height[b] > Height[common]
                                              /\ Height[b] <= windowEnd + 1}
        missing   == {b \in walk : b \notin hasData /\ b \notin Active}
        linked    == {b \in walk \ missing : HaveTxsDownloaded(b)}
        wanted    == {b \in missing : ~InFlight(b)}
        inWindow  == {b \in wanted : Height[b] <= windowEnd}
        flying    == missing \ wanted
        waiting   == IF flying = {} THEN NoPeer ELSE dl.mapBlocksInFlight[Lowest(flying)]
    IN  IF best = NullHash \/ Height[best] < Height[tip]
        THEN [blocks |-> {}, staller |-> NoPeer, common |-> pindexLastCommonBlock[p]]
        ELSE [blocks |-> First(inWindow, count),
              staller |-> IF inWindow = {} /\ wanted # {} /\ waiting # p
                          THEN waiting ELSE NoPeer,
              common |-> IF linked = {} THEN common ELSE Highest(linked)]

-----------------------------------------------------------------------------
(* Peers come and go.                                                      *)

InitializeNode(p) ==
    /\ p \notin mapNodeState /\ connections[p] < MaxConnections
    /\ mapNodeState' = mapNodeState \cup {p}
    /\ connections' = [connections EXCEPT ![p] = @ + 1]
    /\ UNCHANGED <<index, fDisconnect, avail, dl>>

Leave(p) ==
    /\ p \in (mapNodeState \cap Faulty) \ fDisconnect
    /\ fDisconnect' = fDisconnect \cup {p}
    /\ UNCHANGED <<index, mapNodeState, connections, avail, dl>>

(* Fault for the mutation runs: the blocks stay in the map.                 *)
NotFreed(d, p) == d.mapBlocksInFlight

(* The blocks of a peer that has gone are no longer in flight.             *)
Freed(d, p) ==
    [b \in Blocks |-> IF b \in d.vBlocksInFlight[p] THEN NoPeer ELSE d.mapBlocksInFlight[b]]

Destroyed(d, p) ==
    [mapBlocksInFlight |-> Freed(d, p),
     vBlocksInFlight |-> [d.vBlocksInFlight EXCEPT ![p] = {}],
     partialBlock |-> [d.partialBlock EXCEPT ![p] = {}],
     nBlocksInFlight |-> [d.nBlocksInFlight EXCEPT ![p] = 0],
     nBlocksInFlightValidHeaders |-> [d.nBlocksInFlightValidHeaders EXCEPT ![p] = 0],
     nPeersWithValidatedDownloads |-> d.nPeersWithValidatedDownloads
         - IF d.nBlocksInFlightValidHeaders[p] # 0 THEN 1 ELSE 0,
     nStallingSince |-> [d.nStallingSince EXCEPT ![p] = FALSE],
     asked |-> [b \in Blocks |-> IF b \in d.vBlocksInFlight[p] THEN {} ELSE d.asked[b]]]

(* The state of p is destroyed.                                            *)
FinalizeNode(p) ==
    /\ p \in fDisconnect
    /\ mapNodeState' = mapNodeState \ {p}
    /\ fDisconnect' = fDisconnect \ {p}
    /\ dl' = Destroyed(dl, p)
    /\ pindexBestKnownBlock' = [pindexBestKnownBlock EXCEPT ![p] = NullHash]
    /\ hashLastUnknownBlock' = [hashLastUnknownBlock EXCEPT ![p] = NullHash]
    /\ pindexLastCommonBlock' = [pindexLastCommonBlock EXCEPT ![p] = NullHash]
    /\ UNCHANGED <<index, connections>>

(* Messages are taken from, and sent to, peers not marked for              *)
(* disconnection.                                                          *)
Serving(p) == p \in mapNodeState \ fDisconnect

(* A request to p, and the answer to one, for a block in flight from p.    *)
Ask(d, p, kind, b) ==
    IF d.mapBlocksInFlight[b] = p THEN [d EXCEPT !.asked[b] = @ \cup {kind}] ELSE d

Answered(d, p, kind, b) ==
    IF d.mapBlocksInFlight[b] = p THEN [d EXCEPT !.asked[b] = @ \ {kind}] ELSE d

(* Misbehaving with a score of 100.                                        *)
Misbehaving(p) == fDisconnect' = fDisconnect \cup {p}

-----------------------------------------------------------------------------
(* Announcements.                                                          *)

(* INV of a block; the getheaders it causes is answered by Headers.        *)
Inv(p, b) ==
    /\ Serving(p)
    /\ UpdateBlockAvailability(p, b, mapBlockIndex)
    /\ UNCHANGED <<index, nodes, pindexLastCommonBlock, dl>>

(* The blocks that ProcessHeadersMessage requests at once: it walks down   *)
(* from the last header to the active chain, gives up when more than the   *)
(* limit are missing, and requests from the lowest one up.                 *)
DirectFetch(p, last) ==
    LET want == {b \in Ancestors[last] \ (Active \cup hasData) : ~InFlight(b)}
        n    == Cardinality(want)
        walked == {b \in want : Cardinality({c \in want : Height[c] > Height[b]})
                                   <= MAX_BLOCKS_IN_TRANSIT_PER_PEER}
        room == Max({0, MAX_BLOCKS_IN_TRANSIT_PER_PEER - dl.nBlocksInFlight[p]})
        reached == n <= MAX_BLOCKS_IN_TRANSIT_PER_PEER
                   \/ Parent[Lowest(walked)] \in Active
    IN  IF reached /\ Height[tip] <= Height[last]
        THEN First(walked, room)
        ELSE {}

(* MarkBlockAsInFlight and a request for each of some blocks in ascending  *)
(* order, none of which is in flight (BlockDownloadProofs!RequestOneMore). *)
Request(d, p, kind, bs) == Added(d, p, bs, {kind})

(* ProcessHeadersMessage for headers that connect, the last one of b.      *)
(* Whether CanDirectFetch holds depends on the time; the compact form is   *)
(* requested of peers that support it, if the block is the only one in     *)
(* flight.                                                                 *)
ProcessHeadersMessage(p, b, canDirectFetch) ==
    /\ mapBlockIndex' = mapBlockIndex \cup Ancestors[b]
    /\ UpdateBlockAvailability(p, b, mapBlockIndex')
    /\ LET fetch == IF canDirectFetch THEN DirectFetch(p, b) ELSE {}
           kinds == IF /\ Cardinality(fetch) = 1 /\ Parent[b] \in Active
                       /\ \A c \in Blocks : ~InFlight(c)
                    THEN {"block", "cmpct"} ELSE {"block"}
       IN  \E kind \in kinds : dl' = Request(dl, p, kind, fetch)
    /\ UNCHANGED <<hasData, tip, fDisconnect>>

Headers(p, b, canDirectFetch) ==
    /\ Serving(p)
    /\ ProcessHeadersMessage(p, b, canDirectFetch)
    /\ UNCHANGED <<mapNodeState, connections, pindexLastCommonBlock>>

-----------------------------------------------------------------------------
(* Blocks.                                                                 *)

(* BLOCK, asked for or not.  Whoever had it in flight, it is so no more;   *)
(* a damaged copy costs its sender the connection.                         *)
Block(p, b, sound) ==
    /\ Serving(p)
    /\ dl' = MarkBlockAsReceived(dl, b)
    /\ IF sound THEN ProcessNewBlock(b, InFlight(b)) /\ UNCHANGED fDisconnect
       ELSE Misbehaving(p) /\ UNCHANGED index
    /\ UNCHANGED <<mapNodeState, connections, avail>>

(* What InitData and FillBlock make of a compact block of p that is in     *)
(* flight from p: it may be malformed, need a full download after all      *)
(* (colliding short ids), lack transactions, or be complete.               *)
Outcomes(p) == {"FAILED", "MISSING", "OK"} \cup IF p \in Faulty THEN {"INVALID"} ELSE {}

(* Fault for the mutation runs: after a collision nothing is requested.     *)
NoFallback(p, b, outcome, d) ==
    \/ /\ outcome \in {"INVALID", "OK"}
       /\ dl' = MarkBlockAsReceived(d, b)
       /\ IF outcome = "OK" THEN ProcessNewBlock(b, TRUE) /\ UNCHANGED fDisconnect
          ELSE Misbehaving(p) /\ UNCHANGED <<hasData, tip>>
    \/ /\ outcome \in {"FAILED", "MISSING"}
       /\ dl' = IF outcome = "MISSING" THEN Ask(d, p, "txn", b) ELSE d
       /\ UNCHANGED <<hasData, tip, fDisconnect>>

Reconstruct(p, b, outcome, d) ==
    \/ /\ outcome = "INVALID"
       /\ dl' = MarkBlockAsReceived(d, b) /\ Misbehaving(p)
       /\ UNCHANGED <<hasData, tip>>
    \/ /\ outcome = "FAILED"
       /\ dl' = Ask(d, p, "block", b)
       /\ UNCHANGED <<hasData, tip, fDisconnect>>
    \/ /\ outcome = "MISSING"
       /\ dl' = Ask(d, p, "txn", b)
       /\ UNCHANGED <<hasData, tip, fDisconnect>>
    \/ /\ outcome = "OK"
       /\ dl' = MarkBlockAsReceived(d, b)
       /\ ProcessNewBlock(b, TRUE) /\ UNCHANGED fDisconnect

(* BLOCKTXN: dropped unless the block is in flight from p with a           *)
(* partialBlock; a peer sends one only for a getblocktxn.                  *)
BlockTxn(p, b) ==
    /\ Serving(p)
    /\ dl.mapBlocksInFlight[b] = p /\ b \in dl.partialBlock[p]
    /\ "txn" \in dl.asked[b]
    /\ mapBlockIndex' = mapBlockIndex
    /\ \E outcome \in Outcomes(p) \ {"MISSING"} :
          Reconstruct(p, b, outcome, Answered(dl, p, "txn", b))
    /\ UNCHANGED <<mapNodeState, connections, avail>>

(* The entry of b in the list of p has a partialBlock from now on.         *)
WithPartial(d, p, b) == [d EXCEPT !.partialBlock[p] = @ \cup {b}]

(* A compact block near the tip: started or continued as a download from   *)
(* p, or, when another peer has it in flight or p has no room, completed   *)
(* only if nothing is missing.                                             *)
NearCompact(p, b, d) ==
    LET from    == d.mapBlocksInFlight[b]
        room    == d.nBlocksInFlight[p] < MAX_BLOCKS_IN_TRANSIT_PER_PEER
        started == WithPartial(MarkBlockAsInFlight(d, p, b), p, b)
    IN  \/ /\ from = p /\ b \in d.partialBlock[p]
           /\ dl' = d /\ UNCHANGED <<hasData, tip, fDisconnect>>
        \/ /\ (from = p /\ b \notin d.partialBlock[p]) \/ (from = NoPeer /\ room)
           /\ \E outcome \in Outcomes(p) : Reconstruct(p, b, outcome, started)
        \/ /\ from \notin {p, NoPeer} \/ (from = NoPeer /\ ~room)
           /\ \/ dl' = MarkBlockAsReceived(d, b) /\ ProcessNewBlock(b, TRUE)
              \/ dl' = d /\ UNCHANGED <<hasData, tip>>
           /\ UNCHANGED fDisconnect

(* CMPCTBLOCK whose parent is known, asked for or not.  Where the code     *)
(* asks CanDirectFetch, either answer is possible.                         *)
CmpctBlock(p, b) ==
    /\ Serving(p) /\ Parent[b] \in mapBlockIndex
    /\ mapBlockIndex' = mapBlockIndex \cup {b}
    /\ UpdateBlockAvailability(p, b, mapBlockIndex')
    /\ LET d    == Answered(dl, p, "cmpct", b)
           near == Height[b] <= Height[tip] + 2
           same == UNCHANGED <<hasData, tip, fDisconnect>>
       IN  \/ b \in hasData /\ dl' = d /\ same
           \/ /\ b \notin hasData
              /\ Height[b] <= Height[tip] \/ (InFlight(b) /\ ~near)
              /\ dl' = Ask(d, p, "block", b) /\ same
           \/ /\ b \notin hasData /\ Height[b] > Height[tip] /\ ~InFlight(b)
              /\ dl' = d /\ same
           \/ /\ b \notin hasData /\ Height[b] > Height[tip] /\ near
              /\ NearCompact(p, b, d)
           \/ /\ b \notin hasData /\ ~near /\ ~InFlight(b)
              /\ ProcessHeadersMessage(p, b, TRUE)
    /\ UNCHANGED <<mapNodeState, connections, pindexLastCommonBlock>>

-----------------------------------------------------------------------------
(* SendMessages, as far as blocks are concerned.                           *)

(* The timeouts end the handler.                                           *)
Timeout(p) ==
    /\ Serving(p) /\ p \in Faulty
    /\ dl.nStallingSince[p] \/ dl.vBlocksInFlight[p] # {}
    /\ fDisconnect' = fDisconnect \cup {p}
    /\ UNCHANGED <<index, mapNodeState, connections, avail, dl>>

Stalling(d, p) == [d EXCEPT !.nStallingSince[p] = TRUE]

(* Blocks are requested; a peer with nothing to do in the window blames    *)
(* the one that holds it up.                                               *)
SendMessages(p) ==
    /\ Serving(p) /\ dl.nBlocksInFlight[p] < MAX_BLOCKS_IN_TRANSIT_PER_PEER
    /\ \E next \in {FindNextBlocksToDownload(p, MAX_BLOCKS_IN_TRANSIT_PER_PEER
                                                - dl.nBlocksInFlight[p])} :
       /\ \E d \in {Request(dl, p, "block", next.blocks)} :
            dl' = IF d.nBlocksInFlight[p] = 0 /\ next.staller # NoPeer
                  THEN Stalling(d, next.staller) ELSE d
       /\ pindexLastCommonBlock' = [pindexLastCommonBlock EXCEPT ![p] = next.common]
    /\ pindexBestKnownBlock' = [pindexBestKnownBlock EXCEPT ![p] = BestKnown(p, mapBlockIndex)]
    /\ hashLastUnknownBlock' = [hashLastUnknownBlock EXCEPT ![p] = StillUnknown(p, mapBlockIndex)]
    /\ UNCHANGED <<index, nodes>>

-----------------------------------------------------------------------------
Init ==
    /\ mapBlockIndex = {Genesis} /\ hasData = {Genesis} /\ tip = Genesis
    /\ mapNodeState = {} /\ fDisconnect = {} /\ connections = [p \in Peers |-> 0]
    /\ pindexBestKnownBlock = [p \in Peers |-> NullHash]
    /\ hashLastUnknownBlock = [p \in Peers |-> NullHash]
    /\ pindexLastCommonBlock = [p \in Peers |-> NullHash]
    /\ dl = [mapBlocksInFlight |-> [b \in Blocks |-> NoPeer],
             vBlocksInFlight |-> [p \in Peers |-> {}],
             partialBlock |-> [p \in Peers |-> {}],
             nBlocksInFlight |-> [p \in Peers |-> 0],
             nBlocksInFlightValidHeaders |-> [p \in Peers |-> 0],
             nPeersWithValidatedDownloads |-> 0,
             nStallingSince |-> [p \in Peers |-> FALSE],
             asked |-> [b \in Blocks |-> {}]]

Announce(p) ==
    \E b \in Announces[p] : Inv(p, b) \/ \E direct \in BOOLEAN : Headers(p, b, direct)

Deliver(p) ==
    \E b \in Holds[p] \ {Genesis} :
       \/ Block(p, b, TRUE)
       \/ p \in Faulty /\ Block(p, b, FALSE)
       \/ CmpctBlock(p, b) \/ BlockTxn(p, b)

Next ==
    \E p \in Peers : \/ InitializeNode(p) \/ Leave(p) \/ FinalizeNode(p)
                     \/ Announce(p) \/ Deliver(p) \/ Timeout(p) \/ SendMessages(p)

Spec == Init /\ [][Next]_vars

-----------------------------------------------------------------------------
(* What must hold.                                                         *)

(* The map of blocks in flight, the lists of the peers and the counters    *)
(* agree, whatever order of arrivals, timeouts and departures: what        *)
(* FinalizeNode asserts when the last peer is gone is one case of it.      *)
InFlightAgree ==
    /\ TypeOK
    /\ \A b \in Blocks, p \in Peers :
          dl.mapBlocksInFlight[b] = p <=> b \in dl.vBlocksInFlight[p]
    /\ \A p \in Peers :
          /\ p \notin mapNodeState => dl.vBlocksInFlight[p] = {}
          /\ dl.partialBlock[p] \subseteq dl.vBlocksInFlight[p]
          /\ dl.nBlocksInFlight[p] = Cardinality(dl.vBlocksInFlight[p])
          /\ dl.nBlocksInFlightValidHeaders[p] = dl.nBlocksInFlight[p]
          /\ dl.nBlocksInFlight[p] <= MAX_BLOCKS_IN_TRANSIT_PER_PEER
    /\ dl.nPeersWithValidatedDownloads =
          Cardinality({p \in Peers : dl.vBlocksInFlight[p] # {}})

(* A block in flight from a peer that will be heard is one that peer still *)
(* has to answer for: the download timeout of SendMessages never runs      *)
(* against a peer that has answered everything.                            *)
InFlightIsAsked ==
    \A b \in Blocks : dl.mapBlocksInFlight[b] \in mapNodeState \ fDisconnect =>
                         dl.asked[b] # {}

(* Only a peer with a block in flight is held to be stalling the window    *)
(* (SendMessages disconnects it two seconds later).                        *)
StallerIsBehind ==
    \A p \in Peers : dl.nStallingSince[p] => dl.vBlocksInFlight[p] # {}

(* The download never gets stuck: while a peer is known to have a better   *)
(* chain, a block of that chain is in flight, the peer is at its limit, or *)
(* the next SendMessages requests a block or at least moves the window.    *)
NeverStuck ==
    \A p \in mapNodeState \ fDisconnect :
       LET best == BestKnown(p, mapBlockIndex)
           next == FindNextBlocksToDownload(p, 1)
       IN  (best # NullHash /\ Height[best] > Height[tip]) =>
              \/ \E b \in Ancestors[best] : InFlight(b)
              \/ dl.nBlocksInFlight[p] >= MAX_BLOCKS_IN_TRANSIT_PER_PEER
              \/ next.blocks # {}
              \/ Height[next.common] > Height[LastCommon(p, best)]
=============================================================================
