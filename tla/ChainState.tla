----------------------------- MODULE ChainState -----------------------------
(***************************************************************************)
(* CChainState (src/src/validation.cpp): the block index with its status   *)
(* flags, setBlockIndexCandidates, and the choice of the active chain, with*)
(* parking of deep reorganisations, finalization, the operator's commands  *)
(* on blocks, and what a restart loads again.                              *)
(*                                                                         *)
(* A step is taken with cs_main held.  Several threads call                *)
(* ActivateBestChain: m_cs_chainstate lets one of them in at a time, and   *)
(* cs_main is released between two iterations of its outer loop.  Other    *)
(* threads can then run, also in the middle of UnwindBlock, which releases *)
(* cs_main after every block.  Blocks are never pruned here, so that       *)
(* HAVE_DATA, nTx > 0 and validity TRANSACTIONS come together.             *)
(***************************************************************************)
EXTENDS BlockTree

CONSTANTS Work,                \* nChainWork
          Addr,                \* the address of the CBlockIndex
          BadContext,          \* blocks that ContextualCheckBlock refuses
          BadConnect,          \* blocks that ConnectBlock refuses
          MaxReorgDepth,       \* -maxreorgdepth, -1 to disable
          ParkDeepReorg, AutomaticUnparking, FinalizeHeaders,
          Batch,               \* blocks that are connected in one go: 32
          Headers,             \* the headers that are known at the start
          Commands,            \* the operator's commands that are used
          MaxCommands,         \* how many of them
          Concurrent,          \* whether threads interleave, or wait for each other
          MaxRestarts

(* A header has some proof of work, as its target must fit (pow.cpp).      *)
ASSUME WorkAssumption ==
    /\ Work \in [Blocks -> Nat]
    /\ \A b \in Blocks \ {Genesis} : Work[Parent[b]] < Work[b]
    /\ Addr \in [Blocks -> Nat]
    /\ \A a, b \in Blocks : Addr[a] = Addr[b] => a = b

ASSUME ConfigAssumption ==
    /\ BadContext \subseteq Blocks \ {Genesis} /\ BadConnect \subseteq Blocks \ {Genesis}
    /\ MaxReorgDepth \in Int /\ Batch \in Nat \ {0}
    /\ {ParkDeepReorg, AutomaticUnparking, FinalizeHeaders, Concurrent} \subseteq BOOLEAN
    /\ Headers \subseteq Blocks /\ Genesis \in Headers
    /\ \A b \in Headers \ {Genesis} : Parent[b] \in Headers
    /\ Commands \subseteq {"invalidate", "park", "reconsider", "unpark", "precious", "finalize"}
    /\ MaxCommands \in Nat /\ MaxRestarts \in Nat

VARIABLES
    known,         \* mapBlockIndex
    data,          \* HAVE_DATA, and with it validity TRANSACTIONS
    scripts,       \* validity SCRIPTS
    failed, failedParent, parked, parkedParent,
    linked,        \* HaveTxsDownloaded: nChainTx # 0
    seq, nextSeq,  \* nSequenceId, nBlockSequenceId
    candidates,    \* setBlockIndexCandidates
    unlinked,      \* the second halves of mapBlocksUnlinked
    failedBlocks,  \* m_failed_blocks
    finalized,     \* pindexFinalized
    tip,           \* the end of m_chain
    precious,      \* nBlockReverseSequenceId, nLastPreciousChainwork
    dirty,         \* setDirtyBlockIndex
    saved,         \* the block tree database
    savedTip,      \* the best block of the coin database
    pending,       \* a caller waits for ActivateBestChain
    abc,           \* the locals of ActivateBestChain
    unwind,        \* the locals of UnwindBlock
    commands, restarts

have    == <<known, data, linked, unlinked>>
fails   == <<failed, failedParent>>
parks   == <<parked, parkedParent>>
seqs    == <<seq, nextSeq, precious>>
disk    == <<saved, savedTip, restarts>>
vars    == <<have, scripts, fails, parks, seqs, candidates, failedBlocks, finalized,
             tip, dirty, disk, pending, abc, unwind, commands>>

Idle == [pc |-> "idle", mostWork |-> NullHash, start |-> NullHash, old |-> NullHash,
         fork |-> NullHash, connected |-> FALSE]
NoUnwind == [target |-> NullHash, mark |-> NullHash, invalidate |-> FALSE, locked |-> FALSE]
NothingSaved == [known |-> {}, data |-> {}, scripts |-> {}, failed |-> {},
                 failedParent |-> {}, parked |-> {}, parkedParent |-> {}]

(* The genesis block is connected, and some headers are known.             *)
Init ==
    /\ known = Headers /\ data = {Genesis} /\ scripts = {Genesis}
    /\ failed = {} /\ failedParent = {} /\ parked = {} /\ parkedParent = {}
    /\ linked = {Genesis} /\ unlinked = {}
    /\ seq = [b \in Blocks |-> IF b = Genesis THEN 1 ELSE 0] /\ nextSeq = 2
    /\ precious = [next |-> -1, work |-> 0]
    /\ candidates = {Genesis} /\ failedBlocks = {} /\ finalized = NullHash
    /\ tip = Genesis
    /\ dirty = Headers /\ saved = NothingSaved /\ savedTip = NullHash /\ restarts = 0
    /\ pending = FALSE /\ abc = Idle /\ unwind = NoUnwind /\ commands = 0

-----------------------------------------------------------------------------
(* The block tree and the status of a block.                               *)

Descendants(b) == {c \in Blocks : b \in Ancestors[c]}
Highest(S) == CHOOSE b \in S : \A c \in S : Height[c] <= Height[b]
Lowest(S)  == CHOOSE b \in S : \A c \in S : Height[b] <= Height[c]

(* LastCommonAncestor; FindFork is the one with the tip.                   *)
CommonAncestor(a, b) == Highest(Ancestors[a] \cap Ancestors[b])
FindFork(b) == CommonAncestor(b, tip)

AreOnTheSameFork(a, b) == a \in Ancestors[b] \/ b \in Ancestors[a]

(* Fault for the mutation runs: only the height is compared.               *)
ConflictsByHeight(b) == finalized # NullHash /\ Height[b] < Height[finalized]

ConflictsWithFinalized(b) == finalized # NullHash /\ ~AreOnTheSameFork(b, finalized)

isInvalid(b) == b \in failed \cup failedParent
isOnParkedChain(b) == b \in parked \cup parkedParent

(* Is a worse than b, by CBlockIndexWorkComparator?                        *)
WorseBy(ids, a, b) ==
    \/ Work[a] < Work[b]
    \/ /\ Work[a] = Work[b]
       /\ ids[a] > ids[b] \/ (ids[a] = ids[b] /\ Addr[a] > Addr[b])
Worse(a, b) == WorseBy(seq, a, b)

(* IsValid(TRANSACTIONS) and HaveTxsDownloaded.                            *)
Eligible == {b \in data \cap linked : ~isInvalid(b)}

(* InvalidChainFound: "we need to move back the finalization point".       *)
IsBlockFinalized(fin, b) == fin # NullHash /\ b \in Ancestors[fin]
MoveBack(fin, b) == IF IsBlockFinalized(fin, b) THEN Parent[b] ELSE fin

-----------------------------------------------------------------------------
(* UpdateFlags: own and parents are a block's own mark and the mark that it*)
(* inherits.  Ancestors lose both, descendants of b lose the inherited one *)
(* (with children: both), and all descendants of the deepest ancestor that *)
(* changed lose the inherited one.                                         *)

(* Fault for the mutation runs: only the descendants of b are looked at.   *)
DeepestSelf(b, marked) == b

(* The lowest marked block at or below b.                                  *)
Deepest(b, marked) ==
    LET changed == Ancestors[b] \cap marked IN IF changed = {} THEN b ELSE Lowest(changed)

ClearedOwn(b, own, children) ==
    own \ (Ancestors[b] \cup IF children THEN Descendants(b) ELSE {})

ClearedParents(b, own, parents) == parents \ Descendants(Deepest(b, own \cup parents))

(* UpdateFlagsForBlock, for the blocks that changed, when the blocks in bad*)
(* are invalid now: what leaves m_failed_blocks, ...                       *)
Healed(changed, bad) == (changed \cap data) \ bad

(* Fault for the mutation runs: nothing becomes a candidate again.         *)
ReturningNothing(changed, bad, ids) == {}

(* ... and what becomes a candidate.                                       *)
Returning(changed, bad, ids) ==
    {c \in Healed(changed, bad) \cap linked : WorseBy(ids, tip, c)}

(* UnparkBlockImpl: the marks that it leaves, the blocks that it changes.  *)
Unparked(b, children) ==
    LET own     == ClearedOwn(b, parked, children)
        parents == ClearedParents(b, parked, parkedParent)
    IN  [parked |-> own, parkedParent |-> parents,
         changed |-> (parked \ own) \cup (parkedParent \ parents)]
NotUnparked == [parked |-> parked, parkedParent |-> parkedParent, changed |-> {}]

-----------------------------------------------------------------------------
(* cs_main is free; another thread gets it; a command of the operator does. *)
CsMainFree == abc.pc \in {"idle", "released"} /\ ~unwind.locked
Quiet == abc.pc = "idle" /\ unwind = NoUnwind
OtherThread == CsMainFree /\ (Concurrent \/ (Quiet /\ ~pending))
CommandStarts(name) ==
    /\ OtherThread /\ name \in Commands /\ commands < MaxCommands
    /\ commands' = commands + 1

-----------------------------------------------------------------------------
(* Headers and blocks from the network.                                    *)

(* A new header whose parent is known and not invalid, and which does not  *)
(* fork before the finalized block (ContextualCheckBlockHeader).           *)
HeaderChecks(b) ==
    /\ b \notin known /\ Parent[b] \in known /\ ~isInvalid(Parent[b])
    /\ (finalized # NullHash /\ FinalizeHeaders /\ MaxReorgDepth > -1) =>
           finalized \in Ancestors[Parent[b]]

(* The entries of m_failed_blocks that AcceptBlockHeader meets.            *)
FailedAncestors(b) ==
    IF Parent[b] \in scripts THEN {} ELSE failedBlocks \cap Ancestors[Parent[b]]

AcceptBlockHeader(b) ==
    /\ OtherThread /\ HeaderChecks(b)
    /\ \/ /\ FailedAncestors(b) = {}
          /\ known' = known \cup {b} /\ dirty' = dirty \cup {b}
          /\ UNCHANGED failedParent
       \/ \E f \in FailedAncestors(b) :
          LET walk == Ancestors[Parent[b]] \ Ancestors[f] IN
          /\ failedParent' = failedParent \cup walk /\ dirty' = dirty \cup walk
          /\ UNCHANGED known
    /\ UNCHANGED <<data, linked, unlinked, scripts, failed, parks, seqs, candidates,
                   failedBlocks, finalized, tip, disk, pending, abc, unwind, commands>>

(* Fault for the mutation runs: only the blocks that wait for b itself.    *)
LinksOnce(b) == {c \in Descendants(b) : c = b \/ (c \in unlinked /\ Parent[c] = b)}

(* The blocks that b links: itself and those that wait for it, directly or *)
(* not.  They get sequence numbers level by level.                         *)
Links(b) ==
    {c \in Descendants(b) : Ancestors[c] \ Ancestors[b] \subseteq unlinked}
Orders(S) ==
    {r \in [S -> 0 .. Cardinality(S) - 1] :
        \A c, d \in S : /\ c # d => r[c] # r[d]
                        /\ Height[c] < Height[d] => r[c] < r[d]}

(* Does b go to mapBlocksUnlinked?                                         *)
Waits(b) == IF isInvalid(Parent[b]) THEN {} ELSE {b}

ReceivedBlockTransactions(b) ==
    /\ data' = data \cup {b}
    /\ IF Parent[b] \in linked
       THEN LET new   == Links(b)
                fresh == {c \in new : seq[c] = 0}
            IN  /\ linked' = linked \cup new
                /\ \E r \in Orders(fresh) :
                       seq' = [c \in Blocks |-> IF c \in fresh THEN nextSeq + r[c] ELSE seq[c]]
                /\ nextSeq' = nextSeq + Cardinality(fresh)
                /\ candidates' = candidates \cup {c \in new : ~WorseBy(seq', c, tip)}
                /\ unlinked' = unlinked \ new
       ELSE /\ unlinked' = unlinked \cup Waits(b)
            /\ UNCHANGED <<linked, seq, nextSeq, candidates>>

(* Fault for the mutation runs: an off-by-one.                             *)
DeepForkOffByOne(b) == Height[FindFork(b)] + 2 < Height[tip]

(* Does the block's chain leave the active chain more than a block below   *)
(* the tip?                                                                *)
DeepFork(b) == Height[FindFork(b)] + 1 < Height[tip]

(* AcceptBlock of a block that is not stored yet, after which              *)
(* ProcessNewBlock calls ActivateBestChain.  A block that was not asked for*)
(* and is dropped leaves only its header: AcceptBlockHeader.               *)
AcceptBlock(b) ==
    /\ OtherThread /\ b \notin data
    /\ IF b \in known THEN ~isInvalid(b) ELSE HeaderChecks(b) /\ FailedAncestors(b) = {}
    /\ known' = known \cup {b} /\ dirty' = dirty \cup {b}
    /\ \/ /\ b \in BadContext
          /\ failed' = failed \cup {b}
          /\ UNCHANGED <<data, linked, unlinked, seq, nextSeq, candidates, parked, pending>>
       \/ /\ b \notin BadContext
          /\ parked' = IF ParkDeepReorg /\ DeepFork(b) THEN parked \cup {b} ELSE parked
          /\ ReceivedBlockTransactions(b)
          /\ pending' = TRUE /\ UNCHANGED failed
    /\ UNCHANGED <<scripts, failedParent, parkedParent, precious, failedBlocks, finalized,
                   tip, disk, abc, unwind, commands>>

-----------------------------------------------------------------------------
(* ActivateBestChain.                                                      *)

(* A caller gets m_cs_chainstate and cs_main.                              *)
Enter ==
    /\ pending /\ abc.pc = "idle" /\ CsMainFree
    /\ abc' = [Idle EXCEPT !.pc = "loop", !.start = tip]
    /\ pending' = FALSE
    /\ UNCHANGED <<have, scripts, fails, parks, seqs, candidates, failedBlocks, finalized,
                   tip, dirty, disk, unwind, commands>>

(* The next iteration of the outer loop, with pindexMostWork of the last.  *)
Resume ==
    /\ abc.pc = "released" /\ CsMainFree
    /\ abc' = [abc EXCEPT !.pc = "loop", !.start = tip, !.connected = FALSE]
    /\ UNCHANGED <<have, scripts, fails, parks, seqs, candidates, failedBlocks, finalized,
                   tip, dirty, disk, pending, unwind, commands>>

(* The work that a parked chain needs.                                     *)
RequiredWork(new) ==
    LET fork  == FindFork(new)
        depth == Height[tip] - Height[fork]
        extra == IF depth \in {2, 3} THEN Parent[tip] ELSE tip
        delta == Work[extra] - Work[fork]
    IN  Work[tip] + IF depth \in 1 .. 3 THEN delta \div 2 ELSE delta

(* Fault for the mutation runs: invalid blocks do not stop a chain.        *)
StopsParked(path, bad, enough) == {b \in path : isOnParkedChain(b) /\ ~enough}

(* The blocks of a candidate's chain that make it unusable.                *)
Stops(path, bad, enough) == {b \in path : b \in bad \/ (isOnParkedChain(b) /\ ~enough)}

(* One iteration of FindMostWorkChain: the best candidate is checked, from *)
(* the top of its chain down to the fork, until a block that stops it.     *)
FindMostWorkChain ==
    /\ abc.pc = "loop" /\ abc.mostWork = NullHash
    /\ \E new \in candidates, test \in Blocks \cup {NullHash} :
       LET fin    == ConflictsWithFinalized(new)
           bad    == failed \cup failedParent \cup (IF fin THEN {new} ELSE {})
           path   == Ancestors[new] \ Ancestors[tip]
           enough == AutomaticUnparking /\ Work[new] > RequiredWork(new)
           stops  == Stops(path, bad, enough)
           walked == IF test = NullHash THEN path ELSE {b \in path : Height[b] >= Height[test]}
           above  == IF test = NullHash THEN {} ELSE walked \ {test}
           frees  == IF enough THEN {b \in walked : isOnParkedChain(b)} ELSE {}
           u      == IF frees = {} THEN NotUnparked ELSE Unparked(Highest(frees), FALSE)
           cands  == candidates \cup Returning(u.changed, bad, seq)
       IN  /\ \A c \in candidates : ~Worse(new, c)
           /\ test = IF stops = {} THEN NullHash ELSE Highest(stops)
           /\ failed' = IF fin THEN failed \cup {new} ELSE failed
           /\ failedParent' = IF test \in bad THEN failedParent \cup above ELSE failedParent
           /\ parked' = u.parked
           /\ parkedParent' = IF test # NullHash /\ ~enough /\ isOnParkedChain(test)
                              THEN u.parkedParent \cup above ELSE u.parkedParent
           /\ failedBlocks' = failedBlocks \ Healed(u.changed, bad)
           /\ candidates' = IF test = NullHash THEN cands ELSE cands \ walked
           /\ dirty' = dirty \cup u.changed
           /\ abc' = IF test = NullHash THEN [abc EXCEPT !.mostWork = new] ELSE abc
    /\ UNCHANGED <<have, scripts, seqs, finalized, tip, disk, pending, unwind, commands>>

(* Nothing to do at all: the loops end.                                    *)
Break ==
    /\ abc.pc = "loop"
    /\ abc.mostWork = tip \/ (abc.mostWork = NullHash /\ candidates = {})
    /\ abc' = IF abc.connected /\ tip # abc.mostWork THEN [abc EXCEPT !.pc = "released"] ELSE Idle
    /\ UNCHANGED <<have, scripts, fails, parks, seqs, candidates, failedBlocks, finalized,
                   tip, dirty, disk, pending, unwind, commands>>

(* ActivateBestChainStep begins.                                           *)
BeginStep ==
    /\ abc.pc = "loop" /\ abc.mostWork \notin {NullHash, tip}
    /\ abc' = [abc EXCEPT !.pc = "step", !.old = tip, !.fork = FindFork(abc.mostWork),
                          !.connected = TRUE]
    /\ UNCHANGED <<have, scripts, fails, parks, seqs, candidates, failedBlocks, finalized,
                   tip, dirty, disk, pending, unwind, commands>>

(* Fault for the mutation runs: cs_main is released after every step.      *)
AfterAnyStep(t, m) ==
    [abc EXCEPT !.pc = IF t = m THEN "idle" ELSE "released",
                !.mostWork = m, !.old = NullHash, !.fork = NullHash]

(* The step ended with tip t and pindexMostWork m: the inner loop goes on  *)
(* while the tip is worse than at its start, the outer one until m.        *)
AfterStep(t, m) ==
    [abc EXCEPT !.pc = IF Worse(t, abc.start) THEN "loop" ELSE IF t = m THEN "idle" ELSE "released",
                !.mostWork = m, !.old = NullHash, !.fork = NullHash]

(* Fault for the mutation runs: an invalid block ends the call.            *)
EndStepInvalid(t, m) ==
    IF m = NullHash \/ AfterStep(t, m).pc = "idle" THEN Idle ELSE AfterStep(t, m)

EndStep(t, m) == IF AfterStep(t, m).pc = "idle" THEN Idle ELSE AfterStep(t, m)

(* DisconnectTip, called by whoever holds cs_main.                         *)
DisconnectTip ==
    /\ tip' = Parent[tip]
    /\ finalized' = IF finalized = tip THEN Parent[tip] ELSE finalized

StepDisconnect ==
    /\ abc.pc = "step" /\ tip \notin Ancestors[abc.mostWork]
    /\ DisconnectTip
    /\ abc' = IF Parent[tip] = abc.mostWork THEN EndStep(Parent[tip], abc.mostWork) ELSE abc
    /\ UNCHANGED <<have, scripts, fails, parks, seqs, candidates, failedBlocks, dirty, disk,
                   pending, unwind, commands>>

(* FindBlockToFinalize: the highest block at least MaxReorgDepth deep that *)
(* has been known for long enough, if it is above the finalized one.       *)
BlocksToFinalize(b) ==
    LET deep == {c \in Ancestors[b] : MaxReorgDepth >= 0 /\ Height[c] <= Height[b] - MaxReorgDepth}
    IN  {NullHash} \cup (deep \ (IF finalized \in deep THEN Ancestors[finalized] ELSE {}))

(* FinalizeBlockInternal.                                                  *)
FinalizeFails(b) == isInvalid(b) \/ ConflictsWithFinalized(b)
Finalized(b) == IF IsBlockFinalized(finalized, b) THEN finalized ELSE b

NextToConnect == CHOOSE b \in Ancestors[abc.mostWork] : b # Genesis /\ Parent[b] = tip

PruneBlockIndexCandidates(cands, t) == {c \in cands : ~Worse(c, t)}

(* Fault for the mutation runs: the block is not marked.                   *)
InvalidBlockUnmarked(b) == failed

InvalidBlockFound(b) == failed \cup {b}

(* ConnectTip of the next block towards pindexMostWork.                    *)
ConnectInvalid ==
    /\ abc.pc = "step" /\ tip \in Ancestors[abc.mostWork]
    /\ LET b    == NextToConnect
           skip == ((Height[b] - Height[abc.fork] - 1) \div Batch) * Batch
           low  == CHOOSE c \in Ancestors[b] : Height[c] = Height[abc.fork] + skip + 1
       IN  /\ b \in BadConnect
           /\ failed' = InvalidBlockFound(b) /\ failedBlocks' = failedBlocks \cup {b}
           /\ dirty' = dirty \cup {b}
           /\ finalized' = MoveBack(MoveBack(finalized, b), low)
    /\ abc' = EndStep(tip, NullHash)
    /\ UNCHANGED <<have, scripts, failedParent, parks, seqs, candidates, tip, disk, pending,
                   unwind, commands>>

(* ConnectBlock succeeds: the validity of the block is raised.             *)
ConnectBlock(b) ==
    /\ b \notin BadConnect
    /\ scripts' = IF isInvalid(b) THEN scripts ELSE scripts \cup {b}
    /\ dirty' = IF b \in scripts /\ ~isInvalid(b) THEN dirty ELSE dirty \cup {b}

ConnectTip(q) ==
    /\ abc.pc = "step" /\ tip \in Ancestors[abc.mostWork]
    /\ LET b == NextToConnect IN
       /\ ConnectBlock(b) /\ q \in BlocksToFinalize(b)
       /\ q # NullHash => ~FinalizeFails(q)
       /\ finalized' = IF q = NullHash THEN finalized ELSE Finalized(q)
       /\ tip' = b
       /\ candidates' = PruneBlockIndexCandidates(candidates, b)
       /\ abc' = IF Work[b] > Work[abc.old] \/ b = abc.mostWork
                 THEN EndStep(b, abc.mostWork) ELSE abc
    /\ UNCHANGED <<have, fails, parks, seqs, failedBlocks, disk, pending, unwind, commands>>

(* The block is valid, but what it would finalize is not acceptable.       *)
ConnectUnfinalizable(q) ==
    /\ abc.pc = "step" /\ tip \in Ancestors[abc.mostWork]
    /\ LET b == NextToConnect IN
       /\ ConnectBlock(b) /\ q \in BlocksToFinalize(b) \ {NullHash} /\ FinalizeFails(q)
    /\ abc' = EndStep(tip, NullHash)
    /\ UNCHANGED <<have, fails, parks, seqs, candidates, failedBlocks, finalized, tip, disk,
                   pending, unwind, commands>>

-----------------------------------------------------------------------------
(* The operator's commands.  Each of them then calls ActivateBestChain.    *)

(* preciousblock.                                                          *)
PreciousBlock(b) ==
    /\ CommandStarts("precious") /\ b \in known /\ Work[b] >= Work[tip]
    /\ LET id  == IF Work[tip] > precious.work THEN -1 ELSE precious.next
           ids == [seq EXCEPT ![b] = id]
           u   == Unparked(b, FALSE)
           bad == failed \cup failedParent
           set == (candidates \ {b}) \cup Returning(u.changed, bad, ids)
       IN  /\ seq' = ids /\ precious' = [next |-> id - 1, work |-> Work[tip]]
           /\ parked' = u.parked /\ parkedParent' = u.parkedParent
           /\ dirty' = dirty \cup u.changed
           /\ failedBlocks' = failedBlocks \ Healed(u.changed, bad)
           /\ candidates' = IF b \in Eligible
                            THEN {c \in set \cup {b} : ~WorseBy(ids, c, tip)} ELSE set
    /\ pending' = TRUE
    /\ UNCHANGED <<have, scripts, fails, nextSeq, finalized, tip, disk, abc, unwind>>

(* invalidateblock and parkblock: UnwindBlock begins.                      *)
BeginUnwind(b, inv) ==
    /\ CommandStarts(IF inv THEN "invalidate" ELSE "park") /\ unwind = NoUnwind
    /\ b \in known \ {Genesis}
    /\ unwind' = [target |-> b, mark |-> b, invalidate |-> inv, locked |-> FALSE]
    /\ UNCHANGED <<have, scripts, fails, parks, seqs, candidates, failedBlocks, finalized,
                   tip, dirty, disk, pending, abc>>

(* The marks of UnwindBlock on the disconnected tip: its own mark, which   *)
(* the block that was disconnected before it exchanges for an inherited one.*)
Demoted(own) == IF tip = Parent[unwind.mark] THEN {unwind.mark} \cap own ELSE {}
UnwindOwn(own) == (own \cup {tip}) \ Demoted(own)
UnwindParents(own, parents) == parents \cup Demoted(own)

UnwindTip ==
    /\ unwind # NoUnwind /\ abc.pc \in {"idle", "released"}
    /\ unwind.target \in Ancestors[tip]
    /\ DisconnectTip
    /\ IF unwind.invalidate
       THEN /\ failed' = UnwindOwn(failed) /\ failedParent' = UnwindParents(failed, failedParent)
            /\ UNCHANGED parks
       ELSE /\ parked' = UnwindOwn(parked) /\ parkedParent' = UnwindParents(parked, parkedParent)
            /\ UNCHANGED fails
    /\ dirty' = dirty \cup {tip} \cup Demoted(IF unwind.invalidate THEN failed ELSE parked)
    /\ candidates' = candidates \cup {Parent[tip]}
    /\ unwind' = [unwind EXCEPT !.mark = tip]
    /\ UNCHANGED <<have, scripts, seqs, failedBlocks, disk, pending, abc, commands>>

(* "The resulting new best tip may not be in setBlockIndexCandidates       *)
(* anymore, so add it again."                                              *)
CandidatesAgain(bad) == {c \in (data \cap linked) \ bad : ~Worse(c, tip)}

(* pindex is out of the active chain: the last block is marked, and what   *)
(* may be the best tip now becomes a candidate.  If the last block is back *)
(* in the active chain, something interfered and nothing is done.          *)
EndUnwind ==
    /\ unwind # NoUnwind /\ abc.pc \in {"idle", "released"}
    /\ unwind.target \notin Ancestors[tip]
    /\ IF unwind.mark \in Ancestors[tip]
       THEN UNCHANGED <<failed, parked, failedBlocks, dirty, candidates, finalized>>
       ELSE /\ IF unwind.invalidate
               THEN /\ failed' = failed \cup {unwind.mark}
                    /\ failedBlocks' = failedBlocks \cup {unwind.mark}
                    /\ finalized' = MoveBack(finalized, unwind.mark)
                    /\ UNCHANGED parked
               ELSE /\ parked' = parked \cup {unwind.mark}
                    /\ UNCHANGED <<failed, failedBlocks, finalized>>
            /\ dirty' = dirty \cup {unwind.mark}
            /\ candidates' = candidates \cup CandidatesAgain(failed' \cup failedParent)
    /\ unwind' = NoUnwind /\ pending' = TRUE
    /\ UNCHANGED <<have, scripts, failedParent, parkedParent, seqs, tip, disk, abc, commands>>

(* finalizeblock: FinalizeBlockAndInvalidate.  cs_main is held until the   *)
(* blocks that conflict with b are out of the active chain.                *)
FinalizeBlock(b) ==
    /\ CommandStarts("finalize") /\ unwind = NoUnwind
    /\ b \in known /\ ~FinalizeFails(b)
    /\ finalized' = Finalized(b)
    /\ LET u   == IF isOnParkedChain(b) THEN Unparked(b, FALSE) ELSE NotUnparked
           bad == failed \cup failedParent
       IN  /\ parked' = u.parked /\ parkedParent' = u.parkedParent
           /\ dirty' = dirty \cup u.changed
           /\ failedBlocks' = failedBlocks \ Healed(u.changed, bad)
           /\ candidates' = candidates \cup Returning(u.changed, bad, seq)
    /\ IF AreOnTheSameFork(b, tip)
       THEN pending' = TRUE /\ UNCHANGED unwind
       ELSE LET next == CHOOSE c \in Ancestors[tip] : Height[c] = Height[FindFork(b)] + 1
            IN  /\ unwind' = [target |-> next, mark |-> next, invalidate |-> TRUE, locked |-> TRUE]
                /\ UNCHANGED pending
    /\ UNCHANGED <<have, scripts, fails, seqs, tip, disk, abc>>

(* reconsiderblock: ResetBlockFailureFlags.                                *)
ResetBlockFailureFlags(b) ==
    /\ CommandStarts("reconsider") /\ b \in known
    /\ LET own     == ClearedOwn(b, failed, TRUE)
           parents == ClearedParents(b, failed, failedParent)
           changed == (failed \ own) \cup (failedParent \ parents)
       IN  /\ failed' = own /\ failedParent' = parents
           /\ dirty' = dirty \cup changed
           /\ failedBlocks' = failedBlocks \ Healed(changed, own \cup parents)
           /\ candidates' = candidates \cup Returning(changed, own \cup parents, seq)
    /\ finalized' = IF finalized = NullHash THEN NullHash ELSE CommonAncestor(b, finalized)
    /\ pending' = TRUE
    /\ UNCHANGED <<have, scripts, parks, seqs, tip, disk, abc, unwind>>

(* unparkblock: UnparkBlockAndChildren.                                    *)
UnparkBlockAndChildren(b) ==
    /\ CommandStarts("unpark") /\ b \in known
    /\ LET u == Unparked(b, TRUE)
           bad == failed \cup failedParent
       IN  /\ parked' = u.parked /\ parkedParent' = u.parkedParent
           /\ dirty' = dirty \cup u.changed
           /\ failedBlocks' = failedBlocks \ Healed(u.changed, bad)
           /\ candidates' = candidates \cup Returning(u.changed, bad, seq)
    /\ pending' = TRUE
    /\ UNCHANGED <<have, scripts, fails, seqs, finalized, tip, disk, abc, unwind>>

-----------------------------------------------------------------------------
(* FlushStateToDisk writes the block index, and sometimes the coins too:   *)
(* when another thread asks for it, or when ConnectTip and DisconnectTip   *)
(* find that the cache is full.  ChainFlush has the steps of the write.    *)
Written(old, new) == (old \ dirty) \cup (new \cap dirty)

FlushStateToDisk(coins) ==
    /\ OtherThread \/ (coins /\ ~Quiet)
    /\ restarts < MaxRestarts
    /\ saved' = [known        |-> Written(saved.known, known),
                 data         |-> Written(saved.data, data),
                 scripts      |-> Written(saved.scripts, scripts),
                 failed       |-> Written(saved.failed, failed),
                 failedParent |-> Written(saved.failedParent, failedParent),
                 parked       |-> Written(saved.parked, parked),
                 parkedParent |-> Written(saved.parkedParent, parkedParent)]
    /\ savedTip' = IF coins THEN tip ELSE savedTip
    /\ dirty' = {}
    /\ UNCHANGED <<have, scripts, fails, parks, seqs, candidates, failedBlocks, finalized,
                   tip, restarts, pending, abc, unwind, commands>>

LoadLinked == {b \in saved.known : Ancestors[b] \subseteq saved.data}

LoadUnlinked == saved.data \ LoadLinked

(* Fault for the mutation runs: the candidates are not pruned.             *)
LoadUnpruned(bad, ids) == LoadLinked \ bad

(* The candidates that LoadBlockIndex and LoadChainTip leave.              *)
LoadCandidates(bad, ids) == {b \in LoadLinked \ bad : ~WorseBy(ids, b, savedTip)}

(* The node stops at any point and starts again: LoadBlockIndex,           *)
(* LoadChainTip, and the ActivateBestChain of ThreadImport.                *)
Restart ==
    /\ restarts < MaxRestarts /\ savedTip # NullHash
    /\ known' = saved.known /\ data' = saved.data /\ scripts' = saved.scripts
    /\ failed' = saved.failed /\ parked' = saved.parked /\ parkedParent' = saved.parkedParent
    /\ LET orphans == {b \in saved.known \ ({Genesis} \cup saved.failed) : Parent[b] \in saved.failed}
       IN  /\ failedParent' = saved.failedParent \cup orphans
           /\ dirty' = orphans
    /\ linked' = LoadLinked /\ unlinked' = LoadUnlinked
    /\ seq' = [b \in Blocks |-> 0] /\ nextSeq' = 1 /\ precious' = [next |-> -1, work |-> 0]
    /\ tip' = savedTip
    /\ candidates' = LoadCandidates(failed' \cup failedParent', seq')
    /\ failedBlocks' = {} /\ finalized' = NullHash
    /\ pending' = TRUE /\ abc' = Idle /\ unwind' = NoUnwind
    /\ restarts' = restarts + 1
    /\ UNCHANGED <<saved, savedTip, commands>>

-----------------------------------------------------------------------------
Network ==
    \E b \in Blocks \ {Genesis} : AcceptBlockHeader(b) \/ AcceptBlock(b)

ActivateBestChain ==
    \/ Enter \/ Resume \/ FindMostWorkChain \/ Break \/ BeginStep
    \/ StepDisconnect \/ ConnectInvalid
    \/ \E q \in Blocks \cup {NullHash} : ConnectTip(q) \/ ConnectUnfinalizable(q)

UnwindBlock == UnwindTip \/ EndUnwind

Command ==
    \E b \in Blocks :
        \/ PreciousBlock(b) \/ FinalizeBlock(b)
        \/ ResetBlockFailureFlags(b) \/ UnparkBlockAndChildren(b)
        \/ \E inv \in BOOLEAN : BeginUnwind(b, inv)

Disk == Restart \/ \E coins \in BOOLEAN : FlushStateToDisk(coins)

Next == Network \/ ActivateBestChain \/ UnwindBlock \/ Command \/ Disk

(* A caller of ActivateBestChain or UnwindBlock goes on until it returns.  *)
Fairness == WF_vars(ActivateBestChain) /\ WF_vars(UnwindBlock)

Spec == Init /\ [][Next]_vars
LiveSpec == Spec /\ Fairness

-----------------------------------------------------------------------------
Hashes == Blocks \cup {NullHash}

(* The variables have the types of the code's members and locals.          *)
TypeOK ==
    /\ \A S \in {known, data, scripts, failed, failedParent, parked, parkedParent, linked,
                 candidates, unlinked, failedBlocks, dirty} : S \subseteq Blocks
    /\ seq \in [Blocks -> Int] /\ nextSeq \in Nat
    /\ precious \in [next : Int, work : Nat]
    /\ finalized \in Hashes /\ tip \in Blocks
    /\ saved \in [known : SUBSET Blocks, data : SUBSET Blocks, scripts : SUBSET Blocks,
                  failed : SUBSET Blocks, failedParent : SUBSET Blocks,
                  parked : SUBSET Blocks, parkedParent : SUBSET Blocks]
    /\ savedTip \in Hashes /\ restarts \in 0 .. MaxRestarts /\ commands \in 0 .. MaxCommands
    /\ pending \in BOOLEAN
    /\ abc \in [pc : {"idle", "loop", "step", "released"}, mostWork : Hashes, start : Hashes,
                old : Hashes, fork : Hashes, connected : BOOLEAN]
    /\ unwind \in [target : Hashes, mark : Hashes, invalidate : BOOLEAN, locked : BOOLEAN]

(* The chain of b has no block that is invalid or parked, and does not     *)
(* fork before the finalized block.                                        *)
Usable(b) ==
    /\ b \in linked
    /\ \A c \in Ancestors[b] : ~isInvalid(c) /\ ~isOnParkedChain(c)
    /\ ~ConflictsWithFinalized(b)

(* What CheckBlockIndex asserts, in whatever order data arrived:           *)
(* HaveTxsDownloaded says that the data of the block and of all its        *)
(* ancestors is there, and a stored block that misses an ancestor, none of *)
(* which failed, waits in mapBlocksUnlinked.                               *)
BlocksLinked ==
    /\ TypeOK
    /\ linked = {b \in known : Ancestors[b] \subseteq data}
    /\ \A b \in data \ linked : Ancestors[b] \cap failed = {} => b \in unlinked

(* When nobody is activating a chain or waiting to, the tip is the best of *)
(* the chains that can be used.                                            *)
TipIsBest == (Quiet /\ ~pending) => \A b \in Blocks : Usable(b) => ~Worse(tip, b)

(* No block of the active chain is marked as invalid (FindMostWorkChain:   *)
(* "as we know all blocks in it are valid already").                       *)
ChainValid == Quiet => \A b \in Ancestors[tip] : ~isInvalid(b) /\ b \in scripts

(* The active chain does not fork before the finalized block.              *)
TipNotBeforeFinalized ==
    (Quiet /\ ~pending /\ finalized # NullHash) => AreOnTheSameFork(tip, finalized)

(* CheckBlockIndex: a block that sorts at least as well as the tip, with   *)
(* all data and no failed ancestor, is a candidate or parked; the tip is   *)
(* one; a block that sorts worse is none.                                  *)
CandidatesRight ==
    CsMainFree /\ unwind = NoUnwind =>
        /\ \A b \in linked :
               (~Worse(b, tip) /\ Ancestors[b] \cap failed = {}) =>
                   b \in candidates \/ (isOnParkedChain(b) /\ b # tip)
        /\ \A b \in candidates : b \in linked /\ ~Worse(b, tip)

(* CheckBlockIndex: a block inherits a mark only from an ancestor.         *)
MarksInherited ==
    unwind = NoUnwind =>
        /\ \A b \in failedParent : Ancestors[b] \cap failed # {}
        /\ \A b \in parkedParent : Ancestors[b] \cap parked # {}

(* AcceptBlockHeader: assert(failedit->nStatus.hasFailed()).               *)
FailedBlocksFailed ==
    \A b \in Blocks \ {Genesis} : HeaderChecks(b) => FailedAncestors(b) \subseteq failed

(* When blocks come one by one, a chain that disconnects two blocks or more*)
(* is first chosen only with the work that RequiredWork asks for           *)
(* (AcceptBlock parks it, FindMostWorkChain unparks it).                   *)
DeepReorgNeedsWork ==
    [][(FindMostWorkChain /\ ~abc.connected /\ abc'.mostWork # NullHash
            /\ Height[tip] - Height[FindFork(abc'.mostWork)] >= 2) =>
                Work[abc'.mostWork] > RequiredWork(abc'.mostWork)]_vars

(* ActivateBestChain: "We absolutely may not unlock cs_main until we've    *)
(* made forward progress": it is not released on a tip that is worse than  *)
(* the one that it was taken with.                                         *)
ForwardProgress ==
    [][(ActivateBestChain /\ ~CsMainFree /\ CsMainFree') => ~Worse(tip', abc.start)]_vars

(* Every call of ActivateBestChain and of UnwindBlock returns, and nobody  *)
(* waits for ever.                                                         *)
Settles == []<>(Quiet /\ ~pending)
=============================================================================
