-------------------------- MODULE ChainStateProofs --------------------------
(***************************************************************************)
(* Proofs about ChainState, for every tree of blocks, every assignment of  *)
(* work and addresses, every configuration and any number of commands.     *)
(***************************************************************************)
EXTENDS ChainState, FiniteSetTheorems, WellFoundedInduction, TLAPS

-----------------------------------------------------------------------------
(* The tree of blocks.                                                     *)

LEMMA NatMin ==
    ASSUME NEW T, T \subseteq Nat, T # {}
    PROVE  \E x \in T : \A y \in T : x <= y
<1>1. PICK x \in T : \A y \in T : ~ (<<y, x>> \in OpToRel(<, Nat))
  BY WFMin, NatLessThanWellFounded, Zenon
<1>2. \A y \in T : ~ (y < x)
  BY <1>1, Zenon DEF OpToRel
<1> QED BY <1>2

(* Induction from the genesis block upwards.                               *)
LEMMA TreeInduction ==
    ASSUME NEW S \in SUBSET Blocks, Genesis \in S,
           \A b \in Blocks \ {Genesis} : Parent[b] \in S => b \in S
    PROVE  S = Blocks
<1> DEFINE T == {Height[c] : c \in Blocks \ S}
<1> SUFFICES ASSUME S # Blocks PROVE FALSE
  BY Zenon
<1>1. T \subseteq Nat /\ T # {}
  BY HeightAssumption
<1>2. PICK n \in T : \A m \in T : n <= m
  <2> HIDE DEF T
  <2> QED BY <1>1, NatMin, Zenon
<1>3. PICK c \in Blocks \ S : \A e \in Blocks \ S : Height[c] <= Height[e]
  BY <1>2
<1>4. c # Genesis /\ Parent[c] \in Blocks /\ Height[c] = Height[Parent[c]] + 1
  BY <1>3, TreeAssumption, HeightAssumption, Zenon
<1>5. Parent[c] \in S
  BY <1>3, <1>4, HeightAssumption
<1> QED BY <1>3, <1>4, <1>5, Zenon

(* What is true of the chain of the genesis block, and of a block's if it  *)
(* is true of its parent's: ancestry is a partial order with the genesis   *)
(* block at its bottom, a block's ancestors are in a line, and each of     *)
(* them but the block itself has a child among them.                       *)
Line(b) ==
    /\ b \in Ancestors[b] /\ Genesis \in Ancestors[b]
    /\ \A a \in Ancestors[b] :
          /\ a \in Blocks /\ Ancestors[a] \subseteq Ancestors[b]
          /\ a = b \/ (/\ Height[a] < Height[b]
                       /\ \E c \in Ancestors[b] \ {Genesis} : Parent[c] = a)
          /\ \A c \in Ancestors[b] : a \in Ancestors[c] \/ c \in Ancestors[a]

LEMMA TreeFacts == \A b \in Blocks : Line(b)
<1> DEFINE S == {b \in Blocks : Line(b)}
<1>1. Genesis \in S
  BY AncestorsAssumption, TreeAssumption, Zenon DEF Line
<1>2. ASSUME NEW b \in Blocks \ {Genesis}, Parent[b] \in S
      PROVE  b \in S
  <2>1. /\ Ancestors[b] = {b} \cup Ancestors[Parent[b]] /\ Parent[b] \in Blocks
        /\ Height[b] = Height[Parent[b]] + 1
        /\ \A c \in Blocks : Height[c] \in Nat
    BY AncestorsAssumption, TreeAssumption, HeightAssumption, Zenon
  <2>2. Line(Parent[b])
    BY <1>2, Zenon
  <2>3. ASSUME NEW a \in Ancestors[b]
        PROVE  a = b \/ (Height[a] < Height[b]
                            /\ \E c \in Ancestors[b] \ {Genesis} : Parent[c] = a)
    <3>1. CASE a = Parent[b]
      BY <2>1, <3>1
    <3>2. CASE a # Parent[b] /\ a # b
      BY <2>1, <2>2, <3>2 DEF Line
    <3> QED BY <3>1, <3>2, Zenon
  <2>4. ASSUME NEW a \in Ancestors[b]
        PROVE  a \in Blocks /\ Ancestors[a] \subseteq Ancestors[b]
    BY <2>1, <2>2, Zenon DEF Line
  <2>5. ASSUME NEW a \in Ancestors[b], NEW c \in Ancestors[b]
        PROVE  a \in Ancestors[c] \/ c \in Ancestors[a]
    BY <2>1, <2>2, Zenon DEF Line
  <2> QED BY <2>1, <2>2, <2>3, <2>4, <2>5, Zenon DEF Line
<1>3. S = Blocks
  <2>1. S \in SUBSET Blocks
    BY Zenon
  <2> HIDE DEF S
  <2> QED BY <1>1, <1>2, <2>1, TreeInduction, Zenon
<1> QED BY <1>3, Zenon

(* The highest and the lowest block of a set.                              *)
LEMMA LowestFacts ==
    ASSUME NEW S \in SUBSET Blocks, S # {}
    PROVE  Lowest(S) \in S /\ \A c \in S : Height[Lowest(S)] <= Height[c]
<1> DEFINE T == {Height[c] : c \in S}
<1>1. T \subseteq Nat /\ T # {}
  BY HeightAssumption, Zenon
<1>2. PICK n \in T : \A m \in T : n <= m
  <2> HIDE DEF T
  <2> QED BY <1>1, NatMin, Zenon
<1>3. \E b \in S : \A c \in S : Height[b] <= Height[c]
  BY <1>2, Zenon
<1> QED BY <1>3, Zenon DEF Lowest

LEMMA HighestFacts ==
    ASSUME NEW b \in Blocks, NEW S \in SUBSET Ancestors[b], S # {}
    PROVE  Highest(S) \in S /\ \A c \in S : Height[c] <= Height[Highest(S)]
<1> DEFINE T == {Height[b] - Height[c] : c \in S}
<1>1. \A c \in S : c \in Blocks /\ Height[c] \in Nat /\ Height[b] \in Nat /\ Height[c] <= Height[b]
  BY TreeFacts, HeightAssumption DEF Line
<1>2. T \subseteq Nat /\ T # {}
  BY <1>1
<1>3. PICK n \in T : \A m \in T : n <= m
  <2> HIDE DEF T
  <2> QED BY <1>2, NatMin, Zenon
<1>4. PICK h \in S : n = Height[b] - Height[h]
  BY <1>3, Zenon
<1>5. ASSUME NEW c \in S PROVE Height[c] <= Height[h]
  <2>1. n <= Height[b] - Height[c]
    BY <1>3, Zenon
  <2> HIDE DEF T
  <2> QED BY <1>1, <1>4, <2>1
<1> QED BY <1>4, <1>5, Zenon DEF Highest

(* The blocks that a chain has in common with another one.                 *)
LEMMA CommonFacts ==
    ASSUME NEW a \in Blocks, NEW b \in Blocks
    PROVE  /\ CommonAncestor(a, b) \in Ancestors[a] \cap Ancestors[b]
           /\ CommonAncestor(a, b) \in Blocks
           /\ \A c \in Ancestors[a] \cap Ancestors[b] : Height[c] <= Height[CommonAncestor(a, b)]
<1>1. Ancestors[a] \cap Ancestors[b] \in SUBSET Ancestors[a] /\ Ancestors[a] \cap Ancestors[b] # {}
  BY TreeFacts, Zenon DEF Line
<1>2. /\ CommonAncestor(a, b) \in Ancestors[a] \cap Ancestors[b]
      /\ \A c \in Ancestors[a] \cap Ancestors[b] : Height[c] <= Height[CommonAncestor(a, b)]
  BY <1>1, HighestFacts, Zenon DEF CommonAncestor
<1> QED BY <1>2, AncestorsAssumption, Zenon

(* Blocks below two blocks of one line are in one line with them.          *)
LEMMA SameForkDown ==
    ASSUME NEW a \in Blocks, NEW b \in Blocks, AreOnTheSameFork(a, b), NEW c \in Ancestors[a]
    PROVE  AreOnTheSameFork(c, b) /\ AreOnTheSameFork(b, c)
BY TreeFacts, Zenon DEF Line, AreOnTheSameFork

LEMMA ParentFacts ==
    ASSUME NEW b \in Blocks \ {Genesis}
    PROVE  /\ Parent[b] \in Blocks /\ Parent[b] \in Ancestors[b] /\ b \notin Ancestors[Parent[b]]
           /\ Ancestors[b] = {b} \cup Ancestors[Parent[b]]
<1>1. Parent[b] \in Blocks /\ Ancestors[b] = {b} \cup Ancestors[Parent[b]]
      /\ Height[b] = Height[Parent[b]] + 1 /\ Height[Parent[b]] \in Nat
  BY TreeAssumption, AncestorsAssumption, HeightAssumption, Zenon
<1>2. Line(Parent[b])
  BY <1>1, TreeFacts, Zenon
<1> QED BY <1>1, <1>2 DEF Line

-----------------------------------------------------------------------------
(* The types of the variables, and what the locals of the two procedures   *)
(* are while they run.                                                     *)

Saved == [known : SUBSET Blocks, data : SUBSET Blocks, scripts : SUBSET Blocks,
          failed : SUBSET Blocks, failedParent : SUBSET Blocks,
          parked : SUBSET Blocks, parkedParent : SUBSET Blocks]
Calls == [pc : {"idle", "loop", "step", "released"}, mostWork : Hashes, start : Hashes,
          old : Hashes, fork : Hashes, connected : BOOLEAN]
Unwinds == [target : Hashes, mark : Hashes, invalidate : BOOLEAN, locked : BOOLEAN]

SetsOK ==
    /\ known \subseteq Blocks /\ data \subseteq Blocks /\ scripts \subseteq Blocks
    /\ failed \subseteq Blocks /\ failedParent \subseteq Blocks
    /\ parked \subseteq Blocks /\ parkedParent \subseteq Blocks
    /\ linked \subseteq Blocks /\ candidates \subseteq Blocks /\ unlinked \subseteq Blocks
    /\ failedBlocks \subseteq Blocks /\ dirty \subseteq Blocks
    /\ saved \in Saved

(* A step of ActivateBestChain goes to another block than the tip, and     *)
(* nobody disconnects the genesis block.                                   *)
CallsOK ==
    /\ tip \in Blocks /\ finalized \in Hashes /\ savedTip \in Hashes
    /\ pending \in BOOLEAN /\ abc \in Calls /\ unwind \in Unwinds
    /\ restarts \in 0 .. MaxRestarts /\ commands \in 0 .. MaxCommands
    /\ abc.pc = "idle" => abc = Idle
    /\ abc.pc = "step" => abc.mostWork \in Blocks \ {tip}
    /\ unwind # NoUnwind =>
          unwind.target \in Blocks \ {Genesis} /\ unwind.mark \in Blocks \ {Genesis}
    /\ unwind.locked => abc.pc \in {"idle", "released"}

(* The sequence numbers; finitely many blocks are stored.                  *)
SeqsOK ==
    /\ seq \in [Blocks -> Int] /\ nextSeq \in Nat /\ precious \in [next : Int, work : Nat]
    /\ IsFiniteSet(data) /\ IsFiniteSet(saved.data) /\ unlinked \subseteq data

LEMMA TypesGiveTypeOK ==
    ASSUME SetsOK, CallsOK, SeqsOK
    PROVE  TypeOK
BY DEF SetsOK, CallsOK, SeqsOK, TypeOK, Saved, Calls, Unwinds

LEMMA InitTypes == Init => SetsOK /\ CallsOK /\ SeqsOK
<1> SUFFICES ASSUME Init PROVE SetsOK /\ CallsOK /\ SeqsOK
  BY Zenon
<1>1. SetsOK
  BY ConfigAssumption, TreeAssumption, Zenon DEF Init, SetsOK, Saved, NothingSaved
<1>2. Idle \in Calls /\ Idle.pc = "idle" /\ NoUnwind \in Unwinds /\ NoUnwind.locked = FALSE
  BY Zenon DEF Calls, Unwinds, Idle, NoUnwind, Hashes
<1>3. CallsOK
  <2>1. 0 \in 0 .. MaxRestarts /\ 0 \in 0 .. MaxCommands
    BY ConfigAssumption
  <2>2. abc = Idle /\ unwind = NoUnwind /\ pending = FALSE /\ restarts = 0 /\ commands = 0
        /\ tip = Genesis /\ finalized = NullHash /\ savedTip = NullHash
    BY Zenon DEF Init
  <2> QED BY <1>2, <2>1, <2>2, TreeAssumption, Zenon DEF CallsOK, Hashes
<1>4. IsFiniteSet({}) /\ IsFiniteSet({Genesis}) /\ NothingSaved.data = {}
  BY FS_EmptySet, FS_Singleton, Zenon DEF NothingSaved
<1>5. SeqsOK
  BY <1>4 DEF Init, SeqsOK
<1> QED BY <1>1, <1>3, <1>5, Zenon

(* The block that is disconnected has a parent.                            *)
LEMMA DisconnectFacts ==
    ASSUME tip \in Blocks,
           (\E b \in Blocks : tip \notin Ancestors[b]) \/ (\E b \in Blocks \ {Genesis} : b \in Ancestors[tip])
    PROVE  tip \in Blocks \ {Genesis} /\ Parent[tip] \in Blocks
<1>1. tip # Genesis
  BY TreeFacts, AncestorsAssumption, Zenon DEF Line
<1> QED BY <1>1, TreeAssumption, Zenon

(* The block that is connected is the child of the tip.                    *)
LEMMA NextFacts ==
    ASSUME tip \in Blocks, abc.mostWork \in Blocks \ {tip}, tip \in Ancestors[abc.mostWork]
    PROVE  /\ NextToConnect \in Blocks \ {Genesis} /\ NextToConnect \in Ancestors[abc.mostWork]
           /\ Parent[NextToConnect] = tip
<1>1. \E c \in Ancestors[abc.mostWork] : c # Genesis /\ Parent[c] = tip
  BY TreeFacts, Zenon DEF Line
<1>2. /\ NextToConnect \in Ancestors[abc.mostWork]
      /\ NextToConnect # Genesis /\ Parent[NextToConnect] = tip
  BY <1>1, Zenon DEF NextToConnect
<1> QED BY <1>2, AncestorsAssumption, Zenon

LEMMA EndStepFacts ==
    ASSUME abc \in Calls, NEW t, NEW m \in Hashes
    PROVE  /\ EndStep(t, m) \in Calls /\ EndStep(t, m).pc \in {"idle", "loop", "released"}
           /\ EndStep(t, m).pc = "idle" => EndStep(t, m) = Idle
           /\ EndStep(t, m).mostWork \in {m, NullHash}
BY Zenon DEF EndStep, AfterStep, Calls, Idle, Hashes

LEMMA UnparkedFacts ==
    ASSUME NEW b, NEW children \in BOOLEAN
    PROVE  /\ Unparked(b, children).parked \subseteq parked
           /\ Unparked(b, children).parkedParent \subseteq parkedParent
           /\ Unparked(b, children).changed \subseteq parked \cup parkedParent
           /\ NotUnparked.parked = parked /\ NotUnparked.parkedParent = parkedParent
           /\ NotUnparked.changed = {}
BY Zenon DEF Unparked, NotUnparked, ClearedOwn, ClearedParents

(* FindMostWorkChain with names for its locals.                            *)
BadFor(new) == failed \cup failedParent \cup (IF ConflictsWithFinalized(new) THEN {new} ELSE {})
Path(new)   == Ancestors[new] \ Ancestors[tip]
Enough(new) == AutomaticUnparking /\ Work[new] > RequiredWork(new)
StopsOf(new) == Stops(Path(new), BadFor(new), Enough(new))
Walked(new, test) ==
    IF test = NullHash THEN Path(new) ELSE {b \in Path(new) : Height[b] >= Height[test]}
Above(new, test) == IF test = NullHash THEN {} ELSE Walked(new, test) \ {test}
Frees(new, test) ==
    IF Enough(new) THEN {b \in Walked(new, test) : isOnParkedChain(b)} ELSE {}
Freed(new, test) ==
    IF Frees(new, test) = {} THEN NotUnparked ELSE Unparked(Highest(Frees(new, test)), FALSE)
Cands(new, test) == candidates \cup Returning(Freed(new, test).changed, BadFor(new), seq)

Finds(new, test) ==
    /\ \A c \in candidates : ~Worse(new, c)
    /\ test = IF StopsOf(new) = {} THEN NullHash ELSE Highest(StopsOf(new))
    /\ failed' = IF ConflictsWithFinalized(new) THEN failed \cup {new} ELSE failed
    /\ failedParent' = IF test \in BadFor(new) THEN failedParent \cup Above(new, test) ELSE failedParent
    /\ parked' = Freed(new, test).parked
    /\ parkedParent' = IF test # NullHash /\ ~Enough(new) /\ isOnParkedChain(test)
                       THEN Freed(new, test).parkedParent \cup Above(new, test)
                       ELSE Freed(new, test).parkedParent
    /\ failedBlocks' = failedBlocks \ Healed(Freed(new, test).changed, BadFor(new))
    /\ candidates' = IF test = NullHash THEN Cands(new, test) ELSE Cands(new, test) \ Walked(new, test)
    /\ dirty' = dirty \cup Freed(new, test).changed
    /\ abc' = IF test = NullHash THEN [abc EXCEPT !.mostWork = new] ELSE abc

LEMMA FindMostWorkFacts ==
    ASSUME FindMostWorkChain
    PROVE  /\ abc.pc = "loop" /\ abc.mostWork = NullHash
           /\ UNCHANGED <<have, scripts, seqs, finalized, tip, disk, pending, unwind, commands>>
           /\ \E new \in candidates, test \in Hashes : Finds(new, test)
BY Zenon DEF FindMostWorkChain, Finds, BadFor, Path, Enough, StopsOf, Walked, Above, Frees, Freed,
       Cands, Hashes

(* What it marks, frees and puts back.                                     *)
LEMMA FindsFacts ==
    ASSUME SetsOK, CallsOK, NEW new \in candidates, NEW test \in Hashes, Finds(new, test)
    PROVE  /\ new \in Blocks /\ Path(new) \subseteq Ancestors[new]
           /\ test # NullHash => test \in StopsOf(new) /\ test \in Path(new)
           /\ test = NullHash => StopsOf(new) = {}
           /\ Above(new, test) \subseteq Path(new)
           /\ Freed(new, test).parked \subseteq parked
           /\ Freed(new, test).parkedParent \subseteq parkedParent
           /\ Freed(new, test).changed \subseteq parked \cup parkedParent
           /\ Cands(new, test) \subseteq candidates \cup (data \cap linked)
<1>1. new \in Blocks /\ Path(new) \subseteq Ancestors[new]
  BY Zenon DEF SetsOK, Path
<1>2. StopsOf(new) \subseteq Path(new)
  BY Zenon DEF StopsOf, Stops
<1>3. IF StopsOf(new) = {} THEN test = NullHash ELSE test \in StopsOf(new) /\ test \in Blocks
  <2>1. StopsOf(new) # {} => Highest(StopsOf(new)) \in StopsOf(new)
    BY <1>1, <1>2, HighestFacts, Zenon
  <2> QED BY <1>1, <1>2, <2>1, AncestorsAssumption, Zenon DEF Finds
<1>4. Above(new, test) \subseteq Path(new)
  BY Zenon DEF Above, Walked
<1>5. /\ Freed(new, test).parked \subseteq parked
      /\ Freed(new, test).parkedParent \subseteq parkedParent
      /\ Freed(new, test).changed \subseteq parked \cup parkedParent
  BY UnparkedFacts, Zenon DEF Freed
<1>6. Cands(new, test) \subseteq candidates \cup (data \cap linked)
  BY Zenon DEF Cands, Returning, Healed
<1> QED BY <1>1, <1>2, <1>3, <1>4, <1>5, <1>6, TreeAssumption, Zenon

LEMMA SetsStep == SetsOK /\ CallsOK /\ [Next]_vars => SetsOK'
<1> SUFFICES ASSUME SetsOK, CallsOK, [Next]_vars PROVE SetsOK'
  BY Zenon
<1> USE DEF have, fails, parks, seqs, disk
<1>1. CASE UNCHANGED vars
  BY <1>1, Zenon DEF vars, SetsOK
<1>2. ASSUME NEW b \in Blocks \ {Genesis}, AcceptBlockHeader(b) PROVE SetsOK'
  <2>1. Parent[b] \in Blocks /\ Ancestors[Parent[b]] \subseteq Blocks
    BY TreeAssumption, AncestorsAssumption, Zenon
  <2> QED BY <1>2, <2>1, Zenon DEF AcceptBlockHeader, SetsOK
<1>3. ASSUME NEW b \in Blocks \ {Genesis}, AcceptBlock(b) PROVE SetsOK'
  <2>1. Links(b) \subseteq Blocks /\ Waits(b) \subseteq {b}
    BY Zenon DEF Links, Descendants, Waits
  <2>2. CASE b \in BadContext
    BY <1>3, <2>2, Zenon DEF AcceptBlock, SetsOK
  <2>3. CASE b \notin BadContext
    BY <1>3, <2>1, <2>3, Zenon DEF AcceptBlock, ReceivedBlockTransactions, SetsOK
  <2> QED BY <2>2, <2>3, Zenon
<1>4. ASSUME Enter \/ Resume \/ Break \/ BeginStep \/ StepDisconnect PROVE SetsOK'
  BY <1>4, Zenon DEF Enter, Resume, Break, BeginStep, StepDisconnect, SetsOK
<1>5. ASSUME FindMostWorkChain PROVE SetsOK'
  <2>1. PICK new \in candidates, test \in Hashes : Finds(new, test)
    BY <1>5, FindMostWorkFacts, Zenon
  <2>2. Path(new) \subseteq Blocks /\ Above(new, test) \subseteq Blocks
    BY <2>1, FindsFacts, AncestorsAssumption, Zenon
  <2>3. UNCHANGED <<known, data, linked, unlinked, scripts, saved>>
    BY <1>5, FindMostWorkFacts, Zenon
  <2> QED BY <2>1, <2>2, <2>3, FindsFacts, Zenon DEF Finds, SetsOK
<1>6. ASSUME ConnectInvalid PROVE SetsOK'
  <2>1. NextToConnect \in Blocks
    BY <1>6, NextFacts, Zenon DEF ConnectInvalid, CallsOK
  <2> QED BY <1>6, <2>1, Zenon DEF ConnectInvalid, SetsOK, InvalidBlockFound
<1>7. ASSUME NEW q \in Hashes, ConnectTip(q) \/ ConnectUnfinalizable(q) PROVE SetsOK'
  <2>1. NextToConnect \in Blocks
    BY <1>7, NextFacts, Zenon DEF ConnectTip, ConnectUnfinalizable, CallsOK
  <2> QED BY <1>7, <2>1, Zenon DEF ConnectTip, ConnectUnfinalizable, ConnectBlock, SetsOK,
                            PruneBlockIndexCandidates
<1>8. ASSUME UnwindTip PROVE SetsOK'
  <2>1. Parent[tip] \in Blocks /\ tip \in Blocks
    BY <1>8, DisconnectFacts, Zenon DEF UnwindTip, CallsOK
  <2> QED BY <1>8, <2>1, Zenon DEF UnwindTip, SetsOK, UnwindOwn, UnwindParents, Demoted
<1>9. ASSUME EndUnwind PROVE SetsOK'
  BY <1>9, Zenon DEF EndUnwind, SetsOK, CallsOK, CandidatesAgain
<1>10. ASSUME NEW b \in Blocks, PreciousBlock(b) PROVE SetsOK'
  BY <1>10, UnparkedFacts, Zenon DEF PreciousBlock, SetsOK, Returning, Healed
<1>11. ASSUME NEW b \in Blocks, FinalizeBlock(b) PROVE SetsOK'
  BY <1>11, UnparkedFacts, Zenon DEF FinalizeBlock, SetsOK, Returning, Healed
<1>12. ASSUME NEW b \in Blocks, ResetBlockFailureFlags(b) PROVE SetsOK'
  BY <1>12, Zenon DEF ResetBlockFailureFlags, SetsOK, Returning, Healed, ClearedOwn, ClearedParents
<1>13. ASSUME NEW b \in Blocks, UnparkBlockAndChildren(b) PROVE SetsOK'
  BY <1>13, UnparkedFacts, Zenon DEF UnparkBlockAndChildren, SetsOK, Returning, Healed
<1>14. ASSUME NEW b \in Blocks, NEW inv \in BOOLEAN, BeginUnwind(b, inv) PROVE SetsOK'
  BY <1>14, Zenon DEF BeginUnwind, SetsOK
<1>15. ASSUME Restart PROVE SetsOK'
  BY <1>15, Zenon DEF Restart, SetsOK, Saved, LoadLinked, LoadUnlinked, LoadCandidates
<1>16. ASSUME NEW coins \in BOOLEAN, FlushStateToDisk(coins) PROVE SetsOK'
  BY <1>16, Zenon DEF FlushStateToDisk, SetsOK, Saved, Written
<1> QED
  BY <1>1, <1>2, <1>3, <1>4, <1>5, <1>6, <1>7, <1>8, <1>9, <1>10, <1>11, <1>12, <1>13, <1>14,
     <1>15, <1>16, Zenon
  DEF Next, Network, ActivateBestChain, UnwindBlock, Command, Disk, Hashes

(* What a command of the operator finds.                                   *)
LEMMA CommandFacts ==
    ASSUME CallsOK, NEW name, CommandStarts(name)
    PROVE  /\ commands' \in 0 .. MaxCommands /\ ~unwind.locked
           /\ abc.pc \in {"idle", "released"} /\ name \in Commands
           /\ ~Concurrent => Quiet /\ ~pending
BY ConfigAssumption DEF CallsOK, CommandStarts, OtherThread, CsMainFree

(* FinalizeBlock unwinds the active chain from the block above the fork.   *)
LEMMA ForkChildFacts ==
    ASSUME tip \in Blocks, NEW b \in Blocks, ~AreOnTheSameFork(b, tip),
           NEW next, next = CHOOSE c \in Ancestors[tip] : Height[c] = Height[FindFork(b)] + 1
    PROVE  /\ next \in Blocks \ {Genesis} /\ next \in Ancestors[tip]
           /\ Parent[next] = FindFork(b) /\ FindFork(b) \in Ancestors[b]
<1> DEFINE fork == FindFork(b)
<1>1. fork \in Ancestors[b] /\ fork \in Ancestors[tip] /\ fork \in Blocks
  BY CommonFacts, Zenon DEF FindFork
<1>2. fork # tip
  BY <1>1, Zenon DEF AreOnTheSameFork
<1> HIDE DEF fork
<1>3. PICK c \in Ancestors[tip] \ {Genesis} : Parent[c] = fork
  BY <1>1, <1>2, TreeFacts, Zenon DEF Line
<1>4. \A d \in Blocks : Height[d] \in Nat
  BY HeightAssumption, Zenon
<1>5. c \in Blocks /\ Height[c] = Height[fork] + 1
  BY <1>3, AncestorsAssumption, HeightAssumption, Zenon
<1>6. next \in Ancestors[tip] /\ Height[next] = Height[fork] + 1
  <2>1. next = CHOOSE d \in Ancestors[tip] : Height[d] = Height[fork] + 1
    BY Zenon DEF fork
  <2> QED BY <1>3, <1>5, <2>1, Zenon
<1>7. next = c
  <2>1. next \in Blocks /\ Line(next) /\ Line(c)
    BY <1>5, <1>6, AncestorsAssumption, TreeFacts, Zenon
  <2>2. next \in Ancestors[c] \/ c \in Ancestors[next]
    BY <1>3, <1>6, TreeFacts, Zenon DEF Line
  <2> QED BY <1>4, <1>5, <1>6, <2>1, <2>2 DEF Line
<1> QED BY <1>1, <1>3, <1>5, <1>7, Zenon DEF fork

LEMMA CallsStep == SetsOK /\ CallsOK /\ [Next]_vars => CallsOK'
<1> SUFFICES ASSUME SetsOK, CallsOK, [Next]_vars PROVE CallsOK'
  BY Zenon
<1> USE DEF have, fails, parks, seqs, disk
<1>1. CASE UNCHANGED vars
  BY <1>1, Zenon DEF vars, CallsOK
<1>2. ASSUME NEW b \in Blocks \ {Genesis}, AcceptBlockHeader(b) PROVE CallsOK'
  BY <1>2, Zenon DEF AcceptBlockHeader, CallsOK
<1>3. ASSUME NEW b \in Blocks \ {Genesis}, AcceptBlock(b) PROVE CallsOK'
  BY <1>3, Zenon DEF AcceptBlock, CallsOK
<1>4. ASSUME Enter \/ Resume \/ Break \/ BeginStep PROVE CallsOK'
  <2>1. /\ UNCHANGED <<tip, finalized, savedTip, unwind, restarts, commands>>
        /\ pending' \in BOOLEAN
    BY <1>4, Zenon DEF Enter, Resume, Break, BeginStep, CallsOK
  <2>2. /\ abc' \in Calls /\ (abc'.pc = "idle" => abc' = Idle)
        /\ abc'.pc = "step" => abc'.mostWork \in Blocks \ {tip}
        /\ abc'.pc # abc.pc => CsMainFree \/ abc.pc = "loop"
    <3>1. CASE Enter
      BY <3>1, Zenon DEF Enter, CallsOK, Calls, Idle, Hashes
    <3>2. CASE Resume
      BY <3>2, Zenon DEF Resume, CallsOK, Calls, Hashes
    <3>3. CASE Break
      BY <3>3, Zenon DEF Break, CallsOK, Calls, Idle, Hashes
    <3>4. CASE BeginStep
      <4>1. abc.mostWork \in Blocks \ {tip} /\ FindFork(abc.mostWork) \in Blocks
        BY <3>4, CommonFacts, Zenon DEF BeginStep, CallsOK, Calls, Hashes, FindFork
      <4> QED BY <3>4, <4>1, Zenon DEF BeginStep, CallsOK, Calls, Hashes
    <3> QED BY <1>4, <3>1, <3>2, <3>3, <3>4, Zenon
  <2>3. unwind.locked => abc'.pc \in {"idle", "released"}
    BY <1>4, Zenon DEF CallsOK, CsMainFree, Enter, Resume, Break, BeginStep, Idle
  <2> QED BY <2>1, <2>2, <2>3, Zenon DEF CallsOK
<1>5. ASSUME FindMostWorkChain PROVE CallsOK'
  <2>1. PICK new \in candidates, test \in Hashes : Finds(new, test)
    BY <1>5, FindMostWorkFacts, Zenon
  <2>2. /\ UNCHANGED <<tip, finalized, savedTip, restarts, pending, unwind, commands>>
        /\ abc.pc = "loop"
    BY <1>5, FindMostWorkFacts, Zenon
  <2>3. abc' \in Calls /\ abc'.pc = "loop"
    BY <2>1, <2>2, Zenon DEF Finds, SetsOK, CallsOK, Calls, Hashes
  <2> QED BY <2>2, <2>3, Zenon DEF CallsOK
<1>6. ASSUME StepDisconnect PROVE CallsOK'
  <2>1. /\ abc.mostWork \in Blocks \ {tip} /\ Parent[tip] \in Blocks /\ abc.pc = "step"
        /\ UNCHANGED <<savedTip, restarts, pending, unwind, commands>> /\ ~unwind.locked
    BY <1>6, DisconnectFacts, Zenon DEF StepDisconnect, CallsOK
  <2>2. tip' = Parent[tip] /\ finalized' \in Hashes
    BY <1>6, <2>1, Zenon DEF StepDisconnect, DisconnectTip, CallsOK, Hashes
  <2>3. CASE Parent[tip] = abc.mostWork
    BY <1>6, <2>1, <2>2, <2>3, EndStepFacts, Zenon DEF StepDisconnect, CallsOK, Hashes
  <2>4. CASE Parent[tip] # abc.mostWork
    BY <1>6, <2>1, <2>2, <2>4, Zenon DEF StepDisconnect, CallsOK, Hashes
  <2> QED BY <2>3, <2>4, Zenon
<1>7. ASSUME ConnectInvalid PROVE CallsOK'
  <2>1. /\ NextToConnect \in Blocks \ {Genesis} /\ abc.pc = "step" /\ ~unwind.locked
        /\ UNCHANGED <<tip, savedTip, restarts, pending, unwind, commands>>
        /\ abc' = EndStep(tip, NullHash)
    BY <1>7, NextFacts, Zenon DEF ConnectInvalid, CallsOK
  <2>2. \A f \in Hashes : \A c : MoveBack(f, c) \in Hashes
    BY TreeAssumption, AncestorsAssumption, Zenon DEF MoveBack, IsBlockFinalized, Hashes
  <2>3. finalized' \in Hashes
    BY <1>7, <2>2, Zenon DEF ConnectInvalid, CallsOK
  <2> QED BY <2>1, <2>3, EndStepFacts, Zenon DEF CallsOK, Hashes
<1>8. ASSUME NEW q \in Hashes, ConnectTip(q) PROVE CallsOK'
  <2>1. /\ NextToConnect \in Blocks \ {Genesis} /\ abc.pc = "step" /\ ~unwind.locked
        /\ UNCHANGED <<savedTip, restarts, pending, unwind, commands>>
        /\ tip' = NextToConnect /\ abc.mostWork \in Blocks
    BY <1>8, NextFacts, Zenon DEF ConnectTip, CallsOK
  <2>2. finalized' \in Hashes
    BY <1>8, Zenon DEF ConnectTip, CallsOK, Finalized
  <2>3. abc' = EndStep(tip', abc.mostWork) \/ (abc' = abc /\ tip' # abc.mostWork)
    BY <1>8, <2>1, Zenon DEF ConnectTip
  <2>4. CASE abc' = abc /\ tip' # abc.mostWork
    BY <2>1, <2>2, <2>4, Zenon DEF CallsOK, Hashes
  <2>5. CASE abc' = EndStep(tip', abc.mostWork)
    BY <2>1, <2>2, <2>5, EndStepFacts, Zenon DEF CallsOK, Hashes
  <2> QED BY <2>3, <2>4, <2>5, Zenon
<1>9. ASSUME NEW q \in Hashes, ConnectUnfinalizable(q) PROVE CallsOK'
  <2>1. /\ abc.pc = "step" /\ ~unwind.locked /\ abc' = EndStep(tip, NullHash)
        /\ UNCHANGED <<tip, finalized, savedTip, restarts, pending, unwind, commands>>
    BY <1>9, Zenon DEF ConnectUnfinalizable, CallsOK
  <2> QED BY <2>1, EndStepFacts, Zenon DEF CallsOK, Hashes
<1>10. ASSUME UnwindTip PROVE CallsOK'
  <2>1. /\ tip \in Blocks \ {Genesis} /\ Parent[tip] \in Blocks /\ tip' = Parent[tip]
        /\ UNCHANGED <<savedTip, restarts, pending, abc, commands>>
        /\ abc.pc \in {"idle", "released"}
    BY <1>10, DisconnectFacts, Zenon DEF UnwindTip, DisconnectTip, CallsOK
  <2>2. finalized' \in Hashes
    BY <1>10, <2>1, Zenon DEF UnwindTip, DisconnectTip, CallsOK, Hashes
  <2>3. /\ unwind' \in Unwinds /\ unwind'.mark = tip /\ unwind'.target = unwind.target
        /\ unwind # NoUnwind
    BY <1>10, <2>1, Zenon DEF UnwindTip, CallsOK, Unwinds, Hashes
  <2> QED BY <2>1, <2>2, <2>3, Zenon DEF CallsOK
<1>11. ASSUME EndUnwind PROVE CallsOK'
  <2>1. /\ UNCHANGED <<tip, savedTip, restarts, abc, commands>>
        /\ unwind' = NoUnwind /\ pending' = TRUE
    BY <1>11, Zenon DEF EndUnwind
  <2>2. finalized' = finalized \/ finalized' = MoveBack(finalized, unwind.mark)
    BY <1>11, Zenon DEF EndUnwind
  <2>3. finalized' \in Hashes
    BY <2>2, TreeAssumption, AncestorsAssumption DEF MoveBack, IsBlockFinalized, Hashes, CallsOK
  <2>4. NoUnwind \in Unwinds /\ NoUnwind.locked = FALSE
    BY Zenon DEF Unwinds, NoUnwind, Hashes
  <2> QED BY <2>1, <2>3, <2>4, Zenon DEF CallsOK
<1>12. ASSUME NEW b \in Blocks, PreciousBlock(b) \/ UnparkBlockAndChildren(b) PROVE CallsOK'
  <2>1. /\ UNCHANGED <<tip, finalized, savedTip, restarts, abc, unwind>> /\ pending' = TRUE
        /\ \E name : CommandStarts(name)
    BY <1>12, Zenon DEF PreciousBlock, UnparkBlockAndChildren
  <2>2. commands' \in 0 .. MaxCommands
    BY <2>1, CommandFacts, Zenon
  <2> QED BY <2>1, <2>2, Zenon DEF CallsOK
<1>13. ASSUME NEW b \in Blocks, FinalizeBlock(b) PROVE CallsOK'
  <2>1. /\ UNCHANGED <<tip, savedTip, restarts, abc>> /\ CommandStarts("finalize")
    BY <1>13, Zenon DEF FinalizeBlock
  <2>2. finalized' \in Hashes
    BY <1>13, Zenon DEF FinalizeBlock, CallsOK, Finalized, Hashes
  <2>3. commands' \in 0 .. MaxCommands /\ abc.pc \in {"idle", "released"}
    BY <2>1, CommandFacts, Zenon
  <2>4. CASE AreOnTheSameFork(b, tip)
    BY <1>13, <2>1, <2>2, <2>3, <2>4, Zenon DEF FinalizeBlock, CallsOK
  <2>5. CASE ~AreOnTheSameFork(b, tip)
    <3> DEFINE next == CHOOSE c \in Ancestors[tip] : Height[c] = Height[FindFork(b)] + 1
    <3>1. next \in Blocks \ {Genesis}
      BY <2>5, ForkChildFacts, Zenon DEF CallsOK
    <3>2. unwind' = [target |-> next, mark |-> next, invalidate |-> TRUE, locked |-> TRUE]
          /\ pending' = pending
      BY <1>13, <2>5, Zenon DEF FinalizeBlock
    <3> HIDE DEF next
    <3> QED BY <2>1, <2>2, <2>3, <3>1, <3>2, Zenon DEF CallsOK, Unwinds, Hashes
  <2> QED BY <2>4, <2>5, Zenon
<1>14. ASSUME NEW b \in Blocks, ResetBlockFailureFlags(b) PROVE CallsOK'
  <2>1. /\ UNCHANGED <<tip, savedTip, restarts, abc, unwind>> /\ pending' = TRUE
        /\ CommandStarts("reconsider")
        /\ finalized' = IF finalized = NullHash THEN NullHash ELSE CommonAncestor(b, finalized)
    BY <1>14, Zenon DEF ResetBlockFailureFlags
  <2>2. commands' \in 0 .. MaxCommands
    BY <2>1, CommandFacts, Zenon
  <2>3. finalized' \in Hashes
    BY <2>1, CommonFacts, Zenon DEF CallsOK, Hashes
  <2> QED BY <2>1, <2>2, <2>3, Zenon DEF CallsOK
<1>15. ASSUME NEW b \in Blocks, NEW inv \in BOOLEAN, BeginUnwind(b, inv) PROVE CallsOK'
  <2>1. /\ UNCHANGED <<tip, finalized, savedTip, restarts, pending, abc>> /\ b # Genesis
        /\ unwind' = [target |-> b, mark |-> b, invalidate |-> inv, locked |-> FALSE]
        /\ \E name : CommandStarts(name)
    BY <1>15, Zenon DEF BeginUnwind
  <2>2. commands' \in 0 .. MaxCommands
    BY <2>1, CommandFacts, Zenon
  <2> QED BY <2>1, <2>2, Zenon DEF CallsOK, Unwinds, Hashes
<1>16. ASSUME Restart PROVE CallsOK'
  <2>1. /\ tip' = savedTip /\ savedTip # NullHash /\ finalized' = NullHash
        /\ abc' = Idle /\ unwind' = NoUnwind /\ pending' = TRUE
        /\ restarts' = restarts + 1 /\ restarts < MaxRestarts /\ UNCHANGED <<savedTip, commands>>
    BY <1>16, Zenon DEF Restart
  <2>2. restarts' \in 0 .. MaxRestarts
    BY <2>1, ConfigAssumption DEF CallsOK
  <2>3. Idle \in Calls /\ Idle.pc = "idle" /\ NoUnwind \in Unwinds /\ NoUnwind.locked = FALSE
    BY Zenon DEF Calls, Unwinds, Idle, NoUnwind, Hashes
  <2> QED BY <2>1, <2>2, <2>3, Zenon DEF CallsOK, Hashes
<1>17. ASSUME NEW coins \in BOOLEAN, FlushStateToDisk(coins) PROVE CallsOK'
  BY <1>17, Zenon DEF FlushStateToDisk, CallsOK, Hashes
<1> QED
  BY <1>1, <1>2, <1>3, <1>4, <1>5, <1>6, <1>7, <1>8, <1>9, <1>10, <1>11, <1>12, <1>13, <1>14,
     <1>15, <1>16, <1>17, Zenon
  DEF Next, Network, ActivateBestChain, UnwindBlock, Command, Disk, Hashes

(* The blocks that one block links were stored before, or are that block.  *)
LEMMA LinksFacts ==
    ASSUME NEW b \in Blocks
    PROVE  /\ Links(b) \subseteq {b} \cup unlinked
           /\ \A c \in Links(b) : c \in Blocks /\ b \in Ancestors[c]
                                    /\ Ancestors[c] \subseteq Ancestors[b] \cup unlinked
<1>1. ASSUME NEW c \in Links(b), c # b PROVE c \in unlinked
  <2>1. c \in Blocks /\ b \in Ancestors[c] /\ Ancestors[c] \ Ancestors[b] \subseteq unlinked
    BY Zenon DEF Links, Descendants
  <2>2. Height[b] < Height[c] /\ Height[b] \in Nat /\ Height[c] \in Nat
    BY <1>1, <2>1, TreeFacts, HeightAssumption, Zenon DEF Line
  <2>3. c \in Ancestors[c] /\ c \notin Ancestors[b]
    BY <2>1, <2>2, TreeFacts DEF Line
  <2> QED BY <2>1, <2>3, Zenon
<1> QED BY <1>1, Zenon DEF Links, Descendants

LEMMA SeqsStep == SetsOK /\ CallsOK /\ SeqsOK /\ [Next]_vars => SeqsOK'
<1> SUFFICES ASSUME SetsOK, CallsOK, SeqsOK, [Next]_vars PROVE SeqsOK'
  BY Zenon
<1> USE DEF have, fails, parks, seqs, disk
<1>1. CASE UNCHANGED vars
  BY <1>1, Zenon DEF vars, SeqsOK
<1>2. ASSUME NEW b \in Blocks \ {Genesis}, AcceptBlockHeader(b) PROVE SeqsOK'
  BY <1>2, Zenon DEF AcceptBlockHeader, SeqsOK
<1>3. ASSUME NEW b \in Blocks \ {Genesis}, AcceptBlock(b) PROVE SeqsOK'
  <2>1. UNCHANGED <<saved, precious>>
    BY <1>3, Zenon DEF AcceptBlock
  <2>2. CASE b \in BadContext
    BY <1>3, <2>1, <2>2, Zenon DEF AcceptBlock, SeqsOK
  <2>3. CASE b \notin BadContext
    <3>1. ReceivedBlockTransactions(b)
      BY <1>3, <2>3, Zenon DEF AcceptBlock
    <3>2. data' = data \cup {b} /\ IsFiniteSet(data')
      BY <3>1, FS_AddElement, Zenon DEF ReceivedBlockTransactions, SeqsOK
    <3>3. unlinked' \subseteq data'
      BY <3>1, <3>2, Zenon DEF ReceivedBlockTransactions, Waits, SeqsOK
    <3>4. seq' \in [Blocks -> Int] /\ nextSeq' \in Nat
      <4>1. CASE Parent[b] \notin linked
        BY <3>1, <4>1, Zenon DEF ReceivedBlockTransactions, SeqsOK
      <4>2. CASE Parent[b] \in linked
        <5> DEFINE fresh == {c \in Links(b) : seq[c] = 0}
        <5>1. fresh \subseteq data'
          BY <3>2, LinksFacts, Zenon DEF SeqsOK
        <5>2. IsFiniteSet(fresh)
          BY <3>2, <5>1, FS_Subset, Zenon
        <5>3. Cardinality(fresh) \in Nat
          BY <5>2, FS_CardinalityType, Zenon
        <5>4. /\ nextSeq' = nextSeq + Cardinality(fresh)
              /\ \E r \in Orders(fresh) :
                    seq' = [c \in Blocks |-> IF c \in fresh THEN nextSeq + r[c] ELSE seq[c]]
          BY <3>1, <4>2, Zenon DEF ReceivedBlockTransactions
        <5> HIDE DEF fresh
        <5>5. PICK r \in [fresh -> 0 .. Cardinality(fresh) - 1] :
                    seq' = [c \in Blocks |-> IF c \in fresh THEN nextSeq + r[c] ELSE seq[c]]
          BY <5>4, Zenon DEF Orders
        <5> QED BY <5>3, <5>4, <5>5 DEF SeqsOK
      <4> QED BY <4>1, <4>2, Zenon
    <3> QED BY <2>1, <3>2, <3>3, <3>4, Zenon DEF SeqsOK
  <2> QED BY <2>2, <2>3, Zenon
<1>4. ASSUME Enter \/ Resume \/ Break \/ BeginStep \/ StepDisconnect \/ ConnectInvalid
      PROVE  SeqsOK'
  BY <1>4, Zenon DEF Enter, Resume, Break, BeginStep, StepDisconnect, ConnectInvalid, SeqsOK
<1>5. ASSUME FindMostWorkChain PROVE SeqsOK'
  BY <1>5, Zenon DEF FindMostWorkChain, SeqsOK
<1>6. ASSUME NEW q \in Hashes, ConnectTip(q) \/ ConnectUnfinalizable(q) PROVE SeqsOK'
  BY <1>6, Zenon DEF ConnectTip, ConnectUnfinalizable, SeqsOK
<1>7. ASSUME UnwindTip \/ EndUnwind PROVE SeqsOK'
  BY <1>7, Zenon DEF UnwindTip, EndUnwind, SeqsOK
<1>8. ASSUME NEW b \in Blocks, PreciousBlock(b) PROVE SeqsOK'
  <2>1. UNCHANGED <<data, unlinked, saved, nextSeq>>
    BY <1>8, Zenon DEF PreciousBlock
  <2>2. seq' \in [Blocks -> Int] /\ precious' \in [next : Int, work : Nat]
    <3> DEFINE id == IF Work[tip] > precious.work THEN -1 ELSE precious.next
    <3>1. id \in Int /\ Work[tip] \in Nat
      BY WorkAssumption DEF SeqsOK, CallsOK
    <3>2. seq' = [seq EXCEPT ![b] = id] /\ precious' = [next |-> id - 1, work |-> Work[tip]]
      BY <1>8, Zenon DEF PreciousBlock
    <3> HIDE DEF id
    <3> QED BY <3>1, <3>2 DEF SeqsOK
  <2> QED BY <2>1, <2>2, Zenon DEF SeqsOK
<1>9. ASSUME NEW b \in Blocks,
             FinalizeBlock(b) \/ ResetBlockFailureFlags(b) \/ UnparkBlockAndChildren(b)
      PROVE  SeqsOK'
  BY <1>9, Zenon DEF FinalizeBlock, ResetBlockFailureFlags, UnparkBlockAndChildren, SeqsOK
<1>10. ASSUME NEW b \in Blocks, NEW inv \in BOOLEAN, BeginUnwind(b, inv) PROVE SeqsOK'
  BY <1>10, Zenon DEF BeginUnwind, SeqsOK
<1>11. ASSUME Restart PROVE SeqsOK'
  <2>1. /\ data' = saved.data /\ unlinked' = LoadUnlinked /\ saved' = saved
        /\ seq' = [b \in Blocks |-> 0] /\ nextSeq' = 1 /\ precious' = [next |-> -1, work |-> 0]
    BY <1>11, Zenon DEF Restart
  <2> QED BY <2>1 DEF SeqsOK, LoadUnlinked
<1>12. ASSUME NEW coins \in BOOLEAN, FlushStateToDisk(coins) PROVE SeqsOK'
  <2>1. UNCHANGED <<data, unlinked, seqs>> /\ saved'.data \subseteq saved.data \cup data
    BY <1>12, Zenon DEF FlushStateToDisk, Written
  <2>2. IsFiniteSet(saved.data \cup data)
    BY FS_Union, Zenon DEF SeqsOK
  <2>3. IsFiniteSet(saved'.data)
    BY <2>1, <2>2, FS_Subset, Zenon
  <2> QED BY <2>1, <2>3, Zenon DEF SeqsOK
<1> QED
  BY <1>1, <1>2, <1>3, <1>4, <1>5, <1>6, <1>7, <1>8, <1>9, <1>10, <1>11, <1>12, Zenon
  DEF Next, Network, ActivateBestChain, UnwindBlock, Command, Disk, Hashes

Types == SetsOK /\ CallsOK /\ SeqsOK

LEMMA TypesStep == Types /\ [Next]_vars => Types'
BY SetsStep, CallsStep, SeqsStep, Zenon DEF Types

(* The variables have their types, and a tip is only disconnected if it    *)
(* has a parent.                                                           *)
THEOREM ChainStateTypes == Spec => []TypeOK
<1>1. Init => Types
  BY InitTypes, Zenon DEF Types
<1>2. Types => TypeOK
  BY TypesGiveTypeOK, Zenon DEF Types
<1> QED BY <1>1, <1>2, TypesStep, PTL DEF Spec

-----------------------------------------------------------------------------
(* A block inherits a mark only from an ancestor, also while UnwindBlock   *)
(* runs.                                                                   *)

Inherited(own, parents) == \A b \in parents : Ancestors[b] \cap own # {}
Marks == Inherited(failed, failedParent) /\ Inherited(parked, parkedParent)

(* Of two ancestors of a block, the lower one is an ancestor of the other. *)
LEMMA LowerIsAncestor ==
    ASSUME NEW b \in Blocks, NEW a \in Ancestors[b], NEW c \in Ancestors[b], Height[a] <= Height[c]
    PROVE  a \in Ancestors[c]
<1>1. a \in Blocks /\ c \in Blocks /\ (a \in Ancestors[c] \/ c \in Ancestors[a])
  BY TreeFacts, Zenon DEF Line
<1>2. c \in Ancestors[a] => c = a \/ Height[c] < Height[a]
  BY <1>1, TreeFacts, Zenon DEF Line
<1> QED BY <1>1, <1>2, HeightAssumption

(* What UpdateFlags leaves: the deepest ancestor that loses a mark is an   *)
(* ancestor of every block that inherited one from a block that lost it.   *)
LEMMA ClearedInherited ==
    ASSUME NEW b \in Blocks, NEW own \in SUBSET Blocks, NEW parents \in SUBSET Blocks,
           NEW children \in BOOLEAN, Inherited(own, parents)
    PROVE  Inherited(ClearedOwn(b, own, children), ClearedParents(b, own, parents))
<1> DEFINE marked == Ancestors[b] \cap (own \cup parents)
           deep == Deepest(b, own \cup parents)
<1>1. deep \in Ancestors[b] /\ \A c \in marked : Height[deep] <= Height[c]
  <2>1. marked \in SUBSET Blocks
    BY Zenon
  <2>2. CASE marked = {}
    BY <2>2, TreeFacts, Zenon DEF Deepest, Line
  <2>3. CASE marked # {}
    BY <2>1, <2>3, LowestFacts, Zenon DEF Deepest
  <2> QED BY <2>2, <2>3, Zenon
<1>2. ASSUME NEW c \in ClearedParents(b, own, parents)
      PROVE  Ancestors[c] \cap ClearedOwn(b, own, children) # {}
  <2>1. c \in parents /\ c \in Blocks /\ deep \notin Ancestors[c]
    BY Zenon DEF ClearedParents, Descendants
  <2>2. PICK o \in own : o \in Ancestors[c]
    BY <2>1, Zenon DEF Inherited
  <2>3. o \notin Ancestors[b]
    <3>1. o \in Ancestors[b] => deep \in Ancestors[o]
      BY <1>1, LowerIsAncestor, Zenon
    <3> QED BY <2>1, <2>2, <3>1, TreeFacts, Zenon DEF Line
  <2>4. o \notin Descendants(b)
    BY <1>1, <2>1, <2>2, TreeFacts DEF Line, Descendants
  <2> QED BY <2>2, <2>3, <2>4, Zenon DEF ClearedOwn
<1> QED BY <1>2, Zenon DEF Inherited

(* What UnwindBlock leaves: a block gives its own mark to its parent.      *)
LEMMA UnwoundInherited ==
    ASSUME tip \in Blocks, unwind.mark \in Blocks \ {Genesis},
           NEW own \in SUBSET Blocks, NEW parents \in SUBSET Blocks, Inherited(own, parents)
    PROVE  Inherited(UnwindOwn(own), UnwindParents(own, parents))
<1>1. CASE Demoted(own) = {}
  BY <1>1, Zenon DEF Inherited, UnwindOwn, UnwindParents
<1>2. CASE Demoted(own) # {}
  <2>1. Demoted(own) = {unwind.mark} /\ tip = Parent[unwind.mark]
    BY <1>2, Zenon DEF Demoted
  <2>2. tip \in Ancestors[unwind.mark] /\ tip # unwind.mark
    BY <2>1, ParentFacts, TreeFacts, Zenon DEF Line
  <2>3. tip \in UnwindOwn(own)
    BY <2>1, <2>2, Zenon DEF UnwindOwn
  <2>4. ASSUME NEW c \in parents PROVE Ancestors[c] \cap UnwindOwn(own) # {}
    <3>1. PICK o \in own : o \in Ancestors[c]
      BY Zenon DEF Inherited
    <3>2. CASE o = unwind.mark
      BY <2>2, <2>3, <3>1, <3>2, TreeFacts DEF Line
    <3>3. CASE o # unwind.mark
      BY <2>1, <3>1, <3>3, Zenon DEF UnwindOwn
    <3> QED BY <3>2, <3>3, Zenon
  <2> QED BY <2>1, <2>2, <2>3, <2>4, Zenon DEF Inherited, UnwindParents
<1> QED BY <1>1, <1>2, Zenon

(* The blocks that FindMostWorkChain walks over are above the one where it *)
(* stops.                                                                  *)
LEMMA AboveFacts ==
    ASSUME SetsOK, CallsOK, NEW new \in candidates, NEW test \in Hashes, Finds(new, test),
           NEW c \in Above(new, test)
    PROVE  test \in Ancestors[c] /\ c \in Path(new) /\ test \in Blocks /\ c \in Blocks
<1>1. test # NullHash /\ c \in Path(new) /\ Height[c] >= Height[test]
  BY Zenon DEF Above, Walked
<1>2. test \in Path(new) /\ new \in Blocks
  BY <1>1, FindsFacts, Zenon
<1>3. test \in Ancestors[new] /\ c \in Ancestors[new] /\ test \in Blocks /\ c \in Blocks
  BY <1>1, <1>2, AncestorsAssumption, Zenon DEF Path
<1> QED BY <1>1, <1>2, <1>3, LowerIsAncestor, HeightAssumption, Zenon

LEMMA FindMarks ==
    ASSUME SetsOK, CallsOK, Marks, FindMostWorkChain
    PROVE  Marks'
<1>1. PICK new \in candidates, test \in Hashes : Finds(new, test)
  BY FindMostWorkFacts, Zenon
<1>2. ASSUME NEW b \in failedParent' PROVE Ancestors[b] \cap failed' # {}
  <2>1. failed \subseteq failed' /\ (ConflictsWithFinalized(new) => new \in failed')
    BY <1>1, Zenon DEF Finds
  <2>2. CASE b \in failedParent
    BY <2>1, <2>2, Zenon DEF Marks, Inherited
  <2>3. CASE b \notin failedParent
    <3>1. b \in Above(new, test) /\ test \in BadFor(new)
      BY <1>1, <2>3, Zenon DEF Finds
    <3>2. test \in Ancestors[b] /\ b \in Blocks /\ test \in Blocks
      BY <1>1, <3>1, AboveFacts, Zenon
    <3>3. CASE test \in failed'
      BY <3>2, <3>3, Zenon
    <3>4. CASE test \in failedParent
      BY <2>1, <3>2, <3>4, TreeFacts DEF Marks, Inherited, Line
    <3> QED BY <2>1, <3>1, <3>3, <3>4, Zenon DEF BadFor
  <2> QED BY <2>2, <2>3, Zenon
<1>3. CASE Frees(new, test) = {}
  <2>1. Freed(new, test) = NotUnparked
    BY <1>3, Zenon DEF Freed
  <2>2. parked' = parked
    BY <1>1, <2>1, UnparkedFacts, Zenon DEF Finds, NotUnparked
  <2>3. ASSUME NEW b \in parkedParent' PROVE Ancestors[b] \cap parked # {}
    <3>1. CASE b \in parkedParent
      BY <3>1, Zenon DEF Marks, Inherited
    <3>2. CASE b \notin parkedParent
      <4>1. b \in Above(new, test) /\ isOnParkedChain(test)
        BY <1>1, <2>1, <3>2 DEF Finds, NotUnparked
      <4>2. test \in Ancestors[b] /\ b \in Blocks
        BY <1>1, <4>1, AboveFacts, Zenon
      <4> QED BY <4>1, <4>2, TreeFacts DEF Marks, Inherited, isOnParkedChain, Line
    <3> QED BY <3>1, <3>2, Zenon
  <2> QED BY <1>2, <2>2, <2>3, Zenon DEF Marks, Inherited
<1>4. CASE Frees(new, test) # {}
  <2> DEFINE h == Highest(Frees(new, test))
  <2>1. Enough(new) /\ Frees(new, test) \subseteq Ancestors[new] /\ new \in Blocks
    BY <1>1, <1>4, FindsFacts, Zenon DEF Frees, Walked
  <2>2. h \in Blocks
    BY <1>4, <2>1, HighestFacts, AncestorsAssumption, Zenon
  <2>3. /\ parked' = ClearedOwn(h, parked, FALSE)
        /\ parkedParent' = ClearedParents(h, parked, parkedParent)
    BY <1>1, <1>4, <2>1, Zenon DEF Finds, Freed, Unparked
  <2>4. parked \in SUBSET Blocks /\ parkedParent \in SUBSET Blocks
    BY Zenon DEF SetsOK
  <2> HIDE DEF h
  <2>5. Inherited(parked', parkedParent')
    BY <2>2, <2>3, <2>4, ClearedInherited, Zenon DEF Marks
  <2> QED BY <1>2, <2>5, Zenon DEF Marks, Inherited
<1> QED BY <1>3, <1>4, Zenon

(* UnparkBlockImpl.                                                        *)
LEMMA UnparkedInherited ==
    ASSUME SetsOK, Marks, NEW b \in Blocks, NEW children \in BOOLEAN
    PROVE  Inherited(Unparked(b, children).parked, Unparked(b, children).parkedParent)
<1>1. parked \in SUBSET Blocks /\ parkedParent \in SUBSET Blocks
  BY Zenon DEF SetsOK
<1>2. /\ Unparked(b, children).parked = ClearedOwn(b, parked, children)
      /\ Unparked(b, children).parkedParent = ClearedParents(b, parked, parkedParent)
  BY Zenon DEF Unparked
<1> QED BY <1>1, <1>2, ClearedInherited, Zenon DEF Marks

LEMMA MarksStep ==
    ASSUME SetsOK, CallsOK, Marks, FailedBlocksFailed, MaxRestarts = 0, [Next]_vars
    PROVE  Marks'
<1> USE DEF have, fails, parks, seqs, disk
<1>0. /\ failed \in SUBSET Blocks /\ failedParent \in SUBSET Blocks
      /\ parked \in SUBSET Blocks /\ parkedParent \in SUBSET Blocks
  BY Zenon DEF SetsOK
<1>1. CASE UNCHANGED vars
  BY <1>1, Zenon DEF vars, Marks
<1>2. ASSUME NEW b \in Blocks \ {Genesis}, AcceptBlockHeader(b) PROVE Marks'
  <2>1. UNCHANGED <<failed, parked, parkedParent>> /\ HeaderChecks(b)
    BY <1>2, Zenon DEF AcceptBlockHeader
  <2>2. ASSUME NEW c \in failedParent' PROVE Ancestors[c] \cap failed # {}
    <3>1. CASE c \in failedParent
      BY <3>1, Zenon DEF Marks, Inherited
    <3>2. CASE c \notin failedParent
      <4>1. PICK f \in FailedAncestors(b) : c \in Ancestors[Parent[b]] \ Ancestors[f]
        BY <1>2, <3>2, Zenon DEF AcceptBlockHeader
      <4>2. f \in failed
        BY <2>1, Zenon DEF FailedBlocksFailed
      <4>3. f \in Ancestors[Parent[b]] /\ Parent[b] \in Blocks
        BY TreeAssumption, Zenon DEF FailedAncestors
      <4>4. f \in Ancestors[c]
        BY <4>1, <4>3, TreeFacts, Zenon DEF Line
      <4> QED BY <4>2, <4>4, Zenon
    <3> QED BY <3>1, <3>2, Zenon
  <2> QED BY <2>1, <2>2, Zenon DEF Marks, Inherited
<1>3. ASSUME NEW b \in Blocks \ {Genesis}, AcceptBlock(b) PROVE Marks'
  <2>1. failed \subseteq failed' /\ parked \subseteq parked' /\ UNCHANGED <<failedParent, parkedParent>>
    BY <1>3, Zenon DEF AcceptBlock
  <2> QED BY <2>1, Zenon DEF Marks, Inherited
<1>4. ASSUME Enter \/ Resume \/ Break \/ BeginStep \/ StepDisconnect PROVE Marks'
  BY <1>4, Zenon DEF Enter, Resume, Break, BeginStep, StepDisconnect, Marks
<1>5. ASSUME FindMostWorkChain PROVE Marks'
  BY <1>5, FindMarks, Zenon
<1>6. ASSUME ConnectInvalid PROVE Marks'
  <2>1. failed \subseteq failed' /\ UNCHANGED <<failedParent, parked, parkedParent>>
    BY <1>6, Zenon DEF ConnectInvalid, InvalidBlockFound
  <2> QED BY <2>1, Zenon DEF Marks, Inherited
<1>7. ASSUME NEW q \in Hashes, ConnectTip(q) \/ ConnectUnfinalizable(q) PROVE Marks'
  BY <1>7, Zenon DEF ConnectTip, ConnectUnfinalizable, Marks
<1>8. ASSUME UnwindTip PROVE Marks'
  <2>1. tip \in Blocks /\ unwind.mark \in Blocks \ {Genesis}
    BY <1>8, Zenon DEF UnwindTip, CallsOK
  <2>2. CASE unwind.invalidate
    BY <1>0, <1>8, <2>1, <2>2, UnwoundInherited, Zenon DEF UnwindTip, Marks
  <2>3. CASE ~unwind.invalidate
    BY <1>0, <1>8, <2>1, <2>3, UnwoundInherited, Zenon DEF UnwindTip, Marks
  <2> QED BY <2>2, <2>3, Zenon
<1>9. ASSUME EndUnwind PROVE Marks'
  <2>1. failed \subseteq failed' /\ parked \subseteq parked' /\ UNCHANGED <<failedParent, parkedParent>>
    BY <1>9, Zenon DEF EndUnwind
  <2> QED BY <2>1, Zenon DEF Marks, Inherited
<1>10. ASSUME NEW b \in Blocks, PreciousBlock(b) PROVE Marks'
  <2>1. /\ UNCHANGED <<failed, failedParent>> /\ parked' = Unparked(b, FALSE).parked
        /\ parkedParent' = Unparked(b, FALSE).parkedParent
    BY <1>10, Zenon DEF PreciousBlock
  <2> QED BY <2>1, UnparkedInherited, Zenon DEF Marks
<1>11. ASSUME NEW b \in Blocks, FinalizeBlock(b) PROVE Marks'
  <2>1. /\ UNCHANGED <<failed, failedParent>>
        /\ \/ parked' = Unparked(b, FALSE).parked /\ parkedParent' = Unparked(b, FALSE).parkedParent
           \/ parked' = NotUnparked.parked /\ parkedParent' = NotUnparked.parkedParent
    BY <1>11, Zenon DEF FinalizeBlock
  <2>2. NotUnparked.parked = parked /\ NotUnparked.parkedParent = parkedParent
    BY Zenon DEF NotUnparked
  <2> QED BY <2>1, <2>2, UnparkedInherited, Zenon DEF Marks
<1>12. ASSUME NEW b \in Blocks, ResetBlockFailureFlags(b) PROVE Marks'
  <2>1. /\ UNCHANGED parks /\ failed' = ClearedOwn(b, failed, TRUE)
        /\ failedParent' = ClearedParents(b, failed, failedParent)
    BY <1>12, Zenon DEF ResetBlockFailureFlags
  <2> QED BY <1>0, <2>1, ClearedInherited, Zenon DEF Marks
<1>13. ASSUME NEW b \in Blocks, UnparkBlockAndChildren(b) PROVE Marks'
  <2>1. /\ UNCHANGED <<failed, failedParent>> /\ parked' = Unparked(b, TRUE).parked
        /\ parkedParent' = Unparked(b, TRUE).parkedParent
    BY <1>13, Zenon DEF UnparkBlockAndChildren
  <2> QED BY <2>1, UnparkedInherited, Zenon DEF Marks
<1>14. ASSUME NEW b \in Blocks, NEW inv \in BOOLEAN, BeginUnwind(b, inv) PROVE Marks'
  BY <1>14, Zenon DEF BeginUnwind, Marks
<1>15. ~Restart
  BY DEF Restart, CallsOK
<1>16. ASSUME NEW coins \in BOOLEAN, FlushStateToDisk(coins) PROVE Marks'
  BY <1>16, Zenon DEF FlushStateToDisk, Marks
<1> QED
  BY <1>1, <1>2, <1>3, <1>4, <1>5, <1>6, <1>7, <1>8, <1>9, <1>10, <1>11, <1>12, <1>13, <1>14,
     <1>15, <1>16, Zenon
  DEF Next, Network, ActivateBestChain, UnwindBlock, Command, Disk, Hashes

(* Until the node is restarted, a block inherits a mark only from an       *)
(* ancestor, whatever commands are given and however threads interleave,   *)
(* as long as the assertion of AcceptBlockHeader does not stop the node.   *)
THEOREM ChainStateMarks ==
    ASSUME MaxRestarts = 0
    PROVE  Spec /\ []FailedBlocksFailed => []MarksInherited
<1>1. Init => Types /\ Marks
  <2>1. Init => Types
    BY InitTypes, Zenon DEF Types
  <2>2. Init => Marks
    BY Zenon DEF Init, Marks, Inherited
  <2> QED BY <2>1, <2>2, Zenon
<1>2. Types /\ Marks /\ FailedBlocksFailed /\ [Next]_vars => Types' /\ Marks'
  BY TypesStep, MarksStep, Zenon DEF Types
<1>3. Marks => MarksInherited
  BY Zenon DEF Marks, Inherited, MarksInherited
<1> QED BY <1>1, <1>2, <1>3, PTL DEF Spec

-----------------------------------------------------------------------------
(* The active chain and the finalized block.                               *)

(* finalizeblock does not run while ActivateBestChain has released cs_main *)
(* with a chain to come (README, "Limits of the passing runs").            *)
NoFinalizeRace == ~Concurrent \/ "finalize" \notin Commands

(* The tip is in one line with the finalized block, or finalizeblock is    *)
(* disconnecting the blocks above the fork; and so is the chain that       *)
(* ActivateBestChain works on.                                             *)
WithFinalized ==
    finalized # NullHash =>
        /\ \/ AreOnTheSameFork(tip, finalized)
           \/ /\ unwind.locked /\ unwind.target \in Ancestors[tip]
              /\ Parent[unwind.target] \in Ancestors[finalized]
        /\ abc.mostWork # NullHash => AreOnTheSameFork(abc.mostWork, finalized)

(* InvalidChainFound moves the finalized block down.                       *)
LEMMA MoveBackFacts ==
    ASSUME NEW f \in Hashes, NEW c
    PROVE  /\ MoveBack(f, c) \in Hashes
           /\ MoveBack(f, c) # NullHash => f # NullHash /\ MoveBack(f, c) \in Ancestors[f]
<1>1. CASE IsBlockFinalized(f, c)
  <2>1. f \in Blocks /\ c \in Ancestors[f] /\ c \in Blocks
    BY <1>1, AncestorsAssumption, Zenon DEF IsBlockFinalized, Hashes
  <2>2. CASE c = Genesis
    BY <1>1, <2>2, TreeAssumption, Zenon DEF MoveBack, Hashes
  <2>3. CASE c # Genesis
    <3>1. Parent[c] \in Blocks /\ Parent[c] \in Ancestors[c]
      BY <2>1, <2>3, ParentFacts, Zenon
    <3> QED BY <1>1, <2>1, <3>1, TreeFacts, Zenon DEF MoveBack, Hashes, Line, IsBlockFinalized
  <2> QED BY <2>2, <2>3, Zenon
<1>2. CASE ~IsBlockFinalized(f, c)
  BY <1>2, TreeFacts, Zenon DEF MoveBack, Hashes, Line
<1> QED BY <1>1, <1>2, Zenon

(* The invariant survives when the finalized block moves down, and when    *)
(* the tip does outside of finalizeblock.                                  *)
LEMMA FinalizedDown ==
    ASSUME CallsOK, CallsOK', WithFinalized, finalized # NullHash => ~unwind.locked \/ AreOnTheSameFork(tip, finalized),
           finalized' # NullHash => finalized # NullHash /\ finalized' \in Ancestors[finalized],
           tip' \in Ancestors[tip],
           abc'.mostWork \in {abc.mostWork, NullHash}
    PROVE  WithFinalized'
<1> SUFFICES ASSUME finalized' # NullHash PROVE WithFinalized'
  BY Zenon DEF WithFinalized
<1>1. /\ finalized \in Blocks /\ tip \in Blocks /\ finalized' \in Ancestors[finalized]
      /\ finalized' \in Blocks /\ tip' \in Blocks /\ abc.mostWork \in Hashes
  BY Zenon DEF CallsOK, Hashes, Calls
<1>2. AreOnTheSameFork(tip, finalized)
  BY <1>1, TreeAssumption, Zenon DEF WithFinalized
<1>3. AreOnTheSameFork(tip, finalized')
  BY <1>1, <1>2, SameForkDown, Zenon DEF AreOnTheSameFork
<1>4. AreOnTheSameFork(tip', finalized')
  BY <1>1, <1>3, SameForkDown, Zenon
<1>5. ASSUME abc'.mostWork # NullHash PROVE AreOnTheSameFork(abc'.mostWork, finalized')
  <2>1. abc'.mostWork = abc.mostWork /\ abc.mostWork \in Blocks
    BY <1>1, <1>5, Zenon DEF Hashes
  <2>2. AreOnTheSameFork(abc.mostWork, finalized)
    BY <1>1, <1>5, <2>1, TreeAssumption, Zenon DEF WithFinalized
  <2> QED BY <1>1, <2>1, <2>2, SameForkDown, Zenon DEF AreOnTheSameFork
<1> QED BY <1>4, <1>5, Zenon DEF WithFinalized, AreOnTheSameFork

LEMMA FindWithFinalized ==
    ASSUME SetsOK, CallsOK, WithFinalized, FindMostWorkChain
    PROVE  WithFinalized'
<1>1. PICK new \in candidates, test \in Hashes : Finds(new, test)
  BY FindMostWorkFacts, Zenon
<1>2. UNCHANGED <<finalized, tip, unwind>> /\ abc.pc = "loop"
  BY FindMostWorkFacts, Zenon
<1>3. ~unwind.locked
  BY <1>2, Zenon DEF CallsOK
<1> SUFFICES ASSUME finalized # NullHash, test = NullHash PROVE AreOnTheSameFork(new, finalized)
  <2>1. CASE test # NullHash
    BY <1>1, <1>2, <2>1, Zenon DEF Finds, WithFinalized, AreOnTheSameFork
  <2>2. CASE test = NullHash
    <3>1. abc'.mostWork = new
      BY <1>1, <2>2, Zenon DEF Finds, CallsOK, Calls
    <3> QED BY <1>2, <2>2, <3>1, Zenon DEF WithFinalized, AreOnTheSameFork
  <2> QED BY <2>1, <2>2, Zenon
<1>4. new \in Blocks /\ finalized \in Blocks /\ tip \in Blocks /\ AreOnTheSameFork(tip, finalized)
  BY <1>3, Zenon DEF SetsOK, CallsOK, Hashes, WithFinalized
<1>5. CASE new \in Ancestors[tip]
  BY <1>4, <1>5, SameForkDown, Zenon
<1>6. CASE new \notin Ancestors[tip]
  <2>1. new \in Path(new)
    BY <1>4, <1>6, TreeFacts, Zenon DEF Path, Line
  <2>2. StopsOf(new) = {}
    BY <1>1, FindsFacts, Zenon
  <2>3. new \notin BadFor(new)
    BY <2>1, <2>2, Zenon DEF StopsOf, Stops
  <2> QED BY <2>3, Zenon DEF BadFor, ConflictsWithFinalized
<1> QED BY <1>5, <1>6, Zenon

LEMMA WithFinalizedStep ==
    ASSUME SetsOK, CallsOK, WithFinalized, NoFinalizeRace, [Next]_vars
    PROVE  WithFinalized'
<1> USE DEF have, fails, parks, seqs, disk
<1>0. CallsOK'
  BY CallsStep, Zenon
<1>1. CASE UNCHANGED vars
  BY <1>1, Zenon DEF vars, WithFinalized, AreOnTheSameFork
<1>2. ASSUME NEW b \in Blocks \ {Genesis}, AcceptBlockHeader(b) \/ AcceptBlock(b) PROVE WithFinalized'
  BY <1>2, Zenon DEF AcceptBlockHeader, AcceptBlock, WithFinalized, AreOnTheSameFork
<1>3. ASSUME Enter \/ Resume \/ Break \/ BeginStep PROVE WithFinalized'
  <2>1. UNCHANGED <<tip, finalized, unwind>>
    BY <1>3, Zenon DEF Enter, Resume, Break, BeginStep
  <2>2. abc'.mostWork \in {abc.mostWork, NullHash}
    <3>1. CASE Enter
      BY <3>1, Zenon DEF Enter, Idle
    <3>2. CASE Resume
      BY <3>2, Zenon DEF Resume, CallsOK, Calls
    <3>3. CASE Break
      BY <3>3, Zenon DEF Break, CallsOK, Calls, Idle
    <3>4. CASE BeginStep
      BY <3>4, Zenon DEF BeginStep, CallsOK, Calls
    <3> QED BY <1>3, <3>1, <3>2, <3>3, <3>4, Zenon
  <2> QED BY <2>1, <2>2, Zenon DEF WithFinalized, AreOnTheSameFork
<1>4. ASSUME FindMostWorkChain PROVE WithFinalized'
  BY <1>4, FindWithFinalized, Zenon
<1>5. ASSUME StepDisconnect PROVE WithFinalized'
  <2>1. /\ abc.pc = "step" /\ abc.mostWork \in Blocks /\ ~unwind.locked
        /\ tip \in Blocks \ {Genesis}
    BY <1>5, DisconnectFacts, Zenon DEF StepDisconnect, CallsOK
  <2>2. tip' \in Ancestors[tip]
    BY <1>5, <2>1, ParentFacts, Zenon DEF StepDisconnect, DisconnectTip
  <2>3. finalized' # NullHash => finalized # NullHash /\ finalized' \in Ancestors[finalized]
    BY <1>5, <2>1, ParentFacts, TreeFacts, TreeAssumption, SMTT(30)
    DEF StepDisconnect, DisconnectTip, CallsOK, Hashes, Line
  <2>4. abc'.mostWork \in {abc.mostWork, NullHash}
    BY <1>5, <2>1, EndStepFacts, Zenon DEF StepDisconnect, CallsOK, Hashes
  <2> QED BY <1>0, <2>1, <2>2, <2>3, <2>4, FinalizedDown, Zenon
<1>6. ASSUME ConnectInvalid PROVE WithFinalized'
  <2>1. abc.pc = "step" /\ ~unwind.locked /\ tip' = tip /\ abc' = EndStep(tip, NullHash)
    BY <1>6, Zenon DEF ConnectInvalid, CallsOK
  <2>2. abc'.mostWork = NullHash
    BY <2>1, EndStepFacts, Zenon DEF CallsOK, Hashes
  <2>3. PICK b, low : finalized' = MoveBack(MoveBack(finalized, b), low)
    BY <1>6, Zenon DEF ConnectInvalid
  <2>4. finalized \in Hashes /\ finalized' \in Hashes
    BY <1>0, Zenon DEF CallsOK
  <2>5. ASSUME finalized' # NullHash
        PROVE  finalized # NullHash /\ finalized' \in Ancestors[finalized]
    <3>1. /\ MoveBack(finalized, b) \in Hashes /\ MoveBack(finalized, b) # NullHash
          /\ finalized' \in Ancestors[MoveBack(finalized, b)]
      BY <2>3, <2>4, <2>5, MoveBackFacts, Zenon
    <3>2. finalized # NullHash /\ MoveBack(finalized, b) \in Ancestors[finalized]
      BY <2>4, <3>1, MoveBackFacts, Zenon
    <3> QED BY <2>4, <3>1, <3>2, TreeFacts, Zenon DEF Hashes, Line
  <2>6. tip \in Ancestors[tip]
    BY TreeFacts, Zenon DEF CallsOK, Line
  <2> QED BY <1>0, <2>1, <2>2, <2>5, <2>6, FinalizedDown, Zenon
<1>7. ASSUME NEW q \in Hashes, ConnectTip(q) PROVE WithFinalized'
  <2> DEFINE b == NextToConnect
  <2>1. /\ abc.pc = "step" /\ abc.mostWork \in Blocks /\ b \in Ancestors[abc.mostWork]
        /\ b \in Blocks /\ tip' = b /\ q \in BlocksToFinalize(b)
        /\ finalized' = IF q = NullHash THEN finalized ELSE Finalized(q)
    BY <1>7, NextFacts, Zenon DEF ConnectTip, CallsOK
  <2>2. abc'.mostWork \in {abc.mostWork, NullHash}
    BY <1>7, <2>1, EndStepFacts, Zenon DEF ConnectTip, CallsOK, Hashes
  <2> HIDE DEF b
  <2>3. CASE finalized' = finalized
    <3> SUFFICES ASSUME finalized # NullHash PROVE WithFinalized'
      BY <2>3, Zenon DEF WithFinalized
    <3>1. AreOnTheSameFork(abc.mostWork, finalized) /\ finalized \in Blocks
      BY <2>1, TreeAssumption, Zenon DEF WithFinalized, CallsOK, Hashes
    <3>2. AreOnTheSameFork(b, finalized)
      BY <2>1, <3>1, SameForkDown, Zenon
    <3> QED BY <2>1, <2>2, <2>3, <3>1, <3>2, Zenon DEF WithFinalized, AreOnTheSameFork
  <2>4. CASE finalized' # finalized
    <3>1. finalized' = q /\ q \in Ancestors[b]
      BY <2>1, <2>4, Zenon DEF Finalized, BlocksToFinalize
    <3>2. q \in Ancestors[abc.mostWork]
      BY <2>1, <3>1, TreeFacts, Zenon DEF Line
    <3> QED BY <2>1, <2>2, <3>1, <3>2, Zenon DEF WithFinalized, AreOnTheSameFork
  <2> QED BY <2>3, <2>4, Zenon
<1>8. ASSUME NEW q \in Hashes, ConnectUnfinalizable(q) PROVE WithFinalized'
  <2>1. UNCHANGED <<tip, finalized, unwind>> /\ abc' = EndStep(tip, NullHash)
    BY <1>8, Zenon DEF ConnectUnfinalizable
  <2>2. abc'.mostWork = NullHash
    BY <2>1, EndStepFacts, Zenon DEF CallsOK, Hashes
  <2> QED BY <2>1, <2>2, Zenon DEF WithFinalized, AreOnTheSameFork
<1>9. ASSUME UnwindTip PROVE WithFinalized'
  <2>1. /\ unwind # NoUnwind /\ unwind.target \in Ancestors[tip] /\ unwind.target \in Blocks \ {Genesis}
        /\ tip \in Blocks \ {Genesis} /\ Parent[tip] \in Blocks /\ tip' = Parent[tip]
        /\ finalized' = IF finalized = tip THEN Parent[tip] ELSE finalized
        /\ abc' = abc
    BY <1>9, DisconnectFacts, Zenon DEF UnwindTip, DisconnectTip, CallsOK
  <2>2. unwind'.target = unwind.target /\ unwind'.locked = unwind.locked
    BY <1>9, Zenon DEF UnwindTip, CallsOK, Unwinds
  <2>3. CASE ~unwind.locked \/ AreOnTheSameFork(tip, finalized)
    <3>1. finalized' # NullHash => finalized # NullHash /\ finalized' \in Ancestors[finalized]
      BY <2>1, ParentFacts, TreeFacts, TreeAssumption, SMTT(30) DEF CallsOK, Hashes, Line
    <3>2. tip' \in Ancestors[tip]
      BY <2>1, ParentFacts, Zenon
    <3> QED BY <1>0, <2>1, <2>3, <3>1, <3>2, FinalizedDown, Zenon
  <2>4. CASE unwind.locked /\ ~AreOnTheSameFork(tip, finalized)
    <3> SUFFICES ASSUME finalized' # NullHash PROVE WithFinalized'
      BY Zenon DEF WithFinalized
    <3>1. finalized # tip /\ finalized' = finalized /\ finalized \in Blocks
      BY <2>1, <2>4, TreeFacts, TreeAssumption, Zenon DEF AreOnTheSameFork, CallsOK, Hashes, Line
    <3>2. Parent[unwind.target] \in Ancestors[finalized]
          /\ (abc.mostWork # NullHash => AreOnTheSameFork(abc.mostWork, finalized))
      BY <2>4, <3>1, TreeAssumption, Zenon DEF WithFinalized
    <3>3. unwind.target \in Ancestors[tip'] \/ tip' = Parent[unwind.target]
      BY <2>1, ParentFacts, SMTT(30)
    <3> QED BY <2>1, <2>2, <2>4, <3>1, <3>2, <3>3, Zenon DEF WithFinalized, AreOnTheSameFork
  <2> QED BY <2>3, <2>4, Zenon
<1>10. ASSUME EndUnwind PROVE WithFinalized'
  <2>1. /\ unwind.target \notin Ancestors[tip] /\ unwind' = NoUnwind /\ UNCHANGED <<tip, abc>>
        /\ finalized' = finalized \/ finalized' = MoveBack(finalized, unwind.mark)
    BY <1>10, Zenon DEF EndUnwind
  <2>2. finalized' # NullHash => finalized # NullHash /\ finalized' \in Ancestors[finalized]
    BY <2>1, MoveBackFacts, TreeFacts, SMTT(30) DEF CallsOK, Hashes, Line
  <2>3. finalized # NullHash => AreOnTheSameFork(tip, finalized)
    BY <2>1, Zenon DEF WithFinalized
  <2>4. tip' \in Ancestors[tip]
    BY <2>1, TreeFacts, Zenon DEF CallsOK, Line
  <2> QED BY <1>0, <2>1, <2>2, <2>3, <2>4, FinalizedDown, Zenon
<1>11. ASSUME NEW b \in Blocks, PreciousBlock(b) \/ UnparkBlockAndChildren(b) PROVE WithFinalized'
  BY <1>11, Zenon DEF PreciousBlock, UnparkBlockAndChildren, WithFinalized, AreOnTheSameFork
<1>12. ASSUME NEW b \in Blocks, FinalizeBlock(b) PROVE WithFinalized'
  <2>1. /\ CommandStarts("finalize") /\ UNCHANGED <<tip, abc>> /\ finalized' = Finalized(b)
        /\ ~FinalizeFails(b)
    BY <1>12, Zenon DEF FinalizeBlock
  <2>2. abc = Idle /\ abc.mostWork = NullHash /\ ~unwind.locked
    BY <2>1, CommandFacts, SMTT(30) DEF NoFinalizeRace, Quiet, CallsOK, Idle
  <2>3. tip \in Blocks /\ (finalized # NullHash => finalized \in Blocks /\ AreOnTheSameFork(tip, finalized))
    BY <2>2, Zenon DEF WithFinalized, CallsOK, Hashes
  <2>4. CASE AreOnTheSameFork(b, tip)
    <3>1. AreOnTheSameFork(tip, finalized') \/ finalized' = NullHash
      BY <2>1, <2>3, <2>4, Zenon DEF Finalized, AreOnTheSameFork
    <3> QED BY <2>1, <2>2, <3>1, Zenon DEF WithFinalized, AreOnTheSameFork
  <2>5. CASE ~AreOnTheSameFork(b, tip)
    <3> DEFINE next == CHOOSE c \in Ancestors[tip] : Height[c] = Height[FindFork(b)] + 1
    <3>1. next \in Ancestors[tip] /\ Parent[next] = FindFork(b) /\ FindFork(b) \in Ancestors[b]
      BY <2>3, <2>5, ForkChildFacts, Zenon
    <3>2. unwind' = [target |-> next, mark |-> next, invalidate |-> TRUE, locked |-> TRUE]
      BY <1>12, <2>5, Zenon DEF FinalizeBlock
    <3> HIDE DEF next
    <3>3. unwind'.target = next /\ unwind'.locked
      BY <3>2, Zenon
    <3>4. finalized' = b
      <4>1. IsBlockFinalized(finalized, b) => AreOnTheSameFork(b, tip)
        BY <2>3, SameForkDown, Zenon DEF IsBlockFinalized, AreOnTheSameFork
      <4> QED BY <2>1, <2>5, <4>1, Zenon DEF Finalized
    <3> QED BY <2>1, <2>2, <3>1, <3>3, <3>4, Zenon DEF WithFinalized
  <2> QED BY <2>4, <2>5, Zenon
<1>13. ASSUME NEW b \in Blocks, ResetBlockFailureFlags(b) PROVE WithFinalized'
  <2>1. /\ CommandStarts("reconsider") /\ UNCHANGED <<tip, abc, unwind>>
        /\ finalized' = IF finalized = NullHash THEN NullHash ELSE CommonAncestor(b, finalized)
    BY <1>13, Zenon DEF ResetBlockFailureFlags
  <2>2. ~unwind.locked
    BY <2>1, CommandFacts, Zenon
  <2>3. finalized' # NullHash => finalized # NullHash /\ finalized' \in Ancestors[finalized]
    BY <2>1, CommonFacts, Zenon DEF CallsOK, Hashes
  <2>4. tip' \in Ancestors[tip]
    BY <2>1, TreeFacts, Zenon DEF CallsOK, Line
  <2> QED BY <1>0, <2>1, <2>2, <2>3, <2>4, FinalizedDown, Zenon
<1>14. ASSUME NEW b \in Blocks, NEW inv \in BOOLEAN, BeginUnwind(b, inv) PROVE WithFinalized'
  <2>1. /\ UNCHANGED <<tip, finalized, abc>> /\ \E name : CommandStarts(name)
    BY <1>14, Zenon DEF BeginUnwind
  <2>2. ~unwind.locked
    BY <2>1, CommandFacts, Zenon
  <2> QED BY <2>1, <2>2, Zenon DEF WithFinalized, AreOnTheSameFork
<1>15. ASSUME Restart PROVE WithFinalized'
  BY <1>15, Zenon DEF Restart, WithFinalized
<1>16. ASSUME NEW coins \in BOOLEAN, FlushStateToDisk(coins) PROVE WithFinalized'
  BY <1>16, Zenon DEF FlushStateToDisk, WithFinalized, AreOnTheSameFork
<1> QED
  BY <1>1, <1>2, <1>3, <1>4, <1>5, <1>6, <1>7, <1>8, <1>9, <1>10, <1>11, <1>12, <1>13, <1>14,
     <1>15, <1>16, Zenon
  DEF Next, Network, ActivateBestChain, UnwindBlock, Command, Disk, Hashes

(* The active chain never settles on a fork that leaves the chain of the   *)
(* finalized block below it, whatever the commands, over restarts, and     *)
(* with threads that interleave if finalizeblock is not one of them.       *)
THEOREM ChainStateFinalized ==
    ASSUME NoFinalizeRace
    PROVE  Spec => []TipNotBeforeFinalized
<1>1. Init => Types /\ WithFinalized
  <2>1. Init => Types
    BY InitTypes, Zenon DEF Types
  <2>2. Init => WithFinalized
    BY Zenon DEF Init, WithFinalized
  <2> QED BY <2>1, <2>2, Zenon
<1>2. Types /\ WithFinalized /\ [Next]_vars => Types' /\ WithFinalized'
  BY TypesStep, WithFinalizedStep, Zenon DEF Types
<1>3. Types /\ WithFinalized => TipNotBeforeFinalized
  BY SMTT(30) DEF Types, WithFinalized, TipNotBeforeFinalized, Quiet, NoUnwind
<1> QED BY <1>1, <1>2, <1>3, PTL DEF Spec

-----------------------------------------------------------------------------
(* The blocks of the active chain are valid.                               *)

(* invalidateblock and finalizeblock do not run while ActivateBestChain    *)
(* has released cs_main with a chain to come.                              *)
NoInvalidateRace == ~Concurrent \/ Commands \cap {"invalidate", "finalize"} = {}

Invalid == failed \cup failedParent

(* The active chain is stored, connected and has no mark; the chain that   *)
(* ActivateBestChain works on is stored and has no mark; what may become   *)
(* one is stored; and an invalidating UnwindBlock runs alone.              *)
Sound(b) == Ancestors[b] \subseteq data /\ Ancestors[b] \cap Invalid = {}
ActiveSound ==
    /\ Sound(tip) /\ Ancestors[tip] \subseteq scripts
    /\ abc.mostWork # NullHash => Sound(abc.mostWork)
    /\ \A b \in linked \cup candidates : Ancestors[b] \subseteq data
    /\ unwind.invalidate => abc = Idle /\ ~pending /\ ~Concurrent

(* What stays true when no block of the two chains is marked.              *)
LEMMA SoundKept ==
    ASSUME ActiveSound, data \subseteq data', scripts \subseteq scripts',
           tip' \in Ancestors[tip], tip \in Blocks,
           abc'.mostWork \in {abc.mostWork, NullHash},
           Invalid' \cap Ancestors[tip'] = {},
           abc'.mostWork # NullHash => Invalid' \cap Ancestors[abc'.mostWork] = {},
           \A b \in linked' \cup candidates' :
               b \in linked \cup candidates \/ Ancestors[b] \subseteq data',
           unwind'.invalidate => abc' = Idle /\ ~pending' /\ ~Concurrent
    PROVE  ActiveSound'
<1>1. Ancestors[tip'] \subseteq Ancestors[tip]
  BY TreeFacts, Zenon DEF Line
<1>2. Ancestors[tip'] \subseteq data' /\ Ancestors[tip'] \subseteq scripts'
  BY <1>1, Zenon DEF ActiveSound, Sound
<1>3. abc'.mostWork # NullHash => Ancestors[abc'.mostWork] \subseteq data'
  BY Zenon DEF ActiveSound, Sound
<1>4. \A b \in linked' \cup candidates' : Ancestors[b] \subseteq data'
  BY Zenon DEF ActiveSound
<1> QED BY <1>2, <1>3, <1>4, Zenon DEF ActiveSound, Sound

LEMMA FindSound ==
    ASSUME SetsOK, CallsOK, WithFinalized, ActiveSound, FindMostWorkChain
    PROVE  ActiveSound'
<1>1. PICK new \in candidates, test \in Hashes : Finds(new, test)
  BY FindMostWorkFacts, Zenon
<1>2. /\ UNCHANGED <<data, linked, scripts, finalized, tip, pending, unwind>>
      /\ abc.pc = "loop" /\ abc.mostWork = NullHash
  BY FindMostWorkFacts, Zenon DEF have
<1>3. ~unwind.locked /\ ~unwind.invalidate /\ new \in Blocks /\ tip \in Blocks
  BY <1>2, SMTT(30) DEF CallsOK, SetsOK, ActiveSound, Idle
<1>4. new \in Ancestors[tip] => ~ConflictsWithFinalized(new)
  BY <1>3, SameForkDown, Zenon DEF WithFinalized, ConflictsWithFinalized, CallsOK, Hashes
<1>5. Above(new, test) \cap Ancestors[tip] = {}
  BY <1>1, FindsFacts, Zenon DEF Path
<1>6. Invalid' \cap Ancestors[tip] = {}
  BY <1>1, <1>4, <1>5, Zenon DEF Finds, Invalid, ActiveSound, Sound
<1>7. \A b \in linked' \cup candidates' : b \in linked \cup candidates
  BY <1>1, <1>2, FindsFacts, Zenon DEF Finds
<1>8. tip' \in Ancestors[tip]
  BY <1>2, <1>3, TreeFacts, Zenon DEF Line
<1>9. CASE test # NullHash
  <2>1. abc' = abc
    BY <1>1, <1>9, Zenon DEF Finds
  <2> QED BY <1>2, <1>3, <1>6, <1>7, <1>8, <2>1, SoundKept, Zenon
<1>10. CASE test = NullHash
  <2>1. StopsOf(new) = {} /\ abc'.mostWork = new
    BY <1>1, <1>10, FindsFacts, Zenon DEF Finds, CallsOK, Calls
  <2>2. Path(new) \cap BadFor(new) = {}
    BY <2>1, Zenon DEF StopsOf, Stops
  <2>3. ~ConflictsWithFinalized(new)
    <3>1. new \in Path(new) \/ new \in Ancestors[tip]
      BY <1>3, TreeFacts, Zenon DEF Path, Line
    <3> QED BY <1>4, <2>2, <3>1, Zenon DEF BadFor
  <2>4. Invalid' = Invalid
    <3>1. failed' = failed
      BY <1>1, <2>3, Zenon DEF Finds
    <3>2. failedParent' = failedParent
      BY <1>1, <1>10, Zenon DEF Finds, Above
    <3> QED BY <3>1, <3>2, Zenon DEF Invalid
  <2>5. Sound(new)
    <3>1. Ancestors[new] \cap Invalid = {}
      BY <2>2, Zenon DEF Path, BadFor, Invalid, ActiveSound, Sound
    <3> QED BY <3>1, Zenon DEF Sound, ActiveSound
  <2> QED BY <1>2, <1>3, <1>7, <2>1, <2>4, <2>5, Zenon DEF ActiveSound, Sound
<1> QED BY <1>9, <1>10, Zenon

(* The blocks that a new block links are stored with all blocks below.     *)
LEMMA ReceivedStored ==
    ASSUME SetsOK, SeqsOK, ActiveSound, NEW b \in Blocks \ {Genesis}, ReceivedBlockTransactions(b)
    PROVE  /\ data' = data \cup {b}
           /\ \A c \in linked' \cup candidates' :
                  c \in linked \cup candidates \/ Ancestors[c] \subseteq data'
<1>1. data' = data \cup {b}
  BY Zenon DEF ReceivedBlockTransactions
<1>2. CASE Parent[b] \notin linked
  BY <1>1, <1>2, Zenon DEF ReceivedBlockTransactions
<1>3. CASE Parent[b] \in linked
  <2>1. linked' = linked \cup Links(b) /\ candidates' \subseteq candidates \cup Links(b)
    BY <1>3, Zenon DEF ReceivedBlockTransactions
  <2>2. Ancestors[b] \subseteq data'
    BY <1>1, <1>3, ParentFacts, SMTT(30) DEF ActiveSound
  <2>3. ASSUME NEW c \in Links(b) PROVE Ancestors[c] \subseteq data'
    BY <1>1, <2>2, LinksFacts, Zenon DEF SeqsOK
  <2> QED BY <1>1, <2>1, <2>3, Zenon
<1> QED BY <1>2, <1>3, Zenon

LEMMA ActiveSoundStep ==
    ASSUME Types, WithFinalized, ActiveSound, FailedBlocksFailed, NoInvalidateRace,
           MaxRestarts = 0, [Next]_vars
    PROVE  ActiveSound'
<1> USE DEF have, fails, parks, seqs, disk
<1>0. SetsOK /\ CallsOK /\ SeqsOK /\ tip \in Blocks /\ tip \in Ancestors[tip]
  BY TreeFacts, Zenon DEF Types, CallsOK, Line
<1>1. CASE UNCHANGED vars
  BY <1>1, Zenon DEF vars, ActiveSound, Sound, Invalid
<1>2. ASSUME NEW b \in Blocks \ {Genesis}, AcceptBlockHeader(b) PROVE ActiveSound'
  <2>1. /\ UNCHANGED <<data, scripts, tip, abc, linked, candidates, unwind, pending, failed>>
        /\ HeaderChecks(b)
    BY <1>2, Zenon DEF AcceptBlockHeader
  <2>2. ASSUME NEW x \in Blocks, Ancestors[x] \cap Invalid = {} PROVE Ancestors[x] \cap Invalid' = {}
    <3>1. CASE failedParent' = failedParent
      BY <2>1, <2>2, <3>1, Zenon DEF Invalid
    <3>2. CASE failedParent' # failedParent
      <4>1. PICK f \in FailedAncestors(b) :
                failedParent' = failedParent \cup (Ancestors[Parent[b]] \ Ancestors[f])
        BY <1>2, <3>2, Zenon DEF AcceptBlockHeader
      <4>2. f \in failed /\ f \in Ancestors[Parent[b]] /\ Parent[b] \in Blocks
        BY <2>1, TreeAssumption, Zenon DEF FailedBlocksFailed, FailedAncestors
      <4>3. ASSUME NEW c \in Ancestors[x], c \in Ancestors[Parent[b]] \ Ancestors[f] PROVE FALSE
        <5>1. f \in Ancestors[c]
          BY <4>2, <4>3, TreeFacts, Zenon DEF Line
        <5>2. f \in Ancestors[x]
          BY <4>3, <5>1, TreeFacts, Zenon DEF Line
        <5> QED BY <2>2, <4>2, <5>2, Zenon DEF Invalid
      <4> QED BY <2>1, <2>2, <4>1, <4>3, Zenon DEF Invalid
    <3> QED BY <3>1, <3>2, Zenon
  <2>3. abc.mostWork # NullHash => abc.mostWork \in Blocks
    BY <1>0, Zenon DEF CallsOK, Calls, Hashes
  <2>4. Invalid' \cap Ancestors[tip] = {}
        /\ (abc.mostWork # NullHash => Invalid' \cap Ancestors[abc.mostWork] = {})
    BY <1>0, <2>2, <2>3, Zenon DEF ActiveSound, Sound
  <2> QED BY <2>1, <2>4, Zenon DEF ActiveSound, Sound
<1>3. ASSUME NEW b \in Blocks \ {Genesis}, AcceptBlock(b) PROVE ActiveSound'
  <2>1. /\ UNCHANGED <<scripts, tip, abc, unwind, failedParent>> /\ b \notin data
        /\ OtherThread
    BY <1>3, Zenon DEF AcceptBlock
  <2>2. ~unwind.invalidate
    BY <2>1, SMTT(30) DEF ActiveSound, OtherThread, Quiet, NoUnwind
  <2>3. CASE b \in BadContext
    <3>1. failed' = failed \cup {b} /\ UNCHANGED <<data, linked, candidates>>
      BY <1>3, <2>3, Zenon DEF AcceptBlock
    <3> QED BY <2>1, <2>2, <3>1, Zenon DEF ActiveSound, Sound, Invalid
  <2>4. CASE b \notin BadContext
    <3>1. failed' = failed /\ ReceivedBlockTransactions(b)
      BY <1>3, <2>4, Zenon DEF AcceptBlock
    <3>2. /\ data' = data \cup {b}
          /\ \A c \in linked' \cup candidates' :
                  c \in linked \cup candidates \/ Ancestors[c] \subseteq data'
      BY <1>0, <3>1, ReceivedStored, Zenon
    <3>3. Invalid' = Invalid
      BY <2>1, <3>1, Zenon DEF Invalid
    <3> QED BY <1>0, <2>1, <2>2, <3>2, <3>3, Zenon DEF ActiveSound, Sound
  <2> QED BY <2>3, <2>4, Zenon
<1>4. ASSUME Enter \/ Resume \/ Break \/ BeginStep PROVE ActiveSound'
  <2>1. UNCHANGED <<data, scripts, tip, linked, candidates, unwind, failed, failedParent>>
    BY <1>4, Zenon DEF Enter, Resume, Break, BeginStep
  <2>2. abc'.mostWork \in {abc.mostWork, NullHash}
    <3>1. CASE Enter
      BY <3>1, Zenon DEF Enter, Idle
    <3>2. CASE Resume
      BY <1>0, <3>2, Zenon DEF Resume, CallsOK, Calls
    <3>3. CASE Break
      BY <1>0, <3>3, Zenon DEF Break, CallsOK, Calls, Idle
    <3>4. CASE BeginStep
      BY <1>0, <3>4, Zenon DEF BeginStep, CallsOK, Calls
    <3> QED BY <1>4, <3>1, <3>2, <3>3, <3>4, Zenon
  <2>3. ~unwind.invalidate
    BY <1>4, SMTT(30) DEF ActiveSound, Idle, Enter, Resume, Break, BeginStep
  <2> QED BY <2>1, <2>2, <2>3, Zenon DEF ActiveSound, Sound, Invalid
<1>5. ASSUME FindMostWorkChain PROVE ActiveSound'
  BY <1>0, <1>5, FindSound, Zenon
<1>6. ASSUME StepDisconnect PROVE ActiveSound'
  <2>1. /\ UNCHANGED <<data, scripts, linked, candidates, unwind, failed, failedParent>>
        /\ abc.pc = "step" /\ abc.mostWork \in Blocks /\ tip \in Blocks \ {Genesis}
        /\ tip' = Parent[tip]
    BY <1>0, <1>6, DisconnectFacts, Zenon DEF StepDisconnect, DisconnectTip, CallsOK
  <2>2. abc'.mostWork \in {abc.mostWork, NullHash}
    BY <1>0, <1>6, <2>1, EndStepFacts, Zenon DEF StepDisconnect, CallsOK, Hashes
  <2>3. ~unwind.invalidate
    BY <2>1, SMTT(30) DEF ActiveSound, Idle
  <2>4. tip' \in Ancestors[tip] /\ Ancestors[tip'] \subseteq Ancestors[tip] /\ Invalid' = Invalid
    BY <2>1, ParentFacts, SMTT(30) DEF Invalid
  <2> QED BY <2>1, <2>2, <2>3, <2>4, Zenon DEF ActiveSound, Sound
<1>7. ASSUME ConnectInvalid PROVE ActiveSound'
  <2> DEFINE b == NextToConnect
  <2>1. /\ UNCHANGED <<data, scripts, linked, candidates, unwind, failedParent, tip>>
        /\ abc.pc = "step" /\ abc' = EndStep(tip, NullHash) /\ failed' = failed \cup {b}
        /\ b \in Blocks \ {Genesis} /\ Parent[b] = tip
    BY <1>0, <1>7, NextFacts, Zenon DEF ConnectInvalid, CallsOK, InvalidBlockFound
  <2>2. abc'.mostWork = NullHash /\ ~unwind.invalidate
    BY <1>0, <2>1, EndStepFacts, SMTT(30) DEF CallsOK, Hashes, ActiveSound, Idle
  <2>3. b \notin Ancestors[tip]
    BY <2>1, ParentFacts, Zenon
  <2> QED BY <2>1, <2>2, <2>3, Zenon DEF ActiveSound, Sound, Invalid
<1>8. ASSUME NEW q \in Hashes, ConnectTip(q) PROVE ActiveSound'
  <2> DEFINE b == NextToConnect
  <2>1. /\ UNCHANGED <<data, linked, unwind, failed, failedParent>> /\ tip' = b
        /\ abc.pc = "step" /\ abc.mostWork \in Blocks /\ ConnectBlock(b)
        /\ b \in Blocks \ {Genesis} /\ Parent[b] = tip /\ b \in Ancestors[abc.mostWork]
        /\ candidates' \subseteq candidates
    BY <1>0, <1>8, NextFacts, Zenon DEF ConnectTip, CallsOK, PruneBlockIndexCandidates
  <2>2. abc'.mostWork \in {abc.mostWork, NullHash} /\ ~unwind.invalidate
    BY <1>0, <1>8, <2>1, EndStepFacts, SMTT(30) DEF ConnectTip, CallsOK, Hashes, ActiveSound, Idle
  <2> HIDE DEF b
  <2>3. Ancestors[b] = {b} \cup Ancestors[tip]
    BY <2>1, ParentFacts, Zenon
  <2>4. b \in data /\ ~isInvalid(b)
    BY <2>1, TreeAssumption, Zenon DEF ActiveSound, Sound, Invalid, isInvalid
  <2>5. scripts' = scripts \cup {b}
    BY <2>1, <2>4, Zenon DEF ConnectBlock
  <2>6. Sound(b) /\ Ancestors[b] \subseteq scripts'
    BY <2>1, <2>3, <2>4, <2>5, Zenon DEF ActiveSound, Sound, Invalid, isInvalid
  <2> QED BY <2>1, <2>2, <2>6, Zenon DEF ActiveSound, Sound, Invalid
<1>9. ASSUME NEW q \in Hashes, ConnectUnfinalizable(q) PROVE ActiveSound'
  <2>1. /\ UNCHANGED <<data, linked, candidates, unwind, failed, failedParent, tip>>
        /\ abc.pc = "step" /\ abc' = EndStep(tip, NullHash) /\ scripts \subseteq scripts'
    BY <1>9, Zenon DEF ConnectUnfinalizable, ConnectBlock
  <2>2. abc'.mostWork = NullHash /\ ~unwind.invalidate
    BY <1>0, <2>1, EndStepFacts, SMTT(30) DEF CallsOK, Hashes, ActiveSound, Idle
  <2> QED BY <2>1, <2>2, Zenon DEF ActiveSound, Sound, Invalid
<1>10. ASSUME UnwindTip PROVE ActiveSound'
  <2>1. /\ UNCHANGED <<data, scripts, linked, pending, abc>> /\ unwind # NoUnwind
        /\ tip' = Parent[tip] /\ tip \in Blocks \ {Genesis} /\ unwind.mark \in Blocks \ {Genesis}
        /\ candidates' = candidates \cup {Parent[tip]}
        /\ IF unwind.invalidate
           THEN failed' = UnwindOwn(failed) /\ failedParent' = UnwindParents(failed, failedParent)
           ELSE UNCHANGED <<failed, failedParent>>
    BY <1>0, <1>10, DisconnectFacts, Zenon DEF UnwindTip, DisconnectTip, CallsOK
  <2>2. unwind'.invalidate = unwind.invalidate
    BY <1>0, <1>10, Zenon DEF UnwindTip, CallsOK, Unwinds
  <2>3. tip' \in Ancestors[tip] /\ tip \notin Ancestors[tip'] /\ Ancestors[tip'] \subseteq Ancestors[tip]
    BY <2>1, ParentFacts, SMTT(30)
  <2>4. Demoted(failed) \cap Ancestors[tip'] = {}
    <3>1. Demoted(failed) # {} => tip = Parent[unwind.mark] /\ Demoted(failed) = {unwind.mark}
      BY Zenon DEF Demoted
    <3>2. unwind.mark \notin Ancestors[Parent[unwind.mark]]
      BY <2>1, ParentFacts, Zenon
    <3> QED BY <2>3, <3>1, <3>2, Zenon
  <2>5. Invalid' \cap Ancestors[tip'] = {}
    BY <2>1, <2>3, <2>4, Zenon DEF Invalid, UnwindOwn, UnwindParents, ActiveSound, Sound
  <2>6. \A b \in linked' \cup candidates' : b \in linked \cup candidates \/ Ancestors[b] \subseteq data'
    BY <2>1, <2>3, Zenon DEF ActiveSound, Sound
  <2>7. CASE unwind.invalidate
    <3>1. abc.mostWork = NullHash
      BY <2>7, SMTT(30) DEF ActiveSound, Idle
    <3> QED BY <1>0, <2>1, <2>2, <2>3, <2>5, <2>6, <3>1, SoundKept, Zenon DEF ActiveSound
  <2>8. CASE ~unwind.invalidate
    <3>1. Invalid' = Invalid
      BY <2>1, <2>8, Zenon DEF Invalid
    <3> QED BY <1>0, <2>1, <2>2, <2>3, <2>5, <2>6, <2>8, <3>1, SoundKept, Zenon DEF ActiveSound, Sound
  <2> QED BY <2>7, <2>8, Zenon
<1>11. ASSUME EndUnwind PROVE ActiveSound'
  <2>1. /\ UNCHANGED <<data, scripts, linked, failedParent, tip, abc>> /\ unwind' = NoUnwind
        /\ failed' = failed \/ (unwind.invalidate /\ unwind.mark \notin Ancestors[tip]
                                    /\ failed' = failed \cup {unwind.mark})
        /\ candidates' \subseteq candidates \cup linked
    BY <1>11, Zenon DEF EndUnwind, CandidatesAgain
  <2>2. Invalid' \cap Ancestors[tip'] = {}
    BY <2>1, Zenon DEF Invalid, ActiveSound, Sound
  <2>3. abc.mostWork # NullHash => Invalid' \cap Ancestors[abc.mostWork] = {}
    BY <2>1, SMTT(30) DEF Invalid, ActiveSound, Sound, Idle
  <2>4. ~unwind'.invalidate
    BY <2>1, Zenon DEF NoUnwind
  <2> QED BY <1>0, <2>1, <2>2, <2>3, <2>4, Zenon DEF ActiveSound, Sound
<1>12. ASSUME NEW b \in Blocks, PreciousBlock(b) \/ UnparkBlockAndChildren(b) PROVE ActiveSound'
  <2>1. /\ UNCHANGED <<data, scripts, linked, failed, failedParent, tip, abc, unwind>>
        /\ candidates' \subseteq candidates \cup linked
    BY <1>12, Zenon DEF PreciousBlock, UnparkBlockAndChildren, Returning, Healed, Eligible
  <2>2. ~unwind.invalidate
    <3>1. \E name : CommandStarts(name)
      BY <1>12, Zenon DEF PreciousBlock, UnparkBlockAndChildren
    <3>2. ~Concurrent => Quiet
      BY <1>0, <3>1, CommandFacts, Zenon
    <3> QED BY <3>2, SMTT(30) DEF ActiveSound, Quiet, NoUnwind
  <2> QED BY <2>1, <2>2, Zenon DEF ActiveSound, Sound, Invalid
<1>13. ASSUME NEW b \in Blocks, FinalizeBlock(b) PROVE ActiveSound'
  <2>1. /\ UNCHANGED <<data, scripts, linked, failed, failedParent, tip, abc>>
        /\ CommandStarts("finalize")
    BY <1>13, Zenon DEF FinalizeBlock
  <2>2. candidates' \subseteq candidates \cup linked
    BY <1>13, Zenon DEF FinalizeBlock, Returning, Healed
  <2>3. ~Concurrent /\ Quiet /\ ~pending /\ abc = Idle
    BY <1>0, <2>1, CommandFacts, Zenon DEF NoInvalidateRace, Quiet, CallsOK
  <2>4. unwind'.invalidate => ~pending'
    BY <1>13, <2>3, SMTT(30) DEF FinalizeBlock, Quiet, NoUnwind
  <2> QED BY <2>1, <2>2, <2>3, <2>4, Zenon DEF ActiveSound, Sound, Invalid
<1>14. ASSUME NEW b \in Blocks, ResetBlockFailureFlags(b) PROVE ActiveSound'
  <2>1. /\ UNCHANGED <<data, scripts, linked, tip, abc, unwind>>
        /\ CommandStarts("reconsider")
    BY <1>14, Zenon DEF ResetBlockFailureFlags
  <2>2. candidates' \subseteq candidates \cup linked /\ Invalid' \subseteq Invalid
    BY <1>14, Zenon DEF ResetBlockFailureFlags, Returning, Healed, Invalid, ClearedOwn, ClearedParents
  <2>3. ~Concurrent => Quiet
    BY <1>0, <2>1, CommandFacts, Zenon
  <2>4. ~unwind.invalidate
    BY <2>3, SMTT(30) DEF ActiveSound, Quiet, NoUnwind
  <2> QED BY <2>1, <2>2, <2>4, Zenon DEF ActiveSound, Sound
<1>15. ASSUME NEW b \in Blocks, NEW inv \in BOOLEAN, BeginUnwind(b, inv) PROVE ActiveSound'
  <2>1. /\ UNCHANGED <<data, scripts, linked, candidates, failed, failedParent, tip, abc, pending>>
        /\ CommandStarts(IF inv THEN "invalidate" ELSE "park")
        /\ unwind' = [target |-> b, mark |-> b, invalidate |-> inv, locked |-> FALSE]
    BY <1>15, Zenon DEF BeginUnwind
  <2>2. /\ (IF inv THEN "invalidate" ELSE "park") \in Commands
        /\ ~Concurrent => Quiet /\ ~pending
    BY <1>0, <2>1, CommandFacts, Zenon
  <2>3. inv => ~Concurrent /\ Quiet /\ ~pending /\ abc = Idle
    BY <1>0, <2>2, Zenon DEF NoInvalidateRace, Quiet, CallsOK
  <2>4. unwind'.invalidate = inv
    BY <2>1, Zenon
  <2> QED BY <2>1, <2>3, <2>4, Zenon DEF ActiveSound, Sound, Invalid
<1>16. ~Restart
  BY <1>0, SMTT(30) DEF Restart, CallsOK
<1>17. ASSUME NEW coins \in BOOLEAN, FlushStateToDisk(coins) PROVE ActiveSound'
  BY <1>17, Zenon DEF FlushStateToDisk, ActiveSound, Sound, Invalid
<1> QED
  BY <1>1, <1>2, <1>3, <1>4, <1>5, <1>6, <1>7, <1>8, <1>9, <1>10, <1>11, <1>12, <1>13, <1>14,
     <1>15, <1>16, <1>17, Zenon
  DEF Next, Network, ActivateBestChain, UnwindBlock, Command, Disk, Hashes

(* Until the node is restarted, every block of the active chain passed     *)
(* ConnectBlock and none of them is marked as invalid, if invalidateblock  *)
(* and finalizeblock wait for ActivateBestChain, and as long as the        *)
(* assertion of AcceptBlockHeader does not stop the node.                  *)
THEOREM ChainStateValid ==
    ASSUME NoInvalidateRace, MaxRestarts = 0
    PROVE  Spec /\ []FailedBlocksFailed => []ChainValid
<1>1. Init => Types /\ WithFinalized /\ ActiveSound
  <2>1. Init => Types
    BY InitTypes, Zenon DEF Types
  <2>2. Init => WithFinalized
    BY Zenon DEF Init, WithFinalized
  <2>3. Init => ActiveSound
    BY AncestorsAssumption, SMTT(30) DEF Init, ActiveSound, Sound, Invalid, Idle, NoUnwind
  <2> QED BY <2>1, <2>2, <2>3, Zenon
<1>2. NoFinalizeRace
  BY Zenon DEF NoFinalizeRace, NoInvalidateRace
<1>3. /\ Types /\ WithFinalized /\ ActiveSound /\ FailedBlocksFailed /\ [Next]_vars
      => Types' /\ WithFinalized' /\ ActiveSound'
  BY <1>2, TypesStep, WithFinalizedStep, ActiveSoundStep, Zenon DEF Types
<1>4. ActiveSound => ChainValid
  BY Zenon DEF ActiveSound, Sound, Invalid, ChainValid, isInvalid
<1> QED BY <1>1, <1>3, <1>4, PTL DEF Spec

-----------------------------------------------------------------------------
(* HaveTxsDownloaded and mapBlocksUnlinked.                                *)

(* The operator neither invalidates blocks nor takes that back (README,    *)
(* "Limits of the passing runs").                                          *)
NothingInvalidated == Commands \cap {"invalidate", "reconsider"} = {}

Stored(b) == Ancestors[b] \subseteq data
Closed(S) == \A b \in S \ {Genesis} : Parent[b] \in S

(* A block that misses an ancestor which is refused from now on.           *)
Doomed(b) == \E a \in Ancestors[b] \ data : a \in Invalid

KnownOK ==
    /\ Closed(known) /\ data \subseteq known /\ Invalid \subseteq known
    /\ linked = {b \in known : Stored(b)}

(* Everything that is or was in the active chain, or may come into it, is  *)
(* stored.                                                                 *)
StoredOK ==
    /\ \A b \in candidates \cup failedBlocks \cup {tip} : Stored(b)
    /\ abc.mostWork # NullHash => Stored(abc.mostWork)
    /\ unwind.invalidate => Stored(unwind.mark)

(* A block in want of an ancestor waits for it, or waits in vain; so does  *)
(* every invalid block.  The ancestor that an unconnected block inherited  *)
(* its mark from is or will be in the block tree database.                 *)
WaitingOK ==
    /\ \A b \in data \ linked : b \in unlinked \/ Doomed(b)
    /\ \A b \in Invalid \ linked : Doomed(b)
    /\ \A b \in (failedParent \ linked) \cup failedBlocks :
           Ancestors[b] \cap failed \cap (dirty \cup saved.failed) # {}

(* The same for what the block tree database has, which lags behind by the *)
(* dirty blocks only, where blocks are not connected.                      *)
SavedInvalid == saved.failed \cup saved.failedParent
DiskOK ==
    /\ saved.data \subseteq data /\ data \subseteq saved.data \cup dirty
    /\ saved.known \subseteq known /\ known \subseteq saved.known \cup dirty
    /\ saved.data \subseteq saved.known /\ Closed(saved.known) /\ SavedInvalid \subseteq saved.known
    /\ savedTip # NullHash => Ancestors[savedTip] \subseteq saved.data
    /\ \A b \in Blocks \ (linked \cup dirty) :
           (b \in failed <=> b \in saved.failed) /\ (b \in failedParent <=> b \in saved.failedParent)
    /\ \A b \in SavedInvalid \ LoadLinked : \E a \in Ancestors[b] \ saved.data : a \in SavedInvalid
    /\ \A b \in saved.failedParent \ LoadLinked : Ancestors[b] \cap saved.failed # {}

LinkInv == KnownOK /\ StoredOK /\ WaitingOK /\ DiskOK

LEMMA StoredFacts ==
    ASSUME KnownOK, NEW b \in Blocks, Stored(b)
    PROVE  /\ b \in linked /\ b \in known /\ b \in data
           /\ \A a \in Ancestors[b] : Stored(a)
BY TreeFacts, Zenon DEF KnownOK, Stored, Line

(* A step of ActivateBestChain or UnwindBlock, or a command, marks stored  *)
(* blocks only.                                                            *)
LEMMA MarksOnStored ==
    ASSUME SetsOK, SetsOK', LinkInv,
           UNCHANGED <<known, data, linked, unlinked, saved, savedTip>>, dirty \subseteq dirty',
           Invalid \subseteq Invalid',
           \A b \in Blocks : \/ (b \in failed' <=> b \in failed) /\ (b \in failedParent' <=> b \in failedParent)
                             \/ Stored(b),
           \A g \in failed : g \in failed' \/ Ancestors[g] \cap failed' \cap dirty' # {},
           \A f \in failedBlocks' : f \in failedBlocks \/ f \in failed' \cap dirty',
           StoredOK'
    PROVE  LinkInv'
<1> USE DEF LinkInv
<1>0. \A b \in Blocks \ linked : (b \in failed' <=> b \in failed) /\ (b \in failedParent' <=> b \in failedParent)
  BY StoredFacts, Zenon
<1>1. KnownOK'
  <2>1. Invalid' \subseteq known
    BY <1>0, StoredFacts, Zenon DEF SetsOK, KnownOK, Invalid
  <2> QED BY <2>1, Zenon DEF KnownOK, Stored, Closed
<1>2. WaitingOK'
  <2>1. \A b \in data \ linked : b \in unlinked \/ Doomed(b)'
    BY Zenon DEF WaitingOK, Doomed
  <2>2. ASSUME NEW b \in Invalid' \ linked PROVE Doomed(b)'
    <3>1. b \in Invalid
      BY <1>0, <2>2, Zenon DEF Invalid, SetsOK
    <3> QED BY <2>2, <3>1, Zenon DEF WaitingOK, Doomed
  <2>3. ASSUME NEW b \in (failedParent' \ linked) \cup failedBlocks'
        PROVE  Ancestors[b] \cap failed' \cap (dirty' \cup saved.failed) # {}
    <3>1. b \in Blocks
      BY Zenon DEF SetsOK
    <3>2. CASE b \in failedBlocks' \ failedBlocks
      BY <3>1, <3>2, TreeFacts, Zenon DEF Line
    <3>3. CASE b \notin failedBlocks' \ failedBlocks
      <4>1. b \in (failedParent \ linked) \cup failedBlocks
        BY <1>0, <2>3, <3>1, <3>3, Zenon
      <4>2. PICK g \in Ancestors[b] : g \in failed /\ g \in dirty \cup saved.failed
        BY <4>1, Zenon DEF WaitingOK
      <4>3. g \in failed' \/ \E h \in Ancestors[g] : h \in failed' \cap dirty'
        BY <4>2, Zenon
      <4> QED BY <3>1, <4>2, <4>3, TreeFacts, Zenon DEF Line
    <3> QED BY <3>2, <3>3, Zenon
  <2> QED BY <2>1, <2>2, <2>3, Zenon DEF WaitingOK
<1>3. DiskOK'
  <2>1. \A b \in Blocks \ (linked \cup dirty') :
           (b \in failed' <=> b \in saved.failed) /\ (b \in failedParent' <=> b \in saved.failedParent)
    BY <1>0, Zenon DEF DiskOK
  <2>2. data \subseteq saved.data \cup dirty' /\ known \subseteq saved.known \cup dirty'
    BY Zenon DEF DiskOK
  <2>3. LoadLinked' = LoadLinked /\ SavedInvalid' = SavedInvalid
    BY Zenon DEF LoadLinked, SavedInvalid
  <2> QED BY <2>1, <2>2, <2>3, Zenon DEF DiskOK, Closed
<1> QED BY <1>1, <1>2, <1>3, Zenon

LEMMA FindLinked ==
    ASSUME Types, SetsOK', LinkInv, FindMostWorkChain
    PROVE  LinkInv'
<1> USE DEF have, fails, parks, seqs, disk, LinkInv
<1>0. SetsOK /\ CallsOK /\ KnownOK /\ StoredOK
  BY Zenon DEF Types
<1>1. PICK new \in candidates, test \in Hashes : Finds(new, test)
  BY FindMostWorkFacts, Zenon
<1>2. UNCHANGED <<known, data, linked, unlinked, saved, savedTip, tip, unwind>>
  BY FindMostWorkFacts, Zenon
<1>3. new \in Blocks /\ Stored(new)
  BY <1>0, Zenon DEF SetsOK, StoredOK
<1>4. /\ failed \subseteq failed' /\ failed' \subseteq failed \cup {new}
      /\ failedParent \subseteq failedParent' /\ failedParent' \subseteq failedParent \cup Ancestors[new]
  BY <1>0, <1>1, FindsFacts, Zenon DEF Finds
<1>5. failedBlocks' \subseteq failedBlocks /\ dirty \subseteq dirty' /\ candidates' \subseteq candidates \cup linked
      /\ abc'.mostWork \in {abc.mostWork, new}
  BY <1>0, <1>1, FindsFacts, Zenon DEF Finds, CallsOK, Calls
<1>6. \A b \in Blocks : \/ (b \in failed' <=> b \in failed) /\ (b \in failedParent' <=> b \in failedParent)
                        \/ Stored(b)
  BY <1>0, <1>3, <1>4, StoredFacts, Zenon
<1>7. StoredOK'
  BY <1>0, <1>2, <1>3, <1>5, Zenon DEF StoredOK, KnownOK, Stored
<1>8. Invalid \subseteq Invalid'
  BY <1>4, Zenon DEF Invalid
<1> QED BY <1>0, <1>2, <1>4, <1>5, <1>6, <1>7, <1>8, MarksOnStored, Zenon

(* The other steps of ActivateBestChain.                                   *)
LEMMA ActivateLinked ==
    ASSUME Types, SetsOK', LinkInv, ActivateBestChain
    PROVE  LinkInv'
<1> USE DEF have, fails, parks, seqs, disk, LinkInv
<1>0. SetsOK /\ CallsOK /\ KnownOK /\ StoredOK /\ tip \in Blocks /\ Stored(tip)
  BY Zenon DEF Types, StoredOK, CallsOK
<1>1. CASE Enter \/ Resume \/ Break \/ BeginStep
  <2>1. UNCHANGED <<known, data, linked, unlinked, saved, savedTip, tip, candidates, unwind, failed,
                    failedParent, failedBlocks, dirty>>
    BY <1>1, Zenon DEF Enter, Resume, Break, BeginStep
  <2>2. abc'.mostWork \in {abc.mostWork, NullHash}
    <3>1. CASE Enter
      BY <3>1, Zenon DEF Enter, Idle
    <3>2. CASE Resume
      BY <1>0, <3>2, Zenon DEF Resume, CallsOK, Calls
    <3>3. CASE Break
      BY <1>0, <3>3, Zenon DEF Break, CallsOK, Calls, Idle
    <3>4. CASE BeginStep
      BY <1>0, <3>4, Zenon DEF BeginStep, CallsOK, Calls
    <3> QED BY <1>1, <3>1, <3>2, <3>3, <3>4, Zenon
  <2>3. StoredOK'
    BY <1>0, <2>1, <2>2, Zenon DEF StoredOK, Stored
  <2> QED BY <1>0, <2>1, <2>3, MarksOnStored, Zenon DEF Invalid
<1>2. CASE FindMostWorkChain
  BY <1>2, FindLinked, Zenon
<1>3. CASE StepDisconnect
  <2>1. /\ UNCHANGED <<known, data, linked, unlinked, saved, savedTip, candidates, unwind, failed,
                       failedParent, failedBlocks, dirty>>
        /\ abc.mostWork \in Blocks /\ tip \in Blocks \ {Genesis} /\ tip' = Parent[tip]
    BY <1>0, <1>3, DisconnectFacts, Zenon DEF StepDisconnect, DisconnectTip, CallsOK
  <2>2. abc'.mostWork \in {abc.mostWork, NullHash}
    BY <1>0, <1>3, <2>1, EndStepFacts, Zenon DEF StepDisconnect, CallsOK, Hashes
  <2>3. Stored(tip')
    BY <1>0, <2>1, ParentFacts, StoredFacts, Zenon
  <2>4. StoredOK'
    BY <1>0, <2>1, <2>2, <2>3, Zenon DEF StoredOK, Stored
  <2> QED BY <1>0, <2>1, <2>4, MarksOnStored, Zenon DEF Invalid
<1>4. CASE ConnectInvalid
  <2> DEFINE b == NextToConnect
  <2>1. /\ UNCHANGED <<known, data, linked, unlinked, saved, savedTip, candidates, unwind, failedParent,
                       tip>>
        /\ abc.pc = "step" /\ abc' = EndStep(tip, NullHash) /\ failed' = failed \cup {b}
        /\ failedBlocks' = failedBlocks \cup {b} /\ dirty' = dirty \cup {b}
        /\ b \in Blocks /\ b \in Ancestors[abc.mostWork] /\ abc.mostWork \in Blocks
    BY <1>0, <1>4, NextFacts, Zenon DEF ConnectInvalid, CallsOK, InvalidBlockFound
  <2>2. abc'.mostWork = NullHash
    BY <1>0, <2>1, EndStepFacts, Zenon DEF CallsOK, Hashes
  <2>3. Stored(b)
    BY <1>0, <2>1, StoredFacts, TreeAssumption, Zenon DEF StoredOK
  <2> HIDE DEF b
  <2>4. StoredOK'
    BY <1>0, <2>1, <2>2, <2>3, Zenon DEF StoredOK, Stored
  <2>5. Invalid \subseteq Invalid'
    BY <2>1, Zenon DEF Invalid
  <2>6. \A c \in Blocks : (c \in failed' <=> c \in failed) \/ Stored(c)
    BY <2>1, <2>3, Zenon
  <2> QED BY <1>0, <2>1, <2>4, <2>5, <2>6, MarksOnStored, Zenon
<1>5. CASE \E q \in Hashes : ConnectTip(q) \/ ConnectUnfinalizable(q)
  <2>0. PICK q \in Hashes : ConnectTip(q) \/ ConnectUnfinalizable(q)
    BY <1>5, Zenon
  <2> DEFINE b == NextToConnect
  <2>1. /\ UNCHANGED <<known, data, linked, unlinked, saved, savedTip, unwind, failed, failedParent,
                       failedBlocks>>
        /\ tip' \in {tip, b} /\ candidates' \subseteq candidates /\ dirty \subseteq dirty'
        /\ b \in Blocks /\ b \in Ancestors[abc.mostWork] /\ abc.mostWork \in Blocks
    BY <1>0, <2>0, NextFacts, Zenon
    DEF ConnectTip, ConnectUnfinalizable, ConnectBlock, CallsOK, PruneBlockIndexCandidates
  <2>2. abc'.mostWork \in {abc.mostWork, NullHash}
    <3>1. abc \in Calls /\ abc.mostWork \in Hashes /\ NullHash \in Hashes
      BY <1>0, <2>1, Zenon DEF CallsOK, Hashes
    <3>2. abc' \in {abc, EndStep(b, abc.mostWork), EndStep(tip, NullHash)}
      BY <2>0, Zenon DEF ConnectTip, ConnectUnfinalizable
    <3> HIDE DEF b
    <3>3. EndStep(b, abc.mostWork).mostWork \in {abc.mostWork, NullHash}
      BY <3>1, EndStepFacts, Zenon
    <3>4. EndStep(tip, NullHash).mostWork \in {NullHash, NullHash}
      BY <3>1, EndStepFacts, Zenon
    <3> QED BY <3>2, <3>3, <3>4, Zenon
  <2>3. Stored(b)
    BY <1>0, <2>1, StoredFacts, TreeAssumption, Zenon DEF StoredOK
  <2> HIDE DEF b
  <2>4. StoredOK'
    BY <1>0, <2>1, <2>2, <2>3, Zenon DEF StoredOK, Stored
  <2> QED BY <1>0, <2>1, <2>4, MarksOnStored, Zenon DEF Invalid
<1> QED BY <1>1, <1>2, <1>3, <1>4, <1>5, Zenon DEF ActivateBestChain, Hashes

LEMMA UnwindLinked ==
    ASSUME Types, SetsOK', LinkInv, UnwindBlock
    PROVE  LinkInv'
<1> USE DEF have, fails, parks, seqs, disk, LinkInv
<1>0. SetsOK /\ CallsOK /\ KnownOK /\ StoredOK /\ tip \in Blocks /\ Stored(tip)
  BY SMTT(30) DEF Types, StoredOK, CallsOK
<1>1. CASE UnwindTip
  <2>1. /\ UNCHANGED <<known, data, linked, unlinked, saved, savedTip, abc, failedBlocks>>
        /\ tip' = Parent[tip] /\ tip \in Blocks \ {Genesis} /\ unwind.mark \in Blocks \ {Genesis}
        /\ candidates' = candidates \cup {Parent[tip]}
        /\ IF unwind.invalidate
           THEN failed' = UnwindOwn(failed) /\ failedParent' = UnwindParents(failed, failedParent)
                /\ dirty' = dirty \cup {tip} \cup Demoted(failed)
           ELSE UNCHANGED <<failed, failedParent>> /\ dirty \subseteq dirty'
    BY <1>0, <1>1, DisconnectFacts, Zenon DEF UnwindTip, DisconnectTip, CallsOK
  <2>2. unwind'.invalidate = unwind.invalidate /\ unwind'.mark = tip
    BY <1>0, <1>1, Zenon DEF UnwindTip, CallsOK, Unwinds
  <2>3. Stored(Parent[tip])
    BY <1>0, <2>1, ParentFacts, StoredFacts, Zenon
  <2>4. StoredOK'
    BY <1>0, <2>1, <2>2, <2>3, Zenon DEF StoredOK, Stored
  <2>5. CASE ~unwind.invalidate
    BY <1>0, <2>1, <2>4, <2>5, MarksOnStored, Zenon DEF Invalid
  <2>6. CASE unwind.invalidate
    <3>1. Stored(unwind.mark) /\ tip \notin Demoted(failed)
      <4>1. tip = Parent[unwind.mark] => tip # unwind.mark
        BY <2>1, ParentFacts, Zenon
      <4> QED BY <1>0, <2>6, <4>1, Zenon DEF StoredOK, Demoted
    <3>2. /\ Demoted(failed) \subseteq {unwind.mark} \cap failed
          /\ Demoted(failed) # {} => tip \in Ancestors[unwind.mark]
      BY <2>1, ParentFacts, SMTT(30) DEF Demoted
    <3>3. failed' = (failed \cup {tip}) \ Demoted(failed) /\ failedParent' = failedParent \cup Demoted(failed)
          /\ tip \in failed' /\ tip \in dirty' /\ dirty \subseteq dirty'
      BY <2>1, <2>6, <3>1, Zenon DEF UnwindOwn, UnwindParents
    <3>4. \A g \in failed : g \in failed' \/ Ancestors[g] \cap failed' \cap dirty' # {}
      BY <3>2, <3>3, Zenon
    <3>5. \A c \in Blocks : \/ (c \in failed' <=> c \in failed) /\ (c \in failedParent' <=> c \in failedParent)
                            \/ Stored(c)
      BY <1>0, <3>1, <3>2, <3>3, Zenon
    <3>6. Invalid \subseteq Invalid'
      BY <3>3, Zenon DEF Invalid
    <3> QED BY <1>0, <2>1, <2>4, <3>3, <3>4, <3>5, <3>6, MarksOnStored, Zenon
  <2> QED BY <2>5, <2>6, Zenon
<1>2. CASE EndUnwind
  <2>1. /\ UNCHANGED <<known, data, linked, unlinked, saved, savedTip, abc, failedParent, tip>>
        /\ unwind' = NoUnwind /\ candidates' \subseteq candidates \cup linked /\ dirty \subseteq dirty'
        /\ \/ UNCHANGED <<failed, failedBlocks>>
           \/ /\ unwind.invalidate /\ failed' = failed \cup {unwind.mark}
              /\ failedBlocks' = failedBlocks \cup {unwind.mark}
              /\ unwind.mark \in dirty'
    BY <1>2, Zenon DEF EndUnwind, CandidatesAgain
  <2>2. StoredOK'
    BY <1>0, <2>1, Zenon DEF StoredOK, Stored, KnownOK, NoUnwind
  <2>3. \A c \in Blocks : (c \in failed' <=> c \in failed) \/ Stored(c)
    BY <1>0, <2>1, Zenon DEF StoredOK
  <2>4. Invalid \subseteq Invalid' /\ failed \subseteq failed'
        /\ \A f \in failedBlocks' : f \in failedBlocks \/ f \in failed' \cap dirty'
    BY <2>1, Zenon DEF Invalid
  <2> QED BY <1>0, <2>1, <2>2, <2>3, <2>4, MarksOnStored, Zenon
<1> QED BY <1>1, <1>2, Zenon DEF UnwindBlock

LEMMA CommandLinked ==
    ASSUME Types, SetsOK', LinkInv, NothingInvalidated, Command
    PROVE  LinkInv'
<1> USE DEF have, fails, parks, seqs, disk, LinkInv
<1>0. SetsOK /\ CallsOK /\ KnownOK /\ StoredOK /\ tip \in Blocks /\ Stored(tip)
  BY Zenon DEF Types, StoredOK, CallsOK
<1> SUFFICES ASSUME UNCHANGED <<known, data, linked, unlinked, saved, savedTip, abc, tip, failed, failedParent>>,
                    failedBlocks' \subseteq failedBlocks, dirty \subseteq dirty',
                    candidates' \subseteq candidates \cup linked,
                    unwind'.invalidate => unwind = unwind' \/ Stored(unwind'.mark)
             PROVE  LinkInv'
  <2>1. PICK b \in Blocks :
            \/ PreciousBlock(b) \/ FinalizeBlock(b) \/ ResetBlockFailureFlags(b)
            \/ UnparkBlockAndChildren(b) \/ \E inv \in BOOLEAN : BeginUnwind(b, inv)
    BY Zenon DEF Command
  <2>2. ~ResetBlockFailureFlags(b) /\ ~BeginUnwind(b, TRUE)
    BY Zenon DEF ResetBlockFailureFlags, BeginUnwind, CommandStarts, NothingInvalidated
  <2>3. CASE PreciousBlock(b) \/ UnparkBlockAndChildren(b)
    <3>1. UNCHANGED <<known, data, linked, unlinked, saved, savedTip, abc, tip, failed, failedParent, unwind>>
      BY <2>3, Zenon DEF PreciousBlock, UnparkBlockAndChildren
    <3>2. /\ failedBlocks' \subseteq failedBlocks /\ dirty \subseteq dirty'
          /\ candidates' \subseteq candidates \cup linked
      BY <2>3, Zenon DEF PreciousBlock, UnparkBlockAndChildren, Returning, Healed, Eligible
    <3> QED BY <3>1, <3>2, Zenon
  <2>4. CASE BeginUnwind(b, FALSE)
    <3>1. /\ UNCHANGED <<known, data, linked, unlinked, saved, savedTip, abc, tip, failed, failedParent,
                         failedBlocks, dirty, candidates>>
          /\ unwind' = [target |-> b, mark |-> b, invalidate |-> FALSE, locked |-> FALSE]
      BY <2>4, Zenon DEF BeginUnwind
    <3>2. ~unwind'.invalidate
      BY <3>1, Zenon
    <3> QED BY <3>1, <3>2, Zenon
  <2>5. CASE FinalizeBlock(b)
    <3>1. UNCHANGED <<known, data, linked, unlinked, saved, savedTip, abc, tip, failed, failedParent>>
      BY <2>5, Zenon DEF FinalizeBlock
    <3>2. /\ failedBlocks' \subseteq failedBlocks /\ dirty \subseteq dirty'
          /\ candidates' \subseteq candidates \cup linked
      BY <2>5, Zenon DEF FinalizeBlock, Returning, Healed
    <3>3. unwind'.invalidate => unwind = unwind' \/ Stored(unwind'.mark)
      <4>1. CASE AreOnTheSameFork(b, tip)
        BY <2>5, <4>1, Zenon DEF FinalizeBlock
      <4>2. CASE ~AreOnTheSameFork(b, tip)
        <5> DEFINE next == CHOOSE c \in Ancestors[tip] : Height[c] = Height[FindFork(b)] + 1
        <5>1. unwind' = [target |-> next, mark |-> next, invalidate |-> TRUE, locked |-> TRUE]
          BY <2>5, <4>2, Zenon DEF FinalizeBlock
        <5> HIDE DEF next
        <5>2. next \in Ancestors[tip]
          BY <1>0, <4>2, ForkChildFacts, Zenon DEF next
        <5>3. unwind'.mark = next
          BY <5>1, Zenon
        <5> QED BY <1>0, <5>2, <5>3, StoredFacts, Zenon
      <4> QED BY <4>1, <4>2, Zenon
    <3> QED BY <3>1, <3>2, <3>3, Zenon
  <2> QED BY <2>1, <2>2, <2>3, <2>4, <2>5, Zenon
<1>1. StoredOK'
  BY <1>0, Zenon DEF StoredOK, Stored, KnownOK
<1>2. Invalid' = Invalid
  BY Zenon DEF Invalid
<1> QED BY <1>0, <1>1, <1>2, MarksOnStored, Zenon

LEMMA ClosedDown ==
    ASSUME NEW S \in SUBSET Blocks, Closed(S), NEW b \in S
    PROVE  Ancestors[b] \subseteq S
<1> DEFINE T == {c \in Blocks : c \in S => Ancestors[c] \subseteq S}
<1>1. Genesis \in T
  BY AncestorsAssumption, TreeAssumption, Zenon
<1>2. \A c \in Blocks \ {Genesis} : Parent[c] \in T => c \in T
  BY AncestorsAssumption, Zenon DEF Closed
<1>3. T = Blocks
  <2> HIDE DEF T
  <2>1. T \in SUBSET Blocks
    BY Zenon DEF T
  <2> QED BY <1>1, <1>2, <2>1, TreeInduction, Zenon
<1> QED BY <1>3, Zenon

(* AcceptBlockHeader finds a failed block below and marks what is between: *)
(* that one is stored, so whatever is missing is among the marked blocks.  *)
LEMMA HeaderLinked ==
    ASSUME Types, LinkInv, NEW b \in Blocks \ {Genesis}, AcceptBlockHeader(b)
    PROVE  LinkInv'
<1> USE DEF have, fails, parks, seqs, disk, LinkInv
<1>0. /\ SetsOK /\ KnownOK /\ StoredOK /\ WaitingOK /\ DiskOK
      /\ UNCHANGED <<data, linked, unlinked, failed, saved, savedTip, candidates, failedBlocks, tip,
                     abc, unwind>>
      /\ HeaderChecks(b) /\ Parent[b] \in known /\ Parent[b] \in Blocks /\ b \notin known
  BY TreeAssumption, Zenon DEF Types, AcceptBlockHeader, HeaderChecks
<1>1. StoredOK'
  BY <1>0, Zenon DEF StoredOK, Stored
<1>2. LoadLinked' = LoadLinked /\ SavedInvalid' = SavedInvalid
  BY <1>0, Zenon DEF LoadLinked, SavedInvalid
<1>3. CASE known' = known \cup {b} /\ dirty' = dirty \cup {b} /\ UNCHANGED failedParent
  <2>1. KnownOK'
    <3>1. ~Stored(b)
      BY <1>0, TreeFacts, Zenon DEF KnownOK, Stored, Line
    <3> QED BY <1>0, <1>3, <3>1, Zenon DEF KnownOK, Closed, Stored, Invalid
  <2>2. WaitingOK'
    BY <1>0, <1>3, SMTT(30) DEF WaitingOK, Doomed, Invalid
  <2>3. DiskOK'
    BY <1>0, <1>2, <1>3, Zenon DEF DiskOK, Closed
  <2> QED BY <1>1, <2>1, <2>2, <2>3, Zenon
<1>4. ASSUME NEW f \in FailedAncestors(b),
             failedParent' = failedParent \cup (Ancestors[Parent[b]] \ Ancestors[f]),
             dirty' = dirty \cup (Ancestors[Parent[b]] \ Ancestors[f]), UNCHANGED known
      PROVE  LinkInv'
  <2> DEFINE walk == Ancestors[Parent[b]] \ Ancestors[f]
  <2>1. f \in failedBlocks /\ f \in Ancestors[Parent[b]] /\ f \in Blocks /\ Stored(f)
    BY <1>0, Zenon DEF FailedAncestors, StoredOK, SetsOK
  <2>2. walk \subseteq known /\ walk \subseteq Blocks
    BY <1>0, ClosedDown, Zenon DEF KnownOK, SetsOK
  <2>3. \A c \in walk : f \in Ancestors[c] /\ Ancestors[c] \subseteq Ancestors[Parent[b]]
    BY <1>0, <2>1, TreeFacts, Zenon DEF Line
  <2>4. KnownOK'
    BY <1>0, <1>4, <2>2, Zenon DEF KnownOK, Closed, Stored, Invalid
  <2>5. WaitingOK'
    <3>1. \A c \in data \ linked : c \in unlinked \/ Doomed(c)'
      BY <1>0, <1>4, Zenon DEF WaitingOK, Doomed, Invalid
    <3>2. ASSUME NEW c \in Invalid' \ linked PROVE Doomed(c)'
      <4>1. CASE c \in Invalid
        BY <1>0, <1>4, <3>2, <4>1, Zenon DEF WaitingOK, Doomed, Invalid
      <4>2. CASE c \notin Invalid
        <5>1. c \in walk
          BY <1>0, <1>4, <3>2, <4>2, Zenon DEF Invalid
        <5>2. PICK x \in Ancestors[c] : x \notin data
          BY <1>0, <2>2, <3>2, <5>1, Zenon DEF KnownOK, Stored
        <5>3. x \in walk
          BY <2>1, <2>3, <5>1, <5>2, Zenon DEF Stored
        <5> QED BY <1>0, <1>4, <5>2, <5>3, Zenon DEF Doomed, Invalid
      <4> QED BY <4>1, <4>2, Zenon
    <3>3. ASSUME NEW c \in (failedParent' \ linked) \cup failedBlocks
          PROVE  Ancestors[c] \cap failed \cap (dirty' \cup saved.failed) # {}
      <4>1. CASE c \in (failedParent \ linked) \cup failedBlocks
        BY <1>0, <1>4, <4>1, Zenon DEF WaitingOK
      <4>2. CASE c \in walk
        <5>1. PICK g \in Ancestors[f] : g \in failed /\ g \in dirty \cup saved.failed
          BY <1>0, <2>1, Zenon DEF WaitingOK
        <5>2. c \in Blocks /\ f \in Ancestors[c]
          BY <2>2, <2>3, <4>2, Zenon
        <5>3. g \in Ancestors[c]
          BY <5>1, <5>2, TreeFacts, Zenon DEF Line
        <5> QED BY <1>4, <5>1, <5>3, Zenon
      <4> QED BY <1>4, <3>3, <4>1, <4>2, Zenon
    <3> QED BY <1>0, <3>1, <3>2, <3>3, Zenon DEF WaitingOK
  <2>6. DiskOK'
    BY <1>0, <1>2, <1>4, Zenon DEF DiskOK, Closed
  <2> QED BY <1>1, <2>4, <2>5, <2>6, Zenon
<1> QED BY <1>3, <1>4, Zenon DEF AcceptBlockHeader

(* A block that arrives links exactly the stored blocks that miss nothing  *)
(* else; it is not invalid, so a block that waits in vain goes on to.      *)
LEMMA ReceivedLinked ==
    ASSUME SetsOK, SeqsOK, LinkInv, NEW b \in Blocks \ {Genesis}, b \notin data, b \notin Invalid,
           Parent[b] \in known, known' = known \cup {b}, UNCHANGED <<failed, failedParent>>,
           ReceivedBlockTransactions(b)
    PROVE  /\ linked \subseteq linked' /\ linked' = {c \in known' : Stored(c)'}
           /\ \A c \in data' \ linked' : c \in unlinked' \/ Doomed(c)'
           /\ \A c \in candidates' : c \in candidates \/ Stored(c)'
<1> USE DEF LinkInv
<1>0. data' = data \cup {b} /\ Invalid' = Invalid
  BY Zenon DEF ReceivedBlockTransactions, Invalid
<1>1. /\ Parent[b] \in Blocks /\ b \notin Ancestors[Parent[b]] /\ b \in Ancestors[b]
      /\ Ancestors[b] = {b} \cup Ancestors[Parent[b]]
  BY ParentFacts, SMTT(30)
<1>2. \A c \in Blocks : Doomed(c) => Doomed(c)'
  BY <1>0, Zenon DEF Doomed
<1>3. CASE Parent[b] \in linked
  <2>1. /\ linked' = linked \cup Links(b) /\ candidates' \subseteq candidates \cup Links(b)
        /\ unlinked' = unlinked \ Links(b)
    BY <1>3, Zenon DEF ReceivedBlockTransactions
  <2>2. Ancestors[b] \subseteq data'
    BY <1>0, <1>1, <1>3, Zenon DEF KnownOK, Stored
  <2>3. ASSUME NEW c \in Links(b) PROVE Stored(c)' /\ c \in known'
    <3>1. Stored(c)' /\ c \in Blocks
      BY <1>0, <2>2, LinksFacts, Zenon DEF SeqsOK, Stored
    <3> QED BY <1>0, <3>1, TreeFacts, Zenon DEF Stored, Line, KnownOK
  <2>4. ASSUME NEW c \in known', Stored(c)', c \notin linked PROVE c \in Links(b)
    <3>1. c \in Blocks /\ b \in Ancestors[c]
      BY <1>0, <1>1, <2>4, Zenon DEF SetsOK, KnownOK, Stored
    <3>2. ASSUME NEW y \in Ancestors[c] \ Ancestors[b] PROVE y \in unlinked
      <4>1. b \in Ancestors[y] /\ y \in Blocks /\ Ancestors[y] \subseteq Ancestors[c]
        BY <3>1, <3>2, TreeFacts, Zenon DEF Line
      <4>2. y \in data \ linked
        BY <1>0, <1>1, <2>4, <3>2, <4>1, Zenon DEF KnownOK, Stored
      <4>3. ~Doomed(y)
        BY <1>0, <2>4, <4>1, Zenon DEF Doomed, Stored
      <4> QED BY <4>2, <4>3, Zenon DEF WaitingOK
    <3> QED BY <3>1, <3>2, Zenon DEF Links, Descendants
  <2>5. \A c \in linked : Stored(c)' /\ c \in known'
    BY <1>0, Zenon DEF KnownOK, Stored
  <2>6. b \in linked'
    BY <1>0, <2>1, <2>2, <2>4, Zenon DEF Stored
  <2>7. \A c \in data' \ linked' : c \in unlinked' \/ Doomed(c)'
    BY <1>0, <1>2, <2>1, <2>6, Zenon DEF WaitingOK, SetsOK
  <2> QED BY <2>1, <2>3, <2>4, <2>5, <2>7, Zenon
<1>4. CASE Parent[b] \notin linked
  <2>1. UNCHANGED <<linked, candidates>> /\ unlinked' = unlinked \cup Waits(b)
    BY <1>4, Zenon DEF ReceivedBlockTransactions
  <2>2. PICK z \in Ancestors[Parent[b]] : z \notin data
    BY <1>4, Zenon DEF KnownOK, Stored
  <2>3. ASSUME NEW c \in known', Stored(c)' PROVE c \in linked
    <3>1. b \notin Ancestors[c]
      <4> SUFFICES ASSUME b \in Ancestors[c] PROVE FALSE
        BY Zenon
      <4>1. z \in Ancestors[c] /\ z # b
        BY <1>1, <2>2, <2>3, TreeFacts, Zenon DEF Line, SetsOK
      <4> QED BY <1>0, <2>2, <2>3, <4>1, Zenon DEF Stored
    <3> QED BY <1>0, <1>1, <2>3, <3>1, Zenon DEF KnownOK, Stored
  <2>4. \A c \in linked : Stored(c)' /\ c \in known'
    BY <1>0, Zenon DEF KnownOK, Stored
  <2>5. b \in unlinked' \/ Doomed(b)'
    <3>1. CASE isInvalid(Parent[b])
      <4>1. Doomed(Parent[b])
        BY <1>4, <3>1, Zenon DEF WaitingOK, isInvalid, Invalid
      <4> QED BY <1>0, <1>1, <4>1, Zenon DEF Doomed
    <3>2. CASE ~isInvalid(Parent[b])
      BY <2>1, <3>2, Zenon DEF Waits
    <3> QED BY <3>1, <3>2, Zenon
  <2>6. \A c \in data' \ linked' : c \in unlinked' \/ Doomed(c)'
    BY <1>0, <1>2, <2>1, <2>5, Zenon DEF WaitingOK, SetsOK
  <2> QED BY <2>1, <2>3, <2>4, <2>6, Zenon
<1> QED BY <1>3, <1>4, Zenon

LEMMA BlockLinked ==
    ASSUME Types, LinkInv, NEW b \in Blocks \ {Genesis}, AcceptBlock(b)
    PROVE  LinkInv'
<1> USE DEF have, fails, parks, seqs, disk, LinkInv
<1>0. /\ SetsOK /\ SeqsOK /\ KnownOK /\ StoredOK /\ WaitingOK /\ DiskOK
      /\ UNCHANGED <<failedParent, saved, savedTip, failedBlocks, tip, abc, unwind>>
      /\ known' = known \cup {b} /\ dirty' = dirty \cup {b} /\ b \notin data
  BY Zenon DEF Types, AcceptBlock
<1>1. Parent[b] \in known /\ b \notin Invalid
  BY Zenon DEF AcceptBlock, HeaderChecks, KnownOK, Closed, Invalid, isInvalid
<1>2. LoadLinked' = LoadLinked /\ SavedInvalid' = SavedInvalid
  BY <1>0, Zenon DEF LoadLinked, SavedInvalid
<1>3. CASE b \in BadContext
  <2>1. failed' = failed \cup {b} /\ UNCHANGED <<data, linked, unlinked, candidates>>
    BY <1>3, Zenon DEF AcceptBlock
  <2>2. ~Stored(b) /\ b \in Ancestors[b]
    BY <1>0, TreeFacts, Zenon DEF Stored, Line
  <2>3. KnownOK'
    BY <1>0, <1>1, <2>1, <2>2, Zenon DEF KnownOK, Closed, Stored, Invalid
  <2>4. StoredOK'
    BY <1>0, <2>1, Zenon DEF StoredOK, Stored
  <2>5. WaitingOK'
    <3>1. \A c \in data \ linked : c \in unlinked \/ Doomed(c)'
      BY <1>0, <2>1, Zenon DEF WaitingOK, Doomed, Invalid
    <3>2. \A c \in Invalid' \ linked : Doomed(c)'
      BY <1>0, <2>1, <2>2, Zenon DEF WaitingOK, Doomed, Invalid
    <3>3. \A c \in (failedParent \ linked) \cup failedBlocks :
              Ancestors[c] \cap failed' \cap (dirty' \cup saved.failed) # {}
      BY <1>0, <2>1, Zenon DEF WaitingOK
    <3> QED BY <1>0, <2>1, <3>1, <3>2, <3>3, Zenon DEF WaitingOK
  <2>6. DiskOK'
    BY <1>0, <1>2, <2>1, Zenon DEF DiskOK, Closed
  <2> QED BY <2>3, <2>4, <2>5, <2>6, Zenon
<1>4. CASE b \notin BadContext
  <2>1. failed' = failed /\ ReceivedBlockTransactions(b) /\ data' = data \cup {b}
    BY <1>4, Zenon DEF AcceptBlock, ReceivedBlockTransactions
  <2>2. /\ linked \subseteq linked' /\ linked' = {c \in known' : Stored(c)'}
        /\ \A c \in data' \ linked' : c \in unlinked' \/ Doomed(c)'
        /\ \A c \in candidates' : c \in candidates \/ Stored(c)'
    BY <1>0, <1>1, <2>1, ReceivedLinked, Zenon
  <2>3. Invalid' = Invalid
    BY <1>0, <2>1, Zenon DEF Invalid
  <2>4. KnownOK'
    BY <1>0, <1>1, <2>1, <2>2, <2>3, Zenon DEF KnownOK, Closed
  <2>5. StoredOK'
    BY <1>0, <2>1, <2>2, Zenon DEF StoredOK, Stored
  <2>6. WaitingOK'
    <3>1. \A c \in Invalid' \ linked' : Doomed(c)'
      BY <1>0, <1>1, <2>1, <2>2, <2>3, SMTT(30) DEF WaitingOK, Doomed
    <3>2. \A c \in (failedParent' \ linked') \cup failedBlocks' :
              Ancestors[c] \cap failed' \cap (dirty' \cup saved'.failed) # {}
      BY <1>0, <2>1, <2>2, SMTT(30) DEF WaitingOK
    <3> QED BY <2>2, <3>1, <3>2, Zenon DEF WaitingOK
  <2>7. DiskOK'
    BY <1>0, <1>2, <2>1, <2>2, Zenon DEF DiskOK, Closed
  <2> QED BY <2>4, <2>5, <2>6, <2>7, SMTT(30)
<1> QED BY <1>3, <1>4, Zenon

(* The block tree database catches up: it then has what is stored, and the *)
(* marks of all blocks that are not connected.                             *)
LEMMA FlushLinked ==
    ASSUME Types, LinkInv, NEW coins \in BOOLEAN, FlushStateToDisk(coins)
    PROVE  LinkInv'
<1> USE DEF have, fails, parks, seqs, disk, LinkInv
<1>0. /\ SetsOK /\ KnownOK /\ StoredOK /\ WaitingOK /\ DiskOK
      /\ UNCHANGED <<known, data, linked, unlinked, failed, failedParent, candidates, failedBlocks,
                     tip, abc, unwind>>
      /\ dirty' = {} /\ savedTip' \in {tip, savedTip}
  BY Zenon DEF Types, FlushStateToDisk
<1>1. /\ saved'.known = Written(saved.known, known) /\ saved'.data = Written(saved.data, data)
      /\ saved'.failed = Written(saved.failed, failed)
      /\ saved'.failedParent = Written(saved.failedParent, failedParent)
  BY Zenon DEF FlushStateToDisk
<1>2. saved'.known = known /\ saved'.data = data
  BY <1>0, <1>1, Zenon DEF Written, DiskOK
<1>3. \A b \in Blocks \ linked : /\ b \in failed <=> b \in saved'.failed
                                 /\ b \in failedParent <=> b \in saved'.failedParent
  BY <1>0, <1>1, Zenon DEF Written, DiskOK
<1>4. saved'.failed \subseteq known /\ saved'.failedParent \subseteq known
  BY <1>0, <1>1, Zenon DEF Written, DiskOK, SavedInvalid, KnownOK, Invalid
<1>5. failed \cap (dirty \cup saved.failed) \subseteq saved'.failed
  BY <1>1, Zenon DEF Written
<1>6. LoadLinked' = linked
  BY <1>0, <1>2, Zenon DEF LoadLinked, KnownOK, Stored
<1>7. Invalid' = Invalid
  BY <1>0, Zenon DEF Invalid
<1>8. KnownOK' /\ StoredOK'
  BY <1>0, <1>7, Zenon DEF KnownOK, StoredOK, Closed, Stored
<1>9. WaitingOK'
  <2>1. \A b \in (failedParent \ linked) \cup failedBlocks : Ancestors[b] \cap failed \cap saved'.failed # {}
    BY <1>0, <1>5, Zenon DEF WaitingOK
  <2> QED BY <1>0, <1>7, <2>1, Zenon DEF WaitingOK, Doomed
<1>10. DiskOK'
  <2>1. \A b \in SavedInvalid' \ linked : \E a \in Ancestors[b] \ data : a \in SavedInvalid'
    <3> SUFFICES ASSUME NEW b \in SavedInvalid' \ linked
                 PROVE  \E a \in Ancestors[b] \ data : a \in SavedInvalid'
      BY Zenon
    <3>1. b \in Blocks /\ b \in Invalid
      BY <1>0, <1>3, <1>4, Zenon DEF SavedInvalid, Invalid, SetsOK
    <3>2. PICK a \in Ancestors[b] \ data : a \in Invalid
      BY <1>0, <3>1, Zenon DEF WaitingOK, Doomed
    <3>3. a \in Blocks \ linked
      <4>1. a \in Blocks /\ a \in Ancestors[a]
        BY <3>1, <3>2, TreeFacts, Zenon DEF Line
      <4> QED BY <1>0, <3>2, <4>1, Zenon DEF KnownOK, Stored
    <3> QED BY <1>3, <3>2, <3>3, Zenon DEF SavedInvalid, Invalid
  <2>2. \A b \in saved'.failedParent \ linked : Ancestors[b] \cap saved'.failed # {}
    BY <1>0, <1>3, <1>4, <1>5, Zenon DEF WaitingOK, SetsOK
  <2>3. savedTip' # NullHash => Ancestors[savedTip'] \subseteq data
    BY <1>0, Zenon DEF StoredOK, Stored, DiskOK
  <2> QED BY <1>0, <1>2, <1>3, <1>4, <1>6, <2>1, <2>2, <2>3, Zenon DEF DiskOK, KnownOK, Closed, SavedInvalid
<1> QED BY <1>8, <1>9, <1>10, Zenon

(* LoadBlockIndex links what the block tree database has, and everything   *)
(* else that is stored waits.                                              *)
LEMMA RestartLinked ==
    ASSUME Types, LinkInv, Restart
    PROVE  LinkInv'
<1> USE DEF LinkInv
<1> DEFINE orphans == {b \in saved.known \ ({Genesis} \cup saved.failed) : Parent[b] \in saved.failed}
<1>0. /\ SetsOK /\ DiskOK /\ UNCHANGED <<saved, savedTip>> /\ savedTip # NullHash
      /\ known' = saved.known /\ data' = saved.data /\ failed' = saved.failed
      /\ failedParent' = saved.failedParent \cup orphans /\ dirty' = orphans
      /\ linked' = LoadLinked /\ unlinked' = LoadUnlinked /\ tip' = savedTip
      /\ failedBlocks' = {} /\ abc' = Idle /\ unwind' = NoUnwind
      /\ candidates' \subseteq LoadLinked
  BY Zenon DEF Types, Restart, LoadCandidates
<1>1. saved.known \subseteq Blocks
  BY <1>0, Zenon DEF SetsOK, Saved
<1>2. orphans \subseteq saved.known /\ \A b \in orphans : b # Genesis /\ Parent[b] \in saved.failed
  BY Zenon
<1> HIDE DEF orphans
<1>3. Invalid' = SavedInvalid \cup orphans
  BY <1>0, Zenon DEF Invalid, SavedInvalid
<1>4. KnownOK'
  BY <1>0, <1>2, <1>3, Zenon DEF KnownOK, DiskOK, LoadLinked, Stored, Closed
<1>5. StoredOK'
  BY <1>0, Zenon DEF StoredOK, Stored, LoadLinked, DiskOK, Idle, NoUnwind
<1>6. WaitingOK'
  <2>1. \A b \in data' \ linked' : b \in unlinked'
    BY <1>0, Zenon DEF LoadUnlinked
  <2>2. \A b \in SavedInvalid \ LoadLinked : Doomed(b)'
    BY <1>0, <1>3, Zenon DEF DiskOK, Doomed
  <2>3. ASSUME NEW b \in orphans, b \notin LoadLinked PROVE Doomed(b)'
    <3>1. /\ b \in Blocks \ {Genesis} /\ b \in saved.known /\ b \in Ancestors[b]
          /\ Parent[b] \in saved.failed /\ Parent[b] \in saved.known
          /\ Ancestors[b] = {b} \cup Ancestors[Parent[b]]
      <4>1. b \in Blocks \ {Genesis} /\ b \in saved.known /\ Parent[b] \in saved.failed
        BY <1>1, <1>2, Zenon
      <4>2. Parent[b] \in saved.known
        BY <1>0, <4>1, Zenon DEF DiskOK, SavedInvalid
      <4>3. Ancestors[b] = {b} \cup Ancestors[Parent[b]]
        BY <4>1, ParentFacts, Zenon
      <4> QED BY <4>1, <4>2, <4>3, Zenon
    <3>2. CASE Parent[b] \in LoadLinked
      <4>1. b \notin saved.data
        BY <2>3, <3>1, <3>2, Zenon DEF LoadLinked
      <4> QED BY <1>0, <1>3, <2>3, <3>1, <4>1, Zenon DEF Doomed
    <3>3. CASE Parent[b] \notin LoadLinked
      <4>1. Doomed(Parent[b])'
        BY <2>2, <3>1, <3>3, Zenon DEF SavedInvalid
      <4> QED BY <3>1, <4>1, Zenon DEF Doomed
    <3> QED BY <3>2, <3>3, Zenon
  <2>4. \A b \in Invalid' \ linked' : Doomed(b)'
    BY <1>0, <1>3, <2>2, <2>3, Zenon
  <2>5. ASSUME NEW b \in failedParent' \ linked' PROVE Ancestors[b] \cap saved.failed # {}
    <3>1. CASE b \in saved.failedParent
      BY <1>0, <2>5, <3>1, Zenon DEF DiskOK
    <3>2. CASE b \in orphans
      BY <1>1, <1>2, <3>2, ParentFacts, Zenon
    <3> QED BY <1>0, <2>5, <3>1, <3>2, Zenon
  <2> QED BY <1>0, <2>1, <2>4, <2>5, SMTT(30) DEF WaitingOK
<1>7. DiskOK'
  <2>1. LoadLinked' = LoadLinked /\ SavedInvalid' = SavedInvalid
    BY <1>0, Zenon DEF LoadLinked, SavedInvalid
  <2> QED BY <1>0, <2>1, Zenon DEF DiskOK, Closed
<1> QED BY <1>4, <1>5, <1>6, <1>7, Zenon

LEMMA LinkInit == Init => Types /\ LinkInv
<1> SUFFICES ASSUME Init PROVE LinkInv
  BY InitTypes, Zenon DEF Types
<1>1. /\ known = Headers /\ data = {Genesis} /\ failed = {} /\ failedParent = {} /\ linked = {Genesis}
      /\ unlinked = {} /\ candidates = {Genesis} /\ failedBlocks = {} /\ tip = Genesis
      /\ dirty = Headers /\ saved = NothingSaved /\ savedTip = NullHash /\ abc = Idle
      /\ unwind = NoUnwind
  BY Zenon DEF Init
<1>2. \A b \in Blocks : Stored(b) <=> b = Genesis
  BY <1>1, TreeFacts, AncestorsAssumption, Zenon DEF Stored, Line
<1>3. KnownOK
  BY <1>1, <1>2, ConfigAssumption, Zenon DEF KnownOK, Closed, Invalid
<1>4. StoredOK
  BY <1>1, <1>2, TreeAssumption, Zenon DEF StoredOK, Idle, NoUnwind
<1>5. WaitingOK
  BY <1>1, Zenon DEF WaitingOK, Invalid
<1>6. DiskOK
  BY <1>1, ConfigAssumption, Zenon DEF DiskOK, NothingSaved, SavedInvalid, LoadLinked, Closed
<1> QED BY <1>3, <1>4, <1>5, <1>6, Zenon DEF LinkInv

LEMMA LinkStep ==
    ASSUME NothingInvalidated, Types, LinkInv, [Next]_vars
    PROVE  Types' /\ LinkInv'
<1>1. Types' /\ SetsOK'
  BY TypesStep, Zenon DEF Types
<1>2. CASE UNCHANGED vars
  BY <1>1, <1>2, Zenon
  DEF vars, have, fails, disk, LinkInv, KnownOK, StoredOK, WaitingOK, DiskOK, Closed, Stored, Doomed,
      Invalid, SavedInvalid, LoadLinked
<1> QED BY <1>1, <1>2, HeaderLinked, BlockLinked, ActivateLinked, UnwindLinked, CommandLinked,
           FlushLinked, RestartLinked, Zenon DEF Next, Network, Disk

(* In whatever order headers and blocks arrive, with commands other than   *)
(* invalidateblock and reconsiderblock, flushes and restarts at any point: *)
(* HaveTxsDownloaded says that the data of the block and of its ancestors  *)
(* is there, and a stored block without a failed ancestor that misses an   *)
(* ancestor is in mapBlocksUnlinked.                                       *)
THEOREM ChainStateLinked ==
    ASSUME NothingInvalidated
    PROVE  Spec => []BlocksLinked
<1>1. Init => Types /\ LinkInv
  BY LinkInit, Zenon
<1>2. Types /\ LinkInv /\ [Next]_vars => Types' /\ LinkInv'
  BY LinkStep, Zenon
<1>3. Types /\ LinkInv => BlocksLinked
  <2> SUFFICES ASSUME Types, LinkInv PROVE BlocksLinked
    BY Zenon
  <2>1. ASSUME NEW b \in data \ linked, Ancestors[b] \cap failed = {} PROVE b \in unlinked
    <3> SUFFICES ASSUME Doomed(b) PROVE FALSE
      BY <2>1, Zenon DEF LinkInv, WaitingOK
    <3>1. PICK a \in Ancestors[b] \ data : a \in Invalid
      BY Zenon DEF Doomed
    <3>2. b \in Blocks /\ a \in Blocks /\ a \in Ancestors[a] /\ Ancestors[a] \subseteq Ancestors[b]
      BY <2>1, <3>1, TreeFacts, Zenon DEF Types, SetsOK, Line
    <3>3. a \in failedParent \ linked
      BY <2>1, <3>1, <3>2, Zenon DEF Invalid, LinkInv, KnownOK, Stored
    <3> QED BY <2>1, <3>2, <3>3, Zenon DEF LinkInv, WaitingOK
  <2> QED BY <2>1, TypesGiveTypeOK, Zenon DEF Types, LinkInv, KnownOK, Stored, BlocksLinked
<1> QED BY <1>1, <1>2, <1>3, PTL DEF Spec

-----------------------------------------------------------------------------
(* setBlockIndexCandidates and the choice of the best chain, when no block *)
(* is finalized.                                                           *)

(* -maxreorgdepth=-1, and unparkblock is the operator's only command.      *)
(* Headers, blocks, calls of ActivateBestChain, unparking, flushes and     *)
(* restarts interleave as they may (README, "Limits of the passing runs"). *)
WorkDecides == MaxReorgDepth < 0 /\ Commands \subseteq {"unpark"}

-----------------------------------------------------------------------------
(* CBlockIndexWorkComparator.                                              *)

LEMMA WorkGrows == \A b \in Blocks : \A a \in Ancestors[b] : a = b \/ Work[a] < Work[b]
<1> DEFINE S == {b \in Blocks : \A a \in Ancestors[b] : a = b \/ Work[a] < Work[b]}
<1>1. Genesis \in S
  BY AncestorsAssumption, TreeAssumption, Zenon
<1>2. ASSUME NEW b \in Blocks \ {Genesis}, Parent[b] \in S PROVE b \in S
  <2>1. /\ Ancestors[b] = {b} \cup Ancestors[Parent[b]] /\ Parent[b] \in Blocks
        /\ Work[Parent[b]] < Work[b] /\ \A c \in Blocks : Work[c] \in Nat
        /\ \A a \in Ancestors[b] : a \in Blocks
    BY AncestorsAssumption, TreeAssumption, WorkAssumption, Zenon
  <2>2. ASSUME NEW a \in Ancestors[b], a # b PROVE Work[a] < Work[b]
    <3>1. a \in Ancestors[Parent[b]] /\ (a = Parent[b] \/ Work[a] < Work[Parent[b]])
      BY <1>2, <2>1, <2>2, Zenon
    <3>2. Work[a] \in Nat /\ Work[b] \in Nat /\ Work[Parent[b]] \in Nat
      BY <2>1, Zenon
    <3> QED BY <2>1, <3>1, <3>2
  <2> QED BY <2>2, Zenon
<1>3. S \in SUBSET Blocks
  BY Zenon
<1>4. S = Blocks
  <2> HIDE DEF S
  <2> QED BY <1>1, <1>2, <1>3, TreeInduction, Zenon
<1> QED BY <1>4, Zenon

(* It is a strict total order in which the blocks of a chain go up.        *)
OrderedBy(ids) ==
    /\ \A a \in Blocks : ~WorseBy(ids, a, a)
    /\ \A a, b \in Blocks : a = b \/ WorseBy(ids, a, b) \/ WorseBy(ids, b, a)
    /\ \A a, b \in Blocks : WorseBy(ids, a, b) => ~WorseBy(ids, b, a)
    /\ \A a, b, c \in Blocks : WorseBy(ids, a, b) /\ ~WorseBy(ids, c, b) => WorseBy(ids, a, c)
    /\ \A a, b, c \in Blocks : ~WorseBy(ids, b, a) /\ WorseBy(ids, b, c) => WorseBy(ids, a, c)
    /\ \A b \in Blocks : \A a \in Ancestors[b] : a = b \/ WorseBy(ids, a, b)

LEMMA WorseOrder == ASSUME NEW ids \in [Blocks -> Int] PROVE OrderedBy(ids)
<1>0. \A a \in Blocks : Work[a] \in Nat /\ ids[a] \in Int /\ Addr[a] \in Nat
  BY WorkAssumption
<1>1. \A a \in Blocks : ~WorseBy(ids, a, a)
  BY <1>0 DEF WorseBy
<1>2. ASSUME NEW a \in Blocks, NEW b \in Blocks PROVE a = b \/ WorseBy(ids, a, b) \/ WorseBy(ids, b, a)
  <2>1. Addr[a] = Addr[b] => a = b
    BY WorkAssumption, Zenon
  <2> QED BY <1>0, <2>1 DEF WorseBy
<1>3. ASSUME NEW a \in Blocks, NEW b \in Blocks, NEW c \in Blocks,
             WorseBy(ids, a, b) /\ ~WorseBy(ids, c, b)
      PROVE  WorseBy(ids, a, c)
  BY <1>0, <1>3 DEF WorseBy
<1>4. ASSUME NEW a \in Blocks, NEW b \in Blocks, NEW c \in Blocks,
             ~WorseBy(ids, b, a) /\ WorseBy(ids, b, c)
      PROVE  WorseBy(ids, a, c)
  BY <1>0, <1>4 DEF WorseBy
<1>5. \A b \in Blocks : \A a \in Ancestors[b] : a = b \/ WorseBy(ids, a, b)
  BY WorkGrows, Zenon DEF WorseBy
<1>6. \A a, b \in Blocks : WorseBy(ids, a, b) => ~WorseBy(ids, b, a)
  BY <1>0 DEF WorseBy
<1> QED BY <1>1, <1>2, <1>3, <1>4, <1>5, <1>6, Zenon DEF OrderedBy

-----------------------------------------------------------------------------
(* The marks.                                                              *)

Marked == failed \cup failedParent \cup parked \cup parkedParent
SavedMarked == saved.failed \cup saved.failedParent \cup saved.parked \cup saved.parkedParent
Clean(b) == Ancestors[b] \cap Marked = {}
Downward(S) == \A b \in S : Ancestors[b] \subseteq S
InLoop == abc.pc \in {"loop", "step"}

NoneFinal == finalized = NullHash /\ unwind = NoUnwind

(* Blocks that were connected once never get a mark, and with them the     *)
(* blocks below; what ActivateBestChain goes to has none.                  *)
FlagsOK ==
    /\ scripts \subseteq data /\ Downward(scripts) /\ scripts \cap (Marked \cup BadConnect) = {}
    /\ Ancestors[tip] \subseteq scripts
    /\ InLoop => abc.start \in scripts
    /\ abc.mostWork # NullHash => Clean(abc.mostWork)
    /\ failedBlocks \subseteq failed /\ Inherited(failed, failedParent)

(* The same of the block tree database, which knows what was connected     *)
(* when the coins were written.                                            *)
SavedOK ==
    /\ saved.scripts \subseteq scripts /\ scripts \subseteq saved.scripts \cup dirty
    /\ saved.failed \subseteq failed /\ failed \subseteq saved.failed \cup dirty
    /\ saved.failedParent \subseteq failedParent
    /\ saved.scripts \subseteq saved.data /\ Downward(saved.scripts)
    /\ saved.scripts \cap (SavedMarked \cup BadConnect) = {}
    /\ Inherited(saved.failed, saved.failedParent)
    /\ savedTip # NullHash => Ancestors[savedTip] \subseteq saved.scripts

(* A block without a mark that sorts at least as well as the tip and the   *)
(* tip that the loop began with is a candidate; no candidate sorts worse   *)
(* than the tip.  While the active chain is taken down it is not better    *)
(* than at the start, and where it goes to is not worse.                   *)
OrderOK ==
    /\ \A b \in linked \ Marked :
          b \in candidates \/ Worse(b, tip) \/ (InLoop /\ Worse(b, abc.start))
    /\ \A c \in candidates : c \in linked /\ ~Worse(c, tip)
    /\ abc.pc = "loop" \/ (abc.pc = "step" /\ tip \notin Ancestors[abc.mostWork])
          => ~Worse(abc.start, tip)
    /\ InLoop /\ abc.mostWork # NullHash => ~Worse(abc.mostWork, abc.start)
    /\ abc.pc = "released" /\ abc.mostWork # NullHash => tip \in Ancestors[abc.mostWork]

CandInv == NoneFinal /\ FlagsOK /\ SavedOK /\ OrderOK

LEMMA CandInit == Init => CandInv
<1> SUFFICES ASSUME Init PROVE CandInv
  BY Zenon
<1>1. /\ data = {Genesis} /\ scripts = {Genesis} /\ linked = {Genesis} /\ candidates = {Genesis}
      /\ failed = {} /\ failedParent = {} /\ parked = {} /\ parkedParent = {} /\ failedBlocks = {}
      /\ tip = Genesis /\ abc = Idle /\ saved = NothingSaved /\ savedTip = NullHash /\ dirty = Headers
      /\ finalized = NullHash /\ unwind = NoUnwind /\ abc.pc = "idle" /\ abc.mostWork = NullHash
  BY Zenon DEF Init, Idle
<1>2. OrderedBy(seq)
  BY InitTypes, WorseOrder, Zenon DEF SeqsOK
<1>3. FlagsOK
  BY <1>1, AncestorsAssumption, ConfigAssumption, Zenon
  DEF FlagsOK, Downward, Marked, InLoop, Inherited
<1>4. SavedOK
  BY <1>1, ConfigAssumption, Zenon DEF SavedOK, Downward, SavedMarked, Inherited, NothingSaved
<1>5. OrderOK
  BY <1>1, <1>2, TreeAssumption, Zenon DEF OrderOK, OrderedBy, Worse, InLoop
<1> QED BY <1>1, <1>3, <1>4, <1>5, Zenon DEF CandInv, NoneFinal

-----------------------------------------------------------------------------
(* A new mark is on a block that is not stored, above a block that has one *)
(* already, or on a block that ConnectBlock refuses.                       *)
LEMMA FlagsKept ==
    ASSUME SetsOK, CallsOK, LinkInv, FlagsOK, scripts' = scripts, data \subseteq data',
           Ancestors[tip'] \subseteq scripts, InLoop' => abc'.start \in scripts,
           abc'.mostWork \in {abc.mostWork, NullHash},
           \A b \in Marked' : /\ b \in Blocks
                              /\ \/ Ancestors[b] \cap Marked # {} \/ b \notin data
                                 \/ (b \in BadConnect /\ abc'.mostWork = NullHash),
           failedBlocks' \subseteq failed', Inherited(failed', failedParent')
    PROVE  FlagsOK'
<1>1. scripts' \cap Marked' = {}
  BY Zenon DEF FlagsOK, Downward
<1>2. ASSUME abc'.mostWork # NullHash PROVE Ancestors[abc'.mostWork] \cap Marked' = {}
  <2>1. /\ abc'.mostWork = abc.mostWork /\ abc.mostWork \in Blocks
        /\ Ancestors[abc.mostWork] \cap Marked = {} /\ Ancestors[abc.mostWork] \subseteq data
    BY <1>2, Zenon DEF CallsOK, Calls, Hashes, FlagsOK, Clean, LinkInv, StoredOK, Stored
  <2>2. \A c \in Ancestors[abc.mostWork] : Ancestors[c] \subseteq Ancestors[abc.mostWork]
    BY <2>1, TreeFacts, Zenon DEF Line
  <2> QED BY <1>2, <2>1, <2>2, Zenon
<1>3. scripts' \subseteq data' /\ Downward(scripts') /\ scripts' \cap BadConnect = {}
  BY Zenon DEF FlagsOK
<1> QED BY <1>1, <1>2, <1>3, Zenon DEF FlagsOK, Clean, Inherited, Downward

(* The block tree database lags behind by the dirty blocks.                *)
LEMMA SavedKept ==
    ASSUME SavedOK, UNCHANGED <<saved, savedTip>>, dirty \subseteq dirty',
           scripts \subseteq scripts', scripts' \subseteq scripts \cup dirty',
           failed \subseteq failed', failed' \subseteq failed \cup dirty',
           failedParent \subseteq failedParent'
    PROVE  SavedOK'
<1>1. /\ saved.scripts \subseteq scripts' /\ scripts' \subseteq saved.scripts \cup dirty'
      /\ saved.failed \subseteq failed' /\ failed' \subseteq saved.failed \cup dirty'
      /\ saved.failedParent \subseteq failedParent'
  BY Zenon DEF SavedOK
<1>2. SavedMarked' = SavedMarked
  BY Zenon DEF SavedMarked
<1> QED BY <1>1, <1>2, Zenon DEF SavedOK, Inherited, Downward

(* The order, and the blocks that can be candidates, stay as they are.     *)
LEMMA OrderKept ==
    ASSUME SetsOK, OrderOK, UNCHANGED <<seq, tip, abc, linked, candidates>>,
           \A b \in linked \ Marked' : b \notin Marked
    PROVE  OrderOK'
BY Zenon DEF OrderOK, Worse, InLoop

(* A header arrives; the blocks from one that is marked up to it are, too. *)
LEMMA HeaderCand ==
    ASSUME Types, LinkInv, CandInv, NEW b \in Blocks \ {Genesis}, AcceptBlockHeader(b)
    PROVE  CandInv'
<1> USE DEF CandInv
<1>1. /\ SetsOK /\ CallsOK /\ FlagsOK /\ SavedOK /\ OrderOK /\ NoneFinal
      /\ UNCHANGED <<data, linked, scripts, failed, parked, parkedParent, seq, candidates, failedBlocks,
                     finalized, tip, saved, savedTip, abc, unwind>>
      /\ dirty \subseteq dirty' /\ failedParent \subseteq failedParent'
  BY Zenon DEF Types, AcceptBlockHeader, parks, seqs, disk
<1>2. ASSUME NEW c \in failedParent' \ failedParent
      PROVE  c \in Blocks /\ Ancestors[c] \cap failed # {}
  <2>1. PICK f \in FailedAncestors(b) : c \in Ancestors[Parent[b]] \ Ancestors[f]
    BY <1>2, Zenon DEF AcceptBlockHeader
  <2>2. f \in failed /\ f \in Ancestors[Parent[b]] /\ Parent[b] \in Blocks
    BY <1>1, <2>1, TreeAssumption, Zenon DEF FlagsOK, FailedAncestors
  <2> QED BY <2>1, <2>2, TreeFacts, Zenon DEF Line
<1>3. Inherited(failed', failedParent')
  BY <1>1, <1>2, Zenon DEF Inherited, FlagsOK
<1>4. \A c \in Marked' : c \in Blocks /\ Ancestors[c] \cap Marked # {}
  <2>1. \A c \in Marked : c \in Blocks /\ c \in Ancestors[c]
    BY <1>1, TreeFacts, Zenon DEF Marked, SetsOK, Line
  <2>2. \A c \in Marked' : c \in Marked \/ c \in failedParent' \ failedParent
    BY <1>1, Zenon DEF Marked
  <2> QED BY <1>2, <2>1, <2>2, Zenon DEF Marked
<1>5. FlagsOK'
  <2>1. /\ Ancestors[tip'] \subseteq scripts /\ (InLoop' => abc'.start \in scripts)
        /\ failedBlocks' \subseteq failed'
    BY <1>1, Zenon DEF FlagsOK, InLoop
  <2> QED BY <1>1, <1>3, <1>4, <2>1, FlagsKept, Zenon
<1>6. SavedOK'
  BY <1>1, SavedKept, Zenon
<1>7. OrderOK'
  <2>1. \A c \in linked \ Marked' : c \notin Marked
    BY <1>1, Zenon DEF Marked
  <2> QED BY <1>1, <2>1, OrderKept, Zenon
<1> QED BY <1>1, <1>5, <1>6, <1>7, Zenon DEF NoneFinal

(* A block arrives.  The blocks that it links were not linked before.      *)
LEMMA ReceivedOrder ==
    ASSUME Types, Types', LinkInv, CandInv, NEW b \in Blocks \ {Genesis}, AcceptBlock(b), b \notin BadContext
    PROVE  /\ \A c \in linked, d \in linked : WorseBy(seq', c, d) <=> WorseBy(seq, c, d)
           /\ \A c \in linked' : c \in linked \/ c \in candidates' \/ WorseBy(seq', c, tip)
           /\ linked \subseteq linked' /\ candidates \subseteq candidates'
           /\ \A c \in candidates' : c \in candidates \/ (c \in linked' /\ ~WorseBy(seq', c, tip))
<1>1. ReceivedBlockTransactions(b) /\ b \notin data /\ SeqsOK /\ KnownOK /\ SetsOK
  BY Zenon DEF AcceptBlock, Types, LinkInv
<1>2. CASE Parent[b] \notin linked
  BY <1>1, <1>2, Zenon DEF ReceivedBlockTransactions
<1>3. CASE Parent[b] \in linked
  <2>1. /\ linked' = linked \cup Links(b)
        /\ candidates' = candidates \cup {c \in Links(b) : ~WorseBy(seq', c, tip)}
        /\ \E r \in Orders({c \in Links(b) : seq[c] = 0}) :
               seq' = [c \in Blocks |-> IF c \in {e \in Links(b) : seq[e] = 0} THEN nextSeq + r[c] ELSE seq[c]]
    BY <1>1, <1>3, Zenon DEF ReceivedBlockTransactions
  <2>2. \A c \in Links(b) : c \notin linked
    BY <1>1, LinksFacts, Zenon DEF KnownOK, Stored
  <2>3. \A c \in linked : seq'[c] = seq[c]
    BY <1>1, <2>1, <2>2, Zenon DEF SetsOK
  <2>4. \A c \in linked, d \in linked : WorseBy(seq', c, d) <=> WorseBy(seq, c, d)
    BY <2>3, Zenon DEF WorseBy
  <2> QED BY <2>1, <2>4, Zenon
<1> QED BY <1>2, <1>3, Zenon

LEMMA BlockCand ==
    ASSUME Types, Types', LinkInv, CandInv, NEW b \in Blocks \ {Genesis}, AcceptBlock(b)
    PROVE  CandInv'
<1> USE DEF CandInv
<1>1. /\ SetsOK /\ CallsOK /\ FlagsOK /\ SavedOK /\ OrderOK /\ NoneFinal
      /\ UNCHANGED <<scripts, failedParent, parkedParent, failedBlocks, finalized, tip, saved, savedTip,
                     abc, unwind>>
      /\ data \subseteq data' /\ dirty' = dirty \cup {b} /\ b \notin data
      /\ failed \subseteq failed' /\ failed' \subseteq failed \cup {b}
      /\ parked \subseteq parked' /\ parked' \subseteq parked \cup {b}
      /\ abc.pc \in {"idle", "released"}
  BY Zenon DEF Types, AcceptBlock, disk, ReceivedBlockTransactions, OtherThread, CsMainFree
<1>2. Inherited(failed', failedParent') /\ failedBlocks' \subseteq failed'
  BY <1>1, Zenon DEF FlagsOK, Inherited
<1>3. \A c \in Marked' : c \in Blocks /\ (Ancestors[c] \cap Marked # {} \/ c \notin data)
  <2>1. \A c \in Marked : c \in Blocks /\ c \in Ancestors[c]
    BY <1>1, TreeFacts, Zenon DEF Marked, SetsOK, Line
  <2>2. \A c \in Marked' : c \in Marked \/ c = b
    BY <1>1, Zenon DEF Marked
  <2> QED BY <1>1, <2>1, <2>2, Zenon
<1>4. FlagsOK'
  <2>1. Ancestors[tip'] \subseteq scripts /\ (InLoop' => abc'.start \in scripts)
    BY <1>1, Zenon DEF FlagsOK, InLoop
  <2> QED BY <1>1, <1>2, <1>3, <2>1, FlagsKept, Zenon
<1>5. SavedOK'
  BY <1>1, SavedKept, Zenon
<1>6. \A c \in linked \ Marked' : c \notin Marked
  BY <1>1, Zenon DEF Marked
<1>7. OrderOK'
  <2>1. CASE b \in BadContext
    <3>1. UNCHANGED <<linked, seq, candidates>>
      BY <2>1, Zenon DEF AcceptBlock
    <3> QED BY <1>1, <1>6, <3>1, OrderKept, Zenon
  <2>2. CASE b \notin BadContext
    <3>1. /\ \A c \in linked, d \in linked : WorseBy(seq', c, d) <=> WorseBy(seq, c, d)
          /\ \A c \in linked' : c \in linked \/ c \in candidates' \/ WorseBy(seq', c, tip)
          /\ linked \subseteq linked' /\ candidates \subseteq candidates'
          /\ \A c \in candidates' : c \in candidates \/ (c \in linked' /\ ~WorseBy(seq', c, tip))
      BY <2>2, ReceivedOrder, Zenon
    <3>2. tip \in linked
      BY <1>1, StoredFacts, Zenon DEF LinkInv, StoredOK, CallsOK
    <3>3. \A c \in linked \ Marked : c \in candidates \/ WorseBy(seq, c, tip)
      BY <1>1, Zenon DEF OrderOK, InLoop, Worse
    <3>4. \A c \in candidates : c \in linked /\ ~WorseBy(seq, c, tip)
      BY <1>1, Zenon DEF OrderOK, Worse
    <3>5. \A c \in linked' \ Marked' : c \in candidates' \/ WorseBy(seq', c, tip)
      BY <1>6, <3>1, <3>2, <3>3, Zenon
    <3>6. \A c \in candidates' : c \in linked' /\ ~WorseBy(seq', c, tip)
      BY <3>1, <3>2, <3>4, Zenon
    <3> QED BY <1>1, <3>5, <3>6, Zenon DEF OrderOK, InLoop, Worse
  <2> QED BY <2>1, <2>2, Zenon
<1> QED BY <1>1, <1>4, <1>5, <1>7, Zenon DEF NoneFinal

-----------------------------------------------------------------------------
(* ActivateBestChain.                                                      *)

(* The tip, and the one that the loop began with: the loop has it to fall  *)
(* back on.                                                                *)
LEMMA TipFacts ==
    ASSUME Types, LinkInv, CandInv
    PROVE  /\ OrderedBy(seq) /\ tip \in Blocks /\ tip \in scripts
           /\ tip \in linked \ Marked /\ (~InLoop => tip \in candidates)
           /\ InLoop => /\ abc.start \in Blocks /\ abc.start \in scripts /\ abc.start \in linked \ Marked
                        /\ abc.start \in candidates \/ Worse(abc.start, tip)
           /\ abc.pc = "loop" => abc.start \in candidates
<1>1. SetsOK /\ CallsOK /\ KnownOK /\ FlagsOK /\ OrderOK /\ tip \in Blocks /\ tip \in Ancestors[tip]
  BY TreeFacts, Zenon DEF Types, CallsOK, LinkInv, CandInv, Line
<1>2. OrderedBy(seq)
  BY WorseOrder, Zenon DEF Types, SeqsOK
<1>3. \A b \in scripts : b \in Blocks /\ b \in linked \ Marked
  <2> SUFFICES ASSUME NEW b \in scripts PROVE b \in Blocks /\ b \in linked \ Marked
    BY Zenon
  <2>1. b \in Blocks /\ Stored(b) /\ b \notin Marked
    BY <1>1, Zenon DEF FlagsOK, Downward, Stored, SetsOK
  <2> QED BY <1>1, <2>1, StoredFacts, Zenon
<1>4. tip \in scripts
  BY <1>1, Zenon DEF FlagsOK
<1>5. ~InLoop => tip \in candidates
  BY <1>1, <1>2, <1>3, <1>4, Zenon DEF OrderOK, OrderedBy, Worse
<1>6. InLoop => abc.start \in scripts /\ (abc.start \in candidates \/ Worse(abc.start, tip))
  BY <1>1, <1>2, <1>3, Zenon DEF FlagsOK, OrderOK, OrderedBy, Worse
<1>7. abc.pc = "loop" => abc.start \in candidates
  BY <1>1, <1>6, Zenon DEF OrderOK, InLoop
<1> QED BY <1>1, <1>2, <1>3, <1>4, <1>5, <1>6, <1>7, Zenon

(* The call takes or gives up cs_main, or begins a step.                   *)
LEMMA LoopCand ==
    ASSUME Types, LinkInv, CandInv, Enter \/ Resume \/ Break \/ BeginStep
    PROVE  CandInv'
<1> USE DEF CandInv
<1>1. /\ SetsOK /\ CallsOK /\ FlagsOK /\ SavedOK /\ OrderOK /\ NoneFinal
      /\ UNCHANGED <<data, linked, scripts, failed, failedParent, parked, parkedParent, seq, candidates,
                     failedBlocks, finalized, tip, dirty, saved, savedTip, unwind>>
  BY Zenon DEF Types, Enter, Resume, Break, BeginStep, have, fails, parks, seqs, disk
<1>2. /\ OrderedBy(seq) /\ tip \in Blocks /\ tip \in scripts
      /\ (~InLoop => tip \in candidates)
      /\ InLoop => /\ abc.start \in Blocks /\ abc.start \in scripts
      /\ abc.pc = "loop" => abc.start \in candidates
  BY TipFacts, Zenon
<1>3. abc.mostWork # NullHash => abc.mostWork \in Blocks
  BY <1>1, Zenon DEF CallsOK, Calls, Hashes
<1>4. Marked' = Marked /\ \A b \in Marked : b \in Blocks /\ Ancestors[b] \cap Marked # {}
  <2>1. \A b \in Marked : b \in Blocks /\ b \in Ancestors[b]
    BY <1>1, TreeFacts, Zenon DEF Marked, SetsOK, Line
  <2> QED BY <1>1, <2>1, Zenon DEF Marked
<1>5. ASSUME abc'.mostWork \in {abc.mostWork, NullHash}, InLoop' => abc'.start \in scripts, OrderOK'
      PROVE  CandInv'
  <2>1. FlagsOK'
    <3>1. /\ Ancestors[tip'] \subseteq scripts /\ Inherited(failed', failedParent')
          /\ failedBlocks' \subseteq failed'
      BY <1>1, Zenon DEF FlagsOK, Inherited
    <3> QED BY <1>1, <1>4, <1>5, <3>1, FlagsKept, Zenon
  <2>2. SavedOK'
    BY <1>1, SavedKept, Zenon
  <2> QED BY <1>1, <1>5, <2>1, <2>2, Zenon DEF NoneFinal
<1>6. CASE Enter \/ Resume
  <2>1. /\ abc'.pc = "loop" /\ abc'.start = tip /\ ~InLoop
        /\ abc'.mostWork = NullHash \/ (abc.pc = "released" /\ abc'.mostWork = abc.mostWork)
    BY <1>1, <1>6, Zenon DEF Enter, Resume, Idle, InLoop, CallsOK, Calls
  <2>2. abc'.mostWork # NullHash => abc'.mostWork \in Blocks /\ tip \in Ancestors[abc'.mostWork]
    BY <1>1, <1>3, <2>1, Zenon DEF OrderOK
  <2>3. ~WorseBy(seq, tip, tip) /\ (abc'.mostWork # NullHash => ~WorseBy(seq, abc'.mostWork, tip))
    BY <1>2, <2>2, Zenon DEF OrderedBy
  <2>4. OrderOK'
    BY <1>1, <1>4, <2>1, <2>3, Zenon DEF OrderOK, Worse, InLoop
  <2> QED BY <1>2, <1>5, <2>1, <2>4, Zenon
<1>7. CASE Break
  <2>1. abc'.mostWork = NullHash /\ abc'.pc \in {"idle", "released"} /\ abc.pc = "loop"
    BY <1>1, <1>7, Zenon DEF Break, Idle, CallsOK, Calls
  <2>2. ~WorseBy(seq, tip, abc.start)
    BY <1>1, <1>2, <1>7, <2>1, TreeAssumption, Zenon DEF Break, OrderOK, InLoop, Worse
  <2>3. \A b \in linked \ Marked : b \in candidates \/ WorseBy(seq, b, tip)
    BY <1>1, <1>2, <2>1, <2>2, Zenon DEF OrderOK, OrderedBy, SetsOK, InLoop, Worse
  <2>4. OrderOK'
    BY <1>1, <1>4, <2>1, <2>3, Zenon DEF OrderOK, Worse, InLoop
  <2> QED BY <1>5, <2>1, <2>4, Zenon DEF InLoop
<1>8. CASE BeginStep
  <2>1. abc'.mostWork = abc.mostWork /\ abc'.pc = "step" /\ abc.pc = "loop" /\ abc'.start = abc.start
    BY <1>1, <1>8, Zenon DEF BeginStep, CallsOK, Calls
  <2>2. OrderOK'
    BY <1>1, <1>4, <2>1, Zenon DEF OrderOK, Worse, InLoop
  <2> QED BY <1>2, <1>5, <2>1, <2>2, Zenon DEF InLoop
<1> QED BY <1>6, <1>7, <1>8, Zenon

(* Every block on the way to the chosen one that was parked is unparked.   *)
LEMMA FreedAll ==
    ASSUME SetsOK, CallsOK, NEW new \in candidates, Finds(new, NullHash),
           NEW c \in Path(new), isOnParkedChain(c), Enough(new)
    PROVE  c \notin parked' \cup parkedParent'
<1> DEFINE F == Frees(new, NullHash)
<1> DEFINE h == Highest(F)
<1>1. new \in Blocks /\ c \in F /\ F \subseteq Ancestors[new] /\ F # {}
  BY Zenon DEF Frees, Walked, Path, SetsOK
<1>2. /\ parked' = ClearedOwn(h, parked, FALSE)
      /\ parkedParent' = ClearedParents(h, parked, parkedParent)
  BY <1>1, Zenon DEF Finds, Freed, Unparked
<1>3. h \in Ancestors[new] /\ Height[c] <= Height[h]
  <2> HIDE DEF F
  <2> QED BY <1>1, HighestFacts, Zenon
<1> HIDE DEF F, h
<1>4. h \in Blocks /\ c \in Blocks /\ c \in Ancestors[new]
  BY <1>1, <1>3, AncestorsAssumption, Zenon
<1>5. c \in Ancestors[h]
  BY <1>1, <1>3, <1>4, LowerIsAncestor, HeightAssumption
<1> DEFINE M == Ancestors[h] \cap (parked \cup parkedParent)
<1>6. c \in M /\ M \in SUBSET Blocks /\ M # {}
  BY <1>4, <1>5, AncestorsAssumption, Zenon DEF isOnParkedChain
<1>7. Deepest(h, parked \cup parkedParent) = Lowest(M)
  BY <1>6, Zenon DEF Deepest
<1>8. Lowest(M) \in M /\ Height[Lowest(M)] <= Height[c]
  <2> HIDE DEF M
  <2> QED BY <1>6, LowestFacts, Zenon
<1>9. Lowest(M) \in Ancestors[h] /\ Lowest(M) \in Blocks
  BY <1>6, <1>8, Zenon
<1> HIDE DEF M
<1>10. Lowest(M) \in Ancestors[c]
  BY <1>4, <1>5, <1>8, <1>9, LowerIsAncestor, HeightAssumption
<1> QED BY <1>2, <1>4, <1>5, <1>7, <1>10, Zenon DEF ClearedOwn, ClearedParents, Descendants

(* What FindMostWorkChain marks, and what it takes out of the candidates.  *)
LEMMA FindCandMarks ==
    ASSUME SetsOK, CallsOK, NoneFinal, NEW new \in candidates, NEW test \in Hashes, Finds(new, test)
    PROVE  /\ BadFor(new) = failed \cup failedParent /\ failed' = failed /\ failedParent \subseteq failedParent'
           /\ \A c \in Marked' : c \in Marked \/ (/\ test # NullHash /\ c \in Above(new, test)
                                                  /\ test \in Ancestors[c] /\ test \in Marked)
           /\ \A c \in failedParent' : c \in failedParent \/ (/\ c \in Above(new, test) /\ test \in Ancestors[c]
                                                              /\ test \in failed \cup failedParent)
           /\ test # NullHash => Walked(new, test) \subseteq Marked'
           /\ \A c \in Marked \ Marked' : c \in Freed(new, test).changed \ BadFor(new)
<1>1. BadFor(new) = failed \cup failedParent /\ failed' = failed /\ failedParent \subseteq failedParent'
  BY Zenon DEF NoneFinal, ConflictsWithFinalized, BadFor, Finds
<1>2. /\ Freed(new, test).parked \subseteq parked /\ Freed(new, test).parkedParent \subseteq parkedParent
      /\ \A c \in Above(new, test) : test # NullHash /\ test \in Ancestors[c]
      /\ test # NullHash => test \in StopsOf(new)
  BY FindsFacts, AboveFacts, Zenon DEF Above
<1>3. test # NullHash => test \in BadFor(new) \/ (isOnParkedChain(test) /\ ~Enough(new))
  BY <1>2, Zenon DEF StopsOf, Stops
<1>4. \A c \in failedParent' : c \in failedParent \/ (c \in Above(new, test) /\ test \in BadFor(new))
  BY Zenon DEF Finds
<1>5. \A c \in parkedParent' : c \in parkedParent \/ (c \in Above(new, test) /\ isOnParkedChain(test))
  BY <1>2, Zenon DEF Finds
<1>6. \A c \in Marked' : c \in Marked \/ (/\ test # NullHash /\ c \in Above(new, test)
                                          /\ test \in Ancestors[c] /\ test \in Marked)
  <2>1. parked' \subseteq parked
    BY <1>2, Zenon DEF Finds
  <2> QED BY <1>1, <1>2, <1>4, <1>5, <2>1, Zenon DEF Marked, isOnParkedChain
<1>7. ASSUME test # NullHash PROVE Walked(new, test) \subseteq Marked'
  <2>1. CASE test \in BadFor(new)
    <3>1. failedParent' = failedParent \cup Above(new, test)
      BY <2>1, Zenon DEF Finds
    <3> QED BY <1>1, <1>7, <2>1, <3>1, Zenon DEF Above, Marked
  <2>2. CASE isOnParkedChain(test) /\ ~Enough(new)
    <3>1. Freed(new, test) = NotUnparked
      BY <2>2, Zenon DEF Freed, Frees
    <3>2. parked' = parked /\ parkedParent' = parkedParent \cup Above(new, test)
      BY <1>7, <2>2, <3>1, UnparkedFacts, Zenon DEF Finds
    <3> QED BY <1>7, <2>2, <3>2, Zenon DEF Above, Marked, isOnParkedChain
  <2> QED BY <1>3, <1>7, <2>1, <2>2, Zenon
<1>8. ASSUME NEW c \in Marked \ Marked' PROVE c \in Freed(new, test).changed \ BadFor(new)
  <2>1. c \notin BadFor(new) /\ c \in parked \cup parkedParent /\ c \notin parked' /\ c \notin parkedParent'
    BY <1>1, <1>8, Zenon DEF Marked
  <2>2. c \notin Freed(new, test).parked /\ c \notin Freed(new, test).parkedParent
    BY <2>1, Zenon DEF Finds
  <2>3. Frees(new, test) # {}
    BY <2>1, <2>2, UnparkedFacts, Zenon DEF Freed
  <2> QED BY <2>1, <2>2, <2>3, Zenon DEF Freed, Unparked
<1> QED BY <1>1, <1>2, <1>4, <1>6, <1>7, <1>8, Zenon

LEMMA FindCand ==
    ASSUME Types, LinkInv, CandInv, FindMostWorkChain
    PROVE  CandInv'
<1> USE DEF CandInv
<1>1. /\ SetsOK /\ CallsOK /\ FlagsOK /\ SavedOK /\ OrderOK /\ NoneFinal
      /\ UNCHANGED <<data, linked, scripts, seq, finalized, tip, saved, savedTip, unwind>>
      /\ abc.pc = "loop" /\ abc.mostWork = NullHash
  BY FindMostWorkFacts, Zenon DEF Types, have, seqs, disk
<1>2. PICK new \in candidates, test \in Hashes : Finds(new, test)
  BY FindMostWorkFacts, Zenon
<1>3. /\ BadFor(new) = failed \cup failedParent /\ failed' = failed /\ failedParent \subseteq failedParent'
      /\ \A c \in Marked' : c \in Marked \/ (/\ test # NullHash /\ c \in Above(new, test)
                                             /\ test \in Ancestors[c] /\ test \in Marked)
      /\ \A c \in failedParent' : c \in failedParent \/ (/\ c \in Above(new, test) /\ test \in Ancestors[c]
                                                         /\ test \in failed \cup failedParent)
      /\ test # NullHash => Walked(new, test) \subseteq Marked'
      /\ \A c \in Marked \ Marked' : c \in Freed(new, test).changed \ BadFor(new)
  BY <1>1, <1>2, FindCandMarks, Zenon
<1>4. /\ OrderedBy(seq) /\ tip \in Blocks /\ tip \in scripts /\ tip \notin Marked
      /\ abc.start \in Blocks /\ abc.start \in candidates /\ new \in Blocks
  BY <1>1, TipFacts, Zenon DEF InLoop, SetsOK
<1>5. /\ abc'.pc = "loop" /\ abc'.start = abc.start
      /\ abc'.mostWork = IF test = NullHash THEN new ELSE NullHash
  BY <1>1, <1>2, Zenon DEF Finds, CallsOK, Calls
<1>6. ASSUME NEW c \in Above(new, test) PROVE c \in Blocks
  BY <1>1, <1>2, AboveFacts, Zenon
<1>7. Inherited(failed', failedParent')
  <2> SUFFICES ASSUME NEW c \in failedParent' PROVE Ancestors[c] \cap failed # {}
    BY <1>3, Zenon DEF Inherited
  <2>1. CASE c \in failedParent
    BY <1>1, <2>1, Zenon DEF FlagsOK, Inherited
  <2>2. CASE c \notin failedParent
    <3>1. c \in Blocks /\ test \in Ancestors[c] /\ test \in failed \cup failedParent
      BY <1>3, <1>6, <2>2, Zenon
    <3>2. Ancestors[test] \subseteq Ancestors[c]
      BY <3>1, TreeFacts, Zenon DEF Line
    <3> QED BY <1>1, <3>1, <3>2, Zenon DEF FlagsOK, Inherited
  <2> QED BY <2>1, <2>2, Zenon
<1>8. failedBlocks' \subseteq failed'
  BY <1>1, <1>2, <1>3, Zenon DEF Finds, FlagsOK
<1>9. FlagsOK'
  <2>1. CASE test # NullHash
    <3>1. \A c \in Marked' : c \in Blocks /\ Ancestors[c] \cap Marked # {}
      <4>1. \A c \in Marked : c \in Blocks /\ c \in Ancestors[c]
        BY <1>1, TreeFacts, Zenon DEF Marked, SetsOK, Line
      <4> QED BY <1>3, <1>6, <4>1, Zenon
    <3>2. Ancestors[tip'] \subseteq scripts /\ (InLoop' => abc'.start \in scripts)
      BY <1>1, <1>5, Zenon DEF FlagsOK, InLoop
    <3> QED BY <1>1, <1>5, <1>7, <1>8, <2>1, <3>1, <3>2, FlagsKept, Zenon
  <2>2. CASE test = NullHash
    <3>1. Marked' \subseteq Marked
      BY <1>3, <2>2, Zenon
    <3>2. ASSUME NEW c \in Ancestors[new], c \in Marked' PROVE FALSE
      <4>1. c \in Path(new) /\ c \in Marked
        BY <1>1, <3>1, <3>2, Zenon DEF Path, FlagsOK
      <4>2. StopsOf(new) = {} /\ Finds(new, NullHash)
        BY <1>1, <1>2, <2>2, FindsFacts, Zenon
      <4>3. c \notin BadFor(new) /\ isOnParkedChain(c) /\ Enough(new)
        BY <1>3, <4>1, <4>2, Zenon DEF StopsOf, Stops, Marked, isOnParkedChain
      <4>4. c \notin parked' \cup parkedParent'
        BY <1>1, <4>1, <4>2, <4>3, FreedAll, Zenon
      <4>5. failedParent' = failedParent
        BY <1>2, <2>2, Zenon DEF Finds, Above
      <4> QED BY <1>3, <3>2, <4>3, <4>4, <4>5, Zenon DEF Marked
    <3>3. abc'.mostWork = new
      BY <1>5, <2>2, Zenon
    <3>4. Clean(abc.mostWork)'
      BY <3>2, <3>3, Zenon DEF Clean
    <3> QED BY <1>1, <1>5, <1>7, <1>8, <3>1, <3>4, Zenon DEF FlagsOK, InLoop, Inherited, Downward
  <2> QED BY <2>1, <2>2, Zenon
<1>10. SavedOK'
  <2>1. dirty \subseteq dirty'
    BY <1>2, Zenon DEF Finds
  <2> QED BY <1>1, <1>3, <2>1, SavedKept, Zenon
<1>11. ASSUME NEW c \in linked \ Marked'
       PROVE  c \in candidates' \/ WorseBy(seq, c, tip) \/ WorseBy(seq, c, abc.start)
  <2>1. c \in Blocks /\ c \in data
    BY <1>1, TreeFacts, Zenon DEF SetsOK, LinkInv, KnownOK, Stored, Line
  <2>2. c \in Cands(new, test) \/ WorseBy(seq, c, tip) \/ WorseBy(seq, c, abc.start)
    <3>1. CASE c \notin Marked
      BY <1>1, <1>11, <3>1, Zenon DEF OrderOK, Worse, InLoop, Cands
    <3>2. CASE c \in Marked
      <4>1. c \in Healed(Freed(new, test).changed, BadFor(new)) \cap linked
        BY <1>3, <1>11, <2>1, <3>2, Zenon DEF Healed
      <4>2. c \in Cands(new, test) \/ ~WorseBy(seq, tip, c)
        BY <4>1, Zenon DEF Cands, Returning
      <4> QED BY <1>4, <2>1, <3>2, <4>2, Zenon DEF OrderedBy
    <3> QED BY <3>1, <3>2, Zenon
  <2>3. c \in Cands(new, test) => c \in candidates'
    BY <1>2, <1>3, <1>11, Zenon DEF Finds
  <2> QED BY <2>2, <2>3, Zenon
<1>12. \A c \in candidates' : c \in linked /\ ~WorseBy(seq, c, tip)
  <2>1. \A c \in candidates' : c \in candidates \/ (c \in linked /\ WorseBy(seq, tip, c))
    BY <1>2, Zenon DEF Finds, Cands, Returning
  <2>2. \A c \in candidates : c \in linked /\ ~WorseBy(seq, c, tip)
    BY <1>1, Zenon DEF OrderOK, Worse
  <2>3. linked \subseteq Blocks
    BY <1>1, Zenon DEF SetsOK
  <2> QED BY <1>4, <2>1, <2>2, <2>3, Zenon DEF OrderedBy
<1>13. ~WorseBy(seq, abc.start, tip) /\ ~WorseBy(seq, new, abc.start)
  BY <1>1, <1>2, <1>4, Zenon DEF OrderOK, Worse, Finds
<1>14. OrderOK'
  BY <1>1, <1>5, <1>11, <1>12, <1>13, Zenon DEF OrderOK, Worse, InLoop
<1> QED BY <1>1, <1>9, <1>10, <1>14, Zenon DEF NoneFinal

(* Where the step leaves the loops.                                        *)
LEMMA EndStepCases ==
    ASSUME abc \in Calls, NEW t, NEW m \in Hashes
    PROVE  /\ Worse(t, abc.start) => /\ EndStep(t, m).pc = "loop" /\ EndStep(t, m).start = abc.start
                                     /\ EndStep(t, m).mostWork = m
           /\ ~Worse(t, abc.start) => \/ EndStep(t, m) = Idle /\ t = m
                                      \/ EndStep(t, m).pc = "released" /\ EndStep(t, m).mostWork = m
BY Zenon DEF EndStep, AfterStep, Calls, Idle

(* A block is disconnected.  The step cannot end here: what it goes to is  *)
(* not worse than the tip.                                                 *)
LEMMA DisconnectCand ==
    ASSUME Types, LinkInv, CandInv, StepDisconnect
    PROVE  CandInv' /\ abc' = abc /\ UNCHANGED candidates
<1> USE DEF CandInv
<1>1. /\ SetsOK /\ CallsOK /\ FlagsOK /\ SavedOK /\ OrderOK /\ NoneFinal
      /\ UNCHANGED <<data, linked, scripts, failed, failedParent, parked, parkedParent, seq, candidates,
                     failedBlocks, dirty, saved, savedTip, unwind>>
      /\ abc.pc = "step" /\ tip \notin Ancestors[abc.mostWork] /\ abc.mostWork \in Blocks
      /\ tip \in Blocks \ {Genesis} /\ tip' = Parent[tip] /\ Parent[tip] \in Blocks
      /\ finalized' = IF finalized = tip THEN Parent[tip] ELSE finalized
  BY DisconnectFacts, Zenon
  DEF Types, StepDisconnect, DisconnectTip, have, fails, parks, seqs, disk, CallsOK
<1>2. OrderedBy(seq) /\ abc.start \in Blocks /\ abc.start \in scripts
  BY <1>1, TipFacts, Zenon DEF InLoop
<1>3. Parent[tip] \in Ancestors[tip] /\ Ancestors[Parent[tip]] \subseteq Ancestors[tip] /\ Parent[tip] # tip
  <2>1. tip \in Ancestors[tip] /\ tip \notin Ancestors[Parent[tip]] /\ Parent[tip] \in Ancestors[tip]
    BY <1>1, ParentFacts, TreeFacts, Zenon DEF Line
  <2> QED BY <1>1, <2>1, TreeFacts, Zenon DEF Line
<1>4. ~WorseBy(seq, abc.start, tip) /\ ~WorseBy(seq, abc.mostWork, abc.start)
  BY <1>1, TreeAssumption, Zenon DEF OrderOK, InLoop, Worse
<1>5. WorseBy(seq, Parent[tip], tip)
  BY <1>1, <1>2, <1>3, Zenon DEF OrderedBy
<1>6. WorseBy(seq, Parent[tip], abc.start)
  BY <1>1, <1>2, <1>4, <1>5, Zenon DEF OrderedBy
<1>7. abc' = abc
  BY <1>1, <1>4, <1>6, Zenon DEF StepDisconnect
<1>8. finalized' = NullHash
  BY <1>1, TreeAssumption, Zenon DEF NoneFinal
<1>9. Marked' = Marked /\ \A b \in Marked : b \in Blocks /\ Ancestors[b] \cap Marked # {}
  <2>1. \A b \in Marked : b \in Blocks /\ b \in Ancestors[b]
    BY <1>1, TreeFacts, Zenon DEF Marked, SetsOK, Line
  <2> QED BY <1>1, <2>1, Zenon DEF Marked
<1>10. FlagsOK'
  <2>1. /\ Ancestors[tip'] \subseteq scripts /\ Inherited(failed', failedParent')
        /\ failedBlocks' \subseteq failed'
    BY <1>1, <1>3, Zenon DEF FlagsOK, Inherited
  <2> QED BY <1>1, <1>2, <1>7, <1>9, <2>1, FlagsKept, Zenon
<1>11. SavedOK'
  BY <1>1, SavedKept, Zenon
<1>12. ASSUME NEW c \in linked \ Marked PROVE c \in candidates \/ WorseBy(seq, c, abc.start)
  <2>1. c \in Blocks /\ (c \in candidates \/ WorseBy(seq, c, tip) \/ WorseBy(seq, c, abc.start))
    BY <1>1, <1>12, Zenon DEF OrderOK, Worse, SetsOK
  <2> QED BY <1>1, <1>2, <1>4, <2>1, Zenon DEF OrderedBy
<1>13. ASSUME NEW c \in candidates PROVE c \in linked /\ ~WorseBy(seq, c, Parent[tip])
  <2>1. c \in Blocks /\ c \in linked /\ ~WorseBy(seq, c, tip)
    BY <1>1, Zenon DEF OrderOK, Worse, SetsOK
  <2>2. ~WorseBy(seq, tip, Parent[tip])
    BY <1>1, <1>2, <1>5, Zenon DEF OrderedBy
  <2> QED BY <1>1, <1>2, <2>1, <2>2, Zenon DEF OrderedBy
<1>14. ~WorseBy(seq, abc.start, Parent[tip])
  BY <1>1, <1>2, <1>6, Zenon DEF OrderedBy
<1>15. OrderOK'
  BY <1>1, <1>4, <1>7, <1>9, <1>12, <1>13, <1>14, Zenon DEF OrderOK, Worse, InLoop
<1> QED BY <1>1, <1>7, <1>8, <1>10, <1>11, <1>15, Zenon DEF NoneFinal

(* Once the loops end, they have not gone back behind where they began.    *)
LEMMA LoopEnds ==
    ASSUME OrderedBy(seq), NEW t \in Blocks, abc.start \in Blocks, abc \in Calls, NEW m \in Hashes,
           abc' = EndStep(t, m)
    PROVE  /\ \A c \in Blocks : WorseBy(seq, c, abc.start) =>
                  WorseBy(seq, c, t) \/ (InLoop' /\ WorseBy(seq, c, abc'.start))
           /\ abc'.pc = "loop" => ~WorseBy(seq, abc'.start, t)
           /\ InLoop' => abc'.pc = "loop" /\ abc'.start = abc.start /\ abc'.mostWork = m
           /\ abc'.pc = "released" => abc'.mostWork = m
           /\ abc'.mostWork \in {m, NullHash}
<1>1. CASE WorseBy(seq, t, abc.start)
  <2>1. abc'.pc = "loop" /\ abc'.start = abc.start /\ abc'.mostWork = m
    BY <1>1, EndStepCases, Zenon DEF Worse
  <2> QED BY <1>1, <2>1, Zenon DEF OrderedBy, InLoop
<1>2. CASE ~WorseBy(seq, t, abc.start)
  <2>1. abc' = Idle \/ (abc'.pc = "released" /\ abc'.mostWork = m)
    BY <1>2, EndStepCases, Zenon DEF Worse
  <2>2. abc'.pc \in {"idle", "released"} /\ abc'.mostWork \in {m, NullHash}
        /\ (abc'.pc = "released" => abc'.mostWork = m)
    <3>1. Idle.pc = "idle" /\ Idle.mostWork = NullHash
      BY Zenon DEF Idle
    <3> QED BY <2>1, <3>1, Zenon
  <2>3. \A c \in Blocks : WorseBy(seq, c, abc.start) => WorseBy(seq, c, t)
    BY <1>2, Zenon DEF OrderedBy
  <2> QED BY <2>2, <2>3, Zenon DEF InLoop
<1> QED BY <1>1, <1>2, Zenon

LEMMA InvalidCand ==
    ASSUME Types, LinkInv, CandInv, ConnectInvalid
    PROVE  CandInv'
<1> USE DEF CandInv
<1> DEFINE b == NextToConnect
<1>1. /\ SetsOK /\ CallsOK /\ FlagsOK /\ SavedOK /\ OrderOK /\ NoneFinal
      /\ UNCHANGED <<data, linked, scripts, failedParent, parked, parkedParent, seq, candidates, tip,
                     saved, savedTip, unwind>>
      /\ abc.pc = "step" /\ abc' = EndStep(tip, NullHash) /\ failed' = failed \cup {b}
      /\ failedBlocks' = failedBlocks \cup {b} /\ dirty' = dirty \cup {b}
      /\ b \in Blocks /\ b \in BadConnect /\ abc \in Calls /\ tip \in Blocks
      /\ \E low : finalized' = MoveBack(MoveBack(finalized, b), low)
  BY NextFacts, Zenon
  DEF Types, ConnectInvalid, InvalidBlockFound, have, parks, seqs, disk, CallsOK
<1> HIDE DEF b
<1>2. OrderedBy(seq) /\ abc.start \in Blocks /\ abc.start \in scripts /\ NullHash \in Hashes
  BY <1>1, TipFacts, Zenon DEF InLoop, Hashes
<1>3. finalized' = NullHash
  BY <1>1, Zenon DEF NoneFinal, MoveBack, IsBlockFinalized
<1>4. Marked' = Marked \cup {b}
  BY <1>1, Zenon DEF Marked
<1>5. /\ \A c \in linked \ Marked : c \in candidates \/ WorseBy(seq, c, tip)
                                                 \/ (InLoop' /\ WorseBy(seq, c, abc'.start))
      /\ abc'.pc = "loop" => ~WorseBy(seq, abc'.start, tip)
      /\ InLoop' => abc'.pc = "loop" /\ abc'.start = abc.start
      /\ abc'.mostWork = NullHash
  <2>1. \A c \in linked \ Marked : c \in candidates \/ WorseBy(seq, c, tip) \/ WorseBy(seq, c, abc.start)
    BY <1>1, Zenon DEF OrderOK, Worse
  <2>2. /\ \A c \in Blocks : WorseBy(seq, c, abc.start) =>
              WorseBy(seq, c, tip) \/ (InLoop' /\ WorseBy(seq, c, abc'.start))
        /\ abc'.pc = "loop" => ~WorseBy(seq, abc'.start, tip)
        /\ InLoop' => abc'.pc = "loop" /\ abc'.start = abc.start
        /\ abc'.mostWork = NullHash
    BY <1>1, <1>2, LoopEnds, Zenon
  <2> QED BY <1>1, <2>1, <2>2, Zenon DEF SetsOK
<1>6. FlagsOK'
  <2>1. \A c \in Marked : c \in Blocks /\ c \in Ancestors[c]
    BY <1>1, TreeFacts, Zenon DEF Marked, SetsOK, Line
  <2>2. /\ Ancestors[tip'] \subseteq scripts /\ Inherited(failed', failedParent')
        /\ failedBlocks' \subseteq failed'
    BY <1>1, Zenon DEF FlagsOK, Inherited
  <2> QED BY <1>1, <1>2, <1>4, <1>5, <2>1, <2>2, FlagsKept, Zenon
<1>7. SavedOK'
  BY <1>1, SavedKept, Zenon
<1>8. \A c \in candidates : c \in linked /\ ~WorseBy(seq, c, tip)
  BY <1>1, Zenon DEF OrderOK, Worse
<1>9. OrderOK'
  BY <1>1, <1>4, <1>5, <1>8, Zenon DEF OrderOK, Worse, InLoop
<1> QED BY <1>1, <1>3, <1>6, <1>7, <1>9, Zenon DEF NoneFinal

(* Nothing is finalized when a block is connected.                         *)
LEMMA ConnectPlain ==
    ASSUME WorkDecides, NoneFinal, NEW q
    PROVE  ~ConnectUnfinalizable(q) /\ (ConnectTip(q) => finalized' = finalized)
<1>1. ~(MaxReorgDepth >= 0)
  BY ConfigAssumption DEF WorkDecides
<1>2. \A b : BlocksToFinalize(b) = {NullHash}
  BY <1>1, Zenon DEF BlocksToFinalize
<1> QED BY <1>2, Zenon DEF ConnectUnfinalizable, ConnectTip

(* A block is connected, and the candidates that sort worse go.            *)
LEMMA ConnectCand ==
    ASSUME WorkDecides, Types, LinkInv, CandInv, NEW q \in Hashes, ConnectTip(q)
    PROVE  CandInv'
<1> USE DEF CandInv
<1> DEFINE b == NextToConnect
<1>1. /\ SetsOK /\ CallsOK /\ FlagsOK /\ SavedOK /\ OrderOK /\ NoneFinal
      /\ UNCHANGED <<data, linked, failed, failedParent, parked, parkedParent, seq, failedBlocks,
                     saved, savedTip, unwind>>
      /\ abc.pc = "step" /\ abc.mostWork \in Blocks /\ abc \in Calls /\ tip \in Blocks
      /\ b \in Blocks \ {Genesis} /\ b \in Ancestors[abc.mostWork] /\ Parent[b] = tip
      /\ ConnectBlock(b) /\ tip' = b
      /\ candidates' = {c \in candidates : ~WorseBy(seq, c, b)}
      /\ abc' = EndStep(b, abc.mostWork) \/ abc' = abc
  BY NextFacts, Zenon
  DEF Types, ConnectTip, have, fails, parks, seqs, disk, CallsOK, PruneBlockIndexCandidates, Worse
<1> HIDE DEF b
<1>2. OrderedBy(seq) /\ abc.start \in Blocks /\ abc.start \in scripts /\ abc.mostWork \in Hashes
  BY <1>1, TipFacts, Zenon DEF InLoop, Hashes
<1>3. finalized' = finalized
  BY <1>1, ConnectPlain, Zenon
<1>4. /\ Ancestors[abc.mostWork] \subseteq data /\ Ancestors[abc.mostWork] \cap Marked = {}
      /\ ~WorseBy(seq, abc.mostWork, abc.start)
  BY <1>1, TreeAssumption, Zenon
  DEF LinkInv, StoredOK, Stored, FlagsOK, Clean, OrderOK, Worse, InLoop
<1>5. /\ b \in data /\ b \notin Marked /\ b \notin BadConnect /\ scripts' = scripts \cup {b}
      /\ dirty \subseteq dirty' /\ scripts' \subseteq scripts \cup dirty'
  BY <1>1, <1>4, Zenon DEF ConnectBlock, Marked, isInvalid
<1>6. Ancestors[b] = {b} \cup Ancestors[tip] /\ tip \in Ancestors[b] /\ tip # b
  <2>1. /\ Ancestors[b] = {b} \cup Ancestors[tip] /\ tip \in Ancestors[b] /\ b \notin Ancestors[tip]
        /\ tip \in Ancestors[tip]
    BY <1>1, ParentFacts, TreeFacts, Zenon DEF Line
  <2> QED BY <2>1, Zenon
<1>7. WorseBy(seq, tip, b)
  BY <1>1, <1>2, <1>6, Zenon DEF OrderedBy
<1>8. Marked' = Marked
  BY <1>1, Zenon DEF Marked
<1>9. \A c \in linked \ Marked : c \in candidates' \/ WorseBy(seq, c, b) \/ WorseBy(seq, c, abc.start)
  <2> SUFFICES ASSUME NEW c \in linked \ Marked, ~WorseBy(seq, c, b), ~WorseBy(seq, c, abc.start)
               PROVE  c \in candidates'
    BY Zenon
  <2>1. c \in Blocks /\ (c \in candidates \/ WorseBy(seq, c, tip))
    BY <1>1, Zenon DEF OrderOK, Worse, SetsOK
  <2>2. ~WorseBy(seq, b, tip)
    BY <1>1, <1>2, <1>7, Zenon DEF OrderedBy
  <2>3. ~WorseBy(seq, c, tip)
    BY <1>1, <1>2, <2>1, <2>2, Zenon DEF OrderedBy
  <2> QED BY <1>1, <2>1, <2>3, Zenon
<1>10. /\ \A c \in linked \ Marked : c \in candidates' \/ WorseBy(seq, c, b)
                                                  \/ (InLoop' /\ WorseBy(seq, c, abc'.start))
       /\ abc'.pc = "loop" => ~WorseBy(seq, abc'.start, b)
       /\ InLoop' => abc'.start = abc.start /\ abc'.mostWork = abc.mostWork
       /\ abc'.pc \in {"step", "released"} => abc'.mostWork = abc.mostWork
       /\ abc'.mostWork \in {abc.mostWork, NullHash}
  <2>1. linked \ Marked \in SUBSET Blocks /\ b \in Blocks
    BY <1>1, Zenon DEF SetsOK
  <2>2. CASE abc' = abc
    BY <1>1, <1>9, <2>2, Zenon DEF InLoop
  <2>3. CASE abc' = EndStep(b, abc.mostWork)
    <3>1. /\ \A c \in Blocks : WorseBy(seq, c, abc.start) =>
                 WorseBy(seq, c, b) \/ (InLoop' /\ WorseBy(seq, c, abc'.start))
          /\ abc'.pc = "loop" => ~WorseBy(seq, abc'.start, b)
          /\ InLoop' => abc'.pc = "loop" /\ abc'.start = abc.start /\ abc'.mostWork = abc.mostWork
          /\ abc'.pc = "released" => abc'.mostWork = abc.mostWork
          /\ abc'.mostWork \in {abc.mostWork, NullHash}
      BY <1>1, <1>2, <2>1, <2>3, LoopEnds, Zenon
    <3> QED BY <1>9, <2>1, <3>1, Zenon DEF InLoop
  <2> QED BY <1>1, <2>2, <2>3, Zenon
<1>11. FlagsOK'
  <2>1. /\ scripts' \subseteq data' /\ scripts' \cap (Marked' \cup BadConnect) = {}
        /\ Ancestors[tip'] \subseteq scripts' /\ (InLoop' => abc'.start \in scripts')
    BY <1>1, <1>2, <1>5, <1>6, <1>8, <1>10, Zenon DEF FlagsOK
  <2>2. \A c \in scripts' : Ancestors[c] \subseteq scripts'
    BY <1>1, <1>5, <1>6, Zenon DEF FlagsOK, Downward
  <2>3. abc'.mostWork # NullHash => Ancestors[abc'.mostWork] \cap Marked' = {}
    BY <1>4, <1>8, <1>10, Zenon
  <2>4. failedBlocks' \subseteq failed' /\ \A c \in failedParent' : Ancestors[c] \cap failed' # {}
    BY <1>1, Zenon DEF FlagsOK, Inherited
  <2> QED BY <2>1, <2>2, <2>3, <2>4, Zenon DEF FlagsOK, Downward, Clean, Inherited
<1>12. SavedOK'
  BY <1>1, <1>5, SavedKept, Zenon
<1>13. OrderOK'
  <2>1. \A c \in candidates' : c \in linked /\ ~WorseBy(seq, c, b)
    BY <1>1, Zenon DEF OrderOK
  <2> QED BY <1>1, <1>4, <1>8, <1>10, <2>1, Zenon DEF OrderOK, Worse, InLoop
<1> QED BY <1>1, <1>3, <1>11, <1>12, <1>13, Zenon DEF NoneFinal

-----------------------------------------------------------------------------
(* The operator's commands.                                                *)

(* A block that loses its last mark becomes a candidate, if it sorts       *)
(* better than the tip.                                                    *)
LEMMA UnparkedOrder ==
    ASSUME Types, LinkInv, CandInv, abc.pc \in {"idle", "released"},
           NEW b, NEW children \in BOOLEAN, NEW c \in linked,
           c \in parked \cup parkedParent, c \notin failed \cup failedParent,
           c \notin Unparked(b, children).parked \cup Unparked(b, children).parkedParent
    PROVE  \/ c \in Returning(Unparked(b, children).changed, failed \cup failedParent, seq)
           \/ WorseBy(seq, c, tip)
<1>1. c \in Blocks /\ c \in data /\ SetsOK /\ tip \in Blocks
  BY TreeFacts, Zenon DEF Types, SetsOK, CallsOK, LinkInv, KnownOK, Stored, Line
<1>2. c # tip
  BY TipFacts, Zenon DEF Marked
<1>3. c \in Unparked(b, children).changed
  BY Zenon DEF Unparked
<1>4. OrderedBy(seq)
  BY TipFacts, Zenon
<1> QED BY <1>1, <1>2, <1>3, <1>4, Zenon DEF Returning, Healed, OrderedBy

(* unparkblock.                                                            *)
LEMMA UnparkCand ==
    ASSUME Types, LinkInv, CandInv, NEW b \in Blocks, UnparkBlockAndChildren(b)
    PROVE  CandInv'
<1> USE DEF CandInv
<1> DEFINE u == Unparked(b, TRUE)
<1>1. /\ SetsOK /\ CallsOK /\ FlagsOK /\ SavedOK /\ OrderOK /\ NoneFinal
      /\ abc.pc \in {"idle", "released"}
      /\ UNCHANGED <<data, linked, scripts, failed, failedParent, finalized, tip, saved, savedTip, abc,
                     unwind, seq>>
      /\ parked' = u.parked /\ parkedParent' = u.parkedParent
      /\ dirty \subseteq dirty' /\ failedBlocks' \subseteq failedBlocks
      /\ candidates' = candidates \cup Returning(u.changed, failed \cup failedParent, seq)
  BY Zenon DEF Types, UnparkBlockAndChildren, CommandStarts, OtherThread, CsMainFree, have, fails, seqs, disk
<1>2. OrderedBy(seq) /\ tip \in Blocks
  BY TipFacts, Zenon
<1>3. Marked' \subseteq Marked
  <2>1. parked' \subseteq parked /\ parkedParent' \subseteq parkedParent
    BY <1>1, UnparkedFacts, Zenon
  <2> QED BY <1>1, <2>1, Zenon DEF Marked
<1>4. ASSUME NEW c \in linked \ Marked' PROVE c \in candidates' \/ WorseBy(seq, c, tip)
  <2>1. CASE c \notin Marked
    BY <1>1, <1>4, <2>1, Zenon DEF OrderOK, Worse, InLoop
  <2>2. CASE c \in Marked
    <3>1. /\ c \in parked \cup parkedParent /\ c \notin failed \cup failedParent
          /\ c \notin u.parked \cup u.parkedParent /\ c \in linked
      BY <1>1, <1>4, <2>2, Zenon DEF Marked
    <3>2. c \in Returning(u.changed, failed \cup failedParent, seq) \/ WorseBy(seq, c, tip)
      BY <1>1, <3>1, UnparkedOrder, Zenon
    <3> QED BY <1>1, <3>2, Zenon
  <2> QED BY <2>1, <2>2, Zenon
<1>5. ASSUME NEW c \in candidates' PROVE c \in linked /\ ~WorseBy(seq, c, tip)
  <2>1. c \in Blocks /\ c \in linked /\ (~WorseBy(seq, c, tip) \/ WorseBy(seq, tip, c))
    BY <1>1, <1>5, Zenon DEF OrderOK, Worse, Returning, SetsOK
  <2> QED BY <1>2, <2>1, Zenon DEF OrderedBy
<1>6. FlagsOK'
  <2>1. /\ Ancestors[tip'] \subseteq scripts /\ Inherited(failed', failedParent')
        /\ failedBlocks' \subseteq failed' /\ (InLoop' => abc'.start \in scripts)
    BY <1>1, Zenon DEF FlagsOK, Inherited, InLoop
  <2>2. \A c \in Marked' : c \in Blocks /\ c \in Ancestors[c] /\ c \in Marked
    BY <1>1, <1>3, TreeFacts, Zenon DEF Marked, SetsOK, Line
  <2> QED BY <1>1, <2>1, <2>2, FlagsKept, Zenon
<1>7. SavedOK'
  BY <1>1, SavedKept, Zenon
<1>8. OrderOK'
  BY <1>1, <1>4, <1>5, Zenon DEF OrderOK, Worse, InLoop
<1> QED BY <1>1, <1>6, <1>7, <1>8, Zenon DEF NoneFinal

-----------------------------------------------------------------------------
(* The disk.                                                               *)

LEMMA FlushCand ==
    ASSUME Types, LinkInv, CandInv, NEW coins \in BOOLEAN, FlushStateToDisk(coins)
    PROVE  CandInv'
<1> USE DEF CandInv
<1>1. /\ SetsOK /\ CallsOK /\ FlagsOK /\ SavedOK /\ OrderOK /\ NoneFinal /\ DiskOK
      /\ UNCHANGED <<data, linked, scripts, failed, failedParent, parked, parkedParent, seq, candidates,
                     failedBlocks, finalized, tip, abc, unwind>>
      /\ dirty' = {} /\ savedTip' \in {tip, savedTip}
      /\ saved'.scripts = Written(saved.scripts, scripts) /\ saved'.data = Written(saved.data, data)
      /\ saved'.failed = Written(saved.failed, failed)
      /\ saved'.failedParent = Written(saved.failedParent, failedParent)
      /\ saved'.parked = Written(saved.parked, parked)
      /\ saved'.parkedParent = Written(saved.parkedParent, parkedParent)
  BY Zenon DEF Types, LinkInv, FlushStateToDisk, have, fails, parks, seqs
<1>2. saved'.scripts = scripts /\ saved'.failed = failed /\ saved'.data = data
  BY <1>1, Zenon DEF Written, SavedOK, DiskOK
<1>3. saved'.failedParent \subseteq failedParent
  BY <1>1, Zenon DEF Written, SavedOK
<1>4. SavedMarked' \cap scripts = {}
  <2> SUFFICES ASSUME NEW c \in scripts, c \in SavedMarked' PROVE FALSE
    BY Zenon
  <2>1. c \notin Marked
    BY <1>1, Zenon DEF FlagsOK
  <2>2. CASE c \in dirty
    BY <1>1, <2>1, <2>2, Zenon DEF Written, SavedMarked, Marked
  <2>3. CASE c \notin dirty
    <3>1. c \in saved.scripts /\ c \notin SavedMarked
      BY <1>1, <2>3, Zenon DEF SavedOK
    <3> QED BY <1>1, <2>3, <3>1, Zenon DEF Written, SavedMarked
  <2> QED BY <2>2, <2>3, Zenon
<1>5. SavedOK'
  <2>1. /\ scripts \subseteq data /\ \A c \in scripts : Ancestors[c] \subseteq scripts
        /\ scripts \cap BadConnect = {}
        /\ \A c \in failedParent : Ancestors[c] \cap failed # {}
    BY <1>1, Zenon DEF FlagsOK, Downward, Inherited
  <2>2. savedTip' # NullHash => Ancestors[savedTip'] \subseteq scripts
    BY <1>1, Zenon DEF SavedOK, FlagsOK
  <2> QED BY <1>1, <1>2, <1>3, <1>4, <2>1, <2>2, Zenon DEF SavedOK, Downward, Inherited
<1>6. Marked' = Marked
  BY <1>1, Zenon DEF Marked
<1>7. FlagsOK'
  BY <1>1, <1>6, Zenon DEF FlagsOK, Downward, Inherited, Clean, InLoop
<1>8. OrderOK'
  BY <1>1, <1>6, OrderKept, Zenon
<1> QED BY <1>1, <1>5, <1>7, <1>8, Zenon DEF NoneFinal

(* LoadBlockIndex and LoadChainTip.                                        *)
LEMMA RestartCand ==
    ASSUME Types, Types', LinkInv, LinkInv', CandInv, Restart
    PROVE  CandInv'
<1> USE DEF CandInv
<1> DEFINE orphans == {b \in saved.known \ ({Genesis} \cup saved.failed) : Parent[b] \in saved.failed}
<1>1. /\ SetsOK /\ SavedOK /\ UNCHANGED <<saved, savedTip>> /\ savedTip # NullHash
      /\ scripts' = saved.scripts /\ data' = saved.data /\ failed' = saved.failed /\ parked' = saved.parked
      /\ parkedParent' = saved.parkedParent /\ failedParent' = saved.failedParent \cup orphans
      /\ dirty' = orphans /\ linked' = LoadLinked /\ tip' = savedTip /\ failedBlocks' = {}
      /\ abc' = Idle /\ unwind' = NoUnwind /\ finalized' = NullHash
      /\ candidates' = {b \in linked' \ (failed' \cup failedParent') : ~WorseBy(seq', b, tip')}
  BY Zenon DEF Types, Restart, LoadCandidates
<1>2. /\ abc'.pc = "idle" /\ abc'.mostWork = NullHash /\ savedTip \in Blocks
  BY <1>1, Zenon DEF Idle, Types, CallsOK
<1>3. \A b \in orphans : b \in Blocks \ {Genesis} /\ Parent[b] \in saved.failed /\ Parent[b] \in Ancestors[b]
  <2>1. saved.known \subseteq Blocks
    BY <1>1, Zenon DEF SetsOK, Saved
  <2> QED BY <2>1, ParentFacts, Zenon
<1> HIDE DEF orphans
<1>4. scripts' \cap (Marked' \cup BadConnect) = {}
  <2>1. saved.scripts \cap orphans = {}
    BY <1>1, <1>3, Zenon DEF SavedOK, Downward, SavedMarked
  <2> QED BY <1>1, <2>1, Zenon DEF SavedOK, SavedMarked, Marked
<1>5. FlagsOK'
  <2>1. \A c \in failedParent' : Ancestors[c] \cap failed' # {}
    BY <1>1, <1>3, Zenon DEF SavedOK, Inherited
  <2>2. \A c \in scripts' : Ancestors[c] \subseteq scripts'
    BY <1>1, Zenon DEF SavedOK, Downward
  <2>3. scripts' \subseteq data' /\ Ancestors[tip'] \subseteq scripts' /\ failedBlocks' \subseteq failed'
    BY <1>1, Zenon DEF SavedOK
  <2> QED BY <1>2, <1>4, <2>1, <2>2, <2>3, Zenon DEF FlagsOK, Downward, Inherited, InLoop
<1>6. SavedOK'
  <2>1. SavedMarked' = SavedMarked
    BY <1>1, Zenon DEF SavedMarked
  <2> QED BY <1>1, <2>1, Zenon DEF SavedOK, Downward, Inherited
<1>7. OrderOK'
  BY <1>1, <1>2, Zenon DEF OrderOK, Worse, InLoop, Marked
<1> QED BY <1>1, <1>5, <1>6, <1>7, Zenon DEF NoneFinal

-----------------------------------------------------------------------------
(* UnwindBlock never runs, and no other command is given.                  *)
LEMMA NoUnwinding ==
    ASSUME WorkDecides, CallsOK, NoneFinal
    PROVE  /\ ~UnwindBlock
           /\ \A b \in Blocks : /\ ~PreciousBlock(b) /\ ~FinalizeBlock(b) /\ ~ResetBlockFailureFlags(b)
                                /\ \A inv \in BOOLEAN : ~BeginUnwind(b, inv)
<1>1. ~UnwindBlock
  BY Zenon DEF NoneFinal, UnwindBlock, UnwindTip, EndUnwind
<1>2. \A name \in {"precious", "finalize", "reconsider", "invalidate", "park"} : ~CommandStarts(name)
  BY CommandFacts, Zenon DEF WorkDecides
<1>3. \A b \in Blocks : ~PreciousBlock(b) /\ ~FinalizeBlock(b) /\ ~ResetBlockFailureFlags(b)
  BY <1>2, Zenon DEF PreciousBlock, FinalizeBlock, ResetBlockFailureFlags
<1>4. \A b \in Blocks, inv \in BOOLEAN : ~BeginUnwind(b, inv)
  BY <1>2, Zenon DEF BeginUnwind
<1> QED BY <1>1, <1>3, <1>4, Zenon

LEMMA CandStep ==
    ASSUME WorkDecides, Types, LinkInv, CandInv, [Next]_vars
    PROVE  Types' /\ LinkInv' /\ CandInv'
<1>1. Types' /\ LinkInv' /\ CallsOK /\ NoneFinal
  BY LinkStep, Zenon DEF WorkDecides, NothingInvalidated, Types, CandInv
<1>2. CASE UNCHANGED vars
  BY <1>1, <1>2, Zenon
  DEF vars, have, fails, parks, seqs, disk, CandInv, NoneFinal, FlagsOK, SavedOK, OrderOK, Marked,
      SavedMarked, Clean, Downward, Inherited, InLoop, Worse
<1>3. CASE Network
  BY <1>1, <1>3, HeaderCand, BlockCand, Zenon DEF Network
<1>4. CASE ActivateBestChain
  <2>1. \A q \in Hashes : ~ConnectUnfinalizable(q)
    BY <1>1, ConnectPlain, Zenon
  <2> QED BY <1>1, <1>4, <2>1, LoopCand, FindCand, DisconnectCand, InvalidCand, ConnectCand, Zenon
      DEF ActivateBestChain, Hashes
<1>5. CASE UnwindBlock \/ Command
  BY <1>1, <1>5, NoUnwinding, UnparkCand, Zenon DEF Command
<1>6. CASE Disk
  BY <1>1, <1>6, FlushCand, RestartCand, Zenon DEF Disk
<1> QED BY <1>2, <1>3, <1>4, <1>5, <1>6, Zenon DEF Next

(* Whenever cs_main is free, setBlockIndexCandidates is what               *)
(* CheckBlockIndex asserts: it has the tip and every block that sorts at   *)
(* least as well, with all data, no failed ancestor and no mark of a       *)
(* parked chain, and no block that sorts worse.                            *)
THEOREM ChainStateCandidates ==
    ASSUME WorkDecides
    PROVE  Spec => []CandidatesRight
<1>1. Init => Types /\ LinkInv /\ CandInv
  BY LinkInit, CandInit, Zenon
<1>2. Types /\ LinkInv /\ CandInv /\ [Next]_vars => Types' /\ LinkInv' /\ CandInv'
  BY CandStep, Zenon
<1>3. Types /\ LinkInv /\ CandInv => CandidatesRight
  <2> SUFFICES ASSUME Types, LinkInv, CandInv, CsMainFree
               PROVE  /\ \A b \in linked :
                             (~Worse(b, tip) /\ Ancestors[b] \cap failed = {}) =>
                                 b \in candidates \/ (isOnParkedChain(b) /\ b # tip)
                      /\ \A b \in candidates : b \in linked /\ ~Worse(b, tip)
    BY Zenon DEF CandidatesRight
  <2>1. ~InLoop /\ FlagsOK /\ OrderOK /\ SetsOK /\ tip \notin Marked
    BY TipFacts, Zenon DEF CsMainFree, InLoop, CandInv, Types
  <2>2. ASSUME NEW b \in linked, ~Worse(b, tip), Ancestors[b] \cap failed = {}, b \notin candidates
        PROVE  isOnParkedChain(b) /\ b # tip
    <3>1. b \in Marked /\ b \in Blocks /\ b \in Ancestors[b]
      BY <2>1, <2>2, TreeFacts, Zenon DEF OrderOK, SetsOK, Line
    <3>2. b \notin failed /\ b \notin failedParent
      BY <2>1, <2>2, <3>1, Zenon DEF FlagsOK, Inherited
    <3> QED BY <2>1, <3>1, <3>2, Zenon DEF Marked, isOnParkedChain
  <2> QED BY <2>1, <2>2, Zenon DEF OrderOK
<1> QED BY <1>1, <1>2, <1>3, PTL DEF Spec

(* ActivateBestChain does not release cs_main on a tip that sorts worse    *)
(* than the one that it took it with, whatever it found to be invalid on   *)
(* the way.                                                                *)
THEOREM ChainStateProgress ==
    ASSUME WorkDecides
    PROVE  Spec => ForwardProgress
<1> DEFINE Progress == (ActivateBestChain /\ ~CsMainFree /\ CsMainFree') => ~Worse(tip', abc.start)
<1>1. Init => Types /\ LinkInv /\ CandInv
  BY LinkInit, CandInit, Zenon
<1>2. Types /\ LinkInv /\ CandInv /\ [Next]_vars => Types' /\ LinkInv' /\ CandInv'
  BY CandStep, Zenon
<1>3. Types /\ LinkInv /\ CandInv => Progress
  <2> SUFFICES ASSUME Types, LinkInv, CandInv, ActivateBestChain, ~CsMainFree, CsMainFree'
               PROVE  ~Worse(tip', abc.start)
    BY Zenon
  <2>1. /\ CallsOK /\ OrderOK /\ InLoop /\ abc' # abc
        /\ abc \in Calls /\ NullHash \in Hashes /\ abc.mostWork \in Hashes
        /\ abc'.pc \in {"idle", "released"} /\ abc.pc # "idle" /\ abc.pc # "released"
    <3>1. CallsOK /\ OrderOK /\ unwind = NoUnwind
      BY Zenon DEF Types, CandInv, NoneFinal
    <3>2. ~unwind.locked
      BY <3>1, Zenon DEF NoUnwind
    <3> QED BY <3>1, <3>2, Zenon DEF CsMainFree, InLoop, CallsOK, Calls, Hashes
  <2>2. CASE Enter \/ Resume \/ FindMostWorkChain \/ BeginStep
    <3>1. CASE FindMostWorkChain
      BY <2>1, <3>1, FindMostWorkFacts, Zenon DEF Finds, Calls
    <3> QED BY <2>1, <2>2, <3>1, Zenon DEF Enter, Resume, BeginStep, Calls
  <2>3. CASE Break
    <3>1. tip' = tip /\ abc.pc = "loop" /\ abc.start \in candidates /\ tip \in Blocks
      BY <2>3, TipFacts, Zenon DEF Break
    <3> QED BY <2>1, <2>3, <3>1, TreeAssumption, Zenon DEF Break, OrderOK
  <2>4. CASE StepDisconnect
    BY <2>1, <2>4, DisconnectCand, Zenon
  <2>5. ASSUME NEW m \in Hashes, abc' = EndStep(tip', m) PROVE ~Worse(tip', abc.start)
    BY <2>1, <2>5, EndStepCases, Zenon
  <2>6. CASE ConnectInvalid
    BY <2>1, <2>5, <2>6, Zenon DEF ConnectInvalid
  <2>7. ASSUME NEW q, ConnectTip(q) \/ ConnectUnfinalizable(q) PROVE ~Worse(tip', abc.start)
    BY <2>1, <2>5, <2>7, Zenon DEF ConnectTip, ConnectUnfinalizable
  <2> QED BY <2>2, <2>3, <2>4, <2>6, <2>7, Zenon DEF ActivateBestChain
<1>4. Types /\ LinkInv /\ CandInv /\ [Next]_vars => [Progress]_vars
  BY <1>3, Zenon
<1> QED BY <1>1, <1>2, <1>4, PTL DEF Spec, ForwardProgress

-----------------------------------------------------------------------------
(* Without -parkdeepreorg, nothing is ever parked, and FindMostWorkChain   *)
(* finds a block than which no candidate is better.  A candidate that      *)
(* comes later has a caller of ActivateBestChain.                          *)

NoneParked ==
    parked = {} /\ parkedParent = {} /\ saved.parked = {} /\ saved.parkedParent = {}

BestOK ==
    /\ abc.mostWork # NullHash /\ ~pending => \A c \in candidates : ~Worse(abc.mostWork, c)
    /\ abc.pc = "idle" /\ ~pending => \A c \in candidates : ~Worse(tip, c)

LEMMA BestKept ==
    ASSUME BestOK, UNCHANGED <<seq, tip>>, pending => pending', candidates' \subseteq candidates,
           abc'.mostWork \in {abc.mostWork, NullHash}, abc'.pc = "idle" => abc.pc = "idle"
    PROVE  BestOK'
BY Zenon DEF BestOK, Worse

LEMMA NoneParkedStep ==
    ASSUME WorkDecides, ~ParkDeepReorg, Types, CandInv, NoneParked, [Next]_vars
    PROVE  NoneParked'
<1> USE DEF have, fails, parks, seqs, disk, NoneParked
<1>0. SetsOK /\ CallsOK /\ NoneFinal
  BY Zenon DEF Types, CandInv
<1>1. CASE UNCHANGED vars
  BY <1>1, Zenon DEF vars
<1>2. ASSUME NEW b \in Blocks \ {Genesis}, AcceptBlockHeader(b) \/ AcceptBlock(b) PROVE NoneParked'
  BY <1>2, Zenon DEF AcceptBlockHeader, AcceptBlock
<1>3. CASE FindMostWorkChain
  <2>1. PICK new \in candidates, test \in Hashes : Finds(new, test)
    BY <1>3, FindMostWorkFacts, Zenon
  <2>2. Freed(new, test).parked = {} /\ Freed(new, test).parkedParent = {}
    BY <1>0, <2>1, FindsFacts, Zenon
  <2>3. parked' = {} /\ parkedParent' = {}
    BY <2>1, <2>2, Zenon DEF Finds, isOnParkedChain
  <2> QED BY <1>3, <2>3, FindMostWorkFacts, Zenon
<1>4. CASE Enter \/ Resume \/ Break \/ BeginStep \/ StepDisconnect \/ ConnectInvalid
  BY <1>4, Zenon DEF Enter, Resume, Break, BeginStep, StepDisconnect, ConnectInvalid
<1>5. ASSUME NEW q, ConnectTip(q) \/ ConnectUnfinalizable(q) PROVE NoneParked'
  BY <1>5, Zenon DEF ConnectTip, ConnectUnfinalizable
<1>6. ASSUME NEW b \in Blocks, UnparkBlockAndChildren(b) PROVE NoneParked'
  BY <1>6, UnparkedFacts, Zenon DEF UnparkBlockAndChildren
<1>7. ASSUME NEW coins \in BOOLEAN, FlushStateToDisk(coins) PROVE NoneParked'
  BY <1>7, Zenon DEF FlushStateToDisk, Written
<1>8. CASE Restart
  BY <1>8, Zenon DEF Restart
<1> QED BY <1>0, <1>1, <1>2, <1>3, <1>4, <1>5, <1>6, <1>7, <1>8, NoUnwinding, Zenon
    DEF Next, Network, ActivateBestChain, Command, Disk

LEMMA BestStep ==
    ASSUME WorkDecides, Types, LinkInv, CandInv, NoneParked, BestOK, [Next]_vars
    PROVE  BestOK'
<1> USE DEF have, fails, parks, seqs, disk
<1>0. SetsOK /\ CallsOK /\ NoneFinal /\ abc \in Calls /\ tip \in Blocks
  BY Zenon DEF Types, CandInv, CallsOK
<1>1. CASE UNCHANGED vars
  BY <1>1, BestKept, Zenon DEF vars
<1>2. ASSUME NEW b \in Blocks \ {Genesis}, AcceptBlockHeader(b) PROVE BestOK'
  BY <1>2, BestKept, Zenon DEF AcceptBlockHeader
<1>3. ASSUME NEW b \in Blocks \ {Genesis}, AcceptBlock(b) PROVE BestOK'
  <2>1. CASE b \in BadContext
    <3>1. UNCHANGED <<seq, candidates, tip, pending, abc>>
      BY <1>3, <2>1, Zenon DEF AcceptBlock
    <3> QED BY <3>1, BestKept, Zenon
  <2>2. CASE b \notin BadContext
    BY <1>3, <2>2, Zenon DEF AcceptBlock, BestOK
  <2> QED BY <2>1, <2>2, Zenon
<1>4. CASE Enter
  BY <1>4, Zenon DEF Enter, Idle, BestOK
<1>5. CASE Resume \/ BeginStep
  <2>1. /\ UNCHANGED <<seq, candidates, tip, pending>>
        /\ abc'.mostWork = abc.mostWork /\ abc'.pc \in {"loop", "step"}
    BY <1>0, <1>5, Zenon DEF Resume, BeginStep, Calls
  <2> QED BY <2>1, BestKept, Zenon
<1>6. CASE Break
  <2>1. /\ UNCHANGED <<seq, candidates, tip, pending>> /\ abc'.mostWork = NullHash
        /\ abc.mostWork = tip \/ candidates = {}
    BY <1>0, <1>6, Zenon DEF Break, Idle, Calls
  <2>2. tip # NullHash
    BY <1>0, TreeAssumption, Zenon
  <2>3. ~pending => \A c \in candidates : ~Worse(tip, c)
    BY <2>1, <2>2, Zenon DEF BestOK
  <2> QED BY <2>1, <2>3, Zenon DEF BestOK, Worse
<1>7. CASE FindMostWorkChain
  <2>1. PICK new \in candidates, test \in Hashes : Finds(new, test)
    BY <1>7, FindMostWorkFacts, Zenon
  <2>2. UNCHANGED <<seq, tip, pending>> /\ abc.pc = "loop" /\ abc.mostWork = NullHash
    BY <1>7, FindMostWorkFacts, Zenon
  <2>3. Freed(new, test).changed = {}
    BY <1>0, <2>1, FindsFacts, Zenon DEF NoneParked
  <2>4. candidates' \subseteq candidates
    BY <2>1, <2>3, Zenon DEF Finds, Cands, Returning, Healed
  <2>5. abc'.pc = "loop" /\ abc'.mostWork \in {NullHash, new} /\ \A c \in candidates : ~Worse(new, c)
    BY <1>0, <2>1, <2>2, Zenon DEF Finds, Calls
  <2> QED BY <2>2, <2>4, <2>5, Zenon DEF BestOK, Worse
<1>8. CASE StepDisconnect
  <2>1. abc' = abc /\ UNCHANGED <<candidates, seq, pending>> /\ abc.pc = "step"
    BY <1>8, DisconnectCand, Zenon DEF StepDisconnect
  <2> QED BY <2>1, Zenon DEF BestOK, Worse
<1>9. ASSUME UNCHANGED <<seq, pending>>, candidates' \subseteq candidates,
             NEW m \in {abc.mostWork, NullHash}, abc' = EndStep(tip', m), tip' \in Blocks
      PROVE  BestOK'
  <2>1. m \in Hashes /\ tip' # NullHash
    BY <1>0, <1>9, TreeAssumption, Zenon DEF Calls, Hashes
  <2>2. \/ abc'.pc \in {"loop", "released"} /\ abc'.mostWork = m
        \/ abc' = Idle /\ tip' = m
    BY <1>0, <1>9, <2>1, EndStepCases, Zenon
  <2>3. CASE abc'.pc \in {"loop", "released"} /\ abc'.mostWork = m
    BY <1>9, <2>3, Zenon DEF BestOK, Worse
  <2>4. CASE abc' = Idle /\ tip' = m
    <3>1. m = abc.mostWork /\ m # NullHash
      BY <1>9, <2>1, <2>4, Zenon
    <3>2. abc'.mostWork = NullHash
      BY <2>4, Zenon DEF Idle
    <3> QED BY <1>9, <2>4, <3>1, <3>2, Zenon DEF BestOK, Worse
  <2> QED BY <2>2, <2>3, <2>4, Zenon
<1>10. CASE ConnectInvalid
  BY <1>0, <1>9, <1>10, Zenon DEF ConnectInvalid
<1>11. ASSUME NEW q \in Hashes, ConnectTip(q) PROVE BestOK'
  <2>1. /\ UNCHANGED <<seq, pending>> /\ candidates' \subseteq candidates /\ abc.pc = "step"
        /\ abc' = abc \/ abc' = EndStep(tip', abc.mostWork)
        /\ tip' \in Blocks
    BY <1>0, <1>11, NextFacts, Zenon DEF ConnectTip, PruneBlockIndexCandidates, CallsOK
  <2>2. CASE abc' = abc
    BY <2>1, <2>2, Zenon DEF BestOK, Worse
  <2>3. CASE abc' = EndStep(tip', abc.mostWork)
    BY <1>9, <2>1, <2>3, Zenon
  <2> QED BY <2>1, <2>2, <2>3, Zenon
<1>12. ASSUME NEW b \in Blocks, UnparkBlockAndChildren(b) PROVE BestOK'
  BY <1>12, Zenon DEF UnparkBlockAndChildren, BestOK
<1>13. ASSUME NEW coins \in BOOLEAN, FlushStateToDisk(coins) PROVE BestOK'
  BY <1>13, BestKept, Zenon DEF FlushStateToDisk
<1>14. CASE Restart
  BY <1>14, Zenon DEF Restart, BestOK
<1>15. \A q \in Hashes : ~ConnectUnfinalizable(q)
  BY <1>0, ConnectPlain, Zenon
<1> QED BY <1>0, <1>1, <1>2, <1>3, <1>4, <1>5, <1>6, <1>7, <1>8, <1>10, <1>11, <1>12, <1>13, <1>14, <1>15,
           NoUnwinding, Zenon
    DEF Next, Network, ActivateBestChain, Command, Disk, Hashes

(* When nobody is activating a chain or waiting to, the tip is the best    *)
(* block with all data and without an invalid block below it, in whatever  *)
(* order blocks came, whichever of them turned out to be invalid, and      *)
(* wherever the node was stopped.                                          *)
THEOREM ChainStateBest ==
    ASSUME WorkDecides, ~ParkDeepReorg
    PROVE  Spec => []TipIsBest
<1> DEFINE Inv == Types /\ LinkInv /\ CandInv /\ NoneParked /\ BestOK
<1>1. Init => Inv
  <2> SUFFICES ASSUME Init PROVE NoneParked /\ BestOK
    BY LinkInit, CandInit, Zenon
  <2>1. NoneParked
    BY Zenon DEF Init, NoneParked, NothingSaved
  <2>2. candidates = {Genesis} /\ tip = Genesis /\ abc.mostWork = NullHash /\ OrderedBy(seq)
    BY InitTypes, WorseOrder, Zenon DEF Init, Idle, SeqsOK
  <2> QED BY <2>1, <2>2, TreeAssumption, Zenon DEF BestOK, OrderedBy, Worse
<1>2. Inv /\ [Next]_vars => Inv'
  BY CandStep, NoneParkedStep, BestStep, Zenon
<1>3. Inv => TipIsBest
  <2> SUFFICES ASSUME Inv, Quiet, ~pending, NEW b \in Blocks, Usable(b) PROVE ~WorseBy(seq, tip, b)
    BY Zenon DEF TipIsBest, Worse
  <2>1. b \in linked \ Marked
    BY TreeFacts, Zenon DEF Usable, Marked, isInvalid, isOnParkedChain, Line
  <2>2. b \in candidates \/ WorseBy(seq, b, tip)
    BY <2>1, Zenon DEF Quiet, CandInv, OrderOK, InLoop, Worse
  <2>3. b \in candidates => ~WorseBy(seq, tip, b)
    BY Zenon DEF Quiet, BestOK, Worse
  <2>4. OrderedBy(seq) /\ tip \in Blocks
    BY TipFacts, Zenon
  <2> QED BY <2>2, <2>3, <2>4, Zenon DEF OrderedBy
<1> QED BY <1>1, <1>2, <1>3, PTL DEF Spec
=============================================================================
