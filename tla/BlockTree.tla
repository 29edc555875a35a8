----------------------------- MODULE BlockTree ------------------------------
(***************************************************************************)
(* The tree of block headers that a node may come to know, as constants:   *)
(* pprev, nHeight, and the blocks that GetAncestor can return.             *)
(***************************************************************************)
EXTENDS Integers, FiniteSets

CONSTANTS Blocks, Genesis, NullHash,
          Parent,      \* pprev
          Height,      \* nHeight
          Ancestors    \* a block and every block below it

ASSUME TreeAssumption ==
    /\ Genesis \in Blocks /\ NullHash \notin Blocks
    /\ Parent \in [Blocks -> Blocks \cup {NullHash}]
    /\ Parent[Genesis] = NullHash
    /\ \A b \in Blocks \ {Genesis} : Parent[b] \in Blocks

ASSUME HeightAssumption ==
    /\ Height \in [Blocks -> Nat]
    /\ Height[Genesis] = 0
    /\ \A b \in Blocks \ {Genesis} : Height[b] = Height[Parent[b]] + 1

ASSUME AncestorsAssumption ==
    /\ Ancestors \in [Blocks -> SUBSET Blocks]
    /\ Ancestors[Genesis] = {Genesis}
    /\ \A b \in Blocks \ {Genesis} : Ancestors[b] = {b} \cup Ancestors[Parent[b]]
=============================================================================
