---------------------------- MODULE MCChainState ----------------------------
(* Branches above the genesis block: a1, a2, a3, and b1, ..., b4, and c2,  *)
(* which also follows b1.  A configuration takes some of the blocks.       *)
EXTENDS ChainState, Sequences, TLC

CONSTANTS g, a1, a2, a3, b1, b2, b3, b4, c2

Chain  == (g :> <<g>>) @@ (a1 :> <<g, a1>>) @@ (a2 :> <<g, a1, a2>>)
          @@ (a3 :> <<g, a1, a2, a3>>) @@ (b1 :> <<g, b1>>) @@ (b2 :> <<g, b1, b2>>)
          @@ (b3 :> <<g, b1, b2, b3>>) @@ (b4 :> <<g, b1, b2, b3, b4>>) @@ (c2 :> <<g, b1, c2>>)
Order  == <<g, a1, b1, a2, b2, c2, a3, b3, b4>>

MCHeight    == [b \in Blocks |-> Len(Chain[b]) - 1]
MCParent    == [b \in Blocks |-> IF b = g THEN NullHash ELSE Chain[b][Len(Chain[b]) - 1]]
MCAncestors == [b \in Blocks |-> {Chain[b][i] : i \in DOMAIN Chain[b]}]
(* Every block has two units of work, so that half a block's worth exists. *)
MCWork      == [b \in Blocks |-> 2 * MCHeight[b]]
(* The same, but b2 is heavier than a2, and not by more than half a block. *)
MCWorkHalf  == [b \in Blocks |-> 2 * MCHeight[b] + IF b = b2 THEN 1 ELSE 0]
MCAddr      == [b \in Blocks |-> CHOOSE i \in DOMAIN Order : Order[i] = b]
MCDisabled  == -1
=============================================================================
