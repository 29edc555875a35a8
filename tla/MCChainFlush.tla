---------------------------- MODULE MCChainFlush ----------------------------
(* Two branches above the genesis block, of which an instance takes the    *)
(* blocks it needs.  The outpoint x is created at a different height in    *)
(* each, y is created in both and spent in one, and z is spent in the      *)
(* block that creates it.                                                  *)
EXTENDS ChainFlush, TLC, Functions

CONSTANTS g, a1, a2, b1, b2, x, y, z

MCParent  == Restrict((g :> NullHash) @@ (a1 :> g) @@ (a2 :> a1) @@ (b1 :> g) @@ (b2 :> b1),
                      Blocks)
MCHeight  == Restrict((g :> 0) @@ (a1 :> 1) @@ (a2 :> 2) @@ (b1 :> 1) @@ (b2 :> 2), Blocks)
MCAncestors == Restrict((g :> {g}) @@ (a1 :> {g, a1}) @@ (a2 :> {g, a1, a2})
                                   @@ (b1 :> {g, b1}) @@ (b2 :> {g, b1, b2}), Blocks)
MCOutputs == Restrict((g :> {}) @@ (a1 :> {x}) @@ (a2 :> {y}) @@ (b1 :> {y}) @@ (b2 :> {x, z}),
                      Blocks)
MCInputs  == Restrict((g :> {}) @@ (a1 :> {}) @@ (a2 :> {x}) @@ (b1 :> {}) @@ (b2 :> {y, z}),
                      Blocks)
MCCoins   == {1, 2}
MCMemory  == [c \in MCCoins |-> 1]

MCUtxo[b \in Blocks] ==
    [o \in Outpoints |->
        IF b = g \/ o \in MCInputs[b] THEN Spent
        ELSE IF o \in MCOutputs[b] THEN MCHeight[b] ELSE MCUtxo[MCParent[b]][o]]
=============================================================================
