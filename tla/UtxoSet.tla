------------------------------ MODULE UtxoSet -------------------------------
(***************************************************************************)
(* What the coin caches promise: a map from outpoints to coins with a best *)
(* block, and one scratch view of it at a time that is committed as a      *)
(* whole or dropped.                                                       *)
(***************************************************************************)
CONSTANTS Outpoints, Coins, Spent, Unspendable, Blocks

VARIABLES tipCoins, tipBlock,   \* pcoinsTip, as its readers see it
          viewCoins, viewBlock, \* the view a block is connected in
          open                  \* such a view exists

vars == <<tipCoins, tipBlock, viewCoins, viewBlock, open>>

Init ==
    /\ tipCoins \in [Outpoints -> Coins \cup {Spent}]
    /\ tipBlock \in Blocks
    /\ viewCoins = tipCoins /\ viewBlock = tipBlock
    /\ open = FALSE

Begin ==
    /\ ~open
    /\ open' = TRUE
    /\ UNCHANGED <<tipCoins, tipBlock, viewCoins, viewBlock>>

Add(o, c) ==
    /\ open
    /\ viewCoins' = IF c \in Unspendable THEN viewCoins
                                         ELSE [viewCoins EXCEPT ![o] = c]
    /\ UNCHANGED <<tipCoins, tipBlock, viewBlock, open>>

Spend(o) ==
    /\ open
    /\ viewCoins' = [viewCoins EXCEPT ![o] = Spent]
    /\ UNCHANGED <<tipCoins, tipBlock, viewBlock, open>>

SetBest(b) ==
    /\ open
    /\ viewBlock' = b
    /\ UNCHANGED <<tipCoins, tipBlock, viewCoins, open>>

Commit ==
    /\ open
    /\ tipCoins' = viewCoins /\ tipBlock' = viewBlock
    /\ open' = FALSE
    /\ UNCHANGED <<viewCoins, viewBlock>>

Abort ==
    /\ open
    /\ viewCoins' = tipCoins /\ viewBlock' = tipBlock
    /\ open' = FALSE
    /\ UNCHANGED <<tipCoins, tipBlock>>

Next ==
    \/ Begin \/ Commit \/ Abort
    \/ \E o \in Outpoints : Spend(o) \/ \E c \in Coins : Add(o, c)
    \/ \E b \in Blocks : SetBest(b)

Spec == Init /\ [][Next]_vars
=============================================================================
