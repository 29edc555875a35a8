-------------------------- MODULE MCBlockIndexSync --------------------------
(* Two branches; the first blocks of both have transaction t, and u is in  *)
(* the second block of either.                                             *)
EXTENDS BlockIndexSync, TLC

CONSTANTS g, a1, a2, b1, b2, t, u

Chain == (g :> <<g>>) @@ (a1 :> <<g, a1>>) @@ (a2 :> <<g, a1, a2>>)
         @@ (b1 :> <<g, b1>>) @@ (b2 :> <<g, b1, b2>>)

MCHeight    == [b \in Blocks |-> Len(Chain[b]) - 1]
MCParent    == [b \in Blocks |-> IF b = g THEN NullHash ELSE Chain[b][Len(Chain[b]) - 1]]
MCAncestors == [b \in Blocks |-> {Chain[b][i] : i \in DOMAIN Chain[b]}]
MCTxsOf     == [b \in Blocks |-> IF b = g THEN {} ELSE IF b \in {a1, b1} THEN {t} ELSE {u}]
=============================================================================
