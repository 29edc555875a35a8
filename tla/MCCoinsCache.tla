---------------------------- MODULE MCCoinsCache ----------------------------
(* Instances of CoinsCache for TLC. *)
EXTENDS CoinsCache, TLC

CONSTANTS c1, c2, cu

MCCoins == {c1, c2, cu}
MCMemory == (c1 :> 1) @@ (c2 :> 2) @@ (cu :> 1)
=============================================================================
