--------------------------- MODULE MCBlockDownload ---------------------------
(* A chain of three blocks, of which the faulty peer lacks the last, and a *)
(* stale block that only it has and may send unasked.                      *)
EXTENDS BlockDownload, Sequences, TLC

CONSTANTS g, a1, a2, a3, b1, good, late

Chain == (g :> <<g>>) @@ (a1 :> <<g, a1>>) @@ (a2 :> <<g, a1, a2>>)
         @@ (a3 :> <<g, a1, a2, a3>>) @@ (b1 :> <<g, b1>>)

MCHeight    == [b \in Blocks |-> Len(Chain[b]) - 1]
MCParent    == [b \in Blocks |-> IF b = g THEN NullHash ELSE Chain[b][Len(Chain[b]) - 1]]
MCAncestors == [b \in Blocks |-> {Chain[b][i] : i \in DOMAIN Chain[b]}]
MCHolds     == [p \in Peers |-> Blocks \ IF p = late THEN {a3} ELSE {b1}]
MCAnnounces == [p \in Peers |-> IF p = late THEN {a2} ELSE {a3}]
=============================================================================
