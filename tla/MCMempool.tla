----------------------------- MODULE MCMempool ------------------------------
(***************************************************************************)
(* Mempool on three branches, g - a1 - a2 - a3, g - b1 - b2 and g - c1.    *)
(* a1 confirms p and its child c (c first, as the canonical order of a     *)
(* block may have it), a2 d, which spends both, and w, and a3 v.  b1       *)
(* confirms p again and b2 e, which spends what c spends; x, in c1, spends *)
(* what p spends.  s spends the coinbase of a1, which is mature from a2    *)
(* on; y spends c and w and breaks the rules that a2 and b2 activate, q    *)
(* spends what y spends of w and breaks those before them; d can be mined  *)
(* from height 2 on; u spends p and r, z spends x.                         *)
(***************************************************************************)
EXTENDS Mempool

MCBlocks == {"g", "a1", "a2", "a3", "b1", "b2", "c1"}
MCParent == [g |-> NullHash, a1 |-> "g", a2 |-> "a1", a3 |-> "a2",
             b1 |-> "g", b2 |-> "b1", c1 |-> "g"]
MCHeight == [g |-> 0, a1 |-> 1, a2 |-> 2, a3 |-> 3, b1 |-> 1, b2 |-> 2, c1 |-> 1]
MCAncestors ==
    [g  |-> {"g"}, a1 |-> {"g", "a1"}, a2 |-> {"g", "a1", "a2"},
     a3 |-> {"g", "a1", "a2", "a3"},
     b1 |-> {"g", "b1"}, b2 |-> {"g", "b1", "b2"}, c1 |-> {"g", "c1"}]

MCTxs    == {"f", "k", "p", "c", "d", "e", "x", "s", "w", "y", "v", "q", "r", "u", "z"}
MCInputs ==
    [f |-> {}, k |-> {},
     p |-> {<<"f", 0>>}, x |-> {<<"f", 0>>}, w |-> {<<"f", 1>>},
     c |-> {<<"p", 0>>}, e |-> {<<"p", 0>>}, d |-> {<<"p", 1>>, <<"c", 0>>},
     s |-> {<<"k", 0>>}, y |-> {<<"c", 1>>, <<"w", 0>>}, v |-> {<<"d", 0>>, <<"w", 1>>},
     q |-> {<<"w", 0>>}, r |-> {<<"f", 2>>}, u |-> {<<"p", 2>>, <<"r", 0>>},
     z |-> {<<"x", 0>>}]
MCSize   == [p |-> 1, c |-> 2, d |-> 4, e |-> 8, x |-> 16, s |-> 32, w |-> 64,
             r |-> 128, u |-> 256, z |-> 512, q |-> 1024, y |-> 2048, v |-> 4096,
             k |-> 8192, f |-> 16384]
MCBlockTxs ==
    [g |-> <<"f">>, a1 |-> <<"k", "c", "p">>, a2 |-> <<"d", "w">>, a3 |-> <<"v">>,
     b1 |-> <<"p">>, b2 |-> <<"e">>, c1 |-> <<"x">>]

MCFinal   == [t \in MCTxs |-> IF t = "d" THEN MCBlocks \ {"g"} ELSE MCBlocks]
MCAllowed == [t \in MCTxs |-> IF t = "y" THEN MCBlocks \ {"a2", "a3", "b2"}
                             ELSE IF t = "q" THEN {"a2", "a3", "b2"} ELSE MCBlocks]
MCOrders  == {<<"f", "k", "p", "c", "d", "e", "x", "s", "w", "y", "v", "q", "r", "u", "z">>,
              <<"z", "u", "r", "q", "v", "y", "w", "s", "x", "e", "d", "c", "p", "k", "f">>}
=============================================================================
