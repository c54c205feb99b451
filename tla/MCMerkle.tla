------------------------------ MODULE MCMerkle ------------------------------
(***************************************************************************)
(* MERKLE_VERIFY with two-bit indices: trees of one to eight leaves, where *)
(* eight is one level deeper than an index reaches.                        *)
(***************************************************************************)
EXTENDS Merkle

Leaves(t) == [i \in DOMAIN t |-> <<2, t[i]>>]
FromZero(s) == [i \in 0..(Len(s) - 1) |-> s[i + 1]]

MCTrees == {Leaves(FromZero(s)) : s \in
    {<<"a">>, <<"a", "b">>, <<"a", "a">>,
     <<"a", "b", "c", "a">>, <<"a", "a", "a", "a">>, <<"a", "b", "a", "b">>,
     <<"a", "b", "c", "b", "a", "a", "a", "b">>}}
=============================================================================
