------------------------------ MODULE MCMemory ------------------------------
(***************************************************************************)
(* Two-valued bytes, three-byte words and six bytes of memory: every word  *)
(* is an offset inside or outside memory, and a digest of four bytes may   *)
(* fall before, on or across its preimage.                                 *)
(***************************************************************************)
EXTENDS Memory, SequencesExt

Number(s) == FoldLeft(LAMBDA n, b : 2 * n + b, 0, s)

(* A digest that spreads the short strings over the sixteen digests *)
MCSha3 == [s \in BoundedSeq({0, 1}, 7) |->
    LET n == (5 * Number(s) + 3 * Len(s) + 2) % 16
    IN  [i \in 1..4 |-> (n \div 2^(4 - i)) % 2]]

MCPK == [VerifyMl |-> 2, VerifySlh |-> 1]
MCSIG == [VerifyMl |-> 1, VerifySlh |-> 2]
MCSigned == {<<<<1, 0>>, <<1>>, <<0>>>>, <<<<0, 0>>, <<>>, <<0>>>>,
             <<<<0>>, <<0, 0>>, <<0, 0>>>>}
MCDegenerate == {<<0, 0>>}
=============================================================================
