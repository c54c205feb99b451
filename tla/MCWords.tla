------------------------------ MODULE MCWords ------------------------------
(***************************************************************************)
(* Registers of four bits: every value of three registers, and six         *)
(* patterns in which a wide division's registers coincide.                 *)
(***************************************************************************)
EXTENDS Words

MCFetched ==
    [op : {"Ldi"}, d : Reg, imm : Word]
    \cup {[op |-> o, d |-> 0, a |-> a, b |-> b] : o \in Binary, a, b \in {0, 1}}
    \cup {[op |-> o, dlo |-> p[1], dhi |-> p[2], alo |-> p[3], ahi |-> p[4],
           blo |-> p[5], bhi |-> p[6]] :
            o \in {"DivW", "RemW"},
            p \in {<<0, 1, 0, 1, 2, 2>>, <<1, 0, 0, 1, 1, 2>>,
                   <<0, 1, 2, 1, 0, 1>>, <<2, 1, 1, 0, 2, 1>>,
                   <<0, 0, 0, 1, 2, 1>>, <<2, 0, 1, 1, 2, 0>>}}
=============================================================================
