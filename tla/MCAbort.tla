------------------------------ MODULE MCAbort ------------------------------
(***************************************************************************)
(* Programs made of whole stubs, of every rule, and of the instructions    *)
(* that look like parts of one, with jumps into and around them; limits    *)
(* that a stub exceeds by one, just meets and leaves room for loops in.    *)
(***************************************************************************)
EXTENDS Abort

MCLines == {<<0, 0>>, <<0, 20820>>, <<20820, 7>>}
MCComputed == {Zero, <<20820, 99, 0, 5>>}

One == <<0, 0, 0, 1>>
R2 == <<2>>
Load == [op |-> "MLoad", args |-> <<R2, R2>>]
Jz(r, t) == [op |-> "Jz", args |-> <<r, <<0, t>>>>]

Tagged == Ldi(ABORT_REG, abort_code("Guard", <<0, 20820>>))

Parts == {Tagged, Ldi(ABORT_REG, Zero), Ldi(ZERO_REG, Zero),
          Ldi(ZERO_REG, One),
          Div(ABORT_REG, ABORT_REG, ZERO_REG),
          Div(ABORT_REG, ABORT_REG, ABORT_REG), Plain("Ret")}

(* A branch over or into what follows it: Load is 3 bytes and Jz 6, so the *)
(* next instructions start at 9, 19 and 29 when they are LDIs.             *)
MCPrograms ==
    {abort_stub(abort_code(rule, line)) : rule \in Rule, line \in MCLines}
    \cup {<<Plain("Nop")>> \o p : p \in [1..3 -> Parts]}
    \cup {<<Load, Jz(R2, t)>> \o p \o <<Plain("Halt")>> :
            t \in {9, 19, 29}, p \in [1..3 -> Parts]}
    \cup {abort_stub(abort_code("Denies", <<0, 0>>)) \o p : p \in [1..2 -> Parts]}
=============================================================================
