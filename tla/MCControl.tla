----------------------------- MODULE MCControl -----------------------------
(***************************************************************************)
(* Instances of Control for TLC: containers whose code is real bytes, read *)
(* by decode of module Isa at every offset.                                *)
(***************************************************************************)
EXTENDS Control, SequencesExt

ISA == INSTANCE Isa

(* The operand that control flow depends on: a target or a constant index *)
ArgOf(instr) ==
    CASE instr.op \in {"Jmp", "Call"} ->
            65536 * instr.args[1][1] + instr.args[1][2]
      [] instr.op \in {"Jz", "Jnz"} ->
            65536 * instr.args[2][1] + instr.args[2][2]
      [] instr.op = "Ldc" -> instr.args[2][1]
      [] OTHER -> 0

DecodeAt(bytes, at) ==
    LET d == ISA!decode(bytes, at) IN
    IF d.err # "none" THEN Undecodable
    ELSE [op |-> d.instr.op, len |-> d.len, arg |-> ArgOf(d.instr)]

(* Container::new *)
Loaded(bytes, n_consts, table) ==
    [len |-> Len(bytes),
     at |-> [i \in 0..(Len(bytes) - 1) |-> DecodeAt(bytes, i)],
     consts |-> n_consts, entries |-> table]

MCcost == [op \in OpCode |-> IF op = "Halt" THEN 0 ELSE 1]

I(op, args) == ISA!encode([op |-> op, args |-> args])
Reg == <<0>>
At(offset) == <<0, offset>>     \* a u32 as its two limbs

(* An immediate that hides a jump to 0, a halt and two returns from a scan *)
(* that starts where the instruction does                                  *)
HiddenJump == I("Ldi", <<Reg, <<16384, 0, 0, 17476>>>>)

Codes == {
    \* a call, and a return from it
    I("Call", <<At(6)>>) \o I("Halt", <<>>) \o I("Ret", <<>>),
    \* unbounded recursion
    I("Nop", <<>>) \o I("Call", <<At(0)>>),
    \* a return to a pushed word, with code hidden behind it
    I("Push", <<Reg>>) \o I("Ret", <<>>) \o HiddenJump,
    \* pushes without end
    I("Push", <<Reg>>) \o I("Jmp", <<At(0)>>),
    \* a jump into an immediate
    I("Jmp", <<At(7)>>) \o HiddenJump,
    \* a loop that may trap, and whose branch may run off the end
    I("Add", <<Reg, Reg, Reg>>) \o I("Jnz", <<Reg, At(0)>>),
    \* pops and constants
    I("Push", <<Reg>>) \o I("Pop", <<Reg>>) \o I("Pop", <<Reg>>),
    I("Ldc", <<Reg, <<0>>>>) \o I("Ldc", <<Reg, <<1>>>>),
    \* an undecodable tail
    I("Jz", <<Reg, At(6)>>) \o <<255>>,
    \* code past u32, which only a system program may have
    HiddenJump \o HiddenJump,
    <<>>}

E(sel, offset, declared) ==
    [selector |-> sel, offset |-> offset, declared |-> declared]

EntryLists == {
    <<>>,
    <<E("a", 0, 1)>>,
    <<E("a", 2, 0), E(Genesis, 0, 0)>>,
    <<E("a", 0, 0), E("a", 3, 0), E("b", 0, 2)>>,
    <<E("a", 5, 0), E("b", 0, 0), E("c", 0, 0), E(Genesis, 0, 0)>>}

MCContainers ==
    {Loaded(code, consts, entries) :
        code \in Codes, consts \in 1..3, entries \in EntryLists}
=============================================================================
