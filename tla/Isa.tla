-------------------------------- MODULE Isa --------------------------------
(***************************************************************************)
(* The instruction encoding of crates/qtv-vm/src/isa.rs: encode, decode    *)
(* and the Cursor they read operands with.                                 *)
(*                                                                         *)
(* An instruction is an opcode and the sequence of its operands. An        *)
(* operand is a sequence too: <<r>> for register r, and the 16-bit limbs   *)
(* of a u16, u32 or u64, most significant first, so that full-width words  *)
(* stay within TLC's integers. code is a sequence of bytes, and an offset  *)
(* into it counts from 0, as in the source.                                *)
(***************************************************************************)
EXTENDS OpCodes, Integers, SequencesExt

NUM_REGS == 16
BYTE == 256
LIMB == BYTE * BYTE
Byte == 0..(BYTE - 1)
Limb == 0..(LIMB - 1)

(* OpCode as u8 *)
opcode == [
    Halt |-> 0, Nop |-> 1, Mov |-> 2, Ldi |-> 3, Ldc |-> 4,
    Add |-> 16, Sub |-> 17, Mul |-> 18, Div |-> 19, Rem |-> 20,
    AddW |-> 24, SubW |-> 25, MulW |-> 26, MulHi |-> 27,
    DivW |-> 28, RemW |-> 29,
    And |-> 32, Or |-> 33, Xor |-> 34, Not |-> 35, Shl |-> 36, Shr |-> 37,
    Eq |-> 40, LtU |-> 41, GtU |-> 42,
    Push |-> 48, Pop |-> 49, MLoad |-> 56, MStore |-> 57,
    Jmp |-> 64, Jz |-> 65, Jnz |-> 66, Call |-> 67, Ret |-> 68,
    SLoad |-> 80, SStore |-> 81, Send |-> 96, Emit |-> 97,
    Hash |-> 112, VerifyMl |-> 113, VerifySlh |-> 114,
    MerkleVerify |-> 115, Addr |-> 118]

(* OpCode::from_byte, whose arms are runs of consecutive bytes *)
OpcodeRuns == {
    <<0, <<"Halt", "Nop", "Mov", "Ldi", "Ldc">>>>,
    <<16, <<"Add", "Sub", "Mul", "Div", "Rem">>>>,
    <<24, <<"AddW", "SubW", "MulW", "MulHi", "DivW", "RemW">>>>,
    <<32, <<"And", "Or", "Xor", "Not", "Shl", "Shr">>>>,
    <<40, <<"Eq", "LtU", "GtU">>>>,
    <<48, <<"Push", "Pop">>>>, <<56, <<"MLoad", "MStore">>>>,
    <<64, <<"Jmp", "Jz", "Jnz", "Call", "Ret">>>>,
    <<80, <<"SLoad", "SStore">>>>, <<96, <<"Send", "Emit">>>>,
    <<112, <<"Hash", "VerifyMl", "VerifySlh", "MerkleVerify">>>>,
    <<118, <<"Addr">>>>}

from_byte(b) ==
    {run[2][b - run[1] + 1] :
        run \in {r \in OpcodeRuns : b - r[1] + 1 \in DOMAIN r[2]}}

(* The operands of each opcode, in order: enum Instr *)
Operands(op) ==
    CASE op \in {"Halt", "Nop", "Ret"} -> <<>>
      [] op \in {"Push", "Pop"} -> <<"reg">>
      [] op \in {"Mov", "Not", "MLoad", "SLoad", "MStore", "SStore"} ->
            <<"reg", "reg">>
      [] op = "Ldi" -> <<"reg", "u64">>
      [] op = "Ldc" -> <<"reg", "u16">>
      [] op \in {"Jmp", "Call"} -> <<"u32">>
      [] op \in {"Jz", "Jnz"} -> <<"reg", "u32">>
      [] op \in {"DivW", "RemW"} ->
            <<"reg", "reg", "reg", "reg", "reg", "reg">>
      [] OTHER -> <<"reg", "reg", "reg">>

(* Mutant of Width: a constant index of three bytes. *)
WidthWideIndex == [reg |-> 1, u16 |-> 3, u32 |-> 4, u64 |-> 8]

Width == [reg |-> 1, u16 |-> 2, u32 |-> 4, u64 |-> 8]

(* Whether each operand byte of op must name a register *)
IsRegByte(op) ==
    FlattenSeq([i \in DOMAIN Operands(op) |->
        [j \in 1..Width[Operands(op)[i]] |-> Operands(op)[i] = "reg"]])

(* to_be_bytes *)
ToBytes(kind, x) ==
    IF kind = "reg" THEN x
    ELSE FlattenSeq([i \in DOMAIN x |-> <<x[i] \div BYTE, x[i] % BYTE>>])

(* Mutant of FromBytes: register numbers are masked. *)
FromBytesMasked(kind, bytes) ==
    IF kind = "reg" THEN <<bytes[1] % 8>>
    ELSE [i \in 1..(Len(bytes) \div 2) |->
            BYTE * bytes[2 * i - 1] + bytes[2 * i]]

(* from_be_bytes *)
FromBytes(kind, bytes) ==
    IF kind = "reg" THEN bytes
    ELSE [i \in 1..(Len(bytes) \div 2) |->
            BYTE * bytes[2 * i - 1] + bytes[2 * i]]

(* Instr::encode *)
encode(instr) ==
    <<opcode[instr.op]>> \o
        FlattenSeq([i \in DOMAIN instr.args |->
            ToBytes(Operands(instr.op)[i], instr.args[i])])

encoded_len(instr) == Len(encode(instr))

(* The sum of the first n elements of w *)
SumOfFirst(w, n) ==
    LET Sum[i \in 0..n] == IF i = 0 THEN 0 ELSE Sum[i - 1] + w[i]
    IN  Sum[n]

Widths(op) == [i \in DOMAIN Operands(op) |-> Width[Operands(op)[i]]]

(* Where operand i of op starts, relative to the opcode byte *)
OperandAt(op, i) == 1 + SumOfFirst(Widths(op), i - 1)

OperandsFrom(code, pc, op) ==
    [i \in DOMAIN Operands(op) |->
        LET start == pc + OperandAt(op, i)
            kind == Operands(op)[i]
        IN  FromBytes(kind, SubSeq(code, start + 1, start + Width[kind]))]

Truncated == [err |-> "Truncated"]

(* decode: the first byte that is missing, or that should name a register  *)
(* and does not, is the error.                                             *)
decode(code, pc) ==
    IF pc >= Len(code) THEN Truncated
    ELSE IF from_byte(code[pc + 1]) = {}
    THEN [err |-> "UnknownOpcode", byte |-> code[pc + 1]]
    ELSE
        LET op == CHOOSE o \in from_byte(code[pc + 1]) : TRUE
            isReg == IsRegByte(op)
            at(i) == pc + 1 + i
            bad == {i \in DOMAIN isReg :
                        at(i) > Len(code)
                        \/ (isReg[i] /\ code[at(i)] >= NUM_REGS)}
            first == Min(bad)
        IN  IF bad = {}
            THEN [err |-> "none", len |-> 1 + Len(isReg),
                  instr |-> [op |-> op, args |-> OperandsFrom(code, pc, op)]]
            ELSE IF at(first) > Len(code) THEN Truncated
            ELSE [err |-> "BadRegister", byte |-> code[at(first)]]
=============================================================================
