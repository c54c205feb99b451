------------------------------- MODULE MCAsm -------------------------------
(***************************************************************************)
(* Programs of up to five lines through both passes of the assembler:      *)
(* labels, jumps to them in either direction, operands at the edge of      *)
(* their range, one line for each way to be wrong, and every opcode; and   *)
(* bytes that no assembler wrote.                                          *)
(***************************************************************************)
EXTENDS Disasm

Token(text, r, n, d) == [text |-> text, reg |-> r, num |-> n, digit |-> d]

Reg(n) == Token("r", {n}, {}, FALSE)
Num(v) == Token("n", {}, {v}, TRUE)
Name(s) == Token(s, {}, {}, FALSE)
TooBig == Token("n", {}, {}, TRUE)      \* does not fit 64 bits
Plus == Token("+1", {}, {<<0, 0, 0, 1>>}, FALSE)

Line(op, ops) == [kind |-> "instr", op |-> op, ops |-> ops]
LabelLine(s) == [kind |-> "label", name |-> s]

(* A label may be spelled like a register. *)
Sample ==
    {LabelLine("a"), LabelLine("r"), Line("Jmp", <<Name("a")>>),
     Line("Jnz", <<Reg(15), Reg(1)>>), Line("Halt", <<>>),
     Line("Ldi", <<Reg(2), Plus>>), Line("Ldc", <<Reg(0), Num(<<0, 0, 0, 258>>)>>)}

Wrong ==
    {Line("Ldc", <<Reg(0), Num(<<0, 0, 1, 0>>)>>), Line("Call", <<TooBig>>),
     Line("Call", <<Num(<<0, 1, 0, 0>>)>>), Line("Call", <<Plus>>),
     Line("Mov", <<Reg(0)>>), Line("Push", <<Reg(16)>>),
     Line("Pop", <<Name("a")>>), Line("Foo", <<>>)}

Value(kind, i) ==
    CASE kind = "reg" -> Reg(i)
      [] kind = "u64" -> Num(<<1, 2, 3, 4>>)
      [] kind = "u16" -> Num(<<0, 0, 0, 65535>>)
      [] kind = "u32" -> Num(<<0, 0, 9, 1>>)

EveryOp == {Line(op, [i \in DOMAIN Operands(op) |-> Value(Operands(op)[i], i)]) :
                op \in OpCode}

(* One line over operands at the edge of their fields; of the two opcodes  *)
(* that have six registers only the line in EveryOp                        *)
Limbs == {0, 511, 65535}

Edges(kind) ==
    CASE kind = "reg" -> {Reg(r) : r \in {0, 9, 15}}
      [] kind = "u16" -> {Num(<<0, 0, 0, x>>) : x \in Limbs}
      [] kind = "u32" -> {Num(<<0, 0, x, y>>) : x, y \in Limbs}
      [] kind = "u64" -> {Num(<<x, 0, y, 258>>) : x, y \in Limbs}

EdgeLines(op) ==
    LET kinds == Operands(op) IN
    {Line(op, ops) : ops \in
        {f \in [DOMAIN kinds -> UNION {Edges(kinds[i]) : i \in DOMAIN kinds}] :
            \A i \in DOMAIN kinds : f[i] \in Edges(kinds[i])}}

EveryEdge == UNION {EdgeLines(op) : op \in OpCode \ {"DivW", "RemW"}}

MCSources ==
    BoundedSeq(Sample, 4)
    \cup {<<w>> \o s : w \in Wrong, s \in Sample \X Sample}
    \cup {s \o <<w>> : w \in Wrong, s \in Sample \X Sample}
    \cup {<<LabelLine("a"), l, LabelLine("r"), Line("Jz", <<Reg(1), Name("r")>>),
            Line("Jmp", <<Name("a")>>)>> : l \in EveryOp}
    \cup {<<l>> : l \in EveryEdge}

(* Every first byte with up to three more, and the longer encodings with   *)
(* every operand byte on either side of NUM_REGS, complete and cut short.  *)
MCRawCodes ==
    {<<b>> \o s : b \in Byte, s \in BoundedSeq({1, 15, 16}, 3)}
    \cup {<<b>> \o s : b \in {3, 28, 65, 66},
                       s \in UNION {[1..n -> {15, 16}] : n \in 4..9}}
=============================================================================
