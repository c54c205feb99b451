-------------------------------- MODULE Asm --------------------------------
(***************************************************************************)
(* The two-pass assembler, assemble in crates/qtv-vm/src/asm.rs. The first *)
(* pass gives each label its offset, with 0 for the labels it has not seen *)
(* yet; the second pass encodes.                                           *)
(*                                                                         *)
(* The text is already split into logical lines: a label, or a mnemonic    *)
(* and its operands. A mnemonic stands for the opcode it names. An operand *)
(* is a token of which the model keeps what the parser asks: its text, the *)
(* number after a leading r (reg) and its value as a u64 (num), as sets    *)
(* that are empty when it has none, and whether it starts with a digit.    *)
(***************************************************************************)
EXTENDS Isa

CONSTANTS
    Sources,    \* programs: sequences of lines
    U32_MAX

(* Operands and logical lines *)
AtMostOne(S) == {s \in SUBSET S : \A x, y \in s : x = y}

Tokens == [text : STRING, reg : AtMostOne(Nat), num : AtMostOne([1..4 -> Limb]),
           digit : BOOLEAN]

SourceLines == [kind : {"label"}, name : STRING]
        \cup [kind : {"instr"}, op : STRING, ops : Seq(Tokens)]

ASSUME U32Assumption == U32_MAX \in Nat /\ U32_MAX \div LIMB \in Limb
ASSUME SourcesAreLines == Sources \subseteq Seq(SourceLines)

VARIABLES
    lines,      \* the program
    pass,       \* 1, 2 or 3 once it is over
    no,         \* the line at hand
    labels,     \* what the first pass found
    offset,     \* of the line at hand, in the first pass
    code,       \* the output of the second pass
    result      \* "none", "ok" or the error

vars == <<lines, pass, no, labels, offset, code, result>>

(***************************************************************************)
(* The operands of each mnemonic                                           *)
(***************************************************************************)
R(n) == [i \in 1..n |-> "reg"]

(* The first arms of parse_instr *)
leading(op) ==
    CASE op \in {"Halt", "Nop", "Ret"} -> {R(0)}
      [] op = "Mov" -> {R(2)}
      [] op = "Ldi" -> {<<"reg", "u64">>}
      [] op = "Ldc" -> {<<"reg", "u16">>}
      [] OTHER -> {}

(* enum Triple *)
Triple ==
    {"Add", "Sub", "Mul", "Div", "Rem", "AddW", "SubW", "MulW", "MulHi",
     "And", "Or", "Xor", "Shl", "Shr", "Eq", "LtU", "GtU", "Send", "Emit",
     "Hash", "VerifyMl", "VerifySlh", "MerkleVerify", "Addr"}

arithmetic(op) ==
    CASE op \in Triple -> {R(3)}
      [] op \in {"DivW", "RemW"} -> {R(6)}
      [] OTHER -> {}

(* The last arms of parse_instr *)
trailing(op) ==
    CASE op \in {"Not", "MLoad", "MStore", "SLoad", "SStore"} -> {R(2)}
      [] op \in {"Push", "Pop"} -> {R(1)}
      [] op \in {"Jmp", "Call"} -> {<<"target">>}
      [] op \in {"Jz", "Jnz"} -> {<<"reg", "target">>}
      [] OTHER -> {}

(***************************************************************************)
(* Operands: each parser gives an error or a value                         *)
(***************************************************************************)
Good(v) == [err |-> "none", val |-> v]
Bad(e) == [err |-> e]

reg(tok) ==
    IF tok.reg \cap 0..(NUM_REGS - 1) = {} THEN Bad("BadRegister")
    ELSE Good(<<CHOOSE r \in tok.reg : TRUE>>)

(* Mutant of num: a number that does not fit is cut. *)
numCut(tok, n) ==
    IF tok.num = {} THEN Bad("BadNumber")
    ELSE Good(SubSeq(CHOOSE v \in tok.num : TRUE, 5 - n, 4))

(* The last n limbs of a number, the others being 0 *)
num(tok, n) ==
    LET fits == {v \in tok.num : \A i \in 1..(4 - n) : v[i] = 0}
    IN  IF fits = {} THEN Bad("BadNumber")
        ELSE Good(SubSeq(CHOOSE v \in fits : TRUE, 5 - n, 4))

num_u64(tok) == num(tok, 4)

num_u16(tok) == num(tok, 1)

Limbs32(n) == <<n \div LIMB, n % LIMB>>

target(tok, known, allow_unknown) ==
    IF tok.digit THEN num(tok, 2)
    ELSE IF tok.text \in DOMAIN known THEN Good(Limbs32(known[tok.text]))
    ELSE IF allow_unknown THEN Good(<<0, 0>>)
    ELSE Bad("UnknownLabel")

operand(kind, tok, known, allow_unknown) ==
    CASE kind = "reg" -> reg(tok)
      [] kind = "u64" -> num_u64(tok)
      [] kind = "u16" -> num_u16(tok)
      [] kind = "target" -> target(tok, known, allow_unknown)

(* Mutant of triple: the second and third operands change places. *)
tripleSwapped(op, v) ==
    [op |-> op, args |-> IF op \in Triple THEN <<v[1], v[3], v[2]>> ELSE v]

(* Operands keep their order: d, a, b, or a, b, c for the opcodes that     *)
(* have no destination (triple, and the arms that build an Instr).         *)
triple(op, v) == [op |-> op, args |-> v]

(* parse_instr: the first operand that does not parse is the error *)
parse_instr(line, known, allow_unknown) ==
    LET shapes == UNION {leading(line.op), arithmetic(line.op), trailing(line.op)}
        shape == CHOOSE s \in shapes : TRUE
        parsed == [i \in DOMAIN shape |->
                    operand(shape[i], line.ops[i], known, allow_unknown)]
        bad == {i \in DOMAIN shape : parsed[i].err # "none"}
    IN  IF shapes = {} THEN Bad("UnknownMnemonic")
        ELSE IF Len(line.ops) # Len(shape) THEN Bad("WrongOperands")
        ELSE IF bad # {} THEN parsed[Min(bad)]
        ELSE Good(triple(line.op, [i \in DOMAIN shape |-> parsed[i].val]))

(***************************************************************************)
(* assemble                                                                *)
(***************************************************************************)
Init ==
    /\ lines \in Sources
    /\ pass = 1 /\ no = 1
    /\ labels = <<>>
    /\ offset = 0
    /\ code = <<>>
    /\ result = "none"

At(p) == pass = p /\ no <= Len(lines)
IsLabel == lines[no].kind = "label"

Fail(e) ==
    /\ result' = e
    /\ pass' = 3
    /\ UNCHANGED <<lines, no, labels, offset, code>>

Label ==
    /\ At(1) /\ IsLabel
    /\ IF lines[no].name \in DOMAIN labels THEN Fail("DuplicateLabel")
       ELSE /\ labels' = [n \in DOMAIN labels \cup {lines[no].name} |->
                            IF n = lines[no].name THEN offset ELSE labels[n]]
            /\ no' = no + 1
            /\ UNCHANGED <<lines, pass, offset, code, result>>

(* Mutant of Measure: the target of a JMP is counted as one byte. *)
MeasureShort ==
    /\ At(1) /\ ~IsLabel
    /\ LET p == parse_instr(lines[no], labels, TRUE) IN
       IF p.err # "none" THEN Fail(p.err)
       ELSE IF offset + encoded_len(p.val) > U32_MAX THEN Fail("ProgramTooLarge")
       ELSE /\ offset' = offset + (IF p.val.op = "Jmp" THEN 2
                                   ELSE encoded_len(p.val))
            /\ no' = no + 1
            /\ UNCHANGED <<lines, pass, labels, code, result>>

Measure ==
    /\ At(1) /\ ~IsLabel
    /\ LET p == parse_instr(lines[no], labels, TRUE) IN
       IF p.err # "none" THEN Fail(p.err)
       ELSE IF offset + encoded_len(p.val) > U32_MAX THEN Fail("ProgramTooLarge")
       ELSE /\ offset' = offset + encoded_len(p.val)
            /\ no' = no + 1
            /\ UNCHANGED <<lines, pass, labels, code, result>>

SecondPass ==
    /\ pass = 1 /\ no > Len(lines)
    /\ pass' = 2 /\ no' = 1
    /\ UNCHANGED <<lines, labels, offset, code, result>>

SkipLabel ==
    /\ At(2) /\ IsLabel
    /\ no' = no + 1
    /\ UNCHANGED <<lines, pass, labels, offset, code, result>>

Encode ==
    /\ At(2) /\ ~IsLabel
    /\ LET p == parse_instr(lines[no], labels, FALSE) IN
       IF p.err # "none" THEN Fail(p.err)
       ELSE /\ code' = code \o encode(p.val)
            /\ no' = no + 1
            /\ UNCHANGED <<lines, pass, labels, offset, result>>

Finish ==
    /\ pass = 2 /\ no > Len(lines)
    /\ pass' = 3
    /\ result' = "ok"
    /\ UNCHANGED <<lines, no, labels, offset, code>>

Next ==
    \/ Label \/ Measure \/ SecondPass
    \/ SkipLabel \/ Encode \/ Finish

Spec == Init /\ [][Next]_vars

(***************************************************************************)
(* Properties                                                              *)
(***************************************************************************)
(* The two passes agree: when the second pass comes to a label, the code   *)
(* so far is as long as the first pass said, although it measured jumps    *)
(* whose labels it did not know yet; and the ends agree too.               *)
PassesAgree ==
    pass = 2 => IF no > Len(lines) THEN offset = Len(code)
                ELSE IsLabel => labels[lines[no].name] = Len(code)

(* The bytes of a line, by the encoding of its opcode *)
Bytes(line) ==
    IF line.kind = "label" THEN 0 ELSE OperandAt(line.op, Len(Operands(line.op)) + 1)

(* The bytes of the lines before line i *)
Before(i) == SumOfFirst([j \in DOMAIN lines |-> Bytes(lines[j])], i - 1)

(* The operand that a token should become *)
Meaning(kind, tok) ==
    CASE kind = "reg" -> {<<r>> : r \in tok.reg \cap 0..15}
      [] kind = "u64" -> tok.num
      [] kind = "u16" -> {<<v[4]>> : v \in {x \in tok.num : x[1] + x[2] + x[3] = 0}}
      [] kind = "u32" ->
            IF tok.digit
            THEN {<<v[3], v[4]>> : v \in {x \in tok.num : x[1] + x[2] = 0}}
            ELSE {Limbs32(Before(i)) : i \in {j \in DOMAIN lines :
                        lines[j].kind = "label" /\ lines[j].name = tok.text}}

Instrs == {i \in DOMAIN lines : lines[i].kind = "instr"}

WellFormed ==
    /\ \A i \in Instrs :
        LET line == lines[i] IN
        /\ line.op \in OpCode
        /\ Len(line.ops) = Len(Operands(line.op))
        /\ \A j \in DOMAIN line.ops :
            Meaning(Operands(line.op)[j], line.ops[j]) # {}
    /\ \A i, j \in DOMAIN lines :
        /\ lines[i].kind = "label" /\ lines[j].kind = "label"
        /\ lines[i].name = lines[j].name
        => i = j
    /\ Before(Len(lines) + 1) <= U32_MAX

(* A program assembles exactly when it is well formed: every mnemonic      *)
(* takes the operands its opcode has, registers and numbers fit, no label  *)
(* is defined twice, and every label used is defined, before or after.     *)
AssemblesWellFormed == pass = 3 => (result = "ok" <=> WellFormed)

(* What is assembled is what was written: the code decodes to the lines'   *)
(* opcodes with the operands they name, and a label stands for the offset  *)
(* of the instruction that follows it, or for the end of the code.         *)
CodeMeansSource ==
    result = "ok" =>
        /\ Len(code) = Before(Len(lines) + 1)
        /\ \A i \in Instrs :
            LET d == decode(code, Before(i)) IN
            /\ d.err = "none" /\ d.instr.op = lines[i].op
            /\ \A j \in DOMAIN lines[i].ops :
                d.instr.args[j] \in Meaning(Operands(lines[i].op)[j], lines[i].ops[j])
=============================================================================
