----------------------------- MODULE AsmProofs -----------------------------
(***************************************************************************)
(* That the instruction encoding (Isa) is one to one, and that the two-    *)
(* pass assembler (Asm) assembles exactly the well-formed programs, to     *)
(* code that means what was written and that the linear disassembly        *)
(* (Disasm) reads back to its last byte, for every source and any bytes.   *)
(*                                                                         *)
(* The first half is about encode and decode.  LaidOut says where the      *)
(* operands of an opcode lie after its byte, and everything follows        *)
(* piece by piece from there: an operand is spelled in the bytes of its    *)
(* width (OperandBytes, BytesOperand), encode writes each in its place     *)
(* (EncodingIs), and decode succeeds exactly when the bytes of the layout  *)
(* are there and name registers where it has registers (Here).  So what    *)
(* was encoded decodes to itself (EncodeDecodes), what decodes encodes to  *)
(* the bytes it was read from (DecodeEncodes), and nothing outside these   *)
(* bytes matters (DecodeWhole, DecodeShort).                               *)
(*                                                                         *)
(* The second half is about the assembler.  The size of a line, Bytes,     *)
(* depends on its opcode only, so Before, the running sum of the sizes, is *)
(* what the first pass measures although it does not know the labels to    *)
(* come, and what the second pass writes.  parse_instr answers with        *)
(* operands that mean what the line says or refuses a line that means      *)
(* nothing (LineParses).  AsmInv then says: the first pass knows the       *)
(* labels of the lines it passed, each with its Before, and none twice;    *)
(* in the second pass every label is known and every line passed is        *)
(* encoded at its Before (Written); and at the end either all of that      *)
(* holds for the whole source or the source is not well formed.  CodeInv   *)
(* adds that the disassembly stands between two lines and that what it has *)
(* decoded encodes to the bytes it has passed.                             *)
(***************************************************************************)
EXTENDS Disasm, Induction, SequenceTheorems

(***************************************************************************)
(* The table of opcodes                                                    *)
(***************************************************************************)
(* Bytes, limbs and register numbers as numbers *)
LEMMA Ranges ==
  /\ BYTE \in Nat \ {0} /\ LIMB \in Nat \ {0}
  /\ \A v \in Byte : v \in Nat /\ v < BYTE
  /\ \A v \in Nat : v < BYTE => v \in Byte
  /\ \A v \in Limb : v \in Nat /\ v < LIMB
  /\ \A v \in Nat : v < LIMB => v \in Limb
  /\ \A v \in Byte : v < NUM_REGS => v \in 0..(NUM_REGS - 1)
  /\ \A v \in 0..(NUM_REGS - 1) : v \in Byte /\ v < NUM_REGS
<1>1. BYTE \in Nat \ {0} /\ LIMB \in Nat \ {0} /\ NUM_REGS \in Nat /\ NUM_REGS <= BYTE
  BY DEF BYTE, LIMB, NUM_REGS
<1> QED BY <1>1 DEF Byte, Limb

(* Every opcode is a byte, and no two opcodes are one byte. *)
LEMMA OpcodeBytes == \A o \in OpCode : opcode[o] \in Byte
<1>1. \A o \in OpCode : opcode[o] \in Nat /\ opcode[o] < 256
  BY DEF opcode, OpCode, PlainOps, ArithOps, BitOps, MoveOps, StackOps, FlowOps,
         VerifyOps, EffectOps
<1>2. BYTE = 256
  BY DEF BYTE
<1> QED BY <1>1, <1>2, Ranges

LEMMA OpcodesDiffer == \A o, p \in OpCode : opcode[o] = opcode[p] => o = p
BY DEF opcode, OpCode, PlainOps, ArithOps, BitOps, MoveOps, StackOps, FlowOps,
       VerifyOps, EffectOps

(* The arms of from_byte name each opcode at its own byte. *)
LEMMA RunsNameOpcodes ==
  ASSUME NEW b \in Int, NEW run \in OpcodeRuns, b - run[1] + 1 \in DOMAIN run[2]
  PROVE  /\ run[2][b - run[1] + 1] \in OpCode
         /\ opcode[run[2][b - run[1] + 1]] = b
BY DEF OpcodeRuns, opcode, OpCode, PlainOps, ArithOps, BitOps, MoveOps, StackOps,
       FlowOps, VerifyOps, EffectOps

LEMMA OpcodesHaveRuns ==
  ASSUME NEW o \in OpCode
  PROVE  \E run \in OpcodeRuns : /\ opcode[o] - run[1] + 1 \in DOMAIN run[2]
                                 /\ run[2][opcode[o] - run[1] + 1] = o
BY DEF OpcodeRuns, opcode, OpCode, PlainOps, ArithOps, BitOps, MoveOps, StackOps,
       FlowOps, VerifyOps, EffectOps

(* from_byte is the inverse of the numbering of the opcodes. *)
LEMMA FromByteNames ==
  ASSUME NEW b \in Int
  PROVE  \A o \in from_byte(b) : o \in OpCode /\ opcode[o] = b
BY RunsNameOpcodes DEF from_byte

LEMMA FromByteOpcode ==
  ASSUME NEW o \in OpCode
  PROVE  from_byte(opcode[o]) = {o}
<1>1. opcode[o] \in Int
  BY OpcodeBytes, Ranges
<1>2. o \in from_byte(opcode[o])
  BY OpcodesHaveRuns DEF from_byte
<1>3. \A p \in from_byte(opcode[o]) : p = o
  BY <1>1, FromByteNames, OpcodesDiffer
<1> QED BY <1>2, <1>3

LEMMA FromByteKnown ==
  ASSUME NEW b \in Int, from_byte(b) # {}
  PROVE  \E o \in OpCode : opcode[o] = b /\ from_byte(b) = {o}
<1>1. PICK o \in OpCode : opcode[o] = b
  BY FromByteNames
<1>2. from_byte(opcode[o]) = {o}
  BY FromByteOpcode
<1> QED BY <1>1, <1>2

(***************************************************************************)
(* Operands                                                                *)
(***************************************************************************)
Kinds == {"reg", "u16", "u32", "u64"}

(* The operands of a kind: a register, or so many limbs *)
Operand(kind) ==
    CASE kind = "reg" -> [1..1 -> 0..(NUM_REGS - 1)]
      [] kind = "u16" -> [1..1 -> Limb]
      [] kind = "u32" -> [1..2 -> Limb]
      [] kind = "u64" -> [1..4 -> Limb]

(* The table of operands has a kind in every place. *)
LEMMA OperandKinds ==
  ASSUME NEW op PROVE Operands(op) \in Seq(Kinds)
<1>1. /\ <<>> \in Seq(Kinds) /\ <<"reg">> \in Seq(Kinds) /\ <<"reg", "reg">> \in Seq(Kinds)
      /\ <<"reg", "u64">> \in Seq(Kinds) /\ <<"reg", "u16">> \in Seq(Kinds)
      /\ <<"u32">> \in Seq(Kinds) /\ <<"reg", "u32">> \in Seq(Kinds)
      /\ <<"reg", "reg", "reg">> \in Seq(Kinds)
      /\ <<"reg", "reg", "reg", "reg", "reg", "reg">> \in Seq(Kinds)
  BY DEF Kinds
<1> QED BY <1>1 DEF Operands

LEMMA WidthsOfKinds ==
  /\ Width["reg"] = 1 /\ Width["u16"] = 2 /\ Width["u32"] = 4 /\ Width["u64"] = 8
  /\ \A kind \in Kinds : Width[kind] \in Nat \ {0}
BY DEF Width, Kinds

(* A limb is two bytes. *)
LEMMA LimbDigits ==
  ASSUME NEW x \in Limb
  PROVE  /\ x \div BYTE \in Byte /\ x % BYTE \in Byte
         /\ BYTE * (x \div BYTE) + (x % BYTE) = x
<1>1. x \in Nat /\ x < LIMB /\ BYTE \in Nat \ {0}
  BY Ranges
<1>2. /\ x \div BYTE \in Nat /\ x % BYTE \in 0..(BYTE - 1)
      /\ x = BYTE * (x \div BYTE) + (x % BYTE)
  BY <1>1, DivMod
<1>3. PICK q \in Nat, r \in 0..(BYTE - 1) : q = x \div BYTE /\ r = x % BYTE
  BY <1>2
<1>4. x = BYTE * q + r /\ r \in Nat /\ r < BYTE
  BY <1>1, <1>2, <1>3
<1>5. q < BYTE
  BY <1>1, <1>4 DEF BYTE, LIMB
<1>6. q \in Byte /\ r \in Byte
  BY <1>4, <1>5, Ranges
<1> QED BY <1>2, <1>3, <1>6

LEMMA DigitsLimb ==
  ASSUME NEW a \in Byte, NEW b \in Byte
  PROVE  /\ BYTE * a + b \in Limb
         /\ (BYTE * a + b) \div BYTE = a /\ (BYTE * a + b) % BYTE = b
<1>1. a \in Nat /\ a < BYTE /\ b \in Nat /\ b < BYTE /\ BYTE \in Nat \ {0}
  BY Ranges
<1>2. PICK x \in Nat : x = BYTE * a + b
  BY <1>1
<1>3. x \div BYTE = a
  BY <1>1, <1>2, DivUnique
<1>4. x = BYTE * (x \div BYTE) + (x % BYTE) /\ x % BYTE \in 0..(BYTE - 1)
  BY <1>1, DivMod
<1>5. PICK r \in 0..(BYTE - 1) : r = x % BYTE
  BY <1>4
<1>6. PICK y \in Nat : y = BYTE * a
  BY <1>1
<1>7. x = y + b /\ x = y + r /\ r \in Nat
  BY <1>1, <1>2, <1>3, <1>4, <1>5, <1>6
<1>8. r = b
  BY <1>1, <1>7
<1>9. x < LIMB
  BY <1>1, <1>2 DEF BYTE, LIMB
<1>10. x \in Limb
  BY <1>9, Ranges
<1> QED BY <1>2, <1>3, <1>5, <1>8, <1>10

(* What to_be_bytes writes of m limbs *)
Spelled(b, x, m) ==
    /\ b \in Seq(Byte) /\ Len(b) = 2 * m
    /\ \A i \in 1..m : b[2 * i - 1] = x[i] \div BYTE /\ b[2 * i] = x[i] % BYTE

(* to_be_bytes spells a number, and from_be_bytes reads it back. *)
LEMMA LimbsSpelled ==
  ASSUME NEW kind, kind # "reg", NEW m \in Nat, NEW x \in [1..m -> Limb]
  PROVE  Spelled(ToBytes(kind, x), x, m)
<1> DEFINE s == [i \in DOMAIN x |-> <<x[i] \div BYTE, x[i] % BYTE>>]
<1>1. ToBytes(kind, x) = FlattenSeq(s)
  BY DEF ToBytes
<1>2. \A i \in 1..m : s[i] = <<x[i] \div BYTE, x[i] % BYTE>>
  OBVIOUS
<1>3. s = [i \in 1..m |-> s[i]]
  OBVIOUS
<1> HIDE DEF s
<1>4. ASSUME NEW i \in 1..m
      PROVE  /\ s[i] \in Seq(Byte) /\ Len(s[i]) = 2
             /\ s[i][1] = x[i] \div BYTE /\ s[i][2] = x[i] % BYTE
  <2>1. x[i] \div BYTE \in Byte /\ x[i] % BYTE \in Byte
    BY LimbDigits
  <2>2. \A a, b \in Byte : /\ <<a, b>> \in Seq(Byte) /\ Len(<<a, b>>) = 2
                           /\ <<a, b>>[1] = a /\ <<a, b>>[2] = b
    OBVIOUS
  <2>3. PICK a, b \in Byte : a = x[i] \div BYTE /\ b = x[i] % BYTE
    BY <2>1
  <2>4. s[i] = <<a, b>>
    BY <1>2, <2>3
  <2>5. /\ <<a, b>> \in Seq(Byte) /\ Len(<<a, b>>) = 2
        /\ <<a, b>>[1] = a /\ <<a, b>>[2] = b
    BY <2>2
  <2> QED BY <2>3, <2>4, <2>5
<1>5. SeqsOf(s, m, Byte)
  BY <1>3, <1>4 DEF SeqsOf
<1>6. LengthsAre(s, m, 2)
  BY <1>4 DEF LengthsAre
<1>7. /\ FlattenSeq(s) \in Seq(Byte) /\ Len(FlattenSeq(s)) = 2 * m
      /\ \A i \in 1..m, j \in 1..2 : FlattenSeq(s)[2 * (i - 1) + j] = s[i][j]
  <2>1. 2 \in Nat
    OBVIOUS
  <2> QED BY <1>5, <1>6, <2>1, FlattenUniform
<1>8. PICK b : b = FlattenSeq(s)
  OBVIOUS
<1>9. ASSUME NEW i \in 1..m
      PROVE  b[2 * i - 1] = x[i] \div BYTE /\ b[2 * i] = x[i] % BYTE
  <2>1. 2 * (i - 1) + 1 = 2 * i - 1 /\ 2 * (i - 1) + 2 = 2 * i /\ 1 \in 1..2 /\ 2 \in 1..2
    OBVIOUS
  <2> QED BY <1>4, <1>7, <1>8, <2>1
<1> QED BY <1>1, <1>7, <1>8, <1>9 DEF Spelled

LEMMA LimbsRead ==
  ASSUME NEW kind, kind # "reg", NEW m \in Nat, NEW x \in [1..m -> Limb],
         NEW b, Spelled(b, x, m)
  PROVE  FromBytes(kind, b) = x
<1>1. Len(b) \div 2 = m
  <2>1. (2 * m) \div 2 = m
    OBVIOUS
  <2> QED BY <2>1 DEF Spelled
<1>2. FromBytes(kind, b) = [i \in 1..m |-> BYTE * b[2 * i - 1] + b[2 * i]]
  BY <1>1 DEF FromBytes
<1>3. ASSUME NEW i \in 1..m PROVE BYTE * b[2 * i - 1] + b[2 * i] = x[i]
  <2>1. PICK v \in Limb : v = x[i]
    OBVIOUS
  <2>2. b[2 * i - 1] = v \div BYTE /\ b[2 * i] = v % BYTE
    BY <2>1 DEF Spelled
  <2>3. BYTE * (v \div BYTE) + (v % BYTE) = v
    BY LimbDigits
  <2> QED BY <2>1, <2>2, <2>3
<1>4. FromBytes(kind, b) = [i \in 1..m |-> x[i]]
  BY <1>2, <1>3
<1> QED BY <1>4

LEMMA SpelledOnce ==
  ASSUME NEW m \in Nat, NEW x, NEW a, NEW b, Spelled(a, x, m), Spelled(b, x, m)
  PROVE  a = b
<1>1. a \in Seq(Byte) /\ b \in Seq(Byte) /\ Len(a) = 2 * m /\ Len(b) = 2 * m
  BY DEF Spelled
<1>2. ASSUME NEW k \in 1..(2 * m) PROVE a[k] = b[k]
  <2>1. PICK i \in 1..m : k = 2 * i - 1 \/ k = 2 * i
    <3>1. k = 2 * ((k + 1) \div 2) - 1 \/ k = 2 * ((k + 1) \div 2)
      OBVIOUS
    <3>2. (k + 1) \div 2 \in 1..m
      OBVIOUS
    <3> QED BY <3>1, <3>2
  <2>2. a[2 * i - 1] = b[2 * i - 1] /\ a[2 * i] = b[2 * i]
    <3>1. a[2 * i - 1] = x[i] \div BYTE /\ a[2 * i] = x[i] % BYTE
      BY Zenon DEF Spelled
    <3>2. b[2 * i - 1] = x[i] \div BYTE /\ b[2 * i] = x[i] % BYTE
      BY Zenon DEF Spelled
    <3> QED BY <3>1, <3>2, Zenon
  <2> QED BY <2>1, <2>2
<1> QED BY <1>1, <1>2

(* from_be_bytes of 2 m bytes *)
LEMMA LimbsOfBytes ==
  ASSUME NEW kind, kind # "reg", NEW m \in Nat, NEW b \in Seq(Byte), Len(b) = 2 * m
  PROVE  FromBytes(kind, b) \in [1..m -> Limb] /\ Spelled(b, FromBytes(kind, b), m)
<1>1. Len(b) \div 2 = m
  <2>1. (2 * m) \div 2 = m
    OBVIOUS
  <2> QED BY <2>1
<1>2. PICK x : x = FromBytes(kind, b)
  OBVIOUS
<1>3. x = [i \in 1..m |-> BYTE * b[2 * i - 1] + b[2 * i]]
  BY <1>1, <1>2 DEF FromBytes
<1>4. ASSUME NEW i \in 1..m
      PROVE  /\ x[i] \in Limb
             /\ b[2 * i - 1] = x[i] \div BYTE /\ b[2 * i] = x[i] % BYTE
  <2>1. b[2 * i - 1] \in Byte /\ b[2 * i] \in Byte
    BY ElementOfSeq
  <2>2. PICK c, d \in Byte : c = b[2 * i - 1] /\ d = b[2 * i]
    BY <2>1
  <2>3. x[i] = BYTE * c + d
    BY <1>3, <2>2
  <2>4. /\ BYTE * c + d \in Limb
        /\ (BYTE * c + d) \div BYTE = c /\ (BYTE * c + d) % BYTE = d
    BY DigitsLimb
  <2> QED BY <2>2, <2>3, <2>4, Zenon
<1>5. x \in [1..m -> Limb]
  BY <1>3, <1>4
<1> QED BY <1>2, <1>4, <1>5 DEF Spelled

(* The limbs of a kind *)
LimbsOf(kind) == CASE kind = "u16" -> 1 [] kind = "u32" -> 2 [] kind = "u64" -> 4

LEMMA LimbKinds ==
  ASSUME NEW kind \in Kinds, kind # "reg"
  PROVE  /\ LimbsOf(kind) \in Nat /\ Width[kind] = 2 * LimbsOf(kind)
         /\ Operand(kind) = [1..LimbsOf(kind) -> Limb]
<1>1. CASE kind = "u16"
  BY <1>1, WidthsOfKinds DEF LimbsOf, Operand
<1>2. CASE kind = "u32"
  BY <1>2, WidthsOfKinds DEF LimbsOf, Operand
<1>3. CASE kind = "u64"
  BY <1>3, WidthsOfKinds DEF LimbsOf, Operand
<1> QED BY <1>1, <1>2, <1>3 DEF Kinds

(* An operand is written in the bytes of its width, which are read back as *)
(* the operand; a register byte names a register.                          *)
LEMMA OperandBytes ==
  ASSUME NEW kind \in Kinds, NEW x \in Operand(kind)
  PROVE  /\ ToBytes(kind, x) \in Seq(Byte) /\ Len(ToBytes(kind, x)) = Width[kind]
         /\ FromBytes(kind, ToBytes(kind, x)) = x
         /\ kind = "reg" => ToBytes(kind, x)[1] < NUM_REGS
<1>1. CASE kind = "reg"
  <2>1. x \in [1..1 -> 0..(NUM_REGS - 1)]
    BY <1>1 DEF Operand
  <2>2. x \in Seq(Byte) /\ Len(x) = 1 /\ x[1] < NUM_REGS
    <3>1. 1 \in 1..1 /\ DOMAIN x = 1..1 /\ x = [i \in 1..1 |-> x[i]]
      BY <2>1
    <3>2. x[1] \in Byte /\ x[1] < NUM_REGS
      BY <2>1, <3>1, Ranges, Zenon
    <3>3. x \in [1..1 -> Byte] /\ 1 \in Nat
      BY <3>1, <3>2
    <3> QED BY <3>2, <3>3, FunctionIsSeq
  <2>3. ToBytes(kind, x) = x /\ FromBytes(kind, x) = x
    BY <1>1 DEF ToBytes, FromBytes
  <2>4. Width[kind] = 1
    BY <1>1, WidthsOfKinds
  <2> QED BY <2>2, <2>3, <2>4
<1>2. CASE kind # "reg"
  <2>1. PICK m \in Nat : m = LimbsOf(kind) /\ Width[kind] = 2 * m /\ Operand(kind) = [1..m -> Limb]
    BY <1>2, LimbKinds
  <2>2. Spelled(ToBytes(kind, x), x, m)
    BY <1>2, <2>1, LimbsSpelled
  <2>3. FromBytes(kind, ToBytes(kind, x)) = x
    BY <1>2, <2>1, <2>2, LimbsRead
  <2> QED BY <1>2, <2>1, <2>2, <2>3 DEF Spelled
<1> QED BY <1>1, <1>2

(* Bytes that may be read as an operand of a kind *)
Readable(kind, b) ==
    b \in Seq(Byte) /\ Len(b) = Width[kind] /\ (kind = "reg" => b[1] < NUM_REGS)

(* They are read as an operand, whose bytes they are. *)
LEMMA BytesOperand ==
  ASSUME NEW kind \in Kinds, NEW b, Readable(kind, b)
  PROVE  FromBytes(kind, b) \in Operand(kind) /\ ToBytes(kind, FromBytes(kind, b)) = b
<1>1. CASE kind = "reg"
  <2>1. b \in Seq(Byte) /\ Len(b) = 1 /\ b[1] < NUM_REGS
    BY <1>1, WidthsOfKinds DEF Readable
  <2>2. b \in [1..1 -> 0..(NUM_REGS - 1)]
    <3>1. b[1] \in Byte
      BY <2>1, ElementOfSeq
    <3>2. b[1] \in 0..(NUM_REGS - 1)
      BY <2>1, <3>1, Ranges
    <3> QED BY <2>1, <3>2
  <2>3. FromBytes(kind, b) = b /\ ToBytes(kind, b) = b
    BY <1>1 DEF FromBytes, ToBytes
  <2> QED BY <1>1, <2>2, <2>3 DEF Operand
<1>2. CASE kind # "reg"
  <2>1. PICK m \in Nat : m = LimbsOf(kind) /\ Width[kind] = 2 * m /\ Operand(kind) = [1..m -> Limb]
    BY <1>2, LimbKinds
  <2>2. PICK x : x = FromBytes(kind, b)
    OBVIOUS
  <2>3. x \in [1..m -> Limb] /\ Spelled(b, x, m)
    BY <1>2, <2>1, <2>2, LimbsOfBytes DEF Readable
  <2>4. Spelled(ToBytes(kind, x), x, m)
    BY <1>2, <2>3, LimbsSpelled
  <2>5. ToBytes(kind, x) = b
    BY <2>3, <2>4, SpelledOnce
  <2> QED BY <2>1, <2>2, <2>3, <2>5
<1> QED BY <1>1, <1>2

(***************************************************************************)
(* The layout of an instruction                                            *)
(***************************************************************************)
(* SumOfFirst, for every number of summands, is the function of its        *)
(* partial sums.                                                           *)
LEMMA FirstSumIs ==
  ASSUME NEW n \in Nat, NEW w, Nats(w, n)
  PROVE  \E f : PartialSums(f, n, w) /\ SumOfFirst(w, n) = f[n]
<1> DEFINE f == CHOOSE h : h = Adding(h, n, w)
<1>1. SumOfFirst(w, n) = f[n]
  BY DEF SumOfFirst, Adding
<1>2. PartialSums(f, n, w)
  BY FirstSumsChosen
<1> QED BY <1>1, <1>2

LEMMA FirstSums ==
  ASSUME NEW n \in Nat, NEW w, Nats(w, n)
  PROVE  PartialSums([i \in 0..n |-> SumOfFirst(w, i)], n, w)
<1>1. ASSUME NEW i \in 0..n
      PROVE  \E f : PartialSums(f, i, w) /\ SumOfFirst(w, i) = f[i]
  <2>1. i \in Nat /\ Nats(w, i)
    BY DEF Nats
  <2> QED BY <2>1, FirstSumIs
<1>2. ASSUME NEW i \in 0..n PROVE SumOfFirst(w, i) \in Nat
  <2>1. PICK f : PartialSums(f, i, w) /\ SumOfFirst(w, i) = f[i]
    BY <1>1
  <2> QED BY <2>1 DEF PartialSums
<1>3. SumOfFirst(w, 0) = 0
  <2>1. PICK f : PartialSums(f, 0, w) /\ SumOfFirst(w, 0) = f[0]
    BY <1>1
  <2> QED BY <2>1 DEF PartialSums
<1>4. ASSUME NEW i \in 1..n PROVE SumOfFirst(w, i) = SumOfFirst(w, i - 1) + w[i]
  <2>1. PICK k \in Nat : k = i - 1 /\ k \in 0..n /\ i \in 0..n /\ i \in k..(k + 1)
    OBVIOUS
  <2>2. PICK f : PartialSums(f, k, w) /\ SumOfFirst(w, k) = f[k]
    BY <1>1, <2>1
  <2>3. PICK g : PartialSums(g, i, w) /\ SumOfFirst(w, i) = g[i]
    BY <1>1, <2>1
  <2>4. g[k] = f[k]
    <3>1. i \in Nat /\ i = k + 1
      BY <2>1
    <3> QED BY <2>2, <2>3, <3>1, OneMoreSum
  <2>5. g[i] = g[k] + w[i]
    BY <2>1, <2>3 DEF PartialSums
  <2> QED BY <2>1, <2>2, <2>3, <2>4, <2>5
<1> DEFINE F == [i \in 0..n |-> SumOfFirst(w, i)]
<1>5. \A i \in 0..n : F[i] = SumOfFirst(w, i)
  OBVIOUS
<1>6. F \in [0..n -> Nat]
  BY <1>2
<1> HIDE DEF F
<1>7. F[0] = 0
  BY <1>3, <1>5
<1>8. ASSUME NEW i \in 1..n PROVE F[i] = F[i - 1] + w[i]
  <2>1. i \in 0..n /\ i - 1 \in 0..n
    OBVIOUS
  <2> QED BY <1>4, <1>5, <2>1
<1>9. PartialSums(F, n, w)
  BY <1>6, <1>7, <1>8 DEF PartialSums
<1> QED BY <1>9 DEF F

(* n operands, of which operand i lies in the bytes f[i - 1] + 1 to f[i]   *)
(* after the opcode                                                        *)
LaidOut(op, n, f) ==
    /\ n \in Nat /\ n = Len(Operands(op)) /\ DOMAIN Operands(op) = 1..n
    /\ \A i \in 1..n : Operands(op)[i] \in Kinds
    /\ f \in [0..n -> Nat] /\ f[0] = 0
    /\ \A i \in 1..n : f[i] = f[i - 1] + Width[Operands(op)[i]]
    /\ \A i \in 0..n : \A j \in i..n : f[i] <= f[j]
    /\ \A i \in 1..(n + 1) : OperandAt(op, i) = 1 + f[i - 1]

(* Every opcode has such a layout. *)
LEMMA Layout ==
  ASSUME NEW op PROVE \E n, f : LaidOut(op, n, f)
<1>1. PICK n \in Nat : n = Len(Operands(op)) /\ DOMAIN Operands(op) = 1..n
                       /\ \A i \in 1..n : Operands(op)[i] \in Kinds
  BY OperandKinds
<1>2. PICK w : w = Widths(op)
  OBVIOUS
<1>3. \A i \in 1..n : w[i] = Width[Operands(op)[i]]
  BY <1>1, <1>2 DEF Widths
<1>4. Nats(w, n)
  BY <1>1, <1>3, WidthsOfKinds DEF Nats
<1>5. PICK f : f = [i \in 0..n |-> SumOfFirst(w, i)]
  OBVIOUS
<1>6. PartialSums(f, n, w)
  BY <1>4, <1>5, FirstSums
<1>7. \A i \in 0..n : \A j \in i..n : f[i] <= f[j]
  BY <1>4, <1>6, SumsGrow
<1>8. ASSUME NEW i \in 1..(n + 1) PROVE OperandAt(op, i) = 1 + f[i - 1]
  <2>1. i - 1 \in 0..n
    OBVIOUS
  <2> QED BY <1>2, <1>5, <2>1 DEF OperandAt
<1>9. LaidOut(op, n, f)
  BY <1>1, <1>3, <1>6, <1>7, <1>8 DEF LaidOut, PartialSums
<1> QED BY <1>9

LEMMA LayoutFacts ==
  ASSUME NEW op, NEW n, NEW f, LaidOut(op, n, f), NEW i \in 1..n
  PROVE  /\ n \in Nat /\ i - 1 \in 0..n /\ i \in 0..n
         /\ Operands(op)[i] \in Kinds /\ Width[Operands(op)[i]] \in Nat \ {0}
         /\ f[i - 1] \in Nat /\ f[i] \in Nat /\ f[n] \in Nat
         /\ f[i] = f[i - 1] + Width[Operands(op)[i]]
         /\ f[i] <= f[n]
         /\ OperandAt(op, i) = 1 + f[i - 1]
<1>1. n \in Nat /\ i - 1 \in 0..n /\ i \in 0..n /\ n \in i..n /\ n \in 0..n /\ i \in 1..(n + 1)
  BY DEF LaidOut
<1>2. Operands(op)[i] \in Kinds /\ f \in [0..n -> Nat]
      /\ f[i] = f[i - 1] + Width[Operands(op)[i]]
  BY DEF LaidOut
<1>3. f[i] <= f[n] /\ OperandAt(op, i) = 1 + f[i - 1]
  BY <1>1 DEF LaidOut
<1> QED BY <1>1, <1>2, <1>3, WidthsOfKinds

(* Which bytes after the opcode name registers *)
LEMMA RegBytes ==
  ASSUME NEW op, NEW n, NEW f, LaidOut(op, n, f)
  PROVE  /\ Len(IsRegByte(op)) = f[n] /\ DOMAIN IsRegByte(op) = 1..f[n]
         /\ \A i \in 1..n : \A j \in 1..Width[Operands(op)[i]] :
                IsRegByte(op)[f[i - 1] + j] <=> Operands(op)[i] = "reg"
<1> DEFINE s == [i \in DOMAIN Operands(op) |->
                    [j \in 1..Width[Operands(op)[i]] |-> Operands(op)[i] = "reg"]]
<1>1. n \in Nat /\ DOMAIN Operands(op) = 1..n /\ f \in [0..n -> Nat] /\ f[0] = 0
  BY DEF LaidOut
<1>2. IsRegByte(op) = FlattenSeq(s)
  BY DEF IsRegByte
<1>3. s = [i \in 1..n |-> s[i]]
  BY <1>1
<1>4. \A i \in 1..n :
        s[i] = [j \in 1..Width[Operands(op)[i]] |-> Operands(op)[i] = "reg"]
  BY <1>1
<1> HIDE DEF s
<1>5. ASSUME NEW i \in 1..n
      PROVE  /\ s[i] \in Seq(BOOLEAN) /\ Len(s[i]) = Width[Operands(op)[i]]
             /\ \A j \in 1..Width[Operands(op)[i]] : s[i][j] <=> Operands(op)[i] = "reg"
  <2>1. PICK m \in Nat : m = Width[Operands(op)[i]]
    BY LayoutFacts
  <2>2. s[i] = [j \in 1..m |-> Operands(op)[i] = "reg"]
    BY <1>4, <2>1
  <2>3. s[i] \in [1..m -> BOOLEAN]
    BY <2>2
  <2>4. s[i] \in Seq(BOOLEAN) /\ Len(s[i]) = m
    BY <2>3, FunctionIsSeq
  <2>5. \A j \in 1..m : s[i][j] <=> Operands(op)[i] = "reg"
    BY <2>2
  <2> QED BY <2>1, <2>4, <2>5
<1>6. SeqsOf(s, n, BOOLEAN)
  BY <1>3, <1>5 DEF SeqsOf
<1>7. Begins(f, s, n)
  <2>1. \A i \in 1..n : f[i] = f[i - 1] + Len(s[i])
    BY <1>5 DEF LaidOut
  <2> QED BY <1>1, <2>1 DEF Begins
<1>8. PICK x : x = IsRegByte(op) /\ Laid(x, f, s, n, BOOLEAN)
  BY <1>1, <1>2, <1>6, <1>7, FlattenPieces
<1>9. /\ x \in Seq(BOOLEAN) /\ Len(x) = f[n]
      /\ \A i \in 1..n : \A j \in 1..Len(s[i]) : x[f[i - 1] + j] = s[i][j]
  BY <1>8 DEF Laid
<1>10. DOMAIN x = 1..f[n]
  BY <1>9
<1>11. ASSUME NEW i \in 1..n, NEW j \in 1..Width[Operands(op)[i]]
       PROVE  x[f[i - 1] + j] <=> Operands(op)[i] = "reg"
  <2>1. j \in 1..Len(s[i]) /\ (s[i][j] <=> Operands(op)[i] = "reg")
    BY <1>5
  <2>2. x[f[i - 1] + j] = s[i][j]
    BY <1>9, <2>1
  <2> QED BY <2>1, <2>2, Zenon
<1> QED BY <1>8, <1>9, <1>10, <1>11

(* A byte after the opcode is a byte of one of the operands. *)
LEMMA ByteOfOperand ==
  ASSUME NEW op, NEW n, NEW f, LaidOut(op, n, f), NEW k \in 1..f[n]
  PROVE  \E i \in 1..n : \E j \in 1..Width[Operands(op)[i]] : k = f[i - 1] + j
<1>1. n \in Nat /\ f \in [0..n -> Nat] /\ f[0] = 0
  BY DEF LaidOut
<1>2. PICK i \in 1..n : f[i - 1] < k /\ k <= f[i]
  BY <1>1, SumsCover
<1>3. /\ f[i - 1] \in Nat /\ f[i] = f[i - 1] + Width[Operands(op)[i]]
      /\ Width[Operands(op)[i]] \in Nat \ {0} /\ f[n] \in Nat
  BY LayoutFacts
<1>4. k - f[i - 1] \in 1..Width[Operands(op)[i]] /\ k = f[i - 1] + (k - f[i - 1])
  BY <1>2, <1>3
<1> QED BY <1>4

(***************************************************************************)
(* encode                                                                  *)
(***************************************************************************)
(* Operands of the kinds that op has *)
Fitting(op, args) ==
    /\ args = [i \in DOMAIN Operands(op) |-> args[i]]
    /\ \A i \in DOMAIN Operands(op) : args[i] \in Operand(Operands(op)[i])

(* e is the opcode and the bytes of the operands, each in its place *)
Encoding(e, op, args, n, f) ==
    /\ e \in Seq(Byte) /\ Len(e) = 1 + f[n] /\ e[1] = opcode[op]
    /\ \A i \in 1..n : \A j \in 1..Width[Operands(op)[i]] :
            e[1 + f[i - 1] + j] = ToBytes(Operands(op)[i], args[i])[j]

LEMMA FirstAndRest ==
  ASSUME NEW T, NEW b \in T, NEW x \in Seq(T)
  PROVE  /\ <<b>> \o x \in Seq(T) /\ Len(<<b>> \o x) = 1 + Len(x)
         /\ (<<b>> \o x)[1] = b
         /\ \A k \in 1..Len(x) : (<<b>> \o x)[1 + k] = x[k]
OBVIOUS

(* What Instr::encode writes *)
LEMMA EncodingIs ==
  ASSUME NEW op \in OpCode, NEW args, Fitting(op, args), NEW n, NEW f, LaidOut(op, n, f)
  PROVE  Encoding(encode([op |-> op, args |-> args]), op, args, n, f)
<1> DEFINE s == [i \in DOMAIN args |-> ToBytes(Operands(op)[i], args[i])]
<1>1. n \in Nat /\ DOMAIN Operands(op) = 1..n /\ f \in [0..n -> Nat] /\ f[0] = 0
  BY DEF LaidOut
<1>2. DOMAIN args = 1..n
  BY <1>1 DEF Fitting
<1>3. encode([op |-> op, args |-> args]) = <<opcode[op]>> \o FlattenSeq(s)
  BY DEF encode
<1>4. s = [i \in 1..n |-> s[i]]
  BY <1>2
<1>5. \A i \in 1..n : s[i] = ToBytes(Operands(op)[i], args[i])
  BY <1>2
<1> HIDE DEF s
<1>6. ASSUME NEW i \in 1..n
      PROVE  s[i] \in Seq(Byte) /\ Len(s[i]) = Width[Operands(op)[i]]
  <2>1. PICK kind \in Kinds : kind = Operands(op)[i]
    BY LayoutFacts
  <2>2. PICK x \in Operand(kind) : x = args[i]
    BY <1>1, <2>1 DEF Fitting
  <2>3. ToBytes(kind, x) \in Seq(Byte) /\ Len(ToBytes(kind, x)) = Width[kind]
    BY OperandBytes
  <2> QED BY <1>5, <2>1, <2>2, <2>3
<1>7. SeqsOf(s, n, Byte)
  BY <1>4, <1>6 DEF SeqsOf
<1>8. Begins(f, s, n)
  <2>1. \A i \in 1..n : f[i] = f[i - 1] + Len(s[i])
    BY <1>6 DEF LaidOut
  <2> QED BY <1>1, <2>1 DEF Begins
<1>9. PICK x : x = FlattenSeq(s) /\ Laid(x, f, s, n, Byte)
  BY <1>1, <1>7, <1>8, FlattenPieces
<1>10. /\ x \in Seq(Byte) /\ Len(x) = f[n]
       /\ \A i \in 1..n : \A j \in 1..Len(s[i]) : x[f[i - 1] + j] = s[i][j]
  BY <1>9 DEF Laid
<1>11. PICK b \in Byte : b = opcode[op]
  BY OpcodeBytes
<1>12. PICK e : e = <<b>> \o x
  OBVIOUS
<1>13. /\ e \in Seq(Byte) /\ Len(e) = 1 + Len(x) /\ e[1] = b
       /\ \A k \in 1..Len(x) : e[1 + k] = x[k]
  BY <1>10, <1>12, FirstAndRest
<1>14. ASSUME NEW i \in 1..n, NEW j \in 1..Width[Operands(op)[i]]
       PROVE  e[1 + f[i - 1] + j] = ToBytes(Operands(op)[i], args[i])[j]
  <2>1. /\ f[i - 1] \in Nat /\ f[i] = f[i - 1] + Width[Operands(op)[i]]
        /\ f[i] <= f[n] /\ f[n] \in Nat /\ Width[Operands(op)[i]] \in Nat \ {0}
    BY LayoutFacts
  <2>2. PICK k \in 1..f[n] : k = f[i - 1] + j /\ 1 + k = 1 + f[i - 1] + j
    BY <2>1
  <2>3. e[1 + k] = x[k]
    BY <1>10, <1>13
  <2>4. x[f[i - 1] + j] = s[i][j]
    BY <1>6, <1>10
  <2> QED BY <1>5, <2>2, <2>3, <2>4
<1>15. e = encode([op |-> op, args |-> args])
  BY <1>3, <1>9, <1>11, <1>12
<1>16. Encoding(e, op, args, n, f)
  BY <1>10, <1>11, <1>13, <1>14 DEF Encoding
<1> QED BY <1>15, <1>16

(***************************************************************************)
(* decode                                                                  *)
(***************************************************************************)
(* The bytes of op in c, from at on, that are missing or should name a register *)
BadBytes(c, at, op) ==
    {k \in DOMAIN IsRegByte(op) :
        at + 1 + k > Len(c) \/ (IsRegByte(op)[k] /\ c[at + 1 + k] >= NUM_REGS)}

Answer(c, at, op) ==
    [err |-> "none", len |-> 1 + Len(IsRegByte(op)),
     instr |-> [op |-> op, args |-> OperandsFrom(c, at, op)]]

(* What decode answers for a known opcode *)
LEMMA DecodeKnown ==
  ASSUME NEW c, NEW at, NEW op \in OpCode, ~ (at >= Len(c)), c[at + 1] = opcode[op]
  PROVE  decode(c, at) =
            IF BadBytes(c, at, op) = {} THEN Answer(c, at, op)
            ELSE IF at + 1 + Min(BadBytes(c, at, op)) > Len(c) THEN Truncated
            ELSE [err |-> "BadRegister",
                  byte |-> c[at + 1 + Min(BadBytes(c, at, op))]]
<1>1. from_byte(c[at + 1]) = {op}
  BY FromByteOpcode
<1>2. from_byte(c[at + 1]) # {} /\ (CHOOSE o \in from_byte(c[at + 1]) : TRUE) = op
  BY <1>1
<1> QED BY <1>2, Zenon DEF decode, BadBytes, Answer

LEMMA DecodeUnknown ==
  ASSUME NEW c \in Seq(Byte), NEW at \in Nat, decode(c, at).err = "none"
  PROVE  /\ ~ (at >= Len(c))
         /\ \E op \in OpCode : c[at + 1] = opcode[op]
<1>1. ~ (at >= Len(c))
  <2> SUFFICES ASSUME at >= Len(c) PROVE FALSE
    OBVIOUS
  <2>1. decode(c, at) = Truncated
    BY DEF decode
  <2> QED BY <2>1 DEF Truncated
<1>2. from_byte(c[at + 1]) # {}
  <2> SUFFICES ASSUME from_byte(c[at + 1]) = {} PROVE FALSE
    OBVIOUS
  <2>1. decode(c, at) = [err |-> "UnknownOpcode", byte |-> c[at + 1]]
    BY <1>1 DEF decode
  <2> QED BY <2>1
<1>3. PICK b \in Int : b = c[at + 1]
  <2>1. c[at + 1] \in Byte
    BY <1>1, ElementOfSeq
  <2> QED BY <2>1, Ranges
<1> QED BY <1>1, <1>2, <1>3, FromByteKnown

(* op is decoded in c at offset at: its bytes are there, and registers are named *)
Here(c, at, op, n, f) ==
    /\ c \in Seq(Byte) /\ at \in Nat /\ op \in OpCode /\ LaidOut(op, n, f)
    /\ at + 1 + f[n] <= Len(c) /\ c[at + 1] = opcode[op]
    /\ \A i \in 1..n : Operands(op)[i] = "reg" => c[at + 1 + f[i - 1] + 1] < NUM_REGS

(* Then decode has nothing to object to, and answers with op. *)
LEMMA NoBadBytes ==
  ASSUME NEW c, NEW at, NEW op, NEW n, NEW f, Here(c, at, op, n, f)
  PROVE  BadBytes(c, at, op) = {}
<1>1. /\ c \in Seq(Byte) /\ at \in Nat /\ op \in OpCode /\ LaidOut(op, n, f)
      /\ at + 1 + f[n] <= Len(c) /\ c[at + 1] = opcode[op]
  BY DEF Here
<1>2. n \in Nat /\ f[n] \in Nat
  BY <1>1 DEF LaidOut
<1>3. Len(IsRegByte(op)) = f[n] /\ DOMAIN IsRegByte(op) = 1..f[n]
  BY <1>1, RegBytes
<1>4. ASSUME NEW k \in 1..f[n], IsRegByte(op)[k] PROVE c[at + 1 + k] < NUM_REGS
  <2>1. PICK i \in 1..n : \E j \in 1..Width[Operands(op)[i]] : k = f[i - 1] + j
    BY <1>1, ByteOfOperand
  <2>2. PICK j \in 1..Width[Operands(op)[i]] : k = f[i - 1] + j
    BY <2>1
  <2>3. Operands(op)[i] = "reg"
    BY <1>1, <1>4, <2>2, RegBytes
  <2>4. j = 1 /\ f[i - 1] \in Nat
    BY <1>1, <2>3, LayoutFacts, WidthsOfKinds
  <2>5. at + 1 + k = at + 1 + f[i - 1] + 1
    BY <1>1, <2>2, <2>4
  <2> QED BY <2>3, <2>5 DEF Here
<1>5. BadBytes(c, at, op) = {}
  <2>1. ASSUME NEW k \in 1..f[n]
        PROVE  ~ (at + 1 + k > Len(c)) /\ ~ (IsRegByte(op)[k] /\ c[at + 1 + k] >= NUM_REGS)
    <3>1. ~ (at + 1 + k > Len(c)) /\ at + 1 + k \in 1..Len(c)
      BY <1>1, <1>2
    <3>2. PICK v \in Byte : v = c[at + 1 + k]
      BY <1>1, <3>1, ElementOfSeq
    <3>3. v \in Nat /\ NUM_REGS \in Nat
      BY Ranges DEF NUM_REGS
    <3>4. IsRegByte(op)[k] => v < NUM_REGS
      BY <1>4, <3>2
    <3>5. v < NUM_REGS => ~ (v >= NUM_REGS)
      BY <3>3
    <3> QED BY <3>1, <3>2, <3>4, <3>5
  <2> QED BY <1>3, <2>1, Zenon DEF BadBytes
<1> QED BY <1>5

LEMMA DecodeAnswers ==
  ASSUME NEW c, NEW at, NEW op, NEW n, NEW f, Here(c, at, op, n, f)
  PROVE  decode(c, at) = Answer(c, at, op)
<1>1. /\ c \in Seq(Byte) /\ at \in Nat /\ op \in OpCode /\ LaidOut(op, n, f)
      /\ at + 1 + f[n] <= Len(c) /\ c[at + 1] = opcode[op]
  BY DEF Here
<1>2. n \in Nat /\ f[n] \in Nat
  BY <1>1 DEF LaidOut
<1>3. ~ (at >= Len(c))
  BY <1>1, <1>2
<1>4. BadBytes(c, at, op) = {}
  BY NoBadBytes
<1> QED BY <1>1, <1>3, <1>4, DecodeKnown

LEMMA DecodeHere ==
  ASSUME NEW c, NEW at, NEW op, NEW n, NEW f, Here(c, at, op, n, f)
  PROVE  /\ decode(c, at) = Answer(c, at, op)
         /\ Answer(c, at, op).err = "none"
         /\ Answer(c, at, op).len = 1 + f[n]
         /\ Answer(c, at, op).instr.op = op
         /\ Answer(c, at, op).instr = [op |-> op, args |-> OperandsFrom(c, at, op)]
<1>1. LaidOut(op, n, f)
  BY DEF Here
<1>2. Len(IsRegByte(op)) = f[n]
  BY <1>1, RegBytes
<1>3. decode(c, at) = Answer(c, at, op)
  BY DecodeAnswers
<1> QED BY <1>2, <1>3 DEF Answer

(* When decode succeeds, an instruction is decoded there. *)
LEMMA DecodeFinds ==
  ASSUME NEW c \in Seq(Byte), NEW at \in Nat, decode(c, at).err = "none"
  PROVE  \E op, n, f : Here(c, at, op, n, f)
<1>1. ~ (at >= Len(c)) /\ Len(c) \in Nat
  BY DecodeUnknown
<1>2. PICK op \in OpCode : c[at + 1] = opcode[op]
  BY DecodeUnknown
<1>3. PICK n, f : LaidOut(op, n, f)
  BY Layout
<1>4. n \in Nat /\ f[n] \in Nat
  BY <1>3 DEF LaidOut
<1>5. Len(IsRegByte(op)) = f[n] /\ DOMAIN IsRegByte(op) = 1..f[n]
  BY <1>3, RegBytes
<1>6. BadBytes(c, at, op) = {}
  <2> SUFFICES ASSUME BadBytes(c, at, op) # {} PROVE FALSE
    OBVIOUS
  <2>1. decode(c, at) = Truncated
        \/ \E x : decode(c, at) = [err |-> "BadRegister", byte |-> x]
    BY <1>1, <1>2, DecodeKnown, Zenon
  <2> QED BY <2>1 DEF Truncated
<1>7. \A k \in 1..f[n] : /\ ~ (at + 1 + k > Len(c))
                         /\ ~ (IsRegByte(op)[k] /\ c[at + 1 + k] >= NUM_REGS)
  BY <1>5, <1>6, Zenon DEF BadBytes
<1>8. at + 1 + f[n] <= Len(c)
  <2>1. CASE f[n] = 0
    BY <1>1, <2>1
  <2>2. CASE f[n] # 0
    <3>1. f[n] \in 1..f[n]
      BY <1>4, <2>2
    <3>2. ~ (at + 1 + f[n] > Len(c))
      BY <1>7, <3>1
    <3> QED BY <1>1, <1>4, <3>2
  <2> QED BY <2>1, <2>2
<1>9. ASSUME NEW i \in 1..n, Operands(op)[i] = "reg"
      PROVE  c[at + 1 + f[i - 1] + 1] < NUM_REGS
  <2>1. /\ f[i - 1] \in Nat /\ f[i] = f[i - 1] + Width[Operands(op)[i]]
        /\ f[i] <= f[n] /\ Width[Operands(op)[i]] = 1
    BY <1>3, <1>9, LayoutFacts, WidthsOfKinds
  <2>2. PICK k \in 1..f[n] : k = f[i - 1] + 1 /\ at + 1 + k = at + 1 + f[i - 1] + 1
    BY <1>4, <2>1
  <2>3. 1 \in 1..Width[Operands(op)[i]]
    BY <2>1
  <2>4. IsRegByte(op)[f[i - 1] + 1]
    BY <1>3, <1>9, <2>3, RegBytes
  <2>5. ~ (c[at + 1 + k] >= NUM_REGS)
    BY <1>7, <2>2, <2>4
  <2>6. PICK v \in Byte : v = c[at + 1 + k]
    <3>1. at + 1 + k \in 1..Len(c)
      BY <1>1, <1>4, <1>8
    <3> QED BY <3>1, ElementOfSeq
  <2>7. v \in Nat /\ NUM_REGS \in Nat
    BY Ranges DEF NUM_REGS
  <2> QED BY <2>2, <2>5, <2>6, <2>7
<1>10. Here(c, at, op, n, f)
  BY <1>2, <1>3, <1>8, <1>9 DEF Here
<1> QED BY <1>10

(***************************************************************************)
(* encode and decode are inverse to each other                             *)
(***************************************************************************)
(* The m bytes after the first a *)
Part(c, a, m) == SubSeq(c, a + 1, a + m)

LEMMA PieceAt ==
  ASSUME NEW T, NEW c \in Seq(T), NEW a \in Nat, NEW m \in Nat, a + m <= Len(c)
  PROVE  /\ Part(c, a, m) \in Seq(T) /\ Len(Part(c, a, m)) = m
         /\ \A j \in 1..m : Part(c, a, m)[j] = c[a + j]
BY DEF Part

LEMMA Grouped ==
  \A p, z, j \in Nat : /\ p + (1 + z) \in Nat /\ (p + (1 + z)) + j = p + 1 + z + j
                       /\ p + (1 + z + j) = p + 1 + z + j
OBVIOUS

(* The bytes of operand i *)
Piece(c, at, op, f, i) ==
    Part(c, at + (1 + f[i - 1]), Width[Operands(op)[i]])

LEMMA OperandsAt ==
  ASSUME NEW c, NEW at, NEW op, NEW n, NEW f, LaidOut(op, n, f)
  PROVE  /\ OperandsFrom(c, at, op) = [i \in 1..n |-> OperandsFrom(c, at, op)[i]]
         /\ \A i \in 1..n : OperandsFrom(c, at, op)[i] =
                FromBytes(Operands(op)[i], Piece(c, at, op, f, i))
<1>1. DOMAIN Operands(op) = 1..n
  BY DEF LaidOut
<1>2. ASSUME NEW i \in 1..n PROVE OperandAt(op, i) = 1 + f[i - 1]
  BY LayoutFacts
<1>3. OperandsFrom(c, at, op) = [i \in 1..n |-> OperandsFrom(c, at, op)[i]]
  BY <1>1 DEF OperandsFrom
<1>4. ASSUME NEW i \in 1..n
      PROVE  OperandsFrom(c, at, op)[i] =
                FromBytes(Operands(op)[i], Piece(c, at, op, f, i))
  BY <1>1, <1>2, Zenon DEF OperandsFrom, Piece, Part
<1> QED BY <1>3, <1>4

LEMMA PieceBytes ==
  ASSUME NEW c, NEW at, NEW op, NEW n, NEW f, Here(c, at, op, n, f), NEW i \in 1..n
  PROVE  /\ Readable(Operands(op)[i], Piece(c, at, op, f, i))
         /\ \A j \in 1..Width[Operands(op)[i]] :
                Piece(c, at, op, f, i)[j] = c[at + 1 + f[i - 1] + j]
<1>1. /\ c \in Seq(Byte) /\ at \in Nat /\ LaidOut(op, n, f) /\ at + 1 + f[n] <= Len(c)
  BY DEF Here
<1>2. PICK w \in Nat \ {0} : w = Width[Operands(op)[i]]
  BY <1>1, LayoutFacts
<1>3. PICK z \in Nat : z = f[i - 1] /\ at + 1 + z + w <= Len(c)
  <2>1. LaidOut(op, n, f)
    BY <1>1
  <2>2. /\ f[i - 1] \in Nat /\ f[i] = f[i - 1] + Width[Operands(op)[i]]
        /\ f[i] <= f[n] /\ f[n] \in Nat
    BY <2>1, LayoutFacts
  <2>3. PICK z \in Nat, t \in Nat : z = f[i - 1] /\ t = f[n] /\ z + w <= t
    BY <1>2, <2>2
  <2>4. PICK x \in Nat, l \in Nat : x = at /\ l = Len(c) /\ x + 1 + t <= l
    BY <1>1, <2>3
  <2>5. x + 1 + z + w <= l
    <3>1. w \in Nat /\ z + w <= t /\ x + 1 + t <= l
      BY <2>3, <2>4
    <3> QED BY <3>1, FitsBefore
  <2> QED BY <2>3, <2>4, <2>5
<1>4. PICK a \in Nat : a = at + (1 + z) /\ a + w = at + 1 + z + w
  <2>1. at \in Nat /\ w \in Nat
    BY <1>1
  <2> QED BY <2>1, Grouped
<1>5. PICK b : b = Piece(c, at, op, f, i) /\ b = Part(c, a, w)
  BY <1>2, <1>3, <1>4 DEF Piece
<1>6. b \in Seq(Byte) /\ Len(b) = w /\ \A j \in 1..w : b[j] = c[a + j]
  <2>1. a + w <= Len(c)
    BY <1>3, <1>4
  <2> QED BY <1>1, <1>5, <2>1, PieceAt
<1>7. ASSUME NEW j \in 1..w PROVE b[j] = c[at + 1 + f[i - 1] + j]
  <2>1. j \in Nat
    OBVIOUS
  <2>2. a + j = at + 1 + z + j
    BY <1>1, <1>4, <2>1, Grouped
  <2> QED BY <1>3, <1>6, <2>2
<1>8. ASSUME Operands(op)[i] = "reg" PROVE b[1] < NUM_REGS
  <2>1. 1 \in 1..w
    BY <1>2
  <2> QED BY <1>7, <1>8, <2>1 DEF Here
<1> QED BY <1>2, <1>5, <1>6, <1>7, <1>8 DEF Readable

(* What decode reads is encoded as the bytes it was read from. *)
LEMMA DecodeEncodes ==
  ASSUME NEW c, NEW at, NEW op, NEW n, NEW f, Here(c, at, op, n, f)
  PROVE  LET e == encode([op |-> op, args |-> OperandsFrom(c, at, op)])
         IN  e = Part(c, at, 1 + f[n]) /\ Len(e) = 1 + f[n]
<1>1. /\ c \in Seq(Byte) /\ at \in Nat /\ op \in OpCode /\ LaidOut(op, n, f)
      /\ at + 1 + f[n] <= Len(c) /\ c[at + 1] = opcode[op]
  BY DEF Here
<1>2. n \in Nat /\ f[n] \in Nat /\ DOMAIN Operands(op) = 1..n
  BY <1>1 DEF LaidOut
<1>3. PICK args : args = OperandsFrom(c, at, op)
  OBVIOUS
<1>4. args = [i \in 1..n |-> args[i]]
  BY <1>1, <1>3, OperandsAt
<1>5. ASSUME NEW i \in 1..n
      PROVE  /\ args[i] \in Operand(Operands(op)[i])
             /\ ToBytes(Operands(op)[i], args[i]) = Piece(c, at, op, f, i)
  <2>1. PICK kind \in Kinds : kind = Operands(op)[i]
    BY <1>1, LayoutFacts
  <2>2. PICK b : b = Piece(c, at, op, f, i) /\ Readable(kind, b)
    BY <2>1, PieceBytes
  <2>3. args[i] = FromBytes(kind, b)
    BY <1>1, <1>3, <2>1, <2>2, OperandsAt
  <2>4. FromBytes(kind, b) \in Operand(kind) /\ ToBytes(kind, FromBytes(kind, b)) = b
    BY <2>2, BytesOperand
  <2> QED BY <2>1, <2>2, <2>3, <2>4
<1>6. Fitting(op, args)
  BY <1>2, <1>4, <1>5 DEF Fitting
<1>7. PICK e : e = encode([op |-> op, args |-> args]) /\ Encoding(e, op, args, n, f)
  BY <1>1, <1>6, EncodingIs
<1>8. e \in Seq(Byte) /\ Len(e) = 1 + f[n] /\ e[1] = opcode[op]
  BY <1>7 DEF Encoding
<1>9. PICK x : x = Part(c, at, 1 + f[n])
  OBVIOUS
<1>10. /\ x \in Seq(Byte) /\ Len(x) = 1 + f[n]
       /\ \A k \in 1..(1 + f[n]) : x[k] = c[at + k]
  <2>1. 1 + f[n] \in Nat /\ at + (1 + f[n]) <= Len(c)
    BY <1>1, <1>2
  <2> QED BY <1>1, <1>9, <2>1, PieceAt
<1>11. ASSUME NEW k \in 1..(1 + f[n]) PROVE e[k] = c[at + k]
  <2>1. CASE k = 1
    BY <1>1, <1>8, <2>1
  <2>2. CASE k # 1
    <3>1. PICK m \in 1..f[n] : k = 1 + m
      <4>1. k - 1 \in 1..f[n] /\ k = 1 + (k - 1)
        BY <1>2, <2>2
      <4> QED BY <4>1
    <3>2. PICK i \in 1..n : \E j \in 1..Width[Operands(op)[i]] : m = f[i - 1] + j
      BY <1>1, ByteOfOperand
    <3>3. PICK j \in 1..Width[Operands(op)[i]] : m = f[i - 1] + j
      BY <3>2
    <3>4. PICK z \in Nat : z = f[i - 1]
      BY <1>1, LayoutFacts
    <3>5. k = 1 + f[i - 1] + j /\ at + k = at + 1 + f[i - 1] + j
      <4>1. j \in Nat
        BY <1>1, LayoutFacts
      <4>2. k = 1 + z + j
        BY <3>1, <3>3, <3>4, <4>1
      <4>3. at + k = at + 1 + z + j
        BY <1>1, <4>1, <4>2, Grouped
      <4> QED BY <3>4, <4>2, <4>3
    <3>6. e[1 + f[i - 1] + j] = ToBytes(Operands(op)[i], args[i])[j]
      BY <1>7 DEF Encoding
    <3>7. Piece(c, at, op, f, i)[j] = c[at + 1 + f[i - 1] + j]
      BY PieceBytes
    <3> QED BY <1>5, <3>5, <3>6, <3>7
  <2> QED BY <2>1, <2>2
<1>12. e = x
  <2>1. PICK m \in Nat : m = 1 + f[n]
    BY <1>2
  <2>2. \A k \in 1..m : e[k] = x[k]
    BY <1>10, <1>11, <2>1
  <2> QED BY <1>8, <1>10, <2>1, <2>2
<1> QED BY <1>3, <1>7, <1>8, <1>9, <1>12

(* e lies in c at offset at *)
Lies(e, c, at) ==
    at + Len(e) <= Len(c) /\ \A k \in 1..Len(e) : c[at + k] = e[k]

(* What encode wrote is decoded as what was encoded. *)
LEMMA EncodeDecodes ==
  ASSUME NEW c \in Seq(Byte), NEW at \in Nat, NEW op \in OpCode, NEW args,
         Fitting(op, args), NEW e, e = encode([op |-> op, args |-> args]),
         Lies(e, c, at)
  PROVE  /\ decode(c, at).err = "none" /\ decode(c, at).len = Len(e)
         /\ decode(c, at).instr = [op |-> op, args |-> args]
<1>1. PICK n, f : LaidOut(op, n, f)
  BY Layout
<1>2. n \in Nat /\ f[n] \in Nat /\ DOMAIN Operands(op) = 1..n
  BY <1>1 DEF LaidOut
<1>3. Encoding(e, op, args, n, f)
  BY <1>1, EncodingIs
<1>4. e \in Seq(Byte) /\ Len(e) = 1 + f[n] /\ e[1] = opcode[op]
  BY <1>3 DEF Encoding
<1>5. at + 1 + f[n] <= Len(c)
  BY <1>2, <1>4 DEF Lies
<1>6. c[at + 1] = opcode[op]
  <2>1. 1 \in 1..Len(e)
    BY <1>2, <1>4
  <2> QED BY <1>4, <2>1 DEF Lies
<1>7. ASSUME NEW i \in 1..n, NEW j \in 1..Width[Operands(op)[i]]
      PROVE  c[at + 1 + f[i - 1] + j] = ToBytes(Operands(op)[i], args[i])[j]
  <2>1. /\ f[i - 1] \in Nat /\ f[i] = f[i - 1] + Width[Operands(op)[i]]
        /\ f[i] <= f[n] /\ Width[Operands(op)[i]] \in Nat \ {0}
    BY <1>1, LayoutFacts
  <2>2. PICK k \in 1..Len(e) : k = 1 + f[i - 1] + j /\ at + k = at + 1 + f[i - 1] + j
    <3>1. PICK z \in Nat : z = f[i - 1]
      BY <2>1
    <3>2. j \in Nat /\ 1 + z + j \in 1..Len(e)
      <4>1. PICK w \in Nat : w = Width[Operands(op)[i]]
        BY <2>1
      <4>2. PICK m \in Nat : m = f[n]
        BY <1>2
      <4>3. z + w <= m /\ Len(e) = 1 + m /\ j \in 1..w
        BY <1>4, <2>1, <3>1, <4>1, <4>2
      <4> QED BY <4>3
    <3>3. at + (1 + z + j) = at + 1 + z + j
      BY <3>2, Grouped
    <3> QED BY <3>1, <3>2, <3>3
  <2>3. c[at + k] = e[k]
    BY DEF Lies
  <2>4. e[1 + f[i - 1] + j] = ToBytes(Operands(op)[i], args[i])[j]
    BY <1>3 DEF Encoding
  <2> QED BY <2>2, <2>3, <2>4
<1>8. ASSUME NEW i \in 1..n
      PROVE  /\ Operands(op)[i] \in Kinds /\ args[i] \in Operand(Operands(op)[i])
             /\ ToBytes(Operands(op)[i], args[i]) \in Seq(Byte)
             /\ Len(ToBytes(Operands(op)[i], args[i])) = Width[Operands(op)[i]]
             /\ FromBytes(Operands(op)[i], ToBytes(Operands(op)[i], args[i])) = args[i]
             /\ Operands(op)[i] = "reg" =>
                    ToBytes(Operands(op)[i], args[i])[1] < NUM_REGS
  <2>1. Operands(op)[i] \in Kinds
    BY <1>1, LayoutFacts
  <2>2. args[i] \in Operand(Operands(op)[i])
    BY <1>2 DEF Fitting
  <2> QED BY <2>1, <2>2, OperandBytes
<1>9. ASSUME NEW i \in 1..n, Operands(op)[i] = "reg"
      PROVE  c[at + 1 + f[i - 1] + 1] < NUM_REGS
  <2>1. 1 \in 1..Width[Operands(op)[i]]
    BY <1>9, WidthsOfKinds
  <2> QED BY <1>7, <1>8, <1>9, <2>1
<1>10. Here(c, at, op, n, f)
  BY <1>1, <1>5, <1>6, <1>9 DEF Here
<1>11. ASSUME NEW i \in 1..n PROVE OperandsFrom(c, at, op)[i] = args[i]
  <2>1. PICK b : b = Piece(c, at, op, f, i)
    OBVIOUS
  <2>2. PICK w : w = ToBytes(Operands(op)[i], args[i])
    OBVIOUS
  <2>3. /\ b \in Seq(Byte) /\ Len(b) = Width[Operands(op)[i]]
        /\ \A j \in 1..Width[Operands(op)[i]] : b[j] = c[at + 1 + f[i - 1] + j]
    BY <1>10, <2>1, PieceBytes DEF Readable
  <2>4. w \in Seq(Byte) /\ Len(w) = Width[Operands(op)[i]]
    BY <1>8, <2>2
  <2>5. \A j \in 1..Width[Operands(op)[i]] : b[j] = w[j]
    BY <1>7, <2>2, <2>3
  <2>6. b = w
    <3>1. b \in Seq(Byte) /\ w \in Seq(Byte) /\ Len(b) = Len(w)
      BY <2>3, <2>4
    <3>2. \A j \in 1..Len(b) : b[j] = w[j]
      BY <2>3, <2>5
    <3> QED BY <3>1, <3>2, SameSeq
  <2>7. OperandsFrom(c, at, op)[i] = FromBytes(Operands(op)[i], b)
    BY <1>1, <2>1, OperandsAt
  <2> QED BY <1>8, <2>2, <2>6, <2>7
<1>12. OperandsFrom(c, at, op) = args
  <2>1. OperandsFrom(c, at, op) = [i \in 1..n |-> OperandsFrom(c, at, op)[i]]
    BY <1>1, OperandsAt
  <2>2. args = [i \in 1..n |-> args[i]]
    BY <1>2 DEF Fitting
  <2>3. [i \in 1..n |-> OperandsFrom(c, at, op)[i]] = [i \in 1..n |-> args[i]]
    BY <1>11
  <2> QED BY <2>1, <2>2, <2>3, Zenon
<1> QED BY <1>4, <1>10, <1>12, DecodeHere

(***************************************************************************)
(* An instruction is decided by its own bytes                              *)
(***************************************************************************)
Prefix(c, m) == SubSeq(c, 1, m)

LEMMA PrefixIs ==
  ASSUME NEW T, NEW c \in Seq(T), NEW m \in 0..Len(c)
  PROVE  /\ Prefix(c, m) \in Seq(T) /\ Len(Prefix(c, m)) = m
         /\ \A k \in 1..m : Prefix(c, m)[k] = c[k]
BY DEF Prefix

(* The bytes after an instruction do not matter. *)
LEMMA DecodeWhole ==
  ASSUME NEW c, NEW at, NEW op, NEW n, NEW f, Here(c, at, op, n, f)
  PROVE  decode(Prefix(c, at + (1 + f[n])), at) = decode(c, at)
<1>1. /\ c \in Seq(Byte) /\ at \in Nat /\ op \in OpCode /\ LaidOut(op, n, f)
      /\ at + 1 + f[n] <= Len(c) /\ c[at + 1] = opcode[op]
  BY DEF Here
<1>2. n \in Nat /\ f[n] \in Nat
  BY <1>1 DEF LaidOut
<1>3. PICK m \in 0..Len(c) : m = at + (1 + f[n]) /\ m = at + 1 + f[n] /\ at + 1 \in 1..m
  BY <1>1, <1>2
<1>4. PICK p : p = Prefix(c, m)
  OBVIOUS
<1>5. p \in Seq(Byte) /\ Len(p) = m /\ \A k \in 1..m : p[k] = c[k]
  BY <1>1, <1>4, PrefixIs
<1>6. ASSUME NEW i \in 1..n, NEW j \in 1..Width[Operands(op)[i]]
      PROVE  p[at + 1 + f[i - 1] + j] = c[at + 1 + f[i - 1] + j]
  <2>1. PICK z, w, l \in Nat : z = f[i - 1] /\ w = Width[Operands(op)[i]] /\ l = f[n]
                               /\ z + w <= l
    <3>1. /\ f[i - 1] \in Nat /\ f[i] = f[i - 1] + Width[Operands(op)[i]]
          /\ f[i] <= f[n] /\ Width[Operands(op)[i]] \in Nat
      BY <1>1, LayoutFacts
    <3> QED BY <1>2, <3>1
  <2>2. at + 1 + z + j \in 1..m
    <3>1. m = at + 1 + l /\ j \in 1..w /\ at \in Nat
      BY <1>1, <1>3, <2>1
    <3>2. z + w <= l
      BY <2>1
    <3> HIDE <1>3, <2>1
    <3> QED BY <3>1, <3>2
  <2> QED BY <1>5, <2>1, <2>2
<1>7. ASSUME NEW i \in 1..n, Operands(op)[i] = "reg"
      PROVE  p[at + 1 + f[i - 1] + 1] < NUM_REGS
  <2>1. 1 \in 1..Width[Operands(op)[i]]
    BY <1>7, WidthsOfKinds
  <2>2. p[at + 1 + f[i - 1] + 1] = c[at + 1 + f[i - 1] + 1]
    BY <1>6, <2>1
  <2> QED BY <1>7, <2>2 DEF Here
<1>8. at + 1 + f[n] <= Len(p) /\ p[at + 1] = opcode[op]
  BY <1>1, <1>3, <1>5
<1>9. Here(p, at, op, n, f)
  BY <1>1, <1>5, <1>7, <1>8 DEF Here
<1>10. ASSUME NEW i \in 1..n
       PROVE  OperandsFrom(p, at, op)[i] = OperandsFrom(c, at, op)[i]
  <2>1. PICK a : a = Piece(p, at, op, f, i)
    OBVIOUS
  <2>2. PICK b : b = Piece(c, at, op, f, i)
    OBVIOUS
  <2>3. PICK w \in Nat : w = Width[Operands(op)[i]]
    BY <1>1, LayoutFacts
  <2>4. /\ a \in Seq(Byte) /\ Len(a) = w
        /\ \A j \in 1..w : a[j] = p[at + 1 + f[i - 1] + j]
    BY <1>9, <2>1, <2>3, PieceBytes DEF Readable
  <2>5. /\ b \in Seq(Byte) /\ Len(b) = w
        /\ \A j \in 1..w : b[j] = c[at + 1 + f[i - 1] + j]
    BY <2>2, <2>3, PieceBytes DEF Readable
  <2>6. \A j \in 1..w : a[j] = b[j]
    BY <1>6, <2>3, <2>4, <2>5
  <2>7. a = b
    BY <2>4, <2>5, <2>6
  <2>8. OperandsFrom(p, at, op)[i] = FromBytes(Operands(op)[i], a)
    BY <1>1, <2>1, OperandsAt
  <2>9. OperandsFrom(c, at, op)[i] = FromBytes(Operands(op)[i], b)
    BY <1>1, <2>2, OperandsAt
  <2> QED BY <2>7, <2>8, <2>9
<1>11. OperandsFrom(p, at, op) = OperandsFrom(c, at, op)
  <2>1. /\ OperandsFrom(p, at, op) = [i \in 1..n |-> OperandsFrom(p, at, op)[i]]
        /\ OperandsFrom(c, at, op) = [i \in 1..n |-> OperandsFrom(c, at, op)[i]]
    BY <1>1, OperandsAt
  <2>2. [i \in 1..n |-> OperandsFrom(p, at, op)[i]] =
            [i \in 1..n |-> OperandsFrom(c, at, op)[i]]
    BY <1>10
  <2> QED BY <2>1, <2>2, Zenon
<1>12. Answer(p, at, op) = Answer(c, at, op)
  BY <1>11 DEF Answer
<1>13. decode(p, at) = Answer(p, at, op)
  BY <1>9, DecodeAnswers
<1>14. decode(c, at) = Answer(c, at, op)
  BY DecodeAnswers
<1> QED BY <1>3, <1>4, <1>12, <1>13, <1>14

(* Code that ends within an instruction is truncated there. *)
LEMMA DecodeShort ==
  ASSUME NEW c, NEW at, NEW op, NEW n, NEW f, Here(c, at, op, n, f),
         NEW m \in at..(at + f[n])
  PROVE  decode(Prefix(c, m), at) = Truncated
<1>1. /\ c \in Seq(Byte) /\ at \in Nat /\ op \in OpCode /\ LaidOut(op, n, f)
      /\ at + 1 + f[n] <= Len(c) /\ c[at + 1] = opcode[op]
  BY DEF Here
<1>2. n \in Nat /\ f[n] \in Nat
  BY <1>1 DEF LaidOut
<1>3. m \in 0..Len(c) /\ m \in Nat
  BY <1>1, <1>2
<1>4. PICK p : p = Prefix(c, m)
  OBVIOUS
<1>5. p \in Seq(Byte) /\ Len(p) = m /\ \A k \in 1..m : p[k] = c[k]
  BY <1>1, <1>3, <1>4, PrefixIs
<1>6. CASE m = at
  <2>1. at >= Len(p)
    BY <1>1, <1>5, <1>6
  <2> QED BY <1>4, <2>1 DEF decode
<1>7. CASE m # at
  <2>1. /\ ~ (at >= Len(p)) /\ at + 1 \in 1..m /\ f[n] \in 1..f[n]
        /\ at + 1 + f[n] > Len(p)
    BY <1>1, <1>2, <1>3, <1>5, <1>7
  <2>2. p[at + 1] = opcode[op]
    BY <1>1, <1>5, <2>1
  <2>3. DOMAIN IsRegByte(op) = 1..f[n]
    BY <1>1, RegBytes
  <2>4. PICK B : B = BadBytes(p, at, op)
    OBVIOUS
  <2>5. B \subseteq Nat /\ B # {}
    <3>1. f[n] \in B
      BY <2>1, <2>3, <2>4 DEF BadBytes
    <3>2. B \subseteq 1..f[n]
      BY <2>3, <2>4 DEF BadBytes
    <3> QED BY <1>2, <3>1, <3>2
  <2>6. PICK k \in B : k = Min(B)
    BY <2>5, MinNat DEF Min
  <2>7. k \in 1..f[n] /\ k \in Nat
    BY <1>2, <2>3, <2>4 DEF BadBytes
  <2>8. at + 1 + k > Len(p)
    <3> SUFFICES ASSUME ~ (at + 1 + k > Len(p)) PROVE FALSE
      OBVIOUS
    <3>1. IsRegByte(op)[k] /\ p[at + 1 + k] >= NUM_REGS
      BY <2>4 DEF BadBytes
    <3>2. at + 1 + k \in 1..m
      BY <1>1, <1>3, <1>5, <2>7
    <3>3. p[at + 1 + k] = c[at + 1 + k]
      BY <1>5, <3>2
    <3>4. k \in BadBytes(c, at, op)
      BY <2>3, <2>7, <3>1, <3>3 DEF BadBytes
    <3> QED BY <3>4, NoBadBytes
  <2>9. decode(p, at) = Truncated
    BY <1>1, <2>1, <2>2, <2>4, <2>5, <2>6, <2>8, DecodeKnown
  <2> QED BY <1>4, <2>9
<1> QED BY <1>6, <1>7

(***************************************************************************)
(* The shapes of the mnemonics                                             *)
(***************************************************************************)
Shapes(op) == UNION {leading(op), arithmetic(op), trailing(op)}

Shape(op) == CHOOSE s \in Shapes(op) : TRUE

(* What the assembler parses for an operand of a kind *)
ShapeKind(kind) == IF kind = "u32" THEN "target" ELSE kind

(* s asks for the operands of op *)
Matches(s, op) ==
    /\ Len(s) = Len(Operands(op)) /\ DOMAIN s = DOMAIN Operands(op)
    /\ \A i \in DOMAIN Operands(op) : s[i] = ShapeKind(Operands(op)[i])

LEMMA OneShape ==
  ASSUME NEW a, NEW b, NEW c, NEW s, a \cup b \cup c = {s}
  PROVE  UNION {a, b, c} = {s} /\ (CHOOSE x \in UNION {a, b, c} : TRUE) = s
<1>1. UNION {a, b, c} = {s}
  BY Zenon
<1> QED BY <1>1

LEMMA ShapeIsOne ==
  ASSUME NEW op, NEW s, leading(op) \cup arithmetic(op) \cup trailing(op) = {s}, Matches(s, op)
  PROVE  Shapes(op) # {} /\ Matches(Shape(op), op)
<1>1. UNION {leading(op), arithmetic(op), trailing(op)} = {s}
      /\ (CHOOSE x \in UNION {leading(op), arithmetic(op), trailing(op)} : TRUE) = s
  BY OneShape
<1> QED BY <1>1 DEF Shapes, Shape

(* A mnemonic that names no opcode is unknown. *)
LEMMA NoShape ==
  ASSUME NEW op, op \notin OpCode
  PROVE  Shapes(op) = {}
<1>1. leading(op) = {}
  BY DEF leading, OpCode, PlainOps, ArithOps, BitOps, MoveOps, StackOps, FlowOps,
         VerifyOps, EffectOps
<1>2. arithmetic(op) = {}
  BY DEF arithmetic, Triple, OpCode, PlainOps, ArithOps, BitOps, MoveOps, StackOps, FlowOps,
         VerifyOps, EffectOps
<1>3. trailing(op) = {}
  BY DEF trailing, OpCode, PlainOps, ArithOps, BitOps, MoveOps, StackOps, FlowOps,
         VerifyOps, EffectOps
<1> QED BY <1>1, <1>2, <1>3 DEF Shapes

LEMMA RegShapes ==
  ASSUME NEW op, NEW n \in Nat, Len(Operands(op)) = n, DOMAIN Operands(op) = 1..n,
         \A i \in 1..n : Operands(op)[i] = "reg"
  PROVE  Matches(R(n), op)
<1>1. /\ DOMAIN R(n) = 1..n /\ R(n) = [i \in 1..n |-> "reg"]
      /\ \A i \in 1..n : R(n)[i] = "reg"
  BY DEF R
<1>2. Len(R(n)) = n
  <2>1. R(n) \in [1..n -> {"reg"}]
    BY <1>1
  <2> QED BY <2>1, FunctionIsSeq
<1>3. ShapeKind("reg") = "reg"
  BY DEF ShapeKind
<1> QED BY <1>1, <1>2, <1>3 DEF Matches

(* Every mnemonic that names an opcode asks for the operands it has. *)
LEMMA ShapeOf ==
  ASSUME NEW op \in OpCode
  PROVE  Shapes(op) # {} /\ Matches(Shape(op), op)
<1> USE DEF leading, arithmetic, trailing, Triple
<1>1. CASE op \in {"Halt", "Nop", "Ret"}
  <2>1. leading(op) \cup arithmetic(op) \cup trailing(op) = {R(0)}
    BY <1>1
  <2>2. Operands(op) = <<>>
    BY <1>1 DEF Operands
  <2>3. Matches(R(0), op)
    <3>1. /\ 0 \in Nat /\ Len(Operands(op)) = 0 /\ DOMAIN Operands(op) = 1..0
          /\ \A i \in 1..0 : Operands(op)[i] = "reg"
      BY <2>2
    <3> QED BY <3>1, RegShapes
  <2> QED BY <2>1, <2>3, ShapeIsOne
<1>2. CASE op \in {"Push", "Pop"}
  <2>1. leading(op) \cup arithmetic(op) \cup trailing(op) = {R(1)}
    BY <1>2
  <2>2. Operands(op) = <<"reg">>
    BY <1>2 DEF Operands
  <2>3. Matches(R(1), op)
    <3>1. /\ 1 \in Nat /\ Len(Operands(op)) = 1 /\ DOMAIN Operands(op) = 1..1
          /\ \A i \in 1..1 : Operands(op)[i] = "reg"
      BY <2>2
    <3> QED BY <3>1, RegShapes
  <2> QED BY <2>1, <2>3, ShapeIsOne
<1>3. CASE op \in {"Mov", "Not", "MLoad", "SLoad", "MStore", "SStore"}
  <2>1. leading(op) \cup arithmetic(op) \cup trailing(op) = {R(2)}
    BY <1>3
  <2>2. Operands(op) = <<"reg", "reg">>
    BY <1>3 DEF Operands
  <2>3. Matches(R(2), op)
    <3>1. /\ 2 \in Nat /\ Len(Operands(op)) = 2 /\ DOMAIN Operands(op) = 1..2
          /\ \A i \in 1..2 : Operands(op)[i] = "reg"
      BY <2>2
    <3> QED BY <3>1, RegShapes
  <2> QED BY <2>1, <2>3, ShapeIsOne
<1>4. CASE op = "Ldi"
  <2>1. leading(op) \cup arithmetic(op) \cup trailing(op) = {<<"reg", "u64">>}
    BY <1>4
  <2>2. Operands(op) = <<"reg", "u64">>
    BY <1>4 DEF Operands
  <2>3. Matches(<<"reg", "u64">>, op)
    BY <2>2 DEF Matches, ShapeKind
  <2> QED BY <2>1, <2>3, ShapeIsOne
<1>5. CASE op = "Ldc"
  <2>1. leading(op) \cup arithmetic(op) \cup trailing(op) = {<<"reg", "u16">>}
    BY <1>5
  <2>2. Operands(op) = <<"reg", "u16">>
    BY <1>5 DEF Operands
  <2>3. Matches(<<"reg", "u16">>, op)
    BY <2>2 DEF Matches, ShapeKind
  <2> QED BY <2>1, <2>3, ShapeIsOne
<1>6. CASE op \in {"Jmp", "Call"}
  <2>1. leading(op) \cup arithmetic(op) \cup trailing(op) = {<<"target">>}
    BY <1>6
  <2>2. Operands(op) = <<"u32">>
    BY <1>6 DEF Operands
  <2>3. Matches(<<"target">>, op)
    BY <2>2 DEF Matches, ShapeKind
  <2> QED BY <2>1, <2>3, ShapeIsOne
<1>7. CASE op \in {"Jz", "Jnz"}
  <2>1. leading(op) \cup arithmetic(op) \cup trailing(op) = {<<"reg", "target">>}
    BY <1>7
  <2>2. Operands(op) = <<"reg", "u32">>
    BY <1>7 DEF Operands
  <2>3. Matches(<<"reg", "target">>, op)
    BY <2>2 DEF Matches, ShapeKind
  <2> QED BY <2>1, <2>3, ShapeIsOne
<1>8. CASE op \in {"DivW", "RemW"}
  <2>1. leading(op) \cup arithmetic(op) \cup trailing(op) = {R(6)}
    BY <1>8
  <2>2. Operands(op) = <<"reg", "reg", "reg", "reg", "reg", "reg">>
    BY <1>8 DEF Operands
  <2>3. Matches(R(6), op)
    <3>1. /\ 6 \in Nat /\ Len(Operands(op)) = 6 /\ DOMAIN Operands(op) = 1..6
          /\ \A i \in 1..6 : Operands(op)[i] = "reg"
      BY <2>2
    <3> QED BY <3>1, RegShapes
  <2> QED BY <2>1, <2>3, ShapeIsOne
<1>9. CASE op \in Triple
  <2>1. leading(op) \cup arithmetic(op) \cup trailing(op) = {R(3)}
    BY <1>9
  <2>2. Operands(op) = <<"reg", "reg", "reg">>
    BY <1>9 DEF Operands
  <2>3. Matches(R(3), op)
    <3>1. /\ 3 \in Nat /\ Len(Operands(op)) = 3 /\ DOMAIN Operands(op) = 1..3
          /\ \A i \in 1..3 : Operands(op)[i] = "reg"
      BY <2>2
    <3> QED BY <3>1, RegShapes
  <2> QED BY <2>1, <2>3, ShapeIsOne
<1> QED BY <1>1, <1>2, <1>3, <1>4, <1>5, <1>6, <1>7, <1>8, <1>9
        DEF OpCode, PlainOps, ArithOps, BitOps, MoveOps, StackOps, FlowOps,
            VerifyOps, EffectOps

(***************************************************************************)
(* Operands: what a token is parsed to                                     *)
(***************************************************************************)
LEMMA GoodIs == \A v : Good(v).err = "none" /\ Good(v).val = v
BY DEF Good

(* p is what a parser should answer for an operand of a kind *)
Right(p, kind, tok, a) ==
    /\ p.err = "none" => p.val \in Operand(kind) /\ (~a => p.val \in Meaning(kind, tok))
    /\ p.err # "none" => Meaning(kind, tok) = {} /\ p.err # "ok"

LEMMA RegParses ==
  ASSUME NEW tok \in Tokens, NEW a
  PROVE  Right(reg(tok), "reg", tok, a)
<1>1. Meaning("reg", tok) = {<<r>> : r \in tok.reg \cap 0..(NUM_REGS - 1)}
  BY DEF Meaning, NUM_REGS
<1>2. tok.reg \subseteq Nat /\ \A x, y \in tok.reg : x = y
  BY DEF Tokens, AtMostOne
<1>3. CASE tok.reg \cap 0..(NUM_REGS - 1) = {}
  <2>1. reg(tok) = Bad("BadRegister")
    BY <1>3 DEF reg
  <2>2. reg(tok).err # "none" /\ reg(tok).err # "ok"
    BY <2>1 DEF Bad
  <2> QED BY <1>1, <1>3, <2>2 DEF Right
<1>4. CASE tok.reg \cap 0..(NUM_REGS - 1) # {}
  <2>1. reg(tok) = Good(<<CHOOSE q \in tok.reg : TRUE>>)
    BY <1>4 DEF reg
  <2>2. PICK r \in tok.reg \cap 0..(NUM_REGS - 1) : TRUE
    BY <1>4
  <2>3. (CHOOSE q \in tok.reg : TRUE) = r
    BY <1>2
  <2>4. reg(tok).err = "none" /\ reg(tok).val = <<r>>
    BY <2>1, <2>3, GoodIs, Zenon
  <2>5. <<r>> \in Meaning("reg", tok)
    BY <1>1
  <2>6. Operand("reg") = [1..1 -> 0..(NUM_REGS - 1)]
    BY DEF Operand
  <2>7. <<r>> \in Operand("reg")
    <3>1. r \in 0..(NUM_REGS - 1)
      OBVIOUS
    <3>2. \A S : \A x \in S : <<x>> \in [1..1 -> S]
      OBVIOUS
    <3> QED BY <2>6, <3>1, <3>2, Zenon
  <2> QED BY <2>4, <2>5, <2>7, Zenon DEF Right
<1> QED BY <1>3, <1>4

(* The number that num takes from a token, with the limbs it asks for *)
Taken(tok, n, v) == v \in tok.num /\ v \in [1..4 -> Limb] /\ \A i \in 1..(4 - n) : v[i] = 0

(* num finds the number that fits, if the token has one. *)
LEMMA NumParses ==
  ASSUME NEW tok \in Tokens, NEW n
  PROVE  /\ num(tok, n).err = "none" =>
                \E v : Taken(tok, n, v) /\ num(tok, n).val = SubSeq(v, 5 - n, 4)
         /\ num(tok, n).err # "none" =>
                /\ num(tok, n).err # "ok"
                /\ \A v \in tok.num : ~ \A i \in 1..(4 - n) : v[i] = 0
<1> DEFINE fits == {v \in tok.num : \A i \in 1..(4 - n) : v[i] = 0}
<1>1. tok.num \subseteq [1..4 -> Limb]
  BY DEF Tokens, AtMostOne
<1>2. CASE fits = {}
  <2>1. num(tok, n) = Bad("BadNumber")
    BY <1>2 DEF num
  <2>2. num(tok, n).err # "none" /\ num(tok, n).err # "ok"
    BY <2>1 DEF Bad
  <2> QED BY <1>2, <2>2
<1>3. CASE fits # {}
  <2>1. num(tok, n) = Good(SubSeq(CHOOSE v \in fits : TRUE, 5 - n, 4))
    BY <1>3 DEF num
  <2>2. PICK v \in fits : v = CHOOSE x \in fits : TRUE
    BY <1>3
  <2>3. Taken(tok, n, v)
    BY <1>1 DEF Taken
  <2> HIDE DEF fits
  <2>4. num(tok, n).err = "none" /\ num(tok, n).val = SubSeq(v, 5 - n, 4)
    BY <2>1, <2>2, GoodIs, Zenon
  <2> QED BY <2>3, <2>4
<1> QED BY <1>2, <1>3

LEMMA OneAt ==
  ASSUME NEW T, NEW v \in Seq(T), NEW a \in Nat, NEW m \in Nat, m = 1, a + m <= Len(v)
  PROVE  Part(v, a, m) = <<v[a + m]>>
<1>1. /\ Part(v, a, m) \in Seq(T) /\ Len(Part(v, a, m)) = m
      /\ \A j \in 1..m : Part(v, a, m)[j] = v[a + j]
  <2>1. ASSUME NEW k \in Nat, a + k <= Len(v)
        PROVE  /\ Part(v, a, k) \in Seq(T) /\ Len(Part(v, a, k)) = k
               /\ \A j \in 1..k : Part(v, a, k)[j] = v[a + j]
    BY <2>1, PieceAt
  <2> QED BY <2>1, Zenon
<1>2. PICK s : s = Part(v, a, m)
  OBVIOUS
<1>3. s \in Seq(T) /\ Len(s) = 1 /\ s[1] = v[a + m]
  BY <1>1, <1>2
<1>4. s = <<s[1]>>
  BY <1>3
<1> QED BY <1>2, <1>3, <1>4

LEMMA TwoAt ==
  ASSUME NEW T, NEW v \in Seq(T), NEW a \in Nat, NEW m \in Nat, m = 2, a + m <= Len(v)
  PROVE  Part(v, a, m) = <<v[a + 1], v[a + 2]>>
<1>1. /\ Part(v, a, m) \in Seq(T) /\ Len(Part(v, a, m)) = m
      /\ \A j \in 1..m : Part(v, a, m)[j] = v[a + j]
  <2>1. ASSUME NEW k \in Nat, a + k <= Len(v)
        PROVE  /\ Part(v, a, k) \in Seq(T) /\ Len(Part(v, a, k)) = k
               /\ \A j \in 1..k : Part(v, a, k)[j] = v[a + j]
    BY <2>1, PieceAt
  <2> QED BY <2>1, Zenon
<1>2. PICK s : s = Part(v, a, m)
  OBVIOUS
<1>3. s \in Seq(T) /\ Len(s) = 2 /\ s[1] = v[a + 1] /\ s[2] = v[a + 2]
  BY <1>1, <1>2
<1>4. s = <<s[1], s[2]>>
  BY <1>3
<1> QED BY <1>2, <1>3, <1>4

LEMMA LastLimbs ==
  ASSUME NEW v \in [1..4 -> Limb]
  PROVE  /\ SubSeq(v, 1, 4) = v
         /\ SubSeq(v, 3, 4) = <<v[3], v[4]>> /\ SubSeq(v, 4, 4) = <<v[4]>>
         /\ <<v[3], v[4]>> \in [1..2 -> Limb] /\ <<v[4]>> \in [1..1 -> Limb]
<1> DEFINE T == Limb
<1>1. v \in [1..4 -> T]
  OBVIOUS
<1> HIDE DEF T
<1>2. v \in Seq(T) /\ Len(v) = 4
  BY <1>1, FunctionIsSeq
<1>3. SubSeq(v, 1, 4) = v
  BY <1>2
<1>4. v[3] \in T /\ v[4] \in T
  BY <1>1
<1>5. SubSeq(v, 3, 4) = <<v[3], v[4]>>
  <2>1. \A a \in Nat : a = 2 => Part(v, a, a) = <<v[a + 1], v[a + 2]>>
    BY <1>2, TwoAt
  <2>2. Part(v, 2, 2) = <<v[2 + 1], v[2 + 2]>>
    BY <2>1, Zenon
  <2> QED BY <2>2 DEF Part
<1>6. SubSeq(v, 4, 4) = <<v[4]>>
  <2>1. \A a \in Nat, m \in Nat : a = 3 /\ m = 1 => Part(v, a, m) = <<v[a + m]>>
    BY <1>2, OneAt
  <2>2. Part(v, 3, 1) = <<v[3 + 1]>>
    BY <2>1, Zenon
  <2> QED BY <2>2 DEF Part
<1>7. \A x, y \in T : <<x, y>> \in [1..2 -> T] /\ <<y>> \in [1..1 -> T]
  OBVIOUS
<1> QED BY <1>3, <1>4, <1>5, <1>6, <1>7 DEF T

LEMMA LimbSums ==
  ASSUME NEW v \in [1..4 -> Limb]
  PROVE  /\ (\A i \in 1..(4 - 1) : v[i] = 0) <=> v[1] + v[2] + v[3] = 0
         /\ (\A i \in 1..(4 - 2) : v[i] = 0) <=> v[1] + v[2] = 0
         /\ \A i \in 1..(4 - 4) : v[i] = 0
<1>1. v[1] \in Nat /\ v[2] \in Nat /\ v[3] \in Nat
  <2>1. \A x \in Limb : x \in Nat
    BY Ranges
  <2>2. v[1] \in Limb /\ v[2] \in Limb /\ v[3] \in Limb
    OBVIOUS
  <2> QED BY <2>1, <2>2
<1>2. PICK x \in Nat, y \in Nat, z \in Nat : x = v[1] /\ y = v[2] /\ z = v[3]
  BY <1>1
<1>3. (\A i \in 1..(4 - 1) : v[i] = 0) <=> x = 0 /\ y = 0 /\ z = 0
  <2>1. 1..(4 - 1) = {1, 2, 3}
    OBVIOUS
  <2> QED BY <1>2, <2>1
<1>4. (\A i \in 1..(4 - 2) : v[i] = 0) <=> x = 0 /\ y = 0
  <2>1. 1..(4 - 2) = {1, 2}
    OBVIOUS
  <2> QED BY <1>2, <2>1
<1>5. (x + y + z = 0 <=> x = 0 /\ y = 0 /\ z = 0) /\ (x + y = 0 <=> x = 0 /\ y = 0)
  OBVIOUS
<1>6. \A i \in 1..(4 - 4) : v[i] = 0
  OBVIOUS
<1> QED BY <1>2, <1>3, <1>4, <1>5, <1>6, Zenon

LEMMA U64Parses ==
  ASSUME NEW tok \in Tokens, NEW a
  PROVE  Right(num(tok, 4), "u64", tok, a)
<1>1. Meaning("u64", tok) = tok.num /\ Operand("u64") = [1..4 -> Limb]
  BY DEF Meaning, Operand
<1>2. tok.num \subseteq [1..4 -> Limb]
  BY DEF Tokens, AtMostOne
<1>3. ASSUME num(tok, 4).err = "none"
      PROVE  num(tok, 4).val \in tok.num /\ num(tok, 4).val \in Operand("u64")
  <2>1. PICK v : Taken(tok, 4, v) /\ num(tok, 4).val = SubSeq(v, 5 - 4, 4)
    BY <1>3, NumParses
  <2>2. v \in tok.num /\ v \in [1..4 -> Limb]
    BY <2>1 DEF Taken
  <2>3. SubSeq(v, 1, 4) = v
    BY <2>2, LastLimbs
  <2>4. 5 - 4 = 1
    OBVIOUS
  <2> QED BY <1>1, <2>1, <2>2, <2>3, <2>4, Zenon
<1>4. ASSUME num(tok, 4).err # "none"
      PROVE  tok.num = {} /\ num(tok, 4).err # "ok"
  <2>1. num(tok, 4).err # "ok" /\ \A v \in tok.num : ~ \A i \in 1..(4 - 4) : v[i] = 0
    BY <1>4, NumParses
  <2>2. \A v \in tok.num : \A i \in 1..(4 - 4) : v[i] = 0
    BY <1>2, LimbSums
  <2> QED BY <2>1, <2>2, Zenon
<1> QED BY <1>1, <1>3, <1>4, Zenon DEF Right

LEMMA U16Parses ==
  ASSUME NEW tok \in Tokens, NEW a
  PROVE  Right(num(tok, 1), "u16", tok, a)
<1> DEFINE small == {x \in tok.num : x[1] + x[2] + x[3] = 0}
<1>1. Meaning("u16", tok) = {<<v[4]>> : v \in small} /\ Operand("u16") = [1..1 -> Limb]
  BY DEF Meaning, Operand
<1>2. tok.num \subseteq [1..4 -> Limb]
  BY DEF Tokens, AtMostOne
<1>3. ASSUME num(tok, 1).err = "none"
      PROVE  num(tok, 1).val \in Meaning("u16", tok) /\ num(tok, 1).val \in Operand("u16")
  <2>1. PICK v : Taken(tok, 1, v) /\ num(tok, 1).val = SubSeq(v, 5 - 1, 4)
    BY <1>3, NumParses
  <2>2. v \in tok.num /\ v \in [1..4 -> Limb] /\ \A i \in 1..(4 - 1) : v[i] = 0
    BY <2>1 DEF Taken
  <2>3. SubSeq(v, 4, 4) = <<v[4]>> /\ <<v[4]>> \in [1..1 -> Limb]
    BY <2>2, LastLimbs
  <2>4. 5 - 1 = 4
    OBVIOUS
  <2>5. v[1] + v[2] + v[3] = 0
    BY <2>2, LimbSums, Zenon
  <2>6. v \in small
    BY <2>2, <2>5
  <2> HIDE DEF small
  <2> QED BY <1>1, <2>1, <2>3, <2>4, <2>6, Zenon
<1>4. ASSUME num(tok, 1).err # "none"
      PROVE  small = {} /\ num(tok, 1).err # "ok"
  <2>1. num(tok, 1).err # "ok" /\ \A v \in tok.num : ~ \A i \in 1..(4 - 1) : v[i] = 0
    BY <1>4, NumParses
  <2>2. \A v \in tok.num : v[1] + v[2] + v[3] = 0 => \A i \in 1..(4 - 1) : v[i] = 0
    BY <1>2, LimbSums, Zenon
  <2> QED BY <2>1, <2>2, Zenon
<1> HIDE DEF small
<1>5. small = {} => Meaning("u16", tok) = {}
  BY <1>1
<1> QED BY <1>3, <1>4, <1>5, Zenon DEF Right

LEMMA DigitsParse ==
  ASSUME NEW tok \in Tokens, tok.digit, NEW a
  PROVE  Right(num(tok, 2), "u32", tok, a)
<1> DEFINE small == {x \in tok.num : x[1] + x[2] = 0}
<1>1. Meaning("u32", tok) = {<<v[3], v[4]>> : v \in small}
      /\ Operand("u32") = [1..2 -> Limb]
  BY DEF Meaning, Operand
<1>2. tok.num \subseteq [1..4 -> Limb]
  BY DEF Tokens, AtMostOne
<1>3. ASSUME num(tok, 2).err = "none"
      PROVE  num(tok, 2).val \in Meaning("u32", tok) /\ num(tok, 2).val \in Operand("u32")
  <2>1. PICK v : Taken(tok, 2, v) /\ num(tok, 2).val = SubSeq(v, 5 - 2, 4)
    BY <1>3, NumParses
  <2>2. v \in tok.num /\ v \in [1..4 -> Limb] /\ \A i \in 1..(4 - 2) : v[i] = 0
    BY <2>1 DEF Taken
  <2>3. SubSeq(v, 3, 4) = <<v[3], v[4]>> /\ <<v[3], v[4]>> \in [1..2 -> Limb]
    BY <2>2, LastLimbs
  <2>4. 5 - 2 = 3
    OBVIOUS
  <2>5. v[1] + v[2] = 0
    BY <2>2, LimbSums, Zenon
  <2>6. v \in small
    BY <2>2, <2>5
  <2> HIDE DEF small
  <2> QED BY <1>1, <2>1, <2>3, <2>4, <2>6, Zenon
<1>4. ASSUME num(tok, 2).err # "none"
      PROVE  small = {} /\ num(tok, 2).err # "ok"
  <2>1. num(tok, 2).err # "ok" /\ \A v \in tok.num : ~ \A i \in 1..(4 - 2) : v[i] = 0
    BY <1>4, NumParses
  <2>2. \A v \in tok.num : v[1] + v[2] = 0 => \A i \in 1..(4 - 2) : v[i] = 0
    BY <1>2, LimbSums, Zenon
  <2> QED BY <2>1, <2>2, Zenon
<1> HIDE DEF small
<1>5. small = {} => Meaning("u32", tok) = {}
  BY <1>1
<1> QED BY <1>3, <1>4, <1>5, Zenon DEF Right

(* The labels that a pass knows, and that they are those of the source *)
Numbering(known) == known \in [DOMAIN known -> 0..U32_MAX]

LabelAt(i, nm) == i \in DOMAIN lines /\ lines[i].kind = "label" /\ lines[i].name = nm

Complete(known) ==
    /\ \A nm \in DOMAIN known : \E i : LabelAt(i, nm) /\ known[nm] = Before(i)
    /\ \A nm : \A i : LabelAt(i, nm) => nm \in DOMAIN known

(* An offset of the code fits a u32. *)
LEMMA LimbsOfOffset ==
  ASSUME NEW n \in 0..U32_MAX
  PROVE  Limbs32(n) \in [1..2 -> Limb]
<1>1. U32_MAX \in Nat /\ U32_MAX \div LIMB \in Limb /\ LIMB \in Nat \ {0}
      /\ n \in Nat /\ n <= U32_MAX
  BY U32Assumption, Ranges
<1>2. PICK d \in Nat \ {0} : d = LIMB
  BY <1>1
<1>3. /\ n \div d \in Nat /\ n % d \in 0..(d - 1) /\ n = d * (n \div d) + (n % d)
  BY <1>1, DivMod
<1>4. /\ U32_MAX \div d \in Nat /\ U32_MAX % d \in 0..(d - 1)
      /\ U32_MAX = d * (U32_MAX \div d) + (U32_MAX % d)
  BY <1>1, DivMod
<1>5. PICK q \in Nat, r \in 0..(d - 1), x \in Nat, s \in 0..(d - 1) :
        /\ q = n \div d /\ r = n % d /\ x = U32_MAX \div d /\ s = U32_MAX % d
        /\ n = d * q + r /\ U32_MAX = d * x + s
  BY <1>3, <1>4
<1>6. q <= x
  <2> SUFFICES ASSUME x + 1 <= q PROVE FALSE
    BY <1>5
  <2>1. d * (x + 1) <= d * q
    BY <1>2
  <2>2. d * (x + 1) = d * x + d
    BY <1>2
  <2>3. PICK A \in Nat, B \in Nat : A = d * x /\ B = d * q
    OBVIOUS
  <2>4. A + d <= B /\ B + r <= A + s
    BY <1>1, <1>5, <2>1, <2>2, <2>3
  <2> QED BY <2>4
<1>7. q \in Limb
  <2>1. x < LIMB
    BY <1>1, <1>2, <1>5, Ranges
  <2>2. q < LIMB
    BY <1>1, <1>6, <2>1
  <2> QED BY <2>2, Ranges
<1>8. r \in Limb
  <2>1. r \in Nat /\ r < LIMB
    BY <1>2
  <2> QED BY <2>1, Ranges
<1>9. Limbs32(n) = <<q, r>>
  BY <1>2, <1>5, Zenon DEF Limbs32
<1>10. \A T : \A y, z \in T : <<y, z>> \in [1..2 -> T]
  OBVIOUS
<1>11. \A y, z \in Limb : <<y, z>> \in [1..2 -> Limb]
  BY <1>10, Zenon
<1>12. <<q, r>> \in [1..2 -> Limb]
  BY <1>7, <1>8, <1>11, Zenon
<1> QED BY <1>9, <1>12, Zenon

LEMMA NoOffset == <<0, 0>> \in [1..2 -> Limb]
<1>1. 0 \in Limb
  BY Ranges
<1>2. \A T : \A y, z \in T : <<y, z>> \in [1..2 -> T]
  OBVIOUS
<1> QED BY <1>1, <1>2, Zenon

LEMMA TargetParses ==
  ASSUME NEW tok \in Tokens, NEW known, Numbering(known), NEW a \in BOOLEAN,
         a \/ Complete(known)
  PROVE  Right(target(tok, known, a), "u32", tok, a)
<1> DEFINE p == target(tok, known, a)
<1>1. CASE tok.digit
  <2>1. p = num(tok, 2)
    BY <1>1 DEF target
  <2> QED BY <1>1, <2>1, DigitsParse
<1>2. CASE ~ tok.digit
  <2> DEFINE here == {j \in DOMAIN lines :
                        lines[j].kind = "label" /\ lines[j].name = tok.text}
  <2>1. Meaning("u32", tok) = {Limbs32(Before(i)) : i \in here}
    BY <1>2 DEF Meaning
  <2>2. Operand("u32") = [1..2 -> Limb]
    BY DEF Operand
  <2>3. CASE tok.text \in DOMAIN known
    <3>1. PICK n \in 0..U32_MAX : n = known[tok.text]
      BY <2>3 DEF Numbering
    <3>2. p = Good(Limbs32(n))
      BY <1>2, <2>3, <3>1 DEF target
    <3> HIDE DEF p
    <3>3. p.err = "none" /\ p.val = Limbs32(n)
      BY <3>2, GoodIs, Zenon
    <3>4. p.val \in Operand("u32")
      BY <2>2, <3>3, LimbsOfOffset
    <3>5. ASSUME ~a PROVE p.val \in Meaning("u32", tok)
      <4>1. PICK i : LabelAt(i, tok.text) /\ n = Before(i)
        BY <2>3, <3>1, <3>5 DEF Complete
      <4>2. i \in here
        BY <4>1 DEF LabelAt
      <4> QED BY <2>1, <3>3, <4>1, <4>2, Zenon
    <3>6. Right(p, "u32", tok, a)
      BY <3>3, <3>4, <3>5, Zenon DEF Right
    <3> QED BY <3>6 DEF p
  <2>4. CASE tok.text \notin DOMAIN known /\ a
    <3>1. p = Good(<<0, 0>>)
      BY <1>2, <2>4 DEF target
    <3> HIDE DEF p
    <3>2. p.err = "none" /\ p.val = <<0, 0>>
      BY <3>1, GoodIs, Zenon
    <3>3. Right(p, "u32", tok, a)
      BY <2>2, <2>4, <3>2, NoOffset, Zenon DEF Right
    <3> QED BY <3>3 DEF p
  <2>5. CASE tok.text \notin DOMAIN known /\ ~a
    <3>1. p = Bad("UnknownLabel")
      BY <1>2, <2>5 DEF target
    <3>2. p.err # "none" /\ p.err # "ok"
      BY <3>1 DEF Bad
    <3>3. here = {}
      BY <2>5 DEF Complete, LabelAt
    <3>4. Meaning("u32", tok) = {}
      <4> HIDE DEF here
      <4> QED BY <2>1, <3>3
    <3> QED BY <3>2, <3>4 DEF Right
  <2> QED BY <2>3, <2>4, <2>5
<1> QED BY <1>1, <1>2

(* Each operand of an opcode is parsed to what it means, or it means       *)
(* nothing.                                                                *)
LEMMA OperandParses ==
  ASSUME NEW kind \in Kinds, NEW tok \in Tokens, NEW known, Numbering(known),
         NEW a \in BOOLEAN, a \/ Complete(known)
  PROVE  Right(operand(ShapeKind(kind), tok, known, a), kind, tok, a)
<1>1. CASE kind = "reg"
  <2>1. operand(ShapeKind(kind), tok, known, a) = reg(tok)
    BY <1>1 DEF operand, ShapeKind
  <2> QED BY <1>1, <2>1, RegParses
<1>2. CASE kind = "u16"
  <2>1. operand(ShapeKind(kind), tok, known, a) = num(tok, 1)
    BY <1>2 DEF operand, ShapeKind, num_u16
  <2> QED BY <1>2, <2>1, U16Parses
<1>3. CASE kind = "u64"
  <2>1. operand(ShapeKind(kind), tok, known, a) = num(tok, 4)
    BY <1>3 DEF operand, ShapeKind, num_u64
  <2> QED BY <1>3, <2>1, U64Parses
<1>4. CASE kind = "u32"
  <2>1. operand(ShapeKind(kind), tok, known, a) = target(tok, known, a)
    BY <1>4 DEF operand, ShapeKind
  <2> QED BY <1>4, <2>1, TargetParses
<1> QED BY <1>1, <1>2, <1>3, <1>4 DEF Kinds

(***************************************************************************)
(* parse_instr                                                             *)
(***************************************************************************)
(* The operands of a line, each parsed as its shape says *)
Parsed(line, known, a) ==
    [i \in DOMAIN Shape(line.op) |->
        operand(Shape(line.op)[i], line.ops[i], known, a)]

Values(line, known, a) ==
    [i \in DOMAIN Shape(line.op) |-> Parsed(line, known, a)[i].val]

LEMMA ParseCases ==
  ASSUME NEW line, NEW known, NEW a
  PROVE  LET bad == {i \in DOMAIN Shape(line.op) :
                        Parsed(line, known, a)[i].err # "none"}
         IN  parse_instr(line, known, a) =
                IF Shapes(line.op) = {} THEN Bad("UnknownMnemonic")
                ELSE IF Len(line.ops) # Len(Shape(line.op))
                THEN Bad("WrongOperands")
                ELSE IF bad # {} THEN Parsed(line, known, a)[Min(bad)]
                ELSE Good([op |-> line.op, args |-> Values(line, known, a)])
BY DEF parse_instr, Shapes, Shape, Parsed, Values, triple

(* What WellFormed asks of an instruction *)
LineOk(line) ==
    /\ line.op \in OpCode
    /\ Len(line.ops) = Len(Operands(line.op))
    /\ \A j \in DOMAIN line.ops : Meaning(Operands(line.op)[j], line.ops[j]) # {}

(* args are operands for the line, and those it names when every label is  *)
(* known.                                                                  *)
Faithful(args, line, a) ==
    /\ line.op \in OpCode /\ Len(line.ops) = Len(Operands(line.op))
    /\ Fitting(line.op, args)
    /\ ~a => \A j \in DOMAIN Operands(line.op) :
                args[j] \in Meaning(Operands(line.op)[j], line.ops[j])

(* A line parses to operands that mean what it says, or it is not ok. *)
LEMMA LineParses ==
  ASSUME NEW line \in SourceLines, line.kind = "instr", NEW known, Numbering(known),
         NEW a \in BOOLEAN, a \/ Complete(known)
  PROVE  /\ parse_instr(line, known, a).err = "none" =>
                \E args : /\ parse_instr(line, known, a).val =
                                [op |-> line.op, args |-> args]
                          /\ Faithful(args, line, a)
         /\ parse_instr(line, known, a).err # "none" =>
                ~LineOk(line) /\ parse_instr(line, known, a).err # "ok"
<1> DEFINE p == parse_instr(line, known, a)
           P == Parsed(line, known, a)
           bad == {i \in DOMAIN Shape(line.op) : P[i].err # "none"}
<1>1. p = IF Shapes(line.op) = {} THEN Bad("UnknownMnemonic")
          ELSE IF Len(line.ops) # Len(Shape(line.op)) THEN Bad("WrongOperands")
          ELSE IF bad # {} THEN P[Min(bad)]
          ELSE Good([op |-> line.op, args |-> Values(line, known, a)])
  BY ParseCases
<1>2. /\ Bad("UnknownMnemonic").err \notin {"none", "ok"}
      /\ Bad("WrongOperands").err \notin {"none", "ok"}
  BY DEF Bad
<1> HIDE DEF p, P, bad
<1>3. CASE line.op \notin OpCode
  <2>1. p = Bad("UnknownMnemonic")
    BY <1>1, <1>3, NoShape, Zenon
  <2> QED BY <1>2, <1>3, <2>1 DEF LineOk, p
<1>4. CASE line.op \in OpCode
  <2>1. PICK op \in OpCode : op = line.op
    BY <1>4
  <2>2. Shapes(op) # {} /\ Matches(Shape(op), op)
    BY ShapeOf
  <2>3. PICK n \in Nat : n = Len(Operands(op)) /\ DOMAIN Operands(op) = 1..n
    BY OperandKinds
  <2>4. \A i \in 1..n : Operands(op)[i] \in Kinds
    BY <2>3, OperandKinds
  <2>5. /\ DOMAIN Shape(line.op) = 1..n /\ Len(Shape(line.op)) = n
        /\ \A i \in 1..n : Shape(line.op)[i] = ShapeKind(Operands(op)[i])
    BY <2>1, <2>2, <2>3 DEF Matches
  <2>6. line.ops \in Seq(Tokens)
    BY DEF SourceLines
  <2>7. CASE Len(line.ops) # n
    <3>1. p = Bad("WrongOperands")
      BY <1>1, <2>1, <2>2, <2>5, <2>7, Zenon
    <3> QED BY <1>2, <2>1, <2>3, <2>7, <3>1 DEF LineOk, p
  <2>8. CASE Len(line.ops) = n
    <3>1. ASSUME NEW i \in 1..n
          PROVE  /\ Right(P[i], Operands(op)[i], line.ops[i], a)
      <4>1. PICK kind \in Kinds, tok \in Tokens : kind = Operands(op)[i] /\ tok = line.ops[i]
        BY <2>4, <2>6, <2>8
      <4>2. P[i] = operand(Shape(line.op)[i], line.ops[i], known, a)
        BY <2>5 DEF P, Parsed
      <4>3. P[i] = operand(ShapeKind(kind), tok, known, a)
        BY <2>5, <4>1, <4>2, Zenon
      <4>4. Right(operand(ShapeKind(kind), tok, known, a), kind, tok, a)
        BY OperandParses
      <4> QED BY <4>1, <4>3, <4>4, Zenon
    <3>2. CASE bad # {}
      <4>1. p = P[Min(bad)]
        BY <1>1, <2>1, <2>2, <2>5, <2>8, <3>2, Zenon
      <4>2. bad \subseteq 1..n
        BY <2>5 DEF bad
      <4>3. PICK m \in bad : m = Min(bad)
        <5>1. bad \subseteq Nat
          BY <4>2
        <5>2. Min(bad) \in bad
          BY <3>2, <5>1, MinNat DEF Min
        <5> QED BY <5>2
      <4>4. m \in 1..n /\ P[m].err # "none"
        BY <4>2 DEF bad
      <4>5. p.err # "none"
        BY <4>1, <4>3, <4>4, Zenon
      <4>6. Meaning(Operands(op)[m], line.ops[m]) = {} /\ P[m].err # "ok"
        BY <3>1, <4>4, Zenon DEF Right
      <4>7. m \in DOMAIN line.ops
        BY <2>6, <2>8, <4>4
      <4>8. ~LineOk(line)
        BY <2>1, <4>6, <4>7, Zenon DEF LineOk
      <4>9. p.err # "ok"
        BY <4>1, <4>3, <4>6, Zenon
      <4> QED BY <4>5, <4>8, <4>9 DEF p
    <3>3. CASE bad = {}
      <4> DEFINE args == Values(line, known, a)
      <4>1. p = Good([op |-> line.op, args |-> args])
        BY <1>1, <2>1, <2>2, <2>5, <2>8, <3>3, Zenon
      <4>2. args = [i \in 1..n |-> P[i].val]
        BY <2>5 DEF Values, P
      <4> HIDE DEF args
      <4>3. p.err = "none" /\ p.val = [op |-> line.op, args |-> args]
        BY <4>1, GoodIs, Zenon
      <4>4. ASSUME NEW i \in 1..n
            PROVE  /\ args[i] \in Operand(Operands(op)[i])
                   /\ ~a => args[i] \in Meaning(Operands(op)[i], line.ops[i])
        <5>1. P[i].err = "none"
          BY <2>5, <3>3 DEF bad
        <5>2. args[i] = P[i].val
          BY <4>2
        <5> QED BY <3>1, <5>1, <5>2, Zenon DEF Right
      <4>5. args = [i \in 1..n |-> args[i]]
        BY <4>2
      <4>6. Fitting(op, args)
        BY <2>3, <4>4, <4>5 DEF Fitting
      <4>7. Faithful(args, line, a)
        BY <2>1, <2>3, <2>8, <4>4, <4>6 DEF Faithful
      <4> QED BY <4>3, <4>7 DEF p
    <3> QED BY <3>2, <3>3
  <2> QED BY <2>7, <2>8
<1> QED BY <1>3, <1>4

(* The bytes of an instruction that parses are those of its line. *)
LEMMA LineBytes ==
  ASSUME NEW line, line.kind = "instr", NEW a, NEW args, Faithful(args, line, a)
  PROVE  /\ encode([op |-> line.op, args |-> args]) \in Seq(Byte)
         /\ Len(encode([op |-> line.op, args |-> args])) = Bytes(line)
<1>1. PICK op \in OpCode : op = line.op /\ Fitting(op, args)
  BY DEF Faithful
<1>2. PICK n, f : LaidOut(op, n, f)
  BY Layout
<1>3. Encoding(encode([op |-> op, args |-> args]), op, args, n, f)
  BY <1>1, <1>2, EncodingIs
<1>4. n \in Nat /\ n = Len(Operands(op)) /\ OperandAt(op, n + 1) = 1 + f[(n + 1) - 1]
      /\ (n + 1) - 1 = n
  BY <1>2 DEF LaidOut
<1>5. Bytes(line) = 1 + f[n]
  BY <1>1, <1>4 DEF Bytes
<1> QED BY <1>1, <1>3, <1>5 DEF Encoding

LEMMA BytesAreNat == ASSUME NEW line PROVE Bytes(line) \in Nat
<1>1. CASE line.kind = "label"
  BY <1>1 DEF Bytes
<1>2. CASE line.kind # "label"
  <2>1. PICK n, f : LaidOut(line.op, n, f)
    BY Layout
  <2>2. n \in Nat /\ n = Len(Operands(line.op))
        /\ OperandAt(line.op, n + 1) = 1 + f[(n + 1) - 1]
        /\ (n + 1) - 1 = n /\ f[n] \in Nat
    BY <2>1 DEF LaidOut
  <2>3. Bytes(line) = 1 + f[n]
    BY <1>2, <2>2 DEF Bytes
  <2> QED BY <2>2, <2>3
<1> QED BY <1>1, <1>2

(***************************************************************************)
(* Offsets                                                                 *)
(***************************************************************************)
(* Before is a running sum of the bytes of the lines. *)
LEMMA Offsets ==
  ASSUME NEW N \in Nat, lines \in Seq(SourceLines), N = Len(lines)
  PROVE  /\ \A i \in 1..(N + 1) : Before(i) \in Nat
         /\ Before(1) = 0
         /\ \A i \in 1..N : Before(i + 1) = Before(i) + Bytes(lines[i])
         /\ \A i \in 1..(N + 1) : \A j \in i..(N + 1) : Before(i) <= Before(j)
<1> DEFINE w == [j \in DOMAIN lines |-> Bytes(lines[j])]
           f == [i \in 0..N |-> SumOfFirst(w, i)]
<1>1. DOMAIN lines = 1..N
  OBVIOUS
<1>2. Nats(w, N) /\ \A i \in 1..N : w[i] = Bytes(lines[i])
  BY <1>1, BytesAreNat DEF Nats
<1>3. \A i : Before(i) = SumOfFirst(w, i - 1)
  BY DEF Before
<1> HIDE DEF w
<1>4. PartialSums(f, N, w)
  BY <1>2, FirstSums
<1>5. ASSUME NEW i \in 1..(N + 1) PROVE Before(i) = f[i - 1] /\ i - 1 \in 0..N
  <2>1. i - 1 \in 0..N
    OBVIOUS
  <2>2. f[i - 1] = SumOfFirst(w, i - 1)
    BY <2>1
  <2> QED BY <1>3, <2>1, <2>2
<1> HIDE DEF f
<1>6. \A i \in 1..(N + 1) : Before(i) \in Nat
  BY <1>4, <1>5 DEF PartialSums
<1>7. Before(1) = 0
  <2>1. 1 \in 1..(N + 1) /\ 1 - 1 = 0
    OBVIOUS
  <2> QED BY <1>4, <1>5, <2>1 DEF PartialSums
<1>8. ASSUME NEW i \in 1..N PROVE Before(i + 1) = Before(i) + Bytes(lines[i])
  <2>1. i \in 1..(N + 1) /\ i + 1 \in 1..(N + 1) /\ (i + 1) - 1 = i
    OBVIOUS
  <2>2. Before(i) = f[i - 1] /\ Before(i + 1) = f[i]
    BY <1>5, <2>1
  <2>3. f[i] = f[i - 1] + w[i]
    BY <1>4 DEF PartialSums
  <2> QED BY <1>2, <2>2, <2>3
<1>9. ASSUME NEW i \in 1..(N + 1), NEW j \in i..(N + 1) PROVE Before(i) <= Before(j)
  <2>1. PICK x \in 0..N, y \in 0..N : x = i - 1 /\ y = j - 1 /\ y \in x..N
    OBVIOUS
  <2>2. f[x] <= f[y]
    BY <1>2, <1>4, <2>1, SumsGrow
  <2>3. j \in 1..(N + 1)
    OBVIOUS
  <2> QED BY <1>5, <2>1, <2>2, <2>3
<1> QED BY <1>6, <1>7, <1>8, <1>9

(***************************************************************************)
(* The invariant                                                           *)
(***************************************************************************)
(* Among the lines before line m no label is defined twice, and the labels *)
(* known are theirs, with the offset of what follows.                      *)
LabelsUpTo(m) ==
    /\ \A nm \in DOMAIN labels :
            \E i \in 1..(m - 1) : LabelAt(i, nm) /\ labels[nm] = Before(i)
    /\ \A nm : \A i \in 1..(m - 1) : LabelAt(i, nm) => nm \in DOMAIN labels
    /\ \A nm : \A i, j \in 1..(m - 1) : LabelAt(i, nm) /\ LabelAt(j, nm) => i = j

(* The first pass is over. *)
Labelled == LabelsUpTo(Len(lines) + 1) /\ offset = Before(Len(lines) + 1)

(* Line i has been encoded in its place. *)
WrittenAt(i) ==
    \E args : /\ Faithful(args, lines[i], FALSE)
              /\ Lies(encode([op |-> lines[i].op, args |-> args]), code, Before(i))

(* The code is what the lines before line m are encoded to. *)
Written(m) ==
    Len(code) = Before(m) /\ \A i \in Instrs : i < m => WrittenAt(i)

AsmTypes ==
    /\ lines \in Seq(SourceLines) /\ no \in 1..(Len(lines) + 1)
    /\ pass \in {0, 1, 2, 3}
    /\ Numbering(labels) /\ offset \in 0..U32_MAX /\ code \in Seq(Byte)

AsmInv ==
    /\ AsmTypes
    /\ pass # 3 => result = "none"
    /\ pass = 1 => LabelsUpTo(no) /\ offset = Before(no) /\ code = <<>>
    /\ pass = 2 => Labelled /\ Written(no)
    /\ pass = 3 => IF result = "ok" THEN Labelled /\ Written(Len(lines) + 1)
                   ELSE ~WellFormed

(* What depends on the source only stays as it is. *)
LEMMA SourceStays ==
  ASSUME lines' = lines
  PROVE  /\ \A i : Before(i)' = Before(i)
         /\ \A i, nm : LabelAt(i, nm)' <=> LabelAt(i, nm)
         /\ \A kind, tok : Meaning(kind, tok)' = Meaning(kind, tok)
         /\ Instrs' = Instrs
         /\ WellFormed' <=> WellFormed
<1>1. \A i : Before(i)' = Before(i)
  BY DEF Before
<1>2. \A i, nm : LabelAt(i, nm)' <=> LabelAt(i, nm)
  BY DEF LabelAt
<1>3. \A kind, tok : Meaning(kind, tok)' = Meaning(kind, tok)
  BY <1>1 DEF Meaning
<1>4. Instrs' = Instrs
  BY DEF Instrs
<1>5. WellFormed' <=> WellFormed
  BY <1>1, <1>3, <1>4 DEF WellFormed
<1> QED BY <1>1, <1>2, <1>3, <1>4, <1>5

LEMMA AsmInit == Init => AsmInv
<1> SUFFICES ASSUME Init PROVE AsmInv
  OBVIOUS
<1>1. lines \in Seq(SourceLines) /\ Len(lines) \in Nat
  BY SourcesAreLines DEF Init
<1>2. no \in 1..(Len(lines) + 1)
  BY <1>1 DEF Init
<1>3. Numbering(labels) /\ code \in Seq(Byte) /\ offset \in 0..U32_MAX /\ DOMAIN labels = {}
  BY U32Assumption DEF Init, Numbering
<1>4. pass = 1 /\ no = 1 /\ offset = 0 /\ code = <<>> /\ result = "none"
  BY DEF Init
<1>5. offset = Before(no)
  BY <1>1, <1>4, Offsets
<1>6. LabelsUpTo(no)
  BY <1>3, <1>4 DEF LabelsUpTo
<1> QED BY <1>1, <1>2, <1>3, <1>4, <1>5, <1>6 DEF AsmInv, AsmTypes

(* A program that fails is not well formed. *)
LEMMA FailKeeps ==
  ASSUME AsmInv, NEW e, e # "ok", Fail(e), ~WellFormed PROVE AsmInv'
<1>1. /\ result' = e /\ pass' = 3
      /\ lines' = lines /\ no' = no /\ labels' = labels /\ offset' = offset /\ code' = code
  BY DEF Fail
<1>2. AsmTypes'
  BY <1>1 DEF AsmInv, AsmTypes, Numbering
<1>3. ~ WellFormed'
  BY <1>1, SourceStays
<1> QED BY <1>1, <1>2, <1>3 DEF AsmInv

(* A line that is not past the end, and the bytes up to and with it *)
LEMMA LineAt ==
  ASSUME AsmInv, no <= Len(lines)
  PROVE  /\ lines \in Seq(SourceLines) /\ Len(lines) \in Nat
         /\ no \in 1..Len(lines) /\ no + 1 \in 1..(Len(lines) + 1)
         /\ no \in DOMAIN lines /\ lines[no] \in SourceLines
         /\ no \in Nat /\ (no + 1) - 1 = no
         /\ Before(no + 1) = Before(no) + Bytes(lines[no])
         /\ Before(no) \in Nat /\ Before(no + 1) \in Nat
         /\ Before(no + 1) <= Before(Len(lines) + 1)
<1>1. lines \in Seq(SourceLines) /\ no \in 1..(Len(lines) + 1)
  BY DEF AsmInv, AsmTypes
<1>2. PICK N \in Nat : N = Len(lines)
  BY <1>1
<1>3. no \in 1..N /\ no + 1 \in 1..(N + 1) /\ N + 1 \in (no + 1)..(N + 1) /\ no \in 1..(N + 1)
  BY <1>1, <1>2
<1>4. /\ Before(no + 1) = Before(no) + Bytes(lines[no])
      /\ Before(no) \in Nat /\ Before(no + 1) \in Nat
      /\ Before(no + 1) <= Before(N + 1)
  BY <1>1, <1>2, <1>3, Offsets
<1> QED BY <1>1, <1>2, <1>3, <1>4

LEMMA InstrOk ==
  ASSUME WellFormed, NEW i \in DOMAIN lines, lines[i].kind = "instr"
  PROVE  LineOk(lines[i])
BY DEF WellFormed, Instrs, LineOk

LEMMA LabelKeeps == ASSUME AsmInv, Label PROVE AsmInv'
<1>1. pass = 1 /\ no <= Len(lines) /\ lines[no].kind = "label"
  BY DEF Label, At, IsLabel
<1>2. /\ no \in 1..Len(lines) /\ no + 1 \in 1..(Len(lines) + 1)
      /\ no \in DOMAIN lines /\ Len(lines) \in Nat
      /\ no \in Nat /\ (no + 1) - 1 = no
      /\ Before(no + 1) = Before(no) + Bytes(lines[no]) /\ Before(no) \in Nat
  BY <1>1, LineAt
<1>3. LabelsUpTo(no) /\ offset = Before(no) /\ offset \in 0..U32_MAX /\ Numbering(labels)
  BY <1>1 DEF AsmInv, AsmTypes
<1>4. CASE lines[no].name \in DOMAIN labels
  <2>1. Fail("DuplicateLabel")
    BY <1>4 DEF Label
  <2>2. PICK i \in 1..(no - 1) : LabelAt(i, lines[no].name)
    BY <1>3, <1>4 DEF LabelsUpTo
  <2>3. i # no /\ i \in DOMAIN lines /\ lines[i].kind = "label"
        /\ lines[i].name = lines[no].name
    BY <1>2, <2>2 DEF LabelAt
  <2>4. ~WellFormed
    BY <1>1, <1>2, <2>3 DEF WellFormed
  <2>5. "DuplicateLabel" # "ok"
    OBVIOUS
  <2> QED BY <2>1, <2>4, <2>5, FailKeeps
<1>5. CASE lines[no].name \notin DOMAIN labels
  <2>1. /\ labels' = [n \in DOMAIN labels \cup {lines[no].name} |->
                        IF n = lines[no].name THEN offset ELSE labels[n]]
        /\ no' = no + 1
        /\ UNCHANGED <<lines, pass, offset, code, result>>
    BY <1>5 DEF Label
  <2>2. PICK name : name = lines[no].name
    OBVIOUS
  <2>3. PICK k : /\ k = labels' /\ DOMAIN k = DOMAIN labels \cup {name} /\ k[name] = offset
                 /\ \A nm \in DOMAIN labels : k[nm] = labels[nm]
    BY <1>5, <2>1, <2>2
  <2>4. name \notin DOMAIN labels /\ LabelAt(no, name)
    BY <1>1, <1>2, <1>5, <2>2 DEF LabelAt
  <2>5. Numbering(labels')
    BY <1>3, <2>1 DEF Numbering
  <2>6. offset' = Before(no + 1)
    BY <1>1, <1>2, <1>3, <2>1 DEF Bytes
  <2>7. \A i \in 1..no : i \in 1..(no - 1) \/ i = no
    BY <1>2
  <2>8. no \in 1..no /\ \A i \in 1..(no - 1) : i \in 1..no
    BY <1>2
  <2>9. ASSUME NEW nm \in DOMAIN k
        PROVE  \E i \in 1..no : LabelAt(i, nm) /\ k[nm] = Before(i)
    <3>1. CASE nm = name
      BY <1>3, <2>3, <2>4, <2>8, <3>1
    <3>2. CASE nm \in DOMAIN labels
      <4>1. PICK i \in 1..(no - 1) : LabelAt(i, nm) /\ labels[nm] = Before(i)
        BY <1>3, <3>2 DEF LabelsUpTo
      <4> QED BY <2>3, <2>8, <3>2, <4>1
    <3> QED BY <2>3, <3>1, <3>2
  <2>10. ASSUME NEW nm, NEW i \in 1..no, LabelAt(i, nm) PROVE nm \in DOMAIN k
    <3>1. CASE i = no
      BY <2>2, <2>3, <2>10, <3>1 DEF LabelAt
    <3>2. CASE i \in 1..(no - 1)
      BY <1>3, <2>3, <2>10, <3>2 DEF LabelsUpTo
    <3> QED BY <2>7, <3>1, <3>2
  <2>11. ASSUME NEW nm, NEW i \in 1..no, NEW j \in 1..no, LabelAt(i, nm), LabelAt(j, nm)
         PROVE  i = j
    <3>1. \A x \in 1..(no - 1) : LabelAt(x, nm) => nm # name
      BY <1>3, <2>4 DEF LabelsUpTo
    <3>2. LabelAt(no, nm) => nm = name
      BY <2>2 DEF LabelAt
    <3>3. CASE i \in 1..(no - 1) /\ j \in 1..(no - 1)
      BY <1>3, <2>11, <3>3 DEF LabelsUpTo
    <3> QED BY <2>7, <2>11, <3>1, <3>2, <3>3
  <2>12. LabelsUpTo(no)'
    <3>1. /\ \A nm \in DOMAIN labels' :
                \E i \in 1..(no' - 1) : LabelAt(i, nm)' /\ labels'[nm] = Before(i)'
          /\ \A nm : \A i \in 1..(no' - 1) : LabelAt(i, nm)' => nm \in DOMAIN labels'
          /\ \A nm : \A i, j \in 1..(no' - 1) : LabelAt(i, nm)' /\ LabelAt(j, nm)' => i = j
      <4>1. no' - 1 = no /\ lines' = lines
        BY <1>2, <2>1
      <4>2. /\ \A i : Before(i)' = Before(i)
            /\ \A i, nm : LabelAt(i, nm)' <=> LabelAt(i, nm)
        BY <4>1, SourceStays
      <4>3. \A nm \in DOMAIN labels' :
                \E i \in 1..(no' - 1) : LabelAt(i, nm)' /\ labels'[nm] = Before(i)'
        BY <2>3, <2>9, <4>1, <4>2
      <4>4. \A nm : \A i \in 1..(no' - 1) : LabelAt(i, nm)' => nm \in DOMAIN labels'
        BY <2>3, <2>10, <4>1, <4>2
      <4>5. \A nm : \A i, j \in 1..(no' - 1) : LabelAt(i, nm)' /\ LabelAt(j, nm)' => i = j
        BY <2>11, <4>1, <4>2
      <4> QED BY <4>3, <4>4, <4>5
    <3> QED BY <3>1 DEF LabelsUpTo
  <2>13. AsmTypes'
    BY <1>2, <2>1, <2>5 DEF AsmInv, AsmTypes
  <2>14. pass' = 1 /\ code' = <<>> /\ result' = "none" /\ (offset = Before(no))'
    <3>1. (Before(no))' = Before(no + 1)
      BY <2>1 DEF Before
    <3> QED BY <1>1, <2>1, <2>6, <3>1 DEF AsmInv
  <2> QED BY <2>12, <2>13, <2>14 DEF AsmInv
<1> QED BY <1>4, <1>5

(* The line at hand, parsed *)
LEMMA LineParsed ==
  ASSUME AsmInv, no <= Len(lines), lines[no].kind # "label", NEW a \in BOOLEAN,
         a \/ Complete(labels), NEW p, p = parse_instr(lines[no], labels, a)
  PROVE  /\ p.err # "none" => ~WellFormed /\ p.err # "ok"
         /\ p.err = "none" =>
                /\ encode(p.val) \in Seq(Byte) /\ Len(encode(p.val)) = Bytes(lines[no])
                /\ \E args : /\ p.val = [op |-> lines[no].op, args |-> args]
                             /\ Faithful(args, lines[no], a)
<1>1. no \in DOMAIN lines /\ lines[no] \in SourceLines /\ Numbering(labels)
  BY LineAt DEF AsmInv, AsmTypes
<1>2. lines[no].kind = "instr"
  BY <1>1 DEF SourceLines
<1>3. PICK line, known :
        /\ line \in SourceLines /\ line = lines[no] /\ line.kind = "instr" /\ known = labels /\ Numbering(known)
        /\ a \/ Complete(known)
  BY <1>1, <1>2
<1>4. p = parse_instr(line, known, a)
  BY <1>3
<1>5. /\ p.err = "none" =>
                \E args : /\ p.val = [op |-> line.op, args |-> args]
                          /\ Faithful(args, line, a)
      /\ p.err # "none" => ~LineOk(line) /\ p.err # "ok"
  <2>1. line \in SourceLines /\ line.kind = "instr" /\ Numbering(known) /\ (a \/ Complete(known))
    BY <1>3
  <2>2. /\ parse_instr(line, known, a).err = "none" =>
                \E args : /\ parse_instr(line, known, a).val =
                                [op |-> line.op, args |-> args]
                          /\ Faithful(args, line, a)
        /\ parse_instr(line, known, a).err # "none" =>
                ~LineOk(line) /\ parse_instr(line, known, a).err # "ok"
    BY <2>1, LineParses, Zenon
  <2> QED BY <1>4, <2>2, Zenon
<1>6. ASSUME p.err # "none" PROVE ~WellFormed /\ p.err # "ok"
  <2>1. ~LineOk(lines[no])
    BY <1>3, <1>5, <1>6
  <2>2. ~WellFormed
    BY <1>1, <1>2, <2>1, InstrOk
  <2> QED BY <1>5, <1>6, <2>2
<1>7. ASSUME p.err = "none"
      PROVE  /\ encode(p.val) \in Seq(Byte) /\ Len(encode(p.val)) = Bytes(lines[no])
             /\ \E args : /\ p.val = [op |-> lines[no].op, args |-> args]
                          /\ Faithful(args, lines[no], a)
  <2>1. PICK args : p.val = [op |-> line.op, args |-> args] /\ Faithful(args, line, a)
    BY <1>5, <1>7
  <2>2. /\ encode([op |-> line.op, args |-> args]) \in Seq(Byte)
        /\ Len(encode([op |-> line.op, args |-> args])) = Bytes(line)
    BY <1>3, <2>1, LineBytes
  <2>3. encode(p.val) \in Seq(Byte) /\ Len(encode(p.val)) = Bytes(line)
    BY <2>1, <2>2, Zenon
  <2> QED BY <1>3, <2>1, <2>3, Zenon
<1> QED BY <1>6, <1>7

(* An instruction adds no label. *)
LEMMA NoLabelHere ==
  ASSUME LabelsUpTo(no), no \in Nat, no >= 1, lines[no].kind # "label"
  PROVE  LabelsUpTo(no + 1)
<1>1. (no + 1) - 1 = no /\ \A i \in 1..no : i \in 1..(no - 1) \/ i = no
  OBVIOUS
<1>2. \A i \in 1..(no - 1) : i \in 1..no
  OBVIOUS
<1>3. \A nm : ~LabelAt(no, nm)
  BY DEF LabelAt
<1>4. \A nm \in DOMAIN labels : \E i \in 1..no : LabelAt(i, nm) /\ labels[nm] = Before(i)
  BY <1>2 DEF LabelsUpTo
<1>5. \A nm : \A i \in 1..no : LabelAt(i, nm) => nm \in DOMAIN labels
  BY <1>1, <1>3 DEF LabelsUpTo
<1>6. \A nm : \A i, j \in 1..no : LabelAt(i, nm) /\ LabelAt(j, nm) => i = j
  BY <1>1, <1>3 DEF LabelsUpTo
<1> QED BY <1>1, <1>4, <1>5, <1>6 DEF LabelsUpTo

LEMMA LabelsStay ==
  ASSUME lines' = lines, labels' = labels, NEW m, LabelsUpTo(m)
  PROVE  LabelsUpTo(m)'
<1>1. /\ \A i : Before(i)' = Before(i)
      /\ \A i, nm : LabelAt(i, nm)' <=> LabelAt(i, nm)
  BY SourceStays
<1> QED BY <1>1 DEF LabelsUpTo

LEMMA MeasureKeeps == ASSUME AsmInv, Measure PROVE AsmInv'
<1>1. pass = 1 /\ no <= Len(lines) /\ lines[no].kind # "label"
  BY DEF Measure, At, IsLabel
<1>2. /\ no \in 1..Len(lines) /\ no + 1 \in 1..(Len(lines) + 1) /\ Len(lines) \in Nat
      /\ no \in Nat /\ no >= 1 /\ Before(no + 1) <= Before(Len(lines) + 1)
      /\ Before(no + 1) = Before(no) + Bytes(lines[no]) /\ Before(no + 1) \in Nat
      /\ lines \in Seq(SourceLines)
  BY <1>1, LineAt
<1>3. LabelsUpTo(no) /\ offset = Before(no) /\ offset \in 0..U32_MAX /\ Numbering(labels)
  BY <1>1 DEF AsmInv, AsmTypes
<1>4. PICK p : p = parse_instr(lines[no], labels, TRUE)
  OBVIOUS
<1>5. /\ p.err # "none" => ~WellFormed /\ p.err # "ok"
      /\ p.err = "none" => Len(encode(p.val)) = Bytes(lines[no])
  <2>1. TRUE \in BOOLEAN
    OBVIOUS
  <2> QED BY <1>1, <1>4, <2>1, LineParsed
<1>6. IF p.err # "none" THEN Fail(p.err)
      ELSE IF offset + encoded_len(p.val) > U32_MAX THEN Fail("ProgramTooLarge")
      ELSE /\ offset' = offset + encoded_len(p.val)
           /\ no' = no + 1
           /\ UNCHANGED <<lines, pass, labels, code, result>>
  BY <1>4 DEF Measure
<1>7. CASE p.err # "none"
  <2>1. Fail(p.err)
    BY <1>6, <1>7
  <2> QED BY <1>5, <1>7, <2>1, FailKeeps
<1>8. CASE p.err = "none"
  <2>1. offset + encoded_len(p.val) = Before(no + 1)
    BY <1>2, <1>3, <1>5, <1>8 DEF encoded_len
  <2>2. CASE Before(no + 1) > U32_MAX
    <3>1. Fail("ProgramTooLarge") /\ "ProgramTooLarge" # "ok"
      BY <1>6, <1>8, <2>1, <2>2
    <3>2. PICK N \in Nat : N = Len(lines)
      BY <1>2
    <3>3. Before(N + 1) \in Nat
      <4>1. N + 1 \in 1..(N + 1)
        OBVIOUS
      <4> QED BY <1>2, <3>2, <4>1, Offsets
    <3>4. Before(no + 1) <= Before(N + 1) /\ U32_MAX \in Nat
      BY <1>2, <3>2, U32Assumption
    <3>5. ~ (Before(N + 1) <= U32_MAX)
      BY <1>2, <2>2, <3>3, <3>4
    <3>6. ~ WellFormed
      BY <3>2, <3>5 DEF WellFormed
    <3> QED BY <3>1, <3>6, FailKeeps
  <2>3. CASE ~ (Before(no + 1) > U32_MAX)
    <3>1. /\ offset' = Before(no + 1) /\ no' = no + 1
          /\ UNCHANGED <<lines, pass, labels, code, result>>
      BY <1>6, <1>8, <2>1, <2>3
    <3>2. Before(no + 1) \in 0..U32_MAX
      BY <1>2, <2>3, U32Assumption
    <3>3. AsmTypes'
      BY <1>2, <3>1, <3>2 DEF AsmInv, AsmTypes, Numbering
    <3>4. LabelsUpTo(no + 1)
      BY <1>1, <1>2, <1>3, NoLabelHere
    <3>5. LabelsUpTo(no)'
      <4>1. PICK m : m = no + 1
        OBVIOUS
      <4>2. LabelsUpTo(m)'
        BY <3>1, <3>4, <4>1, LabelsStay
      <4> QED BY <3>1, <4>1, <4>2 DEF LabelsUpTo
    <3>6. (offset = Before(no))'
      <4>1. (Before(no))' = Before(no + 1)
        BY <3>1 DEF Before
      <4> QED BY <3>1, <4>1
    <3>7. pass' = 1 /\ code' = <<>> /\ result' = "none"
      BY <1>1, <3>1 DEF AsmInv
    <3> QED BY <3>3, <3>5, <3>6, <3>7 DEF AsmInv
  <2> QED BY <2>2, <2>3
<1> QED BY <1>7, <1>8

LEMMA SecondPassKeeps == ASSUME AsmInv, SecondPass PROVE AsmInv'
<1>1. /\ pass = 1 /\ no > Len(lines) /\ pass' = 2 /\ no' = 1
      /\ UNCHANGED <<lines, labels, offset, code, result>>
  BY DEF SecondPass
<1>2. lines \in Seq(SourceLines) /\ no \in 1..(Len(lines) + 1)
  BY DEF AsmInv, AsmTypes
<1>3. PICK N \in Nat : N = Len(lines)
  BY <1>2
<1>4. no = N + 1 /\ 1 \in 1..(N + 1)
  BY <1>1, <1>2, <1>3
<1>5. LabelsUpTo(N + 1) /\ offset = Before(N + 1) /\ code = <<>> /\ result = "none"
  BY <1>1, <1>4 DEF AsmInv
<1>6. AsmTypes'
  BY <1>1, <1>3, <1>4 DEF AsmInv, AsmTypes, Numbering
<1>7. Labelled'
  <2>1. PICK m : m = N + 1
    OBVIOUS
  <2>2. LabelsUpTo(m)'
    BY <1>1, <1>5, <2>1, LabelsStay
  <2>3. \A i : Before(i)' = Before(i)
    BY <1>1, SourceStays
  <2>4. (offset = Before(Len(lines) + 1))'
    <3>1. (Before(Len(lines) + 1))' = Before(Len(lines) + 1)
      BY <1>1 DEF Before
    <3> QED BY <1>1, <1>3, <1>5, <3>1
  <2>5. LabelsUpTo(Len(lines) + 1)'
    BY <1>1, <1>3, <2>1, <2>2 DEF LabelsUpTo
  <2> QED BY <2>4, <2>5 DEF Labelled
<1>8. Written(no)'
  <2>1. Before(1) = 0
    BY <1>2, <1>3, Offsets
  <2>2. (Before(no))' = Before(1)
    BY <1>1 DEF Before
  <2>3. Len(code') = 0
    BY <1>1, <1>5
  <2>4. ASSUME NEW i \in Instrs' PROVE ~ (i < no')
    <3>1. i \in 1..N
      BY <1>1, <1>2, <1>3 DEF Instrs
    <3> QED BY <1>1, <3>1
  <2> QED BY <2>1, <2>2, <2>3, <2>4 DEF Written
<1>9. result' = "none"
  BY <1>1, <1>5
<1> QED BY <1>1, <1>6, <1>7, <1>8, <1>9 DEF AsmInv

(* Code that grows keeps what was written. *)
LEMMA LiesLonger ==
  ASSUME NEW T, NEW c \in Seq(T), NEW e \in Seq(T)
  PROVE  /\ \A x \in Seq(T) : \A q \in Nat : Lies(x, c, q) => Lies(x, c \o e, q)
         /\ Lies(e, c \o e, Len(c))
<1>1. PICK m \in Nat, k \in Nat : m = Len(c) /\ k = Len(e)
  OBVIOUS
<1>2. PICK d : d = c \o e
  OBVIOUS
<1>3. /\ d \in Seq(T) /\ Len(d) = m + k
      /\ \A i \in 1..m : d[i] = c[i]
      /\ \A i \in 1..k : d[m + i] = e[i]
  BY <1>1, <1>2
<1>4. ASSUME NEW x \in Seq(T), NEW q \in Nat, Lies(x, c, q) PROVE Lies(x, d, q)
  <2>1. PICK l \in Nat : l = Len(x)
    OBVIOUS
  <2>2. q + l <= m /\ \A i \in 1..l : c[q + i] = x[i]
    BY <1>1, <1>4, <2>1 DEF Lies
  <2>3. \A i \in 1..l : q + i \in 1..m
    BY <2>2
  <2>4. \A i \in 1..l : d[q + i] = x[i]
    BY <1>3, <2>2, <2>3
  <2>5. q + l <= Len(d)
    BY <1>3, <2>2
  <2> QED BY <2>1, <2>4, <2>5 DEF Lies
<1>5. Lies(e, d, m)
  BY <1>1, <1>3 DEF Lies
<1> QED BY <1>1, <1>2, <1>4, <1>5

(* After the first pass every label of the source is known. *)
LEMMA LabelledIsComplete ==
  ASSUME AsmInv, Labelled PROVE Complete(labels)
<1>1. PICK N \in Nat : N = Len(lines) /\ DOMAIN lines = 1..N
  BY DEF AsmInv, AsmTypes
<1>2. (Len(lines) + 1) - 1 = N
  BY <1>1
<1> QED BY <1>1, <1>2 DEF Labelled, LabelsUpTo, Complete, LabelAt

LEMMA LabelledStays ==
  ASSUME Labelled, lines' = lines, labels' = labels, offset' = offset
  PROVE  Labelled'
<1>1. PICK m : m = Len(lines) + 1
  OBVIOUS
<1>2. LabelsUpTo(m)' /\ Before(m)' = Before(m)
  BY <1>1, LabelsStay, SourceStays DEF Labelled
<1>3. LabelsUpTo(Len(lines) + 1)'
  BY <1>1, <1>2 DEF LabelsUpTo
<1>4. (Before(Len(lines) + 1))' = Before(Len(lines) + 1)
  BY DEF Before
<1> QED BY <1>3, <1>4 DEF Labelled

LEMMA WrittenStays ==
  ASSUME lines' = lines, code' = code, NEW m, Written(m)
  PROVE  Written(m)'
<1>1. /\ \A i : Before(i)' = Before(i)
      /\ \A kind, tok : Meaning(kind, tok)' = Meaning(kind, tok)
      /\ Instrs' = Instrs
  BY SourceStays
<1>2. ASSUME NEW i, WrittenAt(i) PROVE WrittenAt(i)'
  <2>1. PICK args : /\ Faithful(args, lines[i], FALSE)
                    /\ Lies(encode([op |-> lines[i].op, args |-> args]), code, Before(i))
    BY <1>2 DEF WrittenAt
  <2>2. Faithful(args, lines[i], FALSE)'
    BY <1>1, <2>1 DEF Faithful
  <2>3. Lies(encode([op |-> lines[i].op, args |-> args]), code, Before(i))'
    BY <1>1, <2>1 DEF Lies
  <2> QED BY <2>2, <2>3 DEF WrittenAt
<1> QED BY <1>1, <1>2 DEF Written

(* What the second pass keeps while it moves to the next line *)
LEMMA NextLine ==
  ASSUME AsmInv, pass = 2, no <= Len(lines), no' = no + 1,
         UNCHANGED <<lines, pass, labels, offset, result>>, code' \in Seq(Byte),
         Len(code') = Before(no + 1),
         \A i \in Instrs : i <= no => WrittenAt(i)'
  PROVE  AsmInv'
<1>1. no \in Nat /\ no + 1 \in 1..(Len(lines) + 1) /\ lines \in Seq(SourceLines)
  BY LineAt
<1>2. AsmTypes'
  BY <1>1 DEF AsmInv, AsmTypes, Numbering
<1>3. Labelled'
  BY LabelledStays DEF AsmInv
<1>4. Written(no)'
  <2>1. (Before(no))' = Before(no + 1)
    BY DEF Before
  <2>2. Instrs' = Instrs
    BY SourceStays
  <2>3. \A i \in Instrs : i < no + 1 => i <= no
    BY <1>1 DEF Instrs
  <2> QED BY <2>1, <2>2, <2>3 DEF Written
<1> QED BY <1>2, <1>3, <1>4 DEF AsmInv

LEMMA SkipLabelKeeps == ASSUME AsmInv, SkipLabel PROVE AsmInv'
<1>1. /\ pass = 2 /\ no <= Len(lines) /\ lines[no].kind = "label"
      /\ no' = no + 1 /\ UNCHANGED <<lines, pass, labels, offset, code, result>>
  BY DEF SkipLabel, At, IsLabel
<1>2. code \in Seq(Byte) /\ Written(no)
  BY <1>1 DEF AsmInv, AsmTypes
<1>3. Len(code') = Before(no + 1)
  <2>1. Before(no + 1) = Before(no) + Bytes(lines[no]) /\ Before(no) \in Nat
    BY <1>1, LineAt
  <2>2. Bytes(lines[no]) = 0
    BY <1>1 DEF Bytes
  <2> QED BY <1>1, <1>2, <2>1, <2>2 DEF Written
<1>4. ASSUME NEW i \in Instrs, i <= no PROVE WrittenAt(i)'
  <2>1. i < no
    BY <1>1, <1>4, LineAt DEF Instrs
  <2>2. PICK m : m = no
    OBVIOUS
  <2>3. Written(m)' /\ Instrs' = Instrs
    BY <1>1, <1>2, <2>2, WrittenStays, SourceStays
  <2> QED BY <2>1, <2>2, <2>3 DEF Written
<1> QED BY <1>1, <1>2, <1>3, <1>4, NextLine

LEMMA EncodeKeeps == ASSUME AsmInv, Encode PROVE AsmInv'
<1>1. pass = 2 /\ no <= Len(lines) /\ lines[no].kind # "label"
  BY DEF Encode, At, IsLabel
<1>2. PICK p : p = parse_instr(lines[no], labels, FALSE)
  OBVIOUS
<1>3. IF p.err # "none" THEN Fail(p.err)
      ELSE /\ code' = code \o encode(p.val)
           /\ no' = no + 1
           /\ UNCHANGED <<lines, pass, labels, offset, result>>
  BY <1>2 DEF Encode
<1>4. Complete(labels) /\ Written(no) /\ code \in Seq(Byte)
  BY <1>1, LabelledIsComplete DEF AsmInv, AsmTypes
<1>5. /\ p.err # "none" => ~WellFormed /\ p.err # "ok"
      /\ p.err = "none" =>
            /\ encode(p.val) \in Seq(Byte) /\ Len(encode(p.val)) = Bytes(lines[no])
            /\ \E args : /\ p.val = [op |-> lines[no].op, args |-> args]
                         /\ Faithful(args, lines[no], FALSE)
  <2>1. FALSE \in BOOLEAN
    OBVIOUS
  <2> QED BY <1>1, <1>2, <1>4, <2>1, LineParsed
<1>6. CASE p.err # "none"
  <2>1. Fail(p.err)
    BY <1>3, <1>6
  <2> QED BY <1>5, <1>6, <2>1, FailKeeps
<1>7. CASE p.err = "none"
  <2>1. /\ code' = code \o encode(p.val) /\ no' = no + 1
        /\ lines' = lines /\ UNCHANGED <<lines, pass, labels, offset, result>>
    BY <1>3, <1>7
  <2>2. PICK e \in Seq(Byte) : e = encode(p.val) /\ Len(e) = Bytes(lines[no])
    BY <1>5, <1>7
  <2>3. PICK args : /\ p.val = [op |-> lines[no].op, args |-> args]
                    /\ Faithful(args, lines[no], FALSE)
    BY <1>5, <1>7
  <2>4. PICK c \in Seq(Byte) : c = code
    BY <1>4
  <2>5. /\ \A x \in Seq(Byte) : \A q \in Nat : Lies(x, c, q) => Lies(x, c \o e, q)
        /\ Lies(e, c \o e, Len(c))
        /\ c \o e \in Seq(Byte) /\ Len(c \o e) = Len(c) + Len(e)
    BY LiesLonger, JoinedLength
  <2>6. code' = c \o e
    BY <2>1, <2>2, <2>4
  <2>7. Len(c) = Before(no)
    BY <1>4, <2>4 DEF Written
  <2>8. /\ Before(no + 1) = Before(no) + Bytes(lines[no]) /\ Before(no) \in Nat
        /\ lines \in Seq(SourceLines) /\ Len(lines) \in Nat
        /\ no \in Nat
    BY <1>1, LineAt
  <2>9. Len(code') = Before(no + 1)
    BY <2>2, <2>5, <2>6, <2>7, <2>8
  <2>10. /\ \A i : Before(i)' = Before(i)
         /\ \A kind, tok : Meaning(kind, tok)' = Meaning(kind, tok)
         /\ Instrs' = Instrs
    BY <2>1, SourceStays
  <2>11. ASSUME NEW i, NEW b, Faithful(b, lines[i], FALSE),
                Lies(encode([op |-> lines[i].op, args |-> b]), c \o e, Before(i))
         PROVE  WrittenAt(i)'
    <3>1. Faithful(b, lines[i], FALSE)'
      BY <2>1, <2>10, <2>11 DEF Faithful
    <3>2. Lies(encode([op |-> lines[i].op, args |-> b]), code, Before(i))'
      BY <2>1, <2>6, <2>10, <2>11 DEF Lies
    <3> QED BY <3>1, <3>2 DEF WrittenAt
  <2>12. ASSUME NEW i \in Instrs, i < no PROVE WrittenAt(i)'
    <3>1. PICK b : /\ Faithful(b, lines[i], FALSE)
                   /\ Lies(encode([op |-> lines[i].op, args |-> b]), c, Before(i))
      BY <1>4, <2>4, <2>12 DEF Written, WrittenAt
    <3>2. lines[i].kind = "instr" /\ i \in 1..Len(lines)
      BY <2>8 DEF Instrs
    <3>3. encode([op |-> lines[i].op, args |-> b]) \in Seq(Byte)
      BY <3>1, <3>2, LineBytes
    <3>4. Before(i) \in Nat
      <4>1. PICK N \in Nat : N = Len(lines) /\ i \in 1..(N + 1)
        BY <2>8, <3>2
      <4> QED BY <2>8, <4>1, Offsets
    <3>5. Lies(encode([op |-> lines[i].op, args |-> b]), c \o e, Before(i))
      BY <2>5, <3>1, <3>3, <3>4
    <3> QED BY <2>11, <3>1, <3>5
  <2>13. ASSUME NEW i, i = no PROVE WrittenAt(i)'
    <3>1. Lies(encode([op |-> lines[no].op, args |-> args]), c \o e, Before(no))
      BY <2>2, <2>3, <2>5, <2>7, Zenon
    <3> QED BY <2>3, <2>11, <2>13, <3>1, Zenon
  <2>14. \A i \in Instrs : i <= no => WrittenAt(i)'
    <3>1. \A i \in Instrs : i <= no => i < no \/ i = no
      BY <2>8 DEF Instrs
    <3> QED BY <2>12, <2>13, <3>1
  <2> QED BY <1>1, <2>1, <2>5, <2>6, <2>9, <2>14, NextLine
<1> QED BY <1>6, <1>7

LEMMA FinishKeeps == ASSUME AsmInv, Finish PROVE AsmInv'
<1>1. /\ pass = 2 /\ no > Len(lines) /\ pass' = 3 /\ result' = "ok"
      /\ UNCHANGED <<lines, no, labels, offset, code>>
  BY DEF Finish
<1>2. lines \in Seq(SourceLines) /\ no \in 1..(Len(lines) + 1)
  BY DEF AsmInv, AsmTypes
<1>3. no = Len(lines) + 1
  BY <1>1, <1>2
<1>4. AsmTypes'
  BY <1>1 DEF AsmInv, AsmTypes, Numbering
<1>5. Labelled'
  BY <1>1, LabelledStays DEF AsmInv
<1>6. Written(Len(lines) + 1)'
  <2>1. PICK m : m = Len(lines) + 1
    OBVIOUS
  <2>2. Written(m)
    BY <1>1, <1>3, <2>1 DEF AsmInv
  <2>3. Written(m)'
    BY <1>1, <2>2, WrittenStays
  <2>4. (Len(lines) + 1)' = m
    BY <1>1, <2>1
  <2> QED BY <2>3, <2>4 DEF Written
<1> QED BY <1>1, <1>4, <1>5, <1>6 DEF AsmInv

LEMMA AsmStays == ASSUME AsmInv, UNCHANGED vars PROVE AsmInv'
<1>1. /\ lines' = lines /\ pass' = pass /\ no' = no /\ labels' = labels
      /\ offset' = offset /\ code' = code /\ result' = result
  BY DEF vars
<1>2. AsmTypes' /\ (pass' # 3 => result' = "none")
  BY <1>1 DEF AsmInv, AsmTypes, Numbering
<1>3. PICK m, l : m = no /\ l = Len(lines) + 1
  OBVIOUS
<1>4. (no)' = m /\ (Len(lines) + 1)' = l
  BY <1>1, <1>3
<1>5. ASSUME pass = 1 PROVE (LabelsUpTo(no) /\ offset = Before(no) /\ code = <<>>)'
  <2>1. LabelsUpTo(m) /\ offset = Before(m) /\ code = <<>>
    BY <1>3, <1>5 DEF AsmInv
  <2>2. LabelsUpTo(m)' /\ Before(m)' = Before(m)
    BY <1>1, <2>1, LabelsStay, SourceStays
  <2>3. LabelsUpTo(no)'
    BY <1>4, <2>2 DEF LabelsUpTo
  <2>4. (Before(no))' = Before(m)
    BY <1>1, <1>3 DEF Before
  <2> QED BY <1>1, <2>1, <2>3, <2>4
<1>6. ASSUME pass = 2 PROVE (Labelled /\ Written(no))'
  <2>1. Labelled /\ Written(m)
    BY <1>3, <1>6 DEF AsmInv
  <2>2. Labelled' /\ Written(m)'
    BY <1>1, <2>1, LabelledStays, WrittenStays
  <2> QED BY <1>4, <2>2 DEF Written
<1>7. ASSUME pass = 3, result = "ok" PROVE (Labelled /\ Written(Len(lines) + 1))'
  <2>1. Labelled /\ Written(l)
    BY <1>3, <1>7 DEF AsmInv
  <2>2. Labelled' /\ Written(l)'
    BY <1>1, <2>1, LabelledStays, WrittenStays
  <2> QED BY <1>4, <2>2 DEF Written
<1>8. ASSUME pass = 3, result # "ok" PROVE ~ WellFormed'
  BY <1>1, <1>8, SourceStays DEF AsmInv
<1> QED BY <1>1, <1>2, <1>5, <1>6, <1>7, <1>8 DEF AsmInv

LEMMA AsmStep == AsmInv /\ [Next]_vars => AsmInv'
<1> SUFFICES ASSUME AsmInv, [Next]_vars PROVE AsmInv'
  OBVIOUS
<1>1. CASE Label
  BY <1>1, LabelKeeps
<1>2. CASE Measure
  BY <1>2, MeasureKeeps
<1>3. CASE SecondPass
  BY <1>3, SecondPassKeeps
<1>4. CASE SkipLabel
  BY <1>4, SkipLabelKeeps
<1>5. CASE Encode
  BY <1>5, EncodeKeeps
<1>6. CASE Finish
  BY <1>6, FinishKeeps
<1>7. CASE UNCHANGED vars
  BY <1>7, AsmStays
<1> QED BY <1>1, <1>2, <1>3, <1>4, <1>5, <1>6, <1>7 DEF Next

(* The assembler alone, and with the disassembler beside it *)
LEMMA AsmAlways == (Spec => []AsmInv) /\ (CodeSpec => []AsmInv)
<1>1. RawInit => AsmInv
  <2> SUFFICES ASSUME RawInit PROVE AsmInv
    OBVIOUS
  <2>1. /\ lines = <<>> /\ pass = 0 /\ no = 1 /\ labels = <<>> /\ offset = 0
        /\ code \in Seq(Byte) /\ result = "none"
    BY RawCodesAreBytes DEF RawInit
  <2>2. lines \in Seq(SourceLines) /\ no \in 1..(Len(lines) + 1)
    BY <2>1
  <2>3. Numbering(labels) /\ offset \in 0..U32_MAX
    BY <2>1, U32Assumption DEF Numbering
  <2> QED BY <2>1, <2>2, <2>3 DEF AsmInv, AsmTypes
<1>2. CodeInit => AsmInv
  BY <1>1, AsmInit DEF CodeInit
<1>3. AsmInv /\ [CodeNext]_codevars => AsmInv'
  BY AsmStep DEF CodeNext, Assemble, Disassemble, codevars
<1>4. Spec => []AsmInv
  BY AsmInit, AsmStep, PTL DEF Spec
<1>5. CodeSpec => []AsmInv
  BY <1>2, <1>3, PTL DEF CodeSpec
<1> QED BY <1>4, <1>5

(* The two passes of assemble agree on every offset, for every program,    *)
(* label and jump: the first pass measures a jump whose label it does not  *)
(* know yet as the second pass encodes it.                                 *)
THEOREM PassesAlwaysAgree == (Spec => []PassesAgree) /\ (CodeSpec => []PassesAgree)
<1>1. AsmInv => PassesAgree
  <2> SUFFICES ASSUME AsmInv, pass = 2 PROVE PassesAgree
    BY DEF PassesAgree
  <2>1. lines \in Seq(SourceLines) /\ no \in 1..(Len(lines) + 1)
    BY DEF AsmInv, AsmTypes
  <2>2. Labelled /\ Len(code) = Before(no)
    BY DEF AsmInv, Written
  <2>3. CASE no > Len(lines)
    <3>1. no = Len(lines) + 1
      BY <2>1, <2>3
    <3> QED BY <2>2, <2>3, <3>1 DEF PassesAgree, Labelled
  <2>4. CASE ~ (no > Len(lines))
    <3>1. PICK N \in Nat : N = Len(lines) /\ DOMAIN lines = 1..N
      BY <2>1
    <3>2. no \in 1..N /\ (Len(lines) + 1) - 1 = N
      BY <2>1, <2>4, <3>1
    <3>3. ASSUME IsLabel PROVE labels[lines[no].name] = Len(code)
      <4>1. LabelAt(no, lines[no].name)
        BY <3>1, <3>2, <3>3 DEF LabelAt, IsLabel
      <4>2. lines[no].name \in DOMAIN labels
        BY <2>2, <3>2, <4>1 DEF Labelled, LabelsUpTo
      <4>3. PICK i \in 1..N : /\ LabelAt(i, lines[no].name)
                              /\ labels[lines[no].name] = Before(i)
        BY <2>2, <3>2, <4>2 DEF Labelled, LabelsUpTo
      <4>4. i = no
        BY <2>2, <3>2, <4>1, <4>3 DEF Labelled, LabelsUpTo
      <4> QED BY <2>2, <4>3, <4>4
    <3> QED BY <2>4, <3>3 DEF PassesAgree
  <2> QED BY <2>3, <2>4
<1> QED BY <1>1, AsmAlways, PTL

(* What is assembled was well formed. *)
LEMMA OkIsWellFormed == ASSUME AsmInv, pass = 3, result = "ok" PROVE WellFormed
<1>1. lines \in Seq(SourceLines) /\ offset \in 0..U32_MAX /\ U32_MAX \in Nat
  BY U32Assumption DEF AsmInv, AsmTypes
<1>2. Labelled /\ Written(Len(lines) + 1)
  BY DEF AsmInv
<1>3. PICK N \in Nat : N = Len(lines) /\ DOMAIN lines = 1..N
  BY <1>1
<1>4. (Len(lines) + 1) - 1 = N
  BY <1>3
<1>5. Before(Len(lines) + 1) <= U32_MAX
  BY <1>1, <1>2 DEF Labelled
<1>6. ASSUME NEW i \in DOMAIN lines, NEW j \in DOMAIN lines,
             lines[i].kind = "label", lines[j].kind = "label",
             lines[i].name = lines[j].name
      PROVE  i = j
  <2>1. LabelAt(i, lines[i].name) /\ LabelAt(j, lines[i].name)
    BY <1>6 DEF LabelAt
  <2> QED BY <1>2, <1>3, <1>4, <2>1 DEF Labelled, LabelsUpTo
<1>7. ASSUME NEW i \in Instrs PROVE LineOk(lines[i])
  <2>1. i \in 1..N /\ lines[i].kind = "instr" /\ i < N + 1
    BY <1>3 DEF Instrs
  <2>2. PICK args : Faithful(args, lines[i], FALSE)
    BY <1>2, <1>3, <2>1 DEF Written, WrittenAt
  <2>3. /\ lines[i].op \in OpCode /\ Len(lines[i].ops) = Len(Operands(lines[i].op))
        /\ \A j \in DOMAIN Operands(lines[i].op) :
                args[j] \in Meaning(Operands(lines[i].op)[j], lines[i].ops[j])
    BY <2>2 DEF Faithful
  <2>4. DOMAIN lines[i].ops = DOMAIN Operands(lines[i].op)
    <3>1. lines[i] \in SourceLines
      BY <1>1, <1>3, <2>1
    <3>2. lines[i].ops \in Seq(Tokens)
      BY <2>1, <3>1 DEF SourceLines
    <3>3. Operands(lines[i].op) \in Seq(Kinds)
      BY OperandKinds
    <3> QED BY <2>3, <3>2, <3>3
  <2> QED BY <2>3, <2>4 DEF LineOk
<1> QED BY <1>5, <1>6, <1>7 DEF WellFormed, LineOk

(* assemble succeeds exactly on the well-formed programs: no error is      *)
(* missed, none is made up, for every source and every U32_MAX.            *)
THEOREM AssemblesExactly ==
  (Spec => []AssemblesWellFormed) /\ (CodeSpec => []AssemblesWellFormed)
<1>1. AsmInv => AssemblesWellFormed
  BY OkIsWellFormed DEF AsmInv, AssemblesWellFormed
<1> QED BY <1>1, AsmAlways, PTL

(* An instruction of an assembled program is read back from its place. *)
LEMMA ReadsLine ==
  ASSUME AsmInv, pass = 3, result = "ok", NEW i \in Instrs
  PROVE  /\ decode(code, Before(i)).err = "none"
         /\ decode(code, Before(i)).len = Bytes(lines[i])
         /\ decode(code, Before(i)).instr.op = lines[i].op
         /\ \A j \in DOMAIN lines[i].ops :
                decode(code, Before(i)).instr.args[j] \in
                    Meaning(Operands(lines[i].op)[j], lines[i].ops[j])
<1>1. lines \in Seq(SourceLines) /\ code \in Seq(Byte) /\ Written(Len(lines) + 1)
  BY DEF AsmInv, AsmTypes
<1>2. PICK N \in Nat : N = Len(lines) /\ DOMAIN lines = 1..N
  BY <1>1
<1>3. i \in 1..N /\ i \in 1..(N + 1) /\ i < N + 1 /\ lines[i].kind = "instr"
      /\ lines[i] \in SourceLines
  BY <1>1, <1>2 DEF Instrs
<1>4. PICK args : /\ Faithful(args, lines[i], FALSE)
                  /\ Lies(encode([op |-> lines[i].op, args |-> args]), code, Before(i))
  BY <1>1, <1>2, <1>3 DEF Written, WrittenAt
<1>5. PICK c \in Seq(Byte), q \in Nat : c = code /\ q = Before(i)
  BY <1>1, <1>2, <1>3, Offsets
<1>6. PICK op, e : /\ op \in OpCode /\ op = lines[i].op /\ Fitting(op, args)
                   /\ e = encode([op |-> op, args |-> args])
                   /\ Lies(e, c, q)
  BY <1>4, <1>5 DEF Faithful
<1>7. /\ decode(c, q).err = "none" /\ decode(c, q).len = Len(e)
      /\ decode(c, q).instr = [op |-> op, args |-> args]
  BY <1>6, EncodeDecodes
<1>8. Len(e) = Bytes(lines[i])
  BY <1>3, <1>4, <1>6, LineBytes
<1>9. decode(c, q).instr.op = op /\ decode(c, q).instr.args = args
  BY <1>7
<1>10. ASSUME NEW j \in DOMAIN lines[i].ops
       PROVE  args[j] \in Meaning(Operands(lines[i].op)[j], lines[i].ops[j])
  <2>1. Len(lines[i].ops) = Len(Operands(lines[i].op))
        /\ \A x \in DOMAIN Operands(lines[i].op) :
                args[x] \in Meaning(Operands(lines[i].op)[x], lines[i].ops[x])
    BY <1>4 DEF Faithful
  <2>2. lines[i].ops \in Seq(Tokens) /\ Operands(lines[i].op) \in Seq(Kinds)
    BY <1>3, OperandKinds DEF SourceLines
  <2>3. DOMAIN lines[i].ops = DOMAIN Operands(lines[i].op)
    BY <2>1, <2>2
  <2> QED BY <2>1, <2>3
<1> QED BY <1>5, <1>6, <1>7, <1>8, <1>9, <1>10, Zenon

(* The code that assemble returns means what was written: every line       *)
(* decodes, at the offset that the lines before it take, to its opcode and *)
(* its operands, and a label is the offset of what follows it.             *)
THEOREM CodeAlwaysMeansSource ==
  (Spec => []CodeMeansSource) /\ (CodeSpec => []CodeMeansSource)
<1>1. AsmInv => CodeMeansSource
  <2> SUFFICES ASSUME AsmInv, result = "ok" PROVE CodeMeansSource
    BY DEF CodeMeansSource
  <2>1. pass = 3
    BY DEF AsmInv
  <2>2. Len(code) = Before(Len(lines) + 1)
    BY <2>1 DEF AsmInv, Written
  <2> QED BY <2>1, <2>2, ReadsLine DEF CodeMeansSource
<1> QED BY <1>1, AsmAlways, PTL

(***************************************************************************)
(* Disassembly                                                             *)
(***************************************************************************)
(* A sequence of anything, and one element more *)
LEMMA AppendIs ==
  ASSUME NEW T, NEW s \in Seq(T), NEW x
  PROVE  /\ Append(s, x) \in Seq(T \cup {x}) /\ Len(Append(s, x)) = Len(s) + 1
         /\ \A i \in 1..Len(s) : Append(s, x)[i] = s[i]
         /\ Append(s, x)[Len(s) + 1] = x
<1>1. PICK U : U = T \cup {x}
  OBVIOUS
<1>2. s \in Seq(U) /\ x \in U
  <2>1. PICK n \in Nat : n = Len(s) /\ s \in [1..n -> T]
    OBVIOUS
  <2>2. s \in [1..n -> U]
    BY <1>1, <2>1
  <2> QED BY <1>1, <2>2, FunctionIsSeq
<1>3. /\ Append(s, x) \in Seq(U) /\ Len(Append(s, x)) = Len(s) + 1
      /\ \A i \in 1..Len(s) : Append(s, x)[i] = s[i]
      /\ Append(s, x)[Len(s) + 1] = x
  BY <1>2
<1> QED BY <1>1, <1>3

(* p is a sequence of instructions that encode to bytes. *)
Program(p) ==
    /\ \E T : p \in Seq(T)
    /\ \A i \in DOMAIN p : encode(p[i]) \in Seq(Byte)

LEMMA OneMoreInstr ==
  ASSUME NEW p, Program(p), NEW x, encode(x) \in Seq(Byte)
  PROVE  Program(Append(p, x)) /\ Encoded(Append(p, x)) = Encoded(p) \o encode(x)
<1>1. PICK T : p \in Seq(T)
  BY DEF Program
<1>2. PICK n \in Nat : n = Len(p) /\ DOMAIN p = 1..n
  BY <1>1
<1>3. PICK r : r = Append(p, x)
  OBVIOUS
<1>4. /\ r \in Seq(T \cup {x}) /\ Len(r) = n + 1
      /\ \A i \in 1..n : r[i] = p[i]
      /\ r[n + 1] = x
  BY <1>1, <1>2, <1>3, AppendIs
<1>5. DOMAIN r = 1..(n + 1) /\ \A i \in 1..(n + 1) : i \in 1..n \/ i = n + 1
  BY <1>4
<1>6. \A i \in 1..(n + 1) : encode(r[i]) \in Seq(Byte)
  BY <1>2, <1>4, <1>5 DEF Program
<1> DEFINE s == [i \in DOMAIN p |-> encode(p[i])]
           u == [i \in DOMAIN r |-> encode(r[i])]
<1>7. SeqsOf(s, n, Byte)
  BY <1>2 DEF SeqsOf, Program
<1>8. SeqsOf(u, n + 1, Byte)
  BY <1>5, <1>6 DEF SeqsOf
<1>9. \A i \in 1..n : u[i] = s[i]
  BY <1>2, <1>4, <1>5
<1>10. u[n + 1] = encode(x)
  BY <1>4, <1>5
<1>11. Encoded(p) = FlattenSeq(s) /\ Encoded(r) = FlattenSeq(u)
  BY DEF Encoded
<1> HIDE DEF s, u
<1>12. FlattenSeq(u) = FlattenSeq(s) \o u[n + 1]
  BY <1>7, <1>8, <1>9, FlattenOneMore
<1>13. Program(r)
  BY <1>4, <1>5, <1>6 DEF Program
<1> QED BY <1>3, <1>10, <1>11, <1>12, <1>13, Zenon

(* From a line on, the next bytes are those of an instruction, or there    *)
(* are none.                                                               *)
LEMMA NextInstr ==
  ASSUME lines \in Seq(SourceLines), NEW N \in Nat, N = Len(lines), NEW i \in 1..(N + 1)
  PROVE  Before(i) = Before(N + 1) \/ \E j \in Instrs : Before(j) = Before(i)
<1> DEFINE P(x) == Before(x) = Before(N + 1) \/ \E j \in Instrs : Before(j) = Before(x)
           S == {k \in 0..N : P((N + 1) - k)}
<1>1. DOMAIN lines = 1..N
  OBVIOUS
<1>2. 0 \in S
  <2>1. (N + 1) - 0 = N + 1
    OBVIOUS
  <2>2. P(N + 1)
    OBVIOUS
  <2> HIDE DEF P
  <2> QED BY <2>1, <2>2
<1>3. ASSUME NEW k \in 0..(N - 1), k \in S PROVE k + 1 \in S
  <2>1. PICK x \in 1..N : x = N - k /\ (N + 1) - k = x + 1 /\ (N + 1) - (k + 1) = x
    <3>1. /\ N - k \in 1..N /\ (N + 1) - k = (N - k) + 1
          /\ (N + 1) - (k + 1) = N - k
      OBVIOUS
    <3> QED BY <3>1
  <2>2. P(x + 1)
    <3> HIDE DEF P
    <3> QED BY <1>3, <2>1
  <2>3. CASE lines[x].kind = "label"
    <3>1. Before(x + 1) = Before(x) + Bytes(lines[x]) /\ Before(x) \in Nat
      <4>1. x \in 1..(N + 1)
        OBVIOUS
      <4> QED BY <4>1, Offsets
    <3>2. Bytes(lines[x]) = 0
      BY <2>3 DEF Bytes
    <3>3. Before(x + 1) = Before(x)
      BY <3>1, <3>2
    <3> QED BY <2>1, <2>2, <3>3
  <2>4. CASE lines[x].kind # "label"
    <3>1. x \in Instrs
      <4>1. lines[x] \in SourceLines
        OBVIOUS
      <4> QED BY <1>1, <2>4, <4>1 DEF SourceLines, Instrs
    <3>2. P(x)
      BY <3>1
    <3> HIDE DEF P
    <3> QED BY <2>1, <3>2
  <2> QED BY <2>3, <2>4
<1> HIDE DEF S
<1>4. \A k \in 0..N : k \in S
  BY <1>2, <1>3, UpTo
<1>5. PICK k \in 0..N : (N + 1) - k = i
  <2>1. (N + 1) - i \in 0..N /\ (N + 1) - ((N + 1) - i) = i
    OBVIOUS
  <2> QED BY <2>1
<1>6. P((N + 1) - k)
  <2> HIDE DEF P
  <2> QED BY <1>4 DEF S
<1> QED BY <1>5, <1>6

(* The disassembly stands between two lines of the source. *)
AtALine == \E i \in 1..(Len(lines) + 1) : pc = Before(i)

CodeInv ==
    /\ AsmInv
    /\ pc \in Nat /\ pc <= Len(code)
    /\ Program(out) /\ Encoded(out) = SubSeq(code, 1, pc)
    /\ ~HaveCode => pc = 0 /\ out = <<>>
    /\ result = "ok" => AtALine

LEMMA NothingYet ==
  Program(<<>>) /\ Encoded(<<>>) = <<>> /\ \A c \in Seq(Byte) : SubSeq(c, 1, 0) = <<>>
<1>1. Program(<<>>)
  <2>1. <<>> \in Seq({})
    OBVIOUS
  <2> QED BY <2>1 DEF Program
<1>2. Encoded(<<>>) = <<>>
  <2>1. PICK s : s = [i \in DOMAIN <<>> |-> encode(<<>>[i])]
    OBVIOUS
  <2>2. SeqsOf(s, 0, Byte)
    BY <2>1 DEF SeqsOf
  <2>3. 0 \in Nat
    OBVIOUS
  <2>4. PICK g \in [0..0 -> Seq(Byte)] : Accumulates(g, s, 0) /\ FlattenSeq(s) = g[0]
    BY <2>2, <2>3, FlattenPrefixes
  <2>5. FlattenSeq(s) = <<>>
    BY <2>4 DEF Accumulates
  <2> QED BY <2>1, <2>5 DEF Encoded
<1>3. \A c \in Seq(Byte) : SubSeq(c, 1, 0) = <<>>
  OBVIOUS
<1> QED BY <1>1, <1>2, <1>3

(* What Disassemble finds *)
LEMMA Found ==
  ASSUME CodeInv, NEW d, d = decode(code, pc), d.err = "none"
  PROVE  /\ d.len \in Nat \ {0} /\ pc + d.len <= Len(code)
         /\ encode(d.instr) = SubSeq(code, pc + 1, pc + d.len)
         /\ encode(d.instr) \in Seq(Byte) /\ Len(encode(d.instr)) = d.len
         /\ decode(SubSeq(code, 1, pc + d.len), pc) = d
         /\ \A n \in pc..(pc + d.len - 1) : decode(SubSeq(code, 1, n), pc) = Truncated
<1>1. PICK c \in Seq(Byte), q \in Nat : c = code /\ q = pc
  BY DEF CodeInv, AsmInv, AsmTypes
<1>2. d = decode(c, q)
  BY <1>1
<1>3. decode(c, q).err = "none"
  BY <1>2
<1>4. PICK op, n, f : Here(c, q, op, n, f)
  BY <1>3, DecodeFinds
<1>5. PICK b \in Nat : b = f[n] /\ q + 1 + b <= Len(c)
  BY <1>4 DEF Here, LaidOut
<1>6. /\ decode(c, q) = Answer(c, q, op)
      /\ Answer(c, q, op).len = 1 + f[n]
      /\ Answer(c, q, op).instr = [op |-> op, args |-> OperandsFrom(c, q, op)]
  BY <1>4, DecodeHere
<1>7. /\ encode([op |-> op, args |-> OperandsFrom(c, q, op)]) = Part(c, q, 1 + f[n])
      /\ Len(encode([op |-> op, args |-> OperandsFrom(c, q, op)])) = 1 + f[n]
  BY <1>4, DecodeEncodes
<1>8. PICK l \in Nat \ {0} : l = 1 + b /\ q + l <= Len(c)
  BY <1>5
<1>9. d.len = l
  BY <1>2, <1>5, <1>6, <1>8, Zenon
<1>10. d.instr = [op |-> op, args |-> OperandsFrom(c, q, op)]
  BY <1>2, <1>6, Zenon
<1>11. encode(d.instr) = Part(c, q, l) /\ Len(encode(d.instr)) = l
  BY <1>5, <1>7, <1>8, <1>10, Zenon
<1>12. Part(c, q, l) \in Seq(Byte)
  BY <1>8, PieceAt
<1>13. decode(Prefix(c, q + (1 + f[n])), q) = decode(c, q)
  BY <1>4, DecodeWhole
<1>14. decode(SubSeq(c, 1, q + l), q) = d
  BY <1>2, <1>5, <1>8, <1>13, Zenon DEF Prefix
<1>15. ASSUME NEW m \in q..(q + l - 1) PROVE decode(SubSeq(c, 1, m), q) = Truncated
  <2>1. m \in q..(q + f[n])
    BY <1>5, <1>8
  <2>2. decode(Prefix(c, m), q) = Truncated
    BY <1>4, <2>1, DecodeShort
  <2> QED BY <2>2 DEF Prefix
<1>16. encode(d.instr) = SubSeq(c, q + 1, q + l)
  BY <1>11 DEF Part
<1>17. encode(d.instr) \in Seq(Byte)
  BY <1>11, <1>12, Zenon
<1> QED BY <1>1, <1>8, <1>9, <1>11, <1>14, <1>15, <1>16, <1>17

LEMMA CodeInitInv == ASSUME AsmInv, CodeInit PROVE CodeInv
<1>1. pc = 0 /\ out = <<>> /\ result = "none" /\ code \in Seq(Byte)
  BY DEF CodeInit, Init, RawInit, AsmInv, AsmTypes
<1>2. pc \in Nat /\ pc <= Len(code)
  BY <1>1
<1>3. Program(out) /\ Encoded(out) = SubSeq(code, 1, pc)
  BY <1>1, NothingYet
<1> QED BY <1>1, <1>2, <1>3 DEF CodeInv

(* A step of the assembler ends before the disassembly starts. *)
LEMMA AssembleKeeps == ASSUME CodeInv, AsmInv', Assemble PROVE CodeInv'
<1>1. ~HaveCode
  <2>1. pass # 0 /\ pass # 3
    <3>1. Label \/ Measure \/ SecondPass \/ SkipLabel \/ Encode \/ Finish
      BY DEF Assemble, Next
    <3>2. (Label => pass = 1) /\ (Measure => pass = 1) /\ (SecondPass => pass = 1)
      BY DEF Label, Measure, SecondPass, At
    <3>3. (SkipLabel => pass = 2) /\ (Encode => pass = 2) /\ (Finish => pass = 2)
      BY DEF SkipLabel, Encode, Finish, At
    <3>4. pass = 1 \/ pass = 2
      BY <3>1, <3>2, <3>3, Zenon
    <3> QED BY <3>4
  <2>2. result = "none"
    BY <2>1 DEF CodeInv, AsmInv
  <2> QED BY <2>1, <2>2 DEF HaveCode
<1>2. pc' = 0 /\ out' = <<>>
  BY <1>1 DEF CodeInv, Assemble
<1>3. code' \in Seq(Byte) /\ lines' \in Seq(SourceLines)
  BY DEF AsmInv, AsmTypes
<1>4. (pc \in Nat /\ pc <= Len(code))'
  BY <1>2, <1>3
<1>5. (Program(out) /\ Encoded(out) = SubSeq(code, 1, pc))'
  <2>1. Program(out')
    BY <1>2, NothingYet
  <2>2. Encoded(out') = <<>> /\ SubSeq(code', 1, pc') = <<>>
    BY <1>2, <1>3, NothingYet
  <2> QED BY <2>1, <2>2
<1>6. AtALine'
  <2>1. lines \in Seq(SourceLines) /\ lines' = lines
    <3>1. lines' = lines
      BY DEF Assemble, Next, Label, Measure, SecondPass, SkipLabel, Encode, Finish, Fail
    <3> QED BY <3>1 DEF CodeInv, AsmInv, AsmTypes
  <2>2. PICK N \in Nat : N = Len(lines)
    BY <2>1
  <2>3. Before(1) = 0 /\ 1 \in 1..(Len(lines) + 1)
    BY <2>1, <2>2, Offsets
  <2>4. Before(1)' = Before(1)
    BY <2>1, SourceStays
  <2> QED BY <1>2, <2>1, <2>3, <2>4 DEF AtALine
<1> QED BY <1>2, <1>4, <1>5, <1>6 DEF CodeInv

(* In assembled code the disassembly is at an instruction or at the end. *)
LEMMA AtAnInstr ==
  ASSUME CodeInv, result = "ok"
  PROVE  pc = Len(code) \/ \E i \in Instrs : pc = Before(i)
<1>1. lines \in Seq(SourceLines) /\ AtALine /\ pass = 3
  BY DEF CodeInv, AsmInv, AsmTypes
<1>2. Len(code) = Before(Len(lines) + 1)
  BY <1>1 DEF CodeInv, AsmInv, Written
<1>3. PICK N \in Nat : N = Len(lines)
  BY <1>1
<1>4. PICK i \in 1..(N + 1) : pc = Before(i)
  BY <1>1, <1>3 DEF AtALine
<1>5. Before(i) = Before(N + 1) \/ \E j \in Instrs : Before(j) = Before(i)
  BY <1>1, <1>3, NextInstr
<1> QED BY <1>2, <1>3, <1>4, <1>5

LEMMA DisassembleKeeps == ASSUME CodeInv, AsmInv', Disassemble PROVE CodeInv'
<1>1. PICK d : d = decode(code, pc)
  OBVIOUS
<1>2. /\ HaveCode /\ d.err = "none" /\ out' = Append(out, d.instr)
      /\ pc' = pc + d.len /\ UNCHANGED vars
  BY <1>1 DEF Disassemble
<1>3. /\ lines' = lines /\ code' = code /\ result' = result /\ pass' = pass
  BY <1>2 DEF vars
<1>4. /\ d.len \in Nat \ {0} /\ pc + d.len <= Len(code)
      /\ encode(d.instr) = SubSeq(code, pc + 1, pc + d.len)
      /\ encode(d.instr) \in Seq(Byte)
  BY <1>1, <1>2, Found
<1>5. pc \in Nat /\ code \in Seq(Byte) /\ Program(out) /\ Encoded(out) = SubSeq(code, 1, pc)
  BY DEF CodeInv, AsmInv, AsmTypes
<1>6. /\ Program(Append(out, d.instr))
      /\ Encoded(Append(out, d.instr)) = Encoded(out) \o encode(d.instr)
  BY <1>4, <1>5, OneMoreInstr
<1>7. SubSeq(code, 1, pc) \o SubSeq(code, pc + 1, pc + d.len) = SubSeq(code, 1, pc + d.len)
  <2>1. PICK c \in Seq(Byte), q \in Nat, b \in Nat : c = code /\ q = pc /\ b = pc + d.len
    <3>1. pc + d.len \in Nat
      BY <1>4, <1>5
    <3> QED BY <1>5, <3>1, Zenon
  <2>2. q <= b /\ b <= Len(c)
    BY <1>4, <1>5, <2>1
  <2>3. SubSeq(c, 1, q) \o SubSeq(c, q + 1, b) = SubSeq(c, 1, b)
    BY <2>2, SubSeqJoins
  <2> QED BY <2>1, <2>3, Zenon
<1>8. Program(out') /\ Encoded(out') = SubSeq(code', 1, pc')
  <2>1. Program(out')
    BY <1>2, <1>6, Zenon
  <2>2. Encoded(out') = SubSeq(code, 1, pc + d.len)
    BY <1>2, <1>4, <1>5, <1>6, <1>7, Zenon
  <2> QED BY <1>2, <1>3, <2>1, <2>2, Zenon
<1>9. (pc \in Nat /\ pc <= Len(code))'
  BY <1>2, <1>3, <1>4, <1>5
<1>10. HaveCode'
  BY <1>2, <1>3 DEF HaveCode
<1>11. ASSUME result = "ok" PROVE AtALine'
  <2>1. pc # Len(code)
    BY <1>4, <1>5
  <2>2. PICK i \in Instrs : pc = Before(i)
    BY <1>11, <2>1, AtAnInstr
  <2>3. AsmInv /\ pass = 3
    BY <1>11 DEF CodeInv, AsmInv
  <2>4. d.len = Bytes(lines[i])
    BY <1>1, <1>11, <2>2, <2>3, ReadsLine
  <2>5. lines \in Seq(SourceLines)
    BY DEF CodeInv, AsmInv, AsmTypes
  <2>6. PICK N \in Nat : N = Len(lines)
    BY <2>5
  <2>7. i \in 1..N /\ i + 1 \in 1..(N + 1)
    BY <2>5, <2>6 DEF Instrs
  <2>8. Before(i + 1) = Before(i) + Bytes(lines[i])
    BY <2>5, <2>6, <2>7, Offsets
  <2>9. pc' = Before(i + 1)
    BY <1>2, <2>2, <2>4, <2>8
  <2>10. \A x : Before(x)' = Before(x)
    BY <1>3, SourceStays
  <2> QED BY <1>3, <2>6, <2>7, <2>9, <2>10 DEF AtALine
<1> QED BY <1>3, <1>8, <1>9, <1>10, <1>11 DEF CodeInv

LEMMA CodeStays == ASSUME CodeInv, AsmInv', UNCHANGED codevars PROVE CodeInv'
<1>1. /\ lines' = lines /\ code' = code /\ result' = result /\ pass' = pass
      /\ pc' = pc /\ out' = out
  BY DEF codevars, vars
<1>2. (pc \in Nat /\ pc <= Len(code))'
  BY <1>1 DEF CodeInv
<1>3. Program(out') /\ Encoded(out') = SubSeq(code', 1, pc')
  BY <1>1, Zenon DEF CodeInv
<1>4. HaveCode' <=> HaveCode
  BY <1>1 DEF HaveCode
<1>5. AtALine => AtALine'
  <2>1. \A x : Before(x)' = Before(x)
    BY <1>1, SourceStays
  <2> QED BY <1>1, <2>1 DEF AtALine
<1> QED BY <1>1, <1>2, <1>3, <1>4, <1>5 DEF CodeInv

LEMMA CodeAlways == CodeSpec => []CodeInv
<1>1. AsmInv /\ CodeInit => CodeInv
  BY CodeInitInv
<1>2. CodeInv /\ AsmInv' /\ [CodeNext]_codevars => CodeInv'
  BY AssembleKeeps, DisassembleKeeps, CodeStays DEF CodeNext
<1> QED BY <1>1, <1>2, AsmAlways, PTL DEF CodeSpec

(* decode is canonical: whatever it accepts, raw bytes or assembled code,  *)
(* is byte for byte the encoding of what it returned.                      *)
THEOREM AlwaysCanonical == CodeSpec => []DecodesCanonically
<1>1. CodeInv => DecodesCanonically
  BY DEF CodeInv, DecodesCanonically
<1> QED BY <1>1, CodeAlways, PTL

(* An instruction is decided by its own bytes, no shorter code decodes at  *)
(* its place, and the linear disassembly of assembled code reaches its     *)
(* last byte.                                                              *)
THEOREM AlwaysLocal == CodeSpec => []DecodesLocally
<1>1. CodeInv => DecodesLocally
  <2> SUFFICES ASSUME CodeInv PROVE DecodesLocally
    OBVIOUS
  <2>1. PICK d : d = decode(code, pc)
    OBVIOUS
  <2>2. ASSUME d.err = "none"
        PROVE  /\ decode(SubSeq(code, 1, pc + d.len), pc) = d
               /\ \A n \in pc..(pc + d.len - 1) :
                        decode(SubSeq(code, 1, n), pc) = Truncated
               /\ d.len = encoded_len(d.instr)
    BY <2>1, <2>2, Found DEF encoded_len
  <2>3. ASSUME result = "ok", d.err # "none" PROVE pc = Len(code)
    <3>1. AsmInv /\ pass = 3
      BY <2>3 DEF CodeInv, AsmInv
    <3>2. ASSUME NEW i \in Instrs, pc = Before(i) PROVE FALSE
      <4>1. decode(code, Before(i)).err = "none"
        BY <2>3, <3>1, ReadsLine
      <4> QED BY <2>1, <2>3, <3>2, <4>1
    <3> QED BY <2>3, <3>2, AtAnInstr
  <2> QED BY <2>1, <2>2, <2>3 DEF DecodesLocally
<1> QED BY <1>1, CodeAlways, PTL
=============================================================================
