------------------------------- MODULE Disasm -------------------------------
(***************************************************************************)
(* The assembler and the linear disassembly of what it wrote: the code is  *)
(* decoded from its start, one instruction after the other, as             *)
(* Container::verify and boundaries do it, and so are bytes that no        *)
(* assembler wrote.                                                        *)
(***************************************************************************)
EXTENDS Asm

CONSTANT RawCodes   \* bytes that were not assembled

ASSUME RawCodesAreBytes == RawCodes \subseteq Seq(Byte)

VARIABLES
    pc,
    out         \* the instructions decoded so far

codevars == <<vars, pc, out>>

(* Bytes that were not assembled: no pass is made *)
RawInit ==
    /\ lines = <<>>
    /\ pass = 0 /\ no = 1
    /\ labels = <<>> /\ offset = 0
    /\ code \in RawCodes
    /\ result = "none"

CodeInit ==
    /\ Init \/ RawInit
    /\ pc = 0 /\ out = <<>>

Assemble == Next /\ UNCHANGED <<pc, out>>

HaveCode == pass = 0 \/ result = "ok"

Disassemble ==
    LET d == decode(code, pc) IN
    /\ HaveCode
    /\ d.err = "none"
    /\ out' = Append(out, d.instr)
    /\ pc' = pc + d.len
    /\ UNCHANGED vars

CodeNext == Assemble \/ Disassemble

CodeSpec == CodeInit /\ [][CodeNext]_codevars

Encoded(p) == FlattenSeq([i \in DOMAIN p |-> encode(p[i])])

(* Decoding is canonical: bytes that decode are the encoding of what they  *)
(* decode to, so no two byte strings stand for one instruction.            *)
DecodesCanonically == Encoded(out) = SubSeq(code, 1, pc)

(* An instruction is decided by its own bytes: what follows it does not    *)
(* change it, and no shorter code decodes at the same place (Cursor).      *)
(* Assembled code decodes to its last byte.                                *)
DecodesLocally ==
    LET d == decode(code, pc) IN
    /\ HaveCode /\ d.err = "none" =>
        /\ decode(SubSeq(code, 1, pc + d.len), pc) = d
        /\ \A n \in pc..(pc + d.len - 1) :
                decode(SubSeq(code, 1, n), pc) = Truncated
        /\ d.len = encoded_len(d.instr)
    /\ result = "ok" /\ d.err # "none" => pc = Len(code)
=============================================================================
