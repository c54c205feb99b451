------------------------------- MODULE Abort -------------------------------
(***************************************************************************)
(* Rejection reasons, crates/qtv-vm/src/abort.rs: the abort codes, the     *)
(* stub that compiled code rejects with, and halting_stubs, which patches  *)
(* the stubs of a program so that running it again halts with the reason   *)
(* in a register.                                                          *)
(*                                                                         *)
(* The specification runs a program and its patched copy side by side,     *)
(* each on a meter of its own with the same limit. A word is its four      *)
(* 16-bit limbs, as in Isa. Programs are made of the opcodes in Modelled;  *)
(* what MLOAD, DIV and RET find in memory, in the registers or on the      *)
(* stack is arbitrary, and the same in both runs. The texts of a rule      *)
(* (name, title, help) are left out.                                       *)
(***************************************************************************)
EXTENDS Isa

CONSTANTS
    Programs,   \* sequences of instructions
    Lines,      \* source lines, as two limbs
    Returns,    \* offsets that a RET may find on the stack
    Computed,   \* words that an opcode may compute
    Limits      \* meter limits of a run

(* The opcodes whose arms Exec has *)
Modelled == {"Halt", "Nop", "Ldi", "Div", "MLoad", "Jmp", "Jz", "Ret"}

ASSUME ProgramsAssumption ==
    \A p \in Programs : \A i \in DOMAIN p : p[i].op \in Modelled
ASSUME LimitsAssumption == Limits \subseteq Nat

(***************************************************************************)
(* Rule                                                                    *)
(***************************************************************************)
(* enum Rule: runs of consecutive codes *)
RuleRuns ==
    (0 :> <<"Unknown", "Guard", "Limits", "Denies", "Invariant", "TooEarly",
        "OrderExpired", "SignatureInvalid", "SignerNotAuthorised",
        "OrderMalformed", "QuorumDuplicate", "QuorumNotMember",
        "ArithmeticOverflow", "ValueOutOfRange", "BalanceTooLow",
        "AssetTooLow", "UnexpectedPayment", "PaymentMismatch",
        "AlreadyInitialised", "DeployParams", "NameInvalid",
        "GuardianSetInvalid", "LegacyRule">>) @@
    (64 :> <<"OutOfMeter", "UnknownEntry", "MemoryOutOfRange",
        "EffectsTooLarge", "UndeclaredState", "UnsupportedScheme",
        "ContractFault", "CryptoFault", "InsufficientFunds", "NoContract",
        "ValueExceedsBalance", "TransferRejected", "DeployRejected",
        "BlockStateLimit", "DivisionByZero", "MintCeiling", "AssetStopped",
        "GenesisCall">>)

ALL == RuleRuns[0] \o RuleRuns[64] \o <<"Unknown">>

Rule == Range(ALL)

code_of(rule) ==
    LET start == CHOOSE s \in DOMAIN RuleRuns : rule \in Range(RuleRuns[s])
    IN  start + (CHOOSE i \in DOMAIN RuleRuns[start] :
                    RuleRuns[start][i] = rule) - 1

from_code(c) ==
    LET i == SelectInSeq(ALL, LAMBDA r : code_of(r) = c)
    IN  IF i = 0 THEN "Unknown" ELSE ALL[i]

(***************************************************************************)
(* Abort codes: the tag, the rule and the line, which is two limbs         *)
(***************************************************************************)
ABORT_TAG == 20820
ABORT_REG == <<0>>
ZERO_REG == <<1>>
Zero == <<0, 0, 0, 0>>

abort_code(rule, line) == <<ABORT_TAG, code_of(rule)>> \o line

(* Results are sets: empty when there is no reason. *)
split_code(word) ==
    IF word[1] # ABORT_TAG THEN {}
    ELSE {<<from_code(word[2]), <<word[3], word[4]>>>>}

(* Mutant of reason_in: the legacy stub is not told apart. *)
reason_inTagged(regs) == split_code(regs[ABORT_REG])

reason_in(regs) ==
    IF regs[ABORT_REG] = Zero THEN {<<"LegacyRule", <<0, 0>>>>}
    ELSE split_code(regs[ABORT_REG])

Ldi(d, imm) == [op |-> "Ldi", args |-> <<d, imm>>]
Div(d, a, b) == [op |-> "Div", args |-> <<d, a, b>>]
Plain(op) == [op |-> op, args |-> <<>>]

abort_stub(word) ==
    <<Ldi(ABORT_REG, word), Ldi(ZERO_REG, Zero),
      Div(ABORT_REG, ABORT_REG, ZERO_REG)>>

(* rule_of_fault *)
rule_of_fault(fault) ==
    CASE fault = "OutOfMeter" -> "OutOfMeter"
      [] fault = "Overflow" -> "ArithmeticOverflow"
      [] fault = "DivByZero" -> "DivisionByZero"
      [] fault \in {"StackOverflow", "StackUnderflow", "BadJump", "BadConst",
                    "Malformed", "Decode"} -> "ContractFault"
      [] fault = "BadMemory" -> "MemoryOutOfRange"
      [] fault = "UnknownSelector" -> "UnknownEntry"
      [] fault = "BadScheme" -> "UnsupportedScheme"
      [] fault = "EffectsTooLarge" -> "EffectsTooLarge"
      [] fault = "UndeclaredSlot" -> "UndeclaredState"
      [] fault = "CryptoFault" -> "CryptoFault"

(***************************************************************************)
(* halting_stubs                                                           *)
(***************************************************************************)
(* The linear disassembly: offset, instruction and length of each, up to   *)
(* the end of the code or to what does not decode                          *)
Listing(code) ==
    LET from[pc \in 0..Len(code)] ==
            LET d == decode(code, pc) IN
            IF d.err # "none" THEN <<>>
            ELSE <<[pc |-> pc, instr |-> d.instr, len |-> d.len]>> \o from[pc + d.len]
    IN  from[0]

Complete(code, list) ==
    \/ code = <<>>
    \/ list # <<>> /\ Last(list).pc + Last(list).len = Len(code)

tagged(instr) ==
    /\ instr.op = "Ldi"
    /\ instr.args[1] = ABORT_REG
    /\ instr.args[2][1] = ABORT_TAG

(* Mutant of stub: the divisor need not have been cleared. *)
stubUncleared(w) ==
    /\ tagged(w[1].instr)
    /\ w[3].instr = Div(ABORT_REG, ABORT_REG, ZERO_REG)

stub(w) ==
    /\ tagged(w[1].instr)
    /\ w[2].instr = Ldi(ZERO_REG, Zero)
    /\ w[3].instr = Div(ABORT_REG, ABORT_REG, ZERO_REG)

legacy(w) ==
    /\ w[2].instr = Ldi(ABORT_REG, Zero)
    /\ w[3].instr = Div(ABORT_REG, ABORT_REG, ABORT_REG)

(* The divisions to patch: the last of each window of three *)
Sites(list) ==
    {list[i + 2] : i \in {j \in 1..(Len(list) - 2) :
        LET w == SubSeq(list, j, j + 2) IN stub(w) \/ legacy(w)}}

(* Mutant of Patch: the stub is cut short instead of padded. *)
PatchUnpadded(len) == encode(Plain("Halt"))

(* Mutant of Patch: the stub is only blanked. *)
PatchBlank(len) == FlattenSeq([i \in 1..len |-> encode(Plain("Nop"))])

(* Halt, and Nop up to the length of the division *)
Patch(len) ==
    encode(Plain("Halt")) \o
        FlattenSeq([i \in 1..(len - 1) |-> encode(Plain("Nop"))])

(* halting_stubs, as a set: none when the code does not decode or holds no *)
(* stub                                                                    *)
halting_stubs(code) ==
    LET list == Listing(code) IN
    IF ~Complete(code, list) \/ Sites(list) = {} THEN {}
    ELSE {FoldSet(LAMBDA site, out :
            SubSeq(out, 1, site.pc) \o Patch(site.len)
                \o SubSeq(out, site.pc + site.len + 1, Len(out)),
            code, Sites(list))}

(***************************************************************************)
(* The two runs                                                            *)
(***************************************************************************)
VARIABLES
    code, patched,  \* the program and its copy
    listing,        \* the instructions of each
    meter_limit,    \* of both runs
    orig, copy,     \* the run of each: pc, regs, meter_used and status
    trail           \* history: offsets the program came to, the last three

vars == <<code, patched, listing, meter_limit, orig, copy, trail>>

Start == [pc |-> 0, regs |-> [r \in {<<n>> : n \in 0..(NUM_REGS - 1)} |-> Zero],
          meter_used |-> 0, status |-> "running"]

Init ==
    /\ \E p \in Programs :
        code = FlattenSeq([i \in DOMAIN p |-> encode(p[i])])
    /\ patched \in halting_stubs(code)
    /\ listing = [code |-> Listing(code), patched |-> Listing(patched)]
    /\ meter_limit \in Limits
    /\ orig = Start /\ copy = Start
    /\ trail = <<>>

(* boundaries *)
Starts(list) == {list[i].pc : i \in DOMAIN list}

Target(limbs) == 65536 * limbs[1] + limbs[2]

(* The arms of step, for a run m that has paid for instruction d. data is  *)
(* what m finds where the model does not look: whether the load or the pop *)
(* succeeds, the word that is computed or loaded, and where a RET goes.    *)
Arm(list, m, d, data) ==
    LET op == d.instr.op
        args == d.instr.args
        next == [m EXCEPT !.pc = @ + d.len]
        Stop(status) == [m EXCEPT !.status = status]
        Jump(t) == IF t \in Starts(list) THEN [m EXCEPT !.pc = t]
                   ELSE Stop("BadJump")
        Set(v) == [next EXCEPT !.regs[args[1]] = v]
    IN  CASE op = "Halt" -> Stop("halted")
          [] op = "Nop" -> next
          [] op = "Ldi" -> Set(args[2])
          [] op = "Div" -> IF m.regs[args[3]] = Zero THEN Stop("DivByZero")
                           ELSE Set(data.word)
          [] op = "MLoad" -> IF data.ok THEN Set(data.word) ELSE Stop("BadMemory")
          [] op = "Jmp" -> Jump(Target(args[1]))
          [] op = "Jz" -> IF m.regs[args[1]] = Zero THEN Jump(Target(args[2]))
                          ELSE next
          [] op = "Ret" -> IF data.ok THEN Jump(data.ret) ELSE Stop("StackUnderflow")

(* One turn of the loop of run: the opcode is charged before its arm runs. *)
Exec(bytes, list, m, data) ==
    LET d == decode(bytes, m.pc)
        spent == m.meter_used + SourceCost[d.instr.op]
    IN  CASE m.status # "running" -> m
          [] d.err # "none" -> [m EXCEPT !.status = "Decode"]
          [] spent > meter_limit -> [m EXCEPT !.status = "OutOfMeter"]
          [] OTHER -> Arm(list, [m EXCEPT !.meter_used = spent], d, data)

Step ==
    /\ orig.status = "running"
    /\ \E data \in [ok : BOOLEAN, word : Computed, ret : Returns] :
        /\ orig' = Exec(code, listing.code, orig, data)
        /\ copy' = Exec(patched, listing.patched, copy, data)
    /\ trail' = Append(IF Len(trail) = 3 THEN Tail(trail) ELSE trail, orig.pc)
    /\ UNCHANGED <<code, patched, listing, meter_limit>>

Next == Step

Spec == Init /\ [][Next]_vars

(***************************************************************************)
(* Properties                                                              *)
(***************************************************************************)
(* Patching keeps the layout: every instruction of the program but the     *)
(* divisions of its stubs is in the copy at its offset, and the copy       *)
(* decodes to its end, so every jump and entry offset of the program still *)
(* lands where it did (halting_stubs).                                     *)
PatchKeepsLayout ==
    /\ Complete(patched, listing.patched)
    /\ Range(listing.code) \ Sites(listing.code) \subseteq Range(listing.patched)

(* The copy does what the program does until it halts in a patched stub:   *)
(* it never runs on from one, and a fault or an end of the program that is *)
(* not at a stub is the copy's too, at the same expense. Only a computed   *)
(* jump that the program faults on may find an instruction start in the    *)
(* copy's padding.                                                         *)
OnlyStubsDiverge ==
    orig.status # "BadJump" =>
        \/ copy = orig
        \/ /\ copy.status = "halted"
           /\ \E site \in Sites(listing.code) : copy.pc = site.pc

(* What is patched always rejects (halting_stubs): a program that comes to *)
(* a patched division from the instruction before it ends there, dividing  *)
(* by zero or, short of the price of the division, out of meter; it never  *)
(* runs on where its copy halts. The HALT in the copy is free, so in the   *)
(* second case the copy names the reason of a rejection that the program   *)
(* had not the meter for. A jump straight to the division is left out: the *)
(* copy halts at it too, and the program may divide and run on.            *)
PatchedAlwaysRejects ==
    LET n == Len(trail) IN
    \A site \in Sites(listing.code) :
        /\ n >= 2
        /\ trail[n] = site.pc
        /\ \E i \in Range(listing.code) :
                i.pc = trail[n - 1] /\ i.pc + i.len = site.pc
        => \/ orig.status = "DivByZero"
           \/ /\ orig.status = "OutOfMeter"
              /\ orig.meter_used + SourceCost["Div"] > meter_limit

(* The instruction of the program at an offset *)
At(pc) == decode(code, pc).instr

(* What the run of the copy tells of a program that faulted *)
Explained ==
    IF copy.status = "halted" THEN reason_in(copy.regs)
    ELSE {<<rule_of_fault(copy.status), <<0, 0>>>>}

(* A rejection is explained: when the program divides by zero in a stub it *)
(* entered at the top, the copy has halted with the very rule and line the *)
(* stub was made for (abort_code, split_code, reason_in), after a legacy   *)
(* stub with the legacy rule, and with any other division by zero the rule *)
(* is that of the fault. A legacy stub that opens the code is such another *)
(* one: no window of three ends in it, and it is not patched.              *)
RejectionExplained ==
    orig.status = "DivByZero" /\ Len(trail) = 3 =>
        LET last == [i \in 1..3 |-> At(trail[i])] IN
        /\ \A rule \in Rule, line \in Lines :
            last = abort_stub(abort_code(rule, line)) =>
                Explained = {<<rule, line>>}
        /\ /\ last[2] = Ldi(ABORT_REG, Zero)
           /\ last[3] = Div(ABORT_REG, ABORT_REG, ABORT_REG)
           /\ trail[2] # 0
           => Explained = {<<"LegacyRule", <<0, 0>>>>}
        /\ trail[3] \notin {site.pc : site \in Sites(listing.code)} =>
                Explained = {<<"DivisionByZero", <<0, 0>>>>}
=============================================================================
