------------------------------ MODULE Control ------------------------------
(***************************************************************************)
(* How a container is verified, opened and driven: Container::verify       *)
(* (container.rs), Interpreter::open_entry, boundaries, and the control    *)
(* flow of Interpreter::run and step (interp.rs).                          *)
(*                                                                         *)
(* The code of a container is what decode answers at each of its offsets,  *)
(* in the middle of instructions too: the bytes of one instruction may     *)
(* decode, from a later offset, to other instructions. Registers and       *)
(* memory are left out: a branch goes either way, PUSH pushes any word,    *)
(* and an opcode that depends on data may trap. Module Call models what    *)
(* the opcodes do to storage and effects.                                  *)
(***************************************************************************)
EXTENDS Meter, Integers, Sequences, FiniteSets

CONSTANTS
    Containers,     \* the containers a node may hold
    Undecodable,    \* decode answers an error
    Selectors,
    Genesis,        \* the selector of GENESIS_SIGNATURE
    Limits,         \* meter limits
    StackWord,      \* the words PUSH may push
    STACK_LIMIT,
    U32_MAX,
    MAX_CODE_BYTES, MAX_CONSTS, MAX_ENTRIES, MAX_ACCESS_SLOTS

VARIABLES
    container,
    phase,          \* "deploy", "verify", "deployed", "scan", "run", "done"
    verdict,        \* of verify: "none" yet, "ok" or the error
    starts, targets,    \* of verify
    cursor,         \* where the linear scan of the code stands
    route,          \* how the call was opened
    selector,
    meter_limit, meter_used,
    bounds,         \* of boundaries
    pc, stack,
    status          \* of the call: "none" yet, "halted" or the fault

deployed == <<container, verdict, starts, targets>>
opened == <<route, selector, meter_limit>>
machine == <<pc, stack>>
vars == <<deployed, phase, cursor, opened, meter_used, bounds, machine, status>>

Instr == [op : OpCode, len : Nat \ {0}, arg : Nat]

Entry == [selector : Selectors, offset : Nat, declared : Nat]

(* decode answers at every offset, and never reads past the end. *)
IsContainer(c) ==
    /\ DOMAIN c = {"len", "at", "consts", "entries"}
    /\ c.len \in Nat
    /\ c.at \in [0..(c.len - 1) -> Instr \cup {Undecodable}]
    /\ \A i \in 0..(c.len - 1) :
            c.at[i] # Undecodable => i + c.at[i].len <= c.len
    /\ c.consts \in Nat
    /\ c.entries \in Seq(Entry)

ASSUME ContainersAreTyped == \A c \in Containers : IsContainer(c)
ASSUME UndecodableIsNone == Undecodable \notin Instr
ASSUME GenesisIsASelector == Genesis \in Selectors
ASSUME BoundsAreNaturals ==
    {U32_MAX, STACK_LIMIT, MAX_CODE_BYTES, MAX_CONSTS, MAX_ENTRIES,
     MAX_ACCESS_SLOTS} \subseteq Nat
ASSUME LimitsAreNaturals == Limits \subseteq Nat /\ StackWord \subseteq Nat
(* A container's offsets fit in the u32 of the machine's pc. *)
ASSUME CodeFitsPc == MAX_CODE_BYTES <= U32_MAX

(* decode at an offset, the end of the code included *)
Decoded(at) ==
    IF at < container.len THEN container.at[at] ELSE Undecodable

Init ==
    /\ container \in Containers
    /\ phase = "deploy"
    /\ verdict = "none" /\ starts = {} /\ targets = {}
    /\ cursor = 0
    /\ route = "none" /\ selector = Genesis
    /\ meter_limit = 0 /\ meter_used = 0
    /\ bounds = {}
    /\ pc = 0 /\ stack = <<>>
    /\ status = "none"

(***************************************************************************)
(* Container::verify                                                       *)
(***************************************************************************)
SizeError ==
    IF container.len > MAX_CODE_BYTES THEN "CodeTooLarge"
    ELSE IF container.consts > MAX_CONSTS THEN "ConstsTooLarge"
    ELSE IF Len(container.entries) > MAX_ENTRIES THEN "EntriesTooLarge"
    ELSE "none"

Conclude(v) ==
    /\ verdict' = v
    /\ phase' = "deployed"
    /\ UNCHANGED <<container, starts, targets, cursor, opened, meter_used,
                   bounds, machine, status>>

VerifySizes ==
    /\ phase = "deploy"
    /\ \/ SizeError # "none" /\ Conclude(SizeError)
       \/ /\ SizeError = "none"
          /\ phase' = "verify"
          /\ UNCHANGED <<deployed, cursor, opened, meter_used, bounds,
                         machine, status>>

(* Mutant of BadConstIndex: one index too many. *)
BadConstIndexOffByOne(instr) ==
    instr.op = "Ldc" /\ instr.arg > container.consts

BadConstIndex(instr) == instr.op = "Ldc" /\ instr.arg >= container.consts

TargetsOf(instr) ==
    IF instr.op \in {"Jmp", "Call", "Jz", "Jnz"} THEN {instr.arg} ELSE {}

VerifyInstr ==
    /\ phase = "verify"
    /\ cursor < container.len
    /\ \/ Decoded(cursor) = Undecodable /\ Conclude("UndecodableCode")
       \/ /\ Decoded(cursor) # Undecodable
          /\ BadConstIndex(Decoded(cursor))
          /\ Conclude("ConstIndexOutOfRange")
       \/ /\ Decoded(cursor) # Undecodable
          /\ ~BadConstIndex(Decoded(cursor))
          /\ starts' = starts \cup {cursor}
          /\ targets' = targets \cup TargetsOf(Decoded(cursor))
          /\ cursor' = cursor + Decoded(cursor).len
          /\ UNCHANGED <<container, verdict, phase, opened, meter_used,
                         bounds, machine, status>>

EntryError(i) ==
    LET e == container.entries[i] IN
    IF \E j \in 1..(i - 1) : container.entries[j].selector = e.selector
    THEN "DuplicateSelector"
    ELSE IF e.offset \notin starts THEN "EntryOffsetMisaligned"
    ELSE IF e.declared > MAX_ACCESS_SLOTS THEN "AccessListTooLarge"
    ELSE "none"

VerifyEntries ==
    /\ phase = "verify"
    /\ cursor >= container.len
    /\ \/ ~(targets \subseteq starts) /\ Conclude("MisalignedTarget")
       \/ /\ targets \subseteq starts
          /\ \A i \in DOMAIN container.entries : EntryError(i) = "none"
          /\ Conclude("ok")
       \/ /\ targets \subseteq starts
          /\ \E i \in DOMAIN container.entries :
                /\ EntryError(i) # "none"
                /\ \A j \in 1..(i - 1) : EntryError(j) = "none"
                /\ Conclude(EntryError(i))

(***************************************************************************)
(* Opening a call                                                          *)
(***************************************************************************)
Return(s) ==
    /\ status' = s
    /\ phase' = "done"
    /\ UNCHANGED <<deployed, cursor, bounds, machine>>

Matching(sel) ==
    {i \in DOMAIN container.entries : container.entries[i].selector = sel}

(* The checks of for_entry, for_genesis and open_entry that precede the    *)
(* code scan, in their order; "none" when they pass.                       *)
OpenFault(r, sel, limit) ==
    IF r = "entry" /\ sel = Genesis THEN "UnknownSelector"
    ELSE IF SizeError # "none" THEN "Malformed"
    ELSE IF Matching(sel) = {} THEN "UnknownSelector"
    ELSE IF \E i, j \in Matching(sel) : i # j THEN "Malformed"
    ELSE IF \E i \in Matching(sel) :
                container.entries[i].declared > MAX_ACCESS_SLOTS
    THEN "Malformed"
    ELSE IF dispatch(container.len) > limit THEN "OutOfMeter"
    ELSE "none"

Open(r, sel, limit) ==
    /\ phase = "deployed"
    /\ route' = r /\ selector' = sel /\ meter_limit' = limit
    /\ \/ /\ OpenFault(r, sel, limit) # "none"
          /\ Return(OpenFault(r, sel, limit))
          /\ UNCHANGED meter_used
       \/ /\ OpenFault(r, sel, limit) = "none"
          /\ phase' = "scan"
          /\ cursor' = 0
          /\ \E i \in Matching(sel) : pc' = container.entries[i].offset
          /\ meter_used' = dispatch(container.len)
          /\ UNCHANGED <<deployed, bounds, stack, status>>

(* for_system_program: code of the host binary, run from its start *)
OpenSystem(limit) ==
    /\ phase = "deployed"
    /\ route' = "system" /\ meter_limit' = limit
    /\ phase' = "scan"
    /\ cursor' = 0
    /\ pc' = 0
    /\ UNCHANGED <<deployed, selector, meter_used, bounds, stack, status>>

(* boundaries stops at the end, at an undecodable offset, or past u32. *)
ScanGoesOn == cursor <= U32_MAX /\ Decoded(cursor) # Undecodable

(* Mutant of ScanInstr: every offset is a boundary. *)
ScanEveryOffset ==
    /\ phase = "scan"
    /\ ScanGoesOn
    /\ bounds' = bounds \cup {cursor}
    /\ cursor' = cursor + 1
    /\ UNCHANGED <<deployed, phase, opened, meter_used, machine, status>>

ScanInstr ==
    /\ phase = "scan"
    /\ ScanGoesOn
    /\ bounds' = bounds \cup {cursor}
    /\ cursor' = cursor + Decoded(cursor).len
    /\ UNCHANGED <<deployed, phase, opened, meter_used, machine, status>>

target_ok(target) == target \in bounds

Enter ==
    /\ phase = "scan"
    /\ ~ScanGoesOn
    /\ \/ /\ route = "system" \/ target_ok(pc)
          /\ phase' = "run"
          /\ UNCHANGED <<deployed, cursor, opened, meter_used, bounds,
                         machine, status>>
       \/ /\ route # "system" /\ ~target_ok(pc)
          /\ Return("Malformed")
          /\ UNCHANGED <<opened, meter_used>>

(***************************************************************************)
(* run and step                                                            *)
(***************************************************************************)
Affords(n) == meter_used + n <= meter_limit

Instruction == Decoded(pc)

After == pc + Instruction.len

(* The instruction at pc is decoded, paid for, and followed by an offset   *)
(* that fits in u32: step is called.                                       *)
Steps(ops) ==
    /\ phase = "run"
    /\ Instruction # Undecodable
    /\ Instruction.op \in ops
    /\ Affords(cost[Instruction.op])
    /\ After <= U32_MAX

Faults(fault) == Return(fault) /\ UNCHANGED <<opened, meter_used>>

(* Mutant of Continue: the price of the instruction is not kept. *)
ContinueFree(target, pushed) ==
    /\ pc' = target
    /\ stack' = pushed
    /\ UNCHANGED <<deployed, phase, cursor, opened, meter_used, bounds, status>>

Continue(target, pushed) ==
    /\ pc' = target
    /\ stack' = pushed
    /\ meter_used' = meter_used + cost[Instruction.op]
    /\ UNCHANGED <<deployed, phase, cursor, opened, bounds, status>>

DecodeFault ==
    /\ phase = "run"
    /\ Instruction = Undecodable
    /\ Faults("Decode")

OutOfMeter ==
    /\ phase = "run"
    /\ Instruction # Undecodable
    /\ ~Affords(cost[Instruction.op])
    /\ Faults("OutOfMeter")

PcOverflow ==
    /\ phase = "run"
    /\ Instruction # Undecodable
    /\ Affords(cost[Instruction.op])
    /\ After > U32_MAX
    /\ Faults("BadJump")

Halt ==
    /\ Steps({"Halt"})
    /\ meter_used' = meter_used + cost["Halt"]
    /\ Return("halted")
    /\ UNCHANGED opened

(* The opcodes with control flow, stack or constants of their own *)
ControlOps == FlowOps \cup {"Halt", "Push", "Pop", "Ldc"}

Straight == Steps(OpCode \ ControlOps) /\ Continue(After, stack)

(* The opcodes that succeed on any data *)
TotalOps ==
    BitOps \cup {"Nop", "Mov", "Ldi", "AddW", "SubW", "MulW", "MulHi"}

(* The faults that depend on data: see module Call. *)
Trap ==
    /\ Steps(OpCode \ (ControlOps \cup TotalOps))
    /\ Faults("Trap")

Ldc ==
    /\ Steps({"Ldc"})
    /\ \/ Instruction.arg < container.consts /\ Continue(After, stack)
       \/ Instruction.arg >= container.consts /\ Faults("BadConst")

(* Mutant of Push: the stack has no limit. *)
PushUnbounded(v) == Steps({"Push"}) /\ Continue(After, Append(stack, v))

Push(v) ==
    /\ Steps({"Push"})
    /\ \/ Len(stack) < STACK_LIMIT /\ Continue(After, Append(stack, v))
       \/ Len(stack) >= STACK_LIMIT /\ Faults("StackOverflow")

Top == stack[Len(stack)]

Below == SubSeq(stack, 1, Len(stack) - 1)

Pop ==
    /\ Steps({"Pop"})
    /\ \/ stack # <<>> /\ Continue(After, Below)
       \/ stack = <<>> /\ Faults("StackUnderflow")

Jump ==
    /\ Steps({"Jmp", "Jz", "Jnz"})
    /\ \/ target_ok(Instruction.arg) /\ Continue(Instruction.arg, stack)
       \/ ~target_ok(Instruction.arg) /\ Faults("BadJump")

BranchNotTaken == Steps({"Jz", "Jnz"}) /\ Continue(After, stack)

Call ==
    /\ Steps({"Call"})
    /\ \/ Len(stack) >= STACK_LIMIT /\ Faults("StackOverflow")
       \/ /\ Len(stack) < STACK_LIMIT /\ target_ok(Instruction.arg)
          /\ Continue(Instruction.arg, Append(stack, After))
       \/ /\ Len(stack) < STACK_LIMIT /\ ~target_ok(Instruction.arg)
          /\ Faults("BadJump")

(* Mutant of Ret: the return address is not checked. *)
RetUnchecked ==
    /\ Steps({"Ret"})
    /\ \/ stack = <<>> /\ Faults("StackUnderflow")
       \/ stack # <<>> /\ Continue(Top, Below)

(* The popped word may be one that PUSH left there. *)
Ret ==
    /\ Steps({"Ret"})
    /\ \/ stack = <<>> /\ Faults("StackUnderflow")
       \/ /\ stack # <<>> /\ Top <= U32_MAX /\ target_ok(Top)
          /\ Continue(Top, Below)
       \/ /\ stack # <<>> /\ ~(Top <= U32_MAX /\ target_ok(Top))
          /\ Faults("BadJump")

(***************************************************************************)
(* The specification                                                       *)
(***************************************************************************)
Verify == VerifySizes \/ VerifyInstr \/ VerifyEntries

OpenCall ==
    \E limit \in Limits :
        \/ \E sel \in Selectors : Open("entry", sel, limit)
        \/ Open("genesis", Genesis, limit)
        \/ OpenSystem(limit)

Scan == ScanInstr \/ Enter

Run ==
    \/ DecodeFault \/ OutOfMeter \/ PcOverflow
    \/ Halt \/ Straight \/ Trap \/ Ldc
    \/ \E v \in StackWord : Push(v)
    \/ Pop \/ Jump \/ BranchNotTaken \/ Call \/ Ret

Returned == phase = "done" /\ UNCHANGED vars

Next == Verify \/ OpenCall \/ Scan \/ Run \/ Returned

(* Scanning and running are loops that nothing suspends; when a container  *)
(* is deployed or called is up to the node.                                *)
Spec == Init /\ [][Next]_vars /\ WF_vars(Scan \/ Run)

(***************************************************************************)
(* Properties                                                              *)
(***************************************************************************)
CallFault == {"OutOfMeter", "StackOverflow", "StackUnderflow", "BadJump",
              "BadConst", "UnknownSelector", "Malformed", "Decode", "Trap"}

Verdict == {"none", "ok", "CodeTooLarge", "ConstsTooLarge",
            "EntriesTooLarge", "UndecodableCode", "ConstIndexOutOfRange",
            "MisalignedTarget", "EntryOffsetMisaligned",
            "DuplicateSelector", "AccessListTooLarge"}

(* The state has its type: the stack holds words, at most STACK_LIMIT of   *)
(* them, and the boundaries are offsets of the code.                       *)
TypeOK ==
    /\ IsContainer(container)
    /\ phase \in {"deploy", "verify", "deployed", "scan", "run", "done"}
    /\ verdict \in Verdict
    /\ starts \subseteq Nat /\ targets \subseteq Nat /\ bounds \subseteq Nat
    /\ cursor \in Nat
    /\ route \in {"none", "entry", "genesis", "system"}
    /\ selector \in Selectors
    /\ meter_limit \in Nat /\ meter_used \in Nat
    /\ pc \in Nat
    /\ stack \in Seq(Nat) /\ Len(stack) <= STACK_LIMIT
    /\ status \in {"none", "halted"} \cup CallFault

(* No program, verified or not, executes bytes that are not one of the     *)
(* instructions of the linear scan: not through an entry offset, a jump, a *)
(* call, or a return to a word it pushed itself (boundaries, target_ok).   *)
OnlyScannedCodeRuns ==
    phase = "run" /\ Instruction # Undecodable => pc \in bounds

(* A container that verify accepts keeps its promises when it is called:   *)
(* an entry that it declares opens, no constant is missing, no jump or     *)
(* call misses an instruction (a return still may), and decoding fails     *)
(* only when the program runs off the end of its code.                     *)
VerifiedCodeBehaves ==
    verdict = "ok" /\ route \in {"entry", "genesis"} =>
        /\ status \notin {"Malformed", "BadConst"}
        /\ status = "BadJump" => Instruction.op = "Ret"
        /\ status = "Decode" => pc = container.len

(* verify and boundaries, two loops over the same code, agree on where the *)
(* instructions of an accepted container start.                            *)
VerifierSeesWhatRuns ==
    verdict = "ok" /\ phase = "run" => bounds = starts

(* A call that was admitted returns. *)
Returns == (phase = "scan") ~> (phase = "done")
=============================================================================
