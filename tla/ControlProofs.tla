--------------------------- MODULE ControlProofs ---------------------------
(***************************************************************************)
(* Theorems about module Control, for every container, limit and word that *)
(* a program may push.                                                     *)
(***************************************************************************)
EXTENDS Control, TLAPS

(* A saturated price is a natural number. *)
LEMMA SaturateIsNat ==
    ASSUME NEW n \in Nat
    PROVE  Saturate(n) \in Nat
BY PricesAreNaturals DEF Saturate, Prices

(* Opening an entry costs a natural number, whatever the size of its code. *)
LEMMA DispatchIsNat ==
    ASSUME NEW n \in Nat
    PROVE  dispatch(n) \in Nat
<1>1. n * CODE_SCAN_PER_BYTE \in Nat
  BY PricesAreNaturals DEF Prices
<1>2. DISPATCH + Saturate(n * CODE_SCAN_PER_BYTE) \in Nat
  BY <1>1, SaturateIsNat, PricesAreNaturals DEF Prices
<1> QED BY <1>2, SaturateIsNat DEF dispatch

(***************************************************************************)
(* Decoding                                                                *)
(***************************************************************************)
(* An instruction lies within the code. *)
LEMMA DecodedInstr ==
    ASSUME IsContainer(container), NEW at \in Nat, Decoded(at) # Undecodable
    PROVE  /\ at < container.len
           /\ Decoded(at) \in Instr
           /\ Decoded(at).len \in Nat /\ Decoded(at).len > 0
           /\ Decoded(at).op \in OpCode
           /\ Decoded(at).arg \in Nat
           /\ at + Decoded(at).len <= container.len
<1>1. at < container.len /\ Decoded(at) = container.at[at]
  BY DEF Decoded
<1>2. container.len \in Nat /\ at \in 0..(container.len - 1)
  BY <1>1 DEF IsContainer
<1>3. container.at[at] \in Instr
  BY <1>1, <1>2 DEF IsContainer
<1>4. at + container.at[at].len <= container.len
  BY <1>1, <1>2 DEF IsContainer
<1> QED BY <1>1, <1>3, <1>4 DEF Instr

(* The words that an entry is opened with are natural numbers. *)
LEMMA EntryTypes ==
    ASSUME IsContainer(container), NEW i \in DOMAIN container.entries
    PROVE  /\ container.entries[i].offset \in Nat
           /\ container.entries[i].selector \in Selectors
           /\ container.entries[i].declared \in Nat
           /\ i \in Nat /\ i >= 1
<1>1. container.entries \in Seq(Entry)
  BY DEF IsContainer
<1>2. container.entries[i] \in Entry /\ i \in 1..Len(container.entries)
  BY <1>1
<1> QED BY <1>1, <1>2 DEF Entry

(***************************************************************************)
(* The steps of run, by what they do to pc and to the stack                *)
(***************************************************************************)
(* A fault, with what is known of the instruction that caused it *)
FaultsAt(fault) ==
    /\ Faults(fault)
    /\ fault \in CallFault \ {"Malformed"}
    /\ fault = "Decode" <=> Instruction = Undecodable
    /\ fault = "BadConst" => BadConstIndex(Instruction)
    /\ fault = "BadJump" =>
        \/ After > U32_MAX
        \/ Instruction.op = "Ret"
        \/ /\ TargetsOf(Instruction) = {Instruction.arg}
           /\ ~target_ok(Instruction.arg)

(* The instruction is followed by another one. *)
ContinuesAt(target, pushed) ==
    /\ Instruction # Undecodable
    /\ Continue(target, pushed)
    /\ target \in Nat
    /\ pushed \in Seq(Nat) /\ Len(pushed) <= STACK_LIMIT
    /\ target_ok(target) \/ (target = After /\ After <= U32_MAX)

RunStep ==
    \/ \E fault : FaultsAt(fault)
    \/ /\ Return("halted") /\ UNCHANGED opened
       /\ meter_used' = meter_used + cost["Halt"]
    \/ \E target, pushed : ContinuesAt(target, pushed)

LEMMA RunCases ==
    ASSUME TypeOK, Run
    PROVE  phase = "run" /\ RunStep
<1>1. phase = "run"
  BY DEF Run, DecodeFault, OutOfMeter, PcOverflow, Halt, Straight, Trap, Ldc,
         Push, Pop, Jump, BranchNotTaken, Call, Ret, Steps
<1> SUFFICES RunStep
  BY <1>1
<1>2. stack \in Seq(Nat) /\ Len(stack) \in Nat /\ Len(stack) <= STACK_LIMIT
      /\ STACK_LIMIT \in Nat
  BY BoundsAreNaturals DEF TypeOK
<1>3. Instruction # Undecodable =>
        /\ After \in Nat /\ Instruction.arg \in Nat /\ Instruction.op \in OpCode
  BY DecodedInstr DEF TypeOK, Instruction, After
<1>4. \A ops : Steps(ops) => Instruction # Undecodable /\ After <= U32_MAX
                             /\ Instruction.op \in ops
  BY DEF Steps
<1>5. ASSUME NEW fault \in CallFault \ {"Malformed", "Decode", "BadConst", "BadJump"},
             Faults(fault), Instruction # Undecodable
      PROVE  RunStep
  BY <1>5 DEF RunStep, FaultsAt
<1>6. ASSUME Instruction # Undecodable, After <= U32_MAX, NEW pushed \in Seq(Nat),
             Len(pushed) <= STACK_LIMIT, Continue(After, pushed)
      PROVE  RunStep
  BY <1>3, <1>6 DEF RunStep, ContinuesAt
<1>7. ASSUME Instruction # Undecodable, NEW target \in Nat, target_ok(target),
             NEW pushed \in Seq(Nat),
             Len(pushed) <= STACK_LIMIT, Continue(target, pushed)
      PROVE  RunStep
  BY <1>7 DEF RunStep, ContinuesAt
<1>8. ASSUME Instruction # Undecodable, Faults("BadJump"),
             \/ After > U32_MAX
             \/ Instruction.op = "Ret"
             \/ TargetsOf(Instruction) = {Instruction.arg}
                /\ ~target_ok(Instruction.arg)
      PROVE  RunStep
  BY <1>8 DEF RunStep, FaultsAt, CallFault
<1>9. CASE DecodeFault
  BY <1>9 DEF DecodeFault, CallFault, RunStep, FaultsAt
<1>10. CASE OutOfMeter
  BY <1>5, <1>10 DEF OutOfMeter, CallFault
<1>11. CASE PcOverflow
  BY <1>8, <1>11 DEF PcOverflow
<1>12. CASE Halt
  BY <1>12 DEF Halt, RunStep
<1>13. CASE Straight
  BY <1>2, <1>4, <1>6, <1>13 DEF Straight
<1>14. CASE Trap
  BY <1>4, <1>5, <1>14 DEF Trap, CallFault
<1>15. CASE Ldc
  <2>1. CASE Continue(After, stack)
    BY <1>2, <1>4, <1>6, <1>15, <2>1 DEF Ldc
  <2>2. CASE Instruction.arg >= container.consts /\ Faults("BadConst")
    <3>1. BadConstIndex(Instruction) /\ Instruction # Undecodable
      BY <1>4, <1>15, <2>2 DEF Ldc, BadConstIndex
    <3> QED BY <2>2, <3>1 DEF CallFault, RunStep, FaultsAt
  <2> QED BY <1>15, <2>1, <2>2 DEF Ldc
<1>16. ASSUME NEW v \in StackWord, Push(v) PROVE RunStep
  <2>1. CASE Len(stack) < STACK_LIMIT /\ Continue(After, Append(stack, v))
    <3>1. Append(stack, v) \in Seq(Nat) /\ Len(Append(stack, v)) = Len(stack) + 1
      BY <1>2, LimitsAreNaturals
    <3>2. Len(Append(stack, v)) <= STACK_LIMIT
      BY <1>2, <2>1, <3>1
    <3> QED BY <1>4, <1>6, <1>16, <2>1, <3>1, <3>2 DEF Push
  <2>2. CASE Faults("StackOverflow")
    BY <1>4, <1>5, <1>16, <2>2 DEF Push, CallFault
  <2> QED BY <1>16, <2>1, <2>2 DEF Push
<1>17. stack # <<>> =>
        /\ Below \in Seq(Nat) /\ Len(Below) <= STACK_LIMIT /\ Top \in Nat
  <2> SUFFICES ASSUME stack # <<>>
               PROVE  /\ Below \in Seq(Nat) /\ Len(Below) <= STACK_LIMIT
                      /\ Top \in Nat
    OBVIOUS
  <2>1. Len(stack) > 0
    BY <1>2
  <2>2. Top \in Nat
    BY <1>2, <2>1 DEF Top
  <2>3. \A i \in 1..(Len(stack) - 1) : stack[i] \in Nat
    BY <1>2
  <2>4. Below \in Seq(Nat) /\ Len(Below) = Len(stack) - 1
    <3> DEFINE n == Len(stack) - 1
    <3>1. n \in Nat /\ n <= Len(stack) /\ \A i \in 1..n : stack[i] \in Nat
      BY <1>2, <2>1, <2>3
    <3> HIDE DEF n
    <3>2. SubSeq(stack, 1, n) \in Seq(Nat) /\ Len(SubSeq(stack, 1, n)) = n
      BY <1>2, <3>1
    <3> QED BY <3>2 DEF Below, n
  <2> QED BY <1>2, <2>1, <2>2, <2>4
<1>18. CASE Pop
  BY <1>4, <1>5, <1>6, <1>17, <1>18 DEF Pop, CallFault
<1>19. CASE Jump
  <2>1. Instruction # Undecodable /\ Instruction.op \in {"Jmp", "Jz", "Jnz"}
    BY <1>4, <1>19 DEF Jump
  <2>2. TargetsOf(Instruction) = {Instruction.arg}
    BY <2>1 DEF TargetsOf
  <2> QED BY <1>2, <1>3, <1>7, <1>8, <1>19, <2>1, <2>2 DEF Jump
<1>20. CASE BranchNotTaken
  BY <1>2, <1>4, <1>6, <1>20 DEF BranchNotTaken
<1>21. CASE Call
  <2>1. Instruction # Undecodable /\ Instruction.op = "Call" /\ After \in Nat
    BY <1>3, <1>4, <1>21 DEF Call
  <2>2. TargetsOf(Instruction) = {Instruction.arg}
    BY <2>1 DEF TargetsOf
  <2>3. CASE Faults("StackOverflow")
    BY <1>5, <2>1, <2>3 DEF CallFault
  <2>4. CASE ~target_ok(Instruction.arg) /\ Faults("BadJump")
    BY <1>8, <2>1, <2>2, <2>4
  <2>5. CASE Len(stack) < STACK_LIMIT /\ target_ok(Instruction.arg)
             /\ Continue(Instruction.arg, Append(stack, After))
    <3>1. Append(stack, After) \in Seq(Nat)
          /\ Len(Append(stack, After)) = Len(stack) + 1
      BY <1>2, <2>1
    <3>2. Len(Append(stack, After)) <= STACK_LIMIT
      BY <1>2, <2>5, <3>1
    <3> QED BY <1>3, <1>7, <2>1, <2>5, <3>1, <3>2
  <2> QED BY <1>21, <2>3, <2>4, <2>5 DEF Call
<1>22. CASE Ret
  <2>1. Instruction # Undecodable /\ Instruction.op = "Ret"
    BY <1>4, <1>22 DEF Ret
  <2>2. CASE Faults("StackUnderflow")
    BY <1>5, <2>1, <2>2 DEF CallFault
  <2>3. CASE Faults("BadJump")
    BY <1>8, <2>1, <2>3
  <2>4. CASE stack # <<>> /\ target_ok(Top) /\ Continue(Top, Below)
    BY <1>7, <1>17, <2>1, <2>4
  <2> QED BY <1>22, <2>2, <2>3, <2>4 DEF Ret
<1> QED
  BY <1>9, <1>10, <1>11, <1>12, <1>13, <1>14, <1>15, <1>16, <1>18, <1>19,
     <1>20, <1>21, <1>22 DEF Run

(***************************************************************************)
(* Type correctness                                                        *)
(***************************************************************************)
LEMMA InitIsTyped == Init => TypeOK
<1> SUFFICES ASSUME Init PROVE TypeOK
  OBVIOUS
<1>1. IsContainer(container)
  BY ContainersAreTyped DEF Init
<1>2. stack \in Seq(Nat) /\ Len(stack) <= STACK_LIMIT
  BY BoundsAreNaturals DEF Init
<1> QED BY <1>1, <1>2, GenesisIsASelector DEF Init, TypeOK, Verdict

(* The verdicts of verify *)
LEMMA Verdicts ==
    /\ SizeError \in Verdict
    /\ \A i : EntryError(i) \in Verdict
    /\ {"ok", "UndecodableCode", "ConstIndexOutOfRange", "MisalignedTarget"}
            \subseteq Verdict
BY DEF SizeError, EntryError, Verdict

LEMMA ConcludeKeepsTypes ==
    ASSUME TypeOK, NEW v \in Verdict, Conclude(v)
    PROVE  TypeOK'
BY DEF TypeOK, Conclude, opened, machine

LEMMA VerifyKeepsTypes ==
    ASSUME TypeOK, Verify
    PROVE  TypeOK'
<1>1. CASE VerifySizes
  <2>1. CASE Conclude(SizeError)
    BY <2>1, Verdicts, ConcludeKeepsTypes
  <2>2. CASE phase' = "verify" /\ UNCHANGED <<deployed, cursor, opened,
                meter_used, bounds, machine, status>>
    BY <2>2 DEF TypeOK, deployed, opened, machine
  <2> QED BY <1>1, <2>1, <2>2 DEF VerifySizes
<1>2. CASE VerifyInstr
  <2>1. ASSUME NEW v \in Verdict, Conclude(v) PROVE TypeOK'
    BY <2>1, ConcludeKeepsTypes
  <2>2. CASE /\ Decoded(cursor) # Undecodable
             /\ starts' = starts \cup {cursor}
             /\ targets' = targets \cup TargetsOf(Decoded(cursor))
             /\ cursor' = cursor + Decoded(cursor).len
             /\ UNCHANGED <<container, verdict, phase, opened, meter_used,
                            bounds, machine, status>>
    <3>1. cursor \in Nat /\ IsContainer(container)
      BY DEF TypeOK
    <3>2. Decoded(cursor).len \in Nat /\ Decoded(cursor).arg \in Nat
      BY <2>2, <3>1, DecodedInstr
    <3>3. starts' \subseteq Nat /\ cursor' \in Nat
      BY <2>2, <3>1, <3>2 DEF TypeOK
    <3>4. TargetsOf(Decoded(cursor)) \subseteq Nat
      BY <3>2 DEF TargetsOf
    <3>5. targets' \subseteq Nat
      BY <2>2, <3>4 DEF TypeOK
    <3> QED BY <2>2, <3>3, <3>5 DEF TypeOK, opened, machine
  <2> QED BY <1>2, <2>1, <2>2, Verdicts DEF VerifyInstr
<1>3. CASE VerifyEntries
  BY <1>3, Verdicts, ConcludeKeepsTypes DEF VerifyEntries
<1> QED BY <1>1, <1>2, <1>3 DEF Verify

(* The faults of opening *)
LEMMA OpenFaults ==
    ASSUME NEW r, NEW sel, NEW limit
    PROVE  OpenFault(r, sel, limit) \in
                {"none", "UnknownSelector", "Malformed", "OutOfMeter"}
BY DEF OpenFault

LEMMA OpenKeepsTypes ==
    ASSUME TypeOK, NEW r \in {"entry", "genesis"}, NEW sel \in Selectors,
           NEW limit \in Limits, Open(r, sel, limit)
    PROVE  TypeOK'
<1>1. route' \in {"none", "entry", "genesis", "system"}
      /\ selector' \in Selectors /\ meter_limit' \in Nat
  BY LimitsAreNaturals DEF Open
<1>2. CASE /\ OpenFault(r, sel, limit) # "none"
           /\ Return(OpenFault(r, sel, limit)) /\ UNCHANGED meter_used
  BY <1>1, <1>2, OpenFaults DEF TypeOK, Return, deployed, machine, CallFault
<1>3. CASE /\ phase' = "scan"
           /\ cursor' = 0
           /\ \E i \in Matching(sel) : pc' = container.entries[i].offset
           /\ meter_used' = dispatch(container.len)
           /\ UNCHANGED <<deployed, bounds, stack, status>>
  <2>1. pc' \in Nat
    BY <1>3, EntryTypes DEF Matching, TypeOK
  <2>2. meter_used' \in Nat
    BY <1>3, DispatchIsNat DEF TypeOK, IsContainer
  <2> QED BY <1>1, <1>3, <2>1, <2>2 DEF TypeOK, deployed
<1> QED BY <1>2, <1>3 DEF Open

LEMMA OpenSystemKeepsTypes ==
    ASSUME TypeOK, NEW limit \in Limits, OpenSystem(limit)
    PROVE  TypeOK'
BY LimitsAreNaturals DEF OpenSystem, TypeOK, deployed

LEMMA ScanKeepsTypes ==
    ASSUME TypeOK, Scan
    PROVE  TypeOK'
<1>1. CASE ScanInstr
  <2>1. Decoded(cursor) # Undecodable /\ cursor \in Nat /\ IsContainer(container)
    BY <1>1 DEF ScanInstr, ScanGoesOn, TypeOK
  <2>2. bounds' \subseteq Nat /\ cursor' \in Nat
    BY <1>1, <2>1, DecodedInstr DEF ScanInstr, TypeOK
  <2> QED BY <1>1, <2>2 DEF ScanInstr, TypeOK, deployed, opened, machine
<1>2. CASE Enter
  BY <1>2 DEF Enter, Return, TypeOK, deployed, opened, machine, CallFault
<1> QED BY <1>1, <1>2 DEF Scan

LEMMA RunKeepsTypes ==
    ASSUME TypeOK, Run
    PROVE  TypeOK'
<1>1. ASSUME NEW fault, FaultsAt(fault) PROVE TypeOK'
  BY <1>1 DEF FaultsAt, Faults, Return, TypeOK, deployed, opened, machine
<1>2. CASE Return("halted") /\ UNCHANGED opened
           /\ meter_used' = meter_used + cost["Halt"]
  <2>1. meter_used' \in Nat
    BY <1>2, CostIsNatural DEF TypeOK, OpCode
  <2> QED BY <1>2, <2>1 DEF Return, TypeOK, deployed, opened, machine
<1>3. ASSUME NEW target, NEW pushed, ContinuesAt(target, pushed)
      PROVE  TypeOK'
  <2>1. Instruction.op \in OpCode
    BY <1>3, DecodedInstr DEF ContinuesAt, Instruction, TypeOK
  <2>2. meter_used' \in Nat
    BY <1>3, <2>1, CostIsNatural DEF ContinuesAt, Continue, TypeOK
  <2> QED BY <1>3, <2>2 DEF ContinuesAt, Continue, TypeOK, deployed, opened
<1> QED BY <1>1, <1>2, <1>3, RunCases DEF RunStep

LEMMA StepKeepsTypes == TypeOK /\ [Next]_vars => TypeOK'
<1> SUFFICES ASSUME TypeOK, [Next]_vars PROVE TypeOK'
  OBVIOUS
<1>1. CASE OpenCall
  BY <1>1, OpenKeepsTypes, OpenSystemKeepsTypes, GenesisIsASelector DEF OpenCall
<1>2. CASE UNCHANGED vars
  BY <1>2 DEF TypeOK, vars, deployed, opened, machine
<1> QED
  BY <1>1, <1>2, VerifyKeepsTypes, ScanKeepsTypes, RunKeepsTypes
     DEF Next, Returned

(* Type correctness: whatever a program pushes, calls and returns to, the  *)
(* stack holds at most STACK_LIMIT words and pc is an offset (Machine).    *)
THEOREM TypeCorrect == Spec => []TypeOK
<1>1. Init => TypeOK
  BY InitIsTyped
<1>2. TypeOK /\ [Next]_vars => TypeOK'
  BY StepKeepsTypes
<1> QED BY <1>1, <1>2, PTL DEF Spec

(***************************************************************************)
(* The boundaries of the scan form a chain: what follows a boundary is a   *)
(* boundary, or is never executed.                                         *)
(***************************************************************************)
ChainInv ==
    /\ \A b \in bounds : Decoded(b) # Undecodable
    /\ phase \in {"deploy", "verify", "deployed"} => bounds = {}
    /\ phase = "scan" =>
        /\ \A b \in bounds : b + Decoded(b).len \in bounds \cup {cursor}
        /\ 0 \in bounds \cup {cursor}
        /\ route = "system" => pc = 0
    /\ phase = "run" =>
        /\ \A b \in bounds :
                \/ b + Decoded(b).len \in bounds
                \/ b + Decoded(b).len > U32_MAX
                \/ Decoded(b + Decoded(b).len) = Undecodable
        /\ pc \in bounds \/ Decoded(pc) = Undecodable

(* The container is never written. *)
LEMMA ContainerStays ==
    ASSUME [Next]_vars, TypeOK
    PROVE  /\ container' = container
           /\ \A at : Decoded(at)' = Decoded(at)
<1>1. container' = container
  <2>1. CASE Verify
    BY <2>1 DEF Verify, VerifySizes, VerifyInstr, VerifyEntries, Conclude, deployed
  <2>2. CASE OpenCall
    BY <2>2 DEF OpenCall, Open, OpenSystem, Return, deployed
  <2>3. CASE Scan
    BY <2>3 DEF Scan, ScanInstr, Enter, Return, deployed
  <2>4. CASE Run
    BY <2>4, RunCases DEF RunStep, FaultsAt, Faults, ContinuesAt, Continue,
                          Return, deployed
  <2> QED BY <2>1, <2>2, <2>3, <2>4 DEF Next, Returned, vars, deployed
<1> QED BY <1>1 DEF Decoded

LEMMA ScanKeepsChain ==
    ASSUME TypeOK, ChainInv, ScanInstr, \A at : Decoded(at)' = Decoded(at)
    PROVE  ChainInv'
<1>1. /\ phase = "scan" /\ phase' = "scan" /\ Decoded(cursor) # Undecodable
      /\ bounds' = bounds \cup {cursor}
      /\ cursor' = cursor + Decoded(cursor).len
      /\ route' = route /\ pc' = pc
  BY DEF ScanInstr, ScanGoesOn, opened, machine
<1>2. \A b \in bounds' : Decoded(b)' # Undecodable
  BY <1>1 DEF ChainInv
<1>3. \A b \in bounds' : b + Decoded(b).len \in bounds' \cup {cursor'}
  BY <1>1 DEF ChainInv
<1>4. 0 \in bounds' \cup {cursor'}
  BY <1>1 DEF ChainInv
<1>5. route' = "system" => pc' = 0
  BY <1>1 DEF ChainInv
<1>6. \A b \in bounds' : (b + Decoded(b).len)' = b + Decoded(b).len
  OBVIOUS
<1> QED BY <1>1, <1>2, <1>3, <1>4, <1>5, <1>6 DEF ChainInv

LEMMA EnterKeepsChain ==
    ASSUME TypeOK, ChainInv, Enter, \A at : Decoded(at)' = Decoded(at)
    PROVE  ChainInv'
<1>1. CASE phase' = "done"
  BY <1>1 DEF Enter, Return, ChainInv
<1>2. CASE phase' = "run" /\ (route = "system" \/ target_ok(pc))
           /\ bounds' = bounds /\ pc' = pc
  <2>1. phase = "scan" /\ cursor \in Nat
        /\ (cursor > U32_MAX \/ Decoded(cursor) = Undecodable)
    BY BoundsAreNaturals DEF Enter, ScanGoesOn, TypeOK
  <2>2. \A b \in bounds :
                \/ b + Decoded(b).len \in bounds
                \/ b + Decoded(b).len > U32_MAX
                \/ Decoded(b + Decoded(b).len) = Undecodable
    BY <2>1 DEF ChainInv
  <2>3. pc \in bounds \/ Decoded(pc) = Undecodable
    BY <1>2, <2>1, BoundsAreNaturals DEF ChainInv, target_ok
  <2> QED BY <1>2, <2>2, <2>3 DEF ChainInv
<1> QED BY <1>1, <1>2 DEF Enter, Return, machine

LEMMA RunKeepsChain ==
    ASSUME TypeOK, ChainInv, Run, \A at : Decoded(at)' = Decoded(at)
    PROVE  ChainInv'
<1>1. phase = "run"
  BY RunCases
<1>2. CASE phase' = "done" /\ bounds' = bounds
  BY <1>2 DEF ChainInv
<1>3. ASSUME NEW target, NEW pushed, ContinuesAt(target, pushed)
      PROVE  ChainInv'
  <2>1. phase' = "run" /\ bounds' = bounds /\ pc' = target
    BY <1>1, <1>3 DEF ContinuesAt, Continue
  <2>2. CASE target_ok(target)
    BY <1>1, <2>1, <2>2 DEF ChainInv, target_ok
  <2>3. CASE target = After /\ After <= U32_MAX
    <3>1. pc \in bounds /\ After \in Nat /\ U32_MAX \in Nat
      BY <1>1, <1>3, DecodedInstr, BoundsAreNaturals
         DEF ChainInv, ContinuesAt, Instruction, After, TypeOK
    <3>2. After \in bounds \/ Decoded(After) = Undecodable
      BY <1>1, <2>3, <3>1 DEF ChainInv, After, Instruction
    <3> QED BY <1>1, <2>1, <2>3, <3>2 DEF ChainInv
  <2> QED BY <1>3, <2>2, <2>3 DEF ContinuesAt
<1> QED
  BY <1>2, <1>3, RunCases DEF RunStep, FaultsAt, Faults, Return

LEMMA StepKeepsChain ==
    ASSUME TypeOK, ChainInv, [Next]_vars
    PROVE  ChainInv'
<1>1. \A at : Decoded(at)' = Decoded(at)
  BY ContainerStays
<1>2. CASE Verify
  BY <1>1, <1>2 DEF Verify, VerifySizes, VerifyInstr, VerifyEntries, Conclude,
                    ChainInv
<1>3. CASE OpenCall
  BY <1>1, <1>3 DEF OpenCall, Open, OpenSystem, Return, ChainInv
<1>4. CASE Scan
  BY <1>1, <1>4, ScanKeepsChain, EnterKeepsChain DEF Scan
<1>5. CASE Run
  BY <1>1, <1>5, RunKeepsChain
<1>6. CASE UNCHANGED vars
  BY <1>1, <1>6 DEF ChainInv, vars, opened, machine
<1> QED BY <1>2, <1>3, <1>4, <1>5, <1>6 DEF Next, Returned

(* No program, verified or not, runs bytes that the scan of its code did   *)
(* not decode as an instruction (boundaries, target_ok and step).          *)
THEOREM OnlyScannedCodeIsRun == Spec => []OnlyScannedCodeRuns
<1>1. Init => TypeOK /\ ChainInv
  BY InitIsTyped DEF Init, ChainInv
<1>2. TypeOK /\ ChainInv /\ [Next]_vars => (TypeOK /\ ChainInv)'
  BY StepKeepsTypes, StepKeepsChain
<1>3. ChainInv => OnlyScannedCodeRuns
  BY DEF ChainInv, OnlyScannedCodeRuns, Instruction
<1> QED BY <1>1, <1>2, <1>3, PTL DEF Spec

(***************************************************************************)
(* What verify has established when its scan stands at offset n            *)
(***************************************************************************)
StartsUpTo(n) ==
    /\ n <= container.len
    /\ 0 \in starts \cup {n}
    /\ \A s \in starts :
        /\ s < n
        /\ Decoded(s) # Undecodable
        /\ ~BadConstIndex(Decoded(s))
        /\ TargetsOf(Decoded(s)) \subseteq targets
        /\ s + Decoded(s).len \in starts \cup {n}
    /\ \A s, t \in starts : s < t => s + Decoded(s).len <= t

(* What an accepted container satisfies *)
Accepted ==
    /\ SizeError = "none"
    /\ StartsUpTo(container.len)
    /\ targets \subseteq starts
    /\ \A i \in DOMAIN container.entries : EntryError(i) = "none"

VerifyInv ==
    /\ phase = "deploy" => starts = {} /\ targets = {} /\ cursor = 0
    /\ phase = "verify" => SizeError = "none" /\ StartsUpTo(cursor)
    /\ phase \in {"deploy", "verify"} => verdict = "none"
    /\ verdict = "ok" => Accepted

(* What verify looks at is never written after it. *)
LEMMA DeployedStays ==
    ASSUME TypeOK, [Next]_vars, ~Verify
    PROVE  UNCHANGED deployed
<1>1. CASE OpenCall
  BY <1>1 DEF OpenCall, Open, OpenSystem, Return
<1>2. CASE Scan
  BY <1>2 DEF Scan, ScanInstr, Enter, Return
<1>3. CASE Run
  BY <1>3, RunCases DEF RunStep, FaultsAt, Faults, ContinuesAt, Continue, Return
<1> QED BY <1>1, <1>2, <1>3 DEF Next, Returned, vars

LEMMA InstrKeepsStarts ==
    ASSUME TypeOK, phase = "verify", StartsUpTo(cursor), cursor < container.len,
           Decoded(cursor) # Undecodable, ~BadConstIndex(Decoded(cursor)),
           starts' = starts \cup {cursor},
           targets' = targets \cup TargetsOf(Decoded(cursor)),
           cursor' = cursor + Decoded(cursor).len,
           container' = container,
           \A at : Decoded(at)' = Decoded(at)
    PROVE  StartsUpTo(cursor)'
<1>1. cursor \in Nat /\ IsContainer(container) /\ starts \subseteq Nat
      /\ container.len \in Nat
  BY DEF TypeOK, IsContainer
<1>2. Decoded(cursor).len \in Nat /\ Decoded(cursor).len > 0
      /\ cursor + Decoded(cursor).len <= container.len
  BY <1>1, DecodedInstr
<1>3. cursor' <= container.len /\ 0 \in starts' \cup {cursor'}
      /\ cursor < cursor' /\ cursor' \in Nat
  BY <1>1, <1>2 DEF StartsUpTo
<1>4. \A i : BadConstIndex(i)' = BadConstIndex(i)
  BY DEF BadConstIndex
<1>5. ASSUME NEW s \in starts'
      PROVE  /\ s < cursor'
             /\ Decoded(s) # Undecodable
             /\ ~BadConstIndex(Decoded(s))
             /\ TargetsOf(Decoded(s)) \subseteq targets'
             /\ s + Decoded(s).len \in starts' \cup {cursor'}
  <2>1. CASE s \in starts
    <3>1. s < cursor'
      BY <1>1, <1>3, <2>1 DEF StartsUpTo
    <3> QED BY <2>1, <3>1 DEF StartsUpTo
  <2>2. CASE s = cursor
    BY <1>3, <2>2
  <2> QED BY <1>5, <2>1, <2>2
<1>6. ASSUME NEW s \in starts', NEW t \in starts', s < t
      PROVE  s + Decoded(s).len <= t
  <2>1. s \in starts
    BY <1>1, <1>6 DEF StartsUpTo
  <2>2. CASE t \in starts
    BY <1>6, <2>1, <2>2 DEF StartsUpTo
  <2>3. CASE t = cursor
    <3> DEFINE next == s + Decoded(s).len
    <3>1. next \in starts \cup {cursor}
      BY <2>1 DEF StartsUpTo
    <3>2. \A x \in starts : x \in Nat /\ x < cursor
      BY <1>1 DEF StartsUpTo
    <3> HIDE DEF next
    <3>3. next <= cursor
      BY <1>1, <3>1, <3>2
    <3> QED BY <2>3, <3>3 DEF next
  <2> QED BY <1>6, <2>2, <2>3
<1>7. /\ \A s \in starts' :
            /\ (Decoded(s) # Undecodable)'
            /\ (~BadConstIndex(Decoded(s)))'
            /\ (TargetsOf(Decoded(s)))' \subseteq targets'
            /\ (s + Decoded(s).len)' \in starts' \cup {cursor'}
      /\ \A s, t \in starts' : s < t => (s + Decoded(s).len)' <= t
  BY <1>4, <1>5, <1>6 DEF TargetsOf
<1> QED BY <1>3, <1>5, <1>7 DEF StartsUpTo

LEMMA VerifyKeepsInv ==
    ASSUME TypeOK, VerifyInv, Verify, container' = container,
           \A at : Decoded(at)' = Decoded(at)
    PROVE  VerifyInv'
<1>1. ASSUME NEW v \in Verdict \ {"ok"}, Conclude(v)
      PROVE  VerifyInv'
  BY <1>1 DEF Conclude, VerifyInv
<1>2. SizeError' = SizeError
  BY DEF SizeError
<1>3. CASE VerifySizes
  <2>1. CASE Conclude(SizeError)
    BY <1>1, <2>1 DEF SizeError, Verdict
  <2>2. CASE /\ SizeError = "none" /\ phase' = "verify"
             /\ UNCHANGED <<deployed, cursor>>
    <3>1. starts' = {} /\ cursor' = 0 /\ verdict' = "none"
      BY <1>3, <2>2 DEF VerifySizes, VerifyInv, deployed
    <3>2. 0 <= container.len
      BY DEF TypeOK, IsContainer
    <3>3. StartsUpTo(cursor)'
      BY <3>1, <3>2 DEF StartsUpTo
    <3> QED BY <1>2, <2>2, <3>1, <3>3 DEF VerifyInv
  <2> QED BY <1>3, <2>1, <2>2 DEF VerifySizes
<1>4. CASE VerifyInstr
  <2>1. CASE Conclude("UndecodableCode") \/ Conclude("ConstIndexOutOfRange")
    BY <1>1, <2>1 DEF Verdict
  <2>2. CASE /\ Decoded(cursor) # Undecodable
             /\ ~BadConstIndex(Decoded(cursor))
             /\ starts' = starts \cup {cursor}
             /\ targets' = targets \cup TargetsOf(Decoded(cursor))
             /\ cursor' = cursor + Decoded(cursor).len
             /\ UNCHANGED <<verdict, phase>>
    <3>1. phase = "verify" /\ cursor < container.len /\ StartsUpTo(cursor)
          /\ SizeError = "none" /\ verdict = "none"
      BY <1>4 DEF VerifyInstr, VerifyInv
    <3>2. StartsUpTo(cursor)'
      BY <2>2, <3>1, InstrKeepsStarts
    <3> QED BY <1>2, <2>2, <3>1, <3>2 DEF VerifyInv
  <2> QED BY <1>4, <2>1, <2>2 DEF VerifyInstr
<1>5. CASE VerifyEntries
  <2>1. CASE Conclude("MisalignedTarget")
    BY <1>1, <2>1 DEF Verdict
  <2>2. ASSUME NEW i, Conclude(EntryError(i)) PROVE VerifyInv'
    BY <1>1, <2>2 DEF EntryError, Verdict
  <2>3. CASE /\ targets \subseteq starts
             /\ \A i \in DOMAIN container.entries : EntryError(i) = "none"
             /\ Conclude("ok")
    <3>1. cursor = container.len /\ StartsUpTo(cursor) /\ SizeError = "none"
      BY <1>5 DEF VerifyEntries, VerifyInv, StartsUpTo, TypeOK, IsContainer
    <3>2. Accepted
      BY <2>3, <3>1 DEF Accepted
    <3>3. Accepted'
      BY <2>3, <3>2 DEF Accepted, StartsUpTo, SizeError, EntryError, Conclude,
                        BadConstIndex, TargetsOf
    <3> QED BY <2>3, <3>3 DEF Conclude, VerifyInv
  <2> QED BY <1>5, <2>1, <2>2, <2>3 DEF VerifyEntries
<1> QED BY <1>3, <1>4, <1>5 DEF Verify

LEMMA AcceptedStays ==
    ASSUME UNCHANGED deployed
    PROVE  Accepted' = Accepted
BY DEF Accepted, StartsUpTo, SizeError, EntryError, BadConstIndex, TargetsOf,
       Decoded, deployed

LEMMA StepKeepsVerified ==
    ASSUME TypeOK, VerifyInv, [Next]_vars
    PROVE  VerifyInv'
<1>1. container' = container /\ \A at : Decoded(at)' = Decoded(at)
  BY ContainerStays
<1>2. CASE Verify
  BY <1>1, <1>2, VerifyKeepsInv
<1>3. CASE UNCHANGED vars
  BY <1>3 DEF VerifyInv, vars, deployed, Accepted, StartsUpTo, SizeError,
              EntryError, BadConstIndex, TargetsOf, Decoded
<1>4. CASE ~Verify /\ ~(UNCHANGED vars)
  <2>1. UNCHANGED deployed
    BY <1>4, DeployedStays
  <2>2. phase' \in {"scan", "run", "done"}
    BY <1>4, RunCases DEF Next, Returned, OpenCall, Open, OpenSystem, Scan,
        ScanInstr, Enter, Return, RunStep, FaultsAt, Faults, ContinuesAt, Continue
  <2> QED BY <2>1, <2>2, AcceptedStays DEF VerifyInv, deployed
<1> QED BY <1>2, <1>3, <1>4

(***************************************************************************)
(* What a call of an accepted container has scanned, and where it stands   *)
(***************************************************************************)
ScannedInv ==
    verdict = "ok" =>
        /\ phase = "scan" =>
            /\ cursor \in starts \cup {container.len}
            /\ bounds = {s \in starts : s < cursor}
            /\ pc \in starts \cup {container.len}
            /\ route # "system" => pc \in starts
        /\ phase = "run" =>
            /\ bounds = starts
            /\ pc \in starts \cup {container.len}

StatusInv == phase # "done" => status = "none"

Inv == TypeOK /\ ChainInv /\ VerifyInv /\ ScannedInv /\ StatusInv
          /\ VerifiedCodeBehaves

(* The facts of an accepted container that a call relies on *)
LEMMA AcceptedFacts ==
    ASSUME TypeOK, Accepted
    PROVE  /\ container.len \in Nat /\ container.len <= U32_MAX
           /\ U32_MAX \in Nat
           /\ 0 \in starts \cup {container.len}
           /\ \A s \in starts :
                /\ s \in Nat /\ s < container.len /\ s <= U32_MAX
                /\ Decoded(s) # Undecodable
                /\ ~BadConstIndex(Decoded(s))
                /\ TargetsOf(Decoded(s)) \subseteq starts
                /\ s + Decoded(s).len \in starts \cup {container.len}
                /\ s + Decoded(s).len > s
           /\ \A s, t \in starts : s < t => s + Decoded(s).len <= t
<1>1. container.len \in Nat /\ IsContainer(container) /\ starts \subseteq Nat
  BY DEF TypeOK, IsContainer
<1>2. container.len <= U32_MAX /\ U32_MAX \in Nat
  BY <1>1, CodeFitsPc, BoundsAreNaturals DEF Accepted, SizeError
<1>3. ASSUME NEW s \in starts
      PROVE  /\ s \in Nat /\ s < container.len /\ s <= U32_MAX
             /\ Decoded(s) # Undecodable
             /\ s + Decoded(s).len > s
  <2>1. s \in Nat /\ s < container.len /\ Decoded(s) # Undecodable
    BY <1>1 DEF Accepted, StartsUpTo
  <2>2. Decoded(s).len \in Nat /\ Decoded(s).len > 0
    BY <1>1, <2>1, DecodedInstr
  <2> QED BY <1>1, <1>2, <2>1, <2>2
<1> QED BY <1>1, <1>2, <1>3 DEF Accepted, StartsUpTo

(* The end of the code does not decode. *)
LEMMA EndIsUndecodable ==
    ASSUME TypeOK
    PROVE  Decoded(container.len) = Undecodable
BY DEF Decoded, TypeOK, IsContainer

(* An accepted container declares what open_entry asks of an entry. *)
LEMMA AcceptedOpens ==
    ASSUME TypeOK, Accepted, NEW r, NEW sel, NEW limit
    PROVE  /\ OpenFault(r, sel, limit) # "Malformed"
           /\ \A i \in Matching(sel) : container.entries[i].offset \in starts
<1>1. ASSUME NEW i \in DOMAIN container.entries
      PROVE  /\ container.entries[i].offset \in starts
             /\ ~(container.entries[i].declared > MAX_ACCESS_SLOTS)
             /\ \A j \in 1..(i - 1) :
                    container.entries[j].selector # container.entries[i].selector
  <2>1. EntryError(i) = "none"
    BY DEF Accepted
  <2> QED BY <2>1 DEF EntryError
<1>2. \A i, j \in Matching(sel) : i = j
  <2> SUFFICES ASSUME NEW i \in Matching(sel), NEW j \in Matching(sel), i < j
               PROVE  FALSE
    BY EntryTypes DEF Matching, TypeOK
  <2>1. i \in DOMAIN container.entries /\ j \in DOMAIN container.entries
        /\ container.entries[i].selector = container.entries[j].selector
    BY DEF Matching
  <2>2. i \in 1..(j - 1)
    BY <2>1, EntryTypes DEF TypeOK
  <2> QED BY <1>1, <2>1, <2>2
<1>3. SizeError = "none"
  BY DEF Accepted
<1> QED BY <1>1, <1>2, <1>3 DEF OpenFault, Matching

LEMMA OpenKeepsScanned ==
    ASSUME Inv, OpenCall, UNCHANGED deployed
    PROVE  ScannedInv' /\ VerifiedCodeBehaves' /\ StatusInv'
<1>1. ASSUME NEW r \in {"entry", "genesis"}, NEW sel, NEW limit,
             Open(r, sel, limit)
      PROVE  ScannedInv' /\ VerifiedCodeBehaves' /\ StatusInv'
  <2>1. CASE /\ Return(OpenFault(r, sel, limit))
    <3>1. verdict = "ok" => OpenFault(r, sel, limit) # "Malformed"
      BY AcceptedOpens DEF Inv, VerifyInv
    <3>2. OpenFault(r, sel, limit) \notin {"BadConst", "BadJump", "Decode"}
      BY OpenFaults
    <3> QED BY <2>1, <3>1, <3>2 DEF Return, ScannedInv, StatusInv,
                                    VerifiedCodeBehaves, deployed
  <2>2. CASE /\ phase' = "scan" /\ cursor' = 0
             /\ \E i \in Matching(sel) : pc' = container.entries[i].offset
             /\ UNCHANGED <<bounds, status>>
    <3>1. phase = "deployed" /\ status' = "none" /\ bounds' = {}
      BY <1>1, <2>2 DEF Open, Inv, StatusInv, ChainInv
    <3>2. ASSUME verdict = "ok"
          PROVE  /\ 0 \in starts \cup {container.len}
                 /\ {} = {s \in starts : s < 0}
                 /\ pc' \in starts
      <4>1. Accepted /\ TypeOK
        BY <3>2 DEF Inv, VerifyInv
      <4>2. \A s \in starts : ~(s < 0)
        BY <4>1 DEF TypeOK
      <4> QED BY <2>2, <4>1, <4>2, AcceptedFacts, AcceptedOpens
    <3> QED BY <2>2, <3>1, <3>2 DEF ScannedInv, StatusInv, VerifiedCodeBehaves,
                                    deployed
  <2> QED BY <1>1, <2>1, <2>2 DEF Open
<1>2. ASSUME NEW limit, OpenSystem(limit)
      PROVE  ScannedInv' /\ VerifiedCodeBehaves' /\ StatusInv'
  <2>1. /\ phase' = "scan" /\ cursor' = 0 /\ pc' = 0 /\ route' = "system"
        /\ status' = "none" /\ bounds' = {}
    BY <1>2 DEF OpenSystem, Inv, StatusInv, ChainInv
  <2>2. verdict = "ok" =>
            /\ 0 \in starts \cup {container.len}
            /\ {} = {s \in starts : s < 0}
    <3>1. \A s \in starts : ~(s < 0)
      BY DEF Inv, TypeOK
    <3> QED BY <3>1, AcceptedFacts DEF Inv, VerifyInv
  <2> QED BY <2>1, <2>2 DEF ScannedInv, StatusInv, VerifiedCodeBehaves, deployed
<1> QED BY <1>1, <1>2 DEF OpenCall

LEMMA ScanKeepsScanned ==
    ASSUME Inv, Scan, UNCHANGED deployed
    PROVE  ScannedInv' /\ VerifiedCodeBehaves' /\ StatusInv'
<1>1. phase = "scan" /\ status = "none"
  BY DEF Scan, ScanInstr, Enter, Inv, StatusInv
<1>2. CASE verdict # "ok"
  BY <1>1, <1>2 DEF Scan, ScanInstr, Enter, Return, ScannedInv, StatusInv,
                    VerifiedCodeBehaves, deployed
<1>3. CASE verdict = "ok"
  <2>1. Accepted /\ TypeOK
    BY <1>3 DEF Inv, VerifyInv
  <2>2. /\ cursor \in starts \cup {container.len}
        /\ bounds = {s \in starts : s < cursor}
        /\ pc \in starts \cup {container.len}
        /\ route # "system" => pc \in starts
    BY <1>1, <1>3 DEF Inv, ScannedInv
  <2>3. CASE ScanInstr
    <3>1. cursor \in starts
      BY <2>1, <2>2, <2>3, EndIsUndecodable DEF ScanInstr, ScanGoesOn
    <3>2. /\ cursor' = cursor + Decoded(cursor).len
          /\ bounds' = bounds \cup {cursor}
          /\ phase' = "scan" /\ status' = "none" /\ pc' = pc /\ route' = route
      BY <1>1, <2>3 DEF ScanInstr, opened, machine
    <3>3. cursor' \in starts \cup {container.len} /\ cursor' > cursor
      BY <2>1, <3>1, <3>2, AcceptedFacts
    <3>4. \A s \in starts : s < cursor' <=> s < cursor \/ s = cursor
      <4> SUFFICES ASSUME NEW s \in starts
                   PROVE  s < cursor' <=> s < cursor \/ s = cursor
        OBVIOUS
      <4>1. s \in Nat /\ cursor \in Nat /\ cursor' \in Nat
        BY <2>1, <3>1, <3>3, AcceptedFacts
      <4>2. cursor < s => cursor' <= s
        BY <2>1, <3>1, <3>2, AcceptedFacts
      <4> QED BY <3>3, <4>1, <4>2
    <3>5. bounds' = {s \in starts : s < cursor'}
      BY <2>2, <3>1, <3>2, <3>4
    <3> QED BY <2>2, <3>2, <3>3, <3>5 DEF ScannedInv, StatusInv,
                                         VerifiedCodeBehaves, deployed
  <2>4. CASE Enter
    <3>1. cursor = container.len
      BY <2>1, <2>2, <2>4, AcceptedFacts DEF Enter, ScanGoesOn
    <3>2. bounds = starts
      BY <2>1, <2>2, <3>1, AcceptedFacts
    <3>3. phase' = "run"
      BY <2>2, <2>4, <3>2 DEF Enter, target_ok
    <3>4. bounds' = bounds /\ pc' = pc /\ status' = "none"
      BY <1>1, <2>4, <3>3 DEF Enter, Return, machine
    <3> QED BY <2>2, <3>2, <3>3, <3>4 DEF ScannedInv, StatusInv,
                                         VerifiedCodeBehaves, deployed
  <2> QED BY <2>3, <2>4 DEF Scan
<1> QED BY <1>2, <1>3

LEMMA RunKeepsScanned ==
    ASSUME Inv, Run, UNCHANGED deployed, \A at : Decoded(at)' = Decoded(at)
    PROVE  ScannedInv' /\ VerifiedCodeBehaves' /\ StatusInv'
<1>1. phase = "run" /\ RunStep /\ status = "none"
  BY RunCases DEF Inv, StatusInv
<1>2. verdict' = verdict /\ starts' = starts /\ container' = container
  BY DEF deployed
<1>3. verdict = "ok" =>
        /\ Accepted /\ TypeOK
        /\ bounds = starts
        /\ pc \in starts \cup {container.len}
  BY <1>1 DEF Inv, VerifyInv, ScannedInv
<1>4. ASSUME NEW fault, FaultsAt(fault)
      PROVE  ScannedInv' /\ VerifiedCodeBehaves' /\ StatusInv'
  <2>1. /\ phase' = "done" /\ status' = fault /\ pc' = pc
        /\ Instruction' = Instruction
    BY <1>4, <1>2 DEF FaultsAt, Faults, Return, machine, Instruction, Decoded
  <2>2. ASSUME verdict = "ok"
        PROVE  /\ fault \notin {"Malformed", "BadConst"}
               /\ fault = "BadJump" => Instruction.op = "Ret"
               /\ fault = "Decode" => pc = container.len
    <3>1. CASE pc \in starts
      <4>1. /\ Instruction # Undecodable
            /\ ~BadConstIndex(Instruction)
            /\ TargetsOf(Instruction) \subseteq bounds
            /\ ~(After > U32_MAX)
        BY <1>3, <2>2, <3>1, AcceptedFacts DEF Instruction, After
      <4> QED BY <1>4, <4>1 DEF FaultsAt, target_ok
    <3>2. CASE pc = container.len
      <4>1. Instruction = Undecodable
        BY <1>3, <2>2, <3>2, EndIsUndecodable DEF Instruction
      <4> QED BY <1>4, <3>2, <4>1 DEF FaultsAt
    <3> QED BY <1>3, <2>2, <3>1, <3>2
  <2> QED BY <1>2, <2>1, <2>2 DEF ScannedInv, StatusInv, VerifiedCodeBehaves
<1>5. CASE Return("halted")
  BY <1>5 DEF Return, ScannedInv, StatusInv, VerifiedCodeBehaves
<1>6. ASSUME NEW target, NEW pushed, ContinuesAt(target, pushed)
      PROVE  ScannedInv' /\ VerifiedCodeBehaves' /\ StatusInv'
  <2>1. /\ phase' = "run" /\ status' = "none" /\ pc' = target
        /\ bounds' = bounds
    BY <1>1, <1>6 DEF ContinuesAt, Continue
  <2>2. ASSUME verdict = "ok" PROVE target \in starts \cup {container.len}
    <3>1. pc \in starts
      BY <1>3, <1>6, <2>2, EndIsUndecodable DEF ContinuesAt, Instruction
    <3>2. After \in starts \cup {container.len}
      BY <1>3, <2>2, <3>1, AcceptedFacts DEF After, Instruction
    <3> QED BY <1>3, <1>6, <2>2, <3>2 DEF ContinuesAt, target_ok
  <2> QED BY <1>2, <1>3, <2>1, <2>2 DEF ScannedInv, StatusInv, VerifiedCodeBehaves
<1> QED BY <1>1, <1>4, <1>5, <1>6 DEF RunStep

LEMMA InitHasInv == Init => Inv
BY InitIsTyped DEF Init, Inv, ChainInv, VerifyInv, ScannedInv, StatusInv,
                   VerifiedCodeBehaves

LEMMA StepKeepsInv == Inv /\ [Next]_vars => Inv'
<1> SUFFICES ASSUME Inv, [Next]_vars PROVE Inv'
  OBVIOUS
<1>1. TypeOK' /\ ChainInv' /\ VerifyInv'
  BY StepKeepsTypes, StepKeepsChain, StepKeepsVerified DEF Inv
<1>2. container' = container /\ \A at : Decoded(at)' = Decoded(at)
  BY ContainerStays DEF Inv
<1>3. CASE UNCHANGED vars
  <2>1. UNCHANGED <<verdict, starts, container, phase, cursor, bounds, pc,
                    route, status>>
    BY <1>3 DEF vars, deployed, opened, machine
  <2>2. ScannedInv' /\ StatusInv' /\ VerifiedCodeBehaves'
    BY <2>1 DEF Inv, ScannedInv, StatusInv, VerifiedCodeBehaves, Instruction,
                Decoded
  <2> QED BY <1>1, <2>2 DEF Inv
<1>4. CASE Verify
  <2>1. phase' \in {"verify", "deployed"} /\ status' = "none"
    BY <1>4 DEF Verify, VerifySizes, VerifyInstr, VerifyEntries, Conclude, Inv,
                StatusInv
  <2> QED BY <1>1, <2>1 DEF Inv, ScannedInv, StatusInv, VerifiedCodeBehaves
<1>5. CASE ~Verify /\ (OpenCall \/ Scan \/ Run)
  <2>1. UNCHANGED deployed
    BY <1>5, DeployedStays DEF Inv
  <2>2. ScannedInv' /\ StatusInv' /\ VerifiedCodeBehaves'
    BY <1>2, <1>5, <2>1, OpenKeepsScanned, ScanKeepsScanned, RunKeepsScanned
  <2> QED BY <1>1, <2>2 DEF Inv
<1> QED BY <1>3, <1>4, <1>5 DEF Next, Returned

(* The linear scan of open_entry finds the instructions that verify found  *)
(* in a container it accepted, neither more nor fewer.                     *)
THEOREM ScanAgreesWithVerify == Spec => []VerifierSeesWhatRuns
<1>1. Inv => VerifierSeesWhatRuns
  BY DEF Inv, ScannedInv, VerifierSeesWhatRuns
<1> QED BY <1>1, InitHasInv, StepKeepsInv, PTL DEF Spec

(* A container that verify accepts is never Malformed nor short of a       *)
(* constant when it is called, its jumps and calls land on instructions,   *)
(* and only running off its end fails to decode.                           *)
THEOREM VerifiedCodeKeepsItsPromises == Spec => []VerifiedCodeBehaves
<1>1. Inv => VerifiedCodeBehaves
  BY DEF Inv
<1> QED BY <1>1, InitHasInv, StepKeepsInv, PTL DEF Spec
=============================================================================
