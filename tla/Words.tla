------------------------------- MODULE Words -------------------------------
(***************************************************************************)
(* The arithmetic, bit and comparison opcodes of Interpreter::step in      *)
(* crates/qtv-vm/src/interp.rs, on registers of BITS bits (64 in the       *)
(* source). An instruction is fetched and then executed.                   *)
(***************************************************************************)
EXTENDS Integers, FiniteSets, Bitwise

CONSTANTS
    BITS,
    None,       \* no instruction fetched yet
    Reg,        \* the registers in use
    Fetched     \* the instructions a program may hold

VARIABLES regs, instr, status

vars == <<regs, instr, status>>

Modulus == 2^BITS
Word == 0..(Modulus - 1)

Binary == {"Add", "Sub", "Mul", "Div", "Rem", "AddW", "SubW", "MulW", "MulHi",
           "And", "Or", "Xor", "Not", "Shl", "Shr", "Eq", "LtU", "GtU"}

(* BITS is a power of two, so that BITS - 1 masks a shift amount. *)
ASSUME BitsAssumption == BITS \in {2, 4, 8, 16, 32, 64}

Truth(p) == IF p THEN 1 ELSE 0

(* Results are sets: checked arithmetic that fails has none. *)
Checked(n) == {n} \cap Word

(* Mutant of Amount: the whole register shifts. *)
AmountUnmasked(y) == y

Amount(y) == y & (BITS - 1)

(***************************************************************************)
(* One operator per group of opcodes                                       *)
(***************************************************************************)
(* Mutant of checked: subtraction saturates at zero. *)
checkedSaturating(op, x, y) ==
    CASE op = "Add" -> Checked(x + y)
      [] op = "Sub" -> {IF x > y THEN x - y ELSE 0}
      [] op = "Mul" -> Checked(x * y)
      [] op = "Div" -> IF y = 0 THEN {} ELSE {x \div y}
      [] op = "Rem" -> IF y = 0 THEN {} ELSE {x % y}

checked(op, x, y) ==
    CASE op = "Add" -> Checked(x + y)
      [] op = "Sub" -> Checked(x - y)
      [] op = "Mul" -> Checked(x * y)
      [] op = "Div" -> IF y = 0 THEN {} ELSE {x \div y}
      [] op = "Rem" -> IF y = 0 THEN {} ELSE {x % y}

wrapping(op, x, y) ==
    CASE op = "AddW" -> (x + y) % Modulus
      [] op = "SubW" -> (x - y) % Modulus
      [] op = "MulW" -> (x * y) % Modulus
      [] op = "MulHi" -> (x * y) \div Modulus

bits(op, x, y) ==
    CASE op = "And" -> x & y
      [] op = "Or" -> x | y
      [] op = "Xor" -> x ^^ y
      [] op = "Not" -> (Modulus - 1) - x
      [] op = "Shl" -> (x * 2^Amount(y)) % Modulus
      [] op = "Shr" -> x \div 2^Amount(y)

compare(op, x, y) ==
    CASE op = "Eq" -> Truth(x = y)
      [] op = "LtU" -> Truth(x < y)
      [] op = "GtU" -> Truth(x > y)

alu(op, x, y) ==
    CASE op \in {"Add", "Sub", "Mul", "Div", "Rem"} -> checked(op, x, y)
      [] op \in {"AddW", "SubW", "MulW", "MulHi"} -> {wrapping(op, x, y)}
      [] op \in {"And", "Or", "Xor", "Not", "Shl", "Shr"} -> {bits(op, x, y)}
      [] OTHER -> {compare(op, x, y)}

(* Two registers as one u128 *)
wide(hi, lo) == Modulus * hi + lo

(***************************************************************************)
(* Execution                                                               *)
(***************************************************************************)
Init ==
    /\ regs = [r \in Reg |-> 0]
    /\ instr = None
    /\ status = "running"

Fetch ==
    /\ status = "running" /\ instr = None
    /\ instr' \in Fetched
    /\ UNCHANGED <<regs, status>>

Executing(ops) == status = "running" /\ instr # None /\ instr.op \in ops

Go(newRegs) ==
    /\ regs' = newRegs
    /\ instr' = None
    /\ UNCHANGED status

Fault(f) == status' = f /\ UNCHANGED <<regs, instr>>

FaultOf(op) == IF op \in {"Add", "Sub", "Mul"} THEN "Overflow" ELSE "DivByZero"

Ldi ==
    /\ Executing({"Ldi"})
    /\ Go([regs EXCEPT ![instr.d] = instr.imm])

Alu ==
    /\ Executing(Binary)
    /\ LET result == alu(instr.op, regs[instr.a], regs[instr.b]) IN
       \/ \E v \in result : Go([regs EXCEPT ![instr.d] = v])
       \/ result = {} /\ Fault(FaultOf(instr.op))

(* Mutant of Pair: the high word is written first. *)
PairHighFirst(dlo, dhi, n) ==
    [regs EXCEPT ![dhi] = n \div Modulus, ![dlo] = n % Modulus]

(* set_reg(dlo), then set_reg(dhi) *)
Pair(dlo, dhi, n) ==
    [regs EXCEPT ![dlo] = n % Modulus, ![dhi] = n \div Modulus]

AluWide ==
    /\ Executing({"DivW", "RemW"})
    /\ LET n == wide(regs[instr.ahi], regs[instr.alo])
           v == wide(regs[instr.bhi], regs[instr.blo])
           result == IF instr.op = "DivW" THEN n \div v ELSE n % v
       IN  IF v = 0 THEN Fault("DivByZero")
           ELSE Go(Pair(instr.dlo, instr.dhi, result))

Next == Fetch \/ Ldi \/ Alu \/ AluWide

Spec == Init /\ [][Next]_vars

(***************************************************************************)
(* Properties                                                              *)
(***************************************************************************)
(* The pairs of words in registers, once an instruction is done *)
Pairs == {<<regs[p[1]], regs[p[2]]>> :
            p \in IF instr = None THEN Reg \X Reg ELSE {}}

(* The opcodes that compiled 128-bit code combines agree with each other   *)
(* on every pair of words: the carry and borrow tests, the two halves of a *)
(* product, checked arithmetic faulting exactly when the wrapping opcode   *)
(* loses something, and the two comparisons.                               *)
OpcodesAgree ==
    \A p \in Pairs :
        LET x == p[1]
            y == p[2]
            sum == wrapping("AddW", x, y)
            low == wrapping("MulW", x, y)
            high == wrapping("MulHi", x, y)
        IN  /\ checked("Add", x, y) =
                    IF compare("LtU", sum, x) = 1 THEN {} ELSE {sum}
            /\ checked("Sub", x, y) =
                    IF compare("LtU", x, y) = 1 THEN {}
                    ELSE {wrapping("SubW", x, y)}
            /\ checked("Mul", x, y) = IF high = 0 THEN {low} ELSE {}
            /\ wide(high, low) = x * y
            /\ wrapping("SubW", sum, y) = x
            /\ compare("LtU", x, y) + compare("GtU", x, y)
                    + compare("Eq", x, y) = 1
            /\ \A q \in checked("Div", x, y), r \in checked("Rem", x, y) :
                    q * y + r = x /\ r < y

(* Bit i of a word *)
Bit(x, i) == (x \div 2^i) % 2

(* The bit opcodes act on each bit alone, NOT is the two's complement one, *)
(* and a shift by an amount of BITS or more moves by the amount reduced,   *)
(* losing nothing it should keep (the & 63 of Shl and Shr).                *)
BitByBit ==
    \A p \in Pairs : \A i \in 0..(BITS - 1) :
        LET x == p[1]
            y == p[2]
            s == y % BITS
        IN  /\ Bit(bits("And", x, y), i) = Bit(x, i) * Bit(y, i)
            /\ Bit(bits("Or", x, y), i) = Truth(Bit(x, i) + Bit(y, i) > 0)
            /\ Bit(bits("Xor", x, y), i) = Truth(Bit(x, i) # Bit(y, i))
            /\ bits("Not", x, x) = wrapping("SubW", Modulus - 1, x)
            /\ wrapping("AddW", bits("Not", x, x), 1) = wrapping("SubW", 0, x)
            /\ Bit(bits("Shl", x, y), i) = IF i < s THEN 0 ELSE Bit(x, i - s)
            /\ Bit(bits("Shr", x, y), i) =
                    IF i + s < BITS THEN Bit(x, i + s) ELSE 0

(* Wide division leaves the quotient, or the remainder, of the two wide    *)
(* operands in its destination pair whichever registers it shares with     *)
(* the operands, and faults exactly when the divisor is zero in both       *)
(* words. A pair that names one register twice keeps the high word.        *)
WideDivision ==
    [][Executing({"DivW", "RemW"}) =>
        LET n == wide(regs[instr.ahi], regs[instr.alo])
            v == wide(regs[instr.bhi], regs[instr.blo])
            Right(x) == IF instr.op = "DivW" THEN x * v <= n /\ n < (x + 1) * v
                        ELSE x < v /\ \E q \in 0..n : q * v + x = n
        IN  IF status' # "running" THEN v = 0
            ELSE \E lo \in Word :
                    /\ instr.dlo # instr.dhi => lo = regs'[instr.dlo]
                    /\ Right(wide(regs'[instr.dhi], lo))]_vars
=============================================================================
