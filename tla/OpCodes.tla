------------------------------ MODULE OpCodes ------------------------------
(***************************************************************************)
(* The opcodes of the machine: enum OpCode of crates/qtv-vm/src/isa.rs, by *)
(* what an instruction may touch, and the flat price of each, fn cost of   *)
(* crates/qtv-vm/src/meter.rs.                                             *)
(***************************************************************************)
ArithOps == {"Add", "Sub", "Mul", "Div", "Rem", "AddW", "SubW", "MulW",
             "MulHi", "DivW", "RemW"}
BitOps == {"And", "Or", "Xor", "Not", "Shl", "Shr", "Eq", "LtU", "GtU"}
MoveOps == {"Nop", "Mov", "Ldi", "Ldc"}
StackOps == {"Push", "Pop", "MLoad", "MStore"}
FlowOps == {"Jmp", "Jz", "Jnz", "Call", "Ret"}
VerifyOps == {"VerifyMl", "VerifySlh", "MerkleVerify", "Addr"}
EffectOps == {"SLoad", "SStore", "Send", "Emit", "Hash"}
PlainOps == ArithOps \cup BitOps \cup MoveOps \cup StackOps \cup FlowOps
OpCode == {"Halt"} \cup PlainOps \cup VerifyOps \cup EffectOps

(* fn cost *)
SourceCost == [op \in OpCode |->
    CASE op = "Halt" -> 0
      [] op \in BitOps \cup MoveOps \cup {"Nop"} -> 1
      [] op \in {"Add", "Sub", "AddW", "SubW"} -> 2
      [] op \in {"Mul", "MulW", "MulHi"} -> 3
      [] op \in {"Div", "Rem"} -> 4
      [] op \in {"DivW", "RemW"} -> 8
      [] op \in {"Push", "Pop", "Jmp", "Jz", "Jnz", "Ret"} -> 2
      [] op \in {"MLoad", "MStore", "Call"} -> 3
      [] op = "SLoad" -> 100
      [] op = "SStore" -> 500
      [] op \in {"Send", "Emit", "Hash"} -> 200
      [] op = "VerifyMl" -> 60000
      [] op = "VerifySlh" -> 340000
      [] op = "MerkleVerify" -> 512
      [] op = "Addr" -> 4000]
=============================================================================
