----------------------------- MODULE CallProofs -----------------------------
(***************************************************************************)
(* Theorems about module Call, for every schedule, set of keys, manifest,  *)
(* program and limit.                                                      *)
(***************************************************************************)
EXTENDS Call, FiniteSetTheorems, Induction

(***************************************************************************)
(* The operators                                                           *)
(***************************************************************************)
(* A saturated price is a natural number. *)
LEMMA SaturateIsNat ==
    ASSUME NEW n \in Nat
    PROVE  Saturate(n) \in Nat
BY PricesAreNaturals DEF Saturate, Prices

(* The keccak block count of a length is a natural number. *)
LEMMA BlocksAreNat ==
    ASSUME NEW n \in Nat
    PROVE  keccak_blocks(n) \in Nat
BY RatesArePositive DEF keccak_blocks

(* Opening an entry costs a natural number, whatever the size of its code. *)
LEMMA DispatchIsNat ==
    ASSUME NEW n \in Nat
    PROVE  dispatch(n) \in Nat
<1>1. n * CODE_SCAN_PER_BYTE \in Nat
  BY PricesAreNaturals DEF Prices
<1>2. DISPATCH + Saturate(n * CODE_SCAN_PER_BYTE) \in Nat
  BY <1>1, SaturateIsNat, PricesAreNaturals DEF Prices
<1> QED BY <1>2, SaturateIsNat DEF dispatch

(* The prices, one by one *)
LEMMA PriceTypes ==
    /\ EFFECT_BYTE \in Nat /\ EVENT_BYTE - EFFECT_BYTE \in Nat
    /\ EFFECTS_BYTES_CAP \in Nat /\ EFFECT_RECORD_OVERHEAD \in Nat
    /\ KEYED_SLOT_METER \in Nat /\ KEYED_READ_METER \in Nat
    /\ EVENT_RECORD_METER \in Nat
    /\ FREE_EVENT_RECORDS \in Nat /\ FREE_DIRTY_SLOTS \in Nat
BY PricesAreNaturals, EventBytesCoverEffectBytes DEF Prices

(* The length-scaled price of an opcode is a natural number. *)
LEMMA VariableIsNat ==
    ASSUME NEW op \in OpCode, NEW len \in Nat
    PROVE  Variable(op, len) \in Nat
<1>1. \A n \in Nat : hash_variable(n) \in Nat
  <2> TAKE n \in Nat
  <2>1. keccak_blocks(n) * HASH_BLOCK \in Nat
    BY BlocksAreNat, PricesAreNaturals DEF Prices
  <2> QED BY <2>1, SaturateIsNat DEF hash_variable
<1>2. \A n \in Nat : message_variable(n) \in Nat
  <2> TAKE n \in Nat
  <2>1. keccak_blocks(n) * VERIFY_MESSAGE_BLOCK \in Nat
    BY BlocksAreNat, PricesAreNaturals DEF Prices
  <2> QED BY <2>1, SaturateIsNat DEF message_variable
<1>3. \A n \in Nat : merkle_variable(n) \in Nat
  <2> TAKE n \in Nat
  <2>1. (n \div HASH_BYTES) * MERKLE_LEVEL \in Nat
    BY RatesArePositive, PricesAreNaturals DEF Prices
  <2> QED BY <2>1, SaturateIsNat DEF merkle_variable
<1>4. \A o \in VerifyOps : Excess(len, header[o]) \in Nat
  BY HeadersAreNatural DEF Excess
<1> QED BY <1>1, <1>2, <1>3, <1>4 DEF Variable, VerifyOps

(* Every instruction but HALT has a positive price. *)
LEMMA PriceIsPositive ==
    ASSUME NEW op \in OpCode, NEW len \in Nat
    PROVE  /\ Price(op, len) \in Nat
           /\ op # "Halt" => Price(op, len) > 0
BY VariableIsNat, CostIsNatural, OnlyHaltIsFree DEF Price

(* What a call sees under a key is a word. *)
LEMMA LookupIsWord ==
    ASSUME TypeOK, NEW k \in Key
    PROVE  Lookup(k) \in Word
<1>1. storage[k] \in Word \cup {Absent} /\ loaded[k] \in Word \cup {Absent}
  BY DEF TypeOK
<1>2. ledger[k] \in Word
  BY CallsAreTyped DEF TypeOK
<1> QED BY <1>1, <1>2, WordHasZero DEF Lookup, Fetches

(* The cache stays a map from keys to words. *)
LEMMA CachedIsTyped ==
    ASSUME TypeOK, NEW k \in Key
    PROVE  Cached(k) \in [Key -> Word \cup {Absent}]
<1>1. ledger[k] \in Word
  BY CallsAreTyped DEF TypeOK
<1> QED BY <1>1 DEF Cached, TypeOK

(* Opening a call costs a natural number. *)
LEMMA OpeningIsNat ==
    ASSUME call.code_len \in Nat
    PROVE  Opening \in Nat
BY DispatchIsNat DEF Opening

(***************************************************************************)
(* Type correctness                                                        *)
(***************************************************************************)
(* A fault keeps the types: it changes the status alone. *)
LEMMA AbortKeepsTypes ==
    ASSUME TypeOK, NEW fault \in Fault, Abort(fault)
    PROVE  TypeOK'
BY DEF TypeOK, Abort, env, rows, keyed, output

(* The faults of an opcode are faults. *)
LEMMA OwnFaultsAreFaults ==
    ASSUME NEW op \in OpCode
    PROVE  OwnFaults(op) \subseteq Fault
BY DEF OwnFaults, Fault

(* The history variable parity stays a parity. *)
LEMMA ChargeFlipsParity ==
    ASSUME TypeOK, NEW n, charge(n)
    PROVE  parity' \in {0, 1}
BY DEF TypeOK, charge

LEMMA ComputeKeepsTypes ==
    ASSUME TypeOK, NEW op \in OpCode, NEW len \in Nat, Compute(op, len)
    PROVE  TypeOK'
<1>0. Price(op, len) \in Nat
  BY PriceIsPositive
<1>1. meter_used' \in Nat
  BY <1>0 DEF TypeOK, Compute, charge
<1> QED BY <1>1, ChargeFlipsParity DEF TypeOK, Compute, env, rows, keyed, output

LEMMA HaltKeepsTypes ==
    ASSUME TypeOK, Halt
    PROVE  TypeOK'
<1>1. meter_used' \in Nat
  BY CostIsNatural DEF TypeOK, Halt, charge, OpCode
<1> QED BY <1>1, ChargeFlipsParity DEF TypeOK, Halt, env, rows, keyed, output

LEMMA SLoadKeepsTypes ==
    ASSUME TypeOK, NEW k \in Key, SLoad(k)
    PROVE  TypeOK'
<1>1. meter_used' \in Nat
  BY CostIsNatural DEF TypeOK, SLoad, charge, OpCode, EffectOps
<1>2. read' \in Word /\ loaded' \in [Key -> Word \cup {Absent}]
  BY LookupIsWord, CachedIsTyped DEF SLoad
<1> QED BY <1>1, <1>2, ChargeFlipsParity DEF TypeOK, SLoad, env, keyed, output

LEMMA SStoreKeepsTypes ==
    ASSUME TypeOK, NEW k \in Key, NEW v \in Word, SStore(k, v)
    PROVE  TypeOK'
<1>1. meter_used' \in Nat
  <2>1. cost["SStore"] \in Nat /\ KEYED_SLOT_METER \in Nat
    BY CostIsNatural, PricesAreNaturals DEF OpCode, EffectOps, Prices
  <2> QED BY <2>1 DEF TypeOK, SStore, charge, StorePrice
<1>2. loaded' \in [Key -> Word \cup {Absent}]
  BY CachedIsTyped DEF SStore, TypeOK
<1>3. storage' \in [Key -> Word \cup {Absent}]
  BY DEF SStore, TypeOK
<1>4. leaf_paid' \in [Key -> Nat]
  BY DEF SStore, TypeOK
<1>5. dirty' \subseteq Key /\ fresh_charged' \subseteq Key
  BY DEF SStore, TypeOK
<1> QED BY <1>1, <1>2, <1>3, <1>4, <1>5, ChargeFlipsParity
           DEF TypeOK, SStore, env, keyed, output

(* What HASH may charge and retain is a natural number. *)
LEMMA KeyedChargesAreNat ==
    ASSUME TypeOK, NEW p \in Region
    PROVE  KeyedFee(p) \in Nat /\ KeyedRetained(p) \in Nat
<1>1. KEYED_READ_METER \in Nat /\ KEYED_SLOT_METER \in Nat
  BY PricesAreNaturals DEF Prices
<1>2. KeyedFee(p) \in Nat
  BY <1>1 DEF KeyedFee
<1>3. KeyedEntries(p) \in Nat
  BY DEF KeyedEntries
<1>4. STORAGE_KEY_BYTES * KeyedEntries(p) \in Nat
  BY <1>3, SizesAreNaturals
<1> QED BY <1>2, <1>4 DEF KeyedRetained, TypeOK

LEMMA RegionLengths ==
    ASSUME NEW p \in Region
    PROVE  p \in Seq(Nat) /\ Len(p) \in Nat
BY RegionsAreBytes

LEMMA HashKeepsTypes ==
    ASSUME TypeOK, NEW p \in Region, Hash(p)
    PROVE  TypeOK'
<1>1. Price("Hash", Len(p)) \in Nat
  BY PriceIsPositive, RegionLengths DEF OpCode, EffectOps
<1>2. meter_used' \in Nat
  BY <1>1, KeyedChargesAreNat DEF TypeOK, Hash, charge
<1>3. keyed_bytes' \in Nat
  BY KeyedChargesAreNat DEF Hash
<1>4. Digest[p] \in Key
  BY DigestsAreKeys
<1>5. keyed_authorized_reads' \subseteq Key /\ keyed_authorized_writes' \subseteq Key
  BY <1>4 DEF TypeOK, Hash
<1> QED BY <1>2, <1>3, <1>5, ChargeFlipsParity DEF TypeOK, Hash, env, rows, output

(* The prices of effects are natural numbers. *)
LEMMA EffectChargesAreNat ==
    ASSUME TypeOK, NEW data \in Region, NEW op \in {"Send", "Emit"},
           NEW targets
    PROVE  /\ EffectPrice(op, data) \in Nat
           /\ EffectRetained(data) \in Nat
           /\ TargetFee(targets) \in Nat
           /\ RecordFee \in Nat
<1>1. Len(data) * EFFECT_BYTE \in Nat
  BY RegionLengths, PricesAreNaturals DEF Prices
<1>2. cost[op] \in Nat
  BY CostIsNatural DEF OpCode, EffectOps
<1>3. EffectPrice(op, data) \in Nat
  BY <1>1, <1>2 DEF EffectPrice
<1>4. EffectRetained(data) \in Nat
  <2>1. Len(data) \in Nat /\ effects_bytes \in Nat
    BY RegionLengths DEF TypeOK
  <2> QED BY <2>1, PriceTypes DEF EffectRetained
<1>5. TargetFee(targets) \in Nat
  BY PricesAreNaturals DEF Prices, TargetFee
<1>6. RecordFee \in Nat
  BY PricesAreNaturals DEF Prices, RecordFee
<1> QED BY <1>3, <1>4, <1>5, <1>6

LEMMA SendKeepsTypes ==
    ASSUME TypeOK, NEW to \in Region, NEW amount \in Word, Send(to, amount)
    PROVE  TypeOK'
<1>1. SendPrice(to) \in Nat /\ EffectRetained(to) \in Nat
  BY EffectChargesAreNat DEF SendPrice
<1>2. meter_used' \in Nat /\ effects_bytes' \in Nat
  BY <1>1 DEF TypeOK, Send, charge
<1>3. durable_targets' \subseteq {DURABLE_TRANSFER, DURABLE_MINT} \X Seq(Nat)
  BY RegionLengths DEF TypeOK, Send
<1>4. [kind |-> "Transfer", to |-> to, amount |-> amount] \in Effect
  BY DEF Effect
<1>5. effects' \in Seq(Effect)
  BY <1>4 DEF TypeOK, Send
<1> QED BY <1>2, <1>3, <1>5, ChargeFlipsParity DEF TypeOK, Send, env, rows, keyed

(* A mint record has a holder. *)
LEMMA MintTargetsAreTargets ==
    ASSUME NEW sel \in Selector, NEW data \in Region
    PROVE  MintTargets(sel, data) \subseteq {DURABLE_MINT} \X Seq(Nat)
<1>1. CASE Len(data) >= ASSET_MINT_DATA_BYTES
  <2>1. /\ data \in Seq(Nat) /\ Len(data) \in Nat /\ HOLDER_BYTES \in Nat
        /\ HOLDER_BYTES <= Len(data)
    BY <1>1, RegionLengths, SizesAreNaturals, HolderFits
  <2>2. \A i \in 1..HOLDER_BYTES : data[i] \in Nat
    BY <2>1
  <2>3. SubSeq(data, 1, HOLDER_BYTES) \in Seq(Nat)
    BY <2>1, <2>2
  <2>4. <<DURABLE_MINT, SubSeq(data, 1, HOLDER_BYTES)>>
            \in {DURABLE_MINT} \X Seq(Nat)
    BY <2>3
  <2> QED BY <2>4 DEF MintTargets
<1>2. CASE ~(Len(data) >= ASSET_MINT_DATA_BYTES)
  BY <1>2 DEF MintTargets
<1> QED BY <1>1, <1>2

LEMMA EmitPriceIsNat ==
    ASSUME TypeOK, NEW sel \in Selector, NEW data \in Region
    PROVE  EmitPrice(sel, data) \in Nat
<1>1. Len(data) * (EVENT_BYTE - EFFECT_BYTE) \in Nat
  <2>1. Len(data) \in Nat
    BY RegionLengths
  <2> QED BY <2>1, PriceTypes
<1>2. /\ EffectPrice("Emit", data) \in Nat
      /\ TargetFee(MintTargets(sel, data)) \in Nat
      /\ RecordFee \in Nat
  BY EffectChargesAreNat
<1> QED BY <1>1, <1>2 DEF EmitPrice

LEMMA EmitKeepsTypes ==
    ASSUME TypeOK, NEW sel \in Selector, NEW data \in Region, Emit(sel, data)
    PROVE  TypeOK'
<1>1. meter_used' \in Nat /\ effects_bytes' \in Nat /\ event_records' \in Nat
  <2>1. EmitPrice(sel, data) \in Nat /\ EffectRetained(data) \in Nat
    BY EmitPriceIsNat, EffectChargesAreNat
  <2> QED BY <2>1 DEF TypeOK, Emit, charge
<1>2. durable_targets' \subseteq {DURABLE_TRANSFER, DURABLE_MINT} \X Seq(Nat)
  BY MintTargetsAreTargets DEF TypeOK, Emit
<1>3. Truncated(sel) \in 0..U32_MAX
  BY SelectorsAreWords, PricesAreNaturals, SizesAreNaturals
     DEF Truncated, Prices
<1>4. [kind |-> "Event", selector |-> Truncated(sel), data |-> data] \in Effect
  BY <1>3 DEF Effect
<1>5. effects' \in Seq(Effect)
  BY <1>4 DEF TypeOK, Emit
<1> QED BY <1>1, <1>2, <1>5, ChargeFlipsParity DEF TypeOK, Emit, env, rows, keyed

LEMMA InitIsTyped == Init => TypeOK
<1> SUFFICES ASSUME Init PROVE TypeOK
  OBVIOUS
<1>1. call.code_len \in Nat /\ call.preset \in [Key -> Word \cup {Absent}]
  BY CallsAreTyped DEF Init
<1>2. meter_used \in Nat
  BY <1>1, OpeningIsNat DEF Init
<1>3. effects \in Seq(Effect)
  BY DEF Init
<1> QED BY <1>1, <1>2, <1>3, WordHasZero DEF Init, TypeOK

LEMMA StepKeepsTypes == TypeOK /\ [Next]_vars => TypeOK'
<1> SUFFICES ASSUME TypeOK, [Next]_vars PROVE TypeOK'
  OBVIOUS
<1> USE LengthsAreWords, PricesAreNaturals, ProgramOpsAreOpCodes
<1>1. CASE DecodeFault
  BY <1>1, AbortKeepsTypes DEF DecodeFault, Fault
<1>2. ASSUME NEW op \in ProgramOps, NEW len \in Length, OutOfMeter(op, len)
      PROVE  TypeOK'
  BY <1>2, AbortKeepsTypes DEF OutOfMeter, Fault
<1>3. ASSUME NEW op \in ProgramOps, NEW len \in Length, OwnFault(op, len)
      PROVE  TypeOK'
  BY <1>3, AbortKeepsTypes, OwnFaultsAreFaults DEF OwnFault
<1>4. ASSUME NEW op \in ProgramOps, NEW len \in Length, Compute(op, len)
      PROVE  TypeOK'
  <2>1. len \in Nat /\ op \in OpCode
    BY DEF Prices
  <2> QED BY <1>4, <2>1, ComputeKeepsTypes
<1>5. CASE Halt
  BY <1>5, HaltKeepsTypes
<1>6. ASSUME NEW k \in Key, SLoad(k) \/ UndeclaredSlot(k)
      PROVE  TypeOK'
  BY <1>6, SLoadKeepsTypes, AbortKeepsTypes DEF UndeclaredSlot, Fault
<1>7. ASSUME NEW k \in Key, NEW v \in Word, SStore(k, v) \/ StoreOutOfMeter(k, v)
      PROVE  TypeOK'
  BY <1>7, SStoreKeepsTypes, AbortKeepsTypes DEF StoreOutOfMeter, Fault
<1>8. ASSUME NEW p \in Region, Hash(p) \/ HashFault(p)
      PROVE  TypeOK'
  BY <1>8, HashKeepsTypes, AbortKeepsTypes DEF HashFault, Fault
<1>9. ASSUME NEW to \in Region, NEW amount \in Word, Send(to, amount)
      PROVE  TypeOK'
  BY <1>9, SendKeepsTypes
<1>10. ASSUME NEW op, NEW data, NEW price, EffectFault(op, data, price)
       PROVE  TypeOK'
  BY <1>10, AbortKeepsTypes DEF EffectFault, Fault
<1>11. ASSUME NEW sel \in Selector, NEW data \in Region, Emit(sel, data)
       PROVE  TypeOK'
  BY <1>11, EmitKeepsTypes
<1>12. ASSUME NEW sel \in Selector, BadSelector(sel)
       PROVE  TypeOK'
  BY <1>12, AbortKeepsTypes DEF BadSelector, Fault
<1>13. CASE UNCHANGED vars
  BY <1>13 DEF TypeOK, vars, env, rows, keyed, output
<1> QED
  BY <1>1, <1>2, <1>3, <1>4, <1>5, <1>6, <1>7, <1>8, <1>9, <1>10, <1>11,
     <1>12, <1>13 DEF Next, Step, Returned

(* Type correctness: the state of a call stays within the types of         *)
(* Interpreter's fields.                                                   *)
THEOREM TypeCorrect == Spec => []TypeOK
<1>1. Init => TypeOK
  BY InitIsTyped
<1>2. TypeOK /\ [Next]_vars => TypeOK'
  BY StepKeepsTypes
<1> QED BY <1>1, <1>2, PTL DEF Spec

(***************************************************************************)
(* The steps of a call, with the faults taken together                     *)
(***************************************************************************)
LEMMA StepCases ==
    ASSUME TypeOK, [Next]_vars
    PROVE  \/ \E fault \in Fault : Abort(fault)
           \/ \E op \in OpCode, len \in Nat : Compute(op, len)
           \/ Halt
           \/ \E k \in Key : SLoad(k)
           \/ \E k \in Key, v \in Word : SStore(k, v)
           \/ \E p \in Region : Hash(p)
           \/ \E to \in Region, amount \in Word : Send(to, amount)
           \/ \E sel \in Selector, data \in Region : Emit(sel, data)
           \/ UNCHANGED vars
<1> DEFINE Faulted == \E fault \in Fault : Abort(fault)
<1>1. DecodeFault => Faulted
  BY DEF DecodeFault, Fault
<1>2. \A op \in ProgramOps, len \in Length : OutOfMeter(op, len) => Faulted
  BY DEF OutOfMeter, Fault
<1>3. \A op \in ProgramOps, len \in Length : OwnFault(op, len) => Faulted
  BY ProgramOpsAreOpCodes, OwnFaultsAreFaults DEF OwnFault
<1>4. \A k \in Key : UndeclaredSlot(k) => Faulted
  BY DEF UndeclaredSlot, Fault
<1>5. \A k \in Key, v \in Word : StoreOutOfMeter(k, v) => Faulted
  BY DEF StoreOutOfMeter, Fault
<1>6. \A p \in Region : HashFault(p) => Faulted
  BY DEF HashFault, Fault
<1>7. \A op, data, price : EffectFault(op, data, price) => Faulted
  BY DEF EffectFault, Fault
<1>8. \A sel \in Selector : BadSelector(sel) => Faulted
  BY DEF BadSelector, Fault
<1>9. ProgramOps \subseteq OpCode /\ Length \subseteq Nat
  BY ProgramOpsAreOpCodes, LengthsAreWords, PricesAreNaturals DEF Prices
<1> HIDE DEF Faulted
<1>10. CASE Step
  BY <1>1, <1>2, <1>3, <1>4, <1>5, <1>6, <1>7, <1>8, <1>9, <1>10
     DEF Step, Faulted
<1>11. CASE Returned \/ UNCHANGED vars
  BY <1>11 DEF Returned
<1> QED BY <1>10, <1>11 DEF Next

(***************************************************************************)
(* Every step pays                                                         *)
(***************************************************************************)
LEMMA StepPays ==
    ASSUME TypeOK, [Next]_vars
    PROVE  [status' = "running" => meter_used' > meter_used]_vars
<1> SUFFICES ASSUME status' = "running", ~UNCHANGED vars
             PROVE  meter_used' > meter_used
  OBVIOUS
<1> USE CostIsNatural, OnlyHaltIsFree, PriceTypes
<1>1. \A fault \in Fault : ~Abort(fault)
  BY DEF Abort, Fault
<1>2. ASSUME NEW op \in OpCode, NEW len \in Nat, Compute(op, len)
      PROVE  meter_used' > meter_used
  <2>1. op # "Halt"
    BY <1>2 DEF Compute, PlainOps, VerifyOps, ArithOps, BitOps, MoveOps,
                StackOps, FlowOps
  <2>2. Price(op, len) \in Nat /\ Price(op, len) > 0
    BY <2>1, PriceIsPositive
  <2> QED BY <1>2, <2>2 DEF Compute, charge, TypeOK
<1>3. ~Halt
  BY DEF Halt
<1>4. \A op \in EffectOps : cost[op] \in Nat /\ cost[op] > 0
  BY DEF EffectOps, OpCode
<1>5. ASSUME NEW k \in Key, SLoad(k)
      PROVE  meter_used' > meter_used
  BY <1>4, <1>5 DEF SLoad, charge, TypeOK, EffectOps
<1>6. ASSUME NEW k \in Key, NEW v \in Word, SStore(k, v)
      PROVE  meter_used' > meter_used
  <2>1. StorePrice(k, v) \in Nat /\ StorePrice(k, v) > 0
    BY <1>4 DEF StorePrice, EffectOps
  <2> QED BY <1>6, <2>1 DEF SStore, charge, TypeOK
<1>7. ASSUME NEW p \in Region, Hash(p)
      PROVE  meter_used' > meter_used
  <2>1. Price("Hash", Len(p)) \in Nat /\ Price("Hash", Len(p)) > 0
    BY PriceIsPositive, RegionLengths DEF OpCode, EffectOps
  <2>2. KeyedFee(p) \in Nat
    BY KeyedChargesAreNat
  <2> QED BY <1>7, <2>1, <2>2 DEF Hash, charge, TypeOK
<1>8. ASSUME NEW to \in Region, NEW amount \in Word, Send(to, amount)
      PROVE  meter_used' > meter_used
  <2>1. Len(to) * EFFECT_BYTE \in Nat
    BY RegionLengths
  <2>2. EffectPrice("Send", to) \in Nat /\ EffectPrice("Send", to) > 0
    BY <1>4, <2>1 DEF EffectPrice, EffectOps
  <2>3. TargetFee({<<DURABLE_TRANSFER, to>>}) \in Nat
    BY EffectChargesAreNat
  <2>4. SendPrice(to) \in Nat /\ SendPrice(to) > 0
    BY <2>2, <2>3 DEF SendPrice
  <2> QED BY <1>8, <2>4 DEF Send, charge, TypeOK
<1>9. ASSUME NEW sel \in Selector, NEW data \in Region, Emit(sel, data)
      PROVE  meter_used' > meter_used
  <2>1. Len(data) * EFFECT_BYTE \in Nat
        /\ Len(data) * (EVENT_BYTE - EFFECT_BYTE) \in Nat
    BY RegionLengths
  <2>2. EffectPrice("Emit", data) \in Nat /\ EffectPrice("Emit", data) > 0
    BY <1>4, <2>1 DEF EffectPrice, EffectOps
  <2>3. TargetFee(MintTargets(sel, data)) \in Nat /\ RecordFee \in Nat
    BY EffectChargesAreNat
  <2>4. EmitPrice(sel, data) \in Nat /\ EmitPrice(sel, data) > 0
    BY <2>1, <2>2, <2>3 DEF EmitPrice
  <2> QED BY <1>9, <2>4 DEF Emit, charge, TypeOK
<1> QED BY <1>1, <1>2, <1>3, <1>5, <1>6, <1>7, <1>8, <1>9, StepCases

(* No program makes a step for free: the meter of a call that goes on has  *)
(* grown, so a call makes at most meter_limit steps.                       *)
THEOREM EveryStepIsPaid == Spec => EveryStepPays
<1>1. TypeOK /\ [Next]_vars
        => [status' = "running" => meter_used' > meter_used]_vars
  BY StepPays
<1> QED BY <1>1, TypeCorrect, PTL DEF Spec, EveryStepPays

(***************************************************************************)
(* The rows of a call                                                      *)
(***************************************************************************)
(* The cache holds what the loader answered, for keys without a preset     *)
(* row; a row that is not dirty is still the preset one, and a dirty row   *)
(* is there.                                                               *)
RowsAgree ==
    /\ \A k \in Key : loaded[k] # Absent =>
            loaded[k] = ledger[k] /\ call.loader /\ call.preset[k] = Absent
    /\ \A k \in Key : k \notin dirty => storage[k] = call.preset[k]
    /\ \A k \in dirty : storage[k] # Absent

(* A key charged as fresh is dirty and has a paid leaf. *)
FreshKeysArePaid ==
    \A k \in fresh_charged : k \in dirty /\ leaf_paid[k] > 0

(* A key is authorised only as the digest of a declared base, and for      *)
(* reading if it is for writing.                                           *)
KeysAreDerived ==
    /\ keyed_authorized_writes \subseteq keyed_authorized_reads
    /\ call.manifest # NoManifest =>
        /\ keyed_authorized_writes \subseteq KeyedBy(call.manifest.keyed_writes)
        /\ keyed_authorized_reads \subseteq
                KeyedBy(call.manifest.keyed_reads)
                    \cup KeyedBy(call.manifest.keyed_writes)

RowsInv == RowsAgree /\ FreshKeysArePaid /\ KeysAreDerived

LEMMA LookupValue ==
    ASSUME NEW k \in Key
    PROVE  Lookup(k) = IF storage[k] # Absent THEN storage[k]
                       ELSE IF loaded[k] # Absent THEN loaded[k]
                       ELSE IF call.loader THEN ledger[k] ELSE 0
BY DEF Lookup, Fetches

LEMMA CommittedValue ==
    ASSUME NEW k \in Key
    PROVE  Committed(k) = IF call.preset[k] # Absent THEN call.preset[k]
                          ELSE IF call.loader THEN ledger[k] ELSE 0
BY DEF Committed

(* What a call sees under a key it has not written is the state before the *)
(* call.                                                                   *)
LEMMA CleanLookup ==
    ASSUME RowsAgree, NEW k \in Key, k \notin dirty
    PROVE  Lookup(k) = Committed(k)
BY LookupValue, CommittedValue DEF RowsAgree

(* Looking a key up keeps the cache in agreement with the loader. *)
LEMMA CachedAgrees ==
    ASSUME TypeOK, RowsAgree, NEW k \in Key
    PROVE  \A j \in Key : Cached(k)[j] # Absent =>
                /\ Cached(k)[j] = ledger[j] /\ call.loader
                /\ call.preset[j] = Absent
<1>1. CASE Fetches(k)
  <2>1. k \notin dirty /\ storage[k] = Absent
    BY <1>1 DEF Fetches, RowsAgree
  <2>2. call.preset[k] = Absent /\ call.loader
    BY <1>1, <2>1 DEF Fetches, RowsAgree
  <2> QED BY <1>1, <2>2 DEF Cached, RowsAgree, TypeOK
<1>2. CASE ~Fetches(k)
  BY <1>2 DEF Cached, RowsAgree
<1> QED BY <1>1, <1>2

LEMMA InitRows == Init => RowsInv
<1> SUFFICES ASSUME Init PROVE RowsInv
  OBVIOUS
<1>1. RowsAgree
  BY DEF Init, RowsAgree
<1>2. FreshKeysArePaid /\ KeysAreDerived
  BY DEF Init, FreshKeysArePaid, KeysAreDerived
<1> QED BY <1>1, <1>2 DEF RowsInv

(* A step that touches neither the rows nor the authorisations *)
LEMMA QuietStepKeepsRows ==
    ASSUME RowsInv, UNCHANGED <<call, ledger, rows, keyed>>
    PROVE  RowsInv'
<1>1. RowsAgree'
  BY DEF RowsInv, RowsAgree, rows
<1>2. FreshKeysArePaid'
  BY DEF RowsInv, FreshKeysArePaid, rows
<1>3. KeysAreDerived'
  BY DEF RowsInv, KeysAreDerived, keyed, KeyedBy, Declares
<1> QED BY <1>1, <1>2, <1>3 DEF RowsInv

LEMMA SLoadKeepsRows ==
    ASSUME TypeOK, RowsInv, NEW k \in Key, SLoad(k)
    PROVE  RowsInv'
<1>1. RowsAgree'
  <2>1. \A j \in Key : loaded'[j] # Absent =>
            loaded'[j] = ledger[j] /\ call.loader /\ call.preset[j] = Absent
    BY CachedAgrees DEF SLoad, RowsInv
  <2> QED BY <2>1 DEF SLoad, RowsInv, RowsAgree, env
<1>2. FreshKeysArePaid'
  BY DEF SLoad, RowsInv, FreshKeysArePaid
<1>3. KeysAreDerived'
  BY DEF SLoad, RowsInv, KeysAreDerived, keyed, KeyedBy, Declares, env
<1> QED BY <1>1, <1>2, <1>3 DEF RowsInv

LEMMA SStoreKeepsRows ==
    ASSUME TypeOK, RowsInv, NEW k \in Key, NEW v \in Word, SStore(k, v)
    PROVE  RowsInv'
<1>1. RowsAgree'
  <2>1. \A j \in Key : loaded'[j] # Absent =>
            loaded'[j] = ledger[j] /\ call.loader /\ call.preset[j] = Absent
    <3>1. loaded' = Cached(k) \/ loaded' = loaded
      BY DEF SStore
    <3> QED BY <3>1, CachedAgrees DEF RowsInv, RowsAgree
  <2>2. storage' = [storage EXCEPT ![k] = v] /\ dirty' = dirty \cup {k}
        /\ v # Absent /\ UNCHANGED <<call, ledger>>
    BY WordHasZero DEF SStore, env
  <2>3. \A j \in Key : j \notin dirty' => storage'[j] = call.preset[j]
    BY <2>2 DEF RowsInv, RowsAgree, TypeOK
  <2>4. \A j \in dirty' : storage'[j] # Absent
    BY <2>2 DEF RowsInv, RowsAgree, TypeOK
  <2> QED BY <2>1, <2>2, <2>3, <2>4 DEF RowsAgree
<1>2. FreshKeysArePaid'
  <2>1. \A j \in Key : leaf_paid'[j] >= leaf_paid[j]
    BY DEF SStore, TypeOK
  <2>2. FreshLeaf(k, v) => leaf_paid'[k] > 0
    BY DEF SStore, TypeOK, LeafOwed
  <2>3. fresh_charged' = fresh_charged
        \/ (FreshLeaf(k, v) /\ fresh_charged' = fresh_charged \cup {k})
    BY DEF SStore
  <2>4. dirty' = dirty \cup {k}
    BY DEF SStore
  <2>5. \A j \in Key : leaf_paid[j] \in Nat /\ leaf_paid'[j] \in Nat
    BY DEF SStore, TypeOK
  <2>6. fresh_charged \subseteq Key
    BY DEF TypeOK
  <2> QED BY <2>1, <2>2, <2>3, <2>4, <2>5, <2>6 DEF RowsInv, FreshKeysArePaid
<1>3. KeysAreDerived'
  BY DEF SStore, RowsInv, KeysAreDerived, keyed, KeyedBy, Declares, env
<1> QED BY <1>1, <1>2, <1>3 DEF RowsInv

LEMMA HashKeepsRows ==
    ASSUME TypeOK, RowsInv, NEW p \in Region, Hash(p)
    PROVE  RowsInv'
<1>1. RowsAgree' /\ FreshKeysArePaid'
  BY DEF Hash, RowsInv, RowsAgree, FreshKeysArePaid, rows, env
<1>2. KeysAreDerived'
  <2>1. IsKeyedWrite(p) => IsKeyedRead(p)
    BY DEF IsKeyedRead
  <2>2. IsKeyedWrite(p) => call.manifest # NoManifest
            /\ Digest[p] \in KeyedBy(call.manifest.keyed_writes)
    BY DEF IsKeyedWrite, KeyedBy
  <2>3. IsKeyedRead(p) => call.manifest # NoManifest
            /\ Digest[p] \in KeyedBy(call.manifest.keyed_reads)
                    \cup KeyedBy(call.manifest.keyed_writes)
    BY <2>2 DEF IsKeyedRead, KeyedBy
  <2>4. call' = call
    BY DEF Hash, env
  <2>5. KeyedBy(call.manifest.keyed_reads)' = KeyedBy(call.manifest.keyed_reads)
        /\ KeyedBy(call.manifest.keyed_writes)' = KeyedBy(call.manifest.keyed_writes)
    BY <2>4 DEF KeyedBy, Declares
  <2> HIDE DEF KeyedBy
  <2> QED BY <2>1, <2>2, <2>3, <2>4, <2>5 DEF Hash, RowsInv, KeysAreDerived
<1> QED BY <1>1, <1>2 DEF RowsInv

LEMMA StepKeepsRows == TypeOK /\ RowsInv /\ [Next]_vars => RowsInv'
<1> SUFFICES ASSUME TypeOK, RowsInv, [Next]_vars PROVE RowsInv'
  OBVIOUS
<1>1. ASSUME NEW fault \in Fault, Abort(fault) PROVE RowsInv'
  BY <1>1, QuietStepKeepsRows DEF Abort, env
<1>2. ASSUME NEW op \in OpCode, NEW len \in Nat, Compute(op, len) PROVE RowsInv'
  BY <1>2, QuietStepKeepsRows DEF Compute, env
<1>3. CASE Halt
  BY <1>3, QuietStepKeepsRows DEF Halt, env
<1>4. ASSUME NEW to \in Region, NEW amount \in Word, Send(to, amount)
      PROVE  RowsInv'
  BY <1>4, QuietStepKeepsRows DEF Send, env
<1>5. ASSUME NEW sel \in Selector, NEW data \in Region, Emit(sel, data)
      PROVE  RowsInv'
  BY <1>5, QuietStepKeepsRows DEF Emit, env
<1>6. CASE UNCHANGED vars
  BY <1>6, QuietStepKeepsRows DEF vars, env
<1> QED BY <1>1, <1>2, <1>3, <1>4, <1>5, <1>6, SLoadKeepsRows, SStoreKeepsRows,
           HashKeepsRows, StepCases

LEMMA RowsInvariant == Spec => [](TypeOK /\ RowsInv)
<1>1. Init => RowsInv
  BY InitRows
<1>2. TypeOK /\ RowsInv /\ [Next]_vars => RowsInv'
  BY StepKeepsRows
<1> QED BY <1>1, <1>2, TypeCorrect, PTL DEF Spec

(***************************************************************************)
(* The declared footprint                                                  *)
(***************************************************************************)
LEMMA InitFootprint == Init => DeclaredFootprint
BY DEF Init, DeclaredFootprint

LEMMA QuietStepKeepsFootprint ==
    ASSUME DeclaredFootprint, UNCHANGED <<call, storage, loaded, dirty>>
    PROVE  DeclaredFootprint'
BY DEF DeclaredFootprint, KeyedBy, Declares

(* The keys that become cached are the one looked up. *)
LEMMA CachedKeys ==
    ASSUME TypeOK, NEW k \in Key
    PROVE  {j \in Key : Cached(k)[j] # Absent}
                \subseteq {j \in Key : loaded[j] # Absent} \cup {k}
BY DEF Cached, TypeOK

LEMMA SLoadKeepsFootprint ==
    ASSUME TypeOK, RowsInv, DeclaredFootprint, NEW k \in Key, SLoad(k)
    PROVE  DeclaredFootprint'
<1>1. UNCHANGED <<call, storage, dirty>> /\ loaded' = Cached(k)
  BY DEF SLoad, env
<1>2. call.manifest # NoManifest =>
            k \in call.manifest.reads \cup call.manifest.writes
                    \cup KeyedBy(call.manifest.keyed_reads)
                    \cup KeyedBy(call.manifest.keyed_writes)
  BY DEF SLoad, MayRead, RowsInv, KeysAreDerived
<1>3. \A bases : KeyedBy(bases)' = KeyedBy(bases)
  BY DEF KeyedBy, Declares
<1> QED BY <1>1, <1>2, CachedKeys DEF DeclaredFootprint, KeyedBy, Declares

LEMMA SStoreKeepsFootprint ==
    ASSUME TypeOK, RowsInv, DeclaredFootprint,
           NEW k \in Key, NEW v \in Word, SStore(k, v)
    PROVE  DeclaredFootprint'
<1>1. /\ UNCHANGED call
      /\ storage' = [storage EXCEPT ![k] = v]
      /\ dirty' = dirty \cup {k}
      /\ loaded' = Cached(k) \/ loaded' = loaded
  BY DEF SStore, env
<1>2. call.manifest # NoManifest =>
            k \in call.manifest.writes \cup KeyedBy(call.manifest.keyed_writes)
  BY DEF SStore, MayWrite, RowsInv, KeysAreDerived
<1>3. \A j \in Key : storage'[j] # call.preset[j] => j \in dirty'
  BY <1>1 DEF DeclaredFootprint, TypeOK
<1>4. {j \in Key : loaded'[j] # Absent}
            \subseteq {j \in Key : loaded[j] # Absent} \cup {k}
  BY <1>1, CachedKeys
<1> QED BY <1>1, <1>2, <1>3, <1>4 DEF DeclaredFootprint, KeyedBy, Declares

LEMMA StepKeepsFootprint ==
    TypeOK /\ RowsInv /\ DeclaredFootprint /\ [Next]_vars => DeclaredFootprint'
<1> SUFFICES ASSUME TypeOK, RowsInv, DeclaredFootprint, [Next]_vars
             PROVE  DeclaredFootprint'
  OBVIOUS
<1>1. ASSUME NEW fault \in Fault, Abort(fault) PROVE DeclaredFootprint'
  BY <1>1, QuietStepKeepsFootprint DEF Abort, env, rows
<1>2. ASSUME NEW op \in OpCode, NEW len \in Nat, Compute(op, len)
      PROVE  DeclaredFootprint'
  BY <1>2, QuietStepKeepsFootprint DEF Compute, env, rows
<1>3. CASE Halt
  BY <1>3, QuietStepKeepsFootprint DEF Halt, env, rows
<1>4. ASSUME NEW p \in Region, Hash(p) PROVE DeclaredFootprint'
  BY <1>4, QuietStepKeepsFootprint DEF Hash, env, rows
<1>5. ASSUME NEW to \in Region, NEW amount \in Word, Send(to, amount)
      PROVE  DeclaredFootprint'
  BY <1>5, QuietStepKeepsFootprint DEF Send, env, rows
<1>6. ASSUME NEW sel \in Selector, NEW data \in Region, Emit(sel, data)
      PROVE  DeclaredFootprint'
  BY <1>6, QuietStepKeepsFootprint DEF Emit, env, rows
<1>7. CASE UNCHANGED vars
  BY <1>7, QuietStepKeepsFootprint DEF vars, env, rows
<1> QED BY <1>1, <1>2, <1>3, <1>4, <1>5, <1>6, <1>7, SLoadKeepsFootprint,
           SStoreKeepsFootprint, StepCases

(* A call stays within its manifest: it dirties and changes only the rows  *)
(* it declared to write, and fetches only the rows it declared.            *)
THEOREM CallsStayDeclared == Spec => []DeclaredFootprint
<1>1. Init => DeclaredFootprint
  BY InitFootprint
<1>2. TypeOK /\ RowsInv /\ DeclaredFootprint /\ [Next]_vars => DeclaredFootprint'
  BY StepKeepsFootprint
<1> QED BY <1>1, <1>2, RowsInvariant, PTL DEF Spec

(***************************************************************************)
(* The free slots                                                          *)
(***************************************************************************)
LEMMA FiniteKeys ==
    ASSUME NEW S, S \subseteq Key
    PROVE  IsFiniteSet(S) /\ Cardinality(S) \in Nat
BY KeysAreFinite, FS_Subset, FS_CardinalityType

LEMMA SStoreKeepsFreeSlots ==
    ASSUME TypeOK, RowsInv, FreeSlotsBounded,
           NEW k \in Key, NEW v \in Word, SStore(k, v)
    PROVE  FreeSlotsBounded'
<1> DEFINE Unpaid == {j \in dirty : leaf_paid[j] = 0}
           UnpaidNext == {j \in dirty' : leaf_paid'[j] = 0}
<1>1. dirty' = dirty \cup {k} /\ dirty \subseteq Key
  BY DEF SStore, TypeOK
<1>2. Cardinality(Unpaid) <= FREE_DIRTY_SLOTS
  BY DEF FreeSlotsBounded
<1>3. CASE LeafOwed(k, v) \/ k \in dirty
  <2>1. UnpaidNext \subseteq Unpaid
    <3>1. CASE LeafOwed(k, v)
      <4>1. leaf_paid' = [leaf_paid EXCEPT ![k] = @ + 1]
        BY <3>1 DEF SStore
      <4>2. leaf_paid'[k] # 0 /\ \A j \in Key \ {k} : leaf_paid'[j] = leaf_paid[j]
        BY <4>1 DEF TypeOK
      <4> QED BY <4>2, <1>1
    <3>2. CASE ~LeafOwed(k, v) /\ k \in dirty
      <4>1. leaf_paid' = leaf_paid
        BY <3>2 DEF SStore
      <4> QED BY <3>2, <4>1, <1>1
    <3> QED BY <1>3, <3>1, <3>2
  <2>2. IsFiniteSet(Unpaid) /\ Cardinality(Unpaid) \in Nat
    BY <1>1, FiniteKeys
  <2>3. Cardinality(UnpaidNext) <= Cardinality(Unpaid)
    BY <2>1, <2>2, FS_Subset
  <2>4. Cardinality(UnpaidNext) \in Nat
    BY <1>1, FiniteKeys
  <2> QED BY <1>2, <2>2, <2>3, <2>4, PriceTypes DEF FreeSlotsBounded
<1>4. CASE ~LeafOwed(k, v) /\ k \notin dirty
  <2>1. k \notin fresh_charged
    BY <1>4 DEF RowsInv, FreshKeysArePaid
  <2>2. ~(Cardinality(dirty \cup {k}) > FREE_DIRTY_SLOTS)
    BY <1>4, <2>1 DEF LeafOwed, NewDirtyLeaf
  <2>3. UnpaidNext \subseteq dirty \cup {k}
    BY <1>1
  <2>4. IsFiniteSet(dirty \cup {k}) /\ Cardinality(dirty \cup {k}) \in Nat
    BY <1>1, FiniteKeys
  <2>5. Cardinality(UnpaidNext) <= Cardinality(dirty \cup {k})
    BY <2>3, <2>4, FS_Subset
  <2>6. Cardinality(UnpaidNext) \in Nat
    BY <1>1, FiniteKeys
  <2> QED BY <2>2, <2>4, <2>5, <2>6, PriceTypes DEF FreeSlotsBounded
<1> QED BY <1>3, <1>4

LEMMA InitFreeSlots == Init => FreeSlotsBounded
<1> SUFFICES ASSUME Init PROVE FreeSlotsBounded
  OBVIOUS
<1>1. {k \in dirty : leaf_paid[k] = 0} = {}
  BY DEF Init
<1> QED BY <1>1, FS_EmptySet, PriceTypes DEF FreeSlotsBounded

LEMMA StepKeepsFreeSlots ==
    TypeOK /\ RowsInv /\ FreeSlotsBounded /\ [Next]_vars => FreeSlotsBounded'
<1> SUFFICES ASSUME TypeOK, RowsInv, FreeSlotsBounded, [Next]_vars
             PROVE  FreeSlotsBounded'
  OBVIOUS
<1>1. ASSUME UNCHANGED <<dirty, leaf_paid>> PROVE FreeSlotsBounded'
  BY <1>1 DEF FreeSlotsBounded
<1>2. \/ UNCHANGED <<dirty, leaf_paid>>
      \/ \E k \in Key, v \in Word : SStore(k, v)
  BY StepCases DEF Abort, Compute, Halt, SLoad, Hash, Send, Emit, vars, rows
<1> QED BY <1>1, <1>2, SStoreKeepsFreeSlots

(* Whatever the order of its writes, a call dirties at most                *)
(* FREE_DIRTY_SLOTS slots without paying the leaf price.                   *)
THEOREM FreeSlotsAreBounded == Spec => []FreeSlotsBounded
<1>1. Init => FreeSlotsBounded
  BY InitFreeSlots
<1>2. TypeOK /\ RowsInv /\ FreeSlotsBounded /\ [Next]_vars => FreeSlotsBounded'
  BY StepKeepsFreeSlots
<1> QED BY <1>1, <1>2, RowsInvariant, PTL DEF Spec

(***************************************************************************)
(* Keyed rows                                                              *)
(***************************************************************************)
LEMMA SStoreKeepsKeyedRows ==
    ASSUME TypeOK, RowsInv, KeyedRowsPaid,
           NEW k \in Key, NEW v \in Word, SStore(k, v)
    PROVE  KeyedRowsPaid'
<1> SUFFICES ASSUME call.strict, call.manifest # NoManifest,
                    NEW j \in dirty' \ call.manifest.writes,
                    Committed(j) = 0, storage'[j] # 0
             PROVE  leaf_paid'[j] > 0
  <2>1. call' = call /\ ledger' = ledger
    BY DEF SStore, env
  <2>2. \A i : Committed(i)' = Committed(i)
    BY <2>1 DEF Committed
  <2> QED BY <2>1, <2>2 DEF KeyedRowsPaid
<1>1. /\ storage' = [storage EXCEPT ![k] = v] /\ dirty' = dirty \cup {k}
      /\ dirty \subseteq Key
  BY DEF SStore, TypeOK
<1>2. \A i \in Key : /\ leaf_paid[i] \in Nat /\ leaf_paid'[i] \in Nat
                     /\ leaf_paid'[i] >= leaf_paid[i]
  BY DEF SStore, TypeOK
<1>3. CASE j # k
  <2>1. j \in dirty \ call.manifest.writes /\ storage[j] # 0
    BY <1>1, <1>3 DEF TypeOK
  <2>2. leaf_paid[j] > 0
    BY <2>1 DEF KeyedRowsPaid
  <2> QED BY <1>1, <1>2, <2>1, <2>2
<1>4. CASE j = k /\ Lookup(k) # 0
  <2>1. k \in dirty
    BY <1>4, CleanLookup DEF RowsInv
  <2>2. storage[k] # 0
    BY <1>4, <2>1, LookupValue DEF RowsInv, RowsAgree
  <2>3. leaf_paid[k] > 0
    BY <1>4, <2>1, <2>2 DEF KeyedRowsPaid
  <2> QED BY <1>2, <1>4, <2>3
<1>5. CASE j = k /\ Lookup(k) = 0
  <2>1. v # 0
    BY <1>1, <1>5 DEF TypeOK
  <2>2. k \in keyed_authorized_writes
    BY <1>5 DEF SStore, MayWrite
  <2>3. CASE k \in fresh_charged
    <3>1. leaf_paid[k] > 0
      BY <2>3 DEF RowsInv, FreshKeysArePaid
    <3> QED BY <1>2, <1>5, <3>1
  <2>4. CASE k \notin fresh_charged
    <3>1. FreshLeaf(k, v)
      BY <1>5, <2>1, <2>2, <2>4 DEF FreshLeaf
    <3>2. leaf_paid' = [leaf_paid EXCEPT ![k] = @ + 1]
      BY <3>1 DEF SStore, LeafOwed
    <3> QED BY <1>5, <3>2 DEF TypeOK
  <2> QED BY <2>3, <2>4
<1> QED BY <1>3, <1>4, <1>5

LEMMA StepKeepsKeyedRows ==
    TypeOK /\ RowsInv /\ KeyedRowsPaid /\ [Next]_vars => KeyedRowsPaid'
<1> SUFFICES ASSUME TypeOK, RowsInv, KeyedRowsPaid, [Next]_vars
             PROVE  KeyedRowsPaid'
  OBVIOUS
<1>1. ASSUME UNCHANGED <<call, ledger, storage, dirty, leaf_paid>>
      PROVE  KeyedRowsPaid'
  <2>1. \A k : Committed(k)' = Committed(k)
    BY <1>1 DEF Committed
  <2> QED BY <1>1, <2>1 DEF KeyedRowsPaid
<1>2. \/ UNCHANGED <<call, ledger, storage, dirty, leaf_paid>>
      \/ \E k \in Key, v \in Word : SStore(k, v)
  BY StepCases DEF Abort, Compute, Halt, SLoad, Hash, Send, Emit, vars, rows, env
<1> QED BY <1>1, <1>2, SStoreKeepsKeyedRows

(* Under the strict rules every row that a call creates through a keyed    *)
(* authorisation has been charged the leaf price.                          *)
THEOREM KeyedRowsArePaid == Spec => []KeyedRowsPaid
<1>1. Init => KeyedRowsPaid
  BY DEF Init, KeyedRowsPaid
<1>2. TypeOK /\ RowsInv /\ KeyedRowsPaid /\ [Next]_vars => KeyedRowsPaid'
  BY StepKeepsKeyedRows
<1> QED BY <1>1, <1>2, RowsInvariant, PTL DEF Spec

(***************************************************************************)
(* A call implements AtomicCall                                            *)
(***************************************************************************)
LEMMA PhaseValues ==
    /\ status = "running" => AtomicPhase = "running"
    /\ status = "halted" => AtomicPhase = "committed"
    /\ status \in Fault => AtomicPhase = "aborted"
BY DEF AtomicPhase, Fault

LEMMA NextPhaseValues ==
    /\ status' = "running" => AtomicPhase' = "running"
    /\ status' = "halted" => AtomicPhase' = "committed"
    /\ status' \in Fault => AtomicPhase' = "aborted"
BY DEF AtomicPhase, Fault

LEMMA CommittedIsWord ==
    ASSUME TypeOK, NEW k \in Key
    PROVE  Committed(k) \in Word
<1>1. call.preset[k] \in Word \cup {Absent} /\ ledger[k] \in Word
  BY CallsAreTyped DEF TypeOK
<1> QED BY <1>1, WordHasZero, CommittedValue

LEMMA InitIsAtomic == Init => Atomic!Init
<1> SUFFICES ASSUME Init PROVE Atomic!Init
  OBVIOUS
<1>1. TypeOK /\ RowsAgree
  BY InitIsTyped, InitRows DEF RowsInv
<1>2. Published = [k \in Key |-> Committed(k)]
  BY DEF Published, Init
<1>3. View = Published
  BY <1>1, <1>2, CleanLookup DEF View, Init
<1>4. Published \in [Key -> Word]
  BY <1>1, <1>2, CommittedIsWord
<1>5. AtomicPhase = "running" /\ read \in Word
  BY PhaseValues, WordHasZero DEF Init
<1> QED BY <1>3, <1>4, <1>5 DEF Atomic!Init

(* What a call sees does not change unless it writes. *)
LEMMA SameView ==
    ASSUME TypeOK, UNCHANGED <<call, ledger, storage>>,
           loaded' = loaded \/ \E k \in Key : loaded' = Cached(k)
    PROVE  View' = View
<1>1. ASSUME NEW j \in Key PROVE Lookup(j)' = Lookup(j)
  <2>1. Lookup(j)' = IF storage'[j] # Absent THEN storage'[j]
                     ELSE IF loaded'[j] # Absent THEN loaded'[j]
                     ELSE IF call'.loader THEN ledger'[j] ELSE 0
    BY DEF Lookup, Fetches
  <2>2. loaded'[j] = loaded[j] \/ (Fetches(j) /\ loaded'[j] = ledger[j])
    BY DEF Cached, TypeOK
  <2>3. ledger[j] \in Word /\ ledger[j] # Absent
    BY CallsAreTyped, WordHasZero DEF TypeOK
  <2> QED BY <2>1, <2>2, <2>3, LookupValue DEF Fetches
<1> QED BY <1>1 DEF View

(* The state before the call does not change. *)
LEMMA SameCommitted ==
    ASSUME UNCHANGED <<call, ledger>>
    PROVE  \A k : Committed(k)' = Committed(k)
BY DEF Committed

(* Nothing is published while a call runs, or when it faults. *)
LEMMA NothingPublished ==
    ASSUME UNCHANGED <<call, ledger>>, status # "halted", status' # "halted"
    PROVE  Published' = Published
BY SameCommitted DEF Published

LEMMA StepIsAtomic ==
    TypeOK /\ RowsInv /\ [Next]_vars => [Atomic!Next]_(Atomic!vars)
<1> SUFFICES ASSUME TypeOK, RowsInv, [Next]_vars
             PROVE  Atomic!Next \/ UNCHANGED Atomic!vars
  OBVIOUS
<1>1. ASSUME UNCHANGED <<status, call, ledger, rows>>
      PROVE  UNCHANGED Atomic!vars
  <2>1. View' = View
    BY <1>1, SameView DEF rows
  <2>2. Published' = Published
    BY <1>1, SameCommitted DEF Published, rows
  <2>3. read' = read /\ AtomicPhase' = AtomicPhase
    BY <1>1 DEF AtomicPhase, rows
  <2> QED BY <2>1, <2>2, <2>3 DEF Atomic!vars
<1>2. ASSUME NEW fault \in Fault, Abort(fault)
      PROVE  Atomic!Next \/ UNCHANGED Atomic!vars
  <2>1. CASE status = "running"
    <3>1. status' \in Fault /\ status' # "halted" /\ UNCHANGED <<call, ledger, rows>>
      BY <1>2 DEF Abort, env, Fault
    <3>2. View' = View /\ Published' = Published /\ read' = read
      BY <2>1, <3>1, SameView, NothingPublished DEF rows
    <3>3. AtomicPhase = "running" /\ AtomicPhase' = "aborted"
      BY <2>1, <3>1, PhaseValues, NextPhaseValues
    <3> QED BY <3>2, <3>3 DEF Atomic!Next, Atomic!Abort
  <2>2. CASE UNCHANGED vars
    BY <1>1, <2>2 DEF vars, env
  <2>3. status = "running" \/ UNCHANGED vars
    BY DEF Next, Step, Returned, DecodeFault, OutOfMeter, OwnFault, Compute,
           Halt, SLoad, UndeclaredSlot, SStore, StoreOutOfMeter, Hash,
           HashFault, Send, EffectFault, Emit, BadSelector, Running
  <2> QED BY <2>1, <2>2, <2>3
<1>3. ASSUME NEW op \in OpCode, NEW len \in Nat, Compute(op, len)
      PROVE  UNCHANGED Atomic!vars
  BY <1>1, <1>3 DEF Compute, env
<1>4. CASE Halt
  <2>1. /\ status = "running" /\ status' = "halted"
        /\ UNCHANGED <<call, ledger, rows>>
    BY <1>4 DEF Halt, Running, env
  <2>2. View' = View /\ read' = read
    BY <2>1, SameView DEF rows
  <2>3. Published' = View
    <3>1. dirty' = dirty /\ storage' = storage
      BY <2>1 DEF rows
    <3>2. \A k \in Key : k \in dirty => storage[k] = Lookup(k)
      BY LookupValue DEF RowsInv, RowsAgree
    <3>3. \A k \in Key : k \notin dirty => Committed(k)' = Lookup(k)
      BY <2>1, SameCommitted, CleanLookup DEF RowsInv
    <3> QED BY <2>1, <3>1, <3>2, <3>3 DEF Published, View
  <2>4. AtomicPhase = "running" /\ AtomicPhase' = "committed"
    BY <2>1, PhaseValues, NextPhaseValues
  <2> QED BY <2>2, <2>3, <2>4 DEF Atomic!Next, Atomic!Commit
<1>5. ASSUME NEW k \in Key, SLoad(k)
      PROVE  Atomic!Next
  <2>1. /\ status = "running" /\ status' = "running"
        /\ UNCHANGED <<call, ledger, storage>>
        /\ loaded' = Cached(k) /\ read' = Lookup(k)
    BY <1>5 DEF SLoad, Running, env
  <2>2. View' = View /\ Published' = Published
    BY <2>1, SameView, NothingPublished
  <2>3. AtomicPhase = "running" /\ AtomicPhase' = "running"
    BY <2>1, PhaseValues, NextPhaseValues
  <2>4. read' = View[k]
    BY <2>1 DEF View
  <2>5. Atomic!Read(k)
    BY <2>2, <2>3, <2>4 DEF Atomic!Read
  <2> QED BY <2>5 DEF Atomic!Next
<1>6. ASSUME NEW k \in Key, NEW v \in Word, SStore(k, v)
      PROVE  Atomic!Next
  <2>1. /\ status = "running" /\ status' = "running"
        /\ UNCHANGED <<call, ledger, read>>
        /\ loaded' = Cached(k) \/ loaded' = loaded
        /\ storage' = [storage EXCEPT ![k] = v]
    BY <1>6 DEF SStore, Running, env
  <2>2. Published' = Published
    BY <2>1, NothingPublished
  <2>3. AtomicPhase = "running" /\ AtomicPhase' = "running"
    BY <2>1, PhaseValues, NextPhaseValues
  <2>4. ASSUME NEW j \in Key
        PROVE  Lookup(j)' = IF j = k THEN v ELSE Lookup(j)
    <3>1. Lookup(j)' = IF storage'[j] # Absent THEN storage'[j]
                       ELSE IF loaded'[j] # Absent THEN loaded'[j]
                       ELSE IF call'.loader THEN ledger'[j] ELSE 0
      BY DEF Lookup, Fetches
    <3>2. v # Absent
      BY WordHasZero
    <3>3. j # k => loaded'[j] = loaded[j]
      BY <2>1 DEF Cached, TypeOK
    <3>4. storage'[j] = IF j = k THEN v ELSE storage[j]
      BY <2>1 DEF TypeOK
    <3> QED BY <2>1, <3>1, <3>2, <3>3, <3>4, LookupValue
  <2>5. View' = [View EXCEPT ![k] = v]
    BY <2>4 DEF View
  <2>6. Atomic!Write(k, v)
    BY <2>1, <2>2, <2>3, <2>5 DEF Atomic!Write
  <2> QED BY <2>6 DEF Atomic!Next
<1>7. ASSUME NEW p \in Region, Hash(p) PROVE UNCHANGED Atomic!vars
  BY <1>1, <1>7 DEF Hash, env
<1>8. ASSUME NEW to \in Region, NEW amount \in Word, Send(to, amount)
      PROVE  UNCHANGED Atomic!vars
  BY <1>1, <1>8 DEF Send, env
<1>9. ASSUME NEW sel \in Selector, NEW data \in Region, Emit(sel, data)
      PROVE  UNCHANGED Atomic!vars
  BY <1>1, <1>9 DEF Emit, env
<1>10. CASE UNCHANGED vars
  BY <1>1, <1>10 DEF vars, env
<1> QED BY <1>2, <1>3, <1>4, <1>5, <1>6, <1>7, <1>8, <1>9, <1>10, StepCases

(* A call is atomic: it reads its own last write or the state before it,   *)
(* publishes exactly its view when it halts, and nothing when it faults.   *)
THEOREM CallsAreAtomic == Spec => ImplementsAtomic
<1>1. Init => Atomic!Init
  BY InitIsAtomic
<1>2. TypeOK /\ RowsInv /\ [Next]_vars => [Atomic!Next]_(Atomic!vars)
  BY StepIsAtomic
<1> QED BY <1>1, <1>2, RowsInvariant, PTL DEF Spec, ImplementsAtomic, Atomic!Spec

(***************************************************************************)
(* State growth is paid for                                                *)
(***************************************************************************)
(* Multiplication steps of the parts of GrowthCost *)
LEMMA OneMore ==
    ASSUME NEW c \in Nat, NEW n \in Nat
    PROVE  c * (n + 1) = c * n + c /\ c * n \in Nat
OBVIOUS

LEMMA CostTypes ==
    ASSUME TypeOK, IsFiniteSet(durable_targets)
    PROVE  /\ Opening \in Nat
           /\ Cardinality(PaidLeaves) \in Nat
           /\ Cardinality(keyed_authorized_reads) \in Nat
           /\ Excess(Cardinality(durable_targets), 1) \in Nat
           /\ Excess(event_records, FREE_EVENT_RECORDS) \in Nat
           /\ KeyedPrice \in Nat
           /\ LeafCost \in Nat /\ KeyedCost \in Nat
           /\ TargetCost \in Nat /\ RecordCost \in Nat /\ ByteCost \in Int
<1>1. Opening \in Nat
  BY OpeningIsNat, CallsAreTyped DEF TypeOK
<1>2. Cardinality(PaidLeaves) \in Nat
  BY FiniteKeys DEF PaidLeaves
<1>3. Cardinality(keyed_authorized_reads) \in Nat
  BY FiniteKeys DEF TypeOK
<1>4. Excess(Cardinality(durable_targets), 1) \in Nat
  BY FS_CardinalityType DEF Excess
<1>5. Excess(event_records, FREE_EVENT_RECORDS) \in Nat
  BY PriceTypes DEF Excess, TypeOK
<1>6. KeyedPrice \in Nat
  BY PriceTypes DEF KeyedPrice
<1>7. LeafCost \in Nat /\ KeyedCost \in Nat /\ TargetCost \in Nat /\ RecordCost \in Nat
  BY <1>2, <1>3, <1>4, <1>5, <1>6, PriceTypes
     DEF LeafCost, KeyedCost, TargetCost, RecordCost
<1>8. ByteCost \in Int
  <2>1. Len(effects) \in Nat /\ effects_bytes \in Nat
    BY DEF TypeOK
  <2>2. EFFECT_RECORD_OVERHEAD * Len(effects) \in Int
    BY <2>1, PriceTypes
  <2> QED BY <2>1, <2>2, PriceTypes DEF ByteCost
<1> QED BY <1>1, <1>2, <1>3, <1>4, <1>5, <1>6, <1>7, <1>8

GrowthInv == IsFiniteSet(durable_targets) /\ StateGrowthPaid

(* A leaf is paid by the write that owes it. *)
LEMMA LeafCostStep ==
    ASSUME TypeOK, NEW k \in Key, NEW v \in Word, SStore(k, v)
    PROVE  LeafCost' <= LeafCost + (StorePrice(k, v) - cost["SStore"])
<1>1. Cardinality(PaidLeaves) \in Nat /\ IsFiniteSet(PaidLeaves)
  BY FiniteKeys DEF PaidLeaves
<1>2. cost["SStore"] \in Nat
  BY CostIsNatural DEF OpCode, EffectOps
<1>3. CASE LeafOwed(k, v)
  <2>1. leaf_paid' = [leaf_paid EXCEPT ![k] = @ + 1]
    BY <1>3 DEF SStore
  <2>2. PaidLeaves' = PaidLeaves \cup {k}
    BY <2>1 DEF PaidLeaves, TypeOK
  <2>3. Cardinality(PaidLeaves') = Cardinality(PaidLeaves)
        \/ Cardinality(PaidLeaves') = Cardinality(PaidLeaves) + 1
    BY <1>1, <2>2, FS_AddElement
  <2>4. LeafCost' = LeafCost \/ LeafCost' = LeafCost + KEYED_SLOT_METER
    BY <1>1, <2>3, PriceTypes, OneMore DEF LeafCost
  <2>5. LeafCost \in Nat
    BY <1>1, PriceTypes DEF LeafCost
  <2>6. StorePrice(k, v) - cost["SStore"] = KEYED_SLOT_METER
    BY <1>2, <1>3, PriceTypes DEF StorePrice
  <2> QED BY <2>4, <2>5, <2>6, PriceTypes
<1>4. CASE ~LeafOwed(k, v)
  <2>1. leaf_paid' = leaf_paid
    BY <1>4 DEF SStore
  <2>2. LeafCost' = LeafCost
    BY <2>1 DEF LeafCost, PaidLeaves
  <2>3. LeafCost \in Nat
    BY <1>1, PriceTypes DEF LeafCost
  <2>4. StorePrice(k, v) - cost["SStore"] = 0
    BY <1>2, <1>4 DEF StorePrice
  <2> QED BY <2>2, <2>3, <2>4
<1> QED BY <1>3, <1>4

(* An authorisation is paid by the hash that derives it. *)
LEMMA KeyedCostStep ==
    ASSUME TypeOK, RowsInv, NEW p \in Region, Hash(p)
    PROVE  KeyedCost' <= KeyedCost + KeyedFee(p)
<1>1. IsFiniteSet(keyed_authorized_reads)
      /\ Cardinality(keyed_authorized_reads) \in Nat
  BY FiniteKeys DEF TypeOK
<1>2. KeyedPrice \in Nat /\ KeyedPrice' = KeyedPrice
  BY PriceTypes DEF KeyedPrice, Hash, env
<1>3. KeyedCost \in Nat
  BY <1>1, <1>2 DEF KeyedCost
<1>4. KeyedFee(p) \in Nat
  BY KeyedChargesAreNat
<1>5. CASE IsKeyedRead(p) /\ Digest[p] \notin keyed_authorized_reads
  <2>1. Digest[p] \notin keyed_authorized_writes
    BY <1>5 DEF RowsInv, KeysAreDerived
  <2>2. KeyedFee(p) = KeyedPrice
    BY <1>5, <2>1 DEF KeyedFee, KeyedPrice
  <2>3. keyed_authorized_reads' = keyed_authorized_reads \cup {Digest[p]}
    BY <1>5 DEF Hash
  <2>4. Cardinality(keyed_authorized_reads') =
            Cardinality(keyed_authorized_reads) + 1
    BY <1>1, <1>5, <2>3, FS_AddElement
  <2>5. KeyedCost' = KeyedCost + KeyedPrice
    BY <1>1, <1>2, <2>4, OneMore DEF KeyedCost
  <2> QED BY <1>2, <1>3, <2>2, <2>5
<1>6. CASE ~(IsKeyedRead(p) /\ Digest[p] \notin keyed_authorized_reads)
  <2>1. keyed_authorized_reads' = keyed_authorized_reads
    BY <1>6 DEF Hash
  <2>2. KeyedCost' = KeyedCost
    BY <1>2, <2>1 DEF KeyedCost
  <2> QED BY <1>3, <1>4, <2>2
<1> QED BY <1>5, <1>6

(* A durable target past the first is paid by the effect that names it.    *)
LEMMA TargetCostStep ==
    ASSUME IsFiniteSet(durable_targets), NEW t,
           durable_targets' = durable_targets \cup {t}
    PROVE  /\ IsFiniteSet(durable_targets')
           /\ TargetCost' <= TargetCost + TargetFee({t})
<1>1. Cardinality(durable_targets) \in Nat
  BY FS_CardinalityType
<1>2. IsFiniteSet(durable_targets')
  BY FS_AddElement
<1>3. TargetCost \in Nat
  BY <1>1, PriceTypes DEF TargetCost, Excess
<1>4. CASE t \in durable_targets
  <2>1. durable_targets' = durable_targets
    BY <1>4
  <2>2. TargetCost' = TargetCost /\ TargetFee({t}) = 0
    BY <1>4, <2>1 DEF TargetCost, TargetFee
  <2> QED BY <1>2, <1>3, <2>2
<1>5. CASE t \notin durable_targets /\ durable_targets = {}
  <2>1. Cardinality(durable_targets) = 0
    BY <1>5, FS_EmptySet
  <2>2. Cardinality(durable_targets') = 1
    BY <1>5, <2>1, FS_AddElement
  <2>3. TargetCost' = 0 /\ TargetFee({t}) = 0
    BY <1>5, <2>2, PriceTypes DEF TargetCost, TargetFee, Excess
  <2> QED BY <1>2, <1>3, <2>3
<1>6. CASE t \notin durable_targets /\ durable_targets # {}
  <2>1. Cardinality(durable_targets) # 0
    BY <1>6, FS_EmptySet
  <2>2. Cardinality(durable_targets') = Cardinality(durable_targets) + 1
    BY <1>6, FS_AddElement
  <2>3. /\ Excess(Cardinality(durable_targets), 1) \in Nat
        /\ Excess(Cardinality(durable_targets'), 1) =
                Excess(Cardinality(durable_targets), 1) + 1
    BY <1>1, <2>1, <2>2 DEF Excess
  <2>4. TargetFee({t}) = KEYED_SLOT_METER
    BY <1>6 DEF TargetFee
  <2>5. TargetCost' = TargetCost + KEYED_SLOT_METER
    BY <2>3, OneMore, PriceTypes DEF TargetCost
  <2> QED BY <1>2, <1>3, <2>4, <2>5, PriceTypes
<1> QED BY <1>4, <1>5, <1>6

(* The bytes of an effect are paid by the effect.                          *)
LEMMA ByteCostStep ==
    ASSUME TypeOK, NEW data \in Region, NEW e,
           effects' = Append(effects, e), effects_bytes' = EffectRetained(data)
    PROVE  ByteCost' = ByteCost + Len(data) * EFFECT_BYTE
<1>1. Len(effects) \in Nat /\ effects_bytes \in Nat /\ Len(data) \in Nat
      /\ Len(effects') = Len(effects) + 1
  BY RegionLengths DEF TypeOK
<1>2. EFFECT_RECORD_OVERHEAD * Len(effects') =
        EFFECT_RECORD_OVERHEAD * Len(effects) + EFFECT_RECORD_OVERHEAD
  BY <1>1, OneMore, PriceTypes
<1>3. EFFECT_RECORD_OVERHEAD * Len(effects) \in Nat
  BY <1>1, PriceTypes
<1> DEFINE old == effects_bytes - EFFECT_RECORD_OVERHEAD * Len(effects)
<1>4. effects_bytes' - EFFECT_RECORD_OVERHEAD * Len(effects') = old + Len(data)
  BY <1>1, <1>2, <1>3, PriceTypes DEF EffectRetained
<1>5. old \in Int
  BY <1>1, <1>3
<1>6. EFFECT_BYTE * (old + Len(data)) = EFFECT_BYTE * old + Len(data) * EFFECT_BYTE
  <2> HIDE DEF old
  <2> QED BY <1>1, <1>5, PriceTypes
<1> QED BY <1>4, <1>6 DEF ByteCost

(* An event past the free ones is paid by the EMIT that records it.        *)
LEMMA RecordCostStep ==
    ASSUME TypeOK, event_records' = event_records + 1
    PROVE  RecordCost' = RecordCost + RecordFee
<1>1. event_records \in Nat
  BY DEF TypeOK
<1>2. CASE event_records + 1 > FREE_EVENT_RECORDS
  <2>1. /\ Excess(event_records, FREE_EVENT_RECORDS) \in Nat
        /\ Excess(event_records', FREE_EVENT_RECORDS) =
                Excess(event_records, FREE_EVENT_RECORDS) + 1
    BY <1>1, <1>2, PriceTypes DEF Excess
  <2>2. RecordFee = EVENT_RECORD_METER
    BY <1>2 DEF RecordFee
  <2> QED BY <2>1, <2>2, OneMore, PriceTypes DEF RecordCost
<1>3. CASE ~(event_records + 1 > FREE_EVENT_RECORDS)
  <2>1. /\ Excess(event_records, FREE_EVENT_RECORDS) = 0
        /\ Excess(event_records', FREE_EVENT_RECORDS) = 0
    BY <1>1, <1>3, PriceTypes DEF Excess
  <2>2. RecordFee = 0
    BY <1>3 DEF RecordFee
  <2> QED BY <2>1, <2>2, PriceTypes DEF RecordCost
<1> QED BY <1>2, <1>3

(* The five parts, added up *)
LEMMA GrowthSum ==
    ASSUME TypeOK, IsFiniteSet(durable_targets)
    PROVE  GrowthCost \in Int
<1>1. /\ LeafCost \in Int /\ KeyedCost \in Int /\ TargetCost \in Int
      /\ RecordCost \in Int /\ ByteCost \in Int
  BY CostTypes
<1> QED BY <1>1 DEF GrowthCost

LEMMA AddPaid ==
    ASSUME NEW o \in Int, NEW g \in Int, NEW h \in Int, NEW m \in Int,
           NEW n \in Int, o + g <= m, h <= g + n
    PROVE  o + h <= m + n
OBVIOUS

LEMMA ExcessIsNat ==
    ASSUME NEW n \in Nat, NEW m \in Nat
    PROVE  Excess(n, m) \in Nat
BY DEF Excess

(* A step that adds to the state no more than it charges keeps the meter   *)
(* ahead of the growth.                                                    *)
LEMMA PaidStep ==
    ASSUME TypeOK, GrowthInv, NEW n \in Int, charge(n), call' = call,
           GrowthCost' <= GrowthCost + n,
           IsFiniteSet(durable_targets'), TypeOK'
    PROVE  GrowthInv'
<1>1. Opening' = Opening
  BY DEF Opening
<1>2. Opening \in Int /\ GrowthCost \in Int /\ meter_used \in Int
  <2>1. Opening \in Int
    BY CostTypes DEF GrowthInv
  <2>2. GrowthCost \in Int
    BY GrowthSum DEF GrowthInv
  <2> QED BY <2>1, <2>2 DEF TypeOK
<1>3. GrowthCost' \in Int
  <2>1. /\ Cardinality(PaidLeaves') \in Nat
        /\ Cardinality(keyed_authorized_reads') \in Nat
    BY FiniteKeys DEF PaidLeaves, TypeOK
  <2>2. /\ Excess(Cardinality(durable_targets'), 1) \in Nat
        /\ Excess(event_records', FREE_EVENT_RECORDS) \in Nat
    <3>1. Cardinality(durable_targets') \in Nat
      BY FS_CardinalityType
    <3>2. event_records' \in Nat
      BY DEF TypeOK
    <3> QED BY <3>1, <3>2, PriceTypes, ExcessIsNat
  <2>3. KeyedPrice' \in Nat
    BY PriceTypes DEF KeyedPrice
  <2>4. LeafCost' \in Int /\ KeyedCost' \in Int /\ TargetCost' \in Int
        /\ RecordCost' \in Int
    BY <2>1, <2>2, <2>3, PriceTypes
       DEF LeafCost, KeyedCost, TargetCost, RecordCost
  <2>5. ByteCost' \in Int
    <3>1. Len(effects') \in Nat /\ effects_bytes' \in Nat
      BY DEF TypeOK
    <3>2. EFFECT_RECORD_OVERHEAD * Len(effects') \in Int
      BY <3>1, PriceTypes
    <3> QED BY <3>1, <3>2, PriceTypes DEF ByteCost
  <2> QED BY <2>4, <2>5 DEF GrowthCost
<1>4. meter_used' = meter_used + n /\ meter_used + n <= call.meter_limit
  BY DEF charge, Affords
<1>5. Opening + GrowthCost <= meter_used
  BY DEF GrowthInv, StateGrowthPaid
<1>6. Opening + GrowthCost' <= meter_used + n
  BY <1>2, <1>3, <1>5, AddPaid
<1> QED BY <1>1, <1>4, <1>6 DEF GrowthInv, StateGrowthPaid

(* A step that adds nothing *)
LEMMA SameGrowth ==
    ASSUME UNCHANGED <<call, leaf_paid, keyed_authorized_reads, output>>
    PROVE  GrowthCost' = GrowthCost
BY DEF GrowthCost, LeafCost, PaidLeaves, KeyedCost, KeyedPrice, TargetCost,
       RecordCost, ByteCost, output

LEMMA SStoreIsPaid ==
    ASSUME TypeOK, GrowthInv, NEW k \in Key, NEW v \in Word, SStore(k, v)
    PROVE  GrowthInv'
<1>1. UNCHANGED <<call, keyed_authorized_reads, output>>
  BY DEF SStore, env, keyed
<1>2. /\ KeyedCost' = KeyedCost /\ TargetCost' = TargetCost
      /\ RecordCost' = RecordCost /\ ByteCost' = ByteCost
  BY <1>1 DEF KeyedCost, KeyedPrice, TargetCost, RecordCost, ByteCost, output
<1>3. LeafCost' <= LeafCost + (StorePrice(k, v) - cost["SStore"])
  BY LeafCostStep
<1>4. cost["SStore"] \in Nat /\ StorePrice(k, v) \in Nat
  BY CostIsNatural, PriceTypes DEF OpCode, EffectOps, StorePrice
<1>5. TypeOK'
  BY SStoreKeepsTypes
<1>6. LeafCost' \in Int
  <2>1. Cardinality(PaidLeaves') \in Nat
    BY <1>5, FiniteKeys DEF PaidLeaves
  <2> QED BY <2>1, PriceTypes DEF LeafCost
<1>7. GrowthCost' <= GrowthCost + StorePrice(k, v)
  <2>1. /\ LeafCost \in Int /\ KeyedCost \in Int /\ TargetCost \in Int
        /\ RecordCost \in Int /\ ByteCost \in Int
    BY CostTypes DEF GrowthInv
  <2> QED BY <1>2, <1>3, <1>4, <1>6, <2>1 DEF GrowthCost
<1>8. IsFiniteSet(durable_targets')
  BY <1>1 DEF output, GrowthInv
<1> QED BY <1>1, <1>4, <1>5, <1>7, <1>8, PaidStep DEF SStore

(* The sums of HASH, SEND and EMIT, on numbers *)
LEMMA HashSum ==
    ASSUME NEW l \in Int, NEW k \in Int, NEW t \in Int, NEW r \in Int,
           NEW b \in Int, NEW k1 \in Int, NEW x \in Nat, NEW f \in Nat,
           k1 <= k + f
    PROVE  l + k1 + t + r + b <= (l + k + t + r + b) + (x + f)
OBVIOUS

LEMMA SendSum ==
    ASSUME NEW l \in Int, NEW k \in Int, NEW t \in Int, NEW r \in Int,
           NEW b \in Int, NEW t1 \in Int, NEW x \in Nat, NEW f \in Nat,
           NEW y \in Nat, t1 <= t + f
    PROVE  l + k + t1 + r + (b + y) <= (l + k + t + r + b) + (x + y + f)
OBVIOUS

LEMMA EmitSum ==
    ASSUME NEW t \in Int, NEW r \in Int, NEW b \in Int, NEW t1 \in Int,
           NEW x \in Nat, NEW f \in Nat, NEW y \in Nat, NEW z \in Nat,
           NEW e \in Nat, t1 <= t + f
    PROVE  t1 + (r + e) + (b + y) <= (t + r + b) + (x + y + z + f + e)
OBVIOUS

LEMMA AddBoth ==
    ASSUME NEW g \in Int, NEW a \in Int, NEW t1 \in Int, NEW r1 \in Int,
           NEW b1 \in Int, NEW t \in Int, NEW r \in Int, NEW b \in Int,
           NEW n \in Int, t1 + r1 + b1 <= (t + r + b) + n
    PROVE  g + a + t1 + r1 + b1 <= (g + a + t + r + b) + n
OBVIOUS

LEMMA HashIsPaid ==
    ASSUME TypeOK, RowsInv, GrowthInv, NEW p \in Region, Hash(p)
    PROVE  GrowthInv'
<1>1. UNCHANGED <<call, leaf_paid, output>>
  BY DEF Hash, env, rows
<1>2. /\ LeafCost' = LeafCost /\ TargetCost' = TargetCost
      /\ RecordCost' = RecordCost /\ ByteCost' = ByteCost
  BY <1>1 DEF LeafCost, PaidLeaves, TargetCost, RecordCost, ByteCost, output
<1>3. KeyedCost' <= KeyedCost + KeyedFee(p)
  BY KeyedCostStep
<1>4. Price("Hash", Len(p)) \in Nat /\ KeyedFee(p) \in Nat
  BY PriceIsPositive, RegionLengths, KeyedChargesAreNat DEF OpCode, EffectOps
<1>5. TypeOK'
  BY HashKeepsTypes
<1>6. KeyedCost' \in Int
  <2>1. Cardinality(keyed_authorized_reads') \in Nat
    BY <1>5, FiniteKeys DEF TypeOK
  <2>2. KeyedPrice' \in Nat
    BY PriceTypes DEF KeyedPrice
  <2> QED BY <2>1, <2>2 DEF KeyedCost
<1>7. GrowthCost' <= GrowthCost + (Price("Hash", Len(p)) + KeyedFee(p))
  <2>1. /\ LeafCost \in Int /\ KeyedCost \in Int /\ TargetCost \in Int
        /\ RecordCost \in Int /\ ByteCost \in Int
    BY CostTypes DEF GrowthInv
  <2> DEFINE x == Price("Hash", Len(p))
             f == KeyedFee(p)
  <2>2. x \in Nat /\ f \in Nat /\ KeyedCost' <= KeyedCost + f
    BY <1>3, <1>4
  <2> HIDE DEF x, f
  <2>3. GrowthCost' = LeafCost + KeyedCost' + TargetCost + RecordCost + ByteCost
    BY <1>2 DEF GrowthCost
  <2>5. LeafCost + KeyedCost' + TargetCost + RecordCost + ByteCost
            <= (LeafCost + KeyedCost + TargetCost + RecordCost + ByteCost) + (x + f)
    BY <1>6, <2>1, <2>2, HashSum
  <2>6. GrowthCost' <= GrowthCost + (x + f)
    BY <2>3, <2>5 DEF GrowthCost
  <2> QED BY <2>6 DEF x, f
<1>8. IsFiniteSet(durable_targets')
  BY <1>1 DEF output, GrowthInv
<1>9. Price("Hash", Len(p)) + KeyedFee(p) \in Int
  BY <1>4
<1>10. charge(Price("Hash", Len(p)) + KeyedFee(p))
  BY DEF Hash
<1> QED BY <1>1, <1>5, <1>7, <1>8, <1>9, <1>10, PaidStep

LEMMA SendIsPaid ==
    ASSUME TypeOK, GrowthInv, NEW to \in Region, NEW amount \in Word,
           Send(to, amount)
    PROVE  GrowthInv'
<1>1. UNCHANGED <<call, leaf_paid, keyed_authorized_reads, event_records>>
  BY DEF Send, env, rows, keyed
<1>2. LeafCost' = LeafCost /\ KeyedCost' = KeyedCost /\ RecordCost' = RecordCost
  BY <1>1 DEF LeafCost, PaidLeaves, KeyedCost, KeyedPrice, RecordCost
<1> DEFINE t == <<DURABLE_TRANSFER, to>>
<1>3. IsFiniteSet(durable_targets') /\ TargetCost' <= TargetCost + TargetFee({t})
  BY TargetCostStep DEF GrowthInv, Send
<1>4. ByteCost' = ByteCost + Len(to) * EFFECT_BYTE
  BY ByteCostStep DEF Send
<1>5. /\ cost["Send"] \in Nat /\ Len(to) * EFFECT_BYTE \in Nat
      /\ TargetFee({t}) \in Nat
      /\ SendPrice(to) = cost["Send"] + Len(to) * EFFECT_BYTE + TargetFee({t})
  <2>1. cost["Send"] \in Nat
    BY CostIsNatural DEF OpCode, EffectOps
  <2>2. Len(to) * EFFECT_BYTE \in Nat
    BY RegionLengths, PriceTypes
  <2>3. TargetFee({t}) \in Nat
    BY EffectChargesAreNat
  <2> QED BY <2>1, <2>2, <2>3 DEF SendPrice, EffectPrice
<1>6. TypeOK'
  BY SendKeepsTypes
<1>7. TargetCost' \in Int
  <2>1. Excess(Cardinality(durable_targets'), 1) \in Nat
    BY <1>3, FS_CardinalityType DEF Excess
  <2> QED BY <2>1, PriceTypes DEF TargetCost
<1>8. GrowthCost' <= GrowthCost + SendPrice(to) /\ SendPrice(to) \in Int
  <2>1. /\ LeafCost \in Int /\ KeyedCost \in Int /\ TargetCost \in Int
        /\ RecordCost \in Int /\ ByteCost \in Int
    BY CostTypes DEF GrowthInv
  <2> DEFINE b == Len(to) * EFFECT_BYTE
             f == TargetFee({t})
             x == SendPrice(to)
             z == cost["Send"]
  <2>2. /\ b \in Nat /\ f \in Nat /\ z \in Nat /\ x = z + b + f
        /\ ByteCost' = ByteCost + b /\ TargetCost' <= TargetCost + f
    BY <1>3, <1>4, <1>5
  <2> HIDE DEF b, f, x, z
  <2>3. GrowthCost' =
            LeafCost + KeyedCost + TargetCost' + RecordCost + (ByteCost + b)
    BY <1>2, <2>2 DEF GrowthCost
  <2>4. LeafCost + KeyedCost + TargetCost' + RecordCost + (ByteCost + b)
            <= (LeafCost + KeyedCost + TargetCost + RecordCost + ByteCost)
                + (z + b + f)
    BY <1>7, <2>1, <2>2, SendSum
  <2>5. GrowthCost' <= GrowthCost + x /\ x \in Int
    BY <2>2, <2>3, <2>4 DEF GrowthCost
  <2> QED BY <2>5 DEF x
<1>9. charge(SendPrice(to))
  BY DEF Send
<1> QED BY <1>1, <1>3, <1>6, <1>8, <1>9, PaidStep

LEMMA EmitIsPaid ==
    ASSUME TypeOK, GrowthInv, NEW sel \in Selector, NEW data \in Region,
           Emit(sel, data)
    PROVE  GrowthInv'
<1>1. UNCHANGED <<call, leaf_paid, keyed_authorized_reads>>
  BY DEF Emit, env, rows, keyed
<1>2. LeafCost' = LeafCost /\ KeyedCost' = KeyedCost
  BY <1>1 DEF LeafCost, PaidLeaves, KeyedCost, KeyedPrice
<1> DEFINE ts == MintTargets(sel, data)
<1>3. /\ cost["Emit"] \in Nat /\ Len(data) * EFFECT_BYTE \in Nat
      /\ Len(data) * (EVENT_BYTE - EFFECT_BYTE) \in Nat
      /\ TargetFee(ts) \in Nat /\ RecordFee \in Nat
  <2>1. cost["Emit"] \in Nat
    BY CostIsNatural DEF OpCode, EffectOps
  <2>2. Len(data) \in Nat
    BY RegionLengths
  <2>3. Len(data) * EFFECT_BYTE \in Nat
        /\ Len(data) * (EVENT_BYTE - EFFECT_BYTE) \in Nat
    BY <2>2, PriceTypes
  <2>4. TargetFee(ts) \in Nat /\ RecordFee \in Nat
    BY EffectChargesAreNat
  <2> QED BY <2>1, <2>3, <2>4
<1>4. IsFiniteSet(durable_targets') /\ TargetCost' <= TargetCost + TargetFee(ts)
  <2>1. durable_targets' = durable_targets \cup ts
    BY DEF Emit
  <2>2. CASE ts = {}
    <3>1. durable_targets' = durable_targets
      BY <2>1, <2>2
    <3>2. TargetCost' = TargetCost
      BY <3>1 DEF TargetCost
    <3>3. TargetCost \in Nat
      BY CostTypes DEF GrowthInv
    <3> HIDE DEF ts
    <3> QED BY <1>3, <3>1, <3>2, <3>3 DEF GrowthInv
  <2>3. CASE ts = {<<DURABLE_MINT, SubSeq(data, 1, HOLDER_BYTES)>>}
    <3> HIDE DEF ts
    <3> QED BY <2>1, <2>3, TargetCostStep DEF GrowthInv
  <2> QED BY <2>2, <2>3 DEF MintTargets
<1>5. ByteCost' = ByteCost + Len(data) * EFFECT_BYTE
  BY ByteCostStep DEF Emit
<1>6. RecordCost' = RecordCost + RecordFee
  BY RecordCostStep DEF Emit
<1>7. EmitPrice(sel, data) =
        cost["Emit"] + Len(data) * EFFECT_BYTE
            + Len(data) * (EVENT_BYTE - EFFECT_BYTE) + TargetFee(ts) + RecordFee
  BY DEF EmitPrice, EffectPrice
<1>8. TypeOK'
  BY EmitKeepsTypes
<1>9. TargetCost' \in Int
  <2>1. Excess(Cardinality(durable_targets'), 1) \in Nat
    BY <1>4, FS_CardinalityType DEF Excess
  <2> QED BY <2>1, PriceTypes DEF TargetCost
<1>10. GrowthCost' <= GrowthCost + EmitPrice(sel, data)
       /\ EmitPrice(sel, data) \in Int
  <2>1. /\ LeafCost \in Int /\ KeyedCost \in Int /\ TargetCost \in Int
        /\ RecordCost \in Int /\ ByteCost \in Int
    BY CostTypes DEF GrowthInv
  <2> DEFINE b == Len(data) * EFFECT_BYTE
             c == Len(data) * (EVENT_BYTE - EFFECT_BYTE)
             f == TargetFee(ts)
             r == RecordFee
             x == EmitPrice(sel, data)
             z == cost["Emit"]
  <2>2. /\ b \in Nat /\ c \in Nat /\ f \in Nat /\ r \in Nat /\ z \in Nat
        /\ x = z + b + c + f + r
        /\ ByteCost' = ByteCost + b
        /\ TargetCost' <= TargetCost + f
        /\ RecordCost' = RecordCost + r
    BY <1>3, <1>4, <1>5, <1>6, <1>7
  <2> HIDE DEF b, c, f, r, x, z
  <2>3. GrowthCost' =
            LeafCost + KeyedCost + TargetCost' + (RecordCost + r) + (ByteCost + b)
    BY <1>2, <2>2 DEF GrowthCost
  <2>4. LeafCost + KeyedCost + TargetCost' + (RecordCost + r) + (ByteCost + b)
            <= (LeafCost + KeyedCost + TargetCost + RecordCost + ByteCost)
                + (z + b + c + f + r)
    <3>1. TargetCost' + (RecordCost + r) + (ByteCost + b)
            <= (TargetCost + RecordCost + ByteCost) + (z + b + c + f + r)
      BY <1>9, <2>1, <2>2, EmitSum
    <3>2. z + b + c + f + r \in Int /\ RecordCost + r \in Int /\ ByteCost + b \in Int
      BY <2>1, <2>2
    <3> QED BY <1>9, <2>1, <3>1, <3>2, AddBoth
  <2>5. GrowthCost' <= GrowthCost + x /\ x \in Int
    BY <2>2, <2>3, <2>4 DEF GrowthCost
  <2> QED BY <2>5 DEF x
<1>11. charge(EmitPrice(sel, data))
  BY DEF Emit
<1> QED BY <1>1, <1>4, <1>8, <1>10, <1>11, PaidStep

(* A step that charges and adds nothing *)
LEMMA QuietStepIsPaid ==
    ASSUME TypeOK, TypeOK', GrowthInv, NEW n \in Nat, charge(n),
           UNCHANGED <<call, leaf_paid, keyed_authorized_reads, output>>
    PROVE  GrowthInv'
<1>1. GrowthCost' = GrowthCost
  BY SameGrowth
<1>2. GrowthCost' <= GrowthCost + n
  BY <1>1, GrowthSum DEF GrowthInv
<1>3. IsFiniteSet(durable_targets') /\ call' = call
  BY DEF output, GrowthInv
<1> QED BY <1>2, <1>3, PaidStep

LEMMA InitGrowth == Init => GrowthInv
<1> SUFFICES ASSUME Init PROVE GrowthInv
  OBVIOUS
<1>1. TypeOK
  BY InitIsTyped
<1>2. PaidLeaves = {} /\ keyed_authorized_reads = {} /\ durable_targets = {}
  BY DEF Init, PaidLeaves
<1>3. Cardinality({}) = 0 /\ IsFiniteSet(durable_targets)
  BY <1>2, FS_EmptySet
<1>4. LeafCost = 0 /\ TargetCost = 0
  BY <1>2, <1>3, PriceTypes DEF LeafCost, TargetCost, Excess
<1>5. KeyedCost = 0
  <2>1. KeyedPrice \in Nat
    BY PriceTypes DEF KeyedPrice
  <2> QED BY <1>2, <1>3, <2>1 DEF KeyedCost
<1>6. RecordCost = 0
  BY PriceTypes DEF RecordCost, Excess, Init
<1>7. ByteCost = 0
  <2>1. Len(effects) = 0 /\ effects_bytes = 0
    BY DEF Init
  <2> QED BY <2>1, PriceTypes DEF ByteCost
<1>8. GrowthCost = 0
  BY <1>4, <1>5, <1>6, <1>7 DEF GrowthCost
<1>9. Opening \in Nat
  BY <1>1, <1>3, CostTypes
<1> QED BY <1>3, <1>8, <1>9 DEF Init, GrowthInv, StateGrowthPaid

LEMMA StepKeepsGrowth ==
    TypeOK /\ RowsInv /\ GrowthInv /\ [Next]_vars => GrowthInv'
<1> SUFFICES ASSUME TypeOK, RowsInv, GrowthInv, [Next]_vars PROVE GrowthInv'
  OBVIOUS
<1>1. TypeOK'
  BY StepKeepsTypes
<1>2. ASSUME UNCHANGED <<call, meter_used, leaf_paid, keyed_authorized_reads, output>>
      PROVE  GrowthInv'
  <2>1. GrowthCost' = GrowthCost /\ Opening' = Opening
    BY <1>2, SameGrowth DEF Opening
  <2> QED BY <1>2, <2>1 DEF GrowthInv, StateGrowthPaid, output
<1>3. ASSUME NEW fault \in Fault, Abort(fault) PROVE GrowthInv'
  BY <1>2, <1>3 DEF Abort, env, rows, keyed
<1>4. ASSUME NEW op \in OpCode, NEW len \in Nat, Compute(op, len)
      PROVE  GrowthInv'
  <2>1. Price(op, len) \in Nat
    BY PriceIsPositive
  <2>2. /\ charge(Price(op, len))
        /\ UNCHANGED <<call, leaf_paid, keyed_authorized_reads, output>>
    BY <1>4 DEF Compute, env, rows, keyed
  <2> QED BY <1>1, <2>1, <2>2, QuietStepIsPaid
<1>5. CASE Halt
  <2>1. cost["Halt"] \in Nat
    BY CostIsNatural DEF OpCode
  <2>2. /\ charge(cost["Halt"])
        /\ UNCHANGED <<call, leaf_paid, keyed_authorized_reads, output>>
    BY <1>5 DEF Halt, env, rows, keyed
  <2> QED BY <1>1, <2>1, <2>2, QuietStepIsPaid
<1>6. ASSUME NEW k \in Key, SLoad(k) PROVE GrowthInv'
  <2>1. cost["SLoad"] \in Nat
    BY CostIsNatural DEF OpCode, EffectOps
  <2>2. /\ charge(cost["SLoad"])
        /\ UNCHANGED <<call, leaf_paid, keyed_authorized_reads, output>>
    BY <1>6 DEF SLoad, env, keyed
  <2> QED BY <1>1, <2>1, <2>2, QuietStepIsPaid
<1>7. ASSUME NEW k \in Key, NEW v \in Word, SStore(k, v) PROVE GrowthInv'
  BY <1>7, SStoreIsPaid
<1>8. ASSUME NEW p \in Region, Hash(p) PROVE GrowthInv'
  BY <1>8, HashIsPaid
<1>9. ASSUME NEW to \in Region, NEW amount \in Word, Send(to, amount)
      PROVE  GrowthInv'
  BY <1>9, SendIsPaid
<1>10. ASSUME NEW sel \in Selector, NEW data \in Region, Emit(sel, data)
       PROVE  GrowthInv'
  BY <1>10, EmitIsPaid
<1>11. CASE UNCHANGED vars
  BY <1>2, <1>11 DEF vars, env, rows, keyed
<1> QED BY <1>3, <1>4, <1>5, <1>6, <1>7, <1>8, <1>9, <1>10, <1>11, StepCases

(* What a call adds to the state is paid for before it is added, for every *)
(* schedule, program and order of its writes, hashes, transfers and        *)
(* events.                                                                 *)
THEOREM StateGrowthIsPaid == Spec => []StateGrowthPaid
<1>1. Init => GrowthInv
  BY InitGrowth
<1>2. TypeOK /\ RowsInv /\ GrowthInv /\ [Next]_vars => GrowthInv'
  BY StepKeepsGrowth
<1>3. GrowthInv => StateGrowthPaid
  BY DEF GrowthInv
<1> QED BY <1>1, <1>2, <1>3, RowsInvariant, PTL DEF Spec

(***************************************************************************)
(* A second leaf                                                           *)
(***************************************************************************)
(* A key is charged first when it becomes dirty or when it becomes a leaf, *)
(* and once more only when it becomes a leaf after it was dirty.           *)
LeafInv ==
    \A k \in Key :
        /\ leaf_paid[k] > 0 => k \in dirty
        /\ leaf_paid[k] <= IF k \in fresh_charged THEN 2 ELSE 1

LEMMA InitLeaf == Init => LeafInv
BY DEF Init, LeafInv

LEMMA SStoreLeaf ==
    ASSUME TypeOK, LeafInv, NEW k \in Key, NEW v \in Word, SStore(k, v)
    PROVE  /\ LeafInv'
           /\ \A j \in Key : leaf_paid[j] > 0 /\ leaf_paid'[j] # leaf_paid[j]
                => leaf_paid'[j] = 2 /\ Lookup(j) = 0 /\ storage'[j] # 0
<1>1. /\ leaf_paid \in [Key -> Nat] /\ dirty \subseteq Key
      /\ storage \in [Key -> Word \cup {Absent}]
  BY DEF TypeOK
<1>2. /\ dirty' = dirty \cup {k}
      /\ fresh_charged' =
            IF FreshLeaf(k, v) THEN fresh_charged \cup {k} ELSE fresh_charged
      /\ leaf_paid' =
            IF LeafOwed(k, v) THEN [leaf_paid EXCEPT ![k] = @ + 1] ELSE leaf_paid
      /\ storage' = [storage EXCEPT ![k] = v]
  BY DEF SStore
<1>3. /\ FreshLeaf(k, v) => v # 0 /\ Lookup(k) = 0 /\ k \notin fresh_charged
      /\ NewDirtyLeaf(k) => k \notin dirty
  BY DEF FreshLeaf, NewDirtyLeaf
<1>4. LeafOwed(k, v) <=> FreshLeaf(k, v) \/ NewDirtyLeaf(k)
  BY DEF LeafOwed
<1>5. ASSUME NEW j \in Key, j # k
      PROVE  /\ leaf_paid'[j] = leaf_paid[j]
             /\ j \in dirty' <=> j \in dirty
             /\ j \in fresh_charged' <=> j \in fresh_charged
  BY <1>1, <1>2, <1>5
<1>6. leaf_paid[k] \in Nat /\ (leaf_paid[k] > 0 => k \in dirty)
      /\ leaf_paid[k] <= IF k \in fresh_charged THEN 2 ELSE 1
  BY <1>1 DEF LeafInv
<1>7. LeafOwed(k, v) => leaf_paid'[k] = leaf_paid[k] + 1
  BY <1>1, <1>2
<1>8. ~LeafOwed(k, v) => leaf_paid'[k] = leaf_paid[k]
  BY <1>2
<1>9. leaf_paid'[k] <= IF k \in fresh_charged' THEN 2 ELSE 1
  <2>1. CASE FreshLeaf(k, v)
    BY <1>2, <1>3, <1>4, <1>6, <1>7, <2>1
  <2>2. CASE ~FreshLeaf(k, v) /\ NewDirtyLeaf(k)
    BY <1>2, <1>3, <1>4, <1>6, <1>7, <2>2
  <2>3. CASE ~LeafOwed(k, v)
    BY <1>2, <1>4, <1>6, <1>8, <2>3
  <2> QED BY <2>1, <2>2, <2>3, <1>4
<1>10. LeafInv'
  BY <1>2, <1>5, <1>9 DEF LeafInv
<1>11. leaf_paid[k] > 0 /\ leaf_paid'[k] # leaf_paid[k]
         => leaf_paid'[k] = 2 /\ Lookup(k) = 0 /\ storage'[k] # 0
  <2> SUFFICES ASSUME leaf_paid[k] > 0, leaf_paid'[k] # leaf_paid[k]
               PROVE  leaf_paid'[k] = 2 /\ Lookup(k) = 0 /\ storage'[k] # 0
    OBVIOUS
  <2>1. k \in dirty /\ LeafOwed(k, v)
    BY <1>6, <1>8
  <2>2. FreshLeaf(k, v)
    BY <1>3, <1>4, <2>1
  <2>3. leaf_paid[k] = 1
    BY <1>3, <1>6, <2>2
  <2>4. storage'[k] = v
    BY <1>1, <1>2
  <2> QED BY <1>3, <1>7, <2>1, <2>2, <2>3, <2>4
<1> QED BY <1>5, <1>10, <1>11

LEMMA StepLeaf ==
    ASSUME TypeOK, LeafInv, [Next]_vars
    PROVE  /\ LeafInv'
           /\ \A k \in Key : leaf_paid[k] > 0 /\ leaf_paid'[k] # leaf_paid[k]
                => leaf_paid'[k] = 2 /\ Lookup(k) = 0 /\ storage'[k] # 0
<1>1. ASSUME UNCHANGED <<leaf_paid, dirty, fresh_charged>>
      PROVE  /\ LeafInv'
             /\ \A k \in Key : leaf_paid'[k] = leaf_paid[k]
  BY <1>1 DEF LeafInv
<1>2. ASSUME NEW fault \in Fault, Abort(fault)
      PROVE  UNCHANGED <<leaf_paid, dirty, fresh_charged>>
  BY <1>2 DEF Abort, rows
<1>3. ASSUME NEW op \in OpCode, NEW len \in Nat, Compute(op, len)
      PROVE  UNCHANGED <<leaf_paid, dirty, fresh_charged>>
  BY <1>3 DEF Compute, rows
<1>4. Halt => UNCHANGED <<leaf_paid, dirty, fresh_charged>>
  BY DEF Halt, rows
<1>5. ASSUME NEW k \in Key, SLoad(k)
      PROVE  UNCHANGED <<leaf_paid, dirty, fresh_charged>>
  BY <1>5 DEF SLoad
<1>6. ASSUME NEW p \in Region, Hash(p)
      PROVE  UNCHANGED <<leaf_paid, dirty, fresh_charged>>
  BY <1>6 DEF Hash, rows
<1>7. ASSUME NEW to \in Region, NEW amount \in Word, Send(to, amount)
      PROVE  UNCHANGED <<leaf_paid, dirty, fresh_charged>>
  BY <1>7 DEF Send, rows
<1>8. ASSUME NEW sel \in Selector, NEW data \in Region, Emit(sel, data)
      PROVE  UNCHANGED <<leaf_paid, dirty, fresh_charged>>
  BY <1>8 DEF Emit, rows
<1>9. UNCHANGED vars => UNCHANGED <<leaf_paid, dirty, fresh_charged>>
  BY DEF vars, rows
<1>10. \/ \E k \in Key, v \in Word : SStore(k, v)
       \/ UNCHANGED <<leaf_paid, dirty, fresh_charged>>
  BY <1>2, <1>3, <1>4, <1>5, <1>6, <1>7, <1>8, <1>9, StepCases
<1> QED BY <1>1, <1>10, SStoreLeaf

(* A key pays a second leaf only when it is made non-zero while it reads   *)
(* as zero, and never a third, whatever the program writes and in which    *)
(* order.                                                                  *)
THEOREM SecondLeafIsJustified == Spec => SecondLeafOnlyOnZero
<1>1. TypeOK /\ LeafInv /\ [Next]_vars => LeafInv'
  BY StepLeaf
<1>2. TypeOK /\ LeafInv /\ [Next]_vars
        => [\A k \in Key : leaf_paid[k] > 0 /\ leaf_paid'[k] # leaf_paid[k]
              => leaf_paid'[k] = 2 /\ Lookup(k) = 0 /\ storage'[k] # 0]_vars
  BY StepLeaf
<1> QED BY <1>1, <1>2, InitLeaf, TypeCorrect, PTL
    DEF Spec, SecondLeafOnlyOnZero

(***************************************************************************)
(* Sums over the effects                                                   *)
(***************************************************************************)
LEMMA TotalIsNat ==
    ASSUME NEW n \in Nat, NEW w \in [1..n -> Nat]
    PROVE  /\ \E f : PartialSums(f, n, w) /\ Total(w) = f[n]
           /\ Total(w) \in Nat
<1> DEFINE V == CHOOSE f : f = Adding(f, n, w)
<1>1. Len(w) = n
  OBVIOUS
<1>2. Total(w) = V[n]
  BY <1>1 DEF Total, Adding
<1>3. PartialSums(V, n, w)
  BY SumChosen
<1> HIDE DEF V
<1>4. V[n] \in Nat
  BY <1>3 DEF PartialSums
<1> QED BY <1>2, <1>3, <1>4

(* One number more adds itself to a sum. *)
LEMMA TotalGrows ==
    ASSUME NEW n \in Nat, NEW w \in [1..n -> Nat], NEW u \in [1..(n + 1) -> Nat],
           \A i \in 1..n : u[i] = w[i]
    PROVE  Total(u) = Total(w) + u[n + 1] /\ Total(w) \in Nat
<1>1. n + 1 \in Nat /\ n + 1 \in n..(n + 1)
  OBVIOUS
<1>2. PICK f : PartialSums(f, n, w) /\ Total(w) = f[n]
  BY TotalIsNat
<1>3. PICK g : PartialSums(g, n + 1, u) /\ Total(u) = g[n + 1]
  BY <1>1, TotalIsNat
<1>4. g[n] = f[n]
  BY <1>1, <1>2, <1>3, SumsAgree
<1>5. n + 1 \in 1..(n + 1) /\ (n + 1) - 1 = n
  OBVIOUS
<1>6. g[n + 1] = g[n] + u[n + 1]
  BY <1>3, <1>5 DEF PartialSums
<1> QED BY <1>2, <1>3, <1>4, <1>6, TotalIsNat

LEMMA NothingTotals == Total(<<>>) = 0
<1>1. <<>> \in [1..0 -> Nat] /\ 0 \in Nat
  OBVIOUS
<1>2. PICK f : PartialSums(f, 0, <<>>) /\ Total(<<>>) = f[0]
  BY <1>1, TotalIsNat
<1> QED BY <1>2 DEF PartialSums

(* The bytes, the targets and the price of one effect *)
LEMMA EffectTypes ==
    ASSUME NEW e \in Effect
    PROVE  BytesOf(e) \in Nat /\ PriceOf(e) \in Nat
<1>1. cost["Send"] \in Nat /\ cost["Emit"] \in Nat
  BY CostIsNatural DEF OpCode, EffectOps
<1>2. EVENT_BYTE \in Nat
  BY PricesAreNaturals DEF Prices
<1>3. CASE e \in [kind : {"Transfer"}, to : Region, amount : Word]
  <2>1. e.kind = "Transfer" /\ e.to \in Region
    BY <1>3
  <2>2. Len(e.to) \in Nat
    BY <2>1, RegionLengths
  <2>3. Len(e.to) * EFFECT_BYTE \in Nat
    BY <2>2, PriceTypes
  <2> QED BY <1>1, <2>1, <2>2, <2>3, PriceTypes DEF BytesOf, DataOf, PriceOf
<1>4. CASE e \in [kind : {"Event"}, selector : 0..U32_MAX, data : Region]
  <2>1. e.kind = "Event" /\ e.data \in Region
    BY <1>4
  <2>2. Len(e.data) \in Nat
    BY <2>1, RegionLengths
  <2>3. Len(e.data) * EVENT_BYTE \in Nat
    BY <2>2, <1>2
  <2> QED BY <1>1, <2>1, <2>2, <2>3, PriceTypes DEF BytesOf, DataOf, PriceOf
<1> QED BY <1>3, <1>4 DEF Effect

ByteWeights == [i \in DOMAIN effects |-> BytesOf(effects[i])]
PriceWeights == [i \in DOMAIN effects |-> PriceOf(effects[i])]

LEMMA WeightTypes ==
    ASSUME TypeOK
    PROVE  /\ Len(effects) \in Nat /\ DOMAIN effects = 1..Len(effects)
           /\ ByteWeights \in [1..Len(effects) -> Nat]
           /\ PriceWeights \in [1..Len(effects) -> Nat]
<1>1. /\ effects \in Seq(Effect) /\ Len(effects) \in Nat
      /\ DOMAIN effects = 1..Len(effects)
  BY DEF TypeOK
<1>2. \A i \in 1..Len(effects) : effects[i] \in Effect
  BY <1>1
<1>3. \A i \in 1..Len(effects) :
         BytesOf(effects[i]) \in Nat /\ PriceOf(effects[i]) \in Nat
  BY <1>2, EffectTypes
<1> QED BY <1>1, <1>3 DEF ByteWeights, PriceWeights

(* An effect appended adds its bytes and its price to the sums. *)
LEMMA EffectAppended ==
    ASSUME TypeOK, TypeOK', NEW e \in Effect, effects' = Append(effects, e)
    PROVE  /\ Total(ByteWeights)' = Total(ByteWeights) + BytesOf(e)
           /\ Total(PriceWeights)' = Total(PriceWeights) + PriceOf(e)
           /\ Total(ByteWeights) \in Nat /\ Total(PriceWeights) \in Nat
<1> DEFINE n == Len(effects)
           b == ByteWeights
           c == [i \in DOMAIN effects' |-> BytesOf(effects'[i])]
           p == PriceWeights
           q == [i \in DOMAIN effects' |-> PriceOf(effects'[i])]
<1>1. n \in Nat /\ b \in [1..n -> Nat] /\ p \in [1..n -> Nat] /\ DOMAIN effects = 1..n
  BY WeightTypes
<1>2. /\ effects \in Seq(Effect) /\ Len(effects') = n + 1
      /\ DOMAIN effects' = 1..(n + 1)
      /\ effects'[n + 1] = e
      /\ \A i \in 1..n : effects'[i] = effects[i]
  BY DEF TypeOK
<1>3. \A i \in 1..(n + 1) : effects'[i] \in Effect
  BY <1>1, <1>2 DEF TypeOK
<1>4. c \in [1..(n + 1) -> Nat] /\ q \in [1..(n + 1) -> Nat]
  BY <1>2, <1>3, EffectTypes
<1>5. \A i \in 1..n : c[i] = b[i] /\ q[i] = p[i]
  <2> TAKE i \in 1..n
  <2>1. i \in 1..(n + 1)
    BY <1>1
  <2> QED BY <1>1, <1>2, <2>1 DEF ByteWeights, PriceWeights
<1>6. c[n + 1] = BytesOf(e) /\ q[n + 1] = PriceOf(e)
  BY <1>1, <1>2
<1>7. ByteWeights' = c /\ PriceWeights' = q
  BY DEF ByteWeights, PriceWeights, BytesOf, PriceOf, DataOf
<1>8. Total(ByteWeights)' = Total(c) /\ Total(PriceWeights)' = Total(q)
  BY <1>7 DEF Total
<1> HIDE DEF n, b, c, p, q
<1>9. Total(c) = Total(b) + c[n + 1] /\ Total(b) \in Nat
  BY <1>1, <1>4, <1>5, TotalGrows
<1>10. Total(q) = Total(p) + q[n + 1] /\ Total(p) \in Nat
  BY <1>1, <1>4, <1>5, TotalGrows
<1> QED BY <1>6, <1>8, <1>9, <1>10 DEF b, p

(***************************************************************************)
(* What the counters count                                                 *)
(***************************************************************************)
(* The sets of RetainedExactly *)
Events == {i \in DOMAIN effects : effects[i].kind = "Event"}
Targets == UNION {TargetsOf(effects[i]) : i \in DOMAIN effects}

EffectsInv ==
    /\ effects_bytes = Total(ByteWeights)
    /\ effects_bytes <= EFFECTS_BYTES_CAP
    /\ IsFiniteSet(Events) /\ event_records = Cardinality(Events)
    /\ durable_targets = Targets

KeyedInv ==
    /\ keyed_bytes = STORAGE_KEY_BYTES
            * (Cardinality(keyed_authorized_reads)
                + Cardinality(keyed_authorized_writes))
    /\ keyed_bytes <= EFFECTS_BYTES_CAP

LEMMA AppendedSets ==
    ASSUME TypeOK, NEW e, effects' = Append(effects, e)
    PROVE  /\ Events' = Events \cup
                 IF e.kind = "Event" THEN {Len(effects) + 1} ELSE {}
           /\ Len(effects) + 1 \notin Events
           /\ Targets' = Targets \cup TargetsOf(e)
<1> DEFINE n == Len(effects)
<1>1. /\ n \in Nat /\ DOMAIN effects = 1..n
      /\ DOMAIN effects' = 1..(n + 1)
      /\ effects'[n + 1] = e
      /\ \A i \in 1..n : effects'[i] = effects[i]
  BY DEF TypeOK
<1>2. 1..(n + 1) = 1..n \cup {n + 1} /\ n + 1 \notin 1..n
  BY <1>1
<1> HIDE DEF n
<1>3. Events' = Events \cup IF e.kind = "Event" THEN {n + 1} ELSE {}
  BY <1>1, <1>2 DEF Events
<1>4. n + 1 \notin Events
  BY <1>1, <1>2 DEF Events
<1>5. Targets' = UNION {TargetsOf(effects'[i]) : i \in DOMAIN effects'}
  BY DEF Targets, TargetsOf, MintTargets, Truncated
<1>6. \A t : t \in Targets' <=> t \in Targets \/ t \in TargetsOf(e)
  BY <1>1, <1>2, <1>5 DEF Targets
<1> QED BY <1>3, <1>4, <1>6 DEF n

LEMMA SendKeepsEffects ==
    ASSUME TypeOK, EffectsInv, NEW to \in Region, NEW amount \in Word,
           Send(to, amount)
    PROVE  EffectsInv'
<1> DEFINE e == [kind |-> "Transfer", to |-> to, amount |-> amount]
<1>1. e \in Effect /\ e.kind = "Transfer" /\ e.to = to
  BY DEF Effect
<1>2. /\ effects' = Append(effects, e) /\ effects_bytes' = EffectRetained(to)
      /\ Fits(to) /\ event_records' = event_records
      /\ durable_targets' = durable_targets \cup {<<DURABLE_TRANSFER, to>>}
  BY DEF Send
<1>3. TypeOK'
  BY SendKeepsTypes
<1> HIDE DEF e
<1>4. Total(ByteWeights)' = Total(ByteWeights) + BytesOf(e)
      /\ Total(ByteWeights) \in Nat
  BY <1>1, <1>2, <1>3, EffectAppended
<1>5. BytesOf(e) = Len(to) + EFFECT_RECORD_OVERHEAD /\ Len(to) \in Nat
  BY <1>1, RegionLengths DEF BytesOf, DataOf
<1>6. effects_bytes' = Total(ByteWeights)'
  BY <1>2, <1>4, <1>5, PriceTypes DEF EffectsInv, EffectRetained
<1>7. effects_bytes' <= EFFECTS_BYTES_CAP
  BY <1>2 DEF Fits
<1>8. Events' = Events
  BY <1>1, <1>2, AppendedSets
<1>9. Targets' = Targets \cup {<<DURABLE_TRANSFER, to>>}
  BY <1>1, <1>2, AppendedSets DEF TargetsOf
<1> QED BY <1>2, <1>6, <1>7, <1>8, <1>9 DEF EffectsInv

LEMMA EmitKeepsEffects ==
    ASSUME TypeOK, EffectsInv, NEW sel \in Selector, NEW data \in Region,
           Emit(sel, data)
    PROVE  EffectsInv'
<1> DEFINE s == Truncated(sel)
           e == [kind |-> "Event", selector |-> s, data |-> data]
<1>1. s \in 0..U32_MAX /\ Truncated(s) = s
  <2>1. U32_MAX \in Nat /\ sel \in Nat
    BY SelectorsAreWords, SizesAreNaturals, PricesAreNaturals DEF Prices
  <2>2. \A m \in Nat \ {0}, x \in Nat : x % m \in 0..(m - 1)
                                        /\ (x % m) % m = x % m
    <3> TAKE m \in Nat \ {0}, x \in Nat
    <3>1. x % m \in 0..(m - 1)
      BY DivMod
    <3>2. \A y \in 0..(m - 1) : y % m = y
      OBVIOUS
    <3> QED BY <3>1, <3>2
  <2>3. U32_MAX + 1 \in Nat \ {0} /\ (U32_MAX + 1) - 1 = U32_MAX
    BY <2>1
  <2> QED BY <2>1, <2>2, <2>3 DEF Truncated
<1> HIDE DEF s
<1>2. e \in Effect /\ e.kind = "Event" /\ e.data = data /\ e.selector = s
  BY <1>1 DEF Effect
<1>3. /\ effects' = Append(effects, e) /\ effects_bytes' = EffectRetained(data)
      /\ Fits(data) /\ event_records' = event_records + 1
      /\ durable_targets' = durable_targets \cup MintTargets(sel, data)
  BY DEF Emit, s
<1>4. TypeOK'
  BY EmitKeepsTypes
<1> HIDE DEF e
<1>5. Total(ByteWeights)' = Total(ByteWeights) + BytesOf(e)
      /\ Total(ByteWeights) \in Nat
  BY <1>2, <1>3, <1>4, EffectAppended
<1>6. BytesOf(e) = Len(data) + EFFECT_RECORD_OVERHEAD /\ Len(data) \in Nat
  BY <1>2, RegionLengths DEF BytesOf, DataOf
<1>7. effects_bytes' = Total(ByteWeights)'
  BY <1>3, <1>5, <1>6, PriceTypes DEF EffectsInv, EffectRetained
<1>8. effects_bytes' <= EFFECTS_BYTES_CAP
  BY <1>3 DEF Fits
<1>9. /\ Events' = Events \cup {Len(effects) + 1}
      /\ Len(effects) + 1 \notin Events
      /\ Targets' = Targets \cup TargetsOf(e)
  BY <1>2, <1>3, AppendedSets
<1>10. IsFiniteSet(Events') /\ Cardinality(Events') = Cardinality(Events) + 1
  BY <1>9, FS_AddElement DEF EffectsInv
<1>11. TargetsOf(e) = MintTargets(sel, data)
  BY <1>1, <1>2 DEF TargetsOf, MintTargets, s
<1> QED BY <1>3, <1>7, <1>8, <1>9, <1>10, <1>11 DEF EffectsInv

LEMMA HashKeepsKeyed ==
    ASSUME TypeOK, KeyedInv, NEW p \in Region, Hash(p)
    PROVE  KeyedInv'
<1> DEFINE d == Digest[p]
           r == keyed_authorized_reads
           w == keyed_authorized_writes
           newr == IsKeyedRead(p) /\ d \notin r
           neww == IsKeyedWrite(p) /\ d \notin w
           dr == IF newr THEN 1 ELSE 0
           dw == IF neww THEN 1 ELSE 0
<1>1. /\ IsFiniteSet(r) /\ IsFiniteSet(w)
      /\ Cardinality(r) \in Nat /\ Cardinality(w) \in Nat
  BY FiniteKeys DEF TypeOK
<1>2. /\ r' = IF newr THEN r \cup {d} ELSE r
      /\ w' = IF neww THEN w \cup {d} ELSE w
  BY DEF Hash
<1>3. Cardinality(r') = Cardinality(r) + dr
  <2>1. CASE newr
    <3>1. r' = r \cup {d} /\ d \notin r
      BY <1>2, <2>1
    <3> HIDE DEF d, r
    <3>2. Cardinality(r') = Cardinality(r) + 1
      BY <1>1, <3>1, FS_AddElement
    <3> QED BY <2>1, <3>2
  <2>2. CASE ~newr
    <3>1. r' = r
      BY <1>2, <2>2
    <3> HIDE DEF r
    <3> QED BY <1>1, <2>2, <3>1
  <2> QED BY <2>1, <2>2
<1>4. Cardinality(w') = Cardinality(w) + dw
  <2>1. CASE neww
    <3>1. w' = w \cup {d} /\ d \notin w
      BY <1>2, <2>1
    <3> HIDE DEF d, w
    <3>2. Cardinality(w') = Cardinality(w) + 1
      BY <1>1, <3>1, FS_AddElement
    <3> QED BY <2>1, <3>2
  <2>2. CASE ~neww
    <3>1. w' = w
      BY <1>2, <2>2
    <3> HIDE DEF w
    <3> QED BY <1>1, <2>2, <3>1
  <2> QED BY <2>1, <2>2
<1>5. KeyedEntries(p) = dw + dr
  BY DEF KeyedEntries
<1>6. keyed_bytes' = keyed_bytes + STORAGE_KEY_BYTES * (dw + dr)
  BY <1>5 DEF Hash, KeyedRetained
<1>7. dr \in Nat /\ dw \in Nat
  OBVIOUS
<1>8. ~IsKeyedRead(p) => dr = 0 /\ dw = 0
  BY DEF IsKeyedRead
<1>9. STORAGE_KEY_BYTES \in Nat /\ keyed_bytes \in Nat
  BY SizesAreNaturals DEF TypeOK
<1>10. keyed_bytes = STORAGE_KEY_BYTES * (Cardinality(r) + Cardinality(w))
       /\ keyed_bytes <= EFFECTS_BYTES_CAP
  BY DEF KeyedInv
<1>11. keyed_bytes' <= EFFECTS_BYTES_CAP
  <2>1. CASE IsKeyedRead(p)
    BY <2>1 DEF Hash
  <2>2. CASE ~IsKeyedRead(p)
    <3>1. dw + dr = 0
      BY <1>8, <2>2
    <3> HIDE DEF dw, dr
    <3> QED BY <1>6, <1>9, <1>10, <3>1
  <2> QED BY <2>1, <2>2
<1>12. \A k, a, b, x, y \in Nat :
          k * (a + b) + k * (y + x) = k * ((a + x) + (b + y))
  OBVIOUS
<1> HIDE DEF dr, dw
<1>13. keyed_bytes' = STORAGE_KEY_BYTES * (Cardinality(r') + Cardinality(w'))
  BY <1>1, <1>3, <1>4, <1>6, <1>7, <1>9, <1>10, <1>12
<1> QED BY <1>11, <1>13 DEF KeyedInv

LEMMA SameEffects ==
    ASSUME EffectsInv, UNCHANGED output PROVE EffectsInv'
<1>1. UNCHANGED <<effects, effects_bytes, durable_targets, event_records>>
  BY DEF output
<1>2. ByteWeights' = ByteWeights /\ Events' = Events /\ Targets' = Targets
  BY <1>1 DEF ByteWeights, Events, Targets, BytesOf, DataOf, TargetsOf,
              MintTargets, Truncated
<1>3. Total(ByteWeights)' = Total(ByteWeights)
  BY <1>2 DEF Total
<1> QED BY <1>1, <1>2, <1>3 DEF EffectsInv

LEMMA SameKeyed ==
    ASSUME KeyedInv, UNCHANGED keyed PROVE KeyedInv'
BY DEF KeyedInv, keyed

LEMMA InitCounters == Init => EffectsInv /\ KeyedInv
<1> SUFFICES ASSUME Init PROVE EffectsInv /\ KeyedInv
  OBVIOUS
<1>1. /\ effects = <<>> /\ effects_bytes = 0 /\ durable_targets = {}
      /\ event_records = 0 /\ keyed_bytes = 0
      /\ keyed_authorized_reads = {} /\ keyed_authorized_writes = {}
  BY DEF Init
<1>2. ByteWeights = <<>> /\ Events = {} /\ Targets = {}
  BY <1>1 DEF ByteWeights, Events, Targets
<1>3. Cardinality({}) = 0 /\ IsFiniteSet({})
  BY FS_EmptySet
<1>4. EffectsInv
  BY <1>1, <1>2, <1>3, NothingTotals, PriceTypes DEF EffectsInv
<1>5. KeyedInv
  BY <1>1, <1>3, PriceTypes, SizesAreNaturals DEF KeyedInv
<1> QED BY <1>4, <1>5

LEMMA StepKeepsCounters ==
    TypeOK /\ EffectsInv /\ KeyedInv /\ [Next]_vars => EffectsInv' /\ KeyedInv'
<1> SUFFICES ASSUME TypeOK, EffectsInv, KeyedInv, [Next]_vars
             PROVE  EffectsInv' /\ KeyedInv'
  OBVIOUS
<1>1. ASSUME UNCHANGED <<keyed, output>> PROVE EffectsInv' /\ KeyedInv'
  BY <1>1, SameEffects, SameKeyed
<1>2. ASSUME NEW fault \in Fault, Abort(fault) PROVE UNCHANGED <<keyed, output>>
  BY <1>2 DEF Abort
<1>3. ASSUME NEW op \in OpCode, NEW len \in Nat, Compute(op, len)
      PROVE  UNCHANGED <<keyed, output>>
  BY <1>3 DEF Compute
<1>4. Halt => UNCHANGED <<keyed, output>>
  BY DEF Halt
<1>5. ASSUME NEW k \in Key, SLoad(k) PROVE UNCHANGED <<keyed, output>>
  BY <1>5 DEF SLoad
<1>6. ASSUME NEW k \in Key, NEW v \in Word, SStore(k, v)
      PROVE  UNCHANGED <<keyed, output>>
  BY <1>6 DEF SStore
<1>7. ASSUME NEW p \in Region, Hash(p) PROVE EffectsInv' /\ KeyedInv'
  <2>1. UNCHANGED output
    BY <1>7 DEF Hash
  <2> QED BY <1>7, <2>1, SameEffects, HashKeepsKeyed
<1>8. ASSUME NEW to \in Region, NEW amount \in Word, Send(to, amount)
      PROVE  EffectsInv' /\ KeyedInv'
  <2>1. UNCHANGED keyed
    BY <1>8 DEF Send
  <2> QED BY <1>8, <2>1, SameKeyed, SendKeepsEffects
<1>9. ASSUME NEW sel \in Selector, NEW data \in Region, Emit(sel, data)
      PROVE  EffectsInv' /\ KeyedInv'
  <2>1. UNCHANGED keyed
    BY <1>9 DEF Emit
  <2> QED BY <1>9, <2>1, SameKeyed, EmitKeepsEffects
<1>10. UNCHANGED vars => UNCHANGED <<keyed, output>>
  BY DEF vars
<1>11. \/ UNCHANGED <<keyed, output>>
       \/ \E p \in Region : Hash(p)
       \/ \E to \in Region, amount \in Word : Send(to, amount)
       \/ \E sel \in Selector, data \in Region : Emit(sel, data)
  BY <1>2, <1>3, <1>4, <1>5, <1>6, <1>10, StepCases
<1> QED BY <1>1, <1>7, <1>8, <1>9, <1>11

(* The counters that the effect charges and the cap are computed from are  *)
(* exact in every reachable state of every call.                           *)
THEOREM CountersAreExact == Spec => []RetainedExactly
<1>1. EffectsInv /\ KeyedInv => RetainedExactly
  BY DEF EffectsInv, KeyedInv, RetainedExactly, ByteWeights, Events, Targets
<1> QED BY <1>1, InitCounters, StepKeepsCounters, TypeCorrect, PTL DEF Spec

(***************************************************************************)
(* Events at the event price                                               *)
(***************************************************************************)
PaidEffects == IsFiniteSet(durable_targets) /\ EventBytesPaid

(* What the effects cost, all charges of SEND and EMIT together *)
EffectsCost == Total(PriceWeights) + TargetCost + RecordCost

LEMMA EffectsCostType ==
    ASSUME TypeOK, IsFiniteSet(durable_targets)
    PROVE  /\ EffectsCost \in Nat /\ Opening \in Nat
           /\ EventBytesPaid <=> Opening + EffectsCost <= meter_used
<1>1. TargetCost \in Nat /\ RecordCost \in Nat /\ Opening \in Nat
  BY CostTypes
<1>2. Total(PriceWeights) \in Nat
  BY WeightTypes, TotalIsNat
<1>3. EventBytesPaid <=>
        Opening + Total(PriceWeights) + TargetCost + RecordCost <= meter_used
  BY DEF EventBytesPaid, PriceWeights
<1>4. Opening + Total(PriceWeights) + TargetCost + RecordCost
        = Opening + EffectsCost
  BY <1>1, <1>2 DEF EffectsCost
<1> QED BY <1>1, <1>2, <1>3, <1>4 DEF EffectsCost

LEMMA PaidEffectsStep ==
    ASSUME TypeOK, TypeOK', PaidEffects, IsFiniteSet(durable_targets'),
           NEW n \in Nat, meter_used' = meter_used + n, call' = call,
           EffectsCost' <= EffectsCost + n
    PROVE  PaidEffects'
<1>1. Opening' = Opening
  BY DEF Opening
<1>2. EffectsCost \in Nat /\ Opening \in Nat /\ Opening + EffectsCost <= meter_used
  BY EffectsCostType DEF PaidEffects
<1>3. /\ EffectsCost' \in Nat
      /\ EventBytesPaid' <=> Opening' + EffectsCost' <= meter_used'
  <2>1. (TypeOK /\ IsFiniteSet(durable_targets) =>
            /\ EffectsCost \in Nat
            /\ EventBytesPaid <=> Opening + EffectsCost <= meter_used)'
    BY EffectsCostType, PTL
  <2> QED BY <2>1
<1>4. meter_used \in Nat
  BY DEF TypeOK
<1>5. \A o, c, d, m, k \in Nat : o + c <= m /\ d <= c + k => o + d <= m + k
  OBVIOUS
<1>6. Opening + EffectsCost' <= meter_used + n
  BY <1>2, <1>3, <1>4, <1>5, Zenon
<1>7. Opening' + EffectsCost' <= meter_used'
  BY <1>1, <1>6, Zenon
<1>8. EventBytesPaid'
  BY <1>3, <1>7, Zenon
<1> QED BY <1>8, Zenon DEF PaidEffects

LEMMA SameEffectsCost ==
    ASSUME UNCHANGED output PROVE EffectsCost' = EffectsCost
<1>1. UNCHANGED <<effects, durable_targets, event_records>>
  BY DEF output
<1>2. PriceWeights' = PriceWeights
  BY <1>1 DEF PriceWeights, PriceOf, DataOf
<1>3. Total(PriceWeights)' = Total(PriceWeights)
  BY <1>2 DEF Total
<1> QED BY <1>1, <1>3 DEF EffectsCost, TargetCost, RecordCost

LEMMA SendPaysEffects ==
    ASSUME TypeOK, PaidEffects, NEW to \in Region, NEW amount \in Word,
           Send(to, amount)
    PROVE  PaidEffects'
<1> DEFINE e == [kind |-> "Transfer", to |-> to, amount |-> amount]
           t == <<DURABLE_TRANSFER, to>>
<1>1. e \in Effect /\ e.kind = "Transfer" /\ e.to = to
  BY DEF Effect
<1>2. /\ effects' = Append(effects, e) /\ event_records' = event_records
      /\ durable_targets' = durable_targets \cup {t}
      /\ call' = call /\ meter_used' = meter_used + SendPrice(to)
  BY DEF Send, charge, env
<1>3. TypeOK'
  BY SendKeepsTypes
<1> HIDE DEF e
<1>4. Total(PriceWeights)' = Total(PriceWeights) + PriceOf(e)
      /\ Total(PriceWeights) \in Nat
  BY <1>1, <1>2, <1>3, EffectAppended
<1>5. IsFiniteSet(durable_targets') /\ TargetCost' <= TargetCost + TargetFee({t})
  BY <1>2, TargetCostStep DEF PaidEffects
<1>6. RecordCost' = RecordCost
  BY <1>2 DEF RecordCost
<1>7. PriceOf(e) = EffectPrice("Send", to)
  BY <1>1 DEF PriceOf, EffectPrice
<1>8. PriceOf(e) \in Nat /\ TargetFee({t}) \in Nat
  BY <1>1, EffectTypes, EffectChargesAreNat
<1>9. SendPrice(to) = PriceOf(e) + TargetFee({t})
  BY <1>7 DEF SendPrice
<1>10. TargetCost \in Nat /\ RecordCost \in Nat
  BY CostTypes DEF PaidEffects
<1>11. TargetCost' \in Nat
  <2>1. Excess(Cardinality(durable_targets'), 1) \in Nat
    BY <1>5, FS_CardinalityType DEF Excess
  <2> QED BY <2>1, PriceTypes DEF TargetCost
<1> HIDE DEF t
<1>12. EffectsCost' <= EffectsCost + SendPrice(to) /\ SendPrice(to) \in Nat
  BY <1>4, <1>5, <1>6, <1>8, <1>9, <1>10, <1>11 DEF EffectsCost
<1> QED BY <1>2, <1>3, <1>5, <1>12, PaidEffectsStep

LEMMA EmitPaysEffects ==
    ASSUME TypeOK, PaidEffects, NEW sel \in Selector, NEW data \in Region,
           Emit(sel, data)
    PROVE  PaidEffects'
<1> DEFINE e == [kind |-> "Event", selector |-> Truncated(sel), data |-> data]
           ts == MintTargets(sel, data)
<1>1. Truncated(sel) \in 0..U32_MAX
  <2>1. U32_MAX \in Nat /\ sel \in Nat /\ U32_MAX + 1 \in Nat \ {0}
        /\ (U32_MAX + 1) - 1 = U32_MAX
    BY SelectorsAreWords, SizesAreNaturals, PricesAreNaturals DEF Prices
  <2> QED BY <2>1, DivMod DEF Truncated
<1>2. e \in Effect /\ e.kind = "Event" /\ e.data = data
  BY <1>1 DEF Effect
<1>3. /\ effects' = Append(effects, e) /\ event_records' = event_records + 1
      /\ durable_targets' = durable_targets \cup ts
      /\ call' = call /\ meter_used' = meter_used + EmitPrice(sel, data)
  BY DEF Emit, charge, env
<1>4. TypeOK'
  BY EmitKeepsTypes
<1> HIDE DEF e
<1>5. Total(PriceWeights)' = Total(PriceWeights) + PriceOf(e)
      /\ Total(PriceWeights) \in Nat
  BY <1>2, <1>3, <1>4, EffectAppended
<1>6. TargetCost \in Nat /\ RecordCost \in Nat
  BY CostTypes DEF PaidEffects
<1>7. TargetFee(ts) \in Nat /\ RecordFee \in Nat
  BY EffectChargesAreNat
<1>8. IsFiniteSet(durable_targets') /\ TargetCost' <= TargetCost + TargetFee(ts)
  <2>1. CASE ts = {}
    <3>1. durable_targets' = durable_targets
      BY <1>3, <2>1
    <3>2. TargetCost' = TargetCost
      BY <3>1 DEF TargetCost
    <3> HIDE DEF ts
    <3> QED BY <1>6, <1>7, <3>1, <3>2 DEF PaidEffects
  <2>2. CASE ts = {<<DURABLE_MINT, SubSeq(data, 1, HOLDER_BYTES)>>}
    <3> HIDE DEF ts
    <3> QED BY <1>3, <2>2, TargetCostStep DEF PaidEffects
  <2> QED BY <2>1, <2>2 DEF MintTargets
<1>9. RecordCost' = RecordCost + RecordFee
  BY <1>3, RecordCostStep
<1>10. EmitPrice(sel, data) = PriceOf(e) + TargetFee(ts) + RecordFee
  <2>1. cost["Emit"] \in Nat /\ Len(data) \in Nat /\ EVENT_BYTE \in Nat
    BY CostIsNatural, RegionLengths, PricesAreNaturals DEF OpCode, EffectOps, Prices
  <2>2. \A n, a, b \in Nat : n * a + n * (b - a) = n * b
    OBVIOUS
  <2>3. Len(data) * EFFECT_BYTE + Len(data) * (EVENT_BYTE - EFFECT_BYTE)
          = Len(data) * EVENT_BYTE
    BY <2>1, <2>2, PriceTypes
  <2>4. PriceOf(e) = cost["Emit"] + Len(data) * EVENT_BYTE
    BY <1>2 DEF PriceOf
  <2> DEFINE a == Len(data) * EFFECT_BYTE
             b == Len(data) * (EVENT_BYTE - EFFECT_BYTE)
             c == Len(data) * EVENT_BYTE
             x == TargetFee(ts)
  <2>5. EmitPrice(sel, data) = cost["Emit"] + a + b + x + RecordFee
    BY DEF EmitPrice, EffectPrice
  <2>6. a \in Nat /\ b \in Nat /\ a + b = c /\ x \in Nat
    BY <1>7, <2>1, <2>3, PriceTypes
  <2> HIDE DEF a, b, x
  <2>7. cost["Emit"] + a + b + x + RecordFee = cost["Emit"] + (a + b) + x + RecordFee
    BY <1>7, <2>1, <2>6
  <2> QED BY <2>4, <2>5, <2>6, <2>7 DEF x
<1>11. PriceOf(e) \in Nat
  BY <1>2, EffectTypes
<1>12. TargetCost' \in Nat
  <2>1. Excess(Cardinality(durable_targets'), 1) \in Nat
    BY <1>8, FS_CardinalityType DEF Excess
  <2> QED BY <2>1, PriceTypes DEF TargetCost
<1> HIDE DEF ts
<1>13. EffectsCost' <= EffectsCost + EmitPrice(sel, data)
       /\ EmitPrice(sel, data) \in Nat
  BY <1>5, <1>6, <1>7, <1>8, <1>9, <1>10, <1>11, <1>12 DEF EffectsCost
<1> QED BY <1>3, <1>4, <1>8, <1>13, PaidEffectsStep

LEMMA QuietPaysEffects ==
    ASSUME TypeOK, TypeOK', PaidEffects, UNCHANGED <<call, output>>,
           NEW n \in Nat, meter_used' = meter_used + n
    PROVE  PaidEffects'
<1>1. EffectsCost' = EffectsCost
  BY SameEffectsCost
<1>2. EffectsCost \in Nat
  BY EffectsCostType DEF PaidEffects
<1>3. IsFiniteSet(durable_targets') /\ call' = call
  BY DEF output, PaidEffects
<1>4. EffectsCost' <= EffectsCost + n
  BY <1>1, <1>2
<1> QED BY <1>3, <1>4, PaidEffectsStep

LEMMA InitPaysEffects == Init => PaidEffects
<1> SUFFICES ASSUME Init PROVE PaidEffects
  OBVIOUS
<1>1. TypeOK
  BY InitIsTyped
<1>2. /\ effects = <<>> /\ durable_targets = {} /\ event_records = 0
      /\ meter_used = Opening
  BY DEF Init
<1>3. Cardinality({}) = 0 /\ IsFiniteSet(durable_targets)
  BY <1>2, FS_EmptySet
<1>4. PriceWeights = <<>>
  BY <1>2 DEF PriceWeights
<1>5. TargetCost = 0 /\ RecordCost = 0 /\ Total(PriceWeights) = 0
  BY <1>2, <1>3, <1>4, NothingTotals, PriceTypes DEF TargetCost, RecordCost, Excess
<1>6. Opening \in Nat /\ (EventBytesPaid <=> Opening + EffectsCost <= meter_used)
  BY <1>1, <1>3, EffectsCostType
<1>7. EffectsCost = 0
  BY <1>5 DEF EffectsCost
<1> QED BY <1>2, <1>3, <1>6, <1>7 DEF PaidEffects

LEMMA StepPaysEffects ==
    TypeOK /\ PaidEffects /\ [Next]_vars => PaidEffects'
<1> SUFFICES ASSUME TypeOK, PaidEffects, [Next]_vars PROVE PaidEffects'
  OBVIOUS
<1>1. TypeOK'
  BY StepKeepsTypes
<1> DEFINE Quiet == \E n \in Nat : UNCHANGED <<call, output>>
                                 /\ meter_used' = meter_used + n
<1>2. Quiet => PaidEffects'
  BY <1>1, QuietPaysEffects
<1>3. meter_used \in Nat
  BY DEF TypeOK
<1>4. ASSUME UNCHANGED <<call, output, meter_used>> PROVE Quiet
  <2>1. meter_used' = meter_used + 0 /\ 0 \in Nat
    BY <1>3, <1>4
  <2> QED BY <1>4, <2>1
<1>5. ASSUME NEW n \in Nat, charge(n), UNCHANGED <<call, output>> PROVE Quiet
  BY <1>5 DEF charge
<1> HIDE DEF Quiet
<1>6. ASSUME NEW fault \in Fault, Abort(fault) PROVE Quiet
  BY <1>4, <1>6 DEF Abort, env
<1>7. ASSUME NEW op \in OpCode, NEW len \in Nat, Compute(op, len) PROVE Quiet
  BY <1>5, <1>7, PriceIsPositive DEF Compute, env
<1>8. Halt => Quiet
  BY <1>5, CostIsNatural DEF Halt, env, OpCode
<1>9. ASSUME NEW k \in Key, SLoad(k) PROVE Quiet
  BY <1>5, <1>9, CostIsNatural DEF SLoad, env, OpCode, EffectOps
<1>10. ASSUME NEW k \in Key, NEW v \in Word, SStore(k, v) PROVE Quiet
  <2>1. cost["SStore"] \in Nat
    BY CostIsNatural DEF OpCode, EffectOps
  <2>2. StorePrice(k, v) \in Nat
    BY <2>1, PriceTypes DEF StorePrice
  <2> QED BY <1>5, <1>10, <2>2 DEF SStore, env
<1>11. ASSUME NEW p \in Region, Hash(p) PROVE Quiet
  <2>1. Price("Hash", Len(p)) \in Nat /\ KeyedFee(p) \in Nat
    BY PriceIsPositive, RegionLengths, KeyedChargesAreNat DEF OpCode, EffectOps
  <2>2. Price("Hash", Len(p)) + KeyedFee(p) \in Nat
    BY <2>1
  <2> QED BY <1>5, <1>11, <2>2 DEF Hash, env
<1>12. UNCHANGED vars => Quiet
  BY <1>4 DEF vars, env
<1>13. \/ Quiet
       \/ \E to \in Region, amount \in Word : Send(to, amount)
       \/ \E sel \in Selector, data \in Region : Emit(sel, data)
  BY <1>6, <1>7, <1>8, <1>9, <1>10, <1>11, <1>12, StepCases
<1> QED BY <1>2, <1>13, SendPaysEffects, EmitPaysEffects

(* Every byte of an event is paid at the event price, whatever else the    *)
(* call sends, emits and hashes.                                           *)
THEOREM EventsPayTheirPrice == Spec => []EventBytesPaid
<1>1. PaidEffects => EventBytesPaid
  BY DEF PaidEffects
<1> QED BY <1>1, InitPaysEffects, StepPaysEffects, TypeCorrect, PTL DEF Spec
=============================================================================
