-------------------------------- MODULE Call --------------------------------
(***************************************************************************)
(* One metered call of the interpreter, crates/qtv-vm/src/interp.rs: what  *)
(* Interpreter::run and Interpreter::step do to the meter, the storage,    *)
(* the keyed authorisations and the effects of a call.                     *)
(*                                                                         *)
(* The program is arbitrary: a step executes any opcode of ProgramOps on   *)
(* any operands. Registers and memory are therefore left out (what a       *)
(* program reads from them is one of the values the action quantifies      *)
(* over), and so is the program counter, which module Control models. What *)
(* is kept is every check, charge and update that step makes, in the order *)
(* it makes them. A fault drops the interpreter (run takes self by value), *)
(* so it changes nothing but the status.                                   *)
(***************************************************************************)
EXTENDS Meter, Integers, Sequences, FiniteSets

CONSTANTS
    Key,            \* storage keys: scalar keys and digests alike
    Word,           \* the values of a row, 0 among them
    Absent,         \* no entry in a BTreeMap
    Region,         \* contents of a memory region: sequences of bytes
    Length,         \* operand lengths, also of regions that do not exist
    Digest,         \* external: sha3_256 on Region
    BASE_BYTES,     \* bytes of the head that names a keyed base
    STORAGE_KEY_BYTES,
    Selector,       \* the operands that EMIT takes a selector from
    U32_MAX,
    ASSET_MINT_SELECTOR,
    ASSET_MINT_DATA_BYTES,
    HOLDER_BYTES,
    header,         \* bytes of a verify operand before its variable part
    ProgramOps,     \* the opcodes of the program
    NoManifest,
    Manifests, Limits, CodeLens, Presets, Ledgers, Loaders, Rules

VARIABLES
    status,         \* "running", "halted" or the fault
    call,           \* what the node fixed before the call
    ledger,         \* the rows that the loader reads
    meter_used,
    storage, loaded, dirty, fresh_charged,
    keyed_authorized_reads, keyed_authorized_writes, keyed_bytes,
    effects, effects_bytes, durable_targets, event_records,
    read,           \* the word the last SLOAD put in its register
    leaf_paid,      \* history: how often each key was charged the leaf price
    parity          \* history: of the steps made, so that none is a stutter

env == <<call, ledger>>
rows == <<storage, loaded, dirty, fresh_charged, read, leaf_paid>>
keyed == <<keyed_authorized_reads, keyed_authorized_writes, keyed_bytes>>
output == <<effects, effects_bytes, durable_targets, event_records>>
vars == <<status, env, meter_used, parity, rows, keyed, output>>

(***************************************************************************)
(* Types                                                                   *)
(***************************************************************************)
Base == [1..BASE_BYTES -> Nat]

Manifest == [reads : SUBSET Key, writes : SUBSET Key,
             keyed_reads : SUBSET Base, keyed_writes : SUBSET Base]

(* enum Fault *)
Fault == {"OutOfMeter", "Overflow", "DivByZero", "StackOverflow",
          "StackUnderflow", "BadMemory", "BadJump", "BadConst", "BadScheme",
          "EffectsTooLarge", "UndeclaredSlot", "CryptoFault", "Malformed",
          "Decode"}

DURABLE_TRANSFER == 0
DURABLE_MINT == 1

(* enum Effect *)
Effect == [kind : {"Transfer"}, to : Region, amount : Word]
     \cup [kind : {"Event"}, selector : 0..U32_MAX, data : Region]

ASSUME WordHasZero == Word \subseteq Nat /\ 0 \in Word /\ Absent \notin Word
ASSUME KeysAreFinite == IsFiniteSet(Key)
ASSUME RegionsAreBytes == Region \subseteq Seq(Nat)
ASSUME LengthsAreWords == Length \subseteq 0..U64_MAX
ASSUME DigestsAreKeys == Digest \in [Region -> Key]
ASSUME SizesAreNaturals ==
    {BASE_BYTES, STORAGE_KEY_BYTES, ASSET_MINT_DATA_BYTES, HOLDER_BYTES,
     ASSET_MINT_SELECTOR, U32_MAX} \subseteq Nat
(* data[..32] is in range whenever the mint record is long enough. *)
ASSUME HolderFits == HOLDER_BYTES <= ASSET_MINT_DATA_BYTES
ASSUME SelectorsAreWords == Selector \subseteq 0..U64_MAX
ASSUME HeadersAreNatural == header \in [VerifyOps -> Nat]
ASSUME ProgramOpsAreOpCodes == ProgramOps \subseteq OpCode
ASSUME NoManifestIsNone == NoManifest \notin Manifest
ASSUME CallsAreTyped ==
    /\ Manifests \subseteq Manifest \cup {NoManifest}
    /\ Limits \subseteq 0..U64_MAX
    /\ CodeLens \subseteq Nat
    /\ Presets \subseteq [Key -> Word \cup {Absent}]
    /\ Ledgers \subseteq [Key -> Word]
    /\ Loaders \subseteq BOOLEAN
    /\ Rules \subseteq BOOLEAN

(***************************************************************************)
(* Opening a call: for_system_program (no manifest, nothing to pay) or     *)
(* open_entry (dispatch and code scan), then with_storage and              *)
(* with_storage_loader. strict is FALSE under with_legacy_rules.           *)
(***************************************************************************)
Opening == IF call.manifest = NoManifest THEN 0 ELSE dispatch(call.code_len)

Init ==
    /\ status = "running"
    /\ call \in [manifest : Manifests, meter_limit : Limits,
                 code_len : CodeLens, preset : Presets, loader : Loaders,
                 strict : Rules]
    /\ ledger \in Ledgers
    /\ Opening <= call.meter_limit
    /\ meter_used = Opening
    /\ storage = call.preset
    /\ loaded = [k \in Key |-> Absent]
    /\ dirty = {} /\ fresh_charged = {}
    /\ keyed_authorized_reads = {} /\ keyed_authorized_writes = {}
    /\ keyed_bytes = 0
    /\ effects = <<>> /\ effects_bytes = 0
    /\ durable_targets = {} /\ event_records = 0
    /\ read = 0
    /\ leaf_paid = [k \in Key |-> 0]
    /\ parity = 0

(***************************************************************************)
(* The meter                                                               *)
(***************************************************************************)
(* charge would succeed. meter_limit is a u64, so a sum that overflows is  *)
(* one that exceeds the limit, and both report OutOfMeter.                 *)
Affords(n) == meter_used + n <= call.meter_limit

(* The charges of a step as one; a step that goes on makes exactly one. *)
charge(n) ==
    /\ Affords(n)
    /\ meter_used' = meter_used + n
    /\ parity' = 1 - parity

Running(op) == status = "running" /\ op \in ProgramOps

Abort(fault) ==
    /\ status' = fault
    /\ UNCHANGED <<env, meter_used, parity, rows, keyed, output>>

(* u64::saturating_sub *)
Excess(n, m) == IF n > m THEN n - m ELSE 0

(* The length-scaled part of an opcode's price, charged before the opcode  *)
(* touches memory.                                                         *)
Variable(op, len) ==
    CASE op = "Hash" -> hash_variable(len)
      [] op \in {"VerifyMl", "VerifySlh"} ->
            message_variable(Excess(len, header[op]))
      [] op = "MerkleVerify" -> merkle_variable(Excess(len, header[op]))
      [] OTHER -> 0

(* Mutant of Price: the flat cost is left out. *)
PriceVariableOnly(op, len) == Variable(op, len)

(* Mutant of Price: jumps are free. *)
PriceFreeJumps(op, len) ==
    IF op \in FlowOps THEN 0 ELSE cost[op] + Variable(op, len)

Price(op, len) == cost[op] + Variable(op, len)

(* The faults of an opcode's own semantics, which depend on registers,     *)
(* memory and the stack alone, and the panic firewall run_crypto.          *)
OwnFaults(op) ==
    CASE op = "Ldc" -> {"BadConst"}
      [] op \in {"Add", "Sub", "Mul"} -> {"Overflow"}
      [] op \in {"Div", "Rem", "DivW", "RemW"} -> {"DivByZero"}
      [] op = "Push" -> {"StackOverflow"}
      [] op = "Pop" -> {"StackUnderflow"}
      [] op \in {"MLoad", "MStore", "SLoad", "SStore", "Send", "Emit"} ->
            {"BadMemory"}
      [] op \in {"Jmp", "Jz", "Jnz"} -> {"BadJump"}
      [] op = "Call" -> {"StackOverflow", "BadJump"}
      [] op = "Ret" -> {"StackUnderflow", "BadJump"}
      [] op \in {"Hash", "VerifyMl", "VerifySlh", "MerkleVerify"} ->
            {"BadMemory", "CryptoFault"}
      [] op = "Addr" -> {"BadScheme", "BadMemory", "CryptoFault"}
      [] OTHER -> {}

(* run: the bytes at pc do not decode; nothing is charged. *)
DecodeFault == status = "running" /\ Abort("Decode")

(* run, charge: the price of the opcode exceeds what is left. *)
OutOfMeter(op, len) ==
    /\ Running(op)
    /\ ~Affords(Price(op, len))
    /\ Abort("OutOfMeter")

OwnFault(op, len) ==
    /\ Running(op)
    /\ Affords(Price(op, len))
    /\ \E fault \in OwnFaults(op) : Abort(fault)

(* An opcode that only moves registers, memory, the stack or pc. *)
Compute(op, len) ==
    /\ Running(op)
    /\ op \in PlainOps \cup VerifyOps
    /\ charge(Price(op, len))
    /\ UNCHANGED <<status, env, rows, keyed, output>>

Halt ==
    /\ Running("Halt")
    /\ charge(cost["Halt"])
    /\ status' = "halted"
    /\ UNCHANGED <<env, rows, keyed, output>>

(***************************************************************************)
(* Storage                                                                 *)
(***************************************************************************)
(* Manifest::can_read, with the keyed authorisations *)
MayRead(k) ==
    call.manifest # NoManifest =>
        k \in call.manifest.reads \cup call.manifest.writes
                \cup keyed_authorized_reads

MayWrite(k) ==
    call.manifest # NoManifest =>
        k \in call.manifest.writes \cup keyed_authorized_writes

Fetches(k) == storage[k] = Absent /\ loaded[k] = Absent /\ call.loader

(* Mutant of Lookup: a miss in both maps is not resolved. *)
LookupUnresolved(k) == IF storage[k] # Absent THEN storage[k] ELSE loaded[k]

(* Mutant of Lookup: the cache hides the call's own write. *)
LookupCacheFirst(k) ==
    CASE loaded[k] # Absent -> loaded[k]
      [] loaded[k] = Absent /\ storage[k] # Absent -> storage[k]
      [] Fetches(k) -> ledger[k]
      [] OTHER -> 0

(* The word a call sees under a key: its own row, else the cached row,     *)
(* else what the loader answers, else zero.                                *)
Lookup(k) ==
    CASE storage[k] # Absent -> storage[k]
      [] storage[k] = Absent /\ loaded[k] # Absent -> loaded[k]
      [] Fetches(k) -> ledger[k]
      [] OTHER -> 0

(* loaded once k has been looked up *)
Cached(k) == IF Fetches(k) THEN [loaded EXCEPT ![k] = ledger[k]] ELSE loaded

SLoad(k) ==
    /\ Running("SLoad")
    /\ MayRead(k)
    /\ charge(cost["SLoad"])
    /\ read' = Lookup(k)
    /\ loaded' = Cached(k)
    /\ UNCHANGED <<status, env, storage, dirty, fresh_charged, leaf_paid,
                   keyed, output>>

(* Mutant of FreshLeaf: keyed rows share the free slots. *)
FreshLeafPastFreeSlots(k, v) ==
    /\ call.strict
    /\ v # 0 /\ Lookup(k) = 0
    /\ k \notin fresh_charged
    /\ Cardinality(dirty) >= FREE_DIRTY_SLOTS

(* The strict rules charge the leaf price to the first write that makes a  *)
(* zero row non-zero, at once for a keyed row, past the free slots for     *)
(* others.                                                                 *)
FreshLeaf(k, v) ==
    /\ call.strict
    /\ v # 0 /\ Lookup(k) = 0
    /\ k \notin fresh_charged
    /\ k \in keyed_authorized_writes \/ Cardinality(dirty) >= FREE_DIRTY_SLOTS

(* Mutant of NewDirtyLeaf: one free slot too many. *)
NewDirtyLeafOffByOne(k) ==
    /\ k \notin dirty
    /\ Cardinality(dirty) > FREE_DIRTY_SLOTS
    /\ call.strict => k \notin fresh_charged

(* Mutant of NewDirtyLeaf: a slot that is dirty already is charged again. *)
NewDirtyLeafAgain(k) ==
    /\ Cardinality(dirty \cup {k}) > FREE_DIRTY_SLOTS
    /\ call.strict => k \notin fresh_charged

(* Both rules charge it to every further slot a call dirties. *)
NewDirtyLeaf(k) ==
    /\ k \notin dirty
    /\ Cardinality(dirty \cup {k}) > FREE_DIRTY_SLOTS
    /\ call.strict => k \notin fresh_charged

LeafOwed(k, v) == FreshLeaf(k, v) \/ NewDirtyLeaf(k)

(* Mutant of StorePrice: the leaf is recorded as charged but is not. *)
StorePriceFlat(k, v) == cost["SStore"]

StorePrice(k, v) ==
    cost["SStore"] + (IF LeafOwed(k, v) THEN KEYED_SLOT_METER ELSE 0)

SStore(k, v) ==
    /\ Running("SStore")
    /\ MayWrite(k)
    /\ charge(StorePrice(k, v))
    /\ fresh_charged' =
            IF FreshLeaf(k, v) THEN fresh_charged \cup {k} ELSE fresh_charged
    /\ leaf_paid' =
            IF LeafOwed(k, v) THEN [leaf_paid EXCEPT ![k] = @ + 1]
                              ELSE leaf_paid
    /\ dirty' = dirty \cup {k}
    /\ loaded' = IF call.strict THEN Cached(k) ELSE loaded
    /\ storage' = [storage EXCEPT ![k] = v]
    /\ UNCHANGED <<status, env, read, keyed, output>>

StoreOutOfMeter(k, v) ==
    /\ Running("SStore")
    /\ Affords(cost["SStore"])
    /\ MayWrite(k)
    /\ ~Affords(StorePrice(k, v))
    /\ Abort("OutOfMeter")

UndeclaredSlot(k) ==
    \/ /\ Running("SLoad") /\ Affords(cost["SLoad"]) /\ ~MayRead(k)
       /\ Abort("UndeclaredSlot")
    \/ /\ Running("SStore") /\ Affords(cost["SStore"]) /\ ~MayWrite(k)
       /\ Abort("UndeclaredSlot")

(***************************************************************************)
(* HASH, which authorises the digest as a key when the preimage starts     *)
(* with a base that the manifest declares. The base is read before the     *)
(* digest is written, so preimage and output may overlap.                  *)
(***************************************************************************)
Declares(p, bases) ==
    Len(p) >= BASE_BYTES /\ SubSeq(p, 1, BASE_BYTES) \in bases

(* Mutant of IsKeyedWrite: a keyed read base authorises writes. *)
IsKeyedWriteByRead(p) ==
    call.manifest # NoManifest /\ Declares(p, call.manifest.keyed_reads)

IsKeyedWrite(p) ==
    call.manifest # NoManifest /\ Declares(p, call.manifest.keyed_writes)

IsKeyedRead(p) ==
    \/ IsKeyedWrite(p)
    \/ call.manifest # NoManifest /\ Declares(p, call.manifest.keyed_reads)

(* charge_keyed, for a key that was not authorised yet *)
KeyedFee(p) ==
    IF ~IsKeyedRead(p)
       \/ Digest[p] \in keyed_authorized_reads \cup keyed_authorized_writes
    THEN 0
    ELSE IF call.strict THEN KEYED_READ_METER ELSE KEYED_SLOT_METER

(* retain_keyed: the bytes of the authorisations that are new *)
KeyedEntries(p) ==
      (IF IsKeyedWrite(p) /\ Digest[p] \notin keyed_authorized_writes
       THEN 1 ELSE 0)
    + (IF IsKeyedRead(p) /\ Digest[p] \notin keyed_authorized_reads
       THEN 1 ELSE 0)

KeyedRetained(p) == keyed_bytes + STORAGE_KEY_BYTES * KeyedEntries(p)

Hash(p) ==
    /\ Running("Hash")
    /\ charge(Price("Hash", Len(p)) + KeyedFee(p))
    /\ IsKeyedRead(p) => KeyedRetained(p) <= EFFECTS_BYTES_CAP
    /\ keyed_bytes' = KeyedRetained(p)
    /\ keyed_authorized_writes' = keyed_authorized_writes
            \cup (IF IsKeyedWrite(p) THEN {Digest[p]} ELSE {})
    /\ keyed_authorized_reads' = keyed_authorized_reads
            \cup (IF IsKeyedRead(p) THEN {Digest[p]} ELSE {})
    /\ UNCHANGED <<status, env, rows, output>>

HashFault(p) ==
    /\ Running("Hash")
    /\ Affords(Price("Hash", Len(p)))
    /\ IsKeyedRead(p)
    /\ \/ /\ ~Affords(Price("Hash", Len(p)) + KeyedFee(p))
          /\ Abort("OutOfMeter")
       \/ /\ Affords(Price("Hash", Len(p)) + KeyedFee(p))
          /\ KeyedRetained(p) > EFFECTS_BYTES_CAP
          /\ Abort("EffectsTooLarge")

(***************************************************************************)
(* Effects                                                                 *)
(***************************************************************************)
(* Mutant of EffectRetained: records without their overhead. *)
EffectRetainedDataOnly(data) == effects_bytes + Len(data)

(* charge_effect *)
EffectRetained(data) == effects_bytes + Len(data) + EFFECT_RECORD_OVERHEAD

Fits(data) == EffectRetained(data) <= EFFECTS_BYTES_CAP

EffectPrice(op, data) == cost[op] + Len(data) * EFFECT_BYTE

(* Mutant of TargetFee: the second target is free too. *)
TargetFeeSecondFree(targets) ==
    IF targets \subseteq durable_targets \/ Cardinality(durable_targets) <= 1
    THEN 0 ELSE KEYED_SLOT_METER

(* charge_durable_target: the first target of a call is free *)
TargetFee(targets) ==
    IF targets \subseteq durable_targets \/ durable_targets = {}
    THEN 0 ELSE KEYED_SLOT_METER

SendPrice(to) ==
    EffectPrice("Send", to) + TargetFee({<<DURABLE_TRANSFER, to>>})

Send(to, amount) ==
    /\ Running("Send")
    /\ Fits(to)
    /\ charge(SendPrice(to))
    /\ effects_bytes' = EffectRetained(to)
    /\ durable_targets' = durable_targets \cup {<<DURABLE_TRANSFER, to>>}
    /\ effects' =
            Append(effects, [kind |-> "Transfer", to |-> to, amount |-> amount])
    /\ UNCHANGED <<status, env, rows, keyed, event_records>>

(* What is charged after the record was found to fit is the rest of price. *)
EffectFault(op, data, price) ==
    /\ Running(op)
    /\ Affords(cost[op])
    /\ \/ /\ ~Affords(EffectPrice(op, data))
          /\ Abort("OutOfMeter")
       \/ /\ Affords(EffectPrice(op, data))
          /\ ~Fits(data)
          /\ Abort("EffectsTooLarge")
       \/ /\ Affords(EffectPrice(op, data))
          /\ Fits(data)
          /\ ~Affords(price)
          /\ Abort("OutOfMeter")

(* The operand as u32 *)
Truncated(sel) == sel % (U32_MAX + 1)

(* The holder of a mint record is a durable target of its own kind. *)
MintTargets(sel, data) ==
    IF Truncated(sel) = ASSET_MINT_SELECTOR
       /\ Len(data) >= ASSET_MINT_DATA_BYTES
    THEN {<<DURABLE_MINT, SubSeq(data, 1, HOLDER_BYTES)>>}
    ELSE {}

RecordFee ==
    IF event_records + 1 > FREE_EVENT_RECORDS THEN EVENT_RECORD_METER ELSE 0

(* Mutant of EmitPrice: event bytes at the price of transfer bytes. *)
EmitPriceEffectBytes(sel, data) ==
    EffectPrice("Emit", data) + TargetFee(MintTargets(sel, data)) + RecordFee

EmitPrice(sel, data) ==
    EffectPrice("Emit", data) + Len(data) * (EVENT_BYTE - EFFECT_BYTE)
        + TargetFee(MintTargets(sel, data)) + RecordFee

SelectorOk(sel) == call.strict => sel <= U32_MAX

Emit(sel, data) ==
    /\ Running("Emit")
    /\ SelectorOk(sel)
    /\ Fits(data)
    /\ charge(EmitPrice(sel, data))
    /\ effects_bytes' = EffectRetained(data)
    /\ durable_targets' = durable_targets \cup MintTargets(sel, data)
    /\ event_records' = event_records + 1
    /\ effects' = Append(effects,
            [kind |-> "Event", selector |-> Truncated(sel), data |-> data])
    /\ UNCHANGED <<status, env, rows, keyed>>

BadSelector(sel) ==
    /\ Running("Emit")
    /\ Affords(cost["Emit"])
    /\ ~SelectorOk(sel)
    /\ Abort("Malformed")

(***************************************************************************)
(* The specification                                                       *)
(***************************************************************************)
Step ==
    \/ DecodeFault
    \/ \E op \in ProgramOps, len \in Length :
            OutOfMeter(op, len) \/ OwnFault(op, len) \/ Compute(op, len)
    \/ Halt
    \/ \E k \in Key : SLoad(k) \/ UndeclaredSlot(k)
    \/ \E k \in Key, v \in Word : SStore(k, v) \/ StoreOutOfMeter(k, v)
    \/ \E p \in Region : Hash(p) \/ HashFault(p)
    \/ \E to \in Region, amount \in Word : Send(to, amount)
    \/ \E to \in Region : EffectFault("Send", to, SendPrice(to))
    \/ \E sel \in Selector, data \in Region :
            \/ Emit(sel, data)
            \/ SelectorOk(sel) /\ EffectFault("Emit", data, EmitPrice(sel, data))
    \/ \E sel \in Selector : BadSelector(sel)

(* run has returned *)
Returned == status # "running" /\ UNCHANGED vars

Next == Step \/ Returned

(* run is one loop that nothing suspends, so an enabled step is taken. *)
Spec == Init /\ [][Next]_vars /\ WF_vars(Step)

(***************************************************************************)
(* Properties                                                              *)
(***************************************************************************)
(* The fields of Interpreter have their types; the authorisations and the  *)
(* slots with a paid leaf are among the keys.                              *)
TypeOK ==
    /\ status \in {"running", "halted"} \cup Fault
    /\ call \in [manifest : Manifests, meter_limit : Limits,
                 code_len : CodeLens, preset : Presets, loader : Loaders,
                 strict : Rules]
    /\ ledger \in Ledgers
    /\ meter_used \in Nat
    /\ storage \in [Key -> Word \cup {Absent}]
    /\ loaded \in [Key -> Word \cup {Absent}]
    /\ dirty \subseteq Key /\ fresh_charged \subseteq Key
    /\ keyed_authorized_reads \subseteq Key
    /\ keyed_authorized_writes \subseteq Key
    /\ keyed_bytes \in Nat
    /\ effects \in Seq(Effect)
    /\ effects_bytes \in Nat
    /\ durable_targets \subseteq {DURABLE_TRANSFER, DURABLE_MINT} \X Seq(Nat)
    /\ event_records \in Nat
    /\ read \in Word
    /\ leaf_paid \in [Key -> Nat]
    /\ parity \in {0, 1}

(* The state before the call, as the call may see it. *)
Committed(k) ==
    CASE call.preset[k] # Absent -> call.preset[k]
      [] call.preset[k] = Absent /\ call.loader -> ledger[k]
      [] OTHER -> 0

PaidLeaves == {k \in Key : leaf_paid[k] > 0}

(* What the state that a call grows costs: a leaf per paid key, a read (a  *)
(* leaf under the legacy rules) per keyed authorisation, a leaf per        *)
(* durable target past the first, a record fee per event past the free     *)
(* ones, and the bytes of the effects.                                     *)
LeafCost == KEYED_SLOT_METER * Cardinality(PaidLeaves)

KeyedPrice == IF call.strict THEN KEYED_READ_METER ELSE KEYED_SLOT_METER

KeyedCost == KeyedPrice * Cardinality(keyed_authorized_reads)

TargetCost == KEYED_SLOT_METER * Excess(Cardinality(durable_targets), 1)

RecordCost == EVENT_RECORD_METER * Excess(event_records, FREE_EVENT_RECORDS)

ByteCost ==
    EFFECT_BYTE * (effects_bytes - EFFECT_RECORD_OVERHEAD * Len(effects))

GrowthCost == LeafCost + KeyedCost + TargetCost + RecordCost + ByteCost

(* The meter of a call, never above its limit, covers the opening charge   *)
(* and everything the call has added to the state so far: no interleaving  *)
(* of SSTORE, HASH, SEND and EMIT reaches a charge that was skipped        *)
(* (charge, charge_effect, charge_durable_target, charge_keyed).           *)
StateGrowthPaid ==
    /\ Opening + GrowthCost <= meter_used
    /\ meter_used <= call.meter_limit

(* However a program orders its writes, under either rule, at most         *)
(* FREE_DIRTY_SLOTS of the slots it dirties have not been charged the leaf *)
(* price (SStore).                                                         *)
FreeSlotsBounded ==
    Cardinality({k \in dirty : leaf_paid[k] = 0}) <= FREE_DIRTY_SLOTS

(* Under the strict rules no row that a call creates through a keyed       *)
(* authorisation is free, whatever the call read, zeroed or wrote before:  *)
(* the freshness that SStore sees in storage, in the cache and through the *)
(* loader is that of the state before the call.                            *)
KeyedRowsPaid ==
    call.strict /\ call.manifest # NoManifest =>
        \A k \in dirty \ call.manifest.writes :
            Committed(k) = 0 /\ storage[k] # 0 => leaf_paid[k] > 0

(* The keys that a manifest lets a call reach through HASH *)
KeyedBy(bases) == {Digest[p] : p \in {q \in Region : Declares(q, bases)}}

(* What the node schedules calls by: a call changes only rows it declared  *)
(* as writes, or digests of preimages under a declared keyed write base,   *)
(* and fetches only rows it declared in any way; every row that differs    *)
(* from the preset is reported dirty.                                      *)
DeclaredFootprint ==
    /\ \A k \in Key : storage[k] # call.preset[k] => k \in dirty
    /\ call.manifest # NoManifest =>
        LET m == call.manifest IN
        /\ dirty \subseteq m.writes \cup KeyedBy(m.keyed_writes)
        /\ {k \in Key : loaded[k] # Absent} \subseteq
                m.reads \cup m.writes \cup KeyedBy(m.keyed_reads)
                    \cup KeyedBy(m.keyed_writes)

(* A key is charged the leaf price again only by a write that makes it     *)
(* non-zero while it reads as zero, and never a third time (SStore).       *)
SecondLeafOnlyOnZero ==
    [][\A k \in Key :
        leaf_paid[k] > 0 /\ leaf_paid'[k] # leaf_paid[k] =>
            leaf_paid'[k] = 2 /\ Lookup(k) = 0 /\ storage'[k] # 0]_vars

(* README.md, "Execution rules": the full leaf price is charged once, on   *)
(* the first write that creates a row.                                     *)
LeafPriceOnce == \A k \in Key : leaf_paid[k] <= 1

(* Every step that does not end the call takes from the meter, so a call   *)
(* makes at most meter_limit steps (run charges cost before step).         *)
EveryStepPays ==
    [][status' = "running" => meter_used' > meter_used]_vars

(* Every call ends, in a halt or a fault, whatever the program is. *)
Termination == <>(status # "running")

(***************************************************************************)
(* The effects of a call, summed up                                        *)
(***************************************************************************)
(* The sum of a sequence of numbers *)
Total(w) ==
    LET Sum[i \in 0..Len(w)] == IF i = 0 THEN 0 ELSE Sum[i - 1] + w[i]
    IN  Sum[Len(w)]

DataOf(e) == IF e.kind = "Transfer" THEN e.to ELSE e.data

(* What an effect retains, what it names and what its bytes cost *)
BytesOf(e) == Len(DataOf(e)) + EFFECT_RECORD_OVERHEAD

TargetsOf(e) ==
    IF e.kind = "Transfer" THEN {<<DURABLE_TRANSFER, e.to>>}
    ELSE MintTargets(e.selector, e.data)

PriceOf(e) ==
    IF e.kind = "Transfer" THEN cost["Send"] + Len(e.to) * EFFECT_BYTE
    ELSE cost["Emit"] + Len(e.data) * EVENT_BYTE

(* The counters that the charges and the cap depend on are those of the    *)
(* effects and authorisations that the call really retains, and neither    *)
(* exceeds the cap (charge_effect, retain_keyed, charge_durable_target).   *)
RetainedExactly ==
    /\ effects_bytes = Total([i \in DOMAIN effects |-> BytesOf(effects[i])])
    /\ effects_bytes <= EFFECTS_BYTES_CAP
    /\ event_records =
            Cardinality({i \in DOMAIN effects : effects[i].kind = "Event"})
    /\ durable_targets = UNION {TargetsOf(effects[i]) : i \in DOMAIN effects}
    /\ keyed_bytes = STORAGE_KEY_BYTES
            * (Cardinality(keyed_authorized_reads)
                + Cardinality(keyed_authorized_writes))
    /\ keyed_bytes <= EFFECTS_BYTES_CAP

(* Every event byte is paid at the event price, every other effect byte at *)
(* the effect price (charge_effect and the durable charge of EMIT).        *)
EventBytesPaid ==
    Opening + Total([i \in DOMAIN effects |-> PriceOf(effects[i])])
        + TargetCost + RecordCost <= meter_used

(***************************************************************************)
(* A call implements AtomicCall: its view is what Lookup returns, and what *)
(* the node has afterwards is the state before the call with the dirty     *)
(* rows of the outcome of a clean halt (Outcome.storage, Outcome.dirty).   *)
(***************************************************************************)
View == [k \in Key |-> Lookup(k)]

Published == [k \in Key |-> IF status = "halted" /\ k \in dirty
                            THEN storage[k] ELSE Committed(k)]

AtomicPhase == CASE status = "running" -> "running"
                 [] status = "halted" -> "committed"
                 [] OTHER -> "aborted"

Atomic == INSTANCE AtomicCall WITH
    view <- View, db <- Published, phase <- AtomicPhase

(* SLOAD returns the call's last write, else the state before the call,    *)
(* whatever was cached in between; a halt publishes exactly the call's     *)
(* view through the dirty rows, and a fault publishes nothing.             *)
ImplementsAtomic == Atomic!Spec
=============================================================================
