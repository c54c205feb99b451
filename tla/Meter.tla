------------------------------- MODULE Meter -------------------------------
(***************************************************************************)
(* The metering schedule of crates/qtv-vm/src/meter.rs.                    *)
(*                                                                         *)
(* The prices are CONSTANTS, so that TLC can run a scaled schedule and the *)
(* proofs hold for every schedule that satisfies the assumptions below.    *)
(* SourceCost of OpCodes is the table of the source, on which one run      *)
(* checks them.                                                            *)
(***************************************************************************)
EXTENDS OpCodes, Naturals

CONSTANTS
    U64_MAX,                \* the largest word; meter and lengths are u64
    cost,                   \* the flat price of each opcode
    DISPATCH,               \* opening an entry
    CODE_SCAN_PER_BYTE,     \* scanning the code for instruction boundaries
    EFFECT_BYTE,            \* a byte of an effect
    EVENT_BYTE,             \* a byte of an event, EFFECT_BYTE included
    EFFECTS_BYTES_CAP,      \* what a call may retain, in bytes
    EFFECT_RECORD_OVERHEAD, \* bytes retained per effect besides its data
    KECCAK_RATE,
    HASH_BLOCK,
    VERIFY_MESSAGE_BLOCK,
    MERKLE_LEVEL,
    HASH_BYTES,             \* bytes of a digest, and of a Merkle path level
    KEYED_SLOT_METER,       \* the leaf price: a new row of state
    KEYED_READ_METER,       \* reading a keyed row
    EVENT_RECORD_METER,     \* an event record past the free ones
    FREE_EVENT_RECORDS,
    FREE_DIRTY_SLOTS

Prices == {DISPATCH, CODE_SCAN_PER_BYTE, EFFECT_BYTE, EVENT_BYTE,
           EFFECTS_BYTES_CAP, EFFECT_RECORD_OVERHEAD, HASH_BLOCK,
           VERIFY_MESSAGE_BLOCK, MERKLE_LEVEL, KEYED_SLOT_METER,
           KEYED_READ_METER, EVENT_RECORD_METER, FREE_EVENT_RECORDS,
           FREE_DIRTY_SLOTS, U64_MAX}

ASSUME PricesAreNaturals == Prices \subseteq Nat
ASSUME RatesArePositive == {KECCAK_RATE, HASH_BYTES} \subseteq Nat \ {0}
ASSUME CostIsNatural == cost \in [OpCode -> Nat]
(* Every instruction but the one that stops the call costs something. *)
ASSUME OnlyHaltIsFree ==
    cost["Halt"] = 0 /\ \A op \in OpCode \ {"Halt"} : cost[op] > 0
(* EVENT_BYTE - EFFECT_BYTE is a u64 constant expression of the source. *)
ASSUME EventBytesCoverEffectBytes == EFFECT_BYTE <= EVENT_BYTE

(* u64::saturating_mul, on the true product *)
Saturate(n) == IF n > U64_MAX THEN U64_MAX ELSE n

keccak_blocks(len) == (len \div KECCAK_RATE) + 1

hash_variable(len) == Saturate(keccak_blocks(len) * HASH_BLOCK)

message_variable(tail) == Saturate(keccak_blocks(tail) * VERIFY_MESSAGE_BLOCK)

merkle_variable(path_bytes) ==
    Saturate((path_bytes \div HASH_BYTES) * MERKLE_LEVEL)

(* Interpreter::open_entry: what opening an entry of code_len bytes costs *)
dispatch(code_len) ==
    Saturate(DISPATCH + Saturate(code_len * CODE_SCAN_PER_BYTE))
=============================================================================
