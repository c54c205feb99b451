------------------------------- MODULE Memory -------------------------------
(***************************************************************************)
(* The byte memory of a call (crates/qtv-vm/src/state.rs) and the opcodes  *)
(* that read and write it: MLOAD and MSTORE, HASH with the keyed           *)
(* authorisation it grants, ADDR, the two signature opcodes, and the       *)
(* access check of SLOAD and SSTORE on the key they find in memory.        *)
(*                                                                         *)
(* Operands that come from registers are arbitrary words. The charges of   *)
(* these opcodes are in module Call; here a fault only ends the call.      *)
(***************************************************************************)
EXTENDS Integers, Sequences

CONSTANTS
    BYTE,               \* values of a byte, 256 in the source
    WORD_BYTES,         \* 8
    MEM_BYTES,          \* bytes of memory
    STORAGE_KEY_BYTES,  \* 32, also the bytes of a digest
    PK, SIG,            \* bytes of a public key and a signature, per opcode
    Sha3,               \* external: sha3_256, on byte strings
    Degenerate,         \* external: keys that ml_dsa refuses
    Signed,             \* external: <<key, message, signature>> that verify
    SCHEME_ML_DSA, SCHEME_SLH_DSA,
    reads, writes,                  \* declared slots
    keyed_reads, keyed_writes,      \* declared bases
    MaxSteps            \* bound on the steps of a call

(* The powers of BYTE: the value of each place of a number of that base *)
Place[k \in 0..STORAGE_KEY_BYTES] == IF k = 0 THEN 1 ELSE BYTE * Place[k - 1]

Byte == 0..(BYTE - 1)
Word == 0..(Place[WORD_BYTES] - 1)
VerifyOps == {"VerifyMl", "VerifySlh"}

ASSUME SizesArePositive ==
    {WORD_BYTES, MEM_BYTES, STORAGE_KEY_BYTES, MaxSteps} \subseteq Nat \ {0}
ASSUME ByteAssumption == BYTE \in Nat \ {0, 1}
ASSUME SignedSizes ==
    PK \in [VerifyOps -> Nat \ {0}] /\ SIG \in [VerifyOps -> Nat \ {0}]
ASSUME DeclaredAreWords ==
    reads \cup writes \cup keyed_reads \cup keyed_writes \subseteq Word
ASSUME KeysHoldWords == WORD_BYTES <= STORAGE_KEY_BYTES
ASSUME DigestsAreKeys ==
    \A n \in 0..(MEM_BYTES + 1) : \A s \in [1..n -> Byte] :
        Sha3[s] \in [1..STORAGE_KEY_BYTES -> Byte]

VARIABLES
    mem,
    status,     \* "running" or the fault
    read,       \* the register that MLOAD or a verify opcode wrote
    keyed_authorized_reads, keyed_authorized_writes,
    intact,     \* history: words stored and not written over since
    granted,    \* history: declared base and digest of what HASH was given
    touched,    \* history: keys that SLOAD and SSTORE got past the check
    billed,     \* history: bytes the last verify opcode was charged for
    hashed,     \* history: bytes of message it read
    steps

auth == <<keyed_authorized_reads, keyed_authorized_writes>>
bill == <<billed, hashed>>
vars == <<mem, status, read, auth, intact, granted, touched, bill, steps>>

(***************************************************************************)
(* Machine                                                                 *)
(***************************************************************************)
(* Mutant of to_be_bytes: the least significant byte comes first. *)
to_le_bytes(v) == [i \in 1..WORD_BYTES |-> (v \div Place[i - 1]) % BYTE]

to_be_bytes(v) ==
    [i \in 1..WORD_BYTES |-> (v \div Place[WORD_BYTES - i]) % BYTE]

from_be_bytes(s) ==
    LET Value[i \in 0..Len(s)] ==
            IF i = 0 THEN 0 ELSE BYTE * Value[i - 1] + s[i]
    IN  Value[Len(s)]

(* get(start..end): usize is 64 bits wide, and an end that overflows it is *)
(* past the memory too.                                                    *)
InMemory(offset, len) == offset + len <= MEM_BYTES

mem_region(offset, len) == [i \in 1..len |-> mem[offset + i - 1]]

mem_load(offset) == from_be_bytes(mem_region(offset, WORD_BYTES))

(* Memory after bytes are copied to offset *)
Written(offset, bytes) ==
    [o \in DOMAIN mem |->
        IF o \in offset..(offset + Len(bytes) - 1)
        THEN bytes[o - offset + 1] ELSE mem[o]]

(* The stored words that a write of len bytes at offset leaves alone *)
Untouched(offset, len) ==
    {w \in intact : w[1] + WORD_BYTES <= offset \/ offset + len <= w[1]}

Init ==
    /\ mem = [o \in 0..(MEM_BYTES - 1) |-> 0]
    /\ status = "running"
    /\ read = 0
    /\ keyed_authorized_reads = {} /\ keyed_authorized_writes = {}
    /\ intact = {} /\ granted = {}
    /\ touched = [mode \in {"read", "write"} |-> {}]
    /\ billed = 0 /\ hashed = 0
    /\ steps = 0

Running ==
    /\ status = "running" /\ steps < MaxSteps
    /\ steps' = steps + 1

Fault(f) ==
    /\ status' = f
    /\ UNCHANGED <<mem, read, auth, intact, granted, touched, bill>>

mem_write(offset, bytes) ==
    /\ mem' = Written(offset, bytes)
    /\ intact' = Untouched(offset, Len(bytes))

MLoad(a) ==
    /\ Running
    /\ IF InMemory(a, WORD_BYTES)
       THEN /\ read' = mem_load(a)
            /\ UNCHANGED <<mem, status, auth, intact, granted, touched, bill>>
       ELSE Fault("BadMemory")

(* mem_store *)
MStore(a, v) ==
    /\ Running
    /\ IF InMemory(a, WORD_BYTES)
       THEN /\ mem' = Written(a, to_be_bytes(v))
            /\ intact' = Untouched(a, WORD_BYTES) \cup {<<a, v>>}
            /\ UNCHANGED <<status, read, auth, granted, touched, bill>>
       ELSE Fault("BadMemory")

(***************************************************************************)
(* HASH and ADDR                                                           *)
(***************************************************************************)
(* The base of a preimage, as a set: none when it is too short *)
Base(ptr, len) ==
    IF len >= WORD_BYTES /\ InMemory(ptr, WORD_BYTES)
    THEN {from_be_bytes(mem_region(ptr, WORD_BYTES))} ELSE {}

(* taint_keyed_from_hash, once the digest is in memory *)
taint_keyed_from_hash(base, key) ==
    LET is_write == base \cap keyed_writes # {}
        is_read == is_write \/ base \cap keyed_reads # {}
    IN  /\ keyed_authorized_writes' =
                keyed_authorized_writes \cup IF is_write THEN {key} ELSE {}
        /\ keyed_authorized_reads' =
                keyed_authorized_reads \cup IF is_read THEN {key} ELSE {}

(* Mutant of Hash: the base is read once the digest is in memory. *)
HashLateBase(ptr, len, out) ==
    /\ Running
    /\ IF InMemory(ptr, len) /\ InMemory(out, STORAGE_KEY_BYTES)
       THEN LET digest == Sha3[mem_region(ptr, len)]
                after == Written(out, digest)
                head == [i \in 1..WORD_BYTES |-> after[ptr + i - 1]]
                base == IF len >= WORD_BYTES THEN {from_be_bytes(head)} ELSE {}
            IN  /\ mem_write(out, digest)
                /\ taint_keyed_from_hash(base, digest)
                /\ granted' = granted \cup
                     (Base(ptr, len) \cap (keyed_reads \cup keyed_writes))
                         \X {digest}
                /\ UNCHANGED <<status, read, touched, bill>>
       ELSE Fault("BadMemory")

Hash(ptr, len, out) ==
    /\ Running
    /\ IF InMemory(ptr, len) /\ InMemory(out, STORAGE_KEY_BYTES)
       THEN LET base == Base(ptr, len)
                digest == Sha3[mem_region(ptr, len)]
            IN  /\ mem_write(out, digest)
                /\ taint_keyed_from_hash(base, digest)
                /\ granted' = granted \cup
                     (base \cap (keyed_reads \cup keyed_writes)) \X {digest}
                /\ UNCHANGED <<status, read, touched, bill>>
       ELSE Fault("BadMemory")

(* address *)
Addr(ptr, scheme, out) ==
    LET op == IF scheme = SCHEME_ML_DSA THEN "VerifyMl" ELSE "VerifySlh" IN
    /\ Running
    /\ IF scheme \notin {SCHEME_ML_DSA, SCHEME_SLH_DSA} THEN Fault("BadScheme")
       ELSE IF InMemory(ptr, PK[op]) /\ InMemory(out, STORAGE_KEY_BYTES)
       THEN /\ mem_write(out,
                    Sha3[<<scheme % BYTE>> \o mem_region(ptr, PK[op])])
            /\ UNCHANGED <<status, read, auth, granted, touched, bill>>
       ELSE Fault("BadMemory")

(***************************************************************************)
(* VERIFY_ML and VERIFY_SLH                                                *)
(***************************************************************************)
(* Mutant of tail: the first byte of the message is not counted. *)
tailShort(op, len) ==
    IF len > PK[op] + SIG[op] THEN len - (PK[op] + SIG[op]) - 1 ELSE 0

(* The saturating subtraction that the charge for the message is made of *)
tail(op, len) ==
    IF len > PK[op] + SIG[op] THEN len - (PK[op] + SIG[op]) ELSE 0

Verify(op, ptr, len) ==
    LET region == mem_region(ptr, len)
        pk == SubSeq(region, 1, PK[op])
        sig == SubSeq(region, PK[op] + 1, PK[op] + SIG[op])
        message == SubSeq(region, PK[op] + SIG[op] + 1, len)
        ok == /\ op = "VerifyMl" => pk \notin Degenerate
              /\ <<pk, message, sig>> \in Signed
    IN  /\ Running
        /\ IF InMemory(ptr, len) /\ len >= PK[op] + SIG[op]
           THEN /\ read' = IF ok THEN 1 ELSE 0
                /\ billed' = tail(op, len)
                /\ hashed' = Len(message)
                /\ UNCHANGED <<mem, status, auth, intact, granted, touched>>
           ELSE Fault("BadMemory")

(***************************************************************************)
(* The access check of SLOAD (mode "read") and SSTORE (mode "write")       *)
(***************************************************************************)
read_key(offset) == mem_region(offset, STORAGE_KEY_BYTES)

(* The row of a slot: zeros before the word *)
scalar_key(slot) ==
    [i \in 1..(STORAGE_KEY_BYTES - WORD_BYTES) |-> 0] \o to_be_bytes(slot)

(* The scalar rows of the manifest that open_entry makes *)
Rows(slots) == {scalar_key(s) : s \in slots}

(* Mutant of MayTouch: a key authorised for reading may be written. *)
MayTouchAny(mode) ==
    IF mode = "write" THEN Rows(writes) \cup keyed_authorized_reads
    ELSE Rows(reads \cup writes) \cup keyed_authorized_reads

MayTouch(mode) ==
    IF mode = "write" THEN Rows(writes) \cup keyed_authorized_writes
    ELSE Rows(reads \cup writes) \cup keyed_authorized_reads

Access(mode, a) ==
    /\ Running
    /\ IF ~InMemory(a, STORAGE_KEY_BYTES) THEN Fault("BadMemory")
       ELSE IF read_key(a) \notin MayTouch(mode) THEN Fault("UndeclaredSlot")
       ELSE /\ touched' = [touched EXCEPT ![mode] = @ \cup {read_key(a)}]
            /\ UNCHANGED <<mem, status, read, auth, intact, granted, bill>>

Next ==
    \/ \E a \in Word : MLoad(a)
    \/ \E a, v \in Word : MStore(a, v)
    \/ \E ptr, len, out \in Word : Hash(ptr, len, out)
    \/ \E ptr, scheme, out \in Word : Addr(ptr, scheme, out)
    \/ \E op \in VerifyOps, ptr, len \in Word : Verify(op, ptr, len)
    \/ \E mode \in {"read", "write"}, a \in Word : Access(mode, a)

Spec == Init /\ [][Next]_vars

(***************************************************************************)
(* Properties                                                              *)
(***************************************************************************)
(* HASH authorises exactly the digests of the preimages it was given under *)
(* a declared base, judged by the bytes in memory before the digest was    *)
(* written, even when the digest lands on the preimage itself (Instr::Hash *)
(* and taint_keyed_from_hash). A base declared for writing grants both.    *)
AuthorisesWhatItHashed ==
    /\ keyed_authorized_writes =
            {g[2] : g \in {h \in granted : h[1] \in keyed_writes}}
    /\ keyed_authorized_reads = {g[2] : g \in granted}

(* The keys that spell a slot as one number, all their bytes counted *)
Spell(slots) ==
    {k \in [1..STORAGE_KEY_BYTES -> Byte] : from_be_bytes(k) \in slots}

(* No row is touched that the entry point does not declare: each spells a  *)
(* slot of its list or is the digest of a preimage whose base is declared  *)
(* for that access, though the key reaches SLOAD and SSTORE as bytes that  *)
(* any MSTORE, HASH or ADDR may have put in memory (read_key, scalar_key). *)
TouchesOnlyDeclared ==
    /\ touched["read"] \subseteq
            Spell(reads \cup writes) \cup {g[2] : g \in granted}
    /\ touched["write"] \subseteq Spell(writes)
            \cup {g[2] : g \in {h \in granted : h[1] \in keyed_writes}}

(* A word survives in memory until a later write overlaps it: MLOAD, and   *)
(* HASH when it takes a base, read back what MSTORE put there (mem_store,  *)
(* mem_write, mem_load).                                                   *)
IntactWordsReadBack ==
    \A w \in intact : mem_load(w[1]) = w[2] /\ Base(w[1], WORD_BYTES) = {w[2]}

(* A signature opcode is charged for the whole message it hashes: the tail *)
(* priced from the length operand is the message cut from the region.      *)
BilledForTheMessage == billed = hashed
=============================================================================
