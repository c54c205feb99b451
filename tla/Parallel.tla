------------------------------ MODULE Parallel ------------------------------
(***************************************************************************)
(* Several calls in parallel over one ledger. Each is an interpreter of    *)
(* crates/qtv-vm/src/interp.rs with a storage loader that reads the live   *)
(* ledger, its own rows and caches, and the manifest of its entry point.   *)
(* The node is external: it starts a call only while no conflicting one    *)
(* runs, by the manifests, and writes the rows of a call that halts.       *)
(*                                                                         *)
(* A program is arbitrary: a step reads or writes any row, or hashes any   *)
(* preimage. MaxOps stands for the meter, which ends every call.           *)
(***************************************************************************)
EXTENDS Integers, Sequences

CONSTANTS
    Calls,
    Key, Word, Absent,
    Base, Arg,
    Digest,         \* external: sha3_256 of a base and the rest of a preimage
    Manifests,      \* of the entry points that may be called
    Strict,         \* FALSE under with_legacy_rules
    MaxOps,         \* bound on the accesses of a call
    NoLog

VARIABLES
    ledger,
    phase,          \* of each call: "waiting", "running", "committed", "aborted"
    manifest,
    storage, loaded,
    keyed_authorized_reads, keyed_authorized_writes,
    log             \* history: the rows each call read and wrote

locals == <<storage, loaded, keyed_authorized_reads, keyed_authorized_writes, log>>
vars == <<ledger, phase, manifest, locals>>

Manifest == [reads : SUBSET Key, writes : SUBSET Key,
             keyed_reads : SUBSET Base, keyed_writes : SUBSET Base]

ASSUME WordsAssumption == 0 \in Word /\ Absent \notin Word
ASSUME ManifestsAssumption == Manifests \subseteq Manifest
(* Digests of different bases differ, and none is a declared scalar row. *)
ASSUME DigestAssumption ==
    /\ Digest \in [Base \X Arg -> Key]
    /\ \A b, c \in Base, a, d \in Arg : Digest[<<b, a>>] = Digest[<<c, d>>] => b = c
    /\ \A m \in Manifests, b \in Base, a \in Arg :
            Digest[<<b, a>>] \notin m.reads \cup m.writes
ASSUME BoundAssumption == MaxOps \in Nat

Init ==
    /\ ledger \in [Key -> Word]
    /\ phase = [c \in Calls |-> "waiting"]
    /\ manifest \in [Calls -> Manifests]
    /\ storage = [c \in Calls |-> [k \in Key |-> Absent]]
    /\ loaded = [c \in Calls |-> [k \in Key |-> Absent]]
    /\ keyed_authorized_reads = [c \in Calls |-> {}]
    /\ keyed_authorized_writes = [c \in Calls |-> {}]
    /\ log = [c \in Calls |-> <<>>]

(***************************************************************************)
(* The node                                                                *)
(***************************************************************************)
(* c may write what d may touch *)
Disturbs(c, d) ==
    \/ manifest[c].writes \cap (manifest[d].reads \cup manifest[d].writes) # {}
    \/ manifest[c].keyed_writes
            \cap (manifest[d].keyed_reads \cup manifest[d].keyed_writes) # {}

Running(c) == phase[c] = "running"

Start(c) ==
    /\ phase[c] = "waiting"
    /\ \A d \in Calls : Running(d) => ~Disturbs(c, d) /\ ~Disturbs(d, c)
    /\ phase' = [phase EXCEPT ![c] = "running"]
    /\ UNCHANGED <<ledger, manifest, locals>>

(* Mutant of Halt: the rows the call did not write are published too. *)
HaltAll(c) ==
    /\ Running(c)
    /\ phase' = [phase EXCEPT ![c] = "committed"]
    /\ ledger' = storage[c]
    /\ UNCHANGED <<manifest, locals>>

(* The call halts: the node writes the rows of Outcome.storage. *)
Halt(c) ==
    /\ Running(c)
    /\ phase' = [phase EXCEPT ![c] = "committed"]
    /\ ledger' = [k \in Key |-> IF storage[c][k] = Absent THEN ledger[k]
                                ELSE storage[c][k]]
    /\ UNCHANGED <<manifest, locals>>

(* Any fault, UndeclaredSlot or another *)
Fault(c) ==
    /\ Running(c)
    /\ phase' = [phase EXCEPT ![c] = "aborted"]
    /\ UNCHANGED <<ledger, manifest, locals>>

(***************************************************************************)
(* The interpreter                                                         *)
(***************************************************************************)
(* can_read, or authorised by HASH *)
CanRead(c, k) ==
    k \in manifest[c].reads \cup manifest[c].writes \cup keyed_authorized_reads[c]

(* can_write, or authorised by HASH *)
CanWrite(c, k) == k \in manifest[c].writes \cup keyed_authorized_writes[c]

(* Mutant of Row: the cache comes before the call's own rows. *)
RowCached(c, k) ==
    IF loaded[c][k] # Absent THEN loaded[c][k]
    ELSE IF storage[c][k] # Absent THEN storage[c][k]
    ELSE ledger[k]

(* The row as the call sees it: its own, then the cache, then the loader *)
Row(c, k) ==
    IF storage[c][k] # Absent THEN storage[c][k]
    ELSE IF loaded[c][k] # Absent THEN loaded[c][k]
    ELSE ledger[k]

(* The cache after that look-up *)
Looked(c, k) ==
    IF storage[c][k] = Absent /\ loaded[c][k] = Absent
    THEN [loaded EXCEPT ![c][k] = ledger[k]] ELSE loaded

Logged(c, op, k, v) ==
    /\ Len(log[c]) < MaxOps
    /\ log' = [log EXCEPT ![c] = Append(@, [op |-> op, key |-> k, val |-> v])]

SLoad(c, k) ==
    /\ Running(c) /\ CanRead(c, k)
    /\ loaded' = Looked(c, k)
    /\ Logged(c, "read", k, Row(c, k))
    /\ UNCHANGED <<ledger, phase, manifest, storage,
                   keyed_authorized_reads, keyed_authorized_writes>>

(* Mutant of SStore: the write goes through to the cache. *)
SStoreThrough(c, k, v) ==
    /\ Running(c) /\ CanWrite(c, k)
    /\ storage' = [storage EXCEPT ![c][k] = v]
    /\ loaded' = [loaded EXCEPT ![c][k] = v]
    /\ Logged(c, "write", k, v)
    /\ UNCHANGED <<ledger, phase, manifest,
                   keyed_authorized_reads, keyed_authorized_writes>>

(* The strict rules look the row up to price the write. *)
SStore(c, k, v) ==
    /\ Running(c) /\ CanWrite(c, k)
    /\ storage' = [storage EXCEPT ![c][k] = v]
    /\ loaded' = IF Strict THEN Looked(c, k) ELSE loaded
    /\ Logged(c, "write", k, v)
    /\ UNCHANGED <<ledger, phase, manifest,
                   keyed_authorized_reads, keyed_authorized_writes>>

(* Mutant of Hash: a base declared for reading grants writing. *)
HashGrantsAll(c, b, a) ==
    /\ Running(c)
    /\ b \in manifest[c].keyed_writes \cup manifest[c].keyed_reads
    /\ keyed_authorized_reads' =
            [keyed_authorized_reads EXCEPT ![c] = @ \cup {Digest[<<b, a>>]}]
    /\ keyed_authorized_writes' =
            [keyed_authorized_writes EXCEPT ![c] = @ \cup {Digest[<<b, a>>]}]
    /\ UNCHANGED <<ledger, phase, manifest, storage, loaded, log>>

(* HASH of a preimage under a declared base: taint_keyed_from_hash *)
Hash(c, b, a) ==
    LET is_write == b \in manifest[c].keyed_writes
        is_read == is_write \/ b \in manifest[c].keyed_reads
        Granted(set, granted) ==
            IF granted THEN [set EXCEPT ![c] = @ \cup {Digest[<<b, a>>]}] ELSE set
    IN  /\ Running(c)
        /\ keyed_authorized_reads' = Granted(keyed_authorized_reads, is_read)
        /\ keyed_authorized_writes' = Granted(keyed_authorized_writes, is_write)
        /\ UNCHANGED <<ledger, phase, manifest, storage, loaded, log>>

Step(c) ==
    \/ Halt(c)
    \/ Fault(c)
    \/ \E k \in Key : SLoad(c, k)
    \/ \E k \in Key, v \in Word : SStore(c, k, v)
    \/ \E b \in Base, a \in Arg : Hash(c, b, a)

Next == \E c \in Calls : Start(c) \/ Step(c)

Spec == Init /\ [][Next]_vars

(***************************************************************************)
(* Properties                                                              *)
(***************************************************************************)
(* Every row of the ledger stays a word, and a call keeps its manifest and  *)
(* its rows apart from those of the others.                                *)
TypeOK ==
    /\ ledger \in [Key -> Word]
    /\ phase \in [Calls -> {"waiting", "running", "committed", "aborted"}]
    /\ manifest \in [Calls -> Manifests]
    /\ storage \in [Calls -> [Key -> Word \cup {Absent}]]
    /\ loaded \in [Calls -> [Key -> Word \cup {Absent}]]
    /\ keyed_authorized_reads \in [Calls -> SUBSET Key]
    /\ keyed_authorized_writes \in [Calls -> SUBSET Key]

(* A cached row never goes stale: while a call runs, what its loader once  *)
(* returned is what the ledger still holds, whichever calls commit in the  *)
(* meantime, because HASH and the manifest keep every call to rows that no *)
(* call running beside it may write.                                       *)
LoadedRowsCurrent ==
    \A c \in Calls, k \in Key :
        Running(c) /\ loaded[c][k] # Absent => loaded[c][k] = ledger[k]

(* Two calls that run side by side never both hold a row one of them has   *)
(* written, so that the order of their commits does not matter.            *)
WritesAreDisjoint ==
    \A c, d \in Calls : c # d /\ Running(c) /\ Running(d) =>
        \A k \in Key : storage[c][k] # Absent =>
            storage[d][k] = Absent /\ loaded[d][k] = Absent

Entry == [op : {"read", "write"}, key : Key, val : Word]

S == INSTANCE Serial WITH
        db <- ledger,
        logs <- [c \in Calls |-> IF phase[c] = "committed" THEN log[c] ELSE NoLog],
        Log <- Seq(Entry)

(* Running calls in parallel by their manifests is serialisable: each call *)
(* that commits has read and written what it would have, had it run alone  *)
(* at the moment it commits.                                               *)
RefinesSerial == S!Spec
=============================================================================
