# A TLA+ verification of the QVM

The QVM (`src/crates/qtv-vm`) is the execution layer of a blockchain node: a
register machine that runs one metered call of a container at a time and hands
the node an `Outcome` (storage rows, dirty keys, effects) or a `Fault`. This
directory models it in TLA+, checks the models with TLC on small instances, and
proves the main results with TLAPS for every schedule, program, manifest, memory
size, tree, source and container.

## 1. The system: parts, state, operations

| part | source | state | operations |
|---|---|---|---|
| metered call | `interp.rs` | `meter_used`, `storage`, `loaded`, `dirty`, `fresh_charged`, `keyed_authorized_reads/writes`, `keyed_bytes`, `effects`, `effects_bytes`, `durable_targets`, `event_records` | `run`, `step` (one arm per opcode), `charge*`, `taint_keyed_from_hash`, `retain_keyed` |
| opening and control flow | `interp.rs` | `bounds`, `pc`, the stack | `for_entry`, `for_genesis`, `for_system_program`, `open_entry`, `boundaries`, `target_ok`, the jumps of `step` |
| container verifier | `container.rs` | `starts`, `targets` | `Container::verify` |
| container format | `container.rs` | - | `canonical_bytes`, `identifier`, `selector` |
| metering schedule | `meter.rs` | - | `cost`, `hash_variable`, `message_variable`, `merkle_variable`, the constants |
| instruction set | `isa.rs` | - | `encode`, `decode`, `encoded_len`, `from_byte`, `Cursor` |
| machine | `state.rs` | registers, 64 KiB of memory, stack | `push`, `pop`, `mem_load`, `mem_store`, `mem_region`, `mem_write` |
| crypto opcodes | `crypto.rs` | - | `hash`, `verify_ml`, `verify_slh`, `merkle_verify`, `address` |
| abort codes | `abort.rs` | - | `Rule`, `abort_code`, `split_code`, `abort_stub`, `halting_stubs`, `reason_in`, `rule_of_fault` |
| assembler | `asm.rs` | - | `assemble` |
| storage keys | `abi.rs` | - | `scalar_key` |
| fuzz harness | `fuzz/` | - | `drive` (`entry_path`), `run_batch`, `run_crypto_batch` (tests only) |

How they interact. The node verifies a container when it is deployed
(`Container::verify`) and later opens an entry of it (`for_entry`), which does
not verify again: it repeats the size checks, finds the entry, charges for
dispatch and the code scan, recomputes the instruction boundaries and installs
the entry's manifest. `run` then decodes, charges and executes until HALT or a
fault. The call reads rows through a loader callback, caches them in `loaded`,
and writes to `storage`; HASH turns a preimage under a declared base into an
authorised key. `run` takes the interpreter by value, so a fault drops all of it.

The compiler ends a rejected path in an abort stub, which divides by zero with the
reason in a register; `halting_stubs` patches a copy of the code so that a second
run halts there and the node can report the reason.

What is hard here. There are no threads in the crate; the difficulties are
sequences of legal calls and the bookkeeping they leave: which of two branches
charges the leaf price and with which threshold, whether "new row" is decided
from stale data, which of the two scans of the code counts, whether a program
can reach bytes nobody scanned, whether every loop is paid for, and whether what
a call touches is what it declared, since the node runs calls in parallel by
their declarations. `PROJECT.json` lists these hazards with their lines.

What makes each part correct: a call is atomic, pays for what it adds to the
state before it adds it, stays within its manifest and ends; the control flow
executes only scanned instructions, and a verified container never meets the
faults that the verifier is there to exclude; the encoding is canonical and
self-delimiting; the verifier, the boundary scan and the decoder agree; a Merkle
proof is accepted exactly when it is genuine; a keyed row is authorised by the
bytes that were hashed; a container is recoverable from its canonical bytes; a
patched copy differs from its program only in its stubs; a program assembles to
what it says; and calls that the node runs in parallel by their manifests are
serialisable.

## 2. The modules

| module | models |
|---|---|
| `OpCodes` | enum `OpCode`, grouped by what an instruction may touch, and `SourceCost`, the price table of the source |
| `Meter` | the prices (constants, with their assumptions), and the price functions |
| `AtomicCall` | abstract: a call has a private view of the state, publishes all of it or nothing |
| `Call` | one metered call: every charge, check and update of `run` and `step` |
| `MCCall` | instances of `Call` (runs `rows`, `effects`, `opcodes`, `leaf`) |
| `CallProofs` | theorems about `Call` |
| `Control` | `verify`, the routes that open a call, `boundaries`, and pc and stack of `run`/`step` |
| `MCControl` | containers of real bytes for `Control`, decoded by `Isa` (run `control`) |
| `ControlProofs` | theorems about `Control` |
| `Isa` | `encode` and `decode` |
| `Serial` | abstract: calls commit one at a time, each as if it ran alone |
| `Parallel`, `MCParallel` | several interpreters over one live ledger, started by their manifests (run `parallel`) |
| `ParallelProofs` | theorems about `Parallel` |
| `Induction` | induction over numbers, and what recursive functions of sums, powers, digits and joined sequences compute; used by the proofs |
| `Memory`, `MCMemory` | the byte memory and the opcodes that read and write it (run `memory`) |
| `MemoryProofs` | theorems about `Memory` |
| `Merkle`, `MCMerkle` | `merkle_verify`, check by check and level by level (run `merkle`) |
| `MerkleProofs` | theorem about `Merkle` |
| `Words`, `MCWords` | the arithmetic, bit and comparison opcodes (run `words`) |
| `Format` | `canonical_bytes` and `identifier`, with a reference reader (run `format`) |
| `FormatProofs` | theorems about `Format` |
| `Abort`, `MCAbort` | abort codes, stubs and `halting_stubs`; a program beside its patched copy (run `abort`) |
| `Asm` | the two passes of `assemble` |
| `Disasm`, `MCAsm` | `Asm` composed with the linear disassembly of what it wrote and of raw bytes (run `code`) |
| `AsmProofs` | theorems about `Isa`, `Asm` and `Disasm` |

### Call

The variables have the names of the fields of `Interpreter`. `call` holds what
the node fixes before the call (manifest, limit, code length, preset storage,
whether there is a loader, strict or legacy rules), `ledger` the rows the loader
answers with. A step executes *any* opcode of `ProgramOps` on any operands, so
the model covers every program; registers, memory and pc are left out, and what
an opcode would read from memory (a key, a region, a length) is quantified over.
Each of HALT, SLOAD, SSTORE, HASH, SEND and EMIT is an action that contains the
whole arm of `step` with the charge of `run` in front: since a failed charge
drops the interpreter, the charges of one arm are added up and made at once
(`charge`), and the fault actions (`OutOfMeter`, `StoreOutOfMeter`, `HashFault`,
`EffectFault`, `UndeclaredSlot`, `BadSelector`, `OwnFault`, `DecodeFault`) say
which fault is reported at which point of the arm. The other opcodes change
nothing that `Call` keeps but the meter (`Compute`), or fail (`OwnFault`).

`read` (the last word SLOAD loaded), `leaf_paid` (how often each key was charged
the leaf price) and `parity` (of the number of steps) are history variables; no
guard reads them. `parity` is there because an opcode such as JMP changes nothing
else that `Call` keeps: with it, an instruction that cost nothing would be a step
that `EveryStepPays` rejects and that `Termination` may loop through, not a
stutter.

Abstractions: the loader is a function of the key that does not change during a
call (the node passes a snapshot); SHA3-256 is the constant function `Digest`
into `Key`, which may collide and may hit a scalar key; a meter sum that
overflows `u64` is one that exceeds the `u64` limit, so both are `OutOfMeter`.

### Control

The code of a container is the function from offsets to what `decode` answers
there, offsets inside instructions included. `VerifySizes`, `VerifyInstr` and
`VerifyEntries` are `Container::verify`, one instruction a step; its verdict is
recorded, and calls are opened on rejected containers as well, since `open_entry`
does not know the verdict. `ScanInstr` and `Enter` are `boundaries` and the check
of the entry offset; the actions of `Run` are the arms of `step` that move pc or
the stack, with the checks of `run` in `Steps`. `Straight` and `Trap` are all
other opcodes: which of them can fail is `Call`'s subject.

### Isa

An instruction is an opcode and a list of operands; words are sequences of
16-bit limbs, so that u64 immediates are exact although TLC's integers are 32-bit.
`opcode` and `from_byte` are two tables, as in the source: the discriminants of the
enum, and the arms of the match as runs of consecutive bytes.
`decode` reports the first byte that is missing or that should name a register
and does not, as the byte-by-byte `Cursor` does.

### Parallel and Serial

Each call has the `storage`, `loaded`, manifest and keyed authorisations of an
`Interpreter`; SLOAD, SSTORE and HASH are its arms without the prices, which
`Call` has. The loader reads the ledger of the moment, not a snapshot: that is
the harder case. The node is external and modelled from what `README.md` says of
it (the access manifest lets it "run contract calls in parallel over the state
trie"): a call starts only while no running call may write what it may touch, or
the reverse, by slots and by bases, and the rows of a call that halts are written.
`log`, the accesses of a call with their values, is history; `Serial` asks of a
log that a lone run over the ledger of the moment of commit would have left it.
The assumption on `Digest` is that of SHA3: preimages of different bases never
meet, nor does a digest equal the key of a declared slot. Without it two calls
with disjoint manifests could reach one row.

### Memory

Memory is bytes, and the operands of an opcode are any words, inside and outside
of it. A key is the bytes at an offset, and `scalar_key` the bytes of a slot with
zeros before it. `intact`, `granted`, `touched`, `billed` and `hashed` are
history: words stored and not overlapped since, declared bases with the digest of
what was hashed, rows that got past the access check, bytes of message that the
charge counted and that the opcode read. The digest of HASH may fall on its own
preimage; the base is taken before, as in the arm of `step`.

### Merkle

A hash is the tuple of what was hashed, so it has no collisions and a leaf, a
node and data can be told apart only as far as their tags do. The siblings of a
path are drawn while the climb goes, among data and all hashes of the tree, the
root and inner nodes included; an inner node may be offered as a leaf. Trees are
full and at most `MaxDepth` levels deep (`TreesAreFull`), with no relation between
that depth and the width of the index.

### Words

Registers of four bits stand for those of 64; the operators name the groups of
arms of `step`. The mask 63 of the shifts is `BITS - 1`.

### Format

A container is built part by part, so that every container up to the bound is a
state. The reference reader takes the bytes apart again with the lengths it finds;
a serialisation that it recovers is injective. The reader is part of the property,
not of the model: the crate has none.

### Abort

The program and its copy run in lockstep on the same data, each on a meter of its
own with the same limit: `Exec` is a turn of the loop of `run`, which charges the
opcode at the price of `meter.rs` before its arm, `Arm`. Programs are made of the
opcodes of a stub, jumps, and a load (`Modelled`); what a load, a division or a RET
finds is arbitrary, a failure included, and the same in both. The programs are those
of `MCAbort`: stubs of every rule with lines that look like tags, all triples of
instructions that are parts of a stub, with branches into the middle of them.
`listing` keeps the disassembly of both, which the code makes once for each: in
`halting_stubs`, and as boundaries when a run is opened.

Four limits of `halting_stubs` showed up and are in the statements:

- a legacy stub that opens the code is not patched, because no window of three
  instructions ends in it;
- a computed return that the program faults on may land in the padding of the copy;
- a program that jumps straight to the division of a stub, with another divisor, may
  divide and run on, where the copy halts;
- the division costs 4 and the HALT in its place nothing, so a program that comes to
  it with less than 4 left ends `OutOfMeter`, while its copy halts with the reason of
  the stub. Up to there both have spent the same (`OnlyStubsDiverge`), and this is the
  only way in which a program that runs into a stub ends there otherwise than by
  dividing by zero (`PatchedAlwaysRejects`).

### Asm

A line is a label or a mnemonic with operand tokens; a token keeps what its
parsers ask of it (the number after an `r`, its value if it is a number, whether
it starts with a digit); `SourceLines` is the set of all such lines. Comments,
commas and letter case are left out.

### Disasm

The assembler, and after it the loop that `Container::verify` and `boundaries` run
over the code: `Disassemble` decodes at `pc`, keeps the instruction in `out` and
goes on behind it. It also starts on `RawCodes`, bytes that no assembler wrote
(`RawInit`), so that what is said of `decode` is said of code from anywhere.

## 3. What TLC checks

| run | checks | instance |
|---|---|---|
| `rows` | `TypeOK`, `StateGrowthPaid`, `FreeSlotsBounded`, `KeyedRowsPaid`, `DeclaredFootprint`, `SecondLeafOnlyOnZero`, `ImplementsAtomic` | SLOAD, SSTORE, HASH, HALT over four keys: a declared slot, two keys under a keyed write base, one under a keyed read base; one free slot; limit 10; both rules; manifest or none; loader or none; preset row or none; two ledgers |
| `effects` | `StateGrowthPaid`, `RetainedExactly`, `EventBytesPaid` | SEND, EMIT, HALT over six regions (transfer targets, mint records with equal and with different holders, data too short to be a mint); selectors that truncate to the mint selector; one free record; limit 11, byte cap 10, a leaf price well above the flat ones |
| `opcodes` | `EveryStepPays`, `Termination` | all 43 opcodes at the prices of `meter.rs`, limit 560, so that the cheap opcodes, the storage opcodes, transfers and a Merkle check all run and every opcode runs out somewhere |
| `leaf` | `LeafPriceOnce` (violated) | as `rows`, strict rules |
| `control` | `TypeOK`, `OnlyScannedCodeRuns`, `VerifiedCodeBehaves`, `VerifierSeesWhatRuns`, `Returns` | 165 containers: eleven codes (calls, recursion, endless pushes, returns to pushed words, jumps into an immediate that hides code, constants, an undecodable tail, code past u32) with 1 to 3 constants and five entry lists |
| `parallel` | `TypeOK`, `LoadedRowsCurrent`, `WritesAreDisjoint`, `RefinesSerial` | two calls, any pair of four manifests (pairs that conflict by slot, by base, and not at all), three rows, two accesses each |
| `memory` | `AuthorisesWhatItHashed`, `TouchesOnlyDeclared`, `IntactWordsReadBack`, `BilledForTheMessage` | bytes of two values, words of three bytes, keys of four, six bytes of memory, four steps |
| `merkle` | `AcceptsExactlyGenuine` | an index of two bits, trees of one to eight leaves (one level deeper than the index), region lengths on either side of each valid one, both rules |
| `words` | `OpcodesAgree`, `BitByBit`, `WideDivision` | four-bit words, three registers, all of them loaded with every word; destinations that are operands |
| `format` | `ReadsBack` | containers of up to four parts (bytes, constants, entries, slots), two-bit lengths |
| `abort` | `PatchKeepsLayout`, `OnlyStubsDiverge`, `PatchedAlwaysRejects`, `RejectionExplained` | 42 rules and three lines; triples of seven instructions; branches to 9, 19, 29; returns into padding; a meter that a stub exceeds by one, that it just meets, and that leaves room for loops |
| `code` | `PassesAgree`, `AssemblesWellFormed`, `CodeMeansSource`, `DecodesCanonically`, `DecodesLocally` | all programs of four lines over seven, with labels before and after their uses; one line for each error at either end; each opcode between a label and a jump back; each instruction over boundary operands; every first byte with short and long tails |

Why the bounds are enough. The thresholds are what the properties turn on, so
each is scaled to the smallest value that leaves room on both sides: one free
slot among four keys, one free record, a stack of three, two constants, a limit
that cuts a call short at every point of every arm. Four keys give the three ways
a key is reached (declared, keyed write, keyed read) and a second key of the kind
that pays. Words are 0 and 1, because only zero and non-zero are told apart. The
proofs cover the remaining values of the constants of `Call`, `Control`, `Parallel`,
`Memory`, `Merkle` and `Format`, and all sources of `Asm`. In the modules without
them a width is the smallest at which its edge is met from both sides: a path of as many levels as the index has bits, one less and one more; a memory that
a word and a key fit in at several overlapping places; a pair of words whose
product, sum and difference wrap. Two calls suffice for `Parallel` because a
conflict is between two; each may make a read, a write and any number of hashes.

Fairness. `Call` and `Control` have weak fairness on the steps of `run` (and of
the scan): `run` is one loop on one thread that nothing suspends. When a container
is deployed or called is up to the node, so `Verify` and `OpenCall` have none.
`Termination` and `Returns` need nothing else. The other modules state safety alone,
`Parallel` too: when its calls start is up to the node's scheduler, which is not part
of this code, and that a running call ends is `Termination` of `Call`. They stop at a bound or at an end, and do not check deadlock.

The finding. `README.md` says that the full leaf price "is charged once, on the
first write that creates a row". Run `leaf` shows a call that pays it twice for
one row: with the free slots used up, `SSTORE k, 0` pays it because `k` is newly
dirty, without entering `k` in `fresh_charged`; `SSTORE k, 1` then pays it again
because `k` reads as zero and is not in `fresh_charged`. `SecondLeafOnlyOnZero`
bounds the disagreement: there is no third charge, and the second is always made
by a write that turns a zero non-zero. The caller overpays; no row is free.

Two remarks. `README.md` also says that "two distinct containers never share an
identifier". `put_len` writes the largest u32 for every length above it, so the
sentence cannot hold of containers with more than four billion bytes of code or
constants. `verify` refuses those, and the theorem `IdentifiersTellApart` proves the
sentence for all that are within its sizes. And `README.md` says that the chain applies the
legacy rules through `with_legacy_rules`, which is a private test-only function
in this commit. The models keep both rules (`Rules`).

## 4. What is proved

`CallProofs` proves, for every schedule that satisfies the assumptions of
`Meter`, every finite set of keys, every digest function, manifest, ledger,
program and limit:

| theorem | statement |
|---|---|
| `TypeCorrect` | `Spec => []TypeOK` |
| `EveryStepIsPaid` | `Spec => EveryStepPays`: every step but the last takes from the meter |
| `CallsStayDeclared` | `Spec => []DeclaredFootprint` |
| `FreeSlotsAreBounded` | `Spec => []FreeSlotsBounded` |
| `KeyedRowsArePaid` | `Spec => []KeyedRowsPaid` |
| `CallsAreAtomic` | `Spec => ImplementsAtomic`: `Call` refines `AtomicCall` |
| `StateGrowthIsPaid` | `Spec => []StateGrowthPaid` |
| `SecondLeafIsJustified` | `Spec => SecondLeafOnlyOnZero` |
| `CountersAreExact` | `Spec => []RetainedExactly` |
| `EventsPayTheirPrice` | `Spec => []EventBytesPaid` |

The argument. None of these is inductive alone. `RowsInv` is the strengthening
they share: a row that is not dirty is the preset row and a cached row is the
ledger's (`RowsAgree`, so that what `Lookup` answers for a clean key is the state
before the call); a key in `fresh_charged` was charged (`FreshKeysArePaid`); the
authorised keys are digests under declared bases, and every authorised write is
an authorised read (`KeysAreDerived`). `StepCases` first reduces `[Next]_vars` to
nine cases, all faults being one. The footprint follows from `KeysAreDerived`; the
bound on free slots from `FreshKeysArePaid` and cardinalities; refinement from
`RowsAgree`, with `View`, `Published` and `AtomicPhase` as the mapping; growth
from one lemma per kind of cost (`LeafCostStep`, `KeyedCostStep`,
`TargetCostStep`, `RecordCostStep`, `ByteCostStep`) that bounds what an action adds
by what it charges, added up in `PaidStep`.

`LeafInv` bounds the leaf charges of a key by its bookkeeping: a charged key is
dirty, and one that is not in `fresh_charged` was charged at most once. So the
branch of SSTORE that charges because the key is newly dirty is never a second
charge, and the other one enters the key in `fresh_charged` and can be taken once.
`EffectsInv` and `KeyedInv` are `RetainedExactly` with the finiteness of the sets
that are counted. SEND and EMIT append one effect, which adds its size, its targets
and its price to the totals (`Total` is a sum over a sequence; what appending does
to it comes from `Induction`). `PaidEffects` carries `EventBytesPaid` the same way.

`ControlProofs` proves, for every container (well-formed or not), entry list,
limit, stack limit and set of words that a program may push:

| theorem | statement |
|---|---|
| `TypeCorrect` | `Spec => []TypeOK` |
| `OnlyScannedCodeIsRun` | `Spec => []OnlyScannedCodeRuns` |
| `ScanAgreesWithVerify` | `Spec => []VerifierSeesWhatRuns` |
| `VerifiedCodeKeepsItsPromises` | `Spec => []VerifiedCodeBehaves` |

The argument. `RunCases` reduces the arms of `step` to three cases: a fault with
what it says of the instruction, a halt, or going on at a boundary or at the next
offset. `ChainInv` says that the boundaries are decodable and closed under "next
instruction", except where the scan stopped, which is where `run` stops too; pc
therefore never leaves them, whether or not the container was verified. For a
verified one, `VerifyInv` states what the loop of `verify` has established when it
stands at an offset (`StartsUpTo`: the starts begin at 0, follow one another
without overlap, have no bad constant, and their targets are collected), and
`ScannedInv` that the second scan retraces the first: while it runs, the boundaries
are the starts below its cursor. Since the starts are ordered (`s < t` implies that
`s` ends by `t`), no start is skipped; when the scan ends the two sets are equal,
so the targets that `verify` found among its starts are boundaries of the call.

`ParallelProofs` proves, for any set of calls, keys, words, bases and manifests,
under strict or legacy rules:

| theorem | statement |
|---|---|
| `TypeCorrect` | `Spec => []TypeOK` |
| `LoadedRowsStayCurrent` | `Spec => []LoadedRowsCurrent` |
| `WritesStayDisjoint` | `Spec => []WritesAreDisjoint` |
| `ParallelIsSerial` | `Spec => RefinesSerial`: `Parallel` refines `Serial` |

The argument. `Reach(c)` is what the manifest of `c` lets it touch, digests under
its bases included, and `Own(c)` what it lets it write; by the assumption on
`Digest`, calls that do not disturb each other have the one's `Own` apart from the
other's `Reach` (`Apart`). `SideInv` says that running calls do not disturb each
other, that authorised keys and held rows lie in `Reach` and `Own`, and that what
is cached is current; so a commit changes no row that a call beside it has seen
(`LedgerStep`). For the refinement, `LogInv` ties a call to its history: its rows
are the last writes of its log, and every read in the log is what a lone run over
the ledger of the moment reads. A commit of another call keeps that by
`LedgerStep`, a read or write of its own extends it (`LogInvExtended`), and at HALT
it is exactly what `Serial` asks. That a finite set of writes has a last one would
need induction over data; `LastExists` carries it along in the invariant, one
entry at a time.

`MemoryProofs` proves, for every size of a byte, a word, a key and the memory, every
manifest, and every digest function whose results have the length of a key:

| theorem | statement |
|---|---|
| `MemoryInvHolds` | `Spec => []MemoryInv`, the inductive invariant |
| `HashAuthority` | `Spec => []AuthorisesWhatItHashed` |
| `DeclaredAccess` | `Spec => []TouchesOnlyDeclared` |
| `StoredWords` | `Spec => []IntactWordsReadBack` |
| `MessageBilled` | `Spec => []BilledForTheMessage` |

The argument. `IntactWordsReadBack` speaks of the number that is read back and not
of where the word lies. `Stored` says both: an intact word is inside memory and its
bytes are those that MSTORE wrote, and a write that does not overlap them leaves
them alone. That such bytes read back as the word is arithmetic (`DigitsReadBack`: reading in base `BYTE` the digits that
`to_be_bytes` writes gives the word back). `TouchesOnlyDeclared` needs, for the rows
reached by a slot, that a key equal to `scalar_key` of a slot spells that slot: the
zeros before it add nothing to the number.

`MerkleProofs` proves, for trees of every depth and leaves, every width of the index,
every region length and both rules:

| theorem | statement |
|---|---|
| `MerkleIsExact` | `Spec => []AcceptsExactlyGenuine` |

The argument. `MerkleInv` follows the climb in both directions. `Reached`: whenever
the climb is at node `i` of level `l` of the tree, it has made `l` steps, it started
from the leaf below that node at the low `l` bits of the index, and it read the
siblings on that way; because hashes are tuples, the node determines its children,
which were hashed with the tag of a node, so that a leaf never passes for a node.
`Followed`: if it started from the leaf at the index and read the siblings on its
way, it is at the node above. At the root `Reached` gives that what is accepted is
genuine, provided that the index has no bits beyond the path, which is what
`OutOfTree` refuses; `Followed` gives that what is genuine is not refused.

`AsmProofs` proves, for every source, whatever its length, labels and operands, for
every `U32_MAX`, and for any raw bytes:

| theorem | statement |
|---|---|
| `PassesAlwaysAgree` | `[]PassesAgree`, under `Spec` and under `CodeSpec` |
| `AssemblesExactly` | `[]AssemblesWellFormed`, under both |
| `CodeAlwaysMeansSource` | `[]CodeMeansSource`, under both |
| `AlwaysCanonical` | `CodeSpec => []DecodesCanonically` |
| `AlwaysLocal` | `CodeSpec => []DecodesLocally` |

The argument, for the encoding. `LaidOut` gives the bytes that each operand of an
opcode takes behind the opcode byte, the running sums of the widths. An operand is
spelled in exactly the bytes of its width and read back from them (`OperandBytes`,
`BytesOperand`); `encode` writes each in its place (`EncodingIs`); `decode` succeeds
exactly when the bytes of the layout are there and those of registers are below
`NUM_REGS` (`Here`). From this: what was encoded decodes to itself wherever it lies
(`EncodeDecodes`), what decodes encodes to the bytes it was read from
(`DecodeEncodes`), and neither longer nor shorter code changes the answer
(`DecodeWhole`, `DecodeShort`). The table of 43 opcodes is gone through only to see
that the two numberings are inverse and that the arms of `parse_instr` ask for the
operands that `Instr` has (`ShapeOf`).

The argument, for the assembler. `Bytes`, the size of a line, depends on its opcode
only, never on the labels known when it is parsed; this is where a jump to a label
that the first pass has not seen matters. `Before` is the running sum of the sizes.
`LineParses` says that `parse_instr` answers with operands that mean what the line
says, or refuses a line with no meaning. `AsmInv` follows both passes: in the first,
the labels are those of the lines passed, each with its `Before` and none twice, and
`offset` is `Before` of the line at hand (`LabelsUpTo`); in the second, all labels
are known and each line passed lies encoded at its `Before` (`Written`); at the end,
either all lines are written or the source is not well formed. That `code` so far
has the right length is not inductive without the labels, and what the code means is
not without the bytes of each line: hence the invariant keeps both. `CodeInv` adds
that what the disassembly has decoded encodes to the bytes behind it, and that in
assembled code it stands where a line begins, so that the next line is what it
decodes next (`NextInstr`) and it never stops early.

`FormatProofs` proves, for every size of a byte and of the fields and every
container, whatever its code, constants and entries:

| theorem | statement |
|---|---|
| `ContainersReadBack` | `Spec => []ReadsBack` |
| `IdentifiersTellApart` | two containers within the sizes of `verify` that have one identifier are one container |

The argument. The reader holds a cursor: what was read and the bytes that are left.
Each part, put in front of any further bytes, is read as what was written and leaves
exactly those bytes (`WordsReadBack`, `EntryReadBack`, `EntriesReadBack`); so the
reader passes from one part to the next. A number reads back because its digits
determine it (`NumberReadBack`), a length because one that fits its field is not
saturated by `put_len` (`LengthReadBack`), and a list because its length says where it
ends. The entries are followed one by one, with an induction over the number read
(`Advanced`). Containers with equal identifiers have equal canonical bytes, which are
read back as both.

Induction. The induction theorems of the library take an operator as a parameter,
which the provers here cannot instantiate. `Induction` states induction for a *set*
of numbers instead (`UpTo`, from the theorem that `<` is well founded on `Nat`), and
from it that the recursive functions of the models (`Total`, `Place`, `Pow2`, the
numbers read and written in a base, `FlattenSeq`) exist and satisfy their
equations. The recursions of the models are written as functions for that reason.

The assumptions are those named in `Meter`, `Call`, `Control`, `Parallel`, `Memory`,
`Merkle`, `Asm`, `Disasm` and `Format`: prices are natural numbers, only HALT is free, EVENT_BYTE is at
least EFFECT_BYTE, keys are finite in number, words include zero, code offsets fit
the u32 pc; in `Parallel`, digests of different bases differ and are not declared
slots; in `Memory`, a key is at least as long as a word and a digest is as long as a
key; in `Merkle`, trees are full; in `Asm`, a source is a sequence of lines and `U32_MAX`
fits a u32; in `Disasm`, raw code is a sequence of bytes; in `Format`, sizes
are positive and the limits of `verify` fit the length field. TLC
evaluates them in every run. Each inductive invariant was checked with TLC on the
instance of its run before it was proved (of `CodeInv` the form whose quantifiers
range over the names in the program and the instructions that the code decodes to).

Only model-checked: `Termination` and `Returns` (liveness is out of the prover's
reach); `OpcodesAgree`, `BitByBit` and `WideDivision` of `Words`, whose
bit operators come from a module of recursive operators; and the properties of
`Abort`, which follow a program beside its patched copy. What they need of the
encoding is proved in `AsmProofs`; the lockstep of the two runs is not.

## 5. Not modelled, and the plan

Not modelled: the signature schemes and SHA3 (an external crate, constants of
`Memory`, `Call` and `Parallel`, tuples in `Merkle` and `Format`); unit tests; the
texts of `Rule::name`, `title` and `help`; `selector`, which cuts a hash;
`logical_lines`, which strips comments; `SystemProgram::verify`, a table lookup of
a hash; the fuzz harness, which is a driver of the parts above: it draws a program,
opens it and asserts of the outcome what the runs `control`, `rows` and `opcodes`
check of every program.

Order of work. Done: `Meter`, `Call`, `AtomicCall`, `Control`, `Parallel`,
`Serial`, `Memory`, `Merkle`, `Format`, `Isa`, `Asm` and `Disasm` with their proofs;
`Words` and `Abort` with their runs. Next: `PatchKeepsLayout` of `Abort`, that a patch
has the length of what it replaces and moves no other instruction, from `EncodeDecodes`
and `DecodeWhole`.
