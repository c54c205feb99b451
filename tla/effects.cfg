\* The effects of a call: transfers, events, mints and what they retain.
SPECIFICATION Spec
CONSTANTS
    U64_MAX = 63
    cost <- MCcost
    header <- MCheader
    DISPATCH = 1
    CODE_SCAN_PER_BYTE = 1
    EFFECT_BYTE = 1
    EVENT_BYTE = 2
    EFFECTS_BYTES_CAP = 10
    EFFECT_RECORD_OVERHEAD = 1
    KECCAK_RATE = 2
    HASH_BLOCK = 0
    VERIFY_MESSAGE_BLOCK = 1
    MERKLE_LEVEL = 1
    HASH_BYTES = 1
    KEYED_SLOT_METER = 4
    KEYED_READ_METER = 1
    EVENT_RECORD_METER = 1
    FREE_EVENT_RECORDS = 1
    FREE_DIRTY_SLOTS = 1
    Absent = Absent
    NoManifest = NoManifest
    Key <- OutKey
    Word = {0}
    Region <- OutRegion
    Length = {0}
    Digest <- OutDigest
    BASE_BYTES = 1
    STORAGE_KEY_BYTES = 1
    Selector = {0, 1, 3}
    U32_MAX = 1
    ASSET_MINT_SELECTOR = 1
    ASSET_MINT_DATA_BYTES = 2
    HOLDER_BYTES = 1
    ProgramOps = {"Send", "Emit", "Halt"}
    Manifests <- OutManifests
    Limits = {11}
    CodeLens = {0}
    Presets <- OutPresets
    Ledgers <- OutLedgers
    Loaders = {FALSE}
    Rules = {TRUE, FALSE}
INVARIANTS StateGrowthPaid RetainedExactly EventBytesPaid
