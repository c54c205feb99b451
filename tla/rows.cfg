\* The rows of a call: storage, cache, keyed authorisations and leaf prices.
SPECIFICATION Spec
CONSTANTS
    U64_MAX = 63
    cost <- MCcost
    header <- MCheader
    DISPATCH = 1
    CODE_SCAN_PER_BYTE = 1
    EFFECT_BYTE = 1
    EVENT_BYTE = 2
    EFFECTS_BYTES_CAP = 4
    EFFECT_RECORD_OVERHEAD = 1
    KECCAK_RATE = 2
    HASH_BLOCK = 0
    VERIFY_MESSAGE_BLOCK = 1
    MERKLE_LEVEL = 1
    HASH_BYTES = 1
    KEYED_SLOT_METER = 2
    KEYED_READ_METER = 1
    EVENT_RECORD_METER = 1
    FREE_EVENT_RECORDS = 1
    FREE_DIRTY_SLOTS = 1
    Absent = Absent
    NoManifest = NoManifest
    Key <- RowKey
    Word = {0, 1}
    Region <- RowRegion
    Length = {0}
    Digest <- RowDigest
    BASE_BYTES = 1
    STORAGE_KEY_BYTES = 1
    Selector = {0}
    U32_MAX = 1
    ASSET_MINT_SELECTOR = 1
    ASSET_MINT_DATA_BYTES = 2
    HOLDER_BYTES = 1
    ProgramOps = {"SLoad", "SStore", "Hash", "Halt"}
    Manifests <- RowManifests
    Limits = {10}
    CodeLens = {0}
    Presets <- RowPresets
    Ledgers <- RowLedgers
    Loaders = {TRUE, FALSE}
    Rules = {TRUE, FALSE}
INVARIANTS TypeOK StateGrowthPaid FreeSlotsBounded KeyedRowsPaid DeclaredFootprint
PROPERTIES SecondLeafOnlyOnZero ImplementsAtomic
