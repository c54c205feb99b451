\* A program that uses every opcode, priced by the schedule of the source:
\* every call ends.
SPECIFICATION Spec
CONSTANTS
    U64_MAX = 2147483647
    cost <- SourceCost
    header <- MCheader
    DISPATCH = 4
    CODE_SCAN_PER_BYTE = 9
    EFFECT_BYTE = 2
    EVENT_BYTE = 100
    EFFECTS_BYTES_CAP = 1048576
    EFFECT_RECORD_OVERHEAD = 32
    KECCAK_RATE = 136
    HASH_BLOCK = 40
    VERIFY_MESSAGE_BLOCK = 40
    MERKLE_LEVEL = 50
    HASH_BYTES = 32
    KEYED_SLOT_METER = 227000
    KEYED_READ_METER = 948
    EVENT_RECORD_METER = 6250
    FREE_EVENT_RECORDS = 4
    FREE_DIRTY_SLOTS = 8
    Absent = Absent
    NoManifest = NoManifest
    Key <- OutKey
    Word = {0}
    Region <- AllRegion
    Length = {0, 63}
    Digest <- AllDigest
    BASE_BYTES = 1
    STORAGE_KEY_BYTES = 1
    Selector = {0, 1, 3}
    U32_MAX = 1
    ASSET_MINT_SELECTOR = 1
    ASSET_MINT_DATA_BYTES = 2
    HOLDER_BYTES = 1
    ProgramOps <- OpCode
    Manifests <- OutManifests
    Limits = {560}
    CodeLens = {0}
    Presets <- OutPresets
    Ledgers <- OutLedgers
    Loaders = {FALSE}
    Rules = {TRUE, FALSE}
PROPERTIES EveryStepPays Termination
