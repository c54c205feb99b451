\* Containers verified or not, opened by every route, run to their end.
SPECIFICATION Spec
CONSTANTS
    U64_MAX = 511
    cost <- MCcost
    DISPATCH = 1
    CODE_SCAN_PER_BYTE = 1
    EFFECT_BYTE = 1
    EVENT_BYTE = 2
    EFFECTS_BYTES_CAP = 4
    EFFECT_RECORD_OVERHEAD = 1
    KECCAK_RATE = 2
    HASH_BLOCK = 1
    VERIFY_MESSAGE_BLOCK = 1
    MERKLE_LEVEL = 1
    HASH_BYTES = 1
    KEYED_SLOT_METER = 2
    KEYED_READ_METER = 1
    EVENT_RECORD_METER = 1
    FREE_EVENT_RECORDS = 1
    FREE_DIRTY_SLOTS = 1
    Undecodable = Undecodable
    Containers <- MCContainers
    Selectors = {"a", "b", "c", "genesis"}
    Genesis = "genesis"
    Limits = {8, 22}
    StackWord = {0, 3, 5, 8, 17}
    STACK_LIMIT = 3
    U32_MAX = 16
    MAX_CODE_BYTES = 15
    MAX_CONSTS = 2
    MAX_ENTRIES = 3
    MAX_ACCESS_SLOTS = 1
INVARIANTS TypeOK OnlyScannedCodeRuns VerifiedCodeBehaves VerifierSeesWhatRuns
PROPERTY Returns
