\* Every small container, serialised and read back.
CONSTANTS
    BYTE = 2
    LEN_BYTES = 2
    WORD_BYTES = 2
    SELECTOR_BYTES = 1
    OFFSET_BYTES = 1
    MAX_CODE_BYTES = 3
    MAX_CONSTS = 3
    MAX_ENTRIES = 3
    MAX_ACCESS_SLOTS = 3
    MaxParts = 4
SPECIFICATION Spec
INVARIANTS
    ReadsBack
CHECK_DEADLOCK FALSE
