\* Every pair of four-bit words through every arithmetic opcode.
CONSTANTS
    BITS = 4
    None = None
    Reg = {0, 1, 2}
    Fetched <- MCFetched
SPECIFICATION Spec
INVARIANTS
    OpcodesAgree
    BitByBit
PROPERTIES
    WideDivision
CHECK_DEADLOCK FALSE
