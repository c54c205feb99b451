\* Both passes of the assembler, and the disassembly of what they wrote and
\* of raw bytes.
CONSTANTS
    Sources <- MCSources
    U32_MAX = 25
    RawCodes <- MCRawCodes
SPECIFICATION CodeSpec
INVARIANTS
    PassesAgree
    AssemblesWellFormed
    CodeMeansSource
    DecodesCanonically
    DecodesLocally
CHECK_DEADLOCK FALSE
