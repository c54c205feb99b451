\* Every order of four opcodes over six bytes of memory.
CONSTANTS
    BYTE = 2
    WORD_BYTES = 3
    MEM_BYTES = 6
    STORAGE_KEY_BYTES = 4
    PK <- MCPK
    SIG <- MCSIG
    Sha3 <- MCSha3
    Degenerate <- MCDegenerate
    Signed <- MCSigned
    SCHEME_ML_DSA = 1
    SCHEME_SLH_DSA = 2
    reads = {0}
    writes = {5}
    keyed_reads = {1, 4}
    keyed_writes = {2}
    MaxSteps = 4
SPECIFICATION Spec
INVARIANTS
    AuthorisesWhatItHashed
    TouchesOnlyDeclared
    IntactWordsReadBack
    BilledForTheMessage
CHECK_DEADLOCK FALSE
