\* Every claim about every small tree, with every path.
CONSTANTS
    INDEX_BITS = 2
    MaxDepth = 3
    HASH_BYTES = 2
    HEADER = 5
    Datum = {"a", "b", "c"}
    Trees <- MCTrees
    Lengths = {0, 4, 5, 6, 7, 9, 10, 11, NoRegion}
    NoRegion = NoRegion
SPECIFICATION Spec
INVARIANTS
    AcceptsExactlyGenuine
CHECK_DEADLOCK FALSE
