\* Two calls in parallel over one ledger.
CONSTANTS
    Calls = {c1, c2}
    Key = {"s", "px", "qx"}
    Word = {0, 1}
    Absent = Absent
    Base = {"p", "q"}
    Arg = {"x"}
    Digest <- MCDigest
    Manifests <- MCManifests
    Strict = TRUE
    MaxOps = 2
    NoLog = NoLog
SPECIFICATION Spec
INVARIANTS
    TypeOK
    LoadedRowsCurrent
    WritesAreDisjoint
PROPERTIES
    RefinesSerial
CHECK_DEADLOCK FALSE
