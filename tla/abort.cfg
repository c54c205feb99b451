\* Programs with rejection stubs and their patched copies, run side by side.
CONSTANTS
    Programs <- MCPrograms
    Lines <- MCLines
    Returns = {0, 10, 20, 21, 29, 30}
    Computed <- MCComputed
    Limits = {5, 6, 24}
SPECIFICATION Spec
INVARIANTS
    PatchKeepsLayout
    OnlyStubsDiverge
    PatchedAlwaysRejects
    RejectionExplained
CHECK_DEADLOCK FALSE
