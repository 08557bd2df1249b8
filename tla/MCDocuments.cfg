SPECIFICATION Spec
CONSTANTS
    Requests = {r1, r2, r3, r4}
    Calls <- AllCalls
SYMMETRY Interchangeable
CHECK_DEADLOCK FALSE
INVARIANTS FinalAnnounced AckedPatchesKept EventsTrue
PROPERTY RegisterKept
