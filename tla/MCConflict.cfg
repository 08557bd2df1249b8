SPECIFICATION Spec
CONSTANTS
    Requests = {r1, r2, r3}
    Calls <- AllCalls
SYMMETRY Interchangeable
CHECK_DEADLOCK FALSE
INVARIANT ConflictReported
