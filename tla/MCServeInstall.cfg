SPECIFICATION Spec
INVARIANTS Recoverable RestoredOrTold ServiceRestored CompletedIsNew
CHECK_DEADLOCK FALSE
