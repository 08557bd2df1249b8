CONSTANTS
  NoRelease = NoRelease
  NoProc = NoProc
  d1 = d1
  d2 = d2
  d3 = d3
  DeployIds = {d1, d2, d3}
  Operators = {o1}
  Dynamic = {}
  Retain = 1
  Togglers = {}
  Swept = {d1}
  Overdue = {d1}
SPECIFICATION Spec
SYMMETRY Interchangeable
INVARIANTS CurrentExists CatalogAgrees PreviousUsable
PROPERTIES CurrentTornOnlyBySweep RollbackIntact
CHECK_DEADLOCK FALSE
