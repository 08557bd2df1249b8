CONSTANTS
  NoRelease = NoRelease
  NoProc = NoProc
  DeployIds = {d1, d2}
  Operators = {}
  Dynamic = {}
  Retain = 1
  Togglers = {}
  Swept = {d1}
  Overdue = {}
SPECIFICATION SessionSpec
CONSTANTS
  d1 = d1
  alice = alice
  bob = bob
  Owner <- OneOwner
  Confirmed = {}
  Interruptible = {d1}
INVARIANT CurrentWhole
CHECK_DEADLOCK FALSE
