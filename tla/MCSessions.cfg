CONSTANTS
  NoRelease = NoRelease
  NoProc = NoProc
  DeployIds = {d1, d2}
  Operators = {}
  Dynamic = {d2}
  Retain = 1
  Togglers = {t1}
  Swept = {d1}
  Overdue = {d1}
SPECIFICATION LiveSessionSpec
CONSTANTS
  d1 = d1
  alice = alice
  bob = bob
  Owner <- TwoOwners
  Confirmed = {}
  Interruptible = {d1}
PROPERTY PublishesAtomically SessionsEnd
CHECK_DEADLOCK FALSE
