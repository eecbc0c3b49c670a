SPECIFICATION Spec
CONSTANTS
  Uids = {10100}
  Hosts = {a, b}
  Families <- V4
  UidSets <- OneUid
  Conns = {}
  FamilyOf <- NoConns
  MaxFaults = 1
  MaxLate = 0
  MaxStarts = 3
  MaxDeviceRules = 0
  DevicePrepends = FALSE
  a = a
  b = b
SYMMETRY Alike
INVARIANTS TidyWhenAllStopped OwedInv
CHECK_DEADLOCK FALSE
