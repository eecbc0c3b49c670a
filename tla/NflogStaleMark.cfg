SPECIFICATION Spec
CONSTANTS
  Uids = {10100, 10200}
  Hosts = {a}
  Families <- V4
  UidSets <- EachUid
  Conns = {c}
  FamilyOf <- AllV4
  MaxFaults = 0
  MaxLate = 0
  MaxStarts = 2
  MaxDeviceRules = 0
  DevicePrepends = FALSE
  a = a
  c = c
INVARIANT AllConnectionsScoped
CHECK_DEADLOCK FALSE
