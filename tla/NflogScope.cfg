SPECIFICATION Spec
CONSTANTS
  Uids = {10100, 10200}
  Hosts = {a}
  Families <- V4V6
  UidSets <- Nested
  Conns = {c}
  FamilyOf <- AllV6
  MaxFaults = 1
  MaxLate = 1
  MaxStarts = 2
  MaxDeviceRules = 0
  DevicePrepends = FALSE
  a = a
  c = c
INVARIANTS TypeOK FreshConnectionsScoped FreshInv MarkedWereScoped LoggedWereScoped
CHECK_DEADLOCK FALSE
