SPECIFICATION FairSpec
CONSTANTS
  Uids = {10100}
  Hosts = {a}
  Families <- V4
  UidSets <- OneUid
  Conns = {}
  FamilyOf <- NoConns
  MaxFaults = 2
  MaxLate = 1
  MaxStarts = 3
  MaxDeviceRules = 1
  DevicePrepends = TRUE
  a = a
INVARIANTS TidyWhenAllStopped JumpsBounded
CHECK_DEADLOCK FALSE
PROPERTY LeftoversRemoved
