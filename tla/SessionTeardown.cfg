SPECIFICATION Spec
CONSTANTS
  Uids = {1}
  UidSets = {{1}}
  Callers = {"with", "capture"}
  Platforms = {"android", "linux"}
  MaxStarts = 2
  MaxErrors = 2
  MaxInterrupts = 2
INVARIANT TeardownUndoesStart
CHECK_DEADLOCK FALSE
