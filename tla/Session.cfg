SPECIFICATION Spec
CONSTANTS
  Uids = {1}
  UidSets = {{1}}
  Callers = {"with", "capture"}
  Platforms = {"android", "linux"}
  MaxStarts = 2
  MaxErrors = 2
  MaxInterrupts = 2
INVARIANTS TypeOK WholeDeviceFlagged NoRulesAfterOneMishap CapturesAreStopped
PROPERTY ImplementsAppCapture
CHECK_DEADLOCK FALSE
