SPECIFICATION Spec
CONSTANTS
  Sessions = {a}
  a = a
  Executors = {"adb", "local"}
  Kernels <- SomeKernels
  WaySets <- SomeWays
  MaxProbeFaults = 0
  Asked = {"AUTO"}
  MaxCaptures = 1
INVARIANT EmptyCaptureIsTold
CHECK_DEADLOCK FALSE
