SPECIFICATION Spec
CONSTANTS
  Sessions = {a, b}
  a = a
  b = b
  Executors = {"adb", "local"}
  Kernels <- SomeKernels
  WaySets <- SomeWays
  MaxProbeFaults = 1
  Asked = {"AUTO"}
  MaxCaptures = 2
SYMMETRY Alike
INVARIANTS TypeOK OnlyRealFeatures CleanProbeIsExact ProbeChainRemoved TierTwoIsDelivered UndisturbedPcapIsOwn RunsUntilStopped StoppedCapturesEnd
CHECK_DEADLOCK FALSE
