SPECIFICATION Spec
CONSTANTS
  Pids = {p1, p2}
  NoPid = NoPid
  p1 = p1
  p2 = p2
  App = "app"
  AppUid = 10100
  AidDns = 1051
  Processes <- Running
  LooksLikeApp = {"app", "app:child", "app2"}
  Executors = {"adb", "local", "adapter"}
  MaxChurn = 2
  MaxFaults = 0
INVARIANT ChildrenAreScoped
CHECK_DEADLOCK FALSE
