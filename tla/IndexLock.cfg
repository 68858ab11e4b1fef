SPECIFICATION FairSpec
CONSTANTS
  Proc = {"p1", "p2", "p3"}
  Pid = {1, 2, 3}
  Host = {"h1", "h2"}
  PidOf <- OwnPids
  HostOf <- TwoHostsOf
  Watcher = {"p1", "p2"}
  UnlockModes = {"plain", "force"}
  None = None
  MaxFaults = 1
INVARIANTS TypeOK SingleWriter CrashLeavesOnlyStale
PROPERTIES AbandonedLockReclaimed ImplementsWriterLock
CHECK_DEADLOCK FALSE
