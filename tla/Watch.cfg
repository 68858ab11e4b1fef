SPECIFICATION FairSpec
CONSTANTS
  Coll = {"c1"}
  Text = {"a", "b"}
  Hooked = {"c1"}
  Interval = 1
  MaxBackoff = 2
  NoText = "none"
  NoStat = NoStat
  Nobody = "nobody"
  Budget <- WatchBudget
INVARIANTS NothingIsMissed RebuildNotForgotten HookDoesNotOutlive RefreshedIsCurrent
PROPERTIES WatchCatchesUp SignalStops
CHECK_DEADLOCK FALSE
