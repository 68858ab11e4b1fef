SPECIFICATION Spec
CONSTANTS
  File = {f1, f2}
  Text <- Texts
  Hash = {"ha", "hb"}
  Indexed <- HashOf
  Proc = {u}
  Locked = {u}
  Window = 0
  MaxTime = 2
  Slow = FALSE
  NoText = NoText
  NoHash = NoHash
  NoStat = NoStat
  Nobody = Nobody
  Budget <- RestoreBudget
INVARIANT RestoredIsReactivated
SYMMETRY Symmetric
CHECK_DEADLOCK FALSE
