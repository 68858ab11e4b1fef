SPECIFICATION Spec
CONSTANTS
  File = {f1, f2}
  Text <- TwoTexts
  Hash = {"ha", "hb"}
  Indexed <- HashOfTwo
  Proc = {u, a}
  Locked = {u}
  Window = 0
  MaxTime = 1
  Slow = FALSE
  NoText = NoText
  NoHash = NoHash
  NoStat = NoStat
  Nobody = Nobody
  Budget <- SharedBudget
SYMMETRY Symmetric
INVARIANTS CleanPassConverges
CHECK_DEADLOCK FALSE
