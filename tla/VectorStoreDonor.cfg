SPECIFICATION Spec
CONSTANTS
  Doc = {"d1", "d2"}
  Coll = {"c1", "c2"}
  CollOf <- TwoColls
  Excluded = {"d2"}
  Hash = {"a", "b", "e"}
  Blank = {"e"}
  Fp = {"f2"}
  Seq = {0, 1}
  Chunks <- TwoChunks
  MaxVid = 5
  NoHash = NoHash
  Free = Free
  Tomb = Tomb
  Budgets <- ManyEdits
INVARIANTS DonorOnlyWhilePending NoUnreachableVector
CHECK_DEADLOCK FALSE
