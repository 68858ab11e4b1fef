SPECIFICATION Spec
CONSTANTS
  Doc = {"d1", "d2"}
  Coll = {"c1", "c2"}
  CollOf <- TwoColls
  Excluded = {}
  Hash = {"a", "b"}
  Blank = {}
  Fp = {"f1", "f2"}
  Seq = {0, 1}
  Chunks <- TwoChunks
  MaxVid = 8
  NoHash = NoHash
  Free = Free
  Tomb = Tomb
  Budgets <- TwoStores
INVARIANTS TypeOK NoWrongVector DoneIsSearchable
CHECK_DEADLOCK FALSE
