SPECIFICATION Spec
CONSTANTS
  Self = "self"
  Peer = "peer"
  Proc = {"self", "peer"}
  Doc = {1, 2}
  MaxRows = 2
  Trouble = 2
  Scale = 23826600
  Coll <- MCColl
  CollOf <- MCCollOf
  Worlds <- MCWorlds
  Limit = 2
  Typed <- MCTyped
  Lines <- MCLines
  Relevance <- MCRelevance
INVARIANTS AnswerIsExact ScoresAreNeverMixed OnlyStrictFails CacheTellsTheTruth
CHECK_DEADLOCK FALSE
