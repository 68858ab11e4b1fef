SPECIFICATION FairSpec
CONSTANTS
  Req = {"r1", "r2"}
  Handle = {"h1"}
  MaxGen = 2
  Trouble = 1
  Nobody = "nobody"
INVARIANTS FreshAnswers ModelIsUsable
PROPERTIES IdleSparesCalls EverythingEnds
CHECK_DEADLOCK FALSE
