CONSTANTS
  MaxCards = 4
  MaxOther = 3
  Room = 4
SPECIFICATION FairSpec
INVARIANTS CardOnTop SettledStatus NoStaleMount
PROPERTIES EventuallyMounted
CHECK_DEADLOCK FALSE
