CONSTANTS
  N = 3
  Start = 1
  Crashes = {2, 3}
  NKeys = 2
  MaxId = 2
SPECIFICATION Spec
CHECK_DEADLOCK FALSE
INVARIANTS TypeOK UpstreamFirst CleanJoinsAgree
PROPERTIES NewerUnlessInnerDied
