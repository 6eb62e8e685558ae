CONSTANTS
  N = 3
  Start = 1
SPECIFICATION FairSpec
CHECK_DEADLOCK FALSE
INVARIANTS SettledFollows
PROPERTIES ViewFollows HeadForward
