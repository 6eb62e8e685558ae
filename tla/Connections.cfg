CONSTANTS
  c1 = c1  c2 = c2
  Conns = {c1, c2}
  None = None
  Sucessor = "up"
  MaxRequests = 2
SPECIFICATION FairSpec
CHECK_DEADLOCK FALSE
INVARIANTS TypeOK CountsExact StatsExact OwnWorkCounted DiesOnlyOfFailures
 
