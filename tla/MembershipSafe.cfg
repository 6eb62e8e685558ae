CONSTANTS
  s1 = s1  s2 = s2  s3 = s3
  Servers = {s1, s2, s3}
  None = None
  MaxCrashes = 2
SPECIFICATION Spec
INVARIANTS TypeOK YoungerSuccessor SettledLinked
PROPERTIES KeepsLiveSuccessor
SYMMETRY Symmetry
CHECK_DEADLOCK FALSE
