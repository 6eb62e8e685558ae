CONSTANTS
  w = w  r = r  k1 = k1  k2 = k2  v1 = v1  v2 = v2
  Writers = {w}
  Readers = {w, r}
  Keys = {k1, k2}
  Values = {v1, v2}
  Absent = Absent
  None = None
  N = 3
  MaxUpdates = 3
  Once = {}
SPECIFICATION FairSpec
INVARIANTS AckedEverywhere IdleReplicasAgree
PROPERTIES OneTable CommandsAnswered
