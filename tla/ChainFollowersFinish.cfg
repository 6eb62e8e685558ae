CONSTANTS
  w1 = w1  w2 = w2  k1 = k1    v1 = v1
  Writers = {w1, w2}
  Readers = {}
  Keys = {k1}
  Values = {v1}
  Absent = Absent
  None = None
  N = 4
  MaxUpdates = 1
  Once = {}
SPECIFICATION FairSpec
PROPERTIES FollowersFinish
CHECK_DEADLOCK FALSE
