CONSTANTS
  w1 = w1  w2 = w2  k1 = k1  k2 = k2  v1 = v1
  Writers = {w1, w2}
  Readers = {}
  Keys = {k1, k2}
  Values = {v1}
  Absent = Absent
  None = None
  N = 3
  MaxUpdates = 2
  Once = {w2}
SPECIFICATION Spec
INVARIANTS TypeOK UpstreamFirst ClientOrder LoneWriterKeysConverge
           InnerLinksInStep FollowersAgree
CHECK_DEADLOCK FALSE
