CONSTANTS
  v1 = v1  v2 = v2
  t1 = t1  t2 = t2
  n1 = n1  n2 = n2  n3 = n3
  Keys <- TwoKeys
  Values = {v1, v2}
  Writers = {t1}
  Readers = {t2}
  Ops = {"put", "del", "get", "size", "getkeys", "gettable"}
  Nodes = {n1, n2, n3}
  Absent = Absent  Null = Null  Freed = Freed
  NLists = 2
  Strcmp <- UnitSignStrcmp
SPECIFICATION ReadersRun
INVARIANTS GetReturnsWritten CalmAnswersExact
PROPERTIES ReadersReturn
