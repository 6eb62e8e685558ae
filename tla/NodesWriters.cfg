CONSTANTS
  v1 = v1
  t1 = t1  t2 = t2
  n1 = n1  n2 = n2  n3 = n3  n4 = n4
  Keys <- ThreeKeys
  Values = {v1}
  Writers = {t1, t2}
  Readers = {}
  Ops = {"put", "del"}
  Nodes = {n1, n2, n3, n4}
  Absent = Absent  Null = Null  Freed = Freed
  NLists = 2
  Strcmp <- UnitSignStrcmp
SYMMETRY Symmetry
SPECIFICATION Spec
INVARIANTS TypeOK WriterDefined WellLinked
PROPERTIES NodesImplementTable
