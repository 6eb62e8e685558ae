CONSTANTS
  v1 = v1  v2 = v2
  Keys <- AllKeys
  Values = {v1, v2}
  Absent = Absent
  NLists = 2
  Strcmp <- UnitSignStrcmp
SPECIFICATION Spec
INVARIANTS Sorted
PROPERTIES TableIsMap
