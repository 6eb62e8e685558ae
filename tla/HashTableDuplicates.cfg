CONSTANTS
  v1 = v1  v2 = v2
  Keys <- ThreeKeys
  Values = {v1, v2}
  Absent = Absent
  NLists = 2
  Strcmp <- ByteStrcmp
SPECIFICATION Spec
CONSTRAINT Short
INVARIANTS NoDuplicateKeys
