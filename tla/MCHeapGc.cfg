SPECIFICATION FairHeapSpec
CONSTANTS
  a = a
  b = b
  Objects = {a, b}
  HasDel = {a}
  Programs <- MCPrograms
  MaxDepth = 3
CHECK_DEADLOCK FALSE
INVARIANTS HeapConsistent ReachableIntact
PROPERTIES GarbageGoes
