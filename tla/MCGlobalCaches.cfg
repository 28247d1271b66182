SPECIFICATION Spec
CONSTANTS
  A = A
  B = B
  Modules = {A, B}
  Values = {v1}
  Absent = Absent
  Programs <- MCPrograms
  OneArg = {"f", "f2"}
  Loads = {"f", "g", "m", "body"}
  Gens = {g1}
  MaxDepth = 3
  PoolMax = 1
  MaxWrites = 2
INVARIANTS HitsCurrent PoolsConsistent
