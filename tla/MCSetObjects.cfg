SPECIFICATION ObjSpec
CONSTANTS
  va = va  vb = vb  vc = vc  vd = vd  h1 = h1  NoHash = NoHash
  Values <- MCValues
  Hashes = {h1}
  HashOf <- MCHashOf
  Class <- MCClass
  MaxEqDepth = 2
  MaxMembers = 3
INVARIANTS SetConsistent
PROPERTIES ImplementsSet RemovesItsValue ImplementsClasses
