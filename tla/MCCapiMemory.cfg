SPECIFICATION Spec
CONSTANTS
  p1 = p1  p2 = p2  p3 = p3  p4 = p4
  plain = plain  tuple = tuple  list = list  bytes = bytes  dict = dict  wrapper = wrapper  text = text
  Null = Null  Proxied = Proxied
  Ptrs <- MCPtrs
  Objs <- MCObjs
  Kind <- MCKind
  Items <- MCItems
  Extensions <- MCExtensions
  MaxPlaces = 2
SYMMETRY Addresses
CHECK_DEADLOCK FALSE
INVARIANTS RegistryConsistent KeptStay FreedOnce NothingLeft
