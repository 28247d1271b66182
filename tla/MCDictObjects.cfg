SPECIFICATION Spec
CONSTANTS
  ka = ka
  kb = kb
  kc = kc
  h1 = h1
  h2 = h2
  h3 = h3
  Keys <- MCKeys
  Hashes <- MCHashes
  Class <- MCClass
  RuntimeHash <- MCRuntimeHash
  LookupHash <- MCLookupHash
  Vals = {1, 2}
  NoVal = NoVal
  MaxDepth = 2
  MaxEntries = 3
SYMMETRY Symmetry
INVARIANTS DictConsistent
PROPERTIES CallsHitTheirKey ImplementsDict
