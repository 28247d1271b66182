SPECIFICATION UnmixedSpec
CONSTANTS
  k1 = k1  k2 = k2  k3 = k3  k4 = k4
  Keys = {k1, k2, k3, k4}
  Vals = {v1, v2}
  Hashes <- MCHashes
  LookupHash <- MCLookupHash
  CallerHashes <- MCCallerHashes
  TableSizes = {4, 8, 16}
  MinTableSize = 4
  MaxPerturbRounds = 14
  Probe <- MCProbe
CHECK_DEADLOCK FALSE
INVARIANTS TypeOK SlotsMatchEntries LookupExact CountersExact
PROPERTIES ImplementsOrderedMap CallReturns
