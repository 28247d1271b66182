SPECIFICATION FairWasmSpec
CONSTANTS
  Names = {n1}
  Modules = {m1}
  Timeouts = {4, 5, 12, 13}
  MinTimeout = 5
  MaxTimeout = 12
  DefaultTimeout = 7
  MaxDepth = 3
  MaxEpoch = 2
INVARIANTS RuntimeConsistent VmCurrent DeadlineNotSwallowed
PROPERTIES ExecutionEnds
