SPECIFICATION FairSpec
CONSTANTS
  Gens = {g1, g2}
  Iters = {}
  Main = main
  Nobody = nobody
  Raised = {"error"}
  MaxBlocks = 1
  RecursionLimit = 10
PROPERTY CodeGoesOn
CHECK_DEADLOCK FALSE
