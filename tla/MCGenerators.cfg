SPECIFICATION Spec
CONSTANTS
  Gens = {g1, g2}
  Iters = {it}
  Main = main
  Nobody = nobody
  Raised = {"GeneratorExit", "error"}
  MaxBlocks = 1
  RecursionLimit = 10
SYMMETRY Symmetry
INVARIANTS FramesConsistent ResumesNested
