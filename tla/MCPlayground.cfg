SPECIFICATION FairSpec
CONSTANTS
  MaxCommands = 4
  Retries = 2
  MaxRequests = 19
CHECK_DEADLOCK FALSE
INVARIANTS PageConsistent  PromptAgrees
 
