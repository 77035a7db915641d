SPECIFICATION Spec
CONSTANTS
  Actions <- MCSupported
  Supported <- MCSupported
  Cost <- MCCost
  Raising <- MCRaising
  MaxCost = 3
  MaxEvents = 2
  MaxCalls = 3
INVARIANT
  ChargesTraced
CHECK_DEADLOCK FALSE
