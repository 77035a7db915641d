SPECIFICATION Spec
CONSTANTS
  Actions = {"read", "edit", "deploy"}
  Supported = {"read", "edit"}
  Cost <- MCCost
  MaxCost = 3
  MaxEvents = 2
  MaxCalls = 3
INVARIANTS
  TypeOK
  TraceIsWhatWasTold
  AnnotationsTrue
PROPERTY
  ImplementsContract
CHECK_DEADLOCK FALSE
