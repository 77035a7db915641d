SPECIFICATION Spec
CONSTANTS
  Actions <- MCActions
  Supported <- MCSupported
  Cost <- MCCost
  Raising = {"request"}
  MaxCost = 3
  MaxEvents = 2
  MaxCalls = 3
INVARIANTS
  TypeOK
  LedgerBalances
  LiveWorkspaceKept
  VerifiedAtRest
  UncensoredTraceExplainsFiles
  StopsOnce
  LateEffectsBounded
PROPERTIES
  ImplementsContract
  TrialEnds
CHECK_DEADLOCK FALSE
