SPECIFICATION Spec
CONSTANTS
  Batches = {"one", "two", "unsafe", "other", "unstated"}
  Trials = {"t1", "t2", "t3"}
  Planned <- MCPlanned
  CaseSet <- MCCaseSet
  NoCaseSet = "none"
  Unsafe = {"unsafe"}
  MaxBuilds = 2
INVARIANT
  ReleaseFaithful
CHECK_DEADLOCK FALSE
