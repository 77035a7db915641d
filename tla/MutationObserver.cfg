SPECIFICATION Spec
CONSTANTS
  NumPaths = 2
  Contents = {v, w}
  Absent = Absent
  MaxWrites = 3
SYMMETRY MCSymmetry
INVARIANTS
  EventsLeadToLastSample
  SummaryExplained
CHECK_DEADLOCK FALSE
