SPECIFICATION Spec
CONSTANTS
  Procs = {p1, p2}
  NumFiles <- MCNumFiles
  Outcomes = {"completed", "adapter_error", "batch_error"}
  NoFile = NoFile
CHECK_DEADLOCK FALSE
INVARIANTS
  TypeOK
  DirsUnmixed
  OneSurvivor
  ManifestFaithful
PROPERTIES
  ImplementsBatch
  BatchEnds
