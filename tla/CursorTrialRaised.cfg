SPECIFICATION Spec
CONSTANTS
  Trials <- MCRivals
  Slots <- MCSlots
  SlotOf <- MCSlotRivals
  NoOne = 0
  MaxWrites = 0
INVARIANT
  RaisedTrialsConsumed
CHECK_DEADLOCK FALSE
