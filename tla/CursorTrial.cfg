SPECIFICATION Spec
CONSTANTS
  Trials <- MCRivals
  Slots <- MCSlots
  SlotOf <- MCSlotRivals
  NoOne = 0
  MaxWrites = 2
INVARIANTS
  TypeOK
  SlotRunOnce
  ConsumedFaithful
  BehavioralAtRest
PROPERTIES
  LedgerAppendOnly
  ImplementsSlots
  EndsOrHangs
CHECK_DEADLOCK FALSE
