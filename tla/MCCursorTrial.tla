--------------------------- MODULE MCCursorTrial ---------------------------
(* Instances of CursorTrial for TLC: two trials compete for slot "a".      *)
EXTENDS CursorTrial

MCSlots      == {"a", "b"}
MCRivals     == {1, 2}
MCSlotRivals == [t \in MCRivals |-> "a"]
=============================================================================
