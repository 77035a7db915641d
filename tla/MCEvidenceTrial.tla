-------------------------- MODULE MCEvidenceTrial --------------------------
(* An instance of EvidenceTrial for TLC: an edit costs two of three, and an *)
(* action is asked for that the case does not support.                      *)
EXTENDS EvidenceTrial

MCCost == [read |-> 1, edit |-> 2]
=============================================================================
