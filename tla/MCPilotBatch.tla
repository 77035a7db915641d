---------------------------- MODULE MCPilotBatch ----------------------------
(* Instances of PilotBatch for TLC: three trials. *)
EXTENDS PilotBatch

MCNumFiles == <<3, 2, 2, 2>>
=============================================================================
