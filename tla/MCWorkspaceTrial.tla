-------------------------- MODULE MCWorkspaceTrial --------------------------
(* Instances of WorkspaceTrial for TLC.  Reading costs 1 and editing 2;    *)
(* "unknown" is an action the family does not support.                     *)
EXTENDS WorkspaceTrial

MCSupported == {"inspect", "edit"}
MCActions   == MCSupported \cup {"unknown"}
MCRaising   == {"request", "edit_file"}
MCCost      == [a \in MCSupported |-> IF a = "edit" THEN 2 ELSE 1]
=============================================================================
