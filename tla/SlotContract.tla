---------------------------- MODULE SlotContract ----------------------------
(***************************************************************************)
(* What a registered trial slot is promised, whoever runs it and whatever  *)
(* fails: it is claimed once, its agent is run at most once, and it is     *)
(* settled at most once, with the outcome class of that run.               *)
(***************************************************************************)
CONSTANT Slots

VARIABLES
  claim,  \* [Slots -> "free", "claimed" or the outcome class it is settled with]
  run     \* [Slots -> "none", "running", "completed" or "failed"]

contractVars == <<claim, run>>

ContractInit ==
  /\ claim = [s \in Slots |-> "free"]
  /\ run = [s \in Slots |-> "none"]

ClaimSlot(s) ==
  /\ claim[s] = "free"
  /\ claim' = [claim EXCEPT ![s] = "claimed"]
  /\ UNCHANGED run

StartRun(s) ==
  /\ claim[s] = "claimed" /\ run[s] = "none"
  /\ run' = [run EXCEPT ![s] = "running"]
  /\ UNCHANGED claim

EndRun(s) ==
  /\ run[s] = "running"
  /\ run' \in {[run EXCEPT ![s] = "completed"], [run EXCEPT ![s] = "failed"]}
  /\ UNCHANGED claim

\* A slot whose agent never ran is settled like one whose run failed.
Settle(s) ==
  /\ claim[s] = "claimed" /\ run[s] # "running"
  /\ claim' = [claim EXCEPT ![s] =
                 IF run[s] = "completed" THEN "behavioral" ELSE "infrastructure_censored"]
  /\ UNCHANGED run

ContractNext ==
  \E s \in Slots : ClaimSlot(s) \/ StartRun(s) \/ EndRun(s) \/ Settle(s)

ContractSpec == ContractInit /\ [][ContractNext]_contractVars
=============================================================================
