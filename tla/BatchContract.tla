--------------------------- MODULE BatchContract ---------------------------
(***************************************************************************)
(* What the directory of a batch is promised, whoever writes it and        *)
(* whatever fails: a run is opened once and settled at most once, and the  *)
(* one manifest states the outcomes of runs that are all settled.          *)
(***************************************************************************)
EXTENDS Naturals, Sequences

CONSTANTS
  NumTrials,  \* the planned trials are 1..NumTrials
  Outcomes    \* what a run may be settled with

VARIABLES
  run,      \* [1..NumTrials -> "none", "open" or an outcome]
  manifest  \* the outcomes of a published batch, or <<>>

contractVars == <<run, manifest>>

ContractInit ==
  /\ run = [i \in 1..NumTrials |-> "none"]
  /\ manifest = <<>>

OpenRun(i) ==
  /\ run[i] = "none"
  /\ run' = [run EXCEPT ![i] = "open"]
  /\ UNCHANGED manifest

SettleRun(i, outcome) ==
  /\ run[i] = "open"
  /\ run' = [run EXCEPT ![i] = outcome]
  /\ UNCHANGED manifest

PublishManifest ==
  /\ manifest = <<>>
  /\ \A i \in 1..NumTrials : run[i] \in Outcomes
  /\ manifest' = [i \in 1..NumTrials |-> run[i]]
  /\ UNCHANGED run

ContractNext ==
  \/ \E i \in 1..NumTrials : OpenRun(i) \/ \E o \in Outcomes : SettleRun(i, o)
  \/ PublishManifest

ContractSpec == ContractInit /\ [][ContractNext]_contractVars
=============================================================================
