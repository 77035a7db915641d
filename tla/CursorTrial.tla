---------------------------- MODULE CursorTrial ----------------------------
(***************************************************************************)
(* Trials of the Cursor harness (cursor_eval/runner.py, run_trial), which  *)
(* share the ledger of slots.  A trial reserves its slot, makes a          *)
(* workspace, runs an agent in it under a mutation observer, runs the      *)
(* visible tests and the verifier, grades, writes its artifacts once,      *)
(* consumes the reservation and deletes the workspace.  Any step may       *)
(* raise, which ends the call, and the process may die at any point.       *)
(* The agent of FakeCursorAdapter is a thread that survives its timeout,   *)
(* an agent may leave processes behind, and the tests and the verifier run *)
(* the code it wrote in the workspace that is then graded and recorded.    *)
(***************************************************************************)
EXTENDS ReservationLedger, SequencesExt

CONSTANT MaxWrites  \* bound of the model: changes to the files of one trial

ASSUME TrialAssumption == MaxWrites \in Nat

VARIABLES
  result,     \* "none", "running" or the adapter's execution_status
  alive,      \* is the agent (its thread or process) alive?
  stray,      \* has it, or its code, left a process behind that may write on?
  workspace,  \* its temporary directory: "absent", "live" or "deleted"
  version,    \* version of the files in it
  reads,      \* for each stage of Reading, the versions it read: one or none
  artifacts   \* its run directory: "none", "partial" or "complete"

trialVars == <<result, alive, stray, workspace, version, reads, artifacts>>
vars == <<ledgerVars, trialVars>>

Failures == {"provider_failure", "cli_failure", "timeout", "blocked"}
Results  == {"completed"} \cup Failures

Ended == {"returned", "raised", "crashed"}

Set(f, t, value) == [f EXCEPT ![t] = value]

-----------------------------------------------------------------------------
(* run_trial, between the two ledger operations.                           *)

Begin(t) ==
  /\ Go(t, "idle", "reserve")
  /\ UNCHANGED <<fileVars, lock, verdict, trialVars>>

\* mkdtemp, materialize_case, file_manifest and the observer's start.
MakeWorkspace(t) ==
  /\ Go(t, "workspace", "launch")
  /\ workspace' = Set(workspace, t, "live")
  /\ UNCHANGED <<fileVars, lock, verdict, result, alive, stray, version, reads, artifacts>>

\* The agent thread or the Cursor process starts, or the gate blocks it.
Launch(t) ==
  /\ \/ /\ Go(t, "launch", "agent")
        /\ result' = Set(result, t, "running")
        /\ alive' = Set(alive, t, TRUE)
     \/ /\ Go(t, "launch", "observe")
        /\ result' = Set(result, t, "blocked")
        /\ UNCHANGED alive
  /\ UNCHANGED <<fileVars, lock, verdict, stray, workspace, version, reads, artifacts>>

\* Each reads the workspace, and two of them then run the code in it.
Reading == [observe |-> "tests", tests |-> "testing", verify |-> "verifying",
            grade |-> "manifest", manifest |-> "write"]

Executing == [testing |-> "verify", verifying |-> "grade"]

\* A process or thread may be left behind when its parent is done.
MayLeave(t) == stray' \in {stray, Set(stray, t, TRUE)}

\* The agent, what it left behind, or its code while it is tested or verified
\* changes a file; write_text recreates a deleted directory.
Writes(t) ==
  /\ alive[t] \/ stray[t] \/ pc[t] \in DOMAIN Executing
  /\ version[t] < MaxWrites
  /\ version' = Set(version, t, version[t] + 1)
  /\ workspace' = Set(workspace, t, "live")
  /\ UNCHANGED <<ledgerVars, result, alive, stray, reads, artifacts>>

\* An agent left behind ends on its own.
AgentEnds(t) ==
  /\ alive[t] /\ pc[t] # "agent"
  /\ alive' = Set(alive, t, FALSE)
  /\ MayLeave(t)
  /\ UNCHANGED <<ledgerVars, result, workspace, version, reads, artifacts>>

\* Slip: a timeout is reported like an agent that has ended.
AgentReturnsEarly(t) ==
  /\ Go(t, "agent", "observe")
  /\ \E status \in {"completed", "provider_failure", "cli_failure"} :
       result' = Set(result, t, status)
  /\ alive' \in {alive, Set(alive, t, FALSE)}
  /\ MayLeave(t)
  /\ UNCHANGED <<fileVars, lock, verdict, workspace, version, reads, artifacts>>

\* join or communicate returns because the agent has ended.
AgentReturns(t) ==
  /\ Go(t, "agent", "observe")
  /\ \E status \in {"completed", "provider_failure", "cli_failure"} :
       result' = Set(result, t, status)
  /\ alive' = Set(alive, t, FALSE)
  /\ MayLeave(t)
  /\ UNCHANGED <<fileVars, lock, verdict, workspace, version, reads, artifacts>>

\* The CLI process is killed, and its pipes are read to their end; the fake
\* agent's thread lives on.
AgentTimesOut(t) ==
  /\ Go(t, "agent", "observe")
  /\ result' = Set(result, t, "timeout")
  /\ alive' \in {alive, Set(alive, t, FALSE)}
  /\ MayLeave(t)
  /\ UNCHANGED <<fileVars, lock, verdict, workspace, version, reads, artifacts>>

\* The communicate that follows the kill has no timeout: a descendant of the
\* CLI that holds its stdout or stderr keeps it waiting.
AgentHangs(t) ==
  /\ Go(t, "agent", "hung")
  /\ alive' = Set(alive, t, FALSE)
  /\ stray' = Set(stray, t, TRUE)
  /\ UNCHANGED <<fileVars, lock, verdict, result, workspace, version, reads, artifacts>>

-----------------------------------------------------------------------------
(* What follows the agent: observer.stop, run_visible_tests, verify_case,  *)
(* make_grader_output and the final file_manifest.                         *)

\* Slip: a trial that did not time out is behavioral.
OutcomeOfTimeout(status) ==
  IF status = "timeout" THEN "infrastructure_censored" ELSE "behavioral"

\* Slip: the status itself is recorded.
OutcomeUnclassified(status) == status

OutcomeOf(status) ==
  IF status = "completed" THEN "behavioral" ELSE "infrastructure_censored"

ReadWorkspace(t) ==
  /\ \E step \in DOMAIN Reading :
       Go(t, step, Reading[step]) /\ reads' = [reads EXCEPT ![t][step] = {version[t]}]
  /\ verdict' = IF pc[t] = "grade" THEN Set(verdict, t, OutcomeOf(result[t])) ELSE verdict
  /\ UNCHANGED <<fileVars, lock, result, alive, stray, workspace, version, artifacts>>

\* The test command or the verifier is done with the code.
CodeReturns(t) ==
  /\ \E step \in DOMAIN Executing : Go(t, step, Executing[step])
  /\ MayLeave(t)
  /\ UNCHANGED <<fileVars, lock, verdict, result, alive, workspace, version, reads, artifacts>>

\* The verifier calls the code in the trial's own thread, where an endless loop
\* never returns; a test command that is killed after its timeout is waited for
\* without one (on Windows until its pipes are closed).
CodeHangs(t) ==
  /\ \E step \in DOMAIN Executing : Go(t, step, "hung")
  /\ MayLeave(t)
  /\ UNCHANGED <<fileVars, lock, verdict, result, alive, workspace, version, reads, artifacts>>

\* write_run_artifacts: immutable.complete is the last file.
WriteArtifacts(t) ==
  /\ Go(t, "write", "consume")
  /\ artifacts' = Set(artifacts, t, "complete")
  /\ UNCHANGED <<fileVars, lock, verdict, result, alive, stray, workspace, version, reads>>

\* rmtree, whose errors are ignored; nothing waits for a live agent.
Cleanup(t) ==
  /\ Go(t, "cleanup", "returned")
  /\ workspace' \in {workspace, Set(workspace, t, "deleted")}
  /\ UNCHANGED <<fileVars, lock, verdict, result, alive, stray, version, reads, artifacts>>

-----------------------------------------------------------------------------
(* Failures.                                                               *)

\* What a call that is cut short leaves of the step it was in.
Remains(t) ==
  /\ \/ pc[t] = "workspace" /\ workspace' \in {workspace, Set(workspace, t, "live")}
     \/ pc[t] # "workspace" /\ UNCHANGED workspace
  /\ \/ pc[t] = "write" /\ \E state \in {"none", "partial", "complete"} :
                             artifacts' = Set(artifacts, t, state)
     \/ pc[t] # "write" /\ UNCHANGED artifacts
  /\ alive' \in {alive, Set(alive, t, FALSE)}
  /\ IF alive[t] \/ pc[t] \in DOMAIN Executing THEN MayLeave(t) ELSE UNCHANGED stray
  /\ UNCHANGED <<result, version, reads>>

\* run_trial has no handler for what these steps may raise: no disk space, a
\* CLI or a test command that cannot be launched, a file that is not UTF-8, ...
StepRaises(t) ==
  /\ \E step \in {"workspace", "launch", "agent", "write"}
                 \cup DOMAIN Reading \cup DOMAIN Executing :
       Go(t, step, "raised")
  /\ Remains(t)
  /\ UNCHANGED <<fileVars, lock, verdict>>

Crash(t) ==
  /\ pc[t] \notin {"idle"} \cup Ended
  /\ pc' = Set(pc, t, "crashed")
  /\ CrashLedger(t)
  /\ Remains(t)

-----------------------------------------------------------------------------

Init ==
  /\ LedgerInit
  /\ result = [t \in Trials |-> "none"]
  /\ alive = [t \in Trials |-> FALSE]
  /\ stray = [t \in Trials |-> FALSE]
  /\ workspace = [t \in Trials |-> "absent"]
  /\ version = [t \in Trials |-> 0]
  /\ reads = [t \in Trials |-> [step \in DOMAIN Reading |-> {}]]
  /\ artifacts = [t \in Trials |-> "none"]

\* The steps of the call itself.  Each returns, or is left by its failure: where
\* a call waits for others without a timeout, it may also hang.
CallStep(t) ==
  \/ LedgerStep(t) /\ UNCHANGED trialVars
  \/ MakeWorkspace(t) \/ Launch(t)
  \/ AgentReturns(t) \/ AgentTimesOut(t)
  \/ ReadWorkspace(t) \/ CodeReturns(t) \/ WriteArtifacts(t) \/ Cleanup(t)

Failure(t) ==
  \/ AcquireFails(t) /\ UNCHANGED trialVars
  \/ StepRaises(t) \/ AgentHangs(t) \/ CodeHangs(t) \/ Crash(t)

TrialStep(t) ==
  \/ Begin(t) \/ CallStep(t) \/ Failure(t) \/ Writes(t) \/ AgentEnds(t)

Next == \E t \in Trials : TrialStep(t)

\* A begun call goes on; nothing has to fail, and agents may hang.
Spec == Init /\ [][Next]_vars /\ \A t \in Trials : WF_vars(CallStep(t))

-----------------------------------------------------------------------------

TrialPoints ==
  HoldingPoints \cup Ended \cup DOMAIN Locked \cup DOMAIN Reading \cup DOMAIN Executing
  \cup {"idle", "workspace", "launch", "agent", "write", "cleanup", "hung"}

\* The variables hold values of their types.
TypeOK ==
  /\ LedgerTypeOK
  /\ pc \in [Trials -> TrialPoints]
  /\ result \in [Trials -> Results \cup {"none", "running"}]
  /\ alive \in [Trials -> BOOLEAN] /\ stray \in [Trials -> BOOLEAN]
  /\ workspace \in [Trials -> {"absent", "live", "deleted"}]
  /\ version \in [Trials -> 0..MaxWrites]
  /\ reads \in [Trials -> [DOMAIN Reading -> SUBSET (0..MaxWrites)]]
  /\ artifacts \in [Trials -> {"none", "partial", "complete"}]

-----------------------------------------------------------------------------
(* Safety.                                                                 *)

(* A slot is run at most once, whatever raised or crashed before: a        *)
(* reservation is never silently reused, even by trials that find the      *)
(* ledger between another trial's check and its append (reserve).          *)
SlotRunOnce ==
  \A t, u \in Trials :
    SlotOf[t] = SlotOf[u] /\ result[t] # "none" /\ result[u] # "none" => t = u

IsReservation(i) == lines[i].kind = "reservation"
IsConsumption(i) == lines[i].kind = "consumption"

(* Every consumption in the ledger is the only one of its reservation,     *)
(* comes after it, has the complete artifacts of a run behind it, and is   *)
(* behavioral exactly when the adapter completed: an infrastructure        *)
(* failure never counts as a behavioral one (consume, run_trial).          *)
ConsumedFaithful ==
  \A i \in 1..Len(lines) : IsConsumption(i) =>
    LET t == lines[i].trial
    IN  /\ \E j \in 1..i-1 : IsReservation(j) /\ lines[j].trial = t
        /\ \A j \in 1..i-1 : ~(IsConsumption(j) /\ lines[j].trial = t)
        /\ artifacts[t] = "complete"
        /\ lines[i].outcome = "behavioral" <=> result[t] = "completed"

(* The agent of a behavioral outcome has ended, and if nothing was left    *)
(* behind, what is recorded of its files fits together although the tests  *)
(* and the verifier run its code in between: the tests began with the      *)
(* files the observer had seen last, and the grader's diff and the final   *)
(* manifest are of one version, which nothing can change any more.         *)
BehavioralAtRest ==
  \A t \in Trials : verdict[t] = "behavioral" =>
    /\ ~alive[t]
    /\ ~stray[t] => /\ reads[t].tests = reads[t].observe
                    /\ reads[t].grade = {version[t]} /\ reads[t].manifest \subseteq {version[t]}

(* The ledger only ever grows, and once a line is torn it never changes    *)
(* again: no append can follow a check that another trial's torn append    *)
(* overtook (_append_lock, _records).                                      *)
LedgerAppendOnly ==
  [][IsPrefix(lines, lines') /\ (~Readable => UNCHANGED fileVars)]_vars

(* "Mark the reservation consumed with either behavioral success/failure   *)
(* or an infrastructure-censored status"                                   *)
(* (references/cursor-benchmark-v1-design.md:108), and a "workspace launch *)
(* failure is an infrastructure-censored result" (:137): a trial that      *)
(* raised after it had reserved its slot has consumed the reservation.     *)
RaisedTrialsConsumed ==
  \A t \in Trials :
    pc[t] = "raised" /\ workspace[t] # "absent" => Holds("consumption", t)

-----------------------------------------------------------------------------
(* Refinement.                                                             *)

TrialsOf(s) == {t \in Trials : SlotOf[t] = s}

ClaimOf(s) ==
  LET settled == {i \in 1..Len(lines) : IsConsumption(i) /\ lines[i].slot = s}
  IN  IF settled # {} THEN lines[CHOOSE i \in settled : TRUE].outcome
      ELSE IF Taken(s) THEN "claimed" ELSE "free"

RunOf(s) ==
  LET ran == {t \in TrialsOf(s) : result[t] \notin {"none", "blocked"}}
  IN  IF ran = {} THEN "none"
      ELSE LET status == result[CHOOSE t \in ran : TRUE]
           IN  IF status \in Failures THEN "failed" ELSE status

Contract == INSTANCE SlotContract WITH
  claim <- [s \in Slots |-> ClaimOf(s)], run <- [s \in Slots |-> RunOf(s)]

(* Whatever fails, the trials of a slot implement the slot's contract.     *)
ImplementsSlots == Contract!ContractSpec

-----------------------------------------------------------------------------
(* Liveness.                                                               *)

(* A trial that was begun ends, by itself or by the death of its process,  *)
(* whoever holds the lock of the ledger before it, unless it hangs at one  *)
(* of its three waits without a timeout: for the pipes of a CLI it has     *)
(* killed (adapters.py:220), for those of a test command it has killed     *)
(* (runner.py:31), or for the verifier, in spite of the 30 seconds         *)
(* registered for it (registration.py:142).                                *)
EndsOrHangs ==
  \A t \in Trials : pc[t] = "reserve" ~> pc[t] \in Ended \cup {"hung"}
=============================================================================
