---------------------------- MODULE PilotBatch ----------------------------
(***************************************************************************)
(* A pilot batch (evidence_eval/pilot.py, run_pilot_batch): refuse a batch *)
(* identifier that was used before, run the planned trials one by one,     *)
(* each of which writes its run directory, record a trial that raises with *)
(* a directory of its own, and write the manifest last.  A batch may be    *)
(* started again, or twice at the same time, in another process; a process *)
(* may die, and a disk may be full, at any point.                          *)
(***************************************************************************)
EXTENDS ArtifactStore

\* The batch's own directory comes after those of the trials.
Batch == Len(NumFiles)
NumTrials == Batch - 1

ASSUME BatchAssumption ==
  /\ Len(NumFiles) > 1
  /\ "batch_error" \in Outcomes

VARIABLES
  pc,       \* where each process is
  index,    \* the directory it is at
  file,     \* the next file it writes there
  record,   \* what it writes there
  results   \* the outcomes it has collected

procVars == <<pc, index, file, record, results>>
vars == <<storeVars, procVars>>

Ended == {"refused", "aborted", "failed", "crashed", "done"}

Set(f, p, value) == [f EXCEPT ![p] = value]

Go(p, from, to) == pc[p] = from /\ pc' = Set(pc, p, to)

-----------------------------------------------------------------------------

\* The batch directory must not exist; the registration may also be refused.
Begin(p) ==
  /\ \/ Batch \notin dirs /\ Go(p, "idle", "precheck")
     \/ Go(p, "idle", "refused")
  /\ UNCHANGED <<storeVars, index, file, record, results>>

\* Neither must any run directory of the plan.
Precheck(p) ==
  /\ \/ /\ Go(p, "precheck", "precheck")
        /\ index[p] < Batch /\ index[p] \notin dirs
        /\ index' = Set(index, p, index[p] + 1)
     \/ /\ Go(p, "precheck", "refused")
        /\ index[p] < Batch /\ index[p] \in dirs
        /\ UNCHANGED index
     \/ /\ Go(p, "precheck", "trial")
        /\ index[p] = Batch
        /\ index' = Set(index, p, 1)
  /\ UNCHANGED <<storeVars, file, record, results>>

\* run_workspace_trial up to its artifacts, or _batch_failure_record for what
\* it raised before them.
RunTrial(p) ==
  /\ Go(p, "trial", "mkdir")
  /\ \E outcome \in Outcomes : record' = Set(record, p, <<outcome>>)
  /\ file' = Set(file, p, 1)
  /\ UNCHANGED <<storeVars, index, results>>

MakePlace(p) ==
  /\ Go(p, "mkdir", "create")
  /\ MakeDir(index[p])
  /\ UNCHANGED <<index, file, record, results>>

CreateFile(p) ==
  /\ Go(p, "create", "write")
  /\ Create(p, index[p], file[p], record[p])
  /\ UNCHANGED <<index, file, record, results>>

\* Slip: a file that is already there is as good as one's own.
FindFileSkips(p) ==
  /\ Go(p, "create", "record")
  /\ Exists(index[p], file[p])
  /\ UNCHANGED <<storeVars, index, file, record, results>>

\* Slip: a file that is already there is waited for.
FindFileWaits(p) ==
  /\ pc[p] = "create"
  /\ Exists(index[p], file[p])
  /\ UNCHANGED vars

\* ArtifactExistsError ends the batch, from a trial and from the handler.
FindFile(p) ==
  /\ Go(p, "create", "aborted")
  /\ Exists(index[p], file[p])
  /\ UNCHANGED <<storeVars, index, file, record, results>>

\* Slip: one file more than the directory gets.
WriteFileMore(p) ==
  /\ Go(p, "write", "create")
  /\ Close(index[p], file[p])
  /\ file' = Set(file, p, file[p] + 1)
  /\ UNCHANGED <<index, record, results>>

WriteFile(p) ==
  /\ \/ /\ Go(p, "write", "create")
        /\ file[p] < NumFiles[index[p]]
        /\ file' = Set(file, p, file[p] + 1)
     \/ /\ Go(p, "write", "record")
        /\ file[p] = NumFiles[index[p]]
        /\ UNCHANGED file
  /\ Close(index[p], file[p])
  /\ UNCHANGED <<index, record, results>>

\* Slip: a trial without a result of its own is left out.
CollectedOmitting(p) ==
  IF record[p][1] = "batch_error" THEN results[p] ELSE Append(results[p], record[p][1])

\* results.append(_result_summary(trial, record))
Collected(p) == Append(results[p], record[p][1])

\* The result is appended and the next trial begins, or the manifest is made.
Record(p) ==
  /\ pc[p] = "record"
  /\ \/ /\ index[p] < NumTrials
        /\ pc' = Set(pc, p, "trial")
        /\ index' = Set(index, p, index[p] + 1)
        /\ results' = Set(results, p, Collected(p))
        /\ UNCHANGED <<file, record>>
     \/ /\ index[p] = NumTrials
        /\ pc' = Set(pc, p, "mkdir")
        /\ index' = Set(index, p, Batch)
        /\ results' = Set(results, p, Collected(p))
        /\ record' = Set(record, p, results'[p])
        /\ file' = Set(file, p, 1)
     \/ /\ index[p] = Batch
        /\ pc' = Set(pc, p, "done")
        /\ UNCHANGED <<index, file, record, results>>
  /\ UNCHANGED storeVars

-----------------------------------------------------------------------------
(* Failures.                                                               *)

\* Slip: the failure record leaves its first file to the trial.
WriteRaisesLater(p) ==
  /\ pc[p] \in {"mkdir", "create", "write"}
  /\ index[p] # Batch
  /\ pc' = Set(pc, p, "create")
  /\ file' = Set(file, p, NumFiles[index[p]])
  /\ record' = Set(record, p, <<"batch_error">>)
  /\ UNCHANGED <<storeVars, index, results>>

\* A full disk, or a response that cannot be encoded.  A trial that raises gets
\* a failure record; what fails in that, or in the manifest, ends the batch.
WriteRaises(p) ==
  /\ pc[p] \in {"mkdir", "create", "write"}
  /\ \/ /\ index[p] # Batch /\ record[p] # <<"batch_error">>
        /\ pc' = Set(pc, p, "mkdir")
        /\ file' = Set(file, p, 1)
        /\ record' = Set(record, p, <<"batch_error">>)
     \/ /\ index[p] = Batch \/ record[p] = <<"batch_error">>
        /\ pc' = Set(pc, p, "failed")
        /\ UNCHANGED <<file, record>>
  /\ UNCHANGED <<storeVars, index, results>>

Crash(p) ==
  /\ pc[p] \notin {"idle"} \cup Ended
  /\ pc' = Set(pc, p, "crashed")
  /\ UNCHANGED <<storeVars, index, file, record, results>>

-----------------------------------------------------------------------------

Init ==
  /\ StoreInit
  /\ pc = [p \in Procs |-> "idle"]
  /\ index = [p \in Procs |-> 1]
  /\ file = [p \in Procs |-> 1]
  /\ record = [p \in Procs |-> <<>>]
  /\ results = [p \in Procs |-> <<>>]

BatchStep(p) ==
  \/ Precheck(p) \/ RunTrial(p) \/ MakePlace(p) \/ CreateFile(p) \/ FindFile(p)
  \/ WriteFile(p) \/ Record(p)

Step(p) == Begin(p) \/ BatchStep(p) \/ WriteRaises(p) \/ Crash(p)

Next == \E p \in Procs : Step(p)

\* A begun batch goes on: each of its trials ends.
Spec == Init /\ [][Next]_vars /\ \A p \in Procs : WF_vars(BatchStep(p))

-----------------------------------------------------------------------------

\* The variables hold values of their types.
TypeOK ==
  /\ StoreTypeOK
  /\ pc \in [Procs -> {"idle", "precheck", "trial", "mkdir", "create", "write", "record"}
                        \cup Ended]
  /\ index \in [Procs -> Places]
  /\ file \in [Procs -> Nat]
  /\ \A p \in Procs :
       pc[p] \in {"mkdir", "create", "write"} => file[p] \in Files(index[p])
  /\ record \in [Procs -> Seq(Outcomes)]
  /\ results \in [Procs -> Seq(Outcomes)]

-----------------------------------------------------------------------------
(* Safety.                                                                 *)

(* A directory is never a mixture: all its files are of one writer and     *)
(* tell the same outcome, though both processes found the directory        *)
(* missing, and though a failed trial gets a second record                 *)
(* (write_once, _batch_failure_record).                                    *)
DirsUnmixed ==
  \A d \in Places : \A m, n \in Files(d) :
    Exists(d, m) /\ Exists(d, n) =>
      store[d][m].by = store[d][n].by /\ store[d][m].content = store[d][n].content

(* Of several processes with one batch identifier at most one gets a       *)
(* result for the first trial: nobody else goes on with the plan, though   *)
(* all of them found it unused (run_pilot_batch).                          *)
OneSurvivor ==
  \A p, q \in Procs : results[p] # <<>> /\ results[q] # <<>> => p = q

(* A manifest states the outcome of every planned trial, as its run        *)
(* directory tells it, which is complete and of the same process.          *)
ManifestFaithful ==
  Exists(Batch, 1) =>
    LET manifest == store[Batch][1]
    IN  /\ Len(manifest.content) = NumTrials
        /\ \A i \in 1..NumTrials : \A n \in Files(i) :
             /\ Exists(i, n)
             /\ store[i][n] = [by |-> manifest.by, content |-> <<manifest.content[i]>>,
                               state |-> "closed"]

(* "Continue to the next registered trial after an infrastructure-censored *)
(* or behavioral failure. Do not retry, replace, or silently omit a failed *)
(* trial." (specs/model-pilot-batch.md:49): the artifact that makes a      *)
(* batch give up at a trial is another's.                                  *)
AbortedByOthers ==
  \A p \in Procs :
    pc[p] = "aborted" => store[index[p]][file[p]].by # p

-----------------------------------------------------------------------------
(* Refinement and liveness.                                                *)

RunOf(i) ==
  IF Complete(i) THEN store[i][1].content[1]
  ELSE IF \E n \in Files(i) : Exists(i, n) THEN "open" ELSE "none"

ManifestOf ==
  IF Exists(Batch, 1) /\ store[Batch][1].state = "closed" THEN store[Batch][1].content ELSE <<>>

Contract == INSTANCE BatchContract WITH
  run <- [i \in 1..NumTrials |-> RunOf(i)], manifest <- ManifestOf

(* Whoever writes and whatever fails, the directories keep the contract.   *)
ImplementsBatch == Contract!ContractSpec

(* A batch that was begun ends.                                            *)
BatchEnds == \A p \in Procs : pc[p] = "precheck" ~> pc[p] \in Ended
=============================================================================
