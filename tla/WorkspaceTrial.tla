--------------------------- MODULE WorkspaceTrial ---------------------------
(***************************************************************************)
(* One workspace trial (evidence_eval/workspace_runner.py,                 *)
(* run_workspace_trial): the runner's thread waits for the adapter thread  *)
(* of WorkspaceSession with a timeout, closes the session, copies the      *)
(* trace, verifies the workspace or censors the trial, publishes the       *)
(* artifacts and deletes the workspace.  After a timeout the adapter       *)
(* thread may still be alive, and its last call still in flight.           *)
(***************************************************************************)
EXTENDS WorkspaceSession, FiniteSetsExt

VARIABLES
  rpc,        \* where the runner's thread is
  result,     \* result.status
  deferred,   \* cleanup_deferred
  workspace,  \* the temporary directory: "absent", "live" or "deleted"
  record,     \* what the runner has read so far for its artifacts
  published   \* the run's artifacts once they are written, or NoRun

runnerVars == <<rpc, result, deferred, workspace, record, published>>
vars == <<svars, runnerVars>>

NoRun == [run |-> "none"]

\* Versions read by the observer, the verifier and file_manifest; the
\* trace is a prefix of events, because the copied list shares its elements.
EmptyRecord ==
  [observed |-> NoVersion, verified |-> NoVersion, manifest |-> NoVersion,
   status |-> "none", remaining |-> 0, traced |-> FALSE, length |-> 0,
   checkpoints |-> 0]

RunnerGo(from, to) == rpc = from /\ rpc' = to

Alive == wpc \notin {"unborn", "dead"}

-----------------------------------------------------------------------------

\* mkdtemp, materialize_variant, channel registration and Thread.start.
Setup ==
  /\ RunnerGo("setup", "join")
  /\ workspace' = "live"
  /\ channel' = TRUE
  /\ wpc' = "ready"
  /\ UNCHANGED <<sessionVars, disk, call, calls, outcome,
                 result, deferred, record, published>>

\* The workspace cannot be made or filled.
SetupError ==
  /\ RunnerGo("setup", "finally")
  /\ workspace' \in {"absent", "live"}
  /\ UNCHANGED <<svars, result, deferred, record, published>>

\* join returns because the adapter thread has ended.
JoinFinished ==
  /\ RunnerGo("join", "stop")
  /\ ~Alive
  /\ result' = outcome
  /\ UNCHANGED <<svars, deferred, workspace, record, published>>

\* join times out and is_alive() is true.
JoinTimeout ==
  /\ RunnerGo("join", "terminate")
  /\ Alive
  /\ result' = "adapter_timeout"
  /\ UNCHANGED <<svars, deferred, workspace, record, published>>

\* Slip: a timed-out trial is recorded without stopping its session.
TerminateUnsealed ==
  /\ RunnerGo("terminate", "observe")
  /\ deferred' = Alive
  /\ UNCHANGED <<svars, result, workspace, record, published>>

\* Slip: the second join has no timeout.
TerminateUntimed ==
  /\ RunnerGo("terminate", "stop")
  /\ ~Alive
  /\ UNCHANGED <<svars, result, deferred, workspace, record, published>>

\* After the termination hook and the second join.
Terminate ==
  /\ RunnerGo("terminate", "stop")
  /\ deferred' = Alive
  /\ UNCHANGED <<svars, result, workspace, record, published>>

\* session.stop, called for a timeout, an error or a session left active;
\* a session the adapter has stopped or exhausted passes through.
RunnerStopGuard ==
  /\ rpc = "stop"
  /\ rpc' = IF MayStop THEN "stop_set" ELSE "seal"
  /\ UNCHANGED <<svars, result, deferred, workspace, record, published>>

RunnerStopSet ==
  /\ RunnerGo("stop_set", "stop_event")
  /\ status' = "stopped"
  /\ UNCHANGED <<remaining, sealed, events, checkpoints, disk, channel, threadVars,
                 result, deferred, workspace, record, published>>

RunnerStopEvent ==
  /\ RunnerGo("stop_event", "seal")
  /\ Log(Event("stop", "runner", "none"))
  /\ UNCHANGED <<remaining, status, sealed, checkpoints, disk, channel, threadVars,
                 result, deferred, workspace, record, published>>

Seal ==
  /\ RunnerGo("seal", "pop")
  /\ sealed' = TRUE
  /\ UNCHANGED <<remaining, status, events, checkpoints, disk, channel, threadVars,
                 result, deferred, workspace, record, published>>

CloseChannel ==
  /\ RunnerGo("pop", "observe")
  /\ channel' = FALSE
  /\ UNCHANGED <<sessionVars, disk, threadVars,
                 result, deferred, workspace, record, published>>

\* observer.stop(): the final manifest of mutation_observer.json.
ObserveStop ==
  /\ RunnerGo("observe", "trace_state")
  /\ record' = [record EXCEPT !.observed = disk]
  /\ UNCHANGED <<svars, result, deferred, workspace, published>>

\* to_record(), in the order its fields are evaluated.
TraceState ==
  /\ RunnerGo("trace_state", "trace_events")
  /\ record' = [record EXCEPT !.status = status, !.remaining = remaining]
  /\ UNCHANGED <<svars, result, deferred, workspace, published>>

TraceEvents ==
  /\ RunnerGo("trace_events", "trace_checkpoints")
  /\ record' = [record EXCEPT !.traced = TRUE, !.length = Len(events)]
  /\ UNCHANGED <<svars, result, deferred, workspace, published>>

TraceCheckpoints ==
  /\ RunnerGo("trace_checkpoints", "verify")
  /\ record' = [record EXCEPT !.checkpoints = checkpoints]
  /\ UNCHANGED <<svars, result, deferred, workspace, published>>

\* Slip: only errors censor the verification.
CensoredErrors == result = "adapter_error"

\* verification_censored; a timed-out trial always has status adapter_timeout.
Censored == result \in {"adapter_timeout", "adapter_error"}

VerifyOrCensor ==
  /\ RunnerGo("verify", "manifest")
  /\ record' = [record EXCEPT !.verified = IF Censored THEN NoVersion ELSE disk]
  /\ UNCHANGED <<svars, result, deferred, workspace, published>>

FinalManifest ==
  /\ RunnerGo("manifest", "publish")
  /\ record' = [record EXCEPT !.manifest = disk]
  /\ UNCHANGED <<svars, result, deferred, workspace, published>>

Publish ==
  /\ RunnerGo("publish", "finally")
  /\ published' = [run |-> result, censored |-> Censored, deferred |-> deferred,
                   record |-> record, trace |-> SubSeq(events, 1, record.length)]
  /\ UNCHANGED <<svars, result, deferred, workspace, record>>

\* The observer does not stop, a manifest cannot be read, or the run's
\* artifacts exist already: the trial raises without a record.
TrialError ==
  /\ rpc \in {"observe", "manifest", "publish"}
  /\ rpc' = "finally"
  /\ UNCHANGED <<svars, result, deferred, workspace, record, published>>

\* Slip: the workspace is always deleted.
CleanupAlways ==
  /\ RunnerGo("finally", "done")
  /\ channel' = FALSE
  /\ IF workspace = "live" THEN workspace' \in {"deleted", "live"}
     ELSE UNCHANGED workspace
  /\ UNCHANGED <<sessionVars, disk, threadVars, result, deferred, record, published>>

\* The finally clause; rmtree may fail silently.
Cleanup ==
  /\ RunnerGo("finally", "done")
  /\ channel' = FALSE
  /\ IF workspace = "live" /\ ~deferred
     THEN workspace' \in {"deleted", "live"}
     ELSE UNCHANGED workspace
  /\ UNCHANGED <<sessionVars, disk, threadVars, result, deferred, record, published>>

-----------------------------------------------------------------------------

Init ==
  /\ SessionInit
  /\ rpc = "setup"
  /\ result = "none"
  /\ deferred = FALSE
  /\ workspace = "absent"
  /\ record = EmptyRecord
  /\ published = NoRun

RunnerStep ==
  \/ Setup \/ SetupError
  \/ JoinFinished \/ JoinTimeout \/ Terminate
  \/ RunnerStopGuard \/ RunnerStopSet \/ RunnerStopEvent
  \/ Seal \/ CloseChannel \/ ObserveStop
  \/ TraceState \/ TraceEvents \/ TraceCheckpoints
  \/ VerifyOrCensor \/ FinalManifest
  \/ Publish \/ TrialError \/ Cleanup

Next ==
  \/ RunnerStep
  \/ AdapterStep /\ UNCHANGED runnerVars

\* Only the runner is fair: an adapter may hang for ever.
Spec == Init /\ [][Next]_vars /\ WF_vars(RunnerStep)

-----------------------------------------------------------------------------

RunnerPoints ==
  {"setup", "join", "terminate", "stop", "stop_set", "stop_event", "seal", "pop",
   "observe", "trace_state", "trace_events", "trace_checkpoints", "verify",
   "manifest", "publish", "finally", "done"}

RecordType ==
  [observed : Nat, verified : Nat, manifest : Nat,
   status : {"none", "active", "stopped", "event_limit"}, remaining : Nat,
   traced : BOOLEAN, length : Nat, checkpoints : Nat]

RunType ==
  [run : Outcomes, censored : BOOLEAN, deferred : BOOLEAN,
   record : RecordType, trace : Seq(EventType)]

\* The variables hold values of their types.
TypeOK ==
  /\ SessionTypeOK
  /\ rpc \in RunnerPoints
  /\ result \in Outcomes \cup {"none"}
  /\ deferred \in BOOLEAN
  /\ workspace \in {"absent", "live", "deleted"}
  /\ record \in RecordType
  /\ published \in RunType \cup {NoRun}

-----------------------------------------------------------------------------
(* Safety.                                                                 *)

\* What the call in flight has been charged and has not yet logged.
InFlight == IF wpc \in {"perform", "accept"} THEN Cost[call.action] ELSE 0

IsAction(e) == e.kind = "action"

PaidBefore(trace, j) == {i \in 1..j-1 : IsAction(trace[i])}

\* The balance a trace shows before position j.
Balance(trace, j) ==
  LET paid == PaidBefore(trace, j)
  IN  IF paid = {} THEN MaxCost ELSE trace[Max(paid)].remaining

\* A call that raised is charged and not shown.
Matches(charged, shown) == charged = shown \/ (Raising # {} /\ charged <= shown)

(* The remaining_cost printed in each accepted action is the previous one  *)
(* less its own cost, from max_cost down, and the session's counter is     *)
(* always the last printed balance less the call in flight: a reservation  *)
(* that is refused, fails or races the runner is refunded exactly once     *)
(* (_reserve, _refund, _accepted).  Where a tool may raise, the counter    *)
(* may only be lower than that.                                            *)
LedgerBalances ==
  /\ \A j \in 1..Len(events) :
       IsAction(events[j]) =>
         Matches(events[j].remaining + Cost[events[j].action], Balance(events, j))
  /\ Matches(remaining + InFlight, Balance(events, Len(events) + 1))

(* The workspace is never deleted under a live adapter thread: README's    *)
(* "retained rather than being deleted while an in-process adapter may     *)
(* still be running" (cleanup_deferred).                                   *)
LiveWorkspaceKept == workspace = "deleted" => ~Alive

(* The verifier only ever reads a workspace nobody can change any more:    *)
(* the adapter thread is dead and the version it verified is still the one *)
(* on disk and the one in the final manifest.                              *)
VerifiedAtRest ==
  record.verified # NoVersion =>
    /\ ~Alive
    /\ record.verified = disk
    /\ record.observed = disk
    /\ record.manifest \in {NoVersion, disk}

IsEdit(e) == IsAction(e) /\ e.action = "edit"

EditsBefore(trace, j) == {i \in 1..j-1 : IsEdit(trace[i])}

\* The version of the files a trace shows before position j.
Version(trace, j) ==
  LET edits == EditsBefore(trace, j)
  IN  IF edits = {} THEN NoVersion + 1 ELSE trace[Max(edits)].after

CheckpointsOf(trace) == {i \in 1..Len(trace) : trace[i].kind = "checkpoint"}

(* An uncensored run's artifacts explain each other: its trace holds every *)
(* event of the session, and unless a write failed (which the trace shows) *)
(* or raised (which it does not), the hashes of its edits lead from the    *)
(* materialized files to the final manifest.                               *)
UncensoredTraceExplainsFiles ==
  published # NoRun /\ ~published.censored =>
    LET trace == published.trace
    IN  /\ trace = events
        /\ published.record.remaining = remaining
        /\ published.record.checkpoints = Cardinality(CheckpointsOf(trace))
        /\ \/ "edit_file" \in Raising
           \/ \E i \in 1..Len(trace) : trace[i].error = "write_failed"
           \/ /\ \A i \in 1..Len(trace) :
                   IsEdit(trace[i]) => trace[i].before = Version(trace, i)
              /\ Version(trace, Len(trace) + 1) = published.record.manifest

IsStop(e) == e.kind = "stop"

StopsBy(who) == {i \in 1..Len(events) : IsStop(events[i]) /\ events[i].action = who}

(* stop tests, assigns and appends in three steps, in either thread:       *)
(* whatever the race, no thread stops the session twice and no run is      *)
(* published whose session was active.  An uncensored run has exactly one  *)
(* stop event, or none when the event limit ended it, and nothing is       *)
(* accepted after it.                                                      *)
StopsOnce ==
  /\ \A who \in {"adapter", "runner"} : \A i, j \in StopsBy(who) : i = j
  /\ published # NoRun => published.record.status # "active"
  /\ published # NoRun /\ ~published.censored =>
       LET trace == published.trace
           stops == {i \in 1..Len(trace) : IsStop(trace[i])}
       IN  /\ stops = {} <=> published.record.status = "event_limit"
           /\ \A i, j \in stops : i = j
           /\ \A i \in stops, j \in 1..Len(trace) :
                j > i => trace[j].kind = "rejected_action"

(* A hung adapter's late effects are bounded: after the trace was copied   *)
(* at most the one call in flight logs an event or writes the workspace.   *)
LateEffectsBounded ==
  record.traced => /\ Len(events) <= record.length + 1
                   /\ disk <= record.observed + 1

(* "Existing parent event traces remain the source of truth for accepted,  *)
(* rejected, and failed workspace actions"                                 *)
(* (specs/multi-tool-call-provider-rounds.md:43): what a run has spent is  *)
(* what its trace says was spent.                                          *)
ChargesTraced ==
  published # NoRun /\ ~published.censored =>
    published.record.remaining = Balance(published.trace, Len(published.trace) + 1)

-----------------------------------------------------------------------------
(* Refinement.                                                             *)

\* The accepted actions of a trace, as the contract's ledger.
Ledger(trace) ==
  LET upTo[n \in 0..Len(trace)] ==
        IF n = 0 THEN <<>>
        ELSE IF IsAction(trace[n])
             THEN Append(upTo[n - 1],
                         [action |-> trace[n].action, remaining |-> trace[n].remaining])
             ELSE upTo[n - 1]
  IN  upTo[Len(trace)]

\* A call past its guard may still be accepted after the session is sealed.
Phase ==
  IF ~sealed THEN "open"
  ELSE IF wpc \in {"bound", "charge", "perform", "accept"} THEN "closing" ELSE "closed"

Claim ==
  IF published = NoRun THEN [kind |-> "none", ledger |-> <<>>]
  ELSE [kind   |-> IF published.censored THEN "censored" ELSE "certified",
        ledger |-> Ledger(published.trace)]

Contract == INSTANCE TrialContract WITH
  Kinds <- Supported, Price <- Cost, Budget <- MaxCost,
  balance <- remaining + InFlight, ledger <- Ledger(events),
  phase <- Phase, claim <- Claim

(* The two threads' steps implement the contract: reserve, access, refund  *)
(* and append are together one Spend or nothing, sealing lets at most one  *)
(* of them through, and only a censored run may miss it.                   *)
ImplementsContract == Contract!ContractSpec

-----------------------------------------------------------------------------
(* Liveness.                                                               *)

(* The trial always ends with its channel closed for good, even if the     *)
(* adapter hangs: the runner's waits are timed.                            *)
TrialEnds == <>[](rpc = "done" /\ ~channel)
=============================================================================
