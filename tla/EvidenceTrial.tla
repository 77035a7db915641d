---------------------------- MODULE EvidenceTrial ----------------------------
(***************************************************************************)
(* An unattended trial of a declared case (evidence_eval/protocol.py,      *)
(* EvidenceSession; runner.py, run_unattended_trial; analysis.py): the     *)
(* adapter's thread asks for evidence that the case holds ready while the  *)
(* runner's thread waits for it with a timeout, closes the session without *)
(* a lock, copies the trace, annotates and publishes it.                   *)
(***************************************************************************)
EXTENDS Naturals, Sequences

CONSTANTS
  Actions,    \* action names an adapter may ask for; "edit" is one of them
  Supported,  \* those in allowed_actions that have an entry in action_costs
  Cost,       \* action_costs of the supported actions
  MaxCost,    \* the family's max_cost
  MaxEvents,  \* the family's max_events
  MaxCalls    \* bound of the model: tool calls one adapter makes

ASSUME EvidenceAssumption ==
  /\ "edit" \in Actions
  /\ Supported \subseteq Actions
  /\ Cost \in [Supported -> Nat]
  /\ MaxCost \in Nat /\ MaxEvents \in Nat /\ MaxCalls \in Nat

VARIABLES
  remaining,    \* remaining_cost
  status,       \* "active", "stopped" or "event_limit"
  sealed,       \* _sealed: "open" or "sealed"
  events,       \* the session's events
  checkpoints,  \* how many checkpoints it holds
  channel,      \* "open" while the session is in _CHANNELS
  wpc,          \* where the adapter's thread is
  call,         \* the tool call it is executing
  calls,        \* how many it has made
  told,         \* what its calls have returned, or that they raised
  outcome,      \* what the callable returned or raised
  rpc,          \* where the runner's thread is
  result,       \* result.status
  record,       \* what to_record has read so far
  published     \* the artifacts, or NoRun

sessionVars == <<remaining, status, sealed, events, checkpoints>>
threadVars  == <<call, calls, told, outcome>>
runnerVars  == <<rpc, result, record, published>>
vars == <<sessionVars, channel, wpc, threadVars, runnerVars>>

NoCall == [op |-> "none", action |-> "none"]
Calls  == [op : {"request"}, action : Actions]
          \cup [op : {"checkpoint", "stop"}, action : {"none"}]

Entry(kind, action, error) ==
  [kind |-> kind, action |-> action, error |-> error, remaining |-> remaining]

Log(entry)  == events' = Append(events, entry)
Tell(entry) == told' = Append(told, entry)
Go(from, to) == wpc = from /\ wpc' = to

-----------------------------------------------------------------------------
(* The adapter's thread, which may hang at any point.                      *)

\* A call finds its session in _CHANNELS, or raises.
BeginCall(c) ==
  /\ calls < MaxCalls
  /\ Go("ready", IF channel = "open" THEN c.op ELSE "ready")
  /\ call' = c
  /\ calls' = calls + 1
  /\ IF channel = "open" THEN UNCHANGED told ELSE Tell(Entry("raised", c.action, "channel"))
  /\ UNCHANGED <<sessionVars, channel, outcome, runnerVars>>

Finish ==
  /\ Go("ready", "dead")
  /\ outcome' \in {"completed", "adapter_error", "adapter_output_limit"}
  /\ UNCHANGED <<sessionVars, channel, call, calls, told, runnerVars>>

\* Slip: the cost is not compared with what is left.
RefusalsUnpriced ==
  IF status # "active" THEN {"inactive"}
  ELSE IF call.action \notin Supported THEN {"unsupported"}
  ELSE {"target", "none"}

\* Why request refuses its call; the case decides whether the target is good.
Refusals ==
  IF status # "active" THEN {"inactive"}
  ELSE IF call.action \notin Supported THEN {"unsupported"}
  ELSE IF Cost[call.action] > remaining THEN {"budget"}
  ELSE {"target", "none"}

\* request, up to the event bound.
Request ==
  /\ wpc = "request"
  /\ IF sealed = "sealed"
     THEN wpc' = "ready" /\ Tell(Entry("sealed", call.action, "none"))
     ELSE \E why \in Refusals :
            IF why = "none" THEN wpc' = "bound" /\ UNCHANGED told
            ELSE wpc' = "reject" /\ Tell(Entry("rejected_action", call.action, why))
  /\ UNCHANGED <<sessionVars, channel, call, calls, outcome, runnerVars>>

\* Slip: the call that meets the limit is charged.
LimitCharged ==
  /\ Go("limit", "ready")
  /\ status' = "event_limit"
  /\ remaining' = remaining - Cost[call.action]
  /\ Tell(Entry("limit", call.action, "none"))
  /\ UNCHANGED <<sealed, events, checkpoints, channel, call, calls, outcome, runnerVars>>

\* The event bound, which answers without an event.
Bound ==
  /\ wpc = "bound"
  /\ wpc' = IF Len(events) >= MaxEvents THEN "limit" ELSE "charge"
  /\ UNCHANGED <<sessionVars, channel, threadVars, runnerVars>>

Limit ==
  /\ Go("limit", "ready")
  /\ status' = "event_limit"
  /\ Tell(Entry("limit", call.action, "none"))
  /\ UNCHANGED <<remaining, sealed, events, checkpoints, channel, call, calls, outcome,
                 runnerVars>>

Charge ==
  /\ Go("charge", "accept")
  /\ remaining' = remaining - Cost[call.action]
  /\ UNCHANGED <<status, sealed, events, checkpoints, channel, threadVars, runnerVars>>

\* The event of an accepted request, whatever the status has become.
Accept ==
  /\ Go("accept", "ready")
  /\ Log(Entry("action", call.action, "none"))
  /\ Tell(Entry("action", call.action, "none"))
  /\ UNCHANGED <<remaining, status, sealed, checkpoints, channel, call, calls, outcome,
                 runnerVars>>

\* _reject tests the seal and then appends, without a bound.
Reject ==
  /\ wpc = "reject"
  /\ wpc' = IF sealed = "sealed" THEN "ready" ELSE "reject_event"
  /\ UNCHANGED <<sessionVars, channel, threadVars, runnerVars>>

RejectEvent ==
  /\ Go("reject_event", "ready")
  /\ Log(told[Len(told)])
  /\ UNCHANGED <<remaining, status, sealed, checkpoints, channel, threadVars, runnerVars>>

MayRecord == status = "active" /\ sealed = "open"

\* checkpoint raises, without an event, when inactive or for a bad confidence.
Checkpoint ==
  /\ wpc = "checkpoint"
  /\ \/ wpc' = "ready" /\ Tell(Entry("raised", "none", "checkpoint"))
     \/ MayRecord /\ wpc' = "cp_record" /\ UNCHANGED told
  /\ UNCHANGED <<sessionVars, channel, call, calls, outcome, runnerVars>>

CheckpointRecord ==
  /\ Go("cp_record", "cp_event")
  /\ checkpoints' = checkpoints + 1
  /\ UNCHANGED <<remaining, status, sealed, events, channel, threadVars, runnerVars>>

CheckpointEvent ==
  /\ Go("cp_event", "ready")
  /\ Log(Entry("checkpoint", "none", "none"))
  /\ Tell(Entry("checkpoint", "none", "none"))
  /\ UNCHANGED <<remaining, status, sealed, checkpoints, channel, call, calls, outcome,
                 runnerVars>>

\* stop, in three steps for either thread.
StopGuard ==
  /\ wpc = "stop"
  /\ wpc' = IF MayRecord THEN "stop_set" ELSE "ready"
  /\ UNCHANGED <<sessionVars, channel, threadVars, runnerVars>>

StopSet ==
  /\ Go("stop_set", "stop_event")
  /\ status' = "stopped"
  /\ UNCHANGED <<remaining, sealed, events, checkpoints, channel, threadVars, runnerVars>>

StopEvent ==
  /\ Go("stop_event", "ready")
  /\ Log(Entry("stop", "adapter", "none"))
  /\ UNCHANGED <<remaining, status, sealed, checkpoints, channel, threadVars, runnerVars>>

-----------------------------------------------------------------------------
(* The runner's thread.                                                    *)

NoRun == [run |-> "none"]
NoRecord == [status |-> "none", remaining |-> 0, trace |-> <<>>, checkpoints |-> 0]
Alive == wpc # "dead"

RunnerGo(from, to) == rpc = from /\ rpc' = to

\* Slip: the trace is copied before the session is stopped and sealed.
JoinUnstopped ==
  /\ RunnerGo("join", "state")
  /\ result' = IF Alive THEN "adapter_timeout" ELSE outcome
  /\ UNCHANGED <<sessionVars, channel, wpc, threadVars, record, published>>

Join ==
  /\ RunnerGo("join", "stop")
  /\ result' = IF Alive THEN "adapter_timeout" ELSE outcome
  /\ UNCHANGED <<sessionVars, channel, wpc, threadVars, record, published>>

\* session.stop, for a timeout, an error or a session left active.
RunnerStopGuard ==
  /\ rpc = "stop"
  /\ rpc' = IF MayRecord THEN "stop_set" ELSE "seal"
  /\ UNCHANGED <<sessionVars, channel, wpc, threadVars, result, record, published>>

RunnerStopSet ==
  /\ RunnerGo("stop_set", "stop_event")
  /\ status' = "stopped"
  /\ UNCHANGED <<remaining, sealed, events, checkpoints, channel, wpc, threadVars,
                 result, record, published>>

RunnerStopEvent ==
  /\ RunnerGo("stop_event", "seal")
  /\ Log(Entry("stop", "runner", "none"))
  /\ UNCHANGED <<remaining, status, sealed, checkpoints, channel, wpc, threadVars,
                 result, record, published>>

Seal ==
  /\ RunnerGo("seal", "state")
  /\ sealed' = "sealed"
  /\ UNCHANGED <<remaining, status, events, checkpoints, channel, wpc, threadVars,
                 result, record, published>>

\* to_record, in the order its fields are evaluated.
CopyState ==
  /\ RunnerGo("state", "events")
  /\ record' = [record EXCEPT !.status = status, !.remaining = remaining]
  /\ UNCHANGED <<sessionVars, channel, wpc, threadVars, result, published>>

CopyEvents ==
  /\ RunnerGo("events", "checkpoints")
  /\ record' = [record EXCEPT !.trace = events]
  /\ UNCHANGED <<sessionVars, channel, wpc, threadVars, result, published>>

CopyCheckpoints ==
  /\ RunnerGo("checkpoints", "publish")
  /\ record' = [record EXCEPT !.checkpoints = checkpoints]
  /\ UNCHANGED <<sessionVars, channel, wpc, threadVars, result, published>>

\* The entries of a trace that are of some kinds, in their order.
OfKinds(trace, kinds) ==
  LET upTo[n \in 0..Len(trace)] ==
        IF n = 0 THEN <<>>
        ELSE IF trace[n].kind \in kinds THEN Append(upTo[n - 1], trace[n])
        ELSE upTo[n - 1]
  IN  upTo[Len(trace)]

OfKind(trace, kind) == OfKinds(trace, {kind})

\* Slip: the first edit is looked up among all events.
AnnotationsOfAny(r) ==
  LET stops == OfKind(r.trace, "stop")
  IN  [termination |-> IF stops = <<>> THEN "none" ELSE stops[Len(stops)].action,
       repair      |-> \E i \in DOMAIN r.trace : r.trace[i].action = "edit",
       exhausted   |-> \/ r.remaining = 0
                       \/ \E i \in DOMAIN r.trace : r.trace[i].error = "budget"]

\* analyze_trace, as far as it judges how the trial went.
Annotations(r) ==
  LET accepted == OfKind(r.trace, "action")
      stops    == OfKind(r.trace, "stop")
  IN  [termination |-> IF stops = <<>> THEN "none" ELSE stops[Len(stops)].action,
       repair      |-> \E i \in DOMAIN accepted : accepted[i].action = "edit",
       exhausted   |-> \/ r.remaining = 0
                       \/ \E i \in DOMAIN r.trace : r.trace[i].error = "budget"]

\* write_run_artifacts; the run's directory may exist already.
Publish ==
  /\ RunnerGo("publish", "finally")
  /\ published' \in {NoRun, [run |-> result, record |-> record,
                             annotations |-> Annotations(record)]}
  /\ UNCHANGED <<sessionVars, channel, wpc, threadVars, result, record>>

CloseChannel ==
  /\ RunnerGo("finally", "done")
  /\ channel' = "closed"
  /\ UNCHANGED <<sessionVars, wpc, threadVars, result, record, published>>

-----------------------------------------------------------------------------

Init ==
  /\ remaining = MaxCost
  /\ status = "active"
  /\ sealed = "open"
  /\ events = <<>>
  /\ checkpoints = 0
  /\ channel = "open"
  /\ wpc = "ready"
  /\ call = NoCall
  /\ calls = 0
  /\ told = <<>>
  /\ outcome = "none"
  /\ rpc = "join"
  /\ result = "none"
  /\ record = NoRecord
  /\ published = NoRun

AdapterStep ==
  \/ \E c \in Calls : BeginCall(c)
  \/ Finish
  \/ Request \/ Bound \/ Limit \/ Charge \/ Accept \/ Reject \/ RejectEvent
  \/ Checkpoint \/ CheckpointRecord \/ CheckpointEvent
  \/ StopGuard \/ StopSet \/ StopEvent

RunnerStep ==
  \/ Join \/ RunnerStopGuard \/ RunnerStopSet \/ RunnerStopEvent \/ Seal
  \/ CopyState \/ CopyEvents \/ CopyCheckpoints \/ Publish \/ CloseChannel

Next == AdapterStep \/ RunnerStep

Spec == Init /\ [][Next]_vars

-----------------------------------------------------------------------------

EntryType ==
  [kind : {"action", "rejected_action", "checkpoint", "stop", "sealed", "limit", "raised"},
   action : Actions \cup {"none", "adapter", "runner"},
   error : {"none", "inactive", "unsupported", "budget", "target", "channel", "checkpoint"},
   remaining : Nat]

RecordType ==
  [status : {"none", "stopped", "event_limit"}, remaining : Nat,
   trace : Seq(EntryType), checkpoints : Nat]

AnnotationType ==
  [termination : {"none", "adapter", "runner"}, repair : BOOLEAN, exhausted : BOOLEAN]

RunStatuses == {"completed", "adapter_error", "adapter_output_limit", "adapter_timeout"}

\* The variables hold values of their types; a record is never copied from
\* an active session.
TypeOK ==
  /\ remaining \in Nat
  /\ status \in {"active", "stopped", "event_limit"}
  /\ sealed \in {"open", "sealed"}
  /\ events \in Seq(EntryType)
  /\ checkpoints \in Nat
  /\ channel \in {"open", "closed"}
  /\ wpc \in {"ready", "request", "bound", "limit", "charge", "accept", "reject",
              "reject_event", "checkpoint", "cp_record", "cp_event", "stop", "stop_set",
              "stop_event", "dead"}
  /\ call \in Calls \cup {NoCall}
  /\ calls \in 0..MaxCalls
  /\ told \in Seq(EntryType)
  /\ outcome \in RunStatuses \cup {"none"}
  /\ rpc \in {"join", "stop", "stop_set", "stop_event", "seal", "state", "events",
              "checkpoints", "publish", "finally", "done"}
  /\ result \in RunStatuses \cup {"none"}
  /\ record \in RecordType
  /\ published \in [run : RunStatuses, record : RecordType,
                    annotations : AnnotationType] \cup {NoRun}

InTime == published # NoRun /\ published.run # "adapter_timeout"

\* Entries of a call that the session logs: every answer but the one at the
\* event limit.
Logged(s) == OfKinds(s, {"action", "rejected_action", "checkpoint", "sealed"})

(* A trial that ended in time publishes what its agent was told: every     *)
(* accepted or refused call, in order, with the balance it was answered    *)
(* with, and the balances and checkpoints of the record are those of the   *)
(* last answer; only the call that met the event limit is missing, and the *)
(* status of the record tells of it (EvidenceSession.request, _reject,     *)
(* to_record).                                                             *)
TraceIsWhatWasTold ==
  InTime =>
    /\ Logged(published.record.trace) = Logged(told)
    /\ told # <<>> => published.record.remaining = told[Len(told)].remaining
    /\ published.record.checkpoints = Len(OfKind(told, "checkpoint"))
    /\ published.record.status = "event_limit" <=> OfKind(told, "limit") # <<>>

(* The annotations of such a trial say why it ended, unless its status     *)
(* does, and claim a repair or an exhausted budget exactly when the agent  *)
(* was told that its edit was accepted or its budget was exceeded or spent *)
(* (analyze_trace over a trace two threads may have stopped).              *)
AnnotationsTrue ==
  InTime =>
    LET a == published.annotations
    IN  /\ a.termination = "none" <=> published.record.status = "event_limit"
        /\ Len(OfKind(published.record.trace, "stop")) <= 1
        /\ a.repair <=> \E i \in DOMAIN told :
                          told[i].kind = "action" /\ told[i].action = "edit"
        /\ a.exhausted <=> \/ \E i \in DOMAIN told : told[i].error = "budget"
                           \/ published.record.remaining = 0

-----------------------------------------------------------------------------
(* Refinement.                                                             *)

InFlight == IF wpc = "accept" THEN Cost[call.action] ELSE 0

\* The accepted actions of a trace, as the contract's ledger.
Ledger(trace) ==
  LET accepted == OfKind(trace, "action")
  IN  [i \in 1..Len(accepted) |->
         [action |-> accepted[i].action, remaining |-> accepted[i].remaining]]

\* A request past its guard may still be accepted after the session is sealed.
Phase ==
  IF sealed = "open" THEN "open"
  ELSE IF wpc \in {"bound", "charge", "accept"} THEN "closing" ELSE "closed"

Claim ==
  IF published = NoRun THEN [kind |-> "none", ledger |-> <<>>]
  ELSE [kind   |-> IF InTime THEN "certified" ELSE "censored",
        ledger |-> Ledger(published.record.trace)]

Contract == INSTANCE TrialContract WITH
  Kinds <- Supported, Price <- Cost, Budget <- MaxCost,
  balance <- remaining + InFlight, ledger <- Ledger(events),
  phase <- Phase, claim <- Claim

(* The declared trial keeps the contract of the workspace trial: charge    *)
(* and event are together one Spend or nothing, sealing lets at most one   *)
(* of them through, and only a timed-out run may miss it.                  *)
ImplementsContract == Contract!ContractSpec
=============================================================================
