-------------------------- MODULE WorkspaceSession --------------------------
(***************************************************************************)
(* The evidence session of a workspace trial and the adapter thread that   *)
(* calls it (evidence_eval/workspace_runner.py, _WorkspaceSession and      *)
(* WorkspaceTools).  The session object has no lock: the adapter thread    *)
(* runs the tool calls below while the runner's thread may stop, seal and  *)
(* copy the same session, so a call is a sequence of steps, each of which  *)
(* touches at most one variable that the runner also uses.                 *)
(*                                                                         *)
(* Texts, paths and file contents are abstracted: the workspace is one     *)
(* version number that every write changes, and the outcome of a tool's    *)
(* file access is chosen freely.                                           *)
(***************************************************************************)
EXTENDS Naturals, Sequences

CONSTANTS
  Actions,    \* action names an adapter may ask for; "edit" is one of them
  Supported,  \* those in allowed_actions that have an entry in action_costs
  Cost,       \* action_costs of the supported actions
  MaxCost,    \* the family's max_cost
  MaxEvents,  \* the family's max_events
  Raising,    \* the tools an adapter's arguments can make raise once charged
  MaxCalls    \* bound of the model: tool calls one adapter makes

ASSUME SessionAssumption ==
  /\ "edit" \in Actions
  /\ Supported \subseteq Actions
  /\ Cost \in [Supported -> Nat]
  /\ MaxCost \in Nat
  /\ MaxEvents \in Nat
  /\ Raising \subseteq {"request", "edit_file"}
  /\ MaxCalls \in Nat

VARIABLES
  remaining,    \* remaining_cost
  status,       \* "active", "stopped" or "event_limit"
  sealed,       \* _sealed
  events,       \* the trace's events, append-only
  checkpoints,  \* number of recorded checkpoints
  disk,         \* version of the files in the workspace
  channel,      \* is the session registered in _WORKSPACE_CHANNELS?
  wpc,          \* where the adapter thread is
  call,         \* the tool call it is executing
  calls,        \* how many it has made
  outcome       \* what the adapter callable returned or raised

sessionVars == <<remaining, status, sealed, events, checkpoints>>
threadVars  == <<wpc, call, calls, outcome>>
svars       == <<sessionVars, disk, channel, threadVars>>

NoVersion == 0
NoCall    == [op |-> "none", action |-> "none"]
Calls     == [op : {"request"}, action : Actions]
             \cup [op : {"edit_file"}, action : {"edit"}]
             \cup [op : {"checkpoint", "stop"}, action : {"none"}]

\* AgentResult statuses the runner tells apart.
Outcomes == {"completed", "adapter_error", "adapter_timeout", "output_limit"}

Event(kind, action, error) ==
  [kind |-> kind, action |-> action, error |-> error, remaining |-> remaining,
   before |-> NoVersion, after |-> NoVersion]

Log(event) == events' = Append(events, event)

-----------------------------------------------------------------------------
(* The adapter thread: it makes calls in any order, and may hang at any    *)
(* point because none of its steps is fair.                                *)

Go(from, to) == wpc = from /\ wpc' = to

BeginCall(c) ==
  /\ calls < MaxCalls
  /\ Go("ready", "lookup")
  /\ call' = c
  /\ calls' = calls + 1
  /\ UNCHANGED <<sessionVars, disk, channel, outcome>>

\* The callable returns an AgentResult or raises (recorded as adapter_error).
Finish(result) ==
  /\ Go("ready", "dead")
  /\ outcome' = result
  /\ UNCHANGED <<sessionVars, disk, channel, call, calls>>

\* First step of each tool once the session has been found.
Entry == [request |-> "guard", edit_file |-> "guard",
          checkpoint |-> "cp_guard", stop |-> "stop_guard"]

\* _channel_session: the lookup under the lock; a closed channel raises.
Lookup ==
  /\ wpc = "lookup"
  /\ wpc' = IF ~channel THEN "ready"
            ELSE IF call = [op |-> "request", action |-> "edit"] THEN "reject"
            ELSE Entry[call.op]
  /\ UNCHANGED <<sessionVars, disk, channel, call, calls, outcome>>

-----------------------------------------------------------------------------
(* request and edit_file: _reserve, the file access, _refund, _accepted.   *)

Affordable(action) == action \in Supported /\ Cost[action] <= remaining

\* Slip: the budget is not compared with the cost.
ReserveGuardUnpriced ==
  /\ wpc = "guard"
  /\ wpc' = IF ~sealed /\ status = "active" /\ call.action \in Supported
            THEN "bound" ELSE "reject"
  /\ UNCHANGED <<sessionVars, disk, channel, call, calls, outcome>>

\* Slip: a stopped or sealed session still takes calls.
ReserveGuardUnsealed ==
  /\ wpc = "guard"
  /\ wpc' = IF Affordable(call.action) THEN "bound" ELSE "reject"
  /\ UNCHANGED <<sessionVars, disk, channel, call, calls, outcome>>

\* _reserve, up to the budget check.
ReserveGuard ==
  /\ wpc = "guard"
  /\ wpc' = IF ~sealed /\ status = "active" /\ Affordable(call.action)
            THEN "bound" ELSE "reject"
  /\ UNCHANGED <<sessionVars, disk, channel, call, calls, outcome>>

\* _reserve, the event bound.
ReserveBound ==
  /\ wpc = "bound"
  /\ wpc' = IF Len(events) >= MaxEvents THEN "limit" ELSE "charge"
  /\ UNCHANGED <<sessionVars, disk, channel, call, calls, outcome>>

ReserveLimit ==
  /\ Go("limit", "reject")
  /\ status' = "event_limit"
  /\ UNCHANGED <<remaining, sealed, events, checkpoints, disk, channel, call, calls, outcome>>

ReserveCharge ==
  /\ Go("charge", "perform")
  /\ remaining' = remaining - Cost[call.action]
  /\ UNCHANGED <<status, sealed, events, checkpoints, disk, channel, call, calls, outcome>>

\* The tool succeeds; an edit has replaced the file.
PerformOk ==
  /\ Go("perform", "accept")
  /\ disk' = IF call.op = "edit_file" THEN disk + 1 ELSE disk
  /\ UNCHANGED <<sessionVars, channel, call, calls, outcome>>

\* Slip: the charge is refunded twice.
PerformRefusedTwice ==
  /\ Go("perform", "reject")
  /\ remaining' = remaining + 2 * Cost[call.action]
  /\ UNCHANGED <<status, sealed, events, checkpoints, disk, channel, call, calls, outcome>>

\* The tool refuses its target before it writes anything: the charge is refunded.
PerformRefused ==
  /\ Go("perform", "reject")
  /\ remaining' = remaining + Cost[call.action]
  /\ UNCHANGED <<status, sealed, events, checkpoints, disk, channel, call, calls, outcome>>

\* Slip: the failed write is refunded and not logged.
PerformWriteErrorSilent ==
  /\ call.op = "edit_file"
  /\ Go("perform", "ready")
  /\ remaining' = remaining + Cost[call.action]
  /\ disk' \in {disk, disk + 1}
  /\ UNCHANGED <<status, sealed, events, checkpoints, channel, call, calls, outcome>>

\* write_text raises OSError, after it may have truncated the file.
PerformWriteError ==
  /\ call.op = "edit_file"
  /\ Go("perform", "reject_write")
  /\ remaining' = remaining + Cost[call.action]
  /\ disk' \in {disk, disk + 1}
  /\ UNCHANGED <<status, sealed, events, checkpoints, channel, call, calls, outcome>>

\* An exception the tool does not catch, a path name the file system refuses
\* or a text UTF-8 cannot encode, reaches the adapter: no refund, no event.
PerformRaise ==
  /\ call.op \in Raising
  /\ Go("perform", "ready")
  /\ disk' \in IF call.op = "edit_file" THEN {disk, disk + 1} ELSE {disk}
  /\ UNCHANGED <<sessionVars, channel, call, calls, outcome>>

\* _accepted: appended whatever the status has become meanwhile.
Accept ==
  /\ Go("accept", IF call.op = "edit_file" THEN "annotate" ELSE "ready")
  /\ Log(Event("action", call.action, "none"))
  /\ UNCHANGED <<remaining, status, sealed, checkpoints, disk, channel, call, calls, outcome>>

\* edit_file adds the two hashes to whichever event is the last one now.
Annotate ==
  /\ Go("annotate", "ready")
  /\ events' = [events EXCEPT ![Len(events)].before = disk - 1,
                              ![Len(events)].after = disk]
  /\ UNCHANGED <<remaining, status, sealed, checkpoints, disk, channel, call, calls, outcome>>

\* _reject: silent once the session is sealed, never bounded by max_events;
\* the test and the append are two steps.
Reject(from, to) ==
  /\ wpc = from
  /\ wpc' = IF sealed THEN "ready" ELSE to
  /\ UNCHANGED <<sessionVars, disk, channel, call, calls, outcome>>

LogAndReturn(from, event) ==
  /\ Go(from, "ready")
  /\ Log(event)
  /\ UNCHANGED <<remaining, status, sealed, checkpoints, disk, channel, call, calls, outcome>>

RejectEvent ==
  \/ LogAndReturn("reject_event", Event("rejected_action", call.action, "refused"))
  \/ LogAndReturn("write_event", Event("rejected_action", call.action, "write_failed"))

-----------------------------------------------------------------------------
(* checkpoint and stop.                                                    *)

\* An inactive or sealed session raises, and so does a bad confidence.
CheckpointGuard ==
  /\ wpc = "cp_guard"
  /\ wpc' \in {"ready"} \cup (IF status = "active" /\ ~sealed THEN {"cp_bound"} ELSE {})
  /\ UNCHANGED <<sessionVars, disk, channel, call, calls, outcome>>

\* The last event is kept for a rejection, for which there must still be room.
CheckpointBound ==
  /\ wpc = "cp_bound"
  /\ wpc' = IF Len(events) + 1 >= MaxEvents THEN "cp_limit" ELSE "cp_record"
  /\ UNCHANGED <<sessionVars, disk, channel, call, calls, outcome>>

CheckpointLimit ==
  /\ Go("cp_limit", "cp_full")
  /\ status' = "event_limit"
  /\ UNCHANGED <<remaining, sealed, events, checkpoints, disk, channel, call, calls, outcome>>

CheckpointFull ==
  /\ wpc = "cp_full"
  /\ wpc' = IF Len(events) < MaxEvents THEN "cp_reject" ELSE "ready"
  /\ UNCHANGED <<sessionVars, disk, channel, call, calls, outcome>>

CheckpointRecord ==
  /\ Go("cp_record", "cp_event")
  /\ checkpoints' = checkpoints + 1
  /\ UNCHANGED <<remaining, status, sealed, events, disk, channel, call, calls, outcome>>

CheckpointEvent ==
  \/ LogAndReturn("cp_reject", Event("rejected_checkpoint", "none", "event_limit"))
  \/ LogAndReturn("cp_event", Event("checkpoint", "none", "none"))

\* stop: test, assignment and append are three steps for either thread.
MayStop == status = "active" /\ ~sealed

\* Slip: a second stop is not recognised.
StopGuardRepeated ==
  /\ wpc = "stop_guard"
  /\ wpc' = IF ~sealed THEN "stop_set" ELSE "ready"
  /\ UNCHANGED <<sessionVars, disk, channel, call, calls, outcome>>

StopGuard ==
  /\ wpc = "stop_guard"
  /\ wpc' = IF MayStop THEN "stop_set" ELSE "ready"
  /\ UNCHANGED <<sessionVars, disk, channel, call, calls, outcome>>

StopSet ==
  /\ Go("stop_set", "stop_event")
  /\ status' = "stopped"
  /\ UNCHANGED <<remaining, sealed, events, checkpoints, disk, channel, call, calls, outcome>>

StopEvent == LogAndReturn("stop_event", Event("stop", "adapter", "none"))

-----------------------------------------------------------------------------

SessionInit ==
  /\ remaining = MaxCost
  /\ status = "active"
  /\ sealed = FALSE
  /\ events = <<>>
  /\ checkpoints = 0
  /\ disk = NoVersion + 1
  /\ channel = FALSE
  /\ wpc = "unborn"
  /\ call = NoCall
  /\ calls = 0
  /\ outcome = "none"

ToolStep ==
  \/ Lookup
  \/ ReserveGuard \/ ReserveBound \/ ReserveLimit \/ ReserveCharge
  \/ PerformOk \/ PerformRefused \/ PerformWriteError \/ PerformRaise
  \/ Accept \/ Annotate
  \/ Reject("reject", "reject_event") \/ Reject("reject_write", "write_event")
  \/ RejectEvent
  \/ CheckpointGuard \/ CheckpointBound \/ CheckpointLimit \/ CheckpointFull
  \/ CheckpointRecord \/ CheckpointEvent
  \/ StopGuard \/ StopSet \/ StopEvent

AdapterStep ==
  \/ \E c \in Calls : BeginCall(c)
  \/ \E result \in Outcomes : Finish(result)
  \/ ToolStep

-----------------------------------------------------------------------------

ThreadPoints ==
  {"unborn", "ready", "lookup", "guard", "bound", "limit", "charge", "perform", "accept",
   "annotate", "reject", "reject_event", "reject_write", "write_event", "cp_guard",
   "cp_bound", "cp_limit", "cp_full", "cp_record", "cp_event", "cp_reject", "stop_guard",
   "stop_set", "stop_event", "dead"}

EventKinds ==
  {"action", "rejected_action", "checkpoint", "rejected_checkpoint", "stop"}

EventType ==
  [kind : EventKinds,
   action : Actions \cup {"none", "adapter", "runner"},
   error : {"none", "refused", "write_failed", "event_limit"},
   remaining : Nat, before : Nat, after : Nat]

SessionTypeOK ==
  /\ remaining \in Nat
  /\ status \in {"active", "stopped", "event_limit"}
  /\ sealed \in BOOLEAN
  /\ events \in Seq(EventType)
  /\ checkpoints \in Nat
  /\ disk \in Nat \ {NoVersion}
  /\ channel \in BOOLEAN
  /\ wpc \in ThreadPoints
  /\ call \in Calls \cup {NoCall}
  /\ calls \in 0..MaxCalls
  /\ outcome \in Outcomes \cup {"none"}
=============================================================================
