------------------------ MODULE WorkspaceTrialProofs ------------------------
(***************************************************************************)
(* Safety of the workspace trial for every family (actions, costs, budget, *)
(* event bound) and any number of tool calls.  First its types, what it    *)
(* seals and publishes, and that what the trace prints of the budget is    *)
(* what the session holds; then what the trial leaves behind: how much a   *)
(* late adapter may still do, how an uncensored trial ended, what its      *)
(* artifacts say of its files, and that it implements TrialContract.       *)
(***************************************************************************)
EXTENDS WorkspaceTrial, FiniteSetTheorems, WellFoundedInduction, TLAPS

-----------------------------------------------------------------------------
(* The inductive invariant.                                                *)

InCall == ThreadPoints \ {"unborn", "ready", "dead"}

\* What the steps already taken guarantee of the call in flight.
CallInv ==
  /\ wpc \in InCall => call \in Calls
  /\ wpc \in {"bound", "charge", "perform", "accept"} => call.action \in Supported
  /\ wpc \in {"bound", "charge"} => Cost[call.action] <= remaining

AfterJoin == RunnerPoints \ {"setup", "join", "terminate"}
Closing   == {"stop", "stop_set", "stop_event", "seal", "pop"}
Recording == {"observe", "trace_state", "trace_events", "trace_checkpoints", "verify",
              "manifest", "publish"}

\* How far each thread is bounds what the other may still do.
ThreadInv ==
  /\ rpc = "setup" => wpc = "unborn"
  /\ rpc \in {"join", "terminate"} \cup Closing \cup Recording => wpc # "unborn"
  /\ wpc = "dead" => outcome \in Outcomes
  /\ rpc \in {"terminate"} \cup Closing \cup Recording => result \in Outcomes
  /\ rpc \in AfterJoin => deferred \/ ~Alive
  /\ rpc \in {"terminate"} \cup Closing \cup Recording => Censored \/ ~Alive

\* The versions recorded so far.
VersionInv ==
  /\ rpc \in {"setup", "join", "terminate"} \cup Closing =>
       record.verified = NoVersion /\ record.manifest = NoVersion
  /\ rpc \in {"observe", "trace_state", "trace_events", "trace_checkpoints", "verify"} =>
       record.verified = NoVersion /\ record.manifest = NoVersion
  /\ rpc \in Recording \ {"observe"} /\ ~Censored => record.observed = disk
  /\ rpc = "manifest" => record.manifest = NoVersion
  /\ VerifiedAtRest

\* The copied trace is a prefix of the session's events.
LengthInv == record.length <= Len(events)

DeletedInv == workspace = "deleted" => rpc = "done" /\ ~deferred

IInv ==
  /\ TypeOK
  /\ CallInv
  /\ ThreadInv
  /\ VersionInv
  /\ LengthInv
  /\ DeletedInv

-----------------------------------------------------------------------------
(* Every step preserves it.                                                *)

USE SessionAssumption DEF NoVersion, NoCall, NoRun, EmptyRecord

LEMMA EventTyped ==
  ASSUME remaining \in Nat, NEW kind \in EventKinds,
         NEW action \in Actions \cup {"none", "adapter", "runner"},
         NEW error \in {"none", "refused", "write_failed", "event_limit"}
  PROVE  Event(kind, action, error) \in EventType
  BY DEF Event, EventType

LEMMA FunctionIsSeq ==
  ASSUME NEW S, NEW n \in Nat, NEW f \in [1..n -> S]
  PROVE  f \in Seq(S)
  OBVIOUS

LEMMA AnnotationTyped ==
  ASSUME events \in Seq(EventType), NEW n \in Nat, NEW b \in Nat, NEW a \in Nat
  PROVE  [events EXCEPT ![n].before = b, ![n].after = a] \in Seq(EventType)
<1> DEFINE D == 1..Len(events)
           new == [events EXCEPT ![n].before = b, ![n].after = a]
<1> SUFFICES new \in Seq(EventType)
  OBVIOUS
<1>1. events \in [D -> EventType] /\ Len(events) \in Nat
  OBVIOUS
<1> HIDE DEF D
<1>2. new \in [D -> EventType]
  BY <1>1 DEF EventType
<1> HIDE DEF new
<1> QED BY <1>1, <1>2, FunctionIsSeq DEF D

LEMMA InitEstablishes == Init => IInv
<1> SUFFICES ASSUME Init PROVE IInv
  OBVIOUS
<1>1. SessionTypeOK
  <2> USE DEF Init, SessionInit
  <2>1. remaining \in Nat
    OBVIOUS
  <2>2. status \in {"active", "stopped", "event_limit"} /\ sealed \in BOOLEAN /\ channel \in BOOLEAN
    OBVIOUS
  <2>3. events \in Seq(EventType)
    OBVIOUS
  <2>4. checkpoints \in Nat /\ disk \in Nat \ {NoVersion}
    OBVIOUS
  <2>5. wpc \in ThreadPoints
    BY DEF ThreadPoints
  <2>6. call \in Calls \cup {NoCall} /\ calls \in 0..MaxCalls /\ outcome \in Outcomes \cup {"none"}
    OBVIOUS
  <2> QED BY <2>1, <2>2, <2>3, <2>4, <2>5, <2>6 DEF SessionTypeOK
<1>2. record \in RecordType
  BY DEF Init, RecordType
<1>3. TypeOK
  BY <1>1, <1>2 DEF Init, TypeOK, RunnerPoints
<1>4. CallInv /\ ThreadInv /\ DeletedInv
  BY DEF Init, SessionInit, CallInv, ThreadInv, DeletedInv, InCall, AfterJoin, Closing,
         Recording
<1>5. VersionInv
  BY DEF Init, SessionInit, VersionInv, VerifiedAtRest, Closing, Recording
<1>6. LengthInv
  BY DEF Init, SessionInit, LengthInv
<1> QED BY <1>3, <1>4, <1>5, <1>6 DEF IInv

-----------------------------------------------------------------------------
(* The adapter thread.                                                     *)

LEMMA LoggedTypes ==
  ASSUME TypeOK, UNCHANGED runnerVars, NEW e \in EventType, NEW from, LogAndReturn(from, e)
  PROVE  TypeOK'
  BY DEF LogAndReturn, Log, TypeOK, SessionTypeOK, runnerVars, Go, ThreadPoints

LEMMA AdapterTypes ==
  ASSUME TypeOK, CallInv, AdapterStep, UNCHANGED runnerVars
  PROVE  TypeOK'
<1> USE DEF TypeOK, SessionTypeOK, runnerVars, sessionVars, Go, ThreadPoints
<1>1. ASSUME NEW c \in Calls, BeginCall(c) PROVE TypeOK'
  BY <1>1 DEF BeginCall
<1>2. ASSUME NEW r \in Outcomes, Finish(r) PROVE TypeOK'
  BY <1>2 DEF Finish
<1>3. CASE Lookup
  BY <1>3 DEF Lookup, Entry, CallInv, InCall, Calls
<1>4. CASE ReserveGuard \/ ReserveBound \/ ReserveLimit
  BY <1>4 DEF ReserveGuard, ReserveBound, ReserveLimit
<1>5. CASE ReserveCharge
  BY <1>5 DEF ReserveCharge, CallInv
<1>6. CASE PerformOk
  BY <1>6 DEF PerformOk
<1>7. CASE PerformRefused
  BY <1>7 DEF PerformRefused, CallInv
<1>8. CASE PerformWriteError
  BY <1>8 DEF PerformWriteError, CallInv
<1>9. CASE Accept
  BY <1>9, EventTyped DEF Accept, Log, CallInv, EventKinds
<1>10. CASE Annotate
  <2>1. Len(events) \in Nat /\ disk - 1 \in Nat /\ disk \in Nat
    OBVIOUS
  <2> QED BY <1>10, <2>1, AnnotationTyped DEF Annotate
<1>11. CASE Reject("reject", "reject_event") \/ Reject("reject_write", "write_event")
  BY <1>11 DEF Reject
<1>12. CASE RejectEvent
  <2>1. call.action \in Actions \cup {"none"}
    BY DEF Calls
  <2>2. /\ Event("rejected_action", call.action, "refused") \in EventType
        /\ Event("rejected_action", call.action, "write_failed") \in EventType
    BY <2>1, EventTyped DEF EventKinds
  <2> QED BY <1>12, <2>2, LoggedTypes DEF RejectEvent
<1>13. CASE CheckpointGuard \/ CheckpointBound \/ CheckpointLimit \/ CheckpointFull
            \/ CheckpointRecord \/ StopGuard \/ StopSet
  BY <1>13 DEF CheckpointGuard, CheckpointBound, CheckpointLimit, CheckpointFull,
       CheckpointRecord, StopGuard, StopSet
<1>14. CASE CheckpointEvent \/ StopEvent
  <2>1. /\ Event("rejected_checkpoint", "none", "event_limit") \in EventType
        /\ Event("checkpoint", "none", "none") \in EventType
        /\ Event("stop", "adapter", "none") \in EventType
    BY EventTyped DEF EventKinds
  <2> QED BY <1>14, <2>1, LoggedTypes DEF CheckpointEvent, StopEvent
<1>15. CASE PerformRaise
  BY <1>15 DEF PerformRaise
<1> QED
  BY <1>1, <1>2, <1>3, <1>4, <1>5, <1>6, <1>7, <1>8, <1>9, <1>10, <1>11, <1>12, <1>13,
     <1>14, <1>15 DEF AdapterStep, ToolStep

LEMMA AdapterCall ==
  ASSUME TypeOK, CallInv, AdapterStep
  PROVE  CallInv'
<1> USE DEF CallInv, InCall, ThreadPoints, Go, sessionVars
<1>1. ASSUME NEW c \in Calls, BeginCall(c) PROVE CallInv'
  BY <1>1 DEF BeginCall
<1>2. ASSUME NEW r \in Outcomes, Finish(r) PROVE CallInv'
  BY <1>2 DEF Finish
<1>3. CASE Lookup
  BY <1>3 DEF Lookup, Entry, Calls
<1>4. CASE ReserveGuard \/ ReserveBound \/ ReserveLimit
  BY <1>4 DEF ReserveGuard, ReserveBound, ReserveLimit, Affordable
<1>5. CASE ReserveCharge
  BY <1>5 DEF ReserveCharge
<1>6. CASE PerformOk \/ PerformRefused \/ PerformWriteError \/ PerformRaise
  BY <1>6 DEF PerformOk, PerformRefused, PerformWriteError, PerformRaise
<1>7. CASE Accept \/ Annotate
  BY <1>7 DEF Accept, Annotate
<1>8. CASE Reject("reject", "reject_event") \/ Reject("reject_write", "write_event")
           \/ RejectEvent
  BY <1>8 DEF Reject, RejectEvent, LogAndReturn
<1>9. CASE CheckpointGuard \/ CheckpointBound \/ CheckpointLimit \/ CheckpointFull
           \/ CheckpointRecord \/ CheckpointEvent
  BY <1>9 DEF CheckpointGuard, CheckpointBound, CheckpointLimit, CheckpointFull,
       CheckpointRecord, CheckpointEvent, LogAndReturn
<1>10. CASE StopGuard \/ StopSet \/ StopEvent
  BY <1>10 DEF StopGuard, StopSet, StopEvent, LogAndReturn
<1> QED
  BY <1>1, <1>2, <1>3, <1>4, <1>5, <1>6, <1>7, <1>8, <1>9, <1>10 DEF AdapterStep, ToolStep

\* Events are only appended or annotated.
LEMMA AdapterLogs ==
  ASSUME TypeOK, AdapterStep
  PROVE  Len(events') >= Len(events)
<1> USE DEF TypeOK, SessionTypeOK, sessionVars, Log
<1>1. Len(events) \in Nat
  OBVIOUS
<1>2. ASSUME NEW e, events' = Append(events, e) PROVE Len(events') >= Len(events)
  BY <1>1, <1>2
<1>3. CASE UNCHANGED events
  BY <1>1, <1>3
<1>4. CASE Annotate
  <2>1. DOMAIN events' = DOMAIN events
    BY <1>4 DEF Annotate
  <2>2. events' \in Seq(EventType)
    <3>1. disk - 1 \in Nat /\ disk \in Nat
      OBVIOUS
    <3> QED BY <1>1, <1>4, <3>1, AnnotationTyped DEF Annotate
  <2>3. DOMAIN events = 1..Len(events) /\ DOMAIN events' = 1..Len(events')
        /\ Len(events') \in Nat
    BY <2>2
  <2> QED BY <1>1, <2>1, <2>3
<1>5. CASE (\E c \in Calls : BeginCall(c)) \/ (\E r \in Outcomes : Finish(r)) \/ Lookup
           \/ ReserveGuard \/ ReserveBound \/ ReserveLimit \/ ReserveCharge
           \/ PerformOk \/ PerformRefused \/ PerformWriteError \/ PerformRaise
           \/ Reject("reject", "reject_event") \/ Reject("reject_write", "write_event")
           \/ CheckpointGuard \/ CheckpointBound \/ CheckpointLimit \/ CheckpointFull
           \/ CheckpointRecord \/ StopGuard \/ StopSet
  BY <1>3, <1>5 DEF BeginCall, Finish, Lookup, ReserveGuard, ReserveBound, ReserveLimit,
       ReserveCharge, PerformOk, PerformRefused, PerformWriteError, PerformRaise, Reject,
       CheckpointGuard, CheckpointBound, CheckpointLimit, CheckpointFull, CheckpointRecord,
       StopGuard, StopSet
<1>6. CASE Accept \/ RejectEvent \/ CheckpointEvent \/ StopEvent
  BY <1>2, <1>6 DEF Accept, RejectEvent, CheckpointEvent, StopEvent, LogAndReturn
<1> QED BY <1>4, <1>5, <1>6 DEF AdapterStep, ToolStep

\* Tool calls are made by a live thread, which they leave alive.
LEMMA ToolAlive ==
  ASSUME TypeOK, CallInv, ToolStep
  PROVE  Alive /\ wpc' \notin {"unborn", "dead"} /\ UNCHANGED outcome
<1> USE DEF Alive, Go, TypeOK, SessionTypeOK, CallInv, InCall, ThreadPoints, sessionVars
<1>1. CASE Lookup
  BY <1>1 DEF Lookup, Entry, Calls
<1>2. CASE ReserveGuard \/ ReserveBound \/ ReserveLimit \/ ReserveCharge
  BY <1>2 DEF ReserveGuard, ReserveBound, ReserveLimit, ReserveCharge
<1>3. CASE PerformOk \/ PerformRefused \/ PerformWriteError \/ PerformRaise
  BY <1>3 DEF PerformOk, PerformRefused, PerformWriteError, PerformRaise
<1>4. CASE Accept \/ Annotate
  BY <1>4 DEF Accept, Annotate
<1>5. CASE Reject("reject", "reject_event") \/ Reject("reject_write", "write_event")
           \/ RejectEvent
  BY <1>5 DEF Reject, RejectEvent, LogAndReturn
<1>6. CASE CheckpointGuard \/ CheckpointBound \/ CheckpointLimit \/ CheckpointFull
           \/ CheckpointRecord \/ CheckpointEvent
  BY <1>6 DEF CheckpointGuard, CheckpointBound, CheckpointLimit, CheckpointFull,
       CheckpointRecord, CheckpointEvent, LogAndReturn
<1>7. CASE StopGuard \/ StopSet \/ StopEvent
  BY <1>7 DEF StopGuard, StopSet, StopEvent, LogAndReturn
<1> QED
  BY <1>1, <1>2, <1>3, <1>4, <1>5, <1>6, <1>7 DEF ToolStep

\* The adapter acts only while it is alive, and dies only with an outcome.
LEMMA AdapterAlive ==
  ASSUME TypeOK, CallInv, AdapterStep
  PROVE  /\ Alive
         /\ wpc' # "unborn"
         /\ wpc' = "dead" => outcome' \in Outcomes
<1>1. ASSUME NEW c \in Calls, BeginCall(c) PROVE Alive /\ wpc' \notin {"unborn", "dead"}
  BY <1>1 DEF BeginCall, Alive, Go
<1>2. ASSUME NEW r \in Outcomes, Finish(r)
      PROVE  Alive /\ wpc' = "dead" /\ outcome' \in Outcomes
  BY <1>2 DEF Finish, Alive, Go
<1> QED BY <1>1, <1>2, ToolAlive DEF AdapterStep

LEMMA AdapterPreserves ==
  ASSUME IInv, AdapterStep, UNCHANGED runnerVars
  PROVE  IInv'
<1> USE DEF IInv
<1>1. TypeOK'
  BY AdapterTypes
<1>2. CallInv'
  BY AdapterCall
<1>3. Alive /\ wpc' # "unborn" /\ (wpc' = "dead" => outcome' \in Outcomes)
  BY AdapterAlive
<1>4. ThreadInv'
  BY <1>3 DEF ThreadInv, runnerVars, Alive, Censored, AfterJoin, Closing, Recording,
              RunnerPoints
<1>5. rpc \in AfterJoin => deferred
  BY <1>3 DEF ThreadInv
<1>6. VersionInv'
  BY <1>3, <1>4 DEF ThreadInv, VersionInv, VerifiedAtRest, runnerVars, Alive, Censored,
                    Closing, Recording
<1>7. DeletedInv'
  BY DEF DeletedInv, runnerVars
<1>8. LengthInv'
  <2>1. Len(events') >= Len(events) /\ Len(events) \in Nat /\ Len(events') \in Nat
    BY <1>1, AdapterLogs DEF TypeOK, SessionTypeOK
  <2> QED BY <2>1 DEF LengthInv, runnerVars, TypeOK, RecordType
<1> QED BY <1>1, <1>2, <1>4, <1>6, <1>7, <1>8

-----------------------------------------------------------------------------
(* The runner's thread.                                                    *)

LEMMA RunnerTypes ==
  ASSUME IInv, RunnerStep
  PROVE  TypeOK'
<1> USE DEF IInv, TypeOK, SessionTypeOK, RunnerGo, RunnerPoints, svars, sessionVars,
            threadVars, RecordType
<1>1. CASE Setup
  BY <1>1 DEF Setup, ThreadPoints
<1>2. CASE SetupError \/ TrialError
  BY <1>2 DEF SetupError, TrialError
<1>3. CASE JoinFinished
  BY <1>3 DEF JoinFinished
<1>4. CASE JoinTimeout
  BY <1>4 DEF JoinTimeout, Outcomes
<1>5. CASE Terminate
  BY <1>5 DEF Terminate, Alive
<1>6. CASE RunnerStopGuard \/ RunnerStopSet
  BY <1>6 DEF RunnerStopGuard, RunnerStopSet
<1>7. CASE RunnerStopEvent
  BY <1>7, EventTyped DEF RunnerStopEvent, Log, EventKinds
<1>8. CASE Seal \/ CloseChannel
  BY <1>8 DEF Seal, CloseChannel
<1>9. CASE ObserveStop
  BY <1>9 DEF ObserveStop
<1>10. CASE TraceState
  BY <1>10 DEF TraceState
<1>11. CASE TraceEvents
  <2>1. Len(events) \in Nat
    OBVIOUS
  <2> QED BY <1>11, <2>1 DEF TraceEvents
<1>12. CASE TraceCheckpoints
  BY <1>12 DEF TraceCheckpoints
<1>13. CASE VerifyOrCensor
  BY <1>13 DEF VerifyOrCensor
<1>14. CASE FinalManifest
  BY <1>14 DEF FinalManifest
<1>15. CASE Publish
  <2>1. SubSeq(events, 1, record.length) \in Seq(EventType)
    BY DEF LengthInv
  <2>2. result \in Outcomes /\ Censored \in BOOLEAN
    BY <1>15 DEF Publish, ThreadInv, Recording, Censored
  <2>3. published' \in RunType
    BY <1>15, <2>1, <2>2 DEF Publish, RunType
  <2> QED BY <1>15, <2>3 DEF Publish
<1>16. CASE Cleanup
  <2>1. workspace' \in {"absent", "live", "deleted"}
    BY <1>16 DEF Cleanup
  <2>2. rpc' \in RunnerPoints /\ channel' \in BOOLEAN
    BY <1>16 DEF Cleanup
  <2> QED BY <1>16, <2>1, <2>2 DEF Cleanup
<1> QED
  BY <1>1, <1>2, <1>3, <1>4, <1>5, <1>6, <1>7, <1>8, <1>9, <1>10, <1>11, <1>12, <1>13,
     <1>14, <1>15, <1>16 DEF RunnerStep

LEMMA RunnerThreads ==
  ASSUME IInv, RunnerStep
  PROVE  CallInv' /\ ThreadInv' /\ DeletedInv'
<1> USE DEF IInv, CallInv, ThreadInv, DeletedInv, RunnerGo, RunnerPoints, svars,
            sessionVars, threadVars, AfterJoin, Closing, Recording, Alive, Censored, InCall
<1>1. CASE Setup
  BY <1>1 DEF Setup
<1>2. CASE SetupError \/ TrialError
  BY <1>2 DEF SetupError, TrialError
<1>3. CASE JoinFinished
  BY <1>3 DEF JoinFinished
<1>4. CASE JoinTimeout
  BY <1>4 DEF JoinTimeout, Outcomes
<1>5. CASE Terminate
  BY <1>5 DEF Terminate
<1>6. CASE RunnerStopGuard \/ RunnerStopSet \/ RunnerStopEvent
  BY <1>6 DEF RunnerStopGuard, RunnerStopSet, RunnerStopEvent
<1>7. CASE Seal \/ CloseChannel
  BY <1>7 DEF Seal, CloseChannel
<1>8. CASE ObserveStop \/ TraceState \/ TraceEvents \/ TraceCheckpoints
  BY <1>8 DEF ObserveStop, TraceState, TraceEvents, TraceCheckpoints
<1>9. CASE VerifyOrCensor \/ FinalManifest
  BY <1>9 DEF VerifyOrCensor, FinalManifest
<1>10. CASE Publish
  BY <1>10 DEF Publish
<1>11. CASE Cleanup
  BY <1>11 DEF Cleanup
<1> QED
  BY <1>1, <1>2, <1>3, <1>4, <1>5, <1>6, <1>7, <1>8, <1>9, <1>10, <1>11 DEF RunnerStep

LEMMA RunnerVersions ==
  ASSUME IInv, RunnerStep
  PROVE  VersionInv'
<1> USE DEF IInv, TypeOK, RecordType, ThreadInv, VersionInv, VerifiedAtRest, RunnerGo,
            svars, sessionVars, threadVars, AfterJoin, RunnerPoints, Closing, Recording,
            Alive, Censored
<1>1. CASE Setup \/ SetupError \/ TrialError
  BY <1>1 DEF Setup, SetupError, TrialError
<1>2. CASE JoinFinished \/ JoinTimeout \/ Terminate
  BY <1>2 DEF JoinFinished, JoinTimeout, Terminate
<1>3. CASE RunnerStopGuard \/ RunnerStopSet \/ RunnerStopEvent \/ Seal \/ CloseChannel
  BY <1>3 DEF RunnerStopGuard, RunnerStopSet, RunnerStopEvent, Seal, CloseChannel
<1>4. CASE ObserveStop
  BY <1>4 DEF ObserveStop
<1>5. CASE TraceState \/ TraceEvents \/ TraceCheckpoints
  BY <1>5 DEF TraceState, TraceEvents, TraceCheckpoints
<1>6. CASE VerifyOrCensor
  BY <1>6 DEF VerifyOrCensor
<1>7. CASE FinalManifest
  BY <1>7 DEF FinalManifest
<1>8. CASE Publish \/ Cleanup
  BY <1>8 DEF Publish, Cleanup
<1> QED
  BY <1>1, <1>2, <1>3, <1>4, <1>5, <1>6, <1>7, <1>8 DEF RunnerStep

LEMMA RunnerLength ==
  ASSUME IInv, RunnerStep
  PROVE  LengthInv'
<1> USE DEF IInv, TypeOK, SessionTypeOK, RecordType, LengthInv, svars, sessionVars
<1>1. Len(events) \in Nat
  OBVIOUS
<1>2. CASE RunnerStopEvent
  <2>1. Len(events') = Len(events) + 1
    BY <1>2 DEF RunnerStopEvent, Log
  <2> QED BY <1>1, <1>2, <2>1 DEF RunnerStopEvent
<1>3. CASE TraceEvents
  BY <1>1, <1>3 DEF TraceEvents
<1>4. CASE ~RunnerStopEvent /\ ~TraceEvents
  <2>1. UNCHANGED events /\ record'.length = record.length
    BY <1>4 DEF RunnerStep, Setup, SetupError, JoinFinished, JoinTimeout, Terminate,
                RunnerStopGuard, RunnerStopSet, Seal, CloseChannel, ObserveStop, TraceState,
                TraceCheckpoints, VerifyOrCensor, FinalManifest, Publish, TrialError, Cleanup
  <2> QED BY <2>1
<1> QED BY <1>2, <1>3, <1>4

-----------------------------------------------------------------------------
(* The theorems.                                                           *)

LEMMA NextPreserves == IInv /\ [Next]_vars => IInv'
<1> SUFFICES ASSUME IInv, [Next]_vars PROVE IInv'
  OBVIOUS
<1>1. CASE AdapterStep /\ UNCHANGED runnerVars
  BY <1>1, AdapterPreserves
<1>2. CASE RunnerStep
  BY <1>2, RunnerTypes, RunnerThreads, RunnerVersions, RunnerLength DEF IInv
<1>3. CASE UNCHANGED vars
  BY <1>3 DEF vars, svars, sessionVars, threadVars, runnerVars, IInv, TypeOK, SessionTypeOK,
              CallInv, ThreadInv, VersionInv, VerifiedAtRest, LengthInv, DeletedInv, Alive, Censored
<1> QED BY <1>1, <1>2, <1>3 DEF Next

THEOREM Invariance == Spec => []IInv
  BY InitEstablishes, NextPreserves, PTL DEF Spec

(* The variables of a trial hold values of their types whatever the family *)
(* allows; in particular remaining_cost never goes below zero.             *)
THEOREM TypeCorrectness == Spec => []TypeOK
<1>1. IInv => TypeOK
  BY DEF IInv
<1> QED BY <1>1, Invariance, PTL

(* Whenever the runner has deleted a workspace, its adapter thread is dead. *)
THEOREM WorkspaceKept == Spec => []LiveWorkspaceKept
<1>1. IInv => LiveWorkspaceKept
  BY DEF IInv, LiveWorkspaceKept, DeletedInv, ThreadInv, AfterJoin, RunnerPoints
<1> QED BY <1>1, Invariance, PTL

(* A verified workspace is at rest: observer, verifier and final manifest  *)
(* read the same files, which no thread can change any more.               *)
THEOREM VerificationAtRest == Spec => []VerifiedAtRest
<1>1. IInv => VerifiedAtRest
  BY DEF IInv, VersionInv
<1> QED BY <1>1, Invariance, PTL

-----------------------------------------------------------------------------
(* The budget: the balance a trace shows depends only on its accepted      *)
(* actions.                                                                *)

LEMMA MaxOfPositions ==
  ASSUME NEW n \in Nat, NEW S \in SUBSET (1..n), S # {}
  PROVE  Max(S) \in S /\ \A i \in S : i <= Max(S)
<1> DEFINE T == {d \in Nat : n - d \in S}
<1>1. PICK s \in S : TRUE
  OBVIOUS
<1>2. s \in 1..n /\ n - s \in Nat /\ n - (n - s) = s
  OBVIOUS
<1>3. T \in SUBSET Nat /\ T # {}
  BY <1>1, <1>2
<1>4. PICK d \in T : \A e \in T : d <= e
  <2>1. PICK d \in T : \A e \in T : ~ (<<e, d>> \in OpToRel(<, Nat))
    BY <1>3, NatLessThanWellFounded, WFMin
  <2>2. \A e \in T : ~ (e < d)
    BY <1>3, <2>1 DEF OpToRel
  <2> QED BY <1>3, <2>2
<1>5. \A i \in S : n - d >= i
  <2> SUFFICES ASSUME NEW i \in S PROVE n - d >= i
    OBVIOUS
  <2>1. i \in 1..n /\ n - i \in Nat /\ n - (n - i) = i
    OBVIOUS
  <2>2. n - i \in T
    BY <2>1
  <2>3. d <= n - i /\ d \in Nat
    BY <1>4, <2>2
  <2> QED BY <2>1, <2>3
<1>6. \E x \in S : \A y \in S : x >= y
  BY <1>4, <1>5
<1>7. Max(S) \in S /\ \A y \in S : Max(S) >= y
  BY <1>6 DEF Max
<1> QED BY <1>7

LEMMA SameBalance ==
  ASSUME NEW a, NEW b, NEW j \in Nat \ {0},
         \A i \in 1..j-1 : a[i].kind = b[i].kind /\ a[i].remaining = b[i].remaining
  PROVE  Balance(a, j) = Balance(b, j)
<1>1. PaidBefore(a, j) = PaidBefore(b, j)
  BY DEF PaidBefore, IsAction
<1>2. CASE PaidBefore(a, j) = {}
  BY <1>1, <1>2 DEF Balance
<1>3. CASE PaidBefore(a, j) # {}
  <2>1. PaidBefore(a, j) \in SUBSET (1..j-1) /\ j - 1 \in Nat
    BY DEF PaidBefore
  <2>2. Max(PaidBefore(a, j)) \in 1..j-1
    BY <1>3, <2>1, MaxOfPositions
  <2> QED BY <1>1, <2>2 DEF Balance
<1> QED BY <1>2, <1>3

\* An entry that is not an action changes nothing; an action sets the balance.
LEMMA NextBalance ==
  ASSUME NEW a, NEW n \in Nat
  PROVE  Balance(a, n + 2) = IF IsAction(a[n + 1]) THEN a[n + 1].remaining
                             ELSE Balance(a, n + 1)
<1>1. (n + 2) - 1 = n + 1 /\ (n + 1) - 1 = n
  OBVIOUS
<1>2. PaidBefore(a, n + 2) = {i \in 1..n+1 : IsAction(a[i])}
  BY <1>1 DEF PaidBefore
<1>3. PaidBefore(a, n + 1) = {i \in 1..n : IsAction(a[i])}
  BY <1>1 DEF PaidBefore
<1>4. CASE IsAction(a[n + 1])
  <2> DEFINE S == PaidBefore(a, n + 2)
  <2>1. n + 1 \in S
    BY <1>2, <1>4
  <2>2. S \in SUBSET (1..n+1) /\ n + 1 \in Nat
    BY <1>2
  <2>3. Max(S) \in S /\ \A i \in S : i <= Max(S)
    BY <2>1, <2>2, MaxOfPositions
  <2>4. Max(S) \in 1..n+1 /\ n + 1 <= Max(S)
    BY <2>1, <2>2, <2>3
  <2>5. Max(S) = n + 1
    BY <2>4
  <2> QED BY <1>4, <2>1, <2>5 DEF Balance
<1>5. CASE ~IsAction(a[n + 1])
  <2>1. PaidBefore(a, n + 2) = PaidBefore(a, n + 1)
    BY <1>2, <1>3, <1>5
  <2> QED BY <1>5, <2>1 DEF Balance
<1> QED BY <1>4, <1>5

-----------------------------------------------------------------------------
(* The steps of a trial, as the ledger sees them.                          *)

LedgerInv ==
  /\ LedgerBalances
  /\ Balance(events, Len(events) + 1) \in Nat

Held == remaining + InFlight

LEMMA MatchesLower ==
  ASSUME NEW held \in Nat, NEW lower \in Nat, NEW shown \in Nat, Matches(held, shown),
         lower = held \/ (Raising # {} /\ lower <= held)
  PROVE  Matches(lower, shown)
  BY DEF Matches

LEMMA MatchesSelf ==
  ASSUME NEW held \in Nat
  PROVE  Matches(held, held)
  BY DEF Matches

LEMMA HeldTyped ==
  ASSUME TypeOK, CallInv
  PROVE  Held \in Nat /\ InFlight \in Nat
<1>1. remaining \in Nat
  BY DEF TypeOK, SessionTypeOK
<1>2. InFlight \in Nat
  <2>1. wpc \in {"perform", "accept"} => Cost[call.action] \in Nat
    BY DEF CallInv
  <2> QED BY <2>1 DEF InFlight
<1> QED BY <1>1, <1>2 DEF Held

LEMMA HeldTypedNext ==
  ASSUME TypeOK', CallInv'
  PROVE  Held' \in Nat
<1>1. \A a, b \in Nat : a + b \in Nat
  OBVIOUS
<1>2. remaining' \in Nat
  BY DEF TypeOK, SessionTypeOK
<1>3. InFlight' \in Nat
  <2>1. wpc' \in {"perform", "accept"} => Cost[call'.action] \in Nat
    BY DEF CallInv
  <2> QED BY <2>1 DEF InFlight
<1> QED BY <1>1, <1>2, <1>3 DEF Held

\* Nothing is logged; what a call that raised was charged is gone.
LEMMA QuietStep ==
  ASSUME TypeOK, CallInv, TypeOK', CallInv', LedgerInv, UNCHANGED events,
         Held' = Held \/ (Raising # {} /\ Held' <= Held)
  PROVE  LedgerInv'
<1>1. Held \in Nat /\ Held' \in Nat
  BY HeldTyped, HeldTypedNext
<1>2. Balance(events', Len(events') + 1) = Balance(events, Len(events) + 1)
  OBVIOUS
<1>3. Matches(Held, Balance(events, Len(events) + 1))
  BY DEF LedgerInv, LedgerBalances, Held
<1>4. Matches(Held', Balance(events, Len(events) + 1))
  <2>1. Balance(events, Len(events) + 1) \in Nat
    BY DEF LedgerInv
  <2> QED BY <1>1, <1>3, <2>1, MatchesLower
<1>5. \A j \in 1..Len(events') :
        IsAction(events'[j]) =>
          Matches(events'[j].remaining + Cost[events'[j].action], Balance(events', j))
  BY DEF LedgerInv, LedgerBalances
<1>6. Balance(events', Len(events') + 1) \in Nat
  BY DEF LedgerInv
<1> QED BY <1>2, <1>4, <1>5, <1>6 DEF LedgerInv, LedgerBalances, Held

\* The entries logged so far keep their action and balance; the new one, if
\* there is one, is an action that shows what the call in flight left.
LEMMA LoggedStep ==
  ASSUME TypeOK, CallInv, TypeOK', CallInv', LedgerInv,
         NEW n \in Nat, n = Len(events), Len(events') = n + 1,
         \A i \in 1..n : events'[i] = events[i],
         \/ ~IsAction(events'[n + 1]) /\ Held' = Held
         \/ /\ IsAction(events'[n + 1])
            /\ events'[n + 1].remaining + Cost[events'[n + 1].action] = Held
            /\ Held' = events'[n + 1].remaining
  PROVE  LedgerInv'
<1> DEFINE new == events'
<1>1. ASSUME NEW j \in 1..n+1 PROVE Balance(new, j) = Balance(events, j)
  <2>1. j \in Nat \ {0} /\ \A i \in 1..j-1 : i \in 1..n
    OBVIOUS
  <2>2. \A i \in 1..j-1 : new[i].kind = events[i].kind
                          /\ new[i].remaining = events[i].remaining
    BY <2>1
  <2> HIDE DEF new
  <2> QED BY <2>1, <2>2, SameBalance
<1>2. Balance(new, n + 2) = IF IsAction(new[n + 1]) THEN new[n + 1].remaining
                            ELSE Balance(new, n + 1)
  BY NextBalance
<1>3. /\ Matches(Held, Balance(events, n + 1))
      /\ Balance(events, n + 1) \in Nat
  BY DEF LedgerInv, LedgerBalances, Held
<1>4. Balance(new, n + 1) = Balance(events, n + 1)
  BY <1>1
<1>5. Held' \in Nat
  BY HeldTyped, HeldTypedNext
<1>6. Matches(Held', Balance(new, n + 2)) /\ Balance(new, n + 2) \in Nat
  <2>1. CASE IsAction(new[n + 1])
    <3>1. Balance(new, n + 2) = Held'
      BY <1>2, <2>1
    <3> QED BY <1>5, <3>1, MatchesSelf
  <2>2. CASE ~IsAction(new[n + 1]) /\ Held' = Held
    BY <1>2, <1>3, <1>4, <2>2
  <2> QED BY <2>1, <2>2
<1>7. ASSUME NEW j \in 1..n+1, IsAction(new[j])
      PROVE  Matches(new[j].remaining + Cost[new[j].action], Balance(new, j))
  <2>1. CASE j \in 1..n
    <3>1. new[j] = events[j] /\ Balance(new, j) = Balance(events, j)
      BY <1>1, <2>1
    <3> QED BY <1>7, <2>1, <3>1 DEF LedgerInv, LedgerBalances
  <2>2. CASE j = n + 1
    BY <1>3, <1>4, <1>7, <2>2
  <2> QED BY <2>1, <2>2
<1>8. (n + 1) + 1 = n + 2
  OBVIOUS
<1>9. Matches(Held', Balance(events', Len(events') + 1))
      /\ Balance(events', Len(events') + 1) \in Nat
  BY <1>6, <1>8
<1>10. \A j \in 1..Len(events') :
         IsAction(events'[j]) =>
           Matches(events'[j].remaining + Cost[events'[j].action], Balance(events', j))
  BY <1>7
<1> QED BY <1>9, <1>10 DEF LedgerInv, LedgerBalances, Held

\* edit_file adds its two hashes to the last entry and touches nothing else.
LEMMA AnnotatedEntries ==
  ASSUME TypeOK, Annotate
  PROVE  /\ Len(events') = Len(events) /\ Len(events) \in Nat
         /\ \A i \in 1..Len(events) :
              /\ events'[i].kind = events[i].kind
              /\ events'[i].action = events[i].action
              /\ events'[i].error = events[i].error
              /\ events'[i].remaining = events[i].remaining
              /\ i # Len(events) => events'[i] = events[i]
              /\ i = Len(events) => events'[i].before = disk - 1 /\ events'[i].after = disk
<1>1. DOMAIN events = 1..Len(events) /\ Len(events) \in Nat
  BY DEF TypeOK, SessionTypeOK
<1>2. DOMAIN events' = DOMAIN events
  BY DEF Annotate
<1>3. events' \in Seq(EventType)
  <2>1. disk - 1 \in Nat /\ disk \in Nat
    BY DEF TypeOK, SessionTypeOK
  <2> QED BY <1>1, <2>1, AnnotationTyped DEF Annotate, TypeOK, SessionTypeOK
<1>4. Len(events') = Len(events)
  <2>1. DOMAIN events' = 1..Len(events') /\ Len(events') \in Nat
    BY <1>3
  <2> QED BY <1>1, <1>2, <2>1
<1>5. ASSUME NEW i \in 1..Len(events)
      PROVE  /\ events'[i].kind = events[i].kind
             /\ events'[i].action = events[i].action
             /\ events'[i].error = events[i].error
             /\ events'[i].remaining = events[i].remaining
             /\ i # Len(events) => events'[i] = events[i]
             /\ i = Len(events) => events'[i].before = disk - 1 /\ events'[i].after = disk
  <2>1. events[i] \in EventType
    BY DEF TypeOK, SessionTypeOK
  <2>2. DOMAIN events[i] = {"kind", "action", "error", "remaining", "before", "after"}
    BY <2>1 DEF EventType
  <2>3. CASE i # Len(events)
    BY <1>1, <2>3 DEF Annotate
  <2>4. CASE i = Len(events)
    <3>1. events'[i] = [events[i] EXCEPT !.before = disk - 1, !.after = disk]
      BY <1>1, <2>4 DEF Annotate
    <3> QED BY <2>2, <2>4, <3>1
  <2> QED BY <2>3, <2>4
<1> QED BY <1>1, <1>4, <1>5

\* The hashes edit_file adds to the last entry change no balance.
LEMMA AnnotatedStep ==
  ASSUME TypeOK, CallInv, LedgerInv, Annotate
  PROVE  LedgerInv'
<1>1. Held' = Held
  BY DEF Annotate, Go, Held, InFlight
<1>2. /\ Len(events') = Len(events) /\ Len(events) \in Nat
      /\ \A i \in 1..Len(events) : /\ events'[i].kind = events[i].kind
                                   /\ events'[i].action = events[i].action
                                   /\ events'[i].remaining = events[i].remaining
  BY AnnotatedEntries
<1>3. ASSUME NEW j \in 1..Len(events)+1 PROVE Balance(events', j) = Balance(events, j)
  <2> DEFINE new == events'
  <2>1. j \in Nat \ {0} /\ \A i \in 1..j-1 : i \in 1..Len(events)
    BY <1>2
  <2>2. \A i \in 1..j-1 : new[i].kind = events[i].kind
                          /\ new[i].remaining = events[i].remaining
    BY <1>2, <2>1
  <2> HIDE DEF new
  <2>3. Balance(new, j) = Balance(events, j)
    BY <2>1, <2>2, SameBalance
  <2> QED BY <2>3 DEF new
<1>4. /\ Matches(Held', Balance(events', Len(events') + 1))
      /\ Balance(events', Len(events') + 1) \in Nat
  BY <1>1, <1>2, <1>3 DEF LedgerInv, LedgerBalances, Held
<1>5. \A j \in 1..Len(events') :
        IsAction(events'[j]) =>
          Matches(events'[j].remaining + Cost[events'[j].action], Balance(events', j))
  BY <1>2, <1>3 DEF LedgerInv, LedgerBalances, IsAction
<1> QED BY <1>4, <1>5 DEF LedgerInv, LedgerBalances, Held

LEMMA AppendedEntries ==
  ASSUME TypeOK, NEW e, Log(e)
  PROVE  /\ Len(events) \in Nat
         /\ Len(events') = Len(events) + 1
         /\ \A i \in 1..Len(events) : events'[i] = events[i]
         /\ events'[Len(events) + 1] = e
  BY DEF TypeOK, SessionTypeOK, Log

\* What the adapter's steps do to the trace and to what the session holds.
LEMMA AdapterHeld ==
  ASSUME TypeOK, CallInv, AdapterStep
  PROVE  \/ UNCHANGED events /\ Held' = Held
         \/ /\ PerformRaise /\ UNCHANGED events
            /\ Held' = remaining /\ Held = remaining + Cost[call.action]
         \/ \E e : Log(e) /\ ~IsAction(e) /\ Held' = Held
         \/ /\ Accept
            /\ Held' = remaining /\ Held = remaining + Cost[call.action]
         \/ Annotate /\ Held' = Held
<1>1. /\ remaining \in Nat
      /\ wpc \in {"charge", "perform", "accept"} => Cost[call.action] \in Nat
  BY DEF TypeOK, SessionTypeOK, CallInv
<1>2. CASE (\E c \in Calls : BeginCall(c)) \/ (\E r \in Outcomes : Finish(r)) \/ Lookup
           \/ ReserveGuard \/ ReserveBound \/ ReserveLimit
           \/ Reject("reject", "reject_event") \/ Reject("reject_write", "write_event")
           \/ CheckpointGuard \/ CheckpointBound \/ CheckpointLimit \/ CheckpointFull
           \/ CheckpointRecord \/ StopGuard \/ StopSet
  <2>1. UNCHANGED <<events, remaining>>
    BY <1>2 DEF BeginCall, Finish, Lookup, ReserveGuard, ReserveBound, ReserveLimit, Reject,
         CheckpointGuard, CheckpointBound, CheckpointLimit, CheckpointFull, CheckpointRecord,
         StopGuard, StopSet, Go, sessionVars
  <2>2. wpc \notin {"perform", "accept"} /\ wpc' \notin {"perform", "accept"}
    <3>1. CASE (\E c \in Calls : BeginCall(c)) \/ (\E r \in Outcomes : Finish(r))
      BY <3>1 DEF BeginCall, Finish, Go
    <3>2. CASE Lookup
      BY <3>2 DEF Lookup, Entry, Calls, CallInv, InCall, ThreadPoints
    <3>3. CASE ReserveGuard \/ ReserveBound \/ ReserveLimit
               \/ Reject("reject", "reject_event") \/ Reject("reject_write", "write_event")
      BY <3>3 DEF ReserveGuard, ReserveBound, ReserveLimit, Reject, Go
    <3>4. CASE CheckpointGuard \/ CheckpointBound \/ CheckpointLimit \/ CheckpointFull
               \/ CheckpointRecord \/ StopGuard \/ StopSet
      BY <3>4 DEF CheckpointGuard, CheckpointBound, CheckpointLimit, CheckpointFull,
           CheckpointRecord, StopGuard, StopSet, Go
    <3> QED BY <1>2, <3>1, <3>2, <3>3, <3>4
  <2>3. Held' = Held
    BY <2>1, <2>2 DEF Held, InFlight
  <2> QED BY <2>1, <2>3
<1>3. CASE ReserveCharge \/ PerformOk \/ PerformRefused \/ PerformWriteError
  <2>1. UNCHANGED events
    BY <1>3 DEF ReserveCharge, PerformOk, PerformRefused, PerformWriteError, sessionVars
  <2>2. ReserveCharge => Held' = Held
    BY <1>1 DEF ReserveCharge, Go, Held, InFlight
  <2>3. PerformOk => Held' = Held
    BY DEF PerformOk, Go, Held, InFlight, sessionVars
  <2>4. PerformRefused => Held' = Held
    BY <1>1 DEF PerformRefused, Go, Held, InFlight
  <2>5. PerformWriteError => Held' = Held
    BY <1>1 DEF PerformWriteError, Go, Held, InFlight
  <2>6. Held' = Held
    BY <1>3, <2>2, <2>3, <2>4, <2>5
  <2> QED BY <2>1, <2>6
<1>4. CASE PerformRaise
  <2>1. UNCHANGED events /\ Held' = remaining /\ Held = remaining + Cost[call.action]
    BY <1>1, <1>4 DEF PerformRaise, Go, Held, InFlight, sessionVars
  <2> QED BY <1>4, <2>1
<1>5. CASE RejectEvent \/ CheckpointEvent \/ StopEvent
  BY <1>5 DEF RejectEvent, CheckpointEvent, StopEvent, LogAndReturn, Event, IsAction, Go,
              Held, InFlight
<1>6. CASE Accept
  <2>1. Held = remaining + Cost[call.action] /\ Held' = remaining
    BY <1>1, <1>6 DEF Accept, Go, Held, InFlight
  <2> QED BY <1>6, <2>1
<1>7. CASE Annotate
  <2>1. Held' = Held
    BY <1>7 DEF Annotate, Go, Held, InFlight
  <2> QED BY <1>7, <2>1
<1> QED
  BY <1>2, <1>3, <1>4, <1>5, <1>6, <1>7 DEF AdapterStep, ToolStep

LEMMA AdapterLedger ==
  ASSUME IInv, LedgerInv, AdapterStep, UNCHANGED runnerVars
  PROVE  LedgerInv'
<1>1. TypeOK /\ CallInv /\ TypeOK' /\ CallInv'
  BY AdapterPreserves DEF IInv
<1>2. remaining \in Nat /\ (wpc \in {"perform", "accept"} => Cost[call.action] \in Nat)
  BY <1>1 DEF TypeOK, SessionTypeOK, CallInv
<1>3. CASE UNCHANGED events /\ Held' = Held
  BY <1>1, <1>3, QuietStep
<1>4. CASE /\ PerformRaise /\ UNCHANGED events
           /\ Held' = remaining /\ Held = remaining + Cost[call.action]
  <2>1. Raising # {} /\ wpc = "perform"
    BY <1>4 DEF PerformRaise, Go
  <2>2. Held' <= Held
    BY <1>2, <1>4, <2>1
  <2> QED BY <1>1, <1>4, <2>1, <2>2, QuietStep
<1>5. CASE \E e : Log(e) /\ ~IsAction(e) /\ Held' = Held
  <2>1. PICK e : Log(e) /\ ~IsAction(e) /\ Held' = Held
    BY <1>5
  <2> QED BY <1>1, <2>1, AppendedEntries, LoggedStep
<1>6. CASE Accept /\ Held' = remaining /\ Held = remaining + Cost[call.action]
  <2> DEFINE e == Event("action", call.action, "none")
  <2>1. Log(e)
    BY <1>6 DEF Accept
  <2>2. IsAction(e) /\ e.action = call.action /\ e.remaining = remaining
    BY DEF Event, IsAction
  <2> HIDE DEF e
  <2> QED BY <1>1, <1>6, <2>1, <2>2, AppendedEntries, LoggedStep
<1>7. CASE Annotate
  BY <1>1, <1>7, AnnotatedStep
<1> QED
  BY <1>1, <1>3, <1>4, <1>5, <1>6, <1>7, AdapterHeld

LEMMA RunnerHeld ==
  ASSUME IInv, RunnerStep
  PROVE  /\ Held' = Held
         /\ UNCHANGED wpc \/ Setup
         /\ UNCHANGED events \/ RunnerStopEvent
<1>1. UNCHANGED <<remaining, call>> /\ (UNCHANGED wpc \/ Setup)
  BY DEF RunnerStep, Setup, SetupError, JoinFinished, JoinTimeout, Terminate,
         RunnerStopGuard, RunnerStopSet, RunnerStopEvent, Seal, CloseChannel, ObserveStop,
         TraceState, TraceEvents, TraceCheckpoints, VerifyOrCensor, FinalManifest, Publish,
         TrialError, Cleanup, svars, sessionVars, threadVars
<1>2. Setup => wpc = "unborn" /\ wpc' = "ready"
  BY DEF Setup, RunnerGo, IInv, ThreadInv
<1>3. Held' = Held
  BY <1>1, <1>2 DEF Held, InFlight
<1>4. UNCHANGED events \/ RunnerStopEvent
  BY DEF RunnerStep, Setup, SetupError, JoinFinished, JoinTimeout, Terminate,
         RunnerStopGuard, RunnerStopSet, Seal, CloseChannel, ObserveStop, TraceState,
         TraceEvents, TraceCheckpoints, VerifyOrCensor, FinalManifest, Publish, TrialError,
         Cleanup, svars, sessionVars
<1> QED BY <1>1, <1>3, <1>4

LEMMA RunnerLedger ==
  ASSUME IInv, LedgerInv, RunnerStep
  PROVE  LedgerInv'
<1>1. TypeOK /\ CallInv /\ TypeOK' /\ CallInv'
  BY RunnerTypes, RunnerThreads DEF IInv
<1>2. Held' = Held /\ (UNCHANGED events \/ RunnerStopEvent)
  BY RunnerHeld
<1>3. CASE RunnerStopEvent
  <2> DEFINE e == Event("stop", "runner", "none")
  <2>1. Log(e) /\ ~IsAction(e)
    BY <1>3 DEF RunnerStopEvent, Event, IsAction
  <2> HIDE DEF e
  <2> QED BY <1>1, <1>2, <2>1, AppendedEntries, LoggedStep
<1>4. CASE UNCHANGED events
  BY <1>1, <1>2, <1>4, QuietStep
<1> QED BY <1>2, <1>3, <1>4

-----------------------------------------------------------------------------
(* The theorem.                                                            *)

LEMMA LedgerInit == Init => LedgerInv
<1> SUFFICES ASSUME Init PROVE LedgerInv
  OBVIOUS
<1>1. events = <<>> /\ Len(events) = 0 /\ remaining = MaxCost /\ InFlight = 0
  BY DEF Init, SessionInit, InFlight
<1>2. PaidBefore(events, Len(events) + 1) = {}
  BY <1>1 DEF PaidBefore
<1>3. Balance(events, Len(events) + 1) = MaxCost
  BY <1>2 DEF Balance
<1>4. Matches(remaining + InFlight, MaxCost)
  BY <1>1 DEF Matches
<1> QED BY <1>1, <1>3, <1>4 DEF LedgerInv, LedgerBalances

(* For every family and adapter, the balances a trace prints follow from   *)
(* its accepted actions, and the session holds the last of them less the   *)
(* call in flight (and less only what calls that raised were charged).     *)
THEOREM LedgerCorrectness == Spec => []LedgerBalances
<1>1. ASSUME IInv, LedgerInv, [Next]_vars PROVE LedgerInv'
  <2>1. CASE AdapterStep /\ UNCHANGED runnerVars
    BY <1>1, <2>1, AdapterLedger
  <2>2. CASE RunnerStep
    BY <1>1, <2>2, RunnerLedger
  <2>3. CASE UNCHANGED vars
    BY <1>1, <2>3 DEF vars, svars, sessionVars, threadVars, LedgerInv, LedgerBalances, InFlight
  <2> QED BY <1>1, <2>1, <2>2, <2>3 DEF Next
<1>2. LedgerInv => LedgerBalances
  BY DEF LedgerInv
<1> QED BY <1>1, <1>2, LedgerInit, Invariance, PTL DEF Spec

-----------------------------------------------------------------------------
(* Late effects.  Sealing closes the guard of every tool, so the call past *)
(* its guard when the session is sealed is the last that writes or logs.   *)

Unsealed == {"setup", "join", "terminate", "stop", "stop_set", "stop_event", "seal"}

SealInv ==
  /\ rpc \in Unsealed => ~sealed
  /\ rpc \in Unsealed \cup {"pop", "observe"} => record = EmptyRecord
  /\ rpc \in {"pop"} \cup Recording => sealed
  /\ rpc \in Recording \ {"observe"} => record.observed # NoVersion
  /\ rpc \in {"trace_checkpoints", "verify", "manifest", "publish"} => record.traced
  /\ record.traced => record.observed # NoVersion
  /\ record.observed # NoVersion => sealed
  /\ published # NoRun => sealed /\ rpc \in {"finally", "done"}

Writing == wpc \in {"bound", "charge", "perform"}
Logging == wpc \in {"bound", "charge", "perform", "accept", "reject_event", "write_event",
                    "cp_bound", "cp_limit", "cp_full", "cp_record", "cp_event", "cp_reject",
                    "stop_set", "stop_event"}

LateInv ==
  /\ record.observed # NoVersion =>
        /\ disk <= record.observed + 1
        /\ Writing => disk <= record.observed
  /\ record.traced =>
        /\ Len(events) <= record.length + 1
        /\ Logging => Len(events) <= record.length

LEMMA AdapterSeal ==
  ASSUME TypeOK, SealInv, AdapterStep, UNCHANGED runnerVars
  PROVE  SealInv' /\ sealed' = sealed
<1>1. sealed' = sealed
  BY DEF AdapterStep, ToolStep, BeginCall, Finish, Lookup, ReserveGuard, ReserveBound,
       ReserveLimit, ReserveCharge, PerformOk, PerformRefused, PerformWriteError, PerformRaise,
       Accept, Annotate, Reject, RejectEvent, CheckpointGuard, CheckpointBound,
       CheckpointLimit, CheckpointFull, CheckpointRecord, CheckpointEvent, StopGuard, StopSet,
       StopEvent, LogAndReturn, sessionVars
<1> QED BY <1>1 DEF SealInv, runnerVars

LEMMA RunnerSeal ==
  ASSUME IInv, SealInv, RunnerStep
  PROVE  SealInv'
<1> USE DEF IInv, SealInv, RunnerGo, svars, sessionVars, Unsealed, Recording
<1>1. record \in RecordType /\ disk # NoVersion
  BY DEF TypeOK, SessionTypeOK
<1>2. CASE Setup \/ SetupError \/ TrialError
  BY <1>2 DEF Setup, SetupError, TrialError
<1>3. CASE JoinFinished \/ JoinTimeout \/ Terminate
  BY <1>3 DEF JoinFinished, JoinTimeout, Terminate
<1>4. CASE RunnerStopGuard \/ RunnerStopSet \/ RunnerStopEvent
  BY <1>4 DEF RunnerStopGuard, RunnerStopSet, RunnerStopEvent
<1>5. CASE Seal \/ CloseChannel
  BY <1>5 DEF Seal, CloseChannel
<1>6. CASE ObserveStop
  BY <1>1, <1>6 DEF ObserveStop, RecordType
<1>7. CASE TraceState \/ TraceEvents \/ TraceCheckpoints
  BY <1>1, <1>7 DEF TraceState, TraceEvents, TraceCheckpoints, RecordType
<1>8. CASE VerifyOrCensor \/ FinalManifest
  BY <1>1, <1>8 DEF VerifyOrCensor, FinalManifest, RecordType
<1>9. CASE Publish \/ Cleanup
  BY <1>9 DEF Publish, Cleanup
<1> QED BY <1>2, <1>3, <1>4, <1>5, <1>6, <1>7, <1>8, <1>9 DEF RunnerStep

\* A step that writes or logs at most once, and only where it was still allowed to.
LEMMA LateStep ==
  ASSUME TypeOK, SealInv, LateInv, record' = record, disk' \in Nat, Len(events') \in Nat,
         sealed => \/ disk' = disk /\ (Writing' => Writing)
                   \/ disk' <= disk + 1 /\ Writing /\ ~Writing',
         sealed => \/ Len(events') = Len(events) /\ (Logging' => Logging)
                   \/ Len(events') = Len(events) + 1 /\ Logging /\ ~Logging'
  PROVE  LateInv'
<1> DEFINE n == Len(events)
           m == Len(events')
<1>1. /\ record.observed \in Nat /\ record.length \in Nat
      /\ disk \in Nat /\ n \in Nat /\ m \in Nat /\ disk' \in Nat
  BY DEF TypeOK, SessionTypeOK, RecordType
<1>2. record.observed # NoVersion =>
        disk' <= record.observed + 1 /\ (Writing' => disk' <= record.observed)
  BY <1>1 DEF LateInv, SealInv
<1>3. record.traced => m <= record.length + 1 /\ (Logging' => m <= record.length)
  BY <1>1 DEF LateInv, SealInv
<1> QED BY <1>2, <1>3 DEF LateInv

LEMMA AdapterLate ==
  ASSUME IInv, SealInv, LateInv, AdapterStep, UNCHANGED runnerVars
  PROVE  LateInv'
<1>1. TypeOK /\ CallInv /\ TypeOK'
  BY AdapterPreserves DEF IInv
<1>2. /\ disk \in Nat /\ Len(events) \in Nat /\ disk' \in Nat /\ Len(events') \in Nat
      /\ record' = record
  BY <1>1 DEF TypeOK, SessionTypeOK, runnerVars
<1>3. CASE (\E c \in Calls : BeginCall(c)) \/ (\E r \in Outcomes : Finish(r)) \/ Lookup
           \/ ReserveGuard \/ ReserveBound \/ ReserveLimit \/ ReserveCharge
           \/ Reject("reject", "reject_event") \/ Reject("reject_write", "write_event")
           \/ CheckpointGuard \/ CheckpointBound \/ CheckpointLimit \/ CheckpointFull
           \/ CheckpointRecord \/ StopGuard \/ StopSet
  <2>1. UNCHANGED <<events, disk>>
    BY <1>3 DEF BeginCall, Finish, Lookup, ReserveGuard, ReserveBound, ReserveLimit,
         ReserveCharge, Reject, CheckpointGuard, CheckpointBound, CheckpointLimit,
         CheckpointFull, CheckpointRecord, StopGuard, StopSet, sessionVars
  <2>2. sealed => (Writing' => Writing) /\ (Logging' => Logging)
    <3>1. CASE (\E c \in Calls : BeginCall(c)) \/ (\E r \in Outcomes : Finish(r))
      BY <3>1 DEF BeginCall, Finish, Go, Writing, Logging
    <3>2. CASE Lookup
      BY <1>1, <3>2 DEF Lookup, Entry, Calls, CallInv, InCall, ThreadPoints, Writing, Logging
    <3>3. CASE ReserveGuard \/ ReserveBound \/ ReserveLimit \/ ReserveCharge
               \/ Reject("reject", "reject_event")
               \/ Reject("reject_write", "write_event")
      BY <3>3 DEF ReserveGuard, ReserveBound, ReserveLimit, ReserveCharge, Reject, Go, Writing,
           Logging
    <3>4. CASE CheckpointGuard \/ CheckpointBound \/ CheckpointLimit \/ CheckpointFull
               \/ CheckpointRecord \/ StopGuard \/ StopSet
      BY <3>4 DEF CheckpointGuard, CheckpointBound, CheckpointLimit, CheckpointFull,
           CheckpointRecord, StopGuard, StopSet, MayStop, Go, Writing, Logging
    <3> QED BY <1>3, <3>1, <3>2, <3>3, <3>4
  <2> QED BY <1>1, <1>2, <2>1, <2>2, LateStep
<1>4. CASE PerformOk \/ PerformRefused \/ PerformWriteError \/ PerformRaise
  <2>1. UNCHANGED events /\ Writing /\ ~Writing' /\ Logging
    BY <1>4 DEF PerformOk, PerformRefused, PerformWriteError, PerformRaise, sessionVars, Go,
                Writing, Logging
  <2>2. disk' \in {disk, disk + 1}
    BY <1>4 DEF PerformOk, PerformRefused, PerformWriteError, PerformRaise
  <2>3. disk' <= disk + 1
    BY <1>2, <2>2
  <2> QED BY <1>1, <1>2, <2>1, <2>3, LateStep
<1>5. CASE Accept \/ RejectEvent \/ CheckpointEvent \/ StopEvent
  <2>1. PICK e : Log(e)
    BY <1>5 DEF Accept, RejectEvent, CheckpointEvent, StopEvent, LogAndReturn
  <2>2. UNCHANGED disk /\ ~Writing' /\ Logging /\ ~Logging'
    BY <1>5 DEF Accept, RejectEvent, CheckpointEvent, StopEvent, LogAndReturn, Go, Writing,
                Logging
  <2>3. Len(events') = Len(events) + 1
    BY <1>1, <2>1, AppendedEntries
  <2> QED BY <1>1, <1>2, <2>2, <2>3, LateStep
<1>6. CASE Annotate
  <2>1. UNCHANGED disk /\ ~Writing' /\ ~Logging'
    BY <1>6 DEF Annotate, Go, Writing, Logging
  <2>2. Len(events') = Len(events)
    BY <1>1, <1>6, AnnotatedEntries
  <2> QED BY <1>1, <1>2, <2>1, <2>2, LateStep
<1> QED BY <1>3, <1>4, <1>5, <1>6 DEF AdapterStep, ToolStep

LEMMA RunnerLate ==
  ASSUME IInv, SealInv, LateInv, RunnerStep
  PROVE  LateInv'
<1>1. record \in RecordType /\ disk \in Nat /\ Len(events) \in Nat
  BY DEF IInv, TypeOK, SessionTypeOK
<1>2. CASE Setup \/ SetupError \/ JoinFinished \/ JoinTimeout \/ Terminate
           \/ RunnerStopGuard \/ RunnerStopSet \/ RunnerStopEvent \/ Seal \/ CloseChannel
  <2>1. record = EmptyRecord /\ record' = EmptyRecord
    BY <1>2 DEF Setup, SetupError, JoinFinished, JoinTimeout, Terminate, RunnerStopGuard,
                RunnerStopSet, RunnerStopEvent, Seal, CloseChannel, RunnerGo, SealInv, Unsealed
  <2> QED BY <2>1 DEF LateInv
<1>3. CASE ObserveStop
  <2>1. record = EmptyRecord
    BY <1>3 DEF ObserveStop, RunnerGo, SealInv
  <2>2. record'.observed = disk /\ record'.traced = FALSE /\ disk' = disk
    BY <1>3, <2>1 DEF ObserveStop, svars
  <2> QED BY <1>1, <2>2 DEF LateInv
<1>4. CASE TraceEvents
  <2>1. /\ record'.observed = record.observed /\ record'.length = Len(events)
        /\ UNCHANGED <<disk, events, wpc>>
    BY <1>1, <1>4 DEF TraceEvents, RecordType, svars, sessionVars, threadVars
  <2> QED BY <1>1, <2>1 DEF LateInv, Writing
<1>5. CASE TraceState \/ TraceCheckpoints \/ VerifyOrCensor \/ FinalManifest \/ Publish
           \/ TrialError \/ Cleanup
  <2>1. UNCHANGED <<disk, events, wpc>>
    BY <1>5 DEF TraceState, TraceCheckpoints, VerifyOrCensor, FinalManifest, Publish,
                TrialError, Cleanup, svars, sessionVars, threadVars
  <2>2. /\ record'.observed = record.observed /\ record'.length = record.length
        /\ record'.traced = record.traced
    BY <1>1, <1>5 DEF TraceState, TraceCheckpoints, VerifyOrCensor, FinalManifest, Publish,
                      TrialError, Cleanup, RecordType
  <2> QED BY <1>1, <2>1, <2>2 DEF LateInv, Writing, Logging
<1> QED BY <1>2, <1>3, <1>4, <1>5 DEF RunnerStep

LEMMA LateInit == Init => SealInv /\ LateInv
  BY DEF Init, SealInv, LateInv, Unsealed, Recording, SessionInit

LEMMA LateInvariance == Spec => [](SealInv /\ LateInv)
<1>1. ASSUME IInv, SealInv, LateInv, [Next]_vars PROVE SealInv' /\ LateInv'
  <2>1. CASE AdapterStep /\ UNCHANGED runnerVars
    BY <1>1, <2>1, AdapterSeal, AdapterLate DEF IInv
  <2>2. CASE RunnerStep
    BY <1>1, <2>2, RunnerSeal, RunnerLate
  <2>3. CASE UNCHANGED vars
    BY <1>1, <2>3 DEF vars, svars, sessionVars, threadVars, runnerVars, SealInv, LateInv,
                      Writing, Logging
  <2> QED BY <1>1, <2>1, <2>2, <2>3 DEF Next
<1> QED BY <1>1, LateInit, Invariance, PTL DEF Spec

(* Whatever a hung adapter does after its trial was sealed, at most one    *)
(* event and one write follow the copies the runner took.                  *)
THEOREM LateEffects == Spec => []LateEffectsBounded
<1>1. IInv /\ SealInv /\ LateInv => LateEffectsBounded
  BY DEF SealInv, LateInv, LateEffectsBounded
<1> QED BY <1>1, LateInvariance, Invariance, PTL

-----------------------------------------------------------------------------
(* How an uncensored trial ended.  Until join returns the adapter is alone *)
(* with the session, and after it an uncensored runner is.                 *)

NoStop(trace) == \A i \in 1..Len(trace) : ~IsStop(trace[i])

OneStop(trace) ==
  \E i \in 1..Len(trace) :
     /\ IsStop(trace[i])
     /\ \A j \in 1..Len(trace) : IsStop(trace[j]) => j = i
     /\ \A j \in 1..Len(trace) : j > i => trace[j].kind = "rejected_action"

Settled == IF status = "stopped" THEN OneStop(events) ELSE NoStop(events)

Alone     == rpc \in {"setup", "join"}
Final(at) == rpc \in at /\ ~Censored
Certified == published # NoRun /\ ~published.censored

\* Where the adapter is only while the session is active.
ActivePoints ==
  {"bound", "limit", "charge", "perform", "accept", "cp_bound", "cp_limit", "cp_record",
   "cp_event", "stop_set"}

StopInv ==
  /\ Alone =>
       /\ wpc \in ActivePoints => status = "active"
       /\ wpc \in {"cp_full", "cp_reject"} => status # "stopped"
       /\ wpc = "stop_event" => status = "stopped" /\ NoStop(events)
       /\ wpc # "stop_event" => Settled
  /\ rpc = "terminate" => Censored
  /\ Final({"stop", "stop_set"}) => Settled
  /\ Final({"stop_set"}) => status = "active"
  /\ Final({"stop_event"}) => status = "stopped" /\ NoStop(events)
  /\ Final({"seal", "pop"} \cup Recording) => status # "active" /\ Settled

CopyInv ==
  /\ Final({"trace_events", "trace_checkpoints", "verify", "manifest", "publish"}) =>
       record.status = status /\ record.remaining = remaining
  /\ Final({"trace_checkpoints", "verify", "manifest", "publish"}) =>
       record.length = Len(events)
  /\ Final({"verify", "manifest", "publish"}) => record.checkpoints = checkpoints
  /\ Final({"publish"}) => record.manifest = disk
  /\ Certified =>
       /\ ~Alive
       /\ published.trace = events
       /\ published.record.status = status
       /\ published.record.remaining = remaining
       /\ published.record.checkpoints = checkpoints
       /\ published.record.manifest = disk
       /\ status # "active" /\ Settled

LEMMA SameStops ==
  ASSUME NEW t, NEW u, Len(u) = Len(t), \A i \in 1..Len(t) : u[i].kind = t[i].kind
  PROVE  (NoStop(t) => NoStop(u)) /\ (OneStop(t) => OneStop(u))
<1>1. NoStop(t) => NoStop(u)
  BY DEF NoStop, IsStop
<1>2. OneStop(t) => OneStop(u)
  BY DEF OneStop, IsStop
<1> QED BY <1>1, <1>2

\* An entry that is no stop leaves a trace without one, one that is no
\* stop and accepts nothing leaves the only stop the only one.
LEMMA MoreStops ==
  ASSUME NEW t, NEW u, NEW n \in Nat, Len(t) = n, Len(u) = n + 1,
         \A i \in 1..n : u[i] = t[i]
  PROVE  /\ NoStop(t) /\ ~IsStop(u[n + 1]) => NoStop(u)
         /\ OneStop(t) /\ u[n + 1].kind = "rejected_action" => OneStop(u)
         /\ NoStop(t) /\ IsStop(u[n + 1]) => OneStop(u)
<1>1. \A i \in 1..n+1 : i \in 1..n \/ i = n + 1
  OBVIOUS
<1>2. NoStop(t) /\ ~IsStop(u[n + 1]) => NoStop(u)
  BY <1>1 DEF NoStop
<1>3. OneStop(t) /\ u[n + 1].kind = "rejected_action" => OneStop(u)
  <2> SUFFICES ASSUME OneStop(t), u[n + 1].kind = "rejected_action" PROVE OneStop(u)
    OBVIOUS
  <2>1. PICK i \in 1..n : /\ IsStop(t[i])
                          /\ \A j \in 1..n : IsStop(t[j]) => j = i
                          /\ \A j \in 1..n : j > i => t[j].kind = "rejected_action"
    BY DEF OneStop
  <2>2. i \in 1..n+1 /\ IsStop(u[i])
    BY <2>1
  <2>3. ASSUME NEW j \in 1..n+1
        PROVE  (IsStop(u[j]) => j = i) /\ (j > i => u[j].kind = "rejected_action")
    <3>1. CASE j \in 1..n
      BY <2>1, <3>1
    <3>2. CASE j = n + 1
      BY <3>2 DEF IsStop
    <3> QED BY <1>1, <3>1, <3>2
  <2> QED BY <2>2, <2>3 DEF OneStop
<1>4. NoStop(t) /\ IsStop(u[n + 1]) => OneStop(u)
  <2> SUFFICES ASSUME NoStop(t), IsStop(u[n + 1]) PROVE OneStop(u)
    OBVIOUS
  <2>1. n + 1 \in 1..n+1 /\ \A j \in 1..n+1 : ~(j > n + 1)
    OBVIOUS
  <2>2. \A j \in 1..n+1 : IsStop(u[j]) => j = n + 1
    BY <1>1 DEF NoStop
  <2> QED BY <2>1, <2>2 DEF OneStop
<1> QED BY <1>2, <1>3, <1>4

\* The stops of a trace to which an entry is appended.
LEMMA LoggedStops ==
  ASSUME TypeOK, NEW e, Log(e)
  PROVE  /\ NoStop(events) /\ ~IsStop(e) => NoStop(events')
         /\ OneStop(events) /\ e.kind = "rejected_action" => OneStop(events')
         /\ NoStop(events) /\ IsStop(e) => OneStop(events')
<1>1. /\ Len(events) \in Nat /\ Len(events') = Len(events) + 1
      /\ \A i \in 1..Len(events) : events'[i] = events[i]
      /\ events'[Len(events) + 1] = e
  BY AppendedEntries
<1> HIDE DEF NoStop, OneStop, IsStop
<1> QED BY <1>1, MoreStops

\* While the adapter acts, the trial is running or will be censored.
LEMMA AdapterActs ==
  ASSUME IInv, SealInv, CopyInv, AdapterStep
  PROVE  /\ rpc \in Closing \cup Recording => Censored
         /\ ~Certified
  BY AdapterAlive DEF IInv, ThreadInv, CopyInv

LEMMA AdapterStops ==
  ASSUME IInv, SealInv, StopInv, Alone, AdapterStep
  PROVE  /\ wpc' \in ActivePoints => status' = "active"
         /\ wpc' \in {"cp_full", "cp_reject"} => status' # "stopped"
         /\ wpc' = "stop_event" => status' = "stopped" /\ NoStop(events')
         /\ wpc' # "stop_event" => Settled'
<1>1. TypeOK /\ CallInv /\ ~sealed
  BY DEF IInv, SealInv, Alone, Unsealed
<1>2. CASE (\E c \in Calls : BeginCall(c)) \/ (\E r \in Outcomes : Finish(r)) \/ Lookup
           \/ ReserveGuard \/ Reject("reject", "reject_event")
           \/ Reject("reject_write", "write_event") \/ CheckpointGuard \/ CheckpointFull
           \/ StopGuard
  <2>1. UNCHANGED <<events, status>> /\ wpc # "stop_event"
    BY <1>2 DEF BeginCall, Finish, Lookup, ReserveGuard, Reject, CheckpointGuard,
         CheckpointFull, StopGuard, sessionVars, Go
  <2>2. Settled /\ Settled'
    BY <2>1 DEF StopInv, Settled
  <2>3. /\ wpc' \in ActivePoints => status = "active"
        /\ wpc' \in {"cp_full", "cp_reject"} => status # "stopped"
        /\ wpc' # "stop_event"
    <3>1. CASE (\E c \in Calls : BeginCall(c)) \/ (\E r \in Outcomes : Finish(r))
      BY <3>1 DEF BeginCall, Finish, Go, ActivePoints
    <3>2. CASE Lookup
      BY <1>1, <3>2 DEF Lookup, Entry, Calls, CallInv, InCall, ThreadPoints, ActivePoints
    <3>3. CASE ReserveGuard \/ Reject("reject", "reject_event")
               \/ Reject("reject_write", "write_event")
      BY <3>3 DEF ReserveGuard, Reject, ActivePoints
    <3>4. CASE CheckpointGuard \/ StopGuard
      BY <3>4 DEF CheckpointGuard, StopGuard, MayStop, ActivePoints
    <3>5. CASE CheckpointFull
      BY <3>5 DEF CheckpointFull, StopInv, ActivePoints
    <3> QED BY <1>2, <3>1, <3>2, <3>3, <3>4, <3>5
  <2> QED BY <2>1, <2>2, <2>3
<1>3. CASE ReserveBound \/ ReserveLimit \/ ReserveCharge \/ PerformOk \/ PerformRefused
           \/ PerformWriteError \/ PerformRaise \/ CheckpointBound \/ CheckpointLimit
           \/ CheckpointRecord \/ StopSet
  <2>1. UNCHANGED events /\ wpc \in ActivePoints
    BY <1>3 DEF ReserveBound, ReserveLimit, ReserveCharge, PerformOk, PerformRefused,
         PerformWriteError, PerformRaise, CheckpointBound, CheckpointLimit, CheckpointRecord,
         StopSet, sessionVars, Go, ActivePoints
  <2>2. status = "active" /\ NoStop(events) /\ NoStop(events')
    BY <2>1 DEF StopInv, Settled, ActivePoints
  <2>3. CASE StopSet
    BY <2>2, <2>3 DEF StopSet, Go, ActivePoints
  <2>4. CASE ~StopSet
    <3>1. /\ status' \in {"active", "event_limit"}
          /\ wpc' \in ActivePoints => status' = "active"
          /\ wpc' # "stop_event"
      BY <1>3, <2>2, <2>4 DEF ReserveBound, ReserveLimit, ReserveCharge, PerformOk,
           PerformRefused, PerformWriteError, PerformRaise, CheckpointBound, CheckpointLimit,
           CheckpointRecord, Go, sessionVars, ActivePoints
    <3> QED BY <2>2, <3>1 DEF Settled
  <2> QED BY <2>3, <2>4
<1>4. CASE Accept \/ CheckpointEvent
  <2>1. status # "stopped" /\ UNCHANGED status /\ NoStop(events)
        /\ wpc' \in {"annotate", "ready"}
    BY <1>4 DEF Accept, CheckpointEvent, LogAndReturn, Go, StopInv, ActivePoints, Settled
  <2>2. PICK e : Log(e) /\ ~IsStop(e)
    BY <1>4 DEF Accept, CheckpointEvent, LogAndReturn, Event, IsStop
  <2>3. NoStop(events')
    BY <1>1, <2>1, <2>2, LoggedStops
  <2> QED BY <2>1, <2>3 DEF Settled, ActivePoints
<1>5. CASE RejectEvent
  <2>1. Settled /\ UNCHANGED status /\ wpc' = "ready"
    BY <1>5 DEF RejectEvent, LogAndReturn, Go, StopInv, ActivePoints
  <2>2. PICK e : Log(e) /\ e.kind = "rejected_action" /\ ~IsStop(e)
    BY <1>5 DEF RejectEvent, LogAndReturn, Event, IsStop
  <2>3. (NoStop(events) => NoStop(events')) /\ (OneStop(events) => OneStop(events'))
    BY <1>1, <2>2, LoggedStops
  <2> QED BY <2>1, <2>3 DEF Settled, ActivePoints
<1>6. CASE StopEvent
  <2>1. status = "stopped" /\ UNCHANGED status /\ NoStop(events) /\ wpc' = "ready"
    BY <1>6 DEF StopEvent, LogAndReturn, Go, StopInv, ActivePoints
  <2>2. PICK e : Log(e) /\ IsStop(e)
    BY <1>6 DEF StopEvent, LogAndReturn, Event, IsStop
  <2>3. OneStop(events')
    BY <1>1, <2>1, <2>2, LoggedStops
  <2> QED BY <2>1, <2>3 DEF Settled, ActivePoints
<1>7. CASE Annotate
  <2>1. Settled /\ UNCHANGED status /\ wpc' = "ready"
    BY <1>7 DEF Annotate, Go, StopInv, ActivePoints
  <2>2. Len(events') = Len(events) /\ \A i \in 1..Len(events) : events'[i].kind = events[i].kind
    BY <1>1, <1>7, AnnotatedEntries
  <2>3. Settled'
    BY <2>1, <2>2, SameStops DEF Settled
  <2> QED BY <2>1, <2>3 DEF ActivePoints
<1> QED BY <1>2, <1>3, <1>4, <1>5, <1>6, <1>7 DEF AdapterStep, ToolStep

LEMMA AdapterOutcome ==
  ASSUME IInv, SealInv, StopInv, CopyInv, AdapterStep, UNCHANGED runnerVars
  PROVE  StopInv' /\ CopyInv'
<1>1. (rpc \in Closing \cup Recording => Censored) /\ ~Certified
  BY AdapterActs
<1>2. CopyInv'
  BY <1>1 DEF CopyInv, Final, Certified, Censored, Recording, runnerVars
<1>3. StopInv'
  <2>1. CASE Alone
    <3>1. Alone' /\ rpc' \notin {"terminate"} \cup Closing \cup Recording
      BY <2>1 DEF Alone, runnerVars, Closing, Recording
    <3> QED BY <2>1, <3>1, AdapterStops DEF StopInv, Final, Closing, Recording
  <2>2. CASE ~Alone
    <3>1. ~Alone' /\ (rpc' = "terminate" => Censored')
      BY <2>2 DEF Alone, StopInv, runnerVars, Censored
    <3> QED BY <1>1, <3>1 DEF StopInv, Final, Censored, Closing, Recording, runnerVars
  <2> QED BY <2>1, <2>2
<1> QED BY <1>2, <1>3

LEMMA RunnerStops ==
  ASSUME IInv, SealInv, StopInv, RunnerStep
  PROVE  StopInv'
<1> USE DEF StopInv, Settled, Final, Alone, Censored, RunnerGo, svars, sessionVars, threadVars,
            Closing, Recording
<1>1. TypeOK
  BY DEF IInv
<1>2. CASE Setup \/ SetupError \/ TrialError
  <2>1. Setup => wpc = "unborn"
    BY DEF Setup, IInv, ThreadInv
  <2> QED BY <1>2, <2>1 DEF Setup, SetupError, TrialError, ActivePoints
<1>3. CASE JoinFinished
  <2>1. wpc # "stop_event"
    BY <1>3 DEF JoinFinished, Alive
  <2> QED BY <1>3, <2>1 DEF JoinFinished
<1>4. CASE JoinTimeout \/ Terminate
  BY <1>4 DEF JoinTimeout, Terminate
<1>5. CASE RunnerStopGuard
  <2>1. ~sealed
    BY <1>5 DEF RunnerStopGuard, SealInv, Unsealed
  <2> QED BY <1>5, <2>1 DEF RunnerStopGuard, MayStop
<1>6. CASE RunnerStopSet
  BY <1>6 DEF RunnerStopSet
<1>7. CASE RunnerStopEvent
  <2>1. PICK e : Log(e) /\ IsStop(e)
    BY <1>7 DEF RunnerStopEvent, Event, IsStop
  <2>2. NoStop(events) => OneStop(events')
    BY <1>1, <2>1, LoggedStops
  <2> QED BY <1>7, <2>2 DEF RunnerStopEvent
<1>8. CASE Seal \/ CloseChannel
  BY <1>8 DEF Seal, CloseChannel
<1>9. CASE ObserveStop \/ TraceState \/ TraceEvents \/ TraceCheckpoints
  BY <1>9 DEF ObserveStop, TraceState, TraceEvents, TraceCheckpoints
<1>10. CASE VerifyOrCensor \/ FinalManifest
  BY <1>10 DEF VerifyOrCensor, FinalManifest
<1>11. CASE Publish \/ Cleanup
  BY <1>11 DEF Publish, Cleanup
<1> QED
  BY <1>2, <1>3, <1>4, <1>5, <1>6, <1>7, <1>8, <1>9, <1>10, <1>11 DEF RunnerStep

LEMMA WholeTrace ==
  ASSUME NEW S, NEW s \in Seq(S)
  PROVE  SubSeq(s, 1, Len(s)) = s
  OBVIOUS

LEMMA RunnerCopies ==
  ASSUME IInv, SealInv, StopInv, CopyInv, RunnerStep
  PROVE  CopyInv'
<1>1. record \in RecordType /\ events \in Seq(EventType)
  BY DEF IInv, TypeOK, SessionTypeOK
<1>2. CASE rpc = "finally"
  <2>1. Cleanup
    BY <1>2 DEF RunnerStep, Setup, SetupError, JoinFinished, JoinTimeout, Terminate,
         RunnerStopGuard, RunnerStopSet, RunnerStopEvent, Seal, CloseChannel, ObserveStop,
         TraceState, TraceEvents, TraceCheckpoints, VerifyOrCensor, FinalManifest, Publish,
         TrialError, RunnerGo
  <2>2. /\ rpc' = "done"
        /\ UNCHANGED <<published, wpc, events, status, remaining, checkpoints, disk>>
    BY <2>1 DEF Cleanup, RunnerGo, sessionVars, threadVars
  <2> QED BY <2>2 DEF CopyInv, Certified, Final, Alive, Settled
<1>3. CASE rpc # "finally" /\ ~Publish
  <2>1. published' = NoRun
    BY <1>3 DEF SealInv, RunnerStep, Setup, SetupError, JoinFinished, JoinTimeout, Terminate,
         RunnerStopGuard, RunnerStopSet, RunnerStopEvent, Seal, CloseChannel, ObserveStop,
         TraceState, TraceEvents, TraceCheckpoints, VerifyOrCensor, FinalManifest, Cleanup,
         TrialError, RunnerGo
  <2> USE DEF Final, Censored, RunnerGo, svars, sessionVars, RecordType
  <2>2. CASE rpc' \notin {"trace_events", "trace_checkpoints", "verify", "manifest", "publish"}
    BY <2>1, <2>2 DEF CopyInv, Certified
  <2>3. CASE TraceState
    BY <1>1, <2>1, <2>3 DEF TraceState, CopyInv, Certified
  <2>4. CASE TraceEvents
    BY <1>1, <2>1, <2>4 DEF TraceEvents, CopyInv, Certified
  <2>5. CASE TraceCheckpoints
    BY <1>1, <2>1, <2>5 DEF TraceCheckpoints, CopyInv, Certified
  <2>6. CASE VerifyOrCensor
    BY <1>1, <2>1, <2>6 DEF VerifyOrCensor, CopyInv, Certified
  <2>7. CASE FinalManifest
    BY <1>1, <2>1, <2>7 DEF FinalManifest, CopyInv, Certified
  <2> QED
    BY <1>3, <2>2, <2>3, <2>4, <2>5, <2>6, <2>7 DEF RunnerStep, Setup, SetupError,
       JoinFinished, JoinTimeout, Terminate, RunnerStopGuard, RunnerStopSet, RunnerStopEvent,
       Seal, CloseChannel, ObserveStop, TrialError, Cleanup
<1>4. CASE Publish
  <2>1. rpc' = "finally" /\ rpc = "publish" /\ UNCHANGED svars
    BY <1>4 DEF Publish, RunnerGo
  <2>2. published'.record = record /\ published'.trace = SubSeq(events, 1, record.length)
        /\ published'.censored = Censored
    BY <1>4 DEF Publish
  <2>3. SUFFICES ASSUME ~Censored PROVE CopyInv'
    BY <2>1, <2>2 DEF CopyInv, Certified, Final
  <2>4. /\ record.status = status /\ record.remaining = remaining
        /\ record.length = Len(events) /\ record.checkpoints = checkpoints
        /\ record.manifest = disk
    BY <2>1, <2>3 DEF CopyInv, Final
  <2>5. SubSeq(events, 1, record.length) = events
    BY <1>1, <2>4, WholeTrace
  <2>6. ~Alive
    BY <2>1, <2>3 DEF IInv, ThreadInv, Recording
  <2>7. status # "active" /\ Settled
    BY <2>1, <2>3 DEF StopInv, Final, Recording
  <2>8. UNCHANGED <<wpc, events, status, remaining, checkpoints, disk>>
    BY <2>1 DEF svars, sessionVars, threadVars
  <2> QED BY <2>1, <2>2, <2>4, <2>5, <2>6, <2>7, <2>8 DEF CopyInv, Final, Alive, Settled
<1> QED BY <1>2, <1>3, <1>4

LEMMA OutcomeInit == Init => StopInv /\ CopyInv
<1> SUFFICES ASSUME Init PROVE StopInv /\ CopyInv
  OBVIOUS
<1>1. events = <<>> /\ Len(events) = 0 /\ rpc = "setup" /\ wpc = "unborn"
      /\ status = "active" /\ published = NoRun
  BY DEF Init, SessionInit
<1>2. NoStop(events)
  BY <1>1 DEF NoStop
<1> QED BY <1>1, <1>2 DEF StopInv, CopyInv, Final, Certified, Settled, Recording

OutcomeInv == SealInv /\ StopInv /\ CopyInv

LEMMA OutcomeInvariance == Spec => []OutcomeInv
<1> USE DEF OutcomeInv
<1>1. ASSUME IInv, OutcomeInv, [Next]_vars PROVE OutcomeInv'
  <2>1. CASE AdapterStep /\ UNCHANGED runnerVars
    BY <1>1, <2>1, AdapterSeal, AdapterOutcome DEF IInv
  <2>2. CASE RunnerStep
    BY <1>1, <2>2, RunnerSeal, RunnerStops, RunnerCopies
  <2>3. CASE UNCHANGED vars
    BY <1>1, <2>3 DEF vars, svars, sessionVars, threadVars, runnerVars, SealInv, StopInv,
         CopyInv, Alone, Final, Certified, Censored, Settled, Alive
  <2> QED BY <1>1, <2>1, <2>2, <2>3 DEF Next
<1> QED BY <1>1, LateInit, OutcomeInit, Invariance, PTL DEF Spec

\* Who stopped the session, and that it is no longer active, though the
\* test, the assignment and the event of a stop are three steps.
OnceInv ==
  /\ \A who \in {"adapter", "runner"} : \A i, j \in StopsBy(who) : i = j
  /\ status = "active" \/ wpc \in {"stop_set", "stop_event"} => StopsBy("adapter") = {}
  /\ rpc \in {"setup", "join", "terminate", "stop", "stop_set", "stop_event"} =>
       StopsBy("runner") = {}
  /\ wpc = "stop_event" => status # "active"
  /\ rpc \in {"stop_event", "seal", "pop"} \cup Recording => status # "active"
  /\ rpc \in Recording \ {"observe", "trace_state"} => record.status # "active"
  /\ published # NoRun => published.record.status # "active"

LEMMA LoggedStopsBy ==
  ASSUME TypeOK, NEW e, Log(e), NEW who
  PROVE  StopsBy(who)' = IF IsStop(e) /\ e.action = who
                         THEN StopsBy(who) \cup {Len(events) + 1} ELSE StopsBy(who)
<1> DEFINE n == Len(events)
<1>1. /\ n \in Nat /\ Len(events') = n + 1 /\ \A i \in 1..n : events'[i] = events[i]
      /\ events'[n + 1] = e
  BY AppendedEntries
<1>2. \A i : i \in 1..n+1 <=> i \in 1..n \/ i = n + 1
  BY <1>1
<1> QED BY <1>1, <1>2 DEF StopsBy, IsStop

LEMMA AnnotatedStopsBy ==
  ASSUME TypeOK, Annotate, NEW who
  PROVE  StopsBy(who)' = StopsBy(who)
  BY AnnotatedEntries DEF StopsBy, IsStop

LEMMA AdapterOnce ==
  ASSUME TypeOK, CallInv, OnceInv, AdapterStep, UNCHANGED runnerVars
  PROVE  OnceInv'
<1>1. CASE StopEvent
  <2>1. /\ wpc = "stop_event" /\ wpc' = "ready" /\ UNCHANGED status
        /\ Log(Event("stop", "adapter", "none"))
    BY <1>1 DEF StopEvent, LogAndReturn, Go
  <2>2. /\ StopsBy("adapter")' = StopsBy("adapter") \cup {Len(events) + 1}
        /\ StopsBy("runner")' = StopsBy("runner")
    BY <2>1, LoggedStopsBy DEF IsStop, Event
  <2> QED BY <2>1, <2>2 DEF OnceInv, runnerVars
<1>2. CASE Accept \/ RejectEvent \/ CheckpointEvent
  <2>1. wpc' \in {"annotate", "ready"} /\ UNCHANGED status
    BY <1>2 DEF Accept, RejectEvent, CheckpointEvent, LogAndReturn, Go
  <2>2. PICK e : Log(e) /\ ~IsStop(e)
    BY <1>2 DEF Accept, RejectEvent, CheckpointEvent, LogAndReturn, Event, IsStop
  <2>3. \A who : StopsBy(who)' = StopsBy(who)
    BY <2>2, LoggedStopsBy
  <2> QED BY <2>1, <2>3 DEF OnceInv, runnerVars
<1>3. CASE Annotate
  <2>1. wpc' = "ready" /\ UNCHANGED status
    BY <1>3 DEF Annotate, Go
  <2> QED BY <1>3, <2>1, AnnotatedStopsBy DEF OnceInv, runnerVars
<1>4. CASE (\E c \in Calls : BeginCall(c)) \/ (\E r \in Outcomes : Finish(r)) \/ Lookup
           \/ ReserveGuard \/ ReserveBound \/ ReserveLimit \/ ReserveCharge
           \/ PerformOk \/ PerformRefused \/ PerformWriteError \/ PerformRaise
           \/ Reject("reject", "reject_event") \/ Reject("reject_write", "write_event")
           \/ CheckpointGuard \/ CheckpointBound \/ CheckpointLimit \/ CheckpointFull
           \/ CheckpointRecord \/ StopGuard \/ StopSet
  <2>1. UNCHANGED events /\ (status' = status \/ status' \in {"stopped", "event_limit"})
    BY <1>4 DEF BeginCall, Finish, Lookup, ReserveGuard, ReserveBound, ReserveLimit,
         ReserveCharge, PerformOk, PerformRefused, PerformWriteError, PerformRaise, Reject,
         CheckpointGuard, CheckpointBound, CheckpointLimit, CheckpointFull, CheckpointRecord,
         StopGuard, StopSet, sessionVars
  <2>2. /\ wpc' = "stop_set" => status = "active"
        /\ wpc' = "stop_event" => wpc = "stop_set" /\ status' = "stopped"
    <3>1. CASE Lookup
      BY <3>1 DEF Lookup, Entry, Calls, CallInv, InCall, ThreadPoints
    <3>2. CASE ~Lookup
      BY <1>4, <3>2 DEF BeginCall, Finish, ReserveGuard, ReserveBound, ReserveLimit,
         ReserveCharge, PerformOk, PerformRefused, PerformWriteError, PerformRaise, Reject,
         CheckpointGuard, CheckpointBound, CheckpointLimit, CheckpointFull, CheckpointRecord,
         StopGuard, StopSet, MayStop, Go
    <3> QED BY <3>1, <3>2
  <2>3. \A who : StopsBy(who)' = StopsBy(who)
    BY <2>1 DEF StopsBy
  <2> QED BY <2>1, <2>2, <2>3 DEF OnceInv, runnerVars
<1> QED BY <1>1, <1>2, <1>3, <1>4 DEF AdapterStep, ToolStep

LEMMA RunnerOnce ==
  ASSUME IInv, SealInv, OnceInv, RunnerStep
  PROVE  OnceInv'
<1>1. TypeOK /\ record \in RecordType
  BY DEF IInv, TypeOK
<1>2. CASE RunnerStopEvent
  <2>1. /\ rpc = "stop_event" /\ rpc' = "seal" /\ UNCHANGED <<status, wpc, record, published>>
        /\ Log(Event("stop", "runner", "none"))
    BY <1>2 DEF RunnerStopEvent, RunnerGo, threadVars
  <2>2. /\ StopsBy("runner")' = StopsBy("runner") \cup {Len(events) + 1}
        /\ StopsBy("adapter")' = StopsBy("adapter")
    BY <1>1, <2>1, LoggedStopsBy DEF IsStop, Event
  <2> QED BY <2>1, <2>2 DEF OnceInv, Recording
<1>3. CASE ~RunnerStopEvent
  <2>1. UNCHANGED events
    BY <1>3 DEF RunnerStep, Setup, SetupError, JoinFinished, JoinTimeout, Terminate,
         RunnerStopGuard, RunnerStopSet, Seal, CloseChannel, ObserveStop, TraceState,
         TraceEvents, TraceCheckpoints, VerifyOrCensor, FinalManifest, Publish, TrialError,
         Cleanup, svars, sessionVars
  <2>2. \A who : StopsBy(who)' = StopsBy(who)
    BY <2>1 DEF StopsBy
  <2> HIDE DEF StopsBy
  <2> USE DEF OnceInv, RunnerGo, svars, sessionVars, threadVars, Recording
  <2>3. CASE Setup \/ SetupError \/ TrialError
    BY <2>2, <2>3 DEF Setup, SetupError, TrialError
  <2>4. CASE JoinFinished \/ JoinTimeout \/ Terminate
    BY <2>2, <2>4 DEF JoinFinished, JoinTimeout, Terminate
  <2>5. CASE RunnerStopGuard
    <3>1. ~sealed
      BY <2>5 DEF RunnerStopGuard, SealInv, Unsealed
    <3> QED BY <2>2, <2>5, <3>1 DEF RunnerStopGuard, MayStop
  <2>6. CASE RunnerStopSet
    BY <2>2, <2>6 DEF RunnerStopSet
  <2>7. CASE Seal \/ CloseChannel \/ ObserveStop
    BY <1>1, <2>2, <2>7 DEF Seal, CloseChannel, ObserveStop, RecordType
  <2>8. CASE TraceState \/ TraceEvents \/ TraceCheckpoints
    BY <1>1, <2>2, <2>8 DEF TraceState, TraceEvents, TraceCheckpoints, RecordType
  <2>9. CASE VerifyOrCensor \/ FinalManifest
    BY <1>1, <2>2, <2>9 DEF VerifyOrCensor, FinalManifest, RecordType
  <2>10. CASE Publish \/ Cleanup
    BY <2>2, <2>10 DEF Publish, Cleanup
  <2> QED
    BY <1>3, <2>3, <2>4, <2>5, <2>6, <2>7, <2>8, <2>9, <2>10 DEF RunnerStep
<1> QED BY <1>2, <1>3

LEMMA OnceInvariance == Spec => []OnceInv
<1>1. Init => OnceInv
  BY DEF Init, SessionInit, OnceInv, StopsBy, Recording
<1>2. ASSUME IInv, SealInv, OnceInv, [Next]_vars PROVE OnceInv'
  <2>1. CASE AdapterStep /\ UNCHANGED runnerVars
    BY <1>2, <2>1, AdapterOnce DEF IInv
  <2>2. CASE RunnerStep
    BY <1>2, <2>2, RunnerOnce
  <2>3. CASE UNCHANGED vars
    BY <1>2, <2>3 DEF vars, svars, sessionVars, threadVars, runnerVars, OnceInv, StopsBy
  <2> QED BY <1>2, <2>1, <2>2, <2>3 DEF Next
<1>3. OutcomeInv => SealInv
  BY DEF OutcomeInv
<1> QED BY <1>1, <1>2, <1>3, OutcomeInvariance, Invariance, PTL DEF Spec

(* Neither thread stops a session twice, whatever the other does meanwhile, *)
(* no published session was still active, and every uncensored trial has    *)
(* one reason to have ended, whatever its adapter called.                   *)
THEOREM OneTermination == Spec => []StopsOnce
<1>1. IInv /\ OutcomeInv /\ OnceInv => StopsOnce
  <2> SUFFICES ASSUME IInv, OutcomeInv, OnceInv, Certified
               PROVE  LET trace == published.trace
                          stops == {i \in 1..Len(trace) : IsStop(trace[i])}
                      IN  /\ stops = {} <=> published.record.status = "event_limit"
                          /\ \A i, j \in stops : i = j
                          /\ \A i \in stops, j \in 1..Len(trace) :
                               j > i => trace[j].kind = "rejected_action"
    BY DEF StopsOnce, Certified, OnceInv
  <2>1. published.trace = events /\ published.record.status = status
        /\ status \in {"stopped", "event_limit"} /\ Settled
    BY DEF OutcomeInv, CopyInv, IInv, TypeOK, SessionTypeOK
  <2>2. CASE status = "stopped"
    BY <2>1, <2>2 DEF Settled, OneStop
  <2>3. CASE status # "stopped"
    BY <2>1, <2>3 DEF Settled, NoStop
  <2> QED BY <2>2, <2>3
<1> QED BY <1>1, OutcomeInvariance, OnceInvariance, Invariance, PTL

-----------------------------------------------------------------------------
(* What an uncensored run's artifacts say of its files.  A request to edit *)
(* never passes its lookup, so every accepted edit is an edit_file call:   *)
(* between its replacement of the file and its annotation the trace is one *)
(* version behind the disk.                                                *)

LEMMA SameVersion ==
  ASSUME NEW t, NEW u, NEW j \in Nat \ {0},
         \A i \in 1..j-1 : /\ u[i].kind = t[i].kind
                           /\ u[i].action = t[i].action
                           /\ u[i].after = t[i].after
  PROVE  Version(u, j) = Version(t, j)
<1>1. EditsBefore(u, j) = EditsBefore(t, j)
  BY DEF EditsBefore, IsEdit, IsAction
<1>2. CASE EditsBefore(t, j) = {}
  BY <1>1, <1>2 DEF Version
<1>3. CASE EditsBefore(t, j) # {}
  <2>1. EditsBefore(t, j) \in SUBSET (1..j-1) /\ j - 1 \in Nat
    BY DEF EditsBefore
  <2>2. Max(EditsBefore(t, j)) \in 1..j-1
    BY <1>3, <2>1, MaxOfPositions
  <2> QED BY <1>1, <2>2 DEF Version
<1> QED BY <1>2, <1>3

\* Only an edit changes the version a trace shows.
LEMMA NextVersion ==
  ASSUME NEW t, NEW n \in Nat
  PROVE  Version(t, n + 2) = IF IsEdit(t[n + 1]) THEN t[n + 1].after ELSE Version(t, n + 1)
<1>1. (n + 2) - 1 = n + 1 /\ (n + 1) - 1 = n
  OBVIOUS
<1>2. EditsBefore(t, n + 2) = {i \in 1..n+1 : IsEdit(t[i])}
  BY <1>1 DEF EditsBefore
<1>3. EditsBefore(t, n + 1) = {i \in 1..n : IsEdit(t[i])}
  BY <1>1 DEF EditsBefore
<1>4. CASE IsEdit(t[n + 1])
  <2> DEFINE S == EditsBefore(t, n + 2)
  <2>1. n + 1 \in S
    BY <1>2, <1>4
  <2>2. S \in SUBSET (1..n+1) /\ n + 1 \in Nat
    BY <1>2
  <2>3. Max(S) \in S /\ \A i \in S : i <= Max(S)
    BY <2>1, <2>2, MaxOfPositions
  <2>4. Max(S) \in 1..n+1 /\ n + 1 <= Max(S)
    BY <2>1, <2>2, <2>3
  <2>5. Max(S) = n + 1
    BY <2>4
  <2> QED BY <1>4, <2>1, <2>5 DEF Version
<1>5. CASE ~IsEdit(t[n + 1])
  <2>1. EditsBefore(t, n + 2) = EditsBefore(t, n + 1)
    BY <1>2, <1>3, <1>5
  <2> QED BY <1>5, <2>1 DEF Version
<1> QED BY <1>4, <1>5

LEMMA FirstVersion ==
  ASSUME NEW t
  PROVE  Version(t, 1) = NoVersion + 1
<1>1. EditsBefore(t, 1) = {}
  BY DEF EditsBefore
<1> QED BY <1>1 DEF Version

\* The hashes of a trace's first n entries follow from one another.
Chained(trace, n) ==
  \A i \in 1..n : IsEdit(trace[i]) => trace[i].before = Version(trace, i)

LEMMA SameChain ==
  ASSUME NEW t, NEW u, NEW n \in Nat,
         \A i \in 1..n : /\ u[i].kind = t[i].kind
                         /\ u[i].action = t[i].action
                         /\ u[i].before = t[i].before
                         /\ u[i].after = t[i].after
  PROVE  /\ Chained(t, n) => Chained(u, n)
         /\ Version(u, n + 1) = Version(t, n + 1)
<1>1. ASSUME NEW j \in 1..n+1 PROVE Version(u, j) = Version(t, j)
  <2>1. j \in Nat \ {0} /\ \A i \in 1..j-1 : i \in 1..n
    OBVIOUS
  <2> QED BY <2>1, SameVersion
<1>2. Chained(t, n) => Chained(u, n)
  BY <1>1 DEF Chained, IsEdit, IsAction
<1> QED BY <1>1, <1>2

\* The last entry extends the chain if it is no edit, or starts where it ends.
LEMMA NextChain ==
  ASSUME NEW t, NEW n \in Nat, Chained(t, n),
         IsEdit(t[n + 1]) => t[n + 1].before = Version(t, n + 1)
  PROVE  Chained(t, n + 1)
<1>1. \A i \in 1..n+1 : i \in 1..n \/ i = n + 1
  OBVIOUS
<1> QED BY <1>1 DEF Chained

ReachInv ==
  wpc \in {"guard", "bound", "charge", "perform", "accept", "annotate"} =>
    /\ call.op \in {"request", "edit_file"}
    /\ call.op = "edit_file" <=> call.action = "edit"

Unexplained ==
  \/ "edit_file" \in Raising
  \/ wpc \in {"reject_write", "write_event"}
  \/ \E i \in 1..Len(events) : events[i].error = "write_failed"

Replaced == wpc = "accept" /\ call.op = "edit_file"

Explained ==
  LET n == Len(events)
  IN  \/ /\ wpc # "annotate"
         /\ Chained(events, n)
         /\ disk = IF Replaced THEN Version(events, n + 1) + 1 ELSE Version(events, n + 1)
      \/ /\ wpc = "annotate"
         /\ n > 0 /\ IsEdit(events[n])
         /\ Chained(events, n - 1)
         /\ disk = Version(events, n) + 1

FilesInv ==
  Alone \/ Final(Closing \cup Recording) \/ Certified => Unexplained \/ Explained

LEMMA AdapterReach ==
  ASSUME IInv, ReachInv, AdapterStep
  PROVE  ReachInv'
<1>1. CallInv
  BY DEF IInv
<1>2. CASE (\E c \in Calls : BeginCall(c)) \/ (\E r \in Outcomes : Finish(r))
  BY <1>2 DEF BeginCall, Finish, Go, ReachInv
<1>3. CASE Lookup
  <2>1. call \in Calls /\ UNCHANGED call
    BY <1>1, <1>3 DEF Lookup, CallInv, InCall, ThreadPoints
  <2>2. wpc' = "guard" => /\ call.op \in {"request", "edit_file"}
                          /\ call # [op |-> "request", action |-> "edit"]
    BY <1>3, <2>1 DEF Lookup, Entry, Calls
  <2>3. wpc' \notin {"bound", "charge", "perform", "accept", "annotate"}
    BY <1>3, <2>1 DEF Lookup, Entry, Calls
  <2>4. ASSUME wpc' = "guard" PROVE call.op = "edit_file" <=> call.action = "edit"
    BY <2>1, <2>2, <2>4 DEF Calls
  <2> QED BY <2>1, <2>2, <2>3, <2>4 DEF ReachInv
<1>4. CASE ReserveGuard \/ ReserveBound \/ ReserveLimit \/ ReserveCharge \/ PerformOk
           \/ PerformRefused \/ PerformWriteError
           \/ PerformRaise
  BY <1>4 DEF ReserveGuard, ReserveBound, ReserveLimit, ReserveCharge, PerformOk,
       PerformRefused, PerformWriteError, PerformRaise, Go, ReachInv
<1>5. CASE Accept \/ Annotate \/ Reject("reject", "reject_event")
           \/ Reject("reject_write", "write_event") \/ RejectEvent
  BY <1>5 DEF Accept, Annotate, Reject, RejectEvent, LogAndReturn, Go, ReachInv
<1>6. CASE CheckpointGuard \/ CheckpointBound \/ CheckpointLimit \/ CheckpointFull
           \/ CheckpointRecord \/ CheckpointEvent \/ StopGuard \/ StopSet
           \/ StopEvent
  BY <1>6 DEF CheckpointGuard, CheckpointBound, CheckpointLimit, CheckpointFull,
       CheckpointRecord, CheckpointEvent, StopGuard, StopSet, StopEvent, LogAndReturn, Go,
       ReachInv
<1> QED BY <1>2, <1>3, <1>4, <1>5, <1>6 DEF AdapterStep, ToolStep

\* A failed write stays in the trace.
LEMMA StillUnexplained ==
  ASSUME TypeOK, Unexplained, wpc \notin {"reject_write", "write_event"},
         \/ UNCHANGED events
         \/ \E e : Log(e)
         \/ Annotate
  PROVE  Unexplained'
<1>1. CASE "edit_file" \in Raising
  BY <1>1 DEF Unexplained
<1>2. CASE \E i \in 1..Len(events) : events[i].error = "write_failed"
  <2>1. PICK i \in 1..Len(events) : events[i].error = "write_failed"
    BY <1>2
  <2>2. i \in 1..Len(events') /\ events'[i].error = "write_failed"
    <3>1. CASE UNCHANGED events
      BY <2>1, <3>1
    <3>2. CASE \E e : Log(e)
      <4>1. Len(events) \in Nat /\ Len(events') = Len(events) + 1 /\ events'[i] = events[i]
        BY <3>2, AppendedEntries
      <4> QED BY <2>1, <4>1
    <3>3. CASE Annotate
      BY <2>1, <3>3, AnnotatedEntries
    <3> QED BY <3>1, <3>2, <3>3
  <2> QED BY <2>2 DEF Unexplained
<1> QED BY <1>1, <1>2 DEF Unexplained

\* An entry that is no edit explains as much as before.
LEMMA LoggedExplained ==
  ASSUME TypeOK, Explained, NEW e, Log(e), ~IsEdit(e), wpc # "annotate", ~Replaced,
         wpc' # "annotate", ~Replaced', UNCHANGED disk
  PROVE  Explained'
<1> DEFINE n == Len(events)
           new == events'
<1>1. /\ n \in Nat /\ Len(new) = n + 1 /\ new[n + 1] = e
      /\ \A i \in 1..n : new[i] = events[i]
  BY AppendedEntries
<1>2. Chained(events, n) /\ disk = Version(events, n + 1)
  BY DEF Explained
<1> HIDE DEF n, new
<1>3. Chained(new, n) /\ Version(new, n + 1) = Version(events, n + 1)
  BY <1>1, <1>2, SameChain
<1>4. Chained(new, n + 1) /\ Version(new, n + 2) = Version(new, n + 1)
  BY <1>1, <1>3, NextChain, NextVersion
<1>5. (n + 1) + 1 = n + 2
  BY <1>1
<1>6. disk' = Version(new, (n + 1) + 1)
  BY <1>2, <1>3, <1>4, <1>5
<1> QED BY <1>1, <1>4, <1>6 DEF Explained, new, n

LEMMA VersionTyped ==
  ASSUME TypeOK, NEW j \in 1..Len(events)+1
  PROVE  Version(events, j) \in Nat
<1>1. Len(events) \in Nat /\ \A i \in 1..Len(events) : events[i].after \in Nat
  <2>1. Len(events) \in Nat /\ \A i \in 1..Len(events) : events[i] \in EventType
    BY DEF TypeOK, SessionTypeOK
  <2> QED BY <2>1 DEF EventType
<1>2. CASE EditsBefore(events, j) = {}
  BY <1>2 DEF Version
<1>3. CASE EditsBefore(events, j) # {}
  <2>1. EditsBefore(events, j) \in SUBSET (1..j-1) /\ j - 1 \in Nat
    BY <1>1 DEF EditsBefore
  <2>2. Max(EditsBefore(events, j)) \in 1..j-1
    BY <1>3, <2>1, MaxOfPositions
  <2>3. Max(EditsBefore(events, j)) \in 1..Len(events)
    BY <1>1, <2>2
  <2> QED BY <1>1, <1>3, <2>3 DEF Version
<1> QED BY <1>2, <1>3

\* A step that neither logs nor writes, to where no write is pending.
LEMMA QuietExplained ==
  ASSUME Explained, wpc # "annotate", ~Replaced, wpc' # "annotate", ~Replaced',
         UNCHANGED <<events, disk>>
  PROVE  Explained'
<1>1. Chained(events, Len(events)) /\ disk = Version(events, Len(events) + 1)
  BY DEF Explained
<1>2. Chained(events', Len(events')) /\ disk' = Version(events', Len(events') + 1)
  BY <1>1
<1> QED BY <1>2 DEF Explained

LEMMA AcceptExplained ==
  ASSUME TypeOK, ReachInv, Explained, Accept
  PROVE  Explained'
<1> DEFINE n == Len(events)
           new == events'
           e == Event("action", call.action, "none")
<1>1. Log(e) /\ wpc = "accept" /\ UNCHANGED disk
  BY DEF Accept, Go
<1>2. /\ n \in Nat /\ Len(new) = n + 1 /\ new[n + 1] = e
      /\ \A i \in 1..n : new[i] = events[i]
  BY <1>1, AppendedEntries
<1>3. IsEdit(e) <=> call.op = "edit_file"
  BY <1>1 DEF ReachInv, Event, IsEdit, IsAction
<1>4. Chained(events, n)
  BY <1>1 DEF Explained
<1> HIDE DEF n, new, e
<1>5. Chained(new, n) /\ Version(new, n + 1) = Version(events, n + 1)
  BY <1>2, <1>4, SameChain
<1>6. CASE call.op = "edit_file"
  <2>1. wpc' = "annotate" /\ disk = Version(events, n + 1) + 1
    BY <1>1, <1>6 DEF Accept, Go, Explained, Replaced, n
  <2>2. (n + 1) - 1 = n /\ n + 1 > 0
    BY <1>2
  <2> QED BY <1>1, <1>2, <1>3, <1>5, <1>6, <2>1, <2>2 DEF Explained, new
<1>7. CASE call.op # "edit_file"
  <2>1. wpc' = "ready" /\ disk = Version(events, n + 1)
    BY <1>1, <1>7 DEF Accept, Go, Explained, Replaced, n
  <2>2. ~IsEdit(new[n + 1])
    BY <1>2, <1>3, <1>7
  <2>3. Chained(new, n + 1) /\ Version(new, n + 2) = Version(new, n + 1)
    BY <1>2, <1>5, <2>2, NextChain, NextVersion
  <2>4. (n + 1) + 1 = n + 2
    BY <1>2
  <2> QED BY <1>1, <1>2, <1>5, <2>1, <2>3, <2>4 DEF Explained, Replaced, new
<1> QED BY <1>6, <1>7

LEMMA AnnotateExplained ==
  ASSUME TypeOK, Explained, Annotate
  PROVE  Explained'
<1> DEFINE n == Len(events)
           new == events'
<1>1. wpc = "annotate" /\ wpc' = "ready" /\ UNCHANGED disk
  BY DEF Annotate, Go
<1>2. /\ n > 0 /\ IsEdit(events[n]) /\ Chained(events, n - 1)
      /\ disk = Version(events, n) + 1
  BY <1>1 DEF Explained
<1>3. /\ Len(new) = n /\ n \in Nat
      /\ \A i \in 1..n : /\ new[i].kind = events[i].kind
                         /\ new[i].action = events[i].action
                         /\ i # n => new[i] = events[i]
                         /\ i = n => new[i].before = disk - 1 /\ new[i].after = disk
  BY AnnotatedEntries
<1>4. PICK m \in Nat : n = m + 1
  <2>1. n - 1 \in Nat /\ n = (n - 1) + 1
    BY <1>2, <1>3
  <2> QED BY <2>1
<1> HIDE DEF n, new
<1>5. \A i \in 1..m : i \in 1..n /\ i # n
  BY <1>4
<1>6. m + 1 \in 1..n /\ n - 1 = m
  BY <1>4
<1>7. Chained(new, m) /\ Version(new, m + 1) = Version(events, m + 1)
  <2>1. \A i \in 1..m : new[i] = events[i]
    BY <1>3, <1>5
  <2>2. Chained(events, m)
    BY <1>2, <1>6
  <2> QED BY <2>1, <2>2, SameChain
<1>8. /\ IsEdit(new[m + 1]) /\ new[m + 1].before = disk - 1 /\ new[m + 1].after = disk
  BY <1>2, <1>3, <1>4, <1>6 DEF IsEdit, IsAction
<1>9. disk - 1 = Version(events, m + 1)
  <2>1. Version(events, m + 1) \in Nat
    BY <1>3, <1>4, VersionTyped DEF n
  <2> QED BY <1>2, <1>4, <2>1
<1>10. Chained(new, m + 1) /\ Version(new, m + 2) = disk
  BY <1>7, <1>8, <1>9, NextChain, NextVersion
<1>11. Len(new) + 1 = m + 2
  BY <1>3, <1>4
<1> QED BY <1>1, <1>3, <1>4, <1>10, <1>11 DEF Explained, Replaced, new

LEMMA AdapterFiles ==
  ASSUME IInv, SealInv, ReachInv, Alone, Unexplained \/ Explained, AdapterStep
  PROVE  Unexplained' \/ Explained'
<1>1. TypeOK /\ CallInv /\ ~sealed
  BY DEF IInv, SealInv, Alone, Unsealed
<1>2. CASE wpc = "reject_write"
  <2>1. Reject("reject_write", "write_event")
    BY <1>2 DEF AdapterStep, ToolStep, BeginCall, Finish, Lookup, ReserveGuard, ReserveBound,
         ReserveLimit, ReserveCharge, PerformOk, PerformRefused, PerformWriteError,
         PerformRaise, Accept, Annotate, Reject, RejectEvent, CheckpointGuard, CheckpointBound,
         CheckpointLimit, CheckpointFull, CheckpointRecord, CheckpointEvent, StopGuard,
         StopSet, StopEvent, LogAndReturn, Go
  <2> QED BY <1>1, <2>1 DEF Reject, Unexplained
<1>3. CASE wpc = "write_event"
  <2>1. LogAndReturn("write_event", Event("rejected_action", call.action, "write_failed"))
    BY <1>3 DEF AdapterStep, ToolStep, BeginCall, Finish, Lookup, ReserveGuard, ReserveBound,
         ReserveLimit, ReserveCharge, PerformOk, PerformRefused, PerformWriteError,
         PerformRaise, Accept, Annotate, Reject, RejectEvent, CheckpointGuard, CheckpointBound,
         CheckpointLimit, CheckpointFull, CheckpointRecord, CheckpointEvent, StopGuard,
         StopSet, StopEvent, LogAndReturn, Go
  <2>2. PICK e : Log(e) /\ e.error = "write_failed"
    BY <2>1 DEF LogAndReturn, Event
  <2>3. Len(events) + 1 \in 1..Len(events') /\ events'[Len(events) + 1] = e
    BY <1>1, <2>2, AppendedEntries
  <2> QED BY <2>2, <2>3 DEF Unexplained
<1>4. CASE wpc \notin {"reject_write", "write_event"} /\ Unexplained
  <2>1. UNCHANGED events \/ (\E e : Log(e)) \/ Annotate
    BY DEF AdapterStep, ToolStep, BeginCall, Finish, Lookup, ReserveGuard, ReserveBound,
         ReserveLimit, ReserveCharge, PerformOk, PerformRefused, PerformWriteError,
         PerformRaise, Accept, Reject, RejectEvent, CheckpointGuard, CheckpointBound,
         CheckpointLimit, CheckpointFull, CheckpointRecord, CheckpointEvent, StopGuard,
         StopSet, StopEvent, LogAndReturn, sessionVars
  <2> QED BY <1>1, <1>4, <2>1, StillUnexplained
<1>5. CASE wpc \notin {"reject_write", "write_event"} /\ Explained
  <2>1. CASE (\E c \in Calls : BeginCall(c)) \/ (\E r \in Outcomes : Finish(r)) \/ Lookup
             \/ ReserveGuard \/ ReserveBound \/ ReserveLimit \/ ReserveCharge \/ PerformRefused
             \/ Reject("reject", "reject_event")
             \/ CheckpointGuard \/ CheckpointBound \/ CheckpointLimit \/ CheckpointFull
             \/ CheckpointRecord \/ StopGuard \/ StopSet
    <3>1. UNCHANGED <<events, disk>> /\ wpc \notin {"annotate", "accept"}
      BY <2>1 DEF BeginCall, Finish, Lookup, ReserveGuard, ReserveBound, ReserveLimit,
           ReserveCharge, PerformRefused, Reject, CheckpointGuard, CheckpointBound,
           CheckpointLimit, CheckpointFull, CheckpointRecord, StopGuard, StopSet, sessionVars,
           Go
    <3>2. wpc' \notin {"annotate", "accept"}
      <4>1. CASE Lookup
        BY <1>1, <4>1 DEF Lookup, Entry, Calls, CallInv, InCall, ThreadPoints
      <4>2. CASE ~Lookup
        BY <2>1, <4>2 DEF BeginCall, Finish, ReserveGuard, ReserveBound, ReserveLimit,
             ReserveCharge, PerformRefused, Reject, CheckpointGuard, CheckpointBound,
             CheckpointLimit, CheckpointFull, CheckpointRecord, StopGuard, StopSet, Go
      <4> QED BY <4>1, <4>2
    <3> QED BY <1>5, <3>1, <3>2, QuietExplained DEF Replaced
  <2>2. CASE PerformOk
    <3>1. /\ wpc = "perform" /\ wpc' = "accept" /\ UNCHANGED <<events, call>>
          /\ disk' = IF call.op = "edit_file" THEN disk + 1 ELSE disk
      BY <2>2 DEF PerformOk, Go, sessionVars
    <3>2. Chained(events, Len(events)) /\ disk = Version(events, Len(events) + 1)
      BY <1>5, <3>1 DEF Explained, Replaced
    <3>3. Replaced' <=> call.op = "edit_file"
      BY <3>1 DEF Replaced
    <3>4. Chained(events', Len(events'))
      BY <3>1, <3>2
    <3>5. disk' = IF Replaced' THEN Version(events', Len(events') + 1) + 1
                  ELSE Version(events', Len(events') + 1)
      BY <3>1, <3>2, <3>3
    <3> QED BY <3>1, <3>4, <3>5 DEF Explained
  <2>3. CASE PerformWriteError
    BY <2>3 DEF PerformWriteError, Go, Unexplained
  <2>4. CASE PerformRaise
    <3>1. CASE call.op = "edit_file"
      BY <2>4, <3>1 DEF PerformRaise, Unexplained
    <3>2. CASE call.op # "edit_file"
      <4>1. UNCHANGED <<events, disk>> /\ wpc = "perform" /\ wpc' = "ready"
        BY <2>4, <3>2 DEF PerformRaise, Go, sessionVars
      <4> QED BY <1>5, <4>1, QuietExplained DEF Replaced
    <3> QED BY <3>1, <3>2
  <2>5. CASE Accept
    BY <1>1, <1>5, <2>5, AcceptExplained
  <2>6. CASE Annotate
    BY <1>1, <1>5, <2>6, AnnotateExplained
  <2>7. CASE RejectEvent \/ CheckpointEvent \/ StopEvent
    <3>1. /\ wpc \notin {"annotate", "accept"} /\ wpc' \notin {"annotate", "accept"}
          /\ UNCHANGED disk
      BY <2>7 DEF RejectEvent, CheckpointEvent, StopEvent, LogAndReturn, Go
    <3>2. PICK e : Log(e) /\ ~IsEdit(e)
      BY <2>7 DEF RejectEvent, CheckpointEvent, StopEvent, LogAndReturn, Event, IsEdit, IsAction
    <3> QED BY <1>1, <1>5, <3>1, <3>2, LoggedExplained DEF Replaced
  <2> QED
    BY <1>5, <2>1, <2>2, <2>3, <2>4, <2>5, <2>6, <2>7 DEF AdapterStep, ToolStep, Reject
<1> QED BY <1>2, <1>3, <1>4, <1>5

\* The runner changes no file, and its stop event is no edit.
LEMMA RunnerFiles ==
  ASSUME IInv, SealInv, StopInv, CopyInv, ReachInv, FilesInv, RunnerStep
  PROVE  ReachInv' /\ FilesInv'
<1>1. TypeOK /\ ThreadInv
  BY DEF IInv
<1>2. CASE Setup
  <2>1. wpc = "unborn" /\ wpc' = "ready" /\ UNCHANGED <<events, disk>> /\ Alone
    BY <1>1, <1>2 DEF Setup, RunnerGo, ThreadInv, Alone, sessionVars
  <2>2. Unexplained => Unexplained'
    BY <2>1 DEF Unexplained
  <2>3. Explained => Explained'
    BY <2>1, QuietExplained DEF Replaced
  <2>4. ReachInv'
    BY <2>1 DEF ReachInv
  <2> QED BY <2>1, <2>2, <2>3, <2>4 DEF FilesInv
<1>3. CASE ~Setup
  <2>1. UNCHANGED <<disk, wpc, call>> /\ (UNCHANGED events \/ RunnerStopEvent)
    BY <1>3 DEF RunnerStep, SetupError, JoinFinished, JoinTimeout, Terminate,
         RunnerStopGuard, RunnerStopSet, RunnerStopEvent, Seal, CloseChannel, ObserveStop,
         TraceState, TraceEvents, TraceCheckpoints, VerifyOrCensor, FinalManifest, Publish,
         TrialError, Cleanup, svars, sessionVars, threadVars
  <2>2. ReachInv'
    BY <2>1 DEF ReachInv
  <2>3. ASSUME Alone' \/ Final(Closing \cup Recording)' \/ Certified'
        PROVE  Alone \/ Final(Closing \cup Recording) \/ Certified
    <3>1. CASE SetupError \/ TrialError
      BY <2>3, <3>1 DEF SetupError, TrialError, RunnerGo, Alone, Final, Certified, Closing,
                        Recording
    <3>2. CASE JoinFinished \/ JoinTimeout
      BY <3>2 DEF JoinFinished, JoinTimeout, RunnerGo, Alone
    <3>3. CASE Terminate
      <4>1. Censored' /\ rpc' = "stop" /\ UNCHANGED published
        BY <3>3 DEF Terminate, RunnerGo, StopInv, Censored
      <4> QED BY <2>3, <4>1 DEF Alone, Final, Certified
    <3>4. CASE RunnerStopGuard \/ RunnerStopSet \/ RunnerStopEvent \/ Seal \/ CloseChannel
      <4>1. /\ rpc \in Closing /\ rpc' \in Closing \cup Recording
            /\ UNCHANGED <<result, published>>
        BY <3>4 DEF RunnerStopGuard, RunnerStopSet, RunnerStopEvent, Seal, CloseChannel,
                    RunnerGo, Closing, Recording
      <4> QED BY <2>3, <4>1 DEF Alone, Final, Certified, Censored, Closing, Recording
    <3>5. CASE ObserveStop \/ TraceState \/ TraceEvents \/ TraceCheckpoints \/ VerifyOrCensor
               \/ FinalManifest
      <4>1. /\ rpc \in Recording /\ rpc' \in Recording /\ UNCHANGED <<result, published>>
        BY <3>5 DEF ObserveStop, TraceState, TraceEvents, TraceCheckpoints, VerifyOrCensor,
                    FinalManifest, RunnerGo, Recording
      <4> QED BY <2>3, <4>1 DEF Alone, Final, Certified, Censored, Recording
    <3>6. CASE Publish
      <4>1. rpc \in Recording /\ rpc' = "finally" /\ (~published'.censored => ~Censored)
        BY <3>6 DEF Publish, RunnerGo, Recording
      <4> QED BY <2>3, <4>1 DEF Alone, Final, Certified, Closing, Recording
    <3>7. CASE Cleanup
      BY <2>3, <3>7 DEF Cleanup, RunnerGo, Alone, Final, Certified, Closing, Recording
    <3> QED
      BY <1>3, <3>1, <3>2, <3>3, <3>4, <3>5, <3>6, <3>7 DEF RunnerStep
  <2>4. CASE UNCHANGED events
    <3>1. (Unexplained => Unexplained') /\ (Explained => Explained')
      BY <2>1, <2>4 DEF Unexplained, Explained, Replaced
    <3> QED BY <2>2, <2>3, <3>1 DEF FilesInv
  <2>5. CASE RunnerStopEvent
    <3> SUFFICES ASSUME Alone' \/ Final(Closing \cup Recording)' \/ Certified'
                 PROVE  Unexplained' \/ Explained'
      BY <2>2 DEF FilesInv
    <3>1. PICK e : Log(e) /\ ~IsEdit(e)
      BY <2>5 DEF RunnerStopEvent, Event, IsEdit, IsAction
    <3>2. ~Alive
      <4>1. rpc = "stop_event"
        BY <2>5 DEF RunnerStopEvent, RunnerGo
      <4>2. CASE Censored
        <5>1. Censored' /\ rpc' = "seal" /\ published' = NoRun
          BY <2>5, <4>1, <4>2 DEF RunnerStopEvent, RunnerGo, SealInv, Censored
        <5> QED BY <5>1 DEF Alone, Final, Certified
      <4> QED BY <1>1, <4>1, <4>2 DEF ThreadInv, Closing
    <3>3. wpc \in {"unborn", "dead"} /\ wpc' \in {"unborn", "dead"}
      BY <2>1, <3>2 DEF Alive
    <3>4. Unexplained => Unexplained'
      BY <1>1, <3>1, <3>3, StillUnexplained
    <3>5. Explained => Explained'
      BY <1>1, <2>1, <3>1, <3>3, LoggedExplained DEF Replaced
    <3> QED BY <2>3, <3>4, <3>5 DEF FilesInv
  <2> QED BY <2>1, <2>4, <2>5
<1> QED BY <1>2, <1>3

LEMMA FilesInit == Init => ReachInv /\ FilesInv
<1> SUFFICES ASSUME Init PROVE ReachInv /\ FilesInv
  OBVIOUS
<1>1. events = <<>> /\ Len(events) = 0 /\ wpc = "unborn" /\ disk = NoVersion + 1
  BY DEF Init, SessionInit
<1>2. Chained(events, 0) /\ Version(events, 0 + 1) = NoVersion + 1
  BY FirstVersion DEF Chained
<1>3. Explained
  BY <1>1, <1>2 DEF Explained, Replaced
<1> QED BY <1>1, <1>3 DEF ReachInv, FilesInv

\* A recorded checkpoint is counted before it is logged.
CountInv ==
  checkpoints = IF wpc = "cp_event" THEN Cardinality(CheckpointsOf(events)) + 1
                ELSE Cardinality(CheckpointsOf(events))

LEMMA CheckpointCount ==
  ASSUME NEW t, Len(t) \in Nat
  PROVE  IsFiniteSet(CheckpointsOf(t)) /\ Cardinality(CheckpointsOf(t)) \in Nat
<1>1. CheckpointsOf(t) \subseteq 1..Len(t) /\ IsFiniteSet(1..Len(t))
  BY FS_Interval DEF CheckpointsOf
<1> QED BY <1>1, FS_Subset, FS_CardinalityType

LEMMA SameCount ==
  ASSUME NEW t, NEW u, Len(u) = Len(t), \A i \in 1..Len(t) : u[i].kind = t[i].kind
  PROVE  CheckpointsOf(u) = CheckpointsOf(t)
  BY DEF CheckpointsOf

LEMMA NextCount ==
  ASSUME NEW t, NEW u, NEW n \in Nat, Len(t) = n, Len(u) = n + 1,
         \A i \in 1..n : u[i] = t[i]
  PROVE  Cardinality(CheckpointsOf(u)) = IF u[n + 1].kind = "checkpoint"
                                         THEN Cardinality(CheckpointsOf(t)) + 1
                                         ELSE Cardinality(CheckpointsOf(t))
<1>1. \A i \in 1..n+1 : i \in 1..n \/ i = n + 1
  OBVIOUS
<1>2. n + 1 \in 1..n+1 /\ n + 1 \notin 1..n /\ \A i \in 1..n : i \in 1..n+1
  OBVIOUS
<1>3. CASE u[n + 1].kind = "checkpoint"
  <2>1. CheckpointsOf(u) = CheckpointsOf(t) \cup {n + 1}
    BY <1>1, <1>2, <1>3 DEF CheckpointsOf
  <2>2. n + 1 \notin CheckpointsOf(t)
    BY <1>2 DEF CheckpointsOf
  <2>3. IsFiniteSet(CheckpointsOf(t)) /\ Cardinality(CheckpointsOf(t)) \in Nat
    BY CheckpointCount
  <2>4. Cardinality(CheckpointsOf(t) \cup {n + 1}) = Cardinality(CheckpointsOf(t)) + 1
    BY <2>2, <2>3, FS_AddElement
  <2> QED BY <1>3, <2>1, <2>4
<1>4. CASE u[n + 1].kind # "checkpoint"
  <2>1. CheckpointsOf(u) = CheckpointsOf(t)
    BY <1>1, <1>2, <1>4 DEF CheckpointsOf
  <2> QED BY <1>4, <2>1
<1> QED BY <1>3, <1>4

LEMMA AdapterCounts ==
  ASSUME TypeOK, CallInv, CountInv, AdapterStep
  PROVE  CountInv'
<1>1. CASE (\E c \in Calls : BeginCall(c)) \/ (\E r \in Outcomes : Finish(r)) \/ Lookup
           \/ ReserveGuard \/ ReserveBound \/ ReserveLimit \/ ReserveCharge \/ PerformOk
           \/ PerformRefused
           \/ PerformWriteError \/ PerformRaise
           \/ Reject("reject", "reject_event") \/ Reject("reject_write", "write_event")
           \/ CheckpointGuard \/ CheckpointBound \/ CheckpointLimit \/ CheckpointFull
           \/ StopGuard \/ StopSet
  <2>1. UNCHANGED <<events, checkpoints>> /\ wpc # "cp_event"
    BY <1>1 DEF BeginCall, Finish, Lookup, ReserveGuard, ReserveBound, ReserveLimit,
         ReserveCharge, PerformOk, PerformRefused, PerformWriteError, PerformRaise, Reject,
         CheckpointGuard, CheckpointBound, CheckpointLimit, CheckpointFull, StopGuard, StopSet,
         sessionVars, Go
  <2>2. wpc' # "cp_event"
    <3>1. CASE Lookup
      BY <3>1 DEF Lookup, Entry, Calls, CallInv, InCall, ThreadPoints
    <3>2. CASE ~Lookup
      BY <1>1, <3>2 DEF BeginCall, Finish, ReserveGuard, ReserveBound, ReserveLimit,
           ReserveCharge, PerformOk, PerformRefused, PerformWriteError, PerformRaise, Reject,
           CheckpointGuard, CheckpointBound, CheckpointLimit, CheckpointFull, StopGuard,
           StopSet, Go
    <3> QED BY <3>1, <3>2
  <2> QED BY <2>1, <2>2 DEF CountInv
<1>2. CASE CheckpointRecord
  BY <1>2 DEF CheckpointRecord, CountInv, Go
<1>3. CASE Annotate
  <2>1. wpc # "cp_event" /\ wpc' # "cp_event" /\ UNCHANGED checkpoints
    BY <1>3 DEF Annotate, Go
  <2>2. CheckpointsOf(events') = CheckpointsOf(events)
    BY <1>3, AnnotatedEntries, SameCount
  <2> QED BY <2>1, <2>2 DEF CountInv
<1>4. CASE Accept \/ RejectEvent \/ CheckpointEvent \/ StopEvent
  <2>1. PICK e : Log(e) /\ (e.kind = "checkpoint" <=> wpc = "cp_event")
    BY <1>4 DEF Accept, RejectEvent, CheckpointEvent, StopEvent, LogAndReturn, Event, Go
  <2>2. wpc' # "cp_event" /\ UNCHANGED checkpoints
    BY <1>4 DEF Accept, RejectEvent, CheckpointEvent, StopEvent, LogAndReturn, Go
  <2>3. Cardinality(CheckpointsOf(events')) =
          IF e.kind = "checkpoint" THEN Cardinality(CheckpointsOf(events)) + 1
          ELSE Cardinality(CheckpointsOf(events))
    <3>1. /\ Len(events) \in Nat /\ Len(events') = Len(events) + 1
          /\ \A i \in 1..Len(events) : events'[i] = events[i]
          /\ events'[Len(events) + 1] = e
      BY <2>1, AppendedEntries
    <3> QED BY <3>1, NextCount
  <2> QED BY <2>1, <2>2, <2>3 DEF CountInv
<1> QED BY <1>1, <1>2, <1>3, <1>4 DEF AdapterStep, ToolStep

LEMMA RunnerCounts ==
  ASSUME IInv, CountInv, RunnerStep
  PROVE  CountInv'
<1>1. TypeOK
  BY DEF IInv
<1>2. UNCHANGED checkpoints /\ (UNCHANGED wpc \/ Setup)
  BY DEF RunnerStep, Setup, SetupError, JoinFinished, JoinTimeout, Terminate,
         RunnerStopGuard, RunnerStopSet, RunnerStopEvent, Seal, CloseChannel, ObserveStop,
         TraceState, TraceEvents, TraceCheckpoints, VerifyOrCensor, FinalManifest, Publish,
         TrialError, Cleanup, svars, sessionVars, threadVars
<1>3. wpc' = "cp_event" <=> wpc = "cp_event"
  BY <1>2 DEF Setup, RunnerGo, IInv, ThreadInv
<1>4. CASE RunnerStopEvent
  <2>1. PICK e : Log(e) /\ e.kind # "checkpoint"
    BY <1>4 DEF RunnerStopEvent, Event
  <2>2. Cardinality(CheckpointsOf(events')) = Cardinality(CheckpointsOf(events))
    BY <1>1, <2>1, AppendedEntries, NextCount
  <2> QED BY <1>2, <1>3, <2>2 DEF CountInv
<1>5. CASE ~RunnerStopEvent
  <2>1. UNCHANGED events
    BY <1>5 DEF RunnerStep, Setup, SetupError, JoinFinished, JoinTimeout, Terminate,
         RunnerStopGuard, RunnerStopSet, Seal, CloseChannel, ObserveStop, TraceState,
         TraceEvents, TraceCheckpoints, VerifyOrCensor, FinalManifest, Publish, TrialError,
         Cleanup, svars, sessionVars
  <2> QED BY <1>2, <1>3, <2>1 DEF CountInv
<1> QED BY <1>4, <1>5

LEMMA CountInit == Init => CountInv
<1> SUFFICES ASSUME Init PROVE CountInv
  OBVIOUS
<1>1. events = <<>> /\ Len(events) = 0 /\ checkpoints = 0 /\ wpc = "unborn"
  BY DEF Init, SessionInit
<1>2. CheckpointsOf(events) = {}
  BY <1>1 DEF CheckpointsOf
<1> QED BY <1>1, <1>2, FS_EmptySet DEF CountInv

ArtifactInv == ReachInv /\ FilesInv /\ CountInv

LEMMA ArtifactInvariance == Spec => []ArtifactInv
<1> USE DEF ArtifactInv
<1>1. ASSUME IInv, OutcomeInv, ArtifactInv, [Next]_vars PROVE ArtifactInv'
  <2>1. CASE AdapterStep /\ UNCHANGED runnerVars
    <3>1. ReachInv' /\ CountInv'
      BY <1>1, <2>1, AdapterReach, AdapterCounts DEF IInv
    <3>2. FilesInv'
      <4>1. CASE Alone
        BY <1>1, <2>1, <4>1, AdapterFiles DEF OutcomeInv, FilesInv
      <4>2. CASE ~Alone
        <5>1. (rpc \in Closing \cup Recording => Censored) /\ ~Certified
          BY <1>1, <2>1, AdapterActs DEF OutcomeInv
        <5> QED BY <2>1, <4>2, <5>1 DEF FilesInv, Alone, Final, Certified, Censored, runnerVars
      <4> QED BY <4>1, <4>2
    <3> QED BY <3>1, <3>2
  <2>2. CASE RunnerStep
    BY <1>1, <2>2, RunnerFiles, RunnerCounts DEF OutcomeInv
  <2>3. CASE UNCHANGED vars
    BY <1>1, <2>3 DEF vars, svars, sessionVars, threadVars, runnerVars, ReachInv, FilesInv,
         CountInv, Alone, Final, Certified, Censored, Unexplained, Explained, Replaced
  <2> QED BY <1>1, <2>1, <2>2, <2>3 DEF Next
<1> QED BY <1>1, FilesInit, CountInit, OutcomeInvariance, Invariance, PTL DEF Spec

(* For every family and any number of edits, refusals, checkpoints and     *)
(* stops: an uncensored run's trace is the whole trace, its counters are   *)
(* those of the session, and its edits lead to the final manifest.         *)
THEOREM TraceExplainsFiles == Spec => []UncensoredTraceExplainsFiles
<1>1. IInv /\ OutcomeInv /\ ArtifactInv => UncensoredTraceExplainsFiles
  <2> SUFFICES ASSUME IInv, OutcomeInv, ArtifactInv, Certified
               PROVE  UncensoredTraceExplainsFiles
    BY DEF UncensoredTraceExplainsFiles, Certified
  <2>1. /\ wpc \in {"unborn", "dead"} /\ published.trace = events
        /\ published.record.remaining = remaining
        /\ published.record.checkpoints = checkpoints
        /\ published.record.manifest = disk
    BY DEF OutcomeInv, CopyInv, Alive
  <2>2. published.record.checkpoints = Cardinality(CheckpointsOf(published.trace))
    BY <2>1 DEF ArtifactInv, CountInv
  <2>3. \/ "edit_file" \in Raising
        \/ \E i \in 1..Len(events) : events[i].error = "write_failed"
        \/ /\ \A i \in 1..Len(events) : IsEdit(events[i]) => events[i].before = Version(events, i)
           /\ Version(events, Len(events) + 1) = disk
    BY <2>1 DEF ArtifactInv, FilesInv, Unexplained, Explained, Replaced, Chained
  <2> QED BY <2>1, <2>2, <2>3 DEF UncensoredTraceExplainsFiles
<1> QED BY <1>1, OutcomeInvariance, ArtifactInvariance, Invariance, PTL

-----------------------------------------------------------------------------
(* The contract, whose ledger of a trace is computed entry by entry.  The  *)
(* library's induction needs an operator as its parameter, so facts about  *)
(* all prefixes are proved from the least one that would violate them.     *)

\* f is the function Ledger computes, up to the first n entries of t.
UpTo(t, n, f) ==
  f = [i \in 0..n |-> IF i = 0 THEN <<>>
                      ELSE IF IsAction(t[i])
                           THEN Append(f[i - 1], [action |-> t[i].action,
                                                  remaining |-> t[i].remaining])
                           ELSE f[i - 1]]

LEMMA LeastNat ==
  ASSUME NEW S \in SUBSET Nat, S # {}
  PROVE  \E m \in S : \A k \in S : m <= k
<1>1. PICK m \in S : \A k \in S : ~ (<<k, m>> \in OpToRel(<, Nat))
  BY NatLessThanWellFounded, WFMin
<1>2. \A k \in S : ~ (k < m)
  BY <1>1 DEF OpToRel
<1> QED BY <1>2

LEMMA UpToExists ==
  ASSUME NEW t, NEW n \in Nat
  PROVE  \E f : UpTo(t, n, f)
<1> DEFINE S == {m \in Nat : ~ \E f : UpTo(t, m, f)}
<1>1. SUFFICES ASSUME S # {} PROVE FALSE
  OBVIOUS
<1>2. PICK m \in S : \A k \in S : m <= k
  BY <1>1, LeastNat
<1>3. CASE m = 0
  <2> DEFINE f == [i \in 0..0 |-> <<>>]
  <2>1. UpTo(t, 0, f)
    BY DEF UpTo
  <2> QED BY <1>2, <1>3, <2>1
<1>4. CASE m # 0
  <2>1. m \in Nat /\ m - 1 \in Nat /\ ~(m <= m - 1)
    BY <1>4
  <2>2. m - 1 \notin S
    BY <1>2, <2>1
  <2>3. PICK f : UpTo(t, m - 1, f)
    BY <2>1, <2>2
  <2> DEFINE last == IF IsAction(t[m])
                     THEN Append(f[m - 1], [action |-> t[m].action,
                                            remaining |-> t[m].remaining])
                     ELSE f[m - 1]
             g == [i \in 0..m |-> IF i = m THEN last ELSE f[i]]
  <2>4. \A i \in 0..m : i # m => i \in 0..m-1
    BY <2>1
  <2>5. g[m] = last /\ \A i \in 0..m-1 : g[i] = f[i]
    BY <2>1
  <2>6. m - 1 \in 0..m-1
    BY <2>1
  <2>7. ASSUME NEW i \in 0..m
        PROVE  g[i] = IF i = 0 THEN <<>>
                      ELSE IF IsAction(t[i])
                           THEN Append(g[i - 1], [action |-> t[i].action,
                                                  remaining |-> t[i].remaining])
                           ELSE g[i - 1]
    <3>1. CASE i = m
      BY <1>4, <2>5, <2>6, <3>1
    <3>2. CASE i # m
      <4>1. i \in 0..m-1 /\ (i # 0 => i - 1 \in 0..m-1)
        BY <2>4, <3>2
      <4>2. f[i] = IF i = 0 THEN <<>>
                   ELSE IF IsAction(t[i])
                        THEN Append(f[i - 1], [action |-> t[i].action,
                                               remaining |-> t[i].remaining])
                        ELSE f[i - 1]
        BY <2>3, <4>1 DEF UpTo
      <4> QED BY <2>5, <4>1, <4>2
    <3> QED BY <3>1, <3>2
  <2>8. UpTo(t, m, g)
    <3>1. g = [i \in 0..m |-> g[i]]
      OBVIOUS
    <3> HIDE DEF g
    <3> QED BY <2>7, <3>1 DEF UpTo
  <2> QED BY <1>2, <2>8
<1> QED BY <1>3, <1>4

LEMMA LedgerUpTo ==
  ASSUME NEW t, Len(t) \in Nat
  PROVE  \E f : UpTo(t, Len(t), f) /\ Ledger(t) = f[Len(t)]
<1>1. \E f : UpTo(t, Len(t), f)
  BY UpToExists
<1> QED BY <1>1 DEF Ledger, UpTo

\* Traces with the same accepted actions have the same ledger.
SameEntries(t, u, k) ==
  \A i \in 1..k : /\ u[i].kind = t[i].kind
                  /\ u[i].action = t[i].action
                  /\ u[i].remaining = t[i].remaining

LEMMA SameUpTo ==
  ASSUME NEW t, NEW u, NEW n \in Nat, NEW m \in Nat, NEW f, NEW g,
         UpTo(t, n, f), UpTo(u, m, g), NEW k \in Nat, k <= n, k <= m, SameEntries(t, u, k)
  PROVE  g[k] = f[k]
<1> DEFINE S == {i \in Nat : i <= k /\ g[i] # f[i]}
<1>1. SUFFICES ASSUME S # {} PROVE FALSE
  OBVIOUS
<1>2. PICK i \in S : \A j \in S : i <= j
  BY <1>1, LeastNat
<1>3. /\ i \in 0..n /\ i \in 0..m
      /\ f[i] = IF i = 0 THEN <<>>
                ELSE IF IsAction(t[i])
                     THEN Append(f[i - 1], [action |-> t[i].action,
                                            remaining |-> t[i].remaining])
                     ELSE f[i - 1]
      /\ g[i] = IF i = 0 THEN <<>>
                ELSE IF IsAction(u[i])
                     THEN Append(g[i - 1], [action |-> u[i].action,
                                            remaining |-> u[i].remaining])
                     ELSE g[i - 1]
  <2>1. i \in 0..n /\ i \in 0..m
    BY <1>2
  <2> QED BY <2>1 DEF UpTo
<1>4. i # 0 => g[i - 1] = f[i - 1]
  <2>1. i # 0 => i - 1 \in Nat /\ i - 1 <= k /\ ~(i <= i - 1)
    BY <1>2
  <2> QED BY <1>2, <2>1
<1>5. i # 0 => i \in 1..k
  BY <1>2
<1> QED BY <1>2, <1>3, <1>4, <1>5 DEF IsAction, SameEntries

LEMMA SameLedger ==
  ASSUME NEW t, NEW u, Len(t) \in Nat, Len(u) = Len(t), SameEntries(t, u, Len(t))
  PROVE  Ledger(u) = Ledger(t)
<1>1. PICK f : UpTo(t, Len(t), f) /\ Ledger(t) = f[Len(t)]
  BY LedgerUpTo
<1>2. PICK g : UpTo(u, Len(t), g) /\ Ledger(u) = g[Len(t)]
  BY LedgerUpTo
<1>3. Len(t) <= Len(t)
  OBVIOUS
<1>4. g[Len(t)] = f[Len(t)]
  BY <1>1, <1>2, <1>3, SameUpTo
<1> QED BY <1>1, <1>2, <1>4

LEMMA NextLedger ==
  ASSUME NEW t, NEW u, NEW n \in Nat, Len(t) = n, Len(u) = n + 1,
         \A i \in 1..n : u[i] = t[i]
  PROVE  Ledger(u) = IF IsAction(u[n + 1])
                     THEN Append(Ledger(t), [action |-> u[n + 1].action,
                                             remaining |-> u[n + 1].remaining])
                     ELSE Ledger(t)
<1>1. PICK f : UpTo(t, n, f) /\ Ledger(t) = f[n]
  BY LedgerUpTo
<1>2. PICK g : UpTo(u, n + 1, g) /\ Ledger(u) = g[n + 1]
  <2>1. Len(u) \in Nat
    OBVIOUS
  <2> QED BY <2>1, LedgerUpTo
<1>3. g[n] = f[n]
  <2>1. n + 1 \in Nat /\ n <= n + 1 /\ n <= n
    OBVIOUS
  <2>2. UpTo(t, n, f) /\ UpTo(u, n + 1, g)
    BY <1>1, <1>2
  <2>3. SameEntries(t, u, n)
    BY DEF SameEntries
  <2> QED BY <2>1, <2>2, <2>3, SameUpTo
<1>4. g[n + 1] = IF IsAction(u[n + 1])
                 THEN Append(g[n], [action |-> u[n + 1].action,
                                    remaining |-> u[n + 1].remaining])
                 ELSE g[n]
  <2>1. n + 1 \in 0..n+1 /\ n + 1 # 0 /\ (n + 1) - 1 = n
    OBVIOUS
  <2> QED BY <1>2, <2>1 DEF UpTo
<1> QED BY <1>1, <1>2, <1>3, <1>4

LEMMA EmptyLedger == Ledger(<<>>) = <<>>
<1>1. Len(<<>>) = 0
  OBVIOUS
<1>2. PICK f : UpTo(<<>>, 0, f) /\ Ledger(<<>>) = f[0]
  BY <1>1, LedgerUpTo
<1> QED BY <1>2 DEF UpTo

LedgerEntry == [action : Actions \cup {"none", "adapter", "runner"}, remaining : Nat]

LEMMA LedgerTyped ==
  ASSUME NEW t \in Seq(EventType)
  PROVE  Ledger(t) \in Seq(LedgerEntry)
<1> DEFINE n == Len(t)
<1>1. n \in Nat /\ \A i \in 1..n : t[i] \in EventType
  OBVIOUS
<1>2. PICK f : UpTo(t, n, f) /\ Ledger(t) = f[n]
  BY <1>1, LedgerUpTo
<1> HIDE DEF n
<1> DEFINE S == {i \in Nat : i <= n /\ f[i] \notin Seq(LedgerEntry)}
<1>3. SUFFICES ASSUME S # {} PROVE FALSE
  BY <1>1, <1>2
<1>4. PICK i \in S : \A j \in S : i <= j
  BY <1>3, LeastNat
<1>5. i \in 0..n /\ f[i] = IF i = 0 THEN <<>>
                           ELSE IF IsAction(t[i])
                                THEN Append(f[i - 1], [action |-> t[i].action,
                                                       remaining |-> t[i].remaining])
                                ELSE f[i - 1]
  <2>1. i \in 0..n
    BY <1>1, <1>4
  <2> QED BY <1>2, <2>1 DEF UpTo
<1>6. i # 0 => f[i - 1] \in Seq(LedgerEntry)
  <2>1. i # 0 => i - 1 \in Nat /\ i - 1 <= n /\ ~(i <= i - 1)
    BY <1>1, <1>4
  <2> QED BY <1>4, <2>1
<1>7. i # 0 => [action |-> t[i].action, remaining |-> t[i].remaining] \in LedgerEntry
  <2>1. i # 0 => i \in 1..n
    BY <1>1, <1>5
  <2> QED BY <1>1, <2>1 DEF EventType, LedgerEntry
<1>8. <<>> \in Seq(LedgerEntry)
  OBVIOUS
<1>9. i # 0 => Append(f[i - 1], [action |-> t[i].action, remaining |-> t[i].remaining])
               \in Seq(LedgerEntry)
  BY <1>6, <1>7
<1> QED BY <1>4, <1>5, <1>6, <1>8, <1>9

-----------------------------------------------------------------------------
(* The steps of the contract.                                              *)

UnderWay == wpc \in {"bound", "charge", "perform", "accept"}

\* Nothing the contract sees changes, or the action under way is given up.
LEMMA QuietContract ==
  ASSUME Held' = Held, Ledger(events') = Ledger(events), published' = published,
         sealed' = sealed, sealed /\ UnderWay' => UnderWay
  PROVE  Contract!ContractNext \/ UNCHANGED Contract!contractVars
<1>1. (remaining + InFlight)' = remaining + InFlight
  BY DEF Held
<1>2. Claim' = Claim
  BY DEF Claim
<1>3. Phase' = Phase \/ (Phase = "closing" /\ Phase' = "closed")
  BY DEF Phase, UnderWay
<1>4. CASE Phase' = Phase
  BY <1>1, <1>2, <1>4 DEF Contract!contractVars
<1>5. CASE Phase = "closing" /\ Phase' = "closed"
  <2>1. Contract!Lapse
    BY <1>1, <1>2, <1>5 DEF Contract!Lapse
  <2> QED BY <2>1 DEF Contract!ContractNext
<1> QED BY <1>3, <1>4, <1>5

\* The action under way is paid for, with or without an entry.
LEMMA PaidContract ==
  ASSUME NEW k \in Supported, UnderWay, ~UnderWay', sealed' = sealed, published' = published,
         Cost[k] <= Held, Held' = Held - Cost[k],
         \/ Ledger(events') = Ledger(events)
         \/ Ledger(events') = Append(Ledger(events), [action |-> k, remaining |-> Held'])
  PROVE  Contract!ContractNext
<1>1. Claim' = Claim
  BY DEF Claim
<1>2. Phase \in {"open", "closing"} /\ Phase' = IF Phase = "open" THEN "open" ELSE "closed"
  BY DEF Phase, UnderWay
<1>3. CASE Ledger(events') = Ledger(events)
  <2>1. Contract!Forfeit(k)
    BY <1>1, <1>2, <1>3 DEF Contract!Forfeit, Held
  <2> QED BY <2>1 DEF Contract!ContractNext
<1>4. CASE Ledger(events') = Append(Ledger(events), [action |-> k, remaining |-> Held'])
  <2>1. Contract!Spend(k)
    BY <1>1, <1>2, <1>4 DEF Contract!Spend, Held
  <2> QED BY <2>1 DEF Contract!ContractNext
<1> QED BY <1>3, <1>4

LEMMA LoggedLedger ==
  ASSUME TypeOK, NEW e, Log(e)
  PROVE  Ledger(events') = IF IsAction(e)
                           THEN Append(Ledger(events), [action |-> e.action,
                                                        remaining |-> e.remaining])
                           ELSE Ledger(events)
<1> DEFINE n == Len(events)
<1>1. /\ n \in Nat /\ Len(events') = n + 1 /\ \A i \in 1..n : events'[i] = events[i]
      /\ events'[n + 1] = e
  BY AppendedEntries
<1> HIDE DEF n
<1>2. Len(events) = n
  BY DEF n
<1> QED BY <1>1, <1>2, NextLedger

LEMMA AdapterContract ==
  ASSUME IInv, AdapterStep, UNCHANGED runnerVars
  PROVE  Contract!ContractNext \/ UNCHANGED Contract!contractVars
<1>1. TypeOK /\ CallInv /\ published' = published
  BY DEF IInv, runnerVars
<1>2. sealed' = sealed
  BY DEF AdapterStep, ToolStep, BeginCall, Finish, Lookup, ReserveGuard, ReserveBound,
       ReserveLimit, ReserveCharge, PerformOk, PerformRefused, PerformWriteError, PerformRaise,
       Accept, Annotate, Reject, RejectEvent, CheckpointGuard, CheckpointBound,
       CheckpointLimit, CheckpointFull, CheckpointRecord, CheckpointEvent, StopGuard, StopSet,
       StopEvent, LogAndReturn, sessionVars
<1>3. sealed /\ UnderWay' => UnderWay
  <2>1. CASE Lookup
    BY <1>1, <2>1 DEF Lookup, Entry, Calls, CallInv, InCall, ThreadPoints, UnderWay
  <2>2. CASE ReserveGuard
    BY <2>2 DEF ReserveGuard, UnderWay
  <2>3. CASE ~Lookup /\ ~ReserveGuard
    BY <2>3 DEF AdapterStep, ToolStep, BeginCall, Finish, ReserveBound, ReserveLimit,
         ReserveCharge, PerformOk, PerformRefused, PerformWriteError, PerformRaise, Accept,
         Annotate, Reject, RejectEvent, CheckpointGuard, CheckpointBound, CheckpointLimit,
         CheckpointFull, CheckpointRecord, CheckpointEvent, StopGuard, StopSet, StopEvent,
         LogAndReturn, Go, UnderWay
  <2> QED BY <2>1, <2>2, <2>3
<1>4. UnderWay => call.action \in Supported /\ Cost[call.action] \in Nat
  BY <1>1 DEF CallInv, UnderWay
<1>5. remaining \in Nat
  BY <1>1 DEF TypeOK, SessionTypeOK
<1>6. CASE UNCHANGED events /\ Held' = Held
  BY <1>1, <1>2, <1>3, <1>6, QuietContract
<1>7. CASE \E e : Log(e) /\ ~IsAction(e) /\ Held' = Held
  <2>1. Ledger(events') = Ledger(events)
    BY <1>1, <1>7, LoggedLedger
  <2> QED BY <1>1, <1>2, <1>3, <1>7, <2>1, QuietContract
<1>8. CASE Annotate /\ Held' = Held
  <2>1. SameEntries(events, events', Len(events)) /\ Len(events') = Len(events)
        /\ Len(events) \in Nat
    BY <1>1, <1>8, AnnotatedEntries DEF SameEntries
  <2>2. Ledger(events') = Ledger(events)
    BY <2>1, SameLedger
  <2> QED BY <1>1, <1>2, <1>3, <1>8, <2>2, QuietContract
<1>9. ASSUME Held' = remaining, Held = remaining + Cost[call.action], UnderWay
      PROVE  Cost[call.action] <= Held /\ Held' = Held - Cost[call.action]
  BY <1>4, <1>5, <1>9
<1>10. CASE /\ PerformRaise /\ UNCHANGED events
            /\ Held' = remaining /\ Held = remaining + Cost[call.action]
  <2>1. UnderWay /\ ~UnderWay'
    BY <1>10 DEF PerformRaise, Go, UnderWay
  <2>2. Cost[call.action] <= Held /\ Held' = Held - Cost[call.action]
    BY <1>9, <1>10, <2>1
  <2> QED BY <1>1, <1>2, <1>4, <1>10, <2>1, <2>2, PaidContract
<1>11. CASE Accept /\ Held' = remaining /\ Held = remaining + Cost[call.action]
  <2>1. UnderWay /\ ~UnderWay'
    BY <1>11 DEF Accept, Go, UnderWay
  <2>2. Cost[call.action] <= Held /\ Held' = Held - Cost[call.action]
    BY <1>9, <1>11, <2>1
  <2>3. PICK e : Log(e) /\ IsAction(e) /\ e.action = call.action /\ e.remaining = remaining
    BY <1>11 DEF Accept, Event, IsAction
  <2>4. Ledger(events') = Append(Ledger(events), [action |-> call.action,
                                                  remaining |-> Held'])
    BY <1>1, <1>11, <2>3, LoggedLedger
  <2> QED BY <1>1, <1>2, <1>4, <2>1, <2>2, <2>4, PaidContract
<1> QED BY <1>1, <1>6, <1>7, <1>8, <1>10, <1>11, AdapterHeld

\* A copy of all but the last entry has all of the ledger, or all but its last.
LEMMA CopiedLedger ==
  ASSUME TypeOK, record.length <= Len(events), Len(events) <= record.length + 1
  PROVE  \E n \in {Len(Ledger(events)) - 1, Len(Ledger(events))} \cap Nat :
           Ledger(SubSeq(events, 1, record.length)) = SubSeq(Ledger(events), 1, n)
<1> DEFINE k == record.length
           t == SubSeq(events, 1, k)
           L == Ledger(events)
<1>1. events \in Seq(EventType) /\ Len(events) \in Nat /\ k \in Nat
  BY DEF TypeOK, SessionTypeOK, RecordType
<1>2. L \in Seq(LedgerEntry) /\ Len(L) \in Nat
  BY <1>1, LedgerTyped
<1>3. CASE k = Len(events)
  <2>1. t = events
    BY <1>1, <1>3, WholeTrace
  <2>2. SubSeq(L, 1, Len(L)) = L
    BY <1>2, WholeTrace
  <2> HIDE DEF L
  <2> QED BY <1>2, <2>1, <2>2 DEF L
<1>4. CASE k # Len(events)
  <2>1. Len(events) = k + 1
    BY <1>1, <1>4
  <2>2. /\ t \in Seq(EventType) /\ Len(t) = k
        /\ \A i \in 1..k : t[i] = events[i]
    BY <1>1, <2>1
  <2>3. Ledger(t) \in Seq(LedgerEntry)
    BY <2>2, LedgerTyped
  <2>4. events[k + 1] \in EventType
    BY <1>1, <2>1
  <2> DEFINE entry == [action |-> events[k + 1].action, remaining |-> events[k + 1].remaining]
  <2>5. entry \in LedgerEntry
    BY <2>4 DEF EventType, LedgerEntry
  <2>6. L = Append(Ledger(t), entry) \/ L = Ledger(t)
    <3>1. \A i \in 1..k : events[i] = t[i]
      BY <2>2
    <3> HIDE DEF t
    <3> QED BY <1>1, <2>1, <2>2, <3>1, NextLedger
  <2> HIDE DEF t, L, entry
  <2>7. CASE L = Ledger(t)
    <3>1. SubSeq(L, 1, Len(L)) = Ledger(t)
      BY <1>2, <2>7, WholeTrace
    <3> QED BY <1>2, <3>1 DEF L, t
  <2>8. CASE L = Append(Ledger(t), entry)
    <3>1. Len(L) - 1 = Len(Ledger(t)) /\ Len(L) - 1 \in Nat
      BY <2>3, <2>5, <2>8
    <3>2. SubSeq(L, 1, Len(L) - 1) = Ledger(t)
      BY <2>3, <2>5, <2>8
    <3> QED BY <1>2, <3>1, <3>2 DEF L, t
  <2> QED BY <2>6, <2>7, <2>8
<1> QED BY <1>3, <1>4

LEMMA PublishContract ==
  ASSUME IInv, SealInv, LateInv, CopyInv, Publish
  PROVE  Contract!ContractNext
<1>1. rpc = "publish" /\ UNCHANGED svars
  BY DEF Publish, RunnerGo
<1>2. published = NoRun /\ sealed
  BY <1>1 DEF SealInv, Recording
<1>3. Claim = Contract!NoClaim
  BY <1>2 DEF Claim, Contract!NoClaim
<1>4. /\ (remaining + InFlight)' = remaining + InFlight
      /\ Ledger(events)' = Ledger(events) /\ Phase' = Phase /\ Phase # "open"
  BY <1>1, <1>2 DEF svars, sessionVars, threadVars, InFlight, Phase
<1>5. /\ published' # NoRun
      /\ published'.trace = SubSeq(events, 1, record.length)
      /\ (published'.censored <=> Censored)
  <2>1. result \in Outcomes
    BY <1>1 DEF IInv, ThreadInv, Recording
  <2>2. published'.run = result /\ result # "none"
    BY <2>1 DEF Publish, Outcomes
  <2> QED BY <2>2 DEF Publish, Censored
<1>6. Claim' = [kind |-> IF Censored THEN "censored" ELSE "certified",
                ledger |-> Ledger(SubSeq(events, 1, record.length))]
  BY <1>5 DEF Claim
<1>7. CASE Censored
  <2>1. record.traced /\ record.length <= Len(events) /\ Len(events) <= record.length + 1
    BY <1>1 DEF SealInv, LateInv, IInv, LengthInv
  <2>2. PICK n \in {Len(Ledger(events)) - 1, Len(Ledger(events))} \cap Nat :
          Ledger(SubSeq(events, 1, record.length)) = SubSeq(Ledger(events), 1, n)
    BY <2>1, CopiedLedger DEF IInv
  <2>3. Contract!Censor
    BY <1>3, <1>4, <1>6, <1>7, <2>2 DEF Contract!Censor
  <2> QED BY <2>3 DEF Contract!ContractNext
<1>8. CASE ~Censored
  <2>1. wpc \in {"unborn", "dead"}
    BY <1>1, <1>8 DEF IInv, ThreadInv, Recording, Alive
  <2>2. Phase = "closed"
    BY <1>2, <2>1 DEF Phase
  <2>3. SubSeq(events, 1, record.length) = events
    <3>1. record.length = Len(events) /\ events \in Seq(EventType)
      BY <1>1, <1>8 DEF CopyInv, Final, IInv, TypeOK, SessionTypeOK
    <3> QED BY <3>1, WholeTrace
  <2>4. Contract!Certify
    BY <1>3, <1>4, <1>6, <1>8, <2>2, <2>3 DEF Contract!Certify
  <2> QED BY <2>4 DEF Contract!ContractNext
<1> QED BY <1>7, <1>8

LEMMA RunnerContract ==
  ASSUME IInv, SealInv, LateInv, CopyInv, RunnerStep
  PROVE  Contract!ContractNext \/ UNCHANGED Contract!contractVars
<1>1. TypeOK /\ Held' = Held /\ (UNCHANGED wpc \/ Setup) /\ (UNCHANGED events \/ RunnerStopEvent)
  BY RunnerHeld DEF IInv
<1>2. Ledger(events') = Ledger(events)
  <2>1. CASE RunnerStopEvent
    <3>1. PICK e : Log(e) /\ ~IsAction(e)
      BY <2>1 DEF RunnerStopEvent, Event, IsAction
    <3> QED BY <1>1, <3>1, LoggedLedger
  <2> QED BY <1>1, <2>1
<1>3. UnderWay' <=> UnderWay
  <2>1. Setup => wpc = "unborn" /\ wpc' = "ready"
    BY DEF Setup, RunnerGo, IInv, ThreadInv
  <2> QED BY <1>1, <2>1 DEF UnderWay
<1>4. CASE Publish
  BY <1>4, PublishContract
<1>5. CASE Seal
  <2>1. ~sealed /\ sealed' /\ Claim' = Claim
    BY <1>5 DEF Seal, RunnerGo, SealInv, Unsealed, Claim
  <2>2. Phase = "open" /\ Phase' \in {"closing", "closed"}
    BY <2>1 DEF Phase
  <2>3. Contract!Close
    BY <1>1, <1>2, <2>1, <2>2 DEF Contract!Close, Held
  <2> QED BY <2>3 DEF Contract!ContractNext
<1>6. CASE ~Publish /\ ~Seal
  <2>1. UNCHANGED <<published, sealed>>
    BY <1>6 DEF RunnerStep, Setup, SetupError, JoinFinished, JoinTimeout, Terminate,
       RunnerStopGuard, RunnerStopSet, RunnerStopEvent, CloseChannel, ObserveStop, TraceState,
       TraceEvents, TraceCheckpoints, VerifyOrCensor, FinalManifest, TrialError, Cleanup,
       svars, sessionVars
  <2> QED BY <1>1, <1>2, <1>3, <2>1, QuietContract
<1> QED BY <1>4, <1>5, <1>6

LEMMA InitContract == Init => Contract!ContractInit
<1> SUFFICES ASSUME Init PROVE Contract!ContractInit
  OBVIOUS
<1>1. /\ events = <<>> /\ remaining = MaxCost /\ InFlight = 0 /\ ~sealed /\ published = NoRun
  BY DEF Init, SessionInit, InFlight
<1>2. Ledger(events) = <<>> /\ Phase = "open" /\ Claim = Contract!NoClaim
  BY <1>1, EmptyLedger DEF Phase, Claim, Contract!NoClaim
<1>3. remaining + InFlight = MaxCost
  BY <1>1
<1> QED BY <1>2, <1>3 DEF Contract!ContractInit

(* Every trial, for every family, adapter and interleaving of the two      *)
(* threads, is a behaviour of TrialContract: a call is paid for exactly    *)
(* once or not at all, at most one call passes after the session is        *)
(* sealed, and a published trace claims the ledger it is certified for.    *)
THEOREM ContractImplemented == Spec => ImplementsContract
<1>1. IInv /\ SealInv /\ LateInv /\ OutcomeInv /\ [Next]_vars
        => [Contract!ContractNext]_(Contract!contractVars)
  <2> SUFFICES ASSUME IInv, SealInv, LateInv, OutcomeInv, [Next]_vars
               PROVE  Contract!ContractNext \/ UNCHANGED Contract!contractVars
    OBVIOUS
  <2>1. CASE AdapterStep /\ UNCHANGED runnerVars
    BY <2>1, AdapterContract
  <2>2. CASE RunnerStep
    BY <2>2, RunnerContract DEF OutcomeInv
  <2>3. CASE UNCHANGED vars
    BY <2>3 DEF vars, svars, sessionVars, threadVars, runnerVars, Contract!contractVars,
       InFlight, Phase, Claim
  <2> QED BY <2>1, <2>2, <2>3 DEF Next
<1> QED
  BY <1>1, InitContract, Invariance, LateInvariance, OutcomeInvariance, PTL
     DEF Spec, ImplementsContract, Contract!ContractSpec
=============================================================================
