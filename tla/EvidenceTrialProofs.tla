------------------------ MODULE EvidenceTrialProofs ------------------------
(***************************************************************************)
(* Proofs about the unattended trial of a declared case, for every case    *)
(* and any number of tool calls.  A trial that ends in time is sequential: *)
(* its adapter is dead before the runner stops, seals and copies.  One     *)
(* that times out is not, and all that is left of the order is that a      *)
(* sealed session accepts at most one request more.                        *)
(***************************************************************************)
EXTENDS EvidenceTrial, NaturalsInduction, WellFoundedInduction, TLAPS

-----------------------------------------------------------------------------
(* The inductive invariant: types, and how far each thread bounds the      *)
(* other.                                                                  *)

Requests == [op : {"request"}, action : Actions]

\* What the steps already taken guarantee of the call in flight.
CallInv ==
  /\ wpc \in {"request", "bound", "limit", "charge", "accept", "reject", "reject_event"} =>
       call \in Requests
  /\ wpc \in {"bound", "charge", "accept"} => call.action \in Supported
  /\ wpc \in {"bound", "charge"} => Cost[call.action] <= remaining
  /\ wpc \in {"reject", "reject_event"} =>
       told # <<>> /\ told[Len(told)].kind = "rejected_action"
  /\ wpc = "dead" => outcome \in RunStatuses \ {"adapter_timeout"}

SealedPoints == {"state", "events", "checkpoints", "publish", "finally", "done"}

\* A session is sealed when no thread can find it active, and only a run that
\* has timed out leaves its adapter alive.
RunnerInv ==
  /\ rpc = "join" => result = "none"
  /\ rpc # "join" => result \in RunStatuses
  /\ rpc # "join" /\ result # "adapter_timeout" => wpc = "dead"
  /\ sealed = "sealed" <=> rpc \in SealedPoints
  /\ rpc \in {"stop_event", "seal"} \cup SealedPoints => status # "active"

\* A stop names the thread it came from.
StopsNamed(trace) ==
  LET stops == OfKind(trace, "stop")
  IN  \A i \in 1..Len(stops) : stops[i].action \in {"adapter", "runner"}

StopInv == StopsNamed(events) /\ StopsNamed(record.trace)

\* What is published is what was copied.
PublishedInv ==
  published # NoRun =>
    /\ rpc \in {"finally", "done"}
    /\ published.run = result
    /\ published.record = record
    /\ published.annotations = Annotations(record)

IInv == TypeOK /\ CallInv /\ RunnerInv /\ StopInv /\ PublishedInv

-----------------------------------------------------------------------------
(* What a trial that ends in time guarantees besides.                      *)

OnTime == rpc = "join" \/ result # "adapter_timeout"

Refusing == wpc \in {"reject", "reject_event"}

LastTold == told[Len(told)]

\* Every answer is logged, the refusal that is under way excepted.
LogInv ==
  OnTime =>
    /\ ~Refusing => Logged(told) = Logged(events)
    /\ Refusing => /\ LastTold.kind = "rejected_action"
                   /\ Logged(told) = Append(Logged(events), LastTold)

BudgetTold(s) == \E i \in 1..Len(s) : s[i].error = "budget"

\* An answer gives the balance it leaves.
BalanceInv ==
  OnTime =>
    /\ told # <<>> /\ wpc # "accept" => LastTold.remaining = remaining
    /\ BudgetTold(told) <=> BudgetTold(events) \/ (Refusing /\ LastTold.error = "budget")

CheckpointInv ==
  OnTime =>
    checkpoints = IF wpc = "cp_event" THEN Len(OfKind(told, "checkpoint")) + 1
                  ELSE Len(OfKind(told, "checkpoint"))

\* Where the adapter is past a test of the status, and nothing has ended since.
Acting == {"bound", "limit", "charge", "accept", "cp_record", "cp_event", "stop_set"}

\* The status tells of the event limit, or of the one stop.
StatusInv ==
  OnTime =>
    /\ wpc \in Acting => status = "active"
    /\ rpc = "stop_set" => status = "active"
    /\ wpc = "stop_event" \/ rpc = "stop_event" => status = "stopped"
    /\ status = "event_limit" <=> OfKind(told, "limit") # <<>>
    /\ Len(OfKind(events, "stop")) =
         IF status = "stopped" /\ wpc # "stop_event" /\ rpc # "stop_event" THEN 1 ELSE 0

\* The logged actions include an edit when the adapter was told of one.
EditInv ==
  OnTime =>
    LET accepted == OfKind(events, "action")
    IN  (\E i \in 1..Len(accepted) : accepted[i].action = "edit")
        <=> \E i \in 1..Len(told) : told[i].kind = "action" /\ told[i].action = "edit"

\* What is copied stays as it was copied.
CopyInv ==
  OnTime =>
    /\ rpc \in SealedPoints \ {"state"} => record.status = status /\ record.remaining = remaining
    /\ rpc \in SealedPoints \ {"state", "events"} => record.trace = events
    /\ rpc \in {"publish", "finally", "done"} => record.checkpoints = checkpoints

OInv ==
  /\ IInv
  /\ LogInv /\ BalanceInv /\ CheckpointInv /\ StatusInv /\ EditInv /\ CopyInv

-----------------------------------------------------------------------------
(* The entries of some kinds.  The library's induction needs an operator   *)
(* as its parameter, so facts about all prefixes are proved from the least *)
(* one that would violate them.                                            *)

\* f is the function OfKinds computes, up to the first n entries of s.
UpTo(s, kinds, n, f) ==
  f = [i \in 0..n |-> IF i = 0 THEN <<>>
                      ELSE IF s[i].kind \in kinds THEN Append(f[i - 1], s[i])
                      ELSE f[i - 1]]

LEMMA LeastNat ==
  ASSUME NEW S \in SUBSET Nat, S # {}
  PROVE  \E m \in S : \A k \in S : m <= k
<1>1. PICK m \in S : \A k \in S : ~ (<<k, m>> \in OpToRel(<, Nat))
  BY NatLessThanWellFounded, WFMin
<1>2. \A k \in S : ~ (k < m)
  BY <1>1 DEF OpToRel
<1> QED BY <1>2

LEMMA UpToExists ==
  ASSUME NEW s, NEW kinds, NEW n \in Nat
  PROVE  \E f : UpTo(s, kinds, n, f)
<1> DEFINE S == {m \in Nat : ~ \E f : UpTo(s, kinds, m, f)}
<1>1. SUFFICES ASSUME S # {} PROVE FALSE
  OBVIOUS
<1>2. PICK m \in S : \A k \in S : m <= k
  BY <1>1, LeastNat
<1>3. CASE m = 0
  <2> DEFINE f == [i \in 0..0 |-> <<>>]
  <2>1. UpTo(s, kinds, 0, f)
    BY DEF UpTo
  <2> QED BY <1>2, <1>3, <2>1
<1>4. CASE m # 0
  <2>1. m \in Nat /\ m - 1 \in Nat /\ ~(m <= m - 1)
    BY <1>4
  <2>2. PICK f : UpTo(s, kinds, m - 1, f)
    BY <1>2, <2>1
  <2> DEFINE last == IF s[m].kind \in kinds THEN Append(f[m - 1], s[m]) ELSE f[m - 1]
             g == [i \in 0..m |-> IF i = m THEN last ELSE f[i]]
  <2>3. /\ \A i \in 0..m : i # m => i \in 0..m-1 /\ (i # 0 => i - 1 \in 0..m-1)
        /\ m - 1 \in 0..m-1
    BY <2>1
  <2>4. g[m] = last /\ \A i \in 0..m-1 : g[i] = f[i]
    BY <2>1
  <2>5. ASSUME NEW i \in 0..m
        PROVE  g[i] = IF i = 0 THEN <<>>
                      ELSE IF s[i].kind \in kinds THEN Append(g[i - 1], s[i])
                      ELSE g[i - 1]
    <3>1. CASE i = m
      BY <1>4, <2>3, <2>4, <3>1
    <3>2. CASE i # m
      <4>1. f[i] = IF i = 0 THEN <<>>
                   ELSE IF s[i].kind \in kinds THEN Append(f[i - 1], s[i])
                   ELSE f[i - 1]
        BY <2>2, <2>3, <3>2 DEF UpTo
      <4> QED BY <2>3, <2>4, <3>2, <4>1
    <3> QED BY <3>1, <3>2
  <2>6. UpTo(s, kinds, m, g)
    <3>1. g = [i \in 0..m |-> g[i]]
      OBVIOUS
    <3> HIDE DEF g
    <3> QED BY <2>5, <3>1 DEF UpTo
  <2> QED BY <1>2, <2>6
<1> QED BY <1>3, <1>4

LEMMA OfKindsUpTo ==
  ASSUME NEW s, NEW kinds, Len(s) \in Nat
  PROVE  \E f : UpTo(s, kinds, Len(s), f) /\ OfKinds(s, kinds) = f[Len(s)]
<1>1. \E f : UpTo(s, kinds, Len(s), f)
  BY UpToExists
<1> QED BY <1>1 DEF OfKinds, UpTo

(* Two computations agree as far as their sequences do.                    *)
LEMMA SameUpTo ==
  ASSUME NEW s, NEW u, NEW kinds, NEW n \in Nat, NEW m \in Nat, n <= m, NEW f, NEW g,
         UpTo(s, kinds, n, f), UpTo(u, kinds, m, g), \A i \in 1..n : u[i] = s[i]
  PROVE  g[n] = f[n]
<1> DEFINE S == {i \in Nat : i <= n /\ g[i] # f[i]}
<1>1. SUFFICES ASSUME S # {} PROVE FALSE
  OBVIOUS
<1>2. PICK i \in S : \A j \in S : i <= j
  BY <1>1, LeastNat
<1>3. i \in 0..n /\ i \in 0..m
  BY <1>2
<1>4. /\ f[i] = IF i = 0 THEN <<>>
                ELSE IF s[i].kind \in kinds THEN Append(f[i - 1], s[i]) ELSE f[i - 1]
      /\ g[i] = IF i = 0 THEN <<>>
                ELSE IF u[i].kind \in kinds THEN Append(g[i - 1], u[i]) ELSE g[i - 1]
  BY <1>3 DEF UpTo
<1>5. i # 0 => i - 1 \in Nat /\ i - 1 <= n /\ ~(i <= i - 1) /\ i \in 1..n
  BY <1>2
<1>6. i # 0 => g[i - 1] = f[i - 1]
  BY <1>2, <1>5
<1> QED BY <1>2, <1>4, <1>5, <1>6

(* An empty trace has no entries of any kind.                              *)
LEMMA NoneOfKinds == ASSUME NEW kinds PROVE OfKinds(<<>>, kinds) = <<>>
<1>1. PICK f : UpTo(<<>>, kinds, 0, f) /\ OfKinds(<<>>, kinds) = f[0]
  BY OfKindsUpTo
<1> QED BY <1>1 DEF UpTo

(* A new entry is added to the entries of its kind and to no others.       *)
LEMMA NextOfKinds ==
  ASSUME NEW T, NEW s \in Seq(T), NEW e \in T, NEW kinds
  PROVE  OfKinds(Append(s, e), kinds) =
           IF e.kind \in kinds THEN Append(OfKinds(s, kinds), e) ELSE OfKinds(s, kinds)
<1> DEFINE n == Len(s)
           u == Append(s, e)
<1>1. /\ n \in Nat /\ Len(u) = n + 1 /\ u[n + 1] = e
      /\ \A i \in 1..n : u[i] = s[i]
  OBVIOUS
<1> HIDE DEF n, u
<1>2. PICK f : UpTo(s, kinds, n, f) /\ OfKinds(s, kinds) = f[n]
  BY <1>1, OfKindsUpTo DEF n
<1>3. PICK g : UpTo(u, kinds, n + 1, g) /\ OfKinds(u, kinds) = g[n + 1]
  BY <1>1, OfKindsUpTo
<1>4. g[n] = f[n]
  <2>1. n + 1 \in Nat /\ n <= n + 1
    BY <1>1
  <2> QED BY <1>1, <1>2, <1>3, <2>1, SameUpTo
<1>5. g[n + 1] = IF u[n + 1].kind \in kinds THEN Append(g[n], u[n + 1]) ELSE g[n]
  <2>1. n + 1 \in 0..n+1 /\ n + 1 # 0 /\ (n + 1) - 1 = n
    BY <1>1
  <2>2. g[n + 1] = IF n + 1 = 0 THEN <<>>
                   ELSE IF u[n + 1].kind \in kinds THEN Append(g[(n + 1) - 1], u[n + 1])
                   ELSE g[(n + 1) - 1]
    BY <1>3, <2>1 DEF UpTo
  <2> QED BY <2>1, <2>2
<1> QED BY <1>1, <1>2, <1>3, <1>4, <1>5 DEF u

(* The entries of some kinds are entries.                                  *)
LEMMA OfKindsTyped ==
  ASSUME NEW T, NEW s \in Seq(T), NEW kinds
  PROVE  OfKinds(s, kinds) \in Seq(T)
<1>1. Len(s) \in Nat /\ \A i \in 1..Len(s) : s[i] \in T
  OBVIOUS
<1>2. PICK f : UpTo(s, kinds, Len(s), f) /\ OfKinds(s, kinds) = f[Len(s)]
  BY <1>1, OfKindsUpTo
<1> DEFINE n == Len(s)
           S == {i \in Nat : i <= n /\ f[i] \notin Seq(T)}
<1> HIDE DEF n
<1>3. S = {}
  <2>1. SUFFICES ASSUME S # {} PROVE FALSE
    OBVIOUS
  <2>2. PICK i \in S : \A j \in S : i <= j
    BY <2>1, LeastNat
  <2>3. i \in 0..n /\ n \in Nat
    BY <1>1, <2>2 DEF n
  <2>4. f[i] = IF i = 0 THEN <<>>
               ELSE IF s[i].kind \in kinds THEN Append(f[i - 1], s[i]) ELSE f[i - 1]
    BY <1>2, <2>3 DEF UpTo, n
  <2>5. i # 0 => i - 1 \in Nat /\ i - 1 <= n /\ ~(i <= i - 1) /\ i \in 1..n
    BY <2>2, <2>3
  <2>6. i # 0 => f[i - 1] \in Seq(T) /\ s[i] \in T
    BY <1>1, <2>2, <2>5 DEF n
  <2>7. CASE i = 0
    <3>1. <<>> \in Seq(T)
      OBVIOUS
    <3> QED BY <2>2, <2>4, <2>7, <3>1
  <2>8. CASE i # 0
    <3>1. Append(f[i - 1], s[i]) \in Seq(T)
      BY <2>6, <2>8
    <3> QED BY <2>2, <2>4, <2>6, <2>8, <3>1
  <2> QED BY <2>7, <2>8
<1> QED BY <1>1, <1>2, <1>3 DEF n

-----------------------------------------------------------------------------
(* Types.                                                                  *)

USE EvidenceAssumption DEF NoCall, NoRun, NoRecord, Calls, Requests, Go, RunnerGo,
    SealedPoints, RunStatuses, Log, Tell, Acting

LEMMA EntryTyped ==
  ASSUME TypeOK,
         NEW kind \in {"action", "rejected_action", "checkpoint", "stop", "sealed", "limit",
                       "raised"},
         NEW action \in Actions \cup {"none", "adapter", "runner"},
         NEW error \in {"none", "inactive", "unsupported", "budget", "target", "channel",
                        "checkpoint"}
  PROVE  Entry(kind, action, error) \in EntryType
BY DEF TypeOK, Entry, EntryType

LEMMA Appended ==
  ASSUME NEW T, NEW s \in Seq(T), NEW e \in T
  PROVE  /\ Append(s, e) \in Seq(T) /\ Append(s, e) # <<>>
         /\ Len(Append(s, e)) = Len(s) + 1 /\ Append(s, e)[Len(Append(s, e))] = e
         /\ \A i \in 1..Len(s) : Append(s, e)[i] = s[i]
OBVIOUS

(* What each step may add to the events and to what was told.              *)
LEMMA NewEntries ==
  ASSUME IInv, Next
  PROVE  /\ \/ events' = events
            \/ \E e \in EntryType : /\ events' = Append(events, e)
                                    /\ e.kind = "stop" => e.action \in {"adapter", "runner"}
         /\ told' = told \/ \E e \in EntryType : told' = Append(told, e)
<1> USE DEF IInv, CallInv
<1>1. CASE AdapterStep
  <2>1. CASE \E c \in Calls : BeginCall(c)
    <3>1. PICK c \in Calls : BeginCall(c)
      BY <2>1
    <3>2. Entry("raised", c.action, "channel") \in EntryType
      BY EntryTyped
    <3> QED BY <3>1, <3>2 DEF BeginCall, sessionVars
  <2>2. CASE Request
    <3>1. /\ Entry("sealed", call.action, "none") \in EntryType
          /\ \A why \in Refusals : why # "none" =>
               Entry("rejected_action", call.action, why) \in EntryType
      BY <2>2, EntryTyped DEF Request, Refusals
    <3> QED BY <2>2, <3>1 DEF Request, sessionVars
  <2>3. CASE Limit
    <3>1. Entry("limit", call.action, "none") \in EntryType
      BY <2>3, EntryTyped DEF Limit
    <3> QED BY <2>3, <3>1 DEF Limit
  <2>4. CASE Accept
    <3>1. /\ Entry("action", call.action, "none") \in EntryType
          /\ Entry("action", call.action, "none").kind = "action"
      BY <2>4, EntryTyped DEF Accept, Entry
    <3> QED BY <2>4, <3>1 DEF Accept
  <2>5. CASE RejectEvent
    <3>1. told[Len(told)] \in EntryType
      BY <2>5 DEF RejectEvent, TypeOK
    <3> QED BY <2>5, <3>1 DEF RejectEvent, threadVars
  <2>6. CASE Checkpoint \/ CheckpointEvent \/ StopEvent
    <3>1. /\ Entry("raised", "none", "checkpoint") \in EntryType
          /\ Entry("checkpoint", "none", "none") \in EntryType
          /\ Entry("stop", "adapter", "none") \in EntryType
          /\ Entry("stop", "adapter", "none").action = "adapter"
          /\ Entry("checkpoint", "none", "none").kind = "checkpoint"
      BY EntryTyped DEF Entry
    <3> QED BY <2>6, <3>1 DEF Checkpoint, CheckpointEvent, StopEvent, sessionVars, threadVars
  <2>7. CASE Finish \/ Bound \/ Charge \/ Reject \/ CheckpointRecord \/ StopGuard \/ StopSet
    BY <2>7 DEF Finish, Bound, Charge, Reject, CheckpointRecord, StopGuard, StopSet,
                sessionVars, threadVars
  <2> QED BY <1>1, <2>1, <2>2, <2>3, <2>4, <2>5, <2>6, <2>7 DEF AdapterStep
<1>2. CASE RunnerStep
  <2>1. CASE RunnerStopEvent
    <3>1. /\ Entry("stop", "runner", "none") \in EntryType
          /\ Entry("stop", "runner", "none").action = "runner"
      BY EntryTyped DEF Entry
    <3> QED BY <2>1, <3>1 DEF RunnerStopEvent, threadVars
  <2> QED BY <1>2, <2>1
       DEF RunnerStep, Join, RunnerStopGuard, RunnerStopSet, Seal, CopyState, CopyEvents,
           CopyCheckpoints, Publish, CloseChannel, sessionVars, threadVars
<1> QED BY <1>1, <1>2 DEF Next

(* The annotations of a typed record are typed.                            *)
LEMMA AnnotationsTyped ==
  ASSUME NEW r \in RecordType, StopsNamed(r.trace)
  PROVE  Annotations(r) \in AnnotationType
<1> DEFINE stops == OfKind(r.trace, "stop")
           accepted == OfKind(r.trace, "action")
           termination == IF stops = <<>> THEN "none" ELSE stops[Len(stops)].action
<1>1. stops \in Seq(EntryType)
  BY OfKindsTyped DEF RecordType, OfKind
<1>2. termination \in {"none", "adapter", "runner"}
  <2>1. stops # <<>> => Len(stops) \in 1..Len(stops)
    BY <1>1
  <2> QED BY <2>1 DEF StopsNamed
<1>3. (\E i \in DOMAIN accepted : accepted[i].action = "edit") \in BOOLEAN
  OBVIOUS
<1>4. (r.remaining = 0 \/ \E i \in DOMAIN r.trace : r.trace[i].error = "budget") \in BOOLEAN
  OBVIOUS
<1>5. Annotations(r) =
        [termination |-> termination,
         repair      |-> \E i \in DOMAIN accepted : accepted[i].action = "edit",
         exhausted   |-> r.remaining = 0 \/ \E i \in DOMAIN r.trace : r.trace[i].error = "budget"]
  BY DEF Annotations
<1> HIDE DEF stops, accepted, termination
<1> QED BY <1>2, <1>3, <1>4, <1>5 DEF AnnotationType

(* Initially nothing has been asked for.                                   *)
LEMMA InitOK == Init => IInv
<1> SUFFICES ASSUME Init PROVE IInv
  OBVIOUS
<1>1. TypeOK
  <2>1. NoRecord \in RecordType
    BY DEF RecordType
  <2>2. events \in Seq(EntryType) /\ told \in Seq(EntryType)
    BY DEF Init
  <2> QED BY <2>1, <2>2 DEF Init, TypeOK
<1>2. StopInv
  BY NoneOfKinds DEF Init, StopInv, StopsNamed, OfKind
<1> QED BY <1>1, <1>2 DEF Init, IInv, CallInv, RunnerInv, PublishedInv

LEMMA AdapterTypes ==
  ASSUME IInv, AdapterStep
  PROVE  /\ TypeOK' /\ CallInv'
         /\ UNCHANGED <<sealed, runnerVars>>
         /\ wpc # "dead" /\ (status # "active" => status' # "active")
<1>1. /\ events' \in Seq(EntryType) /\ told' \in Seq(EntryType)
      /\ events \in Seq(EntryType) /\ told \in Seq(EntryType)
  <2>1. events \in Seq(EntryType) /\ told \in Seq(EntryType)
    BY DEF IInv, TypeOK
  <2>2. Next
    BY DEF Next
  <2>3. /\ events' = events \/ \E e \in EntryType : events' = Append(events, e)
        /\ told' = told \/ \E e \in EntryType : told' = Append(told, e)
    BY <2>2, NewEntries
  <2>4. \A e \in EntryType : Append(events, e) \in Seq(EntryType)
                             /\ Append(told, e) \in Seq(EntryType)
    BY <2>1
  <2> QED BY <2>1, <2>3, <2>4
<1> USE DEF IInv, TypeOK, CallInv
<1>2. CASE \E c \in Calls : BeginCall(c)
  BY <1>1, <1>2 DEF BeginCall, sessionVars, runnerVars
<1>3. CASE Request
  <2>1. UNCHANGED <<sessionVars, channel, call, calls, outcome, runnerVars>>
    BY <1>3 DEF Request
  <2>2. /\ wpc = "request" /\ wpc' \in {"ready", "bound", "reject"}
        /\ wpc' = "bound" => call.action \in Supported /\ ~(Cost[call.action] > remaining)
    BY <1>3 DEF Request, Refusals
  <2>3. wpc' = "bound" => Cost[call.action] \in Nat
    BY <2>2
  <2>4. wpc' = "reject" => told' # <<>> /\ told'[Len(told')].kind = "rejected_action"
    <3> SUFFICES ASSUME wpc' = "reject"
                 PROVE told' # <<>> /\ told'[Len(told')].kind = "rejected_action"
      OBVIOUS
    <3>1. PICK why \in Refusals :
            why # "none" /\ told' = Append(told, Entry("rejected_action", call.action, why))
      BY <1>3 DEF Request
    <3>2. Entry("rejected_action", call.action, why) \in EntryType
      BY <1>3, <3>1, EntryTyped DEF Request, Refusals
    <3>3. Entry("rejected_action", call.action, why).kind = "rejected_action"
      BY DEF Entry
    <3> QED BY <1>1, <3>1, <3>2, <3>3, Appended
  <2> QED BY <1>1, <2>1, <2>2, <2>3, <2>4 DEF sessionVars, runnerVars
<1>4. CASE Charge
  <2>1. Cost[call.action] \in Nat /\ Cost[call.action] <= remaining
    BY <1>4 DEF Charge
  <2>2. remaining - Cost[call.action] \in Nat
    BY <2>1
  <2> QED BY <1>1, <1>4, <2>2 DEF Charge, threadVars, runnerVars
<1>5. CASE Bound \/ Limit
  <2>1. UNCHANGED <<remaining, sealed, checkpoints, channel, call, calls, outcome, runnerVars>>
    BY <1>5 DEF Bound, Limit, sessionVars, threadVars
  <2>2. wpc # "dead" /\ wpc' \in {"limit", "charge", "ready"}
    BY <1>5 DEF Bound, Limit
  <2>3. wpc \in {"bound", "limit"} /\ (wpc' = "charge" => wpc = "bound")
    BY <1>5 DEF Bound, Limit
  <2>4. status' = status \/ status' = "event_limit"
    BY <1>5 DEF Bound, Limit, sessionVars
  <2>5. CallInv'
    BY <2>1, <2>2, <2>3
  <2>6. TypeOK'
    BY <1>1, <2>1, <2>2, <2>4 DEF runnerVars
  <2> QED BY <2>1, <2>2, <2>4, <2>5, <2>6
<1>9. CASE Finish \/ Accept
  BY <1>1, <1>9 DEF Finish, Accept, sessionVars, threadVars, runnerVars
<1>6. CASE Reject \/ RejectEvent
  BY <1>1, <1>6 DEF Reject, RejectEvent, sessionVars, runnerVars, threadVars
<1>7. CASE Checkpoint \/ CheckpointRecord \/ CheckpointEvent
  BY <1>1, <1>7 DEF Checkpoint, CheckpointRecord, CheckpointEvent, sessionVars, threadVars,
                    runnerVars, MayRecord
<1>8. CASE StopGuard \/ StopSet \/ StopEvent
  BY <1>1, <1>8 DEF StopGuard, StopSet, StopEvent, sessionVars, threadVars, runnerVars
<1> QED BY <1>2, <1>3, <1>4, <1>5, <1>6, <1>7, <1>8, <1>9 DEF AdapterStep

LEMMA RunnerTypes ==
  ASSUME IInv, RunnerStep
  PROVE  /\ TypeOK' /\ CallInv' /\ RunnerInv' /\ PublishedInv'
         /\ UNCHANGED <<wpc, threadVars, remaining, checkpoints>>
<1>1. events' \in Seq(EntryType) /\ told' \in Seq(EntryType)
  <2>1. events \in Seq(EntryType) /\ told \in Seq(EntryType)
    BY DEF IInv, TypeOK
  <2>2. Next
    BY DEF Next
  <2>3. /\ events' = events \/ \E e \in EntryType : events' = Append(events, e)
        /\ told' = told \/ \E e \in EntryType : told' = Append(told, e)
    BY <2>2, NewEntries
  <2>4. \A e \in EntryType : Append(events, e) \in Seq(EntryType)
                             /\ Append(told, e) \in Seq(EntryType)
    BY <2>1
  <2> QED BY <2>1, <2>3, <2>4
<1> USE <1>1 DEF IInv, TypeOK, CallInv, RunnerInv, PublishedInv
<1>2. CASE Join
  BY <1>2 DEF Join, sessionVars, threadVars, Alive
<1>3. CASE RunnerStopGuard
  BY <1>3 DEF RunnerStopGuard, sessionVars, threadVars, MayRecord
<1>4. CASE RunnerStopSet \/ RunnerStopEvent
  BY <1>4 DEF RunnerStopSet, RunnerStopEvent, sessionVars, threadVars
<1>5. CASE Seal
  BY <1>5 DEF Seal, sessionVars, threadVars
<1>6. CASE CopyState \/ CopyEvents \/ CopyCheckpoints
  <2>1. record' \in RecordType /\ UNCHANGED <<sessionVars, channel, wpc, threadVars, result, published>>
    BY <1>6 DEF CopyState, CopyEvents, CopyCheckpoints, RecordType
  <2>2. published = NoRun
    BY <1>6 DEF CopyState, CopyEvents, CopyCheckpoints
  <2> QED BY <1>6, <2>1, <2>2 DEF CopyState, CopyEvents, CopyCheckpoints, sessionVars, threadVars
<1>7. CASE Publish
  <2>1. /\ Annotations(record) \in AnnotationType /\ result \in RunStatuses
        /\ UNCHANGED <<sessionVars, channel, wpc, threadVars, result, record>>
        /\ rpc = "publish" /\ rpc' = "finally"
    BY <1>7, AnnotationsTyped DEF Publish, StopInv
  <2>2. published' \in {NoRun, [run |-> result, record |-> record,
                                annotations |-> Annotations(record)]}
    BY <1>7 DEF Publish
  <2>4. published' \in [run : RunStatuses, record : RecordType,
                        annotations : AnnotationType] \cup {NoRun}
    BY <2>1, <2>2
  <2>5. PublishedInv'
    BY <2>1, <2>2
  <2> QED BY <2>1, <2>4, <2>5 DEF sessionVars, threadVars
<1>8. CASE CloseChannel
  BY <1>8 DEF CloseChannel, sessionVars, threadVars
<1> QED BY <1>2, <1>3, <1>4, <1>5, <1>6, <1>7, <1>8 DEF RunnerStep

(* Every stop in a trace is the adapter's or the runner's.                 *)
LEMMA StopsStep == ASSUME IInv, Next PROVE StopInv'
<1>1. events \in Seq(EntryType) /\ StopsNamed(events) /\ StopsNamed(record.trace)
  BY DEF IInv, TypeOK, StopInv
<1>2. StopsNamed(events')
  <2>1. CASE events' = events
    BY <1>1, <2>1 DEF StopsNamed, OfKind, OfKinds
  <2>2. ASSUME NEW e \in EntryType, events' = Append(events, e),
               e.kind = "stop" => e.action \in {"adapter", "runner"}
        PROVE  StopsNamed(events')
    <3> DEFINE stops == OfKind(events, "stop")
               later == OfKind(events', "stop")
    <3>1. later = IF e.kind = "stop" THEN Append(stops, e) ELSE stops
      BY <1>1, <2>2, NextOfKinds DEF OfKind
    <3>2. stops \in Seq(EntryType)
      BY <1>1, OfKindsTyped DEF OfKind
    <3>3. \A i \in 1..Len(stops) : stops[i].action \in {"adapter", "runner"}
      BY <1>1 DEF StopsNamed
    <3> HIDE DEF stops, later
    <3>4. \A i \in 1..Len(later) : later[i].action \in {"adapter", "runner"}
      BY <2>2, <3>1, <3>2, <3>3
    <3> QED BY <3>4 DEF StopsNamed, later
  <2> QED BY <2>1, <2>2, NewEntries
<1>3. StopsNamed(record'.trace)
  <2>1. CASE CopyEvents
    BY <1>1, <2>1 DEF CopyEvents, IInv, TypeOK, RecordType
  <2>2. CASE ~CopyEvents
    <3>1. record'.trace = record.trace
      BY <2>2 DEF Next, AdapterStep, RunnerStep, BeginCall, Finish, Request, Bound, Limit,
           Charge, Accept, Reject, RejectEvent, Checkpoint, CheckpointRecord, CheckpointEvent,
           StopGuard, StopSet, StopEvent,
           Join, RunnerStopGuard, RunnerStopSet, RunnerStopEvent, Seal, CopyState,
           CopyCheckpoints, Publish, CloseChannel, runnerVars, IInv, TypeOK, RecordType
    <3> QED BY <1>1, <3>1
  <2> QED BY <2>1, <2>2
<1> QED BY <1>2, <1>3 DEF StopInv

(* The invariant is kept by every step.                                    *)
LEMMA NextOK == IInv /\ [Next]_vars => IInv'
<1> SUFFICES ASSUME IInv, [Next]_vars PROVE IInv'
  OBVIOUS
<1>1. CASE AdapterStep
  <2>1. StopInv'
    BY <1>1, StopsStep DEF Next
  <2>2. RunnerInv'
    BY <1>1, AdapterTypes DEF IInv, RunnerInv, runnerVars
  <2>3. PublishedInv'
    BY <1>1, AdapterTypes DEF IInv, PublishedInv, runnerVars
  <2> QED BY <1>1, <2>1, <2>2, <2>3, AdapterTypes DEF IInv
<1>2. CASE RunnerStep
  <2>1. StopInv'
    BY <1>2, StopsStep DEF Next
  <2> QED BY <1>2, <2>1, RunnerTypes DEF IInv
<1>3. CASE UNCHANGED vars
  <2> USE <1>3 DEF vars, sessionVars, threadVars, runnerVars, IInv
  <2>1. TypeOK'
    BY DEF TypeOK
  <2>2. CallInv' /\ RunnerInv'
    BY DEF CallInv, RunnerInv
  <2>3. StopInv' /\ PublishedInv'
    BY DEF StopInv, PublishedInv
  <2> QED BY <2>1, <2>2, <2>3
<1> QED BY <1>1, <1>2, <1>3 DEF Next

THEOREM Invariance == Spec => []IInv
BY InitOK, NextOK, PTL DEF Spec

(* Every variable keeps its type, and no record is copied from an active   *)
(* session.                                                                *)
THEOREM TypeCorrectness == Spec => []TypeOK
BY Invariance, PTL DEF IInv

-----------------------------------------------------------------------------
(* Trials that end in time.                                                *)

(* The adapter takes no step of such a trial once the runner has joined    *)
(* it, and the runner none but to join before it is dead.                  *)
LEMMA TimelyAdapter ==
  ASSUME IInv, OnTime', AdapterStep
  PROVE  /\ OnTime /\ rpc = "join" /\ rpc' = "join" /\ sealed = "open"
         /\ UNCHANGED <<result, record, published>>
<1>1. rpc' = rpc /\ result' = result /\ record' = record /\ published' = published /\ wpc # "dead"
  BY AdapterTypes DEF runnerVars
<1>2. rpc = "join"
  BY <1>1 DEF IInv, RunnerInv, OnTime
<1>3. sealed = "open"
  BY <1>2 DEF IInv, RunnerInv, TypeOK
<1> QED BY <1>1, <1>2, <1>3 DEF OnTime

LEMMA TimelyRunner ==
  ASSUME IInv, OnTime', RunnerStep
  PROVE  OnTime /\ wpc = "dead" /\ wpc' = "dead" /\ told' = told
<1>1. wpc' = wpc /\ told' = told
  BY RunnerTypes DEF threadVars
<1>2. OnTime /\ wpc = "dead"
  <2>1. CASE Join
    BY <2>1 DEF Join, Alive, OnTime, IInv, RunnerInv
  <2>2. CASE ~Join
    <3>1. rpc # "join" /\ rpc' # "join" /\ result' = result
      BY <2>2
         DEF RunnerStep, RunnerStopGuard, RunnerStopSet, RunnerStopEvent, Seal, CopyState,
             CopyEvents, CopyCheckpoints, Publish, CloseChannel
    <3> QED BY <3>1 DEF IInv, RunnerInv, OnTime
  <2> QED BY <2>1, <2>2
<1> QED BY <1>1, <1>2

(* What an appended entry adds to each view of its trace.                  *)
LEMMA NextViews ==
  ASSUME NEW s \in Seq(EntryType), NEW e \in EntryType
  PROVE  /\ Logged(Append(s, e)) =
              IF e.kind \in {"action", "rejected_action", "checkpoint", "sealed"}
              THEN Append(Logged(s), e) ELSE Logged(s)
         /\ \A kind : OfKind(Append(s, e), kind) =
              IF e.kind = kind THEN Append(OfKind(s, kind), e) ELSE OfKind(s, kind)
         /\ BudgetTold(Append(s, e)) <=> BudgetTold(s) \/ e.error = "budget"
<1>1. Logged(Append(s, e)) =
        IF e.kind \in {"action", "rejected_action", "checkpoint", "sealed"}
        THEN Append(Logged(s), e) ELSE Logged(s)
  BY NextOfKinds DEF Logged
<1>2. ASSUME NEW kind
      PROVE  OfKind(Append(s, e), kind) =
               IF e.kind = kind THEN Append(OfKind(s, kind), e) ELSE OfKind(s, kind)
  BY NextOfKinds DEF OfKind
<1>3. BudgetTold(Append(s, e)) <=> BudgetTold(s) \/ e.error = "budget"
  <2> DEFINE u == Append(s, e)
             n == Len(s)
  <2>1. /\ n \in Nat /\ Len(u) = n + 1 /\ u[n + 1] = e
        /\ \A i \in 1..n : u[i] = s[i]
    OBVIOUS
  <2> HIDE DEF u
  <2>2. BudgetTold(u) <=> (\E i \in 1..n : u[i].error = "budget") \/ u[n + 1].error = "budget"
    BY <2>1 DEF BudgetTold
  <2>3. BudgetTold(u) <=> BudgetTold(s) \/ e.error = "budget"
    BY <2>1, <2>2 DEF BudgetTold
  <2> QED BY <2>3 DEF u
<1> QED BY <1>1, <1>2, <1>3

(* Every view of a trace is a sequence of entries.                         *)
LEMMA ViewsTyped ==
  ASSUME NEW s \in Seq(EntryType)
  PROVE  /\ Logged(s) \in Seq(EntryType)
         /\ \A kind : OfKind(s, kind) \in Seq(EntryType) /\ Len(OfKind(s, kind)) \in Nat
<1>1. Logged(s) \in Seq(EntryType)
  BY OfKindsTyped DEF Logged
<1>2. ASSUME NEW kind PROVE OfKind(s, kind) \in Seq(EntryType)
  BY OfKindsTyped DEF OfKind
<1> QED BY <1>1, <1>2

\* What one step of the adapter tells and logs, in a trial on time.
Silent    == told' = told /\ events' = events
Tells(e)  == told' = Append(told, e) /\ events' = events
Logs(e)   == told' = told /\ events' = Append(events, e)
Answers(e) == told' = Append(told, e) /\ events' = Append(events, e)

\* The steps that neither tell nor log, those that add an entry, and the one
\* that logs the refusal the adapter was told of.
SilentStep ==
  /\ Silent
  /\ \/ /\ UNCHANGED <<remaining, status, checkpoints>>
        /\ \/ wpc = "ready" /\ wpc' \in {"request", "checkpoint", "stop", "dead"}
           \/ wpc = "request" /\ status = "active" /\ wpc' = "bound"
           \/ wpc = "bound" /\ wpc' \in {"limit", "charge"}
           \/ wpc = "reject" /\ wpc' = "reject_event"
           \/ wpc = "checkpoint" /\ status = "active" /\ wpc' = "cp_record"
           \/ wpc = "stop" /\ status = "active" /\ wpc' = "stop_set"
           \/ wpc = "stop" /\ wpc' = "ready"
     \/ wpc = "charge" /\ wpc' = "accept" /\ UNCHANGED <<status, checkpoints>>
     \/ /\ wpc = "cp_record" /\ wpc' = "cp_event"
        /\ checkpoints' = checkpoints + 1 /\ UNCHANGED <<remaining, status>>
     \/ /\ wpc = "stop_set" /\ wpc' = "stop_event"
        /\ status' = "stopped" /\ UNCHANGED <<remaining, checkpoints>>

EntryStep(e) ==
  /\ e.remaining = remaining
  /\ UNCHANGED <<remaining, checkpoints>>
  /\ \/ /\ Tells(e) /\ e.kind = "raised" /\ e.error # "budget"
        /\ wpc \in {"ready", "checkpoint"} /\ wpc' = "ready" /\ UNCHANGED status
     \/ /\ Tells(e) /\ e.kind = "rejected_action"
        /\ wpc = "request" /\ wpc' = "reject" /\ UNCHANGED status
     \/ /\ Tells(e) /\ e.kind = "limit" /\ e.error # "budget"
        /\ wpc = "limit" /\ wpc' = "ready" /\ status' = "event_limit"
     \/ /\ Answers(e) /\ e.kind = "action" /\ e.error # "budget"
        /\ wpc = "accept" /\ wpc' = "ready" /\ UNCHANGED status
     \/ /\ Answers(e) /\ e.kind = "checkpoint" /\ e.error # "budget"
        /\ wpc = "cp_event" /\ wpc' = "ready" /\ UNCHANGED status
     \/ /\ Logs(e) /\ e.kind = "stop" /\ e.error # "budget"
        /\ wpc = "stop_event" /\ wpc' = "ready" /\ UNCHANGED status

RefusalStep ==
  /\ Logs(LastTold)
  /\ wpc = "reject_event" /\ wpc' = "ready"
  /\ UNCHANGED <<remaining, status, checkpoints>>

(* These are all the steps of an adapter that is on time.                  *)
LEMMA TimelyCases ==
  ASSUME IInv, OnTime', AdapterStep
  PROVE  SilentStep \/ (\E e \in EntryType : EntryStep(e)) \/ RefusalStep
<1> USE DEF Silent, Tells, Logs, Answers, SilentStep, EntryStep, RefusalStep
<1>1. sealed = "open" /\ CallInv /\ TypeOK
  BY TimelyAdapter DEF IInv
<1>2. CASE \E c \in Calls : BeginCall(c)
  <2>1. PICK c \in Calls : BeginCall(c)
    BY <1>2
  <2>2. CASE channel = "open"
    BY <2>1, <2>2 DEF BeginCall, sessionVars
  <2>3. CASE channel # "open"
    <3> DEFINE e == Entry("raised", c.action, "channel")
    <3>1. e \in EntryType
      BY <1>1, EntryTyped
    <3>2. e.kind = "raised" /\ e.error = "channel" /\ e.remaining = remaining
      BY DEF Entry
    <3> HIDE DEF e
    <3> QED BY <2>1, <2>3, <3>1, <3>2 DEF BeginCall, sessionVars, e
  <2> QED BY <2>2, <2>3
<1>3. CASE Finish
  BY <1>3 DEF Finish, sessionVars
<1>4. CASE Request
  <2>1. PICK why \in Refusals :
          IF why = "none" THEN wpc' = "bound" /\ UNCHANGED told
          ELSE wpc' = "reject" /\ Tell(Entry("rejected_action", call.action, why))
    BY <1>1, <1>4 DEF Request
  <2>2. wpc = "request" /\ UNCHANGED sessionVars
    BY <1>4 DEF Request
  <2>3. CASE why = "none"
    BY <2>1, <2>2, <2>3 DEF Refusals, sessionVars
  <2>4. CASE why # "none"
    <3> DEFINE e == Entry("rejected_action", call.action, why)
    <3>1. e \in EntryType
      BY <1>1, <2>1, <2>2, <2>4, EntryTyped DEF CallInv, Refusals
    <3>2. e.kind = "rejected_action" /\ e.remaining = remaining
      BY DEF Entry
    <3> HIDE DEF e
    <3> QED BY <2>1, <2>2, <2>4, <3>1, <3>2 DEF sessionVars, e
  <2> QED BY <2>3, <2>4
<1>5. CASE Bound \/ Limit \/ Charge
  <2>1. CASE Limit
    <3> DEFINE e == Entry("limit", call.action, "none")
    <3>1. e \in EntryType
      BY <1>1, <2>1, EntryTyped DEF Limit, CallInv
    <3>2. e.kind = "limit" /\ e.error = "none" /\ e.remaining = remaining
      BY DEF Entry
    <3> HIDE DEF e
    <3> QED BY <2>1, <3>1, <3>2 DEF Limit, e
  <2>2. CASE Bound \/ Charge
    BY <2>2 DEF Bound, Charge, sessionVars, threadVars
  <2> QED BY <1>5, <2>1, <2>2
<1>6. CASE Accept
  <2> DEFINE e == Entry("action", call.action, "none")
  <2>1. e \in EntryType
    BY <1>1, <1>6, EntryTyped DEF Accept, CallInv
  <2>2. e.kind = "action" /\ e.error = "none" /\ e.remaining = remaining
    BY DEF Entry
  <2> HIDE DEF e
  <2> QED BY <1>6, <2>1, <2>2 DEF Accept, e
<1>7. CASE Reject \/ RejectEvent
  BY <1>1, <1>7 DEF Reject, RejectEvent, sessionVars, threadVars, LastTold
<1>8. CASE Checkpoint \/ CheckpointRecord
  <2>1. CASE CheckpointRecord
    BY <2>1 DEF CheckpointRecord, threadVars
  <2>2. CASE Checkpoint /\ MayRecord /\ wpc' = "cp_record" /\ UNCHANGED told
    BY <2>2 DEF Checkpoint, MayRecord, sessionVars
  <2>3. CASE Checkpoint /\ wpc' = "ready" /\ Tell(Entry("raised", "none", "checkpoint"))
    <3> DEFINE e == Entry("raised", "none", "checkpoint")
    <3>1. e \in EntryType
      BY <1>1, EntryTyped
    <3>2. e.kind = "raised" /\ e.error = "checkpoint" /\ e.remaining = remaining
      BY DEF Entry
    <3> HIDE DEF e
    <3> QED BY <2>3, <3>1, <3>2 DEF Checkpoint, sessionVars, e
  <2> QED BY <1>8, <2>1, <2>2, <2>3 DEF Checkpoint
<1>9. CASE CheckpointEvent
  <2> DEFINE e == Entry("checkpoint", "none", "none")
  <2>1. e \in EntryType
    BY <1>1, EntryTyped
  <2>2. e.kind = "checkpoint" /\ e.error = "none" /\ e.remaining = remaining
    BY DEF Entry
  <2> HIDE DEF e
  <2> QED BY <1>9, <2>1, <2>2 DEF CheckpointEvent, e
<1>10. CASE StopGuard \/ StopSet
  BY <1>10 DEF StopGuard, StopSet, MayRecord, sessionVars, threadVars
<1>11. CASE StopEvent
  <2> DEFINE e == Entry("stop", "adapter", "none")
  <2>1. e \in EntryType
    BY <1>1, EntryTyped
  <2>2. e.kind = "stop" /\ e.error = "none" /\ e.remaining = remaining
    BY DEF Entry
  <2> HIDE DEF e
  <2> QED BY <1>11, <2>1, <2>2 DEF StopEvent, threadVars, e
<1> QED BY <1>2, <1>3, <1>4, <1>5, <1>6, <1>7, <1>8, <1>9, <1>10, <1>11 DEF AdapterStep

(* A refusal under way is the last the adapter was told.                   *)
LEMMA LastToldTyped ==
  ASSUME IInv, wpc \in {"reject", "reject_event"}
  PROVE  LastTold \in EntryType /\ LastTold.kind = "rejected_action"
BY DEF IInv, TypeOK, CallInv, LastTold

LEMMA LogAdapter ==
  ASSUME OInv, OnTime', AdapterStep
  PROVE  LogInv'
<1>1. /\ IInv /\ OnTime /\ told \in Seq(EntryType) /\ events \in Seq(EntryType)
      /\ LogInv
  BY TimelyAdapter DEF OInv, IInv, TypeOK
<1> USE DEF LogInv, Refusing
<1>2. CASE SilentStep
  <2>1. told' = told /\ events' = events
    BY <1>2 DEF SilentStep, Silent
  <2>2. Refusing' <=> Refusing
    BY <1>2 DEF SilentStep
  <2> QED BY <1>1, <2>1, <2>2 DEF Logged, LastTold
<1>3. ASSUME NEW e \in EntryType, EntryStep(e)
      PROVE LogInv'
  <2>1. ~Refusing /\ Logged(told) = Logged(events)
    BY <1>1, <1>3 DEF EntryStep
  <2>2. Append(told, e)[Len(Append(told, e))] = e
    BY <1>1
  <2>3. /\ Logged(Append(told, e)) =
             IF e.kind \in {"action", "rejected_action", "checkpoint", "sealed"}
             THEN Append(Logged(told), e) ELSE Logged(told)
        /\ Logged(Append(events, e)) =
             IF e.kind \in {"action", "rejected_action", "checkpoint", "sealed"}
             THEN Append(Logged(events), e) ELSE Logged(events)
    BY <1>1, NextViews
  <2>4. CASE Tells(e)
    <3>1. told' = Append(told, e) /\ events' = events /\ LastTold' = e
      BY <2>2, <2>4 DEF Tells, LastTold
    <3>2. /\ Refusing' <=> e.kind = "rejected_action"
          /\ e.kind \in {"raised", "rejected_action", "limit"}
      BY <1>1, <1>3, <2>4 DEF EntryStep, Tells, Answers, Logs
    <3> HIDE DEF Refusing
    <3> QED BY <2>1, <2>3, <3>1, <3>2
  <2>5. CASE Answers(e) \/ Logs(e)
    <3>1. ~Refusing' /\ (Answers(e) => e.kind \in {"action", "checkpoint"})
                    /\ (Logs(e) => e.kind = "stop")
      BY <1>1, <1>3, <2>5 DEF EntryStep, Tells, Answers, Logs
    <3> HIDE DEF Refusing
    <3> QED BY <2>1, <2>3, <2>5, <3>1 DEF Answers, Logs
  <2> QED BY <1>3, <2>4, <2>5 DEF EntryStep
<1>4. CASE RefusalStep
  <2>1. LastTold \in EntryType /\ LastTold.kind = "rejected_action"
    BY <1>1, <1>4, LastToldTyped DEF RefusalStep
  <2>2. Logged(events') = Append(Logged(events), LastTold)
    BY <1>1, <1>4, <2>1, NextViews DEF RefusalStep, Logs
  <2>3. Logged(told) = Append(Logged(events), LastTold)
    BY <1>1, <1>4 DEF RefusalStep
  <2> QED BY <1>4, <2>2, <2>3 DEF RefusalStep, Logs
<1> QED BY <1>1, <1>2, <1>3, <1>4, TimelyCases

LEMMA BalanceAdapter ==
  ASSUME OInv, OnTime', AdapterStep
  PROVE  BalanceInv'
<1>1. /\ IInv /\ OnTime /\ told \in Seq(EntryType) /\ events \in Seq(EntryType)
      /\ BalanceInv
  BY TimelyAdapter DEF OInv, IInv, TypeOK
<1> USE DEF BalanceInv, Refusing
<1>2. CASE SilentStep
  <2>1. told' = told /\ events' = events /\ LastTold' = LastTold
    BY <1>2 DEF SilentStep, Silent, LastTold
  <2>2. (BudgetTold(told') <=> BudgetTold(told)) /\ (BudgetTold(events') <=> BudgetTold(events))
    BY <2>1
  <2>3. /\ Refusing' <=> Refusing
        /\ told # <<>> /\ wpc' # "accept" => LastTold.remaining = remaining'
    BY <1>1, <1>2 DEF SilentStep
  <2> QED BY <1>1, <2>1, <2>2, <2>3
<1>3. ASSUME NEW e \in EntryType, EntryStep(e)
      PROVE BalanceInv'
  <2>1. ~Refusing /\ (BudgetTold(told) <=> BudgetTold(events)) /\ remaining' = remaining
    BY <1>1, <1>3 DEF EntryStep
  <2>2. Append(told, e)[Len(Append(told, e))] = e /\ e.remaining = remaining
    BY <1>1, <1>3 DEF EntryStep
  <2>3. /\ BudgetTold(Append(told, e)) <=> BudgetTold(told) \/ e.error = "budget"
        /\ BudgetTold(Append(events, e)) <=> BudgetTold(events) \/ e.error = "budget"
    BY <1>1, NextViews
  <2>4. CASE Tells(e)
    <3>1. told' = Append(told, e) /\ events' = events /\ LastTold' = e
      BY <2>2, <2>4 DEF Tells, LastTold
    <3>2. Refusing' \/ e.error # "budget"
      BY <1>1, <1>3, <2>4 DEF EntryStep, Tells, Answers, Logs
    <3> HIDE DEF Refusing
    <3> QED BY <2>1, <2>2, <2>3, <3>1, <3>2
  <2>5. CASE Answers(e)
    <3>1. told' = Append(told, e) /\ events' = Append(events, e) /\ LastTold' = e
      BY <2>2, <2>5 DEF Answers, LastTold
    <3>2. ~Refusing' /\ e.error # "budget"
      BY <1>1, <1>3, <2>5 DEF EntryStep, Tells, Answers, Logs
    <3> HIDE DEF Refusing
    <3> QED BY <2>1, <2>2, <2>3, <3>1, <3>2
  <2>6. CASE Logs(e)
    <3>1. told' = told /\ events' = Append(events, e) /\ LastTold' = LastTold
      BY <2>6 DEF Logs, LastTold
    <3>2. ~Refusing' /\ e.error # "budget" /\ wpc # "accept"
      BY <1>1, <1>3, <2>6 DEF EntryStep, Tells, Answers, Logs
    <3> HIDE DEF Refusing
    <3> QED BY <1>1, <2>1, <2>2, <2>3, <3>1, <3>2
  <2> QED BY <1>3, <2>4, <2>5, <2>6 DEF EntryStep
<1>4. CASE RefusalStep
  <2>1. LastTold \in EntryType /\ LastTold.kind = "rejected_action"
    BY <1>1, <1>4, LastToldTyped DEF RefusalStep
  <2>2. BudgetTold(events') <=> BudgetTold(events) \/ LastTold.error = "budget"
    BY <1>1, <1>4, <2>1, NextViews DEF RefusalStep, Logs
  <2>3. told' = told /\ LastTold' = LastTold /\ remaining' = remaining
    BY <1>4 DEF RefusalStep, Logs, LastTold
  <2>4. BudgetTold(told') <=> BudgetTold(told)
    BY <2>3
  <2> QED BY <1>1, <1>4, <2>2, <2>3, <2>4 DEF RefusalStep
<1> QED BY <1>1, <1>2, <1>3, <1>4, TimelyCases

LEMMA CheckpointAdapter ==
  ASSUME OInv, OnTime', AdapterStep
  PROVE  CheckpointInv'
<1>1. /\ IInv /\ OnTime /\ told \in Seq(EntryType) /\ checkpoints \in Nat
      /\ CheckpointInv
  BY TimelyAdapter DEF OInv, IInv, TypeOK
<1> DEFINE n == Len(OfKind(told, "checkpoint"))
<1>2. n \in Nat /\ OfKind(told, "checkpoint") \in Seq(EntryType)
  BY <1>1, ViewsTyped
<1>3. checkpoints = IF wpc = "cp_event" THEN n + 1 ELSE n
  BY <1>1 DEF CheckpointInv
<1>4. CASE SilentStep
  <2>1. n' = n
    BY <1>4 DEF SilentStep, Silent
  <2> HIDE DEF n
  <2>2. checkpoints' = IF wpc' = "cp_event" THEN n + 1 ELSE n
    BY <1>2, <1>3, <1>4 DEF SilentStep
  <2> QED BY <2>1, <2>2 DEF CheckpointInv, n
<1>5. ASSUME NEW e \in EntryType, EntryStep(e)
      PROVE CheckpointInv'
  <2>1. OfKind(Append(told, e), "checkpoint") =
          IF e.kind = "checkpoint" THEN Append(OfKind(told, "checkpoint"), e)
          ELSE OfKind(told, "checkpoint")
    BY <1>1, NextViews
  <2>2. Len(Append(OfKind(told, "checkpoint"), e)) = n + 1
    BY <1>2
  <2>3. wpc' # "cp_event" /\ checkpoints' = checkpoints
    BY <1>5 DEF EntryStep
  <2>4. CASE e.kind = "checkpoint"
    <3>1. told' = Append(told, e) /\ wpc = "cp_event"
      BY <1>5, <2>4 DEF EntryStep, Answers
    <3> QED BY <1>3, <2>1, <2>2, <2>3, <2>4, <3>1 DEF CheckpointInv
  <2>5. CASE e.kind # "checkpoint"
    <3>1. told' \in {told, Append(told, e)} /\ wpc # "cp_event"
      BY <1>5, <2>5 DEF EntryStep, Tells, Answers, Logs
    <3>2. n' = n
      BY <2>1, <2>5, <3>1
    <3> HIDE DEF n
    <3> QED BY <1>3, <2>3, <3>1, <3>2 DEF CheckpointInv, n
  <2> QED BY <2>4, <2>5
<1>6. CASE RefusalStep
  <2>1. n' = n
    BY <1>6 DEF RefusalStep, Logs
  <2> HIDE DEF n
  <2>2. checkpoints' = IF wpc' = "cp_event" THEN n + 1 ELSE n
    BY <1>2, <1>3, <1>6 DEF RefusalStep
  <2> QED BY <2>1, <2>2 DEF CheckpointInv, n
<1> QED BY <1>1, <1>4, <1>5, <1>6, TimelyCases

LEMMA StatusAdapter ==
  ASSUME OInv, OnTime', AdapterStep
  PROVE  StatusInv'
<1>1. /\ IInv /\ OnTime /\ told \in Seq(EntryType) /\ events \in Seq(EntryType)
      /\ rpc = "join" /\ rpc' = "join" /\ status \in {"active", "stopped", "event_limit"}
  BY TimelyAdapter DEF OInv, IInv, TypeOK
<1> DEFINE limits == OfKind(told, "limit")
           stops == OfKind(events, "stop")
<1>2. limits \in Seq(EntryType) /\ stops \in Seq(EntryType) /\ Len(stops) \in Nat
  BY <1>1, ViewsTyped
<1>3. /\ wpc \in Acting => status = "active"
      /\ wpc = "stop_event" => status = "stopped"
      /\ status = "event_limit" <=> limits # <<>>
      /\ Len(stops) = IF status = "stopped" /\ wpc # "stop_event" THEN 1 ELSE 0
  BY <1>1 DEF OInv, StatusInv
<1> HIDE DEF limits, stops
<1> SUFFICES /\ wpc' \in Acting => status' = "active"
             /\ wpc' = "stop_event" => status' = "stopped"
             /\ status' = "event_limit" <=> limits' # <<>>
             /\ Len(stops') = IF status' = "stopped" /\ wpc' # "stop_event" THEN 1 ELSE 0
  BY <1>1 DEF StatusInv, limits, stops
<1>4. CASE SilentStep
  <2>1. limits' = limits /\ stops' = stops
    BY <1>4 DEF SilentStep, Silent, limits, stops
  <2> QED BY <1>1, <1>3, <1>4, <2>1 DEF SilentStep
<1>5. ASSUME NEW e \in EntryType, EntryStep(e)
      PROVE  /\ wpc' \in Acting => status' = "active"
             /\ wpc' = "stop_event" => status' = "stopped"
             /\ status' = "event_limit" <=> limits' # <<>>
             /\ Len(stops') = IF status' = "stopped" /\ wpc' # "stop_event" THEN 1 ELSE 0
  <2>1. /\ OfKind(Append(told, e), "limit") = IF e.kind = "limit" THEN Append(limits, e) ELSE limits
        /\ OfKind(Append(events, e), "stop") = IF e.kind = "stop" THEN Append(stops, e) ELSE stops
    BY <1>1, NextViews DEF limits, stops
  <2>2. Append(limits, e) # <<>> /\ Len(Append(stops, e)) = Len(stops) + 1
    BY <1>2
  <2>3. CASE e.kind = "limit"
    <3>1. limits' = Append(limits, e) /\ stops' = stops
      BY <1>5, <2>1, <2>3 DEF EntryStep, Tells, limits, stops
    <3>2. wpc = "limit" /\ wpc' = "ready" /\ status' = "event_limit"
      BY <1>5, <2>3 DEF EntryStep
    <3> QED BY <1>3, <2>2, <3>1, <3>2
  <2>4. CASE e.kind = "stop"
    <3>1. limits' = limits /\ stops' = Append(stops, e)
      BY <1>5, <2>1, <2>4 DEF EntryStep, Logs, limits, stops
    <3>2. wpc = "stop_event" /\ wpc' = "ready" /\ status' = status
      BY <1>5, <2>4 DEF EntryStep
    <3> QED BY <1>3, <2>2, <3>1, <3>2
  <2>5. CASE e.kind \notin {"limit", "stop"}
    <3>1. told' \in {told, Append(told, e)} /\ events' \in {events, Append(events, e)}
      BY <1>5 DEF EntryStep, Tells, Answers, Logs
    <3>2. limits' = limits /\ stops' = stops
      BY <2>1, <2>5, <3>1 DEF limits, stops
    <3>3. wpc \notin {"stop_event"} /\ wpc' \in {"ready", "reject"} /\ status' = status
      BY <1>5, <2>5 DEF EntryStep
    <3> QED BY <1>3, <3>2, <3>3
  <2> QED BY <2>3, <2>4, <2>5
<1>6. CASE RefusalStep
  <2>1. LastTold \in EntryType /\ LastTold.kind = "rejected_action"
    BY <1>1, <1>6, LastToldTyped DEF RefusalStep
  <2>2. OfKind(Append(events, LastTold), "stop") = OfKind(events, "stop")
    BY <1>1, <2>1, NextViews
  <2>3. limits' = limits /\ stops' = stops
    BY <1>6, <2>2 DEF RefusalStep, Logs, limits, stops
  <2> QED BY <1>3, <1>6, <2>3 DEF RefusalStep
<1> QED BY <1>1, <1>4, <1>5, <1>6, TimelyCases

LEMMA EditAdapter ==
  ASSUME OInv, OnTime', AdapterStep
  PROVE  EditInv'
<1>1. /\ IInv /\ OnTime /\ told \in Seq(EntryType) /\ events \in Seq(EntryType)
  BY TimelyAdapter DEF OInv, IInv, TypeOK
<1> DEFINE accepted == OfKind(events, "action")
           Edited(e) == e.kind = "action" /\ e.action = "edit"
<1>2. accepted \in Seq(EntryType) /\ Len(accepted) \in Nat /\ Len(told) \in Nat
  <2>1. Len(told) \in Nat
    BY <1>1
  <2> QED BY <1>1, <2>1, ViewsTyped
<1>3. (\E i \in 1..Len(accepted) : accepted[i].action = "edit")
      <=> \E i \in 1..Len(told) : Edited(told[i])
  BY <1>1 DEF OInv, EditInv
<1>4. ASSUME NEW e \in EntryType, Answers(e) \/ Tells(e) \/ Logs(e),
             e.kind = "action" => Answers(e)
      PROVE  EditInv'
  <2>1. OfKind(Append(events, e), "action") =
          IF e.kind = "action" THEN Append(accepted, e) ELSE accepted
    BY <1>1, NextViews
  <2>2. accepted' = IF e.kind = "action" THEN Append(accepted, e) ELSE accepted
    BY <1>4, <2>1 DEF Answers, Tells, Logs
  <2> HIDE DEF accepted
  <2>3. (\E i \in 1..Len(told') : Edited(told'[i]))
        <=> (\E i \in 1..Len(told) : Edited(told[i])) \/ Edited(e)
    <3>1. CASE told' = Append(told, e)
      <4>1. /\ Len(told') = Len(told) + 1 /\ told'[Len(told) + 1] = e
            /\ \A i \in 1..Len(told) : told'[i] = told[i]
        BY <1>1, <3>1
      <4> QED BY <1>2, <4>1
    <3>2. CASE told' = told /\ ~Edited(e)
      BY <3>2
    <3> QED BY <1>4, <3>1, <3>2 DEF Answers, Tells, Logs
  <2>4. (\E i \in 1..Len(accepted') : accepted'[i].action = "edit")
        <=> (\E i \in 1..Len(accepted) : accepted[i].action = "edit") \/ Edited(e)
    <3>1. CASE e.kind = "action"
      <4>1. /\ Len(accepted') = Len(accepted) + 1 /\ accepted'[Len(accepted) + 1] = e
            /\ \A i \in 1..Len(accepted) : accepted'[i] = accepted[i]
        BY <1>2, <2>2, <3>1
      <4> QED BY <1>2, <3>1, <4>1
    <3>2. CASE e.kind # "action"
      BY <2>2, <3>2
    <3> QED BY <3>1, <3>2
  <2> QED BY <1>3, <2>3, <2>4 DEF EditInv, accepted
<1>5. CASE Silent
  BY <1>3, <1>5 DEF Silent, EditInv
<1>6. CASE RefusalStep
  BY <1>1, <1>4, <1>6, LastToldTyped DEF RefusalStep
<1>7. ASSUME NEW e \in EntryType, EntryStep(e) PROVE EditInv'
  BY <1>4, <1>7 DEF EntryStep
<1> QED BY <1>1, <1>5, <1>6, <1>7, TimelyCases DEF SilentStep

(* The steps of the runner, whose session is at rest but for its own stop. *)
LEMMA TimelyRunnerStep ==
  ASSUME OInv, OnTime', RunnerStep
  PROVE  LogInv' /\ BalanceInv' /\ CheckpointInv' /\ StatusInv' /\ EditInv' /\ CopyInv'
<1>1. /\ IInv /\ OnTime /\ wpc = "dead" /\ wpc' = "dead" /\ told' = told
      /\ remaining' = remaining /\ checkpoints' = checkpoints
      /\ told \in Seq(EntryType) /\ events \in Seq(EntryType)
      /\ TypeOK
  BY TimelyRunner, RunnerTypes DEF OInv, IInv, TypeOK
<1>2. /\ Logged(events') = Logged(events) /\ (BudgetTold(events') <=> BudgetTold(events))
      /\ OfKind(events', "action") = OfKind(events, "action")
  <2>1. CASE RunnerStopEvent
    <3> DEFINE e == Entry("stop", "runner", "none")
    <3>1. e \in EntryType /\ e.kind = "stop" /\ e.error = "none"
      BY <1>1, EntryTyped DEF Entry
    <3>2. events' = Append(events, e)
      BY <2>1 DEF RunnerStopEvent
    <3> HIDE DEF e
    <3> QED BY <1>1, <3>1, <3>2, NextViews
  <2>2. CASE ~RunnerStopEvent
    <3>1. events' = events
      BY <2>2
         DEF RunnerStep, Join, RunnerStopGuard, RunnerStopSet, Seal, CopyState, CopyEvents,
             CopyCheckpoints, Publish, CloseChannel, sessionVars
    <3> QED BY <3>1
  <2> QED BY <2>1, <2>2
<1>3. LogInv'
  BY <1>1, <1>2 DEF OInv, LogInv, Refusing, Logged
<1>4. BalanceInv' /\ CheckpointInv' /\ EditInv'
  <2>1. LastTold' = LastTold
    BY <1>1 DEF LastTold
  <2>2. BalanceInv'
    BY <1>1, <1>2, <2>1 DEF OInv, BalanceInv, Refusing, BudgetTold
  <2>3. CheckpointInv' /\ EditInv'
    BY <1>1, <1>2 DEF OInv, CheckpointInv, EditInv
  <2> QED BY <2>2, <2>3
<1>5. StatusInv'
  <2> DEFINE stops == OfKind(events, "stop")
             limits == OfKind(told, "limit")
  <2>1. /\ rpc = "stop_set" => status = "active"
        /\ rpc = "stop_event" => status = "stopped"
        /\ status = "event_limit" <=> limits # <<>>
        /\ Len(stops) = IF status = "stopped" /\ rpc # "stop_event" THEN 1 ELSE 0
    BY <1>1 DEF OInv, StatusInv
  <2>2. stops \in Seq(EntryType) /\ limits' = limits
    BY <1>1, ViewsTyped
  <2>3. CASE RunnerStopEvent
    <3> DEFINE e == Entry("stop", "runner", "none")
    <3>1. e \in EntryType /\ e.kind = "stop"
      BY <1>1, EntryTyped DEF Entry
    <3>2. events' = Append(events, e)
      BY <2>3 DEF RunnerStopEvent
    <3>3. stops' = Append(stops, e)
      BY <1>1, <3>1, <3>2, NextViews
    <3> HIDE DEF e, stops, limits
    <3>4. Len(stops') = Len(stops) + 1
      BY <2>2, <3>3
    <3>5. /\ rpc' \notin {"stop_set", "stop_event"} /\ rpc = "stop_event" /\ status' = status
      BY <2>3 DEF RunnerStopEvent
    <3>6. Len(stops') = 1 /\ status' = "stopped" /\ limits = <<>>
      BY <2>1, <3>4, <3>5
    <3> QED BY <1>1, <2>2, <3>5, <3>6 DEF StatusInv, stops, limits
  <2>4. CASE ~RunnerStopEvent
    <3>1. events' = events
      BY <2>4
         DEF RunnerStep, Join, RunnerStopGuard, RunnerStopSet, Seal, CopyState, CopyEvents,
             CopyCheckpoints, Publish, CloseChannel, sessionVars
    <3>2. stops' = stops
      BY <3>1
    <3> HIDE DEF stops, limits
    <3>3. /\ rpc' = "stop_set" => status' = "active"
          /\ rpc' = "stop_event" => status' = "stopped"
          /\ status' = "event_limit" <=> limits # <<>>
          /\ Len(stops) = IF status' = "stopped" /\ rpc' # "stop_event" THEN 1 ELSE 0
      BY <2>1, <2>4
         DEF RunnerStep, Join, RunnerStopGuard, RunnerStopSet, Seal, CopyState, CopyEvents,
             CopyCheckpoints, Publish, CloseChannel, sessionVars, MayRecord
    <3> QED BY <1>1, <2>2, <3>2, <3>3 DEF StatusInv, stops, limits
  <2> QED BY <2>3, <2>4
<1>6. CopyInv'
  BY <1>1
     DEF OInv, CopyInv, RunnerStep, Join, RunnerStopGuard, RunnerStopSet, RunnerStopEvent, Seal,
         CopyState, CopyEvents, CopyCheckpoints, Publish, CloseChannel, sessionVars, TypeOK,
         RecordType
<1> QED BY <1>3, <1>4, <1>5, <1>6

LEMMA OutcomeInit == Init => OInv
<1> SUFFICES ASSUME Init PROVE OInv
  OBVIOUS
<1>1. Logged(<<>>) = <<>> /\ \A kind : OfKind(<<>>, kind) = <<>>
  BY NoneOfKinds DEF Logged, OfKind
<1>2. LogInv /\ BalanceInv /\ CheckpointInv /\ StatusInv /\ EditInv /\ CopyInv
  BY <1>1 DEF Init, LogInv, BalanceInv, CheckpointInv, StatusInv, EditInv, CopyInv, Refusing,
     BudgetTold
<1> QED BY <1>2, InitOK DEF OInv

LEMMA OutcomeNext == OInv /\ [Next]_vars => OInv'
<1> SUFFICES ASSUME OInv, [Next]_vars PROVE OInv'
  OBVIOUS
<1>1. IInv'
  BY NextOK DEF OInv
<1>2. CASE ~OnTime'
  BY <1>1, <1>2 DEF OInv, LogInv, BalanceInv, CheckpointInv, StatusInv, EditInv, CopyInv
<1>3. CASE OnTime' /\ AdapterStep
  <2>1. CopyInv'
    BY <1>3, TimelyAdapter DEF OInv, CopyInv
  <2> QED BY <1>1, <1>3, <2>1, LogAdapter, BalanceAdapter, CheckpointAdapter, StatusAdapter, EditAdapter
       DEF OInv
<1>4. CASE OnTime' /\ RunnerStep
  BY <1>1, <1>4, TimelyRunnerStep DEF OInv
<1>5. CASE UNCHANGED vars
  <2> USE <1>5 DEF vars, sessionVars, threadVars, runnerVars, OInv
  <2>1. LogInv' /\ CheckpointInv' /\ CopyInv'
    BY DEF LogInv, CheckpointInv, CopyInv, OnTime, Refusing, LastTold
  <2>2. BalanceInv' /\ StatusInv' /\ EditInv'
    BY DEF BalanceInv, StatusInv, EditInv, OnTime, Refusing, LastTold
  <2> QED BY <1>1, <2>1, <2>2
<1> QED BY <1>2, <1>3, <1>4, <1>5 DEF Next

THEOREM OutcomeInvariance == Spec => []OInv
BY OutcomeInit, OutcomeNext, PTL DEF Spec

(* What is published in time is the adapter's own: its last record of a    *)
(* session that only the runner touches.                                   *)
LEMMA InTimeRecord ==
  ASSUME OInv, InTime
  PROVE  /\ OnTime /\ wpc = "dead" /\ status \in {"stopped", "event_limit"}
         /\ rpc \in {"finally", "done"}
         /\ published.record = record /\ published.annotations = Annotations(record)
         /\ record.trace = events /\ record.remaining = remaining
         /\ record.status = status /\ record.checkpoints = checkpoints
<1>1. /\ rpc \in {"finally", "done"} /\ published.run = result
      /\ published.record = record /\ published.annotations = Annotations(record)
  BY DEF OInv, IInv, PublishedInv, InTime
<1>2. OnTime /\ wpc = "dead" /\ status # "active"
  BY <1>1 DEF OInv, IInv, RunnerInv, OnTime, InTime
<1> QED BY <1>1, <1>2 DEF OInv, CopyInv, IInv, TypeOK

(* The published trace of a trial that ended in time is what its agent was *)
(* told, call by call, with the balance and the checkpoints it left.       *)
THEOREM TraceToldAlways == Spec => []TraceIsWhatWasTold
<1>1. ASSUME OInv PROVE TraceIsWhatWasTold
  <2> SUFFICES ASSUME InTime
               PROVE  /\ Logged(published.record.trace) = Logged(told)
                      /\ told # <<>> => published.record.remaining = told[Len(told)].remaining
                      /\ published.record.checkpoints = Len(OfKind(told, "checkpoint"))
                      /\ published.record.status = "event_limit" <=> OfKind(told, "limit") # <<>>
    BY DEF TraceIsWhatWasTold
  <2> USE <1>1
  <2>1. Logged(told) = Logged(events)
    BY InTimeRecord DEF OInv, LogInv, Refusing
  <2>2. told # <<>> => told[Len(told)].remaining = remaining
    BY InTimeRecord DEF OInv, BalanceInv, LastTold
  <2>3. checkpoints = Len(OfKind(told, "checkpoint"))
    BY InTimeRecord DEF OInv, CheckpointInv
  <2>4. status = "event_limit" <=> OfKind(told, "limit") # <<>>
    BY InTimeRecord DEF OInv, StatusInv
  <2> QED BY <2>1, <2>2, <2>3, <2>4, InTimeRecord
<1> QED BY <1>1, OutcomeInvariance, PTL

(* The annotations of such a trial say why it ended, and what they claim   *)
(* of its repair and of its budget is what its agent was told.             *)
THEOREM AnnotationsTrueAlways == Spec => []AnnotationsTrue
<1>1. ASSUME OInv PROVE AnnotationsTrue
  <2> USE <1>1
  <2> SUFFICES ASSUME InTime PROVE AnnotationsTrue
    BY DEF AnnotationsTrue
  <2> DEFINE stops == OfKind(events, "stop")
             accepted == OfKind(events, "action")
             a == Annotations(record)
  <2>1. /\ told \in Seq(EntryType) /\ events \in Seq(EntryType)
        /\ stops \in Seq(EntryType) /\ accepted \in Seq(EntryType)
        /\ Len(stops) \in Nat /\ DOMAIN accepted = 1..Len(accepted)
        /\ DOMAIN told = 1..Len(told) /\ DOMAIN events = 1..Len(events)
    <3>1. told \in Seq(EntryType) /\ events \in Seq(EntryType)
      BY DEF OInv, IInv, TypeOK
    <3>2. stops \in Seq(EntryType) /\ accepted \in Seq(EntryType)
      BY <3>1, ViewsTyped
    <3> HIDE DEF stops, accepted
    <3> QED BY <3>1, <3>2
  <2>2. /\ status = "stopped" => Len(stops) = 1
        /\ status # "stopped" => Len(stops) = 0
        /\ status \in {"stopped", "event_limit"}
    BY InTimeRecord DEF OInv, StatusInv
  <2>3. /\ a.termination = IF stops = <<>> THEN "none" ELSE stops[Len(stops)].action
        /\ a.repair <=> \E i \in DOMAIN accepted : accepted[i].action = "edit"
        /\ a.exhausted <=> remaining = 0 \/ \E i \in DOMAIN events : events[i].error = "budget"
    BY InTimeRecord DEF Annotations
  <2>4. stops # <<>> => stops[Len(stops)].action \in {"adapter", "runner"}
    BY <2>1 DEF OInv, IInv, StopInv, StopsNamed
  <2> HIDE DEF stops, a
  <2>5. stops = <<>> <=> Len(stops) = 0
    BY <2>1
  <2>6. a.termination = "none" <=> status = "event_limit"
    <3>1. CASE status = "stopped"
      <4>1. stops # <<>>
        BY <2>2, <2>5, <3>1
      <4>2. a.termination = stops[Len(stops)].action
        BY <2>3, <4>1
      <4>3. a.termination \in {"adapter", "runner"}
        BY <2>4, <4>1, <4>2
      <4> QED BY <3>1, <4>3
    <3>2. CASE status = "event_limit"
      BY <2>2, <2>3, <2>5, <3>2
    <3> QED BY <2>2, <3>1, <3>2
  <2>7. Len(stops) <= 1
    BY <2>2
  <2>8. a.repair <=> \E i \in DOMAIN told : told[i].kind = "action" /\ told[i].action = "edit"
    BY <2>1, <2>3, InTimeRecord DEF OInv, EditInv
  <2>9. a.exhausted <=> (\E i \in DOMAIN told : told[i].error = "budget") \/ remaining = 0
    <3>1. BudgetTold(told) <=> BudgetTold(events)
      BY InTimeRecord DEF OInv, BalanceInv, Refusing
    <3> QED BY <2>1, <2>3, <3>1 DEF BudgetTold
  <2>10. published.annotations = a /\ published.record.trace = events
         /\ published.record.status = status /\ published.record.remaining = remaining
    BY InTimeRecord DEF a
  <2> HIDE DEF accepted
  <2> QED BY <2>6, <2>7, <2>8, <2>9, <2>10 DEF AnnotationsTrue, stops
<1> QED BY <1>1, OutcomeInvariance, PTL

-----------------------------------------------------------------------------
(* The contract of the trial, which a run that has timed out keeps too.    *)

UnderWay == wpc \in {"bound", "charge", "accept"}
Held == remaining + InFlight

LedgerEntry == [action : Actions \cup {"none", "adapter", "runner"}, remaining : Nat]

\* One accepted request at most is missing from the copied trace.
MissedInv ==
  rpc \in SealedPoints \ {"state", "events"} =>
    \/ Ledger(events) = Ledger(record.trace)
    \/ /\ ~UnderWay
       /\ \E e \in LedgerEntry : Ledger(events) = Append(Ledger(record.trace), e)

LEMMA EmptyLedger == Ledger(<<>>) = <<>>
BY NoneOfKinds DEF Ledger, OfKind

LEMMA FunctionIsSeq ==
  ASSUME NEW S, NEW n \in Nat, NEW f \in [1..n -> S]
  PROVE  f \in Seq(S) /\ Len(f) = n
OBVIOUS

LEMMA LedgerTyped ==
  ASSUME NEW s \in Seq(EntryType)
  PROVE  Ledger(s) \in Seq(LedgerEntry) /\ Len(Ledger(s)) = Len(OfKind(s, "action"))
<1> DEFINE accepted == OfKind(s, "action")
           n == Len(accepted)
           f == [i \in 1..n |-> [action |-> accepted[i].action, remaining |-> accepted[i].remaining]]
<1>1. accepted \in Seq(EntryType)
  BY ViewsTyped
<1>2. n \in Nat /\ \A i \in 1..n : accepted[i] \in EntryType
  BY <1>1
<1>3. \A i \in 1..n : [action |-> accepted[i].action, remaining |-> accepted[i].remaining]
                       \in LedgerEntry
  BY <1>2 DEF EntryType, LedgerEntry
<1>4. Ledger(s) = f
  BY DEF Ledger
<1> HIDE DEF accepted, n
<1>5. f \in [1..n -> LedgerEntry]
  BY <1>3
<1> HIDE DEF f
<1>6. f \in Seq(LedgerEntry) /\ Len(f) = n
  BY <1>2, <1>5, FunctionIsSeq
<1> QED BY <1>4, <1>6 DEF n, accepted

(* An accepted action is the ledger's next entry.                          *)
LEMMA NextLedger ==
  ASSUME NEW s \in Seq(EntryType), NEW e \in EntryType
  PROVE  Ledger(Append(s, e)) =
           IF e.kind = "action"
           THEN Append(Ledger(s), [action |-> e.action, remaining |-> e.remaining])
           ELSE Ledger(s)
<1> DEFINE accepted == OfKind(s, "action")
           later == OfKind(Append(s, e), "action")
           n == Len(accepted)
           entry == [action |-> e.action, remaining |-> e.remaining]
<1>1. later = IF e.kind = "action" THEN Append(accepted, e) ELSE accepted
  BY NextViews
<1>2. accepted \in Seq(EntryType) /\ n \in Nat
  BY ViewsTyped
<1>3. /\ Ledger(s) = [i \in 1..n |-> [action |-> accepted[i].action,
                                      remaining |-> accepted[i].remaining]]
      /\ Ledger(Append(s, e)) = [i \in 1..Len(later) |-> [action |-> later[i].action,
                                                          remaining |-> later[i].remaining]]
  BY DEF Ledger
<1>4. CASE e.kind # "action"
  BY <1>1, <1>3, <1>4
<1>5. CASE e.kind = "action"
  <2> HIDE DEF later, accepted
  <2>1. /\ Len(later) = n + 1 /\ later[n + 1] = e
        /\ \A i \in 1..n : later[i] = accepted[i]
    BY <1>1, <1>2, <1>5
  <2> HIDE DEF n
  <2>2. Ledger(s) \in Seq(LedgerEntry) /\ Len(Ledger(s)) = n
    BY LedgerTyped DEF n, accepted
  <2>3. entry \in LedgerEntry
    BY DEF EntryType, LedgerEntry
  <2> DEFINE new == Ledger(Append(s, e))
             sum == Append(Ledger(s), entry)
  <2>4. /\ sum \in Seq(LedgerEntry) /\ Len(sum) = n + 1 /\ sum[n + 1] = entry
        /\ \A i \in 1..n : sum[i] = Ledger(s)[i]
    BY <2>2, <2>3
  <2>5. new = [i \in 1..n+1 |-> new[i]] /\ sum = [i \in 1..n+1 |-> sum[i]]
    <3>1. new = [i \in 1..n+1 |-> new[i]]
      BY <1>3, <2>1
    <3> HIDE DEF sum
    <3>2. sum = [i \in 1..n+1 |-> sum[i]]
      BY <2>4
    <3> QED BY <3>1, <3>2
  <2>6. \A i \in 1..n+1 : new[i] = sum[i]
    <3>1. n + 1 \in 1..n+1 /\ \A i \in 1..n+1 : i \in 1..n \/ i = n + 1
      BY <1>2
    <3>2. new[n + 1] = entry
      BY <1>3, <2>1, <3>1
    <3>3. ASSUME NEW i \in 1..n PROVE new[i] = Ledger(s)[i]
      <4>1. i \in 1..n+1
        BY <1>2
      <4> QED BY <1>3, <2>1, <4>1
    <3> HIDE DEF new, sum, entry
    <3> QED BY <2>4, <3>1, <3>2, <3>3
  <2>7. new = sum
    <3> HIDE DEF new, sum
    <3> QED BY <2>5, <2>6
  <2> QED BY <1>5, <2>7
<1> QED BY <1>4, <1>5

(* What a step of the adapter does to the budget and to the ledger.        *)
LEMMA AdapterLedger ==
  ASSUME IInv, AdapterStep
  PROVE  /\ sealed' = sealed /\ published' = published /\ record' = record /\ rpc' = rpc
         /\ sealed = "sealed" /\ UnderWay' => UnderWay
         /\ \/ Ledger(events') = Ledger(events) /\ Held' = Held
            \/ /\ UnderWay /\ ~UnderWay'
               /\ call.action \in Supported
               /\ Cost[call.action] <= Held /\ Held' = Held - Cost[call.action]
               /\ Ledger(events') = Append(Ledger(events), [action |-> call.action,
                                                            remaining |-> Held'])
<1>1. sealed' = sealed /\ published' = published /\ record' = record /\ rpc' = rpc
  BY AdapterTypes DEF runnerVars
<1>2. sealed = "sealed" /\ UnderWay' => UnderWay
  BY DEF AdapterStep, BeginCall, Finish, Request, Bound, Limit, Charge, Accept, Reject,
     RejectEvent, Checkpoint, CheckpointRecord, CheckpointEvent, StopGuard, StopSet, StopEvent,
     UnderWay
<1>3. /\ TypeOK /\ CallInv /\ events \in Seq(EntryType) /\ told \in Seq(EntryType)
      /\ remaining \in Nat
  BY DEF IInv, TypeOK
<1>4. CASE Accept
  <2> DEFINE e == Entry("action", call.action, "none")
  <2>1. e \in EntryType /\ e.kind = "action" /\ e.action = call.action /\ e.remaining = remaining
    BY <1>3, <1>4, EntryTyped DEF Accept, Entry, CallInv
  <2> HIDE DEF e
  <2>2. events' = Append(events, e)
    BY <1>4 DEF Accept, e
  <2>3. Ledger(events') = Append(Ledger(events), [action |-> call.action, remaining |-> remaining])
    BY <1>3, <2>1, <2>2, NextLedger
  <2>4. Held = remaining + Cost[call.action] /\ Held' = remaining /\ UnderWay /\ ~UnderWay'
    BY <1>3, <1>4 DEF Accept, Held, InFlight, UnderWay
  <2>5. call.action \in Supported /\ Cost[call.action] \in Nat
    BY <1>3, <1>4 DEF CallInv, Accept
  <2>6. Cost[call.action] <= Held /\ Held' = Held - Cost[call.action]
    <3>1. \A a, c \in Nat : c <= a + c /\ a = (a + c) - c
      OBVIOUS
    <3> QED BY <1>3, <2>4, <2>5, <3>1
  <2> QED BY <1>1, <1>2, <2>3, <2>4, <2>5, <2>6
<1>5. CASE Charge
  <2>1. Cost[call.action] \in Nat
    BY <1>3, <1>5 DEF CallInv, Charge
  <2>2. Held' = Held /\ events' = events
    BY <1>3, <1>5, <2>1 DEF Charge, Held, InFlight, threadVars
  <2> QED BY <1>1, <1>2, <2>2
<1>6. CASE RejectEvent
  <2>1. LastTold \in EntryType /\ LastTold.kind = "rejected_action"
    BY <1>6, LastToldTyped DEF RejectEvent
  <2>2. events' = Append(events, LastTold) /\ Held' = Held
    BY <1>6 DEF RejectEvent, LastTold, Held, InFlight
  <2> QED BY <1>1, <1>2, <1>3, <2>1, <2>2, NextLedger
<1>7. CASE CheckpointEvent \/ StopEvent
  <2>1. \E e \in EntryType : e.kind # "action" /\ events' = Append(events, e)
    <3>1. /\ Entry("checkpoint", "none", "none") \in EntryType
          /\ Entry("stop", "adapter", "none") \in EntryType
      BY <1>3, EntryTyped
    <3>2. /\ Entry("checkpoint", "none", "none").kind = "checkpoint"
          /\ Entry("stop", "adapter", "none").kind = "stop"
      BY DEF Entry
    <3> QED BY <1>7, <3>1, <3>2 DEF CheckpointEvent, StopEvent
  <2>2. Held' = Held
    BY <1>7 DEF CheckpointEvent, StopEvent, Held, InFlight
  <2> QED BY <1>1, <1>2, <1>3, <2>1, <2>2, NextLedger
<1>8. CASE ~(Accept \/ Charge \/ RejectEvent \/ CheckpointEvent \/ StopEvent)
  <2>1. events' = events /\ remaining' = remaining /\ InFlight = 0 /\ InFlight' = 0
    BY <1>8 DEF AdapterStep, BeginCall, Finish, Request, Bound, Limit, Reject, Checkpoint,
       CheckpointRecord, StopGuard, StopSet, InFlight, sessionVars
  <2> QED BY <1>1, <1>2, <2>1 DEF Held
<1> QED BY <1>4, <1>5, <1>6, <1>7, <1>8

(* What a step of the runner does to them.                                 *)
LEMMA RunnerLedger ==
  ASSUME IInv, RunnerStep
  PROVE  /\ Held' = Held /\ wpc' = wpc /\ Ledger(events') = Ledger(events)
         /\ CopyEvents \/ record'.trace = record.trace
         /\ Seal \/ sealed' = sealed
         /\ Publish \/ published' = published
         /\ Publish => UNCHANGED <<record, sealed, events>>
<1>1. /\ TypeOK /\ events \in Seq(EntryType) /\ record \in RecordType
      /\ wpc' = wpc /\ remaining' = remaining /\ call' = call
  BY RunnerTypes DEF IInv, TypeOK, threadVars
<1>2. Held' = Held
  BY <1>1 DEF Held, InFlight
<1>3. Ledger(events') = Ledger(events)
  <2>1. CASE RunnerStopEvent
    <3> DEFINE e == Entry("stop", "runner", "none")
    <3>1. e \in EntryType /\ e.kind = "stop"
      BY <1>1, EntryTyped DEF Entry
    <3> HIDE DEF e
    <3>2. events' = Append(events, e)
      BY <2>1 DEF RunnerStopEvent, e
    <3> QED BY <1>1, <3>1, <3>2, NextLedger
  <2>2. CASE ~RunnerStopEvent
    <3>1. events' = events
      BY <2>2 DEF RunnerStep, Join, RunnerStopGuard, RunnerStopSet, Seal, CopyState,
         CopyEvents, CopyCheckpoints, Publish, CloseChannel, sessionVars
    <3> QED BY <3>1
  <2> QED BY <2>1, <2>2
<1>4. CopyEvents \/ record'.trace = record.trace
  BY <1>1 DEF RunnerStep, Join, RunnerStopGuard, RunnerStopSet, RunnerStopEvent, Seal, CopyState,
     CopyCheckpoints, Publish, CloseChannel, RecordType
<1>5. /\ Seal \/ sealed' = sealed
      /\ Publish \/ published' = published
      /\ Publish => UNCHANGED <<record, sealed, events>>
  BY DEF RunnerStep, Join, RunnerStopGuard, RunnerStopSet, RunnerStopEvent, Seal, CopyState,
     CopyEvents, CopyCheckpoints, Publish, CloseChannel, sessionVars
<1> QED BY <1>1, <1>2, <1>3, <1>4, <1>5

LEMMA MissedNext == IInv /\ MissedInv /\ [Next]_vars => MissedInv'
<1> SUFFICES ASSUME IInv, MissedInv, [Next]_vars PROVE MissedInv'
  OBVIOUS
<1> DEFINE trace == record.trace
<1>1. CASE AdapterStep
  <2> SUFFICES ASSUME rpc' \in SealedPoints \ {"state", "events"}
               PROVE  \/ Ledger(events') = Ledger(trace')
                      \/ /\ ~UnderWay'
                         /\ \E e \in LedgerEntry : Ledger(events') = Append(Ledger(trace'), e)
    BY DEF MissedInv
  <2>1. /\ trace' = trace /\ sealed = "sealed"
        /\ rpc \in SealedPoints \ {"state", "events"}
    BY <1>1, AdapterLedger DEF IInv, RunnerInv
  <2>2. CASE Ledger(events') = Ledger(events)
    BY <1>1, <2>1, <2>2, AdapterLedger DEF MissedInv
  <2>3. CASE Ledger(events') # Ledger(events)
    <3>1. /\ UnderWay /\ ~UnderWay'
          /\ Ledger(events') = Append(Ledger(events), [action |-> call.action,
                                                       remaining |-> Held'])
          /\ call.action \in Supported /\ Held' = Held - Cost[call.action]
          /\ Cost[call.action] <= Held
      BY <1>1, <2>3, AdapterLedger
    <3>2. Ledger(events) = Ledger(trace)
      BY <2>1, <3>1 DEF MissedInv
    <3>3. [action |-> call.action, remaining |-> Held'] \in LedgerEntry
      <4>1. remaining \in Nat /\ Cost[call.action] \in Nat
        BY <3>1 DEF IInv, TypeOK
      <4>2. Held \in Nat
        BY <4>1, <3>1 DEF Held, InFlight
      <4>3. Held' \in Nat
        BY <4>1, <4>2, <3>1
      <4> QED BY <3>1, <4>3 DEF LedgerEntry
    <3> QED BY <2>1, <3>1, <3>2, <3>3
  <2> QED BY <2>2, <2>3
<1>2. CASE RunnerStep
  <2>1. Ledger(events') = Ledger(events) /\ (UnderWay' <=> UnderWay)
    BY <1>2, RunnerLedger DEF UnderWay
  <2>2. CASE CopyEvents
    <3>1. trace' = events
      BY <2>2 DEF CopyEvents, IInv, TypeOK, RecordType
    <3> QED BY <2>1, <3>1 DEF MissedInv
  <2>3. CASE ~CopyEvents
    <3>1. trace' = trace
      BY <1>2, <2>3, RunnerLedger
    <3>2. rpc' \in SealedPoints \ {"state", "events"} => rpc \in SealedPoints \ {"state", "events"}
      BY <1>2, <2>3
         DEF RunnerStep, Join, RunnerStopGuard, RunnerStopSet, RunnerStopEvent, Seal, CopyState,
             CopyCheckpoints, Publish, CloseChannel
    <3> QED BY <2>1, <3>1, <3>2 DEF MissedInv
  <2> QED BY <2>2, <2>3
<1>3. CASE UNCHANGED vars
  BY <1>3 DEF vars, sessionVars, threadVars, runnerVars, MissedInv, UnderWay
<1> QED BY <1>1, <1>2, <1>3 DEF Next

THEOREM MissedInvariance == Spec => []MissedInv
<1>1. Init => MissedInv
  BY DEF Init, MissedInv
<1> QED BY <1>1, MissedNext, Invariance, PTL DEF Spec

ContractStep == Contract!ContractNext \/ UNCHANGED Contract!contractVars

(* A step that the contract does not see, unless a request that was under  *)
(* way lapses.                                                             *)
LEMMA QuietContract ==
  ASSUME Held' = Held, Ledger(events') = Ledger(events), Claim' = Claim,
         sealed' = sealed, sealed \in {"open", "sealed"},
         sealed = "sealed" /\ UnderWay' => UnderWay
  PROVE  ContractStep
<1>1. (remaining + InFlight)' = remaining + InFlight
  BY DEF Held
<1>2. CASE Phase' = Phase
  BY <1>1, <1>2 DEF ContractStep, Contract!contractVars
<1>3. CASE Phase' # Phase
  <2>1. Phase = "closing" /\ Phase' = "closed"
    BY <1>3 DEF Phase, UnderWay
  <2>2. Contract!Lapse
    BY <1>1, <2>1 DEF Contract!Lapse
  <2> QED BY <2>2 DEF ContractStep, Contract!ContractNext
<1> QED BY <1>2, <1>3

LEMMA AdapterContract == ASSUME IInv, AdapterStep PROVE ContractStep
<1>1. Claim' = Claim
  <2>1. published' = published
    BY AdapterLedger
  <2> QED BY <2>1 DEF Claim, InTime
<1>2. sealed' = sealed /\ sealed \in {"open", "sealed"}
  BY AdapterLedger DEF IInv, TypeOK
<1>3. CASE Ledger(events') = Ledger(events) /\ Held' = Held
  BY <1>1, <1>2, <1>3, AdapterLedger, QuietContract
<1>4. CASE ~(Ledger(events') = Ledger(events) /\ Held' = Held)
  <2>1. /\ UnderWay /\ ~UnderWay' /\ call.action \in Supported
        /\ Cost[call.action] <= Held /\ Held' = Held - Cost[call.action]
        /\ Ledger(events') = Append(Ledger(events), [action |-> call.action,
                                                     remaining |-> Held'])
    BY <1>4, AdapterLedger
  <2>2. Phase \in {"open", "closing"} /\ Phase' = IF Phase = "open" THEN "open" ELSE "closed"
    BY <1>2, <2>1 DEF Phase, UnderWay
  <2>3. Contract!Spend(call.action)
    BY <1>1, <2>1, <2>2 DEF Contract!Spend, Held
  <2> QED BY <2>1, <2>3 DEF ContractStep, Contract!ContractNext
<1> QED BY <1>3, <1>4

LEMMA SubSeqs ==
  ASSUME NEW S, NEW q \in Seq(S), NEW e \in S
  PROVE  /\ SubSeq(q, 1, Len(q)) = q
         /\ SubSeq(Append(q, e), 1, Len(q)) = q
         /\ Len(Append(q, e)) - 1 = Len(q)
<1>1. SubSeq(q, 1, Len(q)) = q /\ Len(Append(q, e)) - 1 = Len(q)
  OBVIOUS
<1>2. SubSeq(Append(q, e), 1, Len(q)) = q
  OBVIOUS
<1> QED BY <1>1, <1>2

LEMMA PublishContract ==
  ASSUME OInv, MissedInv, Publish, published' # NoRun
  PROVE  Contract!ContractNext
<1>1. IInv /\ rpc = "publish" /\ sealed = "sealed" /\ sealed' = sealed /\ events' = events
  BY DEF Publish, OInv, IInv, RunnerInv, TypeOK, sessionVars
<1>2. published = NoRun /\ published'.run = result /\ published'.record = record
  BY DEF Publish, OInv, IInv, PublishedInv
<1>3. Claim = Contract!NoClaim
  BY <1>2 DEF Claim, Contract!NoClaim
<1>4. /\ (remaining + InFlight)' = remaining + InFlight
      /\ Ledger(events)' = Ledger(events) /\ Phase' = Phase /\ Phase # "open"
  BY <1>1 DEF Publish, sessionVars, threadVars, InFlight, Phase
<1>5. Claim' = [kind |-> IF result # "adapter_timeout" THEN "certified" ELSE "censored",
                ledger |-> Ledger(record.trace)]
  BY <1>2 DEF Claim, InTime
<1>6. CASE result # "adapter_timeout"
  <2>1. wpc = "dead" /\ record.trace = events
    BY <1>1, <1>6 DEF IInv, RunnerInv, OInv, CopyInv, OnTime
  <2>2. Phase = "closed"
    BY <1>1, <2>1 DEF Phase
  <2>3. Contract!Certify
    BY <1>3, <1>4, <1>5, <1>6, <2>1, <2>2 DEF Contract!Certify
  <2> QED BY <2>3 DEF Contract!ContractNext
<1>7. CASE result = "adapter_timeout"
  <2> DEFINE full == Ledger(events)
             copied == Ledger(record.trace)
  <2>1. full \in Seq(LedgerEntry) /\ copied \in Seq(LedgerEntry)
    BY <1>1, LedgerTyped DEF IInv, TypeOK, RecordType
  <2>2. full = copied \/ \E e \in LedgerEntry : full = Append(copied, e)
    BY <1>1 DEF MissedInv
  <2> HIDE DEF full, copied
  <2>3. \E n \in {Len(full) - 1, Len(full)} \cap Nat : copied = SubSeq(full, 1, n)
    <3>1. CASE full = copied
      <4>1. Len(full) \in Nat /\ SubSeq(full, 1, Len(full)) = copied
        BY <2>1, <3>1
      <4> QED BY <4>1
    <3>2. ASSUME NEW e \in LedgerEntry, full = Append(copied, e)
          PROVE  \E n \in {Len(full) - 1, Len(full)} \cap Nat : copied = SubSeq(full, 1, n)
      <4>1. Len(full) - 1 = Len(copied) /\ Len(copied) \in Nat
            /\ SubSeq(full, 1, Len(copied)) = copied
        BY <2>1, <3>2, SubSeqs
      <4> QED BY <4>1
    <3> QED BY <2>2, <3>1, <3>2
  <2>4. Contract!Censor
    BY <1>3, <1>4, <1>5, <1>7, <2>3 DEF Contract!Censor, full, copied
  <2> QED BY <2>4 DEF Contract!ContractNext
<1> QED BY <1>6, <1>7

LEMMA RunnerContract == ASSUME OInv, MissedInv, RunnerStep PROVE ContractStep
<1>1. /\ IInv /\ Held' = Held /\ wpc' = wpc /\ Ledger(events') = Ledger(events)
      /\ sealed \in {"open", "sealed"}
  BY RunnerLedger DEF OInv, IInv, TypeOK
<1>2. UnderWay' <=> UnderWay
  BY <1>1 DEF UnderWay
<1>3. CASE published' # published
  <2>1. Publish /\ published' # NoRun
    BY <1>1, <1>3, RunnerLedger DEF Publish, IInv, PublishedInv
  <2> QED BY <2>1, PublishContract DEF ContractStep
<1>4. CASE published' = published
  <2>1. Claim' = Claim
    BY <1>4 DEF Claim, InTime
  <2>2. CASE Seal
    <3>1. Phase = "open" /\ Phase' \in {"closing", "closed"}
      BY <1>1, <2>2 DEF Seal, Phase, IInv, RunnerInv
    <3>2. Contract!Close
      BY <1>1, <2>1, <3>1 DEF Contract!Close, Held
    <3> QED BY <3>2 DEF ContractStep, Contract!ContractNext
  <2>3. CASE ~Seal
    <3>1. sealed' = sealed
      BY <1>1, <2>3, RunnerLedger
    <3> QED BY <1>1, <1>2, <2>1, <3>1, QuietContract
  <2> QED BY <2>2, <2>3
<1> QED BY <1>3, <1>4

(* Every trial is a behaviour of TrialContract, whether it ends in time or *)
(* not: a request is charged exactly when it is logged, at most one passes *)
(* after the session is sealed, and only a run that timed out may publish  *)
(* a trace without it.                                                     *)
THEOREM ContractImplemented == Spec => ImplementsContract
<1>1. Init => Contract!ContractInit
  <2> SUFFICES ASSUME Init PROVE Contract!ContractInit
    OBVIOUS
  <2>1. /\ remaining + InFlight = MaxCost /\ Ledger(events) = <<>>
        /\ Phase = "open" /\ Claim = Contract!NoClaim
    BY EmptyLedger DEF Init, InFlight, Phase, Claim, Contract!NoClaim
  <2> QED BY <2>1 DEF Contract!ContractInit
<1>2. OInv /\ MissedInv /\ [Next]_vars => [Contract!ContractNext]_(Contract!contractVars)
  <2> SUFFICES ASSUME OInv, MissedInv, [Next]_vars PROVE ContractStep
    BY DEF ContractStep
  <2>1. CASE AdapterStep
    BY <2>1, AdapterContract DEF OInv
  <2>2. CASE RunnerStep
    BY <2>2, RunnerContract
  <2>3. CASE UNCHANGED vars
    BY <2>3 DEF vars, sessionVars, threadVars, runnerVars, ContractStep, Contract!contractVars,
       InFlight, Phase, Claim, InTime
  <2> QED BY <2>1, <2>2, <2>3 DEF Next
<1> QED
  BY <1>1, <1>2, OutcomeInvariance, MissedInvariance, PTL
     DEF Spec, ImplementsContract, Contract!ContractSpec
=============================================================================
