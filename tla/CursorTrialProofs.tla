------------------------- MODULE CursorTrialProofs -------------------------
(***************************************************************************)
(* Proofs about the trials of the Cursor harness and their ledger, for any *)
(* number of trials and slots.  The lock makes a check and the append that *)
(* follows it one step: while a trial is about to append it holds the lock, *)
(* so what it has checked still holds.  What the harness records of a trial *)
(* (result, versions read, verdict) changes only in that trial's own steps, *)
(* in an order its program counter fixes.  A slot has one trial that reserved *)
(* it, so its state in SlotContract is read from that trial's result and from *)
(* its one consumption.                                                    *)
(***************************************************************************)
EXTENDS CursorTrial, TLAPS

-----------------------------------------------------------------------------
(* The ledger: the inductive invariant.                                    *)

\* Only the trial in a locked section holds the lock.
LockHeld == \A t \in Trials : pc[t] \in HoldingPoints => lock = t

\* What reserve and consume have checked still holds when they append.
CheckHolds ==
  \A t \in Trials :
    /\ pc[t] = "append_slot" => Readable /\ ~Taken(SlotOf[t])
    /\ pc[t] = "append_id" => Readable /\ Unconsumed(t)

\* Where a trial has passed its reservation.
ReservedPoints ==
  {"unlock_reserved", "workspace", "launch", "agent", "write", "consume", "check_id",
   "append_id", "unlock_consumed", "cleanup", "returned", "hung",
   "observe", "tests", "testing", "verify", "verifying", "grade", "manifest"}

\* A trial runs its agent only with its reservation on file.
ReservedFirst ==
  \A t \in Trials :
    pc[t] \in ReservedPoints \/ result[t] # "none" => Holds("reservation", t)

\* A record is of its trial's slot, and a slot has one reservation.
OneReservation ==
  /\ \A i \in 1..Len(lines) : lines[i].slot = SlotOf[lines[i].trial]
  /\ \A i, j \in 1..Len(lines) :
       /\ lines[i].kind = "reservation" /\ lines[j].kind = "reservation"
       /\ lines[i].slot = lines[j].slot
       => i = j

IInv == TypeOK /\ LockHeld /\ CheckHolds /\ ReservedFirst /\ OneReservation

-----------------------------------------------------------------------------

USE LedgerAssumption, TrialAssumption
USE DEF HoldingPoints, ReservedPoints, Reading, Executing, MayLeave, Locked, Unlocked,
        Ended, Outcomes, Failures, Results, Go, Set, ledgerVars, fileVars, trialVars

(* Initially the ledger is empty and every trial idle.                     *)
LEMMA InitOK == Init => IInv
BY DEF Init, LedgerInit, IInv, TypeOK, LedgerTypeOK, LineType, LockHeld, ReservedFirst,
       CheckHolds, OneReservation, Holds, Taken, Readable, TrialPoints

(* The steps of a trial, one by one.                                       *)
LEMMA StepCases ==
  ASSUME NEW u \in Trials, TrialStep(u)
  PROVE \/ (LedgerStep(u) \/ AcquireFails(u)) /\ UNCHANGED trialVars
        \/ Begin(u) \/ MakeWorkspace(u) \/ Launch(u)
        \/ AgentReturns(u) \/ AgentTimesOut(u) \/ Writes(u) \/ AgentEnds(u)
        \/ ReadWorkspace(u) \/ CodeReturns(u) \/ WriteArtifacts(u) \/ Cleanup(u)
        \/ StepRaises(u) \/ AgentHangs(u) \/ CodeHangs(u) \/ Crash(u)
BY DEF TrialStep, CallStep, Failure

(* A trial changes the file only where it appends, by nothing or by its    *)
(* record.                                                                 *)
LEMMA FileStep ==
  ASSUME NEW u \in Trials, TrialStep(u)
  PROVE \/ UNCHANGED fileVars
        \/ pc[u] = "append_slot" /\ lines' \in {lines, Append(lines, Reservation(u))}
        \/ pc[u] = "append_id" /\ lines' \in {lines, Append(lines, Consumption(u))}
<1>1. CASE AppendSlot(u)
  BY <1>1 DEF AppendSlot, WriteRecord, WritePartly
<1>2. CASE AppendId(u)
  BY <1>2 DEF AppendId, WriteRecord, WritePartly
<1>3. CASE Crash(u)
  BY <1>3 DEF Crash, CrashLedger, WriteRecord, WritePartly
<1>4. CASE ~(AppendSlot(u) \/ AppendId(u) \/ Crash(u))
  BY <1>4, StepCases
     DEF LedgerStep, Acquire, AcquireFails, Release, CheckSlot, CheckId, Begin,
         MakeWorkspace, Launch,
         AgentReturns, AgentTimesOut, Writes, AgentEnds, ReadWorkspace,
         WriteArtifacts, Cleanup, StepRaises, CodeReturns, AgentHangs, CodeHangs
<1> QED BY <1>1, <1>2, <1>3, <1>4

(* The trials that do not step keep all that is theirs.                    *)
LEMMA OthersKept ==
  ASSUME TypeOK, NEW u \in Trials, TrialStep(u)
  PROVE \A t \in Trials \ {u} :
          /\ pc'[t] = pc[t] /\ verdict'[t] = verdict[t] /\ result'[t] = result[t]
          /\ alive'[t] = alive[t] /\ stray'[t] = stray[t] /\ workspace'[t] = workspace[t]
          /\ version'[t] = version[t] /\ reads'[t] = reads[t]
          /\ artifacts'[t] = artifacts[t]
<1> USE DEF TypeOK, LedgerTypeOK
<1>1. CASE (LedgerStep(u) \/ AcquireFails(u)) /\ UNCHANGED trialVars
  BY <1>1 DEF LedgerStep, Acquire, AcquireFails, Release, CheckSlot, AppendSlot, CheckId,
              AppendId
<1>2. CASE Begin(u) \/ MakeWorkspace(u) \/ Launch(u) \/ AgentReturns(u) \/ AgentTimesOut(u)
             \/ Writes(u) \/ AgentEnds(u)
  BY <1>2 DEF Begin, MakeWorkspace, Launch, AgentReturns, AgentTimesOut, Writes,
              AgentEnds
<1>3. CASE ReadWorkspace(u) \/ WriteArtifacts(u) \/ Cleanup(u) \/ CodeReturns(u)
             \/ CodeHangs(u) \/ AgentHangs(u)
  BY <1>3 DEF ReadWorkspace, WriteArtifacts, Cleanup, CodeReturns, AgentHangs, CodeHangs
<1>4. CASE StepRaises(u) \/ Crash(u)
  BY <1>4 DEF StepRaises, Crash, CrashLedger, Remains
<1> QED BY <1>1, <1>2, <1>3, <1>4, StepCases

-----------------------------------------------------------------------------
(* Types.                                                                  *)

LEMMA RecordTypes ==
  ASSUME TypeOK, NEW t \in Trials
  PROVE Reservation(t) \in LineType /\ Consumption(t) \in LineType
BY DEF TypeOK, LedgerTypeOK, Reservation, Consumption, LineType

LEMMA AppendRecord ==
  ASSUME TypeOK, NEW r \in LineType
  PROVE Append(lines, r) \in Seq(LineType)
BY DEF TypeOK, LedgerTypeOK

(* Each step keeps the types.                                              *)
LEMMA TypeStep == ASSUME TypeOK, NEW u \in Trials, TrialStep(u) PROVE TypeOK'
<1>1. lines' \in Seq(LineType)
  <2>1. lines \in Seq(LineType)
    BY DEF TypeOK, LedgerTypeOK
  <2>2. lines' \in {lines, Append(lines, Reservation(u)), Append(lines, Consumption(u))}
    BY FileStep
  <2> QED BY <2>1, <2>2, AppendRecord, RecordTypes
<1>2. pc' \in [Trials -> TrialPoints]
  <2>1. pc \in [Trials -> TrialPoints]
    BY DEF TypeOK
  <2>2. CASE LedgerStep(u) \/ AcquireFails(u)
    BY <2>1, <2>2
       DEF LedgerStep, Acquire, AcquireFails, Release, CheckSlot, AppendSlot, CheckId,
           AppendId, TrialPoints
  <2>3. CASE ReadWorkspace(u)
    BY <2>1, <2>3 DEF ReadWorkspace, TrialPoints
  <2>4. CASE ~LedgerStep(u) /\ ~AcquireFails(u) /\ ~ReadWorkspace(u)
    BY <2>1, <2>4, StepCases
       DEF Begin, MakeWorkspace, Launch, AgentReturns, AgentTimesOut, Writes,
           AgentEnds, WriteArtifacts, Cleanup, StepRaises, CodeReturns, AgentHangs,
           CodeHangs, Crash, TrialPoints
  <2> QED BY <2>2, <2>3, <2>4
<1> HIDE DEF Go, Reading, Executing, Locked, Unlocked
<1>3. tail' \in {"closed", "open", "torn"} /\ lock' \in Trials \cup {NoOne}
  BY StepCases
     DEF TypeOK, LedgerTypeOK, LedgerStep, Acquire, AcquireFails, Release, CheckSlot,
         AppendSlot, CheckId, AppendId, WriteRecord, WritePartly, Begin, MakeWorkspace,
         Launch, AgentReturns, AgentTimesOut, Writes, AgentEnds, ReadWorkspace,
         WriteArtifacts, Cleanup, StepRaises, CodeReturns, AgentHangs, CodeHangs, Crash,
         CrashLedger
<1>4. verdict' \in [Trials -> Outcomes \cup {"none"}]
  <2>1. verdict \in [Trials -> Outcomes \cup {"none"}]
    BY DEF TypeOK, LedgerTypeOK
  <2>2. CASE ReadWorkspace(u)
    BY <2>1, <2>2 DEF ReadWorkspace, OutcomeOf
  <2>3. CASE ~ReadWorkspace(u)
    BY <2>1, <2>3, StepCases
       DEF LedgerStep, Acquire, AcquireFails, Release, CheckSlot, AppendSlot, CheckId,
           AppendId, Begin, MakeWorkspace, Launch, AgentReturns, AgentTimesOut,
           Writes, AgentEnds, WriteArtifacts, Cleanup, StepRaises, CodeReturns,
           AgentHangs, CodeHangs,
           Crash, CrashLedger
  <2> QED BY <2>2, <2>3
<1>5. result' \in [Trials -> Results \cup {"none", "running"}]
  <2>1. result \in [Trials -> Results \cup {"none", "running"}]
    BY DEF TypeOK
  <2> QED
    BY <2>1, StepCases
       DEF Begin, MakeWorkspace, Launch, AgentReturns, AgentTimesOut, Writes,
           AgentEnds, ReadWorkspace, WriteArtifacts, Cleanup, StepRaises, CodeReturns,
           AgentHangs, CodeHangs,
           Crash, Remains
<1>6. alive' \in [Trials -> BOOLEAN] /\ stray' \in [Trials -> BOOLEAN]
  <2>1. alive \in [Trials -> BOOLEAN] /\ stray \in [Trials -> BOOLEAN]
    BY DEF TypeOK
  <2> QED
    BY <2>1, StepCases
       DEF Begin, MakeWorkspace, Launch, AgentReturns, AgentTimesOut, Writes,
           AgentEnds, ReadWorkspace, WriteArtifacts, Cleanup, StepRaises, CodeReturns,
           AgentHangs, CodeHangs,
           Crash, Remains
<1>7. workspace' \in [Trials -> {"absent", "live", "deleted"}]
  <2>1. workspace \in [Trials -> {"absent", "live", "deleted"}]
    BY DEF TypeOK
  <2> QED
    BY <2>1, StepCases
       DEF Begin, MakeWorkspace, Launch, AgentReturns, AgentTimesOut, Writes,
           AgentEnds, ReadWorkspace, WriteArtifacts, Cleanup, StepRaises, CodeReturns,
           AgentHangs, CodeHangs,
           Crash, Remains
<1>8. version' \in [Trials -> 0..MaxWrites]
  <2>1. version \in [Trials -> 0..MaxWrites]
    BY DEF TypeOK
  <2> QED
    BY <2>1, StepCases
       DEF Begin, MakeWorkspace, Launch, AgentReturns, AgentTimesOut, Writes,
           AgentEnds, ReadWorkspace, WriteArtifacts, Cleanup, StepRaises, CodeReturns,
           AgentHangs, CodeHangs, Crash, Remains
<1>10. reads' \in [Trials -> [DOMAIN Reading -> SUBSET (0..MaxWrites)]]
  <2>1. /\ version \in [Trials -> 0..MaxWrites]
        /\ reads \in [Trials -> [DOMAIN Reading -> SUBSET (0..MaxWrites)]]
    BY DEF TypeOK
  <2>2. CASE ReadWorkspace(u)
    <3>1. PICK step \in DOMAIN Reading : reads' = [reads EXCEPT ![u][step] = {version[u]}]
      BY <2>2 DEF ReadWorkspace
    <3>2. {version[u]} \in SUBSET (0..MaxWrites)
      BY <2>1
    <3> QED BY <2>1, <3>1, <3>2
  <2>3. CASE ~ReadWorkspace(u)
    <3>1. reads' = reads
      BY <2>3, StepCases
         DEF Begin, MakeWorkspace, Launch, AgentReturns, AgentTimesOut, Writes,
             AgentEnds, WriteArtifacts, Cleanup, StepRaises, CodeReturns, AgentHangs,
             CodeHangs, Crash, Remains
    <3> QED BY <2>1, <3>1
  <2> QED BY <2>2, <2>3
<1>9. artifacts' \in [Trials -> {"none", "partial", "complete"}]
  <2>1. artifacts \in [Trials -> {"none", "partial", "complete"}]
    BY DEF TypeOK
  <2> QED
    BY <2>1, StepCases
       DEF Begin, MakeWorkspace, Launch, AgentReturns, AgentTimesOut, Writes,
           AgentEnds, ReadWorkspace, WriteArtifacts, Cleanup, StepRaises, CodeReturns,
           AgentHangs, CodeHangs,
           Crash, Remains
<1> QED
  BY <1>1, <1>2, <1>3, <1>4, <1>5, <1>6, <1>7, <1>8, <1>9, <1>10 DEF TypeOK, LedgerTypeOK

-----------------------------------------------------------------------------
(* The lock.                                                               *)

(* A trial that holds the lock keeps it through the section.               *)
LEMMA LockStep == ASSUME IInv, NEW u \in Trials, TrialStep(u) PROVE LockHeld'
<1> USE DEF IInv, TypeOK, LedgerTypeOK, LockHeld
<1>1. CASE (LedgerStep(u) \/ AcquireFails(u)) /\ UNCHANGED trialVars
  BY <1>1
     DEF LedgerStep, Acquire, AcquireFails, Release, CheckSlot, AppendSlot, CheckId,
         AppendId
<1>2. CASE Begin(u) \/ MakeWorkspace(u) \/ Launch(u) \/ AgentReturns(u) \/ AgentTimesOut(u)
             \/ Writes(u) \/ AgentEnds(u) \/ WriteArtifacts(u) \/ Cleanup(u)
             \/ CodeReturns(u) \/ CodeHangs(u) \/ AgentHangs(u) \/ ReadWorkspace(u)
             \/ StepRaises(u)
  BY <1>2 DEF Begin, MakeWorkspace, Launch, AgentReturns, AgentTimesOut, Writes,
              AgentEnds, WriteArtifacts, Cleanup, CodeReturns, AgentHangs, CodeHangs,
              ReadWorkspace, StepRaises
<1>3. CASE Crash(u)
  BY <1>3 DEF Crash, CrashLedger
<1> QED BY <1>1, <1>2, <1>3, StepCases

(* No other trial is about to append while one changes the file.           *)
LEMMA Alone ==
  ASSUME IInv, NEW u \in Trials, NEW t \in Trials \ {u}, TrialStep(u),
         pc'[t] \in {"append_slot", "append_id"}
  PROVE UNCHANGED fileVars
<1>1. pc[t] \in HoldingPoints /\ lock = t
  BY OthersKept DEF IInv, LockHeld
<1>2. pc[u] \notin HoldingPoints
  BY <1>1 DEF IInv, LockHeld
<1> QED BY <1>2, FileStep

(* Records once written stay where they are.                               *)
LEMMA HoldsKept ==
  ASSUME TypeOK, NEW u \in Trials, TrialStep(u)
  PROVE /\ Len(lines') \in {Len(lines), Len(lines) + 1}
        /\ \A i \in 1..Len(lines) : lines'[i] = lines[i]
        /\ \A kind, t : Holds(kind, t) => Holds(kind, t)'
<1>1. lines \in Seq(LineType) /\ Len(lines) \in Nat
  BY DEF TypeOK, LedgerTypeOK
<1>2. CASE lines' = lines
  BY <1>1, <1>2 DEF Holds
<1>3. CASE \E r \in LineType : lines' = Append(lines, r)
  BY <1>1, <1>3 DEF Holds
<1> QED BY <1>2, <1>3, FileStep, RecordTypes

(* The last record of a longer file is the one its writer was about to     *)
(* append.                                                                 *)
LEMMA NewRecord ==
  ASSUME TypeOK, NEW u \in Trials, TrialStep(u), Len(lines') = Len(lines) + 1
  PROVE \/ pc[u] = "append_slot" /\ lines'[Len(lines')] = Reservation(u)
        \/ pc[u] = "append_id" /\ lines'[Len(lines')] = Consumption(u)
<1>1. lines \in Seq(LineType) /\ Len(lines) \in Nat
  BY DEF TypeOK, LedgerTypeOK
<1>2. lines' # lines
  BY <1>1
<1> QED BY <1>1, <1>2, FileStep, RecordTypes

-----------------------------------------------------------------------------
(* The reservations.                                                       *)

(* A check made under the lock holds until the lock is released.           *)
LEMMA CheckStep == ASSUME IInv, NEW u \in Trials, TrialStep(u) PROVE CheckHolds'
<1> SUFFICES ASSUME NEW t \in Trials, pc'[t] \in {"append_slot", "append_id"}
             PROVE /\ pc'[t] = "append_slot" => (Readable /\ ~Taken(SlotOf[t]))'
                   /\ pc'[t] = "append_id" => (Readable /\ Unconsumed(t))'
  BY DEF CheckHolds
<1>1. CASE t # u
  <2>1. UNCHANGED fileVars /\ pc'[t] = pc[t]
    BY <1>1, Alone, OthersKept DEF IInv
  <2> QED BY <2>1 DEF IInv, CheckHolds, Readable, Taken, Unconsumed, Holds
<1>2. CASE t = u
  <2>1. CASE CheckSlot(u) \/ CheckId(u)
    BY <1>2, <2>1
       DEF CheckSlot, CheckId, IInv, TypeOK, Readable, Taken, Unconsumed, Holds
  <2>2. CASE Writes(u) \/ AgentEnds(u)
    BY <1>2, <2>2
       DEF Writes, AgentEnds, IInv, CheckHolds, Readable, Taken, Unconsumed, Holds
  <2>3. CASE (LedgerStep(u) \/ AcquireFails(u)) /\ ~CheckSlot(u) /\ ~CheckId(u)
    BY <1>2, <2>3
       DEF IInv, TypeOK, LedgerStep, Acquire, AcquireFails, Release, AppendSlot, AppendId
  <2>4. CASE ~(LedgerStep(u) \/ AcquireFails(u) \/ Writes(u) \/ AgentEnds(u))
    <3>1. CASE Begin(u) \/ MakeWorkspace(u) \/ Launch(u) \/ AgentReturns(u) \/ AgentTimesOut(u)
      BY <1>2, <3>1
         DEF IInv, TypeOK, Begin, MakeWorkspace, Launch, AgentReturns, AgentTimesOut
    <3>2. CASE ReadWorkspace(u)
      BY <1>2, <3>2 DEF IInv, TypeOK, ReadWorkspace
    <3>3. CASE CodeReturns(u) \/ CodeHangs(u) \/ AgentHangs(u)
      BY <1>2, <3>3 DEF IInv, TypeOK, CodeReturns, CodeHangs, AgentHangs
    <3>4. CASE WriteArtifacts(u) \/ Cleanup(u) \/ StepRaises(u) \/ Crash(u)
      BY <1>2, <3>4 DEF IInv, TypeOK, WriteArtifacts, Cleanup, StepRaises, Crash
    <3> QED BY <2>4, <3>1, <3>2, <3>3, <3>4, StepCases
  <2> QED BY <2>1, <2>2, <2>3, <2>4
<1> QED BY <1>1, <1>2

(* A trial gets past its reservation only by writing it.                   *)
LEMMA ReservedStep == ASSUME IInv, NEW u \in Trials, TrialStep(u) PROVE ReservedFirst'
<1> SUFFICES ASSUME NEW t \in Trials, pc'[t] \in ReservedPoints \/ result'[t] # "none"
             PROVE Holds("reservation", t)'
  BY DEF ReservedFirst
<1>1. CASE pc[t] \in ReservedPoints \/ result[t] # "none"
  BY <1>1, HoldsKept DEF IInv, ReservedFirst
<1>2. CASE ~(pc[t] \in ReservedPoints \/ result[t] # "none")
  <2>1. t = u
    BY <1>2, OthersKept DEF IInv
  <2>2. CASE AppendSlot(u) /\ UNCHANGED trialVars
    <3>1. lines' = Append(lines, Reservation(u))
      BY <1>2, <2>1, <2>2 DEF AppendSlot, WriteRecord, IInv, TypeOK
    <3>2. lines \in Seq(LineType) /\ Len(lines) \in Nat
      BY DEF IInv, TypeOK, LedgerTypeOK
    <3> QED BY <2>1, <3>1, <3>2 DEF Holds, Reservation
  <2>3. CASE ~(AppendSlot(u) /\ UNCHANGED trialVars)
    BY <1>2, <2>1, <2>3, StepCases
       DEF IInv, TypeOK, LedgerStep, Acquire, AcquireFails, Release, CheckSlot, CheckId,
           AppendId, Begin, MakeWorkspace, Launch, AgentReturns, AgentTimesOut,
           Writes, AgentEnds, ReadWorkspace, WriteArtifacts, Cleanup, StepRaises,
           CodeReturns, AgentHangs, CodeHangs, Crash, Remains
  <2> QED BY <2>2, <2>3
<1> QED BY <1>1, <1>2

(* A slot that is free when its reservation is appended has no other.      *)
LEMMA OneStep == ASSUME IInv, NEW u \in Trials, TrialStep(u) PROVE OneReservation'
<1>1. Len(lines) \in Nat
  BY DEF IInv, TypeOK, LedgerTypeOK
<1>2. CASE Len(lines') = Len(lines)
  BY <1>2, HoldsKept DEF IInv, OneReservation
<1>3. CASE Len(lines') = Len(lines) + 1
  <2>1. \A i \in 1..Len(lines') : i \in 1..Len(lines) \/ i = Len(lines')
    BY <1>1, <1>3
  <2>2. \A i \in 1..Len(lines) : lines'[i] = lines[i]
    BY HoldsKept DEF IInv
  <2>3. CASE pc[u] = "append_slot" /\ lines'[Len(lines')] = Reservation(u)
    <3>1. \A i \in 1..Len(lines) :
            ~(lines[i].kind = "reservation" /\ lines[i].slot = SlotOf[u])
      BY <2>3 DEF IInv, CheckHolds, Taken
    <3>2. /\ lines'[Len(lines')].slot = SlotOf[u]
          /\ lines'[Len(lines')].trial = u
      BY <2>3 DEF Reservation
    <3> QED BY <2>1, <2>2, <3>1, <3>2 DEF IInv, OneReservation
  <2>4. CASE pc[u] = "append_id" /\ lines'[Len(lines')] = Consumption(u)
    <3>1. /\ lines'[Len(lines')].slot = SlotOf[u]
          /\ lines'[Len(lines')].trial = u
          /\ lines'[Len(lines')].kind = "consumption"
      BY <2>4 DEF Consumption
    <3> QED BY <2>1, <2>2, <3>1 DEF IInv, OneReservation
  <2> QED BY <1>3, <2>3, <2>4, NewRecord DEF IInv
<1> QED BY <1>2, <1>3, HoldsKept DEF IInv

-----------------------------------------------------------------------------

(* The invariant is kept by every step.                                    *)
LEMMA NextOK == IInv /\ [Next]_vars => IInv'
<1> SUFFICES ASSUME IInv, [Next]_vars PROVE IInv'
  OBVIOUS
<1>1. ASSUME NEW u \in Trials, TrialStep(u) PROVE IInv'
  BY <1>1, TypeStep, LockStep, CheckStep, ReservedStep, OneStep DEF IInv
<1>2. CASE UNCHANGED vars
  <2> USE <1>2 DEF vars, IInv
  <2>1. TypeOK'
    BY DEF TypeOK, LedgerTypeOK
  <2>2. LockHeld' /\ OneReservation'
    BY DEF LockHeld, OneReservation
  <2>3. CheckHolds'
    BY DEF CheckHolds, Readable, Taken, Unconsumed, Holds
  <2>4. ReservedFirst'
    BY DEF ReservedFirst, Holds
  <2> QED BY <2>1, <2>2, <2>3, <2>4
<1> QED BY <1>1, <1>2 DEF Next

(* The invariant holds of every state of every behaviour.                  *)
THEOREM Invariance == Spec => []IInv
BY InitOK, NextOK, PTL DEF Spec

(* Every variable keeps its type.                                          *)
THEOREM TypeCorrectness == Spec => []TypeOK
BY Invariance, PTL DEF IInv

(* No slot is ever run by two trials, however many compete for it and      *)
(* wherever they fail: both would have the slot's only reservation.        *)
THEOREM SlotRunOnceAlways == Spec => []SlotRunOnce
<1>1. IInv => SlotRunOnce
  BY DEF IInv, ReservedFirst, OneReservation, Holds, SlotRunOnce
<1> QED BY <1>1, Invariance, PTL

(* The file only grows, and is frozen once a line is torn: whoever appends *)
(* has checked since, and holds the lock.                                  *)
THEOREM AppendOnly == Spec => LedgerAppendOnly
<1>1. ASSUME IInv, NEW u \in Trials, TrialStep(u)
      PROVE IsPrefix(lines, lines') /\ (~Readable => UNCHANGED fileVars)
  <2>1. lines \in Seq(LineType) /\ lines' \in Seq(LineType) /\ Len(lines) \in Nat
    BY <1>1, TypeStep DEF IInv, TypeOK, LedgerTypeOK
  <2>2. IsPrefix(lines, lines')
    BY <1>1, <2>1, HoldsKept DEF IInv, IsPrefix
  <2>3. ~Readable => UNCHANGED fileVars
    BY <1>1, FileStep DEF IInv, CheckHolds
  <2> QED BY <2>2, <2>3
<1>2. ASSUME IInv, UNCHANGED vars
      PROVE IsPrefix(lines, lines') /\ (~Readable => UNCHANGED fileVars)
  BY <1>2 DEF vars, IInv, TypeOK, LedgerTypeOK, IsPrefix
<1>3. IInv /\ [Next]_vars => [IsPrefix(lines, lines') /\ (~Readable => UNCHANGED fileVars)]_vars
  BY <1>1 DEF Next
<1> QED BY <1>3, Invariance, PTL DEF Spec, LedgerAppendOnly

-----------------------------------------------------------------------------
(* What is recorded of a trial.                                            *)

\* Where a trial has a result, and where it has a verdict.
GradedPoints   == {"manifest", "write", "consume", "check_id", "append_id"}
UngradedPoints == {"observe", "tests", "testing", "verify", "verifying", "grade"}
RunPoints      == UngradedPoints \cup GradedPoints

\* A result comes from the agent's run, and reads and verdict from the result.
ResultInv ==
  \A t \in Trials :
    /\ pc[t] \in RunPoints => result[t] \in Results
    /\ pc[t] = "agent" => result[t] = "running"
    /\ result[t] \in {"none", "running"} \/ pc[t] \in UngradedPoints => verdict[t] = "none"
    /\ verdict[t] # "none" => verdict[t] = OutcomeOf(result[t])
    /\ pc[t] \in GradedPoints => verdict[t] = OutcomeOf(result[t])

\* A trial that is launched has run nothing yet.
FreshInv ==
  \A t \in Trials :
    pc[t] \in {"idle", "reserve", "check_slot", "append_slot", "unlock_reserved",
               "workspace", "launch"} =>
      result[t] = "none"

\* What has been recorded of the files of a completed agent that has left
\* nothing behind, at each point of the record.
RecordAtRest(t) ==
  /\ pc[t] = "tests" => reads[t].observe = {version[t]}
  /\ pc[t] \in {"testing", "verify", "verifying", "grade"} \/ verdict[t] # "none" =>
       reads[t].tests = reads[t].observe
  /\ verdict[t] # "none" => /\ reads[t].grade = {version[t]}
                            /\ reads[t].manifest \subseteq {version[t]}

\* Nothing but the tests and the verifier changes them, before the grader reads.
RestInv ==
  \A t \in Trials :
    /\ result[t] = "completed" => ~alive[t] /\ (~stray[t] => RecordAtRest(t))
    /\ verdict[t] = "none" => reads[t].manifest = {}

\* A reservation is consumed late, and with the artifacts complete.
ConsumedInv ==
  \A t \in Trials :
    /\ pc[t] \in {"consume", "check_id", "append_id"} => artifacts[t] = "complete"
    /\ Holds("consumption", t) =>
         /\ pc[t] \in {"unlock_consumed", "unlock_failed", "cleanup"} \cup Ended
         /\ artifacts[t] = "complete"
         /\ result[t] \in Results

OInv == IInv /\ ResultInv /\ FreshInv /\ RestInv /\ ConsumedInv /\ ConsumedFaithful

-----------------------------------------------------------------------------

USE DEF GradedPoints, UngradedPoints, RunPoints, OutcomeOf

(* Initially no trial has a result.                                        *)
LEMMA OutcomeInit == Init => OInv
<1> SUFFICES ASSUME Init PROVE OInv
  OBVIOUS
<1> QED
  BY InitOK
     DEF Init, LedgerInit, OInv, ResultInv, FreshInv, RestInv, RecordAtRest,
         ConsumedInv, ConsumedFaithful, Holds

(* The result of a trial comes before its verdict.                         *)
LEMMA ResultStep ==
  ASSUME OInv, NEW u \in Trials, TrialStep(u)
  PROVE ResultInv' /\ FreshInv'
<1> SUFFICES ASSUME NEW t \in Trials
             PROVE /\ pc'[t] \in RunPoints => result'[t] \in Results
                   /\ pc'[t] = "agent" => result'[t] = "running"
                   /\ result'[t] \in {"none", "running"} \/ pc'[t] \in UngradedPoints =>
                        verdict'[t] = "none"
                   /\ verdict'[t] # "none" => verdict'[t] = OutcomeOf(result'[t])
                   /\ pc'[t] \in GradedPoints => verdict'[t] = OutcomeOf(result'[t])
                   /\ pc'[t] \in {"idle", "reserve", "check_slot", "append_slot",
                                  "unlock_reserved", "workspace", "launch"} =>
                        result'[t] = "none"
  BY DEF ResultInv, FreshInv
<1> USE DEF OInv, IInv, TypeOK, LedgerTypeOK, ResultInv, FreshInv
<1>1. CASE t # u
  BY <1>1, OthersKept
<1>2. CASE t = u
  <2>1. CASE (LedgerStep(u) \/ AcquireFails(u)) /\ UNCHANGED trialVars
    <3>1. UNCHANGED <<result, reads, verdict>>
      BY <2>1 DEF LedgerStep, Acquire, AcquireFails, Release, CheckSlot, AppendSlot,
                  CheckId, AppendId
    <3>2. CASE AcquireFails(u) \/ Acquire(u) \/ Release(u)
      BY <1>2, <3>1, <3>2 DEF Acquire, AcquireFails, Release
    <3>3. CASE CheckSlot(u) \/ AppendSlot(u)
      BY <1>2, <3>1, <3>3 DEF CheckSlot, AppendSlot
    <3>4. CASE CheckId(u) \/ AppendId(u)
      BY <1>2, <3>1, <3>4 DEF CheckId, AppendId
    <3> QED BY <2>1, <3>2, <3>3, <3>4 DEF LedgerStep
  <2>2. CASE Begin(u) \/ MakeWorkspace(u) \/ Launch(u) \/ AgentReturns(u) \/ AgentTimesOut(u)
    BY <1>2, <2>2 DEF Begin, MakeWorkspace, Launch, AgentReturns, AgentTimesOut
  <2>3. CASE Writes(u) \/ AgentEnds(u) \/ WriteArtifacts(u) \/ Cleanup(u)
               \/ CodeReturns(u) \/ CodeHangs(u) \/ AgentHangs(u)
    BY <1>2, <2>3 DEF Writes, AgentEnds, WriteArtifacts, Cleanup, CodeReturns, AgentHangs,
                      CodeHangs
  <2>4. CASE ReadWorkspace(u)
    BY <1>2, <2>4 DEF ReadWorkspace
  <2>5. CASE StepRaises(u) \/ Crash(u)
    BY <1>2, <2>5 DEF StepRaises, Crash, CrashLedger, Remains
  <2> QED BY <2>1, <2>2, <2>3, <2>4, <2>5, StepCases
<1> QED BY <1>1, <1>2

(* Once its agent has completed, only its tested code changes a trial's    *)
(* files.                                                                  *)
LEMMA RestStep == ASSUME OInv, NEW u \in Trials, TrialStep(u) PROVE RestInv'
<1> SUFFICES ASSUME NEW t \in Trials
             PROVE /\ result'[t] = "completed" =>
                        ~alive'[t] /\ (~stray'[t] => RecordAtRest(t)')
                   /\ verdict'[t] = "none" => reads'[t].manifest = {}
  BY DEF RestInv
<1> USE DEF OInv, IInv, TypeOK, LedgerTypeOK, ResultInv, FreshInv, RestInv, RecordAtRest
<1>1. CASE t # u
  BY <1>1, OthersKept
<1>2. CASE t = u
  <2>1. CASE (LedgerStep(u) \/ AcquireFails(u)) /\ UNCHANGED trialVars
    BY <1>2, <2>1 DEF LedgerStep, Acquire, AcquireFails, Release, CheckSlot, AppendSlot,
                      CheckId, AppendId
  <2>2. CASE Begin(u) \/ MakeWorkspace(u) \/ Launch(u) \/ AgentReturns(u) \/ AgentTimesOut(u)
    BY <1>2, <2>2 DEF Begin, MakeWorkspace, Launch, AgentReturns, AgentTimesOut
  <2>3. CASE AgentEnds(u) \/ WriteArtifacts(u) \/ Cleanup(u) \/ CodeReturns(u)
               \/ CodeHangs(u) \/ AgentHangs(u)
    BY <1>2, <2>3 DEF AgentEnds, WriteArtifacts, Cleanup, CodeReturns, CodeHangs, AgentHangs
  <2>4. CASE Writes(u)
    BY <1>2, <2>4 DEF Writes
  <2>5. CASE ReadWorkspace(u)
    <3>1. PICK step \in DOMAIN Reading :
            Go(u, step, Reading[step]) /\ reads' = [reads EXCEPT ![u][step] = {version[u]}]
      BY <2>5 DEF ReadWorkspace
    <3>2. /\ pc[u] = step /\ pc'[u] = Reading[step]
          /\ step \in {"observe", "tests", "verify", "grade", "manifest"}
          /\ \A s \in {"observe", "tests", "verify", "grade", "manifest"} :
               reads'[u][s] = IF s = step THEN {version[u]} ELSE reads[u][s]
      BY <3>1
    <3>3. UNCHANGED <<result, alive, stray, version>>
      BY <2>5 DEF ReadWorkspace
    <3>4. verdict'[u] = IF step = "grade" THEN OutcomeOf(result[u]) ELSE verdict[u]
      BY <2>5, <3>2 DEF ReadWorkspace
    <3>5. CASE step = "observe"
      BY <1>2, <3>2, <3>3, <3>4, <3>5
    <3>6. CASE step = "tests"
      <4>1. /\ reads'[u].tests = {version[u]} /\ reads'[u].observe = reads[u].observe
            /\ reads'[u].manifest = reads[u].manifest
            /\ pc'[u] = "testing" /\ verdict[u] = "none" /\ verdict'[u] = "none"
        BY <3>2, <3>4, <3>6
      <4>2. result[u] = "completed" /\ ~stray[u] => reads[u].observe = {version[u]}
        BY <3>2, <3>6
      <4>3. ~stray'[u] => RecordAtRest(u)' \/ result'[u] # "completed"
        BY <3>3, <4>1, <4>2
      <4> QED BY <1>2, <3>3, <4>1, <4>3
    <3>7. CASE step = "verify"
      BY <1>2, <3>2, <3>3, <3>4, <3>7
    <3>8. CASE step = "grade"
      BY <1>2, <3>2, <3>3, <3>4, <3>8
    <3>9. CASE step = "manifest"
      BY <1>2, <3>2, <3>3, <3>4, <3>9
    <3> QED BY <3>2, <3>5, <3>6, <3>7, <3>8, <3>9
  <2>6. CASE StepRaises(u) \/ Crash(u)
    BY <1>2, <2>6 DEF StepRaises, Crash, CrashLedger, Remains
  <2> QED BY <2>1, <2>2, <2>3, <2>4, <2>5, <2>6, StepCases
<1> QED BY <1>1, <1>2

(* Only the append of consume makes a consumption, and after it the trial  *)
(* goes nowhere but to its end.                                            *)
LEMMA NewConsumption ==
  ASSUME OInv, NEW u \in Trials, TrialStep(u), NEW t \in Trials,
         Holds("consumption", t)', ~Holds("consumption", t)
  PROVE t = u /\ pc[u] = "append_id"
<1>1. Len(lines) \in Nat
  BY DEF OInv, IInv, TypeOK, LedgerTypeOK
<1>2. PICK i \in 1..Len(lines') : lines'[i].kind = "consumption" /\ lines'[i].trial = t
  BY DEF Holds
<1>3. i \notin 1..Len(lines)
  BY <1>2, HoldsKept DEF OInv, IInv, Holds
<1>4. Len(lines') = Len(lines) + 1 /\ i = Len(lines')
  BY <1>1, <1>2, <1>3, HoldsKept DEF OInv, IInv
<1>5. /\ Reservation(u).kind = "reservation"
      /\ Consumption(u).trial = u
  BY DEF Reservation, Consumption
<1>6. TypeOK
  BY DEF OInv, IInv
<1> QED BY <1>2, <1>4, <1>5, <1>6, NewRecord

LEMMA ConsumedStep == ASSUME OInv, NEW u \in Trials, TrialStep(u) PROVE ConsumedInv'
<1> SUFFICES ASSUME NEW t \in Trials
             PROVE /\ pc'[t] \in {"consume", "check_id", "append_id"} =>
                        artifacts'[t] = "complete"
                   /\ Holds("consumption", t)' =>
                        /\ pc'[t] \in {"unlock_consumed", "unlock_failed", "cleanup"}
                                        \cup Ended
                        /\ artifacts'[t] = "complete"
                        /\ result'[t] \in Results
  BY DEF ConsumedInv
<1> DEFINE consumed == Holds("consumption", t)
<1>1. consumed' => consumed \/ (t = u /\ pc[u] = "append_id")
  BY NewConsumption
<1>2. pc[u] = "append_id" => ~Holds("consumption", u)
  BY DEF OInv, ConsumedInv
<1> HIDE DEF consumed
<1>3. /\ pc[t] \in {"consume", "check_id", "append_id"} => artifacts[t] = "complete"
      /\ consumed =>
           /\ pc[t] \in {"unlock_consumed", "unlock_failed", "cleanup"} \cup Ended
           /\ artifacts[t] = "complete"
           /\ result[t] \in Results
  BY DEF OInv, ConsumedInv, consumed
<1>4. TypeOK /\ ResultInv
  BY DEF OInv, IInv
<1>5. /\ pc'[t] \in {"consume", "check_id", "append_id"} => artifacts'[t] = "complete"
      /\ consumed' =>
           /\ pc'[t] \in {"unlock_consumed", "unlock_failed", "cleanup"} \cup Ended
           /\ artifacts'[t] = "complete"
           /\ result'[t] \in Results
  <2> USE <1>1, <1>3, <1>4 DEF TypeOK, LedgerTypeOK, ResultInv
  <2>1. CASE t # u
    BY <2>1, OthersKept
  <2>2. CASE t = u
    <3> USE <2>2
    <3>1. CASE (LedgerStep(u) \/ AcquireFails(u)) /\ UNCHANGED trialVars
      BY <3>1 DEF LedgerStep, Acquire, AcquireFails, Release, CheckSlot, AppendSlot,
                  CheckId, AppendId
    <3>2. CASE Begin(u) \/ MakeWorkspace(u) \/ Launch(u) \/ AgentReturns(u)
                 \/ AgentTimesOut(u)
      BY <3>2 DEF Begin, MakeWorkspace, Launch, AgentReturns, AgentTimesOut
    <3>7. CASE Writes(u) \/ AgentEnds(u)
      <4>1. pc' = pc /\ artifacts' = artifacts /\ result' = result
        BY <3>7 DEF Writes, AgentEnds, ledgerVars
      <4>2. consumed' <=> consumed
        BY <3>7 DEF Writes, AgentEnds, ledgerVars, consumed, Holds
      <4> QED BY <4>1, <4>2
    <3>3. CASE CodeReturns(u) \/ CodeHangs(u) \/ AgentHangs(u)
      BY <3>3 DEF CodeReturns, AgentHangs, CodeHangs
    <3>6. CASE WriteArtifacts(u) \/ Cleanup(u)
      BY <3>6 DEF WriteArtifacts, Cleanup
    <3>4. CASE ReadWorkspace(u)
      BY <3>4 DEF ReadWorkspace
    <3>5. CASE StepRaises(u) \/ Crash(u)
      BY <3>5 DEF StepRaises, Crash, CrashLedger, Remains
    <3> QED BY <3>1, <3>2, <3>3, <3>4, <3>5, <3>6, <3>7, StepCases
  <2> QED BY <2>1, <2>2
<1> QED BY <1>5 DEF consumed

(* A trial that has consumed keeps its artifacts and its result.           *)
LEMMA Settled ==
  ASSUME OInv, NEW u \in Trials, TrialStep(u), NEW t \in Trials, Holds("consumption", t)
  PROVE result'[t] = result[t] /\ artifacts'[t] = artifacts[t]
<1>1. pc[t] \in {"unlock_consumed", "unlock_failed", "cleanup"} \cup Ended
  BY DEF OInv, ConsumedInv
<1>2. CASE t # u
  BY <1>2, OthersKept DEF OInv, IInv
<1>3. CASE t = u
  BY <1>1, <1>3, StepCases
     DEF OInv, IInv, TypeOK, LedgerStep, Acquire, AcquireFails, Release, CheckSlot,
         AppendSlot, CheckId, AppendId, Begin, MakeWorkspace, Launch, AgentReturns,
         AgentTimesOut, Writes, AgentEnds, ReadWorkspace, WriteArtifacts, Cleanup,
         StepRaises, CodeReturns, AgentHangs, CodeHangs, Crash, Remains
<1> QED BY <1>2, <1>3

(* A consumption follows its reservation, alone, and records the verdict.  *)
LEMMA FaithfulStep == ASSUME OInv, NEW u \in Trials, TrialStep(u) PROVE ConsumedFaithful'
<1>1. /\ Len(lines) \in Nat
      /\ Len(lines') \in {Len(lines), Len(lines) + 1}
      /\ \A i \in 1..Len(lines) : lines'[i] = lines[i]
      /\ TypeOK
  BY HoldsKept DEF OInv, IInv, TypeOK, LedgerTypeOK
<1> SUFFICES ASSUME NEW i \in 1..Len(lines'), lines'[i].kind = "consumption",
                    NEW t \in Trials, t = lines'[i].trial
             PROVE /\ \E j \in 1..i-1 :
                        lines'[j].kind = "reservation" /\ lines'[j].trial = t
                   /\ \A j \in 1..i-1 :
                        ~(lines'[j].kind = "consumption" /\ lines'[j].trial = t)
                   /\ artifacts'[t] = "complete"
                   /\ lines'[i].outcome = "behavioral" <=> result'[t] = "completed"
  <2>1. TypeOK'
    BY <1>1, TypeStep
  <2>2. \A k \in 1..Len(lines') : lines'[k] \in LineType
    BY <2>1 DEF TypeOK, LedgerTypeOK
  <2>3. \A k \in 1..Len(lines') : lines'[k].trial \in Trials
    BY <2>2 DEF LineType
  <2> QED BY <2>3 DEF ConsumedFaithful, IsReservation, IsConsumption
<1>2. CASE i \in 1..Len(lines)
  <2>1. lines'[i] = lines[i] /\ \A j \in 1..i-1 : lines'[j] = lines[j]
    BY <1>1, <1>2
  <2>2. Holds("consumption", t)
    BY <1>2, <2>1 DEF Holds
  <2>3. result'[t] = result[t] /\ artifacts'[t] = artifacts[t]
    BY <2>2, Settled
  <2>4. /\ \E j \in 1..i-1 : lines[j].kind = "reservation" /\ lines[j].trial = t
        /\ \A j \in 1..i-1 : ~(lines[j].kind = "consumption" /\ lines[j].trial = t)
        /\ artifacts[t] = "complete"
        /\ lines[i].outcome = "behavioral" <=> result[t] = "completed"
    BY <1>2, <2>1 DEF OInv, ConsumedFaithful, IsReservation, IsConsumption
  <2> QED BY <2>1, <2>3, <2>4
<1>3. CASE i = Len(lines) + 1
  <2>1. pc[u] = "append_id" /\ lines'[i] = Consumption(u)
    <3>1. Reservation(u).kind = "reservation"
      BY DEF Reservation
    <3> QED BY <1>1, <1>3, <3>1, NewRecord
  <2>2. t = u
    BY <2>1 DEF Consumption
  <2>3. Unconsumed(u) /\ \A j \in 1..i-1 : lines'[j] = lines[j]
    BY <1>1, <1>3, <2>1 DEF OInv, IInv, CheckHolds
  <2>4. /\ \E j \in 1..i-1 : lines'[j].kind = "reservation" /\ lines'[j].trial = t
        /\ \A j \in 1..i-1 : ~(lines'[j].kind = "consumption" /\ lines'[j].trial = t)
    BY <1>1, <1>3, <2>2, <2>3 DEF Unconsumed, Holds
  <2>5. artifacts[u] = "complete" /\ verdict[u] = OutcomeOf(result[u])
    BY <2>1 DEF OInv, ConsumedInv, ResultInv
  <2>6. result'[u] = result[u] /\ artifacts'[u] = artifacts[u]
    BY <2>1, StepCases
       DEF OInv, IInv, TypeOK, LedgerStep, Acquire, AcquireFails, Release, CheckSlot,
           AppendSlot, CheckId, AppendId, Begin, MakeWorkspace, Launch, AgentReturns,
           AgentTimesOut, Writes, AgentEnds, ReadWorkspace, WriteArtifacts, Cleanup,
           StepRaises, CodeReturns, AgentHangs, CodeHangs, Crash, Remains
  <2>7. lines'[i].outcome = verdict[u]
    BY <2>1 DEF Consumption
  <2> QED BY <2>2, <2>4, <2>5, <2>6, <2>7
<1> QED BY <1>1, <1>2, <1>3

-----------------------------------------------------------------------------

(* The invariant is kept by every step.                                    *)
LEMMA OutcomeNext == OInv /\ [Next]_vars => OInv'
<1> SUFFICES ASSUME OInv, [Next]_vars PROVE OInv'
  OBVIOUS
<1>1. IInv'
  BY NextOK DEF OInv
<1>2. ASSUME NEW u \in Trials, TrialStep(u) PROVE OInv'
  BY <1>1, <1>2, ResultStep, RestStep, ConsumedStep, FaithfulStep DEF OInv
<1>3. CASE UNCHANGED vars
  <2> USE <1>3 DEF vars, OInv
  <2>1. ResultInv' /\ FreshInv' /\ RestInv'
    BY DEF ResultInv, FreshInv, RestInv, RecordAtRest
  <2>2. ConsumedInv'
    BY DEF ConsumedInv, Holds
  <2>3. ConsumedFaithful'
    BY DEF ConsumedFaithful, IsReservation, IsConsumption
  <2> QED BY <1>1, <2>1, <2>2, <2>3
<1> QED BY <1>2, <1>3 DEF Next

THEOREM OutcomeInvariance == Spec => []OInv
BY OutcomeInit, OutcomeNext, PTL DEF Spec

(* Every consumption is backed by the complete artifacts of the one run    *)
(* its reservation had, and has that run's outcome class.                  *)
THEOREM ConsumedFaithfulAlways == Spec => []ConsumedFaithful
BY OutcomeInvariance, PTL DEF OInv

(* The agent of a behavioral outcome has ended, and if it and its code left *)
(* nothing behind, its tests began with the files the observer had seen    *)
(* and its diff and its final manifest tell of the same files.             *)
THEOREM BehavioralAtRestAlways == Spec => []BehavioralAtRest
<1>1. OInv => BehavioralAtRest
  <2> SUFFICES ASSUME OInv, NEW t \in Trials, verdict[t] = "behavioral"
               PROVE  ~alive[t] /\ (~stray[t] => RecordAtRest(t))
    BY DEF BehavioralAtRest, RecordAtRest
  <2>1. result[t] = "completed"
    BY DEF OInv, ResultInv
  <2> QED BY <2>1 DEF OInv, RestInv
<1> QED BY <1>1, OutcomeInvariance, PTL

-----------------------------------------------------------------------------
(* The contract of a slot.                                                 *)

\* A slot is consumed once.
OneConsumption ==
  \A i, j \in 1..Len(lines) :
    /\ lines[i].kind = "consumption" /\ lines[j].kind = "consumption"
    /\ lines[i].slot = lines[j].slot
    => i = j

CInv == OInv /\ SlotRunOnce /\ OneConsumption

\* What the contract calls the result of a run.
RunState(status) == IF status \in Failures THEN "failed" ELSE status

ContractStep == Contract!ContractNext \/ UNCHANGED Contract!contractVars

-----------------------------------------------------------------------------

(* A slot has been reserved for one trial.                                 *)
LEMMA OneHolder ==
  ASSUME OInv, NEW t \in Trials, NEW v \in Trials, SlotOf[t] = SlotOf[v],
         Holds("reservation", t), Holds("reservation", v)
  PROVE t = v
BY DEF OInv, IInv, OneReservation, Holds

(* A consumption is of the slot of a trial that has reserved it.           *)
LEMMA ConsumerHolds ==
  ASSUME OInv, NEW i \in 1..Len(lines), lines[i].kind = "consumption"
  PROVE /\ lines[i].trial \in Trials
        /\ lines[i].slot = SlotOf[lines[i].trial]
        /\ Holds("reservation", lines[i].trial)
        /\ Holds("consumption", lines[i].trial)
<1>1. lines[i] \in LineType /\ Len(lines) \in Nat
  BY DEF OInv, IInv, TypeOK, LedgerTypeOK
<1>2. lines[i].trial \in Trials
  BY <1>1 DEF LineType
<1>3. lines[i].slot = SlotOf[lines[i].trial]
  BY DEF OInv, IInv, OneReservation
<1>4. Holds("reservation", lines[i].trial)
  BY <1>1 DEF OInv, ConsumedFaithful, IsConsumption, IsReservation, Holds
<1> QED BY <1>2, <1>3, <1>4 DEF Holds

(* The invariant follows from what is proved of the outcomes.              *)
LEMMA ContractInvariance == Spec => []CInv
<1>1. OInv => SlotRunOnce
  BY DEF OInv, IInv, ReservedFirst, OneReservation, Holds, SlotRunOnce
<1>2. ASSUME OInv PROVE OneConsumption
  <2> SUFFICES ASSUME NEW i \in 1..Len(lines), NEW j \in 1..Len(lines),
                      lines[i].kind = "consumption", lines[j].kind = "consumption",
                      lines[i].slot = lines[j].slot
               PROVE i = j
    BY DEF OneConsumption
  <2>1. lines[i].trial = lines[j].trial
    BY <1>2, ConsumerHolds, OneHolder
  <2>2. Len(lines) \in Nat
    BY <1>2 DEF OInv, IInv, TypeOK, LedgerTypeOK
  <2>3. ~(i \in 1..j-1) /\ ~(j \in 1..i-1)
    BY <1>2, <2>1 DEF OInv, ConsumedFaithful, IsConsumption
  <2> QED BY <2>2, <2>3
<1> QED BY <1>1, <1>2, OutcomeInvariance, PTL DEF CInv

-----------------------------------------------------------------------------
(* The contract's view of a state.                                         *)

(* A consumed slot has the outcome of its consumption.                     *)
LEMMA ClaimSettled ==
  ASSUME CInv, NEW i \in 1..Len(lines), lines[i].kind = "consumption"
  PROVE ClaimOf(lines[i].slot) = lines[i].outcome
<1> DEFINE settled == {j \in 1..Len(lines) : IsConsumption(j) /\ lines[j].slot = lines[i].slot}
<1>1. settled = {i}
  BY DEF CInv, OneConsumption, IsConsumption
<1>2. (CHOOSE j \in settled : TRUE) = i
  BY <1>1
<1> QED BY <1>1, <1>2 DEF ClaimOf

(* Any other slot is claimed when it is taken.                             *)
LEMMA ClaimOpen ==
  ASSUME NEW s, \A i \in 1..Len(lines) : lines[i].kind = "consumption" => lines[i].slot # s
  PROVE ClaimOf(s) = IF Taken(s) THEN "claimed" ELSE "free"
<1> DEFINE settled == {i \in 1..Len(lines) : IsConsumption(i) /\ lines[i].slot = s}
<1>1. settled = {}
  BY DEF IsConsumption
<1> QED BY <1>1 DEF ClaimOf

(* A slot has the run of the one trial that ran it.                        *)
LEMMA RunStarted ==
  ASSUME CInv, NEW t \in Trials, result[t] \notin {"none", "blocked"}
  PROVE RunOf(SlotOf[t]) = RunState(result[t])
<1> DEFINE ran == {v \in TrialsOf(SlotOf[t]) : result[v] \notin {"none", "blocked"}}
<1>1. ran = {t}
  BY DEF CInv, SlotRunOnce, TrialsOf
<1>2. (CHOOSE v \in ran : TRUE) = t
  BY <1>1
<1> QED BY <1>1, <1>2 DEF RunOf, RunState

LEMMA RunNever ==
  ASSUME NEW s, \A t \in Trials : SlotOf[t] = s => result[t] \in {"none", "blocked"}
  PROVE RunOf(s) = "none"
<1> DEFINE ran == {v \in TrialsOf(s) : result[v] \notin {"none", "blocked"}}
<1>1. ran = {}
  BY DEF TrialsOf
<1> QED BY <1>1 DEF RunOf

-----------------------------------------------------------------------------
(* The steps of a trial, as the contract sees them.                        *)

(* While the file keeps its records, every claim keeps its state.          *)
LEMMA ClaimKept == ASSUME UNCHANGED lines, NEW s PROVE ClaimOf(s)' = ClaimOf(s)
BY DEF ClaimOf, Taken, IsConsumption

(* While the results stay, every run keeps its state.                      *)
LEMMA RunKept == ASSUME UNCHANGED result, NEW s PROVE RunOf(s)' = RunOf(s)
BY DEF RunOf, TrialsOf

(* A new record changes the claim of no slot but its own.                  *)
LEMMA OtherClaims ==
  ASSUME TypeOK, NEW u \in Trials, TrialStep(u), Len(lines') = Len(lines) + 1,
         NEW s, lines'[Len(lines')].slot # s
  PROVE ClaimOf(s)' = ClaimOf(s)
<1> DEFINE settled == {i \in 1..Len(lines) : lines[i].kind = "consumption" /\ lines[i].slot = s}
           later == {i \in 1..Len(lines') :
                       lines'[i].kind = "consumption" /\ lines'[i].slot = s}
<1>1. Len(lines) \in Nat /\ \A i \in 1..Len(lines) : lines'[i] = lines[i]
  BY HoldsKept DEF TypeOK, LedgerTypeOK
<1>2. \A i \in 1..Len(lines') : i \in 1..Len(lines) \/ i = Len(lines')
  BY <1>1
<1>3. 1..Len(lines) \subseteq 1..Len(lines')
  BY <1>1
<1>4. later = settled
  BY <1>1, <1>2, <1>3
<1>5. Taken(s)' <=> Taken(s)
  BY <1>1, <1>2, <1>3 DEF Taken
<1>6. ClaimOf(s) = IF settled # {} THEN lines[CHOOSE i \in settled : TRUE].outcome
                   ELSE IF Taken(s) THEN "claimed" ELSE "free"
  BY DEF ClaimOf, IsConsumption
<1>7. ClaimOf(s)' = IF later # {} THEN lines'[CHOOSE i \in later : TRUE].outcome
                    ELSE IF Taken(s)' THEN "claimed" ELSE "free"
  BY DEF ClaimOf, IsConsumption
<1>8. settled # {} => (CHOOSE i \in settled : TRUE) \in settled
  OBVIOUS
<1>9. settled # {} => lines'[CHOOSE i \in settled : TRUE] = lines[CHOOSE i \in settled : TRUE]
  BY <1>1, <1>8
<1> HIDE DEF settled, later
<1> QED BY <1>4, <1>5, <1>6, <1>7, <1>9

(* A reservation claims a slot that was free.                              *)
LEMMA Claims ==
  ASSUME CInv, NEW u \in Trials, TrialStep(u), Len(lines') = Len(lines) + 1,
         pc[u] = "append_slot", lines'[Len(lines')] = Reservation(u)
  PROVE ClaimOf(SlotOf[u]) = "free" /\ ClaimOf(SlotOf[u])' = "claimed"
<1>1. /\ Len(lines) \in Nat
      /\ \A i \in 1..Len(lines) : lines'[i] = lines[i]
      /\ TypeOK /\ OInv
  BY HoldsKept DEF CInv, OInv, IInv, TypeOK, LedgerTypeOK
<1>2. ~Taken(SlotOf[u])
  BY DEF CInv, OInv, IInv, CheckHolds
<1>3. ASSUME NEW i \in 1..Len(lines), lines[i].kind = "consumption"
      PROVE lines[i].slot # SlotOf[u]
  <2>1. Holds("reservation", lines[i].trial) /\ lines[i].slot = SlotOf[lines[i].trial]
    BY <1>1, <1>3, ConsumerHolds
  <2>2. PICK j \in 1..Len(lines) :
               lines[j].kind = "reservation" /\ lines[j].trial = lines[i].trial
    BY <2>1 DEF Holds
  <2>3. lines[j].slot = lines[i].slot
    BY <2>1, <2>2 DEF CInv, OInv, IInv, OneReservation
  <2> QED BY <1>2, <2>2, <2>3 DEF Taken
<1>4. ClaimOf(SlotOf[u]) = "free"
  BY <1>2, <1>3, ClaimOpen
<1>5. \A i \in 1..Len(lines') : lines'[i].kind = "consumption" => lines'[i].slot # SlotOf[u]
  <2>1. Reservation(u).kind = "reservation"
    BY DEF Reservation
  <2>2. \A i \in 1..Len(lines') : i \in 1..Len(lines) \/ i = Len(lines')
    BY <1>1
  <2> QED BY <1>1, <1>3, <2>1, <2>2
<1>6. Taken(SlotOf[u])'
  <2>1. Len(lines') \in 1..Len(lines')
    BY <1>1
  <2> QED BY <2>1 DEF Taken, Reservation
<1>7. ClaimOf(SlotOf[u])' = "claimed"
  <2> DEFINE later == {i \in 1..Len(lines') :
                         lines'[i].kind = "consumption" /\ lines'[i].slot = SlotOf[u]}
  <2>1. later = {}
    BY <1>5
  <2> QED BY <1>6, <2>1 DEF ClaimOf, IsConsumption
<1> QED BY <1>4, <1>7

(* A consumption settles a claimed slot with the outcome of its run.       *)
LEMMA Settles ==
  ASSUME CInv, CInv', NEW u \in Trials, TrialStep(u), Len(lines') = Len(lines) + 1,
         pc[u] = "append_id", lines'[Len(lines')] = Consumption(u)
  PROVE /\ ClaimOf(SlotOf[u]) = "claimed"
        /\ ClaimOf(SlotOf[u])' = OutcomeOf(result[u])
        /\ result[u] \in Results
<1> DEFINE n == Len(lines')
<1>1. /\ Len(lines) \in Nat
      /\ \A i \in 1..Len(lines) : lines'[i] = lines[i]
      /\ TypeOK /\ OInv
  <2>1. TypeOK /\ OInv
    BY DEF CInv, OInv, IInv
  <2>2. Len(lines) \in Nat
    BY <2>1 DEF TypeOK, LedgerTypeOK
  <2> QED BY <2>1, <2>2, HoldsKept
<1>2. n \in 1..n /\ \A i \in 1..Len(lines) : i \in 1..n /\ i # n
  BY <1>1
<1>3. lines'[n].kind = "consumption" /\ lines'[n].slot = SlotOf[u] /\ lines'[n].outcome = verdict[u]
  BY DEF Consumption
<1>4. \A i \in 1..n : lines'[i].kind = "consumption" /\ lines'[i].slot = SlotOf[u] => i = n
  BY <1>2, <1>3 DEF CInv, OneConsumption
<1>5. ClaimOf(SlotOf[u]) = "claimed"
  <2>1. Holds("reservation", u)
    BY DEF CInv, OInv, IInv, ReservedFirst
  <2>2. Taken(SlotOf[u])
    BY <2>1 DEF CInv, OInv, IInv, OneReservation, Holds, Taken
  <2>3. \A i \in 1..Len(lines) : lines[i].kind = "consumption" => lines[i].slot # SlotOf[u]
    BY <1>1, <1>2, <1>4
  <2> QED BY <2>2, <2>3, ClaimOpen
<1>6. ClaimOf(SlotOf[u])' = verdict[u]
  <2> DEFINE later == {i \in 1..n :
                         lines'[i].kind = "consumption" /\ lines'[i].slot = SlotOf[u]}
  <2>1. later = {n}
    BY <1>2, <1>3, <1>4
  <2>2. (CHOOSE i \in later : TRUE) = n
    BY <2>1
  <2>3. ClaimOf(SlotOf[u])' = IF later # {} THEN lines'[CHOOSE i \in later : TRUE].outcome
                              ELSE IF Taken(SlotOf[u])' THEN "claimed" ELSE "free"
    BY DEF ClaimOf, IsConsumption
  <2> QED BY <1>3, <2>1, <2>2, <2>3
<1>7. verdict[u] = OutcomeOf(result[u]) /\ result[u] \in Results
  BY DEF CInv, OInv, ResultInv
<1> QED BY <1>5, <1>6, <1>7

(* A trial whose agent is not running is settled like its run.             *)
LEMMA RunResult ==
  ASSUME CInv, NEW u \in Trials, result[u] \in Results
  PROVE /\ RunOf(SlotOf[u]) # "running"
        /\ RunOf(SlotOf[u]) = "completed" <=> result[u] = "completed"
<1>1. CASE result[u] = "blocked"
  <2>1. \A t \in Trials : SlotOf[t] = SlotOf[u] => result[t] \in {"none", "blocked"}
    BY <1>1 DEF CInv, SlotRunOnce
  <2>2. RunOf(SlotOf[u]) = "none"
    BY <2>1, RunNever
  <2> QED BY <1>1, <2>2
<1>2. CASE result[u] # "blocked"
  <2>1. RunOf(SlotOf[u]) = RunState(result[u])
    BY <1>2, RunStarted
  <2> QED BY <1>2, <2>1 DEF RunState
<1> QED BY <1>1, <1>2

(* The steps that change the ledger's records claim or settle a slot.      *)
LEMMA LedgerContract ==
  ASSUME CInv, CInv', NEW u \in Trials, TrialStep(u), UNCHANGED result
  PROVE ContractStep
<1> DEFINE s == SlotOf[u]
           claimed == [r \in Slots |-> ClaimOf(r)]
           running == [r \in Slots |-> RunOf(r)]
<1>1. TypeOK /\ s \in Slots
  BY DEF CInv, OInv, IInv
<1>2. running' = running
  BY RunKept
<1>3. CASE lines' = lines
  <2>1. claimed' = claimed
    BY <1>3, ClaimKept
  <2> QED BY <1>2, <2>1 DEF ContractStep, Contract!contractVars
<1>4. CASE Len(lines') = Len(lines) + 1
  <2>1. CASE pc[u] = "append_slot" /\ lines'[Len(lines')] = Reservation(u)
    <3>1. claimed[s] = "free" /\ claimed'[s] = "claimed"
      BY <1>1, <1>4, <2>1, Claims
    <3>2. \A r \in Slots : r # s => claimed'[r] = claimed[r]
      BY <1>1, <1>4, <2>1, OtherClaims DEF Reservation
    <3>3. claimed' = [claimed EXCEPT ![s] = "claimed"]
      BY <3>1, <3>2
    <3> HIDE DEF s, claimed, running
    <3> QED BY <1>1, <1>2, <3>1, <3>3
            DEF ContractStep, Contract!ContractNext, Contract!ClaimSlot, claimed, running
  <2>2. CASE pc[u] = "append_id" /\ lines'[Len(lines')] = Consumption(u)
    <3>1. /\ claimed[s] = "claimed"
          /\ claimed'[s] = OutcomeOf(result[u])
          /\ result[u] \in Results
      BY <1>1, <1>4, <2>2, Settles
    <3>2. running[s] # "running" /\ (running[s] = "completed" <=> result[u] = "completed")
      BY <1>1, <3>1, RunResult
    <3>3. \A r \in Slots : r # s => claimed'[r] = claimed[r]
      BY <1>1, <1>4, <2>2, OtherClaims DEF Consumption
    <3>4. claimed' = [claimed EXCEPT ![s] = IF running[s] = "completed" THEN "behavioral"
                                            ELSE "infrastructure_censored"]
      BY <3>1, <3>2, <3>3
    <3> HIDE DEF s, claimed, running
    <3> QED BY <1>1, <1>2, <3>1, <3>2, <3>4
            DEF ContractStep, Contract!ContractNext, Contract!Settle, claimed, running
  <2> QED BY <1>1, <1>4, <2>1, <2>2, NewRecord
<1>5. lines \in Seq(LineType) /\ (lines' = lines \/ Len(lines') = Len(lines) + 1)
  <2>1. lines \in Seq(LineType)
    BY <1>1 DEF TypeOK, LedgerTypeOK
  <2> QED BY <1>1, <2>1, FileStep, RecordTypes
<1> QED BY <1>3, <1>4, <1>5

(* A launch starts the slot's run, or none when the gate blocks it.        *)
LEMMA LaunchContract ==
  ASSUME CInv, CInv', NEW u \in Trials, Launch(u)
  PROVE ContractStep
<1> DEFINE s == SlotOf[u]
           claimed == [r \in Slots |-> ClaimOf(r)]
           running == [r \in Slots |-> RunOf(r)]
<1>1. TypeOK /\ OInv /\ s \in Slots /\ pc[u] = "launch" /\ UNCHANGED lines
  BY DEF CInv, OInv, IInv, Launch
<1>2. claimed' = claimed
  BY <1>1, ClaimKept
<1>3. /\ result[u] = "none" /\ result'[u] \in {"running", "blocked"}
      /\ \A t \in Trials \ {u} : result'[t] = result[t]
  BY <1>1 DEF Launch, TypeOK, OInv, FreshInv
<1>4. \A t \in Trials : SlotOf[t] = s /\ t # u => result[t] = "none"
  BY <1>1, OneHolder DEF OInv, IInv, ReservedFirst
<1>5. \A r \in Slots : r # s => running'[r] = running[r]
  <2> SUFFICES ASSUME NEW r \in Slots, r # s PROVE RunOf(r)' = RunOf(r)
    OBVIOUS
  <2> DEFINE ran == {t \in Trials : SlotOf[t] = r /\ result[t] \notin {"none", "blocked"}}
             later == {t \in Trials : SlotOf[t] = r /\ result'[t] \notin {"none", "blocked"}}
  <2>1. later = ran /\ (ran # {} => (CHOOSE t \in ran : TRUE) \in ran)
    BY <1>3
  <2>2. \A t \in ran : result'[t] = result[t]
    BY <1>3
  <2>3. TrialsOf(r) = {t \in Trials : SlotOf[t] = r}
    BY DEF TrialsOf
  <2>4. /\ {t \in TrialsOf(r) : result[t] \notin {"none", "blocked"}} = ran
        /\ {t \in TrialsOf(r) : result'[t] \notin {"none", "blocked"}} = later
    BY <2>3
  <2> HIDE DEF ran, later
  <2> QED BY <2>1, <2>2, <2>4 DEF RunOf
<1>6. running[s] = "none"
  BY <1>3, <1>4, RunNever
<1>7. CASE result'[u] = "blocked"
  <2>1. \A t \in Trials : SlotOf[t] = s => result'[t] \in {"none", "blocked"}
    BY <1>3, <1>4, <1>7
  <2> DEFINE later == {t \in TrialsOf(s) : result'[t] \notin {"none", "blocked"}}
  <2>2. later = {}
    BY <2>1 DEF TrialsOf
  <2>3. running'[s] = "none"
    BY <1>1, <2>2 DEF RunOf, TrialsOf
  <2>4. running' = running
    BY <1>5, <1>6, <2>3
  <2> QED BY <1>2, <2>4 DEF ContractStep, Contract!contractVars
<1>8. CASE result'[u] = "running"
  <2>1. claimed[s] = "claimed"
    <3>1. Holds("reservation", u)
      BY <1>1 DEF OInv, IInv, ReservedFirst
    <3>2. Taken(s)
      BY <1>1, <3>1 DEF OInv, IInv, OneReservation, Holds, Taken
    <3>3. ASSUME NEW i \in 1..Len(lines), lines[i].kind = "consumption", lines[i].slot = s
          PROVE FALSE
      <4>1. lines[i].trial = u /\ Holds("consumption", u)
        BY <1>1, <3>1, <3>3, ConsumerHolds, OneHolder
      <4> QED BY <1>1, <4>1 DEF OInv, ConsumedInv
    <3> QED BY <1>1, <3>2, <3>3, ClaimOpen
  <2> DEFINE later == {t \in TrialsOf(s) : result'[t] \notin {"none", "blocked"}}
  <2>2. later = {u} /\ (CHOOSE t \in later : TRUE) = u
    <3>1. later = {u}
      BY <1>3, <1>4, <1>8 DEF TrialsOf
    <3> QED BY <3>1
  <2>3. TrialsOf(s)' = TrialsOf(s)
    BY DEF TrialsOf
  <2>4. RunOf(s)' = "running"
    BY <1>8, <2>2, <2>3 DEF RunOf
  <2>5. running' = [running EXCEPT ![s] = "running"]
    BY <1>1, <1>5, <2>4
  <2> HIDE DEF s, claimed, running
  <2> QED BY <1>1, <1>2, <1>6, <2>1, <2>5
          DEF ContractStep, Contract!ContractNext, Contract!StartRun, claimed, running
<1> QED BY <1>3, <1>7, <1>8

(* The agent's return, or its timeout, ends the slot's run.                *)
LEMMA ReturnContract ==
  ASSUME CInv, CInv', NEW u \in Trials, AgentReturns(u) \/ AgentTimesOut(u)
  PROVE ContractStep
<1> DEFINE s == SlotOf[u]
           claimed == [r \in Slots |-> ClaimOf(r)]
           running == [r \in Slots |-> RunOf(r)]
<1>1. TypeOK /\ OInv /\ s \in Slots /\ pc[u] = "agent" /\ UNCHANGED lines
  BY DEF CInv, OInv, IInv, AgentReturns, AgentTimesOut
<1>2. claimed' = claimed
  BY <1>1, ClaimKept
<1>3. /\ result[u] = "running"
      /\ result'[u] \in {"completed", "provider_failure", "cli_failure", "timeout"}
      /\ \A t \in Trials \ {u} : result'[t] = result[t]
  BY <1>1 DEF AgentReturns, AgentTimesOut, TypeOK, OInv, ResultInv
<1>4. running[s] = "running"
  BY <1>3, RunStarted DEF RunState
<1>5. \A t \in Trials : SlotOf[t] = s /\ t # u => result[t] = "none"
  BY <1>3 DEF CInv, SlotRunOnce
<1>6. \A r \in Slots : r # s => running'[r] = running[r]
  <2> SUFFICES ASSUME NEW r \in Slots, r # s PROVE RunOf(r)' = RunOf(r)
    OBVIOUS
  <2> DEFINE ran == {t \in Trials : SlotOf[t] = r /\ result[t] \notin {"none", "blocked"}}
             later == {t \in Trials : SlotOf[t] = r /\ result'[t] \notin {"none", "blocked"}}
  <2>1. later = ran /\ (ran # {} => (CHOOSE t \in ran : TRUE) \in ran)
    BY <1>3
  <2>2. \A t \in ran : result'[t] = result[t]
    BY <1>3
  <2>3. TrialsOf(r) = {t \in Trials : SlotOf[t] = r}
    BY DEF TrialsOf
  <2>4. /\ {t \in TrialsOf(r) : result[t] \notin {"none", "blocked"}} = ran
        /\ {t \in TrialsOf(r) : result'[t] \notin {"none", "blocked"}} = later
    BY <2>3
  <2> HIDE DEF ran, later
  <2> QED BY <2>1, <2>2, <2>4 DEF RunOf
<1> DEFINE later == {t \in TrialsOf(s) : result'[t] \notin {"none", "blocked"}}
<1>7. later = {u} /\ (CHOOSE t \in later : TRUE) = u
  <2>1. later = {u}
    BY <1>3, <1>5 DEF TrialsOf
  <2> QED BY <2>1
<1>8. RunOf(s)' = RunState(result'[u])
  BY <1>7 DEF RunOf, TrialsOf, RunState
<1>9. running' \in {[running EXCEPT ![s] = "completed"], [running EXCEPT ![s] = "failed"]}
  <2>1. RunOf(s)' \in {"completed", "failed"}
    BY <1>3, <1>8 DEF RunState
  <2> QED BY <1>1, <1>6, <2>1
<1> HIDE DEF s, claimed, running
<1> QED BY <1>1, <1>2, <1>4, <1>9
        DEF ContractStep, Contract!ContractNext, Contract!EndRun, claimed, running

(* Whatever raises or dies, the trials of a slot claim it once, run its    *)
(* agent at most once and settle it at most once, with that run's class.   *)
THEOREM SlotsImplemented == Spec => ImplementsSlots
<1>1. Init => Contract!ContractInit
  <2> SUFFICES ASSUME Init PROVE Contract!ContractInit
    OBVIOUS
  <2>1. \A s \in Slots : ClaimOf(s) = "free"
    BY ClaimOpen DEF Init, LedgerInit, Taken
  <2>2. \A s \in Slots : RunOf(s) = "none"
    BY RunNever DEF Init
  <2> QED BY <2>1, <2>2 DEF Contract!ContractInit
<1>2. CInv /\ CInv' /\ [Next]_vars => [Contract!ContractNext]_Contract!contractVars
  <2> SUFFICES ASSUME CInv, CInv', [Next]_vars PROVE ContractStep
    BY DEF ContractStep
  <2>1. ASSUME NEW u \in Trials, TrialStep(u) PROVE ContractStep
    <3>1. CASE Launch(u)
      BY <3>1, LaunchContract
    <3>2. CASE AgentReturns(u) \/ AgentTimesOut(u)
      BY <3>2, ReturnContract
    <3>3. CASE ~(Launch(u) \/ AgentReturns(u) \/ AgentTimesOut(u))
      <4>1. UNCHANGED result
        BY <2>1, <3>3, StepCases
           DEF Begin, MakeWorkspace, Writes, AgentEnds, ReadWorkspace,
               WriteArtifacts, Cleanup, StepRaises, CodeReturns, AgentHangs, CodeHangs,
               Crash, Remains
      <4> QED BY <2>1, <4>1, LedgerContract
    <3> QED BY <3>1, <3>2, <3>3
  <2>2. CASE UNCHANGED vars
    <3>1. \A s \in Slots : ClaimOf(s)' = ClaimOf(s) /\ RunOf(s)' = RunOf(s)
      BY <2>2, ClaimKept, RunKept DEF vars
    <3> QED BY <3>1 DEF ContractStep, Contract!contractVars
  <2> QED BY <2>1, <2>2 DEF Next
<1> QED BY <1>1, <1>2, ContractInvariance, PTL DEF Spec, ImplementsSlots, Contract!ContractSpec
=============================================================================
