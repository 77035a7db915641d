------------------------- MODULE ReservationLedger -------------------------
(***************************************************************************)
(* The append-only ledger of trial slots (cursor_eval/reservation.py):     *)
(* trials append their reservation and its consumption to one JSONL file   *)
(* under an exclusive file lock.  An append may fail or be cut off by a    *)
(* crash at any byte, and a line that is no JSON makes every later         *)
(* _records() raise.  A trial stands for its reservation id: both are made *)
(* once per call of run_trial.                                             *)
(***************************************************************************)
EXTENDS Naturals, Sequences

CONSTANTS
  Trials,  \* calls of run_trial, each in a process of its own
  Slots,   \* trial keys: registration, case, model and repetition
  SlotOf,  \* the slot each trial was called for
  NoOne    \* no trial

ASSUME LedgerAssumption == SlotOf \in [Trials -> Slots] /\ NoOne \notin Trials

VARIABLES
  lines,   \* records written in full, in the order of their bytes
  tail,    \* last line: "closed", "open" (no newline) or "torn" (no JSON)
  lock,    \* holder of reservations.lock
  pc,      \* where each trial is
  verdict  \* outcome class it is about to record

fileVars   == <<lines, tail>>
ledgerVars == <<lines, tail, lock, pc, verdict>>

Outcomes == {"behavioral", "infrastructure_censored"}

Reservation(t) ==
  [kind |-> "reservation", slot |-> SlotOf[t], trial |-> t, outcome |-> "none"]
Consumption(t) ==
  [kind |-> "consumption", slot |-> SlotOf[t], trial |-> t, outcome |-> verdict[t]]

Go(t, from, to) == pc[t] = from /\ pc' = [pc EXCEPT ![t] = to]

Holds(kind, t) == \E i \in 1..Len(lines) : lines[i].kind = kind /\ lines[i].trial = t

-----------------------------------------------------------------------------
(* The file.                                                               *)

Readable == tail # "torn"

\* A record that follows an open line shares it, and neither can be parsed.
WriteRecord(r) ==
  /\ lines' = Append(lines, r)
  /\ tail' = IF tail = "closed" THEN "closed" ELSE "torn"

\* What a failed or interrupted write can leave.
WritePartly(r) ==
  \/ UNCHANGED fileVars
  \/ UNCHANGED lines /\ tail' = "torn"
  \/ lines' = Append(lines, r) /\ tail' = IF tail = "closed" THEN "open" ELSE "torn"
  \/ WriteRecord(r)

\* Slip: only consumed slots are taken.
TakenConsumed(s) ==
  \E i \in 1..Len(lines) : lines[i].kind = "consumption" /\ lines[i].slot = s

\* Only reservations carry a trial key.
Taken(s) == \E i \in 1..Len(lines) : lines[i].kind = "reservation" /\ lines[i].slot = s

-----------------------------------------------------------------------------
(* _append_lock.                                                           *)

Locked == [reserve |-> "check_slot", consume |-> "check_id"]

\* Slip: the lock is not waited for.
AcquireAlways(t) ==
  /\ \E step \in DOMAIN Locked : Go(t, step, Locked[step])
  /\ lock' = t
  /\ UNCHANGED <<fileVars, verdict>>

Acquire(t) ==
  /\ lock = NoOne
  /\ \E step \in DOMAIN Locked : Go(t, step, Locked[step])
  /\ lock' = t
  /\ UNCHANGED <<fileVars, verdict>>

\* The lock file cannot be opened.
AcquireFails(t) ==
  /\ \E step \in DOMAIN Locked : Go(t, step, "raised")
  /\ UNCHANGED <<fileVars, lock, verdict>>

Unlocked == [unlock_reserved |-> "workspace", unlock_consumed |-> "cleanup",
             unlock_failed |-> "raised"]

\* Slip: an operation that raises keeps the lock.
ReleaseReturned(t) ==
  /\ \E step \in DOMAIN Unlocked : Go(t, step, Unlocked[step])
  /\ lock' = IF pc[t] = "unlock_failed" THEN lock ELSE NoOne
  /\ UNCHANGED <<fileVars, verdict>>

Release(t) ==
  /\ \E step \in DOMAIN Unlocked : Go(t, step, Unlocked[step])
  /\ lock' = NoOne
  /\ UNCHANGED <<fileVars, verdict>>

-----------------------------------------------------------------------------
(* reserve.                                                                *)

\* The ledger cannot be read or the slot has a reservation already.
CheckSlot(t) ==
  /\ \/ Go(t, "check_slot", "append_slot") /\ Readable /\ ~Taken(SlotOf[t])
     \/ Go(t, "check_slot", "unlock_failed") /\ (~Readable \/ Taken(SlotOf[t]))
  /\ UNCHANGED <<fileVars, lock, verdict>>

\* Slip: a failed write is taken for a reservation.
AppendSlotUnchecked(t) ==
  /\ Go(t, "append_slot", "unlock_reserved")
  /\ WritePartly(Reservation(t))
  /\ UNCHANGED <<lock, verdict>>

AppendSlot(t) ==
  /\ \/ Go(t, "append_slot", "unlock_reserved") /\ WriteRecord(Reservation(t))
     \/ Go(t, "append_slot", "unlock_failed") /\ WritePartly(Reservation(t))
  /\ UNCHANGED <<lock, verdict>>

-----------------------------------------------------------------------------
(* consume.                                                                *)

\* Exactly one record has the id: the reservation, not yet consumed.
Unconsumed(t) == Holds("reservation", t) /\ ~Holds("consumption", t)

CheckId(t) ==
  /\ \/ Go(t, "check_id", "append_id") /\ Readable /\ Unconsumed(t)
     \/ Go(t, "check_id", "unlock_failed") /\ (~Readable \/ ~Unconsumed(t))
  /\ UNCHANGED <<fileVars, lock, verdict>>

AppendId(t) ==
  /\ \/ Go(t, "append_id", "unlock_consumed") /\ WriteRecord(Consumption(t))
     \/ Go(t, "append_id", "unlock_failed") /\ WritePartly(Consumption(t))
  /\ UNCHANGED <<lock, verdict>>

\* What the death of t's process leaves of the file and of the lock, which
\* the system drops.
CrashLedger(t) ==
  /\ \/ pc[t] = "append_slot" /\ WritePartly(Reservation(t))
     \/ pc[t] = "append_id" /\ WritePartly(Consumption(t))
     \/ pc[t] \notin {"append_slot", "append_id"} /\ UNCHANGED fileVars
  /\ lock' = IF lock = t THEN NoOne ELSE lock
  /\ UNCHANGED verdict

-----------------------------------------------------------------------------

LedgerStep(t) ==
  \/ Acquire(t) \/ Release(t)
  \/ CheckSlot(t) \/ AppendSlot(t)
  \/ CheckId(t) \/ AppendId(t)

LedgerInit ==
  /\ lines = <<>>
  /\ tail = "closed"
  /\ lock = NoOne
  /\ pc = [t \in Trials |-> "idle"]
  /\ verdict = [t \in Trials |-> "none"]

HoldingPoints ==
  {"check_slot", "append_slot", "check_id", "append_id",
   "unlock_reserved", "unlock_consumed", "unlock_failed"}

LineType ==
  [kind : {"reservation", "consumption"}, slot : Slots, trial : Trials,
   outcome : Outcomes \cup {"none"}]

LedgerTypeOK ==
  /\ lines \in Seq(LineType)
  /\ tail \in {"closed", "open", "torn"}
  /\ lock \in Trials \cup {NoOne}
  /\ verdict \in [Trials -> Outcomes \cup {"none"}]
=============================================================================
