---------------------------- MODULE TrialContract ----------------------------
(***************************************************************************)
(* What a bounded trial promises, without threads: an agent spends from a  *)
(* fixed budget while the trial is open, closing the trial lets at most    *)
(* one action through that was already under way, and a certified outcome  *)
(* claims a ledger that can no longer change.  evidence_eval's workspace   *)
(* trial is shown to implement it.                                         *)
(***************************************************************************)
EXTENDS Naturals, Sequences

CONSTANTS
  Kinds,   \* the actions that can be paid for
  Price,   \* their costs
  Budget   \* what the agent may spend

VARIABLES
  balance,  \* what is left of the budget
  ledger,   \* the paid actions with the balance after each
  phase,    \* "open", "closing" (one action under way) or "closed"
  claim     \* the published outcome: its ledger and whether it is certified

contractVars == <<balance, ledger, phase, claim>>

NoClaim == [kind |-> "none", ledger |-> <<>>]

ContractInit ==
  /\ balance = Budget
  /\ ledger = <<>>
  /\ phase = "open"
  /\ claim = NoClaim

Spend(k) ==
  /\ phase \in {"open", "closing"}
  /\ Price[k] <= balance
  /\ balance' = balance - Price[k]
  /\ ledger' = Append(ledger, [action |-> k, remaining |-> balance'])
  /\ phase' = IF phase = "open" THEN "open" ELSE "closed"
  /\ UNCHANGED claim

\* The action is paid for and fails without an entry.
Forfeit(k) ==
  /\ phase \in {"open", "closing"}
  /\ Price[k] <= balance
  /\ balance' = balance - Price[k]
  /\ phase' = IF phase = "open" THEN "open" ELSE "closed"
  /\ UNCHANGED <<ledger, claim>>

Close ==
  /\ phase = "open"
  /\ phase' \in {"closing", "closed"}
  /\ UNCHANGED <<balance, ledger, claim>>

\* The action under way is refused.
Lapse ==
  /\ phase = "closing"
  /\ phase' = "closed"
  /\ UNCHANGED <<balance, ledger, claim>>

Certify ==
  /\ phase = "closed"
  /\ claim = NoClaim
  /\ claim' = [kind |-> "certified", ledger |-> ledger]
  /\ UNCHANGED <<balance, ledger, phase>>

\* A censored outcome may miss the action that was under way.
Censor ==
  /\ phase # "open"
  /\ claim = NoClaim
  /\ \E n \in {Len(ledger) - 1, Len(ledger)} \cap Nat :
       claim' = [kind |-> "censored", ledger |-> SubSeq(ledger, 1, n)]
  /\ UNCHANGED <<balance, ledger, phase>>

ContractNext ==
  \/ \E k \in Kinds : Spend(k) \/ Forfeit(k)
  \/ Close \/ Lapse \/ Certify \/ Censor

ContractSpec == ContractInit /\ [][ContractNext]_contractVars
=============================================================================
