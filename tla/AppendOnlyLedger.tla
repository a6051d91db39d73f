-------------------------- MODULE AppendOnlyLedger --------------------------
(***************************************************************************)
(* What ledger-db promises about one payment order, whatever the service   *)
(* that writes it: the order's Transactions form a growing set of steps, a *)
(* step is posted once and only after the steps it needs, and the one      *)
(* Payout row of the order appears in the same atomic transaction as the   *)
(* last of the steps that trigger it.                                      *)
(*                                                                         *)
(* PaymentLedger (service-1) is shown to implement this specification.     *)
(***************************************************************************)
EXTENDS Naturals

CONSTANTS
  Payments,   \* the payment orders
  Step,       \* the values of transaction.step
  Needs,      \* Needs[s]: the steps that must be posted before s
  PayoutOn    \* the steps that, once all posted, trigger the payout

VARIABLES
  steps,      \* steps[p]: the steps of p's Transactions
  payouts     \* payouts[p]: the number of p's Payout rows

vars == <<steps, payouts>>

Init ==
  /\ steps = [p \in Payments |-> {}]
  /\ payouts = [p \in Payments |-> 0]

\* One committed database transaction.
Post(p, s) ==
  /\ s \notin steps[p]
  /\ Needs[s] \subseteq steps[p]
  /\ steps' = [steps EXCEPT ![p] = @ \union {s}]
  /\ payouts' = IF s \in PayoutOn /\ PayoutOn \subseteq steps'[p]
                THEN [payouts EXCEPT ![p] = @ + 1]
                ELSE payouts

Next == \E p \in Payments, s \in Step : Post(p, s)

Spec == Init /\ [][Next]_vars
=============================================================================
