-------------------------- MODULE MCPaymentLedger ---------------------------
(***************************************************************************)
(* Instances of PaymentLedger for TLC. p1 and p2 are two attempts of one   *)
(* order; p1's amount does not divide by ten, p2's is below ten.           *)
(***************************************************************************)
EXTENDS PaymentLedger

CONSTANTS o1, p1, p2, t1, t2

MCOrderOf == [p \in Payments |-> o1]
MCAmount == [p \in Payments |-> IF p = p1 THEN 25 ELSE 7]
=============================================================================
