--------------------------- MODULE MCPaymentsApi ----------------------------
(***************************************************************************)
(* Instances of PaymentsApi for TLC.                                       *)
(***************************************************************************)
EXTENDS PaymentsApi

CONSTANTS k1, k2, t1, t2
=============================================================================
