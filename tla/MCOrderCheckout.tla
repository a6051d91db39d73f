-------------------------- MODULE MCOrderCheckout ---------------------------
(***************************************************************************)
(* Instances of OrderCheckout for TLC.                                     *)
(***************************************************************************)
EXTENDS OrderCheckout, TLC

CONSTANTS o1, o2, c1, c2, c3

\* Threads are interchangeable in every invariant.
Symmetry == Permutations(Threads)
=============================================================================
