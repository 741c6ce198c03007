------------------------------ MODULE MCSharedDb ------------------------------
(* Requests are alike.                                                       *)
EXTENDS SharedDb, TLC

CONSTANTS r1, r2, o1

UserSymmetry == Permutations({r1, r2})
===============================================================================
