------------------------------ MODULE MCReads ------------------------------
(***************************************************************************)
(* A small instance of Reads: three requests of one user, of whom one list  *)
(* shows two, and two requests of which figures are counted.                *)
(***************************************************************************)
EXTENDS Reads, TLC

CONSTANTS r1, r2, r3, d1, u1, k1

BothPrincipals == {[user |-> u1, client |-> k1], [user |-> u1, client |-> NoClient]}
ReadsSymmetry == Permutations({r1, r2})
=============================================================================
