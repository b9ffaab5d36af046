----------------------------- MODULE MCConsole -----------------------------
(***************************************************************************)
(* A small instance of Console: two rows of each kind and three requests in *)
(* flight; three cases, pages of one and two requests for the history.      *)
(***************************************************************************)
EXTENDS Console, TLC

CONSTANTS x1, x2, approved, rejected, s1, s2, s3, h1, h2

ConsoleSymmetry ==
  Permutations({s1, s2, s3}) \cup Permutations({h1, h2}) \cup Permutations(Outcomes)
=============================================================================
