----------------------------- MODULE MCAccounts -----------------------------
(***************************************************************************)
(* Small instances of Accounts: two processes that serve two registrations  *)
(* each for two identities, and sessions of one user with two requests at   *)
(* once and an hour of two seconds of two ticks each.                       *)
(***************************************************************************)
EXTENDS Accounts, TLC

CONSTANTS r1, r2, r3, r4, p1, p2, alice, bob, u1, q1, q2

TwoProcesses == (r1 :> p1) @@ (r2 :> p1) @@ (r3 :> p2) @@ (r4 :> p2)
SharedName   == (r1 :> alice) @@ (r2 :> bob) @@ (r3 :> alice) @@ (r4 :> bob)
=============================================================================
