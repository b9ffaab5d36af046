--------------------------- MODULE MCClientAccess ---------------------------
(***************************************************************************)
(* Small instances of ClientGate: two administrators with keys and secrets  *)
(* for a creation and two changes, and two callers, a limit of two and a    *)
(* window of two seconds and a half in seconds of two ticks.                *)
(***************************************************************************)
EXTENDS ClientGate, TLC

CONSTANTS a1, a2, c1, c2, k1, k2, k3, s1, s2, s3, u1, u2, p1, p2

\* Keys, secrets and URLs are only ever compared.
Symmetry ==
  Permutations(Admins) \cup Permutations(Keys) \cup Permutations(Secrets) \cup Permutations(Urls)
=============================================================================
