-------------------------- MODULE MCWebhookDelivery --------------------------
(***************************************************************************)
(* Small instances of WebhookDelivery.  A unit of time is the length of the *)
(* status context (5 s in the code); the lease is two or three of them      *)
(* instead of 24, which keeps it just as long as TimingAssumption demands.  *)
(***************************************************************************)
EXTENDS WebhookDelivery, TLC

Symmetry == Permutations(Workers) \cup Permutations(Operators)
=============================================================================
