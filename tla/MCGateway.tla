------------------------------ MODULE MCGateway ------------------------------
(***************************************************************************)
(* A small instance of Gateway: two calls of a client with one external_id, *)
(* of which one leaves a request and perhaps a case, two reviewers who race *)
(* for that case, and a worker that retries the one delivery that comes of  *)
(* it, once and after every possible failure.                               *)
(***************************************************************************)
EXTENDS Gateway, TLC

CONSTANTS c1, c2, k1

OneKey == [c \in {c1, c2} |-> k1]

GatewaySymmetry == Permutations({c1, c2}) \cup Permutations(Reviewers)
=============================================================================
