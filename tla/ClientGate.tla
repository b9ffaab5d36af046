----------------------------- MODULE ClientGate -----------------------------
(***************************************************************************)
(* The two middlewares a client's call passes (router.go): that of its key, *)
(* with the row behind it (ClientAccess), and that of its limit             *)
(* (RateLimiter).  The counter knows the client by its number, and the      *)
(* client knows nothing of the counter, so each behaviour is of either.     *)
(***************************************************************************)
EXTENDS ClientAccess

CONSTANTS Callers, Limit, Second, Window, Excess, NoWait

VARIABLES
  middleware,                                               \* "key" or "limit"
  count, ttl, answer, granted, recent, wait, renewed        \* of RateLimiter

Limiter == INSTANCE RateLimiter
ASSUME LimiterAssumption == Limiter!LimitAssumption

limiterVars == <<count, ttl, answer, granted, recent, wait, renewed>>

EitherInit == middleware \in {"key", "limit"} /\ Init /\ Limiter!Init

EitherNext ==
  /\ UNCHANGED middleware
  /\ \/ middleware = "key" /\ Next /\ UNCHANGED limiterVars
     \/ middleware = "limit" /\ Limiter!Next /\ UNCHANGED vars

EitherSpec == EitherInit /\ [][EitherNext]_<<middleware, vars, limiterVars>>

\* AllowWithState: the calls admitted in any span of a window are bounded.
SpanBounded == Limiter!SpanBounded

\* AllowWithState and rateLimitRetryAfterSeconds: what a caller is told holds.
AnswersHold == Limiter!AnswersHold
=============================================================================
