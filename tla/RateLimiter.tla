----------------------------- MODULE RateLimiter -----------------------------
(***************************************************************************)
(* The request limit of one client: a counter in Redis that one script      *)
(* increments, gives an expiry when it is new, and reads the rest of its     *)
(* life of (RateLimiter.AllowWithState), and what the middleware makes of   *)
(* it.  A client may have several calls at once and wait, or not, as told.  *)
(*                                                                          *)
(* Time is counted in ticks, of which a second has several: the expiry is   *)
(* set in whole seconds, the rest is read in ticks, and Retry-After is      *)
(* answered in whole seconds again.  If the script fails the call ends in   *)
(* an error and the counter is not touched; without Redis there is no limit.*)
(***************************************************************************)
EXTENDS Integers, FiniteSets

CONSTANTS
  Callers,  \* callers that share the client's key
  Limit,    \* moderation.client_rate_limit.limit
  Second,   \* ticks of a second
  Window,   \* moderation.client_rate_limit.window, in ticks
  Excess,   \* bound of the model: refused calls in a window
  NoWait    \* "has not been refused"

LimitAssumption ==
  /\ Limit \in Nat \ {0} /\ Excess \in Nat
  /\ Second \in Nat \ {0} /\ Window \in Nat /\ Window >= Second
  /\ NoWait \notin Nat

VARIABLES
  count,    \* the counter, 0 if the key does not exist
  ttl,      \* what is left of its life
  answer,   \* what the last call was answered
  granted,  \* history: calls admitted in this window
  recent,   \* history: calls of the last Expiry ticks, each admitted as the n-th of its window
  wait,     \* history: what a refused caller has left of its Retry-After
  renewed   \* history: whether a window has begun since it was refused

vars == <<count, ttl, answer, granted, recent, wait, renewed>>

\* The expiry: int(window.Seconds()) seconds.
Expiry == (Window \div Second) * Second

TypeOK ==
  /\ count \in 0..(Limit + Excess)
  /\ ttl \in 0..Expiry
  /\ answer \in [allowed : BOOLEAN, remaining : Nat]
  /\ granted \in Nat
  /\ recent \subseteq [age : 0..(Expiry - 1), nth : Nat]
  /\ wait \in [Callers -> Nat \cup {NoWait}]
  /\ renewed \in [Callers -> BOOLEAN]

Init ==
  /\ count = 0 /\ ttl = 0
  /\ answer = [allowed |-> TRUE, remaining |-> Limit]
  /\ granted = 0
  /\ recent = {}
  /\ wait = [c \in Callers |-> NoWait]
  /\ renewed = [c \in Callers |-> FALSE]

-----------------------------------------------------------------------------
\* Calls left after the n-th.
Remaining(n) == IF n < Limit THEN Limit - n ELSE 0

\* Mutant of Allowed: off by one.
AllowedAtOneMore(n) == n <= Limit + 1

\* Whether the n-th call is admitted.
Allowed(n) == n <= Limit

\* What the n-th call leaves of the counter's life: the first one sets the expiry.
Life(n) == IF n = 1 THEN Expiry ELSE ttl

\* Mutant of RetryAfter: part of a second is cut off.
RetryAfterCut(left) == left \div Second

\* rateLimitRetryAfterSeconds rounds up.
RetryAfter(left) == (left + Second - 1) \div Second

\* A call of c runs the script and is admitted or refused.
Call(c) ==
  LET n == count + 1 IN
  /\ n <= Limit + Excess
  /\ count' = n
  /\ ttl' = Life(n)
  /\ answer' = [allowed |-> Allowed(n), remaining |-> Remaining(n)]
  /\ \/ /\ Allowed(n)
        /\ granted' = granted + 1
        /\ recent' = recent \cup {[age |-> 0, nth |-> n]}
        /\ wait' = [wait EXCEPT ![c] = NoWait]
        /\ UNCHANGED renewed
     \/ /\ ~Allowed(n)
        /\ wait' = [wait EXCEPT ![c] = RetryAfter(Life(n)) * Second]
        /\ renewed' = [renewed EXCEPT ![c] = FALSE]
        /\ UNCHANGED <<granted, recent>>

\* A tick passes in Redis and for the callers.  A counter at its end is gone.
Tick ==
  /\ ttl' = IF ttl = 0 THEN 0 ELSE ttl - 1
  /\ IF ttl = 1
     THEN /\ count' = 0 /\ granted' = 0
          /\ renewed' = [c \in Callers |-> TRUE]
     ELSE UNCHANGED <<count, granted, renewed>>
  /\ recent' = {[q EXCEPT !.age = @ + 1] : q \in {r \in recent : r.age < Expiry - 1}}
  /\ wait' = [c \in Callers |-> IF wait[c] \in {NoWait, 0} THEN wait[c] ELSE wait[c] - 1]
  /\ UNCHANGED answer

Next == Tick \/ \E c \in Callers : Call(c)

Spec == Init /\ [][Next]_vars

-----------------------------------------------------------------------------
(***************************************************************************)
(* Properties.                                                              *)
(***************************************************************************)

\* Windows begin when a counter does, so a client can use up one at its end and
\* the next at its beginning, but never more in the span of one.
SpanBounded == Cardinality(recent) <= 2 * Limit

\* What a caller is told is true.  What is left is what can still be admitted, a
\* refusal means that all of it was, and a caller that waits as Retry-After tells
\* finds a new window, however often others call meanwhile.
AnswersHold ==
  /\ TypeOK
  /\ ttl > 0 /\ count > 0 =>
       /\ answer.remaining = Limit - granted
       /\ ~answer.allowed => granted = Limit
  /\ \A c \in Callers : wait[c] = 0 => renewed[c]
=============================================================================
