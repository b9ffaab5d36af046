------------------------------ MODULE Accounts ------------------------------
(***************************************************************************)
(* How an operator gets an account (Registration) and what it is then used  *)
(* with (Sessions).  A session begins with an account that was committed    *)
(* long before, and its row changes in the database only; a registration    *)
(* looks at no session: so each behaviour is of either.                     *)
(***************************************************************************)
EXTENDS Registration, Integers

CONSTANTS
  Holders, Calls, Second, Hour, Lifetime, MaxTime, MaxTokens, NoToken  \* of Sessions

VARIABLES
  served,                       \* "register" or "sessions"
  now, row, tokens, request     \* of Sessions

S == INSTANCE Sessions WITH account <- row, Users <- Holders, Requests <- Calls
ASSUME SessionsAssumption == S!TimeAssumption /\ S!WholeSeconds

sessionVars == <<now, row, tokens, request>>

EitherInit == served \in {"register", "sessions"} /\ Init /\ S!Init

EitherNext ==
  /\ UNCHANGED served
  /\ \/ served = "register" /\ Next /\ UNCHANGED sessionVars
     \/ served = "sessions" /\ S!Next /\ UNCHANGED vars

\* A registration that is being served goes on.
EitherSpec == EitherInit /\ [][EitherNext]_<<served, vars, sessionVars>> /\ Fairness

\* RefreshToken: an exchange prolongs a session by an hour at least.
RefreshGainsTime == S!RefreshGainsTime
=============================================================================
