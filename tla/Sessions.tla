------------------------------ MODULE Sessions ------------------------------
(***************************************************************************)
(* Operator sessions: Login issues a JSON web token, RefreshToken exchanges *)
(* one for another, and AuthMiddleware admits its holder (handlers/auth.go, *)
(* auth/jwt.go, auth/middleware.go).                                        *)
(*                                                                          *)
(* Nothing of a session is stored: a token is a claim that ends at exp, and *)
(* whoever holds one may use it in any number of requests at once.  Time is *)
(* in ticks; jwt.NewNumericDate cuts it to whole seconds, time.Now() does   *)
(* not.  A request is admitted, and handled at a later time.  Roles and     *)
(* statuses change in the database only; no endpoint changes them.          *)
(***************************************************************************)
EXTENDS Integers, FiniteSets

CONSTANTS
  Users,
  Requests,   \* requests in flight
  Second,     \* ticks of a second
  Hour,       \* ticks of an hour
  Lifetime,   \* JWTManager.expireTime
  MaxTime,    \* bound of the model: ticks
  MaxTokens,  \* bound of the model: tokens issued
  NoToken     \* no token before this one

TimeAssumption ==
  /\ Second \in Nat \ {0} /\ Hour \in Nat \ {0} /\ Lifetime \in Nat
  /\ MaxTime \in Nat /\ MaxTokens \in Nat
WholeSeconds == Hour % Second = 0

VARIABLES
  now,
  account,  \* role and status of each user's row
  tokens,   \* the tokens ever issued
  request   \* what each request has found so far

vars == <<now, account, tokens, request>>

Rows == [role : {"user", "admin"}, status : {"active", "inactive"}]

\* issued and of are not in the token: when it was made, and the end of the one
\* that was exchanged for it.
Tokens ==
  [user : Users, role : {"user", "admin"}, exp : Nat, issued : Nat, of : Nat \cup {NoToken}]

Idle == [stage |-> "idle"]

Init ==
  /\ now = 0
  /\ account \in [Users -> Rows]
  /\ tokens = {}
  /\ request = [q \in Requests |-> Idle]

-----------------------------------------------------------------------------
Tick ==
  /\ now < MaxTime /\ now' = now + 1
  /\ UNCHANGED <<account, tokens, request>>

\* The row is changed in the database.
ChangeAccount(u) ==
  /\ \E row \in Rows \ {account[u]} : account' = [account EXCEPT ![u] = row]
  /\ UNCHANGED <<now, tokens, request>>

\* jwt.NewNumericDate.
WholeSecond(t) == t - (t % Second)

\* GenerateToken.
Issue(u, role, of) ==
  /\ Cardinality(tokens) < MaxTokens
  /\ tokens' = tokens \cup
       {[user |-> u, role |-> role, exp |-> WholeSecond(now + Lifetime), issued |-> now, of |-> of]}

\* ValidateToken.
Valid(t) == now < t.exp

Handled(q) == request' = [request EXCEPT ![q] = Idle]

\* Login finds the row by its email; comparing the password takes its time.
FindUser(q, u) ==
  /\ request[q] = Idle
  /\ request' = [request EXCEPT ![q] = [stage |-> "found", user |-> u, row |-> account[u]]]
  /\ UNCHANGED <<now, account, tokens>>

\* Login compares the password and the status it has read.
Login(q) ==
  /\ request[q].stage = "found"
  /\ Handled(q)
  /\ UNCHANGED <<now, account>>
  /\ \/ UNCHANGED tokens  \* the password is wrong
     \/ /\ request[q].row.status = "active"
        /\ Issue(request[q].user, request[q].row.role, NoToken)

\* AuthMiddleware.
Admit(q, t) ==
  /\ request[q] = Idle /\ Valid(t)
  /\ request' = [request EXCEPT ![q] = [stage |-> "admitted", token |-> t]]
  /\ UNCHANGED <<now, account, tokens>>

\* Mutant of RefreshOpen: a token is exchanged at any time.
RefreshAlways(t) == TRUE

\* The window of RefreshToken.
RefreshOpen(t) == t.exp - now <= Lifetime - Hour

\* RefreshToken: the token is checked again.
Refresh(q) ==
  /\ request[q].stage = "admitted"
  /\ Handled(q)
  /\ UNCHANGED <<now, account>>
  /\ LET t == request[q].token IN
     IF Valid(t) /\ RefreshOpen(t) THEN Issue(t.user, t.role, t.exp) ELSE UNCHANGED tokens

Next ==
  \/ Tick
  \/ \E u \in Users : ChangeAccount(u)
  \/ \E q \in Requests :
       \/ \E u \in Users : FindUser(q, u)
       \/ Login(q)
       \/ \E t \in tokens : Admit(q, t)
       \/ Refresh(q)

Spec == Init /\ [][Next]_vars

-----------------------------------------------------------------------------
(***************************************************************************)
(* Properties.                                                              *)
(***************************************************************************)

\* A session is prolonged by an hour or more at a time: however often a token is
\* exchanged, and although both ends are cut to seconds, the new one outlasts the
\* old by an hour (the clock of the check is not cut), and each token lives its
\* lifetime but for the second that is cut.
RefreshGainsTime ==
  \A t \in tokens :
    /\ t.of # NoToken => t.exp >= t.of + Hour
    /\ t.exp > t.issued + Lifetime - Second /\ t.exp <= t.issued + Lifetime
=============================================================================
