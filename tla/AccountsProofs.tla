--------------------------- MODULE AccountsProofs ---------------------------
(***************************************************************************)
(* Theorems about Accounts: of Registration, for every number of requests,  *)
(* processes and identities and any distribution of the bootstrap token,    *)
(* and of Sessions, for any lifetime, any length of an hour in whole        *)
(* seconds, and any number of users, requests and tokens.                   *)
(***************************************************************************)
EXTENDS Accounts, TLAPS

(***************************************************************************)
(* The inductive invariant.  That there is one administrator rests on what  *)
(* a request has read being still true when it commits, and that on the     *)
(* request holding the row from its reading to its commit.                  *)
(***************************************************************************)

\* Whoever is inside its transaction, past the lock, holds the row.
HoldsRow == \A r \in Requests : phase[r] \in InTx => rowLock = r

\* The role about to be inserted is one the users read allow.
RoleAllowed == \A r \in Requests : phase[r] = "chosen" => MayBecome(r, role[r])

\* Only a request past its commit has an account.
AccountAfterCommit ==
  \A r \in Requests : account[r] # "none" => phase[r] \in {"created"} \cup Ended

IInv ==
  /\ TypeOK /\ HoldsRow /\ CheckStaysValid /\ RoleAllowed
  /\ AccountAfterCommit /\ OneBootstrappedAdmin

-----------------------------------------------------------------------------
LEMMA TypeInit == Init => TypeOK
  BY RegistrationAssumption DEF Init, TypeOK, Phases, Ended, InTx, Roles

LEMMA TypeStep == TypeOK /\ [Next]_vars => TypeOK'
<1> SUFFICES ASSUME TypeOK, [Next]_vars
             PROVE  TypeOK'
  OBVIOUS
<1> USE RegistrationAssumption DEF TypeOK, Phases, Ended, InTx, Roles, Advance
<1>1. ASSUME NEW r \in Requests, Arrive(r) \/ TakeMutex(r) \/ LockRow(r)
      PROVE  TypeOK'
  BY <1>1 DEF Arrive, TakeMutex, LockRow
<1>2. ASSUME NEW r \in Requests, CheckName(r)
      PROVE  TypeOK'
  BY <1>2 DEF CheckName, Users
<1>3. ASSUME NEW r \in Requests, ChooseRole(r)
      PROVE  TypeOK'
  BY <1>3 DEF ChooseRole
<1>4. ASSUME NEW r \in Requests, Commit(r)
      PROVE  TypeOK'
  BY <1>4 DEF Commit
<1>5. ASSUME NEW r \in Requests, Respond(r) \/ Refuse(r)
      PROVE  TypeOK'
  BY <1>5 DEF Respond, Refuse, End
<1>6. ASSUME NEW p \in Procs, Crash(p)
      PROVE  TypeOK'
  BY <1>6 DEF Crash
<1>7. CASE UNCHANGED vars
  BY <1>7 DEF vars
<1>8. QED
  BY <1>1, <1>2, <1>3, <1>4, <1>5, <1>6, <1>7 DEF Next, Proceed

\* Every reachable state has its type.
THEOREM TypeCorrect == Spec => []TypeOK
  BY TypeInit, TypeStep, PTL DEF Spec

-----------------------------------------------------------------------------
(***************************************************************************)
(* A step that creates no account disturbs no relation to the users; the    *)
(* commit is the only one that does.                                        *)
(***************************************************************************)

LEMMA InvInit == Init => IInv
  BY TypeInit DEF Init, IInv, HoldsRow, CheckStaysValid, RoleAllowed, AccountAfterCommit,
                  OneBootstrappedAdmin, Users, InTx

\* Steps before and after the commit.
LEMMA QuietStep ==
  ASSUME IInv, TypeOK',
         NEW r \in Requests,
         \/ Arrive(r) \/ TakeMutex(r) \/ LockRow(r) \/ CheckName(r)
         \/ ChooseRole(r) \/ Respond(r) \/ Refuse(r)
  PROVE  IInv'
<1> USE DEF IInv, TypeOK, InTx, Advance
<1>1. account' = account /\ Users' = Users
  BY DEF Arrive, TakeMutex, LockRow, CheckName, ChooseRole, Respond, Refuse, End, Users
<1>2. /\ phase' \in [Requests -> Phases]
      /\ \A s \in Requests : s # r =>
           /\ phase'[s] = phase[s] /\ view'[s] = view[s] /\ role'[s] = role[s]
  BY DEF Arrive, TakeMutex, LockRow, CheckName, ChooseRole, Respond, Refuse, End
<1>3. HoldsRow'
  BY RegistrationAssumption
     DEF HoldsRow, RowIsFree, Arrive, TakeMutex, LockRow, CheckName, ChooseRole, Respond,
         Refuse, End, Ended
<1>4. CheckStaysValid'
  BY <1>1, <1>2 DEF CheckStaysValid, Arrive, TakeMutex, LockRow, CheckName, ChooseRole,
                    Respond, Refuse, End
<1>5. RoleAllowed'
  BY <1>2 DEF RoleAllowed, MayBecome, Arrive, TakeMutex, LockRow, CheckName, ChooseRole,
              Respond, Refuse, End
<1>6. AccountAfterCommit'
  BY <1>1, <1>2 DEF AccountAfterCommit, Ended, Arrive, TakeMutex, LockRow, CheckName,
                    ChooseRole, Respond, Refuse, End
<1>7. OneBootstrappedAdmin'
  BY <1>1 DEF OneBootstrappedAdmin
<1>8. QED
  BY <1>3, <1>4, <1>5, <1>6, <1>7

\* A crash ends the requests of a process and nothing else.
LEMMA CrashStep ==
  ASSUME IInv, TypeOK', NEW p \in Procs, Crash(p)
  PROVE  IInv'
<1> USE DEF IInv, TypeOK, InTx
<1>1. account' = account /\ Users' = Users
  BY DEF Crash, Users
<1>2. \A s \in Requests :
        \/ phase'[s] = "refused"
        \/ phase'[s] = phase[s] /\ view'[s] = view[s] /\ role'[s] = role[s]
  BY DEF Crash
<1>3. HoldsRow'
  BY DEF HoldsRow, Crash
<1>4. CheckStaysValid'
  BY <1>1, <1>2 DEF CheckStaysValid
<1>5. RoleAllowed'
  BY <1>2 DEF RoleAllowed, MayBecome
<1>6. AccountAfterCommit'
  BY <1>1, <1>2 DEF AccountAfterCommit, Ended
<1>7. OneBootstrappedAdmin'
  BY <1>1 DEF OneBootstrappedAdmin
<1>8. QED
  BY <1>3, <1>4, <1>5, <1>6, <1>7

\* What is known of a request that commits.
LEMMA AtCommit ==
  ASSUME IInv, NEW r \in Requests, Commit(r)
  PROVE  /\ account[r] = "none" /\ role[r] \in Roles
         /\ \/ Users = {} /\ r \in TokenHolders /\ role[r] = "admin"
            \/ Users # {} /\ role[r] = "user"
         /\ account' = [account EXCEPT ![r] = role[r]]
         /\ Users' = Users \cup {r}
         /\ \A s \in Requests : s # r => phase'[s] = phase[s] /\ phase[s] \notin InTx
<1> USE DEF IInv, TypeOK, Commit, Advance, Roles
<1>1. account[r] = "none"
  BY DEF AccountAfterCommit, Ended
<1>2. view[r] = Users /\ MayBecome(r, role[r])
  BY DEF CheckStaysValid, RoleAllowed
<1>3. Users' = Users \cup {r}
  BY DEF Users
<1>4. \A s \in Requests : s # r => phase'[s] = phase[s] /\ phase[s] \notin InTx
  BY DEF HoldsRow, InTx
<1>5. QED
  BY <1>1, <1>2, <1>3, <1>4 DEF MayBecome

LEMMA CommitStep ==
  ASSUME IInv, TypeOK', NEW r \in Requests, Commit(r)
  PROVE  IInv'
<1> USE DEF IInv, TypeOK
<1>1. phase'[r] = "created"
  BY DEF Commit, Advance
<1>2. \A s \in Requests : phase'[s] \notin InTx
  BY <1>1, AtCommit DEF InTx
<1>3. HoldsRow' /\ CheckStaysValid' /\ RoleAllowed'
  BY <1>2 DEF HoldsRow, CheckStaysValid, RoleAllowed, InTx
<1>4. AccountAfterCommit'
  BY <1>1, AtCommit DEF AccountAfterCommit
<1>5. OneBootstrappedAdmin'
  <2>1. CASE Users = {}
    <3>1. r \in TokenHolders /\ Users' = {r} /\ account'[r] = "admin"
      BY <2>1, AtCommit
    <3>2. QED
      BY <3>1 DEF OneBootstrappedAdmin
  <2>2. CASE Users # {}
    <3>1. PICK a \in Users \cap TokenHolders : \A u \in Users : account[u] = "admin" <=> u = a
      BY <2>2 DEF OneBootstrappedAdmin
    <3>2. role[r] = "user" /\ r \notin Users /\ r # a
      BY <2>2, AtCommit DEF Users
    <3>3. /\ account'[r] = "user" /\ Users' = Users \cup {r}
          /\ \A u \in Users : account'[u] = account[u]
      BY <3>2, AtCommit DEF Users
    <3>4. \A u \in Users' : account'[u] = "admin" <=> u = a
      BY <3>1, <3>2, <3>3
    <3>5. QED
      BY <3>1, <3>3, <3>4 DEF OneBootstrappedAdmin
  <2>3. QED
    BY <2>1, <2>2
<1>6. QED
  BY <1>3, <1>4, <1>5

LEMMA InvStep == IInv /\ [Next]_vars => IInv'
<1> SUFFICES ASSUME IInv, [Next]_vars
             PROVE  IInv'
  OBVIOUS
<1>1. TypeOK'
  BY TypeStep DEF IInv
<1>2. CASE UNCHANGED vars
  BY <1>2 DEF IInv, TypeOK, HoldsRow, CheckStaysValid, RoleAllowed, MayBecome,
              AccountAfterCommit, OneBootstrappedAdmin, Users, vars
<1>3. QED
  BY <1>1, <1>2, QuietStep, CommitStep, CrashStep DEF Next, Proceed

\* The strengthening of the invariants holds in every reachable state.
THEOREM Invariance == Spec => []IInv
  BY InvInit, InvStep, PTL DEF Spec

\* However registrations overlap, in however many processes, fail or crash: once
\* there are users exactly one is an administrator, and it knew the token.
THEOREM OneAdmin == Spec => []OneBootstrappedAdmin
  BY Invariance, PTL DEF IInv

\* What a registration has read of the users is current until it commits.
THEOREM ChecksStayValid == Spec => []CheckStaysValid
  BY Invariance, PTL DEF IInv

-----------------------------------------------------------------------------
\* A step creates an account as the contract allows, or none.
LEMMA ContractStep == IInv /\ [Next]_vars => [Contract!Next]_account
<1> SUFFICES ASSUME IInv, [Next]_vars
             PROVE  Contract!Next \/ account' = account
  BY DEF Contract!Next
<1>1. ASSUME NEW r \in Requests, Commit(r)
      PROVE  Contract!Next
  <2>1. Contract!Someone <=> Users # {}
    BY DEF Contract!Someone, Users
  <2>2. Contract!Bootstrap(r) \/ Contract!Join(r)
    BY <1>1, <2>1, AtCommit DEF Contract!Bootstrap, Contract!Join
  <2>3. QED
    BY <2>2 DEF Contract!Next
<1>2. ASSUME NEW r \in Requests,
             \/ Arrive(r) \/ TakeMutex(r) \/ LockRow(r) \/ CheckName(r)
             \/ ChooseRole(r) \/ Respond(r) \/ Refuse(r)
      PROVE  account' = account
  BY <1>2 DEF Arrive, TakeMutex, LockRow, CheckName, ChooseRole, Respond, Refuse, End
<1>3. ASSUME NEW p \in Procs, Crash(p)
      PROVE  account' = account
  BY <1>3 DEF Crash
<1>4. QED
  BY <1>1, <1>2, <1>3 DEF Next, Proceed, vars

\* Registrations that overlap in several processes create accounts as if they
\* ran one after the other.
THEOREM Refinement == Spec => ImplementsContract
<1>1. Init => Contract!Init
  BY DEF Init, Contract!Init
<1>2. QED
  BY <1>1, ContractStep, Invariance, PTL DEF Spec, ImplementsContract, Contract!Spec

-----------------------------------------------------------------------------
(***************************************************************************)
(* Sessions.                                                                *)
(***************************************************************************)

\* Cutting to whole seconds (jwt.NewNumericDate) takes off less than a second, and
\* nothing off what is whole; it keeps a time after every whole second before it.
LEMMA Cut ==
  ASSUME Second \in Nat \ {0}, NEW t \in Nat
  PROVE  /\ S!WholeSecond(t) \in Nat /\ S!WholeSecond(t) <= t /\ S!WholeSecond(t) > t - Second
         /\ S!WholeSecond(t) = Second * (t \div Second)
<1>1. t = Second * (t \div Second) + (t % Second) /\ t % Second \in 0..(Second - 1) /\ t \div Second \in Nat
  OBVIOUS
<1> QED BY <1>1 DEF S!WholeSecond

LEMMA WholeStays ==
  ASSUME Second \in Nat \ {0}, NEW t \in Nat, NEW k \in Nat, Second * k <= t
  PROVE  Second * k <= S!WholeSecond(t)
<1> DEFINE m == t \div Second
<1>1. m \in Nat /\ t < Second * m + Second /\ S!WholeSecond(t) = Second * m
  BY Cut
<1> HIDE DEF m
<1>2. Second * k < Second * (m + 1)
  BY <1>1
<1>3. k < m + 1
  BY <1>1, <1>2
<1>4. Second * k <= Second * m
  BY <1>1, <1>3
<1> QED BY <1>1, <1>4

-----------------------------------------------------------------------------
\* Ends are whole seconds, and not later than a lifetime from now.
Whole(t) == \E k \in Nat : t = Second * k

TokensFit ==
  /\ tokens \subseteq S!Tokens
  /\ \A t \in tokens : t.issued <= now /\ Whole(t.exp)

\* An admitted request has a token that was issued.
RequestsFit ==
  \A q \in Calls :
    \/ request[q].stage = "idle"
    \/ request[q].stage = "found" /\ request[q].user \in Holders /\ request[q].row \in S!Rows
    \/ request[q].stage = "admitted" /\ request[q].token \in tokens

SessionInv ==
  /\ now \in Nat
  /\ row \in [Holders -> S!Rows]
  /\ DOMAIN request = Calls
  /\ TokensFit
  /\ RequestsFit
  /\ S!RefreshGainsTime

\* What has been cut to whole seconds is whole.
LEMMA CutIsWhole ==
  ASSUME Second \in Nat \ {0}, NEW t \in Nat
  PROVE  Whole(S!WholeSecond(t))
<1> DEFINE d == t \div Second
<1>1. d \in Nat /\ S!WholeSecond(t) = Second * d
  BY Cut
<1> HIDE DEF d
<1> QED BY <1>1 DEF Whole

\* An end that the window lets be exchanged lies an hour before the new one.
LEMMA WindowGains ==
  ASSUME S!TimeAssumption, S!WholeSeconds, now \in Nat,
         NEW t \in S!Tokens, Whole(t.exp), S!RefreshOpen(t)
  PROVE  S!WholeSecond(now + Lifetime) >= t.exp + Hour
<1>1. Second \in Nat \ {0} /\ Hour \in Nat /\ Lifetime \in Nat /\ Hour % Second = 0
  BY DEF S!TimeAssumption, S!WholeSeconds
<1>2. PICK k \in Nat : t.exp = Second * k
  BY DEF Whole
<1>3. PICK h \in Nat : Hour = Second * h
  <2> DEFINE d == Hour \div Second
  <2>1. d \in Nat /\ Hour = Second * d
    BY <1>1
  <2> HIDE DEF d
  <2> QED BY <2>1
<1>4. t.exp + Hour = Second * (k + h)
  BY <1>1, <1>2, <1>3
<1>5. t.exp + Hour <= now + Lifetime
  BY <1>1, <1>2 DEF S!RefreshOpen, S!Tokens
<1>6. now + Lifetime \in Nat /\ k + h \in Nat /\ Second * (k + h) <= now + Lifetime
  BY <1>1, <1>4, <1>5
<1>7. Second * (k + h) <= S!WholeSecond(now + Lifetime)
  BY <1>1, <1>6, WholeStays
<1> QED BY <1>1, <1>4, <1>7, Cut, <1>6

-----------------------------------------------------------------------------
LEMMA SessionInitHolds == S!TimeAssumption /\ S!Init => SessionInv
BY DEF S!TimeAssumption, S!Init, SessionInv, TokensFit, RequestsFit, S!RefreshGainsTime, S!Idle

\* What S!Issue adds fits, if the token it replaces, if any, lies an hour before it.
LEMMA IssueFits ==
  ASSUME S!TimeAssumption, SessionInv, UNCHANGED now,
         NEW u \in Holders, NEW as \in {"user", "admin"}, NEW of \in Nat \cup {NoToken},
         of # NoToken => S!WholeSecond(now + Lifetime) >= of + Hour,
         S!Issue(u, as, of)
  PROVE  TokensFit' /\ S!RefreshGainsTime' /\ tokens \subseteq tokens'
<1> DEFINE x == now + Lifetime
           e == S!WholeSecond(x)
           new == [user |-> u, role |-> as, exp |-> e, issued |-> now, of |-> of]
<1>1. tokens' = tokens \cup {new}
  BY DEF S!Issue
<1>2. /\ new.exp \in Nat /\ Whole(new.exp)
      /\ new.exp > now + Lifetime - Second /\ new.exp <= now + Lifetime
  <2>1. Second \in Nat \ {0} /\ x \in Nat
    BY DEF S!TimeAssumption, SessionInv
  <2>2. e \in Nat /\ Whole(e) /\ e > x - Second /\ e <= x
    <3> HIDE DEF x
    <3> QED BY <2>1, Cut, CutIsWhole
  <2>3. new.exp = e
    OBVIOUS
  <2>4. new.exp \in Nat /\ Whole(new.exp)
    <3> HIDE DEF e, new
    <3> QED BY <2>2, <2>3 DEF Whole
  <2>5. new.exp > now + Lifetime - Second /\ new.exp <= now + Lifetime
    <3> HIDE DEF e, new
    <3> QED BY <2>1, <2>2, <2>3 DEF SessionInv, S!TimeAssumption
  <2> QED BY <2>4, <2>5
<1>3. new \in S!Tokens /\ new.issued = now
  BY <1>2 DEF S!Tokens, SessionInv
<1>4. new.of # NoToken => new.exp >= new.of + Hour
  OBVIOUS
<1> HIDE DEF new
<1>5. TokensFit'
  BY <1>1, <1>2, <1>3 DEF SessionInv, TokensFit, Whole
<1>6. S!RefreshGainsTime'
  BY <1>1, <1>2, <1>3, <1>4 DEF SessionInv, S!RefreshGainsTime
<1> QED BY <1>1, <1>5, <1>6

\* A request that is done is idle, and the others keep their tokens.
LEMMA HandledFits ==
  ASSUME SessionInv, NEW q \in Calls, S!Handled(q), tokens \subseteq tokens'
  PROVE  RequestsFit' /\ DOMAIN request' = Calls
BY DEF SessionInv, RequestsFit, S!Handled, S!Idle

LEMMA SessionStepHolds == S!TimeAssumption /\ S!WholeSeconds /\ SessionInv /\ [S!Next]_(S!vars) => SessionInv'
<1> SUFFICES ASSUME S!TimeAssumption, S!WholeSeconds, SessionInv, [S!Next]_(S!vars) PROVE SessionInv'
  OBVIOUS
<1>1. CASE S!Tick
  BY <1>1 DEF S!Tick, SessionInv, TokensFit, RequestsFit, S!RefreshGainsTime, S!Tokens, S!TimeAssumption
<1>2. ASSUME NEW u \in Holders, S!ChangeAccount(u) PROVE SessionInv'
  BY <1>2 DEF S!ChangeAccount, SessionInv, TokensFit, RequestsFit, S!RefreshGainsTime
<1>3. ASSUME NEW q \in Calls, NEW u \in Holders, S!FindUser(q, u) PROVE SessionInv'
  <2>1. UNCHANGED <<now, row, tokens>>
    BY <1>3 DEF S!FindUser
  <2>2. RequestsFit' /\ DOMAIN request' = Calls
    BY <1>3 DEF S!FindUser, SessionInv, RequestsFit
  <2> QED BY <2>1, <2>2 DEF SessionInv, TokensFit, S!RefreshGainsTime
<1>4. ASSUME NEW q \in Calls, S!Login(q) PROVE SessionInv'
  <2>1. UNCHANGED <<now, row>> /\ S!Handled(q)
    BY <1>4 DEF S!Login
  <2>2. CASE UNCHANGED tokens
    <3>1. RequestsFit' /\ DOMAIN request' = Calls
      BY <2>1, <2>2, HandledFits
    <3> QED BY <2>1, <2>2, <3>1 DEF SessionInv, TokensFit, S!RefreshGainsTime
  <2>3. CASE S!Issue(request[q].user, request[q].row.role, NoToken)
    <3>1. request[q].user \in Holders /\ request[q].row.role \in {"user", "admin"}
      BY <1>4 DEF S!Login, SessionInv, RequestsFit, S!Rows
    <3>2. TokensFit' /\ S!RefreshGainsTime' /\ tokens \subseteq tokens'
      BY <2>1, <2>3, <3>1, IssueFits
    <3>3. RequestsFit' /\ DOMAIN request' = Calls
      BY <2>1, <3>2, HandledFits
    <3> QED BY <2>1, <3>2, <3>3 DEF SessionInv
  <2> QED BY <1>4, <2>2, <2>3 DEF S!Login
<1>5. ASSUME NEW q \in Calls, NEW t \in tokens, S!Admit(q, t) PROVE SessionInv'
  <2>1. UNCHANGED <<now, row, tokens>>
    BY <1>5 DEF S!Admit
  <2>2. RequestsFit' /\ DOMAIN request' = Calls
    BY <1>5 DEF S!Admit, SessionInv, RequestsFit
  <2> QED BY <2>1, <2>2 DEF SessionInv, TokensFit, S!RefreshGainsTime
<1>6. ASSUME NEW q \in Calls, S!Refresh(q) PROVE SessionInv'
  <2> DEFINE t == request[q].token
  <2>1. UNCHANGED <<now, row>> /\ S!Handled(q)
    BY <1>6 DEF S!Refresh
  <2>2. t \in tokens /\ t \in S!Tokens /\ Whole(t.exp)
    BY <1>6 DEF S!Refresh, SessionInv, RequestsFit, TokensFit
  <2>3. CASE UNCHANGED tokens
    <3>1. RequestsFit' /\ DOMAIN request' = Calls
      BY <2>1, <2>3, HandledFits
    <3> QED BY <2>1, <2>3, <3>1 DEF SessionInv, TokensFit, S!RefreshGainsTime
  <2>4. CASE S!RefreshOpen(t) /\ S!Issue(t.user, t.role, t.exp)
    <3>1. t.user \in Holders /\ t.role \in {"user", "admin"} /\ t.exp \in Nat
      BY <2>2 DEF S!Tokens
    <3>2. S!WholeSecond(now + Lifetime) >= t.exp + Hour
      BY <2>2, <2>4, WindowGains DEF SessionInv
    <3>3. TokensFit' /\ S!RefreshGainsTime' /\ tokens \subseteq tokens'
      BY <2>1, <2>4, <3>1, <3>2, IssueFits
    <3>4. RequestsFit' /\ DOMAIN request' = Calls
      BY <2>1, <3>3, HandledFits
    <3> QED BY <2>1, <3>3, <3>4 DEF SessionInv
  <2> QED BY <1>6, <2>3, <2>4 DEF S!Refresh
<1>7. CASE UNCHANGED S!vars
  BY <1>7 DEF S!vars, SessionInv, TokensFit, RequestsFit, S!RefreshGainsTime
<1> QED BY <1>1, <1>2, <1>3, <1>4, <1>5, <1>6, <1>7 DEF S!Next

\* JWTManager: every exchange of a token gains an hour at least and every token lives
\* its lifetime to within the second that is cut, for any lifetime and any
\* interleaving of logins, exchanges and the clock.
THEOREM ExchangesGainTime == S!Spec => []RefreshGainsTime
<1>1. S!Init => SessionInv
  BY SessionInitHolds, SessionsAssumption
<1>2. SessionInv /\ [S!Next]_(S!vars) => SessionInv'
  BY SessionStepHolds, SessionsAssumption
<1>3. SessionInv => RefreshGainsTime
  BY DEF SessionInv, RefreshGainsTime
<1> QED BY <1>1, <1>2, <1>3, PTL DEF S!Spec

\* An account is got and used as the two modules say.
THEOREM EitherIsServed == EitherSpec => Spec /\ S!Spec
<1>1. EitherInit => Init /\ S!Init
  BY DEF EitherInit
<1>2. [EitherNext]_<<served, vars, sessionVars>> => [Next]_vars /\ [S!Next]_(S!vars)
  BY DEF EitherNext, sessionVars, S!vars
<1> QED BY <1>1, <1>2, PTL DEF EitherSpec, Spec, S!Spec

\* So all of it holds of accounts (router.go: register, login, refresh).
COROLLARY AccountsHold ==
  EitherSpec => ImplementsContract /\ [](OneBootstrappedAdmin /\ CheckStaysValid /\ RefreshGainsTime)
BY EitherIsServed, OneAdmin, ChecksStayValid, Refinement, ExchangesGainTime, PTL
=============================================================================
