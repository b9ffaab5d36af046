---------------------------- MODULE Registration ----------------------------
(***************************************************************************)
(* AuthHandler.Register in any number of API processes that share one       *)
(* database.  Each process serves its registrations one at a time (a        *)
(* mutex); across processes the row of system_locks, locked FOR UPDATE,     *)
(* keeps the count of users that decides the role in step with the insert.  *)
(*                                                                          *)
(* A request stands for its identity, username and email together; Name     *)
(* says which requests ask for the same one.  The transaction runs at       *)
(* REPEATABLE READ, the default: its snapshot is taken by the first plain   *)
(* SELECT, which comes after the lock.                                      *)
(***************************************************************************)
EXTENDS Naturals, FiniteSets

CONSTANTS
  Requests,      \* registration requests
  Procs,         \* API processes
  Home,          \* the process that serves a request
  Names,         \* identities: a username with its email
  Name,          \* the identity a request asks for
  TokenHolders,  \* requests that carry the configured admin bootstrap token
  Nobody         \* "this lock is free"

ASSUME RegistrationAssumption ==
  /\ Home \in [Requests -> Procs]
  /\ Name \in [Requests -> Names]
  /\ TokenHolders \subseteq Requests
  /\ Nobody \notin Requests

VARIABLES
  account,  \* users: the role of the account a request has committed
  phase,    \* where a request is in Register
  mutex,    \* holder of a process's registrationMu
  rowLock,  \* holder of the system_locks row
  view,     \* the users a request's transaction sees
  role      \* the role a request has chosen for its account

vars == <<account, phase, mutex, rowLock, view, role>>

Roles  == {"admin", "user"}
InTx   == {"locked", "checked", "chosen"}
Phases == {"idle", "waiting", "begun", "created", "done", "refused"} \cup InTx
Ended  == {"done", "refused"}

TypeOK ==
  /\ account \in [Requests -> Roles \cup {"none"}]
  /\ phase \in [Requests -> Phases]
  /\ mutex \in [Procs -> Requests \cup {Nobody}]
  /\ rowLock \in Requests \cup {Nobody}
  /\ view \in [Requests -> SUBSET Requests]
  /\ role \in [Requests -> Roles \cup {"none"}]
  /\ \A r \in Requests : phase[r] \in {"chosen", "created"} => role[r] \in Roles

Init ==
  /\ account = [r \in Requests |-> "none"]
  /\ phase = [r \in Requests |-> "idle"]
  /\ mutex = [p \in Procs |-> Nobody]
  /\ rowLock = Nobody
  /\ view = [r \in Requests |-> {}]
  /\ role = [r \in Requests |-> "none"]

Users == {r \in Requests : account[r] # "none"}

Advance(r, from, to) ==
  /\ phase[r] = from
  /\ phase' = [phase EXCEPT ![r] = to]

-----------------------------------------------------------------------------
\* A request arrives and queues for its process's mutex.
Arrive(r) ==
  /\ Advance(r, "idle", "waiting")
  /\ UNCHANGED <<account, mutex, rowLock, view, role>>

\* registrationMu.Lock() returns and the transaction begins.
TakeMutex(r) ==
  /\ Advance(r, "waiting", "begun")
  /\ mutex[Home[r]] = Nobody
  /\ mutex' = [mutex EXCEPT ![Home[r]] = r]
  /\ UNCHANGED <<account, rowLock, view, role>>

\* Mutant of RowIsFree: the row is selected without FOR UPDATE.
RowNotLocked == rowLock \in Requests \cup {Nobody}

\* Nobody else is between its lock and the end of its transaction.
RowIsFree == rowLock = Nobody

\* lockRegistrationBootstrap: insert the row if need be, and lock it.
LockRow(r) ==
  /\ Advance(r, "begun", "locked")
  /\ RowIsFree
  /\ rowLock' = r
  /\ UNCHANGED <<account, mutex, view, role>>

\* Mutant of CheckName: users are read before the row is locked.
CheckNameUnlocked(r) ==
  /\ Advance(r, "begun", "checked")
  /\ \A u \in Users : Name[u] # Name[r]
  /\ view' = [view EXCEPT ![r] = Users]
  /\ UNCHANGED <<account, mutex, rowLock, role>>

\* ensureUserDoesNotExist finds no such user.  Its SELECT takes the snapshot.
CheckName(r) ==
  /\ Advance(r, "locked", "checked")
  /\ \A u \in Users : Name[u] # Name[r]
  /\ view' = [view EXCEPT ![r] = Users]
  /\ UNCHANGED <<account, mutex, rowLock, role>>

\* Mutant of MayBecome: an empty database makes anybody an administrator.
FirstIsAdmin(r, new) == new = IF view[r] = {} THEN "admin" ELSE "user"

\* nextRegistrationRole: the first account is an administrator's and needs the
\* token; a request without it may become nothing.
MayBecome(r, new) ==
  \/ view[r] = {} /\ r \in TokenHolders /\ new = "admin"
  \/ view[r] # {} /\ new = "user"

\* The role goes into the account to be inserted; the password is hashed.
ChooseRole(r) ==
  /\ Advance(r, "checked", "chosen")
  /\ \E new \in Roles : MayBecome(r, new) /\ role' = [role EXCEPT ![r] = new]
  /\ UNCHANGED <<account, mutex, rowLock, view>>

\* The account is inserted, past the unique indexes, and the transaction commits.
Commit(r) ==
  /\ Advance(r, "chosen", "created")
  /\ \A u \in Users : Name[u] # Name[r]
  /\ account' = [account EXCEPT ![r] = role[r]]
  /\ rowLock' = IF rowLock = r THEN Nobody ELSE rowLock
  /\ UNCHANGED <<mutex, view, role>>

\* Mutant of LeavesMutex: the unlock is not deferred, so errors skip it.
LeavesMutexOnSuccess(r) == phase[r] = "created"

\* The deferred Unlock runs however the handler returns.
LeavesMutex(r) == phase[r] \in Phases

\* Request r is over: its locks go, and with them what it knew.
End(r, how) ==
  /\ phase' = [phase EXCEPT ![r] = how]
  /\ mutex' = [mutex EXCEPT ![Home[r]] = IF @ = r /\ LeavesMutex(r) THEN Nobody ELSE @]
  /\ rowLock' = IF rowLock = r THEN Nobody ELSE rowLock
  /\ view' = [view EXCEPT ![r] = {}]
  /\ role' = [role EXCEPT ![r] = "none"]
  /\ UNCHANGED account

\* The token is issued and the answer sent.
Respond(r) == phase[r] = "created" /\ End(r, "done")

\* The identity is taken, the bootstrap token is missing, the insert hits a unique
\* index, or a statement fails: the transaction rolls back.  After the commit only
\* issuing the JWT can fail, and the account stays.
Refuse(r) == phase[r] \in InTx \cup {"begun", "created"} /\ End(r, "refused")

\* Process p dies, with all it was serving.
Crash(p) ==
  LET victims == {r \in Requests : Home[r] = p /\ phase[r] \notin Ended \cup {"idle"}} IN
  /\ victims # {}
  /\ phase' = [r \in Requests |-> IF r \in victims THEN "refused" ELSE phase[r]]
  /\ mutex' = [mutex EXCEPT ![p] = Nobody]
  /\ rowLock' = IF rowLock \in victims THEN Nobody ELSE rowLock
  /\ view' = [r \in Requests |-> IF r \in victims THEN {} ELSE view[r]]
  /\ role' = [r \in Requests |-> IF r \in victims THEN "none" ELSE role[r]]
  /\ UNCHANGED account

\* What a request that holds its mutex does by itself.
Proceed(r) ==
  CheckName(r) \/ ChooseRole(r) \/ Commit(r) \/ Respond(r) \/ Refuse(r)

Next ==
  \/ \E r \in Requests : Arrive(r) \/ TakeMutex(r) \/ LockRow(r) \/ Proceed(r)
  \/ \E p \in Procs : Crash(p)

Spec == Init /\ [][Next]_vars

(***************************************************************************)
(* Fairness.  A request that holds its mutex gets on, or a statement of it  *)
(* fails; one that waits for the row is among these, since InnoDB ends a    *)
(* lock wait with an error in the end.  A wait for the mutex has no timeout,*)
(* but Go's mutex starves nobody: who finds it free again and again, gets   *)
(* it.                                                                      *)
(***************************************************************************)
Fairness ==
  \A r \in Requests : WF_vars(LockRow(r) \/ Proceed(r)) /\ SF_vars(TakeMutex(r))

-----------------------------------------------------------------------------
(***************************************************************************)
(* Properties.                                                              *)
(***************************************************************************)

\* As soon as there is a user there is exactly one administrator, and it is one
\* that proved to know the token, however the processes' registrations overlap.
OneBootstrappedAdmin ==
  Users # {} =>
    \E a \in Users \cap TokenHolders : \A u \in Users : account[u] = "admin" <=> u = a

\* What a request has read of the users, to refuse a taken identity and to decide
\* the role, is still true when it inserts its account: in the processes together
\* nobody commits one in between.
CheckStaysValid ==
  \A r \in Requests : phase[r] \in {"checked", "chosen"} => view[r] = Users

\* Registrations are atomic: they behave as the contract says.
Contract == INSTANCE RegistrationContract
ImplementsContract == Contract!Spec

\* Two locks, several processes, errors and crashes: no request that queues for
\* the mutex waits for ever.
EveryRegistrationEnds == \A r \in Requests : phase[r] = "waiting" ~> phase[r] \in Ended
=============================================================================
