------------------------ MODULE RegistrationContract ------------------------
(***************************************************************************)
(* What registration promises an operator who sets up an empty database:    *)
(* accounts come into being one at a time, the first one is an              *)
(* administrator and was asked for with the bootstrap token, every later    *)
(* one is an ordinary user.  Registration implements this module.           *)
(***************************************************************************)
CONSTANTS
  Requests,      \* registration requests; each creates at most one account
  TokenHolders   \* those that carry the configured bootstrap token

VARIABLE account  \* the role of the account a request created, "none" if none

Roles == {"admin", "user"}

Init == account = [r \in Requests |-> "none"]

Someone == \E r \in Requests : account[r] # "none"

Bootstrap(r) ==
  /\ ~Someone /\ r \in TokenHolders
  /\ account' = [account EXCEPT ![r] = "admin"]

Join(r) ==
  /\ Someone /\ account[r] = "none"
  /\ account' = [account EXCEPT ![r] = "user"]

Next == \E r \in Requests : Bootstrap(r) \/ Join(r)

Spec == Init /\ [][Next]_account
=============================================================================
