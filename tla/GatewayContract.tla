--------------------------- MODULE GatewayContract ---------------------------
(***************************************************************************)
(* What the gateway promises the receivers of its callbacks, with no calls, *)
(* reviewers, rows or attempts: a request is ruled on once, every callback  *)
(* about it says that ruling, and what is confirmed was said and stays      *)
(* confirmed.                                                               *)
(***************************************************************************)
CONSTANTS
  Requests,  \* moderation requests
  Payloads,  \* what a callback may say
  Open       \* "not ruled on yet"

VARIABLES
  ruled,     \* what is in force for a request
  said,      \* what callbacks have said about it
  confirmed  \* the requests of which a receiver has confirmed a callback

vars == <<ruled, said, confirmed>>

Init ==
  /\ ruled = [r \in Requests |-> Open]
  /\ said = [r \in Requests |-> {}]
  /\ confirmed = {}

Rule(r) ==
  /\ ruled[r] = Open
  /\ \E p \in Payloads : ruled' = [ruled EXCEPT ![r] = p]
  /\ UNCHANGED <<said, confirmed>>

Say(r) ==
  /\ ruled[r] # Open
  /\ said' = [said EXCEPT ![r] = @ \cup {ruled[r]}]
  /\ UNCHANGED <<ruled, confirmed>>

Confirm(r) ==
  /\ said[r] # {}
  /\ confirmed' = confirmed \cup {r}
  /\ UNCHANGED <<ruled, said>>

Next == \E r \in Requests : Rule(r) \/ Say(r) \/ Confirm(r)

Spec == Init /\ [][Next]_vars
=============================================================================
