-------------------------- MODULE DecisionContract --------------------------
(***************************************************************************)
(* What a client of the gateway is promised about one moderation request:   *)
(* the policy decides it once; if it asks for a review, one reviewer        *)
(* settles it once; and at most one first callback announces exactly the    *)
(* decision that settled it.  ModerationFlow implements this module.        *)
(***************************************************************************)
CONSTANT Requests

VARIABLES
  decided,    \* the decision in force: none, review (waiting), allow or block
  announced   \* the decision the first callback carried, or none

vars == <<decided, announced>>

Final == {"allow", "block"}

Init ==
  /\ decided = [r \in Requests |-> "none"]
  /\ announced = [r \in Requests |-> "none"]

Decide(r, d) ==
  /\ decided[r] = "none"
  /\ decided' = [decided EXCEPT ![r] = d]
  /\ UNCHANGED announced

Settle(r, d) ==
  /\ decided[r] = "review"
  /\ decided' = [decided EXCEPT ![r] = d]
  /\ UNCHANGED announced

Announce(r) ==
  /\ decided[r] \in Final /\ announced[r] = "none"
  /\ announced' = [announced EXCEPT ![r] = decided[r]]
  /\ UNCHANGED decided

Next ==
  \E r \in Requests :
    \/ \E d \in Final \cup {"review"} : Decide(r, d)
    \/ \E d \in Final : Settle(r, d)
    \/ Announce(r)

Spec == Init /\ [][Next]_vars
=============================================================================
