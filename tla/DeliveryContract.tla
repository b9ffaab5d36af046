-------------------------- MODULE DeliveryContract --------------------------
(***************************************************************************)
(* What an operator or a receiving client may rely on about one persisted  *)
(* webhook delivery, whoever works on it and however often they crash: an   *)
(* attempt is counted before it can have an outcome, an outcome is          *)
(* recorded only for the attempt that holds the record, and a delivery      *)
(* recorded as succeeded never becomes anything else.  No processes,        *)
(* leases or timeouts here: WebhookDelivery implements this module.         *)
(***************************************************************************)
EXTENDS Naturals

CONSTANT Deliveries

VARIABLES
  status,     \* what the webhook_deliveries row says, "none" before it exists
  attempts    \* its attempt_count

vars == <<status, attempts>>

Outcomes == {"succeeded", "failed"}

Init ==
  /\ status = [d \in Deliveries |-> "none"]
  /\ attempts = [d \in Deliveries |-> 0]

\* The synchronous first attempt is recorded together with its outcome.
RecordFirst(d, outcome) ==
  /\ status[d] = "none"
  /\ status' = [status EXCEPT ![d] = outcome]
  /\ attempts' = [attempts EXCEPT ![d] = 1]

\* A retry takes the record, and only a record without a success.
Take(d) ==
  /\ status[d] \in {"failed", "retrying"}
  /\ status' = [status EXCEPT ![d] = "retrying"]
  /\ attempts' = [attempts EXCEPT ![d] = @ + 1]

\* The attempt that holds the record says how it ended.
Settle(d, outcome) ==
  /\ status[d] = "retrying"
  /\ status' = [status EXCEPT ![d] = outcome]
  /\ UNCHANGED attempts

Next ==
  \E d \in Deliveries :
    \/ Take(d)
    \/ \E outcome \in Outcomes : RecordFirst(d, outcome) \/ Settle(d, outcome)

Spec == Init /\ [][Next]_vars
=============================================================================
