------------------------------- MODULE Gateway -------------------------------
(***************************************************************************)
(* The way of a decision to its receiver: ModerationFlow up to the first    *)
(* callback, and WebhookDelivery from there on, joined where they meet,     *)
(* in dispatchFinalDecision.  The call or reviewer that posts a decision    *)
(* makes the first attempt of its delivery and inserts the row, with the    *)
(* payload that all retries will send again.                                *)
(*                                                                          *)
(* A dispatch makes a delivery with an id of its own.  Here the delivery    *)
(* bears the name of the request: that there is no second one is what       *)
(* HandoversFit says.                                                       *)
(***************************************************************************)
EXTENDS ModerationFlow, FiniteSets

CONSTANTS
  Workers, Operators, NoDelivery, MaxAttempts, BatchSize,
  Lease, StatusTimeout, ClaimDelay, AttemptCap,  \* of WebhookDelivery
  NoPayload                                      \* "no row", "not ruled on"

VARIABLES
  first, status, attempts, age, sent, batch,
  stage, job, timer, mine, outcome,              \* of WebhookDelivery
  payload,   \* webhook_deliveries.payload
  received   \* history: what callbacks have said about a request

D == INSTANCE WebhookDelivery WITH Deliveries <- Checks

ASSUME GatewayAssumption ==
  /\ D!ConfigAssumption /\ D!ProcessAssumption /\ D!TimingAssumption
  /\ NoPayload \notin Payloads

deliveryVars == <<first, status, attempts, age, sent, batch, stage, job, timer, mine, outcome>>
gatewayVars == <<vars, deliveryVars, payload, received>>

GatewayInit ==
  /\ Init /\ D!Init
  /\ payload = [c \in Checks |-> NoPayload]
  /\ received = [c \in Checks |-> {}]

-----------------------------------------------------------------------------
\* A callback about c says p.
Says(c, p) == received' = [received EXCEPT ![c] = @ \cup {p}]

\* The delivery that was posted is recorded with what was posted, or it is not,
\* because the insert or the process fails.
EndFirst(c) ==
  /\ \/ /\ \E result \in D!Outcomes : D!RecordFirst(c, result)
        /\ payload' = [payload EXCEPT ![c] = posts[c][Len(posts[c])]]
     \/ D!LoseFirst(c) /\ UNCHANGED payload
  /\ UNCHANGED received

\* dispatchFinalDecision, called by Check.
AnnounceDecision(c) ==
  /\ PostDecision(c) /\ D!PostFirst(c)
  /\ Says(c, [decision |-> decision[c], status |-> "none"])
  /\ UNCHANGED payload

\* The call returns, or its process dies after the insert or before it.
EndAnnouncement(c) ==
  /\ phase[c] = "recording" /\ (Finish(c) \/ Fail(c))
  /\ EndFirst(c)

\* dispatchFinalDecision, called by finalizeReviewCase.
AnnounceRuling(r) ==
  /\ PostRuling(r) /\ D!PostFirst(target[r])
  /\ Says(target[r], RulingPayload(r))
  /\ UNCHANGED payload

EndRuling(r) ==
  /\ step[r] = "recording" /\ Leave(r)
  /\ EndFirst(target[r])

\* Everything else that calls and reviewers do leaves deliveries alone.
CheckAlone(c) ==
  /\ CheckStep(c) /\ "recording" \notin {phase[c], phase'[c]}
  /\ UNCHANGED <<deliveryVars, payload, received>>

ReviewAlone(r) ==
  /\ ReviewStep(r) /\ "recording" \notin {step[r], step'[r]}
  /\ UNCHANGED <<deliveryVars, payload, received>>

\* Mutant of Repeats: the callback is made again of the policy decision.
RepeatsDecision(d) == [decision |-> decision[d], status |-> "none"]

\* What a retry says: the payload that was stored.
Repeats(d) == payload[d]

\* A retry posts (retryWebhookDelivery).
PostAgain(p) ==
  /\ \E result \in D!Outcomes : D!Post(p, result)
  /\ Says(job[p], Repeats(job[p]))
  /\ UNCHANGED <<vars, payload>>

\* Its other steps say nothing, and time passes.
RetryAlone ==
  /\ \/ \E w \in Workers : D!List(w) \/ D!BeginAutomatic(w)
     \/ \E o \in Operators : D!BeginManual(o)
     \/ \E p \in D!Procs :
          \/ D!Claim(p) \/ D!ClaimConflict(p) \/ D!ReadBack(p) \/ D!LookupFails(p)
          \/ D!Report(p) \/ D!Abandon(p) \/ D!Crash(p)
     \/ D!Tick
  /\ UNCHANGED <<vars, payload, received>>

GatewayNext ==
  \/ \E c \in Checks : AnnounceDecision(c) \/ EndAnnouncement(c) \/ CheckAlone(c)
  \/ \E r \in Reviewers : AnnounceRuling(r) \/ EndRuling(r) \/ ReviewAlone(r)
  \/ \E p \in D!Procs : PostAgain(p)
  \/ RetryAlone

GatewaySpec == GatewayInit /\ [][GatewayNext]_gatewayVars

-----------------------------------------------------------------------------
(***************************************************************************)
(* Properties.                                                              *)
(***************************************************************************)

\* The two parts fit where they meet, however calls and reviewers race: whoever is
\* about to post is the first, whoever is about to record has posted.  So a request
\* has one delivery, and WebhookDelivery holds nobody up in ModerationFlow.
HandoversFit ==
  /\ \A c \in Checks :
       /\ phase[c] = "saved" /\ verdict[c] # "review" => first[c] = "none"
       /\ phase[c] = "recording" => first[c] = "posted"
  /\ \A r \in Reviewers :
       /\ step[r] = "dispatching" => first[target[r]] = "none"
       /\ step[r] = "recording" => first[target[r]] = "posted"

\* What is in force for a request, as a callback is to say it.
ToSay(c) ==
  IF InForce(c) \in Final THEN [decision |-> InForce(c), status |-> case[c].status] ELSE NoPayload

\* From the call of Check to the last retry: what receivers are told is what is in
\* force, and a delivery that is recorded as succeeded has told it, for good.
EndToEnd ==
  INSTANCE GatewayContract WITH
    Requests <- Checks, Open <- NoPayload,
    ruled <- [c \in Checks |-> ToSay(c)],
    said <- received,
    confirmed <- {c \in Checks : status[c] = "succeeded"}
ImplementsEndToEnd == EndToEnd!Spec
=============================================================================
