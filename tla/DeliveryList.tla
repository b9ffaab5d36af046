---------------------------- MODULE DeliveryList ----------------------------
(***************************************************************************)
(* The list of webhook deliveries in an operator's console                  *)
(* (web/src/composables/useWebhookDeliveries.ts, with what                  *)
(* WebhookDeliveryFilters and WebhookDeliveryList let the operator do)      *)
(* before ListWebhookDeliveries and RetryWebhookDelivery.                   *)
(*                                                                          *)
(* A retry is claimed and posted as in WebhookDelivery; every write of a    *)
(* row gives it a new version, so that older and newer states of it can be  *)
(* told apart.  The worker and other operators retry rows too.  Requests    *)
(* are served and answered in any order, and fail before or after.          *)
(***************************************************************************)
EXTENDS Integers, FiniteSets

CONSTANTS
  Deliveries,
  Slots,       \* requests in flight at once
  NoDelivery,  \* a load that is of no retry
  MaxVersion   \* bound of the model: writes of a row

DeliveriesAssumption == NoDelivery \notin Deliveries /\ MaxVersion \in Nat

VARIABLES
  row,          \* status and version of each row
  items,        \* the rows shown
  filter,       \* the filter in force
  isLoading,
  retryingIds,
  call,         \* the request in each slot
  told          \* version of the last retry answered, for each row

console == <<items, filter, isLoading, retryingIds, told>>
vars == <<row, console, call>>

Statuses == {"failed", "retrying", "succeeded"}
Filters == {"all", "failed"}
Matches(status, f) == f = "all" \/ status = f

NoCall == [kind |-> "none"]

\* live: loadSequence has not moved on since; for: the retry it ends; stage and
\* answer: how far the server is.
Load(f, retried) ==
  [kind |-> "load", filter |-> f, for |-> retried, live |-> TRUE, stage |-> "sent", answer |-> {}]
Retry(d) == [kind |-> "retry", for |-> d, stage |-> "sent", answer |-> {}]

Shown(d) == {item \in items : item.id = d}
Row(d) == [id |-> d, status |-> row[d].status, version |-> row[d].version]

\* The list loads at once (onMounted).
Init ==
  /\ row \in [Deliveries -> [status : Statuses \ {"retrying"}, version : {0}]]
  /\ items = {} /\ filter = "all" /\ isLoading = TRUE /\ retryingIds = {}
  /\ told = [d \in Deliveries |-> 0]
  /\ \E s \in Slots :
       call = [x \in Slots |-> IF x = s THEN Load("all", NoDelivery) ELSE NoCall]

-----------------------------------------------------------------------------
(***************************************************************************)
(* The server.                                                              *)
(***************************************************************************)
Write(d, status) ==
  /\ row[d].version < MaxVersion
  /\ row' = [row EXCEPT ![d] = [status |-> status, version |-> @.version + 1]]

ClaimedHere(d) == \E s \in Slots : call[s].kind = "retry" /\ call[s].for = d /\ call[s].stage = "claimed"

\* The worker, or another operator, claims a row or writes its attempt back.
Elsewhere(d) ==
  /\ \/ row[d].status = "failed" /\ Write(d, "retrying")
     \/ row[d].status = "retrying" /\ ~ClaimedHere(d)
          /\ \E status \in {"failed", "succeeded"} : Write(d, status)
  /\ UNCHANGED <<console, call>>

\* ListWebhookDeliveries.
ServeLoad(s) ==
  /\ call[s].kind = "load" /\ call[s].stage = "sent"
  /\ call' = [call EXCEPT ![s].stage = "served",
       ![s].answer = {Row(d) : d \in {e \in Deliveries : Matches(row[e].status, call[s].filter)}}]
  /\ UNCHANGED <<row, console>>

\* ClaimFailedWebhookDelivery takes a failed row, or a retrying one whose lease has
\* run out; 409 if the row is not failed and its lease holds.
Claim(s) ==
  /\ call[s].kind = "retry" /\ call[s].stage = "sent"
  /\ UNCHANGED console
  /\ LET d == call[s].for IN
     \/ /\ row[d].status = "failed" \/ (row[d].status = "retrying" /\ ~ClaimedHere(d))
        /\ Write(d, "retrying")
        /\ call' = [call EXCEPT ![s].stage = "claimed"]
     \/ /\ row[d].status # "failed"
        /\ UNCHANGED row
        /\ call' = [call EXCEPT ![s].stage = "conflict"]

\* The callback is posted and its outcome written back and answered.
Attempt(s) ==
  /\ call[s].kind = "retry" /\ call[s].stage = "claimed"
  /\ LET d == call[s].for IN
     \E status \in {"failed", "succeeded"} :
       /\ Write(d, status)
       /\ call' = [call EXCEPT ![s].stage = "served",
            ![s].answer = {[id |-> d, status |-> status, version |-> row[d].version + 1]}]
  /\ UNCHANGED console

-----------------------------------------------------------------------------
(***************************************************************************)
(* The console.                                                             *)
(***************************************************************************)
Superseded == [s \in Slots |-> IF call[s].kind = "load"
                               THEN [call[s] EXCEPT !.live = FALSE] ELSE call[s]]

StartLoad(s, f, retried) ==
  /\ filter' = f /\ isLoading' = TRUE
  /\ call' = [Superseded EXCEPT ![s] = Load(f, retried)]

\* The filters are disabled while the list loads; load refuses during a retry.
Apply(s, f) ==
  /\ ~isLoading /\ retryingIds = {} /\ call[s] = NoCall
  /\ StartLoad(s, f, NoDelivery)
  /\ UNCHANGED <<row, items, retryingIds, told>>

\* retry: not while the list loads, and once at a time; the button is beside
\* failed rows.
StartRetry(s, d) ==
  /\ ~isLoading /\ d \notin retryingIds /\ call[s] = NoCall
  /\ \E item \in Shown(d) : item.status = "failed"
  /\ retryingIds' = retryingIds \cup {d}
  /\ call' = [call EXCEPT ![s] = Retry(d)]
  /\ UNCHANGED <<row, items, filter, isLoading, told>>

\* The end of load, and of the retry that waits for it.
LoadEnds(s) ==
  /\ isLoading' = (isLoading /\ ~call[s].live)
  /\ retryingIds' = retryingIds \ {call[s].for}
  /\ call' = [call EXCEPT ![s] = NoCall]
  /\ UNCHANGED <<row, filter, told>>

\* Mutant of Counts: every answer counts.
CountsAlways(s) == TRUE

\* Only the newest load is shown.
Counts(s) == call[s].live

ReceiveLoad(s) ==
  /\ call[s].kind = "load" /\ call[s].stage = "served"
  /\ items' = IF Counts(s) THEN call[s].answer ELSE items
  /\ LoadEnds(s)

\* The row answered replaces the one shown, or leaves a list whose filter it does
\* not match; then the list is loaded whatever else is in flight.
ReceiveRetry(s) ==
  /\ call[s].kind = "retry" /\ call[s].stage = "served"
  /\ \E updated \in call[s].answer :
       LET d == updated.id IN
       /\ items' = (items \ Shown(d)) \cup
            {item \in {updated} : Shown(d) # {} /\ Matches(updated.status, filter)}
       /\ told' = [told EXCEPT ![d] = updated.version]
       /\ StartLoad(s, filter, d)
  /\ UNCHANGED <<row, retryingIds>>

\* 409: the list is loaded.
ReceiveConflict(s) ==
  /\ call[s].kind = "retry" /\ call[s].stage = "conflict"
  /\ StartLoad(s, filter, call[s].for)
  /\ UNCHANGED <<row, items, retryingIds, told>>

\* Any other error; a retry that was claimed goes on at the server.
Fail(s) ==
  /\ UNCHANGED items
  /\ \/ call[s].kind = "load" /\ LoadEnds(s)
     \/ /\ call[s].kind = "retry"
        /\ retryingIds' = retryingIds \ {call[s].for}
        /\ call' = [call EXCEPT ![s] = NoCall]
        /\ UNCHANGED <<row, filter, isLoading, told>>

Next ==
  \/ \E d \in Deliveries : Elsewhere(d)
  \/ \E s \in Slots :
       \/ ServeLoad(s) \/ Claim(s) \/ Attempt(s)
       \/ \E f \in Filters : Apply(s, f)
       \/ \E d \in Deliveries : StartRetry(s, d)
       \/ ReceiveLoad(s) \/ ReceiveRetry(s) \/ ReceiveConflict(s) \/ Fail(s)

Spec == Init /\ [][Next]_vars

-----------------------------------------------------------------------------
(***************************************************************************)
(* Properties.                                                              *)
(***************************************************************************)

\* A row once answered to a retry is never shown older than that again, although
\* retries overlap and each loads the list: the operator who saw a delivery
\* succeed does not see it failed and retry it.  Rows appear once, and the
\* spinners belong to the newest load and to retries that are not over.
NothingOlder ==
  /\ \A item \in items : item.version >= told[item.id] /\ Shown(item.id) = {item}
  /\ isLoading <=> \E s \in Slots : call[s].kind = "load" /\ call[s].live
  /\ retryingIds = {call[s].for : s \in {x \in Slots : call[x] # NoCall}} \ {NoDelivery}
=============================================================================
