------------------------------ MODULE Console ------------------------------
(***************************************************************************)
(* The operator's console shows one view at a time                          *)
(* (web/src/components/reviews/ReviewWorkspace.vue: v-if, v-else-if): the   *)
(* composable of a view is made when it is opened and gone when another one *)
(* is, together with what it showed and with the answers it still waits     *)
(* for.  Variables of one name are those of the view that is open.          *)
(*                                                                          *)
(* A view opened later starts like a first one; what the console left on    *)
(* the server by then is what other operators do there as well.  So a       *)
(* behaviour is that of one view from its opening on.                       *)
(***************************************************************************)
EXTENDS Integers, FiniteSets, Sequences

CONSTANTS
  QueueCases, NoCase, Slots,                                \* ReviewQueue
  HistoryCases, Outcomes, Times, PageSize, HistorySlots,    \* ReviewHistory
  Deliveries, NoDelivery, MaxWrites,                        \* DeliveryList
  Clients, NoClient, NoSecret, MaxChanges,                  \* ClientList
  Unmounted                                                 \* of a view that is not open

VARIABLES
  activeView,
  items, isLoading, call,                                   \* of every view
  status, selected, isLoadingDetail,                        \* of both views of cases
  isSubmitting, settled,                            \* ReviewQueue
  reviewedAt, nextCursor, isLoadingMore, due,               \* ReviewHistory
  filter,                                                   \* ReviewHistory, DeliveryList
  row, retryingIds,                                         \* DeliveryList
  told,                                                     \* DeliveryList, ClientList
  version, drawn, credential, isCreating, isGeneratingCredential, busyClientIds,
  received, closed                                          \* ClientList

Queue == INSTANCE ReviewQueue WITH Cases <- QueueCases
History == INSTANCE ReviewHistory WITH Cases <- HistoryCases, Slots <- HistorySlots
DeliveryView == INSTANCE DeliveryList WITH MaxVersion <- MaxWrites
ClientView == INSTANCE ClientList WITH MaxVersion <- MaxChanges

ASSUME ConsoleAssumption ==
  /\ Queue!NoCaseAssumption /\ History!HistoryAssumption
  /\ DeliveryView!DeliveriesAssumption /\ ClientView!ClientsAssumption

ofCases == <<status, selected, isLoadingDetail>>
ofQueue == <<isSubmitting, settled>>
ofHistory == <<reviewedAt, nextCursor, isLoadingMore, due>>
ofDeliveries == <<row, retryingIds>>
ofClients == <<version, drawn, credential, isCreating, isGeneratingCredential, busyClientIds,
               received, closed>>
vars == <<activeView, items, isLoading, call, ofCases, ofQueue, ofHistory, filter, ofDeliveries,
          told, ofClients>>

-----------------------------------------------------------------------------
Absent(variable) == variable = Unmounted

NoCases == Absent(status) /\ Absent(selected) /\ Absent(isLoadingDetail)
NoQueue == Absent(isSubmitting) /\ Absent(settled)
NoHistory == Absent(reviewedAt) /\ Absent(nextCursor) /\ Absent(isLoadingMore) /\ Absent(due)
NoDeliveries == Absent(row) /\ Absent(retryingIds)
NoClients ==
  /\ Absent(version) /\ Absent(drawn) /\ Absent(credential) /\ Absent(isCreating)
  /\ Absent(isGeneratingCredential) /\ Absent(busyClientIds) /\ Absent(received) /\ Absent(closed)

Init ==
  \/ /\ activeView = "pending" /\ Queue!Init
     /\ NoHistory /\ NoDeliveries /\ NoClients /\ Absent(filter) /\ Absent(told)
  \/ /\ activeView = "history" /\ History!Init
     /\ NoQueue /\ NoDeliveries /\ NoClients /\ Absent(told)
  \/ /\ activeView = "deliveries" /\ DeliveryView!Init
     /\ NoCases /\ NoQueue /\ NoHistory /\ NoClients
  \/ /\ activeView = "clients" /\ ClientView!Init
     /\ NoCases /\ NoQueue /\ NoHistory /\ NoDeliveries /\ Absent(filter)

Next ==
  /\ UNCHANGED activeView
  /\ \/ /\ activeView = "pending" /\ Queue!Next
        /\ UNCHANGED <<ofHistory, filter, ofDeliveries, told, ofClients>>
     \/ /\ activeView = "history" /\ History!Next
        /\ UNCHANGED <<ofQueue, ofDeliveries, told, ofClients>>
     \/ /\ activeView = "deliveries" /\ DeliveryView!Next
        /\ UNCHANGED <<ofCases, ofQueue, ofHistory, ofClients>>
     \/ /\ activeView = "clients" /\ ClientView!Next
        /\ UNCHANGED <<ofCases, ofQueue, ofHistory, filter, ofDeliveries>>

Spec == Init /\ [][Next]_vars

-----------------------------------------------------------------------------
(***************************************************************************)
(* Properties: those of the view that is open.                              *)
(***************************************************************************)

\* useReviews.ts: no answer, in whatever order, brings the form of a case back that
\* this console knows is ruled on, or leaves a spinner up.
FormFollowsRulings == activeView = "pending" => Queue!FormFollowsRulings

\* useReviewHistory.ts and ListReviewCases: the joined pages are ordered as one.
NewestFirst == activeView = "history" => History!NewestFirst

\* useReviewHistory.ts and ListReviewCases: no case between two shown ones is missed.
NothingSkipped == activeView = "history" => History!NothingSkipped

\* useReviewHistory.ts: filter, list, detail and flags belong together.
ViewBelongsTogether == activeView = "history" => History!ViewBelongsTogether

\* useWebhookDeliveries.ts: no list puts a row back to before a retry's answer.
NothingOlder == activeView = "deliveries" => DeliveryView!NothingOlder

\* useClients.ts: a secret that came in an answer is shown until it is closed.
SecretsAreShown == activeView = "clients" => ClientView!SecretsAreShown

\* useClients.ts: no list undoes what an operation answered.
AnswersStay == activeView = "clients" => ClientView!AnswersStay
=============================================================================
