---------------------------- MODULE ReviewQueue ----------------------------
(***************************************************************************)
(* The queue of pending cases in an operator's console                      *)
(* (web/src/composables/useReviews.ts, with what PendingReviewWorkspace,    *)
(* ReviewQueue and ReviewDetail let the operator do) before the review      *)
(* endpoints: ListReviewCases, GetReviewCase and FinalizeReviewCase.        *)
(*                                                                          *)
(* Other operators and new checks change the rows at any time.  A request   *)
(* is served some time after it is sent and answered some time after that;  *)
(* answers overtake each other, and a request fails before or after it was  *)
(* served.  The order of the queue, texts and notices are left out.         *)
(***************************************************************************)
EXTENDS Integers, FiniteSets

CONSTANTS
  Cases,
  Slots,     \* requests in flight at once
  NoCase

NoCaseAssumption == NoCase \notin Cases

VARIABLES
  status,           \* of the row of each case: "absent", "pending" or "final"
  items,            \* the queue shown
  selected,         \* the case shown, as it was read
  isLoading, isLoadingDetail, isSubmitting,
  call,             \* the request in each slot
  settled           \* the cases this console has been told are ruled on

flags == <<isLoading, isLoadingDetail, isSubmitting>>
console == <<items, selected, flags, settled>>
vars == <<status, console, call>>

Nothing == [id |-> NoCase, status |-> "none"]
NoCall == [kind |-> "none"]

\* live: its detail is still the newest asked for; recovers: it refreshes the
\* queue after a conflict; answer: "none" until it is served.
NewCall(kind, id, recovers) ==
  [kind |-> kind, id |-> id, live |-> TRUE, recovers |-> recovers, served |-> FALSE, answer |-> {}]

\* The queue of a fresh workspace loads at once (onMounted).
Init ==
  /\ status \in [Cases -> {"absent", "pending"}]
  /\ items = {} /\ selected = Nothing
  /\ isLoading = TRUE /\ isLoadingDetail = FALSE /\ isSubmitting = FALSE
  /\ settled = {}
  /\ \E s \in Slots :
       call = [x \in Slots |-> IF x = s THEN NewCall("load", NoCase, FALSE) ELSE NoCall]

-----------------------------------------------------------------------------
(***************************************************************************)
(* The server.                                                              *)
(***************************************************************************)

\* A check opens a case (SaveCheck), another operator rules on one.
Elsewhere(c) ==
  /\ \/ status[c] = "absent" /\ status' = [status EXCEPT ![c] = "pending"]
     \/ status[c] = "pending" /\ status' = [status EXCEPT ![c] = "final"]
  /\ UNCHANGED <<console, call>>

Pending == {c \in Cases : status[c] = "pending"}

\* ListReviewCases, GetReviewCase and FinalizeReviewCase, each one transaction.
Served(s, answer) == call' = [call EXCEPT ![s].served = TRUE, ![s].answer = answer]

Serve(s) ==
  /\ call[s] # NoCall /\ ~call[s].served
  /\ UNCHANGED console
  /\ LET c == call[s].id IN
     \/ call[s].kind = "load" /\ Served(s, Pending) /\ UNCHANGED status
     \/ call[s].kind = "detail" /\ Served(s, {status[c]}) /\ UNCHANGED status
     \/ call[s].kind = "submit" /\ status[c] = "final"
          /\ Served(s, {"conflict"}) /\ UNCHANGED status
     \/ call[s].kind = "submit" /\ status[c] = "pending"
          /\ Served(s, {"saved"}) /\ status' = [status EXCEPT ![c] = "final"]

-----------------------------------------------------------------------------
(***************************************************************************)
(* What the operator does.                                                  *)
(***************************************************************************)

Superseded == [s \in Slots |-> IF call[s].kind = "detail"
                               THEN [call[s] EXCEPT !.live = FALSE] ELSE call[s]]

\* The button is disabled while the queue loads or a ruling is submitted.
Refresh(s) ==
  /\ ~isLoading /\ ~isSubmitting /\ call[s] = NoCall
  /\ isLoading' = TRUE
  /\ call' = [call EXCEPT ![s] = NewCall("load", NoCase, FALSE)]
  /\ UNCHANGED <<status, items, selected, isLoadingDetail, isSubmitting, settled>>

\* Mutant of CanSelect: the queue stays usable while a ruling is submitted.
CanSelectBusy == ~isLoading

\* The list is hidden while it loads, its entries are disabled during a submission.
CanSelect == ~isLoading /\ ~isSubmitting

\* selectReview.
SelectReview(s, c) ==
  /\ CanSelect /\ c \in items /\ call[s] = NoCall
  /\ isLoadingDetail' = TRUE
  /\ call' = [Superseded EXCEPT ![s] = NewCall("detail", c, FALSE)]
  /\ UNCHANGED <<status, items, selected, isLoading, isSubmitting, settled>>

\* The form is shown with a pending case, unless the detail loads.
CanSubmit == selected.status = "pending" /\ ~isLoadingDetail /\ ~isSubmitting

\* submitAction; the list may be loading.
SubmitAction(s) ==
  /\ CanSubmit /\ call[s] = NoCall
  /\ isSubmitting' = TRUE
  /\ call' = [call EXCEPT ![s] = NewCall("submit", selected.id, FALSE)]
  /\ UNCHANGED <<status, items, selected, isLoading, isLoadingDetail, settled>>

-----------------------------------------------------------------------------
(***************************************************************************)
(* Answers.                                                                 *)
(***************************************************************************)
Close(s) == call' = [call EXCEPT ![s] = NoCall]

\* The end of loadQueue, and of the submitAction that waits for it.
LoadEnds(s) ==
  /\ isLoading' = FALSE
  /\ isSubmitting' = (isSubmitting /\ ~call[s].recovers)
  /\ Close(s)

ReceiveQueue(s) ==
  /\ call[s].kind = "load" /\ call[s].served
  /\ items' = call[s].answer
  /\ selected' = IF selected.id \in call[s].answer THEN selected ELSE Nothing
  /\ LoadEnds(s)
  /\ UNCHANGED <<status, isLoadingDetail, settled>>

\* A detail is shown and its flag taken down only if no newer one was asked for.
ReceiveDetail(s) ==
  /\ call[s].kind = "detail" /\ call[s].served
  /\ IF call[s].live
     THEN \E found \in call[s].answer :
            /\ selected' = [id |-> call[s].id, status |-> found]
            /\ settled' = settled \cup (IF found = "final" THEN {call[s].id} ELSE {})
            /\ isLoadingDetail' = FALSE
     ELSE UNCHANGED <<selected, settled, isLoadingDetail>>
  /\ Close(s)
  /\ UNCHANGED <<status, items, isLoading, isSubmitting>>

\* The case leaves the queue; it stays in the detail if it is still there.
ReceiveSaved(s) ==
  /\ call[s].kind = "submit" /\ call[s].answer = {"saved"}
  /\ LET c == call[s].id IN
     /\ items' = items \ {c}
     /\ selected' = IF selected.id = c THEN [id |-> c, status |-> "final"] ELSE selected
     /\ settled' = settled \cup {c}
  /\ isSubmitting' = FALSE
  /\ Close(s)
  /\ UNCHANGED <<status, isLoading, isLoadingDetail>>

\* 409: details in flight are given up, and the queue is loaded again.
ReceiveConflict(s) ==
  /\ call[s].kind = "submit" /\ call[s].answer = {"conflict"}
  /\ items' = items \ {call[s].id}
  /\ selected' = Nothing
  /\ settled' = settled \cup {call[s].id}
  /\ isLoading' = TRUE
  /\ call' = [Superseded EXCEPT ![s] = NewCall("load", NoCase, TRUE)]
  /\ UNCHANGED <<status, isLoadingDetail, isSubmitting>>

\* Any other error: of the request, of the server, or of the way back.
Fail(s) ==
  /\ call[s] # NoCall
  /\ \/ call[s].kind = "load" /\ LoadEnds(s) /\ UNCHANGED isLoadingDetail
     \/ call[s].kind = "detail" /\ Close(s)
          /\ isLoadingDetail' = (isLoadingDetail /\ ~call[s].live)
          /\ UNCHANGED <<isLoading, isSubmitting>>
     \/ call[s].kind = "submit" /\ Close(s)
          /\ isSubmitting' = FALSE /\ UNCHANGED <<isLoading, isLoadingDetail>>
  /\ UNCHANGED <<status, items, selected, settled>>

Next ==
  \/ \E c \in Cases : Elsewhere(c)
  \/ \E s \in Slots :
       \/ Serve(s) \/ Refresh(s) \/ SubmitAction(s)
       \/ \E c \in Cases : SelectReview(s, c)
       \/ ReceiveQueue(s) \/ ReceiveDetail(s) \/ ReceiveSaved(s) \/ ReceiveConflict(s)
       \/ Fail(s)

Spec == Init /\ [][Next]_vars

-----------------------------------------------------------------------------
(***************************************************************************)
(* Properties.                                                              *)
(***************************************************************************)
InFlight(kind) == {s \in Slots : call[s].kind = kind}

\* The form is never offered for a case this console has been told is ruled on,
\* whatever answer comes last; a case being submitted is shown or put away, never
\* replaced; and every spinner has a request whose answer or failure takes it down.
FormFollowsRulings ==
  /\ selected.status = "pending" => selected.id \notin settled
  /\ \A s \in InFlight("submit") : selected.id \in {call[s].id, NoCase}
  /\ isLoadingDetail <=> \E s \in InFlight("detail") : call[s].live
  /\ isSubmitting <=>
       \E s \in Slots : call[s].kind = "submit" \/ (call[s].kind = "load" /\ call[s].recovers)
  /\ isLoading => InFlight("load") # {}
=============================================================================
