--------------------------- MODULE OperationsStats ---------------------------
(***************************************************************************)
(* GormRepository.GetStats and Service.GetStats: twelve COUNT queries, one  *)
(* after the other, in a read-only transaction at REPEATABLE READ, while    *)
(* checks, reviews and deliveries commit; and the figures a console derives *)
(* its dashboard from.                                                      *)
(*                                                                          *)
(* A row of each table is named by its request.  A request has at most one  *)
(* delivery here, recorded after its decision in a transaction of its own.  *)
(***************************************************************************)
EXTENDS Naturals, Sequences, FiniteSets

CONSTANTS
  Requests,  \* moderation requests
  NoReport   \* "no report has been served"

StatsAssumption == IsFiniteSet(Requests)

VARIABLES
  tables,   \* what is committed
  view,     \* the snapshot of the transaction of GetStats
  counted,  \* the counts it has made, in the order of Queries
  report    \* the last figures served

vars == <<tables, view, counted, report>>

NoCase   == [status |-> "none", final |-> "none"]
Pending  == [status |-> "pending", final |-> "none"]
Rulings  == [status : {"approved"}, final : {"allow"}] \cup
            [status : {"rejected"}, final : {"block"}] \cup
            [status : {"mistake"}, final : {"allow", "block"}]
Delivery == {"succeeded", "failed", "retrying"}

Tables ==
  [decision : [Requests -> {"none", "allow", "block", "review"}],
   case     : [Requests -> Rulings \cup {NoCase, Pending}],
   delivery : [Requests -> Delivery \cup {"none"}]]

\* statsCountQueries: what each query counts, in its order.
Queries(t) ==
  LET decided(d) == {r \in Requests : t.decision[r] = d}
      ruled(d)   == {r \in Requests : t.case[r].final = d /\ t.case[r].status # "pending"}
      cases(s)   == {r \in Requests : t.case[r].status = s}
      sent(s)    == {r \in Requests : t.delivery[r] = s}
  IN << Requests \ decided("none"), decided("allow"), decided("block"),
        ruled("allow"), ruled("block"),
        cases("pending"), Requests \ (cases("none") \cup cases("pending")), cases("mistake"),
        Requests \ sent("none"), sent("succeeded"), sent("failed"), sent("retrying") >>

NumQueries == 12

Reports ==
  [totalModerated : Nat, allowed : Nat, blocked : Nat, pendingReview : Nat,
   reviewed : Nat, mistakes : Nat,
   webhookTotal : Nat, webhookSucceeded : Nat, webhookFailed : Nat, webhookRetrying : Nat]

TypeOK ==
  /\ tables \in Tables
  /\ view \in Tables
  /\ counted \in Seq(Nat) /\ Len(counted) <= NumQueries
  /\ report \in Reports \cup {NoReport}

Empty ==
  [decision |-> [r \in Requests |-> "none"],
   case     |-> [r \in Requests |-> NoCase],
   delivery |-> [r \in Requests |-> "none"]]

Init ==
  /\ tables = Empty
  /\ view = Empty
  /\ counted = <<>>
  /\ report = NoReport

-----------------------------------------------------------------------------
(***************************************************************************)
(* What commits meanwhile.                                                  *)
(***************************************************************************)

\* SaveCheck: the result, and a pending case with a review.
SaveCheck(r, d) ==
  /\ tables.decision[r] = "none"
  /\ tables' = [tables EXCEPT !.decision[r] = d,
                              !.case[r] = IF d = "review" THEN Pending ELSE NoCase]
  /\ UNCHANGED <<view, counted, report>>

\* FinalizeReviewCase
FinalizeReviewCase(r, ruling) ==
  /\ tables.case[r] = Pending
  /\ tables' = [tables EXCEPT !.case[r] = ruling]
  /\ UNCHANGED <<view, counted, report>>

\* SaveWebhookDelivery, for a final decision.
SaveWebhookDelivery(r, outcome) ==
  /\ tables.delivery[r] = "none"
  /\ tables.decision[r] \in {"allow", "block"} \/ tables.case[r] \in Rulings
  /\ outcome # "retrying"
  /\ tables' = [tables EXCEPT !.delivery[r] = outcome]
  /\ UNCHANGED <<view, counted, report>>

\* A claim, or the outcome of one.
RetryWebhookDelivery(r, new) ==
  /\ <<tables.delivery[r], new>> \in
       {<<"failed", "retrying">>, <<"retrying", "failed">>, <<"retrying", "succeeded">>}
  /\ tables' = [tables EXCEPT !.delivery[r] = new]
  /\ UNCHANGED <<view, counted, report>>

-----------------------------------------------------------------------------
(***************************************************************************)
(* GetStats.                                                                *)
(***************************************************************************)

\* Mutant of Visible: the default of other databases, READ COMMITTED.
LatestCommitted == tables

\* What the next query reads: the first one takes the transaction's snapshot.
Visible == IF counted = <<>> THEN tables ELSE view

\* One query of statsCountQueries.
Count ==
  /\ Len(counted) < NumQueries
  /\ view' = Visible
  /\ counted' = Append(counted, Cardinality(Queries(Visible)[Len(counted) + 1]))
  /\ UNCHANGED <<tables, report>>

\* Mutant of Figures: two counts of the list are mixed up.
FiguresMixedUp(n) ==
  [totalModerated |-> n[1], allowed |-> n[2] + n[4], blocked |-> n[3] + n[5],
   pendingReview |-> n[6], reviewed |-> n[7], mistakes |-> n[8],
   webhookTotal |-> n[9], webhookSucceeded |-> n[11],
   webhookFailed |-> n[10], webhookRetrying |-> n[12]]

\* Service.GetStats: decisions of the policy and of reviewers are added up.
Figures(n) ==
  [totalModerated |-> n[1], allowed |-> n[2] + n[4], blocked |-> n[3] + n[5],
   pendingReview |-> n[6], reviewed |-> n[7], mistakes |-> n[8],
   webhookTotal |-> n[9], webhookSucceeded |-> n[10],
   webhookFailed |-> n[11], webhookRetrying |-> n[12]]

\* The transaction ends and the figures are served.
Serve ==
  /\ Len(counted) = NumQueries
  /\ report' = Figures(counted)
  /\ counted' = <<>> /\ view' = Empty
  /\ UNCHANGED tables

\* A query fails and the caller gets an error.
Abort ==
  /\ counted # <<>>
  /\ counted' = <<>> /\ view' = Empty
  /\ UNCHANGED <<tables, report>>

Next ==
  \/ \E r \in Requests :
       \/ \E d \in {"allow", "block", "review"} : SaveCheck(r, d)
       \/ \E ruling \in Rulings : FinalizeReviewCase(r, ruling)
       \/ \E outcome \in Delivery :
            SaveWebhookDelivery(r, outcome) \/ RetryWebhookDelivery(r, outcome)
  \/ Count \/ Serve \/ Abort

Spec == Init /\ [][Next]_vars

-----------------------------------------------------------------------------
(***************************************************************************)
(* Properties.                                                              *)
(***************************************************************************)

\* docs/API.md: the figures are one consistent snapshot.  Every moderated text is
\* allowed, blocked or waiting, the deliveries are the sum of their statuses, and
\* no more cases are mistakes than are reviewed, whatever commits between the
\* queries.
FiguresAddUp ==
  /\ TypeOK
  /\ report # NoReport =>
       /\ report.totalModerated = report.allowed + report.blocked + report.pendingReview
       /\ report.webhookTotal =
            report.webhookSucceeded + report.webhookFailed + report.webhookRetrying
       /\ report.mistakes <= report.reviewed

\* A dashboard refreshed by one reader, each call after the answer of the one
\* before, never goes backwards in what is final: GetStats counts decisions where
\* they stay (an approved case adds to the review's count and leaves the policy's
\* alone), although rows move from failed to retrying and from pending to reviewed.
FiguresGrow ==
  [][report # NoReport =>
       /\ report'.totalModerated >= report.totalModerated
       /\ report'.allowed >= report.allowed /\ report'.blocked >= report.blocked
       /\ report'.reviewed >= report.reviewed /\ report'.mistakes >= report.mistakes
       /\ report'.webhookSucceeded >= report.webhookSucceeded]_vars
=============================================================================
