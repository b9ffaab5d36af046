---------------------------- MODULE ResultReads ----------------------------
(***************************************************************************)
(* Reading results: GetResult and GetResultForClient, the lookup by         *)
(* external_id (FindResultByClientExternalID), the audit list               *)
(* (ListHistory), and the lists and details of review cases                 *)
(* (ListReviewCases, GetReviewCase).                                        *)
(*                                                                          *)
(* Each makes three queries, one to a table, outside a transaction: the     *)
(* first finds the rows, the others load what belongs to them.  Checks are  *)
(* saved and cases finalized in between, each in a transaction.  Times,     *)
(* texts and cursors are left out: created_at is taken before the commit,   *)
(* so any rows may be the newest ones a list is limited to.                 *)
(***************************************************************************)
EXTENDS Naturals, FiniteSets, Sequences

CONSTANTS
  Requests,
  Principals,  \* who asks for checks: a user with a client, or with NoClient
  NoClient,
  Readers,     \* reading requests being served
  Limit,       \* of a list
  Nobody       \* owner of a request that is not saved

ASSUME ReadsAssumption == Limit \in Nat \ {0} /\ Nobody \notin Principals

VARIABLES
  owner,     \* of each request; the three tables all repeat it
  rows,      \* request ids in each table
  decision,  \* of each result
  ruling,    \* of each case: "pending", or what a reviewer decided
  read       \* what each reader has found so far

stored == <<owner, rows, decision, ruling>>
vars == <<stored, read>>

Tables == {"requests", "results", "cases"}
Rulings == {"allow", "block"}

Idle == [stage |-> "idle"]

Init ==
  /\ owner = [r \in Requests |-> Nobody]
  /\ rows = [t \in Tables |-> {}]
  /\ decision = [r \in Requests |-> "none"]
  /\ ruling = [r \in Requests |-> "none"]
  /\ read = [d \in Readers |-> Idle]

-----------------------------------------------------------------------------
\* SaveCheck: request, result and, for a review, a pending case, at once.
SaveCheck(r, p, v) ==
  /\ owner[r] = Nobody
  /\ owner' = [owner EXCEPT ![r] = p]
  /\ rows' = [t \in Tables |-> IF t # "cases" \/ v = "review" THEN rows[t] \cup {r} ELSE rows[t]]
  /\ decision' = [decision EXCEPT ![r] = v]
  /\ ruling' = [ruling EXCEPT ![r] = IF v = "review" THEN "pending" ELSE "none"]
  /\ UNCHANGED read

\* FinalizeReviewCase.
Finalize(r, d) ==
  /\ ruling[r] = "pending"
  /\ ruling' = [ruling EXCEPT ![r] = d]
  /\ UNCHANGED <<owner, rows, decision, read>>

-----------------------------------------------------------------------------
(***************************************************************************)
(* Readers.  cases is what a reader has read of the cases; missing tells    *)
(* that rows were not there, which is answered as an error; before is what  *)
(* had been ruled when it began.                                            *)
(***************************************************************************)

\* The first query found some rows; these tables are still to be read.
Found(d, ids, todo, cases) ==
  read' = [read EXCEPT ![d] =
    [stage |-> "reading", ids |-> ids, todo |-> todo, cases |-> cases, missing |-> FALSE,
     before |-> ruling]]

NoCases == [r \in Requests |-> "none"]
Starts(d) == read[d] = Idle /\ UNCHANGED stored

\* userScopedResultQuery and clientScopedResultQuery.
InScope(r, p) ==
  owner[r] # Nobody /\ owner[r].user = p.user /\ p.client \in {NoClient, owner[r].client}

\* GetResult, GetResultForClient, FindResultByClientExternalID.
GetResult(d, r, p) ==
  /\ Starts(d)
  /\ r \in rows["requests"] /\ InScope(r, p)
  /\ Found(d, {r}, <<"results", "cases">>, NoCases)

\* A list takes as many of the rows that match as its limit allows.
Listed(matching) ==
  {ids \in SUBSET matching :
     Cardinality(ids) = Limit \/ (ids = matching /\ Cardinality(ids) < Limit)}

\* ListHistory, of one decision or of all, and of what a client_id and an
\* external_id choose, which may be any of the rows.
ListHistory(d, wanted) ==
  /\ Starts(d)
  /\ \E chosen \in SUBSET rows["results"] :
     \E ids \in Listed({r \in chosen : decision[r] \in wanted}) :
       Found(d, ids, <<"requests", "cases">>, NoCases)

\* ListReviewCases, of pending or finalized cases; GetReviewCase, of any.
ReadCases(d, wanted) ==
  /\ Starts(d)
  /\ \E ids \in Listed({r \in rows["cases"] : ruling[r] \in wanted}) :
       Found(d, ids, <<"requests", "results">>,
             [r \in Requests |-> IF r \in ids THEN ruling[r] ELSE "none"])

\* Mutant of CaseOf: the client is compared as if every request had one.
CaseOfClient(r) == IF owner[r].client = NoClient THEN "none" ELSE ruling[r]

\* loadReviewCaseForRequest, loadReviewCasesByRequestID: no case is no error.
CaseOf(r) == ruling[r]

\* The next query, by the ids found.
Load(d) ==
  /\ read[d].stage = "reading" /\ read[d].todo # <<>>
  /\ LET q == read[d]  table == Head(q.todo) IN
     read' = [read EXCEPT ![d] =
       IF table = "cases"
       THEN [q EXCEPT !.todo = Tail(@),
              !.cases = [r \in Requests |-> IF r \in q.ids THEN CaseOf(r) ELSE "none"]]
       ELSE [q EXCEPT !.todo = Tail(@), !.missing = @ \/ ~(q.ids \subseteq rows[table])]]
  /\ UNCHANGED stored

\* The answer is sent, or a query fails.
End(d) ==
  /\ read[d] # Idle
  /\ read' = [read EXCEPT ![d] = Idle]
  /\ UNCHANGED stored

Next ==
  \/ \E r \in Requests :
       \/ \E p \in Principals, v \in Rulings \cup {"review"} : SaveCheck(r, p, v)
       \/ \E v \in Rulings : Finalize(r, v)
  \/ \E d \in Readers :
       \/ \E r \in Requests, p \in Principals : GetResult(d, r, p)
       \/ \E v \in Rulings \cup {"review"} : ListHistory(d, {v})
       \/ ListHistory(d, Rulings \cup {"review"})
       \/ ReadCases(d, {"pending"}) \/ ReadCases(d, Rulings) \/ ReadCases(d, Rulings \cup {"pending"})
       \/ Load(d) \/ End(d)

Spec == Init /\ [][Next]_vars

-----------------------------------------------------------------------------
(***************************************************************************)
(* Properties.                                                              *)
(***************************************************************************)
Answered(d) == read[d].stage = "reading" /\ read[d].todo = <<>>

\* Three queries answer like one: no row that was listed lacks its request or its
\* result (an error for the whole list), a result comes with a case exactly if its
\* decision is review, and a case is never shown in an earlier state than it was in
\* when the read began, so that who polls, or reads after a callback, does not see
\* a ruling undone.
ReadsHoldTogether ==
  \A d \in Readers : Answered(d) =>
    LET q == read[d] IN
    /\ ~q.missing
    /\ \A r \in q.ids :
         /\ (decision[r] = "review") = (q.cases[r] # "none")
         /\ q.before[r] \in Rulings => q.cases[r] = q.before[r]
         /\ q.cases[r] \in Rulings => q.cases[r] = ruling[r]
=============================================================================
