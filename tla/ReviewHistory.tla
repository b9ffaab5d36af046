---------------------------- MODULE ReviewHistory ----------------------------
(***************************************************************************)
(* The review history: pages of finalized cases, newest first, that         *)
(* Service.ListReviewCases cuts by a keyset cursor while reviewers go on    *)
(* finalizing, and the console (useReviewHistory) that joins the pages.     *)
(*                                                                          *)
(* The console's requests are answered in any order, or fail.  It tells a   *)
(* late answer by sequence numbers; a request here carries `live` instead,  *)
(* which says that its number is still the latest.  Messages and errors     *)
(* shown to the user are left out.                                          *)
(***************************************************************************)
EXTENDS Naturals, Sequences, FiniteSets, Functions

CONSTANTS
  Cases,     \* review cases, by primary key
  Outcomes,  \* the final review statuses
  Times,     \* what clocks may show as reviewed_at
  PageSize,  \* limit of a page
  Slots,     \* bound of the model: requests of the console in flight
  NoCase     \* "no case"

HistoryAssumption ==
  /\ Cases \subseteq Nat /\ IsFiniteSet(Cases) /\ Times \subseteq Nat
  /\ PageSize \in Nat \ {0}
  /\ NoCase \notin Cases
  /\ Outcomes \cap {"pending", "completed"} = {}

\* The console's "all" is "completed" to the service.
Filters  == Outcomes \cup {"completed"}
NoCursor == [filter |-> "none", last |-> NoCase]
Cursors  == [filter : Filters, last : Cases] \cup {NoCursor}

VARIABLES
  status,           \* review_cases.status
  reviewedAt,       \* review_cases.reviewed_at
  filter,           \* the console's filter
  items,            \* the cases it shows, in order
  nextCursor,       \* where its next page begins
  selected,         \* the case whose detail it shows
  isLoading,
  isLoadingMore,
  isLoadingDetail,
  call,             \* its requests in flight
  due               \* history: the cases in the history when the shown first page was read

server == <<status, reviewedAt>>
vars == <<server, filter, items, nextCursor, selected,
          isLoading, isLoadingMore, isLoadingDetail, call, due>>

Kinds   == {"load", "more", "detail"}
Answers == [items : Seq(Cases), next : Cursors, due : SUBSET Cases, ok : BOOLEAN]
Calls   == [kind : Kinds \cup {"none"}, filter : Filters, cursor : Cursors,
            id : Cases \cup {NoCase}, live : BOOLEAN, answer : Answers]

NoAnswer == [items |-> <<>>, next |-> NoCursor, due |-> {}, ok |-> FALSE]
NewCall(kind, f, cursor, id) ==
  [kind |-> kind, filter |-> f, cursor |-> cursor, id |-> id, live |-> TRUE, answer |-> NoAnswer]
Idle == [NewCall("none", "completed", NoCursor, NoCase) EXCEPT !.live = FALSE]

TypeOK ==
  /\ status \in [Cases -> Outcomes \cup {"pending"}]
  /\ reviewedAt \in [Cases -> Times \cup {0}]
  /\ filter \in Filters
  /\ items \in Seq(Cases)
  /\ nextCursor \in Cursors
  /\ selected \in Cases \cup {NoCase}
  /\ {isLoading, isLoadingMore, isLoadingDetail} \subseteq BOOLEAN
  /\ call \in [Slots -> Calls]
  /\ due \subseteq Cases

Init ==
  /\ status = [c \in Cases |-> "pending"]
  /\ reviewedAt = [c \in Cases |-> 0]
  /\ filter = "completed"
  /\ items = <<>>
  /\ nextCursor = NoCursor
  /\ selected = NoCase
  /\ isLoading = FALSE /\ isLoadingMore = FALSE /\ isLoadingDetail = FALSE
  /\ call = [s \in Slots |-> Idle]
  /\ due = {}

-----------------------------------------------------------------------------
(***************************************************************************)
(* The service.                                                             *)
(***************************************************************************)

\* FinalizeReviewCase commits.  reviewed_at was read before, from the clock of
\* one process or another: it may be older than that of cases already listed.
Finalize(c, outcome, t) ==
  /\ status[c] = "pending"
  /\ status' = [status EXCEPT ![c] = outcome]
  /\ reviewedAt' = [reviewedAt EXCEPT ![c] = t]
  /\ UNCHANGED <<filter, items, nextCursor, selected, isLoading, isLoadingMore,
                 isLoadingDetail, call, due>>

\* The cases a filter stands for.
History(f) ==
  {c \in Cases : status[c] \in IF f = "completed" THEN Outcomes ELSE {f}}

\* The order of the list: newest first, the larger id first among equals.
Newer(c, d) ==
  reviewedAt[c] > reviewedAt[d] \/ (reviewedAt[c] = reviewedAt[d] /\ c > d)

\* Mutants of Below: the cursor's id is not compared, either way.
NotAbove(c, cursor) == cursor = NoCursor \/ reviewedAt[c] <= reviewedAt[cursor.last]
StrictlyOlder(c, cursor) == cursor = NoCursor \/ reviewedAt[c] < reviewedAt[cursor.last]

\* The rows a cursor leaves.
Below(c, cursor) == cursor = NoCursor \/ Newer(cursor.last, c)

\* The rows a request is after, in order.
Rows(f, cursor) ==
  LET rows == {c \in History(f) : Below(c, cursor)} IN
  CHOOSE list \in [1 .. Cardinality(rows) -> rows] :
    \A i, j \in DOMAIN list : i < j => Newer(list[i], list[j])

\* One page: one row more than the limit is read to see whether there is a next.
Page(f, cursor) ==
  LET rows == Rows(f, cursor) IN
  IF Len(rows) <= PageSize
  THEN [items |-> rows, next |-> NoCursor, due |-> History(f), ok |-> TRUE]
  ELSE [items |-> SubSeq(rows, 1, PageSize),
        next |-> [filter |-> f, last |-> rows[PageSize]],
        due |-> History(f), ok |-> TRUE]

\* decodeReviewCaseCursor takes a cursor only with the filter it was made for.
Accepted(f, cursor) == cursor = NoCursor \/ cursor.filter = f

\* The service reads the page, or the case, and sends it off.
Serve(s) ==
  /\ call[s] # Idle /\ call[s].answer = NoAnswer
  /\ call' = [call EXCEPT ![s].answer =
       IF call[s].kind = "detail" THEN [NoAnswer EXCEPT !.ok = TRUE]
       ELSE Page(call[s].filter, call[s].cursor)]
  /\ call[s].kind = "detail" \/ Accepted(call[s].filter, call[s].cursor)
  /\ UNCHANGED <<server, filter, items, nextCursor, selected, isLoading,
                 isLoadingMore, isLoadingDetail, due>>

-----------------------------------------------------------------------------
(***************************************************************************)
(* The console.                                                             *)
(***************************************************************************)

\* The requests in flight once those of these kinds have been superseded.
Superseded(kinds) ==
  [s \in Slots |-> IF call[s].kind \in kinds THEN [call[s] EXCEPT !.live = FALSE] ELSE call[s]]

\* Mutant of Load: a detail that was asked for before is still awaited.
LoadLeavesDetail(s, f) ==
  /\ call[s] = Idle
  /\ call' = [Superseded({"load", "more"}) EXCEPT ![s] = NewCall("load", f, NoCursor, NoCase)]
  /\ isLoading' = TRUE
  /\ isLoadingMore' = FALSE
  /\ UNCHANGED isLoadingDetail

\* loadHistory supersedes every request: pages for the list, details for what may
\* no longer be in it.
Load(s, f) ==
  /\ call[s] = Idle
  /\ call' = [Superseded(Kinds) EXCEPT ![s] = NewCall("load", f, NoCursor, NoCase)]
  /\ isLoading' = TRUE
  /\ isLoadingMore' = FALSE
  /\ isLoadingDetail' = FALSE

\* The history is loaded, at first or again.
LoadHistory(s) ==
  /\ Load(s, filter)
  /\ UNCHANGED <<server, filter, items, nextCursor, selected, due>>

\* setFilter to another filter; to the same one it is LoadHistory.
SetFilter(s, f) ==
  /\ f # filter
  /\ filter' = f
  /\ items' = <<>>
  /\ nextCursor' = NoCursor
  /\ selected' = NoCase
  /\ due' = {}
  /\ Load(s, f)
  /\ UNCHANGED server

\* loadMore, unless there is no more or a page is on its way.
LoadMore(s) ==
  /\ call[s] = Idle
  /\ nextCursor # NoCursor /\ ~isLoading /\ ~isLoadingMore
  /\ call' = [call EXCEPT ![s] = NewCall("more", filter, nextCursor, NoCase)]
  /\ isLoadingMore' = TRUE
  /\ UNCHANGED <<server, filter, items, nextCursor, selected, isLoading, isLoadingDetail, due>>

\* selectReview of a case that is shown; the list is not while it is loading.
SelectReview(s, c) ==
  /\ call[s] = Idle /\ ~isLoading /\ c \in Range(items)
  /\ call' = [Superseded({"detail"}) EXCEPT ![s] = NewCall("detail", filter, NoCursor, c)]
  /\ isLoadingDetail' = TRUE
  /\ UNCHANGED <<server, filter, items, nextCursor, selected, isLoading, isLoadingMore, due>>

\* A page without the cases that are shown already.
Unseen(page) ==
  LET fresh == {i \in DOMAIN page : page[i] \notin Range(items)} IN
  [k \in 1 .. Cardinality(fresh) |->
     page[CHOOSE i \in fresh : Cardinality({j \in fresh : j <= i}) = k]]

\* The sequence number of a request is the latest: its answer counts.
Counts(s) == call[s].live

\* A request is over, and its flag goes down unless a later one has raised it.
Close(s) ==
  /\ call' = [call EXCEPT ![s] = Idle]
  /\ isLoading' = (isLoading /\ ~(call[s].kind = "load" /\ Counts(s)))
  /\ isLoadingMore' = (isLoadingMore /\ ~(call[s].kind = "more" /\ Counts(s)))
  /\ isLoadingDetail' = (isLoadingDetail /\ ~(call[s].kind = "detail" /\ Counts(s)))

\* An answer arrives that counts.
ReceiveFirst(s) ==
  /\ call[s].kind = "load" /\ Counts(s) /\ call[s].answer.ok
  /\ items' = call[s].answer.items
  /\ nextCursor' = call[s].answer.next
  /\ selected' = IF selected \in Range(call[s].answer.items) THEN selected ELSE NoCase
  /\ due' = call[s].answer.due
  /\ Close(s)
  /\ UNCHANGED <<server, filter>>

ReceiveMore(s) ==
  /\ call[s].kind = "more" /\ Counts(s) /\ call[s].filter = filter /\ call[s].answer.ok
  /\ items' = items \o Unseen(call[s].answer.items)
  /\ nextCursor' = call[s].answer.next
  /\ Close(s)
  /\ UNCHANGED <<server, filter, selected, due>>

ReceiveDetail(s) ==
  /\ call[s].kind = "detail" /\ Counts(s) /\ call[s].answer.ok
  /\ selected' = call[s].id
  /\ Close(s)
  /\ UNCHANGED <<server, filter, items, nextCursor, due>>

\* A request fails, with an error answer or without one, or what it is answered
\* comes too late.
Discard(s) ==
  /\ call[s] # Idle
  /\ Close(s)
  /\ UNCHANGED <<server, filter, items, nextCursor, selected, due>>

Next ==
  \/ \E c \in Cases, outcome \in Outcomes, t \in Times : Finalize(c, outcome, t)
  \/ \E s \in Slots :
       \/ LoadHistory(s) \/ LoadMore(s)
       \/ \E f \in Filters : SetFilter(s, f)
       \/ \E c \in Cases : SelectReview(s, c)
       \/ Serve(s)
       \/ ReceiveFirst(s) \/ ReceiveMore(s) \/ ReceiveDetail(s)
       \/ Discard(s)

Spec == Init /\ [][Next]_vars

-----------------------------------------------------------------------------
(***************************************************************************)
(* Properties.                                                              *)
(***************************************************************************)

\* The joined pages are one list, newest first and without a case twice, although
\* cases are finalized between the pages, some with an older reviewed_at.
NewestFirst ==
  \A i, j \in DOMAIN items : i < j => Newer(items[i], items[j])

\* No gap: down to where the next page begins, everything is shown that was in
\* the history when its first page was read.
NothingSkipped ==
  \A c \in due : (nextCursor = NoCursor \/ ~Below(c, nextCursor)) => c \in Range(items)

\* Whatever the order of answers, what is shown belongs together.  The list has cases
\* of the filter that is set, never those of an earlier one; the detail is of a case
\* of that list, even if it was asked for before the list was loaded again and is
\* answered after; a flag is up exactly while a request is in flight whose end will
\* take it down, so no button stays disabled and no second page is asked for at once;
\* and no request has a cursor the service would refuse.
ViewBelongsTogether ==
  LET awaited(kind) == \E s \in Slots : call[s].kind = kind /\ call[s].live IN
  /\ TypeOK
  /\ Range(items) \subseteq History(filter)
  /\ selected \in Range(items) \cup {NoCase}
  /\ isLoading = awaited("load")
  /\ isLoadingMore = awaited("more")
  /\ isLoadingDetail = awaited("detail")
  /\ \A s \in Slots : call[s].kind = "more" => Accepted(call[s].filter, call[s].cursor)
=============================================================================
