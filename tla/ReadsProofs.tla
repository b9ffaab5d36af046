----------------------------- MODULE ReadsProofs -----------------------------
(***************************************************************************)
(* Proofs about Reads: three queries answer like one because no row that a   *)
(* query found goes away and no ruling changes; twelve of one snapshot give  *)
(* the figures of one moment, and each report is of a later one.            *)
(***************************************************************************)
EXTENDS Reads, FiniteSetTheorems, TLAPS

-----------------------------------------------------------------------------
(***************************************************************************)
(* Reads of three queries.                                                  *)
(***************************************************************************)

\* The tables agree: a request has its result, and one to be reviewed its case.
RowsFit ==
  /\ owner \in [Requests -> Principals \cup {Nobody}]
  /\ rows["requests"] = {r \in Requests : owner[r] # Nobody}
  /\ rows["results"] = rows["requests"] /\ DOMAIN rows = Tables
  /\ rows["cases"] = {r \in Requests : ruling[r] # "none"}
  /\ decision \in [Requests -> Rulings \cup {"review", "none"}]
  /\ ruling \in [Requests -> Rulings \cup {"pending", "none"}]
  /\ \A r \in Requests : decision[r] = "review" <=> ruling[r] # "none"
  /\ \A r \in Requests : owner[r] = Nobody => decision[r] = "none"

Todos == {<<"results", "cases">>, <<"requests", "cases">>, <<"requests", "results">>,
          <<"cases">>, <<"results">>, <<>>}
WaitsForCases(q) ==
  q.todo \in {<<"results", "cases">>, <<"requests", "cases">>, <<"cases">>}

\* What a reader has found is there, what was ruled before it began still is, and
\* a case it has read was in that state since.
Reading(q) ==
  /\ DOMAIN q = {"stage", "ids", "todo", "cases", "missing", "before"}
  /\ q.stage = "reading" /\ q.todo \in Todos /\ q.missing = FALSE
  /\ q.ids \subseteq rows["requests"]
  /\ \A r \in q.ids : q.before[r] \in Rulings => ruling[r] = q.before[r]
  /\ ~WaitsForCases(q) => \A r \in q.ids :
       /\ (decision[r] = "review") <=> (q.cases[r] # "none")
       /\ q.before[r] \in Rulings => q.cases[r] = q.before[r]
       /\ q.cases[r] \in Rulings => q.cases[r] = ruling[r]

ReadersFit == DOMAIN read = Readers /\ \A d \in Readers : read[d].stage = "idle" \/ Reading(read[d])

ReadInv == RowsFit /\ ReadersFit

LEMMA ReadInit == Init => ReadInv
<1> SUFFICES ASSUME Init PROVE ReadInv
  OBVIOUS
<1>1. RowsFit
  BY DEF Init, RowsFit, Tables, Rulings
<1>2. ReadersFit
  BY DEF Init, ReadersFit, Idle
<1> QED BY <1>1, <1>2 DEF ReadInv

\* What is saved and ruled meanwhile leaves true what a reader knows.
LEMMA ReadingStays ==
  ASSUME RowsFit, NEW q, Reading(q), rows["requests"] \subseteq rows'["requests"],
         \A r \in rows["requests"] :
           decision'[r] = decision[r] /\ (ruling[r] \in Rulings => ruling'[r] = ruling[r])
  PROVE  Reading(q)'
BY DEF Reading

LEMMA ReadersStay ==
  ASSUME ReadInv, UNCHANGED read, rows["requests"] \subseteq rows'["requests"],
         \A r \in rows["requests"] :
           decision'[r] = decision[r] /\ (ruling[r] \in Rulings => ruling'[r] = ruling[r])
  PROVE  ReadersFit'
<1> SUFFICES ASSUME NEW d \in Readers, NEW q, q = read[d], q.stage # "idle" PROVE Reading(q)'
  BY DEF ReadersFit, ReadInv
<1> QED BY ReadingStays DEF ReadersFit, ReadInv

\* A reader's own step.
LEMMA ReaderMoves ==
  ASSUME ReadInv, UNCHANGED stored, NEW d \in Readers, NEW q, read' = [read EXCEPT ![d] = q],
         q.stage = "idle" \/ Reading(q)
  PROVE  ReadInv'
<1>1. UNCHANGED <<owner, rows, decision, ruling>>
  BY DEF stored
<1>2. RowsFit'
  BY <1>1 DEF ReadInv, RowsFit
<1>3. \A p : Reading(p)' <=> Reading(p)
  BY <1>1 DEF Reading
<1>4. ReadersFit'
  <2> SUFFICES ASSUME NEW e \in Readers PROVE read'[e].stage = "idle" \/ Reading(read'[e])
    BY <1>3 DEF ReadersFit, ReadInv
  <2> QED BY DEF ReadersFit, ReadInv
<1> QED BY <1>2, <1>4 DEF ReadInv

\* The first query of a read that loads the cases last.
LEMMA FoundReads ==
  ASSUME ReadInv, NEW ids \in SUBSET rows["requests"], NEW todo, NEW cases,
         todo \in {<<"results", "cases">>, <<"requests", "cases">>}
  PROVE  Reading([stage |-> "reading", ids |-> ids, todo |-> todo, cases |-> cases,
                  missing |-> FALSE, before |-> ruling])
BY DEF Reading, Todos, WaitsForCases

\* And of one that begins with them.
LEMMA FoundCasesReads ==
  ASSUME ReadInv, NEW ids \in SUBSET rows["cases"]
  PROVE  Reading([stage |-> "reading", ids |-> ids, todo |-> <<"requests", "results">>,
                  cases |-> [r \in Requests |-> IF r \in ids THEN ruling[r] ELSE "none"],
                  missing |-> FALSE, before |-> ruling])
<1>1. \A r \in ids : r \in Requests /\ ruling[r] # "none" /\ decision[r] = "review" /\ owner[r] # Nobody
  BY DEF ReadInv, RowsFit, Rulings
<1>2. ids \subseteq rows["requests"]
  BY <1>1 DEF ReadInv, RowsFit
<1> QED BY <1>1, <1>2 DEF Reading, Todos, WaitsForCases

\* What is left to be read after a query.
LEMMA Todo ==
  /\ <<"cases">> # <<>> /\ <<"results">> # <<>> /\ <<"results">> # <<"cases">>
  /\ \A x, y : /\ <<x, y>> # <<>> /\ <<x, y>> # <<"cases">>
               /\ Head(<<x, y>>) = x /\ Tail(<<x, y>>) = <<y>>
  /\ \A x : Head(<<x>>) = x /\ Tail(<<x>>) = <<>>
  /\ <<"requests", "results">> # <<"results", "cases">>
  /\ <<"requests", "results">> # <<"requests", "cases">>
<1>1. /\ <<"cases">> # <<>> /\ <<"results">> # <<>> /\ <<"results">> # <<"cases">>
  OBVIOUS
<1>2. ASSUME NEW x, NEW y
      PROVE  /\ <<x, y>> # <<>> /\ <<x, y>> # <<"cases">>
             /\ Head(<<x, y>>) = x /\ Tail(<<x, y>>) = <<y>>
  OBVIOUS
<1>3. ASSUME NEW x PROVE Head(<<x>>) = x /\ Tail(<<x>>) = <<>>
  OBVIOUS
<1>4. /\ <<"requests", "results">> # <<"results", "cases">>
      /\ <<"requests", "results">> # <<"requests", "cases">>
  OBVIOUS
<1> QED BY <1>1, <1>2, <1>3, <1>4

\* A further query: all rows are there, and the cases are as they are now.
LEMMA LoadReads ==
  ASSUME ReadInv, NEW d \in Readers, Load(d)
  PROVE  ReadInv'
<1> DEFINE q == read[d]
<1>1. Reading(q) /\ q.todo # <<>> /\ UNCHANGED stored
  BY DEF Load, ReadInv, ReadersFit
<1>2. /\ q.ids \subseteq rows["requests"] /\ q.ids \subseteq rows["results"]
      /\ q.ids \subseteq Requests
  BY <1>1 DEF Reading, ReadInv, RowsFit
<1>3. read' = [read EXCEPT ![d] =
        IF Head(q.todo) = "cases"
        THEN [q EXCEPT !.todo = Tail(@),
               !.cases = [r \in Requests |-> IF r \in q.ids THEN CaseOf(r) ELSE "none"]]
        ELSE [q EXCEPT !.todo = Tail(@), !.missing = @ \/ ~(q.ids \subseteq rows[Head(q.todo)])]]
  BY DEF Load
<1> HIDE DEF q
<1>4. CASE q.todo = <<"cases">>
  <2> DEFINE new == [q EXCEPT !.todo = Tail(@),
                       !.cases = [r \in Requests |-> IF r \in q.ids THEN CaseOf(r) ELSE "none"]]
  <2>1. read' = [read EXCEPT ![d] = new]
    BY <1>3, <1>4
  <2>2. Reading(new)
    <3>1. Tail(q.todo) = <<>> /\ ~WaitsForCases(new)
      BY <1>4 DEF WaitsForCases
    <3> QED BY <1>1, <1>2, <3>1 DEF Reading, Todos, CaseOf, ReadInv, RowsFit, Rulings
  <2> HIDE DEF new
  <2> QED BY <1>1, <2>1, <2>2, ReaderMoves
<1>5. CASE q.todo # <<"cases">>
  <2>1. /\ Head(q.todo) \in {"requests", "results"}
        /\ Tail(q.todo) \in Todos /\ (WaitsForCases(q) <=> Tail(q.todo) = <<"cases">>)
    <3>1. \/ q.todo = <<"results", "cases">> \/ q.todo = <<"requests", "cases">>
          \/ q.todo = <<"requests", "results">> \/ q.todo = <<"results">>
      BY <1>1, <1>5 DEF Reading, Todos
    <3>2. CASE q.todo = <<"results", "cases">>
      BY <3>2, Todo DEF Todos, WaitsForCases
    <3>3. CASE q.todo = <<"requests", "cases">>
      BY <3>3, Todo DEF Todos, WaitsForCases
    <3>4. CASE q.todo = <<"requests", "results">>
      <4>1. ~WaitsForCases(q)
        BY <3>4, Todo DEF WaitsForCases
      <4> QED BY <3>4, <4>1, Todo DEF Todos
    <3>5. CASE q.todo = <<"results">>
      <4>1. ~WaitsForCases(q)
        BY <3>5, Todo DEF WaitsForCases
      <4> QED BY <3>5, <4>1, Todo DEF Todos
    <3> QED BY <3>1, <3>2, <3>3, <3>4, <3>5
  <2> DEFINE new == [q EXCEPT !.todo = Tail(@), !.missing = @ \/ ~(q.ids \subseteq rows[Head(q.todo)])]
  <2>2. read' = [read EXCEPT ![d] = new]
    BY <1>3, <2>1
  <2>3. /\ new.stage = "reading" /\ new.todo = Tail(q.todo) /\ new.missing = FALSE
        /\ new.ids = q.ids /\ new.before = q.before /\ new.cases = q.cases
        /\ DOMAIN new = DOMAIN q
    <3>1. /\ q.ids \subseteq rows[Head(q.todo)] /\ q.missing = FALSE /\ q.stage = "reading"
          /\ DOMAIN q = {"stage", "ids", "todo", "cases", "missing", "before"}
      BY <1>1, <1>2, <2>1 DEF Reading
    <3> QED BY <3>1
  <2> HIDE DEF new
  <2>4. Reading(new)
    <3>1. ~WaitsForCases(new) => ~WaitsForCases(q)
      BY <2>1, <2>3 DEF WaitsForCases
    <3> QED BY <1>1, <2>1, <2>3, <3>1 DEF Reading
  <2> QED BY <1>1, <2>2, <2>4, ReaderMoves
<1> QED BY <1>4, <1>5

LEMMA ReadStep == ReadInv /\ [Next]_vars => ReadInv'
<1> SUFFICES ASSUME ReadInv, [Next]_vars PROVE ReadInv'
  OBVIOUS
<1>1. ASSUME NEW r \in Requests, NEW p \in Principals, NEW v \in Rulings \cup {"review"},
             SaveCheck(r, p, v)
      PROVE  ReadInv'
  <2>1. RowsFit'
    BY <1>1, ReadsAssumption DEF SaveCheck, ReadInv, RowsFit, Tables, Rulings
  <2>2. /\ rows["requests"] \subseteq rows'["requests"]
        /\ \A s \in rows["requests"] : decision'[s] = decision[s] /\ ruling'[s] = ruling[s]
        /\ UNCHANGED read
    BY <1>1 DEF SaveCheck, ReadInv, RowsFit, Tables
  <2> QED BY <2>1, <2>2, ReadersStay DEF ReadInv
<1>2. ASSUME NEW r \in Requests, NEW v \in Rulings, Finalize(r, v)
      PROVE  ReadInv'
  <2>1. RowsFit'
    BY <1>2 DEF Finalize, ReadInv, RowsFit, Rulings
  <2>2. /\ UNCHANGED <<rows, decision, read>>
        /\ \A s \in Requests : ruling[s] \in Rulings => ruling'[s] = ruling[s]
    BY <1>2 DEF Finalize, ReadInv, RowsFit, Rulings
  <2>3. rows["requests"] \subseteq Requests
    BY DEF ReadInv, RowsFit
  <2> QED BY <2>1, <2>2, <2>3, ReadersStay DEF ReadInv
<1>3. ASSUME NEW d \in Readers, NEW r \in Requests, NEW p \in Principals, GetResult(d, r, p)
      PROVE  ReadInv'
  <2>1. {r} \in SUBSET rows["requests"]
    BY <1>3 DEF GetResult
  <2>2. UNCHANGED stored /\ Found(d, {r}, <<"results", "cases">>, NoCases)
    BY <1>3 DEF GetResult, Starts
  <2> DEFINE q == [stage |-> "reading", ids |-> {r}, todo |-> <<"results", "cases">>,
                   cases |-> NoCases, missing |-> FALSE, before |-> ruling]
  <2>3. Reading(q) /\ read' = [read EXCEPT ![d] = q]
    BY <2>1, <2>2, FoundReads DEF Found
  <2> QED BY <2>2, <2>3, ReaderMoves
<1>4. ASSUME NEW d \in Readers, NEW wanted, ListHistory(d, wanted)
      PROVE  ReadInv'
  <2>1. PICK ids \in SUBSET rows["results"] : Found(d, ids, <<"requests", "cases">>, NoCases)
    BY <1>4 DEF ListHistory, Listed
  <2>2. ids \in SUBSET rows["requests"]
    BY DEF ReadInv, RowsFit
  <2>3. UNCHANGED stored
    BY <1>4 DEF ListHistory, Starts
  <2> DEFINE q == [stage |-> "reading", ids |-> ids, todo |-> <<"requests", "cases">>,
                   cases |-> NoCases, missing |-> FALSE, before |-> ruling]
  <2>4. Reading(q) /\ read' = [read EXCEPT ![d] = q]
    BY <2>1, <2>2, FoundReads DEF Found
  <2> QED BY <2>3, <2>4, ReaderMoves
<1>5. ASSUME NEW d \in Readers, NEW wanted, ReadCases(d, wanted)
      PROVE  ReadInv'
  <2>1. PICK ids \in SUBSET rows["cases"] :
          Found(d, ids, <<"requests", "results">>,
                [r \in Requests |-> IF r \in ids THEN ruling[r] ELSE "none"])
    BY <1>5 DEF ReadCases, Listed
  <2>2. UNCHANGED stored
    BY <1>5 DEF ReadCases, Starts
  <2> QED BY <2>1, <2>2, FoundCasesReads, ReaderMoves DEF Found
<1>6. ASSUME NEW d \in Readers, End(d)
      PROVE  ReadInv'
  BY <1>6, ReaderMoves DEF End, Idle
<1>7. CASE UNCHANGED vars
  <2>1. UNCHANGED <<owner, rows, decision, ruling, read>>
    BY <1>7 DEF vars, stored
  <2>2. RowsFit'
    BY <2>1 DEF ReadInv, RowsFit
  <2> QED BY <2>1, <2>2, ReadersStay DEF ReadInv
<1> QED BY <1>1, <1>2, <1>3, <1>4, <1>5, <1>6, <1>7, LoadReads DEF Next

\* Three queries answer like one, for any number of requests, principals and readers
\* and any limit: no listed row lacks its request or result, a case comes exactly with
\* a review, and never in an earlier state than when the read began (GetResult,
\* ListHistory, ListReviewCases, GetReviewCase).
THEOREM AnswersHoldTogether == Spec => []ReadsHoldTogether
<1>1. ReadInv => ReadsHoldTogether
  <2> SUFFICES ASSUME ReadInv, NEW d \in Readers, Answered(d)
               PROVE  LET q == read[d] IN
                      /\ ~q.missing
                      /\ \A r \in q.ids :
                           /\ (decision[r] = "review") = (q.cases[r] # "none")
                           /\ q.before[r] \in Rulings => q.cases[r] = q.before[r]
                           /\ q.cases[r] \in Rulings => q.cases[r] = ruling[r]
    BY DEF ReadsHoldTogether
  <2>1. Reading(read[d]) /\ read[d].todo = <<>>
    BY DEF Answered, ReadInv, ReadersFit
  <2>2. ~WaitsForCases(read[d])
    BY <2>1 DEF WaitsForCases
  <2> QED BY <2>1, <2>2 DEF Reading
<1> QED BY <1>1, ReadInit, ReadStep, PTL DEF Spec

-----------------------------------------------------------------------------
(***************************************************************************)
(* Figures.                                                                 *)
(***************************************************************************)

\* Tables of one moment: a pending or finalized case with a review, none otherwise.
Moment(t) ==
  /\ t \in Stats!Tables
  /\ \A r \in StatsRequests : t.decision[r] = "review" <=> t.case[r] # Stats!NoCase

\* What is final at one moment is at another.
Later(t, u) ==
  \A r \in StatsRequests :
    /\ t.decision[r] # "none" => u.decision[r] = t.decision[r]
    /\ t.case[r] \in Stats!Rulings => u.case[r] = t.case[r]
    /\ t.delivery[r] = "succeeded" => u.delivery[r] = "succeeded"

\* The rows that are counted.
Decided(t, d) == {r \in StatsRequests : t.decision[r] = d}
Moderated(t) == StatsRequests \ Decided(t, "none")
Ruled(t, d) == {r \in StatsRequests : t.case[r].final = d /\ t.case[r].status # "pending"}
CasesIn(t, s) == {r \in StatsRequests : t.case[r].status = s}
Reviewed(t) == StatsRequests \ (CasesIn(t, "none") \cup CasesIn(t, "pending"))
Sent(t, s) == {r \in StatsRequests : t.delivery[r] = s}
Deliveries(t) == StatsRequests \ Sent(t, "none")

\* The figures of a moment.
FiguresOf(t) ==
  [totalModerated |-> Cardinality(Moderated(t)),
   allowed |-> Cardinality(Decided(t, "allow")) + Cardinality(Ruled(t, "allow")),
   blocked |-> Cardinality(Decided(t, "block")) + Cardinality(Ruled(t, "block")),
   pendingReview |-> Cardinality(CasesIn(t, "pending")),
   reviewed |-> Cardinality(Reviewed(t)), mistakes |-> Cardinality(CasesIn(t, "mistake")),
   webhookTotal |-> Cardinality(Deliveries(t)),
   webhookSucceeded |-> Cardinality(Sent(t, "succeeded")),
   webhookFailed |-> Cardinality(Sent(t, "failed")),
   webhookRetrying |-> Cardinality(Sent(t, "retrying"))]

\* The counts are of the transaction's snapshot, the report is of a moment before it.
StatsInv ==
  /\ Stats!TypeOK
  /\ Moment(tables)
  /\ counted # <<>> => Moment(view) /\ Later(view, tables)
  /\ \A i \in 1..Len(counted) : counted[i] = Cardinality(Stats!Queries(view)[i])
  /\ report # NoReport =>
       \E t : Moment(t) /\ report = FiguresOf(t) /\ Later(t, tables) /\ (counted # <<>> => Later(t, view))

-----------------------------------------------------------------------------
LEMMA SameCount ==
  /\ \A S : Stats!Cardinality(S) = Cardinality(S)
  /\ IsFiniteSet(StatsRequests)
<1>1. \A S : Stats!Cardinality(S) = Cardinality(S)
  BY DEF Stats!Cardinality, Cardinality
<1>2. Stats!IsFiniteSet(StatsRequests) <=> IsFiniteSet(StatsRequests)
  BY DEF Stats!IsFiniteSet, IsFiniteSet
<1> QED BY <1>1, <1>2, StatsAssumption DEF Stats!StatsAssumption

\* Rows can be counted, fewer are counted of fewer, and rows apart add up.
LEMMA Counting ==
  /\ \A S \in SUBSET StatsRequests : Cardinality(S) \in Nat
  /\ \A S, T \in SUBSET StatsRequests : S \subseteq T => Cardinality(S) <= Cardinality(T)
  /\ \A S, T \in SUBSET StatsRequests :
       S \cap T = {} => Cardinality(S \cup T) = Cardinality(S) + Cardinality(T)
<1>1. \A S \in SUBSET StatsRequests : IsFiniteSet(S) /\ Cardinality(S) \in Nat
  BY SameCount, FS_Subset, FS_CardinalityType
<1>2. \A S, T \in SUBSET StatsRequests : S \subseteq T => Cardinality(S) <= Cardinality(T)
  BY <1>1, FS_Subset
<1>3. ASSUME NEW S \in SUBSET StatsRequests, NEW T \in SUBSET StatsRequests, S \cap T = {}
      PROVE  Cardinality(S \cup T) = Cardinality(S) + Cardinality(T)
  <2>1. /\ Cardinality(S \cup T) = Cardinality(S) + Cardinality(T) - Cardinality(S \cap T)
        /\ Cardinality(S \cap T) = 0
    BY <1>1, <1>3, FS_Union, FS_EmptySet
  <2> QED BY <1>1, <2>1
<1> QED BY <1>1, <1>2, <1>3

\* The queries, one by one.
LEMMA QueriesAre ==
  ASSUME NEW t
  PROVE  /\ DOMAIN Stats!Queries(t) = 1..12
         /\ Stats!Queries(t)[1] = Moderated(t)
         /\ Stats!Queries(t)[2] = Decided(t, "allow")
         /\ Stats!Queries(t)[3] = Decided(t, "block")
         /\ Stats!Queries(t)[4] = Ruled(t, "allow")
         /\ Stats!Queries(t)[5] = Ruled(t, "block")
         /\ Stats!Queries(t)[6] = CasesIn(t, "pending")
         /\ Stats!Queries(t)[7] = Reviewed(t)
         /\ Stats!Queries(t)[8] = CasesIn(t, "mistake")
         /\ Stats!Queries(t)[9] = Deliveries(t)
         /\ Stats!Queries(t)[10] = Sent(t, "succeeded")
         /\ Stats!Queries(t)[11] = Sent(t, "failed")
         /\ Stats!Queries(t)[12] = Sent(t, "retrying")
BY DEF Stats!Queries, Moderated, Decided, Ruled, CasesIn, Reviewed, Deliveries, Sent

LEMMA RowsOf ==
  ASSUME NEW t
  PROVE  /\ Moderated(t) \in SUBSET StatsRequests /\ Reviewed(t) \in SUBSET StatsRequests
         /\ Deliveries(t) \in SUBSET StatsRequests
         /\ \A d : /\ Decided(t, d) \in SUBSET StatsRequests /\ Ruled(t, d) \in SUBSET StatsRequests
                   /\ CasesIn(t, d) \in SUBSET StatsRequests /\ Sent(t, d) \in SUBSET StatsRequests
BY DEF Moderated, Decided, Ruled, CasesIn, Reviewed, Deliveries, Sent

\* What the twelve counts come to.
LEMMA CountsAre ==
  ASSUME NEW t, NEW n, \A i \in 1..12 : n[i] = Cardinality(Stats!Queries(t)[i])
  PROVE  Stats!Figures(n) = FiguresOf(t)
<1>1. \A i \in {1, 2, 3, 4, 5, 6, 7, 8, 9, 10, 11, 12} : n[i] = Cardinality(Stats!Queries(t)[i])
  OBVIOUS
<1> QED BY <1>1, QueriesAre DEF Stats!Figures, FiguresOf

LEMMA CountIsNat ==
  ASSUME NEW t, NEW i \in 1..12
  PROVE  Cardinality(Stats!Queries(t)[i]) \in Nat
<1>1. \/ i = 1 \/ i = 2 \/ i = 3 \/ i = 4 \/ i = 5 \/ i = 6 \/ i = 7 \/ i = 8 \/ i = 9
      \/ i = 10 \/ i = 11 \/ i = 12
  OBVIOUS
<1>2. Stats!Queries(t)[i] \in SUBSET StatsRequests
  BY <1>1, QueriesAre, RowsOf
<1> QED BY <1>2, Counting

\* The rows of a moment, request by request.
LEMMA MomentRows ==
  ASSUME NEW t, Moment(t), NEW r \in StatsRequests
  PROVE  /\ t.decision[r] \in {"none", "allow", "block", "review"}
         /\ t.delivery[r] \in {"none", "succeeded", "failed", "retrying"}
         /\ t.decision[r] # "review" =>
              t.case[r].status = "none" /\ t.case[r].final = "none" /\ t.case[r] = Stats!NoCase
         /\ t.decision[r] = "review" =>
              \/ /\ t.case[r].status = "pending" /\ t.case[r].final = "none"
                 /\ t.case[r] = Stats!Pending
              \/ /\ t.case[r].status \in {"approved", "rejected", "mistake"}
                 /\ t.case[r].final \in {"allow", "block"} /\ t.case[r] \in Stats!Rulings
         /\ t.case[r] \in Stats!Rulings =>
              /\ t.case[r].status \in {"approved", "rejected", "mistake"}
              /\ t.case[r].final \in {"allow", "block"}
<1>1. /\ t.decision[r] \in {"none", "allow", "block", "review"}
      /\ t.delivery[r] \in {"none", "succeeded", "failed", "retrying"}
      /\ t.case[r] \in Stats!Rulings \cup {Stats!NoCase, Stats!Pending}
      /\ t.decision[r] = "review" <=> t.case[r] # Stats!NoCase
  BY DEF Moment, Stats!Tables, Stats!Delivery
<1>2. \A x \in Stats!Rulings :
        x.status \in {"approved", "rejected", "mistake"} /\ x.final \in {"allow", "block"}
  BY DEF Stats!Rulings
<1>3. /\ Stats!NoCase.status = "none" /\ Stats!NoCase.final = "none"
      /\ Stats!Pending.status = "pending" /\ Stats!Pending.final = "none"
  BY DEF Stats!NoCase, Stats!Pending
<1> QED BY <1>1, <1>2, <1>3

\* Every moment's figures add up.
LEMMA MomentAddsUp ==
  ASSUME NEW t, Moment(t)
  PROVE  LET f == FiguresOf(t) IN
         /\ f \in Stats!Reports
         /\ f.totalModerated = f.allowed + f.blocked + f.pendingReview
         /\ f.webhookTotal = f.webhookSucceeded + f.webhookFailed + f.webhookRetrying
         /\ f.mistakes <= f.reviewed
<1> DEFINE a == Decided(t, "allow")
           b == Decided(t, "block")
           c == Ruled(t, "allow")
           d == Ruled(t, "block")
           e == CasesIn(t, "pending")
<1>1. /\ Moderated(t) = ((a \cup c) \cup (b \cup d)) \cup e
      /\ a \cap c = {} /\ b \cap d = {} /\ (a \cup c) \cap (b \cup d) = {}
      /\ ((a \cup c) \cup (b \cup d)) \cap e = {}
  BY MomentRows DEF Moderated, Decided, Ruled, CasesIn
<1>2. /\ Deliveries(t) = (Sent(t, "succeeded") \cup Sent(t, "failed")) \cup Sent(t, "retrying")
      /\ Sent(t, "succeeded") \cap Sent(t, "failed") = {}
      /\ (Sent(t, "succeeded") \cup Sent(t, "failed")) \cap Sent(t, "retrying") = {}
  BY MomentRows DEF Deliveries, Sent
<1>3. CasesIn(t, "mistake") \subseteq Reviewed(t)
  BY DEF Reviewed, CasesIn
<1>4. /\ a \in SUBSET StatsRequests /\ b \in SUBSET StatsRequests /\ c \in SUBSET StatsRequests
      /\ d \in SUBSET StatsRequests /\ e \in SUBSET StatsRequests
  BY RowsOf
<1> HIDE DEF a, b, c, d, e
<1>5. Cardinality(Moderated(t)) =
        Cardinality(a) + Cardinality(c) + (Cardinality(b) + Cardinality(d)) + Cardinality(e)
  <2>1. (a \cup c) \in SUBSET StatsRequests /\ (b \cup d) \in SUBSET StatsRequests
    BY <1>4
  <2>2. ((a \cup c) \cup (b \cup d)) \in SUBSET StatsRequests
    BY <2>1
  <2>3. Cardinality(a \cup c) = Cardinality(a) + Cardinality(c)
    BY <1>1, <1>4, Counting
  <2>4. Cardinality(b \cup d) = Cardinality(b) + Cardinality(d)
    BY <1>1, <1>4, Counting
  <2>5. Cardinality((a \cup c) \cup (b \cup d)) = Cardinality(a \cup c) + Cardinality(b \cup d)
    BY <1>1, <2>1, Counting
  <2>6. Cardinality(((a \cup c) \cup (b \cup d)) \cup e) =
          Cardinality((a \cup c) \cup (b \cup d)) + Cardinality(e)
    BY <1>1, <1>4, <2>2, Counting
  <2> QED BY <1>1, <2>3, <2>4, <2>5, <2>6
<1>6. Cardinality(Deliveries(t)) =
        Cardinality(Sent(t, "succeeded")) + Cardinality(Sent(t, "failed")) + Cardinality(Sent(t, "retrying"))
  <2>1. (Sent(t, "succeeded") \cup Sent(t, "failed")) \in SUBSET StatsRequests
    BY RowsOf
  <2> QED BY <1>2, <2>1, RowsOf, Counting
<1>7. Cardinality(CasesIn(t, "mistake")) <= Cardinality(Reviewed(t))
  BY <1>3, RowsOf, Counting
<1>8. FiguresOf(t) \in Stats!Reports
  <2>1. /\ Cardinality(Moderated(t)) \in Nat /\ Cardinality(Reviewed(t)) \in Nat
        /\ Cardinality(Deliveries(t)) \in Nat
        /\ \A k : /\ Cardinality(Decided(t, k)) \in Nat /\ Cardinality(Ruled(t, k)) \in Nat
                  /\ Cardinality(CasesIn(t, k)) \in Nat /\ Cardinality(Sent(t, k)) \in Nat
    BY RowsOf, Counting
  <2>2. /\ Cardinality(Decided(t, "allow")) + Cardinality(Ruled(t, "allow")) \in Nat
        /\ Cardinality(Decided(t, "block")) + Cardinality(Ruled(t, "block")) \in Nat
    BY <2>1
  <2> QED BY <2>1, <2>2 DEF FiguresOf, Stats!Reports
<1> QED BY <1>4, <1>5, <1>6, <1>7, <1>8, Counting DEF FiguresOf, a, b, c, d, e

\* Later figures are no smaller in what is final.
LEMMA LaterGrows ==
  ASSUME NEW t, NEW u, Moment(t), Moment(u), Later(t, u)
  PROVE  LET f == FiguresOf(t)  g == FiguresOf(u) IN
         /\ g.totalModerated >= f.totalModerated
         /\ g.allowed >= f.allowed /\ g.blocked >= f.blocked
         /\ g.reviewed >= f.reviewed /\ g.mistakes >= f.mistakes
         /\ g.webhookSucceeded >= f.webhookSucceeded
<1>1. \A r \in StatsRequests :
        /\ t.decision[r] # "none" => u.decision[r] = t.decision[r]
        /\ t.case[r] \in Stats!Rulings => u.case[r] = t.case[r]
        /\ t.delivery[r] = "succeeded" => u.delivery[r] = "succeeded"
  BY DEF Later
<1>2. \A r \in StatsRequests :
        t.case[r].status \notin {"none", "pending"} \/ t.case[r].final \in {"allow", "block"} =>
          t.case[r] \in Stats!Rulings
  BY MomentRows
<1>3. /\ Moderated(t) \subseteq Moderated(u)
      /\ Decided(t, "allow") \subseteq Decided(u, "allow")
      /\ Decided(t, "block") \subseteq Decided(u, "block")
  BY <1>1 DEF Moderated, Decided
<1>4. Ruled(t, "allow") \subseteq Ruled(u, "allow") /\ Ruled(t, "block") \subseteq Ruled(u, "block")
  BY <1>1, <1>2 DEF Ruled
<1>5. CasesIn(t, "mistake") \subseteq CasesIn(u, "mistake") /\ Reviewed(t) \subseteq Reviewed(u)
  BY <1>1, <1>2 DEF CasesIn, Reviewed
<1>6. Sent(t, "succeeded") \subseteq Sent(u, "succeeded")
  BY <1>1 DEF Sent
<1>7. /\ Cardinality(Moderated(u)) >= Cardinality(Moderated(t))
      /\ Cardinality(Decided(u, "allow")) >= Cardinality(Decided(t, "allow"))
      /\ Cardinality(Decided(u, "block")) >= Cardinality(Decided(t, "block"))
      /\ Cardinality(Ruled(u, "allow")) >= Cardinality(Ruled(t, "allow"))
      /\ Cardinality(Ruled(u, "block")) >= Cardinality(Ruled(t, "block"))
      /\ Cardinality(CasesIn(u, "mistake")) >= Cardinality(CasesIn(t, "mistake"))
      /\ Cardinality(Reviewed(u)) >= Cardinality(Reviewed(t))
      /\ Cardinality(Sent(u, "succeeded")) >= Cardinality(Sent(t, "succeeded"))
  <2> DEFINE less(S, T) == S \in SUBSET StatsRequests /\ T \in SUBSET StatsRequests /\ S \subseteq T
  <2>1. \A S, T : less(S, T) => Cardinality(T) >= Cardinality(S)
    BY Counting
  <2>2. /\ less(Moderated(t), Moderated(u)) /\ less(Decided(t, "allow"), Decided(u, "allow"))
        /\ less(Decided(t, "block"), Decided(u, "block")) /\ less(Ruled(t, "allow"), Ruled(u, "allow"))
        /\ less(Ruled(t, "block"), Ruled(u, "block"))
        /\ less(CasesIn(t, "mistake"), CasesIn(u, "mistake"))
        /\ less(Reviewed(t), Reviewed(u)) /\ less(Sent(t, "succeeded"), Sent(u, "succeeded"))
    BY <1>3, <1>4, <1>5, <1>6, RowsOf
  <2> HIDE DEF less
  <2> QED BY <2>1, <2>2
<1>8. \A S \in SUBSET StatsRequests : Cardinality(S) \in Nat
  BY Counting
<1> QED BY <1>7, <1>8, RowsOf DEF FiguresOf

-----------------------------------------------------------------------------
\* A commit: the tables after it are of a later moment, and all the rest stays.
LEMMA CommitHolds ==
  ASSUME StatsInv, UNCHANGED <<view, counted, report>>, Moment(tables'), Later(tables, tables')
  PROVE  StatsInv'
<1>1. \A t : Later(t, tables) => Later(t, tables')
  BY DEF Later
<1>2. Stats!TypeOK'
  BY DEF StatsInv, Stats!TypeOK, Moment
<1>3. counted # <<>> => Moment(view) /\ Later(view, tables')
  BY <1>1 DEF StatsInv
<1>4. report # NoReport =>
        \E t : Moment(t) /\ report = FiguresOf(t) /\ Later(t, tables') /\ (counted # <<>> => Later(t, view))
  BY <1>1 DEF StatsInv
<1> QED BY <1>2, <1>3, <1>4 DEF StatsInv

LEMMA Commits ==
  ASSUME StatsInv, NEW r \in StatsRequests,
         \/ \E d \in {"allow", "block", "review"} : Stats!SaveCheck(r, d)
         \/ \E verdict \in Stats!Rulings : Stats!FinalizeReviewCase(r, verdict)
         \/ \E outcome \in Stats!Delivery :
              Stats!SaveWebhookDelivery(r, outcome) \/ Stats!RetryWebhookDelivery(r, outcome)
  PROVE  StatsInv'
<1> DEFINE t == tables
<1>1. /\ Moment(t) /\ t \in Stats!Tables
      /\ t.decision \in [StatsRequests -> {"none", "allow", "block", "review"}]
      /\ t.case \in [StatsRequests -> Stats!Rulings \cup {Stats!NoCase, Stats!Pending}]
      /\ t.delivery \in [StatsRequests -> Stats!Delivery \cup {"none"}]
      /\ t = [decision |-> t.decision, case |-> t.case, delivery |-> t.delivery]
  BY DEF StatsInv, Moment, Stats!Tables
<1>2. \A x \in Stats!Rulings : x # Stats!NoCase /\ x # Stats!Pending
  BY DEF Stats!Rulings, Stats!NoCase, Stats!Pending
<1>3. Stats!NoCase # Stats!Pending
  BY DEF Stats!NoCase, Stats!Pending
<1>4. ASSUME NEW d \in {"allow", "block", "review"}, Stats!SaveCheck(r, d)
      PROVE  StatsInv'
  <2> DEFINE x == IF d = "review" THEN Stats!Pending ELSE Stats!NoCase
  <2>1. /\ t.decision[r] = "none" /\ UNCHANGED <<view, counted, report>>
        /\ tables' = [t EXCEPT !.decision[r] = d, !.case[r] = x]
    BY <1>4 DEF Stats!SaveCheck
  <2>2. /\ x \in {Stats!NoCase, Stats!Pending} /\ (d = "review" <=> x # Stats!NoCase)
    BY <1>3
  <2>3. t.case[r] = Stats!NoCase
    BY <1>1, <2>1 DEF Moment
  <2> HIDE DEF x, t
  <2>4. /\ tables'.decision = [t.decision EXCEPT ![r] = d]
        /\ tables'.case = [t.case EXCEPT ![r] = x] /\ tables'.delivery = t.delivery
        /\ tables' \in Stats!Tables
    BY <1>1, <2>1, <2>2 DEF Stats!Tables
  <2>5. Moment(tables')
    BY <1>1, <2>2, <2>4 DEF Moment
  <2>6. Later(t, tables')
    BY <1>1, <1>2, <2>1, <2>3, <2>4 DEF Later
  <2> QED BY <2>1, <2>5, <2>6, CommitHolds DEF t
<1>5. ASSUME NEW verdict \in Stats!Rulings, Stats!FinalizeReviewCase(r, verdict)
      PROVE  StatsInv'
  <2>1. /\ t.case[r] = Stats!Pending /\ UNCHANGED <<view, counted, report>>
        /\ tables' = [t EXCEPT !.case[r] = verdict]
    BY <1>5 DEF Stats!FinalizeReviewCase
  <2> HIDE DEF t
  <2>2. /\ tables'.decision = t.decision /\ tables'.case = [t.case EXCEPT ![r] = verdict]
        /\ tables'.delivery = t.delivery /\ tables' \in Stats!Tables
    BY <1>1, <2>1 DEF Stats!Tables
  <2>3. Moment(tables')
    BY <1>1, <1>2, <1>3, <2>1, <2>2 DEF Moment
  <2>4. Later(t, tables')
    BY <1>1, <1>2, <2>1, <2>2 DEF Later
  <2> QED BY <2>1, <2>3, <2>4, CommitHolds DEF t
<1>6. ASSUME NEW outcome \in Stats!Delivery,
             Stats!SaveWebhookDelivery(r, outcome) \/ Stats!RetryWebhookDelivery(r, outcome)
      PROVE  StatsInv'
  <2>1. /\ t.delivery[r] # "succeeded" /\ UNCHANGED <<view, counted, report>>
        /\ tables' = [t EXCEPT !.delivery[r] = outcome]
    BY <1>6 DEF Stats!SaveWebhookDelivery, Stats!RetryWebhookDelivery
  <2> HIDE DEF t
  <2>2. /\ tables'.decision = t.decision /\ tables'.case = t.case
        /\ tables'.delivery = [t.delivery EXCEPT ![r] = outcome] /\ tables' \in Stats!Tables
    BY <1>1, <2>1 DEF Stats!Tables
  <2>3. Moment(tables')
    BY <1>1, <2>2 DEF Moment
  <2>4. Later(t, tables')
    BY <1>1, <2>1, <2>2 DEF Later
  <2> QED BY <2>1, <2>3, <2>4, CommitHolds DEF t
<1> QED BY <1>4, <1>5, <1>6

\* A query: the first one takes the snapshot, the others read from it.
LEMMA CountHolds == ASSUME StatsInv, Stats!Count PROVE StatsInv'
<1> DEFINE seen == Stats!Visible
           n == Len(counted)
           new == Cardinality(Stats!Queries(seen)[n + 1])
<1>1. /\ n < 12 /\ view' = seen /\ counted' = Append(counted, new) /\ UNCHANGED <<tables, report>>
  BY SameCount DEF Stats!Count, Stats!NumQueries
<1>2. /\ counted \in Seq(Nat) /\ n \in Nat /\ tables \in Stats!Tables /\ report \in Stats!Reports \cup {NoReport}
  BY DEF StatsInv, Stats!TypeOK
<1>3. Moment(seen) /\ Later(seen, tables)
  BY DEF StatsInv, Stats!Visible, Later
<1>4. \A i \in 1..n : counted[i] = Cardinality(Stats!Queries(seen)[i])
  BY <1>2 DEF StatsInv, Stats!Visible
<1>5. report # NoReport =>
        \E t : Moment(t) /\ report = FiguresOf(t) /\ Later(t, tables) /\ Later(t, seen)
  BY DEF StatsInv, Stats!Visible
<1> HIDE DEF seen
<1>6. n + 1 \in 1..12 /\ new \in Nat
  <2>1. \A k \in Nat : k < 12 => k + 1 \in 1..12
    OBVIOUS
  <2>2. n + 1 \in 1..12
    <3> HIDE DEF n
    <3> QED BY <1>1, <1>2, <2>1
  <2> QED BY <2>2, CountIsNat
<1> HIDE DEF new
<1>7. /\ counted' \in Seq(Nat) /\ Len(counted') = n + 1
      /\ \A i \in 1..n : counted'[i] = counted[i]
      /\ counted'[n + 1] = new
  BY <1>1, <1>2, <1>6
<1> HIDE DEF n
<1>8. \A i \in 1..(n + 1) : counted'[i] = Cardinality(Stats!Queries(seen)[i])
  <2>1. \A i \in 1..(n + 1) : i \in 1..n \/ i = n + 1
    BY <1>2
  <2> QED BY <1>4, <1>7, <2>1 DEF new
<1>9. Stats!TypeOK'
  BY <1>1, <1>2, <1>3, <1>6, <1>7 DEF Stats!TypeOK, Stats!NumQueries, Moment
<1>10. Moment(tables)
  BY DEF StatsInv
<1> QED BY <1>1, <1>3, <1>5, <1>7, <1>8, <1>9, <1>10 DEF StatsInv

\* The twelve counts are served: they are the figures of the snapshot.
LEMMA ServeHolds ==
  ASSUME StatsInv, Stats!Serve
  PROVE  StatsInv' /\ Moment(view) /\ report' = FiguresOf(view) /\ counted # <<>>
<1>1. /\ Len(counted) = 12 /\ report' = Stats!Figures(counted) /\ counted' = <<>>
      /\ view' = Stats!Empty /\ UNCHANGED tables
  BY DEF Stats!Serve, Stats!NumQueries
<1>2. counted \in Seq(Nat) /\ counted # <<>>
  <2>1. counted \in Seq(Nat)
    BY DEF StatsInv, Stats!TypeOK
  <2>2. Len(<<>>) = 0
    OBVIOUS
  <2> QED BY <1>1, <2>1, <2>2
<1>3. /\ Moment(view) /\ Later(view, tables) /\ Moment(tables)
      /\ \A i \in 1..12 : counted[i] = Cardinality(Stats!Queries(view)[i])
  BY <1>1, <1>2 DEF StatsInv
<1>4. report' = FiguresOf(view)
  BY <1>1, <1>3, CountsAre
<1>5. report' \in Stats!Reports
  BY <1>3, <1>4, MomentAddsUp
<1>6. Stats!Empty \in Stats!Tables
  BY DEF Stats!Empty, Stats!Tables
<1>7. Stats!TypeOK'
  BY <1>1, <1>5, <1>6 DEF StatsInv, Stats!TypeOK, Stats!NumQueries
<1>8. StatsInv'
  BY <1>1, <1>3, <1>4, <1>7 DEF StatsInv
<1> QED BY <1>2, <1>3, <1>4, <1>8

LEMMA StatsInit == Stats!Init => StatsInv
<1> SUFFICES ASSUME Stats!Init PROVE StatsInv
  OBVIOUS
<1>1. Moment(Stats!Empty)
  BY DEF Moment, Stats!Empty, Stats!Tables
<1> QED BY <1>1 DEF Stats!Init, StatsInv, Moment, Stats!TypeOK, Stats!NumQueries

LEMMA StatsStep == StatsInv /\ [Stats!Next]_(Stats!vars) => StatsInv'
<1> SUFFICES ASSUME StatsInv, [Stats!Next]_(Stats!vars) PROVE StatsInv'
  OBVIOUS
<1>1. CASE Stats!Abort
  <2>1. counted' = <<>> /\ view' = Stats!Empty /\ UNCHANGED <<tables, report>>
    BY <1>1 DEF Stats!Abort
  <2>2. Stats!Empty \in Stats!Tables
    BY DEF Stats!Empty, Stats!Tables
  <2>3. Stats!TypeOK'
    BY <2>1, <2>2 DEF StatsInv, Stats!TypeOK, Stats!NumQueries
  <2> QED BY <2>1, <2>3 DEF StatsInv
<1>2. CASE UNCHANGED Stats!vars
  BY <1>2 DEF Stats!vars, StatsInv, Stats!TypeOK
<1> QED BY <1>1, <1>2, Commits, CountHolds, ServeHolds DEF Stats!Next

LEMMA StatsInvariance == Stats!Spec => []StatsInv
BY StatsInit, StatsStep, PTL DEF Stats!Spec

\* Twelve queries of one transaction give one snapshot's figures, which add up, for
\* any number of requests and whatever commits between the queries (GetStats).
THEOREM ReportsAddUp == Stats!Spec => []FiguresAddUp
<1>1. StatsInv => FiguresAddUp
  <2> SUFFICES ASSUME StatsInv PROVE FiguresAddUp
    OBVIOUS
  <2>1. Stats!TypeOK
    BY DEF StatsInv
  <2>2. report # NoReport => \E t : Moment(t) /\ report = FiguresOf(t)
    BY DEF StatsInv
  <2> QED BY <2>1, <2>2, MomentAddsUp DEF FiguresAddUp, Stats!FiguresAddUp
<1> QED BY <1>1, StatsInvariance, PTL

\* What is final never shrinks from one report to the next: each is of a later moment
\* than the one before, and counts decisions where they stay (GetStats).
THEOREM ReportsGrow == Stats!Spec => FiguresGrow
<1>1. StatsInv /\ [Stats!Next]_(Stats!vars) =>
        [report # NoReport =>
           /\ report'.totalModerated >= report.totalModerated
           /\ report'.allowed >= report.allowed /\ report'.blocked >= report.blocked
           /\ report'.reviewed >= report.reviewed /\ report'.mistakes >= report.mistakes
           /\ report'.webhookSucceeded >= report.webhookSucceeded]_(Stats!vars)
  <2> SUFFICES ASSUME StatsInv, [Stats!Next]_(Stats!vars), report # NoReport
               PROVE  /\ report'.totalModerated >= report.totalModerated
                      /\ report'.allowed >= report.allowed /\ report'.blocked >= report.blocked
                      /\ report'.reviewed >= report.reviewed /\ report'.mistakes >= report.mistakes
                      /\ report'.webhookSucceeded >= report.webhookSucceeded
    OBVIOUS
  <2>1. CASE report' = report
    <3>1. report \in Stats!Reports
      BY DEF StatsInv, Stats!TypeOK
    <3>2. /\ report.totalModerated \in Nat /\ report.allowed \in Nat /\ report.blocked \in Nat
          /\ report.reviewed \in Nat /\ report.mistakes \in Nat /\ report.webhookSucceeded \in Nat
      BY <3>1 DEF Stats!Reports
    <3> QED BY <2>1, <3>2
  <2>2. CASE Stats!Serve
    <3>1. Moment(view) /\ report' = FiguresOf(view) /\ counted # <<>>
      BY <2>2, ServeHolds
    <3>2. PICK t : Moment(t) /\ report = FiguresOf(t) /\ Later(t, view)
      BY <3>1 DEF StatsInv
    <3> QED BY <3>1, <3>2, LaterGrows
  <2>3. Stats!Serve \/ report' = report
    BY DEF Stats!Next, Stats!vars, Stats!SaveCheck, Stats!FinalizeReviewCase,
       Stats!SaveWebhookDelivery, Stats!RetryWebhookDelivery, Stats!Count, Stats!Abort
  <2> QED BY <2>1, <2>2, <2>3
<1> QED BY <1>1, StatsInvariance, PTL DEF Stats!Spec, FiguresGrow, Stats!FiguresGrow

\* Records and figures are read as the two modules say.
THEOREM EitherIsAsked == EitherSpec => Spec /\ Stats!Spec
<1>1. EitherInit => Init /\ Stats!Init
  BY DEF EitherInit
<1>2. [EitherNext]_<<asked, vars, statsVars>> => [Next]_vars /\ [Stats!Next]_(Stats!vars)
  BY DEF EitherNext, statsVars, Stats!vars
<1> QED BY <1>1, <1>2, PTL DEF EitherSpec, Spec, Stats!Spec

\* So all of it holds of what is read (GetResult, ListHistory, ListReviewCases, GetStats).
COROLLARY ReadsHold ==
  EitherSpec => [](ReadsHoldTogether /\ FiguresAddUp) /\ FiguresGrow
BY EitherIsAsked, AnswersHoldTogether, ReportsAddUp, ReportsGrow, PTL
=============================================================================
