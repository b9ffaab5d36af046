------------------------- MODULE DetectionTaskProofs -------------------------
(***************************************************************************)
(* That no task is lost and no row promises a result that is not stored,    *)
(* for any number of processes, requests and tasks, and whatever fails; and *)
(* that a row only loses what it says where a handler was cut off.          *)
(***************************************************************************)
EXTENDS DetectionTask, TLAPS

\* The HTTP handler of a request is alone with its row until it is over: the row is not
\* processed meanwhile, and completed only after a result is stored.  A stray request
\* has neither.
HandlersFit ==
  \A r \in Requests :
    /\ http[r].at = "none" => row[r] = [status |-> "absent", processed |-> FALSE]
    /\ http[r].at \in {"begin", "detect", "store", "finish"} => ~row[r].processed
    /\ http[r].at = "finish" => results[r] > 0
    /\ r \in Strays => http[r].at = "none"

\* So the tasks of a row and its HTTP handler never write to it at once.
PublishedFit ==
  /\ \A p \in Processes : late[p] \subseteq published
  /\ \A r \in published : r \in Strays \/ http[r].at = "over"

\* The broker has a task or has given it to one consumer.
Owns(p, r) == task[p] # NoTask /\ task[p].mine /\ task[p].req = r
OwnersFit ==
  \A r \in Requests : \A p \in Processes :
    Owns(p, r) => r \notin queue /\ \A q \in Processes : Owns(q, r) => q = p

\* A handler that still writes owns its task, and what it read of its row is still
\* true, unless one was cut off.
TaskFits(t) ==
  /\ t.req \in published
  /\ t.result <= results[t.req]
  /\ t.at # "find" => row[t.req].status # "absent"
  /\ t.at # "find" /\ t.processed => results[t.req] > 0
  /\ t.at \in {"finish", "ack"} => results[t.req] > 0
  /\ t.req \notin cut => t.mine \/ t.at = "ack"
  /\ t.req \notin cut /\ t.at \notin {"find", "ack"} => t.processed = row[t.req].processed
  /\ t.req \notin cut /\ t.at = "ack" => row[t.req].processed

TasksFit == \A p \in Processes : task[p] # NoTask => TaskFits(task[p])

ResultsFit ==
  \A r \in Requests :
    /\ cached[r] <= results[r]
    /\ row[r].processed \/ row[r].status = "completed" => results[r] > 0

IInv ==
  TypeOK /\ HandlersFit /\ PublishedFit /\ OwnersFit /\ TasksFit /\ TasksAreKept /\ ResultsFit

\* One more result than there were is one at least and not less than before.
LEMMA OneMoreFits ==
  ASSUME TypeOK, NEW r \in Requests
  PROVE  OneMore(r) \in 1..MaxResults /\ OneMore(r) >= results[r]
BY TaskAssumption DEF OneMore, TypeOK

Rows == [status : Statuses, processed : BOOLEAN]
Handlers == [mode : {"none", "sync", "stream", "async"},
             at : {"none", "begin", "detect", "store", "finish", "hung", "over"}]

\* What the handler of r saves is a row, and no other row is touched.
LEMMA SaveFits ==
  ASSUME TypeOK, NEW r \in Requests, NEW status \in Statuses, Save(r, status)
  PROVE  /\ row' \in [Requests -> Rows]
         /\ row'[r] = [status |-> status, processed |-> status = "completed"]
         /\ \A q \in Requests \ {r} : row'[q] = row[q]
BY DEF Save, TypeOK, Rows

\* Where the handler of r goes is all that changes of the handlers.
LEMMA GoFits ==
  ASSUME TypeOK, NEW r \in Requests,
         NEW stage \in {"detect", "store", "finish", "hung", "over"}, Go(r, stage)
  PROVE  /\ http' \in [Requests -> Handlers]
         /\ http'[r].at = stage
         /\ \A q \in Requests \ {r} : http'[q] = http[q]
BY DEF Go, TypeOK, Handlers

\* The task in hand of p.
LEMMA InHand ==
  ASSUME IInv, NEW p \in Processes, task[p] # NoTask
  PROVE  /\ task[p] \in Tasks /\ task[p].req \in Requests /\ task[p].req \in published
         /\ TaskFits(task[p])
BY DEF IInv, TypeOK, Tasks, TasksFit, TaskFits

\* Who holds a task, in terms of owners.
LEMMA HeldBy == \A r \in Requests : Held(r) <=> r \in queue \/ \E p \in Processes : Owns(p, r)
BY DEF Held, Unacknowledged, Owns

-----------------------------------------------------------------------------
\* The initial states, and the HTTP handlers.

LEMMA InitHolds == Init => IInv
BY TaskAssumption
DEF Init, IInv, TypeOK, HandlersFit, PublishedFit, OwnersFit, Owns, TasksFit, TasksAreKept,
    ResultsFit, Statuses

\* Where no queue and no task of r is touched, nothing changes for tasks of others.
LEMMA QueueUntouched ==
  ASSUME IInv, UNCHANGED queueVars
  PROVE  /\ OwnersFit'
         /\ \A r \in Requests : Held(r)' <=> Held(r)
BY DEF IInv, queueVars, OwnersFit, Owns, Held, Unacknowledged

LEMMA CreateHolds ==
  ASSUME IInv, NEW r \in Requests, NEW mode \in {"sync", "stream", "async"}, Create(r, mode)
  PROVE  IInv'
<1> USE TaskAssumption DEF IInv, Create, At, Save, queueVars
<1>0. r \notin published
  BY DEF PublishedFit
<1>1. TypeOK'
  BY DEF TypeOK, Statuses
<1>2. HandlersFit'
  BY DEF TypeOK, HandlersFit, PublishedFit
<1>3. PublishedFit'
  BY DEF TypeOK, PublishedFit
<1>4. OwnersFit' /\ \A q \in Requests : Held(q)' <=> Held(q)
  BY QueueUntouched
<1>5. TasksFit'
  BY <1>0, InHand DEF TypeOK, TasksFit, TaskFits
<1>6. TasksAreKept'
  BY <1>0, <1>4 DEF TypeOK, TasksAreKept
<1>7. ResultsFit'
  BY DEF TypeOK, ResultsFit
<1> QED BY <1>1, <1>2, <1>3, <1>4, <1>5, <1>6, <1>7

\* A step of the HTTP handler of r keeps the invariant if it writes no other row, stays
\* unprocessed until it is over, and completes or caches what it has stored: nobody
\* has a task for r yet.
HandlerMayDo(r) ==
  /\ http[r].at \in {"begin", "detect", "store", "finish"}
  /\ row' \in [Requests -> Rows] /\ http' \in [Requests -> Handlers]
  /\ results' \in [Requests -> 0..MaxResults] /\ cached' \in [Requests -> 0..MaxResults]
  /\ \A q \in Requests \ {r} : row'[q] = row[q] /\ http'[q] = http[q]
  /\ \A q \in Requests : results'[q] >= results[q] /\ cached'[q] <= results'[q]
  /\ http'[r].at \in {"detect", "store", "finish", "hung", "over"}
  /\ http'[r].at \in {"detect", "store", "finish"} => ~row'[r].processed
  /\ http'[r].at = "finish" => results'[r] > 0
  /\ row'[r].processed \/ row'[r].status = "completed" => results'[r] > 0
  /\ UNCHANGED queueVars

LEMMA HandlerHolds ==
  ASSUME IInv, NEW r \in Requests, HandlerMayDo(r)
  PROVE  IInv'
<1>1. r \notin published /\ r \notin Strays
  BY DEF IInv, HandlerMayDo, PublishedFit, HandlersFit
<1>2. TypeOK'
  BY DEF IInv, HandlerMayDo, TypeOK, Rows, Handlers, queueVars
<1>3. HandlersFit'
  BY <1>1 DEF IInv, HandlerMayDo, HandlersFit, TypeOK
<1>4. PublishedFit'
  BY <1>1 DEF IInv, HandlerMayDo, PublishedFit, TypeOK, queueVars
<1>5. OwnersFit' /\ \A q \in Requests : Held(q)' <=> Held(q)
  BY QueueUntouched DEF HandlerMayDo
<1>6. TasksFit'
  <2> SUFFICES ASSUME NEW p \in Processes, task[p] # NoTask
               PROVE  TaskFits(task[p])'
    BY DEF TasksFit, HandlerMayDo, queueVars
  <2>1. /\ task[p] \in Tasks /\ task[p].req \in Requests \ {r} /\ TaskFits(task[p])
        /\ task'[p] = task[p]
    BY <1>1, InHand DEF HandlerMayDo, queueVars
  <2>2. /\ row'[task[p].req] = row[task[p].req] /\ results'[task[p].req] >= results[task[p].req]
        /\ results[task[p].req] \in Nat /\ results'[task[p].req] \in Nat /\ task[p].result \in Nat
    BY <2>1, TaskAssumption DEF HandlerMayDo, IInv, TypeOK, Tasks
  <2> QED BY <2>1, <2>2 DEF TaskFits, HandlerMayDo, queueVars
<1>a. /\ UNCHANGED <<published, cut>>
      /\ \A q \in Requests \ {r} : row'[q] = row[q]
      /\ \A q \in Requests : /\ results'[q] >= results[q] /\ cached'[q] <= results'[q]
                           /\ results'[q] \in Nat /\ results[q] \in Nat
      /\ row'[r].processed \/ row'[r].status = "completed" => results'[r] > 0
  BY TaskAssumption DEF IInv, HandlerMayDo, TypeOK, queueVars
<1>7. TasksAreKept'
  <2> SUFFICES ASSUME NEW s \in published
               PROVE  Held(s)' \/ (results'[s] > 0 /\ (row'[s].processed \/ s \in cut))
    BY <1>a DEF TasksAreKept
  <2>1. s \in Requests \ {r} /\ (Held(s) \/ (results[s] > 0 /\ (row[s].processed \/ s \in cut)))
    BY <1>1 DEF IInv, TypeOK, TasksAreKept
  <2> QED BY <1>5, <1>a, <2>1
<1>8. ResultsFit'
  <2>1. \A q \in Requests \ {r} : row[q].processed \/ row[q].status = "completed" => results[q] > 0
    BY DEF IInv, ResultsFit
  <2> QED BY <1>a, <2>1 DEF ResultsFit
<1> QED BY <1>2, <1>3, <1>4, <1>5, <1>6, <1>7, <1>8 DEF IInv

\* The five steps of a handler are such.
LEMMA BeginHolds ==
  ASSUME IInv, NEW r \in Requests, Begin(r)
  PROVE  HandlerMayDo(r)
<1>1. http[r].at = "begin" /\ ~row[r].processed /\ UNCHANGED <<results, cached, queueVars>>
  BY DEF IInv, HandlersFit, Begin, At
<1>2. CASE Save(r, "processing") /\ Go(r, "detect")
  BY <1>1, <1>2, SaveFits, GoFits
  DEF IInv, TypeOK, Statuses, HandlerMayDo, HandlersFit, ResultsFit
<1>3. CASE UNCHANGED row /\ Go(r, IF Streams(r) THEN "detect" ELSE "over")
  BY <1>1, <1>3, GoFits DEF IInv, TypeOK, Rows, HandlerMayDo, ResultsFit
<1> QED BY <1>2, <1>3 DEF Begin

LEMMA DetectHolds ==
  ASSUME IInv, NEW r \in Requests, Detect(r)
  PROVE  HandlerMayDo(r)
<1>1. http[r].at = "detect" /\ ~row[r].processed /\ UNCHANGED <<results, cached, queueVars>>
  BY DEF IInv, HandlersFit, Detect, At
<1>2. PICK ok \in BOOLEAN : Go(r, Detected(r, ok)) /\ (UNCHANGED row \/ (~ok /\ Save(r, "failed")))
  BY DEF Detect, Detections
<1>3. Detected(r, ok) \in {"store", "over"}
  BY DEF Detected
<1>4. CASE UNCHANGED row
  BY <1>1, <1>2, <1>3, <1>4, GoFits DEF IInv, TypeOK, Rows, HandlerMayDo, ResultsFit
<1>5. CASE Save(r, "failed")
  BY <1>1, <1>2, <1>3, <1>5, SaveFits, GoFits
  DEF IInv, TypeOK, Statuses, HandlerMayDo, HandlersFit, ResultsFit
<1> QED BY <1>2, <1>4, <1>5

LEMMA StoreHolds ==
  ASSUME IInv, NEW r \in Requests, Store(r)
  PROVE  HandlerMayDo(r)
<1>1. http[r].at = "store" /\ ~row[r].processed /\ UNCHANGED <<row, queueVars>>
  BY DEF IInv, HandlersFit, Store, At
<1>2. CASE /\ results' = [results EXCEPT ![r] = OneMore(r)]
           /\ Go(r, "finish")
           /\ IF Streams(r) THEN Cache(r, OneMore(r)) ELSE UNCHANGED cached
  <2>1. OneMore(r) \in 1..MaxResults /\ OneMore(r) >= results[r]
    BY OneMoreFits DEF IInv
  <2>2. cached' \in {cached, [cached EXCEPT ![r] = OneMore(r)]}
    BY <1>2 DEF Cache
  <2>3. /\ results' \in [Requests -> 0..MaxResults] /\ cached' \in [Requests -> 0..MaxResults]
        /\ \A q \in Requests : results'[q] >= results[q] /\ cached'[q] <= results'[q]
        /\ results'[r] > 0
    BY <1>2, <2>1, <2>2, TaskAssumption DEF IInv, TypeOK, ResultsFit
  <2> QED BY <1>1, <1>2, <2>3, GoFits DEF IInv, TypeOK, Rows, HandlerMayDo
<1>3. CASE Refuse(r) /\ UNCHANGED <<results, cached>>
  BY <1>1, <1>3, GoFits, TaskAssumption DEF Refuse, IInv, TypeOK, Rows, HandlerMayDo, ResultsFit
<1> QED BY <1>2, <1>3 DEF Store

LEMMA FinishHolds ==
  ASSUME IInv, NEW r \in Requests, Finish(r)
  PROVE  HandlerMayDo(r)
<1>1. /\ http[r].at = "finish" /\ ~row[r].processed /\ results[r] > 0
      /\ UNCHANGED <<results, queueVars>>
  BY DEF IInv, HandlersFit, Finish, At
<1>2. CASE /\ Save(r, "completed") /\ Go(r, "over")
           /\ IF Streams(r) THEN UNCHANGED cached ELSE Cache(r, results[r])
  <2>1. cached' \in {cached, [cached EXCEPT ![r] = results[r]]}
    BY <1>2 DEF Cache
  <2>2. /\ cached' \in [Requests -> 0..MaxResults]
        /\ \A q \in Requests : cached'[q] <= results[q]
    <3>1. /\ cached \in [Requests -> 0..MaxResults] /\ results \in [Requests -> 0..MaxResults]
          /\ \A q \in Requests : cached[q] <= results[q]
      BY DEF IInv, TypeOK, ResultsFit
    <3>2. CASE cached' = [cached EXCEPT ![r] = results[r]]
      BY <3>1, <3>2, TaskAssumption
    <3> QED BY <2>1, <3>1, <3>2
  <2> QED BY <1>1, <1>2, <2>2, SaveFits, GoFits, TaskAssumption
          DEF IInv, TypeOK, Statuses, HandlerMayDo
<1>3. CASE Refuse(r) /\ UNCHANGED <<row, cached>>
  BY <1>1, <1>3, GoFits, TaskAssumption DEF Refuse, IInv, TypeOK, Rows, HandlerMayDo, ResultsFit
<1> QED BY <1>2, <1>3 DEF Finish

LEMMA AsyncRefusedHolds ==
  ASSUME IInv, NEW r \in Requests, AsyncRefused(r)
  PROVE  HandlerMayDo(r)
BY GoFits, TaskAssumption
DEF AsyncRefused, At, IInv, TypeOK, Rows, HandlersFit, HandlerMayDo, ResultsFit

LEMMA ExpireHolds ==
  ASSUME IInv, NEW r \in Requests, Expire(r)
  PROVE  IInv'
<1> USE TaskAssumption DEF IInv, Expire, queueVars
<1>1. TypeOK'
  BY DEF TypeOK
<1>2. HandlersFit' /\ PublishedFit'
  BY DEF HandlersFit, PublishedFit
<1>3. OwnersFit' /\ \A q \in Requests : Held(q)' <=> Held(q)
  BY QueueUntouched
<1>4. TasksFit'
  BY DEF TasksFit, TaskFits
<1>5. TasksAreKept'
  BY <1>3 DEF TypeOK, TasksAreKept
<1>6. ResultsFit'
  BY DEF TypeOK, ResultsFit
<1> QED BY <1>1, <1>2, <1>3, <1>4, <1>5, <1>6

LEMMA PublishHolds ==
  ASSUME IInv, NEW r \in Requests, Publish(r)
  PROVE  IInv'
<1> USE TaskAssumption DEF IInv, Publish, At, queueVars
<1>1. TypeOK'
  BY DEF TypeOK
<1>2. HandlersFit'
  BY DEF HandlersFit
<1>3. PublishedFit'
  BY DEF PublishedFit
<1>4. \A p \in Processes : ~Owns(p, r)
  BY InHand DEF Owns
<1>5. OwnersFit'
  BY <1>4 DEF OwnersFit, Owns
<1>6. TasksFit'
  BY DEF TasksFit, TaskFits
<1>7. TasksAreKept'
  BY DEF TasksAreKept, Held, Unacknowledged
<1>8. ResultsFit'
  BY DEF ResultsFit
<1> QED BY <1>1, <1>2, <1>3, <1>5, <1>6, <1>7, <1>8

-----------------------------------------------------------------------------
(***************************************************************************)
(* The consumers' steps.                                                    *)
(***************************************************************************)

\* A consumer is given a task: its own, from the queue, or one taken back.
LEMMA HandHolds ==
  ASSUME IInv, NEW p \in Processes, NEW r \in Requests, Take(p, r) \/ TakeLate(p, r)
  PROVE  IInv'
<1> USE TaskAssumption
<1>0. /\ r \in published /\ task[p] = NoTask
      /\ UNCHANGED <<row, results, cached, http, published, consumer, connected>>
  BY DEF Take, TakeLate, IInv, TypeOK, PublishedFit
<1>1. PICK own \in BOOLEAN :
        /\ Hand(p, r, own)
        /\ own => r \in queue /\ queue' = queue \ {r} /\ UNCHANGED <<late, cut>>
        /\ ~own => UNCHANGED queue /\ cut' = cut \cup {r} /\ \A q \in Processes : late'[q] \subseteq late[q]
        /\ late' \in [Processes -> SUBSET Requests]
  <2>1. CASE Take(p, r)
    BY <2>1 DEF Take, IInv, TypeOK
  <2>2. CASE TakeLate(p, r)
    <3>1. /\ late' \in [Processes -> SUBSET Requests]
          /\ \A q \in Processes : late'[q] \subseteq late[q]
      BY <2>2 DEF TakeLate, IInv, TypeOK
    <3>2. Hand(p, r, FALSE) /\ UNCHANGED queue /\ cut' = cut \cup {r}
      BY <2>2 DEF TakeLate
    <3> QED BY <3>1, <3>2
  <2> QED BY <2>1, <2>2
<1> DEFINE t == [req |-> r, at |-> "find", processed |-> FALSE, result |-> 0, mine |-> own]
<1>2. t \in Tasks /\ t # NoTask
  <2>1. t \in Tasks
    BY DEF Tasks
  <2> QED BY <2>1
<1>3. /\ task' \in [Processes -> Tasks \cup {NoTask}] /\ task'[p] = t
      /\ \A q \in Processes \ {p} : task'[q] = task[q]
  BY <1>1, <1>2 DEF Hand, IInv, TypeOK
<1>4. TypeOK'
  BY <1>0, <1>1, <1>3 DEF IInv, TypeOK
<1>5. HandlersFit'
  BY <1>0 DEF IInv, HandlersFit
<1>6. PublishedFit'
  BY <1>0, <1>1 DEF IInv, PublishedFit
<1>7. \A q \in Processes : \A s \in Requests :
        Owns(q, s)' <=> IF q = p THEN own /\ s = r ELSE Owns(q, s)
  BY <1>2, <1>3 DEF Owns
<1>8. OwnersFit'
  BY <1>0, <1>1, <1>7 DEF IInv, OwnersFit
<1>9. TasksFit'
  <2> SUFFICES ASSUME NEW q \in Processes, task'[q] # NoTask
               PROVE  TaskFits(task[q])'
    BY DEF TasksFit
  <2>1. CASE q = p
    BY <2>1, <1>0, <1>1, <1>3 DEF TaskFits, IInv, TypeOK
  <2>2. CASE q # p
    <3>1. TaskFits(task[q])
      BY <2>2, <1>3, InHand
    <3> QED BY <2>2, <3>1, <1>0, <1>1, <1>3 DEF TaskFits
  <2> QED BY <2>1, <2>2
<1>10. TasksAreKept'
  <2> SUFFICES ASSUME NEW s \in published
               PROVE  Held(s)' \/ (results[s] > 0 /\ (row[s].processed \/ s \in cut'))
    BY <1>0 DEF TasksAreKept
  <2>1. Held(s) => Held(s)'
    <3>1. s \in Requests
      BY DEF IInv, TypeOK
    <3>2. s \in queue => s \in queue' \/ (own /\ s = r)
      BY <1>1
    <3>3. Held(s)' <=> s \in queue' \/ \E q \in Processes : Owns(q, s)'
      BY <3>1 DEF Held, Unacknowledged, Owns
    <3>4. ~Owns(p, s)
      BY <1>0 DEF Owns
    <3> QED BY <3>1, <3>2, <3>3, <3>4, <1>7, HeldBy
  <2> QED BY <2>1, <1>1 DEF IInv, TasksAreKept
<1>11. ResultsFit'
  BY <1>0 DEF IInv, ResultsFit
<1> QED BY <1>4, <1>5, <1>6, <1>8, <1>9, <1>10, <1>11 DEF IInv

\* A step of the task handler of p keeps the invariant if it writes to the row it has
\* found only, before it acknowledges, leaves a processed row processed unless one
\* was cut off, and goes on, lets go of a task that is done, or gives it back.
GoesOn(p, t) ==
  LET r == task[p].req IN
  /\ t \in Tasks /\ t.req = r /\ t.mine = task[p].mine /\ t.at # "find"
  /\ row[r].status # "absent" /\ t.result <= results'[r]
  /\ t.processed \/ t.at \in {"finish", "ack"} => results'[r] > 0
  /\ r \notin cut => IF t.at = "ack" THEN row'[r].processed
                    ELSE t.mine /\ t.processed = row'[r].processed
  /\ queue' = queue

LetsGo(p) ==
  LET r == task[p].req IN
  \/ queue' = Returned(p)
  \/ queue' = queue /\ results'[r] > 0 /\ (row'[r].processed \/ r \in cut)

ConsumerMayDo(p, t) ==
  LET r == task[p].req IN
  /\ task[p] # NoTask
  /\ row' \in [Requests -> Rows] /\ results' \in [Requests -> 0..MaxResults]
  /\ cached' \in [Requests -> 0..MaxResults]
  /\ \A q \in Requests \ {r} : row'[q] = row[q]
  /\ \A q \in Requests : results'[q] >= results[q] /\ cached'[q] <= results'[q]
  /\ row'[r].processed \/ row'[r].status = "completed" => results'[r] > 0
  /\ row'[r] # row[r] => /\ row[r].status # "absent" /\ row'[r].status # "absent"
                         /\ task[p].at # "ack"
  /\ row[r].processed /\ r \notin cut => row'[r].processed
  /\ task' = [task EXCEPT ![p] = t]
  /\ GoesOn(p, t) \/ (t = NoTask /\ LetsGo(p))
  /\ UNCHANGED <<http, published, consumer, late, connected, cut>>

LEMMA ConsumerHolds ==
  ASSUME IInv, NEW p \in Processes, NEW t, ConsumerMayDo(p, t)
  PROVE  IInv'
<1> DEFINE r == task[p].req
<1> USE TaskAssumption
<1>0. /\ task[p] \in Tasks /\ r \in Requests /\ r \in published /\ TaskFits(task[p])
      /\ task[p] # NoTask
  BY InHand DEF ConsumerMayDo
<1>1. /\ UNCHANGED <<http, published, consumer, late, connected, cut>>
      /\ \A q \in Requests \ {r} : row'[q] = row[q]
      /\ \A q \in Requests : results'[q] >= results[q] /\ cached'[q] <= results'[q]
      /\ \A q \in Requests : results'[q] \in Nat /\ results[q] \in Nat
      /\ row'[r] # row[r] => row[r].status # "absent" /\ row'[r].status # "absent" /\ task[p].at # "ack"
      /\ row[r].processed /\ r \notin cut => row'[r].processed
      /\ row'[r].processed \/ row'[r].status = "completed" => results'[r] > 0
  BY DEF ConsumerMayDo, IInv, TypeOK
<1>2. /\ task' = [task EXCEPT ![p] = t] /\ t \in Tasks \cup {NoTask}
      /\ GoesOn(p, t) \/ (t = NoTask /\ LetsGo(p))
  BY DEF ConsumerMayDo, GoesOn
<1>3. /\ task' \in [Processes -> Tasks \cup {NoTask}] /\ task'[p] = t
      /\ \A q \in Processes \ {p} : task'[q] = task[q]
  BY <1>2 DEF IInv, TypeOK
<1>4. queue' \in {queue, queue \cup {r}} /\ (queue' # queue => task[p].mine /\ t = NoTask)
  BY <1>2 DEF GoesOn, LetsGo, Returned
<1>5. TypeOK'
  <2>1. queue' \subseteq published
    BY <1>0, <1>4 DEF IInv, TypeOK
  <2> QED BY <1>1, <1>3, <2>1 DEF IInv, TypeOK, ConsumerMayDo, Rows
<1>6. HandlersFit'
  <2>1. row'[r] # row[r] => http[r].at = "over"
    BY <1>0, <1>1 DEF IInv, PublishedFit, HandlersFit
  <2> QED BY <1>1, <2>1 DEF IInv, HandlersFit
<1>7. PublishedFit'
  BY <1>1 DEF IInv, PublishedFit
<1>8. \A q \in Processes : \A s \in Requests :
        Owns(q, s)' <=> IF q = p THEN t # NoTask /\ Owns(p, s) ELSE Owns(q, s)
  <2>1. t # NoTask => t.req = r /\ t.mine = task[p].mine
    BY <1>2 DEF GoesOn
  <2> QED BY <1>0, <1>3, <2>1 DEF Owns
<1>9. OwnersFit'
  <2> SUFFICES ASSUME NEW s \in Requests, NEW q \in Processes, Owns(q, s)'
               PROVE  s \notin queue' /\ \A o \in Processes : Owns(o, s)' => o = q
    BY DEF OwnersFit
  <2>1. Owns(q, s)
    BY <1>8
  <2>2. s \notin queue /\ \A o \in Processes : Owns(o, s) => o = q
    BY <2>1 DEF IInv, OwnersFit
  <2>3. s \notin queue'
    <3>1. CASE queue' # queue
      <4>1. Owns(p, r) /\ t = NoTask /\ queue' = queue \cup {r}
        BY <1>0, <1>4, <3>1 DEF Owns
      <4> QED BY <1>8, <2>2, <4>1
    <3> QED BY <2>2, <3>1
  <2> QED BY <1>8, <2>2, <2>3
<1>10. TasksFit'
  <2> SUFFICES ASSUME NEW q \in Processes, task'[q] # NoTask
               PROVE  TaskFits(task[q])'
    BY DEF TasksFit
  <2>1. CASE q = p
    <3>1. GoesOn(p, t) /\ task'[q] = t
      BY <2>1, <1>2, <1>3
    <3>2. row'[r].status # "absent"
      BY <3>1, <1>1 DEF GoesOn
    <3> QED BY <3>1, <3>2, <1>0, <1>1 DEF TaskFits, GoesOn
  <2>2. CASE q # p
    <3>1. task'[q] = task[q] /\ task[q] \in Tasks /\ TaskFits(task[q]) /\ task[q].req \in Requests
      BY <2>2, <1>3, InHand
    <3>2. task[q].result \in Nat
      BY <3>1 DEF Tasks
    <3>3. CASE task[q].req # r
      <4>1. row'[task[q].req] = row[task[q].req] /\ results'[task[q].req] >= results[task[q].req]
        BY <3>1, <3>3, <1>1
      <4> QED BY <3>1, <3>2, <4>1, <1>1 DEF TaskFits
    <3>4. CASE task[q].req = r /\ r \in cut
      <4>1. /\ results'[r] >= results[r] /\ results'[r] \in Nat /\ results[r] \in Nat
            /\ row[r].status # "absent" => row'[r].status # "absent"
        BY <1>0, <1>1
      <4> QED BY <3>1, <3>2, <3>4, <4>1, <1>1 DEF TaskFits
    <3>5. CASE task[q].req = r /\ r \notin cut
      <4>1. /\ results'[r] >= results[r] /\ results'[r] \in Nat /\ results[r] \in Nat
            /\ row[r].status # "absent" => row'[r].status # "absent"
        BY <1>0, <1>1
      <4>2. task[p].mine => ~task[q].mine
        BY <1>0, <2>2, <3>1, <3>5 DEF IInv, OwnersFit, Owns
      <4>3. task[q].at = "ack" \/ row'[r] = row[r]
        BY <1>0, <1>1, <3>1, <3>5, <4>2 DEF TaskFits
      <4>4. CASE task[q].at = "ack"
        BY <3>1, <3>2, <3>5, <4>1, <4>4, <1>1 DEF TaskFits
      <4>5. CASE row'[r] = row[r]
        BY <3>1, <3>2, <3>5, <4>1, <4>5, <1>1 DEF TaskFits
      <4> QED BY <4>3, <4>4, <4>5
    <3> QED BY <3>3, <3>4, <3>5
  <2> QED BY <2>1, <2>2
<1>11. TasksAreKept'
  <2> SUFFICES ASSUME NEW s \in published
               PROVE  Held(s)' \/ (results'[s] > 0 /\ (row'[s].processed \/ s \in cut))
    BY <1>1 DEF TasksAreKept
  <2>1. s \in Requests /\ (Held(s) \/ (results[s] > 0 /\ (row[s].processed \/ s \in cut)))
    BY DEF IInv, TypeOK, TasksAreKept
  <2>2. Held(s)' <=> s \in queue' \/ \E q \in Processes : Owns(q, s)'
    BY <2>1 DEF Held, Unacknowledged, Owns
  <2>3. CASE ~Held(s)
    BY <1>1, <2>1, <2>3
  <2>4. CASE Held(s) /\ ~Held(s)'
    <3>1. Owns(p, s) /\ t = NoTask /\ s \notin queue'
      BY <1>4, <1>8, <2>1, <2>2, <2>4, HeldBy
    <3>2. s = r /\ task[p].mine
      BY <3>1 DEF Owns
    <3>3. queue' # Returned(p)
      BY <3>1, <3>2 DEF Returned
    <3>4. LetsGo(p)
      BY <1>2, <3>1, <1>0 DEF GoesOn
    <3> QED BY <3>2, <3>3, <3>4 DEF LetsGo
  <2> QED BY <2>3, <2>4
<1>12. ResultsFit'
  <2>1. \A q \in Requests \ {r} : row[q].processed \/ row[q].status = "completed" => results[q] > 0
    BY DEF IInv, ResultsFit
  <2> QED BY <1>1, <2>1 DEF ResultsFit
<1> QED BY <1>5, <1>6, <1>7, <1>9, <1>10, <1>11, <1>12 DEF IInv

-----------------------------------------------------------------------------
\* Each stage of the task handler is such a step.

\* The row as the handler saves it.
LEMMA CopyFits ==
  ASSUME IInv, NEW p \in Processes, task[p] # NoTask, NEW status \in Statuses
  PROVE  /\ Copy(p, status) \in Rows /\ Copy(p, status).status = status
         /\ status = "completed" => Copy(p, status).processed
         /\ status # "completed" => Copy(p, status).processed = task[p].processed
<1>1. task[p].processed \in BOOLEAN
  BY InHand DEF Tasks
<1>2. CASE task[p].processed
  BY <1>2 DEF Copy, Rows
<1>3. CASE ~task[p].processed
  BY <1>1, <1>3 DEF Copy, Rows
<1> QED BY <1>2, <1>3

\* What the handler at work relies on, and what a step that stores nothing keeps.
Quiet(p) ==
  /\ task[p] # NoTask /\ task[p].req \in Requests /\ task[p] \in Tasks /\ TaskFits(task[p])
  /\ row \in [Requests -> Rows]
  /\ results \in [Requests -> 0..MaxResults] /\ cached \in [Requests -> 0..MaxResults]
  /\ \A q \in Requests : /\ results[q] >= results[q] /\ cached[q] <= results[q]
                         /\ results[q] \in Nat /\ cached[q] \in Nat
                         /\ row[q].processed \/ row[q].status = "completed" => results[q] > 0

LEMMA AllQuiet ==
  ASSUME IInv, NEW p \in Processes, task[p] # NoTask
  PROVE  Quiet(p)
<1>1. /\ row \in [Requests -> Rows]
      /\ results \in [Requests -> 0..MaxResults] /\ cached \in [Requests -> 0..MaxResults]
  BY DEF IInv, TypeOK, Rows
<1>2. \A q \in Requests : /\ cached[q] <= results[q]
                          /\ row[q].processed \/ row[q].status = "completed" => results[q] > 0
  BY DEF IInv, ResultsFit
<1>3. \A q \in Requests : results[q] \in Nat /\ cached[q] \in Nat /\ results[q] >= results[q]
  BY <1>1, TaskAssumption
<1> QED BY <1>1, <1>2, <1>3, InHand DEF Quiet

LEMMA FindHolds ==
  ASSUME IInv, NEW p \in Processes, NEW r \in Requests, Find(p, r)
  PROVE  \E t : ConsumerMayDo(p, t)
<1> DEFINE t == [task[p] EXCEPT !.at = "begin", !.processed = row[r].processed]
<1>1. Quiet(p) /\ task[p].req = r /\ task[p].at = "find" /\ row[r].status # "absent"
  BY AllQuiet DEF Find, Working
<1>2. /\ t \in Tasks /\ t.req = r /\ t.mine = task[p].mine /\ t.at = "begin"
      /\ t.processed = row[r].processed /\ t.result = task[p].result
  BY <1>1 DEF Quiet, Tasks, Rows
<1>3. task' = [task EXCEPT ![p] = t]
  BY DEF Find
<1>4. UNCHANGED <<row, results, cached, http, published, queue, consumer, late, connected, cut>>
  BY DEF Find
<1>5. GoesOn(p, t)
  BY <1>1, <1>2, <1>4 DEF GoesOn, Quiet, TaskFits
<1> QED BY <1>1, <1>3, <1>4, <1>5 DEF ConsumerMayDo, Quiet

LEMMA TaskBeginHolds ==
  ASSUME IInv, NEW p \in Processes, NEW r \in Requests, TaskBegin(p, r)
  PROVE  \E t : ConsumerMayDo(p, t)
<1> DEFINE t == [task[p] EXCEPT !.at = "detect"]
<1>1. Quiet(p) /\ task[p].req = r /\ task[p].at = "begin" /\ row[r].status # "absent"
  BY AllQuiet DEF TaskBegin, Working, Quiet, TaskFits
<1>2. /\ t \in Tasks /\ t.req = r /\ t.mine = task[p].mine /\ t.at = "detect"
      /\ t.processed = task[p].processed /\ t.result = task[p].result
  BY <1>1 DEF Quiet, Tasks
<1>3. task' = [task EXCEPT ![p] = t]
  BY DEF TaskBegin, Advance
<1>4. UNCHANGED <<results, cached, http, published, queue, consumer, late, connected, cut>>
  BY DEF TaskBegin
<1>5. /\ row' \in [Requests -> Rows] /\ \A q \in Requests \ {r} : row'[q] = row[q]
      /\ \/ row'[r] = row[r]
         \/ row'[r].status = "processing" /\ row'[r].processed = task[p].processed
  <2>1. /\ Copy(p, "processing") \in Rows /\ Copy(p, "processing").status = "processing"
        /\ Copy(p, "processing").processed = task[p].processed
    BY <1>1, CopyFits DEF Quiet, Statuses
  <2> QED BY <1>1, <2>1 DEF TaskBegin, Quiet
<1>6. GoesOn(p, t)
  BY <1>1, <1>2, <1>4, <1>5 DEF GoesOn, Quiet, TaskFits
<1> QED BY <1>1, <1>3, <1>4, <1>5, <1>6 DEF ConsumerMayDo, Quiet, TaskFits

LEMMA TaskDetectHolds ==
  ASSUME IInv, NEW p \in Processes, NEW r \in Requests, TaskDetect(p, r)
  PROVE  \E t : ConsumerMayDo(p, t)
<1> DEFINE t == [task[p] EXCEPT !.at = "store"]
<1>1. Quiet(p) /\ task[p].req = r /\ task[p].at = "detect"
  BY AllQuiet DEF TaskDetect, Working
<1>2. /\ t \in Tasks /\ t.req = r /\ t.mine = task[p].mine /\ t.at = "store"
      /\ t.processed = task[p].processed /\ t.result = task[p].result
  BY <1>1 DEF Quiet, Tasks
<1>3. task' = [task EXCEPT ![p] = t]
  BY DEF TaskDetect, Advance
<1>4. UNCHANGED <<row, results, cached, http, published, queue, consumer, late, connected, cut>>
  BY DEF TaskDetect
<1>5. GoesOn(p, t)
  BY <1>1, <1>2, <1>4 DEF GoesOn, Quiet, TaskFits
<1> QED BY <1>1, <1>3, <1>4, <1>5 DEF ConsumerMayDo, Quiet

LEMMA TaskStoreHolds ==
  ASSUME IInv, NEW p \in Processes, NEW r \in Requests, TaskStore(p, r)
  PROVE  \E t : ConsumerMayDo(p, t)
<1> DEFINE t == [task[p] EXCEPT !.at = "finish", !.result = OneMore(r)]
<1>1. Quiet(p) /\ task[p].req = r /\ task[p].at = "store"
  BY AllQuiet DEF TaskStore, Working
<1>2. OneMore(r) \in 1..MaxResults /\ OneMore(r) >= results[r]
  BY OneMoreFits DEF IInv
<1>3. /\ t \in Tasks /\ t.req = r /\ t.mine = task[p].mine /\ t.at = "finish"
      /\ t.processed = task[p].processed /\ t.result = OneMore(r)
  <2>1. OneMore(r) \in 0..MaxResults
    BY <1>2, TaskAssumption
  <2> QED BY <1>1, <2>1 DEF Quiet, Tasks
<1>4. task' = [task EXCEPT ![p] = t]
  BY DEF TaskStore
<1>5. UNCHANGED <<row, cached, http, published, queue, consumer, late, connected, cut>>
  BY DEF TaskStore
<1>6. /\ results' \in [Requests -> 0..MaxResults] /\ results'[r] = OneMore(r)
      /\ \A q \in Requests \ {r} : results'[q] = results[q]
  BY <1>1, <1>2, TaskAssumption DEF TaskStore, Quiet
<1>7. /\ \A q \in Requests : results'[q] >= results[q] /\ cached[q] <= results'[q]
      /\ results'[r] > 0 /\ OneMore(r) <= OneMore(r)
  BY <1>1, <1>2, <1>6, TaskAssumption DEF Quiet
<1>8. GoesOn(p, t)
  BY <1>1, <1>3, <1>5, <1>6, <1>7 DEF GoesOn, Quiet, TaskFits
<1> QED BY <1>1, <1>4, <1>5, <1>6, <1>7, <1>8 DEF ConsumerMayDo, Quiet

LEMMA TaskFinishHolds ==
  ASSUME IInv, NEW p \in Processes, NEW r \in Requests, TaskFinish(p, r)
  PROVE  \E t : ConsumerMayDo(p, t)
<1> DEFINE t == [task[p] EXCEPT !.at = "ack"]
<1>1. /\ Quiet(p) /\ task[p].req = r /\ task[p].at = "finish" /\ row[r].status # "absent"
      /\ results[r] > 0 /\ task[p].result <= results[r] /\ task[p].result \in 0..MaxResults
  BY AllQuiet DEF TaskFinish, Working, Quiet, TaskFits, Tasks
<1>2. /\ t \in Tasks /\ t.req = r /\ t.mine = task[p].mine /\ t.at = "ack"
      /\ t.processed = task[p].processed /\ t.result = task[p].result
  BY <1>1 DEF Quiet, Tasks
<1>3. task' = [task EXCEPT ![p] = t]
  BY DEF TaskFinish, Advance
<1>4. UNCHANGED <<results, http, published, queue, consumer, late, connected, cut>>
  BY DEF TaskFinish
<1>5. /\ row' \in [Requests -> Rows] /\ \A q \in Requests \ {r} : row'[q] = row[q]
      /\ row'[r].status = "completed" /\ row'[r].processed
  <2>1. /\ Copy(p, "completed") \in Rows /\ Copy(p, "completed").status = "completed"
        /\ Copy(p, "completed").processed
    BY <1>1, CopyFits DEF Quiet, Statuses
  <2> QED BY <1>1, <2>1 DEF TaskFinish, Quiet
<1>6. /\ cached' \in [Requests -> 0..MaxResults]
      /\ \A q \in Requests : cached'[q] <= results[q]
  <2>1. cached' \in {cached, [cached EXCEPT ![r] = task[p].result]}
    BY DEF TaskFinish, Cache
  <2>2. CASE cached' = [cached EXCEPT ![r] = task[p].result]
    BY <1>1, <2>2, TaskAssumption DEF Quiet
  <2> QED BY <1>1, <2>1, <2>2 DEF Quiet
<1>7. GoesOn(p, t)
  BY <1>1, <1>2, <1>4, <1>5 DEF GoesOn, Quiet
<1> QED BY <1>1, <1>3, <1>4, <1>5, <1>6, <1>7 DEF ConsumerMayDo, Quiet

LEMMA AcknowledgeHolds ==
  ASSUME IInv, NEW p \in Processes, NEW r \in Requests, Acknowledge(p, r)
  PROVE  ConsumerMayDo(p, NoTask)
<1>1. Quiet(p) /\ task[p].req = r /\ task[p].at = "ack"
  BY AllQuiet DEF Acknowledge, Working
<1>2. /\ task' = [task EXCEPT ![p] = NoTask]
      /\ UNCHANGED <<row, results, cached, http, published, queue, consumer, late, connected, cut>>
  BY DEF Acknowledge
<1>3. LetsGo(p)
  BY <1>1, <1>2 DEF LetsGo, Quiet, TaskFits
<1> QED BY <1>1, <1>2, <1>3 DEF ConsumerMayDo, Quiet

LEMMA TaskFailsHolds ==
  ASSUME IInv, NEW p \in Processes, NEW r \in Requests, TaskFails(p, r)
  PROVE  ConsumerMayDo(p, NoTask)
<1>1. Quiet(p)
  BY AllQuiet DEF TaskFails, Working
<1>2. /\ task' = [task EXCEPT ![p] = NoTask] /\ queue' = Returned(p)
      /\ UNCHANGED <<row, results, cached, http, published, consumer, late, connected, cut>>
  BY DEF TaskFails, Reject
<1>3. LetsGo(p)
  BY <1>2 DEF LetsGo
<1> QED BY <1>1, <1>2, <1>3 DEF ConsumerMayDo, Quiet

LEMMA DetectionFailsHolds ==
  ASSUME IInv, NEW p \in Processes, NEW r \in Requests, DetectionFails(p, r)
  PROVE  ConsumerMayDo(p, NoTask)
<1>1. Quiet(p) /\ task[p].req = r /\ task[p].at = "detect" /\ row[r].status # "absent"
  BY AllQuiet DEF DetectionFails, Working, Quiet, TaskFits
<1>2. /\ task' = [task EXCEPT ![p] = NoTask] /\ queue' = Returned(p)
      /\ UNCHANGED <<results, cached, http, published, consumer, late, connected, cut>>
  BY DEF DetectionFails, Reject
<1>3. LetsGo(p)
  BY <1>2 DEF LetsGo
<1>4. /\ row' \in [Requests -> Rows] /\ \A q \in Requests \ {r} : row'[q] = row[q]
      /\ \/ row'[r] = row[r]
         \/ row'[r].status = "failed" /\ row'[r].processed = task[p].processed
  <2>1. /\ Copy(p, "failed") \in Rows /\ Copy(p, "failed").status = "failed"
        /\ Copy(p, "failed").processed = task[p].processed
    BY <1>1, CopyFits DEF Quiet, Statuses
  <2> QED BY <1>1, <2>1 DEF DetectionFails, Quiet
<1> QED BY <1>1, <1>2, <1>3, <1>4 DEF ConsumerMayDo, Quiet, TaskFits

\* So is every step of a consumer, but that a task is handed to it.
LEMMA TaskStepMayDo ==
  ASSUME IInv, NEW p \in Processes, NEW r \in Requests, TaskStep(p, r)
  PROVE  Take(p, r) \/ TakeLate(p, r) \/ \E t : ConsumerMayDo(p, t)
BY FindHolds, TaskBeginHolds, TaskDetectHolds, TaskStoreHolds, TaskFinishHolds,
   AcknowledgeHolds, TaskFailsHolds, DetectionFailsHolds
DEF TaskStep

-----------------------------------------------------------------------------
(***************************************************************************)
(* Connections and processes.                                               *)
(***************************************************************************)

\* The broker takes back what p had not acknowledged, and nobody owns it then: p lost
\* it, by its connection or by its end.
LEMMA TakenBack ==
  ASSUME IInv, NEW p \in Processes, queue' = queue \cup Unacknowledged(p),
         ~(task'[p] # NoTask /\ task'[p].mine), \A q \in Processes \ {p} : task'[q] = task[q]
  PROVE  /\ queue' \subseteq published /\ OwnersFit'
         /\ \A r \in Requests : Held(r) => Held(r)'
<1>1. \A r \in Requests : r \in queue' <=> r \in queue \/ Owns(p, r)
  BY InHand DEF Unacknowledged, Owns
<1>2. \A q \in Processes : \A r \in Requests : Owns(q, r)' <=> q # p /\ Owns(q, r)
  BY DEF Owns
<1>3. queue' \subseteq published
  BY InHand DEF IInv, TypeOK, Unacknowledged
<1>4. OwnersFit'
  BY <1>1, <1>2 DEF IInv, OwnersFit
<1>5. \A r \in Requests : Held(r)' <=> r \in queue' \/ \E q \in Processes : Owns(q, r)'
  BY DEF Held, Unacknowledged, Owns
<1> QED BY <1>1, <1>2, <1>3, <1>4, <1>5, HeldBy

LEMMA LoseConnectionHolds ==
  ASSUME IInv, NEW p \in Processes, LoseConnection(p)
  PROVE  IInv'
<1>1. UNCHANGED <<row, results, cached, http, published>>
  BY DEF LoseConnection
<1>2. /\ queue' = queue \cup Unacknowledged(p)
      /\ cut' = IF task[p] = NoTask \/ task[p].at = "ack" THEN cut ELSE cut \cup {task[p].req}
  BY DEF LoseConnection
<1>3. /\ task' \in [Processes -> Tasks \cup {NoTask}]
      /\ \A q \in Processes \ {p} : task'[q] = task[q]
      /\ task[p] = NoTask => task'[p] = NoTask
      /\ task[p] # NoTask => /\ task'[p] = [task[p] EXCEPT !.mine = FALSE]
                             /\ task'[p] \in Tasks
  <2>1. CASE task[p] = NoTask
    BY <2>1 DEF LoseConnection, IInv, TypeOK
  <2>2. CASE task[p] # NoTask
    <3>1. task[p] \in Tasks
      BY <2>2, InHand
    <3>2. [task[p] EXCEPT !.mine = FALSE] \in Tasks
      BY <3>1 DEF Tasks
    <3> QED BY <2>2, <3>2 DEF LoseConnection, IInv, TypeOK
  <2> QED BY <2>1, <2>2
<1>4. ~(task'[p] # NoTask /\ task'[p].mine)
  <2>1. CASE task[p] # NoTask
    BY <2>1, <1>3, InHand DEF Tasks
  <2> QED BY <2>1, <1>3
<1>5. /\ queue' \subseteq published /\ OwnersFit'
      /\ \A r \in Requests : Held(r) => Held(r)'
  BY <1>2, <1>3, <1>4, TakenBack
<1>6. cut \subseteq cut' /\ cut' \subseteq Requests
  BY <1>2, InHand DEF IInv, TypeOK
<1>7. /\ consumer' \in [Processes -> {"running", "draining", "gone"}]
      /\ late' \in [Processes -> SUBSET Requests]
      /\ connected' \in [Processes -> BOOLEAN]
      /\ \A q \in Processes : late'[q] \subseteq published
  <2>1. connected' \in [Processes -> BOOLEAN]
    BY DEF LoseConnection, IInv, TypeOK
  <2>2. CASE consumer[p] = "running"
    <3>1. PICK buffered \in SUBSET queue : late' = [late EXCEPT ![p] = buffered]
      BY <2>2 DEF LoseConnection
    <3>2. buffered \subseteq published /\ buffered \subseteq Requests
      BY <3>1 DEF IInv, TypeOK
    <3> QED BY <2>1, <2>2, <3>1, <3>2 DEF LoseConnection, IInv, TypeOK, PublishedFit
  <2>3. CASE consumer[p] # "running"
    BY <2>1, <2>3 DEF LoseConnection, IInv, TypeOK, PublishedFit
  <2> QED BY <2>2, <2>3
<1>8. TypeOK'
  BY <1>1, <1>3, <1>5, <1>6, <1>7 DEF IInv, TypeOK
<1>9. HandlersFit' /\ PublishedFit' /\ ResultsFit'
  BY <1>1, <1>7 DEF IInv, HandlersFit, PublishedFit, ResultsFit
<1>10. TasksFit'
  <2> SUFFICES ASSUME NEW q \in Processes, task'[q] # NoTask
               PROVE  TaskFits(task[q])'
    BY DEF TasksFit
  <2>1. task[q] # NoTask /\ TaskFits(task[q]) /\ task[q] \in Tasks
    BY <1>3, InHand
  <2>2. CASE q = p
    <3>1. /\ task'[q].req = task[q].req /\ task'[q].at = task[q].at
          /\ task'[q].processed = task[q].processed /\ task'[q].result = task[q].result
      BY <2>1, <2>2, <1>3 DEF Tasks
    <3>2. task[q].at = "ack" \/ task[q].req \in cut'
      BY <2>1, <2>2, <1>2
    <3> QED BY <2>1, <3>1, <3>2, <1>1, <1>6 DEF TaskFits
  <2>3. CASE q # p
    BY <2>1, <2>3, <1>1, <1>3, <1>6 DEF TaskFits
  <2> QED BY <2>2, <2>3
<1>11. TasksAreKept'
  BY <1>1, <1>5, <1>6 DEF IInv, TypeOK, TasksAreKept
<1> QED BY <1>5, <1>8, <1>9, <1>10, <1>11 DEF IInv

LEMMA RestartHolds ==
  ASSUME IInv, NEW p \in Processes, Restart(p)
  PROVE  IInv'
<1>1. UNCHANGED <<row, results, cached, published, cut>>
  BY DEF Restart
<1>2. /\ task' \in [Processes -> Tasks \cup {NoTask}] /\ task'[p] = NoTask
      /\ \A q \in Processes \ {p} : task'[q] = task[q]
  BY DEF Restart, IInv, TypeOK
<1>3. /\ queue' \subseteq published /\ OwnersFit'
      /\ \A r \in Requests : Held(r) => Held(r)'
  BY <1>2, TakenBack DEF Restart
<1>4. /\ http' \in [Requests -> Handlers]
      /\ \A r \in Requests : http'[r].at = http[r].at
                             \/ (http[r].at # "none" /\ http'[r].at = "over")
  <2> SUFFICES ASSUME NEW r \in Requests
               PROVE  /\ http'[r] \in Handlers
                      /\ http'[r].at = http[r].at \/ (http[r].at # "none" /\ http'[r].at = "over")
    BY DEF Restart
  <2>1. http[r] \in Handlers
    BY DEF IInv, TypeOK, Handlers
  <2>2. http'[r] \in {http[r], [http[r] EXCEPT !.at = "over"]}
        /\ (http'[r] = http[r] \/ http[r].at # "none")
    BY DEF Restart, At
  <2> QED BY <2>1, <2>2 DEF Handlers
<1>5. TypeOK'
  BY <1>1, <1>2, <1>3, <1>4 DEF Restart, IInv, TypeOK, Handlers
<1>6. HandlersFit'
  BY <1>1, <1>4 DEF IInv, HandlersFit
<1>7. PublishedFit'
  <2>1. \A q \in Processes : late'[q] \subseteq published
    BY DEF Restart, IInv, TypeOK, PublishedFit
  <2>2. published \subseteq Requests
    BY <1>3, <1>5, <1>1 DEF IInv, TypeOK
  <2> QED BY <1>1, <1>4, <2>1, <2>2 DEF IInv, PublishedFit
<1>8. TasksFit'
  BY <1>1, <1>2, InHand DEF TasksFit, TaskFits
<1>9. TasksAreKept'
  BY <1>1, <1>3 DEF IInv, TypeOK, TasksAreKept
<1>10. ResultsFit'
  BY <1>1 DEF IInv, ResultsFit
<1> QED BY <1>3, <1>5, <1>6, <1>7, <1>8, <1>9, <1>10 DEF IInv

\* A channel that is found closed and a connection opened again touch no task.
LEMMA ChannelHolds ==
  ASSUME IInv, NEW p \in Processes, ChannelClosed(p) \/ Reconnect(p)
  PROVE  IInv'
<1>1. UNCHANGED <<row, results, cached, http, published, queue, task, cut>>
  BY DEF ChannelClosed, Reconnect
<1>2. /\ consumer' \in [Processes -> {"running", "draining", "gone"}]
      /\ late' \in [Processes -> SUBSET Requests] /\ connected' \in [Processes -> BOOLEAN]
      /\ \A q \in Processes : late'[q] \subseteq late[q]
  BY DEF ChannelClosed, Reconnect, IInv, TypeOK
<1>3. TypeOK'
  BY <1>1, <1>2 DEF IInv, TypeOK
<1>4. HandlersFit' /\ TasksFit' /\ ResultsFit'
  BY <1>1 DEF IInv, HandlersFit, TasksFit, TaskFits, ResultsFit
<1>5. PublishedFit'
  BY <1>1, <1>2 DEF IInv, PublishedFit
<1>6. OwnersFit' /\ TasksAreKept'
  BY <1>1 DEF IInv, OwnersFit, Owns, TasksAreKept, Held, Unacknowledged
<1> QED BY <1>3, <1>4, <1>5, <1>6 DEF IInv

-----------------------------------------------------------------------------
\* Every step keeps the invariant.
LEMMA NextHolds == IInv /\ [Next]_vars => IInv'
<1> SUFFICES ASSUME IInv, [Next]_vars
             PROVE  IInv'
  OBVIOUS
<1>1. CASE UNCHANGED vars
  BY <1>1
  DEF vars, IInv, TypeOK, HandlersFit, PublishedFit, OwnersFit, Owns, TasksFit, TaskFits,
      TasksAreKept, Held, Unacknowledged, ResultsFit
<1>2. ASSUME NEW r \in Requests, NEW mode \in {"sync", "stream", "async"}, Create(r, mode)
      PROVE  IInv'
  BY <1>2, CreateHolds
<1>3. ASSUME NEW r \in Requests, HandlerStep(r)
      PROVE  IInv'
  <2>1. HandlerMayDo(r)
    BY <1>3, AsyncRefusedHolds, BeginHolds, DetectHolds, StoreHolds, FinishHolds DEF HandlerStep
  <2> QED BY <2>1, HandlerHolds
<1>4. ASSUME NEW r \in Requests, Expire(r) \/ Publish(r)
      PROVE  IInv'
  BY <1>4, ExpireHolds, PublishHolds
<1>5. ASSUME NEW p \in Processes, NEW r \in Requests, TaskStep(p, r)
      PROVE  IInv'
  BY <1>5, TaskStepMayDo, HandHolds, ConsumerHolds
<1>6. ASSUME NEW p \in Processes,
             LoseConnection(p) \/ ChannelClosed(p) \/ Reconnect(p) \/ Restart(p)
      PROVE  IInv'
  BY <1>6, LoseConnectionHolds, ChannelHolds, RestartHolds
<1> QED BY <1>1, <1>2, <1>3, <1>4, <1>5, <1>6 DEF Next

LEMMA Invariance == Spec => []IInv
<1>1. Init => IInv
  BY InitHolds
<1>2. IInv /\ [Next]_vars => IInv'
  BY NextHolds
<1> QED BY <1>1, <1>2, PTL DEF Spec

\* What the readers of a row are shown, from what is cached and counted.
LEMMA ReadersFit == IInv => ResultsAreStored
BY TaskAssumption DEF IInv, TypeOK, ResultsFit, ResultsAreStored, GetResult

\* However many processes consume the queue, and whatever fails: a task is with the
\* broker, or with a consumer that will be asked for it again, until a result of it is
\* stored and, unless a handler was cut off, its row is processed; and a row that is
\* processed has a result that its readers find.
THEOREM TasksAccounted == Spec => []Accounted
<1>1. IInv => Accounted
  BY ReadersFit DEF Accounted, IInv
<1> QED BY <1>1, Invariance, PTL

\* A processed row stays so, through redeliveries and failures, where no handler that
\* was cut off has worked on it.
THEOREM ProcessedIsFinal == Spec => ProcessedStays
<1> DEFINE Stays == \A r \in Requests : row[r].processed /\ r \notin cut => row'[r].processed
<1>1. IInv /\ [Next]_vars => [Stays]_vars
  <2> SUFFICES ASSUME IInv, Next
               PROVE  Stays
    BY DEF vars
  <2>1. ASSUME NEW q \in Requests, NEW mode \in {"sync", "stream", "async"}, Create(q, mode)
        PROVE  Stays
    BY <2>1 DEF IInv, HandlersFit, TypeOK, Create, At, Save
  <2>2. ASSUME NEW q \in Requests, HandlerStep(q)
        PROVE  Stays
    <3>1. HandlerMayDo(q)
      BY <2>2, AsyncRefusedHolds, BeginHolds, DetectHolds, StoreHolds, FinishHolds DEF HandlerStep
    <3> QED BY <3>1 DEF IInv, HandlersFit, HandlerMayDo
  <2>3. ASSUME NEW q \in Requests, Expire(q) \/ Publish(q)
        PROVE  Stays
    BY <2>3 DEF Expire, Publish
  <2>4. ASSUME NEW p \in Processes, NEW q \in Requests, TaskStep(p, q)
        PROVE  Stays
    <3>1. CASE Take(p, q) \/ TakeLate(p, q)
      BY <3>1 DEF Take, TakeLate
    <3>2. ASSUME NEW t, ConsumerMayDo(p, t)
          PROVE  Stays
      BY <3>2 DEF ConsumerMayDo
    <3> QED BY <2>4, <3>1, <3>2, TaskStepMayDo
  <2>5. ASSUME NEW p \in Processes,
               LoseConnection(p) \/ ChannelClosed(p) \/ Reconnect(p) \/ Restart(p)
        PROVE  Stays
    BY <2>5 DEF LoseConnection, ChannelClosed, Reconnect, Restart
  <2> QED BY <2>1, <2>2, <2>3, <2>4, <2>5 DEF Next
<1> QED BY <1>1, Invariance, PTL DEF Spec, ProcessedStays

=============================================================================
