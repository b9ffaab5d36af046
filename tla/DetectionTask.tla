---------------------------- MODULE DetectionTask ----------------------------
(***************************************************************************)
(* The older detection path: the HTTP handler that detects at once, as a    *)
(* stream or "async" (handlers/detection.go), the RabbitMQ queue, the       *)
(* consumer goroutine that every API process runs on it (App.Run,           *)
(* queue/rabbitmq.go), and the handler of a task (HandleDetectionTask).     *)
(*                                                                          *)
(* The HTTP handler never gets a task into the queue: what it publishes is  *)
(* not a *Task and is refused, so its row stays pending.  Tasks come from   *)
(* other programs that write to the queue, for such a row or for a row that *)
(* does not exist.  Every write to the database and every call of the       *)
(* provider may fail; a message that is no task is dropped unseen, and a    *)
(* row that cannot be created leaves nothing behind.                        *)
(***************************************************************************)
EXTENDS Naturals, FiniteSets

CONSTANTS
  Processes,   \* API processes
  Requests,    \* request ids
  Strays,      \* those that only other programs use: no row has them
  Home,        \* the process that serves the HTTP call of a request
  MaxResults,  \* bound of the model: results of a request told apart
  NoTask       \* "no task in hand"

\* A delivery: the request, where its handler stands, the row's processed as it was
\* read, the result it stored, and whether the delivery is still this consumer's.
Tasks == [req : Requests, at : {"find", "begin", "detect", "store", "finish", "ack"},
          processed : BOOLEAN, result : 0..MaxResults, mine : BOOLEAN]

ASSUME TaskAssumption ==
  /\ Strays \subseteq Requests /\ MaxResults \in Nat \ {0} /\ NoTask \notin Tasks
  /\ Home \in [Requests -> Processes]

VARIABLES
  row,        \* detection_requests: status and processed
  results,    \* detection_results: how many there are of each request
  cached,     \* Redis: which of them is cached, 0 for none
  http,       \* the HTTP handler of each request: its mode and where it stands
  published,  \* requests a task was published for
  queue,      \* tasks that no consumer works on
  task,       \* the delivery each consumer works on
  consumer,   \* the consumer goroutine of each process
  late,       \* deliveries still buffered for it when its channel closed
  connected,  \* the connection of each process
  cut         \* history: requests worked on by a handler whose delivery was taken back

vars == <<row, results, cached, http, published, queue, task, consumer, late, connected, cut>>

Statuses == {"absent", "pending", "processing", "completed", "failed"}

TypeOK ==
  /\ row \in [Requests -> [status : Statuses, processed : BOOLEAN]]
  /\ results \in [Requests -> 0..MaxResults]
  /\ cached \in [Requests -> 0..MaxResults]
  /\ http \in [Requests -> [mode : {"none", "sync", "stream", "async"},
                            at : {"none", "begin", "detect", "store", "finish", "hung", "over"}]]
  /\ published \subseteq Requests
  /\ queue \subseteq published
  /\ task \in [Processes -> Tasks \cup {NoTask}]
  /\ consumer \in [Processes -> {"running", "draining", "gone"}]
  /\ late \in [Processes -> SUBSET Requests]
  /\ connected \in [Processes -> BOOLEAN]
  /\ cut \subseteq Requests

Init ==
  /\ row = [r \in Requests |-> [status |-> "absent", processed |-> FALSE]]
  /\ results = [r \in Requests |-> 0]
  /\ cached = [r \in Requests |-> 0]
  /\ http = [r \in Requests |-> [mode |-> "none", at |-> "none"]]
  /\ published = {} /\ queue = {} /\ cut = {}
  /\ task = [p \in Processes |-> NoTask]
  /\ consumer = [p \in Processes |-> "running"]
  /\ late = [p \in Processes |-> {}]
  /\ connected = [p \in Processes |-> TRUE]

\* Count a result of r; above the bound they are not told apart.
OneMore(r) == IF results[r] < MaxResults THEN results[r] + 1 ELSE results[r]

\* The result of r stored last is cached, or Redis fails: nobody looks at the error.
Cache(r, last) == cached' \in {cached, [cached EXCEPT ![r] = last]}

-----------------------------------------------------------------------------
(***************************************************************************)
(* The HTTP handler of request r.  Its row is its own: nobody else knows    *)
(* the id, and it saves the copy it created.                                *)
(***************************************************************************)

queueVars == <<published, queue, task, consumer, late, connected, cut>>

At(r, stage) == http[r].at = stage
Streams(r) == http[r].mode = "stream"
Go(r, stage) == http' = [http EXCEPT ![r].at = stage]
Save(r, status) ==
  row' = [row EXCEPT ![r] = [status |-> status, processed |-> status = "completed"]]

\* Detect stores a pending row for a new id.
Create(r, mode) ==
  /\ At(r, "none") /\ r \notin Strays
  /\ Save(r, "pending")
  /\ http' = [http EXCEPT ![r] = [mode |-> mode, at |-> "begin"]]
  /\ UNCHANGED <<results, cached, queueVars>>

\* PublishDetectionRequest refuses what is not a *Task: an error is answered.
AsyncRefused(r) ==
  /\ At(r, "begin") /\ http[r].mode = "async"
  /\ Go(r, "over")
  /\ UNCHANGED <<row, results, cached, queueVars>>

\* The row becomes "processing".  A stream goes on if that fails.  The cache,
\* asked first for a result, knows nothing of a new id.
Begin(r) ==
  /\ At(r, "begin") /\ http[r].mode \in {"sync", "stream"}
  /\ \/ Save(r, "processing") /\ Go(r, "detect")
     \/ UNCHANGED row /\ Go(r, IF Streams(r) THEN "detect" ELSE "over")
  /\ UNCHANGED <<results, cached, queueVars>>

\* Mutant of Detected: a stream whose provider fails forgets its handler too.
DetectedSilently(r, ok) ==
  IF ok THEN "store" ELSE IF Streams(r) THEN "hung" ELSE "over"

\* Where the handler goes from the provider.
Detected(r, ok) == IF ok THEN "store" ELSE "over"

\* The detection service answers, or refuses the request, or its provider fails or
\* answers what cannot be parsed.
Detections == BOOLEAN

\* After an error the row is to become "failed".
Detect(r) ==
  /\ At(r, "detect")
  /\ \E ok \in Detections :
       /\ Go(r, Detected(r, ok))
       /\ UNCHANGED row \/ (~ok /\ Save(r, "failed"))
  /\ UNCHANGED <<results, cached, queueVars>>

\* A write failed.  The goroutine of a stream returns without a word to its
\* handler, which waits on done.
Refuse(r) == Go(r, IF Streams(r) THEN "hung" ELSE "over")

\* The result is stored; a stream caches it at once.
Store(r) ==
  /\ At(r, "store")
  /\ \/ /\ results' = [results EXCEPT ![r] = OneMore(r)]
        /\ Go(r, "finish")
        /\ IF Streams(r) THEN Cache(r, OneMore(r)) ELSE UNCHANGED cached
     \/ Refuse(r) /\ UNCHANGED <<results, cached>>
  /\ UNCHANGED <<row, queueVars>>

\* The row becomes "completed"; what is not a stream caches the result now.
Finish(r) ==
  /\ At(r, "finish")
  /\ \/ /\ Save(r, "completed") /\ Go(r, "over")
        /\ IF Streams(r) THEN UNCHANGED cached ELSE Cache(r, results[r])
     \/ Refuse(r) /\ UNCHANGED <<row, cached>>
  /\ UNCHANGED <<results, queueVars>>

HandlerStep(r) == AsyncRefused(r) \/ Begin(r) \/ Detect(r) \/ Store(r) \/ Finish(r)

\* What a reader of r is shown: the cached result, or the first one in the table;
\* 0 when there is none.
GetResult(r) == IF cached[r] # 0 THEN cached[r] ELSE IF results[r] > 0 THEN 1 ELSE 0

\* The cached result of r outlives its time.
Expire(r) ==
  /\ cached[r] # 0
  /\ cached' = [cached EXCEPT ![r] = 0]
  /\ UNCHANGED <<row, results, http, queueVars>>

-----------------------------------------------------------------------------
(***************************************************************************)
(* The queue and its consumers, one of each process p.                      *)
(***************************************************************************)

\* Another program publishes a task for a row left pending, or a stray one.
Publish(r) ==
  /\ r \notin published
  /\ r \in Strays \/ (At(r, "over") /\ http[r].mode = "async")
  /\ published' = published \cup {r}
  /\ queue' = queue \cup {r}
  /\ UNCHANGED <<row, results, cached, http, task, consumer, late, connected, cut>>

Hand(p, r, mine) ==
  task' = [task EXCEPT ![p] =
             [req |-> r, at |-> "find", processed |-> FALSE, result |-> 0, mine |-> mine]]

\* A consumer takes a delivery.  Which consumer the broker had sent it to is of no
\* consequence before.
Take(p, r) ==
  /\ task[p] = NoTask /\ consumer[p] = "running" /\ r \in queue
  /\ queue' = queue \ {r}
  /\ Hand(p, r, TRUE)
  /\ UNCHANGED <<row, results, cached, http, published, consumer, late, connected, cut>>

\* After its channel closed it may still find some that were buffered; the broker
\* has taken those back.
TakeLate(p, r) ==
  /\ task[p] = NoTask /\ consumer[p] = "draining" /\ r \in late[p]
  /\ late' = [late EXCEPT ![p] = @ \ {r}]
  /\ Hand(p, r, FALSE)
  /\ cut' = cut \cup {r}
  /\ UNCHANGED <<row, results, cached, http, published, queue, consumer, connected>>

Working(p, r, stage) == task[p] # NoTask /\ task[p].req = r /\ task[p].at = stage

\* The handler of p gets on to its next stage.
Advance(p, stage) == task' = [task EXCEPT ![p].at = stage]

\* Mutant of Returned: a task that failed is acknowledged like any other.
ReturnedNever(p) == queue

\* The queue after the handler failed: the task is put back, unless its channel
\* is closed and the broker has it already.
Returned(p) == IF task[p].mine THEN queue \cup {task[p].req} ELSE queue

Reject(p) == queue' = Returned(p) /\ task' = [task EXCEPT ![p] = NoTask]

\* Mutant of Copy: the row is saved as if it were new.
CopyAsNew(p, status) == [status |-> status, processed |-> status = "completed"]

\* The row as the task handler saves it: the copy it read with a new status.
Copy(p, status) == [status |-> status, processed |-> task[p].processed \/ status = "completed"]

\* The row is found.
Find(p, r) ==
  /\ Working(p, r, "find") /\ row[r].status # "absent"
  /\ task' = [task EXCEPT ![p].at = "begin", ![p].processed = row[r].processed]
  /\ UNCHANGED <<row, results, cached, http, published, queue, consumer, late, connected, cut>>

\* It becomes "processing", an error of which is ignored.
TaskBegin(p, r) ==
  /\ Working(p, r, "begin")
  /\ row' \in {row, [row EXCEPT ![r] = Copy(p, "processing")]}
  /\ Advance(p, "detect")
  /\ UNCHANGED <<results, cached, http, published, queue, consumer, late, connected, cut>>

\* The provider answers.
TaskDetect(p, r) ==
  /\ Working(p, r, "detect")
  /\ Advance(p, "store")
  /\ UNCHANGED <<row, results, cached, http, published, queue, consumer, late, connected, cut>>

\* A result is stored, whether or not there is one.
TaskStore(p, r) ==
  /\ Working(p, r, "store")
  /\ results' = [results EXCEPT ![r] = OneMore(r)]
  /\ task' = [task EXCEPT ![p].at = "finish", ![p].result = OneMore(r)]
  /\ UNCHANGED <<row, cached, http, published, queue, consumer, late, connected, cut>>

\* The row is completed and the result cached.
TaskFinish(p, r) ==
  /\ Working(p, r, "finish")
  /\ row' = [row EXCEPT ![r] = Copy(p, "completed")]
  /\ Cache(r, task[p].result)
  /\ Advance(p, "ack")
  /\ UNCHANGED <<results, http, published, queue, consumer, late, connected, cut>>

\* The task is acknowledged, in vain if its channel is closed.
Acknowledge(p, r) ==
  /\ Working(p, r, "ack")
  /\ task' = [task EXCEPT ![p] = NoTask]
  /\ UNCHANGED <<row, results, cached, http, published, queue, consumer, late, connected, cut>>

\* The database fails the task, or the row does not exist.
TaskFails(p, r) ==
  /\ \E stage \in {"find", "store", "finish"} : Working(p, r, stage)
  /\ Reject(p)
  /\ UNCHANGED <<row, results, cached, http, published, consumer, late, connected, cut>>

\* The provider fails the task: the row is to become "failed".
DetectionFails(p, r) ==
  /\ Working(p, r, "detect")
  /\ row' \in {row, [row EXCEPT ![r] = Copy(p, "failed")]}
  /\ Reject(p)
  /\ UNCHANGED <<results, cached, http, published, consumer, late, connected, cut>>

TaskStep(p, r) ==
  Take(p, r) \/ TakeLate(p, r) \/ Find(p, r) \/ TaskBegin(p, r) \/ TaskDetect(p, r)
    \/ TaskStore(p, r) \/ TaskFinish(p, r) \/ Acknowledge(p, r)
    \/ TaskFails(p, r) \/ DetectionFails(p, r)

-----------------------------------------------------------------------------
(***************************************************************************)
(* The connections and the processes.                                       *)
(***************************************************************************)

\* What the broker takes back when the channel of p's consumer closes.
Unacknowledged(p) == IF task[p] # NoTask /\ task[p].mine THEN {task[p].req} ELSE {}

\* p loses its connection.  The handler of its task works on, while another process
\* may be given the task; what was buffered for p it may still find.
LoseConnection(p) ==
  /\ connected[p]
  /\ connected' = [connected EXCEPT ![p] = FALSE]
  /\ queue' = queue \cup Unacknowledged(p)
  /\ task' = IF task[p] = NoTask THEN task ELSE [task EXCEPT ![p].mine = FALSE]
  /\ cut' = IF task[p] = NoTask \/ task[p].at = "ack" THEN cut ELSE cut \cup {task[p].req}
  /\ IF consumer[p] = "running"
     THEN /\ consumer' = [consumer EXCEPT ![p] = "draining"]
          /\ \E buffered \in SUBSET queue : late' = [late EXCEPT ![p] = buffered]
     ELSE UNCHANGED <<consumer, late>>
  /\ UNCHANGED <<row, results, cached, http, published>>

\* The consumer finds its channel closed, and returns.
ChannelClosed(p) ==
  /\ consumer[p] = "draining" /\ task[p] = NoTask
  /\ consumer' = [consumer EXCEPT ![p] = "gone"]
  /\ late' = [late EXCEPT ![p] = {}]
  /\ UNCHANGED <<row, results, cached, http, published, queue, task, connected, cut>>

\* monitorConnection finds the connection closed and opens another.
Reconnect(p) ==
  /\ ~connected[p]
  /\ connected' = [connected EXCEPT ![p] = TRUE]
  /\ UNCHANGED <<row, results, cached, http, published, queue, task, consumer, late, cut>>

\* Process p stops, with all it was doing, and is started again.
Restart(p) ==
  /\ queue' = queue \cup Unacknowledged(p)
  /\ task' = [task EXCEPT ![p] = NoTask]
  /\ consumer' = [consumer EXCEPT ![p] = "running"]
  /\ late' = [late EXCEPT ![p] = {}]
  /\ connected' = [connected EXCEPT ![p] = TRUE]
  /\ http' = [r \in Requests |->
                IF At(r, "none") \/ Home[r] # p THEN http[r] ELSE [http[r] EXCEPT !.at = "over"]]
  /\ UNCHANGED <<row, results, cached, published, cut>>

Next ==
  \/ \E r \in Requests : \E mode \in {"sync", "stream", "async"} : Create(r, mode)
  \/ \E r \in Requests : HandlerStep(r) \/ Expire(r) \/ Publish(r)
  \/ \E p \in Processes : \E r \in Requests : TaskStep(p, r)
  \/ \E p \in Processes : LoseConnection(p) \/ ChannelClosed(p) \/ Reconnect(p) \/ Restart(p)

Spec == Init /\ [][Next]_vars

\* Handlers, consumers and monitors run; the database and the provider do not fail
\* for ever, the task of a row is not one the service refuses, and it is not passed
\* over for ever (the broker puts a task back near its old place).  Nobody promises
\* that a process is started again.
Fairness ==
  /\ \A p \in Processes : WF_vars(ChannelClosed(p)) /\ WF_vars(Reconnect(p))
  /\ \A r \in Requests : \A p \in Processes : WF_vars(TaskStep(p, r))
  /\ \A r \in Requests \ Strays :
       /\ WF_vars(HandlerStep(r))
       /\ SF_vars(\E p \in Processes : Take(p, r))
       /\ SF_vars(\E p \in Processes : Find(p, r))
       /\ SF_vars(\E p \in Processes : TaskBegin(p, r))
       /\ SF_vars(\E p \in Processes : TaskDetect(p, r))
       /\ SF_vars(\E p \in Processes : TaskStore(p, r))
       /\ SF_vars(\E p \in Processes : TaskFinish(p, r))

FairSpec == Spec /\ Fairness

-----------------------------------------------------------------------------
(***************************************************************************)
(* Properties.                                                              *)
(***************************************************************************)

\* A task is with the broker, or a consumer has it and will be asked for it again.
Held(r) == r \in queue \/ \E p \in Processes : r \in Unacknowledged(p)

\* A task is held until a result of it is stored, whatever fails, and until its row is
\* processed, unless a handler that was cut off has worked on it: that one saves
\* the copy it read over what another process completed (msg.Nack, msg.Ack).
TasksAreKept ==
  \A r \in published :
    Held(r) \/ (results[r] > 0 /\ (row[r].processed \/ r \in cut))

\* A row that is processed has a result for its readers, and what they are shown is
\* in the table.
ResultsAreStored ==
  \A r \in Requests :
    /\ row[r].processed \/ row[r].status = "completed" => GetResult(r) # 0
    /\ GetResult(r) <= results[r]

\* No task is lost, and none ends without a stored result.
Accounted == TypeOK /\ TasksAreKept /\ ResultsAreStored

\* Redelivery of a task that was completed takes the row through processing, or
\* failed, again.  Only where a handler was cut off can that, or what this one
\* saves late, make the row unprocessed.
ProcessedStays ==
  [][\A r \in Requests : row[r].processed /\ r \notin cut => row'[r].processed]_vars

\* A stream that hangs for ever has lost a write, and its row looks as if it were
\* still at work.
LostWrite(r) == At(r, "hung") /\ row[r].status \in {"pending", "processing"}

\* What the program owes: the end of a stream, and the result of a task whose row
\* exists.
Owed(r) ==
  \/ Streams(r) /\ At(r, "begin")
  \/ r \in published

Settled(r) ==
  IF Streams(r) THEN At(r, "over") \/ LostWrite(r)
  ELSE \/ row[r].processed
       \/ r \in cut /\ results[r] > 0
       \/ \A p \in Processes : consumer[p] # "running"

\* A stream ends, unless it waits for a word its goroutine cannot send any more; a
\* task is worked off, as long as a consumer keeps its channel, however often it
\* failed and whatever tasks can never succeed beside it.
Settles == \A r \in Requests \ Strays : Owed(r) ~> Settled(r)

\* Once the connections are back for good, tasks are taken from the queue again.
\* (The comment of monitorConnection: it "reconnects if needed".)
TasksFlowAgain ==
  <>[](\A p \in Processes : connected[p]) =>
    \A r \in Requests : (r \in queue) ~> (r \notin queue)
=============================================================================
