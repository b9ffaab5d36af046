--------------------------- MODULE WebhookDelivery ---------------------------
(***************************************************************************)
(* The life of final-decision webhook deliveries: the synchronous first     *)
(* attempt (Service.dispatchFinalDecision), the background retry workers    *)
(* of the API processes (app.startWebhookRetryWorker) and the manual        *)
(* retries of administrators (Service.RetryWebhookDelivery), all of them    *)
(* sharing the rows of webhook_deliveries through the repository.           *)
(*                                                                          *)
(* Nothing but time separates the owner of a row from a process that lost   *)
(* it: a claim is a lease on last_attempt_at, and the write-back checks     *)
(* neither the status nor the attempt it belongs to.  What keeps a late     *)
(* process from writing is that its status context, created right after     *)
(* the claim, ends long before the lease does.  So time is explicit: age    *)
(* is the time since a row's last_attempt_at, timer the time a process has  *)
(* spent in its current phase, and Tick lets one unit of time pass.  Both   *)
(* saturate just above the largest value a guard can tell apart.            *)
(***************************************************************************)
EXTENDS Integers, FiniteSets

CONSTANTS
  Deliveries,     \* delivery records, by primary key
  Workers,        \* background retry workers, one in each API process
  Operators,      \* administrators' retry requests being served
  NoDelivery,     \* "this process works on no delivery"
  MaxAttempts,    \* moderation.webhook_retry.max_attempts
  BatchSize,      \* moderation.webhook_retry.batch_size
  Lease,          \* webhookRetryLease, in units of time
  StatusTimeout,  \* webhookRetryStatusUpdateTimeout
  ClaimDelay,     \* assumed bound on reading the clock, claiming and reading back
  AttemptCap      \* bound of the model: no manual retry starts above it

ASSUME ConfigAssumption ==
  /\ MaxAttempts \in Nat /\ MaxAttempts > 1
  /\ BatchSize \in Nat \ {0}
  /\ AttemptCap \in Nat

ASSUME ProcessAssumption ==
  /\ Workers \cap Operators = {}
  /\ NoDelivery \notin Deliveries

\* The timing the code relies on without checking it: 5 s of status context and
\* the time a claim may take fit into the 2 minutes of the lease.
ASSUME TimingAssumption ==
  /\ Lease \in Nat /\ StatusTimeout \in Nat /\ ClaimDelay \in Nat
  /\ ClaimDelay + StatusTimeout <= Lease

Procs == Workers \cup Operators

VARIABLES
  first,      \* the first attempt of a delivery: not made, posted, or over
  status,     \* the row: "none" until it is inserted
  attempts,   \* the row: attempt_count
  age,        \* the row: time since last_attempt_at
  sent,       \* history: POSTs made for the delivery
  batch,      \* what a worker's current batch still holds
  stage,      \* where a process is in retryWebhookDelivery
  job,        \* the delivery it works on
  timer,      \* time since attemptedAt was read; from "lookup" on, since statusCtx began
  mine,       \* history: the attempt number the process claimed
  outcome     \* what it is about to record

rowVars   == <<status, attempts, age>>
localVars == <<stage, job, timer, mine, outcome>>
vars == <<first, rowVars, sent, batch, localVars>>

Outcomes == {"succeeded", "failed"}
Stages   == {"idle", "claiming", "claimed", "lookup", "reporting"}

AgeCap == Lease + ClaimDelay + 1

TypeOK ==
  /\ first \in [Deliveries -> {"none", "posted", "over"}]
  /\ status \in [Deliveries -> Outcomes \cup {"none", "retrying"}]
  /\ attempts \in [Deliveries -> Nat]
  /\ age \in [Deliveries -> Nat]
  /\ sent \in [Deliveries -> Nat]
  /\ batch \in [Workers -> SUBSET Deliveries]
  /\ stage \in [Procs -> Stages]
  /\ job \in [Procs -> Deliveries \cup {NoDelivery}]
  /\ timer \in [Procs -> Nat]
  /\ mine \in [Procs -> Nat]
  /\ outcome \in [Procs -> Outcomes \cup {"none"}]
  /\ \A p \in Procs : stage[p] # "idle" => job[p] \in Deliveries
  /\ \A p \in Procs : stage[p] = "reporting" => outcome[p] \in Outcomes

Init ==
  /\ first = [d \in Deliveries |-> "none"]
  /\ status = [d \in Deliveries |-> "none"]
  /\ attempts = [d \in Deliveries |-> 0]
  /\ age = [d \in Deliveries |-> 0]
  /\ sent = [d \in Deliveries |-> 0]
  /\ batch = [w \in Workers |-> {}]
  /\ stage = [p \in Procs |-> "idle"]
  /\ job = [p \in Procs |-> NoDelivery]
  /\ timer = [p \in Procs |-> 0]
  /\ mine = [p \in Procs |-> 0]
  /\ outcome = [p \in Procs |-> "none"]

-----------------------------------------------------------------------------
(***************************************************************************)
(* The first attempt, made by the request that produced the decision.       *)
(***************************************************************************)

\* dispatchFinalDecision up to the answer of the endpoint.
PostFirst(d) ==
  /\ first[d] = "none"
  /\ first' = [first EXCEPT ![d] = "posted"]
  /\ sent' = [sent EXCEPT ![d] = @ + 1]
  /\ UNCHANGED <<rowVars, batch, localVars>>

\* SaveWebhookDelivery inserts the row with attempt_count 1 and the outcome.
RecordFirst(d, result) ==
  /\ first[d] = "posted"
  /\ first' = [first EXCEPT ![d] = "over"]
  /\ status' = [status EXCEPT ![d] = result]
  /\ attempts' = [attempts EXCEPT ![d] = 1]
  /\ age' = [age EXCEPT ![d] = 0]
  /\ UNCHANGED <<sent, batch, localVars>>

\* The insert fails (it is only logged) or the process dies before it: there is
\* no row, and nothing will ever retry this callback.
LoseFirst(d) ==
  /\ first[d] = "posted"
  /\ first' = [first EXCEPT ![d] = "over"]
  /\ UNCHANGED <<rowVars, sent, batch, localVars>>

-----------------------------------------------------------------------------
(***************************************************************************)
(* One retry, manual or automatic: retryWebhookDelivery.                    *)
(***************************************************************************)

\* last_attempt_at lies more than a lease before a clock reading that is
\* `since` old.  It is a strict comparison, as in both queries.
Stale(d, since) == age[d] > Lease + since

\* Mutant of Retryable: rows left "retrying" by a dead process are not listed.
RetryableFailedOnly(d) == attempts[d] < MaxAttempts /\ status[d] = "failed"

\* The condition of ListRetryableWebhookDeliveries.
Retryable(d) ==
  /\ attempts[d] < MaxAttempts
  /\ status[d] = "failed" \/ (status[d] = "retrying" /\ Stale(d, 0))

\* Mutants of Claimable: without the lease, the attempt limit, or the status.
ClaimableWithoutLease(p, d) ==
  status[d] \in {"failed", "retrying"} /\ (p \in Workers => attempts[d] < MaxAttempts)

ClaimableWithoutLimit(p, d) ==
  status[d] = "failed" \/ (status[d] = "retrying" /\ Stale(d, timer[p]))

ClaimableOnceListed(p, d) ==
  /\ status[d] # "retrying" \/ Stale(d, timer[p])
  /\ p \in Workers => attempts[d] < MaxAttempts

\* The condition of ClaimFailedWebhookDelivery; a manual retry passes
\* maxAttempts = 0, so the attempt limit binds the workers alone.
Claimable(p, d) ==
  /\ status[d] = "failed" \/ (status[d] = "retrying" /\ Stale(d, timer[p]))
  /\ p \in Workers => attempts[d] < MaxAttempts

\* Mutant of StatusContextLive: context.WithoutCancel alone, with no timeout.
StatusContextUnbounded(p) == timer[p] >= 0

\* The context under which a retry writes its outcome has not expired.
StatusContextLive(p) == timer[p] <= StatusTimeout

\* Mutant of CountedAttempts: the claim forgets to count.
UncountedAttempts(d) == attempts[d]

\* The count a claim leaves in the row.
CountedAttempts(d) == attempts[d] + 1

\* Process p has returned from retryWebhookDelivery.
Release(p) ==
  /\ stage' = [stage EXCEPT ![p] = "idle"]
  /\ job' = [job EXCEPT ![p] = NoDelivery]
  /\ timer' = [timer EXCEPT ![p] = 0]
  /\ mine' = [mine EXCEPT ![p] = 0]
  /\ outcome' = [outcome EXCEPT ![p] = "none"]

\* Process p reads the clock for attemptedAt and issues the claim of d.
Begin(p, d) ==
  /\ stage[p] = "idle"
  /\ stage' = [stage EXCEPT ![p] = "claiming"]
  /\ job' = [job EXCEPT ![p] = d]
  /\ timer' = [timer EXCEPT ![p] = 0]
  /\ UNCHANGED <<first, rowVars, sent, mine, outcome>>

\* A tick of the worker: list the oldest retryable rows, up to the batch size.
List(w) ==
  /\ stage[w] = "idle" /\ batch[w] = {}
  /\ \E S \in SUBSET {d \in Deliveries : Retryable(d)} :
       /\ S # {}
       /\ Cardinality(S) <= BatchSize
       /\ \A d \in Deliveries \ S :
            Retryable(d) => Cardinality(S) = BatchSize /\ \A e \in S : age[e] >= age[d]
       /\ batch' = [batch EXCEPT ![w] = S]
  /\ UNCHANGED <<first, rowVars, sent, localVars>>

\* The worker's loop turns to the next listed row, however old the list is.
BeginAutomatic(w) ==
  \E d \in batch[w] :
    /\ Begin(w, d)
    /\ batch' = [batch EXCEPT ![w] = @ \ {d}]

\* An administrator asks for a retry of a recorded delivery.
BeginManual(o) ==
  \E d \in Deliveries :
    /\ status[d] # "none" /\ attempts[d] < AttemptCap
    /\ Begin(o, d)
    /\ UNCHANGED batch

\* The conditional UPDATE of ClaimFailedWebhookDelivery changes one row.
\* last_attempt_at becomes attemptedAt, which is timer[p] old by now.
Claim(p) ==
  LET d == job[p] IN
  /\ stage[p] = "claiming" /\ Claimable(p, d)
  /\ status' = [status EXCEPT ![d] = "retrying"]
  /\ attempts' = [attempts EXCEPT ![d] = CountedAttempts(d)]
  /\ age' = [age EXCEPT ![d] = timer[p]]
  /\ stage' = [stage EXCEPT ![p] = "claimed"]
  /\ mine' = [mine EXCEPT ![p] = CountedAttempts(d)]
  /\ UNCHANGED <<first, sent, batch, job, timer, outcome>>

\* It changes none: the caller gets a conflict, and a worker skips the row.
ClaimConflict(p) ==
  /\ stage[p] = "claiming" /\ ~Claimable(p, job[p])
  /\ Release(p)
  /\ UNCHANGED <<first, rowVars, sent, batch>>

\* The row is read back, and the status context starts to run.
ReadBack(p) ==
  /\ stage[p] = "claimed"
  /\ stage' = [stage EXCEPT ![p] = "lookup"]
  /\ timer' = [timer EXCEPT ![p] = 0]
  /\ UNCHANGED <<first, rowVars, sent, batch, job, mine, outcome>>

\* Mutant of Post: the endpoint's answer is dropped.
PostIgnoringAnswer(p, result) ==
  /\ stage[p] = "lookup"
  /\ stage' = [stage EXCEPT ![p] = "reporting"]
  /\ sent' = [sent EXCEPT ![job[p]] = @ + 1]
  /\ UNCHANGED <<first, rowVars, batch, job, timer, mine, outcome>>

\* The client has a webhook: POST, and take the endpoint's answer.  Neither the
\* lookup nor the POST runs under the status context, so this may come late.
Post(p, result) ==
  /\ stage[p] = "lookup"
  /\ stage' = [stage EXCEPT ![p] = "reporting"]
  /\ outcome' = [outcome EXCEPT ![p] = result]
  /\ sent' = [sent EXCEPT ![job[p]] = @ + 1]
  /\ UNCHANGED <<first, rowVars, batch, job, timer, mine>>

\* The lookup fails, the client is gone or inactive, or the stored payload does
\* not decode: the attempt is to be recorded as failed without a POST.
LookupFails(p) ==
  /\ stage[p] = "lookup"
  /\ stage' = [stage EXCEPT ![p] = "reporting"]
  /\ outcome' = [outcome EXCEPT ![p] = "failed"]
  /\ UNCHANGED <<first, rowVars, sent, batch, job, timer, mine>>

\* UpdateWebhookDeliveryAttempt: the row is found by its id alone.
Report(p) ==
  /\ stage[p] = "reporting" /\ StatusContextLive(p)
  /\ status' = [status EXCEPT ![job[p]] = outcome[p]]
  /\ age' = [age EXCEPT ![job[p]] = 0]
  /\ Release(p)
  /\ UNCHANGED <<first, attempts, sent, batch>>

\* A statement of the claim, the read-back or the write-back fails, the last one
\* also because the status context has expired.  The row stays as it is.
Abandon(p) ==
  /\ stage[p] \in {"claiming", "claimed", "reporting"}
  /\ Release(p)
  /\ UNCHANGED <<first, rowVars, sent, batch>>

\* The process dies, or shuts down without waiting for its worker.
Crash(p) ==
  /\ \/ stage[p] # "idle"
     \/ p \in Workers /\ batch[p] # {}
  /\ Release(p)
  /\ batch' = [w \in Workers |-> IF w = p THEN {} ELSE batch[w]]
  /\ UNCHANGED <<first, rowVars, sent>>

\* A unit of time passes.  By assumption it never finds a process that has been
\* between reading attemptedAt and creating its status context for ClaimDelay.
\* Only rows a retry may still want grow older.
Tick ==
  /\ \A p \in Procs : stage[p] \in {"claiming", "claimed"} => timer[p] < ClaimDelay
  /\ age' = [d \in Deliveries |->
               IF status[d] \in {"failed", "retrying"} /\ age[d] < AgeCap
               THEN age[d] + 1 ELSE age[d]]
  /\ timer' = [p \in Procs |->
               IF \/ stage[p] \in {"claiming", "claimed"}
                  \/ stage[p] \in {"lookup", "reporting"} /\ StatusContextLive(p)
               THEN timer[p] + 1 ELSE timer[p]]
  /\ UNCHANGED <<first, status, attempts, sent, batch, stage, job, mine, outcome>>

-----------------------------------------------------------------------------
FirstAttempt(d) ==
  \/ PostFirst(d)
  \/ \E result \in Outcomes : RecordFirst(d, result)
  \/ LoseFirst(d)

\* What a process does by itself once it has begun.
Proceed(p) ==
  \/ Claim(p) \/ ClaimConflict(p)
  \/ ReadBack(p)
  \/ \E result \in Outcomes : Post(p, result)
  \/ LookupFails(p)
  \/ Report(p) \/ Abandon(p)

Next ==
  \/ \E d \in Deliveries : FirstAttempt(d)
  \/ \E w \in Workers : List(w) \/ BeginAutomatic(w)
  \/ \E o \in Operators : BeginManual(o)
  \/ \E p \in Procs : Proceed(p) \/ Crash(p)
  \/ Tick

Spec == Init /\ [][Next]_vars

(***************************************************************************)
(* Fairness.  Time passes; a call in flight returns; a worker's ticker      *)
(* keeps firing.  A worker may crash and its database calls may fail, but   *)
(* not for ever: if it gets to begin a listed row, or to claim one, again   *)
(* and again, it succeeds again and again.  First attempts and operators    *)
(* owe nothing.                                                             *)
(***************************************************************************)
FairSpec ==
  /\ Spec
  /\ WF_vars(Tick)
  /\ \A p \in Procs : WF_vars(Proceed(p))
  /\ \A w \in Workers :
       WF_vars(List(w)) /\ SF_vars(BeginAutomatic(w)) /\ SF_vars(Claim(w))

-----------------------------------------------------------------------------
(***************************************************************************)
(* Properties.                                                              *)
(***************************************************************************)

\* A process that can still write an outcome (it has one, and its status context
\* has not expired) is the holder of the row: no other process has taken the
\* delivery over since, and the outcome belongs to the attempt the row counts.
\* UpdateWebhookDeliveryAttempt itself checks nothing of this.
WriterHoldsRow ==
  \A p \in Procs :
    stage[p] = "reporting" /\ StatusContextLive(p) =>
      status[job[p]] = "retrying" /\ attempts[job[p]] = mine[p]

\* A delivery recorded as succeeded stays so: no manual or automatic retry takes
\* it again and no late outcome of an earlier attempt overwrites it.
SucceededIsFinal ==
  [][\A d \in Deliveries : status[d] = "succeeded" => status'[d] = "succeeded"]_vars

\* The worker's attempt limit holds when it claims, not only when it listed: a
\* manual retry in between may have used up the last attempt.
AutomaticRetriesBounded ==
  [][\A w \in Workers :
       stage[w] = "claiming" /\ stage'[w] = "claimed" =>
         attempts'[job[w]] <= MaxAttempts]_vars

\* attempt_count never understates what the receiver saw: every POST of a
\* recorded delivery was counted before it was made, whichever processes
\* crashed, overlapped or were late.
PostsAreCounted ==
  \A d \in Deliveries : status[d] # "none" => sent[d] <= attempts[d]

\* A recorded delivery does not stay failed or "retrying" with automatic attempts
\* left: crashes and lost write-backs included, it ends succeeded or used up.
Settles ==
  \A d \in Deliveries :
    status[d] # "none" ~> (status[d] = "succeeded" \/ attempts[d] >= MaxAttempts)

\* The rows behave as the contract says.
Contract == INSTANCE DeliveryContract
ImplementsContract == Contract!Spec

\* docs/API.md: only deliveries whose status is "failed" can be retried manually.
ManualRetryOnlyFailed ==
  [][\A o \in Operators :
       stage[o] = "claiming" /\ stage'[o] = "claimed" => status[job[o]] = "failed"]_vars
=============================================================================
