# HateSentry, in TLA+

HateSentry is a moderation gateway written in Go: clients post texts, an AI provider
scores them, a policy turns the answer into *allow*, *block* or *review*, people
rule on the reviews in a web console, and final decisions are announced to the
clients by signed webhooks. This directory holds TLA+ modules that model the parts of
it where concurrency, failure and ordering decide whether it is correct, the TLC runs
that check them on small instances, and proofs, checked by TLAPS, that hold for
instances of any size.

Paths below are relative to the repository. `PROJECT.json` maps every definition of the
modules to the lines it models.

## Running it

    tlc -config DeliveryRaces.cfg MCWebhookDelivery.tla     # a run; the table below lists them
    tlapm WebhookDeliveryProofs.tla                         # a proof

`ManualRetry.cfg`, `ActivationAnswer.cfg` and `TaskFlow.cfg` end with a counterexample; they are
meant to.

## Inventory

Several API processes may run against one MySQL database. Requests are served by
goroutines that share no memory to speak of: what they share are rows, so the
interesting steps are SQL statements and transactions, and the time between them.

| Component (`internal/…`) | State | Operations | What is hard | What makes it correct | Here |
| --- | --- | --- | --- | --- | --- |
| Webhook delivery and retry (`moderation/service.go`, `moderation/repository.go`, `webhooks`, `app`) | `webhook_deliveries`: status, attempt_count, last_attempt_at | first attempt and its record, list, claim, POST, write-back | workers of several processes and administrators race for a row; processes die holding one; only time (a lease) tells a dead owner from a slow one | only the holder writes; a success is final; attempts are counted; nothing stays undelivered with attempts left | `WebhookDelivery`, `Gateway` |
| Moderation check and review (`moderation`) | `moderation_requests`, `moderation_results`, `review_cases` | Check, approve, reject, mark a mistake, first callback | two calls with one external_id; two reviewers on one case; a crash after the commit and before the callback | one request per key, one answer, one ruling, one first callback, which says what the database says | `ModerationFlow`, `Gateway` |
| Registration (`handlers/auth.go`) | `users`, `system_locks`, a mutex per process | Register | the first account becomes an administrator: counting and inserting must be one step for all processes | exactly one bootstrapped administrator, who had the token | `Registration` |
| Review history (`moderation`, `web/src/composables/useReviewHistory.ts`) | `review_cases`; the console's list, cursor, flags | list a page, next page, change the filter, open a detail | pages cut while cases are finalized; answers in another order than the requests | one ordered list without gaps or strangers; flags that come down again | `ReviewHistory` |
| Results and the audit list (`moderation`) | `moderation_requests`, `moderation_results`, `review_cases` | GetResult, lookup by external_id, ListHistory, ListReviewCases, GetReviewCase | each makes three queries outside a transaction, while rows are written | a listed row has its others; no ruling is seen undone | `ResultReads` |
| Operations statistics (`moderation`) | none of its own | GetStats | twelve counts while everything else commits | figures of one moment, that add up | `OperationsStats` |
| Client applications and API keys (`clients`, `auth/api_key.go`) | `client_applications` | create, rotate, (de)activate, set policy and webhook, authenticate | rotation against rotation and against authentication; a client changed between its authentication and the lookup of its policy | an old key is dead after a rotation, an inactive client stays out; every administrator is told the own change; a secret belongs to one URL | `ClientAccess` |
| Rate limiting (`cache/rate_limiter.go`) | a counter with an expiry in Redis | one script: INCR, EXPIRE at 1, PTTL | windows cut to whole seconds; two windows side by side; no Redis, no limit | at most *limit* calls in a window, twice as many in any span of one; Retry-After is long enough | `RateLimiter` |
| Policy and answer parsing (`moderation/policy.go`, `parser.go`) | the policies a process was started with; a version per client | decide, parse, normalize; assign, resolve | assignments outlive the process; a decision is made by the policy resolved before the provider was asked | a stored result is explained by the policies the process lists | `PolicyRules`, `ClientPolicies` |
| Configuration (`config`, `app`) | defaults, file, environment; what a process made of them | load, validate, start the worker | three sources; guards elsewhere refuse without a word what validation let through | what runs is what was meant | `Configuration` |
| Login and tokens (`auth`, `handlers/auth.go`) | none on the server | login, validate, exchange | ends cut to whole seconds, the clock not; the exchange window | an exchange never shortens a session | `Sessions` |
| Web console (`web/src/composables`) | lists, details, forms, flags, one-time secrets | loads and mutations | answers in any order; loads that overlap mutations; secrets shown once | what an answer showed is never undone by an older one | `Console` with `ReviewQueue`, `ReviewHistory`, `DeliveryList`, `ClientList` |
| Legacy detection and queue (`handlers/detection.go`, `queue`, `app`) | `detection_requests`, `detection_results`, a cache, a RabbitMQ queue, a consumer and a connection per process | detect at once or as a stream, take, acknowledge, requeue, reconnect | redelivery, lost writes, handlers that work on after their delivery was taken back, a consumer that does not survive its channel | a task is kept until a result of it is stored and, unless a handler was cut off, its row is processed; what is promised is stored | `DetectionTask` |
| Providers, logging, metrics, health, database start-up, scripts; code nothing calls | — | I/O | — | — | not modelled |

How they interact: `Check` and `finalizeReviewCase` both end in `dispatchFinalDecision`,
which posts the first callback and inserts the row the retry workers live on; the
history and the statistics read the tables those write; the console reads the history.
The modules cut along these tables: `ModerationFlow` ends where the first callback is
posted, `WebhookDelivery` begins there. `Gateway` joins them again, and its actions say which
step of one is which of the other: `PostDecision` and `PostRuling` are `PostFirst`;
`Finish` and `Leave` are `RecordFirst` or `LoseFirst`, `Fail` likewise, if there was something to record.

## Modules

### WebhookDelivery

One delivery is a row and its first attempt. A process is a worker (one per API
process, with the batch it has listed) or an administrator's retry request; both go
through `retryWebhookDelivery`, and `stage` says where they are:

| stage | code (`moderation/service.go`) | left by |
| --- | --- | --- |
| claiming | `attemptedAt := time.Now()`, the claim is on its way | `Claim`, `ClaimConflict`, `Abandon` |
| claimed | the conditional UPDATE changed the row; it is read back | `ReadBack`, `Abandon` |
| lookup | the status context runs; client and payload are looked up, the POST is made | `Post`, `LookupFails` |
| reporting | the outcome is known and is to be written | `Report`, `Abandon` |

`Crash` can happen at every stage. The write-back finds the row by its id alone
(`repository.go:436`): it checks neither the status nor the attempt. That it cannot
overwrite a newer owner's row is a matter of timing: the status context
(`context.WithTimeout`, 5 s) has ended long before the lease (2 min) has. Time is
therefore part of the state: `age` of a row, `timer` of a process, and `Tick`.
`age` saturates above the largest value a guard can distinguish, so the state space
stays finite and no behaviour is lost.

`TimingAssumption` states what the code relies on without checking it: reading the
clock, claiming and reading the row back take at most `ClaimDelay`, and `ClaimDelay +
StatusTimeout <= Lease`. The code bounds the second, not the first: the claim runs under
the caller's context. With 5 s and 120 s a process would have to stall for 115 s, in
exactly that interval, to break it. The clocks of the processes are taken to agree, and
the database answers a committed statement truthfully: a write-back whose answer is lost
though it was committed is the `Report` it was.

The lookup and the POST are *not* under the status context, and the model lets them be
arbitrarily late. A late process may therefore POST after another one has
delivered. It cannot record it.

`DeliveryContract` is what a row promises without processes, leases or time.

### ModerationFlow

A call of `Check` is also the name of the request it may create, since it creates at most
one. `phase` follows `Check` from its first lookup through analysis, save and callback;
`step` follows a reviewer through `SELECT … FOR UPDATE`, the save that commits, and the
callback. The provider and the policy are a choice among the three decisions, made for each
call anew, which is what makes two calls with one `external_id` interesting.
`Fail` and `Leave` are errors and crashes at any point; what is committed stays.

A key stands for the pair of client and `external_id`. The lookup compares the pair and
the unique index its encoding; the model has both compare the same key. Calls without one
(`NoKey`) share nothing.

`settled` and `posts` are history: the ruling the key's request had when a call arrived,
and the callbacks made. `DecisionContract` is the promise to a client about one request.

### Gateway

Both of the above at once, with what neither knows: the `payload` a row keeps for its retries, and
`received`, the history of what callbacks have said about a request.
`AnnounceDecision` and `AnnounceRuling` are `dispatchFinalDecision` up to the POST,
`EndAnnouncement` and `EndRuling` the insert of the row and the return, or a failure of either;
`PostAgain` says what was stored, and does not look at the case again. Everything else is a step
of one part, which the other sits out (`CheckAlone`, `ReviewAlone`, `RetryAlone`).

A delivery has an id of its own in the code and bears the name of its request here. That is no
restriction on calls and reviewers if no request is ever given a second delivery, and that is
`HandoversFit`: whoever is about to post finds nothing posted, whoever is about to record has
posted. Without it the guard of `PostFirst` could hold a second post back and hide it.

`GatewayContract` is what receivers are promised, without calls, reviewers, rows or attempts: one
ruling for a request, every callback says it, and what is confirmed was said and stays
confirmed. It does not promise that there is a callback; the limits below say when there is none.

### Registration

A request queues for its process's mutex, locks the `system_locks` row, reads the users
(this SELECT, coming after the lock, takes the snapshot of the transaction), decides
the role from what it read, hashes the password, inserts, commits. `view` is what it
read. `Refuse` is each way to return with an error, `Crash` the death of a process with
all its requests. An account is inserted past the unique indexes on name and email.
A request that does not carry the token may register only when there is a user already.
`RegistrationContract` is the same with no locks: one atomic step per account.

### ReviewHistory

The server side is `ListReviewCases`: the rows below the cursor in the order
(`reviewed_at`, `id`), descending, one more than the limit to see whether there is a next page.
`Finalize` may commit a `reviewed_at` older than those already listed, because it is read
from a clock before the transaction and clocks differ; `Times` are the values they may
show. The console side is `useReviewHistory`, with requests answered in any order or not
at all. Its two sequence counters only ever serve to ask whether a request is the
latest of its kind, and that is what `live` records: a reload makes all other
requests stale, a selected detail the earlier details. The list is not shown while
it is loading (`ReviewHistoryList.vue`), so a detail is asked for from a list at rest.
`due` is history: what was in the history when the first page shown was read.

### OperationsStats

`GetStats` makes twelve counts (`Queries`, in the order of `statsCountQueries`) in a
read-only transaction at REPEATABLE READ: `Visible` is the state at the first query,
for all of them. `Figures` is the addition `Service.GetStats` makes. Checks, rulings and
deliveries commit between the queries.

### ClientAccess

One client's row, the administrators who change it and the calls that come with its key. An
administrator's request goes asked, (locked,) (updated,) written: `InTransaction` are the
rotation and the webhook change, which lock the row, update it and read it back before they
commit; a status or policy change commits its UPDATE and selects the row afterwards. A call
sees the row up to three times: when it is authenticated (`AuthenticateAPIKey`), when its
policy is looked up, and when its webhook is; a retried callback looks it up again. `Found` is
the lookup by id, which takes active clients only.

`barred` and `signed` are history: the calls that must not get in, and the URL and the secret of
every callback. A rotation does not bar a call that is past authentication: the
code knows it by its client's id from there on. A deactivation does, up to the policy lookup. Keys and
secrets are drawn from finite sets and never twice; one that was never stored may be
drawn again, since nobody has seen it.

### RateLimiter

One key in Redis: its counter, and what is left of its life. Time runs in ticks, several to a
second, because the code mixes units: the expiry is cut to whole seconds (`Expiry`), PTTL is finer,
`Retry-After` is rounded up to whole seconds (`RetryAfter`). A configured window of 2.5 s
is enforced as one of 2 s, and `SpanBounded` is about that one.
`LimitAssumption` is what `config.go:191` enforces: no window below a second. `recent`,
`granted`, `wait` and `renewed` are history; `recent` holds the calls admitted in the last
`Expiry` ticks, each with its age and its number in its window. The two branches of the script, first call
or not, are `Life`; that Redis runs it atomically is assumed.

### ResultReads

A read has found some rows (`ids`) and works off what is left to load (`todo`), one query to a
table at a time; checks are saved and cases finalized between its queries, each in one
transaction. That the request and the result of a listed row are always there rests on
`SaveCheck` writing all three tables at once; that a result comes with a case exactly if it
is to be reviewed rests on the order of the queries. `before` is history: what the
rulings were when the read began.

### PolicyRules, ClientPolicies and Configuration

`PolicyRules` has the pure functions as operators: validity of a policy and of a set of them,
resolution of a version, the decision of a score, what the parser accepts and how it normalizes
labels. Scores are whole numbers from 0 to `Top`, and whatever is outside. The loop of `normalizeLabels` is a function
from the number of turns to the list so far, a turn is `AddLabel`, and `IsNormalized` says without a loop what it is for.

`ClientPolicies` puts them in a process: a check resolves its version (`Begin`), the provider answers,
the policy resolved before decides (`Answer`); versions are assigned, and the process is started again with
other policies, which may make a stored version unknown. `vetted` is history: the clients whose
version this process has validated.

`Configuration` merges defaults, file and environment in the order `config.Load` does, validates, and
starts the retry worker as `startWebhookRetryWorker` does. Each tick of the worker is a `Batch`, which passes the
guards of `normalizeWebhookRetryLimit` and `normalizeWebhookRetryMaxAttempts` or is refused (`Refuses`); `lastBatch` says which.
`UsableButForBatchSize` says what of the accepted settings is usable: an enabled retry has a worker with
a ticker that can be made, a limit has the window of at least a second that `RateLimiter` assumes, thresholds review
some scores and block some. And it says what is not: batches are refused exactly when `batch_size` is above `MaxBatch`
(100 in the code), which the validation accepts.

### Sessions

A token is a record that ends at `exp`; whoever holds it uses it in any number of requests at once. Ends are cut
to whole seconds (`WholeSecond`), `now` is not. An exchange is admitted by the middleware and checked again when it is handled.
`issued` and `of` are history.

### DetectionTask

The older path: the HTTP handler with its modes, the queue, and in every process a consumer goroutine with the handler of
a task (`App.Run` starts both). `task`, `consumer`, `late` and `connected` are functions of the process; `Home` says which process serves
an HTTP call. What the asynchronous mode publishes is not a `*Task` and is refused, so its row stays pending: tasks come from other
programs that write to the queue (`Publish`, once for a request), for such a row or for one that does not exist.

A task handler reads its row (`Find`), saves it as processing (`TaskBegin`), asks the provider (`TaskDetect`), stores the result
(`TaskStore`), completes the row and caches (`TaskFinish`), and the consumer acknowledges (`Acknowledge`). Each of these is a step of its own, because what is saved is the
copy that was read, with its `processed` (`Copy`). `LoseConnection`
gives the broker back what is unacknowledged while the handler works on, with a delivery that is no longer its own
(`mine`): another process may take and complete the task before the first one saves. The consumer goroutine may still find
deliveries that were buffered (`TakeLate`), then it ends (`ChannelClosed`); the monitor reconnects (`Reconnect`). `Restart` of
a process may come at any time. `cut` is history: the requests that a handler whose delivery was taken back has worked on. The code promises
less of these, and the properties say so.

### Console

The workspace mounts one view at a time (`ReviewWorkspace.vue`), so `Console` instantiates the modules of the
four views over common variables and each of its behaviours is that of one of them from its opening on. Each view
has a server side, reduced to versions of rows, and the requests in flight: a request is sent, served and
answered at different times, and may fail before or after it was served.

- `ReviewQueue`: the pending queue, its detail and form. `settled` is history: the cases this console has been
  told are ruled on. A conflict (409) reloads the queue under the form.
- `DeliveryList`: the list of deliveries; each retry loads the list after its answer.
- `ClientList`: the clients. Keys and webhook secrets are drawn as numbers, each is in one answer only, and the console shows
  one credential until it is closed.
- `ReviewHistory`: above.

### Accounts, ClientGate, Process, Reads

Parts that meet in no variable of theirs are joined two by two: `Registration` and `Sessions`, `ClientAccess` and
`RateLimiter`, `Configuration` and `ClientPolicies`, `ResultReads` and `OperationsStats`. A behaviour of such a module is one
of either part, chosen in its first state, while the other rests; so a theorem of a part is one of the whole. The `MC` modules give the
constants of both.

## Runs

| Run | Instance | States | What it shows |
| --- | --- | --- | --- |
| DeliveryRaces | one row, two workers, two administrators, 3 attempts, lease 3, status 1, claim delay 2 | 102,270 | No overlap of four processes, with crashes and lost statements, lets a process write a row it does not hold, undo a success, claim beyond the limit, or POST without counting. The rows implement `DeliveryContract`. |
| DeliverySettles | two rows, one worker with batches of one, one administrator, 3 attempts; `FairSpec` | 227,783 | Every recorded delivery ends succeeded or with its attempts used up, also if workers die between claim and write-back. |
| ManualRetry | one row, one worker, one administrator | — | Counterexample: an administrator's retry is abandoned after its claim, and the next one takes over the stale `retrying` row. See *Divergence*. |
| Gateway | two calls with one `external_id`, two reviewers, one worker, two attempts, lease 1, status 1 | 171,532 | Idempotency: one answer for both calls, a retry after the ruling learns it; two racing reviewers leave one ruling, which stays. From the call to the last retry: one delivery for a request, every callback about it, first or repeated, says what is in force, and a success was one of them and stays. The flow implements `DecisionContract`, the whole `GatewayContract`. |
| Accounts | two processes, four requests, two identities, tokens with one request of each process; or one user, two requests, two tokens, a lifetime of two hours of two seconds of two ticks. `Fairness` of registrations | 141,316 | One administrator, who had a token; registrations are atomic; every one that queues ends. An exchanged token outlasts the old one by an hour, however its end is cut. |
| ClientRaces | two administrators, one call with its callback, three keys, two secrets, two URLs; or two callers, limit 2, a window of 2.5 s in half-second ticks, two refusals in a window | 855,505 | Dead keys and inactive clients stay out whenever the change comes; each administrator is told the own key, URL and secret; no endpoint is sent what another's secret signs. What the headers of the limit say is true; any span of a window admits at most twice the limit; who waits for Retry-After finds a new window. |
| ActivationAnswer | two administrators | — | Counterexample: an activation that answers `inactive`. See *Divergence*. |
| OneView | two rows of each kind and three requests in flight; for the history three cases, two clock values, pages of one case and two requests | 1,039,758 | No answer in whatever order offers the form of a ruled case; the joined pages of the history are one ordered list of its filter, without gaps, and its detail and flags follow it; a retried delivery is never shown older than its answer; a secret that arrived is shown until it is closed; no list undoes what an operation answered. |
| Reads | three requests, of a user with and without a client, one reader, lists of two; or two requests with all their later states | 752,174 | Three queries read like one: no listed row lacks another, no ruling is seen undone. The figures add up whatever commits between the counts, and what is final never shrinks from one report to the next. |
| Detection | two processes, one request of the handler and one stray task; `FairSpec` | 125,941 | No task is lost before a result of it is stored, nor before its row is processed unless a handler was cut off, and no row promises a result that is not there, whatever fails, breaks or is restarted; a processed row stays so under redelivery, unless a handler was cut off; streams end, unless they lost a write, and tasks of existing rows are completed while some consumer lives. |
| TaskFlow | one process, one request | — | Counterexample: after a reconnection nobody consumes. See *Divergence*. |
| Process | settings with values on both sides of their limits, two given at once; or one client and an operator, three versions of which one is too long, six configurations of which some are refused | 410,716 | What `config.Load` accepts gives a worker, a limit of whole seconds and thresholds that review some scores and block some; the worker's batches are refused exactly when `batch_size` is too large for a list. The listed policies explain each stored result, and a version a process has accepted is one it can check with. |

Four of the runs check two parts of the system in one configuration (`Accounts`, `ClientRaces`, `Reads`, `Process`): the
parts have no variable in common, their order is of no consequence, and each behaviour is
one of either. The states are those of both.

The numbers are those of distinct states, under the symmetry the configurations
declare. Symmetry is used in runs that check safety only, over values the model treats
alike: workers, operators, slots, requests, keys and secrets; in `Gateway`, calls that both carry one key.

`Deadlock` is checked where the system always has something to do (time passes, the console
can reload, statistics can be read). In `Accounts` the requests are finitely many and time
is bounded, and the system stops when all have returned.

### Bounds

- Processes. Every property but liveness is violated, if the code is changed, by two actors
  on one row; the runs have one more. `DeliveryRaces` has two of each kind, so that a worker, its
  successor and an administrator meet on one row.
- Attempts. Three: the first, one that can be lost to a crash and leaves the row `retrying` below
  the limit, and one that reaches the limit. With two, a claim would already use the row
  up and nothing would have to pick it up again. Manual
  retries are unlimited in the code; `AttemptCap` stops them above the limit the
  workers obey, so that a row beyond it is reached.
- `Gateway`. Its properties relate at most two calls of one key, or two reviewers of one case. The
  only request the two calls can leave needs one delivery, and one worker is enough to repeat it, once, and after every
  way the first attempt can end. That several processes race for a row is the matter of
  `DeliveryRaces`; what they may do there they may do here, by `GatewayIsBoth`.
- Time. A unit is the status context. The lease is two or three of them instead of
  twenty-four: as small as `TimingAssumption` permits, which makes the races as tight as they can get.
- Batches of one: between any two rows of a list the world can change. `DeliverySettles`
  has two rows, so that a worker has to choose and to come back.
- Pages of one row, three cases: a first page, a next one, and a case that is finalized in
  between, above or below the cursor or with the same `reviewed_at`. Two of the
  three final statuses; the third is treated alike.
- One call of a client suffices: calls do not touch the row, and its callback can be
  retried any number of times, before and after the webhook changes. Three keys: the first, and
  one for each administrator. Two secrets: the old and the new one; a third request draws again
  when one was never stored.
- A window that is no multiple of a second, in half-second ticks: the coarsest in which
  cutting a duration to seconds and rounding it up differ.
- Two rows in the console: the one an answer is about and the one another answer puts in its place. Three requests in
  flight: a mutation, a load before it and a load after it. Writes of a row are counted up to `MaxWrites` or `MaxChanges`, so
  that a row can be seen old, retried and new.
- A lifetime of two hours has an exchange window; a token exchanged at the end of its life and one exchanged as soon as it may be
  differ in what is cut. Two tokens: an old one and the one it is exchanged for.
- Detections: one row that the handler makes, one task without a row, and two processes, since two handlers of a task meet only in its row:
  what a third saves late is like what a second saves. `MaxResults` = 1: whether there is a result. Stored results only become
  more, and what is cached is compared with their number for any bound in `TasksAccounted`.
- Settings: two given at once, over defaults that are accepted: the guards of the code relate a setting to a switch or to one other
  setting. `MaxBatch` = 3, with batches at it and above.
- Two requests suffice for the statistics: a skewed count needs one row that moves
  and one that does not.

### Fairness

*Delivery.* Time passes; a call in flight returns, with a result or an error; a worker's ticker
fires again (`app.startWebhookRetryWorker` loops until shutdown, and a dead
process is restarted by its supervisor). Strong fairness is assumed of a worker's
beginning and claiming a row: it may crash and its statements may fail, but not each
time. First attempts and administrators owe nothing, so `Settles` does not rest
on anybody pressing a button. Without the strong assumptions a worker that dies after
every listing is a counterexample, and a true one.

*Registration.* A request that holds the mutex gets on, or a statement of it fails;
InnoDB ends a wait for a row lock by an error. A wait for Go's mutex has no timeout, but a
waiter that starves for a millisecond is handed the mutex next: strong fairness of
`TakeMutex`.

*Detection.* Handlers, consumers and monitors are goroutines that run. Strong fairness of each stage of a task, whichever process is
at it: the database and the provider fail, but not each time, and RabbitMQ puts a rejected task back near its old place, so that
tasks that never succeed do not keep others waiting. Restarts are not assumed: a task is owed its completion only while some
consumer is there. Nor does anything restore a row that a handler which was cut off has made unprocessed: its task is owed a result.

The other models are about safety and assume nothing.

## Proofs

The theorems hold for every value of the constants that satisfies the assumptions of the
modules. Each rests on an inductive invariant `IInv`: `Init => IInv`, `IInv /\ [Next]_vars => IInv'`.

### WebhookDeliveryProofs

Assumed: `ConfigAssumption`, `ProcessAssumption`, `TimingAssumption`.

`WriterHoldsRow` speaks of a process about to write, and is not inductive: it says nothing
of one that has just claimed. `IInv` follows a process from its claim on: up to the
read-back it holds its row and the lease is no older than its own clock reading
(`FreshClaim`), after it the lease is at most `ClaimDelay` older than its status context, as
long as that lives (`LiveClaim`). If another process claims the row in the meantime, the
lease must be older than `Lease`, which is more than `ClaimDelay + StatusTimeout`
permit (`ClaimableIsFree`). `OwnNumber` adds that attempt numbers identify claimants.
From it:

- `WriterSafety`: `[]WriterHoldsRow`.
- `Refinement`: the rows implement `DeliveryContract`; the write-back is a `Settle` only because
  its process holds the row.
- `SuccessIsFinal`: through the contract, where no step leaves `succeeded`.
- `WorkersStayWithinLimit`: no automatic claim exceeds the limit.
- `NoUncountedPost`: no row has had more POSTs than it counts. Its invariant `Counted` says more: the POSTs made *and* the
  processes that have counted an attempt and not yet made theirs (`Unposted`, those in `claimed` and `lookup`) are at most
  `attempt_count`. Each claim adds one to both sides, a POST moves one from the second to the first. The set is finite whatever
  the number of processes, because it grows by one claim at a time (`FiniteSetTheorems`).
- `TypeCorrect`, `Invariance`.

### GatewayProofs

Assumed: `KeyAssumption`, `NameAssumption`, `GatewayAssumption` (those of `WebhookDelivery`, and that "no payload" is none).

*ModerationFlow.* `IInv` states what a call or a reviewer may
still rely on at the point it has reached: a call's row carries the decision it
computed (`CheckRow`), a reviewer past its `FOR UPDATE` holds the lock of a pending case and, from
its commit to its callback, the case bears its ruling and is unannounced (`ReviewerRow`); no
two reviewers are about to announce one case (`OneDispatcher`); answers repeat rows (`AnswerRow`),
which do not change (`SettledRow`). From it: `OneKeyOneAnswer`, `RetriesLearnRulings`,
`OneAnnouncement`, `Announcements`, `Refinement` (of `DecisionContract`) and, through the contract,
`DecisionsAreStable`.

*Both.* Every step of the gateway is a step of one part or of both (`GatewayIsBoth`), so that the theorems about
either part hold of the whole, those of `WebhookDeliveryProofs` included. What is new relates the state of one to the state of the
other, and neither invariant says it. `Handover` does: a delivery is begun when its request is announced
(`FirstWhenPosted`); who records has posted, and no other call or reviewer is about to record the same
(`OneRecorder`); what was received and what is stored is what the first callback said (`OneMessage`); and retries are of rows
that exist (`RetriesOfRows`), so that they repeat something. From it: `HandoversHold`. From it and both parts'
invariants: `EndToEndRefinement` (of `GatewayContract`). A first callback says what is in force
because the case is still as its reviewer left it; a repeated one because what is in force has not changed since
(`PostedIsInForce`), although nobody looks; a confirmation stays because only the holder of a row writes it.

### AccountsProofs

Assumed: `RegistrationAssumption`, `SessionsAssumption`.

*Registration.* That there is one administrator rests on what a request
read being still true when it commits (`CheckStaysValid`), and that on its holding the row from
its reading to its commit (`HoldsRow`); `RoleAllowed` ties the role to the reading,
`AccountAfterCommit` an account to a commit. The mutex
plays no part in the proof: the row alone makes registrations atomic. From it: `OneAdmin`,
`ChecksStayValid`, `Refinement` (of `RegistrationContract`).

*Sessions.* `SessionInv` says of the tokens that were issued that their ends are whole seconds and their issue
is past (`TokensFit`), and of a request that was
admitted that it holds such a token (`RequestsFit`). The arithmetic is in the lemmas: cutting a time to whole
seconds loses less than a second (`Cut`) and nothing of a bound that is whole itself (`WholeStays`), so what is admitted by the
uncut clock gains the full hour (`WindowGains`). From it: `ExchangesGainTime`.

`AccountsHold` puts them together, by `EitherIsServed`.

### ClientGateProofs

Assumed: `ClientAssumption` (the placeholder is no key, secret, URL or policy; there is a policy), `LimiterAssumption`.

*ClientAccess.* The heart is what a request has drawn. `DrawsFit`: everything in use was drawn, two
administrators hold nothing in common, and until the change of one is stored, its key and secret are nowhere else: not
in the row, in no callback, in nobody's hands. `SecretsFit` binds a secret to a URL from the moment it is
drawn (`Bound`: in a request, in the row, on the way of a callback, or sent). A webhook change stores both
under one lock, so the row never pairs one's URL with another's secret. `CallsFit` follows a barred call: as long as it has not
been refused, its key is dead or its client inactive, and stays so. `RequestsFit` and `CreationFits` say where requests may be. From it:
`DeadKeysStayOut`, `AnswersAreTheirOwn`, `OneSecretOneEndpoint`, for any number of administrators and calls.

*RateLimiter.* `LimiterInv`: the counter and what it granted in this window agree, and a counter that was
counted up has a time to live (`CounterFits`); a caller that was refused either has as long to wait as the window lives, rounded
up, or has seen it end (`WaitsFit`). `RoundsUp` is the rounding of `rateLimitRetryAfterSeconds`: it never tells less than the
time to live. From it: `AnswersAreHonest`. `SpansAreBounded` needs to know which admissions a span of `Expiry` ticks can
hold (`SpanFits`): a window admits its n-th call once, and all that is left of earlier windows is of the one before, since a
window is as long as the span. So the span's calls go one to one into `1..2*Limit`, by number, those of the older
window after those of the newer.

`GateHolds` puts them together, by `GateIsBoth`.

### DetectionTaskProofs

Assumed: `TaskAssumption`. `Accounted` is not inductive: a task completes its row from a copy it read before, and other consumers may be
at the same row. `IInv` adds that a task is with the broker or belongs to one consumer (`OwnersFit`); that a handler that can still write owns
its task and has a true copy of the row, unless one was cut off (`TaskFits`); that the HTTP handler of a published
request is over, or its row does not exist (`PublishedFit`); that a handler that is not over has an unprocessed row and has stored a
result before it completes it (`HandlersFit`); and that what is cached was stored (`ResultsFit`). So two handlers of one
task write to its row only if one was cut off. The five steps of the HTTP handler go through one predicate,
`HandlerMayDo`, which says what they have in common, and the eight of a task handler through `ConsumerMayDo`: it goes on with the task
(`GoesOn`), or lets go of one that is done or given back (`LetsGo`). From it: `TasksAccounted`, `ProcessedIsFinal`, for any number of processes.

### ConsoleProofs

Assumed: `ConsoleAssumption`. Each view has an invariant of its own, and `IInv` is that of the view that is mounted; an
action of another view is impossible. Slots, rows, pages and cases are any number.

- `QueueInv`: what the console was told to be ruled on is final (`RuledOn`), a detail that will still be shown with
  the form is of no such case (`ShownNext`), and one detail or one submission is waited for, never both (`OneAtATime`).
  From it: `FormsStayClosed`.
- `HistoryInv`: flags are up exactly while something is awaited, once of a kind (`AwaitedOnce`), and what is
  awaited is for what is shown (`AwaitedFits`, `CursorsFit`). Every answered page fits its filter and cursor
  (`PagesFit`), and the shown list is such a page, from the beginning on (`ShownFits`): in order, of the filter, all below the
  cursor, and with everything of `due` between its cursors. The core of the proof is that two pages that meet at a cursor join into
  one, although cases were finalized between them above, below and beside the cursor. `Rows` chooses the sorted
  list of a set; that one exists, for any finite set, is proved by numbering its members with their ranks,
  which needs no induction. From it: `PagesAreOrdered`, `PagesAreComplete`, `HistoryBelongsTogether`.
- `DeliveryInv`: nothing told is newer than its row, and a list on its way that will be shown is no older than what retries were
  told (`VersionsFit`), nor is the one shown (`RowsShown`); one load counts, and one request is of the retry of a row
  (`OneEach`, `Spinners`). From it: `RowsNeverGoBack`.
- `ClientInv`: a load that will be shown and an operation exclude each other, one operation of a client and one request
  for a secret are under way at a time (`FlagsFit`); so lists, shown and on their way, are as new as what operations answered
  (`ListFits`), and a secret on its way is seen for the first time (`SecretsDrawn`). From it: `SecretsStay`, `ListsUndoNothing`.

### ProcessProofs

Assumed: `SettingsAssumption`, `PoliciesAssumption`, `RulesAssumption`. `SettingsInv`: what has been given by
any source has the type of its field (`SourcesFit`), settings in use were validated, and a batch was refused exactly if its guards refuse them. `PolicyInv`: a running process has a set of
valid policies of different versions (`Good`; `SetsAreGood` is the lemma about `NewPolicySet`), a check in
flight has one of them, and the results of this process were decided by one (`Decided`) and bear the normalized labels of their
answer (`Labelled`). From it: `SettingsAreUsable`, `VettedVersionsStay`, `DecisionsFollowPolicies` and, with the labels,
`ResultsFollowPolicies`; together `ProcessHolds`, by `EitherConcern`.

That `normalizeLabels` keeps each label once, in the order of first mention, is proved for lists of any length
(`LabelsAreNormalized`). The loop's meaning is a statement about each of its turns (`NormalizedSoFar`), and a turn
preserves it (`TurnNormalizes`). The induction over the turns goes by the first turn after which it would fail:
there is a least one (`LeastOne`, from the well-foundedness of the natural numbers), it is not the beginning, and the turn before it is a
contradiction. That the recursive function satisfies its own equations is shown in the same way (`LoopRuns`).

### ReadsProofs

Assumed: `ReadsAssumption`, `StatsAssumption`.

*ResultReads.* Three queries answer like one because rows stay and rulings do not change. `RowsFit`: the tables agree after every
commit. `ReadersFit` follows a reader: what it found is there, what was ruled before it began still is, and once it has read
the cases, it has one exactly for what is to be reviewed. From it: `AnswersHoldTogether`.

*OperationsStats.* `StatsInv`: the tables are at every time a `Moment` (a case for exactly what is to be reviewed), the snapshot is one that comes before them (`Later`), each count made is the query's on the
snapshot, and the last report has the figures of a moment (`FiguresOf`) no later than the snapshot. Counting
adds up because the sets counted are apart; later moments count no less of what is final. From it: `ReportsAddUp`, `ReportsGrow`.

`ReadsHold` puts them together, by `EitherIsAsked`.

### Only model-checked

Every invariant and every action property of the runs is stated by a theorem, and so is every refinement. What is left to TLC is
liveness: `Settles` of `WebhookDelivery` and of `DetectionTask`, and `EveryRegistrationEnds`. Their fairness speaks of when actions are
enabled, which is out of the prover's reach.

## Divergence

`docs/API.md:1219` says that only deliveries with `status = "failed"` can be retried by hand and
mentions stale `retrying` rows for the automatic retry alone. The claim (`moderation/repository.go:371`)
is one statement for both: an administrator can take over a `retrying` row whose lease
has run out, too. `ARCHITECTURE.md:266` says so. `ManualRetry` exhibits it: an administrator's retry claims a failed row
and is abandoned before it writes back, the lease runs out, and the next retry claims the row from `retrying`. It is the document
that should change: a row whose last allowed attempt was lost is listed by no worker
(`attempt_count < max_attempts`) and only an administrator can still move it.

`docs/API.md:296` says that the answer to an activation has `status` `active`. `UpdateClientStatus`
(`clients/repository.go:101`) updates the row in one statement and selects it for the answer in another
(`:119`), with no transaction around them. `ActivationAnswer` lets a deactivation come between them: the
activation answers `inactive`. The row is right, and the answer is true of the moment it is given; only
rotations and webhook changes answer with their own change (`ToldItsOwn`).

`monitorConnection` "monitors the connection and reconnects if needed" (`queue/rabbitmq.go:144`), and it does; but the goroutine
of `Consume` returns when its channel closes (`:248`) and nobody calls `Consume` again. In `TaskFlow` the
connection breaks once and is up for good afterwards, and a task stays in the queue. A restart of the process, which
nobody promises, is what helps.

Met while reading, and not shown by a run of their own:

- `normalizeWebhookRetryLimit` (`moderation/service.go:1638`) refuses a limit above 100; `validateConfig` and
  `startWebhookRetryWorker` take any positive `batch_size`. With 101 the worker runs and each of its
  batches fails. `UsableButForBatchSize` names this exception, and no other.
- A task handler saves the copy of its row that it read (`app.go:51`, `:64`, `:77`). If its connection breaks meanwhile, another process
  is given the task, may complete it and acknowledge it; the `Save` of the first then makes the row processing
  or failed, and unprocessed, again, and the task is in no queue any more. Its result is stored. `DetectionTask` has such runs: they are why
  `Accounted`, `ProcessedStays` and `Settles` except the requests of `cut`.
- The comment at `auth/jwt.go:90` has a token exchanged "1 hour before expiration". The comparison lets
  it be exchanged from one hour after its issue; the two agree for a lifetime of two hours.
- `loadQueue` (`useReviews.ts:39`) assigns whatever list arrives. A queue asked for before a ruling and answered after
  it shows the case again, under the notice that it was saved (`:90`), until the next load. `FormFollowsRulings` says what
  still holds then: the form of that case is not offered by what this console has been told. Nothing is claimed of the list.
- The asynchronous mode of `Detect` publishes what `PublishDetectionRequest` refuses (`DetectionTask.AsyncRefused`).

Limits of the code that the models contain and no property denies:

- The first callback is posted after the commit and recorded after the POST. A crash in
  between, or a failed insert, which is only logged, leaves a decision nobody will announce
  again (`LoseFirst`, `Fail`).
- A row claimed for its last allowed attempt, by a worker that dies, stays `retrying`.
  `Settles` counts it as used up.
- A stream whose write fails hangs (`Refuse`): its goroutine returns without a word to the handler. `Settles` counts it as settled.
- A client keeps a policy version that a restart has made unknown; its checks fail until another is assigned.
- A client that is inactive when its decision becomes final gets no callback, then or later
  (`SkipCallback`): no row is recorded that could be retried.

## Abstractions

- Texts, labels, scores, payloads, error texts, HTTP status and audit columns are left out; so are signing,
  URL checks and redirects of the dispatcher. They decide nothing modelled here.
- A transaction is one step where its locks make it one (`SaveCheck`, `CommitRuling`, the claim)
  and several where another process can see or do something in between.
- Soft deletion is left out: no route deletes these rows.
- Case-insensitive collation of names: two identities that the database takes for one are
  one name.

## Not modelled

Text and I/O: AI providers and prompts (their answers are choices in the models), signing and the HTTP
dispatcher, password hashing, structured logging, metrics and health (they decide nothing), settings that are only copied,
database start-up, scripts, Vue templates beyond what they disable. Code that nothing constructs or routes to:
batch detection, the multilevel cache, structured logging, detection feedback, `GetRemaining` of
the limiter. `queue/consumer.go` is constructed and started by `App.Run` and hands deliveries on from `Consume` to the task handler; it has no step of its own. Soft deletion and the list of earlier detections, a query that preloads a relation its model does not declare.

## Plan

1. Contracts for components that have none yet: what a client of `ClientAccess` and a reader of
   `ResultReads` is promised, each with its refinement proved from the invariant that is there.
2. `ConsoleProofs` is as long as the rest together: lemmas that its four views have in common (a slot is emptied, a slot is
   filled, superseded requests) stated once.
