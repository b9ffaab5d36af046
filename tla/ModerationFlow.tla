--------------------------- MODULE ModerationFlow ---------------------------
(***************************************************************************)
(* From a text to its announced decision: concurrent calls of               *)
(* Service.Check, of which clients repeat some under the same external_id,  *)
(* and concurrent reviewers in Service.finalizeReviewCase, sharing the      *)
(* moderation_requests, moderation_results and review_cases tables.         *)
(*                                                                          *)
(* A call of Check creates at most one request, so the call also names the  *)
(* request (its request_id is drawn inside the call).  A key stands for the *)
(* pair of client and external_id, which both the idempotency_key index and *)
(* the lookup use.  The AI provider and the policy's thresholds are a       *)
(* choice among the three decisions: two calls with one key may well get    *)
(* different ones.                                                          *)
(***************************************************************************)
EXTENDS Naturals, Sequences

CONSTANTS
  Checks,       \* calls of POST /moderation/check
  Reviewers,    \* reviewers' finalization requests being served
  Keys,         \* (client, external_id) pairs
  NoKey,        \* a call without external_id, or by a JWT user
  Key,          \* the key of each call
  ClientCalls,  \* the calls made with an API key: they have a client
  NoAnswer,     \* "this call has not answered"
  NoReviewer,   \* "no transaction holds the lock of this case"
  NoCheck       \* "this reviewer works on no case"

ASSUME KeyAssumption ==
  /\ Key \in [Checks -> Keys \cup {NoKey}]
  /\ NoKey \notin Keys
  /\ ClientCalls \subseteq Checks
  /\ \A c \in Checks : Key[c] # NoKey => c \in ClientCalls

ASSUME NameAssumption ==
  /\ NoReviewer \notin Reviewers
  /\ NoCheck \notin Checks

Final    == {"allow", "block"}
Verdicts == Final \cup {"review"}

\* What a reviewer may ask for: approve, reject, or mark a mistake either way.
Rulings ==
  {[status |-> "approved", final |-> "allow"],
   [status |-> "rejected", final |-> "block"],
   [status |-> "mistake", final |-> "allow"],
   [status |-> "mistake", final |-> "block"]}

NoRuling == [status |-> "none", final |-> "none"]

\* The columns of review_cases that a ruling changes.
Pending  == [status |-> "pending", final |-> "none"]

VARIABLES
  decision,   \* moderation_results.decision of the request, "none" before SaveCheck
  case,       \* review_cases: status and final_decision, NoRuling if there is no case
  lock,       \* holder of the row lock of a case
  phase,      \* where a call of Check is
  verdict,    \* the decision a call of Check has computed
  reply,      \* what a call has answered, NoAnswer before it does or if it fails
  settled,    \* history: the ruling its key's request already had when a call arrived
  step,       \* where a reviewer is in finalizeReviewCase
  target,     \* the case it works on
  ruling,     \* the ruling it was asked for
  posts       \* history: first callbacks of a request, in order

tables    == <<decision, case>>
checkVars == <<phase, verdict, reply, settled>>
caseVars  == <<step, target, ruling>>
vars == <<tables, lock, checkVars, caseVars, posts>>

Phases == {"idle", "received", "analyzing", "saving", "conflicted", "saved",
           "recording", "done", "failed"}
Steps  == {"idle", "locking", "writing", "dispatching", "recording"}
Cases  == Rulings \cup {NoRuling, Pending}

Answers  == [request : Checks, decision : Verdicts, case : Cases]
Payloads == [decision : Verdicts, status : {"none", "approved", "rejected", "mistake"}]

TypeOK ==
  /\ decision \in [Checks -> Verdicts \cup {"none"}]
  /\ case \in [Checks -> Cases]
  /\ lock \in [Checks -> Reviewers \cup {NoReviewer}]
  /\ phase \in [Checks -> Phases]
  /\ verdict \in [Checks -> Verdicts \cup {"none"}]
  /\ reply \in [Checks -> Answers \cup {NoAnswer}]
  /\ settled \in [Checks -> Cases]
  /\ step \in [Reviewers -> Steps]
  /\ target \in [Reviewers -> Checks \cup {NoCheck}]
  /\ ruling \in [Reviewers -> Rulings \cup {NoRuling}]
  /\ posts \in [Checks -> Seq(Payloads)]

Init ==
  /\ decision = [c \in Checks |-> "none"]
  /\ case = [c \in Checks |-> NoRuling]
  /\ lock = [c \in Checks |-> NoReviewer]
  /\ phase = [c \in Checks |-> "idle"]
  /\ verdict = [c \in Checks |-> "none"]
  /\ reply = [c \in Checks |-> NoAnswer]
  /\ settled = [c \in Checks |-> NoRuling]
  /\ step = [r \in Reviewers |-> "idle"]
  /\ target = [r \in Reviewers |-> NoCheck]
  /\ ruling = [r \in Reviewers |-> NoRuling]
  /\ posts = [c \in Checks |-> <<>>]

-----------------------------------------------------------------------------
(***************************************************************************)
(* Check.                                                                   *)
(***************************************************************************)

\* The requests FindResultByClientExternalID finds for call c.
Stored(c) == {s \in Checks : Key[c] # NoKey /\ Key[s] = Key[c] /\ decision[s] # "none"}

\* Mutant of AnswerFrom: the stored review is left out of the answer.
AnswerWithoutCase(s) == [request |-> s, decision |-> decision[s], case |-> NoRuling]

\* checkOutputFromStored
AnswerFrom(s) == [request |-> s, decision |-> decision[s], case |-> case[s]]

\* Call c answers and returns.
Answer(c, answer) ==
  /\ reply' = [reply EXCEPT ![c] = answer]
  /\ phase' = [phase EXCEPT ![c] = "done"]

Advance(c, from, to) ==
  /\ phase[c] = from
  /\ phase' = [phase EXCEPT ![c] = to]

Receive(c) ==
  /\ Advance(c, "idle", "received")
  /\ \/ Stored(c) = {} /\ UNCHANGED settled
     \/ \E s \in Stored(c) :
          settled' = [settled EXCEPT ![c] = IF case[s] \in Rulings THEN case[s] ELSE NoRuling]
  /\ UNCHANGED <<tables, lock, verdict, reply, caseVars, posts>>

\* The first lookup finds what an earlier call with this key stored.
Reuse(c) ==
  /\ phase[c] = "received"
  /\ \E s \in Stored(c) : Answer(c, AnswerFrom(s))
  /\ UNCHANGED <<tables, lock, verdict, settled, caseVars, posts>>

\* It finds nothing, or the call has no key to look up.
StartAnalysis(c) ==
  /\ Stored(c) = {}
  /\ Advance(c, "received", "analyzing")
  /\ UNCHANGED <<tables, lock, verdict, reply, settled, caseVars, posts>>

\* AnalyzeText and policy.Decide.  Meanwhile other calls with the key go on.
Decide(c, v) ==
  /\ Advance(c, "analyzing", "saving")
  /\ verdict' = [verdict EXCEPT ![c] = v]
  /\ UNCHANGED <<tables, lock, reply, settled, caseVars, posts>>

\* The unique index on idempotency_key lets this call insert its request.
KeyIsFree(c) == Stored(c) = {}

\* SaveCheck commits request, result and, for a review, a pending case.
Save(c) ==
  /\ KeyIsFree(c)
  /\ Advance(c, "saving", "saved")
  /\ decision' = [decision EXCEPT ![c] = verdict[c]]
  /\ case' = [case EXCEPT ![c] = IF verdict[c] = "review" THEN Pending ELSE NoRuling]
  /\ UNCHANGED <<lock, verdict, reply, settled, caseVars, posts>>

\* The insert hits the unique index and the transaction rolls back.
SaveConflicts(c) ==
  /\ ~KeyIsFree(c)
  /\ Advance(c, "saving", "conflicted")
  /\ UNCHANGED <<tables, lock, verdict, reply, settled, caseVars, posts>>

\* A call answers from what it built itself, not from what is stored by now.
OwnAnswer(c) ==
  [request |-> c, decision |-> verdict[c],
   case |-> IF verdict[c] = "review" THEN Pending ELSE NoRuling]

\* Mutant of AnswerConflict: the loser answers with its own decision.
AnswerOwnDecision(c) ==
  /\ phase[c] = "conflicted"
  /\ Answer(c, OwnAnswer(c))
  /\ UNCHANGED <<tables, lock, verdict, settled, caseVars, posts>>

\* The second lookup answers with what the winner stored.
AnswerConflict(c) ==
  /\ phase[c] = "conflicted"
  /\ \E s \in Stored(c) : Answer(c, AnswerFrom(s))
  /\ UNCHANGED <<tables, lock, verdict, settled, caseVars, posts>>

\* Mutant of PostDecision: a request that waits for a review is announced as well.
PostAnyDecision(c) ==
  /\ c \in ClientCalls
  /\ Advance(c, "saved", "recording")
  /\ posts' = [posts EXCEPT ![c] = Append(@, [decision |-> decision[c], status |-> "none"])]
  /\ UNCHANGED <<tables, lock, verdict, reply, settled, caseVars>>

\* dispatchFinalDecision, for a decision that needs no review: the payload carries
\* the stored decision.
PostDecision(c) ==
  /\ c \in ClientCalls /\ verdict[c] # "review"
  /\ Advance(c, "saved", "recording")
  /\ posts' = [posts EXCEPT ![c] = Append(@, [decision |-> decision[c], status |-> "none"])]
  /\ UNCHANGED <<tables, lock, verdict, reply, settled, caseVars>>

\* The decision waits for a review, or there is no client, no webhook, or no
\* loading the client: no callback and no record of one.
SkipPost(c) ==
  /\ phase[c] = "saved"
  /\ Answer(c, OwnAnswer(c))
  /\ UNCHANGED <<tables, lock, verdict, settled, caseVars, posts>>

\* The delivery is recorded, or the failure to record it is logged.
Finish(c) ==
  /\ phase[c] = "recording"
  /\ Answer(c, OwnAnswer(c))
  /\ UNCHANGED <<tables, lock, verdict, settled, caseVars, posts>>

\* The provider, the policy lookup or the database fails, or the process dies:
\* the caller sees an error, and whatever was committed stays.
Fail(c) ==
  /\ phase[c] \notin {"idle", "done", "failed"}
  /\ phase' = [phase EXCEPT ![c] = "failed"]
  /\ UNCHANGED <<tables, lock, verdict, reply, settled, caseVars, posts>>

-----------------------------------------------------------------------------
(***************************************************************************)
(* finalizeReviewCase.                                                      *)
(***************************************************************************)

\* A reviewer asks to finalize an existing case, seen pending or not.
OpenCase(r, c, choice) ==
  /\ step[r] = "idle" /\ case[c] # NoRuling
  /\ step' = [step EXCEPT ![r] = "locking"]
  /\ target' = [target EXCEPT ![r] = c]
  /\ ruling' = [ruling EXCEPT ![r] = choice]
  /\ UNCHANGED <<tables, lock, checkVars, posts>>

\* Mutant of LockIsFree: the case is read without FOR UPDATE.
ReadWithoutLock(c) == case[c] \in Cases

\* The SELECT ... FOR UPDATE does not have to wait.
LockIsFree(c) == lock[c] = NoReviewer

\* Mutant of LockPending: a finalized case can be finalized again.
LockAnyStatus(r) ==
  /\ step[r] = "locking" /\ LockIsFree(target[r])
  /\ lock' = [lock EXCEPT ![target[r]] = r]
  /\ step' = [step EXCEPT ![r] = "writing"]
  /\ UNCHANGED <<tables, checkVars, target, ruling, posts>>

\* The row is locked and found pending.
LockPending(r) ==
  /\ step[r] = "locking" /\ LockIsFree(target[r])
  /\ case[target[r]] = Pending
  /\ lock' = [lock EXCEPT ![target[r]] = r]
  /\ step' = [step EXCEPT ![r] = "writing"]
  /\ UNCHANGED <<tables, checkVars, target, ruling, posts>>

Return(r) ==
  /\ step' = [step EXCEPT ![r] = "idle"]
  /\ target' = [target EXCEPT ![r] = NoCheck]
  /\ ruling' = [ruling EXCEPT ![r] = NoRuling]

\* The row is locked and found finalized: a conflict, and the lock is released.
LockFinalized(r) ==
  /\ step[r] = "locking" /\ LockIsFree(target[r])
  /\ case[target[r]] # Pending
  /\ Return(r)
  /\ UNCHANGED <<tables, lock, checkVars, posts>>

\* The row is saved and the transaction commits.
CommitRuling(r) ==
  /\ step[r] = "writing"
  /\ case' = [case EXCEPT ![target[r]] = ruling[r]]
  /\ lock' = [lock EXCEPT ![target[r]] = NoReviewer]
  /\ step' = [step EXCEPT ![r] = "dispatching"]
  /\ UNCHANGED <<decision, checkVars, target, ruling, posts>>

\* What a callback after a review says.
RulingPayload(r) == [decision |-> ruling[r].final, status |-> ruling[r].status]

\* dispatchFinalDecision with the ruling just committed.
PostRuling(r) ==
  /\ step[r] = "dispatching" /\ target[r] \in ClientCalls
  /\ posts' = [posts EXCEPT ![target[r]] = Append(@, RulingPayload(r))]
  /\ step' = [step EXCEPT ![r] = "recording"]
  /\ UNCHANGED <<tables, lock, checkVars, target, ruling>>

\* The reviewer's request ends: its callback is recorded or skipped, the
\* transaction fails, or the process dies, which rolls an open one back.
Leave(r) ==
  /\ step[r] # "idle"
  /\ lock' = [c \in Checks |-> IF lock[c] = r THEN NoReviewer ELSE lock[c]]
  /\ Return(r)
  /\ UNCHANGED <<tables, checkVars, posts>>

-----------------------------------------------------------------------------
CheckStep(c) ==
  \/ Receive(c) \/ Reuse(c) \/ StartAnalysis(c)
  \/ \E v \in Verdicts : Decide(c, v)
  \/ Save(c) \/ SaveConflicts(c) \/ AnswerConflict(c)
  \/ PostDecision(c) \/ SkipPost(c) \/ Finish(c)
  \/ Fail(c)

ReviewStep(r) ==
  \/ \E c \in Checks, choice \in Rulings : OpenCase(r, c, choice)
  \/ LockPending(r) \/ LockFinalized(r) \/ CommitRuling(r)
  \/ PostRuling(r) \/ Leave(r)

Next ==
  \/ \E c \in Checks : CheckStep(c)
  \/ \E r \in Reviewers : ReviewStep(r)

Spec == Init /\ [][Next]_vars

-----------------------------------------------------------------------------
(***************************************************************************)
(* Properties.                                                              *)
(***************************************************************************)

\* Whatever the overlap of calls with one external_id, the database holds one
\* request for it.
OneRequestPerKey ==
  \A c, s \in Checks :
    Key[c] # NoKey /\ Key[c] = Key[s] /\ decision[c] # "none" /\ decision[s] # "none" => c = s

\* All calls with one external_id that are answered are answered with the same
\* request and policy decision, although each may have got its own from the AI.
AnswersAgree ==
  \A c, s \in Checks :
    Key[c] # NoKey /\ Key[c] = Key[s] /\ reply[c] # NoAnswer /\ reply[s] # NoAnswer =>
      /\ reply[c].request = reply[s].request
      /\ reply[c].decision = reply[s].decision

\* A retry that arrives after the review of its external_id ended is answered
\* with that very ruling, whichever of the two lookups answers it.
RetryLearnsRuling ==
  \A c \in Checks :
    settled[c] # NoRuling /\ reply[c] # NoAnswer => reply[c].case = settled[c]

\* The decision in force for a request: its policy decision, or the reviewer's.
InForce(c) == IF case[c] \in Rulings THEN case[c].final ELSE decision[c]

\* Two reviewers racing for a case, and calls racing for a key, never change a
\* decision once it is allow or block.
DecisionInForceIsStable ==
  [][\A c \in Checks : InForce(c) \in Final => InForce(c)' = InForce(c)]_vars

\* The decision the first callback of a request carried.
Announced(c) == IF posts[c] = <<>> THEN "none" ELSE posts[c][1].decision

\* No request is announced twice by a first attempt, neither by the call that
\* created it and a reviewer nor by two reviewers.
AnnouncedOnce == \A c \in Checks : Len(posts[c]) <= 1

\* A callback says what the database says for good: the decision in force and
\* the status of the review behind it, never "review".
AnnouncementIsInForce ==
  \A c \in Checks : posts[c] # <<>> =>
    /\ posts[c][1].decision \in Final
    /\ posts[c][1].decision = InForce(c)
    /\ posts[c][1].status = case[c].status

\* Requests behave as the contract says.
Contract ==
  INSTANCE DecisionContract WITH
    Requests <- Checks,
    decided <- [c \in Checks |-> InForce(c)],
    announced <- [c \in Checks |-> Announced(c)]
ImplementsContract == Contract!Spec
=============================================================================
