---------------------------- MODULE GatewayProofs ----------------------------
(***************************************************************************)
(* Theorems about ModerationFlow, and about Gateway, which joins it to      *)
(* WebhookDelivery, for any number of calls, reviewers, external_ids,       *)
(* workers and operators.                                                   *)
(***************************************************************************)
EXTENDS Gateway, TLAPS

(***************************************************************************)
(* The inductive invariant.  What a step changes depends on rows another    *)
(* step read or wrote earlier, so each conjunct says what a call or a       *)
(* reviewer may still rely on at the point it has reached.                  *)
(***************************************************************************)

\* Requests have a review case exactly if their policy decision asks for one.
CaseForReview == \A c \in Checks : decision[c] = "review" <=> case[c] # NoRuling

\* A call has no row before its save, then carries the decision it wrote, and
\* answers last.
CheckRow ==
  \A c \in Checks :
    /\ phase[c] \in {"idle", "received", "analyzing", "saving", "conflicted"} =>
         decision[c] = "none"
    /\ phase[c] \in {"saving", "saved", "recording"} => verdict[c] \in Verdicts
    /\ phase[c] \in {"saved", "recording"} => decision[c] = verdict[c]
    /\ phase[c] # "done" => reply[c] = NoAnswer

\* A reviewer between the SELECT ... FOR UPDATE and the commit holds the lock of
\* a case that is still pending; from its commit to its callback the case bears
\* its ruling and nothing has been announced.
ReviewerRow ==
  \A r \in Reviewers :
    /\ step[r] # "idle" => target[r] \in Checks /\ ruling[r] \in Rulings
    /\ step[r] = "writing" => lock[target[r]] = r /\ case[target[r]] = Pending
    /\ step[r] = "dispatching" => case[target[r]] = ruling[r] /\ posts[target[r]] = <<>>

\* No two reviewers are about to announce the same case.
OneDispatcher ==
  \A r, q \in Reviewers :
    step[r] = "dispatching" /\ step[q] = "dispatching" /\ target[r] = target[q] => r = q

\* Nothing is announced before it is in force, nor by a call about to announce.
AnnouncedAfter ==
  \A c \in Checks :
    /\ decision[c] = "none" \/ case[c] = Pending => posts[c] = <<>>
    /\ phase[c] = "saved" /\ decision[c] # "review" => posts[c] = <<>>

\* An answer repeats the row of a request with the call's key.
AnswerRow ==
  \A c \in Checks : reply[c] # NoAnswer =>
    LET s == reply[c].request IN
    /\ Key[c] # NoKey => Key[s] = Key[c]
    /\ decision[s] # "none" /\ reply[c].decision = decision[s]

\* The ruling a call found on arrival is still in its key's row, which is not its own.
SettledRow ==
  \A c \in Checks : settled[c] # NoRuling =>
    /\ settled[c] \in Rulings
    /\ \E s \in Stored(c) : case[s] = settled[c]
    /\ phase[c] \notin {"saved", "recording"}

IInv ==
  /\ TypeOK
  /\ CaseForReview /\ CheckRow /\ ReviewerRow /\ OneDispatcher /\ AnnouncedAfter
  /\ AnnouncedOnce /\ AnnouncementIsInForce
  /\ OneRequestPerKey /\ AnswerRow /\ SettledRow /\ RetryLearnsRuling

-----------------------------------------------------------------------------
(***************************************************************************)
(* Type correctness.                                                        *)
(***************************************************************************)

\* The types hold initially and every step keeps them.
LEMMA TypeInit == Init => TypeOK
  BY DEF Init, TypeOK, Cases, Phases, Steps

LEMMA TypeStep == TypeOK /\ CheckRow /\ ReviewerRow /\ [Next]_vars => TypeOK'
<1> SUFFICES ASSUME TypeOK, CheckRow, ReviewerRow, [Next]_vars
             PROVE  TypeOK'
  OBVIOUS
<1> USE DEF TypeOK, tables, checkVars, caseVars
<1>1. ASSUME NEW c \in Checks,
             \/ Receive(c) \/ StartAnalysis(c) \/ SaveConflicts(c) \/ Fail(c)
             \/ \E v \in Verdicts : Decide(c, v)
      PROVE  TypeOK'
  <2>1. CASE Receive(c)
    BY <2>1 DEF Receive, Advance, Phases, Stored, Cases
  <2>2. CASE StartAnalysis(c) \/ SaveConflicts(c) \/ Fail(c)
    BY <2>2 DEF StartAnalysis, SaveConflicts, Fail, Advance, Phases
  <2>3. CASE \E v \in Verdicts : Decide(c, v)
    BY <2>3 DEF Decide, Advance, Phases
  <2>4. QED
    BY <1>1, <2>1, <2>2, <2>3
<1>2. ASSUME NEW c \in Checks, Save(c)
      PROVE  TypeOK'
  BY <1>2 DEF Save, Advance, Phases, Cases
<1>3. ASSUME NEW c \in Checks, NEW answer \in Answers, Answer(c, answer),
             UNCHANGED <<tables, lock, verdict, settled, caseVars, posts>>
      PROVE  TypeOK'
  BY <1>3 DEF Answer, Phases
<1>4. ASSUME NEW c \in Checks, Reuse(c) \/ AnswerConflict(c)
      PROVE  TypeOK'
  <2>1. PICK s \in Stored(c) : Answer(c, AnswerFrom(s))
    BY <1>4 DEF Reuse, AnswerConflict
  <2>2. AnswerFrom(s) \in Answers
    BY <2>1 DEF AnswerFrom, Answers, Stored
  <2>3. QED
    BY <1>3, <1>4, <2>1, <2>2 DEF Reuse, AnswerConflict
<1>5. ASSUME NEW c \in Checks, SkipPost(c) \/ Finish(c)
      PROVE  TypeOK'
  <2>1. OwnAnswer(c) \in Answers
    BY <1>5 DEF SkipPost, Finish, OwnAnswer, Answers, Cases, CheckRow
  <2>2. QED
    BY <1>3, <1>5, <2>1 DEF SkipPost, Finish
<1>6. ASSUME NEW c \in Checks, PostDecision(c)
      PROVE  TypeOK'
  <2>1. [decision |-> decision[c], status |-> "none"] \in Payloads
    BY <1>6 DEF PostDecision, Advance, CheckRow, Payloads
  <2>2. Append(posts[c], [decision |-> decision[c], status |-> "none"]) \in Seq(Payloads)
    BY <2>1
  <2>3. QED
    BY <1>6, <2>2 DEF PostDecision, Advance, Phases
<1>7. ASSUME NEW r \in Reviewers,
             \/ \E c \in Checks, choice \in Rulings : OpenCase(r, c, choice)
             \/ LockPending(r) \/ LockFinalized(r) \/ Leave(r)
      PROVE  TypeOK'
  <2>1. CASE \E c \in Checks, choice \in Rulings : OpenCase(r, c, choice)
    BY <2>1 DEF OpenCase, Steps
  <2>2. CASE LockPending(r)
    BY <2>2 DEF LockPending, Steps
  <2>3. CASE LockFinalized(r)
    BY <2>3 DEF LockFinalized, Return, Steps
  <2>4. CASE Leave(r)
    BY <2>4 DEF Leave, Return, Steps
  <2>5. QED
    BY <1>7, <2>1, <2>2, <2>3, <2>4
<1>8. ASSUME NEW r \in Reviewers, CommitRuling(r)
      PROVE  TypeOK'
  BY <1>8 DEF CommitRuling, Steps, Cases
<1>9. ASSUME NEW r \in Reviewers, PostRuling(r)
      PROVE  TypeOK'
  <2>1. target[r] \in Checks /\ RulingPayload(r) \in Payloads
    BY <1>9 DEF PostRuling, ReviewerRow, RulingPayload, Rulings, Payloads, Verdicts, Final
  <2>2. Append(posts[target[r]], RulingPayload(r)) \in Seq(Payloads)
    BY <2>1
  <2>3. QED
    BY <1>9, <2>1, <2>2 DEF PostRuling, Steps
<1>10. CASE UNCHANGED vars
  BY <1>10 DEF vars
<1>11. QED
  BY <1>1, <1>2, <1>4, <1>5, <1>6, <1>7, <1>8, <1>9, <1>10 DEF Next, CheckStep, ReviewStep

-----------------------------------------------------------------------------
(***************************************************************************)
(* The inductive invariant.                                                 *)
(***************************************************************************)

\* Before any call nothing is stored, locked, answered or announced.
LEMMA InvInit == Init => IInv
<1> SUFFICES ASSUME Init
             PROVE  IInv
  OBVIOUS
<1>1. TypeOK
  BY TypeInit
<1>2. CaseForReview /\ CheckRow /\ ReviewerRow /\ OneDispatcher /\ AnnouncedAfter
  BY DEF Init, CaseForReview, CheckRow, ReviewerRow, OneDispatcher, AnnouncedAfter
<1>3. AnnouncedOnce /\ AnnouncementIsInForce
  BY DEF Init, AnnouncedOnce, AnnouncementIsInForce
<1>4. OneRequestPerKey /\ AnswerRow /\ SettledRow /\ RetryLearnsRuling
  BY DEF Init, OneRequestPerKey, AnswerRow, SettledRow, RetryLearnsRuling
<1>5. QED
  BY <1>1, <1>2, <1>3, <1>4 DEF IInv

\* A call that only moves on, without touching a table or a callback.
LEMMA ProgressStep ==
  ASSUME IInv, NEW c \in Checks,
         \/ Receive(c) \/ StartAnalysis(c) \/ SaveConflicts(c) \/ Fail(c)
         \/ \E v \in Verdicts : Decide(c, v)
  PROVE  IInv'
<1> USE DEF tables, checkVars, caseVars, Advance
<1>1. UNCHANGED <<decision, case, lock, reply, step, target, ruling, posts>>
  BY DEF Receive, StartAnalysis, SaveConflicts, Fail, Decide
<1>2. /\ phase' = [phase EXCEPT ![c] = phase'[c]]
      /\ phase[c] \in Phases \ {"done"} /\ phase'[c] \notin {"saved", "recording"}
      /\ phase'[c] \in {"idle", "received", "analyzing", "saving", "conflicted"} =>
           phase[c] \in {"idle", "received", "analyzing", "saving", "conflicted"}
  BY DEF IInv, TypeOK, Receive, StartAnalysis, SaveConflicts, Fail, Decide
<1>3. TypeOK'
  BY TypeStep DEF IInv, Next, CheckStep
<1>4. CaseForReview' /\ ReviewerRow' /\ OneDispatcher'
  BY <1>1 DEF IInv, CaseForReview, ReviewerRow, OneDispatcher
<1>5. AnnouncedOnce' /\ AnnouncementIsInForce' /\ OneRequestPerKey' /\ AnswerRow'
  BY <1>1 DEF IInv, AnnouncedOnce, AnnouncementIsInForce, InForce, OneRequestPerKey, AnswerRow
<1>6. AnnouncedAfter'
  BY <1>1, <1>2 DEF IInv, TypeOK, AnnouncedAfter
<1>7. CheckRow'
  <2>1. CASE \E v \in Verdicts : Decide(c, v)
    BY <1>1, <2>1 DEF IInv, TypeOK, CheckRow, Decide
  <2>2. CASE Receive(c) \/ StartAnalysis(c) \/ SaveConflicts(c) \/ Fail(c)
    <3>1. verdict' = verdict /\ phase'[c] # "saving"
      BY <2>2 DEF IInv, TypeOK, Receive, StartAnalysis, SaveConflicts, Fail
    <3>2. QED
      BY <1>1, <1>2, <3>1 DEF IInv, TypeOK, CheckRow
  <2>3. QED
    BY <2>1, <2>2
<1>8. SettledRow' /\ RetryLearnsRuling'
  <2>1. CASE settled' = settled
    BY <1>1, <1>2, <2>1 DEF IInv, TypeOK, SettledRow, RetryLearnsRuling, Stored
  <2>2. ASSUME NEW s \in Stored(c), Receive(c),
               settled' = [settled EXCEPT ![c] = IF case[s] \in Rulings THEN case[s] ELSE NoRuling]
        PROVE  SettledRow' /\ RetryLearnsRuling'
    <3>1. reply'[c] = NoAnswer
      BY <1>1, <2>2 DEF IInv, CheckRow, Receive
    <3>2. s \in Stored(c) /\ Stored(c)' = Stored(c)
      BY <1>1 DEF Stored
    <3>3. QED
      BY <1>1, <1>2, <2>2, <3>1, <3>2
         DEF IInv, TypeOK, SettledRow, RetryLearnsRuling, Stored
  <2>3. QED
    BY <2>1, <2>2 DEF Receive, StartAnalysis, SaveConflicts, Fail, Decide
<1>9. QED
  BY <1>3, <1>4, <1>5, <1>6, <1>7, <1>8 DEF IInv

\* A call that answers: with its own row, or with the row stored under its key.
LEMMA AnswerStep ==
  ASSUME IInv, NEW c \in Checks,
         Reuse(c) \/ AnswerConflict(c) \/ SkipPost(c) \/ Finish(c)
  PROVE  IInv'
<1> USE DEF tables, checkVars, caseVars
<1>1. UNCHANGED <<decision, case, lock, verdict, settled, step, target, ruling, posts>>
  BY DEF Reuse, AnswerConflict, SkipPost, Finish
<1>2. PICK answer :
        /\ phase' = [phase EXCEPT ![c] = "done"]
        /\ reply' = [reply EXCEPT ![c] = answer]
        /\ \/ answer = OwnAnswer(c) /\ phase[c] \in {"saved", "recording"}
           \/ \E s \in Stored(c) : answer = AnswerFrom(s)
  BY DEF Reuse, AnswerConflict, SkipPost, Finish, Answer
<1>3. TypeOK'
  BY TypeStep DEF IInv, Next, CheckStep
<1>4. CaseForReview' /\ ReviewerRow' /\ OneDispatcher'
  BY <1>1 DEF IInv, CaseForReview, ReviewerRow, OneDispatcher
<1>5. AnnouncedOnce' /\ AnnouncementIsInForce' /\ OneRequestPerKey'
  BY <1>1 DEF IInv, AnnouncedOnce, AnnouncementIsInForce, InForce, OneRequestPerKey
<1>6. AnnouncedAfter' /\ CheckRow'
  BY <1>1, <1>2 DEF IInv, TypeOK, AnnouncedAfter, CheckRow
<1>7. /\ answer.request \in Checks
      /\ Key[c] # NoKey => Key[answer.request] = Key[c]
      /\ decision[answer.request] # "none" /\ answer.decision = decision[answer.request]
      /\ settled[c] # NoRuling => answer.case = settled[c]
  <2>1. CASE answer = OwnAnswer(c) /\ phase[c] \in {"saved", "recording"}
    BY <2>1 DEF IInv, TypeOK, OwnAnswer, CheckRow, SettledRow, Verdicts, Final
  <2>2. ASSUME NEW s \in Stored(c), answer = AnswerFrom(s)
        PROVE  /\ s \in Checks /\ answer.request = s /\ answer.decision = decision[s]
               /\ Key[s] = Key[c] /\ decision[s] # "none"
               /\ answer.case = case[s]
    BY <2>2 DEF AnswerFrom, Stored
  <2>3. ASSUME NEW s \in Stored(c), settled[c] # NoRuling
        PROVE  case[s] = settled[c]
    <3>1. PICK t \in Stored(c) : case[t] = settled[c]
      BY <2>3 DEF IInv, SettledRow
    <3>2. s = t
      BY <3>1 DEF IInv, OneRequestPerKey, Stored
    <3>3. QED
      BY <3>1, <3>2
  <2>4. QED
    BY <1>2, <2>1, <2>2, <2>3
<1>8. AnswerRow' /\ RetryLearnsRuling'
  BY <1>1, <1>2, <1>7 DEF IInv, TypeOK, AnswerRow, RetryLearnsRuling
<1>9. SettledRow'
  BY <1>1, <1>2 DEF IInv, TypeOK, SettledRow, Stored
<1>10. QED
  BY <1>3, <1>4, <1>5, <1>6, <1>8, <1>9 DEF IInv

\* A call that commits its request: the unique index let it, so its key had none.
LEMMA SaveStep == ASSUME IInv, NEW c \in Checks, Save(c) PROVE IInv'
<1> USE DEF tables, checkVars, caseVars, Advance
<1>1. /\ UNCHANGED <<lock, verdict, reply, settled, step, target, ruling, posts>>
      /\ phase[c] = "saving" /\ phase' = [phase EXCEPT ![c] = "saved"]
      /\ decision' = [decision EXCEPT ![c] = verdict[c]]
      /\ case' = [case EXCEPT ![c] = IF verdict[c] = "review" THEN Pending ELSE NoRuling]
      /\ Stored(c) = {}
  BY DEF Save, KeyIsFree
<1>2. /\ decision[c] = "none" /\ case[c] = NoRuling /\ posts[c] = <<>>
      /\ verdict[c] \in Verdicts /\ reply[c] = NoAnswer /\ settled[c] = NoRuling
  BY <1>1 DEF IInv, CaseForReview, CheckRow, AnnouncedAfter, SettledRow, TypeOK
<1>3. TypeOK'
  BY TypeStep DEF IInv, Next, CheckStep
<1>4. CaseForReview' /\ CheckRow' /\ AnnouncedAfter'
  BY <1>1, <1>2 DEF IInv, TypeOK, CaseForReview, CheckRow, AnnouncedAfter, Verdicts, Final,
                    Pending, NoRuling
<1>5. ReviewerRow' /\ OneDispatcher'
  <2>1. \A r \in Reviewers : step[r] \in {"writing", "dispatching"} => target[r] # c
    BY <1>2 DEF IInv, ReviewerRow, Rulings, Pending, NoRuling
  <2>2. QED
    BY <1>1, <2>1 DEF IInv, TypeOK, ReviewerRow, OneDispatcher
<1>6. AnnouncedOnce' /\ AnnouncementIsInForce'
  BY <1>1, <1>2 DEF IInv, TypeOK, AnnouncedOnce, AnnouncementIsInForce, InForce
<1>7. OneRequestPerKey'
  <2>1. \A s \in Checks : s # c => decision'[s] = decision[s]
    BY <1>1 DEF IInv, TypeOK
  <2>2. \A s \in Checks : Key[c] # NoKey /\ Key[s] = Key[c] => decision[s] = "none"
    BY <1>1 DEF Stored
  <2>3. QED
    BY <2>1, <2>2 DEF IInv, OneRequestPerKey
<1>8. AnswerRow' /\ RetryLearnsRuling'
  <2>1. \A s \in Checks : decision[s] # "none" => decision'[s] = decision[s]
    BY <1>1, <1>2 DEF IInv, TypeOK
  <2>2. \A s \in Checks : reply[s] # NoAnswer => reply[s].request \in Checks
    BY DEF IInv, TypeOK, Answers
  <2>3. QED
    BY <1>1, <2>1, <2>2 DEF IInv, AnswerRow, RetryLearnsRuling
<1>9. SettledRow'
  <2>1. \A s \in Checks : decision[s] # "none" => decision'[s] # "none" /\ case'[s] = case[s]
    BY <1>1, <1>2 DEF IInv, TypeOK
  <2>2. \A s \in Checks : settled[s] # NoRuling => phase'[s] = phase[s]
    BY <1>1, <1>2 DEF IInv, TypeOK
  <2>3. QED
    BY <1>1, <2>1, <2>2 DEF IInv, SettledRow, Stored
<1>10. QED
  BY <1>3, <1>4, <1>5, <1>6, <1>7, <1>8, <1>9 DEF IInv

\* The first element of a callback list that was empty.
LEMMA FirstOf ==
  ASSUME NEW p \in Payloads
  PROVE  /\ Len(Append(<<>>, p)) = 1
         /\ Append(<<>>, p)[1] = p
         /\ Append(<<>>, p) # <<>>
  OBVIOUS

\* A call that announces its own decision, which no review can change.
LEMMA PostDecisionStep == ASSUME IInv, NEW c \in Checks, PostDecision(c) PROVE IInv'
<1> USE DEF tables, checkVars, caseVars, Advance
<1> DEFINE p == [decision |-> decision[c], status |-> "none"]
<1>1. /\ UNCHANGED <<decision, case, lock, verdict, reply, settled, step, target, ruling>>
      /\ phase[c] = "saved" /\ phase' = [phase EXCEPT ![c] = "recording"]
      /\ posts' = [posts EXCEPT ![c] = Append(posts[c], p)]
      /\ verdict[c] # "review"
  BY DEF PostDecision
<1>2. decision[c] = verdict[c] /\ decision[c] \in Final /\ case[c] = NoRuling /\ posts[c] = <<>>
  BY <1>1 DEF IInv, CheckRow, CaseForReview, AnnouncedAfter, Verdicts, Final
<1>3. posts'[c] = Append(<<>>, p) /\ p \in Payloads
  BY <1>1, <1>2 DEF IInv, TypeOK, Payloads, Verdicts
<1>4. /\ Len(posts'[c]) = 1 /\ posts'[c][1] = p /\ p.decision = decision[c] /\ p.status = "none"
      /\ \A d \in Checks : d # c => posts'[d] = posts[d]
  BY <1>1, <1>3, FirstOf DEF IInv, TypeOK
<1>5. TypeOK'
  BY TypeStep DEF IInv, Next, CheckStep
<1>6. CaseForReview' /\ CheckRow' /\ OneDispatcher' /\ OneRequestPerKey'
  BY <1>1 DEF IInv, TypeOK, CaseForReview, CheckRow, OneDispatcher, OneRequestPerKey
<1>7. ReviewerRow'
  <2>1. \A r \in Reviewers : step[r] = "dispatching" => target[r] # c
    BY <1>2 DEF IInv, ReviewerRow, Rulings, NoRuling
  <2>2. QED
    BY <1>1, <1>4, <2>1 DEF IInv, ReviewerRow
<1>8. AnnouncedAfter'
  BY <1>1, <1>2, <1>4 DEF IInv, TypeOK, AnnouncedAfter, Final, NoRuling, Pending
<1>9. AnnouncedOnce' /\ AnnouncementIsInForce'
  BY <1>1, <1>2, <1>4 DEF IInv, AnnouncedOnce, AnnouncementIsInForce, InForce, Rulings, NoRuling
<1>10. AnswerRow' /\ RetryLearnsRuling'
  BY <1>1 DEF IInv, AnswerRow, RetryLearnsRuling
<1>11. SettledRow'
  BY <1>1 DEF IInv, TypeOK, SettledRow, Stored
<1>12. QED
  BY <1>5, <1>6, <1>7, <1>8, <1>9, <1>10, <1>11 DEF IInv

\* A reviewer's request that begins, waits, gets the lock, or ends.
LEMMA ReviewerMoves ==
  ASSUME IInv, NEW r \in Reviewers,
         \/ \E c \in Checks, choice \in Rulings : OpenCase(r, c, choice)
         \/ LockPending(r) \/ LockFinalized(r) \/ Leave(r)
  PROVE  IInv'
<1> USE DEF tables, checkVars, caseVars
<1>1. UNCHANGED <<decision, case, phase, verdict, reply, settled, posts>>
  BY DEF OpenCase, LockPending, LockFinalized, Leave
<1>2. /\ step' = [step EXCEPT ![r] = step'[r]] /\ step'[r] # "dispatching"
      /\ \A q \in Reviewers : q # r => target'[q] = target[q] /\ ruling'[q] = ruling[q]
  BY DEF IInv, TypeOK, OpenCase, LockPending, LockFinalized, Leave, Return
<1>3. TypeOK'
  BY TypeStep DEF IInv, Next, ReviewStep
<1>4. CaseForReview' /\ CheckRow' /\ AnnouncedAfter'
  BY <1>1 DEF IInv, CaseForReview, CheckRow, AnnouncedAfter
<1>5. AnnouncedOnce' /\ AnnouncementIsInForce' /\ OneRequestPerKey'
  BY <1>1 DEF IInv, AnnouncedOnce, AnnouncementIsInForce, InForce, OneRequestPerKey
<1>6. AnswerRow' /\ SettledRow' /\ RetryLearnsRuling'
  BY <1>1 DEF IInv, AnswerRow, SettledRow, Stored, RetryLearnsRuling
<1>7. OneDispatcher'
  BY <1>1, <1>2 DEF IInv, TypeOK, OneDispatcher
<1>8. ReviewerRow'
  <2> SUFFICES ASSUME NEW q \in Reviewers, step'[q] # "idle"
               PROVE  /\ target'[q] \in Checks /\ ruling'[q] \in Rulings
                      /\ step'[q] = "writing" =>
                           lock'[target'[q]] = q /\ case'[target'[q]] = Pending
                      /\ step'[q] = "dispatching" =>
                           case'[target'[q]] = ruling'[q] /\ posts'[target'[q]] = <<>>
    BY DEF ReviewerRow
  <2>1. CASE q = r
    BY <1>1, <2>1, NameAssumption
       DEF IInv, TypeOK, ReviewerRow, OpenCase, LockPending, LockFinalized, Leave, Return
  <2>2. CASE q # r
    <3>1. step'[q] = step[q] /\ target'[q] = target[q] /\ ruling'[q] = ruling[q]
      BY <1>2, <2>2 DEF IInv, TypeOK
    <3>2. step[q] = "writing" => lock'[target[q]] = q
      BY <2>2, <3>1, NameAssumption
         DEF IInv, TypeOK, ReviewerRow, OpenCase, LockPending, LockIsFree, LockFinalized, Leave
    <3>3. QED
      BY <1>1, <3>1, <3>2 DEF IInv, ReviewerRow
  <2>3. QED
    BY <2>1, <2>2
<1>9. QED
  BY <1>3, <1>4, <1>5, <1>6, <1>7, <1>8 DEF IInv

\* A reviewer that commits: the lock kept every other ruling away from the case.
LEMMA CommitStep == ASSUME IInv, NEW r \in Reviewers, CommitRuling(r) PROVE IInv'
<1> USE DEF tables, checkVars, caseVars
<1> DEFINE c == target[r]
<1>1. /\ UNCHANGED <<decision, phase, verdict, reply, settled, target, ruling, posts>>
      /\ step[r] = "writing" /\ step' = [step EXCEPT ![r] = "dispatching"]
      /\ case' = [case EXCEPT ![c] = ruling[r]]
      /\ lock' = [lock EXCEPT ![c] = NoReviewer]
  BY DEF CommitRuling
<1>2. /\ c \in Checks /\ lock[c] = r /\ ruling[r] \in Rulings
      /\ case[c] = Pending /\ posts[c] = <<>> /\ decision[c] = "review"
  BY <1>1 DEF IInv, ReviewerRow, AnnouncedAfter, CaseForReview, Pending, NoRuling
<1>3. /\ Pending \notin Rulings /\ NoRuling \notin Rulings
      /\ case'[c] = ruling[r] /\ \A d \in Checks : d # c => case'[d] = case[d]
  BY <1>1, <1>2 DEF IInv, TypeOK, Rulings, Pending, NoRuling
<1>4. TypeOK'
  BY TypeStep DEF IInv, Next, ReviewStep
<1>5. CaseForReview' /\ CheckRow' /\ AnnouncedAfter'
  BY <1>1, <1>2, <1>3 DEF IInv, CaseForReview, CheckRow, AnnouncedAfter
<1>6. \A q \in Reviewers : q # r /\ step[q] \in {"writing", "dispatching"} => target[q] # c
  BY <1>2, <1>3 DEF IInv, ReviewerRow
<1>7. ReviewerRow' /\ OneDispatcher'
  BY <1>1, <1>2, <1>3, <1>6 DEF IInv, TypeOK, ReviewerRow, OneDispatcher
<1>8. AnnouncedOnce' /\ AnnouncementIsInForce' /\ OneRequestPerKey'
  BY <1>1, <1>2, <1>3 DEF IInv, AnnouncedOnce, AnnouncementIsInForce, InForce, OneRequestPerKey
<1>9. AnswerRow' /\ RetryLearnsRuling'
  BY <1>1 DEF IInv, AnswerRow, RetryLearnsRuling
<1>10. SettledRow'
  <2>1. \A s \in Checks : case[s] \in Rulings => case'[s] = case[s]
    BY <1>2, <1>3
  <2>2. QED
    BY <1>1, <2>1 DEF IInv, SettledRow, Stored
<1>11. QED
  BY <1>4, <1>5, <1>7, <1>8, <1>9, <1>10 DEF IInv

\* A reviewer that announces the ruling it has committed.
LEMMA PostRulingStep == ASSUME IInv, NEW r \in Reviewers, PostRuling(r) PROVE IInv'
<1> USE DEF tables, checkVars, caseVars
<1> DEFINE c == target[r]
<1>1. /\ UNCHANGED <<decision, case, lock, phase, verdict, reply, settled, target, ruling>>
      /\ step[r] = "dispatching" /\ step' = [step EXCEPT ![r] = "recording"]
      /\ posts' = [posts EXCEPT ![c] = Append(posts[c], RulingPayload(r))]
  BY DEF PostRuling
<1>2. /\ c \in Checks /\ ruling[r] \in Rulings
      /\ case[c] = ruling[r] /\ posts[c] = <<>> /\ decision[c] = "review"
  BY <1>1 DEF IInv, ReviewerRow, CaseForReview, Rulings, NoRuling
<1>3. /\ RulingPayload(r) \in Payloads /\ RulingPayload(r).decision \in Final
      /\ RulingPayload(r).decision = ruling[r].final
      /\ RulingPayload(r).status = ruling[r].status
  BY <1>2 DEF RulingPayload, Payloads, Rulings, Verdicts, Final
<1>4. /\ Len(posts'[c]) = 1 /\ posts'[c][1] = RulingPayload(r)
      /\ \A d \in Checks : d # c => posts'[d] = posts[d]
  BY <1>1, <1>2, <1>3, FirstOf DEF IInv, TypeOK
<1>5. TypeOK'
  BY TypeStep DEF IInv, Next, ReviewStep
<1>6. CaseForReview' /\ CheckRow' /\ OneRequestPerKey'
  BY <1>1 DEF IInv, CaseForReview, CheckRow, OneRequestPerKey
<1>7. ReviewerRow' /\ OneDispatcher'
  <2>1. \A q \in Reviewers : step'[q] = "dispatching" => step[q] = "dispatching" /\ target[q] # c
    BY <1>1 DEF IInv, TypeOK, OneDispatcher
  <2>2. QED
    BY <1>1, <1>2, <1>4, <2>1 DEF IInv, TypeOK, ReviewerRow, OneDispatcher
<1>8. AnnouncedAfter'
  BY <1>1, <1>2, <1>4 DEF IInv, AnnouncedAfter, Rulings, Pending
<1>9. AnnouncedOnce' /\ AnnouncementIsInForce'
  BY <1>1, <1>2, <1>3, <1>4 DEF IInv, AnnouncedOnce, AnnouncementIsInForce, InForce
<1>10. AnswerRow' /\ SettledRow' /\ RetryLearnsRuling'
  BY <1>1 DEF IInv, AnswerRow, SettledRow, Stored, RetryLearnsRuling
<1>11. QED
  BY <1>5, <1>6, <1>7, <1>8, <1>9, <1>10 DEF IInv

\* Every step keeps the invariant.
LEMMA InvStep == IInv /\ [Next]_vars => IInv'
<1> SUFFICES ASSUME IInv, [Next]_vars
             PROVE  IInv'
  OBVIOUS
<1>1. ASSUME NEW c \in Checks, CheckStep(c)
      PROVE  IInv'
  BY <1>1, ProgressStep, AnswerStep, SaveStep, PostDecisionStep DEF CheckStep
<1>2. ASSUME NEW r \in Reviewers, ReviewStep(r)
      PROVE  IInv'
  BY <1>2, ReviewerMoves, CommitStep, PostRulingStep DEF ReviewStep
<1>3. CASE UNCHANGED vars
  BY <1>3 DEF vars, tables, checkVars, caseVars, IInv, TypeOK, CaseForReview, CheckRow,
       ReviewerRow, OneDispatcher, AnnouncedAfter, AnnouncedOnce, AnnouncementIsInForce,
       InForce, OneRequestPerKey, AnswerRow, SettledRow, Stored, RetryLearnsRuling
<1>4. QED
  BY <1>1, <1>2, <1>3 DEF Next

-----------------------------------------------------------------------------
(***************************************************************************)
(* The theorems.                                                            *)
(***************************************************************************)

\* The inductive invariant holds in every reachable state.
THEOREM Invariance == Spec => []IInv
  BY InvInit, InvStep, PTL DEF Spec

\* Every variable keeps its type.
THEOREM TypeCorrect == Spec => []TypeOK
  BY Invariance, PTL DEF IInv

\* Any number of overlapping calls with one external_id leave one request in the
\* database, and all that are answered are answered with it and its decision.
THEOREM OneKeyOneAnswer == Spec => [](OneRequestPerKey /\ AnswersAgree)
<1>1. IInv => OneRequestPerKey /\ AnswersAgree
  <2> SUFFICES ASSUME IInv, NEW c \in Checks, NEW s \in Checks,
                      Key[c] # NoKey, Key[c] = Key[s],
                      reply[c] # NoAnswer, reply[s] # NoAnswer
               PROVE  /\ reply[c].request = reply[s].request
                      /\ reply[c].decision = reply[s].decision
    BY DEF IInv, AnswersAgree
  <2>1. \A d \in {c, s} : /\ reply[d].request \in Checks
                          /\ Key[reply[d].request] = Key[c]
                          /\ decision[reply[d].request] # "none"
                          /\ reply[d].decision = decision[reply[d].request]
    BY DEF IInv, TypeOK, Answers, AnswerRow
  <2>2. QED
    BY <2>1 DEF IInv, OneRequestPerKey
<1>2. QED
  BY <1>1, Invariance, PTL

\* A retry after the end of a review is answered with its ruling.
THEOREM RetriesLearnRulings == Spec => []RetryLearnsRuling
  BY Invariance, PTL DEF IInv

\* However many reviewers and calls race, a request is announced at most once by a
\* first attempt.
THEOREM OneAnnouncement == Spec => []AnnouncedOnce
  BY Invariance, PTL DEF IInv

\* What is announced is the decision and the review status that stay in force.
THEOREM Announcements == Spec => []AnnouncementIsInForce
  BY Invariance, PTL DEF IInv

-----------------------------------------------------------------------------
(***************************************************************************)
(* Refinement of DecisionContract.                                          *)
(***************************************************************************)

\* Every step is a step of the contract or changes nothing it can see.
LEMMA ContractStep == IInv /\ [Next]_vars => [Contract!Next]_(Contract!vars)
<1> SUFFICES ASSUME IInv, [Next]_vars
             PROVE  [Contract!Next]_(Contract!vars)
  OBVIOUS
<1> USE DEF tables, checkVars, caseVars
<1>1. ASSUME NEW c \in Checks, Save(c)
      PROVE  [Contract!Next]_(Contract!vars)
  <2>1. /\ decision[c] = "none" /\ case[c] = NoRuling /\ verdict[c] \in Verdicts
        /\ decision' = [decision EXCEPT ![c] = verdict[c]]
        /\ case' = [case EXCEPT ![c] = IF verdict[c] = "review" THEN Pending ELSE NoRuling]
        /\ posts' = posts
    BY <1>1 DEF IInv, CheckRow, CaseForReview, Save, Advance
  <2>2. /\ InForce(c) = "none" /\ InForce(c)' = verdict[c]
        /\ \A d \in Checks : d # c => InForce(d)' = InForce(d)
    BY <2>1 DEF IInv, TypeOK, InForce, Rulings, Pending, NoRuling
  <2>3. \A d \in Checks : Announced(d)' = Announced(d)
    BY <2>1 DEF Announced
  <2>4. Contract!Decide(c, verdict[c])
    BY <2>2, <2>3 DEF Contract!Decide
  <2>5. QED
    BY <2>1, <2>4 DEF Contract!Next, Contract!Final, Verdicts, Final
<1>2. ASSUME NEW r \in Reviewers, CommitRuling(r)
      PROVE  [Contract!Next]_(Contract!vars)
  <2>1. PICK c \in Checks : c = target[r]
    BY <1>2 DEF IInv, ReviewerRow, CommitRuling
  <2>2. /\ ruling[r] \in Rulings /\ case[c] = Pending
        /\ case' = [case EXCEPT ![c] = ruling[r]]
        /\ decision[c] = "review"
        /\ decision' = decision /\ posts' = posts
    BY <1>2, <2>1 DEF IInv, ReviewerRow, CaseForReview, CommitRuling, Pending, NoRuling
  <2>3. /\ InForce(c) = "review" /\ InForce(c)' = ruling[r].final
        /\ \A d \in Checks : d # c => InForce(d)' = InForce(d)
    BY <2>2 DEF IInv, TypeOK, InForce, Rulings, Pending
  <2>4. \A d \in Checks : Announced(d)' = Announced(d)
    BY <2>2 DEF Announced
  <2>5. Contract!Settle(c, ruling[r].final)
    BY <2>2, <2>3, <2>4 DEF Contract!Settle
  <2>6. QED
    BY <2>2, <2>5 DEF Contract!Next, Contract!Final, Rulings
<1>3. ASSUME NEW c \in Checks, UNCHANGED <<decision, case>>, posts[c] = <<>>,
             NEW p \in Payloads, p.decision = InForce(c), p.decision \in Final,
             posts' = [posts EXCEPT ![c] = Append(posts[c], p)]
      PROVE  [Contract!Next]_(Contract!vars)
  <2>1. /\ posts'[c] # <<>> /\ posts'[c][1] = p
        /\ \A d \in Checks : d # c => posts'[d] = posts[d]
    BY <1>3, FirstOf DEF IInv, TypeOK
  <2>2. /\ Announced(c) = "none" /\ Announced(c)' = InForce(c)
        /\ \A d \in Checks : d # c => Announced(d)' = Announced(d)
    BY <1>3, <2>1 DEF Announced
  <2>3. \A d \in Checks : InForce(d)' = InForce(d)
    BY <1>3 DEF InForce
  <2>4. Contract!Announce(c)
    BY <1>3, <2>2, <2>3 DEF Contract!Announce, Contract!Final, Final
  <2>5. QED
    BY <2>4 DEF Contract!Next
<1>4. ASSUME NEW c \in Checks, PostDecision(c)
      PROVE  [Contract!Next]_(Contract!vars)
  <2> DEFINE p == [decision |-> decision[c], status |-> "none"]
  <2>1. decision[c] \in Final /\ case[c] = NoRuling /\ posts[c] = <<>>
    BY <1>4 DEF IInv, PostDecision, Advance, CheckRow, CaseForReview, AnnouncedAfter,
                Verdicts, Final
  <2>2. p \in Payloads /\ p.decision = InForce(c) /\ p.decision \in Final
    BY <2>1 DEF Payloads, Verdicts, InForce, Rulings, NoRuling
  <2>3. QED
    BY <1>3, <1>4, <2>1, <2>2 DEF PostDecision
<1>5. ASSUME NEW r \in Reviewers, PostRuling(r)
      PROVE  [Contract!Next]_(Contract!vars)
  <2> DEFINE c == target[r]
  <2>1. c \in Checks /\ ruling[r] \in Rulings /\ case[c] = ruling[r] /\ posts[c] = <<>>
    BY <1>5 DEF IInv, PostRuling, ReviewerRow
  <2>2. /\ RulingPayload(r) \in Payloads
        /\ RulingPayload(r).decision = InForce(c) /\ RulingPayload(r).decision \in Final
    BY <2>1 DEF RulingPayload, Payloads, Rulings, Verdicts, Final, InForce
  <2>3. QED
    BY <1>3, <1>5, <2>1, <2>2 DEF PostRuling
<1>6. ASSUME UNCHANGED <<decision, case, posts>>
      PROVE  UNCHANGED Contract!vars
  BY <1>6 DEF Contract!vars, InForce, Announced
<1>7. ASSUME NEW c \in Checks, CheckStep(c)
      PROVE  [Contract!Next]_(Contract!vars)
  BY <1>1, <1>4, <1>6, <1>7 DEF CheckStep, Receive, Reuse, StartAnalysis, Decide,
       SaveConflicts, AnswerConflict, SkipPost, Finish, Fail
<1>8. ASSUME NEW r \in Reviewers, ReviewStep(r)
      PROVE  [Contract!Next]_(Contract!vars)
  BY <1>2, <1>5, <1>6, <1>8 DEF ReviewStep, OpenCase, LockPending, LockFinalized, Leave
<1>9. CASE UNCHANGED vars
  BY <1>6, <1>9 DEF vars
<1>10. QED
  BY <1>7, <1>8, <1>9 DEF Next

\* Calls and reviewers together keep the promise DecisionContract states.
THEOREM Refinement == Spec => ImplementsContract
<1>1. Init => Contract!Init
  BY DEF Init, Contract!Init, InForce, Announced, Rulings, NoRuling
<1>2. QED
  BY <1>1, ContractStep, Invariance, PTL DEF Spec, ImplementsContract, Contract!Spec

\* In particular an allow or a block never changes again, whoever races.
THEOREM DecisionsAreStable == Spec => DecisionInForceIsStable
<1>1. IInv /\ [Next]_vars =>
        [\A c \in Checks : InForce(c) \in Final => InForce(c)' = InForce(c)]_vars
  <2> SUFFICES ASSUME IInv, [Next]_vars, NEW c \in Checks, InForce(c) \in Final
               PROVE  InForce(c)' = InForce(c)
    OBVIOUS
  <2>1. [Contract!Next]_(Contract!vars)
    BY ContractStep
  <2> DEFINE force == [d \in Checks |-> InForce(d)]
  <2>2. force' = force => InForce(c)' = InForce(c)
    <3>1. force[c] = InForce(c) /\ force'[c] = InForce(c)'
      OBVIOUS
    <3>2. QED
      BY <3>1
  <2>3. ASSUME NEW d \in Checks, NEW v,
               force[d] \in {"none", "review"}, force' = [force EXCEPT ![d] = v]
        PROVE  InForce(c)' = InForce(c)
    <3>1. d # c
      BY <2>3 DEF Final
    <3>2. force[c] = InForce(c) /\ force'[c] = InForce(c)'
      OBVIOUS
    <3>3. QED
      BY <2>3, <3>1, <3>2
  <2>4. ASSUME NEW d \in Checks, NEW v, Contract!Decide(d, v) \/ Contract!Settle(d, v)
        PROVE  InForce(c)' = InForce(c)
    BY <2>3, <2>4 DEF Contract!Decide, Contract!Settle
  <2>5. ASSUME NEW d \in Checks, Contract!Announce(d)
        PROVE  InForce(c)' = InForce(c)
    BY <2>2, <2>5 DEF Contract!Announce
  <2>6. QED
    BY <2>1, <2>2, <2>4, <2>5 DEF Contract!Next, Contract!vars
<1>2. QED
  BY <1>1, Invariance, PTL DEF Spec, DecisionInForceIsStable

-----------------------------------------------------------------------------
(***************************************************************************)
(* The gateway: each of its steps is a step of one part or of both, so what *)
(* is proved of a part holds of the whole.                                  *)
(***************************************************************************)
DP == INSTANCE WebhookDeliveryProofs WITH Deliveries <- Checks

LEMMA FlowStep == [GatewayNext]_gatewayVars => [Next]_vars
  BY DEF GatewayNext, gatewayVars, Next, CheckStep, ReviewStep, AnnounceDecision,
         EndAnnouncement, CheckAlone, AnnounceRuling, EndRuling, ReviewAlone, PostAgain,
         RetryAlone

LEMMA DeliveryStep == IInv /\ [GatewayNext]_gatewayVars => [D!Next]_(D!vars)
<1> SUFFICES ASSUME IInv, [GatewayNext]_gatewayVars
             PROVE  [D!Next]_(D!vars)
  OBVIOUS
<1> USE DEF deliveryVars, D!vars, D!rowVars, D!localVars
<1>1. ASSUME NEW c \in Checks, D!PostFirst(c) \/ EndFirst(c)
      PROVE  D!Next
  BY <1>1 DEF EndFirst, D!Next, D!FirstAttempt
<1>2. ASSUME NEW c \in Checks, AnnounceDecision(c) \/ EndAnnouncement(c)
      PROVE  D!Next
  BY <1>1, <1>2 DEF AnnounceDecision, EndAnnouncement
<1>3. ASSUME NEW r \in Reviewers, AnnounceRuling(r) \/ EndRuling(r)
      PROVE  D!Next
  <2>1. target[r] \in Checks
    BY <1>3 DEF IInv, ReviewerRow, AnnounceRuling, EndRuling, PostRuling
  <2>2. QED
    BY <1>1, <1>3, <2>1 DEF AnnounceRuling, EndRuling
<1>4. ASSUME NEW c \in Checks, CheckAlone(c)
      PROVE  UNCHANGED D!vars
  BY <1>4 DEF CheckAlone
<1>5. ASSUME NEW r \in Reviewers, ReviewAlone(r)
      PROVE  UNCHANGED D!vars
  BY <1>5 DEF ReviewAlone
<1>6. ASSUME NEW p \in D!Procs, PostAgain(p)
      PROVE  D!Next
  BY <1>6 DEF PostAgain, D!Next, D!Proceed
<1>7. CASE RetryAlone
  BY <1>7 DEF RetryAlone, D!Next, D!Proceed
<1>8. CASE UNCHANGED gatewayVars
  BY <1>8 DEF gatewayVars
<1>9. QED
  BY <1>2, <1>3, <1>4, <1>5, <1>6, <1>7, <1>8 DEF GatewayNext

\* Whoever runs ModerationFlow and WebhookDelivery together runs each of them: the
\* join adds no behaviour, and every theorem about a part is one about the gateway.
THEOREM GatewayIsBoth == GatewaySpec => Spec /\ D!Spec
<1>1. GatewaySpec => Spec
  <2>1. GatewayInit => Init
    BY DEF GatewayInit
  <2>2. QED
    BY <2>1, FlowStep, PTL DEF GatewaySpec, Spec
<1>2. GatewayInit => D!Init
  BY DEF GatewayInit
<1>3. QED
  BY <1>1, <1>2, DeliveryStep, Invariance, PTL DEF GatewaySpec, D!Spec

-----------------------------------------------------------------------------
(***************************************************************************)
(* The hand-over.  It relates a part's state to the other's, so neither     *)
(* invariant says it.                                                       *)
(***************************************************************************)

\* What the proof takes from the invariant of WebhookDelivery.
Rows ==
  /\ D!TypeOK
  /\ \A c \in Checks : first[c] # "over" => status[c] = "none"
  /\ \A p \in D!Procs :
       stage[p] = "reporting" /\ D!StatusContextLive(p) => status[job[p]] = "retrying"

\* A first attempt is made when the request is announced, and only then.
FirstWhenPosted == \A c \in Checks : first[c] = "none" <=> posts[c] = <<>>

\* Who records has posted, and nobody else records the same: neither a second
\* reviewer nor the call, whose decision needed no review.
OneRecorder ==
  /\ \A c \in Checks : phase[c] = "recording" => first[c] = "posted" /\ decision[c] # "review"
  /\ \A r \in Reviewers : step[r] = "recording" =>
       /\ first[target[r]] = "posted"
       /\ case[target[r]] \in Rulings
       /\ \A q \in Reviewers : step[q] = "recording" /\ target[q] = target[r] => q = r

\* Callbacks have said what the first one said, which is also what is stored.
OneMessage ==
  /\ received = [c \in Checks |-> IF posts[c] = <<>> THEN {} ELSE {posts[c][1]}]
  /\ payload \in [Checks -> Payloads \cup {NoPayload}]
  /\ \A c \in Checks : status[c] # "none" => payload[c] = posts[c][1]

\* Only rows that exist are listed and retried.
RetriesOfRows ==
  /\ \A w \in Workers : \A c \in batch[w] : status[c] # "none"
  /\ \A p \in D!Procs : stage[p] # "idle" => status[job[p]] # "none"

Handover == FirstWhenPosted /\ OneRecorder /\ OneMessage /\ RetriesOfRows

LEMMA RowsOfDelivery == DP!IInv => Rows
  BY DEF DP!IInv, DP!TypeOK, DP!NoRowBeforeFirst, DP!LiveClaim, DP!Holds, DP!StatusContextLive,
         DP!Procs, DP!Outcomes, DP!Stages, Rows, D!TypeOK, D!StatusContextLive, D!Procs,
         D!Outcomes, D!Stages

LEMMA SameDelivery == D!Spec <=> DP!Spec
<1> USE DEF D!rowVars, DP!rowVars, D!localVars, DP!localVars, D!Procs, DP!Procs,
            D!Outcomes, DP!Outcomes
<1>1. D!Init <=> DP!Init
  BY DEF D!Init, DP!Init
<1>2. \A c \in Checks : D!FirstAttempt(c) <=> DP!FirstAttempt(c)
  BY DEF D!FirstAttempt, DP!FirstAttempt, D!PostFirst, DP!PostFirst, D!RecordFirst,
         DP!RecordFirst, D!LoseFirst, DP!LoseFirst
<1>3. \A w \in Workers : D!List(w) <=> DP!List(w)
  <2>1. \A c : D!Retryable(c) <=> DP!Retryable(c)
    BY DEF D!Retryable, DP!Retryable, D!Stale, DP!Stale
  <2>2. \A S : D!Cardinality(S) = DP!Cardinality(S)
    BY DEF D!Cardinality, DP!Cardinality
  <2>3. QED
    BY <2>1, <2>2 DEF D!List, DP!List
<1>4. \A w \in Workers : D!BeginAutomatic(w) <=> DP!BeginAutomatic(w)
  BY DEF D!BeginAutomatic, DP!BeginAutomatic, D!Begin, DP!Begin
<1>5. \A o \in Operators : D!BeginManual(o) <=> DP!BeginManual(o)
  BY DEF D!BeginManual, DP!BeginManual, D!Begin, DP!Begin
<1>6. \A p \in D!Procs : D!Proceed(p) <=> DP!Proceed(p)
  <2> TAKE p \in D!Procs
  <2>1. D!Claim(p) <=> DP!Claim(p)
    BY DEF D!Claim, DP!Claim, D!Claimable, DP!Claimable, D!Stale, DP!Stale,
           D!CountedAttempts, DP!CountedAttempts
  <2>2. D!ClaimConflict(p) <=> DP!ClaimConflict(p)
    BY DEF D!ClaimConflict, DP!ClaimConflict, D!Claimable, DP!Claimable, D!Stale, DP!Stale,
           D!Release, DP!Release
  <2>3. (D!ReadBack(p) <=> DP!ReadBack(p)) /\ (D!LookupFails(p) <=> DP!LookupFails(p))
    BY DEF D!ReadBack, DP!ReadBack, D!LookupFails, DP!LookupFails
  <2>4. \A result \in D!Outcomes : D!Post(p, result) <=> DP!Post(p, result)
    BY DEF D!Post, DP!Post
  <2>5. (D!Report(p) <=> DP!Report(p)) /\ (D!Abandon(p) <=> DP!Abandon(p))
    BY DEF D!Report, DP!Report, D!Abandon, DP!Abandon, D!StatusContextLive,
           DP!StatusContextLive, D!Release, DP!Release
  <2>6. QED
    BY <2>1, <2>2, <2>3, <2>4, <2>5 DEF D!Proceed, DP!Proceed
<1>7. \A p \in D!Procs : D!Crash(p) <=> DP!Crash(p)
  BY DEF D!Crash, DP!Crash, D!Release, DP!Release
<1>8. D!Tick <=> DP!Tick
  BY DEF D!Tick, DP!Tick, D!AgeCap, DP!AgeCap, D!StatusContextLive, DP!StatusContextLive
<1>9. D!Next <=> DP!Next
  BY <1>2, <1>3, <1>4, <1>5, <1>6, <1>7, <1>8 DEF D!Next, DP!Next
<1>10. QED
  BY <1>1, <1>9, PTL DEF D!Spec, DP!Spec, D!vars, DP!vars

LEMMA RowsHold == GatewaySpec => [](IInv /\ Rows)
<1>1. D!ConfigAssumption /\ D!ProcessAssumption /\ D!TimingAssumption
  BY GatewayAssumption
<1>2. D!Spec => []DP!IInv
  BY <1>1, SameDelivery, DP!Invariance
     DEF D!ConfigAssumption, D!ProcessAssumption, D!TimingAssumption
<1>3. QED
  BY <1>2, RowsOfDelivery, GatewayIsBoth, Invariance, PTL

LEMMA HandoverInit == GatewayInit => Handover
  BY DEF GatewayInit, Init, D!Init, Handover, FirstWhenPosted, OneRecorder, OneMessage,
         RetriesOfRows

\* A first callback is made of a request nobody has announced or is announcing.
LEMMA PostStep ==
  ASSUME IInv, Rows, Handover, NEW c \in Checks, NEW p \in Payloads,
         D!PostFirst(c), Says(c, p), posts[c] = <<>>,
         posts' = [posts EXCEPT ![c] = Append(posts[c], p)],
         UNCHANGED payload
  PROVE  /\ FirstWhenPosted' /\ OneMessage' /\ RetriesOfRows'
         /\ first'[c] = "posted"
         /\ \A d \in Checks : d # c => first'[d] = first[d]
         /\ \A r \in Reviewers : step[r] = "recording" => target[r] # c
         /\ phase[c] # "recording"
<1>1. /\ posts'[c] # <<>> /\ posts'[c][1] = p
      /\ \A d \in Checks : d # c => posts'[d] = posts[d]
  BY FirstOf DEF IInv, TypeOK
<1>2. /\ first[c] = "none" /\ first'[c] = "posted"
      /\ \A d \in Checks : d # c => first'[d] = first[d]
      /\ UNCHANGED <<status, batch, stage, job>>
  BY DEF D!PostFirst, D!rowVars, D!localVars, Rows, D!TypeOK
<1>3. FirstWhenPosted'
  BY <1>1, <1>2 DEF Handover, FirstWhenPosted
<1>4. status[c] = "none"
  BY <1>2 DEF Rows
<1>5. OneMessage'
  <2>1. received' = [d \in Checks |-> IF posts'[d] = <<>> THEN {} ELSE {posts'[d][1]}]
    <3>1. received[c] = {} /\ received' = [received EXCEPT ![c] = {p}]
      BY DEF Says, Handover, OneMessage
    <3>2. \A d \in Checks :
            received'[d] = IF posts'[d] = <<>> THEN {} ELSE {posts'[d][1]}
      BY <1>1, <3>1 DEF Handover, OneMessage
    <3>3. QED
      BY <3>1, <3>2 DEF Handover, OneMessage
  <2>2. QED
    BY <1>1, <1>2, <1>4, <2>1 DEF Handover, OneMessage
<1>6. RetriesOfRows'
  BY <1>2 DEF Handover, RetriesOfRows
<1>7. QED
  BY <1>2, <1>3, <1>5, <1>6 DEF Handover, OneRecorder

LEMMA AnnounceDecisionStep ==
  ASSUME IInv, Rows, Handover, NEW c \in Checks, AnnounceDecision(c)
  PROVE  Handover'
<1> DEFINE p == [decision |-> decision[c], status |-> "none"]
<1>1. decision[c] \in Final /\ posts[c] = <<>> /\ case[c] = NoRuling
  BY DEF AnnounceDecision, PostDecision, Advance, IInv, CheckRow, CaseForReview,
         AnnouncedAfter, Verdicts, Final
<1>2. p \in Payloads
  BY <1>1 DEF Payloads, Verdicts
<1>3. /\ FirstWhenPosted' /\ OneMessage' /\ RetriesOfRows'
      /\ first'[c] = "posted"
      /\ \A d \in Checks : d # c => first'[d] = first[d]
      /\ \A r \in Reviewers : step[r] = "recording" => target[r] # c
  BY <1>1, <1>2, PostStep DEF AnnounceDecision, PostDecision
<1>4. OneRecorder'
  <2>1. /\ UNCHANGED <<decision, case, step, target>>
        /\ phase' = [phase EXCEPT ![c] = "recording"]
    BY DEF AnnounceDecision, PostDecision, Advance, tables, caseVars
  <2>2. /\ decision[c] # "review"
        /\ \A d \in Checks : d # c => phase'[d] = phase[d]
    BY <1>1, <2>1 DEF IInv, TypeOK, Final
  <2>3. \A q \in Reviewers : step[q] = "recording" => target[q] \in Checks
    BY DEF IInv, ReviewerRow
  <2>4. QED
    BY <1>3, <2>1, <2>2, <2>3 DEF Handover, OneRecorder
<1>5. QED
  BY <1>3, <1>4 DEF Handover

LEMMA AnnounceRulingStep ==
  ASSUME IInv, Rows, Handover, NEW r \in Reviewers, AnnounceRuling(r)
  PROVE  Handover'
<1> DEFINE c == target[r]
<1>1. /\ c \in Checks /\ ruling[r] \in Rulings /\ case[c] = ruling[r] /\ posts[c] = <<>>
  BY DEF AnnounceRuling, PostRuling, IInv, ReviewerRow
<1>2. RulingPayload(r) \in Payloads
  BY <1>1 DEF RulingPayload, Payloads, Rulings, Verdicts, Final
<1>3. /\ FirstWhenPosted' /\ OneMessage' /\ RetriesOfRows'
      /\ first'[c] = "posted"
      /\ \A d \in Checks : d # c => first'[d] = first[d]
      /\ \A q \in Reviewers : step[q] = "recording" => target[q] # c
      /\ phase[c] # "recording"
  BY <1>1, <1>2, PostStep DEF AnnounceRuling, PostRuling
<1>4. OneRecorder'
  <2>1. /\ UNCHANGED <<decision, case, phase, target>>
        /\ step' = [step EXCEPT ![r] = "recording"]
    BY DEF AnnounceRuling, PostRuling, tables, checkVars
  <2>2. \A q \in Reviewers : q # r => step'[q] = step[q]
    BY <2>1 DEF IInv, TypeOK
  <2>3. \A q \in Reviewers : step[q] = "recording" => target[q] \in Checks
    BY DEF IInv, ReviewerRow
  <2>4. QED
    BY <1>1, <1>3, <2>1, <2>2, <2>3 DEF Handover, OneRecorder
<1>5. QED
  BY <1>3, <1>4 DEF Handover

\* What is recorded is what was posted, or nothing is.
LEMMA RecordStep ==
  ASSUME IInv, Rows, Handover, NEW c \in Checks, first[c] = "posted", EndFirst(c),
         UNCHANGED posts
  PROVE  /\ FirstWhenPosted' /\ OneMessage' /\ RetriesOfRows'
         /\ \A d \in Checks : d # c => first'[d] = first[d]
<1>1. /\ first' = [first EXCEPT ![c] = "over"]
      /\ UNCHANGED <<batch, stage, job, received>>
      /\ \A d \in Checks : d # c => status'[d] = status[d] /\ payload'[d] = payload[d]
      /\ \A d \in Checks : status[d] # "none" => status'[d] # "none"
  BY DEF EndFirst, D!RecordFirst, D!LoseFirst, D!rowVars, D!localVars, D!Outcomes, Rows,
         D!TypeOK, Handover, OneMessage
<1>2. posts[c] # <<>> /\ posts[c][Len(posts[c])] = posts[c][1] /\ posts[c][1] \in Payloads
  <2>1. posts[c] # <<>> /\ posts[c] \in Seq(Payloads) /\ Len(posts[c]) <= 1
    BY DEF Handover, FirstWhenPosted, IInv, TypeOK, AnnouncedOnce
  <2>2. QED
    BY <2>1
<1>3. /\ payload' \in [Checks -> Payloads \cup {NoPayload}]
      /\ status'[c] # "none" => payload'[c] = posts[c][1]
  BY <1>2 DEF EndFirst, D!LoseFirst, D!rowVars, Rows, Handover, OneMessage
<1>4. FirstWhenPosted'
  BY <1>1 DEF Handover, FirstWhenPosted, Rows, D!TypeOK
<1>5. OneMessage'
  BY <1>1, <1>3 DEF Handover, OneMessage
<1>6. RetriesOfRows'
  BY <1>1 DEF Handover, RetriesOfRows, Rows, D!TypeOK, D!Procs
<1>7. QED
  BY <1>1, <1>4, <1>5, <1>6 DEF Rows, D!TypeOK

LEMMA EndStep ==
  ASSUME IInv, Rows, Handover,
         \/ \E c \in Checks : EndAnnouncement(c)
         \/ \E r \in Reviewers : EndRuling(r)
  PROVE  Handover'
<1>1. ASSUME NEW c \in Checks, EndAnnouncement(c)
      PROVE  Handover'
  <2>1. /\ first[c] = "posted" /\ case[c] = NoRuling /\ EndFirst(c)
        /\ UNCHANGED <<posts, decision, case, step, target>>
        /\ phase[c] = "recording" /\ phase'[c] # "recording"
        /\ \A d \in Checks : d # c => phase'[d] = phase[d]
    BY <1>1 DEF EndAnnouncement, Finish, Fail, Answer, tables, caseVars, IInv, TypeOK,
                CaseForReview, Handover, OneRecorder
  <2>2. /\ FirstWhenPosted' /\ OneMessage' /\ RetriesOfRows'
        /\ \A d \in Checks : d # c => first'[d] = first[d]
    BY <2>1, RecordStep
  <2>3. OneRecorder'
    BY <2>1, <2>2 DEF Handover, OneRecorder, IInv, ReviewerRow, Rulings, NoRuling
  <2>4. QED
    BY <2>2, <2>3 DEF Handover
<1>2. ASSUME NEW r \in Reviewers, EndRuling(r)
      PROVE  Handover'
  <2>1. /\ target[r] \in Checks /\ first[target[r]] = "posted" /\ EndFirst(target[r])
        /\ UNCHANGED <<posts, decision, case, phase>>
        /\ step[r] = "recording" /\ step'[r] # "recording"
        /\ case[target[r]] \in Rulings
        /\ \A q \in Reviewers : q # r => step'[q] = step[q] /\ target'[q] = target[q]
    BY <1>2 DEF EndRuling, Leave, Return, tables, checkVars, IInv, TypeOK, ReviewerRow,
                Handover, OneRecorder
  <2>2. /\ FirstWhenPosted' /\ OneMessage' /\ RetriesOfRows'
        /\ \A d \in Checks : d # target[r] => first'[d] = first[d]
    BY <2>1, RecordStep
  <2>3. phase[target[r]] # "recording"
    BY <2>1 DEF Handover, OneRecorder, IInv, CaseForReview, Rulings, NoRuling
  <2>4. OneRecorder'
    BY <2>1, <2>2, <2>3 DEF Handover, OneRecorder, IInv, ReviewerRow
  <2>5. QED
    BY <2>2, <2>4 DEF Handover
<1>3. QED
  BY <1>1, <1>2

\* Nothing else that a call or a reviewer does concerns a recorder.
LEMMA AloneStep ==
  ASSUME IInv, Handover,
         \/ \E c \in Checks : CheckAlone(c)
         \/ \E r \in Reviewers : ReviewAlone(r)
  PROVE  Handover'
<1> USE DEF tables, checkVars, caseVars
<1>1. UNCHANGED <<first, status, batch, stage, job, payload, received>>
  BY DEF CheckAlone, ReviewAlone, deliveryVars
<1>2. ASSUME UNCHANGED posts
      PROVE  FirstWhenPosted' /\ OneMessage' /\ RetriesOfRows'
  BY <1>1, <1>2 DEF Handover, FirstWhenPosted, OneMessage, RetriesOfRows
<1>3. ASSUME NEW c \in Checks, CheckAlone(c)
      PROVE  Handover'
  <2>1. /\ UNCHANGED <<posts, step, target>>
        /\ phase'[c] # "recording"
        /\ \A d \in Checks : d # c => phase'[d] = phase[d] /\ decision'[d] = decision[d]
    BY <1>3 DEF CheckAlone, CheckStep, Receive, Reuse, StartAnalysis, Decide, Save,
         SaveConflicts, AnswerConflict, PostDecision, SkipPost, Finish, Fail, Answer, Advance,
         IInv, TypeOK
  <2>2. \A d \in Checks : case[d] \in Rulings => case'[d] = case[d]
    BY <1>3 DEF CheckAlone, CheckStep, Receive, Reuse, StartAnalysis, Decide, Save,
         SaveConflicts, AnswerConflict, PostDecision, SkipPost, Finish, Fail, Advance,
         IInv, TypeOK, CheckRow, CaseForReview, Rulings, NoRuling
  <2>3. OneRecorder'
    BY <1>1, <2>1, <2>2 DEF Handover, OneRecorder, IInv, ReviewerRow
  <2>4. QED
    BY <1>2, <2>1, <2>3 DEF Handover
<1>4. ASSUME NEW r \in Reviewers, ReviewAlone(r)
      PROVE  Handover'
  <2>1. /\ UNCHANGED <<posts, phase, decision>>
        /\ step'[r] # "recording"
        /\ \A q \in Reviewers : q # r => step'[q] = step[q] /\ target'[q] = target[q]
    BY <1>4 DEF ReviewAlone, ReviewStep, OpenCase, LockPending, LockFinalized, CommitRuling,
         PostRuling, Leave, Return, IInv, TypeOK
  <2>2. \A d \in Checks : case[d] \in Rulings => case'[d] = case[d]
    BY <1>4 DEF ReviewAlone, ReviewStep, OpenCase, LockPending, LockFinalized, CommitRuling,
         PostRuling, Leave, IInv, TypeOK, ReviewerRow, Rulings, Pending
  <2>3. OneRecorder'
    BY <1>1, <2>1, <2>2 DEF Handover, OneRecorder, IInv, ReviewerRow
  <2>4. QED
    BY <1>2, <2>1, <2>3 DEF Handover
<1>5. QED
  BY <1>3, <1>4

\* A row, once there, is there for good, and no retry makes one.
LEMMA RowsStay ==
  ASSUME Rows, Handover, RetryAlone
  PROVE  /\ UNCHANGED first
         /\ \A c \in Checks : status'[c] = "none" <=> status[c] = "none"
<1>1. ASSUME NEW p \in D!Procs,
             \/ D!ClaimConflict(p) \/ D!ReadBack(p) \/ D!LookupFails(p)
             \/ D!Abandon(p) \/ D!Crash(p)
      PROVE  UNCHANGED <<first, status>>
  BY <1>1 DEF D!ClaimConflict, D!ReadBack, D!LookupFails, D!Abandon, D!Crash, D!rowVars
<1>2. ASSUME \/ \E w \in Workers : D!List(w) \/ D!BeginAutomatic(w)
             \/ \E o \in Operators : D!BeginManual(o)
             \/ D!Tick
      PROVE  UNCHANGED <<first, status>>
  BY <1>2 DEF D!List, D!BeginAutomatic, D!BeginManual, D!Begin, D!Tick, D!rowVars
<1>3. ASSUME NEW p \in D!Procs, D!Claim(p)
      PROVE  /\ UNCHANGED first
             /\ \A c \in Checks : status'[c] = "none" <=> status[c] = "none"
  BY <1>3 DEF D!Claim, D!Claimable, Rows, D!TypeOK
<1>4. ASSUME NEW p \in D!Procs, D!Report(p)
      PROVE  /\ UNCHANGED first
             /\ \A c \in Checks : status'[c] = "none" <=> status[c] = "none"
  <2>1. outcome[p] # "none" /\ status[job[p]] = "retrying" /\ UNCHANGED first
    BY <1>4 DEF D!Report, Rows, D!TypeOK, D!Outcomes
  <2>2. QED
    BY <1>4, <2>1 DEF D!Report, Rows, D!TypeOK
<1>5. QED
  BY <1>1, <1>2, <1>3, <1>4 DEF RetryAlone

LEMMA RetryStep == ASSUME Rows, Handover, RetryAlone PROVE Handover'
<1>1. /\ UNCHANGED <<first, vars, payload, received>>
      /\ \A c \in Checks : status'[c] = "none" <=> status[c] = "none"
  BY RowsStay DEF RetryAlone
<1>2. FirstWhenPosted' /\ OneRecorder' /\ OneMessage'
  BY <1>1 DEF Handover, FirstWhenPosted, OneRecorder, OneMessage, vars, tables, checkVars,
              caseVars
<1>3. RetriesOfRows'
  <2>1. ASSUME NEW w \in Workers, NEW c \in Checks, c \in batch'[w], c \notin batch[w]
        PROVE  status[c] # "none"
    BY <2>1 DEF RetryAlone, D!List, D!Retryable, D!BeginAutomatic, D!BeginManual, D!Begin,
         D!Claim, D!ClaimConflict, D!ReadBack, D!LookupFails, D!Report, D!Abandon, D!Crash,
         D!Tick, D!localVars, Rows, D!TypeOK
  <2>2. ASSUME NEW p \in D!Procs, stage'[p] # "idle"
        PROVE  status[job'[p]] # "none" /\ job'[p] \in Checks
    BY <2>2 DEF RetryAlone, D!List, D!BeginAutomatic, D!BeginManual, D!Begin, D!Claim,
         D!ClaimConflict, D!ReadBack, D!LookupFails, D!Report, D!Abandon, D!Crash, D!Release,
         D!Tick, D!localVars, D!Procs, Rows, D!TypeOK, Handover, RetriesOfRows
  <2>3. \A w \in Workers : batch'[w] \subseteq Checks
    BY DEF RetryAlone, D!List, D!BeginAutomatic, D!BeginManual, D!Begin, D!Claim,
         D!ClaimConflict, D!ReadBack, D!LookupFails, D!Report, D!Abandon, D!Crash, D!Tick,
         D!localVars, Rows, D!TypeOK
  <2>4. QED
    BY <1>1, <2>1, <2>2, <2>3 DEF RetriesOfRows, Handover
<1>4. QED
  BY <1>2, <1>3 DEF Handover

\* A retry says again what has been said.
LEMMA PostAgainStep ==
  ASSUME IInv, Rows, Handover, NEW p \in D!Procs, PostAgain(p)
  PROVE  /\ Handover'
         /\ job[p] \in Checks /\ posts[job[p]] # <<>>
         /\ UNCHANGED <<vars, status, received>>
<1> DEFINE c == job[p]
<1>1. /\ stage[p] = "lookup" /\ UNCHANGED <<vars, first, status, batch, job, payload>>
      /\ \A q \in D!Procs : q # p => stage'[q] = stage[q]
      /\ received' = [received EXCEPT ![c] = @ \cup {payload[c]}]
  BY DEF PostAgain, D!Post, Says, Repeats, D!rowVars, Rows, D!TypeOK
<1>2. c \in Checks /\ status[c] # "none" /\ posts[c] # <<>> /\ payload[c] = posts[c][1]
  BY <1>1 DEF Rows, D!TypeOK, Handover, RetriesOfRows, FirstWhenPosted, OneMessage
<1>3. received[c] = {payload[c]}
  BY <1>2 DEF Handover, OneMessage
<1>4. received' = received
  BY <1>1, <1>2, <1>3 DEF Handover, OneMessage
<1>5. FirstWhenPosted' /\ OneRecorder' /\ OneMessage'
  BY <1>1, <1>4 DEF Handover, FirstWhenPosted, OneRecorder, OneMessage, vars, tables,
                    checkVars, caseVars
<1>6. RetriesOfRows'
  BY <1>1, <1>2 DEF Handover, RetriesOfRows
<1>7. QED
  BY <1>1, <1>2, <1>4, <1>5, <1>6 DEF Handover

LEMMA HandoverStep == IInv /\ Rows /\ Handover /\ [GatewayNext]_gatewayVars => Handover'
<1> SUFFICES ASSUME IInv, Rows, Handover, [GatewayNext]_gatewayVars
             PROVE  Handover'
  OBVIOUS
<1>1. CASE UNCHANGED gatewayVars
  BY <1>1 DEF gatewayVars, deliveryVars, vars, tables, checkVars, caseVars, Handover,
              FirstWhenPosted, OneRecorder, OneMessage, RetriesOfRows
<1>2. QED
  BY <1>1, AnnounceDecisionStep, AnnounceRulingStep, EndStep, AloneStep, RetryStep,
     PostAgainStep DEF GatewayNext

LEMMA HandoverHolds == GatewaySpec => []Handover
  BY HandoverInit, HandoverStep, RowsHold, PTL DEF GatewaySpec

\* Calls and reviewers that are about to make or record a first attempt always find
\* the delivery where WebhookDelivery needs it to be: a request has one delivery.
THEOREM HandoversHold == GatewaySpec => []HandoversFit
<1>1. IInv /\ Handover => HandoversFit
  BY DEF IInv, CheckRow, ReviewerRow, AnnouncedAfter, Handover, FirstWhenPosted, OneRecorder,
         HandoversFit
<1>2. QED
  BY <1>1, HandoverHolds, RowsHold, PTL

-----------------------------------------------------------------------------
(***************************************************************************)
(* Refinement of GatewayContract.                                           *)
(***************************************************************************)

\* What is in force is a payload, and what has been posted is what is in force.
LEMMA PostedIsInForce ==
  ASSUME IInv, NEW c \in Checks
  PROVE  /\ InForce(c) \in Final =>
              ToSay(c) = [decision |-> InForce(c), status |-> case[c].status]
                /\ ToSay(c) \in Payloads /\ ToSay(c) # NoPayload
         /\ InForce(c) \notin Final => ToSay(c) = NoPayload
         /\ posts[c] # <<>> => ToSay(c) = posts[c][1] /\ ToSay(c) # NoPayload
<1>1. InForce(c) \in Final => case[c].status \in {"none", "approved", "rejected", "mistake"}
  <2>1. CASE case[c] \in Rulings
    BY <2>1 DEF Rulings
  <2>2. CASE case[c] \notin Rulings /\ InForce(c) \in Final
    <3>1. case[c] = NoRuling
      BY <2>2 DEF InForce, IInv, TypeOK, Cases, CaseForReview, Final, Pending
    <3>2. QED
      BY <3>1 DEF NoRuling
  <2>3. QED
    BY <2>1, <2>2
<1>2. InForce(c) \in Final =>
        ToSay(c) = [decision |-> InForce(c), status |-> case[c].status]
          /\ ToSay(c) \in Payloads /\ ToSay(c) # NoPayload
  BY <1>1, GatewayAssumption DEF ToSay, Payloads, Verdicts
<1>3. posts[c] # <<>> => ToSay(c) = posts[c][1] /\ ToSay(c) # NoPayload
  <2> SUFFICES ASSUME posts[c] # <<>>
               PROVE  ToSay(c) = posts[c][1] /\ ToSay(c) # NoPayload
    OBVIOUS
  <2>1. posts[c][1] \in Payloads
    BY DEF IInv, TypeOK
  <2>2. /\ posts[c][1].decision = InForce(c) /\ InForce(c) \in Final
        /\ posts[c][1].status = case[c].status
    BY DEF IInv, AnnouncementIsInForce
  <2>3. QED
    BY <1>2, <2>1, <2>2 DEF Payloads
<1>4. QED
  BY <1>2, <1>3 DEF ToSay

\* A request gets its ruling: its own row changes, and none is in force before.
LEMMA RuleStep ==
  ASSUME NEW c \in Checks, InForce(c) \notin Final, InForce(c)' \in Final,
         case'[c].status \in {"none", "approved", "rejected", "mistake"},
         \A d \in Checks : d # c => InForce(d)' = InForce(d) /\ case'[d] = case[d],
         UNCHANGED <<status, received>>
  PROVE  EndToEnd!Next
<1>1. ToSay(c) = NoPayload /\ ToSay(c)' \in Payloads
  BY DEF ToSay, Payloads, Verdicts
<1>2. \A d \in Checks : d # c => ToSay(d)' = ToSay(d)
  BY DEF ToSay
<1>3. EndToEnd!Rule(c)
  <2> DEFINE ruled == [d \in Checks |-> ToSay(d)]
  <2>1. ruled[c] = NoPayload /\ ruled' = [ruled EXCEPT ![c] = ToSay(c)']
    BY <1>1, <1>2
  <2>2. UNCHANGED <<received, {d \in Checks : status[d] = "succeeded"}>>
    OBVIOUS
  <2>3. QED
    BY <1>1, <2>1, <2>2 DEF EndToEnd!Rule
<1>4. QED
  BY <1>3 DEF EndToEnd!Next

\* A callback says what is in force.
LEMMA SayStep ==
  ASSUME IInv, NEW c \in Checks, NEW p, Says(c, p), p = ToSay(c), p # NoPayload,
         UNCHANGED <<decision, case, status>>
  PROVE  EndToEnd!Next
<1>1. UNCHANGED <<[d \in Checks |-> ToSay(d)], {d \in Checks : status[d] = "succeeded"}>>
  BY DEF ToSay, InForce
<1>2. EndToEnd!Say(c)
  BY <1>1 DEF Says, EndToEnd!Say
<1>3. QED
  BY <1>2 DEF EndToEnd!Next

\* A row becomes succeeded after a callback, and no other row does.
LEMMA ConfirmStep ==
  ASSUME Handover, NEW c \in Checks, posts[c] # <<>>,
         \A d \in Checks : (status'[d] = "succeeded") <=> (status[d] = "succeeded" \/ d = c),
         UNCHANGED <<decision, case, received>>
  PROVE  EndToEnd!Next
<1>1. UNCHANGED <<[d \in Checks |-> ToSay(d)], received>>
  BY DEF ToSay, InForce
<1>2. received[c] # {}
  BY DEF Handover, OneMessage
<1>3. {d \in Checks : status[d] = "succeeded"}' = {d \in Checks : status[d] = "succeeded"} \cup {c}
  OBVIOUS
<1>4. EndToEnd!Confirm(c)
  BY <1>1, <1>2, <1>3 DEF EndToEnd!Confirm
<1>5. QED
  BY <1>4 DEF EndToEnd!Next

LEMMA SameStep ==
  ASSUME \A c \in Checks : InForce(c)' = InForce(c) /\ (InForce(c) \in Final => case'[c] = case[c]),
         \A c \in Checks : (status'[c] = "succeeded") <=> (status[c] = "succeeded"),
         UNCHANGED received
  PROVE  UNCHANGED EndToEnd!vars
<1>1. \A c \in Checks : ToSay(c)' = ToSay(c)
  BY DEF ToSay
<1>2. {c \in Checks : status[c] = "succeeded"}' = {c \in Checks : status[c] = "succeeded"}
  OBVIOUS
<1>3. QED
  BY <1>1, <1>2 DEF EndToEnd!vars

LEMMA EndToEndFlow ==
  ASSUME IInv, Handover,
         \/ \E c \in Checks : CheckAlone(c) \/ AnnounceDecision(c)
         \/ \E r \in Reviewers : ReviewAlone(r) \/ AnnounceRuling(r)
  PROVE  [EndToEnd!Next]_(EndToEnd!vars)
<1> USE DEF tables, checkVars, caseVars
<1>1. UNCHANGED status
  BY DEF CheckAlone, AnnounceDecision, ReviewAlone, AnnounceRuling, deliveryVars, D!PostFirst,
         D!rowVars
<1>2. ASSUME NEW c \in Checks, AnnounceDecision(c)
      PROVE  EndToEnd!Next
  <2> DEFINE p == [decision |-> decision[c], status |-> "none"]
  <2>1. decision[c] \in Final /\ case[c] = NoRuling
    BY <1>2 DEF AnnounceDecision, PostDecision, Advance, IInv, CheckRow, CaseForReview,
         Verdicts, Final
  <2>2. p = ToSay(c) /\ p # NoPayload
    BY <2>1, PostedIsInForce DEF InForce, Rulings, NoRuling
  <2>3. QED
    BY <1>1, <1>2, <2>2, SayStep DEF AnnounceDecision, PostDecision
<1>3. ASSUME NEW r \in Reviewers, AnnounceRuling(r)
      PROVE  EndToEnd!Next
  <2>1. target[r] \in Checks /\ case[target[r]] = ruling[r] /\ ruling[r] \in Rulings
    BY <1>3 DEF AnnounceRuling, PostRuling, IInv, ReviewerRow
  <2>2. RulingPayload(r) = ToSay(target[r]) /\ RulingPayload(r) # NoPayload
    BY <2>1, PostedIsInForce DEF InForce, Rulings, RulingPayload, Final
  <2>3. QED
    BY <1>1, <1>3, <2>1, <2>2, SayStep DEF AnnounceRuling, PostRuling
<1>4. ASSUME NEW c \in Checks, CheckAlone(c), Save(c)
      PROVE  [EndToEnd!Next]_(EndToEnd!vars)
  <2>1. /\ decision[c] = "none" /\ case[c] = NoRuling /\ verdict[c] \in Verdicts
        /\ decision' = [decision EXCEPT ![c] = verdict[c]]
        /\ case' = [case EXCEPT ![c] = IF verdict[c] = "review" THEN Pending ELSE NoRuling]
        /\ UNCHANGED received
    BY <1>4 DEF IInv, CheckRow, CaseForReview, CheckAlone, Save, Advance
  <2>2. /\ InForce(c) = "none" /\ InForce(c)' = verdict[c]
        /\ \A d \in Checks : d # c => InForce(d)' = InForce(d) /\ case'[d] = case[d]
    BY <2>1 DEF IInv, TypeOK, InForce, Rulings, Pending, NoRuling
  <2>3. CASE verdict[c] = "review"
    <3>1. ToSay(c) = NoPayload /\ ToSay(c)' = NoPayload
      BY <2>2, <2>3 DEF ToSay, Final
    <3>2. \A d \in Checks : ToSay(d)' = ToSay(d)
      BY <2>2, <3>1 DEF ToSay
    <3>3. QED
      BY <1>1, <2>1, <3>2 DEF EndToEnd!vars
  <2>4. CASE verdict[c] \in Final
    <3>1. case'[c].status = "none"
      BY <2>1, <2>4 DEF IInv, TypeOK, NoRuling, Final
    <3>2. QED
      BY <1>1, <2>1, <2>2, <2>4, <3>1, RuleStep DEF Final
  <2>5. QED
    BY <2>1, <2>3, <2>4 DEF Verdicts
<1>5. ASSUME NEW r \in Reviewers, ReviewAlone(r), CommitRuling(r)
      PROVE  EndToEnd!Next
  <2>1. PICK c \in Checks : c = target[r]
    BY <1>5 DEF IInv, ReviewerRow, CommitRuling
  <2>2. /\ ruling[r] \in Rulings /\ case[c] = Pending /\ decision[c] = "review"
        /\ case' = [case EXCEPT ![c] = ruling[r]]
        /\ UNCHANGED <<decision, received>>
    BY <1>5, <2>1 DEF IInv, ReviewerRow, CaseForReview, CommitRuling, Pending, NoRuling,
                      ReviewAlone
  <2>3. /\ InForce(c) = "review" /\ InForce(c)' \in Final
        /\ \A d \in Checks : d # c => InForce(d)' = InForce(d) /\ case'[d] = case[d]
    BY <2>2 DEF IInv, TypeOK, InForce, Rulings, Pending, Final
  <2>4. QED
    <3>1. case'[c].status \in {"approved", "rejected", "mistake"}
      BY <2>2 DEF IInv, TypeOK, Rulings
    <3>2. QED
      BY <1>1, <2>2, <2>3, <3>1, RuleStep DEF Final
<1>6. ASSUME UNCHANGED <<decision, case, received>>
      PROVE  UNCHANGED EndToEnd!vars
  BY <1>1, <1>6, SameStep DEF InForce
<1>7. ASSUME NEW c \in Checks, CheckAlone(c)
      PROVE  [EndToEnd!Next]_(EndToEnd!vars)
  BY <1>4, <1>6, <1>7 DEF CheckAlone, CheckStep, Receive, Reuse, StartAnalysis, Decide,
       SaveConflicts, AnswerConflict, PostDecision, SkipPost, Finish, Fail
<1>8. ASSUME NEW r \in Reviewers, ReviewAlone(r)
      PROVE  [EndToEnd!Next]_(EndToEnd!vars)
  BY <1>5, <1>6, <1>8 DEF ReviewAlone, ReviewStep, OpenCase, LockPending, LockFinalized,
       PostRuling, Leave
<1>9. QED
  BY <1>2, <1>3, <1>7, <1>8

LEMMA EndToEndDelivery ==
  ASSUME IInv, Rows, Handover,
         \/ \E c \in Checks : EndAnnouncement(c)
         \/ \E r \in Reviewers : EndRuling(r)
         \/ \E p \in D!Procs : PostAgain(p)
         \/ RetryAlone
  PROVE  [EndToEnd!Next]_(EndToEnd!vars)
<1>1. UNCHANGED <<decision, case, received>>
  <2>1. ASSUME NEW p \in D!Procs, PostAgain(p)
        PROVE  UNCHANGED <<decision, case, received>>
    BY <2>1, PostAgainStep DEF vars, tables
  <2>2. QED
    BY <2>1 DEF EndAnnouncement, EndRuling, EndFirst, Finish, Fail, Leave, RetryAlone, vars,
                tables
<1>2. ASSUME \A d \in Checks : (status'[d] = "succeeded") <=> (status[d] = "succeeded")
      PROVE  UNCHANGED EndToEnd!vars
  BY <1>1, <1>2, SameStep DEF InForce
<1>3. ASSUME NEW c \in Checks, posts[c] # <<>>, status[c] # "succeeded",
             NEW result \in D!Outcomes, status' = [status EXCEPT ![c] = result]
      PROVE  [EndToEnd!Next]_(EndToEnd!vars)
  <2>1. CASE result = "succeeded"
    BY <1>1, <1>3, <2>1, ConfirmStep DEF Rows, D!TypeOK
  <2>2. CASE result = "failed"
    BY <1>2, <1>3, <2>2 DEF Rows, D!TypeOK
  <2>3. QED
    BY <1>3, <2>1, <2>2 DEF D!Outcomes
<1>4. ASSUME NEW c \in Checks, first[c] = "posted", EndFirst(c)
      PROVE  [EndToEnd!Next]_(EndToEnd!vars)
  <2>1. posts[c] # <<>> /\ status[c] = "none"
    BY <1>4 DEF Handover, FirstWhenPosted, Rows
  <2>2. QED
    BY <1>2, <1>3, <1>4, <2>1 DEF EndFirst, D!RecordFirst, D!LoseFirst, D!rowVars
<1>5. ASSUME NEW p \in D!Procs, D!Report(p)
      PROVE  [EndToEnd!Next]_(EndToEnd!vars)
  <2>1. /\ job[p] \in Checks /\ outcome[p] \in D!Outcomes /\ status[job[p]] = "retrying"
        /\ status' = [status EXCEPT ![job[p]] = outcome[p]]
    BY <1>5 DEF D!Report, Rows, D!TypeOK
  <2>2. posts[job[p]] # <<>>
    BY <2>1 DEF Rows, D!TypeOK, Handover, FirstWhenPosted
  <2>3. QED
    BY <1>3, <2>1, <2>2
<1>6. ASSUME NEW p \in D!Procs, D!Claim(p)
      PROVE  [EndToEnd!Next]_(EndToEnd!vars)
  BY <1>2, <1>6 DEF D!Claim, D!Claimable, Rows, D!TypeOK
<1>7. ASSUME NEW p \in D!Procs, PostAgain(p)
      PROVE  [EndToEnd!Next]_(EndToEnd!vars)
  BY <1>2, <1>7, PostAgainStep
<1>8. CASE \/ \E c \in Checks : EndAnnouncement(c)
           \/ \E r \in Reviewers : EndRuling(r)
  BY <1>4, <1>8 DEF EndAnnouncement, EndRuling, Handover, OneRecorder, IInv, ReviewerRow
<1>9. CASE RetryAlone
  BY <1>2, <1>5, <1>6, <1>9 DEF RetryAlone, D!List, D!BeginAutomatic, D!BeginManual, D!Begin,
     D!ClaimConflict, D!ReadBack, D!LookupFails, D!Abandon, D!Crash, D!Tick, D!rowVars
<1>10. QED
  BY <1>7, <1>8, <1>9

\* From the call of Check to the last retry of the last worker, with processes that die
\* at any point: a receiver is told the ruling of a request or nothing, and what it has
\* confirmed stays confirmed.
THEOREM EndToEndRefinement == GatewaySpec => ImplementsEndToEnd
<1>1. GatewayInit => EndToEnd!Init
  BY DEF GatewayInit, Init, D!Init, EndToEnd!Init, ToSay, InForce, Rulings, NoRuling, Final
<1>2. IInv /\ Rows /\ Handover /\ [GatewayNext]_gatewayVars =>
        [EndToEnd!Next]_(EndToEnd!vars)
  <2>1. UNCHANGED gatewayVars => UNCHANGED EndToEnd!vars
    BY SameStep DEF gatewayVars, deliveryVars, vars, tables, InForce
  <2>2. QED
    BY <2>1, EndToEndFlow, EndToEndDelivery DEF GatewayNext
<1>3. QED
  BY <1>1, <1>2, RowsHold, HandoverHolds, PTL
     DEF GatewaySpec, ImplementsEndToEnd, EndToEnd!Spec

=============================================================================
