------------------------ MODULE WebhookDeliveryProofs ------------------------
(***************************************************************************)
(* Theorems about WebhookDelivery for every number of deliveries, workers   *)
(* and operators, every attempt limit, and every timing that satisfies      *)
(* TimingAssumption.                                                        *)
(***************************************************************************)
EXTENDS WebhookDelivery, FiniteSetTheorems, TLAPS

(***************************************************************************)
(* The inductive invariant.  WriterHoldsRow speaks of a process about to    *)
(* write; to be inductive it must follow the process from its claim on, and *)
(* say how old the lease may be at each point.                              *)
(***************************************************************************)

\* p has claimed and not returned yet.
Claimant(p) == stage[p] \in {"claimed", "lookup", "reporting"}

\* The row is leased to the very attempt of p.
Holds(p) == status[job[p]] = "retrying" /\ attempts[job[p]] = mine[p]

\* Up to the read-back the lease is no older than p's reading of the clock.
FreshClaim ==
  \A p \in Procs :
    /\ stage[p] \in {"claiming", "claimed"} => timer[p] <= ClaimDelay
    /\ stage[p] = "claimed" => Holds(p) /\ age[job[p]] <= timer[p]

\* Later it is at most ClaimDelay older than p's status context.
LiveClaim ==
  \A p \in Procs :
    stage[p] \in {"lookup", "reporting"} /\ StatusContextLive(p) =>
      Holds(p) /\ age[job[p]] <= ClaimDelay + timer[p]

\* Attempt numbers identify claimants, and none is ahead of its row.
OwnNumber ==
  /\ \A p \in Procs : Claimant(p) => mine[p] <= attempts[job[p]]
  /\ \A p, q \in Procs :
       p # q /\ Claimant(p) /\ Claimant(q) /\ job[p] = job[q] => mine[p] # mine[q]

\* Until its first attempt is over, a delivery has no row.
NoRowBeforeFirst ==
  \A d \in Deliveries :
    /\ first[d] # "over" => status[d] = "none"
    /\ status[d] = "none" => attempts[d] = 0

IInv == TypeOK /\ FreshClaim /\ LiveClaim /\ OwnNumber /\ NoRowBeforeFirst

-----------------------------------------------------------------------------
(***************************************************************************)
(* Type correctness.                                                        *)
(***************************************************************************)

\* The types hold initially and every step keeps them.
LEMMA TypeInit == Init => TypeOK
  BY ConfigAssumption, ProcessAssumption, TimingAssumption
     DEF Init, TypeOK, Outcomes, Stages, AgeCap, Procs

LEMMA TypeStep == TypeOK /\ [Next]_vars => TypeOK'
<1> SUFFICES ASSUME TypeOK, [Next]_vars
             PROVE  TypeOK'
  OBVIOUS
<1> USE TimingAssumption DEF TypeOK, Outcomes, Stages, AgeCap, rowVars, localVars
<1>1. ASSUME NEW d \in Deliveries, FirstAttempt(d)
      PROVE  TypeOK'
  BY <1>1 DEF FirstAttempt, PostFirst, RecordFirst, LoseFirst
<1>2. ASSUME NEW w \in Workers, List(w)
      PROVE  TypeOK'
  BY <1>2 DEF List
<1>3. ASSUME NEW w \in Workers, BeginAutomatic(w)
      PROVE  TypeOK'
  BY <1>3 DEF BeginAutomatic, Begin, Procs
<1>4. ASSUME NEW o \in Operators, BeginManual(o)
      PROVE  TypeOK'
  BY <1>4 DEF BeginManual, Begin, Procs
<1>5. ASSUME NEW p \in Procs, Claim(p)
      PROVE  TypeOK'
  <2>1. /\ job[p] \in Deliveries /\ CountedAttempts(job[p]) \in Nat
    BY <1>5 DEF Claim, CountedAttempts
  <2>2. status' \in [Deliveries -> Outcomes \cup {"none", "retrying"}]
    BY <1>5, <2>1 DEF Claim
  <2>3. attempts' \in [Deliveries -> Nat] /\ mine' \in [Procs -> Nat]
    BY <1>5, <2>1 DEF Claim
  <2>4. QED
    BY <1>5, <2>1, <2>2, <2>3 DEF Claim
<1>6. ASSUME NEW p \in Procs,
             ClaimConflict(p) \/ Abandon(p) \/ Crash(p) \/ Report(p)
      PROVE  TypeOK'
  BY <1>6 DEF ClaimConflict, Abandon, Crash, Report, Release
<1>7. ASSUME NEW p \in Procs,
             ReadBack(p) \/ LookupFails(p) \/ \E result \in Outcomes : Post(p, result)
      PROVE  TypeOK'
  BY <1>7 DEF ReadBack, LookupFails, Post
<1>8. CASE Tick
  BY <1>8 DEF Tick
<1>9. CASE UNCHANGED vars
  BY <1>9 DEF vars
<1>10. QED
  BY <1>1, <1>2, <1>3, <1>4, <1>5, <1>6, <1>7, <1>8, <1>9 DEF Next, Proceed

\* Every variable keeps its type, whoever runs.
THEOREM TypeCorrect == Spec => []TypeOK
  BY TypeInit, TypeStep, PTL DEF Spec

-----------------------------------------------------------------------------
(***************************************************************************)
(* The invariant.  The steps that matter are Claim, which must not find     *)
(* another live claimant of the same row, Report, which must not disturb    *)
(* one, and Tick, which brings leases and contexts nearer to their ends.    *)
(***************************************************************************)

LEMMA InvInit == Init => IInv
  BY TypeInit, TimingAssumption
     DEF Init, IInv, FreshClaim, LiveClaim, OwnNumber, NoRowBeforeFirst, Claimant

\* A row that can be claimed is leased to no one who could still write: it is
\* failed, or its lease has run out, and with it every claimant's context.
LEMMA ClaimableIsFree ==
  ASSUME IInv, NEW p \in Procs, NEW q \in Procs, Claim(p),
         q # p, job[q] = job[p],
         stage[q] = "claimed" \/ (stage[q] \in {"lookup", "reporting"} /\ StatusContextLive(q))
  PROVE  FALSE
<1> USE TimingAssumption DEF IInv, TypeOK
<1>1. status[job[q]] = "retrying" /\ age[job[q]] <= Lease
  <2>1. CASE stage[q] = "claimed"
    BY <2>1 DEF FreshClaim, Holds
  <2>2. CASE stage[q] \in {"lookup", "reporting"} /\ StatusContextLive(q)
    BY <2>2 DEF LiveClaim, Holds, StatusContextLive
  <2>3. QED
    BY <2>1, <2>2
<1>2. status[job[p]] = "failed" \/ age[job[p]] > Lease + timer[p]
  BY DEF Claim, Claimable, Stale
<1>3. QED
  BY <1>1, <1>2 DEF Claim

\* Steps that change no row and only end a process's attempt.
LEMMA ReleaseStep ==
  ASSUME IInv, NEW p \in Procs, Release(p), UNCHANGED <<first, rowVars>>, TypeOK'
  PROVE  IInv'
<1> USE DEF IInv, TypeOK, Release, rowVars
<1>1. \A q \in Procs : q # p =>
        /\ stage'[q] = stage[q] /\ job'[q] = job[q]
        /\ timer'[q] = timer[q] /\ mine'[q] = mine[q]
  OBVIOUS
<1>2. stage'[p] = "idle"
  OBVIOUS
<1>3. FreshClaim' /\ LiveClaim'
  BY <1>1, <1>2 DEF FreshClaim, LiveClaim, Holds, StatusContextLive
<1>4. OwnNumber'
  BY <1>1, <1>2 DEF OwnNumber, Claimant
<1>5. NoRowBeforeFirst'
  BY DEF NoRowBeforeFirst
<1>6. QED
  BY <1>3, <1>4, <1>5

LEMMA InvStep == IInv /\ [Next]_vars => IInv'
<1> SUFFICES ASSUME IInv, [Next]_vars
             PROVE  IInv'
  OBVIOUS
<1> USE DEF IInv, rowVars, localVars
<1>0. TypeOK /\ TypeOK'
  BY TypeStep
<1>1. ASSUME NEW d \in Deliveries, FirstAttempt(d)
      PROVE  IInv'
  <2>1. CASE PostFirst(d) \/ LoseFirst(d)
    BY <1>0, <2>1
       DEF PostFirst, LoseFirst, TypeOK, FreshClaim, LiveClaim, OwnNumber, NoRowBeforeFirst,
           Holds, Claimant, StatusContextLive
  <2>2. ASSUME NEW result \in Outcomes, RecordFirst(d, result)
        PROVE  IInv'
    <3>1. status[d] = "none" /\ attempts[d] = 0
      BY <2>2 DEF RecordFirst, NoRowBeforeFirst
    <3>2. \A p \in Procs : Holds(p) => job[p] # d
      BY <3>1 DEF Holds
    <3>3. FreshClaim' /\ LiveClaim'
      BY <1>0, <2>2, <3>2
         DEF RecordFirst, TypeOK, FreshClaim, LiveClaim, Holds, StatusContextLive
    <3>4. OwnNumber'
      BY <1>0, <2>2, <3>1 DEF RecordFirst, TypeOK, OwnNumber, Claimant
    <3>5. NoRowBeforeFirst'
      BY <1>0, <2>2 DEF RecordFirst, TypeOK, NoRowBeforeFirst, Outcomes
    <3>6. QED
      BY <1>0, <3>3, <3>4, <3>5
  <2>3. QED
    BY <1>1, <2>1, <2>2 DEF FirstAttempt
<1>2. ASSUME NEW p \in Procs, NEW d \in Deliveries, Begin(p, d)
      PROVE  IInv'
  BY <1>0, <1>2, TimingAssumption
     DEF Begin, TypeOK, FreshClaim, LiveClaim, OwnNumber, NoRowBeforeFirst,
         Holds, Claimant, StatusContextLive
<1>3. ASSUME NEW p \in Procs, Claim(p)
      PROVE  IInv'
  <2> DEFINE d == job[p]
  <2>1. /\ d \in Deliveries /\ stage[p] = "claiming" /\ stage'[p] = "claimed"
        /\ status'[d] = "retrying" /\ attempts'[d] = attempts[d] + 1
        /\ mine'[p] = attempts[d] + 1 /\ age'[d] = timer[p]
        /\ job' = job /\ timer' = timer /\ first' = first
    BY <1>0, <1>3 DEF Claim, CountedAttempts, TypeOK
  <2>2. \A e \in Deliveries : e # d =>
          status'[e] = status[e] /\ attempts'[e] = attempts[e] /\ age'[e] = age[e]
    BY <1>0, <1>3 DEF Claim, TypeOK
  <2>3. \A q \in Procs : q # p => stage'[q] = stage[q] /\ mine'[q] = mine[q]
    BY <1>0, <1>3 DEF Claim, TypeOK
  <2>4. FreshClaim'
    <3> SUFFICES ASSUME NEW q \in Procs
                 PROVE  /\ stage'[q] \in {"claiming", "claimed"} => timer'[q] <= ClaimDelay
                        /\ stage'[q] = "claimed" => Holds(q)' /\ age'[job'[q]] <= timer'[q]
      BY DEF FreshClaim
    <3>1. CASE q = p
      BY <1>0, <2>1, <3>1 DEF FreshClaim, Holds, TypeOK
    <3>2. CASE q # p
      <4>1. stage[q] = "claimed" => job[q] # d
        BY <1>3, <3>2, ClaimableIsFree
      <4>2. QED
        BY <1>0, <2>1, <2>2, <2>3, <3>2, <4>1 DEF FreshClaim, Holds, TypeOK
    <3>3. QED
      BY <3>1, <3>2
  <2>5. LiveClaim'
    <3> SUFFICES ASSUME NEW q \in Procs,
                        stage'[q] \in {"lookup", "reporting"}, StatusContextLive(q)'
                 PROVE  Holds(q)' /\ age'[job'[q]] <= ClaimDelay + timer'[q]
      BY DEF LiveClaim
    <3>1. q # p /\ stage[q] \in {"lookup", "reporting"} /\ StatusContextLive(q)
      BY <2>1, <2>3 DEF StatusContextLive
    <3>2. job[q] # d
      BY <1>3, <3>1, ClaimableIsFree
    <3>3. QED
      BY <1>0, <2>1, <2>2, <2>3, <3>1, <3>2 DEF LiveClaim, Holds, TypeOK
  <2>6. OwnNumber'
    BY <1>0, <2>1, <2>2, <2>3 DEF OwnNumber, Claimant, TypeOK
  <2>7. NoRowBeforeFirst'
    <3>1. status[d] # "none"
      BY <1>3 DEF Claim, Claimable
    <3>2. QED
      BY <2>1, <2>2, <3>1 DEF NoRowBeforeFirst
  <2>8. QED
    BY <1>0, <2>4, <2>5, <2>6, <2>7
<1>4. ASSUME NEW p \in Procs, ClaimConflict(p) \/ Abandon(p) \/ Crash(p)
      PROVE  IInv'
  BY <1>0, <1>4, ReleaseStep DEF ClaimConflict, Abandon, Crash
<1>5. ASSUME NEW p \in Procs, ReadBack(p)
      PROVE  IInv'
  BY <1>0, <1>5, TimingAssumption
     DEF ReadBack, TypeOK, FreshClaim, LiveClaim, OwnNumber, NoRowBeforeFirst,
         Holds, Claimant, StatusContextLive
<1>6. ASSUME NEW p \in Procs,
             LookupFails(p) \/ \E result \in Outcomes : Post(p, result)
      PROVE  IInv'
  BY <1>0, <1>6
     DEF LookupFails, Post, TypeOK, FreshClaim, LiveClaim, OwnNumber, NoRowBeforeFirst,
         Holds, Claimant, StatusContextLive
<1>7. ASSUME NEW p \in Procs, Report(p)
      PROVE  IInv'
  <2> DEFINE d == job[p]
  <2>1. /\ d \in Deliveries /\ status[d] = "retrying" /\ attempts[d] = mine[p]
        /\ Claimant(p) /\ status'[d] \in Outcomes /\ stage'[p] = "idle"
        /\ attempts' = attempts /\ first' = first
    BY <1>0, <1>7 DEF Report, Release, TypeOK, LiveClaim, Holds, Claimant
  <2>2. \A q \in Procs : q # p =>
          /\ stage'[q] = stage[q] /\ job'[q] = job[q]
          /\ timer'[q] = timer[q] /\ mine'[q] = mine[q]
    BY <1>0, <1>7 DEF Report, Release, TypeOK
  <2>3. \A e \in Deliveries : e # d => status'[e] = status[e] /\ age'[e] = age[e]
    BY <1>0, <1>7 DEF Report, TypeOK
  <2>4. \A q \in Procs : q # p /\ Claimant(q) /\ Holds(q) => job[q] # d
    BY <2>1 DEF OwnNumber, Holds
  <2>5. FreshClaim' /\ LiveClaim'
    BY <1>0, <2>1, <2>2, <2>3, <2>4
       DEF FreshClaim, LiveClaim, Holds, Claimant, StatusContextLive, TypeOK
  <2>6. OwnNumber'
    BY <2>1, <2>2 DEF OwnNumber, Claimant
  <2>7. NoRowBeforeFirst'
    BY <1>0, <2>1, <2>3 DEF NoRowBeforeFirst, Outcomes
  <2>8. QED
    BY <1>0, <2>5, <2>6, <2>7
<1>8. CASE Tick
  <2>1. \A d \in Deliveries : age'[d] <= age[d] + 1
    BY <1>0, <1>8 DEF Tick, TypeOK
  <2>2. \A p \in Procs :
          /\ stage[p] \in {"claiming", "claimed"} =>
               timer'[p] = timer[p] + 1 /\ timer[p] < ClaimDelay
          /\ stage[p] \in {"lookup", "reporting"} /\ StatusContextLive(p)' =>
               timer'[p] = timer[p] + 1 /\ StatusContextLive(p)
    BY <1>0, <1>8, TimingAssumption DEF Tick, TypeOK, StatusContextLive
  <2>3. UNCHANGED <<first, status, attempts, stage, job, mine>>
    BY <1>8 DEF Tick
  <2>4. FreshClaim'
    BY <1>0, <2>1, <2>2, <2>3, TimingAssumption DEF FreshClaim, Holds, TypeOK
  <2>5. LiveClaim'
    BY <1>0, <2>1, <2>2, <2>3, TimingAssumption DEF LiveClaim, Holds, TypeOK
  <2>6. OwnNumber' /\ NoRowBeforeFirst'
    BY <2>3 DEF OwnNumber, NoRowBeforeFirst, Claimant
  <2>7. QED
    BY <1>0, <2>4, <2>5, <2>6
<1>9. ASSUME UNCHANGED vars \/ \E w \in Workers : List(w)
      PROVE  IInv'
  BY <1>0, <1>9
     DEF vars, List, FreshClaim, LiveClaim, OwnNumber, NoRowBeforeFirst,
         Holds, Claimant, StatusContextLive
<1>10. QED
  BY <1>1, <1>2, <1>3, <1>4, <1>5, <1>6, <1>7, <1>8, <1>9
     DEF Next, Proceed, Procs, BeginAutomatic, BeginManual, TypeOK

\* The invariant holds throughout.
THEOREM Invariance == Spec => []IInv
  BY InvInit, InvStep, PTL DEF Spec

\* A process that can still write an outcome holds the row it will write: the
\* unchecked UPDATE of UpdateWebhookDeliveryAttempt never hits the row of a later
\* attempt, for any timing with ClaimDelay + StatusTimeout <= Lease.
THEOREM WriterSafety == Spec => []WriterHoldsRow
<1>1. IInv => WriterHoldsRow
  BY DEF IInv, LiveClaim, Holds, WriterHoldsRow
<1>2. QED
  BY <1>1, Invariance, PTL

-----------------------------------------------------------------------------
(***************************************************************************)
(* The contract.  Only three actions touch what it speaks of.               *)
(***************************************************************************)

LEMMA ContractStep == IInv /\ [Next]_vars => [Contract!Next]_(Contract!vars)
<1> SUFFICES ASSUME IInv, [Next]_vars
             PROVE  [Contract!Next]_(Contract!vars)
  OBVIOUS
<1> USE DEF Contract!vars, rowVars, localVars
<1>1. ASSUME NEW d \in Deliveries, FirstAttempt(d)
      PROVE  [Contract!Next]_(Contract!vars)
  <2>1. CASE PostFirst(d) \/ LoseFirst(d)
    BY <2>1 DEF PostFirst, LoseFirst
  <2>2. ASSUME NEW result \in Outcomes, RecordFirst(d, result)
        PROVE  Contract!Next
    <3>1. Contract!RecordFirst(d, result)
      BY <2>2 DEF IInv, NoRowBeforeFirst, RecordFirst, Contract!RecordFirst
    <3>2. QED
      BY <3>1 DEF Contract!Next, Contract!Outcomes, Outcomes
  <2>3. QED
    BY <1>1, <2>1, <2>2 DEF FirstAttempt
<1>2. ASSUME NEW p \in Procs, Claim(p)
      PROVE  [Contract!Next]_(Contract!vars)
  <2>1. job[p] \in Deliveries
    BY <1>2 DEF IInv, TypeOK, Claim
  <2>2. Contract!Take(job[p])
    BY <1>2, <2>1 DEF IInv, TypeOK, Claim, Claimable, CountedAttempts, Contract!Take
  <2>3. QED
    BY <2>1, <2>2 DEF Contract!Next
<1>3. ASSUME NEW p \in Procs, Report(p)
      PROVE  [Contract!Next]_(Contract!vars)
  <2>1. job[p] \in Deliveries /\ outcome[p] \in Outcomes /\ status[job[p]] = "retrying"
    BY <1>3 DEF IInv, TypeOK, LiveClaim, Holds, Report
  <2>2. Contract!Settle(job[p], outcome[p])
    BY <1>3, <2>1 DEF Report, Contract!Settle
  <2>3. QED
    BY <2>1, <2>2 DEF Contract!Next, Contract!Outcomes, Outcomes
<1>4. ASSUME NEW p \in Procs,
             \/ ClaimConflict(p) \/ ReadBack(p) \/ LookupFails(p) \/ Abandon(p) \/ Crash(p)
             \/ \E result \in Outcomes : Post(p, result)
      PROVE  UNCHANGED <<status, attempts>>
  BY <1>4 DEF ClaimConflict, ReadBack, LookupFails, Abandon, Crash, Post
<1>5. ASSUME \/ \E w \in Workers : List(w) \/ BeginAutomatic(w)
             \/ \E o \in Operators : BeginManual(o)
             \/ Tick \/ UNCHANGED vars
      PROVE  UNCHANGED <<status, attempts>>
  BY <1>5 DEF List, BeginAutomatic, BeginManual, Begin, Tick, vars
<1>6. QED
  BY <1>1, <1>2, <1>3, <1>4, <1>5 DEF Next, Proceed

\* The rows of webhook_deliveries, driven by any number of crashing workers and
\* operators, behave as DeliveryContract says.
THEOREM Refinement == Spec => ImplementsContract
<1>1. Init => Contract!Init
  BY DEF Init, Contract!Init
<1>2. QED
  BY <1>1, ContractStep, Invariance, PTL DEF Spec, ImplementsContract, Contract!Spec

\* In particular a delivery recorded as succeeded is never taken again nor
\* overwritten by a late failure.
THEOREM SuccessIsFinal == Spec => SucceededIsFinal
<1>1. IInv /\ [Next]_vars =>
        [\A d \in Deliveries : status[d] = "succeeded" => status'[d] = "succeeded"]_vars
  <2> SUFFICES ASSUME IInv, [Next]_vars, NEW d \in Deliveries, status[d] = "succeeded"
               PROVE  status'[d] = "succeeded"
    OBVIOUS
  <2>1. [Contract!Next]_(Contract!vars)
    BY ContractStep
  <2>2. CASE UNCHANGED Contract!vars
    BY <2>2 DEF Contract!vars
  <2>3. ASSUME NEW e \in Deliveries,
               \/ Contract!Take(e)
               \/ \E result \in Contract!Outcomes :
                    Contract!RecordFirst(e, result) \/ Contract!Settle(e, result)
        PROVE  status'[d] = "succeeded"
    BY <2>3 DEF Contract!Take, Contract!RecordFirst, Contract!Settle, IInv, TypeOK
  <2>4. QED
    BY <2>1, <2>2, <2>3 DEF Contract!Next
<1>2. QED
  BY <1>1, Invariance, PTL DEF Spec, SucceededIsFinal

\* No interleaving of listing, manual retries and claims lets a worker start an
\* attempt beyond the configured limit.
THEOREM WorkersStayWithinLimit == Spec => AutomaticRetriesBounded
<1>1. IInv /\ [Next]_vars =>
        [\A w \in Workers : stage[w] = "claiming" /\ stage'[w] = "claimed" =>
                              attempts'[job[w]] <= MaxAttempts]_vars
  <2> SUFFICES ASSUME IInv, [Next]_vars, NEW w \in Workers,
                      stage[w] = "claiming", stage'[w] = "claimed"
               PROVE  attempts'[job[w]] <= MaxAttempts
    OBVIOUS
  <2> USE DEF IInv, TypeOK, Procs, rowVars, localVars
  <2>1. CASE Claim(w)
    BY <2>1, ConfigAssumption DEF Claim, Claimable, CountedAttempts
  <2>2. ASSUME NEW p \in Procs, p # w, Proceed(p) \/ Crash(p)
        PROVE  stage'[w] = stage[w]
    BY <2>2 DEF Proceed, Claim, ClaimConflict, ReadBack, Post, LookupFails, Report,
                Abandon, Crash, Release
  <2>3. CASE Proceed(w) \/ Crash(w)
    BY <2>1, <2>3 DEF Proceed, ClaimConflict, ReadBack, Post, LookupFails, Report,
                      Abandon, Crash, Release
  <2>4. ASSUME NEW p \in Procs, NEW d \in Deliveries, Begin(p, d)
        PROVE  stage'[w] # "claimed"
    BY <2>4 DEF Begin
  <2>5. ASSUME \/ \E d \in Deliveries : FirstAttempt(d)
               \/ \E v \in Workers : List(v)
               \/ Tick \/ UNCHANGED vars
        PROVE  stage' = stage
    BY <2>5 DEF FirstAttempt, PostFirst, RecordFirst, LoseFirst, List, Tick, vars
  <2>6. QED
    BY <2>2, <2>3, <2>4, <2>5 DEF Next, BeginAutomatic, BeginManual
<1>2. QED
  BY <1>1, Invariance, PTL DEF Spec, AutomaticRetriesBounded

-----------------------------------------------------------------------------
(***************************************************************************)
(* Counting.  Between its claim and its POST a process has counted an       *)
(* attempt that the receiver has not seen.  Any number of processes can be  *)
(* there for one delivery, as late ones do not stop; but they come one by   *)
(* one, so they are finitely many whatever the number of processes.         *)
(***************************************************************************)

\* The processes that have counted an attempt of d and may still make its POST.
Unposted(d) == {p \in Procs : stage[p] \in {"claimed", "lookup"} /\ job[p] = d}

\* What was posted and what still may be is counted; a delivery without a row has had
\* no more than its first POST.
Counted ==
  \A d \in Deliveries :
    /\ IsFiniteSet(Unposted(d))
    /\ status[d] # "none" => sent[d] + Cardinality(Unposted(d)) <= attempts[d]
    /\ status[d] = "none" => Unposted(d) = {}
    /\ first[d] = "none" => sent[d] = 0
    /\ first[d] = "posted" => sent[d] = 1

\* A part of a finite set is finite, and no larger.
LEMMA FewerUnposted ==
  ASSUME NEW S, IsFiniteSet(S), NEW T, T \subseteq S
  PROVE  IsFiniteSet(T) /\ Cardinality(T) \in Nat /\ Cardinality(S) \in Nat
         /\ Cardinality(T) <= Cardinality(S)
BY FS_Subset, FS_CardinalityType

\* Every step keeps the count.
LEMMA CountedInit == Init => Counted
<1> SUFFICES ASSUME Init, NEW d \in Deliveries
             PROVE  /\ Unposted(d) = {} /\ status[d] = "none"
                    /\ first[d] = "none" /\ sent[d] = 0
  BY FS_EmptySet DEF Counted
<1> QED BY DEF Init, Unposted

LEMMA CountedStep == IInv /\ Counted /\ [Next]_vars => Counted'
<1> SUFFICES ASSUME IInv, Counted, [Next]_vars
             PROVE  Counted'
  OBVIOUS
<1> USE DEF IInv, rowVars, localVars
<1>0. TypeOK
  OBVIOUS
<1>1. ASSUME NEW e \in Deliveries, FirstAttempt(e)
      PROVE  Counted'
  <2>1. \A d \in Deliveries : Unposted(d)' = Unposted(d)
    BY <1>1 DEF FirstAttempt, PostFirst, RecordFirst, LoseFirst, Unposted
  <2>2. status[e] = "none" /\ attempts[e] = 0
    BY <1>1 DEF FirstAttempt, PostFirst, RecordFirst, LoseFirst, NoRowBeforeFirst
  <2>3. Unposted(e) = {} /\ Cardinality({}) = 0 /\ IsFiniteSet({})
    BY <2>2, FS_EmptySet DEF Counted
  <2>4. CASE PostFirst(e)
    BY <1>0, <2>1, <2>2, <2>3, <2>4 DEF PostFirst, Counted, TypeOK
  <2>5. ASSUME NEW result \in Outcomes, RecordFirst(e, result)
        PROVE  Counted'
    <3> SUFFICES ASSUME NEW d \in Deliveries
                 PROVE  /\ IsFiniteSet(Unposted(d)')
                        /\ status'[d] # "none" =>
                             sent'[d] + Cardinality(Unposted(d)') <= attempts'[d]
                        /\ status'[d] = "none" => Unposted(d)' = {}
                        /\ first'[d] = "none" => sent'[d] = 0
                        /\ first'[d] = "posted" => sent'[d] = 1
      BY DEF Counted
    <3>1. CASE d = e
      <4>1. /\ status'[e] # "none" /\ attempts'[e] = 1 /\ first'[e] = "over"
            /\ sent'[e] = sent[e] /\ first[e] = "posted"
        BY <1>0, <2>5 DEF RecordFirst, TypeOK, Outcomes
      <4>2. sent[e] = 1 /\ Unposted(e)' = {}
        BY <2>1, <2>3, <4>1 DEF Counted
      <4> QED BY <2>3, <3>1, <4>1, <4>2
    <3>2. CASE d # e
      <4>1. /\ status'[d] = status[d] /\ attempts'[d] = attempts[d]
            /\ first'[d] = first[d] /\ sent'[d] = sent[d] /\ Unposted(d)' = Unposted(d)
        BY <1>0, <2>1, <2>5, <3>2 DEF RecordFirst, TypeOK
      <4> QED BY <4>1 DEF Counted
    <3> QED BY <3>1, <3>2
  <2>6. CASE LoseFirst(e)
    BY <1>0, <2>1, <2>6 DEF LoseFirst, Counted, TypeOK
  <2> QED BY <1>1, <2>4, <2>5, <2>6 DEF FirstAttempt
<1>2. ASSUME UNCHANGED <<first, rowVars, sent>>,
             \A d \in Deliveries : Unposted(d)' \subseteq Unposted(d)
      PROVE  Counted'
  <2> SUFFICES ASSUME NEW d \in Deliveries
               PROVE  /\ IsFiniteSet(Unposted(d)')
                      /\ status[d] # "none" => sent[d] + Cardinality(Unposted(d)') <= attempts[d]
                      /\ status[d] = "none" => Unposted(d)' = {}
    BY <1>2 DEF Counted
  <2>1. /\ IsFiniteSet(Unposted(d)') /\ Cardinality(Unposted(d)') \in Nat
        /\ Cardinality(Unposted(d)) \in Nat
        /\ Cardinality(Unposted(d)') <= Cardinality(Unposted(d))
    BY <1>2, FewerUnposted DEF Counted
  <2>2. status[d] # "none" => sent[d] + Cardinality(Unposted(d)) <= attempts[d]
    BY DEF Counted
  <2>3. status[d] = "none" => Unposted(d)' = {}
    BY <1>2 DEF Counted
  <2>4. sent[d] \in Nat /\ attempts[d] \in Nat
    BY <1>0 DEF TypeOK
  <2> QED BY <2>1, <2>2, <2>3, <2>4
<1>3. ASSUME NEW p \in Procs, NEW e \in Deliveries, Begin(p, e)
      PROVE  Counted'
  BY <1>0, <1>2, <1>3 DEF Begin, Unposted, TypeOK
<1>4. ASSUME NEW p \in Procs, ClaimConflict(p) \/ Abandon(p) \/ Crash(p)
      PROVE  Counted'
  BY <1>0, <1>2, <1>4 DEF ClaimConflict, Abandon, Crash, Release, Unposted, TypeOK
<1>5. ASSUME NEW p \in Procs, ReadBack(p) \/ LookupFails(p)
      PROVE  Counted'
  BY <1>0, <1>2, <1>5 DEF ReadBack, LookupFails, Unposted, TypeOK
<1>6. ASSUME NEW p \in Procs, Claim(p)
      PROVE  Counted'
  <2>0. PICK e \in Deliveries : e = job[p]
    BY <1>0, <1>6 DEF Claim, TypeOK
  <2>1. status[e] # "none" /\ p \notin Unposted(e)
    BY <1>0, <1>6, <2>0 DEF Claim, Claimable, TypeOK, Unposted
  <2>2. /\ Unposted(e)' = Unposted(e) \cup {p}
        /\ \A d \in Deliveries : d # e => Unposted(d)' = Unposted(d)
    BY <1>0, <1>6, <2>0 DEF Claim, Unposted, TypeOK
  <2>3. /\ IsFiniteSet(Unposted(e)') /\ Cardinality(Unposted(e)) \in Nat
        /\ Cardinality(Unposted(e)') = Cardinality(Unposted(e)) + 1
    BY <2>1, <2>2, FS_AddElement, FS_CardinalityType DEF Counted
  <2>4. /\ attempts'[e] = attempts[e] + 1 /\ status'[e] = "retrying"
        /\ \A d \in Deliveries : d # e => attempts'[d] = attempts[d] /\ status'[d] = status[d]
        /\ UNCHANGED <<first, sent>>
        /\ attempts[e] \in Nat /\ sent[e] \in Nat
    BY <1>0, <1>6, <2>0, <2>1 DEF Claim, CountedAttempts, TypeOK
  <2>5. sent[e] + Cardinality(Unposted(e)) <= attempts[e] /\ first[e] = "over"
    BY <2>1 DEF Counted, NoRowBeforeFirst
  <2>6. sent'[e] + Cardinality(Unposted(e)') <= attempts'[e]
    BY <2>3, <2>4, <2>5
  <2>7. Counted'
    <3> SUFFICES ASSUME NEW d \in Deliveries
                 PROVE  /\ IsFiniteSet(Unposted(d)')
                        /\ status'[d] # "none" =>
                             sent'[d] + Cardinality(Unposted(d)') <= attempts'[d]
                        /\ status'[d] = "none" => Unposted(d)' = {}
                        /\ first'[d] = "none" => sent'[d] = 0
                        /\ first'[d] = "posted" => sent'[d] = 1
      BY DEF Counted
    <3>1. CASE d = e
      BY <2>1, <2>3, <2>4, <2>5, <2>6, <3>1
    <3>2. CASE d # e
      <4>1. /\ status'[d] = status[d] /\ attempts'[d] = attempts[d]
            /\ first'[d] = first[d] /\ sent'[d] = sent[d] /\ Unposted(d)' = Unposted(d)
        BY <2>2, <2>4, <3>2
      <4> QED BY <4>1 DEF Counted
    <3> QED BY <3>1, <3>2
  <2> QED BY <2>7
<1>7. ASSUME NEW p \in Procs, NEW result \in Outcomes, Post(p, result)
      PROVE  Counted'
  <2>0. PICK e \in Deliveries : e = job[p]
    BY <1>0, <1>7 DEF Post, TypeOK
  <2>1. p \in Unposted(e)
    BY <1>0, <1>7, <2>0 DEF Post, TypeOK, Unposted
  <2>2. /\ Unposted(e)' = Unposted(e) \ {p}
        /\ \A d \in Deliveries : d # e => Unposted(d)' = Unposted(d)
    BY <1>0, <1>7, <2>0 DEF Post, Unposted, TypeOK
  <2>3. /\ IsFiniteSet(Unposted(e)') /\ Cardinality(Unposted(e)) \in Nat
        /\ Cardinality(Unposted(e)') = Cardinality(Unposted(e)) - 1
    BY <2>1, <2>2, FS_RemoveElement, FS_CardinalityType DEF Counted
  <2>4. /\ sent'[e] = sent[e] + 1
        /\ \A d \in Deliveries : d # e => sent'[d] = sent[d]
        /\ UNCHANGED <<first, status, attempts>>
        /\ attempts[e] \in Nat /\ sent[e] \in Nat
    BY <1>0, <1>7, <2>0, <2>1 DEF Post, TypeOK
  <2>5. /\ status[e] # "none" /\ first[e] = "over"
        /\ sent[e] + Cardinality(Unposted(e)) <= attempts[e]
    BY <2>1 DEF Counted, NoRowBeforeFirst
  <2>6. sent'[e] + Cardinality(Unposted(e)') <= attempts'[e]
    BY <2>3, <2>4, <2>5
  <2>7. Counted'
    <3> SUFFICES ASSUME NEW d \in Deliveries
                 PROVE  /\ IsFiniteSet(Unposted(d)')
                        /\ status'[d] # "none" =>
                             sent'[d] + Cardinality(Unposted(d)') <= attempts'[d]
                        /\ status'[d] = "none" => Unposted(d)' = {}
                        /\ first'[d] = "none" => sent'[d] = 0
                        /\ first'[d] = "posted" => sent'[d] = 1
      BY DEF Counted
    <3>1. CASE d = e
      BY <2>1, <2>3, <2>4, <2>5, <2>6, <3>1
    <3>2. CASE d # e
      <4>1. /\ status'[d] = status[d] /\ attempts'[d] = attempts[d]
            /\ first'[d] = first[d] /\ sent'[d] = sent[d] /\ Unposted(d)' = Unposted(d)
        BY <2>2, <2>4, <3>2
      <4> QED BY <4>1 DEF Counted
    <3> QED BY <3>1, <3>2
  <2> QED BY <2>7
<1>8. ASSUME NEW p \in Procs, Report(p)
      PROVE  Counted'
  <2>1. /\ job[p] \in Deliveries /\ outcome[p] \in Outcomes /\ status[job[p]] # "none"
    BY <1>0, <1>8 DEF Report, LiveClaim, Holds, TypeOK
  <2>2. \A d \in Deliveries : Unposted(d)' = Unposted(d)
    BY <1>0, <1>8 DEF Report, Release, Unposted, TypeOK
  <2>3. /\ UNCHANGED <<first, attempts, sent>>
        /\ \A d \in Deliveries : status'[d] = "none" <=> status[d] = "none"
    BY <1>0, <1>8, <2>1 DEF Report, TypeOK, Outcomes
  <2> QED BY <2>2, <2>3 DEF Counted
<1>9. ASSUME UNCHANGED vars \/ Tick \/ \E w \in Workers : List(w)
      PROVE  Counted'
  <2>1. \A d \in Deliveries : Unposted(d)' = Unposted(d)
    BY <1>9 DEF vars, Tick, List, Unposted
  <2>2. UNCHANGED <<first, status, attempts, sent>>
    BY <1>9 DEF vars, Tick, List
  <2> QED BY <2>1, <2>2 DEF Counted
<1> QED
  BY <1>1, <1>3, <1>4, <1>5, <1>6, <1>7, <1>8, <1>9
     DEF Next, Proceed, Procs, BeginAutomatic, BeginManual, TypeOK

\* No crash, no late process and no overlap makes a POST of a recorded delivery that
\* its attempt_count does not show.
THEOREM NoUncountedPost == Spec => []PostsAreCounted
<1>1. IInv /\ Counted => PostsAreCounted
  <2> SUFFICES ASSUME IInv, Counted, NEW d \in Deliveries, status[d] # "none"
               PROVE  sent[d] <= attempts[d]
    BY DEF PostsAreCounted
  <2>1. Cardinality(Unposted(d)) \in Nat /\ sent[d] \in Nat /\ attempts[d] \in Nat
    BY FS_CardinalityType DEF Counted, IInv, TypeOK
  <2> QED BY <2>1 DEF Counted
<1>2. Spec => []Counted
  BY CountedInit, CountedStep, Invariance, PTL DEF Spec
<1> QED BY <1>1, <1>2, Invariance, PTL
=============================================================================
