---------------------------- MODULE ConsoleProofs ----------------------------
(***************************************************************************)
(* What the console's views keep, in whatever order answers come in: the    *)
(* invariant of each view (QueueInv, HistoryInv, DeliveryInv, ClientInv),   *)
(* that every action of the view keeps it, and in the end the theorems      *)
(* about the console, which shows one view at a time.                       *)
(***************************************************************************)
EXTENDS Console, FiniteSetTheorems, SequenceTheorems, TLAPS

-----------------------------------------------------------------------------
(***************************************************************************)
(* The queue of pending cases.                                              *)
(***************************************************************************)

\* What a request of the queue is.
QueueCalls ==
  [kind : {"load", "detail", "submit"}, id : QueueCases \cup {NoCase}, live : BOOLEAN,
   recovers : BOOLEAN, served : BOOLEAN,
   answer : SUBSET (QueueCases \cup {"absent", "pending", "final", "saved", "conflict"})]

QueueTypes ==
  /\ status \in [QueueCases -> {"absent", "pending", "final"}]
  /\ items \subseteq QueueCases
  /\ selected \in [id : QueueCases \cup {NoCase},
                   status : {"none", "absent", "pending", "final"}]
  /\ {isLoading, isLoadingDetail, isSubmitting} \subseteq BOOLEAN
  /\ DOMAIN call = Slots /\ \A s \in Slots : call[s] = Queue!NoCall \/ call[s] \in QueueCalls
  /\ settled \subseteq QueueCases

\* A detail that will be shown, and a request that a submission waits for.
Shows(s) == call[s].kind = "detail" /\ call[s].live
Holds(s) == call[s].kind = "submit" \/ (call[s].kind = "load" /\ call[s].recovers)

\* What the console knows to be ruled on is, and what it is being told, too.
RuledOn ==
  /\ \A c \in settled : status[c] = "final"
  /\ selected.status # "none" => selected.id \in QueueCases
  /\ \A s \in Slots :
       /\ call[s].kind \in {"detail", "submit"} => call[s].id \in QueueCases
       /\ call[s].kind = "load" => call[s].answer \subseteq QueueCases
       /\ call[s].kind = "detail" =>
            /\ call[s].answer \subseteq {"absent", "pending", "final"}
            /\ "final" \in call[s].answer => status[call[s].id] = "final"
       /\ call[s].kind = "submit" /\ call[s].answer \in {{"saved"}, {"conflict"}} =>
            status[call[s].id] = "final"

\* A detail that will be shown with the form is of a case that is not known to be ruled on.
ShownNext ==
  \A s \in Slots : Shows(s) /\ "pending" \in call[s].answer => call[s].id \notin settled

\* One detail is waited for, or one submission, never both.
OneAtATime ==
  /\ \A r, s \in Slots : Shows(r) /\ Shows(s) => r = s
  /\ \A r, s \in Slots : Holds(r) /\ Holds(s) => r = s
  /\ ~(isLoadingDetail /\ isSubmitting)

QueueInv == QueueTypes /\ RuledOn /\ ShownNext /\ OneAtATime /\ Queue!FormFollowsRulings

\* Before it is served, a request is as it was made.
LEMMA NewQueueCall ==
  ASSUME NEW kind \in {"load", "detail", "submit"}, NEW c \in QueueCases \cup {NoCase},
         NEW recovers \in BOOLEAN
  PROVE  /\ Queue!NewCall(kind, c, recovers) \in QueueCalls
         /\ Queue!NewCall(kind, c, recovers) # Queue!NoCall
         /\ Queue!NewCall(kind, c, recovers).kind = kind
         /\ Queue!NewCall(kind, c, recovers).id = c
         /\ Queue!NewCall(kind, c, recovers).live = TRUE
         /\ Queue!NewCall(kind, c, recovers).recovers = recovers
         /\ Queue!NewCall(kind, c, recovers).served = FALSE
         /\ Queue!NewCall(kind, c, recovers).answer = {}
BY DEF Queue!NewCall, QueueCalls, Queue!NoCall

LEMMA NoQueueCall == Queue!NoCall.kind = "none" /\ Queue!NoCall \notin QueueCalls
BY DEF Queue!NoCall, QueueCalls

\* Details asked for before are not shown any more.
LEMMA SupersededCalls ==
  ASSUME QueueTypes
  PROVE  /\ DOMAIN Queue!Superseded = Slots
         /\ \A r \in Slots :
              IF call[r].kind = "detail"
              THEN /\ Queue!Superseded[r] \in QueueCalls
                   /\ Queue!Superseded[r].kind = "detail" /\ Queue!Superseded[r].live = FALSE
                   /\ Queue!Superseded[r].id = call[r].id
                   /\ Queue!Superseded[r].answer = call[r].answer
              ELSE Queue!Superseded[r] = call[r]
<1> SUFFICES ASSUME NEW r \in Slots, call[r].kind = "detail"
             PROVE  LET t == [call[r] EXCEPT !.live = FALSE] IN
                    /\ t \in QueueCalls /\ t.kind = "detail" /\ t.live = FALSE
                    /\ t.id = call[r].id /\ t.answer = call[r].answer
  BY DEF Queue!Superseded
<1>1. call[r] \in QueueCalls
  BY NoQueueCall DEF QueueTypes
<1> QED BY <1>1 DEF QueueCalls

LEMMA ElsewhereQueueHolds == ASSUME QueueInv, NEW c \in QueueCases, Queue!Elsewhere(c) PROVE QueueInv'
<1> USE DEF QueueInv
<1>1. /\ UNCHANGED <<items, selected, isLoading, isLoadingDetail, isSubmitting, settled, call>>
      /\ status' \in [QueueCases -> {"absent", "pending", "final"}]
      /\ \A d \in QueueCases : status[d] = "final" => status'[d] = "final"
  BY DEF Queue!Elsewhere, Queue!console, Queue!flags, QueueTypes
<1>11. QueueTypes'
  BY <1>1 DEF Queue!flags, QueueTypes
<1>12. RuledOn'
  BY <1>1 DEF Queue!flags, QueueTypes, RuledOn
<1>13. ShownNext'
  BY <1>1 DEF Queue!flags, QueueTypes, RuledOn, ShownNext, OneAtATime, Shows, Holds, Queue!FormFollowsRulings, Queue!InFlight
<1>14. OneAtATime'
  BY <1>1 DEF Queue!flags, QueueTypes, OneAtATime, Shows, Holds, Queue!FormFollowsRulings, Queue!InFlight
<1>15. Queue!FormFollowsRulings'
  BY <1>1 DEF Queue!flags, QueueTypes, RuledOn, ShownNext, OneAtATime, Shows, Holds, Queue!FormFollowsRulings, Queue!InFlight
<1> QED BY <1>11, <1>12, <1>13, <1>14, <1>15

LEMMA ServeQueueHolds == ASSUME QueueInv, NEW s \in Slots, Queue!Serve(s) PROVE QueueInv'
<1> USE DEF QueueInv
<1>1. /\ UNCHANGED <<items, selected, isLoading, isLoadingDetail, isSubmitting, settled>>
      /\ status' \in [QueueCases -> {"absent", "pending", "final"}]
      /\ \A d \in QueueCases : status[d] = "final" => status'[d] = "final"
      /\ call[s] \in QueueCalls /\ DOMAIN call' = Slots
      /\ \A r \in Slots : r # s => call'[r] = call[r]
  BY NoQueueCall DEF Queue!Serve, Queue!Served, Queue!console, Queue!flags, QueueTypes, RuledOn
<1>2. /\ call'[s] \in QueueCalls
      /\ call'[s].kind = call[s].kind /\ call'[s].id = call[s].id
      /\ call'[s].live = call[s].live /\ call'[s].recovers = call[s].recovers
      /\ call[s].kind = "load" => call'[s].answer \subseteq QueueCases
      /\ call[s].kind = "detail" => call'[s].answer = {status[call[s].id]} /\ status' = status
      /\ call[s].kind = "submit" =>
           call'[s].answer \in {{"saved"}, {"conflict"}} /\ status'[call[s].id] = "final"
  <2>1. PICK answer \in SUBSET (QueueCases \cup {"absent", "pending", "final", "saved", "conflict"}) :
          /\ call' = [call EXCEPT ![s].served = TRUE, ![s].answer = answer]
          /\ call[s].kind = "load" => answer \subseteq QueueCases
          /\ call[s].kind = "detail" => answer = {status[call[s].id]} /\ status' = status
          /\ call[s].kind = "submit" =>
               answer \in {{"saved"}, {"conflict"}} /\ status'[call[s].id] = "final"
    <3>1. CASE call[s].kind = "load"
      <4>1. Queue!Pending \subseteq QueueCases
        BY DEF Queue!Pending
      <4> QED BY <3>1, <4>1 DEF Queue!Serve, Queue!Served
    <3>2. CASE call[s].kind = "detail"
      <4>1. status[call[s].id] \in {"absent", "pending", "final"}
        BY <3>2 DEF QueueTypes, RuledOn
      <4>2. call' = [call EXCEPT ![s].served = TRUE, ![s].answer = {status[call[s].id]}]
            /\ status' = status
        BY <3>2 DEF Queue!Serve, Queue!Served
      <4>3. {status[call[s].id]} \in SUBSET (QueueCases \cup {"absent", "pending", "final", "saved", "conflict"})
        BY <4>1
      <4> QED BY <3>2, <4>2, <4>3
    <3>3. CASE call[s].kind = "submit"
      BY <3>3 DEF Queue!Serve, Queue!Served, QueueTypes, RuledOn
    <3> QED BY <1>1, <3>1, <3>2, <3>3 DEF QueueCalls
  <2>2. call'[s] = [call[s] EXCEPT !.served = TRUE, !.answer = answer]
    BY <2>1 DEF QueueTypes
  <2> QED BY <1>1, <2>1, <2>2 DEF QueueCalls
<1>11. QueueTypes'
  BY <1>1, <1>2, NoQueueCall DEF Queue!flags, QueueTypes
<1>12. RuledOn'
  BY <1>1, <1>2, NoQueueCall DEF Queue!flags, QueueTypes, RuledOn
<1>13. ShownNext'
  BY <1>1, <1>2, NoQueueCall DEF Queue!flags, QueueTypes, RuledOn, ShownNext, OneAtATime, Shows, Holds, Queue!FormFollowsRulings, Queue!InFlight
<1>14. OneAtATime'
  BY <1>1, <1>2, NoQueueCall DEF Queue!flags, QueueTypes, OneAtATime, Shows, Holds, Queue!FormFollowsRulings, Queue!InFlight
<1>15. Queue!FormFollowsRulings'
  BY <1>1, <1>2, NoQueueCall DEF Queue!flags, QueueTypes, RuledOn, ShownNext, OneAtATime, Shows, Holds, Queue!FormFollowsRulings, Queue!InFlight
<1> QED BY <1>11, <1>12, <1>13, <1>14, <1>15

LEMMA RefreshQueueHolds == ASSUME QueueInv, NEW s \in Slots, Queue!Refresh(s) PROVE QueueInv'
<1> USE DEF QueueInv
<1>1. /\ UNCHANGED <<status, items, selected, isLoadingDetail, isSubmitting, settled>>
      /\ isLoading' = TRUE /\ DOMAIN call' = Slots /\ call[s] = Queue!NoCall /\ ~isSubmitting
      /\ \A r \in Slots : r # s => call'[r] = call[r]
      /\ call'[s] \in QueueCalls /\ call'[s].kind = "load" /\ call'[s].answer = {}
      /\ call'[s].recovers = FALSE
  <2> DEFINE new == Queue!NewCall("load", NoCase, FALSE)
  <2>1. /\ new \in QueueCalls /\ new.kind = "load" /\ new.answer = {} /\ new.recovers = FALSE
    BY DEF Queue!NewCall, QueueCalls
  <2> HIDE DEF new
  <2> QED BY <2>1 DEF Queue!Refresh, QueueTypes, new
<1>11. QueueTypes'
  BY <1>1, NoQueueCall DEF Queue!flags, QueueTypes
<1>12. RuledOn'
  BY <1>1, NoQueueCall DEF Queue!flags, QueueTypes, RuledOn
<1>13. ShownNext'
  BY <1>1, NoQueueCall DEF Queue!flags, QueueTypes, RuledOn, ShownNext, OneAtATime, Shows, Holds, Queue!FormFollowsRulings, Queue!InFlight
<1>14. OneAtATime'
  BY <1>1, NoQueueCall DEF Queue!flags, QueueTypes, OneAtATime, Shows, Holds, Queue!FormFollowsRulings, Queue!InFlight
<1>15. Queue!FormFollowsRulings'
  BY <1>1, NoQueueCall DEF Queue!flags, QueueTypes, RuledOn, ShownNext, OneAtATime, Shows, Holds, Queue!FormFollowsRulings, Queue!InFlight
<1> QED BY <1>11, <1>12, <1>13, <1>14, <1>15

LEMMA SelectQueueHolds == ASSUME QueueInv, NEW s \in Slots, NEW c \in QueueCases, Queue!SelectReview(s, c) PROVE QueueInv'
<1> USE DEF QueueInv
<1>1. /\ UNCHANGED <<status, items, selected, isLoading, isSubmitting, settled>>
      /\ isLoadingDetail' = TRUE /\ DOMAIN call' = Slots /\ call[s] = Queue!NoCall /\ ~isSubmitting
      /\ call'[s] \in QueueCalls /\ call'[s].kind = "detail" /\ call'[s].answer = {}
      /\ call'[s].live = TRUE /\ call'[s].id = c
  BY NewQueueCall, SupersededCalls DEF Queue!SelectReview, Queue!CanSelect
<1>2. \A r \in Slots : r # s =>
           IF call[r].kind = "detail"
           THEN /\ call'[r] \in QueueCalls /\ call'[r].kind = "detail" /\ call'[r].live = FALSE
                /\ call'[r].id = call[r].id /\ call'[r].answer = call[r].answer
           ELSE call'[r] = call[r]
  BY SupersededCalls DEF Queue!SelectReview
<1>11. QueueTypes'
  BY <1>1, <1>2, NoQueueCall DEF Queue!flags, QueueTypes
<1>12. RuledOn'
  BY <1>1, <1>2, NoQueueCall DEF Queue!flags, QueueTypes, RuledOn
<1>13. ShownNext'
  BY <1>1, <1>2, NoQueueCall DEF Queue!flags, QueueTypes, RuledOn, ShownNext, OneAtATime, Shows, Holds, Queue!FormFollowsRulings, Queue!InFlight
<1>14. OneAtATime'
  BY <1>1, <1>2, NoQueueCall DEF Queue!flags, QueueTypes, OneAtATime, Shows, Holds, Queue!FormFollowsRulings, Queue!InFlight
<1>15. Queue!FormFollowsRulings'
  BY <1>1, <1>2, NoQueueCall DEF Queue!flags, QueueTypes, RuledOn, ShownNext, OneAtATime, Shows, Holds, Queue!FormFollowsRulings, Queue!InFlight
<1> QED BY <1>11, <1>12, <1>13, <1>14, <1>15

LEMMA SubmitQueueHolds == ASSUME QueueInv, NEW s \in Slots, Queue!SubmitAction(s) PROVE QueueInv'
<1> USE DEF QueueInv
<1>1. /\ UNCHANGED <<status, items, selected, isLoading, isLoadingDetail, settled>>
      /\ isSubmitting' = TRUE /\ DOMAIN call' = Slots /\ call[s] = Queue!NoCall
      /\ ~isSubmitting /\ ~isLoadingDetail /\ selected.status = "pending"
      /\ \A r \in Slots : r # s => call'[r] = call[r]
      /\ call'[s] \in QueueCalls /\ call'[s].kind = "submit" /\ call'[s].answer = {}
      /\ call'[s].recovers = FALSE /\ call'[s].id = selected.id
  BY NewQueueCall DEF Queue!SubmitAction, Queue!CanSubmit, QueueTypes
<1>11. QueueTypes'
  BY <1>1, NoQueueCall, ConsoleAssumption DEF Queue!flags, QueueTypes
<1>12. RuledOn'
  BY <1>1, NoQueueCall, ConsoleAssumption DEF Queue!flags, QueueTypes, RuledOn
<1>13. ShownNext'
  BY <1>1, NoQueueCall, ConsoleAssumption DEF Queue!flags, QueueTypes, RuledOn, ShownNext, OneAtATime, Shows, Holds, Queue!FormFollowsRulings, Queue!InFlight
<1>14. OneAtATime'
  BY <1>1, NoQueueCall, ConsoleAssumption DEF Queue!flags, QueueTypes, OneAtATime, Shows, Holds, Queue!FormFollowsRulings, Queue!InFlight
<1>15. Queue!FormFollowsRulings'
  BY <1>1, NoQueueCall, ConsoleAssumption DEF Queue!flags, QueueTypes, RuledOn, ShownNext, OneAtATime, Shows, Holds, Queue!FormFollowsRulings, Queue!InFlight
<1> QED BY <1>11, <1>12, <1>13, <1>14, <1>15

LEMMA ReceiveQueueQueueHolds == ASSUME QueueInv, NEW s \in Slots, Queue!ReceiveQueue(s) PROVE QueueInv'
<1> USE DEF QueueInv
<1>1. /\ UNCHANGED <<status, isLoadingDetail, settled>>
      /\ DOMAIN call' = Slots /\ call'[s] = Queue!NoCall
      /\ \A r \in Slots : r # s => call'[r] = call[r]
      /\ call[s] \in QueueCalls /\ call[s].kind = "load"
      /\ items' = call[s].answer
      /\ selected' = selected \/ selected' = Queue!Nothing
      /\ isLoading' = FALSE /\ isSubmitting' = (isSubmitting /\ ~call[s].recovers)
  BY NoQueueCall DEF Queue!ReceiveQueue, Queue!LoadEnds, Queue!Close, QueueTypes
<1>11. QueueTypes'
  <2>1. selected' \in [id : QueueCases \cup {NoCase}, status : {"none", "absent", "pending", "final"}]
    BY <1>1 DEF Queue!Nothing, QueueTypes
  <2> QED BY <1>1, NoQueueCall, <2>1 DEF QueueTypes, RuledOn
<1>12. RuledOn'
  BY <1>1, NoQueueCall DEF Queue!Nothing, QueueTypes, RuledOn
<1>13. ShownNext'
  BY <1>1, NoQueueCall DEF Queue!Nothing, QueueTypes, RuledOn, ShownNext, OneAtATime, Shows, Holds, Queue!FormFollowsRulings, Queue!InFlight
<1>14. OneAtATime'
  BY <1>1, NoQueueCall DEF Queue!Nothing, QueueTypes, OneAtATime, Shows, Holds, Queue!FormFollowsRulings, Queue!InFlight
<1>15. Queue!FormFollowsRulings'
  BY <1>1, NoQueueCall DEF Queue!Nothing, QueueTypes, RuledOn, ShownNext, OneAtATime, Shows, Holds, Queue!FormFollowsRulings, Queue!InFlight
<1> QED BY <1>11, <1>12, <1>13, <1>14, <1>15

LEMMA ReceiveDetailQueueHolds == ASSUME QueueInv, NEW s \in Slots, Queue!ReceiveDetail(s) PROVE QueueInv'
<1> USE DEF QueueInv
<1>1. /\ UNCHANGED <<status, items, isLoading, isSubmitting>>
      /\ DOMAIN call' = Slots /\ call'[s] = Queue!NoCall
      /\ \A r \in Slots : r # s => call'[r] = call[r]
      /\ call[s] \in QueueCalls /\ call[s].kind = "detail"
      /\ \/ /\ ~call[s].live /\ UNCHANGED <<selected, settled, isLoadingDetail>>
         \/ /\ call[s].live /\ isLoadingDetail' = FALSE
            /\ selected'.id = call[s].id /\ selected'.status \in call[s].answer
            /\ selected' = [id |-> selected'.id, status |-> selected'.status]
            /\ settled' = settled \cup (IF selected'.status = "final" THEN {call[s].id} ELSE {})
  BY NoQueueCall DEF Queue!ReceiveDetail, Queue!Close, QueueTypes
<1>11. QueueTypes'
  <2>1. selected' \in [id : QueueCases \cup {NoCase}, status : {"none", "absent", "pending", "final"}]
    BY <1>1 DEF QueueTypes, RuledOn
  <2>2. settled' \subseteq QueueCases /\ items' \subseteq QueueCases
    BY <1>1 DEF QueueTypes, RuledOn
  <2>3. DOMAIN call' = Slots /\ \A r \in Slots : call'[r] = Queue!NoCall \/ call'[r] \in QueueCalls
    BY <1>1 DEF QueueTypes
  <2>4. status' = status /\ {isLoading', isLoadingDetail', isSubmitting'} \subseteq BOOLEAN
    BY <1>1 DEF QueueTypes
  <2> QED BY <2>1, <2>2, <2>3, <2>4 DEF QueueTypes
<1>12. RuledOn'
  BY <1>1, NoQueueCall DEF Queue!flags, QueueTypes, RuledOn
<1>13. ShownNext'
  BY <1>1, NoQueueCall DEF Queue!flags, QueueTypes, RuledOn, ShownNext, OneAtATime, Shows, Holds, Queue!FormFollowsRulings, Queue!InFlight
<1>14. OneAtATime'
  BY <1>1, NoQueueCall DEF Queue!flags, QueueTypes, OneAtATime, Shows, Holds, Queue!FormFollowsRulings, Queue!InFlight
<1>15. Queue!FormFollowsRulings'
  BY <1>1, NoQueueCall DEF Queue!flags, QueueTypes, RuledOn, ShownNext, OneAtATime, Shows, Holds, Queue!FormFollowsRulings, Queue!InFlight
<1> QED BY <1>11, <1>12, <1>13, <1>14, <1>15

LEMMA ReceiveSavedQueueHolds == ASSUME QueueInv, NEW s \in Slots, Queue!ReceiveSaved(s) PROVE QueueInv'
<1> USE DEF QueueInv
<1>1. /\ UNCHANGED <<status, isLoading, isLoadingDetail>>
      /\ DOMAIN call' = Slots /\ call'[s] = Queue!NoCall
      /\ \A r \in Slots : r # s => call'[r] = call[r]
      /\ call[s] \in QueueCalls /\ call[s].kind = "submit" /\ call[s].answer = {"saved"}
      /\ items' \subseteq items
      /\ selected' = IF selected.id = call[s].id
                     THEN [id |-> call[s].id, status |-> "final"] ELSE selected
      /\ settled' = settled \cup {call[s].id}
      /\ isSubmitting' = FALSE
  BY NoQueueCall DEF Queue!ReceiveSaved, Queue!Close, QueueTypes
<1>11. QueueTypes'
  <2>1. selected' \in [id : QueueCases \cup {NoCase}, status : {"none", "absent", "pending", "final"}]
    BY <1>1 DEF QueueTypes, RuledOn
  <2>2. settled' \subseteq QueueCases /\ items' \subseteq QueueCases
    BY <1>1 DEF QueueTypes, RuledOn
  <2>3. DOMAIN call' = Slots /\ \A r \in Slots : call'[r] = Queue!NoCall \/ call'[r] \in QueueCalls
    BY <1>1 DEF QueueTypes
  <2>4. status' = status /\ {isLoading', isLoadingDetail', isSubmitting'} \subseteq BOOLEAN
    BY <1>1 DEF QueueTypes
  <2> QED BY <2>1, <2>2, <2>3, <2>4 DEF QueueTypes
<1>12. RuledOn'
  BY <1>1, NoQueueCall DEF Queue!flags, QueueTypes, RuledOn
<1>13. ShownNext'
  BY <1>1, NoQueueCall DEF Queue!flags, QueueTypes, RuledOn, ShownNext, OneAtATime, Shows, Holds, Queue!FormFollowsRulings, Queue!InFlight
<1>14. OneAtATime'
  BY <1>1, NoQueueCall DEF Queue!flags, QueueTypes, OneAtATime, Shows, Holds, Queue!FormFollowsRulings, Queue!InFlight
<1>15. Queue!FormFollowsRulings'
  BY <1>1, NoQueueCall DEF Queue!flags, QueueTypes, RuledOn, ShownNext, OneAtATime, Shows, Holds, Queue!FormFollowsRulings, Queue!InFlight
<1> QED BY <1>11, <1>12, <1>13, <1>14, <1>15

LEMMA ReceiveConflictQueueHolds == ASSUME QueueInv, NEW s \in Slots, Queue!ReceiveConflict(s) PROVE QueueInv'
<1> USE DEF QueueInv
<1>1. /\ UNCHANGED <<status, isSubmitting, isLoadingDetail>>
      /\ DOMAIN call' = Slots
      /\ call[s] \in QueueCalls /\ call[s].kind = "submit" /\ call[s].answer = {"conflict"}
      /\ call'[s] \in QueueCalls /\ call'[s].kind = "load" /\ call'[s].answer = {}
      /\ call'[s].recovers = TRUE
      /\ items' \subseteq items /\ selected' = Queue!Nothing /\ isLoading' = TRUE
      /\ settled' = settled \cup {call[s].id}
  <2> DEFINE new == Queue!NewCall("load", NoCase, TRUE)
  <2>1. /\ new \in QueueCalls /\ new.kind = "load" /\ new.answer = {} /\ new.recovers = TRUE
    BY DEF Queue!NewCall, QueueCalls
  <2>2. DOMAIN Queue!Superseded = Slots
    BY SupersededCalls
  <2>3. call' = [Queue!Superseded EXCEPT ![s] = new]
    BY DEF Queue!ReceiveConflict
  <2> HIDE DEF new
  <2>4. DOMAIN call' = Slots /\ call'[s] = new
    BY <2>2, <2>3
  <2> QED BY <2>1, <2>4, NoQueueCall DEF Queue!ReceiveConflict, QueueTypes
<1>2. \A r \in Slots : r # s =>
           IF call[r].kind = "detail"
           THEN /\ call'[r] \in QueueCalls /\ call'[r].kind = "detail" /\ call'[r].live = FALSE
                /\ call'[r].id = call[r].id /\ call'[r].answer = call[r].answer
           ELSE call'[r] = call[r]
  BY SupersededCalls DEF Queue!ReceiveConflict
<1>11. QueueTypes'
  <2>1. selected' \in [id : QueueCases \cup {NoCase}, status : {"none", "absent", "pending", "final"}]
    BY <1>1 DEF Queue!Nothing, QueueTypes
  <2> QED BY <1>1, <1>2, NoQueueCall, <2>1 DEF QueueTypes, RuledOn
<1>12. RuledOn'
  BY <1>1, <1>2, NoQueueCall DEF Queue!Nothing, QueueTypes, RuledOn
<1>13. ShownNext'
  BY <1>1, <1>2, NoQueueCall DEF Queue!Nothing, QueueTypes, RuledOn, ShownNext, OneAtATime, Shows, Holds, Queue!FormFollowsRulings, Queue!InFlight
<1>14. OneAtATime'
  BY <1>1, <1>2, NoQueueCall DEF Queue!Nothing, QueueTypes, OneAtATime, Shows, Holds, Queue!FormFollowsRulings, Queue!InFlight
<1>15. Queue!FormFollowsRulings'
  BY <1>1, <1>2, NoQueueCall DEF Queue!Nothing, QueueTypes, RuledOn, ShownNext, OneAtATime, Shows, Holds, Queue!FormFollowsRulings, Queue!InFlight
<1> QED BY <1>11, <1>12, <1>13, <1>14, <1>15

LEMMA FailQueueHolds == ASSUME QueueInv, NEW s \in Slots, Queue!Fail(s) PROVE QueueInv'
<1> USE DEF QueueInv
<1>1. /\ UNCHANGED <<status, items, selected, settled>>
      /\ DOMAIN call' = Slots /\ call'[s] = Queue!NoCall
      /\ \A r \in Slots : r # s => call'[r] = call[r]
      /\ call[s] \in QueueCalls
      /\ isLoading' = (isLoading /\ call[s].kind # "load")
      /\ isLoadingDetail' = (isLoadingDetail /\ ~Shows(s))
      /\ isSubmitting' = (isSubmitting /\ ~Holds(s))
  BY NoQueueCall DEF Queue!Fail, Queue!LoadEnds, Queue!Close, QueueTypes, QueueCalls, Shows, Holds
<1>11. QueueTypes'
  BY <1>1, NoQueueCall DEF Queue!flags, QueueTypes
<1>12. RuledOn'
  BY <1>1, NoQueueCall DEF Queue!flags, QueueTypes, RuledOn
<1>13. ShownNext'
  BY <1>1, NoQueueCall DEF Queue!flags, QueueTypes, RuledOn, ShownNext, OneAtATime, Shows, Holds, Queue!FormFollowsRulings, Queue!InFlight
<1>14. OneAtATime'
  BY <1>1, NoQueueCall DEF Queue!flags, QueueTypes, OneAtATime, Shows, Holds, Queue!FormFollowsRulings, Queue!InFlight
<1>15. Queue!FormFollowsRulings'
  BY <1>1, NoQueueCall DEF Queue!flags, QueueTypes, RuledOn, ShownNext, OneAtATime, Shows, Holds, Queue!FormFollowsRulings, Queue!InFlight
<1> QED BY <1>11, <1>12, <1>13, <1>14, <1>15

LEMMA QueueInitHolds == Queue!Init => QueueInv
<1> SUFFICES ASSUME Queue!Init PROVE QueueInv
  OBVIOUS
<1>1. PICK s \in Slots :
        call = [x \in Slots |-> IF x = s THEN Queue!NewCall("load", NoCase, FALSE) ELSE Queue!NoCall]
  BY DEF Queue!Init
<1>2. /\ DOMAIN call = Slots /\ \A x \in Slots : x # s => call[x] = Queue!NoCall
      /\ call[s] \in QueueCalls /\ call[s].kind = "load" /\ call[s].recovers = FALSE
      /\ call[s].answer = {}
  BY <1>1 DEF Queue!NewCall, QueueCalls
<1>3. QueueTypes
  <2>1. /\ status \in [QueueCases -> {"absent", "pending", "final"}]
        /\ items \subseteq QueueCases /\ settled \subseteq QueueCases
        /\ {isLoading, isLoadingDetail, isSubmitting} \subseteq BOOLEAN
    BY DEF Queue!Init
  <2>2. selected \in [id : QueueCases \cup {NoCase},
                     status : {"none", "absent", "pending", "final"}]
    BY DEF Queue!Init, Queue!Nothing
  <2> QED BY <1>2, <2>1, <2>2 DEF QueueTypes
<1>4. RuledOn /\ ShownNext /\ OneAtATime /\ Queue!FormFollowsRulings
  BY <1>2, NoQueueCall
  DEF Queue!Init, Queue!Nothing, RuledOn, ShownNext, OneAtATime, Shows, Holds,
      Queue!FormFollowsRulings, Queue!InFlight
<1> QED BY <1>3, <1>4 DEF QueueInv

LEMMA QueueNextHolds == QueueInv /\ [Queue!Next]_(Queue!vars) => QueueInv'
<1>1. QueueInv /\ Queue!Next => QueueInv'
  BY ElsewhereQueueHolds, ServeQueueHolds, RefreshQueueHolds, SelectQueueHolds, SubmitQueueHolds,
     ReceiveQueueQueueHolds, ReceiveDetailQueueHolds, ReceiveSavedQueueHolds,
     ReceiveConflictQueueHolds, FailQueueHolds
  DEF Queue!Next
<1>2. QueueInv /\ UNCHANGED Queue!vars => QueueInv'
  <2> SUFFICES ASSUME QueueInv, UNCHANGED Queue!vars PROVE QueueInv'
    OBVIOUS
  <2> USE DEF Queue!vars, Queue!console, Queue!flags, QueueInv
  <2>1. QueueTypes'
    BY DEF QueueTypes
  <2>2. RuledOn' /\ ShownNext'
    BY DEF RuledOn, ShownNext, Shows
  <2>3. OneAtATime' /\ Queue!FormFollowsRulings'
    BY DEF OneAtATime, Shows, Holds, Queue!FormFollowsRulings, Queue!InFlight
  <2> QED BY <2>1, <2>2, <2>3
<1> QED BY <1>1, <1>2

-----------------------------------------------------------------------------
(***************************************************************************)
(* The review history.                                                      *)
(***************************************************************************)

\* Newest first, and so without a case twice.
InOrder(list) == \A i, j \in DOMAIN list : i < j => History!Newer(list[i], list[j])

\* A cursor is after the last of the cases it follows, all of its filter.
Follows(cursor, f, list) ==
  cursor # History!NoCursor =>
    /\ cursor.filter = f /\ cursor.last \in History!Range(list)
    /\ \A c \in History!Range(list) : c = cursor.last \/ History!Newer(c, cursor.last)

\* Nothing due is missing in a list that goes from one cursor down to another.
Complete(list, cursor, next, dues) ==
  \A c \in dues :
    History!Below(c, cursor) /\ (next = History!NoCursor \/ ~History!Below(c, next)) =>
      c \in History!Range(list)

\* A page of a filter, asked for from a cursor on.
PageFits(page, f, cursor) ==
  /\ History!Range(page.items) \subseteq History!History(f)
  /\ InOrder(page.items) /\ Follows(page.next, f, page.items)
  /\ \A c \in History!Range(page.items) : History!Below(c, cursor)
  /\ page.due \subseteq History!History(f) /\ Complete(page.items, cursor, page.next, page.due)

\* What is shown is one page as well, from the beginning on.
ShownPage == [items |-> items, next |-> nextCursor, due |-> due, ok |-> TRUE]

Awaits(s, kind) == call[s].kind = kind /\ call[s].live
Lists(s) == call[s].kind \in {"load", "more"}

\* A flag is up while a request is awaited, and one of a kind is at a time.
AwaitedOnce ==
  /\ isLoading <=> \E s \in HistorySlots : Awaits(s, "load")
  /\ isLoadingMore <=> \E s \in HistorySlots : Awaits(s, "more")
  /\ isLoadingDetail <=> \E s \in HistorySlots : Awaits(s, "detail")
  /\ \A r, s \in HistorySlots, kind \in History!Kinds :
       Awaits(r, kind) /\ Awaits(s, kind) => r = s
  /\ \A r, s \in HistorySlots : Awaits(r, "load") => ~Awaits(s, "more") /\ ~Awaits(s, "detail")

\* What is awaited is for what is shown.
AwaitedFits ==
  \A s \in HistorySlots :
    /\ Awaits(s, "load") => call[s].filter = filter
    /\ Awaits(s, "more") => call[s].filter = filter /\ call[s].cursor = nextCursor
    /\ Awaits(s, "detail") => call[s].id \in History!Range(items)

\* What requests carry: a first page has no cursor, another one that of its filter.
CursorsFit ==
  \A s \in HistorySlots :
    /\ call[s].kind = "load" => call[s].cursor = History!NoCursor
    /\ call[s].kind = "more" =>
         /\ call[s].cursor # History!NoCursor /\ call[s].cursor.filter = call[s].filter
         /\ status[call[s].cursor.last] \in Outcomes

\* What is in an answer.  (A bound name stands for the page itself, in a later state too.)
PagesFit ==
  \A s \in HistorySlots :
    \A page \in {call[s].answer}, f \in {call[s].filter}, cursor \in {call[s].cursor} :
      Lists(s) /\ page.ok =>
        PageFits(page, f, cursor) /\ (Awaits(s, "more") => due \subseteq page.due)

\* What is shown.
ShownFits ==
  /\ \A page \in {ShownPage}, f \in {filter} : PageFits(page, f, History!NoCursor)
  /\ selected \in History!Range(items) \cup {NoCase}

HistoryInv ==
  History!TypeOK /\ AwaitedOnce /\ AwaitedFits /\ CursorsFit /\ PagesFit /\ ShownFits

\* What is counted here and there is the same.
LEMMA SameCount ==
  /\ \A S : History!IsFiniteSet(S) <=> IsFiniteSet(S)
  /\ \A S : History!Cardinality(S) = Cardinality(S)
<1>1. \A S : History!IsFiniteSet(S) <=> IsFiniteSet(S)
  BY DEF History!IsFiniteSet, IsFiniteSet
<1>2. \A S : History!Cardinality(S) = Cardinality(S)
  BY DEF History!Cardinality, Cardinality
<1> QED BY <1>1, <1>2

LEMMA HistoryFits ==
  /\ HistoryCases \subseteq Nat /\ IsFiniteSet(HistoryCases) /\ Times \subseteq Nat
  /\ PageSize \in Nat /\ PageSize > 0 /\ NoCase \notin HistoryCases
  /\ "pending" \notin Outcomes /\ "completed" \notin Outcomes
<1>1. History!HistoryAssumption
  BY ConsoleAssumption
<1>2. Outcomes \cap {"pending", "completed"} = {}
  BY <1>1 DEF History!HistoryAssumption
<1>3. \A x \in {"pending", "completed"} : x \notin Outcomes
  BY <1>2
<1> QED BY <1>1, <1>3, SameCount DEF History!HistoryAssumption

\* Each of as many things has one of as many places, if no two have the same.
AsMany(S, T) == IsFiniteSet(T) /\ Cardinality(S) = Cardinality(T)
Apart(f, S) == \A x, y \in S : f[x] = f[y] => x = y
Fills(f, S, T) == \A t \in T : \E x \in S : f[x] = t

LEMMA AsManyPlaces ==
  \A S, T, f : AsMany(S, T) /\ f \in [S -> T] /\ Apart(f, S) => Fills(f, S, T)
<1> SUFFICES ASSUME NEW S, NEW T, NEW f \in [S -> T], AsMany(S, T), Apart(f, S)
             PROVE  Fills(f, S, T)
  OBVIOUS
<1>1. f \in Injection(S, T)
  BY DEF Injection, IsInjective, Apart
<1>2. f \in Surjection(S, T)
  BY <1>1, FS_Injection DEF AsMany
<1> QED BY <1>2 DEF Surjection, Fills

LEMMA NewerOrders ==
  ASSUME History!TypeOK
  PROVE  /\ \A c \in HistoryCases : ~History!Newer(c, c)
         /\ \A c, d \in HistoryCases : History!Newer(c, d) => ~History!Newer(d, c)
         /\ \A c, d \in HistoryCases : c = d \/ History!Newer(c, d) \/ History!Newer(d, c)
         /\ \A c, d, e \in HistoryCases :
              History!Newer(c, d) /\ History!Newer(d, e) => History!Newer(c, e)
<1>1. \A c \in HistoryCases : c \in Nat /\ reviewedAt[c] \in Nat
  <2>1. reviewedAt \in [HistoryCases -> Times \cup {0}]
    BY DEF History!TypeOK
  <2>2. \A t \in Times \cup {0} : t \in Nat
    BY HistoryFits
  <2> QED BY <2>1, <2>2, HistoryFits
<1> QED BY <1>1 DEF History!Newer

\* Any cases can be put in order.
LEMMA CanBeOrdered ==
  ASSUME History!TypeOK, NEW rows \in SUBSET HistoryCases
  PROVE  /\ IsFiniteSet(rows) /\ Cardinality(rows) \in Nat
         /\ \E list \in [1 .. Cardinality(rows) -> rows] :
              \A i, j \in DOMAIN list : i < j => History!Newer(list[i], list[j])
<1> DEFINE n == Cardinality(rows)
           upTo(c) == {d \in rows : d = c \/ History!Newer(d, c)}
           place == [c \in rows |-> Cardinality(upTo(c))]
<1>1. IsFiniteSet(rows) /\ n \in Nat
  BY HistoryFits, FS_Subset, FS_CardinalityType
<1>2. ASSUME NEW c \in rows
      PROVE  /\ IsFiniteSet(upTo(c)) /\ Cardinality(upTo(c)) \in Nat
             /\ Cardinality(upTo(c)) <= n /\ Cardinality(upTo(c)) # 0
  <2>1. upTo(c) \in SUBSET rows /\ c \in upTo(c)
    OBVIOUS
  <2> HIDE DEF upTo
  <2>2. IsFiniteSet(upTo(c)) /\ Cardinality(upTo(c)) <= n
    BY <1>1, <2>1, FS_Subset
  <2> QED BY <2>1, <2>2, FS_CardinalityType, FS_EmptySet
<1>3. ASSUME NEW c \in rows, NEW d \in rows, History!Newer(c, d)
      PROVE  place[c] < place[d]
  <2>1. upTo(c) \in SUBSET upTo(d)
    BY <1>3, NewerOrders
  <2>2. d \in upTo(d) /\ d \notin upTo(c)
    BY <1>3, NewerOrders
  <2>3. upTo(c) # upTo(d)
    BY <2>2
  <2>4. place[c] = Cardinality(upTo(c)) /\ place[d] = Cardinality(upTo(d))
    OBVIOUS
  <2> HIDE DEF upTo, place
  <2>5. /\ Cardinality(upTo(c)) <= Cardinality(upTo(d))
        /\ Cardinality(upTo(c)) # Cardinality(upTo(d))
    BY <1>2, <2>1, <2>3, FS_Subset
  <2> QED BY <1>2, <2>4, <2>5
<1>4. place \in [rows -> 1 .. n]
  BY <1>1, <1>2
<1> HIDE DEF place, n
<1>5. \A c, d \in rows : place[c] = place[d] => c = d
  BY <1>3, <1>4, NewerOrders
<1>6. \A i \in 1 .. n : \E c \in rows : place[c] = i
  <2>1. IsFiniteSet(1 .. n) /\ Cardinality(1 .. n) = n
    BY <1>1, FS_Interval
  <2>2. Cardinality(rows) = Cardinality(1 .. n)
    BY <2>1 DEF n
  <2>3. AsMany(rows, 1 .. n) /\ Apart(place, rows)
    BY <1>5, <2>1, <2>2 DEF AsMany, Apart
  <2>4. Fills(place, rows, 1 .. n)
    BY <1>4, <2>3, AsManyPlaces
  <2> QED BY <2>4 DEF Fills
<1> DEFINE list == [i \in 1 .. n |-> CHOOSE c \in rows : place[c] = i]
<1>7. \A i \in 1 .. n : list[i] \in rows /\ place[list[i]] = i
  BY <1>6
<1>8. list \in [1 .. n -> rows] /\ DOMAIN list = 1 .. n
  BY <1>7
<1> HIDE DEF list
<1>9. ASSUME NEW i \in 1 .. n, NEW j \in 1 .. n, i < j
      PROVE  History!Newer(list[i], list[j])
  <2>1. list[i] \in rows /\ list[j] \in rows /\ place[list[i]] = i /\ place[list[j]] = j
    BY <1>7
  <2>2. list[i] # list[j]
    BY <1>9, <2>1
  <2>3. ~History!Newer(list[j], list[i])
    BY <1>3, <1>9, <2>1
  <2> QED BY <2>1, <2>2, <2>3, NewerOrders
<1> QED BY <1>1, <1>8, <1>9 DEF n

\* The rows of a request are all there, in order.
LEMMA RowsInOrder ==
  ASSUME History!TypeOK, NEW f, NEW cursor,
         NEW rows, rows = {c \in History!History(f) : History!Below(c, cursor)}
  PROVE  LET list == History!Rows(f, cursor) IN
         /\ list \in Seq(HistoryCases) /\ DOMAIN list = 1 .. Len(list)
         /\ InOrder(list) /\ History!Range(list) = rows
<1>1. rows \in SUBSET HistoryCases
  BY DEF History!History
<1> DEFINE n == Cardinality(rows)
           list == CHOOSE l \in [1 .. n -> rows] :
                     \A i, j \in DOMAIN l : i < j => History!Newer(l[i], l[j])
<1>2. IsFiniteSet(rows) /\ n \in Nat
  BY <1>1, CanBeOrdered
<1>3. /\ list \in [1 .. n -> rows]
      /\ \A i, j \in DOMAIN list : i < j => History!Newer(list[i], list[j])
  BY <1>1, CanBeOrdered
<1>4. History!Rows(f, cursor) = list
  BY SameCount DEF History!Rows
<1> HIDE DEF list, n
<1>5. \A i, j \in 1 .. n : list[i] = list[j] => i = j
  <2>1. \A i, j \in 1 .. n : i < j => list[i] # list[j]
    BY <1>1, <1>3, NewerOrders
  <2> QED BY <1>2, <2>1
<1>6. \A c \in rows : \E i \in 1 .. n : list[i] = c
  <2>1. IsFiniteSet(1 .. n) /\ Cardinality(1 .. n) = n
    BY <1>2, FS_Interval
  <2>2. Cardinality(1 .. n) = Cardinality(rows)
    BY <2>1 DEF n
  <2>3. AsMany(1 .. n, rows) /\ Apart(list, 1 .. n)
    BY <1>2, <1>5, <2>2 DEF AsMany, Apart
  <2>4. Fills(list, 1 .. n, rows)
    BY <1>3, <2>3, AsManyPlaces
  <2> QED BY <2>4 DEF Fills
<1>7. History!Range(list) = rows
  BY <1>3, <1>6 DEF History!Range
<1>8. list \in Seq(HistoryCases) /\ DOMAIN list = 1 .. Len(list)
  BY <1>1, <1>2, <1>3
<1> QED BY <1>3, <1>4, <1>7, <1>8 DEF InOrder

LEMMA HistoryCalls ==
  /\ \A x \in History!Calls :
       /\ x.kind \in {"load", "more", "detail", "none"} /\ x.filter \in History!Filters
       /\ x.cursor \in History!Cursors /\ x.id \in HistoryCases \cup {NoCase} /\ x.live \in BOOLEAN
       /\ x.answer \in History!Answers
  /\ \A a \in History!Answers :
       /\ a.items \in Seq(HistoryCases) /\ a.next \in History!Cursors
       /\ a.due \subseteq HistoryCases /\ a.ok \in BOOLEAN
  /\ \A x \in History!Cursors : x # History!NoCursor =>
       x.filter \in History!Filters /\ x.last \in HistoryCases
BY DEF History!Calls, History!Kinds, History!Answers, History!Cursors

\* One page is what a page has to be.
LEMMA PageIsRight ==
  ASSUME History!TypeOK, NEW f \in History!Filters, NEW cursor \in History!Cursors
  PROVE  LET page == History!Page(f, cursor) IN
         /\ page \in History!Answers /\ page.ok = TRUE /\ page.due = History!History(f)
         /\ PageFits(page, f, cursor)
<1> DEFINE rows == {c \in History!History(f) : History!Below(c, cursor)}
           list == History!Rows(f, cursor)
           size == IF Len(list) <= PageSize THEN Len(list) ELSE PageSize
           shown == SubSeq(list, 1, size)
           next == IF Len(list) <= PageSize THEN History!NoCursor
                   ELSE [filter |-> f, last |-> list[PageSize]]
           page == History!Page(f, cursor)
<1>1. /\ list \in Seq(HistoryCases) /\ DOMAIN list = 1 .. Len(list)
      /\ InOrder(list) /\ History!Range(list) = rows
  BY RowsInOrder
<1>2. History!History(f) \in SUBSET HistoryCases
  BY DEF History!History
<1>3. page = [items |-> IF Len(list) <= PageSize THEN list ELSE SubSeq(list, 1, PageSize),
              next |-> next, due |-> History!History(f), ok |-> TRUE]
  BY DEF History!Page
<1> HIDE DEF list, page, rows
<1>4. Len(list) <= PageSize => SubSeq(list, 1, Len(list)) = list
  BY <1>1
<1>5. page = [items |-> shown, next |-> next, due |-> History!History(f), ok |-> TRUE]
  BY <1>3, <1>4
<1>6. /\ size \in Nat /\ size <= Len(list) /\ shown \in Seq(HistoryCases)
      /\ DOMAIN shown = 1 .. size /\ \A i \in 1 .. size : shown[i] = list[i]
  BY <1>1, HistoryFits
<1>7. next \in History!Cursors
  <2>1. Len(list) > PageSize => list[PageSize] \in HistoryCases
    BY <1>1, HistoryFits
  <2>2. CASE Len(list) <= PageSize
    BY <2>2 DEF History!Cursors
  <2>3. CASE ~(Len(list) <= PageSize)
    <3>1. next = [filter |-> f, last |-> list[PageSize]]
      BY <2>3
    <3>2. list[PageSize] \in HistoryCases
      BY <1>1, <2>1, <2>3, HistoryFits
    <3> HIDE DEF next
    <3>3. next \in [filter : History!Filters, last : HistoryCases]
      BY <3>1, <3>2
    <3> QED BY <3>3 DEF History!Cursors
  <2> QED BY <2>2, <2>3
<1>8. page \in History!Answers
  BY <1>2, <1>5, <1>6, <1>7 DEF History!Answers
<1>9. \A c \in rows : c \in HistoryCases /\ c \in History!History(f) /\ History!Below(c, cursor)
  BY <1>2 DEF rows
<1>10. History!Range(shown) \subseteq rows
  BY <1>1, <1>6 DEF History!Range
<1>11. InOrder(shown)
  BY <1>1, <1>6 DEF InOrder
<1>12. ASSUME Len(list) > PageSize
       PROVE  /\ size = PageSize /\ next.filter = f /\ next.last = list[size] /\ next # History!NoCursor
              /\ size \in 1 .. Len(list) /\ list[size] \in HistoryCases
  <2>1. NoCase \notin HistoryCases /\ list[PageSize] \in HistoryCases
    BY <1>1, <1>12, HistoryFits
  <2> QED BY <1>1, <1>12, <2>1, HistoryFits DEF History!NoCursor
<1> HIDE DEF next, size, shown
<1>13. Follows(next, f, shown)
  <2>1. CASE Len(list) > PageSize
    <3>1. next.last = shown[size] /\ size \in DOMAIN shown
      BY <1>6, <1>12, <2>1
    <3>2. \A i \in DOMAIN shown : i = size \/ History!Newer(shown[i], shown[size])
      BY <1>6, <1>11, <1>12, <2>1 DEF InOrder
    <3> QED BY <1>12, <2>1, <3>1, <3>2 DEF Follows, History!Range
  <2>2. CASE ~(Len(list) > PageSize)
    BY <1>1, <2>2, HistoryFits DEF Follows, next
  <2> QED BY <2>1, <2>2
<1>14. Complete(shown, cursor, next, History!History(f))
  <2> SUFFICES ASSUME NEW c \in rows, next = History!NoCursor \/ ~History!Below(c, next)
               PROVE  c \in History!Range(shown)
    BY DEF Complete, rows
  <2>1. PICK i \in 1 .. Len(list) : list[i] = c
    BY <1>1 DEF History!Range
  <2>2. CASE Len(list) > PageSize
    <3>1. ~History!Newer(list[size], list[i])
      BY <1>12, <2>1, <2>2 DEF History!Below
    <3>2. i <= size
      BY <1>1, <1>12, <2>2, <3>1 DEF InOrder
    <3> QED BY <1>6, <1>12, <2>1, <2>2, <3>2 DEF History!Range
  <2>3. CASE ~(Len(list) > PageSize)
    <3>1. size = Len(list)
      <4>1. Len(list) \in Nat
        BY <1>1
      <4> QED BY <2>3, <4>1, HistoryFits DEF size
    <3> QED BY <1>6, <2>1, <3>1 DEF History!Range
  <2> QED BY <2>2, <2>3
<1>16. page.items = shown /\ page.next = next /\ page.ok = TRUE /\ page.due = History!History(f)
  BY <1>5
<1> QED BY <1>8, <1>9, <1>10, <1>11, <1>13, <1>14, <1>16 DEF PageFits, page

\* A page goes on from the one before: together they are one page.
LEMMA PagesJoin ==
  ASSUME History!TypeOK, NEW f \in History!Filters,
         NEW a \in History!Answers, NEW b \in History!Answers, a.next # History!NoCursor,
         PageFits(a, f, History!NoCursor), PageFits(b, f, a.next), a.due \subseteq b.due
  PROVE  /\ History!Range(a.items) \cap History!Range(b.items) = {}
         /\ PageFits([items |-> a.items \o b.items, next |-> b.next, due |-> a.due, ok |-> TRUE],
                     f, History!NoCursor)
<1> DEFINE list == a.items \o b.items
           n == Len(a.items)
           m == Len(b.items)
<1>1. /\ a.items \in Seq(HistoryCases) /\ b.items \in Seq(HistoryCases)
      /\ a.next.last \in HistoryCases
  BY HistoryCalls
<1>2. /\ n \in Nat /\ m \in Nat /\ DOMAIN a.items = 1 .. n /\ DOMAIN b.items = 1 .. m
      /\ list \in Seq(HistoryCases) /\ DOMAIN list = 1 .. n + m
      /\ \A i \in 1 .. n : list[i] = a.items[i]
      /\ \A i \in 1 .. m : n + i \in 1 .. n + m /\ list[n + i] = b.items[i]
  <2>1. /\ n \in Nat /\ m \in Nat /\ DOMAIN a.items = 1 .. n /\ DOMAIN b.items = 1 .. m
        /\ list \in Seq(HistoryCases) /\ Len(list) = n + m /\ DOMAIN list = 1 .. n + m
    BY <1>1
  <2>2. \A i \in 1 .. n + m : list[i] = IF i <= n THEN a.items[i] ELSE b.items[i - n]
    BY <1>1, <2>1, ConcatProperties
  <2> HIDE DEF list, n, m
  <2>4. \A i \in 1 .. n : i \in 1 .. n + m /\ i <= n
    BY <2>1
  <2>3. \A i \in 1 .. m : n + i \in 1 .. n + m /\ ~(n + i <= n) /\ n + i - n = i
    BY <2>1
  <2>5. ASSUME NEW i \in 1 .. m PROVE list[n + i] = b.items[i]
    <3> DEFINE k == n + i
    <3>1. k \in 1 .. n + m /\ ~(k <= n) /\ k - n = i
      BY <2>1
    <3> HIDE DEF k
    <3>2. list[k] = b.items[k - n]
      BY <2>2, <3>1
    <3> QED BY <3>1, <3>2 DEF k
  <2>6. \A i \in 1 .. n : list[i] = a.items[i]
    BY <2>2, <2>4
  <2> QED BY <2>1, <2>3, <2>5, <2>6
<1>3. /\ \A i \in 1 .. n : a.items[i] \in HistoryCases
      /\ \A i \in 1 .. m : b.items[i] \in HistoryCases
  BY <1>1, <1>2
<1> HIDE DEF list, n, m
<1>4. History!Range(list) = History!Range(a.items) \cup History!Range(b.items)
  <2>1. \A i \in 1 .. m : n + i \in 1 .. n + m
    BY <1>2
  <2>2. \A i \in 1 .. n : i \in 1 .. n + m
    BY <1>2
  <2>3. \A i \in 1 .. n + m : i \in 1 .. n \/ \E j \in 1 .. m : i = n + j
    <3> SUFFICES ASSUME NEW i \in 1 .. n + m, i \notin 1 .. n PROVE \E j \in 1 .. m : i = n + j
      OBVIOUS
    <3>1. i - n \in 1 .. m /\ i = n + (i - n)
      BY <1>2
    <3> QED BY <3>1
  <2>4. History!Range(a.items) = {list[i] : i \in 1 .. n}
    BY <1>2 DEF History!Range
  <2>5. History!Range(b.items) = {list[n + i] : i \in 1 .. m}
    <3>1. \A i \in DOMAIN b.items : b.items[i] = list[n + i]
      BY <1>2
    <3> QED BY <1>2, <3>1 DEF History!Range
  <2>6. History!Range(list) = {list[i] : i \in 1 .. n + m}
    BY <1>2 DEF History!Range
  <2>7. \A c \in History!Range(list) : c \in History!Range(a.items) \/ c \in History!Range(b.items)
    <3> SUFFICES ASSUME NEW i \in 1 .. n + m
                 PROVE  list[i] \in History!Range(a.items) \/ list[i] \in History!Range(b.items)
      BY <2>6
    <3>1. CASE i \in 1 .. n
      BY <2>4, <3>1
    <3>2. CASE i \notin 1 .. n
      <4>1. PICK j \in 1 .. m : i = n + j
        BY <2>3, <3>2
      <4> QED BY <2>5, <4>1
    <3> QED BY <3>1, <3>2
  <2>8. \A c \in History!Range(b.items) : c \in History!Range(list)
    <3> SUFFICES ASSUME NEW i \in 1 .. m PROVE list[n + i] \in History!Range(list)
      BY <2>5
    <3>1. n + i \in 1 .. n + m
      BY <2>1
    <3> QED BY <2>6, <3>1
  <2>9. \A c \in History!Range(a.items) : c \in History!Range(list)
    BY <2>2, <2>4, <2>6
  <2> QED BY <2>7, <2>8, <2>9
<1>5. \A c \in History!Range(a.items) : c \in HistoryCases /\ (c = a.next.last \/ History!Newer(c, a.next.last))
  BY <1>2, <1>3 DEF PageFits, Follows, History!Range
<1>6. \A c \in History!Range(b.items) : c \in HistoryCases /\ History!Newer(a.next.last, c)
  BY <1>2, <1>3 DEF PageFits, History!Below, History!Range
<1>7. \A c \in History!Range(a.items), d \in History!Range(b.items) : History!Newer(c, d)
  BY <1>1, <1>5, <1>6, NewerOrders
<1>8. History!Range(a.items) \cap History!Range(b.items) = {}
  BY <1>5, <1>7, NewerOrders
<1>9. InOrder(list)
  <2> SUFFICES ASSUME NEW i \in 1 .. n + m, NEW j \in 1 .. n + m, i < j
               PROVE  History!Newer(list[i], list[j])
    BY <1>2 DEF InOrder
  <2>1. CASE i \in 1 .. n /\ j \in 1 .. n
    BY <1>2, <2>1 DEF PageFits, InOrder
  <2>2. CASE i \in 1 .. n /\ j \notin 1 .. n
    <3>1. j - n \in 1 .. m /\ list[j] = b.items[j - n]
      <4>1. j - n \in 1 .. m /\ j = n + (j - n)
        BY <1>2, <2>2
      <4> QED BY <1>2, <4>1
    <3>2. list[i] \in History!Range(a.items) /\ list[j] \in History!Range(b.items)
      BY <1>2, <2>2, <3>1 DEF History!Range
    <3> QED BY <1>7, <3>2
  <2>3. CASE i \notin 1 .. n
    <3>1. /\ i - n \in 1 .. m /\ i = n + (i - n) /\ j - n \in 1 .. m /\ j = n + (j - n)
          /\ i - n < j - n
      BY <1>2, <2>3
    <3>2. list[i] = b.items[i - n] /\ list[j] = b.items[j - n]
      BY <1>2, <3>1
    <3> QED BY <1>2, <3>1, <3>2 DEF PageFits, InOrder
  <2> QED BY <2>1, <2>2, <2>3
<1>10. Follows(b.next, f, list)
  <2>1. ASSUME b.next # History!NoCursor, NEW c \in History!Range(a.items)
        PROVE  History!Newer(c, b.next.last)
    BY <1>7, <2>1 DEF PageFits, Follows
  <2> QED BY <1>4, <2>1 DEF PageFits, Follows
<1>11. Complete(list, History!NoCursor, b.next, a.due)
  <2> SUFFICES ASSUME NEW c \in a.due, b.next = History!NoCursor \/ ~History!Below(c, b.next),
                      c \notin History!Range(a.items)
               PROVE  c \in History!Range(b.items)
    BY <1>4 DEF Complete
  <2>1. History!Below(c, a.next)
    BY DEF PageFits, Complete, History!Below
  <2> QED BY <2>1 DEF PageFits, Complete
<1>12. History!Range(list) \subseteq History!History(f) /\ a.due \subseteq History!History(f)
  BY <1>4 DEF PageFits
<1>13. \A c \in History!Range(list) : History!Below(c, History!NoCursor)
  BY DEF History!Below
<1>14. PageFits([items |-> list, next |-> b.next, due |-> a.due, ok |-> TRUE], f, History!NoCursor)
  BY <1>9, <1>10, <1>11, <1>12, <1>13 DEF PageFits
<1> QED BY <1>8, <1>14 DEF list

\* A page of other cases than those shown stays whole.
LEMMA UnseenIsAll ==
  ASSUME NEW page \in Seq(HistoryCases),
         History!Range(items) \cap History!Range(page) = {}
  PROVE  History!Unseen(page) = page
<1> DEFINE fresh == {i \in DOMAIN page : page[i] \notin History!Range(items)}
           n == Len(page)
           seen(k) == CHOOSE i \in fresh : History!Cardinality({j \in fresh : j <= i}) = k
<1>1. n \in Nat /\ DOMAIN page = 1 .. n /\ page = [i \in 1 .. n |-> page[i]]
  OBVIOUS
<1>2. fresh = 1 .. n
  BY <1>1 DEF History!Range
<1>3. ASSUME NEW i \in 1 .. n
      PROVE  History!Cardinality({j \in fresh : j <= i}) = i
  <2>1. {j \in fresh : j <= i} = 1 .. i
    BY <1>1, <1>2
  <2>2. Cardinality(1 .. i) = i
    <3>1. i \in Int /\ i >= 1
      BY <1>1
    <3> QED BY <3>1, FS_Interval
  <2> QED BY <2>1, <2>2, SameCount
<1>4. History!Cardinality(fresh) = n
  <2>1. Cardinality(1 .. n) = n
    BY <1>1, FS_Interval
  <2> QED BY <1>2, <2>1, SameCount
<1>5. ASSUME NEW k \in 1 .. n
      PROVE  seen(k) = k
  BY <1>2, <1>3
<1>6. History!Unseen(page) = [k \in 1 .. History!Cardinality(fresh) |-> page[seen(k)]]
  BY DEF History!Unseen
<1> HIDE DEF seen, fresh
<1> QED BY <1>1, <1>4, <1>5, <1>6

\* The first of two lists begins the joined one.
LEMMA FirstListFirst ==
  ASSUME NEW S, NEW first \in Seq(S), NEW second \in Seq(S)
  PROVE  \A i \in DOMAIN first :
           i \in DOMAIN (first \o second) /\ (first \o second)[i] = first[i]
<1>1. /\ DOMAIN first = 1 .. Len(first) /\ Len(first) \in Nat /\ Len(second) \in Nat
      /\ DOMAIN (first \o second) = 1 .. Len(first) + Len(second)
  OBVIOUS
<1> QED BY <1>1

\* What the kinds of a request come to.
LEMMA HistoryRequests ==
  /\ History!Kinds = {"load", "more", "detail"}
  /\ History!Idle.kind = "none" /\ History!Idle.live = FALSE /\ History!Idle \in History!Calls
  /\ \A kind \in History!Kinds, f \in History!Filters, cursor \in History!Cursors,
        id \in HistoryCases \cup {NoCase} :
       LET new == History!NewCall(kind, f, cursor, id) IN
       /\ new \in History!Calls /\ new.kind = kind /\ new.filter = f /\ new.cursor = cursor
       /\ new.id = id /\ new.live = TRUE /\ new.answer = History!NoAnswer
  /\ History!NoAnswer \in History!Answers /\ History!NoAnswer.ok = FALSE
  /\ History!NoCursor \in History!Cursors /\ "completed" \in History!Filters
<1>1. History!NoAnswer \in History!Answers /\ History!NoAnswer.ok = FALSE
  BY DEF History!NoAnswer, History!Answers, History!Cursors
<1>2. History!NoCursor \in History!Cursors /\ "completed" \in History!Filters
  BY DEF History!Cursors, History!Filters
<1>3. History!Kinds = {"load", "more", "detail"}
  BY DEF History!Kinds
<1>4. ASSUME NEW kind \in History!Kinds, NEW f \in History!Filters,
             NEW cursor \in History!Cursors, NEW id \in HistoryCases \cup {NoCase}
      PROVE  LET new == History!NewCall(kind, f, cursor, id) IN
             /\ new \in History!Calls /\ new.kind = kind /\ new.filter = f /\ new.cursor = cursor
             /\ new.id = id /\ new.live = TRUE /\ new.answer = History!NoAnswer
  BY <1>1 DEF History!NewCall, History!Calls
<1>5. History!Idle.kind = "none" /\ History!Idle.live = FALSE /\ History!Idle \in History!Calls
  <2>1. History!Idle = [kind |-> "none", filter |-> "completed", cursor |-> History!NoCursor,
                        id |-> NoCase, live |-> FALSE, answer |-> History!NoAnswer]
    <3> DEFINE new == History!NewCall("none", "completed", History!NoCursor, NoCase)
    <3>1. new = [kind |-> "none", filter |-> "completed", cursor |-> History!NoCursor,
                 id |-> NoCase, live |-> TRUE, answer |-> History!NoAnswer]
      BY DEF History!NewCall
    <3>2. History!Idle = [new EXCEPT !.live = FALSE]
      BY DEF History!Idle
    <3> HIDE DEF new
    <3> QED BY <3>1, <3>2
  <2>2. NoCase \in HistoryCases \cup {NoCase} /\ FALSE \in BOOLEAN /\ "none" \in History!Kinds \cup {"none"}
    OBVIOUS
  <2>3. History!Idle \in History!Calls
    BY <1>1, <1>2, <2>1, <2>2 DEF History!Calls
  <2> QED BY <2>1, <2>3
<1> QED BY <1>1, <1>2, <1>3, <1>4, <1>5

LEMMA HistoryTypes ==
  ASSUME History!TypeOK
  PROVE  /\ call \in [HistorySlots -> History!Calls]
         /\ \A s \in HistorySlots : call[s] \in History!Calls
         /\ filter \in History!Filters /\ items \in Seq(HistoryCases)
         /\ nextCursor \in History!Cursors /\ due \subseteq HistoryCases
         /\ isLoading \in BOOLEAN /\ isLoadingMore \in BOOLEAN /\ isLoadingDetail \in BOOLEAN
BY DEF History!TypeOK

\* While nothing is finalized every page stays what it is.
LEMMA PagesStay ==
  ASSUME UNCHANGED <<status, reviewedAt>>
  PROVE  \A page, f, cursor : PageFits(page, f, cursor)' <=> PageFits(page, f, cursor)
<1>1. \A c, d : History!Newer(c, d)' <=> History!Newer(c, d)
  BY DEF History!Newer
<1>2. \A f : History!History(f)' = History!History(f)
  BY DEF History!History
<1>3. \A c, cursor : History!Below(c, cursor)' <=> History!Below(c, cursor)
  BY <1>1 DEF History!Below
<1>4. \A list : InOrder(list)' <=> InOrder(list)
  BY <1>1 DEF InOrder
<1>5. \A cursor, f, list : Follows(cursor, f, list)' <=> Follows(cursor, f, list)
  BY <1>1 DEF Follows
<1>6. \A list, cursor, next, dues :
        Complete(list, cursor, next, dues)' <=> Complete(list, cursor, next, dues)
  BY <1>3 DEF Complete
<1> QED BY <1>2, <1>3, <1>4, <1>5, <1>6 DEF PageFits

\* A case is finalized: those that were stay as they were, and so does every page.
LEMMA FinalStays ==
  ASSUME History!TypeOK, NEW c \in HistoryCases, NEW outcome \in Outcomes, NEW t \in Times,
         History!Finalize(c, outcome, t)
  PROVE  /\ \A d \in HistoryCases : status[d] \in Outcomes => status'[d] \in Outcomes
         /\ \A page \in History!Answers, f \in History!Filters, cursor \in History!Cursors :
              /\ PageFits(page, f, cursor)
              /\ cursor # History!NoCursor => status[cursor.last] \in Outcomes
              => PageFits(page, f, cursor)'
<1>1. \A d \in HistoryCases : status[d] \in Outcomes =>
        status'[d] = status[d] /\ reviewedAt'[d] = reviewedAt[d]
  BY HistoryFits DEF History!Finalize, History!TypeOK
<1>2. \A f \in History!Filters : \A d : d \in History!History(f) =>
        d \in HistoryCases /\ status[d] \in Outcomes /\ d \in History!History(f)'
  BY <1>1, HistoryFits DEF History!Filters, History!History
<1>3. \A d, e \in HistoryCases : status[d] \in Outcomes /\ status[e] \in Outcomes =>
        (History!Newer(d, e)' <=> History!Newer(d, e))
  BY <1>1 DEF History!Newer
<1>4. ASSUME NEW page \in History!Answers, NEW f \in History!Filters, NEW cursor \in History!Cursors,
             PageFits(page, f, cursor),
             cursor # History!NoCursor => status[cursor.last] \in Outcomes
      PROVE  PageFits(page, f, cursor)'
  <2> USE <1>4 DEF PageFits
  <2>1. /\ History!Range(page.items) \subseteq History!History(f)'
        /\ page.due \subseteq History!History(f)'
    BY <1>2
  <2>2. InOrder(page.items)'
    <3>1. \A i \in DOMAIN page.items : page.items[i] \in History!History(f)
      BY DEF History!Range
    <3> QED BY <1>2, <1>3, <3>1 DEF InOrder
  <2>3. Follows(page.next, f, page.items)'
    BY <1>2, <1>3 DEF Follows
  <2>4. \A d \in History!History(f) : History!Below(d, cursor)' <=> History!Below(d, cursor)
    BY <1>2, <1>3, HistoryCalls DEF History!Below
  <2>5. \A d \in History!History(f) : History!Below(d, page.next)' <=> History!Below(d, page.next)
    BY <1>2, <1>3, HistoryCalls DEF History!Below, Follows
  <2>6. Complete(page.items, cursor, page.next, page.due)'
    BY <2>4, <2>5 DEF Complete
  <2>7. \A d \in History!Range(page.items) : History!Below(d, cursor)'
    BY <2>4
  <2> QED BY <2>1, <2>2, <2>3, <2>6, <2>7
<1> QED BY <1>1, <1>4

\* A request is made, and those of some kinds do not count any more; what comes of it.
Asks(s, kinds, kind, f, cursor, id) ==
  /\ call[s] = History!Idle
  /\ call' = [History!Superseded(kinds) EXCEPT ![s] = History!NewCall(kind, f, cursor, id)]

Asked(s, kinds, kind, f, cursor, id) ==
  /\ call' \in [HistorySlots -> History!Calls]
  /\ call'[s].kind = kind /\ call'[s].filter = f /\ call'[s].cursor = cursor
  /\ call'[s].id = id /\ call'[s].answer.ok = FALSE
  /\ \A r \in HistorySlots : r # s =>
       /\ call'[r].kind = call[r].kind /\ call'[r].filter = call[r].filter
       /\ call'[r].cursor = call[r].cursor /\ call'[r].id = call[r].id
       /\ call'[r].answer = call[r].answer
  /\ \A k \in History!Kinds : Awaits(s, k)' <=> k = kind
  /\ \A r \in HistorySlots, k \in History!Kinds : r # s =>
       (Awaits(r, k)' <=> Awaits(r, k) /\ k \notin kinds)
  /\ \A k \in History!Kinds : ~Awaits(s, k)

LEMMA HistoryAsked ==
  ASSUME HistoryInv, NEW s \in HistorySlots, NEW kinds, kinds \subseteq History!Kinds,
         NEW kind \in History!Kinds, NEW f \in History!Filters, NEW cursor \in History!Cursors,
         NEW id \in HistoryCases \cup {NoCase}, Asks(s, kinds, kind, f, cursor, id)
  PROVE  Asked(s, kinds, kind, f, cursor, id)
<1> USE DEF Asks
<1> DEFINE new == History!NewCall(kind, f, cursor, id)
<1>1. /\ new \in History!Calls /\ new.kind = kind /\ new.filter = f /\ new.cursor = cursor
      /\ new.id = id /\ new.live = TRUE /\ new.answer.ok = FALSE
  BY HistoryRequests
<1> HIDE DEF new
<1>2. \A r \in HistorySlots : call[r] \in History!Calls
  BY HistoryTypes DEF HistoryInv
<1>3. ASSUME NEW r \in HistorySlots
      PROVE  LET t == [call[r] EXCEPT !.live = FALSE] IN
             /\ t \in History!Calls /\ t.kind = call[r].kind /\ t.filter = call[r].filter
             /\ t.cursor = call[r].cursor /\ t.id = call[r].id /\ t.answer = call[r].answer
             /\ t.live = FALSE
  BY <1>2 DEF History!Calls
<1>4. History!Superseded(kinds) =
        [r \in HistorySlots |-> IF call[r].kind \in kinds THEN [call[r] EXCEPT !.live = FALSE] ELSE call[r]]
  BY DEF History!Superseded
<1>5. /\ DOMAIN call' = HistorySlots /\ call'[s] = new
      /\ \A r \in HistorySlots : r # s =>
           call'[r] = IF call[r].kind \in kinds THEN [call[r] EXCEPT !.live = FALSE] ELSE call[r]
      /\ call' = [r \in HistorySlots |-> call'[r]]
  BY <1>4 DEF new
<1>6. ASSUME NEW r \in HistorySlots, r # s
      PROVE  /\ call'[r] \in History!Calls
             /\ call'[r].kind = call[r].kind /\ call'[r].filter = call[r].filter
             /\ call'[r].cursor = call[r].cursor /\ call'[r].id = call[r].id
             /\ call'[r].answer = call[r].answer
             /\ call'[r].live <=> call[r].live /\ call[r].kind \notin kinds
  <2>1. CASE call[r].kind \in kinds
    <3>1. call'[r] = [call[r] EXCEPT !.live = FALSE]
      BY <1>5, <1>6, <2>1
    <3> QED BY <1>3, <2>1, <3>1
  <2>2. CASE call[r].kind \notin kinds
    BY <1>2, <1>5, <1>6, <2>2
  <2> QED BY <2>1, <2>2
<1>7. call' \in [HistorySlots -> History!Calls]
  <2>1. \A r \in HistorySlots : call'[r] \in History!Calls
    BY <1>1, <1>5, <1>6
  <2> QED BY <1>5, <2>1
<1>8. \A k \in History!Kinds : Awaits(s, k)' <=> k = kind
  BY <1>1, <1>5 DEF Awaits
<1>9. \A r \in HistorySlots, k \in History!Kinds : r # s =>
        (Awaits(r, k)' <=> Awaits(r, k) /\ k \notin kinds)
  BY <1>6 DEF Awaits
<1>10. \A k \in History!Kinds : ~Awaits(s, k)
  BY HistoryRequests DEF Awaits
<1> QED BY <1>1, <1>5, <1>6, <1>7, <1>8, <1>9, <1>10 DEF Asked

\* A request is over.
LEMMA HistoryClosed ==
  ASSUME HistoryInv, NEW s \in HistorySlots, call[s] # History!Idle, History!Close(s)
  PROVE  /\ call' \in [HistorySlots -> History!Calls]
         /\ isLoading' \in BOOLEAN /\ isLoadingMore' \in BOOLEAN /\ isLoadingDetail' \in BOOLEAN
         /\ call'[s].kind = "none"
         /\ \A r \in HistorySlots : r # s => call'[r] = call[r]
         /\ \A k \in History!Kinds : ~Awaits(s, k)'
         /\ \A r \in HistorySlots, k \in History!Kinds : r # s => (Awaits(r, k)' <=> Awaits(r, k))
         /\ AwaitedOnce'
<1>1. /\ call \in [HistorySlots -> History!Calls] /\ call[s] \in History!Calls
      /\ isLoading \in BOOLEAN /\ isLoadingMore \in BOOLEAN /\ isLoadingDetail \in BOOLEAN
  BY HistoryTypes DEF HistoryInv
<1>2. call' = [call EXCEPT ![s] = History!Idle]
  BY DEF History!Close
<1>3. call' \in [HistorySlots -> History!Calls]
  BY <1>1, <1>2, HistoryRequests
<1>4. call'[s] = History!Idle /\ \A r \in HistorySlots : r # s => call'[r] = call[r]
  BY <1>1, <1>2
<1>5. \A k \in History!Kinds : ~Awaits(s, k)'
  BY <1>4, HistoryRequests DEF Awaits
<1>6. \A r \in HistorySlots, k \in History!Kinds : r # s => (Awaits(r, k)' <=> Awaits(r, k))
  BY <1>4 DEF Awaits
<1>7. /\ isLoading' <=> isLoading /\ ~Awaits(s, "load")
      /\ isLoadingMore' <=> isLoadingMore /\ ~Awaits(s, "more")
      /\ isLoadingDetail' <=> isLoadingDetail /\ ~Awaits(s, "detail")
      /\ isLoading' \in BOOLEAN /\ isLoadingMore' \in BOOLEAN /\ isLoadingDetail' \in BOOLEAN
  BY <1>1 DEF History!Close, History!Counts, Awaits
<1>8. AwaitedOnce'
  <2> DEFINE some(k) == \E r \in HistorySlots : Awaits(r, k)
  <2>1. AwaitedOnce
    BY DEF HistoryInv
  <2>2. ASSUME NEW k \in History!Kinds
        PROVE  (\E r \in HistorySlots : Awaits(r, k)') <=> some(k) /\ ~Awaits(s, k)
    BY <1>5, <1>6, <2>1 DEF AwaitedOnce
  <2>3. /\ isLoading' <=> \E r \in HistorySlots : Awaits(r, "load")'
        /\ isLoadingMore' <=> \E r \in HistorySlots : Awaits(r, "more")'
        /\ isLoadingDetail' <=> \E r \in HistorySlots : Awaits(r, "detail")'
    BY <1>7, <2>1, <2>2, HistoryRequests DEF AwaitedOnce
  <2>4. \A q, r \in HistorySlots, k \in History!Kinds : Awaits(q, k)' /\ Awaits(r, k)' => q = r
    BY <1>5, <1>6, <2>1 DEF AwaitedOnce
  <2>5. \A q, r \in HistorySlots : Awaits(q, "load")' => ~Awaits(r, "more")' /\ ~Awaits(r, "detail")'
    BY <1>5, <1>6, <2>1, HistoryRequests DEF AwaitedOnce
  <2> QED BY <2>3, <2>4, <2>5 DEF AwaitedOnce
<1> QED BY <1>3, <1>4, <1>5, <1>6, <1>7, <1>8, HistoryRequests

LEMMA LoadHistoryHistoryHolds ==
  ASSUME HistoryInv, NEW s \in HistorySlots, History!LoadHistory(s)
  PROVE  HistoryInv'
<1> USE DEF HistoryInv
<1>1. /\ UNCHANGED <<status, reviewedAt>>
      /\ call[s] = History!Idle
      /\ call' = [History!Superseded(History!Kinds) EXCEPT
                    ![s] = History!NewCall("load", filter, History!NoCursor, NoCase)]
      /\ isLoading' = TRUE /\ isLoadingMore' = FALSE /\ isLoadingDetail' = FALSE
      /\ UNCHANGED <<filter, items, nextCursor, selected, due>>
  BY DEF History!LoadHistory, History!Load, History!server
<1>2. /\ call' \in [HistorySlots -> History!Calls]
      /\ call'[s].kind = "load" /\ call'[s].filter = filter /\ call'[s].cursor = History!NoCursor
      /\ call'[s].id = NoCase /\ call'[s].answer.ok = FALSE
      /\ \A r \in HistorySlots : r # s =>
           /\ call'[r].kind = call[r].kind /\ call'[r].filter = call[r].filter
           /\ call'[r].cursor = call[r].cursor /\ call'[r].id = call[r].id
           /\ call'[r].answer = call[r].answer
      /\ \A k \in History!Kinds : Awaits(s, k)' <=> k = "load"
      /\ \A r \in HistorySlots, k \in History!Kinds : r # s =>
           (Awaits(r, k)' <=> Awaits(r, k) /\ k \notin History!Kinds)
      /\ \A k \in History!Kinds : ~Awaits(s, k)
  <2>1. Asks(s, History!Kinds, "load", filter, History!NoCursor, NoCase)
    BY <1>1 DEF Asks
  <2>2. Asked(s, History!Kinds, "load", filter, History!NoCursor, NoCase)
    BY <2>1, HistoryAsked, HistoryRequests, HistoryTypes
  <2> QED BY <2>2 DEF Asked
<1>11. History!TypeOK'
  BY <1>1, <1>2, HistoryTypes DEF History!TypeOK
<1>12. AwaitedOnce'
  <2>1. \A r \in HistorySlots, k \in History!Kinds : Awaits(r, k)' <=> r = s /\ k = "load"
    BY <1>2
  <2> QED BY <1>1, <2>1, HistoryRequests DEF AwaitedOnce
<1>13. AwaitedFits'
  <2>1. \A r \in HistorySlots, k \in History!Kinds : Awaits(r, k)' => r = s /\ k = "load"
    BY <1>2
  <2> QED BY <1>1, <1>2, <2>1, HistoryRequests DEF AwaitedFits
<1>14. CursorsFit'
  BY <1>1, <1>2, HistoryRequests DEF CursorsFit
<1>15. PagesFit'
  <2> SUFFICES ASSUME NEW r \in HistorySlots, NEW page, page = call'[r].answer,
                      NEW f, f = call'[r].filter, NEW cursor, cursor = call'[r].cursor,
                      Lists(r)', page.ok
               PROVE  PageFits(page, f, cursor)' /\ (Awaits(r, "more")' => due' \subseteq page.due)
    BY DEF PagesFit
  <2>1. r # s
    BY <1>2
  <2>2. page = call[r].answer /\ f = call[r].filter /\ cursor = call[r].cursor /\ Lists(r)
    BY <1>2, <2>1 DEF Lists
  <2>3. PageFits(page, f, cursor) /\ (Awaits(r, "more") => due \subseteq page.due)
    BY <2>2 DEF PagesFit
  <2>4. Awaits(r, "more")' => Awaits(r, "more")
    BY <1>2, <2>1, HistoryRequests
  <2> QED BY <1>1, <2>3, <2>4, PagesStay
<1>16. ShownFits'
  <2>1. ShownPage' = ShownPage
    BY <1>1 DEF ShownPage
  <2>2. PageFits(ShownPage, filter, History!NoCursor)
    BY DEF ShownFits
  <2>3. ASSUME NEW page \in {ShownPage'}, NEW f \in {filter'}
        PROVE  PageFits(page, f, History!NoCursor)'
    <3>1. page = ShownPage /\ f = filter
      BY <1>1, <2>1
    <3>2. PageFits(page, f, History!NoCursor)
      BY <2>2, <3>1
    <3> QED BY <1>1, <3>2, PagesStay
  <2> QED BY <1>1, <2>3 DEF ShownFits
<1> QED BY <1>11, <1>12, <1>13, <1>14, <1>15, <1>16

LEMMA SetFilterHistoryHolds ==
  ASSUME HistoryInv, NEW s \in HistorySlots, NEW g \in History!Filters, History!SetFilter(s, g)
  PROVE  HistoryInv'
<1> USE DEF HistoryInv
<1>1. /\ UNCHANGED <<status, reviewedAt>>
      /\ call[s] = History!Idle
      /\ call' = [History!Superseded(History!Kinds) EXCEPT
                    ![s] = History!NewCall("load", g, History!NoCursor, NoCase)]
      /\ isLoading' = TRUE /\ isLoadingMore' = FALSE /\ isLoadingDetail' = FALSE
      /\ filter' = g /\ items' = <<>> /\ nextCursor' = History!NoCursor /\ selected' = NoCase /\ due' = {}
  BY DEF History!SetFilter, History!Load, History!server
<1>2. /\ call' \in [HistorySlots -> History!Calls]
      /\ call'[s].kind = "load" /\ call'[s].filter = g /\ call'[s].cursor = History!NoCursor
      /\ call'[s].id = NoCase /\ call'[s].answer.ok = FALSE
      /\ \A r \in HistorySlots : r # s =>
           /\ call'[r].kind = call[r].kind /\ call'[r].filter = call[r].filter
           /\ call'[r].cursor = call[r].cursor /\ call'[r].id = call[r].id
           /\ call'[r].answer = call[r].answer
      /\ \A k \in History!Kinds : Awaits(s, k)' <=> k = "load"
      /\ \A r \in HistorySlots, k \in History!Kinds : r # s =>
           (Awaits(r, k)' <=> Awaits(r, k) /\ k \notin History!Kinds)
      /\ \A k \in History!Kinds : ~Awaits(s, k)
  <2>1. Asks(s, History!Kinds, "load", g, History!NoCursor, NoCase)
    BY <1>1 DEF Asks
  <2>2. Asked(s, History!Kinds, "load", g, History!NoCursor, NoCase)
    BY <2>1, HistoryAsked, HistoryRequests, HistoryTypes
  <2> QED BY <2>2 DEF Asked
<1>11. History!TypeOK'
  <2>1. items' \in Seq(HistoryCases) /\ due' \subseteq HistoryCases /\ nextCursor' \in History!Cursors
    BY <1>1, HistoryRequests
  <2>2. {isLoading', isLoadingMore', isLoadingDetail'} \subseteq BOOLEAN /\ filter' \in History!Filters
    BY <1>1
  <2> QED BY <1>1, <1>2, <2>1, <2>2 DEF History!TypeOK
<1>12. AwaitedOnce'
  <2>1. \A r \in HistorySlots, k \in History!Kinds : Awaits(r, k)' <=> r = s /\ k = "load"
    BY <1>2
  <2> QED BY <1>1, <2>1, HistoryRequests DEF AwaitedOnce
<1>13. AwaitedFits'
  <2>1. \A r \in HistorySlots, k \in History!Kinds : Awaits(r, k)' => r = s /\ k = "load"
    BY <1>2
  <2> QED BY <1>1, <1>2, <2>1, HistoryRequests DEF AwaitedFits
<1>14. CursorsFit'
  BY <1>1, <1>2, HistoryRequests DEF CursorsFit
<1>15. PagesFit'
  <2> SUFFICES ASSUME NEW r \in HistorySlots, NEW page, page = call'[r].answer,
                      NEW f, f = call'[r].filter, NEW cursor, cursor = call'[r].cursor,
                      Lists(r)', page.ok
               PROVE  PageFits(page, f, cursor)' /\ (Awaits(r, "more")' => due' \subseteq page.due)
    BY DEF PagesFit
  <2>1. r # s
    BY <1>2
  <2>2. page = call[r].answer /\ f = call[r].filter /\ cursor = call[r].cursor /\ Lists(r)
    BY <1>2, <2>1 DEF Lists
  <2>3. PageFits(page, f, cursor) /\ (Awaits(r, "more") => due \subseteq page.due)
    BY <2>2 DEF PagesFit
  <2>4. Awaits(r, "more")' => Awaits(r, "more")
    BY <1>2, <2>1, HistoryRequests
  <2> QED BY <1>1, <2>3, <2>4, PagesStay
<1>16. ShownFits'
  <2>1. ShownPage' = [items |-> <<>>, next |-> History!NoCursor, due |-> {}, ok |-> TRUE]
    BY <1>1 DEF ShownPage
  <2>2. \A f : PageFits([items |-> <<>>, next |-> History!NoCursor, due |-> {}, ok |-> TRUE],
                        f, History!NoCursor)'
    BY DEF PageFits, InOrder, Follows, Complete, History!Range
  <2> QED BY <1>1, <2>1, <2>2 DEF ShownFits
<1> QED BY <1>11, <1>12, <1>13, <1>14, <1>15, <1>16

LEMMA LoadMoreHistoryHolds ==
  ASSUME HistoryInv, NEW s \in HistorySlots, History!LoadMore(s)
  PROVE  HistoryInv'
<1> USE DEF HistoryInv
<1>1. /\ UNCHANGED <<status, reviewedAt, filter, items, nextCursor, selected, isLoading, isLoadingDetail, due>>
      /\ call[s] = History!Idle /\ nextCursor # History!NoCursor /\ ~isLoading /\ ~isLoadingMore
      /\ isLoadingMore' = TRUE
      /\ call' = [History!Superseded({}) EXCEPT
                    ![s] = History!NewCall("more", filter, nextCursor, NoCase)]
  <2>1. History!Superseded({}) = call
    BY HistoryTypes DEF History!Superseded
  <2> QED BY <2>1 DEF History!LoadMore, History!server
<1>2. /\ call' \in [HistorySlots -> History!Calls]
      /\ call'[s].kind = "more" /\ call'[s].filter = filter /\ call'[s].cursor = nextCursor
      /\ call'[s].id = NoCase /\ call'[s].answer.ok = FALSE
      /\ \A r \in HistorySlots : r # s =>
           /\ call'[r].kind = call[r].kind /\ call'[r].filter = call[r].filter
           /\ call'[r].cursor = call[r].cursor /\ call'[r].id = call[r].id
           /\ call'[r].answer = call[r].answer
      /\ \A k \in History!Kinds : Awaits(s, k)' <=> k = "more"
      /\ \A r \in HistorySlots, k \in History!Kinds : r # s =>
           (Awaits(r, k)' <=> Awaits(r, k) /\ k \notin {})
      /\ \A k \in History!Kinds : ~Awaits(s, k)
  <2>1. Asks(s, {}, "more", filter, nextCursor, NoCase)
    BY <1>1 DEF Asks
  <2>2. Asked(s, {}, "more", filter, nextCursor, NoCase)
    BY <2>1, HistoryAsked, HistoryRequests, HistoryTypes
  <2> QED BY <2>2 DEF Asked
<1>11. History!TypeOK'
  BY <1>1, <1>2, HistoryTypes DEF History!TypeOK
<1>3. /\ \A r \in HistorySlots : ~Awaits(r, "load") /\ ~Awaits(r, "more")
      /\ Awaits(s, "more")' /\ ~Awaits(s, "load")' /\ ~Awaits(s, "detail")'
      /\ \A r \in HistorySlots, k \in History!Kinds : r # s => (Awaits(r, k)' <=> Awaits(r, k))
  BY <1>1, <1>2, HistoryRequests DEF AwaitedOnce
<1>12. AwaitedOnce'
  <2>1. /\ isLoading' <=> \E r \in HistorySlots : Awaits(r, "load")'
        /\ isLoadingMore' <=> \E r \in HistorySlots : Awaits(r, "more")'
        /\ isLoadingDetail' <=> \E r \in HistorySlots : Awaits(r, "detail")'
    BY <1>1, <1>2, <1>3, HistoryRequests DEF AwaitedOnce
  <2>2. \A q, r \in HistorySlots, k \in History!Kinds : Awaits(q, k)' /\ Awaits(r, k)' => q = r
    BY <1>2, <1>3, HistoryRequests DEF AwaitedOnce
  <2>3. \A r \in HistorySlots : ~Awaits(r, "load")'
    BY <1>3, HistoryRequests
  <2> QED BY <2>1, <2>2, <2>3 DEF AwaitedOnce
<1>13. AwaitedFits'
  <2>1. \A r \in HistorySlots : ~Awaits(r, "load")'
    BY <1>3, HistoryRequests
  <2>2. \A r \in HistorySlots : Awaits(r, "more")' => r = s
    BY <1>3, HistoryRequests
  <2>3. \A r \in HistorySlots : Awaits(r, "detail")' => r # s /\ Awaits(r, "detail")
    BY <1>3, HistoryRequests
  <2> QED BY <1>1, <1>2, <2>1, <2>2, <2>3 DEF AwaitedFits
<1>14. CursorsFit'
  <2>1. nextCursor.filter = filter /\ status[nextCursor.last] \in Outcomes
    <3>1. PageFits(ShownPage, filter, History!NoCursor)
      BY DEF ShownFits
    <3>2. nextCursor.filter = filter /\ nextCursor.last \in History!History(filter)
      BY <1>1, <3>1 DEF PageFits, Follows, ShownPage
    <3> QED BY <3>2, HistoryTypes DEF History!History, History!Filters
  <2> QED BY <1>1, <1>2, <2>1 DEF CursorsFit
<1>15. PagesFit'
  <2> SUFFICES ASSUME NEW r \in HistorySlots, NEW page, page = call'[r].answer,
                      NEW f, f = call'[r].filter, NEW cursor, cursor = call'[r].cursor,
                      Lists(r)', page.ok
               PROVE  PageFits(page, f, cursor)' /\ (Awaits(r, "more")' => due' \subseteq page.due)
    BY DEF PagesFit
  <2>1. r # s
    BY <1>2
  <2>2. page = call[r].answer /\ f = call[r].filter /\ cursor = call[r].cursor /\ Lists(r)
    BY <1>2, <2>1 DEF Lists
  <2>3. PageFits(page, f, cursor) /\ (Awaits(r, "more") => due \subseteq page.due)
    BY <2>2 DEF PagesFit
  <2>4. Awaits(r, "more")' => Awaits(r, "more")
    BY <1>2, <2>1, HistoryRequests
  <2> QED BY <1>1, <2>3, <2>4, PagesStay
<1>16. ShownFits'
  <2>1. ShownPage' = ShownPage
    BY <1>1 DEF ShownPage
  <2>2. PageFits(ShownPage, filter, History!NoCursor)
    BY DEF ShownFits
  <2>3. ASSUME NEW page \in {ShownPage'}, NEW f \in {filter'}
        PROVE  PageFits(page, f, History!NoCursor)'
    <3>1. page = ShownPage /\ f = filter
      BY <1>1, <2>1
    <3>2. PageFits(page, f, History!NoCursor)
      BY <2>2, <3>1
    <3> QED BY <1>1, <3>2, PagesStay
  <2> QED BY <1>1, <2>3 DEF ShownFits
<1> QED BY <1>11, <1>12, <1>13, <1>14, <1>15, <1>16

LEMMA SelectReviewHistoryHolds ==
  ASSUME HistoryInv, NEW s \in HistorySlots, NEW c \in HistoryCases, History!SelectReview(s, c)
  PROVE  HistoryInv'
<1> USE DEF HistoryInv
<1>1. /\ UNCHANGED <<status, reviewedAt, filter, items, nextCursor, selected, isLoading, isLoadingMore, due>>
      /\ call[s] = History!Idle /\ ~isLoading /\ c \in History!Range(items)
      /\ isLoadingDetail' = TRUE
      /\ call' = [History!Superseded({"detail"}) EXCEPT
                    ![s] = History!NewCall("detail", filter, History!NoCursor, c)]
  BY DEF History!SelectReview, History!server
<1>2. /\ call' \in [HistorySlots -> History!Calls]
      /\ call'[s].kind = "detail" /\ call'[s].filter = filter /\ call'[s].cursor = History!NoCursor
      /\ call'[s].id = c /\ call'[s].answer.ok = FALSE
      /\ \A r \in HistorySlots : r # s =>
           /\ call'[r].kind = call[r].kind /\ call'[r].filter = call[r].filter
           /\ call'[r].cursor = call[r].cursor /\ call'[r].id = call[r].id
           /\ call'[r].answer = call[r].answer
      /\ \A k \in History!Kinds : Awaits(s, k)' <=> k = "detail"
      /\ \A r \in HistorySlots, k \in History!Kinds : r # s =>
           (Awaits(r, k)' <=> Awaits(r, k) /\ k \notin {"detail"})
      /\ \A k \in History!Kinds : ~Awaits(s, k)
  <2>1. Asks(s, {"detail"}, "detail", filter, History!NoCursor, c)
    BY <1>1 DEF Asks
  <2>2. Asked(s, {"detail"}, "detail", filter, History!NoCursor, c)
    BY <2>1, HistoryAsked, HistoryRequests, HistoryTypes
  <2> QED BY <2>2 DEF Asked
<1>11. History!TypeOK'
  BY <1>1, <1>2, HistoryTypes DEF History!TypeOK
<1>3. /\ \A r \in HistorySlots : ~Awaits(r, "load")' /\ (Awaits(r, "detail")' <=> r = s)
      /\ \A r \in HistorySlots : ~Awaits(r, "load") /\ (Awaits(r, "more")' <=> Awaits(r, "more"))
  BY <1>1, <1>2, HistoryRequests DEF AwaitedOnce
<1>12. AwaitedOnce'
  BY <1>1, <1>3, HistoryRequests DEF AwaitedOnce
<1>13. AwaitedFits'
  <2>1. \A r \in HistorySlots : Awaits(r, "more") => r # s
    BY <1>2, HistoryRequests
  <2> QED BY <1>1, <1>2, <1>3, <2>1 DEF AwaitedFits
<1>14. CursorsFit'
  BY <1>1, <1>2, HistoryRequests DEF CursorsFit
<1>15. PagesFit'
  <2> SUFFICES ASSUME NEW r \in HistorySlots, NEW page, page = call'[r].answer,
                      NEW f, f = call'[r].filter, NEW cursor, cursor = call'[r].cursor,
                      Lists(r)', page.ok
               PROVE  PageFits(page, f, cursor)' /\ (Awaits(r, "more")' => due' \subseteq page.due)
    BY DEF PagesFit
  <2>1. r # s
    BY <1>2
  <2>2. page = call[r].answer /\ f = call[r].filter /\ cursor = call[r].cursor /\ Lists(r)
    BY <1>2, <2>1 DEF Lists
  <2>3. PageFits(page, f, cursor) /\ (Awaits(r, "more") => due \subseteq page.due)
    BY <2>2 DEF PagesFit
  <2>4. Awaits(r, "more")' => Awaits(r, "more")
    BY <1>2, <2>1, HistoryRequests
  <2> QED BY <1>1, <2>3, <2>4, PagesStay
<1>16. ShownFits'
  <2>1. ShownPage' = ShownPage
    BY <1>1 DEF ShownPage
  <2>2. PageFits(ShownPage, filter, History!NoCursor)
    BY DEF ShownFits
  <2>3. ASSUME NEW page \in {ShownPage'}, NEW f \in {filter'}
        PROVE  PageFits(page, f, History!NoCursor)'
    <3>1. page = ShownPage /\ f = filter
      BY <1>1, <2>1
    <3>2. PageFits(page, f, History!NoCursor)
      BY <2>2, <3>1
    <3> QED BY <1>1, <3>2, PagesStay
  <2> QED BY <1>1, <2>3 DEF ShownFits
<1> QED BY <1>11, <1>12, <1>13, <1>14, <1>15, <1>16

LEMMA ServeHistoryHolds ==
  ASSUME HistoryInv, NEW s \in HistorySlots, History!Serve(s)
  PROVE  HistoryInv'
<1> USE DEF HistoryInv
<1>1. /\ UNCHANGED <<status, reviewedAt, filter, items, nextCursor, selected, isLoading,
                   isLoadingMore, isLoadingDetail, due>>
      /\ call[s] # History!Idle
  BY DEF History!Serve, History!server
<1> DEFINE answer == IF call[s].kind = "detail" THEN [History!NoAnswer EXCEPT !.ok = TRUE]
                     ELSE History!Page(call[s].filter, call[s].cursor)
<1>2. /\ answer \in History!Answers
      /\ Lists(s) => /\ PageFits(answer, call[s].filter, call[s].cursor)
                     /\ answer.due = History!History(call[s].filter)
  <2>1. /\ call[s] \in History!Calls /\ call[s].filter \in History!Filters
        /\ call[s].cursor \in History!Cursors
    BY HistoryTypes, HistoryCalls
  <2>2. CASE call[s].kind = "detail"
    <3>1. [History!NoAnswer EXCEPT !.ok = TRUE] \in History!Answers
      BY HistoryRequests DEF History!Answers
    <3> QED BY <2>2, <3>1 DEF Lists
  <2>3. CASE call[s].kind # "detail"
    BY <2>1, <2>3, PageIsRight
  <2> QED BY <2>2, <2>3
<1>3. call' = [call EXCEPT ![s].answer = answer]
  BY DEF History!Serve
<1> HIDE DEF answer
<1>4. /\ call'[s] = [call[s] EXCEPT !.answer = answer] /\ call[s] \in History!Calls
      /\ \A r \in HistorySlots : r # s => call'[r] = call[r]
      /\ DOMAIN call' = HistorySlots /\ call' = [r \in HistorySlots |-> call'[r]]
  BY <1>3, HistoryTypes
<1>5. /\ call'[s] \in History!Calls /\ call'[s].kind = call[s].kind /\ call'[s].filter = call[s].filter
      /\ call'[s].cursor = call[s].cursor /\ call'[s].id = call[s].id
      /\ call'[s].live = call[s].live /\ call'[s].answer = answer
  BY <1>2, <1>4 DEF History!Calls
<1>6. call' \in [HistorySlots -> History!Calls]
  <2>1. \A r \in HistorySlots : call'[r] \in History!Calls
    BY <1>4, <1>5, HistoryTypes
  <2> QED BY <1>4, <2>1
<1>7. \A r \in HistorySlots : \A k : Awaits(r, k)' <=> Awaits(r, k)
  BY <1>4, <1>5 DEF Awaits
<1>11. History!TypeOK'
  BY <1>1, <1>6, HistoryTypes DEF History!TypeOK
<1>12. AwaitedOnce'
  BY <1>1, <1>7 DEF AwaitedOnce
<1>8. \A r \in HistorySlots : /\ call'[r].kind = call[r].kind /\ call'[r].filter = call[r].filter
                              /\ call'[r].cursor = call[r].cursor /\ call'[r].id = call[r].id
  BY <1>4, <1>5
<1>13. AwaitedFits'
  BY <1>1, <1>7, <1>8 DEF AwaitedFits
<1>14. CursorsFit'
  BY <1>1, <1>8 DEF CursorsFit
<1>15. PagesFit'
  <2> SUFFICES ASSUME NEW r \in HistorySlots, NEW page, page = call'[r].answer,
                      NEW f, f = call'[r].filter, NEW cursor, cursor = call'[r].cursor,
                      Lists(r)', page.ok
               PROVE  PageFits(page, f, cursor)' /\ (Awaits(r, "more")' => due' \subseteq page.due)
    BY DEF PagesFit
  <2>1. PageFits(page, f, cursor) /\ (Awaits(r, "more") => due \subseteq page.due)
    <3>1. CASE r # s
      <4>1. page = call[r].answer /\ f = call[r].filter /\ cursor = call[r].cursor /\ Lists(r)
        BY <1>4, <3>1 DEF Lists
      <4> QED BY <4>1 DEF PagesFit
    <3>2. CASE r = s
      <4>1. page = answer /\ f = call[s].filter /\ cursor = call[s].cursor /\ Lists(s)
        BY <1>5, <3>2 DEF Lists
      <4>2. due \subseteq History!History(filter)
        <5>1. PageFits(ShownPage, filter, History!NoCursor)
          BY DEF ShownFits
        <5> QED BY <5>1 DEF PageFits, ShownPage
      <4>3. Awaits(s, "more") => call[s].filter = filter
        BY DEF AwaitedFits
      <4> QED BY <1>2, <3>2, <4>1, <4>2, <4>3
    <3> QED BY <3>1, <3>2
  <2> QED BY <1>1, <1>7, <2>1, PagesStay
<1>16. ShownFits'
  <2>1. ShownPage' = ShownPage
    BY <1>1 DEF ShownPage
  <2>2. PageFits(ShownPage, filter, History!NoCursor)
    BY DEF ShownFits
  <2>3. ASSUME NEW page \in {ShownPage'}, NEW f \in {filter'}
        PROVE  PageFits(page, f, History!NoCursor)'
    <3>1. page = ShownPage /\ f = filter
      BY <1>1, <2>1
    <3>2. PageFits(page, f, History!NoCursor)
      BY <2>2, <3>1
    <3> QED BY <1>1, <3>2, PagesStay
  <2> QED BY <1>1, <2>3 DEF ShownFits
<1> QED BY <1>11, <1>12, <1>13, <1>14, <1>15, <1>16

LEMMA DiscardHistoryHolds ==
  ASSUME HistoryInv, NEW s \in HistorySlots, History!Discard(s)
  PROVE  HistoryInv'
<1> USE DEF HistoryInv
<1>1. /\ UNCHANGED <<status, reviewedAt, filter, items, nextCursor, selected, due>>
      /\ call[s] # History!Idle /\ History!Close(s)
  BY DEF History!Discard, History!server
<1>2. /\ call' \in [HistorySlots -> History!Calls]
      /\ isLoading' \in BOOLEAN /\ isLoadingMore' \in BOOLEAN /\ isLoadingDetail' \in BOOLEAN
      /\ call'[s].kind = "none"
      /\ \A r \in HistorySlots : r # s => call'[r] = call[r]
      /\ \A k \in History!Kinds : ~Awaits(s, k)'
      /\ \A r \in HistorySlots, k \in History!Kinds : r # s => (Awaits(r, k)' <=> Awaits(r, k))
      /\ AwaitedOnce'
  BY <1>1, HistoryClosed
<1>11. History!TypeOK'
  BY <1>1, <1>2, HistoryTypes DEF History!TypeOK
<1>12. AwaitedOnce'
  BY <1>2
<1>13. AwaitedFits'
  BY <1>1, <1>2, HistoryRequests DEF AwaitedFits
<1>14. CursorsFit'
  BY <1>1, <1>2 DEF CursorsFit
<1>15. PagesFit'
  <2> SUFFICES ASSUME NEW r \in HistorySlots, NEW page, page = call'[r].answer,
                      NEW f, f = call'[r].filter, NEW cursor, cursor = call'[r].cursor,
                      Lists(r)', page.ok
               PROVE  PageFits(page, f, cursor)' /\ (Awaits(r, "more")' => due' \subseteq page.due)
    BY DEF PagesFit
  <2>1. r # s /\ call'[r] = call[r]
    BY <1>2 DEF Lists
  <2>2. page = call[r].answer /\ f = call[r].filter /\ cursor = call[r].cursor /\ Lists(r)
    BY <2>1 DEF Lists
  <2>3. PageFits(page, f, cursor) /\ (Awaits(r, "more") => due \subseteq page.due)
    BY <2>2 DEF PagesFit
  <2>4. Awaits(r, "more")' => Awaits(r, "more")
    BY <1>2, <2>1, HistoryRequests
  <2> QED BY <1>1, <2>3, <2>4, PagesStay
<1>16. ShownFits'
  <2>1. ShownPage' = ShownPage
    BY <1>1 DEF ShownPage
  <2>2. PageFits(ShownPage, filter, History!NoCursor)
    BY DEF ShownFits
  <2>3. ASSUME NEW page \in {ShownPage'}, NEW f \in {filter'}
        PROVE  PageFits(page, f, History!NoCursor)'
    <3>1. page = ShownPage /\ f = filter
      BY <1>1, <2>1
    <3>2. PageFits(page, f, History!NoCursor)
      BY <2>2, <3>1
    <3> QED BY <1>1, <3>2, PagesStay
  <2> QED BY <1>1, <2>3 DEF ShownFits
<1> QED BY <1>11, <1>12, <1>13, <1>14, <1>15, <1>16

LEMMA ReceiveDetailHistoryHolds ==
  ASSUME HistoryInv, NEW s \in HistorySlots, History!ReceiveDetail(s)
  PROVE  HistoryInv'
<1> USE DEF HistoryInv
<1>1. /\ UNCHANGED <<status, reviewedAt, filter, items, nextCursor, due>>
      /\ selected' = call[s].id /\ Awaits(s, "detail")
      /\ call[s] # History!Idle /\ History!Close(s)
  BY HistoryRequests DEF History!ReceiveDetail, History!server, History!Counts, Awaits
<1>2. /\ call' \in [HistorySlots -> History!Calls]
      /\ isLoading' \in BOOLEAN /\ isLoadingMore' \in BOOLEAN /\ isLoadingDetail' \in BOOLEAN
      /\ call'[s].kind = "none"
      /\ \A r \in HistorySlots : r # s => call'[r] = call[r]
      /\ \A k \in History!Kinds : ~Awaits(s, k)'
      /\ \A r \in HistorySlots, k \in History!Kinds : r # s => (Awaits(r, k)' <=> Awaits(r, k))
      /\ AwaitedOnce'
  BY <1>1, HistoryClosed
<1>3. call[s].id \in History!Range(items) /\ call[s].id \in HistoryCases
  <2>1. call[s].id \in History!Range(items)
    BY <1>1 DEF AwaitedFits
  <2>2. \A c \in History!Range(items) : c \in HistoryCases
    BY HistoryTypes DEF History!Range
  <2> QED BY <2>1, <2>2
<1>11. History!TypeOK'
  BY <1>1, <1>2, <1>3, HistoryTypes DEF History!TypeOK
<1>12. AwaitedOnce'
  BY <1>2
<1>13. AwaitedFits'
  BY <1>1, <1>2, HistoryRequests DEF AwaitedFits
<1>14. CursorsFit'
  BY <1>1, <1>2 DEF CursorsFit
<1>15. PagesFit'
  <2> SUFFICES ASSUME NEW r \in HistorySlots, NEW page, page = call'[r].answer,
                      NEW f, f = call'[r].filter, NEW cursor, cursor = call'[r].cursor,
                      Lists(r)', page.ok
               PROVE  PageFits(page, f, cursor)' /\ (Awaits(r, "more")' => due' \subseteq page.due)
    BY DEF PagesFit
  <2>1. r # s /\ call'[r] = call[r]
    BY <1>2 DEF Lists
  <2>2. page = call[r].answer /\ f = call[r].filter /\ cursor = call[r].cursor /\ Lists(r)
    BY <2>1 DEF Lists
  <2>3. PageFits(page, f, cursor) /\ (Awaits(r, "more") => due \subseteq page.due)
    BY <2>2 DEF PagesFit
  <2>4. Awaits(r, "more")' => Awaits(r, "more")
    BY <1>2, <2>1, HistoryRequests
  <2> QED BY <1>1, <2>3, <2>4, PagesStay
<1>16. ShownFits'
  <2>1. ShownPage' = ShownPage
    BY <1>1 DEF ShownPage
  <2>2. PageFits(ShownPage, filter, History!NoCursor)
    BY DEF ShownFits
  <2>3. ASSUME NEW page \in {ShownPage'}, NEW f \in {filter'}
        PROVE  PageFits(page, f, History!NoCursor)'
    <3>1. page = ShownPage /\ f = filter
      BY <1>1, <2>1
    <3>2. PageFits(page, f, History!NoCursor)
      BY <2>2, <3>1
    <3> QED BY <1>1, <3>2, PagesStay
  <2> QED BY <1>1, <1>3, <2>3 DEF ShownFits
<1> QED BY <1>11, <1>12, <1>13, <1>14, <1>15, <1>16

LEMMA ReceiveFirstHistoryHolds ==
  ASSUME HistoryInv, NEW s \in HistorySlots, History!ReceiveFirst(s)
  PROVE  HistoryInv'
<1> USE DEF HistoryInv
<1>1. /\ UNCHANGED <<status, reviewedAt, filter>>
      /\ items' = call[s].answer.items /\ nextCursor' = call[s].answer.next
      /\ due' = call[s].answer.due /\ call[s].answer.ok
      /\ selected' = IF selected \in History!Range(call[s].answer.items) THEN selected ELSE NoCase
      /\ Awaits(s, "load") /\ call[s] # History!Idle /\ History!Close(s)
  BY HistoryRequests DEF History!ReceiveFirst, History!server, History!Counts, Awaits
<1>2. /\ call' \in [HistorySlots -> History!Calls]
      /\ isLoading' \in BOOLEAN /\ isLoadingMore' \in BOOLEAN /\ isLoadingDetail' \in BOOLEAN
      /\ call'[s].kind = "none"
      /\ \A r \in HistorySlots : r # s => call'[r] = call[r]
      /\ \A k \in History!Kinds : ~Awaits(s, k)'
      /\ \A r \in HistorySlots, k \in History!Kinds : r # s => (Awaits(r, k)' <=> Awaits(r, k))
      /\ AwaitedOnce'
  BY <1>1, HistoryClosed
<1>3. \A r \in HistorySlots, k \in History!Kinds : ~Awaits(r, k)'
  BY <1>1, <1>2, HistoryRequests DEF AwaitedOnce
<1>4. /\ call[s].answer \in History!Answers
      /\ items' \in Seq(HistoryCases) /\ nextCursor' \in History!Cursors /\ due' \subseteq HistoryCases
  BY <1>1, HistoryTypes, HistoryCalls
<1>11. History!TypeOK'
  BY <1>1, <1>2, <1>4, HistoryTypes DEF History!TypeOK
<1>12. AwaitedOnce'
  BY <1>2
<1>13. AwaitedFits'
  BY <1>3, HistoryRequests DEF AwaitedFits
<1>14. CursorsFit'
  BY <1>1, <1>2 DEF CursorsFit
<1>15. PagesFit'
  <2> SUFFICES ASSUME NEW r \in HistorySlots, NEW page, page = call'[r].answer,
                      NEW f, f = call'[r].filter, NEW cursor, cursor = call'[r].cursor,
                      Lists(r)', page.ok
               PROVE  PageFits(page, f, cursor)' /\ (Awaits(r, "more")' => due' \subseteq page.due)
    BY DEF PagesFit
  <2>1. r # s /\ call'[r] = call[r]
    BY <1>2 DEF Lists
  <2>2. page = call[r].answer /\ f = call[r].filter /\ cursor = call[r].cursor /\ Lists(r)
    BY <2>1 DEF Lists
  <2>3. PageFits(page, f, cursor) /\ (Awaits(r, "more") => due \subseteq page.due)
    BY <2>2 DEF PagesFit
  <2>4. ~Awaits(r, "more")'
    BY <1>3, HistoryRequests
  <2> QED BY <1>1, <2>3, <2>4, PagesStay
<1>16. ShownFits'
  <2>1. PageFits(call[s].answer, filter, History!NoCursor)
    BY <1>1 DEF PagesFit, Lists, AwaitedFits, CursorsFit, Awaits
  <2>2. /\ ShownPage'.items = call[s].answer.items /\ ShownPage'.next = call[s].answer.next
        /\ ShownPage'.due = call[s].answer.due
    BY <1>1 DEF ShownPage
  <2>3. ASSUME NEW page \in {ShownPage'}, NEW f \in {filter'}
        PROVE  PageFits(page, f, History!NoCursor)'
    <3>1. PageFits(page, f, History!NoCursor)
      BY <1>1, <2>1, <2>2 DEF PageFits
    <3> QED BY <1>1, <3>1, PagesStay
  <2> QED BY <1>1, <2>3 DEF ShownFits
<1> QED BY <1>11, <1>12, <1>13, <1>14, <1>15, <1>16

LEMMA ReceiveMoreHistoryHolds ==
  ASSUME HistoryInv, NEW s \in HistorySlots, History!ReceiveMore(s)
  PROVE  HistoryInv'
<1> USE DEF HistoryInv
<1>1. /\ UNCHANGED <<status, reviewedAt, filter, selected, due>>
      /\ items' = items \o History!Unseen(call[s].answer.items)
      /\ nextCursor' = call[s].answer.next /\ call[s].answer.ok
      /\ Awaits(s, "more") /\ call[s] # History!Idle /\ History!Close(s)
  BY HistoryRequests DEF History!ReceiveMore, History!server, History!Counts, Awaits
<1>2. /\ call' \in [HistorySlots -> History!Calls]
      /\ isLoading' \in BOOLEAN /\ isLoadingMore' \in BOOLEAN /\ isLoadingDetail' \in BOOLEAN
      /\ call'[s].kind = "none"
      /\ \A r \in HistorySlots : r # s => call'[r] = call[r]
      /\ \A k \in History!Kinds : ~Awaits(s, k)'
      /\ \A r \in HistorySlots, k \in History!Kinds : r # s => (Awaits(r, k)' <=> Awaits(r, k))
      /\ AwaitedOnce'
  BY <1>1, HistoryClosed
<1>3. /\ \A r \in HistorySlots : ~Awaits(r, "more")' /\ ~Awaits(r, "load")'
      /\ \A r \in HistorySlots : Awaits(r, "detail")' => r # s /\ Awaits(r, "detail")
  BY <1>1, <1>2, HistoryRequests DEF AwaitedOnce
<1> DEFINE a == ShownPage
           b == call[s].answer
<1>4. /\ a \in History!Answers /\ b \in History!Answers
      /\ a.items = items /\ a.next = nextCursor /\ a.due = due
  BY HistoryTypes, HistoryCalls DEF ShownPage, History!Answers
<1>5. PageFits(a, filter, History!NoCursor)
  BY DEF ShownFits
<1>6. /\ PageFits(b, filter, nextCursor) /\ due \subseteq b.due /\ nextCursor # History!NoCursor
  BY <1>1 DEF PagesFit, Lists, AwaitedFits, CursorsFit, Awaits
<1> HIDE DEF a, b
<1>7. /\ History!Range(a.items) \cap History!Range(b.items) = {}
      /\ PageFits([items |-> a.items \o b.items, next |-> b.next, due |-> a.due, ok |-> TRUE],
                  filter, History!NoCursor)
  BY <1>4, <1>5, <1>6, PagesJoin, HistoryTypes
<1>8. /\ b.items \in Seq(HistoryCases) /\ b.next \in History!Cursors
      /\ History!Unseen(b.items) = b.items
  BY <1>4, <1>7, UnseenIsAll, HistoryCalls
<1>9. items' = a.items \o b.items /\ nextCursor' = b.next /\ due' = a.due
  BY <1>1, <1>4, <1>8 DEF b
<1>10. /\ items' \in Seq(HistoryCases) /\ nextCursor' \in History!Cursors
       /\ History!Range(items) \subseteq History!Range(items')
  <2>1. a.items \in Seq(HistoryCases)
    BY <1>4, HistoryTypes
  <2>2. items' \in Seq(HistoryCases)
    BY <1>8, <1>9, <2>1
  <2>3. \A i \in DOMAIN a.items : i \in DOMAIN items' /\ items'[i] = a.items[i]
    BY <1>8, <1>9, <2>1, FirstListFirst
  <2> QED BY <1>4, <1>8, <1>9, <2>2, <2>3 DEF History!Range
<1>11. History!TypeOK'
  BY <1>1, <1>2, <1>10, HistoryTypes DEF History!TypeOK
<1>12. AwaitedOnce'
  BY <1>2
<1>13. AwaitedFits'
  BY <1>2, <1>3, <1>10 DEF AwaitedFits
<1>14. CursorsFit'
  BY <1>1, <1>2 DEF CursorsFit
<1>15. PagesFit'
  <2> SUFFICES ASSUME NEW r \in HistorySlots, NEW page, page = call'[r].answer,
                      NEW f, f = call'[r].filter, NEW cursor, cursor = call'[r].cursor,
                      Lists(r)', page.ok
               PROVE  PageFits(page, f, cursor)' /\ (Awaits(r, "more")' => due' \subseteq page.due)
    BY DEF PagesFit
  <2>1. r # s /\ call'[r] = call[r]
    BY <1>2 DEF Lists
  <2>2. page = call[r].answer /\ f = call[r].filter /\ cursor = call[r].cursor /\ Lists(r)
    BY <2>1 DEF Lists
  <2>3. PageFits(page, f, cursor) /\ (Awaits(r, "more") => due \subseteq page.due)
    BY <2>2 DEF PagesFit
  <2>4. Awaits(r, "more")' => Awaits(r, "more")
    BY <1>2, <2>1, HistoryRequests
  <2> QED BY <1>1, <2>3, <2>4, PagesStay
<1>16. ShownFits'
  <2>1. ShownPage' = [items |-> a.items \o b.items, next |-> b.next, due |-> a.due, ok |-> TRUE]
    BY <1>9 DEF ShownPage
  <2>2. ASSUME NEW page \in {ShownPage'}, NEW f \in {filter'}
        PROVE  PageFits(page, f, History!NoCursor)'
    <3>1. PageFits(page, f, History!NoCursor)
      BY <1>1, <1>7, <2>1
    <3> QED BY <1>1, <3>1, PagesStay
  <2>3. selected' \in History!Range(items') \cup {NoCase}
    BY <1>1, <1>10 DEF ShownFits
  <2> QED BY <2>2, <2>3 DEF ShownFits
<1> QED BY <1>11, <1>12, <1>13, <1>14, <1>15, <1>16

LEMMA FinalizeHistoryHolds ==
  ASSUME HistoryInv, NEW c \in HistoryCases, NEW outcome \in Outcomes, NEW t \in Times, History!Finalize(c, outcome, t)
  PROVE  HistoryInv'
<1> USE DEF HistoryInv
<1>1. UNCHANGED <<filter, items, nextCursor, selected, isLoading, isLoadingMore,
                  isLoadingDetail, call, due>>
  BY DEF History!Finalize
<1>2. \A d \in HistoryCases : status[d] \in Outcomes => status'[d] \in Outcomes
  BY FinalStays
<1>11. History!TypeOK'
  <2>1. /\ status' \in [HistoryCases -> Outcomes \cup {"pending"}]
        /\ reviewedAt' \in [HistoryCases -> Times \cup {0}]
    BY DEF History!Finalize, History!TypeOK
  <2> QED BY <1>1, <2>1 DEF History!TypeOK
<1>12. AwaitedOnce'
  BY <1>1 DEF AwaitedOnce, Awaits
<1>13. AwaitedFits'
  BY <1>1 DEF AwaitedFits, Awaits
<1>14. CursorsFit'
  <2>1. \A r \in HistorySlots : call[r].cursor # History!NoCursor => call[r].cursor.last \in HistoryCases
    BY HistoryTypes, HistoryCalls
  <2> QED BY <1>1, <1>2, <2>1 DEF CursorsFit
<1>15. PagesFit'
  <2> SUFFICES ASSUME NEW r \in HistorySlots, NEW page, page = call[r].answer,
                      NEW f, f = call[r].filter, NEW cursor, cursor = call[r].cursor,
                      Lists(r), page.ok
               PROVE  PageFits(page, f, cursor)' /\ (Awaits(r, "more") => due \subseteq page.due)
    BY <1>1 DEF PagesFit, Lists, Awaits
  <2>1. PageFits(page, f, cursor) /\ (Awaits(r, "more") => due \subseteq page.due)
    BY DEF PagesFit
  <2>2. page \in History!Answers /\ f \in History!Filters /\ cursor \in History!Cursors
    BY HistoryTypes, HistoryCalls
  <2>3. cursor # History!NoCursor => status[cursor.last] \in Outcomes
    BY DEF CursorsFit, Lists
  <2> QED BY <2>1, <2>2, <2>3, FinalStays
<1>16. ShownFits'
  <2>1. ASSUME NEW page \in {ShownPage'}, NEW f \in {filter'}
        PROVE  PageFits(page, f, History!NoCursor)'
    <3>1. page = ShownPage /\ f = filter
      BY <1>1, <2>1 DEF ShownPage
    <3>2. page \in History!Answers /\ f \in History!Filters /\ History!NoCursor \in History!Cursors
      BY <3>1, HistoryTypes, HistoryRequests DEF ShownPage, History!Answers
    <3>3. PageFits(page, f, History!NoCursor)
      BY <3>1 DEF ShownFits
    <3> QED BY <3>2, <3>3, FinalStays
  <2> QED BY <1>1, <2>1 DEF ShownFits
<1> QED BY <1>11, <1>12, <1>13, <1>14, <1>15, <1>16

LEMMA HistoryInitHolds == ASSUME History!Init PROVE HistoryInv
<1> USE DEF History!Init
<1>1. \A s \in HistorySlots : call[s] = History!Idle /\ call[s].kind = "none"
  BY HistoryRequests
<1>2. History!TypeOK
  <2>1. /\ status \in [HistoryCases -> Outcomes \cup {"pending"}]
        /\ reviewedAt \in [HistoryCases -> Times \cup {0}]
        /\ filter \in History!Filters /\ nextCursor \in History!Cursors
    BY HistoryRequests
  <2>2. call \in [HistorySlots -> History!Calls]
    BY HistoryRequests
  <2>3. items \in Seq(HistoryCases) /\ selected \in HistoryCases \cup {NoCase} /\ due \subseteq HistoryCases
    OBVIOUS
  <2>4. {isLoading, isLoadingMore, isLoadingDetail} \subseteq BOOLEAN
    OBVIOUS
  <2> QED BY <2>1, <2>2, <2>3, <2>4 DEF History!TypeOK
<1>3. \A s \in HistorySlots, kind \in History!Kinds : ~Awaits(s, kind)
  BY <1>1, HistoryRequests DEF Awaits
<1>4. AwaitedOnce
  BY <1>3, HistoryRequests DEF AwaitedOnce
<1>5. AwaitedFits
  BY <1>3, HistoryRequests DEF AwaitedFits
<1>6. CursorsFit /\ PagesFit
  BY <1>1 DEF CursorsFit, PagesFit, Lists
<1>7. ShownFits
  <2>1. ShownPage = [items |-> <<>>, next |-> History!NoCursor, due |-> {}, ok |-> TRUE]
    BY DEF ShownPage
  <2>2. \A f : PageFits([items |-> <<>>, next |-> History!NoCursor, due |-> {}, ok |-> TRUE],
                        f, History!NoCursor)
    BY DEF PageFits, InOrder, Follows, Complete, History!Range
  <2> QED BY <2>1, <2>2 DEF ShownFits
<1> QED BY <1>2, <1>4, <1>5, <1>6, <1>7 DEF HistoryInv

LEMMA HistoryNextHolds ==
  ASSUME HistoryInv, [History!Next]_(History!vars) PROVE HistoryInv'
<1>1. CASE History!Next
  BY <1>1, FinalizeHistoryHolds, LoadHistoryHistoryHolds, LoadMoreHistoryHolds,
     SetFilterHistoryHolds, SelectReviewHistoryHolds, ServeHistoryHolds,
     ReceiveFirstHistoryHolds, ReceiveMoreHistoryHolds, ReceiveDetailHistoryHolds,
     DiscardHistoryHolds DEF History!Next
<1>2. CASE UNCHANGED History!vars
  <2>1. UNCHANGED <<status, reviewedAt, filter, items, nextCursor, selected, isLoading,
                    isLoadingMore, isLoadingDetail, call, due>>
    BY <1>2 DEF History!vars, History!server
  <2> USE <2>1 DEF HistoryInv
  <2>2. History!TypeOK'
    BY DEF History!TypeOK
  <2>3. AwaitedOnce' /\ AwaitedFits'
    BY DEF AwaitedOnce, AwaitedFits, Awaits
  <2>4. CursorsFit'
    BY DEF CursorsFit
  <2>5. PagesFit'
    <3> SUFFICES ASSUME NEW r \in HistorySlots, NEW page, page = call[r].answer,
                        NEW f, f = call[r].filter, NEW cursor, cursor = call[r].cursor,
                        Lists(r), page.ok
                 PROVE  PageFits(page, f, cursor)' /\ (Awaits(r, "more") => due \subseteq page.due)
      BY DEF PagesFit, Lists, Awaits
    <3>1. PageFits(page, f, cursor) /\ (Awaits(r, "more") => due \subseteq page.due)
      BY DEF PagesFit
    <3> QED BY <3>1, PagesStay
  <2>6. ShownFits'
    <3>1. ASSUME NEW page \in {ShownPage'}, NEW f \in {filter'}
          PROVE  PageFits(page, f, History!NoCursor)'
      <4>1. page = ShownPage /\ f = filter
        BY <3>1 DEF ShownPage
      <4>2. PageFits(page, f, History!NoCursor)
        BY <4>1 DEF ShownFits
      <4> QED BY <4>2, PagesStay
    <3> QED BY <3>1 DEF ShownFits
  <2> QED BY <2>2, <2>3, <2>4, <2>5, <2>6
<1> QED BY <1>1, <1>2

LEMMA HistoryFollows ==
  ASSUME HistoryInv
  PROVE  History!NewestFirst /\ History!NothingSkipped /\ History!ViewBelongsTogether
<1> USE DEF HistoryInv
<1>1. PageFits(ShownPage, filter, History!NoCursor)
  BY DEF ShownFits
<1>2. /\ InOrder(items) /\ History!Range(items) \subseteq History!History(filter)
      /\ Complete(items, History!NoCursor, nextCursor, due)
  BY <1>1 DEF PageFits, ShownPage
<1>3. History!NewestFirst
  BY <1>2 DEF InOrder, History!NewestFirst
<1>4. History!NothingSkipped
  BY <1>2 DEF Complete, History!NothingSkipped, History!Below
<1>5. History!ViewBelongsTogether
  <2>1. /\ isLoading = \E s \in HistorySlots : call[s].kind = "load" /\ call[s].live
        /\ isLoadingMore = \E s \in HistorySlots : call[s].kind = "more" /\ call[s].live
        /\ isLoadingDetail = \E s \in HistorySlots : call[s].kind = "detail" /\ call[s].live
    BY HistoryTypes DEF AwaitedOnce, Awaits
  <2>2. \A s \in HistorySlots :
          call[s].kind = "more" => History!Accepted(call[s].filter, call[s].cursor)
    BY DEF CursorsFit, History!Accepted
  <2>3. selected \in History!Range(items) \cup {NoCase}
    BY DEF ShownFits
  <2> QED BY <1>2, <2>1, <2>2, <2>3 DEF History!ViewBelongsTogether
<1> QED BY <1>3, <1>4, <1>5

-----------------------------------------------------------------------------
(***************************************************************************)
(* The list of deliveries.                                                  *)
(***************************************************************************)

\* What a row is when it is shown or answered, and what a request of this view is.
DeliveryRows == [id : Deliveries, status : DeliveryView!Statuses, version : Nat]
DeliveryLoads ==
  [kind : {"load"}, filter : DeliveryView!Filters, for : Deliveries \cup {NoDelivery},
   live : BOOLEAN, stage : {"sent", "served"}, answer : SUBSET DeliveryRows]
DeliveryRetries ==
  [kind : {"retry"}, for : Deliveries, stage : {"sent", "claimed", "conflict", "served"},
   answer : SUBSET DeliveryRows]

DeliveryTypes ==
  /\ row \in [Deliveries -> [status : DeliveryView!Statuses, version : Nat]]
  /\ items \subseteq DeliveryRows
  /\ filter \in DeliveryView!Filters
  /\ isLoading \in BOOLEAN
  /\ told \in [Deliveries -> Nat]
  /\ DOMAIN call = Slots
  /\ \A s \in Slots :
       call[s] = DeliveryView!NoCall \/ call[s] \in DeliveryLoads \/ call[s] \in DeliveryRetries

\* Nothing told or on its way is newer than the row, and what a load that counts
\* brings is no older than what was told.
VersionsFit ==
  /\ \A d \in Deliveries : told[d] <= row[d].version
  /\ \A s \in Slots, x \in DeliveryRows : call[s] # DeliveryView!NoCall /\ x \in call[s].answer =>
       /\ call[s].kind = "retry" => x.id = call[s].for /\ x.version <= row[x.id].version
       /\ call[s].kind = "load" => \A y \in call[s].answer : x.id = y.id => x = y
       /\ call[s].kind = "load" /\ call[s].live => x.version >= told[x.id]

\* One load counts, and one request is of the retry of a delivery.
LoadCounts(s) == call[s].kind = "load" /\ call[s].live
Concerns(s, d) == call[s] # DeliveryView!NoCall /\ call[s].for = d
OneEach ==
  /\ \A r, s \in Slots : LoadCounts(r) /\ LoadCounts(s) => r = s
  /\ \A r, s \in Slots, d \in Deliveries : Concerns(r, d) /\ Concerns(s, d) => r = s

\* NothingOlder in the terms of its parts.
RowsShown ==
  /\ \A x \in items : x.version >= told[x.id]
  /\ \A x, y \in items : x.id = y.id => x = y
Spinners ==
  /\ isLoading <=> \E s \in Slots : LoadCounts(s)
  /\ retryingIds \subseteq Deliveries
  /\ \A d \in Deliveries : d \in retryingIds <=> \E s \in Slots : Concerns(s, d)

DeliveryInv == DeliveryTypes /\ VersionsFit /\ OneEach /\ RowsShown /\ Spinners

\* Requests are of one kind.
LEMMA DeliveryCallKinds ==
  /\ DeliveryView!NoCall.kind = "none"
  /\ DeliveryView!NoCall \notin DeliveryLoads /\ DeliveryView!NoCall \notin DeliveryRetries
  /\ \A x \in DeliveryLoads : x.kind = "load" /\ x \notin DeliveryRetries
  /\ \A x \in DeliveryRetries : x.kind = "retry"
BY DEF DeliveryView!NoCall, DeliveryLoads, DeliveryRetries

\* Loads asked for before do not count any more.
LEMMA SupersededLoads ==
  ASSUME DeliveryTypes
  PROVE  /\ DOMAIN DeliveryView!Superseded = Slots
         /\ \A r \in Slots :
              IF call[r].kind = "load"
              THEN /\ DeliveryView!Superseded[r] \in DeliveryLoads
                   /\ DeliveryView!Superseded[r].kind = "load"
                   /\ DeliveryView!Superseded[r].live = FALSE
                   /\ DeliveryView!Superseded[r].for = call[r].for
                   /\ DeliveryView!Superseded[r].answer = call[r].answer
              ELSE DeliveryView!Superseded[r] = call[r]
<1> SUFFICES ASSUME NEW r \in Slots, call[r].kind = "load"
             PROVE  LET t == [call[r] EXCEPT !.live = FALSE] IN
                    /\ t \in DeliveryLoads /\ t.kind = "load" /\ t.live = FALSE
                    /\ t.for = call[r].for /\ t.answer = call[r].answer
  BY DEF DeliveryView!Superseded
<1>1. call[r] \in DeliveryLoads
  BY DeliveryCallKinds DEF DeliveryTypes
<1> QED BY <1>1 DEF DeliveryLoads

LEMMA NoDeliveryFits == NoDelivery \notin Deliveries
BY ConsoleAssumption DEF DeliveryView!DeliveriesAssumption

\* Versions can be compared.
LEMMA DeliveryNats ==
  ASSUME DeliveryInv
  PROVE  /\ \A d \in Deliveries : row[d].version \in Nat /\ told[d] \in Nat
         /\ \A x \in DeliveryRows : x.id \in Deliveries /\ x.version \in Nat
         /\ \A d \in Deliveries : DeliveryView!Row(d).version = row[d].version
         /\ \A x \in items : x.id \in Deliveries /\ x.version \in Nat
BY DEF DeliveryInv, DeliveryTypes, DeliveryRows, DeliveryView!Row

\* A load that is started is the only one that counts.
LEMMA LoadStarts ==
  ASSUME DeliveryTypes, NEW s \in Slots, NEW f \in DeliveryView!Filters,
         NEW d \in Deliveries \cup {NoDelivery}, DeliveryView!StartLoad(s, f, d)
  PROVE  /\ filter' = f /\ isLoading' = TRUE /\ DOMAIN call' = Slots
         /\ call'[s] \in DeliveryLoads /\ call'[s].kind = "load" /\ call'[s].live = TRUE
         /\ call'[s].for = d /\ call'[s].answer = {}
         /\ \A r \in Slots : r # s =>
              IF call[r].kind = "load"
              THEN /\ call'[r] \in DeliveryLoads /\ call'[r].kind = "load" /\ call'[r].live = FALSE
                   /\ call'[r].for = call[r].for /\ call'[r].answer = call[r].answer
              ELSE call'[r] = call[r]
<1> DEFINE new == DeliveryView!Load(f, d)
<1>1. /\ new \in DeliveryLoads /\ new.kind = "load" /\ new.live = TRUE
      /\ new.for = d /\ new.answer = {}
  BY DEF DeliveryView!Load, DeliveryLoads
<1>2. call' = [DeliveryView!Superseded EXCEPT ![s] = new] /\ filter' = f /\ isLoading' = TRUE
  BY DEF DeliveryView!StartLoad
<1> HIDE DEF new
<1>3. /\ DOMAIN call' = Slots /\ call'[s] = new
      /\ \A r \in Slots : r # s => call'[r] = DeliveryView!Superseded[r]
  BY <1>2, SupersededLoads
<1> QED BY <1>1, <1>2, <1>3, SupersededLoads

LEMMA ElsewhereDeliveryHolds == ASSUME DeliveryInv, NEW d \in Deliveries, DeliveryView!Elsewhere(d) PROVE DeliveryInv'
<1> USE DEF DeliveryInv
<1>1. /\ UNCHANGED <<items, filter, isLoading, retryingIds, told, call>>
      /\ row' \in [Deliveries -> [status : DeliveryView!Statuses, version : Nat]]
      /\ \A e \in Deliveries : row[e].version <= row'[e].version
  BY DEF DeliveryView!Elsewhere, DeliveryView!Write, DeliveryView!console, DeliveryView!Statuses, DeliveryTypes
<1>11. DeliveryTypes'
  BY <1>1, DeliveryCallKinds DEF DeliveryTypes
<1>12. VersionsFit'
  <2>1. \A e \in Deliveries : told'[e] <= row'[e].version
    BY <1>1, DeliveryCallKinds, DeliveryNats DEF VersionsFit
  <2>2. ASSUME NEW r \in Slots, NEW x \in DeliveryRows,
               call'[r] # DeliveryView!NoCall, x \in call'[r].answer
        PROVE  /\ call'[r].kind = "retry" => x.id = call'[r].for /\ x.version <= row'[x.id].version
               /\ call'[r].kind = "load" => \A y \in call'[r].answer : x.id = y.id => x = y
               /\ call'[r].kind = "load" /\ call'[r].live => x.version >= told'[x.id]
    BY <1>1, DeliveryCallKinds, <2>2, DeliveryNats DEF VersionsFit
  <2> QED BY <2>1, <2>2 DEF VersionsFit
<1>13. OneEach'
  BY <1>1, DeliveryCallKinds DEF OneEach, Spinners, LoadCounts, Concerns
<1>14. RowsShown'
  BY <1>1, DeliveryCallKinds, DeliveryNats DEF RowsShown, VersionsFit, DeliveryTypes
<1>15. Spinners'
  BY <1>1, DeliveryCallKinds DEF Spinners, OneEach, LoadCounts, Concerns
<1> QED BY <1>11, <1>12, <1>13, <1>14, <1>15

LEMMA ServeLoadDeliveryHolds == ASSUME DeliveryInv, NEW s \in Slots, DeliveryView!ServeLoad(s) PROVE DeliveryInv'
<1> USE DEF DeliveryInv
<1>1. /\ UNCHANGED <<row, items, filter, isLoading, retryingIds, told>>
      /\ DOMAIN call' = Slots /\ \A r \in Slots : r # s => call'[r] = call[r]
      /\ call[s] \in DeliveryLoads
  BY DeliveryCallKinds DEF DeliveryView!ServeLoad, DeliveryView!console, DeliveryTypes
<1>2. /\ call'[s] \in DeliveryLoads
      /\ call'[s].kind = "load" /\ call'[s].for = call[s].for /\ call'[s].live = call[s].live
      /\ \A x \in call'[s].answer : x = DeliveryView!Row(x.id)
  <2> DEFINE found == {DeliveryView!Row(d) : d \in {e \in Deliveries :
                         DeliveryView!Matches(row[e].status, call[s].filter)}}
  <2>1. found \subseteq DeliveryRows /\ \A x \in found : x = DeliveryView!Row(x.id)
    BY DEF DeliveryView!Row, DeliveryRows, DeliveryTypes
  <2>2. call' = [call EXCEPT ![s].stage = "served", ![s].answer = found]
    BY DEF DeliveryView!ServeLoad
  <2> HIDE DEF found
  <2>3. call'[s] = [call[s] EXCEPT !.stage = "served", !.answer = found]
    BY <2>2 DEF DeliveryTypes
  <2> QED BY <1>1, <2>1, <2>3 DEF DeliveryLoads
<1>11. DeliveryTypes'
  BY <1>1, <1>2, DeliveryCallKinds DEF DeliveryTypes
<1>12. VersionsFit'
  <2>1. \A e \in Deliveries : told'[e] <= row'[e].version
    BY <1>1, <1>2, DeliveryCallKinds, DeliveryNats DEF VersionsFit
  <2>2. ASSUME NEW r \in Slots, NEW x \in DeliveryRows,
               call'[r] # DeliveryView!NoCall, x \in call'[r].answer
        PROVE  /\ call'[r].kind = "retry" => x.id = call'[r].for /\ x.version <= row'[x.id].version
               /\ call'[r].kind = "load" => \A y \in call'[r].answer : x.id = y.id => x = y
               /\ call'[r].kind = "load" /\ call'[r].live => x.version >= told'[x.id]
    BY <1>1, <1>2, DeliveryCallKinds, <2>2, DeliveryNats DEF VersionsFit
  <2> QED BY <2>1, <2>2 DEF VersionsFit
<1>13. OneEach'
  BY <1>1, <1>2, DeliveryCallKinds DEF OneEach, Spinners, LoadCounts, Concerns
<1>14. RowsShown'
  BY <1>1, <1>2, DeliveryCallKinds, DeliveryNats DEF RowsShown, VersionsFit, DeliveryTypes
<1>15. Spinners'
  BY <1>1, <1>2, DeliveryCallKinds DEF Spinners, OneEach, LoadCounts, Concerns
<1> QED BY <1>11, <1>12, <1>13, <1>14, <1>15

LEMMA ClaimDeliveryHolds == ASSUME DeliveryInv, NEW s \in Slots, DeliveryView!Claim(s) PROVE DeliveryInv'
<1> USE DEF DeliveryInv
<1>1. /\ UNCHANGED <<items, filter, isLoading, retryingIds, told>>
      /\ row' \in [Deliveries -> [status : DeliveryView!Statuses, version : Nat]]
      /\ \A e \in Deliveries : row[e].version <= row'[e].version
  BY DEF DeliveryView!Claim, DeliveryView!Write, DeliveryView!console, DeliveryView!Statuses, DeliveryTypes
<1>2. /\ call[s] \in DeliveryRetries /\ DOMAIN call' = Slots
      /\ \A r \in Slots : r # s => call'[r] = call[r]
      /\ call'[s] \in DeliveryRetries /\ call'[s].kind = "retry" /\ call'[s].for = call[s].for
      /\ call'[s].answer = call[s].answer
  <2>1. call[s] \in DeliveryRetries
    BY DeliveryCallKinds DEF DeliveryView!Claim, DeliveryTypes
  <2>2. PICK stage \in {"claimed", "conflict"} : call' = [call EXCEPT ![s].stage = stage]
    BY DEF DeliveryView!Claim
  <2>3. /\ DOMAIN call' = Slots /\ call'[s] = [call[s] EXCEPT !.stage = stage]
        /\ \A r \in Slots : r # s => call'[r] = call[r]
    BY <2>2 DEF DeliveryTypes
  <2> QED BY <2>1, <2>3 DEF DeliveryRetries
<1>11. DeliveryTypes'
  BY <1>1, <1>2, DeliveryCallKinds DEF DeliveryTypes
<1>12. VersionsFit'
  <2>1. \A e \in Deliveries : told'[e] <= row'[e].version
    BY <1>1, <1>2, DeliveryCallKinds, DeliveryNats DEF VersionsFit
  <2>2. ASSUME NEW r \in Slots, NEW x \in DeliveryRows,
               call'[r] # DeliveryView!NoCall, x \in call'[r].answer
        PROVE  /\ call'[r].kind = "retry" => x.id = call'[r].for /\ x.version <= row'[x.id].version
               /\ call'[r].kind = "load" => \A y \in call'[r].answer : x.id = y.id => x = y
               /\ call'[r].kind = "load" /\ call'[r].live => x.version >= told'[x.id]
    BY <1>1, <1>2, DeliveryCallKinds, <2>2, DeliveryNats DEF VersionsFit
  <2> QED BY <2>1, <2>2 DEF VersionsFit
<1>13. OneEach'
  BY <1>1, <1>2, DeliveryCallKinds DEF OneEach, Spinners, LoadCounts, Concerns
<1>14. RowsShown'
  BY <1>1, <1>2, DeliveryCallKinds, DeliveryNats DEF RowsShown, VersionsFit, DeliveryTypes
<1>15. Spinners'
  BY <1>1, <1>2, DeliveryCallKinds DEF Spinners, OneEach, LoadCounts, Concerns
<1> QED BY <1>11, <1>12, <1>13, <1>14, <1>15

LEMMA AttemptDeliveryHolds == ASSUME DeliveryInv, NEW s \in Slots, DeliveryView!Attempt(s) PROVE DeliveryInv'
<1> USE DEF DeliveryInv
<1>1. /\ UNCHANGED <<items, filter, isLoading, retryingIds, told>>
      /\ row' \in [Deliveries -> [status : DeliveryView!Statuses, version : Nat]]
      /\ \A e \in Deliveries : row[e].version <= row'[e].version
  <2>1. call[s] \in DeliveryRetries
    BY DeliveryCallKinds DEF DeliveryView!Attempt, DeliveryTypes
  <2>2. call[s].for \in Deliveries
    BY <2>1 DEF DeliveryRetries
  <2> QED BY <2>2 DEF DeliveryView!Attempt, DeliveryView!Write, DeliveryView!console, DeliveryView!Statuses, DeliveryTypes
<1>2. /\ call[s] \in DeliveryRetries /\ DOMAIN call' = Slots
      /\ \A r \in Slots : r # s => call'[r] = call[r]
      /\ call'[s] \in DeliveryRetries /\ call'[s].kind = "retry" /\ call'[s].for = call[s].for
      /\ \A x \in call'[s].answer : x.id = call[s].for /\ x.version = row'[x.id].version
  <2>1. call[s] \in DeliveryRetries /\ call[s].for \in Deliveries
    BY DeliveryCallKinds DEF DeliveryView!Attempt, DeliveryTypes, DeliveryRetries
  <2>2. PICK x \in DeliveryRows :
          /\ x.id = call[s].for /\ x.version = row'[x.id].version
          /\ call' = [call EXCEPT ![s].stage = "served", ![s].answer = {x}]
    <3>1. PICK result \in {"failed", "succeeded"} :
            /\ DeliveryView!Write(call[s].for, result)
            /\ call' = [call EXCEPT ![s].stage = "served",
                 ![s].answer = {[id |-> call[s].for, status |-> result,
                                 version |-> row[call[s].for].version + 1]}]
      BY DEF DeliveryView!Attempt
    <3>2. row'[call[s].for].version = row[call[s].for].version + 1
      BY <2>1, <3>1 DEF DeliveryView!Write, DeliveryTypes
    <3>3. [id |-> call[s].for, status |-> result, version |-> row[call[s].for].version + 1] \in DeliveryRows
      BY <2>1 DEF DeliveryRows, DeliveryView!Statuses, DeliveryTypes
    <3> QED BY <3>1, <3>2, <3>3
  <2>3. /\ DOMAIN call' = Slots
        /\ call'[s] = [call[s] EXCEPT !.stage = "served", !.answer = {x}]
        /\ \A r \in Slots : r # s => call'[r] = call[r]
    BY <2>2 DEF DeliveryTypes
  <2>4. call'[s] \in DeliveryRetries /\ call'[s].kind = "retry" /\ call'[s].for = call[s].for
        /\ call'[s].answer = {x}
    <3>1. {x} \in SUBSET DeliveryRows
      BY <2>2
    <3> QED BY <2>1, <2>3, <3>1 DEF DeliveryRetries
  <2> QED BY <2>1, <2>2, <2>3, <2>4
<1>11. DeliveryTypes'
  BY <1>1, <1>2, DeliveryCallKinds DEF DeliveryTypes
<1>12. VersionsFit'
  <2>1. \A e \in Deliveries : told'[e] <= row'[e].version
    BY <1>1, <1>2, DeliveryCallKinds, DeliveryNats DEF VersionsFit
  <2>2. ASSUME NEW r \in Slots, NEW x \in DeliveryRows,
               call'[r] # DeliveryView!NoCall, x \in call'[r].answer
        PROVE  /\ call'[r].kind = "retry" => x.id = call'[r].for /\ x.version <= row'[x.id].version
               /\ call'[r].kind = "load" => \A y \in call'[r].answer : x.id = y.id => x = y
               /\ call'[r].kind = "load" /\ call'[r].live => x.version >= told'[x.id]
    BY <1>1, <1>2, DeliveryCallKinds, <2>2, DeliveryNats DEF VersionsFit
  <2> QED BY <2>1, <2>2 DEF VersionsFit
<1>13. OneEach'
  BY <1>1, <1>2, DeliveryCallKinds DEF OneEach, Spinners, LoadCounts, Concerns
<1>14. RowsShown'
  BY <1>1, <1>2, DeliveryCallKinds, DeliveryNats DEF RowsShown, VersionsFit, DeliveryTypes
<1>15. Spinners'
  BY <1>1, <1>2, DeliveryCallKinds DEF Spinners, OneEach, LoadCounts, Concerns
<1> QED BY <1>11, <1>12, <1>13, <1>14, <1>15

LEMMA ApplyDeliveryHolds == ASSUME DeliveryInv, NEW s \in Slots, NEW f \in DeliveryView!Filters, DeliveryView!Apply(s, f) PROVE DeliveryInv'
<1> USE DEF DeliveryInv
<1>1. /\ UNCHANGED <<row, items, retryingIds, told>>
      /\ call[s] = DeliveryView!NoCall /\ ~isLoading
  BY DEF DeliveryView!Apply
<1>2. /\ filter' \in DeliveryView!Filters /\ isLoading' = TRUE /\ DOMAIN call' = Slots
      /\ call'[s] \in DeliveryLoads /\ call'[s].kind = "load" /\ call'[s].live = TRUE
      /\ call'[s].answer = {}
      /\ \A r \in Slots : r # s =>
           IF call[r].kind = "load"
           THEN /\ call'[r] \in DeliveryLoads /\ call'[r].kind = "load" /\ call'[r].live = FALSE
                /\ call'[r].for = call[r].for /\ call'[r].answer = call[r].answer
           ELSE call'[r] = call[r]
      /\ call'[s].for = NoDelivery
  BY LoadStarts DEF DeliveryView!Apply
<1>11. DeliveryTypes'
  BY <1>1, <1>2, DeliveryCallKinds, NoDeliveryFits DEF DeliveryTypes
<1>12. VersionsFit'
  <2>1. \A e \in Deliveries : told'[e] <= row'[e].version
    BY <1>1, <1>2, DeliveryCallKinds, NoDeliveryFits, DeliveryNats DEF VersionsFit
  <2>2. ASSUME NEW r \in Slots, NEW x \in DeliveryRows,
               call'[r] # DeliveryView!NoCall, x \in call'[r].answer
        PROVE  /\ call'[r].kind = "retry" => x.id = call'[r].for /\ x.version <= row'[x.id].version
               /\ call'[r].kind = "load" => \A y \in call'[r].answer : x.id = y.id => x = y
               /\ call'[r].kind = "load" /\ call'[r].live => x.version >= told'[x.id]
    BY <1>1, <1>2, DeliveryCallKinds, NoDeliveryFits, <2>2, DeliveryNats DEF VersionsFit
  <2> QED BY <2>1, <2>2 DEF VersionsFit
<1>13. OneEach'
  BY <1>1, <1>2, DeliveryCallKinds, NoDeliveryFits DEF OneEach, Spinners, LoadCounts, Concerns
<1>14. RowsShown'
  BY <1>1, <1>2, DeliveryCallKinds, NoDeliveryFits, DeliveryNats DEF RowsShown, VersionsFit, DeliveryTypes
<1>15. Spinners'
  BY <1>1, <1>2, DeliveryCallKinds, NoDeliveryFits DEF Spinners, OneEach, LoadCounts, Concerns
<1> QED BY <1>11, <1>12, <1>13, <1>14, <1>15

LEMMA StartRetryDeliveryHolds == ASSUME DeliveryInv, NEW s \in Slots, NEW d \in Deliveries, DeliveryView!StartRetry(s, d) PROVE DeliveryInv'
<1> USE DEF DeliveryInv
<1>1. /\ UNCHANGED <<row, items, filter, isLoading, told>>
      /\ call[s] = DeliveryView!NoCall /\ d \notin retryingIds
      /\ retryingIds' = retryingIds \cup {d}
  BY DEF DeliveryView!StartRetry
<1>2. /\ DOMAIN call' = Slots /\ \A r \in Slots : r # s => call'[r] = call[r]
      /\ call'[s] \in DeliveryRetries /\ call'[s].kind = "retry" /\ call'[s].for = d
      /\ call'[s].answer = {}
  <2> DEFINE new == DeliveryView!Retry(d)
  <2>1. new \in DeliveryRetries /\ new.kind = "retry" /\ new.for = d /\ new.answer = {}
    BY DEF DeliveryView!Retry, DeliveryRetries
  <2> HIDE DEF new
  <2> QED BY <2>1 DEF DeliveryView!StartRetry, DeliveryTypes, new
<1>11. DeliveryTypes'
  BY <1>1, <1>2, DeliveryCallKinds, NoDeliveryFits DEF DeliveryTypes
<1>12. VersionsFit'
  <2>1. \A e \in Deliveries : told'[e] <= row'[e].version
    BY <1>1, <1>2, DeliveryCallKinds, NoDeliveryFits, DeliveryNats DEF VersionsFit
  <2>2. ASSUME NEW r \in Slots, NEW x \in DeliveryRows,
               call'[r] # DeliveryView!NoCall, x \in call'[r].answer
        PROVE  /\ call'[r].kind = "retry" => x.id = call'[r].for /\ x.version <= row'[x.id].version
               /\ call'[r].kind = "load" => \A y \in call'[r].answer : x.id = y.id => x = y
               /\ call'[r].kind = "load" /\ call'[r].live => x.version >= told'[x.id]
    BY <1>1, <1>2, DeliveryCallKinds, NoDeliveryFits, <2>2, DeliveryNats DEF VersionsFit
  <2> QED BY <2>1, <2>2 DEF VersionsFit
<1>13. OneEach'
  BY <1>1, <1>2, DeliveryCallKinds, NoDeliveryFits DEF OneEach, Spinners, LoadCounts, Concerns
<1>14. RowsShown'
  BY <1>1, <1>2, DeliveryCallKinds, NoDeliveryFits, DeliveryNats DEF RowsShown, VersionsFit, DeliveryTypes
<1>15. Spinners'
  BY <1>1, <1>2, DeliveryCallKinds, NoDeliveryFits DEF Spinners, OneEach, LoadCounts, Concerns
<1> QED BY <1>11, <1>12, <1>13, <1>14, <1>15

LEMMA ReceiveLoadDeliveryHolds == ASSUME DeliveryInv, NEW s \in Slots, DeliveryView!ReceiveLoad(s) PROVE DeliveryInv'
<1> USE DEF DeliveryInv
<1>1. /\ UNCHANGED <<row, filter, told>>
      /\ call[s] \in DeliveryLoads
      /\ items' = IF call[s].live THEN call[s].answer ELSE items
      /\ isLoading' = (isLoading /\ ~call[s].live) /\ LoadCounts(s) = call[s].live
      /\ retryingIds' = retryingIds \ {call[s].for}
  BY DeliveryCallKinds DEF DeliveryView!ReceiveLoad, DeliveryView!LoadEnds, DeliveryView!Counts, DeliveryTypes, LoadCounts, DeliveryLoads
<1>2. /\ DOMAIN call' = Slots /\ call'[s] = DeliveryView!NoCall
      /\ \A r \in Slots : r # s => call'[r] = call[r]
  BY DEF DeliveryView!ReceiveLoad, DeliveryView!LoadEnds, DeliveryTypes
<1>11. DeliveryTypes'
  <2>1. call[s].answer \subseteq DeliveryRows /\ call[s].live \in BOOLEAN
    BY <1>1 DEF DeliveryLoads
  <2>2. items' \subseteq DeliveryRows /\ isLoading' \in BOOLEAN
    BY <1>1, <2>1 DEF DeliveryTypes
  <2> QED BY <1>1, <1>2, <2>2 DEF DeliveryTypes
<1>12. VersionsFit'
  <2>1. \A e \in Deliveries : told'[e] <= row'[e].version
    BY <1>1, <1>2, DeliveryCallKinds, NoDeliveryFits, DeliveryNats DEF VersionsFit
  <2>2. ASSUME NEW r \in Slots, NEW x \in DeliveryRows,
               call'[r] # DeliveryView!NoCall, x \in call'[r].answer
        PROVE  /\ call'[r].kind = "retry" => x.id = call'[r].for /\ x.version <= row'[x.id].version
               /\ call'[r].kind = "load" => \A y \in call'[r].answer : x.id = y.id => x = y
               /\ call'[r].kind = "load" /\ call'[r].live => x.version >= told'[x.id]
    BY <1>1, <1>2, DeliveryCallKinds, NoDeliveryFits, <2>2, DeliveryNats DEF VersionsFit
  <2> QED BY <2>1, <2>2 DEF VersionsFit
<1>13. OneEach'
  BY <1>1, <1>2, DeliveryCallKinds, NoDeliveryFits DEF OneEach, Spinners, LoadCounts, Concerns
<1>14. RowsShown'
  <2>1. call[s].answer \subseteq DeliveryRows /\ call[s] # DeliveryView!NoCall /\ call[s].kind = "load"
    BY <1>1, DeliveryCallKinds DEF DeliveryLoads
  <2>2. CASE call[s].live
    BY <1>1, <2>1, <2>2 DEF RowsShown, VersionsFit
  <2>3. CASE ~call[s].live
    BY <1>1, <2>3 DEF RowsShown
  <2> QED BY <2>2, <2>3
<1>15. Spinners'
  <2>1. isLoading' <=> \E r \in Slots : LoadCounts(r)'
    BY <1>1, <1>2, DeliveryCallKinds DEF Spinners, OneEach, LoadCounts, DeliveryTypes
  <2>2. \A d \in Deliveries, r \in Slots : Concerns(r, d)' <=> (r # s /\ Concerns(r, d))
    BY <1>2 DEF Concerns
  <2>3. \A d \in Deliveries : Concerns(s, d) <=> d = call[s].for
    BY <1>1, DeliveryCallKinds DEF Concerns
  <2>4. retryingIds' \subseteq Deliveries
        /\ \A d \in Deliveries : d \in retryingIds' <=> \E r \in Slots : Concerns(r, d)'
    BY <1>1, <2>2, <2>3 DEF Spinners, OneEach
  <2> QED BY <2>1, <2>4 DEF Spinners
<1> QED BY <1>11, <1>12, <1>13, <1>14, <1>15

LEMMA ReceiveRetryDeliveryHolds == ASSUME DeliveryInv, NEW s \in Slots, DeliveryView!ReceiveRetry(s) PROVE DeliveryInv'
<1> USE DEF DeliveryInv
<1>1. PICK x \in DeliveryRows :
        /\ call[s] \in DeliveryRetries /\ x \in call[s].answer /\ x.id = call[s].for
        /\ x.version <= row[x.id].version
        /\ UNCHANGED <<row, retryingIds>>
        /\ items' = (items \ DeliveryView!Shown(x.id)) \cup
             {item \in {x} : DeliveryView!Shown(x.id) # {} /\ DeliveryView!Matches(x.status, filter)}
        /\ told' = [told EXCEPT ![x.id] = x.version]
        /\ DeliveryView!StartLoad(s, filter, x.id)
  <2>1. call[s] \in DeliveryRetries
    BY DeliveryCallKinds DEF DeliveryView!ReceiveRetry, DeliveryTypes
  <2>2. call[s].answer \subseteq DeliveryRows
    BY <2>1 DEF DeliveryRetries
  <2> QED BY <2>1, <2>2, DeliveryCallKinds DEF DeliveryView!ReceiveRetry, VersionsFit
<1>2. /\ filter' \in DeliveryView!Filters /\ isLoading' = TRUE /\ DOMAIN call' = Slots
      /\ call'[s] \in DeliveryLoads /\ call'[s].kind = "load" /\ call'[s].live = TRUE
      /\ call'[s].answer = {}
      /\ \A r \in Slots : r # s =>
           IF call[r].kind = "load"
           THEN /\ call'[r] \in DeliveryLoads /\ call'[r].kind = "load" /\ call'[r].live = FALSE
                /\ call'[r].for = call[r].for /\ call'[r].answer = call[r].answer
           ELSE call'[r] = call[r]
      /\ call'[s].for = x.id
  <2>1. x.id \in Deliveries /\ filter \in DeliveryView!Filters
    BY DEF DeliveryRows, DeliveryTypes
  <2> QED BY <1>1, <2>1, LoadStarts
<1>11. DeliveryTypes'
  <2>1. x.id \in Deliveries /\ x.version \in Nat
    BY DEF DeliveryRows
  <2>2. items' \subseteq DeliveryRows /\ told' \in [Deliveries -> Nat]
    BY <1>1, <2>1 DEF DeliveryTypes
  <2>3. isLoading' \in BOOLEAN
    BY <1>2
  <2> QED BY <1>1, <1>2, <2>2, <2>3 DEF DeliveryTypes
<1>12. VersionsFit'
  <2>1. \A e \in Deliveries : told'[e] <= row'[e].version
    BY <1>1, <1>2, DeliveryCallKinds, NoDeliveryFits, DeliveryNats DEF VersionsFit
  <2>2. ASSUME NEW r \in Slots, NEW z \in DeliveryRows,
               call'[r] # DeliveryView!NoCall, z \in call'[r].answer
        PROVE  /\ call'[r].kind = "retry" => z.id = call'[r].for /\ z.version <= row'[z.id].version
               /\ call'[r].kind = "load" => \A y \in call'[r].answer : z.id = y.id => z = y
               /\ call'[r].kind = "load" /\ call'[r].live => z.version >= told'[z.id]
    BY <1>1, <1>2, DeliveryCallKinds, NoDeliveryFits, <2>2, DeliveryNats DEF VersionsFit
  <2> QED BY <2>1, <2>2 DEF VersionsFit
<1>13. OneEach'
  BY <1>1, <1>2, DeliveryCallKinds, NoDeliveryFits DEF OneEach, Spinners, LoadCounts, Concerns
<1>14. RowsShown'
  <2>1. x.id \in Deliveries /\ x.version \in Nat
    BY DEF DeliveryRows
  <2>2. told'[x.id] = x.version /\ \A d \in Deliveries : d # x.id => told'[d] = told[d]
    BY <1>1, <2>1 DEF DeliveryTypes
  <2>3. \A y \in items' : y = x \/ (y \in items /\ y.id # x.id)
    BY <1>1 DEF DeliveryView!Shown
  <2> QED BY <2>1, <2>2, <2>3, DeliveryNats DEF RowsShown
<1>15. Spinners'
  BY <1>1, <1>2, DeliveryCallKinds, NoDeliveryFits DEF Spinners, OneEach, LoadCounts, Concerns
<1> QED BY <1>11, <1>12, <1>13, <1>14, <1>15

LEMMA ReceiveConflictDeliveryHolds == ASSUME DeliveryInv, NEW s \in Slots, DeliveryView!ReceiveConflict(s) PROVE DeliveryInv'
<1> USE DEF DeliveryInv
<1>1. /\ UNCHANGED <<row, items, retryingIds, told>>
      /\ call[s] \in DeliveryRetries
  BY DeliveryCallKinds DEF DeliveryView!ReceiveConflict, DeliveryTypes
<1>2. /\ filter' \in DeliveryView!Filters /\ isLoading' = TRUE /\ DOMAIN call' = Slots
      /\ call'[s] \in DeliveryLoads /\ call'[s].kind = "load" /\ call'[s].live = TRUE
      /\ call'[s].answer = {}
      /\ \A r \in Slots : r # s =>
           IF call[r].kind = "load"
           THEN /\ call'[r] \in DeliveryLoads /\ call'[r].kind = "load" /\ call'[r].live = FALSE
                /\ call'[r].for = call[r].for /\ call'[r].answer = call[r].answer
           ELSE call'[r] = call[r]
      /\ call'[s].for = call[s].for
  <2>1. call[s].for \in Deliveries /\ filter \in DeliveryView!Filters
    BY <1>1 DEF DeliveryRetries, DeliveryTypes
  <2> QED BY <1>1, <2>1, LoadStarts DEF DeliveryView!ReceiveConflict
<1>11. DeliveryTypes'
  BY <1>1, <1>2, DeliveryCallKinds, NoDeliveryFits DEF DeliveryTypes
<1>12. VersionsFit'
  <2>1. \A e \in Deliveries : told'[e] <= row'[e].version
    BY <1>1, <1>2, DeliveryCallKinds, NoDeliveryFits, DeliveryNats DEF VersionsFit
  <2>2. ASSUME NEW r \in Slots, NEW x \in DeliveryRows,
               call'[r] # DeliveryView!NoCall, x \in call'[r].answer
        PROVE  /\ call'[r].kind = "retry" => x.id = call'[r].for /\ x.version <= row'[x.id].version
               /\ call'[r].kind = "load" => \A y \in call'[r].answer : x.id = y.id => x = y
               /\ call'[r].kind = "load" /\ call'[r].live => x.version >= told'[x.id]
    BY <1>1, <1>2, DeliveryCallKinds, NoDeliveryFits, <2>2, DeliveryNats DEF VersionsFit
  <2> QED BY <2>1, <2>2 DEF VersionsFit
<1>13. OneEach'
  BY <1>1, <1>2, DeliveryCallKinds, NoDeliveryFits DEF OneEach, Spinners, LoadCounts, Concerns
<1>14. RowsShown'
  BY <1>1, <1>2, DeliveryCallKinds, NoDeliveryFits, DeliveryNats DEF RowsShown, VersionsFit, DeliveryTypes
<1>15. Spinners'
  BY <1>1, <1>2, DeliveryCallKinds, NoDeliveryFits DEF Spinners, OneEach, LoadCounts, Concerns
<1> QED BY <1>11, <1>12, <1>13, <1>14, <1>15

LEMMA FailDeliveryHolds == ASSUME DeliveryInv, NEW s \in Slots, DeliveryView!Fail(s) PROVE DeliveryInv'
<1> USE DEF DeliveryInv
<1>1. /\ UNCHANGED <<row, items, filter, told>>
      /\ call[s] \in DeliveryLoads \cup DeliveryRetries
      /\ isLoading' = (isLoading /\ ~LoadCounts(s))
      /\ retryingIds' = retryingIds \ {call[s].for}
  BY DeliveryCallKinds DEF DeliveryView!Fail, DeliveryView!LoadEnds, LoadCounts, DeliveryTypes
<1>2. /\ DOMAIN call' = Slots /\ call'[s] = DeliveryView!NoCall
      /\ \A r \in Slots : r # s => call'[r] = call[r]
  BY DEF DeliveryView!Fail, DeliveryView!LoadEnds, DeliveryTypes
<1>11. DeliveryTypes'
  BY <1>1, <1>2, DeliveryCallKinds, NoDeliveryFits DEF DeliveryTypes
<1>12. VersionsFit'
  <2>1. \A e \in Deliveries : told'[e] <= row'[e].version
    BY <1>1, <1>2, DeliveryCallKinds, NoDeliveryFits, DeliveryNats DEF VersionsFit
  <2>2. ASSUME NEW r \in Slots, NEW x \in DeliveryRows,
               call'[r] # DeliveryView!NoCall, x \in call'[r].answer
        PROVE  /\ call'[r].kind = "retry" => x.id = call'[r].for /\ x.version <= row'[x.id].version
               /\ call'[r].kind = "load" => \A y \in call'[r].answer : x.id = y.id => x = y
               /\ call'[r].kind = "load" /\ call'[r].live => x.version >= told'[x.id]
    BY <1>1, <1>2, DeliveryCallKinds, NoDeliveryFits, <2>2, DeliveryNats DEF VersionsFit
  <2> QED BY <2>1, <2>2 DEF VersionsFit
<1>13. OneEach'
  BY <1>1, <1>2, DeliveryCallKinds, NoDeliveryFits DEF OneEach, Spinners, LoadCounts, Concerns
<1>14. RowsShown'
  BY <1>1, <1>2, DeliveryCallKinds, NoDeliveryFits, DeliveryNats DEF RowsShown, VersionsFit, DeliveryTypes
<1>15. Spinners'
  <2>1. isLoading' <=> \E r \in Slots : LoadCounts(r)'
    BY <1>1, <1>2, DeliveryCallKinds DEF Spinners, OneEach, LoadCounts, DeliveryTypes
  <2>2. \A d \in Deliveries, r \in Slots : Concerns(r, d)' <=> (r # s /\ Concerns(r, d))
    BY <1>2 DEF Concerns
  <2>3. \A d \in Deliveries : Concerns(s, d) <=> d = call[s].for
    BY <1>1, DeliveryCallKinds DEF Concerns
  <2>4. retryingIds' \subseteq Deliveries
        /\ \A d \in Deliveries : d \in retryingIds' <=> \E r \in Slots : Concerns(r, d)'
    BY <1>1, <2>2, <2>3 DEF Spinners, OneEach
  <2> QED BY <2>1, <2>4 DEF Spinners
<1> QED BY <1>11, <1>12, <1>13, <1>14, <1>15

LEMMA DeliveryInitHolds == DeliveryView!Init => DeliveryInv
<1> SUFFICES ASSUME DeliveryView!Init PROVE DeliveryInv
  OBVIOUS
<1>1. PICK s \in Slots :
        call = [x \in Slots |-> IF x = s THEN DeliveryView!Load("all", NoDelivery)
                                ELSE DeliveryView!NoCall]
  BY DEF DeliveryView!Init
<1>2. /\ DOMAIN call = Slots /\ \A x \in Slots : x # s => call[x] = DeliveryView!NoCall
      /\ call[s] \in DeliveryLoads /\ call[s].kind = "load" /\ call[s].live = TRUE
      /\ call[s].for = NoDelivery /\ call[s].answer = {}
  BY <1>1 DEF DeliveryView!Load, DeliveryLoads, DeliveryView!Filters
<1>3. DeliveryTypes
  <2>1. row \in [Deliveries -> [status : DeliveryView!Statuses, version : Nat]]
    BY DEF DeliveryView!Init, DeliveryView!Statuses
  <2> QED BY <1>2, <2>1 DEF DeliveryView!Init, DeliveryTypes, DeliveryView!Filters
<1>4. VersionsFit
  <2>1. \A d \in Deliveries : told[d] <= row[d].version
    BY DEF DeliveryView!Init
  <2> QED BY <1>2, <2>1 DEF VersionsFit
<1>5. OneEach /\ RowsShown /\ Spinners
  BY <1>2, DeliveryCallKinds, NoDeliveryFits
  DEF DeliveryView!Init, OneEach, RowsShown, Spinners, LoadCounts, Concerns
<1> QED BY <1>3, <1>4, <1>5 DEF DeliveryInv

LEMMA DeliveryNextHolds == DeliveryInv /\ [DeliveryView!Next]_(DeliveryView!vars) => DeliveryInv'
<1>1. DeliveryInv /\ DeliveryView!Next => DeliveryInv'
  BY ElsewhereDeliveryHolds, ServeLoadDeliveryHolds, ClaimDeliveryHolds, AttemptDeliveryHolds,
     ApplyDeliveryHolds, StartRetryDeliveryHolds, ReceiveLoadDeliveryHolds,
     ReceiveRetryDeliveryHolds, ReceiveConflictDeliveryHolds, FailDeliveryHolds
  DEF DeliveryView!Next
<1>2. DeliveryInv /\ UNCHANGED DeliveryView!vars => DeliveryInv'
  <2> SUFFICES ASSUME DeliveryInv, UNCHANGED DeliveryView!vars PROVE DeliveryInv'
    OBVIOUS
  <2> USE DEF DeliveryView!vars, DeliveryView!console, DeliveryInv
  <2>1. DeliveryTypes'
    BY DEF DeliveryTypes
  <2>2. VersionsFit' /\ RowsShown'
    BY DEF VersionsFit, RowsShown
  <2>3. OneEach' /\ Spinners'
    BY DEF OneEach, Spinners, LoadCounts, Concerns
  <2> QED BY <2>1, <2>2, <2>3
<1> QED BY <1>1, <1>2

LEMMA NothingOlderHolds == DeliveryInv => DeliveryView!NothingOlder
<1> SUFFICES ASSUME DeliveryInv PROVE DeliveryView!NothingOlder
  OBVIOUS
<1> USE DEF DeliveryInv
<1>1. \A x \in items : x.version >= told[x.id] /\ DeliveryView!Shown(x.id) = {x}
  BY DEF RowsShown, DeliveryView!Shown
<1>2. isLoading <=> \E s \in Slots : call[s].kind = "load" /\ call[s].live
  BY DEF Spinners, LoadCounts
<1>3. \A s \in Slots : call[s] # DeliveryView!NoCall => call[s].for \in Deliveries \cup {NoDelivery}
  BY DEF DeliveryTypes, DeliveryLoads, DeliveryRetries
<1>4. retryingIds =
        {call[s].for : s \in {x \in Slots : call[x] # DeliveryView!NoCall}} \ {NoDelivery}
  BY <1>3, NoDeliveryFits DEF Spinners, Concerns
<1> QED BY <1>1, <1>2, <1>4 DEF DeliveryView!NothingOlder

-----------------------------------------------------------------------------
(***************************************************************************)
(* The list of clients.                                                     *)
(***************************************************************************)

\* What a row is when it is shown or answered, and what a request of this view is.
ClientRows == [id : Clients, version : Nat]
Changes == ClientView!Operations \cup {"create"}
ClientCalls ==
  [kind : Changes \cup {"load"}, for : Clients \cup {NoClient}, live : BOOLEAN,
   served : BOOLEAN, answer : SUBSET ClientRows, secret : Nat \cup {NoSecret}]

ClientTypes ==
  /\ version \in [Clients -> Nat] /\ drawn \in Nat
  /\ items \subseteq ClientRows
  /\ credential \in Nat \cup {NoSecret}
  /\ isCreating \in BOOLEAN /\ isGeneratingCredential \in BOOLEAN
  /\ busyClientIds \subseteq Clients
  /\ told \in [Clients -> Nat]
  /\ DOMAIN call = Slots
  /\ \A s \in Slots : call[s] = ClientView!NoCall \/ call[s] \in ClientCalls

Operates(s) == call[s].kind \in ClientView!Operations
Creates(s) == call[s].kind = "create"
Draws(s) == call[s].kind \in ClientView!WithSecret
LiveLoad(s) == call[s].kind = "load" /\ call[s].live

\* The flags that hold operations off are up as long as they are needed.
FlagsFit ==
  /\ \A s \in Slots : Creates(s) => isCreating
  /\ \A s \in Slots : Draws(s) => isGeneratingCredential /\ credential = NoSecret
  /\ \A s \in Slots : Operates(s) => call[s].for \in busyClientIds
  /\ \A s \in Slots : call[s].kind \in {"create", "load"} => call[s].for = NoClient
  /\ \A s \in Slots : LiveLoad(s) => ~isCreating /\ busyClientIds = {}
  /\ \A r, s \in Slots : Draws(r) /\ Draws(s) => r = s
  /\ \A r, s \in Slots : Operates(r) /\ Operates(s) /\ call[r].for = call[s].for => r = s

\* A secret on its way has not been seen.
SecretsDrawn ==
  /\ closed \subseteq received
  /\ \A n \in received : n \in Nat /\ n <= drawn
  /\ credential # NoSecret => credential \in received
  /\ \A s \in Slots : Draws(s) /\ call[s].served =>
       call[s].secret \in Nat /\ call[s].secret <= drawn /\ call[s].secret \notin received

\* What is shown and what is on its way is as new as what was told.
ListFits ==
  /\ \A c \in Clients : told[c] <= version[c]
  /\ \A c \in Clients : told[c] > 0 =>
       /\ \E x \in items : x.id = c
       /\ \A x \in items : x.id = c => x.version >= told[c]
  /\ \A s \in Slots : Operates(s) => \E x \in items : x.id = call[s].for
  /\ \A s \in Slots, x \in ClientRows : call[s] # ClientView!NoCall /\ x \in call[s].answer =>
       /\ Operates(s) => x.id = call[s].for
       /\ x.version <= version[x.id]
       /\ LiveLoad(s) => x.version >= told[x.id]
  /\ \A s \in Slots, c \in Clients : LiveLoad(s) /\ call[s].served /\ told[c] > 0 =>
       \E x \in call[s].answer : x.id = c

ClientInv ==
  /\ ClientTypes /\ FlagsFit /\ SecretsDrawn /\ ListFits
  /\ ClientView!SecretsAreShown

LEMMA ClientCallKinds ==
  /\ ClientView!NoCall.kind = "none" /\ ClientView!NoCall \notin ClientCalls
  /\ \A x \in ClientCalls :
       /\ x.kind \in Changes \cup {"load"} /\ x.for \in Clients \cup {NoClient}
       /\ x.answer \subseteq ClientRows
BY DEF ClientView!NoCall, ClientCalls, Changes, ClientView!Operations

LEMMA ClientKinds ==
  /\ ClientView!Operations = {"set", "clear", "rotate"} /\ ClientView!WithSecret = {"create", "rotate"}
  /\ Changes = {"set", "clear", "rotate", "create"}
BY DEF Changes, ClientView!Operations, ClientView!WithSecret

LEMMA SecretsFitClients == NoClient \notin Clients /\ NoSecret \notin Nat
BY ConsoleAssumption DEF ClientView!ClientsAssumption

\* Versions can be compared.
LEMMA ClientNats ==
  ASSUME ClientTypes
  PROVE  /\ \A c \in Clients : version[c] \in Nat /\ told[c] \in Nat
         /\ \A x \in ClientRows : x.id \in Clients /\ x.version \in Nat
         /\ \A x \in items : x.id \in Clients /\ x.version \in Nat
BY DEF ClientTypes, ClientRows

\* A request as it is made.
LEMMA NewClientCall ==
  ASSUME NEW kind \in Changes \cup {"load"}, NEW c \in Clients \cup {NoClient}
  PROVE  LET new == ClientView!NewCall(kind, c) IN
         /\ new \in ClientCalls /\ new.kind = kind /\ new.for = c /\ new.live = TRUE
         /\ new.served = FALSE /\ new.answer = {}
BY DEF ClientView!NewCall, ClientCalls

\* A request is made, and loads asked for before do not count any more.
LEMMA ClientCallMade ==
  ASSUME ClientTypes, NEW s \in Slots, NEW kind \in Changes \cup {"load"},
         NEW c \in Clients \cup {NoClient},
         call' = [ClientView!Superseded EXCEPT ![s] = ClientView!NewCall(kind, c)]
  PROVE  /\ DOMAIN call' = Slots
         /\ call'[s] \in ClientCalls /\ call'[s].kind = kind /\ call'[s].for = c
         /\ call'[s].served = FALSE /\ call'[s].answer = {}
         /\ \A r \in Slots : r # s =>
              IF call[r].kind = "load"
              THEN /\ call'[r] \in ClientCalls /\ call'[r].kind = "load" /\ call'[r].live = FALSE
                   /\ call'[r].answer = call[r].answer /\ call'[r].for = call[r].for
              ELSE call'[r] = call[r]
<1> DEFINE new == ClientView!NewCall(kind, c)
<1>1. /\ new \in ClientCalls /\ new.kind = kind /\ new.for = c /\ new.live = TRUE
      /\ new.served = FALSE /\ new.answer = {}
  BY NewClientCall
<1>2. DOMAIN ClientView!Superseded = Slots
  BY DEF ClientView!Superseded
<1> HIDE DEF new
<1>3. /\ DOMAIN call' = Slots /\ call'[s] = new
      /\ \A r \in Slots : r # s => call'[r] = ClientView!Superseded[r]
  BY <1>2 DEF new
<1>4. ASSUME NEW r \in Slots, call[r].kind = "load"
      PROVE  LET t == [call[r] EXCEPT !.live = FALSE] IN
             /\ t \in ClientCalls /\ t.kind = "load" /\ t.live = FALSE /\ t.answer = call[r].answer /\ t.for = call[r].for
  <2>1. call[r] \in ClientCalls
    BY <1>4, ClientCallKinds DEF ClientTypes
  <2> QED BY <1>4, <2>1 DEF ClientCalls
<1> QED BY <1>1, <1>3, <1>4 DEF ClientView!Superseded

\* A request keeps its kind, or none of those that count is there.
LEMMA SameKind ==
  ASSUME NEW r \in Slots, call'[r].kind = call[r].kind
  PROVE  /\ Operates(r)' <=> Operates(r)
         /\ Creates(r)' <=> Creates(r)
         /\ Draws(r)' <=> Draws(r)
BY DEF Operates, Creates, Draws

LEMMA SameCall ==
  ASSUME NEW r \in Slots, call'[r] = call[r]
  PROVE  /\ Operates(r)' <=> Operates(r)
         /\ Creates(r)' <=> Creates(r)
         /\ Draws(r)' <=> Draws(r)
         /\ LiveLoad(r)' <=> LiveLoad(r)
BY DEF Operates, Creates, Draws, LiveLoad

LEMMA OfKind ==
  ASSUME NEW r \in Slots, NEW kind \in Changes \cup {"load", "none"}, call'[r].kind = kind
  PROVE  /\ Operates(r)' <=> kind \in ClientView!Operations
         /\ Creates(r)' <=> kind = "create"
         /\ Draws(r)' <=> kind \in ClientView!WithSecret
         /\ LiveLoad(r)' => kind = "load"
         /\ kind = "load" => ~Operates(r)' /\ ~Creates(r)' /\ ~Draws(r)'
         /\ kind = "none" => ~Operates(r)' /\ ~Creates(r)' /\ ~Draws(r)'
BY ClientKinds DEF Operates, Creates, Draws, LiveLoad

\* A request is made: what becomes of the others.
LEMMA OthersStay ==
  ASSUME NEW r \in Slots,
         IF call[r].kind = "load"
         THEN /\ call'[r] \in ClientCalls /\ call'[r].kind = "load" /\ call'[r].live = FALSE
              /\ call'[r].answer = call[r].answer /\ call'[r].for = call[r].for
         ELSE call'[r] = call[r]
  PROVE  /\ Operates(r)' <=> Operates(r)
         /\ Creates(r)' <=> Creates(r)
         /\ Draws(r)' <=> Draws(r)
         /\ ~LiveLoad(r)'
         /\ Operates(r) => call'[r] = call[r]
         /\ Draws(r) => call'[r] = call[r]
<1>1. call'[r].kind = call[r].kind
  OBVIOUS
<1> QED BY <1>1, SameKind, ClientKinds DEF LiveLoad, Operates, Draws

LEMMA ElsewhereClientHolds == ASSUME ClientInv, NEW c \in Clients, ClientView!Elsewhere(c) PROVE ClientInv'
<1> USE DEF ClientInv
<1>1. /\ UNCHANGED <<drawn, items, credential, isCreating, isGeneratingCredential, busyClientIds, told, received, closed, call>>
      /\ version' \in [Clients -> Nat]
      /\ \A d \in Clients : version[d] <= version'[d]
  BY DEF ClientView!Elsewhere, ClientView!console, ClientTypes
<1>11. ClientTypes'
  BY <1>1, ClientCallKinds, ClientKinds, SecretsFitClients DEF ClientTypes
<1>12. FlagsFit'
  BY <1>1, ClientCallKinds, ClientKinds, SecretsFitClients DEF FlagsFit, Operates, Creates, Draws, LiveLoad
<1>13. SecretsDrawn'
  BY <1>1, ClientCallKinds, ClientKinds, SecretsFitClients DEF ClientTypes, FlagsFit, SecretsDrawn, Operates, Creates, Draws, LiveLoad
<1>14. ListFits'
  <2>1. \A d \in Clients : told'[d] <= version'[d]
    BY <1>1, ClientCallKinds, ClientKinds, SecretsFitClients, ClientNats DEF ListFits
  <2>2. \A d \in Clients : told'[d] > 0 =>
          /\ \E x \in items' : x.id = d
          /\ \A x \in items' : x.id = d => x.version >= told'[d]
    BY <1>1, ClientCallKinds, ClientKinds, SecretsFitClients, ClientNats DEF ListFits, FlagsFit, Operates, Creates, Draws, LiveLoad
  <2>3. \A r \in Slots : Operates(r)' => \E x \in items' : x.id = call'[r].for
    BY <1>1, ClientCallKinds, ClientKinds, SecretsFitClients DEF ListFits, FlagsFit, Operates, Creates, Draws, LiveLoad
  <2>4. ASSUME NEW r \in Slots, NEW x \in ClientRows, call'[r] # ClientView!NoCall, x \in call'[r].answer
        PROVE  /\ Operates(r)' => x.id = call'[r].for
               /\ x.version <= version'[x.id]
               /\ LiveLoad(r)' => x.version >= told'[x.id]
    BY <1>1, ClientCallKinds, ClientKinds, SecretsFitClients, <2>4, ClientNats DEF ListFits, FlagsFit, Operates, Creates, Draws, LiveLoad
  <2>5. ASSUME NEW r \in Slots, NEW d \in Clients, LiveLoad(r)', call'[r].served, told'[d] > 0
        PROVE  \E x \in call'[r].answer : x.id = d
    BY <1>1, ClientCallKinds, ClientKinds, SecretsFitClients, <2>5, ClientNats DEF ListFits, FlagsFit, Operates, Creates, Draws, LiveLoad
  <2> QED BY <2>1, <2>2, <2>3, <2>4, <2>5 DEF ListFits
<1>15. ClientView!SecretsAreShown'
  BY <1>1, ClientCallKinds, ClientKinds, SecretsFitClients DEF ClientView!SecretsAreShown, SecretsDrawn, FlagsFit, Operates, Creates, Draws, LiveLoad
<1> QED BY <1>11, <1>12, <1>13, <1>14, <1>15

LEMMA ServeLoadClientHolds == ASSUME ClientInv, NEW s \in Slots, ClientView!ServeLoad(s) PROVE ClientInv'
<1> USE DEF ClientInv
<1>1. /\ UNCHANGED <<version, drawn, items, credential, isCreating, isGeneratingCredential, busyClientIds, told, received, closed>>
      /\ DOMAIN call' = Slots /\ \A r \in Slots : r # s => call'[r] = call[r]
      /\ call[s] \in ClientCalls /\ call[s].kind = "load"
  BY ClientCallKinds DEF ClientView!ServeLoad, ClientView!Served, ClientView!console, ClientTypes
<1>2. /\ call'[s] \in ClientCalls
      /\ call'[s].kind = "load" /\ call'[s].live = call[s].live /\ call'[s].for = call[s].for
      /\ \A x \in call'[s].answer : x.version = version[x.id]
      /\ \A c \in Clients : version[c] > 0 => \E x \in call'[s].answer : x.id = c
  <2> DEFINE found == {[id |-> c, version |-> version[c]] : c \in {d \in Clients : version[d] > 0}}
  <2>1. found \in SUBSET ClientRows /\ \A x \in found : x.version = version[x.id]
    BY DEF ClientRows, ClientTypes
  <2>4. ASSUME NEW c \in Clients, version[c] > 0
        PROVE  \E x \in found : x.id = c
    <3>1. [id |-> c, version |-> version[c]] \in found
      BY <2>4
    <3> QED BY <3>1
  <2>2. call' = [call EXCEPT ![s].served = TRUE, ![s].answer = found, ![s].secret = NoSecret]
    BY DEF ClientView!ServeLoad, ClientView!Served
  <2> HIDE DEF found
  <2>3. call'[s] = [call[s] EXCEPT !.served = TRUE, !.answer = found, !.secret = NoSecret]
    BY <2>2 DEF ClientTypes
  <2>5. call'[s] \in ClientCalls /\ call'[s].answer = found
        /\ call'[s].kind = "load" /\ call'[s].live = call[s].live /\ call'[s].for = call[s].for
    BY <1>1, <2>1, <2>3 DEF ClientCalls
  <2> QED BY <2>1, <2>4, <2>5
<1>11. ClientTypes'
  BY <1>1, <1>2, ClientCallKinds, ClientKinds, SecretsFitClients DEF ClientTypes
<1>12. FlagsFit'
  <2>1. \A r \in Slots :
          /\ Operates(r)' <=> Operates(r)
          /\ Creates(r)' <=> Creates(r)
          /\ Draws(r)' <=> Draws(r)
          /\ LiveLoad(r)' => LiveLoad(r)
    <3>1. \A r \in Slots : call'[r].kind = call[r].kind
      BY <1>1, <1>2
    <3> QED BY <1>1, <1>2, <3>1, SameKind, ClientKinds DEF LiveLoad
  <2>2. \A r \in Slots : call'[r].for = call[r].for /\ call'[r].kind = call[r].kind
    BY <1>1, <1>2
  <2>3. /\ \A r \in Slots : Creates(r)' => isCreating'
        /\ \A r \in Slots : Draws(r)' => isGeneratingCredential' /\ credential' = NoSecret
        /\ \A q, r \in Slots : Draws(q)' /\ Draws(r)' => q = r
        /\ \A r \in Slots : LiveLoad(r)' => ~isCreating' /\ busyClientIds' = {}
    BY <1>1, <2>1 DEF FlagsFit
  <2>4. /\ \A r \in Slots : Operates(r)' => call'[r].for \in busyClientIds'
        /\ \A q, r \in Slots : Operates(q)' /\ Operates(r)' /\ call'[q].for = call'[r].for => q = r
        /\ \A r \in Slots : call'[r].kind \in {"create", "load"} => call'[r].for = NoClient
    <3>1. ASSUME NEW r \in Slots, Operates(r)' PROVE call'[r].for \in busyClientIds'
      <4>1. Operates(r) /\ call'[r].for = call[r].for
        BY <2>1, <2>2, <3>1
      <4> QED BY <1>1, <4>1 DEF FlagsFit
    <3>2. \A q, r \in Slots : Operates(q)' /\ Operates(r)' /\ call'[q].for = call'[r].for => q = r
      BY <2>1, <2>2 DEF FlagsFit
    <3>3. \A r \in Slots : call'[r].kind \in {"create", "load"} => call'[r].for = NoClient
      BY <2>2 DEF FlagsFit
    <3> QED BY <3>1, <3>2, <3>3
  <2> QED BY <2>3, <2>4 DEF FlagsFit
<1>13. SecretsDrawn'
  BY <1>1, <1>2, ClientCallKinds, ClientKinds, SecretsFitClients DEF ClientTypes, FlagsFit, SecretsDrawn, Operates, Creates, Draws, LiveLoad
<1>14. ListFits'
  <2>1. \A d \in Clients : told'[d] <= version'[d]
    BY <1>1, <1>2, ClientCallKinds, ClientKinds, SecretsFitClients, ClientNats DEF ListFits
  <2>2. \A d \in Clients : told'[d] > 0 =>
          /\ \E x \in items' : x.id = d
          /\ \A x \in items' : x.id = d => x.version >= told'[d]
    BY <1>1, <1>2, ClientCallKinds, ClientKinds, SecretsFitClients, ClientNats DEF ListFits, FlagsFit, Operates, Creates, Draws, LiveLoad
  <2>3. \A r \in Slots : Operates(r)' => \E x \in items' : x.id = call'[r].for
    BY <1>1, <1>2, ClientCallKinds, ClientKinds, SecretsFitClients DEF ListFits, FlagsFit, Operates, Creates, Draws, LiveLoad
  <2>4. ASSUME NEW r \in Slots, NEW x \in ClientRows, call'[r] # ClientView!NoCall, x \in call'[r].answer
        PROVE  /\ Operates(r)' => x.id = call'[r].for
               /\ x.version <= version'[x.id]
               /\ LiveLoad(r)' => x.version >= told'[x.id]
    BY <1>1, <1>2, ClientCallKinds, ClientKinds, SecretsFitClients, <2>4, ClientNats DEF ListFits, FlagsFit, Operates, Creates, Draws, LiveLoad
  <2>5. ASSUME NEW r \in Slots, NEW d \in Clients, LiveLoad(r)', call'[r].served, told'[d] > 0
        PROVE  \E x \in call'[r].answer : x.id = d
    BY <1>1, <1>2, ClientCallKinds, ClientKinds, SecretsFitClients, <2>5, ClientNats DEF ListFits, FlagsFit, Operates, Creates, Draws, LiveLoad
  <2> QED BY <2>1, <2>2, <2>3, <2>4, <2>5 DEF ListFits
<1>15. ClientView!SecretsAreShown'
  BY <1>1, <1>2, ClientCallKinds, ClientKinds, SecretsFitClients DEF ClientView!SecretsAreShown, SecretsDrawn, FlagsFit, Operates, Creates, Draws, LiveLoad
<1> QED BY <1>11, <1>12, <1>13, <1>14, <1>15

LEMMA ServeChangeClientHolds == ASSUME ClientInv, NEW s \in Slots, ClientView!ServeChange(s) PROVE ClientInv'
<1> USE DEF ClientInv
<1>1. PICK c \in Clients, secret \in Nat \cup {NoSecret} :
        /\ UNCHANGED <<items, credential, isCreating, isGeneratingCredential, busyClientIds, told, received, closed>>
        /\ call[s] \in ClientCalls /\ call[s].kind \in Changes /\ ~call[s].served
        /\ call[s].kind \in ClientView!Operations => c = call[s].for
        /\ version' = [version EXCEPT ![c] = version[c] + 1]
        /\ drawn' \in Nat /\ drawn <= drawn'
        /\ call[s].kind \in ClientView!WithSecret => secret = drawn + 1 /\ drawn' = drawn + 1
        /\ call' = [call EXCEPT ![s].served = TRUE,
             ![s].answer = {[id |-> c, version |-> version[c] + 1]}, ![s].secret = secret]
  <2>1. call[s] \in ClientCalls /\ call[s].kind \in Changes
    BY ClientCallKinds, ClientKinds DEF ClientView!ServeChange, ClientTypes, Changes
  <2>2. drawn \in Nat /\ \A d \in Clients : version[d] \in Nat
    BY DEF ClientTypes
  <2>3. call[s].kind \in ClientView!Operations => call[s].for \in Clients
    BY DEF FlagsFit, Operates, ClientTypes
  <2>4. PICK c \in Clients :
          /\ call[s].kind \in ClientView!Operations => c = call[s].for
          /\ version' = [version EXCEPT ![c] = version[c] + 1]
          /\ drawn' = IF call[s].kind \in ClientView!WithSecret THEN drawn + 1 ELSE drawn
          /\ call' = [call EXCEPT ![s].served = TRUE,
               ![s].answer = {[id |-> c, version |-> version[c] + 1]},
               ![s].secret = IF call[s].kind \in ClientView!WithSecret THEN drawn + 1 ELSE NoSecret]
    BY <2>1, <2>3, ClientKinds DEF ClientView!ServeChange, ClientView!Served
  <2> DEFINE secret == IF call[s].kind \in ClientView!WithSecret THEN drawn + 1 ELSE NoSecret
  <2>5. /\ secret \in Nat \cup {NoSecret} /\ drawn' \in Nat /\ drawn <= drawn'
        /\ call[s].kind \in ClientView!WithSecret => secret = drawn + 1 /\ drawn' = drawn + 1
    BY <2>2, <2>4
  <2>6. UNCHANGED <<items, credential, isCreating, isGeneratingCredential, busyClientIds, told, received, closed>> /\ ~call[s].served
    BY DEF ClientView!ServeChange, ClientView!console
  <2> QED BY <2>1, <2>4, <2>5, <2>6
<1>2. /\ DOMAIN call' = Slots /\ \A r \in Slots : r # s => call'[r] = call[r]
      /\ call'[s] \in ClientCalls /\ call'[s].kind = call[s].kind /\ call'[s].for = call[s].for
      /\ call'[s].secret = secret
      /\ \A x \in call'[s].answer : x.id = c /\ x.version = version'[c]
      /\ version' \in [Clients -> Nat] /\ \A d \in Clients : version[d] <= version'[d]
  <2> DEFINE found == {[id |-> c, version |-> version[c] + 1]}
  <2>1. /\ version' \in [Clients -> Nat] /\ \A d \in Clients : version[d] <= version'[d]
        /\ version'[c] = version[c] + 1
    BY <1>1 DEF ClientTypes
  <2>2. found \in SUBSET ClientRows /\ \A x \in found : x.id = c /\ x.version = version'[c]
    BY <2>1 DEF ClientRows, ClientTypes
  <2>3. call' = [call EXCEPT ![s].served = TRUE, ![s].answer = found, ![s].secret = secret]
    BY <1>1
  <2> HIDE DEF found
  <2>4. /\ call'[s] = [call[s] EXCEPT !.served = TRUE, !.answer = found, !.secret = secret]
        /\ DOMAIN call' = Slots /\ \A r \in Slots : r # s => call'[r] = call[r]
    BY <2>3 DEF ClientTypes
  <2> QED BY <1>1, <2>1, <2>2, <2>4 DEF ClientCalls
<1>11. ClientTypes'
  BY <1>1, <1>2, ClientCallKinds, ClientKinds, SecretsFitClients DEF ClientTypes
<1>12. FlagsFit'
  <2>1. \A r \in Slots :
          /\ Operates(r)' <=> Operates(r)
          /\ Creates(r)' <=> Creates(r)
          /\ Draws(r)' <=> Draws(r)
          /\ LiveLoad(r)' => LiveLoad(r)
    <3>1. \A r \in Slots : call'[r].kind = call[r].kind
      BY <1>1, <1>2
    <3> QED BY <1>1, <1>2, <3>1, SameKind, ClientKinds DEF LiveLoad
  <2>2. \A r \in Slots : call'[r].for = call[r].for /\ call'[r].kind = call[r].kind
    BY <1>1, <1>2
  <2>3. /\ \A r \in Slots : Creates(r)' => isCreating'
        /\ \A r \in Slots : Draws(r)' => isGeneratingCredential' /\ credential' = NoSecret
        /\ \A q, r \in Slots : Draws(q)' /\ Draws(r)' => q = r
        /\ \A r \in Slots : LiveLoad(r)' => ~isCreating' /\ busyClientIds' = {}
    BY <1>1, <2>1 DEF FlagsFit
  <2>4. /\ \A r \in Slots : Operates(r)' => call'[r].for \in busyClientIds'
        /\ \A q, r \in Slots : Operates(q)' /\ Operates(r)' /\ call'[q].for = call'[r].for => q = r
        /\ \A r \in Slots : call'[r].kind \in {"create", "load"} => call'[r].for = NoClient
    <3>1. ASSUME NEW r \in Slots, Operates(r)' PROVE call'[r].for \in busyClientIds'
      <4>1. Operates(r) /\ call'[r].for = call[r].for
        BY <2>1, <2>2, <3>1
      <4> QED BY <1>1, <4>1 DEF FlagsFit
    <3>2. \A q, r \in Slots : Operates(q)' /\ Operates(r)' /\ call'[q].for = call'[r].for => q = r
      BY <2>1, <2>2 DEF FlagsFit
    <3>3. \A r \in Slots : call'[r].kind \in {"create", "load"} => call'[r].for = NoClient
      BY <2>2 DEF FlagsFit
    <3> QED BY <3>1, <3>2, <3>3
  <2> QED BY <2>3, <2>4 DEF FlagsFit
<1>13. SecretsDrawn'
  BY <1>1, <1>2, ClientCallKinds, ClientKinds, SecretsFitClients DEF ClientTypes, FlagsFit, SecretsDrawn, Operates, Creates, Draws, LiveLoad
<1>14. ListFits'
  <2>1. \A d \in Clients : told'[d] <= version'[d]
    BY <1>1, <1>2, ClientCallKinds, ClientKinds, SecretsFitClients, ClientNats DEF ListFits
  <2>2. \A d \in Clients : told'[d] > 0 =>
          /\ \E x \in items' : x.id = d
          /\ \A x \in items' : x.id = d => x.version >= told'[d]
    BY <1>1, <1>2, ClientCallKinds, ClientKinds, SecretsFitClients, ClientNats DEF ListFits, FlagsFit, Operates, Creates, Draws, LiveLoad
  <2>3. \A r \in Slots : Operates(r)' => \E x \in items' : x.id = call'[r].for
    BY <1>1, <1>2, ClientCallKinds, ClientKinds, SecretsFitClients DEF ListFits, FlagsFit, Operates, Creates, Draws, LiveLoad
  <2>4. ASSUME NEW r \in Slots, NEW x \in ClientRows, call'[r] # ClientView!NoCall, x \in call'[r].answer
        PROVE  /\ Operates(r)' => x.id = call'[r].for
               /\ x.version <= version'[x.id]
               /\ LiveLoad(r)' => x.version >= told'[x.id]
    BY <1>1, <1>2, ClientCallKinds, ClientKinds, SecretsFitClients, <2>4, ClientNats DEF ListFits, FlagsFit, Operates, Creates, Draws, LiveLoad
  <2>5. ASSUME NEW r \in Slots, NEW d \in Clients, LiveLoad(r)', call'[r].served, told'[d] > 0
        PROVE  \E x \in call'[r].answer : x.id = d
    BY <1>1, <1>2, ClientCallKinds, ClientKinds, SecretsFitClients, <2>5, ClientNats DEF ListFits, FlagsFit, Operates, Creates, Draws, LiveLoad
  <2> QED BY <2>1, <2>2, <2>3, <2>4, <2>5 DEF ListFits
<1>15. ClientView!SecretsAreShown'
  BY <1>1, <1>2, ClientCallKinds, ClientKinds, SecretsFitClients DEF ClientView!SecretsAreShown, SecretsDrawn, FlagsFit, Operates, Creates, Draws, LiveLoad
<1> QED BY <1>11, <1>12, <1>13, <1>14, <1>15

LEMMA StartLoadClientHolds == ASSUME ClientInv, NEW s \in Slots, ClientView!StartLoad(s) PROVE ClientInv'
<1> USE DEF ClientInv
<1>1. /\ UNCHANGED <<version, drawn, items, credential, isCreating, isGeneratingCredential, busyClientIds, told, received, closed>>
      /\ ~isCreating /\ busyClientIds = {}
  BY DEF ClientView!StartLoad
<1>2. /\ DOMAIN call' = Slots
      /\ call'[s] \in ClientCalls /\ call'[s].kind = "load" /\ call'[s].for = NoClient
      /\ call'[s].served = FALSE /\ call'[s].answer = {}
      /\ \A r \in Slots : r # s =>
           IF call[r].kind = "load"
           THEN /\ call'[r] \in ClientCalls /\ call'[r].kind = "load" /\ call'[r].live = FALSE
                /\ call'[r].answer = call[r].answer /\ call'[r].for = call[r].for
           ELSE call'[r] = call[r]
  BY ClientCallMade DEF ClientView!StartLoad
<1>11. ClientTypes'
  BY <1>1, <1>2, ClientCallKinds, ClientKinds, SecretsFitClients DEF ClientTypes
<1>12. FlagsFit'
  <2>1. \A r \in Slots : r # s =>
          /\ Operates(r)' <=> Operates(r)
          /\ Creates(r)' <=> Creates(r)
          /\ Draws(r)' <=> Draws(r)
          /\ ~LiveLoad(r)'
          /\ Operates(r) => call'[r] = call[r]
    BY <1>2, OthersStay
  <2>2. ~Operates(s)' /\ ~Creates(s)' /\ ~Draws(s)'
    BY <1>2, OfKind
  <2>3. /\ \A r \in Slots : Creates(r)' => isCreating'
        /\ \A r \in Slots : Draws(r)' => isGeneratingCredential' /\ credential' = NoSecret
        /\ \A q, r \in Slots : Draws(q)' /\ Draws(r)' => q = r
    BY <1>1, <2>1, <2>2 DEF FlagsFit
  <2>4. \A r \in Slots : ~Operates(r)'
    BY <1>1, <2>1, <2>2 DEF FlagsFit
  <2>5. ASSUME NEW r \in Slots, call'[r].kind \in {"create", "load"} PROVE call'[r].for = NoClient
    <3>1. CASE r # s
      <4>1. call[r].kind \in {"create", "load"} /\ call'[r].for = call[r].for
        BY <1>2, <2>5, <3>1
      <4> QED BY <4>1 DEF FlagsFit
    <3> QED BY <1>2, <3>1
  <2> QED BY <1>1, <2>3, <2>4, <2>5 DEF FlagsFit
<1>13. SecretsDrawn'
  BY <1>1, <1>2, ClientCallKinds, ClientKinds, SecretsFitClients DEF ClientTypes, FlagsFit, SecretsDrawn, Operates, Creates, Draws, LiveLoad
<1>14. ListFits'
  <2>1. \A d \in Clients : told'[d] <= version'[d]
    BY <1>1, <1>2, ClientCallKinds, ClientKinds, SecretsFitClients, ClientNats DEF ListFits
  <2>2. \A d \in Clients : told'[d] > 0 =>
          /\ \E x \in items' : x.id = d
          /\ \A x \in items' : x.id = d => x.version >= told'[d]
    BY <1>1, <1>2, ClientCallKinds, ClientKinds, SecretsFitClients, ClientNats DEF ListFits, FlagsFit, Operates, Creates, Draws, LiveLoad
  <2>3. \A r \in Slots : Operates(r)' => \E x \in items' : x.id = call'[r].for
    BY <1>1, <1>2, ClientCallKinds, ClientKinds, SecretsFitClients DEF ListFits, FlagsFit, Operates, Creates, Draws, LiveLoad
  <2>4. ASSUME NEW r \in Slots, NEW x \in ClientRows, call'[r] # ClientView!NoCall, x \in call'[r].answer
        PROVE  /\ Operates(r)' => x.id = call'[r].for
               /\ x.version <= version'[x.id]
               /\ LiveLoad(r)' => x.version >= told'[x.id]
    BY <1>1, <1>2, ClientCallKinds, ClientKinds, SecretsFitClients, <2>4, ClientNats DEF ListFits, FlagsFit, Operates, Creates, Draws, LiveLoad
  <2>5. ASSUME NEW r \in Slots, NEW d \in Clients, LiveLoad(r)', call'[r].served, told'[d] > 0
        PROVE  \E x \in call'[r].answer : x.id = d
    BY <1>1, <1>2, ClientCallKinds, ClientKinds, SecretsFitClients, <2>5, ClientNats DEF ListFits, FlagsFit, Operates, Creates, Draws, LiveLoad
  <2> QED BY <2>1, <2>2, <2>3, <2>4, <2>5 DEF ListFits
<1>15. ClientView!SecretsAreShown'
  BY <1>1, <1>2, ClientCallKinds, ClientKinds, SecretsFitClients DEF ClientView!SecretsAreShown, SecretsDrawn, FlagsFit, Operates, Creates, Draws, LiveLoad
<1> QED BY <1>11, <1>12, <1>13, <1>14, <1>15

LEMMA CreateClientHolds == ASSUME ClientInv, NEW s \in Slots, ClientView!Create(s) PROVE ClientInv'
<1> USE DEF ClientInv
<1>1. /\ UNCHANGED <<version, drawn, items, credential, busyClientIds, told, received, closed>>
      /\ ~isCreating /\ isCreating' = TRUE /\ isGeneratingCredential' = TRUE
      /\ credential = NoSecret /\ ~isGeneratingCredential
  BY DEF ClientView!Create, ClientView!SecretFree
<1>2. /\ DOMAIN call' = Slots
      /\ call'[s] \in ClientCalls /\ call'[s].kind = "create" /\ call'[s].for = NoClient
      /\ call'[s].served = FALSE /\ call'[s].answer = {}
      /\ \A r \in Slots : r # s =>
           IF call[r].kind = "load"
           THEN /\ call'[r] \in ClientCalls /\ call'[r].kind = "load" /\ call'[r].live = FALSE
                /\ call'[r].answer = call[r].answer /\ call'[r].for = call[r].for
           ELSE call'[r] = call[r]
  BY ClientCallMade, ClientKinds DEF ClientView!Create, ClientView!InvalidatePendingLoad
<1>11. ClientTypes'
  BY <1>1, <1>2, ClientCallKinds, ClientKinds, SecretsFitClients DEF ClientTypes
<1>12. FlagsFit'
  <2>1. \A r \in Slots : r # s =>
          /\ Operates(r)' <=> Operates(r)
          /\ Creates(r)' <=> Creates(r)
          /\ Draws(r)' <=> Draws(r)
          /\ ~LiveLoad(r)'
          /\ Operates(r) => call'[r] = call[r]
    BY <1>2, OthersStay
  <2>2. ~Operates(s)' /\ ~LiveLoad(s)'
    BY <1>2, OfKind, ClientKinds
  <2>3. \A r \in Slots : r # s => ~Draws(r)'
    BY <1>1, <2>1 DEF FlagsFit
  <2>4. ASSUME NEW r \in Slots, Operates(r)'
        PROVE  r # s /\ Operates(r) /\ call'[r] = call[r] /\ call'[r].for \in busyClientIds
    <3>1. r # s /\ Operates(r) /\ call'[r] = call[r]
      BY <2>1, <2>2, <2>4
    <3> QED BY <3>1 DEF FlagsFit
  <2>5. ASSUME NEW r \in Slots, call'[r].kind \in {"create", "load"} PROVE call'[r].for = NoClient
    <3>1. CASE r # s
      <4>1. call[r].kind \in {"create", "load"} /\ call'[r].for = call[r].for
        BY <1>2, <2>5, <3>1
      <4> QED BY <4>1 DEF FlagsFit
    <3> QED BY <1>2, <3>1
  <2>6. \A q, r \in Slots : Operates(q)' /\ Operates(r)' /\ call'[q].for = call'[r].for => q = r
    BY <2>4 DEF FlagsFit
  <2> QED BY <1>1, <2>1, <2>2, <2>3, <2>4, <2>5, <2>6 DEF FlagsFit
<1>13. SecretsDrawn'
  BY <1>1, <1>2, ClientCallKinds, ClientKinds, SecretsFitClients DEF ClientTypes, FlagsFit, SecretsDrawn, Operates, Creates, Draws, LiveLoad
<1>14. ListFits'
  <2>1. \A d \in Clients : told'[d] <= version'[d]
    BY <1>1, <1>2, ClientCallKinds, ClientKinds, SecretsFitClients, ClientNats DEF ListFits
  <2>2. \A d \in Clients : told'[d] > 0 =>
          /\ \E x \in items' : x.id = d
          /\ \A x \in items' : x.id = d => x.version >= told'[d]
    BY <1>1, <1>2, ClientCallKinds, ClientKinds, SecretsFitClients, ClientNats DEF ListFits, FlagsFit, Operates, Creates, Draws, LiveLoad
  <2>3. \A r \in Slots : Operates(r)' => \E x \in items' : x.id = call'[r].for
    BY <1>1, <1>2, ClientCallKinds, ClientKinds, SecretsFitClients DEF ListFits, FlagsFit, Operates, Creates, Draws, LiveLoad
  <2>4. ASSUME NEW r \in Slots, NEW x \in ClientRows, call'[r] # ClientView!NoCall, x \in call'[r].answer
        PROVE  /\ Operates(r)' => x.id = call'[r].for
               /\ x.version <= version'[x.id]
               /\ LiveLoad(r)' => x.version >= told'[x.id]
    BY <1>1, <1>2, ClientCallKinds, ClientKinds, SecretsFitClients, <2>4, ClientNats DEF ListFits, FlagsFit, Operates, Creates, Draws, LiveLoad
  <2>5. ASSUME NEW r \in Slots, NEW d \in Clients, LiveLoad(r)', call'[r].served, told'[d] > 0
        PROVE  \E x \in call'[r].answer : x.id = d
    BY <1>1, <1>2, ClientCallKinds, ClientKinds, SecretsFitClients, <2>5, ClientNats DEF ListFits, FlagsFit, Operates, Creates, Draws, LiveLoad
  <2> QED BY <2>1, <2>2, <2>3, <2>4, <2>5 DEF ListFits
<1>15. ClientView!SecretsAreShown'
  BY <1>1, <1>2, ClientCallKinds, ClientKinds, SecretsFitClients DEF ClientView!SecretsAreShown, SecretsDrawn, FlagsFit, Operates, Creates, Draws, LiveLoad
<1> QED BY <1>11, <1>12, <1>13, <1>14, <1>15

LEMMA OperateClientHolds == ASSUME ClientInv, NEW s \in Slots, NEW kind \in ClientView!Operations, NEW c \in Clients, ClientView!Operate(s, kind, c) PROVE ClientInv'
<1> USE DEF ClientInv
<1>1. /\ UNCHANGED <<version, drawn, items, credential, isCreating, told, received, closed>>
      /\ c \notin busyClientIds /\ busyClientIds' = busyClientIds \cup {c}
      /\ \E x \in items : x.id = c
      /\ isGeneratingCredential' = (isGeneratingCredential \/ kind \in ClientView!WithSecret)
      /\ kind \in ClientView!WithSecret => credential = NoSecret /\ ~isGeneratingCredential
  BY ClientKinds DEF ClientView!Operate, ClientView!SecretFree, ClientView!Shown
<1>2. /\ DOMAIN call' = Slots
      /\ call'[s] \in ClientCalls /\ call'[s].kind = kind /\ call'[s].for = c
      /\ call'[s].served = FALSE /\ call'[s].answer = {}
      /\ \A r \in Slots : r # s =>
           IF call[r].kind = "load"
           THEN /\ call'[r] \in ClientCalls /\ call'[r].kind = "load" /\ call'[r].live = FALSE
                /\ call'[r].answer = call[r].answer /\ call'[r].for = call[r].for
           ELSE call'[r] = call[r]
  BY ClientCallMade, ClientKinds DEF ClientView!Operate, ClientView!InvalidatePendingLoad
<1>11. ClientTypes'
  BY <1>1, <1>2, ClientCallKinds, ClientKinds, SecretsFitClients DEF ClientTypes
<1>12. FlagsFit'
  <2>1. \A r \in Slots : r # s =>
          /\ Operates(r)' <=> Operates(r)
          /\ Creates(r)' <=> Creates(r)
          /\ Draws(r)' <=> Draws(r)
          /\ ~LiveLoad(r)'
          /\ Operates(r) => call'[r] = call[r]
    BY <1>2, OthersStay
  <2>2. /\ Operates(s)' /\ ~Creates(s)' /\ ~LiveLoad(s)'
        /\ Draws(s)' <=> kind \in ClientView!WithSecret
    BY <1>2, ClientKinds, OfKind
  <2>3. \A r \in Slots : Creates(r)' => isCreating'
    BY <1>1, <2>1, <2>2 DEF FlagsFit
  <2>4. \A r \in Slots : Draws(r)' => isGeneratingCredential' /\ credential' = NoSecret
    <3>1. \A r \in Slots : Draws(r) => isGeneratingCredential /\ credential = NoSecret
      BY DEF FlagsFit
    <3> QED BY <1>1, <2>1, <2>2, <3>1
  <2>5. \A r \in Slots : Operates(r)' => call'[r].for \in busyClientIds'
    <3>1. ASSUME NEW r \in Slots, r # s, Operates(r)' PROVE call'[r].for \in busyClientIds
      <4>1. Operates(r) /\ call'[r] = call[r]
        BY <2>1, <3>1
      <4> QED BY <4>1 DEF FlagsFit
    <3> QED BY <1>1, <1>2, <3>1
  <2>6. \A r \in Slots : ~LiveLoad(r)'
    BY <2>1, <2>2
  <2>7. \A q, r \in Slots : Draws(q)' /\ Draws(r)' => q = r
    <3>1. kind \in ClientView!WithSecret => \A r \in Slots : ~Draws(r)
      BY <1>1 DEF FlagsFit
    <3>2. \A q, r \in Slots : Draws(q) /\ Draws(r) => q = r
      BY DEF FlagsFit
    <3> QED BY <2>1, <2>2, <3>1, <3>2
  <2>8. ASSUME NEW q \in Slots, NEW r \in Slots, Operates(q)', Operates(r)', call'[q].for = call'[r].for
        PROVE  q = r
    <3>1. ASSUME NEW p \in Slots, p # s, Operates(p)'
          PROVE  Operates(p) /\ call'[p] = call[p] /\ call[p].for # c
      <4>1. Operates(p) /\ call'[p] = call[p]
        BY <2>1, <3>1
      <4> QED BY <1>1, <4>1 DEF FlagsFit
    <3>2. q # s /\ r # s => q = r
      <4>1. \A p, t \in Slots : Operates(p) /\ Operates(t) /\ call[p].for = call[t].for => p = t
        BY DEF FlagsFit
      <4> QED BY <2>8, <3>1, <4>1
    <3> QED BY <1>2, <2>8, <3>1, <3>2
  <2>9. ASSUME NEW r \in Slots, call'[r].kind \in {"create", "load"} PROVE call'[r].for = NoClient
    <3>1. r # s
      BY <1>2, <2>9, ClientKinds
    <3>2. call[r].kind \in {"create", "load"} /\ (call'[r].for = call[r].for)
      BY <1>2, <2>9, <3>1
    <3> QED BY <3>2 DEF FlagsFit
  <2> QED BY <2>3, <2>4, <2>5, <2>6, <2>7, <2>8, <2>9 DEF FlagsFit
<1>13. SecretsDrawn'
  BY <1>1, <1>2, ClientCallKinds, ClientKinds, SecretsFitClients DEF ClientTypes, FlagsFit, SecretsDrawn, Operates, Creates, Draws, LiveLoad
<1>14. ListFits'
  <2>1. \A d \in Clients : told'[d] <= version'[d]
    BY <1>1, <1>2, ClientCallKinds, ClientKinds, SecretsFitClients, ClientNats DEF ListFits
  <2>2. \A d \in Clients : told'[d] > 0 =>
          /\ \E x \in items' : x.id = d
          /\ \A x \in items' : x.id = d => x.version >= told'[d]
    BY <1>1, <1>2, ClientCallKinds, ClientKinds, SecretsFitClients, ClientNats DEF ListFits, FlagsFit, Operates, Creates, Draws, LiveLoad
  <2>3. \A r \in Slots : Operates(r)' => \E x \in items' : x.id = call'[r].for
    BY <1>1, <1>2, ClientCallKinds, ClientKinds, SecretsFitClients DEF ListFits, FlagsFit, Operates, Creates, Draws, LiveLoad
  <2>4. ASSUME NEW r \in Slots, NEW x \in ClientRows, call'[r] # ClientView!NoCall, x \in call'[r].answer
        PROVE  /\ Operates(r)' => x.id = call'[r].for
               /\ x.version <= version'[x.id]
               /\ LiveLoad(r)' => x.version >= told'[x.id]
    BY <1>1, <1>2, ClientCallKinds, ClientKinds, SecretsFitClients, <2>4, ClientNats DEF ListFits, FlagsFit, Operates, Creates, Draws, LiveLoad
  <2>5. ASSUME NEW r \in Slots, NEW d \in Clients, LiveLoad(r)', call'[r].served, told'[d] > 0
        PROVE  \E x \in call'[r].answer : x.id = d
    BY <1>1, <1>2, ClientCallKinds, ClientKinds, SecretsFitClients, <2>5, ClientNats DEF ListFits, FlagsFit, Operates, Creates, Draws, LiveLoad
  <2> QED BY <2>1, <2>2, <2>3, <2>4, <2>5 DEF ListFits
<1>15. ClientView!SecretsAreShown'
  BY <1>1, <1>2, ClientCallKinds, ClientKinds, SecretsFitClients DEF ClientView!SecretsAreShown, SecretsDrawn, FlagsFit, Operates, Creates, Draws, LiveLoad
<1> QED BY <1>11, <1>12, <1>13, <1>14, <1>15

LEMMA ClearCredentialClientHolds == ASSUME ClientInv, ClientView!ClearCredential PROVE ClientInv'
<1> USE DEF ClientInv
<1>1. /\ UNCHANGED <<version, drawn, items, isCreating, isGeneratingCredential, busyClientIds,
                   call, told, received>>
      /\ credential # NoSecret /\ credential' = NoSecret /\ closed' = closed \cup {credential}
  BY DEF ClientView!ClearCredential
<1>11. ClientTypes'
  BY <1>1, ClientCallKinds, ClientKinds, SecretsFitClients DEF ClientTypes
<1>12. FlagsFit'
  BY <1>1, ClientCallKinds, ClientKinds, SecretsFitClients DEF FlagsFit, Operates, Creates, Draws, LiveLoad
<1>13. SecretsDrawn'
  BY <1>1, ClientCallKinds, ClientKinds, SecretsFitClients DEF ClientTypes, FlagsFit, SecretsDrawn, Operates, Creates, Draws, LiveLoad
<1>14. ListFits'
  <2>1. \A d \in Clients : told'[d] <= version'[d]
    BY <1>1, ClientCallKinds, ClientKinds, SecretsFitClients, ClientNats DEF ListFits
  <2>2. \A d \in Clients : told'[d] > 0 =>
          /\ \E x \in items' : x.id = d
          /\ \A x \in items' : x.id = d => x.version >= told'[d]
    BY <1>1, ClientCallKinds, ClientKinds, SecretsFitClients, ClientNats DEF ListFits, FlagsFit, Operates, Creates, Draws, LiveLoad
  <2>3. \A r \in Slots : Operates(r)' => \E x \in items' : x.id = call'[r].for
    BY <1>1, ClientCallKinds, ClientKinds, SecretsFitClients DEF ListFits, FlagsFit, Operates, Creates, Draws, LiveLoad
  <2>4. ASSUME NEW r \in Slots, NEW x \in ClientRows, call'[r] # ClientView!NoCall, x \in call'[r].answer
        PROVE  /\ Operates(r)' => x.id = call'[r].for
               /\ x.version <= version'[x.id]
               /\ LiveLoad(r)' => x.version >= told'[x.id]
    BY <1>1, ClientCallKinds, ClientKinds, SecretsFitClients, <2>4, ClientNats DEF ListFits, FlagsFit, Operates, Creates, Draws, LiveLoad
  <2>5. ASSUME NEW r \in Slots, NEW d \in Clients, LiveLoad(r)', call'[r].served, told'[d] > 0
        PROVE  \E x \in call'[r].answer : x.id = d
    BY <1>1, ClientCallKinds, ClientKinds, SecretsFitClients, <2>5, ClientNats DEF ListFits, FlagsFit, Operates, Creates, Draws, LiveLoad
  <2> QED BY <2>1, <2>2, <2>3, <2>4, <2>5 DEF ListFits
<1>15. ClientView!SecretsAreShown'
  BY <1>1, ClientCallKinds, ClientKinds, SecretsFitClients DEF ClientView!SecretsAreShown, SecretsDrawn, FlagsFit, Operates, Creates, Draws, LiveLoad
<1> QED BY <1>11, <1>12, <1>13, <1>14, <1>15

LEMMA ReceiveLoadClientHolds == ASSUME ClientInv, NEW s \in Slots, ClientView!ReceiveLoad(s) PROVE ClientInv'
<1> USE DEF ClientInv
<1>1. /\ UNCHANGED <<credential, told, received>>
      /\ call[s] \in ClientCalls /\ call[s].kind = "load" /\ call[s].served
      /\ items' = IF call[s].live THEN call[s].answer ELSE items
  BY ClientCallKinds DEF ClientView!ReceiveLoad, ClientTypes
<1>2. /\ UNCHANGED <<version, drawn, closed>>
      /\ isCreating' \in BOOLEAN /\ isGeneratingCredential' \in BOOLEAN
      /\ isCreating' <=> (isCreating /\ call[s].kind # "create")
      /\ isGeneratingCredential' <=> (isGeneratingCredential /\ call[s].kind \notin ClientView!WithSecret)
      /\ busyClientIds' = busyClientIds \ {call[s].for}
      /\ DOMAIN call' = Slots /\ call'[s] = ClientView!NoCall
      /\ \A r \in Slots : r # s => call'[r] = call[r]
  BY DEF ClientView!ReceiveLoad, ClientView!Ends, ClientTypes
<1>11. ClientTypes'
  BY <1>1, <1>2, ClientCallKinds, ClientKinds, SecretsFitClients DEF ClientTypes
<1>12. FlagsFit'
  <2>1. \A r \in Slots : r # s =>
          /\ Operates(r)' <=> Operates(r)
          /\ Creates(r)' <=> Creates(r) 
          /\ Draws(r)' <=> Draws(r)
          /\ LiveLoad(r)' <=> LiveLoad(r)
          /\ call'[r] = call[r]
    BY <1>2, SameCall
  <2>2. ~Operates(s)' /\ ~Creates(s)' /\ ~Draws(s)' /\ ~LiveLoad(s)'
    BY <1>2, ClientCallKinds, OfKind
  <2>3. \A r \in Slots : Creates(r)' => isCreating'
    <3>1. \A r \in Slots : Creates(r) /\ r # s => isCreating /\ ~Creates(s)
      BY ClientKinds DEF FlagsFit, Creates, Draws
    <3> QED BY <1>2, <2>1, <2>2, <3>1 DEF Creates
  <2>4. \A r \in Slots : Draws(r)' => isGeneratingCredential' /\ credential' = NoSecret
    <3>1. \A r \in Slots : Draws(r) /\ r # s => isGeneratingCredential /\ ~Draws(s) /\ credential = NoSecret
      BY DEF FlagsFit
    <3> QED BY <1>1, <1>2, <2>1, <2>2, <3>1 DEF Draws
  <2>5. \A r \in Slots : Operates(r)' => call'[r].for \in busyClientIds'
    <3>1. ASSUME NEW r \in Slots, r # s, Operates(r)
          PROVE  call[r].for \in busyClientIds /\ call[r].for # call[s].for
      <4>1. call[r].for \in Clients /\ call[r].for \in busyClientIds
        BY <3>1 DEF FlagsFit, ClientTypes
      <4>2. CASE Operates(s)
        BY <3>1, <4>1, <4>2 DEF FlagsFit
      <4>3. CASE ~Operates(s)
        <5>1. call[s].kind \in {"create", "load"}
          BY <1>1, <4>3, ClientCallKinds, ClientKinds DEF Operates
        <5> QED BY <4>1, <5>1, SecretsFitClients DEF FlagsFit
      <4> QED BY <4>1, <4>2, <4>3
    <3>2. ASSUME NEW r \in Slots, Operates(r)' PROVE call'[r].for \in busyClientIds'
      <4>1. r # s /\ Operates(r) /\ call'[r] = call[r]
        BY <2>1, <2>2, <3>2
      <4> QED BY <1>2, <3>1, <4>1
    <3> QED BY <3>2
  <2>8. \A r \in Slots : call'[r].kind \in {"create", "load"} => call'[r].for = NoClient
    BY <1>2, ClientCallKinds DEF FlagsFit
  <2>6. \A r \in Slots : LiveLoad(r)' => ~isCreating' /\ busyClientIds' = {}
    <3>1. ASSUME NEW r \in Slots, LiveLoad(r)' PROVE ~isCreating /\ busyClientIds = {}
      BY <2>1, <2>2, <3>1 DEF FlagsFit
    <3> QED BY <1>2, <3>1
  <2>7. /\ \A q, r \in Slots : Draws(q)' /\ Draws(r)' => q = r
        /\ \A q, r \in Slots : Operates(q)' /\ Operates(r)' /\ call'[q].for = call'[r].for => q = r
    <3>1. \A q, r \in Slots : Draws(q)' /\ Draws(r)' => q = r
      BY <2>1, <2>2 DEF FlagsFit
    <3>2. ASSUME NEW q \in Slots, NEW r \in Slots, Operates(q)', Operates(r)', call'[q].for = call'[r].for
          PROVE  q = r
      <4>1. q # s /\ r # s /\ Operates(q) /\ Operates(r) /\ call'[q] = call[q] /\ call'[r] = call[r]
        BY <2>1, <2>2, <3>2
      <4> QED BY <3>2, <4>1 DEF FlagsFit
    <3> QED BY <3>1, <3>2
  <2> QED BY <2>3, <2>4, <2>5, <2>6, <2>7, <2>8 DEF FlagsFit
<1>13. SecretsDrawn'
  BY <1>1, <1>2, ClientCallKinds, ClientKinds, SecretsFitClients DEF ClientTypes, FlagsFit, SecretsDrawn, Operates, Creates, Draws, LiveLoad
<1>14. ListFits'
  <2>1. \A d \in Clients : told'[d] <= version'[d]
    BY <1>1, <1>2, ClientCallKinds, ClientKinds, SecretsFitClients, ClientNats DEF ListFits
  <2>2. \A d \in Clients : told'[d] > 0 =>
          /\ \E x \in items' : x.id = d
          /\ \A x \in items' : x.id = d => x.version >= told'[d]
    BY <1>1, <1>2, ClientCallKinds, ClientKinds, SecretsFitClients, ClientNats DEF ListFits, FlagsFit, Operates, Creates, Draws, LiveLoad
  <2>3. \A r \in Slots : Operates(r)' => \E x \in items' : x.id = call'[r].for
    BY <1>1, <1>2, ClientCallKinds, ClientKinds, SecretsFitClients DEF ListFits, FlagsFit, Operates, Creates, Draws, LiveLoad
  <2>4. ASSUME NEW r \in Slots, NEW x \in ClientRows, call'[r] # ClientView!NoCall, x \in call'[r].answer
        PROVE  /\ Operates(r)' => x.id = call'[r].for
               /\ x.version <= version'[x.id]
               /\ LiveLoad(r)' => x.version >= told'[x.id]
    BY <1>1, <1>2, ClientCallKinds, ClientKinds, SecretsFitClients, <2>4, ClientNats DEF ListFits, FlagsFit, Operates, Creates, Draws, LiveLoad
  <2>5. ASSUME NEW r \in Slots, NEW d \in Clients, LiveLoad(r)', call'[r].served, told'[d] > 0
        PROVE  \E x \in call'[r].answer : x.id = d
    BY <1>1, <1>2, ClientCallKinds, ClientKinds, SecretsFitClients, <2>5, ClientNats DEF ListFits, FlagsFit, Operates, Creates, Draws, LiveLoad
  <2> QED BY <2>1, <2>2, <2>3, <2>4, <2>5 DEF ListFits
<1>15. ClientView!SecretsAreShown'
  BY <1>1, <1>2, ClientCallKinds, ClientKinds, SecretsFitClients DEF ClientView!SecretsAreShown, SecretsDrawn, FlagsFit, Operates, Creates, Draws, LiveLoad
<1> QED BY <1>11, <1>12, <1>13, <1>14, <1>15

LEMMA ReceiveChangeClientHolds == ASSUME ClientInv, NEW s \in Slots, ClientView!ReceiveChange(s) PROVE ClientInv'
<1> USE DEF ClientInv
<1>1. PICK x \in ClientRows :
        /\ call[s] \in ClientCalls /\ call[s].kind \in Changes /\ call[s].served
        /\ x \in call[s].answer
        /\ items' = (items \ ClientView!Shown(x.id)) \cup {x}
        /\ told' = [told EXCEPT ![x.id] = x.version]
        /\ IF call[s].kind \in ClientView!WithSecret
           THEN credential' = call[s].secret /\ received' = received \cup {call[s].secret}
           ELSE UNCHANGED <<credential, received>>
  <2>1. call[s] \in ClientCalls /\ call[s].kind \in Changes
    BY ClientCallKinds, ClientKinds DEF ClientView!ReceiveChange, ClientTypes, Changes
  <2>2. call[s].answer \subseteq ClientRows
    BY <2>1, ClientCallKinds
  <2>3. \A x \in call[s].answer : Operates(s) => ClientView!Shown(x.id) # {}
    BY <2>1, <2>2, ClientCallKinds DEF ListFits, ClientView!Shown
  <2>4. Operates(s) \/ call[s].kind = "create"
    BY <2>1 DEF Operates, Changes
  <2> QED BY <2>1, <2>2, <2>3, <2>4 DEF ClientView!ReceiveChange
<1>2. /\ UNCHANGED <<version, drawn, closed>>
      /\ isCreating' \in BOOLEAN /\ isGeneratingCredential' \in BOOLEAN
      /\ isCreating' <=> (isCreating /\ call[s].kind # "create")
      /\ isGeneratingCredential' <=> (isGeneratingCredential /\ call[s].kind \notin ClientView!WithSecret)
      /\ busyClientIds' = busyClientIds \ {call[s].for}
      /\ DOMAIN call' = Slots /\ call'[s] = ClientView!NoCall
      /\ \A r \in Slots : r # s => call'[r] = call[r]
  BY DEF ClientView!ReceiveChange, ClientView!Ends, ClientTypes
<1>11. ClientTypes'
  <2>1. items' \subseteq ClientRows
    BY <1>1 DEF ClientTypes
  <2>2. told' \in [Clients -> Nat]
    <3>1. x.id \in Clients /\ x.version \in Nat
      BY DEF ClientRows
    <3> QED BY <1>1, <3>1 DEF ClientTypes
  <2>3. credential' \in Nat \cup {NoSecret}
    BY <1>1 DEF ClientTypes, ClientCalls
  <2>4. \A r \in Slots : call'[r] = ClientView!NoCall \/ call'[r] \in ClientCalls
    BY <1>2 DEF ClientTypes
  <2>5. version' \in [Clients -> Nat] /\ drawn' \in Nat /\ busyClientIds' \subseteq Clients
        /\ isCreating' \in BOOLEAN /\ isGeneratingCredential' \in BOOLEAN /\ DOMAIN call' = Slots
    BY <1>2 DEF ClientTypes
  <2> QED BY <2>1, <2>2, <2>3, <2>4, <2>5 DEF ClientTypes
<1>12. FlagsFit'
  <2>1. \A r \in Slots : r # s =>
          /\ Operates(r)' <=> Operates(r)
          /\ Creates(r)' <=> Creates(r) 
          /\ Draws(r)' <=> Draws(r)
          /\ LiveLoad(r)' <=> LiveLoad(r)
          /\ call'[r] = call[r]
    BY <1>2, SameCall
  <2>2. ~Operates(s)' /\ ~Creates(s)' /\ ~Draws(s)' /\ ~LiveLoad(s)'
    BY <1>2, ClientCallKinds, OfKind
  <2>3. \A r \in Slots : Creates(r)' => isCreating'
    <3>1. \A r \in Slots : Creates(r) /\ r # s => isCreating /\ ~Creates(s)
      BY ClientKinds DEF FlagsFit, Creates, Draws
    <3> QED BY <1>2, <2>1, <2>2, <3>1 DEF Creates
  <2>4. \A r \in Slots : Draws(r)' => isGeneratingCredential' /\ credential' = NoSecret
    <3>1. \A r \in Slots : Draws(r) /\ r # s => isGeneratingCredential /\ ~Draws(s) /\ credential = NoSecret
      BY DEF FlagsFit
    <3> QED BY <1>1, <1>2, <2>1, <2>2, <3>1 DEF Draws
  <2>5. \A r \in Slots : Operates(r)' => call'[r].for \in busyClientIds'
    <3>1. ASSUME NEW r \in Slots, r # s, Operates(r)
          PROVE  call[r].for \in busyClientIds /\ call[r].for # call[s].for
      <4>1. call[r].for \in Clients /\ call[r].for \in busyClientIds
        BY <3>1 DEF FlagsFit, ClientTypes
      <4>2. CASE Operates(s)
        BY <3>1, <4>1, <4>2 DEF FlagsFit
      <4>3. CASE ~Operates(s)
        <5>1. call[s].kind \in {"create", "load"}
          BY <1>1, <4>3, ClientCallKinds, ClientKinds DEF Operates
        <5> QED BY <4>1, <5>1, SecretsFitClients DEF FlagsFit
      <4> QED BY <4>1, <4>2, <4>3
    <3>2. ASSUME NEW r \in Slots, Operates(r)' PROVE call'[r].for \in busyClientIds'
      <4>1. r # s /\ Operates(r) /\ call'[r] = call[r]
        BY <2>1, <2>2, <3>2
      <4> QED BY <1>2, <3>1, <4>1
    <3> QED BY <3>2
  <2>8. \A r \in Slots : call'[r].kind \in {"create", "load"} => call'[r].for = NoClient
    BY <1>2, ClientCallKinds DEF FlagsFit
  <2>6. \A r \in Slots : LiveLoad(r)' => ~isCreating' /\ busyClientIds' = {}
    <3>1. ASSUME NEW r \in Slots, LiveLoad(r)' PROVE ~isCreating /\ busyClientIds = {}
      BY <2>1, <2>2, <3>1 DEF FlagsFit
    <3> QED BY <1>2, <3>1
  <2>7. /\ \A q, r \in Slots : Draws(q)' /\ Draws(r)' => q = r
        /\ \A q, r \in Slots : Operates(q)' /\ Operates(r)' /\ call'[q].for = call'[r].for => q = r
    <3>1. \A q, r \in Slots : Draws(q)' /\ Draws(r)' => q = r
      BY <2>1, <2>2 DEF FlagsFit
    <3>2. ASSUME NEW q \in Slots, NEW r \in Slots, Operates(q)', Operates(r)', call'[q].for = call'[r].for
          PROVE  q = r
      <4>1. q # s /\ r # s /\ Operates(q) /\ Operates(r) /\ call'[q] = call[q] /\ call'[r] = call[r]
        BY <2>1, <2>2, <3>2
      <4> QED BY <3>2, <4>1 DEF FlagsFit
    <3> QED BY <3>1, <3>2
  <2> QED BY <2>3, <2>4, <2>5, <2>6, <2>7, <2>8 DEF FlagsFit
<1>13. SecretsDrawn'
  BY <1>1, <1>2, ClientCallKinds, ClientKinds, SecretsFitClients DEF ClientTypes, FlagsFit, SecretsDrawn, Operates, Creates, Draws, LiveLoad
<1>14. ListFits'
  <2> USE DEF ListFits
  <2>0. /\ x.id \in Clients /\ x.version \in Nat
        /\ told'[x.id] = x.version /\ \A c \in Clients : c # x.id => told'[c] = told[c]
        /\ x \in items' /\ \A y \in items' : y = x \/ (y \in items /\ y.id # x.id)
        /\ \A y \in items : y.id # x.id => y \in items'
        /\ items \subseteq ClientRows
    BY <1>1 DEF ClientRows, ClientTypes, ClientView!Shown
  <2>8. \A r \in Slots : r # s =>
          /\ Operates(r)' <=> Operates(r)
          /\ LiveLoad(r)' <=> LiveLoad(r)
          /\ call'[r] = call[r]
    BY <1>2, SameCall
  <2>9. ~Operates(s)' /\ ~LiveLoad(s)'
    BY <1>2, ClientCallKinds, OfKind
  <2>10. \A r \in Slots : ~LiveLoad(r)
    BY <1>1, ClientKinds, ClientCallKinds, SecretsFitClients DEF FlagsFit, Operates, Creates
  <2>1. \A d \in Clients : told'[d] <= version'[d]
    <3>1. x.version <= version[x.id]
      BY <1>1, ClientCallKinds
    <3> QED BY <1>2, <2>0, <3>1
  <2>2. \A d \in Clients : told'[d] > 0 =>
          /\ \E y \in items' : y.id = d
          /\ \A y \in items' : y.id = d => y.version >= told'[d]
    <3>1. ASSUME NEW c \in Clients, c # x.id, told'[c] > 0
          PROVE  /\ \E y \in items' : y.id = c
                 /\ \A y \in items' : y.id = c => y.version >= told'[c]
      <4>1. told[c] > 0 /\ told'[c] = told[c]
        BY <2>0, <3>1
      <4>2. PICK y \in items : y.id = c
        BY <4>1
      <4>3. y \in items' /\ y.id = c
        BY <2>0, <3>1, <4>2
      <4>4. \A z \in items' : z.id = c => z \in items
        BY <2>0, <3>1
      <4> QED BY <4>1, <4>3, <4>4
    <3>2. \A y \in items' : y.id = x.id => y = x
      BY <2>0
    <3>3. x.version >= told'[x.id]
      BY <2>0
    <3> QED BY <2>0, <3>1, <3>2, <3>3
  <2>3. \A r \in Slots : Operates(r)' => \E y \in items' : y.id = call'[r].for
    <3>1. ASSUME NEW r \in Slots, r # s, Operates(r)
          PROVE  \E y \in items' : y.id = call[r].for
      <4>1. PICK y \in items : y.id = call[r].for
        BY <3>1
      <4>2. CASE y.id = x.id
        BY <2>0, <4>1, <4>2
      <4>3. CASE y.id # x.id
        BY <2>0, <4>1, <4>3
      <4> QED BY <4>2, <4>3
    <3> QED BY <2>8, <2>9, <3>1
  <2>4. ASSUME NEW r \in Slots, NEW y \in ClientRows, call'[r] # ClientView!NoCall, y \in call'[r].answer
        PROVE  /\ Operates(r)' => y.id = call'[r].for
               /\ y.version <= version'[y.id]
               /\ LiveLoad(r)' => y.version >= told'[y.id]
    <3>1. r # s
      BY <1>2, <2>4
    <3>2. call'[r] = call[r] /\ ~LiveLoad(r)' /\ (Operates(r)' <=> Operates(r))
      BY <2>8, <2>10, <3>1
    <3>3. (Operates(r) => y.id = call[r].for) /\ y.version <= version[y.id]
      BY <2>4, <3>2
    <3> QED BY <1>2, <3>2, <3>3
  <2>5. ASSUME NEW r \in Slots, NEW d \in Clients, LiveLoad(r)', call'[r].served, told'[d] > 0
        PROVE  \E y \in call'[r].answer : y.id = d
    <3>1. ~LiveLoad(r)'
      BY <2>8, <2>9, <2>10
    <3> QED BY <2>5, <3>1
  <2> QED BY <2>1, <2>2, <2>3, <2>4, <2>5
<1>15. ClientView!SecretsAreShown'
  BY <1>1, <1>2, ClientCallKinds, ClientKinds, SecretsFitClients DEF ClientView!SecretsAreShown, SecretsDrawn, FlagsFit, Operates, Creates, Draws, LiveLoad
<1> QED BY <1>11, <1>12, <1>13, <1>14, <1>15

LEMMA FailClientHolds == ASSUME ClientInv, NEW s \in Slots, ClientView!Fail(s) PROVE ClientInv'
<1> USE DEF ClientInv
<1>1. /\ UNCHANGED <<items, credential, told, received>>
      /\ call[s] \in ClientCalls
  BY DEF ClientView!Fail, ClientTypes
<1>2. /\ UNCHANGED <<version, drawn, closed>>
      /\ isCreating' \in BOOLEAN /\ isGeneratingCredential' \in BOOLEAN
      /\ isCreating' <=> (isCreating /\ call[s].kind # "create")
      /\ isGeneratingCredential' <=> (isGeneratingCredential /\ call[s].kind \notin ClientView!WithSecret)
      /\ busyClientIds' = busyClientIds \ {call[s].for}
      /\ DOMAIN call' = Slots /\ call'[s] = ClientView!NoCall
      /\ \A r \in Slots : r # s => call'[r] = call[r]
  BY DEF ClientView!Fail, ClientView!Ends, ClientTypes
<1>11. ClientTypes'
  BY <1>1, <1>2, ClientCallKinds, ClientKinds, SecretsFitClients DEF ClientTypes
<1>12. FlagsFit'
  <2>1. \A r \in Slots : r # s =>
          /\ Operates(r)' <=> Operates(r)
          /\ Creates(r)' <=> Creates(r) 
          /\ Draws(r)' <=> Draws(r)
          /\ LiveLoad(r)' <=> LiveLoad(r)
          /\ call'[r] = call[r]
    BY <1>2, SameCall
  <2>2. ~Operates(s)' /\ ~Creates(s)' /\ ~Draws(s)' /\ ~LiveLoad(s)'
    BY <1>2, ClientCallKinds, OfKind
  <2>3. \A r \in Slots : Creates(r)' => isCreating'
    <3>1. \A r \in Slots : Creates(r) /\ r # s => isCreating /\ ~Creates(s)
      BY ClientKinds DEF FlagsFit, Creates, Draws
    <3> QED BY <1>2, <2>1, <2>2, <3>1 DEF Creates
  <2>4. \A r \in Slots : Draws(r)' => isGeneratingCredential' /\ credential' = NoSecret
    <3>1. \A r \in Slots : Draws(r) /\ r # s => isGeneratingCredential /\ ~Draws(s) /\ credential = NoSecret
      BY DEF FlagsFit
    <3> QED BY <1>1, <1>2, <2>1, <2>2, <3>1 DEF Draws
  <2>5. \A r \in Slots : Operates(r)' => call'[r].for \in busyClientIds'
    <3>1. ASSUME NEW r \in Slots, r # s, Operates(r)
          PROVE  call[r].for \in busyClientIds /\ call[r].for # call[s].for
      <4>1. call[r].for \in Clients /\ call[r].for \in busyClientIds
        BY <3>1 DEF FlagsFit, ClientTypes
      <4>2. CASE Operates(s)
        BY <3>1, <4>1, <4>2 DEF FlagsFit
      <4>3. CASE ~Operates(s)
        <5>1. call[s].kind \in {"create", "load"}
          BY <1>1, <4>3, ClientCallKinds, ClientKinds DEF Operates
        <5> QED BY <4>1, <5>1, SecretsFitClients DEF FlagsFit
      <4> QED BY <4>1, <4>2, <4>3
    <3>2. ASSUME NEW r \in Slots, Operates(r)' PROVE call'[r].for \in busyClientIds'
      <4>1. r # s /\ Operates(r) /\ call'[r] = call[r]
        BY <2>1, <2>2, <3>2
      <4> QED BY <1>2, <3>1, <4>1
    <3> QED BY <3>2
  <2>8. \A r \in Slots : call'[r].kind \in {"create", "load"} => call'[r].for = NoClient
    BY <1>2, ClientCallKinds DEF FlagsFit
  <2>6. \A r \in Slots : LiveLoad(r)' => ~isCreating' /\ busyClientIds' = {}
    <3>1. ASSUME NEW r \in Slots, LiveLoad(r)' PROVE ~isCreating /\ busyClientIds = {}
      BY <2>1, <2>2, <3>1 DEF FlagsFit
    <3> QED BY <1>2, <3>1
  <2>7. /\ \A q, r \in Slots : Draws(q)' /\ Draws(r)' => q = r
        /\ \A q, r \in Slots : Operates(q)' /\ Operates(r)' /\ call'[q].for = call'[r].for => q = r
    <3>1. \A q, r \in Slots : Draws(q)' /\ Draws(r)' => q = r
      BY <2>1, <2>2 DEF FlagsFit
    <3>2. ASSUME NEW q \in Slots, NEW r \in Slots, Operates(q)', Operates(r)', call'[q].for = call'[r].for
          PROVE  q = r
      <4>1. q # s /\ r # s /\ Operates(q) /\ Operates(r) /\ call'[q] = call[q] /\ call'[r] = call[r]
        BY <2>1, <2>2, <3>2
      <4> QED BY <3>2, <4>1 DEF FlagsFit
    <3> QED BY <3>1, <3>2
  <2> QED BY <2>3, <2>4, <2>5, <2>6, <2>7, <2>8 DEF FlagsFit
<1>13. SecretsDrawn'
  BY <1>1, <1>2, ClientCallKinds, ClientKinds, SecretsFitClients DEF ClientTypes, FlagsFit, SecretsDrawn, Operates, Creates, Draws, LiveLoad
<1>14. ListFits'
  <2>1. \A d \in Clients : told'[d] <= version'[d]
    BY <1>1, <1>2, ClientCallKinds, ClientKinds, SecretsFitClients, ClientNats DEF ListFits
  <2>2. \A d \in Clients : told'[d] > 0 =>
          /\ \E x \in items' : x.id = d
          /\ \A x \in items' : x.id = d => x.version >= told'[d]
    BY <1>1, <1>2, ClientCallKinds, ClientKinds, SecretsFitClients, ClientNats DEF ListFits, FlagsFit, Operates, Creates, Draws, LiveLoad
  <2>3. \A r \in Slots : Operates(r)' => \E x \in items' : x.id = call'[r].for
    BY <1>1, <1>2, ClientCallKinds, ClientKinds, SecretsFitClients DEF ListFits, FlagsFit, Operates, Creates, Draws, LiveLoad
  <2>4. ASSUME NEW r \in Slots, NEW x \in ClientRows, call'[r] # ClientView!NoCall, x \in call'[r].answer
        PROVE  /\ Operates(r)' => x.id = call'[r].for
               /\ x.version <= version'[x.id]
               /\ LiveLoad(r)' => x.version >= told'[x.id]
    BY <1>1, <1>2, ClientCallKinds, ClientKinds, SecretsFitClients, <2>4, ClientNats DEF ListFits, FlagsFit, Operates, Creates, Draws, LiveLoad
  <2>5. ASSUME NEW r \in Slots, NEW d \in Clients, LiveLoad(r)', call'[r].served, told'[d] > 0
        PROVE  \E x \in call'[r].answer : x.id = d
    BY <1>1, <1>2, ClientCallKinds, ClientKinds, SecretsFitClients, <2>5, ClientNats DEF ListFits, FlagsFit, Operates, Creates, Draws, LiveLoad
  <2> QED BY <2>1, <2>2, <2>3, <2>4, <2>5 DEF ListFits
<1>15. ClientView!SecretsAreShown'
  BY <1>1, <1>2, ClientCallKinds, ClientKinds, SecretsFitClients DEF ClientView!SecretsAreShown, SecretsDrawn, FlagsFit, Operates, Creates, Draws, LiveLoad
<1> QED BY <1>11, <1>12, <1>13, <1>14, <1>15

LEMMA ClientInitHolds == ASSUME ClientView!Init PROVE ClientInv
<1> USE DEF ClientView!Init
<1>1. /\ \A s \in Slots : call[s] = ClientView!NoCall
      /\ \A s \in Slots : ~Operates(s) /\ ~Creates(s) /\ ~Draws(s) /\ ~LiveLoad(s)
  BY ClientKinds, ClientCallKinds DEF Operates, Creates, Draws, LiveLoad
<1>2. ClientTypes
  <2>1. version \in [Clients -> Nat]
    OBVIOUS
  <2>2. told \in [Clients -> Nat] /\ DOMAIN call = Slots
    OBVIOUS
  <2> QED BY <1>1, <2>1, <2>2 DEF ClientTypes
<1>3. FlagsFit
  BY <1>1, ClientCallKinds DEF FlagsFit
<1>4. SecretsDrawn
  BY <1>1 DEF SecretsDrawn
<1>5. ListFits
  BY <1>1 DEF ListFits
<1>6. ClientView!SecretsAreShown
  BY DEF ClientView!SecretsAreShown
<1> QED BY <1>2, <1>3, <1>4, <1>5, <1>6 DEF ClientInv

LEMMA ClientNextHolds == ASSUME ClientInv, [ClientView!Next]_(ClientView!vars) PROVE ClientInv'
<1>1. CASE ClientView!Next
  BY <1>1, ElsewhereClientHolds, ClearCredentialClientHolds, ServeLoadClientHolds,
     ServeChangeClientHolds, StartLoadClientHolds, CreateClientHolds, OperateClientHolds,
     ReceiveLoadClientHolds, ReceiveChangeClientHolds, FailClientHolds DEF ClientView!Next
<1>2. CASE UNCHANGED ClientView!vars
  <2> USE <1>2 DEF ClientView!vars, ClientView!console, ClientInv
  <2>1. ClientTypes'
    BY DEF ClientTypes
  <2>2. FlagsFit'
    BY DEF FlagsFit, Operates, Creates, Draws, LiveLoad
  <2>3. SecretsDrawn'
    BY DEF SecretsDrawn, Draws
  <2>4. ListFits'
    BY DEF ListFits, Operates, LiveLoad
  <2>5. ClientView!SecretsAreShown'
    BY DEF ClientView!SecretsAreShown
  <2> QED BY <2>1, <2>2, <2>3, <2>4, <2>5
<1> QED BY <1>1, <1>2

LEMMA AnswersStayHolds == ASSUME ClientInv PROVE ClientView!AnswersStay
<1>1. ASSUME NEW c \in Clients, told[c] > 0
      PROVE  ClientView!Shown(c) # {} /\ \A item \in ClientView!Shown(c) : item.version >= told[c]
  BY <1>1 DEF ClientInv, ListFits, ClientView!Shown
<1> QED BY <1>1 DEF ClientView!AnswersStay

-----------------------------------------------------------------------------
(***************************************************************************)
(* The console.                                                             *)
(***************************************************************************)

\* The view that is open keeps its invariant.
IInv ==
  /\ activeView = "pending" => QueueInv
  /\ activeView = "history" => HistoryInv
  /\ activeView = "deliveries" => DeliveryInv
  /\ activeView = "clients" => ClientInv

LEMMA Invariance == Spec => []IInv
<1>1. Init => IInv
  <2> SUFFICES ASSUME Init PROVE IInv
    OBVIOUS
  <2>1. \/ activeView = "pending" /\ Queue!Init
        \/ activeView = "history" /\ History!Init
        \/ activeView = "deliveries" /\ DeliveryView!Init
        \/ activeView = "clients" /\ ClientView!Init
    BY DEF Init
  <2> QED BY <2>1, QueueInitHolds, HistoryInitHolds, DeliveryInitHolds, ClientInitHolds DEF IInv
<1>2. IInv /\ [Next]_vars => IInv'
  <2> SUFFICES ASSUME IInv, [Next]_vars PROVE IInv'
    OBVIOUS
  <2>1. UNCHANGED activeView
    BY DEF Next, vars
  <2>2. ASSUME activeView = "pending" PROVE QueueInv'
    <3>1. [Queue!Next]_(Queue!vars)
      BY <2>2 DEF Next, vars, ofCases, ofQueue, Queue!vars, Queue!console, Queue!flags
    <3> QED BY <2>2, <3>1, QueueNextHolds DEF IInv
  <2>3. ASSUME activeView = "history" PROVE HistoryInv'
    <3>1. [History!Next]_(History!vars)
      BY <2>3 DEF Next, vars, ofCases, ofHistory, History!vars, History!server
    <3> QED BY <2>3, <3>1, HistoryNextHolds DEF IInv
  <2>4. ASSUME activeView = "deliveries" PROVE DeliveryInv'
    <3>1. [DeliveryView!Next]_(DeliveryView!vars)
      BY <2>4 DEF Next, vars, ofDeliveries, DeliveryView!vars, DeliveryView!console
    <3> QED BY <2>4, <3>1, DeliveryNextHolds DEF IInv
  <2>5. ASSUME activeView = "clients" PROVE ClientInv'
    <3>1. [ClientView!Next]_(ClientView!vars)
      BY <2>5 DEF Next, vars, ofClients, ClientView!vars, ClientView!console
    <3> QED BY <2>5, <3>1, ClientNextHolds DEF IInv
  <2> QED BY <2>1, <2>2, <2>3, <2>4, <2>5 DEF IInv
<1> QED BY <1>1, <1>2, PTL DEF Spec

\* A case this console knows is ruled on never has its form back, and no spinner of
\* the queue stays up, whichever answer comes last (useReviews.ts).
THEOREM FormsStayClosed == Spec => []FormFollowsRulings
<1>1. IInv => FormFollowsRulings
  BY DEF IInv, QueueInv, FormFollowsRulings
<1> QED BY <1>1, Invariance, PTL

\* The pages of the history make one list, newest first and without a case twice,
\* whatever is finalized between them (ListReviewCases, useReviewHistory.ts).
THEOREM PagesAreOrdered == Spec => []NewestFirst
<1>1. IInv => NewestFirst
  BY HistoryFollows DEF IInv, NewestFirst
<1> QED BY <1>1, Invariance, PTL

\* Down to where the next page begins nothing is missing that was in the history
\* when its first page was read (ListReviewCases, useReviewHistory.ts).
THEOREM PagesAreComplete == Spec => []NothingSkipped
<1>1. IInv => NothingSkipped
  BY HistoryFollows DEF IInv, NothingSkipped
<1> QED BY <1>1, Invariance, PTL

\* Filter, list, detail, flags and cursors of the history belong together, in
\* whatever order its requests are answered or fail (useReviewHistory.ts).
THEOREM HistoryBelongsTogether == Spec => []ViewBelongsTogether
<1>1. IInv => ViewBelongsTogether
  BY HistoryFollows DEF IInv, ViewBelongsTogether
<1> QED BY <1>1, Invariance, PTL

\* A row of the deliveries is never put back to before what a retry answered
\* (useWebhookDeliveries.ts).
THEOREM RowsNeverGoBack == Spec => []NothingOlder
<1>1. IInv => NothingOlder
  BY NothingOlderHolds DEF IInv, NothingOlder
<1> QED BY <1>1, Invariance, PTL

\* A client's secret that came in an answer is on the screen until it is closed:
\* no other answer takes it away (useClients.ts).
THEOREM SecretsStay == Spec => []SecretsAreShown
<1>1. IInv => SecretsAreShown
  BY DEF IInv, ClientInv, SecretsAreShown
<1> QED BY <1>1, Invariance, PTL

\* What an operation on a client answered is not undone by a list that was asked
\* for before (useClients.ts).
THEOREM ListsUndoNothing == Spec => []AnswersStay
<1>1. IInv => AnswersStay
  BY AnswersStayHolds DEF IInv, AnswersStay
<1> QED BY <1>1, Invariance, PTL
=============================================================================
