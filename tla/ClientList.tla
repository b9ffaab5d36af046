----------------------------- MODULE ClientList -----------------------------
(***************************************************************************)
(* The list of clients in an administrator's console                        *)
(* (web/src/composables/useClients.ts) before the endpoints of              *)
(* handlers/clients.go.  A key or a webhook secret is in one answer only    *)
(* and nowhere else: the console shows it until it is closed.               *)
(*                                                                          *)
(* Every write of a row gives it a new version.  Other administrators       *)
(* change rows too.  Requests are served and answered in any order, and     *)
(* fail before or after they were served.  Only the composable's own checks *)
(* are taken for granted, not the buttons that are disabled besides.        *)
(***************************************************************************)
EXTENDS Integers, FiniteSets

CONSTANTS
  Clients,
  Slots,      \* requests in flight at once
  NoClient,   \* a load, or a creation before it is served
  NoSecret,
  MaxVersion  \* bound of the model: writes of a row

ClientsAssumption == NoClient \notin Clients /\ MaxVersion \in Nat /\ NoSecret \notin Nat

VARIABLES
  version,       \* of each client's row, 0 before it is created
  drawn,         \* secrets drawn so far; a secret is its number
  items,         \* the rows shown
  credential,    \* the secret shown
  isLoading, isCreating, isGeneratingCredential,
  busyClientIds,
  call,          \* the request in each slot
  told,          \* version of the last operation answered, for each client
  received,      \* secrets that came in an answer
  closed         \* secrets the administrator has put away

console == <<items, credential, isLoading, isCreating, isGeneratingCredential, busyClientIds,
             told, received, closed>>
vars == <<version, drawn, console, call>>

NoCall == [kind |-> "none"]
NewCall(kind, c) ==
  [kind |-> kind, for |-> c, live |-> TRUE, served |-> FALSE, answer |-> {}, secret |-> NoSecret]

\* "set" stands for an activation, a deactivation, an assigned policy; "clear"
\* for a webhook taken away; "rotate" for a new key or a new webhook.
Operations == {"set", "clear", "rotate"}
WithSecret == {"create", "rotate"}

Shown(c) == {item \in items : item.id = c}

Init ==
  /\ version \in [Clients -> {0, 1}]
  /\ drawn = 0
  /\ items = {} /\ credential = NoSecret
  /\ isLoading = FALSE /\ isCreating = FALSE /\ isGeneratingCredential = FALSE
  /\ busyClientIds = {}
  /\ call = [s \in Slots |-> NoCall]
  /\ told = [c \in Clients |-> 0] /\ received = {} /\ closed = {}

-----------------------------------------------------------------------------
(***************************************************************************)
(* The server.                                                              *)
(***************************************************************************)
Elsewhere(c) ==
  /\ version[c] < MaxVersion
  /\ version' = [version EXCEPT ![c] = @ + 1]
  /\ UNCHANGED <<drawn, console, call>>

Served(s, answer, secret) ==
  call' = [call EXCEPT ![s].served = TRUE, ![s].answer = answer, ![s].secret = secret]

ServeLoad(s) ==
  /\ call[s].kind = "load" /\ ~call[s].served
  /\ Served(s, {[id |-> c, version |-> version[c]] : c \in {d \in Clients : version[d] > 0}}, NoSecret)
  /\ UNCHANGED <<version, drawn, console>>

\* A change of the row of an existing client, or the insert of a new one.
ServeChange(s) ==
  /\ call[s].kind \in Operations \cup {"create"} /\ ~call[s].served
  /\ \E c \in IF call[s].kind = "create" THEN {d \in Clients : version[d] = 0} ELSE {call[s].for} :
       /\ version[c] < MaxVersion
       /\ version' = [version EXCEPT ![c] = @ + 1]
       /\ drawn' = IF call[s].kind \in WithSecret THEN drawn + 1 ELSE drawn
       /\ Served(s, {[id |-> c, version |-> version[c] + 1]},
                 IF call[s].kind \in WithSecret THEN drawn + 1 ELSE NoSecret)
  /\ UNCHANGED console

-----------------------------------------------------------------------------
(***************************************************************************)
(* What the administrator does.                                             *)
(***************************************************************************)
Superseded == [s \in Slots |-> IF call[s].kind = "load"
                               THEN [call[s] EXCEPT !.live = FALSE] ELSE call[s]]

\* load: refused while anything is being changed.
StartLoad(s) ==
  /\ ~isCreating /\ busyClientIds = {} /\ call[s] = NoCall
  /\ isLoading' = TRUE
  /\ call' = [Superseded EXCEPT ![s] = NewCall("load", NoClient)]
  /\ UNCHANGED <<version, drawn, items, credential, isCreating, isGeneratingCredential,
                 busyClientIds, told, received, closed>>

\* Mutant of SecretFree: it looks only at what is shown.
SecretFreeShown == credential = NoSecret

\* No secret is shown, and none is on its way.
SecretFree == credential = NoSecret /\ ~isGeneratingCredential

\* Mutant of InvalidatePendingLoad: the load in flight still counts.
InvalidateNothing == call

\* invalidatePendingLoad.
InvalidatePendingLoad == Superseded

\* create.
Create(s) ==
  /\ ~isCreating /\ SecretFree /\ call[s] = NoCall
  /\ isLoading' = FALSE /\ isCreating' = TRUE /\ isGeneratingCredential' = TRUE
  /\ call' = [InvalidatePendingLoad EXCEPT ![s] = NewCall("create", NoClient)]
  /\ UNCHANGED <<version, drawn, items, credential, busyClientIds, told, received, closed>>

\* setActive and assignPolicy, configureWebhook, rotate; one at a time for a client
\* (runClientOperation).
Operate(s, kind, c) ==
  /\ kind \in {"clear", "rotate"} => SecretFree
  /\ c \notin busyClientIds /\ Shown(c) # {} /\ call[s] = NoCall
  /\ isLoading' = FALSE
  /\ busyClientIds' = busyClientIds \cup {c}
  /\ isGeneratingCredential' = (isGeneratingCredential \/ kind \in WithSecret)
  /\ call' = [InvalidatePendingLoad EXCEPT ![s] = NewCall(kind, c)]
  /\ UNCHANGED <<version, drawn, items, credential, isCreating, told, received, closed>>

\* clearCredential.
ClearCredential ==
  /\ credential # NoSecret
  /\ credential' = NoSecret
  /\ closed' = closed \cup {credential}
  /\ UNCHANGED <<version, drawn, items, isLoading, isCreating, isGeneratingCredential,
                 busyClientIds, call, told, received>>

-----------------------------------------------------------------------------
(***************************************************************************)
(* Answers.                                                                 *)
(***************************************************************************)

\* finally: what this request holds is given back.
Ends(s) ==
  /\ isLoading' = (isLoading /\ ~(call[s].kind = "load" /\ call[s].live))
  /\ isCreating' = (isCreating /\ call[s].kind # "create")
  /\ isGeneratingCredential' = (isGeneratingCredential /\ call[s].kind \notin WithSecret)
  /\ busyClientIds' = busyClientIds \ {call[s].for}
  /\ call' = [call EXCEPT ![s] = NoCall]
  /\ UNCHANGED <<version, drawn, closed>>

ReceiveLoad(s) ==
  /\ call[s].kind = "load" /\ call[s].served
  /\ items' = IF call[s].live THEN call[s].answer ELSE items
  /\ Ends(s)
  /\ UNCHANGED <<credential, told, received>>

\* A new client is put first; another row is replaced where it is shown
\* (replaceClient); a secret is shown.
ReceiveChange(s) ==
  /\ call[s].kind \in Operations \cup {"create"} /\ call[s].served
  /\ \E updated \in call[s].answer :
       /\ items' = IF call[s].kind = "create" \/ Shown(updated.id) # {}
                   THEN (items \ Shown(updated.id)) \cup {updated} ELSE items
       /\ told' = [told EXCEPT ![updated.id] = updated.version]
  /\ IF call[s].kind \in WithSecret
     THEN credential' = call[s].secret /\ received' = received \cup {call[s].secret}
     ELSE UNCHANGED <<credential, received>>
  /\ Ends(s)

Fail(s) ==
  /\ call[s] # NoCall
  /\ Ends(s)
  /\ UNCHANGED <<items, credential, told, received>>

Next ==
  \/ \E c \in Clients : Elsewhere(c)
  \/ ClearCredential
  \/ \E s \in Slots :
       \/ ServeLoad(s) \/ ServeChange(s)
       \/ StartLoad(s) \/ Create(s)
       \/ \E kind \in Operations, c \in Clients : Operate(s, kind, c)
       \/ ReceiveLoad(s) \/ ReceiveChange(s) \/ Fail(s)

Spec == Init /\ [][Next]_vars

-----------------------------------------------------------------------------
(***************************************************************************)
(* Properties.                                                              *)
(***************************************************************************)

\* A secret that reached the console is shown until it is closed: no creation,
\* rotation or webhook change, started before or after it, puts another one in its
\* place (a key is in no other answer, and the old one is dead).
SecretsAreShown == received \ closed = {credential} \ {NoSecret}

\* A list asked for before an operation never undoes what the operation answered,
\* and a client that was created does not vanish from it.
AnswersStay ==
  \A c \in Clients :
    told[c] > 0 => Shown(c) # {} /\ \A item \in Shown(c) : item.version >= told[c]
=============================================================================
