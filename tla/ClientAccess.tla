---------------------------- MODULE ClientAccess ----------------------------
(***************************************************************************)
(* One client application: administrators change its row (clients.Service  *)
(* on the GORM repository) while calls authenticate by its API key, look up *)
(* its policy, are analyzed, and have their decisions posted to its         *)
(* webhook.  Other clients have rows of their own.                          *)
(*                                                                          *)
(* A rotation and a webhook change read their row back inside a             *)
(* transaction that holds its lock; a change of name, status or policy is   *)
(* an UPDATE and, after it, a SELECT.  A key stands for its hash, too.      *)
(* Nothing depends on the name itself, which is left out, and so are calls  *)
(* that repeat an external_id and are answered from what is stored.         *)
(***************************************************************************)
EXTENDS Naturals, FiniteSets

CONSTANTS
  Admins,    \* administrators' requests being served
  Calls,     \* moderation checks, each with the callback it may lead to
  Keys,      \* bound of the model: API keys there are to draw
  Secrets,   \* bound of the model: webhook secrets there are to draw
  Urls,      \* webhook URLs
  Policies,  \* policy versions
  Nothing    \* no URL, no secret, no key, no administrator

ASSUME ClientAssumption ==
  /\ Nothing \notin Admins \cup Keys \cup Secrets \cup Urls \cup Policies
  /\ Policies # {}

VARIABLES
  client,  \* the row of client_applications
  lock,    \* the administrator whose transaction holds the row
  stage,   \* where an administrator's request is
  op,      \* what it asks for
  fresh,   \* the key and the secret it has drawn
  reply,   \* the row it answers with
  drawn,   \* the keys and secrets drawn and in use, now or before
  told,    \* the keys answers have told
  phase,   \* where a call is
  key,     \* the key it came with, until it is authenticated
  policy,  \* the policy its text is judged by
  target,  \* the webhook its callback goes to
  barred,  \* history: its key was dead when it came, or its client was switched off
           \* before its policy lookup, and no activation has let it in since
  signed   \* history: where callbacks went, and under which secret

adminVars == <<lock, stage, op, fresh, reply, drawn, told>>
callVars  == <<phase, key, policy, target, signed>>
vars == <<client, adminVars, callVars, barred>>

Statuses == {"active", "inactive"}

\* A new name is a change of policy to the version the row has: the statements
\* and the answer are the same, and nothing else changes.
Ops ==
  [kind : {"create", "webhook"}, to : Urls \cup {Nothing}] \cup
  [kind : {"rotate"}, to : {Nothing}] \cup
  [kind : {"status"}, to : Statuses] \cup
  [kind : {"policy"}, to : Policies]
NoOp == [kind |-> "none", to |-> Nothing]

Rows ==
  [status : Statuses \cup {"none"}, key : Keys \cup {Nothing}, policy : Policies,
   url : Urls \cup {Nothing}, secret : Secrets \cup {Nothing}]
Default == CHOOSE p \in Policies : TRUE
NoRow ==
  [status |-> "none", key |-> Nothing, policy |-> Default, url |-> Nothing, secret |-> Nothing]

NoDraw   == [key |-> Nothing, secret |-> Nothing]
Webhooks == [url : Urls \cup {Nothing}, secret : Secrets \cup {Nothing}]
NoTarget == [url |-> Nothing, secret |-> Nothing]

TypeOK ==
  /\ client \in Rows
  /\ lock \in Admins \cup {Nothing}
  /\ stage \in [Admins -> {"idle", "asked", "locked", "updated", "written"}]
  /\ op \in [Admins -> Ops \cup {NoOp}]
  /\ fresh \in [Admins -> [key : Keys \cup {Nothing}, secret : Secrets \cup {Nothing}]]
  /\ reply \in [Admins -> Rows]
  /\ drawn \subseteq Keys \cup Secrets
  /\ told \subseteq Keys
  /\ phase \in [Calls -> {"idle", "arrived", "admitted", "analyzing", "saved", "posting",
                          "posted", "refused", "over"}]
  /\ key \in [Calls -> Keys \cup {Nothing}]
  /\ policy \in [Calls -> Policies]
  /\ target \in [Calls -> Webhooks]
  /\ barred \in [Calls -> BOOLEAN]
  /\ signed \subseteq Webhooks

Init ==
  /\ client = NoRow
  /\ lock = Nothing
  /\ stage = [a \in Admins |-> "idle"]
  /\ op = [a \in Admins |-> NoOp]
  /\ fresh = [a \in Admins |-> NoDraw]
  /\ reply = [a \in Admins |-> NoRow]
  /\ drawn = {} /\ told = {}
  /\ phase = [c \in Calls |-> "idle"]
  /\ key = [c \in Calls |-> Nothing]
  /\ policy = [c \in Calls |-> Default]
  /\ target = [c \in Calls |-> NoTarget]
  /\ barred = [c \in Calls |-> FALSE]
  /\ signed = {}

-----------------------------------------------------------------------------
(***************************************************************************)
(* Administrators.                                                          *)
(***************************************************************************)

\* What a request draws: keys and secrets are random, none comes twice.
Draws(o) ==
  {d \in [key : Keys \cup {Nothing}, secret : Secrets \cup {Nothing}] :
     /\ (d.key # Nothing) = (o.kind \in {"create", "rotate"})
     /\ (d.secret # Nothing) = (o.kind \in {"create", "webhook"} /\ o.to # Nothing)
     /\ {d.key, d.secret} \cap drawn = {}}

\* A request arrives, is validated, and draws what it needs.
Ask(a, o) ==
  /\ stage[a] = "idle"
  /\ (client.status = "none") = (o.kind = "create")
  /\ \A b \in Admins : op[b].kind # "create"
  /\ \E d \in Draws(o) :
       /\ fresh' = [fresh EXCEPT ![a] = d]
       /\ drawn' = drawn \cup ({d.key, d.secret} \ {Nothing})
  /\ stage' = [stage EXCEPT ![a] = "asked"]
  /\ op' = [op EXCEPT ![a] = o]
  /\ UNCHANGED <<client, lock, reply, told, callVars, barred>>

\* Mutant of Changed: the secret outlives the URL it was made for.
ChangedUrlOnly(a) ==
  LET o == op[a] IN
  CASE o.kind = "create" ->
         [NoRow EXCEPT !.status = "active", !.key = fresh[a].key,
                       !.url = o.to, !.secret = fresh[a].secret]
    [] o.kind = "rotate"  -> [client EXCEPT !.key = fresh[a].key]
    [] o.kind = "webhook" -> [client EXCEPT !.url = o.to]
    [] o.kind = "status"  -> [client EXCEPT !.status = o.to]
    [] o.kind = "policy"  -> [client EXCEPT !.policy = o.to]

\* The row as the change of a leaves it.
Changed(a) ==
  LET o == op[a] IN
  CASE o.kind = "create" ->
         [NoRow EXCEPT !.status = "active", !.key = fresh[a].key,
                       !.url = o.to, !.secret = fresh[a].secret]
    [] o.kind = "rotate"  -> [client EXCEPT !.key = fresh[a].key]
    [] o.kind = "webhook" -> [client EXCEPT !.url = o.to, !.secret = fresh[a].secret]
    [] o.kind = "status"  -> [client EXCEPT !.status = o.to]
    [] o.kind = "policy"  -> [client EXCEPT !.policy = o.to]

\* What a change of status means to the calls on their way.
Barred(a) ==
  CASE op[a] = [kind |-> "status", to |-> "inactive"] ->
         [c \in Calls |-> barred[c] \/ phase[c] \in {"arrived", "admitted"}]
    [] op[a] = [kind |-> "status", to |-> "active"] ->
         [c \in Calls |-> barred[c] /\ phase[c] = "arrived" /\ key[c] # client.key]
    [] OTHER -> barred

\* Mutant of InTransaction: each statement commits by itself.
NeverInTransaction(a) == op[a].kind = "none"

\* RotateClientAPIKey and UpdateClientWebhook run in a transaction.
InTransaction(a) == op[a].kind \in {"rotate", "webhook"}

\* Its SELECT ... FOR UPDATE returns.
LockRow(a) ==
  /\ stage[a] = "asked" /\ InTransaction(a) /\ lock = Nothing
  /\ lock' = a
  /\ stage' = [stage EXCEPT ![a] = "locked"]
  /\ UNCHANGED <<client, op, fresh, reply, drawn, told, callVars, barred>>

\* The row is updated and read back, and both are committed together.
Commit(a) ==
  /\ stage[a] = "locked"
  /\ client' = Changed(a)
  /\ reply' = [reply EXCEPT ![a] = Changed(a)]
  /\ lock' = Nothing
  /\ stage' = [stage EXCEPT ![a] = "written"]
  /\ UNCHANGED <<op, fresh, drawn, told, callVars, barred>>

\* A statement of its own: it waits for the row, changes it, commits.
Update(a) ==
  /\ stage[a] = "asked" /\ ~InTransaction(a) /\ lock = Nothing
  /\ client' = Changed(a)
  /\ stage' = [stage EXCEPT ![a] = "updated"]
  /\ barred' = Barred(a)
  /\ UNCHANGED <<lock, op, fresh, reply, drawn, told, callVars>>

\* After it the row is selected for the answer, as it is by then.  Create answers
\* with what it inserted.
ReadBack(a) ==
  /\ stage[a] = "updated"
  /\ reply' = [reply EXCEPT ![a] =
       IF op[a].kind = "create" THEN Changed(a) ELSE client]
  /\ stage' = [stage EXCEPT ![a] = "written"]
  /\ UNCHANGED <<client, lock, op, fresh, drawn, told, callVars, barred>>

Return(a) ==
  /\ stage' = [stage EXCEPT ![a] = "idle"]
  /\ op' = [op EXCEPT ![a] = NoOp]
  /\ fresh' = [fresh EXCEPT ![a] = NoDraw]
  /\ reply' = [reply EXCEPT ![a] = NoRow]

\* The answer tells the key this request drew, if it drew one, for the only time.
Answer(a) ==
  /\ stage[a] = "written"
  /\ told' = told \cup ({fresh[a].key} \ {Nothing})
  /\ Return(a)
  /\ UNCHANGED <<client, lock, drawn, callVars, barred>>

\* A statement fails or the process dies: an open transaction rolls back, and a
\* key that was stored may be lost.  What was drawn and not stored was seen by
\* nobody, and the model may use it again.
Fail(a) ==
  /\ stage[a] # "idle"
  /\ lock' = IF lock = a THEN Nothing ELSE lock
  /\ drawn' = IF stage[a] \in {"asked", "locked"}
               THEN drawn \ {fresh[a].key, fresh[a].secret} ELSE drawn
  /\ Return(a)
  /\ UNCHANGED <<client, told, callVars, barred>>

-----------------------------------------------------------------------------
(***************************************************************************)
(* Calls.                                                                   *)
(***************************************************************************)

\* A call comes with a key that some answer has told, at whatever time.
Arrive(c, k) ==
  /\ phase[c] = "idle"
  /\ phase' = [phase EXCEPT ![c] = "arrived"]
  /\ key' = [key EXCEPT ![c] = k]
  /\ barred' = [barred EXCEPT ![c] = k # client.key \/ client.status # "active"]
  /\ UNCHANGED <<client, adminVars, policy, target, signed>>

Advance(c, from, to) ==
  /\ phase[c] = from
  /\ phase' = [phase EXCEPT ![c] = to]
  /\ UNCHANGED <<client, adminVars, barred>>

Forget(c) == key' = [key EXCEPT ![c] = Nothing]

\* AuthenticateAPIKey finds an active client with this key.  From here on the
\* call is known by its client's id.
Authenticate(c) ==
  /\ client.key = key[c] /\ client.status = "active"
  /\ Advance(c, "arrived", "admitted")
  /\ Forget(c)
  /\ UNCHANGED <<policy, target, signed>>

\* Mutant of Found: the client is looked up by its id alone.
FoundAnyStatus == client.status \in Statuses

\* GetClient, the lookup of the moderation service: by id, if active.
Found == client.status = "active"

\* policyForCheck
ReadPolicy(c) ==
  /\ Found
  /\ Advance(c, "admitted", "analyzing")
  /\ policy' = [policy EXCEPT ![c] = client.policy]
  /\ UNCHANGED <<key, target, signed>>

\* Authentication fails, or the client is no longer found.
Refuse(c) ==
  /\ \/ client.key # key[c] /\ Advance(c, "arrived", "refused")
     \/ client.status # "active" /\ Advance(c, "arrived", "refused")
     \/ ~Found /\ Advance(c, "admitted", "refused")
  /\ Forget(c)
  /\ UNCHANGED <<policy, target, signed>>

\* The decision is saved; a review may still have to settle it.
Save(c) ==
  /\ Advance(c, "analyzing", "saved")
  /\ UNCHANGED <<key, policy, target, signed>>

\* What the lookup of a client gives for its callback.
Webhook(c) == [url |-> client.url, secret |-> client.secret]

\* The client is looked up for the first callback, or for a retry of it, which
\* goes where the client is reached by then.
ReadWebhook(c) ==
  /\ Found /\ client.url # Nothing
  /\ Advance(c, "saved", "posting") \/ Advance(c, "posted", "posting")
  /\ target' = [target EXCEPT ![c] = Webhook(c)]
  /\ UNCHANGED <<key, policy, signed>>

\* There is no active client or no webhook: no callback and no record of one.
SkipCallback(c) ==
  /\ ~Found \/ client.url = Nothing
  /\ Advance(c, "saved", "over")
  /\ UNCHANGED <<key, policy, target, signed>>

\* The callback is signed and posted.
Post(c) ==
  /\ Advance(c, "posting", "posted")
  /\ signed' = signed \cup {target[c]}
  /\ target' = [target EXCEPT ![c] = NoTarget]
  /\ UNCHANGED <<key, policy>>

-----------------------------------------------------------------------------
AdminStep(a) ==
  \/ \E o \in Ops : Ask(a, o)
  \/ LockRow(a) \/ Commit(a) \/ Update(a) \/ ReadBack(a) \/ Answer(a) \/ Fail(a)

CallStep(c) ==
  \/ \E k \in told : Arrive(c, k)
  \/ Authenticate(c) \/ ReadPolicy(c) \/ Refuse(c)
  \/ Save(c) \/ ReadWebhook(c) \/ SkipCallback(c) \/ Post(c)

Next ==
  \/ \E a \in Admins : AdminStep(a)
  \/ \E c \in Calls : CallStep(c)

Spec == Init /\ [][Next]_vars

-----------------------------------------------------------------------------
(***************************************************************************)
(* Properties.                                                              *)
(***************************************************************************)

\* Nobody gets in with a key that was rotated out before, nor at a client that was
\* switched off before its policy was read, unless it was switched on in between:
\* a rotation never switches it on, and never revives a key.
BarredStayOut ==
  \A c \in Calls : barred[c] => phase[c] \in {"arrived", "admitted", "refused"}

\* An administrator is told the key and the webhook of the own change, together
\* with the URL it belongs to, and not another administrator's secret.
ToldItsOwn ==
  /\ TypeOK
  /\ \A a \in Admins : stage[a] = "written" =>
       /\ op[a].kind \in {"create", "rotate"} => reply[a].key = fresh[a].key
       /\ op[a].kind \in {"create", "webhook"} =>
            reply[a].url = op[a].to /\ reply[a].secret = fresh[a].secret

\* A secret belongs to one URL: what one endpoint can verify is never sent to
\* another, although a callback is retried after its webhook has changed.
SecretsStayApart ==
  \A x, y \in signed : x.secret # Nothing /\ (x.secret = y.secret => x.url = y.url)

\* docs/API.md: the answer to an activation has status "active".
ActivationAnswersActive ==
  \A a \in Admins :
    stage[a] = "written" /\ op[a] = [kind |-> "status", to |-> "active"] =>
      reply[a].status = "active"
=============================================================================
