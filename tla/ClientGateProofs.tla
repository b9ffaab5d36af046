-------------------------- MODULE ClientGateProofs --------------------------
(***************************************************************************)
(* That dead keys and inactive clients stay out, that an administrator is   *)
(* answered with the own change and that no endpoint receives what another  *)
(* one's secret signs, for any number of administrators, calls, keys and    *)
(* secrets; and that what the limit tells a caller holds, for any limit,    *)
(* window, resolution of the clock and number of callers.                   *)
(***************************************************************************)
EXTENDS ClientGate, FiniteSetTheorems, TLAPS

\* The change has not been stored yet: what was drawn for it is known to its request alone.
Pending(a) == stage[a] \in {"asked", "locked"}

\* What the request of a has drawn.
Held(a) == {fresh[a].key, fresh[a].secret} \ {Nothing}

\* The webhook the request of a asks for, if it asks for one.
AsksWebhook(a) == op[a].kind \in {"create", "webhook"}
Requested(a) == [url |-> op[a].to, secret |-> fresh[a].secret]

\* The webhooks that somebody else can know: that of the row, those callbacks are on
\* their way to and those they went to.
Stored == [url |-> client.url, secret |-> client.secret]
Public(w) == w = Stored \/ w \in signed \/ \E c \in Calls : w = target[c]
Bound(w) == Public(w) \/ \E a \in Admins : AsksWebhook(a) /\ w = Requested(a)

\* What a request does fits what it asks for, and it has drawn what that needs.
RequestsFit ==
  \A a \in Admins :
    /\ (stage[a] = "idle") = (op[a].kind = "none")
    /\ stage[a] = "locked" => op[a].kind \in {"rotate", "webhook"}
    /\ stage[a] = "updated" => op[a].kind \in {"create", "status", "policy"}
    /\ (fresh[a].key # Nothing) = (op[a].kind \in {"create", "rotate"})
    /\ (fresh[a].secret # Nothing) = (AsksWebhook(a) /\ op[a].to # Nothing)

\* The client is created once, and before that nobody can ask for anything else of it.
CreationFits ==
  /\ client.status = "none" =>
       /\ told = {}
       /\ \A c \in Calls : phase[c] = "idle"
       /\ \A a \in Admins : op[a].kind \in {"none", "create"} /\ stage[a] \in {"idle", "asked"}
  /\ \A a \in Admins : op[a].kind = "create" /\ stage[a] = "asked" => client.status = "none"
  /\ \A a, b \in Admins : op[a].kind = "create" /\ op[b].kind = "create" => a = b

\* Everything in use was drawn; what a pending request has drawn is in no other place.
DrawsFit ==
  /\ told \subseteq drawn
  /\ client.key \in drawn \cup {Nothing}
  /\ \A w \in Webhooks : Public(w) => w.secret \in drawn \cup {Nothing}
  /\ \A a \in Admins : Held(a) \subseteq drawn
  /\ \A a, b \in Admins : a # b => Held(a) \cap Held(b) = {}
  /\ \A a \in Admins : Pending(a) =>
       /\ Held(a) \cap told = {} /\ client.key \notin Held(a)
       /\ \A w \in Webhooks : Public(w) => w.secret \notin Held(a)

\* A secret is bound to one URL from the moment it is drawn.
SecretsFit ==
  /\ \A w \in Webhooks : Bound(w) => (w.url = Nothing <=> w.secret = Nothing)
  /\ \A x, y \in Webhooks :
       Bound(x) /\ Bound(y) /\ x.secret = y.secret /\ x.secret # Nothing => x.url = y.url
  /\ \A w \in signed : w.secret # Nothing
  /\ \A c \in Calls : phase[c] = "posting" => target[c].secret # Nothing

\* A call that is barred has a dead key, or finds its client inactive.
CallsFit ==
  \A c \in Calls :
    /\ phase[c] = "arrived" => key[c] \in told
    /\ barred[c] =>
         \/ phase[c] = "arrived" /\ (key[c] # client.key \/ client.status # "active")
         \/ phase[c] = "admitted" /\ client.status # "active"
         \/ phase[c] = "refused"

IInv ==
  /\ TypeOK /\ RequestsFit /\ CreationFits /\ DrawsFit /\ SecretsFit /\ CallsFit
  /\ ToldItsOwn

-----------------------------------------------------------------------------
\* Before the client exists its row reads as a row, too.
LEMMA NoRowFits == NoRow \in Rows
<1>0. Policies # {}
  BY ClientAssumption
<1>1. \E p \in Policies : TRUE
  BY <1>0
<1>2. Default \in Policies
  BY <1>1 DEF Default
<1> QED BY <1>2 DEF Rows, NoRow, Statuses

\* The row as a change leaves it, field by field.
LEMMA ChangedRow ==
  ASSUME TypeOK, RequestsFit, NEW a \in Admins, op[a].kind # "none"
  PROVE  /\ Changed(a) \in Rows
         /\ Changed(a).status = IF op[a].kind = "create" THEN "active"
                               ELSE IF op[a].kind = "status" THEN op[a].to ELSE client.status
         /\ Changed(a).key = IF op[a].kind \in {"create", "rotate"}
                            THEN fresh[a].key ELSE client.key
         /\ Changed(a).url = IF AsksWebhook(a) THEN op[a].to ELSE client.url
         /\ Changed(a).secret = IF AsksWebhook(a) THEN fresh[a].secret ELSE client.secret
<1>1. client \in Rows /\ NoRow \in Rows
  BY NoRowFits DEF TypeOK
<1>2. fresh[a].key \in Keys \cup {Nothing} /\ fresh[a].secret \in Secrets \cup {Nothing}
  BY DEF TypeOK
<1>3. CASE op[a].kind = "create"
  <2>1. op[a].to \in Urls \cup {Nothing}
    BY <1>3 DEF TypeOK, Ops, NoOp
  <2> QED BY <1>1, <1>2, <1>3, <2>1 DEF Changed, Rows, NoRow, AsksWebhook, Statuses
<1>4. CASE op[a].kind = "rotate"
  BY <1>1, <1>2, <1>4 DEF Changed, Rows, AsksWebhook
<1>5. CASE op[a].kind = "webhook"
  <2>1. op[a].to \in Urls \cup {Nothing}
    BY <1>5 DEF TypeOK, Ops, NoOp
  <2> QED BY <1>1, <1>2, <1>5, <2>1 DEF Changed, Rows, AsksWebhook
<1>6. CASE op[a].kind = "status"
  <2>1. op[a].to \in Statuses
    BY <1>6 DEF TypeOK, Ops, NoOp
  <2> QED BY <1>1, <1>6, <2>1 DEF Changed, Rows, AsksWebhook
<1>7. CASE op[a].kind = "policy"
  <2>1. op[a].to \in Policies
    BY <1>7 DEF TypeOK, Ops, NoOp
  <2> QED BY <1>1, <1>7, <2>1 DEF Changed, Rows, AsksWebhook
<1> QED BY <1>3, <1>4, <1>5, <1>6, <1>7 DEF TypeOK, Ops, NoOp

LEMMA InitHolds == Init => IInv
<1> SUFFICES ASSUME Init PROVE IInv
  OBVIOUS
<1>1. Default \in Policies /\ NoRow \in Rows
  BY NoRowFits DEF Rows, NoRow
<1>2. TypeOK
  BY <1>1 DEF Init, TypeOK, NoOp, NoDraw, NoTarget, Webhooks
<1>3. ~\E w \in Webhooks : Public(w) /\ w.secret # Nothing
  BY DEF Init, Public, Stored, NoRow, NoTarget
<1>4. \A w \in Webhooks : Bound(w) => w.url = Nothing
  BY DEF Init, Bound, AsksWebhook, NoOp, Public, Stored, NoRow, NoTarget
<1>5. \A a \in Admins : op[a].kind = "none" /\ stage[a] = "idle" /\ Held(a) = {}
                       /\ fresh[a].key = Nothing /\ fresh[a].secret = Nothing
  BY DEF Init, NoOp, NoDraw, Held
<1>6. DrawsFit
  BY <1>3, <1>5 DEF Init, DrawsFit, Pending, NoRow
<1>7. SecretsFit
  <2>1. \A w \in Webhooks : Bound(w) => w.secret = Nothing
    BY <1>3, <1>5 DEF Bound, AsksWebhook
  <2> QED BY <1>4, <2>1 DEF Init, SecretsFit
<1>8. RequestsFit /\ CreationFits /\ CallsFit /\ ToldItsOwn
  BY <1>2, <1>5 DEF Init, RequestsFit, AsksWebhook, CreationFits, CallsFit, ToldItsOwn
<1> QED BY <1>2, <1>6, <1>7, <1>8 DEF IInv

-----------------------------------------------------------------------------
\* What an administrator's request does keeps the invariant.
LEMMA AskHolds ==
  ASSUME IInv, NEW a \in Admins, NEW o \in Ops, Ask(a, o)
  PROVE  IInv'
<1> USE DEF IInv, Ask, adminVars, callVars
<1>a. PICK d \in Draws(o) :
        /\ fresh' = [fresh EXCEPT ![a] = d]
        /\ drawn' = drawn \cup ({d.key, d.secret} \ {Nothing})
  OBVIOUS
<1>b. /\ d.key \in Keys \cup {Nothing} /\ d.secret \in Secrets \cup {Nothing}
      /\ d \in [key : Keys \cup {Nothing}, secret : Secrets \cup {Nothing}]
      /\ (d.key # Nothing) = (o.kind \in {"create", "rotate"})
      /\ (d.secret # Nothing) = (o.kind \in {"create", "webhook"} /\ o.to # Nothing)
      /\ d.key \notin drawn /\ d.secret \notin drawn
  BY DEF Draws
<1>c. /\ o.kind \in {"create", "webhook", "rotate", "status", "policy"}
      /\ o.kind \in {"create", "webhook"} => o.to \in Urls \cup {Nothing}
  BY DEF Ops
<1>d. /\ fresh'[a] = d /\ op'[a] = o /\ stage'[a] = "asked"
      /\ \A b \in Admins \ {a} : fresh'[b] = fresh[b] /\ op'[b] = op[b] /\ stage'[b] = stage[b]
  BY <1>a DEF TypeOK
<1>e. op[a].kind = "none" /\ fresh[a].key = Nothing /\ fresh[a].secret = Nothing
  BY DEF RequestsFit, AsksWebhook
<1>1. TypeOK'
  BY <1>a, <1>b DEF TypeOK
<1>2. RequestsFit'
  BY <1>b, <1>c, <1>d DEF TypeOK, RequestsFit, AsksWebhook
<1>3. CreationFits'
  BY DEF TypeOK, RequestsFit, CreationFits
<1>4. DrawsFit'
  <2>1. \A w : Public(w)' <=> Public(w)
    BY DEF Public, Stored
  <2>2. /\ Held(a)' = {d.key, d.secret} \ {Nothing}
        /\ \A b \in Admins \ {a} : Held(b)' = Held(b) /\ (Pending(b)' <=> Pending(b))
    BY <1>d DEF Held, Pending
  <2>3. /\ Held(a)' \cap drawn = {}
        /\ Nothing \notin Held(a)'
    BY <1>b, <2>2
  <2>4. Held(a) = {} /\ \A b \in Admins : Nothing \notin Held(b)
    BY <1>e DEF Held
  <2>5. /\ drawn \subseteq drawn' /\ Held(a)' \subseteq drawn'
        /\ \A b \in Admins \ {a} : Held(b)' \cap Held(a)' = {}
    BY <1>a, <2>2, <2>3 DEF DrawsFit
  <2>6. /\ Held(a)' \cap told = {} /\ client.key \notin Held(a)'
        /\ \A w \in Webhooks : Public(w) => w.secret \notin Held(a)'
    BY <2>3 DEF DrawsFit
  <2> QED BY <2>1, <2>2, <2>5, <2>6 DEF DrawsFit
<1>5. SecretsFit'
  <2> DEFINE new == [url |-> o.to, secret |-> d.secret]
  <2>1. \A w : Public(w)' <=> Public(w)
    BY DEF Public, Stored
  <2>2. \A w \in Webhooks : Bound(w)' => Bound(w) \/ (o.kind \in {"create", "webhook"} /\ w = new)
    BY <1>d, <2>1 DEF Bound, AsksWebhook, Requested
  <2>3. \A w \in Webhooks : Bound(w) => w.secret \in drawn \cup {Nothing}
    BY DEF Bound, DrawsFit, Requested, Held
  <2>4. o.kind \in {"create", "webhook"} => (new.url = Nothing <=> new.secret = Nothing)
    BY <1>b
  <2>5. new.secret \notin drawn
    BY <1>b
  <2> HIDE DEF new
  <2>6. \A w \in Webhooks : Bound(w)' => (w.url = Nothing <=> w.secret = Nothing)
    BY <2>2, <2>4 DEF SecretsFit
  <2>7. \A x, y \in Webhooks :
          Bound(x)' /\ Bound(y)' /\ x.secret = y.secret /\ x.secret # Nothing => x.url = y.url
    BY <2>2, <2>3, <2>5 DEF SecretsFit
  <2> QED BY <2>6, <2>7 DEF SecretsFit
<1>6. CallsFit'
  BY DEF TypeOK, RequestsFit, CreationFits, DrawsFit, CallsFit
<1>7. ToldItsOwn'
  BY <1>1 DEF TypeOK, RequestsFit, ToldItsOwn
<1> QED BY <1>1, <1>2, <1>3, <1>4, <1>5, <1>6, <1>7

LEMMA LockRowHolds ==
  ASSUME IInv, NEW a \in Admins, LockRow(a)
  PROVE  IInv'
<1> USE DEF IInv, LockRow, adminVars, callVars, InTransaction
<1>1. TypeOK'
  BY DEF TypeOK, Webhooks
<1>2. RequestsFit'
  BY DEF TypeOK, RequestsFit, AsksWebhook
<1>3. CreationFits'
  BY DEF TypeOK, RequestsFit, CreationFits
<1>4. DrawsFit'
  BY DEF TypeOK, RequestsFit, DrawsFit, Held, Pending, Public, Stored
<1>5. SecretsFit'
  BY DEF TypeOK, RequestsFit, SecretsFit, Bound, Public, Stored, Requested, AsksWebhook
<1>6. CallsFit'
  BY DEF TypeOK, RequestsFit, CreationFits, DrawsFit, CallsFit
<1>7. ToldItsOwn'
  BY <1>1 DEF TypeOK, RequestsFit, ToldItsOwn
<1> QED BY <1>1, <1>2, <1>3, <1>4, <1>5, <1>6, <1>7

LEMMA CommitHolds ==
  ASSUME IInv, NEW a \in Admins, Commit(a)
  PROVE  IInv'
<1> USE DEF IInv, Commit, adminVars, callVars
<1>a. op[a].kind # "none" /\ Pending(a)
  BY DEF RequestsFit, Pending
<1>b. /\ client' \in Rows /\ client' = Changed(a)
      /\ client'.status = IF op[a].kind = "create" THEN "active"
                          ELSE IF op[a].kind = "status" THEN op[a].to ELSE client.status
      /\ client'.key = IF op[a].kind \in {"create", "rotate"} THEN fresh[a].key ELSE client.key
      /\ client'.url = IF AsksWebhook(a) THEN op[a].to ELSE client.url
      /\ client'.secret = IF AsksWebhook(a) THEN fresh[a].secret ELSE client.secret
  BY <1>a, ChangedRow
<1>c. op[a].kind = "status" => op[a].to \in Statuses
  BY DEF TypeOK, Ops, NoOp
<1>d. \A w : Public(w)' => Public(w) \/ (AsksWebhook(a) /\ w = Requested(a))
  BY <1>b DEF Public, Stored, Requested
<1>e. \A b \in Admins : /\ Held(b)' = Held(b) /\ (Pending(b)' <=> Pending(b) /\ b # a)
                        /\ Requested(b)' = Requested(b) /\ (AsksWebhook(b)' <=> AsksWebhook(b))
  BY DEF Held, Pending, TypeOK, Requested, AsksWebhook
<1>1. TypeOK'
  BY <1>b DEF TypeOK
<1>2. RequestsFit'
  BY DEF TypeOK, RequestsFit, AsksWebhook
<1>3. CreationFits'
  <2>1. client'.status # "none"
    BY <1>b, <1>c DEF CreationFits, Statuses, RequestsFit, TypeOK
  <2>2. \A b \in Admins : op[b].kind = "create" /\ stage'[b] = "asked" => client'.status = "none"
    BY <1>a, <1>b DEF CreationFits, TypeOK
  <2> QED BY <2>1, <2>2 DEF CreationFits
<1>4. DrawsFit'
  <2>1. AsksWebhook(a) => Requested(a).secret = fresh[a].secret
    BY DEF Requested
  <2>2. fresh[a].secret \in Held(a) \cup {Nothing} /\ fresh[a].key \in Held(a) \cup {Nothing}
    BY DEF Held
  <2>3. /\ told \subseteq drawn
        /\ client'.key \in drawn \cup {Nothing}
        /\ \A w \in Webhooks : Public(w)' => w.secret \in drawn \cup {Nothing}
    BY <1>b, <1>d, <2>1, <2>2 DEF DrawsFit
  <2>4. ASSUME NEW b \in Admins, Pending(b)'
        PROVE  /\ Held(b) \cap told = {} /\ client'.key \notin Held(b)
               /\ \A w \in Webhooks : Public(w)' => w.secret \notin Held(b)
    <3>1. b # a /\ Pending(b) /\ Held(a) \cap Held(b) = {} /\ Nothing \notin Held(b)
      BY <1>e, <2>4 DEF DrawsFit, Held
    <3> QED BY <3>1, <1>b, <1>d, <2>1, <2>2 DEF DrawsFit
  <2> QED BY <1>e, <2>3, <2>4 DEF DrawsFit
<1>5. SecretsFit'
  <2>1. \A w \in Webhooks : Bound(w)' => Bound(w)
    BY <1>d, <1>e DEF Bound
  <2> QED BY <2>1 DEF SecretsFit
<1>6. CallsFit'
  <2>1. \A c \in Calls : phase[c] = "arrived" /\ op[a].kind = "rotate" => key[c] # fresh[a].key
    BY <1>a DEF CallsFit, DrawsFit, Held, RequestsFit
  <2> QED BY <1>b, <2>1 DEF CallsFit, RequestsFit
<1>7. ToldItsOwn'
  BY <1>1, <1>b DEF ToldItsOwn, TypeOK, AsksWebhook
<1> QED BY <1>1, <1>2, <1>3, <1>4, <1>5, <1>6, <1>7

LEMMA UpdateHolds ==
  ASSUME IInv, NEW a \in Admins, Update(a)
  PROVE  IInv'
<1> USE DEF IInv, Update, adminVars, callVars, InTransaction, Barred
<1>a. op[a].kind # "none" /\ Pending(a)
  BY DEF RequestsFit, Pending
<1>b. /\ client' \in Rows /\ client' = Changed(a)
      /\ client'.status = IF op[a].kind = "create" THEN "active"
                          ELSE IF op[a].kind = "status" THEN op[a].to ELSE client.status
      /\ client'.key = IF op[a].kind \in {"create", "rotate"} THEN fresh[a].key ELSE client.key
      /\ client'.url = IF AsksWebhook(a) THEN op[a].to ELSE client.url
      /\ client'.secret = IF AsksWebhook(a) THEN fresh[a].secret ELSE client.secret
  BY <1>a, ChangedRow
<1>c. op[a].kind = "status" => op[a].to \in Statuses
  BY DEF TypeOK, Ops, NoOp
<1>d. \A w : Public(w)' => Public(w) \/ (AsksWebhook(a) /\ w = Requested(a))
  BY <1>b DEF Public, Stored, Requested
<1>e. \A b \in Admins : /\ Held(b)' = Held(b) /\ (Pending(b)' <=> Pending(b) /\ b # a)
                        /\ Requested(b)' = Requested(b) /\ (AsksWebhook(b)' <=> AsksWebhook(b))
  BY DEF Held, Pending, TypeOK, Requested, AsksWebhook
<1>1. TypeOK'
  <2>1. barred' \in [Calls -> BOOLEAN]
    BY DEF TypeOK
  <2> QED BY <1>b, <2>1 DEF TypeOK
<1>2. RequestsFit'
  BY <1>a DEF TypeOK, RequestsFit, AsksWebhook, Ops, NoOp
<1>3. CreationFits'
  <2>1. client'.status # "none"
    BY <1>b, <1>c DEF CreationFits, Statuses, RequestsFit, TypeOK
  <2>2. \A b \in Admins : op[b].kind = "create" /\ stage'[b] = "asked" => client'.status = "none"
    BY <1>a, <1>b DEF CreationFits, TypeOK
  <2> QED BY <2>1, <2>2 DEF CreationFits
<1>4. DrawsFit'
  <2>1. AsksWebhook(a) => Requested(a).secret = fresh[a].secret
    BY DEF Requested
  <2>2. fresh[a].secret \in Held(a) \cup {Nothing} /\ fresh[a].key \in Held(a) \cup {Nothing}
    BY DEF Held
  <2>3. /\ told \subseteq drawn
        /\ client'.key \in drawn \cup {Nothing}
        /\ \A w \in Webhooks : Public(w)' => w.secret \in drawn \cup {Nothing}
    BY <1>b, <1>d, <2>1, <2>2 DEF DrawsFit
  <2>4. ASSUME NEW b \in Admins, Pending(b)'
        PROVE  /\ Held(b) \cap told = {} /\ client'.key \notin Held(b)
               /\ \A w \in Webhooks : Public(w)' => w.secret \notin Held(b)
    <3>1. b # a /\ Pending(b) /\ Held(a) \cap Held(b) = {} /\ Nothing \notin Held(b)
      BY <1>e, <2>4 DEF DrawsFit, Held
    <3> QED BY <3>1, <1>b, <1>d, <2>1, <2>2 DEF DrawsFit
  <2> QED BY <1>e, <2>3, <2>4 DEF DrawsFit
<1>5. SecretsFit'
  <2>1. \A w \in Webhooks : Bound(w)' => Bound(w)
    BY <1>d, <1>e DEF Bound
  <2> QED BY <2>1 DEF SecretsFit
<1>6. CallsFit'
  <2>1. CASE op[a] = [kind |-> "status", to |-> "inactive"]
    <3>1. client'.status = "inactive" /\ client'.key = client.key
      BY <1>b, <2>1
    <3>2. barred' = [c \in Calls |-> barred[c] \/ phase[c] \in {"arrived", "admitted"}]
      BY <2>1
    <3> QED BY <3>1, <3>2 DEF CallsFit
  <2>2. CASE op[a] = [kind |-> "status", to |-> "active"]
    <3>1. client'.status = "active" /\ client'.key = client.key
      BY <1>b, <2>2
    <3>2. barred' = [c \in Calls |-> barred[c] /\ phase[c] = "arrived" /\ key[c] # client.key]
      BY <2>2
    <3> QED BY <3>1, <3>2 DEF CallsFit
  <2>3. CASE op[a].kind = "create"
    BY <1>a, <1>b, <2>3 DEF CallsFit, CreationFits, RequestsFit
  <2>4. CASE op[a].kind = "policy"
    BY <1>b, <2>4 DEF CallsFit
  <2> QED BY <1>a, <2>1, <2>2, <2>3, <2>4 DEF TypeOK, Ops, NoOp, RequestsFit, Statuses
<1>7. ToldItsOwn'
  BY <1>1 DEF TypeOK, RequestsFit, ToldItsOwn
<1> QED BY <1>1, <1>2, <1>3, <1>4, <1>5, <1>6, <1>7

LEMMA ReadBackHolds ==
  ASSUME IInv, NEW a \in Admins, ReadBack(a)
  PROVE  IInv'
<1> USE DEF IInv, ReadBack, adminVars, callVars
<1>a. op[a].kind # "none"
  BY DEF RequestsFit
<1>b. reply'[a] \in Rows /\ \A b \in Admins \ {a} : reply'[b] = reply[b]
  BY <1>a, ChangedRow DEF TypeOK
<1>1. TypeOK'
  BY <1>b DEF TypeOK
<1>2. RequestsFit'
  BY DEF TypeOK, RequestsFit, AsksWebhook
<1>3. CreationFits'
  BY DEF TypeOK, RequestsFit, CreationFits
<1>4. DrawsFit'
  BY DEF TypeOK, RequestsFit, DrawsFit, Held, Pending, Public, Stored
<1>5. SecretsFit'
  BY DEF TypeOK, RequestsFit, SecretsFit, Bound, Public, Stored, Requested, AsksWebhook
<1>6. CallsFit'
  BY DEF TypeOK, RequestsFit, CreationFits, DrawsFit, CallsFit
<1>7. ToldItsOwn'
  <2>1. op[a].kind = "create" => reply'[a] = Changed(a)
    BY DEF TypeOK
  <2>2. op[a].kind \in {"create", "status", "policy"}
    BY DEF RequestsFit
  <2> QED BY <1>1, <1>a, <1>b, <2>1, <2>2, ChangedRow DEF ToldItsOwn, AsksWebhook, TypeOK
<1> QED BY <1>1, <1>2, <1>3, <1>4, <1>5, <1>6, <1>7

LEMMA AnswerHolds ==
  ASSUME IInv, NEW a \in Admins, Answer(a)
  PROVE  IInv'
<1> USE DEF IInv, Answer, adminVars, callVars, Return, NoOp, NoDraw
<1>1. TypeOK'
  BY NoRowFits DEF TypeOK
<1>2. RequestsFit'
  BY DEF TypeOK, RequestsFit, AsksWebhook
<1>3. CreationFits'
  BY DEF TypeOK, RequestsFit, CreationFits
<1>4. DrawsFit'
  BY DEF TypeOK, RequestsFit, DrawsFit, Held, Pending, Public, Stored
<1>5. SecretsFit'
  BY DEF TypeOK, RequestsFit, SecretsFit, Bound, Public, Stored, Requested, AsksWebhook
<1>6. CallsFit'
  BY DEF TypeOK, RequestsFit, CreationFits, DrawsFit, CallsFit
<1>7. ToldItsOwn'
  BY <1>1 DEF TypeOK, RequestsFit, ToldItsOwn
<1> QED BY <1>1, <1>2, <1>3, <1>4, <1>5, <1>6, <1>7

LEMMA FailHolds ==
  ASSUME IInv, NEW a \in Admins, Fail(a)
  PROVE  IInv'
<1> USE DEF IInv, Fail, adminVars, callVars, Return, NoOp, NoDraw
<1>1. TypeOK'
  BY NoRowFits DEF TypeOK
<1>2. RequestsFit'
  BY DEF TypeOK, RequestsFit, AsksWebhook
<1>3. CreationFits'
  BY DEF TypeOK, RequestsFit, CreationFits
<1>4. DrawsFit'
  <2>1. \A w : Public(w)' <=> Public(w)
    BY DEF Public, Stored
  <2>2. /\ Held(a)' = {} /\ ~Pending(a)'
        /\ \A b \in Admins \ {a} : Held(b)' = Held(b) /\ (Pending(b)' <=> Pending(b))
    BY DEF Held, Pending, TypeOK
  <2>3. drawn' = IF Pending(a) THEN drawn \ Held(a) ELSE drawn
    <3>1. Nothing \notin drawn
      BY ClientAssumption DEF TypeOK
    <3> QED BY <3>1 DEF Pending, Held
  <2>4. Nothing \notin Held(a)
    BY DEF Held
  <2> QED BY <2>1, <2>2, <2>3, <2>4 DEF DrawsFit
<1>5. SecretsFit'
  BY DEF TypeOK, RequestsFit, SecretsFit, Bound, Public, Stored, Requested, AsksWebhook
<1>6. CallsFit'
  BY DEF TypeOK, RequestsFit, CreationFits, DrawsFit, CallsFit
<1>7. ToldItsOwn'
  BY <1>1 DEF TypeOK, RequestsFit, ToldItsOwn
<1> QED BY <1>1, <1>2, <1>3, <1>4, <1>5, <1>6, <1>7

-----------------------------------------------------------------------------
\* What a call with an API key does keeps the invariant.
LEMMA ArriveHolds ==
  ASSUME IInv, NEW c \in Calls, NEW k \in told, Arrive(c, k)
  PROVE  IInv'
<1> USE DEF IInv, Arrive, adminVars, callVars
<1>1. TypeOK'
  BY DEF TypeOK, Webhooks
<1>2. RequestsFit'
  BY DEF TypeOK, RequestsFit, AsksWebhook
<1>3. CreationFits'
  BY DEF TypeOK, RequestsFit, CreationFits
<1>4. DrawsFit'
  BY DEF TypeOK, RequestsFit, DrawsFit, Held, Pending, Public, Stored
<1>5. SecretsFit'
  BY DEF TypeOK, RequestsFit, SecretsFit, Bound, Public, Stored, Requested, AsksWebhook
<1>6. CallsFit'
  BY DEF TypeOK, RequestsFit, CreationFits, DrawsFit, CallsFit
<1>7. ToldItsOwn'
  BY <1>1 DEF TypeOK, RequestsFit, ToldItsOwn
<1> QED BY <1>1, <1>2, <1>3, <1>4, <1>5, <1>6, <1>7

LEMMA AuthenticateHolds ==
  ASSUME IInv, NEW c \in Calls, Authenticate(c)
  PROVE  IInv'
<1> USE DEF IInv, Authenticate, adminVars, callVars, Advance, Forget
<1>1. TypeOK'
  BY DEF TypeOK, Webhooks
<1>2. RequestsFit'
  BY DEF TypeOK, RequestsFit, AsksWebhook
<1>3. CreationFits'
  BY DEF TypeOK, RequestsFit, CreationFits
<1>4. DrawsFit'
  BY DEF TypeOK, RequestsFit, DrawsFit, Held, Pending, Public, Stored
<1>5. SecretsFit'
  BY DEF TypeOK, RequestsFit, SecretsFit, Bound, Public, Stored, Requested, AsksWebhook
<1>6. CallsFit'
  BY DEF TypeOK, RequestsFit, CreationFits, DrawsFit, CallsFit
<1>7. ToldItsOwn'
  BY <1>1 DEF TypeOK, RequestsFit, ToldItsOwn
<1> QED BY <1>1, <1>2, <1>3, <1>4, <1>5, <1>6, <1>7

LEMMA ReadPolicyHolds ==
  ASSUME IInv, NEW c \in Calls, ReadPolicy(c)
  PROVE  IInv'
<1> USE DEF IInv, ReadPolicy, adminVars, callVars, Advance, Found
<1>1. TypeOK'
  BY DEF TypeOK, Rows
<1>2. RequestsFit'
  BY DEF TypeOK, RequestsFit, AsksWebhook
<1>3. CreationFits'
  BY DEF TypeOK, RequestsFit, CreationFits
<1>4. DrawsFit'
  BY DEF TypeOK, RequestsFit, DrawsFit, Held, Pending, Public, Stored
<1>5. SecretsFit'
  BY DEF TypeOK, RequestsFit, SecretsFit, Bound, Public, Stored, Requested, AsksWebhook
<1>6. CallsFit'
  BY DEF TypeOK, RequestsFit, CreationFits, DrawsFit, CallsFit
<1>7. ToldItsOwn'
  BY <1>1 DEF TypeOK, RequestsFit, ToldItsOwn
<1> QED BY <1>1, <1>2, <1>3, <1>4, <1>5, <1>6, <1>7

LEMMA RefuseHolds ==
  ASSUME IInv, NEW c \in Calls, Refuse(c)
  PROVE  IInv'
<1> USE DEF IInv, Refuse, adminVars, callVars, Advance, Forget, Found
<1>1. TypeOK'
  BY DEF TypeOK, Webhooks
<1>2. RequestsFit'
  BY DEF TypeOK, RequestsFit, AsksWebhook
<1>3. CreationFits'
  BY DEF TypeOK, RequestsFit, CreationFits
<1>4. DrawsFit'
  BY DEF TypeOK, RequestsFit, DrawsFit, Held, Pending, Public, Stored
<1>5. SecretsFit'
  BY DEF TypeOK, RequestsFit, SecretsFit, Bound, Public, Stored, Requested, AsksWebhook
<1>6. CallsFit'
  BY DEF TypeOK, RequestsFit, CreationFits, DrawsFit, CallsFit
<1>7. ToldItsOwn'
  BY <1>1 DEF TypeOK, RequestsFit, ToldItsOwn
<1> QED BY <1>1, <1>2, <1>3, <1>4, <1>5, <1>6, <1>7

LEMMA SaveHolds ==
  ASSUME IInv, NEW c \in Calls, Save(c)
  PROVE  IInv'
<1> USE DEF IInv, Save, adminVars, callVars, Advance
<1>1. TypeOK'
  BY DEF TypeOK, Webhooks
<1>2. RequestsFit'
  BY DEF TypeOK, RequestsFit, AsksWebhook
<1>3. CreationFits'
  BY DEF TypeOK, RequestsFit, CreationFits
<1>4. DrawsFit'
  BY DEF TypeOK, RequestsFit, DrawsFit, Held, Pending, Public, Stored
<1>5. SecretsFit'
  BY DEF TypeOK, RequestsFit, SecretsFit, Bound, Public, Stored, Requested, AsksWebhook
<1>6. CallsFit'
  BY DEF TypeOK, RequestsFit, CreationFits, DrawsFit, CallsFit
<1>7. ToldItsOwn'
  BY <1>1 DEF TypeOK, RequestsFit, ToldItsOwn
<1> QED BY <1>1, <1>2, <1>3, <1>4, <1>5, <1>6, <1>7

LEMMA ReadWebhookHolds ==
  ASSUME IInv, NEW c \in Calls, ReadWebhook(c)
  PROVE  IInv'
<1> USE DEF IInv, ReadWebhook, adminVars, callVars, Advance, Found, Webhook
<1>a. /\ target'[c] = Stored /\ phase'[c] = "posting"
      /\ \A d \in Calls \ {c} : target'[d] = target[d] /\ phase'[d] = phase[d]
  BY DEF TypeOK, Stored
<1>b. \A w : Public(w)' => Public(w)
  BY <1>a DEF Public, Stored
<1>1. TypeOK'
  BY DEF TypeOK, Rows, Webhooks
<1>2. RequestsFit'
  BY DEF TypeOK, RequestsFit, AsksWebhook
<1>3. CreationFits'
  BY DEF TypeOK, RequestsFit, CreationFits
<1>4. DrawsFit'
  BY DEF TypeOK, RequestsFit, DrawsFit, Held, Pending, Public, Stored
<1>5. SecretsFit'
  <2>1. \A w \in Webhooks : Bound(w)' => Bound(w)
    BY <1>b DEF Bound, AsksWebhook, Requested
  <2>2. Stored \in Webhooks /\ Bound(Stored)
    BY DEF TypeOK, Rows, Webhooks, Stored, Bound, Public
  <2>3. Stored.secret # Nothing
    BY <2>2 DEF SecretsFit, Stored
  <2>4. \A d \in Calls : phase'[d] = "posting" => target'[d].secret # Nothing
    BY <1>a, <2>3 DEF SecretsFit
  <2> QED BY <2>1, <2>4 DEF SecretsFit
<1>6. CallsFit'
  BY DEF TypeOK, RequestsFit, CreationFits, DrawsFit, CallsFit
<1>7. ToldItsOwn'
  BY <1>1 DEF TypeOK, RequestsFit, ToldItsOwn
<1> QED BY <1>1, <1>2, <1>3, <1>4, <1>5, <1>6, <1>7

LEMMA SkipCallbackHolds ==
  ASSUME IInv, NEW c \in Calls, SkipCallback(c)
  PROVE  IInv'
<1> USE DEF IInv, SkipCallback, adminVars, callVars, Advance
<1>1. TypeOK'
  BY DEF TypeOK, Webhooks
<1>2. RequestsFit'
  BY DEF TypeOK, RequestsFit, AsksWebhook
<1>3. CreationFits'
  BY DEF TypeOK, RequestsFit, CreationFits
<1>4. DrawsFit'
  BY DEF TypeOK, RequestsFit, DrawsFit, Held, Pending, Public, Stored
<1>5. SecretsFit'
  BY DEF TypeOK, RequestsFit, SecretsFit, Bound, Public, Stored, Requested, AsksWebhook
<1>6. CallsFit'
  BY DEF TypeOK, RequestsFit, CreationFits, DrawsFit, CallsFit
<1>7. ToldItsOwn'
  BY <1>1 DEF TypeOK, RequestsFit, ToldItsOwn
<1> QED BY <1>1, <1>2, <1>3, <1>4, <1>5, <1>6, <1>7

LEMMA PostHolds ==
  ASSUME IInv, NEW c \in Calls, Post(c)
  PROVE  IInv'
<1> USE DEF IInv, Post, adminVars, callVars, Advance, NoTarget
<1>1. TypeOK'
  BY DEF TypeOK, Webhooks
<1>2. RequestsFit'
  BY DEF TypeOK, RequestsFit, AsksWebhook
<1>3. CreationFits'
  BY DEF TypeOK, RequestsFit, CreationFits
<1>4. DrawsFit'
  <2>1. \A w \in Webhooks : Public(w)' => Public(w) \/ w.secret = Nothing
    BY DEF Public, Stored, TypeOK
  <2>2. \A b \in Admins : Held(b)' = Held(b) /\ (Pending(b)' <=> Pending(b)) /\ Nothing \notin Held(b)
    BY DEF Held, Pending
  <2> QED BY <2>1, <2>2 DEF DrawsFit
<1>5. SecretsFit'
  BY DEF TypeOK, RequestsFit, SecretsFit, Bound, Public, Stored, Requested, AsksWebhook
<1>6. CallsFit'
  BY DEF TypeOK, RequestsFit, CreationFits, DrawsFit, CallsFit
<1>7. ToldItsOwn'
  BY <1>1 DEF TypeOK, RequestsFit, ToldItsOwn
<1> QED BY <1>1, <1>2, <1>3, <1>4, <1>5, <1>6, <1>7

-----------------------------------------------------------------------------
\* So does every step.
LEMMA NextHolds == IInv /\ [Next]_vars => IInv'
<1> SUFFICES ASSUME IInv, [Next]_vars PROVE IInv'
  OBVIOUS
<1>1. ASSUME NEW a \in Admins, AdminStep(a)
      PROVE  IInv'
  BY <1>1, AskHolds, LockRowHolds, CommitHolds, UpdateHolds, ReadBackHolds, AnswerHolds, FailHolds
  DEF AdminStep
<1>2. ASSUME NEW c \in Calls, CallStep(c)
      PROVE  IInv'
  BY <1>2, ArriveHolds, AuthenticateHolds, ReadPolicyHolds, RefuseHolds, SaveHolds,
     ReadWebhookHolds, SkipCallbackHolds, PostHolds
  DEF CallStep
<1>3. CASE UNCHANGED vars
  <2> USE <1>3 DEF vars, adminVars, callVars, IInv
  <2>1. TypeOK'
    BY DEF TypeOK
  <2>2. RequestsFit' /\ CreationFits'
    BY DEF RequestsFit, CreationFits, AsksWebhook
  <2>3. DrawsFit'
    BY DEF DrawsFit, Held, Pending, Public, Stored
  <2>4. SecretsFit'
    BY DEF SecretsFit, Bound, Public, Stored, Requested, AsksWebhook
  <2>5. CallsFit' /\ ToldItsOwn'
    BY <2>1 DEF CallsFit, ToldItsOwn
  <2> QED BY <2>1, <2>2, <2>3, <2>4, <2>5
<1> QED BY <1>1, <1>2, <1>3 DEF Next

LEMMA Invariance == Spec => []IInv
BY InitHolds, NextHolds, PTL DEF Spec

\* AuthenticateAPIKey and GetClient: whatever administrators do at once, a call with a key
\* that was dead when it came, or at a client switched off before its policy was read, does
\* not get past that point unless the client was switched on in between.
THEOREM DeadKeysStayOut == Spec => []BarredStayOut
<1>1. IInv => BarredStayOut
  BY DEF IInv, CallsFit, BarredStayOut
<1> QED BY <1>1, Invariance, PTL

\* RotateClientAPIKey, UpdateClientWebhook and CreateClient: the row an answer repeats has
\* the key, the URL and the secret of the own change, however many others change the row.
THEOREM AnswersAreTheirOwn == Spec => []ToldItsOwn
<1>1. IInv => ToldItsOwn
  BY DEF IInv
<1> QED BY <1>1, Invariance, PTL

\* ClientForCallback and the dispatcher: no secret ever signs for two URLs, though rows
\* change between the lookup, the POST and its retries.
THEOREM OneSecretOneEndpoint == Spec => []SecretsStayApart
<1>1. IInv => SecretsStayApart
  BY DEF IInv, SecretsFit, SecretsStayApart, Bound, Public, TypeOK
<1> QED BY <1>1, Invariance, PTL

-----------------------------------------------------------------------------
(***************************************************************************)
(* The limit.                                                               *)
(***************************************************************************)

\* Retry-After in ticks: rounding up to whole seconds never falls short.
LEMMA RoundsUp ==
  ASSUME Second \in Nat \ {0}, NEW left \in Nat
  PROVE  Limiter!RetryAfter(left) * Second \in Nat /\ Limiter!RetryAfter(left) * Second >= left
<1> DEFINE x == left + Second - 1
           d == x \div Second
<1>1. x \in Nat
  OBVIOUS
<1>2. d \in Nat /\ x < Second * d + Second
  <2> HIDE DEF x
  <2>1. x = Second * (x \div Second) + (x % Second) /\ x % Second \in 0..(Second - 1) /\ x \div Second \in Nat
    BY <1>1
  <2> QED BY <2>1
<1>3. Limiter!RetryAfter(left) = d
  BY DEF Limiter!RetryAfter
<1>4. left + Second - 1 < Second * d + Second
  BY <1>2
<1> HIDE DEF d
<1>5. Second * d \in Nat /\ Second * d = d * Second
  BY <1>2
<1>6. left <= Second * d
  <2> DEFINE y == Second * d
  <2>1. y \in Nat /\ left + Second - 1 < y + Second
    BY <1>4, <1>5
  <2> HIDE DEF y
  <2>2. left <= y
    BY <2>1
  <2> QED BY <2>2 DEF y
<1> QED BY <1>3, <1>5, <1>6

\* The expiry of a window of a second or more is not zero.
LEMMA ExpiryIsPositive ==
  ASSUME Limiter!LimitAssumption PROVE Limiter!Expiry \in Nat \ {0}
<1> DEFINE d == Window \div Second
<1>1. Second \in Nat \ {0} /\ Window \in Nat /\ Window >= Second
  BY DEF Limiter!LimitAssumption
<1>2. d \in Nat /\ d > 0
  <2>1. Window = Second * d + (Window % Second) /\ Window % Second \in 0..(Second - 1) /\ d \in Nat
    BY <1>1
  <2>2. CASE d = 0
    BY <1>1, <2>1, <2>2
  <2> QED BY <2>1, <2>2
<1>3. Limiter!Expiry = d * Second
  BY DEF Limiter!Expiry
<1> HIDE DEF d
<1> QED BY <1>1, <1>2, <1>3

\* The counter lives while it has a life, and counts what is admitted.
CounterFits ==
  /\ count > 0 <=> ttl > 0
  /\ granted = IF count <= Limit THEN count ELSE Limit
  /\ count > 0 => answer = [allowed |-> Limiter!Allowed(count), remaining |-> Limiter!Remaining(count)]

\* A caller that was refused in this window waits for what is left of it.
WaitsFit ==
  \A c \in Callers : wait[c] # NoWait /\ ~renewed[c] => ttl > 0 /\ wait[c] >= ttl

LimiterInv == Limiter!TypeOK /\ CounterFits /\ WaitsFit

\* Admitted in the window there is now; what else is recent is of the one before.
InWindow(r) == ttl > 0 /\ r.age <= Limiter!Expiry - ttl

\* Each window admits an n-th call once, and begins in a tick in which none was admitted.
SpanFits ==
  /\ \A r \in recent : r.nth \in 1..Limit /\ (InWindow(r) => r.nth <= count)
  /\ \A r, s \in recent : r.nth = s.nth /\ (InWindow(r) <=> InWindow(s)) => r = s
  /\ ttl = 0 => \A r \in recent : r.age # 0

LEMMA LimiterInitHolds == Limiter!LimitAssumption /\ Limiter!Init => LimiterInv
<1> SUFFICES ASSUME Limiter!LimitAssumption, Limiter!Init PROVE LimiterInv
  OBVIOUS
<1>1. Limiter!Expiry \in Nat \ {0} /\ Limit \in Nat \ {0} /\ Excess \in Nat
  BY ExpiryIsPositive DEF Limiter!LimitAssumption
<1> QED BY <1>1 DEF Limiter!Init, LimiterInv, Limiter!TypeOK, CounterFits, WaitsFit

LEMMA LimiterCallHolds ==
  ASSUME Limiter!LimitAssumption, LimiterInv, NEW c \in Callers, Limiter!Call(c)
  PROVE  LimiterInv'
<1> DEFINE n == count + 1
<1>1. /\ Limiter!Expiry \in Nat \ {0} /\ Limit \in Nat \ {0} /\ Excess \in Nat
      /\ Second \in Nat \ {0} /\ NoWait \notin Nat
  BY ExpiryIsPositive DEF Limiter!LimitAssumption
<1>2. /\ count \in 0..(Limit + Excess) /\ n \in Nat \ {0} /\ n <= Limit + Excess
      /\ count' = n /\ ttl' = Limiter!Life(n)
      /\ answer' = [allowed |-> Limiter!Allowed(n), remaining |-> Limiter!Remaining(n)]
  BY <1>1 DEF Limiter!Call, LimiterInv, Limiter!TypeOK
<1>3. ttl' \in 1..Limiter!Expiry /\ (n # 1 => ttl' = ttl)
  BY <1>1, <1>2 DEF Limiter!Life, LimiterInv, Limiter!TypeOK, CounterFits
<1>4. answer' \in [allowed : BOOLEAN, remaining : Nat]
  BY <1>1, <1>2 DEF Limiter!Allowed, Limiter!Remaining
<1>5. Limiter!RetryAfter(Limiter!Life(n)) * Second \in Nat /\ Limiter!RetryAfter(Limiter!Life(n)) * Second >= ttl'
  <2>1. ttl' \in Nat /\ ttl' = Limiter!Life(n)
    BY <1>1, <1>2, <1>3
  <2> QED BY <1>1, <2>1, RoundsUp
<1>6. CASE /\ Limiter!Allowed(n)
           /\ granted' = granted + 1
           /\ recent' = recent \cup {[age |-> 0, nth |-> n]}
           /\ wait' = [wait EXCEPT ![c] = NoWait]
           /\ UNCHANGED renewed
  <2>1. Limiter!TypeOK'
    <3>1. [age |-> 0, nth |-> n] \in [age : 0..(Limiter!Expiry - 1), nth : Nat]
      BY <1>1, <1>2
    <3>2. recent' \subseteq [age : 0..(Limiter!Expiry - 1), nth : Nat]
      BY <1>6, <3>1 DEF LimiterInv, Limiter!TypeOK
    <3>3. Limiter!Expiry' = Limiter!Expiry
      BY DEF Limiter!Expiry
    <3> QED BY <1>1, <1>2, <1>3, <1>4, <1>6, <3>2, <3>3 DEF LimiterInv, Limiter!TypeOK
  <2>2. CounterFits'
    BY <1>1, <1>2, <1>3, <1>6 DEF LimiterInv, Limiter!TypeOK, CounterFits, Limiter!Allowed
  <2>3. WaitsFit'
    BY <1>1, <1>2, <1>3, <1>6 DEF LimiterInv, Limiter!TypeOK, CounterFits, WaitsFit
  <2> QED BY <2>1, <2>2, <2>3 DEF LimiterInv
<1>7. CASE /\ ~Limiter!Allowed(n)
           /\ wait' = [wait EXCEPT ![c] = Limiter!RetryAfter(Limiter!Life(n)) * Second]
           /\ renewed' = [renewed EXCEPT ![c] = FALSE]
           /\ UNCHANGED <<granted, recent>>
  <2> DEFINE pause == Limiter!RetryAfter(Limiter!Life(n)) * Second
  <2>1. Limiter!TypeOK'
    <3> HIDE DEF pause
    <3> QED BY <1>1, <1>2, <1>3, <1>4, <1>5, <1>7 DEF LimiterInv, Limiter!TypeOK, pause
  <2>2. CounterFits'
    BY <1>1, <1>2, <1>3, <1>7 DEF LimiterInv, Limiter!TypeOK, CounterFits, Limiter!Allowed
  <2>3. WaitsFit'
    BY <1>1, <1>2, <1>3, <1>5, <1>7 DEF LimiterInv, Limiter!TypeOK, CounterFits, WaitsFit
  <2> QED BY <2>1, <2>2, <2>3 DEF LimiterInv
<1> QED BY <1>6, <1>7 DEF Limiter!Call

LEMMA LimiterTickHolds ==
  ASSUME Limiter!LimitAssumption, LimiterInv, Limiter!Tick
  PROVE  LimiterInv'
<1>1. /\ Limiter!Expiry \in Nat \ {0} /\ Limit \in Nat \ {0} /\ Excess \in Nat /\ NoWait \notin Nat
  BY ExpiryIsPositive DEF Limiter!LimitAssumption
<1>2. /\ recent' \subseteq [age : 0..(Limiter!Expiry - 1), nth : Nat]
      /\ wait' \in [Callers -> Nat \cup {NoWait}]
  <2>1. ASSUME NEW q \in recent, q.age < Limiter!Expiry - 1
        PROVE  [q EXCEPT !.age = @ + 1] \in [age : 0..(Limiter!Expiry - 1), nth : Nat]
    BY <1>1, <2>1 DEF LimiterInv, Limiter!TypeOK
  <2>2. recent' \subseteq [age : 0..(Limiter!Expiry - 1), nth : Nat]
    BY <2>1 DEF Limiter!Tick
  <2> QED BY <1>1, <2>2 DEF Limiter!Tick, LimiterInv, Limiter!TypeOK
<1>3. Limiter!TypeOK'
  <2>1. ttl' \in 0..Limiter!Expiry /\ answer' \in [allowed : BOOLEAN, remaining : Nat]
    BY <1>1 DEF Limiter!Tick, LimiterInv, Limiter!TypeOK
  <2>2. count' \in 0..(Limit + Excess) /\ granted' \in Nat
    BY <1>1 DEF Limiter!Tick, LimiterInv, Limiter!TypeOK
  <2>3. renewed' \in [Callers -> BOOLEAN]
    BY DEF Limiter!Tick, LimiterInv, Limiter!TypeOK
  <2>4. Limiter!Expiry' = Limiter!Expiry
    BY DEF Limiter!Expiry
  <2> QED BY <1>2, <2>1, <2>2, <2>3, <2>4 DEF Limiter!TypeOK
<1>4. CounterFits'
  BY <1>1 DEF Limiter!Tick, LimiterInv, Limiter!TypeOK, CounterFits
<1>5. WaitsFit'
  BY <1>1 DEF Limiter!Tick, LimiterInv, Limiter!TypeOK, CounterFits, WaitsFit
<1> QED BY <1>3, <1>4, <1>5 DEF LimiterInv

LEMMA LimiterInvariance == Limiter!Spec => []LimiterInv
<1>1. Limiter!Init => LimiterInv
  BY LimiterAssumption, LimiterInitHolds
<1>2. LimiterInv /\ [Limiter!Next]_(Limiter!vars) => LimiterInv'
  <2>1. LimiterInv /\ UNCHANGED Limiter!vars => LimiterInv'
    BY DEF Limiter!vars, LimiterInv, Limiter!TypeOK, CounterFits, WaitsFit
  <2> QED BY <2>1, LimiterAssumption, LimiterCallHolds, LimiterTickHolds DEF Limiter!Next
<1> QED BY <1>1, <1>2, PTL DEF Limiter!Spec

\* AllowWithState and rateLimitRetryAfterSeconds: the remaining calls that are told
\* are those still admitted, a refusal means all were, and who waits as Retry-After
\* tells finds a new window, for any limit, window, resolution and callers.
THEOREM AnswersAreHonest == Limiter!Spec => []AnswersHold
<1>1. LimiterInv => AnswersHold
  <2>1. Limit \in Nat \ {0} /\ Excess \in Nat /\ NoWait \notin Nat /\ Limiter!Expiry \in Nat \ {0}
    BY LimiterAssumption, ExpiryIsPositive DEF Limiter!LimitAssumption
  <2>2. ASSUME LimiterInv, ttl > 0, count > 0
        PROVE  answer.remaining = Limit - granted /\ (~answer.allowed => granted = Limit)
    <3>1. count \in Nat
      BY <2>1, <2>2 DEF LimiterInv, Limiter!TypeOK
    <3>2. /\ granted = IF count <= Limit THEN count ELSE Limit
          /\ answer.allowed = (count <= Limit)
          /\ answer.remaining = IF count < Limit THEN Limit - count ELSE 0
      BY <2>2 DEF LimiterInv, CounterFits, Limiter!Allowed, Limiter!Remaining
    <3>3. ~answer.allowed => ~(count <= Limit)
      BY <3>2, Zenon
    <3>4. ~(count <= Limit) => granted = Limit
      BY <3>2, Zenon
    <3>5. answer.remaining = Limit - granted
      BY <2>1, <3>1, <3>2
    <3> QED BY <3>3, <3>4, <3>5
  <2>3. ASSUME LimiterInv, NEW c \in Callers, wait[c] = 0
        PROVE  renewed[c]
    BY <2>1, <2>3 DEF LimiterInv, Limiter!TypeOK, WaitsFit
  <2> QED BY <2>2, <2>3 DEF LimiterInv, AnswersHold, Limiter!AnswersHold
<1> QED BY <1>1, LimiterInvariance, PTL

-----------------------------------------------------------------------------
(***************************************************************************)
(* The limit in any span of a window.                                       *)
(***************************************************************************)

Admissions == [age : 0..(Limiter!Expiry - 1), nth : Nat]

LEMMA LimiterFacts ==
  ASSUME LimiterInv
  PROVE  /\ Limiter!Expiry \in Nat \ {0} /\ Limit \in Nat \ {0} /\ count \in Nat
         /\ ttl \in 0..Limiter!Expiry /\ (count > 0 <=> ttl > 0)
         /\ recent \subseteq Admissions
         /\ Limiter!Expiry' = Limiter!Expiry
BY LimiterAssumption, ExpiryIsPositive
   DEF Limiter!LimitAssumption, LimiterInv, Limiter!TypeOK, CounterFits, Admissions, Limiter!Expiry

LEMMA SpanCallHolds ==
  ASSUME LimiterInv, SpanFits, NEW c \in Callers, Limiter!Call(c)
  PROVE  SpanFits'
<1> DEFINE n == count + 1
<1> PICK new : new = [age |-> 0, nth |-> n]
  OBVIOUS
<1>1. /\ count' = n /\ ttl' = IF n = 1 THEN Limiter!Expiry ELSE ttl
      /\ (recent' = recent \cup {new} /\ n <= Limit) \/ recent' = recent
  BY DEF Limiter!Call, Limiter!Life, Limiter!Allowed
<1>2. ttl' > 0 /\ ttl' \in Nat /\ ttl' <= Limiter!Expiry /\ n \in Nat
  BY <1>1, LimiterFacts
<1>3. \A r \in recent : r.age \in 0..(Limiter!Expiry - 1) /\ r.nth \in Nat
  BY LimiterFacts DEF Admissions
<1>4. \A r \in recent : InWindow(r)' <=> InWindow(r)
  BY <1>1, <1>3, LimiterFacts DEF InWindow, SpanFits
<1>5. InWindow(new)' /\ new.nth = n /\ \A r \in recent : InWindow(r) => r.nth # n
  <2>1. \A r \in recent : InWindow(r) => r.nth <= count
    BY DEF SpanFits
  <2>2. \A r \in recent : InWindow(r) => r.nth # n
    BY <1>3, <2>1, LimiterFacts
  <2>3. new.age = 0 /\ new.nth = n
    OBVIOUS
  <2>4. InWindow(new)'
    BY <1>2, <2>3, LimiterFacts DEF InWindow
  <2> QED BY <2>2, <2>3, <2>4
<1>6. \A r \in recent' : r.nth \in 1..Limit /\ (InWindow(r)' => r.nth <= count')
  <2>1. \A r \in recent : r.nth \in 1..Limit /\ (InWindow(r)' => r.nth <= count')
    <3>1. \A r \in recent : r.nth \in 1..Limit /\ (InWindow(r) => r.nth <= count)
      BY DEF SpanFits
    <3>2. \A r \in recent : r.nth <= count => r.nth <= n
      BY <1>3, LimiterFacts
    <3> QED BY <1>1, <1>4, <3>1, <3>2
  <2>2. n <= Limit => n \in 1..Limit
    BY <1>2, LimiterFacts
  <2>3. n <= count'
    BY <1>1, <1>2
  <2> QED BY <1>1, <1>5, <2>1, <2>2, <2>3
<1>7. \A r, s \in recent' : r.nth = s.nth /\ (InWindow(r)' <=> InWindow(s)') => r = s
  <2>1. \A r, s \in recent : r.nth = s.nth /\ (InWindow(r) <=> InWindow(s)) => r = s
    BY DEF SpanFits
  <2>2. \A r, s \in recent : r.nth = s.nth /\ (InWindow(r)' <=> InWindow(s)') => r = s
    BY <1>4, <2>1
  <2>3. \A r \in recent : r.nth = new.nth => ~InWindow(r)'
    BY <1>4, <1>5
  <2>4. ASSUME NEW r \in recent', NEW s \in recent', r.nth = s.nth, InWindow(r)' <=> InWindow(s)'
        PROVE  r = s
    <3>1. (r \in recent \/ r = new) /\ (s \in recent \/ s = new)
      BY <1>1
    <3>2. CASE r \in recent /\ s \in recent
      BY <2>2, <2>4, <3>2
    <3>3. CASE r \in recent /\ s = new
      BY <1>5, <2>3, <2>4, <3>3
    <3>4. CASE r = new /\ s \in recent
      BY <1>5, <2>3, <2>4, <3>4
    <3> QED BY <3>1, <3>2, <3>3, <3>4
  <2> QED BY <2>4
<1> QED BY <1>2, <1>6, <1>7 DEF SpanFits

LEMMA SpanTickHolds ==
  ASSUME LimiterInv, SpanFits, Limiter!Tick
  PROVE  SpanFits'
<1> DEFINE Aged(r) == [r EXCEPT !.age = @ + 1]
           stays == {r \in recent : r.age < Limiter!Expiry - 1}
<1>1. /\ ttl' = IF ttl = 0 THEN 0 ELSE ttl - 1
      /\ recent' = {Aged(r) : r \in stays}
      /\ ttl # 1 => count' = count
  BY DEF Limiter!Tick
<1>2. \A r \in recent : /\ r.age \in 0..(Limiter!Expiry - 1) /\ r.nth \in Nat
                        /\ r = [age |-> r.age, nth |-> r.nth]
  BY LimiterFacts DEF Admissions
<1>3. \A r \in recent : Aged(r).age = r.age + 1 /\ Aged(r).nth = r.nth
  BY <1>2
<1> HIDE DEF Aged
<1>4. \A r \in recent : /\ ttl > 1 => (InWindow(Aged(r))' <=> InWindow(r))
                        /\ ttl <= 1 => ~InWindow(Aged(r))'
                        /\ ttl = 1 => InWindow(r)
                        /\ ttl = 0 => ~InWindow(r)
  BY <1>1, <1>2, <1>3, LimiterFacts DEF InWindow
<1>5. ASSUME NEW r \in stays
      PROVE  Aged(r).nth \in 1..Limit /\ (InWindow(Aged(r))' => Aged(r).nth <= count')
  <2>1. r.nth \in 1..Limit /\ (InWindow(r) => r.nth <= count)
    BY DEF SpanFits
  <2>2. InWindow(Aged(r))' => InWindow(r) /\ ttl # 1
    BY <1>4, LimiterFacts
  <2> QED BY <1>1, <1>3, <2>1, <2>2
<1>6. ASSUME NEW r \in stays, NEW s \in stays, Aged(r).nth = Aged(s).nth,
             InWindow(Aged(r))' <=> InWindow(Aged(s))'
      PROVE  Aged(r) = Aged(s)
  <2>1. r.nth = s.nth
    BY <1>3, <1>6
  <2>2. InWindow(r) <=> InWindow(s)
    BY <1>4, <1>6, LimiterFacts
  <2>3. r = s
    BY <2>1, <2>2 DEF SpanFits
  <2> QED BY <2>3
<1>7. \A r \in stays : Aged(r).age # 0
  BY <1>2, <1>3
<1> HIDE DEF stays
<1> QED BY <1>1, <1>5, <1>6, <1>7 DEF SpanFits

LEMMA SpanInvariance == Limiter!Spec => []SpanFits
<1>1. Limiter!Init => SpanFits
  BY DEF Limiter!Init, SpanFits
<1>2. LimiterInv /\ SpanFits /\ [Limiter!Next]_(Limiter!vars) => SpanFits'
  <2>1. SpanFits /\ UNCHANGED Limiter!vars => SpanFits'
    BY DEF Limiter!vars, SpanFits, InWindow, Limiter!Expiry
  <2> QED BY <2>1, SpanCallHolds, SpanTickHolds DEF Limiter!Next
<1> QED BY <1>1, <1>2, LimiterInvariance, PTL DEF Limiter!Spec

\* AllowWithState: no span of a window admits more than twice the limit, wherever it
\* lies over the windows and however their expiry was cut, for any limit and callers.
THEOREM SpansAreBounded == Limiter!Spec => []SpanBounded
<1>1. LimiterInv /\ SpanFits => SpanBounded
  <2> SUFFICES ASSUME LimiterInv, SpanFits PROVE SpanBounded
    OBVIOUS
  <2> DEFINE place == [r \in recent |-> IF InWindow(r) THEN r.nth ELSE Limit + r.nth]
  <2>1. \A r \in recent : r.nth \in 1..Limit
    BY DEF SpanFits
  <2>2. \A r, s \in recent : place[r] = place[s] => r = s
    <3>1. \A r, s \in recent : place[r] = place[s] => r.nth = s.nth /\ (InWindow(r) <=> InWindow(s))
      BY <2>1, LimiterFacts
    <3> QED BY <3>1 DEF SpanFits
  <2>3. place \in [recent -> 1..(2 * Limit)]
    BY <2>1, LimiterFacts
  <2> HIDE DEF place
  <2>4. place \in Injection(recent, 1..(2 * Limit))
    BY <2>2, <2>3 DEF Injection, IsInjective
  <2>5. IsFiniteSet(1..(2 * Limit)) /\ Cardinality(1..(2 * Limit)) = 2 * Limit
    <3> DEFINE b == 2 * Limit
    <3>1. b \in Nat /\ 1 \in Int
      BY LimiterFacts
    <3> HIDE DEF b
    <3>2. IsFiniteSet(1..b) /\ Cardinality(1..b) = IF 1 > b THEN 0 ELSE b - 1 + 1
      BY <3>1, FS_Interval
    <3>3. IsFiniteSet(1..b) /\ Cardinality(1..b) = b
      BY <3>1, <3>2
    <3> QED BY <3>3 DEF b
  <2>6. Cardinality(recent) <= 2 * Limit
    BY <2>4, <2>5, FS_Injection
  <2>7. Limiter!Cardinality(recent) = Cardinality(recent)
    BY DEF Limiter!Cardinality, Cardinality
  <2> QED BY <2>6, <2>7 DEF SpanBounded, Limiter!SpanBounded
<1> QED BY <1>1, LimiterInvariance, SpanInvariance, PTL

\* The gate does what either middleware does.
THEOREM GateIsBoth == EitherSpec => Spec /\ Limiter!Spec
<1>1. EitherInit => Init /\ Limiter!Init
  BY DEF EitherInit
<1>2. [EitherNext]_<<middleware, vars, limiterVars>> => [Next]_vars /\ [Limiter!Next]_(Limiter!vars)
  BY DEF EitherNext, limiterVars, Limiter!vars
<1> QED BY <1>1, <1>2, PTL DEF EitherSpec, Spec, Limiter!Spec

\* So all of it holds of the gate (router.go: the middlewares of a client's call).
COROLLARY GateHolds ==
  EitherSpec => [](BarredStayOut /\ ToldItsOwn /\ SecretsStayApart /\ SpanBounded /\ AnswersHold)
BY GateIsBoth, DeadKeysStayOut, AnswersAreTheirOwn, OneSecretOneEndpoint, SpansAreBounded,
   AnswersAreHonest, PTL
=============================================================================
