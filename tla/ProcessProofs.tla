---------------------------- MODULE ProcessProofs ----------------------------
(***************************************************************************)
(* Theorems about a moderation process: whatever it is configured with, it  *)
(* runs with settings its parts can use, its results are explained by the   *)
(* policies it lists, and versions it has taken resolve.                    *)
(***************************************************************************)
EXTENDS Process, WellFoundedInduction, TLAPS

(***************************************************************************)
(* Settings.                                                                *)
(***************************************************************************)

\* The sources hold what they may be given; what is in force was accepted.
SourcesFit ==
  /\ DOMAIN file = Names /\ DOMAIN environment = Names
  /\ \A n \in Names : file[n] = Unset \/ Possible(n, file[n])
  /\ \A n \in Names : environment[n] \in {Unset, Garbage} \/ Possible(n, environment[n])

\* Settings that were accepted: their types, and what the guards leave of them.
Sound(s) ==
  /\ \A n \in Names : Possible(n, s[n])
  /\ ValidSettings(s)
  /\ ValidPolicy([version |-> s.version, review |-> s.review, block |-> s.block])

SettingsInv ==
  /\ SourcesFit
  /\ settings # Unset => Sound(settings) /\ (worker <=> StartsWorker(settings)) /\ worker \in BOOLEAN
  /\ lastBatch # "none" => worker /\ (lastBatch = "refused" <=> Refuses(settings))

\* What is in a name.
LEMMA Fields ==
  ASSUME NEW s, \A n \in Names : Possible(n, s[n])
  PROVE  /\ s["enabled"] \in BOOLEAN
         /\ s["review"] \in Int /\ s["block"] \in Int /\ s["limit"] \in Int
         /\ s["window"] \in Int /\ s["interval"] \in Int /\ s["batch"] \in Int
         /\ s["attempts"] \in Int
BY DEF Names, Possible

\* The settings a process starts with are what its sources may hold.
LEMMA LoadedFits ==
  ASSUME SourcesFit, Parsed
  PROVE  \A n \in Names : Possible(n, Loaded[n])
<1> SUFFICES ASSUME NEW n \in Names PROVE Possible(n, Loaded[n])
  OBVIOUS
<1>1. Possible(n, Defaults[n])
  BY SettingsAssumption
<1>2. Possible(n, FromFile[n])
  BY <1>1 DEF FromFile, SourcesFit
<1>3. Loaded[n] = IF environment[n] = Unset THEN FromFile[n] ELSE environment[n]
  BY DEF Loaded
<1> QED BY <1>2, <1>3 DEF SourcesFit, Parsed

LEMMA SettingsInit == Init => SettingsInv
BY DEF Init, SettingsInv, SourcesFit

LEMMA SettingsStep == SettingsInv /\ [Next]_vars => SettingsInv'
<1> SUFFICES ASSUME SettingsInv, [Next]_vars PROVE SettingsInv'
  OBVIOUS
<1> USE DEF SettingsInv
<1>1. ASSUME NEW name \in Names, NEW value \in Values[name] \cup {Unset}, EditFile(name, value)
      PROVE  SettingsInv'
  <2>1. value = Unset \/ Possible(name, value)
    BY SettingsAssumption
  <2>2. SourcesFit'
    BY <1>1, <2>1 DEF EditFile, SourcesFit
  <2> QED BY <1>1, <2>2 DEF EditFile
<1>2. ASSUME NEW name \in Names, NEW value \in Values[name] \cup {Unset, Garbage},
             EditEnvironment(name, value)
      PROVE  SettingsInv'
  <2>1. value \in {Unset, Garbage} \/ Possible(name, value)
    BY SettingsAssumption
  <2>2. SourcesFit'
    BY <1>2, <2>1 DEF EditEnvironment, SourcesFit
  <2> QED BY <1>2, <2>2 DEF EditEnvironment
<1>3. CASE Start
  <2>1. \A n \in Names : Possible(n, Loaded[n])
    BY <1>3, LoadedFits DEF Start, Accepted
  <2>2. Sound(Loaded)
    BY <1>3, <2>1 DEF Start, Accepted, Sound
  <2>3. StartsWorker(Loaded) \in BOOLEAN
    BY <2>1, Fields DEF StartsWorker
  <2> QED BY <1>3, <2>2, <2>3 DEF Start, SourcesFit
<1>4. CASE Stop
  BY <1>4 DEF Stop, SourcesFit
<1>5. CASE Batch
  BY <1>5 DEF Batch, SourcesFit
<1>6. CASE UNCHANGED vars
  BY <1>6 DEF vars, SourcesFit
<1> QED BY <1>1, <1>2, <1>3, <1>4, <1>5, <1>6 DEF Next

LEMMA SettingsInvariance == Spec => []SettingsInv
BY SettingsInit, SettingsStep, PTL DEF Spec

\* The guards of the worker, its batches and the limit refuse nothing that was
\* accepted but a batch_size that is too large, and that always; and some scores are
\* reviewed and some blocked, whatever the file, the environment and the defaults say
\* (config.Load, validateConfig, App.Run, normalizeWebhookRetryLimit).
THEOREM SettingsAreUsable == Spec => []UsableButForBatchSize
<1>1. SettingsInv => UsableButForBatchSize
  <2> SUFFICES ASSUME SettingsInv, settings # Unset
               PROVE  /\ worker = settings.enabled
                      /\ worker => settings.interval >= Second
                      /\ lastBatch # "none" =>
                           (lastBatch = "refused") = (settings.batch > MaxBatch)
                      /\ Limits(settings) => settings.window \div Second >= 1
                      /\ {"review", "block"} \subseteq
                           {Decide([review |-> settings.review, block |-> settings.block], score) :
                              score \in 0..Top}
    BY DEF UsableButForBatchSize
  <2> DEFINE s == settings
  <2>1. /\ s.enabled \in BOOLEAN /\ s.review \in Int /\ s.block \in Int /\ s.limit \in Int
        /\ s.window \in Int /\ s.interval \in Int /\ s.batch \in Int /\ s.attempts \in Int
        /\ Second \in Nat \ {0} /\ MaxBatch \in Nat \ {0} /\ Top \in Nat
    BY Fields, SettingsAssumption, RulesAssumption DEF SettingsInv, Sound
  <2>2. /\ ValidSettings(s) /\ (worker <=> StartsWorker(s)) /\ worker \in BOOLEAN
        /\ s.review \in 0..Top /\ s.block \in 0..Top /\ s.review < s.block
        /\ lastBatch # "none" => worker /\ (lastBatch = "refused" <=> Refuses(s))
    BY DEF SettingsInv, Sound, ValidPolicy, ValidScore
  <2> HIDE DEF s
  <2>3. s.enabled => s.interval >= Second /\ s.batch > 0 /\ s.attempts > 1
    BY <2>1, <2>2 DEF ValidSettings, ValidDuration
  <2>4. (worker <=> s.enabled) /\ (worker => s.interval >= Second)
    BY <2>1, <2>2, <2>3 DEF StartsWorker
  <2>5. s.window > 0 => s.window \div Second >= 1
    <3>1. s.window > 0 => s.window >= Second
      BY <2>1, <2>2 DEF ValidSettings, ValidDuration
    <3>2. ASSUME NEW w \in Int, w >= Second PROVE w \div Second >= 1
      BY <2>1, <3>2
    <3> QED BY <2>1, <3>1, <3>2
  <2>6. /\ Decide([review |-> s.review, block |-> s.block], s.review) = "review"
        /\ Decide([review |-> s.review, block |-> s.block], s.block) = "block"
    BY <2>1, <2>2 DEF Decide
  <2>7. s.enabled => (Refuses(s) <=> s.batch > MaxBatch)
    BY <2>1, <2>3 DEF Refuses
  <2>8. lastBatch # "none" => (lastBatch = "refused") = (s.batch > MaxBatch)
    BY <2>2, <2>4, <2>7
  <2> QED BY <2>1, <2>2, <2>4, <2>5, <2>6, <2>8 DEF Limits, s
<1> QED BY <1>1, SettingsInvariance, PTL

-----------------------------------------------------------------------------
(***************************************************************************)
(* Labels.  What the loop of normalizeLabels has after each turn is shown   *)
(* by taking the first turn at which it would not hold.                     *)
(***************************************************************************)

\* Among natural numbers there is a least one.
LEMMA LeastOne ==
  ASSUME NEW S \in SUBSET Nat, S # {}
  PROVE  \E n \in S : \A k \in S : n <= k
<1> DEFINE R == OpToRel(<, Nat)
<1>1. IsWellFoundedOn(R, Nat)
  BY NatLessThanWellFounded
<1>2. \A x, y \in Nat : x < y => <<x, y>> \in R
  BY DEF OpToRel
<1> HIDE DEF R
<1>3. PICK n \in S : \A k \in S : <<k, n>> \notin R
  BY <1>1, WFMin
<1>4. ASSUME NEW k \in S PROVE n <= k
  <2>1. ~(k < n)
    BY <1>2, <1>3
  <2> QED BY <2>1
<1> QED BY <1>4

\* The lists after each turn of the loop over the first m labels.
Turns(labels, m, list) ==
  list = [n \in 0..m |-> IF n = 0 THEN <<>> ELSE P!AddLabel(list[n - 1], Canon[labels[n]])]

\* The loop runs to its end.
LEMMA LoopRuns ==
  ASSUME NEW labels, NEW m \in Nat
  PROVE  \E list : Turns(labels, m, list)
<1> DEFINE Stuck == {k \in Nat : ~ \E list : Turns(labels, k, list)}
<1> SUFFICES ASSUME Stuck # {} PROVE FALSE
  OBVIOUS
<1>1. PICK k \in Stuck : \A j \in Stuck : k <= j
  BY LeastOne
<1>2. CASE k = 0
  <2> DEFINE list == [n \in 0..0 |-> <<>>]
  <2>1. \A n \in 0..0 : n = 0
    OBVIOUS
  <2>2. Turns(labels, 0, list)
    BY <2>1 DEF Turns
  <2> QED BY <1>2, <2>2
<1>3. CASE k # 0
  <2>1. k - 1 \in Nat /\ k - 1 \notin Stuck /\ k \in Nat
    BY <1>1, <1>3
  <2>2. PICK before : Turns(labels, k - 1, before)
    BY <2>1
  <2> DEFINE list == [n \in 0..k |-> IF n = k THEN P!AddLabel(before[k - 1], Canon[labels[k]])
                                     ELSE before[n]]
  <2>3. ASSUME NEW n \in 0..k
        PROVE  list[n] = IF n = 0 THEN <<>> ELSE P!AddLabel(list[n - 1], Canon[labels[n]])
    <3>1. CASE n = k
      BY <1>3, <2>1, <3>1
    <3>2. CASE n # k
      <4>1. n \in 0..(k - 1) /\ list[n] = before[n]
        BY <2>1, <3>2
      <4>2. n # 0 => list[n - 1] = before[n - 1]
        BY <2>1, <4>1
      <4>3. before[n] = IF n = 0 THEN <<>> ELSE P!AddLabel(before[n - 1], Canon[labels[n]])
        BY <2>2, <4>1 DEF Turns
      <4> HIDE DEF list
      <4> QED BY <4>1, <4>2, <4>3
    <3> QED BY <3>1, <3>2
  <2>4. Turns(labels, k, list)
    <3>1. list = [n \in 0..k |-> list[n]]
      OBVIOUS
    <3> HIDE DEF list
    <3> QED BY <2>3, <3>1 DEF Turns
  <2> QED BY <2>4
<1> QED BY <1>1, <1>2, <1>3

\* What a list is to be after the first n labels.
NormalizedSoFar(list, labels, n) ==
  /\ list \in Seq({Canon[w] : w \in DOMAIN Canon})
  /\ P!ToSet(list) = {Canon[labels[k]] : k \in 1..n}
  /\ \A i, j \in DOMAIN list : list[i] = list[j] => i = j
  /\ \A i, j \in DOMAIN list : i < j =>
       \E k \in 1..n :
         Canon[labels[k]] = list[i] /\ \A l \in 1..k : Canon[labels[l]] # list[j]

\* A turn adds what is new to the end.
LEMMA TurnNormalizes ==
  ASSUME NEW labels \in Seq(DOMAIN Canon), NEW n \in Nat, n < Len(labels),
         NEW list, NormalizedSoFar(list, labels, n)
  PROVE  NormalizedSoFar(P!AddLabel(list, Canon[labels[n + 1]]), labels, n + 1)
<1> DEFINE label == Canon[labels[n + 1]]
           Stored == {Canon[w] : w \in DOMAIN Canon}
<1>1. n + 1 \in DOMAIN labels /\ labels[n + 1] \in DOMAIN Canon /\ label \in Stored
  OBVIOUS
<1>2. 1..(n + 1) = (1..n) \cup {n + 1}
  OBVIOUS
<1>3. {Canon[labels[k]] : k \in 1..(n + 1)} = {Canon[labels[k]] : k \in 1..n} \cup {label}
  BY <1>2
<1>4. P!ToSet(list) = {list[i] : i \in DOMAIN list}
  BY DEF P!ToSet
<1>5. /\ list \in Seq(Stored) /\ DOMAIN list = 1..Len(list) /\ Len(list) \in Nat
      /\ \A i, j \in DOMAIN list : list[i] = list[j] => i = j
      /\ \A i, j \in DOMAIN list : i < j =>
           \E k \in 1..n :
             Canon[labels[k]] = list[i] /\ \A l \in 1..k : Canon[labels[l]] # list[j]
  <2>1. list \in Seq(Stored)
    BY DEF NormalizedSoFar
  <2> HIDE DEF Stored
  <2>2. DOMAIN list = 1..Len(list) /\ Len(list) \in Nat
    BY <2>1
  <2> QED BY <2>1, <2>2 DEF NormalizedSoFar
<1>6. P!ToSet(list) = {Canon[labels[k]] : k \in 1..n}
  BY DEF NormalizedSoFar
<1>7. \A i \in DOMAIN list : \E k \in 1..n : Canon[labels[k]] = list[i]
  <2>1. \A i \in DOMAIN list : list[i] \in {Canon[labels[k]] : k \in 1..n}
    BY <1>4, <1>6
  <2> QED BY <2>1
<1>8. CASE label \in P!ToSet(list)
  <2>1. P!AddLabel(list, label) = list
    BY <1>8 DEF P!AddLabel
  <2>2. P!ToSet(list) = {Canon[labels[k]] : k \in 1..(n + 1)}
    BY <1>3, <1>8, <1>6
  <2> HIDE DEF label
  <2>3. ASSUME NEW i \in DOMAIN list, NEW j \in DOMAIN list, i < j
        PROVE  \E k \in 1..(n + 1) :
                 Canon[labels[k]] = list[i] /\ \A l \in 1..k : Canon[labels[l]] # list[j]
    <3>1. PICK k \in 1..n : Canon[labels[k]] = list[i] /\ \A l \in 1..k : Canon[labels[l]] # list[j]
      BY <1>5, <2>3
    <3>2. k \in 1..(n + 1)
      BY <1>2
    <3> QED BY <3>1, <3>2
  <2>4. NormalizedSoFar(list, labels, n + 1)
    BY <1>5, <2>2, <2>3 DEF NormalizedSoFar
  <2> QED BY <2>1, <2>4 DEF label
<1>9. CASE label \notin P!ToSet(list)
  <2> DEFINE longer == Append(list, label)
  <2>1. P!AddLabel(list, label) = longer
    BY <1>9 DEF P!AddLabel
  <2> HIDE DEF label, Stored
  <2>2. /\ longer \in Seq(Stored) /\ DOMAIN longer = 1..(Len(list) + 1)
        /\ longer[Len(list) + 1] = label
        /\ \A i \in DOMAIN list : longer[i] = list[i] /\ list[i] # label
    BY <1>1, <1>4, <1>5, <1>9
  <2> HIDE DEF longer
  <2>3. DOMAIN longer = DOMAIN list \cup {Len(list) + 1}
    BY <1>5, <2>2
  <2>4. P!ToSet(longer) = {Canon[labels[k]] : k \in 1..(n + 1)}
    <3>1. P!ToSet(longer) = {longer[i] : i \in DOMAIN longer}
      BY DEF P!ToSet
    <3>2. {longer[i] : i \in DOMAIN longer} = {list[i] : i \in DOMAIN list} \cup {label}
      BY <2>2, <2>3
    <3> QED BY <1>3, <1>4, <1>6, <3>1, <3>2
  <2>5. \A i, j \in DOMAIN longer : longer[i] = longer[j] => i = j
    BY <1>5, <2>2, <2>3
  <2>6. ASSUME NEW i \in DOMAIN longer, NEW j \in DOMAIN longer, i < j
        PROVE  \E k \in 1..(n + 1) :
                 Canon[labels[k]] = longer[i] /\ \A l \in 1..k : Canon[labels[l]] # longer[j]
    <3>1. i \in DOMAIN list /\ longer[i] = list[i]
      BY <1>5, <2>2, <2>6
    <3>2. CASE j \in DOMAIN list
      <4>1. PICK k \in 1..n : Canon[labels[k]] = list[i] /\ \A l \in 1..k : Canon[labels[l]] # list[j]
        BY <1>5, <2>6, <3>1, <3>2
      <4>2. k \in 1..(n + 1) /\ longer[j] = list[j]
        BY <1>2, <2>2, <3>2
      <4> QED BY <3>1, <4>1, <4>2
    <3>3. CASE j = Len(list) + 1
      <4>1. PICK k \in 1..n : Canon[labels[k]] = list[i]
        BY <1>7, <3>1
      <4>2. ASSUME NEW l \in 1..k PROVE Canon[labels[l]] # label
        <5>1. l \in 1..n
          OBVIOUS
        <5>2. Canon[labels[l]] \in P!ToSet(list)
          BY <1>6, <5>1
        <5> QED BY <1>9, <5>2
      <4>3. k \in 1..(n + 1)
        BY <1>2
      <4> QED BY <2>2, <3>1, <3>3, <4>1, <4>2, <4>3
    <3> QED BY <2>3, <3>2, <3>3
  <2>7. NormalizedSoFar(longer, labels, n + 1)
    BY <2>2, <2>4, <2>5, <2>6 DEF NormalizedSoFar, Stored
  <2> QED BY <2>1, <2>7 DEF label
<1> QED BY <1>8, <1>9

\* normalizeLabels keeps each label once, where it came first, however many there are.
LEMMA LabelsAreNormalized ==
  ASSUME NEW labels \in Seq(DOMAIN Canon)
  PROVE  P!IsNormalized(P!NormalizeLabels(labels), labels)
<1> DEFINE m == Len(labels)
           list == CHOOSE f : Turns(labels, m, f)
           Wrong == {n \in 0..m : ~NormalizedSoFar(list[n], labels, n)}
<1>1. m \in Nat /\ DOMAIN labels = 1..m /\ \A k \in 1..m : labels[k] \in DOMAIN Canon
  OBVIOUS
<1>2. Turns(labels, m, list)
  BY <1>1, LoopRuns
<1>3. P!NormalizeLabels(labels) = list[m]
  BY DEF P!NormalizeLabels, Turns
<1> HIDE DEF list, m
<1>4. \A n \in 0..m : list[n] = IF n = 0 THEN <<>> ELSE P!AddLabel(list[n - 1], Canon[labels[n]])
  BY <1>2 DEF Turns
<1>5. Wrong = {}
  <2> SUFFICES ASSUME Wrong # {} PROVE FALSE
    OBVIOUS
  <2>1. PICK n \in Wrong : \A k \in Wrong : n <= k
    <3>1. Wrong \in SUBSET Nat
      BY <1>1
    <3> HIDE DEF Wrong
    <3> QED BY <3>1, LeastOne
  <2>2. CASE n = 0
    <3>1. NormalizedSoFar(<<>>, labels, 0)
      BY DEF NormalizedSoFar, P!ToSet
    <3> QED BY <1>1, <1>4, <2>2, <3>1
  <2>3. CASE n # 0
    <3>1. n - 1 \in Nat /\ n - 1 \in 0..m /\ n - 1 < m /\ (n - 1) + 1 = n
      BY <1>1, <2>3
    <3>2. NormalizedSoFar(list[n - 1], labels, n - 1)
      BY <2>1, <3>1
    <3>3. NormalizedSoFar(P!AddLabel(list[n - 1], Canon[labels[(n - 1) + 1]]), labels, (n - 1) + 1)
      BY <3>1, <3>2, TurnNormalizes DEF m
    <3> QED BY <1>4, <2>3, <3>1, <3>3
  <2> QED BY <2>2, <2>3
<1>6. NormalizedSoFar(list[m], labels, m)
  BY <1>1, <1>5
<1> HIDE DEF Wrong
<1>7. P!ToSet(labels) = {labels[k] : k \in 1..m}
  BY <1>1 DEF P!ToSet
<1> QED BY <1>1, <1>3, <1>6, <1>7 DEF NormalizedSoFar, P!IsNormalized, P!IsInjective

-----------------------------------------------------------------------------
(***************************************************************************)
(* Policies.                                                                *)
(***************************************************************************)

\* A set of policies as NewPolicySet makes them: valid ones of different versions.
Good(set) ==
  /\ set.default \in set.known
  /\ \A p \in set.known : p \in P!Configured /\ P!ValidPolicy(p)
  /\ \A p, q \in set.known : p.version = q.version => p = q

\* A check that runs has a policy of the set in force, and so had a result of this
\* process, which decided it.
Decided(entry, set) ==
  \E p \in set.known :
    /\ entry.version = p.version /\ entry.score \in 0..Top
    /\ entry.decision = P!Decide(p, entry.score)

\* A stored result has the labels of its answer.
Labelled(entry) == P!IsNormalized(entry.labels, entry.raw.labels)

PolicyInv ==
  /\ P!Running => Good(policies)
  /\ \A c \in vetted : P!Running /\ P!Resolves(policies, assigned[c])
  /\ vetted \subseteq Clients /\ DOMAIN assigned = Clients
  /\ DOMAIN check = P!Callers /\ DOMAIN result = P!Callers
  /\ \A c \in P!Callers : check[c] # Nothing => P!Running /\ check[c] \in policies.known
  /\ \A c \in P!Callers : result[c] # Nothing /\ result[c].ours =>
       P!Running /\ Decided(result[c], policies) /\ Labelled(result[c])

\* What a process may be started with makes such a set.
LEMMA SetsAreGood ==
  ASSUME NEW config \in Configs, P!ValidPolicySet(config.default, config.extras)
  PROVE  Good(P!NewPolicySet(config.default, config.extras))
<1> DEFINE extras == config.extras
           set == P!NewPolicySet(config.default, extras)
<1>1. /\ config.default \in P!Configured /\ extras \in Seq(P!Configured)
      /\ DOMAIN extras = 1..Len(extras) /\ Len(extras) \in Nat
      /\ \A i \in DOMAIN extras : extras[i] \in P!Configured
  BY PoliciesAssumption DEF P!PolicyAssumption
<1>2. /\ set.default = config.default /\ set.known = {config.default} \cup {extras[i] : i \in DOMAIN extras}
  BY DEF P!NewPolicySet, P!ToSet
<1>3. /\ P!ValidPolicy(config.default)
      /\ \A i \in DOMAIN extras :
           /\ P!ValidPolicy(extras[i]) /\ extras[i].version # config.default.version
           /\ \A j \in 1..(i - 1) : extras[i].version # extras[j].version
  BY DEF P!ValidPolicySet
<1> HIDE DEF extras, set
<1>4. \A i, j \in DOMAIN extras : extras[i].version = extras[j].version => i = j
  <2> SUFFICES ASSUME NEW i \in DOMAIN extras, NEW j \in DOMAIN extras, i < j
               PROVE  extras[i].version # extras[j].version
    BY <1>1
  <2>1. i \in 1..(j - 1)
    BY <1>1
  <2> QED BY <1>3, <2>1
<1>5. \A p, q \in set.known : p.version = q.version => p = q
  BY <1>2, <1>3, <1>4
<1>6. set.default \in set.known /\ \A p \in set.known : p \in P!Configured /\ P!ValidPolicy(p)
  BY <1>1, <1>2, <1>3
<1> QED BY <1>5, <1>6 DEF Good, set, extras

\* A policy found for a version is a known one of that version, or the default.
LEMMA FoundIsKnown ==
  ASSUME Good(policies), NEW version, P!Resolves(policies, version)
  PROVE  P!PolicyForVersion(policies, version) \in policies.known
<1>1. CASE version = Blank
  BY <1>1 DEF Good, P!PolicyForVersion
<1>2. CASE version # Blank
  <2>1. \E p \in policies.known : p.version = version
    BY <1>2 DEF P!Resolves
  <2> QED BY <1>2, <2>1 DEF P!PolicyForVersion
<1> QED BY <1>1, <1>2

LEMMA PolicyInit == P!Init => PolicyInv
BY DEF P!Init, PolicyInv, P!Running

LEMMA PolicyStep == PolicyInv /\ [P!Next]_(P!vars) => PolicyInv'
<1> SUFFICES ASSUME PolicyInv, [P!Next]_(P!vars) PROVE PolicyInv'
  OBVIOUS
<1> USE DEF PolicyInv, P!Running
<1>1. ASSUME NEW config \in Configs, P!Start(config) PROVE PolicyInv'
  <2>1. /\ policies = Nothing /\ vetted = {} /\ UNCHANGED <<assigned, vetted, check, result>>
        /\ policies' = P!NewPolicySet(config.default, config.extras)
        /\ P!ValidPolicySet(config.default, config.extras)
    BY <1>1 DEF P!Start
  <2>2. Good(policies')
    BY <2>1, SetsAreGood
  <2>3. \A c \in P!Callers : check[c] = Nothing /\ (result[c] # Nothing => ~result[c].ours)
    BY <2>1
  <2> QED BY <2>1, <2>2, <2>3
<1>2. CASE P!Stop
  <2>1. \A c \in P!Callers : result'[c] # Nothing => ~result'[c].ours
    BY <1>2 DEF P!Stop
  <2> QED BY <1>2, <2>1 DEF P!Stop
<1>3. ASSUME NEW c \in Clients, NEW version \in Versions \cup {Blank}, P!Assign(c, version)
      PROVE  PolicyInv'
  <2>1. /\ policies # Nothing /\ P!Resolves(policies, version)
        /\ assigned' = [assigned EXCEPT ![c] = version] /\ vetted' = vetted \cup {c}
        /\ UNCHANGED <<policies, check, result>>
    BY <1>3 DEF P!Assign, P!Assignable
  <2>2. \A d \in vetted' : P!Resolves(policies, assigned'[d])
    BY <2>1
  <2> QED BY <2>1, <2>2 DEF P!Resolves
<1>4. ASSUME NEW c \in P!Callers, P!Begin(c) PROVE PolicyInv'
  <2>1. /\ policies # Nothing /\ P!Resolves(policies, P!VersionOf(c))
        /\ check' = [check EXCEPT ![c] = P!PolicyForVersion(policies, P!VersionOf(c))]
        /\ UNCHANGED <<policies, assigned, vetted, result>>
    BY <1>4 DEF P!Begin
  <2>2. P!PolicyForVersion(policies, P!VersionOf(c)) \in policies.known
    BY <2>1, FoundIsKnown
  <2>3. \A d \in P!Callers : check'[d] # Nothing => check'[d] \in policies.known
    BY <2>1, <2>2
  <2> QED BY <2>1, <2>3 DEF P!Resolves
<1>5. ASSUME NEW c \in P!Callers, NEW raw \in Answers, P!Answer(c, raw) PROVE PolicyInv'
  <2> DEFINE entry == [raw |-> raw, score |-> raw.score, labels |-> P!NormalizeLabels(raw.labels),
                       decision |-> P!Decide(check[c], raw.score), version |-> P!Named(c),
                       ours |-> TRUE]
  <2>1. /\ check[c] # Nothing /\ check' = [check EXCEPT ![c] = Nothing]
        /\ UNCHANGED <<policies, assigned, vetted>>
        /\ result' = IF P!Parses(raw) /\ P!Named(c) \notin TooLong
                     THEN [result EXCEPT ![c] = entry] ELSE result
    BY <1>5 DEF P!Answer
  <2>2. /\ entry.score = raw.score /\ entry.decision = P!Decide(check[c], raw.score)
        /\ entry.version = P!Named(c)
        /\ entry.labels = P!NormalizeLabels(raw.labels) /\ entry.raw = raw
    OBVIOUS
  <2> HIDE DEF entry
  <2>3. policies # Nothing /\ check[c] \in policies.known
    BY <2>1
  <2>4. P!Parses(raw) => Decided(entry, policies)
    BY <2>2, <2>3 DEF Decided, P!Parses, P!ValidScore, P!Named
  <2>5. Labelled(entry)
    BY <2>2, LabelsAreNormalized, PoliciesAssumption DEF P!PolicyAssumption, Labelled
  <2>6. \A d \in P!Callers : result'[d] # Nothing /\ result'[d].ours =>
          Decided(result'[d], policies) /\ Labelled(result'[d])
    BY <2>1, <2>4, <2>5
  <2>7. \A d \in P!Callers : check'[d] # Nothing => check'[d] \in policies.known
    BY <2>1
  <2> QED BY <2>1, <2>3, <2>6, <2>7 DEF P!Resolves
<1>6. CASE UNCHANGED P!vars
  BY <1>6 DEF P!vars, P!Resolves
<1> QED BY <1>1, <1>2, <1>3, <1>4, <1>5, <1>6 DEF P!Next

LEMMA PolicyInvariance == P!Spec => []PolicyInv
BY PolicyInit, PolicyStep, PTL DEF P!Spec

\* A version the process has taken for a client resolves at every later check, until
\* the process ends: only a restart with other policies makes a stored version
\* unknown (validatePolicyVersionInput, policyForCheck).
THEOREM VettedVersionsStay == P!Spec => []VettedVersionsResolve
<1>1. PolicyInv => VettedVersionsResolve
  BY DEF PolicyInv, VettedVersionsResolve, P!VettedVersionsResolve
<1> QED BY <1>1, PolicyInvariance, PTL

\* Every decision a process stored is explained by the one policy it lists under the
\* stored version, for any configurations, assignments and answers, and although the
\* policy was resolved before the provider was asked (Policy.Decide, NewPolicySet).
THEOREM DecisionsFollowPolicies == P!Spec => []P!DecisionsAreExplained
<1>1. PolicyInv => P!DecisionsAreExplained
  <2> SUFFICES ASSUME PolicyInv, NEW c \in P!Callers, result[c] # Nothing, result[c].ours
               PROVE  \E p \in policies.known :
                        /\ {q \in policies.known : q.version = result[c].version} = {p}
                        /\ (result[c].decision = "allow") = (result[c].score \in 0..(p.review - 1))
                        /\ (result[c].decision = "block") = (result[c].score \in p.block..Top)
    BY DEF P!DecisionsAreExplained
  <2>1. Good(policies) /\ Decided(result[c], policies)
    BY DEF PolicyInv
  <2>2. PICK p \in policies.known :
          /\ result[c].version = p.version /\ result[c].score \in 0..Top
          /\ result[c].decision = P!Decide(p, result[c].score)
    BY <2>1 DEF Decided
  <2>3. {q \in policies.known : q.version = result[c].version} = {p}
    BY <2>1, <2>2 DEF Good
  <2>4. /\ p.review \in 0..Top /\ p.block \in 0..Top /\ p.review < p.block /\ Top \in Nat
    BY <2>1, <2>2, RulesAssumption DEF Good, P!ValidPolicy, P!ValidScore
  <2> DEFINE score == result[c].score
  <2>5. /\ (P!Decide(p, score) = "allow") <=> score \in 0..(p.review - 1)
        /\ (P!Decide(p, score) = "block") <=> score \in p.block..Top
    <3> HIDE DEF score
    <3>1. ASSUME NEW n \in 0..Top
          PROVE  /\ (P!Decide(p, n) = "allow") <=> n \in 0..(p.review - 1)
                 /\ (P!Decide(p, n) = "block") <=> n \in p.block..Top
      BY <2>4 DEF P!Decide
    <3> QED BY <2>2, <3>1 DEF score
  <2> QED BY <2>2, <2>3, <2>5
<1> QED BY <1>1, PolicyInvariance, PTL

\* And every result carries the labels of its answer, each once, in the order in which
\* they were first written: with any number of labels (normalizeLabels).
THEOREM ResultsFollowPolicies == P!Spec => []ResultsAreExplained
<1>1. PolicyInv => \A c \in P!Callers : result[c] # Nothing /\ result[c].ours =>
                     P!IsNormalized(result[c].labels, result[c].raw.labels)
  BY DEF PolicyInv, Labelled
<1>2. P!DecisionsAreExplained /\ (\A c \in P!Callers : result[c] # Nothing /\ result[c].ours =>
                                   P!IsNormalized(result[c].labels, result[c].raw.labels))
        => ResultsAreExplained
  BY DEF ResultsAreExplained, P!ResultsAreExplained
<1> QED BY <1>1, <1>2, PolicyInvariance, DecisionsFollowPolicies, PTL

\* A process does what both say.
THEOREM EitherConcern == EitherSpec => Spec /\ P!Spec
<1>1. EitherInit => Init /\ P!Init
  BY DEF EitherInit
<1>2. [EitherNext]_<<concern, vars, policyVars>> => [Next]_vars /\ [P!Next]_(P!vars)
  BY DEF EitherNext, policyVars, P!vars
<1> QED BY <1>1, <1>2, PTL DEF EitherSpec, Spec, P!Spec

\* So all of it holds of a process (App.Run).
COROLLARY ProcessHolds ==
  EitherSpec => [](UsableButForBatchSize /\ VettedVersionsResolve /\ ResultsAreExplained)
BY EitherConcern, SettingsAreUsable, VettedVersionsStay, ResultsFollowPolicies, PTL
=============================================================================
