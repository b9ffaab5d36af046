----------------------------- MODULE PolicyRules -----------------------------
(***************************************************************************)
(* The rules a check is decided by: policies and sets of them               *)
(* (moderation/policy.go) and what is accepted as a provider's answer       *)
(* (moderation/parser.go).  Risk scores and thresholds are whole numbers of *)
(* which 0..Top are valid; Top stands for 1.0.                              *)
(***************************************************************************)
EXTENDS Integers, Sequences, FiniteSets, SequencesExt

CONSTANTS
  Top,      \* the score 1.0
  Blank,    \* a version, a label or a reason that is blank
  Missing,  \* a field the answer does not have
  Labels,   \* supported labels, as they are stored
  Canon     \* what a label becomes when it is trimmed and put in lower case

ASSUME RulesAssumption == Top \in Nat \ {0} /\ Blank \notin Labels

-----------------------------------------------------------------------------
(***************************************************************************)
(* Policies.                                                                *)
(***************************************************************************)

ValidScore(score) == score \in 0..Top

\* Policy.Validate.
ValidPolicy(p) ==
  /\ p.version # Blank
  /\ ValidScore(p.review) /\ ValidScore(p.block)
  /\ p.review < p.block

\* NewPolicySet takes valid policies of different versions.
ValidPolicySet(default, extras) ==
  /\ ValidPolicy(default)
  /\ \A i \in DOMAIN extras :
       /\ ValidPolicy(extras[i])
       /\ extras[i].version # default.version
       /\ \A j \in 1..(i - 1) : extras[i].version # extras[j].version

NewPolicySet(default, extras) == [default |-> default, known |-> {default} \cup ToSet(extras)]

\* PolicyForVersion: whether a version resolves, and to what.
Resolves(policies, version) ==
  version = Blank \/ \E p \in policies.known : p.version = version

PolicyForVersion(policies, version) ==
  IF version = Blank THEN policies.default
  ELSE CHOOSE p \in policies.known : p.version = version

\* Policy.Decide, for a valid score.
Decide(p, score) ==
  CASE score >= p.block -> "block"
    [] score >= p.review /\ score < p.block -> "review"
    [] OTHER -> "allow"

-----------------------------------------------------------------------------
(***************************************************************************)
(* Answers of the provider.                                                 *)
(***************************************************************************)

\* ParseProviderSuggestion takes one JSON object with the fields it knows.
Parses(raw) ==
  /\ raw.form = "object"
  /\ raw.score # Missing /\ ValidScore(raw.score)
  /\ raw.reason \notin {Missing, Blank}
  /\ raw.labels # <<>>
  /\ \A i \in DOMAIN raw.labels : Canon[raw.labels[i]] \in Labels

\* One turn of the loop of normalizeLabels: `seen` holds what is in the list.
AddLabel(normalized, label) ==
  IF label \in ToSet(normalized) THEN normalized ELSE Append(normalized, label)

\* normalizeLabels, of labels that are accepted: the list after each turn, and at the end.
NormalizeLabels(labels) ==
  LET normalized[n \in 0..Len(labels)] ==
        IF n = 0 THEN <<>> ELSE AddLabel(normalized[n - 1], Canon[labels[n]])
  IN  normalized[Len(labels)]

\* What the labels of an answer are to become, said without going through them.
IsNormalized(labels, written) ==
  /\ ToSet(labels) = {Canon[w] : w \in ToSet(written)}
  /\ IsInjective(labels)
  /\ \A i, j \in DOMAIN labels : i < j =>
       \E k \in DOMAIN written :
         /\ Canon[written[k]] = labels[i]
         /\ \A l \in 1..k : Canon[written[l]] # labels[j]
=============================================================================
