--------------------------- MODULE ClientPolicies ---------------------------
(***************************************************************************)
(* Which policy decides a check.  The policies are those of the            *)
(* configuration the process was started with; a client is assigned a       *)
(* version, which is stored and resolved again at every check; and the      *)
(* decision is made when the provider has answered, by the policy resolved  *)
(* before it was asked.  Assignments outlive the process, so a version may  *)
(* be unknown, or mean something else, to the next one.                     *)
(*                                                                          *)
(* The saving of a result, its webhook and its idempotency are the subject  *)
(* of ModerationFlow; here a result is stored unless the column cannot hold *)
(* its policy version.                                                      *)
(***************************************************************************)
EXTENDS PolicyRules

CONSTANTS
  Clients,   \* client applications
  Operator,  \* a caller who is no client and is decided by the default policy
  Versions,  \* policy versions
  TooLong,   \* those longer than 50 characters
  Configs,   \* policy configurations the process may be started with
  Answers,   \* answers of the provider
  Nothing    \* no policies in force, no client, no check or no result

\* Policies as they may be configured.
Configured == [version : Versions \cup {Blank}, review : Int, block : Int]

PolicyAssumption ==
  /\ Configs \subseteq [default : Configured, extras : Seq(Configured)]
  /\ \A raw \in Answers : raw.labels \in Seq(DOMAIN Canon)
  /\ TooLong \subseteq Versions /\ Blank \notin Versions
  /\ Operator \notin Clients

VARIABLES
  policies,  \* the policy set in force, Nothing while the process is down
  assigned,  \* the version stored for each client
  vetted,    \* history: clients whose version this process has validated
  check,     \* each caller's running check: the policy resolved for it
  result     \* each caller's last stored result

vars == <<policies, assigned, vetted, check, result>>

Callers == Clients \cup {Operator}
Running == policies # Nothing

Init ==
  /\ policies = Nothing
  /\ assigned = [c \in Clients |-> Nothing]
  /\ vetted = {}
  /\ check = [c \in Callers |-> Nothing]
  /\ result = [c \in Callers |-> Nothing]

\* The process starts with a configuration, if its policies are valid.
Start(config) ==
  /\ ~Running
  /\ ValidPolicySet(config.default, config.extras)
  /\ policies' = NewPolicySet(config.default, config.extras)
  /\ UNCHANGED <<assigned, vetted, check, result>>

\* The process stops, with its checks.
Stop ==
  /\ Running
  /\ policies' = Nothing
  /\ vetted' = {}
  /\ check' = [c \in Callers |-> Nothing]
  /\ result' = [c \in Callers |-> IF result[c] = Nothing THEN Nothing
                                  ELSE [result[c] EXCEPT !.ours = FALSE]]
  /\ UNCHANGED assigned

\* Mutant of Assignable: the policy set is not asked.
AssignableUnseen(version) == version \notin TooLong

\* validatePolicyVersionInput, ValidatePolicyVersion.
Assignable(version) == version \notin TooLong /\ Resolves(policies, version)

\* CreateClient and UpdateClientPolicyVersion store a version.
Assign(c, version) ==
  /\ Running /\ Assignable(version)
  /\ assigned' = [assigned EXCEPT ![c] = version]
  /\ vetted' = vetted \cup {c}
  /\ UNCHANGED <<policies, check, result>>

\* The version a check of c is made under.
VersionOf(c) == IF c = Operator THEN Blank ELSE assigned[c]

\* policyForCheck resolves the version, before the provider is asked.  A version
\* that is not known ends the check in an error.
Begin(c) ==
  /\ Running /\ check[c] = Nothing /\ VersionOf(c) # Nothing
  /\ Resolves(policies, VersionOf(c))
  /\ check' = [check EXCEPT ![c] = PolicyForVersion(policies, VersionOf(c))]
  /\ UNCHANGED <<policies, assigned, vetted, result>>

\* Mutant of Named: the version assigned to the client, blank or not.
NamedAsAssigned(c) == VersionOf(c)

\* The version a result is stored with: that of the policy that decided.
Named(c) == check[c].version

\* The provider answers: what does not parse is an error, and so is a result
\* the table cannot hold; the rest is decided and stored.
Answer(c, raw) ==
  /\ check[c] # Nothing
  /\ check' = [check EXCEPT ![c] = Nothing]
  /\ result' = IF Parses(raw) /\ Named(c) \notin TooLong
               THEN [result EXCEPT ![c] =
                       [raw |-> raw, score |-> raw.score, labels |-> NormalizeLabels(raw.labels),
                        decision |-> Decide(check[c], raw.score), version |-> Named(c),
                        ours |-> TRUE]]
               ELSE result
  /\ UNCHANGED <<policies, assigned, vetted>>

Next ==
  \/ \E config \in Configs : Start(config)
  \/ Stop
  \/ \E c \in Clients, version \in Versions \cup {Blank} : Assign(c, version)
  \/ \E c \in Callers : Begin(c) \/ \E raw \in Answers : Answer(c, raw)

Spec == Init /\ [][Next]_vars

-----------------------------------------------------------------------------
(***************************************************************************)
(* Properties.                                                              *)
(***************************************************************************)

\* What an operator reads in the list of policies (PolicySet.List) explains
\* every decision this process stored: the version is in the list, once, and the
\* decision is where the score stands to its thresholds.
DecisionsAreExplained ==
  \A c \in Callers :
    result[c] # Nothing /\ result[c].ours =>
      \E p \in policies.known :
        /\ {q \in policies.known : q.version = result[c].version} = {p}
        /\ (result[c].decision = "allow") = (result[c].score \in 0..(p.review - 1))
        /\ (result[c].decision = "block") = (result[c].score \in p.block..Top)

\* And the labels stored with it are the answer's, normalized.
ResultsAreExplained ==
  /\ DecisionsAreExplained
  /\ \A c \in Callers : result[c] # Nothing /\ result[c].ours =>
       IsNormalized(result[c].labels, result[c].raw.labels)

\* A version that this process has taken for a client is one it can check with,
\* until another is assigned: only a restart makes a stored version unknown.
VettedVersionsResolve == \A c \in vetted : Running /\ Resolves(policies, assigned[c])
=============================================================================
