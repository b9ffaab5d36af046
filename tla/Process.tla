------------------------------ MODULE Process -------------------------------
(***************************************************************************)
(* A moderation process: the settings it accepts (Configuration) and what   *)
(* it does with the policies it was started with (ClientPolicies).  Once    *)
(* started, it does not look at its sources again, and ClientPolicies       *)
(* starts it with any policies, also with some it refuses; so each          *)
(* behaviour is of either.                                                  *)
(***************************************************************************)
EXTENDS Configuration

CONSTANTS Clients, Operator, Versions, TooLong, Configs, Answers, Nothing  \* of ClientPolicies

VARIABLES
  concern,                                       \* "settings" or "policies"
  policies, assigned, vetted, check, result      \* of ClientPolicies

P == INSTANCE ClientPolicies
ASSUME PoliciesAssumption == P!PolicyAssumption

policyVars == <<policies, assigned, vetted, check, result>>

EitherInit == concern \in {"settings", "policies"} /\ Init /\ P!Init

EitherNext ==
  /\ UNCHANGED concern
  /\ \/ concern = "settings" /\ Next /\ UNCHANGED policyVars
     \/ concern = "policies" /\ P!Next /\ UNCHANGED vars

EitherSpec == EitherInit /\ [][EitherNext]_<<concern, vars, policyVars>>

\* Policy.Decide and NewPolicySet: the listed policies explain every stored result.
ResultsAreExplained == P!ResultsAreExplained

\* validatePolicyVersionInput: an accepted version is one a check can resolve.
VettedVersionsResolve == P!VettedVersionsResolve
=============================================================================
