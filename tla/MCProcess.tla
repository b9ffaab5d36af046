----------------------------- MODULE MCProcess -----------------------------
(***************************************************************************)
(* A small instance of Process.                                             *)
(*                                                                          *)
(* Settings: for each of them values on both sides of its limits; a second  *)
(* has two ticks, scores go from 0 to 3.  Policies: two versions and one    *)
(* too long for its column, configurations that disagree about them, two of *)
(* which are refused, and answers of every kind the parser tells apart.     *)
(***************************************************************************)
EXTENDS Process, TLC

CONSTANTS c1, v1, v2, long

-----------------------------------------------------------------------------
MCDefaults ==
  [version |-> v1, review |-> 1, block |-> 2, limit |-> 2, window |-> 4,
   enabled |-> TRUE, interval |-> 4, batch |-> 2, attempts |-> 3]

MCValues ==
  [version |-> {Blank, v1}, review |-> {-1, 0, 2, 3}, block |-> {0, 1, 3, 4},
   limit |-> {-1, 0, 1}, window |-> {-1, 0, 1, 2, 3},
   enabled |-> {TRUE, FALSE}, interval |-> {-1, 0, 1, 2}, batch |-> {-1, 0, 3, 4},
   attempts |-> {-1, 0, 1, 2}]

Policy(version, review, block) == [version |-> version, review |-> review, block |-> block]
Config(default, extras) == [default |-> default, extras |-> extras]
MCConfigs == {
  Config(Policy(v1, 1, 3), <<>>),
  Config(Policy(v1, 2, 3), <<Policy(v2, 0, 1)>>),
  Config(Policy(v2, 1, 2), <<Policy(long, 0, 3)>>),
  Config(Policy(long, 1, 3), <<Policy(v1, 1, 2)>>),
  Config(Policy(v1, 1, 3), <<Policy(v1, 1, 2)>>),
  Config(Policy(v2, 2, 2), <<>>)}

\* Labels as written: two that are hate, one that is spam, one unknown.
MCCanon == [Hate |-> "hate", hate |-> "hate", spam |-> "spam", rude |-> "rude"]

Object(score, labels, reason) ==
  [form |-> "object", score |-> score, labels |-> labels, reason |-> reason]
MCAnswers ==
  {Object(score, <<"hate">>, "given") : score \in {-1, 0, 1, 2, 3, 4}}
    \cup {Object(1, <<"spam", "Hate", "hate">>, "given"), Object(2, <<"hate", "spam", "Hate">>, "given"),
          Object(1, <<"rude">>, "given"), Object(1, <<>>, "given"),
          Object(1, <<"hate">>, Missing), Object(Missing, <<"hate">>, "given"),
          [form |-> "text", score |-> Missing, labels |-> <<>>, reason |-> Missing]}
=============================================================================
