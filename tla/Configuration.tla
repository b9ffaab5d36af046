---------------------------- MODULE Configuration ----------------------------
(***************************************************************************)
(* The moderation settings a process runs with: defaults, under the file,   *)
(* under the environment (config.Load); what validateConfig and             *)
(* moderationPolicySetFromConfig accept of them; and what the program makes *)
(* of what was accepted: the limit of clients (clientRateLimitMiddleware),  *)
(* the retry worker (startWebhookRetryWorker) and its batches               *)
(* (RetryFailedWebhookDeliveries).                                          *)
(*                                                                          *)
(* Somebody edits the file and the environment and starts and stops the     *)
(* process.  Durations are in ticks of which Second make a second.  The     *)
(* settings of other parts are only copied and left out.                    *)
(***************************************************************************)
EXTENDS PolicyRules

CONSTANTS
  Second,    \* ticks of a second
  MaxBatch,  \* the most a list has (maxWebhookDeliveryListLimit)
  Defaults,  \* the default of every setting
  Values,    \* the values each setting is given
  Garbage,   \* a text in the environment that does not parse
  Unset,     \* a setting that the file or the environment leaves out
  MaxSet     \* bound of the model: settings given at once

Names == {"version", "review", "block", "limit", "window",
          "enabled", "interval", "batch", "attempts"}

\* What a setting may be: a text, a switch, or a number.
Possible(name, value) ==
  CASE name = "version" -> TRUE
    [] name = "enabled" -> value \in BOOLEAN
    [] OTHER -> value \in Int

ASSUME SettingsAssumption ==
  /\ Second \in Nat \ {0} /\ MaxBatch \in Nat \ {0} /\ MaxSet \in Nat
  /\ DOMAIN Defaults = Names /\ DOMAIN Values = Names
  /\ \A n \in Names :
       Possible(n, Defaults[n]) /\ \A value \in Values[n] : Possible(n, value)

VARIABLES
  file,         \* moderation section of config.yaml
  environment,  \* MODERATION_* variables
  settings,     \* the settings in force, Unset while the process is down
  worker,       \* whether the retry worker runs
  lastBatch     \* what its last batch came to: "none", "listed" or "refused"

vars == <<file, environment, settings, worker, lastBatch>>

Init ==
  /\ file = [n \in Names |-> Unset]
  /\ environment = [n \in Names |-> Unset]
  /\ settings = Unset
  /\ worker = FALSE
  /\ lastBatch = "none"

Given(source) == Cardinality({n \in Names : source[n] # Unset})

\* Somebody changes a setting in the file.
EditFile(name, value) ==
  /\ file' = [file EXCEPT ![name] = value]
  /\ Given(file') + Given(environment) <= MaxSet
  /\ UNCHANGED <<environment, settings, worker, lastBatch>>

\* Somebody sets a variable; every text is a version.
EditEnvironment(name, value) ==
  /\ value = Garbage => name # "version"
  /\ environment' = [environment EXCEPT ![name] = value]
  /\ Given(file) + Given(environment') <= MaxSet
  /\ UNCHANGED <<file, settings, worker, lastBatch>>

-----------------------------------------------------------------------------
\* Load: the file over the defaults, the environment over both.
FromFile == [n \in Names |-> IF file[n] = Unset THEN Defaults[n] ELSE file[n]]
Loaded == [n \in Names |-> IF environment[n] = Unset THEN FromFile[n] ELSE environment[n]]

\* applyEnvironmentOverrides: every variable parses.
Parsed == \A n \in Names : environment[n] # Garbage

\* validateConfig: no negative or tiny value, nothing missing of an enabled retry.
ValidDuration(d) == d = 0 \/ d >= Second
ValidSettings(s) ==
  /\ s.limit >= 0 /\ ValidDuration(s.window)
  /\ ValidDuration(s.interval) /\ s.batch >= 0 /\ s.attempts >= 0
  /\ s.enabled => s.interval # 0 /\ s.batch # 0 /\ s.attempts > 1

\* Mutant of Accepted: the settings are validated before the environment is read.
AcceptedTooEarly ==
  /\ Parsed /\ ValidSettings(FromFile)
  /\ ValidPolicy([version |-> Loaded.version, review |-> Loaded.review, block |-> Loaded.block])

\* What App.Run starts with.
Accepted ==
  /\ Parsed /\ ValidSettings(Loaded)
  /\ ValidPolicy([version |-> Loaded.version, review |-> Loaded.review, block |-> Loaded.block])

\* startWebhookRetryWorker.
StartsWorker(s) == s.enabled /\ s.interval > 0 /\ s.batch > 0 /\ s.attempts > 1

\* The process starts, or ends at once with an error.
Start ==
  /\ settings = Unset /\ Accepted
  /\ settings' = Loaded
  /\ worker' = StartsWorker(Loaded)
  /\ lastBatch' = "none"
  /\ UNCHANGED <<file, environment>>

\* normalizeWebhookRetryLimit and normalizeWebhookRetryMaxAttempts.
Refuses(s) == s.batch \notin 1..MaxBatch \/ s.attempts <= 1

\* A tick of the worker: the batch is listed, or refused and logged.
Batch ==
  /\ worker
  /\ lastBatch' = IF Refuses(settings) THEN "refused" ELSE "listed"
  /\ UNCHANGED <<file, environment, settings, worker>>

Stop ==
  /\ settings # Unset
  /\ settings' = Unset /\ worker' = FALSE /\ lastBatch' = "none"
  /\ UNCHANGED <<file, environment>>

Next ==
  \/ \E name \in Names : \E value \in Values[name] \cup {Unset} : EditFile(name, value)
  \/ \E name \in Names : \E value \in Values[name] \cup {Unset, Garbage} :
       EditEnvironment(name, value)
  \/ Start \/ Batch \/ Stop

Spec == Init /\ [][Next]_vars

-----------------------------------------------------------------------------
(***************************************************************************)
(* Properties.                                                              *)
(***************************************************************************)

\* A client is limited (clientRateLimitMiddleware).
Limits(s) == s.limit > 0 /\ s.window > 0

\* What runs is usable, but for one setting: a retry that is enabled has a worker
\* whose ticker can be made, and whose batches are refused if and only if batch_size
\* is beyond what a list has, which validateConfig lets through; a limit has a
\* window of at least one whole second, as RateLimiter assumes; and some scores are
\* reviewed and some blocked.  The guards that fail without an answer are elsewhere
\* (startWebhookRetryWorker, normalizeWebhookRetryLimit, the middleware), and
\* what they look at comes from three places.
UsableButForBatchSize ==
  settings # Unset =>
    /\ worker = settings.enabled
    /\ worker => settings.interval >= Second
    /\ lastBatch # "none" => (lastBatch = "refused") = (settings.batch > MaxBatch)
    /\ Limits(settings) => settings.window \div Second >= 1
    /\ {"review", "block"} \subseteq
         {Decide([review |-> settings.review, block |-> settings.block], score) : score \in 0..Top}
=============================================================================
