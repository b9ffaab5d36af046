-------------------------- MODULE MCDetectionTask --------------------------
(***************************************************************************)
(* Small instances of DetectionTask: two processes that may work on one     *)
(* task at a time, of which one serves the HTTP calls, requests of every    *)
(* mode, tasks for them and a stray one; whether there is a result.         *)
(***************************************************************************)
EXTENDS DetectionTask, TLC

CONSTANTS p1, p2, r1, s1

ServedByFirst == [r \in Requests |-> p1]
=============================================================================
