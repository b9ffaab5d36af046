------------------------------- MODULE Reads -------------------------------
(***************************************************************************)
(* What operators and clients read of the stored rows: in three queries of  *)
(* their own (ResultReads), or in one snapshot (OperationsStats).  The two  *)
(* modules keep the rows apart, each with what its reads tell apart, and so *)
(* each behaviour is of either.                                             *)
(***************************************************************************)
EXTENDS ResultReads

CONSTANTS StatsRequests, NoReport  \* of OperationsStats

VARIABLES
  asked,                          \* "records" or "stats"
  tables, view, counted, report   \* of OperationsStats

Stats == INSTANCE OperationsStats WITH Requests <- StatsRequests
ASSUME StatsAssumption == Stats!StatsAssumption

statsVars == <<tables, view, counted, report>>

EitherInit ==
  /\ asked \in {"records", "stats"}
  /\ Init /\ Stats!Init

EitherNext ==
  /\ UNCHANGED asked
  /\ \/ asked = "records" /\ Next /\ UNCHANGED statsVars
     \/ asked = "stats" /\ Stats!Next /\ UNCHANGED vars

EitherSpec == EitherInit /\ [][EitherNext]_<<asked, vars, statsVars>>

\* GetStats: the figures of a report add up.
FiguresAddUp == Stats!FiguresAddUp

\* GetStats: what is final never shrinks from one report to the next.
FiguresGrow == Stats!FiguresGrow
=============================================================================
