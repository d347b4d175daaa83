-------------------------- MODULE MCRebalancerRun --------------------------
(***************************************************************************)
(* Instances of RebalancerRun and TradingWeek for TLC.  A behaviour is one *)
(* of the first, two runs in detail, or of the second, a year of runs.     *)
(***************************************************************************)
EXTENDS RebalancerRun, TradingWeek

VARIABLE part

RunInit ==
    /\ part \in {"run", "week"}
    /\ Init /\ WeekInit
    /\ part = "week" => PendingOf(1) = {}

RunNext ==
    /\ UNCHANGED part
    /\ \/ part = "run" /\ Next /\ UNCHANGED weekVars
       \/ part = "week" /\ WeekNext /\ UNCHANGED vars

RunSpec == RunInit /\ [][RunNext]_<<part, vars, weekVars>>

-----------------------------------------------------------------------------
\* Account 1 has two pending orders at first, account 2 one, account 3 is not
\* active and has none.
MCBooks == {<<{1, 2}, {3}, {}>>, <<{}, {1}, {}>>}

\* KRX_HOLIDAYS, from Monday, 28 September 2026 on.
MCHolidays == {7, 11, 88, 94, 95, 133, 134, 154, 219, 227, 322, 351, 352, 353}
=============================================================================
