-------------------------- MODULE MCBarCollection --------------------------
(* Instances of BarCollection for TLC.                                     *)
EXTENDS BarCollection

MCLimits == ("1m" :> 2) @@ ("1d" :> 2)
MCFirst == -5
MCIndex == <<1, 2>>
\* The first symbol was collected before a long outage.
MCOld == {{1}}
MCTradingDays == {-1, 0, 2, 3}
=============================================================================
