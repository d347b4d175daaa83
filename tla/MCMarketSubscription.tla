----------------------- MODULE MCMarketSubscription -----------------------
(* Instances of MarketSubscription for TLC.                                *)
EXTENDS MarketSubscription

CONSTANTS x1, x2, p1
=============================================================================
