---------------------------- MODULE MCPriceFeed ----------------------------
(* An instance of PriceFeed for TLC.                                       *)
EXTENDS PriceFeed

CONSTANTS x1, p1

\* No guard reads feed, and no property of this instance does.
WithoutFeed == <<log, link, tag, tags, wire, phase, active, task, sup, cur, listener,
                 state, interest, registered, queue, ticks, kiwoom, pipe, done,
                 resent, stored, bars, sent, stage, values, filled, shown, since, base>>

\* Without a listener on the active connection LatestReachesClient says nothing
\* any more, and nothing brings one back: such states are explored only as
\* long as nothing is published.
Feeding == phase \in {"down", "starting"} \/ active # None \/ log = <<>>
=============================================================================
