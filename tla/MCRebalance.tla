---------------------------- MODULE MCRebalance ----------------------------
(* Instances of Rebalance for TLC: a stock at the 2000 won tick boundary, a *)
(* cheap one and a dear one.                                                *)
EXTENDS Rebalance, TLC

CONSTANTS a, b, c

Each(x, y, z) == a :> x @@ b :> y @@ c :> z
Q(price, sma, sigma) == [price |-> price, sma |-> sma, sigma |-> sigma]
Kpt(weight) == [role |-> "kept", weight |-> weight]
Other(role) == [role |-> role, weight |-> 0]

MCQuotes == {Each(Q(1990, 1986, 38), Q(700, 690, 10), Q(3000, 2990, 40)),
             Each(Q(2100, 1986, 38), Q(600, 690, 10), Q(3000, 2990, 40)),
             Each(Q(2010, 1986, 38), NoQuote, Q(2900, 2990, 40))}

MCPortfolios == {Each(Kpt(50), Kpt(30), Kpt(20)),
                 Each(Kpt(5), Kpt(85), Kpt(5)),
                 Each(Kpt(40), Kpt(20), Other("exiting")),
                 Each(Kpt(0), Other("leftover"), Kpt(60)),
                 Each(Other("unknown"), Kpt(80), Kpt(20))}

MCSnapshots == [cash : {-100, 2500, 15000}, held : {Each(x, y, z) : x, y, z \in {0, 1, 4}}]
=============================================================================
