----------------------------- MODULE Rebalance -----------------------------
(***************************************************************************)
(* portfolio_rebalancer.rebalance: the orders of one account, computed run *)
(* after run until the end of the trading week.  A step is an iteration of *)
(* one of the function's loops, or the code between two of them; between   *)
(* two runs the Backend cancels what is pending and fills what it can.     *)
(*                                                                         *)
(* Money is exact: prices, cash and budgets are won, weights percent, and  *)
(* what the code computes in floating point is a fraction here.            *)
(***************************************************************************)
EXTENDS Integers, FiniteSetsExt

CONSTANTS
    Codes,      \* stock codes
    Portfolios, \* [Codes -> [role, weight]], what load_portfolio may return
    Quotes,     \* [Codes -> quote], what the last closes may give
    Snapshots,   \* [cash, held], snapshots of the account
    Band,       \* settings.band in percent
    Buffer,     \* settings.buy_buffer in percent
    WeekRuns,   \* runs of the week, H of hours_left
    FirstLeft,   \* bound: runs left at the first run
    NoQuote     \* fewer than 20 closes, or no last price

Quote == [price : Nat \ {0}, sma : Nat \ {0}, sigma : Nat]

\* Weights and what is held are not negative; who has a price has an average and
\* a deviation.
ASSUME RebalanceAssumption ==
    /\ Band \in 1..99 /\ Buffer \in 0..99
    /\ WeekRuns \in Nat \ {0} /\ FirstLeft \in 1..WeekRuns
    /\ IsFiniteSet(Codes)
    /\ Portfolios \subseteq [Codes -> [role : {"kept", "exiting", "leftover", "unknown"}, weight : Nat]]
    /\ NoQuote \notin Quote /\ Quotes \subseteq [Codes -> Quote \cup {NoQuote}]
    /\ \A a \in Snapshots : a.cash \in Int /\ a.held \in [Codes -> Nat]

VARIABLES
    targets,   \* code -> role ("kept", "exiting", "leftover", "unknown") and weight
    quotes,    \* code -> its quote, or NoQuote
    cash,      \* the account: cash_balance
    held,      \* code -> quantity
    left,      \* runs_left
    step,      \* "snapshot", "allocate", "shares", "buys", "sent"
    weights,   \* the loop of allocate: what is still in it -> weight
    locked,    \* holdings no budget can buy
    budgets,   \* code -> budget, when the loop has ended
    shares,    \* the loop of whole_shares: code -> shares
    extra,     \* code -> shares beyond its budget
    buys,      \* buys not yet cut to the cash
    budget,    \* the cash they may still use, in 1/100 won
    orders     \* what is placed

input == <<targets, quotes, cash, held, left>>
sizing == <<weights, locked, budgets, shares, extra>>
rebalanceVars == <<targets, quotes, cash, held, left, step, weights, locked, budgets, shares,
          extra, buys, budget, orders>>

-----------------------------------------------------------------------------
(* What the function is computed from.                                     *)

Priced == {c \in Codes : quotes[c] # NoQuote}
Kept == {c \in Codes : targets[c].role = "kept"}
Holding == {c \in Codes : held[c] > 0}

Total(f) == MapThenSumSet(LAMBDA c : f[c], DOMAIN f)

Price(c) == quotes[c].price
Ask(c) == Price(c) * (100 + Buffer)     \* in 1/100 won

\* round(): half to even
Rounded(a, b) ==
    LET q == a \div b
        r == 2 * (a % b)
    IN  IF r > b \/ (r = b /\ q % 2 = 1) THEN q + 1 ELSE q

Capital == cash + Total([c \in (Holding \cap Priced) \ locked |-> held[c] * Price(c)])

\* The priced part of the capital, in 1/100 won.
Investable == Capital * Total([c \in Kept \cap Priced |-> targets[c].weight])

\* The weights a pass of the locking loop starts with.
Sharing(lock) == {c \in (Kept \cap Priced) \ lock : targets[c].weight > 0}
FirstWeights(lock) == [c \in Sharing(lock) |-> targets[c].weight]

\* A held stock of the portfolio without a price freezes all the kept ones.
Frozen == \E c \in Kept \cap Holding : c \notin Priced

-----------------------------------------------------------------------------
(* The price of an order.                                                  *)

Ticks == <<<<2000, 1>>, <<5000, 5>>, <<20000, 10>>, <<50000, 50>>,
           <<200000, 100>>, <<500000, 500>>>>

\* tick() of n / d
Tick(n, d) ==
    LET below == {i \in DOMAIN Ticks : n < Ticks[i][1] * d}
    IN  IF below = {} THEN 1000 ELSE Ticks[Min(below)][2]

\* Bounds of a quote, in 1/WeekRuns won.
Lower(q) == q.sma * WeekRuns - 2 * q.sigma * left
Upper(q) == q.sma * WeekRuns + 2 * q.sigma * left

\* The trading hour's escape: the price broke the far bound, or time is up.
AtMarket(side, q) ==
    \/ left = 1
    \/ side = "buy" /\ q.price * WeekRuns > Upper(q)
    \/ side = "sell" /\ q.price * WeekRuns < Lower(q)

\* Faulty: the grid of the current price.
LimitOnPriceGrid(side, q) ==
    LET size == Tick(q.price, 1)
        down == (Lower(q) \div (size * WeekRuns)) * size
    IN  IF side = "buy" THEN Max({down, 1})
        ELSE -((-Upper(q)) \div (size * WeekRuns)) * size

\* The bound on its tick grid, down for a buy and up for a sell.
Limit(side, q) ==
    LET bound == IF side = "buy" THEN Lower(q) ELSE Upper(q)
        size == Tick(bound, WeekRuns) * WeekRuns
    IN  IF side = "buy" THEN Max({(bound \div size) * Tick(bound, WeekRuns), 1})
        ELSE -((-bound) \div size) * Tick(bound, WeekRuns)

Order(c, side, quantity) ==
    [code |-> c, side |-> side, quantity |-> quantity,
     limit |-> IF AtMarket(side, quotes[c]) THEN 0 ELSE Limit(side, quotes[c])]

\* What the budget of a buy is charged for one share, in 1/100 won.
Cost(o) == IF o.limit = 0 THEN Ask(o.code) ELSE 100 * o.limit

-----------------------------------------------------------------------------
RebalanceInit ==
    /\ targets \in Portfolios /\ quotes \in Quotes
    /\ \E a \in Snapshots : cash = a.cash /\ held = a.held
    /\ left = FirstLeft
    /\ step = "snapshot"
    /\ weights = <<>> /\ locked = {} /\ budgets = <<>> /\ shares = <<>> /\ extra = <<>>
    /\ buys = {} /\ budget = 0 /\ orders = {}

BeginRun ==
    /\ step = "snapshot"
    /\ step' = IF Frozen THEN "shares" ELSE "allocate"
    /\ weights' = IF Frozen THEN <<>> ELSE FirstWeights({})
    /\ UNCHANGED <<input, locked, budgets, shares, extra, buys, budget, orders>>

\* allocate: the budgets the weights of this iteration give.
Budgets == [c \in DOMAIN weights |-> Rounded(Investable * weights[c], 100 * Total(weights))]

\* Faulty: without the buffer.
UnderLastPrice == {c \in DOMAIN weights : Price(c) > Budgets[c]}

Dropped == {c \in DOMAIN weights : Ask(c) > 100 * Budgets[c]}

\* A weight that cannot buy a share is spread equally over the others.  Only
\* the ratio of weights counts, so all are multiplied by their number.
Drop ==
    LET stay == DOMAIN weights \ Dropped
        freed == Total([c \in Dropped |-> weights[c]])
    IN
    /\ step = "allocate" /\ weights # <<>> /\ Dropped # {}
    /\ weights' = [c \in stay |-> Cardinality(stay) * weights[c] + freed]
    /\ UNCHANGED <<input, step, locked, budgets, shares, extra, buys, budget, orders>>

\* Faulty: only what was stranded last stays locked.
NewlyLocked(stranded) == stranded

Locked(stranded) == locked \cup stranded

Stranded == {c \in (Kept \cap Holding \cap Priced) \ locked : c \notin DOMAIN weights}

\* A holding that no budget can buy is kept, and the rest is computed again
\* without it.
Lock ==
    /\ step = "allocate" /\ Dropped = {} /\ Stranded # {}
    /\ locked' = Locked(Stranded)
    /\ weights' = FirstWeights(Locked(Stranded))
    /\ UNCHANGED <<input, step, budgets, shares, extra, buys, budget, orders>>

Allocated ==
    /\ step = "allocate" /\ Dropped = {} /\ Stranded = {}
    /\ budgets' = Budgets
    /\ shares' = [c \in DOMAIN weights |-> (100 * Budgets[c]) \div Ask(c)]
    /\ extra' = [c \in DOMAIN weights |-> 0]
    /\ step' = "shares"
    /\ UNCHANGED <<input, weights, locked, buys, budget, orders>>

-----------------------------------------------------------------------------
(* whole_shares                                                            *)

Leftover == 100 * Total(budgets) - Total([c \in DOMAIN shares |-> shares[c] * Ask(c)])

Affordable == {c \in DOMAIN budgets : Ask(c) <= Leftover}

Gap(c) == 100 * budgets[c] - shares[c] * Ask(c)
Short == {c \in Affordable : Gap(c) > 0}

\* The first of ring: the larger budget, or the row that came first.
FirstInRing(S) == {c \in S : \A d \in S : budgets[c] >= budgets[d]}

\* Faulty: always the first of the ring.
PickFirst == FirstInRing(Affordable)

Pick ==
    IF Short # {} THEN FirstInRing({c \in Short : \A d \in Short : Gap(c) >= Gap(d)})
    ELSE FirstInRing({c \in Affordable : \A d \in Affordable : extra[c] <= extra[d]})

AddShare ==
    /\ step = "shares" /\ Affordable # {}
    /\ \E c \in Pick :
        /\ shares' = [shares EXCEPT ![c] = @ + 1]
        /\ extra' = IF Short = {} THEN [extra EXCEPT ![c] = @ + 1] ELSE extra
    /\ UNCHANGED <<input, step, weights, locked, budgets, buys, budget, orders>>

-----------------------------------------------------------------------------
(* The orders.                                                             *)

\* Within the band nothing is traded.
InBand(c) ==
    LET gap == held[c] * Price(c) - budgets[c]
    IN  held[c] > 0 /\ 100 * (IF gap < 0 THEN -gap ELSE gap) <= Band * Capital

\* Faulty: a trim goes down to what a buy would go up to.
TrimToBuyTarget(c) == shares[c]

\* The buffer is for buying only.
SellTarget(c) == Max({shares[c], budgets[c] \div Price(c)})

Trims == {Order(c, "sell", held[c] - SellTarget(c)) :
            c \in {d \in DOMAIN budgets : ~InBand(d) /\ shares[d] <= held[d] /\ SellTarget(d) < held[d]}}

\* Exits, and what earlier portfolios left behind.
Exits == {Order(c, "sell", held[c]) :
            c \in {d \in Holding \cap Priced : targets[d].role \in {"exiting", "leftover"}}}

Wanted == {Order(c, "buy", shares[c] - held[c]) :
            c \in {d \in DOMAIN budgets : ~InBand(d) /\ shares[d] > held[d]}}

Spendable == 100 * Max({cash, 0})

\* Faulty: who has reached its budget gets no share of what is left over.
MakeOrdersWhenFull ==
    /\ step = "shares" /\ Short = {}
    /\ orders' = Trims \cup Exits
    /\ buys' = Wanted
    /\ budget' = Spendable
    /\ step' = "buys"
    /\ UNCHANGED <<input, sizing>>

MakeOrders ==
    /\ step = "shares" /\ Affordable = {}
    /\ orders' = Trims \cup Exits
    /\ buys' = Wanted
    /\ budget' = Spendable
    /\ step' = "buys"
    /\ UNCHANGED <<input, sizing>>

\* Faulty: one share is charged for all.
ChargeOne(o, quantity) == Cost(o)

Charge(o, quantity) == quantity * Cost(o)

\* Buys in the order of their budgets, each cut to the cash that is left.
CutBuy ==
    /\ step = "buys"
    /\ \E o \in buys :
        LET quantity == Min({o.quantity, budget \div Cost(o)}) IN
        /\ o.code \in FirstInRing({p.code : p \in buys})
        /\ buys' = buys \ {o}
        /\ IF quantity > 0
           THEN /\ orders' = orders \cup {[o EXCEPT !.quantity = quantity]}
                /\ budget' = budget - Charge(o, quantity)
           ELSE UNCHANGED <<orders, budget>>
    /\ UNCHANGED <<input, sizing, step>>

Send ==
    /\ step = "buys" /\ buys = {}
    /\ step' = "sent"
    /\ UNCHANGED <<input, sizing, buys, budget, orders>>

-----------------------------------------------------------------------------
(* Until the next run the Backend fills the market orders, buys up to the  *)
(* buffer above the last price, and any of the limit orders.               *)

Proceeds(o) ==
    IF o.side = "sell" THEN o.quantity * (IF o.limit = 0 THEN Price(o.code) ELSE o.limit)
    ELSE -((o.quantity * Cost(o)) \div 100)

Received(o) == IF o.side = "sell" THEN -o.quantity ELSE o.quantity

NextRun ==
    /\ step = "sent" /\ left > 1
    /\ \E filled \in SUBSET orders :
        /\ {o \in orders : o.limit = 0} \subseteq filled
        /\ cash' = cash + Total([o \in filled |-> Proceeds(o)])
        /\ held' = [c \in Codes |-> held[c] + Total([o \in {o \in filled : o.code = c} |-> Received(o)])]
    /\ left' = left - 1
    /\ quotes' \in Quotes
    /\ targets' = targets
    /\ step' = "snapshot"
    /\ weights' = <<>> /\ locked' = {} /\ budgets' = <<>> /\ shares' = <<>> /\ extra' = <<>>
    /\ buys' = {} /\ budget' = 0 /\ orders' = {}

RebalanceNext ==
    \/ BeginRun \/ Drop \/ Lock \/ Allocated \/ AddShare
    \/ MakeOrders \/ CutBuy \/ Send
    \/ NextRun

RebalanceSpec == RebalanceInit /\ [][RebalanceNext]_rebalanceVars /\ WF_rebalanceVars(RebalanceNext)

-----------------------------------------------------------------------------
(* Properties.                                                             *)

RebalanceTypeOK ==
    /\ targets \in Portfolios /\ quotes \in Quotes
    /\ cash \in Int /\ held \in [Codes -> Nat] /\ left \in 1..FirstLeft
    /\ step \in {"snapshot", "allocate", "shares", "buys", "sent"}
    /\ locked \subseteq Kept \cap Holding
    /\ DOMAIN weights \subseteq Kept \cap Priced
    /\ \A c \in DOMAIN budgets : budgets[c] > 0 /\ shares[c] > 0 /\ extra[c] >= 0
    /\ budget \in Nat

\* The buys of a run never cost more than the cash of its snapshot.  There is
\* one order per stock, never for more than is held; and a trim leaves what the
\* budget is worth at the last price, so it never sells what a buy at the
\* buffered price would take back.
OrdersFitAccount ==
    /\ RebalanceTypeOK
    /\ Total([o \in {o \in orders : o.side = "buy"} |-> o.quantity * Cost(o)])
           <= 100 * Max({cash, 0})
    /\ \A o \in orders :
        /\ o.quantity > 0 /\ \A p \in orders : p.code = o.code => p = o
        /\ o.side = "sell" => o.quantity <= held[o.code]
        /\ o.side = "sell" /\ targets[o.code].role = "kept" =>
               (held[o.code] - o.quantity + 1) * Price(o.code) > budgets[o.code]

\* The whole shares cost no more than the budgets, nothing affordable is left
\* over, and the shares beyond the budgets are dealt out evenly.
SharesUseBudgets ==
    /\ step \in {"shares", "buys", "sent"} => Leftover >= 0
    /\ step \in {"buys", "sent"} => Affordable = {}
    /\ \A c, d \in DOMAIN budgets : extra[c] > extra[d] + 1 => Ask(d) > Leftover
    /\ \A c \in DOMAIN budgets : extra[c] = 0 => Gap(c) > -Ask(c)

\* A limit price is on the tick grid of its own price range and as near to its
\* bound as that allows, on the cautious side of it.
LimitsAreTradable ==
    \A o \in {p \in orders : p.limit # 0} :
        LET q == quotes[o.code] IN
        /\ o.limit % Tick(o.limit, 1) = 0
        /\ o.side = "buy" => \/ o.limit = 1
                             \/ /\ o.limit * WeekRuns <= Lower(q)
                                /\ (o.limit + Tick(o.limit, 1)) * WeekRuns > Lower(q)
        /\ o.side = "sell" => o.limit * WeekRuns >= Upper(q)

\* Orders an account can pay for and an exchange accepts.
OrdersAreSound == OrdersFitAccount /\ LimitsAreTradable

\* Every run comes to its orders: the loops of allocate, of the locking and of
\* whole_shares end for every portfolio, quote and account.
RunsEnd == \A n \in 1..FirstLeft : left = n ~> step = "sent" /\ left = n

=============================================================================
