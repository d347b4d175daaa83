----------------------------- MODULE PriceFeed -----------------------------
(***************************************************************************)
(* A price on its way from the exchange to a browser: market-streamer sets *)
(* and publishes every tick in Valkey; a handler of market-http subscribes *)
(* (MarketSubscription, with which this module is composed), reads the     *)
(* stored prices, fills the missing ones from the bars market-collector    *)
(* wrote to QuestDB, sends the result as a snapshot and then the events of *)
(* its queue.  A step is one command in Valkey or one query; the GETs of a *)
(* handler's stocks are one, for nothing here relates two stocks.  A price *)
(* is the number of its tick.  How long the streamer waits between its     *)
(* attempts, the rankings it keeps beside the prices and the orderbooks,   *)
(* which go the same way without a fill, are left out.                     *)
(***************************************************************************)
EXTENDS MarketSubscription

CONSTANTS
    Limited,   \* keys of the stocks with price limits in QuestDB
    MaxTicks,  \* bound: ticks of a stock
    MaxFrame   \* bound: ticks in one message of Kiwoom

ASSUME FeedAssumption == Limited \subseteq Keys /\ MaxTicks \in Nat /\ MaxFrame \in Nat \ {0}

VARIABLES
    ticks,   \* key -> ticks of the exchange
    kiwoom,  \* the streamer's websocket is registered
    pipe,    \* the commands of the last pipeline of publish()
    done,    \* how many of them Valkey has executed
    resent,  \* key -> whether a pipeline of it was sent again: "never", "open"
             \* until a pipeline has come to its last price, "over" (history)
    stored,  \* key -> the price stored in Valkey, 0 if there is none
    bars,    \* key -> the latest close in QuestDB, 0 if there is none
    sent,    \* the prices of log (history)
    stage,   \* client -> "none", or what its handler does next: "get", "query",
             \* "fill", "again", "send"
    values,  \* client -> the stored prices it has read
    filled,  \* client -> the closes it has read
    shown,   \* client -> the newest prices it was sent
    since,   \* connection -> Len(log) when its subscription began (history)
    base     \* client -> Len(log) when it subscribed (history)

streamer == <<ticks, kiwoom, pipe, done, resent>>
reader == <<stage, values, filled, shown>>
feedVars == <<log, link, tag, tags, wire, phase, active, task, sup, cur, listener,
              state, interest, registered, queue, feed, ticks, kiwoom, pipe, done,
              resent, stored, bars, sent, stage, values, filled, shown, since, base>>

Nothing == [k \in Keys |-> 0]

FeedInit ==
    /\ Init
    /\ ticks = Nothing /\ kiwoom = FALSE /\ pipe = <<>> /\ done = 0 /\ resent = [k \in Keys |-> "never"]
    /\ stored = Nothing /\ bars = Nothing /\ sent = <<>>
    /\ stage = [x \in Clients |-> "none"]
    /\ values = [x \in Clients |-> Nothing] /\ filled = [x \in Clients |-> Nothing]
    /\ shown = [x \in Clients |-> Nothing]
    /\ since = [c \in Conns |-> 0] /\ base = [x \in Clients |-> 0]

-----------------------------------------------------------------------------
(* The exchange, the streamer and the collector.                           *)

\* Kiwoom acknowledges the registration.
Register ==
    /\ ~kiwoom
    /\ kiwoom' = TRUE
    /\ UNCHANGED <<vars, ticks, pipe, done, resent, stored, bars, sent, reader, since, base>>

\* A tick nobody listens to.
MissTick(k) ==
    /\ ~kiwoom /\ ticks[k] < MaxTicks
    /\ ticks' = [ticks EXCEPT ![k] = @ + 1]
    /\ UNCHANGED <<vars, kiwoom, pipe, done, resent, stored, bars, sent, reader, since, base>>

\* The commands of n ticks: each is set, then published.  The event published
\* under the stock's own key has no reader.
Commands(k, first, n) ==
    [i \in 1..(2 * n) |-> [op |-> IF i = 2 * (i \div 2) THEN "publish" ELSE "set",
                           key |-> k, price |-> first + ((i - 1) \div 2)]]

\* A message with some ticks of a stock; the next is read when they are published.
Frame(k, n) ==
    /\ kiwoom /\ done = Len(pipe) /\ ticks[k] + n <= MaxTicks
    /\ ticks' = [ticks EXCEPT ![k] = @ + n]
    /\ pipe' = Commands(k, ticks[k] + 1, n)
    /\ done' = 0
    /\ UNCHANGED <<vars, kiwoom, resent, stored, bars, sent, reader, since, base>>

\* Valkey executes the next command.  The pipeline is not a transaction: the
\* commands of others may come between.
Execute ==
    /\ done < Len(pipe)
    /\ done' = done + 1
    /\ resent' = IF done + 1 = Len(pipe)
                 THEN [resent EXCEPT ![pipe[done + 1].key] = IF @ = "open" THEN "over" ELSE @]
                 ELSE resent
    /\ UNCHANGED <<ticks, kiwoom, pipe, bars, reader, since, base>>

SetPrice ==
    /\ Execute /\ pipe[done + 1].op = "set"
    /\ stored' = [stored EXCEPT ![pipe[done + 1].key] = pipe[done + 1].price]
    /\ UNCHANGED <<vars, sent>>

PublishPrice ==
    /\ Execute /\ pipe[done + 1].op = "publish"
    /\ Publish(pipe[done + 1].key)
    /\ sent' = Append(sent, pipe[done + 1].price)
    /\ UNCHANGED stored

\* The replies are lost and redis-py sends the pipeline again.
Resend ==
    /\ kiwoom /\ done > 0
    /\ done' = 0
    /\ resent' = [resent EXCEPT ![pipe[1].key] = "open"]
    /\ UNCHANGED <<vars, ticks, kiwoom, pipe, stored, bars, sent, reader, since, base>>

\* The websocket closes, Valkey keeps failing, or the process ends; what was
\* not executed is lost.
Disconnected ==
    /\ kiwoom
    /\ kiwoom' = FALSE /\ pipe' = <<>> /\ done' = 0
    /\ UNCHANGED <<vars, ticks, resent, stored, bars, sent, reader, since, base>>

\* market-collector writes the bar that closes with tick n.
CollectBar(k, n) ==
    /\ bars[k] < n /\ n <= ticks[k]
    /\ bars' = [bars EXCEPT ![k] = n]
    /\ UNCHANGED <<vars, streamer, stored, sent, reader, since, base>>

-----------------------------------------------------------------------------
(* The handler of /prices/stream.                                          *)

Open(x, wanted) ==
    /\ Subscribe(x, wanted)
    /\ stage' = [stage EXCEPT ![x] = "get"]
    /\ base' = [base EXCEPT ![x] = Len(log)]
    /\ UNCHANGED <<streamer, stored, bars, sent, values, filled, shown, since>>

Missing(x) == {k \in interest[x] : values[x][k] = 0}

Get(x) ==
    LET read == [k \in Keys |-> IF k \in interest[x] THEN stored[k] ELSE 0] IN
    /\ stage[x] = "get"
    /\ values' = [values EXCEPT ![x] = read]
    /\ stage' = [stage EXCEPT ![x] = IF \E k \in interest[x] : read[k] = 0 THEN "query" ELSE "send"]
    /\ UNCHANGED <<vars, streamer, stored, bars, sent, filled, shown, since, base>>

Query(x) ==
    LET read == [k \in Keys |-> IF k \in Missing(x) THEN bars[k] ELSE 0] IN
    /\ stage[x] = "query"
    /\ filled' = [filled EXCEPT ![x] = read]
    /\ stage' = [stage EXCEPT ![x] = IF read = Nothing THEN "send" ELSE "fill"]
    /\ UNCHANGED <<vars, streamer, stored, bars, sent, values, shown, since, base>>

\* Faulty: SET without NX.
FillAlways(x) ==
    /\ stage[x] = "fill"
    /\ stored' = [k \in Keys |-> IF filled[x][k] # 0 THEN filled[x][k] ELSE stored[k]]
    /\ stage' = [stage EXCEPT ![x] = "again"]
    /\ UNCHANGED <<vars, streamer, bars, sent, values, filled, shown, since, base>>

\* SET NX: the streamer may have stored a price meanwhile.
Fill(x) ==
    /\ stage[x] = "fill"
    /\ stored' = [k \in Keys |-> IF stored[k] = 0 THEN filled[x][k] ELSE stored[k]]
    /\ stage' = [stage EXCEPT ![x] = "again"]
    /\ UNCHANGED <<vars, streamer, bars, sent, values, filled, shown, since, base>>

GetAgain(x) ==
    /\ stage[x] = "again"
    /\ values' = [values EXCEPT ![x] = [k \in Keys |-> IF k \in Missing(x) THEN stored[k] ELSE @[k]]]
    /\ stage' = [stage EXCEPT ![x] = "send"]
    /\ UNCHANGED <<vars, streamer, stored, bars, sent, filled, shown, since, base>>

\* Browsers order what they get by its timestamp.
Newer(x, prices) == [shown EXCEPT ![x] = [k \in Keys |-> IF prices[k] > @[k] THEN prices[k] ELSE @[k]]]

\* Stocks without price limits are left out of the snapshot.
SendSnapshot(x) ==
    /\ stage[x] = "send" /\ SnapshotSent(x)
    /\ shown' = Newer(x, [k \in Keys |-> IF k \in Limited THEN values[x][k] ELSE 0])
    /\ stage' = [stage EXCEPT ![x] = "none"]
    /\ values' = [values EXCEPT ![x] = Nothing] /\ filled' = [filled EXCEPT ![x] = Nothing]
    /\ UNCHANGED <<streamer, stored, bars, sent, since, base>>

SendEvent(x) ==
    /\ Send(x)
    /\ LET n == Head(queue[x]) IN shown' = Newer(x, [Nothing EXCEPT ![log[n]] = sent[n]])
    /\ UNCHANGED <<streamer, stored, bars, sent, stage, values, filled, since, base>>

\* The handler returns, fails in one of its queries, or the browser goes away.
Forget(x) ==
    /\ stage' = [stage EXCEPT ![x] = "none"]
    /\ values' = [values EXCEPT ![x] = Nothing] /\ filled' = [filled EXCEPT ![x] = Nothing]
    /\ shown' = [shown EXCEPT ![x] = Nothing]
    /\ base' = [base EXCEPT ![x] = 0]
    /\ UNCHANGED <<streamer, stored, bars, sent, since>>

Return(x) == Finish(x) /\ Forget(x)
Leave(x) == Disconnect(x) /\ Forget(x)

Read(x) == Get(x) \/ Query(x) \/ Fill(x) \/ GetAgain(x) \/ SendSnapshot(x)

-----------------------------------------------------------------------------
(* The hub.                                                                *)

SubscriptionBegins(c) ==
    /\ Acknowledge(c)
    /\ since' = [since EXCEPT ![c] = Len(log)]
    /\ UNCHANGED <<streamer, stored, bars, sent, reader, base>>

HubStep(c) ==
    /\ \/ Drop(c) \/ Connect(c) \/ ConnectFails(c)
       \/ Serve(c) \/ Rotate(c) \/ AbandonRotation(c)
       \/ Deliver(c) \/ ListenerEnds(c) \/ ListenerClosed(c)
    /\ UNCHANGED <<streamer, stored, bars, sent, reader, since, base>>

Lifespan ==
    /\ SupervisorExits \/ Shutdown \/ Stopped
    /\ UNCHANGED <<streamer, stored, bars, sent, reader, since, base>>

FeedNext ==
    \/ Register \/ SetPrice \/ PublishPrice \/ Resend \/ Disconnected
    \/ \E k \in Keys : 
        \/ MissTick(k)
        \/ \E n \in 1..MaxFrame : Frame(k, n)
        \/ \E n \in 1..MaxTicks : CollectBar(k, n)
    \/ \E x \in Clients :
        \/ \E wanted \in (SUBSET Keys) \ {{}} : Open(x, wanted)
        \/ Read(x) \/ SendEvent(x) \/ Return(x) \/ Leave(x)
    \/ \E c \in Conns : SubscriptionBegins(c) \/ HubStep(c)
    \/ Lifespan

FeedSpec == FeedInit /\ [][FeedNext]_feedVars

-----------------------------------------------------------------------------
(* Properties.                                                             *)

\* The price of event n is due to client x.  What was published before it
\* subscribed is due by the snapshot, unless the stock has no price limits: a
\* pipeline sent again stores its first prices again until a pipeline comes to
\* its last, which is then due as an event.  What was published later is due as
\* an event.  What is published between two subscriptions of the hub, in a
\* reconnect or a rotation, is lost.
Due(x, n) ==
    IF n <= base[x]
    THEN /\ log[n] \in Limited
         /\ \/ resent[log[n]] = "never"
            \/ resent[log[n]] = "over" /\ since[active] <= base[x]
    ELSE n > since[active]

\* Once everything on its way has arrived, a client has the last price that
\* was published.
LatestReachesClient ==
    \A x \in Clients :
        /\ state[x] = "live" /\ registered[x] # {} /\ queue[x] = <<>>
        /\ active # None /\ link[active] = "up" /\ wire[active] = <<>>
        => \A n \in 1..Len(log) :
            log[n] \in interest[x] /\ Due(x, n) => shown[x][log[n]] >= sent[n]

=============================================================================
