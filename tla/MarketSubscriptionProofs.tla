---------------------- MODULE MarketSubscriptionProofs ----------------------
(***************************************************************************)
(* What holds of market-http's shared subscription for any number of       *)
(* clients, keys, connections and events, and any capacity of the queues,  *)
(* among it that the hub implements FeedHub; and, with the streamer that   *)
(* publishes and the handler that fills in a missing price (PriceFeed),    *)
(* for any number of prices: that the last one reaches the browser.        *)
(*                                                                         *)
(* The inductive invariant splits FedOrTold: what the hub knows of its     *)
(* active connection (HubInv), and what a client may be waiting for        *)
(* (ClientInv).  Without HubInv a supervisor that exits, or a connection   *)
(* that fails, could be the one that feeds the clients.  For the order of  *)
(* the events OrderInv adds how connections are numbered (LinkInv), what   *)
(* is under way on each (WireInv) and how far every client has been given  *)
(* what was read (LastInv).                                                *)
(*                                                                         *)
(* For the prices FeedInv says what a price has passed on its way: the     *)
(* stored value is no older than what was published (PipeInv, StoredInv),  *)
(* the handler read that value after it was registered (StageInv,          *)
(* SnapshotInv), and what was published since is on the wire, in the queue *)
(* or shown (AckInv, EventInv, QueueInv).                                  *)
(***************************************************************************)
EXTENDS PriceFeed, SequenceTheorems, TLAPS

HubInv ==
    /\ task <=> active # None
    /\ active # None =>
        /\ phase = "serving" /\ sup # "exited" /\ cur = active
        /\ listener[active] = "running"
        /\ link[active] \in {"up", "dropped"}
    /\ phase = "serving" => cur \in Conns
    /\ \A c \in Conns : link[c] \in {"acked", "up", "dropped"} => tag[c] # 0

\* A stream that is fed, and one that has been told its end.
Fed(x) ==
    /\ registered[x] = interest[x] /\ registered[x] # {}
    /\ \A n \in DOMAIN queue[x] : queue[x][n] # End
    /\ active # None

Told(x) == registered[x] = {} /\ queue[x] = <<End>>

ClientInv ==
    \A x \in Clients : IF state[x] = "out" THEN registered[x] = {} ELSE Fed(x) \/ Told(x)

\* TypeOK in parts.
ServerOK ==
    /\ log \in Seq(Keys \cup {Invalid}) /\ Len(log) <= MaxMessages
    /\ link \in [Conns -> {"unused", "subscribing", "acked", "up", "dropped", "closed"}]
    /\ tag \in [Conns -> 0..MaxTags] /\ tags \in 0..MaxTags
    /\ wire \in [Conns -> Seq(1..MaxMessages)]

HubOK ==
    /\ phase \in {"down", "starting", "serving", "stopping", "stopped"}
    /\ active \in Conns \cup {None} /\ task \in BOOLEAN
    /\ sup \in {"off", "waiting", "connecting", "exited"}
    /\ cur \in Conns \cup {None}
    /\ listener \in [Conns -> {"none", "running", "cancelled", "closing", "done"}]

ClientsOK ==
    /\ state \in [Clients -> {"out", "snapshot", "live"}]
    /\ interest \in [Clients -> SUBSET Keys]
    /\ registered \in [Clients -> SUBSET Keys]
    /\ queue \in [Clients -> Seq((1..MaxMessages) \cup {End})]
    /\ \A x \in Clients : Len(queue[x]) <= Capacity
    /\ feed \in [Clients -> Seq(Conns \X (1..MaxTags) \X (1..MaxMessages))]

IInv == ServerOK /\ HubOK /\ ClientsOK /\ HubInv /\ ClientInv

-----------------------------------------------------------------------------
LEMMA TypeParts == TypeOK <=> ServerOK /\ HubOK /\ ClientsOK
BY DEF TypeOK, ServerOK, HubOK, ClientsOK

\* The invariant is the checked one with what it takes to keep it.
LEMMA Implied == IInv => FedOrTold
BY TypeParts DEF IInv, FedOrTold, HubInv, ClientInv, Fed, Told

\* Nothing is streamed before the lifespan begins.
LEMMA InitInv == Init => IInv
<1> SUFFICES ASSUME Init PROVE IInv
  OBVIOUS
<1>1. \A S : <<>> \in Seq(S)
  OBVIOUS
<1>2. Len(<<>>) = 0
  OBVIOUS
<1>3. ServerOK /\ HubOK
  <2>1. log \in Seq(Keys \cup {Invalid}) /\ Len(log) <= MaxMessages
    BY <1>1, <1>2, SubscriptionAssumption DEF Init
  <2>2. tag \in [Conns -> 0..MaxTags] /\ tags \in 0..MaxTags
    BY SubscriptionAssumption DEF Init
  <2>3. wire \in [Conns -> Seq(1..MaxMessages)]
    BY <1>1 DEF Init
  <2>4. QED
    BY <2>1, <2>2, <2>3 DEF Init, ServerOK, HubOK
<1>4. ClientsOK
  <2>1. \A x \in Clients : Len(queue[x]) <= Capacity
    BY <1>2, SubscriptionAssumption DEF Init
  <2>2. QED
    BY <1>1, <2>1 DEF Init, ClientsOK
<1>5. HubInv /\ ClientInv
  BY NoneIsNoConn DEF Init, HubInv, ClientInv
<1>6. QED
  BY <1>3, <1>4, <1>5 DEF IInv

\* Steps that no client notices, as long as the hub does not go down.
LEMMA ClientsUntouched ==
    ASSUME ClientsOK, ClientInv, UNCHANGED clients, active # None => active' # None
    PROVE  ClientsOK' /\ ClientInv'
BY DEF ClientsOK, ClientInv, Fed, Told, clients

\* _close_all_subscribers leaves every client out, or told.
LEMMA StreamsEnded ==
    ASSUME ClientsOK, ClientInv, EndStreams(Streaming)
    PROVE  /\ ClientsOK' /\ ClientInv'
           /\ \A x \in Clients : registered'[x] = {}
<1>1. \A x \in Clients : registered'[x] = {}
  BY DEF ClientsOK, EndStreams, Streaming
<1>2. <<End>> \in Seq((1..MaxMessages) \cup {End}) /\ Len(<<End>>) = 1
  OBVIOUS
<1>3. ClientsOK'
  <2>1. registered' \in [Clients -> SUBSET Keys]
    BY DEF ClientsOK, EndStreams
  <2>2. queue' \in [Clients -> Seq((1..MaxMessages) \cup {End})]
    BY <1>2 DEF ClientsOK, EndStreams
  <2>3. \A x \in Clients : Len(queue'[x]) <= Capacity
    BY <1>2, SubscriptionAssumption DEF ClientsOK, EndStreams
  <2>4. QED
    BY <2>1, <2>2, <2>3 DEF ClientsOK, EndStreams
<1>4. ASSUME NEW x \in Clients
      PROVE  IF state'[x] = "out" THEN registered'[x] = {} ELSE Told(x)'
  <2>1. CASE registered[x] # {}
    BY <1>1, <2>1 DEF ClientsOK, EndStreams, Streaming, Told
  <2>2. CASE registered[x] = {}
    BY <1>1, <2>2 DEF ClientsOK, ClientInv, EndStreams, Streaming, Fed, Told
  <2>3. QED
    BY <2>1, <2>2
<1>5. QED
  BY <1>1, <1>3, <1>4 DEF ClientInv

-----------------------------------------------------------------------------
(* Valkey, the connections and their tasks.                                *)

LEMMA NetworkInv ==
    ASSUME IInv, \/ \E k \in Keys \cup {Invalid} : Publish(k)
                 \/ \E c \in Conns : Acknowledge(c) \/ Drop(c)
    PROVE  IInv'
<1> USE DEF IInv, ServerOK, HubOK, HubInv
<1>1. ASSUME NEW k \in Keys \cup {Invalid}, Publish(k) PROVE IInv'
  <2>1. Len(log) \in Nat /\ Len(log) + 1 \in 1..MaxMessages
    <3>1. Len(log) \in Nat
      OBVIOUS
    <3>2. QED
      BY <1>1, <3>1, SubscriptionAssumption DEF Publish
  <2>2. log' \in Seq(Keys \cup {Invalid}) /\ Len(log') <= MaxMessages
    BY <1>1, <2>1 DEF Publish
  <2>3. wire' \in [Conns -> Seq(1..MaxMessages)]
    <3>1. \A c \in Conns : Append(wire[c], Len(log) + 1) \in Seq(1..MaxMessages)
      BY <2>1
    <3>2. QED
      BY <1>1, <3>1 DEF Publish
  <2>4. ServerOK' /\ HubOK' /\ HubInv'
    BY <1>1, <2>2, <2>3 DEF Publish, hub
  <2>5. QED
    BY <1>1, <2>4, ClientsUntouched DEF Publish, hub
<1>2. ASSUME NEW c \in Conns, Acknowledge(c) PROVE IInv'
  <2>1. tags + 1 \in 1..MaxTags
    BY <1>2, SubscriptionAssumption DEF Acknowledge
  <2>2. ServerOK'
    BY <1>2, <2>1 DEF Acknowledge
  <2>3. HubOK' /\ HubInv'
    BY <1>2, <2>1 DEF Acknowledge, hub
  <2>4. QED
    BY <1>2, <2>2, <2>3, ClientsUntouched DEF Acknowledge, hub
<1>3. ASSUME NEW c \in Conns, Drop(c) PROVE IInv'
  <2>1. ServerOK' /\ HubOK' /\ HubInv'
    BY <1>3 DEF Drop, hub
  <2>2. QED
    BY <1>3, <2>1, ClientsUntouched DEF Drop, hub
<1>4. QED
  BY <1>1, <1>2, <1>3

\* A new connection is not the active one, and a failed one never was.
LEMMA ConnectInv ==
    ASSUME IInv, NEW c \in Conns, Connect(c) \/ ConnectFails(c)
    PROVE  IInv'
<1> USE DEF IInv, ServerOK, HubOK, HubInv
<1>1. CASE Connect(c)
  <2>1. ServerOK' /\ HubOK' /\ HubInv'
    BY <1>1 DEF Connect, Unused
  <2>2. QED
    BY <1>1, <2>1, ClientsUntouched DEF Connect
<1>2. CASE ConnectFails(c)
  <2>1. ServerOK'
    BY <1>2 DEF ConnectFails, Close
  <2>2. HubOK' /\ HubInv'
    BY <1>2 DEF ConnectFails, Close
  <2>3. QED
    BY <1>2, <2>1, <2>2, ClientsUntouched DEF ConnectFails
<1>3. QED
  BY <1>1, <1>2

\* The first connection becomes the active one.
LEMMA ServeInv ==
    ASSUME IInv, NEW c \in Conns, Serve(c)
    PROVE  IInv'
<1> USE DEF IInv, ServerOK, HubOK, HubInv
<1>1. ServerOK' /\ HubOK'
  BY DEF Serve
<1>2. HubInv'
  BY NoneIsNoConn DEF Serve
<1>3. QED
  BY <1>1, <1>2, NoneIsNoConn, ClientsUntouched DEF Serve

\* The next connection takes over from the one the supervisor waits for.
LEMMA RotateInv ==
    ASSUME IInv, NEW c \in Conns, Rotate(c)
    PROVE  IInv'
<1> USE DEF IInv, ServerOK, HubOK, HubInv
<1>1. ServerOK' /\ HubOK'
  BY DEF Rotate
<1>2. active \in Conns /\ link[active] \in {"up", "dropped"} /\ c # cur
  BY NoneIsNoConn DEF Rotate
<1>3. listener'[c] = "running" /\ link'[c] = "up"
  BY <1>2 DEF Rotate
<1>4. HubInv'
  BY <1>2, <1>3, NoneIsNoConn DEF Rotate
<1>5. QED
  BY <1>1, <1>2, <1>4, NoneIsNoConn, ClientsUntouched DEF Rotate

\* A supervisor that exits supervises a connection that is not active.
LEMMA SupervisorInv ==
    ASSUME IInv, SupervisorExits \/ \E c \in Conns : AbandonRotation(c)
    PROVE  IInv'
<1> USE DEF IInv, ServerOK, HubOK, HubInv
<1>1. CASE SupervisorExits
  <2>1. ServerOK' /\ HubOK' /\ HubInv'
    BY <1>1, NoneIsNoConn DEF SupervisorExits, server
  <2>2. QED
    BY <1>1, <2>1, ClientsUntouched DEF SupervisorExits
<1>2. ASSUME NEW c \in Conns, AbandonRotation(c) PROVE IInv'
  <2>1. ServerOK'
    BY <1>2 DEF AbandonRotation, Close
  <2>2. HubOK' /\ HubInv'
    BY <1>2, NoneIsNoConn DEF AbandonRotation, Close
  <2>3. QED
    BY <1>2, <2>1, <2>2, ClientsUntouched DEF AbandonRotation
<1>3. QED
  BY <1>1, <1>2

\* The end of the lifespan tells every client before anything is awaited.
LEMMA ShutdownInv ==
    ASSUME IInv, Shutdown \/ Stopped
    PROVE  IInv'
<1> USE DEF IInv, ServerOK, HubOK, HubInv
<1>1. CASE Shutdown
  <2>1. ServerOK' /\ HubOK' /\ HubInv'
    BY <1>1, NoneIsNoConn DEF Shutdown, server
  <2>2. QED
    BY <1>1, <2>1, StreamsEnded DEF Shutdown
<1>2. CASE Stopped
  <2>1. ServerOK'
    BY <1>2 DEF Stopped
  <2>2. HubOK' /\ HubInv'
    BY <1>2 DEF Stopped
  <2>3. QED
    BY <1>2, <2>1, <2>2, ClientsUntouched DEF Stopped
<1>3. QED
  BY <1>1, <1>2

\* A listener that ends takes the hub down only when it is the active one.
LEMMA ListenerInv ==
    ASSUME IInv, NEW c \in Conns, ListenerEnds(c) \/ ListenerClosed(c)
    PROVE  IInv'
<1> USE DEF IInv, ServerOK, HubOK, HubInv
<1>1. CASE ListenerEnds(c) /\ active = c
  <2>1. ServerOK' /\ HubOK' /\ HubInv'
    BY <1>1, NoneIsNoConn DEF ListenerEnds, server
  <2>2. QED
    BY <1>1, <2>1, StreamsEnded DEF ListenerEnds
<1>2. CASE ListenerEnds(c) /\ active # c
  <2>1. ServerOK' /\ HubOK' /\ HubInv'
    BY <1>2 DEF ListenerEnds, server
  <2>2. QED
    BY <1>2, <2>1, ClientsUntouched DEF ListenerEnds
<1>3. CASE ListenerClosed(c)
  <2>1. ServerOK'
    BY <1>3 DEF ListenerClosed, Close
  <2>2. HubOK' /\ HubInv'
    BY <1>3 DEF ListenerClosed, Close
  <2>3. QED
    BY <1>3, <2>1, <2>2, ClientsUntouched DEF ListenerClosed
<1>4. QED
  BY <1>1, <1>2, <1>3

-----------------------------------------------------------------------------
(* The listener's events and the handlers.                                 *)

\* An event is put into a queue that has room, or ends it.
LEMMA DeliverInv ==
    ASSUME IInv, NEW c \in Conns, Deliver(c)
    PROVE  IInv'
<1> DEFINE n == Head(wire[c])
           to == {x \in Clients : log[n] \in registered[x]}
           slow == {x \in to : Len(queue[x]) >= Capacity}
<1>1. /\ n \in 1..MaxMessages /\ Tail(wire[c]) \in Seq(1..MaxMessages)
      /\ tag[c] \in 1..MaxTags
  <2>1. wire[c] \in Seq(1..MaxMessages) /\ wire[c] # <<>>
    BY DEF IInv, ServerOK, Deliver
  <2>2. tag[c] \in 0..MaxTags /\ tag[c] # 0
    BY NoneIsNoConn DEF IInv, ServerOK, HubInv, Deliver
  <2>3. n \in 1..MaxMessages /\ Tail(wire[c]) \in Seq(1..MaxMessages)
    BY <2>1, HeadTailProperties
  <2>4. QED
    BY <2>2, <2>3, SubscriptionAssumption
<1>2. ServerOK' /\ HubOK' /\ HubInv'
  <2>1. wire' \in [Conns -> Seq(1..MaxMessages)]
    BY <1>1 DEF IInv, ServerOK, Deliver
  <2>2. QED
    BY <2>1 DEF IInv, ServerOK, HubOK, HubInv, Deliver, hub
<1>3. ASSUME NEW x \in Clients
      PROVE  /\ queue'[x] \in Seq((1..MaxMessages) \cup {End})
             /\ Len(queue'[x]) <= Capacity
             /\ feed'[x] \in Seq(Conns \X (1..MaxTags) \X (1..MaxMessages))
             /\ registered'[x] \in SUBSET Keys
  <2>1. /\ queue[x] \in Seq((1..MaxMessages) \cup {End}) /\ Len(queue[x]) <= Capacity
        /\ feed[x] \in Seq(Conns \X (1..MaxTags) \X (1..MaxMessages))
        /\ registered[x] \in SUBSET Keys
    BY DEF IInv, ClientsOK
  <2>2. CASE x \in slow
    <3>1. queue'[x] = <<End>> /\ registered'[x] = {} /\ feed'[x] = feed[x]
      BY <2>2 DEF Deliver
    <3>2. Len(<<End>>) = 1 /\ <<End>> \in Seq((1..MaxMessages) \cup {End})
      OBVIOUS
    <3>3. QED
      BY <2>1, <3>1, <3>2, SubscriptionAssumption
  <2>3. CASE x \in to \ slow
    <3>1. /\ queue'[x] = Append(queue[x], n) /\ registered'[x] = registered[x]
          /\ feed'[x] = Append(feed[x], <<c, tag[c], n>>)
      BY <2>3 DEF Deliver
    <3>2. Len(queue[x]) \in Nat /\ Len(queue[x]) < Capacity
      BY <2>1, <2>3, SubscriptionAssumption
    <3>3. <<c, tag[c], n>> \in Conns \X (1..MaxTags) \X (1..MaxMessages)
      BY <1>1
    <3>4. /\ queue'[x] \in Seq((1..MaxMessages) \cup {End})
          /\ Len(queue'[x]) = Len(queue[x]) + 1
      BY <1>1, <2>1, <3>1
    <3>5. feed'[x] \in Seq(Conns \X (1..MaxTags) \X (1..MaxMessages))
      BY <2>1, <3>1, <3>3
    <3>6. QED
      BY <2>1, <3>1, <3>2, <3>4, <3>5, SubscriptionAssumption
  <2>4. CASE x \notin to
    BY <2>1, <2>4 DEF Deliver
  <2>5. QED
    BY <2>2, <2>3, <2>4
<1>4. ClientsOK'
  <2>1. /\ registered' = [x \in Clients |-> registered'[x]]
        /\ queue' = [x \in Clients |-> queue'[x]]
        /\ feed' = [x \in Clients |-> feed'[x]]
    BY DEF Deliver
  <2>2. QED
    BY <1>3, <2>1 DEF IInv, ClientsOK, Deliver
<1>5. ASSUME NEW x \in Clients
      PROVE  IF state'[x] = "out" THEN registered'[x] = {} ELSE Fed(x)' \/ Told(x)'
  <2>1. CASE x \in slow
    BY <2>1 DEF IInv, ClientInv, Deliver, Told
  <2>2. CASE x \in to \ slow
    <3>1. state[x] # "out" /\ Fed(x)
      BY <2>2 DEF IInv, ClientInv, Told
    <3>2. queue'[x] = Append(queue[x], n) /\ registered'[x] = registered[x]
      BY <2>2 DEF Deliver
    <3>3. \A i \in DOMAIN queue'[x] : queue'[x][i] # End
      BY <1>1, <3>1, <3>2, NoneIsNoConn DEF IInv, ClientsOK, Fed
    <3>4. QED
      BY <3>1, <3>2, <3>3 DEF Fed, Deliver, hub
  <2>3. CASE x \notin to
    BY <2>3 DEF IInv, ClientInv, Deliver, Fed, Told, hub
  <2>4. QED
    BY <2>1, <2>2, <2>3
<1>6. QED
  BY <1>2, <1>4, <1>5 DEF IInv, ClientInv

\* A handler starts, sends and returns; nothing of the others moves.
LEMMA HandlerInv ==
    ASSUME IInv, NEW x \in Clients,
           \/ \E wanted \in (SUBSET Keys) \ {{}} : Subscribe(x, wanted)
           \/ SnapshotSent(x) \/ Send(x) \/ Finish(x) \/ Disconnect(x)
    PROVE  IInv'
<1>1. ServerOK' /\ HubOK' /\ HubInv'
  BY DEF IInv, ServerOK, HubOK, HubInv, Subscribe, SnapshotSent, Send, Finish, Disconnect,
         Exit, server, hub
<1>2. <<>> \in Seq((1..MaxMessages) \cup {End}) /\ Len(<<>>) = 0
      /\ <<>> \in Seq(Conns \X (1..MaxTags) \X (1..MaxMessages))
  OBVIOUS
<1>3. ASSUME NEW wanted \in (SUBSET Keys) \ {{}}, Subscribe(x, wanted)
      PROVE  ClientsOK' /\ ClientInv'
  <2>1. ClientsOK'
    BY <1>2, <1>3, SubscriptionAssumption DEF IInv, ClientsOK, Subscribe
  <2>2. active # None
    BY <1>3 DEF IInv, HubInv, Subscribe, Running
  <2>3. Fed(x)'
    <3>1. queue'[x] = <<>> /\ registered'[x] = wanted /\ interest'[x] = wanted /\ wanted # {}
      BY <1>3 DEF IInv, ClientsOK, Subscribe
    <3>2. \A i \in DOMAIN queue'[x] : FALSE
      BY <3>1
    <3>3. QED
      <4>1. active' = active
        BY <1>3 DEF Subscribe, hub
      <4>2. QED
        BY <2>2, <3>1, <3>2, <4>1 DEF Fed
  <2>4. \A y \in Clients \ {x} :
           IF state'[y] = "out" THEN registered'[y] = {} ELSE Fed(y)' \/ Told(y)'
    BY <1>3 DEF IInv, ClientsOK, ClientInv, Subscribe, Fed, Told, hub
  <2>5. QED
    BY <1>3, <2>1, <2>3, <2>4 DEF IInv, ClientsOK, ClientInv, Subscribe
<1>4. CASE SnapshotSent(x)
  BY <1>1, <1>4 DEF IInv, ClientsOK, ClientInv, SnapshotSent, Fed, Told, hub
<1>5. CASE Send(x)
  <2>1. /\ Tail(queue[x]) \in Seq((1..MaxMessages) \cup {End})
        /\ Len(Tail(queue[x])) <= Capacity
        /\ \A i \in DOMAIN Tail(queue[x]) : i + 1 \in DOMAIN queue[x] /\ Tail(queue[x])[i] = queue[x][i + 1]
    BY <1>5, SubscriptionAssumption DEF IInv, ClientsOK, Send
  <2>2. ClientsOK'
    BY <1>5, <2>1 DEF IInv, ClientsOK, Send
  <2>3. Fed(x)
    BY <1>5 DEF IInv, ClientsOK, ClientInv, Send, Told
  <2>4. Fed(x)'
    BY <1>5, <2>1, <2>3 DEF IInv, ClientsOK, Send, Fed, hub
  <2>5. \A y \in Clients \ {x} :
           IF state'[y] = "out" THEN registered'[y] = {} ELSE Fed(y)' \/ Told(y)'
    BY <1>5 DEF IInv, ClientsOK, ClientInv, Send, Fed, Told, hub
  <2>6. QED
    BY <1>1, <1>5, <2>2, <2>3, <2>4, <2>5 DEF IInv, ClientInv, Send
<1>6. CASE Finish(x) \/ Disconnect(x)
  <2>1. Exit(x)
    BY <1>6 DEF Finish, Disconnect
  <2>2. ClientsOK'
    BY <1>2, <2>1, SubscriptionAssumption DEF IInv, ClientsOK, Exit
  <2>3. ClientInv'
    BY <2>1 DEF IInv, ClientsOK, ClientInv, Exit, Fed, Told, hub
  <2>4. QED
    BY <1>1, <2>2, <2>3 DEF IInv
<1>7. QED
  BY <1>1, <1>3, <1>4, <1>5, <1>6 DEF IInv

\* The invariant is inductive.
LEMMA NextInv == IInv /\ [Next]_vars => IInv'
<1> SUFFICES ASSUME IInv, [Next]_vars PROVE IInv'
  OBVIOUS
<1>1. CASE Next
  BY <1>1, NetworkInv, ConnectInv, ServeInv, RotateInv, SupervisorInv, ShutdownInv,
     ListenerInv, DeliverInv, HandlerInv DEF Next
<1>2. CASE UNCHANGED vars
  BY <1>2 DEF vars, IInv, ServerOK, HubOK, ClientsOK, HubInv, ClientInv, Fed, Told
<1>3. QED
  BY <1>1, <1>2

\* It holds throughout.
LEMMA Invariance == Spec => []IInv
BY InitInv, NextInv, PTL DEF Spec

-----------------------------------------------------------------------------
\* No client is ever left waiting on a queue that nobody feeds, whatever order
\* rotations, failures, the shutdown and slow readers come in
\* (market_subscription.py, _close_all_subscribers before the first await).
THEOREM FedOrToldCorrect == Spec => []FedOrTold
BY Implied, Invariance, PTL

-----------------------------------------------------------------------------
(* The refinement.                                                         *)

\* The hub begins down, with every stream out.
LEMMA AbstractInit == Init => Abstract!Init
BY DEF Init, Abstract!Init, StreamOf

\* Steps that change neither the task nor a stream are not seen.
LEMMA Stutters ==
    ASSUME UNCHANGED <<task, state, registered>>
    PROVE  UNCHANGED <<task, [x \in Clients |-> StreamOf(x)]>>
BY DEF StreamOf

\* Ending the streams on the way down is one step of the abstract hub.
LEMMA DownStep ==
    ASSUME ClientsOK, ClientInv, EndStreams(Streaming), task' = FALSE, task \in BOOLEAN,
           ~task => \A x \in Clients : registered[x] = {}
    PROVE  Abstract!GoDown \/ UNCHANGED <<task, [x \in Clients |-> StreamOf(x)]>>
<1>1. /\ \A x \in Clients : registered'[x] = {}
      /\ state' = state
  BY StreamsEnded DEF EndStreams
<1>2. CASE task
  BY <1>1, <1>2 DEF Abstract!GoDown, StreamOf
<1>3. CASE ~task
  BY <1>1, <1>3 DEF StreamOf
<1>4. QED
  BY <1>2, <1>3

\* An event with slow readers cuts them off; one without is not seen.
LEMMA DeliverStep ==
    ASSUME IInv, NEW c \in Conns, Deliver(c)
    PROVE  \/ \E slow \in SUBSET Clients : Abstract!CutOff(slow)
           \/ UNCHANGED <<task, [x \in Clients |-> StreamOf(x)]>>
<1> DEFINE n == Head(wire[c])
           to == {x \in Clients : log[n] \in registered[x]}
           slow == {x \in to : Len(queue[x]) >= Capacity}
<1>1. /\ registered' = [x \in Clients |-> IF x \in slow THEN {} ELSE registered[x]]
      /\ state' = state /\ task' = task /\ task
  BY NoneIsNoConn DEF Deliver, hub, IInv, HubInv
<1>2. \A x \in slow : StreamOf(x) = "open"
  BY DEF IInv, ClientInv, StreamOf
<1>3. CASE slow = {}
  BY <1>1, <1>3 DEF StreamOf
<1>4. CASE slow # {}
  <2>1. \A x \in Clients : StreamOf(x)' = IF x \in slow THEN "ended" ELSE StreamOf(x)
    BY <1>1, <1>2 DEF StreamOf
  <2>2. Abstract!CutOff(slow)
    BY <1>1, <1>2, <1>4, <2>1 DEF Abstract!CutOff
  <2>3. QED
    BY <2>2
<1>5. QED
  BY <1>3, <1>4

\* Every handler's step is one of its stream, or not seen.
LEMMA HandlerStep ==
    ASSUME IInv, NEW x \in Clients,
           \/ \E wanted \in (SUBSET Keys) \ {{}} : Subscribe(x, wanted)
           \/ SnapshotSent(x) \/ Send(x) \/ Finish(x) \/ Disconnect(x)
    PROVE  \/ Abstract!Open(x) \/ Abstract!Leave(x)
           \/ UNCHANGED <<task, [y \in Clients |-> StreamOf(y)]>>
<1>1. ASSUME NEW wanted \in (SUBSET Keys) \ {{}}, Subscribe(x, wanted)
      PROVE  Abstract!Open(x)
  <2>1. state'[x] = "snapshot" /\ registered'[x] = wanted /\ wanted # {}
    BY <1>1 DEF IInv, ClientsOK, Subscribe
  <2>2. \A y \in Clients \ {x} : state'[y] = state[y] /\ registered'[y] = registered[y]
    BY <1>1 DEF IInv, ClientsOK, Subscribe
  <2>3. \A y \in Clients : StreamOf(y)' = IF y = x THEN "open" ELSE StreamOf(y)
    BY <2>1, <2>2 DEF StreamOf
  <2>4. task /\ task' = task /\ StreamOf(x) = "out"
    BY <1>1 DEF Subscribe, Running, StreamOf, hub
  <2>5. QED
    BY <2>3, <2>4 DEF Abstract!Open
<1>2. CASE SnapshotSent(x)
  BY <1>2 DEF IInv, ClientsOK, SnapshotSent, StreamOf, hub
<1>3. CASE Send(x)
  BY <1>3 DEF Send, StreamOf, hub
<1>4. CASE Finish(x) \/ Disconnect(x)
  <2>1. Exit(x) /\ state[x] # "out"
    BY <1>4 DEF Finish, Disconnect
  <2>2. \A y \in Clients : StreamOf(y)' = IF y = x THEN "out" ELSE StreamOf(y)
    BY <2>1 DEF IInv, ClientsOK, Exit, StreamOf
  <2>3. QED
    BY <2>1, <2>2 DEF Abstract!Leave, Exit, StreamOf, hub
<1>5. QED
  BY <1>1, <1>2, <1>3, <1>4

\* Every step of the subscription is a step of FeedHub, or not seen.
LEMMA AbstractNext ==
    IInv /\ [Next]_vars => [Abstract!Next]_<<task, [x \in Clients |-> StreamOf(x)]>>
<1> SUFFICES ASSUME IInv, [Next]_vars
             PROVE  Abstract!Next \/ UNCHANGED <<task, [x \in Clients |-> StreamOf(x)]>>
  OBVIOUS
<1>1. CASE \E k \in Keys \cup {Invalid} : Publish(k)
  BY <1>1, Stutters DEF Publish, hub, clients
<1>2. ASSUME NEW c \in Conns,
             \/ Acknowledge(c) \/ Drop(c) \/ Connect(c) \/ ConnectFails(c)
             \/ Rotate(c) \/ AbandonRotation(c) \/ ListenerClosed(c)
      PROVE  UNCHANGED <<task, [x \in Clients |-> StreamOf(x)]>>
  BY <1>2, Stutters DEF Acknowledge, Drop, Connect, ConnectFails, Rotate, AbandonRotation,
     ListenerClosed, hub, clients
<1>3. ASSUME NEW c \in Conns, Serve(c) PROVE Abstract!Next
  <2>1. task = FALSE /\ task' = TRUE
    BY <1>3 DEF IInv, HubOK, HubInv, Serve
  <2>2. UNCHANGED [x \in Clients |-> StreamOf(x)]
    BY <1>3 DEF Serve, clients, StreamOf
  <2>3. QED
    BY <2>1, <2>2 DEF Abstract!Next, Abstract!ComeUp
<1>4. ~task => \A x \in Clients : registered[x] = {}
  BY DEF IInv, HubInv, ClientInv, Fed, Told
<1>5. CASE Shutdown
  <2>1. Abstract!GoDown \/ UNCHANGED <<task, [x \in Clients |-> StreamOf(x)]>>
    BY <1>4, <1>5, DownStep DEF IInv, HubOK, Shutdown
  <2>2. QED
    BY <2>1 DEF Abstract!Next
<1>6. ASSUME NEW c \in Conns, ListenerEnds(c)
      PROVE  Abstract!Next \/ UNCHANGED <<task, [x \in Clients |-> StreamOf(x)]>>
  <2>1. CASE active = c
    <3>1. Abstract!GoDown \/ UNCHANGED <<task, [x \in Clients |-> StreamOf(x)]>>
      BY <1>4, <1>6, <2>1, DownStep DEF IInv, HubOK, ListenerEnds
    <3>2. QED
      BY <3>1 DEF Abstract!Next
  <2>2. CASE active # c
    BY <1>6, <2>2, Stutters DEF ListenerEnds, clients
  <2>3. QED
    BY <2>1, <2>2
<1>7. CASE SupervisorExits \/ Stopped
  BY <1>7, Stutters DEF SupervisorExits, Stopped, clients
<1>8. ASSUME NEW c \in Conns, Deliver(c)
      PROVE  Abstract!Next \/ UNCHANGED <<task, [x \in Clients |-> StreamOf(x)]>>
  BY <1>8, DeliverStep DEF Abstract!Next
<1>9. ASSUME NEW x \in Clients,
             \/ \E wanted \in (SUBSET Keys) \ {{}} : Subscribe(x, wanted)
             \/ SnapshotSent(x) \/ Send(x) \/ Finish(x) \/ Disconnect(x)
      PROVE  Abstract!Next \/ UNCHANGED <<task, [y \in Clients |-> StreamOf(y)]>>
  BY <1>9, HandlerStep DEF Abstract!Next
<1>10. CASE UNCHANGED vars
  BY <1>10, Stutters DEF vars
<1>11. QED
  BY <1>1, <1>2, <1>3, <1>5, <1>6, <1>7, <1>8, <1>9, <1>10 DEF Next

\* Seen by its endpoints, the subscription with its rotations, reconnects and
\* failures is the hub of FeedHub (market_subscription.py, the class).
THEOREM HubCorrect == Spec => ImplementsFeedHub
BY AbstractInit, AbstractNext, Invariance, PTL DEF Spec, ImplementsFeedHub, Abstract!Spec

-----------------------------------------------------------------------------
(* The order of what a client is given.                                    *)

\* Connections are opened in order, one at a time, and only by run() or by a
\* supervisor that is making one.
LinkInv ==
    /\ \A c, d \in Conns : link[c] = "unused" /\ c <= d => link[d] = "unused"
    /\ \A c, d \in Conns : link[c] \in {"subscribing", "acked"} /\ link[d] # "unused" => d <= c
    /\ phase = "down" => \A c \in Conns : link[c] = "unused"
    /\ phase = "serving" /\ sup = "waiting" => \A c \in Conns : link[c] \notin {"subscribing", "acked"}
    /\ \A c \in Conns : listener[c] # "none" => link[c] \in {"up", "dropped", "closed"}
    /\ \A c \in Conns : tag[c] <= tags

\* The last event that a connection has been read up to.
Reached(c) == Len(log) - Len(wire[c])

\* What is under way on a connection are the last events published.
WireInv ==
    \A c \in Conns :
        /\ wire[c] # <<>> => Subscribed(c)
        /\ Len(wire[c]) <= Len(log)
        /\ \A i \in 1..Len(wire[c]) : wire[c][i] = Reached(c) + i

\* A client that is fed was last given an event of an older connection, of an
\* older subscription of the active one, or the last event read that it asked for.
UpToDate(x, a) ==
    \/ a[1] < active
    \/ a[1] = active /\ a[2] < tag[active]
    \/ /\ a[1] = active /\ a[2] = tag[active] /\ a[3] <= Reached(active)
       /\ Subscribed(active) => \A m \in a[3] + 1..Reached(active) : log[m] \notin interest[x]

LastInv ==
    \A x \in Clients :
        /\ state[x] = "out" => feed[x] = <<>>
        /\ \A i \in 1..Len(feed[x]) : feed[x][i][3] <= Len(log)
        /\ registered[x] # {} /\ feed[x] # <<>> => UpToDate(x, feed[x][Len(feed[x])])

OrderInv == LinkInv /\ WireInv /\ LastInv /\ FeedInOrder

Entries == Conns \X (1..MaxTags) \X (1..MaxMessages)

\* Connections are opened and replaced in order.
LEMMA LinkStep ==
    ASSUME IInv, LinkInv, Next
    PROVE  LinkInv'
<1> USE DEF IInv, ServerOK, HubOK, HubInv, LinkInv
<1>1. CASE \E k \in Keys \cup {Invalid} : Publish(k)
  BY <1>1 DEF Publish, hub
<1>2. ASSUME NEW e \in Conns, Acknowledge(e) PROVE LinkInv'
  <2>1. tags \in Nat /\ tags' = tags + 1 /\ tag' = [tag EXCEPT ![e] = tags + 1]
    BY <1>2, SubscriptionAssumption DEF Acknowledge
  <2>2. \A c \in Conns : tag'[c] <= tags'
    BY <2>1, SubscriptionAssumption
  <2>3. QED
    BY <1>2, <2>2 DEF Acknowledge, hub
<1>3. ASSUME NEW e \in Conns, Drop(e) PROVE LinkInv'
  BY <1>3 DEF Drop, hub
<1>4. ASSUME NEW e \in Conns, Connect(e) PROVE LinkInv'
  <2>1. /\ link' = [link EXCEPT ![e] = "subscribing"] /\ link[e] = "unused"
        /\ \A d \in Conns : link[d] = "unused" => e <= d
        /\ tag' = tag /\ tags' = tags
    BY <1>4 DEF Connect, Unused
  <2>2. \A c \in Conns : link[c] \notin {"subscribing", "acked"}
    BY <1>4 DEF Connect
  <2>3. \A c, d \in Conns : link'[c] = "unused" /\ c <= d => link'[d] = "unused"
    BY <2>1 DEF Conns
  <2>4. \A c, d \in Conns : link'[c] \in {"subscribing", "acked"} /\ link'[d] # "unused" => d <= c
    BY <2>1, <2>2 DEF Conns
  <2>5. phase' # "down" /\ ~(phase' = "serving" /\ sup' = "waiting")
    BY <1>4 DEF Connect
  <2>6. \A c \in Conns : listener'[c] # "none" => link'[c] \in {"up", "dropped", "closed"}
    BY <1>4, <2>1 DEF Connect
  <2>7. QED
    BY <2>1, <2>3, <2>4, <2>5, <2>6
<1>5. ASSUME NEW e \in Conns,
             \/ ConnectFails(e) \/ Serve(e) \/ Rotate(e) \/ AbandonRotation(e)
      PROVE  LinkInv'
  <2>1. /\ link[e] \in {"subscribing", "acked"}
        /\ link'[e] \in {"up", "closed"} /\ \A c \in Conns : c # e => link'[c] = link[c]
        /\ tag' = tag /\ tags' = tags
    BY <1>5 DEF ConnectFails, Serve, Rotate, AbandonRotation, Close
  <2>2. ASSUME NEW c \in Conns PROVE link'[c] \notin {"subscribing", "acked"}
    <3>1. CASE c = e
      BY <2>1, <3>1
    <3>2. CASE c # e
      <4>1. c \in Int /\ e \in Int /\ ~(c <= e /\ e <= c)
        BY <3>2 DEF Conns
      <4>2. link[c] \notin {"subscribing", "acked"}
        BY <2>1, <4>1
      <4>3. QED
        BY <2>1, <3>2, <4>2
    <3>3. QED
      BY <3>1, <3>2
  <2>3. \A c \in Conns : link'[c] = "unused" <=> link[c] = "unused"
    BY <2>1
  <2>4. phase' # "down"
    BY <1>5 DEF ConnectFails, Serve, Rotate, AbandonRotation
  <2>5. \A c \in Conns : listener'[c] # "none" => link'[c] \in {"up", "dropped", "closed"}
    <3>1. CASE ConnectFails(e) \/ AbandonRotation(e)
      BY <2>1, <3>1 DEF ConnectFails, AbandonRotation
    <3>2. CASE Serve(e)
      BY <2>1, <3>2 DEF Serve
    <3>3. CASE Rotate(e)
      <4>1. cur \in Conns /\ active = cur /\ link[cur] \in {"up", "dropped"}
        BY <3>3, NoneIsNoConn DEF Rotate
      <4>2. link'[e] = "up" /\ link'[cur] = link[cur]
        BY <3>3, <4>1 DEF Rotate
      <4>3. \A c \in Conns : c # e /\ c # cur => listener'[c] = listener[c]
        BY <3>3 DEF Rotate
      <4>4. QED
        BY <2>1, <4>1, <4>2, <4>3
    <3>4. QED
      BY <1>5, <3>1, <3>2, <3>3
  <2>6. QED
    BY <2>1, <2>2, <2>3, <2>4, <2>5
<1>6. CASE SupervisorExits \/ Shutdown
  BY <1>6 DEF SupervisorExits, Shutdown, server
<1>7. CASE Stopped
  BY <1>7 DEF Stopped
<1>8. ASSUME NEW e \in Conns, Deliver(e) PROVE LinkInv'
  BY <1>8 DEF Deliver, hub
<1>9. ASSUME NEW e \in Conns, ListenerEnds(e) PROVE LinkInv'
  BY <1>9 DEF ListenerEnds, server
<1>10. ASSUME NEW e \in Conns, ListenerClosed(e) PROVE LinkInv'
  <2>1. /\ link[e] \in {"up", "dropped", "closed"}
        /\ link'[e] = "closed" /\ \A c \in Conns : c # e => link'[c] = link[c]
        /\ phase' = phase /\ sup' = sup /\ tag' = tag /\ tags' = tags
    BY <1>10 DEF ListenerClosed, Close
  <2>2. \A c \in Conns : /\ link'[c] \in {"unused", "subscribing", "acked"} => link'[c] = link[c]
                         /\ link'[c] = "unused" <=> link[c] = "unused"
                         /\ link[c] = "closed" => link'[c] = "closed"
    BY <2>1
  <2>3. \A c \in Conns : listener'[c] # "none" => link'[c] \in {"up", "dropped", "closed"}
    BY <1>10, <2>1 DEF ListenerClosed
  <2>4. QED
    BY <2>1, <2>2, <2>3
<1>11. ASSUME NEW x \in Clients,
             \/ \E wanted \in (SUBSET Keys) \ {{}} : Subscribe(x, wanted)
             \/ SnapshotSent(x) \/ Send(x) \/ Finish(x) \/ Disconnect(x)
      PROVE  LinkInv'
  BY <1>11 DEF Subscribe, SnapshotSent, Send, Finish, Disconnect, Exit, server, hub
<1>12. QED
  BY <1>1, <1>2, <1>3, <1>4, <1>5, <1>6, <1>7, <1>8, <1>9, <1>10, <1>11 DEF Next

\* A connection that loses its events, or keeps them and its subscription.
LEMMA WireKept ==
    ASSUME IInv, WireInv, log' = log,
           \A c \in Conns : \/ wire'[c] = <<>>
                            \/ wire'[c] = wire[c] /\ (Subscribed(c) => Subscribed(c)')
    PROVE  WireInv'
<1> SUFFICES ASSUME NEW c \in Conns
             PROVE  /\ wire'[c] # <<>> => Subscribed(c)'
                    /\ Len(wire'[c]) <= Len(log')
                    /\ \A i \in 1..Len(wire'[c]) : wire'[c][i] = Reached(c)' + i
  BY DEF WireInv
<1>1. CASE wire'[c] = <<>>
  BY <1>1 DEF IInv, ServerOK
<1>2. CASE wire'[c] = wire[c] /\ (Subscribed(c) => Subscribed(c)')
  <2>1. Reached(c)' = Reached(c)
    BY <1>2 DEF Reached
  <2>2. QED
    BY <1>2, <2>1 DEF WireInv
<1>3. QED
  BY <1>1, <1>2

\* An event is sent to every connection that is subscribed.
LEMMA PublishWire ==
    ASSUME IInv, WireInv, NEW k \in Keys \cup {Invalid}, Publish(k)
    PROVE  /\ WireInv' /\ Len(log') = Len(log) + 1
           /\ \A c \in Conns : Reached(c)' = IF Subscribed(c) THEN Reached(c) ELSE Len(log')
<1>1. Len(log) \in Nat /\ Len(log') = Len(log) + 1 /\ log' \in Seq(Keys \cup {Invalid})
  BY DEF IInv, ServerOK, Publish
<1>2. ASSUME NEW c \in Conns
      PROVE  /\ wire'[c] # <<>> => Subscribed(c)'
             /\ Len(wire'[c]) <= Len(log')
             /\ \A i \in 1..Len(wire'[c]) : wire'[c][i] = Reached(c)' + i
             /\ Reached(c)' = IF Subscribed(c) THEN Reached(c) ELSE Len(log')
  <2>1. wire[c] \in Seq(1..MaxMessages) /\ Len(wire[c]) \in Nat /\ Subscribed(c)' = Subscribed(c)
    BY DEF IInv, ServerOK, Publish, Subscribed
  <2>2. CASE Subscribed(c)
    <3>1. wire'[c] = Append(wire[c], Len(log) + 1)
      BY <2>2 DEF Publish
    <3>2. /\ Len(wire'[c]) = Len(wire[c]) + 1
          /\ \A i \in 1..Len(wire[c]) : wire'[c][i] = wire[c][i]
          /\ wire'[c][Len(wire[c]) + 1] = Len(log) + 1
      <4>1. Len(log) + 1 \in 1..MaxMessages
        BY <1>1, SubscriptionAssumption DEF Publish
      <4>2. QED
        BY <2>1, <3>1, <4>1, AppendProperties
    <3>3. Len(wire[c]) <= Len(log) /\ Reached(c)' = Reached(c)
      <4>1. Len(wire[c]) <= Len(log)
        BY DEF WireInv
      <4>2. Reached(c)' = Len(log') - Len(wire'[c]) /\ Reached(c) = Len(log) - Len(wire[c])
        BY DEF Reached
      <4>3. QED
        BY <1>1, <2>1, <3>2, <4>1, <4>2
    <3>4. \A i \in 1..Len(wire[c]) + 1 : wire'[c][i] = Reached(c) + i
      <4> SUFFICES ASSUME NEW i \in 1..Len(wire[c]) + 1 PROVE wire'[c][i] = Reached(c) + i
        OBVIOUS
      <4>1. CASE i = Len(wire[c]) + 1
        BY <1>1, <2>1, <3>2, <4>1 DEF Reached
      <4>2. CASE i \in 1..Len(wire[c])
        BY <3>2, <4>2 DEF WireInv
      <4>3. QED
        BY <2>1, <4>1, <4>2
    <3>5. QED
      BY <1>1, <2>1, <2>2, <3>2, <3>3, <3>4
  <2>3. CASE ~Subscribed(c)
    <3>1. wire[c] = <<>> /\ wire'[c] = <<>>
      BY <2>3 DEF WireInv, Publish
    <3>2. QED
      BY <1>1, <2>3, <3>1 DEF Reached
  <2>4. QED
    BY <2>2, <2>3
<1>3. QED
  BY <1>1, <1>2 DEF WireInv

\* The event that is read is the next one of the connection.
LEMMA DeliverWire ==
    ASSUME IInv, WireInv, NEW e \in Conns, Deliver(e)
    PROVE  /\ WireInv'
           /\ Head(wire[e]) = Reached(e) + 1 /\ Head(wire[e]) <= Len(log) /\ Subscribed(e)
           /\ Reached(e)' = Reached(e) + 1 /\ Reached(e) \in Nat
           /\ log' = log /\ link' = link /\ tag' = tag /\ active' = active /\ active = e
<1>1. /\ wire[e] \in Seq(1..MaxMessages) /\ wire[e] # <<>> /\ Len(log) \in Nat
      /\ wire' = [wire EXCEPT ![e] = Tail(wire[e])]
      /\ log' = log /\ link' = link /\ tag' = tag /\ active' = active /\ active = e
  BY DEF IInv, ServerOK, Deliver, hub
<1>2. /\ Len(wire[e]) \in Nat \ {0} /\ wire[e][1] = Head(wire[e])
      /\ Len(wire'[e]) = Len(wire[e]) - 1
      /\ \A i \in 1..Len(wire[e]) - 1 : wire'[e][i] = wire[e][i + 1]
  <2>1. wire'[e] = Tail(wire[e])
    BY <1>1 DEF IInv, ServerOK
  <2>2. wire[e][1] = Head(wire[e]) /\ Len(wire[e]) \in Nat \ {0}
    BY <1>1
  <2>3. QED
    BY <1>1, <2>1, <2>2, HeadTailProperties
<1>3. Subscribed(e) /\ Len(wire[e]) <= Len(log) /\ \A i \in 1..Len(wire[e]) : wire[e][i] = Reached(e) + i
  BY <1>1 DEF WireInv
<1>4. Reached(e) \in Nat /\ Reached(e)' = Reached(e) + 1 /\ Head(wire[e]) = Reached(e) + 1 /\ Head(wire[e]) <= Len(log)
  <2>1. 1 \in 1..Len(wire[e])
    BY <1>2
  <2>2. wire[e][1] = Reached(e) + 1
    BY <1>3, <2>1
  <2>3. Reached(e) \in Nat /\ Reached(e)' = Reached(e) + 1
    <3>1. Reached(e)' = Len(log) - Len(wire'[e]) /\ Reached(e) = Len(log) - Len(wire[e])
      BY <1>1 DEF Reached
    <3>2. QED
      BY <1>1, <1>2, <1>3, <3>1
  <2>4. Reached(e) + 1 <= Len(log)
    BY <1>1, <1>2, <1>3 DEF Reached
  <2>5. QED
    BY <1>2, <2>2, <2>3, <2>4
<1>5. ASSUME NEW c \in Conns
      PROVE  /\ wire'[c] # <<>> => Subscribed(c)'
             /\ Len(wire'[c]) <= Len(log')
             /\ \A i \in 1..Len(wire'[c]) : wire'[c][i] = Reached(c)' + i
  <2>1. CASE c = e
    <3>1. \A i \in 1..Len(wire'[e]) : wire[e][i + 1] = Reached(e) + (i + 1)
      BY <1>2, <1>3
    <3>2. \A i \in 1..Len(wire'[e]) : wire'[e][i] = Reached(e)' + i
      <4> SUFFICES ASSUME NEW i \in 1..Len(wire'[e]) PROVE wire'[e][i] = Reached(e)' + i
        OBVIOUS
      <4>1. i \in 1..Len(wire[e]) - 1 /\ i \in Nat
        BY <1>2
      <4>2. wire'[e][i] = wire[e][i + 1] /\ wire[e][i + 1] = Reached(e) + (i + 1)
        BY <1>2, <3>1, <4>1
      <4>3. QED
        BY <1>4, <4>1, <4>2
    <3>3. QED
      BY <1>1, <1>2, <1>3, <2>1, <3>2 DEF Subscribed
  <2>2. CASE c # e
    <3>1. wire'[c] = wire[c] /\ Reached(c)' = Reached(c) /\ Subscribed(c)' = Subscribed(c)
      BY <1>1, <2>2 DEF Reached, Subscribed
    <3>2. QED
      BY <1>1, <3>1 DEF WireInv
  <2>3. QED
    BY <2>1, <2>2
<1>6. QED
  BY <1>1, <1>3, <1>4, <1>5 DEF WireInv

\* What is under way on a connection are always the last events published.
LEMMA WireStep ==
    ASSUME IInv, LinkInv, WireInv, Next
    PROVE  WireInv'
<1> USE DEF IInv, ServerOK, Subscribed
<1>1. CASE \E k \in Keys \cup {Invalid} : Publish(k)
  BY <1>1, PublishWire
<1>2. ASSUME NEW e \in Conns, Deliver(e) PROVE WireInv'
  BY <1>2, DeliverWire
<1>3. ASSUME NEW e \in Conns, Acknowledge(e) PROVE WireInv'
  BY <1>3, WireKept DEF Acknowledge
<1>4. ASSUME NEW e \in Conns, Serve(e) \/ Rotate(e) PROVE WireInv'
  BY <1>4, WireKept DEF Serve, Rotate
<1>5. ASSUME NEW e \in Conns, Connect(e) PROVE WireInv'
  BY <1>5, WireKept DEF Connect, Unused
<1>6. ASSUME NEW e \in Conns,
             Drop(e) \/ ConnectFails(e) \/ AbandonRotation(e) \/ ListenerClosed(e)
      PROVE  WireInv'
  BY <1>6, WireKept DEF Drop, ConnectFails, AbandonRotation, ListenerClosed, Close
<1>7. CASE Stopped
  BY <1>7, WireKept DEF Stopped
<1>8. ASSUME NEW e \in Conns, ListenerEnds(e) PROVE WireInv'
  BY <1>8, WireKept DEF ListenerEnds, server
<1>9. CASE SupervisorExits \/ Shutdown
  BY <1>9, WireKept DEF SupervisorExits, Shutdown, server
<1>10. ASSUME NEW x \in Clients,
             \/ \E wanted \in (SUBSET Keys) \ {{}} : Subscribe(x, wanted)
             \/ SnapshotSent(x) \/ Send(x) \/ Finish(x) \/ Disconnect(x)
      PROVE  WireInv'
  BY <1>10, WireKept DEF Subscribe, SnapshotSent, Send, Finish, Disconnect, Exit, server
<1>11. QED
  BY <1>1, <1>2, <1>3, <1>4, <1>5, <1>6, <1>7, <1>8, <1>9, <1>10 DEF Next

\* What FeedInOrder says of two entries of a client.
Follows(x, a, b) ==
    \/ a[1] < b[1]
    \/ a[1] = b[1] /\ a[2] < b[2]
    \/ /\ a[1] = b[1] /\ a[2] = b[2] /\ a[3] < b[3]
       /\ \A m \in (a[3] + 1)..(b[3] - 1) : log[m] \notin interest[x]

ClientOrder(x) ==
    /\ state[x] = "out" => feed[x] = <<>>
    /\ \A i \in 1..Len(feed[x]) : feed[x][i][3] <= Len(log)
    /\ registered[x] # {} /\ feed[x] # <<>> => UpToDate(x, feed[x][Len(feed[x])])
    /\ \A i \in 1..Len(feed[x]) - 1 : Follows(x, feed[x][i], feed[x][i + 1])

LEMMA OrderParts == (\A x \in Clients : ClientOrder(x)) <=> LastInv /\ FeedInOrder
BY DEF ClientOrder, LastInv, FeedInOrder, Follows

\* The entries of a client.
LEMMA FeedEntries ==
    ASSUME IInv, NEW x \in Clients
    PROVE  /\ feed[x] \in Seq(Entries) /\ Len(feed[x]) \in Nat
           /\ \A i \in 1..Len(feed[x]) :
                feed[x][i][1] \in Conns /\ feed[x][i][2] \in 1..MaxTags /\ feed[x][i][3] \in 1..MaxMessages
           /\ feed[x] # <<>> => Len(feed[x]) \in 1..Len(feed[x])
<1>1. feed[x] \in Seq(Entries)
  BY DEF IInv, ClientsOK, Entries
<1>2. \A i \in 1..Len(feed[x]) : feed[x][i] \in Entries
  BY <1>1, ElementOfSeq
<1>3. Len(feed[x]) \in Nat /\ (feed[x] # <<>> => Len(feed[x]) \in 1..Len(feed[x]))
  BY <1>1
<1>4. QED
  BY <1>1, <1>2, <1>3 DEF Entries

\* A log that grows leaves what was given in order.
LEMMA FeedKept ==
    ASSUME IInv, NEW x \in Clients, ClientOrder(x),
           log' = log \/ \E k \in Keys \cup {Invalid} : log' = Append(log, k),
           feed'[x] = feed[x], interest'[x] = interest[x], state'[x] = "out" => state[x] = "out",
           registered'[x] # {} => registered[x] # {},
           registered'[x] # {} /\ feed[x] # <<>> /\ UpToDate(x, feed[x][Len(feed[x])])
              => UpToDate(x, feed[x][Len(feed[x])])'
    PROVE  ClientOrder(x)'
<1>1. /\ Len(log) \in Nat /\ Len(log') \in Nat /\ Len(log) <= Len(log')
      /\ \A m \in 1..Len(log) : log'[m] = log[m]
  <2>1. log \in Seq(Keys \cup {Invalid})
    BY DEF IInv, ServerOK
  <2>2. QED
    BY <2>1, AppendProperties
<1>2. \A i \in 1..Len(feed'[x]) : feed'[x][i][3] <= Len(log')
  BY <1>1, FeedEntries, SubscriptionAssumption DEF ClientOrder
<1>3. ASSUME NEW i \in 1..Len(feed[x]) - 1
      PROVE  Follows(x, feed[x][i], feed[x][i + 1])'
  <2>1. i + 1 \in 1..Len(feed[x]) /\ i \in 1..Len(feed[x])
    BY FeedEntries
  <2>2. feed[x][i + 1][3] <= Len(log) /\ Follows(x, feed[x][i], feed[x][i + 1])
    BY <2>1 DEF ClientOrder
  <2>3. feed[x][i + 1][3] \in Nat /\ feed[x][i][3] \in Nat
    BY <2>1, FeedEntries, SubscriptionAssumption
  <2>4. \A m \in (feed[x][i][3] + 1)..(feed[x][i + 1][3] - 1) : m \in 1..Len(log)
    <3>1. \A a, b, l \in Nat : b <= l => \A m \in (a + 1)..(b - 1) : m \in 1..l
      OBVIOUS
    <3>2. QED
      BY <1>1, <2>2, <2>3, <3>1
  <2>5. feed'[x][i] = feed[x][i] /\ feed'[x][i + 1] = feed[x][i + 1]
    OBVIOUS
  <2>6. QED
    BY <1>1, <2>2, <2>4, <2>5 DEF Follows
<1>4. registered'[x] # {} /\ feed'[x] # <<>> => UpToDate(x, feed[x][Len(feed[x])])'
  BY DEF ClientOrder
<1>5. QED
  BY <1>2, <1>3, <1>4 DEF ClientOrder

\* The steps of Valkey and of the connections: what is active has been read as
\* far as before, or has got a new subscription.
LEMMA NetworkOrder ==
    ASSUME IInv, LinkInv, WireInv, NEW x \in Clients, ClientOrder(x),
           \/ \E k \in Keys \cup {Invalid} : Publish(k)
           \/ \E c \in Conns : Acknowledge(c) \/ Drop(c)
    PROVE  ClientOrder(x)'
<1> DEFINE a == feed[x][Len(feed[x])]
<1>1. feed[x] # <<>> => a[1] \in Nat /\ a[2] \in Nat /\ a[3] \in Nat
  BY FeedEntries, SubscriptionAssumption DEF Conns
<1>2. registered[x] # {} => active \in Conns
  BY DEF IInv, HubOK, HubInv, ClientInv, Fed, Told
<1>3. Len(log) \in Nat /\ \A c \in Conns : Reached(c) \in Nat /\ Reached(c) <= Len(log)
  <2>1. Len(log) \in Nat /\ \A c \in Conns : Len(wire[c]) \in Nat /\ Len(wire[c]) <= Len(log)
    BY DEF IInv, ServerOK, WireInv
  <2>2. QED
    BY <2>1 DEF Reached
<1>4. ASSUME NEW k \in Keys \cup {Invalid}, Publish(k) PROVE ClientOrder(x)'
  <2>1. UNCHANGED <<feed, interest, state, registered, active, link, tag>>
    BY <1>4 DEF Publish, clients, hub
  <2>2. ASSUME registered[x] # {}, feed[x] # <<>>, UpToDate(x, a) PROVE UpToDate(x, a)'
    <3>1. CASE a[1] < active \/ (a[1] = active /\ a[2] < tag[active])
      BY <2>1, <3>1 DEF UpToDate
    <3>2. CASE /\ a[1] = active /\ a[2] = tag[active] /\ a[3] <= Reached(active)
               /\ Subscribed(active) => \A m \in a[3] + 1..Reached(active) : log[m] \notin interest[x]
      <4>1. Reached(active)' = IF Subscribed(active) THEN Reached(active) ELSE Len(log) + 1
        BY <1>2, <1>4, <2>1, <2>2, PublishWire DEF Reached
      <4>2. a[3] <= Reached(active)' /\ Subscribed(active)' = Subscribed(active)
        BY <1>1, <1>2, <1>3, <2>1, <2>2, <3>2, <4>1 DEF Subscribed
      <4>3. Subscribed(active) => \A m \in a[3] + 1..Reached(active) : log'[m] = log[m]
        <5>1. \A m \in 1..Len(log) : log'[m] = log[m]
          BY <1>4 DEF Publish, IInv, ServerOK
        <5>2. \A m \in a[3] + 1..Reached(active) : m \in 1..Len(log)
          BY <1>1, <1>2, <1>3, <2>2
        <5>3. QED
          BY <5>1, <5>2
      <4>4. Subscribed(active)' => \A m \in a[3] + 1..Reached(active)' : log'[m] \notin interest[x]
        BY <3>2, <4>1, <4>2, <4>3
      <4>5. a' = a /\ active' = active /\ tag'[active'] = tag[active] /\ interest'[x] = interest[x]
        BY <2>1
      <4>6. a[1] = active /\ a[2] = tag[active] /\ a[3] <= Reached(active)'
        BY <3>2, <4>2
      <4> HIDE DEF a
      <4>7. QED
        BY <4>4, <4>5, <4>6 DEF UpToDate
    <3>3. \/ a[1] < active \/ (a[1] = active /\ a[2] < tag[active])
          \/ /\ a[1] = active /\ a[2] = tag[active] /\ a[3] <= Reached(active)
             /\ Subscribed(active) => \A m \in a[3] + 1..Reached(active) : log[m] \notin interest[x]
      BY <2>2 DEF UpToDate
    <3>4. QED
      BY <3>1, <3>2, <3>3
  <2>3. QED
    BY <1>4, <2>1, <2>2, FeedKept DEF Publish
<1>5. ASSUME NEW c \in Conns, Acknowledge(c) PROVE ClientOrder(x)'
  <2>1. UNCHANGED <<feed, interest, state, registered, active, log, wire>>
    BY <1>5 DEF Acknowledge, clients, hub
  <2>2. ASSUME registered[x] # {}, feed[x] # <<>>, UpToDate(x, a) PROVE UpToDate(x, a)'
    <3>1. active \in Conns /\ tag[active] \in Nat /\ tags \in Nat /\ tag[active] <= tags
      BY <1>2, <2>2, SubscriptionAssumption DEF IInv, ServerOK, LinkInv
    <3>2. CASE c = active
      <4>1. tag'[active] = tags + 1
        BY <1>5, <3>1, <3>2 DEF Acknowledge, IInv, ServerOK
      <4>2. QED
        BY <1>1, <2>1, <2>2, <3>1, <4>1 DEF UpToDate
    <3>3. CASE c # active
      <4>1. tag'[active] = tag[active] /\ link'[active] = link[active] /\ Reached(active)' = Reached(active)
        BY <1>5, <2>1, <3>1, <3>3 DEF Acknowledge, IInv, ServerOK, Reached
      <4>2. QED
        BY <2>1, <2>2, <4>1 DEF UpToDate, Subscribed
    <3>4. QED
      BY <3>2, <3>3
  <2>3. QED
    BY <2>1, <2>2, FeedKept
<1>6. ASSUME NEW c \in Conns, Drop(c) PROVE ClientOrder(x)'
  <2>1. UNCHANGED <<feed, interest, state, registered, active, log, tag>>
    BY <1>6 DEF Drop, clients, hub
  <2>2. ASSUME registered[x] # {}, feed[x] # <<>>, UpToDate(x, a) PROVE UpToDate(x, a)'
    <3>1. active \in Conns
      BY <1>2, <2>2
    <3>2. CASE c = active
      <4>1. Reached(active)' = Len(log) /\ ~Subscribed(active)'
        BY <1>3, <1>6, <2>1, <3>1, <3>2 DEF Drop, IInv, ServerOK, Reached, Subscribed
      <4>2. QED
        BY <1>1, <1>3, <2>1, <2>2, <3>1, <4>1 DEF UpToDate
    <3>3. CASE c # active
      <4>1. link'[active] = link[active] /\ Reached(active)' = Reached(active)
        BY <1>6, <2>1, <3>1, <3>3 DEF Drop, IInv, ServerOK, Reached
      <4>2. QED
        BY <2>1, <2>2, <4>1 DEF UpToDate, Subscribed
    <3>4. QED
      BY <3>2, <3>3
  <2>3. QED
    BY <2>1, <2>2, FeedKept
<1>7. QED
  BY <1>4, <1>5, <1>6

\* A rotation moves on to a connection newer than all that were used.
LEMMA RotateOrder ==
    ASSUME IInv, LinkInv, NEW x \in Clients, ClientOrder(x), NEW c \in Conns, Rotate(c)
    PROVE  ClientOrder(x)'
<1>1. UNCHANGED <<feed, interest, state, registered, log>> /\ active' = c
  BY DEF Rotate, clients
<1>2. active \in Conns /\ active < c
  <2>1. active \in Conns /\ link[active] \in {"up", "dropped"} /\ link[c] = "acked"
    BY NoneIsNoConn DEF Rotate, IInv, HubOK, HubInv
  <2>2. active <= c /\ active # c
    BY <2>1 DEF LinkInv
  <2>3. QED
    BY <2>1, <2>2 DEF Conns
<1>3. feed[x] # <<>> => feed[x][Len(feed[x])][1] \in Conns
  BY FeedEntries
<1>4. ASSUME feed[x] # <<>>, UpToDate(x, feed[x][Len(feed[x])])
      PROVE  UpToDate(x, feed[x][Len(feed[x])])'
  <2>1. feed[x][Len(feed[x])][1] \in Nat /\ active \in Nat /\ c \in Nat
    BY <1>2, <1>3, <1>4 DEF Conns
  <2>2. feed[x][Len(feed[x])][1] <= active
    BY <1>4, <2>1 DEF UpToDate
  <2>3. feed[x][Len(feed[x])][1] < active'
    BY <1>1, <1>2, <2>1, <2>2
  <2>4. QED
    BY <1>1, <2>3 DEF UpToDate
<1>5. QED
  BY <1>1, <1>4, FeedKept

\* The other steps of the hub end what is active, or leave it as it is.
LEMMA HubOrder ==
    ASSUME IInv, LinkInv, NEW x \in Clients, ClientOrder(x),
           \/ SupervisorExits \/ Shutdown \/ Stopped
           \/ \E c \in Conns : \/ Connect(c) \/ ConnectFails(c) \/ Serve(c) \/ AbandonRotation(c)
                               \/ ListenerEnds(c) \/ ListenerClosed(c)
    PROVE  ClientOrder(x)'
<1>1. UNCHANGED <<feed, interest, state, log>> /\ (registered'[x] # {} => registered'[x] = registered[x])
  BY DEF SupervisorExits, Shutdown, Stopped, Connect, ConnectFails, Serve, AbandonRotation,
     ListenerEnds, ListenerClosed, EndStreams, clients, server
<1>2. registered[x] # {} => /\ active \in Conns /\ link[active] \in {"up", "dropped"}
                            /\ listener[active] = "running" /\ phase = "serving"
  BY DEF IInv, HubOK, HubInv, ClientInv, Fed, Told
<1>3. registered'[x] # {} => active' = active
  <2>1. CASE Shutdown \/ \E c \in Conns : ListenerEnds(c)
    BY <2>1, StreamsEnded DEF IInv, Shutdown, ListenerEnds
  <2>2. CASE ~(Shutdown \/ \E c \in Conns : ListenerEnds(c))
    BY <1>1, <1>2, <2>2 DEF SupervisorExits, Stopped, Connect, ConnectFails, Serve, AbandonRotation,
       ListenerClosed
  <2>3. QED
    BY <2>1, <2>2
<1>4. registered'[x] # {} =>
         tag'[active] = tag[active] /\ link'[active] = link[active] /\ wire'[active] = wire[active]
  BY <1>1, <1>2 DEF SupervisorExits, Shutdown, Stopped, Connect, ConnectFails, Serve, AbandonRotation,
     ListenerEnds, ListenerClosed, EndStreams, Close, Unused, server, IInv, ServerOK
<1>5. ASSUME registered'[x] # {}, feed[x] # <<>>, UpToDate(x, feed[x][Len(feed[x])])
      PROVE  UpToDate(x, feed[x][Len(feed[x])])'
  BY <1>1, <1>3, <1>4, <1>5 DEF UpToDate, Subscribed, Reached
<1>6. QED
  BY <1>1, <1>5, FeedKept

\* An event follows the last one of every queue it is put into.
LEMMA DeliverOrder ==
    ASSUME IInv, WireInv, NEW x \in Clients, ClientOrder(x), NEW c \in Conns, Deliver(c)
    PROVE  ClientOrder(x)'
<1> DEFINE n == Head(wire[c])
           to == {y \in Clients : log[n] \in registered[y]}
           slow == {y \in to : Len(queue[y]) >= Capacity}
           a == feed[x][Len(feed[x])]
           b == <<c, tag[c], n>>
<1>1. /\ n = Reached(c) + 1 /\ n <= Len(log) /\ Subscribed(c)
      /\ Reached(c)' = Reached(c) + 1 /\ Reached(c) \in Nat
      /\ log' = log /\ link' = link /\ tag' = tag /\ active' = active /\ active = c
  BY DeliverWire
<1>2. state' = state /\ interest' = interest /\ (registered'[x] # {} => registered'[x] = registered[x])
  BY DEF Deliver
<1>3. registered[x] # {} => registered[x] = interest[x] /\ state[x] # "out"
  BY DEF IInv, ClientInv, Fed, Told
<1>4. /\ feed[x] # <<>> => a[1] \in Nat /\ a[2] \in Nat /\ a[3] \in Nat
      /\ c \in Nat /\ tag[c] \in Nat
  <2>1. feed[x] # <<>> => a[1] \in Nat /\ a[2] \in Nat /\ a[3] \in Nat
    BY FeedEntries, SubscriptionAssumption DEF Conns
  <2>2. c \in Nat /\ tag[c] \in Nat
    BY SubscriptionAssumption DEF Conns, IInv, ServerOK
  <2>3. QED
    BY <2>1, <2>2
<1>5. ASSUME feed[x] # <<>>, registered[x] # {}
      PROVE  \/ a[1] < c
             \/ a[1] = c /\ a[2] < tag[c]
             \/ /\ a[1] = c /\ a[2] = tag[c] /\ a[3] <= Reached(c)
                /\ \A m \in a[3] + 1..Reached(c) : log[m] \notin interest[x]
  BY <1>1, <1>5 DEF ClientOrder, UpToDate
<1>6. CASE x \notin to \/ x \in slow
  <2>1. feed'[x] = feed[x] /\ (registered'[x] # {} => log[n] \notin interest[x])
    BY <1>2, <1>3, <1>6 DEF Deliver
  <2>2. ASSUME registered'[x] # {}, feed[x] # <<>> PROVE UpToDate(x, feed[x][Len(feed[x])])'
    <3>1. ASSUME \A m \in a[3] + 1..Reached(c) : log[m] \notin interest[x]
          PROVE  \A m \in a[3] + 1..Reached(c)' : log[m] \notin interest[x]
      <4>1. \A m \in a[3] + 1..Reached(c) + 1 : m \in a[3] + 1..Reached(c) \/ m = Reached(c) + 1
        BY <1>1, <1>4, <2>2
      <4>2. log[Reached(c) + 1] \notin interest[x]
        BY <1>1, <2>1, <2>2
      <4>3. QED
        BY <1>1, <3>1, <4>1, <4>2
    <3>2. \/ a[1] < c
          \/ a[1] = c /\ a[2] < tag[c]
          \/ /\ a[1] = c /\ a[2] = tag[c] /\ a[3] <= Reached(c)'
             /\ \A m \in a[3] + 1..Reached(c)' : log[m] \notin interest[x]
      BY <1>1, <1>2, <1>4, <1>5, <2>2, <3>1
    <3>3. feed'[x][Len(feed'[x])] = a
      BY <2>1
    <3> HIDE DEF a
    <3>4. QED
      BY <1>1, <1>2, <3>2, <3>3 DEF UpToDate
  <2>3. QED
    BY <1>1, <1>2, <2>1, <2>2, FeedKept
<1>7. CASE x \in to \ slow
  <2>1. feed'[x] = Append(feed[x], b) /\ registered'[x] = registered[x] /\ registered[x] # {}
    BY <1>7 DEF Deliver
  <2>2. b \in Entries
    <3>1. n \in 1..MaxMessages /\ tag[c] \in 1..MaxTags
      <4>1. wire[c] \in Seq(1..MaxMessages) /\ wire[c] # <<>>
        BY DEF IInv, ServerOK, Deliver
      <4>2. tag[c] \in 0..MaxTags /\ tag[c] # 0
        BY NoneIsNoConn DEF IInv, ServerOK, HubInv, Deliver
      <4>3. QED
        BY <4>1, <4>2, HeadTailProperties, SubscriptionAssumption
    <3>2. QED
      BY <3>1 DEF Entries
  <2>3. feed[x] \in Seq(Entries) /\ Len(feed[x]) \in Nat
    BY FeedEntries
  <2>4. /\ Len(feed'[x]) = Len(feed[x]) + 1
        /\ \A i \in 1..Len(feed[x]) : feed'[x][i] = feed[x][i]
        /\ feed'[x][Len(feed[x]) + 1] = b
    <3> HIDE DEF b
    <3>1. QED
      BY <2>1, <2>2, <2>3, AppendProperties
  <2>5. b[1] = c /\ b[2] = tag[c] /\ b[3] = n
    OBVIOUS
  <2> HIDE DEF n, b
  <2>6. \A i \in 1..Len(feed'[x]) : feed'[x][i][3] <= Len(log')
    <3>1. \A i \in 1..Len(feed'[x]) : i \in 1..Len(feed[x]) \/ i = Len(feed[x]) + 1
      BY <2>3, <2>4
    <3>2. \A i \in 1..Len(feed[x]) : feed'[x][i][3] <= Len(log)
      BY <2>4 DEF ClientOrder
    <3>3. feed'[x][Len(feed[x]) + 1][3] <= Len(log)
      BY <1>1, <2>4, <2>5
    <3>4. QED
      BY <1>1, <3>1, <3>2, <3>3
  <2>7. UpToDate(x, feed[x][Len(feed[x])])'
    <3>1. /\ b[1] = c /\ b[2] = tag[c] /\ b[3] <= Reached(c)'
          /\ \A m \in b[3] + 1..Reached(c)' : FALSE
      BY <1>1, <2>5
    <3>2. feed'[x][Len(feed'[x])] = b
      BY <2>4
    <3>3. QED
      BY <1>1, <3>1, <3>2 DEF UpToDate
  <2>8. ASSUME NEW i \in 1..Len(feed[x]) PROVE Follows(x, feed[x][i], feed[x][i + 1])'
    <3>1. CASE i = Len(feed[x])
      <4>1. feed'[x][i] = a /\ feed'[x][i + 1] = b /\ feed[x] # <<>>
        BY <2>3, <2>4, <3>1
      <4>2. \/ a[1] < b[1]
            \/ a[1] = b[1] /\ a[2] < b[2]
            \/ /\ a[1] = b[1] /\ a[2] = b[2] /\ a[3] < b[3]
               /\ \A m \in (a[3] + 1)..(b[3] - 1) : log[m] \notin interest[x]
        <5>1. b[3] - 1 = Reached(c) /\ (a[3] \in Nat /\ a[3] <= Reached(c) => a[3] < b[3])
          BY <1>1, <2>5
        <5>2. QED
          BY <1>4, <1>5, <2>1, <2>5, <4>1, <5>1
      <4> HIDE DEF a
      <4>3. QED
        BY <1>1, <1>2, <4>1, <4>2 DEF Follows
    <3>2. CASE i \in 1..Len(feed[x]) - 1
      <4>1. feed'[x][i] = feed[x][i] /\ feed'[x][i + 1] = feed[x][i + 1]
        BY <2>3, <2>4, <3>2
      <4>2. Follows(x, feed[x][i], feed[x][i + 1])
        BY <3>2 DEF ClientOrder
      <4>3. QED
        BY <1>1, <1>2, <4>1, <4>2 DEF Follows
    <3>3. QED
      BY <2>3, <3>1, <3>2
  <2>9. \A i \in 1..Len(feed'[x]) - 1 : Follows(x, feed[x][i], feed[x][i + 1])'
    BY <2>3, <2>4, <2>8
  <2>10. state'[x] # "out"
    BY <1>2, <1>3, <2>1
  <2>11. QED
    BY <2>6, <2>7, <2>9, <2>10 DEF ClientOrder
<1>8. QED
  BY <1>6, <1>7

\* A handler that returns forgets what it was given, one that starts has nothing.
LEMMA HandlerOrder ==
    ASSUME IInv, NEW x \in Clients, ClientOrder(x), NEW y \in Clients,
           \/ \E wanted \in (SUBSET Keys) \ {{}} : Subscribe(y, wanted)
           \/ SnapshotSent(y) \/ Send(y) \/ Finish(y) \/ Disconnect(y)
    PROVE  ClientOrder(x)'
<1>1. UNCHANGED <<log, link, tag, wire, active>>
  BY DEF Subscribe, SnapshotSent, Send, Finish, Disconnect, Exit, server, hub
<1>2. UpToDate(x, feed[x][Len(feed[x])]) /\ feed'[x] = feed[x] /\ interest'[x] = interest[x]
         => UpToDate(x, feed[x][Len(feed[x])])'
  BY <1>1 DEF UpToDate, Reached, Subscribed
<1>3. CASE y = x /\ \E wanted \in (SUBSET Keys) \ {{}} : Subscribe(y, wanted)
  <2>1. feed'[x] = <<>>
    BY <1>3 DEF Subscribe, ClientOrder
  <2>2. QED
    BY <2>1 DEF ClientOrder
<1>4. CASE y = x /\ (Finish(y) \/ Disconnect(y))
  <2>1. feed'[x] = <<>>
    BY <1>4 DEF Finish, Disconnect, Exit, IInv, ClientsOK
  <2>2. QED
    BY <2>1 DEF ClientOrder
<1>5. CASE y # x \/ SnapshotSent(y) \/ Send(y)
  <2>1. /\ feed'[x] = feed[x] /\ interest'[x] = interest[x] /\ registered'[x] = registered[x]
        /\ state'[x] = "out" => state[x] = "out"
    BY <1>5 DEF Subscribe, SnapshotSent, Send, Finish, Disconnect, Exit, IInv, ClientsOK
  <2>2. QED
    BY <1>1, <1>2, <2>1, FeedKept
<1>6. QED
  BY <1>3, <1>4, <1>5

\* The order is kept by every step.
LEMMA OrderStep == IInv /\ OrderInv /\ [Next]_vars => OrderInv'
<1> SUFFICES ASSUME IInv, OrderInv, [Next]_vars PROVE OrderInv'
  OBVIOUS
<1>1. LinkInv /\ WireInv /\ \A x \in Clients : ClientOrder(x)
  BY OrderParts DEF OrderInv
<1>2. CASE Next
  <2>1. LinkInv' /\ WireInv'
    BY <1>1, <1>2, LinkStep, WireStep
  <2>2. ASSUME NEW x \in Clients PROVE ClientOrder(x)'
    BY <1>1, <1>2, NetworkOrder, RotateOrder, HubOrder, DeliverOrder, HandlerOrder DEF Next
  <2>3. (LastInv /\ FeedInOrder)'
    BY <2>2 DEF ClientOrder, LastInv, FeedInOrder, Follows
  <2>4. QED
    BY <2>1, <2>3 DEF OrderInv
<1>3. CASE UNCHANGED vars
  <2>1. LinkInv' /\ WireInv'
    <3>1. UNCHANGED <<log, link, tag, tags, wire, phase, sup, listener>>
      BY <1>3 DEF vars
    <3>2. \A c \in Conns : Reached(c)' = Reached(c) /\ Subscribed(c)' = Subscribed(c)
      BY <3>1 DEF Reached, Subscribed
    <3>3. QED
      BY <1>1, <3>1, <3>2 DEF LinkInv, WireInv
  <2>2. LastInv' /\ FeedInOrder'
    BY <1>3 DEF OrderInv, vars, LastInv, FeedInOrder, UpToDate, Reached, Subscribed
  <2>3. QED
    BY <2>1, <2>2 DEF OrderInv
<1>4. QED
  BY <1>2, <1>3

\* Before the lifespan begins nothing is under way.
LEMMA OrderInit == Init => OrderInv
<1> SUFFICES ASSUME Init PROVE OrderInv
  OBVIOUS
<1>1. Len(<<>>) = 0
  OBVIOUS
<1>2. LinkInv
  BY SubscriptionAssumption DEF Init, LinkInv
<1>3. WireInv
  BY <1>1 DEF Init, WireInv
<1>4. LastInv /\ FeedInOrder
  BY <1>1 DEF Init, LastInv, FeedInOrder
<1>5. QED
  BY <1>2, <1>3, <1>4 DEF OrderInv

\* A client is given events of ever newer connections and subscriptions, and
\* within one of these in order, each once and none it asked for left out,
\* whatever rotations, drops, neighbours and slow readers come between
\* (market_subscription.py, _listen and the rotation in _supervise).
THEOREM OrderCorrect == Spec => []FeedInOrder
<1>1. Init => IInv /\ OrderInv
  BY InitInv, OrderInit
<1>2. (IInv /\ OrderInv) /\ [Next]_vars => (IInv /\ OrderInv)'
  BY NextInv, OrderStep
<1>3. IInv /\ OrderInv => FeedInOrder
  BY DEF OrderInv
<1>4. QED
  BY <1>1, <1>2, <1>3, PTL DEF Spec
-----------------------------------------------------------------------------
(* The prices on their way to a client.                                    *)

\* The types of PriceFeed: an event has a price of its stock.
FeedOK ==
    /\ ticks \in [Keys -> Nat] /\ stored \in [Keys -> Nat] /\ bars \in [Keys -> Nat]
    /\ resent \in [Keys -> {"never", "open", "over"}]
    /\ sent \in Seq(Nat) /\ Len(sent) = Len(log)
    /\ \A n \in 1..Len(log) : log[n] \in Keys /\ 0 < sent[n] /\ sent[n] <= ticks[log[n]]
    /\ stage \in [Clients -> {"none", "get", "query", "fill", "again", "send"}]
    /\ values \in [Clients -> [Keys -> Nat]] /\ filled \in [Clients -> [Keys -> Nat]]
    /\ shown \in [Clients -> [Keys -> Nat]]
    /\ since \in [Conns -> Nat] /\ base \in [Clients -> Nat]

\* The pipeline of n ticks of stock k, of which done commands are executed: no
\* price published is newer than its last, nor, unless it was sent again, than
\* the last it has published; and it publishes what is stored.
Pipeline(k, first, n) ==
    /\ pipe = Commands(k, first, n) /\ done \in 0..(2 * n)
    /\ first + n - 1 <= ticks[k]
    /\ \A m \in 1..Len(log) : log[m] = k =>
        /\ sent[m] <= first + n - 1
        /\ resent[k] # "open" => sent[m] <= first - 1 + (done \div 2)
    /\ done = 2 * (done \div 2) + 1 => stored[k] = first + (done \div 2)

PipeInv ==
    \/ pipe = <<>> /\ done = 0
    \/ \E k \in Keys, first \in Nat \ {0}, n \in Nat \ {0} : Pipeline(k, first, n)

\* What is stored is as new as anything published, but for a pipeline sent again.
StoredInv == \A m \in 1..Len(log) : resent[log[m]] # "open" => stored[log[m]] >= sent[m]

StageInv ==
    \A x \in Clients :
        /\ state[x] = "snapshot" <=> stage[x] # "none"
        /\ base[x] <= Len(log)
        /\ state[x] = "out" => base[x] = 0

\* The handler of a client has, or will read, a price as new as that of event n.
Has(x, n) ==
    \/ stage[x] = "get"
    \/ stage[x] = "none" /\ shown[x][log[n]] >= sent[n]
    \/ stage[x] \notin {"none", "get"} /\ values[x][log[n]] >= sent[n]

\* A pipeline that came to its last price after it was sent again published it
\* to those who may have read an older one.
Repeated(x, n) ==
    /\ resent[log[n]] = "over"
    /\ \E m \in 1..Len(log) : base[x] < m /\ log[m] = log[n] /\ sent[m] >= sent[n]

SnapshotOf(x) ==
    \A n \in 1..Len(log) :
        /\ n <= base[x] /\ log[n] \in Limited \cap interest[x] /\ resent[log[n]] # "open"
        => Has(x, n) \/ Repeated(x, n)

SnapshotInv == \A x \in Clients : SnapshotOf(x)

\* Nothing was read yet from a connection that is not in use.
AckInv == \A c \in Conns : link[c] = "acked" => Reached(c) = since[c]

Given(x, n) ==
    \/ \E i \in DOMAIN queue[x] : queue[x][i] = n
    \/ shown[x][log[n]] >= sent[n]

\* What was read from the active connection is in the queue or was sent.
EventInv ==
    \A x \in Clients : registered[x] # {} /\ link[active] = "up" =>
        \A n \in 1..Len(log) :
            /\ base[x] < n /\ since[active] < n /\ n <= Reached(active) /\ log[n] \in interest[x]
            => Given(x, n)

\* What is in a queue was published.
QueueInv ==
    \A x \in Clients : \A i \in DOMAIN queue[x] : queue[x][i] # End => queue[x][i] \in 1..Len(log)

FeedInv ==
    /\ FeedOK /\ QueueInv /\ PipeInv /\ StoredInv
    /\ StageInv /\ SnapshotInv /\ AckInv /\ EventInv

\* Half of a number, rounded down.
LEMMA Halves ==
    ASSUME NEW d \in Nat
    PROVE  d \div 2 \in Nat /\ (d = 2 * (d \div 2) \/ d = 2 * (d \div 2) + 1)
BY SMTT(30)

\* A set and a publish for each tick, in order.
LEMMA CommandAt ==
    ASSUME NEW k, NEW first \in Nat, NEW n \in Nat, NEW d \in 0..(2 * n - 1)
    PROVE  /\ Len(Commands(k, first, n)) = 2 * n /\ d + 1 \in DOMAIN Commands(k, first, n)
           /\ Commands(k, first, n)[d + 1].key = k
           /\ Commands(k, first, n)[d + 1].price = first + (d \div 2)
           /\ Commands(k, first, n)[d + 1].op = "set" <=> d = 2 * (d \div 2)
           /\ Commands(k, first, n)[d + 1].op \in {"set", "publish"}
<1>1. d + 1 \in 1..(2 * n) /\ (d + 1) - 1 = d /\ d \in Nat /\ d + 1 \in Nat
  OBVIOUS
<1>2. Commands(k, first, n)[d + 1] =
        [op |-> IF d + 1 = 2 * ((d + 1) \div 2) THEN "publish" ELSE "set",
         key |-> k, price |-> first + (d \div 2)]
  BY <1>1 DEF Commands
<1>3. d + 1 = 2 * ((d + 1) \div 2) <=> d # 2 * (d \div 2)
  <2>1. \A a, b \in Nat : (d = 2 * a \/ d = 2 * a + 1) /\ (d + 1 = 2 * b \/ d + 1 = 2 * b + 1)
                          => (d + 1 = 2 * b <=> d # 2 * a)
    BY <1>1
  <2>2. QED
    BY <1>1, <2>1, Halves
<1>4. Len(Commands(k, first, n)) = 2 * n /\ DOMAIN Commands(k, first, n) = 1..(2 * n)
  <2>1. DOMAIN Commands(k, first, n) = 1..(2 * n) /\ 2 * n \in Nat
    BY DEF Commands
  <2>2. QED
    BY <2>1
<1>5. QED
  BY <1>1, <1>2, <1>3, <1>4
\* Only a publication adds an event.
LEMMA LogKept ==
    ASSUME NEW c \in Conns, HubStep(c) \/ Acknowledge(c) \/ Lifespan
    PROVE  log' = log
BY DEF HubStep, Lifespan, Acknowledge, Drop, Connect, ConnectFails, Serve, Rotate, AbandonRotation,
   Deliver, ListenerEnds, ListenerClosed, SupervisorExits, Shutdown, Stopped, Close, server

\* What the handlers and the hub do to the events and to the streamer: nothing,
\* but for the price that fills a missing one.
LEMMA StreamerKept ==
    ASSUME FeedNext,
           \/ \E x \in Clients :
                \/ \E wanted \in (SUBSET Keys) \ {{}} : Open(x, wanted)
                \/ Get(x) \/ Query(x) \/ GetAgain(x) \/ SendSnapshot(x) \/ SendEvent(x)
                \/ Return(x) \/ Leave(x)
           \/ \E c \in Conns : SubscriptionBegins(c) \/ HubStep(c)
           \/ Lifespan
    PROVE  UNCHANGED <<streamer, stored, bars, log, sent>>
<1>1. ASSUME NEW x \in Clients,
             \/ \E wanted \in (SUBSET Keys) \ {{}} : Open(x, wanted)
             \/ Get(x) \/ Query(x) \/ GetAgain(x) \/ SendSnapshot(x) \/ SendEvent(x)
             \/ Return(x) \/ Leave(x)
      PROVE  UNCHANGED <<streamer, stored, bars, log, sent>>
  BY <1>1 DEF Open, Get, Query, GetAgain, SendSnapshot, SendEvent, Return, Leave, Forget,
     Subscribe, SnapshotSent, Send, Finish, Disconnect, Exit, vars, server
<1>2. ASSUME NEW c \in Conns, SubscriptionBegins(c) \/ HubStep(c)
      PROVE  UNCHANGED <<streamer, stored, bars, log, sent>>
  BY <1>2, LogKept DEF SubscriptionBegins, HubStep
<1>3. CASE Lifespan
  <2>1. log' = log
    BY <1>3 DEF Lifespan, SupervisorExits, Shutdown, Stopped, server
  <2>2. QED
    BY <1>3, <2>1 DEF Lifespan
<1>4. QED
  BY <1>1, <1>2, <1>3

\* The next command of a pipeline.
LEMMA NextCommand ==
    ASSUME FeedOK, PipeInv, Execute
    PROVE  \E k \in Keys, first \in Nat \ {0}, n \in Nat \ {0} :
            /\ Pipeline(k, first, n) /\ Len(pipe) = 2 * n
            /\ done \in 0..(2 * n - 1) /\ done' = done + 1 /\ pipe' = pipe /\ ticks' = ticks
            /\ pipe[done + 1].key = k /\ pipe[done + 1].price = first + (done \div 2)
            /\ pipe[done + 1].op = "set" <=> done = 2 * (done \div 2)
            /\ pipe[done + 1].op \in {"set", "publish"}
            /\ resent' = IF done + 1 = 2 * n
                         THEN [resent EXCEPT ![k] = IF @ = "open" THEN "over" ELSE @]
                         ELSE resent
<1>1. PICK k \in Keys, first \in Nat \ {0}, n \in Nat \ {0} : Pipeline(k, first, n)
  <2>1. ~(pipe = <<>> /\ done = 0)
    BY Len(<<>>) = 0 DEF Execute
  <2>2. QED
    BY <2>1 DEF PipeInv
<1>2. Len(pipe) = 2 * n
  <2>1. first \in Nat /\ n \in Nat /\ 0 \in 0..(2 * n - 1)
    OBVIOUS
  <2>2. Len(Commands(k, first, n)) = 2 * n
    BY <2>1, CommandAt
  <2>3. QED
    BY <1>1, <2>2 DEF Pipeline
<1>3. done \in 0..(2 * n - 1)
  BY <1>1, <1>2 DEF Execute, Pipeline
<1>4. /\ pipe[done + 1].key = k /\ pipe[done + 1].price = first + (done \div 2)
      /\ pipe[done + 1].op = "set" <=> done = 2 * (done \div 2)
      /\ pipe[done + 1].op \in {"set", "publish"}
  <2>1. first \in Nat /\ n \in Nat /\ pipe = Commands(k, first, n)
    BY <1>1 DEF Pipeline
  <2>2. QED
    BY <1>3, <2>1, CommandAt
<1>5. QED
  BY <1>1, <1>2, <1>3, <1>4 DEF Execute

\* The pipeline when the next price is stored.
LEMMA SetStep ==
    ASSUME IInv, FeedOK, PipeInv, StoredInv, SetPrice
    PROVE  PipeInv' /\ StoredInv' /\ resent' = resent
<1>1. PICK k \in Keys, first \in Nat \ {0}, n \in Nat \ {0} :
        /\ Pipeline(k, first, n) /\ Len(pipe) = 2 * n
        /\ done \in 0..(2 * n - 1) /\ done' = done + 1 /\ pipe' = pipe /\ ticks' = ticks
        /\ pipe[done + 1].key = k /\ pipe[done + 1].price = first + (done \div 2)
        /\ pipe[done + 1].op = "set" <=> done = 2 * (done \div 2)
        /\ resent' = IF done + 1 = 2 * n
                     THEN [resent EXCEPT ![k] = IF @ = "open" THEN "over" ELSE @]
                     ELSE resent
  BY NextCommand DEF SetPrice
<1> DEFINE h == done \div 2
<1>2. /\ h \in Nat /\ done = 2 * h /\ done' = 2 * h + 1 /\ done' \in Nat
      /\ done' # 2 * n /\ done' \in 0..(2 * n) /\ h < n /\ done' \div 2 = h
  <2>1. h \in Nat /\ done = 2 * h /\ done' = 2 * h + 1 /\ done' \in Nat
    BY <1>1, Halves DEF SetPrice
  <2>2. done' # 2 * n /\ done' \in 0..(2 * n) /\ h < n
    BY <1>1, <2>1
  <2>3. \A a \in Nat : (done' = 2 * a \/ done' = 2 * a + 1) => a = h
    BY <2>1
  <2>4. QED
    BY <2>1, <2>2, <2>3, Halves
<1>3. resent' = resent /\ stored' = [stored EXCEPT ![k] = first + h] /\ log' = log /\ sent' = sent
  BY <1>1, <1>2 DEF SetPrice, vars
<1>4. \A m \in 1..Len(log) : sent[m] \in Nat /\ log[m] \in Keys
  BY DEF FeedOK
<1>5. \A m \in 1..Len(log) : log[m] = k /\ resent[k] # "open" => sent[m] <= first - 1 + h
  BY <1>1 DEF Pipeline
<1> HIDE DEF h
<1>6. StoredInv'
  <2> SUFFICES ASSUME NEW m \in 1..Len(log), resent[log[m]] # "open"
               PROVE  stored'[log[m]] >= sent[m]
    BY <1>3 DEF StoredInv
  <2>1. CASE log[m] = k
    <3>1. stored'[log[m]] = first + h
      BY <1>3, <2>1 DEF FeedOK
    <3>2. sent[m] \in Nat /\ sent[m] <= first - 1 + h
      BY <1>4, <1>5, <2>1
    <3>3. QED
      BY <1>2, <3>1, <3>2
  <2>2. CASE log[m] # k
    BY <1>3, <1>4, <2>2 DEF FeedOK, StoredInv
  <2>3. QED
    BY <2>1, <2>2
<1>7. Pipeline(k, first, n)'
  <2>1. stored'[k] = first + (done' \div 2)
    BY <1>2, <1>3 DEF FeedOK, h
  <2>2. QED
    BY <1>1, <1>2, <1>3, <2>1 DEF Pipeline
<1>8. QED
  BY <1>3, <1>6, <1>7 DEF PipeInv

\* The event of a price.
LEMMA PriceEvent ==
    ASSUME IInv, FeedOK, PipeInv, PublishPrice
    PROVE  \E k \in Keys, first \in Nat \ {0}, n \in Nat \ {0}, h \in Nat :
            /\ Pipeline(k, first, n) /\ Publish(k)
            /\ done = 2 * h + 1 /\ done \div 2 = h /\ done' = 2 * (h + 1) /\ done' \div 2 = h + 1
            /\ done' \in 0..(2 * n) /\ h < n
            /\ sent' = Append(sent, first + h) /\ log' = Append(log, k) /\ stored' = stored
            /\ pipe' = pipe /\ ticks' = ticks
            /\ resent' = IF h + 1 = n THEN [resent EXCEPT ![k] = IF @ = "open" THEN "over" ELSE @]
                         ELSE resent
<1>1. PICK k \in Keys, first \in Nat \ {0}, n \in Nat \ {0} :
        /\ Pipeline(k, first, n) /\ Len(pipe) = 2 * n
        /\ done \in 0..(2 * n - 1) /\ done' = done + 1 /\ pipe' = pipe /\ ticks' = ticks
        /\ pipe[done + 1].key = k /\ pipe[done + 1].price = first + (done \div 2)
        /\ pipe[done + 1].op = "set" <=> done = 2 * (done \div 2)
        /\ resent' = IF done + 1 = 2 * n
                     THEN [resent EXCEPT ![k] = IF @ = "open" THEN "over" ELSE @]
                     ELSE resent
  BY NextCommand DEF PublishPrice
<1> DEFINE h == done \div 2
<1>2. h \in Nat /\ done = 2 * h + 1
  <2>1. done \in Nat /\ done # 2 * h
    BY <1>1 DEF PublishPrice
  <2>2. QED
    BY <2>1, Halves
<1>3. /\ done' = 2 * (h + 1) /\ done' \in Nat /\ done' \in 0..(2 * n) /\ h < n
      /\ done + 1 = 2 * n <=> h + 1 = n
  <2> HIDE DEF h
  <2>1. QED
    BY <1>1, <1>2
<1>4. done' \div 2 = h + 1
  <2> HIDE DEF h
  <2>1. \A a \in Nat : (done' = 2 * a \/ done' = 2 * a + 1) => a = h + 1
    BY <1>2, <1>3
  <2>2. QED
    BY <1>2, <1>3, <2>1, Halves
<1>5. Publish(k) /\ sent' = Append(sent, first + h) /\ stored' = stored
  BY <1>1 DEF PublishPrice
<1>6. log' = Append(log, k)
  BY <1>5 DEF Publish
<1>7. /\ done \div 2 = h
      /\ resent' = IF h + 1 = n THEN [resent EXCEPT ![k] = IF @ = "open" THEN "over" ELSE @]
                   ELSE resent
  BY <1>1, <1>3
<1>8. Pipeline(k, first, n) /\ pipe' = pipe /\ ticks' = ticks
  BY <1>1
<1> HIDE DEF h
<1>9. QED
  BY <1>2, <1>3, <1>4, <1>5, <1>6, <1>7, <1>8

\* An event more.
LEMMA Appended ==
    ASSUME NEW S, NEW s \in Seq(S), NEW e \in S
    PROVE  /\ Append(s, e) \in Seq(S) /\ Len(Append(s, e)) = Len(s) + 1 /\ Len(s) \in Nat
           /\ \A m \in 1..Len(s) : Append(s, e)[m] = s[m]
           /\ Append(s, e)[Len(s) + 1] = e
           /\ \A m \in 1..(Len(s) + 1) : m \in 1..Len(s) \/ m = Len(s) + 1
BY AppendProperties

\* The pipeline when the next price is published.
LEMMA PublishStep ==
    ASSUME IInv, FeedOK, PipeInv, StoredInv, PublishPrice
    PROVE  PipeInv' /\ StoredInv'
<1>1. PICK k \in Keys, first \in Nat \ {0}, n \in Nat \ {0}, h \in Nat :
        /\ Pipeline(k, first, n)
        /\ done = 2 * h + 1 /\ done \div 2 = h /\ done' = 2 * (h + 1) /\ done' \div 2 = h + 1
        /\ done' \in 0..(2 * n) /\ h < n
        /\ sent' = Append(sent, first + h) /\ log' = Append(log, k) /\ stored' = stored
        /\ pipe' = pipe /\ ticks' = ticks
        /\ resent' = IF h + 1 = n THEN [resent EXCEPT ![k] = IF @ = "open" THEN "over" ELSE @]
                     ELSE resent
  BY PriceEvent
<1>2. log \in Seq(Keys \cup {Invalid}) /\ sent \in Seq(Nat) /\ Len(sent) = Len(log) /\ Len(log) \in Nat
      /\ first + h \in Nat /\ stored \in [Keys -> Nat]
  BY DEF IInv, ServerOK, FeedOK
<1>3. \A m \in 1..Len(log) : log[m] \in Keys /\ sent[m] \in Nat
  BY <1>2 DEF FeedOK
<1>4. /\ Len(log') = Len(log) + 1
      /\ \A m \in 1..Len(log) : log'[m] = log[m] /\ sent'[m] = sent[m]
      /\ log'[Len(log) + 1] = k /\ sent'[Len(log) + 1] = first + h
      /\ \A m \in 1..Len(log') : m \in 1..Len(log) \/ m = Len(log) + 1
  BY <1>1, <1>2, Appended
<1>5. ASSUME NEW m \in 1..Len(log), log[m] = k
      PROVE  /\ sent[m] \in Nat /\ sent[m] <= first + n - 1
             /\ resent'[k] # "open" => sent[m] <= first + h
  <2>1. /\ sent[m] \in Nat /\ sent[m] <= first + n - 1
        /\ resent[k] # "open" => sent[m] <= first - 1 + h
    BY <1>1, <1>3, <1>5 DEF Pipeline
  <2>2. resent'[k] # "open" => resent[k] # "open" \/ h + 1 = n
    BY <1>1 DEF FeedOK
  <2>3. QED
    BY <2>1, <2>2
<1>6. stored[k] = first + h
  BY <1>1 DEF Pipeline
<1>7. \A j \in Keys : j # k => resent'[j] = resent[j]
  BY <1>1 DEF FeedOK
<1>8. StoredInv'
  <2> SUFFICES ASSUME NEW m \in 1..Len(log'), resent'[log'[m]] # "open"
               PROVE  stored[log'[m]] >= sent'[m]
    BY <1>1 DEF StoredInv
  <2>1. CASE m = Len(log) + 1
    BY <1>2, <1>4, <1>6, <2>1
  <2>2. CASE m \in 1..Len(log) /\ log[m] = k
    BY <1>2, <1>4, <1>5, <1>6, <2>2
  <2>3. CASE m \in 1..Len(log) /\ log[m] # k
    BY <1>3, <1>4, <1>7, <2>3 DEF StoredInv
  <2>4. QED
    BY <1>4, <2>1, <2>2, <2>3
<1>9. ASSUME NEW m \in 1..Len(log'), log'[m] = k
      PROVE  /\ sent'[m] <= first + n - 1
             /\ resent'[k] # "open" => sent'[m] <= first - 1 + (h + 1)
  <2>0. h < n /\ first + h <= first + n - 1 /\ first - 1 + (h + 1) = first + h
    BY <1>1
  <2>1. CASE m = Len(log) + 1
    <3>1. sent'[m] = first + h
      BY <1>4, <2>1
    <3>2. QED
      BY <1>2, <2>0, <3>1
  <2>2. CASE m \in 1..Len(log)
    BY <1>4, <1>5, <1>9, <2>0, <2>2
  <2>3. QED
    BY <1>4, <2>1, <2>2
<1>10. Pipeline(k, first, n)'
  <2>1. done' # 2 * (done' \div 2) + 1
    BY <1>1
  <2>2. first + n - 1 <= ticks'[k] /\ pipe' = Commands(k, first, n)
    BY <1>1 DEF Pipeline
  <2>3. QED
    BY <1>1, <1>9, <2>1, <2>2 DEF Pipeline
<1>11. QED
  BY <1>8, <1>10 DEF PipeInv

\* The pipeline and what is stored, in every step.
LEMMA PipeStep ==
    ASSUME IInv, FeedOK, PipeInv, StoredInv, FeedNext
    PROVE  PipeInv' /\ StoredInv'
<1>1. ASSUME UNCHANGED <<pipe, done, resent, stored, log, sent>>,
             ticks' \in [Keys -> Nat], \A k \in Keys : ticks[k] <= ticks'[k]
      PROVE  PipeInv' /\ StoredInv'
  <2>1. StoredInv'
    BY <1>1 DEF StoredInv
  <2>2. ASSUME NEW k \in Keys, NEW first \in Nat \ {0}, NEW n \in Nat \ {0}, Pipeline(k, first, n)
        PROVE  Pipeline(k, first, n)'
    BY <1>1, <2>2 DEF Pipeline, FeedOK
  <2>3. QED
    BY <1>1, <2>1, <2>2 DEF PipeInv
<1>2. CASE UNCHANGED <<streamer, stored, log, sent>>
  <2>1. ticks' = ticks /\ ticks \in [Keys -> Nat] /\ \A k \in Keys : ticks[k] <= ticks[k]
    BY <1>2 DEF streamer, FeedOK
  <2>2. QED
    BY <1>1, <1>2, <2>1 DEF streamer
<1>3. CASE Register
  BY <1>1, <1>3 DEF Register, vars, FeedOK
<1>4. ASSUME NEW k \in Keys, MissTick(k) PROVE PipeInv' /\ StoredInv'
  BY <1>1, <1>4 DEF MissTick, vars, FeedOK
<1>5. CASE SetPrice
  BY <1>5, SetStep
<1>6. CASE PublishPrice
  BY <1>6, PublishStep
<1>7. CASE Resend
  <2>1. ~(pipe = <<>> /\ done = 0)
    BY <1>7 DEF Resend
  <2>2. PICK k \in Keys, first \in Nat \ {0}, n \in Nat \ {0} : Pipeline(k, first, n)
    BY <2>1 DEF PipeInv
  <2>3. pipe[1].key = k
    <3>1. 1 \in 1..(2 * n)
      OBVIOUS
    <3>2. QED
      BY <2>2, <3>1 DEF Pipeline, Commands
  <2>4. /\ resent' = [resent EXCEPT ![k] = "open"] /\ done' = 0
        /\ UNCHANGED <<pipe, ticks, stored, log, sent>>
    BY <1>7, <2>3 DEF Resend, vars
  <2>5. resent'[k] = "open" /\ \A j \in Keys : j # k => resent'[j] = resent[j]
    BY <2>4 DEF FeedOK
  <2>6. StoredInv'
    BY <2>4, <2>5 DEF StoredInv, FeedOK
  <2>7. 0 \in 0..(2 * n) /\ 0 # 2 * (0 \div 2) + 1
    BY Halves
  <2>8. Pipeline(k, first, n)'
    BY <2>2, <2>4, <2>5, <2>7 DEF Pipeline
  <2>9. QED
    BY <2>6, <2>8 DEF PipeInv
<1>8. CASE Disconnected
  BY <1>8 DEF Disconnected, vars, PipeInv, StoredInv
<1>9. ASSUME NEW k \in Keys, NEW n \in 1..MaxFrame, Frame(k, n) PROVE PipeInv' /\ StoredInv'
  <2>1. /\ pipe' = Commands(k, ticks[k] + 1, n) /\ done' = 0
        /\ ticks' = [ticks EXCEPT ![k] = @ + n] /\ UNCHANGED <<resent, stored, log, sent>>
    BY <1>9 DEF Frame, vars
  <2>2. ticks[k] \in Nat /\ n \in Nat \ {0} /\ ticks[k] + 1 \in Nat \ {0} /\ ticks'[k] = ticks[k] + n
    BY <2>1, FeedAssumption DEF FeedOK
  <2>3. 0 \div 2 = 0 /\ 0 \in 0..(2 * n)
    BY <2>2, Halves
  <2>4. \A m \in 1..Len(log) : log[m] = k => sent[m] \in Nat /\ sent[m] <= ticks[k]
    BY DEF FeedOK
  <2> PICK first \in Nat \ {0} : first = ticks[k] + 1
    BY <2>2
  <2>5. Pipeline(k, first, n)'
    <3>1. first + n - 1 <= ticks'[k]
      BY <2>2
    <3>2. \A m \in 1..Len(log) : log[m] = k => sent[m] <= first + n - 1 /\ sent[m] <= first - 1 + 0
      BY <2>2, <2>4
    <3>3. 0 # 2 * (0 \div 2) + 1
      BY <2>3
    <3>4. QED
      BY <2>1, <2>3, <3>1, <3>2, <3>3 DEF Pipeline
  <2>6. StoredInv'
    BY <2>1 DEF StoredInv
  <2>7. QED
    BY <2>2, <2>5, <2>6 DEF PipeInv
<1>10. ASSUME NEW k \in Keys, NEW n \in 1..MaxTicks, CollectBar(k, n) PROVE PipeInv' /\ StoredInv'
  BY <1>2, <1>10 DEF CollectBar, vars
<1>11. ASSUME NEW x \in Clients, Fill(x) PROVE PipeInv' /\ StoredInv'
  <2>1. /\ stored' = [k \in Keys |-> IF stored[k] = 0 THEN filled[x][k] ELSE stored[k]]
        /\ UNCHANGED <<streamer, log, sent>>
    BY <1>11 DEF Fill, vars
  <2>2. \A k \in Keys : stored[k] \in Nat /\ (stored[k] > 0 => stored'[k] = stored[k])
    BY <2>1 DEF FeedOK
  <2>3. StoredInv'
    <3> SUFFICES ASSUME NEW m \in 1..Len(log), resent[log[m]] # "open"
                 PROVE  stored'[log[m]] >= sent[m]
      BY <2>1 DEF StoredInv, streamer
    <3>1. /\ log[m] \in Keys /\ sent[m] \in Nat /\ 0 < sent[m]
          /\ stored[log[m]] >= sent[m] /\ stored[log[m]] \in Nat
      BY DEF StoredInv, FeedOK
    <3>2. stored[log[m]] > 0
      BY <3>1
    <3>3. QED
      BY <2>2, <3>1, <3>2
  <2>4. ASSUME NEW k \in Keys, NEW first \in Nat \ {0}, NEW n \in Nat \ {0}, Pipeline(k, first, n)
        PROVE  Pipeline(k, first, n)'
    <3>1. PICK h \in Nat : h = done \div 2
      BY <2>4, Halves DEF Pipeline
    <3>2. done = 2 * h + 1 => stored'[k] = first + h
      <4>1. done = 2 * h + 1 => stored[k] = first + h
        BY <2>4, <3>1 DEF Pipeline
      <4>2. first + h > 0
        OBVIOUS
      <4>3. QED
        BY <2>2, <4>1, <4>2
    <3>3. QED
      BY <2>1, <2>4, <3>1, <3>2 DEF Pipeline, streamer
  <2>5. QED
    BY <2>1, <2>3, <2>4 DEF PipeInv, streamer
<1>12. QED
  BY <1>2, <1>3, <1>4, <1>5, <1>6, <1>7, <1>8, <1>9, <1>10, <1>11, StreamerKept DEF FeedNext, Read

\* The types, in the steps of the streamer and the collector.
LEMMA StreamerTypes ==
    ASSUME IInv, FeedOK, PipeInv,
           \/ Register \/ SetPrice \/ PublishPrice \/ Resend \/ Disconnected
           \/ \E k \in Keys :
                \/ MissTick(k)
                \/ \E n \in 1..MaxFrame : Frame(k, n)
                \/ \E n \in 1..MaxTicks : CollectBar(k, n)
    PROVE  FeedOK'
<1> USE DEF FeedOK
<1>1. CASE Register \/ Disconnected
  BY <1>1 DEF Register, Disconnected, vars, reader
<1>2. CASE Resend
  <2>1. resent' \in [Keys -> {"never", "open", "over"}]
    BY <1>2 DEF Resend
  <2>2. QED
    BY <1>2, <2>1 DEF Resend, vars, reader
<1>3. CASE SetPrice
  <2>1. PICK k \in Keys, first \in Nat \ {0}, n \in Nat \ {0} :
          /\ Pipeline(k, first, n) /\ pipe[done + 1].key = k
          /\ pipe[done + 1].price = first + (done \div 2)
          /\ resent' = IF done + 1 = 2 * n
                       THEN [resent EXCEPT ![k] = IF @ = "open" THEN "over" ELSE @]
                       ELSE resent
    BY <1>3, NextCommand DEF SetPrice
  <2>2. resent' \in [Keys -> {"never", "open", "over"}]
    BY <2>1
  <2>3. done \div 2 \in Nat
    BY <2>1, Halves DEF Pipeline
  <2>4. stored' \in [Keys -> Nat]
    BY <1>3, <2>1, <2>3 DEF SetPrice
  <2>5. QED
    BY <1>3, <2>2, <2>4 DEF SetPrice, Execute, vars, reader
<1>4. CASE PublishPrice
  <2>1. PICK k \in Keys, first \in Nat \ {0}, n \in Nat \ {0}, h \in Nat :
          /\ Pipeline(k, first, n) /\ h < n
          /\ sent' = Append(sent, first + h) /\ log' = Append(log, k)
          /\ stored' = stored /\ ticks' = ticks
          /\ resent' = IF h + 1 = n THEN [resent EXCEPT ![k] = IF @ = "open" THEN "over" ELSE @]
                       ELSE resent
    BY <1>4, PriceEvent
  <2>2. resent' \in [Keys -> {"never", "open", "over"}]
    BY <2>1
  <2>3. first + h \in Nat /\ 0 < first + h /\ first + h <= ticks[k]
    BY <2>1 DEF Pipeline
  <2>4. /\ log \in Seq(Keys \cup {Invalid}) /\ sent \in Seq(Nat)
        /\ Len(sent) = Len(log) /\ Len(log) \in Nat
    BY DEF IInv, ServerOK
  <2>5. /\ Len(log') = Len(log) + 1 /\ Len(sent') = Len(log) + 1 /\ sent' \in Seq(Nat)
        /\ \A m \in 1..Len(log) : log'[m] = log[m] /\ sent'[m] = sent[m]
        /\ log'[Len(log) + 1] = k /\ sent'[Len(log) + 1] = first + h
        /\ \A m \in 1..Len(log') : m \in 1..Len(log) \/ m = Len(log) + 1
    <3>1. /\ sent' \in Seq(Nat) /\ Len(sent') = Len(log) + 1 /\ sent'[Len(log) + 1] = first + h
          /\ \A m \in 1..Len(log) : sent'[m] = sent[m]
      BY <2>1, <2>3, <2>4, Appended
    <3>2. /\ Len(log') = Len(log) + 1 /\ log'[Len(log) + 1] = k
          /\ \A m \in 1..Len(log) : log'[m] = log[m]
      BY <2>1, <2>4, Appended
    <3>3. \A m \in 1..Len(log') : m \in 1..Len(log) \/ m = Len(log) + 1
      BY <2>1, <2>4, Appended
    <3>4. QED
      BY <3>1, <3>2, <3>3
  <2>6. \A m \in 1..Len(log') : log'[m] \in Keys /\ 0 < sent'[m] /\ sent'[m] <= ticks'[log'[m]]
    <3> SUFFICES ASSUME NEW m \in 1..Len(log')
                 PROVE  log'[m] \in Keys /\ 0 < sent'[m] /\ sent'[m] <= ticks'[log'[m]]
      OBVIOUS
    <3>1. CASE m \in 1..Len(log)
      <4>1. log'[m] = log[m] /\ sent'[m] = sent[m]
        BY <2>5, <3>1
      <4>2. log[m] \in Keys /\ 0 < sent[m] /\ sent[m] <= ticks[log[m]]
        BY <3>1
      <4>3. QED
        BY <2>1, <4>1, <4>2
    <3>2. CASE m = Len(log) + 1
      <4>1. log'[m] = k /\ sent'[m] = first + h
        BY <2>5, <3>2
      <4>2. QED
        BY <2>1, <2>3, <4>1
    <3>3. QED
      BY <2>5, <3>1, <3>2
  <2>7. UNCHANGED <<bars, reader, since, base>>
    BY <1>4 DEF PublishPrice, Execute
  <2>8. QED
    BY <2>1, <2>2, <2>5, <2>6, <2>7 DEF reader
<1>5. ASSUME NEW k \in Keys, NEW n \in Nat,
             ticks' = [ticks EXCEPT ![k] = @ + n],
             UNCHANGED <<vars, resent, stored, bars, sent, reader, since, base>>
      PROVE  FeedOK'
  <2>1. ticks' \in [Keys -> Nat] /\ \A j \in Keys : ticks[j] <= ticks'[j]
    BY <1>5
  <2>2. \A m \in 1..Len(log) : log[m] \in Keys /\ 0 < sent[m] /\ sent[m] <= ticks'[log[m]]
    <3> SUFFICES ASSUME NEW m \in 1..Len(log)
                 PROVE  log[m] \in Keys /\ 0 < sent[m] /\ sent[m] <= ticks'[log[m]]
      OBVIOUS
    <3>1. log[m] \in Keys /\ 0 < sent[m] /\ sent[m] <= ticks[log[m]] /\ sent[m] \in Nat
      OBVIOUS
    <3>2. ticks[log[m]] \in Nat /\ ticks'[log[m]] \in Nat /\ ticks[log[m]] <= ticks'[log[m]]
      BY <2>1, <3>1
    <3>3. QED
      BY <3>1, <3>2
  <2>3. QED
    BY <1>5, <2>1, <2>2 DEF vars, reader
<1>6. ASSUME NEW k \in Keys, MissTick(k) PROVE FeedOK'
  BY <1>5, <1>6 DEF MissTick
<1>7. ASSUME NEW k \in Keys, NEW n \in 1..MaxFrame, Frame(k, n) PROVE FeedOK'
  <2>1. n \in Nat
    OBVIOUS
  <2>2. QED
    BY <1>5, <1>7, <2>1 DEF Frame
<1>8. ASSUME NEW k \in Keys, NEW n \in 1..MaxTicks, CollectBar(k, n) PROVE FeedOK'
  <2>1. bars' \in [Keys -> Nat]
    BY <1>8 DEF CollectBar
  <2>2. QED
    BY <1>8, <2>1 DEF CollectBar, vars, streamer, reader
<1>9. QED
  BY <1>1, <1>2, <1>3, <1>4, <1>6, <1>7, <1>8

\* The types, in the steps of the handlers and of the hub.
LEMMA ReaderTypes ==
    ASSUME IInv, FeedOK, QueueInv, FeedNext,
           \/ \E x \in Clients :
                \/ \E wanted \in (SUBSET Keys) \ {{}} : Open(x, wanted)
                \/ Read(x) \/ SendEvent(x) \/ Return(x) \/ Leave(x)
           \/ \E c \in Conns : SubscriptionBegins(c) \/ HubStep(c)
           \/ Lifespan
    PROVE  FeedOK'
<1> USE DEF FeedOK
<1>1. Len(log) \in Nat
  BY DEF IInv, ServerOK
<1>2. Nothing \in [Keys -> Nat]
  BY DEF Nothing
<1>3. ASSUME NEW x \in Clients,
             UNCHANGED <<streamer, bars, log, sent, since>>,
             stored' \in [Keys -> Nat],
             stage' \in [Clients -> {"none", "get", "query", "fill", "again", "send"}],
             values' \in [Clients -> [Keys -> Nat]], filled' \in [Clients -> [Keys -> Nat]],
             shown' \in [Clients -> [Keys -> Nat]], base' \in [Clients -> Nat]
      PROVE  FeedOK'
  BY <1>3 DEF streamer
<1>4. ASSUME NEW x \in Clients, NEW prices \in [Keys -> Nat]
      PROVE  Newer(x, prices) \in [Clients -> [Keys -> Nat]]
  BY DEF Newer
<1>5. ASSUME NEW x \in Clients, NEW wanted \in (SUBSET Keys) \ {{}}, Open(x, wanted) PROVE FeedOK'
  <2>1. UNCHANGED <<streamer, stored, bars, log, sent>>
    BY <1>5, StreamerKept
  <2>2. QED
    BY <1>1, <1>3, <1>5, <2>1 DEF Open
<1>6. ASSUME NEW x \in Clients, Get(x) \/ Query(x) \/ GetAgain(x) PROVE FeedOK'
  <2>1. UNCHANGED <<streamer, stored, bars, log, sent, shown, since, base>>
    BY <1>6 DEF Get, Query, GetAgain, vars
  <2>2. CASE Get(x)
    BY <1>3, <2>1, <2>2 DEF Get
  <2>3. CASE Query(x)
    BY <1>3, <2>1, <2>3 DEF Query
  <2>4. CASE GetAgain(x)
    BY <1>3, <2>1, <2>4 DEF GetAgain
  <2>5. QED
    BY <1>6, <2>2, <2>3, <2>4
<1>7. ASSUME NEW x \in Clients, Fill(x) PROVE FeedOK'
  BY <1>7 DEF Fill, vars, streamer
<1>8. ASSUME NEW x \in Clients, SendSnapshot(x) PROVE FeedOK'
  <2>1. UNCHANGED <<streamer, stored, bars, log, sent>>
    BY <1>8, StreamerKept
  <2>2. [k \in Keys |-> IF k \in Limited THEN values[x][k] ELSE 0] \in [Keys -> Nat]
    OBVIOUS
  <2>3. shown' \in [Clients -> [Keys -> Nat]]
    BY <1>4, <1>8, <2>2 DEF SendSnapshot
  <2>4. QED
    BY <1>2, <1>3, <1>8, <2>1, <2>3 DEF SendSnapshot
<1>9. ASSUME NEW x \in Clients, SendEvent(x) PROVE FeedOK'
  <2>1. UNCHANGED <<streamer, stored, bars, log, sent>>
    BY <1>9, StreamerKept
  <2>2. ASSUME NEW n \in 1..Len(log) PROVE [Nothing EXCEPT ![log[n]] = sent[n]] \in [Keys -> Nat]
    <3>1. sent \in Seq(Nat) /\ n \in 1..Len(sent)
      OBVIOUS
    <3>2. sent[n] \in Nat
      BY <3>1, ElementOfSeq
    <3>3. QED
      BY <1>2, <3>2
  <2>3. Head(queue[x]) \in 1..Len(log)
    <3>1. queue[x] # <<>> /\ Head(queue[x]) # End /\ queue[x] \in Seq((1..MaxMessages) \cup {End})
      BY <1>9 DEF SendEvent, Send, IInv, ClientsOK
    <3>2. Len(queue[x]) # 0 /\ Len(queue[x]) \in Nat /\ Head(queue[x]) = queue[x][1]
      BY <3>1
    <3>3. 1 \in DOMAIN queue[x]
      BY <3>1, <3>2
    <3>4. QED
      BY <3>1, <3>2, <3>3 DEF QueueInv
  <2>4. shown' \in [Clients -> [Keys -> Nat]]
    BY <1>4, <1>9, <2>2, <2>3 DEF SendEvent
  <2>5. QED
    BY <1>3, <1>9, <2>1, <2>4 DEF SendEvent
<1>10. ASSUME NEW x \in Clients, Return(x) \/ Leave(x) PROVE FeedOK'
  <2>1. UNCHANGED <<streamer, stored, bars, log, sent>>
    BY <1>10, StreamerKept
  <2>2. Forget(x)
    BY <1>10 DEF Return, Leave
  <2>3. /\ stage' \in [Clients -> {"none", "get", "query", "fill", "again", "send"}]
        /\ values' \in [Clients -> [Keys -> Nat]] /\ filled' \in [Clients -> [Keys -> Nat]]
        /\ shown' \in [Clients -> [Keys -> Nat]] /\ base' \in [Clients -> Nat] /\ since' = since
    BY <1>2, <2>2 DEF Forget
  <2>4. QED
    BY <1>3, <2>1, <2>3
<1>11. ASSUME NEW c \in Conns, SubscriptionBegins(c) \/ HubStep(c) PROVE FeedOK'
  <2>1. UNCHANGED <<streamer, stored, bars, log, sent>>
    BY <1>11, StreamerKept
  <2>2. QED
    BY <1>1, <1>11, <2>1 DEF SubscriptionBegins, HubStep, streamer, reader
<1>12. CASE Lifespan
  <2>1. UNCHANGED <<streamer, stored, bars, log, sent>>
    BY <1>12, StreamerKept
  <2>2. QED
    BY <1>12, <2>1 DEF Lifespan, streamer, reader
<1>13. QED
  BY <1>5, <1>6, <1>7, <1>8, <1>9, <1>10, <1>11, <1>12 DEF Read

\* A step of the handler of client x.
ClientStep(x) ==
    \/ \E wanted \in (SUBSET Keys) \ {{}} : Open(x, wanted)
    \/ Read(x) \/ SendEvent(x) \/ Return(x) \/ Leave(x)

\* It is no other client's.
LEMMA OthersKept ==
    ASSUME IInv, FeedOK, NEW x \in Clients, ClientStep(x), NEW y \in Clients, y # x
    PROVE  /\ state'[y] = state[y] /\ interest'[y] = interest[y]
           /\ registered'[y] = registered[y] /\ queue'[y] = queue[y]
           /\ stage'[y] = stage[y] /\ values'[y] = values[y] /\ shown'[y] = shown[y]
           /\ base'[y] = base[y]
<1> USE DEF IInv, ClientsOK, FeedOK
<1>1. CASE \E wanted \in (SUBSET Keys) \ {{}} : Open(x, wanted)
  BY <1>1 DEF Open, Subscribe
<1>2. CASE Get(x) \/ Query(x) \/ Fill(x) \/ GetAgain(x)
  BY <1>2 DEF Get, Query, Fill, GetAgain, vars
<1>3. CASE SendSnapshot(x)
  BY <1>3 DEF SendSnapshot, SnapshotSent, Newer
<1>4. CASE SendEvent(x)
  BY <1>4 DEF SendEvent, Send, Newer
<1>5. CASE Return(x) \/ Leave(x)
  BY <1>5 DEF Return, Leave, Finish, Disconnect, Exit, Forget
<1>6. QED
  BY <1>1, <1>2, <1>3, <1>4, <1>5 DEF ClientStep, Read

\* What a step of a handler leaves alone.
LEMMA ClientKept ==
    ASSUME NEW x \in Clients, ClientStep(x)
    PROVE  UNCHANGED <<streamer, bars, log, sent, since, link, tag, tags, wire, active>>
BY DEF ClientStep, Read, Open, Get, Query, Fill, GetAgain, SendSnapshot, SendEvent, Return, Leave,
   Forget, Subscribe, SnapshotSent, Send, Finish, Disconnect, Exit, vars, server, hub

\* A step of nobody's handler.
OtherStep ==
    \/ Register \/ SetPrice \/ PublishPrice \/ Resend \/ Disconnected
    \/ \E k \in Keys :
        \/ MissTick(k)
        \/ \E n \in 1..MaxFrame : Frame(k, n)
        \/ \E n \in 1..MaxTicks : CollectBar(k, n)
    \/ \E c \in Conns : SubscriptionBegins(c) \/ HubStep(c)
    \/ Lifespan

LEMMA Steps == FeedNext <=> OtherStep \/ \E x \in Clients : ClientStep(x)
BY DEF FeedNext, OtherStep, ClientStep

\* It lets the handlers read and send.
LEMMA ReaderKept ==
    ASSUME OtherStep
    PROVE  UNCHANGED <<stage, values, shown, base, state, interest>>
<1>1. CASE Register \/ SetPrice \/ PublishPrice \/ Resend \/ Disconnected
  BY <1>1 DEF Register, SetPrice, PublishPrice, Execute, Publish, Resend, Disconnected, reader, vars,
     clients
<1>2. ASSUME NEW k \in Keys, NEW n \in Nat, MissTick(k) \/ Frame(k, n) \/ CollectBar(k, n)
      PROVE  UNCHANGED <<stage, values, shown, base, state, interest>>
  BY <1>2 DEF MissTick, Frame, CollectBar, reader, vars
<1>3. ASSUME NEW c \in Conns, SubscriptionBegins(c)
      PROVE  UNCHANGED <<stage, values, shown, base, state, interest>>
  BY <1>3 DEF SubscriptionBegins, Acknowledge, reader, clients
<1>4. ASSUME NEW c \in Conns, HubStep(c)
      PROVE  UNCHANGED <<stage, values, shown, base, state, interest>>
  BY <1>4 DEF HubStep, reader, clients, Drop, Connect, ConnectFails, Serve, Rotate, AbandonRotation,
     Deliver, ListenerEnds, ListenerClosed, EndStreams
<1>5. CASE Lifespan
  BY <1>5 DEF Lifespan, reader, clients, SupervisorExits, Shutdown, Stopped, EndStreams
<1>6. \A n : n \in 1..MaxFrame \/ n \in 1..MaxTicks => n \in Nat
  OBVIOUS
<1>7. QED
  BY <1>1, <1>2, <1>3, <1>4, <1>5, <1>6 DEF OtherStep

\* It changes the events only by publishing a price.
LEMMA EventsKept ==
    ASSUME OtherStep, ~PublishPrice
    PROVE  log' = log /\ sent' = sent
<1>1. CASE Register \/ SetPrice \/ Resend \/ Disconnected
  BY <1>1 DEF Register, SetPrice, Resend, Disconnected, vars
<1>2. ASSUME NEW k \in Keys, NEW n, MissTick(k) \/ Frame(k, n) \/ CollectBar(k, n)
      PROVE  log' = log /\ sent' = sent
  BY <1>2 DEF MissTick, Frame, CollectBar, vars
<1>3. ASSUME NEW c \in Conns, SubscriptionBegins(c) \/ HubStep(c)
      PROVE  log' = log /\ sent' = sent
  BY <1>3, LogKept DEF SubscriptionBegins, HubStep
<1>4. CASE Lifespan
  BY <1>4 DEF Lifespan, SupervisorExits, Shutdown, Stopped, server
<1>5. QED
  BY <1>1, <1>2, <1>3, <1>4 DEF OtherStep

\* The queues in a step of nobody's handler.
LEMMA QueueGrows ==
    ASSUME IInv, WireInv, OtherStep, NEW x \in Clients
    PROVE  \/ queue'[x] = queue[x] /\ registered'[x] = registered[x]
           \/ queue'[x] = <<End>> /\ registered'[x] = {}
           \/ \E c \in Conns : /\ Deliver(c) /\ registered'[x] = registered[x]
                               /\ queue'[x] = Append(queue[x], Reached(c) + 1)
<1> USE DEF IInv, ClientsOK
<1>1. CASE Register \/ SetPrice \/ PublishPrice \/ Resend \/ Disconnected
  BY <1>1 DEF Register, SetPrice, PublishPrice, Publish, Resend, Disconnected, vars, clients
<1>2. ASSUME NEW k \in Keys, NEW n, MissTick(k) \/ Frame(k, n) \/ CollectBar(k, n)
      PROVE  queue' = queue /\ registered' = registered
  BY <1>2 DEF MissTick, Frame, CollectBar, vars
<1>3. ASSUME NEW c \in Conns, SubscriptionBegins(c) PROVE queue' = queue /\ registered' = registered
  BY <1>3 DEF SubscriptionBegins, Acknowledge, clients
<1>4. ASSUME NEW c \in Conns, HubStep(c), ~Deliver(c)
      PROVE  \/ queue'[x] = queue[x] /\ registered'[x] = registered[x]
             \/ queue'[x] = <<End>> /\ registered'[x] = {}
  BY <1>4 DEF HubStep, Drop, Connect, ConnectFails, Serve, Rotate, AbandonRotation, ListenerEnds,
     ListenerClosed, EndStreams, Streaming, clients
<1>5. ASSUME NEW c \in Conns, Deliver(c)
      PROVE  \/ queue'[x] = queue[x] /\ registered'[x] = registered[x]
             \/ queue'[x] = <<End>> /\ registered'[x] = {}
             \/ /\ registered'[x] = registered[x]
                /\ queue'[x] = Append(queue[x], Reached(c) + 1)
  BY <1>5, DeliverWire DEF Deliver
<1>6. CASE Lifespan
  BY <1>6 DEF Lifespan, SupervisorExits, Shutdown, Stopped, EndStreams, Streaming, clients
<1>7. QED
  BY <1>1, <1>2, <1>3, <1>4, <1>5, <1>6 DEF OtherStep

\* A queue holds events that were published.
LEMMA QueueStep ==
    ASSUME IInv, WireInv, FeedOK, QueueInv, FeedNext, Len(log') >= Len(log)
    PROVE  QueueInv'
<1> USE DEF IInv, ClientsOK
<1> SUFFICES ASSUME NEW x \in Clients, NEW i \in DOMAIN queue'[x], queue'[x][i] # End
             PROVE  queue'[x][i] \in 1..Len(log')
  BY DEF QueueInv
<1>1. Len(log) \in Nat /\ Len(log') >= Len(log) /\ queue[x] \in Seq((1..MaxMessages) \cup {End})
  BY DEF ServerOK
<1>2. \A j \in DOMAIN queue[x] : queue[x][j] # End => queue[x][j] \in 1..Len(log')
  BY <1>1 DEF QueueInv
<1>3. CASE queue'[x] = queue[x]
  BY <1>2, <1>3
<1>4. CASE queue'[x] = <<End>>
  BY <1>4
<1>5. ASSUME NEW c \in Conns, Deliver(c), queue'[x] = Append(queue[x], Reached(c) + 1)
      PROVE  queue'[x][i] \in 1..Len(log')
  <2>1. Reached(c) + 1 \in 1..Len(log')
    <3>1. Reached(c) \in Nat /\ Reached(c) + 1 <= Len(log)
      BY <1>5, DeliverWire
    <3>2. Len(log') \in Nat
      BY <1>1, <1>5, DeliverWire
    <3>3. QED
      BY <1>1, <3>1, <3>2
  <2>2. /\ DOMAIN queue[x] = 1..Len(queue[x]) /\ Len(queue[x]) \in Nat
        /\ DOMAIN queue'[x] = 1..(Len(queue[x]) + 1)
    BY <1>1, <1>5
  <2>3. CASE i = Len(queue[x]) + 1
    BY <1>1, <1>5, <2>1, <2>3
  <2>4. CASE i # Len(queue[x]) + 1
    <3>1. i \in DOMAIN queue[x] /\ queue'[x][i] = queue[x][i]
      BY <1>1, <1>5, <2>2, <2>4
    <3>2. QED
      BY <1>2, <3>1
  <2>5. QED
    BY <2>3, <2>4
<1>6. ASSUME ClientStep(x) PROVE queue'[x][i] \in 1..Len(log')
  <2>1. \/ queue'[x] = queue[x] \/ queue'[x] = <<>>
        \/ queue'[x] = Tail(queue[x]) /\ queue[x] # <<>>
    BY <1>6 DEF ClientStep, Read, Open, Subscribe, Get, Query, Fill, GetAgain, SendSnapshot,
       SnapshotSent, SendEvent, Send, Return, Finish, Leave, Disconnect, Exit, vars
  <2>2. CASE queue'[x] = <<>>
    BY <2>2
  <2>3. CASE queue'[x] = Tail(queue[x]) /\ queue[x] # <<>>
    <3>1. i + 1 \in DOMAIN queue[x] /\ queue'[x][i] = queue[x][i + 1]
      BY <1>1, <2>3, HeadTailProperties
    <3>2. QED
      BY <1>2, <3>1
  <2>4. QED
    BY <1>3, <2>1, <2>2, <2>3
<1>7. CASE OtherStep
  BY <1>3, <1>4, <1>5, <1>7, QueueGrows
<1>8. ASSUME NEW y \in Clients, ClientStep(y) PROVE queue'[x][i] \in 1..Len(log')
  <2>1. CASE y = x
    BY <1>6, <1>8, <2>1
  <2>2. CASE y # x
    BY <1>3, <1>8, <2>2, OthersKept
  <2>3. QED
    BY <2>1, <2>2
<1>9. QED
  BY <1>7, <1>8, Steps

\* The events in every step: kept, or one more.
LEMMA EventsGrow ==
    ASSUME IInv, FeedOK, PipeInv, FeedNext
    PROVE  /\ Len(log) \in Nat /\ Len(log') \in Nat /\ Len(log') >= Len(log)
           /\ \A m \in 1..Len(log) : log'[m] = log[m] /\ sent'[m] = sent[m]
<1>1. /\ Len(log) \in Nat /\ log \in Seq(Keys \cup {Invalid})
      /\ sent \in Seq(Nat) /\ Len(sent) = Len(log)
  BY DEF IInv, ServerOK, FeedOK
<1>2. CASE log' = log /\ sent' = sent
  BY <1>1, <1>2
<1>3. CASE PublishPrice
  <2>1. PICK k \in Keys, first \in Nat \ {0}, h \in Nat :
          sent' = Append(sent, first + h) /\ log' = Append(log, k)
    BY <1>3, PriceEvent
  <2>2. Len(log') = Len(log) + 1 /\ \A m \in 1..Len(log) : log'[m] = log[m]
    BY <1>1, <2>1, Appended
  <2>3. first + h \in Nat
    OBVIOUS
  <2>4. \A m \in 1..Len(log) : sent'[m] = sent[m]
    BY <1>1, <2>1, <2>3, Appended
  <2>5. QED
    BY <1>1, <2>2, <2>4
<1>4. QED
  BY <1>2, <1>3, Steps, EventsKept, ClientKept

\* The handlers' places, in every step.
LEMMA StageStep ==
    ASSUME IInv, FeedOK, PipeInv, StageInv, FeedNext
    PROVE  StageInv'
<1> USE DEF IInv, ClientsOK, FeedOK
<1>1. Len(log) \in Nat /\ Len(log') \in Nat /\ Len(log') >= Len(log)
  BY EventsGrow
<1> SUFFICES ASSUME NEW x \in Clients
             PROVE  /\ state'[x] = "snapshot" <=> stage'[x] # "none"
                    /\ base'[x] <= Len(log')
                    /\ state'[x] = "out" => base'[x] = 0
  BY DEF StageInv
<1>2. /\ state[x] = "snapshot" <=> stage[x] # "none"
      /\ base[x] \in Nat /\ base[x] <= Len(log') /\ base[x] <= Len(log)
      /\ state[x] = "out" => base[x] = 0
  BY <1>1 DEF StageInv
<1>3. CASE state'[x] = state[x] /\ base'[x] = base[x] /\ (stage[x] = "none" <=> stage'[x] = "none")
  BY <1>2, <1>3
<1>4. CASE OtherStep
  BY <1>3, <1>4, ReaderKept
<1>5. CASE ClientStep(x)
  <2>1. log' = log
    BY <1>5, ClientKept
  <2>2. CASE \E wanted \in (SUBSET Keys) \ {{}} : Open(x, wanted)
    BY <1>1, <2>1, <2>2 DEF Open, Subscribe
  <2>3. CASE Get(x) \/ Query(x) \/ Fill(x) \/ GetAgain(x)
    BY <1>3, <2>3 DEF Get, Query, Fill, GetAgain, vars
  <2>4. CASE SendSnapshot(x)
    BY <1>2, <2>4 DEF SendSnapshot, SnapshotSent
  <2>5. CASE SendEvent(x)
    BY <1>3, <2>5 DEF SendEvent, Send
  <2>6. CASE Return(x) \/ Leave(x)
    BY <1>1, <2>6 DEF Return, Leave, Finish, Disconnect, Exit, Forget
  <2>7. QED
    BY <1>5, <2>2, <2>3, <2>4, <2>5, <2>6 DEF ClientStep, Read
<1>6. QED
  BY <1>3, <1>4, <1>5, Steps, OthersKept

\* A client's snapshot when only the events change, and no resending ends.
LEMMA SnapshotKept ==
    ASSUME IInv, FeedOK, NEW x \in Clients, SnapshotOf(x), StageInv, log' = log, sent' = sent,
           \A k \in Keys : resent'[k] # "open" => resent'[k] = resent[k],
           base'[x] = base[x], interest'[x] = interest[x],
           \A n \in 1..Len(log) : n <= base[x] /\ log[n] \in Limited \cap interest[x] /\ Has(x, n)
                                  => Has(x, n)'
    PROVE  SnapshotOf(x)'
<1> SUFFICES ASSUME NEW n \in 1..Len(log), n <= base[x], log[n] \in Limited \cap interest[x],
                    resent'[log[n]] # "open"
             PROVE  Has(x, n)' \/ Repeated(x, n)'
  BY DEF SnapshotOf
<1>1. log[n] \in Keys /\ resent'[log[n]] = resent[log[n]]
  BY DEF FeedOK
<1>2. Has(x, n) \/ Repeated(x, n)
  BY <1>1 DEF SnapshotOf
<1>3. Repeated(x, n) => Repeated(x, n)'
  BY <1>1 DEF Repeated
<1>4. QED
  BY <1>2, <1>3

\* A pipeline that comes to its last price publishes what a client may lack.
LEMMA SnapshotPublish ==
    ASSUME IInv, FeedOK, PipeInv, StageInv, NEW x \in Clients, SnapshotOf(x), PublishPrice
    PROVE  SnapshotOf(x)'
<1>1. UNCHANGED <<stage, values, shown, base, state, interest>>
  BY ReaderKept DEF OtherStep
<1>2. PICK k \in Keys, first \in Nat \ {0}, n \in Nat \ {0}, h \in Nat :
        /\ Pipeline(k, first, n) /\ h < n
        /\ sent' = Append(sent, first + h) /\ log' = Append(log, k)
        /\ resent' = IF h + 1 = n THEN [resent EXCEPT ![k] = IF @ = "open" THEN "over" ELSE @]
                     ELSE resent
  BY PriceEvent
<1>3. /\ Len(log) \in Nat /\ Len(sent) = Len(log) /\ first + h \in Nat
      /\ log \in Seq(Keys \cup {Invalid}) /\ sent \in Seq(Nat)
  BY DEF IInv, ServerOK, FeedOK
<1>4. /\ Len(log') = Len(log) + 1 /\ log'[Len(log) + 1] = k
      /\ \A m \in 1..Len(log) : log'[m] = log[m]
      /\ \A m \in 1..Len(log') : m \in 1..Len(log) \/ m = Len(log) + 1
  BY <1>2, <1>3, Appended
<1>5. sent'[Len(log) + 1] = first + h /\ \A m \in 1..Len(log) : sent'[m] = sent[m]
  BY <1>2, <1>3, Appended
<1>6. base[x] \in Nat /\ base[x] <= Len(log)
  BY DEF StageInv, FeedOK
<1> SUFFICES ASSUME NEW m \in 1..Len(log'), m <= base[x],
                    log'[m] \in Limited \cap interest[x], resent'[log'[m]] # "open"
             PROVE  Has(x, m)' \/ Repeated(x, m)'
  BY <1>1 DEF SnapshotOf
<1>7. m \in 1..Len(log) /\ log'[m] = log[m] /\ sent'[m] = sent[m] /\ log[m] \in Keys
      /\ sent[m] \in Nat
  <2>1. m \in 1..Len(log) /\ m \in 1..Len(sent)
    BY <1>3, <1>4, <1>6
  <2>2. sent[m] \in Nat
    BY <1>3, <2>1, ElementOfSeq
  <2>3. QED
    BY <1>4, <1>5, <2>1, <2>2 DEF FeedOK
<1>8. CASE resent[log[m]] # "open"
  <2>1. resent'[log[m]] = resent[log[m]]
    BY <1>2, <1>7, <1>8 DEF FeedOK
  <2>2. Has(x, m) \/ Repeated(x, m)
    BY <1>7, <1>8 DEF SnapshotOf
  <2>3. Has(x, m) => Has(x, m)'
    BY <1>1, <1>7 DEF Has
  <2>4. ASSUME Repeated(x, m) PROVE Repeated(x, m)'
    <3>1. PICK j \in 1..Len(log) : base[x] < j /\ log[j] = log[m] /\ sent[j] >= sent[m]
      BY <2>4 DEF Repeated
    <3>2. j \in 1..Len(log') /\ log'[j] = log[j] /\ sent'[j] = sent[j]
      BY <1>3, <1>4, <1>5, <3>1
    <3>3. QED
      BY <1>1, <1>7, <2>1, <2>4, <3>1, <3>2 DEF Repeated
  <2>5. QED
    BY <2>2, <2>3, <2>4
<1>9. CASE resent[log[m]] = "open"
  <2>1. log[m] = k /\ h + 1 = n /\ resent'[log[m]] = "over"
    BY <1>2, <1>7, <1>9 DEF FeedOK
  <2>2. sent[m] <= first + n - 1
    BY <1>2, <1>7, <2>1 DEF Pipeline
  <2>3. first + h >= sent[m]
    BY <1>7, <2>1, <2>2
  <2>4. Len(log) + 1 \in 1..Len(log') /\ base[x] < Len(log) + 1
    BY <1>3, <1>4, <1>6
  <2>5. Repeated(x, m)'
    BY <1>1, <1>4, <1>5, <1>7, <2>1, <2>3, <2>4 DEF Repeated
  <2>6. QED
    BY <2>5
<1>10. QED
  BY <1>8, <1>9

\* Resending, after which nothing is claimed of the stock for a while.
LEMMA SnapshotResend ==
    ASSUME IInv, FeedOK, PipeInv, StoredInv, StageInv, NEW x \in Clients, SnapshotOf(x),
           OtherStep, ~PublishPrice
    PROVE  SnapshotOf(x)'
<1>1. UNCHANGED <<stage, values, shown, base, state, interest>> /\ log' = log /\ sent' = sent
  BY ReaderKept, EventsKept
<1>2. \A k \in Keys : resent'[k] # "open" => resent'[k] = resent[k]
  <2>1. CASE Register \/ Disconnected
    BY <2>1 DEF Register, Disconnected
  <2>2. CASE SetPrice
    BY <2>2, SetStep
  <2>3. CASE Resend
    BY <2>3 DEF Resend, FeedOK
  <2>4. ASSUME NEW k \in Keys, NEW n, MissTick(k) \/ Frame(k, n) \/ CollectBar(k, n)
        PROVE  resent' = resent
    BY <2>4 DEF MissTick, Frame, CollectBar, streamer
  <2>5. ASSUME NEW c \in Conns, SubscriptionBegins(c) \/ HubStep(c) PROVE resent' = resent
    BY <2>5 DEF SubscriptionBegins, HubStep, streamer
  <2>6. CASE Lifespan
    BY <2>6 DEF Lifespan, streamer
  <2>7. QED
    BY <2>1, <2>2, <2>3, <2>4, <2>5, <2>6 DEF OtherStep
<1>3. \A n : Has(x, n)' <=> Has(x, n)
  BY <1>1 DEF Has
<1>4. QED
  BY <1>1, <1>2, <1>3, SnapshotKept

\* What is sent to a client only gets newer.
LEMMA NewerKept ==
    ASSUME FeedOK, NEW x \in Clients, NEW prices \in [Keys -> Nat], NEW k \in Keys
    PROVE  /\ Newer(x, prices)[x][k] \in Nat
           /\ Newer(x, prices)[x][k] >= shown[x][k] /\ Newer(x, prices)[x][k] >= prices[k]
BY DEF Newer, FeedOK

\* A handler reads, fills and sends what is as new as the events before it.
LEMMA SnapshotClient ==
    ASSUME IInv, FeedOK, QueueInv, PipeInv, StoredInv, StageInv, NEW x \in Clients, SnapshotOf(x),
           ClientStep(x)
    PROVE  SnapshotOf(x)'
<1> USE DEF FeedOK
<1>1. log' = log /\ sent' = sent /\ resent' = resent /\ Len(log) \in Nat
  BY ClientKept DEF IInv, ServerOK, streamer
<1>2. \A n \in 1..Len(log) : log[n] \in Keys /\ sent[n] \in Nat /\ 0 < sent[n]
  <2>1. sent \in Seq(Nat) /\ Len(sent) = Len(log)
    OBVIOUS
  <2>2. \A n \in 1..Len(log) : sent[n] \in Nat
    BY <2>1, ElementOfSeq
  <2>3. QED
    BY <2>2
<1>3. CASE \E wanted \in (SUBSET Keys) \ {{}} : Open(x, wanted)
  <2>1. stage'[x] = "get"
    BY <1>3 DEF Open
  <2>2. QED
    BY <2>1 DEF SnapshotOf, Has
<1>4. CASE Get(x)
  <2>1. /\ interest'[x] = interest[x] /\ base'[x] = base[x]
        /\ stage'[x] \notin {"none", "get"}
        /\ \A k \in Keys : k \in interest[x] => values'[x][k] = stored[k]
    BY <1>4 DEF Get, vars
  <2>2. ASSUME NEW n \in 1..Len(log), log[n] \in interest[x], resent[log[n]] # "open"
        PROVE  Has(x, n)'
    BY <1>1, <1>2, <2>1, <2>2 DEF StoredInv, Has
  <2>3. QED
    BY <1>1, <2>1, <2>2 DEF SnapshotOf
<1>5. ASSUME UNCHANGED <<vars, shown, base>>, stage[x] \notin {"none", "get"},
             stage'[x] \notin {"none", "get"},
             \A k \in Keys : values[x][k] > 0 => values'[x][k] = values[x][k]
      PROVE  SnapshotOf(x)'
  <2>1. ASSUME NEW n \in 1..Len(log), Has(x, n) PROVE Has(x, n)'
    <3>1. values[x][log[n]] >= sent[n] /\ log[n] \in Keys /\ sent[n] \in Nat /\ 0 < sent[n]
      BY <1>2, <1>5, <2>1 DEF Has
    <3>2. values[x][log[n]] \in Nat /\ values[x][log[n]] > 0
      BY <3>1
    <3>3. QED
      BY <1>1, <1>5, <3>1, <3>2 DEF Has
  <2>2. base'[x] = base[x] /\ interest'[x] = interest[x]
    BY <1>5 DEF vars
  <2>3. QED
    BY <1>1, <2>1, <2>2, SnapshotKept
<1>6. CASE Query(x)
  BY <1>5, <1>6 DEF Query
<1>7. CASE Fill(x)
  BY <1>5, <1>7 DEF Fill
<1>8. CASE GetAgain(x)
  <2>1. \A k \in Keys : values[x][k] > 0 => values'[x][k] = values[x][k]
    BY <1>8 DEF GetAgain, Missing
  <2>2. QED
    BY <1>5, <1>8, <2>1 DEF GetAgain
<1>9. CASE SendSnapshot(x)
  <2> DEFINE prices == [k \in Keys |-> IF k \in Limited THEN values[x][k] ELSE 0]
  <2>1. prices \in [Keys -> Nat]
    OBVIOUS
  <2>2. /\ shown' = Newer(x, prices) /\ stage[x] = "send" /\ stage'[x] = "none"
        /\ base' = base /\ interest' = interest
    BY <1>9 DEF SendSnapshot, SnapshotSent
  <2>3. ASSUME NEW n \in 1..Len(log), log[n] \in Limited \cap interest[x], Has(x, n)
        PROVE  Has(x, n)'
    <3>1. values[x][log[n]] >= sent[n] /\ log[n] \in Keys
      BY <1>2, <2>2, <2>3 DEF Has
    <3>2. prices[log[n]] = values[x][log[n]] /\ values[x][log[n]] \in Nat /\ sent[n] \in Nat
      BY <1>2, <2>3, <3>1
    <3>3. shown'[x][log[n]] \in Nat /\ shown'[x][log[n]] >= prices[log[n]]
      BY <2>1, <2>2, <3>1, NewerKept
    <3>4. shown'[x][log[n]] >= sent[n]
      BY <3>1, <3>2, <3>3
    <3>5. QED
      BY <1>1, <2>2, <3>4 DEF Has
  <2>4. QED
    BY <1>1, <2>2, <2>3, SnapshotKept
<1>10. CASE SendEvent(x)
  <2> DEFINE e == Head(queue[x])
             prices == [Nothing EXCEPT ![log[e]] = sent[e]]
  <2>1. e \in 1..Len(log)
    BY <1>10 DEF SendEvent, Send, QueueInv, IInv, ClientsOK
  <2>2. prices \in [Keys -> Nat]
    <3>1. sent[e] \in Nat /\ Nothing \in [Keys -> Nat]
      BY <1>2, <2>1 DEF Nothing
    <3>2. QED
      BY <3>1
  <2>3. /\ shown' = Newer(x, prices) /\ state[x] = "live" /\ stage' = stage
        /\ base' = base /\ interest' = interest /\ values' = values
    BY <1>10 DEF SendEvent, Send
  <2>4. ASSUME NEW n \in 1..Len(log), Has(x, n) PROVE Has(x, n)'
    <3>1. stage[x] = "none" /\ shown[x][log[n]] >= sent[n] /\ log[n] \in Keys /\ sent[n] \in Nat
      BY <1>2, <2>3, <2>4 DEF Has, StageInv
    <3>2. /\ shown'[x][log[n]] \in Nat /\ shown'[x][log[n]] >= shown[x][log[n]]
          /\ shown[x][log[n]] \in Nat
      <4> HIDE DEF prices
      <4>1. QED
        BY <2>2, <2>3, <3>1, NewerKept
    <3>3. shown'[x][log[n]] >= sent[n]
      BY <3>1, <3>2
    <3>4. QED
      BY <1>1, <2>3, <3>1, <3>3 DEF Has
  <2>5. QED
    BY <1>1, <2>3, <2>4, SnapshotKept
<1>11. CASE Return(x) \/ Leave(x)
  <2>1. base'[x] = 0
    BY <1>11 DEF Return, Leave, Forget
  <2>2. QED
    BY <1>1, <2>1 DEF SnapshotOf
<1>12. QED
  BY <1>3, <1>4, <1>6, <1>7, <1>8, <1>9, <1>10, <1>11 DEF ClientStep, Read

\* A connection that is made is read from the moment it is subscribed.
LEMMA AckStep ==
    ASSUME IInv, LinkInv, WireInv, FeedOK, PipeInv, AckInv, FeedNext
    PROVE  AckInv'
<1> USE DEF IInv, ServerOK, FeedOK
<1> SUFFICES ASSUME NEW c \in Conns, link'[c] = "acked" PROVE Reached(c)' = since'[c]
  BY DEF AckInv
<1>1. CASE link[c] = "acked" /\ log' = log /\ since'[c] = since[c] /\ wire'[c] = wire[c]
  BY <1>1 DEF AckInv, Reached
<1>2. CASE Register \/ SetPrice \/ Resend \/ Disconnected
  BY <1>1, <1>2 DEF Register, SetPrice, Execute, Resend, Disconnected, vars
<1>3. ASSUME NEW k \in Keys, NEW n, MissTick(k) \/ Frame(k, n) \/ CollectBar(k, n)
      PROVE  Reached(c)' = since'[c]
  BY <1>1, <1>3 DEF MissTick, Frame, CollectBar, vars
<1>4. CASE PublishPrice
  <2>1. PICK k \in Keys : Publish(k)
    BY <1>4, PriceEvent
  <2>2. since' = since /\ link[c] = "acked"
    BY <1>4, <2>1 DEF PublishPrice, Execute, Publish
  <2>3. Reached(c)' = Reached(c)
    BY <2>1, <2>2, PublishWire DEF Subscribed
  <2>4. QED
    BY <2>2, <2>3 DEF AckInv
<1>5. ASSUME NEW e \in Conns, SubscriptionBegins(e) PROVE Reached(c)' = since'[c]
  <2>1. CASE c = e
    <3>1. wire'[c] = <<>> /\ log' = log /\ since'[c] = Len(log)
      BY <1>5, <2>1 DEF SubscriptionBegins, Acknowledge, WireInv, Subscribed
    <3>2. QED
      BY <3>1 DEF Reached
  <2>2. CASE c # e
    BY <1>1, <1>5, <2>2 DEF SubscriptionBegins, Acknowledge
  <2>3. QED
    BY <2>1, <2>2
<1>6. ASSUME NEW e \in Conns, HubStep(e) PROVE Reached(c)' = since'[c]
  <2>1. since' = since /\ log' = log
    BY <1>6, LogKept DEF HubStep
  <2>2. CASE Deliver(e)
    <3>1. link'[c] = link[c] /\ wire' = [wire EXCEPT ![e] = Tail(@)] /\ listener[e] = "running"
      BY <2>2 DEF Deliver
    <3>2. c # e
      BY <3>1 DEF LinkInv
    <3>3. QED
      BY <1>1, <2>1, <3>1, <3>2
  <2>3. CASE ~Deliver(e)
    <3>1. link[c] = "acked" /\ wire'[c] = wire[c]
      BY <1>6, <2>3 DEF HubStep, Drop, Connect, ConnectFails, Serve, Rotate, AbandonRotation,
         ListenerEnds, ListenerClosed, Close, server
    <3>2. QED
      BY <1>1, <2>1, <3>1
  <2>4. QED
    BY <2>2, <2>3
<1>7. CASE Lifespan
  <2>1. link[c] = "acked" /\ wire'[c] = wire[c] /\ log' = log /\ since' = since
    BY <1>7 DEF Lifespan, SupervisorExits, Shutdown, Stopped, server
  <2>2. QED
    BY <1>1, <2>1
<1>8. ASSUME NEW x \in Clients, ClientStep(x) PROVE Reached(c)' = since'[c]
  BY <1>1, <1>8, ClientKept
<1>9. QED
  BY <1>2, <1>3, <1>4, <1>5, <1>6, <1>7, <1>8, Steps DEF OtherStep

\* Who is registered is fed by the active connection.
LEMMA ActiveFeeds ==
    ASSUME IInv, NEW x \in Clients, registered[x] # {}
    PROVE  /\ active \in Conns /\ phase = "serving" /\ listener[active] = "running"
           /\ link[active] \in {"up", "dropped"} /\ registered[x] = interest[x]
BY DEF IInv, HubOK, HubInv, ClientInv, Fed, Told

EventOf(x) ==
    registered[x] # {} /\ link[active] = "up" =>
        \A n \in 1..Len(log) :
            /\ base[x] < n /\ since[active] < n /\ n <= Reached(active) /\ log[n] \in interest[x]
            => Given(x, n)

LEMMA EventParts == EventInv <=> \A x \in Clients : EventOf(x)
BY DEF EventInv, EventOf

\* A client's events when nothing of theirs changes.
LEMMA EventKept ==
    ASSUME NEW x \in Clients, EventOf(x),
           registered'[x] = {} \/
             /\ UNCHANGED <<log, sent, active>> /\ wire'[active] = wire[active]
             /\ link'[active] = link[active] /\ since'[active] = since[active]
             /\ registered'[x] = registered[x] /\ queue'[x] = queue[x]
             /\ interest'[x] = interest[x] /\ base'[x] = base[x] /\ shown'[x] = shown[x]
    PROVE  EventOf(x)'
BY DEF EventOf, Given, Reached

\* A new event is not read yet.
LEMMA EventPublish ==
    ASSUME IInv, WireInv, FeedOK, PipeInv, NEW x \in Clients, EventOf(x), PublishPrice
    PROVE  EventOf(x)'
<1>1. PICK k \in Keys : Publish(k)
  BY PriceEvent
<1>2. /\ UNCHANGED <<active, link, since, queue, registered, interest, base, shown>>
      /\ Len(log') = Len(log) + 1 /\ Len(log) \in Nat
      /\ \A m \in 1..Len(log) : log'[m] = log[m] /\ sent'[m] = sent[m]
  <2>1. FeedNext
    BY DEF FeedNext
  <2>2. Len(log') = Len(log) + 1
    BY <1>1, PublishWire
  <2>3. QED
    BY <1>1, <2>1, <2>2, EventsGrow DEF Publish, PublishPrice, Execute, reader, hub, clients
<1> SUFFICES ASSUME registered[x] # {}, link[active] = "up", NEW n \in 1..Len(log'),
                    base[x] < n, since[active] < n, n <= Reached(active)', log'[n] \in interest[x]
             PROVE  Given(x, n)'
  BY <1>2 DEF EventOf
<1>3. active \in Conns
  BY ActiveFeeds
<1>4. Reached(active)' = Reached(active)
  BY <1>1, <1>2, <1>3, PublishWire DEF Subscribed
<1>5. Len(wire[active]) \in Nat /\ n \in Nat
  BY <1>3 DEF IInv, ServerOK
<1>6. n \in 1..Len(log)
  <2>1. n <= Reached(active) /\ Reached(active) = Len(log) - Len(wire[active])
    BY <1>4 DEF Reached
  <2>2. QED
    BY <1>2, <1>5, <2>1
<1>7. Given(x, n)
  BY <1>2, <1>4, <1>6 DEF EventOf
<1>8. QED
  BY <1>2, <1>6, <1>7 DEF Given

\* What is read is put into the queues of those who asked for it.
LEMMA EventDeliver ==
    ASSUME IInv, WireInv, FeedOK, NEW x \in Clients, EventOf(x), NEW c \in Conns, Deliver(c),
           UNCHANGED <<sent, since, base, shown>>
    PROVE  EventOf(x)'
<1>1. /\ Head(wire[c]) = Reached(c) + 1 /\ Head(wire[c]) <= Len(log)
      /\ Reached(c)' = Reached(c) + 1 /\ Reached(c) \in Nat
      /\ log' = log /\ link' = link /\ active' = active /\ active = c /\ interest' = interest
  BY DeliverWire DEF Deliver
<1>2. queue[x] \in Seq((1..MaxMessages) \cup {End}) /\ registered[x] \in SUBSET Keys
      /\ base[x] \in Nat /\ since[c] \in Nat /\ Len(log) \in Nat
  BY DEF IInv, ClientsOK, FeedOK, ServerOK
<1> SUFFICES ASSUME registered'[x] # {}, link[c] = "up", NEW n \in 1..Len(log),
                    base[x] < n, since[c] < n, n <= Reached(c) + 1, log[n] \in interest[x]
             PROVE  Given(x, n)'
  BY <1>1 DEF EventOf
<1> DEFINE e == Head(wire[c])
           to == {y \in Clients : log[e] \in registered[y]}
           slow == {y \in to : Len(queue[y]) >= Capacity}
<1>3. /\ x \notin slow /\ registered'[x] = registered[x]
      /\ queue'[x] = IF x \in to THEN Append(queue[x], e) ELSE queue[x]
  BY DEF Deliver
<1>4. registered[x] = interest[x]
  BY <1>3, ActiveFeeds
<1>5. CASE n = e
  <2>1. x \in to
    BY <1>4, <1>5
  <2>2. queue'[x] = Append(queue[x], n) /\ n \in 1..MaxMessages
    <3>1. wire[c] \in Seq(1..MaxMessages) /\ wire[c] # <<>>
      BY DEF IInv, ServerOK, Deliver
    <3>2. e \in 1..MaxMessages
      BY <3>1, HeadTailProperties
    <3>3. QED
      BY <1>3, <1>5, <2>1, <3>2
  <2>3. /\ Len(queue[x]) + 1 \in DOMAIN queue'[x]
        /\ queue'[x][Len(queue[x]) + 1] = n
    BY <1>2, <2>2, AppendProperties
  <2>4. QED
    BY <2>3 DEF Given
<1>6. CASE n # e
  <2>1. n <= Reached(c) /\ n \in Nat
    BY <1>1, <1>6
  <2>2. Given(x, n)
    BY <1>1, <1>3, <2>1 DEF EventOf
  <2>3. ASSUME NEW i \in DOMAIN queue[x], queue[x][i] = n
        PROVE  i \in DOMAIN queue'[x] /\ queue'[x][i] = n
    <3>1. CASE queue'[x] = queue[x]
      BY <2>3, <3>1
    <3>2. CASE queue'[x] = Append(queue[x], e)
      BY <1>2, <2>3, <3>2
    <3>3. QED
      BY <1>3, <3>1, <3>2
  <2>4. QED
    BY <1>1, <2>2, <2>3 DEF Given
<1>7. QED
  BY <1>5, <1>6

\* The client's handler sends what is in its queue, the oldest first.
LEMMA EventSent ==
    ASSUME IInv, FeedOK, QueueInv, NEW x \in Clients, EventOf(x), ClientStep(x)
    PROVE  EventOf(x)'
<1> USE DEF FeedOK
<1>1. /\ UNCHANGED <<log, sent, since, link, wire, active>> /\ Len(log) \in Nat
      /\ \A c \in Conns : Reached(c)' = Reached(c)
  <2>1. UNCHANGED <<log, sent, since, link, wire, active>>
    BY ClientKept
  <2>2. QED
    BY <2>1 DEF IInv, ServerOK, Reached
<1>2. \A n \in 1..Len(log) : log[n] \in Keys /\ sent[n] \in Nat
  <2>1. sent \in Seq(Nat) /\ Len(sent) = Len(log)
    OBVIOUS
  <2>2. \A n \in 1..Len(log) : sent[n] \in Nat
    BY <2>1, ElementOfSeq
  <2>3. QED
    BY <2>2
<1>3. CASE \E wanted \in (SUBSET Keys) \ {{}} : Open(x, wanted)
  <2>1. base'[x] = Len(log)
    BY <1>3 DEF Open
  <2>2. \A n \in 1..Len(log) : ~(base'[x] < n)
    BY <1>1, <2>1
  <2>3. QED
    BY <1>1, <2>2 DEF EventOf
<1>4. CASE Get(x) \/ Query(x) \/ Fill(x) \/ GetAgain(x)
  <2>1. UNCHANGED <<vars, shown, base, since, sent>>
    BY <1>4 DEF Get, Query, Fill, GetAgain
  <2>2. QED
    BY <2>1, EventKept DEF vars
<1>5. ASSUME NEW prices \in [Keys -> Nat], shown' = Newer(x, prices), base' = base,
             registered' = registered, interest' = interest,
             \A n \in 1..Len(log) : (\E i \in DOMAIN queue[x] : queue[x][i] = n) => Given(x, n)'
      PROVE  EventOf(x)'
  <2> SUFFICES ASSUME registered[x] # {}, link[active] = "up", NEW n \in 1..Len(log),
                      base[x] < n, since[active] < n, n <= Reached(active), log[n] \in interest[x]
               PROVE  Given(x, n)'
    <3>1. registered[x] # {} => Reached(active)' = Reached(active)
      BY <1>1, ActiveFeeds
    <3>2. QED
      BY <1>1, <1>5, <3>1 DEF EventOf
  <2>1. Given(x, n)
    BY DEF EventOf
  <2>2. CASE shown[x][log[n]] >= sent[n]
    <3>1. /\ log[n] \in Keys /\ sent[n] \in Nat /\ shown[x][log[n]] \in Nat
      BY <1>2
    <3>2. shown'[x][log[n]] \in Nat /\ shown'[x][log[n]] >= shown[x][log[n]]
      BY <1>5, <3>1, NewerKept
    <3>3. shown'[x][log[n]] >= sent[n]
      BY <2>2, <3>1, <3>2
    <3>4. QED
      BY <1>1, <3>3 DEF Given
  <2>3. QED
    BY <1>5, <2>1, <2>2 DEF Given
<1>6. CASE SendSnapshot(x)
  <2>1. [k \in Keys |-> IF k \in Limited THEN values[x][k] ELSE 0] \in [Keys -> Nat]
    OBVIOUS
  <2>2. UNCHANGED <<queue, registered, interest, base>>
    BY <1>6 DEF SendSnapshot, SnapshotSent
  <2>3. \A n \in 1..Len(log) : (\E i \in DOMAIN queue[x] : queue[x][i] = n) => Given(x, n)'
    BY <2>2 DEF Given
  <2>4. QED
    BY <1>5, <1>6, <2>1, <2>2, <2>3 DEF SendSnapshot
<1>7. CASE SendEvent(x)
  <2> DEFINE e == Head(queue[x])
             prices == [Nothing EXCEPT ![log[e]] = sent[e]]
  <2>1. /\ queue[x] \in Seq((1..MaxMessages) \cup {End}) /\ queue[x] # <<>>
        /\ queue'[x] = Tail(queue[x]) /\ e # End
        /\ UNCHANGED <<registered, interest, base>> /\ shown' = Newer(x, prices)
    BY <1>7 DEF SendEvent, Send, IInv, ClientsOK
  <2>2. /\ 1 \in DOMAIN queue[x] /\ e = queue[x][1]
        /\ \A i \in DOMAIN queue[x] : i # 1 =>
            i - 1 \in DOMAIN queue'[x] /\ queue'[x][i - 1] = queue[x][i]
    <3>1. Len(queue[x]) \in Nat \ {0} /\ DOMAIN queue[x] = 1..Len(queue[x])
      BY <2>1
    <3>2. /\ Len(queue'[x]) = Len(queue[x]) - 1 /\ DOMAIN queue'[x] = 1..(Len(queue[x]) - 1)
          /\ \A j \in 1..(Len(queue[x]) - 1) : queue'[x][j] = queue[x][j + 1]
      BY <2>1, <3>1, HeadTailProperties
    <3>3. \A i \in DOMAIN queue[x] : i # 1 =>
            i - 1 \in DOMAIN queue'[x] /\ queue'[x][i - 1] = queue[x][i]
      <4> SUFFICES ASSUME NEW i \in DOMAIN queue[x], i # 1
                   PROVE  i - 1 \in DOMAIN queue'[x] /\ queue'[x][i - 1] = queue[x][i]
        OBVIOUS
      <4>1. i - 1 \in 1..(Len(queue[x]) - 1) /\ (i - 1) + 1 = i
        BY <3>1
      <4>2. queue'[x][i - 1] = queue[x][(i - 1) + 1]
        BY <3>2, <4>1
      <4>3. QED
        BY <3>2, <4>1, <4>2
    <3>4. 1 \in DOMAIN queue[x] /\ e = queue[x][1]
      BY <2>1, <3>1
    <3> HIDE DEF e
    <3>5. QED
      BY <3>3, <3>4
  <2>3. e \in 1..Len(log)
    BY <2>1, <2>2 DEF QueueInv
  <2>4. prices \in [Keys -> Nat] /\ prices[log[e]] = sent[e] /\ log[e] \in Keys /\ sent[e] \in Nat
    <3>1. sent[e] \in Nat /\ log[e] \in Keys /\ Nothing \in [Keys -> Nat]
      BY <1>2, <2>3 DEF Nothing
    <3>2. QED
      BY <3>1
  <2> HIDE DEF e, prices
  <2>5. shown'[x][log[e]] >= sent[e]
    BY <2>1, <2>4, NewerKept
  <2>6. ASSUME NEW n \in 1..Len(log), NEW i \in DOMAIN queue[x], queue[x][i] = n
        PROVE  Given(x, n)'
    <3>1. CASE i = 1
      BY <1>1, <2>2, <2>5, <2>6, <3>1 DEF Given
    <3>2. CASE i # 1
      BY <2>2, <2>6, <3>2 DEF Given
    <3>3. QED
      BY <3>1, <3>2
  <2>7. QED
    BY <1>5, <2>1, <2>4, <2>6
<1>8. CASE Return(x) \/ Leave(x)
  <2>1. registered'[x] = {}
    BY <1>8 DEF Return, Leave, Finish, Disconnect, Exit, IInv, ClientsOK
  <2>2. QED
    BY <2>1, EventKept
<1>9. QED
  BY <1>3, <1>4, <1>6, <1>7, <1>8 DEF ClientStep, Read

\* The events of a client when a connection is subscribed, again or anew.
LEMMA EventSubscribe ==
    ASSUME IInv, FeedOK, NEW x \in Clients, EventOf(x), NEW c \in Conns, SubscriptionBegins(c)
    PROVE  EventOf(x)'
<1>1. /\ UNCHANGED <<log, sent, base, shown, wire, active, registered, queue, interest>>
      /\ since' = [since EXCEPT ![c] = Len(log)] /\ Len(log) \in Nat
      /\ \A d \in Conns : d # c => link'[d] = link[d]
  BY DEF SubscriptionBegins, Acknowledge, hub, clients, reader, IInv, ServerOK
<1>2. CASE registered[x] = {}
  BY <1>1, <1>2, EventKept
<1>3. CASE registered[x] # {}
  <2>1. active \in Conns
    BY <1>3, ActiveFeeds
  <2>2. CASE c = active
    <3>1. since'[active] = Len(log)
      BY <1>1, <2>1, <2>2 DEF FeedOK
    <3>2. \A n \in 1..Len(log) : ~(Len(log) < n)
      BY <1>1
    <3>3. QED
      BY <1>1, <3>1, <3>2 DEF EventOf
  <2>3. CASE c # active
    <3>1. link'[active] = link[active] /\ since'[active] = since[active]
      BY <1>1, <2>1, <2>3 DEF FeedOK
    <3>2. QED
      BY <1>1, <3>1, EventKept
  <2>4. QED
    BY <2>2, <2>3
<1>4. QED
  BY <1>2, <1>3

\* The events of a client in a step of the hub.
LEMMA EventHub ==
    ASSUME IInv, WireInv, FeedOK, AckInv, NEW x \in Clients, EventOf(x), NEW c \in Conns, HubStep(c)
    PROVE  EventOf(x)'
<1>1. UNCHANGED <<log, sent, base, shown, since>>
  BY LogKept DEF HubStep, reader
<1>2. CASE registered[x] = {}
  <2>1. registered'[x] = {}
    BY <1>2, QueueGrows DEF OtherStep
  <2>2. QED
    BY <2>1, EventKept
<1>3. CASE registered[x] # {}
  <2>1. /\ active \in Conns /\ phase = "serving" /\ listener[active] = "running"
        /\ link[active] \in {"up", "dropped"}
    BY <1>3, ActiveFeeds
  <2>2. ASSUME UNCHANGED <<active, registered, queue, interest>>, wire'[active] = wire[active],
               link'[active] = link[active]
        PROVE  EventOf(x)'
    BY <1>1, <2>2, EventKept
  <2>3. CASE Drop(c)
    <3>1. UNCHANGED <<active, registered, queue, interest>>
      BY <2>3 DEF Drop, hub, clients
    <3>2. CASE c = active
      BY <2>1, <2>3, <3>1, <3>2 DEF Drop, EventOf, IInv, ServerOK
    <3>3. CASE c # active
      BY <2>1, <2>2, <2>3, <3>1, <3>3 DEF Drop, IInv, ServerOK
    <3>4. QED
      BY <3>2, <3>3
  <2>4. CASE Connect(c) \/ ConnectFails(c) \/ AbandonRotation(c)
    <3>1. c # active
      BY <2>1, <2>4 DEF Connect, ConnectFails, AbandonRotation, Unused
    <3>2. UNCHANGED <<active, registered, queue, interest>> /\ wire'[active] = wire[active]
          /\ link'[active] = link[active]
      BY <2>1, <2>4, <3>1 DEF Connect, ConnectFails, AbandonRotation, Close, clients, IInv, ServerOK
    <3>3. QED
      BY <2>2, <3>2
  <2>5. CASE Serve(c)
    BY <2>1, <2>5 DEF Serve
  <2>6. CASE Rotate(c)
    <3>1. link[c] = "acked" /\ active' = c /\ wire' = wire
      BY <2>6 DEF Rotate
    <3>2. Reached(c)' = since[c] /\ since[c] \in Nat
      BY <1>1, <3>1 DEF AckInv, Reached, FeedOK
    <3>3. \A n \in 1..Len(log) : ~(since[c] < n /\ n <= since[c])
      BY <3>2
    <3>4. Reached(active)' = since[c]
      BY <3>1, <3>2
    <3>5. QED
      BY <1>1, <3>1, <3>3, <3>4 DEF EventOf
  <2>7. CASE Deliver(c)
    BY <1>1, <2>7, EventDeliver
  <2>8. CASE ListenerEnds(c)
    <3>1. CASE c = active
      <4>1. registered'[x] = {}
        BY <1>3, <2>8, <3>1 DEF ListenerEnds, EndStreams, Streaming
      <4>2. QED
        BY <4>1, EventKept
    <3>2. CASE c # active
      BY <2>2, <2>8, <3>2 DEF ListenerEnds, server, clients
    <3>3. QED
      BY <3>1, <3>2
  <2>9. CASE ListenerClosed(c)
    <3>1. c # active
      BY <2>1, <2>9 DEF ListenerClosed
    <3>2. QED
      BY <2>1, <2>2, <2>9, <3>1 DEF ListenerClosed, Close, clients, IInv, ServerOK
  <2>10. QED
    BY <2>3, <2>4, <2>5, <2>6, <2>7, <2>8, <2>9 DEF HubStep
<1>4. QED
  BY <1>2, <1>3

\* The events of the clients, in every step.
LEMMA EventStep ==
    ASSUME IInv, WireInv, FeedOK, QueueInv, PipeInv, AckInv, EventInv, FeedNext
    PROVE  EventInv'
<1> SUFFICES ASSUME NEW x \in Clients PROVE EventOf(x)'
  BY EventParts DEF EventInv, EventOf
<1>1. EventOf(x)
  BY EventParts
<1>2. CASE PublishPrice
  BY <1>1, <1>2, EventPublish
<1>3. CASE Register \/ SetPrice \/ Resend \/ Disconnected
  <2>1. UNCHANGED <<vars, sent, since, base, shown>>
    BY <1>3 DEF Register, SetPrice, Execute, Resend, Disconnected, reader
  <2>2. QED
    BY <1>1, <2>1, EventKept DEF vars
<1>4. ASSUME NEW k \in Keys, NEW n, MissTick(k) \/ Frame(k, n) \/ CollectBar(k, n)
      PROVE  EventOf(x)'
  <2>1. UNCHANGED <<vars, sent, since, base, shown>>
    BY <1>4 DEF MissTick, Frame, CollectBar, reader
  <2>2. QED
    BY <1>1, <2>1, EventKept DEF vars
<1>5. ASSUME NEW c \in Conns, SubscriptionBegins(c) \/ HubStep(c) PROVE EventOf(x)'
  BY <1>1, <1>5, EventSubscribe, EventHub
<1>6. CASE Lifespan
  <2>1. CASE SupervisorExits
    BY <1>1, <1>6, <2>1, EventKept DEF Lifespan, SupervisorExits, server, clients, reader
  <2>2. CASE Shutdown
    <3>1. registered'[x] = {}
      BY <2>2 DEF Shutdown, EndStreams, Streaming
    <3>2. QED
      BY <1>1, <3>1, EventKept
  <2>3. CASE Stopped
    <3>1. registered[x] = {} /\ registered' = registered
      BY <2>3, ActiveFeeds DEF Stopped, clients
    <3>2. QED
      BY <1>1, <3>1, EventKept
  <2>4. QED
    BY <1>6, <2>1, <2>2, <2>3 DEF Lifespan
<1>7. ASSUME NEW y \in Clients, ClientStep(y) PROVE EventOf(x)'
  <2>1. CASE y = x
    BY <1>1, <1>7, <2>1, EventSent
  <2>2. CASE y # x
    <3>1. /\ registered'[x] = registered[x] /\ queue'[x] = queue[x] /\ interest'[x] = interest[x]
          /\ base'[x] = base[x] /\ shown'[x] = shown[x]
      BY <1>7, <2>2, OthersKept
    <3>2. UNCHANGED <<log, sent, since, link, wire, active>>
      BY <1>7, ClientKept
    <3>3. QED
      BY <1>1, <3>1, <3>2, EventKept
  <2>3. QED
    BY <2>1, <2>2
<1>8. QED
  BY <1>2, <1>3, <1>4, <1>5, <1>6, <1>7, Steps DEF OtherStep

\* The snapshots of the clients, in every step.
LEMMA SnapshotStep ==
    ASSUME IInv, FeedOK, QueueInv, PipeInv, StoredInv, StageInv, SnapshotInv, FeedNext
    PROVE  SnapshotInv'
<1> SUFFICES ASSUME NEW x \in Clients PROVE SnapshotOf(x)'
  BY DEF SnapshotInv
<1>1. SnapshotOf(x)
  BY DEF SnapshotInv
<1>2. CASE OtherStep
  BY <1>1, <1>2, SnapshotPublish, SnapshotResend
<1>3. ASSUME NEW y \in Clients, ClientStep(y) PROVE SnapshotOf(x)'
  <2>1. CASE y = x
    BY <1>1, <1>3, <2>1, SnapshotClient
  <2>2. CASE y # x
    <3>1. /\ stage'[x] = stage[x] /\ values'[x] = values[x] /\ interest'[x] = interest[x]
          /\ base'[x] = base[x] /\ shown'[x] = shown[x]
      BY <1>3, <2>2, OthersKept
    <3>2. log' = log /\ sent' = sent /\ resent' = resent
      BY <1>3, ClientKept DEF streamer
    <3>3. \A n : Has(x, n) => Has(x, n)'
      BY <3>1, <3>2 DEF Has
    <3>4. QED
      BY <1>1, <3>1, <3>2, <3>3, SnapshotKept
  <2>3. QED
    BY <2>1, <2>2
<1>4. QED
  BY <1>2, <1>3, Steps

\* To the hub, a step of the feed is one of its own, or none.
LEMMA FeedIsHub ==
    ASSUME IInv, FeedOK, PipeInv, [FeedNext]_feedVars
    PROVE  [Next]_vars
<1>1. CASE UNCHANGED feedVars
  BY <1>1 DEF feedVars, vars
<1>2. CASE PublishPrice
  <2>1. PICK k \in Keys : Publish(k)
    BY <1>2, PriceEvent
  <2>2. QED
    BY <2>1 DEF Next
<1>3. CASE Register \/ SetPrice \/ Resend \/ Disconnected
  BY <1>3 DEF Register, SetPrice, Resend, Disconnected
<1>4. ASSUME NEW k \in Keys, NEW n, MissTick(k) \/ Frame(k, n) \/ CollectBar(k, n) PROVE [Next]_vars
  BY <1>4 DEF MissTick, Frame, CollectBar
<1>5. ASSUME NEW c \in Conns, SubscriptionBegins(c) \/ HubStep(c) PROVE [Next]_vars
  BY <1>5 DEF SubscriptionBegins, HubStep, Next
<1>6. CASE Lifespan
  BY <1>6 DEF Lifespan, Next
<1>7. ASSUME NEW x \in Clients, ClientStep(x) PROVE [Next]_vars
  BY <1>7 DEF ClientStep, Read, Open, Get, Query, Fill, GetAgain, SendSnapshot, SendEvent, Return,
     Leave, Next
<1>8. QED
  BY <1>1, <1>2, <1>3, <1>4, <1>5, <1>6, <1>7, Steps DEF OtherStep

\* The inductive invariant of the feed, with that of the hub.
FeedAll == IInv /\ OrderInv /\ FeedInv

LEMMA FeedStep == FeedAll /\ [FeedNext]_feedVars => FeedAll'
<1> SUFFICES ASSUME FeedAll, [FeedNext]_feedVars PROVE FeedAll'
  OBVIOUS
<1> USE DEF FeedAll, FeedInv, OrderInv
<1>1. IInv' /\ OrderInv'
  BY FeedIsHub, NextInv, OrderStep
<1>2. CASE FeedNext
  <2>1. FeedOK'
    <3>1. CASE \E x \in Clients : ClientStep(x)
      BY <1>2, <3>1, ReaderTypes DEF ClientStep
    <3>2. CASE OtherStep
      BY <1>2, <3>2, ReaderTypes, StreamerTypes DEF OtherStep
    <3>3. QED
      BY <1>2, <3>1, <3>2, Steps
  <2>2. QueueInv'
    BY <1>2, EventsGrow, QueueStep
  <2>3. PipeInv' /\ StoredInv'
    BY <1>2, PipeStep
  <2>4. StageInv' /\ SnapshotInv'
    BY <1>2, StageStep, SnapshotStep
  <2>5. AckInv' /\ EventInv'
    BY <1>2, AckStep, EventStep
  <2>6. QED
    BY <1>1, <2>1, <2>2, <2>3, <2>4, <2>5
<1>3. CASE UNCHANGED feedVars
  <2>1. FeedOK'
    BY <1>3 DEF feedVars, FeedOK
  <2>2. QueueInv' /\ StoredInv' /\ StageInv'
    BY <1>3 DEF feedVars, QueueInv, StoredInv, StageInv
  <2>3. PipeInv'
    BY <1>3 DEF feedVars, PipeInv, Pipeline
  <2>4. SnapshotInv'
    BY <1>3 DEF feedVars, SnapshotInv, SnapshotOf, Has, Repeated
  <2>5. AckInv' /\ EventInv'
    BY <1>3 DEF feedVars, AckInv, EventInv, Given, Reached
  <2>6. QED
    BY <1>1, <2>1, <2>2, <2>3, <2>4, <2>5
<1>4. QED
  BY <1>2, <1>3

\* Before the first tick.
LEMMA FeedStart == FeedInit => FeedAll
<1> SUFFICES ASSUME FeedInit PROVE FeedAll
  OBVIOUS
<1>1. IInv /\ OrderInv
  BY InitInv, OrderInit DEF FeedInit
<1>2. Len(<<>>) = 0 /\ log = <<>> /\ sent = <<>> /\ 1..0 = {}
  BY DEF FeedInit, Init
<1>3. Nothing \in [Keys -> Nat]
  BY DEF Nothing
<1>4. FeedOK
  BY <1>2, <1>3 DEF FeedInit, FeedOK
<1>5. QueueInv /\ PipeInv /\ StoredInv /\ SnapshotInv
  BY <1>2 DEF FeedInit, Init, QueueInv, PipeInv, StoredInv, SnapshotInv, SnapshotOf
<1>6. StageInv
  BY <1>2 DEF FeedInit, Init, StageInv
<1>7. AckInv /\ EventInv
  BY <1>2 DEF FeedInit, Init, AckInv, EventInv
<1>8. QED
  BY <1>1, <1>4, <1>5, <1>6, <1>7 DEF FeedAll, FeedInv

\* A client that waits for nothing has what is due to it.
LEMMA FeedImplied == FeedAll => LatestReachesClient
<1> SUFFICES ASSUME FeedAll, NEW x \in Clients,
                    state[x] = "live", registered[x] # {}, queue[x] = <<>>,
                    active # None, link[active] = "up", wire[active] = <<>>,
                    NEW n \in 1..Len(log), log[n] \in interest[x], Due(x, n)
             PROVE  shown[x][log[n]] >= sent[n]
  BY DEF LatestReachesClient
<1> USE DEF FeedAll, FeedInv
<1>1. /\ base[x] \in Nat /\ base[x] <= Len(log) /\ stage[x] = "none" /\ Len(log) \in Nat
      /\ \A m \in 1..Len(log) : log[m] \in Keys /\ sent[m] \in Nat
      /\ \A k \in Keys : shown[x][k] \in Nat
  <2>1. sent \in Seq(Nat) /\ Len(sent) = Len(log)
    BY DEF FeedOK
  <2>2. ASSUME NEW m \in 1..Len(log) PROVE sent[m] \in Nat
    <3>1. m \in 1..Len(sent)
      BY <2>1
    <3>2. QED
      BY <2>1, <3>1, ElementOfSeq
  <2>3. Len(log) \in Nat /\ \A m \in 1..Len(log) : log[m] \in Keys
    BY DEF IInv, ServerOK, FeedOK
  <2>4. base[x] \in Nat /\ \A k \in Keys : shown[x][k] \in Nat
    BY DEF FeedOK
  <2>5. base[x] <= Len(log) /\ stage[x] = "none"
    BY DEF StageInv
  <2>6. QED
    BY <2>2, <2>3, <2>4, <2>5
<1>2. active \in Conns /\ since[active] \in Nat /\ Reached(active) = Len(log)
  BY <1>1 DEF Reached, IInv, HubOK, FeedOK
<1>3. ASSUME NEW m \in 1..Len(log), base[x] < m, since[active] < m, log[m] \in interest[x]
      PROVE  shown[x][log[m]] >= sent[m]
  <2>1. Given(x, m)
    BY <1>1, <1>2, <1>3 DEF EventInv
  <2>2. DOMAIN queue[x] = {}
    OBVIOUS
  <2>3. QED
    BY <2>1, <2>2 DEF Given
<1>4. CASE base[x] < n
  BY <1>1, <1>3, <1>4 DEF Due
<1>5. CASE n <= base[x]
  <2>1. /\ log[n] \in Limited \cap interest[x] /\ resent[log[n]] # "open"
        /\ resent[log[n]] = "over" => since[active] <= base[x]
    BY <1>5 DEF Due
  <2>2. Has(x, n) \/ Repeated(x, n)
    BY <1>5, <2>1 DEF SnapshotInv, SnapshotOf
  <2>3. CASE Has(x, n)
    BY <1>1, <2>3 DEF Has
  <2>4. CASE Repeated(x, n)
    <3>1. PICK m \in 1..Len(log) : base[x] < m /\ log[m] = log[n] /\ sent[m] >= sent[n]
      BY <2>4 DEF Repeated
    <3>2. since[active] <= base[x]
      BY <2>1, <2>4 DEF Repeated
    <3>3. since[active] < m
      BY <1>1, <1>2, <3>1, <3>2
    <3>4. shown[x][log[m]] >= sent[m]
      BY <1>3, <3>1, <3>3
    <3>5. QED
      BY <1>1, <3>1, <3>4
  <2>5. QED
    BY <2>2, <2>3, <2>4
<1>6. QED
  BY <1>1, <1>4, <1>5

\* Composed with the feed, the hub is still the one of MarketSubscription: all
\* that is proved of it holds (the streams of market-http's endpoints).
THEOREM FeedKeepsHub == FeedSpec => Spec
<1>1. FeedAll /\ [FeedNext]_feedVars => [Next]_vars
  BY FeedIsHub DEF FeedAll, FeedInv
<1>2. FeedInit => Init
  BY DEF FeedInit
<1>3. QED
  BY <1>1, <1>2, FeedStart, FeedStep, PTL DEF FeedSpec, Spec

\* A browser ends up with the last price published, however the streamer's
\* pipeline, the fill of a missing price, the subscription, its reconnects and
\* rotations interleave (stream.py, publish; prices.py, current_prices).
THEOREM LatestReaches == FeedSpec => []LatestReachesClient
BY FeedStart, FeedStep, FeedImplied, PTL DEF FeedSpec
=============================================================================
