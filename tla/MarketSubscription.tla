------------------------- MODULE MarketSubscription -------------------------
(***************************************************************************)
(* market-http's MarketSubscription: one Valkey pub/sub connection is      *)
(* fanned out to the bounded queues of the streaming clients.  A listener  *)
(* task reads the connection, a supervisor task replaces the connection    *)
(* before its credentials expire (rotation).  One asyncio loop runs it     *)
(* all, so an action is the code between two awaits.                       *)
(*                                                                         *)
(* Valkey is modelled by what redis-py shows of it: SUBSCRIBE of both      *)
(* channels is one command whose acknowledgements precede every message    *)
(* of the connection, messages arrive in publication order, and a broken   *)
(* connection loses what was under way before redis-py subscribes again.   *)
(***************************************************************************)
EXTENDS Naturals, Sequences, FiniteSets

CONSTANTS
    Clients,       \* handlers of /prices/stream and /orderbooks/stream
    Keys,          \* "price:<code>" and "orderbook:<code>"
    Invalid,       \* an event without a usable code
    Capacity,      \* QUEUE_CAPACITY
    MaxMessages,   \* bound: events published
    MaxConns,      \* bound: connections made (the first one and rotations)
    MaxTags,       \* bound: subscriptions made, redis-py's after a drop included
    None, End      \* Python's None: no connection, and the last queue item

ASSUME SubscriptionAssumption ==
    /\ Invalid \notin Keys
    /\ Capacity \in Nat \ {0} /\ MaxMessages \in Nat
    /\ MaxConns \in Nat \ {0} /\ MaxTags \in Nat \ {0}

Conns == 1..MaxConns

ASSUME NoneIsNoConn == None \notin Conns /\ End \notin 1..MaxMessages

VARIABLES
    log,         \* the keys of the events published so far
    link,        \* connection -> its state
    tag,         \* connection -> which subscription it is served by
    tags,        \* subscriptions made so far
    wire,        \* connection -> events sent to it and not read yet
    phase,       \* the process's one lifespan: "down", "starting", "serving",
                 \* "stopping", "stopped"
    active,      \* self._active
    task,        \* self._task is not None
    sup,         \* the supervisor: "off", "waiting", "connecting", "exited"
    cur,         \* the connection it supervises
    listener,    \* connection -> its listener task
    state,       \* client -> "out", "snapshot", "live"
    interest,    \* client -> the keys it asked for
    registered,  \* client -> keys under which self._subscribers has its queue
    queue,       \* client -> its queue
    feed         \* history: client -> what its queue was given: connection, tag, event

server == <<log, link, tag, tags, wire>>
hub == <<phase, active, task, sup, cur, listener>>
clients == <<state, interest, registered, queue, feed>>
vars == <<log, link, tag, tags, wire, phase, active, task, sup, cur, listener,
          state, interest, registered, queue, feed>>

Unused == {c \in Conns : link[c] = "unused"}
Subscribed(c) == link[c] \in {"acked", "up"}

\* A rotation awaits the end of the listener it replaced.
Gathering == \E c \in Conns : listener[c] = "cancelled"

-----------------------------------------------------------------------------
Init ==
    /\ log = <<>>
    /\ link = [c \in Conns |-> "unused"]
    /\ tag = [c \in Conns |-> 0] /\ tags = 0
    /\ wire = [c \in Conns |-> <<>>]
    /\ phase = "down" /\ active = None /\ task = FALSE
    /\ sup = "off" /\ cur = None
    /\ listener = [c \in Conns |-> "none"]
    /\ state = [x \in Clients |-> "out"]
    /\ interest = [x \in Clients |-> {}]
    /\ registered = [x \in Clients |-> {}]
    /\ queue = [x \in Clients |-> <<>>]
    /\ feed = [x \in Clients |-> <<>>]

-----------------------------------------------------------------------------
(* Valkey and the network.                                                 *)

Publish(k) ==
    /\ Len(log) < MaxMessages
    /\ log' = Append(log, k)
    /\ wire' = [c \in Conns |-> IF Subscribed(c) THEN Append(wire[c], Len(log) + 1)
                                ELSE wire[c]]
    /\ UNCHANGED <<link, tag, tags, hub, clients>>

\* The server executes SUBSCRIBE: a first one, or redis-py's after a drop.
Acknowledge(c) ==
    /\ link[c] \in {"subscribing", "dropped"} /\ tags < MaxTags
    /\ link' = [link EXCEPT ![c] = IF @ = "dropped" THEN "up" ELSE "acked"]
    /\ tags' = tags + 1
    /\ tag' = [tag EXCEPT ![c] = tags + 1]
    /\ UNCHANGED <<log, wire, hub, clients>>

Drop(c) ==
    /\ link[c] = "up"
    /\ link' = [link EXCEPT ![c] = "dropped"]
    /\ wire' = [wire EXCEPT ![c] = <<>>]
    /\ UNCHANGED <<log, tag, tags, hub, clients>>

Close(c) ==
    /\ link' = [link EXCEPT ![c] = "closed"]
    /\ wire' = [wire EXCEPT ![c] = <<>>]

-----------------------------------------------------------------------------
(* Queues.                                                                 *)

\* Faulty: the queues are dropped without a last word.
EndSilently(gone) ==
    /\ registered' = [x \in Clients |-> IF x \in gone THEN {} ELSE registered[x]]
    /\ UNCHANGED <<state, interest, queue, feed>>

\* _close_subscriber for the queues of gone: off every key, drained, ended.
EndStreams(gone) ==
    /\ registered' = [x \in Clients |-> IF x \in gone THEN {} ELSE registered[x]]
    /\ queue' = [x \in Clients |-> IF x \in gone THEN <<End>> ELSE queue[x]]
    /\ UNCHANGED <<state, interest, feed>>

\* _close_all_subscribers reaches the queues that are registered.
Streaming == {x \in Clients : registered[x] # {}}

-----------------------------------------------------------------------------
(* run() and the supervisor.                                               *)

\* run() or a rotation opens the next connection.
Connect(c) ==
    /\ c \in Unused /\ \A d \in Unused : c <= d
    /\ \/ /\ phase = "down"
          /\ phase' = "starting"
          /\ UNCHANGED <<sup, cur>>
       \/ /\ phase = "serving" /\ sup = "waiting"
          /\ listener[cur] # "done" /\ ~Gathering
          /\ sup' = "connecting"
          /\ UNCHANGED <<phase, cur>>
    /\ link' = [link EXCEPT ![c] = "subscribing"]
    /\ UNCHANGED <<log, tag, tags, wire, active, task, listener, clients>>

\* The subscription fails or takes longer than ROTATION_TIMEOUT_SECONDS.
ConnectFails(c) ==
    /\ link[c] \in {"subscribing", "acked"}
    /\ Close(c)
    /\ \/ /\ phase = "starting" /\ phase' = "stopped" /\ UNCHANGED sup
       \/ /\ phase = "serving" /\ sup = "connecting"
          /\ sup' = "waiting" /\ UNCHANGED phase
    /\ UNCHANGED <<log, tag, tags, active, task, cur, listener, clients>>

\* Both acknowledgements of the first connection are read.
Serve(c) ==
    /\ phase = "starting" /\ link[c] = "acked"
    /\ link' = [link EXCEPT ![c] = "up"]
    /\ phase' = "serving"
    /\ active' = c /\ task' = TRUE
    /\ sup' = "waiting" /\ cur' = c
    /\ listener' = [listener EXCEPT ![c] = "running"]
    /\ UNCHANGED <<log, tag, tags, wire, clients>>

\* Both acknowledgements of the next connection are read and it takes over.
Rotate(c) ==
    /\ sup = "connecting" /\ phase = "serving" /\ link[c] = "acked"
    /\ active = cur
    /\ link' = [link EXCEPT ![c] = "up"]
    /\ active' = c /\ cur' = c /\ sup' = "waiting"
    /\ listener' = [listener EXCEPT ![c] = "running", ![cur] = "cancelled"]
    /\ UNCHANGED <<log, tag, tags, wire, phase, task, clients>>

\* The listener ended while the next connection was being made.
AbandonRotation(c) ==
    /\ sup = "connecting" /\ phase = "serving" /\ link[c] = "acked"
    /\ active # cur
    /\ Close(c)
    /\ sup' = "exited"
    /\ UNCHANGED <<log, tag, tags, phase, active, task, cur, listener, clients>>

SupervisorExits ==
    /\ phase = "serving" /\ sup = "waiting" /\ listener[cur] = "done" /\ ~Gathering
    /\ sup' = "exited"
    /\ UNCHANGED <<server, phase, active, task, cur, listener, clients>>

\* Faulty: the streams are left to the listener, which by then has lost its role.
ShutdownQuietly ==
    /\ phase = "serving"
    /\ phase' = "stopping"
    /\ active' = None /\ task' = FALSE
    /\ sup' = "exited"
    /\ listener' = [c \in Conns |-> IF listener[c] = "running" THEN "cancelled" ELSE listener[c]]
    /\ UNCHANGED <<server, cur, clients>>

\* The lifespan ends: one step up to the first await of run()'s finally.
Shutdown ==
    /\ phase = "serving"
    /\ phase' = "stopping"
    /\ active' = None /\ task' = FALSE
    /\ sup' = "exited"
    /\ listener' = [c \in Conns |-> IF listener[c] = "running" THEN "cancelled" ELSE listener[c]]
    /\ EndStreams(Streaming)
    /\ UNCHANGED <<server, cur>>

\* gather() of both tasks and aclose() of every connection are over.
Stopped ==
    /\ phase = "stopping"
    /\ \A c \in Conns : listener[c] \in {"none", "done"}
    /\ phase' = "stopped" /\ sup' = "off" /\ cur' = None
    /\ link' = [c \in Conns |-> IF link[c] = "unused" THEN "unused" ELSE "closed"]
    /\ wire' = [c \in Conns |-> <<>>]
    /\ UNCHANGED <<log, tag, tags, active, task, listener, clients>>

-----------------------------------------------------------------------------
(* The listener.                                                           *)

\* Faulty: an event for a full queue is skipped.
DeliverOrDrop(c) ==
    LET n == Head(wire[c])
        to == {x \in Clients : log[n] \in registered[x] /\ Len(queue[x]) < Capacity}
    IN
    /\ listener[c] = "running" /\ active = c /\ wire[c] # <<>>
    /\ wire' = [wire EXCEPT ![c] = Tail(@)]
    /\ queue' = [x \in Clients |-> IF x \in to THEN Append(queue[x], n) ELSE queue[x]]
    /\ feed' = [x \in Clients |-> IF x \in to THEN Append(feed[x], <<c, tag[c], n>>) ELSE feed[x]]
    /\ UNCHANGED <<log, link, tag, tags, hub, state, interest, registered>>

\* One event: to every queue registered for its key, or the end of a queue
\* that is full.
Deliver(c) ==
    LET n == Head(wire[c])
        to == {x \in Clients : log[n] \in registered[x]}
        slow == {x \in to : Len(queue[x]) >= Capacity}
    IN
    /\ listener[c] = "running" /\ active = c /\ wire[c] # <<>>
    /\ wire' = [wire EXCEPT ![c] = Tail(@)]
    /\ registered' = [x \in Clients |-> IF x \in slow THEN {} ELSE registered[x]]
    /\ queue' = [x \in Clients |->
            IF x \in slow THEN <<End>>
            ELSE IF x \in to THEN Append(queue[x], n) ELSE queue[x]]
    /\ feed' = [x \in Clients |-> IF x \in to \ slow THEN Append(feed[x], <<c, tag[c], n>>)
                                  ELSE feed[x]]
    /\ UNCHANGED <<log, link, tag, tags, hub, state, interest>>

\* The finally of _listen, for an error, a cancellation or a lost role, up
\* to the aclose() it awaits.
ListenerEnds(c) ==
    /\ listener[c] \in {"running", "cancelled"}
    /\ listener' = [listener EXCEPT ![c] = "closing"]
    /\ IF active = c
       THEN /\ active' = None /\ task' = FALSE
            /\ EndStreams(Streaming)
       ELSE UNCHANGED <<active, task, clients>>
    /\ UNCHANGED <<server, phase, sup, cur>>

ListenerClosed(c) ==
    /\ listener[c] = "closing"
    /\ listener' = [listener EXCEPT ![c] = "done"]
    /\ Close(c)
    /\ UNCHANGED <<log, tag, tags, phase, active, task, sup, cur, clients>>

-----------------------------------------------------------------------------
(* The handlers of the streaming endpoints.                                *)

\* Faulty: the lifespan is taken for the hub.
Serving == phase = "serving"

\* self._task is not None and not done
Running == task /\ sup # "exited"

Subscribe(x, wanted) ==
    /\ state[x] = "out" /\ Running
    /\ state' = [state EXCEPT ![x] = "snapshot"]
    /\ interest' = [interest EXCEPT ![x] = wanted]
    /\ registered' = [registered EXCEPT ![x] = wanted]
    /\ queue' = [queue EXCEPT ![x] = <<>>]
    /\ UNCHANGED <<server, hub, feed>>

\* The snapshot has been read and sent; the queue filled meanwhile.
SnapshotSent(x) ==
    /\ state[x] = "snapshot"
    /\ state' = [state EXCEPT ![x] = "live"]
    /\ UNCHANGED <<server, hub, interest, registered, queue, feed>>

Send(x) ==
    /\ state[x] = "live" /\ queue[x] # <<>> /\ Head(queue[x]) # End
    /\ queue' = [queue EXCEPT ![x] = Tail(@)]
    /\ UNCHANGED <<server, hub, state, interest, registered, feed>>

\* The finally of subscribe(); the queue is garbage afterwards.
Exit(x) ==
    /\ state' = [state EXCEPT ![x] = "out"]
    /\ interest' = [interest EXCEPT ![x] = {}]
    /\ registered' = [registered EXCEPT ![x] = {}]
    /\ queue' = [queue EXCEPT ![x] = <<>>]
    /\ feed' = [feed EXCEPT ![x] = <<>>]
    /\ UNCHANGED <<server, hub>>

\* The handler reads the last item and returns.
Finish(x) == state[x] = "live" /\ queue[x] # <<>> /\ Head(queue[x]) = End /\ Exit(x)

\* The browser goes away.
Disconnect(x) == state[x] # "out" /\ Exit(x)

-----------------------------------------------------------------------------
Next ==
    \/ \E k \in Keys \cup {Invalid} : Publish(k)
    \/ \E c \in Conns :
        \/ Acknowledge(c) \/ Drop(c)
        \/ Connect(c) \/ ConnectFails(c)
        \/ Serve(c) \/ Rotate(c) \/ AbandonRotation(c)
        \/ Deliver(c) \/ ListenerEnds(c) \/ ListenerClosed(c)
    \/ SupervisorExits \/ Shutdown \/ Stopped
    \/ \E x \in Clients :
        \/ \E wanted \in (SUBSET Keys) \ {{}} : Subscribe(x, wanted)
        \/ SnapshotSent(x) \/ Send(x) \/ Finish(x) \/ Disconnect(x)

Spec == Init /\ [][Next]_vars

-----------------------------------------------------------------------------
(* Properties.                                                             *)

TypeOK ==
    /\ log \in Seq(Keys \cup {Invalid}) /\ Len(log) <= MaxMessages
    /\ link \in [Conns -> {"unused", "subscribing", "acked", "up", "dropped", "closed"}]
    /\ tag \in [Conns -> 0..MaxTags] /\ tags \in 0..MaxTags
    /\ wire \in [Conns -> Seq(1..MaxMessages)]
    /\ phase \in {"down", "starting", "serving", "stopping", "stopped"}
    /\ active \in Conns \cup {None} /\ task \in BOOLEAN
    /\ sup \in {"off", "waiting", "connecting", "exited"}
    /\ cur \in Conns \cup {None}
    /\ listener \in [Conns -> {"none", "running", "cancelled", "closing", "done"}]
    /\ state \in [Clients -> {"out", "snapshot", "live"}]
    /\ interest \in [Clients -> SUBSET Keys]
    /\ registered \in [Clients -> SUBSET Keys]
    /\ queue \in [Clients -> Seq((1..MaxMessages) \cup {End})]
    /\ \A x \in Clients : Len(queue[x]) <= Capacity
    /\ feed \in [Clients -> Seq(Conns \X (1..MaxTags) \X (1..MaxMessages))]

\* No client waits on a queue that nobody feeds: it is either registered for
\* everything it asked for while a listener runs on the active connection, or
\* the end marker is the only thing in its queue.
FedOrTold ==
    /\ TypeOK
    /\ \A x \in Clients : state[x] # "out" =>
        \/ /\ registered[x] = interest[x] /\ registered[x] # {}
           /\ \A n \in DOMAIN queue[x] : queue[x][n] # End
           /\ task /\ active # None /\ listener[active] = "running"
           /\ link[active] \in {"up", "dropped"}
        \/ registered[x] = {} /\ queue[x] = <<End>>

\* What a client is given comes from ever newer connections, on each from ever
\* newer subscriptions to Valkey, and within one of these in order, each event
\* once and none left out: gaps and repetitions can only fall on a rotation or
\* on a reconnect, never on a slow client, a neighbour's exit or the listener
\* that is being replaced.
FeedInOrder ==
    \A x \in Clients : \A i \in 1..(Len(feed[x]) - 1) :
        LET a == feed[x][i]
            b == feed[x][i + 1]
        IN  \/ a[1] < b[1]
            \/ a[1] = b[1] /\ a[2] < b[2]
            \/ /\ a[1] = b[1] /\ a[2] = b[2] /\ a[3] < b[3]
               /\ \A m \in (a[3] + 1)..(b[3] - 1) : log[m] \notin interest[x]

-----------------------------------------------------------------------------
(* The hub implements FeedHub: rotations and reconnects are invisible.     *)

StreamOf(x) == IF state[x] = "out" THEN "out"
               ELSE IF registered[x] = {} THEN "ended" ELSE "open"

Abstract == INSTANCE FeedHub WITH up <- task, stream <- [x \in Clients |-> StreamOf(x)]

ImplementsFeedHub == Abstract!Spec

-----------------------------------------------------------------------------
(* Liveness.                                                               *)

\* The loop runs every ready handler and the cleanup of every ended listener.
Fairness ==
    /\ \A x \in Clients : WF_vars(SnapshotSent(x) \/ Send(x) \/ Finish(x))
    /\ \A c \in Conns : WF_vars(listener[c] = "cancelled" /\ ListenerEnds(c))

FairSpec == Spec /\ Fairness

\* Once the hub has gone down, all clients that were streaming return.
StreamsEnd == ~task ~> \A x \in Clients : state[x] = "out"

=============================================================================
