------------------------------ MODULE FeedHub ------------------------------
(***************************************************************************)
(* What market-http's subscription promises the handlers of its streaming  *)
(* endpoints, whatever happens to its connections: a stream can be opened  *)
(* only while the hub is up, an open stream is ended when the hub goes     *)
(* down or its reader is too slow, and an ended stream is never fed again. *)
(* Connections and their rotation do not exist at this level.              *)
(***************************************************************************)
CONSTANT Clients

VARIABLES
    up,      \* the hub accepts subscriptions
    stream   \* client -> "out", "open", "ended" (told so, not yet left)

Init == up = FALSE /\ stream = [c \in Clients |-> "out"]

ComeUp == ~up /\ up' = TRUE /\ UNCHANGED stream

\* Going down ends every open stream in the same step.
GoDown ==
    /\ up /\ up' = FALSE
    /\ stream' = [c \in Clients |-> IF stream[c] = "open" THEN "ended" ELSE stream[c]]

Open(c) ==
    /\ up /\ stream[c] = "out"
    /\ stream' = [stream EXCEPT ![c] = "open"]
    /\ UNCHANGED up

\* Slow readers are cut off, the others keep their streams.
CutOff(slow) ==
    /\ up /\ slow # {} /\ \A c \in slow : stream[c] = "open"
    /\ stream' = [c \in Clients |-> IF c \in slow THEN "ended" ELSE stream[c]]
    /\ UNCHANGED up

Leave(c) ==
    /\ stream[c] # "out"
    /\ stream' = [stream EXCEPT ![c] = "out"]
    /\ UNCHANGED up

Next ==
    \/ ComeUp \/ GoDown
    \/ \E c \in Clients : Open(c) \/ Leave(c)
    \/ \E slow \in SUBSET Clients : CutOff(slow)

Spec == Init /\ [][Next]_<<up, stream>>

=============================================================================
