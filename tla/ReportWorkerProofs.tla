------------------------- MODULE ReportWorkerProofs -------------------------
(***************************************************************************)
(* What holds of the report builder for any number of workers and          *)
(* requests, whatever is redelivered, lost, refused or killed.             *)
(*                                                                         *)
(* The inductive invariant adds to the checked ones what each step of a    *)
(* delivery knows (DeliveryInv): without it a worker could delete a        *)
(* request it never posted, or post one whose second call was refused.     *)
(***************************************************************************)
EXTENDS ReportWorker, TLAPS

\* A worker between its first statement and its answer has stored nothing for
\* this delivery, and its loop knows of every refusal; one about to delete has
\* stored the report of a valid request.
Calling(w) ==
    /\ msg[w] \in Messages
    /\ pc[w] # "build" => msg[w] \in Valid
    /\ answers[w].stored = 0
    /\ answers[w].refused = IF repeated[w] THEN 1 ELSE 0

Answered(w) ==
    /\ msg[w] \in Valid /\ stored[msg[w]]
    /\ answers[w].stored = 1 /\ answers[w].refused <= 1

Polling(w) == answers[w].refused = 2 => answers[w].stored = 0

DeliveryInv ==
    \A w \in Workers :
        /\ pc[w] \in {"build", "fetch", "post"} => Calling(w)
        /\ pc[w] = "delete" => Answered(w)
        /\ pc[w] = "poll" => Polling(w)

IInv == GoneMeansStored /\ DeliveryInv

-----------------------------------------------------------------------------
\* Every initial state satisfies the invariant.
LEMMA InitInv == Init => IInv
BY WorkerAssumption
   DEF Init, IInv, GoneMeansStored, TypeOK, DeliveryInv, Polling, NoAnswer

\* The steps of the queue and of the Backend: no delivery notices them.
LEMMA OutsideInv ==
    ASSUME IInv, NEW m \in Messages, Request(m) \/ Reappear(m)
    PROVE  IInv'
BY DEF IInv, GoneMeansStored, TypeOK, DeliveryInv, Calling, Answered, Polling,
       Request, Reappear

\* A token the Backend drops is noticed by the next call only.
LEMMA InvalidateInv ==
    ASSUME IInv, NEW w \in Workers, Invalidate(w)
    PROVE  IInv'
BY DEF IInv, GoneMeansStored, TypeOK, DeliveryInv, Calling, Answered, Polling,
       Invalidate, backend

\* A killed worker starts over with no delivery at hand.
LEMMA CrashInv ==
    ASSUME IInv, NEW w \in Workers, Crash(w)
    PROVE  IInv'
BY DEF IInv, GoneMeansStored, TypeOK, DeliveryInv, Calling, Answered, Polling,
       Crash, backend, NoAnswer

\* A new delivery starts with no calls made.
LEMMA ReceiveInv ==
    ASSUME IInv, NEW w \in Workers, NEW m \in Messages, Receive(w, m)
    PROVE  IInv'
BY DEF IInv, GoneMeansStored, TypeOK, DeliveryInv, Calling, Answered, Polling,
       Receive, NoAnswer

\* A delivery that ends without a call leaves nothing behind but its answers.
LEMMA GiveUpInv ==
    ASSUME IInv, NEW w \in Workers, GiveUp(w), UNCHANGED <<backend, token, repeated, answers>>
    PROVE  IInv'
<1> USE DEF IInv, GoneMeansStored
<1>1. TypeOK'
  BY DEF TypeOK, GiveUp, backend
<1>2. ASSUME NEW v \in Workers
      PROVE  /\ pc'[v] \in {"build", "fetch", "post"} => Calling(v)'
             /\ pc'[v] = "delete" => Answered(v)'
             /\ pc'[v] = "poll" => Polling(v)'
  <2>1. CASE v = w
    <3>1. pc'[v] = "poll"
      BY <2>1 DEF TypeOK, GiveUp
    <3>2. Polling(v)
      BY DEF TypeOK, DeliveryInv, Calling, Answered, Polling
    <3>3. QED
      BY <3>1, <3>2 DEF Polling
  <2>2. CASE v # w
    BY <2>2 DEF TypeOK, DeliveryInv, Calling, Answered, Polling, GiveUp, backend
  <2>3. QED
    BY <2>1, <2>2
<1>3. QED
  BY <1>1, <1>2 DEF DeliveryInv, backend

\* Every step of a delivery hands the next one what it relies on.
LEMMA WorkInv ==
    ASSUME IInv, NEW w \in Workers, Work(w)
    PROVE  IInv'
<1> USE DEF IInv, GoneMeansStored, TypeOK, DeliveryInv, Calling, Answered, Polling
<1>1. CASE Build(w)
  BY <1>1 DEF Build, backend
<1>2. CASE BuildFails(w) \/ FetchFails(w) \/ PostFails(w) \/ DeleteFails(w)
  BY <1>2, GiveUpInv DEF BuildFails, FetchFails, PostFails, DeleteFails
<1>3. CASE Fetch(w)
  BY <1>3 DEF Fetch, backend
<1>4. CASE Post(w) \/ PostLost(w)
  <2>1. msg[w] \in Valid /\ msg[w] \in Messages /\ answers[w].stored = 0 /\ answers[w].refused <= 1
    BY <1>4, WorkerAssumption DEF Post, PostLost, Store
  <2>2. /\ stored' = [stored EXCEPT ![msg[w]] = TRUE]
        /\ answers' = [answers EXCEPT ![w] = [stored |-> 1, refused |-> answers[w].refused]]
    BY <1>4, <2>1 DEF Post, PostLost, Store
  <2>3. TypeOK' /\ \A m \in Messages : stored[m] => stored'[m]
    BY <1>4, <2>1, <2>2 DEF Post, PostLost, Store, GiveUp
  <2>4. DeliveryInv'
    BY <1>4, <2>1, <2>2, <2>3 DEF Post, PostLost, Store, GiveUp
  <2>5. QED
    BY <1>4, <2>3, <2>4 DEF Post, PostLost, Store
<1>5. CASE PostRefused(w)
  <2>1. CASE repeated[w]
    <3>1. answers[w].stored = 0 /\ answers[w].refused = 1
      BY <1>5, <2>1 DEF PostRefused
    <3>2. answers' = [answers EXCEPT ![w] = [stored |-> 0, refused |-> 2]]
      <4>1. answers[w] \in [stored : 0..1, refused : 0..2]
        OBVIOUS
      <4>2. answers[w] = [stored |-> 0, refused |-> 1]
        BY <3>1, <4>1
      <4>3. answers' = [answers EXCEPT ![w] = [answers[w] EXCEPT !.refused = 1 + 1]]
        BY <1>5, <3>1 DEF PostRefused
      <4>4. [answers[w] EXCEPT !.refused = 1 + 1] = [stored |-> 0, refused |-> 2]
        BY <4>2
      <4>5. QED
        BY <4>3, <4>4
    <3>3. pc' = [pc EXCEPT ![w] = "poll"] /\ msg' = [msg EXCEPT ![w] = None]
      BY <1>5, <2>1 DEF PostRefused, Repeat, GiveUp
    <3>4. repeated' = [repeated EXCEPT ![w] = TRUE] /\ UNCHANGED <<queue, receiver, stored, token>>
      BY <1>5 DEF PostRefused, Repeat, backend
    <3>5. TypeOK'
      BY <3>2, <3>3, <3>4
    <3>6. ASSUME NEW v \in Workers
          PROVE  /\ pc'[v] \in {"build", "fetch", "post"} => Calling(v)'
                 /\ pc'[v] = "delete" => Answered(v)'
                 /\ pc'[v] = "poll" => Polling(v)'
      <4>1. CASE v = w
        BY <1>5, <2>1, <3>2, <3>3, <3>4, <4>1 DEF PostRefused
      <4>2. CASE v # w
        BY <3>2, <3>3, <3>4, <4>2
      <4>3. QED
        BY <4>1, <4>2
    <3>7. QED
      BY <3>4, <3>5, <3>6
  <2>2. CASE ~repeated[w]
    <3>1. answers[w].stored = 0 /\ answers[w].refused = 0
      BY <1>5, <2>2 DEF PostRefused
    <3>2. answers' = [answers EXCEPT ![w] = [stored |-> 0, refused |-> 1]]
      <4>1. answers[w] \in [stored : 0..1, refused : 0..2]
        OBVIOUS
      <4>2. answers[w] = [stored |-> 0, refused |-> 0]
        BY <3>1, <4>1
      <4>3. answers' = [answers EXCEPT ![w] = [answers[w] EXCEPT !.refused = 0 + 1]]
        BY <1>5, <3>1 DEF PostRefused
      <4>4. [answers[w] EXCEPT !.refused = 0 + 1] = [stored |-> 0, refused |-> 1]
        BY <4>2
      <4>5. QED
        BY <4>3, <4>4
    <3>3. pc' = [pc EXCEPT ![w] = "fetch"] /\ msg' = msg
      BY <1>5, <2>2 DEF PostRefused, Repeat
    <3>4. repeated' = [repeated EXCEPT ![w] = TRUE] /\ UNCHANGED <<queue, receiver, stored, token>>
      BY <1>5 DEF PostRefused, Repeat, backend
    <3>5. TypeOK'
      BY <3>2, <3>3, <3>4
    <3>6. ASSUME NEW v \in Workers
          PROVE  /\ pc'[v] \in {"build", "fetch", "post"} => Calling(v)'
                 /\ pc'[v] = "delete" => Answered(v)'
                 /\ pc'[v] = "poll" => Polling(v)'
      <4>1. CASE v = w
        BY <1>5, <2>2, <3>2, <3>3, <3>4, <4>1 DEF PostRefused
      <4>2. CASE v # w
        BY <3>2, <3>3, <3>4, <4>2
      <4>3. QED
        BY <4>1, <4>2
    <3>7. QED
      BY <3>4, <3>5, <3>6
  <2>3. QED
    BY <2>1, <2>2
<1>6. CASE Delete(w)
  <2>1. msg[w] \in Valid /\ msg[w] \in Messages /\ stored[msg[w]]
    BY <1>6, WorkerAssumption DEF Delete
  <2>2. QED
    BY <1>6, <2>1 DEF Delete, GiveUp
<1>7. QED
  BY <1>1, <1>2, <1>3, <1>4, <1>5, <1>6 DEF Work

\* The invariant is inductive.
LEMMA NextInv == IInv /\ [Next]_vars => IInv'
<1> SUFFICES ASSUME IInv, [Next]_vars PROVE IInv'
  OBVIOUS
<1>1. CASE UNCHANGED vars
  BY <1>1 DEF vars, IInv, GoneMeansStored, TypeOK, DeliveryInv, Calling, Answered, Polling
<1>2. CASE Next
  BY <1>2, OutsideInv, InvalidateInv, CrashInv, WorkInv, ReceiveInv DEF Next
<1>3. QED
  BY <1>1, <1>2

-----------------------------------------------------------------------------
\* It holds throughout.
LEMMA Invariance == Spec => []IInv
BY InitInv, NextInv, PTL DEF Spec

\* A request is gone only when it is valid and its report is stored, for any
\* number of workers with overlapping deliveries (worker.py, the delete after the post).
THEOREM GoneCorrect == Spec => []GoneMeansStored
<1>1. IInv => GoneMeansStored
  BY DEF IInv
<1>2. QED
  BY <1>1, Invariance, PTL

\* A delivery stores at most one report, and calls nothing after it or after a
\* second refusal (backend_auth.py, the loop of request).
THEOREM OneReportCorrect == Spec => []OneReportPerDelivery
<1>1. IInv => OneReportPerDelivery
  <2> SUFFICES ASSUME IInv, NEW w \in Workers
               PROVE  /\ answers[w].stored <= 1
                      /\ answers[w].stored = 1 => pc[w] \in {"delete", "poll"}
                      /\ answers[w].refused = 2 => pc[w] = "poll" /\ answers[w].stored = 0
    BY DEF OneReportPerDelivery
  <2> USE DEF IInv, GoneMeansStored, TypeOK, DeliveryInv
  <2>1. CASE pc[w] \in {"build", "fetch", "post"}
    <3>1. answers[w].stored = 0 /\ answers[w].refused \in {0, 1}
      BY <2>1 DEF Calling
    <3>2. QED
      BY <3>1
  <2>2. CASE pc[w] = "delete"
    BY <2>2 DEF Answered
  <2>3. CASE pc[w] = "poll"
    <3>1. answers[w].stored \in 0..1
      OBVIOUS
    <3>2. QED
      BY <2>3, <3>1 DEF Polling
  <2>4. QED
    BY <2>1, <2>2, <2>3
<1>2. QED
  BY <1>1, Invariance, PTL
=============================================================================
