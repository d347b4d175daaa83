---------------------------- MODULE ReportWorker ----------------------------
(***************************************************************************)
(* The report builder: workers that take report requests from an SQS       *)
(* queue, build a report with the database and an LLM, post it to the      *)
(* Backend through BackendAuth (packages/core) and only then delete the    *)
(* message.  A received message is hidden for VisibilityTimeout seconds;   *)
(* database, LLM and Backend may take longer, so it may reappear at any    *)
(* moment.  BackendAuth caches a CSRF token, which the Backend may drop,   *)
(* and repeats a refused call once with a new one.                         *)
(***************************************************************************)
EXTENDS Naturals

CONSTANTS
    Workers,    \* processes of the report builder
    Messages,   \* requests the Backend sends
    Valid,      \* the ones whose body passes Request's validation
    None        \* Python's None, no message

ASSUME WorkerAssumption == Valid \subseteq Messages /\ None \notin Messages

VARIABLES
    queue,      \* message -> "unsent", "visible", "hidden", "gone"
    receiver,   \* message -> the worker that received it last, or None
    stored,     \* message -> the Backend has stored its report
    pc,         \* worker -> "poll", "build", "fetch", "post", "delete"
    msg,        \* worker -> the message at hand, or None
    token,      \* worker -> its cached token: "none", "valid", "stale"
    repeated,   \* worker -> the loop of request() is at its second call
    answers     \* history: worker -> what the Backend did with the calls made
                \* for the delivery at hand: stored it, refused it so often

backend == <<queue, receiver, stored>>
vars == <<queue, receiver, stored, pc, msg, token, repeated, answers>>

NoAnswer == [stored |-> 0, refused |-> 0]

-----------------------------------------------------------------------------
Init ==
    /\ queue = [m \in Messages |-> "unsent"]
    /\ receiver = [m \in Messages |-> None]
    /\ stored = [m \in Messages |-> FALSE]
    /\ pc = [w \in Workers |-> "poll"]
    /\ msg = [w \in Workers |-> None]
    /\ token = [w \in Workers |-> "none"]
    /\ repeated = [w \in Workers |-> FALSE]
    /\ answers = [w \in Workers |-> NoAnswer]

-----------------------------------------------------------------------------
(* The Backend and SQS.                                                    *)

Request(m) ==
    /\ queue[m] = "unsent"
    /\ queue' = [queue EXCEPT ![m] = "visible"]
    /\ UNCHANGED <<receiver, stored, pc, msg, token, repeated, answers>>

\* The visibility timeout runs out.
Reappear(m) ==
    /\ queue[m] = "hidden"
    /\ queue' = [queue EXCEPT ![m] = "visible"]
    /\ UNCHANGED <<receiver, stored, pc, msg, token, repeated, answers>>

\* The Backend restarts or drops a session: its tokens are refused from now on.
Invalidate(w) ==
    /\ token[w] = "valid"
    /\ token' = [token EXCEPT ![w] = "stale"]
    /\ UNCHANGED <<backend, pc, msg, repeated, answers>>

-----------------------------------------------------------------------------
(* A worker.                                                               *)

Receive(w, m) ==
    /\ pc[w] = "poll" /\ queue[m] = "visible"
    /\ queue' = [queue EXCEPT ![m] = "hidden"]
    /\ receiver' = [receiver EXCEPT ![m] = w]
    /\ pc' = [pc EXCEPT ![w] = "build"]
    /\ msg' = [msg EXCEPT ![w] = m]
    /\ repeated' = [repeated EXCEPT ![w] = FALSE]
    /\ answers' = [answers EXCEPT ![w] = NoAnswer]
    /\ UNCHANGED <<stored, token>>

\* Whatever went wrong, the message is left to its timeout.
GiveUp(w) ==
    /\ pc' = [pc EXCEPT ![w] = "poll"]
    /\ msg' = [msg EXCEPT ![w] = None]

\* Validation, load_evidence and build_report.  Any of them may raise.
BuildFails(w) ==
    /\ pc[w] = "build"
    /\ GiveUp(w)
    /\ UNCHANGED <<backend, token, repeated, answers>>

Build(w) ==
    /\ pc[w] = "build" /\ msg[w] \in Valid
    /\ pc' = [pc EXCEPT ![w] = IF token[w] = "none" THEN "fetch" ELSE "post"]
    /\ UNCHANGED <<backend, msg, token, repeated, answers>>

\* _fresh_csrf
Fetch(w) ==
    /\ pc[w] = "fetch"
    /\ token' = [token EXCEPT ![w] = "valid"]
    /\ pc' = [pc EXCEPT ![w] = "post"]
    /\ UNCHANGED <<backend, msg, repeated, answers>>

FetchFails(w) ==
    /\ pc[w] = "fetch"
    /\ GiveUp(w)
    /\ UNCHANGED <<backend, token, repeated, answers>>

\* The Backend stores the report.
Store(w) ==
    /\ pc[w] = "post" /\ token[w] = "valid"
    /\ stored' = [stored EXCEPT ![msg[w]] = TRUE]
    /\ answers' = [answers EXCEPT ![w].stored = @ + 1]
    /\ UNCHANGED <<queue, receiver, token, repeated>>

Post(w) == Store(w) /\ pc' = [pc EXCEPT ![w] = "delete"] /\ UNCHANGED msg

\* Faulty: a call without an answer is made again at once.
PostLostRepeats(w) == Store(w) /\ UNCHANGED <<pc, msg>>

\* The report is stored, its answer is lost.
PostLost(w) == Store(w) /\ GiveUp(w)

\* Faulty: the error is logged, and the message deleted all the same.
PostFailsOpen(w) ==
    /\ pc[w] = "post"
    /\ pc' = [pc EXCEPT ![w] = "delete"]
    /\ UNCHANGED <<backend, msg, token, repeated, answers>>

\* Any error but an invalid token: raise_for_status, no answer, no connection.
PostFails(w) ==
    /\ pc[w] = "post"
    /\ GiveUp(w)
    /\ UNCHANGED <<backend, token, repeated, answers>>

\* Faulty: the cached token is used again.
RepeatWithSameToken(w) ==
    /\ repeated' = [repeated EXCEPT ![w] = TRUE]
    /\ IF repeated[w] THEN GiveUp(w)
       ELSE pc' = [pc EXCEPT ![w] = "post"] /\ UNCHANGED msg

\* The loop of request(): a second call after a fetched token, no third one.
Repeat(w) ==
    /\ repeated' = [repeated EXCEPT ![w] = TRUE]
    /\ IF repeated[w] THEN GiveUp(w)
       ELSE pc' = [pc EXCEPT ![w] = "fetch"] /\ UNCHANGED msg

\* 403 INVALID_CSRF_TOKEN
PostRefused(w) ==
    /\ pc[w] = "post" /\ token[w] = "stale"
    /\ Repeat(w)
    /\ answers' = [answers EXCEPT ![w].refused = @ + 1]
    /\ UNCHANGED <<backend, token>>

\* SQS honours the receipt of the last delivery; an older one may still work.
Delete(w) ==
    /\ pc[w] = "delete"
    /\ \/ queue' = [queue EXCEPT ![msg[w]] = "gone"]
       \/ receiver[msg[w]] # w /\ UNCHANGED queue
    /\ GiveUp(w)
    /\ UNCHANGED <<receiver, stored, token, repeated, answers>>

\* The error leaves process_message and is caught by the polling loop.
DeleteFails(w) ==
    /\ pc[w] = "delete"
    /\ GiveUp(w)
    /\ UNCHANGED <<backend, token, repeated, answers>>

\* A restarted process has no token.
Crash(w) ==
    /\ pc' = [pc EXCEPT ![w] = "poll"]
    /\ msg' = [msg EXCEPT ![w] = None]
    /\ token' = [token EXCEPT ![w] = "none"]
    /\ repeated' = [repeated EXCEPT ![w] = FALSE]
    /\ answers' = [answers EXCEPT ![w] = NoAnswer]
    /\ UNCHANGED backend

Work(w) ==
    \/ Build(w) \/ BuildFails(w)
    \/ Fetch(w) \/ FetchFails(w)
    \/ Post(w) \/ PostLost(w) \/ PostFails(w) \/ PostRefused(w)
    \/ Delete(w) \/ DeleteFails(w)

Next ==
    \/ \E m \in Messages : Request(m) \/ Reappear(m)
    \/ \E w \in Workers :
        \/ Invalidate(w) \/ Crash(w) \/ Work(w)
        \/ \E m \in Messages : Receive(w, m)

Spec == Init /\ [][Next]_vars

-----------------------------------------------------------------------------
(* Properties.                                                             *)

TypeOK ==
    /\ queue \in [Messages -> {"unsent", "visible", "hidden", "gone"}]
    /\ receiver \in [Messages -> Workers \cup {None}]
    /\ stored \in [Messages -> BOOLEAN]
    /\ pc \in [Workers -> {"poll", "build", "fetch", "post", "delete"}]
    /\ msg \in [Workers -> Messages \cup {None}]
    /\ token \in [Workers -> {"none", "valid", "stale"}]
    /\ repeated \in [Workers -> BOOLEAN]
    /\ answers \in [Workers -> [stored : 0..1, refused : 0..2]]

\* A request leaves the queue only after the Backend has stored its report:
\* invalid ones and those whose processing failed stay for the dead-letter
\* policy, however deliveries, timeouts and crashes overlap.
GoneMeansStored == TypeOK /\ \A m \in Messages : queue[m] = "gone" => m \in Valid /\ stored[m]

\* One delivery stores its report at most once, calls nothing after that, and
\* gives up after a second refusal: a report is posted again only when its
\* message comes back.
OneReportPerDelivery ==
    \A w \in Workers :
        /\ answers[w].stored <= 1
        /\ answers[w].stored = 1 => pc[w] \in {"delete", "poll"}
        /\ answers[w].refused = 2 => pc[w] = "poll" /\ answers[w].stored = 0

-----------------------------------------------------------------------------
(* Liveness: SQS delivers what is visible, and the outside world fails     *)
(* often but not always.  A stale token is not excused: nothing is assumed *)
(* of the token but that the Backend hands one out when asked.             *)

Fairness ==
    /\ \A m \in Messages :
        /\ WF_vars(Request(m)) /\ WF_vars(Reappear(m))
        /\ SF_vars(\E w \in Workers : Receive(w, m))
    /\ \A m \in Valid :
        /\ SF_vars(\E w \in Workers : msg[w] = m /\ Build(w))
        /\ SF_vars(\E w \in Workers : msg[w] = m /\ Fetch(w))
        /\ SF_vars(\E w \in Workers : msg[w] = m /\ Post(w))
        /\ SF_vars(\E w \in Workers : msg[w] = m /\ PostRefused(w))
        /\ SF_vars(\E w \in Workers : msg[w] = m /\ Delete(w) /\ queue'[m] = "gone")
    /\ \A w \in Workers : WF_vars(Work(w))

FairSpec == Spec /\ Fairness

\* Every valid request is answered by a stored report and leaves the queue.
ReportsArrive == \A m \in Valid : <>(stored[m] /\ queue[m] = "gone")

=============================================================================
