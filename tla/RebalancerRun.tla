--------------------------- MODULE RebalancerRun ---------------------------
(***************************************************************************)
(* portfolio_rebalancer.__main__: a run reads the accounts over HTTP, asks *)
(* for the cancellation of what is pending, and sends new orders, all      *)
(* through a FIFO queue with one group per account.  Runs do not overlap   *)
(* (flock); a failed one is started again.  What is ordered is             *)
(* Rebalance's business: here a run wants some number of orders.           *)
(***************************************************************************)
EXTENDS Integers, Sequences, FiniteSets, FiniteSetsExt

CONSTANTS
    Accounts,  \* account ids, numbers in the order of the listing
    Active,    \* accounts with is_active
    Orders,    \* order ids, numbers
    Books,     \* [Accounts -> SUBSET Orders], what may be pending at first
    MaxRuns,   \* bound: runs
    MaxPlan    \* bound: orders a run wants of an account

ASSUME RunAssumption ==
    /\ Accounts \subseteq Nat /\ Orders \subseteq Nat /\ Active \subseteq Accounts
    /\ MaxRuns \in Nat /\ MaxPlan \in Nat
    /\ Books \subseteq [Accounts -> SUBSET Orders]
    /\ \A b \in Books : \A x, y \in Accounts : x # y => b[x] \cap b[y] = {}

VARIABLES
    group,      \* account -> the queue's messages for it
    status,     \* order -> "unused", "sent", "pending", "cancelled", "filled"
    owner,      \* order -> its account
    run,        \* order -> the run that sent it, 0 before the first
    runs,       \* runs started
    pc,         \* "idle", "users", "cancel", "place"
    code,       \* exit code of the last run
    seen,       \* account -> its pending orders in the run's snapshot
    settled,    \* account -> no message was waiting for it at the snapshot (history)
    todo,       \* accounts the current loop has not passed
    requested,  \* cancel_requested_by_account
    failed,     \* failed_cancels
    plan,       \* account -> orders the run wants, once the prices are read
    tried,      \* account -> orders it has tried to send
    lost        \* counts["failed"] > 0

backend == <<status, owner, run>>
process == <<runs, pc, code, seen, settled, todo, requested, failed, plan, tried, lost>>
vars == <<group, status, owner, run, runs, pc, code, seen, settled, todo,
          requested, failed, plan, tried, lost>>

PendingOf(a) == {o \in Orders : status[o] = "pending" /\ owner[o] = a}
None == [a \in Accounts |-> {}]
Zero == [a \in Accounts |-> 0]

Cancellation(o) == [type |-> "cancel", order |-> o, replaces |-> {}]
Placement(o, replaces) == [type |-> "place", order |-> o, replaces |-> replaces]

Init ==
    /\ group = [a \in Accounts |-> <<>>]
    /\ \E book \in Books :
        /\ status = [o \in Orders |-> IF \E a \in Accounts : o \in book[a] THEN "pending" ELSE "unused"]
        /\ \E who \in [Orders -> Accounts] :
            /\ \A o \in Orders : \A a \in Accounts : o \in book[a] => who[o] = a
            /\ \A o \in Orders : status[o] = "unused" => who[o] = Min(Accounts)
            /\ owner = who
    /\ run = [o \in Orders |-> 0]
    /\ runs = 0 /\ pc = "idle" /\ code = 0
    /\ seen = None /\ settled = [a \in Accounts |-> FALSE]
    /\ todo = {} /\ requested = None /\ failed = {}
    /\ plan = Zero /\ tried = Zero /\ lost = FALSE

-----------------------------------------------------------------------------
(* The run.                                                                *)

Start ==
    /\ pc = "idle" /\ runs < MaxRuns
    /\ runs' = runs + 1 /\ pc' = "users"
    /\ seen' = None /\ settled' = [a \in Accounts |-> FALSE]
    /\ todo' = {} /\ requested' = None /\ failed' = {}
    /\ plan' = Zero /\ tried' = Zero /\ lost' = FALSE
    /\ UNCHANGED <<group, backend, code>>

\* The market is closed, or no portfolio is ready (0), or its explanation
\* failed (1); or the accounts cannot be read (1).
Stop ==
    /\ pc = "users"
    /\ pc' = "idle" /\ code' \in {0, 1}
    /\ UNCHANGED <<group, backend, runs, seen, settled, todo, requested, failed, plan, tried, lost>>

\* backend.users()
Users ==
    /\ pc = "users"
    /\ seen' = [a \in Accounts |-> PendingOf(a)]
    /\ settled' = [a \in Accounts |-> group[a] = <<>>]
    /\ todo' = Active
    /\ pc' = "cancel"
    /\ UNCHANGED <<group, backend, runs, code, requested, failed, plan, tried, lost>>

\* _cancel_all, an order of the account.
Cancel ==
    /\ pc = "cancel" /\ todo # {}
    /\ LET a == Min(todo)
           o == Min(seen[a] \ requested[a])
       IN
        /\ seen[a] # requested[a]
        /\ requested' = [requested EXCEPT ![a] = @ \cup {o}]
        /\ group' = [group EXCEPT ![a] = Append(@, Cancellation(o))]
    /\ UNCHANGED <<backend, runs, pc, code, seen, settled, todo, failed, plan, tried, lost>>

\* PublishError, although the queue may have taken the message: the account is
\* given up.
CancelFails ==
    /\ pc = "cancel" /\ todo # {}
    /\ LET a == Min(todo)
           o == Min(seen[a] \ requested[a])
       IN
        /\ seen[a] # requested[a]
        /\ failed' = failed \cup {a} /\ todo' = todo \ {a}
        /\ \/ UNCHANGED group
           \/ group' = [group EXCEPT ![a] = Append(@, Cancellation(o))]
        \* only a whole list is kept
        /\ requested' = [requested EXCEPT ![a] = {}]
    /\ UNCHANGED <<backend, runs, pc, code, seen, settled, plan, tried, lost>>

AllCancelled ==
    /\ pc = "cancel" /\ todo # {}
    /\ LET a == Min(todo) IN seen[a] = requested[a] /\ todo' = todo \ {a}
    /\ UNCHANGED <<group, backend, runs, pc, code, seen, settled, requested, failed, plan, tried, lost>>

\* Faulty: a failed cancellation does not hold the account back.
EveryActive == Active

Replaceable == Active \ failed

\* The prices are read and the orders computed.
Prices ==
    /\ pc = "cancel" /\ todo = {}
    /\ plan' \in {p \in [Accounts -> 0..MaxPlan] : \A a \in Accounts \ Replaceable : p[a] = 0}
    /\ todo' = Replaceable
    /\ pc' = "place"
    /\ UNCHANGED <<group, backend, runs, code, seen, settled, requested, failed, tried, lost>>

Unused == {o \in Orders : status[o] = "unused"}

\* Faulty: a group per user, here the one all accounts belong to.
SentByUser(a, o) ==
    /\ status' = [status EXCEPT ![o] = "sent"]
    /\ owner' = [owner EXCEPT ![o] = a]
    /\ run' = [run EXCEPT ![o] = runs]
    /\ group' = [group EXCEPT ![Min(Accounts)] = Append(@, Placement(o, requested[a]))]

\* An order of the run on its way to the Backend.
Sent(a, o) ==
    /\ status' = [status EXCEPT ![o] = "sent"]
    /\ owner' = [owner EXCEPT ![o] = a]
    /\ run' = [run EXCEPT ![o] = runs]
    /\ group' = [group EXCEPT ![a] = Append(@, Placement(o, requested[a]))]

\* orders.place
Place ==
    /\ pc = "place" /\ todo # {} /\ Unused # {}
    /\ LET a == Min(todo) IN
        /\ tried[a] < plan[a]
        /\ tried' = [tried EXCEPT ![a] = @ + 1]
        /\ Sent(a, Min(Unused))
    /\ UNCHANGED <<runs, pc, code, seen, settled, todo, requested, failed, plan, lost>>

\* PublishError, although the queue may have taken the message: the next order
\* is tried all the same.
PlaceFails ==
    /\ pc = "place" /\ todo # {} /\ Unused # {}
    /\ LET a == Min(todo) IN
        /\ tried[a] < plan[a]
        /\ tried' = [tried EXCEPT ![a] = @ + 1]
        /\ Sent(a, Min(Unused)) \/ UNCHANGED <<group, backend>>
    /\ lost' = TRUE
    /\ UNCHANGED <<runs, pc, code, seen, settled, todo, requested, failed, plan>>

AllPlaced ==
    /\ pc = "place" /\ todo # {}
    /\ LET a == Min(todo) IN tried[a] = plan[a] /\ todo' = todo \ {a}
    /\ UNCHANGED <<group, backend, runs, pc, code, seen, settled, requested, failed, plan, tried, lost>>

\* Faulty: only what could not be sent is counted.
LostOnly == IF lost THEN 1 ELSE 0

ExitCode == IF lost \/ failed # {} THEN 1 ELSE 0

End ==
    /\ pc = "place" /\ todo = {}
    /\ pc' = "idle" /\ code' = ExitCode
    /\ UNCHANGED <<group, backend, runs, seen, settled, todo, requested, failed, plan, tried, lost>>

\* An unexpected error, such as prices that cannot be read, or a kill.
Crash ==
    /\ pc \in {"cancel", "place"}
    /\ pc' = "idle" /\ code' = 1
    /\ UNCHANGED <<group, backend, runs, seen, settled, todo, requested, failed, plan, tried, lost>>

-----------------------------------------------------------------------------
(* The Backend takes the messages of a group in order, and fills pending   *)
(* orders at any time.                                                     *)

Handle(a) ==
    /\ group[a] # <<>>
    /\ LET m == Head(group[a]) IN
        status' = IF m.type = "place" THEN [status EXCEPT ![m.order] = "pending"]
                  ELSE IF status[m.order] = "pending" THEN [status EXCEPT ![m.order] = "cancelled"]
                  ELSE status
    /\ group' = [group EXCEPT ![a] = Tail(@)]
    /\ UNCHANGED <<owner, run, process>>

Fill(o) ==
    /\ status[o] = "pending"
    /\ status' = [status EXCEPT ![o] = "filled"]
    /\ UNCHANGED <<group, owner, run, process>>

Next ==
    \/ Start \/ Stop \/ Users
    \/ Cancel \/ CancelFails \/ AllCancelled
    \/ Prices \/ Place \/ PlaceFails \/ AllPlaced
    \/ End \/ Crash
    \/ \E a \in Accounts : Handle(a)
    \/ \E o \in Orders : Fill(o)

Spec == Init /\ [][Next]_vars

-----------------------------------------------------------------------------
(* Properties.                                                             *)

TypeOK ==
    /\ status \in [Orders -> {"unused", "sent", "pending", "cancelled", "filled"}]
    /\ owner \in [Orders -> Accounts] /\ run \in [Orders -> 0..MaxRuns]
    /\ runs \in 0..MaxRuns /\ code \in {0, 1}
    /\ pc \in {"idle", "users", "cancel", "place"}
    /\ settled \in [Accounts -> BOOLEAN] /\ lost \in BOOLEAN
    /\ todo \subseteq Active /\ failed \subseteq Active
    /\ seen \in [Accounts -> SUBSET Orders]
    /\ requested \in [Accounts -> SUBSET Orders]
    /\ plan \in [Accounts -> 0..MaxPlan] /\ tried \in [Accounts -> 0..MaxPlan]
    /\ \A a \in Accounts :
        /\ requested[a] \subseteq seen[a] /\ tried[a] <= plan[a]
        /\ \A i \in DOMAIN group[a] : owner[group[a][i].order] = a

Pending(a, o) == status[o] = "pending" /\ owner[o] = a

\* Orders of two runs are never pending together on an account whose messages
\* the Backend had all handled when the later run read it: a new order is on the
\* book only when every order it replaces is off it.
OneGeneration ==
    /\ TypeOK
    /\ \A a \in Accounts : \A o, p \in Orders :
        /\ settled[a] /\ Pending(a, o) /\ run[o] = runs
        /\ Pending(a, p)
        => run[p] = runs

\* Exit code 0 means that everything the run wanted has reached the queue: every
\* order it saw pending is off the book or about to be, every new one is sent.
HonestExit ==
    pc = "idle" /\ code = 0 =>
        \A a \in Active :
            /\ \A o \in seen[a] :
                \/ status[o] # "pending"
                \/ \E i \in DOMAIN group[a] : group[a][i] = Cancellation(o)
            /\ Cardinality({o \in Orders : owner[o] = a /\ run[o] = runs /\ run[o] > 0}) = plan[a]

=============================================================================
