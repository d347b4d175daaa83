------------------------- MODULE RebalancerProofs -------------------------
(***************************************************************************)
(* What holds of portfolio-rebalancer, of its runs (RebalancerRun) for any *)
(* accounts, orders, books and wishes, whatever messages are lost or taken *)
(* twice and wherever a run is broken off, and of the orders it computes   *)
(* for an account (Rebalance) for any portfolio, quotes and holdings; and  *)
(* of the hours of its runs (TradingWeek) for any holidays and sessions.   *)
(*                                                                         *)
(* The inductive invariant of the runs says what the queue holds           *)
(* (GroupInv), in which order a run asks for it (RequestInv), what follows *)
(* for an account that had no message left when it was read (SettledInv),  *)
(* and that no order of the run is counted twice or not at all (CountInv). *)
(*                                                                         *)
(* The orders' invariant comes after the runs': an order's limit follows   *)
(* from its stock and side (Made), a stock has one order, and what is      *)
(* spent and what is left are the cash (PlacedInv).  Before it come sums   *)
(* over finite sets, and the tick grid.                                    *)
(*                                                                         *)
(* The last part counts the sessions of a week, and WeekInv says that a    *)
(* run at work has counted those left, and that no orders of the week were *)
(* placed by a run with fewer of them.                                     *)
(***************************************************************************)
EXTENDS RebalancerRun, Rebalance, TradingWeek, SequenceTheorems, FiniteSetTheorems,
    FunctionTheorems, WellFoundedInduction, TLAPS

Types == {"cancel", "place"}
Message == [type : Types, order : Orders, replaces : SUBSET Orders]
Taken(o) == status[o] \in {"pending", "cancelled", "filled"}
Mine(a) == {o \in Orders : owner[o] = a /\ run[o] = runs /\ run[o] > 0}
OnItsWay(a, o) == \E i \in DOMAIN group[a] : group[a][i] = Cancellation(o)

Sound(a, m) ==
    /\ owner[m.order] = a
    /\ m.type = "place" => status[m.order] = "sent"
    /\ m.type = "cancel" => Taken(m.order)

\* What the queue holds: placements of orders that the Backend has not seen, one
\* each, and cancellations of orders that it has.
GroupInv ==
    /\ group \in [Accounts -> Seq(Message)]
    /\ \A a \in Accounts : \A i \in DOMAIN group[a] : Sound(a, group[a][i])
    /\ \A a \in Accounts : \A i, j \in DOMAIN group[a] :
        i < j /\ group[a][i].type = "place" /\ group[a][j].type = "place"
            => group[a][i].order # group[a][j].order

\* The orders of the runs.
RunInv ==
    /\ pc # "idle" => runs > 0
    /\ \A o \in Orders :
        /\ run[o] <= runs
        /\ status[o] = "unused" => run[o] = 0
        /\ pc \in {"users", "cancel"} => run[o] < runs

\* A run asks for all cancellations of an account before it orders anything there.
RequestInv ==
    /\ \A a \in Accounts :
        /\ requested[a] \subseteq seen[a]
        /\ \A o \in seen[a] : owner[o] = a /\ Taken(o)
        /\ \A o \in requested[a] : status[o] # "pending" \/ OnItsWay(a, o)
    /\ pc = "users" => seen = None
    /\ pc = "cancel" => \A a \in Active \ (todo \cup failed) : requested[a] = seen[a]
    /\ pc = "place" => todo \subseteq Active \ failed /\ \A a \in Active \ failed : requested[a] = seen[a]
    /\ pc = "idle" /\ code = 0 => \A a \in Active : requested[a] = seen[a]
    /\ \A o \in Orders : run[o] = runs /\ run[o] > 0 => requested[owner[o]] = seen[owner[o]]

\* An account without old messages: what is pending there and was not in the
\* snapshot is of this run, and so are the placements under way, which no
\* cancellation follows; once one has arrived the old orders are off the book.
SettledInv ==
    \A a \in Accounts : settled[a] =>
        /\ \A o \in Orders : Pending(a, o) => o \in seen[a] \/ run[o] = runs
        /\ \A i \in DOMAIN group[a] : group[a][i].type = "place" =>
            /\ run[group[a][i].order] = runs /\ runs > 0
            /\ \A j \in DOMAIN group[a] : i < j => group[a][j].type = "place"
        /\ (\E o \in Mine(a) : Taken(o)) => \A o \in seen[a] : status[o] # "pending"

\* The orders of the run are those it has tried to send, unless one was lost.
CountInv ==
    /\ ~lost => \A a \in Accounts : IsFiniteSet(Mine(a)) /\ Cardinality(Mine(a)) = tried[a]
    /\ pc \in {"users", "cancel"} => ~lost /\ tried = Zero /\ plan = Zero
    /\ pc = "place" => \A a \in Accounts \ todo : tried[a] = plan[a]
    /\ pc = "idle" /\ code = 0 => ~lost /\ tried = plan

StateInv ==
    /\ status \in [Orders -> {"unused", "sent", "pending", "cancelled", "filled"}]
    /\ owner \in [Orders -> Accounts] /\ run \in [Orders -> 0..MaxRuns]
    /\ runs \in 0..MaxRuns /\ code \in {0, 1}
    /\ pc \in {"idle", "users", "cancel", "place"}
    /\ settled \in [Accounts -> BOOLEAN] /\ lost \in BOOLEAN
    /\ todo \subseteq Active /\ failed \subseteq Active
    /\ seen \in [Accounts -> SUBSET Orders]
    /\ requested \in [Accounts -> SUBSET Orders]
    /\ plan \in [Accounts -> 0..MaxPlan] /\ tried \in [Accounts -> 0..MaxPlan]
    /\ \A a \in Accounts : tried[a] <= plan[a]

IInv == StateInv /\ GroupInv /\ RunInv /\ RequestInv /\ SettledInv /\ CountInv

-----------------------------------------------------------------------------
(* The least member, and the messages of a group.                          *)

\* Min finds a member.
LEMMA MinIsMember ==
    ASSUME NEW S \in SUBSET Nat, S # {}
    PROVE  Min(S) \in S
<1>1. PICK n \in S : \A m \in S : <<m, n>> \notin OpToRel(<, Nat)
  BY WFMin, NatLessThanWellFounded, Zenon
<1>2. \A m \in S : ~(m < n)
  BY <1>1 DEF OpToRel
<1>3. \A m \in S : n <= m
  BY <1>2
<1>4. QED
  BY <1>3 DEF Min

\* A group and its positions.
LEMMA Positions ==
    ASSUME GroupInv, NEW a \in Accounts
    PROVE  /\ group[a] \in Seq(Message) /\ Len(group[a]) \in Nat
           /\ DOMAIN group[a] = 1..Len(group[a])
           /\ \A i \in DOMAIN group[a] : group[a][i] \in Message
<1>1. group[a] \in Seq(Message)
  BY DEF GroupInv
<1>2. QED
  BY <1>1, ElementOfSeq, LenProperties

\* A group with one more message.
Grown(a, m) ==
    /\ group' \in [Accounts -> Seq(Message)]
    /\ \A b \in Accounts \ {a} : group'[b] = group[b]
    /\ DOMAIN group'[a] = 1..Len(group[a]) + 1
    /\ \A i \in DOMAIN group[a] : group'[a][i] = group[a][i]
    /\ group'[a][Len(group[a]) + 1] = m

\* What Append does to it.
LEMMA Growing ==
    ASSUME GroupInv, NEW a \in Accounts, NEW m \in Message,
           group' = [group EXCEPT ![a] = Append(@, m)]
    PROVE  Grown(a, m)
<1>1. group[a] \in Seq(Message) /\ DOMAIN group[a] = 1..Len(group[a]) /\ Len(group[a]) \in Nat
  BY Positions
<1>2. /\ Append(group[a], m) \in Seq(Message)
      /\ Len(Append(group[a], m)) = Len(group[a]) + 1
      /\ \A i \in 1..Len(group[a]) : Append(group[a], m)[i] = group[a][i]
      /\ Append(group[a], m)[Len(group[a]) + 1] = m
  BY <1>1, AppendProperties
<1>3. /\ group' \in [Accounts -> Seq(Message)]
      /\ \A b \in Accounts \ {a} : group'[b] = group[b]
      /\ group'[a] = Append(group[a], m)
  BY <1>2 DEF GroupInv
<1>4. DOMAIN group'[a] = 1..Len(group[a]) + 1
  BY <1>2, <1>3, LenProperties
<1>5. QED
  BY <1>1, <1>2, <1>3, <1>4 DEF Grown

\* A group without its first message.
Shrunk(a) ==
    /\ group' \in [Accounts -> Seq(Message)]
    /\ \A b \in Accounts \ {a} : group'[b] = group[b]
    /\ 1 \in DOMAIN group[a] /\ Head(group[a]) = group[a][1]
    /\ \A i \in DOMAIN group'[a] : i + 1 \in DOMAIN group[a] /\ group'[a][i] = group[a][i + 1]
    /\ \A i \in DOMAIN group[a] : i # 1 => i - 1 \in DOMAIN group'[a]

\* What Tail does to it.
LEMMA Shrinking ==
    ASSUME GroupInv, NEW a \in Accounts, group[a] # <<>>,
           group' = [group EXCEPT ![a] = Tail(@)]
    PROVE  Shrunk(a)
<1>1. group[a] \in Seq(Message) /\ DOMAIN group[a] = 1..Len(group[a]) /\ Len(group[a]) \in Nat
  BY Positions
<1>2. /\ Tail(group[a]) \in Seq(Message)
      /\ Len(Tail(group[a])) = Len(group[a]) - 1
      /\ \A i \in 1..Len(Tail(group[a])) : Tail(group[a])[i] = group[a][i + 1]
  BY <1>1, HeadTailProperties
<1>3. /\ group' \in [Accounts -> Seq(Message)]
      /\ \A b \in Accounts \ {a} : group'[b] = group[b]
      /\ group'[a] = Tail(group[a])
  BY <1>2 DEF GroupInv
<1>4. Len(group[a]) > 0 /\ Head(group[a]) = group[a][1]
  BY <1>1
<1>5. DOMAIN group'[a] = 1..Len(group[a]) - 1
  BY <1>2, <1>3, LenProperties
<1>6. QED
  BY <1>1, <1>2, <1>3, <1>4, <1>5 DEF Shrunk

-----------------------------------------------------------------------------
(* The steps of the run that send nothing.                                 *)

\* The empty tables of a run.
LEMMA Nothing ==
    /\ None \in [Accounts -> SUBSET Orders] /\ \A a \in Accounts : None[a] = {}
    /\ Zero \in [Accounts -> 0..MaxPlan] /\ \A a \in Accounts : Zero[a] = 0
    /\ 0 \in 0..MaxRuns
BY RunAssumption DEF None, Zero

\* Nothing has been sent before the first run.
LEMMA InitInv == Init => IInv
<1> SUFFICES ASSUME Init PROVE IInv
  OBVIOUS
<1>1. \A a \in Accounts : group[a] = <<>> /\ DOMAIN group[a] = {}
  BY DEF Init
<1>2. group \in [Accounts -> Seq(Message)]
  BY DEF Init
<1>3. \A o \in Orders : status[o] \in {"unused", "pending"} /\ run[o] = 0
  BY DEF Init
<1>4. StateInv
  <2>1. status \in [Orders -> {"unused", "sent", "pending", "cancelled", "filled"}]
    BY DEF Init
  <2>2. run \in [Orders -> 0..MaxRuns] /\ runs \in 0..MaxRuns
    BY Nothing DEF Init
  <2>3. seen = None /\ requested = None /\ plan = Zero /\ tried = Zero
    BY DEF Init
  <2>4. settled \in [Accounts -> BOOLEAN]
    BY DEF Init
  <2>5. \A a \in Accounts : tried[a] <= plan[a]
    BY <2>3, Nothing
  <2>6. owner \in [Orders -> Accounts] /\ todo = {} /\ failed = {} /\ pc = "idle" /\ code = 0 /\ lost = FALSE
    BY DEF Init
  <2>7. QED
    BY <2>1, <2>2, <2>3, <2>4, <2>5, <2>6, Nothing DEF StateInv
<1>5. GroupInv
  BY <1>1, <1>2 DEF GroupInv
<1>6. RunInv /\ RequestInv /\ SettledInv
  BY <1>1, <1>3 DEF Init, RunInv, RequestInv, SettledInv, None
<1>7. \A a \in Accounts : Mine(a) = {}
  BY <1>3 DEF Mine
<1>8. CountInv
  BY <1>7, FS_EmptySet DEF Init, CountInv, Zero
<1>9. QED
  BY <1>4, <1>5, <1>6, <1>8 DEF IInv

\* Steps that leave the queue and the Backend alone.
LEMMA Untouched ==
    ASSUME IInv, UNCHANGED <<group, backend>>
    PROVE  /\ GroupInv'
           /\ \A o \in Orders : Taken(o)' = Taken(o)
           /\ \A a \in Accounts : \A o \in Orders :
                OnItsWay(a, o)' = OnItsWay(a, o) /\ Pending(a, o)' = Pending(a, o)
           /\ runs' = runs => \A a \in Accounts : Mine(a)' = Mine(a)
<1>1. GroupInv'
  BY DEF IInv, GroupInv, Sound, Taken, backend
<1>2. QED
  BY <1>1 DEF Taken, OnItsWay, Pending, Mine, backend

\* What has been seen of a settled account stays true of it.
LEMMA SettledKept ==
    ASSUME IInv, UNCHANGED <<group, backend, runs, seen, settled>>
    PROVE  SettledInv'
<1> SUFFICES ASSUME NEW a \in Accounts, settled[a]
    PROVE  /\ \A o \in Orders : Pending(a, o)' => o \in seen'[a] \/ run'[o] = runs'
           /\ \A i \in DOMAIN group'[a] : group'[a][i].type = "place" =>
              /\ run'[group'[a][i].order] = runs' /\ runs' > 0
              /\ \A j \in DOMAIN group'[a] : i < j => group'[a][j].type = "place"
           /\ (\E o \in Mine(a)' : Taken(o)') => \A o \in seen'[a] : status'[o] # "pending"
  BY DEF SettledInv
<1>1. Mine(a)' = Mine(a) /\ \A o : Taken(o)' = Taken(o) /\ Pending(a, o)' = Pending(a, o)
  BY DEF Mine, Taken, Pending, backend
<1>2. run' = run /\ status' = status
  BY DEF backend
<1>3. QED
  BY <1>1, <1>2 DEF IInv, SettledInv

\* A run begins with nothing of the last one.
LEMMA StartInv ==
    ASSUME IInv, Start
    PROVE  IInv'
<1>1. UNCHANGED <<group, backend>> /\ GroupInv'
  BY Untouched DEF Start
<1>2. runs \in Nat /\ runs' = runs + 1 /\ \A o \in Orders : run[o] \in Nat /\ run[o] < runs' /\ run'[o] = run[o]
  BY <1>1, RunAssumption DEF Start, IInv, StateInv, RunInv, backend
<1>3. StateInv'
  <2>1. runs' \in 0..MaxRuns
    BY <1>2, RunAssumption DEF Start
  <2>2. seen' = None /\ requested' = None /\ plan' = Zero /\ tried' = Zero
    BY DEF Start
  <2>3. settled' \in [Accounts -> BOOLEAN]
    BY DEF Start
  <2>4. \A a \in Accounts : tried'[a] <= plan'[a]
    BY <2>2, Nothing
  <2>5. todo' = {} /\ failed' = {} /\ pc' = "users" /\ code' = code /\ lost' = FALSE
    BY DEF Start
  <2>6. QED
    BY <1>1, <2>1, <2>2, <2>3, <2>4, <2>5, Nothing DEF IInv, StateInv, backend
<1>4. RunInv'
  BY <1>1, <1>2 DEF Start, IInv, RunInv, backend
<1>5. RequestInv' /\ SettledInv'
  <2>1. \A o \in Orders : owner'[o] \in Accounts
    BY <1>3 DEF StateInv
  <2>2. QED
    BY <1>1, <1>2, <2>1 DEF Start, RequestInv, SettledInv, None
<1>6. CountInv'
  <2>1. \A a \in Accounts : Mine(a)' = {}
    BY <1>2 DEF Mine
  <2>2. QED
    BY <2>1, FS_EmptySet DEF Start, CountInv, Zero
<1>7. QED
  BY <1>1, <1>3, <1>4, <1>5, <1>6 DEF IInv

\* A run ends, or is broken off.
LEMMA EndInv ==
    ASSUME IInv, Stop \/ End \/ Crash
    PROVE  IInv'
<1>1. UNCHANGED <<group, backend, runs, seen, settled, todo, requested, failed, plan, tried, lost>>
      /\ pc' = "idle" /\ code' \in {0, 1}
  BY DEF Stop, End, Crash, ExitCode
<1>2. /\ GroupInv' /\ \A o \in Orders : Taken(o)' = Taken(o)
      /\ \A a \in Accounts : \A o \in Orders :
            OnItsWay(a, o)' = OnItsWay(a, o) /\ Pending(a, o)' = Pending(a, o)
      /\ \A a \in Accounts : Mine(a)' = Mine(a)
  BY <1>1, Untouched
<1>3. StateInv' /\ RunInv'
  BY <1>1 DEF IInv, StateInv, RunInv, backend
<1>4. code' = 0 => /\ \A a \in Active : requested[a] = seen[a]
                   /\ ~lost /\ tried = plan
  <2>1. CASE Stop
    <3>1. seen = None /\ ~lost /\ tried = Zero /\ plan = Zero
      BY <2>1 DEF Stop, IInv, RequestInv, CountInv
    <3>2. \A a \in Accounts : requested[a] \subseteq seen[a]
      BY DEF IInv, RequestInv
    <3>3. QED
      BY <3>1, <3>2, Nothing, RunAssumption
  <2>2. CASE End
    <3>1. ASSUME code' = 0 PROVE failed = {} /\ ~lost
      BY <2>2, <3>1 DEF End, ExitCode
    <3>2. tried = plan
      <4>1. \A a \in Accounts : tried[a] = plan[a]
        BY <2>2 DEF End, IInv, CountInv
      <4>2. QED
        BY <4>1 DEF IInv, StateInv
    <3>3. QED
      BY <2>2, <3>1, <3>2 DEF End, IInv, RequestInv
  <2>3. CASE Crash
    BY <2>3 DEF Crash
  <2>4. QED
    BY <2>1, <2>2, <2>3
<1>5. RequestInv'
  BY <1>1, <1>2, <1>4 DEF IInv, StateInv, RequestInv, backend
<1>6. SettledInv'
  BY <1>1, SettledKept
<1>7. CountInv'
  BY <1>1, <1>2, <1>4 DEF IInv, CountInv
<1>8. QED
  BY <1>2, <1>3, <1>5, <1>6, <1>7 DEF IInv

\* The accounts are read: what is pending is what the run has seen.
LEMMA UsersInv ==
    ASSUME IInv, Users
    PROVE  IInv'
<1>1. UNCHANGED <<group, backend, runs, code, requested, failed, plan, tried, lost>>
      /\ pc = "users" /\ pc' = "cancel" /\ requested = None /\ seen = None
  <2>1. \A a \in Accounts : requested[a] = {}
    BY DEF Users, IInv, RequestInv, None
  <2>2. requested = None
    BY <2>1 DEF IInv, StateInv, None
  <2>3. QED
    BY <2>2 DEF Users, IInv, RequestInv
<1>2. /\ GroupInv' /\ \A o \in Orders : Taken(o)' = Taken(o)
      /\ \A a \in Accounts : \A o \in Orders :
            OnItsWay(a, o)' = OnItsWay(a, o) /\ Pending(a, o)' = Pending(a, o)
      /\ \A a \in Accounts : Mine(a)' = Mine(a)
  BY <1>1, Untouched
<1>3. StateInv' /\ RunInv'
  BY <1>1, RunAssumption DEF Users, IInv, StateInv, RunInv, PendingOf, backend
<1>4. /\ \A a \in Accounts : seen'[a] = {o \in Orders : Pending(a, o)}
      /\ \A a \in Accounts : settled'[a] => group[a] = <<>>
      /\ \A o \in Orders : ~(run[o] = runs /\ run[o] > 0) /\ run[o] # runs
  <2>1. \A a \in Accounts : seen'[a] = {o \in Orders : Pending(a, o)}
    BY DEF Users, PendingOf, Pending
  <2>2. \A a \in Accounts : settled'[a] => group[a] = <<>>
    BY DEF Users
  <2>3. \A o \in Orders : run[o] \in Int /\ runs \in Int /\ run[o] < runs
    BY <1>1 DEF IInv, RunInv, StateInv
  <2>4. QED
    BY <2>1, <2>2, <2>3
<1>5. RequestInv'
  <2>1. \A a \in Accounts : \A o \in seen'[a] : owner'[o] = a /\ Taken(o)'
    BY <1>1, <1>2, <1>4 DEF Pending, Taken, backend
  <2>2. \A o \in Orders : ~(run'[o] = runs' /\ run'[o] > 0)
    BY <1>1, <1>4 DEF backend
  <2>3. todo' = Active
    BY DEF Users
  <2>4. QED
    BY <1>1, <2>1, <2>2, <2>3 DEF RequestInv, None
<1>6. SettledInv'
  <2>1. \A a \in Accounts : Mine(a)' = {}
    BY <1>2, <1>4 DEF Mine
  <2>2. \A a \in Accounts : settled'[a] => DOMAIN group'[a] = {}
    BY <1>1, <1>4
  <2>3. \A a \in Accounts : \A o \in Orders : Pending(a, o)' => o \in seen'[a]
    BY <1>2, <1>4
  <2>4. QED
    BY <2>1, <2>2, <2>3 DEF SettledInv
<1>7. CountInv'
  BY <1>1, <1>2 DEF IInv, CountInv
<1>8. QED
  BY <1>2, <1>3, <1>5, <1>6, <1>7 DEF IInv

\* An account is passed, or the orders are computed.
LEMMA PassInv ==
    ASSUME IInv, AllCancelled \/ Prices \/ AllPlaced
    PROVE  IInv'
<1>1. UNCHANGED <<group, backend, runs, code, seen, settled, requested, failed, tried, lost>>
  BY DEF AllCancelled, Prices, AllPlaced
<1>2. /\ GroupInv' /\ \A o \in Orders : Taken(o)' = Taken(o)
      /\ \A a \in Accounts : \A o \in Orders :
            OnItsWay(a, o)' = OnItsWay(a, o) /\ Pending(a, o)' = Pending(a, o)
      /\ \A a \in Accounts : Mine(a)' = Mine(a)
  BY <1>1, Untouched
<1>3. SettledInv'
  BY <1>1, SettledKept
<1>4. CASE AllCancelled
  <2>1. UNCHANGED <<pc, plan>> /\ pc = "cancel" /\ todo' \subseteq todo
        /\ \A a \in todo \ todo' : requested[a] = seen[a]
    BY <1>4 DEF AllCancelled
  <2>2. StateInv' /\ RunInv' /\ CountInv'
    BY <1>1, <1>2, <2>1 DEF IInv, StateInv, RunInv, CountInv, backend
  <2>3. RequestInv'
    BY <1>1, <1>2, <2>1 DEF IInv, StateInv, RequestInv, backend
  <2>4. QED
    BY <1>2, <1>3, <2>2, <2>3 DEF IInv
<1>5. CASE Prices
  <2>1. /\ pc = "cancel" /\ todo = {} /\ pc' = "place" /\ todo' = Active \ failed
        /\ plan' \in [Accounts -> 0..MaxPlan] /\ tried = Zero
        /\ \A a \in Accounts \ todo' : plan'[a] = 0
    BY <1>5 DEF Prices, Replaceable, IInv, CountInv
  <2>2. \A a \in Accounts : tried[a] = 0
    BY <2>1 DEF Zero
  <2>3. StateInv'
    <3>1. \A a \in Accounts : tried'[a] <= plan'[a]
      BY <1>1, <2>1, <2>2, RunAssumption
    <3>2. QED
      BY <1>1, <2>1, <3>1 DEF IInv, StateInv, backend
  <2>4. RunInv' /\ CountInv'
    BY <1>1, <1>2, <2>1, <2>2 DEF IInv, RunInv, CountInv, backend
  <2>5. RequestInv'
    BY <1>1, <1>2, <2>1 DEF IInv, StateInv, RequestInv, backend
  <2>6. QED
    BY <1>2, <1>3, <2>3, <2>4, <2>5 DEF IInv
<1>6. CASE AllPlaced
  <2>1. UNCHANGED <<pc, plan>> /\ pc = "place" /\ todo' \subseteq todo
        /\ \A a \in todo \ todo' : tried[a] = plan[a]
    BY <1>6 DEF AllPlaced
  <2>2. StateInv' /\ RunInv' /\ CountInv'
    BY <1>1, <1>2, <2>1 DEF IInv, StateInv, RunInv, CountInv, backend
  <2>3. RequestInv'
    BY <1>1, <1>2, <2>1 DEF IInv, StateInv, RequestInv, backend
  <2>4. QED
    BY <1>2, <1>3, <2>2, <2>3 DEF IInv
<1>7. QED
  BY <1>4, <1>5, <1>6

-----------------------------------------------------------------------------
(* Messages.                                                               *)

\* A cancellation is on its way, and nothing else has changed.
Cancelling(a, o) ==
    /\ GroupInv' /\ SettledInv'
    /\ \A b \in Accounts : \A p \in Orders : OnItsWay(b, p) => OnItsWay(b, p)'
    /\ OnItsWay(a, o)'

\* A cancellation joins the group before anything of the run was ordered.
LEMMA CancellationSent ==
    ASSUME IInv, pc = "cancel", NEW a \in Accounts, NEW o \in seen[a],
           UNCHANGED <<backend, runs, seen, settled>>,
           group' = [group EXCEPT ![a] = Append(@, Cancellation(o))]
    PROVE  Cancelling(a, o)
<1>1. o \in Orders /\ owner[o] = a /\ Taken(o)
  BY DEF IInv, StateInv, RequestInv
<1>2. Cancellation(o) \in Message /\ Cancellation(o).type = "cancel" /\ Cancellation(o).order = o
  BY <1>1 DEF Cancellation, Message, Types
<1>3. Grown(a, Cancellation(o))
  BY <1>2, Growing DEF IInv
<1>4. /\ \A b \in Accounts : DOMAIN group[b] = 1..Len(group[b]) /\ Len(group[b]) \in Nat
      /\ \A i \in DOMAIN group'[a] : i \in DOMAIN group[a] \/ i = Len(group[a]) + 1
  BY <1>3, Positions DEF IInv, Grown
<1>5. status' = status /\ owner' = owner /\ run' = run /\ \A p : Taken(p)' = Taken(p)
  BY DEF backend, Taken
<1>6. ASSUME NEW b \in Accounts, NEW i \in DOMAIN group'[b]
      PROVE  \/ i \in DOMAIN group[b] /\ group'[b][i] = group[b][i]
             \/ b = a /\ i = Len(group[a]) + 1 /\ group'[b][i] = Cancellation(o)
  BY <1>3, <1>4 DEF Grown
<1>7. GroupInv'
  <2>1. group' \in [Accounts -> Seq(Message)]
    BY <1>3 DEF Grown
  <2>2. ASSUME NEW b \in Accounts, NEW i \in DOMAIN group'[b]
        PROVE  Sound(b, group[b][i])'
    <3>1. CASE i \in DOMAIN group[b] /\ group'[b][i] = group[b][i]
      BY <1>5, <3>1 DEF IInv, GroupInv, Sound
    <3>2. CASE b = a /\ group'[b][i] = Cancellation(o)
      BY <1>1, <1>2, <1>5, <3>2 DEF Sound
    <3>3. QED
      BY <1>6, <3>1, <3>2
  <2>3. ASSUME NEW b \in Accounts, NEW i \in DOMAIN group'[b], NEW j \in DOMAIN group'[b],
               i < j, group'[b][i].type = "place", group'[b][j].type = "place"
        PROVE  group'[b][i].order # group'[b][j].order
    <3>1. i \in DOMAIN group[b] /\ j \in DOMAIN group[b]
          /\ group'[b][i] = group[b][i] /\ group'[b][j] = group[b][j]
      BY <1>2, <1>6, <2>3
    <3>2. QED
      BY <2>3, <3>1 DEF IInv, GroupInv
  <2>4. QED
    BY <1>5, <2>1, <2>2, <2>3 DEF GroupInv
<1>8. \A p \in Orders : run[p] # runs
  BY DEF IInv, RunInv, StateInv
<1>9. SettledInv'
  <2> SUFFICES ASSUME NEW b \in Accounts, settled[b]
      PROVE  /\ \A p \in Orders : Pending(b, p)' => p \in seen'[b] \/ run'[p] = runs'
             /\ \A i \in DOMAIN group'[b] : group'[b][i].type # "place"
             /\ \A p \in Orders : p \notin Mine(b)'
    BY DEF SettledInv, Mine
  <2>1. \A p \in Orders : Pending(b, p) => p \in seen[b] \/ run[p] = runs
    BY DEF IInv, SettledInv
  <2>2. \A p \in Orders : p \notin Mine(b)' /\ Pending(b, p)' = Pending(b, p)
    BY <1>5, <1>8 DEF Mine, Pending
  <2>3. ASSUME NEW i \in DOMAIN group[b], group[b][i].type = "place" PROVE FALSE
    <3>1. group[b][i] \in Message
      BY Positions DEF IInv
    <3>2. run[group[b][i].order] = runs /\ group[b][i].order \in Orders
      BY <2>3, <3>1 DEF IInv, SettledInv, Message
    <3>3. QED
      BY <1>8, <3>2
  <2>4. \A i \in DOMAIN group'[b] : group'[b][i].type # "place"
    BY <1>2, <1>6, <2>3
  <2>5. QED
    BY <1>5, <2>1, <2>2, <2>4
<1>10. ASSUME NEW b \in Accounts, NEW p \in Orders, OnItsWay(b, p) PROVE OnItsWay(b, p)'
  <2>1. PICK i \in DOMAIN group[b] : group[b][i] = Cancellation(p)
    BY <1>10 DEF OnItsWay
  <2>2. i \in DOMAIN group'[b] /\ group'[b][i] = group[b][i]
    BY <1>3, <1>4 DEF Grown
  <2>3. QED
    BY <2>1, <2>2 DEF OnItsWay, Cancellation
<1>11. OnItsWay(a, o)'
  <2>1. Len(group[a]) + 1 \in DOMAIN group'[a] /\ group'[a][Len(group[a]) + 1] = Cancellation(o)
    BY <1>3, <1>4 DEF Grown
  <2>2. QED
    BY <2>1 DEF OnItsWay, Cancellation
<1>12. QED
  BY <1>7, <1>9, <1>10, <1>11 DEF Cancelling

\* A cancellation that is sent is remembered; one that may not have been gives
\* the account up.
LEMMA CancelInv ==
    ASSUME IInv, Cancel \/ CancelFails
    PROVE  IInv'
<1>1. PICK a \in Accounts : a = Min(todo) /\ a \in todo /\ a \in Active
  <2>1. todo \in SUBSET Nat /\ todo # {} /\ todo \subseteq Active /\ Active \subseteq Accounts
    BY RunAssumption DEF Cancel, CancelFails, IInv, StateInv
  <2>2. Min(todo) \in todo
    BY <2>1, MinIsMember
  <2>3. QED
    BY <2>1, <2>2
<1>2. PICK o \in Orders : o = Min(seen[a] \ requested[a]) /\ o \in seen[a] \ requested[a]
  <2>1. seen[a] # requested[a]
    BY <1>1 DEF Cancel, CancelFails
  <2>2. requested[a] \subseteq seen[a] /\ seen[a] \subseteq Orders
    BY <1>1 DEF IInv, StateInv, RequestInv
  <2> DEFINE S == seen[a] \ requested[a]
  <2>3. S \in SUBSET Nat /\ S # {}
    BY <2>1, <2>2, RunAssumption
  <2>4. Min(S) \in S
    BY <2>3, MinIsMember
  <2>5. QED
    BY <2>2, <2>4
<1>3. /\ UNCHANGED <<backend, runs, pc, code, seen, settled, plan, tried, lost>> /\ pc = "cancel"
      /\ group' = group \/ group' = [group EXCEPT ![a] = Append(@, Cancellation(o))]
  BY <1>1, <1>2 DEF Cancel, CancelFails
<1>4. /\ GroupInv' /\ SettledInv'
      /\ \A b \in Accounts : \A p \in Orders : OnItsWay(b, p) => OnItsWay(b, p)'
      /\ group' # group => OnItsWay(a, o)'
  <2>1. CASE group' = group
    BY <1>3, <2>1, Untouched, SettledKept
  <2>2. CASE group' = [group EXCEPT ![a] = Append(@, Cancellation(o))]
    <3>1. UNCHANGED <<backend, runs, seen, settled>>
      BY <1>3
    <3>2. Cancelling(a, o)
      BY <1>1, <1>2, <1>3, <2>2, <3>1, CancellationSent
    <3>3. QED
      BY <3>2 DEF Cancelling
  <2>3. QED
    BY <1>3, <2>1, <2>2
<1>5. status' = status /\ owner' = owner /\ run' = run /\ \A p : Taken(p)' = Taken(p)
  BY <1>3 DEF backend, Taken
<1>6. RunInv' /\ CountInv'
  <2>1. \A b \in Accounts : Mine(b)' = Mine(b)
    BY <1>3, <1>5 DEF Mine
  <2>2. QED
    BY <1>3, <1>5, <2>1 DEF IInv, RunInv, CountInv
<1>7. \A p \in Orders : run[p] # runs
  BY <1>3 DEF IInv, RunInv, StateInv
<1>8. CASE Cancel
  <2>1. /\ requested' = [requested EXCEPT ![a] = @ \cup {o}] /\ todo' = todo /\ failed' = failed
        /\ group' = [group EXCEPT ![a] = Append(@, Cancellation(o))]
    BY <1>1, <1>2, <1>8 DEF Cancel
  <2>2. OnItsWay(a, o)'
    <3>1. UNCHANGED <<backend, runs, seen, settled>>
      BY <1>3
    <3>2. Cancelling(a, o)
      BY <1>1, <1>2, <1>3, <2>1, <3>1, CancellationSent
    <3>3. QED
      BY <3>2 DEF Cancelling
  <2>3. requested' \in [Accounts -> SUBSET Orders] /\ requested'[a] = requested[a] \cup {o}
        /\ \A b \in Accounts : b # a => requested'[b] = requested[b]
    BY <1>1, <1>2, <2>1 DEF IInv, StateInv
  <2>4. StateInv'
    BY <1>3, <1>5, <2>1, <2>3 DEF IInv, StateInv
  <2>5. ASSUME NEW b \in Accounts
        PROVE  /\ requested'[b] \subseteq seen'[b]
               /\ \A p \in seen'[b] : owner'[p] = b /\ Taken(p)'
               /\ \A p \in requested'[b] : status'[p] # "pending" \/ OnItsWay(b, p)'
    <3>1. /\ requested[b] \subseteq seen[b] /\ seen[b] \subseteq Orders /\ seen' = seen
          /\ \A p \in seen[b] : owner[p] = b /\ Taken(p)
          /\ \A p \in requested[b] : status[p] # "pending" \/ OnItsWay(b, p)
      BY <1>3 DEF IInv, StateInv, RequestInv
    <3>2. requested'[b] \subseteq seen[b]
      BY <1>2, <2>3, <3>1
    <3>3. ASSUME NEW p \in requested'[b] PROVE status'[p] # "pending" \/ OnItsWay(b, p)'
      <4>1. CASE p \in requested[b]
        BY <1>4, <1>5, <3>1, <4>1
      <4>2. CASE p \notin requested[b]
        <5>1. b = a
          BY <2>3, <4>2
        <5>2. p = o
          BY <2>3, <4>2, <5>1
        <5>3. QED
          BY <2>2, <5>1, <5>2
      <4>3. QED
        BY <4>1, <4>2
    <3>4. QED
      BY <1>5, <3>1, <3>2, <3>3
  <2>6. \A b \in Active \ (todo' \cup failed') : requested'[b] = seen'[b]
    BY <1>1, <1>3, <2>1, <2>3, RunAssumption DEF IInv, RequestInv
  <2>7. RequestInv'
    BY <1>3, <1>5, <1>7, <2>5, <2>6 DEF RequestInv
  <2>8. QED
    BY <1>4, <1>6, <2>4, <2>7 DEF IInv
<1>9. CASE CancelFails
  <2>1. /\ requested' = [requested EXCEPT ![a] = {}] /\ todo' = todo \ {a} /\ failed' = failed \cup {a}
    BY <1>1, <1>9 DEF CancelFails
  <2>2. requested' \in [Accounts -> SUBSET Orders] /\ requested'[a] = {}
        /\ \A b \in Accounts : b # a => requested'[b] = requested[b]
    BY <1>1, <2>1 DEF IInv, StateInv
  <2>3. StateInv'
    BY <1>1, <1>3, <1>5, <2>1, <2>2 DEF IInv, StateInv
  <2>4. ASSUME NEW b \in Accounts
        PROVE  /\ requested'[b] \subseteq seen'[b]
               /\ \A p \in seen'[b] : owner'[p] = b /\ Taken(p)'
               /\ \A p \in requested'[b] : status'[p] # "pending" \/ OnItsWay(b, p)'
    <3>1. /\ requested[b] \subseteq seen[b] /\ seen[b] \subseteq Orders /\ seen' = seen
          /\ \A p \in seen[b] : owner[p] = b /\ Taken(p)
          /\ \A p \in requested[b] : status[p] # "pending" \/ OnItsWay(b, p)
      BY <1>3 DEF IInv, StateInv, RequestInv
    <3>2. QED
      BY <1>4, <1>5, <2>2, <3>1
  <2>5. \A b \in Active \ (todo' \cup failed') : requested'[b] = seen'[b]
    BY <1>1, <1>3, <2>1, <2>2, RunAssumption DEF IInv, RequestInv
  <2>6. RequestInv'
    BY <1>3, <1>5, <1>7, <2>4, <2>5 DEF RequestInv
  <2>7. QED
    BY <1>4, <1>6, <2>3, <2>6 DEF IInv
<1>10. QED
  BY <1>8, <1>9

\* A new order joins the group last, when all cancellations of its account have
\* been asked for.
LEMMA OrderSent ==
    ASSUME IInv, pc = "place", NEW a \in Accounts, a \in todo, tried[a] < plan[a],
           NEW o \in Orders, status[o] = "unused", Sent(a, o),
           tried' = [tried EXCEPT ![a] = @ + 1], lost' = lost \/ lost' = TRUE,
           UNCHANGED <<runs, pc, code, seen, settled, todo, requested, failed, plan>>
    PROVE  IInv'
<1> DEFINE new == Placement(o, requested[a])
<1>1. /\ a \in Active \ failed /\ requested[a] = seen[a] /\ requested[a] \subseteq Orders
      /\ runs \in Nat /\ runs > 0 /\ run[o] = 0
  BY RunAssumption DEF IInv, StateInv, RunInv, RequestInv
<1>2. new \in Message /\ new.type = "place" /\ new.order = o
  BY <1>1 DEF Placement, Message, Types
<1>3. Grown(a, new)
  <2>1. group' = [group EXCEPT ![a] = Append(@, new)]
    BY DEF Sent
  <2> HIDE DEF new
  <2>2. QED
    BY <1>2, <2>1, Growing DEF IInv
<1>4. /\ status'[o] = "sent" /\ owner'[o] = a /\ run'[o] = runs
      /\ \A p \in Orders : p # o => status'[p] = status[p] /\ owner'[p] = owner[p] /\ run'[p] = run[p]
  BY DEF Sent, IInv, StateInv
<1>5. /\ \A b \in Accounts : DOMAIN group[b] = 1..Len(group[b]) /\ Len(group[b]) \in Nat
      /\ \A i \in DOMAIN group'[a] : i \in DOMAIN group[a] \/ i = Len(group[a]) + 1
  BY <1>3, Positions DEF IInv, Grown
<1> HIDE DEF new
<1>6. ASSUME NEW b \in Accounts, NEW i \in DOMAIN group'[b]
      PROVE  \/ i \in DOMAIN group[b] /\ group'[b][i] = group[b][i]
             \/ b = a /\ i = Len(group[a]) + 1 /\ group'[b][i] = new
  BY <1>3, <1>5 DEF Grown
<1>7. /\ \A p \in Orders : Taken(p)' = Taken(p)
      /\ \A b \in Accounts : \A p \in Orders : Pending(b, p)' = Pending(b, p)
      /\ ~Taken(o)
  <2>1. ~Taken(o) /\ ~Taken(o)'
    BY <1>4 DEF Taken
  <2>2. \A p \in Orders : Taken(p)' = Taken(p)
    <3>1. ASSUME NEW p \in Orders, p # o PROVE Taken(p)' = Taken(p)
      BY <1>4, <3>1 DEF Taken
    <3>2. Taken(o)' = Taken(o)
      BY <2>1 DEF Taken
    <3>3. QED
      BY <3>1, <3>2
  <2>3. ASSUME NEW b \in Accounts, NEW p \in Orders PROVE Pending(b, p)' = Pending(b, p)
    <3>1. CASE p = o
      BY <1>4, <3>1 DEF Pending
    <3>2. CASE p # o
      BY <1>4, <3>2 DEF Pending
    <3>3. QED
      BY <3>1, <3>2
  <2>4. QED
    BY <2>1, <2>2, <2>3
<1>8. ASSUME NEW b \in Accounts, NEW i \in DOMAIN group[b]
      PROVE  group[b][i].order \in Orders /\ group[b][i].order # o
  <2>1. group[b][i] \in Message /\ Sound(b, group[b][i])
    BY Positions DEF IInv, GroupInv
  <2>2. group[b][i].order \in Orders /\ group[b][i].type \in {"place", "cancel"}
    BY <2>1 DEF Message, Types
  <2>3. QED
    BY <1>7, <2>1, <2>2 DEF Sound
<1>9. GroupInv'
  <2>1. group' \in [Accounts -> Seq(Message)]
    BY <1>3 DEF Grown
  <2>2. ASSUME NEW b \in Accounts, NEW i \in DOMAIN group'[b]
        PROVE  Sound(b, group[b][i])'
    <3>1. CASE i \in DOMAIN group[b] /\ group'[b][i] = group[b][i]
      <4>1. Sound(b, group[b][i]) /\ group[b][i].order \in Orders /\ group[b][i].order # o
        BY <1>8, <3>1 DEF IInv, GroupInv
      <4>2. QED
        BY <1>4, <1>7, <3>1, <4>1 DEF Sound
    <3>2. CASE b = a /\ group'[b][i] = new
      BY <1>2, <1>4, <3>2 DEF Sound
    <3>3. QED
      BY <1>6, <3>1, <3>2
  <2>3. ASSUME NEW b \in Accounts, NEW i \in DOMAIN group'[b], NEW j \in DOMAIN group'[b],
               i < j, group'[b][i].type = "place", group'[b][j].type = "place"
        PROVE  group'[b][i].order # group'[b][j].order
    <3>1. i \in DOMAIN group[b] /\ group'[b][i] = group[b][i]
      BY <1>3, <1>5, <1>6, <2>3 DEF Grown
    <3>2. CASE j \in DOMAIN group[b] /\ group'[b][j] = group[b][j]
      BY <2>3, <3>1, <3>2 DEF IInv, GroupInv
    <3>3. CASE b = a /\ group'[b][j] = new
      BY <1>2, <1>8, <3>1, <3>3
    <3>4. QED
      BY <1>6, <3>2, <3>3
  <2>4. QED
    BY <2>1, <2>2, <2>3 DEF GroupInv
<1>10. StateInv'
  <2>1. tried'[a] = tried[a] + 1 /\ (\A b \in Accounts : b # a => tried'[b] = tried[b])
        /\ tried' \in [Accounts -> 0..MaxPlan]
    BY RunAssumption DEF IInv, StateInv
  <2>2. \A b \in Accounts : tried'[b] <= plan'[b]
    BY <2>1, RunAssumption DEF IInv, StateInv
  <2>3. /\ status' \in [Orders -> {"unused", "sent", "pending", "cancelled", "filled"}]
        /\ owner' \in [Orders -> Accounts] /\ run' \in [Orders -> 0..MaxRuns]
    BY DEF Sent, IInv, StateInv
  <2>4. QED
    BY <2>1, <2>2, <2>3 DEF IInv, StateInv
<1>11. RunInv'
  <2>1. ASSUME NEW p \in Orders PROVE run'[p] <= runs' /\ (status'[p] = "unused" => run'[p] = 0)
    <3>1. CASE p = o
      BY <1>1, <1>4, <3>1
    <3>2. CASE p # o
      BY <1>4, <3>2 DEF IInv, RunInv
    <3>3. QED
      BY <3>1, <3>2
  <2>2. QED
    BY <1>1, <2>1 DEF RunInv
<1>12. ASSUME NEW b \in Accounts, NEW p \in Orders, OnItsWay(b, p) PROVE OnItsWay(b, p)'
  <2>1. PICK i \in DOMAIN group[b] : group[b][i] = Cancellation(p)
    BY <1>12 DEF OnItsWay
  <2>2. i \in DOMAIN group'[b] /\ group'[b][i] = group[b][i]
    <3>1. CASE b = a
      BY <1>3, <1>5, <3>1 DEF Grown
    <3>2. CASE b # a
      BY <1>3, <3>2 DEF Grown
    <3>3. QED
      BY <3>1, <3>2
  <2>3. QED
    BY <2>1, <2>2 DEF OnItsWay, Cancellation
<1>13. RequestInv'
  <2>1. ASSUME NEW b \in Accounts
        PROVE  /\ requested'[b] \subseteq seen'[b]
               /\ \A p \in seen'[b] : owner'[p] = b /\ Taken(p)'
               /\ \A p \in requested'[b] : status'[p] # "pending" \/ OnItsWay(b, p)'
    <3>1. /\ requested[b] \subseteq seen[b] /\ seen[b] \subseteq Orders
          /\ \A p \in seen[b] : owner[p] = b /\ Taken(p)
          /\ \A p \in requested[b] : status[p] # "pending" \/ OnItsWay(b, p)
      BY DEF IInv, StateInv, RequestInv
    <3>2. \A p \in seen[b] : p # o
      BY <1>7, <3>1
    <3>3. ASSUME NEW p \in seen[b]
          PROVE  owner'[p] = b /\ Taken(p)' /\ status'[p] = status[p] /\ p \in Orders
      BY <1>4, <1>7, <3>1, <3>2
    <3>4. QED
      BY <1>12, <3>1, <3>3
  <2>2. ASSUME NEW p \in Orders, run'[p] = runs', run'[p] > 0
        PROVE  requested'[owner'[p]] = seen'[owner'[p]]
    <3>1. CASE p = o
      BY <1>1, <1>4, <3>1
    <3>2. CASE p # o
      BY <1>4, <2>2, <3>2 DEF IInv, RequestInv
    <3>3. QED
      BY <3>1, <3>2
  <2>3. QED
    BY <2>1, <2>2 DEF IInv, RequestInv
<1>14. Mine(a)' = Mine(a) \cup {o} /\ o \notin Mine(a) /\ \A b \in Accounts \ {a} : Mine(b)' = Mine(b)
  <2>1. o \in Mine(a)' /\ \A b \in Accounts : o \notin Mine(b) /\ (b # a => o \notin Mine(b)')
    BY <1>1, <1>4 DEF Mine
  <2>2. ASSUME NEW b \in Accounts, NEW p \in Orders, p # o PROVE p \in Mine(b)' <=> p \in Mine(b)
    BY <1>4, <2>2 DEF Mine
  <2>3. \A b \in Accounts : Mine(b) \subseteq Orders /\ Mine(b)' \subseteq Orders
    BY DEF Mine
  <2>4. Mine(a)' = Mine(a) \cup {o}
    BY <2>1, <2>2, <2>3
  <2>5. ASSUME NEW b \in Accounts \ {a} PROVE Mine(b)' = Mine(b)
    BY <2>1, <2>2, <2>3, <2>5
  <2>6. QED
    BY <2>1, <2>4, <2>5
<1>15. SettledInv'
  <2> SUFFICES ASSUME NEW b \in Accounts, settled[b]
      PROVE  /\ \A p \in Orders : Pending(b, p)' => p \in seen'[b] \/ run'[p] = runs'
             /\ \A i \in DOMAIN group'[b] : group'[b][i].type = "place" =>
                /\ run'[group'[b][i].order] = runs' /\ runs' > 0
                /\ \A j \in DOMAIN group'[b] : i < j => group'[b][j].type = "place"
             /\ (\E p \in Mine(b)' : Taken(p)') => \A p \in seen'[b] : status'[p] # "pending"
    BY DEF SettledInv
  <2>1. ASSUME NEW p \in Orders, Pending(b, p)' PROVE p \in seen'[b] \/ run'[p] = runs'
    <3>1. Pending(b, p) /\ p # o
      BY <1>4, <1>7, <2>1 DEF Pending
    <3>2. QED
      BY <1>4, <3>1 DEF IInv, SettledInv
  <2>2. ASSUME NEW i \in DOMAIN group'[b], group'[b][i].type = "place"
        PROVE  /\ run'[group'[b][i].order] = runs' /\ runs' > 0
               /\ \A j \in DOMAIN group'[b] : i < j => group'[b][j].type = "place"
    <3>1. CASE i \in DOMAIN group[b] /\ group'[b][i] = group[b][i]
      <4>1. run[group[b][i].order] = runs /\ \A j \in DOMAIN group[b] : i < j => group[b][j].type = "place"
        BY <2>2, <3>1 DEF IInv, SettledInv
      <4>2. run'[group[b][i].order] = runs
        BY <1>4, <1>8, <3>1, <4>1
      <4>3. \A j \in DOMAIN group'[b] : i < j => group'[b][j].type = "place"
        BY <1>2, <1>6, <4>1
      <4>4. QED
        BY <1>1, <3>1, <4>2, <4>3
    <3>2. CASE b = a /\ i = Len(group[a]) + 1 /\ group'[b][i] = new
      <4>1. \A j \in DOMAIN group'[b] : ~(i < j)
        BY <1>3, <1>5, <3>2 DEF Grown
      <4>2. QED
        BY <1>1, <1>2, <1>4, <3>2, <4>1
    <3>3. QED
      BY <1>6, <3>1, <3>2
  <2>3. ASSUME \E p \in Mine(b)' : Taken(p)' PROVE \A p \in seen'[b] : status'[p] # "pending"
    <3>1. PICK p \in Mine(b)' : Taken(p)'
      BY <2>3
    <3>2. p \in Orders /\ p # o
      BY <1>4, <3>1 DEF Mine, Taken
    <3>3. p \in Mine(b) /\ Taken(p)
      BY <1>7, <1>14, <3>1, <3>2
    <3>4. \A q \in seen[b] : status[q] # "pending" /\ q \in Orders
      BY <3>3 DEF IInv, SettledInv, StateInv
    <3>5. QED
      BY <1>4, <3>4
  <2>4. QED
    BY <2>1, <2>2, <2>3
<1>16. CountInv'
  <2>1. tried'[a] = tried[a] + 1 /\ \A b \in Accounts : b # a => tried'[b] = tried[b]
    BY DEF IInv, StateInv
  <2>2. ASSUME ~lost', NEW b \in Accounts
        PROVE  IsFiniteSet(Mine(b)') /\ Cardinality(Mine(b)') = tried'[b]
    <3>1. IsFiniteSet(Mine(b)) /\ Cardinality(Mine(b)) = tried[b]
      BY <2>2 DEF IInv, CountInv
    <3>2. CASE b = a
      <4>1. IsFiniteSet(Mine(a) \cup {o}) /\ Cardinality(Mine(a) \cup {o}) = Cardinality(Mine(a)) + 1
        BY <1>14, <3>1, <3>2, FS_AddElement
      <4>2. QED
        BY <1>14, <2>1, <3>1, <3>2, <4>1
    <3>3. CASE b # a
      BY <1>14, <2>1, <3>1, <3>3
    <3>4. QED
      BY <3>2, <3>3
  <2>3. \A b \in Accounts \ todo' : tried'[b] = plan'[b]
    BY <2>1 DEF IInv, CountInv
  <2>4. QED
    BY <2>2, <2>3 DEF CountInv
<1>17. QED
  BY <1>9, <1>10, <1>11, <1>13, <1>15, <1>16 DEF IInv

\* An order that did not reach the queue is counted as tried and as lost.
LEMMA OrderLost ==
    ASSUME IInv, pc = "place", NEW a \in Accounts, a \in todo, tried[a] < plan[a],
           UNCHANGED <<group, backend>>,
           tried' = [tried EXCEPT ![a] = @ + 1], lost' = TRUE,
           UNCHANGED <<runs, pc, code, seen, settled, todo, requested, failed, plan>>
    PROVE  IInv'
<1>1. /\ GroupInv' /\ \A o \in Orders : Taken(o)' = Taken(o)
      /\ \A b \in Accounts : \A o \in Orders :
            OnItsWay(b, o)' = OnItsWay(b, o) /\ Pending(b, o)' = Pending(b, o)
  BY Untouched
<1>2. tried'[a] = tried[a] + 1 /\ (\A b \in Accounts : b # a => tried'[b] = tried[b])
      /\ tried' \in [Accounts -> 0..MaxPlan]
  BY RunAssumption DEF IInv, StateInv
<1>3. \A b \in Accounts : tried'[b] <= plan'[b]
  BY <1>2, RunAssumption DEF IInv, StateInv
<1>4. StateInv' /\ RunInv'
  BY <1>2, <1>3 DEF IInv, StateInv, RunInv, backend
<1>5. RequestInv'
  BY <1>1 DEF IInv, StateInv, RequestInv, backend
<1>6. SettledInv'
  BY SettledKept
<1>7. CountInv'
  BY <1>2 DEF IInv, CountInv
<1>8. QED
  BY <1>1, <1>4, <1>5, <1>6, <1>7 DEF IInv

\* The next order of the account, sent or lost.
LEMMA PlaceInv ==
    ASSUME IInv, Place \/ PlaceFails
    PROVE  IInv'
<1>1. PICK a \in Accounts : a = Min(todo) /\ a \in todo
  <2>1. todo \in SUBSET Nat /\ todo # {} /\ todo \subseteq Accounts
    BY RunAssumption DEF Place, PlaceFails, IInv, StateInv
  <2>2. Min(todo) \in todo
    BY <2>1, MinIsMember
  <2>3. QED
    BY <2>1, <2>2
<1>2. PICK o \in Orders : o = Min(Unused) /\ status[o] = "unused"
  <2>1. Unused \in SUBSET Nat /\ Unused # {}
    BY RunAssumption DEF Place, PlaceFails, Unused
  <2>2. Min(Unused) \in Unused
    BY <2>1, MinIsMember
  <2>3. QED
    BY <2>2 DEF Unused
<1>3. /\ pc = "place" /\ tried[a] < plan[a] /\ tried' = [tried EXCEPT ![a] = @ + 1]
      /\ UNCHANGED <<runs, pc, code, seen, settled, todo, requested, failed, plan>>
      /\ \/ Sent(a, o) /\ (lost' = lost \/ lost' = TRUE)
         \/ UNCHANGED <<group, backend>> /\ lost' = TRUE
  <2>1. CASE Place
    BY <1>1, <1>2, <2>1 DEF Place
  <2>2. CASE PlaceFails
    BY <1>1, <1>2, <2>2 DEF PlaceFails
  <2>3. QED
    BY <2>1, <2>2
<1>4. CASE Sent(a, o) /\ (lost' = lost \/ lost' = TRUE)
  BY <1>1, <1>2, <1>3, <1>4, OrderSent
<1>5. CASE UNCHANGED <<group, backend>> /\ lost' = TRUE
  BY <1>1, <1>3, <1>5, OrderLost
<1>6. QED
  BY <1>3, <1>4, <1>5

-----------------------------------------------------------------------------
(* The Backend.                                                            *)

\* A status changes, and of no other order.
Turned(o, s) ==
    /\ status'[o] = s
    /\ \A p \in Orders : p # o => status'[p] = status[p]

\* A pending order is filled.
LEMMA FillInv ==
    ASSUME IInv, NEW o \in Orders, Fill(o)
    PROVE  IInv'
<1>1. /\ UNCHANGED <<group, owner, run, process>> /\ status[o] = "pending"
      /\ status' \in [Orders -> {"unused", "sent", "pending", "cancelled", "filled"}]
      /\ Turned(o, "filled")
  BY DEF Fill, IInv, StateInv, Turned
<1>2. \A p \in Orders : /\ Taken(p)' = Taken(p) /\ (status'[p] = "pending" => status[p] = "pending")
                        /\ status'[p] = "sent" <=> status[p] = "sent"
                        /\ status'[p] = "unused" <=> status[p] = "unused"
  <2>1. ASSUME NEW p \in Orders
        PROVE  /\ Taken(p)' = Taken(p) /\ (status'[p] = "pending" => status[p] = "pending")
               /\ status'[p] = "sent" <=> status[p] = "sent"
               /\ status'[p] = "unused" <=> status[p] = "unused"
    <3>1. CASE p = o
      BY <1>1, <3>1 DEF Turned, Taken
    <3>2. CASE p # o
      BY <1>1, <3>2 DEF Turned, Taken
    <3>3. QED
      BY <3>1, <3>2
  <2>2. QED
    BY <2>1
<1>3. GroupInv'
  <2>1. ASSUME NEW b \in Accounts, NEW i \in DOMAIN group[b]
        PROVE  Sound(b, group[b][i])'
    <3>1. group[b][i] \in Message /\ Sound(b, group[b][i])
      BY Positions DEF IInv, GroupInv
    <3>2. group[b][i].order \in Orders
      BY <3>1 DEF Message
    <3>3. QED
      BY <1>1, <1>2, <3>1, <3>2 DEF Sound
  <2>2. QED
    BY <1>1, <2>1 DEF IInv, GroupInv
<1>4. StateInv' /\ RunInv'
  BY <1>1, <1>2 DEF IInv, StateInv, RunInv, process
<1>5. \A b \in Accounts : /\ Mine(b)' = Mine(b)
                          /\ \A p \in Orders : OnItsWay(b, p)' = OnItsWay(b, p) /\ (Pending(b, p)' => Pending(b, p))
  BY <1>1, <1>2 DEF Mine, OnItsWay, Pending, process
<1>6. RequestInv'
  <2>1. ASSUME NEW b \in Accounts
        PROVE  /\ requested[b] \subseteq seen[b]
               /\ \A p \in seen[b] : owner[p] = b /\ Taken(p)'
               /\ \A p \in requested[b] : status'[p] # "pending" \/ OnItsWay(b, p)'
    BY <1>2, <1>5 DEF IInv, StateInv, RequestInv
  <2>2. QED
    BY <1>1, <2>1 DEF IInv, RequestInv, process
<1>7. SettledInv'
  <2>1. ASSUME NEW b \in Accounts, settled[b]
        PROVE  /\ \A p \in Orders : Pending(b, p)' => p \in seen[b] \/ run[p] = runs
               /\ (\E p \in Mine(b)' : Taken(p)') => \A p \in seen[b] : status'[p] # "pending"
    <3>1. \A p \in Mine(b)' : p \in Mine(b) /\ p \in Orders
      BY <1>5 DEF Mine
    <3>2. seen[b] \subseteq Orders
      BY DEF IInv, StateInv
    <3>3. QED
      BY <1>2, <1>5, <2>1, <3>1, <3>2 DEF IInv, SettledInv
  <2>2. QED
    BY <1>1, <2>1 DEF IInv, SettledInv, process
<1>8. CountInv'
  BY <1>1, <1>5 DEF IInv, CountInv, process
<1>9. QED
  BY <1>3, <1>4, <1>6, <1>7, <1>8 DEF IInv

\* The message at a position of a group was there before, one place further on
\* in the group that has lost its first.
Shift(a, b) == IF b = a THEN 1 ELSE 0
Shifted(a) ==
    \A b \in Accounts : \A i \in DOMAIN group'[b] :
        i \in Nat /\ i > 0 /\ i + Shift(a, b) \in DOMAIN group[b] /\ group'[b][i] = group[b][i + Shift(a, b)]

\* What a group that has lost its first message consists of.
LEMMA Shifting ==
    ASSUME GroupInv, NEW a \in Accounts, Shrunk(a)
    PROVE  Shifted(a)
<1> SUFFICES ASSUME NEW b \in Accounts, NEW i \in DOMAIN group'[b]
    PROVE  i \in Nat /\ i > 0 /\ i + Shift(a, b) \in DOMAIN group[b] /\ group'[b][i] = group[b][i + Shift(a, b)]
  BY DEF Shifted
<1>1. group'[b] \in Seq(Message)
  BY DEF Shrunk
<1>2. i \in Nat /\ i > 0
  BY <1>1, LenProperties
<1>3. CASE b = a
  BY <1>2, <1>3 DEF Shrunk, Shift
<1>4. CASE b # a
  <2>1. Shift(a, b) = 0 /\ group'[b] = group[b]
    BY <1>4 DEF Shift, Shrunk
  <2>2. QED
    BY <1>2, <2>1
<1>5. QED
  BY <1>3, <1>4

\* A placement arrives: the order is pending, and when the account was settled
\* nothing of the old book is.
LEMMA PlacementHandled ==
    ASSUME IInv, NEW a \in Accounts, Shrunk(a), group[a][1].type = "place",
           NEW o \in Orders, o = group[a][1].order,
           status' = [status EXCEPT ![o] = "pending"],
           UNCHANGED <<owner, run, process>>
    PROVE  IInv'
<1>1. /\ status[o] = "sent" /\ owner[o] = a /\ 1 \in DOMAIN group[a] /\ Sound(a, group[a][1])
      /\ status' \in [Orders -> {"unused", "sent", "pending", "cancelled", "filled"}]
      /\ Turned(o, "pending")
  <2>1. 1 \in DOMAIN group[a] /\ Sound(a, group[a][1])
    BY DEF Shrunk, IInv, GroupInv
  <2>2. QED
    BY <2>1 DEF Sound, Turned, IInv, StateInv
<1>2. Shifted(a)
  BY Shifting DEF IInv
<1>3. ASSUME NEW b \in Accounts, NEW i \in DOMAIN group'[b]
      PROVE  group'[b][i].order \in Orders /\ group'[b][i].order # o /\ group'[b][i] \in Message
  <2> DEFINE j == i + Shift(a, b)
  <2>1. i \in Nat /\ i > 0 /\ j \in DOMAIN group[b] /\ group'[b][i] = group[b][j] /\ (b = a => 1 < j)
    BY <1>2 DEF Shifted, Shift
  <2> HIDE DEF j
  <2>2. group[b][j] \in Message /\ Sound(b, group[b][j])
    BY <2>1, Positions DEF IInv, GroupInv
  <2>3. group[b][j].order \in Orders /\ group[b][j].type \in {"place", "cancel"}
    BY <2>2 DEF Message, Types
  <2>4. ASSUME group[b][j].order = o PROVE FALSE
    <3>1. b = a /\ group[b][j].type = "place"
      BY <1>1, <2>2, <2>3, <2>4 DEF Sound, Taken
    <3>2. group[a][1].order # group[a][j].order
      BY <1>1, <2>1, <3>1 DEF IInv, GroupInv
    <3>3. QED
      BY <2>4, <3>1, <3>2
  <2>5. QED
    BY <2>1, <2>2, <2>3, <2>4
<1>4. GroupInv'
  <2>1. ASSUME NEW b \in Accounts, NEW i \in DOMAIN group'[b] PROVE Sound(b, group[b][i])'
    <3>1. Sound(b, group'[b][i])
      BY <1>2 DEF Shifted, IInv, GroupInv
    <3>2. status'[group'[b][i].order] = status[group'[b][i].order]
      BY <1>1, <1>3 DEF Turned
    <3>3. QED
      BY <3>1, <3>2 DEF Sound, Taken
  <2>2. ASSUME NEW b \in Accounts, NEW i \in DOMAIN group'[b], NEW j \in DOMAIN group'[b],
               i < j, group'[b][i].type = "place", group'[b][j].type = "place"
        PROVE  group'[b][i].order # group'[b][j].order
    <3>1. i + Shift(a, b) < j + Shift(a, b)
      BY <1>2, <2>2 DEF Shifted, Shift
    <3>2. QED
      BY <1>2, <2>2, <3>1 DEF Shifted, IInv, GroupInv
  <2>3. QED
    BY <2>1, <2>2 DEF GroupInv, Shrunk
<1>5. StateInv' /\ RunInv'
  <2>1. \A p \in Orders : status'[p] = "unused" => status[p] = "unused"
    BY <1>1 DEF Turned
  <2>2. QED
    BY <1>1, <2>1 DEF IInv, StateInv, RunInv, process
<1>6. \A b \in Accounts : Mine(b)' = Mine(b)
  BY DEF Mine, process
<1>7. ASSUME NEW b \in Accounts, NEW p \in Orders, OnItsWay(b, p) PROVE OnItsWay(b, p)'
  <2>1. PICK i \in DOMAIN group[b] : group[b][i] = Cancellation(p)
    BY <1>7 DEF OnItsWay
  <2>2. group[b][i].type = "cancel"
    BY <2>1 DEF Cancellation
  <2>3. \E k \in DOMAIN group'[b] : group'[b][k] = Cancellation(p)
    <3>1. CASE b = a
      <4>1. i # 1 /\ i - 1 \in DOMAIN group'[a]
        BY <2>1, <2>2, <3>1 DEF Shrunk
      <4>2. i \in Int /\ (i - 1) + 1 = i
        BY Positions DEF IInv
      <4>3. group'[a][i - 1] = group[a][i]
        BY <4>1, <4>2 DEF Shrunk
      <4>4. QED
        BY <2>1, <3>1, <4>1, <4>3
    <3>2. CASE b # a
      BY <2>1, <3>2 DEF Shrunk
    <3>3. QED
      BY <3>1, <3>2
  <2>4. QED
    BY <2>3 DEF OnItsWay, Cancellation
<1>8. ASSUME NEW b \in Accounts
      PROVE  /\ requested[b] \subseteq seen[b] /\ seen[b] \subseteq Orders
             /\ \A p \in seen[b] : owner[p] = b /\ Taken(p)' /\ status'[p] = status[p]
             /\ \A p \in requested[b] : status'[p] # "pending" \/ OnItsWay(b, p)'
  <2>1. /\ requested[b] \subseteq seen[b] /\ seen[b] \subseteq Orders
        /\ \A p \in seen[b] : owner[p] = b /\ Taken(p)
        /\ \A p \in requested[b] : status[p] # "pending" \/ OnItsWay(b, p)
    BY DEF IInv, StateInv, RequestInv
  <2>2. ASSUME NEW p \in seen[b] PROVE owner[p] = b /\ Taken(p)' /\ status'[p] = status[p]
    <3>1. p \in Orders /\ Taken(p) /\ p # o
      BY <1>1, <2>1 DEF Taken
    <3>2. QED
      BY <1>1, <2>1, <3>1 DEF Turned, Taken
  <2>3. QED
    BY <1>7, <2>1, <2>2
<1>9. RequestInv'
  BY <1>8 DEF IInv, RequestInv, process
<1>10. CountInv'
  BY <1>6 DEF IInv, CountInv, process
<1>11. SettledInv'
  <2> SUFFICES ASSUME NEW b \in Accounts, settled[b]
      PROVE  /\ \A p \in Orders : Pending(b, p)' => p \in seen[b] \/ run[p] = runs
             /\ \A i \in DOMAIN group'[b] : group'[b][i].type = "place" =>
                /\ run[group'[b][i].order] = runs /\ runs > 0
                /\ \A j \in DOMAIN group'[b] : i < j => group'[b][j].type = "place"
             /\ (\E p \in Mine(b)' : Taken(p)') => \A p \in seen[b] : status'[p] # "pending"
    BY DEF SettledInv, process
  <2>1. ASSUME b = a
        PROVE  run[o] = runs /\ runs > 0 /\ \A p \in seen[a] : status[p] # "pending"
    <3>1. /\ run[o] = runs /\ runs > 0
          /\ \A j \in DOMAIN group[a] : 1 < j => group[a][j].type = "place"
      BY <1>1, <2>1 DEF IInv, SettledInv
    <3>2. \A j \in DOMAIN group[a] : group[a][j].type = "place"
      <4>1. \A j \in DOMAIN group[a] : j = 1 \/ 1 < j
        BY Positions DEF IInv
      <4>2. QED
        BY <3>1, <4>1
    <3>3. \A p \in Orders : ~OnItsWay(a, p)
      BY <3>2 DEF OnItsWay, Cancellation
    <3>4. requested[a] = seen[a]
      BY <1>1, <3>1 DEF IInv, RequestInv
    <3>5. QED
      BY <1>8, <3>1, <3>3, <3>4 DEF IInv, RequestInv
  <2>2. ASSUME NEW p \in Orders, Pending(b, p)' PROVE p \in seen[b] \/ run[p] = runs
    <3>1. CASE p = o
      <4>1. b = a
        BY <1>1, <2>2, <3>1 DEF Pending
      <4>2. QED
        BY <2>1, <3>1, <4>1
    <3>2. CASE p # o
      <4>1. Pending(b, p)
        BY <1>1, <2>2, <3>2 DEF Pending, Turned
      <4>2. QED
        BY <4>1 DEF IInv, SettledInv
    <3>3. QED
      BY <3>1, <3>2
  <2>3. ASSUME NEW i \in DOMAIN group'[b], group'[b][i].type = "place"
        PROVE  /\ run[group'[b][i].order] = runs /\ runs > 0
               /\ \A j \in DOMAIN group'[b] : i < j => group'[b][j].type = "place"
    <3>1. /\ run[group'[b][i].order] = runs /\ runs > 0
          /\ \A k \in DOMAIN group[b] : i + Shift(a, b) < k => group[b][k].type = "place"
      BY <1>2, <2>3 DEF Shifted, IInv, SettledInv
    <3>2. ASSUME NEW j \in DOMAIN group'[b], i < j PROVE group'[b][j].type = "place"
      <4>1. i + Shift(a, b) < j + Shift(a, b)
        BY <1>2, <3>2 DEF Shifted, Shift
      <4>2. QED
        BY <1>2, <3>1, <4>1 DEF Shifted
    <3>3. QED
      BY <3>1, <3>2
  <2>4. ASSUME \E p \in Mine(b)' : Taken(p)' PROVE \A p \in seen[b] : status'[p] # "pending"
    <3>1. CASE b = a
      BY <1>8, <2>1, <3>1
    <3>2. CASE b # a
      <4>1. PICK p \in Mine(b) : p \in Orders /\ Taken(p)'
        BY <1>6, <2>4 DEF Mine
      <4>2. p # o
        BY <1>1, <3>2, <4>1 DEF Mine
      <4>3. Taken(p)
        BY <1>1, <4>1, <4>2 DEF Turned, Taken
      <4>4. \A q \in seen[b] : status[q] # "pending"
        BY <4>1, <4>3 DEF IInv, SettledInv
      <4>5. QED
        BY <1>8, <4>4
    <3>3. QED
      BY <3>1, <3>2
  <2>5. QED
    BY <2>2, <2>3, <2>4
<1>12. QED
  BY <1>4, <1>5, <1>9, <1>10, <1>11 DEF IInv

\* A cancellation arrives: the order is not pending any more.
LEMMA CancellationHandled ==
    ASSUME IInv, NEW a \in Accounts, Shrunk(a), group[a][1].type # "place",
           NEW o \in Orders, o = group[a][1].order,
           status' = IF status[o] = "pending" THEN [status EXCEPT ![o] = "cancelled"] ELSE status,
           UNCHANGED <<owner, run, process>>
    PROVE  IInv'
<1>1. /\ status' \in [Orders -> {"unused", "sent", "pending", "cancelled", "filled"}]
      /\ status'[o] # "pending"
      /\ \A p \in Orders : \/ status'[p] = status[p]
                           \/ status[p] = "pending" /\ status'[p] = "cancelled"
  BY DEF IInv, StateInv
<1>2. \A p \in Orders : /\ Taken(p)' = Taken(p) /\ (status'[p] = "pending" => status[p] = "pending")
                        /\ status'[p] = "sent" <=> status[p] = "sent"
                        /\ status'[p] = "unused" <=> status[p] = "unused"
  <2>1. ASSUME NEW p \in Orders
        PROVE  /\ Taken(p)' = Taken(p) /\ (status'[p] = "pending" => status[p] = "pending")
               /\ status'[p] = "sent" <=> status[p] = "sent"
               /\ status'[p] = "unused" <=> status[p] = "unused"
    <3>1. CASE status'[p] = status[p]
      BY <3>1 DEF Taken
    <3>2. CASE status[p] = "pending" /\ status'[p] = "cancelled"
      BY <3>2 DEF Taken
    <3>3. QED
      BY <1>1, <3>1, <3>2
  <2>2. QED
    BY <2>1
<1>3. Shifted(a)
  BY Shifting DEF IInv
<1>4. GroupInv'
  <2>1. ASSUME NEW b \in Accounts, NEW i \in DOMAIN group'[b] PROVE Sound(b, group[b][i])'
    <3> DEFINE j == i + Shift(a, b)
    <3>1. j \in DOMAIN group[b] /\ group'[b][i] = group[b][j]
      BY <1>3 DEF Shifted
    <3> HIDE DEF j
    <3>2. group[b][j] \in Message /\ Sound(b, group[b][j])
      BY <3>1, Positions DEF IInv, GroupInv
    <3>3. Sound(b, group'[b][i]) /\ group'[b][i].order \in Orders
      BY <3>1, <3>2 DEF Message
    <3>4. QED
      BY <1>2, <3>3 DEF Sound
  <2>2. ASSUME NEW b \in Accounts, NEW i \in DOMAIN group'[b], NEW j \in DOMAIN group'[b],
               i < j, group'[b][i].type = "place", group'[b][j].type = "place"
        PROVE  group'[b][i].order # group'[b][j].order
    <3>1. i + Shift(a, b) < j + Shift(a, b)
      BY <1>3, <2>2 DEF Shifted, Shift
    <3>2. QED
      BY <1>3, <2>2, <3>1 DEF Shifted, IInv, GroupInv
  <2>3. QED
    BY <2>1, <2>2 DEF GroupInv, Shrunk
<1>5. StateInv' /\ RunInv'
  BY <1>1, <1>2 DEF IInv, StateInv, RunInv, process
<1>6. \A b \in Accounts : /\ Mine(b)' = Mine(b)
                          /\ \A p \in Orders : Pending(b, p)' => Pending(b, p)
  BY <1>2 DEF Mine, Pending, process
<1>7. ASSUME NEW b \in Accounts, NEW p \in Orders, OnItsWay(b, p), p # o PROVE OnItsWay(b, p)'
  <2>1. PICK i \in DOMAIN group[b] : group[b][i] = Cancellation(p)
    BY <1>7 DEF OnItsWay
  <2>2. group[b][i].order = p
    BY <2>1 DEF Cancellation
  <2>3. \E k \in DOMAIN group'[b] : group'[b][k] = Cancellation(p)
    <3>1. CASE b = a
      <4>1. i # 1 /\ i - 1 \in DOMAIN group'[a]
        BY <1>7, <2>1, <2>2, <3>1 DEF Shrunk
      <4>2. i \in Int /\ (i - 1) + 1 = i
        BY Positions DEF IInv
      <4>3. group'[a][i - 1] = group[a][i]
        BY <4>1, <4>2 DEF Shrunk
      <4>4. QED
        BY <2>1, <3>1, <4>1, <4>3
    <3>2. CASE b # a
      BY <2>1, <3>2 DEF Shrunk
    <3>3. QED
      BY <3>1, <3>2
  <2>4. QED
    BY <2>3 DEF OnItsWay, Cancellation
<1>8. RequestInv'
  <2>1. ASSUME NEW b \in Accounts
        PROVE  /\ requested[b] \subseteq seen[b]
               /\ \A p \in seen[b] : owner[p] = b /\ Taken(p)'
               /\ \A p \in requested[b] : status'[p] # "pending" \/ OnItsWay(b, p)'
    <3>1. /\ requested[b] \subseteq seen[b] /\ seen[b] \subseteq Orders
          /\ \A p \in seen[b] : owner[p] = b /\ Taken(p)
          /\ \A p \in requested[b] : status[p] # "pending" \/ OnItsWay(b, p)
      BY DEF IInv, StateInv, RequestInv
    <3>2. ASSUME NEW p \in requested[b] PROVE status'[p] # "pending" \/ OnItsWay(b, p)'
      <4>1. CASE p = o
        BY <1>1, <4>1
      <4>2. CASE p # o
        BY <1>2, <1>7, <3>1, <4>2
      <4>3. QED
        BY <4>1, <4>2
    <3>3. QED
      BY <1>2, <3>1, <3>2
  <2>2. QED
    BY <2>1 DEF IInv, RequestInv, process
<1>9. CountInv'
  BY <1>6 DEF IInv, CountInv, process
<1>10. SettledInv'
  <2> SUFFICES ASSUME NEW b \in Accounts, settled[b]
      PROVE  /\ \A p \in Orders : Pending(b, p)' => p \in seen[b] \/ run[p] = runs
             /\ \A i \in DOMAIN group'[b] : group'[b][i].type = "place" =>
                /\ run[group'[b][i].order] = runs /\ runs > 0
                /\ \A j \in DOMAIN group'[b] : i < j => group'[b][j].type = "place"
             /\ (\E p \in Mine(b)' : Taken(p)') => \A p \in seen[b] : status'[p] # "pending"
    BY DEF SettledInv, process
  <2>1. \A p \in Orders : Pending(b, p)' => p \in seen[b] \/ run[p] = runs
    BY <1>6 DEF IInv, SettledInv
  <2>2. ASSUME NEW i \in DOMAIN group'[b], group'[b][i].type = "place"
        PROVE  /\ run[group'[b][i].order] = runs /\ runs > 0
               /\ \A j \in DOMAIN group'[b] : i < j => group'[b][j].type = "place"
    <3>1. /\ run[group'[b][i].order] = runs /\ runs > 0
          /\ \A k \in DOMAIN group[b] : i + Shift(a, b) < k => group[b][k].type = "place"
      BY <1>3, <2>2 DEF Shifted, IInv, SettledInv
    <3>2. ASSUME NEW j \in DOMAIN group'[b], i < j PROVE group'[b][j].type = "place"
      <4>1. i + Shift(a, b) < j + Shift(a, b)
        BY <1>3, <3>2 DEF Shifted, Shift
      <4>2. QED
        BY <1>3, <3>1, <4>1 DEF Shifted
    <3>3. QED
      BY <3>1, <3>2
  <2>3. ASSUME \E p \in Mine(b)' : Taken(p)' PROVE \A p \in seen[b] : status'[p] # "pending"
    <3>1. PICK p \in Mine(b) : p \in Orders /\ Taken(p)'
      BY <1>6, <2>3 DEF Mine
    <3>2. \A q \in seen[b] : status[q] # "pending" /\ q \in Orders
      BY <1>2, <3>1 DEF IInv, StateInv, SettledInv
    <3>3. QED
      BY <1>2, <3>2
  <2>4. QED
    BY <2>1, <2>2, <2>3
<1>11. QED
  BY <1>4, <1>5, <1>8, <1>9, <1>10 DEF IInv

\* The Backend takes a message.
LEMMA HandleInv ==
    ASSUME IInv, NEW a \in Accounts, Handle(a)
    PROVE  IInv'
<1>1. Shrunk(a)
  <2>1. group[a] # <<>> /\ group' = [group EXCEPT ![a] = Tail(@)]
    BY DEF Handle
  <2>2. QED
    BY <2>1, Shrinking DEF IInv
<1>2. PICK o \in Orders : o = group[a][1].order
  <2>1. group[a][1] \in Message
    BY <1>1, Positions DEF IInv, Shrunk
  <2>2. QED
    BY <2>1 DEF Message
<1>3. UNCHANGED <<owner, run, process>> /\ Head(group[a]) = group[a][1]
  BY <1>1 DEF Handle, Shrunk
<1>4. CASE group[a][1].type = "place"
  <2>1. status' = [status EXCEPT ![o] = "pending"]
    BY <1>2, <1>3, <1>4 DEF Handle
  <2>2. QED
    BY <1>1, <1>2, <1>3, <1>4, <2>1, PlacementHandled
<1>5. CASE group[a][1].type # "place"
  <2>1. status' = IF status[o] = "pending" THEN [status EXCEPT ![o] = "cancelled"] ELSE status
    BY <1>2, <1>3, <1>5 DEF Handle
  <2>2. QED
    BY <1>1, <1>2, <1>3, <1>5, <2>1, CancellationHandled
<1>6. QED
  BY <1>4, <1>5

-----------------------------------------------------------------------------
(* The theorems.                                                           *)

\* Every step keeps the invariant.
LEMMA NextInv ==
    ASSUME IInv, [Next]_vars
    PROVE  IInv'
<1>1. CASE Next
  <2>1. ASSUME NEW a \in Accounts, Handle(a) PROVE IInv'
    BY <2>1, HandleInv
  <2>2. ASSUME NEW o \in Orders, Fill(o) PROVE IInv'
    BY <2>2, FillInv
  <2>3. QED
    BY <1>1, <2>1, <2>2, StartInv, EndInv, UsersInv, PassInv, CancelInv, PlaceInv DEF Next
<1>2. CASE UNCHANGED vars
  <2>1. UNCHANGED <<group, backend, runs, seen, settled>>
        /\ UNCHANGED <<pc, code, todo, requested, failed, plan, tried, lost>>
    BY <1>2 DEF vars, backend
  <2>2. /\ GroupInv' /\ \A o \in Orders : Taken(o)' = Taken(o)
        /\ \A a \in Accounts : \A o \in Orders :
              OnItsWay(a, o)' = OnItsWay(a, o) /\ Pending(a, o)' = Pending(a, o)
        /\ \A a \in Accounts : Mine(a)' = Mine(a)
    BY <2>1, Untouched
  <2>3. StateInv' /\ RunInv' /\ CountInv'
    BY <2>1, <2>2 DEF IInv, StateInv, RunInv, CountInv, backend
  <2>4. RequestInv'
    BY <2>1, <2>2 DEF IInv, StateInv, RequestInv, backend
  <2>5. SettledInv'
    BY <2>1, SettledKept
  <2>6. QED
    BY <2>2, <2>3, <2>4, <2>5 DEF IInv
<1>3. QED
  BY <1>1, <1>2

\* The invariant holds in every run of the program.
LEMMA Invariance == Spec => []IInv
<1>1. IInv /\ [Next]_vars => IInv'
  BY NextInv
<1>2. QED
  BY <1>1, InitInv, PTL DEF Spec

\* Types, the requests of a run, and the group that each order's messages use.
LEMMA InvType == IInv => TypeOK
<1> SUFFICES ASSUME IInv PROVE TypeOK
  OBVIOUS
<1>1. \A a \in Accounts : \A i \in DOMAIN group[a] : owner[group[a][i].order] = a
  BY DEF IInv, GroupInv, Sound
<1>2. \A a \in Accounts : requested[a] \subseteq seen[a] /\ tried[a] <= plan[a]
  BY DEF IInv, StateInv, RequestInv
<1>3. QED
  BY <1>1, <1>2 DEF IInv, StateInv, TypeOK

\* Orders of two runs are never pending together on an account whose messages
\* had all been handled when the later run read it, wherever the runs break off
\* and whatever the queue is said not to have taken: the account's cancellations
\* are in its group before its first order.
THEOREM GenerationCorrect == Spec => []OneGeneration
<1>1. IInv => OneGeneration
  <2> SUFFICES ASSUME IInv, NEW a \in Accounts, NEW o \in Orders, NEW p \in Orders,
                      settled[a], Pending(a, o), run[o] = runs, Pending(a, p)
      PROVE  run[p] = runs
    BY InvType DEF OneGeneration
  <2>1. p \in seen[a] \/ run[p] = runs
    BY DEF IInv, SettledInv
  <2>2. ASSUME p \in seen[a], run[p] # runs PROVE FALSE
    <3>1. runs > 0
      BY <2>2, RunAssumption DEF IInv, StateInv, RunInv
    <3>2. o \in Mine(a) /\ Taken(o)
      BY <3>1 DEF Mine, Pending, Taken
    <3>3. status[p] # "pending"
      BY <2>2, <3>2 DEF IInv, SettledInv
    <3>4. QED
      BY <3>3 DEF Pending
  <2>3. QED
    BY <2>1, <2>2
<1>2. QED
  BY <1>1, Invariance, PTL

\* Exit code 0 means that everything the run wanted has reached the queue: each
\* order it saw pending is off the book or has its cancellation on the way, and
\* of every account as many orders carry the run's number as the run planned.
THEOREM ExitCorrect == Spec => []HonestExit
<1>1. IInv => HonestExit
  <2> SUFFICES ASSUME IInv, pc = "idle", code = 0, NEW a \in Active
      PROVE  /\ \A o \in seen[a] : status[o] # "pending" \/ OnItsWay(a, o)
             /\ Cardinality(Mine(a)) = plan[a]
    BY DEF HonestExit, OnItsWay, Mine
  <2>1. a \in Accounts /\ requested[a] = seen[a] /\ ~lost /\ tried = plan
    BY RunAssumption DEF IInv, RequestInv, CountInv
  <2>2. QED
    BY <2>1 DEF IInv, RequestInv, CountInv
<1>2. QED
  BY <1>1, Invariance, PTL

-----------------------------------------------------------------------------
(* Sums.                                                                   *)

Chosen(s) == CHOOSE x \in s : TRUE

\* iter is the recursion Total stands for.
Sums(f, iter) ==
    iter = [s \in SUBSET DOMAIN f |-> IF s = {} THEN 0 ELSE f[Chosen(s)] + iter[s \ {Chosen(s)}]]

Without(f, x) == [y \in DOMAIN f \ {x} |-> f[y]]
Numbers(f) == IsFiniteSet(DOMAIN f) /\ f = [x \in DOMAIN f |-> f[x]] /\ \A x \in DOMAIN f : f[x] \in Int

\* A set of numbers has a least one.
LEMMA LeastNumber ==
    ASSUME NEW S \in SUBSET Nat, S # {}
    PROVE  \E n \in S : \A m \in S : n <= m
<1>1. PICK n \in S : \A m \in S : <<m, n>> \notin OpToRel(<, Nat)
  BY WFMin, NatLessThanWellFounded, Zenon
<1>2. \A m \in S : ~(m < n)
  BY <1>1 DEF OpToRel
<1>3. QED
  BY <1>2

\* What holds of 0, and of n + 1 if it holds of n, holds of every number.
LEMMA NumberInduction ==
    ASSUME NEW P, 0 \in P, \A n \in Nat : n \in P => n + 1 \in P
    PROVE  \A n \in Nat : n \in P
<1> DEFINE Out == {n \in Nat : n \notin P}
<1>1. SUFFICES ASSUME Out # {} PROVE FALSE
  OBVIOUS
<1>2. PICK n \in Out : \A m \in Out : n <= m
  BY <1>1, LeastNumber
<1>3. n # 0 /\ n - 1 \in Nat /\ n - 1 \notin Out
  BY <1>2
<1>4. n - 1 + 1 \in P
  BY <1>3
<1>5. QED
  BY <1>2, <1>4

\* The recursion exists over a finite domain.
LEMMA SumsExist ==
    ASSUME NEW f, IsFiniteSet(DOMAIN f)
    PROVE  \E iter : Sums(f, iter)
<1> DEFINE D == DOMAIN f
           Small(n) == {s \in SUBSET D : Cardinality(s) <= n}
           Upto(n, g) == g = [s \in Small(n) |-> IF s = {} THEN 0 ELSE f[Chosen(s)] + g[s \ {Chosen(s)}]]
           P == {n \in Nat : \E g : Upto(n, g)}
<1>1. \A s \in SUBSET D : IsFiniteSet(s) /\ Cardinality(s) \in Nat /\ Cardinality(s) <= Cardinality(D)
  BY FS_Subset, FS_CardinalityType
<1>2. \A s \in SUBSET D : s # {} =>
        /\ s \ {Chosen(s)} \in SUBSET D
        /\ Cardinality(s \ {Chosen(s)}) = Cardinality(s) - 1
  BY <1>1, FS_RemoveElement DEF Chosen
<1>3. 0 \in P
  <2> DEFINE g == [s \in Small(0) |-> 0]
  <2>1. \A s \in Small(0) : s = {}
    BY <1>1, FS_EmptySet
  <2>2. Upto(0, g)
    BY <2>1
  <2>3. QED
    BY <2>2
<1>4. ASSUME NEW n \in Nat, n \in P PROVE n + 1 \in P
  <2>1. PICK g : Upto(n, g)
    BY <1>4
  <2> DEFINE h == [s \in Small(n + 1) |-> IF s = {} THEN 0 ELSE f[Chosen(s)] + g[s \ {Chosen(s)}]]
  <2>2. ASSUME NEW t \in Small(n) PROVE h[t] = g[t]
    <3>1. g[t] = IF t = {} THEN 0 ELSE f[Chosen(t)] + g[t \ {Chosen(t)}]
      BY <2>1
    <3>2. t \in Small(n + 1)
      BY <1>1
    <3>3. QED
      BY <3>1, <3>2
  <2>3. ASSUME NEW s \in Small(n + 1), s # {} PROVE s \ {Chosen(s)} \in Small(n)
    BY <1>1, <1>2, <2>3
  <2>4. \A s \in Small(n + 1) :
          h[s] = IF s = {} THEN 0 ELSE f[Chosen(s)] + h[s \ {Chosen(s)}]
    BY <2>2, <2>3
  <2> HIDE DEF h
  <2>5. h = [s \in Small(n + 1) |-> IF s = {} THEN 0 ELSE f[Chosen(s)] + h[s \ {Chosen(s)}]]
    <3>1. DOMAIN h = Small(n + 1) /\ h = [s \in Small(n + 1) |-> h[s]]
      BY DEF h
    <3>2. QED
      BY <2>4, <3>1
  <2>6. \E g1 : Upto(n + 1, g1)
    BY <2>5
  <2> HIDE DEF Upto
  <2>7. n + 1 \in Nat
    OBVIOUS
  <2>8. QED
    BY <2>6, <2>7
<1>5. Cardinality(D) \in P
  <2> HIDE DEF P
  <2>1. QED
    BY <1>1, <1>3, <1>4, NumberInduction, Zenon
<1>6. PICK g : Upto(Cardinality(D), g)
  BY <1>5
<1>7. Small(Cardinality(D)) = SUBSET D
  BY <1>1
<1>8. QED
  BY <1>6, <1>7 DEF Sums

LEMMA TotalIs ==
    ASSUME NEW f, IsFiniteSet(DOMAIN f)
    PROVE  \E iter : Sums(f, iter) /\ Total(f) = iter[DOMAIN f]
<1> DEFINE It == CHOOSE iter : Sums(f, iter)
<1>1. Sums(f, It)
  BY SumsExist
<1>2. Total(f) = It[DOMAIN f]
  BY DEF Total, MapThenSumSet, MapThenFoldSet, Sums, Chosen
<1>3. QED
  BY <1>1, <1>2

\* Functions that agree have the same sums.
LEMMA SumsAgree ==
    ASSUME NEW f, NEW g, IsFiniteSet(DOMAIN g), DOMAIN g \subseteq DOMAIN f,
           \A x \in DOMAIN g : f[x] = g[x],
           NEW i, Sums(f, i), NEW j, Sums(g, j)
    PROVE  \A s \in SUBSET DOMAIN g : i[s] = j[s]
<1> DEFINE D == DOMAIN g
           P == {n \in Nat : \A s \in SUBSET D : Cardinality(s) = n => i[s] = j[s]}
<1>1. \A s \in SUBSET D : IsFiniteSet(s) /\ Cardinality(s) \in Nat
  BY FS_Subset, FS_CardinalityType
<1>2. \A s \in SUBSET D :
        /\ i[s] = IF s = {} THEN 0 ELSE f[Chosen(s)] + i[s \ {Chosen(s)}]
        /\ j[s] = IF s = {} THEN 0 ELSE g[Chosen(s)] + j[s \ {Chosen(s)}]
  BY DEF Sums
<1>3. 0 \in P
  BY <1>1, <1>2, FS_EmptySet
<1>4. ASSUME NEW n \in Nat, n \in P PROVE n + 1 \in P
  <2>1. SUFFICES ASSUME NEW s \in SUBSET D, Cardinality(s) = n + 1 PROVE i[s] = j[s]
    OBVIOUS
  <2>2. s # {}
    BY <2>1, FS_EmptySet
  <2>3. Chosen(s) \in s
    BY <2>2 DEF Chosen
  <2>4. s \ {Chosen(s)} \in SUBSET D /\ Cardinality(s \ {Chosen(s)}) = n
    <3>1. IsFiniteSet(s)
      BY <1>1, <2>1
    <3>2. Cardinality(s \ {Chosen(s)}) = Cardinality(s) - 1
      BY <2>3, <3>1, FS_RemoveElement, Zenon
    <3>3. s \ {Chosen(s)} \in SUBSET D
      OBVIOUS
    <3>4. QED
      BY <2>1, <3>2, <3>3
  <2>5. i[s \ {Chosen(s)}] = j[s \ {Chosen(s)}]
    BY <1>4, <2>4
  <2>6. f[Chosen(s)] = g[Chosen(s)]
    BY <2>3
  <2>7. QED
    BY <1>2, <2>2, <2>5, <2>6
<1>5. \A n \in Nat : n \in P
  <2> HIDE DEF P
  <2>1. QED
    BY <1>3, <1>4, NumberInduction, Zenon
<1>6. QED
  BY <1>1, <1>5

\* A sum of nothing is zero.
LEMMA TotalOfNone ==
    ASSUME NEW f, DOMAIN f = {}
    PROVE  Total(f) = 0
<1>1. IsFiniteSet(DOMAIN f)
  BY FS_EmptySet
<1>2. PICK i : Sums(f, i) /\ Total(f) = i[DOMAIN f]
  BY <1>1, TotalIs
<1>3. QED
  BY <1>2 DEF Sums

LEMMA TotalOfChosen ==
    ASSUME NEW f, IsFiniteSet(DOMAIN f), DOMAIN f # {}
    PROVE  Total(f) = f[Chosen(DOMAIN f)] + Total(Without(f, Chosen(DOMAIN f)))
<1> DEFINE x == Chosen(DOMAIN f)
           g == Without(f, x)
<1>1. x \in DOMAIN f
  BY DEF Chosen
<1>2. DOMAIN g = DOMAIN f \ {x} /\ \A y \in DOMAIN g : f[y] = g[y]
  BY DEF Without
<1>3. IsFiniteSet(DOMAIN g)
  BY <1>2, FS_Subset
<1>4. PICK i : Sums(f, i) /\ Total(f) = i[DOMAIN f]
  BY TotalIs
<1>5. PICK j : Sums(g, j) /\ Total(g) = j[DOMAIN g]
  BY <1>3, TotalIs
<1>6. i[DOMAIN g] = j[DOMAIN g]
  BY <1>2, <1>3, <1>4, <1>5, SumsAgree
<1>7. i[DOMAIN f] = f[x] + i[DOMAIN f \ {x}]
  BY <1>4 DEF Sums
<1>8. QED
  BY <1>2, <1>4, <1>5, <1>6, <1>7

LEMMA WithoutIsNumbers ==
    ASSUME NEW f, Numbers(f), NEW x \in DOMAIN f
    PROVE  /\ Numbers(Without(f, x)) /\ DOMAIN Without(f, x) = DOMAIN f \ {x}
           /\ Cardinality(DOMAIN f) \in Nat \ {0}
           /\ Cardinality(DOMAIN Without(f, x)) = Cardinality(DOMAIN f) - 1
           /\ \A y \in DOMAIN f \ {x} : Without(f, x)[y] = f[y]
<1>1. DOMAIN Without(f, x) = DOMAIN f \ {x} /\ \A y \in DOMAIN f \ {x} : Without(f, x)[y] = f[y]
  BY DEF Without
<1>2. IsFiniteSet(DOMAIN f \ {x}) /\ Cardinality(DOMAIN f \ {x}) = Cardinality(DOMAIN f) - 1
  BY FS_RemoveElement DEF Numbers
<1>3. Cardinality(DOMAIN f) \in Nat /\ Cardinality(DOMAIN f \ {x}) \in Nat
  BY <1>2, FS_CardinalityType DEF Numbers
<1>4. QED
  BY <1>1, <1>2, <1>3 DEF Numbers, Without

LEMMA WithoutIsSmaller ==
    ASSUME NEW f, Numbers(f), NEW x \in DOMAIN f, NEW n \in Nat, Cardinality(DOMAIN f) = n + 1
    PROVE  /\ Numbers(Without(f, x)) /\ DOMAIN Without(f, x) = DOMAIN f \ {x}
           /\ Cardinality(DOMAIN Without(f, x)) = n
           /\ \A y \in DOMAIN f \ {x} : Without(f, x)[y] = f[y]
<1>1. Cardinality(DOMAIN Without(f, x)) = (n + 1) - 1
  BY WithoutIsNumbers
<1>2. (n + 1) - 1 = n
  OBVIOUS
<1>3. Cardinality(DOMAIN Without(f, x)) = n
  BY <1>1, <1>2
<1>4. /\ Numbers(Without(f, x)) /\ DOMAIN Without(f, x) = DOMAIN f \ {x}
      /\ \A y \in DOMAIN f \ {x} : Without(f, x)[y] = f[y]
  BY WithoutIsNumbers
<1>5. QED
  BY <1>3, <1>4

LEMMA TotalIsInt ==
    ASSUME NEW f, Numbers(f)
    PROVE  Total(f) \in Int
<1> DEFINE P == {n \in Nat : \A g : Numbers(g) /\ Cardinality(DOMAIN g) = n => Total(g) \in Int}
<1>1. 0 \in P
  <2>1. ASSUME NEW g, Numbers(g), Cardinality(DOMAIN g) = 0 PROVE Total(g) = 0
    <3>1. DOMAIN g = {}
      BY <2>1, FS_EmptySet DEF Numbers
    <3>2. QED
      BY <3>1, TotalOfNone
  <2>2. QED
    BY <2>1
<1>2. ASSUME NEW n \in Nat, n \in P PROVE n + 1 \in P
  <2>1. SUFFICES ASSUME NEW g, Numbers(g), Cardinality(DOMAIN g) = n + 1 PROVE Total(g) \in Int
    OBVIOUS
  <2>2. DOMAIN g # {}
    BY <2>1, FS_EmptySet
  <2>3. PICK x \in DOMAIN g : x = Chosen(DOMAIN g)
    BY <2>2 DEF Chosen
  <2>4. Total(g) = g[x] + Total(Without(g, x))
    BY <2>1, <2>2, <2>3, TotalOfChosen DEF Numbers
  <2>5. Numbers(Without(g, x)) /\ Cardinality(DOMAIN Without(g, x)) = n
    BY <2>1, WithoutIsSmaller
  <2>6. QED
    BY <1>2, <2>1, <2>4, <2>5 DEF Numbers
<1>3. \A n \in Nat : n \in P
  <2> HIDE DEF P
  <2>1. QED
    BY <1>1, <1>2, NumberInduction, Zenon
<1>4. Cardinality(DOMAIN f) \in Nat
  BY FS_CardinalityType DEF Numbers
<1>5. QED
  BY <1>3, <1>4

\* Any member can be taken out of a sum.
LEMMA TotalSplit ==
    ASSUME NEW f, Numbers(f), NEW x \in DOMAIN f
    PROVE  Total(f) = f[x] + Total(Without(f, x))
<1> DEFINE Splits(g, y) == Total(g) = g[y] + Total(Without(g, y))
           P == {n \in Nat : \A g : Numbers(g) /\ Cardinality(DOMAIN g) = n => \A y \in DOMAIN g : Splits(g, y)}
<1>1. 0 \in P
  BY FS_EmptySet DEF Numbers
<1>2. ASSUME NEW n \in Nat, n \in P PROVE n + 1 \in P
  <2>1. SUFFICES ASSUME NEW g, Numbers(g), Cardinality(DOMAIN g) = n + 1, NEW y \in DOMAIN g
                 PROVE  Splits(g, y)
    OBVIOUS
  <2>2. PICK z \in DOMAIN g : z = Chosen(DOMAIN g)
    BY <2>1 DEF Chosen
  <2>3. Total(g) = g[z] + Total(Without(g, z))
    BY <2>1, <2>2, TotalOfChosen DEF Numbers
  <2>4. CASE y = z
    BY <2>3, <2>4
  <2>5. CASE y # z
    <3>1. PICK v : v = Without(g, z)
      OBVIOUS
    <3>2. PICK w : w = Without(g, y)
      OBVIOUS
    <3>3. /\ Numbers(v) /\ Cardinality(DOMAIN v) = n /\ y \in DOMAIN v /\ v[y] = g[y]
          /\ Numbers(w) /\ Cardinality(DOMAIN w) = n /\ z \in DOMAIN w /\ w[z] = g[z]
      <4>1. \A x1 \in DOMAIN g : /\ Numbers(Without(g, x1)) /\ DOMAIN Without(g, x1) = DOMAIN g \ {x1}
                                 /\ Cardinality(DOMAIN Without(g, x1)) = n
                                 /\ \A y1 \in DOMAIN g \ {x1} : Without(g, x1)[y1] = g[y1]
        BY <2>1, WithoutIsSmaller
      <4>2. QED
        BY <2>5, <3>1, <3>2, <4>1
    <3>4. Splits(v, y) /\ Splits(w, z)
      BY <1>2, <3>3
    <3>5. Without(v, y) = Without(w, z)
      <4>1. (DOMAIN g \ {z}) \ {y} = (DOMAIN g \ {y}) \ {z}
        OBVIOUS
      <4>2. QED
        BY <2>5, <3>1, <3>2, <4>1 DEF Without
    <3>6. Total(Without(v, y)) \in Int
      BY <3>3, WithoutIsNumbers, TotalIsInt
    <3>7. g[y] \in Int /\ g[z] \in Int
      BY <2>1 DEF Numbers
    <3>8. Total(g) = g[z] + Total(v) /\ Total(v) = g[y] + Total(Without(v, y)) /\ Total(w) = g[z] + Total(Without(v, y))
      BY <2>3, <3>1, <3>3, <3>4, <3>5
    <3>9. Total(g) = g[y] + Total(w)
      BY <3>6, <3>7, <3>8
    <3>10. QED
      BY <3>2, <3>9
  <2>6. QED
    BY <2>4, <2>5
<1>3. \A n \in Nat : n \in P
  <2> HIDE DEF P
  <2>1. QED
    BY <1>1, <1>2, NumberInduction, Zenon
<1>4. Cardinality(DOMAIN f) \in Nat
  BY FS_CardinalityType DEF Numbers
<1>5. QED
  BY <1>3, <1>4

\* A member that changes changes the sum by as much.
LEMMA TotalUpdated ==
    ASSUME NEW f, Numbers(f), NEW x \in DOMAIN f, NEW v \in Int
    PROVE  Total([f EXCEPT ![x] = v]) = Total(f) - f[x] + v
<1>1. PICK g : g = [f EXCEPT ![x] = v]
  OBVIOUS
<1>2. Numbers(g) /\ x \in DOMAIN g /\ g[x] = v
  BY <1>1 DEF Numbers
<1>3. Without(g, x) = Without(f, x)
  BY <1>1 DEF Without
<1>4. Total(g) = v + Total(Without(f, x)) /\ Total(f) = f[x] + Total(Without(f, x))
  BY <1>2, <1>3, TotalSplit
<1>5. Total(Without(f, x)) \in Int /\ f[x] \in Int
  BY WithoutIsNumbers, TotalIsInt DEF Numbers
<1>6. QED
  BY <1>1, <1>4, <1>5

\* A sum of so many times what another adds up is at most so many times as large.
LEMMA TotalIsBounded ==
    ASSUME NEW f, Numbers(f), NEW g, Numbers(g), DOMAIN f = DOMAIN g, NEW k \in Nat,
           \A x \in DOMAIN f : g[x] <= k * f[x]
    PROVE  Total(g) <= k * Total(f)
<1> DEFINE Bounded(a, b) == Total(b) <= k * Total(a)
           Below(a, b) == /\ Numbers(a) /\ Numbers(b) /\ DOMAIN a = DOMAIN b
                          /\ \A x \in DOMAIN a : b[x] <= k * a[x]
           P == {n \in Nat : \A a, b : Below(a, b) /\ Cardinality(DOMAIN a) = n => Bounded(a, b)}
<1>1. 0 \in P
  <2>1. ASSUME NEW a, NEW b, Below(a, b), Cardinality(DOMAIN a) = 0 PROVE Bounded(a, b)
    <3>1. DOMAIN a = {} /\ DOMAIN b = {}
      BY <2>1, FS_EmptySet DEF Numbers
    <3>2. QED
      BY <3>1, TotalOfNone
  <2>2. QED
    BY <2>1
<1>2. ASSUME NEW n \in Nat, n \in P PROVE n + 1 \in P
  <2>1. SUFFICES ASSUME NEW a, NEW b, Below(a, b), Cardinality(DOMAIN a) = n + 1 PROVE Bounded(a, b)
    OBVIOUS
  <2>2. DOMAIN a # {}
    BY <2>1, FS_EmptySet
  <2>3. PICK x \in DOMAIN a : TRUE
    BY <2>2
  <2>4. PICK c : c = Without(a, x)
    OBVIOUS
  <2>5. PICK d : d = Without(b, x)
    OBVIOUS
  <2>6. /\ Numbers(c) /\ Cardinality(DOMAIN c) = n /\ DOMAIN c = DOMAIN a \ {x}
        /\ \A y \in DOMAIN a \ {x} : c[y] = a[y]
    BY <2>1, <2>4, WithoutIsSmaller
  <2>7. /\ Numbers(d) /\ DOMAIN d = DOMAIN a \ {x}
        /\ \A y \in DOMAIN a \ {x} : d[y] = b[y]
    BY <2>1, <2>5, WithoutIsNumbers
  <2>8. Below(c, d)
    BY <2>1, <2>6, <2>7
  <2>9. Total(d) <= k * Total(c)
    BY <1>2, <2>6, <2>8
  <2>10. Total(a) = a[x] + Total(c) /\ Total(b) = b[x] + Total(d)
    BY <2>1, <2>3, <2>4, <2>5, TotalSplit
  <2>11. Total(c) \in Int /\ Total(d) \in Int /\ a[x] \in Int /\ b[x] \in Int /\ b[x] <= k * a[x]
    BY <2>1, <2>3, <2>6, <2>7, TotalIsInt DEF Numbers
  <2>12. k * (a[x] + Total(c)) = k * a[x] + k * Total(c)
    BY <2>11
  <2>13. QED
    BY <2>9, <2>10, <2>11, <2>12
<1>3. \A n \in Nat : n \in P
  <2> HIDE DEF P
  <2>1. QED
    BY <1>1, <1>2, NumberInduction, Zenon
<1>4. Cardinality(DOMAIN f) \in Nat
  BY FS_CardinalityType DEF Numbers
<1>5. QED
  BY <1>3, <1>4

\* A sum of numbers that are not negative is at least each of them.
LEMMA TotalIsNat ==
    ASSUME NEW f, Numbers(f), \A x \in DOMAIN f : f[x] >= 0
    PROVE  Total(f) \in Nat
<1> DEFINE NotNegative(a) == Numbers(a) /\ \A x \in DOMAIN a : a[x] >= 0
           P == {n \in Nat : \A a : NotNegative(a) /\ Cardinality(DOMAIN a) = n => Total(a) \in Nat}
<1>1. 0 \in P
  <2>1. ASSUME NEW a, NotNegative(a), Cardinality(DOMAIN a) = 0 PROVE Total(a) \in Nat
    <3>1. DOMAIN a = {}
      BY <2>1, FS_EmptySet DEF Numbers
    <3>2. QED
      BY <3>1, TotalOfNone
  <2>2. QED
    BY <2>1
<1>2. ASSUME NEW n \in Nat, n \in P PROVE n + 1 \in P
  <2>1. SUFFICES ASSUME NEW a, NotNegative(a), Cardinality(DOMAIN a) = n + 1 PROVE Total(a) \in Nat
    OBVIOUS
  <2>2. DOMAIN a # {}
    BY <2>1, FS_EmptySet
  <2>3. PICK x \in DOMAIN a : TRUE
    BY <2>2
  <2>4. PICK c : c = Without(a, x)
    OBVIOUS
  <2>5. /\ Numbers(c) /\ Cardinality(DOMAIN c) = n /\ DOMAIN c = DOMAIN a \ {x}
        /\ \A y \in DOMAIN a \ {x} : c[y] = a[y]
    BY <2>1, <2>4, WithoutIsSmaller
  <2>6. Total(c) \in Nat
    BY <1>2, <2>1, <2>5
  <2>7. Total(a) = a[x] + Total(c) /\ a[x] \in Nat
    BY <2>1, <2>3, <2>4, TotalSplit DEF Numbers
  <2>8. QED
    BY <2>6, <2>7
<1>3. \A n \in Nat : n \in P
  <2> HIDE DEF P
  <2>1. QED
    BY <1>1, <1>2, NumberInduction, Zenon
<1>4. Cardinality(DOMAIN f) \in Nat
  BY FS_CardinalityType DEF Numbers
<1>5. QED
  BY <1>3, <1>4

LEMMA TotalIsPositive ==
    ASSUME NEW f, Numbers(f), NEW x \in DOMAIN f, f[x] > 0, \A y \in DOMAIN f : f[y] >= 0
    PROVE  Total(f) \in Nat \ {0}
<1>1. PICK g : g = Without(f, x)
  OBVIOUS
<1>2. Numbers(g) /\ \A y \in DOMAIN g : g[y] >= 0
  <2>1. /\ Numbers(Without(f, x)) /\ DOMAIN Without(f, x) = DOMAIN f \ {x}
        /\ \A y \in DOMAIN f \ {x} : Without(f, x)[y] = f[y]
    BY WithoutIsNumbers
  <2>2. DOMAIN g = DOMAIN f \ {x} /\ \A y \in DOMAIN f \ {x} : g[y] = f[y]
    BY <1>1, <2>1
  <2>3. QED
    BY <1>1, <2>1, <2>2
<1>3. Total(g) \in Nat /\ Total(f) = f[x] + Total(g)
  BY <1>1, <1>2, TotalIsNat, TotalSplit
<1>4. QED
  BY <1>3 DEF Numbers

\* One member more.
LEMMA TotalExtended ==
    ASSUME NEW f, Numbers(f), NEW S, NEW x, x \notin S, DOMAIN f = S \cup {x}
    PROVE  Total(f) = f[x] + Total([y \in S |-> f[y]])
<1>1. DOMAIN f \ {x} = S
  OBVIOUS
<1>2. Without(f, x) = [y \in S |-> f[y]]
  BY <1>1 DEF Without
<1>3. QED
  BY <1>2, TotalSplit

-----------------------------------------------------------------------------
(* Prices and ticks.                                                       *)

LEMMA Division ==
    ASSUME NEW a \in Int, NEW b \in Nat \ {0}
    PROVE  /\ a \div b \in Int
           /\ (a \div b) * b <= a /\ a < (a \div b + 1) * b
<1>1. a \div b \in Int
  OBVIOUS
<1>2. (a \div b) * b <= a
  OBVIOUS
<1>3. a < (a \div b + 1) * b
  OBVIOUS
<1>4. QED
  BY <1>1, <1>2, <1>3

LEMMA Cancelled ==
    ASSUME NEW a \in Int, NEW b \in Int, NEW w \in Nat \ {0}, a * w < b * w
    PROVE  a < b
<1>1. SUFFICES ASSUME a >= b PROVE FALSE
  OBVIOUS
<1>2. (a - b) * w >= 0
  BY <1>1
<1>3. (a - b) * w = a * w - b * w
  OBVIOUS
<1>4. QED
  BY <1>2, <1>3

\* The table of ticks, as a chain of cases.
LEMMA TickIs ==
    ASSUME NEW n \in Int, NEW d \in Nat \ {0}
    PROVE  Tick(n, d) = IF n < 2000 * d THEN 1 ELSE IF n < 5000 * d THEN 5
                        ELSE IF n < 20000 * d THEN 10 ELSE IF n < 50000 * d THEN 50
                        ELSE IF n < 200000 * d THEN 100 ELSE IF n < 500000 * d THEN 500 ELSE 1000
<1> DEFINE below == {i \in DOMAIN Ticks : n < Ticks[i][1] * d}
<1>1. DOMAIN Ticks = 1..6
  BY DEF Ticks
<1>2. /\ Ticks[1] = <<2000, 1>> /\ Ticks[2] = <<5000, 5>> /\ Ticks[3] = <<20000, 10>>
      /\ Ticks[4] = <<50000, 50>> /\ Ticks[5] = <<200000, 100>> /\ Ticks[6] = <<500000, 500>>
  BY DEF Ticks
<1>3. \A m \in below : (\A k \in below : m <= k) => Min(below) = m
  <2>1. TAKE m \in below
  <2>2. HAVE \A k \in below : m <= k
  <2>3. Min(below) \in below /\ \A k \in below : Min(below) <= k
    BY <2>2 DEF Min
  <2>4. m \in 1..6 /\ Min(below) \in 1..6
    BY <1>1, <2>3
  <2>5. Min(below) <= m /\ m <= Min(below)
    <3> HIDE DEF below
    <3>1. QED
      BY <2>2, <2>3
  <2>6. QED
    BY <2>4, <2>5
<1>4. \A i \in 1..6 : i \in below <=> n < Ticks[i][1] * d
  BY <1>1
<1>5. below \subseteq 1..6
  BY <1>1
<1>6. Tick(n, d) = IF below = {} THEN 1000 ELSE Ticks[Min(below)][2]
  BY DEF Tick
<1> HIDE DEF below
<1>7. /\ 1 \in below <=> n < 2000 * d
      /\ 2 \in below <=> n < 5000 * d
      /\ 3 \in below <=> n < 20000 * d
      /\ 4 \in below <=> n < 50000 * d
      /\ 5 \in below <=> n < 200000 * d
      /\ 6 \in below <=> n < 500000 * d
  BY <1>2, <1>4
<1>8. CASE n < 2000 * d
  <2>1. Min(below) = 1
    BY <1>3, <1>5, <1>7, <1>8
  <2>2. QED
    BY <1>2, <1>6, <1>7, <1>8, <2>1
<1>9. CASE ~(n < 2000 * d) /\ n < 5000 * d
  <2>1. Min(below) = 2
    BY <1>3, <1>5, <1>7, <1>9
  <2>2. QED
    BY <1>2, <1>6, <1>7, <1>9, <2>1
<1>10. CASE ~(n < 5000 * d) /\ n < 20000 * d
  <2>1. 1 \notin below
    BY <1>7, <1>10
  <2>2. Min(below) = 3
    BY <1>3, <1>5, <1>7, <1>10, <2>1
  <2>3. QED
    BY <1>2, <1>6, <1>7, <1>10, <2>1, <2>2
<1>11. CASE ~(n < 20000 * d) /\ n < 50000 * d
  <2>1. 1 \notin below /\ 2 \notin below
    BY <1>7, <1>11
  <2>2. Min(below) = 4
    BY <1>3, <1>5, <1>7, <1>11, <2>1
  <2>3. QED
    BY <1>2, <1>6, <1>7, <1>11, <2>1, <2>2
<1>12. CASE ~(n < 50000 * d) /\ n < 200000 * d
  <2>1. 1 \notin below /\ 2 \notin below /\ 3 \notin below
    BY <1>7, <1>12
  <2>2. Min(below) = 5
    BY <1>3, <1>5, <1>7, <1>12, <2>1
  <2>3. QED
    BY <1>2, <1>6, <1>7, <1>12, <2>1, <2>2
<1>13. CASE ~(n < 200000 * d) /\ n < 500000 * d
  <2>1. 1 \notin below /\ 2 \notin below /\ 3 \notin below /\ 4 \notin below
    BY <1>7, <1>13
  <2>2. Min(below) = 6
    BY <1>3, <1>5, <1>7, <1>13, <2>1
  <2>3. QED
    BY <1>2, <1>6, <1>7, <1>13, <2>1, <2>2
<1>14. CASE ~(n < 500000 * d)
  <2>1. below = {}
    <3>1. \A i \in 1..6 : i \notin below
      BY <1>7, <1>14
    <3>2. QED
      BY <1>5, <3>1
  <2>2. QED
    BY <1>6, <1>14, <2>1
<1>15. QED
  BY <1>8, <1>9, <1>10, <1>11, <1>12, <1>13, <1>14

\* q steps of t is the highest price of the grid that the bound n / w allows.
OnGrid(q, t, w, n) ==
    /\ q \in Int /\ (q * t) * w <= n /\ n < (q * t + t) * w
    /\ \A m \in Int : (m * t) * w <= n => m <= q
    /\ \A m \in Int : n < m * w => q * t < m

LEMMA GridIs ==
    ASSUME NEW w \in Nat \ {0}, NEW bound \in Int, NEW t \in Nat \ {0}, NEW q \in Int,
           q * (t * w) <= bound, bound < (q + 1) * (t * w)
    PROVE  OnGrid(q, t, w, bound)
<1>1. t * w \in Nat \ {0}
  OBVIOUS
<1>2. q * (t * w) = (q * t) * w
  OBVIOUS
<1>3. (q + 1) * (t * w) = (q * t + t) * w
  OBVIOUS
<1>4. ASSUME NEW m \in Int, (m * t) * w <= bound PROVE m <= q
  <2>1. m * (t * w) = (m * t) * w
    OBVIOUS
  <2>2. m * (t * w) \in Int /\ (q + 1) * (t * w) \in Int
    OBVIOUS
  <2>3. m * (t * w) < (q + 1) * (t * w)
    BY <1>4, <2>1, <2>2
  <2>4. m < q + 1
    BY <1>1, <2>3, Cancelled
  <2>5. QED
    BY <2>4
<1>5. ASSUME NEW m \in Int, bound < m * w PROVE q * t < m
  <2>1. q * t \in Int /\ (q * t) * w \in Int /\ m * w \in Int
    OBVIOUS
  <2>2. (q * t) * w < m * w
    BY <1>2, <1>5, <2>1
  <2>3. QED
    BY <2>1, <2>2, Cancelled
<1>6. QED
  BY <1>2, <1>3, <1>4, <1>5 DEF OnGrid

LEMMA DownToGrid ==
    ASSUME NEW w \in Nat \ {0}, NEW bound \in Int, NEW t \in Nat \ {0}, NEW q,
           q = bound \div (t * w)
    PROVE  OnGrid(q, t, w, bound)
<1>1. PICK u \in Nat \ {0} : u = t * w
  OBVIOUS
<1>2. bound \div u \in Int /\ (bound \div u) * u <= bound /\ bound < (bound \div u + 1) * u
  BY Division, Zenon
<1>3. q = bound \div u
  BY <1>1, Zenon
<1>4. q \in Int /\ q * (t * w) <= bound /\ bound < (q + 1) * (t * w)
  BY <1>1, <1>2, <1>3, Zenon
<1>5. QED
  BY <1>4, GridIs, Zenon

\* A bound of a tier, brought down to the grid of the tier, stays in it.
LEMMA TierKept ==
    ASSUME NEW w \in Nat \ {0}, NEW n \in Int, NEW t \in Nat \ {0}, NEW q, OnGrid(q, t, w, n),
           NEW k \in Int, (k * t) * w <= n, NEW high \in Int, n < high * w
    PROVE  q \in Int /\ q * t \in Int /\ k * t <= q * t /\ q * t < high
<1>1. q \in Int /\ k <= q /\ q * t < high
  BY DEF OnGrid
<1>2. (q - k) * t >= 0
  BY <1>1
<1>3. (q - k) * t = q * t - k * t
  BY <1>1
<1>4. q * t \in Int /\ k * t \in Int
  BY <1>1
<1>5. QED
  BY <1>1, <1>2, <1>3, <1>4, SMT

LEMMA LowestTierKept ==
    ASSUME NEW w \in Nat \ {0}, NEW n \in Int, NEW t \in Nat \ {0}, NEW q, OnGrid(q, t, w, n),
           NEW high \in Int, n < high * w
    PROVE  q \in Int /\ q * t \in Int /\ q * t < high
BY DEF OnGrid

LEMMA HighestTierKept ==
    ASSUME NEW w \in Nat \ {0}, NEW n \in Int, NEW t \in Nat \ {0}, NEW q, OnGrid(q, t, w, n),
           NEW k \in Int, (k * t) * w <= n
    PROVE  q \in Int /\ q * t \in Int /\ k * t <= q * t
<1>1. q \in Int /\ k <= q
  BY DEF OnGrid
<1>2. (q - k) * t >= 0
  BY <1>1
<1>3. (q - k) * t = q * t - k * t
  BY <1>1
<1>4. q * t \in Int /\ k * t \in Int
  BY <1>1
<1>5. QED
  BY <1>1, <1>2, <1>3, <1>4, SMT

LEMMA GreaterOfTwo ==
    ASSUME NEW a \in Int, NEW b \in Int
    PROVE  Max({a, b}) = IF a >= b THEN a ELSE b
<1>1. PICK x \in {a, b} : \A y \in {a, b} : x >= y
  OBVIOUS
<1>2. Max({a, b}) \in {a, b} /\ \A y \in {a, b} : Max({a, b}) >= y
  BY <1>1 DEF Max
<1>3. QED
  BY <1>2

\* The limit of a buy: the bound brought down to its grid.
LEMMA BuyTickIsGrid ==
    ASSUME NEW w \in Nat \ {0}, NEW n \in Int, NEW t, t = Tick(n, w),
           NEW q, OnGrid(q, t, w, n)
    PROVE  (q * t) % Tick(q * t, 1) = 0 /\ Tick(q * t, 1) = t
<1>1. CASE n < 2000 * w
  <2>1. t = 1
    BY <1>1, TickIs, SMT
  <2>2. q \in Int /\ q * t \in Int /\ q * t < 2000
    BY <1>1, <2>1, LowestTierKept, SMT
  <2>3. Tick(q * t, 1) = 1
    BY <2>1, <2>2, TickIs, SMT
  <2>4. (q * 1) % 1 = 0
    BY <2>2, SMT
  <2>5. QED
    BY <2>1, <2>3, <2>4, SMT
<1>2. CASE ~(n < 2000 * w) /\ n < 5000 * w
  <2>1. t = 5
    BY <1>2, TickIs, SMT
  <2>2. (400 * t) * w <= n
    BY <1>2, <2>1, SMT
  <2>3. q \in Int /\ q * t \in Int /\ 400 * t <= q * t /\ q * t < 5000
    <3>1. PICK k \in Int : k = 400
      OBVIOUS
    <3>2. PICK high \in Int : high = 5000
      OBVIOUS
    <3>3. t \in Nat \ {0} /\ (k * t) * w <= n /\ n < high * w
      BY <1>2, <2>1, <2>2, <3>1, <3>2, SMT
    <3>4. q \in Int /\ q * t \in Int /\ k * t <= q * t /\ q * t < high
      BY <3>3, TierKept, Zenon
    <3>5. QED
      BY <3>1, <3>2, <3>4, SMT
  <2>4. Tick(q * t, 1) = 5
    BY <2>1, <2>3, TickIs, SMT
  <2>5. (q * 5) % 5 = 0
    BY <2>3, SMT
  <2>6. QED
    BY <2>1, <2>4, <2>5, SMT
<1>3. CASE ~(n < 5000 * w) /\ n < 20000 * w
  <2>1. t = 10
    BY <1>3, TickIs, SMT
  <2>2. (500 * t) * w <= n
    BY <1>3, <2>1, SMT
  <2>3. q \in Int /\ q * t \in Int /\ 500 * t <= q * t /\ q * t < 20000
    <3>1. PICK k \in Int : k = 500
      OBVIOUS
    <3>2. PICK high \in Int : high = 20000
      OBVIOUS
    <3>3. t \in Nat \ {0} /\ (k * t) * w <= n /\ n < high * w
      BY <1>3, <2>1, <2>2, <3>1, <3>2, SMT
    <3>4. q \in Int /\ q * t \in Int /\ k * t <= q * t /\ q * t < high
      BY <3>3, TierKept, Zenon
    <3>5. QED
      BY <3>1, <3>2, <3>4, SMT
  <2>4. Tick(q * t, 1) = 10
    BY <2>1, <2>3, TickIs, SMT
  <2>5. (q * 10) % 10 = 0
    BY <2>3, SMT
  <2>6. QED
    BY <2>1, <2>4, <2>5, SMT
<1>4. CASE ~(n < 20000 * w) /\ n < 50000 * w
  <2>1. t = 50
    BY <1>4, TickIs, SMT
  <2>2. (400 * t) * w <= n
    BY <1>4, <2>1, SMT
  <2>3. q \in Int /\ q * t \in Int /\ 400 * t <= q * t /\ q * t < 50000
    <3>1. PICK k \in Int : k = 400
      OBVIOUS
    <3>2. PICK high \in Int : high = 50000
      OBVIOUS
    <3>3. t \in Nat \ {0} /\ (k * t) * w <= n /\ n < high * w
      BY <1>4, <2>1, <2>2, <3>1, <3>2, SMT
    <3>4. q \in Int /\ q * t \in Int /\ k * t <= q * t /\ q * t < high
      BY <3>3, TierKept, Zenon
    <3>5. QED
      BY <3>1, <3>2, <3>4, SMT
  <2>4. Tick(q * t, 1) = 50
    BY <2>1, <2>3, TickIs, SMT
  <2>5. (q * 50) % 50 = 0
    BY <2>3, SMT
  <2>6. QED
    BY <2>1, <2>4, <2>5, SMT
<1>5. CASE ~(n < 50000 * w) /\ n < 200000 * w
  <2>1. t = 100
    BY <1>5, TickIs, SMT
  <2>2. (500 * t) * w <= n
    BY <1>5, <2>1, SMT
  <2>3. q \in Int /\ q * t \in Int /\ 500 * t <= q * t /\ q * t < 200000
    <3>1. PICK k \in Int : k = 500
      OBVIOUS
    <3>2. PICK high \in Int : high = 200000
      OBVIOUS
    <3>3. t \in Nat \ {0} /\ (k * t) * w <= n /\ n < high * w
      BY <1>5, <2>1, <2>2, <3>1, <3>2, SMT
    <3>4. q \in Int /\ q * t \in Int /\ k * t <= q * t /\ q * t < high
      BY <3>3, TierKept, Zenon
    <3>5. QED
      BY <3>1, <3>2, <3>4, SMT
  <2>4. Tick(q * t, 1) = 100
    BY <2>1, <2>3, TickIs, SMT
  <2>5. (q * 100) % 100 = 0
    BY <2>3, SMT
  <2>6. QED
    BY <2>1, <2>4, <2>5, SMT
<1>6. CASE ~(n < 200000 * w) /\ n < 500000 * w
  <2>1. t = 500
    BY <1>6, TickIs, SMT
  <2>2. (400 * t) * w <= n
    BY <1>6, <2>1, SMT
  <2>3. q \in Int /\ q * t \in Int /\ 400 * t <= q * t /\ q * t < 500000
    <3>1. PICK k \in Int : k = 400
      OBVIOUS
    <3>2. PICK high \in Int : high = 500000
      OBVIOUS
    <3>3. t \in Nat \ {0} /\ (k * t) * w <= n /\ n < high * w
      BY <1>6, <2>1, <2>2, <3>1, <3>2, SMT
    <3>4. q \in Int /\ q * t \in Int /\ k * t <= q * t /\ q * t < high
      BY <3>3, TierKept, Zenon
    <3>5. QED
      BY <3>1, <3>2, <3>4, SMT
  <2>4. Tick(q * t, 1) = 500
    BY <2>1, <2>3, TickIs, SMT
  <2>5. (q * 500) % 500 = 0
    BY <2>3, SMT
  <2>6. QED
    BY <2>1, <2>4, <2>5, SMT
<1>7. CASE ~(n < 500000 * w)
  <2>1. t = 1000
    BY <1>7, TickIs, SMT
  <2>2. (500 * t) * w <= n
    BY <1>7, <2>1, SMT
  <2>3. q \in Int /\ q * t \in Int /\ 500 * t <= q * t
    BY <2>1, <2>2, HighestTierKept, SMT
  <2>4. Tick(q * t, 1) = 1000
    BY <2>1, <2>3, TickIs, SMT
  <2>5. (q * 1000) % 1000 = 0
    BY <2>3, SMT
  <2>6. QED
    BY <2>1, <2>4, <2>5, SMT
<1>8. QED
  BY <1>1, <1>2, <1>3, <1>4, <1>5, <1>6, <1>7, SMT

\* The limit of a sell: the bound brought up to its grid, perhaps to the first
\* price of the next tier.
LEMMA SellTickDivides ==
    ASSUME NEW w \in Nat \ {0}, NEW n \in Int, NEW t, t = Tick(n, w), NEW b \in Int, b = -n,
           NEW q, OnGrid(q, t, w, b)
    PROVE  (-(q * t)) % Tick(-(q * t), 1) = 0
<1>1. CASE n < 2000 * w
  <2>1. t = 1
    BY <1>1, TickIs, SMT
  <2>2. ((-2000) * t) * w <= b
    BY <1>1, <2>1, SMT
  <2>3. q \in Int /\ q * t \in Int /\ (-2000) * t <= q * t
    BY <2>1, <2>2, HighestTierKept, SMT
  <2>4. (-(q * 1)) % 1 = 0
    BY <2>3, SMT
  <2>5. CASE -(q * t) < 2000
    <3>1. Tick(-(q * t), 1) = 1
      BY <2>1, <2>3, <2>5, TickIs, SMT
    <3>2. QED
      BY <2>1, <2>4, <3>1, SMT
  <2>6. CASE -(q * t) = 2000
    <3>1. Tick(2000, 1) = 5
      BY TickIs, SMT
    <3>2. 2000 % 5 = 0
      BY SMT
    <3>3. QED
      BY <2>6, <3>1, <3>2, SMT
  <2>7. QED
    BY <2>1, <2>3, <2>5, <2>6, SMT
<1>2. CASE ~(n < 2000 * w) /\ n < 5000 * w
  <2>1. t = 5
    BY <1>2, TickIs, SMT
  <2>2. ((-1000) * t) * w <= b
    BY <1>2, <2>1, SMT
  <2>3. b < (-1999) * w
    BY <1>2, SMT
  <2>4. q \in Int /\ q * t \in Int /\ (-1000) * t <= q * t /\ q * t < -1999
    <3>1. PICK k \in Int : k = (-1000)
      OBVIOUS
    <3>2. PICK high \in Int : high = -1999
      OBVIOUS
    <3>3. t \in Nat \ {0} /\ (k * t) * w <= b /\ b < high * w
      BY <2>1, <2>2, <2>3, <3>1, <3>2, SMT
    <3>4. q \in Int /\ q * t \in Int /\ k * t <= q * t /\ q * t < high
      BY <3>3, TierKept, Zenon
    <3>5. QED
      BY <3>1, <3>2, <3>4, SMT
  <2>5. (-(q * 5)) % 5 = 0
    BY <2>4, SMT
  <2>6. CASE -(q * t) < 5000
    <3>1. Tick(-(q * t), 1) = 5
      BY <2>1, <2>4, <2>6, TickIs, SMT
    <3>2. QED
      BY <2>1, <2>5, <3>1, SMT
  <2>7. CASE -(q * t) = 5000
    <3>1. Tick(5000, 1) = 10
      BY TickIs, SMT
    <3>2. 5000 % 10 = 0
      BY SMT
    <3>3. QED
      BY <2>7, <3>1, <3>2, SMT
  <2>8. QED
    BY <2>1, <2>4, <2>6, <2>7, SMT
<1>3. CASE ~(n < 5000 * w) /\ n < 20000 * w
  <2>1. t = 10
    BY <1>3, TickIs, SMT
  <2>2. ((-2000) * t) * w <= b
    BY <1>3, <2>1, SMT
  <2>3. b < (-4999) * w
    BY <1>3, SMT
  <2>4. q \in Int /\ q * t \in Int /\ (-2000) * t <= q * t /\ q * t < -4999
    <3>1. PICK k \in Int : k = (-2000)
      OBVIOUS
    <3>2. PICK high \in Int : high = -4999
      OBVIOUS
    <3>3. t \in Nat \ {0} /\ (k * t) * w <= b /\ b < high * w
      BY <2>1, <2>2, <2>3, <3>1, <3>2, SMT
    <3>4. q \in Int /\ q * t \in Int /\ k * t <= q * t /\ q * t < high
      BY <3>3, TierKept, Zenon
    <3>5. QED
      BY <3>1, <3>2, <3>4, SMT
  <2>5. (-(q * 10)) % 10 = 0
    BY <2>4, SMT
  <2>6. CASE -(q * t) < 20000
    <3>1. Tick(-(q * t), 1) = 10
      BY <2>1, <2>4, <2>6, TickIs, SMT
    <3>2. QED
      BY <2>1, <2>5, <3>1, SMT
  <2>7. CASE -(q * t) = 20000
    <3>1. Tick(20000, 1) = 50
      BY TickIs, SMT
    <3>2. 20000 % 50 = 0
      BY SMT
    <3>3. QED
      BY <2>7, <3>1, <3>2, SMT
  <2>8. QED
    BY <2>1, <2>4, <2>6, <2>7, SMT
<1>4. CASE ~(n < 20000 * w) /\ n < 50000 * w
  <2>1. t = 50
    BY <1>4, TickIs, SMT
  <2>2. ((-1000) * t) * w <= b
    BY <1>4, <2>1, SMT
  <2>3. b < (-19999) * w
    BY <1>4, SMT
  <2>4. q \in Int /\ q * t \in Int /\ (-1000) * t <= q * t /\ q * t < -19999
    <3>1. PICK k \in Int : k = (-1000)
      OBVIOUS
    <3>2. PICK high \in Int : high = -19999
      OBVIOUS
    <3>3. t \in Nat \ {0} /\ (k * t) * w <= b /\ b < high * w
      BY <2>1, <2>2, <2>3, <3>1, <3>2, SMT
    <3>4. q \in Int /\ q * t \in Int /\ k * t <= q * t /\ q * t < high
      BY <3>3, TierKept, Zenon
    <3>5. QED
      BY <3>1, <3>2, <3>4, SMT
  <2>5. (-(q * 50)) % 50 = 0
    BY <2>4, SMT
  <2>6. CASE -(q * t) < 50000
    <3>1. Tick(-(q * t), 1) = 50
      BY <2>1, <2>4, <2>6, TickIs, SMT
    <3>2. QED
      BY <2>1, <2>5, <3>1, SMT
  <2>7. CASE -(q * t) = 50000
    <3>1. Tick(50000, 1) = 100
      BY TickIs, SMT
    <3>2. 50000 % 100 = 0
      BY SMT
    <3>3. QED
      BY <2>7, <3>1, <3>2, SMT
  <2>8. QED
    BY <2>1, <2>4, <2>6, <2>7, SMT
<1>5. CASE ~(n < 50000 * w) /\ n < 200000 * w
  <2>1. t = 100
    BY <1>5, TickIs, SMT
  <2>2. ((-2000) * t) * w <= b
    BY <1>5, <2>1, SMT
  <2>3. b < (-49999) * w
    BY <1>5, SMT
  <2>4. q \in Int /\ q * t \in Int /\ (-2000) * t <= q * t /\ q * t < -49999
    <3>1. PICK k \in Int : k = (-2000)
      OBVIOUS
    <3>2. PICK high \in Int : high = -49999
      OBVIOUS
    <3>3. t \in Nat \ {0} /\ (k * t) * w <= b /\ b < high * w
      BY <2>1, <2>2, <2>3, <3>1, <3>2, SMT
    <3>4. q \in Int /\ q * t \in Int /\ k * t <= q * t /\ q * t < high
      BY <3>3, TierKept, Zenon
    <3>5. QED
      BY <3>1, <3>2, <3>4, SMT
  <2>5. (-(q * 100)) % 100 = 0
    BY <2>4, SMT
  <2>6. CASE -(q * t) < 200000
    <3>1. Tick(-(q * t), 1) = 100
      BY <2>1, <2>4, <2>6, TickIs, SMT
    <3>2. QED
      BY <2>1, <2>5, <3>1, SMT
  <2>7. CASE -(q * t) = 200000
    <3>1. Tick(200000, 1) = 500
      BY TickIs, SMT
    <3>2. 200000 % 500 = 0
      BY SMT
    <3>3. QED
      BY <2>7, <3>1, <3>2, SMT
  <2>8. QED
    BY <2>1, <2>4, <2>6, <2>7, SMT
<1>6. CASE ~(n < 200000 * w) /\ n < 500000 * w
  <2>1. t = 500
    BY <1>6, TickIs, SMT
  <2>2. ((-1000) * t) * w <= b
    BY <1>6, <2>1, SMT
  <2>3. b < (-199999) * w
    BY <1>6, SMT
  <2>4. q \in Int /\ q * t \in Int /\ (-1000) * t <= q * t /\ q * t < -199999
    <3>1. PICK k \in Int : k = (-1000)
      OBVIOUS
    <3>2. PICK high \in Int : high = -199999
      OBVIOUS
    <3>3. t \in Nat \ {0} /\ (k * t) * w <= b /\ b < high * w
      BY <2>1, <2>2, <2>3, <3>1, <3>2, SMT
    <3>4. q \in Int /\ q * t \in Int /\ k * t <= q * t /\ q * t < high
      BY <3>3, TierKept, Zenon
    <3>5. QED
      BY <3>1, <3>2, <3>4, SMT
  <2>5. (-(q * 500)) % 500 = 0
    BY <2>4, SMT
  <2>6. CASE -(q * t) < 500000
    <3>1. Tick(-(q * t), 1) = 500
      BY <2>1, <2>4, <2>6, TickIs, SMT
    <3>2. QED
      BY <2>1, <2>5, <3>1, SMT
  <2>7. CASE -(q * t) = 500000
    <3>1. Tick(500000, 1) = 1000
      BY TickIs, SMT
    <3>2. 500000 % 1000 = 0
      BY SMT
    <3>3. QED
      BY <2>7, <3>1, <3>2, SMT
  <2>8. QED
    BY <2>1, <2>4, <2>6, <2>7, SMT
<1>7. CASE ~(n < 500000 * w)
  <2>1. t = 1000
    BY <1>7, TickIs, SMT
  <2>2. b < (-499999) * w
    BY <1>7, SMT
  <2>3. q \in Int /\ q * t \in Int /\ q * t < -499999
    BY <2>1, <2>2, LowestTierKept, SMT
  <2>4. (-(q * 1000)) % 1000 = 0
    BY <2>3, SMT
  <2>5. Tick(-(q * t), 1) = 1000
    BY <2>1, <2>3, TickIs, SMT
  <2>6. QED
    BY <2>1, <2>4, <2>5, SMT
<1>8. QED
  BY <1>1, <1>2, <1>3, <1>4, <1>5, <1>6, <1>7, SMT

LEMMA TickIsPositive ==
    ASSUME NEW n \in Int, NEW d \in Nat \ {0}
    PROVE  Tick(n, d) \in Nat \ {0}
BY TickIs, SMT

LEMMA BuyLimitIsOnGrid ==
    ASSUME NEW w \in Nat \ {0}, NEW n \in Int, NEW t, t = Tick(n, w), NEW q, q = n \div (t * w)
    PROVE  /\ q * t \in Int /\ (q * t) % Tick(q * t, 1) = 0
           /\ (q * t) * w <= n /\ n < (q * t + Tick(q * t, 1)) * w
<1>1. t \in Nat \ {0}
  BY TickIsPositive, Zenon
<1>2. OnGrid(q, t, w, n)
  BY <1>1, DownToGrid, Zenon
<1>3. (q * t) % Tick(q * t, 1) = 0 /\ Tick(q * t, 1) = t
  BY <1>2, BuyTickIsGrid
<1>4. q \in Int /\ (q * t) * w <= n /\ n < (q * t + t) * w
  BY <1>2, Zenon DEF OnGrid
<1>5. ASSUME NEW x \in Int, NEW y \in Nat \ {0} PROVE x * y \in Int
  OBVIOUS
<1>6. QED
  BY <1>1, <1>3, <1>4, <1>5, Zenon

LEMMA SellLimitIsOnGrid ==
    ASSUME NEW w \in Nat \ {0}, NEW n \in Int, NEW t, t = Tick(n, w), NEW q, q = (-n) \div (t * w)
    PROVE  /\ q * t \in Int /\ (-(q * t)) % Tick(-(q * t), 1) = 0
           /\ (q * t) * w <= -n
<1>0. PICK b \in Int : b = -n
  OBVIOUS
<1>1. t \in Nat \ {0}
  BY TickIsPositive, Zenon
<1>2. OnGrid(q, t, w, b)
  BY <1>0, <1>1, DownToGrid, Zenon
<1>3. (-(q * t)) % Tick(-(q * t), 1) = 0
  BY <1>0, <1>2, SellTickDivides, Zenon
<1>4. q \in Int /\ (q * t) * w <= b
  BY <1>2, Zenon DEF OnGrid
<1>5. ASSUME NEW x \in Int, NEW y \in Nat \ {0} PROVE x * y \in Int
  OBVIOUS
<1>6. QED
  BY <1>0, <1>1, <1>3, <1>4, <1>5, Zenon

-----------------------------------------------------------------------------
(* The invariant.                                                          *)

Phases == {"snapshot", "allocate", "shares", "buys", "sent"}
Positive == Nat \ {0}

\* The account and what is computed from it.
AccountInv ==
    /\ targets \in Portfolios /\ quotes \in Quotes
    /\ cash \in Int /\ held \in [Codes -> Nat] /\ left \in 1..FirstLeft
    /\ step \in Phases
    /\ locked \subseteq Kept \cap Holding
    /\ budget \in Nat

WeightsInv == weights \in [DOMAIN weights -> Positive] /\ DOMAIN weights \subseteq Kept \cap Priced

SharesInv ==
    /\ DOMAIN budgets \subseteq Kept \cap Priced
    /\ budgets \in [DOMAIN budgets -> Positive] /\ shares \in [DOMAIN budgets -> Positive]
    /\ extra \in [DOMAIN budgets -> Nat]
    /\ step \in {"snapshot", "allocate"} => DOMAIN budgets = {}

\* An order as the function makes it: its limit follows from its stock and side.
Made(o) ==
    /\ o.code \in Priced /\ o.side \in {"buy", "sell"} /\ o.quantity \in Positive
    /\ o = Order(o.code, o.side, o.quantity)

BuysOf(S) == {o \in S : o.side = "buy"}
Spent(S) == Total([o \in BuysOf(S) |-> o.quantity * Cost(o)])

\* One order or buy per stock; what is spent and what is left are the cash.
PlacedInv ==
    /\ \A o \in orders \cup buys : Made(o)
    /\ \A o, p \in orders : o.code = p.code => o = p
    /\ \A o, p \in buys : o.code = p.code => o = p
    /\ \A o \in orders, p \in buys : o.code # p.code
    /\ \A o \in buys : o.side = "buy"
    /\ \A o \in orders : o.side = "sell" =>
        /\ o.quantity <= held[o.code]
        /\ targets[o.code].role = "kept" =>
               (held[o.code] - o.quantity + 1) * Price(o.code) > budgets[o.code]
    /\ step \notin {"buys", "sent"} => orders = {} /\ buys = {}
    /\ step \in {"buys", "sent"} => Spent(orders) + budget = Spendable

RebalanceInv == AccountInv /\ WeightsInv /\ SharesInv /\ SharesUseBudgets /\ PlacedInv

LEMMA Product ==
    ASSUME NEW a \in Positive, NEW b \in Positive
    PROVE  a * b \in Positive
<1>1. a * b \in Int /\ a * b > 0
  BY DEF Positive
<1>2. QED
  BY <1>1 DEF Positive

LEMMA PricesAreKnown ==
    ASSUME AccountInv
    PROVE  /\ \A c \in Priced : /\ c \in Codes /\ quotes[c] \in Quote /\ Price(c) \in Positive
                                /\ Ask(c) \in Positive /\ Ask(c) = Price(c) * (100 + Buffer)
           /\ Priced \subseteq Codes /\ Kept \subseteq Codes /\ Holding \subseteq Codes
           /\ \A c \in Codes : targets[c].weight \in Nat
           /\ \A c \in Codes : held[c] \in Nat
<1>1. quotes \in [Codes -> Quote \cup {NoQuote}] /\ NoQuote \notin Quote
  BY RebalanceAssumption DEF AccountInv
<1>2. ASSUME NEW c \in Priced
      PROVE  /\ c \in Codes /\ quotes[c] \in Quote /\ Price(c) \in Positive
             /\ Ask(c) \in Positive /\ Ask(c) = Price(c) * (100 + Buffer)
  <2>1. c \in Codes /\ quotes[c] \in Quote
    BY <1>1, <1>2 DEF Priced
  <2>2. Price(c) \in Positive
    BY <2>1 DEF Quote, Price, Positive
  <2>3. 100 + Buffer \in Positive
    BY RebalanceAssumption DEF Positive
  <2>4. Price(c) * (100 + Buffer) \in Positive
    BY <2>2, <2>3, Product
  <2>5. QED
    BY <2>1, <2>2, <2>4 DEF Ask
<1>3. targets \in [Codes -> [role : {"kept", "exiting", "leftover", "unknown"}, weight : Nat]]
  BY RebalanceAssumption DEF AccountInv
<1>4. \A c \in Codes : targets[c].weight \in Nat
  BY <1>3
<1>5. Priced \subseteq Codes /\ Kept \subseteq Codes /\ Holding \subseteq Codes
  BY DEF Priced, Kept, Holding
<1>6. \A c \in Codes : held[c] \in Nat
  BY DEF AccountInv
<1>7. QED
  BY <1>2, <1>4, <1>5, <1>6

\* Codes are finite, and so is every set of them.
LEMMA NumbersOfCodes ==
    ASSUME NEW f, DOMAIN f \subseteq Codes, f = [c \in DOMAIN f |-> f[c]], \A c \in DOMAIN f : f[c] \in Int
    PROVE  Numbers(f)
BY RebalanceAssumption, FS_Subset DEF Numbers

LEMMA CapitalIsInt ==
    ASSUME AccountInv
    PROVE  Capital \in Int /\ Investable \in Int
<1>1. PICK f : f = [c \in (Holding \cap Priced) \ locked |-> held[c] * Price(c)]
  OBVIOUS
<1>2. \A c \in DOMAIN f : f[c] \in Int
  BY <1>1, PricesAreKnown DEF Positive
<1>3. DOMAIN f \subseteq Codes /\ f = [c \in DOMAIN f |-> f[c]]
  BY <1>1, PricesAreKnown
<1>4. Total(f) \in Int
  BY <1>2, <1>3, NumbersOfCodes, TotalIsInt
<1>5. Capital \in Int
  BY <1>1, <1>4 DEF Capital, AccountInv
<1>6. PICK g : g = [c \in Kept \cap Priced |-> targets[c].weight]
  OBVIOUS
<1>7. DOMAIN g \subseteq Codes /\ g = [c \in DOMAIN g |-> g[c]] /\ \A c \in DOMAIN g : g[c] \in Int
  BY <1>6, PricesAreKnown
<1>8. Total(g) \in Int
  BY <1>7, NumbersOfCodes, TotalIsInt
<1>9. QED
  BY <1>5, <1>6, <1>8 DEF Investable

LEMMA RoundedIsInt ==
    ASSUME NEW a \in Int, NEW b \in Positive
    PROVE  Rounded(a, b) \in Int
<1>1. a \div b \in Int
  BY Division DEF Positive
<1>2. QED
  BY <1>1 DEF Rounded

\* The weights of an iteration give whole budgets.
LEMMA BudgetsAreInts ==
    ASSUME AccountInv, WeightsInv
    PROVE  DOMAIN Budgets = DOMAIN weights /\ Budgets = [c \in DOMAIN weights |-> Budgets[c]]
           /\ \A c \in DOMAIN weights : Budgets[c] \in Int
<1>1. DOMAIN weights \subseteq Codes /\ Numbers(weights)
  BY NumbersOfCodes, PricesAreKnown DEF WeightsInv, Positive
<1>2. ASSUME NEW c \in DOMAIN weights PROVE Budgets[c] \in Int
  <2>1. Total(weights) \in Positive
    BY <1>1, <1>2, TotalIsPositive DEF WeightsInv, Positive
  <2>2. 100 * Total(weights) \in Positive /\ Investable * weights[c] \in Int
    BY <2>1, CapitalIsInt DEF WeightsInv, Positive
  <2>3. Budgets[c] = Rounded(Investable * weights[c], 100 * Total(weights))
    BY DEF Budgets
  <2>4. QED
    BY <2>2, <2>3, RoundedIsInt
<1>3. QED
  BY <1>2 DEF Budgets

LEMMA FirstWeightsAreWeights ==
    ASSUME AccountInv, NEW lock
    PROVE  FirstWeights(lock) \in [DOMAIN FirstWeights(lock) -> Positive]
           /\ DOMAIN FirstWeights(lock) \subseteq Kept \cap Priced
<1>1. \A c \in Sharing(lock) : c \in Kept \cap Priced /\ targets[c].weight \in Positive
  BY PricesAreKnown DEF Sharing, Positive
<1>2. QED
  BY <1>1 DEF FirstWeights

\* A limit is on its grid and on the cautious side of its bound.
LEMMA LimitIsTradable ==
    ASSUME AccountInv, NEW q \in Quote
    PROVE  /\ Limit("buy", q) \in Positive /\ Limit("sell", q) \in Int
           /\ Limit("buy", q) % Tick(Limit("buy", q), 1) = 0
           /\ \/ Limit("buy", q) = 1
              \/ /\ Limit("buy", q) * WeekRuns <= Lower(q)
                 /\ (Limit("buy", q) + Tick(Limit("buy", q), 1)) * WeekRuns > Lower(q)
           /\ Limit("sell", q) % Tick(Limit("sell", q), 1) = 0
           /\ Limit("sell", q) * WeekRuns >= Upper(q)
<1>1. WeekRuns \in Nat \ {0} /\ left \in Int
  BY RebalanceAssumption DEF AccountInv
<1>2. Lower(q) \in Int /\ Upper(q) \in Int
  BY <1>1 DEF Lower, Upper, Quote
<1>3. PICK lower \in Int : lower = Lower(q)
  BY <1>2
<1>4. PICK upper \in Int : upper = Upper(q)
  BY <1>2
<1>5. PICK t : t = Tick(lower, WeekRuns)
  OBVIOUS
<1>6. PICK d : d = lower \div (t * WeekRuns)
  OBVIOUS
<1>7. /\ d * t \in Int /\ (d * t) % Tick(d * t, 1) = 0
      /\ (d * t) * WeekRuns <= lower /\ lower < (d * t + Tick(d * t, 1)) * WeekRuns
  BY <1>1, <1>5, <1>6, BuyLimitIsOnGrid, Zenon
<1>8. PICK u : u = Tick(upper, WeekRuns)
  OBVIOUS
<1>9. PICK e : e = (-upper) \div (u * WeekRuns)
  OBVIOUS
<1>10. /\ e * u \in Int /\ (-(e * u)) % Tick(-(e * u), 1) = 0
       /\ (e * u) * WeekRuns <= -upper
  BY <1>1, <1>8, <1>9, SellLimitIsOnGrid, Zenon
<1>11. Limit("buy", q) = Max({d * t, 1}) /\ Limit("sell", q) = -e * u
  BY <1>3, <1>4, <1>5, <1>6, <1>8, <1>9, Zenon DEF Limit
<1>12. PICK l \in Int : l = d * t
  BY <1>7
<1>13. /\ Limit("buy", q) \in Positive
       /\ Limit("buy", q) % Tick(Limit("buy", q), 1) = 0
       /\ \/ Limit("buy", q) = 1
          \/ /\ Limit("buy", q) * WeekRuns <= Lower(q)
             /\ (Limit("buy", q) + Tick(Limit("buy", q), 1)) * WeekRuns > Lower(q)
  <2>1. Limit("buy", q) = IF l >= 1 THEN l ELSE 1
    BY <1>11, <1>12, GreaterOfTwo
  <2>2. CASE l >= 1
    <3>1. Limit("buy", q) = l
      BY <2>1, <2>2
    <3>2. l % Tick(l, 1) = 0 /\ l * WeekRuns <= lower /\ lower < (l + Tick(l, 1)) * WeekRuns
      BY <1>7, <1>12
    <3>3. l \in Positive
      BY <2>2 DEF Positive
    <3>4. Tick(l, 1) \in Int
      BY TickIsPositive
    <3>5. (l + Tick(l, 1)) * WeekRuns > lower
      BY <1>1, <3>2, <3>4
    <3>6. QED
      BY <1>3, <3>1, <3>2, <3>3, <3>5
  <2>3. CASE ~(l >= 1)
    <3>1. Limit("buy", q) = 1
      BY <2>1, <2>3
    <3>2. Tick(1, 1) = 1
      BY TickIs
    <3>3. 1 % 1 = 0 /\ 1 \in Positive
      BY DEF Positive
    <3>4. QED
      BY <3>1, <3>2, <3>3
  <2>4. QED
    BY <2>2, <2>3
<1>14. /\ Limit("sell", q) \in Int
       /\ Limit("sell", q) % Tick(Limit("sell", q), 1) = 0
       /\ Limit("sell", q) * WeekRuns >= Upper(q)
  <2>1. PICK m \in Int : m = e * u
    BY <1>10
  <2>2. Limit("sell", q) = -m
    BY <1>11, <2>1
  <2>3. m * WeekRuns <= -upper /\ (-m) % Tick(-m, 1) = 0
    BY <1>10, <2>1
  <2>4. (-m) * WeekRuns >= upper
    BY <1>1, <2>3
  <2>5. QED
    BY <1>4, <2>2, <2>3, <2>4
<1>15. QED
  BY <1>13, <1>14

LEMMA OrderIsMade ==
    ASSUME AccountInv, NEW o, Made(o)
    PROVE  /\ o.code \in Priced /\ quotes[o.code] \in Quote /\ o.side \in {"buy", "sell"}
           /\ o.quantity \in Positive /\ o.limit \in Int
           /\ o.limit = IF AtMarket(o.side, quotes[o.code]) THEN 0 ELSE Limit(o.side, quotes[o.code])
           /\ o.side = "buy" => o.limit \in Nat
           /\ Cost(o) \in Int
           /\ o.side = "buy" => Cost(o) \in Positive
<1>1. o.code \in Priced /\ o.side \in {"buy", "sell"} /\ o.quantity \in Positive
  BY DEF Made
<1>2. quotes[o.code] \in Quote /\ Ask(o.code) \in Positive
  BY <1>1, PricesAreKnown
<1>3. o.limit = IF AtMarket(o.side, quotes[o.code]) THEN 0 ELSE Limit(o.side, quotes[o.code])
  BY DEF Made, Order
<1>4. o.limit \in Int /\ (o.side = "buy" => o.limit \in Nat)
  <2>1. Limit("buy", quotes[o.code]) \in Nat /\ Limit("sell", quotes[o.code]) \in Int
    BY <1>2, LimitIsTradable DEF Positive
  <2>2. QED
    BY <1>1, <1>3, <2>1
<1>5. Cost(o) \in Int /\ (o.side = "buy" => Cost(o) \in Positive)
  BY <1>2, <1>4 DEF Cost, Positive
<1>6. QED
  BY <1>1, <1>2, <1>3, <1>4, <1>5

\* There are as many orders as stocks, at most.
LEMMA OrdersAreFew ==
    ASSUME NEW S, \A o \in S : o.code \in Codes, \A o, p \in S : o.code = p.code => o = p
    PROVE  IsFiniteSet(S)
<1> DEFINE f == [o \in S |-> o.code]
<1>1. f \in Injection(S, Codes)
  BY DEF Injection, IsInjective
<1>2. QED
  BY <1>1, RebalanceAssumption, FS_Injection

-----------------------------------------------------------------------------
(* Its steps.                                                              *)

LEMMA NothingYet ==
    /\ DOMAIN <<>> = {} /\ \A S : <<>> \in [{} -> S]
OBVIOUS

LEMMA RebalanceStarts ==
    ASSUME RebalanceInit
    PROVE  RebalanceInv
<1>1. FirstLeft \in 1..FirstLeft /\ \A a \in Snapshots : a.cash \in Int /\ a.held \in [Codes -> Nat]
  BY RebalanceAssumption
<1>2. AccountInv
  BY <1>1 DEF RebalanceInit, AccountInv, Phases
<1>3. WeightsInv /\ SharesInv
  BY NothingYet DEF RebalanceInit, WeightsInv, SharesInv
<1>4. DOMAIN budgets = {} /\ step = "snapshot"
  BY NothingYet DEF RebalanceInit
<1>5. SharesUseBudgets
  BY <1>4 DEF SharesUseBudgets
<1>6. PlacedInv
  BY <1>4 DEF RebalanceInit, PlacedInv
<1>7. QED
  BY <1>2, <1>3, <1>5, <1>6 DEF RebalanceInv

\* What an action that leaves the snapshot alone keeps of the account.
LEMMA AccountKept ==
    ASSUME AccountInv, UNCHANGED input, step' \in Phases, locked' \subseteq Kept \cap Holding, budget' \in Nat
    PROVE  /\ AccountInv'
           /\ Kept' = Kept /\ Priced' = Priced /\ Holding' = Holding
           /\ \A c : Ask(c)' = Ask(c) /\ Price(c)' = Price(c)
<1>1. Kept' = Kept /\ Priced' = Priced /\ Holding' = Holding
  BY DEF input, Kept, Priced, Holding
<1>2. \A c : Ask(c)' = Ask(c) /\ Price(c)' = Price(c)
  BY DEF input, Ask, Price
<1>3. AccountInv'
  BY <1>1 DEF AccountInv, input
<1>4. QED
  BY <1>1, <1>2, <1>3

\* Orders and buys that stay are as sound as before.
LEMMA PlacedKept ==
    ASSUME PlacedInv, UNCHANGED <<input, budgets, buys, budget, orders>>,
           step' \in {"buys", "sent"} => step \in {"buys", "sent"},
           step \in {"buys", "sent"} => step' \in {"buys", "sent"}, step \in Phases, step' \in Phases
    PROVE  PlacedInv'
<1>1. \A o : Made(o)' <=> Made(o)
  BY DEF Made, Priced, Order, AtMarket, Limit, Lower, Upper, input
<1>2. \A S : BuysOf(S)' = BuysOf(S)
  BY DEF BuysOf
<1>3. \A o : Cost(o)' = Cost(o)
  BY DEF Cost, Ask, Price, input
<1>4. Spent(orders)' = Spent(orders)
  BY <1>3 DEF Spent, BuysOf
<1>5. Spendable' = Spendable
  BY DEF Spendable, input
<1>6. \A c : Price(c)' = Price(c)
  BY DEF Price, input
<1>7. QED
  BY <1>1, <1>4, <1>5, <1>6 DEF PlacedInv, input, Phases

LEMMA RunBegins ==
    ASSUME RebalanceInv, BeginRun
    PROVE  RebalanceInv'
<1>1. step' \in Phases /\ locked' \subseteq Kept \cap Holding /\ budget' \in Nat
  BY DEF BeginRun, Phases, RebalanceInv, AccountInv
<1>2. /\ AccountInv' /\ Kept' = Kept /\ Priced' = Priced
      /\ \A c : Ask(c)' = Ask(c) /\ Price(c)' = Price(c)
  BY <1>1, AccountKept DEF RebalanceInv, BeginRun
<1>3. WeightsInv'
  <2>1. /\ FirstWeights({}) \in [DOMAIN FirstWeights({}) -> Positive]
        /\ DOMAIN FirstWeights({}) \subseteq Kept \cap Priced
    BY FirstWeightsAreWeights DEF RebalanceInv
  <2>2. CASE Frozen
    <3>1. weights' = <<>>
      BY <2>2 DEF BeginRun
    <3>2. QED
      BY <3>1, NothingYet DEF WeightsInv
  <2>3. CASE ~Frozen
    <3>1. weights' = FirstWeights({})
      BY <2>3 DEF BeginRun
    <3>2. QED
      BY <1>2, <2>1, <3>1 DEF WeightsInv
  <2>4. QED
    BY <2>2, <2>3
<1>4. DOMAIN budgets = {} /\ budgets' = budgets /\ shares' = shares /\ extra' = extra
  BY DEF RebalanceInv, SharesInv, BeginRun
<1>5. SharesInv'
  BY <1>2, <1>4 DEF RebalanceInv, SharesInv
<1>6. SharesUseBudgets'
  <2>1. DOMAIN shares' = {} /\ DOMAIN budgets' = {}
    BY <1>4 DEF RebalanceInv, SharesInv
  <2>2. PICK f : f = [c \in DOMAIN shares' |-> shares'[c] * Ask(c)']
    OBVIOUS
  <2>3. Total(budgets') = 0 /\ Total(f) = 0
    BY <2>1, <2>2, TotalOfNone
  <2>4. Leftover' = 100 * Total(budgets') - Total(f)
    BY <2>2 DEF Leftover
  <2>5. Affordable' = {}
    BY <2>1 DEF Affordable
  <2>6. QED
    BY <2>1, <2>3, <2>4, <2>5 DEF SharesUseBudgets
<1>7. PlacedInv'
  BY <1>1, PlacedKept DEF RebalanceInv, BeginRun, AccountInv
<1>8. QED
  BY <1>2, <1>3, <1>5, <1>6, <1>7 DEF RebalanceInv

\* Before the budgets are known there are no shares to speak of.
LEMMA NoSharesYet ==
    ASSUME SharesInv, step' = "allocate", DOMAIN budgets = {},
           UNCHANGED <<input, budgets, shares, extra>>
    PROVE  SharesInv' /\ SharesUseBudgets'
<1>1. Kept' = Kept /\ Priced' = Priced
  BY DEF Kept, Priced, input
<1>2. SharesInv'
  BY <1>1 DEF SharesInv
<1>3. SharesUseBudgets'
  BY DEF SharesUseBudgets
<1>4. QED
  BY <1>2, <1>3

LEMMA WeightsStayPositive ==
    ASSUME AccountInv, WeightsInv, NEW stay, stay = DOMAIN weights \ Dropped,
           NEW freed, freed = Total([c \in Dropped |-> weights[c]])
    PROVE  \A c \in stay : Cardinality(stay) * weights[c] + freed \in Positive
<1>1. DOMAIN weights \subseteq Codes /\ IsFiniteSet(DOMAIN weights) /\ \A c \in DOMAIN weights : weights[c] \in Positive
  BY PricesAreKnown, RebalanceAssumption, FS_Subset DEF WeightsInv
<1>2. PICK f : f = [c \in Dropped |-> weights[c]]
  OBVIOUS
<1>3. DOMAIN f \subseteq Codes /\ f = [c \in DOMAIN f |-> f[c]] /\ \A c \in DOMAIN f : f[c] \in Nat
  BY <1>1, <1>2 DEF Dropped, Positive
<1>4. freed \in Nat
  BY <1>2, <1>3, NumbersOfCodes, TotalIsNat
<1>5. ASSUME NEW c \in stay PROVE Cardinality(stay) * weights[c] + freed \in Positive
  <2>1. IsFiniteSet(stay) /\ stay # {}
    BY <1>1, <1>5, FS_Subset
  <2>2. Cardinality(stay) \in Positive
    BY <2>1, FS_CardinalityType, FS_EmptySet DEF Positive
  <2>3. Cardinality(stay) * weights[c] \in Positive
    BY <1>1, <2>2, Product
  <2>4. QED
    BY <1>4, <2>3 DEF Positive
<1>6. QED
  BY <1>5

LEMMA WeightsDrop ==
    ASSUME RebalanceInv, Drop
    PROVE  RebalanceInv'
<1> DEFINE stay == DOMAIN weights \ Dropped
           freed == Total([c \in Dropped |-> weights[c]])
<1>1. /\ step = "allocate" /\ step' = "allocate"
      /\ weights' = [c \in stay |-> Cardinality(stay) * weights[c] + freed]
      /\ UNCHANGED <<input, locked, budgets, shares, extra, buys, budget, orders>>
  BY DEF Drop
<1>2. step' \in Phases /\ locked' \subseteq Kept \cap Holding /\ budget' \in Nat
  BY <1>1 DEF Phases, RebalanceInv, AccountInv
<1>3. AccountInv' /\ Kept' = Kept /\ Priced' = Priced
  BY <1>1, <1>2, AccountKept DEF RebalanceInv
<1>4. \A c \in stay : Cardinality(stay) * weights[c] + freed \in Positive
  BY WeightsStayPositive DEF RebalanceInv
<1>5. stay \subseteq Kept \cap Priced
  BY DEF RebalanceInv, WeightsInv
<1>6. WeightsInv'
  <2> HIDE DEF stay, freed
  <2>1. QED
    BY <1>1, <1>3, <1>4, <1>5 DEF WeightsInv
<1>7. SharesInv' /\ SharesUseBudgets'
  BY <1>1, NoSharesYet DEF RebalanceInv, SharesInv
<1>8. PlacedInv'
  BY <1>1, <1>2, PlacedKept DEF RebalanceInv, AccountInv
<1>9. QED
  BY <1>3, <1>6, <1>7, <1>8 DEF RebalanceInv

LEMMA HoldingsLock ==
    ASSUME RebalanceInv, Lock
    PROVE  RebalanceInv'
<1>1. /\ step = "allocate" /\ step' = "allocate"
      /\ locked' = locked \cup Stranded
      /\ weights' = FirstWeights(locked \cup Stranded)
      /\ UNCHANGED <<input, budgets, shares, extra, buys, budget, orders>>
  BY DEF Lock, Locked
<1>2. step' \in Phases /\ locked' \subseteq Kept \cap Holding /\ budget' \in Nat
  BY <1>1 DEF Phases, RebalanceInv, AccountInv, Stranded
<1>3. AccountInv' /\ Kept' = Kept /\ Priced' = Priced
  BY <1>1, <1>2, AccountKept DEF RebalanceInv
<1>4. WeightsInv'
  BY <1>1, <1>3, FirstWeightsAreWeights DEF RebalanceInv, WeightsInv
<1>5. SharesInv' /\ SharesUseBudgets'
  BY <1>1, NoSharesYet DEF RebalanceInv, SharesInv
<1>6. PlacedInv'
  BY <1>1, <1>2, PlacedKept DEF RebalanceInv, AccountInv
<1>7. QED
  BY <1>3, <1>4, <1>5, <1>6 DEF RebalanceInv

\* A budget that buys a share buys whole shares, and less than one is left of it.
LEMMA WholeShares ==
    ASSUME NEW b \in Int, NEW a \in Positive, a <= 100 * b, NEW n, n = (100 * b) \div a
    PROVE  n \in Positive /\ b \in Positive /\ n * a <= 100 * b
<1>1. PICK m \in Int : m = 100 * b
  OBVIOUS
<1>2. n \in Int /\ n * a <= m /\ m < (n + 1) * a
  BY <1>1, Division DEF Positive
<1>3. b \in Positive
  BY DEF Positive
<1>4. 1 * a < (n + 1) * a
  BY <1>1, <1>2 DEF Positive
<1>5. a \in Nat \ {0} /\ 1 \in Int /\ n + 1 \in Int
  BY <1>2 DEF Positive
<1>6. 1 < n + 1
  BY <1>4, <1>5, Cancelled, Zenon
<1>7. n \in Positive
  BY <1>2, <1>6 DEF Positive
<1>8. QED
  BY <1>1, <1>2, <1>3, <1>7

LEMMA SharesAreAllocated ==
    ASSUME RebalanceInv, Allocated
    PROVE  RebalanceInv'
<1>1. /\ step' = "shares" /\ Dropped = {}
      /\ budgets' = Budgets
      /\ shares' = [c \in DOMAIN weights |-> (100 * Budgets[c]) \div Ask(c)]
      /\ extra' = [c \in DOMAIN weights |-> 0]
      /\ UNCHANGED <<input, weights, locked, buys, budget, orders>>
  BY DEF Allocated
<1>2. step' \in Phases /\ locked' \subseteq Kept \cap Holding /\ budget' \in Nat
  BY <1>1 DEF Phases, RebalanceInv, AccountInv
<1>3. AccountInv' /\ Kept' = Kept /\ Priced' = Priced /\ \A c : Ask(c)' = Ask(c)
  BY <1>1, <1>2, AccountKept DEF RebalanceInv
<1>4. WeightsInv'
  BY <1>1, <1>3 DEF RebalanceInv, WeightsInv
<1>5. /\ DOMAIN Budgets = DOMAIN weights /\ Budgets = [c \in DOMAIN weights |-> Budgets[c]]
      /\ \A c \in DOMAIN weights : Budgets[c] \in Int
      /\ DOMAIN weights \subseteq Kept \cap Priced /\ DOMAIN weights \subseteq Codes
  BY BudgetsAreInts, PricesAreKnown DEF RebalanceInv, WeightsInv
<1>6. ASSUME NEW c \in DOMAIN weights
      PROVE  /\ Budgets[c] \in Positive /\ shares'[c] \in Positive /\ Ask(c) \in Positive
             /\ shares'[c] * Ask(c) <= 100 * Budgets[c]
  <2>1. Ask(c) \in Positive
    BY <1>5, PricesAreKnown DEF RebalanceInv
  <2>2. PICK b \in Int : b = Budgets[c]
    BY <1>5
  <2>3. PICK a \in Positive : a = Ask(c)
    BY <2>1
  <2>4. a <= 100 * b
    <3>1. ~(Ask(c) > 100 * Budgets[c])
      BY <1>1 DEF Dropped
    <3>2. QED
      BY <2>2, <2>3, <3>1 DEF Positive
  <2>5. PICK n : n = (100 * b) \div a
    OBVIOUS
  <2>6. n \in Positive /\ b \in Positive /\ n * a <= 100 * b
    BY <2>4, <2>5, WholeShares, Zenon
  <2>7. shares'[c] = n
    BY <1>1, <2>2, <2>3, <2>5, Zenon
  <2>8. QED
    BY <2>2, <2>3, <2>6, <2>7
<1>7. DOMAIN budgets' = DOMAIN weights /\ DOMAIN shares' = DOMAIN weights /\ DOMAIN extra' = DOMAIN weights
  BY <1>1, <1>5
<1>8. SharesInv'
  <2>1. budgets' \in [DOMAIN weights -> Positive] /\ shares' \in [DOMAIN weights -> Positive]
    BY <1>1, <1>5, <1>6
  <2>2. extra' \in [DOMAIN weights -> Nat]
    BY <1>1
  <2>3. QED
    BY <1>1, <1>3, <1>5, <1>7, <2>1, <2>2 DEF SharesInv
<1>9. SharesUseBudgets'
  <2>1. PICK f : f = [c \in DOMAIN shares' |-> shares'[c] * Ask(c)']
    OBVIOUS
  <2>2. Leftover' = 100 * Total(budgets') - Total(f)
    BY <2>1 DEF Leftover
  <2>3. f = [c \in DOMAIN weights |-> shares'[c] * Ask(c)]
    BY <1>3, <1>7, <2>1
  <2>4. PICK b : b = Budgets
    OBVIOUS
  <2>5. Numbers(b) /\ DOMAIN b = DOMAIN weights
    BY <1>5, <2>4, NumbersOfCodes
  <2>6. Numbers(f) /\ DOMAIN f = DOMAIN b
    BY <1>5, <1>6, <2>3, <2>5, NumbersOfCodes DEF Positive
  <2>7. \A c \in DOMAIN b : f[c] <= 100 * b[c]
    BY <1>6, <2>3, <2>4, <2>5
  <2>8. Total(f) <= 100 * Total(b)
    BY <2>5, <2>6, <2>7, TotalIsBounded
  <2>9. Total(f) \in Int /\ Total(b) \in Int
    BY <2>5, <2>6, TotalIsInt
  <2>10. Leftover' >= 0
    BY <1>1, <2>2, <2>4, <2>8, <2>9
  <2>11. \A c, d \in DOMAIN budgets' : ~(extra'[c] > extra'[d] + 1)
    BY <1>1, <1>7
  <2>12. \A c \in DOMAIN budgets' : Gap(c)' > -(Ask(c)')
    <3>1. SUFFICES ASSUME NEW c \in DOMAIN weights PROVE Gap(c)' > -(Ask(c)')
      BY <1>7
    <3>2. Gap(c)' = 100 * Budgets[c] - shares'[c] * Ask(c) /\ Ask(c)' = Ask(c)
      BY <1>1, <1>3 DEF Gap
    <3>3. Budgets[c] \in Int /\ Ask(c) \in Int /\ Ask(c) > 0 /\ shares'[c] \in Int
      BY <1>6 DEF Positive
    <3>4. shares'[c] * Ask(c) \in Int /\ shares'[c] * Ask(c) <= 100 * Budgets[c]
      BY <1>6, <3>3
    <3>5. QED
      BY <3>2, <3>3, <3>4
  <2>13. QED
    BY <1>1, <2>10, <2>11, <2>12 DEF SharesUseBudgets
<1>10. PlacedInv'
  <2>1. orders = {} /\ buys = {}
    BY DEF Allocated, RebalanceInv, PlacedInv
  <2>2. QED
    BY <1>1, <2>1 DEF PlacedInv
<1>11. QED
  BY <1>3, <1>4, <1>8, <1>9, <1>10 DEF RebalanceInv

\* A share more takes its price from what is left over.
LEMMA ShareIsPaid ==
    ASSUME AccountInv, SharesInv, NEW c \in DOMAIN budgets, UNCHANGED <<input, budgets>>,
           shares' = [shares EXCEPT ![c] = @ + 1]
    PROVE  Leftover \in Int /\ Leftover' = Leftover - Ask(c)
<1>1. PICK f : f = [d \in DOMAIN shares |-> shares[d] * Ask(d)]
  OBVIOUS
<1>2. PICK g : g = [d \in DOMAIN shares' |-> shares'[d] * Ask(d)']
  OBVIOUS
<1>3. Leftover = 100 * Total(budgets) - Total(f) /\ Leftover' = 100 * Total(budgets') - Total(g)
  BY <1>1, <1>2 DEF Leftover
<1>4. \A d : Ask(d)' = Ask(d)
  BY DEF input, Ask, Price
<1>5. /\ DOMAIN shares = DOMAIN budgets /\ DOMAIN shares' = DOMAIN budgets /\ DOMAIN budgets \subseteq Codes
      /\ \A d \in DOMAIN budgets : shares[d] \in Positive /\ budgets[d] \in Positive /\ Ask(d) \in Positive
  BY PricesAreKnown DEF SharesInv
<1>6. Numbers(f) /\ DOMAIN f = DOMAIN budgets
  BY <1>1, <1>5, NumbersOfCodes DEF Positive
<1>7. Numbers(budgets)
  <2>1. budgets = [d \in DOMAIN budgets |-> budgets[d]]
    BY DEF SharesInv
  <2>2. \A d \in DOMAIN budgets : budgets[d] \in Int
    BY <1>5 DEF Positive
  <2>3. QED
    BY <1>5, <2>1, <2>2, NumbersOfCodes
<1>8. g = [f EXCEPT ![c] = f[c] + Ask(c)]
  <2>1. \A d \in DOMAIN budgets : g[d] = shares'[d] * Ask(d) /\ f[d] = shares[d] * Ask(d)
    BY <1>1, <1>2, <1>4, <1>5
  <2>2. g[c] = f[c] + Ask(c)
    <3>1. shares'[c] = shares[c] + 1
      BY <1>5
    <3>2. PICK n \in Int : n = shares[c]
      BY <1>5 DEF Positive
    <3>3. PICK a \in Int : a = Ask(c)
      BY <1>5 DEF Positive
    <3>4. (n + 1) * a = n * a + a
      OBVIOUS
    <3>5. QED
      BY <2>1, <3>1, <3>2, <3>3, <3>4
  <2>3. \A d \in DOMAIN budgets \ {c} : g[d] = f[d]
    BY <1>5, <2>1
  <2>4. DOMAIN g = DOMAIN budgets /\ g = [d \in DOMAIN budgets |-> g[d]]
    BY <1>2, <1>5
  <2>5. f = [d \in DOMAIN budgets |-> f[d]]
    BY <1>1, <1>5
  <2>6. QED
    BY <2>2, <2>3, <2>4, <2>5
<1>9. f[c] + Ask(c) \in Int /\ f[c] \in Int /\ Ask(c) \in Int
  BY <1>5, <1>6 DEF Numbers, Positive
<1>10. PICK v \in Int : v = f[c] + Ask(c)
  BY <1>9
<1>11. Total(g) = Total(f) - f[c] + v
  BY <1>6, <1>8, <1>10, TotalUpdated
<1>12. Total(f) \in Int /\ Total(budgets) \in Int
  BY <1>6, <1>7, TotalIsInt
<1>13. QED
  BY <1>3, <1>9, <1>10, <1>11, <1>12

LEMMA SharesAreAdded ==
    ASSUME RebalanceInv, AddShare
    PROVE  RebalanceInv'
<1>1. PICK c \in Pick :
        /\ step = "shares" /\ step' = "shares"
        /\ shares' = [shares EXCEPT ![c] = @ + 1]
        /\ extra' = IF Short = {} THEN [extra EXCEPT ![c] = @ + 1] ELSE extra
        /\ UNCHANGED <<input, weights, locked, budgets, buys, budget, orders>>
  BY DEF AddShare
<1>2. step' \in Phases /\ locked' \subseteq Kept \cap Holding /\ budget' \in Nat
  BY <1>1 DEF Phases, RebalanceInv, AccountInv
<1>3. AccountInv' /\ Kept' = Kept /\ Priced' = Priced /\ \A d : Ask(d)' = Ask(d)
  BY <1>1, <1>2, AccountKept DEF RebalanceInv
<1>4. WeightsInv'
  BY <1>1, <1>3 DEF RebalanceInv, WeightsInv
<1>5. /\ c \in DOMAIN budgets /\ Ask(c) <= Leftover
      /\ Short # {} => c \in Short
      /\ Short = {} => \A d \in Affordable : extra[c] <= extra[d]
  BY DEF Pick, FirstInRing, Affordable, Short
<1>6. SharesInv'
  BY <1>1, <1>3, <1>5 DEF RebalanceInv, SharesInv, Positive
<1>7. Leftover \in Int /\ Leftover' = Leftover - Ask(c)
  BY <1>1, <1>5, ShareIsPaid DEF RebalanceInv
<1>8. \A d \in DOMAIN budgets : /\ Ask(d) \in Int /\ Ask(d) > 0 /\ extra[d] \in Nat
                                /\ shares[d] \in Int /\ budgets[d] \in Int
  BY PricesAreKnown DEF RebalanceInv, SharesInv, Positive
<1>9. SharesUseBudgets'
  <2>1. Leftover' >= 0
    BY <1>5, <1>7, <1>8
  <2>2. ASSUME NEW x \in DOMAIN budgets, NEW y \in DOMAIN budgets, extra'[x] > extra'[y] + 1
        PROVE  Ask(y) > Leftover'
    <3>1. CASE extra[x] > extra[y] + 1
      <4>1. Ask(y) > Leftover
        BY <3>1 DEF RebalanceInv, SharesUseBudgets
      <4>2. QED
        BY <1>5, <1>7, <1>8, <4>1
    <3>2. CASE ~(extra[x] > extra[y] + 1)
      <4>1. Short = {} /\ x = c /\ x # y
        BY <1>1, <1>5, <1>8, <2>2, <3>2 DEF RebalanceInv, SharesInv
      <4>2. extra'[x] = extra[x] + 1 /\ extra'[y] = extra[y]
        BY <1>1, <4>1 DEF RebalanceInv, SharesInv
      <4>3. ~(extra[c] <= extra[y])
        BY <1>8, <2>2, <4>1, <4>2
      <4>4. y \notin Affordable
        BY <1>5, <4>1, <4>3
      <4>5. Ask(y) > Leftover
        BY <1>7, <1>8, <4>4 DEF Affordable
      <4>6. QED
        BY <1>5, <1>7, <1>8, <4>5
    <3>3. QED
      BY <3>1, <3>2
  <2>3. ASSUME NEW x \in DOMAIN budgets, extra'[x] = 0
        PROVE  Gap(x)' > -(Ask(x)')
    <3>1. Gap(x)' = 100 * budgets[x] - shares'[x] * Ask(x)
      BY <1>1, <1>3 DEF Gap
    <3>2. Gap(x) = 100 * budgets[x] - shares[x] * Ask(x)
      BY DEF Gap
    <3>3. CASE x # c
      <4>1. extra[x] = 0 /\ shares'[x] = shares[x]
        BY <1>1, <2>3, <3>3 DEF RebalanceInv, SharesInv
      <4>2. Gap(x) > -Ask(x)
        BY <4>1 DEF RebalanceInv, SharesUseBudgets
      <4>3. QED
        BY <1>3, <3>1, <3>2, <4>1, <4>2
    <3>4. CASE x = c
      <4>1. Short # {}
        BY <1>1, <1>8, <2>3, <3>4 DEF RebalanceInv, SharesInv
      <4>2. Gap(x) > 0
        BY <1>5, <3>4, <4>1 DEF Short
      <4>3. shares'[x] = shares[x] + 1
        BY <1>1, <3>4 DEF RebalanceInv, SharesInv
      <4>4. PICK n \in Int : n = shares[x]
        BY <1>8
      <4>5. PICK a \in Int : a = Ask(x)
        BY <1>8
      <4>6. (n + 1) * a = n * a + a /\ n * a \in Int
        OBVIOUS
      <4>7. PICK b \in Int : b = 100 * budgets[x]
        BY <1>8
      <4>8. Gap(x) = b - n * a /\ Gap(x)' = b - (n * a + a)
        BY <3>1, <3>2, <4>3, <4>4, <4>5, <4>6, <4>7
      <4>9. QED
        BY <1>3, <4>2, <4>5, <4>6, <4>8
    <3>5. QED
      BY <3>3, <3>4
  <2>4. DOMAIN budgets' = DOMAIN budgets
    BY <1>1
  <2>5. \A x, y \in DOMAIN budgets : extra'[x] > extra'[y] + 1 => Ask(y)' > Leftover'
    BY <1>3, <2>2
  <2>6. QED
    BY <1>1, <2>1, <2>3, <2>4, <2>5 DEF SharesUseBudgets
<1>10. PlacedInv'
  BY <1>1, <1>2, PlacedKept DEF RebalanceInv, AccountInv
<1>11. QED
  BY <1>3, <1>4, <1>6, <1>9, <1>10 DEF RebalanceInv

LEMMA LesserOfTwo ==
    ASSUME NEW a \in Int, NEW b \in Int
    PROVE  Min({a, b}) = IF a <= b THEN a ELSE b
<1>1. PICK x \in {a, b} : \A y \in {a, b} : x <= y
  OBVIOUS
<1>2. Min({a, b}) \in {a, b} /\ \A y \in {a, b} : Min({a, b}) <= y
  BY <1>1 DEF Min
<1>3. QED
  BY <1>2

LEMMA SpendableIsNat ==
    ASSUME AccountInv
    PROVE  Spendable \in Nat
BY GreaterOfTwo DEF Spendable, AccountInv

LEMMA NothingSpent ==
    ASSUME NEW S, BuysOf(S) = {}
    PROVE  Spent(S) = 0
BY TotalOfNone DEF Spent

\* What a trim goes down to: at least the shares and the worth of the budget.
LEMMA TrimLeavesBudget ==
    ASSUME AccountInv, SharesInv, NEW c \in DOMAIN budgets
    PROVE  /\ SellTarget(c) \in Int /\ SellTarget(c) >= 1
           /\ (SellTarget(c) + 1) * Price(c) > budgets[c]
<1>1. shares[c] \in Int /\ shares[c] >= 1 /\ Price(c) \in Nat \ {0} /\ budgets[c] \in Int
  BY PricesAreKnown DEF SharesInv, Positive
<1>2. PICK d \in Int : d = budgets[c] \div Price(c)
  BY <1>1, Division
<1>3. budgets[c] < (d + 1) * Price(c)
  BY <1>1, <1>2, Division
<1>4. SellTarget(c) = IF shares[c] >= d THEN shares[c] ELSE d
  BY <1>1, <1>2, GreaterOfTwo DEF SellTarget
<1>5. SellTarget(c) \in Int /\ SellTarget(c) >= 1 /\ SellTarget(c) >= d
  BY <1>1, <1>2, <1>4
<1>6. PICK s \in Int : s = SellTarget(c)
  BY <1>5
<1>7. PICK m \in Nat : m = s - d
  BY <1>5, <1>6
<1>8. PICK p \in Nat \ {0} : p = Price(c)
  BY <1>1
<1>9. m * p >= 0 /\ (s + 1) * p = (d + 1) * p + m * p
  <2>1. s = d + m
    BY <1>7
  <2>2. m * p >= 0
    OBVIOUS
  <2>3. (d + m + 1) * p = (d + 1) * p + m * p
    OBVIOUS
  <2>4. QED
    BY <2>1, <2>2, <2>3
<1>10. (d + 1) * p \in Int /\ m * p \in Int
  OBVIOUS
<1>11. (s + 1) * p > budgets[c]
  BY <1>1, <1>3, <1>8, <1>9, <1>10
<1>12. QED
  BY <1>5, <1>6, <1>8, <1>11

\* The orders and buys MakeOrders computes.
LEMMA OrdersComputed ==
    ASSUME AccountInv, SharesInv
    PROVE  /\ \A o \in Trims : /\ o.code \in DOMAIN budgets /\ Made(o) /\ o.side = "sell"
                               /\ o = Order(o.code, "sell", held[o.code] - SellTarget(o.code))
                               /\ shares[o.code] <= held[o.code]
           /\ \A o \in Exits : /\ o.code \in Codes /\ Made(o) /\ o.side = "sell"
                               /\ o = Order(o.code, "sell", held[o.code])
                               /\ targets[o.code].role # "kept"
           /\ \A o \in Wanted : /\ o.code \in DOMAIN budgets /\ Made(o) /\ o.side = "buy"
                                /\ o = Order(o.code, "buy", shares[o.code] - held[o.code])
                                /\ shares[o.code] > held[o.code]
<1>1. DOMAIN budgets \subseteq Priced /\ Priced \subseteq Codes
  BY PricesAreKnown DEF SharesInv
<1>2. ASSUME NEW o \in Trims
      PROVE  /\ o.code \in DOMAIN budgets /\ Made(o) /\ o.side = "sell"
             /\ o = Order(o.code, "sell", held[o.code] - SellTarget(o.code))
             /\ shares[o.code] <= held[o.code]
  <2>1. PICK c \in DOMAIN budgets : /\ shares[c] <= held[c] /\ SellTarget(c) < held[c]
                                    /\ o = Order(c, "sell", held[c] - SellTarget(c))
    BY DEF Trims
  <2>2. o.code = c /\ o.side = "sell" /\ o.quantity = held[c] - SellTarget(c)
    BY <2>1 DEF Order
  <2>3. held[c] \in Int /\ SellTarget(c) \in Int
    BY <1>1, TrimLeavesBudget, PricesAreKnown
  <2>4. o.quantity \in Positive
    BY <2>1, <2>2, <2>3 DEF Positive
  <2>5. QED
    BY <1>1, <2>1, <2>2, <2>4 DEF Made
<1>3. ASSUME NEW o \in Exits
      PROVE  /\ o.code \in Codes /\ Made(o) /\ o.side = "sell"
             /\ o = Order(o.code, "sell", held[o.code])
             /\ targets[o.code].role # "kept"
  <2>1. PICK c \in Holding \cap Priced : /\ targets[c].role \in {"exiting", "leftover"}
                                         /\ o = Order(c, "sell", held[c])
    BY DEF Exits
  <2>2. o.code = c /\ o.side = "sell" /\ o.quantity = held[c]
    BY <2>1 DEF Order
  <2>3. held[c] \in Positive
    BY <1>1, PricesAreKnown DEF Holding, Positive
  <2>4. QED
    BY <1>1, <2>1, <2>2, <2>3 DEF Made
<1>4. ASSUME NEW o \in Wanted
      PROVE  /\ o.code \in DOMAIN budgets /\ Made(o) /\ o.side = "buy"
             /\ o = Order(o.code, "buy", shares[o.code] - held[o.code])
             /\ shares[o.code] > held[o.code]
  <2>1. PICK c \in DOMAIN budgets : shares[c] > held[c] /\ o = Order(c, "buy", shares[c] - held[c])
    BY DEF Wanted
  <2>2. o.code = c /\ o.side = "buy" /\ o.quantity = shares[c] - held[c]
    BY <2>1 DEF Order
  <2>3. held[c] \in Int /\ shares[c] \in Int
    BY <1>1, PricesAreKnown DEF SharesInv, Positive
  <2>4. o.quantity \in Positive
    BY <2>1, <2>2, <2>3 DEF Positive
  <2>5. QED
    BY <1>1, <2>1, <2>2, <2>4 DEF Made
<1>5. QED
  BY <1>2, <1>3, <1>4

\* Whether an order is as the function makes it, and what it costs, follow from
\* the snapshot.
LEMMA MadeKept ==
    ASSUME UNCHANGED input
    PROVE  /\ \A o : Made(o)' <=> Made(o)
           /\ \A o : Cost(o)' = Cost(o)
           /\ \A c : Price(c)' = Price(c)
           /\ Spendable' = Spendable
<1>1. \A o : Made(o)' <=> Made(o)
  BY DEF Made, Priced, Order, AtMarket, Limit, Lower, Upper, input
<1>2. \A o : Cost(o)' = Cost(o)
  BY DEF Cost, Ask, Price, input
<1>3. \A c : Price(c)' = Price(c)
  BY DEF Price, input
<1>4. Spendable' = Spendable
  BY DEF Spendable, input
<1>5. QED
  BY <1>1, <1>2, <1>3, <1>4

\* Outside of the step that computes them, budgets and shares stay.
LEMMA SharesKept ==
    ASSUME AccountInv, WeightsInv, SharesInv, SharesUseBudgets, UNCHANGED <<input, weights, budgets, shares, extra>>,
           step \in {"shares", "buys", "sent"}, step' \in {"shares", "buys", "sent"},
           step = "shares" /\ step' # "shares" => Affordable = {}
    PROVE  WeightsInv' /\ SharesInv' /\ SharesUseBudgets'
<1>1. Kept' = Kept /\ Priced' = Priced
  BY DEF Kept, Priced, input
<1>2. WeightsInv' /\ SharesInv'
  BY <1>1 DEF WeightsInv, SharesInv
<1>3. \A c : Ask(c)' = Ask(c)
  BY DEF Ask, Price, input
<1>4. \A c : Gap(c)' = Gap(c)
  BY <1>3 DEF Gap
<1>5. Leftover' = Leftover
  BY <1>3 DEF Leftover
<1>6. Affordable' = Affordable
  BY <1>3, <1>5 DEF Affordable
<1>7. SharesUseBudgets'
  BY <1>3, <1>4, <1>5, <1>6 DEF SharesUseBudgets
<1>8. QED
  BY <1>2, <1>7

LEMMA OrdersAreMade ==
    ASSUME RebalanceInv, MakeOrders
    PROVE  RebalanceInv'
<1>1. /\ step = "shares" /\ step' = "buys"
      /\ orders' = Trims \cup Exits /\ buys' = Wanted /\ budget' = Spendable
      /\ Affordable = {}
      /\ UNCHANGED <<input, weights, locked, budgets, shares, extra>>
  BY DEF MakeOrders, sizing
<1>2. step' \in Phases /\ locked' \subseteq Kept \cap Holding /\ budget' \in Nat
  BY <1>1, SpendableIsNat DEF Phases, RebalanceInv, AccountInv
<1>3. AccountInv'
  BY <1>1, <1>2, AccountKept DEF RebalanceInv
<1>4. WeightsInv' /\ SharesInv' /\ SharesUseBudgets'
  BY <1>1, SharesKept DEF RebalanceInv
<1>5. /\ \A o : Made(o)' <=> Made(o)
      /\ \A c : Price(c)' = Price(c)
      /\ Spendable' = Spendable
  BY <1>1, MadeKept
<1>6. PlacedInv'
  <2>1. /\ \A o \in Trims : /\ o.code \in DOMAIN budgets /\ Made(o) /\ o.side = "sell"
                            /\ o = Order(o.code, "sell", held[o.code] - SellTarget(o.code))
                            /\ shares[o.code] <= held[o.code]
        /\ \A o \in Exits : /\ o.code \in Codes /\ Made(o) /\ o.side = "sell"
                            /\ o = Order(o.code, "sell", held[o.code])
                            /\ targets[o.code].role # "kept"
        /\ \A o \in Wanted : /\ o.code \in DOMAIN budgets /\ Made(o) /\ o.side = "buy"
                             /\ o = Order(o.code, "buy", shares[o.code] - held[o.code])
                             /\ shares[o.code] > held[o.code]
    BY OrdersComputed DEF RebalanceInv
  <2>2. \A c \in DOMAIN budgets : /\ c \in Codes /\ targets[c].role = "kept" /\ held[c] \in Int /\ shares[c] \in Int
                                  /\ SellTarget(c) \in Int /\ SellTarget(c) >= 1
                                  /\ (SellTarget(c) + 1) * Price(c) > budgets[c]
    <3>1. \A c \in DOMAIN budgets : c \in Kept /\ shares[c] \in Int
      BY DEF RebalanceInv, SharesInv, Positive
    <3>2. \A c \in Kept : c \in Codes /\ targets[c].role = "kept" /\ held[c] \in Int
      BY PricesAreKnown DEF RebalanceInv, Kept
    <3>3. \A c \in DOMAIN budgets : /\ SellTarget(c) \in Int /\ SellTarget(c) >= 1
                                    /\ (SellTarget(c) + 1) * Price(c) > budgets[c]
      BY TrimLeavesBudget DEF RebalanceInv
    <3>4. QED
      BY <3>1, <3>2, <3>3
  <2>3. \A o \in orders' \cup buys' : Made(o)'
    BY <1>1, <1>5, <2>1
  <2>4. ASSUME NEW o \in orders', NEW p \in orders', o.code = p.code PROVE o = p
    BY <1>1, <2>1, <2>2, <2>4
  <2>5. \A o, p \in buys' : o.code = p.code => o = p
    BY <1>1, <2>1
  <2>6. ASSUME NEW o \in orders', NEW p \in buys' PROVE o.code # p.code
    BY <1>1, <2>1, <2>2
  <2>7. \A o \in buys' : o.side = "buy"
    BY <1>1, <2>1
  <2>8. ASSUME NEW o \in orders', o.side = "sell"
        PROVE  /\ o.quantity <= held[o.code]
               /\ targets[o.code].role = "kept" =>
                      (held[o.code] - o.quantity + 1) * Price(o.code) > budgets[o.code]
    <3>1. CASE o \in Trims
      <4>1. o.code \in DOMAIN budgets /\ o.quantity = held[o.code] - SellTarget(o.code)
        BY <2>1, <3>1 DEF Order
      <4>2. o.quantity <= held[o.code] /\ held[o.code] - o.quantity + 1 = SellTarget(o.code) + 1
        BY <2>2, <4>1
      <4>3. QED
        BY <2>2, <4>1, <4>2
    <3>2. CASE o \in Exits
      <4>1. o.quantity = held[o.code] /\ targets[o.code].role # "kept" /\ held[o.code] \in Nat
        BY <2>1, <3>2, PricesAreKnown DEF Order, RebalanceInv
      <4>2. QED
        BY <4>1
    <3>3. QED
      BY <1>1, <3>1, <3>2
  <2>9. BuysOf(orders') = {}
    BY <1>1, <2>1 DEF BuysOf
  <2>10. Spent(orders)' = 0
    <3>1. PICK f : f = [o \in BuysOf(orders') |-> o.quantity * Cost(o)']
      OBVIOUS
    <3>2. Total(f) = 0
      BY <2>9, <3>1, TotalOfNone
    <3>3. Spent(orders)' = Total(f)
      BY <3>1 DEF Spent, BuysOf
    <3>4. QED
      BY <3>2, <3>3
  <2>11. Spent(orders)' + budget' = Spendable'
    BY <1>1, <1>5, <2>10, SpendableIsNat DEF RebalanceInv
  <2>12. held' = held /\ targets' = targets /\ budgets' = budgets
    BY <1>1 DEF input
  <2>13. QED
    BY <1>1, <1>5, <2>3, <2>4, <2>5, <2>6, <2>7, <2>8, <2>11, <2>12 DEF PlacedInv
<1>7. QED
  BY <1>3, <1>4, <1>6 DEF RebalanceInv

LEMMA OrdersAreSent ==
    ASSUME RebalanceInv, Send
    PROVE  RebalanceInv'
<1>1. /\ step = "buys" /\ step' = "sent"
      /\ UNCHANGED <<input, weights, locked, budgets, shares, extra, buys, budget, orders>>
  BY DEF Send, sizing
<1>2. step' \in Phases /\ locked' \subseteq Kept \cap Holding /\ budget' \in Nat
  BY <1>1 DEF Phases, RebalanceInv, AccountInv
<1>3. AccountInv'
  BY <1>1, <1>2, AccountKept DEF RebalanceInv
<1>4. WeightsInv' /\ SharesInv' /\ SharesUseBudgets'
  BY <1>1, SharesKept DEF RebalanceInv
<1>5. PlacedInv'
  BY <1>1, <1>2, PlacedKept DEF RebalanceInv, AccountInv
<1>6. QED
  BY <1>3, <1>4, <1>5 DEF RebalanceInv

\* A buy for fewer shares is a buy for the same price.
LEMMA CutIsMade ==
    ASSUME NEW o, Made(o), NEW n \in Positive
    PROVE  /\ Made([o EXCEPT !.quantity = n])
           /\ [o EXCEPT !.quantity = n].code = o.code
           /\ [o EXCEPT !.quantity = n].side = o.side
           /\ [o EXCEPT !.quantity = n].quantity = n
           /\ Cost([o EXCEPT !.quantity = n]) = Cost(o)
<1>1. PICK l : /\ o = [code |-> o.code, side |-> o.side, quantity |-> o.quantity, limit |-> l]
               /\ \A m : Order(o.code, o.side, m) = [code |-> o.code, side |-> o.side, quantity |-> m, limit |-> l]
  BY DEF Made, Order
<1>2. [o EXCEPT !.quantity = n] = [code |-> o.code, side |-> o.side, quantity |-> n, limit |-> l]
  BY <1>1
<1>3. [o EXCEPT !.quantity = n] = Order(o.code, o.side, n)
  BY <1>1, <1>2
<1>4. PICK p : p = [o EXCEPT !.quantity = n]
  OBVIOUS
<1>5. p.code = o.code /\ p.side = o.side /\ p.quantity = n /\ p.limit = l /\ o.limit = l
  BY <1>1, <1>2, <1>4
<1>6. Made(p)
  BY <1>3, <1>4, <1>5 DEF Made
<1>7. Cost(p) = Cost(o)
  BY <1>5 DEF Cost
<1>8. QED
  BY <1>4, <1>5, <1>6, <1>7

\* One buy more adds its cost to what is spent.
LEMMA BuyIsCharged ==
    ASSUME AccountInv, NEW S, \A o \in S : Made(o), \A o, p \in S : o.code = p.code => o = p,
           NEW b, Made(b), b.side = "buy", b \notin S
    PROVE  Spent(S \cup {b}) = Spent(S) + b.quantity * Cost(b) /\ Spent(S) \in Int
<1>1. IsFiniteSet(S)
  BY OrdersAreFew, PricesAreKnown DEF Made
<1>2. PICK f : f = [o \in BuysOf(S \cup {b}) |-> o.quantity * Cost(o)]
  OBVIOUS
<1>3. BuysOf(S \cup {b}) = BuysOf(S) \cup {b} /\ b \notin BuysOf(S)
  BY DEF BuysOf
<1>4. IsFiniteSet(BuysOf(S))
  BY <1>1, FS_Subset DEF BuysOf
<1>5. IsFiniteSet(BuysOf(S) \cup {b})
  BY <1>4, FS_AddElement
<1>6. ASSUME NEW o \in BuysOf(S) \cup {b} PROVE o.quantity * Cost(o) \in Int
  <2>1. Made(o)
    BY <1>6 DEF BuysOf
  <2>2. o.quantity \in Positive /\ Cost(o) \in Int
    BY <2>1, OrderIsMade
  <2>3. QED
    BY <2>2 DEF Positive
<1>7. Numbers(f)
  BY <1>2, <1>3, <1>5, <1>6 DEF Numbers
<1>8. PICK T : T = BuysOf(S)
  OBVIOUS
<1>9. DOMAIN f = T \cup {b} /\ b \notin T
  BY <1>2, <1>3, <1>8
<1>10. Total(f) = f[b] + Total([o \in T |-> f[o]])
  BY <1>7, <1>9, TotalExtended, Zenon
<1>11. PICK g : g = [o \in T |-> f[o]]
  OBVIOUS
<1>12. g = [o \in T |-> o.quantity * Cost(o)]
  BY <1>2, <1>3, <1>8, <1>11
<1>13. f[b] = b.quantity * Cost(b)
  BY <1>2, <1>3
<1>14. Numbers(g)
  BY <1>4, <1>6, <1>8, <1>12 DEF Numbers
<1>15. Total(g) \in Int
  BY <1>14, TotalIsInt
<1>16. Spent(S) = Total(g)
  BY <1>8, <1>12 DEF Spent
<1>17. Spent(S \cup {b}) = Total(f)
  BY <1>2 DEF Spent
<1>18. f[b] \in Int
  BY <1>6, <1>13
<1>19. Total(f) = f[b] + Total(g)
  BY <1>10, <1>11
<1>20. QED
  BY <1>13, <1>15, <1>16, <1>17, <1>18, <1>19

LEMMA BuyIsCut ==
    ASSUME RebalanceInv, CutBuy
    PROVE  RebalanceInv'
<1>1. PICK o \in buys : \E n : /\ n = Min({o.quantity, budget \div Cost(o)})
                               /\ buys' = buys \ {o}
                               /\ IF n > 0
                                  THEN /\ orders' = orders \cup {[o EXCEPT !.quantity = n]}
                                       /\ budget' = budget - n * Cost(o)
                                  ELSE UNCHANGED <<orders, budget>>
  BY DEF CutBuy, Charge
<1>2. PICK n : /\ n = Min({o.quantity, budget \div Cost(o)})
               /\ IF n > 0
                  THEN /\ orders' = orders \cup {[o EXCEPT !.quantity = n]}
                       /\ budget' = budget - n * Cost(o)
                  ELSE UNCHANGED <<orders, budget>>
  BY <1>1
<1>3. /\ buys' = buys \ {o} /\ step = "buys" /\ step' = "buys"
      /\ UNCHANGED <<input, weights, locked, budgets, shares, extra>>
  BY <1>1 DEF CutBuy, sizing
<1>4. Made(o) /\ o.side = "buy" /\ o.quantity \in Positive /\ Cost(o) \in Positive /\ budget \in Nat
  BY OrderIsMade DEF RebalanceInv, PlacedInv, AccountInv
<1>5. n \in Int /\ n <= o.quantity /\ n * Cost(o) <= budget
  <2>1. PICK a \in Int : a = budget
    BY <1>4
  <2>2. PICK k \in Nat \ {0} : k = Cost(o)
    BY <1>4 DEF Positive
  <2>3. PICK d \in Int : d = a \div k
    BY Division
  <2>4. d * k <= a
    BY <2>3, Division
  <2>5. n = Min({o.quantity, d})
    BY <1>2, <2>1, <2>2, <2>3
  <2>6. o.quantity \in Int
    BY <1>4 DEF Positive
  <2>7. n \in Int /\ n <= o.quantity /\ n <= d
    BY <2>5, <2>6, LesserOfTwo
  <2>8. (d - n) * k >= 0 /\ (d - n) * k = d * k - n * k
    <3>1. PICK m \in Nat : m = d - n
      BY <2>7
    <3>2. m * k >= 0
      OBVIOUS
    <3>3. (d - n) * k = d * k - n * k
      BY <2>7
    <3>4. QED
      BY <3>1, <3>2, <3>3
  <2>9. n * k <= a
    BY <2>4, <2>7, <2>8
  <2>10. QED
    BY <2>1, <2>2, <2>7, <2>9
<1>6. /\ \A p : Made(p)' <=> Made(p)
      /\ \A p : Cost(p)' = Cost(p)
      /\ \A c : Price(c)' = Price(c)
      /\ Spendable' = Spendable
  BY <1>3, MadeKept
<1>7. \A S : Spent(S)' = Spent(S)
  BY <1>6 DEF Spent, BuysOf
<1>8. held' = held /\ targets' = targets /\ budgets' = budgets
  BY <1>3 DEF input
<1>9. budget' \in Nat /\ PlacedInv'
  <2>1. CASE n > 0
    <3>1. PICK cut : cut = [o EXCEPT !.quantity = n]
      OBVIOUS
    <3>2. n \in Positive
      BY <1>5, <2>1 DEF Positive
    <3>3. Made(cut) /\ cut.code = o.code /\ cut.side = "buy" /\ cut.quantity = n /\ Cost(cut) = Cost(o)
      BY <1>4, <3>1, <3>2, CutIsMade
    <3>4. orders' = orders \cup {cut} /\ budget' = budget - n * Cost(o)
      BY <1>2, <2>1, <3>1
    <3>5. cut \notin orders
      BY <3>3 DEF RebalanceInv, PlacedInv
    <3>6. Spent(orders \cup {cut}) = Spent(orders) + cut.quantity * Cost(cut) /\ Spent(orders) \in Int
      BY <3>3, <3>5, BuyIsCharged DEF RebalanceInv, PlacedInv
    <3>7. Spent(orders)' = Spent(orders \cup {cut})
      BY <1>7, <3>4 DEF Spent, BuysOf
    <3>8. n * Cost(o) \in Int
      BY <1>4, <3>2 DEF Positive
    <3>9. budget' \in Nat
      BY <1>4, <1>5, <3>4, <3>8
    <3>10. Spent(orders)' + budget' = Spendable'
      BY <1>3, <1>4, <1>6, <3>3, <3>4, <3>6, <3>7, <3>8 DEF RebalanceInv, PlacedInv
    <3>11. \A p \in orders' \cup buys' : Made(p)'
      BY <1>3, <1>6, <3>3, <3>4 DEF RebalanceInv, PlacedInv
    <3>12. \A p \in orders : p.code # cut.code
      BY <3>3 DEF RebalanceInv, PlacedInv
    <3>13. \A p, q \in orders' : p.code = q.code => p = q
      BY <3>4, <3>12 DEF RebalanceInv, PlacedInv
    <3>14. \A p, q \in buys' : p.code = q.code => p = q
      BY <1>3 DEF RebalanceInv, PlacedInv
    <3>15. \A p \in orders', q \in buys' : p.code # q.code
      BY <1>3, <3>3, <3>4 DEF RebalanceInv, PlacedInv
    <3>16. \A p \in buys' : p.side = "buy"
      BY <1>3 DEF RebalanceInv, PlacedInv
    <3>17. \A p \in orders' : p.side = "sell" => p \in orders
      BY <3>3, <3>4
    <3>18. QED
      BY <1>3, <1>6, <1>8, <3>9, <3>10, <3>11, <3>13, <3>14, <3>15, <3>16, <3>17 DEF RebalanceInv, PlacedInv
  <2>2. CASE ~(n > 0)
    <3>1. orders' = orders /\ budget' = budget
      BY <1>2, <2>2
    <3>2. Spent(orders)' = Spent(orders)
      BY <1>7, <3>1 DEF Spent, BuysOf
    <3>3. QED
      BY <1>3, <1>4, <1>6, <1>8, <3>1, <3>2 DEF RebalanceInv, PlacedInv
  <2>3. QED
    BY <2>1, <2>2
<1>10. step' \in Phases /\ locked' \subseteq Kept \cap Holding
  BY <1>3 DEF Phases, RebalanceInv, AccountInv
<1>11. AccountInv'
  BY <1>3, <1>9, <1>10, AccountKept DEF RebalanceInv
<1>12. WeightsInv' /\ SharesInv' /\ SharesUseBudgets'
  BY <1>3, SharesKept DEF RebalanceInv
<1>13. QED
  BY <1>9, <1>11, <1>12 DEF RebalanceInv

\* What the Backend fills never sells more than is held.
LEMMA FilledFits ==
    ASSUME AccountInv, PlacedInv, NEW filled \in SUBSET orders, NEW c \in Codes
    PROVE  held[c] + Total([o \in {o \in filled : o.code = c} |-> Received(o)]) \in Nat
<1>1. PICK S : S = {o \in filled : o.code = c}
  OBVIOUS
<1>2. PICK f : f = [o \in S |-> Received(o)]
  OBVIOUS
<1>3. held[c] \in Nat
  BY PricesAreKnown
<1>4. held[c] + Total(f) \in Nat
  <2>1. CASE S = {}
    <3>1. Total(f) = 0
      BY <1>2, <2>1, TotalOfNone
    <3>2. QED
      BY <1>3, <3>1
  <2>2. CASE S # {}
    <3>1. PICK b : b \in S
      BY <2>2
    <3>2. b \in orders /\ b.code = c
      BY <1>1, <3>1
    <3>3. S = {b}
      <4>1. \A o \in S : o = b
        BY <1>1, <3>2 DEF PlacedInv
      <4>2. QED
        BY <3>1, <4>1
    <3>4. b.quantity \in Positive /\ b.side \in {"buy", "sell"} /\ (b.side = "sell" => b.quantity <= held[c])
      BY <3>2, OrderIsMade DEF PlacedInv
    <3>5. Received(b) \in Int /\ held[c] + Received(b) \in Nat
      BY <1>3, <3>4 DEF Received, Positive
    <3>6. f = [o \in {b} |-> Received(b)]
      BY <1>2, <3>3
    <3>7. Numbers(f) /\ DOMAIN f = {b} /\ f[b] = Received(b)
      BY <3>5, <3>6, FS_Singleton DEF Numbers
    <3>8. Total(f) = f[b] + Total(Without(f, b))
      BY <3>7, TotalSplit
    <3>9. DOMAIN Without(f, b) = {}
      BY <3>7 DEF Without
    <3>10. Total(Without(f, b)) = 0
      BY <3>9, TotalOfNone
    <3>11. QED
      BY <3>5, <3>7, <3>8, <3>10
  <2>3. QED
    BY <2>1, <2>2
<1>5. QED
  BY <1>1, <1>2, <1>4

LEMMA ProceedsAreInts ==
    ASSUME AccountInv, PlacedInv, NEW filled \in SUBSET orders
    PROVE  Total([o \in filled |-> Proceeds(o)]) \in Int
<1>1. PICK f : f = [o \in filled |-> Proceeds(o)]
  OBVIOUS
<1>2. IsFiniteSet(orders)
  BY OrdersAreFew, PricesAreKnown DEF PlacedInv, Made
<1>3. IsFiniteSet(filled)
  BY <1>2, FS_Subset
<1>4. ASSUME NEW o \in filled PROVE Proceeds(o) \in Int
  <2>1. Made(o)
    BY <1>4 DEF PlacedInv
  <2>2. o.quantity \in Positive /\ Cost(o) \in Int /\ o.limit \in Int /\ Price(o.code) \in Positive
    BY <2>1, OrderIsMade, PricesAreKnown
  <2>3. o.quantity * Cost(o) \in Int
    BY <2>2 DEF Positive
  <2>4. (o.quantity * Cost(o)) \div 100 \in Int
    BY <2>3
  <2>5. PICK p \in Int : p = IF o.limit = 0 THEN Price(o.code) ELSE o.limit
    BY <2>2 DEF Positive
  <2>6. o.quantity * p \in Int
    BY <2>2 DEF Positive
  <2>7. QED
    BY <2>4, <2>5, <2>6 DEF Proceeds
<1>5. Numbers(f)
  BY <1>1, <1>3, <1>4 DEF Numbers
<1>6. QED
  BY <1>1, <1>5, TotalIsInt

LEMMA NextRunStarts ==
    ASSUME RebalanceInv, NextRun
    PROVE  RebalanceInv'
<1>1. PICK filled \in SUBSET orders :
        /\ cash' = cash + Total([o \in filled |-> Proceeds(o)])
        /\ held' = [c \in Codes |-> held[c] + Total([o \in {o \in filled : o.code = c} |-> Received(o)])]
  BY DEF NextRun
<1>2. cash' \in Int
  BY <1>1, ProceedsAreInts DEF RebalanceInv, AccountInv
<1>3. held' \in [Codes -> Nat]
  BY <1>1, FilledFits DEF RebalanceInv
<1>4. /\ left' = left - 1 /\ left > 1 /\ quotes' \in Quotes /\ targets' = targets /\ step' = "snapshot"
      /\ weights' = <<>> /\ locked' = {} /\ budgets' = <<>> /\ shares' = <<>> /\ extra' = <<>>
      /\ buys' = {} /\ budget' = 0 /\ orders' = {}
  BY DEF NextRun
<1>5. left' \in 1..FirstLeft
  BY <1>4, RebalanceAssumption DEF RebalanceInv, AccountInv
<1>6. AccountInv'
  BY <1>2, <1>3, <1>4, <1>5 DEF RebalanceInv, AccountInv, Phases
<1>7. DOMAIN budgets' = {}
  BY <1>4, NothingYet
<1>8. WeightsInv' /\ SharesInv'
  BY <1>4, NothingYet DEF WeightsInv, SharesInv
<1>9. SharesUseBudgets'
  BY <1>4, <1>7 DEF SharesUseBudgets
<1>10. PlacedInv'
  BY <1>4 DEF PlacedInv
<1>11. QED
  BY <1>6, <1>8, <1>9, <1>10 DEF RebalanceInv

LEMMA NothingMoves ==
    ASSUME RebalanceInv, UNCHANGED rebalanceVars
    PROVE  RebalanceInv'
<1>1. UNCHANGED <<input, weights, locked, budgets, shares, extra, buys, budget, orders, step>>
  BY DEF rebalanceVars, input
<1>2. step' \in Phases /\ locked' \subseteq Kept \cap Holding /\ budget' \in Nat
  BY <1>1 DEF Phases, RebalanceInv, AccountInv
<1>3. AccountInv' /\ Kept' = Kept /\ Priced' = Priced
  BY <1>1, <1>2, AccountKept DEF RebalanceInv
<1>4. WeightsInv' /\ SharesInv'
  BY <1>1, <1>3 DEF RebalanceInv, WeightsInv, SharesInv
<1>5. SharesUseBudgets'
  <2>1. CASE step \in {"shares", "buys", "sent"}
    BY <1>1, <2>1, SharesKept DEF RebalanceInv
  <2>2. CASE step \notin {"shares", "buys", "sent"}
    <3>1. DOMAIN budgets' = {} /\ step' = step
      BY <1>1, <2>2 DEF RebalanceInv, SharesInv, AccountInv, Phases
    <3>2. QED
      BY <2>2, <3>1 DEF SharesUseBudgets
  <2>3. QED
    BY <2>1, <2>2
<1>6. PlacedInv'
  BY <1>1, <1>2, PlacedKept DEF RebalanceInv, AccountInv
<1>7. QED
  BY <1>3, <1>4, <1>5, <1>6 DEF RebalanceInv

LEMMA RebalanceInvariance == RebalanceSpec => []RebalanceInv
<1>1. ASSUME RebalanceInv, [RebalanceNext]_rebalanceVars PROVE RebalanceInv'
  <2>1. CASE BeginRun
    BY <1>1, <2>1, RunBegins
  <2>2. CASE Drop
    BY <1>1, <2>2, WeightsDrop
  <2>3. CASE Lock
    BY <1>1, <2>3, HoldingsLock
  <2>4. CASE Allocated
    BY <1>1, <2>4, SharesAreAllocated
  <2>5. CASE AddShare
    BY <1>1, <2>5, SharesAreAdded
  <2>6. CASE MakeOrders
    BY <1>1, <2>6, OrdersAreMade
  <2>7. CASE CutBuy
    BY <1>1, <2>7, BuyIsCut
  <2>8. CASE Send
    BY <1>1, <2>8, OrdersAreSent
  <2>9. CASE NextRun
    BY <1>1, <2>9, NextRunStarts
  <2>10. CASE UNCHANGED rebalanceVars
    BY <1>1, <2>10, NothingMoves
  <2>11. QED
    BY <1>1, <2>1, <2>2, <2>3, <2>4, <2>5, <2>6, <2>7, <2>8, <2>9, <2>10 DEF RebalanceNext
<1>2. QED
  BY <1>1, RebalanceStarts, PTL DEF RebalanceSpec

-----------------------------------------------------------------------------
(* What it gives.                                                          *)

\* The invariant says what an account and an exchange can take.
LEMMA SoundOrders ==
    ASSUME RebalanceInv
    PROVE  OrdersAreSound
<1>1. RebalanceTypeOK
  <2>1. step \in {"snapshot", "allocate", "shares", "buys", "sent"} /\ locked \subseteq Kept \cap Holding
    BY DEF RebalanceInv, AccountInv, Phases
  <2>2. DOMAIN weights \subseteq Kept \cap Priced
    BY DEF RebalanceInv, WeightsInv
  <2>3. \A c \in DOMAIN budgets : budgets[c] > 0 /\ shares[c] > 0 /\ extra[c] >= 0
    BY DEF RebalanceInv, SharesInv, Positive
  <2>4. QED
    BY <2>1, <2>2, <2>3 DEF RebalanceInv, AccountInv, RebalanceTypeOK
<1>2. Spent(orders) <= 100 * Max({cash, 0})
  <2>1. CASE step \in {"buys", "sent"}
    <3>1. Spent(orders) + budget = Spendable /\ budget \in Nat
      BY <2>1 DEF RebalanceInv, PlacedInv, AccountInv
    <3>2. Spent(orders) \in Int
      <4>1. PICK f : f = [o \in BuysOf(orders) |-> o.quantity * Cost(o)]
        OBVIOUS
      <4>2. IsFiniteSet(orders)
        BY OrdersAreFew, PricesAreKnown DEF RebalanceInv, PlacedInv, Made
      <4>3. IsFiniteSet(BuysOf(orders))
        BY <4>2, FS_Subset DEF BuysOf
      <4>4. ASSUME NEW o \in BuysOf(orders) PROVE o.quantity * Cost(o) \in Int
        <5>1. Made(o)
          BY <4>4 DEF RebalanceInv, PlacedInv, BuysOf
        <5>2. o.quantity \in Positive /\ Cost(o) \in Int
          BY <5>1, OrderIsMade DEF RebalanceInv
        <5>3. QED
          BY <5>2 DEF Positive
      <4>5. Numbers(f)
        BY <4>1, <4>3, <4>4 DEF Numbers
      <4>6. QED
        BY <4>1, <4>5, TotalIsInt DEF Spent
    <3>3. Spendable \in Nat
      BY SpendableIsNat DEF RebalanceInv
    <3>4. QED
      BY <3>1, <3>2, <3>3 DEF Spendable
  <2>2. CASE step \notin {"buys", "sent"}
    <3>1. BuysOf(orders) = {}
      BY <2>2 DEF RebalanceInv, PlacedInv, BuysOf
    <3>2. Spent(orders) = 0
      BY <3>1, NothingSpent
    <3>3. Spendable \in Nat
      BY SpendableIsNat DEF RebalanceInv
    <3>4. QED
      BY <3>2, <3>3 DEF Spendable
  <2>3. QED
    BY <2>1, <2>2
<1>3. OrdersFitAccount
  <2>1. \A o \in orders : o.quantity > 0
    BY DEF RebalanceInv, PlacedInv, Made, Positive
  <2>2. Spent(orders) = Total([o \in {o \in orders : o.side = "buy"} |-> o.quantity * Cost(o)])
    BY DEF Spent, BuysOf
  <2>3. QED
    BY <1>1, <1>2, <2>1, <2>2 DEF RebalanceInv, PlacedInv, OrdersFitAccount
<1>4. LimitsAreTradable
  <2>1. SUFFICES ASSUME NEW o \in orders, o.limit # 0
                 PROVE  LET q == quotes[o.code] IN
                        /\ o.limit % Tick(o.limit, 1) = 0
                        /\ o.side = "buy" => \/ o.limit = 1
                                             \/ /\ o.limit * WeekRuns <= Lower(q)
                                                /\ (o.limit + Tick(o.limit, 1)) * WeekRuns > Lower(q)
                        /\ o.side = "sell" => o.limit * WeekRuns >= Upper(q)
    BY DEF LimitsAreTradable
  <2>2. Made(o)
    BY DEF RebalanceInv, PlacedInv
  <2>3. o.side \in {"buy", "sell"} /\ quotes[o.code] \in Quote /\ o.limit = Limit(o.side, quotes[o.code])
    BY <2>1, <2>2, OrderIsMade DEF RebalanceInv
  <2>4. PICK q \in Quote : q = quotes[o.code]
    BY <2>3
  <2>5. QED
    BY <2>3, <2>4, LimitIsTradable DEF RebalanceInv
<1>5. QED
  BY <1>3, <1>4 DEF OrdersAreSound

\* The buys of a run never cost more than its cash, no order is for more than is
\* held or a second one for its stock, and every limit is on its tick grid.
THEOREM OrdersCorrect == RebalanceSpec => []OrdersAreSound
<1>1. RebalanceInv => OrdersAreSound
  BY SoundOrders
<1>2. QED
  BY <1>1, RebalanceInvariance, PTL

\* The loop of whole_shares never spends more than the budgets, ends only when
\* it can buy nothing more, and deals out evenly what it buys beyond them.
THEOREM SharesCorrect == RebalanceSpec => []SharesUseBudgets
<1>1. RebalanceInv => SharesUseBudgets
  BY DEF RebalanceInv
<1>2. QED
  BY <1>1, RebalanceInvariance, PTL

-----------------------------------------------------------------------------
(* The week: the hours of its sessions, and how many are left.             *)

Week(t) == Monday(Day(t))
Ahead(t) == {h \in Sessions(t) : h >= t}
Left(t) == Cardinality(Ahead(t))
Hours(D, X) == {24 * d + x : d \in D, x \in X}

\* An hour has one day and one hour of the day.
LEMMA HourOfDay ==
    ASSUME NEW d \in Int, NEW x \in 0..23
    PROVE  Day(24 * d + x) = d /\ Hour(24 * d + x) = x
<1>1. (24 * d + x) \div 24 = d /\ (24 * d + x) % 24 = x
  OBVIOUS
<1> QED BY <1>1 DEF Day, Hour

LEMMA DayOfHour ==
    ASSUME NEW t \in Int
    PROVE  Day(t) \in Int /\ Hour(t) \in 0..23 /\ t = 24 * Day(t) + Hour(t)
<1>1. t \div 24 \in Int
  OBVIOUS
<1>2. t % 24 \in 0..23
  OBVIOUS
<1>3. t = 24 * (t \div 24) + (t % 24)
  OBVIOUS
<1> QED BY <1>1, <1>2, <1>3 DEF Day, Hour

\* A week begins on a Monday and has seven days.
LEMMA MondayOfDay ==
    ASSUME NEW d \in Int
    PROVE  /\ Monday(d) \in Int /\ Monday(d) % 7 = 0 /\ d - Monday(d) = d % 7
           /\ d - Monday(d) \in 0..6
<1>1. PICK q \in Int, r \in 0..6 : d = 7 * q + r /\ d % 7 = r
  <2>1. d \div 7 \in Int
    OBVIOUS
  <2>2. d % 7 \in 0..6
    OBVIOUS
  <2>3. d = 7 * (d \div 7) + (d % 7)
    OBVIOUS
  <2> QED BY <2>1, <2>2, <2>3
<1>2. d - (d % 7) = 7 * q
  BY <1>1
<1>3. (7 * q) % 7 = 0
  OBVIOUS
<1> QED BY <1>1, <1>2, <1>3 DEF Monday

LEMMA DayOfWeek ==
    ASSUME NEW m \in Int, m % 7 = 0, NEW k \in 0..6
    PROVE  (m + k) % 7 = k /\ Monday(m + k) = m
<1>1. PICK q \in Int : m = 7 * q
  <2>1. m \div 7 \in Int
    OBVIOUS
  <2>2. m = 7 * (m \div 7) + (m % 7)
    OBVIOUS
  <2> QED BY <2>1, <2>2
<1>2. (m + k) % 7 = k
  BY <1>1
<1> QED BY <1>2 DEF Monday

\* So many hours as days times hours of the day.
LEMMA HoursCount ==
    ASSUME NEW D, IsFiniteSet(D), D \subseteq Int, NEW X, X \subseteq 0..23
    PROVE  /\ IsFiniteSet(Hours(D, X))
           /\ Cardinality(Hours(D, X)) = Cardinality(X) * Cardinality(D)
<1>1. IsFiniteSet(X)
  <2>1. PICK n \in Int : n = 23
    OBVIOUS
  <2>2. IsFiniteSet(0..n)
    BY FS_Interval
  <2> QED BY <2>1, <2>2, FS_Subset
<1>2. IsFiniteSet(D \X X)
  BY <1>1, FS_Product, Zenon
<1>3. Cardinality(D \X X) = Cardinality(D) * Cardinality(X)
  BY <1>1, FS_Product, Zenon
<1> DEFINE f == [p \in D \X X |-> 24 * p[1] + p[2]]
<1>4. ASSUME NEW d \in D, NEW x \in X PROVE f[<<d, x>>] = 24 * d + x
  OBVIOUS
<1>5. DOMAIN f = D \X X /\ f = [p \in D \X X |-> f[p]]
  OBVIOUS
<1> HIDE DEF f
<1>6. ASSUME NEW p \in D \X X
      PROVE  p = <<p[1], p[2]>> /\ p[1] \in D /\ p[2] \in X /\ f[p] = 24 * p[1] + p[2]
  <2>1. p = <<p[1], p[2]>> /\ p[1] \in D /\ p[2] \in X
    OBVIOUS
  <2> QED BY <1>4, <2>1
<1>7. f \in [D \X X -> Hours(D, X)]
  BY <1>5, <1>6 DEF Hours
<1>8. ASSUME NEW p \in D \X X, NEW q \in D \X X, f[p] = f[q]
      PROVE  p = q
  <2>1. 24 * p[1] + p[2] = 24 * q[1] + q[2]
    BY <1>6, <1>8
  <2>2. p[1] \in D /\ q[1] \in D /\ p[2] \in X /\ q[2] \in X
    BY <1>6
  <2>3. p[1] \in Int /\ q[1] \in Int /\ p[2] \in 0..23 /\ q[2] \in 0..23
    BY <2>2
  <2>4. p[1] = q[1] /\ p[2] = q[2]
    BY <2>1, <2>3
  <2> QED BY <1>6, <2>4
<1>9. \A h \in Hours(D, X) : \E p \in D \X X : f[p] = h
  <2> SUFFICES ASSUME NEW d \in D, NEW x \in X PROVE \E p \in D \X X : f[p] = 24 * d + x
    BY DEF Hours
  <2>1. <<d, x>> \in D \X X
    OBVIOUS
  <2> QED BY <2>1, <1>4
<1>10. ExistsBijection(D \X X, Hours(D, X))
  <2>1. f \in Injection(D \X X, Hours(D, X))
    BY <1>7, <1>8 DEF Injection, IsInjective
  <2>2. f \in Surjection(D \X X, Hours(D, X))
    BY <1>7, <1>9 DEF Surjection
  <2> QED BY <2>1, <2>2 DEF ExistsBijection, Bijection
<1>11. IsFiniteSet(Hours(D, X)) /\ Cardinality(Hours(D, X)) = Cardinality(D \X X)
  BY <1>2, <1>10, FS_Bijection
<1>12. Cardinality(D) \in Nat /\ Cardinality(X) \in Nat
  BY <1>1, FS_CardinalityType
<1> QED BY <1>3, <1>11, <1>12

\* The trading days of a week are days of it before Saturday.
LEMMA TradingDaysAre ==
    ASSUME NEW t \in Int
    PROVE  /\ TradingDays(Day(t)) \subseteq Int /\ IsFiniteSet(TradingDays(Day(t)))
           /\ TradingDays(Day(t)) = {d \in Week(t)..(Week(t) + 6) : IsTradingDay(d)}
           /\ Week(t) \in Int /\ Week(t) % 7 = 0 /\ Day(t) \in Week(t)..(Week(t) + 6)
<1>1. Day(t) \in Int
  BY DayOfHour
<1>2. /\ Week(t) \in Int /\ Week(t) % 7 = 0
      /\ Day(t) - Week(t) \in 0..6
  BY <1>1, MondayOfDay DEF Week
<1>3. PICK m : m = Week(t)
  OBVIOUS
<1>4. IsFiniteSet(m..(m + 4))
  BY <1>2, <1>3, FS_Interval
<1>5. TradingDays(Day(t)) = {d \in m..(m + 4) : IsTradingDay(d)}
  BY <1>3 DEF TradingDays, Week
<1>6. ASSUME NEW d \in m..(m + 6), IsTradingDay(d)
      PROVE  d \in m..(m + 4)
  <2>1. d - m \in 0..6 /\ d = m + (d - m)
    BY <1>2, <1>3
  <2>2. (m + (d - m)) % 7 = d - m
    BY <2>1, <1>2, <1>3, DayOfWeek
  <2>3. d - m < 5
    BY <2>1, <2>2, <1>6 DEF IsTradingDay
  <2> QED BY <2>1, <2>3, <1>2, <1>3
<1>7. {d \in m..(m + 4) : IsTradingDay(d)} = {d \in m..(m + 6) : IsTradingDay(d)}
  BY <1>6, <1>2, <1>3
<1>8. IsFiniteSet(TradingDays(Day(t))) /\ TradingDays(Day(t)) \subseteq Int
  BY <1>2, <1>3, <1>4, <1>5, FS_Subset
<1>9. Day(t) \in m..(m + 6)
  BY <1>1, <1>2, <1>3
<1> QED BY <1>2, <1>3, <1>5, <1>7, <1>8, <1>9

\* The sessions of a week are the hours of the exchange on its trading days.
LEMMA SessionsAre ==
    ASSUME NEW t \in Int
    PROVE  /\ Sessions(t) = Hours(TradingDays(Day(t)), FirstRun..LastRun)
           /\ FirstRun..LastRun \subseteq 0..23
           /\ Cardinality(FirstRun..LastRun) = RunsPerDay
<1>1. PICK D : D = TradingDays(Day(t))
  OBVIOUS
<1>2. PICK m : m = Week(t)
  OBVIOUS
<1>3. /\ D \subseteq Int /\ D = {d \in m..(m + 6) : IsTradingDay(d)} /\ m \in Int
  BY <1>1, <1>2, TradingDaysAre
<1>4. FirstRun \in 1..23 /\ LastRun \in FirstRun..23
  BY WeekAssumption
<1>5. FirstRun..LastRun \subseteq 0..23 /\ Cardinality(FirstRun..LastRun) = RunsPerDay
  BY <1>4, FS_Interval DEF RunsPerDay
<1>6. Sessions(t) = {h \in (24 * m)..(24 * m + 167) : TimerHour(h) /\ InSession(h)}
  BY <1>2 DEF Sessions, Week
<1>7. ASSUME NEW h \in Sessions(t) PROVE h \in Hours(D, FirstRun..LastRun)
  <2>1. h \in Int /\ 24 * m <= h /\ h <= 24 * m + 167
    BY <1>3, <1>6, <1>7
  <2>2. Day(h) \in Int /\ Hour(h) \in 0..23 /\ h = 24 * Day(h) + Hour(h)
    BY <2>1, DayOfHour
  <2>3. Day(h) \in m..(m + 6)
    BY <2>1, <2>2, <1>3
  <2>4. IsTradingDay(Day(h)) /\ Hour(h) \in FirstRun..LastRun
    BY <1>6, <1>7 DEF InSession
  <2>5. Day(h) \in D
    BY <2>3, <2>4, <1>3
  <2> QED BY <2>2, <2>4, <2>5 DEF Hours
<1>8. ASSUME NEW d \in D, NEW x \in FirstRun..LastRun PROVE 24 * d + x \in Sessions(t)
  <2>1. d \in Int /\ d \in m..(m + 6) /\ IsTradingDay(d) /\ x \in 0..23
    BY <1>3, <1>5
  <2>2. Day(24 * d + x) = d /\ Hour(24 * d + x) = x
    BY <2>1, HourOfDay
  <2>3. 24 * d + x \in (24 * m)..(24 * m + 167)
    BY <2>1, <1>3
  <2>4. InSession(24 * d + x) /\ TimerHour(24 * d + x)
    BY <2>1, <2>2 DEF InSession, TimerHour, IsTradingDay
  <2> QED BY <2>3, <2>4, <1>6
<1>9. Sessions(t) = Hours(D, FirstRun..LastRun)
  BY <1>7, <1>8 DEF Hours
<1> QED BY <1>1, <1>5, <1>9

\* hours_left counts the sessions of the week.
LEMMA RunsOfWeekCounts ==
    ASSUME NEW t \in Int
    PROVE  /\ RunsOfWeek(t) = Cardinality(Sessions(t)) /\ IsFiniteSet(Sessions(t))
<1>1. IsFiniteSet(TradingDays(Day(t))) /\ TradingDays(Day(t)) \subseteq Int
  BY TradingDaysAre
<1> QED BY <1>1, HoursCount, SessionsAre DEF RunsOfWeek

\* The sessions that are left: those of the days to come, and of this day.
LEMMA AheadAre ==
    ASSUME NEW t \in Int, InSession(t)
    PROVE  /\ Ahead(t) = Hours({d \in TradingDays(Day(t)) : d > Day(t)}, FirstRun..LastRun)
                            \cup Hours({Day(t)}, Hour(t)..LastRun)
           /\ Hours({d \in TradingDays(Day(t)) : d > Day(t)}, FirstRun..LastRun)
                            \cap Hours({Day(t)}, Hour(t)..LastRun) = {}
           /\ Day(t) \in TradingDays(Day(t))
<1>1. PICK D : D = TradingDays(Day(t))
  OBVIOUS
<1>2. PICK day \in Int, x \in 0..23 : day = Day(t) /\ x = Hour(t) /\ t = 24 * day + x
  BY DayOfHour
<1>3. D \subseteq Int /\ day \in D
  BY <1>1, <1>2, TradingDaysAre DEF InSession
<1>4. Sessions(t) = Hours(D, FirstRun..LastRun) /\ FirstRun..LastRun \subseteq 0..23
  BY <1>1, SessionsAre
<1>5. FirstRun \in 1..23 /\ LastRun \in FirstRun..23 /\ x \in FirstRun..LastRun
  BY <1>2, WeekAssumption DEF InSession
<1> DEFINE Late == {d \in D : d > day}
<1>6. ASSUME NEW d \in D, NEW y \in FirstRun..LastRun
      PROVE  24 * d + y >= t <=> d > day \/ (d = day /\ y >= x)
  <2>1. d \in Int /\ y \in 0..23
    BY <1>3, <1>4
  <2>2. t = 24 * day + x
    BY <1>2
  <2>3. CASE d > day
    BY <2>1, <2>2, <2>3
  <2>4. CASE d = day
    BY <2>1, <2>2, <2>4
  <2>5. CASE d < day
    BY <2>1, <2>2, <2>5
  <2> QED BY <2>1, <2>3, <2>4, <2>5
<1>7. Ahead(t) \subseteq Hours(Late, FirstRun..LastRun) \cup Hours({day}, x..LastRun)
  <2>1. SUFFICES ASSUME NEW d \in D, NEW y \in FirstRun..LastRun, 24 * d + y >= t
                 PROVE  24 * d + y \in Hours(Late, FirstRun..LastRun) \cup Hours({day}, x..LastRun)
    BY <1>4 DEF Ahead, Hours
  <2>2. CASE d > day
    BY <2>2 DEF Hours
  <2>3. CASE d = day /\ y >= x
    <3>1. y \in x..LastRun
      BY <2>3, <1>5
    <3> QED BY <2>3, <3>1 DEF Hours
  <2> QED BY <2>1, <2>2, <2>3, <1>6
<1>8. Hours(Late, FirstRun..LastRun) \subseteq Ahead(t)
  BY <1>4, <1>6 DEF Ahead, Hours
<1>9. Hours({day}, x..LastRun) \subseteq Ahead(t)
  <2>1. \A y \in x..LastRun : y \in FirstRun..LastRun /\ y >= x
    BY <1>5
  <2> QED BY <2>1, <1>3, <1>4, <1>6 DEF Ahead, Hours
<1>10. Hours(Late, FirstRun..LastRun) \cap Hours({day}, x..LastRun) = {}
  <2>1. SUFFICES ASSUME NEW d \in Late, NEW y \in FirstRun..LastRun, NEW z \in x..LastRun
                 PROVE  24 * d + y # 24 * day + z
    BY DEF Hours
  <2>2. d \in Int /\ d > day /\ y \in 0..23 /\ z \in 0..23
    BY <1>3, <1>4, <1>5
  <2> QED BY <2>2, <1>2
<1> HIDE DEF Late
<1>11. Ahead(t) = Hours(Late, FirstRun..LastRun) \cup Hours({day}, x..LastRun)
  BY <1>7, <1>8, <1>9
<1> QED BY <1>1, <1>2, <1>3, <1>10, <1>11 DEF Late

LEMMA MaxOfTwo == ASSUME NEW a \in Int, NEW b \in Int, b <= a PROVE Max({a, b}) = a
BY DEF Max

LEMMA MinOfTwo == ASSUME NEW a \in Int, NEW b \in Int, a <= b PROVE Min({a, b}) = a
BY DEF Min

\* In session, hours_left counts the sessions that are left, this one included.
LEMMA HoursLeftCounts ==
    ASSUME NEW t \in Int, InSession(t)
    PROVE  HoursLeft(t) = Left(t) /\ Left(t) \in 1..RunsOfWeek(t)
<1>1. PICK D : D = TradingDays(Day(t))
  OBVIOUS
<1>2. PICK day \in Int, x \in 0..23 : day = Day(t) /\ x = Hour(t) /\ t = 24 * day + x
  BY DayOfHour
<1>3. D \subseteq Int /\ IsFiniteSet(D) /\ day \in D
  BY <1>1, <1>2, TradingDaysAre DEF InSession
<1>4. FirstRun \in 1..23 /\ LastRun \in FirstRun..23 /\ x \in FirstRun..LastRun
  BY <1>2, WeekAssumption DEF InSession
<1>5. PICK Late : Late = {d \in D : d > day}
  OBVIOUS
<1>6. Late \subseteq Int /\ IsFiniteSet(Late)
  <2>1. Late \subseteq D
    BY <1>5
  <2> QED BY <2>1, <1>3, FS_Subset
<1>7. IsFiniteSet({day}) /\ Cardinality({day}) = 1
  BY FS_Singleton
<1>8. FirstRun..LastRun \subseteq 0..23 /\ x..LastRun \subseteq 0..23
  BY <1>4
<1>9. /\ IsFiniteSet(Hours(Late, FirstRun..LastRun))
      /\ Cardinality(Hours(Late, FirstRun..LastRun)) = RunsPerDay * Cardinality(Late)
  <2>1. Cardinality(FirstRun..LastRun) = RunsPerDay
    BY SessionsAre
  <2> QED BY <2>1, <1>6, <1>8, HoursCount
<1>10. /\ IsFiniteSet(Hours({day}, x..LastRun))
       /\ Cardinality(Hours({day}, x..LastRun)) = LastRun + 1 - x
  <2>1. Cardinality(x..LastRun) = LastRun - x + 1
    BY <1>4, FS_Interval
  <2>2. {day} \subseteq Int
    OBVIOUS
  <2>3. /\ IsFiniteSet(Hours({day}, x..LastRun))
        /\ Cardinality(Hours({day}, x..LastRun)) = Cardinality(x..LastRun) * Cardinality({day})
    BY <2>2, <1>7, <1>8, HoursCount
  <2> QED BY <2>1, <2>3, <1>4, <1>7
<1>11. /\ Ahead(t) = Hours(Late, FirstRun..LastRun) \cup Hours({day}, x..LastRun)
       /\ Hours(Late, FirstRun..LastRun) \cap Hours({day}, x..LastRun) = {}
  <2>1. Late = {d \in TradingDays(Day(t)) : d > Day(t)}
    BY <1>1, <1>2, <1>5
  <2>2. /\ Ahead(t) = Hours({d \in TradingDays(Day(t)) : d > Day(t)}, FirstRun..LastRun)
                            \cup Hours({Day(t)}, Hour(t)..LastRun)
        /\ Hours({d \in TradingDays(Day(t)) : d > Day(t)}, FirstRun..LastRun)
                            \cap Hours({Day(t)}, Hour(t)..LastRun) = {}
    BY AheadAre, Zenon
  <2>3. day = Day(t) /\ x = Hour(t)
    BY <1>2
  <2> QED BY <2>1, <2>2, <2>3, Zenon
<1>12. Left(t) = RunsPerDay * Cardinality(Late) + (LastRun + 1 - x)
  <2>1. PICK A, B : A = Hours(Late, FirstRun..LastRun) /\ B = Hours({day}, x..LastRun)
    OBVIOUS
  <2>2. IsFiniteSet(A) /\ IsFiniteSet(B)
    BY <2>1, <1>9, <1>10
  <2>3. Cardinality(A \cup B) = Cardinality(A) + Cardinality(B) - Cardinality(A \cap B)
    BY <2>2, FS_Union, Zenon
  <2>4. A \cap B = {} /\ Ahead(t) = A \cup B
    BY <2>1, <1>11
  <2>5. Cardinality({}) = 0
    BY FS_EmptySet
  <2>6. Cardinality(A) \in Nat /\ Cardinality(B) \in Nat
    BY <2>1, <1>9, <1>10, FS_CardinalityType
  <2>7. Left(t) = Cardinality(A) + Cardinality(B)
    <3>1. Cardinality(A \cap B) = 0
      BY <2>4, <2>5, Zenon
    <3>2. Left(t) = Cardinality(A \cup B)
      BY <2>4, Zenon DEF Left
    <3> HIDE DEF Left
    <3> QED BY <3>1, <3>2, <2>3, <2>6
  <2>8. Cardinality(A) = RunsPerDay * Cardinality(Late) /\ Cardinality(B) = LastRun + 1 - x
    BY <2>1, <1>9, <1>10
  <2> QED BY <2>7, <2>8
<1>13. Max({Hour(t), FirstRun}) = x /\ Min({x, LastRun + 1}) = x
  BY <1>2, <1>4, MaxOfTwo, MinOfTwo
<1>14. HoursLeft(t) = RunsPerDay * Cardinality(Late) + (LastRun + 1 - x)
  <2>1. Day(t) \in TradingDays(Day(t)) /\ Late = {d \in TradingDays(Day(t)) : d > Day(t)}
    BY <1>1, <1>2, <1>3, <1>5
  <2> QED BY <2>1, <1>13 DEF HoursLeft
<1>15. Left(t) \in 1..RunsOfWeek(t)
  <2>1. IsFiniteSet(Sessions(t)) /\ RunsOfWeek(t) = Cardinality(Sessions(t))
    BY RunsOfWeekCounts
  <2>2. Ahead(t) \subseteq Sessions(t)
    BY DEF Ahead
  <2>3. Cardinality(Ahead(t)) <= Cardinality(Sessions(t)) /\ IsFiniteSet(Ahead(t))
    BY <2>1, <2>2, FS_Subset
  <2>4. t \in Ahead(t)
    <3>1. t \in Hours({day}, x..LastRun)
      BY <1>2, <1>4 DEF Hours
    <3> QED BY <3>1, <1>11
  <2>5. Cardinality(Ahead(t)) # 0 /\ Cardinality(Ahead(t)) \in Nat /\ Cardinality(Sessions(t)) \in Nat
    BY <2>1, <2>3, <2>4, FS_EmptySet, FS_CardinalityType
  <2> QED BY <2>1, <2>3, <2>5 DEF Left
<1> QED BY <1>12, <1>14, <1>15

\* From one hour of a week to the next no more runs are left.
LEMMA LeftFalls ==
    ASSUME NEW t \in Int, Week(t + 1) = Week(t)
    PROVE  Left(t + 1) <= Left(t) /\ Left(t) \in Nat /\ Left(t + 1) \in Nat
<1>1. Sessions(t + 1) = Sessions(t)
  BY DEF Sessions, Week
<1>2. IsFiniteSet(Sessions(t)) /\ \A h \in Sessions(t) : h \in Int
  <2>1. Week(t) \in Int
    BY TradingDaysAre
  <2>2. \A h \in Sessions(t) : h \in Int
    BY <2>1 DEF Sessions, Week
  <2> QED BY <2>2, RunsOfWeekCounts
<1>3. Ahead(t + 1) \subseteq Ahead(t) /\ Ahead(t) \subseteq Sessions(t)
  BY <1>1, <1>2 DEF Ahead
<1>4. IsFiniteSet(Ahead(t)) /\ IsFiniteSet(Ahead(t + 1))
  BY <1>2, <1>3, FS_Subset
<1>5. Cardinality(Ahead(t + 1)) <= Cardinality(Ahead(t))
  BY <1>3, <1>4, FS_Subset
<1> QED BY <1>4, <1>5, FS_CardinalityType DEF Left

\* An hour in session is followed by one of its week.
LEMMA SessionsEndInWeek ==
    ASSUME NEW t \in Int, InSession(t)
    PROVE  Week(t + 1) = Week(t) /\ TimerHour(t) /\ t \in Sessions(t)
<1>1. PICK day \in Int, x \in 0..23 : day = Day(t) /\ x = Hour(t) /\ t = 24 * day + x
  BY DayOfHour
<1>2. PICK m \in Int, k \in 0..6 : m = Week(t) /\ m % 7 = 0 /\ day = m + k /\ k = day % 7
  <2>1. PICK m : m = Week(t)
    OBVIOUS
  <2>2. m \in Int /\ m % 7 = 0 /\ day - m = day % 7 /\ day - m \in 0..6
    BY <2>1, <1>1, MondayOfDay DEF Week
  <2>3. PICK k \in 0..6 : k = day - m
    BY <2>2
  <2>4. day = m + k
    BY <2>2, <2>3
  <2> QED BY <2>1, <2>2, <2>3, <2>4
<1>3. day = m + k
  BY <1>2
<1>4. t = 24 * day + x
  BY <1>1
<1>5. k < 5
  BY <1>1, <1>2 DEF InSession, IsTradingDay
<1>6. Week(t + 1) = m
  <2>1. CASE x < 23
    <3>1. Day(t + 1) = day
      <4>1. x + 1 \in 0..23 /\ t + 1 = 24 * day + (x + 1)
        BY <1>1, <2>1
      <4> QED BY <4>1, HourOfDay
    <3> QED BY <3>1, <1>1, <1>2 DEF Week
  <2>2. CASE x = 23
    <3>1. t + 1 = 24 * (m + (k + 1)) + 0 /\ m + (k + 1) \in Int /\ k + 1 \in 0..6
      BY <1>3, <1>4, <1>5, <2>2
    <3>2. Day(t + 1) = m + (k + 1)
      BY <3>1, HourOfDay
    <3>3. Monday(m + (k + 1)) = m
      BY <3>1, <1>2, DayOfWeek
    <3> QED BY <3>2, <3>3 DEF Week
  <2> QED BY <2>1, <2>2
<1>7. TimerHour(t)
  BY DEF TimerHour, InSession, IsTradingDay
<1>8. t \in (24 * m)..(24 * m + 167)
  BY <1>3, <1>4
<1>9. t \in Sessions(t)
  BY <1>2, <1>7, <1>8 DEF Sessions, Week
<1> QED BY <1>2, <1>6, <1>7, <1>9

\* What a run at work counted; what the last orders of a week counted; and, once
\* the run of an hour is over that nothing went wrong with, that it placed them.
WeekInv ==
    /\ now \in Nat /\ placed \in Nat /\ runsLeft \in Nat
    /\ due \in BOOLEAN /\ smooth \in BOOLEAN
    /\ state \in {"idle", "running", "failed", "late", "overdue"}
    /\ due => state = "idle"
    /\ state \in {"failed", "late", "overdue"} => smooth = FALSE
    /\ state = "running" => InSession(now) /\ runsLeft = Left(now)
    /\ state = "late" => runsLeft >= Left(now)
    /\ placed # 0 => placed >= Left(now)
    /\ smooth /\ InSession(now) /\ Day(now) <= CoveredThrough /\ ~due /\ state = "idle" =>
        placed = Left(now)

LEMMA FirstWeek == WeekInit => WeekInv
<1>1. 0 = 24 * 0 + 0 /\ Hour(24 * 0 + 0) = 0
  BY HourOfDay
<1>2. Hour(0) = 0
  BY <1>1
<1>3. ~InSession(0)
  BY <1>2, WeekAssumption DEF InSession
<1>4. now = 0 => ~InSession(now)
  BY <1>3
<1>5. SUFFICES ASSUME WeekInit PROVE WeekInv
  OBVIOUS
<1>6. /\ now = 0 /\ placed = 0 /\ runsLeft = 0 /\ due = FALSE /\ smooth = TRUE /\ state = "idle"
      /\ ~InSession(now)
  BY <1>4, <1>5 DEF WeekInit
<1>7. state # "running" /\ state # "late" /\ state # "failed" /\ state # "overdue"
  BY <1>6
<1>8. ~(smooth /\ InSession(now) /\ Day(now) <= CoveredThrough /\ ~due /\ state = "idle")
  BY <1>6, Zenon
<1>9. now \in Nat /\ placed \in Nat /\ runsLeft \in Nat
  BY <1>6
<1> QED BY <1>6, <1>7, <1>8, <1>9, Zenon DEF WeekInv

LEMMA HourPasses == WeekInv /\ NextHour => WeekInv'
<1> SUFFICES ASSUME WeekInv, NextHour PROVE WeekInv'
  OBVIOUS
<1>1. /\ now \in Nat /\ placed \in Nat /\ runsLeft \in Nat /\ due = FALSE /\ smooth \in BOOLEAN
      /\ state \in {"idle", "running", "failed"}
      /\ now' = now + 1 /\ runsLeft' = runsLeft
      /\ state' = IF state = "running" THEN "late" ELSE IF state = "failed" THEN "overdue" ELSE "idle"
      /\ placed' = IF Week(now + 1) # Week(now) THEN 0 ELSE placed
  BY DEF WeekInv, NextHour, Week
<1>2. IF TimerHour(now + 1) /\ state = "idle"
      THEN due' = TRUE /\ smooth' = TRUE
      ELSE due' = due /\ smooth' = (smooth /\ state = "idle")
  BY DEF NextHour, TimerHour, Day, Hour
<1>3. placed' # 0 => placed' >= Left(now + 1)
  <2>1. Week(now + 1) = Week(now) => Left(now + 1) <= Left(now) /\ Left(now) \in Nat /\ Left(now + 1) \in Nat
    BY <1>1, LeftFalls
  <2> QED BY <1>1, <2>1 DEF WeekInv
<1>4. state' = "late" => runsLeft' >= Left(now + 1)
  <2>1. SUFFICES ASSUME state = "running" PROVE runsLeft >= Left(now + 1)
    BY <1>1
  <2>2. InSession(now) /\ runsLeft = Left(now)
    BY <2>1 DEF WeekInv
  <2>3. Week(now + 1) = Week(now)
    BY <1>1, <2>2, SessionsEndInWeek
  <2>4. Left(now + 1) <= Left(now) /\ Left(now) \in Nat /\ Left(now + 1) \in Nat
    BY <1>1, <2>3, LeftFalls
  <2> QED BY <2>2, <2>4
<1>5. state' = "idle" /\ InSession(now + 1) => due' = TRUE
  <2>1. InSession(now + 1) => TimerHour(now + 1)
    BY <1>1, SessionsEndInWeek
  <2> QED BY <1>1, <1>2, <2>1
<1>6. /\ due' \in BOOLEAN /\ smooth' \in BOOLEAN
      /\ due' => state' = "idle"
      /\ state' \in {"late", "overdue"} => smooth' = FALSE
  BY <1>1, <1>2
<1>7. placed' \in Nat /\ state' \in {"idle", "late", "overdue"} /\ now' \in Nat /\ runsLeft' \in Nat
  BY <1>1
<1>8. (placed # 0 => placed >= Left(now))' /\ (state = "late" => runsLeft >= Left(now))'
  <2>1. now' = now + 1
    BY <1>1
  <2>2. Left(now)' = Left(now')
    BY DEF Left, Ahead, Sessions, TimerHour, InSession, IsTradingDay, Day, Hour, Monday
  <2> QED BY <1>3, <1>4, <2>1, <2>2
<1>9. (InSession(now) /\ state = "idle" => due = TRUE)'
  <2>1. InSession(now)' => InSession(now + 1)
    BY <1>1 DEF InSession, IsTradingDay, Day, Hour
  <2> QED BY <1>5, <2>1
<1> QED BY <1>6, <1>7, <1>8, <1>9 DEF WeekInv

\* What does not depend on anything but the hour.
LEMMA SameHour ==
    ASSUME now' = now
    PROVE  Left(now)' = Left(now) /\ InSession(now)' = InSession(now) /\ Day(now)' = Day(now)
BY DEF Left, Ahead, Sessions, TimerHour, InSession, IsTradingDay, Day, Hour, Monday

LEMMA RunStarts == WeekInv /\ StartRun => WeekInv'
<1> SUFFICES ASSUME WeekInv, StartRun PROVE WeekInv'
  OBVIOUS
<1>1. /\ now' = now /\ placed' = placed /\ due' = FALSE
      /\ now \in Nat /\ placed \in Nat /\ smooth \in BOOLEAN
      /\ placed # 0 => placed >= Left(now)
  BY DEF WeekInv, StartRun
<1>2. Left(now)' = Left(now) /\ InSession(now)' = InSession(now) /\ Day(now)' = Day(now)
  BY <1>1, SameHour
<1>3. Day(now) \in Int /\ CoveredThrough \in Int
  BY <1>1, DayOfHour, WeekAssumption
<1>4. CASE Day(now) > CoveredThrough
  <2>1. Fails
    BY <1>4, <1>3 DEF StartRun
  <2>2. runsLeft' = 0 /\ smooth' = FALSE /\ state' \in {"idle", "failed"}
    BY <2>1 DEF Fails, Over
  <2> QED BY <1>1, <1>2, <2>2 DEF WeekInv
<1>5. CASE Day(now) <= CoveredThrough /\ InSession(now)
  <2>1. ~(Day(now) > CoveredThrough)
    BY <1>3, <1>5
  <2>2. runsLeft' = HoursLeft(now) /\ state' = "running" /\ smooth' = smooth
    BY <1>5, <2>1 DEF StartRun
  <2>3. HoursLeft(now) = Left(now) /\ Left(now) \in 1..RunsOfWeek(now)
    BY <1>1, <1>5, HoursLeftCounts
  <2>4. Left(now) \in Nat
    BY <2>3
  <2> QED BY <1>1, <1>2, <1>5, <2>2, <2>3, <2>4 DEF WeekInv
<1>6. CASE ~(Day(now) > CoveredThrough) /\ ~(Day(now) <= CoveredThrough /\ InSession(now))
  <2>1. Over("idle") /\ smooth' = smooth
    BY <1>6 DEF StartRun
  <2>2. runsLeft' = 0 /\ state' = "idle"
    BY <2>1 DEF Over
  <2> QED BY <1>1, <1>2, <1>6, <2>1, <2>2 DEF WeekInv
<1> QED BY <1>4, <1>5, <1>6

LEMMA RunIsOver == WeekInv /\ (Missed \/ Finish \/ Fail) => WeekInv'
<1> SUFFICES ASSUME WeekInv, Missed \/ Finish \/ Fail PROVE WeekInv'
  OBVIOUS
<1>1. now' = now
  BY DEF Missed, Finish, Fail
<1>2. Left(now)' = Left(now) /\ InSession(now)' = InSession(now) /\ Day(now)' = Day(now)
  BY <1>1, SameHour
<1>3. CASE Missed
  BY <1>1, <1>2, <1>3 DEF WeekInv, Missed
<1>4. CASE Finish
  <2>1. /\ state \in {"running", "late"} /\ placed' = runsLeft /\ due' = due /\ smooth' = smooth
        /\ runsLeft' = 0 /\ state' = "idle"
    BY <1>4 DEF Finish, Over
  <2>2. CASE state = "running"
    <3>1. InSession(now) /\ runsLeft = Left(now) /\ runsLeft \in Nat
      BY <2>2 DEF WeekInv
    <3> QED BY <1>1, <1>2, <2>1, <3>1 DEF WeekInv
  <2>3. CASE state = "late"
    <3>1. runsLeft >= Left(now) /\ smooth = FALSE /\ due = FALSE
      BY <2>3 DEF WeekInv
    <3> QED BY <1>1, <1>2, <2>1, <3>1 DEF WeekInv
  <2> QED BY <2>1, <2>2, <2>3
<1>5. CASE Fail
  <2>1. /\ state \in {"running", "late"} /\ placed' = placed /\ due' = due /\ smooth' = FALSE
        /\ runsLeft' = 0 /\ state' \in {"idle", "failed"}
    BY <1>5 DEF Fail, Fails, Over
  <2> QED BY <1>1, <1>2, <2>1 DEF WeekInv
<1> QED BY <1>3, <1>4, <1>5

LEMMA WeekSteps == WeekInv /\ [WeekNext]_weekVars => WeekInv'
<1>1. WeekInv /\ UNCHANGED weekVars => WeekInv'
  <2> SUFFICES ASSUME WeekInv, UNCHANGED weekVars PROVE WeekInv'
    OBVIOUS
  <2>1. now' = now
    BY DEF weekVars
  <2>2. Left(now)' = Left(now) /\ InSession(now)' = InSession(now) /\ Day(now)' = Day(now)
    BY <2>1, SameHour
  <2> QED BY <2>2 DEF WeekInv, weekVars
<1> QED BY <1>1, HourPasses, RunStarts, RunIsOver DEF WeekNext

\* A run in session counts the sessions left of its week.
LEMMA StartCounts ==
    ASSUME WeekInv, [WeekNext]_weekVars, state # "running", state' = "running"
    PROVE  /\ runsLeft' = Cardinality({h \in Sessions(now) : h >= now})
           /\ weekRuns' = Cardinality(Sessions(now))
           /\ runsLeft' \in 1..weekRuns'
           /\ placed # 0 => runsLeft' <= placed
           /\ Day(now) <= CoveredThrough
<1>1. StartRun /\ ~Over("idle") /\ ~Fails
  <2>1. ~Over("idle") /\ ~Fails
    BY DEF Over, Fails
  <2>2. ~UNCHANGED weekVars /\ ~Missed /\ ~Finish /\ ~Fail
    BY <2>1 DEF weekVars, Missed, Finish, Fail
  <2>3. ~NextHour
    BY DEF NextHour
  <2> QED BY <2>1, <2>2, <2>3 DEF WeekNext
<1>2. now \in Nat /\ placed \in Nat /\ (placed # 0 => placed >= Left(now))
  BY DEF WeekInv
<1>3. Day(now) \in Int /\ CoveredThrough \in Int
  BY <1>2, DayOfHour, WeekAssumption
<1>4. Day(now) <= CoveredThrough /\ InSession(now)
      /\ runsLeft' = HoursLeft(now) /\ weekRuns' = RunsOfWeek(now)
  BY <1>1, <1>3 DEF StartRun
<1>5. HoursLeft(now) = Left(now) /\ Left(now) \in 1..RunsOfWeek(now)
  BY <1>2, <1>4, HoursLeftCounts
<1>6. RunsOfWeek(now) = Cardinality(Sessions(now))
  BY <1>2, RunsOfWeekCounts
<1>7. Left(now) = Cardinality({h \in Sessions(now) : h >= now})
  BY DEF Left, Ahead
<1> QED BY <1>2, <1>4, <1>5, <1>6, <1>7

\* A smooth last session ends with the orders of the last run.
LEMMA LastSession ==
    ASSUME WeekInv, [WeekNext]_weekVars, now' > now, smooth, now \in Sessions(now),
           Day(now) <= CoveredThrough, \A h \in Sessions(now) : h <= now, state = "idle"
    PROVE  placed = 1
<1>1. now \in Nat
  BY DEF WeekInv
<1>2. NextHour
  <2>1. now' # now
    BY <1>1
  <2> QED BY <2>1 DEF WeekNext, weekVars, Missed, StartRun, Finish, Fail
<1>3. ~due /\ InSession(now)
  BY <1>2 DEF NextHour, Sessions
<1>4. placed = Left(now)
  BY <1>3 DEF WeekInv
<1>5. Ahead(now) = {now}
  <2>1. \A h \in Sessions(now) : h \in Int
    <3>1. Week(now) \in Int
      BY <1>1, TradingDaysAre
    <3> QED BY <3>1 DEF Sessions, Week
  <2> QED BY <1>1, <2>1 DEF Ahead
<1>6. Left(now) = 1
  BY <1>5, FS_Singleton DEF Left
<1> QED BY <1>4, <1>6

\* Whatever hours are missed and whatever runs fail, a run in session counts
\* itself and the sessions that follow in its week, and never more than the orders
\* before it; and a week that was smooth in its last session ends with the orders
\* of a last run.
THEOREM CountdownCorrect == WeekSpec => RunsCountDown
<1>1. WeekSpec => []WeekInv
  BY FirstWeek, WeekSteps, PTL DEF WeekSpec
<1>2. WeekInv /\ [WeekNext]_weekVars =>
        /\ state # "running" /\ state' = "running" =>
            /\ runsLeft' = Cardinality({h \in Sessions(now) : h >= now})
            /\ weekRuns' = Cardinality(Sessions(now))
            /\ runsLeft' \in 1..weekRuns'
            /\ placed # 0 => runsLeft' <= placed
            /\ Day(now) <= CoveredThrough
        /\ now' > now /\ smooth /\ now \in Sessions(now) /\ Day(now) <= CoveredThrough
           /\ (\A h \in Sessions(now) : h <= now)
           /\ state = "idle"
           => placed = 1
  BY StartCounts, LastSession
<1> QED BY <1>1, <1>2, PTL DEF WeekSpec, RunsCountDown

=============================================================================
