--------------------------- MODULE ReadSideProofs ---------------------------
(***************************************************************************)
(* The tables of market_syncer stay fresh for any number of runs at once,  *)
(* editions of what the services serve, failures and kills; and what the   *)
(* readers of Postgres are answered is right whatever is written between   *)
(* their statements: pages are exact, answers from the graph are true, and *)
(* evidence is current.                                                    *)
(*                                                                         *)
(* IInv, the inductive invariant of the syncer, says of the one run that   *)
(* is at work (WorkerInv) that what it has fetched is no older than any    *)
(* table, and which tables it has already replaced; and of the tables      *)
(* (ReferInv) that they name companies that are there.  SearchInv says     *)
(* which parts of the evidence have been read at every statement.  NewsInv *)
(* says that the cursor is the key of the last row shown, and that what is *)
(* steady has been shown or lies behind it.  AnswerInv says of the answers *)
(* from the graph what they were chosen from; that this makes them true is *)
(* a matter of walks and paths alone, by induction over their length.      *)
(***************************************************************************)
EXTENDS ReadSide, FiniteSetTheorems, SequenceTheorems, WellFoundedInduction, TLAPS

-----------------------------------------------------------------------------
(* Numbers.                                                                *)

\* A set of numbers has a least one.
LEMMA LeastOf ==
    ASSUME NEW S \in SUBSET Nat, S # {}
    PROVE  \E n \in S : \A m \in S : n <= m
<1>1. PICK n \in S : \A m \in S : <<m, n>> \notin OpToRel(<, Nat)
  BY WFMin, NatLessThanWellFounded, Zenon
<1>2. \A m \in S : ~(m < n)
  BY <1>1 DEF OpToRel
<1>3. QED
  BY <1>2

\* A finite set of numbers is bounded.
LEMMA FiniteIsBounded ==
    ASSUME NEW S \in SUBSET Nat, IsFiniteSet(S)
    PROVE  \E n \in Nat : \A m \in S : m <= n
<1> DEFINE Bounded(T) == \E n \in Nat : \A m \in T : m <= n
           Sizes == {c \in Nat : \E T \in SUBSET Nat :
                        IsFiniteSet(T) /\ Cardinality(T) = c /\ ~Bounded(T)}
<1>1. SUFFICES Sizes = {}
  BY FS_CardinalityType
<1>2. SUFFICES ASSUME Sizes # {} PROVE FALSE
  OBVIOUS
<1>3. PICK c \in Sizes : \A d \in Sizes : c <= d
  BY <1>2, LeastOf
<1>4. PICK T \in SUBSET Nat : IsFiniteSet(T) /\ Cardinality(T) = c /\ ~Bounded(T)
  BY <1>3
<1>5. PICK x \in T : TRUE
  BY <1>4
<1>6. IsFiniteSet(T \ {x}) /\ Cardinality(T \ {x}) = c - 1
  BY <1>4, <1>5, FS_RemoveElement
<1>7. c - 1 \in Nat
  BY <1>6, FS_CardinalityType
<1>8. Bounded(T \ {x})
  BY <1>3, <1>6, <1>7
<1>9. PICK n \in Nat : \A m \in T \ {x} : m <= n
  BY <1>8
<1>10. n + x \in Nat /\ \A m \in T : m <= n + x
  BY <1>5, <1>9
<1>11. QED
  BY <1>4, <1>10

\* So it has a greatest element.
LEMMA GreatestOf ==
    ASSUME NEW S \in SUBSET Nat, IsFiniteSet(S), S # {}
    PROVE  \E n \in S : \A m \in S : m <= n
<1>1. PICK b \in Nat : \A m \in S : m <= b
  BY FiniteIsBounded
<1> DEFINE Rest == {r \in Nat : b - r \in S}
<1>2. \A m \in S : b - m \in Nat /\ b - (b - m) = m
  BY <1>1
<1>3. Rest # {}
  BY <1>2
<1>4. PICK r \in Rest : \A q \in Rest : r <= q
  BY <1>3, LeastOf
<1>5. \A m \in S : b - m \in Rest
  BY <1>2
<1>6. b - r \in S /\ \A m \in S : m <= b - r
  <2>1. \A m \in S : r <= b - m
    BY <1>4, <1>5
  <2>2. QED
    BY <1>1, <1>4, <2>1
<1>7. QED
  BY <1>6

\* Min finds the least member.
LEMMA MinIsLeast ==
    ASSUME NEW S \in SUBSET Nat, S # {}
    PROVE  Min(S) \in S /\ \A n \in S : Min(S) <= n
<1>1. PICK n \in S : \A m \in S : n <= m
  BY LeastOf
<1>2. QED
  BY <1>1 DEF Min

\* What holds of 0, and of n + 1 if it holds of n, holds of every number.
LEMMA Induction ==
    ASSUME NEW P, 0 \in P, \A n \in Nat : n \in P => n + 1 \in P
    PROVE  \A n \in Nat : n \in P
<1> DEFINE Out == {n \in Nat : n \notin P}
<1>1. SUFFICES ASSUME Out # {} PROVE FALSE
  OBVIOUS
<1>2. PICK n \in Out : \A m \in Out : n <= m
  BY <1>1, LeastOf
<1>3. n # 0 /\ n - 1 \in Nat /\ n - 1 \notin Out
  BY <1>2
<1>4. n - 1 + 1 \in P
  BY <1>3
<1>5. QED
  BY <1>2, <1>4

-----------------------------------------------------------------------------
(* The tables of market_syncer.                                            *)

Table == {"corporations", "index", "themes"}
\* The steps at which rows have been fetched and not yet been stored.
Holding == {"corporations", "index", "fetch members", "themes"}
AfterIndex == {"fetch themes", "fetch members", "themes"}
AfterCorporations == {"fetch index", "index"} \cup AfterIndex
Steps == Ended \cup {"token", "fetch corporations", "corporations"} \cup AfterCorporations

StateInv ==
    /\ edition \in Editions /\ edition \in Nat
    /\ at \in [Table -> Nat]
    /\ pc \in [Workers -> Steps] /\ failed \in [Workers -> BOOLEAN]
    /\ began \in [Workers -> Nat] /\ fetched \in [Workers -> Nat]
    /\ listed = [w \in Workers |-> listed[w]]
    /\ \A t \in Table : at[t] <= edition

\* What a run that is at work relies on.
WorkerInv(w) ==
    pc[w] \notin Ended =>
        /\ lock = w /\ began[w] <= edition
        /\ pc[w] \in Holding =>
            /\ fetched[w] \in Editions /\ began[w] <= fetched[w] /\ fetched[w] <= edition
            /\ \A t \in Table : at[t] <= fetched[w]
        /\ ~failed[w] /\ pc[w] \in AfterCorporations => began[w] <= at["corporations"]
        /\ ~failed[w] /\ pc[w] \in AfterIndex => began[w] <= at["index"]
        /\ pc[w] = "themes" => \A k, l \in listed[w] : k.theme = l.theme => k = l

\* Index, themes and aliases are of companies that are there.
ReferInv ==
    /\ index \subseteq DOMAIN corporations
    /\ Members \subseteq DOMAIN corporations
    /\ Range(aliases) \subseteq DOMAIN corporations

IInv == StateInv /\ ReferInv /\ \A w \in Workers : WorkerInv(w)

\* What a step has to show.
Kept == IInv' /\ StaysFresh

-----------------------------------------------------------------------------
(* Lemmas.                                                                 *)

\* A number is no less than itself.
LEMMA Reflexive == \A n \in Nat : n <= n
OBVIOUS

\* The lock leaves one run at work.
LEMMA Alone ==
    ASSUME IInv, NEW w \in Workers, pc[w] \notin Ended, NEW v \in Workers, v # w
    PROVE  pc[v] \in Ended
BY DEF IInv, WorkerInv

\* So only its own part of the invariant is in question when it takes a step.
LEMMA OnlyWorker ==
    ASSUME IInv, NEW w \in Workers, pc[w] \notin Ended,
           \A v \in Workers : v # w => pc'[v] = pc[v],
           WorkerInv(w)'
    PROVE  \A v \in Workers : WorkerInv(v)'
<1>1. ASSUME NEW v \in Workers, v # w PROVE pc'[v] \in Ended
  BY <1>1, Alone
<1>2. ASSUME NEW v \in Workers PROVE WorkerInv(v)'
  <2>1. CASE v = w
    BY <2>1
  <2>2. CASE v # w
    BY <1>1, <2>2 DEF WorkerInv
  <2>3. QED
    BY <2>1, <2>2
<1>3. QED
  BY <1>2

\* The tables are left alone, and no run ends with 0.
LEMMA TablesKept ==
    ASSUME IInv, UNCHANGED tables, \A w \in Workers : pc[w] \notin Ended => pc'[w] # "ok"
    PROVE  StaysFresh /\ ReferInv'
<1>1. ReferInv' /\ Members' = Members
  BY DEF IInv, ReferInv, Members, tables
<1>2. \A t \in DOMAIN at : at'[t] >= at[t]
  BY DEF IInv, StateInv, tables
<1>3. QED
  BY <1>1, <1>2 DEF StaysFresh, ReferInv, tables

\* A run ends and gives up its lock, which leaves no run at work.
LEMMA EndInv ==
    ASSUME IInv, NEW w \in Workers, pc[w] \notin Ended, NEW how \in Ended, End(w, how),
           edition' = edition, at' \in [Table -> Nat], \A t \in Table : at'[t] <= edition
    PROVE  StateInv' /\ \A v \in Workers : WorkerInv(v)'
<1>1. /\ pc' \in [Workers -> Steps] /\ failed' \in [Workers -> BOOLEAN]
      /\ began' \in [Workers -> Nat] /\ fetched' \in [Workers -> Nat]
      /\ listed' = [v \in Workers |-> listed'[v]]
      /\ pc'[w] = how /\ \A v \in Workers : v # w => pc'[v] = pc[v]
  BY DEF End, Goto, IInv, StateInv, Steps
<1>2. StateInv'
  BY <1>1 DEF IInv, StateInv
<1>3. WorkerInv(w)'
  BY <1>1 DEF WorkerInv
<1>4. QED
  BY <1>1, <1>2, <1>3, OnlyWorker

\* A part fails: the run goes on without it, or ends.
LEMMA GiveUpInv ==
    ASSUME IInv, NEW w \in Workers, pc[w] \notin Ended, pc[w] # "token",
           GiveUp(w), UNCHANGED <<edition, tables>>
    PROVE  Kept
<1>1. at' = at /\ edition' = edition
  BY DEF tables
<1>2. CASE End(w, "error")
  <2>1. StateInv' /\ \A v \in Workers : WorkerInv(v)'
    BY <1>1, <1>2, EndInv DEF IInv, StateInv, Ended
  <2>2. \A v \in Workers : pc'[v] # pc[v] => pc'[v] = "error"
    BY <1>2 DEF End, Goto, IInv, StateInv
  <2>3. \A v \in Workers : pc[v] \notin Ended => pc'[v] # "ok"
    BY <2>2 DEF Ended
  <2>4. QED
    BY <2>1, <2>3, TablesKept DEF Kept, IInv
<1>3. ASSUME NEW to \in {"fetch index", "fetch themes"}, Goto(w, to), Fail(w),
             UNCHANGED <<lock, began, fetched, listed>>
      PROVE  Kept
  <2>1. /\ pc' \in [Workers -> Steps] /\ failed' \in [Workers -> BOOLEAN]
        /\ pc'[w] = to /\ failed'[w] = TRUE
        /\ \A v \in Workers : v # w => pc'[v] = pc[v]
    BY <1>3 DEF Goto, Fail, IInv, StateInv, Steps, AfterCorporations, AfterIndex
  <2>2. StateInv'
    BY <1>1, <1>3, <2>1 DEF IInv, StateInv
  <2>3. WorkerInv(w)'
    BY <1>1, <1>3, <2>1 DEF IInv, WorkerInv, Holding
  <2>4. \A v \in Workers : WorkerInv(v)'
    BY <2>1, <2>3, OnlyWorker
  <2>5. \A v \in Workers : pc[v] \notin Ended => pc'[v] # "ok"
    BY <2>1 DEF Ended
  <2>6. QED
    BY <2>2, <2>4, <2>5, TablesKept DEF Kept, IInv
<1>4. \/ End(w, "error")
      \/ \E to \in {"fetch index", "fetch themes"} :
            Goto(w, to) /\ Fail(w) /\ UNCHANGED <<lock, began, fetched, listed>>
  BY DEF GiveUp
<1>5. QED
  BY <1>2, <1>3, <1>4

-----------------------------------------------------------------------------
(* Steps that store nothing.                                               *)

\* Nothing has been stored at first.
LEMMA InitInv == Init => IInv
<1> SUFFICES ASSUME Init PROVE IInv
  OBVIOUS
<1>1. StateInv
  BY SyncAssumption DEF Init, StateInv, Table, Steps, Ended
<1>2. ReferInv
  BY DEF Init, ReferInv, Members, Range
<1>3. \A w \in Workers : WorkerInv(w)
  BY DEF Init, WorkerInv, Ended
<1>4. QED
  BY <1>1, <1>2, <1>3 DEF IInv

\* The services go on to their next edition.
LEMMA PublishInv ==
    ASSUME IInv, Publish
    PROVE  Kept
<1>1. UNCHANGED <<tables, lock, pc, locals>> /\ edition' = edition + 1 /\ edition' \in Editions
  BY DEF Publish
<1>2. at' = at /\ UNCHANGED <<failed, began, fetched, listed>>
  BY <1>1 DEF tables, locals
<1>3. StateInv'
  BY <1>1, <1>2 DEF IInv, StateInv
<1>4. \A w \in Workers : WorkerInv(w)'
  BY <1>1, <1>2 DEF IInv, StateInv, WorkerInv
<1>5. \A w \in Workers : pc[w] \notin Ended => pc'[w] # "ok"
  BY <1>1 DEF Ended
<1>6. QED
  BY <1>1, <1>3, <1>4, <1>5, TablesKept DEF Kept, IInv

\* A run starts: with the lock, when nobody is at work.
LEMMA StartInv ==
    ASSUME IInv, NEW w \in Workers, Start(w)
    PROVE  Kept
<1>1. UNCHANGED <<edition, tables, failed, fetched, listed>> /\ at' = at /\ pc[w] \in Ended
  BY DEF Start, tables
<1>2. CASE lock = None /\ lock' = w /\ Goto(w, "token") /\ began' = [began EXCEPT ![w] = edition]
  <2>1. /\ pc' \in [Workers -> Steps] /\ began' \in [Workers -> Nat]
        /\ pc'[w] = "token" /\ began'[w] = edition
        /\ \A v \in Workers : v # w => pc'[v] = pc[v]
    BY <1>2 DEF Goto, IInv, StateInv, Steps
  <2>2. \A v \in Workers : pc[v] \in Ended
    BY <1>2, SyncAssumption DEF IInv, WorkerInv
  <2>3. StateInv'
    BY <1>1, <2>1 DEF IInv, StateInv
  <2>4. WorkerInv(w)'
    <3>1. lock' = w /\ began'[w] <= edition'
      BY <1>1, <1>2, <2>1 DEF IInv, StateInv
    <3>2. pc'[w] \notin Holding /\ pc'[w] \notin AfterCorporations /\ pc'[w] \notin AfterIndex /\ pc'[w] # "themes"
      BY <2>1 DEF Holding, AfterCorporations, AfterIndex
    <3>3. QED
      BY <3>1, <3>2 DEF WorkerInv
  <2>5. \A v \in Workers : WorkerInv(v)'
    BY <2>1, <2>2, <2>4 DEF WorkerInv
  <2>6. QED
    BY <1>1, <2>2, <2>3, <2>5, TablesKept DEF Kept, IInv
<1>3. CASE Goto(w, "skipped") /\ UNCHANGED <<lock, began>>
  <2>1. /\ pc' \in [Workers -> Steps] /\ pc'[w] = "skipped"
        /\ \A v \in Workers : v # w => pc'[v] = pc[v]
    BY <1>3 DEF Goto, IInv, StateInv, Steps, Ended
  <2>2. StateInv'
    BY <1>1, <1>3, <2>1 DEF IInv, StateInv
  <2>3. ASSUME NEW v \in Workers PROVE WorkerInv(v)'
    <3>1. CASE v = w
      BY <2>1, <3>1 DEF WorkerInv, Ended
    <3>2. CASE v # w
      BY <1>1, <1>3, <2>1, <3>2 DEF IInv, WorkerInv
    <3>3. QED
      BY <3>1, <3>2
  <2>4. \A v \in Workers : pc[v] \notin Ended => pc'[v] # "ok"
    BY <1>1, <2>1 DEF Ended
  <2>5. QED
    BY <1>1, <2>2, <2>3, <2>4, TablesKept DEF Kept, IInv
<1>4. QED
  BY <1>2, <1>3 DEF Start, LockIsFree

\* A run is killed, or a part of it fails.
LEMMA FaultInv ==
    ASSUME IInv, NEW w \in Workers, Crash(w) \/ Fails(w)
    PROVE  Kept
<1>1. CASE Crash(w)
  <2>1. End(w, "error") /\ UNCHANGED <<edition, tables>> /\ at' = at /\ pc[w] \notin Ended
    BY <1>1 DEF Crash, tables
  <2>2. StateInv' /\ \A v \in Workers : WorkerInv(v)'
    BY <2>1, EndInv DEF IInv, StateInv, Ended
  <2>3. \A v \in Workers : pc'[v] # pc[v] => pc'[v] = "error"
    BY <2>1 DEF End, Goto, IInv, StateInv
  <2>4. \A v \in Workers : pc[v] \notin Ended => pc'[v] # "ok"
    BY <2>3 DEF Ended
  <2>5. QED
    BY <2>1, <2>2, <2>4, TablesKept DEF Kept, IInv
<1>2. CASE Fails(w)
  BY <1>2, GiveUpInv DEF Fails
<1>3. QED
  BY <1>1, <1>2

\* The token, and the pages of a list: what is fetched is the edition of now,
\* which no table can be ahead of.
LEMMA FetchInv ==
    ASSUME IInv, NEW w \in Workers,
           \/ Token(w) \/ FetchMembers(w)
           \/ Fetch(w, "fetch corporations", "corporations")
           \/ Fetch(w, "fetch index", "index")
           \/ Fetch(w, "fetch themes", "fetch members")
    PROVE  Kept
<1>1. UNCHANGED <<edition, tables, lock, failed, began>> /\ at' = at
  BY DEF Token, FetchMembers, Fetch, tables, locals
<1>2. ASSUME NEW to \in Steps \ Ended, pc[w] \notin Ended, Goto(w, to), WorkerInv(w)',
             fetched' \in [Workers -> Nat], listed' = [v \in Workers |-> listed'[v]]
      PROVE  Kept
  <2>1. /\ pc' \in [Workers -> Steps] /\ pc'[w] = to
        /\ \A v \in Workers : v # w => pc'[v] = pc[v]
    BY <1>2 DEF Goto, IInv, StateInv
  <2>2. StateInv'
    BY <1>1, <1>2, <2>1 DEF IInv, StateInv
  <2>3. \A v \in Workers : WorkerInv(v)'
    BY <1>2, <2>1, OnlyWorker
  <2>4. \A v \in Workers : pc[v] \notin Ended => pc'[v] # "ok"
    BY <2>1 DEF Ended
  <2>5. QED
    BY <1>1, <2>2, <2>3, <2>4, TablesKept DEF Kept, IInv
<1>3. CASE Token(w)
  <2>1. pc[w] = "token" /\ Goto(w, "fetch corporations") /\ UNCHANGED <<fetched, listed>>
    BY <1>3 DEF Token, locals
  <2>2. pc'[w] = "fetch corporations"
    BY <2>1 DEF Goto, IInv, StateInv
  <2>3. WorkerInv(w)'
    BY <1>1, <2>1, <2>2 DEF IInv, WorkerInv, Ended, Holding, AfterCorporations, AfterIndex
  <2>4. QED
    BY <1>2, <2>1, <2>3 DEF IInv, StateInv, Steps, Ended
<1>4. ASSUME NEW from \in {"fetch corporations", "fetch index", "fetch themes"},
             NEW to \in {"corporations", "index", "fetch members"}, Fetch(w, from, to),
             to \in AfterCorporations => from \in AfterCorporations,
             to \in AfterIndex => from \in AfterIndex
      PROVE  Kept
  <2>1. /\ pc[w] = from /\ Goto(w, to) /\ UNCHANGED listed
        /\ fetched' = [fetched EXCEPT ![w] = edition]
    BY <1>4 DEF Fetch
  <2>2. pc'[w] = to /\ fetched' \in [Workers -> Nat] /\ fetched'[w] = edition
    BY <2>1 DEF Goto, IInv, StateInv
  <2>3. pc[w] \notin Ended /\ to # "themes"
    BY <2>1 DEF Ended
  <2>4. /\ lock = w /\ began[w] <= edition
        /\ ~failed[w] /\ from \in AfterCorporations => began[w] <= at["corporations"]
        /\ ~failed[w] /\ from \in AfterIndex => began[w] <= at["index"]
    BY <2>1, <2>3 DEF IInv, WorkerInv
  <2>5. edition \in Editions /\ edition \in Nat /\ \A t \in Table : at[t] <= edition
    BY DEF IInv, StateInv
  <2>6. WorkerInv(w)'
    <3>1. lock' = w /\ began'[w] <= edition'
      BY <1>1, <2>4
    <3>2. /\ fetched'[w] \in Editions /\ began'[w] <= fetched'[w] /\ fetched'[w] <= edition'
          /\ \A t \in Table : at'[t] <= fetched'[w]
      <4>1. fetched'[w] = edition /\ edition' = edition /\ began'[w] = began[w] /\ at' = at
        BY <1>1, <2>2
      <4>2. \A t \in Table : at'[t] <= fetched'[w]
        BY <2>5, <4>1
      <4>3. fetched'[w] \in Editions /\ began'[w] <= fetched'[w]
        BY <2>4, <2>5, <4>1
      <4>4. fetched'[w] <= edition'
        BY <2>5, <4>1, Reflexive, Zenon
      <4>5. QED
        BY <4>2, <4>3, <4>4
    <3>3. /\ ~failed'[w] /\ pc'[w] \in AfterCorporations => began'[w] <= at'["corporations"]
          /\ ~failed'[w] /\ pc'[w] \in AfterIndex => began'[w] <= at'["index"]
      BY <1>1, <1>4, <2>2, <2>4
    <3>4. pc'[w] # "themes"
      BY <2>2, <2>3
    <3>5. QED
      BY <3>1, <3>2, <3>3, <3>4 DEF WorkerInv
  <2>7. to \in Steps \ Ended
    BY DEF Steps, Ended, AfterCorporations, AfterIndex
  <2>8. QED
    BY <1>2, <2>1, <2>2, <2>3, <2>6, <2>7 DEF IInv, StateInv
<1>5. CASE Fetch(w, "fetch corporations", "corporations")
  BY <1>4, <1>5 DEF AfterCorporations, AfterIndex
<1>6. CASE Fetch(w, "fetch index", "index")
  BY <1>4, <1>6 DEF AfterCorporations, AfterIndex
<1>7. CASE Fetch(w, "fetch themes", "fetch members")
  BY <1>4, <1>7 DEF AfterCorporations, AfterIndex
<1>8. CASE FetchMembers(w)
  <2> DEFINE member(t) == [theme |-> t, codes |->
                IF t \in DOMAIN Served[edition].themes THEN Served[edition].themes[t] ELSE {}]
  <2>1. /\ pc[w] = "fetch members" /\ Goto(w, "themes") /\ UNCHANGED fetched
        /\ listed' = [listed EXCEPT ![w] = {member(t) : t \in DOMAIN Answer(w).themes}]
    BY <1>8 DEF FetchMembers
  <2>2. pc'[w] = "themes" /\ listed'[w] = {member(t) : t \in DOMAIN Answer(w).themes}
        /\ listed' = [v \in Workers |-> listed'[v]]
    BY <2>1 DEF Goto, IInv, StateInv
  <2>3. ASSUME NEW k \in listed'[w], NEW l \in listed'[w], k.theme = l.theme PROVE k = l
    <3>1. PICK t \in DOMAIN Answer(w).themes : k = member(t)
      BY <2>2
    <3>2. PICK u \in DOMAIN Answer(w).themes : l = member(u)
      BY <2>2
    <3>3. k.theme = t /\ l.theme = u
      BY <3>1, <3>2
    <3>4. QED
      BY <2>3, <3>1, <3>2, <3>3
  <2>4. WorkerInv(w)'
    BY <1>1, <2>1, <2>2, <2>3 DEF IInv, WorkerInv, Ended, Holding, AfterCorporations, AfterIndex
  <2>5. QED
    BY <1>2, <2>1, <2>2, <2>4 DEF IInv, StateInv, Steps, Ended, AfterCorporations, AfterIndex
<1>9. QED
  BY <1>3, <1>5, <1>6, <1>7, <1>8

-----------------------------------------------------------------------------
(* The three transactions.                                                 *)

\* The companies of an answer have stock codes, and a name is entered for one of
\* them.
LEMMA AliasesKnown ==
    ASSUME NEW w \in Workers, fetched[w] \in Editions, Range(aliases) \subseteq DOMAIN corporations
    PROVE  Range(NewAliases(w)) \subseteq DOMAIN Joined(w) \cup DOMAIN corporations
<1> DEFINE new == [c \in DOMAIN Joined(w) |-> Answer(w).dart[c].names]
           having(n) == {c \in DOMAIN new : n \in new[c]}
           named == [n \in UNION Range(new) |-> Min(having(n))]
<1>1. DOMAIN Joined(w) \subseteq Nat
  BY SyncAssumption DEF Joined, Answer
<1>2. ASSUME NEW n \in UNION Range(new) PROVE named[n] \in DOMAIN Joined(w)
  <2>1. PICK c \in DOMAIN Joined(w) : n \in new[c]
    BY DEF Range
  <2>2. having(n) # {} /\ having(n) \subseteq DOMAIN Joined(w)
    BY <2>1
  <2> HIDE DEF having
  <2>3. having(n) \in SUBSET Nat
    BY <1>1, <2>2
  <2>4. Min(having(n)) \in having(n)
    BY <2>2, <2>3, MinIsLeast
  <2>5. QED
    BY <2>2, <2>4
<1>3. NewAliases(w) = Over(aliases, named)
  BY DEF NewAliases
<1>4. DOMAIN named = UNION Range(new)
  OBVIOUS
<1> HIDE DEF named, new
<1>5. ASSUME NEW n \in DOMAIN NewAliases(w)
      PROVE  NewAliases(w)[n] \in DOMAIN Joined(w) \cup DOMAIN corporations
  <2>1. n \in DOMAIN aliases \cup DOMAIN named
    BY <1>3 DEF Over
  <2>2. NewAliases(w)[n] = IF n \in DOMAIN aliases THEN aliases[n] ELSE named[n]
    BY <1>3, <2>1 DEF Over
  <2>3. CASE n \in DOMAIN aliases
    BY <2>2, <2>3 DEF Range
  <2>4. CASE n \notin DOMAIN aliases
    BY <1>2, <1>4, <2>1, <2>2, <2>4
  <2>5. QED
    BY <2>3, <2>4
<1>6. QED
  BY <1>5 DEF Range

\* The companies are upserted: none goes, and the run goes on with what it has
\* fetched in the table.
LEMMA CorporationsInv ==
    ASSUME IInv, NEW w \in Workers, SyncCorporations(w)
    PROVE  Kept
<1>1. pc[w] = "corporations" /\ UNCHANGED <<edition, faults>> /\ pc[w] \notin Ended /\ pc[w] \in Holding
  BY DEF SyncCorporations, Ended, Holding
<1>2. CASE GiveUp(w) /\ UNCHANGED tables
  BY <1>1, <1>2, GiveUpInv
<1>3. CASE /\ corporations' = Over(Joined(w), corporations)
           /\ aliases' = NewAliases(w)
           /\ at' = [at EXCEPT !.corporations = fetched[w]]
           /\ Goto(w, "fetch index")
           /\ UNCHANGED <<index, themes, lock, locals>>
  <2>1. /\ pc' \in [Workers -> Steps] /\ pc'[w] = "fetch index"
        /\ \A v \in Workers : v # w => pc'[v] = pc[v]
    BY <1>3 DEF Goto, IInv, StateInv, Steps, AfterCorporations
  <2>2. /\ lock = w /\ began[w] <= edition /\ fetched[w] \in Editions
        /\ began[w] <= fetched[w] /\ fetched[w] <= edition /\ \A t \in Table : at[t] <= fetched[w]
    BY <1>1 DEF IInv, WorkerInv
  <2>3. /\ at' \in [Table -> Nat] /\ at'["corporations"] = fetched[w]
        /\ \A t \in Table : t # "corporations" => at'[t] = at[t]
        /\ \A t \in Table : at'[t] >= at[t] /\ at'[t] <= edition
    <3>1. /\ at' \in [Table -> Nat] /\ at'["corporations"] = fetched[w]
          /\ \A t \in Table : t # "corporations" => at'[t] = at[t]
      BY <1>3 DEF IInv, StateInv, Table
    <3>2. \A t \in Table : at[t] \in Nat /\ at[t] <= edition
      BY DEF IInv, StateInv
    <3>3. fetched[w] \in Nat /\ edition \in Nat
      BY DEF IInv, StateInv
    <3>4. ASSUME NEW t \in Table PROVE at'[t] >= at[t] /\ at'[t] <= edition
      BY <2>2, <3>1, <3>2, <3>3
    <3>5. QED
      BY <3>1, <3>4
  <2>4. UNCHANGED <<failed, began, fetched, listed>>
    BY <1>3 DEF locals
  <2>5. StateInv'
    BY <1>1, <2>1, <2>3, <2>4 DEF IInv, StateInv
  <2>6. WorkerInv(w)'
    <3>1. pc'[w] \notin Holding /\ pc'[w] \notin AfterIndex /\ pc'[w] # "themes"
      BY <2>1 DEF Holding, AfterIndex
    <3>2. QED
      BY <1>1, <1>3, <2>2, <2>3, <2>4, <3>1 DEF WorkerInv
  <2>7. \A v \in Workers : WorkerInv(v)'
    BY <1>1, <2>1, <2>6, OnlyWorker
  <2>8. DOMAIN corporations' = DOMAIN Joined(w) \cup DOMAIN corporations
    BY <1>3 DEF Over
  <2>9. Range(aliases') \subseteq DOMAIN corporations'
    BY <1>3, <2>2, <2>8, AliasesKnown DEF IInv, ReferInv
  <2>10. Members' = Members /\ index' = index
    BY <1>3 DEF Members
  <2>11. ReferInv'
    BY <2>8, <2>9, <2>10 DEF IInv, ReferInv
  <2>12. \A v \in Workers : pc[v] \notin Ended => pc'[v] # "ok"
    BY <2>1 DEF Ended
  <2>13. DOMAIN at = Table
    BY DEF IInv, StateInv
  <2>14. StaysFresh
    BY <2>3, <2>8, <2>10, <2>11, <2>12, <2>13 DEF StaysFresh, ReferInv
  <2>15. QED
    BY <2>5, <2>7, <2>11, <2>14 DEF Kept, IInv
<1>4. QED
  BY <1>2, <1>3 DEF SyncCorporations

\* The index is replaced by the members that are companies, of which there is
\* one.
LEMMA IndexInv ==
    ASSUME IInv, NEW w \in Workers, ReplaceIndex(w)
    PROVE  Kept
<1>1. pc[w] = "index" /\ UNCHANGED <<edition, faults>> /\ pc[w] \notin Ended
      /\ pc[w] \in Holding /\ pc[w] \in AfterCorporations
  BY DEF ReplaceIndex, Ended, Holding, AfterCorporations
<1>2. CASE GiveUp(w) /\ UNCHANGED tables
  BY <1>1, <1>2, GiveUpInv
<1>3. CASE /\ HasMembers(Answer(w).index)
           /\ index' = KnownOf(Answer(w).index)
           /\ at' = [at EXCEPT !.index = fetched[w]]
           /\ Goto(w, "fetch themes")
           /\ UNCHANGED <<corporations, aliases, themes, lock, locals>>
  <2>1. /\ pc' \in [Workers -> Steps] /\ pc'[w] = "fetch themes"
        /\ \A v \in Workers : v # w => pc'[v] = pc[v]
    BY <1>3 DEF Goto, IInv, StateInv, Steps, AfterCorporations, AfterIndex
  <2>2. /\ lock = w /\ began[w] <= edition
        /\ began[w] <= fetched[w] /\ fetched[w] <= edition /\ \A t \in Table : at[t] <= fetched[w]
        /\ ~failed[w] => began[w] <= at["corporations"]
    BY <1>1 DEF IInv, WorkerInv
  <2>3. /\ at' \in [Table -> Nat] /\ at'["index"] = fetched[w]
        /\ \A t \in Table : t # "index" => at'[t] = at[t]
        /\ \A t \in Table : at'[t] >= at[t] /\ at'[t] <= edition
    <3>1. /\ at' \in [Table -> Nat] /\ at'["index"] = fetched[w]
          /\ \A t \in Table : t # "index" => at'[t] = at[t]
      BY <1>3 DEF IInv, StateInv, Table
    <3>2. \A t \in Table : at[t] \in Nat /\ at[t] <= edition
      BY DEF IInv, StateInv
    <3>3. fetched[w] \in Nat /\ edition \in Nat
      BY DEF IInv, StateInv
    <3>4. ASSUME NEW t \in Table PROVE at'[t] >= at[t] /\ at'[t] <= edition
      BY <2>2, <3>1, <3>2, <3>3
    <3>5. QED
      BY <3>1, <3>4
  <2>4. UNCHANGED <<failed, began, fetched, listed>>
    BY <1>3 DEF locals
  <2>5. StateInv'
    BY <1>1, <2>1, <2>3, <2>4 DEF IInv, StateInv
  <2>6. WorkerInv(w)'
    <3>1. pc'[w] \notin Holding /\ pc'[w] # "themes"
      BY <2>1 DEF Holding
    <3>2. at'["corporations"] = at["corporations"]
      BY <2>3 DEF Table
    <3>3. QED
      BY <1>1, <1>3, <2>2, <2>3, <2>4, <3>1, <3>2 DEF WorkerInv
  <2>7. \A v \in Workers : WorkerInv(v)'
    BY <1>1, <2>1, <2>6, OnlyWorker
  <2>8. index' # {} /\ index' \subseteq DOMAIN corporations
    BY <1>3 DEF HasMembers, KnownOf
  <2>9. Members' = Members /\ corporations' = corporations /\ aliases' = aliases
    BY <1>3 DEF Members
  <2>10. ReferInv'
    BY <2>8, <2>9 DEF IInv, ReferInv
  <2>11. \A v \in Workers : pc[v] \notin Ended => pc'[v] # "ok"
    BY <2>1 DEF Ended
  <2>12. DOMAIN at = Table
    BY DEF IInv, StateInv
  <2>13. StaysFresh
    BY <2>3, <2>8, <2>9, <2>10, <2>11, <2>12 DEF StaysFresh, ReferInv
  <2>14. QED
    BY <2>5, <2>7, <2>10, <2>13 DEF Kept, IInv
<1>4. QED
  BY <1>2, <1>3 DEF ReplaceIndex

\* The themes are replaced by those that were listed, one of which has a company
\* as a member; a run without failures has then replaced all three tables.
LEMMA ThemesInv ==
    ASSUME IInv, NEW w \in Workers, SyncThemes(w)
    PROVE  Kept
<1>1. pc[w] = "themes" /\ UNCHANGED <<edition, faults>> /\ pc[w] \notin Ended
      /\ pc[w] \in Holding /\ pc[w] \in AfterCorporations /\ pc[w] \in AfterIndex
  BY DEF SyncThemes, Ended, Holding, AfterCorporations, AfterIndex
<1>2. CASE GiveUp(w) /\ UNCHANGED tables
  BY <1>1, <1>2, GiveUpInv
<1>3. CASE /\ HasMembers(UNION {t.codes : t \in listed[w]})
           /\ themes' = [t \in {l.theme : l \in listed[w]} |->
                KnownOf((CHOOSE l \in listed[w] : l.theme = t).codes)]
           /\ at' = [at EXCEPT !.themes = fetched[w]]
           /\ Finish(w)
           /\ UNCHANGED <<corporations, aliases, index>>
  <2>1. /\ lock = w /\ began[w] <= edition
        /\ began[w] <= fetched[w] /\ fetched[w] <= edition /\ \A t \in Table : at[t] <= fetched[w]
        /\ ~failed[w] => began[w] <= at["corporations"] /\ began[w] <= at["index"]
        /\ \A k, l \in listed[w] : k.theme = l.theme => k = l
    BY <1>1 DEF IInv, WorkerInv
  <2>2. /\ at' \in [Table -> Nat] /\ at'["themes"] = fetched[w]
        /\ \A t \in Table : t # "themes" => at'[t] = at[t]
        /\ \A t \in Table : at'[t] >= at[t] /\ at'[t] <= edition
    <3>1. /\ at' \in [Table -> Nat] /\ at'["themes"] = fetched[w]
          /\ \A t \in Table : t # "themes" => at'[t] = at[t]
      BY <1>3 DEF IInv, StateInv, Table
    <3>2. \A t \in Table : at[t] \in Nat /\ at[t] <= edition
      BY DEF IInv, StateInv
    <3>3. fetched[w] \in Nat /\ edition \in Nat
      BY DEF IInv, StateInv
    <3>4. ASSUME NEW t \in Table PROVE at'[t] >= at[t] /\ at'[t] <= edition
      BY <2>1, <3>1, <3>2, <3>3
    <3>5. QED
      BY <3>1, <3>4
  <2>3. PICK how \in Ended : End(w, how) /\ (how = "ok" => ~failed[w])
    BY <1>3 DEF Finish, Ended
  <2>4. StateInv' /\ \A v \in Workers : WorkerInv(v)'
    BY <1>1, <2>2, <2>3, EndInv
  <2>5. \A v \in Workers : v # w => pc'[v] = pc[v]
    BY <2>3 DEF End, Goto, IInv, StateInv
  <2>6. pc'[w] = how
    BY <2>3 DEF End, Goto, IInv, StateInv
  <2>7. ASSUME NEW v \in Workers, pc[v] \notin Ended, pc'[v] = "ok"
        PROVE  \A t \in Table : at'[t] >= began[v]
    <3>1. v = w /\ ~failed[w]
      BY <2>3, <2>5, <2>6, <2>7 DEF Ended
    <3>2. began[w] \in Nat /\ fetched[w] \in Nat
      BY DEF IInv, StateInv
    <3>3. at'["corporations"] >= began[w] /\ at'["index"] >= began[w] /\ at'["themes"] >= began[w]
      <4>1. at'["corporations"] = at["corporations"] /\ at'["index"] = at["index"]
            /\ at["corporations"] \in Nat /\ at["index"] \in Nat
        BY <2>2 DEF IInv, StateInv, Table
      <4>2. QED
        BY <2>1, <2>2, <3>1, <3>2, <4>1
    <3>4. QED
      BY <3>1, <3>3 DEF Table
  <2>8. Members' \subseteq DOMAIN corporations
    BY <1>3 DEF Members, KnownOf
  <2>9. Members' # {}
    <3>1. PICK c \in DOMAIN corporations : c \in UNION {t.codes : t \in listed[w]}
      BY <1>3 DEF HasMembers, KnownOf
    <3>2. PICK k \in listed[w] : c \in k.codes
      BY <3>1
    <3>3. (CHOOSE l \in listed[w] : l.theme = k.theme) = k
      BY <2>1
    <3>4. k.theme \in DOMAIN themes' /\ themes'[k.theme] = KnownOf(k.codes)
      BY <1>3, <3>3
    <3>5. c \in KnownOf(k.codes)
      BY <3>1, <3>2 DEF KnownOf
    <3>6. QED
      BY <3>4, <3>5 DEF Members
  <2>10. ReferInv'
    BY <1>3, <2>8 DEF IInv, ReferInv
  <2>11. DOMAIN at = Table
    BY DEF IInv, StateInv
  <2>12. StaysFresh
    <3>1. corporations' = corporations /\ aliases' = aliases /\ index' = index
      BY <1>3
    <3>2. \A t \in DOMAIN at : at'[t] >= at[t]
      BY <2>2, <2>11
    <3>3. \A v \in Workers : pc[v] \notin Ended /\ pc'[v] = "ok" => \A t \in DOMAIN at : at'[t] >= began[v]
      BY <2>7, <2>11
    <3>4. QED
      BY <2>9, <2>10, <3>1, <3>2, <3>3 DEF StaysFresh, ReferInv
  <2>13. QED
    BY <2>4, <2>10, <2>12 DEF Kept, IInv
<1>4. QED
  BY <1>2, <1>3 DEF SyncThemes

-----------------------------------------------------------------------------
(* The theorem.                                                            *)

\* Every step keeps the invariant and the tables fresh.
LEMMA NextInv ==
    ASSUME IInv, Next
    PROVE  Kept
<1>1. ASSUME NEW w \in Workers, Start(w) \/ Run(w) \/ Fails(w) \/ Crash(w) PROVE Kept
  <2>1. CASE Run(w)
    BY <2>1, FetchInv, CorporationsInv, IndexInv, ThemesInv DEF Run
  <2>2. QED
    BY <1>1, <2>1, StartInv, FaultInv
<1>2. QED
  BY <1>1, PublishInv DEF Next

\* The invariant holds in every run of the program.
LEMMA Invariance == Spec => []IInv
<1>1. IInv /\ [Next]_vars => IInv'
  <2> SUFFICES ASSUME IInv, [Next]_vars PROVE IInv'
    OBVIOUS
  <2>1. CASE Next
    BY <2>1, NextInv DEF Kept
  <2>2. CASE UNCHANGED vars
    BY <2>2 DEF vars, tables, locals, IInv, StateInv, ReferInv, WorkerInv, Members
  <2>3. QED
    BY <2>1, <2>2
<1>2. QED
  BY <1>1, InitInv, PTL DEF Spec

\* No table goes back to an older edition, is emptied, or names a company that
\* is not there, and a run that ends with 0 has brought all of them to the
\* edition that was served when it began, or a later one: because of the lock no
\* other run stores anything between its fetches and its transactions.
THEOREM FreshCorrect == Spec => TablesAreFresh
<1>1. IInv /\ [Next]_vars => [StaysFresh]_vars
  BY NextInv DEF Kept
<1>2. QED
  BY <1>1, Invariance, PTL DEF Spec, TablesAreFresh

-----------------------------------------------------------------------------
(* The searches of disclosure_retrieval.                                   *)

\* The parts of an answer that are there at a step.
Bare == {"idle", "select", "list", "sections", "financials"}
Listed == {"selected", "listSeen"}
WithLatest == Listed \cup {"latest", "latestSeen"}
WithHistory == WithLatest \cup {"history", "historySeen"}

SearchInv ==
    /\ stored \subseteq Search!Filings
    /\ stage = "rerank" /\ search.history => evidence.historySeen \subseteq Search!Filings
    /\ stage # "idle" => search.asOf \in Nat
    /\ stage \in Bare => DOMAIN evidence = {"selected"}
    /\ stage \in {"count", "embed", "latest"} => DOMAIN evidence = Listed
    /\ stage = "history" => DOMAIN evidence = WithLatest /\ search.history = TRUE
    /\ stage = "rerank" =>
        DOMAIN evidence = IF search.history THEN WithHistory ELSE WithLatest
    /\ EvidenceIsCurrent

\* What is read last is put over what was read before.
LEMMA Overlaid ==
    ASSUME NEW p, NEW next, Search!Step(p, next)
    PROVE  /\ DOMAIN evidence' = DOMAIN p \cup DOMAIN evidence
           /\ \A k \in DOMAIN p : evidence'[k] = p[k]
           /\ \A k \in DOMAIN evidence \ DOMAIN p : evidence'[k] = evidence[k]
           /\ stage' = next /\ UNCHANGED <<stored, readable, indexed, changes, search>>
BY DEF Search!Step

\* The type of a filing is the one it was stored with, or that of its kind.
LEMMA TypeIsDetail ==
    ASSUME NEW f
    PROVE  search.detail = Search!NoType \/ Search!TypeOf(f) = search.detail <=> Search!OfDetail(f)
<1>1. CASE Filing[f].type # Search!NoType
  BY <1>1 DEF Search!TypeOf, Search!OfDetail
<1>2. CASE Filing[f].type = Search!NoType
  <2>1. PICK kind : kind = Filing[f].kind
    OBVIOUS
  <2>2. CASE kind = "annual"
    BY <1>2, <2>1, <2>2 DEF Search!TypeOf, Search!OfDetail, Search!PeriodicTypes, Search!NoType
  <2>3. CASE kind = "half"
    BY <1>2, <2>1, <2>3 DEF Search!TypeOf, Search!OfDetail, Search!PeriodicTypes, Search!NoType
  <2>4. CASE kind \in {"q1", "q3"}
    BY <1>2, <2>1, <2>4 DEF Search!TypeOf, Search!OfDetail, Search!PeriodicTypes, Search!NoType
  <2>5. CASE kind \notin {"annual", "half", "q1", "q3"}
    <3>1. Search!TypeOf(f) = Search!NoType
      BY <1>2, <2>1, <2>5 DEF Search!TypeOf
    <3>2. <<kind, search.detail>> \notin Search!PeriodicTypes
      BY <2>5 DEF Search!PeriodicTypes
    <3>3. QED
      BY <1>2, <2>1, <3>1, <3>2 DEF Search!OfDetail
  <2>6. QED
    BY <2>2, <2>3, <2>4, <2>5
<1>3. QED
  BY <1>1, <1>2

\* A report that the first statement counts has not been corrected.
LEMMA ReportsCount ==
    ASSUME stored \subseteq Search!Filings, NEW f \in Search!Reports
    PROVE  Search!Counts(f, stored) /\ Search!OfDetail(f)
<1>1. f \in stored /\ Search!Day(f) <= search.asOf
  BY DEF Search!Reports, Search!Newest, Search!PublishedBy
<1>2. ASSUME NEW g \in stored, Search!Day(g) <= search.asOf
      PROVE  ~Search!Corrects(g, f)
  <2>1. Search!Corrects(g, f) => Search!Family(g) = Search!Family(f) /\ Search!Later(g, f)
    BY DEF Search!Corrects, Search!Family, Search!None, Search!NoType
  <2>2. g \in Search!PublishedBy(search.asOf)
    BY <1>2 DEF Search!PublishedBy
  <2>3. Search!Family(g) = Search!Family(f) => ~Search!Later(g, f)
    BY <1>1, <2>2 DEF Search!Reports, Search!Newest
  <2>4. QED
    BY <2>1, <2>3
<1>3. Search!OfDetail(f)
  BY TypeIsDetail DEF Search!Reports
<1>4. QED
  BY <1>1, <1>2, <1>3 DEF Search!Counts

\* A filing is not later than itself.
LEMMA NotLater == \A f \in Search!Filings : ~Search!Later(f, f)
BY SearchAssumption DEF Search!Later, Search!Day, Search!Filings

\* One of two filings is later.
LEMMA OneIsLater ==
    \A f, g \in Search!Filings : f # g => Search!Later(f, g) \/ Search!Later(g, f)
BY SearchAssumption DEF Search!Later, Search!Day, Search!Filings

\* A later filing of the same family is a correction: of the list of revisions,
\* as of the first statement.
LEMMA FamilyCorrects ==
    ASSUME NEW f \in Search!Filings, NEW g \in Search!Filings, Search!Later(g, f),
           Search!Family(g) = Search!Family(f) \/ Search!RevisionFamily(g) = Search!RevisionFamily(f)
    PROVE  Search!Corrects(g, f)
<1>1. f # g
  BY NotLater
<1>2. CASE Search!Family(g) = Search!Family(f)
  BY <1>1, <1>2 DEF Search!Corrects, Search!Family, Search!None, Search!NoType
<1>3. CASE Search!RevisionFamily(g) = Search!RevisionFamily(f)
  BY <1>1, <1>3 DEF Search!Corrects, Search!RevisionFamily, Search!None, Search!NoType
<1>4. QED
  BY <1>2, <1>3

\* All that count and are asked for are among the reports.
LEMMA CountedReports ==
    ASSUME stored \subseteq Search!Filings,
           NEW f \in stored, Search!Counts(f, stored), Search!OfDetail(f)
    PROVE  f \in Search!Reports
<1>1. f \in Search!PublishedBy(search.asOf)
  BY DEF Search!Counts, Search!PublishedBy
<1>2. \A g \in Search!PublishedBy(search.asOf) :
        Search!Family(g) = Search!Family(f) => ~Search!Later(g, f)
  BY FamilyCorrects DEF Search!Counts, Search!PublishedBy
<1>3. Search!PublishedBy(search.asOf) \subseteq Search!Filings
  BY DEF Search!PublishedBy
<1>4. QED
  BY <1>1, <1>2, <1>3, TypeIsDetail DEF Search!Reports, Search!Newest

\* A revision that is read has not been corrected.
LEMMA RevisionsCount ==
    ASSUME stored \subseteq Search!Filings, NEW f \in Search!Revisions
    PROVE  Search!Counts(f, stored) /\ f \in stored
<1>1. f \in stored /\ Search!Day(f) <= search.asOf
  BY DEF Search!Revisions, Search!Newest, Search!PublishedBy
<1>2. ASSUME NEW g \in stored, Search!Day(g) <= search.asOf
      PROVE  ~Search!Corrects(g, f)
  <2>1. Search!Corrects(g, f) =>
          Search!RevisionFamily(g) = Search!RevisionFamily(f) /\ Search!Later(g, f)
    BY DEF Search!Corrects, Search!RevisionFamily, Search!None, Search!NoType
  <2>2. g \in Search!PublishedBy(search.asOf)
    BY <1>2 DEF Search!PublishedBy
  <2>3. Search!RevisionFamily(g) = Search!RevisionFamily(f) => ~Search!Later(g, f)
    BY <1>1, <2>2 DEF Search!Revisions, Search!Newest
  <2>4. QED
    BY <2>1, <2>3
<1>3. QED
  BY <1>1, <1>2 DEF Search!Counts

\* One of some filings is the last.
LEMMA LastExists ==
    ASSUME NEW S \in SUBSET Search!Filings, S # {}
    PROVE  \E f \in S : \A g \in S : ~Search!Later(g, f)
<1>1. IsFiniteSet(S) /\ \A f \in S : Search!Day(f) \in Nat /\ f \in Nat
  BY SearchAssumption, FS_Subset DEF Search!Day, Search!Filings
<1> DEFINE Days == {Search!Day(f) : f \in S}
<1>2. IsFiniteSet(Days) /\ Days \in SUBSET Nat /\ Days # {}
  <2> DEFINE day == [f \in S |-> Search!Day(f)]
  <2>1. day \in Surjection(S, Days)
    BY DEF Surjection
  <2>2. IsFiniteSet(Days)
    BY <1>1, <2>1, FS_Surjection
  <2>3. QED
    BY <1>1, <2>2
<1>3. PICK d \in Days : \A e \in Days : e <= d
  BY <1>2, GreatestOf
<1> DEFINE Newest == {f \in S : Search!Day(f) = d}
<1>4. IsFiniteSet(Newest) /\ Newest \in SUBSET Nat /\ Newest # {}
  BY <1>1, <1>3, FS_Subset
<1>5. PICK f \in Newest : \A g \in Newest : g <= f
  BY <1>4, GreatestOf
<1>6. \A g \in S : Search!Day(g) <= Search!Day(f)
  BY <1>3, <1>5
<1>7. \A g \in S : ~Search!Later(g, f)
  BY <1>1, <1>5, <1>6 DEF Search!Later
<1>8. QED
  BY <1>5, <1>7
\* The filing said to be the one before is the last that was corrected.
LEMMA PreviousIsLast ==
    ASSUME stored \subseteq Search!Filings, search.asOf \in Nat,
           NEW f \in stored, Search!Day(f) <= search.asOf,
           NEW g \in stored, Search!Corrects(f, g)
    PROVE  /\ Search!Previous(f) # {}
           /\ \A h \in Search!Previous(f) : Search!Corrects(f, h) /\ ~Search!Corrects(g, h)
<1> DEFINE Older == {h \in Search!PublishedBy(search.asOf) :
              Search!RevisionFamily(h) = Search!RevisionFamily(f) /\ Search!Later(f, h)}
<1>1. Search!Previous(f) = {h \in Older : \A k \in Older : ~Search!Later(k, h)}
  BY DEF Search!Previous
<1>2. Search!Later(f, g) /\ Search!RevisionFamily(g) = Search!RevisionFamily(f)
  BY DEF Search!Corrects, Search!RevisionFamily, Search!None, Search!NoType
<1>3. Search!Day(g) <= search.asOf
  <2>1. Search!Day(g) \in Nat /\ Search!Day(f) \in Nat
    BY SearchAssumption DEF Search!Day, Search!Filings
  <2>2. Search!Day(g) <= Search!Day(f)
    BY <1>2, <2>1 DEF Search!Later
  <2>3. QED
    BY <2>1, <2>2
<1>4. g \in Older /\ Older \in SUBSET Search!Filings
  BY <1>2, <1>3 DEF Search!PublishedBy
<1>5. Search!Previous(f) # {}
  <2> HIDE DEF Older
  <2>1. PICK h \in Older : \A k \in Older : ~Search!Later(k, h)
    BY <1>4, LastExists
  <2>2. QED
    BY <1>1, <2>1
<1>6. ASSUME NEW h \in Search!Previous(f)
      PROVE  Search!Corrects(f, h) /\ ~Search!Corrects(g, h)
  <2>1. h \in Older /\ ~Search!Later(g, h)
    BY <1>1, <1>4, <1>6
  <2>2. h \in Search!Filings /\ Search!Corrects(f, h)
    BY <1>4, <2>1, FamilyCorrects
  <2>3. QED
    BY <2>1, <2>2 DEF Search!Corrects
<1>7. QED
  BY <1>5, <1>6

\* The cardinality that the module of the searches knows.
LEMMA SameSize == \A S : Search!Cardinality(S) = Cardinality(S)
BY DEF Search!Cardinality, Cardinality

\* Evidence is of the filings looked through, and no more than asked for.
LEMMA EvidenceWithin ==
    ASSUME NEW S \in SUBSET Search!Filings, NEW documents, NEW chunks,
           NEW E \in Search!Evidence(S, documents, chunks)
    PROVE  /\ {c[1] : c \in E} \subseteq S
           /\ Cardinality(E) <= chunks
           /\ documents \in Nat => Cardinality({c[1] : c \in E}) <= documents
<1> DEFINE Eligible == {c \in Search!Chunks(S) : Search!DistanceOf(c) <= MaxDistance}
           Cited == {c[1] : c \in E}
<1>1. PICK ranked \in SUBSET {c[1] : c \in Eligible} :
        /\ Cardinality(ranked) <= documents
        /\ E \subseteq {c \in Eligible : c[1] \in ranked}
        /\ Cardinality(E) <= chunks
  <2> DEFINE best(f) == Search!Min({Search!DistanceOf(c) : c \in {c \in Eligible : c[1] = f}})
             Better(f, g) == best(f) < best(g) \/ (best(f) = best(g) /\ f < g)
             Documents == {c[1] : c \in Eligible}
             Under(r) == {c \in Eligible : c[1] \in r}
  <2>1. Search!Evidence(S, documents, chunks) =
          UNION {Search!FirstOf(Under(r), chunks, Search!ChunkLess) :
                   r \in Search!FirstOf(Documents, documents, Better)}
    BY DEF Search!Evidence
  <2>2. PICK r \in Search!FirstOf(Documents, documents, Better) :
          E \in Search!FirstOf(Under(r), chunks, Search!ChunkLess)
    BY <2>1
  <2>3. r \in SUBSET Documents /\ Cardinality(r) <= documents
    BY <2>2, SameSize DEF Search!FirstOf, Search!Limited
  <2>4. E \subseteq Under(r) /\ Cardinality(E) <= chunks
    BY <2>2, SameSize DEF Search!FirstOf, Search!Limited
  <2>5. QED
    BY <2>3, <2>4
<1>2. \A c \in Eligible : c[1] \in S
  BY DEF Search!Chunks
<1>3. ranked \subseteq S /\ Cited \subseteq ranked
  BY <1>1, <1>2
<1>4. IsFiniteSet(S)
  BY SearchAssumption, FS_Subset DEF Search!Filings
<1>5. IsFiniteSet(ranked)
  BY <1>3, <1>4, FS_Subset
<1>6. Cardinality(ranked) \in Nat /\ Cardinality(Cited) \in Nat
      /\ Cardinality(Cited) <= Cardinality(ranked)
  BY <1>3, <1>5, FS_Subset, FS_CardinalityType
<1>7. QED
  BY <1>1, <1>3, <1>6

\* EvidenceIsCurrent in parts.
LatestOK ==
    "latest" \in DOMAIN evidence =>
        /\ \A c \in evidence.latest :
            Search!Counts(c[1], evidence.latestSeen) /\ c[1] \in evidence.selected
        /\ Cardinality(evidence.latest) <= IF stage = "done" THEN TopK ELSE Search!ChunkLimit

HistoryOK ==
    "history" \in DOMAIN evidence =>
        /\ \A c \in evidence.history :
            /\ Search!Counts(c[1], evidence.historySeen) /\ c[1] \notin evidence.selected
            /\ Search!Day(c[1]) >= search.start
        /\ Cardinality({c[1] : c \in evidence.history}) <= HistoryLimit

ListOK ==
    "listSeen" \in DOMAIN evidence =>
        /\ \A f \in evidence.selected : Search!Counts(f, evidence.listSeen) /\ Search!OfDetail(f)
        /\ \A g \in evidence.listSeen \ evidence.selected :
            Search!Counts(g, evidence.listSeen) /\ Search!OfDetail(g) =>
                /\ Cardinality(evidence.selected) = search.limit
                /\ \A f \in evidence.selected : Search!Later(f, g)

PartsOK ==
    /\ "parts" \in DOMAIN evidence =>
        \A f \in evidence.parts : Search!Counts(f, evidence.partsSeen)
    /\ "previous" \in DOMAIN evidence =>
        \A f \in evidence.parts : \A g \in evidence.partsSeen : Search!Corrects(f, g) =>
            /\ evidence.previous[f] # {}
            /\ \A h \in evidence.previous[f] : Search!Corrects(f, h) /\ ~Search!Corrects(g, h)

LEMMA EvidenceInParts == EvidenceIsCurrent <=> LatestOK /\ HistoryOK /\ ListOK /\ PartsOK
<1>1. \A S : Search!Cardinality(S) = Cardinality(S)
  BY SameSize
<1>2. /\ "latest" \in DOMAIN evidence => {c[1] : c \in evidence["latest"]} = {c[1] : c \in evidence.latest}
      /\ "history" \in DOMAIN evidence => {c[1] : c \in evidence["history"]} = {c[1] : c \in evidence.history}
  OBVIOUS
<1>3. QED
  BY <1>1, <1>2 DEF EvidenceIsCurrent, Search!EvidenceIsCurrent, LatestOK, HistoryOK, ListOK, PartsOK

LEMMA PartsAreEvidence == (LatestOK /\ HistoryOK /\ ListOK /\ PartsOK)' => EvidenceIsCurrent'
BY EvidenceInParts, PTL

\* What has no evidence yet.
LEMMA StillBare ==
    ASSUME stored' \subseteq Search!Filings, search'.asOf \in Nat,
           DOMAIN evidence' = {"selected"}, stage' \in Bare \cup {"refused"}
    PROVE  SearchInv'
<1>1. (LatestOK /\ HistoryOK /\ ListOK /\ PartsOK)'
  BY DEF LatestOK, HistoryOK, ListOK, PartsOK
<1>2. EvidenceIsCurrent'
  BY <1>1, PartsAreEvidence
<1>3. QED
  BY <1>2 DEF SearchInv, Bare

\* The list of a search or of all reports as it was read.
LEMMA ListStays ==
    ASSUME ListOK, "listSeen" \in DOMAIN evidence,
           evidence'.selected = evidence.selected, evidence'.listSeen = evidence.listSeen,
           search' = search
    PROVE  ListOK'
BY DEF ListOK, Search!Counts, Search!OfDetail

\* The other services touch no search.
LEMMA OthersInv ==
    ASSUME SearchInv, Search!Store \/ Search!NewDocument \/ Search!IndexDocument
    PROVE  SearchInv'
<1>1. UNCHANGED <<search, stage, evidence>> /\ stored' \subseteq Search!Filings
  BY DEF SearchInv, Search!Store, Search!NewDocument, Search!IndexDocument, Search!Commit
<1>2. EvidenceIsCurrent'
  <2>1. (LatestOK /\ HistoryOK /\ ListOK /\ PartsOK)'
    <3>1. LatestOK /\ HistoryOK /\ ListOK /\ PartsOK
      BY EvidenceInParts DEF SearchInv
    <3>2. LatestOK'
      BY <1>1, <3>1 DEF LatestOK, Search!Counts, Search!ChunkLimit
    <3>3. HistoryOK'
      BY <1>1, <3>1 DEF HistoryOK, Search!Counts
    <3>4. ListOK'
      BY <1>1, <3>1 DEF ListOK, Search!Counts, Search!OfDetail
    <3>5. PartsOK'
      BY <1>1, <3>1 DEF PartsOK, Search!Counts
    <3>6. QED
      BY <3>2, <3>3, <3>4, <3>5
  <2>2. QED
    BY <2>1, PartsAreEvidence
<1>3. QED
  BY <1>1, <1>2 DEF SearchInv

LEMMA AskInv ==
    ASSUME SearchInv, Search!AskSearch \/ Search!AskOther
    PROVE  SearchInv'
<1>1. /\ stage = "idle" /\ UNCHANGED <<stored, evidence>>
      /\ search'.asOf \in Nat
      /\ stage' \in {"refused", "select", "list", "sections", "financials"}
  <2>1. CASE Search!AskSearch
    BY <2>1, SearchAssumption DEF Search!AskSearch, Search!Ask
  <2>2. CASE Search!AskOther
    BY <2>2, SearchAssumption DEF Search!AskOther, Search!Ask
  <2>3. QED
    BY <2>1, <2>2
<1>2. QED
  BY <1>1, StillBare DEF SearchInv, Bare

\* The reports of a search or a list count, and come before every one that is
\* left out.
LEMMA ListInv ==
    ASSUME SearchInv, Search!Select \/ Search!List
    PROVE  SearchInv'
<1>1. /\ DOMAIN evidence = {"selected"} /\ stored \subseteq Search!Filings
      /\ search.asOf \in Nat
  BY DEF Search!Select, Search!List, SearchInv, Bare
<1>2. PICK T \in Search!ReportRows(search.limit), next \in {"count", "done"} :
        Search!Step([selected |-> T, listSeen |-> stored], next)
  BY DEF Search!Select, Search!List
<1> DEFINE p == [selected |-> T, listSeen |-> stored]
<1>3. DOMAIN p = Listed /\ p["selected"] = T /\ p["listSeen"] = stored
  BY DEF Listed
<1>4. /\ DOMAIN evidence' = Listed
      /\ evidence'.selected = T /\ evidence'.listSeen = stored
      /\ stage' = next /\ UNCHANGED <<stored, search>>
  <2> HIDE DEF p
  <2>1. Search!Step(p, next)
    BY <1>2 DEF p
  <2>2. QED
    BY <1>1, <1>3, <2>1, Overlaid DEF Listed
<1>5. /\ T \subseteq Search!Reports
      /\ T = Search!Reports \/ Cardinality(T) = search.limit
      /\ \A f \in T, g \in Search!Reports \ T : ~Search!Later(g, f)
  BY <1>2, SameSize DEF Search!ReportRows, Search!FirstOf, Search!Limited
<1>6. ListOK'
  <2>1. \A f \in T : Search!Counts(f, stored) /\ Search!OfDetail(f) /\ f \in Search!Filings
    BY <1>1, <1>5, ReportsCount DEF Search!Counts
  <2>2. ASSUME NEW g \in stored \ T, Search!Counts(g, stored), Search!OfDetail(g)
        PROVE  Cardinality(T) = search.limit /\ \A f \in T : Search!Later(f, g)
    <3>1. g \in Search!Reports \ T /\ g \in Search!Filings
      BY <1>1, <2>2, CountedReports
    <3>2. ASSUME NEW f \in T PROVE Search!Later(f, g)
      BY <1>5, <2>1, <3>1, OneIsLater
    <3>3. QED
      BY <1>5, <3>1, <3>2
  <2>3. QED
    BY <1>4, <2>1, <2>2 DEF ListOK, Search!Counts, Search!OfDetail
<1>7. (LatestOK /\ HistoryOK /\ PartsOK)'
  BY <1>4 DEF LatestOK, HistoryOK, PartsOK, Listed
<1>8. EvidenceIsCurrent'
  BY <1>6, <1>7, PartsAreEvidence
<1>9. QED
  BY <1>1, <1>2, <1>4, <1>8 DEF SearchInv, Bare

\* Between the two transactions nothing is read.
LEMMA WaitInv ==
    ASSUME SearchInv, Search!Count \/ Search!Embed
    PROVE  SearchInv'
<1>1. stage \in {"count", "embed"} /\ DOMAIN evidence = Listed
  BY DEF Search!Count, Search!Embed, SearchInv
<1>2. PICK next \in {"embed", "done", "latest", "failed"} : Search!Step(<<>>, next)
  BY DEF Search!Count, Search!Embed
<1>3. DOMAIN <<>> = {}
  OBVIOUS
<1>4. /\ DOMAIN evidence' = Listed
      /\ evidence'.selected = evidence.selected /\ evidence'.listSeen = evidence.listSeen
      /\ stage' = next /\ UNCHANGED <<stored, search>>
  BY <1>1, <1>2, <1>3, Overlaid DEF Listed
<1>5. ListOK'
  BY <1>1, <1>4, ListStays, EvidenceInParts DEF SearchInv, Listed
<1>6. (LatestOK /\ HistoryOK /\ PartsOK)'
  BY <1>4 DEF LatestOK, HistoryOK, PartsOK, Listed
<1>7. EvidenceIsCurrent'
  BY <1>5, <1>6, PartsAreEvidence
<1>8. QED
  BY <1>1, <1>2, <1>4, <1>7 DEF SearchInv, Bare

\* The latest evidence is of the reports that were listed, and still count.
LEMMA LatestInv ==
    ASSUME SearchInv, Search!Latest
    PROVE  SearchInv'
<1> DEFINE S == {f \in Search!Ready : Search!LatestScope(f)}
           next == IF search.history THEN "history" ELSE Search!Following
<1>1. stage = "latest" /\ DOMAIN evidence = Listed /\ stored \subseteq Search!Filings
      /\ search.asOf \in Nat
  BY DEF Search!Latest, SearchInv, Bare
<1>2. PICK E \in Search!Evidence(S, search.limit, Search!ChunkLimit) :
        Search!Step([latest |-> E, latestSeen |-> stored], next)
  BY DEF Search!Latest
<1> DEFINE p == [latest |-> E, latestSeen |-> stored]
<1>3. DOMAIN p = {"latest", "latestSeen"} /\ p["latest"] = E /\ p["latestSeen"] = stored
  OBVIOUS
<1>4. /\ DOMAIN evidence' = WithLatest
      /\ evidence'.latest = E /\ evidence'.latestSeen = stored
      /\ evidence'.selected = evidence.selected /\ evidence'.listSeen = evidence.listSeen
      /\ stage' = next /\ UNCHANGED <<stored, search>>
  <2> HIDE DEF p, next
  <2>1. Search!Step(p, next)
    BY <1>2 DEF p
  <2>2. QED
    BY <1>1, <1>3, <2>1, Overlaid DEF WithLatest, Listed
<1>5. S \in SUBSET Search!Reports /\ S \in SUBSET Search!Filings
      /\ \A f \in S : f \in evidence.selected
  BY <1>1 DEF Search!Ready, Search!Reports, Search!Newest, Search!PublishedBy, Search!LatestScope
<1>6. /\ {c[1] : c \in E} \subseteq S /\ Cardinality(E) <= Search!ChunkLimit
  BY <1>2, <1>5, EvidenceWithin
<1>7. \A f \in S : Search!Counts(f, stored)
  BY <1>1, <1>5, ReportsCount
<1>8. LatestOK'
  <2>1. \A c \in E : Search!Counts(c[1], stored) /\ c[1] \in evidence.selected
    BY <1>5, <1>6, <1>7
  <2>2. \A c \in evidence'.latest :
          Search!Counts(c[1], evidence.latestSeen)' /\ c[1] \in evidence'.selected
    BY <1>4, <2>1 DEF Search!Counts
  <2>3. stage' = "done" => Search!ChunkLimit = TopK
    BY <1>4 DEF Search!Following, Search!ChunkLimit
  <2>4. Search!ChunkLimit' = Search!ChunkLimit
    BY <1>4 DEF Search!ChunkLimit
  <2>5. QED
    BY <1>4, <1>6, <2>2, <2>3, <2>4 DEF LatestOK, Search!Counts
<1>9. (HistoryOK /\ ListOK /\ PartsOK)'
  <2>1. ListOK'
    BY <1>1, <1>4, ListStays, EvidenceInParts DEF SearchInv, Listed
  <2>2. QED
    BY <1>4, <2>1 DEF HistoryOK, PartsOK, WithLatest, Listed
<1>10. EvidenceIsCurrent'
  BY <1>8, <1>9, PartsAreEvidence
<1>11. stage' \in {"history", "rerank", "done"} /\ (stage' = "history" <=> search.history)
       /\ (stage' = "rerank" => ~search.history)
  BY <1>4 DEF Search!Following
<1>12. QED
  BY <1>1, <1>4, <1>10, <1>11 DEF SearchInv, Bare, WithLatest, Listed

\* History is of other reports, that still count, and no older than asked for.
LEMMA HistoryInv ==
    ASSUME SearchInv, Search!History
    PROVE  SearchInv'
<1> DEFINE S == {f \in Search!Ready : Search!HistoryScope(f)}
<1>1. /\ stage = "history" /\ DOMAIN evidence = WithLatest /\ search.history = TRUE
      /\ stored \subseteq Search!Filings /\ search.asOf \in Nat
  BY DEF Search!History, SearchInv
<1>2. PICK E \in Search!Evidence(S, HistoryLimit, Search!ChunkLimit) :
        Search!Step([history |-> E, historySeen |-> stored], Search!Following)
  BY DEF Search!History
<1> DEFINE p == [history |-> E, historySeen |-> stored]
<1>3. DOMAIN p = {"history", "historySeen"} /\ p["history"] = E /\ p["historySeen"] = stored
  OBVIOUS
<1>4. /\ DOMAIN evidence' = WithHistory
      /\ evidence'.history = E /\ evidence'.historySeen = stored
      /\ evidence'.selected = evidence.selected /\ evidence'.listSeen = evidence.listSeen
      /\ evidence'.latest = evidence.latest /\ evidence'.latestSeen = evidence.latestSeen
      /\ stage' = Search!Following /\ UNCHANGED <<stored, search>>
  <2> HIDE DEF p
  <2>1. Search!Step(p, Search!Following)
    BY <1>2 DEF p
  <2>2. QED
    BY <1>1, <1>3, <2>1, Overlaid DEF WithLatest, WithHistory, Listed
<1>5. S \in SUBSET Search!Reports /\ S \in SUBSET Search!Filings
      /\ \A f \in S : f \notin evidence.selected /\ Search!Day(f) >= search.start
  BY <1>1 DEF Search!Ready, Search!Reports, Search!Newest, Search!PublishedBy, Search!HistoryScope
<1>6. {c[1] : c \in E} \subseteq S /\ Cardinality({c[1] : c \in E}) <= HistoryLimit
  BY <1>2, <1>5, EvidenceWithin, SearchAssumption
<1>7. \A f \in S : Search!Counts(f, stored)
  BY <1>1, <1>5, ReportsCount
<1>8. HistoryOK'
  <2>1. \A c \in E : /\ Search!Counts(c[1], stored) /\ c[1] \notin evidence.selected
                     /\ Search!Day(c[1]) >= search.start
    BY <1>5, <1>6, <1>7
  <2>2. QED
    BY <1>4, <1>6, <2>1 DEF HistoryOK, Search!Counts
<1>9. LatestOK'
  <2>1. LatestOK /\ "latest" \in DOMAIN evidence
    BY <1>1, EvidenceInParts DEF SearchInv, WithLatest, Listed
  <2>2. stage' = "done" => Search!ChunkLimit = TopK
    BY <1>4 DEF Search!Following, Search!ChunkLimit
  <2>3. Search!ChunkLimit' = Search!ChunkLimit
    BY <1>4 DEF Search!ChunkLimit
  <2>4. QED
    BY <1>1, <1>4, <2>1, <2>2, <2>3 DEF LatestOK, Search!Counts
<1>10. (ListOK /\ PartsOK)'
  <2>1. ListOK'
    BY <1>1, <1>4, ListStays, EvidenceInParts DEF SearchInv, WithLatest, Listed
  <2>2. QED
    BY <1>4, <2>1 DEF PartsOK, WithLatest, WithHistory, Listed
<1>11. EvidenceIsCurrent'
  BY <1>8, <1>9, <1>10, PartsAreEvidence
<1>12. stage' \in {"rerank", "done"}
  BY <1>4 DEF Search!Following
<1>13. QED
  BY <1>1, <1>4, <1>11, <1>12 DEF SearchInv, Bare, WithLatest, WithHistory, Listed

\* The reranker takes some of the candidates of each list.
LEMMA RerankInv ==
    ASSUME SearchInv, Search!Rerank
    PROVE  SearchInv'
<1>1. /\ stage = "rerank" /\ stored \subseteq Search!Filings /\ search.asOf \in Nat
      /\ DOMAIN evidence = IF search.history THEN WithHistory ELSE WithLatest
      /\ search.history => evidence.historySeen \subseteq Search!Filings
      /\ LatestOK /\ HistoryOK /\ ListOK
  BY EvidenceInParts DEF Search!Rerank, SearchInv
<1>2. ASSUME NEW p, Search!Step(p, "done"), "latest" \in DOMAIN p,
             DOMAIN p \subseteq IF search.history THEN {"latest", "history"} ELSE {"latest"},
             p["latest"] \in Search!Reranked(evidence.latest),
             "history" \in DOMAIN p => p["history"] \in Search!Reranked(evidence.history)
      PROVE  SearchInv'
  <2>1. /\ DOMAIN evidence' = DOMAIN evidence
        /\ evidence'.latest = p["latest"]
        /\ evidence'.selected = evidence.selected /\ evidence'.latestSeen = evidence.latestSeen
        /\ "listSeen" \in DOMAIN evidence /\ evidence'.listSeen = evidence.listSeen
        /\ search.history => evidence'.historySeen = evidence.historySeen
        /\ search.history => evidence'.history =
              IF "history" \in DOMAIN p THEN p["history"] ELSE evidence.history
        /\ stage' = "done" /\ UNCHANGED <<stored, search>>
    BY <1>1, <1>2, Overlaid DEF WithLatest, WithHistory, Listed
  <2>2. evidence'.latest \subseteq evidence.latest /\ Cardinality(evidence'.latest) <= TopK
    BY <1>2, <2>1, SameSize DEF Search!Reranked, Search!Limited
  <2>3. LatestOK'
    BY <1>1, <2>1, <2>2 DEF LatestOK, Search!Counts, WithLatest, WithHistory, Listed
  <2>4. search.history => evidence'.history \subseteq evidence.history
    BY <1>2, <2>1 DEF Search!Reranked, Search!Limited
  <2>5. HistoryOK'
    <3>1. CASE search.history
      <4>1. "history" \in DOMAIN evidence
        BY <1>1, <3>1 DEF WithHistory
      <4> DEFINE Old == {c[1] : c \in evidence.history}
                 New == {c[1] : c \in evidence'.history}
      <4>2. New \subseteq Old
        BY <2>4, <3>1
      <4>3. Old \in SUBSET Search!Filings
        BY <1>1, <3>1, <4>1 DEF HistoryOK, Search!Counts
      <4>4. IsFiniteSet(Old)
        BY <4>3, FS_Subset, SearchAssumption DEF Search!Filings
      <4>5. Cardinality(New) \in Nat /\ Cardinality(Old) \in Nat
            /\ Cardinality(New) <= Cardinality(Old)
        <5> HIDE DEF Old, New
        <5>1. QED
          BY <4>2, <4>4, FS_Subset, FS_CardinalityType
      <4>6. Cardinality(New) <= HistoryLimit
        <5>1. Cardinality(Old) <= HistoryLimit
          BY <1>1, <4>1 DEF HistoryOK
        <5>2. QED
          BY <4>5, <5>1, SearchAssumption
      <4>7. \A c \in evidence'.history :
              /\ Search!Counts(c[1], evidence.historySeen) /\ c[1] \notin evidence.selected
              /\ Search!Day(c[1]) >= search.start
        BY <1>1, <2>4, <3>1, <4>1 DEF HistoryOK
      <4>8. QED
        BY <2>1, <3>1, <4>6, <4>7 DEF HistoryOK, Search!Counts
    <3>2. CASE ~search.history
      BY <1>1, <2>1, <3>2 DEF HistoryOK, WithLatest, Listed
    <3>3. QED
      BY <3>1, <3>2
  <2>6. (ListOK /\ PartsOK)'
    <3>1. ListOK'
      BY <1>1, <2>1, ListStays
    <3>2. QED
      BY <1>1, <2>1, <3>1 DEF PartsOK, WithLatest, WithHistory, Listed
  <2>7. EvidenceIsCurrent'
    BY <2>3, <2>5, <2>6, PartsAreEvidence
  <2>8. QED
    BY <1>1, <2>1, <2>7 DEF SearchInv, Bare
<1>3. CASE Search!Step(<<>>, "failed")
  <2>1. DOMAIN <<>> = {}
    OBVIOUS
  <2>2. /\ DOMAIN evidence' = DOMAIN evidence /\ \A k \in DOMAIN evidence : evidence'[k] = evidence[k]
        /\ stage' = "failed" /\ UNCHANGED <<stored, search>>
    BY <1>3, <2>1, Overlaid
  <2>3. LatestOK'
    BY <1>1, <2>2 DEF LatestOK, Search!Counts, Search!ChunkLimit, WithLatest, WithHistory, Listed
  <2>4. HistoryOK'
    <3>1. CASE search.history
      <4>1. /\ evidence'.history = evidence.history
            /\ evidence'.historySeen = evidence.historySeen
            /\ evidence'.selected = evidence.selected
        BY <1>1, <2>2, <3>1 DEF WithLatest, WithHistory, Listed
      <4>2. QED
        BY <1>1, <2>2, <4>1 DEF HistoryOK, Search!Counts
    <3>2. CASE ~search.history
      BY <1>1, <2>2, <3>2 DEF HistoryOK, WithLatest, Listed
    <3>3. QED
      BY <3>1, <3>2
  <2>5. (ListOK /\ PartsOK)'
    <3>1. ListOK'
      BY <1>1, <2>2, ListStays DEF WithLatest, WithHistory, Listed
    <3>2. QED
      BY <1>1, <2>2, <3>1 DEF PartsOK, WithLatest, WithHistory, Listed
  <2>6. EvidenceIsCurrent'
    BY <2>3, <2>4, <2>5, PartsAreEvidence
  <2>7. QED
    BY <1>1, <2>2, <2>6 DEF SearchInv, Bare
<1>4. CASE ~Search!Step(<<>>, "failed")
  <2>1. PICK latest \in Search!Reranked(evidence.latest) :
          IF search.history
          THEN \E history \in Search!Reranked(evidence.history) :
                  Search!Step([latest |-> latest, history |-> history], "done")
          ELSE Search!Step([latest |-> latest], "done")
    BY <1>4 DEF Search!Rerank
  <2>2. CASE search.history
    <3>1. PICK history \in Search!Reranked(evidence.history) :
            Search!Step([latest |-> latest, history |-> history], "done")
      BY <2>1, <2>2
    <3> DEFINE p == [latest |-> latest, history |-> history]
    <3>2. DOMAIN p = {"latest", "history"} /\ p["latest"] = latest /\ p["history"] = history
      OBVIOUS
    <3>3. Search!Step(p, "done")
      BY <3>1
    <3> HIDE DEF p
    <3>4. QED
      BY <1>2, <2>2, <3>2, <3>3
  <2>3. CASE ~search.history
    <3> DEFINE p == [latest |-> latest]
    <3>1. DOMAIN p = {"latest"} /\ p["latest"] = latest
      OBVIOUS
    <3>2. Search!Step(p, "done")
      BY <2>1, <2>3
    <3> HIDE DEF p
    <3>3. QED
      BY <1>2, <2>3, <3>1, <3>2
  <2>4. QED
    BY <2>2, <2>3
<1>5. QED
  BY <1>3, <1>4

\* The sections and the facts are of revisions that count.
LEMMA PartsInv ==
    ASSUME SearchInv, Search!ReadSections \/ Search!ReadFinancials
    PROVE  SearchInv'
<1>1. /\ DOMAIN evidence = {"selected"} /\ stored \subseteq Search!Filings
      /\ search.asOf \in Nat
  BY DEF Search!ReadSections, Search!ReadFinancials, SearchInv, Bare
<1>2. PICK p : /\ Search!Step(p, "done")
               /\ DOMAIN p \in {{"parts", "partsSeen"}, {"parts", "previous", "partsSeen"}}
               /\ p["parts"] \subseteq Search!Revisions /\ p["partsSeen"] = stored
               /\ "previous" \in DOMAIN p =>
                    \A f \in p["parts"] : p["previous"][f] = Search!Previous(f)
  <2>1. CASE Search!ReadSections
    <3> DEFINE p == [parts |-> Search!Revisions \cap {search.receipt}, partsSeen |-> stored]
    <3>1. Search!Step(p, "done")
      BY <2>1 DEF Search!ReadSections
    <3>2. DOMAIN p = {"parts", "partsSeen"} /\ p["parts"] \subseteq Search!Revisions
          /\ p["partsSeen"] = stored
      OBVIOUS
    <3> HIDE DEF p
    <3>3. QED
      BY <3>1, <3>2
  <2>2. CASE Search!ReadFinancials
    <3> DEFINE facts == {f \in Search!Revisions :
                  Filing[f].kind \in Search!Periodic /\ Filing[f].year = search.year}
               p == [parts |-> facts, previous |-> [f \in facts |-> Search!Previous(f)],
                     partsSeen |-> stored]
    <3>1. Search!Step(p, "done")
      BY <2>2 DEF Search!ReadFinancials
    <3>2. DOMAIN p = {"parts", "previous", "partsSeen"} /\ p["parts"] \subseteq Search!Revisions
          /\ p["partsSeen"] = stored /\ \A f \in p["parts"] : p["previous"][f] = Search!Previous(f)
      OBVIOUS
    <3> HIDE DEF p
    <3>3. QED
      BY <3>1, <3>2
  <2>3. QED
    BY <2>1, <2>2
<1>3. /\ DOMAIN evidence' = DOMAIN p \cup {"selected"}
      /\ evidence'.parts = p["parts"] /\ evidence'.partsSeen = stored
      /\ "previous" \in DOMAIN p => evidence'.previous = p["previous"]
      /\ stage' = "done" /\ UNCHANGED <<stored, search>>
  BY <1>1, <1>2, Overlaid
<1>4. \A f \in p["parts"] : Search!Counts(f, stored) /\ f \in stored
  BY <1>1, <1>2, RevisionsCount
<1>5. PartsOK'
  <2>1. "previous" \in DOMAIN p =>
          \A f \in p["parts"] : \A g \in stored : Search!Corrects(f, g) =>
            /\ p["previous"][f] # {}
            /\ \A h \in p["previous"][f] : Search!Corrects(f, h) /\ ~Search!Corrects(g, h)
    <3> SUFFICES ASSUME "previous" \in DOMAIN p, NEW f \in p["parts"], NEW g \in stored,
                        Search!Corrects(f, g)
                 PROVE  /\ p["previous"][f] # {}
                        /\ \A h \in p["previous"][f] :
                            Search!Corrects(f, h) /\ ~Search!Corrects(g, h)
      OBVIOUS
    <3>1. f \in stored /\ Search!Day(f) <= search.asOf
      BY <1>4 DEF Search!Counts
    <3>2. p["previous"][f] = Search!Previous(f)
      BY <1>2
    <3>3. QED
      BY <1>1, <3>1, <3>2, PreviousIsLast
  <2>2. QED
    BY <1>2, <1>3, <1>4, <2>1 DEF PartsOK, Search!Counts
<1>6. (LatestOK /\ HistoryOK /\ ListOK)'
  BY <1>2, <1>3 DEF LatestOK, HistoryOK, ListOK
<1>7. EvidenceIsCurrent'
  BY <1>5, <1>6, PartsAreEvidence
<1>8. QED
  BY <1>1, <1>3, <1>7 DEF SearchInv, Bare

\* What leaves the searches alone keeps what is known of them.
LEMMA SearchUnchanged ==
    ASSUME SearchInv, UNCHANGED searchVars
    PROVE  SearchInv'
<1>1. UNCHANGED <<search, stage, evidence>> /\ stored' = stored
  BY DEF searchVars
<1>2. (LatestOK /\ HistoryOK /\ ListOK /\ PartsOK)'
  <2>1. LatestOK /\ HistoryOK /\ ListOK /\ PartsOK
    BY EvidenceInParts DEF SearchInv
  <2>2. LatestOK'
    BY <1>1, <2>1 DEF LatestOK, Search!Counts, Search!ChunkLimit
  <2>3. HistoryOK'
    BY <1>1, <2>1 DEF HistoryOK, Search!Counts
  <2>4. ListOK'
    BY <1>1, <2>1 DEF ListOK, Search!Counts, Search!OfDetail
  <2>5. PartsOK'
    BY <1>1, <2>1 DEF PartsOK, Search!Counts
  <2>6. QED
    BY <2>2, <2>3, <2>4, <2>5
<1>3. EvidenceIsCurrent'
  BY <1>2, PartsAreEvidence
<1>4. QED
  BY <1>1, <1>3 DEF SearchInv

LEMMA SearchStart == ReadInit => SearchInv
<1> SUFFICES ASSUME Search!Init PROVE SearchInv
  BY DEF ReadInit
<1>1. stored = AtFirst /\ stage = "idle" /\ DOMAIN evidence = {"selected"}
  BY DEF Search!Init, Search!Nothing
<1>2. LatestOK /\ HistoryOK /\ ListOK /\ PartsOK
  BY <1>1 DEF LatestOK, HistoryOK, ListOK, PartsOK
<1>3. QED
  BY <1>1, <1>2, EvidenceInParts, SearchAssumption DEF SearchInv, Bare, Search!Filings

LEMMA SearchKept == SearchInv /\ [ReadNext]_all => SearchInv'
<1> SUFFICES ASSUME SearchInv, [ReadNext]_all PROVE SearchInv'
  OBVIOUS
<1>1. CASE Search!Next
  BY <1>1, OthersInv, AskInv, ListInv, WaitInv, LatestInv, HistoryInv, RerankInv, PartsInv
     DEF Search!Next
<1>2. CASE UNCHANGED searchVars
  BY <1>2, SearchUnchanged
<1>3. Search!Next \/ UNCHANGED searchVars
  BY DEF ReadNext, all, searchVars
<1>4. QED
  BY <1>1, <1>2, <1>3

\* A search and a list choose what is asked for, and a search, a list of
\* reports, of sections or of facts cites nothing that a filing of the day asked
\* for has corrected, whatever is stored, replaced or indexed between its
\* statements (queries.py, REPORTS_SQL; search.py, search; revisions.py).
THEOREM EvidenceCorrect == ReadSpec => []EvidenceIsCurrent
<1>1. SearchInv => EvidenceIsCurrent
  BY DEF SearchInv
<1>2. QED
  BY <1>1, SearchStart, SearchKept, PTL DEF ReadSpec

-----------------------------------------------------------------------------
(* The lists of news_http.                                                 *)

Key == Int \X Int

\* Keys one after the other, from newer to older.
Falls(s) == \A i, j \in DOMAIN s : i < j => News!KeyLess(s[j], s[i])

\* The rows that the next pages still have to show.
Ahead == {k \in steady : before = News!Start \/ News!KeyLess(k, before)}

\* The rows of a list behind a cursor.
Behind(list, cursor) ==
    {k \in News!Rows(list) : cursor = News!Start \/ News!KeyLess(k, cursor)}

GraphSteps == {"sources", "targets", "nodes", "edges", "paths", "names", "steps"}

NewsInv ==
    /\ assign \in [News!Articles -> Nat] /\ fresh \in Nat
    /\ step = "idle" => request.kind = "none" /\ shown = <<>> /\ before = News!Start
    /\ step \in GraphSteps => request.kind # "list"
    /\ shown \in Seq(Key) /\ Falls(shown)
    /\ step \in {"page", "exists"} => request.kind = "list" /\ request.limit \in PageLimits
    /\ request.kind = "list" => steady \subseteq News!Rows(request.list)
    /\ step = "page" =>
        /\ IF shown = <<>> THEN before = News!Start ELSE before = shown[Len(shown)]
        /\ steady \subseteq Ahead \cup Range(shown)
    /\ request.kind = "list" /\ step \in {"exists", "done", "missing"} => steady \subseteq Range(shown)

LEMMA SameSizeOfRows == \A S : News!Cardinality(S) = Cardinality(S)
BY DEF News!Cardinality, Cardinality

\* The keys are ordered.
LEMMA KeysOrdered ==
    \A k, l, m \in Key :
        /\ ~News!KeyLess(k, k)
        /\ News!KeyLess(k, l) /\ News!KeyLess(l, m) => News!KeyLess(k, m)
        /\ k # l => News!KeyLess(k, l) \/ News!KeyLess(l, k)
        /\ News!Newer(k, l) <=> News!KeyLess(l, k)
BY DEF Key, News!KeyLess, News!Newer

LEMMA KeyIsNoStart == \A k \in Key : k # News!Start
BY DEF Key, News!Start

\* The rows of a list are keys, and finitely many.
LEMMA RowsAreKeys ==
    ASSUME assign \in [News!Articles -> Nat], NEW list
    PROVE  News!Rows(list) \in SUBSET Key /\ IsFiniteSet(News!Rows(list))
<1>1. \A a \in News!Articles : a \in Nat /\ Published[a] \in Nat /\ assign[a] \in Nat
  BY NewsAssumption DEF News!Articles
<1>2. IsFiniteSet(News!Articles)
  BY NewsAssumption DEF News!Articles
<1>3. CASE list = News!Stock
  <2> DEFINE key == [a \in News!Articles |-> <<Published[a], assign[a]>>]
             Keys == {key[a] : a \in News!Articles}
  <2>1. key \in Surjection(News!Articles, Keys)
    BY DEF Surjection
  <2>2. IsFiniteSet(Keys)
    BY <1>2, <2>1, FS_Surjection
  <2>3. News!Rows(list) \in SUBSET Keys
    BY <1>3 DEF News!Rows, News!ClusterRows
  <2>4. Keys \in SUBSET Key
    BY <1>1 DEF Key
  <2>5. QED
    BY <2>2, <2>3, <2>4, FS_Subset
<1>4. CASE list # News!Stock
  <2> DEFINE key == [a \in News!Articles |-> <<Published[a], a>>]
             Keys == {key[a] : a \in News!Articles}
  <2>1. key \in Surjection(News!Articles, Keys)
    BY DEF Surjection
  <2>2. IsFiniteSet(Keys)
    BY <1>2, <2>1, FS_Surjection
  <2>3. News!Rows(list) \in SUBSET Keys
    BY <1>4 DEF News!Rows, News!ArticleRows, News!Members
  <2>4. Keys \in SUBSET Key
    BY <1>1 DEF Key
  <2>5. QED
    BY <2>2, <2>3, <2>4, FS_Subset
<1>5. QED
  BY <1>3, <1>4

\* What a query answers: rows in order, and none that is left out is newer.
LEMMA FetchedRows ==
    ASSUME assign \in [News!Articles -> Nat], NEW list, NEW limit \in Nat, NEW cursor,
           NEW rows \in News!Fetched(list, limit, cursor)
    PROVE  /\ rows \in Seq(Key) /\ Falls(rows) /\ Len(rows) <= limit
           /\ Range(rows) \subseteq Behind(list, cursor)
           /\ Range(rows) = Behind(list, cursor) \/ Len(rows) = limit
           /\ \A k \in Behind(list, cursor) \ Range(rows) : \A i \in DOMAIN rows : News!KeyLess(k, rows[i])
<1> DEFINE Every == Behind(list, cursor)
<1>1. PICK S \in News!FirstOf(Every, limit, News!Newer) : rows \in News!Ordered(S, News!Newer)
  BY DEF News!Fetched, Behind
<1>2. /\ S \subseteq Every /\ Cardinality(S) <= limit
      /\ S = Every \/ Cardinality(S) = limit
      /\ \A x \in S, y \in Every \ S : ~News!Newer(y, x)
  BY <1>1, SameSizeOfRows DEF News!FirstOf, News!Limited
<1>3. /\ rows \in [1..Cardinality(S) -> S] /\ {rows[i] : i \in DOMAIN rows} = S
      /\ \A i, j \in DOMAIN rows : i < j => ~News!Newer(rows[j], rows[i])
  BY <1>1, SameSizeOfRows DEF News!Ordered, News!ToSet
<1>4. Every \in SUBSET Key /\ IsFiniteSet(Every)
  BY RowsAreKeys, FS_Subset DEF Behind
<1> HIDE DEF Every
<1>5. IsFiniteSet(S) /\ Cardinality(S) \in Nat /\ S \in SUBSET Key
  BY <1>2, <1>4, FS_Subset, FS_CardinalityType
<1>6. rows \in Seq(Key) /\ Len(rows) = Cardinality(S) /\ Range(rows) = S
      /\ DOMAIN rows = 1..Cardinality(S)
  BY <1>3, <1>5 DEF Range
<1>7. \A i, j \in DOMAIN rows : i # j => rows[i] # rows[j]
  <2>1. rows \in Surjection(1..Cardinality(S), S)
    BY <1>3 DEF Surjection
  <2>2. IsFiniteSet(1..Cardinality(S)) /\ Cardinality(1..Cardinality(S)) = Cardinality(S)
    BY <1>5, FS_Interval
  <2>3. rows \in Injection(1..Cardinality(S), S)
    BY <2>1, <2>2, FS_SurjSameCardinalityImpliesInj
  <2>4. QED
    BY <1>6, <2>3 DEF Injection, IsInjective
<1>8. Falls(rows)
  <2> SUFFICES ASSUME NEW i \in DOMAIN rows, NEW j \in DOMAIN rows, i < j
               PROVE  News!KeyLess(rows[j], rows[i])
    BY DEF Falls
  <2>1. rows[i] \in Key /\ rows[j] \in Key /\ rows[i] # rows[j]
    BY <1>3, <1>5, <1>6, <1>7
  <2>2. QED
    BY <1>3, <2>1, KeysOrdered
<1>9. \A k \in Every \ Range(rows) : \A i \in DOMAIN rows : News!KeyLess(k, rows[i])
  <2> SUFFICES ASSUME NEW k \in Every \ S, NEW i \in DOMAIN rows
               PROVE  News!KeyLess(k, rows[i])
    BY <1>6
  <2>1. rows[i] \in S /\ rows[i] \in Key /\ k \in Key /\ k # rows[i]
    BY <1>3, <1>4, <1>5, <1>6
  <2>2. QED
    BY <1>2, <2>1, KeysOrdered
<1>10. QED
  BY <1>2, <1>6, <1>8, <1>9 DEF Every
\* A page is the first rows of the answer, up to the limit.
LEMMA PageOf ==
    ASSUME NEW rows \in Seq(Key), NEW limit \in Nat \ {0},
           NEW page, page = News!Paginate(rows, limit)
    PROVE  /\ page.items \in Seq(Key) /\ \A i \in DOMAIN page.items : page.items[i] = rows[i]
           /\ Len(rows) <= limit => page.items = rows /\ page.next = News!Start
           /\ Len(rows) > limit =>
                Len(page.items) = limit /\ page.next = rows[limit] /\ page.next # News!Start
           /\ DOMAIN page.items \subseteq DOMAIN rows
<1>1. CASE Len(rows) <= limit
  BY <1>1 DEF News!Paginate
<1>2. CASE Len(rows) > limit
  <2>1. page.items = SubSeq(rows, 1, limit) /\ page.next = rows[limit]
    BY <1>2 DEF News!Paginate, News!EncodeCursor
  <2>2. rows[limit] \in Key
    BY <1>2
  <2>3. rows[limit] # News!Start
    BY <2>2 DEF Key, News!Start
  <2>4. /\ SubSeq(rows, 1, limit) \in Seq(Key) /\ Len(SubSeq(rows, 1, limit)) = limit
        /\ \A i \in 1..limit : SubSeq(rows, 1, limit)[i] = rows[i]
    BY <1>2
  <2>5. QED
    BY <1>2, <2>1, <2>3, <2>4
<1>3. QED
  BY <1>1, <1>2

\* Two falling lists, the second behind the end of the first.
LEMMA FallsOn ==
    ASSUME NEW s \in Seq(Key), Falls(s), NEW t \in Seq(Key), Falls(t),
           s # <<>> => \A i \in DOMAIN t : News!KeyLess(t[i], s[Len(s)])
    PROVE  s \o t \in Seq(Key) /\ Falls(s \o t) /\ Range(s \o t) = Range(s) \cup Range(t)
<1>1. /\ s \o t \in Seq(Key) /\ Len(s \o t) = Len(s) + Len(t)
      /\ \A i \in 1..(Len(s) + Len(t)) :
            (s \o t)[i] = IF i <= Len(s) THEN s[i] ELSE t[i - Len(s)]
  BY ConcatProperties
<1>2. Len(s) \in Nat /\ Len(t) \in Nat /\ DOMAIN s = 1..Len(s) /\ DOMAIN t = 1..Len(t)
      /\ DOMAIN (s \o t) = 1..(Len(s) + Len(t))
  BY <1>1
<1>3. Falls(s \o t)
  <2> SUFFICES ASSUME NEW i \in 1..(Len(s) + Len(t)), NEW j \in 1..(Len(s) + Len(t)), i < j
               PROVE  News!KeyLess((s \o t)[j], (s \o t)[i])
    BY <1>2 DEF Falls
  <2>1. CASE j <= Len(s)
    BY <1>1, <1>2, <2>1 DEF Falls
  <2>2. CASE i > Len(s)
    <3>1. /\ (s \o t)[i] = t[i - Len(s)] /\ (s \o t)[j] = t[j - Len(s)]
          /\ i - Len(s) \in DOMAIN t /\ j - Len(s) \in DOMAIN t /\ i - Len(s) < j - Len(s)
      BY <1>1, <1>2, <2>2
    <3>2. QED
      BY <3>1 DEF Falls
  <2>3. CASE i <= Len(s) /\ j > Len(s)
    <3>1. /\ (s \o t)[i] = s[i] /\ (s \o t)[j] = t[j - Len(s)]
          /\ i \in DOMAIN s /\ j - Len(s) \in DOMAIN t /\ Len(s) \in DOMAIN s
      BY <1>1, <1>2, <2>3
    <3>2. s # <<>>
      BY <2>3
    <3>3. News!KeyLess(t[j - Len(s)], s[Len(s)])
      BY <3>1, <3>2
    <3>4. s[Len(s)] = s[i] \/ News!KeyLess(s[Len(s)], s[i])
      BY <1>2, <3>1 DEF Falls
    <3>5. s[i] \in Key /\ s[Len(s)] \in Key /\ t[j - Len(s)] \in Key
      BY <3>1
    <3>6. QED
      BY <3>1, <3>3, <3>4, <3>5, KeysOrdered
  <2>4. QED
    BY <1>2, <2>1, <2>2, <2>3
<1>4. Range(s \o t) = Range(s) \cup Range(t)
  <2>1. Range(s \o t) \subseteq Range(s) \cup Range(t)
    BY <1>1, <1>2 DEF Range
  <2>2. ASSUME NEW i \in DOMAIN s PROVE s[i] \in Range(s \o t)
    <3>1. i \in 1..(Len(s) + Len(t)) /\ (s \o t)[i] = s[i]
      BY <1>1, <1>2
    <3>2. QED
      BY <1>2, <3>1 DEF Range
  <2>3. ASSUME NEW i \in DOMAIN t PROVE t[i] \in Range(s \o t)
    <3>1. i + Len(s) \in 1..(Len(s) + Len(t)) /\ (s \o t)[i + Len(s)] = t[i]
      BY <1>1, <1>2
    <3>2. QED
      BY <1>2, <3>1 DEF Range
  <2>4. QED
    BY <2>1, <2>2, <2>3 DEF Range
<1>5. QED
  BY <1>1, <1>3, <1>4

\* Rows that are left alone are the same rows.
LEMMA SameRows ==
    ASSUME UNCHANGED <<assign, told>>, NEW CONSTANT list
    PROVE  News!Rows(list)' = News!Rows(list)
BY DEF News!Rows, News!ClusterRows, News!ArticleRows, News!Members

\* A page goes on where the last one ended, and leaves out nothing that was
\* there all the time.
LEMMA PageInv ==
    ASSUME NewsInv, News!Page
    PROVE  NewsInv'
<1>1. /\ step = "page" /\ request.kind = "list" /\ request.limit \in Nat \ {0}
      /\ assign \in [News!Articles -> Nat] /\ shown \in Seq(Key) /\ Falls(shown)
      /\ steady \subseteq News!Rows(request.list)
      /\ IF shown = <<>> THEN before = News!Start ELSE before = shown[Len(shown)]
      /\ steady \subseteq Ahead \cup Range(shown)
      /\ UNCHANGED <<assign, fresh, told, commits, request, steady>>
  BY NewsAssumption DEF NewsInv, News!Page, News!store
<1>2. PICK rows, page :
        /\ rows \in News!Fetched(request.list, request.limit + 1, before)
        /\ page = News!Paginate(rows, request.limit)
        /\ shown' = shown \o page.items /\ before' = page.next
        /\ step' = IF rows = <<>> /\ request.list # News!Stock THEN "exists"
                   ELSE IF page.next = News!Start THEN "done" ELSE "page"
  BY DEF News!Page
<1> DEFINE Every == Behind(request.list, before)
<1>3. /\ rows \in Seq(Key) /\ Falls(rows) /\ Len(rows) <= request.limit + 1
      /\ Range(rows) \subseteq Every
      /\ Range(rows) = Every \/ Len(rows) = request.limit + 1
      /\ \A k \in Every \ Range(rows) : \A i \in DOMAIN rows : News!KeyLess(k, rows[i])
  <2>0. assign \in [News!Articles -> Nat]
    BY <1>1
  <2>1. PICK n \in Nat : n = request.limit + 1
    BY <1>1
  <2> PICK c, l : c = before /\ l = request.list
    OBVIOUS
  <2>2. rows \in News!Fetched(l, n, c)
    BY <1>2, <2>1
  <2>3. /\ rows \in Seq(Key) /\ Falls(rows) /\ Len(rows) <= n
        /\ Range(rows) \subseteq Behind(l, c)
        /\ Range(rows) = Behind(l, c) \/ Len(rows) = n
        /\ \A k \in Behind(l, c) \ Range(rows) : \A i \in DOMAIN rows : News!KeyLess(k, rows[i])
    BY <2>0, <2>2, FetchedRows
  <2>4. QED
    BY <2>1, <2>3
<1>4. Ahead \subseteq Every
  BY <1>1 DEF Ahead, Behind
<1>5. /\ page.items \in Seq(Key) /\ \A i \in DOMAIN page.items : page.items[i] = rows[i]
      /\ Len(rows) <= request.limit => page.items = rows /\ page.next = News!Start
      /\ Len(rows) > request.limit =>
            /\ Len(page.items) = request.limit /\ page.next = rows[request.limit]
            /\ page.next # News!Start
      /\ DOMAIN page.items \subseteq DOMAIN rows
  BY <1>1, <1>2, <1>3, PageOf
<1>6. Falls(page.items)
  BY <1>3, <1>5 DEF Falls
<1>7. ASSUME shown # <<>>, NEW i \in DOMAIN page.items
      PROVE  News!KeyLess(page.items[i], shown[Len(shown)])
  <2>1. shown[Len(shown)] \in Key /\ before = shown[Len(shown)]
    <3>1. Len(shown) \in 1..Len(shown)
      BY <1>1, <1>7
    <3>2. QED
      BY <1>1, <1>7, <3>1, ElementOfSeq
  <2>2. before # News!Start
    BY <2>1, KeyIsNoStart
  <2>3. page.items[i] \in Every
    BY <1>3, <1>5, <1>7 DEF Range
  <2>4. QED
    BY <2>1, <2>2, <2>3 DEF Behind
<1>8. /\ shown' \in Seq(Key) /\ Falls(shown)'
      /\ Range(shown)' = Range(shown) \cup Range(page.items)
  BY <1>1, <1>2, <1>5, <1>6, <1>7, FallsOn DEF Falls
<1>9. step' = "page" \/ step' \in {"exists", "done"}
  BY <1>2
<1>10. CASE Len(rows) <= request.limit
  <2>1. Range(page.items) = Every
    BY <1>1, <1>3, <1>5, <1>10
  <2>2. step' # "page"
    BY <1>2, <1>5, <1>10
  <2>3. steady' \subseteq Range(shown)'
    BY <1>1, <1>4, <1>8, <2>1
  <2>4. QED
    BY <1>1, <1>8, <1>9, <2>2, <2>3, SameRows DEF NewsInv, GraphSteps
<1>11. CASE Len(rows) > request.limit
  <2>1. /\ request.limit \in DOMAIN rows /\ request.limit \in DOMAIN page.items
        /\ before' = rows[request.limit] /\ rows # <<>>
        /\ page.items # <<>> /\ Len(page.items) = request.limit
    BY <1>1, <1>2, <1>3, <1>5, <1>11
  <2>2. step' = "page"
    BY <1>2, <1>5, <1>11, <2>1
  <2>3. shown' # <<>> /\ before' = shown'[Len(shown')]
    <3>1. /\ Len(shown') = Len(shown) + request.limit
          /\ shown'[Len(shown) + request.limit] = page.items[request.limit]
      <4>1. \A s, t \in Seq(Key) : t # <<>> =>
              Len(s \o t) = Len(s) + Len(t) /\ (s \o t)[Len(s) + Len(t)] = t[Len(t)]
        OBVIOUS
      <4>2. PICK t \in Seq(Key) : t = page.items
        BY <1>5
      <4>3. t # <<>> /\ Len(t) = request.limit
        BY <2>1, <4>2
      <4>4. Len(shown \o t) = Len(shown) + Len(t) /\ (shown \o t)[Len(shown) + Len(t)] = t[Len(t)]
        BY <1>1, <4>1, <4>3
      <4>5. shown' = shown \o t
        BY <1>2, <4>2
      <4>6. QED
        BY <4>2, <4>3, <4>4, <4>5
    <3>2. page.items[request.limit] = rows[request.limit]
      BY <1>5, <2>1
    <3>3. QED
      BY <1>1, <2>1, <3>1, <3>2
  <2>4. ASSUME NEW k \in steady, k \notin Range(shown)'
        PROVE  News!KeyLess(k, before')
    <3>1. k \in Every
      BY <1>1, <1>4, <1>8, <2>4
    <3>2. CASE k \in Range(rows)
      <4>1. PICK i \in DOMAIN rows : k = rows[i]
        BY <3>2 DEF Range
      <4>2. i \notin DOMAIN page.items
        BY <1>5, <1>8, <2>4, <4>1 DEF Range
      <4>3. request.limit < i
        BY <1>1, <1>3, <1>5, <2>1, <4>2
      <4>4. QED
        BY <1>3, <2>1, <4>1, <4>3 DEF Falls
    <3>3. CASE k \notin Range(rows)
      BY <1>3, <2>1, <3>1, <3>3
    <3>4. QED
      BY <3>2, <3>3
  <2>5. steady' \subseteq (Ahead \cup Range(shown))'
    <3>1. Ahead' = {k \in steady' : before' = News!Start \/ News!KeyLess(k, before')}
      BY DEF Ahead, News!KeyLess, News!Start
    <3>2. QED
      BY <1>1, <2>4, <3>1
  <2>6. QED
    BY <1>1, <1>8, <2>2, <2>3, <2>5, SameRows DEF NewsInv, GraphSteps
<1>12. QED
  BY <1>1, <1>3, <1>10, <1>11

\* A request whose answer came: the cluster of an empty list is looked for.
LEMMA ListStepsInv ==
    ASSUME NewsInv, News!AskList \/ News!CheckExists
    PROVE  NewsInv'
<1>1. CASE News!AskList
  <2>1. PICK list \in {News!Stock} \cup ({Filed[a] : a \in News!Articles} \ {News!None}),
             limit \in PageLimits :
          request' = [kind |-> "list", list |-> list, limit |-> limit]
    BY <1>1 DEF News!AskList
  <2>2. /\ step = "idle" /\ step' = "page" /\ steady' = News!Rows(list)
        /\ UNCHANGED <<assign, fresh, told, shown, before>>
    BY <1>1, <2>1 DEF News!AskList, News!store
  <2>3. request'.kind = "list" /\ request'.list = list /\ request'.limit \in PageLimits
    BY <2>1
  <2>4. steady' = News!Rows(request.list)'
    BY <2>2, <2>3, SameRows
  <2>5. shown = <<>> /\ before = News!Start
    BY <2>2 DEF NewsInv
  <2>6. Ahead' = steady'
    BY <2>2, <2>5 DEF Ahead, News!Start
  <2>7. QED
    BY <2>2, <2>3, <2>4, <2>5, <2>6 DEF NewsInv, GraphSteps, Falls
<1>2. CASE News!CheckExists
  <2>1. /\ step = "exists" /\ step' \in {"done", "missing"}
        /\ UNCHANGED <<assign, fresh, told, request, steady, shown>>
    BY <1>2 DEF News!CheckExists, News!store, News!walk
  <2>2. News!Rows(request.list)' = News!Rows(request.list)
    BY <2>1, SameRows
  <2>3. QED
    BY <2>1, <2>2 DEF NewsInv, GraphSteps, Falls
<1>3. QED
  BY <1>1, <1>2

\* What asks for the graph reads no list.
LEMMA GraphStepsInv ==
    ASSUME NewsInv,
           \/ step = "idle" /\ request'.kind # "list"
           \/ step \in GraphSteps /\ request' = request,
           step' # "idle" /\ step' \notin {"page", "exists"},
           UNCHANGED <<assign, fresh, told, steady, shown>>
    PROVE  NewsInv'
BY DEF NewsInv, GraphSteps, Falls

LEMMA GraphInv ==
    ASSUME NewsInv,
           \/ News!AskGraph \/ News!Sources \/ News!Targets \/ News!Nodes \/ News!EdgesAmong
           \/ News!Paths \/ News!PathNames \/ News!PathSteps \/ News!TimeOut
    PROVE  NewsInv'
<1>1. CASE News!AskGraph
  <2>1. request'.kind # "list"
    BY <1>1 DEF News!AskGraph
  <2>2. /\ step = "idle" /\ step' = "sources"
        /\ UNCHANGED <<assign, fresh, told, steady, shown>>
    BY <1>1 DEF News!AskGraph, News!store, News!walk
  <2>3. QED
    BY <2>1, <2>2, GraphStepsInv
<1>2. CASE News!TimeOut
  BY <1>2, GraphStepsInv DEF News!TimeOut, News!store, News!walk, News!Statements, GraphSteps
<1>3. CASE News!Sources \/ News!Targets
  BY <1>3, GraphStepsInv
     DEF News!Sources, News!Targets, News!Seeded, News!Read, News!store, News!walk, GraphSteps
<1>4. CASE News!Nodes \/ News!EdgesAmong
  BY <1>4, GraphStepsInv
     DEF News!Nodes, News!EdgesAmong, News!Read, News!store, News!walk, GraphSteps
<1>5. CASE News!Paths \/ News!PathNames \/ News!PathSteps
  BY <1>5, GraphStepsInv
     DEF News!Paths, News!PathNames, News!PathSteps, News!Read, News!store, News!walk, GraphSteps
<1>6. QED
  BY <1>1, <1>2, <1>3, <1>4, <1>5

\* A row that is moved, or is there with another key, is not steady.
LEMMA WritersInv ==
    ASSUME NewsInv, News!Recluster \/ News!Summarise \/ News!Merge
    PROVE  NewsInv'
<1>1. /\ UNCHANGED <<request, step, shown, before>>
      /\ steady' = IF request.kind = "list" THEN steady \cap News!Rows(request.list)' ELSE {}
  BY DEF News!Recluster, News!Summarise, News!Merge, News!Commit
<1>2. assign' \in [News!Articles -> Nat] /\ fresh' \in Nat
  <2>1. CASE News!Recluster
    BY <2>1 DEF News!Recluster, NewsInv, News!None
  <2>2. CASE News!Summarise \/ News!Merge
    BY <2>2 DEF News!Summarise, News!Merge, NewsInv
  <2>3. QED
    BY <2>1, <2>2
<1>3. Ahead' = Ahead \cap steady'
  <2>1. steady' \subseteq steady
    BY <1>1
  <2>2. QED
    BY <1>1, <2>1 DEF Ahead
<1>4. QED
  BY <1>1, <1>2, <1>3 DEF NewsInv, GraphSteps, Falls

LEMMA NewsUnchanged ==
    ASSUME NewsInv, UNCHANGED newsVars
    PROVE  NewsInv'
<1>1. UNCHANGED <<assign, fresh, told, request, step, shown, before, steady>>
  BY DEF newsVars
<1>2. News!Rows(request.list)' = News!Rows(request.list)
  BY <1>1, SameRows
<1>3. Ahead' = Ahead
  BY <1>1 DEF Ahead
<1>4. QED
  BY <1>1, <1>2, <1>3 DEF NewsInv, GraphSteps, Falls

\* The first cluster id that is free.
LEMMA FreshStart ==
    Max({Filed[a] : a \in News!Articles}) \in Nat
<1> DEFINE Ids == {Filed[a] : a \in News!Articles}
<1>1. Ids \in SUBSET Nat /\ Ids # {}
  BY NewsAssumption DEF News!Articles
<1>2. IsFiniteSet(Ids)
  <2>1. Filed \in Surjection(News!Articles, Ids)
    BY NewsAssumption DEF Surjection, News!Articles
  <2>2. QED
    BY <2>1, NewsAssumption, FS_Surjection DEF News!Articles
<1> HIDE DEF Ids
<1>3. PICK n \in Ids : \A m \in Ids : m <= n
  BY <1>1, <1>2, GreatestOf
<1>4. \A m \in Ids : n >= m
  BY <1>1, <1>3
<1>5. Max(Ids) \in Ids
  BY <1>4 DEF Max
<1>6. QED
  BY <1>1, <1>5 DEF Ids

LEMMA NewsStart == ReadInit => NewsInv
<1> SUFFICES ASSUME News!Init PROVE NewsInv
  BY DEF ReadInit
<1>1. /\ assign = Filed /\ step = "idle" /\ shown = <<>> /\ before = News!Start /\ steady = {}
      /\ request = [kind |-> "none"]
  BY DEF News!Init, News!NoRequest
<1>2. fresh \in Nat
  <2>1. News!Max({Filed[a] : a \in News!Articles}) = Max({Filed[a] : a \in News!Articles})
    BY DEF News!Max, Max
  <2>2. QED
    BY <2>1, FreshStart DEF News!Init
<1>3. request.kind = "none"
  BY <1>1
<1>4. shown \in Seq(Key) /\ Falls(shown)
  BY <1>1 DEF Falls
<1>5. QED
  BY <1>1, <1>2, <1>3, <1>4, NewsAssumption DEF NewsInv, GraphSteps, News!Articles

LEMMA NewsKept == NewsInv /\ [ReadNext]_all => NewsInv'
<1> SUFFICES ASSUME NewsInv, [ReadNext]_all PROVE NewsInv'
  OBVIOUS
<1>1. CASE News!Next
  BY <1>1, PageInv, ListStepsInv, GraphInv, WritersInv DEF News!Next, News!Reader
<1>2. CASE UNCHANGED newsVars
  BY <1>2, NewsUnchanged
<1>3. News!Next \/ UNCHANGED newsVars
  BY DEF ReadNext, all, newsVars
<1>4. QED
  BY <1>1, <1>2, <1>3

\* Page after page a list goes from newer to older and shows no row twice; when
\* it ends, it has shown every row that was there all the time, whatever was
\* added, moved or removed between the pages (pagination.py, paginate).
THEOREM PagesCorrect == ReadSpec => []PagesAreExact
<1>1. NewsInv => PagesAreExact
  <2> SUFFICES ASSUME NewsInv PROVE PagesAreExact
    OBVIOUS
  <2>1. ASSUME NEW i \in DOMAIN shown, NEW j \in DOMAIN shown, i < j
        PROVE  \/ shown[i][1] > shown[j][1]
               \/ shown[i][1] = shown[j][1] /\ shown[i][2] > shown[j][2]
    <3>1. shown[i] \in Key /\ shown[j] \in Key
      <4>1. shown \in Seq(Key) /\ i \in 1..Len(shown) /\ j \in 1..Len(shown)
        BY DEF NewsInv
      <4>2. QED
        BY <4>1, ElementOfSeq
    <3>2. News!KeyLess(shown[j], shown[i])
      <4>1. Falls(shown)
        BY DEF NewsInv
      <4>2. QED
        BY <2>1, <4>1 DEF Falls
    <3>3. QED
      BY <3>1, <3>2 DEF News!KeyLess, Key
  <2>2. Range(shown) = News!ToSet(shown)
    BY DEF Range, News!ToSet
  <2>3. QED
    BY <2>1, <2>2 DEF PagesAreExact, News!PagesAreExact, NewsInv
<1>2. QED
  BY <1>1, NewsStart, NewsKept, PTL DEF ReadSpec

-----------------------------------------------------------------------------
(* The graph of news_http.                                                 *)

\* Relations, the nodes next to some, and the edges in both directions.
EndsOf(R, r) == {R[r].source, R[r].target}
NextTo(R, A) == UNION {EndsOf(R, r) : r \in {r \in DOMAIN R : EndsOf(R, r) \cap A # {}}}
EdgesOf(R) ==
    UNION {{[id |-> r, a |-> R[r].source, b |-> R[r].target],
            [id |-> r, a |-> R[r].target, b |-> R[r].source]} : r \in DOMAIN R}

\* The nodes within a distance.
IsBalls(f, R, S, d) == f = [n \in 0..d |-> IF n = 0 THEN S ELSE f[n - 1] \cup NextTo(R, f[n - 1])]
BallsOf(R, S, d) == CHOOSE f : IsBalls(f, R, S, d)
Ball(R, S, d) == BallsOf(R, S, d)[d]

\* f repeats the step g from a on.
Repeats(f, a, g, d) == f = [n \in 0..d |-> IF n = 0 THEN a ELSE g[f[n - 1]]]

\* A step from sets to sets can be repeated.
LEMMA Repeat ==
    ASSUME NEW X, NEW a \in X, NEW g \in [X -> X]
    PROVE  \A d \in Nat : \E f \in [0..d -> X] : Repeats(f, a, g, d)
<1> DEFINE P == {d \in Nat : \E f \in [0..d -> X] : Repeats(f, a, g, d)}
<1>1. 0 \in P
  <2> DEFINE f == [n \in 0..0 |-> a]
  <2>1. f \in [0..0 -> X] /\ Repeats(f, a, g, 0)
    BY DEF Repeats
  <2>2. QED
    BY <2>1
<1>2. ASSUME NEW d \in Nat, d \in P PROVE d + 1 \in P
  <2>1. PICK f \in [0..d -> X] : Repeats(f, a, g, d)
    BY <1>2
  <2> DEFINE h == [n \in 0..(d + 1) |-> IF n <= d THEN f[n] ELSE g[f[d]]]
  <2>2. ASSUME NEW n \in 0..(d + 1)
        PROVE  h[n] \in X /\ h[n] = IF n = 0 THEN a ELSE g[h[n - 1]]
    <3>1. CASE n = 0
      BY <2>1, <3>1 DEF Repeats
    <3>2. CASE n # 0 /\ n <= d
      <4>1. h[n] = f[n] /\ h[n - 1] = f[n - 1] /\ n \in 0..d
        BY <3>2
      <4>2. f[n] = g[f[n - 1]] /\ f[n] \in X
        BY <2>1, <3>2, <4>1 DEF Repeats
      <4>3. QED
        BY <3>2, <4>1, <4>2
    <3>3. CASE n = d + 1
      <4>1. h[n] = g[f[d]] /\ h[n - 1] = f[d] /\ n # 0 /\ f[d] \in X
        BY <2>1, <3>3
      <4>2. QED
        BY <4>1
    <3>4. QED
      BY <3>1, <3>2, <3>3
  <2>3. h = [n \in 0..(d + 1) |-> h[n]]
    OBVIOUS
  <2> HIDE DEF h
  <2>4. h \in [0..(d + 1) -> X] /\ Repeats(h, a, g, d + 1)
    BY <2>2, <2>3 DEF Repeats
  <2>5. d + 1 \in Nat
    OBVIOUS
  <2>6. QED
    BY <2>4, <2>5
<1> HIDE DEF P
<1>3. \A d \in Nat : d \in P
  BY <1>1, <1>2, Induction
<1>4. QED
  BY <1>3 DEF P

Grows(f, R, d) == \A n \in 1..d : f[n] = f[n - 1] \cup NextTo(R, f[n - 1])

\* What it means for the function of balls.
LEMMA BallsFrom ==
    ASSUME NEW R, NEW S, NEW d \in Nat, NEW f, IsBalls(f, R, S, d)
    PROVE  f[0] = S /\ Grows(f, R, d)
<1>1. \A n \in 0..d : f[n] = IF n = 0 THEN S ELSE f[n - 1] \cup NextTo(R, f[n - 1])
  BY Zenon DEF IsBalls
<1>2. 0 \in 0..d /\ \A n \in 1..d : n \in 0..d /\ n # 0
  OBVIOUS
<1>3. QED
  BY <1>1, <1>2, Zenon DEF Grows

LEMMA BallsExist ==
    ASSUME NEW R, NEW S, NEW d \in Nat
    PROVE  IsBalls(BallsOf(R, S, d), R, S, d)
<1> DEFINE V == S \cup UNION {EndsOf(R, r) : r \in DOMAIN R}
           X == SUBSET V
           g == [A \in X |-> A \cup NextTo(R, A)]
<1>1. g \in [X -> X] /\ S \in X
  BY DEF NextTo
<1>2. \A A \in X : g[A] = A \cup NextTo(R, A)
  OBVIOUS
<1> HIDE DEF g, X
<1>3. PICK f \in [0..d -> X] : Repeats(f, S, g, d)
  BY <1>1, Repeat
<1>4. ASSUME NEW n \in 0..d
      PROVE  f[n] = IF n = 0 THEN S ELSE f[n - 1] \cup NextTo(R, f[n - 1])
  <2>1. f[n] = IF n = 0 THEN S ELSE g[f[n - 1]]
    BY <1>3, Zenon DEF Repeats
  <2>2. n # 0 => f[n - 1] \in X
    <3>1. n # 0 => n - 1 \in 0..d
      OBVIOUS
    <3>2. f \in [0..d -> X]
      OBVIOUS
    <3>3. QED
      BY <3>1, <3>2
  <2>3. QED
    BY <1>2, <2>1, <2>2
<1>5. f = [n \in 0..d |-> f[n]]
  <2>1. f \in [0..d -> X]
    OBVIOUS
  <2>2. QED
    BY <2>1
<1>6. IsBalls(f, R, S, d)
  BY <1>4, <1>5 DEF IsBalls
<1>7. QED
  BY <1>6 DEF BallsOf

\* Two functions that go on in the same way are the same as far as they go.
LEMMA Agree ==
    ASSUME NEW f, NEW h, NEW d \in Nat, f[0] = h[0],
           \A n \in 1..d : f[n - 1] = h[n - 1] => f[n] = h[n]
    PROVE  \A n \in 0..d : f[n] = h[n]
<1> DEFINE P == {n \in Nat : n <= d => f[n] = h[n]}
<1>1. 0 \in P /\ \A n \in Nat : n \in P => n + 1 \in P
  <2> SUFFICES ASSUME NEW n \in Nat, n <= d => f[n] = h[n], n + 1 <= d PROVE f[n + 1] = h[n + 1]
    OBVIOUS
  <2>1. n + 1 \in 1..d /\ n + 1 - 1 = n /\ f[n] = h[n]
    OBVIOUS
  <2>2. f[n + 1 - 1] = h[n + 1 - 1]
    BY <2>1
  <2>3. QED
    BY <2>1, <2>2
<1> HIDE DEF P
<1>2. \A n \in Nat : n \in P
  BY <1>1, Induction
<1>3. QED
  BY <1>2 DEF P

LEMMA BallGrows ==
    ASSUME NEW R, NEW S
    PROVE  /\ Ball(R, S, 0) = S
           /\ \A n \in Nat : Ball(R, S, n + 1) = Ball(R, S, n) \cup NextTo(R, Ball(R, S, n))
<1>1. Ball(R, S, 0) = S
  BY BallsExist, BallsFrom DEF Ball
<1>2. ASSUME NEW d \in Nat
      PROVE  Ball(R, S, d + 1) = Ball(R, S, d) \cup NextTo(R, Ball(R, S, d))
  <2>1. PICK g : g = BallsOf(R, S, d)
    OBVIOUS
  <2>2. PICK h : h = BallsOf(R, S, d + 1)
    OBVIOUS
  <2>3. g[0] = S /\ Grows(g, R, d)
    <3>1. IsBalls(g, R, S, d)
      BY <2>1, BallsExist
    <3>2. QED
      BY <3>1, BallsFrom
  <2>4. h[0] = S /\ Grows(h, R, d + 1)
    <3>1. d + 1 \in Nat
      OBVIOUS
    <3>2. IsBalls(h, R, S, d + 1)
      BY <2>2, <3>1, BallsExist
    <3>3. QED
      BY <3>1, <3>2, BallsFrom
  <2>5. ASSUME NEW n \in 1..d, g[n - 1] = h[n - 1] PROVE g[n] = h[n]
    <3>1. n \in 1..(d + 1)
      OBVIOUS
    <3>2. g[n] = g[n - 1] \cup NextTo(R, g[n - 1]) /\ h[n] = h[n - 1] \cup NextTo(R, h[n - 1])
      BY <2>3, <2>4, <3>1 DEF Grows
    <3>3. QED
      BY <2>5, <3>2
  <2>6. g[d] = h[d]
    <3>1. g[0] = h[0]
      BY <2>3, <2>4
    <3>2. \A n \in 1..d : g[n - 1] = h[n - 1] => g[n] = h[n]
      BY <2>5
    <3> HIDE <2>3, <2>4, <2>5
    <3>3. \A n \in 0..d : g[n] = h[n]
      BY <3>1, <3>2, Agree
    <3>4. QED
      BY <3>3
  <2>7. h[d + 1] = h[d] \cup NextTo(R, h[d])
    <3>1. d + 1 \in 1..(d + 1) /\ d + 1 - 1 = d
      OBVIOUS
    <3>2. h[d + 1] = h[d + 1 - 1] \cup NextTo(R, h[d + 1 - 1])
      BY <2>4, <3>1 DEF Grows
    <3>3. QED
      BY <3>1, <3>2
  <2>8. QED
    BY <2>1, <2>2, <2>6, <2>7 DEF Ball
<1>3. QED
  BY <1>1, <1>2
\* Edges are relations from one end to the other.
LEMMA EdgeEnds ==
    ASSUME NEW R
    PROVE  /\ \A e \in EdgesOf(R) : e.id \in DOMAIN R /\ EndsOf(R, e.id) = {e.a, e.b}
           /\ \A r \in DOMAIN R : \A x, y \in EndsOf(R, r) : x # y =>
                [id |-> r, a |-> x, b |-> y] \in EdgesOf(R)
BY DEF EdgesOf, EndsOf

StepsFrom(R, A) == {e.b : e \in {e \in EdgesOf(R) : e.a \in A}}

LEMMA StepsAreNext ==
    ASSUME NEW R, NEW A
    PROVE  A \cup StepsFrom(R, A) = A \cup NextTo(R, A)
<1>1. ASSUME NEW y \in StepsFrom(R, A) PROVE y \in NextTo(R, A)
  <2>1. PICK e \in EdgesOf(R) : e.a \in A /\ e.b = y
    BY DEF StepsFrom
  <2>2. e.id \in DOMAIN R /\ EndsOf(R, e.id) = {e.a, e.b}
    BY <2>1, EdgeEnds
  <2>3. QED
    BY <2>1, <2>2 DEF NextTo
<1>2. ASSUME NEW y \in NextTo(R, A), y \notin A PROVE y \in StepsFrom(R, A)
  <2>1. PICK r \in DOMAIN R : EndsOf(R, r) \cap A # {} /\ y \in EndsOf(R, r)
    BY <1>2 DEF NextTo
  <2>2. PICK x \in EndsOf(R, r) : x \in A
    BY <2>1
  <2>3. PICK e \in EdgesOf(R) : e = [id |-> r, a |-> x, b |-> y]
    BY <1>2, <2>1, <2>2, EdgeEnds
  <2>4. e.a \in A /\ e.b = y
    BY <2>2, <2>3
  <2>5. QED
    BY <2>4 DEF StepsFrom
<1>3. QED
  BY <1>1, <1>2

\* What is farther away includes what is nearer; more is near to more.
LEMMA BallsAreNested ==
    ASSUME NEW R, NEW S
    PROVE  \A m, n \in Nat : m <= n => Ball(R, S, m) \subseteq Ball(R, S, n)
<1> DEFINE P == {k \in Nat : \A m \in Nat : Ball(R, S, m) \subseteq Ball(R, S, m + k)}
<1>1. 0 \in P
  <2>1. \A m \in Nat : m + 0 = m
    OBVIOUS
  <2>2. QED
    BY <2>1
<1>2. ASSUME NEW k \in Nat, k \in P PROVE k + 1 \in P
  <2>1. \A m \in Nat : m + (k + 1) = (m + k) + 1 /\ m + k \in Nat
    OBVIOUS
  <2>2. \A m \in Nat : Ball(R, S, m + k) \subseteq Ball(R, S, (m + k) + 1)
    BY <2>1, BallGrows
  <2>3. \A m \in Nat : Ball(R, S, m) \subseteq Ball(R, S, m + k)
    BY <1>2
  <2>4. ASSUME NEW m \in Nat PROVE Ball(R, S, m) \subseteq Ball(R, S, m + (k + 1))
    <3>1. m + (k + 1) = (m + k) + 1
      BY <2>1
    <3>2. QED
      BY <2>2, <2>3, <3>1
  <2>5. k + 1 \in Nat
    OBVIOUS
  <2>6. QED
    BY <2>4, <2>5
<1> HIDE DEF P
<1>3. \A k \in Nat : k \in P
  BY <1>1, <1>2, Induction
<1>4. ASSUME NEW m \in Nat, NEW n \in Nat, m <= n
      PROVE  Ball(R, S, m) \subseteq Ball(R, S, n)
  <2>1. n - m \in Nat /\ m + (n - m) = n
    BY <1>4
  <2>2. Ball(R, S, m) \subseteq Ball(R, S, m + (n - m))
    BY <1>3, <2>1 DEF P
  <2>3. QED
    BY <2>1, <2>2
<1>5. QED
  BY <1>4

LEMMA MoreIsNear ==
    ASSUME NEW R, NEW S, NEW T, S \subseteq T
    PROVE  \A n \in Nat : Ball(R, S, n) \subseteq Ball(R, T, n)
<1>0. \A n \in Nat : /\ Ball(R, S, n + 1) = Ball(R, S, n) \cup NextTo(R, Ball(R, S, n))
                     /\ Ball(R, T, n + 1) = Ball(R, T, n) \cup NextTo(R, Ball(R, T, n))
  <2>1. \A n \in Nat : Ball(R, S, n + 1) = Ball(R, S, n) \cup NextTo(R, Ball(R, S, n))
    BY BallGrows
  <2>2. \A n \in Nat : Ball(R, T, n + 1) = Ball(R, T, n) \cup NextTo(R, Ball(R, T, n))
    BY BallGrows
  <2>3. QED
    BY <2>1, <2>2
<1> DEFINE P == {n \in Nat : Ball(R, S, n) \subseteq Ball(R, T, n)}
<1>1. 0 \in P
  <2>1. Ball(R, S, 0) = S /\ Ball(R, T, 0) = T
    BY BallGrows
  <2>2. QED
    BY <2>1
<1>2. ASSUME NEW n \in Nat, n \in P PROVE n + 1 \in P
  <2>1. Ball(R, S, n + 1) = Ball(R, S, n) \cup NextTo(R, Ball(R, S, n))
    BY <1>0
  <2>2. Ball(R, T, n + 1) = Ball(R, T, n) \cup NextTo(R, Ball(R, T, n))
    BY <1>0
  <2>3. \A A, B : A \subseteq B => NextTo(R, A) \subseteq NextTo(R, B)
    BY DEF NextTo
  <2>4. n + 1 \in Nat /\ Ball(R, S, n) \subseteq Ball(R, T, n)
    BY <1>2
  <2>5. QED
    BY <2>1, <2>2, <2>3, <2>4
<1> HIDE DEF P
<1>3. \A n \in Nat : n \in P
  BY <1>1, <1>2, Induction
<1>4. QED
  BY <1>3 DEF P

\* The distances that the answers are checked against.
LEMMA WithinIsBall ==
    ASSUME NEW S, NEW n
    PROVE  News!Within(S, n) = Ball(found.snapshot, S, n)
BY DEF News!Within, Ball, BallsOf, IsBalls, NextTo, EndsOf, News!Ends

-----------------------------------------------------------------------------
(* The walk around a name.                                                 *)

IsWalk(f, R, S, d) ==
    f = [n \in 0..d |-> IF n = 0 THEN S ELSE {e.b : e \in {e \in EdgesOf(R) : e.a \in f[n - 1]}}]
WalkOf(R, S, d) == CHOOSE f : IsWalk(f, R, S, d)
Walks(f, R, d) == \A n \in 1..d : f[n] = StepsFrom(R, f[n - 1])

LEMMA HopsOfWalk ==
    ASSUME NEW S, NEW d
    PROVE  News!Hops(S, d) =
             [x \in UNION {WalkOf(relations, S, d)[n] : n \in 0..d} |->
                News!Min({n \in 0..d : x \in WalkOf(relations, S, d)[n]})]
BY DEF News!Hops, WalkOf, IsWalk, EdgesOf, News!Edges

LEMMA WalkFrom ==
    ASSUME NEW R, NEW S, NEW d \in Nat, NEW f, IsWalk(f, R, S, d)
    PROVE  f[0] = S /\ Walks(f, R, d)
<1>1. \A n \in 0..d : f[n] = IF n = 0 THEN S ELSE StepsFrom(R, f[n - 1])
  BY Zenon DEF IsWalk, StepsFrom
<1>2. 0 \in 0..d /\ \A n \in 1..d : n \in 0..d /\ n # 0
  OBVIOUS
<1>3. QED
  BY <1>1, <1>2, Zenon DEF Walks

LEMMA WalkExists ==
    ASSUME NEW R, NEW S, NEW d \in Nat
    PROVE  IsWalk(WalkOf(R, S, d), R, S, d)
<1> DEFINE V == S \cup UNION {EndsOf(R, r) : r \in DOMAIN R}
           X == SUBSET V
           g == [A \in X |-> StepsFrom(R, A)]
<1>1. g \in [X -> X] /\ S \in X
  <2>1. \A A : StepsFrom(R, A) \subseteq V
    <3> SUFFICES ASSUME NEW e \in EdgesOf(R) PROVE e.b \in V
      BY DEF StepsFrom
    <3>1. e.id \in DOMAIN R /\ e.b \in EndsOf(R, e.id)
      BY EdgeEnds
    <3>2. QED
      BY <3>1
  <2>2. QED
    BY <2>1
<1>2. \A A \in X : g[A] = StepsFrom(R, A)
  OBVIOUS
<1> HIDE DEF g, X
<1>3. PICK f \in [0..d -> X] : Repeats(f, S, g, d)
  BY <1>1, Repeat
<1>4. ASSUME NEW n \in 0..d
      PROVE  f[n] = IF n = 0 THEN S ELSE StepsFrom(R, f[n - 1])
  <2>1. f[n] = IF n = 0 THEN S ELSE g[f[n - 1]]
    BY <1>3, Zenon DEF Repeats
  <2>2. n # 0 => f[n - 1] \in X
    <3>1. n # 0 => n - 1 \in 0..d
      OBVIOUS
    <3>2. f \in [0..d -> X]
      OBVIOUS
    <3>3. QED
      BY <3>1, <3>2
  <2>3. QED
    BY <1>2, <2>1, <2>2
<1>5. f = [n \in 0..d |-> f[n]]
  <2>1. f \in [0..d -> X]
    OBVIOUS
  <2>2. QED
    BY <2>1
<1>6. IsWalk(f, R, S, d)
  BY <1>4, <1>5 DEF IsWalk, StepsFrom
<1>7. QED
  BY <1>6 DEF WalkOf

\* All that the walk has come by after some steps.
ComeBy(f, n) == UNION {f[i] : i \in 0..n}

LEMMA WalkIsBall ==
    ASSUME NEW R, NEW S, NEW d \in Nat, NEW f, f[0] = S, Walks(f, R, d)
    PROVE  \A n \in 0..d : ComeBy(f, n) = Ball(R, S, n)
<1> DEFINE P == {n \in Nat : n <= d => UNION {f[i] : i \in 0..n} = Ball(R, S, n)}
<1>1. 0 \in P
  <2>1. 0..0 = {0}
    OBVIOUS
  <2>2. Ball(R, S, 0) = S
    BY BallGrows
  <2>3. QED
    BY <2>1, <2>2
<1>2. ASSUME NEW n \in Nat, n \in P PROVE n + 1 \in P
  <2>1. SUFFICES ASSUME n + 1 <= d
                 PROVE  UNION {f[i] : i \in 0..(n + 1)} = Ball(R, S, n + 1)
    OBVIOUS
  <2>2. UNION {f[i] : i \in 0..n} = Ball(R, S, n)
    BY <1>2, <2>1
  <2>3. \A i \in 0..n : f[i + 1] = StepsFrom(R, f[i])
    <3> SUFFICES ASSUME NEW i \in 0..n PROVE f[i + 1] = StepsFrom(R, f[i])
      OBVIOUS
    <3>1. i + 1 \in 1..d /\ i + 1 - 1 = i
      BY <2>1
    <3>2. f[i + 1] = StepsFrom(R, f[i + 1 - 1])
      BY <3>1 DEF Walks
    <3>3. QED
      BY <3>1, <3>2
  <2>4. Ball(R, S, n + 1) = Ball(R, S, n) \cup NextTo(R, Ball(R, S, n))
    BY BallGrows
  <2>5. Ball(R, S, n + 1) = Ball(R, S, n) \cup StepsFrom(R, Ball(R, S, n))
    BY <2>4, StepsAreNext
  <2>6. StepsFrom(R, Ball(R, S, n)) = UNION {StepsFrom(R, f[i]) : i \in 0..n}
    BY <2>2 DEF StepsFrom
  <2>7. UNION {f[i] : i \in 0..(n + 1)} =
            (UNION {f[i] : i \in 0..n}) \cup (UNION {f[i + 1] : i \in 0..n})
    <3>1. 0..n \subseteq 0..(n + 1) /\ \A i \in 0..n : i + 1 \in 0..(n + 1)
      OBVIOUS
    <3>2. ASSUME NEW i \in 0..(n + 1) PROVE i \in 0..n \/ \E j \in 0..n : j + 1 = i
      <4>1. n \in 0..n
        OBVIOUS
      <4>2. QED
        BY <4>1
    <3> DEFINE A == UNION {f[i] : i \in 0..n}
               B == UNION {f[i + 1] : i \in 0..n}
               C == UNION {f[i] : i \in 0..(n + 1)}
    <3>3. A \subseteq C /\ B \subseteq C
      BY <3>1
    <3>4. ASSUME NEW x \in C PROVE x \in A \cup B
      <4>1. PICK i \in 0..(n + 1) : x \in f[i]
        OBVIOUS
      <4>2. i \in 0..n \/ \E j \in 0..n : j + 1 = i
        BY <3>2
      <4>3. QED
        BY <4>1, <4>2
    <3>5. C = A \cup B
      <4> HIDE DEF A, B, C
      <4>1. QED
        BY <3>3, <3>4
    <3>6. QED
      BY <3>5
  <2>8. UNION {f[i + 1] : i \in 0..n} = UNION {StepsFrom(R, f[i]) : i \in 0..n}
    BY <2>3
  <2>9. QED
    BY <2>2, <2>5, <2>6, <2>7, <2>8
<1> HIDE DEF P
<1>3. \A n \in Nat : n \in P
  BY <1>1, <1>2, Induction
<1>4. QED
  BY <1>3 DEF P, ComeBy

LEMMA SameMin == \A S : News!Min(S) = Min(S)
BY DEF News!Min, Min

\* Every node the walk comes by is listed once, at its distance.
LEMMA HopsAreDistances ==
    ASSUME NEW S, NEW d \in Nat
    PROVE  /\ DOMAIN News!Hops(S, d) = Ball(relations, S, d)
           /\ \A x \in DOMAIN News!Hops(S, d) :
                LET n == News!Hops(S, d)[x] IN
                /\ n \in 0..d /\ x \in Ball(relations, S, n)
                /\ n = 0 \/ x \notin Ball(relations, S, n - 1)
<1>1. PICK f : f = WalkOf(relations, S, d)
  OBVIOUS
<1>2. f[0] = S /\ Walks(f, relations, d)
  <2>1. IsWalk(f, relations, S, d)
    BY <1>1, WalkExists
  <2>2. QED
    BY <2>1, WalkFrom
<1>3. \A n \in 0..d : UNION {f[i] : i \in 0..n} = Ball(relations, S, n)
  <2>1. \A n \in 0..d : ComeBy(f, n) = Ball(relations, S, n)
    BY <1>2, WalkIsBall
  <2>2. QED
    BY <2>1 DEF ComeBy
<1>4. News!Hops(S, d) = [x \in UNION {f[n] : n \in 0..d} |-> Min({n \in 0..d : x \in f[n]})]
  BY <1>1, HopsOfWalk, SameMin
<1>5. d \in 0..d
  OBVIOUS
<1>6. DOMAIN News!Hops(S, d) = Ball(relations, S, d)
  BY <1>3, <1>4, <1>5
<1>7. ASSUME NEW x \in UNION {f[n] : n \in 0..d}
      PROVE  LET n == News!Hops(S, d)[x] IN
             /\ n \in 0..d /\ x \in Ball(relations, S, n)
             /\ n = 0 \/ x \notin Ball(relations, S, n - 1)
  <2> DEFINE L == {n \in 0..d : x \in f[n]}
  <2>1. L \in SUBSET Nat /\ L # {}
    OBVIOUS
  <2>2. Min(L) \in L /\ \A n \in L : Min(L) <= n
    <3> HIDE DEF L
    <3>1. QED
      BY <2>1, MinIsLeast
  <2>3. PICK n : n = Min(L)
    OBVIOUS
  <2>4. News!Hops(S, d)[x] = n
    BY <1>4, <2>3
  <2>5. n \in 0..d /\ x \in f[n] /\ \A m \in 0..d : x \in f[m] => n <= m
    BY <2>2, <2>3
  <2>6. x \in Ball(relations, S, n)
    <3>1. n \in 0..n
      BY <2>5
    <3>2. QED
      BY <1>3, <2>5, <3>1
  <2>7. n = 0 \/ x \notin Ball(relations, S, n - 1)
    <3> SUFFICES ASSUME n # 0, x \in Ball(relations, S, n - 1) PROVE FALSE
      OBVIOUS
    <3>1. n - 1 \in 0..d
      BY <2>5
    <3>2. PICK i \in 0..(n - 1) : x \in f[i]
      BY <1>3, <3>1
    <3>3. QED
      BY <2>5, <3>2
  <2>8. QED
    BY <2>4, <2>5, <2>6, <2>7
<1>8. QED
  BY <1>4, <1>6, <1>7

-----------------------------------------------------------------------------
(* The paths between two names.                                            *)

\* Paths that go on by a relation; IsLevels describes get_paths level by level.
OnBy(p, e) == [nodes |-> Append(p.nodes, e.b), ids |-> Append(p.ids, e.id)]
GoOn(A, R, T) ==
    UNION {{OnBy(p, e) : e \in {e \in EdgesOf(R) :
                e.a = News!Last(p.nodes) /\ ~News!Contains(p.nodes, e.b)}} :
           p \in {p \in A : News!Last(p.nodes) \notin T}}
StartsOf(S) == {[nodes |-> <<s>>, ids |-> <<>>] : s \in S}

IsLevels(f, R, S, T, d) ==
    f = [n \in 0..d |-> IF n = 0 THEN StartsOf(S) ELSE GoOn(f[n - 1], R, T)]
LevelsOf(R, S, T, d) == CHOOSE f : IsLevels(f, R, S, T, d)
GoesOn(f, R, T, d) == \A n \in 1..d : f[n] = GoOn(f[n - 1], R, T)

LEMMA PathsOfLevels ==
    ASSUME NEW S, NEW T, NEW d
    PROVE  News!PathsBetween(S, T, d) =
             {p \in UNION {LevelsOf(relations, S, T, d)[n] : n \in 1..d} : News!Last(p.nodes) \in T}
BY DEF News!PathsBetween, News!Extensions, LevelsOf, IsLevels, GoOn, OnBy, StartsOf, EdgesOf, News!Edges

\* What a path of so many relations is, as far as it has come.
Places(R, S) == S \cup UNION {EndsOf(R, r) : r \in DOMAIN R}
Chains(R, S) == [nodes : Seq(Places(R, S)), ids : Seq(DOMAIN R)]
Trails(R, S, T, n) ==
    {p \in Chains(R, S) :
        /\ Len(p.nodes) = n + 1 /\ Len(p.ids) = n
        /\ \A i \in 1..n : EndsOf(R, p.ids[i]) = {p.nodes[i], p.nodes[i + 1]}
        /\ \A i \in 1..n : p.nodes[i] \notin T
        /\ \A i, j \in 1..(n + 1) : i # j => p.nodes[i] # p.nodes[j]
        /\ p.nodes[1] \in S
        /\ p.nodes[n + 1] \in Ball(R, {p.nodes[1]}, n)}

LEMMA ChainGoesOn ==
    ASSUME NEW R, NEW S, NEW p \in Chains(R, S), NEW e \in EdgesOf(R)
    PROVE  OnBy(p, e) \in Chains(R, S)
<1>1. e.id \in DOMAIN R /\ e.b \in EndsOf(R, e.id)
  BY EdgeEnds
<1>2. e.b \in Places(R, S)
  BY <1>1 DEF Places
<1>3. p.nodes \in Seq(Places(R, S)) /\ p.ids \in Seq(DOMAIN R)
  BY DEF Chains
<1>4. Append(p.nodes, e.b) \in Seq(Places(R, S)) /\ Append(p.ids, e.id) \in Seq(DOMAIN R)
  BY <1>1, <1>2, <1>3
<1>5. QED
  BY <1>4 DEF OnBy, Chains

LEMMA LevelsFrom ==
    ASSUME NEW R, NEW S, NEW T, NEW d \in Nat, NEW f, IsLevels(f, R, S, T, d)
    PROVE  f[0] = StartsOf(S) /\ GoesOn(f, R, T, d)
<1>1. \A n \in 0..d : f[n] = IF n = 0 THEN StartsOf(S) ELSE GoOn(f[n - 1], R, T)
  BY Zenon DEF IsLevels
<1>2. 0 \in 0..d /\ \A n \in 1..d : n \in 0..d /\ n # 0
  OBVIOUS
<1>3. QED
  BY <1>1, <1>2, Zenon DEF GoesOn

LEMMA LevelsExist ==
    ASSUME NEW R, NEW S, NEW T, NEW d \in Nat
    PROVE  IsLevels(LevelsOf(R, S, T, d), R, S, T, d)
<1> DEFINE X == SUBSET Chains(R, S)
           g == [A \in X |-> GoOn(A, R, T)]
<1>1. StartsOf(S) \in X
  <2>1. ASSUME NEW s \in S PROVE [nodes |-> <<s>>, ids |-> <<>>] \in Chains(R, S)
    <3>1. s \in Places(R, S)
      BY DEF Places
    <3>2. <<s>> \in Seq(Places(R, S)) /\ <<>> \in Seq(DOMAIN R)
      BY <3>1
    <3>3. QED
      BY <3>2 DEF Chains
  <2>2. QED
    BY <2>1 DEF StartsOf
<1>2. g \in [X -> X]
  <2>1. ASSUME NEW A \in X, NEW q \in GoOn(A, R, T) PROVE q \in Chains(R, S)
    <3>1. PICK p \in A, e \in EdgesOf(R) : q = OnBy(p, e)
      BY DEF GoOn
    <3>2. p \in Chains(R, S)
      OBVIOUS
    <3>3. QED
      BY <3>1, <3>2, ChainGoesOn
  <2>2. QED
    BY <2>1
<1>3. \A A \in X : g[A] = GoOn(A, R, T)
  OBVIOUS
<1> HIDE DEF g, X
<1>4. PICK f \in [0..d -> X] : Repeats(f, StartsOf(S), g, d)
  BY <1>1, <1>2, Repeat
<1>5. ASSUME NEW n \in 0..d
      PROVE  f[n] = IF n = 0 THEN StartsOf(S) ELSE GoOn(f[n - 1], R, T)
  <2>1. f[n] = IF n = 0 THEN StartsOf(S) ELSE g[f[n - 1]]
    BY <1>4, Zenon DEF Repeats
  <2>2. n # 0 => f[n - 1] \in X
    <3>1. n # 0 => n - 1 \in 0..d
      OBVIOUS
    <3>2. f \in [0..d -> X]
      OBVIOUS
    <3>3. QED
      BY <3>1, <3>2
  <2>3. QED
    BY <1>3, <2>1, <2>2
<1>6. f = [n \in 0..d |-> f[n]]
  <2>1. f \in [0..d -> X]
    OBVIOUS
  <2>2. QED
    BY <2>1
<1>7. IsLevels(f, R, S, T, d)
  BY <1>5, <1>6 DEF IsLevels
<1>8. QED
  BY <1>7 DEF LevelsOf

\* A trail goes on to a trail.
LEMMA TrailGoesOn ==
    ASSUME NEW R, NEW S, NEW T, NEW n \in Nat, NEW p \in Trails(R, S, T, n),
           NEW e \in EdgesOf(R), e.a = p.nodes[n + 1], p.nodes[n + 1] \notin T,
           \A i \in 1..(n + 1) : p.nodes[i] # e.b
    PROVE  OnBy(p, e) \in Trails(R, S, T, n + 1)
<1>1. PICK q : q = OnBy(p, e)
  OBVIOUS
<1>2. p \in Chains(R, S) /\ p.nodes \in Seq(Places(R, S)) /\ p.ids \in Seq(DOMAIN R)
  BY DEF Trails, Chains
<1>3. Len(p.nodes) = n + 1 /\ Len(p.ids) = n
  BY DEF Trails
<1>4. q \in Chains(R, S)
  BY <1>1, <1>2, ChainGoesOn
<1>5. /\ q.nodes = Append(p.nodes, e.b) /\ q.ids = Append(p.ids, e.id)
  BY <1>1 DEF OnBy
<1>6. /\ Len(q.nodes) = n + 2 /\ Len(q.ids) = n + 1
      /\ \A i \in 1..(n + 1) : q.nodes[i] = p.nodes[i]
      /\ q.nodes[n + 2] = e.b
      /\ \A i \in 1..n : q.ids[i] = p.ids[i]
      /\ q.ids[n + 1] = e.id
  BY <1>2, <1>3, <1>5
<1>7. EndsOf(R, e.id) = {e.a, e.b} /\ e.id \in DOMAIN R
  BY EdgeEnds
<1>8. ASSUME NEW i \in 1..(n + 1)
      PROVE  EndsOf(R, q.ids[i]) = {q.nodes[i], q.nodes[i + 1]} /\ q.nodes[i] \notin T
  <2>1. CASE i = n + 1
    <3>1. i + 1 = n + 2
      BY <2>1
    <3>2. QED
      BY <1>6, <1>7, <2>1, <3>1
  <2>2. CASE i # n + 1
    <3>1. i \in 1..n /\ i + 1 \in 1..(n + 1)
      BY <2>2
    <3>2. EndsOf(R, p.ids[i]) = {p.nodes[i], p.nodes[i + 1]} /\ p.nodes[i] \notin T
      BY <3>1 DEF Trails
    <3>3. QED
      BY <1>6, <3>1, <3>2
  <2>3. QED
    BY <2>1, <2>2
<1>9. \A i, j \in 1..(n + 2) : i # j => q.nodes[i] # q.nodes[j]
  <2>1. \A i, j \in 1..(n + 1) : i # j => p.nodes[i] # p.nodes[j]
    BY DEF Trails
  <2>2. \A i \in 1..(n + 2) : i \in 1..(n + 1) \/ i = n + 2
    OBVIOUS
  <2>3. QED
    BY <1>6, <2>1, <2>2
<1>10. q.nodes[1] = p.nodes[1] /\ q.nodes[1] \in S
  <2>1. 1 \in 1..(n + 1)
    OBVIOUS
  <2>2. p.nodes[1] \in S
    BY DEF Trails
  <2>3. QED
    BY <1>6, <2>1, <2>2
<1>11. e.b \in Ball(R, {q.nodes[1]}, n + 1)
  <2>1. e.a \in Ball(R, {q.nodes[1]}, n)
    BY <1>10 DEF Trails
  <2>2. e.b \in NextTo(R, Ball(R, {q.nodes[1]}, n))
    BY <1>7, <2>1 DEF NextTo
  <2>3. PICK O : O = {q.nodes[1]}
    OBVIOUS
  <2>4. \A m \in Nat : Ball(R, O, m + 1) = Ball(R, O, m) \cup NextTo(R, Ball(R, O, m))
    BY BallGrows
  <2>5. Ball(R, O, n + 1) = Ball(R, O, n) \cup NextTo(R, Ball(R, O, n))
    BY <2>4
  <2>6. QED
    BY <2>2, <2>3, <2>5
<1>12. n + 1 + 1 = n + 2
  OBVIOUS
<1>13. q \in Trails(R, S, T, n + 1)
  BY <1>4, <1>6, <1>8, <1>9, <1>10, <1>11, <1>12 DEF Trails
<1>14. QED
  BY <1>1, <1>13

LEMMA EndOfTrail ==
    ASSUME NEW R, NEW S, NEW T, NEW n \in Nat, NEW p \in Trails(R, S, T, n)
    PROVE  /\ News!Last(p.nodes) = p.nodes[n + 1]
           /\ \A x : News!Contains(p.nodes, x) <=> \E i \in 1..(n + 1) : p.nodes[i] = x
<1>1. Len(p.nodes) = n + 1
  BY DEF Trails
<1>2. QED
  BY <1>1 DEF News!Last, News!Contains

\* Every level holds trails of its length.
LEMMA LevelsAreTrails ==
    ASSUME NEW R, NEW S, NEW T, NEW d \in Nat, NEW f, f[0] = StartsOf(S), GoesOn(f, R, T, d)
    PROVE  \A n \in 0..d : f[n] \subseteq Trails(R, S, T, n)
<1> DEFINE P == {n \in Nat : n <= d => f[n] \subseteq Trails(R, S, T, n)}
<1>1. 0 \in P
  <2>1. ASSUME NEW s \in S PROVE [nodes |-> <<s>>, ids |-> <<>>] \in Trails(R, S, T, 0)
    <3>1. s \in Places(R, S)
      BY DEF Places
    <3>2. <<s>> \in Seq(Places(R, S)) /\ <<>> \in Seq(DOMAIN R)
      BY <3>1
    <3>3. PICK p : p = [nodes |-> <<s>>, ids |-> <<>>]
      OBVIOUS
    <3>4. p \in Chains(R, S) /\ p.nodes = <<s>> /\ p.ids = <<>>
      BY <3>2, <3>3 DEF Chains
    <3>5. p.nodes[1] = s /\ Len(p.nodes) = 1 /\ Len(p.ids) = 0
      BY <3>4
    <3>6. s \in Ball(R, {s}, 0)
      BY BallGrows
    <3>7. 1..0 = {} /\ 0 + 1 = 1 /\ 1..(0 + 1) = {1}
      OBVIOUS
    <3>8. p \in Trails(R, S, T, 0)
      BY <3>4, <3>5, <3>6, <3>7 DEF Trails
    <3>9. QED
      BY <3>3, <3>8
  <2>2. QED
    BY <2>1 DEF StartsOf
<1>2. ASSUME NEW n \in Nat, n \in P PROVE n + 1 \in P
  <2>1. SUFFICES ASSUME n + 1 <= d, NEW q \in f[n + 1] PROVE q \in Trails(R, S, T, n + 1)
    OBVIOUS
  <2>2. f[n] \subseteq Trails(R, S, T, n)
    BY <1>2, <2>1
  <2>3. f[n + 1] = GoOn(f[n], R, T)
    <3>1. n + 1 \in 1..d /\ n + 1 - 1 = n
      BY <2>1
    <3>2. f[n + 1] = GoOn(f[n + 1 - 1], R, T)
      BY <3>1 DEF GoesOn
    <3>3. QED
      BY <3>1, <3>2
  <2>4. PICK p \in f[n], e \in EdgesOf(R) :
          /\ News!Last(p.nodes) \notin T /\ e.a = News!Last(p.nodes) /\ ~News!Contains(p.nodes, e.b)
          /\ q = OnBy(p, e)
    BY <2>3 DEF GoOn
  <2>5. p \in Trails(R, S, T, n)
    BY <2>2
  <2>6. e.a = p.nodes[n + 1] /\ p.nodes[n + 1] \notin T /\ \A i \in 1..(n + 1) : p.nodes[i] # e.b
    BY <2>4, <2>5, EndOfTrail
  <2>7. QED
    BY <2>4, <2>5, <2>6, TrailGoesOn
<1> HIDE DEF P
<1>3. \A n \in Nat : n \in P
  BY <1>1, <1>2, Induction
<1>4. QED
  BY <1>3 DEF P

\* A node at distance n is the end of a trail of n relations, if no target is nearer.
Reached(f, R, O, T, n) ==
    \A x \in Ball(R, O, n) : (n = 0 \/ x \notin Ball(R, O, n - 1)) =>
        \E p \in f[n] : /\ p.nodes[1] \in O /\ p.nodes[n + 1] = x
                        /\ \A i \in 1..(n + 1) : p.nodes[i] \in Ball(R, O, n)

LEMMA NearestIsReached ==
    ASSUME NEW R, NEW S, NEW T, NEW d \in Nat, NEW f, f[0] = StartsOf(S), GoesOn(f, R, T, d),
           NEW O \in SUBSET S
    PROVE  \A n \in 0..d : (\A m \in 0..d : m < n => Ball(R, O, m) \cap T = {}) => Reached(f, R, O, T, n)
<1> DEFINE Clear(n) == \A m \in 0..d : m < n => Ball(R, O, m) \cap T = {}
           P == {n \in Nat : n <= d => (Clear(n) => Reached(f, R, O, T, n))}
<1>1. 0 \in P
  <2>1. ASSUME NEW x \in Ball(R, O, 0)
        PROVE  \E p \in f[0] : /\ p.nodes[1] \in O /\ p.nodes[0 + 1] = x
                               /\ \A i \in 1..(0 + 1) : p.nodes[i] \in Ball(R, O, 0)
    <3>1. x \in O
      BY BallGrows
    <3>2. PICK p : p = [nodes |-> <<x>>, ids |-> <<>>]
      OBVIOUS
    <3>3. p \in f[0]
      BY <3>1, <3>2 DEF StartsOf
    <3>4. p.nodes = <<x>>
      BY <3>2
    <3>5. p.nodes[1] = x /\ 0 + 1 = 1 /\ 1..(0 + 1) = {1}
      BY <3>4
    <3>6. QED
      BY <3>1, <3>3, <3>5
  <2>2. Reached(f, R, O, T, 0)
    BY <2>1 DEF Reached
  <2>3. QED
    BY <2>2
<1>2. ASSUME NEW n \in Nat, n \in P PROVE n + 1 \in P
  <2>1. SUFFICES ASSUME n + 1 <= d, Clear(n + 1) PROVE Reached(f, R, O, T, n + 1)
    OBVIOUS
  <2>2. n \in 0..d /\ n < n + 1
    BY <2>1
  <2>3. Clear(n) /\ Ball(R, O, n) \cap T = {}
    <3>1. \A m \in 0..d : m < n => m < n + 1
      BY <2>2
    <3>2. QED
      BY <2>1, <2>2, <3>1
  <2>4. Reached(f, R, O, T, n)
    BY <1>2, <2>2, <2>3
  <2>5. Ball(R, O, n + 1) = Ball(R, O, n) \cup NextTo(R, Ball(R, O, n))
    BY BallGrows
  <2>6. f[n + 1] = GoOn(f[n], R, T)
    <3>1. n + 1 \in 1..d /\ n + 1 - 1 = n
      BY <2>1
    <3>2. f[n + 1] = GoOn(f[n + 1 - 1], R, T)
      BY <3>1 DEF GoesOn
    <3>3. QED
      BY <3>1, <3>2
  <2>7. n + 1 - 1 = n /\ n + 1 # 0
    OBVIOUS
  <2> HIDE DEF Clear, P
  <2>8. ASSUME NEW x \in Ball(R, O, n + 1), x \notin Ball(R, O, n)
        PROVE  \E q \in f[n + 1] : /\ q.nodes[1] \in O /\ q.nodes[n + 1 + 1] = x
                                   /\ \A i \in 1..(n + 1 + 1) : q.nodes[i] \in Ball(R, O, n + 1)
    <3>1. PICK r \in DOMAIN R : EndsOf(R, r) \cap Ball(R, O, n) # {} /\ x \in EndsOf(R, r)
      BY <2>5, <2>8 DEF NextTo
    <3>2. PICK y \in EndsOf(R, r) : y \in Ball(R, O, n)
      BY <3>1
    <3>3. PICK e \in EdgesOf(R) : e = [id |-> r, a |-> y, b |-> x]
      BY <2>8, <3>1, <3>2, EdgeEnds
    <3>4. n = 0 \/ y \notin Ball(R, O, n - 1)
      <4> SUFFICES ASSUME n # 0, y \in Ball(R, O, n - 1) PROVE FALSE
        OBVIOUS
      <4>1. n - 1 \in Nat /\ n - 1 + 1 = n
        OBVIOUS
      <4>2. Ball(R, O, n - 1 + 1) = Ball(R, O, n - 1) \cup NextTo(R, Ball(R, O, n - 1))
        BY <4>1, BallGrows
      <4>3. x \in NextTo(R, Ball(R, O, n - 1))
        BY <3>1, <3>2 DEF NextTo
      <4>4. QED
        BY <2>8, <4>1, <4>2, <4>3
    <3>5. PICK p \in f[n] : /\ p.nodes[1] \in O /\ p.nodes[n + 1] = y
                            /\ \A i \in 1..(n + 1) : p.nodes[i] \in Ball(R, O, n)
      BY <2>4, <3>2, <3>4 DEF Reached
    <3>6. p \in Trails(R, S, T, n)
      BY <2>2, LevelsAreTrails
    <3>7. e.a = y /\ e.b = x
      BY <3>3
    <3>8. /\ News!Last(p.nodes) = y /\ y \notin T /\ ~News!Contains(p.nodes, x)
      <4>1. News!Last(p.nodes) = y
        BY <3>5, <3>6, EndOfTrail
      <4>2. y \notin T
        BY <2>3, <3>2
      <4>3. ~News!Contains(p.nodes, x)
        <5>1. News!Contains(p.nodes, x) <=> \E i \in 1..(n + 1) : p.nodes[i] = x
          BY <3>6, EndOfTrail
        <5>2. QED
          BY <2>8, <3>5, <5>1
      <4>4. QED
        BY <4>1, <4>2, <4>3
    <3>9. OnBy(p, e) \in f[n + 1]
      BY <2>6, <3>7, <3>8 DEF GoOn
    <3>10. PICK q : q = OnBy(p, e)
      OBVIOUS
    <3>11. /\ p.nodes \in Seq(Places(R, S)) /\ Len(p.nodes) = n + 1
      BY <3>6 DEF Trails, Chains
    <3>12. q.nodes = Append(p.nodes, x)
      BY <3>7, <3>10 DEF OnBy
    <3>13. /\ \A i \in 1..(n + 1) : q.nodes[i] = p.nodes[i]
           /\ q.nodes[n + 1 + 1] = x
      BY <3>11, <3>12
    <3>14. \A i \in 1..(n + 1 + 1) : i \in 1..(n + 1) \/ i = n + 1 + 1
      OBVIOUS
    <3>15. 1 \in 1..(n + 1)
      OBVIOUS
    <3>16. q.nodes[1] \in O
      BY <3>5, <3>13, <3>15
    <3>17. \A i \in 1..(n + 1 + 1) : q.nodes[i] \in Ball(R, O, n + 1)
      BY <2>5, <3>5, <3>13, <3>14
    <3>18. QED
      BY <3>9, <3>10, <3>13, <3>16, <3>17
  <2>9. QED
    BY <2>7, <2>8 DEF Reached
<1> HIDE DEF P
<1>3. \A n \in Nat : n \in P
  BY <1>1, <1>2, Induction
<1>4. QED
  BY <1>3 DEF P

-----------------------------------------------------------------------------
(* How many paths there are.                                               *)

LEMMA ImageIsFinite ==
    ASSUME NEW g, IsFiniteSet(DOMAIN g)
    PROVE  IsFiniteSet({g[x] : x \in DOMAIN g})
<1> DEFINE I == {g[x] : x \in DOMAIN g}
<1>1. [x \in DOMAIN g |-> g[x]] \in Surjection(DOMAIN g, I)
  BY DEF Surjection
<1>2. QED
  BY <1>1, FS_Surjection

LEMMA EdgesAreFinite ==
    ASSUME NEW R, IsFiniteSet(DOMAIN R)
    PROVE  IsFiniteSet(EdgesOf(R))
<1> DEFINE There == [r \in DOMAIN R |-> [id |-> r, a |-> R[r].source, b |-> R[r].target]]
           Back == [r \in DOMAIN R |-> [id |-> r, a |-> R[r].target, b |-> R[r].source]]
           I == {There[r] : r \in DOMAIN There}
           J == {Back[r] : r \in DOMAIN Back}
<1>1. DOMAIN There = DOMAIN R /\ DOMAIN Back = DOMAIN R
  OBVIOUS
<1>2. EdgesOf(R) = I \cup J
  BY DEF EdgesOf
<1>3. IsFiniteSet(I) /\ IsFiniteSet(J)
  <2> HIDE DEF There, Back
  <2>1. IsFiniteSet(I)
    BY <1>1, ImageIsFinite
  <2>2. IsFiniteSet(J)
    BY <1>1, ImageIsFinite
  <2>3. QED
    BY <2>1, <2>2
<1> HIDE DEF I, J
<1>4. QED
  BY <1>2, <1>3, FS_Union

LEMMA GoOnIsFinite ==
    ASSUME NEW A, NEW R, NEW T, IsFiniteSet(A), IsFiniteSet(DOMAIN R)
    PROVE  IsFiniteSet(GoOn(A, R, T))
<1> DEFINE g == [x \in A \X EdgesOf(R) |-> OnBy(x[1], x[2])]
<1>1. IsFiniteSet(A \X EdgesOf(R))
  BY EdgesAreFinite, FS_Product
<1>2. DOMAIN g = A \X EdgesOf(R)
  OBVIOUS
<1>3. GoOn(A, R, T) \subseteq {g[x] : x \in DOMAIN g}
  <2> SUFFICES ASSUME NEW q \in GoOn(A, R, T) PROVE \E x \in A \X EdgesOf(R) : q = g[x]
    BY <1>2
  <2>1. PICK p \in A, e \in EdgesOf(R) : q = OnBy(p, e)
    BY DEF GoOn
  <2>2. <<p, e>> \in A \X EdgesOf(R) /\ g[<<p, e>>] = OnBy(p, e)
    OBVIOUS
  <2>3. QED
    BY <2>1, <2>2
<1> HIDE DEF g
<1>4. IsFiniteSet({g[x] : x \in DOMAIN g})
  BY <1>1, <1>2, ImageIsFinite
<1>5. QED
  BY <1>3, <1>4, FS_Subset

LEMMA LevelsAreFinite ==
    ASSUME NEW R, NEW S, NEW T, NEW d \in Nat, NEW f, f[0] = StartsOf(S), GoesOn(f, R, T, d),
           IsFiniteSet(DOMAIN R), IsFiniteSet(S)
    PROVE  \A n \in 0..d : IsFiniteSet(f[n])
<1> DEFINE P == {n \in Nat : n <= d => IsFiniteSet(f[n])}
<1>1. 0 \in P
  <2> DEFINE g == [s \in S |-> [nodes |-> <<s>>, ids |-> <<>>]]
  <2>1. DOMAIN g = S /\ StartsOf(S) = {g[s] : s \in S}
    BY DEF StartsOf
  <2> HIDE DEF g
  <2>2. IsFiniteSet(StartsOf(S))
    BY <2>1, ImageIsFinite
  <2>3. QED
    BY <2>2
<1>2. ASSUME NEW n \in Nat, n \in P PROVE n + 1 \in P
  <2>1. SUFFICES ASSUME n + 1 <= d PROVE IsFiniteSet(f[n + 1])
    OBVIOUS
  <2>2. IsFiniteSet(f[n])
    BY <1>2, <2>1
  <2>3. n + 1 \in 1..d /\ n + 1 - 1 = n
    BY <2>1
  <2>4. f[n + 1] = GoOn(f[n + 1 - 1], R, T)
    BY <2>3 DEF GoesOn
  <2>5. f[n + 1] = GoOn(f[n], R, T)
    BY <2>3, <2>4
  <2>6. QED
    BY <2>2, <2>5, GoOnIsFinite
<1> HIDE DEF P
<1>3. \A n \in Nat : n \in P
  BY <1>1, <1>2, Induction
<1>4. QED
  BY <1>3 DEF P

\* The paths from S to T.
PathsOver(R, S, T, d) == {p \in UNION {LevelsOf(R, S, T, d)[n] : n \in 1..d} : News!Last(p.nodes) \in T}

LEMMA PathsAreFinite ==
    ASSUME NEW R, NEW S, NEW T, NEW d \in Nat, IsFiniteSet(DOMAIN R), IsFiniteSet(S)
    PROVE  IsFiniteSet(PathsOver(R, S, T, d))
<1>1. PICK f : f = LevelsOf(R, S, T, d)
  OBVIOUS
<1>2. f[0] = StartsOf(S) /\ GoesOn(f, R, T, d)
  <2>1. IsLevels(f, R, S, T, d)
    BY <1>1, LevelsExist
  <2>2. QED
    BY <2>1, LevelsFrom
<1>3. \A n \in 0..d : IsFiniteSet(f[n])
  BY <1>2, LevelsAreFinite
<1> DEFINE g == [n \in 1..d |-> f[n]]
           All == {g[n] : n \in 1..d}
<1>4. IsFiniteSet(All)
  <2>1. IsFiniteSet(1..d) /\ DOMAIN g = 1..d
    BY FS_Interval
  <2> HIDE DEF g
  <2>2. QED
    BY <2>1, ImageIsFinite
<1>5. \A A \in All : IsFiniteSet(A)
  BY <1>3
<1>6. IsFiniteSet(UNION All)
  <2> HIDE DEF All
  <2>1. QED
    BY <1>4, <1>5, FS_UNION
<1>7. PathsOver(R, S, T, d) \subseteq UNION All
  BY <1>1 DEF PathsOver
<1> HIDE DEF All
<1>8. QED
  BY <1>6, <1>7, FS_Subset

LEMMA PathsAreTrails ==
    ASSUME NEW R, NEW S, NEW T, NEW d \in Nat
    PROVE  \A p \in PathsOver(R, S, T, d) :
             \E n \in 1..d : p \in Trails(R, S, T, n) /\ p.nodes[n + 1] \in T
<1>1. PICK f : f = LevelsOf(R, S, T, d)
  OBVIOUS
<1>2. f[0] = StartsOf(S) /\ GoesOn(f, R, T, d)
  <2>1. IsLevels(f, R, S, T, d)
    BY <1>1, LevelsExist
  <2>2. QED
    BY <2>1, LevelsFrom
<1>3. \A n \in 0..d : f[n] \subseteq Trails(R, S, T, n)
  BY <1>2, LevelsAreTrails
<1> SUFFICES ASSUME NEW p \in PathsOver(R, S, T, d)
             PROVE  \E n \in 1..d : p \in Trails(R, S, T, n) /\ p.nodes[n + 1] \in T
  OBVIOUS
<1>4. PICK n \in 1..d : p \in f[n] /\ News!Last(p.nodes) \in T
  BY <1>1 DEF PathsOver
<1>5. n \in 0..d /\ n \in Nat
  OBVIOUS
<1>6. p \in Trails(R, S, T, n)
  BY <1>3, <1>4, <1>5
<1>7. News!Last(p.nodes) = p.nodes[n + 1]
  BY <1>5, <1>6, EndOfTrail
<1>8. QED
  BY <1>4, <1>6, <1>7

\* From where the nearest target is k relations away, a path of k relations leads to it.
LEMMA ShortestIsPath ==
    ASSUME NEW R, NEW S, NEW T, NEW d \in Nat, NEW O \in SUBSET S, O \cap T = {},
           NEW k \in 1..d, Ball(R, O, k) \cap T # {},
           \A m \in 1..d : m < k => Ball(R, O, m) \cap T = {}
    PROVE  \E p \in PathsOver(R, S, T, d) : p \in Trails(R, S, T, k) /\ p.nodes[1] \in O
<1>1. PICK f : f = LevelsOf(R, S, T, d)
  OBVIOUS
<1>2. f[0] = StartsOf(S) /\ GoesOn(f, R, T, d)
  <2>1. IsLevels(f, R, S, T, d)
    BY <1>1, LevelsExist
  <2>2. QED
    BY <2>1, LevelsFrom
<1>3. \A n \in 0..d : f[n] \subseteq Trails(R, S, T, n)
  BY <1>2, LevelsAreTrails
<1>4. \A m \in 0..d : m < k => Ball(R, O, m) \cap T = {}
  <2>1. Ball(R, O, 0) \cap T = {}
    BY BallGrows
  <2>2. \A m \in 0..d : m = 0 \/ m \in 1..d
    OBVIOUS
  <2>3. QED
    BY <2>1, <2>2
<1>5. Reached(f, R, O, T, k)
  <2>1. k \in 0..d
    OBVIOUS
  <2>2. QED
    BY <1>2, <1>4, <2>1, NearestIsReached
<1>6. PICK x \in Ball(R, O, k) : x \in T
  OBVIOUS
<1>7. x \notin Ball(R, O, k - 1)
  <2>1. k - 1 \in 0..d /\ k - 1 < k
    OBVIOUS
  <2>2. QED
    BY <1>4, <1>6, <2>1
<1>8. PICK p \in f[k] : p.nodes[1] \in O /\ p.nodes[k + 1] = x
  BY <1>5, <1>6, <1>7 DEF Reached
<1>9. p \in Trails(R, S, T, k)
  BY <1>3
<1>10. News!Last(p.nodes) = x
  BY <1>8, <1>9, EndOfTrail
<1>11. p \in PathsOver(R, S, T, d)
  BY <1>1, <1>6, <1>8, <1>10 DEF PathsOver
<1>12. QED
  BY <1>8, <1>9, <1>11

-----------------------------------------------------------------------------
(* What the answers were made of.                                          *)

\* The paths listed are the first of those there were.
PathsRead ==
    LET there == PathsOver(found.snapshot, found.sources, found.targets, request.depth) IN
    "paths" \in DOMAIN found =>
        /\ {"snapshot", "sources", "targets", "truncated"} \subseteq DOMAIN found
        /\ request.depth \in Nat
        /\ IsFiniteSet(found.sources) /\ IsFiniteSet(DOMAIN found.snapshot)
        /\ found.paths \in News!Limited(there, PathLimit)
        /\ \A p \in found.paths, q \in there \ found.paths : ~News!Precedes(q, p)
        /\ found.truncated = (News!Cardinality(there) > PathLimit)

\* The neighbours listed are the nearest of those there were in the table: E are
\* its entities, h the distances.
HopsFrom(E, h) ==
    /\ {"snapshot", "sources", "truncated"} \subseteq DOMAIN found
    /\ request.depth \in Nat
    /\ DOMAIN h = Ball(found.snapshot, found.sources, request.depth)
    /\ \A x \in DOMAIN h :
        /\ h[x] \in 0..request.depth /\ x \in Ball(found.snapshot, found.sources, h[x])
        /\ h[x] = 0 \/ x \notin Ball(found.snapshot, found.sources, h[x] - 1)
    /\ \A r \in DOMAIN found.snapshot : EndsOf(found.snapshot, r) \subseteq E
    /\ IsFiniteSet(E)
    /\ DOMAIN found.hops \in News!Limited(DOMAIN h \cap E, NodeLimit)
    /\ \A x \in DOMAIN found.hops : found.hops[x] = h[x]
    /\ \A x \in DOMAIN found.hops, y \in (DOMAIN h \cap E) \ DOMAIN found.hops : h[x] <= h[y]
    /\ News!Cardinality(DOMAIN h \cap E) > NodeLimit => found.truncated

HopsRead == "hops" \in DOMAIN found => \E E, h : HopsFrom(E, h)

PathsTrue ==
    "paths" \in DOMAIN found =>
        LET from == found.sources \ found.targets
            meets(S) == {n \in 1..request.depth : News!Within(S, n) \cap found.targets # {}}
            shows(S) == \E p \in found.paths : Head(p.nodes) \in S /\ Len(p.ids) = News!Min(meets(S))
        IN
        /\ \A p \in found.paths : News!IsPath(p)
        /\ meets(from) # {} => shows(from)
        /\ ~found.truncated => \A s \in from : meets({s}) # {} => shows({s})

HopsTrue ==
    "hops" \in DOMAIN found =>
        /\ \A x \in DOMAIN found.hops :
            LET n == found.hops[x] IN
            /\ n <= request.depth /\ x \in News!Within(found.sources, n)
            /\ n = 0 \/ x \notin News!Within(found.sources, n - 1)
        /\ \A r \in DOMAIN found.snapshot : \A y \in News!Ends(r) \ DOMAIN found.hops :
            y \in News!Within(found.sources, request.depth) =>
                /\ found.truncated
                /\ \A x \in DOMAIN found.hops :
                    found.hops[x] = 0 \/ y \notin News!Within(found.sources, found.hops[x] - 1)

EdgesTrue ==
    "edges" \in DOMAIN found =>
        \A e \in found.edges : {e.source, e.target} \subseteq DOMAIN found.hops

LEMMA AnswersInParts == GraphAnswersAreTrue <=> PathsTrue /\ HopsTrue /\ EdgesTrue
BY DEF GraphAnswersAreTrue, News!GraphAnswersAreTrue, PathsTrue, HopsTrue, EdgesTrue

\* So the neighbours are at their distances, and only the farthest are left out.
LEMMA HopsReadAreTrue == HopsRead => HopsTrue
<1> SUFFICES ASSUME HopsRead, "hops" \in DOMAIN found PROVE HopsTrue
  BY DEF HopsTrue
<1> DEFINE R == found.snapshot
           S == found.sources
<1>1. PICK E, h :
            /\ request.depth \in Nat
            /\ DOMAIN h = Ball(R, S, request.depth)
            /\ \A x \in DOMAIN h :
                /\ h[x] \in 0..request.depth /\ x \in Ball(R, S, h[x])
                /\ h[x] = 0 \/ x \notin Ball(R, S, h[x] - 1)
            /\ \A r \in DOMAIN R : EndsOf(R, r) \subseteq E
            /\ IsFiniteSet(E)
            /\ DOMAIN found.hops \in News!Limited(DOMAIN h \cap E, NodeLimit)
            /\ \A x \in DOMAIN found.hops : found.hops[x] = h[x]
            /\ \A x \in DOMAIN found.hops, y \in (DOMAIN h \cap E) \ DOMAIN found.hops : h[x] <= h[y]
            /\ News!Cardinality(DOMAIN h \cap E) > NodeLimit => found.truncated
  BY DEF HopsRead, HopsFrom
<1>2. PICK near : near = DOMAIN h \cap E
  OBVIOUS
<1>3. /\ DOMAIN found.hops \subseteq near
      /\ DOMAIN found.hops = near \/ Cardinality(DOMAIN found.hops) = NodeLimit
  BY <1>1, <1>2, SameSizeOfRows DEF News!Limited
<1>4. DOMAIN found.hops # near => found.truncated
  <2>1. SUFFICES ASSUME DOMAIN found.hops # near PROVE Cardinality(near) > NodeLimit
    BY <1>1, <1>2, SameSizeOfRows
  <2>2. Cardinality(DOMAIN found.hops) = NodeLimit
    BY <1>3, <2>1
  <2>3. IsFiniteSet(near)
    BY <1>1, <1>2, FS_Subset
  <2>4. /\ Cardinality(DOMAIN found.hops) <= Cardinality(near)
        /\ Cardinality(DOMAIN found.hops) # Cardinality(near)
    BY <1>3, <2>1, <2>3, FS_Subset
  <2>5. Cardinality(near) \in Nat /\ NodeLimit \in Nat
    BY <2>3, FS_CardinalityType, NewsAssumption
  <2>6. QED
    BY <2>2, <2>4, <2>5
<1>5. ASSUME NEW x \in DOMAIN found.hops
      PROVE  LET n == found.hops[x] IN
             /\ n <= request.depth /\ x \in News!Within(found.sources, n)
             /\ n = 0 \/ x \notin News!Within(found.sources, n - 1)
  <2>1. x \in DOMAIN h /\ found.hops[x] = h[x]
    BY <1>1, <1>2, <1>3
  <2>2. /\ h[x] <= request.depth /\ x \in Ball(R, S, h[x])
        /\ h[x] = 0 \/ x \notin Ball(R, S, h[x] - 1)
    BY <1>1, <2>1
  <2>3. /\ News!Within(S, h[x]) = Ball(R, S, h[x])
        /\ News!Within(S, h[x] - 1) = Ball(R, S, h[x] - 1)
    BY WithinIsBall
  <2>4. QED
    BY <2>1, <2>2, <2>3
<1>6. ASSUME NEW r \in DOMAIN found.snapshot, NEW y \in News!Ends(r) \ DOMAIN found.hops,
             y \in News!Within(found.sources, request.depth)
      PROVE  /\ found.truncated
             /\ \A x \in DOMAIN found.hops :
                    found.hops[x] = 0 \/ y \notin News!Within(found.sources, found.hops[x] - 1)
  <2>1. y \in Ball(R, S, request.depth) /\ y \in EndsOf(R, r)
    BY <1>6, WithinIsBall DEF News!Ends, EndsOf
  <2>2. y \in near /\ y \in DOMAIN h
    BY <1>1, <1>2, <2>1
  <2>3. found.truncated
    BY <1>4, <2>2
  <2>4. ASSUME NEW x \in DOMAIN found.hops, found.hops[x] # 0
        PROVE  y \notin News!Within(found.sources, found.hops[x] - 1)
    <3>1. x \in DOMAIN h /\ found.hops[x] = h[x] /\ h[x] <= h[y]
      BY <1>1, <1>2, <1>3, <2>2
    <3>2. h[x] \in 0..request.depth /\ h[y] \in 0..request.depth /\ request.depth \in Nat
      BY <1>1, <2>2, <3>1
    <3>3. h[x] - 1 \in Nat /\ h[y] - 1 \in Nat /\ h[x] - 1 <= h[y] - 1 /\ h[y] # 0
      BY <2>4, <3>1, <3>2
    <3>4. y \notin Ball(R, S, h[y] - 1)
      BY <1>1, <2>2, <3>3
    <3>5. Ball(R, S, h[x] - 1) \subseteq Ball(R, S, h[y] - 1)
      BY <3>3, BallsAreNested
    <3>6. News!Within(S, h[x] - 1) = Ball(R, S, h[x] - 1)
      BY WithinIsBall
    <3>7. QED
      BY <3>1, <3>4, <3>5, <3>6
  <2>5. QED
    BY <2>3, <2>4
<1>7. QED
  BY <1>5, <1>6 DEF HopsTrue

\* A trail that ends at its first target is a path as it is asked for.
LEMMA TrailIsPath ==
    ASSUME NEW n \in 1..request.depth, request.depth \in Nat,
           NEW p \in Trails(found.snapshot, found.sources, found.targets, n),
           p.nodes[n + 1] \in found.targets
    PROVE  News!IsPath(p)
<1>1. /\ Len(p.nodes) = n + 1 /\ Len(p.ids) = n
      /\ p.nodes \in Seq(Places(found.snapshot, found.sources))
      /\ p.ids \in Seq(DOMAIN found.snapshot)
  BY DEF Trails, Chains
<1>2. DOMAIN p.nodes = 1..(n + 1) /\ DOMAIN p.ids = 1..n /\ n \in Nat
  BY <1>1
<1>3. News!Cardinality(News!ToSet(p.nodes)) = n + 1
  <2>1. News!ToSet(p.nodes) = {p.nodes[i] : i \in DOMAIN p.nodes}
    BY DEF News!ToSet
  <2> DEFINE I == {p.nodes[i] : i \in 1..(n + 1)}
  <2>2. [i \in 1..(n + 1) |-> p.nodes[i]] \in Bijection(1..(n + 1), I)
    <3>1. \A i, j \in 1..(n + 1) : i # j => p.nodes[i] # p.nodes[j]
      BY DEF Trails
    <3>2. QED
      BY <3>1 DEF Bijection, Injection, Surjection, IsInjective
  <2>3. News!ToSet(p.nodes) = I
    BY <1>2, <2>1
  <2>4. Cardinality(I) = n + 1
    <3> HIDE DEF I
    <3>1. Bijection(1..(n + 1), I) # {}
      BY <2>2
    <3>2. ExistsBijection(1..(n + 1), I)
      BY <3>1, Zenon DEF ExistsBijection
    <3>3. n + 1 \in Nat
      BY <1>2
    <3>4. QED
      BY <3>2, <3>3, FS_CountingElements
  <2>5. QED
    BY <2>3, <2>4, SameSizeOfRows
<1>4. \A i \in DOMAIN p.ids : News!Ends(p.ids[i]) = {p.nodes[i], p.nodes[i + 1]}
  <2>1. \A i \in 1..n : EndsOf(found.snapshot, p.ids[i]) = {p.nodes[i], p.nodes[i + 1]}
    BY DEF Trails
  <2>2. QED
    BY <1>2, <2>1 DEF EndsOf, News!Ends
<1>5. Head(p.nodes) \in found.sources
  <2>1. p.nodes[1] \in found.sources
    BY DEF Trails
  <2>2. Head(p.nodes) = p.nodes[1]
    BY <1>1, <1>2
  <2>3. QED
    BY <2>1, <2>2
<1>6. \A i \in DOMAIN p.nodes : p.nodes[i] \in found.targets <=> i = Len(p.nodes)
  <2>1. \A i \in 1..n : p.nodes[i] \notin found.targets
    BY DEF Trails
  <2>2. \A i \in 1..(n + 1) : i \in 1..n \/ i = n + 1
    BY <1>2
  <2>3. \A i \in 1..n : i # n + 1
    BY <1>2
  <2>4. QED
    BY <1>1, <1>2, <2>1, <2>2, <2>3
<1>7. QED
  BY <1>1, <1>3, <1>4, <1>5, <1>6 DEF News!IsPath

\* From the sources that are no targets some shortest path is always listed; if
\* none was cut off, one from each.
LEMMA ShortestIsListed ==
    ASSUME PathsRead, "paths" \in DOMAIN found,
           NEW O \in SUBSET (found.sources \ found.targets),
           O = found.sources \ found.targets \/ ~found.truncated,
           NEW k \in 1..request.depth,
           Ball(found.snapshot, O, k) \cap found.targets # {},
           \A m \in 1..request.depth : m < k => Ball(found.snapshot, O, m) \cap found.targets = {}
    PROVE  \E p \in found.paths : Head(p.nodes) \in O /\ Len(p.ids) = k
<1> DEFINE R == found.snapshot
           S == found.sources
           T == found.targets
           d == request.depth
           there == PathsOver(R, S, T, d)
<1>1. /\ d \in Nat /\ IsFiniteSet(S) /\ IsFiniteSet(DOMAIN R)
      /\ found.paths \in News!Limited(there, PathLimit)
      /\ \A p \in found.paths, q \in there \ found.paths : ~News!Precedes(q, p)
      /\ found.truncated = (News!Cardinality(there) > PathLimit)
  BY DEF PathsRead
<1>2. /\ found.paths \subseteq there
      /\ Cardinality(found.paths) <= PathLimit
      /\ found.paths = there \/ Cardinality(found.paths) = PathLimit
  BY <1>1, SameSizeOfRows DEF News!Limited
<1>3. O \in SUBSET S /\ O \cap T = {}
  OBVIOUS
<1> HIDE DEF there
<1>4. PICK q \in there : q \in Trails(R, S, T, k) /\ q.nodes[1] \in O
  <2>1. \E p \in PathsOver(R, S, T, d) : p \in Trails(R, S, T, k) /\ p.nodes[1] \in O
    <3>1. PICK b, s, t, c : b = R /\ s = S /\ t = T /\ c = d
      OBVIOUS
    <3>2. /\ c \in Nat /\ O \in SUBSET s /\ O \cap t = {} /\ k \in 1..c
          /\ Ball(b, O, k) \cap t # {}
          /\ \A m \in 1..c : m < k => Ball(b, O, m) \cap t = {}
      BY <1>1, <1>3, <3>1
    <3>3. \E p \in PathsOver(b, s, t, c) : p \in Trails(b, s, t, k) /\ p.nodes[1] \in O
      BY <3>2, ShortestIsPath
    <3>4. QED
      BY <3>1, <3>3
  <2>2. QED
    BY <2>1 DEF there
<1>5. /\ \A p \in there : \E n \in 1..d : p \in Trails(R, S, T, n) /\ p.nodes[n + 1] \in T
      /\ IsFiniteSet(there)
  BY <1>1, PathsAreTrails, PathsAreFinite DEF there
<1>6. /\ \A n \in Nat : \A p \in Trails(R, S, T, n) :
            Head(p.nodes) = p.nodes[1] /\ Len(p.ids) = n /\ Len(p.nodes) = n + 1
  BY DEF Trails, Chains
<1>7. k \in Nat
  BY <1>1
<1>8. CASE q \in found.paths
  BY <1>4, <1>6, <1>7, <1>8
<1>9. CASE q \notin found.paths
  <2>1. Cardinality(there) > PathLimit
    <3>1. Cardinality(found.paths) # Cardinality(there) /\ Cardinality(found.paths) <= Cardinality(there)
      BY <1>2, <1>4, <1>5, <1>9, FS_Subset
    <3>2. Cardinality(found.paths) = PathLimit
      BY <1>2, <1>4, <1>9
    <3>3. Cardinality(there) \in Nat /\ PathLimit \in Nat
      BY <1>5, FS_CardinalityType, NewsAssumption
    <3>4. QED
      BY <3>1, <3>2, <3>3
  <2>2. O = S \ T
    BY <1>1, <2>1, SameSizeOfRows
  <2>3. PICK p \in found.paths : TRUE
    <3>1. Cardinality(found.paths) = PathLimit /\ PathLimit # 0
      BY <1>2, <1>4, <1>9, NewsAssumption
    <3>2. found.paths # {}
      BY <3>1, FS_EmptySet
    <3>3. QED
      BY <3>2
  <2>4. PICK n \in 1..d : p \in Trails(R, S, T, n) /\ p.nodes[n + 1] \in T
    BY <1>2, <1>5, <2>3
  <2>5. n \in Nat /\ 1 \in 1..n
    BY <1>1
  <2>6. ~News!Precedes(q, p)
    BY <1>1, <1>4, <1>9 DEF there
  <2>7. ~(Len(q.nodes) < Len(p.nodes))
    BY <2>6 DEF News!Precedes
  <2>8. n <= k
    BY <1>4, <1>6, <1>7, <2>4, <2>5, <2>7
  <2>9. p.nodes[1] \in O
    <3>1. p.nodes[1] \in S /\ p.nodes[1] \notin T
      BY <2>4, <2>5 DEF Trails
    <3>2. QED
      BY <2>2, <3>1
  <2>10. p.nodes[n + 1] \in Ball(R, O, n)
    <3>1. p.nodes[n + 1] \in Ball(R, {p.nodes[1]}, n)
      BY <2>4 DEF Trails
    <3>2. PICK A : A = {p.nodes[1]}
      OBVIOUS
    <3>3. A \subseteq O
      BY <2>9, <3>2
    <3>4. Ball(R, A, n) \subseteq Ball(R, O, n)
      BY <2>5, <3>3, MoreIsNear
    <3>5. QED
      BY <3>1, <3>2, <3>4
  <2>11. ~(n < k)
    BY <2>4, <2>10
  <2>12. n = k
    BY <1>7, <2>5, <2>8, <2>11
  <2>13. QED
    BY <1>6, <2>4, <2>5, <2>9, <2>12
<1>10. QED
  BY <1>8, <1>9

LEMMA PathsReadAreTrue == PathsRead => PathsTrue
<1> SUFFICES ASSUME PathsRead, "paths" \in DOMAIN found PROVE PathsTrue
  BY DEF PathsTrue
<1> DEFINE origin == found.sources \ found.targets
           meets(A) == {n \in 1..request.depth : News!Within(A, n) \cap found.targets # {}}
           shows(A) == \E p \in found.paths : Head(p.nodes) \in A /\ Len(p.ids) = News!Min(meets(A))
<1>1. \A p \in found.paths : News!IsPath(p)
  <2> SUFFICES ASSUME NEW p \in found.paths PROVE News!IsPath(p)
    OBVIOUS
  <2>1. /\ request.depth \in Nat
        /\ p \in PathsOver(found.snapshot, found.sources, found.targets, request.depth)
    BY DEF PathsRead, News!Limited
  <2>2. PICK n \in 1..request.depth :
            /\ p \in Trails(found.snapshot, found.sources, found.targets, n)
            /\ p.nodes[n + 1] \in found.targets
    BY <2>1, PathsAreTrails
  <2>3. QED
    BY <2>1, <2>2, TrailIsPath
<1>2. ASSUME NEW O \in SUBSET origin, O = origin \/ ~found.truncated, meets(O) # {}
      PROVE  shows(O)
  <2>1. request.depth \in Nat
    BY DEF PathsRead
  <2>2. meets(O) \in SUBSET Nat
    BY <2>1
  <2>3. PICK k : k = News!Min(meets(O))
    OBVIOUS
  <2>4. k \in meets(O) /\ \A m \in meets(O) : k <= m
    <3>1. PICK M : M = meets(O)
      OBVIOUS
    <3>2. Min(M) \in M /\ \A m \in M : Min(M) <= m
      BY <1>2, <2>2, <3>1, MinIsLeast
    <3>3. QED
      BY <2>3, <3>1, <3>2, SameMin
  <2>5. /\ k \in 1..request.depth /\ Ball(found.snapshot, O, k) \cap found.targets # {}
        /\ \A m \in 1..request.depth : m < k => Ball(found.snapshot, O, m) \cap found.targets = {}
    <3>1. \A n : News!Within(O, n) = Ball(found.snapshot, O, n)
      BY WithinIsBall
    <3>2. \A m \in 1..request.depth : m < k => ~(k <= m)
      BY <2>1, <2>4
    <3>3. QED
      BY <2>4, <3>1, <3>2
  <2>6. \E p \in found.paths : Head(p.nodes) \in O /\ Len(p.ids) = k
    BY <1>2, <2>5, ShortestIsListed
  <2>7. QED
    BY <2>3, <2>6
<1>3. meets(origin) # {} => shows(origin)
  BY <1>2
<1>4. ~found.truncated => \A s \in origin : meets({s}) # {} => shows({s})
  <2> HIDE DEF meets, shows
  <2>1. SUFFICES ASSUME ~found.truncated, NEW s \in origin, meets({s}) # {} PROVE shows({s})
    OBVIOUS
  <2>2. {s} \in SUBSET origin
    OBVIOUS
  <2>3. QED
    BY <1>2, <2>1, <2>2
<1>5. QED
  BY <1>1, <1>3, <1>4 DEF PathsTrue

-----------------------------------------------------------------------------
(* The tables of the graph, and what has been read from them.              *)

Row(E) == [cluster : Int, source : E, target : E]

\* Relations are between entities that are there.
StoreInv ==
    /\ relations \in [DOMAIN relations -> Row(entities)]
    /\ IsFiniteSet(DOMAIN relations) /\ IsFiniteSet(entities)
    /\ Alias[2] \in entities /\ nextId \in Nat

Answers == {"paths", "hops", "edges"}

AskedInv ==
    /\ step \in {"idle", "page", "exists", "sources", "targets", "nodes", "paths"} =>
        Answers \cap DOMAIN found = {}
    /\ step \in {"sources", "targets", "nodes", "paths"} => request.depth \in Nat
    /\ step \in {"targets", "nodes", "paths"} =>
        "sources" \in DOMAIN found /\ IsFiniteSet(found.sources)
    /\ step = "paths" => "targets" \in DOMAIN found
    /\ step = "edges" => "hops" \in DOMAIN found /\ "paths" \notin DOMAIN found

EdgesRead == EdgesTrue /\ ("edges" \in DOMAIN found => "hops" \in DOMAIN found)

AnswerInv == StoreInv /\ AskedInv /\ PathsRead /\ HopsRead /\ EdgesRead

LEMMA AnswerInvIsTrue == AnswerInv => GraphAnswersAreTrue
BY PathsReadAreTrue, HopsReadAreTrue, AnswersInParts DEF AnswerInv, EdgesRead

\* The rows of a finite set of pairs.
LEMMA RowedPairs ==
    ASSUME NEW pairs \in Stated, NEW c \in Int, NEW first \in Nat, NEW E,
           News!Mentioned(pairs) \subseteq E
    PROVE  LET rows == News!Rowed(c, pairs, first) IN
           rows \in [DOMAIN rows -> Row(E)] /\ IsFiniteSet(DOMAIN rows)
<1>1. PICK rows : rows = News!Rowed(c, pairs, first)
  OBVIOUS
<1>2. PICK order : order = News!SetToSeq(pairs)
  OBVIOUS
<1>3. Cardinality(pairs) \in Nat /\ ExistsBijection(1..Cardinality(pairs), pairs)
  BY NewsAssumption, FS_CardinalityType
<1>4. order \in [1..Cardinality(pairs) -> pairs]
  <2>1. PICK f \in Bijection(1..Cardinality(pairs), pairs) : TRUE
    BY <1>3 DEF ExistsBijection
  <2>2. f \in [1..Cardinality(pairs) -> pairs] /\ News!IsInjective(f)
    BY <2>1 DEF Bijection, Injection, IsInjective, News!IsInjective
  <2>3. QED
    BY <1>2, <2>2, SameSizeOfRows DEF News!SetToSeq
<1>5. Len(order) = Cardinality(pairs)
  BY <1>3, <1>4
<1>6. rows = [r \in first..(first + Len(order) - 1) |->
                [cluster |-> c, source |-> order[r - first + 1][1], target |-> order[r - first + 1][2]]]
  BY <1>1, <1>2 DEF News!Rowed
<1>7. ASSUME NEW r \in first..(first + Len(order) - 1) PROVE rows[r] \in Row(E)
  <2>1. r - first + 1 \in 1..Cardinality(pairs)
    BY <1>3, <1>5
  <2>2. PICK p \in pairs : p = order[r - first + 1]
    BY <1>4, <2>1
  <2>3. p[1] \in E /\ p[2] \in E
    BY DEF News!Mentioned
  <2>4. rows[r] = [cluster |-> c, source |-> p[1], target |-> p[2]]
    BY <1>6, <2>2
  <2>5. QED
    BY <2>3, <2>4 DEF Row
<1>8. IsFiniteSet(first..(first + Len(order) - 1))
  BY <1>3, <1>5, FS_Interval
<1>9. DOMAIN rows = first..(first + Len(order) - 1)
  BY <1>6
<1>10. rows \in [DOMAIN rows -> Row(E)]
  BY <1>6, <1>7, <1>9
<1>11. QED
  BY <1>1, <1>8, <1>9, <1>10

LEMMA MentionedIsFinite ==
    ASSUME NEW pairs \in Stated
    PROVE  IsFiniteSet(News!Mentioned(pairs))
<1> DEFINE g == [p \in pairs |-> {p[1], p[2]}]
           All == {g[p] : p \in DOMAIN g}
<1>1. IsFiniteSet(pairs) /\ DOMAIN g = pairs
  BY NewsAssumption
<1>2. \A A \in All : IsFiniteSet(A)
  <2> SUFFICES ASSUME NEW p \in pairs PROVE IsFiniteSet({p[1], p[2]})
    OBVIOUS
  <2>1. {p[1], p[2]} = {p[1]} \cup {p[2]}
    OBVIOUS
  <2>2. IsFiniteSet({p[1]} \cup {p[2]})
    BY FS_Singleton, FS_Union
  <2>3. QED
    BY <2>1, <2>2
<1>3. News!Mentioned(pairs) = UNION All
  BY DEF News!Mentioned
<1> HIDE DEF g
<1>4. IsFiniteSet(All)
  BY <1>1, ImageIsFinite
<1> HIDE DEF All
<1>5. QED
  BY <1>2, <1>3, <1>4, FS_UNION

\* What the writers leave is in order.
LEMMA StoreStart == News!Init => StoreInv
<1> SUFFICES ASSUME News!Init PROVE StoreInv
  OBVIOUS
<1>1. PICK pairs \in Stated :
        /\ relations = News!Rowed(1, pairs, 1) /\ nextId = News!Cardinality(pairs) + 1
        /\ entities = {Alias[2]} \cup News!Mentioned(pairs)
  BY DEF News!Init
<1>2. Cardinality(pairs) \in Nat
  BY NewsAssumption, FS_CardinalityType
<1>3. nextId \in Nat
  BY <1>1, <1>2, SameSizeOfRows
<1>4. IsFiniteSet(entities)
  BY <1>1, MentionedIsFinite, FS_Singleton, FS_Union
<1>5. relations \in [DOMAIN relations -> Row(entities)] /\ IsFiniteSet(DOMAIN relations)
  <2>1. News!Mentioned(pairs) \subseteq entities /\ 1 \in Int /\ 1 \in Nat
    BY <1>1
  <2>2. PICK E : E = entities
    OBVIOUS
  <2>3. LET rows == News!Rowed(1, pairs, 1) IN
        rows \in [DOMAIN rows -> Row(E)] /\ IsFiniteSet(DOMAIN rows)
    BY <2>1, <2>2, RowedPairs
  <2>4. QED
    BY <1>1, <2>2, <2>3
<1>6. QED
  BY <1>1, <1>3, <1>4, <1>5 DEF StoreInv

LEMMA FewerRows ==
    ASSUME NEW rows, NEW E, rows \in [DOMAIN rows -> Row(E)], IsFiniteSet(DOMAIN rows), NEW gone
    PROVE  LET kept == News!Without(rows, gone) IN
           kept \in [DOMAIN kept -> Row(E)] /\ IsFiniteSet(DOMAIN kept) /\ DOMAIN kept \subseteq DOMAIN rows
<1>1. PICK D : D = {r \in DOMAIN rows : rows[r].cluster \notin gone}
  OBVIOUS
<1>2. PICK kept : kept = News!Without(rows, gone)
  OBVIOUS
<1>3. kept = [r \in D |-> rows[r]] /\ D \subseteq DOMAIN rows
  BY <1>1, <1>2 DEF News!Without
<1>4. IsFiniteSet(D)
  BY <1>3, FS_Subset
<1>5. DOMAIN kept = D /\ \A r \in D : kept[r] \in Row(E)
  BY <1>3
<1>6. QED
  BY <1>2, <1>3, <1>4, <1>5

LEMMA StoreReclustered ==
    ASSUME StoreInv, News!Recluster
    PROVE  StoreInv'
<1>1. PICK gone : relations' = News!Without(relations, gone)
  BY DEF News!Recluster
<1>2. UNCHANGED <<entities, nextId>>
  BY DEF News!Recluster
<1>3. relations' \in [DOMAIN relations' -> Row(entities)] /\ IsFiniteSet(DOMAIN relations')
  BY <1>1, FewerRows DEF StoreInv
<1>4. QED
  BY <1>2, <1>3 DEF StoreInv, Row

LEMMA StoreSummarised ==
    ASSUME StoreInv, News!Summarise
    PROVE  StoreInv'
<1>1. PICK c \in {d \in 1..(fresh - 1) : News!Exists(d)}, pairs \in Stated :
        /\ LET kept == News!Without(relations, {c})
               new == News!Rowed(c, pairs, nextId)
           IN  relations' = [r \in DOMAIN kept \cup DOMAIN new |->
                                IF r \in DOMAIN kept THEN kept[r] ELSE new[r]]
        /\ nextId' = nextId + News!Cardinality(pairs)
        /\ entities' = entities \cup News!Mentioned(pairs)
  BY DEF News!Summarise
<1>2. PICK kept, new : kept = News!Without(relations, {c}) /\ new = News!Rowed(c, pairs, nextId)
  OBVIOUS
<1>3. kept \in [DOMAIN kept -> Row(entities)] /\ IsFiniteSet(DOMAIN kept)
  BY <1>2, FewerRows DEF StoreInv
<1>4. new \in [DOMAIN new -> Row(entities')] /\ IsFiniteSet(DOMAIN new)
  <2>1. nextId \in Nat /\ News!Mentioned(pairs) \subseteq entities' /\ c \in Int
    BY <1>1 DEF StoreInv
  <2>2. QED
    BY <1>2, <2>1, RowedPairs
<1>5. Row(entities) \subseteq Row(entities')
  BY <1>1 DEF Row
<1>6. relations' = [r \in DOMAIN kept \cup DOMAIN new |-> IF r \in DOMAIN kept THEN kept[r] ELSE new[r]]
  BY <1>1, <1>2
<1>7. relations' \in [DOMAIN relations' -> Row(entities')] /\ DOMAIN relations' = DOMAIN kept \cup DOMAIN new
  <2>1. \A r \in DOMAIN kept : kept[r] \in Row(entities')
    BY <1>3, <1>5
  <2>2. \A r \in DOMAIN new : new[r] \in Row(entities')
    BY <1>4
  <2>3. PICK F, D : F = Row(entities') /\ D = DOMAIN kept \cup DOMAIN new
    OBVIOUS
  <2>4. ASSUME NEW r \in D PROVE (IF r \in DOMAIN kept THEN kept[r] ELSE new[r]) \in F
    BY <2>1, <2>2, <2>3
  <2>5. relations' = [r \in D |-> IF r \in DOMAIN kept THEN kept[r] ELSE new[r]]
    BY <1>6, <2>3
  <2>6. relations' \in [D -> F] /\ DOMAIN relations' = D
    BY <2>4, <2>5
  <2>7. relations' \in [DOMAIN relations' -> F]
    BY <2>6, Zenon
  <2>8. relations' \in [DOMAIN relations' -> Row(entities')]
    BY <2>3, <2>7
  <2>9. QED
    BY <2>3, <2>6, <2>8
<1>8. IsFiniteSet(DOMAIN relations')
  <2>1. IsFiniteSet(DOMAIN kept \cup DOMAIN new)
    BY <1>3, <1>4, FS_Union
  <2>2. QED
    BY <1>7, <2>1
<1>9. IsFiniteSet(entities')
  BY <1>1, MentionedIsFinite, FS_Union DEF StoreInv
<1>10. nextId' \in Nat
  <2>1. Cardinality(pairs) \in Nat
    BY NewsAssumption, FS_CardinalityType
  <2>2. QED
    BY <1>1, <2>1, SameSizeOfRows DEF StoreInv
<1>11. Alias[2] \in entities'
  BY <1>1 DEF StoreInv
<1>12. QED
  BY <1>7, <1>8, <1>9, <1>10, <1>11 DEF StoreInv, Row

LEMMA StoreMerged ==
    ASSUME StoreInv, News!Merge
    PROVE  StoreInv'
<1> DEFINE now(e) == IF e = Alias[1] THEN Alias[2] ELSE e
<1>1. /\ entities' = entities \ {Alias[1]} /\ UNCHANGED nextId
      /\ relations' = [r \in DOMAIN relations |->
            [relations[r] EXCEPT !.source = now(@), !.target = now(@)]]
  BY DEF News!Merge
<1>2. \A e \in entities : now(e) \in entities'
  BY <1>1, NewsAssumption DEF StoreInv
<1>3. ASSUME NEW r \in DOMAIN relations PROVE relations'[r] \in Row(entities')
  <2>1. relations[r] \in Row(entities)
    BY DEF StoreInv
  <2>2. relations'[r] = [relations[r] EXCEPT !.source = now(@), !.target = now(@)]
    BY <1>1
  <2> HIDE DEF now
  <2>3. QED
    BY <1>2, <2>1, <2>2 DEF Row
<1>4. relations' \in [DOMAIN relations' -> Row(entities')] /\ DOMAIN relations' = DOMAIN relations
  BY <1>1, <1>3
<1>5. IsFiniteSet(entities') /\ Alias[2] \in entities'
  BY <1>1, NewsAssumption, FS_RemoveElement DEF StoreInv
<1>6. QED
  BY <1>1, <1>4, <1>5 DEF StoreInv, Row

-----------------------------------------------------------------------------
(* Statement by statement.                                                 *)

\* The answers do not change with what they do not mention.
LEMMA AnswersStay ==
    ASSUME AnswerInv, StoreInv', UNCHANGED <<request, found>>, AskedInv'
    PROVE  AnswerInv'
<1>1. PathsRead'
  BY DEF AnswerInv, PathsRead, News!Limited
<1>3. HopsRead'
  <2> SUFFICES ASSUME "hops" \in DOMAIN found PROVE \E E, h : HopsFrom(E, h)'
    BY DEF HopsRead
  <2>1. PICK E, h : HopsFrom(E, h)
    BY DEF AnswerInv, HopsRead
  <2>2. HopsFrom(E, h)'
    BY <2>1 DEF HopsFrom, News!Limited
  <2>3. QED
    BY <2>2
<1>2. EdgesRead'
  BY DEF AnswerInv, EdgesRead, EdgesTrue
<1>4. QED
  BY <1>1, <1>2, <1>3 DEF AnswerInv

\* Where nothing was answered yet.
LEMMA NoAnswerYet ==
    ASSUME StoreInv', AskedInv', (Answers \cap DOMAIN found = {})'
    PROVE  AnswerInv'
BY DEF AnswerInv, PathsRead, HopsRead, EdgesRead, EdgesTrue, Answers

LEMMA StoreSame ==
    ASSUME StoreInv, UNCHANGED News!store
    PROVE  StoreInv'
BY DEF StoreInv, Row, News!store

LEMMA AnswersOfWriters ==
    ASSUME NewsInv, AnswerInv, News!Recluster \/ News!Summarise \/ News!Merge
    PROVE  AnswerInv'
<1>1. StoreInv'
  BY StoreReclustered, StoreSummarised, StoreMerged DEF AnswerInv
<1>2. UNCHANGED <<request, step, found>>
  BY DEF News!Recluster, News!Summarise, News!Merge, News!Commit
<1>3. AskedInv'
  BY <1>2 DEF AnswerInv, AskedInv, Answers
<1>4. QED
  BY <1>1, <1>2, <1>3, AnswersStay

LEMMA AnswersOfLists ==
    ASSUME NewsInv, AnswerInv, News!AskList \/ News!Page \/ News!CheckExists \/ News!TimeOut
    PROVE  AnswerInv'
<1>1. StoreInv'
  BY StoreSame DEF AnswerInv, News!AskList, News!Page, News!CheckExists, News!TimeOut
<1>2. CASE News!AskList
  <2>1. step = "idle" /\ step' = "page" /\ UNCHANGED found
    BY <1>2 DEF News!AskList
  <2>2. AskedInv' /\ (Answers \cap DOMAIN found = {})'
    BY <2>1 DEF AnswerInv, AskedInv, Answers
  <2>3. QED
    BY <1>1, <2>2, NoAnswerYet
<1>3. CASE News!Page
  <2>1. step = "page" /\ step' \in {"exists", "done", "page"} /\ UNCHANGED <<request, found>>
    BY <1>3 DEF News!Page
  <2>2. AskedInv'
    BY <2>1 DEF AnswerInv, AskedInv, Answers
  <2>3. QED
    BY <1>1, <2>1, <2>2, AnswersStay
<1>4. CASE News!CheckExists \/ News!TimeOut
  <2>1. step' \in {"done", "missing", "timeout"} /\ UNCHANGED <<request, found>>
    BY <1>4 DEF News!CheckExists, News!TimeOut
  <2>2. AskedInv'
    BY <2>1 DEF AnswerInv, AskedInv, Answers
  <2>3. QED
    BY <1>1, <2>1, <2>2, AnswersStay
<1>5. QED
  BY <1>2, <1>3, <1>4

LEMMA AnswersOfAsking ==
    ASSUME NewsInv, AnswerInv, News!AskGraph
    PROVE  AnswerInv'
<1>1. StoreInv'
  BY StoreSame DEF AnswerInv, News!AskGraph
<1>2. step = "idle" /\ step' = "sources" /\ UNCHANGED found
  BY DEF News!AskGraph
<1>3. request'.depth \in Nat
  <2>1. PICK depth \in Depths : request'.depth = depth
    BY DEF News!AskGraph
  <2>2. QED
    BY <2>1, NewsAssumption
<1>4. AskedInv' /\ (Answers \cap DOMAIN found = {})'
  BY <1>2, <1>3 DEF AnswerInv, AskedInv, Answers
<1>5. QED
  BY <1>1, <1>4, NoAnswerYet

LEMMA AnswersOfSeeds ==
    ASSUME NewsInv, AnswerInv, News!Sources \/ News!Targets
    PROVE  AnswerInv'
<1>1. StoreInv'
  BY StoreSame DEF AnswerInv, News!Sources, News!Targets, News!Seeded, News!Read
<1>2. Answers \cap DOMAIN found = {} /\ request.depth \in Nat /\ UNCHANGED request
  BY DEF AnswerInv, AskedInv, News!Sources, News!Targets, News!Seeded, News!Read
<1>3. CASE News!Sources
  <2>1. /\ found' = [k \in {"sources"} \cup DOMAIN found |->
                        IF k \in {"sources"} THEN News!Seeds(request.from) ELSE found[k]]
        /\ step' \in {"refused", "missing", "nodes", "targets"}
    <3>1. PICK got : got = [sources |-> News!Seeds(request.from)]
      OBVIOUS
    <3>2. DOMAIN got = {"sources"} /\ got.sources = News!Seeds(request.from)
      BY <3>1
    <3>3. found' = [k \in DOMAIN got \cup DOMAIN found |-> IF k \in DOMAIN got THEN got[k] ELSE found[k]]
      BY <1>3, <3>1 DEF News!Sources, News!Seeded, News!Read
    <3>4. step' \in {"refused", "missing", "nodes", "targets"}
      BY <1>3 DEF News!Sources, News!Seeded, News!Read
    <3>5. QED
      BY <3>2, <3>3, <3>4
  <2>2. /\ DOMAIN found' = {"sources"} \cup DOMAIN found
        /\ found'.sources = News!Seeds(request.from)
    BY <2>1
  <2>3. IsFiniteSet(found'.sources)
    <3>1. News!Seeds(request.from) \subseteq entities /\ IsFiniteSet(entities)
      BY DEF News!Seeds, AnswerInv, StoreInv
    <3>2. QED
      BY <2>2, <3>1, FS_Subset
  <2>4. AskedInv' /\ (Answers \cap DOMAIN found = {})'
    BY <1>2, <2>1, <2>2, <2>3 DEF AskedInv, Answers
  <2>5. QED
    BY <1>1, <2>4, NoAnswerYet
<1>4. CASE News!Targets
  <2>1. /\ DOMAIN found' = {"targets"} \cup DOMAIN found
        /\ "sources" \in DOMAIN found => found'.sources = found.sources
        /\ step = "targets" /\ step' \in {"refused", "missing", "paths"}
    <3>1. PICK got : got = [targets |-> News!Seeds(request.to)]
      OBVIOUS
    <3>2. DOMAIN got = {"targets"}
      BY <3>1
    <3>3. found' = [k \in DOMAIN got \cup DOMAIN found |-> IF k \in DOMAIN got THEN got[k] ELSE found[k]]
      BY <1>4, <3>1 DEF News!Targets, News!Seeded, News!Read
    <3>4. step = "targets" /\ step' \in {"refused", "missing", "paths"}
      BY <1>4 DEF News!Targets, News!Seeded, News!Read
    <3>5. QED
      BY <3>2, <3>3, <3>4
  <2>2. "sources" \in DOMAIN found /\ IsFiniteSet(found.sources)
    BY <2>1 DEF AnswerInv, AskedInv
  <2>3. AskedInv' /\ (Answers \cap DOMAIN found = {})'
    BY <1>2, <2>1, <2>2 DEF AskedInv, Answers
  <2>4. QED
    BY <1>1, <2>3, NoAnswerYet
<1>5. QED
  BY <1>3, <1>4

\* What is read besides leaves the answers as they are.
Parts == {"paths", "hops", "edges", "snapshot", "sources", "targets", "truncated"}

LEMMA AnswersBeside ==
    ASSUME AnswerInv, StoreInv', AskedInv', UNCHANGED request,
           NEW got, DOMAIN got \cap Parts = {},
           found' = [k \in DOMAIN got \cup DOMAIN found |-> IF k \in DOMAIN got THEN got[k] ELSE found[k]]
    PROVE  AnswerInv'
<1>1. ASSUME NEW k \in Parts
      PROVE  /\ k \in DOMAIN found' <=> k \in DOMAIN found
             /\ k \in DOMAIN found => found'[k] = found[k]
  <2>1. k \notin DOMAIN got
    OBVIOUS
  <2>2. DOMAIN found' = DOMAIN got \cup DOMAIN found
    OBVIOUS
  <2>3. k \in DOMAIN found => found'[k] = found[k]
    BY <2>1
  <2>4. QED
    BY <2>1, <2>2, <2>3
<1>2. PathsRead'
  <2>1. SUFFICES ASSUME "paths" \in DOMAIN found' PROVE PathsRead'
    BY DEF PathsRead
  <2>2. "paths" \in DOMAIN found /\ {"snapshot", "sources", "targets", "truncated"} \subseteq DOMAIN found
    BY <1>1, <2>1 DEF AnswerInv, PathsRead, Parts
  <2>3. /\ found'.paths = found.paths /\ found'.snapshot = found.snapshot
        /\ found'.sources = found.sources /\ found'.targets = found.targets
        /\ found'.truncated = found.truncated
        /\ {"snapshot", "sources", "targets", "truncated"} \subseteq DOMAIN found'
    BY <1>1, <2>2 DEF Parts
  <2>4. QED
    BY <2>2, <2>3 DEF AnswerInv, PathsRead, News!Limited
<1>3. HopsRead'
  <2>1. SUFFICES ASSUME "hops" \in DOMAIN found' PROVE \E E, h : HopsFrom(E, h)'
    BY DEF HopsRead
  <2>5. PICK E, h : HopsFrom(E, h)
    BY <1>1, <2>1 DEF AnswerInv, HopsRead, Parts
  <2>2. "hops" \in DOMAIN found /\ {"snapshot", "sources", "truncated"} \subseteq DOMAIN found
    BY <1>1, <2>1, <2>5 DEF HopsFrom, Parts
  <2>3. /\ found'.hops = found.hops /\ found'.snapshot = found.snapshot
        /\ found'.sources = found.sources /\ found'.truncated = found.truncated
        /\ {"snapshot", "sources", "truncated"} \subseteq DOMAIN found'
    BY <1>1, <2>2 DEF Parts
  <2>4. HopsFrom(E, h)'
    BY <2>3, <2>5 DEF HopsFrom, News!Limited
  <2>6. QED
    BY <2>4
<1>4. EdgesRead'
  <2>1. SUFFICES ASSUME "edges" \in DOMAIN found' PROVE EdgesRead'
    BY DEF EdgesRead, EdgesTrue
  <2>2. "edges" \in DOMAIN found /\ "hops" \in DOMAIN found
    BY <1>1, <2>1 DEF AnswerInv, EdgesRead, Parts
  <2>3. "hops" \in DOMAIN found' /\ found'.edges = found.edges /\ found'.hops = found.hops
    BY <1>1, <2>2 DEF Parts
  <2>4. QED
    BY <2>2, <2>3 DEF AnswerInv, EdgesRead, EdgesTrue
<1>5. QED
  BY <1>2, <1>3, <1>4 DEF AnswerInv

\* Names and rows read afterwards are not part of the answer.
LEMMA AnswersOfChecks ==
    ASSUME NewsInv, AnswerInv, News!PathNames \/ News!PathSteps
    PROVE  AnswerInv'
<1>1. StoreInv'
  BY StoreSame DEF AnswerInv, News!PathNames, News!PathSteps, News!Read
<1>2. UNCHANGED request /\ step' \in {"steps", "done", "error"}
  BY DEF News!PathNames, News!PathSteps, News!Read
<1>3. PICK got : /\ DOMAIN got \cap Parts = {}
                 /\ found' = [k \in DOMAIN got \cup DOMAIN found |->
                                IF k \in DOMAIN got THEN got[k] ELSE found[k]]
  <2>1. CASE News!PathNames
    <3>1. PICK got : got = [named |-> entities]
      OBVIOUS
    <3>2. DOMAIN got = {"named"}
      BY <3>1
    <3>3. found' = [k \in DOMAIN got \cup DOMAIN found |-> IF k \in DOMAIN got THEN got[k] ELSE found[k]]
      BY <2>1, <3>1 DEF News!PathNames, News!Read
    <3>4. QED
      BY <3>2, <3>3 DEF Parts
  <2>2. CASE News!PathSteps
    <3>1. PICK got : got = <<>>
      OBVIOUS
    <3>2. DOMAIN got = {}
      BY <3>1
    <3>3. found' = [k \in DOMAIN got \cup DOMAIN found |-> IF k \in DOMAIN got THEN got[k] ELSE found[k]]
      BY <2>2, <3>1 DEF News!PathSteps, News!Read
    <3>4. QED
      BY <3>2, <3>3
  <2>3. QED
    BY <2>1, <2>2
<1>4. AskedInv'
  <2>1. Answers \subseteq Parts
    BY DEF Answers, Parts
  <2>2. QED
    BY <1>2 DEF AskedInv
<1>5. QED
  BY <1>1, <1>2, <1>3, <1>4, AnswersBeside

LEMMA AnswersOfPaths ==
    ASSUME NewsInv, AnswerInv, News!Paths
    PROVE  AnswerInv'
<1> DEFINE there == PathsOver(relations, found.sources, found.targets, request.depth)
<1>1. StoreInv'
  BY StoreSame DEF AnswerInv, News!Paths, News!Read
<1>2. /\ Answers \cap DOMAIN found = {} /\ {"sources", "targets"} \subseteq DOMAIN found
      /\ request.depth \in Nat /\ IsFiniteSet(found.sources) /\ step' = "names" /\ UNCHANGED request
  BY DEF AnswerInv, AskedInv, News!Paths, News!Read
<1>3. IsFiniteSet(DOMAIN relations)
  BY DEF AnswerInv, StoreInv
<1>4. News!PathsBetween(found.sources, found.targets, request.depth) = there
  BY PathsOfLevels DEF PathsOver
<1>5. PICK paths, got :
        /\ paths \in News!Limited(there, PathLimit)
        /\ \A x \in paths, y \in there \ paths : ~News!Precedes(y, x)
        /\ got = [snapshot |-> relations, paths |-> paths,
                  truncated |-> News!Cardinality(there) > PathLimit]
        /\ found' = [k \in DOMAIN got \cup DOMAIN found |-> IF k \in DOMAIN got THEN got[k] ELSE found[k]]
  BY <1>4 DEF News!Paths, News!Read, News!FirstOf
<1>6. DOMAIN got = {"snapshot", "paths", "truncated"}
  BY <1>5
<1>7. /\ DOMAIN found' = {"snapshot", "paths", "truncated"} \cup DOMAIN found
      /\ found'.snapshot = relations /\ found'.paths = paths
      /\ found'.truncated = (News!Cardinality(there) > PathLimit)
      /\ found'.sources = found.sources /\ found'.targets = found.targets
  BY <1>2, <1>5, <1>6
<1> HIDE DEF there
<1>8. PathsRead'
  <2>1. PathsOver(found'.snapshot, found'.sources, found'.targets, request'.depth) = there
    BY <1>2, <1>7 DEF there
  <2>2. {"snapshot", "sources", "targets", "truncated"} \subseteq DOMAIN found'
    BY <1>2, <1>7
  <2>3. QED
    BY <1>2, <1>3, <1>5, <1>7, <2>1, <2>2 DEF PathsRead, News!Limited
<1>9. HopsRead' /\ EdgesRead'
  <2>1. "hops" \notin DOMAIN found' /\ "edges" \notin DOMAIN found'
    BY <1>2, <1>7 DEF Answers
  <2>2. QED
    BY <2>1 DEF HopsRead, EdgesRead, EdgesTrue
<1>10. AskedInv'
  BY <1>2 DEF AskedInv
<1>11. QED
  BY <1>1, <1>8, <1>9, <1>10 DEF AnswerInv

LEMMA AnswersOfNodes ==
    ASSUME NewsInv, AnswerInv, News!Nodes
    PROVE  AnswerInv'
<1>1. StoreInv'
  BY StoreSame DEF AnswerInv, News!Nodes, News!Read
<1>2. /\ Answers \cap DOMAIN found = {} /\ "sources" \in DOMAIN found
      /\ request.depth \in Nat /\ step' = "edges" /\ UNCHANGED request
  BY DEF AnswerInv, AskedInv, News!Nodes, News!Read
<1>3. PICK h : h = News!Hops(found.sources, request.depth)
  OBVIOUS
<1>4. /\ DOMAIN h = Ball(relations, found.sources, request.depth)
      /\ \A x \in DOMAIN h :
            /\ h[x] \in 0..request.depth /\ x \in Ball(relations, found.sources, h[x])
            /\ h[x] = 0 \/ x \notin Ball(relations, found.sources, h[x] - 1)
  BY <1>2, <1>3, HopsAreDistances
<1>5. PICK nodes, got :
        /\ nodes \in News!Limited(DOMAIN h \cap entities, NodeLimit)
        /\ \A x \in nodes, y \in (DOMAIN h \cap entities) \ nodes :
                ~(h[y] < h[x] \/ (h[y] = h[x] /\ y < x))
        /\ got = [snapshot |-> relations, hops |-> [x \in nodes |-> h[x]],
                  truncated |-> News!Cardinality(DOMAIN h \cap entities) > NodeLimit]
        /\ found' = [k \in DOMAIN got \cup DOMAIN found |-> IF k \in DOMAIN got THEN got[k] ELSE found[k]]
  <2>1. PICK nodes :
        /\ nodes \in News!Limited(DOMAIN h \cap entities, NodeLimit)
        /\ \A x \in nodes, y \in (DOMAIN h \cap entities) \ nodes :
                ~(h[y] < h[x] \/ (h[y] = h[x] /\ y < x))
        /\ News!Read([snapshot |-> relations, hops |-> [x \in nodes |-> h[x]],
                      truncated |-> News!Cardinality(DOMAIN h \cap entities) > NodeLimit], "edges")
    BY <1>3 DEF News!Nodes, News!FirstOf
  <2>2. PICK got : got = [snapshot |-> relations, hops |-> [x \in nodes |-> h[x]],
                          truncated |-> News!Cardinality(DOMAIN h \cap entities) > NodeLimit]
    OBVIOUS
  <2>3. found' = [k \in DOMAIN got \cup DOMAIN found |-> IF k \in DOMAIN got THEN got[k] ELSE found[k]]
    BY <2>1, <2>2 DEF News!Read
  <2>4. QED
    BY <2>1, <2>2, <2>3
<1>6. DOMAIN got = {"snapshot", "hops", "truncated"}
  BY <1>5
<1>7. /\ DOMAIN found' = {"snapshot", "hops", "truncated"} \cup DOMAIN found
      /\ found'.snapshot = relations /\ found'.hops = [x \in nodes |-> h[x]]
      /\ found'.truncated = (News!Cardinality(DOMAIN h \cap entities) > NodeLimit)
      /\ found'.sources = found.sources
  BY <1>2, <1>5, <1>6
<1>8. DOMAIN found'.hops = nodes /\ \A x \in nodes : found'.hops[x] = h[x]
  BY <1>7
<1>9. nodes \subseteq DOMAIN h \cap entities
  BY <1>5 DEF News!Limited
<1>10. \A x \in nodes, y \in (DOMAIN h \cap entities) \ nodes : h[x] <= h[y]
  <2> SUFFICES ASSUME NEW x \in nodes, NEW y \in (DOMAIN h \cap entities) \ nodes PROVE h[x] <= h[y]
    OBVIOUS
  <2>1. h[x] \in Nat /\ h[y] \in Nat
    BY <1>2, <1>4, <1>9
  <2>2. ~(h[y] < h[x])
    BY <1>5
  <2>3. QED
    BY <2>1, <2>2
<1>11. \A r \in DOMAIN relations : EndsOf(relations, r) \subseteq entities
  BY DEF EndsOf, AnswerInv, StoreInv, Row
<1>12. HopsFrom(entities, h)'
  <2>1. {"snapshot", "sources", "truncated"} \subseteq DOMAIN found' /\ IsFiniteSet(entities)
    BY <1>2, <1>7 DEF AnswerInv, StoreInv
  <2>2. UNCHANGED entities
    BY DEF News!Nodes, News!Read, News!store
  <2>3. QED
    BY <1>2, <1>4, <1>5, <1>7, <1>8, <1>10, <1>11, <2>1, <2>2 DEF HopsFrom, News!Limited
<1>13. HopsRead'
  BY <1>12 DEF HopsRead
<1>14. PathsRead' /\ EdgesRead' /\ AskedInv'
  <2>1. "paths" \notin DOMAIN found' /\ "edges" \notin DOMAIN found' /\ "hops" \in DOMAIN found'
    BY <1>2, <1>7 DEF Answers
  <2>2. QED
    BY <1>2, <2>1 DEF PathsRead, EdgesRead, EdgesTrue, AskedInv
<1>15. QED
  BY <1>1, <1>13, <1>14 DEF AnswerInv

LEMMA AnswersOfEdges ==
    ASSUME NewsInv, AnswerInv, News!EdgesAmong
    PROVE  AnswerInv'
<1>1. StoreInv'
  BY StoreSame DEF AnswerInv, News!EdgesAmong, News!Read
<1>2. /\ "hops" \in DOMAIN found /\ "paths" \notin DOMAIN found
      /\ step' = "done" /\ UNCHANGED request
  BY DEF AnswerInv, AskedInv, News!EdgesAmong, News!Read
<1>3. PICK got :
        /\ DOMAIN got = {"edges", "truncated"}
        /\ \A e \in got.edges : {e.source, e.target} \subseteq DOMAIN found.hops
        /\ found.truncated => got.truncated
        /\ found' = [k \in DOMAIN got \cup DOMAIN found |-> IF k \in DOMAIN got THEN got[k] ELSE found[k]]
  <2> DEFINE rows == {r \in DOMAIN relations :
                        {relations[r].source, relations[r].target} \subseteq DOMAIN found.hops}
             more == News!Cardinality(rows) > EdgeLimit
  <2>1. PICK edges : /\ edges \in News!Limited(rows, EdgeLimit)
                     /\ News!Read([edges |-> {relations[r] : r \in edges},
                                   truncated |-> found.truncated \/ more], "done")
    BY DEF News!EdgesAmong, News!FirstOf
  <2>2. edges \subseteq rows
    BY <2>1 DEF News!Limited
  <2>3. PICK got : got = [edges |-> {relations[r] : r \in edges}, truncated |-> found.truncated \/ more]
    OBVIOUS
  <2>4. found' = [k \in DOMAIN got \cup DOMAIN found |-> IF k \in DOMAIN got THEN got[k] ELSE found[k]]
    BY <2>1, <2>3 DEF News!Read
  <2>5. /\ DOMAIN got = {"edges", "truncated"} /\ got.edges = {relations[r] : r \in edges}
        /\ found.truncated => got.truncated
    BY <2>3
  <2>6. \A e \in got.edges : {e.source, e.target} \subseteq DOMAIN found.hops
    BY <2>2, <2>5
  <2>7. QED
    BY <2>4, <2>5, <2>6
<1>5. PICK E, h : HopsFrom(E, h)
  BY <1>2 DEF AnswerInv, HopsRead
<1>6. {"snapshot", "sources", "truncated"} \subseteq DOMAIN found
  BY <1>5 DEF HopsFrom
<1>7. /\ DOMAIN found' = {"edges", "truncated"} \cup DOMAIN found
      /\ found'.snapshot = found.snapshot /\ found'.hops = found.hops
      /\ found'.sources = found.sources
      /\ found.truncated => found'.truncated
      /\ found'.edges = got.edges
  BY <1>2, <1>3, <1>6
<1>8. HopsFrom(E, h)'
  BY <1>2, <1>5, <1>6, <1>7 DEF HopsFrom, News!Limited
<1>9. HopsRead'
  BY <1>8 DEF HopsRead
<1>10. EdgesRead' /\ PathsRead' /\ AskedInv'
  <2>1. "paths" \notin DOMAIN found' /\ "hops" \in DOMAIN found'
    BY <1>2, <1>7
  <2>2. EdgesTrue'
    BY <1>3, <1>7 DEF EdgesTrue
  <2>3. QED
    BY <1>2, <2>1, <2>2 DEF PathsRead, EdgesRead, AskedInv
<1>11. QED
  BY <1>1, <1>9, <1>10 DEF AnswerInv

LEMMA AnswersStart == ReadInit => AnswerInv
<1> SUFFICES ASSUME News!Init PROVE AnswerInv
  BY DEF ReadInit
<1>1. StoreInv
  BY StoreStart
<1>2. step = "idle" /\ DOMAIN found = {"snapshot"}
  BY DEF News!Init, News!Nothing
<1>3. QED
  BY <1>1, <1>2 DEF AnswerInv, AskedInv, Answers, PathsRead, HopsRead, EdgesRead, EdgesTrue

LEMMA AnswersKept == NewsInv /\ AnswerInv /\ [ReadNext]_all => AnswerInv'
<1> SUFFICES ASSUME NewsInv, AnswerInv, [ReadNext]_all PROVE AnswerInv'
  OBVIOUS
<1>1. CASE News!Next
  BY <1>1, AnswersOfWriters, AnswersOfLists, AnswersOfAsking, AnswersOfSeeds, AnswersOfNodes,
     AnswersOfEdges, AnswersOfPaths, AnswersOfChecks DEF News!Next, News!Reader
<1>2. CASE UNCHANGED newsVars
  <2>1. UNCHANGED <<request, found, step>> /\ UNCHANGED News!store
    BY <1>2 DEF newsVars, News!store
  <2>2. StoreInv'
    BY <2>1, StoreSame DEF AnswerInv
  <2>3. AskedInv'
    BY <2>1 DEF AnswerInv, AskedInv, Answers
  <2>4. QED
    BY <2>1, <2>2, <2>3, AnswersStay
<1>3. News!Next \/ UNCHANGED newsVars
  BY DEF ReadNext, all, newsVars
<1>4. QED
  BY <1>1, <1>2, <1>3

\* Every path of an answer is a chain of relations of one moment, no longer than
\* asked for, that ends at the first target it meets, and a shortest one is always
\* among them; neighbours are listed at their distances, and only the farthest
\* are left out (graph.py, get_paths and get_neighborhood).
THEOREM GraphCorrect == ReadSpec => []GraphAnswersAreTrue
<1>1. NewsInv /\ AnswerInv => GraphAnswersAreTrue
  BY AnswerInvIsTrue
<1>2. ReadInit => NewsInv /\ AnswerInv
  BY NewsStart, AnswersStart
<1>3. NewsInv /\ AnswerInv /\ [ReadNext]_all => (NewsInv /\ AnswerInv)'
  BY NewsKept, AnswersKept
<1>4. QED
  BY <1>1, <1>2, <1>3, PTL DEF ReadSpec

=============================================================================
