----------------------------- MODULE NewsProofs -----------------------------
(***************************************************************************)
(* What holds of news_preprocessor for any editions of feeds and filings,  *)
(* any number of failures, crashes and outages, any limits and batches, and *)
(* of the clusters and their graph for any articles, neighbourhoods, old    *)
(* clusters and interleaving of clusterer and graph builder.                *)
(*                                                                         *)
(* The inductive invariant of the first, IInv, adds to the checked         *)
(* properties the order of the dates (CalendarInv), what a listing of      *)
(* filings owes to the collection it may complete (ListInv), and what the  *)
(* feeds a run has passed and its embedding have settled while no news has *)
(* failed (NewsInv).  That of the second, ClusterInv, adds what the labels  *)
(* given so far are (LabelsInv), that a cluster never loses its core        *)
(* article (StoreInv), and that what the builder has read is what it        *)
(* summarises as long as the version it found has not changed (BuilderInv). *)
(***************************************************************************)
EXTENDS NewsPreprocessor, NewsGraph, SequenceTheorems, FiniteSetTheorems, WellFoundedInduction, TLAPS

AtFeed == pc \in {"source", "remember", "article", "save"}
AtEntry == pc \in {"remember", "article", "save"}
Between == pc \in {"idle", "failed"}

Things == {Item(i) : i \in DOMAIN Paper.items} \cup {Filing(f) : f \in Filings}
Statuses == {"pending", "completed", "dead_letter"}
Row == [of : Things, status : Statuses, attempts : 0..3]
Plan == [for : Int, begin : Int, end : Int, initial : BOOLEAN, limit : Nat, first : Int,
         recheck : BOOLEAN]
StateRow == [completed : BOOLEAN, from : Int, through : Int, completedFor : Int,
             attemptedFor : Int]

\* The tables hold rows, and a row that waits may fail once more.
RowsOK == articles \in Seq(Row)

Retriable ==
    \A a \in DOMAIN articles : articles[a].status = "pending" => articles[a].attempts < 3

\* What is left to fetch is of the feed the run is at.
WorkInv ==
    /\ AtFeed => source > 0
    /\ AtEntry /\ IsFiling => plan \in Plan /\ todo \subseteq Filings
    /\ AtEntry /\ ~IsFiling => pc = "article" /\ plan = NoPlan /\ todo \subseteq DOMAIN Paper.items
    /\ ~AtEntry => plan = NoPlan /\ todo = {}
    /\ pc = "save" => todo # {}

TypeInv == TypeOK /\ RowsOK /\ Retriable /\ state \in StateRow /\ WorkInv

\* No date is later than today, and a first collection that is completed has
\* both of its dates.
CalendarInv ==
    /\ \A f \in Filings : published[f] \in Never..day
    /\ state.from <= day /\ state.through <= day
    /\ IF state.completed THEN state.from # Never /\ state.through # Never
       ELSE state.through = Never

\* The first day of the history, once the listing is remembered.
From == IF pc = "remember" THEN Least(state.from, plan.first) ELSE state.from

\* Every filing from the first day of the history up to today is stored or
\* still to be fetched, unless something failed or the limit was reached.
Owed ==
    \A f \in Filings :
        Collectable(f) /\ From <= published[f] /\ published[f] < day => Known(f) \/ f \in todo

ListInv ==
    AtEntry /\ IsFiling =>
        /\ pc = "remember" => plan.first <= day /\ (state.completed => plan.first = Never)
        /\ ~failed =>
            /\ plan.end = day /\ From # Never
            /\ IF plan.recheck THEN state.through = Never ELSE Owed

\* CheckedMeansStored without its types.
CheckedInv ==
    state.completed =>
        \A f \in Filings :
            /\ Collectable(f)
            /\ state.from <= published[f] /\ published[f] < state.through
            => Known(f)

\* Stored, or a page of pictures only, or none of the feed's entries.
Settled(i) == Outcome(Paper.items[i]) \in {"unlisted", "empty"} \/ Stored(Item(i))

FeedSettled(n) == \A i \in DOMAIN Paper.items : InFeed(i, Feeds[n]) => Settled(i)

Passed == IF AtFeed THEN 1..source - 1 ELSE DOMAIN Feeds

\* While no news has failed, the feeds that were passed are settled, and the
\* embedding leaves nothing.
NewsInv ==
    /\ exit # -1 => Between
    /\ ~Between /\ ~results.news => \A n \in Passed : FeedSettled(n)
    /\ pc = "article" /\ ~failed =>
        \A i \in DOMAIN Paper.items : InFeed(i, Feeds[source]) => i \in todo \/ Settled(i)
    /\ pc = "embed" => \A a \in Pending : a <= watermark
    /\ pc = "exit" /\ ~results.news => Pending = {}

IInv == TypeInv /\ CalendarInv /\ ListInv /\ CheckedInv /\ NewsInv /\ ExitIsHonest

-----------------------------------------------------------------------------
(* Numbers, sets of dates, and the tables.                                 *)

\* There are feeds, and their numbers begin with 1.
LEMMA FeedsAreNumbered ==
    Len(Feeds) \in Nat /\ Len(Feeds) > 0 /\ DOMAIN Feeds = 1..Len(Feeds)
BY DEF Feeds

\* The last of the numbers up to n is n.
LEMMA Antisymmetric == \A m, n \in Nat : m <= n /\ ~(m < n) => m = n
OBVIOUS

\* Every item of a feed has one of five outcomes.
LEMMA OutcomeIsKnown ==
    ASSUME NEW item \in FeedItem
    PROVE  Outcome(item) \in {"unlisted", "empty", "error", "body", "title"}
<1> DEFINE Known5 == {"unlisted", "empty", "error", "body", "title"}
<1>1. BodyOrTitle(item) \in Known5
  BY DEF BodyOrTitle
<1>2. Hankyung(item) \in Known5 /\ Maeil(item) \in Known5 /\ Sedaily(item) \in Known5
  BY <1>1 DEF Hankyung, Maeil, Sedaily, Listed
<1>3. Chosun(item) \in Known5
  BY <1>1 DEF Chosun, Listed
<1>4. Yonhap(item) \in Known5
  BY <1>1 DEF Yonhap, Listed
<1>5. Edaily(item) \in Known5
  BY <1>1 DEF Edaily, Listed
<1>6. item.source \in Publishers
  BY DEF FeedItem
<1>7. QED
  BY <1>2, <1>3, <1>4, <1>5, <1>6 DEF Outcome, Publishers

\* A set of numbers that has a number has a least one.
LEMMA MinIsMember ==
    ASSUME NEW S \in SUBSET Nat, S # {}
    PROVE  Min(S) \in S /\ \A m \in S : Min(S) <= m
<1>1. PICK n \in S : \A m \in S : <<m, n>> \notin OpToRel(<, Nat)
  BY WFMin, NatLessThanWellFounded, Zenon
<1>2. \A m \in S : ~(m < n)
  BY <1>1 DEF OpToRel
<1>3. \A m \in S : n <= m
  BY <1>2
<1>4. QED
  BY <1>3 DEF Min

\* So has a set of dates that does not go back for ever,
LEMMA EarliestIsMember ==
    ASSUME NEW S \in SUBSET Int, S # {}, NEW c \in Int, \A m \in S : c <= m
    PROVE  Min(S) \in S /\ \A m \in S : Min(S) <= m
<1> DEFINE T == {m - c : m \in S}
<1>1. T \in SUBSET Nat /\ T # {}
  <2>1. \A m \in S : m - c \in Nat
    OBVIOUS
  <2>2. T \subseteq Nat
    BY <2>1
  <2>3. T # {}
    <3>1. PICK m \in S : TRUE
      OBVIOUS
    <3>2. m - c \in T
      BY <3>1
    <3>3. QED
      BY <3>2
  <2>4. QED
    BY <2>2, <2>3
<1>2. Min(T) \in T /\ \A t \in T : Min(T) <= t
  BY <1>1, MinIsMember
<1>3. PICK n \in S : Min(T) = n - c
  BY <1>2
<1>4. \A m \in S : n - c <= m - c
  BY <1>2, <1>3
<1>5. \A m \in S : n <= m
  BY <1>4
<1>6. QED
  BY <1>5 DEF Min

\* and one that ends has a last.
LEMMA LatestIsMember ==
    ASSUME NEW S \in SUBSET Int, S # {}, NEW c \in Int, \A m \in S : m <= c
    PROVE  Max(S) \in S /\ \A m \in S : m <= Max(S)
<1> DEFINE T == {c - m : m \in S}
<1>1. T \in SUBSET Nat /\ T # {}
  <2>1. \A m \in S : c - m \in Nat
    OBVIOUS
  <2>2. T \subseteq Nat
    BY <2>1
  <2>3. T # {}
    <3>1. PICK m \in S : TRUE
      OBVIOUS
    <3>2. c - m \in T
      BY <3>1
    <3>3. QED
      BY <3>2
  <2>4. QED
    BY <2>2, <2>3
<1>2. Min(T) \in T /\ \A t \in T : Min(T) <= t
  BY <1>1, MinIsMember
<1>3. PICK n \in S : Min(T) = c - n
  BY <1>2
<1>4. \A m \in S : c - n <= c - m
  BY <1>2, <1>3
<1>5. \A m \in S : n >= m
  BY <1>4
<1>6. QED
  BY <1>5 DEF Max

\* The later of two dates.
LEMMA LaterOfTwo ==
    ASSUME NEW a \in Int, NEW b \in Int
    PROVE  Max({a, b}) = IF a >= b THEN a ELSE b
<1>1. Max({a, b}) \in {a, b} /\ Max({a, b}) >= a /\ Max({a, b}) >= b
  <2>1. \E c \in Int : \A m \in {a, b} : m <= c
    <3>1. CASE a >= b
      BY <3>1
    <3>2. CASE b >= a
      BY <3>2
    <3>3. QED
      BY <3>1, <3>2
  <2>2. QED
    BY <2>1, LatestIsMember
<1>2. QED
  BY <1>1

\* The earlier of two dates.
LEMMA EarlierOfTwo ==
    ASSUME NEW a \in Int, NEW b \in Int
    PROVE  Min({a, b}) = IF a <= b THEN a ELSE b
<1>1. Min({a, b}) \in {a, b} /\ Min({a, b}) <= a /\ Min({a, b}) <= b
  <2>1. \E c \in Int : \A m \in {a, b} : c <= m
    <3>1. CASE a >= b
      BY <3>1
    <3>2. CASE b >= a
      BY <3>2
    <3>3. QED
      BY <3>1, <3>2
  <2>2. QED
    BY <2>1, EarliestIsMember
<1>2. QED
  BY <1>1

\* What a step may do to the tables: whatever is stored stays.
Kept ==
    /\ edition' = edition
    /\ \A x : Stored(x) => Stored(x)'
    /\ disclosures \subseteq disclosures'

TablesOK == RowsOK' /\ Retriable' /\ Len(articles) <= Len(articles') /\ Kept

\* Things, rows and statuses are those of the edition.
LEMMA RowsOfEdition ==
    ASSUME edition' = edition
    PROVE  Things' = Things /\ Row' = Row
BY DEF Things, Row, Statuses, Paper, Filings, Item, Filing

\* The table of articles numbers its rows from 1.
LEMMA TableIsFunction ==
    ASSUME RowsOK
    PROVE  /\ Len(articles) \in Nat /\ DOMAIN articles = 1..Len(articles)
           /\ articles = [a \in DOMAIN articles |-> articles[a]]
           /\ \A a \in DOMAIN articles : articles[a] \in Row
<1>1. Len(articles) \in Nat /\ articles \in [1..Len(articles) -> Row]
      /\ DOMAIN articles = 1..Len(articles)
  BY LenProperties DEF RowsOK
<1>2. QED
  BY <1>1

\* insert_new stores its article and keeps the rest.
LEMMA InsertedIsStored ==
    ASSUME RowsOK, Retriable, NEW x \in Things, articles' = Inserted(x),
           edition' = edition, disclosures' = disclosures
    PROVE  TablesOK /\ Stored(x)'
<1> DEFINE row == [of |-> x, status |-> "pending", attempts |-> 0]
<1>1. Len(articles) \in Nat /\ DOMAIN articles = 1..Len(articles)
  BY TableIsFunction
<1>2. Row' = Row
  BY RowsOfEdition
<1>3. CASE Stored(x)
  <2>1. articles' = articles
    BY <1>3 DEF Inserted
  <2>2. RowsOK'
    BY <2>1, <1>2 DEF RowsOK
  <2>3. Retriable'
    BY <2>1 DEF Retriable
  <2>4. \A y : Stored(y) => Stored(y)'
    BY <2>1 DEF Stored
  <2>5. QED
    BY <2>1, <2>2, <2>3, <2>4, <1>1, <1>3 DEF TablesOK, Kept
<1>4. CASE ~Stored(x)
  <2>1. articles' = Append(articles, row)
    BY <1>4 DEF Inserted
  <2>2. row \in Row
    BY DEF Row, Statuses
  <2>3. /\ Append(articles, row) \in Seq(Row)
        /\ Len(Append(articles, row)) = Len(articles) + 1
        /\ \A a \in 1..Len(articles) : Append(articles, row)[a] = articles[a]
        /\ Append(articles, row)[Len(articles) + 1] = row
    <3>1. PICK r, T : r = row /\ T = Row
      OBVIOUS
    <3>2. r \in T /\ articles \in Seq(T)
      BY <2>2, <3>1 DEF RowsOK
    <3>3. /\ Append(articles, r) \in Seq(T)
          /\ Len(Append(articles, r)) = Len(articles) + 1
          /\ \A a \in 1..Len(articles) : Append(articles, r)[a] = articles[a]
          /\ Append(articles, r)[Len(articles) + 1] = r
      BY <3>2, AppendProperties
    <3>4. QED
      BY <3>1, <3>3, Zenon
  <2>4. RowsOK'
    BY <2>1, <2>3, <1>2 DEF RowsOK
  <2>5. DOMAIN articles' = 1..Len(articles) + 1 /\ Len(articles') = Len(articles) + 1
    <3>1. articles' \in Seq(Row)
      BY <2>1, <2>3
    <3>2. DOMAIN articles' = 1..Len(articles')
      BY <3>1, LenProperties
    <3>3. QED
      BY <3>2, <2>1, <2>3
  <2>6. \A a \in DOMAIN articles : a \in DOMAIN articles' /\ articles'[a] = articles[a]
    BY <2>1, <2>3, <2>5, <1>1
  <2>7. Len(articles) + 1 \in DOMAIN articles' /\ articles'[Len(articles) + 1] = row
    BY <2>1, <2>3, <2>5, <1>1
  <2>8. Retriable'
    <3> SUFFICES ASSUME NEW a \in DOMAIN articles', articles'[a].status = "pending"
                 PROVE  articles'[a].attempts < 3
      BY DEF Retriable
    <3>1. CASE a \in DOMAIN articles
      BY <3>1, <2>6 DEF Retriable
    <3>2. CASE a = Len(articles) + 1
      BY <3>2, <2>7
    <3>3. a \in DOMAIN articles \/ a = Len(articles) + 1
      BY <2>5, <1>1
    <3>4. QED
      BY <3>1, <3>2, <3>3
  <2>9. \A y : Stored(y) => Stored(y)'
    BY <2>6 DEF Stored
  <2>10. Stored(x)'
    BY <2>7 DEF Stored
  <2>11. Len(articles) <= Len(articles')
    BY <2>5, <1>1
  <2>12. QED
    BY <2>4, <2>8, <2>9, <2>10, <2>11 DEF TablesOK, Kept
<1>5. QED
  BY <1>3, <1>4

\* A step that rewrites rows and none of their names keeps what is stored.
LEMMA RewrittenIsTable ==
    ASSUME RowsOK, edition' = edition, disclosures' = disclosures,
           articles' = [a \in DOMAIN articles |-> articles'[a]],
           \A a \in DOMAIN articles :
               /\ articles'[a] \in Row /\ articles'[a].of = articles[a].of
               /\ articles'[a].status = "pending" => articles'[a].attempts < 3
    PROVE  TablesOK
<1>1. Len(articles) \in Nat /\ DOMAIN articles = 1..Len(articles)
  BY TableIsFunction
<1>2. Row' = Row
  BY RowsOfEdition
<1>3. DOMAIN articles' = DOMAIN articles
  OBVIOUS
<1>4. articles' \in [1..Len(articles) -> Row]
  BY <1>1, <1>3
<1>5. articles' \in Seq(Row)
  BY <1>1, <1>4, SeqDef
<1>6. RowsOK'
  BY <1>5, <1>2 DEF RowsOK
<1>7. Len(articles') = Len(articles)
  <2>1. Len(articles') \in Nat /\ DOMAIN articles' = 1..Len(articles')
    BY <1>5, LenProperties
  <2>2. QED
    BY <2>1, <1>1, <1>3
<1>8. Retriable'
  BY <1>3 DEF Retriable
<1>9. \A y : Stored(y) => Stored(y)'
  BY <1>3 DEF Stored
<1>10. Len(articles) <= Len(articles')
  BY <1>7, <1>1
<1>11. QED
  BY <1>6, <1>8, <1>9, <1>10 DEF TablesOK, Kept

\* A step that leaves the articles alone keeps them.
LEMMA UntouchedIsTable ==
    ASSUME RowsOK, Retriable, edition' = edition, articles' = articles,
           disclosures \subseteq disclosures'
    PROVE  TablesOK
<1>1. Len(articles) \in Nat
  BY TableIsFunction
<1>2. RowsOK'
  BY RowsOfEdition DEF RowsOK
<1>3. Retriable'
  BY DEF Retriable
<1>4. \A y : Stored(y) => Stored(y)'
  BY DEF Stored
<1>5. QED
  BY <1>1, <1>2, <1>3, <1>4 DEF TablesOK, Kept
\* An edition is what the assumption says of it.
LEMMA EditionIsPaper ==
    ASSUME TypeOK
    PROVE  /\ Paper.last \in Nat \ {0} /\ Paper.faults \in Nat /\ Paper.limit \in Nat
           /\ \A i \in DOMAIN Paper.items : i \in Nat /\ Paper.items[i] \in FeedItem
           /\ \A f \in Filings : f \in Nat /\ Paper.filings[f].date \in Never..1
           /\ day \in Nat /\ day >= 1 /\ day <= Paper.last
<1>1. edition \in DOMAIN Papers /\ day \in 1..Paper.last
  BY DEF TypeOK
<1>2. Papers[edition].last \in Nat \ {0}
  BY <1>1, NewsAssumption
<1>3. QED
  BY <1>1, <1>2, NewsAssumption DEF Paper, Filings

\* Items and filings are what the tables are about.
LEMMA ThingsAreNamed ==
    /\ \A i \in DOMAIN Paper.items : Item(i) \in Things
    /\ \A f \in Filings : Filing(f) \in Things
BY DEF Things

\* The filing that is fetched is one of those left.
LEMMA NewestIsMember ==
    ASSUME TypeOK, CalendarInv, todo \subseteq Filings, todo # {}
    PROVE  Newest \in todo
<1>1. \A f \in todo : f \in Nat /\ published[f] \in Int /\ published[f] <= day
  BY EditionIsPaper DEF CalendarInv
<1>2. day \in Int
  BY EditionIsPaper
<1> DEFINE Days == {published[f] : f \in todo}
<1>3. Days \in SUBSET Int /\ Days # {} /\ \A d \in Days : d <= day
  BY <1>1
<1>4. Max(Days) \in Days /\ \A d \in Days : d <= Max(Days)
  BY <1>2, <1>3, LatestIsMember
<1> DEFINE OfLastDay == {f \in todo : published[f] = Max(Days)}
<1>5. OfLastDay \in SUBSET Nat /\ OfLastDay # {}
  BY <1>1, <1>4
<1>6. Min(OfLastDay) \in OfLastDay /\ \A f \in OfLastDay : Min(OfLastDay) <= f
  BY <1>5, MinIsMember
<1>7. \A g \in todo : published[Min(OfLastDay)] > published[g]
                      \/ (published[Min(OfLastDay)] = published[g] /\ Min(OfLastDay) <= g)
  <2> SUFFICES ASSUME NEW g \in todo
               PROVE  published[Min(OfLastDay)] > published[g]
                      \/ (published[Min(OfLastDay)] = published[g] /\ Min(OfLastDay) <= g)
    OBVIOUS
  <2>1. published[Min(OfLastDay)] = Max(Days)
    BY <1>6
  <2>2. published[g] \in Days
    OBVIOUS
  <2>3. CASE g \in OfLastDay
    BY <2>1, <2>3, <1>6
  <2>4. CASE published[g] # Max(Days)
    <3>1. published[g] <= Max(Days) /\ Max(Days) \in Int /\ published[g] \in Int
      BY <2>2, <1>3, <1>4
    <3>2. QED
      BY <3>1, <2>4, <2>1
  <2>5. QED
    BY <2>3, <2>4
<1>8. Min(OfLastDay) \in todo
  BY <1>6
<1>9. QED
  BY <1>7, <1>8, Zenon DEF Newest
-----------------------------------------------------------------------------
(* The tables only grow.                                                   *)

\* The fields of a row that is embedded, or is not.
LEMMA RewrittenRow ==
    ASSUME NEW row \in Row, row.status = "pending" => row.attempts < 3
    PROVE  /\ [row EXCEPT !.status = "completed"] \in Row
           /\ [row EXCEPT !.status = "completed"].of = row.of
           /\ [row EXCEPT !.status = "completed"].status # "pending"
           /\ row.status = "pending" =>
                /\ Marked(row) \in Row /\ Marked(row).of = row.of
                /\ Marked(row).status = "pending" => Marked(row).attempts < 3
<1>1. /\ [row EXCEPT !.status = "completed"] \in Row
      /\ [row EXCEPT !.status = "completed"].of = row.of
      /\ [row EXCEPT !.status = "completed"].status # "pending"
  BY DEF Row, Statuses
<1>2. ASSUME row.status = "pending"
      PROVE  /\ Marked(row) \in Row /\ Marked(row).of = row.of
             /\ Marked(row).status = "pending" => Marked(row).attempts < 3
  <2>1. row.attempts \in 0..2
    BY <1>2 DEF Row
  <2>2. /\ Marked(row).of = row.of /\ Marked(row).attempts = row.attempts + 1
        /\ Marked(row).status = IF row.attempts + 1 >= 3 THEN "dead_letter" ELSE row.status
    BY DEF Marked, Row
  <2>3. Marked(row) \in Row
    <3>1. PICK n \in 0..3 : n = row.attempts + 1
      BY <2>1
    <3>2. PICK s \in Statuses : s = IF row.attempts + 1 >= 3 THEN "dead_letter" ELSE row.status
      BY DEF Row, Statuses
    <3>3. Marked(row) = [row EXCEPT !.attempts = n, !.status = s]
      BY <3>1, <3>2 DEF Marked, Row
    <3>4. QED
      BY <3>3 DEF Row
  <2>4. QED
    BY <2>1, <2>2, <2>3
<1>3. QED
  BY <1>1, <1>2

\* No step loses what is stored, or leaves a table that is none.
LEMMA TablesGrow ==
    ASSUME TypeInv, CalendarInv, [Next]_vars
    PROVE  TablesOK
<1> USE DEF TypeInv
<1>1. CASE UNCHANGED vars
  BY <1>1, UntouchedIsTable DEF vars, environment, database
<1>2. ASSUME NEW f \in Filings, Publish(f) PROVE TablesOK
  BY <1>2, UntouchedIsTable DEF Publish, database
<1>3. CASE NextHalf
  BY <1>3, UntouchedIsTable DEF NextHalf, database
<1>4. CASE Start
  BY <1>4, UntouchedIsTable DEF Start, database
<1>5. CASE ListFeed
  BY <1>5, UntouchedIsTable DEF ListFeed, database, environment
<1>6. CASE FetchItem
  <2>1. todo \subseteq DOMAIN Paper.items /\ todo # {}
    BY <1>6 DEF FetchItem, WorkInv, AtEntry
  <2>2. Min(todo) \in todo
    BY <2>1, EditionIsPaper, MinIsMember
  <2>3. Item(Min(todo)) \in Things
    BY <2>1, <2>2, ThingsAreNamed
  <2>4. edition' = edition /\ disclosures' = disclosures
    BY <1>6 DEF FetchItem, environment
  <2>5. articles' = articles \/ articles' = Inserted(Item(Min(todo)))
    BY <1>6 DEF FetchItem
  <2>6. PICK x \in Things : x = Item(Min(todo))
    BY <2>3
  <2>7. CASE articles' = articles
    BY <2>7, <2>4, UntouchedIsTable
  <2>8. CASE articles' = Inserted(x)
    BY <2>8, <2>4, InsertedIsStored
  <2>9. QED
    BY <2>5, <2>6, <2>7, <2>8
<1>7. CASE ListFilings
  BY <1>7, UntouchedIsTable DEF ListFilings, database, environment
<1>8. CASE SkipFilings
  BY <1>8, UntouchedIsTable DEF SkipFilings, database, environment
<1>9. CASE Remember
  BY <1>9, UntouchedIsTable DEF Remember, environment
<1>10. CASE FetchFiling
  BY <1>10, UntouchedIsTable DEF FetchFiling, environment
<1>11. CASE SaveFiling
  <2>1. IsFiling
    BY <1>11 DEF SaveFiling, WorkInv, AtEntry
  <2>2. Newest \in Filings
    BY <1>11, <2>1, NewestIsMember DEF SaveFiling, WorkInv, AtEntry
  <2>3. edition' = edition
    BY <1>11 DEF SaveFiling, environment
  <2>4. PICK f \in Filings : f = Newest
    BY <2>2
  <2>5. CASE Long(f)
    <3>1. articles' = articles /\ disclosures \subseteq disclosures'
      BY <2>4, <2>5, <1>11 DEF SaveFiling
    <3>2. QED
      BY <3>1, <2>3, UntouchedIsTable
  <2>6. CASE ~Long(f)
    <3>1. articles' = Inserted(Filing(f)) /\ disclosures' = disclosures
      BY <2>4, <2>6, <1>11 DEF SaveFiling
    <3>2. PICK x \in Things : x = Filing(f)
      BY ThingsAreNamed
    <3>3. QED
      BY <3>1, <3>2, <2>3, InsertedIsStored
  <2>7. QED
    BY <2>5, <2>6
<1>12. CASE EndOfFeed
  BY <1>12, UntouchedIsTable DEF EndOfFeed, environment
<1>13. CASE Watermark
  BY <1>13, UntouchedIsTable DEF Watermark, environment, database
<1>14. CASE Embed
  <2>1. edition' = edition /\ disclosures' = disclosures
    BY <1>14 DEF Embed, environment
  <2>2. articles' = [a \in DOMAIN articles |->
            IF a \in Page THEN [articles[a] EXCEPT !.status = "completed"] ELSE articles[a]]
    BY <1>14 DEF Embed
  <2>3. \A a \in DOMAIN articles : articles[a] \in Row
                                   /\ (articles[a].status = "pending" => articles[a].attempts < 3)
    BY TableIsFunction DEF Retriable
  <2>4. ASSUME NEW a \in DOMAIN articles
        PROVE  /\ articles'[a] \in Row /\ articles'[a].of = articles[a].of
               /\ articles'[a].status = "pending" => articles'[a].attempts < 3
    <3>1. PICK row \in Row : row = articles[a]
                             /\ (row.status = "pending" => row.attempts < 3)
      BY <2>3
    <3>2. articles'[a] = [row EXCEPT !.status = "completed"] \/ articles'[a] = row
      BY <2>2, <3>1
    <3>3. QED
      BY <3>1, <3>2, RewrittenRow
  <2>5. articles' = [a \in DOMAIN articles |-> articles'[a]]
    BY <2>2
  <2>6. QED
    BY <2>1, <2>4, <2>5, RewrittenIsTable
<1>15. CASE EmbedFails
  <2>1. edition' = edition /\ disclosures' = disclosures
    BY <1>15 DEF EmbedFails, environment
  <2>2. PICK k : articles' = [a \in DOMAIN articles |->
            IF a \in Page /\ BatchOf(a) = k THEN Marked(articles[a])
            ELSE IF a \in Page /\ BatchOf(a) < k
                 THEN [articles[a] EXCEPT !.status = "completed"]
            ELSE articles[a]]
    BY <1>15 DEF EmbedFails
  <2>3. \A a \in DOMAIN articles : articles[a] \in Row
                                   /\ (articles[a].status = "pending" => articles[a].attempts < 3)
    BY TableIsFunction DEF Retriable
  <2>4. ASSUME NEW a \in DOMAIN articles
        PROVE  /\ articles'[a] \in Row /\ articles'[a].of = articles[a].of
               /\ articles'[a].status = "pending" => articles'[a].attempts < 3
    <3>1. PICK row \in Row : row = articles[a]
                             /\ (row.status = "pending" => row.attempts < 3)
      BY <2>3
    <3>2. CASE a \in Page /\ BatchOf(a) = k
      <4>1. articles'[a] = Marked(row)
        BY <2>2, <3>1, <3>2
      <4>2. row.status = "pending"
        BY <3>1, <3>2 DEF Page, Waiting, Pending
      <4>3. QED
        BY <4>1, <4>2, <3>1, RewrittenRow
    <3>3. CASE ~(a \in Page /\ BatchOf(a) = k)
      <4>1. articles'[a] = [row EXCEPT !.status = "completed"] \/ articles'[a] = row
        BY <2>2, <3>1, <3>3
      <4>2. QED
        BY <4>1, <3>1, RewrittenRow
    <3>4. QED
      BY <3>2, <3>3
  <2>5. articles' = [a \in DOMAIN articles |-> articles'[a]]
    BY <2>2
  <2>6. QED
    BY <2>1, <2>4, <2>5, RewrittenIsTable
<1>16. CASE Exit
  BY <1>16, UntouchedIsTable DEF Exit, environment, database
<1>17. CASE ListFails
  BY <1>17, UntouchedIsTable DEF ListFails, environment, database
<1>18. CASE Crash
  BY <1>18, UntouchedIsTable DEF Crash, environment, database
<1>19. QED
  BY <1>1, <1>2, <1>3, <1>4, <1>5, <1>6, <1>7, <1>8, <1>9, <1>10, <1>11, <1>12, <1>13, <1>14,
     <1>15, <1>16, <1>17, <1>18 DEF Next, Run, Tick, Outage
-----------------------------------------------------------------------------
(* What a listing of filings asks for, and what it is given.               *)

\* The dates of a plan: it ends today, begins within the days the service
\* asks for, and no later than the day the collections are checked through,
\* or than the first day of a history that was begun.
LEMMA PlanOfToday ==
    ASSUME TypeInv, CalendarInv
    PROVE  /\ CollectionPlan \in Plan
           /\ CollectionPlan.end = day /\ CollectionPlan.first = Never
           /\ CollectionPlan.recheck = FALSE /\ CollectionPlan.initial = ~state.completed
           /\ CollectionPlan.limit =
                IF ~state.completed /\ state.from = Never THEN Paper.limit ELSE 0
           /\ CollectionPlan.begin <= day /\ CollectionPlan.begin >= day - HistoryDays
           /\ state.completed => \/ CollectionPlan.begin = state.through
                                 \/ CollectionPlan.begin = day - HistoryDays
           /\ ~state.completed /\ state.from # Never =>
                /\ CollectionPlan.begin >= state.from
                /\ \/ CollectionPlan.begin = state.from
                   \/ CollectionPlan.begin = day - HistoryDays
           /\ ~state.completed /\ state.from = Never =>
                CollectionPlan.begin = day - HistoryDays
<1> DEFINE initial == ~state.completed
           asked == IF initial
                    THEN IF state.from # Never THEN state.from ELSE day - HistoryDays
                    ELSE IF state.through # Never THEN state.through ELSE day - 1
           limit == IF initial /\ state.from = Never THEN Paper.limit ELSE 0
<1>1. /\ state.completed \in BOOLEAN /\ state.from \in Int /\ state.through \in Int
      /\ day \in Int /\ HistoryDays \in Int /\ HistoryDays >= 0 /\ Paper.limit \in Nat
  BY EditionIsPaper, NewsAssumption DEF TypeInv, StateRow
<1>2. asked \in Int /\ asked <= day /\ day - HistoryDays \in Int
  BY <1>1 DEF CalendarInv
<1>3. Max({asked, day - HistoryDays}) =
        IF asked >= day - HistoryDays THEN asked ELSE day - HistoryDays
  <2> HIDE DEF asked
  <2>1. QED
    BY <1>2, LaterOfTwo
<1>4. CollectionPlan = [for |-> ScheduledDay, begin |-> Max({asked, day - HistoryDays}),
                        end |-> day, initial |-> initial, limit |-> limit,
                        first |-> Never, recheck |-> FALSE]
  BY DEF CollectionPlan
<1>5. ScheduledDay \in Int
  BY <1>1 DEF ScheduledDay
<1>6. limit \in Nat /\ Never \in Int
  BY <1>1 DEF Never
<1>7. Max({asked, day - HistoryDays}) \in Int /\ Max({asked, day - HistoryDays}) <= day
      /\ Max({asked, day - HistoryDays}) >= day - HistoryDays
      /\ Max({asked, day - HistoryDays}) >= asked
      /\ Max({asked, day - HistoryDays}) \in {asked, day - HistoryDays}
  <2> HIDE DEF asked
  <2>1. QED
    BY <1>1, <1>2, <1>3
<1>8. CollectionPlan \in Plan
  <2> HIDE DEF asked, limit
  <2>1. initial \in BOOLEAN
    OBVIOUS
  <2>2. QED
    BY <1>4, <1>5, <1>6, <1>7, <1>1, <2>1 DEF Plan
<1>9. /\ CollectionPlan.end = day /\ CollectionPlan.first = Never
      /\ CollectionPlan.recheck = FALSE /\ CollectionPlan.initial = initial
      /\ CollectionPlan.limit = limit
      /\ CollectionPlan.begin = Max({asked, day - HistoryDays})
  BY <1>4
<1>10. state.completed => asked = state.through
  BY DEF CalendarInv
<1>11. ~state.completed /\ state.from # Never => asked = state.from
  OBVIOUS
<1>12. ~state.completed /\ state.from = Never => asked = day - HistoryDays
  OBVIOUS
<1> HIDE DEF asked
<1>13. QED
  BY <1>7, <1>8, <1>9, <1>10, <1>11, <1>12

\* Unless the limit was reached, the entries are all that the plan's days have.
LEMMA SelectionIsWhole ==
    ASSUME NEW entries \in Selections(CollectionPlan)
    PROVE  /\ entries \subseteq InWindow(CollectionPlan)
           /\ CollectionPlan.limit = 0 \/ Cardinality(entries) # CollectionPlan.limit
                => entries = InWindow(CollectionPlan)
<1>1. CASE CollectionPlan.limit = 0
           \/ Cardinality(InWindow(CollectionPlan)) <= CollectionPlan.limit
  BY <1>1 DEF Selections
<1>2. CASE ~(CollectionPlan.limit = 0
             \/ Cardinality(InWindow(CollectionPlan)) <= CollectionPlan.limit)
  <2>1. entries \in kSubset(CollectionPlan.limit, InWindow(CollectionPlan))
    BY <1>2 DEF Selections
  <2>2. QED
    BY <2>1, <1>2 DEF kSubset
<1>3. QED
  BY <1>1, <1>2

\* The first date of the entries, or today.
LEMMA FirstOfEntries ==
    ASSUME TypeInv, CalendarInv, NEW entries \in SUBSET InWindow(CollectionPlan)
    PROVE  LET first == Min({published[f] : f \in entries} \cup {day})
           IN  first \in Int /\ first <= day /\ first >= CollectionPlan.begin
<1> DEFINE Dates == {published[f] : f \in entries} \cup {day}
<1>1. day \in Int /\ CollectionPlan.begin \in Int /\ CollectionPlan.begin <= day
  BY PlanOfToday, EditionIsPaper DEF Plan, TypeInv
<1>2. \A f \in entries : f \in Filings /\ published[f] \in Int
                         /\ CollectionPlan.begin <= published[f]
  <2>1. \A f \in entries : f \in Filings /\ published[f] \in CollectionPlan.begin..CollectionPlan.end
    BY DEF InWindow
  <2>2. published \in [Filings -> Int]
    BY DEF TypeInv, TypeOK
  <2>3. CollectionPlan.end = day
    BY PlanOfToday
  <2>4. QED
    BY <2>1, <2>2, <2>3, <1>1
<1>3. Dates \in SUBSET Int /\ day \in Dates
  BY <1>1, <1>2
<1>4. \A d \in Dates : CollectionPlan.begin <= d
  BY <1>1, <1>2
<1> HIDE DEF Dates
<1>5. Min(Dates) \in Dates /\ \A d \in Dates : Min(Dates) <= d
  BY <1>1, <1>3, <1>4, EarliestIsMember
<1>6. Min(Dates) \in Int /\ Min(Dates) <= day /\ Min(Dates) >= CollectionPlan.begin
  BY <1>1, <1>3, <1>4, <1>5
<1>7. QED
  BY <1>6 DEF Dates
-----------------------------------------------------------------------------
(* Types.                                                                  *)

WorldOK ==
    /\ edition \in DOMAIN Papers /\ day \in 1..Paper.last /\ late \in BOOLEAN
    /\ published \in [Filings -> Int] /\ starts \in 0..MaxStarts

Steps == {"idle", "failed", "source", "remember", "article", "save", "watermark", "embed", "exit"}

ProcessOK ==
    /\ pc \in Steps /\ source \in 0..Len(Feeds)
    /\ todo \subseteq Filings \cup DOMAIN Paper.items
    /\ failed \in BOOLEAN /\ results \in [news : BOOLEAN, filings : BOOLEAN]
    /\ watermark \in 0..Len(articles)

StoreOK ==
    /\ disclosures \subseteq Filings /\ archive \subseteq Filings
    /\ exit \in -1..2 /\ faults \in 0..Paper.faults /\ state \in StateRow

\* The types in parts.
LEMMA TypesInParts ==
    TypeInv <=> WorldOK /\ ProcessOK /\ StoreOK /\ RowsOK /\ Retriable /\ WorkInv
<1>1. RowsOK => \A a \in DOMAIN articles :
        articles[a].status \in Statuses /\ articles[a].attempts \in 0..3
  <2> SUFFICES ASSUME RowsOK
               PROVE  \A a \in DOMAIN articles :
                        articles[a].status \in Statuses /\ articles[a].attempts \in 0..3
    OBVIOUS
  <2>1. \A a \in DOMAIN articles : articles[a] \in Row
    BY TableIsFunction
  <2>2. QED
    BY <2>1 DEF Row
<1>2. QED
  BY <1>1, Zenon DEF TypeInv, TypeOK, WorldOK, ProcessOK, StoreOK, Steps, Statuses

\* A step that leaves the world alone leaves its types.
LEMMA WorldIsTyped ==
    ASSUME WorldOK, edition' = edition, day' = day, late' = late, published' = published,
           starts' = starts
    PROVE  WorldOK' /\ Paper' = Paper /\ Filings' = Filings
BY DEF WorldOK, Paper, Filings

\* A step that leaves state and exit alone, and counts its failures.
LEMMA StoreIsTyped ==
    ASSUME WorldOK, StoreOK, edition' = edition, disclosures' = disclosures, archive' = archive,
           exit' \in -1..2, faults' = faults \/ Fault, state' \in StateRow
    PROVE  StoreOK'
<1>1. Paper' = Paper /\ Filings' = Filings /\ Paper.faults \in Nat
  <2>1. edition \in DOMAIN Papers
    BY DEF WorldOK
  <2>2. QED
    BY <2>1, NewsAssumption DEF Paper, Filings
<1>2. faults' \in 0..Paper.faults
  BY <1>1 DEF StoreOK, Fault
<1>3. StateRow' = StateRow
  BY DEF StateRow
<1>4. QED
  BY <1>1, <1>2, <1>3 DEF StoreOK

\* Leaving a feed, a process is at the next or at the embedding.
LEMMA LeaveIsTyped ==
    ASSUME WorldOK, ProcessOK, AtFeed, source > 0, TablesOK, RowsOK, NEW b \in BOOLEAN, Leave(b)
    PROVE  ProcessOK' /\ WorkInv'
<1>1. source \in 1..Len(Feeds) /\ Len(Feeds) \in Nat /\ Len(articles) \in Nat
  BY FeedsAreNumbered, TableIsFunction DEF ProcessOK
<1>2. results' \in [news : BOOLEAN, filings : BOOLEAN]
  BY DEF Leave, Reported, ProcessOK
<1>3. pc' \in {"source", "watermark"} /\ source' \in 0..Len(Feeds)
      /\ (pc' = "source" => source' > 0)
  BY <1>1 DEF Leave
<1>4. todo' = {} /\ failed' = FALSE /\ plan' = NoPlan /\ watermark' = watermark
  BY DEF Leave
<1>5. watermark' \in 0..Len(articles')
  <2>1. Len(articles) <= Len(articles') /\ Len(articles') \in Nat
    <3>1. articles' \in Seq(Row')
      BY DEF TablesOK, RowsOK
    <3>2. Len(articles') \in Nat
      BY <3>1, LenProperties
    <3>3. QED
      BY <3>2 DEF TablesOK
  <2>2. QED
    BY <2>1, <1>1, <1>4 DEF ProcessOK
<1>6. ProcessOK'
  BY <1>2, <1>3, <1>4, <1>5 DEF ProcessOK, Steps
<1>7. WorkInv'
  BY <1>3, <1>4 DEF WorkInv, AtFeed, AtEntry, NoPlan
<1>8. QED
  BY <1>6, <1>7

\* So does a process that ends, or begins.
LEMMA GoneIsTyped ==
    ASSUME NEW how \in {"idle", "failed"}, ProcessGone(how), TablesOK
    PROVE  ProcessOK' /\ WorkInv'
<1>1. Len(articles') \in Nat
  <2>1. articles' \in Seq(Row')
    BY DEF TablesOK, RowsOK
  <2>2. QED
    BY <2>1, LenProperties
<1>2. pc' = how /\ source' = 0 /\ todo' = {} /\ plan' = NoPlan /\ failed' = FALSE
      /\ results' = [news |-> FALSE, filings |-> FALSE] /\ watermark' = 0
  BY DEF ProcessGone
<1>3. ProcessOK'
  <2>1. results' \in [news : BOOLEAN, filings : BOOLEAN]
    BY <1>2
  <2>2. 0 \in 0..Len(articles') /\ 0 \in 0..Len(Feeds)
    BY <1>1, FeedsAreNumbered
  <2>3. QED
    BY <1>2, <2>1, <2>2 DEF ProcessOK, Steps
<1>4. WorkInv'
  BY <1>2 DEF WorkInv, AtFeed, AtEntry, NoPlan
<1>5. QED
  BY <1>3, <1>4
\* The dates that the collection writes are dates.
LEMMA DatesAreTyped ==
    ASSUME NEW a \in Int, NEW b \in Int
    PROVE  Least(a, b) \in Int /\ Greatest(a, b) \in Int
<1>1. Min({a, b}) \in Int /\ Max({a, b}) \in Int
  BY LaterOfTwo, EarlierOfTwo
<1>2. QED
  BY <1>1 DEF Least, Greatest

\* The watermark is the last row that waits.
LEMMA LastPending ==
    ASSUME RowsOK
    PROVE  /\ Max(Pending \cup {0}) \in 0..Len(articles)
           /\ \A a \in Pending : a <= Max(Pending \cup {0})
<1> DEFINE S == Pending \cup {0}
<1>1. Len(articles) \in Nat /\ DOMAIN articles = 1..Len(articles)
  BY TableIsFunction
<1>2. S \in SUBSET Int /\ S # {} /\ \A a \in S : a <= Len(articles) /\ a >= 0
  <2>1. Pending \subseteq DOMAIN articles
    BY DEF Pending
  <2>2. \A a \in S : a \in Int /\ a <= Len(articles) /\ a >= 0
    BY <1>1, <2>1
  <2>3. 0 \in S
    OBVIOUS
  <2> HIDE DEF S
  <2>4. QED
    BY <2>2, <2>3
<1> HIDE DEF S
<1>3. Len(articles) \in Int
  BY <1>1
<1>4. \A a \in S : a <= Len(articles)
  BY <1>2
<1>5. Max(S) \in S /\ \A a \in S : a <= Max(S)
  BY <1>2, <1>3, <1>4, LatestIsMember
<1>6. Max(S) \in 0..Len(articles)
  <2>1. Max(S) \in Int /\ Max(S) <= Len(articles) /\ Max(S) >= 0
    BY <1>2, <1>5
  <2>2. QED
    BY <1>3, <2>1
<1>7. QED
  BY <1>5, <1>6 DEF S

\* Types are invariant.
LEMMA TypesAreKept ==
    ASSUME TypeInv, CalendarInv, [Next]_vars
    PROVE  TypeInv'
<1>1. WorldOK /\ ProcessOK /\ StoreOK /\ RowsOK /\ Retriable /\ WorkInv
  BY TypesInParts
<1>2. TablesOK /\ Len(articles) \in Nat /\ Len(articles') \in Nat
      /\ Len(articles) <= Len(articles')
  <2>1. TablesOK
    BY TablesGrow
  <2>2. articles' \in Seq(Row')
    BY <2>1 DEF TablesOK, RowsOK
  <2>3. QED
    BY <2>1, <2>2, <1>1, TableIsFunction, LenProperties DEF TablesOK
<1>3. \A w \in 0..Len(articles) : w \in 0..Len(articles')
  BY <1>2
<1>4. edition' = edition /\ Paper' = Paper /\ Filings' = Filings /\ StateRow' = StateRow
  BY <1>2 DEF TablesOK, Kept, Paper, Filings, StateRow
<1>5. exit \in -1..2 /\ state \in StateRow /\ day \in Nat
  BY <1>1, EditionIsPaper DEF StoreOK, TypeInv
<1>6. SUFFICES WorldOK' /\ ProcessOK' /\ StoreOK' /\ WorkInv'
  <2>1. ASSUME WorldOK' /\ ProcessOK' /\ StoreOK' /\ WorkInv'
        PROVE  TypeInv'
    <3>1. RowsOK' /\ Retriable'
      BY <1>2 DEF TablesOK
    <3>2. \A a \in DOMAIN articles' :
            articles'[a].status \in Statuses /\ articles'[a].attempts \in 0..3
      <4>1. articles' \in Seq(Row')
        BY <3>1 DEF RowsOK
      <4>2. articles' \in [1..Len(articles') -> Row'] /\ DOMAIN articles' = 1..Len(articles')
        BY <4>1, LenProperties
      <4>3. QED
        BY <4>2 DEF Row, Statuses
    <3>3. TypeOK'
      BY <2>1, <3>2 DEF TypeOK, WorldOK, ProcessOK, StoreOK, Steps, Statuses
    <3>4. state' \in StateRow'
      BY <2>1 DEF StoreOK
    <3>5. QED
      BY <2>1, <3>1, <3>3, <3>4 DEF TypeInv
  <2>2. QED
    BY <2>1
<1>7. CASE UNCHANGED vars
  <2>1. WorldOK'
    BY <1>1, <1>7, WorldIsTyped DEF vars, environment
  <2>2. StoreOK'
    BY <1>1, <1>5, <1>7, StoreIsTyped DEF vars, environment, database
  <2>3. ProcessOK'
    BY <1>1, <1>2, <1>3, <1>4, <1>7 DEF ProcessOK, vars, process
  <2>4. WorkInv'
    BY <1>1, <1>4, <1>7 DEF WorkInv, AtFeed, AtEntry, IsFiling, Plan, NoPlan, vars, process
  <2>5. QED
    BY <2>1, <2>2, <2>3, <2>4
<1>8. ASSUME NEW f \in Filings, Publish(f) PROVE WorldOK' /\ ProcessOK' /\ StoreOK' /\ WorkInv'
  <2>1. published' = [published EXCEPT ![f] = day]
        /\ UNCHANGED <<day, late, starts, pc, source, todo, plan, failed, results, watermark,
                       state, articles, disclosures, archive, exit, faults>>
    BY <1>8 DEF Publish, process, database
  <2>2. WorldOK'
    BY <2>1, <1>1, <1>4, <1>5 DEF WorldOK
  <2>3. StoreOK'
    BY <1>1, <1>4, <1>5, <2>1, StoreIsTyped
  <2>4. ProcessOK'
    BY <1>1, <1>2, <1>3, <1>4, <2>1 DEF ProcessOK
  <2>5. WorkInv'
    BY <1>1, <1>4, <2>1 DEF WorkInv, AtFeed, AtEntry, IsFiling, Plan, NoPlan
  <2>6. QED
    BY <2>2, <2>3, <2>4, <2>5
<1>9. CASE Tick \/ Outage
  <2>1. /\ NextHalf /\ (faults' = faults \/ Fault)
        /\ UNCHANGED <<published, pc, source, todo, plan, failed, results, watermark, state,
                       articles, disclosures, archive>>
    BY <1>9 DEF Tick, Outage, NextHalf, process, database
  <2>2. WorldOK'
    <3>1. day \in 1..Paper.last /\ late \in BOOLEAN /\ Paper.last \in Nat
          /\ published \in [Filings -> Int] /\ edition \in DOMAIN Papers
      BY <1>1, EditionIsPaper DEF WorldOK, TypeInv
    <3>2. day' \in 1..Paper.last
      BY <3>1, <2>1 DEF NextHalf
    <3>3. late' \in BOOLEAN /\ starts' \in 0..MaxStarts
      BY <3>1, <2>1, NewsAssumption DEF NextHalf
    <3>4. QED
      BY <3>1, <3>2, <3>3, <2>1, <1>4 DEF WorldOK
  <2>3. StoreOK'
    <3>1. exit' \in -1..2
      BY <2>1 DEF NextHalf
    <3>2. QED
      BY <1>1, <1>4, <1>5, <2>1, <3>1, StoreIsTyped
  <2>4. ProcessOK'
    BY <1>1, <1>2, <1>3, <1>4, <2>1 DEF ProcessOK
  <2>5. WorkInv'
    BY <1>1, <1>4, <2>1 DEF WorkInv, AtFeed, AtEntry, IsFiling, Plan, NoPlan
  <2>6. QED
    BY <2>2, <2>3, <2>4, <2>5
<1>10. CASE Start
  <2>1. /\ starts < MaxStarts /\ starts' = starts + 1 /\ ~AtEntry
        /\ pc' = "source" /\ source' = 1 /\ exit' = -1
        /\ UNCHANGED <<day, late, published, todo, plan, failed, results, watermark, state,
                       articles, disclosures, archive, faults>>
    BY <1>10 DEF Start, database, AtEntry
  <2>2. WorldOK'
    BY <1>1, <1>4, <2>1, NewsAssumption DEF WorldOK
  <2>3. StoreOK'
    BY <1>1, <1>4, <1>5, <2>1, StoreIsTyped
  <2>4. ProcessOK'
    BY <1>1, <1>2, <1>3, <1>4, <2>1, FeedsAreNumbered DEF ProcessOK, Steps
  <2>5. WorkInv'
    BY <1>1, <1>4, <2>1 DEF WorkInv, AtFeed, AtEntry, NoPlan
  <2>6. QED
    BY <2>2, <2>3, <2>4, <2>5
<1>11. ASSUME UNCHANGED environment PROVE WorldOK'
  BY <1>1, <1>11, WorldIsTyped DEF environment
<1>12. ASSUME UNCHANGED database, UNCHANGED exit, faults' = faults \/ Fault PROVE StoreOK'
  BY <1>1, <1>4, <1>5, <1>12, StoreIsTyped DEF database
<1>13. CASE ListFeed
  <2>1. WorldOK' /\ StoreOK'
    BY <1>11, <1>12, <1>13 DEF ListFeed
  <2>2. pc = "source" /\ ~IsFiling /\ source > 0 /\ AtFeed /\ plan = NoPlan
    BY <1>1, <1>13 DEF ListFeed, WorkInv, AtFeed, AtEntry
  <2>3. CASE Leave(FALSE)
    BY <1>1, <1>2, <2>1, <2>2, <2>3, LeaveIsTyped
  <2>4. CASE ~Leave(FALSE)
    <3>1. pc' = "article" /\ todo' \subseteq DOMAIN Paper.items
          /\ UNCHANGED <<source, plan, failed, results, watermark>>
      BY <1>13, <2>4 DEF ListFeed
    <3>2. ProcessOK'
      BY <1>1, <1>3, <1>4, <3>1 DEF ProcessOK, Steps
    <3>3. WorkInv'
      BY <2>2, <1>4, <3>1 DEF WorkInv, AtFeed, AtEntry, IsFiling, NoPlan
    <3>4. QED
      BY <2>1, <3>2, <3>3
  <2>5. QED
    BY <2>3, <2>4
<1>14. CASE FetchItem
  <2>1. WorldOK'
    BY <1>11, <1>14 DEF FetchItem
  <2>2. disclosures' = disclosures /\ archive' = archive /\ state' = state /\ exit' = exit
        /\ (faults' = faults \/ Fault)
    BY <1>14 DEF FetchItem
  <2>3. StoreOK'
    BY <1>1, <1>4, <1>5, <2>2, StoreIsTyped
  <2>4. pc = "article" /\ ~IsFiling /\ source > 0 /\ plan = NoPlan
        /\ todo \subseteq DOMAIN Paper.items
    BY <1>1, <1>14 DEF FetchItem, WorkInv, AtFeed, AtEntry
  <2>5. todo' \subseteq todo /\ UNCHANGED <<pc, source, plan, results, watermark>>
    BY <1>14 DEF FetchItem
  <2>6. failed' \in BOOLEAN
    BY <1>1, <1>14 DEF FetchItem, ProcessOK
  <2>7. ProcessOK'
    BY <1>1, <1>3, <1>4, <2>4, <2>5, <2>6 DEF ProcessOK
  <2>8. WorkInv'
    BY <1>4, <2>4, <2>5 DEF WorkInv, AtFeed, AtEntry, IsFiling, NoPlan
  <2>9. QED
    BY <2>1, <2>3, <2>7, <2>8
<1>15. CASE ListFilings
  <2>1. WorldOK'
    BY <1>11, <1>15 DEF ListFilings
  <2>2. StoreOK'
    BY <1>12, <1>15 DEF ListFilings
  <2>3. pc = "source" /\ IsFiling /\ source > 0 /\ todo = {}
    BY <1>1, <1>15 DEF ListFilings, WorkInv, AtFeed, AtEntry
  <2>4. pc' = "remember" /\ UNCHANGED <<source, results, watermark>>
    BY <1>15 DEF ListFilings
  <2>5. plan' \in Plan /\ todo' \subseteq Filings /\ failed' \in BOOLEAN
    <3>1. CASE \E entries \in Selections(CollectionPlan) :
            /\ plan' = [CollectionPlan EXCEPT
                 !.first = IF CollectionPlan.initial
                           THEN Min({published[f] : f \in entries} \cup {day}) ELSE Never,
                 !.recheck = CollectionPlan.limit # 0 /\ Cardinality(entries) = CollectionPlan.limit]
            /\ todo' = {f \in entries : ~Known(f)}
            /\ UNCHANGED <<failed, faults>>
      <4>1. PICK entries \in Selections(CollectionPlan) :
            /\ plan' = [CollectionPlan EXCEPT
                 !.first = IF CollectionPlan.initial
                           THEN Min({published[f] : f \in entries} \cup {day}) ELSE Never,
                 !.recheck = CollectionPlan.limit # 0 /\ Cardinality(entries) = CollectionPlan.limit]
            /\ todo' = {f \in entries : ~Known(f)}
            /\ UNCHANGED <<failed, faults>>
        BY <3>1
      <4>2. entries \subseteq InWindow(CollectionPlan) /\ entries \subseteq Filings
        BY SelectionIsWhole DEF InWindow
      <4>3. Min({published[f] : f \in entries} \cup {day}) \in Int
        BY <4>2, FirstOfEntries
      <4>4. CollectionPlan \in Plan
        BY PlanOfToday
      <4>5. plan' \in Plan
        <5> DEFINE first == IF CollectionPlan.initial
                            THEN Min({published[f] : f \in entries} \cup {day}) ELSE Never
                   recheck == CollectionPlan.limit # 0
                              /\ Cardinality(entries) = CollectionPlan.limit
        <5>1. first \in Int
          BY <4>3 DEF Never
        <5>2. recheck \in BOOLEAN
          OBVIOUS
        <5>3. plan' = [CollectionPlan EXCEPT !.first = first, !.recheck = recheck]
          BY <4>1
        <5>4. PICK q, n, b : q = CollectionPlan /\ n = first /\ b = recheck
          OBVIOUS
        <5>5. q \in Plan /\ n \in Int /\ b \in BOOLEAN /\ plan' = [q EXCEPT !.first = n, !.recheck = b]
          BY <4>4, <5>1, <5>2, <5>3, <5>4
        <5>6. QED
          BY <5>5 DEF Plan
      <4>6. todo' \subseteq Filings /\ failed' = failed
        BY <4>1, <4>2
      <4>7. QED
        BY <1>1, <4>5, <4>6, Zenon DEF ProcessOK
    <3>2. CASE plan' = CollectionPlan /\ failed' = TRUE /\ UNCHANGED todo
      BY <3>2, <2>3, PlanOfToday
    <3>3. QED
      BY <1>15, <3>1, <3>2 DEF ListFilings
  <2>6. ProcessOK'
    BY <1>1, <1>3, <1>2, <1>4, <2>4, <2>5, <1>15 DEF ProcessOK, Steps, ListFilings, database
  <2>7. WorkInv'
    <3>1. Plan' = Plan
      BY DEF Plan
    <3>2. QED
      BY <1>4, <2>3, <2>4, <2>5, <3>1 DEF WorkInv, AtFeed, AtEntry, IsFiling
  <2>8. QED
    BY <2>1, <2>2, <2>6, <2>7
<1>16. CASE SkipFilings
  <2>1. WorldOK' /\ StoreOK'
    BY <1>11, <1>12, <1>16 DEF SkipFilings
  <2>2. AtFeed /\ source > 0 /\ Leave(FALSE)
    BY <1>1, <1>16 DEF SkipFilings, WorkInv, AtFeed
  <2>3. QED
    BY <1>1, <1>2, <2>1, <2>2, LeaveIsTyped
<1>17. CASE ListFails
  <2>1. WorldOK' /\ StoreOK'
    BY <1>11, <1>12, <1>17 DEF ListFails
  <2>2. AtFeed /\ source > 0 /\ Leave(TRUE)
    BY <1>1, <1>17 DEF ListFails, WorkInv, AtFeed
  <2>3. QED
    BY <1>1, <1>2, <2>1, <2>2, LeaveIsTyped
<1>18. CASE Remember
  <2>1. WorldOK'
    BY <1>11, <1>18 DEF Remember
  <2>2. pc = "remember" /\ IsFiling /\ plan \in Plan /\ todo \subseteq Filings /\ source > 0
        /\ AtFeed
    BY <1>1, <1>18 DEF Remember, WorkInv, AtFeed, AtEntry
  <2>3. state' \in StateRow
    <3>1. Least(state.from, plan.first) \in Int /\ Greatest(state.attemptedFor, plan.for) \in Int
      BY <1>5, <2>2, DatesAreTyped DEF StateRow, Plan
    <3>2. state' = [state EXCEPT !.from = Least(state.from, plan.first),
                                 !.attemptedFor = Greatest(state.attemptedFor, plan.for)]
      BY <1>18, <1>5 DEF Remember, StateRow
    <3>3. QED
      BY <1>5, <3>1, <3>2 DEF StateRow
  <2>4. StoreOK'
    BY <1>1, <1>4, <1>5, <2>3, <1>18, StoreIsTyped DEF Remember
  <2>5. CASE failed
    BY <1>1, <1>2, <1>18, <2>1, <2>2, <2>4, <2>5, LeaveIsTyped DEF Remember
  <2>6. CASE ~failed
    <3>1. pc' = "article" /\ UNCHANGED <<source, todo, plan, failed, results, watermark>>
      BY <1>18, <2>6 DEF Remember
    <3>2. ProcessOK'
      BY <1>1, <1>3, <1>4, <3>1 DEF ProcessOK, Steps
    <3>3. Plan' = Plan
      BY DEF Plan
    <3>4. WorkInv'
      BY <1>4, <2>2, <3>1, <3>3 DEF WorkInv, AtFeed, AtEntry, IsFiling
    <3>5. QED
      BY <2>1, <2>4, <3>2, <3>4
  <2>7. QED
    BY <2>5, <2>6
<1>19. CASE FetchFiling
  <2>1. WorldOK'
    BY <1>11, <1>19 DEF FetchFiling
  <2>2. pc = "article" /\ IsFiling /\ plan \in Plan /\ todo \subseteq Filings /\ source > 0
        /\ todo # {}
    BY <1>1, <1>19 DEF FetchFiling, WorkInv, AtFeed, AtEntry
  <2>3. Newest \in Filings
    BY <2>2, NewestIsMember DEF TypeInv
  <2>4. UNCHANGED <<source, plan, results, watermark, state, articles, disclosures, exit>>
        /\ (faults' = faults \/ Fault) /\ failed' \in BOOLEAN
        /\ archive' \subseteq archive \cup {Newest}
        /\ ((pc' = "save" /\ todo' = todo) \/ (pc' = "article" /\ todo' \subseteq todo))
    BY <1>1, <1>19 DEF FetchFiling, ProcessOK
  <2>5. StoreOK'
    <3>1. faults' \in 0..Paper.faults
      BY <1>1, <2>4, EditionIsPaper DEF StoreOK, Fault, TypeInv
    <3>2. QED
      BY <1>1, <1>4, <2>3, <2>4, <3>1 DEF StoreOK
  <2>6. ProcessOK'
    BY <1>1, <1>2, <1>3, <1>4, <2>2, <2>4 DEF ProcessOK, Steps
  <2>7. WorkInv'
    <3>1. Plan' = Plan
      BY DEF Plan
    <3>2. QED
      BY <1>4, <2>2, <2>4, <3>1 DEF WorkInv, AtFeed, AtEntry, IsFiling
  <2>8. QED
    BY <2>1, <2>5, <2>6, <2>7
<1>20. CASE SaveFiling
  <2>1. WorldOK'
    BY <1>11, <1>20 DEF SaveFiling
  <2>2. pc = "save" /\ IsFiling /\ plan \in Plan /\ todo \subseteq Filings /\ source > 0
        /\ todo # {}
    BY <1>1, <1>20 DEF SaveFiling, WorkInv, AtFeed, AtEntry
  <2>3. Newest \in Filings
    BY <2>2, NewestIsMember DEF TypeInv
  <2>4. UNCHANGED <<source, plan, failed, results, watermark, state, archive, exit, faults>>
        /\ disclosures' \subseteq disclosures \cup {Newest}
        /\ pc' = "article" /\ todo' \subseteq todo
    BY <1>20 DEF SaveFiling
  <2>5. StoreOK'
    BY <1>1, <1>4, <2>3, <2>4 DEF StoreOK
  <2>6. ProcessOK'
    BY <1>1, <1>3, <1>4, <2>2, <2>4 DEF ProcessOK, Steps
  <2>7. WorkInv'
    <3>1. Plan' = Plan
      BY DEF Plan
    <3>2. QED
      BY <1>4, <2>2, <2>4, <3>1 DEF WorkInv, AtFeed, AtEntry, IsFiling
  <2>8. QED
    BY <2>1, <2>5, <2>6, <2>7
<1>21. CASE EndOfFeed
  <2>1. WorldOK'
    BY <1>11, <1>21 DEF EndOfFeed
  <2>2. pc = "article" /\ source > 0 /\ AtFeed /\ (IsFiling => plan \in Plan)
        /\ (~IsFiling => plan = NoPlan)
    BY <1>1, <1>21 DEF EndOfFeed, WorkInv, AtFeed, AtEntry
  <2>3. state' \in StateRow
    <3>1. CASE Completes
      <4>1. plan \in Plan /\ state' = Completed
        BY <2>2, <3>1, <1>21 DEF Completes, EndOfFeed
      <4> DEFINE through == IF ~plan.recheck THEN Greatest(state.through, plan.end)
                            ELSE IF state.through # Never THEN state.through ELSE state.from
                 for == IF plan.recheck THEN state.completedFor
                        ELSE Greatest(state.completedFor, plan.for)
      <4>2. through \in Int /\ for \in Int
        BY <1>5, <4>1, DatesAreTyped DEF StateRow, Plan
      <4>3. Completed = [state EXCEPT !.completed = TRUE, !.through = through, !.completedFor = for]
        BY <1>5 DEF Completed, StateRow
      <4> HIDE DEF through, for
      <4>4. QED
        BY <4>1, <4>2, <4>3, <1>5 DEF StateRow
    <3>2. CASE ~Completes
      BY <3>2, <1>21, <1>5 DEF EndOfFeed
    <3>3. QED
      BY <3>1, <3>2
  <2>4. StoreOK'
    BY <1>1, <1>4, <1>5, <2>3, <1>21, StoreIsTyped DEF EndOfFeed
  <2>5. failed \in BOOLEAN /\ Leave(failed)
    BY <1>1, <1>21 DEF EndOfFeed, ProcessOK
  <2>6. PICK b \in BOOLEAN : b = failed
    BY <2>5
  <2>7. Leave(b)
    BY <2>5, <2>6
  <2>8. QED
    BY <1>1, <1>2, <2>1, <2>2, <2>4, <2>7, LeaveIsTyped
<1>22. CASE Watermark
  <2>1. WorldOK' /\ StoreOK'
    BY <1>11, <1>12, <1>22 DEF Watermark
  <2>2. ~AtEntry /\ pc' \in {"exit", "embed"}
        /\ UNCHANGED <<source, todo, plan, failed, results, articles>>
    BY <1>22 DEF Watermark, AtEntry, database
  <2>3. watermark' \in 0..Len(articles')
    <3>1. Max(Pending \cup {0}) \in 0..Len(articles)
      BY <1>1, LastPending
    <3>2. QED
      BY <3>1, <2>2, <1>2, <1>22 DEF Watermark
  <2>4. ProcessOK'
    BY <1>1, <1>4, <2>2, <2>3 DEF ProcessOK, Steps
  <2>5. WorkInv'
    BY <1>1, <2>2 DEF WorkInv, AtFeed, AtEntry, NoPlan
  <2>6. QED
    BY <2>1, <2>4, <2>5
<1>23. CASE Embed \/ EmbedFails
  <2>1. WorldOK'
    BY <1>11, <1>23 DEF Embed, EmbedFails
  <2>2. pc = "embed" /\ pc' \in {"exit", "embed"} /\ (faults' = faults \/ Fault)
        /\ UNCHANGED <<source, todo, plan, failed, watermark, state, disclosures, archive, exit>>
    BY <1>23 DEF Embed, EmbedFails
  <2>3. StoreOK'
    BY <1>1, <1>4, <1>5, <2>2, StoreIsTyped
  <2>4. results' \in [news : BOOLEAN, filings : BOOLEAN]
    BY <1>1, <1>23 DEF Embed, EmbedFails, ProcessOK
  <2>5. ProcessOK'
    BY <1>1, <1>3, <1>4, <2>2, <2>4 DEF ProcessOK, Steps
  <2>6. WorkInv'
    BY <1>1, <2>2 DEF WorkInv, AtFeed, AtEntry, NoPlan
  <2>7. QED
    BY <2>1, <2>3, <2>5, <2>6
<1>24. CASE Exit
  <2>1. WorldOK'
    BY <1>11, <1>24 DEF Exit
  <2>2. exit' \in -1..2
    BY <1>24 DEF Exit, ExitCode
  <2>3. StoreOK'
    BY <1>1, <1>4, <1>5, <2>2, <1>24, StoreIsTyped DEF Exit, database
  <2>4. PICK how \in {"idle", "failed"} : ProcessGone(how)
    BY <1>24 DEF Exit
  <2>5. QED
    BY <1>2, <2>1, <2>3, <2>4, GoneIsTyped
<1>25. CASE Crash
  <2>1. WorldOK' /\ StoreOK'
    BY <1>11, <1>12, <1>25 DEF Crash
  <2>2. QED
    BY <1>2, <1>25, <2>1, GoneIsTyped DEF Crash
<1>26. QED
  BY <1>7, <1>8, <1>9, <1>10, <1>13, <1>14, <1>15, <1>16, <1>17, <1>18, <1>19, <1>20, <1>21,
     <1>22, <1>23, <1>24, <1>25 DEF Next, Run
-----------------------------------------------------------------------------
(* The collection of filings.                                              *)

\* LEAST of two dates: a null yields, and a history does not begin later.
LEMMA LeastOfDates ==
    ASSUME NEW a \in Int, NEW b \in Int
    PROVE  /\ Least(a, Never) = a /\ Least(Never, b) = b
           /\ a # Never /\ b # Never /\ a <= b => Least(a, b) = a
           /\ \A d \in Int : a <= d /\ b <= d => Least(a, b) <= d
<1>1. Min({a, b}) = IF a <= b THEN a ELSE b
  BY EarlierOfTwo
<1>2. QED
  BY <1>1 DEF Least

\* GREATEST of two dates.
LEMMA GreatestOfDates ==
    ASSUME NEW a \in Int, NEW b \in Int, a <= b
    PROVE  Greatest(a, b) = b
BY LaterOfTwo DEF Greatest

\* The steps that write the collection's row, or move the calendar.
Calm == UNCHANGED <<edition, day, published, state>>

LEMMA MostStepsAreCalm ==
    ASSUME [Next]_vars
    PROVE  \/ Calm \/ Remember \/ EndOfFeed \/ Tick \/ Outage
           \/ \E f \in Filings : Publish(f)
<1>1. CASE UNCHANGED vars
  BY <1>1 DEF Calm, vars, environment, database
<1>2. CASE Start
  BY <1>2 DEF Calm, Start, database
<1>3. CASE ListFeed \/ FetchItem \/ ListFilings \/ SkipFilings \/ FetchFiling \/ SaveFiling
  BY <1>3 DEF Calm, ListFeed, FetchItem, ListFilings, SkipFilings, FetchFiling, SaveFiling,
              environment, database
<1>4. CASE Watermark \/ Embed \/ EmbedFails \/ Exit \/ ListFails \/ Crash
  BY <1>4 DEF Calm, Watermark, Embed, EmbedFails, Exit, ListFails, Crash, environment, database
<1>5. QED
  BY <1>1, <1>2, <1>3, <1>4 DEF Next, Run

\* What a filing's being known rests on is kept.
LEMMA KnownIsKept ==
    ASSUME TablesOK
    PROVE  Filings' = Filings /\ Paper' = Paper /\ \A f : Known(f) => Known(f)'
BY DEF TablesOK, Kept, Known, Filings, Paper

\* What the collection knows when it is remembered.
LEMMA Remembering ==
    ASSUME TypeInv, CalendarInv, ListInv, Remember
    PROVE  /\ AtEntry /\ IsFiling /\ plan \in Plan /\ plan.first <= day
           /\ state' = [state EXCEPT !.from = Least(state.from, plan.first),
                                     !.attemptedFor = Greatest(state.attemptedFor, plan.for)]
           /\ state'.from = Least(state.from, plan.first) /\ state'.from <= day
           /\ state'.through = state.through /\ state'.completed = state.completed
           /\ state.completed => state'.from = state.from
<1>1. AtEntry /\ IsFiling /\ plan \in Plan
  BY DEF Remember, TypeInv, WorkInv, AtEntry
<1>2. plan.first <= day /\ (state.completed => plan.first = Never)
  BY <1>1 DEF ListInv, Remember
<1>3. state \in StateRow /\ day \in Int
  BY EditionIsPaper DEF TypeInv
<1>4. state' = [state EXCEPT !.from = Least(state.from, plan.first),
                             !.attemptedFor = Greatest(state.attemptedFor, plan.for)]
  BY <1>3 DEF Remember, StateRow
<1>5. state'.from = Least(state.from, plan.first) /\ state'.through = state.through
      /\ state'.completed = state.completed
  BY <1>3, <1>4 DEF StateRow
<1>6. state.from \in Int /\ plan.first \in Int /\ state.from <= day
  BY <1>1, <1>3 DEF StateRow, Plan, CalendarInv
<1>7. Least(state.from, plan.first) <= day /\ Least(state.from, Never) = state.from
  BY <1>2, <1>3, <1>6, LeastOfDates
<1>8. QED
  BY <1>1, <1>2, <1>4, <1>5, <1>7

\* What a collection that is completed has: its first day, and either every
\* filing up to today or a day to list again.
LEMMA Completing ==
    ASSUME TypeInv, CalendarInv, ListInv, EndOfFeed, Completes
    PROVE  /\ state'.completed = TRUE /\ state'.from = state.from /\ state.from # Never
           /\ \/ state'.through = day /\ Owed /\ todo = {} /\ pc = "article"
              \/ state'.through = state.from
<1>1. pc = "article" /\ todo = {} /\ AtEntry /\ ~failed /\ state' = Completed
  BY DEF EndOfFeed, Completes, AtEntry
<1>2. IsFiling
  BY <1>1 DEF Completes, TypeInv, WorkInv
<1>3. plan \in Plan /\ state \in StateRow /\ day \in Int
  BY <1>1, <1>2, EditionIsPaper DEF TypeInv, WorkInv
<1>4. plan.end = day /\ From # Never /\ (IF plan.recheck THEN state.through = Never ELSE Owed)
  BY <1>1, <1>2 DEF ListInv
<1>5. state.from # Never
  BY <1>1, <1>4 DEF From
<1>6. state'.completed = TRUE /\ state'.from = state.from
      /\ state'.through = IF ~plan.recheck THEN Greatest(state.through, plan.end)
                          ELSE IF state.through # Never THEN state.through ELSE state.from
  BY <1>1, <1>3 DEF Completed, StateRow
<1>7. Greatest(state.through, day) = day
  <2>1. state.through \in Int /\ state.through <= day
    BY <1>3 DEF StateRow, CalendarInv
  <2>2. QED
    BY <2>1, <1>3, GreatestOfDates
<1>8. CASE plan.recheck
  BY <1>4, <1>5, <1>6, <1>8
<1>9. CASE ~plan.recheck
  BY <1>1, <1>4, <1>5, <1>6, <1>7, <1>9
<1>10. QED
  BY <1>8, <1>9

\* The calendar is invariant.
LEMMA CalendarIsKept ==
    ASSUME TypeInv, CalendarInv, ListInv, [Next]_vars
    PROVE  CalendarInv'
<1>1. Filings' = Filings /\ day \in Nat /\ day >= 1 /\ Never \in Int /\ Never < 1
      /\ published \in [Filings -> Int] /\ state \in StateRow
  BY TablesGrow, KnownIsKept, EditionIsPaper DEF Never, TypeInv, TypeOK
<1>2. CASE Calm
  BY <1>1, <1>2 DEF CalendarInv, Calm
<1>3. CASE Remember
  <2>1. UNCHANGED <<day, published>>
    BY <1>3 DEF Remember, environment
  <2>2. QED
    BY <1>1, <1>3, <2>1, Remembering DEF CalendarInv
<1>4. CASE EndOfFeed
  <2>1. UNCHANGED <<day, published>>
    BY <1>4 DEF EndOfFeed, environment
  <2>2. CASE Completes
    <3>1. state'.completed = TRUE /\ state'.from = state.from /\ state.from # Never
          /\ (state'.through = day \/ state'.through = state.from)
      BY <1>4, <2>2, Completing
    <3>2. state'.through <= day /\ state'.through # Never /\ state.from <= day
      BY <1>1, <3>1 DEF CalendarInv
    <3>3. QED
      BY <1>1, <2>1, <3>1, <3>2 DEF CalendarInv
  <2>3. CASE ~Completes
    BY <1>1, <1>4, <2>1, <2>3 DEF CalendarInv, EndOfFeed
  <2>4. QED
    BY <2>2, <2>3
<1>5. CASE Tick \/ Outage
  <2>1. UNCHANGED <<published, state>> /\ day' \in Nat /\ day <= day'
    BY <1>1, <1>5 DEF Tick, Outage, NextHalf, database
  <2>2. state.from \in Int /\ state.through \in Int
    BY <1>1 DEF StateRow
  <2>3. state.from <= day' /\ state.through <= day'
    BY <1>1, <2>1, <2>2 DEF CalendarInv
  <2>4. \A f \in Filings : published[f] \in Never..day'
    <3>1. \A f \in Filings : published[f] \in Never..day
      BY DEF CalendarInv
    <3>2. QED
      BY <1>1, <2>1, <3>1
  <2>5. QED
    BY <1>1, <2>1, <2>3, <2>4 DEF CalendarInv
<1>6. ASSUME NEW f \in Filings, Publish(f) PROVE CalendarInv'
  <2>1. published' = [published EXCEPT ![f] = day] /\ UNCHANGED <<day, state>>
    BY <1>6 DEF Publish, database
  <2>2. \A g \in Filings : published'[g] \in Never..day
    BY <1>1, <2>1 DEF CalendarInv
  <2>3. QED
    BY <1>1, <2>1, <2>2 DEF CalendarInv
<1>7. QED
  BY <1>2, <1>3, <1>4, <1>5, <1>6, MostStepsAreCalm
\* What is checked is stored: invariant.
LEMMA CheckedIsKept ==
    ASSUME TypeInv, CalendarInv, ListInv, CheckedInv, [Next]_vars
    PROVE  CheckedInv'
<1>1. /\ Filings' = Filings /\ day \in Nat /\ HistoryDays \in Nat
      /\ published \in [Filings -> Int] /\ state \in StateRow
      /\ \A f : Known(f) => Known(f)'
  BY TablesGrow, KnownIsKept, EditionIsPaper, NewsAssumption DEF TypeInv, TypeOK
<1>2. CASE Calm
  <2>1. CheckedInv' <=> (state.completed =>
            \A f \in Filings : Collectable(f) /\ state.from <= published[f]
                               /\ published[f] < state.through => Known(f)')
    BY <1>1, <1>2 DEF CheckedInv, Collectable, Calm
  <2>2. QED
    BY <1>1, <2>1 DEF CheckedInv
<1>3. CASE Remember
  <2>1. UNCHANGED <<day, published>>
    BY <1>3 DEF Remember, environment
  <2>2. state'.through = state.through /\ state'.completed = state.completed
        /\ (state.completed => state'.from = state.from)
    BY <1>3, Remembering
  <2>3. CheckedInv' <=> (state.completed =>
            \A f \in Filings : Collectable(f) /\ state.from <= published[f]
                               /\ published[f] < state.through => Known(f)')
    BY <1>1, <2>1, <2>2 DEF CheckedInv, Collectable
  <2>4. QED
    BY <1>1, <2>3 DEF CheckedInv
<1>4. CASE EndOfFeed
  <2>1. UNCHANGED <<day, published>>
    BY <1>4 DEF EndOfFeed, environment
  <2>2. CASE Completes
    <3>1. state'.completed = TRUE /\ state'.from = state.from /\ state.from # Never
          /\ \/ state'.through = day /\ Owed /\ todo = {} /\ pc = "article"
             \/ state'.through = state.from
      BY <1>4, <2>2, Completing
    <3>2. SUFFICES ASSUME NEW f \in Filings, Collectable(f), state.from <= published[f],
                          published[f] < state'.through
                   PROVE  Known(f)
      BY <1>1, <2>1, <3>1 DEF CheckedInv, Collectable
    <3>3. published[f] \in Int /\ state.from \in Int
      BY <1>1 DEF StateRow
    <3>4. state'.through = day /\ Owed /\ todo = {} /\ From = state.from
      BY <3>1, <3>2, <3>3 DEF From
    <3>5. QED
      BY <3>2, <3>4 DEF Owed
  <2>3. CASE ~Completes
    <3>1. state' = state
      BY <1>4, <2>3 DEF EndOfFeed
    <3>2. CheckedInv' <=> (state.completed =>
              \A f \in Filings : Collectable(f) /\ state.from <= published[f]
                                 /\ published[f] < state.through => Known(f)')
      BY <1>1, <2>1, <3>1 DEF CheckedInv, Collectable
    <3>3. QED
      BY <1>1, <3>2 DEF CheckedInv
  <2>4. QED
    BY <2>2, <2>3
<1>5. CASE Tick \/ Outage
  <2>1. UNCHANGED <<published, state>> /\ day' \in Nat /\ day <= day'
    BY <1>1, <1>5 DEF Tick, Outage, NextHalf, database
  <2>2. \A f \in Filings : Collectable(f)' => Collectable(f)
    BY <1>1, <2>1 DEF Collectable
  <2>3. QED
    BY <1>1, <2>1, <2>2 DEF CheckedInv
<1>6. ASSUME NEW f \in Filings, Publish(f) PROVE CheckedInv'
  <2>1. published' = [published EXCEPT ![f] = day] /\ UNCHANGED <<day, state>>
    BY <1>6 DEF Publish, database
  <2>2. published'[f] = day /\ \A g \in Filings : g # f => published'[g] = published[g]
    BY <1>1, <2>1
  <2>3. state.through <= day /\ state.through \in Int
    BY <1>1 DEF CalendarInv, StateRow
  <2>4. SUFFICES ASSUME state.completed, NEW g \in Filings, Collectable(g)',
                        state.from <= published'[g], published'[g] < state.through
                 PROVE  Known(g)
    BY <1>1, <2>1 DEF CheckedInv
  <2>5. g # f
    BY <1>1, <2>2, <2>3, <2>4
  <2>6. published'[g] = published[g] /\ Collectable(g)
    BY <2>1, <2>2, <2>4, <2>5 DEF Collectable
  <2>7. QED
    BY <2>4, <2>6 DEF CheckedInv
<1>7. QED
  BY <1>2, <1>3, <1>4, <1>5, <1>6, MostStepsAreCalm

\* A listing that was answered owes what its days lack.
LEMMA ListingOwes ==
    ASSUME TypeInv, CalendarInv, CheckedInv, NEW entries \in Selections(CollectionPlan),
           NEW first, first = IF CollectionPlan.initial
                              THEN Min({published[f] : f \in entries} \cup {day}) ELSE Never
    PROVE  LET from == Least(state.from, first)
           IN  /\ first <= day /\ (state.completed => first = Never)
               /\ from # Never
               /\ IF CollectionPlan.limit # 0 /\ Cardinality(entries) = CollectionPlan.limit
                  THEN state.through = Never
                  ELSE \A f \in Filings :
                         Collectable(f) /\ from <= published[f] /\ published[f] < day
                         => Known(f) \/ f \in entries
<1>1. /\ CollectionPlan.end = day /\ CollectionPlan.initial = ~state.completed
      /\ CollectionPlan.limit =
           IF ~state.completed /\ state.from = Never THEN Paper.limit ELSE 0
      /\ CollectionPlan.begin <= day /\ CollectionPlan.begin >= day - HistoryDays
      /\ CollectionPlan.begin \in Int
  BY PlanOfToday DEF Plan
<1>2. /\ day \in Int /\ day >= 1 /\ HistoryDays \in Nat /\ Never < 1 - HistoryDays /\ Never \in Int
      /\ state.from \in Int /\ state.through \in Int /\ state.completed \in BOOLEAN
      /\ published \in [Filings -> Int]
  BY EditionIsPaper, NewsAssumption DEF TypeInv, TypeOK, StateRow, Never
<1>3. CollectionPlan.begin > Never
  BY <1>1, <1>2
<1>4. entries \subseteq InWindow(CollectionPlan)
  BY SelectionIsWhole
<1>5. CASE state.completed
  <2>1. first = Never /\ CollectionPlan.limit = 0 /\ Least(state.from, first) = state.from
        /\ state.from # Never
    BY <1>1, <1>2, <1>5, LeastOfDates DEF CalendarInv
  <2>2. first <= day
    BY <1>1, <1>2, <1>3, <2>1
  <2>3. entries = InWindow(CollectionPlan)
    BY <2>1, SelectionIsWhole
  <2>4. CollectionPlan.begin = state.through \/ CollectionPlan.begin = day - HistoryDays
    BY <1>5, PlanOfToday
  <2>5. ASSUME NEW f \in Filings, Collectable(f), state.from <= published[f], published[f] < day
        PROVE  Known(f) \/ f \in entries
    <3>1. published[f] \in Int /\ day - published[f] <= HistoryDays
      BY <1>2, <2>5 DEF Collectable
    <3>2. CASE published[f] < state.through
      BY <1>5, <2>5, <3>2 DEF CheckedInv
    <3>3. CASE published[f] >= state.through
      <4>1. published[f] \in CollectionPlan.begin..CollectionPlan.end
        BY <1>1, <1>2, <2>4, <2>5, <3>1, <3>3
      <4>2. QED
        BY <2>3, <4>1 DEF InWindow
    <3>4. QED
      BY <1>2, <3>1, <3>2, <3>3
  <2>6. QED
    BY <2>1, <2>2, <2>5
<1>6. CASE ~state.completed
  <2>1. first = Min({published[f] : f \in entries} \cup {day})
    BY <1>1, <1>6
  <2>2. first \in Int /\ first <= day /\ first >= CollectionPlan.begin
    BY <1>4, <2>1, FirstOfEntries
  <2>3. first # Never
    BY <1>1, <1>2, <1>3, <2>2
  <2>4. state.through = Never
    BY <1>6 DEF CalendarInv
  <2>5. CASE state.from # Never
    <3>1. CollectionPlan.limit = 0 /\ CollectionPlan.begin >= state.from
          /\ \/ CollectionPlan.begin = state.from
             \/ CollectionPlan.begin = day - HistoryDays
      BY <1>1, <1>6, <2>5, PlanOfToday
    <3>2. state.from <= first
      BY <1>1, <1>2, <2>2, <3>1
    <3>3. Least(state.from, first) = state.from
      BY <1>2, <2>2, <2>3, <2>5, <3>2, LeastOfDates
    <3>4. entries = InWindow(CollectionPlan)
      BY <3>1, SelectionIsWhole
    <3>5. ASSUME NEW f \in Filings, Collectable(f), state.from <= published[f], published[f] < day
          PROVE  f \in entries
      <4>1. published[f] \in Int /\ day - published[f] <= HistoryDays
        BY <1>2, <3>5 DEF Collectable
      <4>2. published[f] \in CollectionPlan.begin..CollectionPlan.end
        BY <1>1, <1>2, <3>1, <3>5, <4>1
      <4>3. QED
        BY <3>4, <4>2 DEF InWindow
    <3>6. QED
      BY <1>6, <2>2, <2>5, <3>1, <3>3, <3>5
  <2>6. CASE state.from = Never
    <3>1. CollectionPlan.begin = day - HistoryDays
      BY <1>6, <2>6, PlanOfToday
    <3>2. Least(state.from, first) = first
      BY <2>2, <2>6, LeastOfDates
    <3>3. ASSUME CollectionPlan.limit = 0 \/ Cardinality(entries) # CollectionPlan.limit,
                 NEW f \in Filings, Collectable(f), published[f] < day
          PROVE  f \in entries
      <4>1. published[f] \in Int /\ day - published[f] <= HistoryDays
        BY <1>2, <3>3 DEF Collectable
      <4>2. published[f] \in CollectionPlan.begin..CollectionPlan.end
        BY <1>1, <1>2, <3>1, <3>3, <4>1
      <4>3. QED
        BY <3>3, <4>2, SelectionIsWhole DEF InWindow
    <3>4. QED
      BY <1>6, <2>2, <2>3, <2>4, <3>2, <3>3
  <2>7. QED
    BY <2>5, <2>6
<1>7. QED
  BY <1>2, <1>5, <1>6
\* A filing that is saved is known.
LEMMA SavedIsKnown ==
    ASSUME TypeInv, CalendarInv, SaveFiling, NEW f, f = Newest
    PROVE  Known(f)'
<1>1. IsFiling /\ todo \subseteq Filings /\ todo # {} /\ RowsOK /\ Retriable
  BY DEF SaveFiling, TypeInv, WorkInv, AtEntry
<1>2. Newest \in Filings
  BY <1>1, NewestIsMember DEF TypeInv
<1>3. f \in Filings
  BY <1>2
<1>4. edition' = edition
  BY DEF SaveFiling, environment
<1>5. Known(f)'
  <2>1. CASE Long(f)
    BY <1>3, <2>1 DEF SaveFiling, Known
  <2>2. CASE ~Long(f)
    <3>1. articles' = Inserted(Filing(f)) /\ disclosures' = disclosures
      BY <1>3, <2>2 DEF SaveFiling
    <3>2. PICK x \in Things : x = Filing(f)
      BY <1>3, ThingsAreNamed
    <3>3. Stored(x)'
      BY <1>1, <1>4, <3>1, <3>2, InsertedIsStored
    <3>4. Stored(Filing(f))'
      BY <3>2, <3>3
    <3>5. QED
      BY <3>4 DEF Known
  <2>3. QED
    BY <2>1, <2>2
<1>6. QED
  BY <1>5

\* What a listing owes is invariant.
LEMMA ListIsKept ==
    ASSUME TypeInv, CalendarInv, ListInv, CheckedInv, [Next]_vars
    PROVE  ListInv'
<1>1. /\ Filings' = Filings /\ \A f : Known(f) => Known(f)'
  BY TablesGrow, KnownIsKept
<1>2. CASE UNCHANGED vars
  BY <1>2 DEF ListInv, AtEntry, IsFiling, From, Owed, Known, Stored, Collectable, Filings, Paper,
              Least, vars, environment, process, database
<1>3. CASE ~AtEntry'
  BY <1>3 DEF ListInv
<1>4. CASE ListFeed \/ FetchItem
  BY <1>4 DEF ListInv, ListFeed, FetchItem, IsFiling, Leave, AtEntry
<1>5. CASE ListFilings
  <2>1. pc' = "remember" /\ UNCHANGED <<day, published, state, articles, disclosures>>
    BY <1>5 DEF ListFilings, environment, database
  <2>2. \A f : Known(f)' <=> Known(f)
    BY <2>1 DEF Known, Stored
  <2>3. CASE \E entries \in Selections(CollectionPlan) :
          /\ plan' = [CollectionPlan EXCEPT
               !.first = IF CollectionPlan.initial
                         THEN Min({published[f] : f \in entries} \cup {day}) ELSE Never,
               !.recheck = CollectionPlan.limit # 0 /\ Cardinality(entries) = CollectionPlan.limit]
          /\ todo' = {f \in entries : ~Known(f)}
          /\ UNCHANGED <<failed, faults>>
    <3>1. PICK entries \in Selections(CollectionPlan) :
          /\ plan' = [CollectionPlan EXCEPT
               !.first = IF CollectionPlan.initial
                         THEN Min({published[f] : f \in entries} \cup {day}) ELSE Never,
               !.recheck = CollectionPlan.limit # 0 /\ Cardinality(entries) = CollectionPlan.limit]
          /\ todo' = {f \in entries : ~Known(f)}
      BY <2>3
    <3> DEFINE first == IF CollectionPlan.initial
                        THEN Min({published[f] : f \in entries} \cup {day}) ELSE Never
               recheck == CollectionPlan.limit # 0 /\ Cardinality(entries) = CollectionPlan.limit
               from == Least(state.from, first)
    <3>2. /\ first <= day /\ (state.completed => first = Never) /\ from # Never
          /\ IF recheck THEN state.through = Never
             ELSE \A f \in Filings : Collectable(f) /\ from <= published[f]
                                     /\ published[f] < day => Known(f) \/ f \in entries
      BY ListingOwes
    <3>3. plan' = [CollectionPlan EXCEPT !.first = first, !.recheck = recheck]
          /\ todo' = {f \in entries : ~Known(f)}
      BY <3>1
    <3> HIDE DEF first, recheck
    <3>4. plan'.first = first /\ plan'.recheck = recheck /\ plan'.end = day
      BY <3>3, PlanOfToday DEF Plan
    <3> HIDE DEF from
    <3>5. From' = from
      BY <2>1, <3>4 DEF From, from, Least
    <3>6. ~recheck => Owed'
      BY <1>1, <2>1, <2>2, <3>2, <3>3, <3>5 DEF Owed, Collectable
    <3>7. PICK n, b : n = first /\ b = recheck
      OBVIOUS
    <3>8. /\ n <= day /\ (state.completed => n = Never) /\ from # Never
          /\ plan'.first = n /\ plan'.recheck = b /\ plan'.end = day /\ From' = from
          /\ (b => state.through = Never) /\ (~b => Owed')
      BY <3>2, <3>4, <3>5, <3>6, <3>7
    <3>9. QED
      BY <2>1, <3>8, Zenon DEF ListInv
  <2>4. CASE plan' = CollectionPlan /\ failed' = TRUE
    <3>1. plan'.first = Never /\ Never <= day
      BY <2>4, PlanOfToday, EditionIsPaper DEF TypeInv, Never
    <3>2. QED
      BY <2>1, <2>4, <3>1 DEF ListInv
  <2>5. QED
    BY <1>5, <2>3, <2>4 DEF ListFilings
<1>6. CASE Remember
  <2>1. CASE failed
    BY <1>3, <1>6, <2>1 DEF Remember, Leave, AtEntry
  <2>2. CASE ~failed
    <3>1. pc = "remember" /\ pc' = "article"
          /\ UNCHANGED <<day, published, todo, plan, failed, source>>
      BY <1>6, <2>2 DEF Remember, environment
    <3>2. /\ AtEntry /\ IsFiling /\ state'.from = Least(state.from, plan.first)
          /\ state'.through = state.through
      BY <1>6, Remembering
    <3>3. From' = From
      BY <3>1, <3>2 DEF From
    <3>4. plan.end = day /\ From # Never /\ IF plan.recheck THEN state.through = Never ELSE Owed
      BY <2>2, <3>1, <3>2 DEF ListInv
    <3>5. Owed => Owed'
      BY <1>1, <3>1, <3>3 DEF Owed, Collectable
    <3>6. QED
      BY <3>1, <3>2, <3>3, <3>4, <3>5 DEF ListInv
  <2>3. QED
    BY <2>1, <2>2
<1>7. CASE FetchFiling
  <2>1. pc = "article" /\ AtEntry /\ IsFiling /\ pc' # "remember"
        /\ UNCHANGED <<day, published, source, plan, state>>
    BY <1>7 DEF FetchFiling, AtEntry, environment
  <2>2. CASE failed'
    BY <2>1, <2>2 DEF ListInv
  <2>3. CASE ~failed'
    <3>1. todo' = todo /\ failed' = failed
      BY <1>7, <2>3 DEF FetchFiling
    <3>2. From' = From
      BY <2>1 DEF From
    <3>3. Owed => Owed'
      BY <1>1, <2>1, <3>1, <3>2 DEF Owed, Collectable
    <3>4. plan.end = day /\ From # Never /\ IF plan.recheck THEN state.through = Never ELSE Owed
      BY <2>1, <2>3, <3>1 DEF ListInv
    <3>5. QED
      BY <2>1, <3>2, <3>3, <3>4 DEF ListInv
  <2>4. QED
    BY <2>2, <2>3
<1>8. CASE SaveFiling
  <2>1. pc = "save" /\ AtEntry /\ pc' = "article" /\ todo' = todo \ {Newest}
        /\ UNCHANGED <<day, published, source, plan, state, failed>>
    BY <1>8 DEF SaveFiling, AtEntry, environment
  <2>2. IsFiling
    BY <2>1 DEF TypeInv, WorkInv
  <2>3. From' = From
    BY <2>1 DEF From
  <2>4. Owed => Owed'
    <3>1. PICK n : n = Newest
      OBVIOUS
    <3>2. Known(n)'
      BY <1>8, <3>1, SavedIsKnown
    <3>3. QED
      BY <1>1, <2>1, <2>3, <3>1, <3>2 DEF Owed, Collectable
  <2>5. ~failed =>
          plan.end = day /\ From # Never /\ IF plan.recheck THEN state.through = Never ELSE Owed
    BY <2>1, <2>2 DEF ListInv
  <2>6. QED
    BY <2>1, <2>2, <2>3, <2>4, <2>5 DEF ListInv
<1>9. CASE Start \/ SkipFilings \/ EndOfFeed \/ Watermark \/ Embed \/ EmbedFails \/ Exit
           \/ ListFails \/ Crash \/ Tick \/ Outage \/ \E f \in Filings : Publish(f)
  <2>1. ~AtEntry'
    <3>1. CASE Start \/ Watermark \/ Embed \/ EmbedFails
      BY <3>1 DEF Start, Watermark, Embed, EmbedFails, AtEntry
    <3>2. CASE SkipFilings \/ EndOfFeed \/ ListFails
      BY <3>2 DEF SkipFilings, EndOfFeed, ListFails, Leave, AtEntry
    <3>3. CASE Exit \/ Crash
      BY <3>3 DEF Exit, Crash, ProcessGone, AtEntry
    <3>4. CASE Tick \/ Outage \/ \E f \in Filings : Publish(f)
      BY <3>4 DEF Tick, Outage, NextHalf, Publish, process, AtEntry
    <3>5. QED
      BY <1>9, <3>1, <3>2, <3>3, <3>4
  <2>2. QED
    BY <1>3, <2>1
<1>10. QED
  BY <1>2, <1>4, <1>5, <1>6, <1>7, <1>8, <1>9 DEF Next, Run
-----------------------------------------------------------------------------
(* The exit code.                                                          *)

\* DART's filings are no news of the feeds.
LEMMA FilingsAreNoNews ==
    ASSUME TypeOK, IsFiling
    PROVE  \A i \in DOMAIN Paper.items : ~InFeed(i, Feeds[source])
<1>1. \A i \in DOMAIN Paper.items : Paper.items[i].source # "opendart"
  BY EditionIsPaper DEF FeedItem, Publishers
<1>2. QED
  BY <1>1 DEF InFeed, IsFiling

\* What is settled today stays so.
LEMMA FeedsStaySettled ==
    ASSUME TablesOK, day' = day
    PROVE  /\ Paper' = Paper
           /\ \A i : Settled(i) => Settled(i)'
           /\ \A i, feed : InFeed(i, feed)' <=> InFeed(i, feed)
           /\ \A n : FeedSettled(n) => FeedSettled(n)'
<1>1. Paper' = Paper
  BY KnownIsKept
<1>2. \A i : Settled(i) => Settled(i)'
  <2>1. \A x : Stored(x) => Stored(x)'
    BY DEF TablesOK, Kept
  <2>2. ASSUME NEW i, Settled(i) PROVE Settled(i)'
    <3>1. CASE Outcome(Paper.items[i]) \in {"unlisted", "empty"}
      <4>1. Outcome(Paper.items[i])' = Outcome(Paper.items[i])
        BY <1>1 DEF Outcome, Chosun, Hankyung, Maeil, Yonhap, Edaily, Sedaily, Listed, BodyOrTitle
      <4>2. QED
        BY <3>1, <4>1 DEF Settled
    <3>2. CASE Stored(Item(i))
      <4>1. PICK x : x = Item(i)
        OBVIOUS
      <4>2. Stored(x)'
        BY <2>1, <3>2, <4>1
      <4>3. Stored(Item(i))'
        BY <4>1, <4>2 DEF Item
      <4>4. QED
        BY <4>3 DEF Settled
    <3>3. QED
      BY <2>2, <3>1, <3>2 DEF Settled
  <2>3. QED
    BY <2>2
<1>3. \A i, feed : InFeed(i, feed)' <=> InFeed(i, feed)
  BY <1>1 DEF InFeed
<1>4. \A n : FeedSettled(n) => FeedSettled(n)'
  <2> SUFFICES ASSUME NEW n, FeedSettled(n), NEW i \in DOMAIN Paper'.items, InFeed(i, Feeds[n])'
               PROVE  Settled(i)'
    BY DEF FeedSettled
  <2>1. PICK feed : feed = Feeds[n]
    OBVIOUS
  <2>2. InFeed(i, feed)'
    BY <2>1 DEF Feeds
  <2>3. InFeed(i, Feeds[n])
    BY <1>3, <2>1, <2>2
  <2>4. QED
    BY <1>1, <1>2, <2>3 DEF FeedSettled
<1>5. QED
  BY <1>1, <1>2, <1>3, <1>4

\* A feed that is left is settled, or its failure is remembered.
LEMMA LeaveKeepsNews ==
    ASSUME TypeInv, NewsInv, TablesOK, AtFeed, day' = day, exit' = exit,
           NEW b \in BOOLEAN, Leave(b), ~b => FeedSettled(source)
    PROVE  NewsInv'
<1>1. source \in 1..Len(Feeds) /\ Len(Feeds) \in Nat /\ DOMAIN Feeds = 1..Len(Feeds)
      /\ results \in [news : BOOLEAN, filings : BOOLEAN]
  BY FeedsAreNumbered DEF TypeInv, TypeOK, WorkInv
<1>2. FeedSettled(source) \/ results'.news
  <2>1. CASE IsFiling
    BY <2>1, FilingsAreNoNews DEF TypeInv, FeedSettled
  <2>2. CASE ~IsFiling
    <3>1. results' = [results EXCEPT !.news = results.news \/ b]
      BY <2>2, <1>1 DEF Leave, Reported
    <3>2. QED
      BY <1>1, <3>1
  <2>3. QED
    BY <2>1, <2>2
<1>3. results.news => results'.news
  <2>1. results' = [results EXCEPT !.filings = results.filings \/ b]
        \/ results' = [results EXCEPT !.news = results.news \/ b]
    BY <1>1 DEF Leave, Reported
  <2>2. QED
    BY <1>1, <2>1
<1>4. exit' = -1 /\ ~Between
  BY DEF NewsInv, Between, AtFeed
<1>5. pc' \in {"source", "watermark"} /\ Passed' = 1..source
  <2>1. CASE source < Len(Feeds)
    <3>1. pc' = "source" /\ source' = source + 1
      BY <2>1 DEF Leave
    <3>2. Passed' = 1..(source + 1) - 1
      BY <3>1 DEF Passed, AtFeed
    <3>3. QED
      BY <1>1, <3>1, <3>2
  <2>2. CASE ~(source < Len(Feeds))
    <3>1. pc' = "watermark"
      BY <2>2 DEF Leave
    <3>2. source \in Nat /\ source <= Len(Feeds)
      BY <1>1
    <3>3. source = Len(Feeds)
      BY <1>1, <2>2, <3>2, Antisymmetric, Zenon
    <3>4. Passed' = DOMAIN Feeds
      BY <3>1 DEF Passed, AtFeed, Feeds
    <3>5. QED
      BY <1>1, <3>1, <3>3, <3>4
  <2>3. QED
    BY <2>1, <2>2
<1>6. ~results'.news => \A n \in 1..source : FeedSettled(n)'
  <2> SUFFICES ASSUME ~results'.news, NEW n \in 1..source
               PROVE  FeedSettled(n)'
    OBVIOUS
  <2>1. n \in 1..source - 1 => FeedSettled(n)
    BY <1>3, <1>4 DEF NewsInv, Passed
  <2>2. n = source => FeedSettled(n)
    BY <1>2
  <2>3. n \in 1..source - 1 \/ n = source
    BY <1>1
  <2>4. QED
    BY <2>1, <2>2, <2>3, FeedsStaySettled
<1>7. QED
  BY <1>4, <1>5, <1>6 DEF NewsInv

\* A run that goes on at its feeds keeps what it has settled.
LEMMA WorkKeepsNews ==
    ASSUME TypeInv, NewsInv, TablesOK, day' = day, exit' = exit, source' = source,
           results' = results, AtFeed, AtEntry',
           pc' = "article" /\ ~failed' => \A i \in DOMAIN Paper.items :
                InFeed(i, Feeds[source]) => i \in todo' \/ Settled(i)'
    PROVE  NewsInv'
<1>1. exit' = -1 /\ ~Between
  BY DEF NewsInv, Between, AtFeed
<1>2. Passed' = Passed
  BY DEF Passed, AtFeed, AtEntry
<1>3. ~results'.news => \A n \in Passed' : FeedSettled(n)'
  BY <1>1, <1>2, FeedsStaySettled DEF NewsInv
<1>4. ASSUME pc' = "article", ~failed', NEW i \in DOMAIN Paper'.items, InFeed(i, Feeds[source])'
      PROVE  i \in todo' \/ Settled(i)'
  <2>1. PICK feed : feed = Feeds[source]
    OBVIOUS
  <2>2. InFeed(i, feed)'
    BY <1>4, <2>1 DEF Feeds
  <2>3. InFeed(i, Feeds[source]) /\ i \in DOMAIN Paper.items
    BY <2>1, <2>2, <1>4, FeedsStaySettled
  <2>4. QED
    BY <1>4, <2>3
<1>5. QED
  BY <1>1, <1>3, <1>4 DEF NewsInv, AtEntry

\* Where no row is left for a transaction, none waits.
LEMMA NothingLeft ==
    ASSUME RowsOK, Page = {}
    PROVE  Waiting = {}
<1> SUFFICES ASSUME Waiting # {}
             PROVE  FALSE
  OBVIOUS
<1>1. Waiting \in SUBSET Nat
  <2>1. Waiting \subseteq DOMAIN articles
    BY DEF Waiting, Pending
  <2>2. QED
    BY <2>1, TableIsFunction
<1>2. Min(Waiting) \in Waiting /\ \A a \in Waiting : Min(Waiting) <= a
  BY <1>1, MinIsMember
<1>3. PICK first \in Waiting : \A a \in Waiting : first <= a
  BY <1>2
<1>4. {b \in Waiting : b < first} = {}
  <2>1. \A b \in Waiting : b \in Nat /\ first \in Nat /\ first <= b
    BY <1>1, <1>3
  <2>2. \A b \in Waiting : ~(b < first)
    BY <2>1
  <2>3. QED
    BY <2>2
<1>5. Before(first) = 0
  BY <1>4, FS_EmptySet DEF Before
<1>6. first \in Page
  BY <1>5, NewsAssumption DEF Page
<1>7. QED
  BY <1>6
\* What a run knows of its news is invariant.
LEMMA NewsIsKept ==
    ASSUME TypeInv, CalendarInv, NewsInv, [Next]_vars
    PROVE  NewsInv'
<1>1. TablesOK /\ RowsOK /\ Paper' = Paper
      /\ (WorkInv /\ TypeOK /\ Retriable)
  BY TablesGrow, KnownIsKept DEF TypeInv
<1>2. CASE UNCHANGED vars
  <2>1. UNCHANGED <<day, pc, source, todo, failed, results, watermark, articles, exit>>
    BY <1>2 DEF vars, environment, process, database
  <2>2. CASE Between
    BY <2>1, <2>2 DEF NewsInv, Between
  <2>3. CASE AtEntry
    <3>1. AtFeed /\ AtEntry' /\ ~Between
      BY <2>1, <2>3 DEF AtFeed, AtEntry, Between
    <3>2. pc' = "article" /\ ~failed' => \A i \in DOMAIN Paper.items :
            InFeed(i, Feeds[source]) => i \in todo' \/ Settled(i)'
      BY <1>1, <2>1, FeedsStaySettled DEF NewsInv
    <3>3. QED
      BY <1>1, <2>1, <3>1, <3>2, WorkKeepsNews
  <2>4. CASE ~AtEntry /\ ~Between
    <3>1. Passed' = Passed /\ Pending' = Pending
      BY <2>1 DEF Passed, AtFeed, Pending, Feeds
    <3>2. ~results'.news => \A n \in Passed' : FeedSettled(n)'
      BY <1>1, <2>1, <2>4, <3>1, FeedsStaySettled DEF NewsInv
    <3>3. QED
      BY <2>1, <2>4, <3>1, <3>2 DEF NewsInv, AtEntry, Between
  <2>5. QED
    BY <2>2, <2>3, <2>4
<1>3. CASE Tick \/ Outage \/ Exit \/ Crash \/ \E f \in Filings : Publish(f)
  <2>1. Between'
    BY <1>3 DEF Tick, Outage, NextHalf, Exit, Crash, ProcessGone, Publish, process, Between
  <2>2. QED
    BY <2>1 DEF NewsInv, Between
<1>4. CASE Start
  <2>1. pc' = "source" /\ source' = 1 /\ exit' = -1
    BY <1>4 DEF Start
  <2>2. Passed' = {}
    <3>1. Passed' = 1..1 - 1
      BY <2>1 DEF Passed, AtFeed
    <3>2. QED
      BY <3>1
  <2>3. QED
    BY <2>1, <2>2 DEF NewsInv
<1>5. CASE ListFeed
  <2>1. AtFeed /\ ~IsFiling /\ UNCHANGED <<day, exit, articles>>
    BY <1>5 DEF ListFeed, AtFeed, environment, database
  <2> DEFINE listed == {i \in DOMAIN Paper.items :
                InFeed(i, Feeds[source]) /\ Outcome(Paper.items[i]) # "unlisted"}
             entries == {i \in listed : ~Stored(Item(i))}
  <2>2. \A i \in DOMAIN Paper.items :
            InFeed(i, Feeds[source]) => i \in entries \/ Settled(i)
    BY DEF Settled
  <2>3. IF entries = {} THEN Leave(FALSE)
        ELSE pc' = "article" /\ todo' = entries
             /\ UNCHANGED <<source, plan, failed, results, watermark>>
    BY <1>5 DEF ListFeed
  <2> HIDE DEF entries
  <2>4. CASE entries = {}
    BY <1>1, <2>1, <2>2, <2>3, <2>4, LeaveKeepsNews DEF FeedSettled
  <2>5. CASE entries # {}
    <3>1. \A i \in DOMAIN Paper.items :
            InFeed(i, Feeds[source]) => i \in todo' \/ Settled(i)'
      BY <1>1, <2>1, <2>2, <2>3, <2>5, FeedsStaySettled
    <3>2. QED
      BY <1>1, <2>1, <2>3, <2>5, <3>1, WorkKeepsNews DEF AtEntry
  <2>6. QED
    BY <2>4, <2>5
<1>6. CASE FetchItem
  <2>1. /\ pc = "article" /\ AtFeed /\ AtEntry' /\ ~IsFiling /\ todo # {}
        /\ UNCHANGED <<day, exit, source, results>> /\ todo' = todo \ {Min(todo)}
    BY <1>6 DEF FetchItem, AtFeed, AtEntry, environment
  <2>2. todo \subseteq DOMAIN Paper.items
    BY <1>1, <2>1 DEF WorkInv, AtEntry
  <2>3. Min(todo) \in todo
    BY <1>1, <2>1, <2>2, EditionIsPaper, MinIsMember
  <2>4. PICK i \in DOMAIN Paper.items : i = Min(todo)
    BY <2>2, <2>3
  <2>5. ~failed' => ~failed /\ Settled(i)'
    <3> SUFFICES ASSUME ~failed' PROVE ~failed /\ Settled(i)'
      OBVIOUS
    <3>1. /\ articles' = IF Outcome(Paper.items[i]) \in {"body", "title"}
                         THEN Inserted(Item(i)) ELSE articles
          /\ ~failed /\ Outcome(Paper.items[i]) # "error"
      BY <1>6, <2>4 DEF FetchItem
    <3>2. CASE Outcome(Paper.items[i]) \in {"body", "title"}
      <4>1. articles' = Inserted(Item(i)) /\ edition' = edition /\ disclosures' = disclosures
        BY <1>6, <3>1, <3>2 DEF FetchItem, environment
      <4>2. PICK x \in Things : x = Item(i)
        BY <2>4, ThingsAreNamed
      <4>3. Stored(x)'
        BY <1>1, <4>1, <4>2, InsertedIsStored
      <4>4. Stored(Item(i))'
        BY <4>2, <4>3 DEF Item
      <4>5. QED
        BY <3>1, <4>4 DEF Settled
    <3>3. CASE Outcome(Paper.items[i]) \in {"unlisted", "empty"}
      BY <1>1, <2>1, <3>1, <3>3, FeedsStaySettled DEF Settled
    <3>4. Outcome(Paper.items[i]) \in {"unlisted", "empty", "error", "body", "title"}
      BY <1>1, <2>4, EditionIsPaper, OutcomeIsKnown
    <3>5. QED
      BY <3>1, <3>2, <3>3, <3>4
  <2>6. pc' = "article" /\ ~failed' => \A j \in DOMAIN Paper.items :
            InFeed(j, Feeds[source]) => j \in todo' \/ Settled(j)'
    <3> SUFFICES ASSUME ~failed', NEW j \in DOMAIN Paper.items, InFeed(j, Feeds[source])
                 PROVE  j \in todo' \/ Settled(j)'
      OBVIOUS
    <3>1. CASE j = i
      BY <2>5, <3>1
    <3>2. CASE j # i
      <4>1. j \in todo \/ Settled(j)
        BY <2>1, <2>5 DEF NewsInv
      <4>2. QED
        BY <1>1, <2>1, <2>4, <3>2, <4>1, FeedsStaySettled
    <3>3. QED
      BY <3>1, <3>2
  <2>7. QED
    BY <1>1, <2>1, <2>6, WorkKeepsNews
<1>7. CASE ListFilings
  <2>1. /\ AtFeed /\ AtEntry' /\ pc' # "article" /\ UNCHANGED <<day, exit, source, results>>
    BY <1>7 DEF ListFilings, AtFeed, AtEntry, environment
  <2>2. QED
    BY <1>1, <2>1, WorkKeepsNews
<1>8. CASE SkipFilings \/ ListFails
  <2>1. AtFeed /\ UNCHANGED <<day, exit>>
    BY <1>8 DEF SkipFilings, ListFails, AtFeed, environment
  <2>2. CASE SkipFilings
    <3>1. FeedSettled(source) /\ Leave(FALSE)
      BY <1>1, <2>2, FilingsAreNoNews DEF SkipFilings, FeedSettled
    <3>2. QED
      BY <1>1, <2>1, <3>1, LeaveKeepsNews
  <2>3. CASE ListFails
    BY <1>1, <2>1, <2>3, LeaveKeepsNews DEF ListFails
  <2>4. QED
    BY <1>8, <2>2, <2>3
<1>9. CASE Remember
  <2>1. pc = "remember" /\ AtFeed /\ AtEntry /\ UNCHANGED <<day, exit>>
    BY <1>9 DEF Remember, AtFeed, AtEntry, environment
  <2>2. IsFiling
    BY <1>1, <2>1 DEF WorkInv
  <2>3. CASE failed
    BY <1>1, <1>9, <2>1, <2>3, LeaveKeepsNews DEF Remember
  <2>4. CASE ~failed
    <3>1. pc' = "article" /\ UNCHANGED <<source, results>>
      BY <1>9, <2>4 DEF Remember
    <3>2. QED
      BY <1>1, <2>1, <2>2, <3>1, FilingsAreNoNews, WorkKeepsNews DEF AtEntry
  <2>5. QED
    BY <2>3, <2>4
<1>10. CASE FetchFiling \/ SaveFiling
  <2>1. /\ AtFeed /\ AtEntry /\ AtEntry' /\ UNCHANGED <<day, exit, source, results>>
    BY <1>10 DEF FetchFiling, SaveFiling, AtFeed, AtEntry, environment
  <2>2. IsFiling
    BY <1>1, <1>10, <2>1 DEF WorkInv, FetchFiling, SaveFiling
  <2>3. QED
    BY <1>1, <2>1, <2>2, FilingsAreNoNews, WorkKeepsNews
<1>11. CASE EndOfFeed
  <2>1. pc = "article" /\ AtFeed /\ todo = {} /\ Leave(failed) /\ UNCHANGED <<day, exit>>
    BY <1>11 DEF EndOfFeed, AtFeed, environment
  <2>2. ~failed => FeedSettled(source)
    BY <2>1 DEF NewsInv, FeedSettled
  <2>3. PICK b \in BOOLEAN : b = failed
    BY <1>1 DEF TypeOK
  <2>4. Leave(b)
    BY <2>1, <2>3
  <2>5. QED
    BY <1>1, <2>1, <2>2, <2>3, <2>4, LeaveKeepsNews
<1>12. CASE Watermark
  <2>1. /\ pc = "watermark" /\ pc' \in {"embed", "exit"}
        /\ UNCHANGED <<day, exit, results, articles>>
        /\ watermark' = Max(Pending \cup {0}) /\ (pc' = "exit" => Pending = {})
    BY <1>12 DEF Watermark, environment, database
  <2>2. Passed' = DOMAIN Feeds /\ Passed = DOMAIN Feeds /\ Pending' = Pending
    BY <2>1 DEF Passed, AtFeed, Pending, Feeds
  <2>3. exit' = -1 /\ ~results'.news => \A n \in Passed' : FeedSettled(n)'
    BY <1>1, <2>1, <2>2, FeedsStaySettled DEF NewsInv, Between
  <2>4. exit' = -1
    BY <2>1 DEF NewsInv, Between
  <2>5. \A a \in Pending : a <= watermark'
    BY <1>1, <2>1, LastPending
  <2>6. QED
    BY <2>1, <2>2, <2>3, <2>4, <2>5 DEF NewsInv
<1>13. CASE Embed \/ EmbedFails
  <2>1. pc = "embed" /\ pc' \in {"embed", "exit"} /\ UNCHANGED <<day, exit, watermark>>
    BY <1>13 DEF Embed, EmbedFails, environment
  <2>2. Passed' = DOMAIN Feeds /\ Passed = DOMAIN Feeds
    BY <2>1 DEF Passed, AtFeed, Feeds
  <2>3. exit' = -1 /\ ~Between
    BY <2>1 DEF NewsInv, Between
  <2>4. CASE EmbedFails
    <3>1. results'.news /\ pc' = "exit"
      BY <1>1, <2>4 DEF EmbedFails, TypeOK
    <3>2. QED
      BY <2>3, <3>1 DEF NewsInv
  <2>5. CASE Embed
    <3>1. results' = results /\ (pc' = "exit" <=> Page = {})
          /\ articles' = [a \in DOMAIN articles |->
                IF a \in Page THEN [articles[a] EXCEPT !.status = "completed"] ELSE articles[a]]
      BY <2>1, <2>5 DEF Embed
    <3>2. ~results'.news => \A n \in Passed' : FeedSettled(n)'
      BY <1>1, <2>1, <2>2, <2>3, <3>1, FeedsStaySettled DEF NewsInv
    <3>3. Pending' \subseteq Pending
      <4> SUFFICES ASSUME NEW a \in DOMAIN articles', articles'[a].status = "pending"
                   PROVE  a \in Pending
        BY DEF Pending
      <4>1. a \in DOMAIN articles
        BY <3>1
      <4>2. articles[a] \in Row
        BY <1>1, <4>1, TableIsFunction
      <4>3. a \notin Page
        BY <3>1, <4>1, <4>2 DEF Row
      <4>4. QED
        BY <3>1, <4>1, <4>3 DEF Pending
    <3>4. \A a \in Pending : a <= watermark
      BY <2>1 DEF NewsInv
    <3>5. Page = {} => Pending' = {}
      BY <1>1, <3>3, <3>4, NothingLeft DEF Waiting
    <3>6. QED
      BY <2>1, <2>3, <3>1, <3>2, <3>3, <3>4, <3>5 DEF NewsInv
  <2>6. QED
    BY <1>13, <2>4, <2>5
<1>14. QED
  BY <1>2, <1>3, <1>4, <1>5, <1>6, <1>7, <1>8, <1>9, <1>10, <1>11, <1>12, <1>13 DEF Next, Run

\* An exit code is what the run came to, until the next half or run.
LEMMA ExitIsKept ==
    ASSUME TypeInv, CalendarInv, NewsInv, ExitIsHonest, [Next]_vars
    PROVE  ExitIsHonest'
<1>1. TablesOK
  BY TablesGrow
<1>2. ASSUME UNCHANGED <<day, articles>>, Pending = {}, \A n \in DOMAIN Feeds : FeedSettled(n)
      PROVE  ExitIsHonest'
  <2>1. Pending' = {} /\ Paper' = Paper /\ \A n \in DOMAIN Feeds : FeedSettled(n)'
    BY <1>1, <1>2, FeedsStaySettled DEF Pending
  <2>2. QED
    BY <2>1 DEF ExitIsHonest, FeedSettled, Settled
<1>3. CASE exit' = -1
  BY <1>3 DEF ExitIsHonest
<1>4. CASE Exit
  <2>1. pc = "exit" /\ exit' = ExitCode /\ UNCHANGED <<day, articles>>
    BY <1>4 DEF Exit, environment, database
  <2>2. CASE results.news
    BY <2>1, <2>2 DEF ExitCode, ExitIsHonest
  <2>3. CASE ~results.news
    <3>1. Pending = {} /\ \A n \in DOMAIN Feeds : FeedSettled(n)
      BY <2>1, <2>3 DEF NewsInv, Between, Passed, AtFeed
    <3>2. QED
      BY <1>2, <2>1, <3>1
  <2>4. QED
    BY <2>2, <2>3
<1>5. CASE UNCHANGED <<edition, day, articles, exit>>
  <2>1. CASE exit \in {0, 2}
    <3>1. Pending = {} /\ \A n \in DOMAIN Feeds : FeedSettled(n)
      BY <2>1 DEF ExitIsHonest, FeedSettled, Settled
    <3>2. QED
      BY <1>2, <1>5, <3>1
  <2>2. CASE exit \notin {0, 2}
    BY <1>5, <2>2 DEF ExitIsHonest
  <2>3. QED
    BY <2>1, <2>2
<1>6. exit' = -1 \/ Exit \/ UNCHANGED <<edition, day, articles, exit>>
  <2>1. CASE UNCHANGED vars
    BY <2>1 DEF vars, environment, database
  <2>2. CASE Tick \/ Outage \/ Start
    BY <2>2 DEF Tick, Outage, NextHalf, Start
  <2>3. CASE \E f \in Filings : Publish(f)
    BY <2>3 DEF Publish, database
  <2>4. CASE ListFeed \/ FetchItem \/ ListFilings \/ SkipFilings \/ Remember \/ FetchFiling
             \/ SaveFiling \/ EndOfFeed \/ Watermark \/ Embed \/ ListFails \/ EmbedFails \/ Crash
    <3>1. ~Between
      BY <2>4 DEF ListFeed, FetchItem, ListFilings, SkipFilings, Remember, FetchFiling, SaveFiling,
                  EndOfFeed, Watermark, Embed, ListFails, EmbedFails, Crash, Between
    <3>2. exit' = exit
      BY <2>4 DEF ListFeed, FetchItem, ListFilings, SkipFilings, Remember, FetchFiling, SaveFiling,
                  EndOfFeed, Watermark, Embed, ListFails, EmbedFails, Crash
    <3>3. QED
      BY <3>1, <3>2 DEF NewsInv
  <2>5. QED
    BY <2>1, <2>2, <2>3, <2>4 DEF Next, Run
<1>7. QED
  BY <1>3, <1>4, <1>5, <1>6
-----------------------------------------------------------------------------
(* The fiscal year.                                                        *)

\* The periodic reports of a company that closes its year in a month.
PeriodicReport(closing) ==
    [type : {"A001", "A002", "A003"}, year : Int, month : 1..12, closing : {closing}]

\* From the end of a report's period to the end of its fiscal year.
MonthsLeft(report) == 12 * FiscalYear(report) + report.closing - (12 * report.year + report.month)

\* A report's kind tells how much of its fiscal year is left.
LEMMA KindCountsMonths ==
    ASSUME NEW closing \in 1..12, NEW report \in PeriodicReport(closing), HasAccounts(report)
    PROVE  MonthsLeft(report) = 12 - 3 * Rank(Kind(report))
<1>1. report.year \in Int /\ report.month \in 1..12 /\ report.closing = closing
      /\ report.type \in {"A001", "A002", "A003"}
  BY DEF PeriodicReport
<1>2. Elapsed(report) = IF report.month >= closing THEN report.month - closing
                        ELSE report.month - closing + 12
  BY <1>1 DEF Elapsed
<1>3. MonthsLeft(report) = IF report.month <= closing THEN closing - report.month
                           ELSE closing - report.month + 12
  BY <1>1 DEF MonthsLeft, FiscalYear
<1>4. /\ Kind(report) \in {"q1", "half", "q3", "annual"}
      /\ Kind(report) = "annual" => Elapsed(report) = 0
      /\ Kind(report) = "half" => Elapsed(report) = 6
      /\ Kind(report) = "q1" => Elapsed(report) = 3
      /\ Kind(report) = "q3" => Elapsed(report) = 9
  <2> HIDE DEF Elapsed
  <2>1. QED
    BY <1>1 DEF HasAccounts, Kind
<1>5. /\ Kind(report) = "q1" => Rank(Kind(report)) = 1
      /\ Kind(report) = "half" => Rank(Kind(report)) = 2
      /\ Kind(report) = "q3" => Rank(Kind(report)) = 3
      /\ Kind(report) = "annual" => Rank(Kind(report)) = 4
  BY DEF Rank
<1>6. closing \in Int /\ report.month \in Int
  BY <1>1
<1>7. CASE Kind(report) = "annual"
  <2>1. Elapsed(report) = 0 /\ Rank(Kind(report)) = 4
    BY <1>4, <1>5, <1>7
  <2>2. report.month = closing
    BY <1>1, <1>2, <1>6, <2>1
  <2>3. MonthsLeft(report) = 0
    BY <1>3, <1>6, <2>2
  <2>4. QED
    BY <2>1, <2>3
<1>8. CASE Kind(report) = "half"
  BY <1>1, <1>2, <1>3, <1>4, <1>5, <1>6, <1>8
<1>9. CASE Kind(report) = "q1"
  BY <1>1, <1>2, <1>3, <1>4, <1>5, <1>6, <1>9
<1>10. CASE Kind(report) = "q3"
  BY <1>1, <1>2, <1>3, <1>4, <1>5, <1>6, <1>10
<1>11. QED
  BY <1>4, <1>7, <1>8, <1>9, <1>10

\* Whenever a company closes its year, its reports of one fiscal year follow
\* each other as first quarter, half year, third quarter and year do, though
\* they may end in two calendar years (dart.py 36-61).
THEOREM ReportsFollowEachOther ==
    ASSUME NEW closing \in 1..12,
           NEW a \in PeriodicReport(closing), NEW b \in PeriodicReport(closing)
    PROVE  InOrder(a, b)
<1> SUFFICES ASSUME HasAccounts(a), HasAccounts(b), Period(a).year = Period(b).year
             PROVE  IsBefore(Period(a).end, Period(b).end) <=> Rank(Kind(a)) < Rank(Kind(b))
  BY DEF InOrder
<1>1. /\ a.year \in Int /\ b.year \in Int /\ a.month \in 1..12 /\ b.month \in 1..12
      /\ a.closing = closing /\ b.closing = closing
  BY DEF PeriodicReport
<1>2. /\ Period(a).end = <<a.year, a.month>> /\ Period(b).end = <<b.year, b.month>>
      /\ FiscalYear(a) = FiscalYear(b)
  BY <1>1 DEF Period
<1>3. IsBefore(Period(a).end, Period(b).end)
        <=> a.year < b.year \/ (a.year = b.year /\ a.month < b.month)
  BY <1>2 DEF IsBefore
<1>4. a.year < b.year \/ (a.year = b.year /\ a.month < b.month)
        <=> 12 * a.year + a.month < 12 * b.year + b.month
  BY <1>1
<1>5. FiscalYear(a) \in Int /\ FiscalYear(b) \in Int
  BY <1>1 DEF FiscalYear
<1>6. 12 * a.year + a.month < 12 * b.year + b.month <=> MonthsLeft(a) > MonthsLeft(b)
  BY <1>1, <1>2, <1>5 DEF MonthsLeft
<1>7. MonthsLeft(a) = 12 - 3 * Rank(Kind(a)) /\ MonthsLeft(b) = 12 - 3 * Rank(Kind(b))
  BY KindCountsMonths
<1>8. Rank(Kind(a)) \in Int /\ Rank(Kind(b)) \in Int
  BY DEF Rank
<1>9. QED
  BY <1>3, <1>4, <1>6, <1>7, <1>8

-----------------------------------------------------------------------------
(* The theorems.                                                           *)

\* The service starts with empty tables and no collection.
LEMMA InitIsSound == Init => IInv
<1> SUFFICES ASSUME Init PROVE IInv
  OBVIOUS
<1>1. /\ edition \in DOMAIN Papers /\ day = 1 /\ late = FALSE /\ starts = 0 /\ pc = "idle"
      /\ source = 0 /\ todo = {} /\ plan = NoPlan /\ failed = FALSE /\ watermark = 0
      /\ results = [news |-> FALSE, filings |-> FALSE] /\ articles = <<>>
      /\ disclosures = {} /\ archive = {} /\ exit = -1 /\ faults = 0
      /\ state = [completed |-> FALSE, from |-> Never, through |-> Never,
                  completedFor |-> Never, attemptedFor |-> Never]
      /\ published = [f \in Filings |-> Paper.filings[f].date]
  BY DEF Init
<1>2. Never \in Int /\ Never < 1
  BY DEF Never
<1>3. /\ Paper.last \in Nat \ {0} /\ Paper.faults \in Nat
      /\ \A f \in Filings : Paper.filings[f].date \in Never..1
  <2>1. /\ Papers[edition].last \in Nat \ {0} /\ Papers[edition].faults \in Nat
        /\ \A f \in DOMAIN Papers[edition].filings : Papers[edition].filings[f].date \in Never..1
    BY <1>1, NewsAssumption
  <2>2. QED
    BY <2>1 DEF Paper, Filings
<1>4. \A f \in Filings : published[f] \in Int /\ published[f] \in Never..day
  BY <1>1, <1>2, <1>3
<1>5. articles \in Seq(Row) /\ Len(articles) = 0 /\ DOMAIN articles = {}
  <2>1. articles \in Seq(Row) /\ Len(articles) = 0
    BY <1>1, EmptySeq
  <2>2. DOMAIN articles = 1..0
    BY <2>1, LenProperties
  <2>3. QED
    BY <2>1, <2>2
<1>6. WorldOK
  <2>1. day \in 1..Paper.last /\ starts \in 0..MaxStarts
    BY <1>1, <1>3, NewsAssumption
  <2>2. published \in [Filings -> Int]
    BY <1>1, <1>4
  <2>3. QED
    BY <1>1, <2>1, <2>2 DEF WorldOK
<1>7. ProcessOK
  <2>1. results \in [news : BOOLEAN, filings : BOOLEAN]
    BY <1>1
  <2>2. 0 \in 0..Len(Feeds) /\ 0 \in 0..Len(articles)
    BY <1>5, FeedsAreNumbered
  <2>3. QED
    BY <1>1, <2>1, <2>2 DEF ProcessOK, Steps
<1>8. state \in StateRow
  BY <1>1, <1>2 DEF StateRow
<1>9. StoreOK
  BY <1>1, <1>3, <1>8 DEF StoreOK
<1>10. RowsOK /\ Retriable
  BY <1>5 DEF RowsOK, Retriable
<1>11. WorkInv
  BY <1>1 DEF WorkInv, AtFeed, AtEntry
<1>12. TypeInv
  BY <1>6, <1>7, <1>9, <1>10, <1>11, TypesInParts
<1>13. CalendarInv
  BY <1>1, <1>2, <1>4 DEF CalendarInv
<1>14. ListInv /\ CheckedInv /\ NewsInv /\ ExitIsHonest
  BY <1>1 DEF ListInv, CheckedInv, NewsInv, ExitIsHonest, AtEntry, Between
<1>15. QED
  BY <1>12, <1>13, <1>14 DEF IInv

\* The invariant is inductive.
THEOREM Invariance == Spec => []IInv
<1>1. IInv /\ [Next]_vars => IInv'
  <2> SUFFICES ASSUME IInv, [Next]_vars PROVE IInv'
    OBVIOUS
  <2>1. TypeInv /\ CalendarInv /\ ListInv /\ CheckedInv /\ NewsInv /\ ExitIsHonest
    BY DEF IInv
  <2>2. TypeInv' /\ CalendarInv'
    BY <2>1, TypesAreKept, CalendarIsKept
  <2>3. ListInv' /\ CheckedInv'
    BY <2>1, ListIsKept, CheckedIsKept
  <2>4. NewsInv' /\ ExitIsHonest'
    BY <2>1, NewsIsKept, ExitIsKept
  <2>5. QED
    BY <2>2, <2>3, <2>4 DEF IInv
<1>2. QED
  BY <1>1, InitIsSound, PTL DEF Spec

\* Whatever fails, dies or is cut by the limit, and however many days pass:
\* what the collections are checked through is stored (scrape.py 23-144).
THEOREM CheckedCorrect == Spec => []CheckedMeansStored
<1>1. IInv => CheckedMeansStored
  BY DEF IInv, TypeInv, CheckedInv, CheckedMeansStored
<1>2. QED
  BY <1>1, Invariance, PTL

\* An exit code that asks for no restart leaves nothing undone, for any feeds
\* and any size of a transaction or a batch (__main__.py 42-48).
THEOREM ExitCorrect == Spec => []ExitIsHonest
<1>1. IInv => ExitIsHonest
  BY DEF IInv
<1>2. QED
  BY <1>1, Invariance, PTL

-----------------------------------------------------------------------------
(* Numbers, for the proofs about the clusters.                             *)

\* A set of numbers has a least one.
LEMMA LeastNumber ==
    ASSUME NEW S \in SUBSET Nat, S # {}
    PROVE  \E n \in S : \A m \in S : n <= m
BY MinIsMember

\* What holds of 0, and of n + 1 if it holds of n, holds of every number.
LEMMA NumberInduction ==
    ASSUME NEW P, 0 \in P, \A n \in Nat : n \in P => n + 1 \in P
    PROVE  \A n \in Nat : n \in P
<1> DEFINE Out == {n \in Nat : n \notin P}
<1>1. SUFFICES ASSUME Out # {} PROVE FALSE
  OBVIOUS
<1>2. PICK n \in Out : \A m \in Out : n <= m
  BY <1>1, LeastNumber
<1>3. n # 0 /\ n - 1 \in Nat /\ n - 1 \notin Out
  BY <1>2
<1>4. n - 1 + 1 \in P
  BY <1>3
<1>5. QED
  BY <1>2, <1>4

-----------------------------------------------------------------------------
(* News clusters and their graph.                                          *)

\* Core among the articles of S.
CoreIn(S, a) == Cardinality({b \in S : b = a \/ <<a, b>> \in near}) >= MinSamples

\* What the clusterer knows: what it has loaded, or would load now.
Visible == IF cpc = "idle" THEN embedded ELSE loaded

WorldInv ==
    /\ near \in Nears /\ embedded \subseteq Articles /\ loaded \subseteq embedded
    /\ cpc \in {"idle", "label", "write"}
    /\ bpc \in {"idle", "merge", "find", "cluster", "extract", "write"}

\* Every cluster has an article that is core, and stays so.
StoreInv ==
    /\ nextId \in Nat \ {0}
    /\ assign \in [DOMAIN assign -> DOMAIN clusters] /\ DOMAIN assign \subseteq Visible
    /\ clusters \in [DOMAIN clusters -> Nat \ {0}] /\ DOMAIN clusters \subseteq 1..(nextId - 1)
    /\ \A c \in DOMAIN clusters : \E a \in Members(c) : CoreIn(Visible, a)

\* What an article that is not on the stack any more has done for its neighbours.
ExpandedInv ==
    \A a \in loaded \ frontier : Core(a) /\ labels[a] # Noise => \A b \in Neighbours(a) : labels[b] # Noise

NeighboursInv ==
    \A a \in loaded : \A b \in Neighbours(a) :
        Core(a) /\ Core(b) /\ labels[a] # Noise /\ labels[b] # Noise => labels[a] = labels[b]

ConnectedInv ==
    \A a, b \in loaded :
        Core(a) /\ Core(b) /\ labels[a] # Noise /\ labels[a] = labels[b] => Connected(a, b)

BorderInv ==
    \A a \in loaded : labels[a] # Noise /\ ~Core(a) => \E b \in Neighbours(a) : Core(b) /\ labels[b] = labels[a]

LabelInv ==
    /\ found \in Nat /\ labels \in [loaded -> Labels \cup {Noise}] /\ frontier \subseteq loaded
    /\ \A a \in frontier : Core(a) /\ found > 0 /\ labels[a] = found - 1
    /\ \A l \in Labels : \E a \in loaded : Core(a) /\ labels[a] = l
    /\ cpc = "idle" => loaded = {} /\ frontier = {} /\ found = 0
    /\ cpc = "write" => frontier = {} /\ Seeds = {}

\* A summary is not newer than its cluster, and of its articles if not older.
SummaryInv ==
    /\ DOMAIN summaries \subseteq DOMAIN clusters
    /\ \A c \in DOMAIN summaries :
        /\ summaries[c].at \in Nat /\ summaries[c].at <= clusters[c]
        /\ summaries[c].at = clusters[c] => summaries[c].of = Members(c)

GraphInv ==
    /\ DOMAIN graph = DOMAIN summaries /\ DOMAIN relations = DOMAIN summaries
    /\ merged \subseteq aliases /\ entities \subseteq Entity
    /\ \A c \in DOMAIN graph : graph[c] \subseteq entities
    /\ \A c \in DOMAIN graph : \A r \in relations[c] : {r[1], r[2]} \subseteq graph[c]
    /\ \A e \in entities : e.kind = "plain" => e.name \notin merged

\* What the builder works on has been a cluster; while its version is the one
\* that was found stale, its articles are those that were read.
BuilderInv ==
    /\ waiting \in [DOMAIN waiting -> Nat \ {0}] /\ DOMAIN waiting \subseteq 1..(nextId - 1)
    /\ \A c \in DOMAIN waiting \cap DOMAIN clusters : waiting[c] <= clusters[c]
    /\ read \subseteq Articles
    /\ bpc \in {"extract", "write"} => DOMAIN waiting # {} /\ (Unchanged => read = Members(Current))
    /\ bpc = "write" => extraction.names \subseteq Names

LabelsInv == LabelInv /\ ExpandedInv /\ NeighboursInv /\ ConnectedInv /\ BorderInv

ClusterInv == WorldInv /\ StoreInv /\ LabelsInv /\ SummaryInv /\ GraphInv /\ BuilderInv

LEMMA WorldIsFinite ==
    ASSUME WorldInv
    PROVE  /\ IsFiniteSet(embedded) /\ IsFiniteSet(loaded) /\ IsFiniteSet(Visible)
           /\ embedded \subseteq Nat /\ loaded \subseteq Nat /\ Visible \subseteq embedded
BY ClusterAssumption, FS_Subset DEF WorldInv, Visible

LEMMA NeighboursAreMutual ==
    ASSUME WorldInv
    PROVE  /\ \A a \in loaded : a \in Neighbours(a)
           /\ \A a \in loaded : Neighbours(a) \subseteq loaded
           /\ \A a \in loaded : \A b \in Neighbours(a) : a \in Neighbours(b)
<1>1. near \in Nears /\ loaded \subseteq Articles
  BY DEF WorldInv
<1>2. \A a, b \in loaded : <<a, b>> \in near => <<b, a>> \in near
  BY <1>1, ClusterAssumption
<1>3. QED
  BY <1>2 DEF Neighbours

\* Articles that are added take no neighbour away.
LEMMA CoreStays ==
    ASSUME NEW S, NEW T, S \subseteq T, IsFiniteSet(T), NEW a, CoreIn(S, a)
    PROVE  CoreIn(T, a)
<1> DEFINE s == {b \in S : b = a \/ <<a, b>> \in near}
           t == {b \in T : b = a \/ <<a, b>> \in near}
<1>1. IsFiniteSet(t) /\ s \subseteq t
  BY FS_Subset
<1>2. Cardinality(s) \in Nat /\ Cardinality(t) \in Nat /\ Cardinality(s) <= Cardinality(t)
  BY <1>1, FS_Subset, FS_CardinalityType
<1>3. Cardinality(s) >= MinSamples
  BY DEF CoreIn
<1>4. Cardinality(t) >= MinSamples
  <2> HIDE DEF s, t
  <2>1. QED
    BY <1>2, <1>3, ClusterAssumption
<1>5. QED
  BY <1>4 DEF CoreIn

LEMMA SameArticles ==
    ASSUME UNCHANGED <<near, loaded>>
    PROVE  /\ \A a : Neighbours(a)' = Neighbours(a)
           /\ \A a : Core(a)' <=> Core(a)
           /\ \A a, b : Connected(a, b)' <=> Connected(a, b)
<1>1. \A a : Neighbours(a)' = Neighbours(a)
  BY DEF Neighbours
<1>2. \A a : Core(a)' <=> Core(a)
  BY <1>1 DEF Core
<1>3. \A a, b : Connected(a, b)' <=> Connected(a, b)
  BY <1>1, <1>2 DEF Connected
<1>4. QED
  BY <1>1, <1>2, <1>3

-----------------------------------------------------------------------------
(* The labels.                                                             *)

LEMMA LabelsKept ==
    ASSUME LabelsInv, UNCHANGED <<near, clusterer>>
    PROVE  LabelsInv'
<1>1. UNCHANGED <<near, cpc, loaded, labels, frontier, found>>
  BY DEF clusterer
<1>2. /\ \A a : Neighbours(a)' = Neighbours(a)
      /\ \A a : Core(a)' <=> Core(a)
      /\ \A a, b : Connected(a, b)' <=> Connected(a, b)
  BY <1>1, SameArticles
<1>3. Labels' = Labels /\ Seeds' = Seeds
  BY <1>1, <1>2 DEF Labels, Seeds
<1>4. LabelInv'
  BY <1>1, <1>2, <1>3 DEF LabelsInv, LabelInv
<1>5. ExpandedInv'
  BY <1>1, <1>2 DEF LabelsInv, ExpandedInv
<1>6. NeighboursInv'
  BY <1>1, <1>2 DEF LabelsInv, NeighboursInv
<1>7. ConnectedInv'
  BY <1>1, <1>2 DEF LabelsInv, ConnectedInv
<1>8. BorderInv'
  BY <1>1, <1>2 DEF LabelsInv, BorderInv
<1>9. QED
  BY <1>4, <1>5, <1>6, <1>7, <1>8 DEF LabelsInv

\* Nothing is labelled.
LEMMA NoLabels ==
    ASSUME found' = 0, labels' = [a \in loaded' |-> Noise], frontier' = {}, cpc' = "label"
    PROVE  LabelsInv'
<1>1. Labels' = {}
  BY DEF Labels
<1>2. LabelInv'
  BY <1>1 DEF LabelInv, Noise
<1>3. \A a \in loaded' : labels'[a] = Noise
  OBVIOUS
<1>4. ExpandedInv' /\ NeighboursInv' /\ ConnectedInv' /\ BorderInv'
  BY <1>3 DEF ExpandedInv, NeighboursInv, ConnectedInv, BorderInv
<1>5. QED
  BY <1>2, <1>4 DEF LabelsInv

LEMMA ConnectedSteps ==
    ASSUME WorldInv
    PROVE  /\ \A a \in loaded : Connected(a, a)
           /\ \A a, b, c \in loaded : Connected(a, b) /\ Connected(b, c) => Connected(a, c)
           /\ \A a, b \in loaded : b \in Neighbours(a) /\ Core(b) => Connected(a, b)
BY DEF Connected

LEMMA SeedKeepsLabels ==
    ASSUME ClusterInv, Seed
    PROVE  LabelsInv'
<1> DEFINE s == Min(Seeds)
<1>1. /\ cpc = "label" /\ frontier = {} /\ Seeds # {} /\ cpc' = cpc /\ loaded' = loaded /\ near' = near
      /\ labels' = [labels EXCEPT ![s] = found] /\ frontier' = {s} /\ found' = found + 1
  BY DEF Seed
<1>2. s \in Seeds
  BY WorldIsFinite, MinIsMember, <1>1 DEF ClusterInv, Seeds
<1>3. s \in loaded /\ Core(s) /\ labels[s] = Noise
  BY <1>2 DEF Seeds
<1> HIDE DEF s
<1>4. /\ \A a : Neighbours(a)' = Neighbours(a)
      /\ \A a : Core(a)' <=> Core(a)
      /\ \A a, b : Connected(a, b)' <=> Connected(a, b)
  BY <1>1, SameArticles
<1>5. /\ found \in Nat /\ labels \in [loaded -> Labels \cup {Noise}]
      /\ \A l \in Labels : \E a \in loaded : Core(a) /\ labels[a] = l
  BY DEF ClusterInv, LabelsInv, LabelInv
<1>6. Labels = 0..(found - 1) /\ Labels' = 0..found /\ Noise = -1
  BY <1>1, <1>5 DEF Labels, Noise
<1>7. /\ labels'[s] = found /\ \A a \in loaded : a # s => labels'[a] = labels[a]
      /\ \A a \in loaded : labels[a] # found /\ found # Noise
  BY <1>1, <1>3, <1>5, <1>6
<1>8. WorldInv
  BY DEF ClusterInv
<1>9. \A b \in Neighbours(s) : Core(b) => labels[b] = Noise
  BY <1>1, <1>3, <1>8, NeighboursAreMutual DEF ClusterInv, LabelsInv, ExpandedInv
<1>10. LabelInv'
  <2>1. labels' \in [loaded -> Labels' \cup {Noise}]
    BY <1>1, <1>3, <1>5, <1>6
  <2>2. \A l \in Labels' : \E a \in loaded : Core(a) /\ labels'[a] = l
    <3>1. \A l \in Labels' : l = found \/ l \in Labels
      BY <1>5, <1>6
    <3>2. \A l \in Labels : \E a \in loaded : Core(a) /\ labels'[a] = l
      BY <1>3, <1>5, <1>6, <1>7
    <3>3. QED
      BY <3>1, <3>2, <1>3, <1>7
  <2>3. found' - 1 = found
    BY <1>1, <1>5
  <2>4. QED
    BY <1>1, <1>3, <1>4, <1>5, <1>7, <2>1, <2>2, <2>3 DEF LabelInv
<1>11. ExpandedInv'
  <2>1. \A a \in loaded : Core(a) /\ labels[a] # Noise => \A b \in Neighbours(a) : labels[b] # Noise
    BY <1>1 DEF ClusterInv, LabelsInv, ExpandedInv
  <2>2. \A a \in loaded \ {s} : Core(a) /\ labels'[a] # Noise => \A b \in Neighbours(a) : labels'[b] # Noise
    BY <2>1, <1>7, <1>8, NeighboursAreMutual
  <2>3. QED
    BY <2>2, <1>1, <1>4 DEF ExpandedInv
<1>12. NeighboursInv'
  <2>1. \A a \in loaded : \A b \in Neighbours(a) :
          Core(a) /\ Core(b) /\ labels'[a] # Noise /\ labels'[b] # Noise => labels'[a] = labels'[b]
    <3>1. SUFFICES ASSUME NEW a \in loaded, NEW b \in Neighbours(a), Core(a), Core(b),
                          labels'[a] # Noise, labels'[b] # Noise
                   PROVE  labels'[a] = labels'[b]
      OBVIOUS
    <3>2. b \in loaded /\ a \in Neighbours(b)
      BY <1>8, NeighboursAreMutual
    <3>3. CASE a # s /\ b # s
      BY <3>1, <3>2, <3>3, <1>7 DEF ClusterInv, LabelsInv, NeighboursInv
    <3>4. CASE a = s \/ b = s
      BY <3>1, <3>2, <3>4, <1>7, <1>9
    <3>5. QED
      BY <3>3, <3>4
  <2>2. QED
    BY <2>1, <1>1, <1>4 DEF NeighboursInv
<1>13. ConnectedInv'
  <2>1. \A a, b \in loaded : Core(a) /\ Core(b) /\ labels'[a] # Noise /\ labels'[a] = labels'[b] => Connected(a, b)
    BY <1>3, <1>7, <1>8, ConnectedSteps DEF ClusterInv, LabelsInv, ConnectedInv
  <2>2. QED
    BY <2>1, <1>1, <1>4 DEF ConnectedInv
<1>14. BorderInv'
  <2>1. \A a \in loaded : labels'[a] # Noise /\ ~Core(a) => \E b \in Neighbours(a) : Core(b) /\ labels'[b] = labels'[a]
    BY <1>3, <1>7, <1>8, NeighboursAreMutual DEF ClusterInv, LabelsInv, BorderInv
  <2>2. QED
    BY <2>1, <1>1, <1>4 DEF BorderInv
<1>15. QED
  BY <1>10, <1>11, <1>12, <1>13, <1>14 DEF LabelsInv

LEMMA ExpandKeepsLabels ==
    ASSUME ClusterInv, Expand
    PROVE  LabelsInv'
<1>1. PICK a \in frontier :
        /\ labels' = [b \in loaded |-> IF b \in {c \in Neighbours(a) : labels[c] = Noise} THEN found - 1 ELSE labels[b]]
        /\ frontier' = (frontier \ {a}) \cup Pushed({c \in Neighbours(a) : labels[c] = Noise})
  BY DEF Expand
<1>2. PICK new : new = {c \in Neighbours(a) : labels[c] = Noise}
  OBVIOUS
<1>3. PICK L : L = found - 1
  OBVIOUS
<1>4. /\ cpc = "label" /\ cpc' = cpc /\ loaded' = loaded /\ near' = near /\ found' = found
      /\ labels' = [b \in loaded |-> IF b \in new THEN L ELSE labels[b]]
      /\ frontier' = (frontier \ {a}) \cup {b \in new : Core(b)}
  BY <1>1, <1>2, <1>3 DEF Expand, Pushed
<1>5. /\ \A b : Neighbours(b)' = Neighbours(b)
      /\ \A b : Core(b)' <=> Core(b)
      /\ \A b, c : Connected(b, c)' <=> Connected(b, c)
  BY <1>4, SameArticles
<1>6. /\ found \in Nat /\ labels \in [loaded -> Labels \cup {Noise}] /\ frontier \subseteq loaded
      /\ \A b \in frontier : Core(b) /\ found > 0 /\ labels[b] = L
      /\ \A l \in Labels : \E b \in loaded : Core(b) /\ labels[b] = l
  BY <1>3 DEF ClusterInv, LabelsInv, LabelInv
<1>7. a \in loaded /\ Core(a) /\ labels[a] = L
  BY <1>6
<1>8. WorldInv
  BY DEF ClusterInv
<1>9. /\ Neighbours(a) \subseteq loaded /\ a \in Neighbours(a) /\ new \subseteq loaded
      /\ \A b \in loaded : b \in Neighbours(b) /\ Neighbours(b) \subseteq loaded
      /\ \A b \in loaded : \A c \in Neighbours(b) : b \in Neighbours(c)
  BY <1>2, <1>7, <1>8, NeighboursAreMutual
<1>10. L \in Labels /\ L # Noise /\ Labels' = Labels
  <2>1. found # 0
    BY <1>1, <1>6
  <2>2. QED
    BY <2>1, <1>3, <1>4, <1>6 DEF Labels, Noise
<1>11. /\ \A b \in new : labels[b] = Noise /\ labels'[b] = L
       /\ \A b \in loaded \ new : labels'[b] = labels[b]
       /\ \A b \in Neighbours(a) : labels'[b] # Noise
       /\ \A b \in loaded : labels[b] # Noise => b \notin new /\ labels'[b] = labels[b]
  BY <1>2, <1>4, <1>9, <1>10
<1>12. labels'[a] = L /\ a \notin new
  BY <1>7, <1>10, <1>11
<1>13. LabelInv'
  <2>1. labels' \in [loaded -> Labels \cup {Noise}]
    BY <1>4, <1>6, <1>10
  <2>2. \A l \in Labels : \E b \in loaded : Core(b) /\ labels'[b] = l
    BY <1>6, <1>11 DEF Labels, Noise
  <2>3. \A b \in frontier' : b \in loaded /\ Core(b) /\ labels'[b] = L
    BY <1>4, <1>6, <1>9, <1>10, <1>11
  <2>4. QED
    BY <1>3, <1>4, <1>5, <1>6, <1>10, <2>1, <2>2, <2>3 DEF LabelInv
<1>14. ExpandedInv'
  <2>1. \A b \in loaded \ frontier' : Core(b) /\ labels'[b] # Noise => \A c \in Neighbours(b) : labels'[c] # Noise
    <3>1. SUFFICES ASSUME NEW b \in loaded \ frontier', Core(b), labels'[b] # Noise, NEW c \in Neighbours(b)
                   PROVE  labels'[c] # Noise
      OBVIOUS
    <3>2. CASE b = a
      BY <3>2, <1>11
    <3>3. CASE b # a
      <4>1. b \notin new /\ b \notin frontier /\ labels[b] # Noise
        BY <3>1, <3>3, <1>4, <1>11
      <4>2. labels[c] # Noise /\ c \in loaded
        BY <3>1, <4>1, <1>9 DEF ClusterInv, LabelsInv, ExpandedInv
      <4>3. QED
        BY <4>2, <1>11
    <3>4. QED
      BY <3>2, <3>3
  <2>2. QED
    BY <2>1, <1>4, <1>5 DEF ExpandedInv
<1>15. NeighboursInv'
  <2>1. \A b \in loaded : \A c \in Neighbours(b) :
          Core(b) /\ Core(c) /\ b \in new /\ c \notin new /\ labels'[c] # Noise => labels'[b] = labels'[c]
    <3>1. SUFFICES ASSUME NEW b \in loaded, NEW c \in Neighbours(b), Core(b), Core(c),
                          b \in new, c \notin new, labels'[c] # Noise
                   PROVE  labels'[b] = labels'[c]
      OBVIOUS
    <3>2. c \in loaded /\ b \in Neighbours(c) /\ labels[c] # Noise /\ labels[b] = Noise
      BY <3>1, <1>9, <1>11
    <3>3. c \in frontier
      BY <3>1, <3>2 DEF ClusterInv, LabelsInv, ExpandedInv
    <3>4. QED
      BY <3>1, <3>2, <3>3, <1>6, <1>11
  <2>2. \A b \in loaded : \A c \in Neighbours(b) :
          Core(b) /\ Core(c) /\ labels'[b] # Noise /\ labels'[c] # Noise => labels'[b] = labels'[c]
    <3>1. SUFFICES ASSUME NEW b \in loaded, NEW c \in Neighbours(b), Core(b), Core(c),
                          labels'[b] # Noise, labels'[c] # Noise
                   PROVE  labels'[b] = labels'[c]
      OBVIOUS
    <3>2. c \in loaded /\ b \in Neighbours(c)
      BY <1>9
    <3>3. CASE b \in new /\ c \in new
      BY <3>3, <1>11
    <3>4. CASE b \in new /\ c \notin new
      BY <3>1, <3>4, <2>1
    <3>5. CASE b \notin new /\ c \in new
      BY <3>1, <3>2, <3>5, <2>1
    <3>6. CASE b \notin new /\ c \notin new
      BY <3>1, <3>2, <3>6, <1>11 DEF ClusterInv, LabelsInv, NeighboursInv
    <3>7. QED
      BY <3>3, <3>4, <3>5, <3>6
  <2>3. QED
    BY <2>2, <1>4, <1>5 DEF NeighboursInv
<1>16. ConnectedInv'
  <2>1. \A b, c \in loaded : Core(b) /\ Core(c) /\ labels[b] # Noise /\ labels[b] = labels[c] => Connected(b, c)
    BY DEF ClusterInv, LabelsInv, ConnectedInv
  <2>2. \A b \in loaded : Core(b) /\ labels'[b] = L => Connected(a, b) /\ Connected(b, a)
    <3>1. SUFFICES ASSUME NEW b \in loaded, Core(b), labels'[b] = L
                   PROVE  Connected(a, b) /\ Connected(b, a)
      OBVIOUS
    <3>2. CASE b \in new
      <4>1. b \in Neighbours(a) /\ a \in Neighbours(b)
        BY <3>2, <1>2, <1>7, <1>9
      <4>2. QED
        BY <4>1, <3>1, <1>7, <1>8, ConnectedSteps
    <3>3. CASE b \notin new
      BY <3>1, <3>3, <1>7, <1>10, <1>11, <2>1
    <3>4. QED
      BY <3>2, <3>3
  <2>3. \A b, c \in loaded : Core(b) /\ Core(c) /\ labels'[b] # Noise /\ labels'[b] = labels'[c] => Connected(b, c)
    <3>1. SUFFICES ASSUME NEW b \in loaded, NEW c \in loaded, Core(b), Core(c),
                          labels'[b] # Noise, labels'[b] = labels'[c]
                   PROVE  Connected(b, c)
      OBVIOUS
    <3>2. CASE labels'[b] = L
      BY <3>1, <3>2, <2>2, <1>7, <1>8, ConnectedSteps
    <3>3. CASE labels'[b] # L
      BY <3>1, <3>3, <2>1, <1>11
    <3>4. QED
      BY <3>2, <3>3
  <2>4. QED
    BY <2>3, <1>4, <1>5 DEF ConnectedInv
<1>17. BorderInv'
  <2>1. \A b \in loaded : labels'[b] # Noise /\ ~Core(b) => \E c \in Neighbours(b) : Core(c) /\ labels'[c] = labels'[b]
    <3>1. SUFFICES ASSUME NEW b \in loaded, labels'[b] # Noise, ~Core(b)
                   PROVE  \E c \in Neighbours(b) : Core(c) /\ labels'[c] = labels'[b]
      OBVIOUS
    <3>2. CASE b \in new
      <4>1. a \in Neighbours(b)
        BY <3>2, <1>2, <1>7, <1>9
      <4>2. QED
        BY <4>1, <3>2, <1>7, <1>11, <1>12
    <3>3. CASE b \notin new
      <4>1. labels[b] # Noise /\ labels'[b] = labels[b]
        BY <3>1, <3>3, <1>11
      <4>2. PICK c \in Neighbours(b) : Core(c) /\ labels[c] = labels[b]
        BY <4>1, <3>1 DEF ClusterInv, LabelsInv, BorderInv
      <4>3. QED
        BY <4>1, <4>2, <1>9, <1>11
    <3>4. QED
      BY <3>2, <3>3
  <2>2. QED
    BY <2>1, <1>4, <1>5 DEF BorderInv
<1>18. QED
  BY <1>13, <1>14, <1>15, <1>16, <1>17 DEF LabelsInv

LEMMA LabelledKeepsLabels ==
    ASSUME ClusterInv, Labelled
    PROVE  LabelsInv'
<1>1. /\ frontier = {} /\ Seeds = {} /\ cpc' = "write"
      /\ UNCHANGED <<near, loaded, labels, frontier, found>>
  BY DEF Labelled
<1>2. /\ \A a : Neighbours(a)' = Neighbours(a)
      /\ \A a : Core(a)' <=> Core(a)
      /\ \A a, b : Connected(a, b)' <=> Connected(a, b)
  BY <1>1, SameArticles
<1>3. Labels' = Labels /\ Seeds' = Seeds
  BY <1>1, <1>2 DEF Labels, Seeds
<1>4. LabelInv'
  BY <1>1, <1>2, <1>3 DEF ClusterInv, LabelsInv, LabelInv
<1>5. ExpandedInv'
  BY <1>1, <1>2 DEF ClusterInv, LabelsInv, ExpandedInv
<1>6. NeighboursInv'
  BY <1>1, <1>2 DEF ClusterInv, LabelsInv, NeighboursInv
<1>7. ConnectedInv'
  BY <1>1, <1>2 DEF ClusterInv, LabelsInv, ConnectedInv
<1>8. BorderInv'
  BY <1>1, <1>2 DEF ClusterInv, LabelsInv, BorderInv
<1>9. QED
  BY <1>4, <1>5, <1>6, <1>7, <1>8 DEF LabelsInv

LEMMA WriteKeepsLabels ==
    ASSUME ClusterInv, Write
    PROVE  LabelsInv'
<1>1. cpc' = "idle" /\ loaded' = {} /\ labels' = <<>> /\ found' = 0 /\ frontier' = {}
  BY DEF Write, ClusterInv, LabelsInv, LabelInv
<1>2. Labels' = {}
  BY <1>1 DEF Labels
<1>3. LabelInv'
  BY <1>1, <1>2 DEF LabelInv
<1>4. ExpandedInv' /\ NeighboursInv' /\ ConnectedInv' /\ BorderInv'
  BY <1>1 DEF ExpandedInv, NeighboursInv, ConnectedInv, BorderInv
<1>5. QED
  BY <1>3, <1>4 DEF LabelsInv

\* When the labels are complete they are those of DBSCAN.
LEMMA CompleteLabels ==
    ASSUME ClusterInv
    PROVE  LabelsAreDense
<1>1. SUFFICES ASSUME cpc = "write"
               PROVE  \A a \in loaded :
                        LET cores == {b \in Neighbours(a) : Core(b)} IN
                        /\ Core(a) => \A b \in loaded : Core(b) => (labels[a] = labels[b] <=> Connected(a, b))
                        /\ IF cores = {} THEN labels[a] = Noise
                           ELSE labels[a] # Noise /\ \E b \in cores : labels[a] = labels[b]
  BY DEF LabelsAreDense
<1>2. WorldInv /\ frontier = {} /\ Seeds = {}
  BY <1>1 DEF ClusterInv, LabelsInv, LabelInv
<1>3. \A a \in loaded : Core(a) => labels[a] # Noise
  BY <1>2 DEF Seeds
<1>4. /\ \A a \in loaded : a \in Neighbours(a) /\ Neighbours(a) \subseteq loaded
      /\ \A a \in loaded : \A b \in Neighbours(a) : a \in Neighbours(b)
  BY <1>2, NeighboursAreMutual
<1>5. ASSUME NEW a \in loaded, Core(a), NEW b \in loaded, Core(b)
      PROVE  labels[a] = labels[b] <=> Connected(a, b)
  <2>1. labels[a] = labels[b] => Connected(a, b)
    BY <1>3, <1>5 DEF ClusterInv, LabelsInv, ConnectedInv
  <2>2. ASSUME Connected(a, b) PROVE labels[a] = labels[b]
    <3>1. PICK S : S = {c \in loaded : Core(c) /\ labels[c] = labels[a]}
      OBVIOUS
    <3>2. S \in SUBSET {c \in loaded : Core(c)} /\ a \in S
      BY <3>1, <1>5
    <3>3. \A c \in S : \A d \in Neighbours(c) : Core(d) => d \in S
      BY <3>1, <1>3, <1>4 DEF ClusterInv, LabelsInv, NeighboursInv
    <3>4. b \in S
      BY <2>2, <3>2, <3>3 DEF Connected
    <3>5. QED
      BY <3>1, <3>4
  <2>3. QED
    BY <2>1, <2>2
<1>6. ASSUME NEW a \in loaded
      PROVE  LET cores == {b \in Neighbours(a) : Core(b)} IN
             IF cores = {} THEN labels[a] = Noise
             ELSE labels[a] # Noise /\ \E b \in cores : labels[a] = labels[b]
  <2>1. ASSUME labels[a] # Noise
        PROVE  \E b \in Neighbours(a) : Core(b) /\ labels[a] = labels[b]
    BY <2>1, <1>4 DEF ClusterInv, LabelsInv, BorderInv
  <2>2. ASSUME NEW b \in Neighbours(a), Core(b)
        PROVE  labels[a] # Noise
    BY <2>2, <1>2, <1>3, <1>4 DEF ClusterInv, LabelsInv, ExpandedInv
  <2>3. QED
    BY <2>1, <2>2
<1>7. QED
  BY <1>5, <1>6

-----------------------------------------------------------------------------
(* The matching.                                                           *)

\* When match runs every label has articles of its own, one of them core, and
\* the overlaps are finitely many pairs of numbers.
LEMMA AtWrite ==
    ASSUME ClusterInv, cpc = "write"
    PROVE  /\ Labels \subseteq Nat /\ IsFiniteSet(Labels) /\ Noise \notin Labels
           /\ \A l \in Labels : Group(l) \subseteq loaded /\ Group(l) # {} /\ Min(Group(l)) \in Group(l)
           /\ \A l \in Labels : \E a \in Group(l) : CoreIn(loaded, a)
           /\ \A l, k \in Labels : l # k => Group(l) \cap Group(k) = {}
           /\ \A a \in loaded : labels[a] # Noise => labels[a] \in Labels /\ a \in Group(labels[a])
<1>1. /\ found \in Nat /\ labels \in [loaded -> Labels \cup {Noise}]
      /\ \A l \in Labels : \E a \in loaded : Core(a) /\ labels[a] = l
  BY DEF ClusterInv, LabelsInv, LabelInv
<1>2. Labels \subseteq Nat /\ IsFiniteSet(Labels) /\ Noise \notin Labels
  BY <1>1, FS_Interval DEF Labels, Noise
<1>3. \A l \in Labels : \E a \in Group(l) : CoreIn(loaded, a)
  BY <1>1 DEF Group, CoreIn, Core, Neighbours
<1>4. loaded \subseteq Nat
  BY WorldIsFinite DEF ClusterInv
<1>5. ASSUME NEW l \in Labels
      PROVE  Group(l) \subseteq loaded /\ Group(l) # {} /\ Min(Group(l)) \in Group(l)
  <2>1. Group(l) \subseteq loaded /\ Group(l) # {}
    BY <1>3 DEF Group
  <2>2. QED
    BY <2>1, <1>4, MinIsMember
<1>6. /\ \A l, k \in Labels : l # k => Group(l) \cap Group(k) = {}
      /\ \A a \in loaded : labels[a] # Noise => labels[a] \in Labels /\ a \in Group(labels[a])
  BY <1>1 DEF Group
<1>7. QED
  BY <1>2, <1>3, <1>5, <1>6

LEMMA OverlapsAreFinite ==
    ASSUME ClusterInv, cpc = "write"
    PROVE  /\ IsFiniteSet(Overlaps) /\ Overlaps \subseteq Nat \X Nat
           /\ \A p \in Overlaps : p[1] \in Labels /\ p[2] \in DOMAIN clusters /\ p = <<p[1], p[2]>>
           /\ \A l \in Labels : \A c :
                /\ Shared(l, c) \in Nat /\ Shared(l, c) <= Cardinality(loaded)
                /\ Shared(l, c) > 0 <=> Group(l) \cap Members(c) # {}
<1>1. Labels \subseteq Nat /\ IsFiniteSet(Labels)
  BY AtWrite
<1>2. DOMAIN clusters \subseteq 1..(nextId - 1) /\ nextId \in Nat
  BY DEF ClusterInv, StoreInv
<1>3. IsFiniteSet(DOMAIN clusters) /\ DOMAIN clusters \subseteq Nat
  <2>1. IsFiniteSet(1..(nextId - 1))
    BY <1>2, FS_Interval
  <2>2. QED
    BY <2>1, <1>2, FS_Subset
<1>4. IsFiniteSet(Labels \X DOMAIN clusters)
  BY <1>1, <1>3, FS_Product
<1>5. Overlaps \subseteq Labels \X DOMAIN clusters
  BY DEF Overlaps
<1>6. IsFiniteSet(Overlaps)
  BY <1>4, <1>5, FS_Subset
<1>7. ASSUME NEW l \in Labels, NEW c
      PROVE  /\ Shared(l, c) \in Nat /\ Shared(l, c) <= Cardinality(loaded)
             /\ Shared(l, c) > 0 <=> Group(l) \cap Members(c) # {}
  <2>1. PICK s : s = Group(l) \cap Members(c)
    OBVIOUS
  <2>2. IsFiniteSet(loaded) /\ s \in SUBSET loaded
    BY <2>1, WorldIsFinite DEF ClusterInv, Group
  <2>3. IsFiniteSet(s) /\ Cardinality(s) \in Nat /\ Cardinality(s) <= Cardinality(loaded)
        /\ (Cardinality(s) = 0 <=> s = {})
    BY <2>2, FS_Subset, FS_CardinalityType, FS_EmptySet
  <2>4. Shared(l, c) = Cardinality(s)
    BY <2>1 DEF Shared
  <2>5. QED
    BY <2>1, <2>3, <2>4
<1>8. \A p \in Overlaps : p[1] \in Labels /\ p[2] \in DOMAIN clusters /\ p = <<p[1], p[2]>>
  BY <1>5
<1>9. Overlaps \subseteq Nat \X Nat
  BY <1>1, <1>3, <1>5
<1>10. QED
  BY <1>6, <1>7, <1>8, <1>9

\* The pair match takes first, and the pairs it leaves.
First(S) == CHOOSE p \in S : \A q \in S \ {p} : Preferred(p, q)
Left(S) == {q \in S : q[1] # First(S)[1] /\ q[2] # First(S)[2]}

\* pick is the recursion of Matching.
Picks(pick) == pick = [S \in SUBSET Overlaps |-> IF S = {} THEN {} ELSE {First(S)} \cup pick[Left(S)]]

\* Of any pairs one is preferred to all others.
LEMMA FirstIsPreferred ==
    ASSUME ClusterInv, cpc = "write", NEW S \in SUBSET Overlaps, S # {}
    PROVE  First(S) \in S /\ \A q \in S \ {First(S)} : Preferred(First(S), q)
<1> DEFINE N == Cardinality(loaded)
           W(p) == Shared(p[1], p[2])
<1>1. N \in Nat
  BY WorldIsFinite, FS_CardinalityType DEF ClusterInv
<1>2. \A p \in S : W(p) \in Nat /\ W(p) <= N /\ p[1] \in Nat /\ p[2] \in Nat /\ p = <<p[1], p[2]>>
  BY OverlapsAreFinite, AtWrite
<1>3. PICK A : A = {N - W(p) : p \in S}
  OBVIOUS
<1>4. A \in SUBSET Nat /\ A # {}
  <2> HIDE DEF N, W
  <2>1. QED
    BY <1>1, <1>2, <1>3
<1>5. PICK x \in A : \A y \in A : x <= y
  BY <1>4, LeastNumber
<1>6. PICK B : B = {p \in S : N - W(p) = x}
  OBVIOUS
<1>7. B # {} /\ B \subseteq S
  BY <1>3, <1>6
<1>8. \A p \in B : \A q \in S : W(p) >= W(q) /\ (q \notin B => W(p) > W(q))
  <2>1. SUFFICES ASSUME NEW p \in B, NEW q \in S PROVE W(p) >= W(q) /\ (q \notin B => W(p) > W(q))
    OBVIOUS
  <2>2. N - W(p) = x /\ (q \notin B => N - W(q) # x) /\ x <= N - W(q)
    BY <1>3, <1>5, <1>6
  <2>3. W(p) \in Nat /\ W(q) \in Nat /\ x \in Nat
    BY <1>2, <1>4, <1>7
  <2> HIDE DEF N, W
  <2>4. QED
    BY <1>1, <2>2, <2>3
<1>9. PICK C : C = {p[2] : p \in B}
  OBVIOUS
<1>10. C \in SUBSET Nat /\ C # {}
  BY <1>2, <1>7, <1>9
<1>11. PICK y \in C : \A z \in C : y <= z
  BY <1>10, LeastNumber
<1>12. PICK D : D = {p[1] : p \in {q \in B : q[2] = y}}
  OBVIOUS
<1>13. D \in SUBSET Nat /\ D # {}
  BY <1>2, <1>7, <1>9, <1>12
<1>14. PICK u \in D : \A z \in D : u <= z
  BY <1>13, LeastNumber
<1>15. PICK f \in B : f[2] = y /\ f[1] = u
  BY <1>12
<1>16. \A q \in S \ {f} : Preferred(f, q)
  <2>1. SUFFICES ASSUME NEW q \in S \ {f} PROVE Preferred(f, q)
    OBVIOUS
  <2>2. f \in S /\ W(f) \in Nat /\ W(q) \in Nat /\ W(f) >= W(q) /\ f[1] \in Nat /\ f[2] \in Nat /\ q[1] \in Nat /\ q[2] \in Nat
    BY <1>2, <1>7, <1>8
  <2>3. CASE q \notin B
    BY <2>3, <1>8 DEF Preferred
  <2>4. CASE q \in B
    <3>1. W(f) = W(q)
      BY <2>2, <2>4, <1>7, <1>8
    <3>2. f[2] <= q[2]
      BY <2>4, <1>9, <1>11, <1>15
    <3>3. f[2] = q[2] => f[1] <= q[1]
      BY <2>4, <1>12, <1>14, <1>15
    <3>4. f[2] = q[2] => f[1] # q[1]
      BY <2>2, <1>2
    <3>5. f[2] < q[2] \/ (f[2] = q[2] /\ f[1] < q[1])
      BY <2>2, <3>2, <3>3, <3>4
    <3>6. QED
      BY <3>1, <3>5 DEF Preferred
  <2>5. QED
    BY <2>3, <2>4
<1>17. QED
  BY <1>7, <1>16 DEF First

LEMMA LeftIsSmaller ==
    ASSUME ClusterInv, cpc = "write", NEW S \in SUBSET Overlaps, S # {},
           NEW n \in Nat, Cardinality(S) <= n + 1
    PROVE  Left(S) \in SUBSET Overlaps /\ Cardinality(Left(S)) <= n
<1>1. First(S) \in S
  BY FirstIsPreferred
<1>2. Left(S) \subseteq S \ {First(S)}
  BY DEF Left
<1>3. IsFiniteSet(S) /\ Cardinality(S) \in Nat
  BY OverlapsAreFinite, FS_Subset, FS_CardinalityType
<1>4. PICK R : R = S \ {First(S)}
  OBVIOUS
<1>5. IsFiniteSet(R) /\ Cardinality(R) = Cardinality(S) - 1
  BY <1>1, <1>3, <1>4, FS_RemoveElement
<1>6. Cardinality(Left(S)) <= Cardinality(R) /\ Cardinality(Left(S)) \in Nat
  BY <1>2, <1>4, <1>5, FS_Subset, FS_CardinalityType
<1>7. QED
  BY <1>2, <1>3, <1>5, <1>6

\* The recursion exists.
LEMMA PicksExist ==
    ASSUME ClusterInv, cpc = "write"
    PROVE  \E pick : Picks(pick)
<1> DEFINE Small(n) == {s \in SUBSET Overlaps : Cardinality(s) <= n}
           Upto(n, g) == g = [s \in Small(n) |-> IF s = {} THEN {} ELSE {First(s)} \cup g[Left(s)]]
           P == {n \in Nat : \E g : Upto(n, g)}
<1>1. \A s \in SUBSET Overlaps : IsFiniteSet(s) /\ Cardinality(s) \in Nat /\ Cardinality(s) <= Cardinality(Overlaps)
  BY OverlapsAreFinite, FS_Subset, FS_CardinalityType
<1>2. ASSUME NEW n \in Nat, NEW s \in Small(n + 1), s # {} PROVE Left(s) \in Small(n)
  BY <1>1, <1>2, LeftIsSmaller
<1>3. 0 \in P
  <2> DEFINE g == [s \in Small(0) |-> {}]
  <2>1. \A s \in Small(0) : s = {}
    BY <1>1, FS_EmptySet
  <2>2. Upto(0, g)
    BY <2>1
  <2>3. QED
    BY <2>2
<1>4. ASSUME NEW n \in Nat, n \in P PROVE n + 1 \in P
  <2>1. PICK g : Upto(n, g)
    BY <1>4
  <2> DEFINE h == [s \in Small(n + 1) |-> IF s = {} THEN {} ELSE {First(s)} \cup g[Left(s)]]
  <2>2. ASSUME NEW t \in Small(n) PROVE h[t] = g[t]
    <3>1. g[t] = IF t = {} THEN {} ELSE {First(t)} \cup g[Left(t)]
      BY <2>1
    <3>2. t \in Small(n + 1)
      BY <1>1
    <3>3. QED
      BY <3>1, <3>2
  <2>3. \A s \in Small(n + 1) : h[s] = IF s = {} THEN {} ELSE {First(s)} \cup h[Left(s)]
    BY <1>2, <2>2
  <2> HIDE DEF h
  <2>4. h = [s \in Small(n + 1) |-> IF s = {} THEN {} ELSE {First(s)} \cup h[Left(s)]]
    <3>1. DOMAIN h = Small(n + 1) /\ h = [s \in Small(n + 1) |-> h[s]]
      BY DEF h
    <3>2. QED
      BY <2>3, <3>1
  <2>5. \E g1 : Upto(n + 1, g1)
    BY <2>4
  <2> HIDE DEF Upto
  <2>6. n + 1 \in Nat
    OBVIOUS
  <2>7. QED
    BY <2>5, <2>6
<1>5. Cardinality(Overlaps) \in P
  <2>1. Cardinality(Overlaps) \in Nat
    BY <1>1
  <2> HIDE DEF P
  <2>2. QED
    BY <2>1, <1>3, <1>4, NumberInduction, Zenon
<1>6. PICK g : Upto(Cardinality(Overlaps), g)
  BY <1>5
<1>7. Small(Cardinality(Overlaps)) = SUBSET Overlaps
  BY <1>1
<1>8. QED
  BY <1>6, <1>7 DEF Picks

\* A pair that shares more articles than any other of its label or cluster.
Best(S, p) == \A q \in S \ {p} : q[1] = p[1] \/ q[2] = p[2] => Shared(q[1], q[2]) < Shared(p[1], p[2])

\* What the recursion picks of S.
PicksWell(S, R) ==
    /\ R \subseteq S
    /\ \A p, q \in R : p[1] = q[1] \/ p[2] = q[2] => p = q
    /\ \A p \in S : Best(S, p) => p \in R

\* match gives a label one old cluster at most and a cluster to one label, and
\* a pair that is the best of both always.
LEMMA MatchesAreGood ==
    ASSUME ClusterInv, cpc = "write"
    PROVE  PicksWell(Overlaps, Matches)
<1> DEFINE pick == CHOOSE f : Picks(f)
<1>1. Picks(pick)
  BY PicksExist
<1>2. Matches = pick[Overlaps]
  BY DEF Matches, Matching, Picks, First, Left
<1> HIDE DEF pick
<1> DEFINE P == {n \in Nat : \A S \in SUBSET Overlaps : Cardinality(S) <= n => PicksWell(S, pick[S])}
<1>3. \A S \in SUBSET Overlaps : IsFiniteSet(S) /\ Cardinality(S) \in Nat
  BY OverlapsAreFinite, FS_Subset, FS_CardinalityType
<1>4. \A S \in SUBSET Overlaps : pick[S] = IF S = {} THEN {} ELSE {First(S)} \cup pick[Left(S)]
  BY <1>1 DEF Picks
<1>5. 0 \in P
  <2>1. \A S \in SUBSET Overlaps : Cardinality(S) <= 0 => S = {}
    BY <1>3, FS_EmptySet
  <2>2. QED
    BY <2>1, <1>4 DEF PicksWell
<1>6. ASSUME NEW n \in Nat, n \in P PROVE n + 1 \in P
  <2>1. SUFFICES ASSUME NEW S \in SUBSET Overlaps, Cardinality(S) <= n + 1 PROVE PicksWell(S, pick[S])
    OBVIOUS
  <2>2. CASE S = {}
    BY <2>2, <1>4 DEF PicksWell
  <2>3. CASE S # {}
    <3>1. PICK f : f = First(S)
      OBVIOUS
    <3>2. f \in S /\ \A q \in S \ {f} : Preferred(f, q)
      BY <3>1, <2>3, FirstIsPreferred
    <3>3. PICK L : L = Left(S)
      OBVIOUS
    <3>4. L = {q \in S : q[1] # f[1] /\ q[2] # f[2]}
      BY <3>1, <3>3 DEF Left
    <3>5. L \in SUBSET Overlaps /\ Cardinality(L) <= n
      BY <2>1, <2>3, <3>3, LeftIsSmaller
    <3>6. PICK R : R = pick[L]
      OBVIOUS
    <3>7. PicksWell(L, R)
      BY <1>6, <3>5, <3>6
    <3>8. pick[S] = {f} \cup R
      BY <1>4, <2>3, <3>1, <3>3, <3>6
    <3>9. ASSUME NEW p \in S, Best(S, p) PROVE p \in {f} \cup R
      <4>1. CASE p = f
        BY <4>1
      <4>2. CASE p # f /\ (f[1] = p[1] \/ f[2] = p[2])
        <5>1. Shared(f[1], f[2]) < Shared(p[1], p[2])
          BY <3>2, <3>9, <4>2 DEF Best
        <5>2. Shared(f[1], f[2]) > Shared(p[1], p[2]) \/ Shared(f[1], f[2]) = Shared(p[1], p[2])
          BY <3>2, <4>2 DEF Preferred
        <5>3. Shared(f[1], f[2]) \in Nat /\ Shared(p[1], p[2]) \in Nat
          BY <3>2, OverlapsAreFinite
        <5>4. QED
          BY <5>1, <5>2, <5>3
      <4>3. CASE p # f /\ f[1] # p[1] /\ f[2] # p[2]
        <5>1. p \in L /\ Best(L, p)
          BY <3>4, <3>9, <4>3 DEF Best
        <5>2. QED
          BY <5>1, <3>7 DEF PicksWell
      <4>4. QED
        BY <4>1, <4>2, <4>3
    <3>10. QED
      BY <3>2, <3>4, <3>7, <3>8, <3>9 DEF PicksWell
  <2>4. QED
    BY <2>2, <2>3
<1>7. Cardinality(Overlaps) \in Nat /\ Cardinality(Overlaps) <= Cardinality(Overlaps)
  BY <1>3
<1>8. Cardinality(Overlaps) \in P
  <2> HIDE DEF P
  <2>1. QED
    BY <1>5, <1>6, <1>7, NumberInduction, Zenon
<1>9. QED
  BY <1>2, <1>7, <1>8

-----------------------------------------------------------------------------
(* What write_clusters does: id is the cluster of each label, an old one or  *)
(* a new one.                                                                *)

Written(id) ==
    /\ \A l, k \in Labels : id[l] = id[k] => l = k
    /\ \A l \in Labels :
        \/ /\ id[l] \in DOMAIN clusters /\ <<l, id[l]>> \in Matches
           /\ clusters'[id[l]] = IF Group(l) # Members(id[l]) THEN clusters[id[l]] + 1 ELSE clusters[id[l]]
        \/ id[l] \in nextId..(nextId' - 1) /\ clusters'[id[l]] = 1
    /\ \A p \in Matches : id[p[1]] = p[2]
    /\ DOMAIN clusters' = {id[l] : l \in Labels} /\ clusters' = [c \in DOMAIN clusters' |-> clusters'[c]]
    /\ \A l \in Labels : Members(id[l])' = Group(l)
    /\ DOMAIN assign' = {a \in loaded : labels[a] # Noise} /\ assign' = [a \in DOMAIN assign' |-> assign'[a]]
    /\ \A a \in DOMAIN assign' : assign'[a] = id[labels[a]]
    /\ nextId' \in Nat /\ nextId' >= nextId

\* New ids count up from nextId.
LEMMA PlacesDiffer ==
    ASSUME ClusterInv, cpc = "write", NEW fresh \in SUBSET Labels
    PROVE  /\ Cardinality(fresh) \in Nat
           /\ \A l \in fresh : Place(l, fresh) \in 1..Cardinality(fresh)
           /\ \A l, k \in fresh : Place(l, fresh) = Place(k, fresh) => l = k
<1>1. IsFiniteSet(fresh) /\ Cardinality(fresh) \in Nat
  BY AtWrite, FS_Subset, FS_CardinalityType
<1>2. \A l \in fresh : Min(Group(l)) \in Group(l) /\ Min(Group(l)) \in Nat
  BY AtWrite, WorldIsFinite DEF ClusterInv
<1> DEFINE Upto(l) == {m \in fresh : Min(Group(m)) <= Min(Group(l))}
<1>3. \A l \in fresh : Place(l, fresh) = Cardinality(Upto(l))
  BY DEF Place
<1>4. \A l \in fresh : l \in Upto(l)
  BY <1>2
<1>5. \A l \in fresh : Upto(l) \subseteq fresh
  OBVIOUS
<1>6. \A l, k \in fresh : Min(Group(l)) < Min(Group(k)) => Upto(l) \subseteq Upto(k) /\ k \notin Upto(l)
  BY <1>2
<1>7. \A l, k \in fresh : Min(Group(l)) = Min(Group(k)) => l = k
  BY <1>2, AtWrite
<1>8. \A l, k \in fresh : l = k \/ Min(Group(l)) < Min(Group(k)) \/ Min(Group(k)) < Min(Group(l))
  BY <1>2, <1>7
<1> HIDE DEF Upto
<1>9. ASSUME NEW l \in fresh
      PROVE  IsFiniteSet(Upto(l)) /\ Cardinality(Upto(l)) \in 1..Cardinality(fresh)
  <2>1. IsFiniteSet(Upto(l)) /\ Cardinality(Upto(l)) \in Nat /\ Cardinality(Upto(l)) <= Cardinality(fresh)
    BY <1>1, <1>5, FS_Subset, FS_CardinalityType
  <2>2. Cardinality(Upto(l)) # 0
    BY <2>1, <1>4, FS_EmptySet
  <2>3. QED
    BY <2>1, <2>2, <1>1
<1>10. ASSUME NEW l \in fresh, NEW k \in fresh, Min(Group(l)) < Min(Group(k))
       PROVE  Cardinality(Upto(l)) # Cardinality(Upto(k))
  <2>1. Upto(l) \in SUBSET Upto(k) /\ Upto(l) # Upto(k)
    BY <1>4, <1>6, <1>10
  <2>2. IsFiniteSet(Upto(k))
    BY <1>9
  <2>3. QED
    BY <2>1, <2>2, FS_Subset
<1>11. \A l, k \in fresh : Cardinality(Upto(l)) = Cardinality(Upto(k)) => l = k
  BY <1>8, <1>10
<1>12. QED
  BY <1>1, <1>3, <1>9, <1>11

LEMMA WriteWrites ==
    ASSUME ClusterInv, Write
    PROVE  \E id : Written(id)
<1>1. cpc = "write"
  BY DEF Write
<1>2. PICK kept : kept = Matches
  OBVIOUS
<1>3. PICK fresh : fresh = Fresh(kept)
  OBVIOUS
<1>4. PICK id : id = [l \in Labels |-> IF l \in fresh THEN nextId - 1 + Place(l, fresh)
                                       ELSE (CHOOSE p \in kept : p[1] = l)[2]]
  OBVIOUS
<1>5. PICK all : all = {id[l] : l \in Labels}
  OBVIOUS
<1>6. /\ assign' = [a \in {b \in loaded : labels[b] # Noise} |-> id[labels[a]]]
      /\ clusters' = [c \in all |-> IF c >= nextId THEN 1
                                    ELSE LET l == CHOOSE l \in Labels : id[l] = c
                                         IN  IF Differs(l, c) THEN clusters[c] + 1 ELSE clusters[c]]
      /\ nextId' = nextId + Cardinality(fresh)
  BY <1>2, <1>3, <1>4, <1>5 DEF Write
<1>7. /\ kept \subseteq Overlaps
      /\ \A p, q \in kept : p[1] = q[1] \/ p[2] = q[2] => p = q
      /\ \A p \in kept : p[1] \in Labels /\ p[2] \in DOMAIN clusters /\ p = <<p[1], p[2]>>
  BY <1>1, <1>2, MatchesAreGood, OverlapsAreFinite DEF PicksWell
<1>8. fresh \subseteq Labels /\ \A l \in Labels : l \in fresh <=> \A p \in kept : p[1] # l
  BY <1>3 DEF Fresh
<1>9. nextId \in Nat \ {0} /\ \A c \in DOMAIN clusters : c \in Nat /\ c < nextId
  BY DEF ClusterInv, StoreInv
<1>10. /\ Cardinality(fresh) \in Nat
       /\ \A l \in fresh : Place(l, fresh) \in 1..Cardinality(fresh)
       /\ \A l, k \in fresh : Place(l, fresh) = Place(k, fresh) => l = k
  BY <1>1, <1>8, PlacesDiffer
<1>11. \A l \in Labels \ fresh : <<l, id[l]>> \in kept
  <2>1. SUFFICES ASSUME NEW l \in Labels \ fresh PROVE <<l, id[l]>> \in kept
    OBVIOUS
  <2>2. PICK p : p = CHOOSE q \in kept : q[1] = l
    OBVIOUS
  <2>3. p \in kept /\ p[1] = l
    BY <2>2, <1>8
  <2>4. id[l] = p[2]
    BY <2>2, <1>4
  <2>5. QED
    BY <2>3, <2>4, <1>7
<1>12. \A l \in fresh : id[l] = nextId - 1 + Place(l, fresh) /\ id[l] \in nextId..(nextId' - 1)
  <2>1. SUFFICES ASSUME NEW l \in fresh
                 PROVE  id[l] = nextId - 1 + Place(l, fresh) /\ id[l] \in nextId..(nextId' - 1)
    OBVIOUS
  <2>2. id[l] = nextId - 1 + Place(l, fresh)
    BY <1>4, <1>8
  <2>3. PICK x, n : x = Place(l, fresh) /\ n = Cardinality(fresh)
    OBVIOUS
  <2>4. x \in 1..n /\ n \in Nat /\ nextId' = nextId + n /\ id[l] = nextId - 1 + x
    BY <1>6, <1>10, <2>2, <2>3
  <2>5. id[l] \in nextId..(nextId' - 1)
    BY <2>4, <1>9
  <2>6. QED
    BY <2>2, <2>5
<1>13. nextId' \in Nat /\ nextId' >= nextId
  BY <1>6, <1>9, <1>10
<1>14. \A l, k \in Labels : id[l] = id[k] => l = k
  <2>1. SUFFICES ASSUME NEW l \in Labels, NEW k \in Labels, id[l] = id[k] PROVE l = k
    OBVIOUS
  <2>2. CASE l \in fresh /\ k \in fresh
    <3>1. PICK x, y : x = Place(l, fresh) /\ y = Place(k, fresh)
      OBVIOUS
    <3>2. x \in Int /\ y \in Int /\ nextId - 1 + x = nextId - 1 + y
      BY <1>10, <1>12, <2>1, <2>2, <3>1
    <3>3. x = y
      BY <3>2, <1>9
    <3>4. QED
      BY <2>2, <3>1, <3>3, <1>10
  <2>3. CASE l \notin fresh /\ k \notin fresh
    <3>1. <<l, id[l]>> \in kept /\ <<k, id[k]>> \in kept
      BY <2>3, <1>11
    <3>2. QED
      BY <2>1, <3>1, <1>7
  <2>4. CASE ~(l \in fresh <=> k \in fresh)
    <3>1. \A x \in fresh : ~(id[x] < nextId)
      BY <1>9, <1>12, <1>13
    <3>2. \A x \in Labels \ fresh : id[x] < nextId
      BY <1>7, <1>9, <1>11
    <3>3. QED
      BY <2>1, <2>4, <3>1, <3>2
  <2>5. QED
    BY <2>2, <2>3, <2>4
<1>15. ASSUME NEW p \in kept PROVE id[p[1]] = p[2]
  <2>1. p[1] \in Labels \ fresh
    BY <1>7, <1>8
  <2>2. PICK q \in kept : q = <<p[1], id[p[1]]>>
    BY <2>1, <1>11
  <2>3. p = q
    BY <2>2, <1>7
  <2>4. QED
    BY <2>2, <2>3
<1>16. ASSUME NEW l \in Labels
       PROVE  \/ /\ id[l] \in DOMAIN clusters /\ <<l, id[l]>> \in Matches
                 /\ clusters'[id[l]] = IF Group(l) # Members(id[l]) THEN clusters[id[l]] + 1 ELSE clusters[id[l]]
              \/ id[l] \in nextId..(nextId' - 1) /\ clusters'[id[l]] = 1
  <2>1. id[l] \in all
    BY <1>5
  <2>2. CASE l \in fresh
    <3>1. id[l] \in nextId..(nextId' - 1)
      BY <2>2, <1>12
    <3>2. id[l] >= nextId
      BY <3>1, <1>9, <1>13
    <3>3. QED
      BY <2>1, <3>1, <3>2, <1>6
  <2>3. CASE l \notin fresh
    <3>1. <<l, id[l]>> \in kept /\ id[l] \in DOMAIN clusters
      BY <2>3, <1>7, <1>11
    <3>2. ~(id[l] >= nextId)
      BY <3>1, <1>9
    <3>3. (CHOOSE k \in Labels : id[k] = id[l]) = l
      BY <1>14
    <3>4. clusters'[id[l]] = IF Differs(l, id[l]) THEN clusters[id[l]] + 1 ELSE clusters[id[l]]
      BY <2>1, <3>2, <3>3, <1>6
    <3>5. QED
      BY <3>1, <3>4, <1>2 DEF Differs
  <2>4. QED
    BY <2>2, <2>3
<1>17. ASSUME NEW l \in Labels
       PROVE  Members(id[l])' = Group(l)
  <2>1. Members(id[l])' = {a \in {b \in loaded : labels[b] # Noise} : id[labels[a]] = id[l]}
    BY <1>6 DEF Members
  <2>2. \A a \in loaded : labels[a] # Noise => labels[a] \in Labels
    BY <1>1, AtWrite
  <2>3. \A a \in loaded : labels[a] # Noise /\ id[labels[a]] = id[l] <=> labels[a] = l
    BY <2>2, <1>1, <1>14, AtWrite
  <2>4. QED
    BY <2>1, <2>3 DEF Group
<1>18. DOMAIN clusters' = {id[l] : l \in Labels} /\ clusters' = [c \in DOMAIN clusters' |-> clusters'[c]]
  BY <1>5, <1>6
<1>19. /\ DOMAIN assign' = {a \in loaded : labels[a] # Noise} /\ assign' = [a \in DOMAIN assign' |-> assign'[a]]
       /\ \A a \in DOMAIN assign' : assign'[a] = id[labels[a]]
  BY <1>6
<1>20. Written(id)
  BY <1>2, <1>13, <1>14, <1>15, <1>16, <1>17, <1>18, <1>19 DEF Written
<1>21. QED
  BY <1>20

\* A cluster keeps the id the matching gives it, and no other gets it.
LEMMA WriteKeepsIds ==
    ASSUME ClusterInv, Write
    PROVE  \A c \in DOMAIN clusters : \A d \in DOMAIN clusters' :
             LET shared(x, y) == Cardinality(Members(x) \cap Members(y)')
             IN  /\ /\ \A x \in DOMAIN clusters \ {c} : shared(x, d) < shared(c, d)
                    /\ \A y \in DOMAIN clusters' \ {d} : shared(c, y) < shared(c, d)
                    => c = d
                 /\ c = d => shared(c, d) > 0
<1> DEFINE shared(x, y) == Cardinality(Members(x) \cap Members(y)')
<1>1. SUFFICES ASSUME NEW c \in DOMAIN clusters, NEW d \in DOMAIN clusters'
               PROVE  /\ /\ \A x \in DOMAIN clusters \ {c} : shared(x, d) < shared(c, d)
                         /\ \A y \in DOMAIN clusters' \ {d} : shared(c, y) < shared(c, d)
                         => c = d
                      /\ c = d => shared(c, d) > 0
  OBVIOUS
<1>2. PICK id : Written(id)
  BY WriteWrites
<1>3. cpc = "write"
  BY DEF Write
<1>4. \A l \in Labels : \A x : shared(x, id[l]) = Shared(l, x)
  <2>1. SUFFICES ASSUME NEW l \in Labels, NEW x PROVE shared(x, id[l]) = Shared(l, x)
    OBVIOUS
  <2>2. Members(id[l])' = Group(l)
    BY <1>2 DEF Written
  <2>3. Members(x) \cap Members(id[l])' = Group(l) \cap Members(x)
    BY <2>2
  <2>4. QED
    BY <2>3 DEF Shared
<1>5. PICK l \in Labels : d = id[l]
  BY <1>2 DEF Written
<1>6. \A k \in Labels : id[k] \in DOMAIN clusters' /\ (k # l => id[k] # d)
  BY <1>2, <1>5 DEF Written
<1>7. /\ \A k \in Labels : \A x : Shared(k, x) \in Nat /\ (Shared(k, x) > 0 <=> Group(k) \cap Members(x) # {})
      /\ \A p \in Overlaps : p[1] \in Labels /\ p[2] \in DOMAIN clusters /\ p = <<p[1], p[2]>>
  BY <1>3, OverlapsAreFinite
<1>8. PicksWell(Overlaps, Matches)
  BY <1>3, MatchesAreGood
<1> HIDE DEF shared
<1>9. ASSUME c = d PROVE shared(c, d) > 0
  <2>1. ~(d \in nextId..(nextId' - 1))
    BY <1>9 DEF ClusterInv, StoreInv
  <2>2. <<l, c>> \in Matches
    BY <2>1, <1>2, <1>5, <1>9 DEF Written
  <2>3. Shared(l, c) > 0
    BY <2>2, <1>8 DEF PicksWell, Overlaps
  <2>4. QED
    BY <2>3, <1>4, <1>5
<1>10. ASSUME \A x \in DOMAIN clusters \ {c} : shared(x, d) < shared(c, d),
              \A y \in DOMAIN clusters' \ {d} : shared(c, y) < shared(c, d)
       PROVE  c = d
  <2>1. PICK a \in Members(c) : CoreIn(loaded, a)
    BY <1>3 DEF ClusterInv, StoreInv, Visible
  <2>2. a \in loaded /\ Core(a)
    BY <2>1, <1>3 DEF ClusterInv, StoreInv, Visible, Members, CoreIn, Core, Neighbours
  <2>3. labels[a] # Noise
    BY <2>2, <1>3 DEF ClusterInv, LabelsInv, LabelInv, Seeds
  <2>4. PICK k \in Labels : a \in Group(k)
    BY <2>2, <2>3, <1>3, AtWrite
  <2>5. Shared(k, c) > 0
    BY <2>1, <2>4, <1>7
  <2>6. shared(c, id[k]) = Shared(k, c) /\ shared(c, d) = Shared(l, c)
    BY <1>4, <1>5
  <2>7. Shared(l, c) > 0
    <3>1. CASE k = l
      BY <2>5, <3>1
    <3>2. CASE k # l
      <4>1. Shared(k, c) < Shared(l, c)
        BY <1>6, <1>10, <2>6, <3>2
      <4>2. Shared(k, c) \in Nat /\ Shared(l, c) \in Nat
        BY <1>7
      <4>3. QED
        BY <2>5, <4>1, <4>2
    <3>3. QED
      BY <3>1, <3>2
  <2>8. PICK p : p = <<l, c>>
    OBVIOUS
  <2>9. p \in Overlaps /\ p[1] = l /\ p[2] = c
    BY <2>7, <2>8 DEF Overlaps
  <2>10. Best(Overlaps, p)
    <3>1. SUFFICES ASSUME NEW q \in Overlaps, q # p, q[1] = l \/ q[2] = c
                   PROVE  Shared(q[1], q[2]) < Shared(l, c)
      BY <2>9 DEF Best
    <3>2. q[1] \in Labels /\ q[2] \in DOMAIN clusters /\ q = <<q[1], q[2]>>
      BY <1>7
    <3>3. CASE q[1] = l
      <4>1. q[2] \in DOMAIN clusters \ {c}
        BY <3>1, <3>2, <3>3, <2>8
      <4>2. shared(q[2], d) < shared(c, d)
        BY <4>1, <1>10
      <4>3. QED
        BY <4>2, <3>3, <1>4, <1>5
    <3>4. CASE q[2] = c /\ q[1] # l
      <4>1. id[q[1]] \in DOMAIN clusters' \ {d}
        BY <3>2, <3>4, <1>6
      <4>2. shared(c, id[q[1]]) < shared(c, d)
        BY <4>1, <1>10
      <4>3. QED
        BY <4>2, <3>2, <3>4, <2>6, <1>4
    <3>5. QED
      BY <3>1, <3>3, <3>4
  <2>11. p \in Matches
    BY <2>9, <2>10, <1>8 DEF PicksWell
  <2>12. id[l] = c
    BY <2>9, <2>11, <1>2 DEF Written
  <2>13. QED
    BY <2>12, <1>5
<1>11. QED
  BY <1>9, <1>10

LEMMA WriteKeepsStore ==
    ASSUME ClusterInv, Write
    PROVE  StoreInv'
<1>1. PICK id : Written(id)
  BY WriteWrites
<1>2. cpc = "write" /\ cpc' = "idle" /\ UNCHANGED <<near, embedded>>
  BY DEF Write
<1>3. loaded \subseteq embedded /\ IsFiniteSet(embedded) /\ Visible' = embedded
  BY <1>2, WorldIsFinite DEF ClusterInv, WorldInv, Visible
<1>4. nextId \in Nat \ {0} /\ nextId' \in Nat /\ nextId' >= nextId
  BY <1>1 DEF ClusterInv, StoreInv, Written
<1>5. ASSUME NEW l \in Labels
      PROVE  id[l] \in 1..(nextId' - 1) /\ clusters'[id[l]] \in Nat \ {0}
  <2>1. CASE id[l] \in DOMAIN clusters
    <3>1. id[l] \in 1..(nextId - 1) /\ clusters[id[l]] \in Nat \ {0}
      BY <2>1 DEF ClusterInv, StoreInv
    <3>2. id[l] \notin nextId..(nextId' - 1)
      BY <3>1, <1>4
    <3>3. clusters'[id[l]] \in {clusters[id[l]], clusters[id[l]] + 1}
      BY <3>2, <1>1 DEF Written
    <3>4. clusters'[id[l]] \in Nat \ {0}
      BY <3>1, <3>3
    <3>5. id[l] \in 1..(nextId' - 1)
      BY <3>1, <1>4
    <3>6. QED
      BY <3>4, <3>5
  <2>2. CASE id[l] \notin DOMAIN clusters
    <3>1. id[l] \in nextId..(nextId' - 1) /\ clusters'[id[l]] = 1
      BY <2>2, <1>1 DEF Written
    <3>2. QED
      BY <3>1, <1>4
  <2>3. QED
    BY <2>1, <2>2
<1>6. DOMAIN clusters' = {id[l] : l \in Labels}
  BY <1>1 DEF Written
<1>7. clusters' \in [DOMAIN clusters' -> Nat \ {0}] /\ DOMAIN clusters' \subseteq 1..(nextId' - 1)
  BY <1>1, <1>5, <1>6 DEF Written
<1>8. assign' \in [DOMAIN assign' -> DOMAIN clusters'] /\ DOMAIN assign' \subseteq embedded
  <2>1. \A a \in DOMAIN assign' : a \in loaded /\ assign'[a] = id[labels[a]] /\ labels[a] \in Labels
    BY <1>1, <1>2, AtWrite DEF Written
  <2>2. QED
    <3>1. \A a \in DOMAIN assign' : assign'[a] \in DOMAIN clusters'
      BY <2>1, <1>6
    <3>2. assign' = [a \in DOMAIN assign' |-> assign'[a]]
      BY <1>1 DEF Written
    <3>3. QED
      BY <2>1, <3>1, <3>2, <1>3
<1>9. \A c \in DOMAIN clusters' : \E a \in Members(c)' : CoreIn(embedded, a)
  <2>1. SUFFICES ASSUME NEW l \in Labels PROVE \E a \in Members(id[l])' : CoreIn(embedded, a)
    BY <1>6
  <2>2. PICK a \in Group(l) : CoreIn(loaded, a)
    BY <1>2, AtWrite
  <2>3. CoreIn(embedded, a)
    BY <2>2, <1>3, CoreStays
  <2>4. Members(id[l])' = Group(l)
    BY <1>1 DEF Written
  <2>5. QED
    BY <2>2, <2>3, <2>4
<1>10. \A a : CoreIn(embedded, a) <=> CoreIn(Visible, a)'
  BY <1>2, <1>3 DEF CoreIn
<1>11. QED
  BY <1>3, <1>4, <1>7, <1>8, <1>9, <1>10 DEF StoreInv

\* A cluster that is kept at its version has kept its articles.
LEMMA WriteKeepsVersions ==
    ASSUME ClusterInv, Write, NEW c \in DOMAIN clusters', c < nextId
    PROVE  /\ c \in DOMAIN clusters /\ clusters[c] \in Nat /\ clusters'[c] \in Nat /\ clusters[c] <= clusters'[c]
           /\ clusters'[c] = clusters[c] => Members(c)' = Members(c)
<1>1. PICK id : Written(id)
  BY WriteWrites
<1>2. PICK l \in Labels : c = id[l]
  BY <1>1 DEF Written
<1>3. nextId \in Nat
  BY DEF ClusterInv, StoreInv
<1>4. c \notin nextId..(nextId' - 1)
  BY <1>3
<1>5. /\ c \in DOMAIN clusters
      /\ clusters'[c] = IF Group(l) # Members(c) THEN clusters[c] + 1 ELSE clusters[c]
  BY <1>1, <1>2, <1>4 DEF Written
<1>6. clusters[c] \in Nat
  BY <1>5 DEF ClusterInv, StoreInv
<1>7. Members(c)' = Group(l)
  BY <1>1, <1>2 DEF Written
<1>8. QED
  BY <1>5, <1>6, <1>7

-----------------------------------------------------------------------------
(* The steps.                                                              *)

LEMMA FirstInv == NewsInit => ClusterInv
<1> SUFFICES ASSUME NewsInit PROVE ClusterInv
  OBVIOUS
<1>1. Labels = {} /\ loaded = {} /\ frontier = {} /\ found = 0 /\ labels = <<>> /\ cpc = "idle"
  BY DEF NewsInit, Labels
<1>2. LabelInv
  BY <1>1 DEF LabelInv
<1>3. ExpandedInv /\ NeighboursInv /\ ConnectedInv /\ BorderInv
  BY <1>1 DEF ExpandedInv, NeighboursInv, ConnectedInv, BorderInv
<1>4. WorldInv
  BY DEF NewsInit, WorldInv
<1>5. StoreInv
  BY DEF NewsInit, StoreInv
<1>6. SummaryInv
  BY DEF NewsInit, SummaryInv
<1>7. GraphInv
  BY DEF NewsInit, GraphInv
<1>8. BuilderInv
  BY DEF NewsInit, BuilderInv
<1>9. QED
  BY <1>2, <1>3, <1>4, <1>5, <1>6, <1>7, <1>8 DEF ClusterInv, LabelsInv

LEMMA WorldKept ==
    ASSUME ClusterInv, NewsNext
    PROVE  WorldInv'
<1>1. WorldInv
  BY DEF ClusterInv
<1>2. CASE EmbedBatch
  <2>1. embedded' \subseteq Articles /\ embedded \subseteq embedded'
    BY <1>1, <1>2, ClusterAssumption DEF EmbedBatch, WorldInv
  <2>2. QED
    BY <1>1, <1>2, <2>1 DEF EmbedBatch, WorldInv, clusterer, builder
<1>3. CASE SyncAliases
  BY <1>1, <1>3 DEF SyncAliases, WorldInv, clusterer, builder
<1>4. CASE Load
  BY <1>1, <1>4 DEF Load, WorldInv, builder
<1>5. CASE Seed
  BY <1>1, <1>5 DEF Seed, WorldInv, builder
<1>6. CASE Expand
  BY <1>1, <1>6 DEF Expand, WorldInv, builder
<1>7. CASE Labelled
  BY <1>1, <1>7 DEF Labelled, WorldInv, builder
<1>8. CASE Write
  BY <1>1, <1>8 DEF Write, WorldInv, builder
<1>9. CASE BuilderNext \/ Killed
  <2>1. UNCHANGED <<near, embedded, loaded, cpc>>
    BY <1>9 DEF BuilderNext, Begin, Merge, Find, Read, Extract, ExtractFails, WriteGraph, Finish, Killed, clusterer
  <2>2. bpc' \in {"idle", "merge", "find", "cluster", "extract", "write"}
    BY <1>1, <1>9 DEF WorldInv, BuilderNext, Begin, Merge, Find, Read, Extract, ExtractFails, WriteGraph, Finish, Killed
  <2>3. QED
    BY <1>1, <2>1, <2>2 DEF WorldInv
<1>10. QED
  BY <1>2, <1>3, <1>4, <1>5, <1>6, <1>7, <1>8, <1>9 DEF NewsNext, ClustererNext

LEMMA LabelsStay ==
    ASSUME ClusterInv, NewsNext
    PROVE  LabelsInv'
<1>1. CASE EmbedBatch \/ SyncAliases \/ BuilderNext \/ Killed
  <2>1. UNCHANGED <<near, clusterer>>
    BY <1>1 DEF EmbedBatch, SyncAliases, BuilderNext, Begin, Merge, Find, Read, Extract, ExtractFails, WriteGraph,
                Finish, Killed
  <2>2. QED
    BY <2>1, LabelsKept DEF ClusterInv
<1>2. CASE Load
  BY <1>2, NoLabels DEF Load
<1>3. CASE Seed \/ Expand \/ Labelled \/ Write
  BY <1>3, SeedKeepsLabels, ExpandKeepsLabels, LabelledKeepsLabels, WriteKeepsLabels
<1>4. QED
  BY <1>1, <1>2, <1>3 DEF NewsNext, ClustererNext

LEMMA StoreKept ==
    ASSUME ClusterInv, NewsNext
    PROVE  StoreInv'
<1>1. CASE Write
  BY <1>1, WriteKeepsStore
<1>2. CASE ~Write
  <2>1. WorldInv /\ WorldInv'
    BY WorldKept DEF ClusterInv
  <2>2. UNCHANGED <<near, assign, clusters, nextId>>
    BY <1>2 DEF NewsNext, ClustererNext, EmbedBatch, SyncAliases, Load, Seed, Expand, Labelled, BuilderNext, Begin,
                Merge, Find, Read, Extract, ExtractFails, WriteGraph, Finish, Killed, store
  <2>3. Visible \subseteq Visible'
    <3>1. CASE EmbedBatch
      BY <3>1 DEF EmbedBatch, Visible, clusterer
    <3>2. CASE Load
      BY <3>2 DEF Load, Visible
    <3>3. CASE Seed \/ Expand \/ Labelled
      BY <3>3 DEF Seed, Expand, Labelled, Visible
    <3>4. CASE SyncAliases \/ BuilderNext \/ Killed
      <4>1. UNCHANGED <<embedded, clusterer>>
        BY <3>4 DEF SyncAliases, BuilderNext, Begin, Merge, Find, Read, Extract, ExtractFails, WriteGraph,
                    Finish, Killed
      <4>2. QED
        BY <4>1 DEF Visible, clusterer
    <3>5. QED
      BY <1>2, <3>1, <3>2, <3>3, <3>4 DEF NewsNext, ClustererNext
  <2>4. IsFiniteSet(Visible')
    <3>1. Visible' \subseteq Articles
      BY <2>1 DEF Visible, WorldInv
    <3>2. QED
      BY <3>1, ClusterAssumption, FS_Subset
  <2>5. Visible' = (Visible)' /\ \A c : Members(c)' = Members(c)
    BY <2>2 DEF Members
  <2>6. \A a : CoreIn(Visible, a) => CoreIn(Visible', a)
    BY <2>3, <2>4, CoreStays
  <2>7. \A a : CoreIn(Visible, a)' <=> CoreIn(Visible', a)
    BY <2>2 DEF CoreIn
  <2>8. \A c \in DOMAIN clusters' : \E a \in Members(c)' : CoreIn(Visible, a)'
    BY <2>2, <2>5, <2>6, <2>7 DEF ClusterInv, StoreInv
  <2>9. QED
    BY <2>2, <2>3, <2>8 DEF ClusterInv, StoreInv
<1>3. QED
  BY <1>1, <1>2

\* The steps that leave the summaries and what they are of alone.
LEMMA SummaryKept ==
    ASSUME ClusterInv, UNCHANGED <<assign, clusters, summaries>>
    PROVE  SummaryInv'
<1>1. \A c : Members(c)' = Members(c)
  BY DEF Members
<1>2. QED
  BY <1>1 DEF ClusterInv, SummaryInv

LEMMA OnlyIs ==
    ASSUME NEW f, NEW S
    PROVE  /\ DOMAIN Only(f, S) = S /\ \A x \in S : Only(f, S)[x] = f[x]
           /\ Only(f, S) = [x \in DOMAIN Only(f, S) |-> Only(f, S)[x]]
BY DEF Only

LEMMA OthersAre ==
    /\ DOMAIN Others \subseteq DOMAIN waiting /\ \A c \in DOMAIN Others : Others[c] = waiting[c]
    /\ Others = [c \in DOMAIN Others |-> Others[c]]
BY DEF Others, Only

\* The rows write_clusters leaves.
LEMMA WriteCascades ==
    ASSUME ClusterInv, Write
    PROVE  /\ DOMAIN summaries' = DOMAIN summaries \cap DOMAIN clusters'
           /\ \A c \in DOMAIN summaries' : summaries'[c] = summaries[c]
           /\ DOMAIN graph' = DOMAIN graph \cap DOMAIN clusters'
           /\ \A c \in DOMAIN graph' : graph'[c] = graph[c]
           /\ DOMAIN relations' = DOMAIN relations \cap DOMAIN clusters'
           /\ \A c \in DOMAIN relations' : relations'[c] = relations[c]
<1>1. PICK all : /\ DOMAIN clusters' = all /\ summaries' = Cascaded(summaries, all)
                 /\ graph' = Cascaded(graph, all) /\ relations' = Cascaded(relations, all)
  BY DEF Write
<1>2. QED
  BY <1>1, OnlyIs DEF Cascaded

LEMMA WriteKeepsSummaries ==
    ASSUME ClusterInv, Write
    PROVE  SummaryInv'
<1>1. /\ DOMAIN summaries' \subseteq DOMAIN summaries /\ DOMAIN summaries' \subseteq DOMAIN clusters'
      /\ \A c \in DOMAIN summaries' : summaries'[c] = summaries[c]
  BY WriteCascades
<1>2. ASSUME NEW c \in DOMAIN summaries'
      PROVE  /\ summaries'[c].at \in Nat /\ summaries'[c].at <= clusters'[c]
             /\ summaries'[c].at = clusters'[c] => summaries'[c].of = Members(c)'
  <2>1. c \in DOMAIN clusters /\ c < nextId
    BY <1>1 DEF ClusterInv, SummaryInv, StoreInv
  <2>2. /\ clusters[c] \in Nat /\ clusters'[c] \in Nat /\ clusters[c] <= clusters'[c]
        /\ clusters'[c] = clusters[c] => Members(c)' = Members(c)
    BY <1>1, <2>1, WriteKeepsVersions
  <2>3. /\ summaries'[c] = summaries[c] /\ summaries[c].at \in Nat /\ summaries[c].at <= clusters[c]
        /\ summaries[c].at = clusters[c] => summaries[c].of = Members(c)
    BY <1>1 DEF ClusterInv, SummaryInv
  <2>4. QED
    BY <2>2, <2>3
<1>3. QED
  BY <1>1, <1>2 DEF SummaryInv

LEMMA SummariesStay ==
    ASSUME ClusterInv, NewsNext
    PROVE  SummaryInv'
<1>1. CASE Write
  BY <1>1, WriteKeepsSummaries
<1>2. CASE WriteGraph
  <2>1. UNCHANGED <<assign, clusters>>
    BY <1>2 DEF WriteGraph, store
  <2>2. \A c : Members(c)' = Members(c)
    BY <2>1 DEF Members
  <2>3. CASE ~Unchanged
    BY <1>2, <2>1, <2>3, SummaryKept DEF WriteGraph
  <2>4. CASE Unchanged
    <3>1. PICK c, s : c = Current /\ s = [at |-> waiting[Current], of |-> read]
      OBVIOUS
    <3>2. summaries' = Put(summaries, c, s)
      BY <1>2, <2>4, <3>1 DEF WriteGraph
    <3>3. c \in DOMAIN clusters /\ s.at = clusters[c] /\ s.of = Members(c)
      BY <1>2, <2>4, <3>1 DEF Unchanged, ClusterInv, BuilderInv, WriteGraph
    <3>4. clusters[c] \in Nat
      BY <3>3 DEF ClusterInv, StoreInv
    <3>5. DOMAIN summaries' = DOMAIN summaries \cup {c} /\ summaries'[c] = s
          /\ \A d \in DOMAIN summaries \ {c} : summaries'[d] = summaries[d]
      <4>1. /\ DOMAIN Put(summaries, c, s) = DOMAIN summaries \cup {c} /\ Put(summaries, c, s)[c] = s
            /\ \A d \in DOMAIN summaries \ {c} : Put(summaries, c, s)[d] = summaries[d]
        BY DEF Put
      <4>2. QED
        BY <3>2, <4>1
    <3>6. DOMAIN summaries' \subseteq DOMAIN clusters'
      BY <2>1, <3>3, <3>5 DEF ClusterInv, SummaryInv
    <3>7. ASSUME NEW d \in DOMAIN summaries'
          PROVE  /\ summaries'[d].at \in Nat /\ summaries'[d].at <= clusters'[d]
                 /\ summaries'[d].at = clusters'[d] => summaries'[d].of = Members(d)'
      <4>1. CASE d = c
        BY <4>1, <2>1, <2>2, <3>3, <3>4, <3>5
      <4>2. CASE d # c
        BY <4>2, <2>1, <2>2, <3>5 DEF ClusterInv, SummaryInv
      <4>3. QED
        BY <4>1, <4>2
    <3>8. QED
      BY <3>6, <3>7 DEF SummaryInv
  <2>5. QED
    BY <2>3, <2>4
<1>3. CASE ~Write /\ ~WriteGraph
  <2>1. UNCHANGED <<assign, clusters, summaries>>
    BY <1>3 DEF NewsNext, ClustererNext, EmbedBatch, SyncAliases, Load, Seed, Expand, Labelled, BuilderNext, Begin,
                Merge, Find, Read, Extract, ExtractFails, Finish, Killed, store, graphs
  <2>2. QED
    BY <2>1, SummaryKept
<1>4. QED
  BY <1>1, <1>2, <1>3

\* What merge_company_entities makes of entities is entities, and none a name
\* that has become an alias.
LEMMA MergedIsEntity ==
    ASSUME NEW e \in Entity
    PROVE  Merged(e) \in Entity /\ (Merged(e).kind = "plain" => Merged(e).name \notin aliases)
<1>1. CASE e.kind = "plain" /\ e.name \in aliases
  <2>1. PICK n \in Names : e = Plain(n)
    BY <1>1 DEF Entity, Plain, Corporation
  <2>2. Merged(e) = Corporation(n)
    BY <1>1, <2>1 DEF Merged, Plain
  <2>3. QED
    BY <2>2 DEF Entity, Corporation
<1>2. CASE ~(e.kind = "plain" /\ e.name \in aliases)
  BY <1>2 DEF Merged
<1>3. QED
  BY <1>1, <1>2

LEMMA ResolvedIsEntity ==
    ASSUME NEW n \in Names
    PROVE  Resolved(n) \in Entity /\ (Resolved(n).kind = "plain" => Resolved(n).name \notin aliases)
BY DEF Resolved, Entity, Plain, Corporation

LEMMA MergeKeepsGraph ==
    ASSUME ClusterInv, Merge
    PROVE  GraphInv'
<1>1. /\ entities' = {Merged(e) : e \in entities}
      /\ graph' = [c \in DOMAIN graph |-> {Merged(e) : e \in graph[c]}]
      /\ relations' = [c \in DOMAIN relations |-> {<<Merged(r[1]), Merged(r[2])>> : r \in relations[c]}]
      /\ merged' = aliases /\ aliases' = aliases /\ summaries' = summaries
  BY DEF Merge, RelationsMerged
<1>2. GraphInv
  BY DEF ClusterInv
<1>3. \A e \in entities : Merged(e) \in Entity /\ (Merged(e).kind = "plain" => Merged(e).name \notin aliases)
  BY <1>2, MergedIsEntity DEF GraphInv
<1>4. entities' \subseteq Entity /\ \A e \in entities' : e.kind = "plain" => e.name \notin merged'
  BY <1>1, <1>3
<1>5. DOMAIN graph' = DOMAIN summaries' /\ DOMAIN relations' = DOMAIN summaries' /\ DOMAIN graph = DOMAIN relations
  BY <1>1, <1>2 DEF GraphInv
<1>6. \A c \in DOMAIN graph : graph'[c] = {Merged(e) : e \in graph[c]} /\ graph[c] \subseteq entities
  BY <1>1, <1>2 DEF GraphInv
<1>7. \A c \in DOMAIN graph' : graph'[c] \subseteq entities'
  BY <1>1, <1>6
<1>8. ASSUME NEW c \in DOMAIN graph', NEW r \in relations'[c] PROVE {r[1], r[2]} \subseteq graph'[c]
  <2>1. c \in DOMAIN graph /\ c \in DOMAIN relations
    BY <1>1, <1>5
  <2>2. PICK q \in relations[c] : r = <<Merged(q[1]), Merged(q[2])>>
    BY <1>1, <2>1
  <2>3. q[1] \in graph[c] /\ q[2] \in graph[c]
    BY <1>2, <2>1 DEF GraphInv
  <2>4. Merged(q[1]) \in graph'[c] /\ Merged(q[2]) \in graph'[c]
    BY <1>6, <2>1, <2>3
  <2>5. QED
    BY <2>2, <2>4
<1>9. QED
  BY <1>1, <1>4, <1>5, <1>7, <1>8 DEF GraphInv, Entity, Plain, Corporation

LEMMA WriteGraphKeepsGraph ==
    ASSUME ClusterInv, WriteGraph
    PROVE  GraphInv'
<1>1. GraphInv /\ merged' = merged /\ aliases' = aliases
  BY DEF ClusterInv, WriteGraph
<1>2. CASE ~Unchanged
  BY <1>1, <1>2 DEF WriteGraph, GraphInv, Entity, Plain, Corporation
<1>3. CASE Unchanged
  <2>1. PICK c : c = Current
    OBVIOUS
  <2>2. PICK E : E = {Resolved(n) : n \in extraction.names}
    OBVIOUS
  <2>3. PICK R : R = {<<Resolved(l[1]), Resolved(l[2])>> :
                        l \in {k \in extraction.links : {k[1], k[2]} \subseteq extraction.names}}
    OBVIOUS
  <2>4. /\ entities' = entities \cup E /\ graph' = Put(graph, c, E) /\ relations' = Put(relations, c, R)
        /\ DOMAIN summaries' = DOMAIN summaries \cup {c}
    <3>1. /\ entities' = entities \cup E /\ graph' = Put(graph, c, E) /\ relations' = Put(relations, c, R)
          /\ \E v : summaries' = Put(summaries, c, v)
      BY <1>3, <2>1, <2>2, <2>3 DEF WriteGraph
    <3>2. \A v : DOMAIN Put(summaries, c, v) = DOMAIN summaries \cup {c}
      BY DEF Put
    <3>3. QED
      BY <3>1, <3>2
  <2>5. extraction.names \subseteq Names
    BY DEF ClusterInv, BuilderInv, WriteGraph
  <2>6. \A e \in E : e \in Entity /\ (e.kind = "plain" => e.name \notin aliases)
    BY <2>2, <2>5, ResolvedIsEntity
  <2>7. \A r \in R : {r[1], r[2]} \subseteq E
    BY <2>2, <2>3
  <2>8. /\ DOMAIN graph' = DOMAIN graph \cup {c} /\ graph'[c] = E
        /\ \A d \in DOMAIN graph \ {c} : graph'[d] = graph[d]
        /\ DOMAIN relations' = DOMAIN relations \cup {c} /\ relations'[c] = R
        /\ \A d \in DOMAIN relations \ {c} : relations'[d] = relations[d]
    <3>1. /\ DOMAIN Put(graph, c, E) = DOMAIN graph \cup {c} /\ Put(graph, c, E)[c] = E
          /\ \A d \in DOMAIN graph \ {c} : Put(graph, c, E)[d] = graph[d]
          /\ DOMAIN Put(relations, c, R) = DOMAIN relations \cup {c} /\ Put(relations, c, R)[c] = R
          /\ \A d \in DOMAIN relations \ {c} : Put(relations, c, R)[d] = relations[d]
      BY DEF Put
    <3>2. QED
      BY <2>4, <3>1
  <2>9. DOMAIN graph' = DOMAIN summaries' /\ DOMAIN relations' = DOMAIN summaries' /\ DOMAIN graph = DOMAIN relations
    BY <1>1, <2>4, <2>8 DEF GraphInv
  <2>10. entities' \subseteq Entity /\ \A e \in entities' : e.kind = "plain" => e.name \notin merged'
    BY <1>1, <2>4, <2>6 DEF GraphInv
  <2>11. \A d \in DOMAIN graph' : graph'[d] \subseteq entities'
    BY <1>1, <2>4, <2>8 DEF GraphInv
  <2>12. ASSUME NEW d \in DOMAIN graph', NEW r \in relations'[d] PROVE {r[1], r[2]} \subseteq graph'[d]
    <3>1. CASE d = c
      BY <3>1, <2>7, <2>8
    <3>2. CASE d # c
      BY <3>2, <1>1, <2>8, <2>9 DEF GraphInv
    <3>3. QED
      BY <3>1, <3>2
  <2>13. QED
    BY <1>1, <2>9, <2>10, <2>11, <2>12 DEF GraphInv, Entity, Plain, Corporation
<1>4. QED
  BY <1>2, <1>3

LEMMA GraphStays ==
    ASSUME ClusterInv, NewsNext
    PROVE  GraphInv'
<1>1. GraphInv
  BY DEF ClusterInv
<1>2. CASE Merge \/ WriteGraph
  BY <1>2, MergeKeepsGraph, WriteGraphKeepsGraph
<1>3. CASE Write
  <2>1. UNCHANGED <<aliases, merged, entities>>
    BY <1>3 DEF Write
  <2>2. /\ DOMAIN graph' = DOMAIN summaries' /\ DOMAIN relations' = DOMAIN summaries'
        /\ DOMAIN graph' \subseteq DOMAIN graph
        /\ \A c \in DOMAIN graph' : graph'[c] = graph[c] /\ relations'[c] = relations[c]
    BY <1>1, <1>3, WriteCascades DEF GraphInv
  <2>3. QED
    BY <1>1, <2>1, <2>2 DEF GraphInv, Entity, Plain, Corporation
<1>4. CASE ~Merge /\ ~WriteGraph /\ ~Write
  <2>1. UNCHANGED graphs /\ aliases \subseteq aliases'
    BY <1>4 DEF NewsNext, ClustererNext, EmbedBatch, SyncAliases, Load, Seed, Expand, Labelled, BuilderNext, Begin,
                Find, Read, Extract, ExtractFails, Finish, Killed
  <2>2. QED
    BY <1>1, <2>1 DEF GraphInv, graphs, Entity, Plain, Corporation
<1>5. QED
  BY <1>2, <1>3, <1>4

-----------------------------------------------------------------------------
(* The builder.                                                            *)

\* What is said of the clusters that wait holds of fewer of them.
WaitingInv(w) ==
    /\ w \in [DOMAIN w -> Nat \ {0}] /\ DOMAIN w \subseteq 1..(nextId - 1)
    /\ \A c \in DOMAIN w \cap DOMAIN clusters : w[c] <= clusters[c]

LEMMA FewerWait ==
    ASSUME ClusterInv
    PROVE  WaitingInv(waiting) /\ WaitingInv(Others)
<1>1. WaitingInv(waiting)
  BY DEF ClusterInv, BuilderInv, WaitingInv
<1>2. QED
  BY <1>1, OthersAre DEF WaitingInv

LEMMA WriteKeepsBuilder ==
    ASSUME ClusterInv, Write
    PROVE  BuilderInv'
<1>1. UNCHANGED <<bpc, waiting, read, extraction>> /\ Current' = Current
  BY DEF Write, builder, Current
<1>2. BuilderInv
  BY DEF ClusterInv
<1>3. nextId \in Nat /\ nextId' \in Nat /\ nextId' >= nextId
  <2>1. PICK id : Written(id)
    BY WriteWrites
  <2>2. QED
    BY <2>1 DEF Written, ClusterInv, StoreInv
<1>4. ASSUME NEW c \in DOMAIN waiting \cap DOMAIN clusters'
      PROVE  /\ waiting[c] \in Nat /\ c \in DOMAIN clusters
             /\ clusters[c] \in Nat /\ clusters'[c] \in Nat /\ clusters[c] <= clusters'[c]
             /\ clusters'[c] = clusters[c] => Members(c)' = Members(c)
             /\ waiting[c] <= clusters[c]
  <2>1. c < nextId /\ waiting[c] \in Nat
    BY <1>2, <1>3 DEF BuilderInv
  <2>2. /\ c \in DOMAIN clusters /\ clusters[c] \in Nat /\ clusters'[c] \in Nat /\ clusters[c] <= clusters'[c]
        /\ clusters'[c] = clusters[c] => Members(c)' = Members(c)
    BY <2>1, WriteKeepsVersions
  <2>3. QED
    BY <1>2, <2>1, <2>2 DEF BuilderInv
<1>5. DOMAIN waiting \subseteq 1..(nextId' - 1)
  BY <1>2, <1>3 DEF BuilderInv
<1>6. \A c \in DOMAIN waiting \cap DOMAIN clusters' : waiting[c] <= clusters'[c]
  <2>1. SUFFICES ASSUME NEW c \in DOMAIN waiting \cap DOMAIN clusters' PROVE waiting[c] <= clusters'[c]
    OBVIOUS
  <2>2. QED
    BY <1>4
<1>7. ASSUME bpc \in {"extract", "write"} PROVE Unchanged' => read = Members(Current)'
  <2>1. SUFFICES ASSUME Unchanged' PROVE read = Members(Current)'
    OBVIOUS
  <2>2. DOMAIN waiting # {} /\ (Unchanged => read = Members(Current))
    BY <1>2, <1>7 DEF BuilderInv
  <2>3. Current \in DOMAIN waiting
    <3>1. DOMAIN waiting \in SUBSET Nat
      BY <1>2, <1>3 DEF BuilderInv
    <3>2. QED
      BY <2>2, <3>1, MinIsMember DEF Current
  <2>4. PICK c : c = Current
    OBVIOUS
  <2>5. c \in DOMAIN waiting \cap DOMAIN clusters' /\ clusters'[c] = waiting[c]
    BY <1>1, <2>1, <2>3, <2>4 DEF Unchanged
  <2>6. c \in DOMAIN clusters /\ clusters'[c] = clusters[c] /\ clusters[c] = waiting[c]
    <3>1. /\ c \in DOMAIN clusters /\ clusters[c] \in Nat /\ clusters'[c] \in Nat
          /\ clusters[c] <= clusters'[c] /\ waiting[c] <= clusters[c]
      BY <1>4, <2>5
    <3>2. QED
      BY <2>5, <3>1
  <2>7. Members(c)' = Members(c)
    BY <1>4, <2>5, <2>6
  <2>8. Unchanged
    BY <2>4, <2>6 DEF Unchanged
  <2>9. Members(Current)' = Members(c)'
    BY <1>1, <2>4 DEF Members
  <2>10. QED
    BY <2>2, <2>4, <2>7, <2>8, <2>9
<1>8. QED
  BY <1>1, <1>2, <1>5, <1>6, <1>7 DEF BuilderInv

LEMMA BuilderStays ==
    ASSUME ClusterInv, NewsNext
    PROVE  BuilderInv'
<1>1. BuilderInv
  BY DEF ClusterInv
<1>2. CASE Write
  BY <1>2, WriteKeepsBuilder
<1>3. CASE EmbedBatch \/ SyncAliases \/ Load \/ Seed \/ Expand \/ Labelled
  <2>1. UNCHANGED <<assign, clusters, nextId, bpc, waiting, read, extraction>>
    BY <1>3 DEF EmbedBatch, SyncAliases, Load, Seed, Expand, Labelled, store, builder
  <2>2. Current' = Current /\ \A c : Members(c)' = Members(c)
    BY <2>1 DEF Current, Members
  <2>3. Unchanged' <=> Unchanged
    BY <2>1, <2>2 DEF Unchanged
  <2>4. QED
    BY <1>1, <2>1, <2>2, <2>3 DEF BuilderInv
<1>4. CASE BuilderNext \/ Killed
  <2>1. UNCHANGED <<assign, clusters, nextId>>
    BY <1>4 DEF BuilderNext, Begin, Merge, Find, Read, Extract, ExtractFails, WriteGraph, Finish, Killed, store
  <2>2. WaitingInv(waiting) /\ WaitingInv(Others)
    BY FewerWait
  <2>3. \A w : WaitingInv(w) => WaitingInv(w)'
    BY <2>1 DEF WaitingInv
  <2>4. \A c : Members(c)' = Members(c)
    BY <2>1 DEF Members
  <2>5. read \subseteq Articles
    BY <1>1 DEF BuilderInv
  <2>6. SUFFICES /\ WaitingInv(waiting') /\ read' \subseteq Articles
                 /\ bpc' \in {"extract", "write"} => DOMAIN waiting' # {} /\ (Unchanged' => read' = Members(Current)')
                 /\ bpc' = "write" => extraction'.names \subseteq Names
    BY <2>1 DEF BuilderInv, WaitingInv
  <2>7. CASE Begin \/ Merge \/ Finish
    BY <2>2, <2>5, <2>7 DEF Begin, Merge, Finish
  <2>8. CASE Find
    <3>1. waiting' = Only(clusters, Stale) /\ Stale \subseteq DOMAIN clusters /\ bpc' = "cluster" /\ read' = read
      BY <2>8 DEF Find, Stale
    <3>2. /\ DOMAIN waiting' = Stale /\ \A c \in Stale : waiting'[c] = clusters[c]
          /\ waiting' = [c \in DOMAIN waiting' |-> waiting'[c]]
      BY <3>1, OnlyIs
    <3>3. \A c \in Stale : clusters[c] \in Nat \ {0} /\ c \in 1..(nextId - 1) /\ clusters[c] <= clusters[c]
      BY <3>1 DEF ClusterInv, StoreInv
    <3>4. WaitingInv(waiting')
      BY <3>2, <3>3 DEF WaitingInv
    <3>5. QED
      BY <2>5, <3>1, <3>4
  <2>9. CASE Read
    <3>1. CASE Members(Current) = {}
      BY <2>2, <2>5, <2>9, <3>1 DEF Read
    <3>2. CASE Members(Current) # {}
      <4>1. read' = Members(Current) /\ bpc' = "extract" /\ waiting' = waiting /\ waiting # <<>>
        BY <2>9, <3>2 DEF Read
      <4>2. DOMAIN waiting # {}
        <5>1. waiting = [c \in DOMAIN waiting |-> waiting[c]]
          BY <2>2 DEF WaitingInv
        <5>2. PICK w : w = waiting
          OBVIOUS
        <5>3. w = [c \in DOMAIN w |-> w[c]] /\ w # <<>>
          BY <4>1, <5>1, <5>2
        <5>4. DOMAIN w # {}
          BY <5>3
        <5>5. QED
          BY <5>2, <5>4
      <4>3. Members(Current) \subseteq Articles
        BY DEF Members, ClusterInv, StoreInv, WorldInv, Visible
      <4>4. Current' = Current
        BY <4>1 DEF Current
      <4>5. Members(Current)' = Members(Current)
        BY <2>1, <4>4 DEF Members
      <4>6. QED
        BY <2>2, <4>1, <4>2, <4>3, <4>5
    <3>3. QED
      BY <3>1, <3>2
  <2>10. CASE Extract
    <3>1. bpc = "extract" /\ UNCHANGED <<waiting, read>> /\ bpc' = "write"
      BY <2>10 DEF Extract
    <3>2. Current' = Current
      BY <3>1 DEF Current
    <3>3. (Unchanged' <=> Unchanged) /\ Members(Current)' = Members(Current)
      BY <2>1, <3>1, <3>2 DEF Unchanged, Members
    <3>4. extraction'.names \subseteq Names
      <4>1. \A a \in read : Mentions[a] \subseteq Names
        BY <2>5, ClusterAssumption
      <4>2. PICK listed \in SUBSET UNION {Mentions[a] : a \in read} :
              extraction' = [names |-> listed,
                             links |-> (UNION {Mentions[a] : a \in read}) \X (UNION {Mentions[a] : a \in read})]
        BY <2>10 DEF Extract
      <4>3. extraction'.names = listed
        BY <4>2
      <4>4. QED
        BY <4>1, <4>3
    <3>5. DOMAIN waiting # {} /\ (Unchanged => read = Members(Current))
      BY <1>1, <3>1 DEF BuilderInv
    <3>6. QED
      BY <2>2, <2>5, <3>1, <3>3, <3>4, <3>5
  <2>11. CASE ExtractFails \/ WriteGraph
    <3>1. waiting' = Others /\ read' = {} /\ bpc' = "cluster"
      BY <2>11 DEF ExtractFails, WriteGraph
    <3>2. QED
      BY <2>2, <3>1
  <2>12. CASE Killed
    <3>1. waiting' = <<>> /\ read' = {} /\ bpc' = "idle"
      BY <2>12 DEF Killed
    <3>2. WaitingInv(waiting')
      BY <3>1 DEF WaitingInv
    <3>3. QED
      BY <3>1, <3>2
  <2>13. QED
    BY <1>4, <2>7, <2>8, <2>9, <2>10, <2>11, <2>12 DEF BuilderNext
<1>5. QED
  BY <1>2, <1>3, <1>4 DEF NewsNext, ClustererNext

-----------------------------------------------------------------------------
(* The theorems.                                                           *)

LEMMA ClusterInvStays ==
    ASSUME ClusterInv, [NewsNext]_newsVars
    PROVE  ClusterInv'
<1>1. CASE NewsNext
  BY <1>1, WorldKept, LabelsStay, StoreKept, SummariesStay, GraphStays, BuilderStays DEF ClusterInv
<1>2. CASE UNCHANGED newsVars
  <2>1. /\ UNCHANGED <<near, embedded, assign, clusters, nextId>> /\ UNCHANGED clusterer
        /\ UNCHANGED <<aliases, merged, entities, summaries, graph, relations>>
        /\ UNCHANGED <<bpc, waiting, read, extraction>>
    BY <1>2 DEF newsVars, clusterer
  <2>2. WorldInv' /\ Visible' = Visible
    BY <2>1 DEF ClusterInv, WorldInv, Visible, clusterer
  <2>3. LabelsInv'
    BY <2>1, LabelsKept DEF ClusterInv
  <2>4. \A c : Members(c)' = Members(c)
    BY <2>1 DEF Members
  <2>5. \A a : CoreIn(Visible, a)' <=> CoreIn(Visible, a)
    BY <2>1, <2>2 DEF CoreIn
  <2>6. StoreInv'
    BY <2>1, <2>2, <2>4, <2>5 DEF ClusterInv, StoreInv
  <2>7. SummaryInv'
    BY <2>1, SummaryKept
  <2>8. GraphInv'
    BY <2>1 DEF ClusterInv, GraphInv, Entity, Plain, Corporation
  <2>9. Current' = Current
    BY <2>1 DEF Current
  <2>10. (Unchanged' <=> Unchanged) /\ Members(Current)' = Members(Current)
    BY <2>1, <2>9 DEF Unchanged, Members
  <2>11. BuilderInv'
    BY <2>1, <2>10 DEF ClusterInv, BuilderInv
  <2>12. QED
    BY <2>2, <2>3, <2>6, <2>7, <2>8, <2>11 DEF ClusterInv
<1>3. QED
  BY <1>1, <1>2

LEMMA ClusterInvariance == NewsSpec => []ClusterInv
<1>1. NewsInit => ClusterInv
  BY FirstInv
<1>2. ClusterInv /\ [NewsNext]_newsVars => ClusterInv'
  BY ClusterInvStays
<1>3. QED
  BY <1>1, <1>2, PTL DEF NewsSpec

\* Whatever the articles, the neighbourhoods and the order in which embeddings
\* arrive, the labels _label_clusters ends with are those of DBSCAN: it stops
\* neither early nor runs over into another cluster.
THEOREM LabelsCorrect == NewsSpec => []LabelsAreDense
<1>1. ClusterInv => LabelsAreDense
  BY CompleteLabels
<1>2. QED
  BY <1>1, ClusterInvariance, PTL

LEMMA SoundInv ==
    ASSUME ClusterInv
    PROVE  GraphIsSound
<1>1. WorldInv /\ StoreInv /\ LabelInv /\ SummaryInv /\ GraphInv /\ BuilderInv
  BY DEF ClusterInv, LabelsInv
<1>2. DOMAIN assign \subseteq embedded
  BY <1>1 DEF StoreInv, Visible, WorldInv
<1>3. DOMAIN clusters = {assign[a] : a \in DOMAIN assign}
  <2>1. \A a \in DOMAIN assign : assign[a] \in DOMAIN clusters
    BY <1>1 DEF StoreInv
  <2>2. \A c \in DOMAIN clusters : \E a \in DOMAIN assign : assign[a] = c
    BY <1>1 DEF StoreInv, Members
  <2>3. QED
    BY <2>1, <2>2
<1>4. \A c \in DOMAIN clusters : c \in 1..(nextId - 1) /\ clusters[c] \in Nat \ {0}
  BY <1>1 DEF StoreInv
<1>5. NewsTypeOK
  <2>1. embedded \subseteq Articles /\ loaded \subseteq embedded /\ cpc \in {"idle", "label", "write"}
        /\ bpc \in {"idle", "merge", "find", "cluster", "extract", "write"}
    BY <1>1 DEF WorldInv
  <2>2. /\ DOMAIN summaries \subseteq DOMAIN clusters /\ DOMAIN graph = DOMAIN summaries
        /\ DOMAIN relations = DOMAIN summaries /\ merged \subseteq aliases /\ entities \subseteq Entity
    BY <1>1 DEF SummaryInv, GraphInv
  <2>3. labels \in [loaded -> Labels \cup {Noise}] /\ read \subseteq Articles
    BY <1>1 DEF LabelInv, BuilderInv
  <2>4. QED
    BY <1>2, <1>3, <1>4, <2>1, <2>2, <2>3 DEF NewsTypeOK
<1>6. GraphIsMerged
  BY <1>1, <1>5 DEF GraphInv, GraphIsMerged
<1>7. SummaryIsOfItsCluster
  BY <1>1 DEF SummaryInv, SummaryIsOfItsCluster
<1>8. QED
  BY <1>6, <1>7 DEF GraphIsSound

\* Whatever the clusterer rewrites while the LLM is at work, and wherever the
\* builder is killed, a summary of a cluster's updated_at was made of the
\* articles the cluster has, and the graph holds no row of a merged name, no
\* relation of an entity its cluster lacks and no row without a cluster.
THEOREM GraphCorrect == NewsSpec => []GraphIsSound
<1>1. ClusterInv => GraphIsSound
  BY SoundInv
<1>2. QED
  BY <1>1, ClusterInvariance, PTL

\* Every run of the clusterer keeps the id of a cluster whose best successor it
\* is the best predecessor of, and gives no id to a cluster that has none of the
\* articles the id stood for.
THEOREM IdsCorrect == NewsSpec => IdsAreKept
<1> DEFINE SameIds ==
        \A c \in DOMAIN clusters : \A d \in DOMAIN clusters' :
            LET shared(x, y) == Cardinality(Members(x) \cap Members(y)')
            IN  /\ /\ \A x \in DOMAIN clusters \ {c} : shared(x, d) < shared(c, d)
                   /\ \A y \in DOMAIN clusters' \ {d} : shared(c, y) < shared(c, d)
                   => c = d
                /\ c = d => shared(c, d) > 0
<1>1. ASSUME ClusterInv, [NewsNext]_newsVars
      PROVE  [SameIds]_<<assign, clusters>>
  <2>1. CASE Write
    BY <1>1, <2>1, WriteKeepsIds
  <2>2. CASE ~Write
    BY <1>1, <2>2 DEF newsVars, NewsNext, ClustererNext, EmbedBatch, SyncAliases, Load, Seed, Expand, Labelled,
                      BuilderNext, Begin, Merge, Find, Read, Extract, ExtractFails, WriteGraph, Finish, Killed, store
  <2>3. QED
    BY <2>1, <2>2
<1>2. QED
  BY <1>1, ClusterInvariance, PTL DEF NewsSpec, IdsAreKept

=============================================================================
