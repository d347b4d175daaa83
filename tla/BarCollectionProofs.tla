------------------------ MODULE BarCollectionProofs ------------------------
(***************************************************************************)
(* What holds of market_collector for any index, any calendar and length   *)
(* of a session, any page of the chart service, any window of the          *)
(* checkpoints, and any number of failures, crashes, lags and outages.     *)
(*                                                                         *)
(* The inductive invariant says of every table that it has no hole and is  *)
(* final behind its newest bar (TableInv), of what a pass has fetched so   *)
(* far that it is a piece of the service's history without a hole that     *)
(* reaches the present (GotInv, ReachInv), and of the series a pass is     *)
(* through with that they have all there was when it began (DoneInv).      *)
(***************************************************************************)
EXTENDS BarCollection, SequenceTheorems, FiniteSetTheorems, WellFoundedInduction, TLAPS

Today == Day(now)
InRun == pc \notin {"idle", "failed"}
AtSeries == pc \in {"page", "write"}
InPass == pc \in {"page", "write", "rank"}

AsTable(table) ==
    /\ table = [s \in Series |-> table[s]]
    /\ \A s \in Series :
        table[s] \in [Bars(table, s) -> BOOLEAN] /\ Bars(table, s) \subseteq FirstSlot..LastSlot

\* The tables hold bars, those that queries see are written, and nothing is
\* left of a pass when none is made.
TypeInv ==
    /\ TypeOK
    /\ AsTable(written) /\ AsTable(applied)
    /\ \A s \in Series : Bars(applied, s) \subseteq Bars(written, s)
    /\ InPass => started \in 1..now /\ Day(started) = Today
    /\ AtSeries => todo # <<>>
    /\ pc = "rank" => todo = <<>>

\* No hole between two bars, and the older one is final.
Unbroken(bars, timeframe) ==
    \A b, c \in DOMAIN bars : b < c =>
        /\ bars[b]
        /\ \A d \in Served(timeframe, LastSlot) : b < d /\ d < c => d \in DOMAIN bars

TableInv ==
    \A s \in Series : Unbroken(written[s], s[2]) /\ Unbroken(applied[s], s[2])

\* Nothing is stored that the service does not know yet, and of today, the
\* bars are stored from the first one on.
TodayInv ==
    \A s \in Series :
        /\ Bars(written, s) \subseteq Served(s[2], now)
        /\ \A b \in Bars(written, s) : Day(b) = Today =>
            \A c \in Served(s[2], LastSlot) : Day(c) = Today /\ c < b => c \in Bars(written, s)

HasToday(s) == \E b \in Bars(written, s) : Day(b) = Today

\* Bars that go back to the first the service knows, or as far as a first
\* collection goes.
Reaches(bars, timeframe) ==
    \A d \in Served(timeframe, LastSlot) \ bars :
        (\E b \in bars : d < b) => Cardinality(bars) >= Limits[timeframe]

\* A series without a bar, or one that was first collected today.
New(s) == Bars(written, s) = {} \/ (HasToday(s) /\ Reaches(Bars(written, s), s[2]))

\* A run is of a trading day, its last pass is still to be made or was the
\* last, and what queries take for a new series is one.
RunInv ==
    /\ ~InRun => days = Unknown
    /\ InRun =>
        /\ Today \in TradingDays /\ ~due
        /\ \A s \in Series : Bars(applied, s) = {} => New(s)
        /\ days # Unknown => days \subseteq {d \in Int : d < Today}
        /\ pc # "end" => Close(Today) \in pending /\ \A p \in pending : p <= Close(Today)
        /\ pc = "end" => pending = {}

\* The checkpoints of a pass: a stored bar of every series, unless there was
\* none when it began.  The last pass begins after the close.
LatestInv ==
    InPass =>
        /\ \E p \in pending : p <= started
        /\ \A s \in Series :
            IF latest[s] = None THEN New(s) ELSE latest[s] \in Bars(applied, s)

\* What was fetched of a series: an unbroken piece that ends with the newest
\* bar there was, and every bar in it that was final when the pass began is.
GotInv ==
    AtSeries =>
        LET s == Head(todo)
        IN  /\ DOMAIN got \subseteq Served(s[2], now)
            /\ Unbroken(got, s[2])
            /\ \A b \in DOMAIN got : Final(s[2], b, started) => got[b]
            /\ DOMAIN got # {} => \E top \in DOMAIN got :
                /\ Day(top) = Today
                /\ \A b \in Bars(written, s) : b <= top
                /\ \A c \in Served(s[2], started) : c <= top

\* When the paging ends, it has come to the checkpoint or, without one, as
\* far back as a first collection goes.
ReachInv ==
    pc = "write" =>
        LET s == Head(todo)
        IN  /\ DOMAIN got # {}
            /\ IF latest[s] # None THEN \E b \in DOMAIN got : b <= latest[s]
               ELSE Reaches(DOMAIN got, s[2])

\* The pass has stored the day as it was when the pass began.
Collected(s) ==
    \A c \in Served(s[2], started) : Day(c) = Today =>
        c \in Bars(written, s) /\ (Final(s[2], c, started) => written[s][c])

DoneInv ==
    InPass =>
        \A s \in Series : s[2] = "1m" \/ pending = {Close(Today)} =>
            (\E i \in DOMAIN todo : todo[i] = s) \/ Collected(s)

\* Every bar of today is stored in its final form.
Complete ==
    \A s \in Series : \A b \in Served(s[2], LastSlot) :
        Day(b) = Today => b \in Bars(written, s) /\ written[s][b]

ExitInv ==
    /\ pc = "end" /\ ~closeFailed => Complete
    /\ exit = "ok" => pc = "idle" /\ ~due /\ (Today \in TradingDays => Complete)

IInv ==
    /\ TypeInv /\ TableInv /\ TodayInv /\ RunInv /\ LatestInv
    /\ GotInv /\ ReachInv /\ DoneInv /\ ExitInv /\ RankedVolumesAreFinal

-----------------------------------------------------------------------------
(* Slots, days and closes.                                                 *)

\* What the constants are.
LEMMA Numbers ==
    /\ SlotsPerDay \in Int /\ SlotsPerDay > 1
    /\ FirstSlot \in Int /\ FirstSlot <= 0
    /\ LastSlot \in Int /\ LastSlot > 0 /\ LastSlot = Close(Day(LastSlot))
<1>1. SlotsPerDay \in Int /\ SlotsPerDay > 1
  BY BarAssumption
<1>2. FirstSlot \in Int /\ FirstSlot <= 0
  BY BarAssumption
<1>3. LastSlot \in Int /\ LastSlot > 0
  BY BarAssumption
<1>4. LastSlot = Close(Day(LastSlot))
  BY BarAssumption, Zenon DEF Minute
<1>5. QED
  BY <1>1, <1>2, <1>3, <1>4

\* The close of a day is a slot.
LEMMA CloseIsSlot == ASSUME NEW d \in Int PROVE Close(d) \in Int
BY Numbers, SMTT(30) DEF Close

\* Two days are at least a day apart.
LEMMA ClosesApart ==
    ASSUME NEW d \in Int, NEW e \in Int, d < e
    PROVE  Close(d) + SlotsPerDay <= Close(e)
BY Numbers, SMTT(30) DEF Close

\* A slot lies between the close of the day before and that of its day.
LEMMA DayBounds ==
    ASSUME NEW t \in Int
    PROVE  /\ Day(t) \in Int /\ Close(Day(t)) \in Int
           /\ Close(Day(t)) - SlotsPerDay < t /\ t <= Close(Day(t))
<1>1. Day(t) \in Int /\ Close(Day(t)) - SlotsPerDay < t /\ t <= Close(Day(t))
  BY Numbers, SMTT(30) DEF Day, Close
<1>2. QED
  BY <1>1, CloseIsSlot

\* That day is the only one.
LEMMA DayIsUnique ==
    ASSUME NEW t \in Int, NEW d \in Int, Close(d) - SlotsPerDay < t, t <= Close(d)
    PROVE  Day(t) = d
<1>1. Close(d) \in Int /\ SlotsPerDay \in Int
  BY CloseIsSlot, Numbers
<1>2. ASSUME Day(t) < d PROVE FALSE
  <2>1. Close(Day(t)) + SlotsPerDay <= Close(d)
    BY <1>2, DayBounds, ClosesApart
  <2>2. QED
    BY <2>1, <1>1, DayBounds
<1>3. ASSUME d < Day(t) PROVE FALSE
  <2>1. Close(d) + SlotsPerDay <= Close(Day(t))
    BY <1>3, DayBounds, ClosesApart
  <2>2. QED
    BY <2>1, <1>1, DayBounds
<1>4. QED
  BY <1>2, <1>3, DayBounds

\* Days follow each other as their slots do.
LEMMA DaysAreOrdered ==
    ASSUME NEW t \in Int, NEW u \in Int, t <= u
    PROVE  Day(t) <= Day(u)
<1>1. ASSUME Day(u) < Day(t) PROVE FALSE
  <2>1. Close(Day(u)) + SlotsPerDay <= Close(Day(t))
    BY <1>1, DayBounds, ClosesApart
  <2>2. QED
    BY <2>1, DayBounds, Numbers
<1>2. QED
  BY <1>1, DayBounds

\* The close is a slot of its day.
LEMMA DayOfClose == ASSUME NEW d \in Int PROVE Day(Close(d)) = d
<1>1. Close(d) \in Int /\ SlotsPerDay \in Int /\ SlotsPerDay > 1
  BY CloseIsSlot, Numbers
<1>2. QED
  BY <1>1, DayIsUnique

\* The day changes after the close only.
LEMMA NextSlot ==
    ASSUME NEW t \in Int
    PROVE  Day(t + 1) = IF Minute(t) THEN Day(t) ELSE Day(t) + 1
<1>1. SlotsPerDay \in Int /\ SlotsPerDay > 1
  BY Numbers
<1>2. CASE Minute(t)
  <2>1. t # Close(Day(t))
    BY <1>2 DEF Minute
  <2>2. Close(Day(t)) \in Int /\ Close(Day(t)) - SlotsPerDay < t /\ t <= Close(Day(t))
    BY DayBounds
  <2>3. t + 1 <= Close(Day(t)) /\ Close(Day(t)) - SlotsPerDay < t + 1
    BY <2>1, <2>2, <1>1
  <2>4. QED
    BY <2>3, <1>2, DayBounds, DayIsUnique
<1>3. CASE ~Minute(t)
  <2>1. t = Close(Day(t))
    BY <1>3 DEF Minute
  <2>2. Close(Day(t)) + SlotsPerDay = Close(Day(t) + 1)
    BY DayBounds, <1>1, SMTT(30) DEF Close
  <2>3. t + 1 <= Close(Day(t) + 1) /\ Close(Day(t) + 1) - SlotsPerDay < t + 1
    BY <2>1, <2>2, <1>1, DayBounds
  <2>4. QED
    BY <2>3, <1>3, DayBounds, DayIsUnique
<1>4. QED
  BY <1>2, <1>3

-----------------------------------------------------------------------------
(* What the chart service serves.                                          *)

\* Minutes of trading days,
LEMMA ServedMinutes ==
    ASSUME NEW n \in Int, NEW c
    PROVE  c \in Served("1m", n) <=>
              /\ c \in Int /\ FirstSlot <= c /\ c <= n
              /\ Minute(c) /\ Day(c) \in TradingDays
BY BarAssumption DEF Served

\* and the closes of trading days.
LEMMA ServedCloses ==
    ASSUME NEW n \in Int, NEW c
    PROVE  c \in Served("1d", n) <=>
              /\ c \in Int /\ FirstSlot <= c /\ c - SlotsPerDay < n
              /\ ~Minute(c) /\ Day(c) \in TradingDays
<1>1. ASSUME c \in Served("1d", n)
      PROVE  /\ c \in Int /\ FirstSlot <= c /\ c - SlotsPerDay < n
             /\ ~Minute(c) /\ Day(c) \in TradingDays
  <2>1. PICK d \in TradingDays : c = Close(d) /\ FirstSlot <= Close(d) /\ Close(d) - SlotsPerDay < n
    BY <1>1 DEF Served
  <2>2. d \in Int
    BY BarAssumption
  <2>3. QED
    BY <2>1, <2>2, CloseIsSlot, DayOfClose DEF Minute
<1>2. ASSUME c \in Int, FirstSlot <= c, c - SlotsPerDay < n, ~Minute(c), Day(c) \in TradingDays
      PROVE  c \in Served("1d", n)
  BY <1>2 DEF Served, Minute
<1>3. QED
  BY <1>1, <1>2

\* There are two timeframes.
LEMMA TimeframeOf == ASSUME NEW s \in Series PROVE s[2] \in Timeframes
BY DEF Series

\* What is served is a slot of a trading day that has begun.
LEMMA ServedIsSlot ==
    ASSUME NEW f \in Timeframes, NEW n \in Int, NEW c \in Served(f, n)
    PROVE  c \in Int /\ FirstSlot <= c /\ Day(c) \in TradingDays /\ Day(c) <= Day(n)
<1>1. CASE f = "1m"
  BY <1>1, ServedMinutes, DaysAreOrdered
<1>2. CASE f = "1d"
  <2>1. c \in Int /\ FirstSlot <= c /\ c - SlotsPerDay < n /\ c = Close(Day(c)) /\ Day(c) \in TradingDays
    BY <1>2, ServedCloses DEF Minute
  <2>2. ASSUME Day(n) < Day(c) PROVE FALSE
    <3>1. Close(Day(n)) + SlotsPerDay <= c
      BY <2>1, <2>2, DayBounds, ClosesApart
    <3>2. QED
      BY <2>1, <3>1, DayBounds, Numbers
  <2>3. QED
    BY <2>1, <2>2, DayBounds
<1>3. QED
  BY <1>1, <1>2 DEF Timeframes

\* It lies within the bounds of time,
LEMMA ServedInBounds ==
    ASSUME NEW f \in Timeframes, NEW n \in Int, n <= LastSlot
    PROVE  Served(f, n) \subseteq FirstSlot..LastSlot
<1> SUFFICES ASSUME NEW c \in Served(f, n) PROVE c \in FirstSlot..LastSlot
  OBVIOUS
<1>1. c \in Int /\ FirstSlot <= c /\ Day(c) <= Day(n)
  BY ServedIsSlot
<1>2. Day(n) <= Day(LastSlot)
  BY DaysAreOrdered, Numbers
<1>3. Close(Day(c)) <= Close(Day(LastSlot))
  <2>1. Day(c) \in Int /\ Day(LastSlot) \in Int /\ Day(c) <= Day(LastSlot)
    BY <1>1, <1>2, DayBounds, Numbers
  <2>2. Close(Day(c)) \in Int /\ Close(Day(LastSlot)) \in Int
    BY <2>1, CloseIsSlot
  <2>3. Day(c) < Day(LastSlot) => Close(Day(c)) + SlotsPerDay <= Close(Day(LastSlot))
    BY <2>1, ClosesApart
  <2>4. QED
    BY <2>1, <2>2, <2>3, Numbers
<1>4. c <= LastSlot
  BY <1>1, <1>3, DayBounds, Numbers
<1>5. QED
  BY <1>1, <1>4, Numbers

\* is served for ever,
LEMMA ServedForEver ==
    ASSUME NEW f \in Timeframes, NEW m \in Int, NEW n \in Int, m <= n
    PROVE  Served(f, m) \subseteq Served(f, n)
<1>1. CASE f = "1m"
  BY <1>1, ServedMinutes
<1>2. CASE f = "1d"
  BY <1>2, ServedCloses, Numbers
<1>3. QED
  BY <1>1, <1>2 DEF Timeframes

\* and whatever is older is served with it.
LEMMA OlderIsServed ==
    ASSUME NEW f \in Timeframes, NEW m \in Int, NEW n \in Int,
           NEW b \in Served(f, n), NEW c \in Served(f, m), c <= b
    PROVE  c \in Served(f, n)
<1>1. CASE f = "1m"
  BY <1>1, ServedMinutes
<1>2. CASE f = "1d"
  BY <1>2, ServedCloses, Numbers
<1>3. QED
  BY <1>1, <1>2 DEF Timeframes

\* A bar is final once there is a newer one,
LEMMA OlderIsFinal ==
    ASSUME NEW f \in Timeframes, NEW n \in Int,
           NEW b \in Served(f, n), NEW c \in Served(f, n), b < c
    PROVE  Final(f, b, n)
<1>1. CASE f = "1m"
  BY <1>1, ServedMinutes DEF Final
<1>2. CASE f = "1d"
  <2>1. /\ b \in Int /\ b = Close(Day(b))
        /\ c \in Int /\ c = Close(Day(c)) /\ c - SlotsPerDay < n
    BY <1>2, ServedCloses DEF Minute
  <2>2. Day(b) < Day(c)
    <3>1. Day(b) <= Day(c)
      BY <2>1, DaysAreOrdered
    <3>2. QED
      BY <2>1, <3>1, DayBounds
  <2>3. b + SlotsPerDay <= c
    BY <2>1, <2>2, ClosesApart, DayBounds
  <2>4. b <= n
    BY <2>1, <2>3, Numbers
  <2>5. QED
    BY <1>2, <2>4 DEF Final
<1>3. QED
  BY <1>1, <1>2 DEF Timeframes

\* and stays final.
LEMMA FinalForEver ==
    ASSUME NEW f \in Timeframes, NEW m \in Int, NEW n \in Int, m <= n,
           NEW b \in Int, Final(f, b, m)
    PROVE  Final(f, b, n)
BY DEF Final

\* On a trading day there is a bar of today at every slot.
LEMMA TodayIsServed ==
    ASSUME NEW f \in Timeframes, NEW n \in 1..LastSlot, Day(n) \in TradingDays
    PROVE  \E b \in Served(f, n) : Day(b) = Day(n)
<1>0. n \in Int /\ n >= 1
  BY Numbers
<1> DEFINE opening == Close(Day(n)) - SlotsPerDay + 1
<1>1. /\ Day(n) \in Int /\ Close(Day(n)) \in Int
      /\ Close(Day(n)) - SlotsPerDay < n /\ n <= Close(Day(n))
  BY <1>0, DayBounds
<1>2. CASE f = "1m"
  <2>1. opening \in Int /\ opening <= n /\ opening < Close(Day(n))
        /\ Close(Day(n)) - SlotsPerDay < opening
    BY <1>1, <1>0, Numbers
  <2>2. Day(opening) = Day(n)
    BY <2>1, <1>1, DayIsUnique
  <2>3. FirstSlot <= opening
    <3>1. 0 <= Day(n) - 1
      <4>1. Day(n) <= 0 => Close(Day(n)) <= 0
        BY <1>1, Numbers, SMTT(30) DEF Close
      <4>2. QED
        BY <4>1, <1>0, <1>1
    <3>2. 0 <= Close(Day(n)) - SlotsPerDay
      BY <3>1, <1>1, Numbers, SMTT(30) DEF Close
    <3>3. QED
      BY <3>2, <1>1, Numbers
  <2>4. opening \in Served("1m", n)
    BY <2>1, <2>2, <2>3, <1>0, <1>1, ServedMinutes DEF Minute
  <2>5. QED
    BY <2>4, <2>2, <1>2
<1>3. CASE f = "1d"
  <2>1. Close(Day(n)) - SlotsPerDay < n /\ FirstSlot <= Close(Day(n))
    BY <1>0, <1>1, Numbers
  <2>2. Day(Close(Day(n))) = Day(n)
    BY <1>1, DayOfClose
  <2>3. Close(Day(n)) \in Served("1d", n)
    BY <2>1, <2>2, <1>0, <1>1, ServedCloses DEF Minute
  <2>4. QED
    BY <2>2, <2>3, <1>3
<1>4. QED
  BY <1>2, <1>3 DEF Timeframes

\* After the close all bars of the day are served, and final.
LEMMA ClosedDayIsServed ==
    ASSUME NEW f \in Timeframes, NEW n \in Int, ~Minute(n),
           NEW b \in Served(f, LastSlot), Day(b) = Day(n)
    PROVE  b \in Served(f, n) /\ Final(f, b, n)
<1>1. n = Close(Day(n)) /\ SlotsPerDay \in Int /\ SlotsPerDay > 1 /\ LastSlot \in Int
  BY Numbers DEF Minute
<1>2. b \in Int /\ FirstSlot <= b /\ Day(b) \in TradingDays /\ b <= n
  BY <1>1, ServedIsSlot, DayBounds
<1>3. CASE f = "1m"
  <2>1. Minute(b)
    BY <1>1, <1>3, ServedMinutes
  <2>2. b # n
    BY <2>1, <1>1 DEF Minute
  <2>3. QED
    BY <2>1, <2>2, <1>2, <1>3, ServedMinutes DEF Final
<1>4. CASE f = "1d"
  <2>1. ~Minute(b)
    BY <1>1, <1>4, ServedCloses
  <2>2. b - SlotsPerDay < n
    BY <1>1, <1>2
  <2>3. QED
    BY <2>1, <2>2, <1>2, <1>4, ServedCloses DEF Final
<1>5. QED
  BY <1>3, <1>4 DEF Timeframes

-----------------------------------------------------------------------------
(* Sets of slots.                                                          *)

\* Slots that do not go back for ever have a first.
LEMMA FirstIsMember ==
    ASSUME NEW S \in SUBSET Int, S # {}, NEW c \in Int, \A m \in S : c <= m
    PROVE  Min(S) \in S /\ \A m \in S : Min(S) <= m
<1> DEFINE T == {m - c : m \in S}
<1>1. T \in SUBSET Nat
  OBVIOUS
<1>2. T # {}
  <2>1. PICK m \in S : TRUE
    OBVIOUS
  <2>2. m - c \in T
    BY <2>1
  <2>3. QED
    BY <2>2
<1>3. PICK t \in T : \A u \in T : <<u, t>> \notin OpToRel(<, Nat)
  BY <1>1, <1>2, WFMin, NatLessThanWellFounded, Zenon
<1>4. PICK n \in S : t = n - c
  BY <1>3
<1>5. \A u \in T : ~(u < t)
  <2>1. SUFFICES ASSUME NEW u \in T, u < t PROVE FALSE
    OBVIOUS
  <2>2. u \in Nat /\ t \in Nat
    BY <1>1
  <2>3. <<u, t>> \in OpToRel(<, Nat)
    BY <2>1, <2>2 DEF OpToRel
  <2>4. QED
    BY <2>3, <1>3
<1>6. \A m \in S : m - c \in T
  OBVIOUS
<1>7. \A m \in S : n <= m
  <2>1. SUFFICES ASSUME NEW m \in S PROVE n <= m
    OBVIOUS
  <2>2. ~(m - c < n - c)
    BY <1>4, <1>5, <1>6
  <2> HIDE DEF T
  <2>3. m \in Int /\ n \in Int /\ c \in Int
    OBVIOUS
  <2>4. QED
    BY <2>2, <2>3
<1>8. QED
  BY <1>7 DEF Min

\* Slots that end have a last.
LEMMA LastIsMember ==
    ASSUME NEW S \in SUBSET Int, S # {}, NEW c \in Int, \A m \in S : m <= c
    PROVE  Max(S) \in S /\ \A m \in S : m <= Max(S)
<1> DEFINE T == {c - m : m \in S}
<1>1. T \in SUBSET Int /\ \A t \in T : 0 <= t
  OBVIOUS
<1>2. T # {}
  <2>1. PICK m \in S : TRUE
    OBVIOUS
  <2>2. c - m \in T
    BY <2>1
  <2>3. QED
    BY <2>2
<1>3. Min(T) \in T /\ \A t \in T : Min(T) <= t
  <2> HIDE DEF T
  <2>1. 0 \in Int
    OBVIOUS
  <2>2. QED
    BY <2>1, <1>1, <1>2, FirstIsMember
<1>4. PICK n \in S : Min(T) = c - n
  BY <1>3
<1>5. \A m \in S : n >= m
  <2>1. SUFFICES ASSUME NEW m \in S PROVE n >= m
    OBVIOUS
  <2>2. c - m \in T
    OBVIOUS
  <2>3. Min(T) <= c - m
    BY <2>2, <1>3
  <2>4. m \in Int /\ n \in Int
    OBVIOUS
  <2> HIDE DEF T
  <2>5. c - n <= c - m
    BY <2>3, <1>4
  <2>6. QED
    BY <2>4, <2>5
<1>6. QED
  BY <1>5 DEF Max

\* What is served is finite, and so is a part of it.
LEMMA ServedIsFinite ==
    ASSUME NEW f \in Timeframes, NEW n \in Int, n <= LastSlot,
           NEW S \in SUBSET Served(f, n)
    PROVE  IsFiniteSet(S) /\ Cardinality(S) \in Nat
<1>1. S \in SUBSET (FirstSlot..LastSlot)
  BY ServedInBounds
<1>2. IsFiniteSet(FirstSlot..LastSlot)
  BY FS_Interval, Numbers
<1>3. QED
  BY <1>1, <1>2, FS_Subset, FS_CardinalityType

\* Of two parts of it, one in the other, the larger has no fewer bars.
LEMMA MoreAreMore ==
    ASSUME NEW f \in Timeframes, NEW n \in Int, n <= LastSlot,
           NEW S \in SUBSET Served(f, n), NEW T \in SUBSET S
    PROVE  Cardinality(T) <= Cardinality(S)
BY ServedIsFinite, FS_Subset

\* The bars after one of today are fewer than a first collection takes.
LEMMA TodayIsWithinLimit ==
    ASSUME NEW f \in Timeframes, NEW n \in Int, n <= LastSlot,
           NEW S \in SUBSET Served(f, n),
           NEW d \in Served(f, LastSlot), Day(d) = Day(n), \A c \in S : d < c
    PROVE  Cardinality(S) < Limits[f]
<1>1. d \in Int /\ Day(n) \in Int
  BY ServedIsSlot, DayBounds, Numbers
<1>2. \A c \in S : c \in Int /\ Day(c) = Day(n)
  <2>1. SUFFICES ASSUME NEW c \in S PROVE c \in Int /\ Day(c) = Day(n)
    OBVIOUS
  <2>2. c \in Int /\ Day(c) <= Day(n)
    BY ServedIsSlot
  <2>3. Day(d) <= Day(c)
    BY <2>2, <1>1, DaysAreOrdered
  <2>4. QED
    BY <2>2, <2>3, <1>1, DayBounds
<1>3. Limits[f] \in Nat /\ Limits[f] > 0
  BY BarAssumption
<1>4. CASE f = "1m"
  <2> DEFINE close == Close(Day(n))
  <2>1. close \in Int /\ close - SlotsPerDay < d /\ d <= close
    BY <1>1, DayBounds
  <2>2. S \in SUBSET (d + 1 .. close - 1)
    <3>1. SUFFICES ASSUME NEW c \in S PROVE c \in d + 1 .. close - 1
      OBVIOUS
    <3>2. c <= close /\ c # close
      BY <1>2, <1>4, DayBounds, ServedMinutes DEF Minute
    <3>3. QED
      BY <3>2, <1>1, <1>2, <2>1
  <2>3. /\ IsFiniteSet(d + 1 .. close - 1)
        /\ Cardinality(d + 1 .. close - 1) = IF d + 1 > close - 1 THEN 0 ELSE (close - 1) - (d + 1) + 1
    <3>1. d + 1 \in Int /\ close - 1 \in Int
      BY <1>1, <2>1
    <3> HIDE DEF close
    <3>2. QED
      BY <3>1, FS_Interval
  <2>4. Cardinality(S) <= Cardinality(d + 1 .. close - 1) /\ Cardinality(S) \in Nat
    BY <2>2, <2>3, FS_Subset, ServedIsFinite
  <2>5. Limits[f] >= SlotsPerDay - 1
    BY <1>4, BarAssumption
  <2>6. QED
    BY <2>1, <2>3, <2>4, <2>5, <1>1, <1>3, Numbers
<1>5. CASE f = "1d"
  <2>1. S = {}
    <3>1. SUFFICES ASSUME NEW c \in S PROVE FALSE
      OBVIOUS
    <3>2. c = Close(Day(n)) /\ d = Close(Day(n))
      BY <1>2, <1>5, ServedCloses, Numbers DEF Minute
    <3>3. QED
      BY <3>2, <1>1
  <2>2. QED
    BY <2>1, <1>3, FS_EmptySet
<1>6. QED
  BY <1>4, <1>5 DEF Timeframes

-----------------------------------------------------------------------------
(* Storing what was fetched.                                               *)

\* What of the fetched bars is written, as Rows has it.
ToStore(bars, f, from) ==
    {b \in bars : IF from # None THEN b >= from
                  ELSE Cardinality({c \in bars : c > b}) < Limits[f]}

\* Bars g of timeframe f that were fetched by slot n to go after bar from of
\* a series, or to be the first of it.
Fetched(g, old, f, from, n) ==
    /\ f \in Timeframes /\ n \in 1..LastSlot
    /\ DOMAIN g \subseteq Served(f, n) /\ Unbroken(g, f)
    /\ DOMAIN old \subseteq Served(f, n) /\ Unbroken(old, f)
    /\ \A b \in DOMAIN old : Day(b) = Day(n) =>
        \A c \in Served(f, LastSlot) : Day(c) = Day(n) /\ c < b => c \in DOMAIN old
    /\ \E top \in DOMAIN g : Day(top) = Day(n) /\ \A b \in DOMAIN old : b <= top
    /\ IF from # None
       THEN from \in DOMAIN old /\ \E b \in DOMAIN g : b <= from
       ELSE /\ Reaches(DOMAIN g, f)
            /\ DOMAIN old # {} =>
                (\E b \in DOMAIN old : Day(b) = Day(n)) /\ Reaches(DOMAIN old, f)

\* The last of them is not older than any stored bar.
Top(g, old, n, top) ==
    /\ top \in DOMAIN g /\ Day(top) = Day(n)
    /\ \A b \in DOMAIN old \cup DOMAIN g : b <= top

LEMMA FetchedHasTop ==
    ASSUME NEW g, NEW old, NEW f, NEW from, NEW n, Fetched(g, old, f, from, n)
    PROVE  \E top : Top(g, old, n, top)
<1>1. f \in Timeframes /\ n \in Int /\ n <= LastSlot /\ DOMAIN g \subseteq Served(f, n)
  BY Numbers DEF Fetched
<1>2. PICK t \in DOMAIN g : Day(t) = Day(n) /\ \A b \in DOMAIN old : b <= t
  BY DEF Fetched
<1>3. \A b \in DOMAIN g : b \in Int /\ FirstSlot <= b /\ b <= LastSlot
  BY <1>1, ServedInBounds, Numbers
<1> DEFINE top == Max(DOMAIN g)
<1>4. top \in DOMAIN g /\ \A b \in DOMAIN g : b <= top
  BY <1>2, <1>3, LastIsMember, Numbers
<1>5. \A b \in DOMAIN old : b \in Int
  BY <1>1, ServedIsSlot DEF Fetched
<1>6. \A b \in DOMAIN old : b <= top
  BY <1>2, <1>3, <1>4, <1>5
<1>7. Day(top) = Day(n)
  <2>1. Day(t) <= Day(top) /\ Day(top) <= Day(n)
    BY <1>1, <1>2, <1>3, <1>4, DaysAreOrdered, ServedIsSlot
  <2>2. QED
    BY <2>1, <1>1, <1>2, <1>3, <1>4, DayBounds
<1>8. QED
  BY <1>4, <1>6, <1>7 DEF Top

\* All bars from the checkpoint on were fetched, and are written.
LEMMA FetchedFromCheckpoint ==
    ASSUME NEW g, NEW old, NEW f, NEW from, NEW n, Fetched(g, old, f, from, n),
           NEW top, Top(g, old, n, top), from # None,
           NEW d \in Served(f, LastSlot), from <= d, d <= top
    PROVE  d \in DOMAIN g /\ d \in ToStore(DOMAIN g, f, from)
<1>1. f \in Timeframes /\ n \in Int /\ DOMAIN g \subseteq Served(f, n) /\ Unbroken(g, f)
  BY Numbers DEF Fetched
<1>2. PICK b \in DOMAIN g : b <= from
  BY DEF Fetched
<1>3. from \in Served(f, n)
  BY DEF Fetched
<1>4. b \in Int /\ from \in Int /\ d \in Int /\ top \in Int /\ top \in DOMAIN g
  BY <1>1, <1>3, ServedIsSlot, Numbers DEF Top
<1>5. d \in DOMAIN g
  <2>1. CASE b = d \/ d = top
    BY <2>1, <1>4
  <2>2. CASE b < d /\ d < top
    BY <2>2, <1>1, <1>4 DEF Unbroken
  <2>3. QED
    BY <2>1, <2>2, <1>2, <1>4
<1>6. QED
  BY <1>4, <1>5 DEF ToStore

\* So are, without a checkpoint, those of today.
LEMMA FetchedToday ==
    ASSUME NEW g, NEW old, NEW f, NEW from, NEW n, Fetched(g, old, f, from, n),
           NEW top, Top(g, old, n, top), from = None,
           NEW d \in Served(f, LastSlot), Day(d) = Day(n), d <= top
    PROVE  d \in DOMAIN g /\ d \in ToStore(DOMAIN g, f, from)
<1>1. /\ f \in Timeframes /\ n \in Int /\ n <= LastSlot
      /\ DOMAIN g \subseteq Served(f, n) /\ Unbroken(g, f) /\ Reaches(DOMAIN g, f)
  BY Numbers DEF Fetched
<1>2. d \in Int /\ top \in Int /\ top \in DOMAIN g /\ \A b \in DOMAIN g : b \in Int
  BY <1>1, ServedIsSlot, Numbers DEF Top
<1>3. d \in DOMAIN g
  <2>1. SUFFICES ASSUME d \notin DOMAIN g PROVE FALSE
    OBVIOUS
  <2>2. d < top
    BY <2>1, <1>2
  <2>3. \A b \in DOMAIN g : d < b
    <3>1. SUFFICES ASSUME NEW b \in DOMAIN g, b < d PROVE FALSE
      BY <2>1, <1>2
    <3>2. QED
      BY <3>1, <2>1, <2>2, <1>1, <1>2 DEF Unbroken
  <2>4. Cardinality(DOMAIN g) < Limits[f]
    BY <2>3, <1>1, TodayIsWithinLimit
  <2>5. Cardinality(DOMAIN g) >= Limits[f]
    BY <2>1, <2>2, <1>1, <1>2 DEF Reaches
  <2>6. Cardinality(DOMAIN g) \in Nat /\ Limits[f] \in Nat
    BY <1>1, ServedIsFinite, BarAssumption
  <2>7. QED
    BY <2>4, <2>5, <2>6
<1>4. Cardinality({c \in DOMAIN g : c > d}) < Limits[f]
  <2> DEFINE S == {c \in DOMAIN g : c > d}
  <2>1. S \in SUBSET Served(f, n) /\ \A c \in S : d < c
    BY <1>1, <1>2
  <2>2. QED
    BY <2>1, <1>1, TodayIsWithinLimit
<1>5. QED
  BY <1>3, <1>4 DEF ToStore

\* Of what is written, nothing newer is left out.
LEMMA ToStoreIsClosed ==
    ASSUME NEW g, NEW old, NEW f, NEW from, NEW n, Fetched(g, old, f, from, n),
           NEW b \in ToStore(DOMAIN g, f, from), NEW d \in DOMAIN g, b <= d
    PROVE  d \in ToStore(DOMAIN g, f, from)
<1>1. f \in Timeframes /\ n \in Int /\ n <= LastSlot /\ DOMAIN g \subseteq Served(f, n)
  BY Numbers DEF Fetched
<1>2. b \in DOMAIN g /\ \A c \in DOMAIN g : c \in Int
  BY <1>1, ServedIsSlot DEF ToStore
<1>3. CASE from # None
  <2>1. from \in Int
    BY <1>1, <1>3, ServedIsSlot DEF Fetched
  <2>2. QED
    BY <1>2, <1>3, <2>1 DEF ToStore
<1>4. CASE from = None
  <2> DEFINE S == {c \in DOMAIN g : c > b}
             T == {c \in DOMAIN g : c > d}
  <2>1. S \in SUBSET Served(f, n) /\ T \in SUBSET S /\ T \in SUBSET Served(f, n)
    BY <1>1, <1>2
  <2>2. Cardinality(T) <= Cardinality(S) /\ Cardinality(T) \in Nat /\ Cardinality(S) \in Nat
    BY <2>1, <1>1, MoreAreMore, ServedIsFinite
  <2>3. Cardinality(S) < Limits[f] /\ Limits[f] \in Nat
    BY <1>1, <1>4, BarAssumption DEF ToStore
  <2>4. Cardinality(T) < Limits[f]
    BY <2>2, <2>3
  <2>5. QED
    BY <2>4, <1>4 DEF ToStore
<1>5. QED
  BY <1>3, <1>4

\* A table with some of the fetched bars.
With(g, old, stored) == Over(Restrict(g, stored), old)

\* A write sends the oldest bars first: however far it comes, it leaves no
\* hole, and nothing behind the newest bar that is not final.
LEMMA StoredIsUnbroken ==
    ASSUME NEW g, NEW old, NEW f, NEW from, NEW n, Fetched(g, old, f, from, n),
           NEW stored \in SUBSET ToStore(DOMAIN g, f, from),
           \A b \in stored : \A c \in ToStore(DOMAIN g, f, from) : c <= b => c \in stored
    PROVE  Unbroken(With(g, old, stored), f)
<1> DEFINE table == With(g, old, stored)
           G == DOMAIN g
           W == DOMAIN old
           rows == ToStore(DOMAIN g, f, from)
<1>1. /\ f \in Timeframes /\ n \in Int /\ n <= LastSlot
      /\ G \subseteq Served(f, n) /\ Unbroken(g, f)
      /\ W \subseteq Served(f, n) /\ Unbroken(old, f)
  BY Numbers DEF Fetched
<1>2. PICK top : Top(g, old, n, top)
  BY FetchedHasTop
<1>3. stored \subseteq rows /\ rows \subseteq G
  BY DEF ToStore
<1>4. /\ DOMAIN table = stored \cup W
      /\ \A b \in stored : table[b] = g[b]
      /\ \A b \in W \ stored : table[b] = old[b]
  <2>1. stored \subseteq DOMAIN g
    BY <1>3
  <2>2. QED
    BY <2>1 DEF With, Over, Restrict
<1>5. /\ top \in G /\ top \in Int /\ Day(top) = Day(n)
      /\ \A b \in G \cup W : b \in Int /\ b <= top /\ Day(b) \in Int /\ Day(b) <= Day(n)
  <2>1. \A b \in G \cup W : b \in Int /\ Day(b) <= Day(n)
    BY <1>1, ServedIsSlot
  <2>2. QED
    BY <2>1, <1>2, DayBounds DEF Top
<1>6. G \cup W \subseteq Served(f, LastSlot)
  BY <1>1, ServedForEver, Numbers
<1> HIDE DEF table, rows, G, W
<1> SUFFICES ASSUME NEW b \in DOMAIN table, NEW c \in DOMAIN table, b < c
             PROVE  /\ table[b]
                    /\ \A d \in Served(f, LastSlot) : b < d /\ d < c => d \in DOMAIN table
  BY DEF table, Unbroken
<1>7. /\ b \in G \cup W /\ c \in G \cup W /\ top \in Int
      /\ b \in Int /\ c \in Int /\ b < top /\ c <= top /\ b <= top
  <2>1. b \in G \cup W /\ c \in G \cup W
    BY <1>3, <1>4
  <2>2. b \in Int /\ c \in Int /\ top \in Int /\ c <= top
    BY <2>1, <1>5
  <2>3. QED
    BY <2>1, <2>2
<1>8. /\ \A d \in Served(f, LastSlot) : d \in Int /\ Day(d) \in Int
      /\ \A w \in W : w \in Int
  BY <1>1, <1>5, ServedIsSlot, DayBounds, Numbers
<1>9. ASSUME from # None
      PROVE  /\ from \in W /\ from \in Int /\ \A d \in rows : from <= d
             /\ \A d \in Served(f, LastSlot) : from <= d /\ d <= top => d \in rows
  <2>1. from \in W
    BY <1>9 DEF Fetched, W
  <2>2. \A d \in rows : from <= d
    BY <1>3, <1>5, <1>9, <2>1 DEF rows, ToStore
  <2>3. \A d \in Served(f, LastSlot) : from <= d /\ d <= top => d \in rows
    BY <1>2, <1>9, FetchedFromCheckpoint DEF rows
  <2>4. QED
    BY <2>1, <2>2, <2>3, <1>5
<1>10. ASSUME from = None
       PROVE  /\ \A d \in Served(f, LastSlot) : Day(d) = Day(n) /\ d <= top => d \in rows
              /\ W # {} => (\E w \in W : Day(w) = Day(n)) /\ Reaches(W, f)
  <2>1. \A d \in Served(f, LastSlot) : Day(d) = Day(n) /\ d <= top => d \in rows
    BY <1>2, <1>10, FetchedToday DEF rows
  <2>2. QED
    BY <2>1, <1>10 DEF Fetched, W
<1>11. \A d \in rows : \A e \in G : d <= e => e \in rows
  BY ToStoreIsClosed DEF rows, G
<1>12. \A d, e \in G : d < e => g[d] /\ \A x \in Served(f, LastSlot) : d < x /\ x < e => x \in G
  BY <1>1 DEF Unbroken, G
<1>13. \A d, e \in W : d < e => old[d] /\ \A x \in Served(f, LastSlot) : d < x /\ x < e => x \in W
  BY <1>1 DEF Unbroken, W
<1>14. \A d \in stored : \A e \in rows : e <= d => e \in stored
  BY DEF rows
<1>15. table[b]
  <2>1. CASE b \in stored
    <3>1. b \in G /\ b < top
      BY <2>1, <1>3, <1>7
    <3>2. g[b]
      BY <3>1, <1>5, <1>12
    <3>3. QED
      BY <2>1, <3>2, <1>4
  <2>2. CASE b \notin stored
    <3>1. b \in W /\ table[b] = old[b]
      BY <2>2, <1>4
    <3>2. CASE c \in W
      BY <3>1, <3>2, <1>13
    <3>3. CASE c \in stored
      <4>1. b \notin rows
        BY <2>2, <3>3, <1>7, <1>14
      <4>2. CASE from # None
        <5>1. b < from
          BY <4>1, <4>2, <1>6, <1>7, <1>9
        <5>2. QED
          BY <3>1, <4>2, <5>1, <1>9, <1>13
      <4>3. CASE from = None
        <5>1. PICK w \in W : Day(w) = Day(n)
          BY <3>1, <4>3, <1>10
        <5>2. Day(b) # Day(n)
          BY <4>1, <4>3, <1>6, <1>7, <1>10
        <5>3. b < w
          <6>1. w \in Int /\ w \in Served(f, LastSlot)
            BY <1>5, <1>6
          <6>2. ~(w <= b)
            BY <5>1, <5>2, <6>1, <1>5, <1>7, DaysAreOrdered
          <6>3. QED
            BY <6>1, <6>2, <1>7
        <5>4. QED
          BY <3>1, <5>3, <1>13
      <4>4. QED
        BY <4>2, <4>3
    <3>4. QED
      BY <3>2, <3>3, <1>4
  <2>3. QED
    BY <2>1, <2>2
<1>16. ASSUME NEW d \in Served(f, LastSlot), b < d, d < c
       PROVE  d \in stored \cup W
  <2>0. d \in Int /\ top \in Int /\ d < top /\ d <= top
    BY <1>7, <1>8, <1>16
  <2>1. CASE b \in W /\ c \in W
    BY <2>1, <1>13, <1>16
  <2>2. CASE b \in stored /\ c \in stored
    <3>1. d \in G
      BY <2>2, <1>3, <1>12, <1>16
    <3>2. d \in rows
      BY <2>2, <3>1, <2>0, <1>3, <1>7, <1>11, <1>16
    <3>3. QED
      BY <2>2, <3>2, <2>0, <1>7, <1>14, <1>16
  <2>3. CASE b \in stored /\ c \in W
    <3>1. d \in G
      BY <2>3, <2>0, <1>3, <1>5, <1>7, <1>12, <1>16
    <3>2. d \in rows
      BY <2>3, <3>1, <2>0, <1>3, <1>7, <1>11, <1>16
    <3>3. CASE from # None
      <4>1. from <= b
        BY <2>3, <3>3, <1>3, <1>9
      <4>2. from < d
        BY <3>3, <4>1, <2>0, <1>7, <1>9, <1>16
      <4>3. QED
        BY <2>3, <3>3, <4>2, <2>0, <1>7, <1>9, <1>13, <1>16
    <3>4. CASE from = None
      <4>1. SUFFICES ASSUME d \notin W PROVE FALSE
        OBVIOUS
      <4>2. Cardinality(W) >= Limits[f]
        BY <2>3, <3>4, <4>1, <1>10, <1>16 DEF Reaches
      <4>3. \A w \in W : d < w
        <5>1. SUFFICES ASSUME NEW w \in W, w < d PROVE FALSE
          BY <4>1, <2>0, <1>8
        <5>2. QED
          BY <2>3, <4>1, <5>1, <2>0, <1>7, <1>8, <1>13, <1>16
      <4> DEFINE S == {x \in G : x > d}
      <4>4. W \subseteq S
        <5>1. SUFFICES ASSUME NEW w \in W PROVE w \in G
          BY <4>3, <1>5, <2>0
        <5>2. d < w /\ w \in Int /\ w <= top /\ w \in Served(f, LastSlot)
          BY <4>3, <1>5, <1>6
        <5>3. CASE w = top
          BY <5>3, <1>5
        <5>4. CASE w < top
          BY <3>1, <5>2, <5>4, <1>5, <1>12
        <5>5. QED
          BY <5>2, <5>3, <5>4, <1>5
      <4>5. S \in SUBSET Served(f, n) /\ W \in SUBSET S /\ W \in SUBSET Served(f, n)
        BY <4>4, <1>1 DEF G, W
      <4>6. /\ Cardinality(W) <= Cardinality(S)
            /\ Cardinality(W) \in Nat /\ Cardinality(S) \in Nat
        BY <4>5, <1>1, MoreAreMore, ServedIsFinite
      <4>7. Cardinality(S) < Limits[f]
        BY <3>2, <3>4 DEF rows, ToStore, G
      <4>8. Limits[f] \in Nat
        BY <1>1, BarAssumption
      <4>9. QED
        BY <4>2, <4>6, <4>7, <4>8
    <3>5. QED
      BY <3>3, <3>4
  <2>4. CASE b \in W /\ c \in stored
    <3>1. c \in rows
      BY <2>4, <1>3
    <3>2. CASE d \in rows
      BY <2>4, <3>2, <2>0, <1>7, <1>14, <1>16
    <3>3. CASE d \notin rows /\ from # None
      <4>1. d < from
        BY <3>3, <2>0, <1>9
      <4>2. QED
        BY <2>4, <3>3, <4>1, <2>0, <1>7, <1>9, <1>13, <1>16
    <3>4. CASE d \notin rows /\ from = None
      <4>1. PICK w \in W : Day(w) = Day(n)
        BY <2>4, <3>4, <1>10
      <4>2. Day(d) # Day(n)
        BY <2>0, <3>4, <1>10
      <4>3. d < w
        <5>1. w \in Int
          BY <1>5
        <5>2. ~(w <= d)
          <6>1. SUFFICES ASSUME w <= d PROVE FALSE
            OBVIOUS
          <6>2. Day(w) <= Day(d) /\ Day(d) <= Day(top)
            BY <6>1, <5>1, <2>0, <1>5, DaysAreOrdered
          <6>3. QED
            BY <6>2, <4>1, <4>2, <1>5, <1>8
        <5>3. QED
          BY <5>1, <5>2, <2>0
      <4>4. QED
        BY <2>4, <4>1, <4>3, <2>0, <1>7, <1>8, <1>13, <1>16
    <3>5. QED
      BY <3>2, <3>3, <3>4
  <2>5. QED
    BY <2>1, <2>2, <2>3, <2>4, <1>4
<1>17. QED
  BY <1>4, <1>15, <1>16

\* The bars of today are written from the first one on.
LEMMA StoredFromOpening ==
    ASSUME NEW g, NEW old, NEW f, NEW from, NEW n, Fetched(g, old, f, from, n),
           NEW stored \in SUBSET ToStore(DOMAIN g, f, from),
           \A b \in stored : \A c \in ToStore(DOMAIN g, f, from) : c <= b => c \in stored,
           NEW b \in stored \cup DOMAIN old, Day(b) = Day(n),
           NEW c \in Served(f, LastSlot), Day(c) = Day(n), c < b
    PROVE  c \in stored \cup DOMAIN old
<1>1. /\ f \in Timeframes /\ n \in Int /\ n <= LastSlot
      /\ DOMAIN g \subseteq Served(f, n) /\ DOMAIN old \subseteq Served(f, n)
  BY Numbers DEF Fetched
<1>2. PICK top : Top(g, old, n, top)
  BY FetchedHasTop
<1>3. stored \subseteq DOMAIN g
  BY DEF ToStore
<1>4. b \in Int /\ c \in Int /\ top \in Int /\ b <= top /\ c <= top
  <2>1. b \in DOMAIN g \cup DOMAIN old /\ top \in DOMAIN g /\ b <= top
    BY <1>2, <1>3 DEF Top
  <2>2. b \in Int /\ c \in Int /\ top \in Int
    BY <2>1, <1>1, ServedIsSlot, Numbers
  <2>3. QED
    BY <2>1, <2>2
<1>5. CASE b \in DOMAIN old
  BY <1>5 DEF Fetched
<1>6. CASE b \in stored /\ from = None
  BY <1>2, <1>4, <1>6, FetchedToday
<1>7. CASE b \in stored /\ from # None
  <2>1. from \in DOMAIN old /\ from \in Int /\ from <= b
    BY <1>1, <1>7, ServedIsSlot DEF Fetched, ToStore
  <2>2. CASE from <= c
    BY <1>2, <1>4, <1>7, <2>2, FetchedFromCheckpoint
  <2>3. CASE c < from
    <3>1. Day(c) <= Day(from) /\ Day(from) <= Day(b)
      BY <1>4, <2>1, <2>3, DaysAreOrdered
    <3>2. Day(from) = Day(n)
      BY <3>1, <1>1, <1>4, <2>1, DayBounds
    <3>3. QED
      BY <2>1, <2>3, <3>2 DEF Fetched
  <2>4. QED
    BY <1>4, <2>1, <2>2, <2>3
<1>8. QED
  BY <1>5, <1>6, <1>7

\* When all of it is written, the newest bar of today is stored,
LEMMA AllStoredHasToday ==
    ASSUME NEW g, NEW old, NEW f, NEW from, NEW n, Fetched(g, old, f, from, n)
    PROVE  \E b \in ToStore(DOMAIN g, f, from) : Day(b) = Day(n)
<1>1. PICK top : Top(g, old, n, top)
  BY FetchedHasTop
<1>2. f \in Timeframes /\ n \in Int /\ n <= LastSlot /\ DOMAIN g \subseteq Served(f, n)
  BY Numbers DEF Fetched
<1>3. top \in Served(f, LastSlot) /\ top \in Int /\ Day(top) = Day(n)
  BY <1>1, <1>2, ServedForEver, ServedIsSlot, Numbers DEF Top
<1>4. CASE from = None
  BY <1>1, <1>3, <1>4, FetchedToday
<1>5. CASE from # None
  <2>1. from <= top
    BY <1>1, <1>5 DEF Fetched, Top
  <2>2. QED
    BY <1>1, <1>3, <1>5, <2>1, FetchedFromCheckpoint
<1>6. QED
  BY <1>4, <1>5

\* a first collection goes back as far as it must,
LEMMA AllStoredReaches ==
    ASSUME NEW g, NEW old, NEW f, NEW n, Fetched(g, old, f, None, n)
    PROVE  Reaches(ToStore(DOMAIN g, f, None) \cup DOMAIN old, f)
<1> DEFINE rows == ToStore(DOMAIN g, f, None)
           more == rows \cup DOMAIN old
           left == DOMAIN g \ rows
<1>1. /\ f \in Timeframes /\ n \in Int /\ n <= LastSlot
      /\ DOMAIN g \subseteq Served(f, n) /\ DOMAIN old \subseteq Served(f, n)
      /\ Unbroken(g, f) /\ Reaches(DOMAIN g, f)
  BY Numbers DEF Fetched
<1>2. rows \subseteq DOMAIN g /\ more \subseteq Served(f, n)
  BY <1>1 DEF ToStore
<1>3. Limits[f] \in Nat
  BY <1>1, BarAssumption
<1>4. \A b \in DOMAIN g \cup DOMAIN old : b \in Int /\ b <= LastSlot
  BY <1>1, ServedInBounds, Numbers
<1>5. left # {} => Cardinality(rows) >= Limits[f]
  <2>1. SUFFICES ASSUME left # {} PROVE Cardinality(rows) >= Limits[f]
    OBVIOUS
  <2>2. left \in SUBSET Int /\ \A b \in left : b <= LastSlot
    BY <1>4
  <2> DEFINE last == Max(left)
             S == {c \in DOMAIN g : c > last}
  <2>3. last \in left /\ \A b \in left : b <= last
    <3> HIDE DEF left
    <3>1. QED
      BY <2>1, <2>2, LastIsMember, Numbers
  <2>4. S \subseteq rows
    <3>1. SUFFICES ASSUME NEW c \in S, c \in left PROVE FALSE
      OBVIOUS
    <3>2. c <= last /\ c > last /\ c \in Int /\ last \in Int
      BY <3>1, <2>2, <2>3
    <3>3. QED
      BY <3>2
  <2>5. S \in SUBSET rows /\ rows \in SUBSET Served(f, n) /\ S \in SUBSET Served(f, n)
    BY <1>1, <1>2, <2>4
  <2>6. ~(Cardinality(S) < Limits[f])
    <3>1. last \in DOMAIN g /\ last \notin ToStore(DOMAIN g, f, None)
      BY <2>3
    <3>2. QED
      BY <3>1 DEF ToStore
  <2>7. /\ Cardinality(S) \in Nat /\ Cardinality(rows) \in Nat
        /\ Cardinality(S) <= Cardinality(rows)
    BY <2>5, <1>1, ServedIsFinite, MoreAreMore
  <2>8. QED
    BY <2>6, <2>7, <1>3
<1>6. SUFFICES ASSUME NEW d \in Served(f, LastSlot), d \notin more, NEW b \in more, d < b
               PROVE  Cardinality(more) >= Limits[f]
  BY DEF Reaches
<1>7. Cardinality(rows) >= Limits[f]
  <2>1. CASE d \in DOMAIN g
    BY <2>1, <1>5, <1>6
  <2>2. CASE d \notin DOMAIN g
    <3>1. PICK top : Top(g, old, n, top)
      BY FetchedHasTop
    <3>2. top \in DOMAIN g /\ b <= top /\ b \in Int /\ top \in Int /\ d \in Int
      BY <3>1, <1>1, <1>2, <1>4, <1>6, ServedIsSlot, Numbers DEF Top
    <3>3. d < top
      BY <3>2, <1>6
    <3>4. Cardinality(DOMAIN g) >= Limits[f]
      BY <2>2, <3>2, <3>3, <1>1 DEF Reaches
    <3>5. left = {} => rows = DOMAIN g
      BY <1>2
    <3>6. QED
      BY <3>4, <3>5, <1>5
  <2>3. QED
    BY <2>1, <2>2
<1>8. /\ Cardinality(more) \in Nat /\ Cardinality(rows) \in Nat
      /\ Cardinality(rows) <= Cardinality(more)
  <2>1. rows \in SUBSET more /\ more \in SUBSET Served(f, n) /\ rows \in SUBSET Served(f, n)
    BY <1>2
  <2> HIDE DEF more, rows
  <2>2. QED
    BY <2>1, <1>1, ServedIsFinite, MoreAreMore
<1>9. QED
  BY <1>7, <1>8, <1>3

\* and the day is stored as it was when the pass began.
LEMMA AllStoredIsCollected ==
    ASSUME NEW g, NEW old, NEW f, NEW from, NEW n, Fetched(g, old, f, from, n),
           NEW m \in Int, m <= n, \A b \in DOMAIN g : Final(f, b, m) => g[b],
           \E t \in DOMAIN g : \A c \in Served(f, m) : c <= t,
           NEW c \in Served(f, m), Day(c) = Day(n)
    PROVE  LET stored == ToStore(DOMAIN g, f, from)
           IN  /\ c \in stored \cup DOMAIN old
               /\ Final(f, c, m) => With(g, old, stored)[c]
<1> DEFINE stored == ToStore(DOMAIN g, f, from)
<1>1. /\ f \in Timeframes /\ n \in Int /\ n <= LastSlot
      /\ DOMAIN g \subseteq Served(f, n) /\ DOMAIN old \subseteq Served(f, n)
      /\ Unbroken(old, f)
  BY Numbers DEF Fetched
<1>2. PICK top : Top(g, old, n, top)
  BY FetchedHasTop
<1>3. c \in Int /\ c \in Served(f, LastSlot)
  <2>1. Served(f, m) \subseteq Served(f, LastSlot)
    BY <1>1, ServedForEver, Numbers
  <2>2. QED
    BY <2>1, <1>1, ServedIsSlot
<1>4. c <= top /\ top \in Int
  <2>1. PICK t \in DOMAIN g : c <= t
    OBVIOUS
  <2>2. t <= top /\ top \in DOMAIN g
    BY <1>2 DEF Top
  <2>3. t \in Int /\ top \in Int
    BY <2>2, <1>1, ServedIsSlot
  <2>4. QED
    BY <2>1, <2>2, <2>3, <1>3
<1>5. CASE c \in stored
  <2>1. c \in DOMAIN g
    BY <1>5 DEF ToStore
  <2>2. With(g, old, stored)[c] = g[c]
    BY <1>5 DEF With, Over, Restrict
  <2>3. QED
    BY <1>5, <2>1, <2>2
<1>6. CASE c \notin stored
  <2>1. from # None
    BY <1>2, <1>3, <1>4, <1>6, FetchedToday
  <2>2. from \in DOMAIN old /\ from \in Int
    BY <1>1, <2>1, ServedIsSlot DEF Fetched
  <2>3. c < from
    BY <1>2, <1>3, <1>4, <1>6, <2>1, <2>2, FetchedFromCheckpoint
  <2>4. Day(from) = Day(n)
    <3>1. Day(c) <= Day(from) /\ Day(from) <= Day(n)
      BY <1>1, <1>3, <2>2, <2>3, DaysAreOrdered, ServedIsSlot
    <3>2. QED
      BY <3>1, <1>1, <1>3, <2>2, DayBounds
  <2>5. c \in DOMAIN old
    BY <1>3, <2>2, <2>3, <2>4 DEF Fetched
  <2>6. old[c]
    BY <1>1, <2>2, <2>3, <2>5 DEF Unbroken
  <2>7. With(g, old, stored)[c] = old[c]
    BY <1>6, <2>5 DEF With, Over, Restrict
  <2>8. QED
    BY <2>5, <2>6, <2>7
<1>7. QED
  BY <1>5, <1>6

-----------------------------------------------------------------------------
(* Paging.                                                                 *)

\* What the service has before what was fetched, and the page it answers.
Before(g) == IF g = <<>> THEN LastSlot + 1 ELSE Min(DOMAIN g)
Older(g, f, n) == {b \in Served(f, n) : b < Before(g)}
PageOf(g, f, n) == {b \in Older(g, f, n) : Cardinality({c \in Older(g, f, n) : c > b}) < PageSize}
Longer(g, f, n) == Over([b \in PageOf(g, f, n) |-> Final(f, b, n)], g)

\* Bars that were fetched by slot n.
Paged(g, f, n) ==
    /\ f \in Timeframes /\ n \in 1..LastSlot
    /\ g \in [DOMAIN g -> BOOLEAN]
    /\ DOMAIN g \subseteq Served(f, n) /\ Unbroken(g, f)

\* The page lies before all of them.
LEMMA PageIsBefore ==
    ASSUME NEW g, NEW f, NEW n, Paged(g, f, n)
    PROVE  /\ \A b \in Served(f, n) : b \in Int /\ b <= LastSlot
           /\ \A b \in Older(g, f, n) : \A c \in DOMAIN g : b < c
           /\ \A b \in Served(f, n) \ Older(g, f, n) : \E c \in DOMAIN g : c <= b
           /\ Before(g) \in Int
<1>1. f \in Timeframes /\ n \in Int /\ n <= LastSlot /\ DOMAIN g \subseteq Served(f, n)
  BY Numbers DEF Paged
<1>2. \A b \in Served(f, n) : b \in Int /\ FirstSlot <= b /\ b <= LastSlot
  BY <1>1, ServedInBounds, Numbers
<1>3. CASE DOMAIN g = {}
  <2>1. g = <<>>
    BY <1>3 DEF Paged
  <2>2. Before(g) = LastSlot + 1
    BY <2>1 DEF Before
  <2>3. QED
    BY <1>2, <1>3, <2>2, Numbers DEF Older
<1>4. CASE DOMAIN g # {}
  <2>1. g # <<>>
    BY <1>4
  <2>2. Before(g) \in DOMAIN g /\ \A c \in DOMAIN g : Before(g) <= c
    <3>1. DOMAIN g \in SUBSET Int /\ \A c \in DOMAIN g : FirstSlot <= c
      BY <1>1, <1>2
    <3>2. QED
      BY <2>1, <3>1, <1>4, FirstIsMember, Numbers DEF Before
  <2>3. \A c \in DOMAIN g : c \in Int
    BY <1>1, <1>2
  <2>4. QED
    BY <1>2, <2>2, <2>3 DEF Older
<1>5. QED
  BY <1>3, <1>4

\* A page has no newer bars left out of it.
LEMMA PageIsClosed ==
    ASSUME NEW g, NEW f, NEW n, Paged(g, f, n),
           NEW b \in PageOf(g, f, n), NEW d \in Older(g, f, n), b <= d
    PROVE  d \in PageOf(g, f, n)
<1> DEFINE S == {c \in Older(g, f, n) : c > b}
           T == {c \in Older(g, f, n) : c > d}
<1>1. f \in Timeframes /\ n \in Int /\ n <= LastSlot
  BY Numbers DEF Paged
<1>2. \A c \in Older(g, f, n) : c \in Int /\ c \in Served(f, n)
  BY PageIsBefore DEF Older
<1>3. b \in Older(g, f, n) /\ b \in Int /\ d \in Int /\ Cardinality(S) < PageSize
  <2>1. b \in Older(g, f, n) /\ Cardinality(S) < PageSize
    BY DEF PageOf
  <2>2. QED
    BY <2>1, <1>2
<1>4. S \in SUBSET Served(f, n) /\ T \in SUBSET S /\ T \in SUBSET Served(f, n)
  <2>1. b \in Int /\ d \in Int
    BY <1>3
  <2>2. \A c \in Older(g, f, n) : c > d => c > b
    BY <2>1, <1>2
  <2>3. QED
    BY <2>2, <1>2
<1>5. Cardinality(T) <= Cardinality(S) /\ Cardinality(T) \in Nat /\ Cardinality(S) \in Nat
  BY <1>1, <1>4, MoreAreMore, ServedIsFinite
<1>6. PageSize \in Nat
  BY BarAssumption
<1>7. Cardinality(T) < PageSize
  BY <1>3, <1>5, <1>6
<1>8. QED
  BY <1>7 DEF PageOf

\* What was fetched with the page in front of it.
LEMMA LongerIs ==
    ASSUME NEW g, NEW f, NEW n, Paged(g, f, n)
    PROVE  /\ DOMAIN Longer(g, f, n) = PageOf(g, f, n) \cup DOMAIN g
           /\ PageOf(g, f, n) \cup DOMAIN g \subseteq Served(f, n)
<1>1. PageOf(g, f, n) \subseteq Older(g, f, n) /\ Older(g, f, n) \subseteq Served(f, n)
  BY DEF PageOf, Older
<1>2. DOMAIN g \subseteq Served(f, n)
  BY DEF Paged
<1>3. DOMAIN Longer(g, f, n) = PageOf(g, f, n) \cup DOMAIN g
  BY DEF Longer, Over
<1>4. QED
  BY <1>1, <1>2, <1>3

\* A bar of the page is marked as final if it is, the others keep their mark.
LEMMA LongerAt ==
    ASSUME NEW g, NEW f, NEW n, Paged(g, f, n), NEW b \in DOMAIN Longer(g, f, n)
    PROVE  IF b \in DOMAIN g THEN Longer(g, f, n)[b] = g[b]
           ELSE b \in PageOf(g, f, n) /\ Longer(g, f, n)[b] = Final(f, b, n)
<1>1. b \in PageOf(g, f, n) => b \notin DOMAIN g
  <2>1. SUFFICES ASSUME b \in DOMAIN g, b \in PageOf(g, f, n) PROVE FALSE
    OBVIOUS
  <2>2. b \in Older(g, f, n) /\ b \in Served(f, n)
    BY <2>1 DEF PageOf, Older
  <2>3. b < b /\ b \in Int
    BY <2>1, <2>2, PageIsBefore
  <2>4. QED
    BY <2>3
<1>2. b \in PageOf(g, f, n) \cup DOMAIN g
  BY LongerIs
<1>3. QED
  BY <1>1, <1>2 DEF Longer, Over

\* So it is a table of bars.
LEMMA LongerIsTable ==
    ASSUME NEW g, NEW f, NEW n, Paged(g, f, n)
    PROVE  Longer(g, f, n) \in [DOMAIN Longer(g, f, n) -> BOOLEAN]
<1>1. \A b : Final(f, b, n) \in BOOLEAN
  <2>1. \A b : (b < n) \in BOOLEAN /\ (b <= n) \in BOOLEAN
    OBVIOUS
  <2>2. QED
    BY <2>1 DEF Final
<1>2. \A b \in DOMAIN g : g[b] \in BOOLEAN
  BY DEF Paged
<1>3. \A b \in DOMAIN Longer(g, f, n) : Longer(g, f, n)[b] \in BOOLEAN
  BY <1>1, <1>2, LongerAt
<1>4. Longer(g, f, n) = [b \in DOMAIN Longer(g, f, n) |-> Longer(g, f, n)[b]]
  BY DEF Longer, Over
<1>5. QED
  BY <1>3, <1>4

\* It has no hole, and all of it is final but the newest bar.
LEMMA LongerIsUnbroken ==
    ASSUME NEW g, NEW f, NEW n, Paged(g, f, n)
    PROVE  Unbroken(Longer(g, f, n), f)
<1> DEFINE page == PageOf(g, f, n)
           more == Longer(g, f, n)
<1>1. /\ f \in Timeframes /\ n \in Int /\ n <= LastSlot /\ LastSlot \in Int
      /\ DOMAIN g \subseteq Served(f, n) /\ Unbroken(g, f)
  BY Numbers DEF Paged
<1>2. /\ DOMAIN more = page \cup DOMAIN g /\ page \cup DOMAIN g \subseteq Served(f, n)
      /\ \A b \in page \ DOMAIN g : more[b] = Final(f, b, n)
      /\ \A b \in DOMAIN g : more[b] = g[b]
  <2>1. DOMAIN more = page \cup DOMAIN g /\ page \cup DOMAIN g \subseteq Served(f, n)
    BY LongerIs
  <2>2. ASSUME NEW b \in page \ DOMAIN g PROVE more[b] = Final(f, b, n)
    BY <2>1, LongerAt
  <2>3. ASSUME NEW b \in DOMAIN g PROVE more[b] = g[b]
    BY <2>1, LongerAt
  <2>4. QED
    BY <2>1, <2>2, <2>3
<1>3. page \subseteq Older(g, f, n)
  BY DEF PageOf
<1>4. \A b \in page : \A c \in DOMAIN g : b < c
  BY <1>3, PageIsBefore
<1>5. \A b \in DOMAIN more : b \in Int
  BY <1>2, PageIsBefore
<1> HIDE DEF page, more
<1> SUFFICES ASSUME NEW b \in DOMAIN more, NEW c \in DOMAIN more, b < c
             PROVE  /\ more[b]
                    /\ \A d \in Served(f, LastSlot) : b < d /\ d < c => d \in DOMAIN more
  BY DEF Unbroken, more
<1>6. b \in Int /\ c \in Int /\ b \in Served(f, n) /\ c \in Served(f, n)
  BY <1>2, <1>5
<1>7. CASE b \in DOMAIN g
  <2>1. c \in DOMAIN g
    BY <1>2, <1>4, <1>6, <1>7
  <2>2. QED
    BY <1>1, <1>2, <1>7, <2>1 DEF Unbroken
<1>8. CASE b \in page
  <2>1. more[b]
    <3>1. b \notin DOMAIN g
      BY <1>4, <1>6, <1>8
    <3>2. Final(f, b, n)
      BY <1>1, <1>6, OlderIsFinal
    <3>3. QED
      BY <3>1, <3>2, <1>2, <1>8
  <2>2. ASSUME NEW d \in Served(f, LastSlot), b < d, d < c
        PROVE  d \in DOMAIN more
    <3>1. d \in Int
      BY <1>1, ServedIsSlot
    <3>2. d \in Served(f, n)
      BY <1>1, <1>6, <2>2, <3>1, OlderIsServed
    <3>3. CASE d \in Older(g, f, n)
      <4>1. d \in page
        BY <1>6, <1>8, <2>2, <3>1, <3>3, PageIsClosed DEF page
      <4>2. QED
        BY <4>1, <1>2
    <3>4. CASE d \notin Older(g, f, n)
      <4>1. PICK e \in DOMAIN g : e <= d
        BY <3>2, <3>4, PageIsBefore
      <4>2. e \in Int /\ e < c
        BY <4>1, <1>2, <1>5, <1>6, <2>2, <3>1
      <4>3. c \in DOMAIN g
        BY <4>1, <4>2, <1>2, <1>4, <1>6
      <4>4. QED
        BY <4>1, <4>2, <4>3, <1>1, <1>2, <2>2, <3>1 DEF Unbroken
    <3>5. QED
      BY <3>3, <3>4
  <2>3. QED
    BY <2>1, <2>2
<1>9. QED
  BY <1>2, <1>7, <1>8

\* When the page is all there is, nothing older than what was fetched is left.
LEMMA LastPageReaches ==
    ASSUME NEW g, NEW f, NEW n, Paged(g, f, n), PageOf(g, f, n) = Older(g, f, n),
           NEW b \in DOMAIN Longer(g, f, n), NEW d \in Served(f, LastSlot), d <= b
    PROVE  d \in DOMAIN Longer(g, f, n)
<1>1. /\ f \in Timeframes /\ n \in Int /\ LastSlot \in Int
      /\ DOMAIN g \subseteq Served(f, n) /\ Unbroken(g, f)
  BY Numbers DEF Paged
<1>2. /\ DOMAIN Longer(g, f, n) = Older(g, f, n) \cup DOMAIN g
      /\ b \in Served(f, n)
  BY LongerIs
<1>3. d \in Int /\ b \in Int
  BY <1>1, <1>2, ServedIsSlot
<1>4. d \in Served(f, n)
  BY <1>1, <1>2, OlderIsServed
<1>5. CASE d \in Older(g, f, n)
  BY <1>2, <1>5
<1>6. CASE d \notin Older(g, f, n)
  <2>1. PICK e \in DOMAIN g : e <= d
    BY <1>4, <1>6, PageIsBefore
  <2>2. e \in Int /\ (b = d \/ d < b) /\ (e = d \/ e < d)
    <3>1. e \in Served(f, n)
      BY <1>1
    <3>2. e \in Int
      BY <3>1, <1>1, ServedIsSlot
    <3>3. QED
      BY <3>2, <2>1, <1>3
  <2>3. b \in DOMAIN g
    <3>1. SUFFICES ASSUME b \in Older(g, f, n) PROVE FALSE
      BY <1>2
    <3>2. b < e
      BY <2>1, <3>1, PageIsBefore
    <3>3. QED
      BY <2>2, <3>2, <1>3
  <2>4. CASE e = d \/ b = d
    BY <2>1, <2>3, <2>4, <1>2
  <2>5. CASE e < d /\ d < b
    <3>1. e < b
      BY <2>2, <2>5, <1>3
    <3>2. d \in DOMAIN g
      BY <2>1, <2>3, <2>5, <3>1, <1>1 DEF Unbroken
    <3>3. QED
      BY <3>2, <1>2
  <2>6. QED
    BY <2>2, <2>4, <2>5
<1>7. QED
  BY <1>5, <1>6

\* The first page has the newest bar of the service.
LEMMA FirstPageHasTop ==
    ASSUME NEW g, NEW f, NEW n, Paged(g, f, n), DOMAIN g = {}, Day(n) \in TradingDays
    PROVE  \E top \in PageOf(g, f, n) : Day(top) = Day(n) /\ \A b \in Served(f, n) : b <= top
<1>1. f \in Timeframes /\ n \in 1..LastSlot /\ n \in Int /\ n <= LastSlot
  BY Numbers DEF Paged
<1>2. Older(g, f, n) = Served(f, n)
  <2>1. \A b \in Served(f, n) : b \in Older(g, f, n)
    BY PageIsBefore
  <2>2. QED
    BY <2>1 DEF Older
<1>3. PICK b \in Served(f, n) : Day(b) = Day(n)
  BY <1>1, TodayIsServed DEF Paged
<1> DEFINE top == Max(Served(f, n))
<1>4. top \in Served(f, n) /\ \A c \in Served(f, n) : c <= top
  BY <1>3, PageIsBefore, LastIsMember, Numbers
<1>5. Cardinality({c \in Older(g, f, n) : c > top}) < PageSize
  <2>1. \A c \in Served(f, n) : c \in Int
    BY PageIsBefore
  <2>2. {c \in Older(g, f, n) : c > top} = {}
    <3>1. SUFFICES ASSUME NEW c \in Served(f, n), c > top PROVE FALSE
      BY <1>2
    <3>2. c \in Int /\ top \in Int /\ c <= top
      BY <1>4, <2>1
    <3>3. QED
      BY <3>1, <3>2
  <2>3. PageSize \in Nat /\ PageSize > 0
    BY BarAssumption
  <2>4. QED
    BY <2>2, <2>3, FS_EmptySet
<1>6. Day(top) = Day(n)
  <2>1. top \in Int /\ Day(top) <= Day(n) /\ b \in Int /\ b <= top
    BY <1>1, <1>3, <1>4, ServedIsSlot
  <2>2. Day(b) <= Day(top)
    BY <2>1, DaysAreOrdered
  <2>3. QED
    BY <2>1, <2>2, <1>1, <1>3, DayBounds
<1>7. QED
  BY <1>2, <1>4, <1>5, <1>6 DEF PageOf

-----------------------------------------------------------------------------
(* The helpers of a pass.                                                  *)

\* A stored bar, if there is one.
LEMMA CheckpointIs ==
    ASSUME AsTable(applied), NEW s \in Series
    PROVE  IF Bars(applied, s) = {} THEN Checkpoint(applied, s) = None
           ELSE Checkpoint(applied, s) \in Bars(applied, s) /\ Checkpoint(applied, s) # None
<1> DEFINE bars == Bars(applied, s)
           recent == {b \in bars : b > now - Window}
<1>1. bars \in SUBSET Int /\ \A b \in bars : FirstSlot <= b /\ b <= LastSlot
  BY Numbers DEF AsTable
<1>2. CASE bars = {}
  <2>1. recent = {}
    BY <1>2
  <2>2. QED
    BY <1>2, <2>1 DEF Checkpoint
<1>3. CASE bars # {} /\ recent = {}
  <2>1. Max(bars) \in bars
    <3> HIDE DEF bars
    <3>1. QED
      BY <1>1, <1>3, LastIsMember, Numbers
  <2>2. Checkpoint(applied, s) = Max(bars)
    BY <1>3 DEF Checkpoint
  <2>3. QED
    BY <1>1, <1>3, <2>1, <2>2, Numbers DEF None
<1>4. CASE recent # {}
  <2>1. recent \in SUBSET Int /\ \A b \in recent : b <= LastSlot
    BY <1>1
  <2>2. Max(recent) \in recent
    <3> HIDE DEF recent
    <3>1. QED
      BY <1>4, <2>1, LastIsMember, Numbers
  <2>3. Checkpoint(applied, s) = Max(recent)
    BY <1>4 DEF Checkpoint
  <2>4. QED
    BY <1>1, <1>4, <2>2, <2>3, Numbers DEF None
<1>5. QED
  BY <1>2, <1>3, <1>4

\* The index is a sequence of symbols.
LEMMA IndexIs ==
    /\ Index \in Seq(Symbols) /\ Len(Index) \in Nat /\ Len(Index) > 0
    /\ \A x \in Symbols : \E i \in 1..Len(Index) : Index[i] = x
<1>1. Index \in Seq(Symbols) /\ Index # <<>>
  BY BarAssumption
<1>2. QED
  BY <1>1 DEF Symbols, Range

\* A pass plans the minute bars of all symbols, the last one all series.
LEMMA PlanIs ==
    ASSUME NEW daily \in BOOLEAN
    PROVE  /\ Plan(daily) \in Seq(Series) /\ Plan(daily) # <<>>
           /\ \A s \in Series : s[2] = "1m" \/ daily =>
                \E i \in DOMAIN Plan(daily) : Plan(daily)[i] = s
<1>1. /\ Len(Index) \in Nat /\ Len(Index) > 0
      /\ \A i \in 1..Len(Index) : Index[i] \in Symbols
      /\ \A x \in Symbols : \E i \in 1..Len(Index) : Index[i] = x
  BY IndexIs
<1>2. \A s \in Series : s = <<s[1], s[2]>> /\ s[1] \in Symbols /\ s[2] \in {"1m", "1d"}
  BY DEF Series, Timeframes
<1>3. CASE ~daily
  <2>1. Plan(daily) = [i \in 1..Len(Index) |-> <<Index[i], "1m">>]
    BY <1>3 DEF Plan
  <2>2. Plan(daily) \in Seq(Series) /\ DOMAIN Plan(daily) = 1..Len(Index)
    BY <1>1, <2>1 DEF Series, Timeframes
  <2>3. Plan(daily) # <<>>
    BY <1>1, <2>2
  <2>4. ASSUME NEW s \in Series, s[2] = "1m"
        PROVE  \E i \in DOMAIN Plan(daily) : Plan(daily)[i] = s
    <3>1. PICK i \in 1..Len(Index) : Index[i] = s[1]
      BY <1>1, <1>2
    <3>2. QED
      BY <1>2, <2>1, <2>2, <2>4, <3>1
  <2>5. QED
    BY <1>3, <2>2, <2>3, <2>4
<1>4. CASE daily
  <2> DEFINE at(i) == <<Index[(i + 1) \div 2], IF i % 2 = 1 THEN "1m" ELSE "1d">>
  <2>1. Plan(daily) = [i \in 1..(2 * Len(Index)) |-> at(i)]
    BY <1>4 DEF Plan
  <2>2. \A i \in 1..(2 * Len(Index)) : at(i) \in Series
    <3>1. SUFFICES ASSUME NEW i \in 1..(2 * Len(Index)) PROVE at(i) \in Series
      OBVIOUS
    <3>2. (i + 1) \div 2 \in 1..Len(Index)
      BY <1>1
    <3>3. Index[(i + 1) \div 2] \in Symbols
      BY <1>1, <3>2
    <3>4. QED
      BY <3>3 DEF Series, Timeframes
  <2>3. Plan(daily) \in Seq(Series) /\ DOMAIN Plan(daily) = 1..(2 * Len(Index))
    <3> HIDE DEF at
    <3>1. QED
      BY <1>1, <2>1, <2>2
  <2>4. Plan(daily) # <<>>
    BY <1>1, <2>3
  <2>5. ASSUME NEW s \in Series
        PROVE  \E i \in DOMAIN Plan(daily) : Plan(daily)[i] = s
    <3>1. PICK i \in 1..Len(Index) : Index[i] = s[1]
      BY <1>1, <1>2
    <3>2. CASE s[2] = "1m"
      <4>1. /\ 2 * i - 1 \in 1..(2 * Len(Index))
            /\ (2 * i - 1 + 1) \div 2 = i /\ (2 * i - 1) % 2 = 1
        BY <1>1
      <4>2. at(2 * i - 1) = s
        BY <1>2, <3>1, <3>2, <4>1
      <4>3. QED
        BY <2>1, <2>3, <4>1, <4>2
    <3>3. CASE s[2] = "1d"
      <4>1. /\ 2 * i \in 1..(2 * Len(Index))
            /\ (2 * i + 1) \div 2 = i /\ (2 * i) % 2 = 0
        BY <1>1
      <4>2. at(2 * i) = <<Index[i], "1d">>
        <5>1. (2 * i) % 2 # 1
          BY <4>1
        <5>2. Index[(2 * i + 1) \div 2] = Index[i]
          BY <4>1
        <5>3. QED
          BY <5>1, <5>2
      <4>3. QED
        <5>1. s = <<s[1], s[2]>>
          BY <1>2
        <5>2. at(2 * i) = s
          BY <3>1, <3>3, <4>2, <5>1
        <5>3. Plan(daily)[2 * i] = at(2 * i)
          BY <2>1, <4>1
        <5>4. QED
          BY <2>3, <4>1, <5>2, <5>3
    <3>4. QED
      BY <1>2, <3>2, <3>3
  <2>6. QED
    BY <2>3, <2>4, <2>5
<1>5. QED
  BY <1>3, <1>4

\* The passes of a run are of its day, up to the one after the close.
LEMMA PassesAre ==
    ASSUME now \in 1..LastSlot, NEW passes \in Passes
    PROVE  /\ passes \subseteq 1..LastSlot /\ Close(Today) \in passes
           /\ \A p \in passes : p <= Close(Today)
<1>1. now \in Int /\ 1 <= now /\ now <= LastSlot /\ now <= Close(Today) /\ Close(Today) \in Int
  BY DayBounds, Numbers DEF Today
<1>2. Close(Today) <= LastSlot
  <2>1. Today <= Day(LastSlot) /\ Today \in Int /\ Day(LastSlot) \in Int
    BY <1>1, DaysAreOrdered, DayBounds, Numbers DEF Today
  <2>2. Today < Day(LastSlot) => Close(Today) + SlotsPerDay <= Close(Day(LastSlot))
    BY <2>1, ClosesApart
  <2>3. QED
    BY <2>1, <2>2, <1>1, Numbers
<1>3. \/ passes = now..Close(Today)
      \/ now = Close(Today) /\ passes = {now}
      \/ now # Close(Today) /\ passes = (now + 1)..Close(Today)
  BY DEF Passes, Today
<1>4. QED
  BY <1>1, <1>2, <1>3, Numbers

\* After the last pass, and only then, the run ends.
LEMMA AfterPass ==
    ASSUME pending \subseteq 1..LastSlot, Close(Today) \in pending,
           \A p \in pending : p <= Close(Today), PassOver
    PROVE  /\ pending' \subseteq pending
           /\ pc' \in {"end", "waiting"}
           /\ pc' = "end" => pending' = {} /\ pending = {Close(Today)}
           /\ pc' # "end" => Close(Today) \in pending'
<1>1. pending \in SUBSET Int /\ \A p \in pending : 1 <= p
  BY Numbers
<1>2. Min(pending) \in pending /\ \A p \in pending : Min(pending) <= p
  BY <1>1, FirstIsMember
<1>3. /\ pending' = pending \ {Min(pending)}
      /\ pc' = IF pending' = {} THEN "end" ELSE "waiting"
  BY DEF PassOver
<1>4. CASE Min(pending) = Close(Today)
  <2>1. ASSUME NEW p \in pending PROVE p = Close(Today)
    <3>1. p \in Int /\ Close(Today) \in Int /\ p <= Close(Today) /\ Close(Today) <= p
      BY <1>1, <1>2, <1>4
    <3>2. QED
      BY <3>1
  <2>2. pending = {Close(Today)} /\ pending' = {}
    BY <1>3, <1>4, <2>1
  <2>3. pc' = "end"
    BY <1>3, <2>2
  <2>4. QED
    BY <2>2, <2>3, Zenon
<1>5. CASE Min(pending) # Close(Today)
  BY <1>3, <1>5
<1>6. QED
  BY <1>4, <1>5

-----------------------------------------------------------------------------
(* The inductive invariant.                                                *)

\* It holds before the first run.
LEMMA InitIInv == Init => IInv
<1> SUFFICES ASSUME Init PROVE IInv
  OBVIOUS
<1>1. PICK old \in Old :
        LET table == [s \in Series |->
                [b \in {b \in Served(s[2], Close(Day(FirstSlot))) : s[1] \in old} |-> TRUE]]
        IN  written = table /\ applied = table
  BY DEF Init
<1>2. /\ now = 1 /\ due = TRUE /\ pc = "idle" /\ pending = {} /\ started = None
      /\ latest = [s \in Series |-> None] /\ todo = <<>> /\ got = <<>>
      /\ closeFailed = FALSE /\ days = Unknown /\ ranking = NoRanking
      /\ exit = "none" /\ faults = 0
  BY DEF Init
<1>3. Close(Day(FirstSlot)) \in Int /\ Close(Day(FirstSlot)) <= 0
  <2>1. Day(FirstSlot) <= Day(0) /\ Day(FirstSlot) \in Int
    BY DaysAreOrdered, DayBounds, Numbers
  <2>2. Close(0) = 0
    BY Numbers, SMTT(30) DEF Close
  <2>3. Day(0) = 0
    BY <2>2, DayIsUnique, Numbers
  <2>4. Day(FirstSlot) < 0 => Close(Day(FirstSlot)) + SlotsPerDay <= 0
    BY <2>1, <2>2, ClosesApart
  <2>5. Day(FirstSlot) = 0 => Close(Day(FirstSlot)) = 0
    BY <2>2
  <2>6. Close(Day(FirstSlot)) \in Int
    BY <2>1, CloseIsSlot
  <2>7. QED
    BY <2>1, <2>3, <2>4, <2>5, <2>6, Numbers
<1>4. \A s \in Series :
        /\ s[2] \in Timeframes
        /\ written[s] = [b \in Bars(written, s) |-> TRUE] /\ applied[s] = written[s]
        /\ Bars(written, s) = {b \in Served(s[2], Close(Day(FirstSlot))) : s[1] \in old}
  BY <1>1, TimeframeOf DEF Bars
<1>5. AsTable(written) /\ AsTable(applied)
  <2>1. \A s \in Series : Bars(written, s) \subseteq FirstSlot..LastSlot
    <3>1. SUFFICES ASSUME NEW s \in Series PROVE Bars(written, s) \subseteq FirstSlot..LastSlot
      OBVIOUS
    <3>2. Served(s[2], Close(Day(FirstSlot))) \subseteq FirstSlot..LastSlot
      <4>1. Close(Day(FirstSlot)) <= LastSlot
        BY <1>3, Numbers
      <4>2. QED
        BY <1>3, <4>1, ServedInBounds, TimeframeOf
    <3>3. QED
      BY <1>4, <3>2
  <2>2. written = [s \in Series |-> written[s]] /\ applied = written
    BY <1>1
  <2>3. \A s \in Series : written[s] \in [Bars(written, s) -> BOOLEAN]
    BY <1>4
  <2>4. QED
    BY <2>1, <2>2, <2>3 DEF AsTable
<1>6. TypeInv
  <2>1. 1 \in 1..LastSlot
    BY Numbers
  <2>2. got \in [DOMAIN got -> BOOLEAN] /\ DOMAIN got \subseteq FirstSlot..LastSlot
    BY <1>2
  <2>3. MaxFaults \in Nat
    BY BarAssumption
  <2>4. TypeOK
    <3>1. \A table \in {written, applied} : \A s \in Series :
            table[s] \in [Bars(table, s) -> BOOLEAN] /\ Bars(table, s) \subseteq FirstSlot..LastSlot
      BY <1>5 DEF AsTable
    <3>2. latest \in [Series -> {None} \cup FirstSlot..LastSlot] /\ todo \in Seq(Series)
      BY <1>2
    <3>3. faults \in 0..MaxFaults /\ now \in 1..LastSlot /\ pending \subseteq 1..LastSlot
      BY <1>2, <2>1, <2>3
    <3>4. QED
      BY <1>2, <2>2, <3>1, <3>2, <3>3 DEF TypeOK
  <2>5. QED
    BY <1>2, <1>4, <1>5, <2>4 DEF TypeInv, InPass, AtSeries, Bars
<1>7. TableInv
  <2>1. SUFFICES ASSUME NEW s \in Series PROVE Unbroken(written[s], s[2])
    BY <1>4 DEF TableInv
  <2>2. \A b \in DOMAIN written[s] : written[s][b]
    BY <1>4 DEF Bars
  <2>3. ASSUME NEW b \in DOMAIN written[s], NEW c \in DOMAIN written[s], b < c,
               NEW d \in Served(s[2], LastSlot), b < d, d < c
        PROVE  d \in DOMAIN written[s]
    <3>1. c \in Served(s[2], Close(Day(FirstSlot))) /\ s[1] \in old /\ d \in Int /\ c \in Int
      <4>1. c \in Served(s[2], Close(Day(FirstSlot))) /\ s[1] \in old
        BY <1>4, <2>3 DEF Bars
      <4>2. LastSlot \in Int /\ s[2] \in Timeframes
        BY TimeframeOf, Numbers
      <4>3. QED
        BY <1>3, <2>3, <4>1, <4>2, ServedIsSlot
    <3>2. d \in Served(s[2], Close(Day(FirstSlot)))
      <4>1. d <= c /\ LastSlot \in Int /\ s[2] \in Timeframes
        BY <2>3, <3>1, TimeframeOf, Numbers
      <4>2. QED
        BY <1>3, <2>3, <3>1, <4>1, OlderIsServed
    <3>3. QED
      BY <1>4, <3>1, <3>2 DEF Bars
  <2>4. QED
    BY <2>2, <2>3 DEF Unbroken
<1>8. TodayInv
  <2>1. SUFFICES ASSUME NEW s \in Series
                 PROVE  /\ Bars(written, s) \subseteq Served(s[2], now)
                        /\ \A b \in Bars(written, s) : Day(b) # Today
    BY DEF TodayInv
  <2>2. Served(s[2], Close(Day(FirstSlot))) \subseteq Served(s[2], now)
    <3>1. Close(Day(FirstSlot)) <= now /\ now \in Int
      BY <1>2, <1>3
    <3>2. QED
      BY <1>3, <3>1, ServedForEver, TimeframeOf
  <2>3. ASSUME NEW b \in Bars(written, s) PROVE Day(b) # Today
    <3>1. b \in Int /\ Day(b) <= Day(Close(Day(FirstSlot)))
      BY <1>3, <1>4, ServedIsSlot
    <3>2. Day(Close(Day(FirstSlot))) <= Day(0) /\ 0 \in Int
      BY <1>3, DaysAreOrdered
    <3>3. Close(0) = 0
      BY Numbers, SMTT(30) DEF Close
    <3>4. Day(0) = 0 /\ ~Minute(0)
      BY <3>3, DayOfClose DEF Minute
    <3>5. Day(1) = 1
      BY <3>4, NextSlot
    <3>6. QED
      BY <1>2, <1>3, <3>1, <3>2, <3>4, <3>5, DayBounds DEF Today
  <2>4. QED
    BY <1>4, <2>2, <2>3
<1>9. RunInv /\ LatestInv /\ GotInv /\ ReachInv /\ DoneInv /\ ExitInv /\ RankedVolumesAreFinal
  BY <1>2 DEF RunInv, InRun, LatestInv, InPass, GotInv, AtSeries, ReachInv, DoneInv, ExitInv,
     RankedVolumesAreFinal, NoRanking
<1>10. QED
  BY <1>6, <1>7, <1>8, <1>9 DEF IInv

\* Where no pass is made, nothing is owed to one.
LEMMA NoPass ==
    ASSUME pc \notin {"page", "write", "rank"}
    PROVE  LatestInv /\ GotInv /\ ReachInv /\ DoneInv
BY DEF LatestInv, InPass, GotInv, AtSeries, ReachInv, DoneInv

\* Time passes: a night ends the day, and no run spans it.
LEMMA TickKeeps == IInv /\ Tick => IInv'
<1> SUFFICES ASSUME IInv, Tick PROVE IInv'
  OBVIOUS
<1>1. /\ TypeInv /\ TableInv /\ TodayInv /\ RunInv /\ LatestInv /\ GotInv /\ ReachInv
      /\ DoneInv /\ ExitInv /\ RankedVolumesAreFinal
  BY DEF IInv
<1>2. /\ now' = now + 1 /\ now < LastSlot
      /\ pc \in {"idle", "failed"} \cup (IF ~Minute(now) THEN {} ELSE {"waiting", "page", "write"})
      /\ due' = (due \/ ~Minute(now))
      /\ exit' = IF ~Minute(now) THEN "none" ELSE exit
      /\ corporations' = IF ~Minute(now) THEN {} ELSE corporations
      /\ written' = written /\ applied' = applied /\ pc' = pc /\ pending' = pending
      /\ started' = started /\ latest' = latest /\ todo' = todo /\ got' = got
      /\ closeFailed' = closeFailed /\ days' = days /\ ranking' = ranking /\ faults' = faults
  BY DEF Tick, database, process
<1>3. now \in Int /\ now >= 1 /\ now + 1 \in 1..LastSlot
  BY <1>1, <1>2, Numbers DEF TypeInv, TypeOK
<1>4. /\ Today \in Int
      /\ Minute(now) => Today' = Today
      /\ ~Minute(now) => Today' = Today + 1
  BY <1>2, <1>3, NextSlot, DayBounds DEF Today
<1>5. TypeInv'
  <2>1. TypeOK'
    BY <1>1, <1>2, <1>3 DEF TypeInv, TypeOK, Bars
  <2>2. InPass => Minute(now)
    BY <1>2 DEF InPass
  <2>3. QED
    BY <1>1, <1>2, <1>3, <1>4, <2>1, <2>2 DEF TypeInv, AsTable, Bars, InPass, AtSeries
<1>6. TableInv'
  BY <1>1, <1>2 DEF TableInv, Unbroken
<1>7. \A s \in Series : Served(s[2], now) \subseteq Served(s[2], now + 1)
  BY <1>3, ServedForEver, TimeframeOf
<1>8. TodayInv'
  <2>1. SUFFICES ASSUME NEW s \in Series
                 PROVE  /\ Bars(written, s) \subseteq Served(s[2], now + 1)
                        /\ \A b \in Bars(written, s) : Day(b) = Today' =>
                            \A c \in Served(s[2], LastSlot) :
                                Day(c) = Today' /\ c < b => c \in Bars(written, s)
    BY <1>2 DEF TodayInv, Bars
  <2>2. Bars(written, s) \subseteq Served(s[2], now)
    BY <1>1 DEF TodayInv
  <2>3. CASE Minute(now)
    BY <1>1, <1>4, <1>7, <2>2, <2>3 DEF TodayInv
  <2>4. CASE ~Minute(now)
    <3>1. \A b \in Bars(written, s) : Day(b) <= Today /\ Day(b) \in Int
      BY <1>3, <2>2, ServedIsSlot, TimeframeOf, DayBounds DEF Timeframes, Today
    <3>2. \A b \in Bars(written, s) : Day(b) # Today'
      BY <1>4, <2>4, <3>1
    <3>3. QED
      BY <1>7, <2>2, <3>2
  <2>5. QED
    BY <2>3, <2>4
<1>9. CASE Minute(now)
  <2>1. Today' = Today /\ due' = due /\ exit' = exit
    BY <1>1, <1>2, <1>4, <1>9 DEF TypeInv, TypeOK
  <2>2. RunInv'
    BY <1>1, <1>2, <2>1 DEF RunInv, InRun, New, HasToday, Reaches, Bars
  <2>3. LatestInv'
    BY <1>1, <1>2, <2>1 DEF LatestInv, InPass, New, HasToday, Reaches, Bars
  <2>4. GotInv'
    <3>1. SUFFICES ASSUME AtSeries PROVE GotInv'
      BY <1>2 DEF GotInv, AtSeries
    <3>2. Head(todo) \in Series
      BY <1>1, <3>1 DEF TypeInv, TypeOK, AtSeries
    <3>3. Served(Head(todo)[2], now) \subseteq Served(Head(todo)[2], now')
      BY <1>2, <1>7, <3>2
    <3>4. QED
      BY <1>1, <1>2, <2>1, <3>1, <3>3 DEF GotInv, AtSeries, Unbroken, Final, Bars
  <2>5. ReachInv'
    BY <1>1, <1>2 DEF ReachInv, Reaches
  <2>6. DoneInv'
    BY <1>1, <1>2, <2>1 DEF DoneInv, InPass, Collected, Final, Bars
  <2>7. ExitInv' /\ RankedVolumesAreFinal'
    BY <1>1, <1>2, <2>1 DEF ExitInv, Complete, Bars, RankedVolumesAreFinal
  <2>8. QED
    BY <1>5, <1>6, <1>8, <2>2, <2>3, <2>4, <2>5, <2>6, <2>7 DEF IInv
<1>10. CASE ~Minute(now)
  <2>1. pc' \in {"idle", "failed"} /\ exit' = "none"
    BY <1>2, <1>10
  <2>2. RunInv'
    BY <1>1, <1>2, <2>1 DEF RunInv, InRun
  <2>3. LatestInv' /\ GotInv' /\ ReachInv' /\ DoneInv'
    BY <2>1 DEF LatestInv, InPass, GotInv, AtSeries, ReachInv, DoneInv
  <2>4. ExitInv' /\ RankedVolumesAreFinal'
    BY <1>1, <1>2, <2>1 DEF ExitInv, RankedVolumesAreFinal
  <2>5. QED
    BY <1>5, <1>6, <1>8, <2>2, <2>3, <2>4 DEF IInv
<1>11. QED
  BY <1>9, <1>10

\* The invariant has these parts.
LEMMA PartsOfIInv ==
    ASSUME IInv
    PROVE  /\ TypeInv /\ TableInv /\ TodayInv /\ RunInv /\ LatestInv /\ GotInv /\ ReachInv
           /\ DoneInv /\ ExitInv /\ RankedVolumesAreFinal
           /\ now \in Int /\ now \in 1..LastSlot /\ Today \in Int
<1>1. now \in 1..LastSlot /\ now \in Int
  BY Numbers DEF IInv, TypeInv, TypeOK
<1>2. QED
  BY <1>1, DayBounds DEF IInv, Today

\* There are no more faults than the bound allows.
LEMMA FaultIsCounted ==
    ASSUME IInv
    PROVE  /\ faults \in 0..MaxFaults
           /\ Fault => faults' \in 0..MaxFaults
<1>1. faults \in 0..MaxFaults /\ MaxFaults \in Nat
  BY BarAssumption DEF IInv, TypeInv, TypeOK
<1>2. QED
  BY <1>1 DEF Fault

\* QuestDB applies what was written.
LEMMA ApplyKeeps == IInv /\ Apply => IInv'
<1> SUFFICES ASSUME IInv, Apply PROVE IInv'
  OBVIOUS
<1>1. /\ TypeInv /\ TableInv /\ TodayInv /\ RunInv /\ LatestInv /\ GotInv /\ ReachInv
      /\ DoneInv /\ ExitInv /\ RankedVolumesAreFinal
  BY PartsOfIInv
<1>2. /\ applied' = written /\ now' = now /\ written' = written /\ due' = due /\ pc' = pc
      /\ pending' = pending /\ started' = started /\ latest' = latest /\ todo' = todo
      /\ got' = got /\ closeFailed' = closeFailed /\ days' = days
      /\ corporations' = corporations /\ ranking' = ranking /\ exit' = exit /\ faults' = faults
  BY DEF Apply, process, outputs
<1>3. \A s \in Series : Bars(applied, s) \subseteq Bars(written, s)
  BY <1>1 DEF TypeInv
<1>4. TypeInv'
  <2>1. TypeOK'
    BY <1>1, <1>2 DEF TypeInv, TypeOK, Bars
  <2>2. QED
    BY <1>1, <1>2, <2>1 DEF TypeInv, AsTable, Bars, InPass, AtSeries, Today
<1>5. TableInv' /\ TodayInv'
  BY <1>1, <1>2 DEF TableInv, Unbroken, TodayInv, Today, Bars
<1>6. RunInv'
  BY <1>1, <1>2 DEF RunInv, InRun, New, HasToday, Reaches, Bars, Today
<1>7. LatestInv'
  BY <1>1, <1>2, <1>3 DEF LatestInv, InPass, New, HasToday, Reaches, Bars, Today
<1>8. GotInv' /\ ReachInv' /\ DoneInv'
  BY <1>1, <1>2 DEF GotInv, AtSeries, Unbroken, Final, Bars, Today, ReachInv, Reaches,
     DoneInv, InPass, Collected
<1>9. ExitInv' /\ RankedVolumesAreFinal'
  BY <1>1, <1>2 DEF ExitInv, Complete, Bars, Today, RankedVolumesAreFinal
<1>10. QED
  BY <1>4, <1>5, <1>6, <1>7, <1>8, <1>9 DEF IInv

\* Both tables are sound: they hold bars, without a hole, none too early.
TablesAreSound ==
    /\ AsTable(written) /\ AsTable(applied)
    /\ \A s \in Series : Bars(applied, s) \subseteq Bars(written, s)
    /\ TableInv /\ TodayInv

\* What queries take for a new series is one.
NewAreNew == \A s \in Series : Bars(applied, s) = {} => New(s)

\* The days a ranking compares with are over.
PastIsPast == days # Unknown => days \subseteq {d \in Int : d < Today}

\* The tables and the day stay as they are.
Still == now' = now /\ written' = written /\ applied' = applied

LEMMA StillKeeps ==
    ASSUME IInv, Still
    PROVE  /\ AsTable(written)' /\ AsTable(applied)'
           /\ \A s \in Series : Bars(applied, s)' \subseteq Bars(written, s)'
           /\ TableInv' /\ TodayInv' /\ Today' = Today
           /\ Complete => Complete'
           /\ \A s \in Series : New(s) => New(s)'
           /\ TablesAreSound'
           /\ NewAreNew => NewAreNew'
<1>1. TypeInv /\ TableInv /\ TodayInv
  BY PartsOfIInv
<1>2. AsTable(written)' /\ AsTable(applied)'
  BY <1>1 DEF Still, TypeInv, AsTable, Bars
<1>3. \A s \in Series : Bars(applied, s)' \subseteq Bars(written, s)'
  BY <1>1 DEF Still, TypeInv, Bars
<1>4. TableInv' /\ TodayInv' /\ Today' = Today
  BY <1>1 DEF Still, TableInv, Unbroken, TodayInv, Today, Bars
<1>5. Complete => Complete'
  BY DEF Still, Complete, Today, Bars
<1>6. \A s \in Series : New(s) => New(s)'
  BY DEF Still, New, HasToday, Reaches, Today, Bars
<1>7. TablesAreSound'
  BY <1>2, <1>3, <1>4 DEF TablesAreSound
<1>8. NewAreNew => NewAreNew'
  BY DEF Still, NewAreNew, New, HasToday, Reaches, Today, Bars
<1>9. QED
  BY <1>2, <1>3, <1>4, <1>5, <1>6, <1>7, <1>8

\* A run that ends, well or not, leaves nothing behind in the process.
LEMMA EndKeeps ==
    ASSUME IInv, now' = now, TablesAreSound', NEW how \in {"ok", "failed"}, End(how),
           due' \in BOOLEAN, faults' \in 0..MaxFaults, ranking' = ranking,
           how = "ok" => ~due' /\ (Today \in TradingDays => Complete')
    PROVE  IInv'
<1>1. /\ AsTable(written)' /\ AsTable(applied)' /\ TableInv' /\ TodayInv' /\ Today' = Today
      /\ \A s \in Series : Bars(applied, s)' \subseteq Bars(written, s)'
  BY DEF TablesAreSound, Today
<1>2. /\ pc' = IF how = "ok" THEN "idle" ELSE "failed"
      /\ exit' = how /\ pending' = {} /\ closeFailed' = FALSE /\ days' = Unknown
      /\ todo' = <<>> /\ got' = <<>> /\ started' = None /\ latest' = [s \in Series |-> None]
  BY DEF End, PassState
<1>3. now' \in 1..LastSlot /\ RankedVolumesAreFinal'
  BY PartsOfIInv DEF RankedVolumesAreFinal
<1>4. pc' \in {"idle", "failed"}
  BY <1>2
<1>5. TypeInv'
  <2>1. \A table \in {written', applied'} : \A s \in Series :
            /\ table[s] \in [DOMAIN table[s] -> BOOLEAN]
            /\ DOMAIN table[s] \subseteq FirstSlot..LastSlot
    BY <1>1 DEF AsTable, Bars
  <2>2. got' \in [DOMAIN got' -> BOOLEAN] /\ DOMAIN got' \subseteq FirstSlot..LastSlot
    BY <1>2
  <2>3. latest' \in [Series -> {None} \cup FirstSlot..LastSlot] /\ todo' \in Seq(Series)
    BY <1>2
  <2>4. TypeOK'
    BY <1>2, <1>3, <2>1, <2>2, <2>3 DEF TypeOK, Bars
  <2>5. QED
    BY <1>1, <1>4, <2>4 DEF TypeInv, InPass, AtSeries
<1>6. RunInv'
  BY <1>2, <1>4 DEF RunInv, InRun
<1>7. LatestInv' /\ GotInv' /\ ReachInv' /\ DoneInv'
  BY <1>4 DEF LatestInv, InPass, GotInv, AtSeries, ReachInv, DoneInv
<1>8. ExitInv'
  BY <1>1, <1>2, <1>4 DEF ExitInv
<1>9. QED
  BY <1>1, <1>3, <1>5, <1>6, <1>7, <1>8 DEF IInv

\* A run begins: not at all on a holiday, and not when it fails at once.
LEMMA StartKeeps == IInv /\ Start => IInv'
<1> SUFFICES ASSUME IInv, Start PROVE IInv'
  OBVIOUS
<1>1. /\ TypeInv /\ TableInv /\ TodayInv /\ RunInv /\ ExitInv /\ RankedVolumesAreFinal
      /\ now \in 1..LastSlot
  BY PartsOfIInv
<1>2. /\ due \/ pc = "failed"
      /\ applied = written /\ pc \in {"idle", "failed"} /\ due' = FALSE
      /\ now' = now /\ written' = written /\ applied' = applied
      /\ corporations' = corporations /\ ranking' = ranking
  BY DEF Start, database, outputs
<1>3. faults \in 0..MaxFaults /\ (Fault => faults' \in 0..MaxFaults) /\ MaxFaults \in Nat
  BY <1>1, BarAssumption DEF TypeInv, TypeOK, Fault
<1>4. CASE Today \notin TradingDays /\ End("ok") /\ faults' = faults
  <2>1. TablesAreSound'
    BY <1>2, StillKeeps DEF Still
  <2>2. QED
    BY <1>2, <1>3, <1>4, <2>1, EndKeeps
<1>5. CASE Fault /\ End("failed")
  <2>1. TablesAreSound'
    BY <1>2, StillKeeps DEF Still
  <2>2. QED
    BY <1>2, <1>3, <1>5, <2>1, EndKeeps
<1>6. CASE /\ Today \in TradingDays
           /\ pc' = "snapshot" /\ pending' \in Passes
           /\ UNCHANGED <<started, latest, todo, got, closeFailed, days, exit, faults>>
  <2>1. /\ pending' \subseteq 1..LastSlot /\ Close(Today) \in pending'
        /\ \A p \in pending' : p <= Close(Today)
    BY <1>1, <1>6, PassesAre
  <2>2. /\ AsTable(written)' /\ AsTable(applied)' /\ TableInv' /\ TodayInv' /\ Today' = Today
        /\ \A s \in Series : Bars(applied, s)' \subseteq Bars(written, s)'
        /\ \A s \in Series : New(s) => New(s)'
    BY <1>2, StillKeeps DEF Still
  <2>3. TypeInv'
    <3>1. TypeOK'
      BY <1>1, <1>2, <1>6, <2>1 DEF TypeInv, TypeOK, Bars
    <3>2. QED
      BY <1>6, <2>2, <3>1 DEF TypeInv, InPass, AtSeries
  <2>4. RunInv'
    <3>1. \A s \in Series : Bars(applied, s)' = {} => New(s)'
      BY <1>2 DEF New, Bars
    <3>2. days' = Unknown
      BY <1>1, <1>2, <1>6 DEF RunInv, InRun
    <3>3. QED
      BY <1>2, <1>6, <2>1, <2>2, <3>1, <3>2 DEF RunInv, InRun
  <2>5. LatestInv' /\ GotInv' /\ ReachInv' /\ DoneInv'
    BY <1>6 DEF LatestInv, InPass, GotInv, AtSeries, ReachInv, DoneInv
  <2>6. exit # "ok"
    BY <1>1, <1>2 DEF ExitInv
  <2>7. ExitInv' /\ RankedVolumesAreFinal'
    BY <1>1, <1>2, <1>6, <2>6 DEF ExitInv, RankedVolumesAreFinal
  <2>8. QED
    BY <2>2, <2>3, <2>4, <2>5, <2>7 DEF IInv
<1>7. QED
  BY <1>4, <1>5, <1>6 DEF Start, Today

\* The snapshot of the companies touches no bar.
LEMMA SnapshotKeeps == IInv /\ Snapshot => IInv'
<1> SUFFICES ASSUME IInv, Snapshot PROVE IInv'
  OBVIOUS
<1>1. /\ TypeInv /\ TableInv /\ TodayInv /\ RunInv /\ ExitInv /\ RankedVolumesAreFinal
  BY PartsOfIInv
<1>2. /\ pc = "snapshot" /\ pc' = "waiting"
      /\ now' = now /\ written' = written /\ applied' = applied /\ due' = due
      /\ pending' = pending /\ started' = started /\ latest' = latest /\ todo' = todo
      /\ got' = got /\ closeFailed' = closeFailed /\ days' = days /\ ranking' = ranking
      /\ exit' = exit
  BY DEF Snapshot, database
<1>3. faults' \in 0..MaxFaults
  BY <1>1, BarAssumption DEF TypeInv, TypeOK, Fault, Snapshot
<1>4. /\ AsTable(written)' /\ AsTable(applied)' /\ TableInv' /\ TodayInv' /\ Today' = Today
      /\ \A s \in Series : Bars(applied, s)' \subseteq Bars(written, s)'
      /\ \A s \in Series : New(s) => New(s)'
  BY <1>2, StillKeeps DEF Still
<1>5. TypeInv'
  <2>1. TypeOK'
    BY <1>1, <1>2, <1>3 DEF TypeInv, TypeOK, Bars
  <2>2. QED
    BY <1>2, <1>4, <2>1 DEF TypeInv, InPass, AtSeries
<1>6. RunInv'
  BY <1>1, <1>2, <1>4 DEF RunInv, InRun, Bars
<1>7. LatestInv' /\ GotInv' /\ ReachInv' /\ DoneInv'
  BY <1>2 DEF LatestInv, InPass, GotInv, AtSeries, ReachInv, DoneInv
<1>8. ExitInv' /\ RankedVolumesAreFinal'
  BY <1>1, <1>2 DEF ExitInv, RankedVolumesAreFinal
<1>9. QED
  BY <1>4, <1>5, <1>6, <1>7, <1>8 DEF IInv

\* A pass begins with a checkpoint of every series.
LEMMA BeginPassKeeps == IInv /\ BeginPass => IInv'
<1> SUFFICES ASSUME IInv, BeginPass PROVE IInv'
  OBVIOUS
<1>1. /\ TypeInv /\ TableInv /\ TodayInv /\ RunInv /\ ExitInv /\ RankedVolumesAreFinal
      /\ now \in 1..LastSlot /\ now \in Int /\ Today \in Int
  BY PartsOfIInv
<1>2. /\ pc = "waiting" /\ now >= Min(pending)
      /\ started' = now
      /\ latest' = [s \in Series |-> Checkpoint(applied, s)]
      /\ todo' = Plan(pending = {Max(pending)})
      /\ pc' = "page" /\ got' = <<>>
      /\ now' = now /\ written' = written /\ applied' = applied /\ due' = due
      /\ pending' = pending /\ closeFailed' = closeFailed /\ days' = days
      /\ ranking' = ranking /\ exit' = exit /\ faults' = faults
  BY DEF BeginPass, database, outputs
<1>3. /\ AsTable(written)' /\ AsTable(applied)' /\ TableInv' /\ TodayInv' /\ Today' = Today
      /\ \A s \in Series : Bars(applied, s)' \subseteq Bars(written, s)'
      /\ \A s \in Series : New(s) => New(s)'
  BY <1>2, StillKeeps DEF Still
<1>4. /\ Today \in TradingDays /\ Close(Today) \in pending
      /\ \A s \in Series : Bars(applied, s) = {} => New(s)
      /\ \A p \in pending : p <= Close(Today)
  BY <1>1, <1>2 DEF RunInv, InRun
<1>5. /\ \A s \in Series : latest'[s] # None => latest'[s] \in Bars(applied, s)
      /\ \A s \in Series : latest'[s] = None => New(s)
      /\ latest' \in [Series -> {None} \cup FirstSlot..LastSlot]
  <2>1. AsTable(applied)
    BY <1>1 DEF TypeInv
  <2>2. ASSUME NEW s \in Series
        PROVE  /\ latest'[s] # None => latest'[s] \in Bars(applied, s)
               /\ latest'[s] = None => New(s)
               /\ Checkpoint(applied, s) \in {None} \cup FirstSlot..LastSlot
    <3>1. Bars(applied, s) \subseteq FirstSlot..LastSlot /\ latest'[s] = Checkpoint(applied, s)
      BY <1>2, <2>1 DEF AsTable
    <3>2. QED
      BY <1>4, <2>1, <3>1, CheckpointIs
  <2>3. QED
    BY <1>2, <2>2
<1>6. /\ todo' \in Seq(Series) /\ todo' # <<>>
      /\ \A s \in Series : s[2] = "1m" \/ pending = {Close(Today)} =>
            \E i \in DOMAIN todo' : todo'[i] = s
  <2>1. pending = {Close(Today)} => pending = {Max(pending)}
    <3>1. SUFFICES ASSUME pending = {Close(Today)} PROVE Max(pending) = Close(Today)
      OBVIOUS
    <3>2. Close(Today) \in Int
      BY <1>1, CloseIsSlot
    <3>3. QED
      BY <3>1, <3>2 DEF Max
  <2>2. (pending = {Max(pending)}) \in BOOLEAN
    OBVIOUS
  <2>3. QED
    BY <1>2, <2>1, <2>2, PlanIs
<1>7. \E p \in pending : p <= now
  <2>1. pending \in SUBSET Int /\ \A p \in pending : 1 <= p
    BY <1>1, Numbers DEF TypeInv, TypeOK
  <2>2. Min(pending) \in pending
    BY <1>4, <2>1, FirstIsMember
  <2>3. QED
    BY <1>1, <1>2, <2>1, <2>2
<1>8. DOMAIN got' = {}
  BY <1>2
<1>9. TypeInv'
  <2>1. started' \in {None} \cup 1..LastSlot /\ got' \in [DOMAIN got' -> BOOLEAN]
        /\ DOMAIN got' \subseteq FirstSlot..LastSlot
    BY <1>1, <1>2
  <2>2. TypeOK'
    BY <1>1, <1>2, <1>5, <1>6, <2>1 DEF TypeInv, TypeOK, Bars
  <2>3. started' \in 1..now' /\ Day(started)' = Today'
    BY <1>1, <1>2, <1>3 DEF Today
  <2>4. QED
    BY <1>2, <1>3, <1>6, <2>2, <2>3 DEF TypeInv, InPass, AtSeries
<1>10. RunInv'
  BY <1>1, <1>2, <1>3 DEF RunInv, InRun, Bars
<1>11. LatestInv'
  BY <1>2, <1>3, <1>5, <1>7 DEF LatestInv, InPass, Bars
<1>12. GotInv'
  BY <1>8 DEF GotInv, Unbroken
<1>13. ReachInv'
  BY <1>2 DEF ReachInv
<1>14. DoneInv'
  BY <1>2, <1>3, <1>6 DEF DoneInv, InPass
<1>15. ExitInv' /\ RankedVolumesAreFinal'
  BY <1>1, <1>2 DEF ExitInv, RankedVolumesAreFinal
<1>16. QED
  BY <1>3, <1>9, <1>10, <1>11, <1>12, <1>13, <1>14, <1>15 DEF IInv

\* A pass gives way to the next: the tables may have changed, the run goes on.
LEMMA PassOverKeeps ==
    ASSUME IInv, pc \notin {"idle", "failed", "end"}, PassOver,
           TablesAreSound', NewAreNew', PastIsPast', now' = now,
           due' = due, faults' \in 0..MaxFaults, exit' = exit, closeFailed' \in BOOLEAN,
           pc' = "end" /\ ~closeFailed' => Complete',
           RankedVolumesAreFinal'
    PROVE  IInv'
<1>0. /\ AsTable(written)' /\ AsTable(applied)' /\ TableInv' /\ TodayInv'
      /\ \A s \in Series : Bars(applied, s)' \subseteq Bars(written, s)'
  BY DEF TablesAreSound
<1>1. TypeInv /\ RunInv /\ ExitInv /\ now \in 1..LastSlot
  BY PartsOfIInv
<1>2. /\ Close(Today) \in pending /\ pending \subseteq 1..LastSlot
      /\ \A p \in pending : p <= Close(Today)
      /\ Today \in TradingDays /\ ~due
  BY <1>1 DEF RunInv, InRun, TypeInv, TypeOK
<1>3. /\ pending' \subseteq pending /\ pc' \in {"end", "waiting"}
      /\ pc' = "end" => pending' = {}
      /\ pc' # "end" => Close(Today) \in pending'
  BY <1>2, AfterPass
<1>4. /\ todo' = <<>> /\ got' = <<>> /\ started' = None /\ latest' = [s \in Series |-> None]
  BY DEF PassOver, PassState
<1>5. Today' = Today
  BY DEF Today
<1>6. TypeInv'
  <2>1. \A table \in {written', applied'} : \A s \in Series :
            /\ table[s] \in [DOMAIN table[s] -> BOOLEAN]
            /\ DOMAIN table[s] \subseteq FirstSlot..LastSlot
    BY <1>0 DEF AsTable, Bars
  <2>2. got' \in [DOMAIN got' -> BOOLEAN] /\ DOMAIN got' \subseteq FirstSlot..LastSlot
    BY <1>4
  <2>3. latest' \in [Series -> {None} \cup FirstSlot..LastSlot] /\ todo' \in Seq(Series)
    BY <1>4
  <2>4. TypeOK'
    BY <1>1, <1>2, <1>3, <1>4, <2>1, <2>2, <2>3 DEF TypeInv, TypeOK, Bars
  <2>5. QED
    BY <1>0, <1>3, <2>4 DEF TypeInv, InPass, AtSeries
<1>7. RunInv'
  BY <1>2, <1>3, <1>5 DEF RunInv, InRun, NewAreNew, PastIsPast
<1>8. LatestInv' /\ GotInv' /\ ReachInv' /\ DoneInv'
  BY <1>3 DEF LatestInv, InPass, GotInv, AtSeries, ReachInv, DoneInv
<1>9. ExitInv'
  <2>1. exit # "ok"
    BY <1>1 DEF ExitInv
  <2>2. QED
    BY <2>1 DEF ExitInv
<1>10. QED
  BY <1>0, <1>6, <1>7, <1>8, <1>9 DEF IInv

\* A failure of the last pass is noted.
LEMMA LastFailureCounts ==
    ASSUME IInv, pc \notin {"idle", "failed", "end"}, PassOver, Fails
    PROVE  pc' = "end" => closeFailed'
<1>1. TypeInv /\ RunInv
  BY PartsOfIInv
<1>2. pc' = "end" => pending = {Close(Today)}
  BY <1>1, AfterPass DEF RunInv, InRun, TypeInv, TypeOK
<1>3. Cardinality({Close(Today)}) = 1
  BY FS_Singleton
<1>4. QED
  BY <1>2, <1>3 DEF Fails

\* A pass fails.
LEMMA PassFailsKeeps == IInv /\ PassFails => IInv'
<1> SUFFICES ASSUME IInv, PassFails PROVE IInv'
  OBVIOUS
<1>1. TypeInv /\ RunInv /\ ExitInv /\ RankedVolumesAreFinal
  BY PartsOfIInv
<1>2. /\ pc \in {"waiting", "page", "write"} /\ Fault /\ Fails /\ PassOver
      /\ now' = now /\ written' = written /\ applied' = applied /\ due' = due
      /\ days' = days /\ ranking' = ranking /\ exit' = exit
  BY DEF PassFails, database, outputs
<1>3. NewAreNew
  BY <1>1, <1>2 DEF RunInv, InRun, NewAreNew
<1>4. TablesAreSound' /\ NewAreNew'
  BY <1>2, <1>3, StillKeeps DEF Still
<1>5. faults' \in 0..MaxFaults /\ RankedVolumesAreFinal'
  BY <1>1, <1>2, FaultIsCounted DEF RankedVolumesAreFinal
<1>6. closeFailed' \in BOOLEAN /\ (pc' = "end" => closeFailed')
  BY <1>2, LastFailureCounts DEF Fails
<1>7. PastIsPast'
  BY <1>1, <1>2 DEF RunInv, InRun, PastIsPast, Today
<1>8. pc' = "end" /\ ~closeFailed' => Complete'
  BY <1>6
<1>9. pc \notin {"idle", "failed", "end"} /\ PassOver
  BY <1>2
<1>10. QED
  BY <1>2, <1>4, <1>5, <1>6, <1>7, <1>8, <1>9, PassOverKeeps

\* A run ends: well when the last pass did not fail.
LEMMA EndRunKeeps == IInv /\ EndRun => IInv'
<1> SUFFICES ASSUME IInv, EndRun PROVE IInv'
  OBVIOUS
<1>1. TypeInv /\ RunInv /\ ExitInv
  BY PartsOfIInv
<1>2. /\ pc = "end" /\ End(IF closeFailed THEN "failed" ELSE "ok") /\ Still
      /\ due' = due /\ ranking' = ranking /\ faults' = faults
  BY DEF EndRun, Still, database, outputs
<1>3. due \in BOOLEAN /\ faults \in 0..MaxFaults
  BY <1>1 DEF TypeInv, TypeOK
<1>4. TablesAreSound' /\ now' = now /\ (Complete => Complete')
  BY <1>2, StillKeeps DEF Still
<1>5. CASE closeFailed
  BY <1>2, <1>3, <1>4, <1>5, EndKeeps
<1>6. CASE ~closeFailed
  BY <1>1, <1>2, <1>3, <1>4, <1>6, EndKeeps DEF ExitInv, RunInv, InRun
<1>7. QED
  BY <1>5, <1>6

-----------------------------------------------------------------------------
(* Fetching and writing.                                                   *)

\* One page more of a series.
LEMMA PageKeeps == IInv /\ Page => IInv'
<1> SUFFICES ASSUME IInv, Page PROVE IInv'
  OBVIOUS
<1> DEFINE s == Head(todo)
           f == Head(todo)[2]
           page == PageOf(got, f, now)
           more == Longer(got, f, now)
<1>1. /\ TypeInv /\ TableInv /\ TodayInv /\ RunInv /\ LatestInv /\ GotInv /\ DoneInv /\ ExitInv
      /\ RankedVolumesAreFinal
      /\ now \in 1..LastSlot /\ now \in Int /\ now <= LastSlot /\ LastSlot \in Int
  BY PartsOfIInv, Numbers
<1>2. /\ pc = "page" /\ pc' \in {"page", "write"} /\ got' = more
      /\ now' = now /\ written' = written /\ applied' = applied /\ due' = due
      /\ pending' = pending /\ started' = started /\ latest' = latest /\ todo' = todo
      /\ closeFailed' = closeFailed /\ days' = days /\ ranking' = ranking
      /\ exit' = exit /\ faults' = faults
  BY DEF Page, Longer, PageOf, Older, Before, database, outputs
<1>3. pc' = "write" =>
        \/ page = Older(got, f, now)
        \/ latest[s] = None /\ Cardinality(DOMAIN more) >= Limits[f]
        \/ latest[s] # None /\ \E b \in page : b <= latest[s]
  BY DEF Page, Longer, PageOf, Older, Before
<1>4. s \in Series /\ f \in Timeframes /\ todo \in Seq(Series) /\ todo # <<>>
  BY <1>1, <1>2, TimeframeOf DEF TypeInv, TypeOK, AtSeries
<1>5. Paged(got, f, now)
  <2>1. got \in [DOMAIN got -> BOOLEAN]
    BY <1>1 DEF TypeInv, TypeOK
  <2>2. DOMAIN got \subseteq Served(f, now) /\ Unbroken(got, f)
    BY <1>1, <1>2 DEF GotInv, AtSeries
  <2>3. QED
    BY <1>1, <1>4, <2>1, <2>2 DEF Paged
<1>6. /\ DOMAIN more = page \cup DOMAIN got /\ DOMAIN more \subseteq Served(f, now)
      /\ more \in [DOMAIN more -> BOOLEAN] /\ Unbroken(more, f)
  BY <1>5, LongerIs, LongerIsTable, LongerIsUnbroken
<1>7. /\ started \in 1..now /\ started \in Int /\ started <= now
      /\ Today \in TradingDays
  BY <1>1, <1>2, Numbers DEF TypeInv, InPass, RunInv, InRun
<1>8. \A b \in DOMAIN more : Final(f, b, started) => more[b]
  <2>1. SUFFICES ASSUME NEW b \in DOMAIN more, Final(f, b, started) PROVE more[b]
    OBVIOUS
  <2>2. b \in Int
    BY <1>5, <1>6, PageIsBefore
  <2>3. CASE b \in DOMAIN got
    <3>1. got[b]
      BY <1>1, <1>2, <2>1, <2>3 DEF GotInv, AtSeries
    <3>2. more[b] = got[b]
      BY <1>5, <2>3, LongerAt
    <3>3. QED
      BY <3>1, <3>2
  <2>4. CASE b \notin DOMAIN got
    <3>1. more[b] = Final(f, b, now)
      BY <1>5, <2>4, LongerAt
    <3>2. Final(f, b, now)
      BY <1>1, <1>4, <1>7, <2>1, <2>2, FinalForEver
    <3>3. QED
      BY <3>1, <3>2
  <2>5. QED
    BY <2>3, <2>4
<1>9. \E top \in DOMAIN more :
        /\ Day(top) = Today
        /\ \A b \in Bars(written, s) : b <= top
        /\ \A c \in Served(f, started) : c <= top
  <2>1. CASE DOMAIN got = {}
    <3>1. PICK top \in page : Day(top) = Day(now) /\ \A b \in Served(f, now) : b <= top
      BY <1>5, <1>7, <2>1, FirstPageHasTop DEF Today
    <3>2. Bars(written, s) \subseteq Served(f, now)
      BY <1>1, <1>4 DEF TodayInv
    <3>3. Served(f, started) \subseteq Served(f, now)
      BY <1>1, <1>4, <1>7, ServedForEver
    <3>4. QED
      BY <1>6, <3>1, <3>2, <3>3 DEF Today
  <2>2. CASE DOMAIN got # {}
    <3>1. \E top \in DOMAIN got :
            /\ Day(top) = Today
            /\ \A b \in Bars(written, s) : b <= top
            /\ \A c \in Served(f, started) : c <= top
      BY <1>1, <1>2, <2>2 DEF GotInv, AtSeries
    <3>2. QED
      BY <1>6, <3>1
  <2>3. QED
    BY <2>1, <2>2
<1>10. TablesAreSound' /\ Today' = Today /\ (\A x \in Series : New(x) => New(x)')
  BY <1>2, StillKeeps DEF Still
<1>11. TypeInv'
  <2>1. DOMAIN more \subseteq FirstSlot..LastSlot
    BY <1>1, <1>4, <1>6, ServedInBounds
  <2>2. TypeOK'
    BY <1>1, <1>2, <1>6, <2>1 DEF TypeInv, TypeOK, Bars
  <2>3. (InPass => started \in 1..now /\ Day(started) = Today)'
    BY <1>1, <1>2, <1>10 DEF TypeInv, InPass
  <2>4. QED
    BY <1>2, <1>4, <1>10, <2>2, <2>3 DEF TypeInv, AtSeries, TablesAreSound
<1>12. RunInv'
  BY <1>1, <1>2, <1>10 DEF RunInv, InRun, Bars
<1>13. LatestInv'
  BY <1>1, <1>2, <1>10 DEF LatestInv, InPass, Bars
<1>14. GotInv'
  <2> HIDE DEF more, page
  <2>1. QED
    BY <1>1, <1>2, <1>6, <1>8, <1>9, <1>10 DEF GotInv, AtSeries, Bars
<1>15. ReachInv'
  <2>1. SUFFICES ASSUME pc' = "write"
                 PROVE  /\ DOMAIN more # {}
                        /\ IF latest[s] # None THEN \E b \in DOMAIN more : b <= latest[s]
                           ELSE Reaches(DOMAIN more, f)
    BY <1>2 DEF ReachInv
  <2>2. DOMAIN more # {}
    BY <1>9
  <2>3. CASE page = Older(got, f, now)
    <3>1. \A b \in DOMAIN more : \A d \in Served(f, LastSlot) : d <= b => d \in DOMAIN more
      BY <1>5, <2>3, LastPageReaches
    <3>2. CASE latest[s] # None
      <4>1. latest[s] \in Bars(written, s)
        BY <1>1, <1>2, <1>4, <3>2 DEF LatestInv, InPass, TypeInv
      <4>2. latest[s] \in Served(f, LastSlot) /\ latest[s] \in Int
        BY <1>1, <1>4, <4>1, ServedForEver, ServedIsSlot DEF TodayInv
      <4>3. latest[s] \in DOMAIN more
        BY <1>9, <3>1, <4>1, <4>2
      <4>4. QED
        BY <3>2, <4>2, <4>3
    <3>3. CASE latest[s] = None
      <4>1. ASSUME NEW d \in Served(f, LastSlot), NEW b \in DOMAIN more, d < b
            PROVE  d \in DOMAIN more
        <5>1. d \in Int /\ b \in Int /\ d <= b
          BY <1>1, <1>4, <1>6, <4>1, ServedIsSlot
        <5>2. QED
          BY <3>1, <5>1
      <4>2. QED
        BY <2>2, <3>3, <4>1 DEF Reaches
    <3>4. QED
      BY <2>2, <3>2, <3>3
  <2>4. CASE latest[s] = None /\ Cardinality(DOMAIN more) >= Limits[f]
    BY <2>2, <2>4 DEF Reaches
  <2>5. CASE latest[s] # None /\ \E b \in page : b <= latest[s]
    BY <1>6, <2>2, <2>5
  <2>6. QED
    BY <1>3, <2>1, <2>3, <2>4, <2>5
<1>16. DoneInv'
  BY <1>1, <1>2, <1>10 DEF DoneInv, InPass, Collected, Bars
<1>17. ExitInv' /\ RankedVolumesAreFinal'
  BY <1>1, <1>2 DEF ExitInv, RankedVolumesAreFinal
<1>18. QED
  BY <1>10, <1>11, <1>12, <1>13, <1>14, <1>15, <1>16, <1>17 DEF IInv, TablesAreSound

\* When the paging ends, the series has been fetched as a write wants it.
LEMMA ToWriteIsFetched ==
    ASSUME IInv, pc = "write"
    PROVE  /\ Head(todo) \in Series /\ todo \in Seq(Series) /\ todo # <<>>
           /\ Fetched(got, written[Head(todo)], Head(todo)[2], latest[Head(todo)], now)
           /\ Rows = ToStore(DOMAIN got, Head(todo)[2], latest[Head(todo)])
           /\ got \in [DOMAIN got -> BOOLEAN]
<1> DEFINE s == Head(todo)
           f == Head(todo)[2]
<1>1. /\ TypeInv /\ TableInv /\ TodayInv /\ RunInv /\ LatestInv /\ GotInv /\ ReachInv
      /\ now \in 1..LastSlot /\ AtSeries /\ InPass
  BY PartsOfIInv DEF AtSeries, InPass
<1>2. s \in Series /\ f \in Timeframes /\ todo \in Seq(Series) /\ todo # <<>>
  BY <1>1, TimeframeOf DEF TypeInv, TypeOK
<1>3. /\ DOMAIN got \subseteq Served(f, now) /\ Unbroken(got, f) /\ got \in [DOMAIN got -> BOOLEAN]
  BY <1>1 DEF GotInv, TypeInv, TypeOK
<1>4. /\ DOMAIN written[s] \subseteq Served(f, now) /\ Unbroken(written[s], f)
      /\ \A b \in DOMAIN written[s] : Day(b) = Day(now) =>
            \A c \in Served(f, LastSlot) : Day(c) = Day(now) /\ c < b => c \in DOMAIN written[s]
  BY <1>1, <1>2 DEF TableInv, TodayInv, Bars, Today
<1>5. DOMAIN got # {} /\ \E top \in DOMAIN got : Day(top) = Day(now) /\ \A b \in DOMAIN written[s] : b <= top
  BY <1>1 DEF GotInv, ReachInv, Bars, Today
<1>6. CASE latest[s] # None
  <2>1. latest[s] \in DOMAIN written[s]
    BY <1>1, <1>2, <1>6 DEF LatestInv, TypeInv, Bars
  <2>2. \E b \in DOMAIN got : b <= latest[s]
    BY <1>1, <1>6 DEF ReachInv
  <2>3. QED
    BY <1>1, <1>2, <1>3, <1>4, <1>5, <1>6, <2>1, <2>2 DEF Fetched, Rows, ToStore
<1>7. CASE latest[s] = None
  <2>1. Reaches(DOMAIN got, f)
    BY <1>1, <1>7 DEF ReachInv
  <2>2. New(s)
    BY <1>1, <1>2, <1>7 DEF LatestInv
  <2>3. DOMAIN written[s] # {} =>
            (\E b \in DOMAIN written[s] : Day(b) = Day(now)) /\ Reaches(DOMAIN written[s], f)
    BY <2>2 DEF New, HasToday, Bars, Today
  <2>4. QED
    BY <1>1, <1>2, <1>3, <1>4, <1>5, <1>7, <2>1, <2>3 DEF Fetched, Rows, ToStore
<1>8. QED
  BY <1>6, <1>7

\* The bars that are stored of the series.
LEMMA UpsertedIs ==
    ASSUME IInv, pc = "write", NEW stored \in SUBSET Rows,
           written' = Upserted(Restrict(got, stored))
    PROVE  /\ AsTable(written)'
           /\ written'[Head(todo)] = With(got, written[Head(todo)], stored)
           /\ DOMAIN written'[Head(todo)] = stored \cup DOMAIN written[Head(todo)]
           /\ \A s \in Series : s # Head(todo) => written'[s] = written[s]
<1> DEFINE s == Head(todo)
           f == Head(todo)[2]
           more == With(got, written[s], stored)
<1>1. TypeInv /\ TodayInv /\ now \in 1..LastSlot /\ now \in Int /\ now <= LastSlot
  BY PartsOfIInv, Numbers
<1>2. /\ s \in Series /\ f \in Timeframes /\ DOMAIN got \subseteq Served(f, now)
      /\ got \in [DOMAIN got -> BOOLEAN]
      /\ stored \subseteq DOMAIN got
  BY ToWriteIsFetched DEF Fetched, ToStore
<1>3. written = [x \in Series |-> written[x]]
  BY <1>1 DEF TypeInv, AsTable
<1>4. written' = [written EXCEPT ![s] = more]
  BY DEF Upserted, With
<1>5. written'[s] = more /\ \A x \in Series : x # s => written'[x] = written[x]
  <2> HIDE DEF more
  <2>1. QED
    BY <1>2, <1>3, <1>4
<1>6. DOMAIN more = stored \cup DOMAIN written[s]
  BY <1>2 DEF With, Over, Restrict
<1>7. more \in [DOMAIN more -> BOOLEAN]
  <2>1. \A b \in stored : more[b] = got[b]
    BY <1>2 DEF With, Over, Restrict
  <2>2. \A b \in DOMAIN written[s] \ stored : more[b] = written[s][b]
    BY <1>2 DEF With, Over, Restrict
  <2>3. written[s] \in [DOMAIN written[s] -> BOOLEAN]
    BY <1>1, <1>2 DEF TypeInv, AsTable, Bars
  <2>4. more = [b \in DOMAIN more |-> more[b]]
    BY DEF With, Over
  <2>5. \A b \in DOMAIN more : more[b] \in BOOLEAN
    BY <1>2, <1>6, <2>1, <2>2, <2>3
  <2> HIDE DEF more
  <2>6. QED
    BY <2>4, <2>5
<1>8. DOMAIN more \subseteq FirstSlot..LastSlot
  <2>1. Served(f, now) \subseteq FirstSlot..LastSlot
    BY <1>1, <1>2, ServedInBounds
  <2>2. DOMAIN written[s] \subseteq FirstSlot..LastSlot
    BY <1>1, <1>2 DEF TypeInv, AsTable, Bars
  <2>3. QED
    BY <1>2, <1>6, <2>1, <2>2
<1>9. AsTable(written)'
  <2> HIDE DEF more
  <2>1. \A x \in Series : written'[x] \in [DOMAIN written'[x] -> BOOLEAN]
                          /\ DOMAIN written'[x] \subseteq FirstSlot..LastSlot
    <3>1. SUFFICES ASSUME NEW x \in Series
                   PROVE  written'[x] \in [DOMAIN written'[x] -> BOOLEAN]
                          /\ DOMAIN written'[x] \subseteq FirstSlot..LastSlot
      OBVIOUS
    <3>2. CASE x = s
      BY <1>5, <1>7, <1>8, <3>2
    <3>3. CASE x # s
      BY <1>1, <1>5, <3>3 DEF TypeInv, AsTable, Bars
    <3>4. QED
      BY <3>2, <3>3
  <2>2. written' = [x \in Series |-> written'[x]]
    BY <1>3, <1>4
  <2>3. QED
    BY <2>1, <2>2 DEF AsTable, Bars
<1>10. QED
  BY <1>5, <1>6, <1>9

\* However far a write comes, the table it leaves is sound, and its bars are
\* those from before and the ones stored.
LEMMA WriteIsSound ==
    ASSUME IInv, pc = "write", NEW stored \in SUBSET Rows,
           \A b \in stored : \A c \in Rows : c <= b => c \in stored,
           written' = Upserted(Restrict(got, stored)),
           applied' \in {applied, written'}, now' = now
    PROVE  TablesAreSound'
<1> DEFINE s == Head(todo)
           f == Head(todo)[2]
<1>1. /\ TypeInv /\ TableInv /\ TodayInv
      /\ now \in 1..LastSlot /\ now \in Int /\ now <= LastSlot
  BY PartsOfIInv, Numbers
<1>2. /\ AsTable(written)' /\ written'[s] = With(got, written[s], stored)
      /\ DOMAIN written'[s] = stored \cup DOMAIN written[s]
      /\ \A x \in Series : x # s => written'[x] = written[x]
  BY UpsertedIs
<1>3. /\ s \in Series /\ Fetched(got, written[s], f, latest[s], now)
      /\ Rows = ToStore(DOMAIN got, f, latest[s])
      /\ DOMAIN got \subseteq Served(f, now) /\ stored \subseteq DOMAIN got
  BY ToWriteIsFetched DEF Fetched, ToStore
<1>4. Unbroken(written'[s], f)
  BY <1>2, <1>3, StoredIsUnbroken
<1>5. ASSUME NEW b \in DOMAIN written'[s], Day(b) = Today,
             NEW c \in Served(f, LastSlot), Day(c) = Today, c < b
      PROVE  c \in DOMAIN written'[s]
  BY <1>2, <1>3, <1>5, StoredFromOpening DEF Today
<1>6. DOMAIN written'[s] \subseteq Served(f, now)
  BY <1>1, <1>2, <1>3 DEF TodayInv, Bars
<1>7. AsTable(applied)'
  <2>1. CASE applied' = applied
    BY <1>1, <2>1 DEF TypeInv, AsTable, Bars
  <2>2. CASE applied' = written'
    BY <1>2, <2>2 DEF AsTable, Bars
  <2>3. QED
    BY <2>1, <2>2
<1>8. ASSUME NEW x \in Series
      PROVE  /\ DOMAIN applied'[x] \subseteq DOMAIN written'[x]
             /\ Unbroken(written'[x], x[2]) /\ Unbroken(applied'[x], x[2])
             /\ DOMAIN written'[x] \subseteq Served(x[2], now)
             /\ \A b \in DOMAIN written'[x] : Day(b) = Today =>
                    \A c \in Served(x[2], LastSlot) :
                        Day(c) = Today /\ c < b => c \in DOMAIN written'[x]
  <2>1. Unbroken(written'[x], x[2]) /\ DOMAIN written[x] \subseteq DOMAIN written'[x]
    BY <1>1, <1>2, <1>4 DEF TableInv
  <2>2. DOMAIN applied'[x] \subseteq DOMAIN written'[x] /\ Unbroken(applied'[x], x[2])
    BY <1>1, <2>1 DEF TypeInv, TableInv, Bars
  <2>3. DOMAIN written'[x] \subseteq Served(x[2], now)
    BY <1>1, <1>2, <1>6 DEF TodayInv, Bars
  <2>4. \A b \in DOMAIN written'[x] : Day(b) = Today =>
            \A c \in Served(x[2], LastSlot) :
                Day(c) = Today /\ c < b => c \in DOMAIN written'[x]
    BY <1>1, <1>2, <1>5 DEF TodayInv, Bars
  <2>5. QED
    BY <2>1, <2>2, <2>3, <2>4
<1>9. TableInv'
  BY <1>8 DEF TableInv, Unbroken
<1>10. TodayInv'
  BY <1>8 DEF TodayInv, Bars, Today
<1>11. (\A x \in Series : Bars(applied, x) \subseteq Bars(written, x))'
  BY <1>8 DEF Bars
<1>12. QED
  BY <1>2, <1>7, <1>9, <1>10, <1>11 DEF TablesAreSound

\* When all of it is written, a new series stays new and the pass is through
\* with the series.
LEMMA AllIsWritten ==
    ASSUME IInv, pc = "write", written' = Upserted(Restrict(got, Rows)),
           now' = now, started' = started
    PROVE  /\ \A x \in Series : Bars(written, x) \subseteq Bars(written, x)'
           /\ \A x \in Series : x # Head(todo) \/ latest[x] = None => (New(x) => New(x)')
           /\ \A x \in Series : x = Head(todo) \/ Collected(x) => Collected(x)'
<1> DEFINE s == Head(todo)
           f == Head(todo)[2]
<1>1. /\ TypeInv /\ TodayInv /\ GotInv
      /\ now \in Int /\ started \in Int /\ started <= now
  <2>1. started \in 1..now
    BY PartsOfIInv DEF TypeInv, InPass
  <2>2. QED
    BY <2>1, PartsOfIInv
<1>2. /\ written'[s] = With(got, written[s], Rows)
      /\ DOMAIN written'[s] = Rows \cup DOMAIN written[s]
      /\ \A x \in Series : x # s => written'[x] = written[x]
  BY UpsertedIs
<1>3. /\ s \in Series /\ Fetched(got, written[s], f, latest[s], now)
      /\ Rows = ToStore(DOMAIN got, f, latest[s])
  BY ToWriteIsFetched
<1>4. \A x \in Series : Bars(written, x) \subseteq Bars(written, x)'
  BY <1>2 DEF Bars
<1>5. ASSUME NEW x \in Series, x # s, New(x) PROVE New(x)'
  <2>1. written'[x] = written[x]
    BY <1>2, <1>5
  <2>2. QED
    BY <1>5, <2>1 DEF New, HasToday, Reaches, Bars, Today
<1>6. ASSUME latest[s] = None, NEW x \in Series, x = s PROVE New(x)'
  <2>1. \E b \in DOMAIN written'[s] : Day(b) = Day(now)
    BY <1>2, <1>3, AllStoredHasToday
  <2>2. Reaches(DOMAIN written'[s], f)
    BY <1>2, <1>3, <1>6, AllStoredReaches
  <2>3. QED
    BY <1>6, <2>1, <2>2 DEF New, HasToday, Reaches, Bars, Today
<1>7. ASSUME NEW x \in Series, x = s PROVE Collected(x)'
  <2>1. SUFFICES ASSUME NEW c \in Served(f, started), Day(c) = Day(now)
                 PROVE  /\ c \in DOMAIN written'[s]
                        /\ Final(f, c, started) => written'[s][c]
    BY <1>7 DEF Collected, Today, Bars, Final
  <2>2. /\ \A b \in DOMAIN got : Final(f, b, started) => got[b]
        /\ \E t \in DOMAIN got : \A d \in Served(f, started) : d <= t
    <3>1. DOMAIN got # {}
      BY <1>3 DEF Fetched
    <3>2. QED
      BY <1>1, <3>1 DEF GotInv, AtSeries
  <2>3. /\ c \in Rows \cup DOMAIN written[s]
        /\ Final(f, c, started) => With(got, written[s], Rows)[c]
    BY <1>1, <1>3, <2>1, <2>2, AllStoredIsCollected
  <2>4. QED
    BY <1>2, <2>3
<1>8. ASSUME NEW x \in Series, x # s, Collected(x) PROVE Collected(x)'
  <2>1. written'[x] = written[x]
    BY <1>2, <1>8
  <2>2. QED
    BY <1>8, <2>1 DEF Collected, Today, Bars, Final
<1>9. QED
  BY <1>4, <1>5, <1>6, <1>7, <1>8

\* What was sent before a failure leaves out no older row.
LEMMA SentIsOldest ==
    ASSUME IInv, pc = "write", NEW k \in Rows
    PROVE  /\ Sent(k) \in SUBSET Rows
           /\ \A b \in Sent(k) : \A c \in Rows : c <= b => c \in Sent(k)
<1>1. \A b \in Rows : b \in Int
  <2>1. DOMAIN got \subseteq FirstSlot..LastSlot
    BY PartsOfIInv DEF TypeInv, TypeOK
  <2>2. Rows \subseteq DOMAIN got
    BY DEF Rows
  <2>3. QED
    BY <2>1, <2>2, Numbers
<1>2. QED
  BY <1>1 DEF Sent

\* All rows of a series are written, applied at once or later.
LEMMA WriteCandlesKeeps == IInv /\ WriteCandles => IInv'
<1> SUFFICES ASSUME IInv, WriteCandles PROVE IInv'
  OBVIOUS
<1> DEFINE s == Head(todo)
<1>1. /\ TypeInv /\ RunInv /\ LatestInv /\ DoneInv /\ ExitInv /\ RankedVolumesAreFinal
      /\ now \in 1..LastSlot
  BY PartsOfIInv
<1>2. /\ pc = "write" /\ written' = Upserted(Restrict(got, Rows))
      /\ \/ applied' = written' /\ faults' = faults
         \/ applied' = applied /\ Fault
      /\ pc' = IF Len(todo) = 1 THEN "rank" ELSE "page"
      /\ todo' = Tail(todo) /\ got' = <<>>
      /\ now' = now /\ due' = due /\ pending' = pending /\ started' = started
      /\ latest' = latest /\ closeFailed' = closeFailed /\ days' = days
      /\ ranking' = ranking /\ exit' = exit
  BY DEF WriteCandles, Write, outputs
<1>3. TablesAreSound'
  <2>1. /\ Rows \in SUBSET Rows /\ applied' \in {applied, written'}
        /\ \A b \in Rows : \A c \in Rows : c <= b => c \in Rows
    BY <1>2
  <2>2. QED
    BY <1>2, <2>1, WriteIsSound
<1>4. /\ \A x \in Series : Bars(written, x) \subseteq Bars(written, x)'
      /\ \A x \in Series : x # s \/ latest[x] = None => (New(x) => New(x)')
      /\ \A x \in Series : x = s \/ Collected(x) => Collected(x)'
  BY <1>2, AllIsWritten
<1>5. \A x \in Series : Bars(applied, x) \subseteq Bars(applied, x)'
  <2>1. SUFFICES ASSUME NEW x \in Series PROVE Bars(applied, x) \subseteq Bars(applied, x)'
    OBVIOUS
  <2>2. CASE applied' = applied
    BY <2>2 DEF Bars
  <2>3. CASE applied' = written'
    <3>1. Bars(applied, x) \subseteq Bars(written, x)
      BY <1>1 DEF TypeInv
    <3>2. DOMAIN written[x] \subseteq DOMAIN written'[x]
      BY <1>4 DEF Bars
    <3>3. QED
      BY <2>3, <3>1, <3>2 DEF Bars
  <2>4. QED
    BY <1>2, <2>2, <2>3
<1>6. InPass /\ InRun /\ AtSeries /\ InRun'
  BY <1>2 DEF InPass, InRun, AtSeries
<1>7. /\ s \in Series /\ todo \in Seq(Series) /\ todo # <<>>
  BY <1>2, ToWriteIsFetched
<1>8. /\ Tail(todo) \in Seq(Series)
      /\ Len(todo) = 1 => Tail(todo) = <<>>
      /\ Len(todo) # 1 => Tail(todo) # <<>>
  <2>1. Tail(todo) \in Seq(Series) /\ Len(Tail(todo)) = Len(todo) - 1 /\ Len(todo) \in Nat
    BY <1>7, HeadTailProperties
  <2>2. Tail(todo) = <<>> <=> Len(Tail(todo)) = 0
    BY <2>1, EmptySeq
  <2>3. QED
    BY <2>1, <2>2
<1>9. Today' = Today
  BY <1>2 DEF Today
<1>10. faults' \in 0..MaxFaults
  BY <1>2, FaultIsCounted
<1>11. DOMAIN got' = {} /\ got' \in [DOMAIN got' -> BOOLEAN]
  BY <1>2
<1>12. TypeInv'
  <2>1. \A table \in {written', applied'} : \A x \in Series :
            /\ table[x] \in [DOMAIN table[x] -> BOOLEAN]
            /\ DOMAIN table[x] \subseteq FirstSlot..LastSlot
    BY <1>3 DEF TablesAreSound, AsTable, Bars
  <2>2. DOMAIN got' \subseteq FirstSlot..LastSlot
    BY <1>11
  <2>3. TypeOK'
    BY <1>1, <1>2, <1>8, <1>10, <1>11, <2>1, <2>2 DEF TypeInv, TypeOK, Bars
  <2>4. (InPass => started \in 1..now /\ Day(started) = Today)'
    BY <1>1, <1>2, <1>6, <1>9 DEF TypeInv
  <2>5. (AtSeries => todo # <<>>)' /\ (pc = "rank" => todo = <<>>)'
    BY <1>2, <1>8 DEF AtSeries
  <2>6. QED
    BY <1>3, <2>3, <2>4, <2>5 DEF TypeInv, TablesAreSound
<1>13. RunInv'
  <2>1. ASSUME NEW x \in Series, DOMAIN applied'[x] = {} PROVE New(x)'
    <3>1. Bars(applied, x) = {}
      BY <1>5, <2>1 DEF Bars
    <3>2. New(x)
      BY <1>1, <1>6, <3>1 DEF RunInv
    <3>3. latest[x] = None
      BY <1>1, <1>6, <3>1 DEF LatestInv
    <3>4. QED
      BY <1>4, <3>2, <3>3
  <2>2. NewAreNew'
    BY <2>1 DEF NewAreNew, Bars
  <2>3. QED
    BY <1>1, <1>2, <1>6, <1>9, <2>2 DEF RunInv, NewAreNew
<1>14. LatestInv'
  <2>1. ASSUME NEW x \in Series
        PROVE  IF latest'[x] = None THEN New(x)' ELSE latest'[x] \in Bars(applied, x)'
    <3>1. IF latest[x] = None THEN New(x) ELSE latest[x] \in Bars(applied, x)
      BY <1>1, <1>6 DEF LatestInv
    <3>2. QED
      BY <1>2, <1>4, <1>5, <3>1
  <2>2. \E p \in pending' : p <= started'
    BY <1>1, <1>2, <1>6 DEF LatestInv
  <2>3. QED
    BY <2>1, <2>2 DEF LatestInv
<1>15. GotInv'
  BY <1>11 DEF GotInv, Unbroken
<1>16. ReachInv'
  BY <1>2 DEF ReachInv
<1>17. DoneInv'
  <2>1. SUFFICES ASSUME NEW x \in Series, x[2] = "1m" \/ pending = {Close(Today)}
                 PROVE  (\E i \in DOMAIN todo' : todo'[i] = x) \/ Collected(x)'
    BY <1>2, <1>9 DEF DoneInv
  <2>2. CASE Collected(x)
    BY <1>4, <2>2
  <2>3. CASE ~Collected(x) /\ x # s
    <3>1. PICK i \in DOMAIN todo : todo[i] = x
      BY <1>1, <1>6, <2>1, <2>3 DEF DoneInv
    <3>2. i \in 2..Len(todo) /\ Len(todo) \in Nat /\ DOMAIN Tail(todo) = 1..(Len(todo) - 1)
      <4>1. i # 1
        BY <1>7, <2>3, <3>1
      <4>2. QED
        BY <1>7, <3>1, <4>1
    <3>3. i - 1 \in DOMAIN Tail(todo)
      BY <3>2
    <3>4. Tail(todo)[i - 1] = todo[i]
      BY <1>7, <3>2
    <3>5. QED
      BY <1>2, <3>1, <3>3, <3>4
  <2>4. CASE x = s
    BY <1>4, <2>4
  <2>5. QED
    BY <2>2, <2>3, <2>4
<1>18. ExitInv' /\ RankedVolumesAreFinal'
  BY <1>1, <1>2 DEF ExitInv, RankedVolumesAreFinal
<1>19. QED
  BY <1>3, <1>12, <1>13, <1>14, <1>15, <1>16, <1>17, <1>18 DEF IInv, TablesAreSound

\* A write that fails half way is the last of its pass.
LEMMA WriteFailsKeeps == IInv /\ WriteFails => IInv'
<1> SUFFICES ASSUME IInv, WriteFails PROVE IInv'
  OBVIOUS
<1>1. /\ pc = "write" /\ Fault /\ Fails /\ PassOver
      /\ \E k \in Rows : written' = Upserted(Restrict(got, Sent(k))) /\ applied' = written'
      /\ now' = now /\ due' = due /\ days' = days /\ ranking' = ranking /\ exit' = exit
  BY DEF WriteFails, outputs
<1>2. PICK k \in Rows : written' = Upserted(Restrict(got, Sent(k))) /\ applied' = written'
  BY <1>1
<1>3. TablesAreSound'
  BY <1>1, <1>2, SentIsOldest, WriteIsSound
<1>4. NewAreNew'
  BY <1>2 DEF NewAreNew, New, Bars
<1>5. faults' \in 0..MaxFaults /\ RankedVolumesAreFinal'
  BY <1>1, PartsOfIInv, FaultIsCounted DEF RankedVolumesAreFinal
<1>6. closeFailed' \in BOOLEAN /\ (pc' = "end" => closeFailed')
  BY <1>1, LastFailureCounts DEF Fails
<1>7. PastIsPast'
  BY <1>1, PartsOfIInv DEF RunInv, InRun, PastIsPast, Today
<1>8. pc' = "end" /\ ~closeFailed' => Complete'
  BY <1>6
<1>9. pc \notin {"idle", "failed", "end"}
  BY <1>1
<1>10. QED
  BY <1>1, <1>3, <1>4, <1>5, <1>6, <1>7, <1>8, <1>9, PassOverKeeps

\* A process that is killed leaves the tables, half a write among them.
LEMMA CrashKeeps == IInv /\ Crash => IInv'
<1> SUFFICES ASSUME IInv, Crash PROVE IInv'
  OBVIOUS
<1>1. /\ Fault /\ End("failed") /\ now' = now /\ due' = due /\ ranking' = ranking
      /\ \/ written' = written /\ applied' = applied
         \/ /\ pc = "write"
            /\ \E k \in Rows : written' = Upserted(Restrict(got, Sent(k))) /\ applied' = written'
  BY DEF Crash, outputs, database
<1>2. TablesAreSound'
  <2>1. CASE written' = written /\ applied' = applied
    BY <1>1, <2>1, StillKeeps DEF Still
  <2>2. ASSUME pc = "write", NEW k \in Rows,
               written' = Upserted(Restrict(got, Sent(k))), applied' = written'
        PROVE  TablesAreSound'
    BY <1>1, <2>2, SentIsOldest, WriteIsSound
  <2>3. QED
    BY <1>1, <2>1, <2>2
<1>3. faults' \in 0..MaxFaults /\ due' \in BOOLEAN
  BY <1>1, FaultIsCounted, PartsOfIInv DEF TypeInv, TypeOK
<1>4. QED
  BY <1>1, <1>2, <1>3, EndKeeps

-----------------------------------------------------------------------------
(* The ranking.                                                            *)

\* When a pass comes to it, every series it collected has the day as it was
\* when the pass began.
LEMMA AtRankCollected ==
    ASSUME IInv, pc = "rank"
    PROVE  /\ \A s \in Series : s[2] = "1m" \/ pending = {Close(Today)} => Collected(s)
           /\ started \in 1..now /\ started \in Int /\ started <= LastSlot
           /\ Day(started) = Today /\ Today \in Int /\ Today \in TradingDays
           /\ Close(Today) \in Int /\ started <= Close(Today)
           /\ Close(Today) - SlotsPerDay < started
<1>1. TypeInv /\ DoneInv /\ RunInv /\ InPass /\ InRun /\ now \in 1..LastSlot
  BY PartsOfIInv DEF InPass, InRun
<1>2. todo = <<>> /\ started \in 1..now /\ Day(started) = Today
  BY <1>1 DEF TypeInv
<1>3. DOMAIN todo = {}
  BY <1>2
<1>4. started \in Int /\ started <= LastSlot
  BY <1>1, <1>2, Numbers
<1>5. \A s \in Series : s[2] = "1m" \/ pending = {Close(Today)} => Collected(s)
  BY <1>1, <1>3 DEF DoneInv
<1>6. Today \in TradingDays
  BY <1>1 DEF RunInv
<1>7. QED
  BY <1>2, <1>4, <1>5, <1>6, DayBounds

\* The ranking compares with days that are over.
LEMMA PastDaysAreOver ==
    ASSUME IInv, pc = "rank"
    PROVE  PastDays \subseteq {d \in Int : d < Today}
<1>1. TypeInv /\ RunInv /\ InRun
  BY PartsOfIInv DEF InRun
<1>2. CASE days # Unknown
  BY <1>1, <1>2 DEF RunInv, PastDays
<1>3. CASE days = Unknown
  <2>1. ASSUME NEW d \in PastDays PROVE d \in Int /\ d < Today
    <3>1. d < Day(started) /\ \E b \in UNION {Bars(applied, <<x, "1m">>) : x \in Symbols} : d = Day(b)
      BY <1>3, <2>1 DEF PastDays
    <3>2. PICK x \in Symbols : \E b \in Bars(applied, <<x, "1m">>) : d = Day(b)
      BY <3>1
    <3>3. <<x, "1m">> \in Series
      BY DEF Series, Timeframes
    <3>4. Bars(applied, <<x, "1m">>) \subseteq FirstSlot..LastSlot
      BY <1>1, <3>3 DEF TypeInv, AsTable
    <3>5. PICK b \in Bars(applied, <<x, "1m">>) : d = Day(b)
      BY <3>2
    <3>6. b \in Int
      BY <3>4, Numbers
    <3>7. QED
      BY <3>1, <3>5, <3>6, DayBounds, AtRankCollected
  <2>2. QED
    BY <2>1
<1>4. QED
  BY <1>2, <1>3

\* It ends with the last minute before the pass, which by then was final and
\* is stored.
LEMMA EndOfRankingIsFinal ==
    ASSUME IInv, pc = "rank", ~(EndOfRanking < Close(Day(started) - 1) + 1)
    PROVE  /\ EndOfRanking \in Int
           /\ \A x \in Symbols :
                /\ EndOfRanking \in Bars(written, <<x, "1m">>)
                /\ written[<<x, "1m">>][EndOfRanking]
<1>1. /\ \A s \in Series : s[2] = "1m" => Collected(s)
      /\ started \in Int /\ 1 <= started /\ started <= LastSlot /\ Day(started) = Today
      /\ Today \in Int /\ Today \in TradingDays
      /\ Close(Today) \in Int /\ started <= Close(Today)
  BY AtRankCollected
<1>2. EndOfRanking = started - 1
  <2>1. started - 1 <= Close(Today) - 1
    BY <1>1
  <2> DEFINE S == {started - 1, Close(Today) - 1}
  <2>2. started - 1 \in S /\ \A m \in S : started - 1 <= m /\ m \in Int
    BY <1>1, <2>1
  <2>3. \A m \in S : (\A l \in S : m <= l) => m = started - 1
    <3>1. SUFFICES ASSUME NEW m \in S, m <= started - 1 PROVE m = started - 1
      BY <2>2
    <3>2. m \in Int /\ started - 1 <= m
      BY <2>2
    <3>3. QED
      BY <1>1, <3>1, <3>2
  <2> HIDE DEF S
  <2>4. Min(S) = started - 1
    BY <2>2, <2>3 DEF Min
  <2>5. QED
    BY <1>1, <2>4 DEF EndOfRanking, S
<1>3. Close(Today - 1) + SlotsPerDay = Close(Today)
  BY <1>1, Numbers, SMTT(30) DEF Close
<1>4. Close(Today) - SlotsPerDay < EndOfRanking /\ EndOfRanking < Close(Today) /\ EndOfRanking \in Int
  <2>1. Close(Today - 1) \in Int /\ SlotsPerDay \in Int
    BY <1>1, CloseIsSlot, Numbers
  <2>2. QED
    BY <1>1, <1>2, <1>3, <2>1
<1>5. Day(EndOfRanking) = Today
  BY <1>1, <1>4, DayIsUnique
<1>6. EndOfRanking \in Served("1m", started)
  <2>1. EndOfRanking # Close(Day(EndOfRanking))
    BY <1>1, <1>4, <1>5
  <2>2. FirstSlot <= EndOfRanking /\ EndOfRanking <= started
    BY <1>1, <1>2, Numbers
  <2>3. QED
    BY <1>1, <1>4, <1>5, <2>1, <2>2, ServedMinutes DEF Minute
<1>7. Final("1m", EndOfRanking, started)
  BY <1>1, <1>2 DEF Final
<1>8. ASSUME NEW x \in Symbols
      PROVE  /\ EndOfRanking \in Bars(written, <<x, "1m">>)
             /\ written[<<x, "1m">>][EndOfRanking]
  <2> DEFINE s == <<x, "1m">>
  <2>1. s \in Series /\ s[2] = "1m"
    BY DEF Series, Timeframes
  <2>2. Collected(s)
    BY <1>1, <2>1
  <2>3. QED
    BY <1>5, <1>6, <1>7, <2>1, <2>2 DEF Collected
<1>9. QED
  BY <1>4, <1>8

\* So it adds up final bars only.
LEMMA RankedIsFinal ==
    ASSUME IInv, pc = "rank", ~(EndOfRanking < Close(Day(started) - 1) + 1),
           NEW x \in Symbols, NEW b \in RankedMinutes, b \in Bars(written, <<x, "1m">>)
    PROVE  written[<<x, "1m">>][b] = TRUE
<1> DEFINE s == <<x, "1m">>
<1>1. s \in Series
  BY DEF Series, Timeframes
<1>2. /\ EndOfRanking \in Int /\ EndOfRanking \in Bars(written, s) /\ written[s][EndOfRanking]
  BY EndOfRankingIsFinal
<1>3. b \in Int
  <2>1. b \in FirstSlot..LastSlot
    BY DEF RankedMinutes
  <2>2. QED
    BY <2>1, Numbers
<1>4. b <= EndOfRanking
  <2>1. PICK d \in PastDays \cup {Day(started)} : b + (Day(started) - d) * SlotsPerDay <= EndOfRanking
    BY DEF RankedMinutes
  <2>2. d \in Int /\ Day(started) \in Int /\ d <= Day(started)
    BY AtRankCollected, PastDaysAreOver
  <2>3. (Day(started) - d) * SlotsPerDay \in Int /\ 0 <= (Day(started) - d) * SlotsPerDay
    BY <2>2, Numbers, SMTT(30)
  <2> DEFINE shift == (Day(started) - d) * SlotsPerDay
  <2>4. shift \in Int /\ 0 <= shift /\ b + shift <= EndOfRanking
    BY <2>1, <2>3
  <2> HIDE DEF shift
  <2>5. QED
    BY <1>2, <1>3, <2>4
<1>5. Unbroken(written[s], "1m") /\ written[s] \in [Bars(written, s) -> BOOLEAN]
  BY <1>1, PartsOfIInv DEF TableInv, TypeInv, AsTable
<1>6. written[s][b]
  <2>1. CASE b = EndOfRanking
    BY <1>2, <2>1
  <2>2. CASE b < EndOfRanking
    BY <1>2, <1>5, <2>2 DEF Unbroken, Bars
  <2>3. QED
    BY <1>2, <1>3, <1>4, <2>1, <2>2
<1>7. written[s][b] \in BOOLEAN
  BY <1>5
<1>8. QED
  BY <1>6, <1>7

\* The day is complete when the last pass comes to the ranking.
LEMMA LastPassCompletes ==
    ASSUME IInv, pc = "rank", pending = {Close(Today)}
    PROVE  Complete
<1>1. /\ \A s \in Series : Collected(s)
      /\ started \in Int /\ Day(started) = Today /\ Close(Today) \in Int
      /\ started <= Close(Today)
  BY AtRankCollected
<1>2. LatestInv /\ InPass
  BY PartsOfIInv DEF InPass
<1>3. started = Close(Today)
  <2>1. Close(Today) <= started
    BY <1>2 DEF LatestInv
  <2>2. QED
    BY <1>1, <2>1
<1>4. ~Minute(started)
  BY <1>1, <1>3 DEF Minute
<1>5. SUFFICES ASSUME NEW s \in Series, NEW b \in Served(s[2], LastSlot), Day(b) = Today
               PROVE  b \in Bars(written, s) /\ written[s][b]
  BY DEF Complete
<1>6. b \in Served(s[2], started) /\ Final(s[2], b, started)
  BY <1>1, <1>4, <1>5, TimeframeOf, ClosedDayIsServed
<1>7. QED
  BY <1>1, <1>5, <1>6 DEF Collected

\* The ranking that a pass computes is final.
LEMMA RankingIsFinal ==
    ASSUME IInv, Rank
    PROVE  RankedVolumesAreFinal'
<1> DEFINE Of(x) == applied[<<x, "1m">>]
<1>1. pc = "rank"
  BY DEF Rank
<1>2. CASE ranking' = ranking
  BY <1>2, PartsOfIInv DEF RankedVolumesAreFinal
<1>3. CASE /\ ~(EndOfRanking < Close(Day(started) - 1) + 1)
           /\ ranking' =
                [lagging |-> applied # written,
                 final |-> UNION {{Of(x)[b] : b \in RankedMinutes \cap DOMAIN Of(x)} : x \in Symbols},
                 upToDate |-> {x \in Symbols : EndOfRanking \in DOMAIN Of(x)}]
  <2>1. SUFFICES ASSUME applied = written
                 PROVE  ranking'.final \subseteq {TRUE} /\ ranking'.upToDate = Symbols
    BY <1>3 DEF RankedVolumesAreFinal
  <2>2. \A x \in Symbols : EndOfRanking \in DOMAIN Of(x)
    BY <1>1, <1>3, <2>1, EndOfRankingIsFinal DEF Bars
  <2>3. ranking'.upToDate = Symbols
    BY <1>3, <2>2
  <2>4. ASSUME NEW v \in ranking'.final PROVE v = TRUE
    <3>1. v \in UNION {{Of(x)[b] : b \in RankedMinutes \cap DOMAIN Of(x)} : x \in Symbols}
      BY <1>3, <2>4
    <3>2. PICK x \in Symbols : v \in {Of(x)[b] : b \in RankedMinutes \cap DOMAIN Of(x)}
      BY <3>1
    <3>3. PICK b \in RankedMinutes \cap DOMAIN Of(x) : v = Of(x)[b]
      BY <3>2
    <3>4. written[<<x, "1m">>][b] = TRUE
      BY <1>1, <1>3, <2>1, <3>3, RankedIsFinal DEF Bars
    <3>5. QED
      BY <2>1, <3>3, <3>4
  <2>5. QED
    BY <2>3, <2>4
<1>4. QED
  BY <1>2, <1>3 DEF Rank

\* The last step of a pass.
LEMMA RankKeeps == IInv /\ Rank => IInv'
<1> SUFFICES ASSUME IInv, Rank PROVE IInv'
  OBVIOUS
<1>1. /\ pc = "rank" /\ PassOver
      /\ now' = now /\ written' = written /\ applied' = applied /\ due' = due
      /\ closeFailed' = closeFailed /\ exit' = exit
      /\ days' \in {days, PastDays}
      /\ faults' = faults \/ Fault
  BY DEF Rank, database
<1>2. TypeInv /\ RunInv /\ InRun
  BY <1>1, PartsOfIInv DEF InRun
<1>3. NewAreNew
  BY <1>2 DEF RunInv, NewAreNew
<1>4. TablesAreSound' /\ NewAreNew' /\ (Complete => Complete')
  BY <1>1, <1>3, StillKeeps DEF Still
<1>5. PastIsPast'
  <2>1. CASE days' = days
    BY <1>1, <1>2, <2>1 DEF RunInv, PastIsPast, Today
  <2>2. CASE days' = PastDays
    BY <1>1, <2>2, PastDaysAreOver DEF PastIsPast, Today
  <2>3. QED
    BY <1>1, <2>1, <2>2
<1>6. pc' = "end" /\ ~closeFailed' => Complete'
  <2>1. pc' = "end" => pending = {Close(Today)}
    BY <1>1, <1>2, AfterPass DEF RunInv, TypeInv, TypeOK
  <2>2. QED
    BY <1>1, <1>4, <2>1, LastPassCompletes
<1>7. faults' \in 0..MaxFaults /\ closeFailed' \in BOOLEAN
  BY <1>1, <1>2, FaultIsCounted DEF TypeInv, TypeOK
<1>8. RankedVolumesAreFinal' /\ pc \notin {"idle", "failed", "end"}
  BY <1>1, RankingIsFinal
<1>9. QED
  BY <1>1, <1>4, <1>5, <1>6, <1>7, <1>8, PassOverKeeps

-----------------------------------------------------------------------------
(* The theorems.                                                           *)

LEMMA NextKeeps == IInv /\ [Next]_vars => IInv'
<1> SUFFICES ASSUME IInv, [Next]_vars PROVE IInv'
  OBVIOUS
<1>1. CASE Tick
  BY <1>1, TickKeeps
<1>2. CASE Apply
  BY <1>2, ApplyKeeps
<1>3. CASE Run
  BY <1>3, StartKeeps, SnapshotKeeps, BeginPassKeeps, PageKeeps, WriteCandlesKeeps,
     RankKeeps, EndRunKeeps DEF Run
<1>4. CASE PassFails
  BY <1>4, PassFailsKeeps
<1>5. CASE WriteFails
  BY <1>5, WriteFailsKeeps
<1>6. CASE Crash
  BY <1>6, CrashKeeps
<1>7. CASE UNCHANGED vars
  <2>1. /\ now' = now /\ written' = written /\ applied' = applied /\ due' = due /\ pc' = pc
        /\ pending' = pending /\ started' = started /\ latest' = latest /\ todo' = todo
        /\ got' = got /\ closeFailed' = closeFailed /\ days' = days
        /\ corporations' = corporations /\ ranking' = ranking /\ exit' = exit
        /\ faults' = faults
    BY <1>7 DEF vars, database, process, outputs
  <2>2. TablesAreSound' /\ Today' = Today /\ (\A s \in Series : New(s) => New(s)')
        /\ (Complete => Complete')
    BY <2>1, StillKeeps DEF Still
  <2>3. /\ TypeInv /\ RunInv /\ LatestInv /\ GotInv /\ ReachInv /\ DoneInv /\ ExitInv
        /\ RankedVolumesAreFinal
    BY PartsOfIInv
  <2>4. TypeInv'
    <3>1. TypeOK'
      BY <2>1, <2>3 DEF TypeInv, TypeOK, Bars
    <3>2. QED
      BY <2>1, <2>2, <2>3, <3>1 DEF TypeInv, TablesAreSound, InPass, AtSeries
  <2>5. RunInv'
    BY <2>1, <2>2, <2>3 DEF RunInv, InRun, Bars
  <2>6. LatestInv'
    BY <2>1, <2>2, <2>3 DEF LatestInv, InPass, Bars
  <2>7. GotInv' /\ ReachInv' /\ DoneInv'
    BY <2>1, <2>2, <2>3 DEF GotInv, AtSeries, Unbroken, Final, Bars, ReachInv, Reaches,
       DoneInv, InPass, Collected
  <2>8. ExitInv' /\ RankedVolumesAreFinal'
    BY <2>1, <2>2, <2>3 DEF ExitInv, RankedVolumesAreFinal
  <2>9. QED
    BY <2>2, <2>4, <2>5, <2>6, <2>7, <2>8 DEF IInv, TablesAreSound
<1>8. QED
  BY <1>1, <1>2, <1>3, <1>4, <1>5, <1>6, <1>7 DEF Next

LEMMA Invariance == Spec => []IInv
BY InitIInv, NextKeeps, PTL DEF Spec

\* The database, what a pass remembers and how a run ended have their types.
THEOREM TypeCorrect == Spec => []TypeOK
<1>1. IInv => TypeOK
  BY DEF IInv, TypeInv
<1>2. QED
  BY <1>1, Invariance, PTL

\* Whatever pass failed, was skipped or was killed half way through a write, no
\* series has a hole and no bar behind the newest is unfinished, neither in what
\* is written nor in what queries see: the rows of a write are sent oldest first
\* and begin with the newest stored bar, and a checkpoint is never beyond it.
THEOREM HistoryCorrect == Spec => []HistoryIsFinal
<1>1. ASSUME IInv PROVE HistoryIsFinal
  <2>1. TypeOK /\ TableInv /\ AsTable(written) /\ AsTable(applied)
    BY <1>1, PartsOfIInv DEF TypeInv
  <2>2. ASSUME NEW table \in {written, applied}, NEW s \in Series, NEW b \in Bars(table, s),
               b < Max(Bars(table, s))
        PROVE  /\ table[s][b]
               /\ \A c \in Served(s[2], LastSlot) :
                    b < c /\ c < Max(Bars(table, s)) => c \in Bars(table, s)
    <3> DEFINE bars == Bars(table, s)
               newest == Max(bars)
    <3>1. bars \subseteq FirstSlot..LastSlot
      BY <2>1, <2>2 DEF AsTable
    <3>2. bars \in SUBSET Int /\ bars # {} /\ \A m \in bars : m <= LastSlot
      BY <2>2, <3>1, Numbers
    <3>3. newest \in bars
      <4> HIDE DEF bars
      <4>1. QED
        BY <3>2, LastIsMember, Numbers
    <3>4. Unbroken(table[s], s[2])
      BY <2>1, <2>2 DEF TableInv
    <3>5. QED
      BY <2>2, <3>3, <3>4 DEF Unbroken, Bars
  <2>3. QED
    BY <2>1, <2>2 DEF HistoryIsFinal
<1>2. QED
  BY <1>1, Invariance, PTL

\* A run that ends well on a trading day has left every minute and the daily bar
\* of that day behind it, in their final form, for every symbol of the index: its
\* last pass began after the close, failed nowhere, and no failure before it
\* could leave a gap that the pass would not find.
THEOREM CloseCorrect == Spec => []CloseIsComplete
<1>1. IInv => CloseIsComplete
  BY DEF IInv, ExitInv, CloseIsComplete, Complete, Today
<1>2. QED
  BY <1>1, Invariance, PTL

\* A ranking adds up final bars only, and has the last minute before its pass
\* of every symbol, unless QuestDB has yet to apply a write.
THEOREM RankedCorrect == Spec => []RankedVolumesAreFinal
<1>1. IInv => RankedVolumesAreFinal
  BY DEF IInv
<1>2. QED
  BY <1>1, Invariance, PTL

=============================================================================
