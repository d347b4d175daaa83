--------------------------- MODULE BarCollection ---------------------------
(***************************************************************************)
(* market_collector: one process per trading day makes a pass every minute *)
(* and a last one after the close.  A pass reads, per symbol and           *)
(* timeframe, the newest stored bar, pages back from the present to it and *)
(* writes what lies between.  There is no other memory of what is missing: *)
(* whatever a failed, killed or skipped pass left out, the next must find. *)
(*                                                                         *)
(* Time is counted in slots, SlotsPerDay to a day: the minutes of the      *)
(* session, then the slot of the close pass.  A minute bar is named by its *)
(* slot, a daily bar by the close slot of its day.                         *)
(***************************************************************************)
EXTENDS Integers, SequencesExt

CONSTANTS
    Index,        \* members of the index, in the order of load_symbols
    SlotsPerDay,  \* minutes of a session, plus one
    FirstSlot, LastSlot,  \* bounds: the oldest slot the chart service knows, the last slot
    TradingDays,  \* days 1.. are the ones the collector lives through
    Limits,       \* LIMITS: timeframe -> bars of a first collection
    PageSize,     \* bars of one answer of the chart service
    Window,       \* CHECKPOINT_DAYS in slots
    RankWindow,   \* minutes a ranking looks back
    SessionDays,  \* past days a ranking compares with
    Old,          \* sets of symbols that may have a series of the oldest day only
    MaxFaults     \* bound: failures, crashes and lags

Timeframes == {"1m", "1d"}
Symbols == Range(Index)
Series == Symbols \X Timeframes

Day(t) == (t + SlotsPerDay - 1) \div SlotsPerDay
Close(d) == d * SlotsPerDay
Minute(t) == t # Close(Day(t))

\* A first collection reaches back over more than a session.
ASSUME BarAssumption ==
    /\ Index \in Seq(Symbols) /\ Index # <<>>
    /\ SlotsPerDay \in Nat /\ SlotsPerDay > 1
    /\ FirstSlot \in Int /\ FirstSlot <= 0
    /\ LastSlot \in Nat \ {0} /\ ~Minute(LastSlot)
    /\ TradingDays \subseteq Int
    /\ Limits \in [Timeframes -> Nat \ {0}] /\ Limits["1m"] >= SlotsPerDay - 1
    /\ PageSize \in Nat \ {0} /\ MaxFaults \in Nat

VARIABLES
    now,
    written,     \* series -> stored bar -> is it final?
    applied,     \* the same, as queries see it: QuestDB applies writes later
    due,         \* the timer has fired and nothing has been started since
    pc,          \* "idle", "failed", "snapshot", "waiting", "page",
                 \* "write", "rank", "end"
    pending,     \* slots of the passes not yet made
    started,     \* when the present pass began
    latest,      \* series -> newest stored bar, at the start of the pass
    todo,        \* series the pass has still to collect
    got,         \* bars_by_ts
    closeFailed, \* close_failed
    days,        \* session_cache: the past days, or Unknown
    corporations, \* symbols with a snapshot of today
    ranking,     \* what the popularity ranking was computed from
    exit,        \* how the last run of today ended: "none", "ok", "failed"
    faults

database == <<written, applied>>
process == <<pc, pending, started, latest, todo, got, closeFailed, days>>
outputs == <<corporations, ranking>>
vars == <<now, database, due, process, outputs, exit, faults>>

None == FirstSlot - 1
Unknown == {FirstSlot - 1}
NoRanking == [lagging |-> TRUE, final |-> {}, upToDate |-> {}]

-----------------------------------------------------------------------------
(* The chart service and the database.                                     *)

\* What the service knows at slot n: the bar of the present minute, or day,
\* is served while it is still forming.
Served(timeframe, n) ==
    IF timeframe = "1m" THEN {t \in FirstSlot..n : Minute(t) /\ Day(t) \in TradingDays}
    ELSE {Close(d) : d \in {e \in TradingDays : FirstSlot <= Close(e) /\ Close(e) - SlotsPerDay < n}}

Final(timeframe, bar, n) == IF timeframe = "1m" THEN bar < n ELSE bar <= n

Bars(table, s) == DOMAIN table[s]

\* Faulty: symbols idle for longer than the window count as new.
RecentCheckpoint(table, s) ==
    LET recent == {b \in Bars(table, s) : b > now - Window}
    IN  IF recent # {} THEN Max(recent) ELSE None

\* latest_bar_timestamps: the recent bars first, all of them for a series that
\* has none there.
Checkpoint(table, s) ==
    LET recent == {b \in Bars(table, s) : b > now - Window}
    IN  IF recent # {} THEN Max(recent)
        ELSE IF Bars(table, s) # {} THEN Max(Bars(table, s)) ELSE None

\* The rows, and the table where it has others.
Over(rows, table) ==
    [b \in DOMAIN rows \cup DOMAIN table |-> IF b \in DOMAIN rows THEN rows[b] ELSE table[b]]

\* The rows of a write are upserted by their timestamp.
Upserted(rows) == [written EXCEPT ![Head(todo)] = Over(rows, @)]

Init ==
    /\ now = 1
    /\ \E old \in Old :
        LET oldest == Day(FirstSlot)
            table == [s \in Series |->
                [b \in {b \in Served(s[2], Close(oldest)) : s[1] \in old} |-> TRUE]]
        IN  written = table /\ applied = table
    /\ due = TRUE /\ pc = "idle"
    /\ pending = {} /\ started = None /\ latest = [s \in Series |-> None]
    /\ todo = <<>> /\ got = <<>> /\ closeFailed = FALSE /\ days = Unknown
    /\ corporations = {} /\ ranking = NoRanking
    /\ exit = "none"
    /\ faults = 0

Fault == faults < MaxFaults /\ faults' = faults + 1

\* QuestDB applies what was written.
Apply ==
    /\ applied # written
    /\ applied' = written
    /\ UNCHANGED <<now, written, due, process, outputs, exit, faults>>

\* A lag is a fault of the bounded kind: most writes are applied at once.
Write(table) ==
    /\ written' = table
    /\ \/ applied' = table /\ UNCHANGED faults
       \/ UNCHANGED applied /\ Fault

\* A night is long: no run is under way when a day begins.  The timer fires
\* before the session of every weekday, and late if it has to.
Tick ==
    LET night == ~Minute(now)
    IN
    /\ now < LastSlot /\ now' = now + 1
    /\ pc \in {"idle", "failed"} \cup (IF night THEN {} ELSE {"waiting", "page", "write"})
    /\ due' = (due \/ night)
    /\ corporations' = IF night THEN {} ELSE corporations
    /\ exit' = IF night THEN "none" ELSE exit
    /\ UNCHANGED <<database, process, ranking, faults>>

-----------------------------------------------------------------------------
(* A run.                                                                  *)

\* What a pass leaves behind in the process: nothing.
PassState ==
    /\ todo' = <<>> /\ got' = <<>> /\ started' = None
    /\ latest' = [s \in Series |-> None]

End(how) ==
    /\ pc' = IF how = "ok" THEN "idle" ELSE "failed"
    /\ exit' = how
    /\ pending' = {} /\ closeFailed' = FALSE /\ days' = Unknown
    /\ PassState

\* The passes after local: that of the present minute may be over.  One at
\* once when none is left.
Passes ==
    LET close == Close(Day(now))
    IN  {now..close, IF now = close THEN {now} ELSE (now + 1)..close}

\* run() up to its first pass: by the timer or as a restart after a failure.
\* RestartSec is a minute: the database has caught up by then.
Start ==
    /\ due \/ pc = "failed"
    /\ applied = written
    /\ pc \in {"idle", "failed"}
    /\ due' = FALSE
    /\ \/ /\ Day(now) \notin TradingDays
          /\ End("ok")
          /\ UNCHANGED faults
       \/ /\ Day(now) \in TradingDays
          /\ pc' = "snapshot" /\ pending' \in Passes
          /\ UNCHANGED <<started, latest, todo, got, closeFailed, days, exit, faults>>
       \/ /\ Day(now) \in TradingDays
          /\ Fault
          /\ End("failed")
    /\ UNCHANGED <<now, database, outputs>>

\* collect_corporations: whatever fails of it fails quietly.
Snapshot ==
    /\ pc = "snapshot"
    /\ \/ corporations' = Symbols /\ UNCHANGED faults
       \/ /\ Fault
          /\ \E some \in SUBSET Symbols : corporations' = corporations \cup some
    /\ pc' = "waiting"
    /\ UNCHANGED <<now, database, due, pending, started, latest, todo, got,
                   closeFailed, days, ranking, exit>>

\* The series of a pass in their order; daily bars only in the last pass.
Plan(daily) ==
    IF daily
    THEN [i \in 1..(2 * Len(Index)) |-> <<Index[(i + 1) \div 2], IF i % 2 = 1 THEN "1m" ELSE "1d">>]
    ELSE [i \in 1..Len(Index) |-> <<Index[i], "1m">>]

BeginPass ==
    /\ pc = "waiting" /\ now >= Min(pending)
    /\ started' = now
    /\ latest' = [s \in Series |-> Checkpoint(applied, s)]
    /\ todo' = Plan(pending = {Max(pending)})
    /\ pc' = "page" /\ got' = <<>>
    /\ UNCHANGED <<now, database, due, pending, closeFailed, days, outputs, exit, faults>>

\* The pass, done or failed, gives way to the next.
PassOver ==
    /\ pending' = pending \ {Min(pending)}
    /\ pc' = IF pending' = {} THEN "end" ELSE "waiting"
    /\ PassState

\* Faulty: a failure of any pass but the last counts.
FailsUnnoticed == closeFailed' = (closeFailed /\ Cardinality(pending) = 1)

Fails == closeFailed' = (Cardinality(pending) = 1)

PassFails ==
    /\ pc \in {"waiting", "page", "write"}
    /\ pc = "waiting" => now >= Min(pending)
    /\ Fault
    /\ Fails /\ PassOver
    /\ UNCHANGED <<now, database, due, days, outputs, exit>>

\* One answer of the chart service: the newest bars older than those before,
\* more if there are older ones.  A continuation that repeats is a PassFails.
Page ==
    LET s == Head(todo)
        before == IF got = <<>> THEN LastSlot + 1 ELSE Min(DOMAIN got)
        older == {b \in Served(s[2], now) : b < before}
        rows == {b \in older : Cardinality({c \in older : c > b}) < PageSize}
    IN
    /\ pc = "page"
    /\ got' = Over([b \in rows |-> Final(s[2], b, now)], got)
    /\ pc' = IF \/ rows = older
                \/ latest[s] = None /\ Cardinality(DOMAIN got') >= Limits[s[2]]
                \/ latest[s] # None /\ \E b \in rows : b <= latest[s]
             THEN "write" ELSE "page"
    /\ UNCHANGED <<now, database, due, pending, started, latest, todo,
                   closeFailed, days, outputs, exit, faults>>

\* Faulty: the newest stored bar is taken to be final.
RowsAfterLatest ==
    LET s == Head(todo)
    IN  {b \in DOMAIN got :
            IF latest[s] # None THEN b > latest[s]
            ELSE Cardinality({c \in DOMAIN got : c > b}) < Limits[s[2]]}

\* What of bars_by_ts is written: the newest stored bar again, and all after it.
Rows ==
    LET s == Head(todo)
    IN  {b \in DOMAIN got :
            IF latest[s] # None THEN b >= latest[s]
            ELSE Cardinality({c \in DOMAIN got : c > b}) < Limits[s[2]]}

\* Faulty: the rows are sent newest first.
SentNewestFirst(k) == {b \in Rows : b >= k}

\* What the sender had flushed when a write failed.
Sent(k) == {b \in Rows : b <= k}

WriteCandles ==
    /\ pc = "write"
    /\ Write(Upserted(Restrict(got, Rows)))
    /\ pc' = IF Len(todo) = 1 THEN "rank" ELSE "page"
    /\ todo' = Tail(todo) /\ got' = <<>>
    /\ UNCHANGED <<now, due, pending, started, latest, closeFailed, days, outputs, exit>>

WriteFails ==
    /\ pc = "write"
    /\ \E k \in Rows : written' = Upserted(Restrict(got, Sent(k))) /\ applied' = written'
    /\ Fault
    /\ Fails /\ PassOver
    /\ UNCHANGED <<now, due, days, outputs, exit>>

\* Faulty: the minute that is still forming is counted.
EndOfForming == Min({started, Close(Day(started)) - 1})

\* end: the last minute that was over when the pass began.
EndOfRanking == Min({started - 1, Close(Day(started)) - 1})

\* The newest days with bars before today, kept for the rest of the run.
PastDays ==
    IF days # Unknown THEN days
    ELSE LET known == {d \in {Day(b) : b \in UNION {Bars(applied, <<x, "1m">>) : x \in Symbols}} :
                            d < Day(started)}
         IN  {d \in known : Cardinality({e \in known : e > d}) < SessionDays}

\* The minutes a ranking adds up: the same stretch of today and of past days.
RankedMinutes ==
    LET opening == Close(Day(started) - 1) + 1
        from == Max({EndOfRanking - RankWindow, opening - 1})
    IN  {b \in FirstSlot..LastSlot : \E d \in PastDays \cup {Day(started)} :
            LET shift == (Day(started) - d) * SlotsPerDay
            IN  from < b + shift /\ b + shift <= EndOfRanking}

\* popular_codes and the replacement of the ranking; nothing is ranked before
\* the first minute is over or without a bar of today.
Rank ==
    LET opening == Close(Day(started) - 1) + 1
        Of(x) == applied[<<x, "1m">>]
        current == \E x \in Symbols : \E b \in opening..EndOfRanking : b \in DOMAIN Of(x)
    IN
    /\ pc = "rank"
    /\ IF EndOfRanking < opening THEN UNCHANGED <<days, ranking, faults>>
       ELSE \/ /\ days' = PastDays
               /\ ranking' = IF ~current THEN ranking ELSE
                    [lagging |-> applied # written,
                     final |-> UNION {{Of(x)[b] : b \in RankedMinutes \cap DOMAIN Of(x)} : x \in Symbols},
                     upToDate |-> {x \in Symbols : EndOfRanking \in DOMAIN Of(x)}]
               /\ UNCHANGED faults
            \/ /\ Fault
               /\ days' \in {days, PastDays}
               /\ UNCHANGED ranking
    /\ PassOver
    /\ UNCHANGED <<now, database, due, closeFailed, corporations, exit>>

EndRun ==
    /\ pc = "end"
    /\ End(IF closeFailed THEN "failed" ELSE "ok")
    /\ UNCHANGED <<now, database, due, outputs, faults>>

\* The process is killed, half a write perhaps sent.
Crash ==
    /\ pc \notin {"idle", "failed"}
    /\ Fault
    /\ \/ UNCHANGED database
       \/ /\ pc = "write"
          /\ \E k \in Rows : written' = Upserted(Restrict(got, Sent(k))) /\ applied' = written'
    /\ End("failed")
    /\ UNCHANGED <<now, due, outputs>>

Run ==
    \/ Start \/ Snapshot \/ BeginPass \/ Page \/ WriteCandles \/ Rank \/ EndRun

Next == Tick \/ Apply \/ Run \/ PassFails \/ WriteFails \/ Crash

Spec == Init /\ [][Next]_vars

FairSpec == Spec /\ WF_vars(Tick) /\ WF_vars(Apply) /\ WF_vars(Run)

-----------------------------------------------------------------------------
(* Properties.                                                             *)

TypeOK ==
    /\ now \in 1..LastSlot
    /\ \A table \in {written, applied} : \A s \in Series :
        table[s] \in [Bars(table, s) -> BOOLEAN] /\ Bars(table, s) \subseteq FirstSlot..LastSlot
    /\ due \in BOOLEAN
    /\ pc \in {"idle", "failed", "snapshot", "waiting", "page", "write", "rank", "end"}
    /\ pending \subseteq 1..LastSlot
    /\ started \in {None} \cup 1..LastSlot
    /\ latest \in [Series -> {None} \cup FirstSlot..LastSlot]
    /\ todo \in Seq(Series)
    /\ got \in [DOMAIN got -> BOOLEAN] /\ DOMAIN got \subseteq FirstSlot..LastSlot
    /\ closeFailed \in BOOLEAN
    /\ exit \in {"none", "ok", "failed"}
    /\ faults \in 0..MaxFaults

\* The bars of a series from its oldest stored one have no hole, and all of
\* them but the newest are final, whatever pass failed, was killed half way
\* through a write, or was skipped.
HistoryIsFinal ==
    /\ TypeOK
    /\ \A table \in {written, applied} : \A s \in Series : \A b \in Bars(table, s) :
        b < Max(Bars(table, s)) =>
            /\ table[s][b]
            /\ \A c \in Served(s[2], LastSlot) : b < c /\ c < Max(Bars(table, s)) => c \in Bars(table, s)

\* A run that ends well on a trading day has left the whole day behind it,
\* every minute and the daily bar in their final form, for every symbol.
CloseIsComplete ==
    exit = "ok" /\ Day(now) \in TradingDays =>
        \A s \in Series : \A b \in Served(s[2], LastSlot) :
            Day(b) = Day(now) => b \in Bars(written, s) /\ written[s][b]

\* A ranking adds up only final bars, and of every symbol the last minute
\* before its pass among them, unless the database lags behind.
RankedVolumesAreFinal ==
    ~ranking.lagging => ranking.final \subseteq {TRUE} /\ ranking.upToDate = Symbols

\* However many passes and runs fail, in the end the last day is there, every
\* bar final, and visible to queries.
CatchesUp ==
    <>[](\A s \in Series : \A b \in Served(s[2], LastSlot) :
            Day(b) = Day(LastSlot) => b \in Bars(applied, s) /\ applied[s][b])

=============================================================================
