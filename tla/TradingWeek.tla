---------------------------- MODULE TradingWeek ----------------------------
(***************************************************************************)
(* When portfolio_rebalancer runs.  A timer starts it on the hour from the *)
(* opening to the closing of the exchange; a run that fails is started     *)
(* again, which may be in the next hour.  Each run counts the runs that    *)
(* are left of its week (holidays.hours_left): limits narrow as they get   *)
(* fewer, and the last one trades at market prices.  Hours are counted     *)
(* from the first hour of a Monday, in Korea.                              *)
(***************************************************************************)
EXTENDS Integers, FiniteSets, FiniteSetsExt

CONSTANTS
    KrxHolidays,     \* days; day 0 is a Monday
    CoveredThrough,  \* the last day the table of holidays is good for
    FirstRun,        \* hour of MARKET_OPEN
    LastRun,         \* hour of MARKET_CLOSE
    Burst,           \* starts systemd allows within an hour
    LastDay          \* bound: days

\* The exchange opens after midnight and closes on the same day; any days may be
\* holidays.
ASSUME WeekAssumption ==
    /\ FirstRun \in 1..23 /\ LastRun \in FirstRun..23
    /\ CoveredThrough \in Int /\ LastDay \in Int

VARIABLES
    now,      \* hours passed
    due,      \* the timer has gone off
    state,    \* "idle", "running", "failed" until it is started again, and "late"
              \* or "overdue" if these two have lasted into another hour
    runsLeft, \* of the run: runs_left
    weekRuns, \* and week_runs
    starts,   \* since the timer went off
    placed,   \* runs_left of the last orders of this week, 0 if there are none
    smooth    \* nothing has failed since the timer went off (history)

weekVars == <<now, due, state, runsLeft, weekRuns, starts, placed, smooth>>

Day(t) == t \div 24
Hour(t) == t % 24
Monday(day) == day - (day % 7)

IsTradingDay(day) == day % 7 < 5 /\ day \notin KrxHolidays

InSession(t) == IsTradingDay(Day(t)) /\ Hour(t) \in FirstRun..LastRun

TradingDays(day) == {d \in Monday(day)..(Monday(day) + 4) : IsTradingDay(d)}

RunsPerDay == LastRun - FirstRun + 1

\* Faulty: the run that is counting is not one of those left.
HoursLeftAfter(t) ==
    LET days == TradingDays(Day(t)) IN
    RunsPerDay * Cardinality({d \in days : d > Day(t)})
        + (IF Day(t) \in days THEN LastRun - Min({Max({Hour(t), FirstRun}), LastRun}) ELSE 0)

\* Faulty: every weekday counts.
HoursLeftOfWeekdays(t) ==
    RunsPerDay * Cardinality((Day(t) + 1)..(Monday(Day(t)) + 4))
        + LastRun + 1 - Min({Max({Hour(t), FirstRun}), LastRun + 1})

HoursLeft(t) ==
    LET days == TradingDays(Day(t)) IN
    RunsPerDay * Cardinality({d \in days : d > Day(t)})
        + (IF Day(t) \in days THEN LastRun + 1 - Min({Max({Hour(t), FirstRun}), LastRun + 1}) ELSE 0)

RunsOfWeek(t) == RunsPerDay * Cardinality(TradingDays(Day(t)))

-----------------------------------------------------------------------------
WeekInit ==
    /\ now = 0 /\ due = FALSE /\ state = "idle"
    /\ runsLeft = 0 /\ weekRuns = 0 /\ starts = 0
    /\ placed = 0 /\ smooth = TRUE

\* OnCalendar=Mon..Fri 09..15
TimerHour(t) == Day(t) % 7 < 5 /\ Hour(t) \in FirstRun..LastRun

\* The next hour.  The timer does not interrupt a run, nor one to be started
\* again; a run takes at most fifty minutes, and five pass before another.
NextHour ==
    /\ ~due /\ Day(now + 1) <= LastDay
    /\ state \in {"idle", "running", "failed"}
    /\ now' = now + 1
    /\ IF TimerHour(now') /\ state = "idle"
       THEN due' = TRUE /\ smooth' = TRUE
       ELSE UNCHANGED due /\ smooth' = (smooth /\ state = "idle")
    /\ placed' = IF Monday(Day(now')) # Monday(Day(now)) THEN 0 ELSE placed
    /\ state' = CASE state = "running" -> "late" [] state = "failed" -> "overdue" [] OTHER -> "idle"
    /\ UNCHANGED <<runsLeft, weekRuns, starts>>

\* The host is down; Persistent=false.
Missed ==
    /\ due
    /\ due' = FALSE /\ smooth' = FALSE
    /\ UNCHANGED <<now, state, runsLeft, weekRuns, starts, placed>>

\* A run is over.
Over(next) ==
    /\ state' = next
    /\ runsLeft' = 0 /\ weekRuns' = 0
    /\ starts' = IF next = "failed" THEN starts + 1 ELSE 0

\* Restart=on-failure, until the start limit is hit.
Fails == Over(IF starts + 1 < Burst THEN "failed" ELSE "idle") /\ smooth' = FALSE

\* A table of holidays that has run out ends the run, a closed market too.
StartRun ==
    /\ due \/ state \in {"failed", "overdue"}
    /\ due' = FALSE
    /\ CASE Day(now) > CoveredThrough -> Fails
         [] Day(now) <= CoveredThrough /\ InSession(now) ->
                /\ runsLeft' = HoursLeft(now) /\ weekRuns' = RunsOfWeek(now)
                /\ state' = "running"
                /\ UNCHANGED <<starts, smooth>>
         [] OTHER -> Over("idle") /\ UNCHANGED smooth
    /\ UNCHANGED <<now, placed>>

\* The orders are sent.
Finish ==
    /\ state \in {"running", "late"}
    /\ Over("idle") /\ placed' = runsLeft
    /\ UNCHANGED <<now, due, smooth>>

\* Any failure of a run, or its end after fifty minutes.
Fail ==
    /\ state \in {"running", "late"}
    /\ Fails
    /\ UNCHANGED <<now, due, placed>>

WeekNext == NextHour \/ Missed \/ StartRun \/ Finish \/ Fail

WeekSpec == WeekInit /\ [][WeekNext]_weekVars

-----------------------------------------------------------------------------
(* Properties.                                                             *)

\* The hours of this week at which the timer starts a run that finds the market open.
Sessions(t) == {h \in (24 * Monday(Day(t)))..(24 * Monday(Day(t)) + 167) : TimerHour(h) /\ InSession(h)}

\* A run in session counts itself and the runs that follow in its week, so that
\* its share of the week is above zero and at most one; the runs of a week
\* never count up; the orders of a week that went smoothly at its end were
\* those of the last run; and nothing trades where the holidays are not known.
RunsCountDown ==
    [][ /\ state # "running" /\ state' = "running" =>
            /\ runsLeft' = Cardinality({h \in Sessions(now) : h >= now})
            /\ weekRuns' = Cardinality(Sessions(now))
            /\ runsLeft' \in 1..weekRuns'
            /\ placed # 0 => runsLeft' <= placed
            /\ Day(now) <= CoveredThrough
        /\ now' > now /\ smooth /\ now \in Sessions(now) /\ Day(now) <= CoveredThrough
           /\ (\A h \in Sessions(now) : h <= now)
           /\ state = "idle"
           => placed = 1
      ]_weekVars

=============================================================================
