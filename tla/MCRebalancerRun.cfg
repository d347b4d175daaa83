\* Two runs over two active accounts; 53 weeks of runs.
SPECIFICATION RunSpec
CONSTANTS
    Accounts = {1, 2, 3}
    Active = {1, 2}
    Orders = {1, 2, 3, 4, 5}
    Books <- MCBooks
    MaxRuns = 2
    MaxPlan = 1
    KrxHolidays <- MCHolidays
    CoveredThrough = 368
    FirstRun = 9
    LastRun = 15
    Burst = 3
    LastDay = 371
INVARIANTS
    OneGeneration
    HonestExit
PROPERTIES
    RunsCountDown
CHECK_DEADLOCK FALSE
