\* The last two runs of a week.
SPECIFICATION RebalanceSpec
CONSTANTS
    a = a
    b = b
    c = c
    NoQuote = NoQuote
    Codes = {a, b, c}
    Portfolios <- MCPortfolios
    Quotes <- MCQuotes
    Snapshots <- MCSnapshots
    Band = 5
    Buffer = 10
    WeekRuns = 3
    FirstLeft = 2
INVARIANTS
    OrdersAreSound
    SharesUseBudgets
PROPERTIES
    RunsEnd
CHECK_DEADLOCK FALSE
