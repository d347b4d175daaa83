\* Two workers, a valid request and one that can never be served.
SPECIFICATION FairSpec
CONSTANTS
    w1 = w1
    w2 = w2
    m1 = m1
    m2 = m2
    None = None
    Workers = {w1, w2}
    Messages = {m1, m2}
    Valid = {m1}
INVARIANTS
    GoneMeansStored
    OneReportPerDelivery
PROPERTY
    ReportsArrive
