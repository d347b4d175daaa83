\* Three runs, answers of up to two calls.
SPECIFICATION Spec
CONSTANTS
    c1 = c1
    c2 = c2
    Companies = {c1, c2}
    Required = {"technicals", "disclosures"}
    Slots = {1, 2}
    MaxTurns = 3
    MaxRuns = 3
SYMMETRY CompanySymmetry
INVARIANTS
    Continues
    ReadyIsTradable
    NothingStranded
PROPERTIES
    ResearchedFirst
CHECK_DEADLOCK FALSE
