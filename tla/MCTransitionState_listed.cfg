\* A lead and a child, one call at a time for each of them.
SPECIFICATION SteadySpec
CONSTANTS
    Appeals = {a1, a2}
    LeadOf <- MCGrouped
    Calls = {k1, k2}
    Kinds <- MCHearingKinds
    StartPath <- MCStatements
    Triggers = {"Complete", "Incomplete", "withdrawn"}
    Events = {"arranged"}
    Serialised = TRUE
    MaxRows = 8
    NoEntry = NoEntry
SYMMETRY CallSymmetry
INVARIANTS
    ListedIsCurrent
