\* Two requests that overlap and whose e-mails fail.
SPECIFICATION ArrangementSpec
CONSTANTS
    Appeals = {a1}
    LeadOf <- MCUnlinked
    Calls = {k1, k2}
    Kinds <- MCHearingKinds
    StartPath <- MCAtStatements
    Triggers = {"Complete", "Incomplete", "Cancel"}
    Events = {"unplaced", "arranged"}
    Serialised = FALSE
    MaxRows = 7
    NoEntry = NoEntry
    MaxHearings = 2
SYMMETRY CallSymmetry
CHECK_DEADLOCK FALSE
PROPERTIES
    StatementsLeftByPublication
    ImplementsTransitionState
