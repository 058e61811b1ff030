\* One request at a time, the job's among them, and nothing fails.
SPECIFICATION FairArrangementSpec
CONSTANTS
    Appeals = {a1}
    LeadOf <- MCUnlinked
    Calls = {k1}
    Kinds <- MCArrangementKinds
    StartPath <- MCAtStatements
    Triggers = {"Complete", "Incomplete", "Cancel"}
    Events = {"unplaced", "arranged"}
    Serialised = TRUE
    MaxRows = 7
    NoEntry = NoEntry
    MaxHearings = 3
CHECK_DEADLOCK FALSE
INVARIANTS
    ArrangementTypeOK
    SetUpMovesOn
    AwaitedIsSetUp
PROPERTIES
    HearingConcluded
