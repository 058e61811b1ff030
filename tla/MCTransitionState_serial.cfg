\* One call of transitionState at a time, which may stop at any step.
SPECIFICATION FairSpec
CONSTANTS
    Appeals = {a1}
    LeadOf <- MCUnlinked
    Calls = {k1}
    Kinds <- MCKinds
    StartPath <- MCImported
    Triggers <- Trigger
    Events <- MCEvents
    Serialised = TRUE
    MaxRows = 12
    NoEntry = NoEntry
INVARIANTS
    StatusRecordedOnce
    HistoryIsChartPath
    RollBackFindsRow
PROPERTIES
    FinalStays
    ImplementsCaseStatus
    CallEnds
