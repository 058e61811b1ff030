\* Two requests that overlap, for a lead whose child is decided with it; one mishap.
SPECIFICATION EndingSpec
CONSTANTS
    lead = lead
    child = child
    Appeals = {lead, child}
    LeadOf <- MCLeadOf
    Requests = {r1, r2}
    Calls <- MCCalls
    MaxMishaps = 1
    Asked = {lead}
    ChildOutcomes = {"invalid"}
    AfterTheEnd = FALSE
    Kinds <- MCKinds
    StartPath <- MCToBeDecided
    Triggers <- MCTriggers
    Events = {}
    Serialised = FALSE
    MaxRows = 6
    NoEntry = NoEntry
SYMMETRY RequestSymmetry
CHECK_DEADLOCK FALSE
INVARIANTS
    EndingTypeOK
    EndHasGround
    EndsAsDecided
    DecidedHasEnded
