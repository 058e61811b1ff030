\* A lead and two children, two reviewers at work, whose requests overlap, stop and fail.
SPECIFICATION ReviewSpec
CONSTANTS
    lead = lead
    child1 = child1
    child2 = child2
    Appeals <- MCGroup
    LeadOf <- MCLeadOf
    Calls = {k1, k2}
    Kinds <- MCPlanning
    StartPath <- MCAtQuestionnaire
    Triggers = {"Complete"}
    Events = {}
    Serialised = FALSE
    MaxRows = 6
    NoEntry = NoEntry
    Outcomes = {"Complete"}
SYMMETRY ChildSymmetry
CHECK_DEADLOCK FALSE
PROPERTIES
    GroupLeavesComplete
    ImplementsTransitionState
