\* A lead and two children, one review at a time.
SPECIFICATION SteadyReviewSpec
CONSTANTS
    lead = lead
    child1 = child1
    child2 = child2
    Appeals <- MCGroup
    LeadOf <- MCLeadOf
    Calls = {k1}
    Kinds <- MCReviewKinds
    StartPath <- MCAtQuestionnaire
    Triggers = {"Complete"}
    Events = {}
    Serialised = TRUE
    MaxRows = 6
    NoEntry = NoEntry
    Outcomes = {"Incomplete", "Complete"}
SYMMETRY ChildSymmetry
CHECK_DEADLOCK FALSE
INVARIANTS
    ReviewTypeOK
    NoneLeftBehind
    GroupTogether
    OneStageOnly
PROPERTIES
    GroupLeavesComplete
