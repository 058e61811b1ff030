\* A lead and a child, two reviewers at work, whose requests overlap.
SPECIFICATION SteadyReviewSpec
CONSTANTS
    lead = lead
    child1 = child1
    child2 = child2
    Appeals <- MCPair
    LeadOf <- MCLeadOf
    Calls = {k1, k2}
    Kinds <- MCPlanning
    StartPath <- MCAtQuestionnaire
    Triggers = {"Complete"}
    Events = {}
    Serialised = FALSE
    MaxRows = 6
    NoEntry = NoEntry
    Outcomes = {"Complete"}
CHECK_DEADLOCK FALSE
INVARIANTS
    NoneLeftBehind
