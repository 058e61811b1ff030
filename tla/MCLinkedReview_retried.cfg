\* A lead and a child, one request at a time, which may fail and be made again.
SPECIFICATION ReviewSpec
CONSTANTS
    lead = lead
    child1 = child1
    child2 = child2
    Appeals <- MCPair
    LeadOf <- MCLeadOf
    Calls = {k1}
    Kinds <- MCPlanning
    StartPath <- MCAtQuestionnaire
    Triggers = {"Complete"}
    Events = {}
    Serialised = TRUE
    MaxRows = 6
    NoEntry = NoEntry
    Outcomes = {"Complete"}
CHECK_DEADLOCK FALSE
INVARIANTS
    OneStageOnly
