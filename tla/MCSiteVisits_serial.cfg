\* One request at a time, or one run of the job, for a lead and its child; two
\* mishaps.
SPECIFICATION FairVisitSpec
CONSTANTS
    lead = lead
    child = child
    Appeals = {lead, child}
    LeadOf <- MCLeadOf
    Requests = {r1, r2}
    Calls <- MCCalls
    MaxMishaps = 2
    Kinds <- MCKinds
    StartPath <- MCAtStatements
    Triggers = {"Complete", "Incomplete"}
    Events = {}
    Serialised = TRUE
    MaxRows = 8
    NoEntry = NoEntry
INVARIANTS
    VisitTypeOK
    GroupTogether
    AwaitedHasVisit
    MissedReopens
    ChildrenFirst
PROPERTIES
    VisitConcluded
