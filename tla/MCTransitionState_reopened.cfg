\* Two calls for one appeal that overlap.
SPECIFICATION SteadySpec
CONSTANTS
    Appeals = {a1}
    LeadOf <- MCUnlinked
    Calls = {k1, k2}
    Kinds <- MCHearingKinds
    StartPath <- MCReady
    Triggers = {"lpa_questionnaire", "Complete", "Incomplete", "withdrawn"}
    Events = {"arranged"}
    Serialised = FALSE
    MaxRows = 8
    NoEntry = NoEntry
PROPERTIES
    FinalStays
