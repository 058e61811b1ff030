----------------------------- MODULE MCCaseEnding -----------------------------
(* Instances of CaseEnding for TLC.                                        *)
EXTENDS CaseEnding, TLC

CONSTANTS lead, child       \* the appeals of a group

MCLeadOf == [a \in Appeals |-> lead]
MCCalls == Requests \X Appeals
MCKinds == {[type |-> "W", procedure |-> "written"]}
MCToBeDecided == <<"event", "awaiting_event", "issue_determination">>
MCTriggers ==
    {"Incomplete", "Invalid", "complete", "invalid", "withdrawn", "closed",
     "awaiting_transfer", "transferred"}
RequestSymmetry == Permutations(Requests)
=============================================================================
