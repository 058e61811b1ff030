----------------------------- MODULE MCSiteVisits -----------------------------
(* Instances of SiteVisits for TLC.                                        *)
EXTENDS SiteVisits, TLC

CONSTANTS lead, child       \* the appeals of a group

MCLeadOf == [a \in Appeals |-> lead]
MCCalls == Requests \X Appeals
MCKinds == {[type |-> "W", procedure |-> "written"]}
MCAtStatements == <<"lpa_questionnaire", "statements">>
=============================================================================
