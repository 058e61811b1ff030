--------------------------- MODULE MCLinkedReview ---------------------------
(* Instances of LinkedReview for TLC.                                      *)
EXTENDS LinkedReview, TLC

CONSTANTS lead, child1, child2      \* the appeals of a group

MCGroup == {lead, child1, child2}
MCPair == {lead, child1}
MCLeadOf == [a \in Appeals |-> lead]

\* A group of planning appeals, of householder appeals, of enforcement appeals.
MCReviewKinds == [type : {"D", "W", "C"}, procedure : {"written"}]
MCPlanning == {[type |-> "W", procedure |-> "written"]}

MCAtQuestionnaire == <<"ready_to_start", "lpa_questionnaire">>

ChildSymmetry == Permutations({child1, child2})
CallSymmetry == Permutations(Calls)
=============================================================================
