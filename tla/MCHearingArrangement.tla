------------------------ MODULE MCHearingArrangement ------------------------
(* Instances of HearingArrangement for TLC.                                *)
EXTENDS HearingArrangement, TLC

MCUnlinked == [a \in Appeals |-> a]
MCHearingKinds == {[type |-> "W", procedure |-> "hearing"]}
MCArrangementKinds == [type : {"W"}, procedure : {"hearing", "inquiry"}]
MCAtStatements == <<"lpa_questionnaire", "statements">>
CallSymmetry == Permutations(Calls)
=============================================================================
