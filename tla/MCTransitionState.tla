------------------------- MODULE MCTransitionState --------------------------
(* Instances of TransitionState for TLC.                                   *)
EXTENDS TransitionState, TLC

\* The kinds whose paths through the chart differ: householder appeals, planning
\* appeals by each procedure and an enforcement appeal.
MCKinds ==
    {[type |-> "D", procedure |-> "written"]}
        \union [type : {"W"}, procedure : {"written", "writtenPart1", "hearing", "inquiry"}]
        \union {[type |-> "C", procedure |-> "written"]}

\* The kind whose representation stage leads straight to the event.
MCHearingKinds == {[type |-> "W", procedure |-> "hearing"]}

MCUnlinked == [a \in Appeals |-> a]

\* One group: an appeal leads the others.
MCGrouped == [a \in Appeals |-> CHOOSE b \in Appeals : TRUE]

MCImported == <<"assign_case_officer">>

MCReady == <<"assign_case_officer", "validation", "ready_to_start">>

MCStatements == MCReady \o <<"lpa_questionnaire", "statements">>

MCEvents == {"unplaced", "arranged"}

CallSymmetry == Permutations(Calls)
=============================================================================
