--------------------------- MODULE CaseStateChart ---------------------------
(***************************************************************************)
(* The state chart of an appeal: which status a trigger leads to, given    *)
(* the appeal's type, its procedure and whether its event has elapsed.     *)
(*                                                                         *)
(* Pure operators, translated from createStateMachine and the business     *)
(* rules it calls.  An event the current state does not handle, a guard    *)
(* that fails and a target that is undefined all leave the machine where   *)
(* it is, so NextStatus is total and "no transition" is the same status.   *)
(***************************************************************************)

FinalStatus == {"invalid", "transferred", "closed", "withdrawn", "complete"}

\* Statuses the case is worked in: every one of them has arcs out.
WorkingStatus ==
    {"assign_case_officer", "validation", "ready_to_start",
     "lpa_questionnaire", "statements", "evidence", "final_comments",
     "event", "awaiting_event", "issue_determination"}

Status == WorkingStatus \union {"awaiting_transfer"} \union FinalStatus

\* Triggers named after review outcomes are capitalised in the code, those
\* named after a status are not: "Complete" and "complete" are different.
OutcomeTrigger == {"Valid", "Invalid", "Incomplete", "Complete", "Cancel"}
StatusTrigger ==
    {"validation", "lpa_questionnaire", "closed", "awaiting_transfer",
     "withdrawn", "transferred", "invalid", "complete"}
Trigger == OutcomeTrigger \union StatusTrigger

-----------------------------------------------------------------------------
(* Appeal types and procedures.                                            *)

\* The keys of baseCaseType; any other type makes isExpeditedAppealType throw.
AppealType == {"D", "ZP", "ZA", "H", "W", "Y", "C", "X", "F"}
ProcedureType == {"written", "writtenPart1", "writtenPart2", "hearing", "inquiry"}

isExpeditedAppealType(type) == type \in {"D", "ZP", "ZA"}

isLdcOrDiscontinuanceOrEnforcementCaseType(type) == type \in {"X", "G", "C", "F"}

normaliseProcedureType(procedure) ==
    IF procedure \in {"writtenPart1", "writtenPart2"} THEN "written" ELSE procedure

-----------------------------------------------------------------------------
(* Guards and computed targets.                                            *)

finalCommentsValidProcedures(type) ==
    IF isLdcOrDiscontinuanceOrEnforcementCaseType(type)
      THEN {"written", "hearing", "inquiry"}
      ELSE {"written"}

\* The guard compares the type and procedure with the state's meta data: the
\* representation stages exist for the non-expedited types only, and for the
\* procedures listed.
isAppealTypeAndProcedureTypeValid(type, procedure, status) ==
    LET normalised == normaliseProcedureType(procedure)
    IN  status \in {"statements", "final_comments", "evidence"} =>
           /\ ~isExpeditedAppealType(type)
           /\ status = "final_comments" => normalised \in finalCommentsValidProcedures(type)
           /\ status = "evidence" => normalised = "inquiry"

targetStateOnLpaqComplete(type, procedure, elapsed) ==
    CASE ~isExpeditedAppealType(type) /\ procedure # "writtenPart1" -> "statements"
      [] OTHER -> IF elapsed THEN "issue_determination" ELSE "event"

\* Mutant: a hearing's case has an evidence stage too.
EvidenceForHearings(type, procedure) ==
    IF isLdcOrDiscontinuanceOrEnforcementCaseType(type)
       \/ normaliseProcedureType(procedure) = "written" THEN "final_comments" ELSE "evidence"

targetStateOnStatementsComplete(type, procedure) ==
    IF isLdcOrDiscontinuanceOrEnforcementCaseType(type) THEN "final_comments"
    ELSE CASE normaliseProcedureType(procedure) = "hearing" -> "event"
           [] normaliseProcedureType(procedure) = "inquiry" -> "evidence"
           [] OTHER                                         -> "final_comments"

targetStateOnEventCancelled(procedure) ==
    IF procedure = "written" THEN "final_comments" ELSE "event"

-----------------------------------------------------------------------------
(* The chart.  The first arms are the arcs shared by many states.          *)

NextStatus(type, procedure, elapsed, status, trigger) ==
    LET valid == isAppealTypeAndProcedureTypeValid(type, procedure, status)
    IN
    CASE status \in FinalStatus -> status
      [] status = "awaiting_transfer" ->
            IF trigger = "transferred" THEN "transferred" ELSE status
      [] status \in WorkingStatus /\ trigger = "Invalid" -> "invalid"
      [] status \in WorkingStatus /\ trigger \in {"closed", "awaiting_transfer", "withdrawn"} ->
            IF valid THEN trigger ELSE status
      [] status = "assign_case_officer" /\ trigger = "validation" -> "validation"
      [] status = "validation" /\ trigger = "Valid" -> "ready_to_start"
      [] status = "ready_to_start" /\ trigger = "lpa_questionnaire" -> "lpa_questionnaire"
      [] status = "lpa_questionnaire" /\ trigger = "Complete" ->
            targetStateOnLpaqComplete(type, procedure, elapsed)
      [] status = "statements" /\ trigger = "Complete" ->
            IF valid THEN targetStateOnStatementsComplete(type, procedure) ELSE status
      [] status = "final_comments" /\ trigger = "Complete" ->
            IF ~valid THEN status ELSE IF elapsed THEN "issue_determination" ELSE "event"
      [] status = "evidence" /\ trigger = "Complete" -> IF valid THEN "event" ELSE status
      [] status = "event" /\ trigger = "Complete" -> "awaiting_event"
      [] status = "awaiting_event" /\ trigger = "Complete" ->
            IF elapsed THEN "issue_determination" ELSE status
      [] status = "awaiting_event" /\ trigger = "Incomplete" -> "event"
      [] status = "awaiting_event" /\ trigger = "Cancel" -> targetStateOnEventCancelled(procedure)
      [] status = "issue_determination" /\ trigger = "Incomplete" -> "event"
      [] status = "issue_determination" /\ trigger \in {"invalid", "complete"} -> trigger
      [] OTHER -> status

\* Can some trigger take a case of this type and procedure from one status
\* to the other, its event elapsed or not?
IsArc(type, procedure, from, to) ==
    /\ from # to
    /\ \E elapsed \in BOOLEAN, trigger \in Trigger :
          NextStatus(type, procedure, elapsed, from, trigger) = to
=============================================================================
