------------------------ MODULE StatusHistory_proofs ------------------------
(***************************************************************************)
(* Facts about the state chart and about the rows of an appeal that hold   *)
(* of every type, procedure, status and history: what the proofs about     *)
(* transitionState rest on.                                                *)
(***************************************************************************)
EXTENDS StatusHistory, TLAPS

\* The chart leads from a status to a status (createStateMachine).
LEMMA NextStatusType ==
    ASSUME NEW type, NEW procedure, NEW elapsed \in BOOLEAN,
           NEW status \in Status, NEW trigger \in Trigger
    PROVE  NextStatus(type, procedure, elapsed, status, trigger) \in Status
<1>1. CASE status \in FinalStatus
  BY <1>1 DEF NextStatus, FinalStatus, WorkingStatus, Status
<1>2. CASE status = "awaiting_transfer"
  BY <1>2 DEF NextStatus, FinalStatus, WorkingStatus, Status
<1>3. CASE status \in WorkingStatus
  BY <1>3 DEF NextStatus, FinalStatus, WorkingStatus, Status, Trigger, OutcomeTrigger,
     StatusTrigger, targetStateOnLpaqComplete, targetStateOnStatementsComplete,
     targetStateOnEventCancelled
<1> QED BY <1>1, <1>2, <1>3 DEF Status

\* The chart does not lead a case to a representation stage that its type and
\* procedure do not have (isAppealTypeAndProcedureTypeValid), provided that Cancel
\* is sent for hearings and inquiries only: a cancelled site visit of a written
\* householder case would lead to final_comments, which such a case has not.
LEMMA NextStatusKeepsStage ==
    ASSUME NEW type \in AppealType, NEW procedure \in ProcedureType, NEW elapsed \in BOOLEAN,
           NEW status \in Status, NEW trigger \in Trigger,
           isAppealTypeAndProcedureTypeValid(type, procedure, status),
           trigger = "Cancel" => procedure \in {"hearing", "inquiry"}
    PROVE  isAppealTypeAndProcedureTypeValid(type, procedure,
               NextStatus(type, procedure, elapsed, status, trigger))
<1>1. CASE status \in FinalStatus
  BY <1>1, NextStatusType DEF NextStatus, FinalStatus, WorkingStatus, Status
<1>2. CASE status = "awaiting_transfer"
  BY <1>2 DEF NextStatus, FinalStatus, WorkingStatus, Status, isAppealTypeAndProcedureTypeValid
<1>3. CASE status \in WorkingStatus
  <2>1. CASE status = "lpa_questionnaire" /\ trigger = "Complete"
    BY <2>1 DEF NextStatus, FinalStatus, WorkingStatus, targetStateOnLpaqComplete,
       isAppealTypeAndProcedureTypeValid, normaliseProcedureType
  <2>2. CASE status = "statements" /\ trigger = "Complete"
    BY <2>2 DEF NextStatus, FinalStatus, WorkingStatus, targetStateOnStatementsComplete,
       isAppealTypeAndProcedureTypeValid, normaliseProcedureType, finalCommentsValidProcedures,
       ProcedureType
  <2>3. CASE status = "awaiting_event" /\ trigger = "Cancel"
    BY <2>3 DEF NextStatus, FinalStatus, WorkingStatus, targetStateOnEventCancelled,
       isAppealTypeAndProcedureTypeValid, normaliseProcedureType, finalCommentsValidProcedures
  <2> QED
    BY <1>3, <2>1, <2>2, <2>3 DEF NextStatus, FinalStatus, WorkingStatus,
       isAppealTypeAndProcedureTypeValid, Trigger, OutcomeTrigger, StatusTrigger
<1> QED BY <1>1, <1>2, <1>3 DEF Status

\* An arc of the chart is what a trigger that changes the status takes.
LEMMA NextStatusIsArc ==
    ASSUME NEW type, NEW procedure, NEW elapsed \in BOOLEAN,
           NEW status \in Status, NEW trigger \in Trigger,
           NextStatus(type, procedure, elapsed, status, trigger) # status
    PROVE  IsArc(type, procedure, status, NextStatus(type, procedure, elapsed, status, trigger))
BY DEF IsArc

\* No trigger leads out of a final status (type: STATE_TYPE_FINAL).
LEMMA FinalStatusIsLast ==
    ASSUME NEW type, NEW procedure, NEW elapsed, NEW status \in FinalStatus, NEW trigger
    PROVE  NextStatus(type, procedure, elapsed, status, trigger) = status
BY DEF NextStatus, FinalStatus, WorkingStatus

-----------------------------------------------------------------------------
\* updateAppealStatusByAppealId leaves one valid row, the last, with the new status.
LEMMA SetStatusFacts ==
    ASSUME NEW history \in Seq(StatusRow), NEW status \in Status
    PROVE  /\ SetStatus(history, status) \in Seq(StatusRow)
           /\ Len(SetStatus(history, status)) = Len(history) + 1
           /\ OnlyLastRowValid(SetStatus(history, status))
           /\ SetStatus(history, status)[Len(history) + 1].status = status
           /\ \A i \in DOMAIN history : SetStatus(history, status)[i].status = history[i].status
<1> DEFINE older == [i \in DOMAIN history |-> [history[i] EXCEPT !.valid = FALSE]]
<1>1. /\ older \in Seq(StatusRow) /\ Len(older) = Len(history)
      /\ \A i \in DOMAIN history : older[i].status = history[i].status /\ ~older[i].valid
  <2>1. \A i \in DOMAIN history : history[i] \in StatusRow
    OBVIOUS
  <2>2. \A i \in DOMAIN history : /\ older[i] \in StatusRow
                                  /\ older[i].status = history[i].status
                                  /\ older[i].valid = FALSE
    BY <2>1 DEF StatusRow
  <2>3. /\ older \in [1..Len(history) -> StatusRow] /\ Len(history) \in Nat
    BY <2>2
  <2> QED BY <2>2, <2>3
<1>2. [status |-> status, valid |-> TRUE] \in StatusRow
  BY DEF StatusRow
<1> HIDE DEF older
<1>3. SetStatus(history, status) = Append(older, [status |-> status, valid |-> TRUE])
  BY DEF SetStatus, older
<1> QED BY <1>1, <1>2, <1>3 DEF OnlyLastRowValid

\* rollBackAppealStatusTo leaves the rows up to the one it found, which becomes
\* the only valid one.
LEMMA RollBackToRowFacts ==
    ASSUME NEW history \in Seq(StatusRow), OnlyLastRowValid(history), NEW i \in DOMAIN history
    PROVE  /\ RollBackToRow(history, i) \in Seq(StatusRow)
           /\ Len(RollBackToRow(history, i)) = i
           /\ OnlyLastRowValid(RollBackToRow(history, i))
           /\ \A j \in 1..i : RollBackToRow(history, i)[j].status = history[j].status
<1> DEFINE rolled == RollBackToRow(history, i)
<1>1. i \in 1..Len(history) /\ i \in 1..i /\ \A j \in 1..Len(history) : history[j] \in StatusRow
  OBVIOUS
<1>2. \A j \in 1..i : rolled[j] = IF j = i THEN [history[i] EXCEPT !.valid = TRUE] ELSE history[j]
  BY DEF RollBackToRow
<1>3. /\ rolled[i] \in StatusRow
      /\ rolled[i].status = history[i].status
      /\ rolled[i].valid
  <2>1. rolled[i] = [history[i] EXCEPT !.valid = TRUE]
    <3> HIDE DEF rolled
    <3> QED BY <1>1, <1>2
  <2>2. /\ [history[i] EXCEPT !.valid = TRUE] \in StatusRow
        /\ [history[i] EXCEPT !.valid = TRUE].status = history[i].status
        /\ [history[i] EXCEPT !.valid = TRUE].valid = TRUE
    BY <1>1 DEF StatusRow
  <2> QED BY <2>1, <2>2
<1>4. ASSUME NEW j \in 1..i, j # i
      PROVE  /\ rolled[j] = history[j]
             /\ rolled[j] \in StatusRow
             /\ ~rolled[j].valid
  BY <1>1, <1>2, <1>4 DEF OnlyLastRowValid
<1>5. rolled \in [1..i -> StatusRow]
  BY <1>1, <1>3, <1>4 DEF RollBackToRow
<1>6. rolled \in Seq(StatusRow) /\ Len(rolled) = i
  BY <1>1, <1>5
<1> HIDE DEF rolled
<1>7. OnlyLastRowValid(rolled)
  BY <1>1, <1>3, <1>4, <1>6 DEF OnlyLastRowValid
<1>8. rolled = RollBackToRow(history, i)
  BY DEF rolled
<1> QED BY <1>3, <1>4, <1>6, <1>7, <1>8

\* Of a well-formed history, the passed states are the statuses of the rows other
\* than the current one: isStatePassed says whether there is a row to roll back to.
LEMMA PassedIsRecorded ==
    ASSUME NEW history \in Seq(StatusRow), OnlyLastRowValid(history), NEW status,
           status # history[Len(history)].status
    PROVE  isStatePassed(history, status) <=> RowsWith(history, status) # {}
BY DEF isStatePassed, CompletedStates, RowsWith, OnlyLastRowValid
=============================================================================
