----------------------- MODULE TransitionState_proofs -----------------------
(***************************************************************************)
(* Proofs about transitionState, for any appeals, links, kinds, triggers,  *)
(* events and number of calls in progress.                                 *)
(***************************************************************************)
EXTENDS TransitionState, StatusHistory_proofs

-----------------------------------------------------------------------------
(* The records of calls.                                                   *)

\* A free slot is a record of a call that is idle and nested in no other.
LEMMA IdleFacts == Idle \in CallRecord /\ Idle.step = "idle" /\ Idle.outer = 0
  /\ Idle.trigger = "Valid"
<1>1. (CHOOSE a \in Appeals : TRUE) \in Appeals
  BY AppealsAssumption
<1> QED
  BY <1>1 DEF Idle, CallRecord, CallStep, Trigger, OutcomeTrigger, Status, WorkingStatus

\* A call that goes on to update the personal list keeps its appeal and is neither
\* about to read nor about to write a status (the return of transitionState).
LEMMA UpdatingListFacts ==
    ASSUME NEW c \in CallRecord
    PROVE  /\ UpdatingList(c) \in CallRecord
           /\ UpdatingList(c).step = "readList"
           /\ UpdatingList(c).appeal = c.appeal
           /\ UpdatingList(c).outer = c.outer
           /\ UpdatingList(c).trigger = "Valid"
BY IdleFacts DEF UpdatingList, CallRecord, CallStep

\* The nested call of transitionState is for the same appeal and reads it first.
LEMMA CallingCompleteFacts ==
    ASSUME NEW c \in CallRecord
    PROVE  /\ CallingComplete(c) \in CallRecord
           /\ CallingComplete(c).step = "read"
           /\ CallingComplete(c).appeal = c.appeal
           /\ CallingComplete(c).trigger = "Complete"
<1>1. "read" \in CallStep /\ "Complete" \in Trigger
  BY DEF CallStep, Trigger, OutcomeTrigger
<1>2. c.appeal \in Appeals /\ c.outer + 1 \in Nat
  BY DEF CallRecord
<1> QED BY <1>1, <1>2, IdleFacts DEF CallingComplete, CallRecord

\* A call that returns frees its slot or resumes the call around it, which has its
\* status written already.
LEMMA ReturnFacts ==
    ASSUME NEW c \in CallRecord
    PROVE  /\ Return(c) \in CallRecord
           /\ Return(c).step \in {"idle", "readList"}
           /\ Return(c).step # "idle" => Return(c).appeal = c.appeal
           /\ Return(c).trigger = "Valid"
<1>1. CASE c.outer = 0
  BY <1>1, IdleFacts DEF Return
<1>2. CASE c.outer # 0
  <2>1. [c EXCEPT !.outer = @ - 1] \in CallRecord /\ [c EXCEPT !.outer = @ - 1].appeal = c.appeal
    BY <1>2 DEF CallRecord
  <2> QED BY <1>2, <2>1, UpdatingListFacts DEF Return
<1> QED BY <1>1, <1>2

\* What follows the write of a status is a record of a call for the same appeal
\* which is not about to write another one.
LEMMA AfterWriteFacts ==
    ASSUME TypeOK, NEW k \in Calls
    PROVE  /\ AfterWrite(k) \in CallRecord
           /\ AfterWrite(k).step \in {"read", "proofs", "readList"}
           /\ AfterWrite(k).appeal = call[k].appeal
<1> DEFINE c == call[k]
<1>1. c \in CallRecord
  BY DEF TypeOK
<1>2. CASE c.newState = "event" /\ c.arranged
  BY <1>1, <1>2, CallingCompleteFacts DEF AfterWrite
<1>3. CASE /\ c.newState = "evidence"
           /\ ~isExpeditedAppealType(kind[c.appeal].type)
           /\ kind[c.appeal].procedure = "inquiry"
  <2>1. /\ [c EXCEPT !.step = "proofs"] \in CallRecord
        /\ [c EXCEPT !.step = "proofs"].step = "proofs"
        /\ [c EXCEPT !.step = "proofs"].appeal = c.appeal
        /\ [c EXCEPT !.step = "proofs"].trigger = c.trigger
    BY <1>1 DEF CallRecord, CallStep
  <2>2. AfterWrite(k) = [c EXCEPT !.step = "proofs"]
    BY <1>3 DEF AfterWrite
  <2> QED BY <2>1, <2>2
<1>4. CASE /\ ~(c.newState = "event" /\ c.arranged)
           /\ ~(/\ c.newState = "evidence"
                /\ ~isExpeditedAppealType(kind[c.appeal].type)
                /\ kind[c.appeal].procedure = "inquiry")
  <2>1. AfterWrite(k) = UpdatingList(c)
    BY <1>4 DEF AfterWrite
  <2> QED BY <1>1, <2>1, UpdatingListFacts
<1> QED BY <1>2, <1>3, <1>4

\* The call that carries a case on sends Complete.
LEMMA AfterWriteCompletes ==
    ASSUME TypeOK, NEW k \in Calls, AfterWrite(k).step = "read"
    PROVE  AfterWrite(k).trigger = "Complete"
<1> DEFINE c == call[k]
<1>1. c \in CallRecord
  BY DEF TypeOK
<1>2. CASE c.newState = "event" /\ c.arranged
  BY <1>1, <1>2, CallingCompleteFacts DEF AfterWrite
<1>3. CASE ~(c.newState = "event" /\ c.arranged)
  <2>1. AfterWrite(k) \in {[c EXCEPT !.step = "proofs"], UpdatingList(c)}
    BY <1>3 DEF AfterWrite
  <2>2. [c EXCEPT !.step = "proofs"].step = "proofs"
    BY <1>1 DEF CallRecord
  <2> QED BY <1>1, <2>1, <2>2, UpdatingListFacts
<1> QED BY <1>2, <1>3

-----------------------------------------------------------------------------
(* What a step of a call leaves in its slot, for the modules whose         *)
(* requests start calls.                                                   *)

\* A step of a call leaves the other calls alone, and the call at its appeal.
LEMMA StepStays ==
    ASSUME TypeOK, NEW k \in Calls, Step(k)
    PROVE  /\ InProgress(k) /\ UNCHANGED eventVars
           /\ \A j \in Calls \ {k} : call'[j] = call[j]
           /\ call'[k].step # "idle" => call'[k].appeal = call[k].appeal
<1> DEFINE c == call[k]
<1> USE DEF InProgress
<1>1. c \in CallRecord /\ call \in [Calls -> CallRecord]
  BY DEF TypeOK
<1>2. CASE ReadAppeal(k)
  BY <1>1, <1>2, UpdatingListFacts DEF ReadAppeal, CallRecord, eventVars
<1>3. CASE Advance(k) \/ RollBack(k)
  BY <1>1, <1>3, AfterWriteFacts DEF Advance, RollBack
<1>4. CASE RollBackThrows(k)
  BY <1>1, <1>4, IdleFacts DEF RollBackThrows
<1>5. CASE ReadProofs(k)
  BY <1>1, <1>5, CallingCompleteFacts, UpdatingListFacts DEF ReadProofs
<1>6. CASE ReadForList(k)
  <2> DEFINE listing == [UpdatingList(c) EXCEPT !.step = "writeList",
                                                !.listed = currentStatus[c.appeal]]
  <2>1. listing.appeal = c.appeal
    BY <1>1, UpdatingListFacts DEF CallRecord
  <2>2. call' = [call EXCEPT ![k] = Return(c)] \/ call' = [call EXCEPT ![k] = listing]
    BY <1>6 DEF ReadForList
  <2> HIDE DEF listing
  <2> QED BY <1>1, <1>6, <2>1, <2>2, ReturnFacts DEF ReadForList
<1>7. CASE WriteList(k) \/ WriteChildren(k)
  <2>1. [c EXCEPT !.step = "writeChildren"].appeal = c.appeal
    BY <1>1 DEF CallRecord
  <2> QED BY <1>1, <1>7, <2>1, ReturnFacts DEF WriteList, WriteChildren
<1> QED BY <1>2, <1>3, <1>4, <1>5, <1>6, <1>7 DEF Step

\* But for reading the appeal, a step of a call leaves nothing to write, and a new
\* read only for the trigger Complete after a write or the proofs of evidence; a
\* status is written as it was decided and to the appeal of the call alone.
LEMMA StepWrites ==
    ASSUME TypeOK, NEW k \in Calls, Step(k), ~ReadAppeal(k)
    PROVE  /\ call'[k].step # "write"
           /\ call'[k].step = "read" =>
                 call'[k].trigger = "Complete" /\ call[k].step \in {"write", "proofs"}
           /\ call'[k].step = "proofs" => call[k].step = "write"
           /\ \/ UNCHANGED statusVars /\ (call[k].step = "write" => call'[k].step = "idle")
              \/ /\ call[k].step = "write"
                 /\ call'[k] = AfterWrite(k)
                 /\ currentStatus' = [currentStatus EXCEPT ![call[k].appeal] = call[k].newState]
                 /\ \A a \in Appeals \ {call[k].appeal} : history'[a] = history[a]
<1> DEFINE c == call[k]
<1>1. c \in CallRecord /\ call \in [Calls -> CallRecord]
  BY DEF TypeOK
<1>2. CASE Advance(k) \/ RollBack(k)
  <2>1. /\ call'[k] = AfterWrite(k) /\ c.step = "write" /\ c.appeal \in Appeals
        /\ currentStatus' = [currentStatus EXCEPT ![c.appeal] = c.newState]
        /\ \A a \in Appeals \ {c.appeal} : history'[a] = history[a]
    BY <1>1, <1>2 DEF Advance, RollBack, TypeOK, CallRecord
  <2> QED BY <2>1, AfterWriteFacts, AfterWriteCompletes
<1>3. CASE RollBackThrows(k)
  BY <1>1, <1>3, IdleFacts DEF RollBackThrows
<1>4. CASE ReadProofs(k)
  BY <1>1, <1>4, CallingCompleteFacts, UpdatingListFacts DEF ReadProofs
<1>5. CASE ReadForList(k)
  <2> DEFINE listing == [UpdatingList(c) EXCEPT !.step = "writeList",
                                                !.listed = currentStatus[c.appeal]]
  <2>1. listing.step = "writeList"
    BY <1>1, UpdatingListFacts DEF CallRecord
  <2>2. call' = [call EXCEPT ![k] = Return(c)] \/ call' = [call EXCEPT ![k] = listing]
    BY <1>5 DEF ReadForList
  <2> HIDE DEF listing
  <2> QED BY <1>1, <1>5, <2>1, <2>2, ReturnFacts DEF ReadForList
<1>6. CASE WriteList(k) \/ WriteChildren(k)
  <2>1. [c EXCEPT !.step = "writeChildren"].step = "writeChildren"
    BY <1>1 DEF CallRecord
  <2> QED BY <1>1, <1>6, <2>1, ReturnFacts DEF WriteList, WriteChildren, statusVars
<1> QED BY <1>2, <1>3, <1>4, <1>5, <1>6 DEF Step

-----------------------------------------------------------------------------
(* What holds however calls overlap, stop or fail.  The rows of an appeal  *)
(* and its currentStatus are written together, by one of two transactions, *)
(* so that each of them alone keeps LastRowIsCurrent.                      *)

RowsInv == TypeOK /\ LastRowIsCurrent

\* The appeals a run starts with have one valid row, the last, with the status of
\* the column, whatever their events.
LEMMA RowsStart ==
    ASSUME CaseInit, event \in [Appeals -> Event], past \in [Appeals -> BOOLEAN]
    PROVE  RowsInv
<1>1. StartPath \in Seq(Status) /\ StartPath # << >> /\ Len(StartPath) \in Nat \ {0}
      /\ StartPath[Len(StartPath)] \in Status
  BY AppealsAssumption
<1>2. /\ StartHistory \in Seq(StatusRow)
      /\ Len(StartHistory) = Len(StartPath)
      /\ \A i \in 1..Len(StartPath) : /\ StartHistory[i].status = StartPath[i]
                                      /\ StartHistory[i].valid <=> i = Len(StartPath)
  <2>1. \A i \in 1..Len(StartPath) :
           /\ StartHistory[i] = [status |-> StartPath[i], valid |-> i = Len(StartPath)]
           /\ StartPath[i] \in Status
    BY <1>1 DEF StartHistory
  <2>2. StartHistory \in [1..Len(StartPath) -> StatusRow]
    BY <1>1 DEF StartHistory, StatusRow
  <2>3. StartHistory \in Seq(StatusRow) /\ Len(StartHistory) = Len(StartPath)
    BY <1>1, <2>2
  <2>4. ASSUME NEW i \in 1..Len(StartPath)
        PROVE  /\ StartHistory[i].status = StartPath[i]
               /\ StartHistory[i].valid <=> i = Len(StartPath)
    <3> DEFINE last == i = Len(StartPath)
               row == [status |-> StartPath[i], valid |-> last]
    <3>1. StartHistory[i] = row
      BY <2>1, <2>4
    <3>2. row.status = StartPath[i] /\ row.valid = last
      <4> HIDE DEF last
      <4> QED OBVIOUS
    <3> QED BY <3>1, <3>2
  <2> QED BY <2>3, <2>4
<1>3. OnlyLastRowValid(StartHistory)
  BY <1>1, <1>2 DEF OnlyLastRowValid
<1>4. TypeOK
  BY <1>1, <1>2, IdleFacts DEF CaseInit, TypeOK
<1>5. LastRowIsCurrent
  BY <1>1, <1>2, <1>3 DEF CaseInit, LastRowIsCurrent
<1> QED BY <1>4, <1>5 DEF RowsInv

\* There is no event at first.
LEMMA RowsInit == Init => RowsInv
BY RowsStart DEF Init, Event

\* A step that writes no status keeps the rows as they are.
LEMMA RowsUntouched ==
    ASSUME LastRowIsCurrent, UNCHANGED statusVars
    PROVE  LastRowIsCurrent'
BY DEF LastRowIsCurrent, statusVars

\* Each step of a call leaves a record of a call in its slot and nothing else
\* but the status and the personal list changed.
LEMMA CallTypeKept ==
    ASSUME TypeOK, NEW k \in Calls, NEW c \in CallRecord, call' = [call EXCEPT ![k] = c],
           history' \in [Appeals -> Seq(StatusRow)], currentStatus' \in [Appeals -> Status],
           UNCHANGED eventVars,
           personalList' \in [Appeals -> Status \union {NoEntry}]
    PROVE  TypeOK'
BY DEF TypeOK, eventVars

\* updateAppealStatusByAppealId keeps the rows and the column in agreement.
LEMMA RowsAdvance ==
    ASSUME RowsInv, NEW k \in Calls, Advance(k)
    PROVE  RowsInv'
<1> DEFINE a == call[k].appeal
           new == call[k].newState
<1>1. /\ a \in Appeals /\ new \in Status /\ history[a] \in Seq(StatusRow)
      /\ history' = [history EXCEPT ![a] = SetStatus(history[a], new)]
      /\ currentStatus' = [currentStatus EXCEPT ![a] = new]
  BY DEF RowsInv, TypeOK, CallRecord, Advance
<1>2. TypeOK'
  <2>1. history' \in [Appeals -> Seq(StatusRow)] /\ currentStatus' \in [Appeals -> Status]
    BY <1>1, SetStatusFacts DEF RowsInv, TypeOK
  <2> QED BY <2>1, AfterWriteFacts, CallTypeKept DEF RowsInv, TypeOK, Advance
<1>3. LastRowIsCurrent'
  <2> SUFFICES ASSUME NEW b \in Appeals
               PROVE  /\ OnlyLastRowValid(history'[b])
                      /\ history'[b][Len(history'[b])].status = currentStatus'[b]
    BY DEF LastRowIsCurrent
  <2>1. CASE b = a
    <3>1. history'[b] = SetStatus(history[a], new) /\ currentStatus'[b] = new
      BY <1>1, <2>1 DEF RowsInv, TypeOK
    <3> HIDE DEF new
    <3> QED BY <1>1, <3>1, SetStatusFacts
  <2>2. CASE b # a
    BY <1>1, <2>2 DEF RowsInv, TypeOK, LastRowIsCurrent
  <2> QED BY <2>1, <2>2
<1> QED BY <1>2, <1>3 DEF RowsInv

\* rollBackAppealStatusTo keeps the rows and the column in agreement, whichever row
\* it finds.
LEMMA RowsRollBack ==
    ASSUME RowsInv, NEW k \in Calls, RollBack(k)
    PROVE  RowsInv'
<1> DEFINE a == call[k].appeal
           new == call[k].newState
<1>1. /\ a \in Appeals /\ new \in Status /\ history[a] \in Seq(StatusRow)
      /\ OnlyLastRowValid(history[a])
      /\ currentStatus' = [currentStatus EXCEPT ![a] = new]
  BY DEF RowsInv, TypeOK, LastRowIsCurrent, CallRecord, RollBack
<1>2. PICK i \in RowsWith(history[a], new) :
         history' = [history EXCEPT ![a] = RollBackToRow(history[a], i)]
  BY DEF RollBack
<1>3. i \in DOMAIN history[a] /\ i \in 1..i /\ history[a][i].status = new
  BY <1>1 DEF RowsWith
<1>4. TypeOK'
  <2>1. history' \in [Appeals -> Seq(StatusRow)] /\ currentStatus' \in [Appeals -> Status]
    BY <1>1, <1>2, <1>3, RollBackToRowFacts DEF RowsInv, TypeOK
  <2> QED BY <2>1, AfterWriteFacts, CallTypeKept DEF RowsInv, TypeOK, RollBack
<1>5. LastRowIsCurrent'
  <2> SUFFICES ASSUME NEW b \in Appeals
               PROVE  /\ OnlyLastRowValid(history'[b])
                      /\ history'[b][Len(history'[b])].status = currentStatus'[b]
    BY DEF LastRowIsCurrent
  <2>1. CASE b = a
    BY <1>1, <1>2, <1>3, <2>1, RollBackToRowFacts DEF RowsInv, TypeOK
  <2>2. CASE b # a
    BY <1>1, <1>2, <2>2 DEF RowsInv, TypeOK, LastRowIsCurrent
  <2> QED BY <2>1, <2>2
<1> QED BY <1>4, <1>5 DEF RowsInv

\* What transitionState decides from the appeal it read has the types of a call.
LEMMA RowsReadAppeal ==
    ASSUME RowsInv, NEW k \in Calls, ReadAppeal(k)
    PROVE  RowsInv'
<1> DEFINE c == call[k]
           a == c.appeal
           new == NextStatusOf(a, eventElapsed(a), currentStatus[a], c.trigger)
           writing == [c EXCEPT !.step = "write", !.newState = new,
                                !.passed = isStatePassed(history[a], new),
                                !.arranged = isArranged(a)]
<1>1. c \in CallRecord /\ a \in Appeals /\ c.trigger \in Trigger /\ currentStatus[a] \in Status
  BY DEF RowsInv, TypeOK, CallRecord
<1>2. eventElapsed(a) \in BOOLEAN /\ isArranged(a) \in BOOLEAN
      /\ isStatePassed(history[a], new) \in BOOLEAN
  BY <1>1 DEF eventElapsed, isArranged, isStatePassed, RowsInv, TypeOK
<1>3. new \in Status
  BY <1>1, <1>2, NextStatusType DEF NextStatusOf
<1>4. writing \in CallRecord
  <2> HIDE DEF new
  <2> QED BY <1>1, <1>2, <1>3 DEF CallRecord, CallStep
<1>5. call' = [call EXCEPT ![k] = UpdatingList(c)] \/ call' = [call EXCEPT ![k] = writing]
  BY DEF ReadAppeal, RowsInv, TypeOK
<1>6. TypeOK'
  <2> HIDE DEF writing
  <2> QED BY <1>1, <1>4, <1>5, UpdatingListFacts, CallTypeKept
         DEF ReadAppeal, RowsInv, TypeOK, statusVars
<1> QED BY <1>6, RowsUntouched DEF ReadAppeal, RowsInv

\* The steps of a call that write no status keep the rows as they are.
LEMMA RowsSmallSteps ==
    ASSUME RowsInv, NEW k \in Calls,
           \/ RollBackThrows(k) \/ ReadProofs(k) \/ ReadForList(k)
           \/ WriteList(k) \/ WriteChildren(k) \/ Crash(k)
    PROVE  RowsInv'
<1> DEFINE c == call[k]
<1>1. c \in CallRecord /\ c.appeal \in Appeals /\ currentStatus[c.appeal] \in Status
      /\ history \in [Appeals -> Seq(StatusRow)] /\ currentStatus \in [Appeals -> Status]
      /\ personalList \in [Appeals -> Status \union {NoEntry}]
  BY DEF RowsInv, TypeOK, CallRecord
<1>2. CASE RollBackThrows(k)
  BY <1>1, <1>2, IdleFacts, CallTypeKept, RowsUntouched DEF RollBackThrows, RowsInv, statusVars
<1>3. CASE ReadProofs(k)
  BY <1>1, <1>3, CallingCompleteFacts, UpdatingListFacts, CallTypeKept, RowsUntouched
     DEF ReadProofs, RowsInv, statusVars
<1>4. CASE ReadForList(k)
  <2>1. [UpdatingList(c) EXCEPT !.step = "writeList", !.listed = currentStatus[c.appeal]]
           \in CallRecord
    BY <1>1, UpdatingListFacts DEF CallRecord, CallStep
  <2> QED BY <1>1, <1>4, <2>1, ReturnFacts, CallTypeKept, RowsUntouched
         DEF ReadForList, RowsInv, statusVars
<1>5. CASE WriteList(k)
  <2>1. [c EXCEPT !.step = "writeChildren"] \in CallRecord
    BY <1>1 DEF CallRecord, CallStep
  <2>2. personalList' \in [Appeals -> Status \union {NoEntry}]
    BY <1>1, <1>5 DEF WriteList, CallRecord
  <2> QED BY <1>1, <1>5, <2>1, <2>2, ReturnFacts, CallTypeKept, RowsUntouched
         DEF WriteList, RowsInv, statusVars
<1>6. CASE WriteChildren(k)
  <2>1. personalList' \in [Appeals -> Status \union {NoEntry}]
    BY <1>1, <1>6 DEF WriteChildren, CallRecord
  <2> QED BY <1>1, <1>6, <2>1, ReturnFacts, CallTypeKept, RowsUntouched
         DEF WriteChildren, RowsInv, statusVars
<1>7. CASE Crash(k)
  BY <1>1, <1>7, IdleFacts, CallTypeKept, RowsUntouched DEF Crash, RowsInv, statusVars
<1> QED BY <1>2, <1>3, <1>4, <1>5, <1>6, <1>7

\* A new call of transitionState keeps the rows as they are.
LEMMA RowsInvoke ==
    ASSUME RowsInv, NEW k \in Calls, NEW a \in Appeals, NEW trigger \in Triggers,
           Invoke(k, a, trigger)
    PROVE  RowsInv'
<1> DEFINE c == [Idle EXCEPT !.step = "read", !.appeal = a, !.trigger = trigger]
<1>1. c \in CallRecord
  BY IdleFacts, AppealsAssumption DEF CallRecord, CallStep
<1>2. history \in [Appeals -> Seq(StatusRow)] /\ currentStatus \in [Appeals -> Status]
      /\ personalList \in [Appeals -> Status \union {NoEntry}]
  BY DEF RowsInv, TypeOK
<1> QED BY <1>1, <1>2, CallTypeKept, RowsUntouched DEF Invoke, RowsInv, statusVars

\* Setting up and dropping events, the clock and reviews of proofs keep the rows as
\* they are.
LEMMA RowsEnvironment ==
    ASSUME RowsInv, NEW a \in Appeals, Environment(a)
    PROVE  RowsInv'
<1>1. TypeOK'
  <2>1. Events \subseteq Event
    BY AppealsAssumption DEF Event
  <2> QED BY <2>1 DEF RowsInv, TypeOK, Environment, SetUpEvent, DropEvent, TimePasses,
         ReviewProofs, statusVars, Event
<1>2. LastRowIsCurrent'
  BY RowsUntouched DEF RowsInv, Environment, SetUpEvent, DropEvent, TimePasses, ReviewProofs,
     statusVars
<1> QED BY <1>1, <1>2 DEF RowsInv

\* Every step keeps the types and the agreement of rows and column.
LEMMA RowsNext == RowsInv /\ [Next]_vars => RowsInv'
<1> SUFFICES ASSUME RowsInv, [Next]_vars PROVE RowsInv'
  OBVIOUS
<1>1. CASE \E k \in Calls, a \in Appeals, trigger \in Triggers : Invoke(k, a, trigger)
  BY <1>1, RowsInvoke
<1>2. CASE \E k \in Calls : Step(k)
  BY <1>2, RowsReadAppeal, RowsRollBack, RowsAdvance, RowsSmallSteps DEF Step
<1>3. CASE \E a \in Appeals : Environment(a)
  BY <1>3, RowsEnvironment
<1>4. CASE \E k \in Calls : Crash(k)
  BY <1>4, RowsSmallSteps
<1>5. CASE UNCHANGED vars
  BY <1>5 DEF vars, RowsInv, TypeOK, LastRowIsCurrent
<1> QED BY <1>1, <1>2, <1>3, <1>4, <1>5 DEF Next, Working

\* Every variable keeps its type, whatever calls overlap, stop or fail.
THEOREM TypeCorrect == Spec => []TypeOK
<1>1. RowsInv => TypeOK
  BY DEF RowsInv
<1> QED BY <1>1, RowsInit, RowsNext, PTL DEF Spec

\* The AppealStatus rows and the currentStatus column of an appeal never disagree,
\* whatever calls of transitionState overlap, stop or fail.
THEOREM RowsAgree == Spec => []LastRowIsCurrent
<1>1. RowsInv => LastRowIsCurrent
  BY DEF RowsInv
<1> QED BY <1>1, RowsInit, RowsNext, PTL DEF Spec

-----------------------------------------------------------------------------
(* The stage of a case is one it has, whatever calls overlap: a call may   *)
(* write a status that is stale, but never one that the case does not      *)
(* have, because the type and the procedure stay.                          *)

HasStage(a, status) == isAppealTypeAndProcedureTypeValid(kind[a].type, kind[a].procedure, status)

\* The first conjunct is StageIsForCase; the others say what a call carries from
\* the request to its read, and from its read to its write.
StageInv ==
    /\ \A a \in Appeals : HasStage(a, currentStatus[a])
    /\ \A k \in Calls : call[k].step = "write" => HasStage(call[k].appeal, call[k].newState)
    /\ \A k \in Calls :
          call[k].step = "read" /\ call[k].trigger = "Cancel" =>
              kind[call[k].appeal].procedure \in {"hearing", "inquiry"}

\* The appeals a run starts with are at a stage their type and procedure have.
LEMMA StageInit == Init => StageInv
<1> SUFFICES ASSUME Init PROVE StageInv
  OBVIOUS
<1>1. \A a \in Appeals : HasStage(a, currentStatus[a])
  BY AppealsAssumption DEF Init, CaseInit, HasStage
<1> QED BY <1>1, IdleFacts DEF Init, CaseInit, StageInv

\* A step that leaves a call neither reading with Cancel nor about to write.
LEMMA StageCallStep ==
    ASSUME RowsInv, StageInv, NEW k \in Calls, NEW c \in CallRecord,
           call' = [call EXCEPT ![k] = c], UNCHANGED kind,
           c.step # "write", c.step = "read" => c.trigger # "Cancel",
           \A a \in Appeals : HasStage(a, currentStatus'[a])
    PROVE  StageInv'
BY DEF StageInv, HasStage, RowsInv, TypeOK

\* The status a call decides to write is a stage the appeal has, though the status it
\* read may be out of date by then.
LEMMA StageRead ==
    ASSUME RowsInv, StageInv, NEW k \in Calls, ReadAppeal(k)
    PROVE  StageInv'
<1> DEFINE c == call[k]
           a == c.appeal
           new == NextStatusOf(a, eventElapsed(a), currentStatus[a], c.trigger)
<1>1. c \in CallRecord /\ a \in Appeals /\ c.trigger \in Trigger /\ currentStatus[a] \in Status
      /\ kind[a] \in Kinds
  BY DEF RowsInv, TypeOK, CallRecord
<1>2. kind[a].type \in AppealType /\ kind[a].procedure \in ProcedureType
  BY <1>1, AppealsAssumption
<1>3. eventElapsed(a) \in BOOLEAN
  BY <1>1 DEF eventElapsed, RowsInv, TypeOK
<1>4. HasStage(a, new)
  BY <1>1, <1>2, <1>3, NextStatusKeepsStage DEF HasStage, NextStatusOf, StageInv, ReadAppeal
<1>5. CASE new = currentStatus[a]
  <2>1. call' = [call EXCEPT ![k] = UpdatingList(c)]
    BY <1>5 DEF ReadAppeal
  <2> QED BY <1>1, <2>1, UpdatingListFacts, StageCallStep
         DEF StageInv, ReadAppeal, statusVars, eventVars
<1>6. CASE new # currentStatus[a]
  <2>1. /\ call'[k].step = "write" /\ call'[k].appeal = a /\ call'[k].newState = new
        /\ \A j \in Calls \ {k} : call'[j] = call[j]
        /\ UNCHANGED <<kind, currentStatus>>
    BY <1>1, <1>6 DEF ReadAppeal, RowsInv, TypeOK, CallRecord, statusVars, eventVars
  <2> HIDE DEF new
  <2> QED BY <1>4, <2>1 DEF StageInv, HasStage
<1> QED BY <1>5, <1>6

\* A call that writes its status keeps the appeal at a stage it has.
LEMMA StageWrite ==
    ASSUME RowsInv, StageInv, NEW k \in Calls, Advance(k) \/ RollBack(k)
    PROVE  StageInv'
<1> DEFINE a == call[k].appeal
<1>1. /\ a \in Appeals /\ call[k].step = "write"
      /\ currentStatus' = [currentStatus EXCEPT ![a] = call[k].newState]
      /\ call' = [call EXCEPT ![k] = AfterWrite(k)] /\ UNCHANGED kind
  BY DEF Advance, RollBack, RowsInv, TypeOK, CallRecord, eventVars
<1>2. \A b \in Appeals : HasStage(b, currentStatus'[b])
  BY <1>1 DEF StageInv, RowsInv, TypeOK
<1>3. AfterWrite(k) \in CallRecord /\ AfterWrite(k).step # "write"
      /\ (AfterWrite(k).step = "read" => AfterWrite(k).trigger # "Cancel")
  BY AfterWriteFacts, AfterWriteCompletes DEF RowsInv
<1> QED BY <1>1, <1>2, <1>3, StageCallStep

\* Every step keeps the appeals, and the decisions of calls, at stages they have.
LEMMA StageNext == RowsInv /\ StageInv /\ [Next]_vars => StageInv'
<1> SUFFICES ASSUME RowsInv, StageInv, [Next]_vars PROVE StageInv'
  OBVIOUS
<1> USE DEF statusVars, eventVars
<1>1. ASSUME NEW k \in Calls, NEW a \in Appeals, NEW trigger \in Triggers,
             Invoke(k, a, trigger)
      PROVE  StageInv'
  <2>1. /\ call'[k].step = "read" /\ call'[k].appeal = a /\ call'[k].trigger = trigger
        /\ \A j \in Calls \ {k} : call'[j] = call[j]
        /\ trigger = "Cancel" => kind[a].procedure \in {"hearing", "inquiry"}
        /\ UNCHANGED <<kind, currentStatus>>
    BY <1>1, IdleFacts DEF Invoke, TriggersFor, RowsInv, TypeOK, CallRecord
  <2> QED BY <2>1 DEF StageInv, HasStage
<1>2. ASSUME NEW k \in Calls, Step(k) \/ Crash(k)
      PROVE  StageInv'
  <2> DEFINE c == call[k]
  <2>1. c \in CallRecord
    BY DEF RowsInv, TypeOK
  <2>2. CASE ReadAppeal(k)
    BY <2>2, StageRead
  <2>3. CASE Advance(k) \/ RollBack(k)
    BY <2>3, StageWrite
  <2>4. CASE RollBackThrows(k) \/ Crash(k)
    BY <2>4, IdleFacts, StageCallStep DEF RollBackThrows, Crash, StageInv
  <2>5. CASE ReadProofs(k)
    BY <2>1, <2>5, CallingCompleteFacts, UpdatingListFacts, StageCallStep DEF ReadProofs, StageInv
  <2>6. CASE ReadForList(k)
    <3>1. [UpdatingList(c) EXCEPT !.step = "writeList", !.listed = currentStatus[c.appeal]]
             \in CallRecord
      BY <2>1, UpdatingListFacts DEF CallRecord, CallStep, RowsInv, TypeOK
    <3>2. [UpdatingList(c) EXCEPT !.step = "writeList", !.listed = currentStatus[c.appeal]].step
             = "writeList"
      BY <2>1, UpdatingListFacts DEF CallRecord
    <3> QED BY <2>1, <2>6, <3>1, <3>2, ReturnFacts, StageCallStep DEF ReadForList, StageInv
  <2>7. CASE WriteList(k)
    <3>1. /\ [c EXCEPT !.step = "writeChildren"] \in CallRecord
          /\ [c EXCEPT !.step = "writeChildren"].step = "writeChildren"
      BY <2>1 DEF CallRecord, CallStep
    <3> QED BY <2>1, <2>7, <3>1, ReturnFacts, StageCallStep DEF WriteList, StageInv
  <2>8. CASE WriteChildren(k)
    BY <2>1, <2>8, ReturnFacts, StageCallStep DEF WriteChildren, StageInv
  <2> QED BY <1>2, <2>2, <2>3, <2>4, <2>5, <2>6, <2>7, <2>8 DEF Step
<1>3. ASSUME NEW a \in Appeals, Environment(a)
      PROVE  StageInv'
  BY <1>3 DEF Environment, SetUpEvent, DropEvent, TimePasses, ReviewProofs, StageInv, HasStage
<1>4. CASE UNCHANGED vars
  BY <1>4 DEF vars, StageInv, HasStage
<1> QED BY <1>1, <1>2, <1>3, <1>4 DEF Next, Working

\* A case is never at a representation stage that its type and procedure do not
\* have, whatever calls of transitionState overlap, stop or fail.
THEOREM StageCorrect == Spec => []StageIsForCase
<1>1. StageInv => StageIsForCase
  BY DEF StageInv, StageIsForCase, HasStage
<1> QED BY <1>1, RowsInit, RowsNext, StageInit, StageNext, PTL DEF Spec
-----------------------------------------------------------------------------
(* Free slots, for the modules whose requests free them.                   *)

FreeSlots == \A k \in Calls : ~InProgress(k) => call[k] = Idle

\* A call that is over leaves its slot free.
LEMMA StepFrees ==
    ASSUME TypeOK, NEW k \in Calls, Step(k), call'[k].step = "idle"
    PROVE  call'[k] = Idle
<1> DEFINE c == call[k]
<1>1. c \in CallRecord /\ call \in [Calls -> CallRecord]
  BY DEF TypeOK
<1>2. CASE ReadAppeal(k)
  BY <1>1, <1>2, UpdatingListFacts DEF ReadAppeal, CallRecord
<1>3. CASE Advance(k) \/ RollBack(k)
  BY <1>1, <1>3, AfterWriteFacts DEF Advance, RollBack
<1>4. CASE RollBackThrows(k)
  BY <1>1, <1>4 DEF RollBackThrows
<1>5. CASE ReadProofs(k)
  BY <1>1, <1>5, CallingCompleteFacts, UpdatingListFacts DEF ReadProofs
<1>6. CASE ReadForList(k) \/ WriteList(k) \/ WriteChildren(k)
  <2> DEFINE listing == [UpdatingList(c) EXCEPT !.step = "writeList",
                                                !.listed = currentStatus[c.appeal]]
  <2>1. listing.step = "writeList" /\ [c EXCEPT !.step = "writeChildren"].step = "writeChildren"
    BY <1>1, UpdatingListFacts DEF CallRecord
  <2>2. call'[k] \in {Return(c), listing, [c EXCEPT !.step = "writeChildren"]}
    BY <1>1, <1>6 DEF ReadForList, WriteList, WriteChildren
  <2>3. call'[k] = Return(c)
    BY <2>1, <2>2
  <2>4. c.outer # 0 => Return(c).step = "readList"
    <3>1. c.outer # 0 => [c EXCEPT !.outer = @ - 1] \in CallRecord
      BY <1>1 DEF CallRecord
    <3> QED BY <3>1, UpdatingListFacts DEF Return
  <2> QED BY <2>3, <2>4 DEF Return
<1> QED BY <1>2, <1>3, <1>4, <1>5, <1>6 DEF Step

\* A slot that is free keeps nothing of a call it held.
LEMMA FreeSlotsNext == RowsInv /\ FreeSlots /\ [Next]_vars => FreeSlots'
<1> SUFFICES ASSUME RowsInv, FreeSlots, [Next]_vars PROVE FreeSlots'
  OBVIOUS
<1>0. TypeOK /\ call \in [Calls -> CallRecord]
  BY DEF RowsInv, TypeOK
<1>1. ASSUME NEW k \in Calls, NEW a \in Appeals, NEW trigger \in Triggers,
             Invoke(k, a, trigger)
      PROVE  FreeSlots'
  <2>1. /\ call'[k].step = "read" /\ \A j \in Calls \ {k} : call'[j] = call[j]
    BY <1>0, <1>1, IdleFacts DEF Invoke, CallRecord
  <2> QED BY <2>1 DEF FreeSlots, InProgress
<1>2. ASSUME NEW k \in Calls, Step(k)
      PROVE  FreeSlots'
  BY <1>0, <1>2, StepStays, StepFrees DEF FreeSlots, InProgress
<1>3. ASSUME NEW k \in Calls, Crash(k)
      PROVE  FreeSlots'
  BY <1>0, <1>3 DEF FreeSlots, InProgress, Crash
<1>4. ASSUME NEW a \in Appeals, Environment(a)
      PROVE  FreeSlots'
  BY <1>4 DEF Environment, SetUpEvent, DropEvent, TimePasses, ReviewProofs, FreeSlots, InProgress
<1>5. CASE UNCHANGED vars
  BY <1>5 DEF vars, FreeSlots, InProgress
<1> QED BY <1>1, <1>2, <1>3, <1>4, <1>5 DEF Next, Working
=============================================================================
