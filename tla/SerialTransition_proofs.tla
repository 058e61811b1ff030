---------------------- MODULE SerialTransition_proofs -----------------------
(***************************************************************************)
(* Proofs about transitionState when an appeal has one call in progress at *)
(* a time: whatever stops or fails, what a call decided when it read the   *)
(* appeal is still the chart's answer when it writes.                      *)
(***************************************************************************)
EXTENDS TransitionState_proofs

OneCallEach ==
    \A j, k \in Calls :
        InProgress(j) /\ InProgress(k) /\ call[j].appeal = call[k].appeal => j = k

\* newState is the chart's answer for the appeal as it is, and passed says
\* whether the rows have it.
Decided(status, a, newState, passed) ==
    /\ newState # status
    /\ passed <=> RowsWith(history[a], newState) # {}
    /\ \E elapsed \in BOOLEAN, trigger \in Trigger :
          newState = NextStatusOf(a, elapsed, status, trigger)

WriteIsDecided ==
    \A k \in Calls :
        call[k].step = "write" =>
            Decided(currentStatus[call[k].appeal], call[k].appeal,
                    call[k].newState, call[k].passed)

SerialInv == RowsInv /\ OneCallEach /\ WriteIsDecided

\* The strengthened invariant holds before the first call of transitionState.
LEMMA SerialInit == Init => SerialInv
<1> SUFFICES ASSUME Init PROVE SerialInv
  OBVIOUS
<1>1. \A k \in Calls : call[k].step = "idle"
  BY IdleFacts DEF Init, CaseInit
<1> QED BY <1>1, RowsInit DEF SerialInv, OneCallEach, WriteIsDecided, InProgress

\* A step of a call that does not leave it about to write disturbs no other
\* call: no other call is for its appeal.
LEMMA SerialCallStep ==
    ASSUME SerialInv, NEW k \in Calls, NEW c \in CallRecord,
           InProgress(k), call' = [call EXCEPT ![k] = c], UNCHANGED kind,
           c.step # "write", c.step # "idle" => c.appeal = call[k].appeal,
           \A a \in Appeals \ {call[k].appeal} :
              history'[a] = history[a] /\ currentStatus'[a] = currentStatus[a]
    PROVE  OneCallEach' /\ WriteIsDecided'
<1>1. call'[k] = c /\ \A j \in Calls \ {k} : call'[j] = call[j]
  BY DEF SerialInv, RowsInv, TypeOK
<1>2. OneCallEach'
  BY <1>1 DEF SerialInv, OneCallEach, InProgress
<1>3. ASSUME NEW j \in Calls, call'[j].step = "write"
      PROVE  Decided(currentStatus[call[j].appeal], call[j].appeal,
                     call[j].newState, call[j].passed)'
  <2>1. j # k /\ call'[j] = call[j] /\ InProgress(j)
    BY <1>1, <1>3 DEF InProgress
  <2>2. call[j].appeal \in Appeals /\ call[j].appeal # call[k].appeal
    BY <2>1 DEF SerialInv, OneCallEach, RowsInv, TypeOK, CallRecord
  <2> QED BY <1>3, <2>1, <2>2 DEF SerialInv, WriteIsDecided, Decided, NextStatusOf
<1> QED BY <1>2, <1>3 DEF WriteIsDecided

\* What a call decides is the chart's answer for the status the appeal is at.
LEMMA SerialRead ==
    ASSUME SerialInv, NEW k \in Calls, ReadAppeal(k)
    PROVE  OneCallEach' /\ WriteIsDecided'
<1> DEFINE c == call[k]
           a == c.appeal
           new == NextStatusOf(a, eventElapsed(a), currentStatus[a], c.trigger)
<1> USE DEF statusVars, eventVars
<1>1. c \in CallRecord /\ a \in Appeals /\ c.trigger \in Trigger /\ currentStatus[a] \in Status
      /\ InProgress(k)
  BY DEF SerialInv, RowsInv, TypeOK, CallRecord, ReadAppeal, InProgress
<1>2. eventElapsed(a) \in BOOLEAN
  BY <1>1 DEF eventElapsed, SerialInv, RowsInv, TypeOK
<1>3. CASE new = currentStatus[a]
  <2>1. call' = [call EXCEPT ![k] = UpdatingList(c)]
    BY <1>3 DEF ReadAppeal
  <2> QED BY <1>1, <2>1, UpdatingListFacts, SerialCallStep DEF ReadAppeal
<1>4. CASE new # currentStatus[a]
  <2>1. /\ call'[k].step = "write" /\ call'[k].appeal = a /\ call'[k].newState = new
        /\ call'[k].passed = isStatePassed(history[a], new)
        /\ \A j \in Calls \ {k} : call'[j] = call[j]
        /\ UNCHANGED <<kind, currentStatus, history>>
    BY <1>1, <1>4 DEF ReadAppeal, SerialInv, RowsInv, TypeOK, CallRecord
  <2>2. OneCallEach'
    BY <1>1, <2>1 DEF SerialInv, OneCallEach, InProgress
  <2>3. isStatePassed(history[a], new) <=> RowsWith(history[a], new) # {}
    BY <1>1, <1>4, PassedIsRecorded DEF SerialInv, RowsInv, TypeOK, LastRowIsCurrent
  <2>4. Decided(currentStatus[a], a, new, isStatePassed(history[a], new))
    BY <1>1, <1>2, <1>4, <2>3 DEF Decided
  <2>5. WriteIsDecided'
    <3> HIDE DEF new
    <3> QED BY <2>1, <2>4 DEF SerialInv, WriteIsDecided, Decided, NextStatusOf
  <2> QED BY <2>2, <2>5
<1> QED BY <1>3, <1>4

\* A new call is the only one for its appeal.
LEMMA SerialInvoke ==
    ASSUME Serialised, SerialInv, NEW k \in Calls, NEW a \in Appeals, NEW trigger \in Triggers,
           Invoke(k, a, trigger)
    PROVE  OneCallEach' /\ WriteIsDecided'
<1>1. /\ call'[k].step = "read" /\ call'[k].appeal = a
      /\ \A j \in Calls \ {k} : call'[j] = call[j] /\ (InProgress(j) => call[j].appeal # a)
      /\ UNCHANGED <<kind, currentStatus, history>>
  BY IdleFacts DEF Invoke, SerialInv, RowsInv, TypeOK, CallRecord, statusVars, eventVars, InProgress
<1> QED BY <1>1 DEF SerialInv, OneCallEach, InProgress, WriteIsDecided, Decided, NextStatusOf

\* A step of a call keeps the invariant: what it writes, no other call had decided on.
LEMMA SerialStep ==
    ASSUME SerialInv, NEW k \in Calls, Step(k) \/ Crash(k)
    PROVE  OneCallEach' /\ WriteIsDecided'
<1> USE DEF statusVars, eventVars
<1> DEFINE c == call[k]
<1>1. c \in CallRecord /\ TypeOK
  BY DEF SerialInv, RowsInv, TypeOK
<1>2. CASE ReadAppeal(k)
  BY <1>2, SerialRead
<1>3. CASE Advance(k) \/ RollBack(k)
  <2>1. /\ InProgress(k) /\ call' = [call EXCEPT ![k] = AfterWrite(k)] /\ UNCHANGED kind
        /\ \A a \in Appeals \ {c.appeal} :
              history'[a] = history[a] /\ currentStatus'[a] = currentStatus[a]
    BY <1>1, <1>3 DEF Advance, RollBack, InProgress, TypeOK
  <2>2. AfterWrite(k) \in CallRecord /\ AfterWrite(k).step # "write"
        /\ AfterWrite(k).appeal = c.appeal
    BY <1>1, AfterWriteFacts
  <2> QED BY <2>1, <2>2, SerialCallStep
<1>4. CASE RollBackThrows(k) \/ Crash(k)
  BY <1>4, IdleFacts, SerialCallStep DEF RollBackThrows, Crash, InProgress
<1>5. CASE ReadProofs(k)
  BY <1>1, <1>5, CallingCompleteFacts, UpdatingListFacts, SerialCallStep DEF ReadProofs, InProgress
<1>6. CASE ReadForList(k)
  <2> DEFINE listing == [UpdatingList(c) EXCEPT !.step = "writeList",
                                                !.listed = currentStatus[c.appeal]]
  <2>1. listing \in CallRecord /\ listing.step = "writeList" /\ listing.appeal = c.appeal
    <3>1. currentStatus[c.appeal] \in Status /\ "writeList" \in CallStep
      BY <1>1 DEF CallRecord, CallStep, TypeOK
    <3>2. UpdatingList(c) \in CallRecord /\ UpdatingList(c).appeal = c.appeal
      BY <1>1, UpdatingListFacts
    <3> QED BY <3>1, <3>2 DEF CallRecord
  <2>2. call' = [call EXCEPT ![k] = Return(c)] \/ call' = [call EXCEPT ![k] = listing]
    BY <1>6 DEF ReadForList
  <2> HIDE DEF listing
  <2> QED BY <1>1, <1>6, <2>1, <2>2, ReturnFacts, SerialCallStep DEF ReadForList, InProgress
<1>7. CASE WriteList(k)
  <2>1. /\ [c EXCEPT !.step = "writeChildren"] \in CallRecord
        /\ [c EXCEPT !.step = "writeChildren"].step = "writeChildren"
        /\ [c EXCEPT !.step = "writeChildren"].appeal = c.appeal
    BY <1>1 DEF CallRecord, CallStep
  <2> QED BY <1>1, <1>7, <2>1, ReturnFacts, SerialCallStep DEF WriteList, InProgress
<1>8. CASE WriteChildren(k)
  BY <1>1, <1>8, ReturnFacts, SerialCallStep DEF WriteChildren, InProgress
<1> QED BY <1>2, <1>3, <1>4, <1>5, <1>6, <1>7, <1>8 DEF Step

\* Every step keeps the strengthened invariant while calls are serialised.
LEMMA SerialNext == Serialised /\ SerialInv /\ [Next]_vars => SerialInv'
<1> SUFFICES ASSUME Serialised, SerialInv, [Next]_vars PROVE SerialInv'
  OBVIOUS
<1>1. RowsInv'
  BY RowsNext DEF SerialInv
<1>2. CASE \E k \in Calls, a \in Appeals, trigger \in Triggers : Invoke(k, a, trigger)
  BY <1>1, <1>2, SerialInvoke DEF SerialInv
<1>3. CASE \E k \in Calls : Step(k) \/ Crash(k)
  BY <1>1, <1>3, SerialStep DEF SerialInv
<1>4. CASE \/ \E a \in Appeals : Environment(a)
           \/ UNCHANGED vars
  <2>1. UNCHANGED <<kind, history, currentStatus, call>>
    BY <1>4 DEF Environment, SetUpEvent, DropEvent, TimePasses, ReviewProofs, statusVars, vars
  <2> QED BY <1>1, <2>1 DEF SerialInv, OneCallEach, WriteIsDecided, Decided, InProgress,
     NextStatusOf
<1> QED BY <1>2, <1>3, <1>4 DEF Next, Working

\* With one call for an appeal at a time, the row that rollBackAppealStatusTo
\* looks for is there, so it never throws.
THEOREM RollBackSucceeds == ASSUME Serialised PROVE Spec => []RollBackFindsRow
<1>1. SerialInv => RollBackFindsRow
  BY DEF SerialInv, WriteIsDecided, Decided, RollBackFindsRow
<1> QED BY <1>1, SerialInit, SerialNext, PTL DEF Spec

-----------------------------------------------------------------------------
(* What becomes of the history, and of the status, in one step.            *)

\* The appeal moves to newState, the chart's answer for its status: the row is
\* added, or the rows after the one it has are deleted.
MovesTo(a, newState) ==
    /\ newState \in Status /\ newState # currentStatus[a]
    /\ \E elapsed \in BOOLEAN, trigger \in Trigger :
          newState = NextStatusOf(a, elapsed, currentStatus[a], trigger)
    /\ currentStatus' = [currentStatus EXCEPT ![a] = newState]
    /\ \/ /\ RowsWith(history[a], newState) = {}
          /\ history' = [history EXCEPT ![a] = SetStatus(history[a], newState)]
       \/ \E i \in RowsWith(history[a], newState) :
             history' = [history EXCEPT ![a] = RollBackToRow(history[a], i)]

\* A step either moves one appeal to the status its call decided on, by a new row or
\* by rolling back, or leaves every status and row alone.
LEMMA MovesOrStays ==
    ASSUME SerialInv, [Next]_vars
    PROVE  /\ UNCHANGED kind
           /\ UNCHANGED statusVars \/ \E a \in Appeals, newState \in Status : MovesTo(a, newState)
<1> USE DEF eventVars
<1>1. ASSUME NEW k \in Calls, Advance(k) \/ RollBack(k)
      PROVE  UNCHANGED kind /\ MovesTo(call[k].appeal, call[k].newState)
                /\ call[k].appeal \in Appeals /\ call[k].newState \in Status
  <2>1. call[k] \in CallRecord /\ call[k].appeal \in Appeals /\ call[k].newState \in Status
    BY DEF SerialInv, RowsInv, TypeOK, CallRecord
  <2>2. call[k].step = "write"
    BY <1>1 DEF Advance, RollBack
  <2>3. Decided(currentStatus[call[k].appeal], call[k].appeal, call[k].newState, call[k].passed)
    BY <2>2 DEF SerialInv, WriteIsDecided
  <2> QED BY <1>1, <2>1, <2>3 DEF Advance, RollBack, MovesTo, Decided
<1>2. CASE \E k \in Calls : Advance(k) \/ RollBack(k)
  BY <1>1, <1>2
<1>3. CASE ~\E k \in Calls : Advance(k) \/ RollBack(k)
  BY <1>3 DEF Next, Working, Step, Invoke, ReadAppeal, RollBackThrows, ReadProofs, ReadForList,
     WriteList, WriteChildren, Crash, Environment, SetUpEvent, DropEvent, TimePasses,
     ReviewProofs, vars, statusVars
<1> QED BY <1>2, <1>3

\* With one call for an appeal at a time, a case never leaves a final status.
THEOREM FinalCorrect == ASSUME Serialised PROVE Spec => FinalStays
<1> DEFINE Stays == \A a \in Appeals :
                       currentStatus[a] \in FinalStatus => currentStatus'[a] = currentStatus[a]
<1>1. SerialInv /\ [Next]_vars => [Stays]_vars
  <2> SUFFICES ASSUME SerialInv, [Next]_vars, NEW b \in Appeals, currentStatus[b] \in FinalStatus
               PROVE  currentStatus'[b] = currentStatus[b]
    OBVIOUS
  <2>1. CASE UNCHANGED statusVars
    BY <2>1 DEF statusVars
  <2>2. ASSUME NEW a \in Appeals, NEW newState \in Status, MovesTo(a, newState)
        PROVE  currentStatus'[b] = currentStatus[b]
    <3>1. currentStatus[a] \notin FinalStatus
      BY <2>2, FinalStatusIsLast DEF MovesTo, NextStatusOf
    <3> QED BY <2>2, <3>1 DEF MovesTo, SerialInv, RowsInv, TypeOK
  <2> QED BY <2>1, <2>2, MovesOrStays
<1> QED BY <1>1, SerialInit, SerialNext, PTL DEF Spec, FinalStays

-----------------------------------------------------------------------------
(* The history is a path of the chart without a status twice.              *)

PathInv == StatusRecordedOnce /\ HistoryIsChartPath

\* The history a run starts with is a path of the chart, without repetition.
LEMMA PathInit == Init => PathInv
<1> SUFFICES ASSUME Init, NEW a \in Appeals
             PROVE  /\ StatusesDistinct(history[a])
                    /\ FollowsChart(kind[a].type, kind[a].procedure, history[a])
  BY DEF PathInv, StatusRecordedOnce, HistoryIsChartPath
<1>1. /\ kind[a] \in Kinds
      /\ DOMAIN history[a] = DOMAIN StartPath
      /\ \A i \in DOMAIN StartPath : history[a][i].status = StartPath[i]
  BY AppealsAssumption DEF Init, CaseInit, StartHistory
<1>2. StatusesDistinct(history[a])
  BY <1>1, AppealsAssumption DEF StatusesDistinct
<1>3. \A i \in DOMAIN StartPath : i > 1 => i - 1 \in DOMAIN StartPath
  BY AppealsAssumption
<1>4. FollowsChart(kind[a].type, kind[a].procedure, history[a])
  BY <1>1, <1>3, AppealsAssumption DEF FollowsChart
<1> QED BY <1>2, <1>4

\* Moving an appeal, by a new row or by rolling back, keeps its history a path
\* without repetition.
LEMMA PathMoves ==
    ASSUME SerialInv, PathInv, UNCHANGED kind,
           NEW a \in Appeals, NEW newState \in Status, MovesTo(a, newState)
    PROVE  PathInv'
<1> DEFINE h == history[a]
           n == Len(h)
<1>1. /\ h \in Seq(StatusRow) /\ OnlyLastRowValid(h) /\ n \in Nat \ {0}
      /\ h[n].status = currentStatus[a] /\ currentStatus[a] \in Status
      /\ DOMAIN h = 1..n
  BY DEF SerialInv, RowsInv, TypeOK, LastRowIsCurrent, OnlyLastRowValid
<1>2. StatusesDistinct(h) /\ FollowsChart(kind[a].type, kind[a].procedure, h)
  BY DEF PathInv, StatusRecordedOnce, HistoryIsChartPath
<1>3. \A b \in Appeals \ {a} : history'[b] = history[b]
  BY DEF MovesTo, SerialInv, RowsInv, TypeOK
<1>4. IsArc(kind[a].type, kind[a].procedure, h[n].status, newState)
  BY <1>1, NextStatusIsArc DEF MovesTo, NextStatusOf
<1>5. ASSUME RowsWith(h, newState) = {}, history'[a] = SetStatus(h, newState)
      PROVE  /\ StatusesDistinct(history'[a])
             /\ FollowsChart(kind[a].type, kind[a].procedure, history'[a])
  <2> DEFINE g == SetStatus(h, newState)
  <2>1. /\ g \in Seq(StatusRow) /\ Len(g) = n + 1 /\ DOMAIN g = 1..(n + 1)
        /\ g[n + 1].status = newState
        /\ \A i \in 1..n : g[i].status = h[i].status
    <3>1. /\ g \in Seq(StatusRow) /\ Len(g) = n + 1 /\ g[n + 1].status = newState
          /\ \A i \in DOMAIN h : g[i].status = h[i].status
      BY <1>1, SetStatusFacts
    <3> HIDE DEF g, h, n
    <3> QED BY <1>1, <3>1
  <2>2. \A i \in 1..n : h[i].status # newState
    BY <1>1, <1>5 DEF RowsWith
  <2> HIDE DEF g, h, n
  <2>3. StatusesDistinct(g)
    BY <1>1, <1>2, <2>1, <2>2 DEF StatusesDistinct
  <2>4. FollowsChart(kind[a].type, kind[a].procedure, g)
    <3> SUFFICES ASSUME NEW i \in 1..(n + 1), i > 1
                 PROVE  IsArc(kind[a].type, kind[a].procedure, g[i - 1].status, g[i].status)
      BY <2>1 DEF FollowsChart
    <3>1. i - 1 \in 1..n /\ g[i - 1].status = h[i - 1].status
      BY <1>1, <2>1
    <3>2. CASE i = n + 1
      BY <1>1, <1>4, <2>1, <3>1, <3>2
    <3>3. CASE i # n + 1
      <4>1. i \in DOMAIN h /\ g[i].status = h[i].status
        BY <1>1, <2>1, <3>3
      <4>2. IsArc(kind[a].type, kind[a].procedure, h[i - 1].status, h[i].status)
        BY <1>2, <4>1 DEF FollowsChart
      <4> QED BY <3>1, <4>1, <4>2
    <3> QED BY <3>2, <3>3
  <2>5. g = SetStatus(h, newState)
    BY DEF g
  <2> QED BY <1>5, <2>3, <2>4, <2>5
<1>6. ASSUME NEW j \in RowsWith(h, newState), history'[a] = RollBackToRow(h, j)
      PROVE  /\ StatusesDistinct(history'[a])
             /\ FollowsChart(kind[a].type, kind[a].procedure, history'[a])
  <2> DEFINE g == RollBackToRow(h, j)
  <2>1. /\ j \in 1..n /\ g \in Seq(StatusRow) /\ DOMAIN g = 1..j
        /\ \A i \in 1..j : g[i].status = h[i].status
    BY <1>1, RollBackToRowFacts DEF RowsWith
  <2> HIDE DEF g, h, n
  <2>2. StatusesDistinct(g)
    BY <1>1, <1>2, <2>1 DEF StatusesDistinct
  <2>3. FollowsChart(kind[a].type, kind[a].procedure, g)
    <3> SUFFICES ASSUME NEW i \in 1..j, i > 1
                 PROVE  IsArc(kind[a].type, kind[a].procedure, g[i - 1].status, g[i].status)
      BY <2>1 DEF FollowsChart
    <3>1. i \in DOMAIN h /\ g[i].status = h[i].status /\ g[i - 1].status = h[i - 1].status
      BY <1>1, <2>1
    <3>2. IsArc(kind[a].type, kind[a].procedure, h[i - 1].status, h[i].status)
      BY <1>2, <3>1 DEF FollowsChart
    <3> QED BY <3>1, <3>2
  <2>4. g = RollBackToRow(h, j)
    BY DEF g
  <2> QED BY <1>6, <2>2, <2>3, <2>4
<1>7. /\ StatusesDistinct(history'[a])
      /\ FollowsChart(kind[a].type, kind[a].procedure, history'[a])
  BY <1>5, <1>6 DEF MovesTo, SerialInv, RowsInv, TypeOK
<1> QED BY <1>3, <1>7 DEF PathInv, StatusRecordedOnce, HistoryIsChartPath

\* Every step keeps the histories paths without repetition.
LEMMA PathNext == SerialInv /\ PathInv /\ [Next]_vars => PathInv'
<1> SUFFICES ASSUME SerialInv, PathInv, [Next]_vars PROVE PathInv'
  OBVIOUS
<1>1. CASE UNCHANGED statusVars
  BY <1>1, MovesOrStays DEF statusVars, PathInv, StatusRecordedOnce, HistoryIsChartPath
<1>2. CASE \E a \in Appeals, newState \in Status : MovesTo(a, newState)
  BY <1>2, MovesOrStays, PathMoves
<1> QED BY <1>1, <1>2, MovesOrStays

\* With one call for an appeal at a time, no status is recorded twice.
THEOREM RecordedOnce == ASSUME Serialised PROVE Spec => []StatusRecordedOnce
<1>1. PathInv => StatusRecordedOnce
  BY DEF PathInv
<1> QED BY <1>1, SerialInit, SerialNext, PathInit, PathNext, PTL DEF Spec

\* With one call for an appeal at a time, the recorded statuses are a path of the
\* chart for the appeal's type and procedure.
THEOREM PathCorrect == ASSUME Serialised PROVE Spec => []HistoryIsChartPath
<1>1. PathInv => HistoryIsChartPath
  BY DEF PathInv
<1> QED BY <1>1, SerialInit, SerialNext, PathInit, PathNext, PTL DEF Spec

-----------------------------------------------------------------------------
(* transitionState implements CaseStatus.                                  *)

\* The chart that CaseStatus goes by is the chart of transitionState.
LEMMA SameChart ==
    ASSUME NEW type, NEW procedure, NEW elapsed, NEW status, NEW trigger
    PROVE  /\ Abstract!Trigger = Trigger
           /\ Abstract!NextStatus(type, procedure, elapsed, status, trigger)
                 = NextStatus(type, procedure, elapsed, status, trigger)
BY DEF Trigger, OutcomeTrigger, StatusTrigger, NextStatus, FinalStatus, WorkingStatus,
   isAppealTypeAndProcedureTypeValid, isExpeditedAppealType, normaliseProcedureType,
   finalCommentsValidProcedures, isLdcOrDiscontinuanceOrEnforcementCaseType,
   targetStateOnLpaqComplete, targetStateOnStatementsComplete, targetStateOnEventCancelled,
   Abstract!Trigger, Abstract!OutcomeTrigger, Abstract!StatusTrigger, Abstract!NextStatus,
   Abstract!FinalStatus, Abstract!WorkingStatus, Abstract!isAppealTypeAndProcedureTypeValid,
   Abstract!isExpeditedAppealType, Abstract!normaliseProcedureType,
   Abstract!finalCommentsValidProcedures,
   Abstract!isLdcOrDiscontinuanceOrEnforcementCaseType, Abstract!targetStateOnLpaqComplete,
   Abstract!targetStateOnStatementsComplete, Abstract!targetStateOnEventCancelled

\* The path of an appeal after it has moved.
LEMMA PathOfMove ==
    ASSUME SerialInv, NEW a \in Appeals, NEW newState \in Status, MovesTo(a, newState)
    PROVE  /\ Abstract!Current(a) = currentStatus[a]
           /\ Abstract!GoOn(a, newState) \/ Abstract!GoBack(a, newState)
<1> DEFINE h == history[a]
           n == Len(h)
           p == Path[a]
<1>1. /\ h \in Seq(StatusRow) /\ OnlyLastRowValid(h) /\ n \in Nat \ {0} /\ DOMAIN h = 1..n
      /\ h[n].status = currentStatus[a]
  BY DEF SerialInv, RowsInv, TypeOK, LastRowIsCurrent, OnlyLastRowValid
<1>2. /\ p = [i \in 1..n |-> h[i].status] /\ \A i \in 1..n : p[i] = h[i].status
      /\ p \in Seq(Status) /\ Len(p) = n /\ DOMAIN p = 1..n
  <2>1. p = [i \in 1..n |-> h[i].status]
    BY <1>1 DEF Path
  <2>2. \A i \in 1..n : h[i].status \in Status
    <3>1. \A i \in 1..n : h[i] \in StatusRow
      <4> HIDE DEF h, n
      <4> QED BY <1>1
    <3> QED BY <3>1 DEF StatusRow
  <2> HIDE DEF p, h, n
  <2> QED BY <1>1, <2>1, <2>2
<1>3. Abstract!Current(a) = currentStatus[a]
  <2>1. p[Len(p)] = h[n].status
    <3> HIDE DEF p, h, n
    <3> QED BY <1>1, <1>2
  <2> QED BY <1>1, <2>1 DEF Abstract!Current
<1>4. \A b \in Appeals \ {a} : history'[b] = history[b]
  BY DEF MovesTo, SerialInv, RowsInv, TypeOK
<1>5. ASSUME RowsWith(h, newState) = {}, history'[a] = SetStatus(h, newState)
      PROVE  Abstract!GoOn(a, newState)
  <2> DEFINE g == SetStatus(h, newState)
  <2>1. /\ g \in Seq(StatusRow) /\ Len(g) = n + 1 /\ g[n + 1].status = newState
        /\ \A i \in DOMAIN h : g[i].status = h[i].status
    BY <1>1, SetStatusFacts
  <2>2. Append(p, newState) = [i \in 1..(n + 1) |-> g[i].status]
    <3> HIDE DEF g, h, n, p
    <3>1. /\ Append(p, newState) \in Seq(Status) /\ Len(Append(p, newState)) = n + 1
          /\ Append(p, newState)[n + 1] = newState
          /\ \A i \in 1..n : Append(p, newState)[i] = p[i]
      BY <1>1, <1>2
    <3>2. DOMAIN Append(p, newState) = 1..(n + 1)
      BY <3>1
    <3>3. \A i \in 1..(n + 1) : Append(p, newState)[i] = g[i].status
      BY <1>1, <1>2, <2>1, <3>1
    <3>4. Append(p, newState) = [i \in 1..(n + 1) |-> Append(p, newState)[i]]
      BY <1>1, <1>2, <3>2
    <3> QED BY <3>3, <3>4
  <2>3. DOMAIN g = 1..(n + 1)
    <3> HIDE DEF g, h, n
    <3> QED BY <1>1, <2>1
  <2>4. Path'[a] = Append(p, newState)
    BY <1>5, <2>2, <2>3 DEF Path
  <2>5. Path' = [Path EXCEPT ![a] = Append(Path[a], newState)]
    <3>1. \A b \in Appeals \ {a} : Path'[b] = Path[b]
      BY <1>4 DEF Path
    <3> QED BY <2>4, <3>1 DEF Path
  <2>6. \A i \in DOMAIN Path[a] : Path[a][i] # newState
    BY <1>1, <1>2, <1>5 DEF RowsWith
  <2> QED BY <2>5, <2>6 DEF Abstract!GoOn
<1>6. ASSUME NEW j \in RowsWith(h, newState), history'[a] = RollBackToRow(h, j)
      PROVE  Abstract!GoBack(a, newState)
  <2> DEFINE g == RollBackToRow(h, j)
  <2>1. /\ j \in 1..n /\ h[j].status = newState
        /\ g \in Seq(StatusRow) /\ Len(g) = j /\ \A i \in 1..j : g[i].status = h[i].status
    BY <1>1, RollBackToRowFacts DEF RowsWith
  <2>2. DOMAIN g = 1..j /\ \A i \in 1..j : g[i].status = p[i]
    <3> HIDE DEF g, h, n, p
    <3> QED BY <1>1, <1>2, <2>1
  <2>3. Path'[a] = [i \in 1..j |-> Path[a][i]]
    BY <1>6, <2>2 DEF Path
  <2>4. Path' = [Path EXCEPT ![a] = [i \in 1..j |-> Path[a][i]]]
    <3>1. \A b \in Appeals \ {a} : Path'[b] = Path[b]
      BY <1>4 DEF Path
    <3> QED BY <2>3, <3>1 DEF Path
  <2>5. j \in DOMAIN Path[a] /\ Path[a][j] = newState
    BY <1>2, <2>1
  <2> QED BY <2>4, <2>5 DEF Abstract!GoBack
<1> QED BY <1>3, <1>5, <1>6 DEF MovesTo, SerialInv, RowsInv, TypeOK

\* With one call for an appeal at a time, the statuses of an appeal change as
\* CaseStatus says: each write is one transition of the chart from the status the
\* appeal is at, and every other step leaves the path alone.
THEOREM Implements == ASSUME Serialised PROVE Spec => ImplementsCaseStatus
<1>1. Init => Abstract!Init
  <2> SUFFICES ASSUME Init PROVE Abstract!Init
    OBVIOUS
  <2>1. StartPath \in Seq(Status)
    BY AppealsAssumption
  <2>2. \A i \in DOMAIN StartPath : StartHistory[i].status = StartPath[i]
    BY DEF StartHistory
  <2>3. [i \in DOMAIN StartHistory |-> StartHistory[i].status] = StartPath
    BY <2>1, <2>2 DEF StartHistory
  <2> QED BY <2>3 DEF Init, CaseInit, Abstract!Init, Path
<1>2. SerialInv /\ [Next]_vars => [Abstract!Next]_Abstract!vars
  <2> SUFFICES ASSUME SerialInv, [Next]_vars PROVE [Abstract!Next]_Abstract!vars
    OBVIOUS
  <2>1. CASE UNCHANGED statusVars
    BY <2>1, MovesOrStays DEF Abstract!vars, Path, statusVars
  <2>2. ASSUME NEW a \in Appeals, NEW newState \in Status, MovesTo(a, newState)
        PROVE  Abstract!Next
    <3>1. PICK elapsed \in BOOLEAN, trigger \in Trigger :
             newState = NextStatus(kind[a].type, kind[a].procedure, elapsed,
                                   currentStatus[a], trigger)
      BY <2>2 DEF MovesTo, NextStatusOf
    <3>2. newState # currentStatus[a]
      BY <2>2 DEF MovesTo
    <3>3. Abstract!Transition(a)
      <4>1. /\ Abstract!Current(a) = currentStatus[a] /\ UNCHANGED kind
            /\ Abstract!GoOn(a, newState) \/ Abstract!GoBack(a, newState)
        BY <2>2, PathOfMove, MovesOrStays
      <4>2. /\ newState = Abstract!NextStatus(kind[a].type, kind[a].procedure, elapsed,
                                              Abstract!Current(a), trigger)
            /\ trigger \in Abstract!Trigger
        BY <3>1, <4>1, SameChart
      <4> QED BY <3>2, <4>1, <4>2 DEF Abstract!Transition
    <3> QED BY <3>3 DEF Abstract!Next
  <2> QED BY <2>1, <2>2, MovesOrStays
<1> QED BY <1>1, <1>2, SerialInit, SerialNext, PTL DEF Spec, ImplementsCaseStatus, Abstract!Spec

-----------------------------------------------------------------------------
(* The personal list.  What a call works out for the entry of an appeal    *)
(* stands until it has written it, since no other call for the appeal can  *)
(* move it meanwhile.                                                      *)

Listed(a) == personalList[a] \in {NoEntry, currentStatus[LeadOf[a]]}

\* A call about to write entries is for a lead, with the status the lead is at, and
\* those of the children are last.
ListedStands ==
    \A k \in Calls :
        /\ call[k].step \in {"writeList", "writeChildren"} =>
              /\ LeadOf[call[k].appeal] = call[k].appeal
              /\ call[k].listed = currentStatus[call[k].appeal]
        /\ call[k].step = "writeChildren" => Listed(call[k].appeal)

ListedInv == SerialInv /\ ListedIsCurrent /\ ListedStands

\* The entries a run starts with are those of the status it starts from.
LEMMA ListedInit == Init => ListedInv
<1> SUFFICES ASSUME Init PROVE ListedIsCurrent /\ ListedStands
  BY SerialInit DEF ListedInv
<1>1. ListedIsCurrent
  BY AppealsAssumption DEF Init, CaseInit, ListedIsCurrent
<1>2. ListedStands
  BY IdleFacts DEF Init, CaseInit, ListedStands
<1> QED BY <1>1, <1>2

\* A step of a call changes the status of its own appeal and entries of its own
\* group: it is enough that it leaves them current when it ends, and that what it is
\* about to write, if it is a lead's, is current.
LEMMA ListedCallStep ==
    ASSUME ListedInv, NEW k \in Calls, InProgress(k),
           NEW b \in Appeals, b = call[k].appeal,
           NEW c \in CallRecord, call' = [call EXCEPT ![k] = c],
           c.step # "idle" => c.appeal = b,
           \A a \in Appeals \ {b} : currentStatus'[a] = currentStatus[a],
           \A a \in Appeals : LeadOf[a] # b => personalList'[a] = personalList[a],
           c.step = "idle" => \A a \in Appeals : LeadOf[a] = b => Listed(a)',
           c.step \in {"writeList", "writeChildren"} =>
              LeadOf[b] = b /\ c.listed = currentStatus'[b],
           c.step = "writeChildren" => Listed(b)'
    PROVE  ListedIsCurrent' /\ ListedStands'
<1>1. /\ call'[k] = c /\ \A j \in Calls \ {k} : call'[j] = call[j]
      /\ \A j \in Calls : call[j] \in CallRecord /\ call[j].appeal \in Appeals
      /\ \A a \in Appeals : LeadOf[a] \in Appeals
  BY AppealsAssumption DEF ListedInv, SerialInv, RowsInv, TypeOK, CallRecord
<1>2. ListedIsCurrent'
  <2> SUFFICES ASSUME NEW a \in Appeals,
                      \A j \in Calls : InProgress(j)' => call'[j].appeal # LeadOf[a]
               PROVE  Listed(a)'
    BY DEF ListedIsCurrent, Listed
  <2>1. CASE LeadOf[a] = call[k].appeal
    BY <1>1, <2>1 DEF InProgress
  <2>2. CASE LeadOf[a] # call[k].appeal
    <3>1. \A j \in Calls : InProgress(j) => call[j].appeal # LeadOf[a]
      BY <1>1, <2>2 DEF InProgress
    <3>2. Listed(a)
      BY <3>1 DEF ListedInv, ListedIsCurrent, Listed
    <3> QED BY <1>1, <2>2, <3>2 DEF Listed
  <2> QED BY <2>1, <2>2
<1>3. ListedStands'
  <2> SUFFICES ASSUME NEW j \in Calls, call'[j].step \in {"writeList", "writeChildren"}
               PROVE  /\ LeadOf[call'[j].appeal] = call'[j].appeal
                      /\ call'[j].listed = currentStatus'[call'[j].appeal]
                      /\ call'[j].step = "writeChildren" =>
                            personalList'[call'[j].appeal]
                               \in {NoEntry, currentStatus'[LeadOf[call'[j].appeal]]}
    BY DEF ListedStands, Listed
  <2>1. CASE j = k
    BY <1>1, <2>1 DEF Listed
  <2>2. CASE j # k
    <3>1. call'[j] = call[j] /\ call[j].appeal # call[k].appeal
      BY <1>1, <2>2 DEF ListedInv, SerialInv, OneCallEach, InProgress
    <3> QED BY <1>1, <3>1 DEF ListedInv, ListedStands, Listed
  <2> QED BY <2>1, <2>2
<1> QED BY <1>2, <1>3

\* Each step of a call, the throw of rollBackAppealStatusTo aside.
LEMMA ListedStep ==
    ASSUME ListedInv, NEW k \in Calls, Step(k)
    PROVE  ListedIsCurrent' /\ ListedStands'
<1> USE DEF statusVars, eventVars
<1> DEFINE c == call[k]
<1>0. PICK b \in Appeals : b = c.appeal
  BY DEF ListedInv, SerialInv, RowsInv, TypeOK, CallRecord
<1>1. /\ c \in CallRecord /\ InProgress(k) /\ c.appeal = b
      /\ RowsInv /\ TypeOK /\ currentStatus[b] \in Status
  BY <1>0, StepStays DEF ListedInv, SerialInv, RowsInv, TypeOK, CallRecord
<1>2. CASE ReadAppeal(k) \/ Advance(k) \/ RollBack(k) \/ ReadProofs(k)
  <2>1. /\ UNCHANGED personalList
        /\ call'[k].step \in {"read", "write", "proofs", "readList"}
        /\ \A a \in Appeals \ {b} : currentStatus'[a] = currentStatus[a]
    <3>1. CASE ReadAppeal(k)
      BY <1>1, <3>1, UpdatingListFacts DEF ReadAppeal, TypeOK, CallRecord
    <3>2. CASE Advance(k) \/ RollBack(k)
      BY <1>1, <3>2, AfterWriteFacts DEF Advance, RollBack, TypeOK
    <3>3. CASE ReadProofs(k)
      BY <1>1, <3>3, CallingCompleteFacts, UpdatingListFacts DEF ReadProofs, TypeOK
    <3> QED BY <1>2, <3>1, <3>2, <3>3
  <2>2. /\ call' = [call EXCEPT ![k] = call'[k]] /\ call'[k] \in CallRecord
        /\ call'[k].appeal = b
    <3>1. RowsInv'
      BY <1>1, RowsNext DEF Next, Working
    <3>2. /\ DOMAIN call = Calls /\ call' \in [Calls -> CallRecord]
          /\ call = [j \in Calls |-> call[j]] /\ call' = [j \in Calls |-> call'[j]]
      BY <1>1, <3>1 DEF RowsInv, TypeOK
    <3> QED BY <1>1, <2>1, <3>2, StepStays
  <2> QED BY <1>1, <2>1, <2>2, ListedCallStep
<1>3. CASE RollBackThrows(k)
  <2>1. RowsWith(history[b], c.newState) # {}
    BY <1>1, <1>3 DEF RollBackThrows, ListedInv, SerialInv, WriteIsDecided, Decided
  <2> QED BY <1>1, <1>3, <2>1 DEF RollBackThrows
<1>4. CASE ReadForList(k)
  <2>1. CASE LeadOf[b] # b
    <3>1. \A a \in Appeals : LeadOf[a] # b
      BY <1>1, <2>1, AppealsAssumption
    <3> QED BY <1>1, <1>4, <2>1, <3>1, ReturnFacts, ListedCallStep DEF ReadForList
  <2>2. CASE LeadOf[b] = b
    <3> DEFINE d == [UpdatingList(c) EXCEPT !.step = "writeList",
                                            !.listed = currentStatus[b]]
    <3>1. /\ d \in CallRecord /\ d.step = "writeList" /\ d.appeal = b
          /\ d.listed = currentStatus[b]
      <4>1. UpdatingList(c) \in CallRecord /\ UpdatingList(c).appeal = b
            /\ "writeList" \in CallStep
        BY <1>1, UpdatingListFacts DEF CallStep
      <4> QED BY <1>1, <4>1 DEF CallRecord
    <3>2. call' = [call EXCEPT ![k] = d]
      BY <1>1, <1>4, <2>2 DEF ReadForList
    <3>3. UNCHANGED <<currentStatus, personalList>>
      BY <1>4 DEF ReadForList
    <3> HIDE DEF d
    <3> QED BY <1>1, <2>2, <3>1, <3>2, <3>3, ListedCallStep
  <2> QED BY <2>1, <2>2
<1>5. CASE WriteList(k)
  <2>1. /\ LeadOf[b] = b /\ c.listed = currentStatus[b]
        /\ personalList' = [personalList EXCEPT ![b] = c.listed]
        /\ UNCHANGED currentStatus
    BY <1>1, <1>5 DEF WriteList, ListedInv, ListedStands
  <2>2. /\ Listed(b)'
        /\ \A a \in Appeals : a # b => personalList'[a] = personalList[a]
    BY <1>1, <2>1 DEF TypeOK, Listed
  <2>3. CASE Children(b) = {}
    <3>1. \A a \in Appeals : LeadOf[a] = b => a = b
      BY <2>3 DEF Children
    <3>2. call' = [call EXCEPT ![k] = Return(c)] /\ Return(c).step \in {"idle", "readList"}
      BY <1>1, <1>5, <2>3, ReturnFacts DEF WriteList
    <3>3. \A a \in Appeals : LeadOf[a] = b => Listed(a)'
      BY <2>2, <3>1 DEF Listed
    <3> QED BY <1>1, <2>1, <2>2, <3>2, <3>3, ReturnFacts, ListedCallStep
  <2>4. CASE Children(b) # {}
    <3> DEFINE d == [c EXCEPT !.step = "writeChildren"]
    <3>1. /\ d \in CallRecord /\ d.step = "writeChildren" /\ d.appeal = b
          /\ d.listed = c.listed
      BY <1>1 DEF CallRecord, CallStep
    <3>2. call' = [call EXCEPT ![k] = d]
      BY <1>1, <1>5, <2>4 DEF WriteList
    <3> HIDE DEF d
    <3> QED BY <1>1, <2>1, <2>2, <3>1, <3>2, ListedCallStep
  <2> QED BY <2>3, <2>4
<1>6. CASE WriteChildren(k)
  <2>1. /\ LeadOf[b] = b /\ c.listed = currentStatus[b]
        /\ Listed(b) /\ UNCHANGED currentStatus
    BY <1>1, <1>6 DEF WriteChildren, ListedInv, ListedStands
  <2>2. ASSUME NEW a \in Appeals, LeadOf[a] = b PROVE Listed(a)'
    BY <1>1, <1>6, <2>1, <2>2 DEF WriteChildren, Children, Listed
  <2>3. \A a \in Appeals : LeadOf[a] # b => personalList'[a] = personalList[a]
    BY <1>1, <1>6 DEF WriteChildren, Children
  <2> QED BY <1>1, <1>6, <2>1, <2>2, <2>3, ReturnFacts, ListedCallStep DEF WriteChildren
<1> QED BY <1>2, <1>3, <1>4, <1>5, <1>6 DEF Step

\* Every step keeps it while calls are serialised and none is cut short.
LEMMA ListedNext == Serialised /\ ListedInv /\ [Working]_vars => ListedInv'
<1> SUFFICES ASSUME Serialised, ListedInv, [Working]_vars PROVE ListedInv'
  OBVIOUS
<1>1. SerialInv'
  BY SerialNext DEF ListedInv, Next
<1>2. ASSUME NEW k \in Calls, NEW a \in Appeals, NEW trigger \in Triggers, Invoke(k, a, trigger)
      PROVE  ListedIsCurrent' /\ ListedStands'
  <2>1. /\ call'[k].step = "read" /\ \A j \in Calls \ {k} : call'[j] = call[j]
        /\ call[k].step = "idle" /\ UNCHANGED <<currentStatus, personalList>>
    BY <1>2, IdleFacts DEF Invoke, ListedInv, SerialInv, RowsInv, TypeOK, CallRecord, statusVars,
       InProgress
  <2>2. \A j \in Calls : InProgress(j) => InProgress(j)' /\ call'[j] = call[j]
    BY <2>1 DEF InProgress
  <2> QED BY <2>1, <2>2 DEF ListedInv, ListedIsCurrent, ListedStands, Listed
<1>3. CASE \E k \in Calls : Step(k)
  <2>1. PICK k \in Calls : Step(k)
    BY <1>3
  <2> QED BY <1>1, <2>1, ListedStep DEF ListedInv
<1>4. CASE (\E a \in Appeals : Environment(a)) \/ UNCHANGED vars
  <2>1. UNCHANGED <<currentStatus, personalList, call>>
    BY <1>4 DEF Environment, SetUpEvent, DropEvent, TimePasses, ReviewProofs, statusVars, vars
  <2> QED BY <1>1, <2>1 DEF ListedInv, ListedIsCurrent, ListedStands, Listed, InProgress
<1> QED BY <1>1, <1>2, <1>3, <1>4 DEF Working, ListedInv

\* With one call for an appeal at a time and none cut short, an entry of the personal
\* list is out of date only while a call for the lead of its appeal is in progress.
THEOREM ListedCorrect == ASSUME Serialised PROVE SteadySpec => []ListedIsCurrent
<1>1. ListedInv => ListedIsCurrent
  BY DEF ListedInv
<1> QED BY <1>1, ListedInit, ListedNext, PTL DEF SteadySpec
=============================================================================
