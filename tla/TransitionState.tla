-------------------------- MODULE TransitionState ---------------------------
(***************************************************************************)
(* transitionState: the function by which endpoints and the completed      *)
(* events job move an appeal along the state chart.  What is said here is  *)
(* said of its calls: rollBackAppealStatus, an endpoint of its own, takes  *)
(* an appeal back to a recorded status without it.                         *)
(*                                                                         *)
(* It is not a transaction.  A call reads the appeal, runs the chart on    *)
(* what it read, writes the status in a transaction of its own and may     *)
(* then call itself to carry the case on; at last it reads the appeal      *)
(* again to recompute its personal list entry.  Each awaited step is one   *)
(* action here, so calls for one appeal interleave between the steps, and  *)
(* a call can stop at any of them.                                         *)
(***************************************************************************)
EXTENDS StatusHistory

CONSTANTS
    Appeals,        \* the appeals
    LeadOf,         \* the lead of the group an appeal is linked in, or itself
    Calls,          \* slots for calls of transitionState in progress
    Kinds,          \* the kinds of appeal: a type key and a procedure key
    StartPath,      \* the statuses an appeal has been through when the model starts
    Triggers,       \* the triggers callers send
    Events,         \* the events that are set up
    Serialised,     \* TRUE: an appeal has one call in progress at a time
    MaxRows,        \* bound of a run: rows of a history
    NoEntry         \* an appeal without a personal list entry

ASSUME AppealsAssumption ==
    /\ Appeals # {}
    /\ LeadOf \in [Appeals -> Appeals]
    /\ \A a \in Appeals : LeadOf[LeadOf[a]] = LeadOf[a]
    /\ Kinds \subseteq [type : AppealType, procedure : ProcedureType]
    /\ StartPath \in Seq(Status) /\ StartPath # << >>
    /\ \A i, j \in DOMAIN StartPath : StartPath[i] = StartPath[j] => i = j
    /\ \A k \in Kinds :
          /\ \A i \in DOMAIN StartPath :
                i > 1 => IsArc(k.type, k.procedure, StartPath[i - 1], StartPath[i])
          /\ isAppealTypeAndProcedureTypeValid(k.type, k.procedure, StartPath[Len(StartPath)])
    /\ Triggers \subseteq Trigger
    /\ Events \subseteq {"unplaced", "arranged"}
    /\ Serialised \in BOOLEAN
    /\ MaxRows \in Nat
    /\ NoEntry \notin Status

VARIABLES
    kind,           \* the type and procedure of each appeal
    history,        \* AppealStatus rows of each appeal
    currentStatus,  \* the appeal's currentStatus column
    event,          \* the appeal's site visit, hearing or inquiry
    past,           \* has the event's end (or the day after its start) gone by?
    proofs,         \* have both proofs of evidence been reviewed?
    personalList,   \* the status each personal list entry was computed from
    call            \* the calls in progress

vars == <<kind, history, currentStatus, event, past, proofs, personalList, call>>
statusVars == <<history, currentStatus>>
eventVars == <<kind, event, past, proofs>>

\* "unplaced" is an event without what makes it complete: the address of a
\* hearing or inquiry, the date of a site visit.
Event == {"none", "unplaced", "arranged"}

CallStep == {"idle", "read", "write", "proofs", "readList", "writeList", "writeChildren"}

\* What a call keeps in its local variables.  outer counts the enclosing
\* calls that wait for this one to return.
CallRecord ==
    [step : CallStep, appeal : Appeals, trigger : Trigger,
     newState : Status, passed : BOOLEAN, arranged : BOOLEAN,
     outer : Nat, listed : Status]

\* A free slot keeps nothing of the call it held.
Idle ==
    [step |-> "idle", appeal |-> CHOOSE a \in Appeals : TRUE, trigger |-> "Valid",
     newState |-> "assign_case_officer", passed |-> FALSE, arranged |-> FALSE,
     outer |-> 0, listed |-> "assign_case_officer"]

InProgress(k) == call[k].step # "idle"

\* What the callers send: Cancel comes from the cancellation of a hearing or
\* an inquiry only.
TriggersFor(a) ==
    {trigger \in Triggers :
        trigger = "Cancel" => kind[a].procedure \in {"hearing", "inquiry"}}

\* Mutant: the child appeals are not loaded.
NoChildren(a) == {}

Children(a) == {b \in Appeals : b # a /\ LeadOf[b] = a}

\* Mutant: withdrawn is handled at the root of the chart, by every state.
NextStatusOrWithdrawn(a, elapsed, status, trigger) ==
    IF trigger = "withdrawn" THEN "withdrawn"
    ELSE NextStatus(kind[a].type, kind[a].procedure, elapsed, status, trigger)

NextStatusOf(a, elapsed, status, trigger) ==
    NextStatus(kind[a].type, kind[a].procedure, elapsed, status, trigger)

\* Mutant: the comparison with the clock is the wrong way round.
eventToCome(a) ==
    /\ ~past[a]
    /\ event[a] # "none"

\* getEventElapsed: a hearing or inquiry only needs its times, a site visit
\* its date.
eventElapsed(a) ==
    /\ past[a]
    /\ event[a] # "none"
    /\ event[a] = "unplaced" => normaliseProcedureType(kind[a].procedure) # "written"

\* Mutant: an address is not asked for.
hasEvent(a) == event[a] # "none"

\* A site visit with a date, a hearing or inquiry with an address.
isArranged(a) == event[a] = "arranged"

-----------------------------------------------------------------------------
TypeOK ==
    /\ kind \in [Appeals -> Kinds]
    /\ history \in [Appeals -> Seq(StatusRow)]
    /\ currentStatus \in [Appeals -> Status]
    /\ event \in [Appeals -> Event]
    /\ past \in [Appeals -> BOOLEAN]
    /\ proofs \in [Appeals -> BOOLEAN]
    /\ personalList \in [Appeals -> Status \union {NoEntry}]
    /\ call \in [Calls -> CallRecord]

StartHistory ==
    [i \in DOMAIN StartPath |-> [status |-> StartPath[i], valid |-> i = Len(StartPath)]]

\* An imported appeal has one row, assign_case_officer, and no entry: it is
\* added when the list is refreshed or the first transition is tried.
CaseInit ==
    /\ kind \in [Appeals -> Kinds]
    /\ history = [a \in Appeals |-> StartHistory]
    /\ currentStatus = [a \in Appeals |-> StartPath[Len(StartPath)]]
    /\ proofs = [a \in Appeals |-> FALSE]
    /\ personalList = [a \in Appeals |-> IF Len(StartPath) = 1 THEN NoEntry
                                         ELSE StartPath[Len(StartPath)]]
    /\ call = [k \in Calls |-> Idle]

Init ==
    /\ CaseInit
    /\ event = [a \in Appeals |-> "none"]
    /\ past = [a \in Appeals |-> FALSE]

-----------------------------------------------------------------------------
(* One call.                                                               *)

\* The call goes on to update the personal list: of what it knew, it needs
\* the appeal only.
UpdatingList(c) == [Idle EXCEPT !.step = "readList", !.appeal = c.appeal, !.outer = c.outer]

\* The call calls transitionState itself, for the same appeal, and waits.
CallingComplete(c) ==
    [Idle EXCEPT !.step = "read", !.appeal = c.appeal, !.trigger = "Complete",
                 !.outer = c.outer + 1]

\* An endpoint or the job calls transitionState(a, trigger).
Invoke(k, a, trigger) ==
    /\ ~InProgress(k)
    /\ trigger \in TriggersFor(a)
    /\ Serialised => \A j \in Calls : InProgress(j) => call[j].appeal # a
    /\ call' = [call EXCEPT ![k] = [Idle EXCEPT !.step = "read", !.appeal = a,
                                                   !.trigger = trigger]]
    /\ UNCHANGED <<statusVars, eventVars, personalList>>

\* getAppealById, then the chart is run on what was read.  When the status
\* would not change only the personal list is left to update.
ReadAppeal(k) ==
    LET a == call[k].appeal
        newState == NextStatusOf(a, eventElapsed(a), currentStatus[a], call[k].trigger)
    IN
    /\ call[k].step = "read"
    /\ IF newState = currentStatus[a]
         THEN call' = [call EXCEPT ![k] = UpdatingList(@)]
         ELSE call' = [call EXCEPT ![k].step = "write",
                                   ![k].newState = newState,
                                   ![k].passed = isStatePassed(history[a], newState),
                                   ![k].arranged = isArranged(a)]
    /\ UNCHANGED <<statusVars, eventVars, personalList>>

\* Where a call goes once the status is written: a case that reaches its
\* event with the event arranged is carried on by a nested call, a case that
\* reaches the evidence stage first has its proofs of evidence read.
AfterWrite(k) ==
    LET c == call[k]
        a == c.appeal
    IN  CASE c.newState = "event" /\ c.arranged -> CallingComplete(c)
          [] /\ c.newState = "evidence"
             /\ ~isExpeditedAppealType(kind[a].type)
             /\ kind[a].procedure = "inquiry" -> [c EXCEPT !.step = "proofs"]
          [] OTHER -> UpdatingList(c)

\* The status is one the appeal had passed when it was read.
RollBack(k) ==
    LET a == call[k].appeal
        newState == call[k].newState
    IN
    /\ call[k].step = "write" /\ call[k].passed
    /\ \E i \in RowsWith(history[a], newState) :
          history' = [history EXCEPT ![a] = RollBackToRow(history[a], i)]
    /\ currentStatus' = [currentStatus EXCEPT ![a] = newState]
    /\ call' = [call EXCEPT ![k] = AfterWrite(k)]
    /\ UNCHANGED <<eventVars, personalList>>

\* The status is new to the appeal.
Advance(k) ==
    LET a == call[k].appeal
        newState == call[k].newState
    IN
    /\ call[k].step = "write" /\ ~call[k].passed
    /\ Len(history[a]) < MaxRows
    /\ history' = [history EXCEPT ![a] = SetStatus(history[a], newState)]
    /\ currentStatus' = [currentStatus EXCEPT ![a] = newState]
    /\ call' = [call EXCEPT ![k] = AfterWrite(k)]
    /\ UNCHANGED <<eventVars, personalList>>

\* The row to roll back to is gone: the error leaves every enclosing call.
RollBackThrows(k) ==
    /\ call[k].step = "write" /\ call[k].passed
    /\ RowsWith(history[call[k].appeal], call[k].newState) = {}
    /\ call' = [call EXCEPT ![k] = Idle]
    /\ UNCHANGED <<statusVars, eventVars, personalList>>

\* Mutant: the call waits until the proofs of evidence are reviewed.
AwaitProofs(k) ==
    LET c == call[k] IN
    /\ c.step = "proofs" /\ proofs[c.appeal]
    /\ call' = [call EXCEPT ![k] = CallingComplete(c)]
    /\ UNCHANGED <<statusVars, eventVars, personalList>>

\* getRepresentations: reviewed proofs carry the case on to its event.
ReadProofs(k) ==
    LET c == call[k] IN
    /\ c.step = "proofs"
    /\ call' = [call EXCEPT ![k] =
                  IF proofs[c.appeal] THEN CallingComplete(c) ELSE UpdatingList(c)]
    /\ UNCHANGED <<statusVars, eventVars, personalList>>

\* Mutant: the outermost call has a caller to return to as well.
ReturnToCaller(c) == UpdatingList([c EXCEPT !.outer = @ - 1])

\* The call returns, to the call that made it if it was nested.
Return(c) == IF c.outer = 0 THEN Idle ELSE UpdatingList([c EXCEPT !.outer = @ - 1])

\* updatePersonalList reads the appeal again.  A linked child has nothing
\* written: its lead's update sets its entry.
ReadForList(k) ==
    LET c == call[k] IN
    /\ c.step = "readList"
    /\ call' = [call EXCEPT ![k] =
                  IF LeadOf[c.appeal] # c.appeal THEN Return(c)
                  ELSE [UpdatingList(c) EXCEPT !.step = "writeList",
                                               !.listed = currentStatus[c.appeal]]]
    /\ UNCHANGED <<statusVars, eventVars, personalList>>

\* The entry of the appeal is upserted as it was worked out ...
WriteList(k) ==
    LET c == call[k] IN
    /\ c.step = "writeList"
    /\ personalList' = [personalList EXCEPT ![c.appeal] = c.listed]
    /\ call' = [call EXCEPT ![k] =
                  IF Children(c.appeal) = {} THEN Return(c)
                  ELSE [c EXCEPT !.step = "writeChildren"]]
    /\ UNCHANGED <<statusVars, eventVars>>

\* ... and those of its children after it.
WriteChildren(k) ==
    LET c == call[k] IN
    /\ c.step = "writeChildren"
    /\ personalList' = [a \in Appeals |->
                          IF a \in Children(c.appeal) THEN c.listed ELSE personalList[a]]
    /\ call' = [call EXCEPT ![k] = Return(c)]
    /\ UNCHANGED <<statusVars, eventVars>>

\* The API process stops, or a query of the call fails.
Crash(k) ==
    /\ InProgress(k)
    /\ call' = [call EXCEPT ![k] = Idle]
    /\ UNCHANGED <<statusVars, eventVars, personalList>>

Step(k) ==
    \/ ReadAppeal(k) \/ RollBack(k) \/ Advance(k) \/ RollBackThrows(k)
    \/ ReadProofs(k) \/ ReadForList(k) \/ WriteList(k) \/ WriteChildren(k)

-----------------------------------------------------------------------------
(* What the rest of the system does to the data a call reads.              *)

\* A site visit, hearing or inquiry is set up or rearranged.  A date that has
\* gone by already, which the back office accepts, is one that goes by next.
SetUpEvent(a) ==
    /\ \E e \in Events : event' = [event EXCEPT ![a] = e]
    /\ past' = [past EXCEPT ![a] = FALSE]
    /\ UNCHANGED <<kind, statusVars, proofs, personalList, call>>

\* It is deleted, or recorded as missed (a missed visit is filtered out of
\* what transitionState reads).
DropEvent(a) ==
    /\ event[a] # "none"
    /\ event' = [event EXCEPT ![a] = "none"]
    /\ past' = [past EXCEPT ![a] = FALSE]
    /\ UNCHANGED <<kind, statusVars, proofs, personalList, call>>

TimePasses(a) ==
    /\ event[a] # "none" /\ ~past[a]
    /\ past' = [past EXCEPT ![a] = TRUE]
    /\ UNCHANGED <<kind, statusVars, event, proofs, personalList, call>>

\* The proofs of evidence of an inquiry are reviewed, or a review is undone.
ReviewProofs(a) ==
    /\ kind[a].procedure = "inquiry"
    /\ proofs' = [proofs EXCEPT ![a] = ~proofs[a]]
    /\ UNCHANGED <<kind, statusVars, event, past, personalList, call>>

Environment(a) == SetUpEvent(a) \/ DropEvent(a) \/ TimePasses(a) \/ ReviewProofs(a)

Working ==
    \/ \E k \in Calls, a \in Appeals, trigger \in Triggers : Invoke(k, a, trigger)
    \/ \E k \in Calls : Step(k)
    \/ \E a \in Appeals : Environment(a)

Next == Working \/ \E k \in Calls : Crash(k)

Spec == Init /\ [][Next]_vars

\* No process stops and no query fails.
SteadySpec == Init /\ [][Working]_vars

\* A call that is not cut short runs on: node schedules its continuation when
\* the query it awaits returns.
FairSpec == Spec /\ \A k \in Calls : WF_vars(Step(k))

-----------------------------------------------------------------------------
(* What holds whatever calls overlap, stop or fail.                        *)

\* The two ways the database records an appeal's status never disagree: one
\* AppealStatus row is valid, it is the latest, and it has the status of the
\* currentStatus column (updateAppealStatusByAppealId, rollBackAppealStatusTo).
LastRowIsCurrent ==
    \A a \in Appeals :
        /\ OnlyLastRowValid(history[a])
        /\ history[a][Len(history[a])].status = currentStatus[a]

\* A case is never at a representation stage that does not exist for its type
\* and procedure, where the chart refuses to complete the stage, withdraw,
\* close or transfer the case (isAppealTypeAndProcedureTypeValid).
StageIsForCase ==
    \A a \in Appeals :
        isAppealTypeAndProcedureTypeValid(kind[a].type, kind[a].procedure, currentStatus[a])

-----------------------------------------------------------------------------
(* What holds when an appeal has one call in progress at a time, though    *)
(* events are set up and reviews made between any two of its steps.        *)

\* A status the case comes back to is rolled back to, never recorded twice,
\* so the row that rollBackAppealStatusTo finds is the only one there is.
StatusRecordedOnce ==
    \A a \in Appeals : StatusesDistinct(history[a])

\* The completed stages and the current one are a path of the chart: no stage
\* the chart requires is missing between two recorded ones.
HistoryIsChartPath ==
    \A a \in Appeals : FollowsChart(kind[a].type, kind[a].procedure, history[a])

\* The row a call decided to roll back to is there when it comes to do it:
\* "Appeal status ... not found" is never thrown.
RollBackFindsRow ==
    \A k \in Calls :
        call[k].step = "write" /\ call[k].passed =>
            RowsWith(history[call[k].appeal], call[k].newState) # {}

\* A case that is closed, withdrawn, transferred, invalid or complete stays
\* so (the states of type STATE_TYPE_FINAL).
FinalStays ==
    [][\A a \in Appeals :
          currentStatus[a] \in FinalStatus => currentStatus'[a] = currentStatus[a]]_vars

\* While no call for its lead is in progress, an appeal's entry in the personal
\* list has been worked out from the status its lead is at: updatePersonalList
\* runs on every way out of transitionState that does not throw, and gives the
\* children of a lead the lead's entry.
ListedIsCurrent ==
    \A a \in Appeals :
        (\A k \in Calls : InProgress(k) => call[k].appeal # LeadOf[a]) =>
            personalList[a] \in {NoEntry, currentStatus[LeadOf[a]]}

\* A call comes to an end: it calls itself at most twice, as far as from the
\* evidence stage through the event to awaiting the event.
CallEnds == \A k \in Calls : InProgress(k) ~> ~InProgress(k)

\* Seen from its path of statuses alone, the appeal moves as CaseStatus says:
\* what a call decided from its snapshot is still the chart's answer when it
\* writes.
Path == [a \in Appeals |-> [i \in DOMAIN history[a] |-> history[a][i].status]]
Abstract == INSTANCE CaseStatus WITH path <- Path
ImplementsCaseStatus == Abstract!Spec
=============================================================================
