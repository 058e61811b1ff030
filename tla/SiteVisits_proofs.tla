-------------------------- MODULE SiteVisits_proofs --------------------------
(***************************************************************************)
(* Proofs about site visits, for any groups, number of requests and number *)
(* of mishaps.  Types, rows and stages are right however requests overlap; *)
(* the children are first, and groups together, when they come in one at a *)
(* time.                                                                   *)
(***************************************************************************)
EXTENDS SiteVisits, GroupMove_proofs

VisitInv == GroupInv /\ VisitTypeOK

\* Before the first request there is no visit.
LEMMA VisitStart == VisitInit => VisitInv
<1> SUFFICES ASSUME VisitInit PROVE VisitInv
  OBVIOUS
<1>1. RowsInv
  BY RowsInit DEF VisitInit
<1>2. request \in [Requests -> Request] /\ mishaps \in 0..MaxMishaps
  BY NoRequestFacts, GroupAssumption DEF VisitInit, NoRequests
<1>3. missed \in [Appeals -> Event]
  BY DEF VisitInit, Event
<1> QED BY <1>1, <1>2, <1>3 DEF VisitInv, GroupInv, GroupTypeOK, RowsInv, VisitTypeOK

\* What a visit is after it is saved.
LEMMA VisitValues ==
    ASSUME NEW visit \in Event, NEW date \in BOOLEAN
    PROVE  Updated(visit, date) \in Event /\ New(date) \in Event /\ "none" \in Event
BY DEF Updated, New, Event

\* A request that sends nothing frees its slot, any other goes on with a trigger.
LEMMA SavedFacts ==
    ASSUME GroupInv, NEW r \in Requests, Saved(r)
    PROVE  /\ request' \in [Requests -> Request]
           /\ \A q \in Requests : q # r => request'[q] = request[q]
           /\ request'[r].trigger \in {"Complete", "Incomplete"}
<1> DEFINE q == request[r]
           next == [q EXCEPT !.step = "saved", !.trigger = TriggerOf(q)]
<1>1. q \in Request /\ request \in [Requests -> Request]
  BY DEF GroupInv, GroupTypeOK
<1>2. TriggerOf(q) \in {"Complete", "Incomplete"} /\ TriggerOf(q) \in Trigger
      /\ "saved" \in RequestStep
  BY DEF TriggerOf, Trigger, OutcomeTrigger, RequestStep
<1>3. next \in Request /\ next.trigger = TriggerOf(q)
  BY <1>1, <1>2 DEF Request
<1>4. request' = [request EXCEPT ![r] = next] \/ request' = [request EXCEPT ![r] = NoRequest]
  BY DEF Saved
<1> QED
  <2> HIDE DEF next
  <2> QED BY <1>1, <1>2, <1>3, <1>4, NoRequestFacts

\* A step that saves visits changes the visits and the entries of the personal
\* list, and leaves a request in the slot.
LEMMA VisitsChanged ==
    ASSUME VisitInv, UNCHANGED <<kind, statusVars, proofs, call>>,
           event' \in [Appeals -> Event], missed' \in [Appeals -> Event],
           past' \in [Appeals -> BOOLEAN],
           personalList' \in [Appeals -> Status \union {NoEntry}],
           request' \in [Requests -> Request], mishaps' \in 0..MaxMishaps
    PROVE  VisitInv'
<1>1. TypeOK'
  BY DEF VisitInv, GroupInv, RowsInv, TypeOK, statusVars
<1> QED BY <1>1, RowsUntouched DEF VisitInv, VisitTypeOK, GroupInv, RowsInv, GroupTypeOK

\* A step that leaves the missed visits alone keeps their type.
LEMMA MissedUntouched == VisitInv /\ GroupInv' /\ UNCHANGED missed => VisitInv'
BY DEF VisitInv, VisitTypeOK, GroupInv

\* The types a step that saves visits finds.
LEMMA VisitTypes ==
    ASSUME VisitInv
    PROVE  /\ event \in [Appeals -> Event] /\ missed \in [Appeals -> Event]
           /\ past \in [Appeals -> BOOLEAN] /\ mishaps \in 0..MaxMishaps
           /\ personalList \in [Appeals -> Status \union {NoEntry}]
           /\ currentStatus \in [Appeals -> Status]
           /\ request \in [Requests -> Request]
           /\ \A r \in Requests : request[r].appeal \in Appeals /\ request[r].date \in BOOLEAN
BY DEF VisitInv, VisitTypeOK, GroupInv, GroupTypeOK, TypeOK, Request

\* Reading and creating visits keeps the types.
LEMMA VisitCreates ==
    ASSUME VisitInv, NEW r \in Requests,
           ReadMissed(r) \/ CreateVisit(r) \/ CreateForChildren(r)
    PROVE  VisitInv'
<1> DEFINE q == request[r]
<1> USE VisitTypes
<1>1. CASE ReadMissed(r)
  <2>0. q \in Request
    OBVIOUS
  <2>1. [q EXCEPT !.step = "checked",
                  !.purpose = IF missed[q.appeal] # "none" THEN "rearrangeMissed" ELSE "post"]
           \in Request
    <3> HIDE VisitTypes DEF q
    <3> QED BY <2>0 DEF Request, RequestStep, Purpose
  <2>2. request' \in [Requests -> Request]
    BY <1>1, <2>1 DEF ReadMissed
  <2>3. UNCHANGED <<kind, statusVars, event, past, proofs, personalList, call, mishaps, missed>>
    BY <1>1 DEF ReadMissed, vars, statusVars
  <2> QED BY <2>2, <2>3, VisitsChanged
<1>2. CASE CreateVisit(r)
  <2>1. "created" \in RequestStep
    BY DEF RequestStep
  <2>2. request' \in [Requests -> Request]
    BY <1>2, <2>1, RequestKept DEF CreateVisit, VisitInv
  <2>3. event' \in [Appeals -> Event] /\ past' \in [Appeals -> BOOLEAN]
    BY <1>2 DEF CreateVisit, New, Event
  <2> QED BY <1>2, <2>2, <2>3, VisitsChanged DEF CreateVisit
<1>3. CASE CreateForChildren(r)
  <2>1. request' \in [Requests -> Request]
    BY <1>3, SavedFacts, RequestKept DEF CreateForChildren, VisitInv
  <2>2. event' \in [Appeals -> Event] /\ past' \in [Appeals -> BOOLEAN]
    BY <1>3 DEF CreateForChildren, New, Event
  <2> QED BY <1>3, <2>1, <2>2, VisitsChanged DEF CreateForChildren
<1> QED BY <1>1, <1>2, <1>3

\* So does updating, deleting or missing the visits of a group.
LEMMA VisitUpdates ==
    ASSUME VisitInv, NEW r \in Requests,
           UpdateVisits(r) \/ UpdateMissed(r) \/ DeleteVisits(r) \/ RecordMissed(r)
    PROVE  VisitInv'
<1> DEFINE q == request[r]
<1> USE VisitTypes
<1>1. request' \in [Requests -> Request]
  BY SavedFacts DEF UpdateVisits, UpdateMissed, DeleteVisits, RecordMissed, VisitInv
<1>2. CASE UpdateVisits(r)
  <2>1. event' \in [Appeals -> Event] /\ missed' \in [Appeals -> Event]
    BY <1>2, VisitValues DEF UpdateVisits
  <2>2. past' \in [Appeals -> BOOLEAN]
    BY <1>2 DEF UpdateVisits, PastUpdated
  <2>3. personalList' \in [Appeals -> Status \union {NoEntry}]
    BY <1>2 DEF UpdateVisits
  <2> QED BY <1>1, <1>2, <2>1, <2>2, <2>3, VisitsChanged DEF UpdateVisits
<1>3. CASE UpdateMissed(r)
  <2>1. event' \in [Appeals -> Event] /\ missed' \in [Appeals -> Event]
    BY <1>3, VisitValues DEF UpdateMissed, Event
  <2>2. past' \in [Appeals -> BOOLEAN]
    BY <1>3 DEF UpdateMissed, PastUpdated
  <2> QED BY <1>1, <1>3, <2>1, <2>2, VisitsChanged DEF UpdateMissed
<1>4. CASE DeleteVisits(r)
  <2>1. /\ event' \in [Appeals -> Event] /\ missed' \in [Appeals -> Event]
        /\ past' \in [Appeals -> BOOLEAN]
    BY <1>4 DEF DeleteVisits, Event
  <2> QED BY <1>1, <1>4, <2>1, VisitsChanged DEF DeleteVisits
<1>5. CASE RecordMissed(r)
  <2>1. event' \in [Appeals -> Event] /\ missed' \in [Appeals -> Event]
    BY <1>5 DEF RecordMissed, Event
  <2> QED BY <1>1, <1>5, <2>1, VisitsChanged DEF RecordMissed
<1> QED BY <1>2, <1>3, <1>4, <1>5

\* Requests come in, and the dates of visits go by.
LEMMA VisitArrivals ==
    ASSUME VisitInv,
           \/ \E r \in Requests, a \in Appeals :
                 \/ LoadPost(r, a) \/ LoadRearrange(r, a) \/ LoadCancel(r, a)
                 \/ LoadMissed(r, a) \/ Publish(r, a)
           \/ RunJob
           \/ \E a \in Leads : VisitsPass(a)
    PROVE  VisitInv'
<1>1. GroupInv
  BY DEF VisitInv
<1>2. {"post", "rearrange", "cancel", "missed"} \subseteq Purpose
  BY DEF Purpose
<1>3. ASSUME NEW r \in Requests, NEW a \in Appeals,
             \/ LoadPost(r, a) \/ LoadRearrange(r, a) \/ LoadCancel(r, a)
             \/ LoadMissed(r, a) \/ Publish(r, a)
      PROVE  VisitInv'
  BY <1>1, <1>2, <1>3, GroupReceives, GroupPublishes, MissedUntouched
     DEF LoadPost, LoadRearrange, LoadCancel, LoadMissed, Publish
<1>4. CASE RunJob
  <2>1. \A today : DueForJob(today) \in SUBSET Appeals
    BY DEF DueForJob
  <2> QED BY <1>1, <1>4, <2>1, GroupJob, MissedUntouched DEF RunJob
<1>5. ASSUME NEW a \in Leads, VisitsPass(a)
      PROVE  VisitInv'
  <2>1. past' \in [Appeals -> BOOLEAN] /\ mishaps' \in 0..MaxMishaps
    BY <1>1, <1>5, VisitTypes, MishapFacts DEF VisitsPass, VisitsPast
  <2> QED BY <1>5, <2>1, VisitTypes, VisitsChanged DEF VisitsPass, VisitsPast
<1> QED BY <1>3, <1>4, <1>5

\* Every step keeps the types and the agreement of rows and column.
LEMMA VisitInvNext == VisitInv /\ [VisitNext]_visitVars => VisitInv'
<1> SUFFICES ASSUME VisitInv, [VisitNext]_visitVars PROVE VisitInv'
  OBVIOUS
<1>1. CASE VisitWorking
  <2>1. ASSUME NEW r \in Requests, VisitStep(r) PROVE VisitInv'
    BY <2>1, VisitCreates, VisitUpdates, GroupMoveStep, MissedUntouched DEF VisitStep, VisitInv
  <2> QED BY <1>1, <2>1, VisitArrivals DEF VisitWorking
<1>2. CASE VisitFailing
  <2>1. CASE \/ \E r \in Requests, a \in Appeals : CallFails(r, a) /\ UNCHANGED missed
             \/ ProcessStops /\ UNCHANGED missed
    BY <2>1, GroupFails, MissedUntouched DEF VisitInv
  <2>2. ASSUME NEW r \in Requests, NotifyFails(r) PROVE VisitInv'
    <3>1. request' \in [Requests -> Request] /\ mishaps' \in 0..MaxMishaps
      BY <2>2, RequestKept, MishapFacts DEF NotifyFails, VisitInv
    <3> QED BY <2>2, <3>1, VisitTypes, VisitsChanged DEF NotifyFails, vars, statusVars
  <2> QED BY <1>2, <2>1, <2>2 DEF VisitFailing
<1>3. CASE UNCHANGED visitVars
  BY <1>3, VisitTypes, VisitsChanged DEF visitVars, vars, groupVars, statusVars
<1> QED BY <1>1, <1>2, <1>3 DEF VisitNext

\* Every variable keeps its type, however requests for site visits, publications
\* and runs of the job overlap or fail.
THEOREM VisitTypeCorrect == VisitSpec => []VisitTypeOK
<1>1. VisitInv => VisitTypeOK
  BY DEF VisitInv
<1> QED BY <1>1, VisitStart, VisitInvNext, PTL DEF VisitSpec

\* The AppealStatus rows and the currentStatus column of an appeal agree while
\* groups are moved, however the calls for a lead and its children overlap, and
\* whichever of them fail.
THEOREM GroupRowsAgree == VisitSpec => []LastRowIsCurrent
<1>1. VisitInv => LastRowIsCurrent
  BY DEF VisitInv, GroupInv, RowsInv
<1> QED BY <1>1, VisitStart, VisitInvNext, PTL DEF VisitSpec

-----------------------------------------------------------------------------
(* The stages of the appeals of a group, whatever overlaps or fails.       *)

VisitStages == VisitInv /\ StageInv /\ OutcomesOnly

\* What a step that saves visits, or comes in, has to leave alone.
LEMMA StagesKept ==
    ASSUME VisitStages, UNCHANGED <<kind, currentStatus, call>>, OutcomesOnly'
    PROVE  StageInv' /\ OutcomesOnly'
BY StageUntouched DEF VisitStages, VisitInv

\* Saving the visits of a group writes no status and tells its request, at most, to
\* send Incomplete.
LEMMA VisitsSaved ==
    ASSUME VisitStages, NEW r \in Requests, VisitStep(r), ~MoveStep(r)
    PROVE  StageInv' /\ OutcomesOnly'
<1> USE DEF VisitStages
<1>1. GroupInv /\ request \in [Requests -> Request]
  BY DEF VisitInv, GroupInv, GroupTypeOK
<1>2. CASE ReadMissed(r)
  <2> DEFINE q == request[r]
             purpose == IF missed[q.appeal] # "none" THEN "rearrangeMissed" ELSE "post"
  <2>1. request' = [request EXCEPT ![r] = [q EXCEPT !.step = "checked", !.purpose = purpose]]
    BY <1>1, <1>2 DEF ReadMissed
  <2>2. [q EXCEPT !.step = "checked", !.purpose = purpose].trigger = q.trigger
    BY <1>1 DEF Request
  <2>3. OutcomesOnly'
    BY <1>1, <2>1, <2>2 DEF OutcomesOnly
  <2> QED BY <1>2, <2>3, StagesKept DEF ReadMissed, vars, statusVars
<1>3. CASE CreateVisit(r)
  <2>1. [request[r] EXCEPT !.step = "created"].trigger = request[r].trigger
    BY <1>1 DEF Request
  <2>2. request' = [request EXCEPT ![r] = NoRequest]
        \/ request' = [request EXCEPT ![r] = [request[r] EXCEPT !.step = "created"]]
    BY <1>1, <1>3 DEF CreateVisit
  <2>3. OutcomesOnly'
    BY <1>1, <2>1, <2>2, NoRequestFacts DEF OutcomesOnly
  <2> QED BY <1>3, <2>3, StagesKept DEF CreateVisit, statusVars
<1>4. CASE CreateForChildren(r) \/ UpdateVisits(r) \/ UpdateMissed(r) \/ DeleteVisits(r)
           \/ RecordMissed(r)
  <2>1. Saved(r) \/ request' = [request EXCEPT ![r] = NoRequest]
    BY <1>4 DEF CreateForChildren, UpdateVisits, UpdateMissed, DeleteVisits, RecordMissed
  <2>2. OutcomesOnly'
    BY <1>1, <2>1, SavedFacts, NoRequestFacts DEF OutcomesOnly
  <2>3. UNCHANGED <<kind, currentStatus, call>>
    BY <1>4 DEF CreateForChildren, UpdateVisits, UpdateMissed, DeleteVisits, RecordMissed,
       statusVars
  <2> QED BY <2>2, <2>3, StagesKept
<1> QED BY <1>2, <1>3, <1>4 DEF VisitStep

\* Every step keeps the appeals of groups, and what calls decide, at stages they have.
LEMMA VisitStagesNext == VisitStages /\ [VisitNext]_visitVars => VisitStages'
<1> SUFFICES ASSUME VisitStages, [VisitNext]_visitVars PROVE StageInv' /\ OutcomesOnly'
  BY VisitInvNext DEF VisitStages
<1>0. VisitInv /\ GroupInv /\ StageInv /\ OutcomesOnly /\ request \in [Requests -> Request]
      /\ {"post", "rearrange", "cancel", "missed"} \subseteq Purpose
  BY DEF VisitStages, VisitInv, GroupInv, GroupTypeOK, Purpose
<1>1. ASSUME NEW r \in Requests, NEW a \in Appeals,
             \/ LoadPost(r, a) \/ LoadRearrange(r, a) \/ LoadCancel(r, a)
             \/ LoadMissed(r, a) \/ Publish(r, a)
      PROVE  StageInv' /\ OutcomesOnly'
  <2>1. LoadPublish(r, a) \/ \E purpose \in Purpose, date \in BOOLEAN : Receive(r, purpose, a, date)
    BY <1>0, <1>1 DEF LoadPost, LoadRearrange, LoadCancel, LoadMissed, Publish
  <2>2. UNCHANGED <<kind, currentStatus, call>>
    BY <2>1 DEF LoadPublish, Receive, vars
  <2> QED BY <1>0, <2>1, <2>2, OutcomesLoaded, StagesKept
<1>2. CASE RunJob
  <2>1. PICK today \in SUBSET Leads : LoadJob(DueForJob(today)) /\ DueForJob(today) \in SUBSET Appeals
    BY <1>2 DEF RunJob, DueForJob
  <2>2. UNCHANGED <<kind, currentStatus, call>>
    BY <2>1 DEF LoadJob, vars
  <2> QED BY <1>0, <2>1, <2>2, OutcomesLoaded, StagesKept
<1>3. ASSUME NEW r \in Requests, VisitStep(r)
      PROVE  StageInv' /\ OutcomesOnly'
  BY <1>0, <1>3, StageMoves, VisitsSaved
<1>4. ASSUME NEW a \in Leads, VisitsPass(a)
      PROVE  StageInv' /\ OutcomesOnly'
  BY <1>0, <1>4, StagesKept DEF VisitsPass, VisitsPast, statusVars, OutcomesOnly
<1>5. CASE VisitFailing
  <2>1. ASSUME NEW r \in Requests, NotifyFails(r) PROVE StageInv' /\ OutcomesOnly'
    <3>1. OutcomesOnly' /\ UNCHANGED <<kind, currentStatus, call>>
      BY <1>0, <2>1, NoRequestFacts DEF NotifyFails, OutcomesOnly, vars
    <3> QED BY <3>1, StagesKept
  <2> QED BY <1>0, <1>5, <2>1, StageFails DEF VisitFailing
<1>6. CASE UNCHANGED visitVars
  BY <1>6, <1>0, StagesKept DEF visitVars, vars, groupVars, OutcomesOnly
<1> QED BY <1>1, <1>2, <1>3, <1>4, <1>5, <1>6 DEF VisitNext, VisitWorking

\* Whatever requests for visits, publications and runs of the job overlap or fail, an
\* appeal of a group is at a stage that its type and procedure have.
THEOREM VisitStageCorrect == VisitSpec => []StageIsForCase
<1>1. VisitInit => VisitStages
  BY VisitStart, StageInit, NoRequestFacts DEF VisitInit, NoRequests, VisitStages, OutcomesOnly
<1>2. VisitStages => StageIsForCase
  BY DEF VisitStages, StageInv, StageIsForCase, HasStage
<1> QED BY <1>1, <1>2, VisitStagesNext, PTL DEF VisitSpec

-----------------------------------------------------------------------------
(* The children are published first.  What carries this through a request, *)
(* its failures included, when requests come in one at a time: how far an  *)
(* appeal is with its publications only grows, a call decides a status     *)
(* that no child is behind, and a lead's call begins when its children are *)
(* ahead of it.  The calls that a failed request leaves behind keep its    *)
(* slot from being free, so that no request comes in beside them.          *)

\* How far an appeal is with the publication of its representations.
Stage(status) ==
    CASE status = "statements"     -> 1
      [] status = "final_comments" -> 2
      [] OTHER                     -> 3

Published(a) == Stage(currentStatus[a]) = 3

\* Past the questionnaire, at a stage there is for the case, and behind no child.
InOrder(a) ==
    /\ currentStatus[a] # "lpa_questionnaire"
    /\ isAppealTypeAndProcedureTypeValid(kind[a].type, kind[a].procedure, currentStatus[a])
    /\ Stage(currentStatus[LeadOf[a]]) <= Stage(currentStatus[a])

Ahead(b, a) == Stage(currentStatus[a]) < Stage(currentStatus[b])

\* What a call of a request knows when it reads its appeal, and when it writes.
CallForward(r, a) ==
    LET c == call[<<r, a>>] IN
    InProgress(<<r, a>>) =>
    /\ c.appeal = a /\ c.step # "proofs"
    /\ c.step = "read" =>
          /\ c.trigger \in {"Complete", "Incomplete"}
          /\ c.trigger = "Complete" /\ ~Published(a) => \A b \in Children(a) : Ahead(b, a)
    /\ c.step = "write" =>
          /\ c.newState # "lpa_questionnaire"
          /\ isAppealTypeAndProcedureTypeValid(kind[a].type, kind[a].procedure, c.newState)
          /\ Stage(currentStatus[a]) <= Stage(c.newState)
          /\ \A b \in Children(a) : Stage(c.newState) <= Stage(currentStatus[b])

\* The call of r for b is about to take b ahead of its lead a.
TakesAhead(r, b, a) ==
    LET c == call[<<r, b>>] IN
    /\ b \in request[r].followers
    /\ \/ c.step = "read" /\ c.trigger = "Complete"
       \/ c.step = "write" /\ Stage(currentStatus[a]) < Stage(c.newState)

\* The children a request does not move are ahead of the lead, those it moves are
\* being taken ahead, and the lead is left to the end.
Leading(r) ==
    LET q == request[r]
        a == q.appeal
    IN  Busy(r) =>
    /\ q.followers \subseteq Children(a) /\ q.trigger \in {"Complete", "Incomplete"}
    /\ q.step # "lead" => ~InProgress(<<r, a>>)
    /\ ~Published(a) /\ q.step \notin {"children", "lead"} =>
          \A b \in Children(a) \ q.followers : Ahead(b, a)
    /\ ~Published(a) /\ q.step = "children" /\ q.trigger = "Complete" =>
          \A b \in Children(a) : Ahead(b, a) \/ TakesAhead(r, b, a)

\* What a request, or what it left behind, is about to move.
Moves(r, a) ==
    \/ InProgress(<<r, a>>)
    \/ Busy(r) /\ (a = request[r].appeal \/ a \in request[r].followers)

\* Only the job makes requests that run beside each other, for appeals whose
\* representations have all been published.
Alone(r) ==
    (\E a \in Appeals : Moves(r, a) /\ ~Published(a)) => \A s \in Requests \ {r} : Free(s)

FirstInv ==
    /\ VisitInv
    /\ \A a \in Appeals : InOrder(a)
    /\ \A r \in Requests, a \in Appeals : CallForward(r, a)
    /\ \A r \in Requests : Leading(r) /\ Alone(r)

LEMMA StageFacts ==
    \A status : Stage(status) \in 1..3 /\ (Stage(status) = 3 <=> status \notin {"statements", "final_comments"})
BY DEF Stage

\* Complete takes the case of an appeal by written representations one publication
\* on, Incomplete takes it back from its event at most, and neither leads to the
\* questionnaire.
LEMMA ChartPublishes ==
    ASSUME NEW type \in AppealType, NEW elapsed \in BOOLEAN, NEW status \in Status,
           NEW trigger \in {"Complete", "Incomplete"}, status # "lpa_questionnaire",
           isAppealTypeAndProcedureTypeValid(type, "written", status)
    PROVE  LET new == NextStatus(type, "written", elapsed, status, trigger) IN
           /\ new # "lpa_questionnaire"
           /\ isAppealTypeAndProcedureTypeValid(type, "written", new)
           /\ Stage(new) = IF trigger = "Complete" /\ Stage(status) < 3 THEN Stage(status) + 1
                           ELSE Stage(status)
<1> DEFINE new == NextStatus(type, "written", elapsed, status, trigger)
<1>1. isAppealTypeAndProcedureTypeValid(type, "written", new)
  BY NextStatusKeepsStage DEF Trigger, OutcomeTrigger, ProcedureType
<1>2. CASE status \in FinalStatus \/ status = "awaiting_transfer"
  <2>1. new = status
    BY <1>2 DEF NextStatus, FinalStatus, WorkingStatus
  <2> QED BY <1>1, <1>2, <2>1 DEF Stage, FinalStatus
<1>3. CASE status = "statements"
  <2>1. new = IF trigger = "Complete" THEN "final_comments" ELSE "statements"
    BY <1>3 DEF NextStatus, FinalStatus, WorkingStatus, targetStateOnStatementsComplete,
       normaliseProcedureType
  <2> QED BY <1>1, <1>3, <2>1 DEF Stage
<1>4. CASE status = "final_comments"
  <2>1. new = IF trigger # "Complete" THEN "final_comments"
              ELSE IF elapsed THEN "issue_determination" ELSE "event"
    BY <1>4 DEF NextStatus, FinalStatus, WorkingStatus
  <2> QED BY <1>1, <1>4, <2>1 DEF Stage
<1>5. CASE status \in WorkingStatus \ {"lpa_questionnaire", "statements", "final_comments"}
  <2>1. new \in {status, "event", "awaiting_event", "issue_determination"}
    BY <1>5 DEF NextStatus, FinalStatus, WorkingStatus
  <2> QED BY <1>1, <1>5, <2>1 DEF Stage
<1> QED BY <1>2, <1>3, <1>4, <1>5 DEF Status, WorkingStatus

\* Every appeal is by written representations.
LEMMA WrittenCase ==
    ASSUME VisitInv, NEW a \in Appeals
    PROVE  /\ kind[a].procedure = "written" /\ kind[a].type \in AppealType
           /\ currentStatus[a] \in Status /\ eventElapsed(a) \in BOOLEAN
BY VisitAssumption, AppealsAssumption DEF VisitInv, GroupInv, RowsInv, TypeOK, eventElapsed

\* What the proofs below take of the types.
LEMMA FirstTypes ==
    ASSUME VisitInv
    PROVE  /\ request \in [Requests -> Request] /\ call \in [Calls -> CallRecord]
           /\ TypeOK
           /\ \A r \in Requests, a \in Appeals : <<r, a>> \in Calls /\ call[<<r, a>>] \in CallRecord
           /\ \A r \in Requests : request[r].appeal \in Appeals /\ request[r].followers \subseteq Appeals
           /\ LeadOf \in [Appeals -> Appeals]
           /\ \A a \in Appeals : LeadOf[LeadOf[a]] = LeadOf[a]
BY SlotFacts, AppealsAssumption DEF VisitInv, GroupInv, GroupTypeOK, RowsInv, TypeOK, Request

\* The model starts after the questionnaires, which LinkedReview is about.
PastQuestionnaire == StartPath[Len(StartPath)] # "lpa_questionnaire"

\* The group is at one stage before the first request.
LEMMA FirstStart ==
    ASSUME PastQuestionnaire, VisitInit
    PROVE  FirstInv
<1> DEFINE start == StartPath[Len(StartPath)]
<1>1. VisitInv
  BY VisitStart
<1>2. /\ \A a \in Appeals : currentStatus[a] = start /\ kind[a] \in Kinds
      /\ \A k \in Calls : ~InProgress(k)
      /\ \A r \in Requests : ~Busy(r)
  BY IdleFacts DEF VisitInit, Init, CaseInit, NoRequests, NoRequest, Busy, InProgress
<1>3. \A a \in Appeals : InOrder(a)
  BY <1>1, <1>2, AppealsAssumption, StageFacts DEF InOrder, PastQuestionnaire
<1>4. \A r \in Requests, a \in Appeals : <<r, a>> \in Calls
  BY SlotFacts
<1> QED BY <1>1, <1>2, <1>3, <1>4 DEF FirstInv, CallForward, Leading, Alone, Moves

\* A step that leaves the statuses and the calls alone, and at most ends a request,
\* or takes it a step on before its appeals are moved.
LEMMA FirstKept ==
    ASSUME FirstInv, VisitInv', UNCHANGED <<kind, currentStatus, call>>,
           \A r \in Requests :
              \/ request'[r] = request[r]
              \/ request'[r].step = "idle"
              \/ /\ request[r].step \notin {"idle", "children", "lead"}
                 /\ request'[r].step \notin {"children", "lead"}
                 /\ request'[r].appeal = request[r].appeal
                 /\ request'[r].followers = request[r].followers
                 /\ request'[r].trigger \in {"Complete", "Incomplete"}
    PROVE  FirstInv'
<1>1. \A a \in Appeals : InOrder(a)'
  BY DEF FirstInv, InOrder
<1>2. ASSUME NEW r \in Requests, NEW a \in Appeals
      PROVE  CallForward(r, a)'
  <2>1. CallForward(r, a)
    BY DEF FirstInv
  <2> QED BY <2>1 DEF CallForward, InProgress, Ahead, Published
<1>3. \A r \in Requests : Leading(r)'
  BY DEF FirstInv, Leading, Busy, InProgress, Ahead, Published, TakesAhead
<1>4. \A r \in Requests : Free(r) => Free(r)'
  BY DEF Free, Busy, InProgress
<1>5. \A r \in Requests, a \in Appeals : Moves(r, a)' => Moves(r, a)
  BY DEF Moves, Busy, InProgress
<1>6. \A r \in Requests : Alone(r)'
  BY <1>4, <1>5 DEF FirstInv, Alone, Published
<1> QED BY <1>1, <1>2, <1>3, <1>6 DEF FirstInv

\* The steps that save visits, or end a request, do no more.
LEMMA FirstSaves ==
    ASSUME FirstInv, VisitInv', NEW r \in Requests,
           \/ ReadMissed(r) \/ CreateVisit(r) \/ CreateForChildren(r)
           \/ UpdateVisits(r) \/ UpdateMissed(r) \/ DeleteVisits(r) \/ RecordMissed(r)
           \/ NotifyFails(r) \/ Respond(r)
    PROVE  FirstInv'
<1> DEFINE q == request[r]
<1>1. /\ q \in Request /\ request \in [Requests -> Request] /\ NoRequest.step = "idle"
      /\ q.step # "idle" => q.trigger \in {"Complete", "Incomplete"}
  BY FirstTypes DEF FirstInv, Leading, Busy, NoRequest
<1>2. UNCHANGED <<kind, currentStatus, call>>
  BY DEF ReadMissed, CreateVisit, CreateForChildren, UpdateVisits, UpdateMissed, DeleteVisits,
     RecordMissed, NotifyFails, Respond, vars, statusVars
<1>3. CASE Saved(r) /\ q.step \in {"loaded", "checked", "created"}
  <2> DEFINE next == [q EXCEPT !.step = "saved", !.trigger = TriggerOf(q)]
  <2>1. /\ next.step = "saved" /\ next.appeal = q.appeal /\ next.followers = q.followers
        /\ next.trigger \in {"Complete", "Incomplete"}
    BY <1>1 DEF Request, TriggerOf
  <2>2. request' = [request EXCEPT ![r] = next] \/ request' = [request EXCEPT ![r] = NoRequest]
    BY <1>3 DEF Saved
  <2> HIDE DEF next
  <2> QED BY <1>1, <1>2, <1>3, <2>1, <2>2, FirstKept
<1>4. CASE request' = [request EXCEPT ![r] = NoRequest]
  BY <1>1, <1>2, <1>4, FirstKept
<1>5. CASE ReadMissed(r)
  <2> DEFINE next == [q EXCEPT !.step = "checked",
                       !.purpose = IF missed[q.appeal] # "none" THEN "rearrangeMissed" ELSE "post"]
  <2>1. /\ next.step = "checked" /\ next.appeal = q.appeal /\ next.followers = q.followers
        /\ next.trigger = q.trigger
    BY <1>1 DEF Request
  <2>2. request' = [request EXCEPT ![r] = next] /\ q.step = "loaded"
    BY <1>5 DEF ReadMissed
  <2> HIDE DEF next
  <2> QED BY <1>1, <1>2, <2>1, <2>2, FirstKept
<1>6. CASE CreateVisit(r)
  <2> DEFINE next == [q EXCEPT !.step = "created"]
  <2>1. /\ next.step = "created" /\ next.appeal = q.appeal /\ next.followers = q.followers
        /\ next.trigger = q.trigger
    BY <1>1 DEF Request
  <2>2. /\ request' = [request EXCEPT ![r] = next] \/ request' = [request EXCEPT ![r] = NoRequest]
        /\ q.step = "checked"
    BY <1>6 DEF CreateVisit
  <2> HIDE DEF next
  <2> QED BY <1>1, <1>2, <2>1, <2>2, FirstKept
<1> QED BY <1>3, <1>4, <1>5, <1>6 DEF CreateForChildren, UpdateVisits, UpdateMissed,
       DeleteVisits, RecordMissed, NotifyFails, Respond

\* A child that a request for its lead does not move is ahead of the lead.
LEMMA OthersAhead ==
    ASSUME FirstInv, NEW a \in Appeals, ~Published(a)
    PROVE  \A b \in Children(a) \ followersOf(a) : Ahead(b, a)
<1> SUFFICES ASSUME NEW b \in Children(a) \ followersOf(a) PROVE Ahead(b, a)
  OBVIOUS
<1>1. b \in Appeals /\ LeadOf[b] = a /\ currentStatus[b] # currentStatus[a]
  BY DEF Children, followersOf
<1>2. Stage(currentStatus[a]) <= Stage(currentStatus[b])
  BY <1>1 DEF FirstInv, InOrder
<1>3. Stage(currentStatus[a]) # Stage(currentStatus[b])
  BY <1>1 DEF Stage, Published
<1> QED BY <1>2, <1>3, StageFacts DEF Ahead

\* When requests come in one at a time nothing moves before one does: the request,
\* or those of a run of the job, find the children in order.
LEMMA FirstReceives ==
    ASSUME FirstInv, VisitInv', UNCHANGED vars, \A r \in Requests : Free(r),
           \A r \in Requests :
              \/ request'[r] = request[r]
              \/ /\ request'[r].step \notin {"children", "lead"}
                 /\ request'[r].followers = followersOf(request'[r].appeal)
                 /\ request'[r].trigger = "Complete"
                 /\ request'[r].appeal \in Appeals
                 /\ \/ \A s \in Requests \ {r} : request'[s] = request[s]
                    \/ currentStatus[request'[r].appeal] = "awaiting_event"
    PROVE  FirstInv'
<1> USE DEF vars, statusVars
<1>1. \A a \in Appeals : InOrder(a)'
  BY DEF FirstInv, InOrder
<1>2. \A r \in Requests, a \in Appeals : ~InProgress(<<r, a>>) /\ CallForward(r, a)'
  BY DEF Free, CallForward, InProgress
<1>3. ASSUME NEW r \in Requests
      PROVE  Leading(r)'
  <2>1. CASE request'[r] = request[r]
    BY <2>1 DEF Free, Leading, Busy
  <2>2. CASE request'[r] # request[r]
    <3>1. PICK a \in Appeals : a = request'[r].appeal
      BY <2>2
    <3>2. request'[r].followers = followersOf(a) /\ followersOf(a) \subseteq Children(a)
      BY <2>2, <3>1 DEF followersOf
    <3>3. ~Published(a) => \A b \in Children(a) \ followersOf(a) : Ahead(b, a)
      BY OthersAhead
    <3> QED BY <1>2, <2>2, <3>1, <3>2, <3>3 DEF Leading, Published, Ahead, InProgress
  <2> QED BY <2>1, <2>2
<1>4. ASSUME NEW r \in Requests
      PROVE  Alone(r)'
  <2>1. CASE request'[r] = request[r]
    BY <1>2, <2>1 DEF Free, Alone, Moves, Busy, InProgress
  <2>2. CASE \A s \in Requests \ {r} : request'[s] = request[s]
    BY <2>2 DEF Free, Alone, Busy, InProgress
  <2>3. CASE /\ request'[r].followers = followersOf(request'[r].appeal)
             /\ currentStatus[request'[r].appeal] = "awaiting_event"
    <3>1. \A a \in Appeals : Moves(r, a)' => currentStatus[a] = "awaiting_event"
      BY <1>2, <2>3 DEF Moves, InProgress, followersOf
    <3> QED BY <3>1, StageFacts DEF Alone, Published
  <2> QED BY <2>1, <2>2, <2>3
<1> QED BY <1>1, <1>2, <1>3, <1>4 DEF FirstInv

\* What a request knows of its group when it comes in.
LEMMA LoadedGroup ==
    ASSUME NEW q, NEW a, NEW purpose, NEW date,
           \/ q = Loaded(purpose, a, date)
           \/ q = [Loaded(purpose, a, date) EXCEPT !.step = "saved"]
    PROVE  /\ q.step \in {"loaded", "saved"} /\ q.appeal = a
           /\ q.followers = followersOf(a) /\ q.trigger = "Complete"
BY DEF Loaded, NoRequest

\* Requests and runs of the job come in when nothing moves.
LEMMA FirstArrivals ==
    ASSUME Serialised, FirstInv, VisitInv',
           \/ \E r \in Requests, a \in Appeals :
                 \/ LoadPost(r, a) \/ LoadRearrange(r, a) \/ LoadCancel(r, a)
                 \/ LoadMissed(r, a) \/ Publish(r, a)
           \/ RunJob
    PROVE  FirstInv'
<1>1. request \in [Requests -> Request]
  BY FirstTypes DEF FirstInv
<1>2. ASSUME NEW r \in Requests, NEW a \in Appeals, NEW q, Turn(r),
             q.step \in {"loaded", "saved"}, q.appeal = a, q.followers = followersOf(a),
             q.trigger = "Complete",
             request' = [request EXCEPT ![r] = q], UNCHANGED vars
      PROVE  FirstInv'
  <2>1. \A s \in Requests : Free(s)
    BY <1>2 DEF Turn
  <2>2. request'[r] = q /\ \A s \in Requests \ {r} : request'[s] = request[s]
    BY <1>1, <1>2
  <2> QED BY <1>2, <2>1, <2>2, FirstReceives
<1>3. CASE \E r \in Requests, a \in Appeals :
              \/ LoadPost(r, a) \/ LoadRearrange(r, a) \/ LoadCancel(r, a)
              \/ LoadMissed(r, a) \/ Publish(r, a)
  <2>1. PICK r \in Requests, a \in Appeals :
           \/ LoadPost(r, a) \/ LoadRearrange(r, a) \/ LoadCancel(r, a)
           \/ LoadMissed(r, a) \/ Publish(r, a)
    BY <1>3
  <2>2. CASE Publish(r, a)
    <3> DEFINE q == [Loaded("publish", a, FALSE) EXCEPT !.step = "saved"]
    <3>1. /\ q.step \in {"loaded", "saved"} /\ q.appeal = a
          /\ q.followers = followersOf(a) /\ q.trigger = "Complete"
      BY LoadedGroup
    <3>2. Turn(r) /\ request' = [request EXCEPT ![r] = q] /\ UNCHANGED vars
      BY <2>2 DEF Publish, LoadPublish
    <3> HIDE DEF q
    <3> QED BY <1>2, <3>1, <3>2
  <2>3. CASE \E purpose \in Purpose, date \in BOOLEAN : Receive(r, purpose, a, date)
    <3>1. PICK purpose \in Purpose, date \in BOOLEAN : Receive(r, purpose, a, date)
      BY <2>3
    <3>2. Turn(r) /\ request' = [request EXCEPT ![r] = Loaded(purpose, a, date)] /\ UNCHANGED vars
      BY <3>1 DEF Receive
    <3> DEFINE q == Loaded(purpose, a, date)
    <3>3. /\ q.step \in {"loaded", "saved"} /\ q.appeal = a
          /\ q.followers = followersOf(a) /\ q.trigger = "Complete"
      BY LoadedGroup
    <3> HIDE DEF q
    <3>4. request' = [request EXCEPT ![r] = q]
      BY <3>2 DEF q
    <3> QED BY <1>2, <3>2, <3>3, <3>4
  <2> QED BY <2>1, <2>2, <2>3 DEF LoadPost, LoadRearrange, LoadCancel, LoadMissed, Purpose
<1>4. CASE RunJob
  <2>0. PICK today \in SUBSET Leads : LoadJob(DueForJob(today))
    BY <1>4 DEF RunJob
  <2> DEFINE due == DueForJob(today)
  <2>1. PICK slot \in Injection(due, Requests) :
          /\ due # {}
          /\ \A a \in due : Turn(slot[a])
          /\ request' = [r \in Requests |->
                           IF \E a \in due : slot[a] = r
                             THEN [Loaded("job", CHOOSE a \in due : slot[a] = r, FALSE)
                                     EXCEPT !.step = "saved"]
                             ELSE request[r]]
          /\ UNCHANGED vars
    BY <2>0 DEF LoadJob
  <2>2. \A r \in Requests : Free(r)
    BY <2>1 DEF Turn
  <2>3. ASSUME NEW r \in Requests, \E a \in due : slot[a] = r
        PROVE  /\ request'[r].step = "saved"
               /\ request'[r].followers = followersOf(request'[r].appeal)
               /\ request'[r].trigger = "Complete"
               /\ request'[r].appeal \in Appeals
               /\ currentStatus[request'[r].appeal] = "awaiting_event"
    <3>1. PICK a \in due : a = CHOOSE x \in due : slot[x] = r
      BY <2>3
    <3>2. request'[r] = [Loaded("job", a, FALSE) EXCEPT !.step = "saved"]
      BY <2>1, <2>3, <3>1
    <3>3. a \in Appeals /\ currentStatus[a] = "awaiting_event"
      BY DEF DueForJob
    <3> DEFINE q == [Loaded("job", a, FALSE) EXCEPT !.step = "saved"]
    <3>4. /\ q.step = "saved" /\ q.appeal = a
          /\ q.followers = followersOf(a) /\ q.trigger = "Complete"
      BY DEF Loaded, NoRequest
    <3> HIDE DEF q
    <3>5. request'[r] = q
      BY <3>2 DEF q
    <3> QED BY <3>3, <3>4, <3>5
  <2>4. \A r \in Requests : ~(\E a \in due : slot[a] = r) => request'[r] = request[r]
    BY <2>1
  <2> QED BY <2>1, <2>2, <2>3, <2>4, FirstReceives
<1> QED BY <1>3, <1>4

\* The children are called: the ones at their lead's stage are being taken ahead of
\* it, as far as the request completes the stage.
LEMMA FirstMovesChildren ==
    ASSUME FirstInv, VisitInv', NEW r \in Requests, MoveChildren(r)
    PROVE  FirstInv'
<1> DEFINE q == request[r]
<1>1. /\ q \in Request /\ request \in [Requests -> Request] /\ q.appeal \in Appeals
      /\ q.step = "saved" /\ Busy(r) /\ q.followers \subseteq Children(q.appeal)
      /\ q.trigger \in {"Complete", "Incomplete"} /\ q.trigger \in Trigger
  BY FirstTypes DEF FirstInv, Leading, Busy, MoveChildren, Request
<1>2. UNCHANGED <<kind, currentStatus, history>>
  BY DEF MoveChildren, eventVars, statusVars
<1>3. /\ \A s \in Requests \ {r} : request'[s] = request[s]
      /\ request'[r].step = "children" /\ request'[r].appeal = q.appeal
      /\ request'[r].followers = q.followers /\ request'[r].trigger = q.trigger
  BY <1>1 DEF MoveChildren, Request
<1>4. \A s \in Requests, a \in Appeals :
         call'[<<s, a>>] = IF s = r /\ a \in q.followers THEN CallFor(a, q.trigger)
                           ELSE call[<<s, a>>]
  BY SlotFacts DEF MoveChildren
<1>5. \A a \in Appeals : /\ CallFor(a, q.trigger).step = "read"
                         /\ CallFor(a, q.trigger).appeal = a
                         /\ CallFor(a, q.trigger).trigger = q.trigger
  BY <1>1, CallForFacts
<1>6. \A b \in q.followers : b \in Appeals /\ Children(b) = {} /\ b # q.appeal
  BY <1>1, FirstTypes DEF Children, FirstInv
<1>7. \A a \in Appeals : InOrder(a)'
  BY <1>2 DEF FirstInv, InOrder
<1>8. \A s \in Requests, a \in Appeals : CallForward(s, a)'
  <2> SUFFICES ASSUME NEW s \in Requests, NEW a \in Appeals PROVE CallForward(s, a)'
    OBVIOUS
  <2>1. CASE s = r /\ a \in q.followers
    BY <1>1, <1>4, <1>5, <1>6, <2>1 DEF CallForward
  <2>2. CASE ~(s = r /\ a \in q.followers)
    BY <1>2, <1>4, <2>2 DEF FirstInv, CallForward, InProgress, Ahead, Published
  <2> QED BY <2>1, <2>2
<1>9. \A s \in Requests : Leading(s)'
  <2> SUFFICES ASSUME NEW s \in Requests PROVE Leading(s)'
    OBVIOUS
  <2>1. CASE s = r
    <3>1. PICK a \in Appeals : a = q.appeal
      BY <1>1
    <3>2. ~InProgress(<<r, a>>)'
      BY <1>1, <1>4, <1>6, <3>1 DEF FirstInv, Leading, InProgress
    <3>3. ASSUME ~Published(a), q.trigger = "Complete", NEW b \in Children(a)
          PROVE  Ahead(b, a) \/ TakesAhead(r, b, a)'
      <4>1. CASE b \in q.followers
        <5>1. call'[<<r, b>>].step = "read" /\ call'[<<r, b>>].trigger = "Complete"
          BY <1>4, <1>5, <1>6, <3>3, <4>1
        <5> QED BY <1>3, <4>1, <5>1 DEF TakesAhead
      <4>2. CASE b \notin q.followers
        BY <1>1, <3>1, <3>3, <4>2 DEF FirstInv, Leading
      <4> QED BY <4>1, <4>2
    <3> QED BY <1>1, <1>2, <1>3, <2>1, <3>1, <3>2, <3>3 DEF Leading, Published, Ahead
  <2>2. CASE s # r
    BY <1>2, <1>3, <1>4, <2>2, FirstTypes
       DEF FirstInv, Leading, Busy, InProgress, Ahead, Published, TakesAhead, Children
  <2> QED BY <2>1, <2>2
<1>10. \A s \in Requests : Alone(s)'
  <2>1. \A s \in Requests, a \in Appeals : Moves(s, a)' => Moves(s, a)
    BY <1>1, <1>3, <1>4 DEF Moves, InProgress, Busy
  <2>2. \A s \in Requests : Free(s) => Free(s)'
    BY <1>1, <1>3, <1>4 DEF Free, InProgress, Busy
  <2> QED BY <1>2, <2>1, <2>2 DEF FirstInv, Alone, Published
<1> QED BY <1>7, <1>8, <1>9, <1>10 DEF FirstInv

\* The lead is called when the calls for its children are over: they are ahead of it.
LEMMA FirstMovesLead ==
    ASSUME FirstInv, VisitInv', NEW r \in Requests, MoveLead(r)
    PROVE  FirstInv'
<1> DEFINE q == request[r]
<1>1. PICK l \in Appeals : l = q.appeal
  BY FirstTypes DEF FirstInv
<1>2. /\ q \in Request /\ request \in [Requests -> Request]
      /\ q.step = "children" /\ Busy(r) /\ ~InProgress(<<r, l>>)
      /\ q.trigger \in {"Complete", "Incomplete"} /\ q.trigger \in Trigger
      /\ \A b \in q.followers : ~InProgress(<<r, b>>)
  BY <1>1, FirstTypes DEF FirstInv, Leading, Busy, MoveLead, ChildrenMoved, Request
<1>3. UNCHANGED <<kind, currentStatus, history>>
  BY DEF MoveLead, eventVars, statusVars
<1>4. /\ \A s \in Requests \ {r} : request'[s] = request[s]
      /\ request'[r].step = "lead" /\ request'[r].appeal = q.appeal
      /\ request'[r].followers = q.followers /\ request'[r].trigger = q.trigger
  BY <1>2 DEF MoveLead, Request
<1>5. \A s \in Requests, a \in Appeals :
         call'[<<s, a>>] = IF s = r /\ a = l THEN CallFor(l, q.trigger) ELSE call[<<s, a>>]
  BY <1>1, SlotFacts, FirstTypes DEF MoveLead, FirstInv
<1>6. /\ CallFor(l, q.trigger).step = "read" /\ CallFor(l, q.trigger).appeal = l
      /\ CallFor(l, q.trigger).trigger = q.trigger
  BY <1>2, CallForFacts
<1>7. \A a \in Appeals : InOrder(a)'
  BY <1>3 DEF FirstInv, InOrder
<1>8. \A s \in Requests, a \in Appeals : CallForward(s, a)'
  <2> SUFFICES ASSUME NEW s \in Requests, NEW a \in Appeals PROVE CallForward(s, a)'
    OBVIOUS
  <2>1. CASE s = r /\ a = l
    <3>1. ASSUME ~Published(l), q.trigger = "Complete", NEW b \in Children(l)
          PROVE  Ahead(b, l)
      BY <1>1, <1>2, <3>1 DEF FirstInv, Leading, TakesAhead, InProgress
    <3> QED BY <1>2, <1>3, <1>5, <1>6, <2>1, <3>1 DEF CallForward, Published, Ahead
  <2>2. CASE ~(s = r /\ a = l)
    BY <1>3, <1>5, <2>2 DEF FirstInv, CallForward, InProgress, Ahead, Published
  <2> QED BY <2>1, <2>2
<1>9. \A s \in Requests : Leading(s)'
  <2> SUFFICES ASSUME NEW s \in Requests PROVE Leading(s)'
    OBVIOUS
  <2>1. CASE s = r
    BY <1>2, <1>4, <2>1 DEF FirstInv, Leading
  <2>2. CASE s # r
    BY <1>3, <1>4, <1>5, <2>2, FirstTypes
       DEF FirstInv, Leading, Busy, InProgress, Ahead, Published, TakesAhead, Children
  <2> QED BY <2>1, <2>2
<1>10. \A s \in Requests : Alone(s)'
  <2>1. \A s \in Requests, a \in Appeals : Moves(s, a)' => Moves(s, a)
    BY <1>1, <1>2, <1>4, <1>5 DEF Moves, InProgress, Busy
  <2>2. \A s \in Requests : Free(s) => Free(s)'
    BY <1>2, <1>4, <1>5 DEF Free, InProgress, Busy
  <2> QED BY <1>3, <2>1, <2>2 DEF FirstInv, Alone, Published
<1> QED BY <1>7, <1>8, <1>9, <1>10 DEF FirstInv

\* A step of a call that writes no status and leaves the call knowing what it must:
\* a child that was being taken ahead still is, unless the request is over.
LEMMA FirstCallKept ==
    ASSUME FirstInv, VisitInv', NEW r \in Requests, NEW a \in Appeals,
           InProgress(<<r, a>>), UNCHANGED <<kind, currentStatus>>,
           \A k \in Calls \ {<<r, a>>} : call'[k] = call[k],
           CallForward(r, a)',
           \A s \in Requests \ {r} : request'[s] = request[s],
           \/ request'[r].step = "idle"
           \/ /\ request'[r] = request[r]
              /\ \A l \in Appeals :
                    l = request[r].appeal /\ ~Published(l) /\ a \in Children(l)
                       /\ TakesAhead(r, a, l) => TakesAhead(r, a, l)' \/ Ahead(a, l)
    PROVE  FirstInv'
<1>1. \A s \in Requests, b \in Appeals :
         <<s, b>> # <<r, a>> => call'[<<s, b>>] = call[<<s, b>>]
  BY SlotFacts
<1>2. \A b \in Appeals : InOrder(b)'
  BY DEF FirstInv, InOrder
<1>3. \A s \in Requests, b \in Appeals : CallForward(s, b)'
  <2> SUFFICES ASSUME NEW s \in Requests, NEW b \in Appeals, <<s, b>> # <<r, a>>
               PROVE  CallForward(s, b)'
    OBVIOUS
  <2> QED BY <1>1 DEF FirstInv, CallForward, InProgress, Ahead, Published
<1>4. \A s \in Requests : Leading(s)'
  <2> SUFFICES ASSUME NEW s \in Requests PROVE Leading(s)'
    OBVIOUS
  <2>1. CASE s # r
    BY <1>1, <2>1, FirstTypes
       DEF FirstInv, Leading, Busy, InProgress, Ahead, Published, TakesAhead, Children
  <2>2. CASE s = r /\ request'[r].step = "idle"
    BY <2>2 DEF Leading, Busy
  <2>3. CASE s = r /\ request'[r].step # "idle"
    <3>1. PICK l \in Appeals : l = request[r].appeal
      BY FirstTypes DEF FirstInv
    <3>2. request'[r] = request[r] /\ Busy(r) /\ Leading(r)
      BY <2>3 DEF FirstInv, Busy
    <3>3. request[r].step # "lead" => ~InProgress(<<r, l>>)'
      BY <1>1, <3>1, <3>2 DEF Leading, InProgress
    <3>4. ASSUME ~Published(l), request[r].step = "children", request[r].trigger = "Complete",
                 NEW b \in Children(l)
          PROVE  Ahead(b, l) \/ TakesAhead(r, b, l)'
      <4>1. Ahead(b, l) \/ TakesAhead(r, b, l)
        BY <3>1, <3>2, <3>4 DEF Leading
      <4>2. CASE b = a
        BY <2>3, <3>1, <3>4, <4>1, <4>2 DEF TakesAhead
      <4>3. CASE b # a
        <5>1. b \in Appeals
          BY DEF Children
        <5> QED BY <1>1, <3>2, <4>1, <4>3, <5>1 DEF TakesAhead
      <4> QED BY <4>2, <4>3
    <3> QED BY <2>3, <3>1, <3>2, <3>3, <3>4 DEF Leading, Published, Ahead
  <2> QED BY <2>1, <2>2, <2>3
<1>5. \A s \in Requests : Alone(s)'
  <2>1. \A s \in Requests, b \in Appeals : Moves(s, b)' => Moves(s, b)
    BY <1>1 DEF Moves, InProgress, Busy
  <2>2. \A s \in Requests : Free(s) => Free(s)'
    BY <1>1 DEF Free, InProgress, Busy
  <2> QED BY <2>1, <2>2 DEF FirstInv, Alone, Published
<1> QED BY <1>2, <1>3, <1>4, <1>5 DEF FirstInv

\* A call that reads its appeal decides a status that no child is behind.
LEMMA FirstReads ==
    ASSUME FirstInv, VisitInv', NEW r \in Requests, NEW a \in Appeals,
           ReadAppeal(<<r, a>>), request' = request
    PROVE  FirstInv'
<1> DEFINE k == <<r, a>>
           c == call[k]
           new == NextStatus(kind[a].type, "written", eventElapsed(a), currentStatus[a], c.trigger)
           writing == [c EXCEPT !.step = "write", !.newState = new,
                                !.passed = isStatePassed(history[a], new),
                                !.arranged = isArranged(a)]
<1>1. /\ c \in CallRecord /\ call \in [Calls -> CallRecord] /\ k \in Calls
      /\ c.step = "read" /\ InProgress(k) /\ c.appeal = a /\ c.trigger \in {"Complete", "Incomplete"}
      /\ c.trigger = "Complete" /\ ~Published(a) => \A b \in Children(a) : Ahead(b, a)
  BY FirstTypes DEF FirstInv, ReadAppeal, InProgress, CallForward
<1>2. /\ kind[a].procedure = "written" /\ kind[a].type \in AppealType
      /\ currentStatus[a] \in Status /\ eventElapsed(a) \in BOOLEAN
      /\ currentStatus[a] # "lpa_questionnaire"
      /\ isAppealTypeAndProcedureTypeValid(kind[a].type, "written", currentStatus[a])
  BY WrittenCase DEF FirstInv, InOrder
<1>3. /\ new # "lpa_questionnaire"
      /\ isAppealTypeAndProcedureTypeValid(kind[a].type, "written", new)
      /\ Stage(new) = IF c.trigger = "Complete" /\ Stage(currentStatus[a]) < 3
                        THEN Stage(currentStatus[a]) + 1 ELSE Stage(currentStatus[a])
  BY <1>1, <1>2, ChartPublishes
<1>4. UNCHANGED <<kind, currentStatus>>
  BY DEF ReadAppeal, eventVars, statusVars
<1>5. \/ /\ new = currentStatus[a] /\ call' = [call EXCEPT ![k] = UpdatingList(c)]
      \/ /\ new # currentStatus[a] /\ call' = [call EXCEPT ![k] = writing]
  BY <1>1, <1>2 DEF ReadAppeal, NextStatusOf
<1>6. /\ UpdatingList(c).step = "readList" /\ UpdatingList(c).appeal = a
      /\ writing.step = "write" /\ writing.appeal = a /\ writing.newState = new
  BY <1>1, UpdatingListFacts DEF CallRecord
<1> HIDE DEF writing, new
<1>7. ASSUME NEW b \in Children(a)
      PROVE  Stage(new) <= Stage(currentStatus[b])
  <2>1. b \in Appeals /\ LeadOf[b] = a
    BY DEF Children
  <2>2. Stage(currentStatus[a]) <= Stage(currentStatus[b])
    BY <2>1 DEF FirstInv, InOrder
  <2> QED BY <1>1, <1>3, <2>2, StageFacts DEF Published, Ahead
<1>8. Stage(currentStatus[a]) <= Stage(new)
  BY <1>3, StageFacts
<1>9. CallForward(r, a)'
  BY <1>1, <1>2, <1>3, <1>4, <1>5, <1>6, <1>7, <1>8 DEF CallForward
<1>10. ASSUME NEW l \in Appeals, ~Published(l), a \in Children(l), TakesAhead(r, a, l)
       PROVE  TakesAhead(r, a, l)' \/ Ahead(a, l)
  <2>1. Stage(currentStatus[l]) <= Stage(currentStatus[a]) /\ Stage(currentStatus[l]) < 3
    BY <1>10, StageFacts DEF FirstInv, InOrder, Children, Published
  <2>2. CASE Stage(currentStatus[a]) = 3
    BY <2>1, <2>2 DEF Ahead
  <2>3. CASE Stage(currentStatus[a]) < 3
    <3>1. c.trigger = "Complete" /\ a \in request[r].followers
      BY <1>1, <1>10 DEF TakesAhead
    <3>2. Stage(new) = Stage(currentStatus[a]) + 1
      BY <1>3, <2>3, <3>1
    <3>3. new # currentStatus[a] /\ Stage(currentStatus[l]) < Stage(new)
      BY <2>1, <3>2, StageFacts
    <3>4. call'[k].step = "write" /\ call'[k].newState = new
      BY <1>1, <1>5, <1>6, <3>3
    <3> QED BY <1>4, <3>1, <3>3, <3>4 DEF TakesAhead
  <2> QED BY <2>2, <2>3, StageFacts
<1> QED BY <1>1, <1>4, <1>5, <1>9, <1>10, FirstCallKept

\* A call that writes its status takes its appeal no step back, and leaves no child
\* behind it.
LEMMA FirstWrites ==
    ASSUME FirstInv, VisitInv', NEW r \in Requests, NEW a \in Appeals,
           Advance(<<r, a>>) \/ RollBack(<<r, a>>), request' = request
    PROVE  FirstInv'
<1> DEFINE k == <<r, a>>
           c == call[k]
           new == c.newState
<1>1. /\ c \in CallRecord /\ call \in [Calls -> CallRecord] /\ k \in Calls /\ TypeOK
      /\ c.step = "write" /\ InProgress(k) /\ c.appeal = a
      /\ new # "lpa_questionnaire"
      /\ isAppealTypeAndProcedureTypeValid(kind[a].type, kind[a].procedure, new)
      /\ Stage(currentStatus[a]) <= Stage(new)
      /\ \A b \in Children(a) : Stage(new) <= Stage(currentStatus[b])
  BY FirstTypes DEF FirstInv, Advance, RollBack, InProgress, CallForward
<1>2. /\ call' = [call EXCEPT ![k] = AfterWrite(k)] /\ UNCHANGED kind
      /\ currentStatus' = [currentStatus EXCEPT ![a] = new]
  BY <1>1 DEF Advance, RollBack, eventVars
<1>3. /\ AfterWrite(k).step \in {"read", "readList"} /\ AfterWrite(k).appeal = a
      /\ AfterWrite(k).step = "read" => AfterWrite(k).trigger = "Complete" /\ new = "event"
  <2>1. kind[a].procedure = "written"
    BY WrittenCase DEF FirstInv
  <2>2. AfterWrite(k) = IF new = "event" /\ c.arranged THEN CallingComplete(c) ELSE UpdatingList(c)
    BY <1>1, <2>1 DEF AfterWrite
  <2> QED BY <1>1, <2>2, CallingCompleteFacts, UpdatingListFacts
<1>4. \A s \in Requests, b \in Appeals :
         call'[<<s, b>>] = IF s = r /\ b = a THEN AfterWrite(k) ELSE call[<<s, b>>]
  BY <1>1, <1>2, SlotFacts
<1>5. /\ currentStatus'[a] = new
      /\ \A b \in Appeals : b # a => currentStatus'[b] = currentStatus[b]
  BY <1>1, <1>2 DEF TypeOK
<1>6. \A b \in Appeals : /\ Stage(currentStatus[b]) \in 1..3 /\ Stage(currentStatus'[b]) \in 1..3
                         /\ Stage(currentStatus[b]) <= Stage(currentStatus'[b])
                         /\ b # a => Stage(currentStatus'[b]) = Stage(currentStatus[b])
  BY <1>1, <1>5, StageFacts
<1>7. ASSUME NEW s \in Requests, s # r, ~Published(a)
      PROVE  Free(s) /\ Free(s)'
  <2>1. Free(s)
    BY <1>1, <1>7 DEF FirstInv, Alone, Moves
  <2> QED BY <1>4, <1>7, <2>1 DEF Free, Busy, InProgress
<1>8. ASSUME NEW b \in Appeals
      PROVE  InOrder(b)'
  <2>1. b # a => currentStatus'[b] # "lpa_questionnaire"
                 /\ isAppealTypeAndProcedureTypeValid(kind[b].type, kind[b].procedure, currentStatus'[b])
    BY <1>5 DEF FirstInv, InOrder
  <2>2. Stage(currentStatus'[LeadOf[b]]) <= Stage(currentStatus'[b])
    <3>1. LeadOf[b] \in Appeals /\ Stage(currentStatus[LeadOf[b]]) <= Stage(currentStatus[b])
      BY FirstTypes DEF FirstInv, InOrder
    <3>2. CASE LeadOf[b] = a /\ b # a
      BY <1>1, <1>5, <3>2 DEF Children
    <3>3. CASE LeadOf[b] # a
      BY <1>6, <3>1, <3>3
    <3>4. CASE LeadOf[b] = b
      BY <1>6, <3>1, <3>4
    <3> QED BY <3>2, <3>3, <3>4
  <2> QED BY <1>1, <1>2, <1>5, <2>1, <2>2 DEF InOrder
<1>9. ASSUME NEW s \in Requests, NEW b \in Appeals
      PROVE  CallForward(s, b)'
  <2>1. CASE s = r /\ b = a
    <3>1. Published(a)' \/ AfterWrite(k).step = "readList"
      BY <1>3, <1>5 DEF Published, Stage
    <3> QED BY <1>3, <1>4, <2>1, <3>1 DEF CallForward
  <2>2. CASE s # r /\ b = a /\ ~Published(a)
    BY <1>7, <2>2 DEF CallForward, Free
  <2>3. CASE ~(s = r /\ b = a) /\ (b # a \/ Published(a))
    <3>1. call'[<<s, b>>] = call[<<s, b>>] /\ CallForward(s, b)
      BY <1>4, <2>3 DEF FirstInv
    <3>2. Stage(currentStatus'[b]) = Stage(currentStatus[b])
      BY <1>6, <2>3 DEF Published
    <3>3. \A x \in Children(b) : Stage(currentStatus[x]) <= Stage(currentStatus'[x])
                                 /\ Stage(currentStatus[x]) \in 1..3 /\ Stage(currentStatus'[x]) \in 1..3
      BY <1>6 DEF Children
    <3>4. Stage(call[<<s, b>>].newState) \in 1..3 /\ Stage(currentStatus[b]) \in 1..3
      BY StageFacts
    <3>5. /\ Published(b)' <=> Published(b)
          /\ \A x \in Children(b) : Ahead(x, b) => Ahead(x, b)'
      BY <3>2, <3>3, <3>4 DEF Published, Ahead
    <3>6. \A x \in Children(b) : Stage(call[<<s, b>>].newState) <= Stage(currentStatus[x])
                                 => Stage(call[<<s, b>>].newState) <= Stage(currentStatus'[x])
      BY <3>3, <3>4
    <3> QED BY <1>2, <3>1, <3>2, <3>5, <3>6 DEF CallForward, InProgress
  <2> QED BY <2>1, <2>2, <2>3
<1>10. ASSUME NEW s \in Requests
       PROVE  Leading(s)'
  <2>1. CASE ~Busy(s)
    BY <2>1 DEF Leading, Busy
  <2>2. CASE Busy(s)
    <3>1. PICK l \in Appeals : l = request[s].appeal
      BY FirstTypes DEF FirstInv
    <3>2. Leading(s) /\ request'[s] = request[s]
      BY DEF FirstInv
    <3>3. request[s].step # "lead" => ~InProgress(<<s, l>>)'
      BY <1>1, <1>4, <2>2, <3>1, <3>2 DEF Leading, InProgress
    <3>4. request[s].step # "lead" => Stage(currentStatus'[l]) = Stage(currentStatus[l])
      <4>1. CASE l # a
        BY <1>6, <4>1
      <4>2. CASE l = a /\ Published(a)
        BY <1>6, <4>2 DEF Published
      <4>3. CASE l = a /\ ~Published(a)
        BY <1>1, <1>7, <2>2, <3>1, <3>2, <4>3 DEF Leading, Free
      <4> QED BY <4>1, <4>2, <4>3
    <3>5. ASSUME request[s].step # "lead", NEW b \in Children(l), Ahead(b, l)
          PROVE  Ahead(b, l)'
      BY <1>6, <3>4, <3>5 DEF Ahead, Children
    <3>6. ASSUME request[s].step # "lead", NEW b \in Children(l), TakesAhead(s, b, l)
          PROVE  TakesAhead(s, b, l)' \/ Ahead(b, l)'
      <4>1. b \in Appeals /\ b # l
        BY DEF Children
      <4>2. CASE s = r /\ b = a
        BY <1>1, <1>5, <3>4, <3>6, <4>1, <4>2 DEF TakesAhead, Ahead
      <4>3. CASE ~(s = r /\ b = a)
        <5>1. call'[<<s, b>>] = call[<<s, b>>]
          BY <1>4, <4>1, <4>3
        <5> QED BY <3>2, <3>4, <3>6, <5>1 DEF TakesAhead
      <4> QED BY <4>2, <4>3
    <3>7. request[s].step # "lead" => (Published(l)' <=> Published(l))
      BY <3>4 DEF Published
    <3> QED BY <2>2, <3>1, <3>2, <3>3, <3>5, <3>6, <3>7 DEF Leading, Busy
  <2> QED BY <2>1, <2>2
<1>11. ASSUME NEW s \in Requests
       PROVE  Alone(s)'
  <2>1. \A t \in Requests, b \in Appeals : Moves(t, b)' => Moves(t, b)
    BY <1>1, <1>4 DEF Moves, InProgress, Busy
  <2>2. \A t \in Requests : Free(t) => Free(t)'
    BY <1>1, <1>4 DEF Free, InProgress, Busy
  <2>3. \A b \in Appeals : Published(b) => Published(b)'
    BY <1>6 DEF Published
  <2> QED BY <2>1, <2>2, <2>3 DEF FirstInv, Alone
<1> QED BY <1>8, <1>9, <1>10, <1>11 DEF FirstInv

\* The other steps of a call decide nothing, but for a call whose row is gone, which
\* ends its request.
LEMMA FirstRunsOn ==
    ASSUME FirstInv, VisitInv', NEW r \in Requests, NEW a \in Appeals, CallStepOf(r, a)
    PROVE  FirstInv'
<1> DEFINE k == <<r, a>>
           c == call[k]
<1>1. /\ TypeOK /\ k \in Calls /\ Step(k) /\ InProgress(k) /\ UNCHANGED eventVars
      /\ request \in [Requests -> Request]
      /\ \A j \in Calls \ {k} : call'[j] = call[j]
      /\ call'[k].step # "idle" => call'[k].appeal = a
      /\ c.appeal = a /\ c.step # "proofs"
  <2>1. TypeOK /\ k \in Calls /\ Step(k) /\ request \in [Requests -> Request]
    BY FirstTypes DEF CallStepOf, FirstInv
  <2>2. InProgress(k) /\ \A j \in Calls \ {k} : call'[j] = call[j]
    BY <2>1, StepStays
  <2> QED BY <2>1, <2>2, StepStays DEF FirstInv, CallForward
<1>2. request' = IF RowGone(k) THEN [request EXCEPT ![r] = NoRequest] ELSE request
  BY <1>1 DEF CallStepOf
<1>3. CASE ReadAppeal(k)
  <2>1. request' = request
    BY <1>2, <1>3 DEF ReadAppeal, RowGone
  <2> QED BY <1>3, <2>1, FirstReads
<1>4. CASE Advance(k) \/ RollBack(k)
  <2>1. request' = request
    BY <1>2, <1>4 DEF Advance, RollBack, RowGone
  <2> QED BY <1>4, <2>1, FirstWrites
<1>5. CASE ~ReadAppeal(k) /\ ~Advance(k) /\ ~RollBack(k)
  <2>1. UNCHANGED statusVars /\ (c.step = "write" => RowGone(k))
    BY <1>1, <1>5 DEF Step, RollBackThrows, ReadProofs, ReadForList, WriteList, WriteChildren, RowGone
  <2>2. call'[k].step \notin {"read", "write", "proofs"}
    <3>1. CASE RollBackThrows(k)
      BY <1>1, <3>1, IdleFacts DEF RollBackThrows, TypeOK
    <3>2. CASE ~RollBackThrows(k)
      <4>1. c.step \notin {"write", "proofs"}
        BY <1>1, <1>5, <3>2 DEF Step, ReadProofs, ReadForList, WriteList, WriteChildren
      <4> QED BY <1>1, <1>5, <4>1, StepWrites
    <3> QED BY <3>1, <3>2
  <2>3. c.step # "read"
    BY <1>5, <1>1 DEF Step, RollBackThrows, ReadProofs, ReadForList, WriteList, WriteChildren
  <2>4. CallForward(r, a)'
    BY <1>1, <2>2 DEF CallForward, InProgress
  <2>5. UNCHANGED <<kind, currentStatus>>
    BY <1>1, <2>1 DEF eventVars, statusVars
  <2>6. NoRequest.step = "idle"
    BY DEF NoRequest
  <2>7. CASE RowGone(k)
    BY <1>1, <1>2, <2>4, <2>5, <2>6, <2>7, FirstCallKept
  <2>8. CASE ~RowGone(k)
    <3>1. \A l \in Appeals : ~TakesAhead(r, a, l)
      BY <2>1, <2>3, <2>8 DEF TakesAhead
    <3> QED BY <1>1, <1>2, <2>4, <2>5, <2>8, <3>1, FirstCallKept
  <2> QED BY <2>7, <2>8
<1> QED BY <1>3, <1>4, <1>5

\* A query that fails ends its request, while the other calls of it run on; a process
\* that stops leaves nothing.
LEMMA FirstFails ==
    ASSUME FirstInv, VisitInv',
           ProcessStops \/ \E r \in Requests, a \in Appeals : CallFails(r, a)
    PROVE  FirstInv'
<1>1. NoRequest.step = "idle" /\ Idle.step = "idle"
  BY IdleFacts DEF NoRequest
<1>2. CASE ProcessStops
  <2>1. /\ \A r \in Requests, a \in Appeals : call'[<<r, a>>].step = "idle"
        /\ \A r \in Requests : request'[r].step = "idle"
        /\ UNCHANGED <<kind, currentStatus>>
    BY <1>1, <1>2, SlotFacts DEF ProcessStops, eventVars, statusVars
  <2>2. \A a \in Appeals : InOrder(a)'
    BY <2>1 DEF FirstInv, InOrder
  <2>3. \A r \in Requests, a \in Appeals : CallForward(r, a)' /\ ~Moves(r, a)'
    BY <2>1 DEF CallForward, InProgress, Moves, Busy
  <2>4. \A r \in Requests : Leading(r)' /\ Alone(r)'
    BY <2>1, <2>3 DEF Leading, Busy, Alone
  <2> QED BY <2>2, <2>3, <2>4 DEF FirstInv
<1>3. ASSUME NEW r \in Requests, NEW a \in Appeals, CallFails(r, a)
      PROVE  FirstInv'
  <2>1. /\ call'[<<r, a>>].step = "idle" /\ \A k \in Calls \ {<<r, a>>} : call'[k] = call[k]
        /\ request'[r].step = "idle" /\ \A s \in Requests \ {r} : request'[s] = request[s]
        /\ UNCHANGED <<kind, currentStatus>> /\ InProgress(<<r, a>>)
    BY <1>1, <1>3, FirstTypes DEF CallFails, eventVars, statusVars, FirstInv
  <2>2. CallForward(r, a)'
    BY <2>1 DEF CallForward, InProgress
  <2> QED BY <2>1, <2>2, FirstCallKept
<1> QED BY <1>2, <1>3

\* Every step keeps the children first.
LEMMA FirstNext ==
    ASSUME Serialised
    PROVE  FirstInv /\ [VisitNext]_visitVars => FirstInv'
<1> SUFFICES ASSUME FirstInv, [VisitNext]_visitVars PROVE FirstInv'
  OBVIOUS
<1>1. VisitInv'
  BY VisitInvNext DEF FirstInv
<1>2. CASE VisitWorking
  <2>1. ASSUME NEW r \in Requests, VisitStep(r)
        PROVE  FirstInv'
    BY <1>1, <2>1, FirstSaves, FirstMovesChildren, FirstMovesLead, FirstRunsOn DEF VisitStep, MoveStep
  <2>2. ASSUME NEW a \in Leads, VisitsPass(a)
        PROVE  FirstInv'
    BY <1>1, <2>2, FirstKept DEF VisitsPass, VisitsPast, statusVars
  <2> QED BY <1>1, <1>2, <2>1, <2>2, FirstArrivals DEF VisitWorking
<1>3. CASE VisitFailing
  BY <1>1, <1>3, FirstFails, FirstSaves DEF VisitFailing
<1>4. CASE UNCHANGED visitVars
  BY <1>1, <1>4, FirstKept DEF visitVars, vars, statusVars, groupVars
<1> QED BY <1>2, <1>3, <1>4 DEF VisitNext

\* The children of a group are published with, or before, their lead, when requests
\* come in one at a time: whichever of their queries fail, however often the process
\* stops, and whatever visits are arranged, missed or cancelled meanwhile.
THEOREM ChildrenPublishedFirst ==
    ASSUME Serialised, PastQuestionnaire
    PROVE  VisitSpec => []ChildrenFirst
<1>1. FirstInv => ChildrenFirst
  BY StageFacts DEF FirstInv, InOrder, ChildrenFirst, Stage
<1> QED BY <1>1, FirstStart, FirstNext, PTL DEF VisitSpec

-----------------------------------------------------------------------------
(* The appeals of a group settle at one status.  What carries this through *)
(* a request without mishaps: the visits of a group are the same once they *)
(* are saved, so that the request decides where every appeal of its group  *)
(* will settle; an appeal it has yet to call settles there from where it   *)
(* is, one whose call is in progress is on the way, and the others are     *)
(* there.  A run of the job calls a child twice, for the lead and for      *)
(* itself: both calls take it to the same status.                          *)

\* Where a trigger takes a case by written representations past its questionnaire ...
Onward(status, trigger, elapsed) ==
    IF trigger = "Complete"
      THEN CASE status = "statements"                   -> "final_comments"
             [] status = "final_comments" /\ ~elapsed   -> "event"
             [] status \in {"final_comments", "awaiting_event"} /\ elapsed -> "issue_determination"
             [] status = "event"                        -> "awaiting_event"
             [] OTHER                                   -> status
      ELSE IF status \in {"awaiting_event", "issue_determination"} THEN "event" ELSE status

\* ... and where it comes to rest, carried on from an event that is arranged.
CarriedOn(new, arranged) == IF new = "event" /\ arranged THEN "awaiting_event" ELSE new

RestOf(status, trigger, elapsed, arranged) ==
    LET new == Onward(status, trigger, elapsed) IN
    IF new = status THEN status ELSE CarriedOn(new, arranged)

SettlesFrom(status, trigger, a) == RestOf(status, trigger, eventElapsed(a), isArranged(a))

\* Where a request takes an appeal of its group.
Goal(r, a) == SettlesFrom(request[r].status, request[r].trigger, a)

Preparing(r) == request[r].step \in {"loaded", "checked", "created"}

Moving(r) == request[r].step \in {"saved", "children", "lead"}

\* The visits of an appeal are like those of its lead.
SameVisits(a) ==
    /\ event[a] = event[LeadOf[a]] /\ missed[a] = missed[LeadOf[a]]
    /\ past[a] = past[LeadOf[a]]

\* The visits of an appeal are right for a case that rests at a status.
Fits(a, status) ==
    /\ status = "awaiting_event" => event[a] # "none"
    /\ missed[a] # "none" => status \notin {"awaiting_event", "issue_determination"}

Alongside(r) == \E s \in Requests \ {r} : Busy(s)

\* A request that prepares the move of the group of a runs alone.
Prepares(r, a) ==
    LET q == request[r] IN
    Preparing(r) /\ q.appeal = a =>
    /\ \A s \in Requests \ {r} : Free(s)
    /\ LeadOf[a] = a /\ q.status = currentStatus[a]
    /\ q.step = "loaded" /\ q.purpose = "rearrange" => event[a] # "none"
    /\ q.step = "checked" =>
          \/ q.purpose = "post" /\ missed[a] = "none"
          \/ q.purpose = "rearrangeMissed" /\ missed[a] # "none"
    /\ q.step = "created" =>
          /\ q.purpose = "post" /\ event[a] = New(q.date) /\ missed[a] = "none"
          /\ \A b \in Children(a) : ~HasVisit(b)

\* Does the request complete the wait for the visit, as those of the job do?
Concludes(r) == request[r].status = "awaiting_event" /\ request[r].trigger = "Complete"

\* What a call has to do with where its request takes the appeal.
OnTheWay(r, a) ==
    LET c == call[<<r, a>>] IN
    CASE c.step = "read" ->
            /\ c.trigger \in {"Complete", request[r].trigger}
            /\ SettlesFrom(currentStatus[a], c.trigger, a) = Goal(r, a)
      [] c.step = "write" ->
            /\ CarriedOn(c.newState, c.arranged) = Goal(r, a)
            /\ Concludes(r) => c.newState = Goal(r, a)
            /\ c.passed => RowsWith(history[a], c.newState) # {}
      [] OTHER -> currentStatus[a] = Goal(r, a)

\* Is the call of r for an appeal of its group still to be made?
ToCall(r, a) ==
    \/ a = request[r].appeal /\ request[r].step # "lead"
    \/ a # request[r].appeal /\ request[r].step = "saved"

\* A request that moves the group of a.
Takes(r, a) ==
    LET q == request[r] IN
    Moving(r) /\ q.appeal = a =>
    /\ Fits(a, Goal(r, a))
    /\ Alongside(r) \/ LeadOf[a] # a => Concludes(r)
    /\ \A b \in Members(a) :
          /\ IF ToCall(r, b) THEN SettlesFrom(currentStatus[b], q.trigger, b) = Goal(r, b)
             ELSE OnTheWay(r, b)
          /\ Concludes(r) => currentStatus[b] \in {"awaiting_event", Goal(r, b)}
    /\ LeadOf[a] # a =>
          \/ currentStatus[a] = Goal(r, a)
          \/ \E s \in Requests : Moving(s) /\ request[s].appeal = LeadOf[a]

\* The children a request knows, and the calls it makes.
Groups(r, a) == Busy(r) /\ request[r].appeal = a => request[r].followers = Children(a)

CallWithin(r, b) ==
    InProgress(<<r, b>>) =>
        /\ Moving(r) /\ ~ToCall(r, b)
        /\ \E a \in Appeals : a = request[r].appeal /\ b \in Members(a)
        /\ request[r].step = "lead" => b = request[r].appeal

Rests(a) ==
    (\A r \in Requests : Moving(r) => request[r].appeal # LeadOf[a]) =>
        currentStatus[a] = currentStatus[LeadOf[a]] /\ Fits(a, currentStatus[a])

VisitsAlike(a) ==
    /\ event[a] # "none" => missed[a] = "none"
    /\ \/ SameVisits(a)
       \/ \E r \in Requests : request[r].step = "created" /\ request[r].appeal = LeadOf[a]

Together ==
    /\ \A r \in Requests, a \in Appeals :
          Prepares(r, a) /\ Takes(r, a) /\ Groups(r, a) /\ CallWithin(r, a)
    /\ \A a \in Appeals : Rests(a) /\ VisitsAlike(a)

\* The chart leads an appeal by written representations past its questionnaire
\* onward, whatever its type.
LEMMA ChartOnward ==
    ASSUME NEW type \in AppealType, NEW elapsed \in BOOLEAN, NEW status \in Status,
           NEW trigger \in {"Complete", "Incomplete"}, status # "lpa_questionnaire",
           isAppealTypeAndProcedureTypeValid(type, "written", status)
    PROVE  NextStatus(type, "written", elapsed, status, trigger) = Onward(status, trigger, elapsed)
<1> DEFINE new == NextStatus(type, "written", elapsed, status, trigger)
<1>1. CASE status \in FinalStatus \/ status = "awaiting_transfer"
  <2>1. new = status
    BY <1>1 DEF NextStatus, FinalStatus, WorkingStatus
  <2> QED BY <1>1, <2>1 DEF Onward, FinalStatus
<1>2. CASE status \in {"statements", "final_comments", "evidence"}
  <2>1. status # "evidence"
    BY <1>2 DEF isAppealTypeAndProcedureTypeValid, normaliseProcedureType
  <2> QED BY <1>2, <2>1 DEF NextStatus, FinalStatus, WorkingStatus, Onward,
         targetStateOnStatementsComplete, normaliseProcedureType
<1>3. CASE status \in WorkingStatus \ {"lpa_questionnaire", "statements", "final_comments", "evidence"}
  BY <1>3 DEF NextStatus, FinalStatus, WorkingStatus, Onward
<1> QED BY <1>1, <1>2, <1>3 DEF Status, WorkingStatus

\* Where a case settles it stays when it is completed once more, if it awaited its
\* visit; and one that reaches an arranged event is carried on to where it settles.
LEMMA SettlesAgain ==
    ASSUME NEW a,
           NEW goal, goal = SettlesFrom("awaiting_event", "Complete", a)
    PROVE  /\ goal \in {"awaiting_event", "issue_determination"}
           /\ SettlesFrom(goal, "Complete", a) = goal
           /\ SettlesFrom("event", "Complete", a) = "awaiting_event"
BY DEF SettlesFrom, RestOf, Onward, CarriedOn

\* The visits of an appeal that has one, not missed, are right for any status.
LEMMA VisitFits ==
    ASSUME NEW a \in Appeals, event[a] # "none", missed[a] = "none", NEW status
    PROVE  Fits(a, status)
BY DEF Fits

\* The visits that are right for a case are right where it settles, but for one that
\* is completed at its event without a visit.
LEMMA GoalFits ==
    ASSUME NEW a \in Appeals, event[a] # "none" => missed[a] = "none",
           NEW status, NEW trigger \in {"Complete", "Incomplete"}, Fits(a, status),
           trigger = "Complete" => status # "event"
    PROVE  Fits(a, SettlesFrom(status, trigger, a))
<1>1. CASE event[a] # "none"
  BY <1>1, VisitFits
<1>2. CASE event[a] = "none"
  BY <1>2 DEF Fits, SettlesFrom, RestOf, Onward, CarriedOn, eventElapsed, isArranged
<1> QED BY <1>1, <1>2

\* Setting a case back leaves it at its event, or where it was before its visit.
LEMMA SetBackFits ==
    ASSUME NEW a \in Appeals, event[a] = "none", NEW status
    PROVE  Fits(a, SettlesFrom(status, "Incomplete", a))
BY DEF Fits, SettlesFrom, RestOf, Onward, CarriedOn, isArranged

\* Appeals whose visits are alike settle alike.
LEMMA SameSettles ==
    ASSUME VisitInv, NEW a \in Appeals, NEW b \in Appeals, LeadOf[a] = LeadOf[b],
           SameVisits(a), SameVisits(b)
    PROVE  /\ event[a] = event[b] /\ missed[a] = missed[b] /\ past[a] = past[b]
           /\ \A status, trigger : SettlesFrom(status, trigger, a) = SettlesFrom(status, trigger, b)
           /\ \A status : Fits(a, status) <=> Fits(b, status)
<1>1. /\ event[a] = event[b] /\ missed[a] = missed[b] /\ past[a] = past[b]
      /\ kind[a].procedure = "written" /\ kind[b].procedure = "written"
  BY WrittenCase DEF SameVisits
<1>2. eventElapsed(a) = eventElapsed(b) /\ isArranged(a) = isArranged(b)
  BY <1>1 DEF eventElapsed, isArranged
<1>3. \A status, trigger : SettlesFrom(status, trigger, a) = SettlesFrom(status, trigger, b)
  BY <1>2 DEF SettlesFrom
<1> QED BY <1>1, <1>3 DEF Fits

\* What a request keeps in its slot is for an appeal of a group.
LEMMA GroupOf ==
    \A a \in Appeals : \A b \in Members(a) : b \in Appeals /\ LeadOf[b] = LeadOf[a]
BY AppealsAssumption DEF Members, Children

\* A child has no children.
LEMMA ChildAlone ==
    \A a \in Appeals : LeadOf[a] # a => Children(a) = {} /\ Members(a) = {a}
BY AppealsAssumption DEF Members, Children

\* Requests that move the same group take an appeal to the same status.
LEMMA GoalsAgree ==
    ASSUME FirstInv, Together, NEW r \in Requests, NEW s \in Requests, r # s,
           Moving(r), Busy(s)
    PROVE  Concludes(r) /\ (Moving(s) => Concludes(s) /\ \A a : Goal(r, a) = Goal(s, a))
<1>1. Busy(r) /\ request[r].appeal \in Appeals /\ request[s].appeal \in Appeals
  BY FirstTypes DEF Moving, Busy, FirstInv
<1>2. Concludes(r) /\ (Moving(s) => Concludes(s))
  BY <1>1 DEF Together, Takes, Alongside
<1> QED BY <1>2 DEF Goal, Concludes

\* While a request moves its group no visits are being created.
LEMMA AlikeMoving ==
    ASSUME FirstInv, Together, NEW r \in Requests, Moving(r)
    PROVE  /\ \A s \in Requests : ~Preparing(s)
           /\ \A a \in Appeals : SameVisits(a) /\ (event[a] # "none" => missed[a] = "none")
<1>1. ~Free(r) /\ ~Preparing(r)
  BY DEF Moving, Preparing, Free, Busy
<1>2. \A s \in Requests : ~Preparing(s)
  BY <1>1, FirstTypes DEF Together, Prepares, FirstInv
<1> QED BY <1>2 DEF Together, VisitsAlike, Preparing

\* The first appeals have no visits and are at one status.
LEMMA TogetherStart ==
    ASSUME VisitInit, StartPath[Len(StartPath)] # "awaiting_event", FirstInv
    PROVE  Together
<1>1. \A r \in Requests : request[r].step = "idle"
  BY DEF VisitInit, NoRequests, NoRequest
<1>2. \A r \in Requests, a \in Appeals : ~InProgress(<<r, a>>)
  BY SlotFacts, IdleFacts DEF VisitInit, Init, CaseInit, InProgress
<1>3. \A a \in Appeals : /\ currentStatus[a] = StartPath[Len(StartPath)] /\ LeadOf[a] \in Appeals
                         /\ currentStatus[LeadOf[a]] = currentStatus[a]
                         /\ event[a] = "none" /\ missed[a] = "none" /\ SameVisits(a)
  BY FirstTypes DEF VisitInit, Init, CaseInit, SameVisits, FirstInv
<1> QED BY <1>1, <1>2, <1>3 DEF Together, Prepares, Takes, Groups, Preparing, Moving, Busy, CallWithin,
       Rests, Fits, VisitsAlike

\* A step that leaves the visits alone.
LEMMA VisitsKept ==
    ASSUME UNCHANGED <<kind, event, past, missed>>, NEW a
    PROVE  /\ eventElapsed(a)' = eventElapsed(a) /\ isArranged(a)' = isArranged(a)
           /\ HasVisit(a)' = HasVisit(a)
           /\ SameVisits(a)' <=> SameVisits(a)
           /\ \A status : Fits(a, status)' <=> Fits(a, status)
BY DEF eventElapsed, isArranged, HasVisit, SameVisits, Fits

\* When nothing moves, groups are at one status and their visits are alike.
LEMMA AllAtRest ==
    ASSUME FirstInv, Together, \A r \in Requests : Free(r)
    PROVE  /\ \A r \in Requests : ~Busy(r) /\ ~Moving(r) /\ ~Preparing(r)
           /\ \A r \in Requests, a \in Appeals : ~InProgress(<<r, a>>)
           /\ \A a \in Appeals :
                 /\ currentStatus[a] = currentStatus[LeadOf[a]] /\ Fits(a, currentStatus[a])
                 /\ followersOf(a) = Children(a) /\ SameVisits(a)
                 /\ event[a] # "none" => missed[a] = "none"
<1>1. /\ \A r \in Requests : ~Busy(r) /\ ~Moving(r) /\ ~Preparing(r)
      /\ \A r \in Requests, a \in Appeals : ~InProgress(<<r, a>>)
  BY DEF Free, Busy, Moving, Preparing
<1>2. \A a \in Appeals : currentStatus[a] = currentStatus[LeadOf[a]] /\ Fits(a, currentStatus[a])
  BY <1>1 DEF Together, Rests
<1>3. \A a \in Appeals : followersOf(a) = Children(a)
  BY <1>2 DEF followersOf, Children
<1>4. \A a \in Appeals : SameVisits(a) /\ (event[a] # "none" => missed[a] = "none")
  BY <1>1 DEF Together, VisitsAlike, Preparing
<1> QED BY <1>1, <1>2, <1>3, <1>4

\* A request that prepares its move comes in alone.
LEMMA TogetherLoads ==
    ASSUME FirstInv, Together, \A r \in Requests : Free(r), UNCHANGED <<vars, missed>>,
           NEW r \in Requests, NEW a \in Appeals, LeadOf[a] = a, NEW q,
           request' = [request EXCEPT ![r] = q],
           q.step = "loaded", q.appeal = a, q.followers = followersOf(a),
           q.status = currentStatus[a], q.purpose = "rearrange" => event[a] # "none"
    PROVE  Together'
<1>1. request'[r] = q /\ \A s \in Requests \ {r} : request'[s] = request[s]
  BY FirstTypes DEF FirstInv
<1>2. UNCHANGED <<kind, event, past, missed, currentStatus, call>>
  BY DEF vars, statusVars
<1>3. \A s \in Requests, b \in Appeals : Prepares(s, b)'
  BY <1>1, <1>2, AllAtRest DEF Prepares, Preparing, Free, Busy, InProgress
<1>4. \A s \in Requests : ~Moving(s)'
  BY <1>1, AllAtRest DEF Moving
<1>5. \A s \in Requests, b \in Appeals : Groups(s, b)'
  BY <1>1, AllAtRest DEF Groups, Busy
<1>6. \A s \in Requests, b \in Appeals : CallWithin(s, b)'
  BY <1>2, AllAtRest DEF CallWithin, InProgress
<1>7. \A b \in Appeals : Rests(b)' /\ VisitsAlike(b)'
  BY <1>2, AllAtRest, VisitsKept DEF Rests, Fits, SameVisits, VisitsAlike
<1> QED BY <1>3, <1>4, <1>5, <1>6, <1>7 DEF Together, Takes

\* A publication comes in alone, the requests of a run of the job for whole groups.
LEMMA TogetherSends ==
    ASSUME FirstInv, Together, \A r \in Requests : Free(r), UNCHANGED <<vars, missed>>,
           \A r \in Requests :
              \/ request'[r] = request[r]
              \/ \E a \in Appeals :
                    /\ request'[r].step = "saved" /\ request'[r].appeal = a
                    /\ request'[r].followers = followersOf(a)
                    /\ request'[r].status = currentStatus[a] /\ currentStatus[a] # "event"
                    /\ request'[r].trigger = "Complete"
                    /\ \/ LeadOf[a] = a /\ \A s \in Requests \ {r} : request'[s] = request[s]
                       \/ /\ currentStatus[a] = "awaiting_event"
                          /\ \E s \in Requests : Moving(s)' /\ request'[s].appeal = LeadOf[a]
    PROVE  Together'
<1>1. UNCHANGED <<kind, event, past, missed, currentStatus, call, history>>
  BY DEF vars, statusVars
<1>2. \A s \in Requests, b \in Appeals : Prepares(s, b)'
  BY AllAtRest DEF Prepares, Preparing
<1>3. ASSUME NEW s \in Requests, NEW a \in Appeals
      PROVE  Takes(s, a)' /\ Groups(s, a)'
  <2>1. CASE request'[s] = request[s]
    BY <2>1, AllAtRest DEF Takes, Moving, Groups, Busy
  <2>2. CASE request'[s] # request[s] /\ request'[s].appeal = a
    <3>1. /\ request'[s].step = "saved" /\ request'[s].followers = followersOf(a)
          /\ request'[s].status = currentStatus[a] /\ currentStatus[a] # "event"
          /\ request'[s].trigger = "Complete"
          /\ \/ LeadOf[a] = a /\ \A t \in Requests \ {s} : request'[t] = request[t]
             \/ /\ currentStatus[a] = "awaiting_event"
                /\ \E t \in Requests : Moving(t)' /\ request'[t].appeal = LeadOf[a]
      BY <2>2
    <3>2. \A b : Goal(s, b)' = SettlesFrom(currentStatus[a], "Complete", b)
      BY <1>1, <3>1, VisitsKept DEF SettlesFrom, Goal
    <3>3. Fits(a, SettlesFrom(currentStatus[a], "Complete", a))
      BY <3>1, AllAtRest, GoalFits
    <3>4. Fits(a, Goal(s, a))'
      BY <1>1, <3>2, <3>3 DEF Fits
    <3>5. (Alongside(s)' => Concludes(s)') /\ (LeadOf[a] # a => Concludes(s)')
      BY <3>1, AllAtRest DEF Concludes, Busy, Alongside
    <3>6. ASSUME NEW b \in Members(a)
          PROVE  /\ currentStatus'[b] = currentStatus[a]
                 /\ SettlesFrom(currentStatus[b], request[s].trigger, b)' = Goal(s, b)'
      <4>1. b \in Appeals /\ currentStatus[b] = currentStatus[a]
        BY GroupOf, AllAtRest
      <4> QED BY <1>1, <3>1, <3>2, <4>1, VisitsKept DEF SettlesFrom
    <3>7. \A b \in Members(a) : ToCall(s, b)'
      BY <2>2, <3>1 DEF ToCall
    <3>8. Concludes(s)' => currentStatus[a] = "awaiting_event"
      BY <3>1 DEF Concludes
    <3> QED BY <2>2, <3>1, <3>4, <3>5, <3>6, <3>7, <3>8, AllAtRest DEF Takes, Groups
  <2>3. CASE request'[s].appeal # a
    BY <2>3 DEF Takes, Groups
  <2> QED BY <2>1, <2>2, <2>3
<1>4. \A s \in Requests, b \in Appeals : CallWithin(s, b)'
  BY <1>1, AllAtRest DEF CallWithin, InProgress
<1>5. \A b \in Appeals : Rests(b)' /\ VisitsAlike(b)'
  BY <1>1, AllAtRest, VisitsKept DEF Rests, Fits, SameVisits, VisitsAlike
<1> QED BY <1>2, <1>3, <1>4, <1>5 DEF Together

\* Requests and runs of the job come in when nothing moves.
LEMMA TogetherArrives ==
    ASSUME Serialised, FirstInv, Together,
           \/ \E r \in Requests, a \in Appeals :
                 \/ LoadPost(r, a) \/ LoadRearrange(r, a) \/ LoadCancel(r, a)
                 \/ LoadMissed(r, a) \/ Publish(r, a)
           \/ RunJob
    PROVE  Together'
<1>1. request \in [Requests -> Request]
  BY FirstTypes DEF FirstInv
<1>2. ASSUME NEW r \in Requests, NEW a \in Appeals,
             \/ LoadPost(r, a) \/ LoadRearrange(r, a) \/ LoadCancel(r, a) \/ LoadMissed(r, a)
      PROVE  Together'
  <2>1. PICK purpose \in Purpose, date \in BOOLEAN :
           Receive(r, purpose, a, date) /\ (purpose = "rearrange" => event[a] # "none")
    BY <1>2 DEF LoadPost, LoadRearrange, LoadCancel, LoadMissed, Purpose
  <2> DEFINE q == Loaded(purpose, a, date)
  <2>2. /\ q.step = "loaded" /\ q.appeal = a /\ q.followers = followersOf(a)
        /\ q.status = currentStatus[a] /\ q.purpose = purpose
    BY DEF Loaded, NoRequest
  <2>3. /\ request' = [request EXCEPT ![r] = q] /\ Turn(r) /\ LeadOf[a] = a /\ UNCHANGED <<vars, missed>>
    BY <1>2, <2>1 DEF Receive, LoadPost, LoadRearrange, LoadCancel, LoadMissed
  <2>4. \A s \in Requests : Free(s)
    BY <2>3 DEF Turn
  <2> HIDE DEF q
  <2> QED BY <2>1, <2>2, <2>3, <2>4, TogetherLoads
<1>3. ASSUME NEW r \in Requests, NEW a \in Appeals, Publish(r, a)
      PROVE  Together'
  <2> DEFINE q == [Loaded("publish", a, FALSE) EXCEPT !.step = "saved"]
  <2>1. /\ q.step = "saved" /\ q.appeal = a /\ q.followers = followersOf(a)
        /\ q.status = currentStatus[a] /\ q.trigger = "Complete"
    BY DEF Loaded, NoRequest
  <2>2. /\ request' = [request EXCEPT ![r] = q] /\ Turn(r) /\ LeadOf[a] = a /\ UNCHANGED <<vars, missed>>
        /\ currentStatus[a] # "event"
    BY <1>3 DEF Publish, LoadPublish
  <2>3. \A s \in Requests : Free(s)
    BY <2>2 DEF Turn
  <2> HIDE DEF q
  <2>4. request'[r] = q /\ \A s \in Requests \ {r} : request'[s] = request[s]
    BY <1>1, <2>2
  <2> QED BY <2>1, <2>2, <2>3, <2>4, TogetherSends
<1>4. CASE RunJob
  <2>0. PICK today \in SUBSET Leads : LoadJob(DueForJob(today)) /\ UNCHANGED missed
    BY <1>4 DEF RunJob
  <2> DEFINE due == DueForJob(today)
  <2>1. PICK slot \in Injection(due, Requests) :
          /\ due # {}
          /\ \A a \in due : Turn(slot[a])
          /\ request' = [r \in Requests |->
                           IF \E a \in due : slot[a] = r
                             THEN [Loaded("job", CHOOSE a \in due : slot[a] = r, FALSE)
                                     EXCEPT !.step = "saved"]
                             ELSE request[r]]
          /\ UNCHANGED <<vars, missed>>
    BY <2>0 DEF LoadJob
  <2>2. \A r \in Requests : Free(r)
    BY <2>1 DEF Turn
  <2>3. /\ \A a \in due : slot[a] \in Requests
        /\ \A a, b \in due : slot[a] = slot[b] => a = b
    BY DEF Injection, IsInjective
  <2>4. ASSUME NEW a \in due
        PROVE  LET q == request'[slot[a]] IN
               /\ q.step = "saved" /\ q.appeal = a /\ q.followers = followersOf(a)
               /\ q.status = currentStatus[a] /\ q.trigger = "Complete"
    <3>1. a = CHOOSE x \in due : slot[x] = slot[a]
      BY <2>3
    <3> DEFINE q == [Loaded("job", a, FALSE) EXCEPT !.step = "saved"]
    <3>2. /\ q.step = "saved" /\ q.appeal = a /\ q.followers = followersOf(a)
          /\ q.status = currentStatus[a] /\ q.trigger = "Complete"
      BY DEF Loaded, NoRequest
    <3>3. request'[slot[a]] = q
      BY <2>1, <2>3, <3>1
    <3> HIDE DEF q
    <3> QED BY <3>2, <3>3
  <2>5. ASSUME NEW a \in due
        PROVE  /\ a \in Appeals /\ currentStatus[a] = "awaiting_event"
               /\ LeadOf[a] \in due
    <3>1. a \in Appeals /\ LeadOf[a] \in Appeals
      BY FirstTypes DEF DueForJob, FirstInv
    <3>2. currentStatus[a] = currentStatus[LeadOf[a]] /\ SameVisits(a)
      BY <2>2, <3>1, AllAtRest
    <3>3. LeadOf[LeadOf[a]] = LeadOf[a]
      BY <3>1, AppealsAssumption
    <3> QED BY <3>1, <3>2, <3>3 DEF DueForJob, SameVisits, HasDate
  <2>6. ASSUME NEW r \in Requests, request'[r] # request[r]
        PROVE  \E a \in Appeals :
                  /\ request'[r].step = "saved" /\ request'[r].appeal = a
                  /\ request'[r].followers = followersOf(a)
                  /\ request'[r].status = currentStatus[a] /\ currentStatus[a] # "event"
                  /\ request'[r].trigger = "Complete" /\ currentStatus[a] = "awaiting_event"
                  /\ \E s \in Requests : Moving(s)' /\ request'[s].appeal = LeadOf[a]
    <3>1. PICK a \in due : slot[a] = r
      BY <2>1, <2>6
    <3>2. request'[slot[LeadOf[a]]].step = "saved" /\ request'[slot[LeadOf[a]]].appeal = LeadOf[a]
      BY <2>4, <2>5
    <3>3. \E s \in Requests : Moving(s)' /\ request'[s].appeal = LeadOf[a]
      BY <2>3, <2>5, <3>2 DEF Moving
    <3> QED BY <2>4, <2>5, <3>1, <3>3
  <2>7. \A r \in Requests :
           \/ request'[r] = request[r]
           \/ \E a \in Appeals :
                 /\ request'[r].step = "saved" /\ request'[r].appeal = a
                 /\ request'[r].followers = followersOf(a)
                 /\ request'[r].status = currentStatus[a] /\ currentStatus[a] # "event"
                 /\ request'[r].trigger = "Complete"
                 /\ \/ LeadOf[a] = a /\ \A s \in Requests \ {r} : request'[s] = request[s]
                    \/ /\ currentStatus[a] = "awaiting_event"
                       /\ \E s \in Requests : Moving(s)' /\ request'[s].appeal = LeadOf[a]
    BY <2>6
  <2> QED BY <2>1, <2>2, <2>7, TogetherSends
<1> QED BY <1>2, <1>3, <1>4

\* A step of a request that prepares its move, before its visits are all saved.
LEMMA TogetherPrepares ==
    ASSUME FirstInv, VisitInv', Together, NEW r \in Requests, ReadMissed(r) \/ CreateVisit(r)
    PROVE  Together'
<1>1. PICK a \in Appeals : a = request[r].appeal
  BY FirstTypes DEF FirstInv
<1> DEFINE q == request[r]
<1>2. /\ Preparing(r) /\ Busy(r) /\ UNCHANGED <<kind, currentStatus, call, missed>>
      /\ q \in Request /\ q.date \in BOOLEAN /\ request \in [Requests -> Request]
  BY FirstTypes DEF ReadMissed, CreateVisit, Preparing, Busy, vars, statusVars, FirstInv, Request
<1>3. /\ \A s \in Requests \ {r} : Free(s) /\ ~Busy(s) /\ request'[s] = request[s]
      /\ LeadOf[a] = a /\ q.status = currentStatus[a]
  BY <1>1, <1>2 DEF Together, Prepares, ReadMissed, CreateVisit, Free
<1>4. \A s \in Requests : ~Moving(s)
  BY <1>2, <1>3 DEF Moving, Preparing, Busy
<1>5. \A s \in Requests, b \in Appeals : ~InProgress(<<s, b>>)
  BY <1>4 DEF Together, CallWithin
<1>6. /\ \/ request'[r].step = "idle"
         \/ /\ request'[r].appeal = a /\ request'[r].status = q.status
            /\ request'[r].followers = q.followers
            /\ \/ /\ request'[r].step = "checked" /\ UNCHANGED <<event, past>>
                  /\ \/ request'[r].purpose = "post" /\ missed[a] = "none"
                     \/ request'[r].purpose = "rearrangeMissed" /\ missed[a] # "none"
               \/ /\ request'[r].step = "created" /\ request'[r].purpose = "post"
                  /\ ~HasVisit(a) /\ q.step = "checked" /\ request'[r].date = q.date
                  /\ event' = [event EXCEPT ![a] = New(q.date)] /\ past' = [past EXCEPT ![a] = FALSE]
      /\ request'[r].step = "idle" => UNCHANGED <<event, past>>
  <2>1. CASE ReadMissed(r)
    <3> DEFINE next == [q EXCEPT !.step = "checked",
                         !.purpose = IF missed[a] # "none" THEN "rearrangeMissed" ELSE "post"]
    <3>1. /\ next.step = "checked" /\ next.appeal = a /\ next.status = q.status
          /\ next.followers = q.followers
          /\ next.purpose = IF missed[a] # "none" THEN "rearrangeMissed" ELSE "post"
      BY <1>1, <1>2 DEF Request
    <3>2. request' = [request EXCEPT ![r] = next] /\ UNCHANGED <<event, past>>
      BY <1>1, <2>1 DEF ReadMissed, vars
    <3> HIDE DEF next
    <3>3. request'[r] = next
      BY <1>2, <3>2
    <3> QED BY <3>1, <3>2, <3>3
  <2>2. CASE CreateVisit(r)
    <3>1. CASE HasVisit(a)
      BY <1>1, <1>2, <2>2, <3>1 DEF CreateVisit, NoRequest
    <3>2. CASE ~HasVisit(a)
      BY <1>1, <1>2, <2>2, <3>2 DEF CreateVisit, Request
    <3> QED BY <3>1, <3>2
  <2> QED BY <2>1, <2>2
<1>7. q.step # "created" /\ \A s \in Requests : request[s].step # "created"
  BY <1>2, <1>3 DEF ReadMissed, CreateVisit, Busy
<1>8. \A b \in Appeals : /\ currentStatus[b] = currentStatus[LeadOf[b]]
                         /\ Fits(b, currentStatus[b]) /\ SameVisits(b)
                         /\ event[b] # "none" => missed[b] = "none"
  BY <1>4, <1>7 DEF Together, Rests, VisitsAlike
<1>9. request'[r].step = "created" =>
         /\ event'[a] = New(request'[r].date) /\ event'[a] # "none" /\ missed[a] = "none"
         /\ \A b \in Children(a) : ~HasVisit(b)'
         /\ \A b \in Appeals \ {a} : event'[b] = event[b] /\ past'[b] = past[b]
  <2>1. \A b \in Children(a) : SameVisits(b) /\ LeadOf[b] = a /\ b # a /\ b \in Appeals
    BY <1>8 DEF Children
  <2>2. event \in [Appeals -> Event] /\ past \in [Appeals -> BOOLEAN]
    BY VisitTypes DEF FirstInv
  <2> QED BY <1>2, <1>6, <2>1, <2>2 DEF HasVisit, SameVisits, New
<1> HIDE DEF q
<1>10. \A s \in Requests : ~Moving(s)'
  BY <1>3, <1>4, <1>6 DEF Moving
<1>11. \A s \in Requests, b \in Appeals : ~InProgress(<<s, b>>)'
  BY <1>2, <1>5 DEF InProgress
<1>12. ASSUME NEW s \in Requests, NEW b \in Appeals
       PROVE  Prepares(s, b)' /\ Groups(s, b)'
  <2>1. CASE s # r
    BY <1>3, <2>1 DEF Prepares, Preparing, Groups, Busy
  <2>2. CASE s = r
    <3>1. \A t \in Requests \ {r} : Free(t)'
      BY <1>3, <1>11 DEF Free, Busy
    <3>2. Groups(r, a)
      BY DEF Together
    <3>3. q.followers = Children(a)
      BY <1>1, <1>2, <3>2 DEF Groups, q
    <3> QED BY <1>2, <1>3, <1>6, <1>9, <2>2, <3>1, <3>3 DEF Prepares, Preparing, Groups, Busy
  <2> QED BY <2>1, <2>2
<1>13. ASSUME NEW b \in Appeals
       PROVE  Rests(b)' /\ VisitsAlike(b)'
  <2>1. CASE UNCHANGED <<event, past>>
    BY <1>2, <1>8, <2>1 DEF Rests, VisitsAlike, SameVisits, Fits
  <2>2. CASE request'[r].step = "created"
    <3>1. LeadOf[b] \in Appeals /\ UNCHANGED missed
      BY <1>2, FirstTypes DEF FirstInv
    <3>2. CASE b = a
      BY <1>1, <1>2, <1>3, <1>6, <1>8, <1>9, <2>2, <3>2 DEF Rests, VisitsAlike, Fits
    <3>3. CASE b # a
      <4>1. event'[b] = event[b] /\ past'[b] = past[b] /\ missed'[b] = missed[b]
        BY <1>9, <2>2, <3>1, <3>3
      <4>2. Rests(b)'
        BY <1>2, <1>8, <4>1 DEF Rests, Fits
      <4>3. LeadOf[b] # a => event'[LeadOf[b]] = event[LeadOf[b]] /\ past'[LeadOf[b]] = past[LeadOf[b]]
        BY <1>9, <2>2, <3>1
      <4>4. VisitsAlike(b)'
        BY <1>6, <1>8, <2>2, <3>1, <4>1, <4>3 DEF VisitsAlike, SameVisits
      <4> QED BY <4>2, <4>4
    <3> QED BY <3>2, <3>3
  <2> QED BY <1>6, <2>1, <2>2
<1> QED BY <1>10, <1>11, <1>12, <1>13 DEF Together, Takes, CallWithin

\* The visits of the group are saved: the request decides where the group settles, or
\* leaves it where it is.
LEMMA TogetherSaved ==
    ASSUME FirstInv, VisitInv', Together, NEW r \in Requests, NEW a \in Appeals,
           a = request[r].appeal, Preparing(r), Saved(r), UNCHANGED <<kind, currentStatus, call>>,
           \A b \in Appeals :
              /\ SameVisits(b)' /\ (event'[b] # "none" => missed'[b] = "none")
              /\ b \notin Members(a) => event'[b] = event[b] /\ missed'[b] = missed[b],
           \/ event'[a] # "none"
           \/ IF Sends(request[r]) THEN TriggerOf(request[r]) = "Incomplete"
              ELSE Fits(a, currentStatus[a])'
    PROVE  Together'
<1> DEFINE q == request[r]
           next == [q EXCEPT !.step = "saved", !.trigger = TriggerOf(q)]
<1>1. /\ Busy(r) /\ q \in Request /\ request \in [Requests -> Request] /\ VisitInv
      /\ LeadOf[a] = a /\ q.status = currentStatus[a] /\ q.followers = Children(a)
      /\ \A s \in Requests \ {r} : Free(s) /\ ~Busy(s)
  BY FirstTypes DEF FirstInv, Together, Prepares, Groups, Preparing, Busy, Free
<1>2. \A s \in Requests : ~Moving(s)
  BY <1>1 DEF Moving, Preparing, Busy
<1>3. \A s \in Requests, b \in Appeals : ~InProgress(<<s, b>>) /\ ~InProgress(<<s, b>>)'
  BY <1>2 DEF Together, CallWithin, InProgress
<1>4. \A b \in Appeals : currentStatus[b] = currentStatus[LeadOf[b]] /\ Fits(b, currentStatus[b])
  BY <1>2 DEF Together, Rests
<1>5. /\ next.step = "saved" /\ next.trigger = TriggerOf(q) /\ next.appeal = a
      /\ next.status = currentStatus[a] /\ next.followers = Children(a)
      /\ TriggerOf(q) \in {"Complete", "Incomplete"}
  BY <1>1 DEF Request, TriggerOf
<1>6. request' = [request EXCEPT ![r] = IF Sends(q) THEN next ELSE NoRequest]
  BY DEF Saved
<1>7. /\ \A s \in Requests \ {r} : request'[s] = request[s] /\ ~Moving(s)' /\ ~Preparing(s)' /\ ~Busy(s)'
      /\ ~Preparing(r)'
  <2> HIDE DEF next
  <2> QED BY <1>1, <1>5, <1>6 DEF Moving, Preparing, Busy, NoRequest
<1>8. \A b \in Appeals : b \in Members(a) <=> LeadOf[b] = a
  BY <1>1 DEF Members, Children
<1>9. ASSUME NEW b \in Appeals, b \notin Members(a)
      PROVE  Rests(b)'
  <2>1. Fits(b, currentStatus[b])'
    BY <1>4, <1>9 DEF Fits
  <2> QED BY <1>4, <2>1 DEF Rests
<1>10. CASE Sends(q)
  <2>1. /\ request'[r].step = "saved" /\ request'[r].trigger = TriggerOf(q) /\ request'[r].appeal = a
        /\ request'[r].status = currentStatus[a] /\ request'[r].followers = Children(a)
    <3> HIDE DEF next
    <3> QED BY <1>1, <1>5, <1>6, <1>10
  <2>2. Moving(r)'
    BY <2>1 DEF Moving
  <2>3. Fits(a, Goal(r, a))'
    <3>1. CASE event'[a] # "none"
      BY <3>1 DEF Fits
    <3>2. CASE event'[a] = "none"
      <4>1. Goal(r, a)' = RestOf(currentStatus[a], "Incomplete", eventElapsed(a)', isArranged(a)')
        BY <1>10, <2>1, <3>2 DEF Goal, SettlesFrom
      <4>2. ~isArranged(a)'
        BY <3>2 DEF isArranged
      <4> QED BY <4>1, <4>2 DEF Fits, RestOf, Onward, CarriedOn
    <3> QED BY <3>1, <3>2
  <2>4. ASSUME NEW b \in Members(a)
        PROVE  /\ currentStatus'[b] = currentStatus[a] /\ ToCall(r, b)'
               /\ SettlesFrom(currentStatus[b], request[r].trigger, b)' = Goal(r, b)'
    <3>1. b \in Appeals /\ currentStatus'[b] = currentStatus[a]
      BY <1>1, <1>4, GroupOf
    <3> QED BY <2>1, <3>1 DEF SettlesFrom, Goal, ToCall
  <2>5. Concludes(r)' => currentStatus[a] = "awaiting_event"
    BY <2>1 DEF Concludes
  <2>6. Takes(r, a)'
    BY <1>1, <1>7, <2>3, <2>4, <2>5 DEF Takes, Alongside
  <2>7. \A s \in Requests, b \in Appeals : Takes(s, b)' /\ Groups(s, b)'
    BY <1>7, <2>1, <2>6 DEF Takes, Groups
  <2>8. \A b \in Appeals : Rests(b)'
    BY <1>8, <1>9, <2>1, <2>2 DEF Rests
  <2> QED BY <1>3, <1>7, <2>7, <2>8 DEF Together, Prepares, CallWithin, VisitsAlike
<1>11. CASE ~Sends(q)
  <2>1. request'[r].step = "idle"
    BY <1>1, <1>6, <1>11 DEF NoRequest
  <2>2. Fits(a, currentStatus[a])'
    BY <1>11 DEF Fits
  <2>3. ASSUME NEW b \in Members(a)
        PROVE  Rests(b)'
    <3>1. b \in Appeals /\ LeadOf[b] = a /\ currentStatus[b] = currentStatus[a]
      BY <1>1, <1>4, GroupOf
    <3>2. event'[b] = event'[a] /\ missed'[b] = missed'[a]
      BY <3>1 DEF SameVisits
    <3> QED BY <2>2, <3>1, <3>2 DEF Rests, Fits
  <2> QED BY <1>3, <1>7, <1>9, <2>1, <2>3 DEF Together, Prepares, Takes, Groups, Moving, Busy,
         CallWithin, VisitsAlike
<1> QED BY <1>10, <1>11

\* The visits of the children are created like the lead's, or those of the group are
\* updated, deleted or missed together.
LEMMA TogetherSaves ==
    ASSUME FirstInv, VisitInv', Together, NEW r \in Requests,
           \/ CreateForChildren(r)
           \/ UpdateVisits(r) \/ UpdateMissed(r) \/ DeleteVisits(r) \/ RecordMissed(r)
    PROVE  Together'
<1> DEFINE q == request[r]
<1>1. PICK a \in Appeals : a = q.appeal
  BY FirstTypes DEF FirstInv
<1>2. /\ Preparing(r) /\ Busy(r) /\ UNCHANGED <<kind, currentStatus, call>> /\ LeadOf[a] = a
      /\ q.status = currentStatus[a] /\ q \in Request /\ q.date \in BOOLEAN
  <2>1. Preparing(r) /\ Busy(r) /\ UNCHANGED <<kind, currentStatus, call>>
    BY DEF CreateForChildren, UpdateVisits, UpdateMissed, DeleteVisits, RecordMissed, Preparing,
       Busy, statusVars
  <2> QED BY <1>1, <2>1, FirstTypes DEF Together, Prepares, FirstInv, Request
<1>3. \A b \in Appeals : /\ b \in Members(a) <=> LeadOf[b] = a
                         /\ LeadOf[b] \in Appeals /\ LeadOf[LeadOf[b]] = LeadOf[b]
  BY <1>2, AppealsAssumption DEF Members, Children
<1>4. /\ \A s \in Requests \ {r} : request[s].step = "idle"
      /\ Prepares(r, a)
  BY <1>1, <1>2 DEF Together, Prepares, Free, Busy
<1>5. \A b \in Appeals : /\ event[b] # "none" => missed[b] = "none"
                         /\ q.step # "created" \/ LeadOf[b] # a => SameVisits(b)
  BY <1>1, <1>4 DEF Together, VisitsAlike
<1>6. \A s \in Requests : ~Moving(s)
  BY <1>2, <1>4 DEF Moving, Preparing
<1>7. Fits(a, currentStatus[a])
  BY <1>6 DEF Together, Rests
<1>8. event \in [Appeals -> Event] /\ missed \in [Appeals -> Event] /\ past \in [Appeals -> BOOLEAN]
  BY VisitTypes DEF FirstInv
<1>9. CASE CreateForChildren(r)
  <2>1. /\ event[a] = New(q.date) /\ missed[a] = "none" /\ q.step = "created"
        /\ \A b \in Children(a) : ~HasVisit(b)
    BY <1>1, <1>2, <1>4, <1>9 DEF Prepares, CreateForChildren
  <2>2. ChildrenWithout(q) = Children(a) /\ a \notin Children(a) /\ Members(a) = {a} \union Children(a)
    BY <1>1, <2>1 DEF ChildrenWithout, Children, Members
  <2>3. /\ event' = [b \in Appeals |-> IF b \in Children(a) THEN New(q.date) ELSE event[b]]
        /\ past' = [b \in Appeals |-> IF b \in Children(a) THEN past[a] ELSE past[b]]
        /\ missed' = missed /\ Saved(r)
    BY <1>1, <1>9, <2>1, <2>2 DEF CreateForChildren
  <2>4. \A b \in Children(a) : missed[b] = "none"
    BY <2>1 DEF HasVisit
  <2>5. ASSUME NEW b \in Appeals
        PROVE  /\ SameVisits(b)' /\ (event'[b] # "none" => missed'[b] = "none")
               /\ b \notin Members(a) => event'[b] = event[b] /\ missed'[b] = missed[b]
    <3>1. CASE b \in Members(a)
      BY <1>3, <2>1, <2>2, <2>3, <2>4, <3>1 DEF SameVisits
    <3>2. CASE b \notin Members(a)
      BY <1>3, <1>5, <2>2, <2>3, <3>2 DEF SameVisits
    <3> QED BY <3>1, <3>2
  <2>6. event'[a] # "none"
    BY <1>2, <2>1, <2>2, <2>3 DEF New
  <2> QED BY <1>1, <1>2, <2>3, <2>5, <2>6, TogetherSaved
<1>10. CASE UpdateVisits(r)
  <2>1. /\ event' = [b \in Appeals |-> IF b \in Members(a) THEN Updated(event[b], q.date) ELSE event[b]]
        /\ missed' = [b \in Appeals |-> IF b \in Members(a) THEN Updated(missed[b], q.date)
                                        ELSE missed[b]]
        /\ past' = PastUpdated(Members(a), q.date) /\ Saved(r)
        /\ q.step = "loaded" /\ q.purpose = "rearrange"
    BY <1>1, <1>10 DEF UpdateVisits
  <2>2. event[a] # "none"
    BY <1>1, <1>2, <1>4, <2>1 DEF Prepares
  <2>3. ASSUME NEW b \in Appeals
        PROVE  /\ SameVisits(b)' /\ (event'[b] # "none" => missed'[b] = "none")
               /\ b \notin Members(a) => event'[b] = event[b] /\ missed'[b] = missed[b]
    BY <1>3, <1>5, <2>1 DEF SameVisits, PastUpdated, HasVisit, Updated
  <2>4. event'[a] # "none"
    BY <2>1, <2>2, <1>3 DEF Updated
  <2> QED BY <1>1, <1>2, <2>1, <2>3, <2>4, TogetherSaved
<1>11. CASE UpdateMissed(r)
  <2>1. /\ event' = [b \in Appeals |->
                       IF b \in Members(a)
                         THEN Updated(IF missed[b] # "none" THEN missed[b] ELSE event[b], q.date)
                         ELSE event[b]]
        /\ missed' = [b \in Appeals |-> IF b \in Members(a) THEN "none" ELSE missed[b]]
        /\ past' = PastUpdated(Members(a), q.date) /\ Saved(r)
        /\ q.step = "checked" /\ q.purpose = "rearrangeMissed"
    BY <1>1, <1>11 DEF UpdateMissed
  <2>2. missed[a] # "none"
    BY <1>1, <1>2, <1>4, <2>1 DEF Prepares
  <2>3. ASSUME NEW b \in Appeals
        PROVE  /\ SameVisits(b)' /\ (event'[b] # "none" => missed'[b] = "none")
               /\ b \notin Members(a) => event'[b] = event[b] /\ missed'[b] = missed[b]
    <3>1. SameVisits(b)
      BY <1>5, <2>1
    <3>2. \/ b \in Members(a) /\ LeadOf[b] \in Members(a)
          \/ b \notin Members(a) /\ LeadOf[b] \notin Members(a)
      BY <1>3
    <3>3. past'[b] = past'[LeadOf[b]] /\ missed'[b] = missed'[LeadOf[b]]
      BY <1>3, <2>1, <3>1, <3>2 DEF SameVisits, PastUpdated, HasVisit
    <3>4. event'[b] = event'[LeadOf[b]]
      BY <1>3, <2>1, <3>1, <3>2 DEF SameVisits
    <3>5. event'[b] # "none" => missed'[b] = "none"
      BY <1>5, <2>1
    <3> QED BY <2>1, <3>3, <3>4, <3>5 DEF SameVisits
  <2>4. event'[a] # "none"
    BY <2>1, <2>2, <1>2, <1>3 DEF Updated
  <2> QED BY <1>1, <1>2, <2>1, <2>3, <2>4, TogetherSaved
<1>12. CASE DeleteVisits(r)
  <2>1. /\ event' = [b \in Appeals |-> IF b \in Members(a) THEN "none" ELSE event[b]]
        /\ missed' = [b \in Appeals |-> IF b \in Members(a) THEN "none" ELSE missed[b]]
        /\ past' = [b \in Appeals |-> past[b] /\ b \notin Members(a)] /\ Saved(r)
        /\ q.step = "loaded" /\ q.purpose = "cancel"
    BY <1>1, <1>12 DEF DeleteVisits
  <2>2. ASSUME NEW b \in Appeals
        PROVE  /\ SameVisits(b)' /\ (event'[b] # "none" => missed'[b] = "none")
               /\ b \notin Members(a) => event'[b] = event[b] /\ missed'[b] = missed[b]
    BY <1>3, <1>5, <2>1 DEF SameVisits
  <2>3. IF Sends(q) THEN TriggerOf(q) = "Incomplete" ELSE Fits(a, currentStatus[a])'
    BY <1>2, <1>3, <2>1 DEF Sends, TriggerOf, Fits
  <2> QED BY <1>1, <1>2, <2>1, <2>2, <2>3, TogetherSaved
<1>13. CASE RecordMissed(r)
  <2>1. /\ missed' = [b \in Appeals |-> IF b \in Members(a) /\ event[b] # "none" THEN event[b]
                                        ELSE missed[b]]
        /\ event' = [b \in Appeals |-> IF b \in Members(a) THEN "none" ELSE event[b]]
        /\ past' = past /\ Saved(r) /\ q.step = "loaded" /\ q.purpose = "missed"
    BY <1>1, <1>13 DEF RecordMissed
  <2>2. ASSUME NEW b \in Appeals
        PROVE  /\ SameVisits(b)' /\ (event'[b] # "none" => missed'[b] = "none")
               /\ b \notin Members(a) => event'[b] = event[b] /\ missed'[b] = missed[b]
    BY <1>3, <1>5, <2>1 DEF SameVisits
  <2>3. IF Sends(q) THEN TriggerOf(q) = "Incomplete" ELSE Fits(a, currentStatus[a])'
    BY <1>2, <1>3, <2>1 DEF Sends, TriggerOf, Fits
  <2> QED BY <1>1, <1>2, <2>1, <2>2, <2>3, TogetherSaved
<1> QED BY <1>9, <1>10, <1>11, <1>12, <1>13

\* What a request takes its group to, and how far it is, does not change while the
\* cases stay as they are, and its calls do or are still on the way.
LEMMA TakesKept ==
    ASSUME UNCHANGED <<kind, event, past, missed, currentStatus, history>>,
           NEW s \in Requests, NEW b \in Appeals, request'[s] = request[s],
           \A x \in Appeals : call'[<<s, x>>] = call[<<s, x>>] \/ OnTheWay(s, x)',
           Alongside(s)' => Alongside(s),
           \A t \in Requests :
              Moving(t) /\ request[t].appeal = LeadOf[b] /\ currentStatus[b] # Goal(s, b) =>
                 Moving(t)' /\ request'[t].appeal = LeadOf[b],
           Takes(s, b)
    PROVE  Takes(s, b)'
<1>1. \A x : /\ Goal(s, x)' = Goal(s, x) /\ (ToCall(s, x)' <=> ToCall(s, x))
             /\ SettlesFrom(currentStatus[x], request[s].trigger, x)'
                   = SettlesFrom(currentStatus[x], request[s].trigger, x)
             /\ SettlesFrom(currentStatus[x], call[<<s, x>>].trigger, x)'
                   = RestOf(currentStatus[x], call'[<<s, x>>].trigger, eventElapsed(x), isArranged(x))
  BY VisitsKept DEF Goal, SettlesFrom, ToCall
<1>2. (Moving(s)' <=> Moving(s)) /\ (Concludes(s)' <=> Concludes(s))
  BY DEF Moving, Concludes
<1>3. ASSUME NEW x \in Appeals, OnTheWay(s, x)
      PROVE  OnTheWay(s, x)'
  BY <1>1, <1>2, <1>3 DEF OnTheWay, SettlesFrom
<1>4. \A x \in Members(b) : x \in Appeals
  BY GroupOf
<1>5. Fits(b, Goal(s, b)) => Fits(b, Goal(s, b))'
  BY <1>1 DEF Fits
<1> QED BY <1>1, <1>2, <1>3, <1>4, <1>5 DEF Takes

\* A request calls its children, or its lead.
LEMMA TogetherCalls ==
    ASSUME FirstInv, VisitInv', Together, NEW r \in Requests, NEW a \in Appeals,
           a = request[r].appeal, Moving(r), Moving(r)',
           UNCHANGED <<kind, event, past, missed, currentStatus, history>>,
           NEW called \in SUBSET Members(a),
           \A b \in called : ToCall(r, b),
           \A b \in Members(a) : ToCall(r, b)' <=> ToCall(r, b) /\ b \notin called,
           request'[r].appeal = a, request'[r].status = request[r].status,
           request'[r].trigger = request[r].trigger, request'[r].followers = request[r].followers,
           \A s \in Requests \ {r} : request'[s] = request[s],
           \A s \in Requests, b \in Appeals :
              call'[<<s, b>>] = IF s = r /\ b \in called THEN CallFor(b, request[r].trigger)
                                ELSE call[<<s, b>>],
           request'[r].step = "lead" => \A b \in Appeals : InProgress(<<r, b>>)' => b = a
    PROVE  Together'
<1>1. \A s \in Requests : /\ request'[s].appeal = request[s].appeal
                          /\ Moving(s)' <=> Moving(s)
                          /\ Busy(s)' <=> Busy(s) 
                          /\ Preparing(s)' <=> Preparing(s)
                          /\ Alongside(s)' => Alongside(s)
                          /\ request'[s].followers = request[s].followers
  BY DEF Moving, Busy, Preparing, Alongside
<1>2. \A s \in Requests : ~Preparing(s)'
  BY <1>1, AlikeMoving
<1>3. request[r].trigger \in Trigger
  BY FirstTypes DEF FirstInv, Request
<1>4. ASSUME NEW b \in called
      PROVE  /\ call'[<<r, b>>].step = "read" /\ call'[<<r, b>>].trigger = request[r].trigger
             /\ b \in Members(a) /\ b \in Appeals
  <2>1. b \in Members(a) /\ b \in Appeals
    BY GroupOf
  <2> QED BY <1>3, <2>1, CallForFacts
<1>5. ASSUME NEW b \in Appeals
      PROVE  Takes(r, b)'
  <2>1. CASE b # a
    BY <2>1 DEF Takes
  <2>2. CASE b = a
    <3>1. Takes(r, a)
      BY DEF Together
    <3>2. \A x : /\ Goal(r, x)' = Goal(r, x)
                 /\ SettlesFrom(currentStatus[x], request[r].trigger, x)'
                       = SettlesFrom(currentStatus[x], request[r].trigger, x)
      BY VisitsKept DEF Goal, SettlesFrom
    <3>3. (Concludes(r)' <=> Concludes(r)) /\ (Fits(a, Goal(r, a)) => Fits(a, Goal(r, a))')
      BY <3>2 DEF Concludes, Fits
    <3>4. ASSUME NEW x \in Members(a)
          PROVE  IF ToCall(r, x)'
                   THEN SettlesFrom(currentStatus[x], request[r].trigger, x)' = Goal(r, x)'
                   ELSE OnTheWay(r, x)'
      <4>1. x \in Appeals
        BY GroupOf
      <4>2. CASE ToCall(r, x) /\ x \notin called
        BY <3>1, <3>2, <4>2 DEF Takes
      <4>3. CASE x \in called
        <5>1. SettlesFrom(currentStatus[x], call[<<r, x>>].trigger, x)' = Goal(r, x)'
          BY <1>4, <3>1, <3>2, <4>3 DEF Takes, SettlesFrom
        <5>2. OnTheWay(r, x)'
          BY <1>4, <4>3, <5>1 DEF OnTheWay
        <5> QED BY <4>3, <5>2
      <4>4. CASE ~ToCall(r, x)
        <5>1. OnTheWay(r, x) /\ call'[<<r, x>>] = call[<<r, x>>]
          BY <3>1, <4>1, <4>4 DEF Takes
        <5>2. OnTheWay(r, x)'
          BY <3>2, <3>3, <5>1, VisitsKept DEF OnTheWay, SettlesFrom
        <5> QED BY <4>4, <5>2
      <4> QED BY <4>2, <4>3, <4>4
    <3> QED BY <1>1, <2>2, <3>1, <3>2, <3>3, <3>4 DEF Takes
  <2> QED BY <2>1, <2>2
<1>6. ASSUME NEW s \in Requests, NEW b \in Appeals, s # r
      PROVE  Takes(s, b)'
  <2>1. Takes(s, b) /\ \A x \in Appeals : call'[<<s, x>>] = call[<<s, x>>]
    BY <1>6 DEF Together
  <2> QED BY <1>1, <1>6, <2>1, TakesKept
<1>7. ASSUME NEW s \in Requests, NEW b \in Appeals
      PROVE  CallWithin(s, b)'
  <2>1. CASE s = r /\ b \in called
    BY <1>4, <2>1 DEF CallWithin
  <2>2. CASE s = r /\ b \notin called
    <3>1. InProgress(<<r, b>>)' => InProgress(<<r, b>>) /\ b \in Members(a) /\ ~ToCall(r, b)
      BY <2>2 DEF InProgress, Together, CallWithin
    <3> QED BY <2>2, <3>1 DEF CallWithin
  <2>3. CASE s # r
    BY <1>1, <2>3 DEF InProgress, Together, CallWithin, ToCall
  <2> QED BY <2>1, <2>2, <2>3
<1>8. ASSUME NEW b \in Appeals
      PROVE  Rests(b)' /\ VisitsAlike(b)'
  <2>1. Rests(b) /\ SameVisits(b) /\ (event[b] # "none" => missed[b] = "none")
    BY AlikeMoving DEF Together
  <2> QED BY <1>1, <2>1 DEF Rests, Fits, VisitsAlike, SameVisits
<1> QED BY <1>1, <1>2, <1>5, <1>6, <1>7, <1>8 DEF Together, Prepares, Groups

\* The children are called all at once.
LEMMA TogetherMovesChildren ==
    ASSUME FirstInv, VisitInv', Together, NEW r \in Requests, MoveChildren(r), missed' = missed
    PROVE  Together'
<1> DEFINE q == request[r]
<1>1. PICK a \in Appeals : a = q.appeal
  BY FirstTypes DEF FirstInv
<1>2. /\ q.step = "saved" /\ q \in Request /\ request \in [Requests -> Request] /\ Moving(r)
      /\ q.followers = Children(a)
  BY <1>1, FirstTypes DEF FirstInv, MoveChildren, Moving, Busy, Together, Groups
<1>3. UNCHANGED <<kind, event, past, missed, currentStatus, history>>
  BY DEF MoveChildren, eventVars, statusVars
<1>4. /\ \A s \in Requests \ {r} : request'[s] = request[s]
      /\ request'[r].step = "children" /\ request'[r].appeal = a
      /\ request'[r].status = q.status /\ request'[r].trigger = q.trigger
      /\ request'[r].followers = q.followers
  BY <1>1, <1>2 DEF MoveChildren, Request
<1>5. \A b \in Members(a) : /\ b \in Children(a) => ToCall(r, b)
                            /\ ToCall(r, b)' <=> ToCall(r, b) /\ b \notin Children(a)
  BY <1>1, <1>2, <1>4 DEF ToCall, Members, Children
<1>6. \A s \in Requests, b \in Appeals :
         call'[<<s, b>>] = IF s = r /\ b \in Children(a) THEN CallFor(b, q.trigger)
                           ELSE call[<<s, b>>]
  BY <1>2, SlotFacts DEF MoveChildren
<1>7. Children(a) \in SUBSET Members(a) /\ Moving(r)'
  BY <1>4 DEF Members, Moving
<1> QED BY <1>1, <1>2, <1>3, <1>4, <1>5, <1>6, <1>7, TogetherCalls DEF Members

\* The lead is called when the calls for its children are over.
LEMMA TogetherMovesLead ==
    ASSUME FirstInv, VisitInv', Together, NEW r \in Requests, MoveLead(r), missed' = missed
    PROVE  Together'
<1> DEFINE q == request[r]
<1>1. PICK a \in Appeals : a = q.appeal
  BY FirstTypes DEF FirstInv
<1>2. /\ q.step = "children" /\ q \in Request /\ request \in [Requests -> Request] /\ Moving(r)
      /\ q.followers = Children(a) /\ \A b \in Children(a) : ~InProgress(<<r, b>>)
  BY <1>1, FirstTypes
     DEF FirstInv, MoveLead, ChildrenMoved, Moving, Busy, Together, Groups
<1>3. UNCHANGED <<kind, event, past, missed, currentStatus, history>>
  BY DEF MoveLead, eventVars, statusVars
<1>4. /\ \A s \in Requests \ {r} : request'[s] = request[s]
      /\ request'[r].step = "lead" /\ request'[r].appeal = a
      /\ request'[r].status = q.status /\ request'[r].trigger = q.trigger
      /\ request'[r].followers = q.followers
  BY <1>1, <1>2 DEF MoveLead, Request
<1>5. \A b \in Members(a) : /\ b \in {a} => ToCall(r, b)
                            /\ ToCall(r, b)' <=> ToCall(r, b) /\ b \notin {a}
  BY <1>1, <1>2, <1>4 DEF ToCall, Members, Children
<1>6. \A s \in Requests, b \in Appeals :
         call'[<<s, b>>] = IF s = r /\ b \in {a} THEN CallFor(b, q.trigger) ELSE call[<<s, b>>]
  BY <1>1, SlotFacts, FirstTypes DEF MoveLead, FirstInv
<1>7. {a} \in SUBSET Members(a) /\ Moving(r)'
  BY <1>4 DEF Members, Moving
<1>8. \A b \in Appeals : InProgress(<<r, b>>)' => b = a
  <2> SUFFICES ASSUME NEW b \in Appeals, b # a, InProgress(<<r, b>>)' PROVE FALSE
    OBVIOUS
  <2>1. InProgress(<<r, b>>)
    BY <1>6 DEF InProgress
  <2>2. b \in Members(a)
    BY <1>1, <2>1 DEF Together, CallWithin
  <2> QED BY <1>2, <2>1, <2>2 DEF Members
<1>9. /\ \A b \in {a} : ToCall(r, b)
      /\ \A b \in Members(a) : ToCall(r, b)' <=> ToCall(r, b) /\ b \notin {a}
  BY <1>5 DEF Members
<1> DEFINE called == {a}
<1> HIDE DEF called
<1>10. /\ \A b \in called : ToCall(r, b)
       /\ \A b \in Members(a) : ToCall(r, b)' <=> ToCall(r, b) /\ b \notin called
       /\ \A s \in Requests, b \in Appeals :
             call'[<<s, b>>] = IF s = r /\ b \in called THEN CallFor(b, q.trigger) ELSE call[<<s, b>>]
       /\ called \in SUBSET Members(a)
  BY <1>6, <1>7, <1>9 DEF called
<1> QED BY <1>1, <1>2, <1>3, <1>4, <1>7, <1>8, <1>10, TogetherCalls

\* A request ends when its calls are over, and the appeals of its group are at rest.
LEMMA TogetherResponds ==
    ASSUME FirstInv, VisitInv', Together, NEW r \in Requests, Respond(r), missed' = missed
    PROVE  Together'
<1>1. PICK a \in Appeals : a = request[r].appeal
  BY FirstTypes DEF FirstInv
<1>2. /\ request[r].step = "lead" /\ Moving(r) /\ ~InProgress(<<r, a>>)
      /\ request'[r].step = "idle" /\ \A s \in Requests \ {r} : request'[s] = request[s]
  BY <1>1, FirstTypes DEF FirstInv, Respond, NoRequest, Moving
<1>3. UNCHANGED <<kind, event, past, missed, currentStatus, history, call>>
  BY DEF Respond, vars, statusVars
<1>4. \A b \in Appeals : ~InProgress(<<r, b>>)
  BY <1>1, <1>2 DEF Together, CallWithin
<1>5. ASSUME NEW b \in Members(a)
      PROVE  currentStatus[b] = Goal(r, b)
  <2>1. b \in Appeals /\ ~ToCall(r, b)
    BY <1>1, <1>2, GroupOf DEF ToCall
  <2>2. OnTheWay(r, b)
    BY <1>1, <1>2, <2>1 DEF Together, Takes
  <2> QED BY <1>4, <2>1, <2>2 DEF OnTheWay, InProgress
<1>6. \A s \in Requests : /\ Busy(s)' => Busy(s) /\ s # r
                          /\ Moving(s)' <=> Moving(s) /\ s # r
                          /\ ~Preparing(s)'
                          /\ Alongside(s)' => Alongside(s)
  BY <1>2, AlikeMoving DEF Busy, Moving, Preparing, Alongside
<1>7. ASSUME NEW s \in Requests, NEW b \in Appeals, s # r, Moving(s), request[s].appeal = b
      PROVE  Takes(s, b)'
  <2>1. \A x : Goal(r, x) = Goal(s, x)
    BY <1>2, <1>7, GoalsAgree DEF Busy, Moving
  <2>2. LeadOf[b] = a => b \in Members(a)
    BY DEF Members, Children
  <2>3. \A t \in Requests :
           Moving(t) /\ request[t].appeal = LeadOf[b] /\ currentStatus[b] # Goal(s, b) =>
              Moving(t)' /\ request'[t].appeal = LeadOf[b]
    BY <1>1, <1>2, <1>5, <1>6, <2>1, <2>2
  <2> QED BY <1>2, <1>3, <1>6, <1>7, <2>3, TakesKept DEF Together
<1>8. ASSUME NEW b \in Appeals
      PROVE  Rests(b)' /\ VisitsAlike(b)'
  <2>1. Rests(b) /\ SameVisits(b) /\ (event[b] # "none" => missed[b] = "none")
    BY <1>2, AlikeMoving DEF Together
  <2>2. CASE LeadOf[b] = a
    <3>1. b \in Members(a) /\ a \in Members(a) /\ LeadOf[a] = a
      BY <2>2, AppealsAssumption DEF Members, Children
    <3>2. SameVisits(a)
      BY <1>2, AlikeMoving
    <3>3. Goal(r, a) = Goal(r, b) /\ (Fits(a, Goal(r, a)) => Fits(b, Goal(r, a)))
      BY <2>1, <2>2, <3>1, <3>2, SameSettles DEF Goal, FirstInv
    <3>4. Fits(b, currentStatus[b])
      BY <1>1, <1>2, <1>5, <3>1, <3>3 DEF Together, Takes
    <3> QED BY <1>3, <1>5, <2>1, <2>2, <3>1, <3>3, <3>4 DEF Rests, Fits, VisitsAlike, SameVisits
  <2>3. CASE LeadOf[b] # a
    BY <1>1, <1>2, <1>3, <1>6, <2>1, <2>3 DEF Rests, Fits, VisitsAlike, SameVisits
  <2> QED BY <2>2, <2>3
<1>9. ASSUME NEW s \in Requests, NEW b \in Appeals
      PROVE  Groups(s, b)' /\ CallWithin(s, b)'
  BY <1>2, <1>3, <1>4, <1>6 DEF Together, Groups, CallWithin, InProgress, ToCall
<1>10. \A s \in Requests, b \in Appeals : Takes(s, b)'
  <2> SUFFICES ASSUME NEW s \in Requests, NEW b \in Appeals PROVE Takes(s, b)'
    OBVIOUS
  <2>1. CASE s # r /\ Moving(s) /\ request[s].appeal = b
    BY <1>7, <2>1
  <2>2. CASE ~(s # r /\ Moving(s) /\ request[s].appeal = b)
    BY <1>2, <1>6, <2>2 DEF Takes
  <2> QED BY <2>1, <2>2
<1> QED BY <1>6, <1>8, <1>9, <1>10 DEF Together, Prepares

\* A step of a call that writes no status, and leaves the call on its way.
LEMMA TogetherCallKept ==
    ASSUME FirstInv, VisitInv', Together, NEW r \in Requests, NEW a \in Appeals,
           UNCHANGED <<kind, event, past, missed, currentStatus, history, request>>,
           InProgress(<<r, a>>), \A k \in Calls \ {<<r, a>>} : call'[k] = call[k],
           OnTheWay(r, a)'
    PROVE  Together'
<1>1. \A s \in Requests, b \in Appeals :
         call'[<<s, b>>] = call[<<s, b>>] \/ (s = r /\ b = a /\ OnTheWay(s, b)')
  BY SlotFacts
<1>2. \A s \in Requests : /\ Moving(s)' <=> Moving(s)
                          /\ Preparing(s)' <=> Preparing(s)
                          /\ Alongside(s)' => Alongside(s)
  BY DEF Moving, Preparing, Alongside, Busy
<1>3. Moving(r)
  BY DEF Together, CallWithin
<1>4. \A s \in Requests, b \in Appeals : Takes(s, b)'
  BY <1>1, <1>2, TakesKept DEF Together
<1>5. \A s \in Requests, b \in Appeals : Prepares(s, b)' /\ Groups(s, b)'
  BY <1>2, <1>3, AlikeMoving DEF Prepares, Groups, Together, Busy
<1>6. ASSUME NEW s \in Requests, NEW b \in Appeals
      PROVE  CallWithin(s, b)'
  <2>1. InProgress(<<s, b>>)' => InProgress(<<s, b>>)
    BY <1>1 DEF InProgress
  <2> QED BY <1>2, <2>1 DEF Together, CallWithin, ToCall
<1>7. \A b \in Appeals : Rests(b)' /\ VisitsAlike(b)'
  BY <1>2 DEF Together, Rests, Fits, VisitsAlike, SameVisits
<1> QED BY <1>4, <1>5, <1>6, <1>7 DEF Together

\* What is known of a call in progress.
LEMMA CallOnTheWay ==
    ASSUME FirstInv, Together, NEW r \in Requests, NEW a \in Appeals, InProgress(<<r, a>>)
    PROVE  /\ Moving(r) /\ OnTheWay(r, a) /\ ~ToCall(r, a)
           /\ Concludes(r) => currentStatus[a] \in {"awaiting_event", Goal(r, a)}
           /\ request[r].trigger \in {"Complete", "Incomplete"}
           /\ Concludes(r) => request[r].trigger = "Complete"
           /\ call[<<r, a>>].appeal = a
<1>1. PICK l \in Appeals : l = request[r].appeal /\ a \in Members(l) /\ Moving(r) /\ ~ToCall(r, a)
  BY DEF Together, CallWithin
<1>2. Takes(r, l) /\ Leading(r) /\ CallForward(r, a) /\ Busy(r)
  BY <1>1 DEF Together, FirstInv, Moving, Busy
<1> QED BY <1>1, <1>2 DEF Takes, Leading, CallForward, Concludes

\* A call that reads its appeal decides the status where its request takes the appeal,
\* or the event from which it is carried on there.
LEMMA TogetherReads ==
    ASSUME FirstInv, VisitInv', Together, NEW r \in Requests, NEW a \in Appeals,
           ReadAppeal(<<r, a>>), request' = request, missed' = missed
    PROVE  Together'
<1> DEFINE k == <<r, a>>
           c == call[k]
           new == NextStatus(kind[a].type, "written", eventElapsed(a), currentStatus[a], c.trigger)
           writing == [c EXCEPT !.step = "write", !.newState = new,
                                !.passed = isStatePassed(history[a], new),
                                !.arranged = isArranged(a)]
<1>1. /\ c \in CallRecord /\ call \in [Calls -> CallRecord] /\ k \in Calls /\ InProgress(k)
      /\ c.step = "read"
  BY FirstTypes DEF FirstInv, ReadAppeal, InProgress
<1>2. /\ Moving(r) /\ OnTheWay(r, a) /\ c.appeal = a
      /\ Concludes(r) => c.trigger = "Complete" /\ currentStatus[a] \in {"awaiting_event", Goal(r, a)}
      /\ c.trigger \in {"Complete", "Incomplete"}
      /\ SettlesFrom(currentStatus[a], c.trigger, a) = Goal(r, a)
  BY <1>1, CallOnTheWay DEF OnTheWay
<1>3. /\ kind[a].procedure = "written" /\ kind[a].type \in AppealType
      /\ currentStatus[a] \in Status /\ eventElapsed(a) \in BOOLEAN
      /\ currentStatus[a] # "lpa_questionnaire"
      /\ isAppealTypeAndProcedureTypeValid(kind[a].type, "written", currentStatus[a])
  BY WrittenCase DEF FirstInv, InOrder
<1>4. new = Onward(currentStatus[a], c.trigger, eventElapsed(a))
  BY <1>2, <1>3, ChartOnward
<1>5. UNCHANGED <<kind, event, past, missed, currentStatus, history, request>>
  BY DEF ReadAppeal, eventVars, statusVars
<1>6. \/ /\ new = currentStatus[a] /\ call' = [call EXCEPT ![k] = UpdatingList(c)]
      \/ /\ new # currentStatus[a] /\ call' = [call EXCEPT ![k] = writing]
  <2>1. NextStatusOf(a, eventElapsed(a), currentStatus[a], c.trigger) = new
    BY <1>3 DEF NextStatusOf
  <2> HIDE DEF new
  <2> QED BY <1>2, <2>1 DEF ReadAppeal
<1>7. /\ UpdatingList(c).step = "readList"
      /\ writing.step = "write" /\ writing.newState = new /\ writing.arranged = isArranged(a)
      /\ writing.passed = isStatePassed(history[a], new)
  BY <1>1, UpdatingListFacts DEF CallRecord
<1> HIDE DEF writing, new
<1>8. Goal(r, a)' = Goal(r, a) /\ (Concludes(r)' <=> Concludes(r))
  BY <1>5, VisitsKept DEF Goal, SettlesFrom, Concludes
<1>9. CASE new = currentStatus[a]
  <2>1. currentStatus[a] = Goal(r, a)
    BY <1>2, <1>4, <1>9 DEF SettlesFrom, RestOf
  <2> QED BY <1>1, <1>5, <1>6, <1>7, <1>8, <1>9, <2>1, TogetherCallKept DEF OnTheWay
<1>10. CASE new # currentStatus[a]
  <2>1. CarriedOn(new, isArranged(a)) = Goal(r, a)
    BY <1>2, <1>4, <1>10 DEF SettlesFrom, RestOf
  <2>2. Concludes(r) => new = Goal(r, a)
    <3> SUFFICES ASSUME Concludes(r) PROVE new = Goal(r, a)
      OBVIOUS
    <3>1. Goal(r, a) \in {"awaiting_event", "issue_determination"}
      BY SettlesAgain DEF Goal, Concludes
    <3>2. currentStatus[a] = "awaiting_event" /\ new = "issue_determination"
      BY <1>2, <1>4, <1>10, <3>1 DEF Onward
    <3> QED BY <2>1, <3>2 DEF CarriedOn
  <2>3. isStatePassed(history[a], new) => RowsWith(history[a], new) # {}
    BY <1>10, PassedIsRecorded, FirstTypes
       DEF FirstInv, VisitInv, GroupInv, RowsInv, TypeOK, LastRowIsCurrent
  <2>4. call'[k] = writing /\ \A j \in Calls \ {k} : call'[j] = call[j]
    BY <1>1, <1>6, <1>10
  <2>5. OnTheWay(r, a)'
    BY <1>5, <1>7, <1>8, <2>1, <2>2, <2>3, <2>4 DEF OnTheWay
  <2> QED BY <1>1, <1>5, <2>4, <2>5, TogetherCallKept
<1> QED BY <1>9, <1>10

\* A call that writes its status takes its appeal where its request does, or to the event
\* from which it goes on.  Requests of one run of the job agree on where that is.
LEMMA TogetherWrites ==
    ASSUME FirstInv, VisitInv', Together, NEW r \in Requests, NEW a \in Appeals,
           Advance(<<r, a>>) \/ RollBack(<<r, a>>), request' = request, missed' = missed
    PROVE  Together'
<1> DEFINE k == <<r, a>>
           c == call[k]
           new == c.newState
<1>1. /\ c \in CallRecord /\ call \in [Calls -> CallRecord] /\ k \in Calls /\ TypeOK
      /\ c.step = "write" /\ InProgress(k)
  BY FirstTypes DEF FirstInv, Advance, RollBack, InProgress
<1>2. /\ Moving(r) /\ c.appeal = a
      /\ CarriedOn(new, c.arranged) = Goal(r, a) /\ (Concludes(r) => new = Goal(r, a))
  BY <1>1, CallOnTheWay DEF OnTheWay
<1>3. /\ call' = [call EXCEPT ![k] = AfterWrite(k)] /\ UNCHANGED <<kind, event, past, missed, request>>
      /\ currentStatus' = [currentStatus EXCEPT ![a] = new]
      /\ \A b \in Appeals \ {a} : history'[b] = history[b]
  BY <1>1, <1>2 DEF Advance, RollBack, eventVars, TypeOK
<1>4. AfterWrite(k) = IF new = "event" /\ c.arranged THEN CallingComplete(c) ELSE UpdatingList(c)
  <2>1. kind[a].procedure = "written"
    BY WrittenCase DEF FirstInv
  <2> QED BY <1>2, <2>1 DEF AfterWrite
<1>5. \A s \in Requests, b \in Appeals :
         call'[<<s, b>>] = IF s = r /\ b = a THEN AfterWrite(k) ELSE call[<<s, b>>]
  BY <1>1, <1>3, SlotFacts
<1>6. /\ currentStatus'[a] = new
      /\ \A b \in Appeals \ {a} : currentStatus'[b] = currentStatus[b]
  BY <1>1, <1>3 DEF TypeOK
<1>7. \A s, x : /\ Goal(s, x)' = Goal(s, x) /\ (ToCall(s, x)' <=> ToCall(s, x))
                /\ Concludes(s)' <=> Concludes(s)
                /\ Moving(s)' <=> Moving(s)
                /\ Alongside(s)' <=> Alongside(s)
                /\ Preparing(s)' <=> Preparing(s)
                /\ Busy(s)' <=> Busy(s)
                /\ \A status : Fits(x, status)' <=> Fits(x, status)
  BY <1>3, VisitsKept DEF Goal, SettlesFrom, ToCall, Concludes, Moving, Alongside, Preparing, Busy
<1>8. OnTheWay(r, a)'
  <2>1. CASE new = "event" /\ c.arranged
    <3>1. /\ call'[k].step = "read" /\ call'[k].trigger = "Complete"
      BY <1>1, <1>4, <1>5, <2>1, CallingCompleteFacts
    <3>2. SettlesFrom(currentStatus[a], call[k].trigger, a)' = "awaiting_event"
      BY <1>6, <2>1, <3>1 DEF SettlesFrom, RestOf, Onward, CarriedOn
    <3>3. Goal(r, a) = "awaiting_event"
      BY <1>2, <2>1 DEF CarriedOn
    <3> QED BY <1>7, <3>1, <3>2, <3>3 DEF OnTheWay
  <2>2. CASE ~(new = "event" /\ c.arranged)
    <3>1. call'[k].step = "readList"
      BY <1>1, <1>4, <1>5, <2>2, UpdatingListFacts
    <3>2. currentStatus'[a] = Goal(r, a)
      BY <1>2, <1>6, <2>2 DEF CarriedOn
    <3> QED BY <1>7, <3>1, <3>2 DEF OnTheWay
  <2> QED BY <2>1, <2>2
<1>9. ASSUME NEW s \in Requests, Moving(s), Concludes(s), Goal(s, a) = new
      PROVE  IF ToCall(s, a) THEN SettlesFrom(currentStatus[a], request[s].trigger, a)' = Goal(s, a)
             ELSE OnTheWay(s, a) => OnTheWay(s, a)'
  <2>1. /\ new \in {"awaiting_event", "issue_determination"}
        /\ SettlesFrom(new, "Complete", a) = new /\ request[s].trigger = "Complete"
    BY <1>9, SettlesAgain DEF Goal, Concludes
  <2>2. SettlesFrom(currentStatus[a], "Complete", a)' = new
    BY <1>3, <1>6, <2>1, VisitsKept DEF SettlesFrom
  <2>3. RowsWith(history'[a], new) # {}
    <3>1. OnlyLastRowValid(history'[a]) /\ history'[a][Len(history'[a])].status = new
      BY <1>6 DEF VisitInv, GroupInv, RowsInv, LastRowIsCurrent
    <3> QED BY <3>1 DEF RowsWith, OnlyLastRowValid
  <2>4. CASE s = r
    BY <1>3, <1>8, <1>9, <2>1, <2>2, <2>4 DEF SettlesFrom
  <2>5. CASE s # r
    <3>1. call'[<<s, a>>] = call[<<s, a>>]
      BY <1>5, <2>5
    <3>2. SettlesFrom(currentStatus[a], request[s].trigger, a)' = Goal(s, a)
      BY <1>3, <1>9, <2>1, <2>2 DEF SettlesFrom
    <3>3. ASSUME OnTheWay(s, a)
          PROVE  OnTheWay(s, a)'
      <4>1. CASE call[<<s, a>>].step = "read"
        <5>1. call[<<s, a>>].trigger = "Complete"
          BY <2>1, <3>3, <4>1 DEF OnTheWay
        <5>2. SettlesFrom(currentStatus[a], call[<<s, a>>].trigger, a)' = Goal(s, a)
          BY <1>9, <2>2, <3>1, <5>1 DEF SettlesFrom
        <5> QED BY <1>3, <1>7, <3>1, <4>1, <5>1, <5>2 DEF OnTheWay
      <4>2. CASE call[<<s, a>>].step = "write"
        <5>1. call[<<s, a>>].newState = new
          BY <1>9, <3>3, <4>2 DEF OnTheWay
        <5> QED BY <1>7, <2>3, <3>1, <3>3, <4>2, <5>1 DEF OnTheWay
      <4>3. CASE call[<<s, a>>].step \notin {"read", "write"}
        BY <1>6, <1>7, <1>9, <3>1, <4>3 DEF OnTheWay
      <4> QED BY <4>1, <4>2, <4>3
    <3> QED BY <3>2, <3>3
  <2> QED BY <2>4, <2>5
<1>10. ASSUME NEW s \in Requests, Moving(s), s # r
       PROVE  Concludes(s) /\ Goal(s, a) = new
  BY <1>2, <1>10, GoalsAgree DEF Moving, Busy
<1>11. ASSUME NEW s \in Requests, NEW b \in Appeals, Moving(s), request[s].appeal = b
       PROVE  Takes(s, b)'
  <2>1. Takes(s, b)
    BY DEF Together
  <2>2. ASSUME NEW x \in Members(b)
        PROVE  /\ IF ToCall(s, x) THEN SettlesFrom(currentStatus[x], request[s].trigger, x)' = Goal(s, x)
                  ELSE OnTheWay(s, x)'
               /\ Concludes(s) => currentStatus'[x] \in {"awaiting_event", Goal(s, x)}
    <3>1. x \in Appeals
      BY GroupOf
    <3>2. CASE x # a
      <4>1. /\ currentStatus'[x] = currentStatus[x] /\ history'[x] = history[x]
            /\ call'[<<s, x>>] = call[<<s, x>>]
        BY <1>3, <1>5, <1>6, <3>1, <3>2
      <4>2. \A trigger : SettlesFrom(currentStatus[x], trigger, x)'
                            = SettlesFrom(currentStatus[x], trigger, x)
        BY <1>3, <4>1, VisitsKept DEF SettlesFrom
      <4>3. OnTheWay(s, x) => OnTheWay(s, x)'
        BY <1>3, <1>7, <4>1, <4>2 DEF OnTheWay, SettlesFrom
      <4> QED BY <1>3, <1>11, <2>1, <4>1, <4>2, <4>3 DEF Takes, SettlesFrom
    <3>3. CASE x = a /\ s = r
      <4>1. ~ToCall(r, a)
        BY <1>1, CallOnTheWay
      <4> QED BY <1>2, <1>6, <1>8, <3>3, <4>1
    <3>4. CASE x = a /\ s # r
      <4>1. Concludes(s) /\ Goal(s, a) = new
        BY <1>10, <1>11, <3>4
      <4>2. /\ ~ToCall(s, a) => OnTheWay(s, a)
            /\ IF ToCall(s, a) THEN SettlesFrom(currentStatus[a], request[s].trigger, a)' = Goal(s, a)
               ELSE OnTheWay(s, a) => OnTheWay(s, a)'
        BY <1>9, <1>11, <2>1, <3>4, <4>1 DEF Takes
      <4>3. currentStatus'[a] = new
        BY <1>6
      <4> QED BY <3>4, <4>1, <4>2, <4>3
    <3> QED BY <3>2, <3>3, <3>4
  <2>3. ASSUME LeadOf[b] # b
        PROVE  \/ currentStatus'[b] = Goal(s, b)
               \/ \E t \in Requests : Moving(t) /\ request[t].appeal = LeadOf[b]
    <3>1. CASE b = a
      <4>1. s = r => Concludes(r)
        BY <1>11, <2>1, <2>3 DEF Takes
      <4> QED BY <1>2, <1>6, <1>10, <1>11, <3>1, <4>1
    <3>2. CASE b # a
      BY <1>6, <1>11, <2>1, <2>3, <3>2 DEF Takes
    <3> QED BY <3>1, <3>2
  <2> QED BY <1>3, <1>7, <1>11, <2>1, <2>2, <2>3 DEF Takes
<1>12. ASSUME NEW s \in Requests, NEW b \in Appeals
       PROVE  Takes(s, b)'
  <2>1. CASE Moving(s) /\ request[s].appeal = b
    BY <1>11, <2>1
  <2>2. CASE ~(Moving(s) /\ request[s].appeal = b)
    <3>1. ~(Moving(s)' /\ request'[s].appeal = b)
      BY <1>3, <1>7, <2>2
    <3> QED BY <3>1 DEF Takes
  <2> QED BY <2>1, <2>2
<1>13. ASSUME NEW s \in Requests, NEW b \in Appeals
       PROVE  CallWithin(s, b)' /\ Prepares(s, b)' /\ Groups(s, b)'
  <2>1. InProgress(<<s, b>>)' => InProgress(<<s, b>>)
    BY <1>1, <1>5 DEF InProgress
  <2>2. CallWithin(s, b)'
    BY <1>3, <1>7, <2>1 DEF Together, CallWithin
  <2>3. Prepares(s, b)'
    BY <1>2, <1>7, AlikeMoving DEF Prepares
  <2>4. Groups(s, b)'
    <3>1. Groups(s, b)
      BY DEF Together
    <3> QED BY <1>3, <1>7, <3>1 DEF Groups
  <2> QED BY <2>2, <2>3, <2>4
<1>14. ASSUME NEW b \in Appeals
       PROVE  Rests(b)' /\ VisitsAlike(b)'
  <2>1. /\ SameVisits(b)' /\ (event'[b] # "none" => missed'[b] = "none")
    BY <1>2, <1>3, AlikeMoving DEF SameVisits
  <2>2. ASSUME \A s \in Requests : Moving(s) => request[s].appeal # LeadOf[b],
               LeadOf[b] = a \/ b = a
        PROVE  new = currentStatus[a]
    <3>1. PICK l \in Appeals : l = request[r].appeal
      BY FirstTypes DEF FirstInv
    <3>2. a \in Members(l) /\ l # LeadOf[b]
      BY <1>1, <1>2, <2>2, <3>1 DEF Together, CallWithin
    <3>3. l = a /\ b = a /\ LeadOf[a] # a
      BY <2>2, <3>2, AppealsAssumption DEF Members, Children
    <3>4. Concludes(r) /\ currentStatus[a] = Goal(r, a)
      BY <1>2, <2>2, <3>1, <3>3 DEF Together, Takes
    <3> QED BY <1>2, <3>4
  <2>3. LeadOf[b] \in Appeals
    BY FirstTypes DEF FirstInv
  <2>4. Rests(b)'
    <3> SUFFICES ASSUME \A s \in Requests : Moving(s) => request[s].appeal # LeadOf[b]
                 PROVE  currentStatus'[b] = currentStatus'[LeadOf[b]] /\ Fits(b, currentStatus[b])'
      BY <1>3, <1>7 DEF Rests
    <3>1. currentStatus[b] = currentStatus[LeadOf[b]] /\ Fits(b, currentStatus[b])
      BY DEF Together, Rests
    <3>2. currentStatus'[b] = currentStatus[b] /\ currentStatus'[LeadOf[b]] = currentStatus[LeadOf[b]]
      BY <1>6, <2>2, <2>3
    <3> QED BY <1>3, <3>1, <3>2 DEF Fits
  <2> QED BY <2>1, <2>4 DEF VisitsAlike
<1> QED BY <1>12, <1>13, <1>14 DEF Together

\* The other steps of a call decide nothing: the row it goes back to is there, as another
\* call has written nothing but the same status.
LEMMA TogetherRunsOn ==
    ASSUME FirstInv, VisitInv', Together, NEW r \in Requests, NEW a \in Appeals,
           CallStepOf(r, a), missed' = missed
    PROVE  Together'
<1> DEFINE k == <<r, a>>
           c == call[k]
<1>1. /\ TypeOK /\ k \in Calls /\ Step(k) /\ InProgress(k) /\ UNCHANGED eventVars
      /\ \A j \in Calls \ {k} : call'[j] = call[j]
      /\ c.step # "proofs"
  <2>1. TypeOK /\ k \in Calls /\ Step(k)
    BY FirstTypes DEF CallStepOf, FirstInv
  <2>2. InProgress(k) /\ UNCHANGED eventVars /\ \A j \in Calls \ {k} : call'[j] = call[j]
    BY <2>1, StepStays
  <2> QED BY <2>1, <2>2 DEF FirstInv, CallForward
<1>2. OnTheWay(r, a) /\ c.appeal = a
  BY <1>1, CallOnTheWay
<1>3. ~RowGone(k) /\ request' = request
  <2>1. ~RowGone(k)
    BY <1>2 DEF OnTheWay, RowGone
  <2>2. request \in [Requests -> Request]
    BY FirstTypes DEF FirstInv
  <2> QED BY <1>1, <2>1, <2>2 DEF CallStepOf
<1>4. CASE ReadAppeal(k)
  BY <1>3, <1>4, TogetherReads
<1>5. CASE Advance(k) \/ RollBack(k)
  BY <1>3, <1>5, TogetherWrites
<1>6. CASE ~ReadAppeal(k) /\ ~Advance(k) /\ ~RollBack(k)
  <2>1. UNCHANGED statusVars /\ c.step \notin {"read", "write"}
    BY <1>1, <1>3, <1>6
       DEF Step, RollBackThrows, ReadProofs, ReadForList, WriteList, WriteChildren, RowGone
  <2>2. call'[k].step \notin {"read", "write"}
    BY <1>1, <1>6, <2>1, StepWrites
  <2>3. UNCHANGED <<kind, event, past, missed, currentStatus, history, request>>
    BY <1>1, <1>3, <2>1 DEF eventVars, statusVars
  <2>4. Goal(r, a)' = Goal(r, a)
    BY <2>3, VisitsKept DEF Goal, SettlesFrom
  <2>5. OnTheWay(r, a)'
    BY <1>2, <2>1, <2>2, <2>3, <2>4 DEF OnTheWay
  <2> QED BY <1>1, <2>3, <2>5, TogetherCallKept
<1> QED BY <1>4, <1>5, <1>6

\* The date of a group's visits goes by for all of them, between two requests.
LEMMA TogetherPass ==
    ASSUME FirstInv, Together, NEW a \in Leads, VisitsPast(a), Quiet
    PROVE  Together'
<1>1. /\ \A s \in Requests : ~Busy(s) /\ ~Moving(s) /\ ~Preparing(s)
      /\ \A s \in Requests, b \in Appeals : ~InProgress(<<s, b>>)
      /\ \A b \in Appeals : /\ currentStatus[b] = currentStatus[LeadOf[b]] /\ Fits(b, currentStatus[b])
                            /\ SameVisits(b) /\ (event[b] # "none" => missed[b] = "none")
  BY AllAtRest DEF Quiet
<1>2. /\ past' = [b \in Appeals |-> past[b] \/ (b \in Members(a) /\ HasDate(b))]
      /\ UNCHANGED <<currentStatus, event, missed, call, request>>
  BY DEF VisitsPast, statusVars
<1>3. \A s \in Requests : ~Busy(s)' /\ ~Moving(s)' /\ ~Preparing(s)'
  BY <1>1, <1>2 DEF Busy, Moving, Preparing
<1>4. \A s \in Requests, b \in Appeals : ~InProgress(<<s, b>>)'
  BY <1>1, <1>2 DEF InProgress
<1>5. ASSUME NEW b \in Appeals
      PROVE  Rests(b)' /\ VisitsAlike(b)'
  <2>1. LeadOf[b] \in Appeals /\ (b \in Members(a) <=> LeadOf[b] \in Members(a))
    BY AppealsAssumption DEF Leads, Members, Children
  <2>2. HasDate(b) <=> HasDate(LeadOf[b])
    BY <1>1 DEF SameVisits, HasDate
  <2>3. past'[b] = past'[LeadOf[b]]
    <3>1. past[b] = past[LeadOf[b]] /\ past \in [Appeals -> BOOLEAN]
      BY <1>1, VisitTypes DEF SameVisits, FirstInv
    <3> QED BY <1>2, <2>1, <2>2, <3>1
  <2> QED BY <1>1, <1>2, <2>3 DEF Rests, Fits, VisitsAlike, SameVisits
<1> QED BY <1>3, <1>4, <1>5 DEF Together, Prepares, Takes, Groups, CallWithin

\* There is no mishap yet, or what has happened since is as above.
TogetherInv == FirstInv /\ (mishaps = 0 => Together)

\* The appeals start before they await a visit, as they start without one.
BeforeVisit == StartPath[Len(StartPath)] # "awaiting_event"

\* Every step keeps the groups together, until a mishap.
LEMMA TogetherNext ==
    ASSUME Serialised
    PROVE  TogetherInv /\ [VisitNext]_visitVars => TogetherInv'
<1> SUFFICES ASSUME TogetherInv, [VisitNext]_visitVars PROVE TogetherInv'
  OBVIOUS
<1>1. FirstInv' /\ VisitInv' /\ mishaps \in Nat
  BY FirstNext, VisitInvNext DEF TogetherInv, FirstInv, VisitInv, GroupInv, GroupTypeOK
<1> SUFFICES ASSUME mishaps' = 0 PROVE Together'
  BY <1>1 DEF TogetherInv
<1>2. ~Mishap
  BY <1>1 DEF Mishap
<1>3. CASE VisitWorking
  <2>1. ASSUME NEW r \in Requests, VisitStep(r)
        PROVE  Together'
    <3>1. mishaps = 0
      BY <2>1 DEF VisitStep, ReadMissed, CreateVisit, CreateForChildren, UpdateVisits, UpdateMissed,
         DeleteVisits, RecordMissed, MoveStep, MoveChildren, MoveLead, Respond, CallStepOf
    <3> QED BY <1>1, <2>1, <3>1, TogetherPrepares, TogetherSaves, TogetherMovesChildren,
           TogetherMovesLead, TogetherResponds, TogetherRunsOn DEF VisitStep, MoveStep, TogetherInv
  <2>2. ASSUME NEW a \in Leads, VisitsPass(a)
        PROVE  Together'
    BY <1>2, <2>2, TogetherPass DEF VisitsPass, TogetherInv
  <2>3. CASE \/ \E r \in Requests, a \in Appeals :
                   \/ LoadPost(r, a) \/ LoadRearrange(r, a) \/ LoadCancel(r, a)
                   \/ LoadMissed(r, a) \/ Publish(r, a)
             \/ RunJob
    <3>1. mishaps = 0
      BY <2>3 DEF LoadPost, LoadRearrange, LoadCancel, LoadMissed, Publish, LoadPublish, Receive,
         RunJob, LoadJob
    <3> QED BY <1>1, <2>3, <3>1, TogetherArrives DEF TogetherInv
  <2> QED BY <1>3, <2>1, <2>2, <2>3 DEF VisitWorking
<1>4. CASE VisitFailing
  BY <1>2, <1>4 DEF VisitFailing, CallFails, ProcessStops, NotifyFails
<1>5. CASE UNCHANGED visitVars
  <2>1. mishaps = 0 /\ UNCHANGED <<kind, event, past, missed, currentStatus, history, call, request>>
    BY <1>5 DEF visitVars, vars, statusVars, groupVars
  <2>2. Together
    BY <2>1 DEF TogetherInv
  <2>3. \A r \in Requests, a \in Appeals : Takes(r, a)'
    BY <2>1, <2>2, TakesKept DEF Together, Alongside, Busy, Moving
  <2>4. \A r \in Requests, a \in Appeals : Prepares(r, a)'
    BY <2>1, <2>2 DEF Together, Prepares, Preparing, Free, Busy, InProgress, HasVisit
  <2>5. \A r \in Requests, a \in Appeals : Groups(r, a)' /\ CallWithin(r, a)'
    BY <2>1, <2>2 DEF Together, Groups, CallWithin, Busy, InProgress, Moving, ToCall
  <2>6. \A a \in Appeals : Rests(a)' /\ VisitsAlike(a)'
    BY <2>1, <2>2 DEF Together, Rests, VisitsAlike, Moving, Fits, SameVisits
  <2> QED BY <2>3, <2>4, <2>5, <2>6 DEF Together
<1> QED BY <1>3, <1>4, <1>5 DEF VisitNext

LEMMA TogetherHolds ==
    ASSUME Serialised, PastQuestionnaire, BeforeVisit
    PROVE  VisitSpec => []TogetherInv
<1>1. VisitInit => TogetherInv
  BY FirstStart, TogetherStart DEF TogetherInv, BeforeVisit
<1> QED BY <1>1, TogetherNext, PTL DEF VisitSpec

\* When nothing is in progress and there was no mishap, the groups are together and their
\* visits are right.
LEMMA TogetherSettled ==
    ASSUME TogetherInv, Settled
    PROVE  \A a \in Appeals : currentStatus[a] = currentStatus[LeadOf[a]] /\ Fits(a, currentStatus[a])
BY AllAtRest DEF TogetherInv, Settled, Quiet

\* The appeals of a group are at one status whenever nothing moves, if requests come in
\* one at a time and none failed (transitionLinkedChildAppealsState before every move).
THEOREM GroupsSettleTogether ==
    ASSUME Serialised, PastQuestionnaire, BeforeVisit
    PROVE  VisitSpec => []GroupTogether
<1>1. TogetherInv => GroupTogether
  BY TogetherSettled DEF GroupTogether
<1> QED BY <1>1, TogetherHolds, PTL

\* An appeal that awaits its visit has one that was not missed.
THEOREM AwaitedVisitExists ==
    ASSUME Serialised, PastQuestionnaire, BeforeVisit
    PROVE  VisitSpec => []AwaitedHasVisit
<1>1. TogetherInv => AwaitedHasVisit
  BY TogetherSettled DEF AwaitedHasVisit, Fits
<1> QED BY <1>1, TogetherHolds, PTL

\* An appeal whose visit was missed neither awaits it nor is up for decision.
THEOREM MissedVisitReopens ==
    ASSUME Serialised, PastQuestionnaire, BeforeVisit
    PROVE  VisitSpec => []MissedReopens
<1>1. TogetherInv => MissedReopens
  BY TogetherSettled DEF MissedReopens, Fits
<1> QED BY <1>1, TogetherHolds, PTL
=============================================================================
