-------------------------- MODULE CaseEnding_proofs --------------------------
(***************************************************************************)
(* Proofs about the ways a case ends, for any groups, number of requests   *)
(* at a time, overlapping or not, and number of mishaps.                   *)
(***************************************************************************)
EXTENDS CaseEnding, SiteVisits_proofs

EndingTypes == VisitInv /\ EndingTypeOK

\* What a trigger that ends a case asks for.
TriggerGround(a, trigger) ==
    /\ trigger = "complete" => decision[a] # "none" /\ OutcomeStatus(a) = "complete"
    /\ trigger = "invalid" => decision[a] = "invalid" /\ LeadOf[a] = a
    /\ trigger = "Invalid" => "invalidOutcome" \in stored[a]
    /\ trigger = "withdrawn" => "withdrawalRequestDate" \in stored[a]
    /\ trigger \in {"closed", "awaiting_transfer"} => "caseResubmittedTypeId" \in stored[a]
    /\ trigger = "transferred" => "caseTransferredId" \in stored[a]

\* The reason for a status is stored, and if that is a decision the status is its.
Grounded(a, status) == HasGround(a, status) /\ AsDecided(a, status)

DecidesCase(w) == w.ending \in {"decide", "decideChild"}

\* What the work on an appeal has stored by the step it is at.
WorkGround(a, w) ==
    /\ w.step # "idle" /\ w.ending = "decide" => LeadOf[a] = a
    /\ w.step # "idle" /\ w.ending = "decideChild" => LeadOf[a] # a
    /\ w.step \in {"loaded", "stored"} /\ DecidesCase(w) => w.outcome # "none"
    /\ w.step = "stored" /\ DecidesCase(w) => decision[a] = w.outcome
    /\ w.step = "stored" /\ ~DecidesCase(w) => GroundOf(w.ending) \in stored[a]
    /\ w.step = "stored" /\ w.ending = "resubmit" => "invalidOutcome" \in stored[a]
    /\ w.step = "resubmitted" =>
          w.ending = "resubmit" /\ "caseResubmittedTypeId" \in stored[a]

\* The first conjunct is EndHasGround and EndsAsDecided; the others carry the reason from where it
\* is stored, through the trigger a call is made with, to the status it writes.
GroundInv ==
    /\ EndHasGround /\ EndsAsDecided
    /\ \A k \in Calls :
          /\ call[k].step = "write" => Grounded(call[k].appeal, call[k].newState)
          /\ call[k].step = "read" => TriggerGround(call[k].appeal, call[k].trigger)
          /\ WorkGround(k[2], work[k])
    /\ \A r \in Requests : request[r].trigger \in {"Complete", "Incomplete"}

EndingInv == EndingTypes /\ GroundInv

-----------------------------------------------------------------------------
(* What the proofs rest on.                                                *)

\* The types a step of an ending finds.
LEMMA EndingFinds ==
    ASSUME EndingTypes
    PROVE  /\ decision \in [Appeals -> Decision] /\ stored \in [Appeals -> SUBSET Ground]
           /\ work \in [Calls -> Work] /\ call \in [Calls -> CallRecord]
           /\ request \in [Requests -> Request] /\ mishaps \in 0..MaxMishaps
           /\ currentStatus \in [Appeals -> Status]
           /\ \A k \in Calls : k[1] \in Requests /\ k[2] \in Appeals
BY GroupAssumption DEF EndingTypes, EndingTypeOK, VisitInv, VisitTypeOK, GroupInv, GroupTypeOK,
   TypeOK

\* The chart ends a case only when it is told to, by the trigger of that end.
LEMMA ChartEnds ==
    ASSUME NEW type, NEW procedure, NEW elapsed \in BOOLEAN,
           NEW status \in Status, NEW trigger \in Trigger
    PROVE  LET new == NextStatus(type, procedure, elapsed, status, trigger) IN
           new # status =>
              /\ new \in {"complete", "withdrawn", "closed", "awaiting_transfer", "transferred"} =>
                    trigger = new
              /\ new = "invalid" => trigger \in {"invalid", "Invalid"}
              /\ new = "transferred" => status = "awaiting_transfer"
<1>1. CASE status \in FinalStatus
  BY <1>1 DEF NextStatus, FinalStatus, WorkingStatus, Status
<1>2. CASE status = "awaiting_transfer"
  BY <1>2 DEF NextStatus, FinalStatus, WorkingStatus, Status
<1>3. CASE status \in WorkingStatus
  BY <1>3 DEF NextStatus, FinalStatus, WorkingStatus, Status, Trigger, OutcomeTrigger,
     StatusTrigger, targetStateOnLpaqComplete, targetStateOnStatementsComplete,
     targetStateOnEventCancelled
<1> QED BY <1>1, <1>2, <1>3 DEF Status

\* So a case that the chart ends has the reason stored.
LEMMA ChartKeepsGround ==
    ASSUME NEW a \in Appeals, NEW elapsed \in BOOLEAN, NEW status \in Status,
           NEW trigger \in Trigger, Grounded(a, status), TriggerGround(a, trigger)
    PROVE  Grounded(a, NextStatusOf(a, elapsed, status, trigger))
<1> DEFINE new == NextStatusOf(a, elapsed, status, trigger)
<1>1. CASE new = status
  BY <1>1
<1>2. CASE new # status
  <2>1. /\ new \in {"complete", "withdrawn", "closed", "awaiting_transfer", "transferred"} =>
              trigger = new
        /\ new = "invalid" => trigger \in {"invalid", "Invalid"}
        /\ new = "transferred" => status = "awaiting_transfer"
    BY <1>2, ChartEnds DEF NextStatusOf
  <2> HIDE DEF new
  <2>2. Grounded(a, new)
    BY <2>1 DEF Grounded, HasGround, AsDecided, OutcomeStatus, TriggerGround
  <2> QED BY <2>2 DEF new
<1> QED BY <1>1, <1>2

\* What is stored stays: a decision as it is, the rest as it may be added to.
Grows ==
    /\ \A a \in Appeals : decision[a] # "none" => decision'[a] = decision[a]
    /\ \A a \in Appeals : stored[a] \subseteq stored'[a]

\* A status, a trigger or a work that had its reason stored still has it.
LEMMA GroundGrows ==
    ASSUME Grows, NEW a \in Appeals
    PROVE  /\ \A status : Grounded(a, status) => Grounded(a, status)'
           /\ \A trigger : TriggerGround(a, trigger) => TriggerGround(a, trigger)'
           /\ \A w : WorkGround(a, w) => WorkGround(a, w)'
<1>1. \A status : Grounded(a, status) => Grounded(a, status)'
  BY DEF Grows, Grounded, HasGround, AsDecided, OutcomeStatus
<1>2. \A trigger : TriggerGround(a, trigger) => TriggerGround(a, trigger)'
  BY DEF Grows, TriggerGround, OutcomeStatus
<1>3. \A w : WorkGround(a, w) => WorkGround(a, w)'
  BY DEF Grows, WorkGround
<1> QED BY <1>1, <1>2, <1>3

\* A step keeps GroundInv when the status of each appeal, and each call, work and
\* request it leaves, is what it was or has its reason stored.
LEMMA GroundKept ==
    ASSUME EndingInv, Grows,
           \A a \in Appeals :
              currentStatus'[a] = currentStatus[a] \/ Grounded(a, currentStatus'[a]),
           \A k \in Calls :
              \/ call'[k] = call[k]
              \/ call'[k].step \notin {"read", "write"}
              \/ /\ call'[k].step = "read" /\ call'[k].appeal \in Appeals
                 /\ TriggerGround(call'[k].appeal, call'[k].trigger)
              \/ /\ call'[k].step = "write" /\ call'[k].appeal \in Appeals
                 /\ Grounded(call'[k].appeal, call'[k].newState),
           \A k \in Calls : work'[k] = work[k] \/ WorkGround(k[2], work[k])',
           \A r \in Requests : request'[r].trigger \in {"Complete", "Incomplete"}
    PROVE  GroundInv'
<1>1. EndingTypes /\ GroundInv
  BY DEF EndingInv
<1>2. \A k \in Calls : call[k].appeal \in Appeals /\ k[2] \in Appeals
  BY <1>1, EndingFinds DEF CallRecord
<1>3. EndHasGround' /\ EndsAsDecided'
  <2>1. \A a \in Appeals : Grounded(a, currentStatus[a])
    BY <1>1 DEF GroundInv, EndHasGround, EndsAsDecided, Grounded
  <2>2. \A a \in Appeals : Grounded(a, currentStatus[a])'
    BY <2>1, GroundGrows
  <2> QED BY <2>2 DEF EndHasGround, EndsAsDecided, Grounded
<1>4. ASSUME NEW k \in Calls, call'[k].step = "write"
      PROVE  Grounded(call[k].appeal, call[k].newState)'
  <2>1. Grounded(call'[k].appeal, call'[k].newState) /\ call'[k].appeal \in Appeals
    BY <1>1, <1>2, <1>4 DEF GroundInv
  <2> QED BY <2>1, GroundGrows
<1>5. ASSUME NEW k \in Calls, call'[k].step = "read"
      PROVE  TriggerGround(call[k].appeal, call[k].trigger)'
  <2>1. TriggerGround(call'[k].appeal, call'[k].trigger) /\ call'[k].appeal \in Appeals
    BY <1>1, <1>2, <1>5 DEF GroundInv
  <2> QED BY <2>1, GroundGrows
<1>6. ASSUME NEW k \in Calls
      PROVE  WorkGround(k[2], work[k])'
  <2>1. CASE work'[k] = work[k]
    BY <1>1, <1>2, <2>1, GroundGrows DEF GroundInv
  <2>2. CASE WorkGround(k[2], work[k])'
    BY <2>2
  <2> QED BY <2>1, <2>2
<1> QED BY <1>3, <1>4, <1>5, <1>6 DEF GroundInv

\* A step that stores no reason and starts no work.
LEMMA NothingStored == UNCHANGED <<decision, stored>> => Grows
BY DEF Grows

-----------------------------------------------------------------------------
(* Steps that are not about the end of a case.                             *)

\* The triggers of site visits end no case.
LEMMA VisitTriggers ==
    \A a, trigger : trigger \in {"Complete", "Incomplete", "Valid"} => TriggerGround(a, trigger)
BY DEF TriggerGround

\* A step of a call writes a status only if its reason is stored, and decides on
\* one only if that of its trigger is.
LEMMA GroundCallStep ==
    ASSUME EndingInv, NEW r \in Requests, NEW a \in Appeals, CallStepOf(r, a), endingIdle
    PROVE  GroundInv'
<1> DEFINE k == <<r, a>>
           c == call[k]
<1>1. /\ k \in Calls /\ c \in CallRecord /\ c.appeal \in Appeals /\ Step(k)
      /\ call \in [Calls -> CallRecord] /\ currentStatus \in [Appeals -> Status]
      /\ TypeOK /\ RowsInv /\ GroundInv
  BY SlotFacts, EndingFinds
     DEF EndingInv, EndingTypes, VisitInv, GroupInv, RowsInv, CallRecord, CallStepOf
<1>2. \A q \in Requests : request'[q].trigger \in {"Complete", "Incomplete"}
  BY <1>1, EndingFinds, NoRequestFacts DEF CallStepOf, GroundInv, EndingInv
<1>3. Grows /\ work' = work
  BY NothingStored DEF endingIdle
<1>4. ASSUME call' = [call EXCEPT ![k] = call'[k]],
             \A b \in Appeals :
                currentStatus'[b] = currentStatus[b] \/ Grounded(b, currentStatus'[b]),
             \/ call'[k].step \notin {"read", "write"}
             \/ /\ call'[k].step = "read" /\ call'[k].appeal \in Appeals
                /\ TriggerGround(call'[k].appeal, call'[k].trigger)
             \/ /\ call'[k].step = "write" /\ call'[k].appeal \in Appeals
                /\ Grounded(call'[k].appeal, call'[k].newState)
      PROVE  GroundInv'
  <2>1. \A j \in Calls : j # k => call'[j] = call[j]
    BY <1>1, <1>4
  <2> QED BY <1>2, <1>3, <1>4, <2>1, GroundKept
<1>5. CASE ReadAppeal(k)
  <2> DEFINE new == NextStatusOf(c.appeal, eventElapsed(c.appeal), currentStatus[c.appeal],
                                 c.trigger)
  <2>1. currentStatus' = currentStatus /\ c.step = "read" /\ c.trigger \in Trigger
    BY <1>1, <1>5 DEF ReadAppeal, statusVars, CallRecord
  <2>2. eventElapsed(c.appeal) \in BOOLEAN
    BY <1>1 DEF eventElapsed, TypeOK
  <2>3. Grounded(c.appeal, new)
    BY <1>1, <2>1, <2>2, ChartKeepsGround DEF GroundInv, EndHasGround, EndsAsDecided, Grounded
  <2>4. \/ call' = [call EXCEPT ![k] = UpdatingList(c)]
        \/ call' = [call EXCEPT ![k] = [c EXCEPT !.step = "write", !.newState = new,
                                 !.passed = isStatePassed(history[c.appeal], new),
                                 !.arranged = isArranged(c.appeal)]]
    BY <1>1, <1>5 DEF ReadAppeal
  <2>5. CASE call' = [call EXCEPT ![k] = UpdatingList(c)]
    BY <1>1, <1>4, <2>1, <2>5, UpdatingListFacts
  <2>6. CASE call' = [call EXCEPT ![k] = [c EXCEPT !.step = "write", !.newState = new,
                                 !.passed = isStatePassed(history[c.appeal], new),
                                 !.arranged = isArranged(c.appeal)]]
    <3> HIDE DEF new
    <3>1. /\ call' = [call EXCEPT ![k] = call'[k]]
          /\ call'[k].step = "write" /\ call'[k].appeal = c.appeal /\ call'[k].newState = new
      BY <1>1, <2>6 DEF CallRecord
    <3> QED BY <1>1, <1>4, <2>1, <2>3, <3>1
  <2> QED BY <2>4, <2>5, <2>6
<1>6. CASE Advance(k) \/ RollBack(k)
  <2>1. /\ c.step = "write" /\ currentStatus' = [currentStatus EXCEPT ![c.appeal] = c.newState]
        /\ call' = [call EXCEPT ![k] = AfterWrite(k)]
    BY <1>6 DEF Advance, RollBack
  <2>2. \A b \in Appeals :
           currentStatus'[b] = currentStatus[b] \/ Grounded(b, currentStatus'[b])
    BY <1>1, <2>1 DEF GroundInv
  <2>3. /\ AfterWrite(k).step \in {"read", "proofs", "readList"}
        /\ AfterWrite(k).appeal = c.appeal
        /\ AfterWrite(k).step = "read" => AfterWrite(k).trigger = "Complete"
    BY <1>1, AfterWriteFacts, AfterWriteCompletes
  <2> QED BY <1>1, <1>4, <2>1, <2>2, <2>3, VisitTriggers
<1>7. CASE RollBackThrows(k)
  BY <1>1, <1>4, <1>7, IdleFacts DEF RollBackThrows, statusVars
<1>8. CASE ReadProofs(k)
  <2>1. currentStatus' = currentStatus
    BY <1>8 DEF ReadProofs, statusVars
  <2>2. call' = [call EXCEPT ![k] = CallingComplete(c)] \/ call' = [call EXCEPT ![k] = UpdatingList(c)]
    BY <1>8 DEF ReadProofs
  <2> QED BY <1>1, <1>4, <2>1, <2>2, CallingCompleteFacts, UpdatingListFacts, VisitTriggers
<1>9. CASE ReadForList(k)
  <2> DEFINE listing == [UpdatingList(c) EXCEPT !.step = "writeList",
                                                !.listed = currentStatus[c.appeal]]
  <2>1. listing.step = "writeList"
    BY <1>1, UpdatingListFacts DEF CallRecord
  <2>2. call' = [call EXCEPT ![k] = Return(c)] \/ call' = [call EXCEPT ![k] = listing]
    BY <1>9 DEF ReadForList
  <2>3. currentStatus' = currentStatus
    BY <1>9 DEF ReadForList, statusVars
  <2> HIDE DEF listing
  <2> QED BY <1>1, <1>4, <2>1, <2>2, <2>3, ReturnFacts
<1>10. CASE WriteList(k) \/ WriteChildren(k)
  <2>1. [c EXCEPT !.step = "writeChildren"].step = "writeChildren"
    BY <1>1 DEF CallRecord
  <2>2. \/ call' = [call EXCEPT ![k] = Return(c)]
        \/ call' = [call EXCEPT ![k] = [c EXCEPT !.step = "writeChildren"]]
    BY <1>1, <1>10 DEF WriteList, WriteChildren
  <2>3. currentStatus' = currentStatus
    BY <1>10 DEF WriteList, WriteChildren, statusVars
  <2> QED BY <1>1, <1>4, <2>1, <2>2, <2>3, ReturnFacts
<1> QED BY <1>1, <1>5, <1>6, <1>7, <1>8, <1>9, <1>10 DEF Step

\* A request for a missed visit, and the calls it makes, end no case.
LEMMA GroundMissed ==
    ASSUME EndingInv, endingIdle,
           \/ \E r \in Requests, a \in Appeals : LoadMissed(r, a)
           \/ \E r \in Requests : RecordMissed(r)
           \/ \E r \in Requests : MoveStep(r)
    PROVE  GroundInv'
<1>1. /\ GroundInv /\ GroupInv /\ call \in [Calls -> CallRecord]
      /\ request \in [Requests -> Request] /\ Grows /\ work' = work
      /\ {"missed"} \subseteq Purpose
  BY EndingFinds, NothingStored DEF EndingInv, EndingTypes, VisitInv, endingIdle, Purpose
<1>2. ASSUME UNCHANGED <<statusVars, call>>,
             \A r \in Requests : request'[r].trigger \in {"Complete", "Incomplete"}
      PROVE  GroundInv'
  BY <1>1, <1>2, GroundKept DEF statusVars
<1>3. ASSUME NEW r \in Requests, NEW a \in Appeals, LoadMissed(r, a)
      PROVE  GroundInv'
  <2>1. UNCHANGED <<statusVars, call>>
    BY <1>3 DEF LoadMissed, Receive, vars, statusVars
  <2>2. /\ request' = [request EXCEPT ![r] = Loaded("missed", a, FALSE)]
        /\ Loaded("missed", a, FALSE).trigger = "Complete"
    BY <1>1, <1>3, LoadedFacts DEF LoadMissed, Receive
  <2> QED BY <1>1, <1>2, <2>1, <2>2 DEF GroundInv
<1>4. ASSUME NEW r \in Requests, RecordMissed(r)
      PROVE  GroundInv'
  <2>1. Saved(r) /\ UNCHANGED <<statusVars, call>>
    BY <1>4 DEF RecordMissed
  <2> QED BY <1>1, <1>2, <2>1, SavedFacts DEF GroundInv
<1>5. ASSUME NEW r \in Requests, MoveStep(r)
      PROVE  GroundInv'
  <2>1. request[r].trigger \in {"Complete", "Incomplete"}
    BY <1>1 DEF GroundInv
  <2>2. (\A q \in Requests : request'[q].trigger = request[q].trigger
                               \/ request'[q].trigger \in {"Complete", "Incomplete"})
        => \A q \in Requests : request'[q].trigger \in {"Complete", "Incomplete"}
    BY <1>1 DEF GroundInv
  <2>3. ASSUME NEW step \in RequestStep, request' = [request EXCEPT ![r].step = step]
        PROVE  \A q \in Requests : request'[q].trigger = request[q].trigger
    BY <1>1, <2>3 DEF Request
  <2>4. {"children", "lead"} \subseteq RequestStep
    BY DEF RequestStep
  <2>5. CASE MoveChildren(r)
    <3>1. \A k \in Calls :
             \/ call'[k] = call[k]
             \/ /\ call'[k].step = "read" /\ call'[k].appeal \in Appeals
                /\ TriggerGround(call'[k].appeal, call'[k].trigger)
      BY <1>1, <2>1, <2>5, MoveChildrenFacts, VisitTriggers DEF CallRecord
    <3>2. UNCHANGED statusVars /\ \A q \in Requests : request'[q].trigger = request[q].trigger
      BY <2>3, <2>4, <2>5 DEF MoveChildren
    <3> QED BY <1>1, <2>2, <3>1, <3>2, GroundKept DEF statusVars
  <2>6. CASE MoveLead(r)
    <3>1. \A k \in Calls :
             \/ call'[k] = call[k]
             \/ /\ call'[k].step = "read" /\ call'[k].appeal \in Appeals
                /\ TriggerGround(call'[k].appeal, call'[k].trigger)
      BY <1>1, <2>1, <2>6, MoveLeadFacts, VisitTriggers DEF CallRecord
    <3>2. UNCHANGED statusVars /\ \A q \in Requests : request'[q].trigger = request[q].trigger
      BY <2>3, <2>4, <2>6 DEF MoveLead
    <3> QED BY <1>1, <2>2, <3>1, <3>2, GroundKept DEF statusVars
  <2>7. CASE Respond(r)
    <3>1. UNCHANGED <<statusVars, call>> /\ request' = [request EXCEPT ![r] = NoRequest]
      BY <2>7 DEF Respond, vars, statusVars
    <3> QED BY <1>1, <1>2, <3>1, NoRequestFacts DEF GroundInv
  <2>8. CASE \E a \in Appeals : CallStepOf(r, a)
    BY <2>8, GroundCallStep
  <2> QED BY <1>5, <2>5, <2>6, <2>7, <2>8 DEF MoveStep
<1> QED BY <1>3, <1>4, <1>5

\* A failure frees slots, and leaves what is stored.
LEMMA GroundFails ==
    ASSUME EndingInv,
           \/ (\E r \in Requests, a \in Appeals : CallFails(r, a)) /\ endingIdle
           \/ (\E r \in Requests : NotifyFails(r)) /\ endingIdle
           \/ \E k \in Calls : EndingFails(k)
           \/ EndingStops
    PROVE  GroundInv'
<1>1. /\ GroundInv /\ call \in [Calls -> CallRecord] /\ work \in [Calls -> Work]
      /\ request \in [Requests -> Request]
  BY EndingFinds DEF EndingInv
<1>2. UNCHANGED <<statusVars, decision, stored>>
  BY DEF CallFails, NotifyFails, endingIdle, EndingFails, EndingStops, vars, statusVars
<1>3. \A k \in Calls : call'[k] = call[k] \/ call'[k] = Idle
  BY <1>1 DEF CallFails, NotifyFails, EndingFails, EndingStops, vars
<1>4. \A k \in Calls : work'[k] = work[k] \/ work'[k] = NoWork
  BY <1>1 DEF CallFails, NotifyFails, endingIdle, EndingFails, EndingStops
<1>5. \A r \in Requests : request'[r] = request[r] \/ request'[r] = NoRequest
  BY <1>1 DEF CallFails, NotifyFails, EndingFails, EndingStops
<1>6. NoWork.step = "idle"
  BY DEF NoWork
<1>7. \A k \in Calls : work'[k] = work[k] \/ WorkGround(k[2], work[k])'
  <2> SUFFICES ASSUME NEW k \in Calls, work'[k] = NoWork PROVE WorkGround(k[2], work[k])'
    BY <1>4
  <2>1. work'[k].step = "idle"
    BY <1>6
  <2> QED BY <2>1 DEF WorkGround
<1>8. \A r \in Requests : request'[r].trigger \in {"Complete", "Incomplete"}
  BY <1>1, <1>5, NoRequestFacts DEF GroundInv
<1>9. \A k \in Calls : call'[k] = call[k] \/ call'[k].step \notin {"read", "write"}
  BY <1>3, IdleFacts
<1> QED BY <1>2, <1>7, <1>8, <1>9, NothingStored, GroundKept DEF statusVars

-----------------------------------------------------------------------------
(* Steps that end a case.                                                  *)

\* A request that comes in starts work that has nothing stored, and decides on an
\* outcome if it decides.
LEMMA GroundStarts ==
    ASSUME EndingInv, NEW r \in Requests, NEW works, Start(r, works),
           \A b \in DOMAIN works : /\ works[b] \in Work /\ works[b].step = "loaded"
                                   /\ DecidesCase(works[b]) => works[b].outcome # "none"
                                   /\ works[b].ending = "decide" => LeadOf[b] = b
                                   /\ works[b].ending = "decideChild" => LeadOf[b] # b
    PROVE  EndingTypes' /\ GroundInv'
<1>1. /\ work \in [Calls -> Work] /\ EndingTypes /\ GroundInv
      /\ UNCHANGED <<visitVars, decision, stored>>
  BY EndingFinds DEF EndingInv, Start
<1>2. \A k \in Calls : \/ work'[k] = work[k]
                       \/ k[2] \in DOMAIN works /\ work'[k] = works[k[2]]
  BY DEF Start
<1>3. work' \in [Calls -> Work]
  BY <1>1, <1>2 DEF Start
<1>4. \A k \in Calls : work'[k] = work[k] \/ WorkGround(k[2], work[k])'
  <2> SUFFICES ASSUME NEW k \in Calls, k[2] \in DOMAIN works, work'[k] = works[k[2]]
               PROVE  WorkGround(k[2], work[k])'
    BY <1>2
  <2>1. /\ work'[k].step = "loaded" /\ (DecidesCase(work[k])' => work'[k].outcome # "none")
        /\ work'[k].ending = "decide" => LeadOf[k[2]] = k[2]
        /\ work'[k].ending = "decideChild" => LeadOf[k[2]] # k[2]
    BY DEF DecidesCase
  <2> QED BY <2>1 DEF WorkGround
<1>5. UNCHANGED <<statusVars, call, request>>
  BY <1>1 DEF visitVars, vars, groupVars, statusVars
<1>6. GroundInv'
  BY <1>1, <1>4, <1>5, NothingStored, GroundKept DEF GroundInv, statusVars
<1>7. VisitInv'
  BY <1>1, VisitInvNext DEF EndingTypes
<1>8. EndingTypeOK'
  BY <1>1, <1>3, <1>7 DEF EndingTypes, EndingTypeOK, VisitInv
<1> QED BY <1>6, <1>7, <1>8 DEF EndingTypes

\* What a request is to do.
LEMMA ToFacts ==
    ASSUME NEW a \in Appeals, NEW ending \in Ending, NEW outcome \in Decision
    PROVE  /\ To(ending, outcome, a) \in Work /\ To(ending, outcome, a).step = "loaded"
           /\ To(ending, outcome, a).ending = ending /\ To(ending, outcome, a).outcome = outcome
<1>1. (ending = "confirmTransfer" /\ currentStatus[a] = "awaiting_transfer") \in BOOLEAN
  OBVIOUS
<1> QED BY <1>1 DEF To, Work

\* Requests that end a case come in.
LEMMA GroundArrivals ==
    ASSUME EndingInv, NEW r \in Requests, NEW a \in Appeals,
           \/ LoadDecide(r, a) \/ LoadWithdraw(r, a) \/ LoadNewType(r, a)
           \/ LoadConfirmTransfer(r, a)
    PROVE  EndingTypes' /\ GroundInv'
<1>1. ASSUME NEW ending \in Ending \ {"decide", "decideChild"},
             Start(r, [b \in {a} |-> To(ending, "none", a)])
      PROVE  EndingTypes' /\ GroundInv'
  <2> DEFINE works == [b \in {a} |-> To(ending, "none", a)]
  <2>1. "none" \in Decision
    BY DEF Decision
  <2>2. \A b \in DOMAIN works : /\ works[b] \in Work /\ works[b].step = "loaded"
                                /\ DecidesCase(works[b]) => works[b].outcome # "none"
                                /\ works[b].ending \notin {"decide", "decideChild"}
    BY <2>1, ToFacts DEF DecidesCase
  <2> QED BY <1>1, <2>2, GroundStarts
<1>2. CASE LoadDecide(r, a)
  <2>1. PICK decided \in SUBSET Members(a) :
           \E outcome \in [decided -> Decision \ {"none"}] :
              Start(r, [b \in decided |->
                          To(IF b = a THEN "decide" ELSE "decideChild", outcome[b], b)])
    BY <1>2 DEF LoadDecide
  <2>2. PICK outcome \in [decided -> Decision \ {"none"}] :
           Start(r, [b \in decided |->
                       To(IF b = a THEN "decide" ELSE "decideChild", outcome[b], b)])
    BY <2>1
  <2> DEFINE works == [b \in decided |->
                         To(IF b = a THEN "decide" ELSE "decideChild", outcome[b], b)]
  <2>3. LeadOf[a] = a /\ \A b \in decided : b \in Appeals /\ (b # a => LeadOf[b] # b)
    BY <1>2 DEF LoadDecide, Members, Children
  <2>4. ASSUME NEW b \in DOMAIN works
        PROVE  /\ works[b] \in Work /\ works[b].step = "loaded"
               /\ DecidesCase(works[b]) => works[b].outcome # "none"
               /\ works[b].ending = "decide" => LeadOf[b] = b
               /\ works[b].ending = "decideChild" => LeadOf[b] # b
    <3>1. outcome[b] \in Decision \ {"none"} /\ b \in Appeals
      BY <2>3
    <3>2. CASE b = a
      BY <2>3, <3>1, <3>2, ToFacts DEF Ending
    <3>3. CASE b # a
      BY <2>3, <3>1, <3>3, ToFacts DEF Ending
    <3> QED BY <3>2, <3>3
  <2> HIDE DEF works
  <2>5. Start(r, works)
    BY <2>2 DEF works
  <2> QED BY <2>4, <2>5, GroundStarts
<1>3. CASE LoadWithdraw(r, a)
  BY <1>1, <1>3 DEF LoadWithdraw, Ending
<1>4. CASE LoadNewType(r, a)
  BY <1>1, <1>4 DEF LoadNewType, Ending
<1>5. CASE LoadConfirmTransfer(r, a)
  BY <1>1, <1>5 DEF LoadConfirmTransfer, Ending
<1> QED BY <1>2, <1>3, <1>4, <1>5

\* A step that changes what is stored and the work on one appeal, and no call.
LEMMA EndingStores ==
    ASSUME EndingInv, NEW k \in Calls, NEW w \in Work, Grows, UNCHANGED visitVars,
           decision' \in [Appeals -> Decision], stored' \in [Appeals -> SUBSET Ground],
           work' = [work EXCEPT ![k] = w], WorkGround(k[2], work[k])'
    PROVE  EndingTypes' /\ GroundInv'
<1>1. work \in [Calls -> Work] /\ EndingTypes /\ GroundInv
  BY EndingFinds DEF EndingInv
<1>2. work' \in [Calls -> Work] /\ work'[k] = w /\ \A j \in Calls : j # k => work'[j] = work[j]
  BY <1>1
<1>3. \A j \in Calls : work'[j] = work[j] \/ WorkGround(j[2], work[j])'
  BY <1>2
<1>4. UNCHANGED <<statusVars, call, request>>
  BY DEF visitVars, vars, groupVars, statusVars
<1>5. GroundInv'
  BY <1>1, <1>3, <1>4, GroundKept DEF GroundInv, statusVars
<1>6. VisitInv'
  BY <1>1, VisitInvNext DEF EndingTypes
<1> QED BY <1>2, <1>5, <1>6 DEF EndingTypes, EndingTypeOK, VisitInv

\* What a step of the work leaves in its slot.
LEMMA WorkFacts ==
    /\ NoWork \in Work /\ NoWork.step = "idle"
    /\ \A w \in Work, step \in {"resubmitted", "stored"} :
          LET next == [w EXCEPT !.step = step] IN
          /\ next \in Work /\ next.step = step
          /\ next.ending = w.ending /\ next.outcome = w.outcome
BY DEF NoWork, Work, Ending, Decision

\* The decision is stored if there is none, and the outcome is what is stored.
LEMMA GroundDecides ==
    ASSUME EndingInv, NEW k \in Calls, StoreDecision(k)
    PROVE  EndingTypes' /\ GroundInv'
<1> DEFINE w == work[k]
           a == k[2]
           next == [w EXCEPT !.step = "stored"]
<1>1. /\ w \in Work /\ a \in Appeals /\ DecidesCase(w) /\ w.step = "loaded"
      /\ decision \in [Appeals -> Decision] /\ stored \in [Appeals -> SUBSET Ground]
      /\ UNCHANGED <<visitVars, stored>> /\ w.outcome \in Decision
      /\ work \in [Calls -> Work]
  BY EndingFinds DEF EndingInv, StoreDecision, Decides, DecidesCase, Work
<1>2. w.outcome # "none" /\ WorkGround(a, w)
  BY <1>1 DEF EndingInv, GroundInv, WorkGround
<1>3. CASE decision[a] = "none"
  <2>1. decision' = [decision EXCEPT ![a] = w.outcome] /\ work' = [work EXCEPT ![k] = next]
    BY <1>3 DEF StoreDecision
  <2>2. Grows /\ decision' \in [Appeals -> Decision] /\ decision'[a] = w.outcome
    BY <1>1, <1>3, <2>1 DEF Grows
  <2>3. /\ next \in Work /\ next.step = "stored" /\ next.ending = w.ending
        /\ next.outcome = w.outcome
    BY <1>1, WorkFacts
  <2> HIDE DEF next
  <2>4. work'[k] = next
    BY <1>1, <2>1
  <2>5. WorkGround(a, work[k])'
    BY <1>1, <1>2, <2>2, <2>3, <2>4 DEF WorkGround, DecidesCase
  <2> QED BY <1>1, <2>1, <2>2, <2>3, <2>5, EndingStores
<1>4. CASE decision[a] # "none"
  <2>1. UNCHANGED decision /\ work' = [work EXCEPT ![k] = NoWork]
    BY <1>4 DEF StoreDecision
  <2>2. WorkGround(a, work[k])'
    BY <1>1, <2>1, WorkFacts DEF WorkGround
  <2> QED BY <1>1, <2>1, <2>2, WorkFacts, NothingStored, EndingStores
<1> QED BY <1>3, <1>4

\* Any other reason is added to what is stored.
LEMMA GroundAdds ==
    ASSUME EndingInv, NEW k \in Calls, StoreGround(k) \/ StoreInvalidOutcome(k)
    PROVE  EndingTypes' /\ GroundInv'
<1> DEFINE w == work[k]
           a == k[2]
<1>1. /\ w \in Work /\ a \in Appeals /\ WorkGround(a, w)
      /\ decision \in [Appeals -> Decision] /\ stored \in [Appeals -> SUBSET Ground]
      /\ UNCHANGED <<visitVars, decision>> /\ work \in [Calls -> Work]
  BY EndingFinds DEF EndingInv, GroundInv, StoreGround, StoreInvalidOutcome
<1>2. ASSUME NEW ground \in Ground, NEW step \in {"resubmitted", "stored"},
             stored' = [stored EXCEPT ![a] = @ \union {ground}],
             work' = [work EXCEPT ![k].step = step],
             ~DecidesCase(w),
             step = "resubmitted" => w.ending = "resubmit",
             ground = GroundOf(w.ending) \/ GroundOf(w.ending) \in stored[a],
             ground = "caseResubmittedTypeId" \/ step = "stored",
             step = "stored" /\ w.ending = "resubmit" => ground = "invalidOutcome"
      PROVE  EndingTypes' /\ GroundInv'
  <2> DEFINE next == [w EXCEPT !.step = step]
  <2>1. work' = [work EXCEPT ![k] = next] /\ stored' \in [Appeals -> SUBSET Ground] /\ Grows
        /\ stored'[a] = stored[a] \union {ground}
    BY <1>1, <1>2 DEF Grows
  <2>2. next \in Work /\ next.step = step /\ next.ending = w.ending /\ next.outcome = w.outcome
    BY <1>1, <1>2 DEF Work
  <2> HIDE DEF next
  <2>3. work'[k] = next
    BY <1>1, <2>1
  <2>4. WorkGround(a, work[k])'
    BY <1>2, <2>1, <2>2, <2>3 DEF WorkGround, DecidesCase
  <2> QED BY <1>1, <2>1, <2>2, <2>4, EndingStores
<1>3. CASE StoreGround(k)
  <2>1. w.ending \in Ending \ {"decide", "decideChild"}
    BY <1>1, <1>3 DEF StoreGround, Work
  <2>2. GroundOf(w.ending) \in Ground
        /\ (w.ending = "resubmit" => GroundOf(w.ending) = "caseResubmittedTypeId")
    BY <2>1 DEF GroundOf, Ground, Ending
  <2>3. ~DecidesCase(w)
    BY <2>1 DEF DecidesCase
  <2>4. stored' = [stored EXCEPT ![a] = @ \union {GroundOf(w.ending)}]
    BY <1>3 DEF StoreGround
  <2>5. CASE w.ending = "resubmit"
    <3>1. work' = [work EXCEPT ![k].step = "resubmitted"]
      BY <1>3, <2>5 DEF StoreGround
    <3> QED BY <1>2, <2>2, <2>3, <2>4, <2>5, <3>1
  <2>6. CASE w.ending # "resubmit"
    <3>1. work' = [work EXCEPT ![k].step = "stored"]
      BY <1>3, <2>6 DEF StoreGround
    <3> QED BY <1>2, <2>2, <2>3, <2>4, <2>6, <3>1
  <2> QED BY <2>5, <2>6
<1>4. CASE StoreInvalidOutcome(k)
  <2>1. w.ending = "resubmit" /\ "caseResubmittedTypeId" \in stored[a]
    BY <1>1, <1>4 DEF StoreInvalidOutcome, WorkGround
  <2>2. GroundOf(w.ending) \in stored[a] /\ "invalidOutcome" \in Ground /\ ~DecidesCase(w)
    BY <2>1 DEF GroundOf, Ground, DecidesCase
  <2>3. /\ stored' = [stored EXCEPT ![a] = @ \union {"invalidOutcome"}]
        /\ work' = [work EXCEPT ![k].step = "stored"]
    BY <1>4 DEF StoreInvalidOutcome
  <2> QED BY <1>2, <2>1, <2>2, <2>3
<1> QED BY <1>3, <1>4

\* The trigger of an end is sent once its reason is stored.
LEMMA GroundEnds ==
    ASSUME EndingInv, NEW k \in Calls, EndCase(k)
    PROVE  EndingTypes' /\ GroundInv'
<1> DEFINE w == work[k]
           a == k[2]
           c == CallFor(a, EndTrigger(w))
<1>1. /\ w \in Work /\ w.ending \in Ending /\ a \in Appeals /\ WorkGround(a, w) /\ w.step = "stored"
      /\ work \in [Calls -> Work] /\ call \in [Calls -> CallRecord]
      /\ EndingTypes /\ GroundInv /\ Grows
  BY EndingFinds, NothingStored DEF EndingInv, GroundInv, EndCase, Work
<1>2. ASSUME DecidesCase(w)
      PROVE  EndTrigger(w) \in Trigger /\ TriggerGround(a, EndTrigger(w))
  <2>1. EndTrigger(w) = DecisionTrigger(w)
    BY <1>2 DEF EndTrigger, DecidesCase
  <2>2. EndTrigger(w) \in Trigger
    BY <2>1 DEF DecisionTrigger, Trigger, StatusTrigger
  <2>3. TriggerGround(a, EndTrigger(w))
    BY <1>1, <1>2, <2>1 DEF DecisionTrigger, TriggerGround, WorkGround, OutcomeStatus, DecidesCase
  <2> QED BY <2>2, <2>3
<1>3. ASSUME ~DecidesCase(w)
      PROVE  EndTrigger(w) \in Trigger /\ TriggerGround(a, EndTrigger(w))
  <2>1. w.ending \in {"withdraw", "close", "resubmit", "transfer", "confirmTransfer"}
        /\ GroundOf(w.ending) \in stored[a]
        /\ (w.ending = "resubmit" => "invalidOutcome" \in stored[a])
    BY <1>1, <1>3 DEF WorkGround, DecidesCase, Ending
  <2>2. EndTrigger(w) \in Trigger /\ TriggerGround(a, EndTrigger(w))
    BY <2>1 DEF EndTrigger, GroundOf, TriggerGround, Trigger, OutcomeTrigger, StatusTrigger
  <2> QED BY <2>2
<1>4. EndTrigger(w) \in Trigger /\ TriggerGround(a, EndTrigger(w))
  BY <1>2, <1>3
<1>5. /\ c \in CallRecord /\ c.step = "read" /\ c.appeal = a /\ c.trigger = EndTrigger(w)
  BY <1>1, <1>4, CallForFacts
<1>6. call' = call \/ call' = [call EXCEPT ![k] = c]
  BY DEF EndCase
<1> HIDE DEF c
<1>7. /\ call' \in [Calls -> CallRecord]
      /\ \A j \in Calls :
            \/ call'[j] = call[j]
            \/ /\ call'[j].step = "read" /\ call'[j].appeal \in Appeals
               /\ TriggerGround(call'[j].appeal, call'[j].trigger)
  BY <1>1, <1>4, <1>5, <1>6
<1>8. /\ work' \in [Calls -> Work]
      /\ \A j \in Calls : work'[j] = work[j] \/ WorkGround(j[2], work[j])'
  <2>1. work' = [work EXCEPT ![k] = NoWork]
    BY DEF EndCase
  <2> QED BY <1>1, <2>1, WorkFacts DEF WorkGround
<1>9. UNCHANGED <<statusVars, eventVars, personalList, request, mishaps, missed, decision, stored>>
  BY DEF EndCase, groupVars
<1>10. GroundInv'
  BY <1>1, <1>7, <1>8, <1>9, GroundKept DEF GroundInv, EndingInv, statusVars
<1>11. GroupInv'
  BY <1>1, <1>7, <1>9, EndingFinds, GroupUntouched DEF EndingTypes, VisitInv
<1> QED BY <1>1, <1>8, <1>9, <1>10, <1>11, MissedUntouched
       DEF EndingTypes, EndingTypeOK, VisitInv

-----------------------------------------------------------------------------
(* The theorems.                                                           *)

\* Nothing is stored at first, and no case has ended.
LEMMA EndingStart ==
    ASSUME EndingInit, StartPath[Len(StartPath)] \notin FinalStatus \union {"awaiting_transfer"}
    PROVE  EndingInv
<1>1. /\ \A a \in Appeals : currentStatus[a] \notin FinalStatus \union {"awaiting_transfer"}
      /\ \A k \in Calls : call[k].step = "idle" /\ work[k].step = "idle"
      /\ \A r \in Requests : request[r].trigger = "Complete"
  BY IdleFacts, NoRequestFacts DEF EndingInit, CaseInit, NoRequests, NoWork
<1>2. GroundInv
  <2>1. EndHasGround /\ EndsAsDecided
    BY <1>1 DEF EndHasGround, EndsAsDecided, HasGround, AsDecided, FinalStatus
  <2> QED BY <1>1, <2>1 DEF GroundInv, WorkGround
<1>3. RowsInv
  BY RowsStart DEF EndingInit, Event
<1>4. EndingTypes
  <2>1. request \in [Requests -> Request] /\ mishaps \in 0..MaxMishaps
    BY NoRequestFacts, GroupAssumption DEF EndingInit, NoRequests
  <2>2. VisitInv
    BY <1>3, <2>1 DEF EndingInit, Event, VisitInv, VisitTypeOK, GroupInv, GroupTypeOK, RowsInv
  <2>3. EndingTypeOK
    BY <2>2, WorkFacts DEF EndingInit, EndingTypeOK, VisitInv, Decision, Ground
  <2> QED BY <2>2, <2>3 DEF EndingTypes
<1> QED BY <1>2, <1>4 DEF EndingInv

\* The types are kept by the steps that are not about the end of a case, and by
\* failures.
LEMMA EndingTypesKept ==
    ASSUME EndingTypes,
           \/ /\ endingIdle
              /\ \/ \E r \in Requests, a \in Appeals : LoadMissed(r, a)
                 \/ \E r \in Requests : RecordMissed(r)
                 \/ \E r \in Requests : NotifyFails(r)
                 \/ \E r \in Requests : MoveStep(r) /\ UNCHANGED missed
                 \/ \E r \in Requests, a \in Appeals : CallFails(r, a) /\ UNCHANGED missed
           \/ \E k \in Calls : EndingFails(k)
           \/ EndingStops
    PROVE  EndingTypes'
<1>1. VisitInv /\ GroupInv /\ EndingTypeOK
  BY DEF EndingTypes, VisitInv
<1>2. ASSUME endingIdle, VisitInv' PROVE EndingTypes'
  BY <1>1, <1>2 DEF EndingTypes, EndingTypeOK, VisitInv, endingIdle
<1>3. CASE /\ endingIdle
           /\ \/ \E r \in Requests, a \in Appeals : LoadMissed(r, a)
              \/ \E r \in Requests : RecordMissed(r)
              \/ \E r \in Requests : MoveStep(r) /\ UNCHANGED missed
              \/ \E r \in Requests, a \in Appeals : CallFails(r, a) /\ UNCHANGED missed
  BY <1>1, <1>2, <1>3, VisitArrivals, VisitUpdates, GroupMoveStep, GroupFails, MissedUntouched
<1>4. ASSUME NEW r \in Requests, NotifyFails(r), endingIdle
      PROVE  EndingTypes'
  <2>1. VisitNext
    BY <1>4 DEF VisitNext, VisitFailing
  <2> QED BY <1>1, <1>2, <1>4, <2>1, VisitInvNext
<1>5. ASSUME NEW k \in Calls, EndingFails(k)
      PROVE  EndingTypes'
  <2>1. work' \in [Calls -> Work] /\ mishaps' \in 0..MaxMishaps
    BY <1>1, <1>5, EndingFinds, WorkFacts, MishapFacts DEF EndingFails
  <2>2. VisitInv'
    BY <1>1, <1>5, <2>1, VisitTypes, VisitsChanged DEF EndingFails, vars, statusVars
  <2> QED BY <1>1, <1>5, <2>1, <2>2 DEF EndingTypes, EndingTypeOK, VisitInv, EndingFails
<1>6. CASE EndingStops
  <2>1. /\ work' \in [Calls -> Work] /\ mishaps' \in 0..MaxMishaps
        /\ call' \in [Calls -> CallRecord] /\ request' \in [Requests -> Request]
    BY <1>1, <1>6, WorkFacts, IdleFacts, NoRequestFacts, MishapFacts DEF EndingStops
  <2>2. GroupInv'
    BY <1>1, <1>6, <2>1, GroupUntouched DEF EndingStops
  <2>3. VisitInv'
    BY <1>1, <1>6, <2>2, MissedUntouched DEF EndingStops
  <2> QED BY <1>1, <1>6, <2>1, <2>3 DEF EndingTypes, EndingTypeOK, VisitInv, EndingStops
<1> QED BY <1>3, <1>4, <1>5, <1>6

\* Every step keeps the invariant.
LEMMA EndingInvNext == EndingInv /\ [EndingNext]_endingVars => EndingInv'
<1> SUFFICES ASSUME EndingInv, [EndingNext]_endingVars PROVE EndingInv'
  OBVIOUS
<1>1. EndingTypes
  BY DEF EndingInv
<1>2. ASSUME NEW r \in Requests, NEW a \in Asked,
             \/ LoadDecide(r, a) \/ LoadWithdraw(r, a) \/ LoadNewType(r, a)
             \/ LoadConfirmTransfer(r, a)
      PROVE  EndingInv'
  BY <1>2, EndingAssumption, GroundArrivals DEF EndingInv
<1>3. ASSUME NEW r \in Requests, NEW a \in Asked, EndingMissed(r, a)
      PROVE  EndingInv'
  BY <1>1, <1>3, EndingAssumption, EndingTypesKept, GroundMissed DEF EndingMissed, EndingInv
<1>4. ASSUME NEW k \in Calls,
             StoreDecision(k) \/ StoreGround(k) \/ StoreInvalidOutcome(k) \/ EndCase(k)
      PROVE  EndingInv'
  BY <1>4, GroundDecides, GroundAdds, GroundEnds DEF EndingInv
<1>5. CASE (\E k \in Calls : EndingFails(k)) \/ EndingStops
  BY <1>1, <1>5, EndingTypesKept, GroundFails DEF EndingInv
<1>6. CASE \/ \E r \in Requests : RecordMissed(r) /\ endingIdle
           \/ \E r \in Requests : MoveStep(r) /\ UNCHANGED missed /\ endingIdle
  BY <1>1, <1>6, EndingTypesKept, GroundMissed DEF EndingInv
<1>7. CASE \/ \E r \in Requests : NotifyFails(r) /\ endingIdle
           \/ \E r \in Requests, a \in Appeals : CallFails(r, a) /\ UNCHANGED missed /\ endingIdle
  BY <1>1, <1>7, EndingTypesKept, GroundFails DEF EndingInv
<1>8. CASE UNCHANGED endingVars
  <2>1. UNCHANGED <<visitVars, decision, stored, work>>
    BY <1>8 DEF endingVars
  <2>2. VisitInv'
    BY <1>1, <2>1, VisitInvNext DEF EndingTypes
  <2>3. EndingTypes'
    BY <1>1, <2>1, <2>2 DEF EndingTypes, EndingTypeOK, VisitInv
  <2>4. UNCHANGED <<currentStatus, call, request>>
    BY <2>1 DEF visitVars, vars, groupVars
  <2> QED BY <2>1, <2>3, <2>4, NothingStored, GroundKept DEF EndingInv, GroundInv
<1> QED BY <1>2, <1>3, <1>4, <1>5, <1>6, <1>7, <1>8 DEF EndingNext

\* Every variable keeps its type, however the ways a case ends overlap or fail.
THEOREM EndingTypeCorrect ==
    ASSUME StartPath[Len(StartPath)] \notin FinalStatus \union {"awaiting_transfer"}
    PROVE  EndingSpec => []EndingTypeOK
<1>1. EndingInv => EndingTypeOK
  BY DEF EndingInv, EndingTypes
<1> QED BY <1>1, EndingStart, EndingInvNext, PTL DEF EndingSpec

\* However decisions, withdrawals, closings, transfers and missed visits overlap or
\* fail, a case has ended only with the reason stored.
THEOREM EndsWithGround ==
    ASSUME StartPath[Len(StartPath)] \notin FinalStatus \union {"awaiting_transfer"}
    PROVE  EndingSpec => []EndHasGround
<1>1. EndingInv => EndHasGround
  BY DEF EndingInv, GroundInv
<1> QED BY <1>1, EndingStart, EndingInvNext, PTL DEF EndingSpec

\* However decisions on a case overlap or are made again, with whatever outcomes and
\* failures, a case that has a decision and is complete or invalid is what the decision
\* says, or was resubmitted as invalid.
THEOREM EndsByDecision ==
    ASSUME StartPath[Len(StartPath)] \notin FinalStatus \union {"awaiting_transfer"}
    PROVE  EndingSpec => []EndsAsDecided
<1>1. EndingInv => EndsAsDecided
  BY DEF EndingInv, GroundInv
<1> QED BY <1>1, EndingStart, EndingInvNext, PTL DEF EndingSpec

-----------------------------------------------------------------------------
(* The stages of the cases that are ended.                                 *)

\* No end of a case is a cancelled hearing.
LEMMA EndTriggers == \A w \in Work : EndTrigger(w) # "Cancel"
BY DEF EndTrigger, DecisionTrigger, Work, Ending

\* Every step keeps the appeals, and what calls decide, at stages they have: an end is
\* a stage of every case.
LEMMA EndingStagesNext == EndingInv /\ StageInv /\ [EndingNext]_endingVars => StageInv'
<1> SUFFICES ASSUME EndingInv, StageInv, [EndingNext]_endingVars PROVE StageInv'
  OBVIOUS
<1>0. /\ GroupInv /\ EndingTypes /\ OutcomesOnly /\ call \in [Calls -> CallRecord]
      /\ work \in [Calls -> Work]
  BY EndingFinds DEF EndingInv, EndingTypes, VisitInv, GroundInv, OutcomesOnly
<1>1. ASSUME UNCHANGED <<kind, currentStatus, call>>
      PROVE  StageInv'
  BY <1>1 DEF StageInv, HasStage
<1>2. ASSUME NEW r \in Requests, NEW a \in Asked,
             \/ LoadDecide(r, a) \/ LoadWithdraw(r, a) \/ LoadNewType(r, a)
             \/ LoadConfirmTransfer(r, a)
      PROVE  StageInv'
  <2>1. UNCHANGED visitVars
    BY <1>2 DEF LoadDecide, LoadWithdraw, LoadNewType, LoadConfirmTransfer, Start
  <2> QED BY <1>1, <2>1 DEF visitVars, vars
<1>3. ASSUME NEW r \in Requests, NEW a \in Asked, EndingMissed(r, a)
      PROVE  StageInv'
  BY <1>1, <1>3 DEF EndingMissed, LoadMissed, Receive, vars
<1>4. ASSUME NEW k \in Calls,
             StoreDecision(k) \/ StoreGround(k) \/ StoreInvalidOutcome(k) \/ EndingFails(k)
      PROVE  StageInv'
  <2>1. UNCHANGED vars
    BY <1>4 DEF StoreDecision, StoreGround, StoreInvalidOutcome, EndingFails, visitVars
  <2> QED BY <1>1, <2>1 DEF vars
<1>5. ASSUME NEW k \in Calls, EndCase(k)
      PROVE  StageInv'
  <2>1. UNCHANGED <<kind, currentStatus>>
    BY <1>5 DEF EndCase, statusVars, eventVars
  <2>2. CASE EndsCase(work[k])
    <3>1. EndTrigger(work[k]) \in Trigger /\ EndTrigger(work[k]) # "Cancel" /\ k[2] \in Appeals
      BY <1>0, EndTriggers, EndingFinds
         DEF EndTrigger, DecisionTrigger, Work, Ending, Trigger, OutcomeTrigger, StatusTrigger
    <3>2. call' = [call EXCEPT ![k] = CallFor(k[2], EndTrigger(work[k]))]
      BY <1>5, <2>2 DEF EndCase
    <3>3. \A j \in Calls : \/ call'[j] = call[j]
                           \/ call'[j].step = "read" /\ call'[j].trigger # "Cancel"
      BY <1>0, <3>1, <3>2, CallForFacts
    <3> QED BY <1>0, <2>1, <3>3, StageUntouched
  <2>3. CASE ~EndsCase(work[k])
    BY <1>1, <1>5, <2>1, <2>3 DEF EndCase
  <2> QED BY <2>2, <2>3
<1>6. CASE \E r \in Requests : RecordMissed(r) \/ NotifyFails(r)
  BY <1>1, <1>6 DEF RecordMissed, NotifyFails, statusVars, vars
<1>7. CASE \E r \in Requests : MoveStep(r)
  BY <1>0, <1>7, StageMoves
<1>8. CASE \E r \in Requests, a \in Appeals : CallFails(r, a)
  BY <1>0, <1>8, StageFails
<1>9. CASE EndingStops
  <2>1. UNCHANGED <<kind, currentStatus>>
    BY <1>9 DEF EndingStops, statusVars, eventVars
  <2>2. \A k \in Calls : call'[k].step = "idle"
    BY <1>9, IdleFacts DEF EndingStops
  <2> QED BY <1>0, <2>1, <2>2, StageUntouched
<1>10. CASE UNCHANGED endingVars
  BY <1>1, <1>10 DEF endingVars, visitVars, vars
<1> QED BY <1>2, <1>3, <1>4, <1>5, <1>6, <1>7, <1>8, <1>9, <1>10 DEF EndingNext

\* However decisions, withdrawals, closings, transfers and missed visits overlap or
\* fail, an appeal is at a stage that its type and procedure have.
THEOREM EndingStageCorrect ==
    ASSUME StartPath[Len(StartPath)] \notin FinalStatus \union {"awaiting_transfer"}
    PROVE  EndingSpec => []StageIsForCase
<1>1. EndingInit => StageInv
  <2> SUFFICES ASSUME EndingInit PROVE StageInv
    OBVIOUS
  <2>1. \A a \in Appeals : HasStage(a, currentStatus[a])
    BY AppealsAssumption DEF EndingInit, CaseInit, HasStage
  <2> QED BY <2>1, IdleFacts DEF EndingInit, CaseInit, StageInv
<1>2. StageInv => StageIsForCase
  BY DEF StageInv, StageIsForCase, HasStage
<1> QED BY <1>1, <1>2, EndingStart, EndingInvNext, EndingStagesNext, PTL DEF EndingSpec

-----------------------------------------------------------------------------
(* A decided case has ended.  An appeal whose visit was not missed is where *)
(* it started, or has ended: the calls made for it do nothing but end it.   *)
(* From the decision on a call to end the case is to come, or is under way, *)
(* until one has ended it, and none can fail to find the row it goes back   *)
(* to, as the rows of a case that has not ended have no status of an end.   *)

Ended == FinalStatus \union {"awaiting_transfer"}

EndingTrigger ==
    {"complete", "invalid", "withdrawn", "closed", "Invalid", "awaiting_transfer", "transferred"}

ToBeDecided == StartPath[Len(StartPath)] = "issue_determination"

\* A call is for the appeal of its slot.  If the visit of that appeal was not missed,
\* the call, and the work, are there to end the case, one after the other.
SlotOf(r, a) ==
    LET c == call[<<r, a>>] IN
    /\ InProgress(<<r, a>>) => c.appeal = a
    /\ missed[a] = "none" =>
          /\ InProgress(<<r, a>>) => c.step # "proofs" /\ ~Ends(<<r, a>>)
          /\ c.step = "read" => c.trigger \in EndingTrigger
          /\ c.step = "write" => c.newState \in Ended /\ (c.passed => HasEnded(a))
          /\ Ends(<<r, a>>) /\ DecidesCase(work[<<r, a>>]) => ToBeDecided

\* A visit is missed for a whole group, of which the missed ones are moved.
ForGroup(r) ==
    LET q == request[r] IN
    /\ Busy(r) => LeadOf[q.appeal] = q.appeal /\ q.followers \subseteq Children(q.appeal)
    /\ q.step \in {"saved", "children", "lead"} =>
          \A a \in {q.appeal} \union q.followers : missed[a] # "none"

\* An appeal whose visit was not missed.
NotReopened(a) ==
    missed[a] = "none" =>
    /\ event[a] # "none" /\ missed[LeadOf[a]] = "none"
    /\ currentStatus[a] = StartPath[Len(StartPath)] \/ HasEnded(a)
    /\ ~HasEnded(a) => \A status \in Ended : RowsWith(history[a], status) = {}
    /\ decision[a] # "none" => ToBeDecided

\* The work, or the call, that is about to end the case of a for its decision.
EndsDecided(r, a) ==
    \/ work[<<r, a>>].step = "stored" /\ DecidesCase(work[<<r, a>>])
    \/ call[<<r, a>>].step = "read" /\ call[<<r, a>>].trigger \in {"complete", "invalid"}
    \/ call[<<r, a>>].step = "write"

WillEnd(a) ==
    missed[a] = "none" /\ decision[a] # "none" =>
        HasEnded(a) \/ \E r \in Requests : EndsDecided(r, a)

DecidedInv ==
    /\ \A r \in Requests : ForGroup(r) /\ \A a \in Appeals : SlotOf(r, a)
    /\ \A a \in Appeals : NotReopened(a) /\ (mishaps = 0 => WillEnd(a))

\* A trigger that ends cases ends a case or leaves it alone; a decision ends the case
\* that is to be decided.
LEMMA ChartDecides ==
    ASSUME NEW type, NEW procedure, NEW elapsed \in BOOLEAN,
           NEW status \in Status, NEW trigger \in EndingTrigger
    PROVE  LET new == NextStatus(type, procedure, elapsed, status, trigger) IN
           /\ new # status => new \in Ended
           /\ status = "issue_determination" /\ trigger \in {"complete", "invalid"} => new # status
<1>1. CASE status \in FinalStatus
  BY <1>1 DEF NextStatus, FinalStatus, WorkingStatus, Status
<1>2. CASE status = "awaiting_transfer"
  BY <1>2 DEF NextStatus, FinalStatus, WorkingStatus, Status, Ended
<1>3. CASE status \in WorkingStatus
  BY <1>3 DEF NextStatus, FinalStatus, WorkingStatus, Status, EndingTrigger, Ended
<1> QED BY <1>1, <1>2, <1>3 DEF Status

\* A path that leads to an open case leads through no end, as the chart leaves an end
\* only for another.
LEMMA OpenPath ==
    ASSUME NEW k \in Kinds, StartPath[Len(StartPath)] \notin Ended
    PROVE  \A i \in DOMAIN StartPath : StartPath[i] \notin Ended
<1>1. /\ StartPath \in Seq(Status) /\ StartPath # <<>>
      /\ \A i \in DOMAIN StartPath :
            i > 1 => IsArc(k.type, k.procedure, StartPath[i - 1], StartPath[i])
  BY AppealsAssumption
<1>2. ASSUME NEW from \in Status, NEW to, IsArc(k.type, k.procedure, from, to)
      PROVE  from \notin FinalStatus /\ (from = "awaiting_transfer" => to = "transferred")
  <2>1. PICK elapsed \in BOOLEAN, trigger \in Trigger :
           NextStatus(k.type, k.procedure, elapsed, from, trigger) = to
    BY <1>2 DEF IsArc
  <2>2. from # to
    BY <1>2 DEF IsArc
  <2>3. CASE from \in FinalStatus
    BY <2>1, <2>2, <2>3 DEF NextStatus, FinalStatus, WorkingStatus
  <2>4. CASE from = "awaiting_transfer"
    BY <2>1, <2>2, <2>4 DEF NextStatus, FinalStatus, WorkingStatus
  <2> QED BY <2>3, <2>4
<1>3. ASSUME NEW i \in DOMAIN StartPath, i # Len(StartPath)
      PROVE  /\ i + 1 \in DOMAIN StartPath
             /\ IsArc(k.type, k.procedure, StartPath[i], StartPath[i + 1])
  <2>1. i + 1 \in DOMAIN StartPath /\ i + 1 > 1 /\ (i + 1) - 1 = i
    BY <1>1, <1>3
  <2> QED BY <1>1, <2>1
<1>4. \A i \in DOMAIN StartPath : i # Len(StartPath) => StartPath[i] \notin FinalStatus
  BY <1>1, <1>2, <1>3
<1> SUFFICES ASSUME NEW i \in DOMAIN StartPath, StartPath[i] \in Ended PROVE FALSE
  OBVIOUS
<1>5. i # Len(StartPath) /\ StartPath[i] = "awaiting_transfer"
  BY <1>4 DEF Ended
<1>6. StartPath[i + 1] = "transferred" /\ i + 1 \in DOMAIN StartPath
  BY <1>1, <1>2, <1>3, <1>5
<1>7. i + 1 = Len(StartPath)
  BY <1>4, <1>6 DEF FinalStatus
<1> QED BY <1>6, <1>7 DEF Ended, FinalStatus

\* The types a step finds, and the slots it works in.
LEMMA DecidedFinds ==
    ASSUME EndingInv
    PROVE  /\ EndingTypes /\ TypeOK /\ VisitInv
           /\ decision \in [Appeals -> Decision] /\ work \in [Calls -> Work]
           /\ call \in [Calls -> CallRecord] /\ request \in [Requests -> Request]
           /\ mishaps \in Nat
           /\ \A r \in Requests, a \in Appeals : <<r, a>> \in Calls
           /\ \A k \in Calls : k[1] \in Requests /\ k[2] \in Appeals /\ k = <<k[1], k[2]>>
           /\ \A a \in Appeals : LeadOf[a] \in Appeals /\ LeadOf[LeadOf[a]] = LeadOf[a]
BY EndingFinds, SlotFacts, FirstTypes, GroupAssumption DEF EndingInv, EndingTypes

\* At first the cases are open, and none is decided.
LEMMA DecidedStart ==
    ASSUME EndingInit, StartPath[Len(StartPath)] \notin Ended, EndingInv
    PROVE  DecidedInv
<1>1. /\ \A k \in Calls : call[k].step = "idle" /\ work[k].step = "idle"
      /\ \A r \in Requests : request[r].step = "idle"
  BY IdleFacts DEF EndingInit, CaseInit, NoRequests, NoWork, NoRequest
<1>2. ASSUME NEW a \in Appeals
      PROVE  NotReopened(a) /\ WillEnd(a)
  <2>1. /\ event[a] = "arranged" /\ missed[a] = "none" /\ LeadOf[a] \in Appeals
        /\ currentStatus[a] = StartPath[Len(StartPath)] /\ decision[a] = "none"
        /\ history[a] = StartHistory /\ missed[LeadOf[a]] = "none" /\ kind[a] \in Kinds
    BY DecidedFinds DEF EndingInit, CaseInit
  <2>2. \A i \in DOMAIN StartPath : StartPath[i] \notin Ended
    BY <2>1, OpenPath
  <2>3. \A status \in Ended : RowsWith(history[a], status) = {}
    BY <2>1, <2>2 DEF RowsWith, StartHistory
  <2> QED BY <2>1, <2>3 DEF NotReopened, WillEnd
<1>3. \A r \in Requests : ForGroup(r) /\ \A a \in Appeals : SlotOf(r, a)
  BY <1>1, DecidedFinds DEF SlotOf, InProgress, Ends, ForGroup, Busy
<1> QED BY <1>2, <1>3 DEF DecidedInv

\* A slot a step leaves as it was.
SlotKept(r, a) ==
    call'[<<r, a>>] = call[<<r, a>>] /\ work'[<<r, a>>] = work[<<r, a>>]

\* What a step may do: record visits as missed, for whole groups; end cases, or move
\* those whose visit was missed; change slots and requests as the invariant says; and
\* decide an appeal that is to be decided, which another step will end.
LEMMA DecidedFrame ==
    ASSUME EndingInv, DecidedInv,
           \A a \in Appeals : missed'[a] = "none" =>
              missed[a] = "none" /\ event'[a] = event[a] /\ missed'[LeadOf[a]] = "none",
           \A a \in Appeals : missed'[a] = "none" =>
              \/ HasEnded(a)'
              \/ currentStatus'[a] = currentStatus[a] /\ history'[a] = history[a],
           \A a \in Appeals : missed'[a] = "none" =>
              decision'[a] = decision[a] \/ ToBeDecided,
           \A r \in Requests, a \in Appeals : SlotKept(r, a) \/ SlotOf(r, a)',
           \A r \in Requests : request'[r] = request[r] \/ ForGroup(r)',
           \A a \in Appeals : missed'[a] = "none" /\ mishaps' = 0 =>
              \/ WillEnd(a)'
              \/ /\ mishaps = 0 /\ decision'[a] = decision[a]
                 /\ \A r \in Requests : EndsDecided(r, a) => EndsDecided(r, a)' \/ HasEnded(a)'
    PROVE  DecidedInv'
<1>1. ASSUME NEW r \in Requests, NEW a \in Appeals
      PROVE  SlotOf(r, a)'
  <2>1. CASE ~SlotKept(r, a)
    BY <2>1
  <2>2. CASE SlotKept(r, a)
    <3>1. SlotOf(r, a)
      BY DEF DecidedInv
    <3>2. missed'[a] = "none" => missed[a] = "none" /\ (HasEnded(a) => HasEnded(a)')
      BY DEF HasEnded
    <3> QED BY <2>2, <3>1, <3>2 DEF SlotKept, SlotOf, InProgress, Ends
  <2> QED BY <2>1, <2>2
<1>2. ASSUME NEW r \in Requests
      PROVE  ForGroup(r)'
  <2>1. CASE request'[r] # request[r]
    BY <2>1
  <2>2. CASE request'[r] = request[r]
    <3>1. ForGroup(r) /\ request[r].appeal \in Appeals /\ request[r].followers \in SUBSET Appeals
      BY DecidedFinds DEF DecidedInv, Request
    <3> QED BY <2>2, <3>1 DEF ForGroup, Busy
  <2> QED BY <2>1, <2>2
<1>3. ASSUME NEW a \in Appeals
      PROVE  NotReopened(a)'
  <2> SUFFICES ASSUME missed'[a] = "none" PROVE NotReopened(a)'
    BY DEF NotReopened
  <2>1. NotReopened(a)
    BY DEF DecidedInv
  <2>2. HasEnded(a) => HasEnded(a)'
    BY DEF HasEnded
  <2> QED BY <2>1, <2>2 DEF NotReopened
<1>4. ASSUME NEW a \in Appeals, mishaps' = 0
      PROVE  WillEnd(a)'
  <2>1. CASE missed'[a] # "none" \/ HasEnded(a)'
    BY <2>1 DEF WillEnd
  <2>2. CASE missed'[a] = "none" /\ ~HasEnded(a)' /\ ~WillEnd(a)'
    <3>1. /\ mishaps = 0 /\ decision'[a] = decision[a] /\ missed[a] = "none"
          /\ \A r \in Requests : EndsDecided(r, a) => EndsDecided(r, a)'
      BY <1>4, <2>2
    <3>2. WillEnd(a) /\ ~HasEnded(a)
      BY <2>2, <3>1 DEF DecidedInv, HasEnded
    <3> QED BY <2>2, <3>1, <3>2 DEF WillEnd
  <2> QED BY <2>1, <2>2
<1> QED BY <1>1, <1>2, <1>3, <1>4 DEF DecidedInv

\* A step that records no visit as missed.
LEMMA DecidedKept ==
    ASSUME EndingInv, DecidedInv, UNCHANGED <<missed, event>>,
           \A a \in Appeals : missed[a] = "none" =>
              \/ HasEnded(a)'
              \/ currentStatus'[a] = currentStatus[a] /\ history'[a] = history[a],
           \A a \in Appeals : missed[a] = "none" =>
              decision'[a] = decision[a] \/ ToBeDecided,
           \A r \in Requests, a \in Appeals : SlotKept(r, a) \/ SlotOf(r, a)',
           \A r \in Requests : request'[r] = request[r] \/ ForGroup(r)',
           \A a \in Appeals : missed[a] = "none" /\ mishaps' = 0 =>
              \/ WillEnd(a)'
              \/ /\ mishaps = 0 /\ decision'[a] = decision[a]
                 /\ \A r \in Requests : EndsDecided(r, a) => EndsDecided(r, a)' \/ HasEnded(a)'
    PROVE  DecidedInv'
<1>1. \A a \in Appeals : missed'[a] = "none" =>
         missed[a] = "none" /\ event'[a] = event[a] /\ missed'[LeadOf[a]] = "none"
  BY DEF DecidedInv, NotReopened
<1>2. missed' = missed
  OBVIOUS
<1> QED BY <1>1, <1>2, DecidedFrame

-----------------------------------------------------------------------------
(* Requests come in and work.                                              *)

\* A request whose work is to decide is for appeals that are to be decided.
LEMMA DecidedStarts ==
    ASSUME EndingInv, DecidedInv, NEW r \in Requests, NEW works, Start(r, works),
           \A a \in DOMAIN works :
              DecidesCase(works[a]) /\ missed[a] = "none" => ToBeDecided
    PROVE  DecidedInv'
<1>1. /\ UNCHANGED <<call, request, missed, event, currentStatus, history, decision, mishaps>>
      /\ work \in [Calls -> Work] /\ EndingTurn(r)
  BY DecidedFinds DEF Start, visitVars, vars, groupVars
<1>2. ASSUME NEW a \in Appeals
      PROVE  ~InProgress(<<r, a>>) /\ ~Ends(<<r, a>>)
  BY <1>1, DecidedFinds DEF EndingTurn, Turn, Free
<1>3. ASSUME NEW q \in Requests, NEW a \in Appeals
      PROVE  SlotKept(q, a) \/ SlotOf(q, a)'
  <2>1. CASE q = r /\ a \in DOMAIN works
    <3>1. work'[<<q, a>>] = works[a]
      BY <2>1, DecidedFinds DEF Start
    <3>2. call'[<<q, a>>].step = "idle"
      BY <1>1, <1>2, <2>1 DEF InProgress
    <3> QED BY <1>1, <2>1, <3>1, <3>2 DEF SlotOf, InProgress
  <2>2. CASE ~(q = r /\ a \in DOMAIN works)
    <3>1. work'[<<q, a>>] = work[<<q, a>>]
      BY <2>2, DecidedFinds DEF Start
    <3> QED BY <1>1, <3>1 DEF SlotKept
  <2> QED BY <2>1, <2>2
<1>4. ASSUME NEW q \in Requests, NEW a \in Appeals, EndsDecided(q, a)
      PROVE  EndsDecided(q, a)'
  <2>1. q # r
    BY <1>2, <1>4 DEF EndsDecided, InProgress, Ends
  <2>2. work'[<<q, a>>] = work[<<q, a>>]
    BY <2>1, DecidedFinds DEF Start
  <2> QED BY <1>1, <1>4, <2>2 DEF EndsDecided
<1> QED BY <1>1, <1>3, <1>4, DecidedKept

\* A decision is for a lead that is up for it, and for its children.
LEMMA DecidedArrivals ==
    ASSUME EndingInv, DecidedInv, NEW r \in Requests, NEW a \in Appeals,
           \/ LoadDecide(r, a) \/ LoadWithdraw(r, a) \/ LoadNewType(r, a)
           \/ LoadConfirmTransfer(r, a)
    PROVE  DecidedInv'
<1>1. ASSUME NEW ending \in Ending \ {"decide", "decideChild"},
             Start(r, [b \in {a} |-> To(ending, "none", a)])
      PROVE  DecidedInv'
  <2> DEFINE works == [b \in {a} |-> To(ending, "none", a)]
  <2>1. \A b \in DOMAIN works : ~DecidesCase(works[b])
    BY ToFacts DEF DecidesCase, Decision
  <2>2. \A b \in DOMAIN works : DecidesCase(works[b]) /\ missed[b] = "none" => ToBeDecided
    BY <2>1
  <2> HIDE DEF works
  <2>3. Start(r, works)
    BY <1>1 DEF works
  <2> QED BY <2>2, <2>3, DecidedStarts
<1>2. CASE LoadDecide(r, a)
  <2>1. missed[a] = "none" => ToBeDecided
    BY <1>2 DEF LoadDecide, DecidedInv, NotReopened, HasEnded, FinalStatus, ToBeDecided
  <2>2. \A b \in Children(a) : missed[b] = "none" => ToBeDecided
    BY <2>1 DEF DecidedInv, NotReopened, Children
  <2>3. PICK decided \in SUBSET Members(a) :
           \E outcome \in [decided -> Decision \ {"none"}] :
              Start(r, [b \in decided |->
                          To(IF b = a THEN "decide" ELSE "decideChild", outcome[b], b)])
    BY <1>2 DEF LoadDecide
  <2>4. PICK outcome \in [decided -> Decision \ {"none"}] :
           Start(r, [b \in decided |->
                       To(IF b = a THEN "decide" ELSE "decideChild", outcome[b], b)])
    BY <2>3
  <2> DEFINE works == [b \in decided |->
                         To(IF b = a THEN "decide" ELSE "decideChild", outcome[b], b)]
  <2>5. \A b \in DOMAIN works : DecidesCase(works[b]) /\ missed[b] = "none" => ToBeDecided
    BY <2>1, <2>2 DEF Members
  <2> HIDE DEF works
  <2>6. Start(r, works)
    BY <2>4 DEF works
  <2> QED BY <2>5, <2>6, DecidedStarts
<1>3. CASE LoadWithdraw(r, a)
  BY <1>1, <1>3 DEF LoadWithdraw, Ending
<1>4. CASE LoadNewType(r, a)
  BY <1>1, <1>4 DEF LoadNewType, Ending
<1>5. CASE LoadConfirmTransfer(r, a)
  BY <1>1, <1>5 DEF LoadConfirmTransfer, Ending
<1> QED BY <1>2, <1>3, <1>4, <1>5

\* A step of the work in one slot, which makes no call or the call that ends the case.
LEMMA DecidedWorks ==
    ASSUME EndingInv, DecidedInv, NEW r \in Requests, NEW a \in Appeals,
           UNCHANGED <<request, missed, event, currentStatus, history>>,
           \A j \in Calls : j # <<r, a>> => call'[j] = call[j] /\ work'[j] = work[j],
           SlotOf(r, a)',
           \A b \in Appeals : b # a => decision'[b] = decision[b],
           missed[a] = "none" => decision'[a] = decision[a] \/ ToBeDecided,
           mishaps' = 0 => mishaps = 0,
           missed[a] = "none" /\ mishaps' = 0 =>
              \/ EndsDecided(r, a)'
              \/ ~EndsDecided(r, a) /\ decision'[a] = decision[a]
    PROVE  DecidedInv'
<1>1. ASSUME NEW q \in Requests, NEW b \in Appeals
      PROVE  SlotKept(q, b) \/ SlotOf(q, b)'
  BY DecidedFinds DEF SlotKept
<1>2. ASSUME NEW b \in Appeals, missed[b] = "none", mishaps' = 0
      PROVE  \/ WillEnd(b)'
             \/ /\ mishaps = 0 /\ decision'[b] = decision[b]
                /\ \A q \in Requests : EndsDecided(q, b) => EndsDecided(q, b)' \/ HasEnded(b)'
  <2>1. \A q \in Requests : <<q, b>> # <<r, a>> /\ EndsDecided(q, b) => EndsDecided(q, b)'
    BY DecidedFinds DEF EndsDecided
  <2>2. CASE EndsDecided(r, a)' /\ b = a
    BY <2>2 DEF WillEnd
  <2>3. CASE ~(EndsDecided(r, a)' /\ b = a)
    BY <1>2, <2>1, <2>3
  <2> QED BY <2>2, <2>3
<1> QED BY <1>1, <1>2, DecidedKept

\* What the work of a slot finds of an appeal whose visit was not missed: no call.
LEMMA WorkAlone ==
    ASSUME EndingInv, DecidedInv, NEW r \in Requests, NEW a \in Appeals, Ends(<<r, a>>)
    PROVE  /\ work[<<r, a>>] \in Work /\ call[<<r, a>>] \in CallRecord
           /\ InProgress(<<r, a>>) => call[<<r, a>>].appeal = a
           /\ missed[a] = "none" =>
                 /\ call[<<r, a>>].step = "idle"
                 /\ DecidesCase(work[<<r, a>>]) => ToBeDecided
           /\ EndsDecided(r, a) /\ missed[a] = "none" =>
                 work[<<r, a>>].step = "stored" /\ DecidesCase(work[<<r, a>>])
<1>1. SlotOf(r, a) /\ work[<<r, a>>] \in Work /\ call[<<r, a>>] \in CallRecord
  BY DecidedFinds DEF DecidedInv
<1> QED BY <1>1 DEF SlotOf, InProgress, EndsDecided

\* A slot in which the work has gone on and the call has not: as it was, at most.
LEMMA SlotWorks ==
    ASSUME EndingInv, DecidedInv, NEW r \in Requests, NEW a \in Appeals, Ends(<<r, a>>),
           UNCHANGED <<call, missed>>,
           work'[<<r, a>>].step = "idle" \/ work'[<<r, a>>].ending = work[<<r, a>>].ending
    PROVE  SlotOf(r, a)'
BY WorkAlone DEF SlotOf, InProgress, Ends, DecidesCase

\* The decision, or another reason, is stored.
LEMMA DecidedStores ==
    ASSUME EndingInv, DecidedInv, NEW r \in Requests, NEW a \in Appeals,
           \/ StoreDecision(<<r, a>>) \/ StoreGround(<<r, a>>)
           \/ StoreInvalidOutcome(<<r, a>>) \/ EndingFails(<<r, a>>)
    PROVE  DecidedInv'
<1> DEFINE k == <<r, a>>
           w == work[k]
<1>1. /\ UNCHANGED <<call, request, missed, event, currentStatus, history>>
      /\ Ends(k) /\ k \in Calls /\ k[2] = a
      /\ work \in [Calls -> Work] /\ decision \in [Appeals -> Decision] /\ mishaps \in Nat
      /\ w \in Work
  BY DecidedFinds DEF StoreDecision, Decides, StoreGround, StoreInvalidOutcome, EndingFails, Ends,
     visitVars, vars, groupVars
<1>2. WorkGround(a, w)
  BY <1>1 DEF EndingInv, GroundInv
<1>3. ASSUME NEW next \in Work, work' = [work EXCEPT ![k] = next],
             next.step = "idle" \/ next.ending = w.ending,
             \A b \in Appeals : b # a => decision'[b] = decision[b],
             missed[a] = "none" => decision'[a] = decision[a] \/ ToBeDecided,
             mishaps' = 0 => mishaps = 0,
             missed[a] = "none" /\ mishaps' = 0 =>
                \/ next.step = "stored" /\ DecidesCase(next)
                \/ ~EndsDecided(r, a) /\ next.step # "stored" /\ decision'[a] = decision[a]
                \/ ~EndsDecided(r, a) /\ ~DecidesCase(next) /\ decision'[a] = decision[a]
      PROVE  DecidedInv'
  <2>1. work'[k] = next /\ \A j \in Calls : j # k => call'[j] = call[j] /\ work'[j] = work[j]
    BY <1>1, <1>3
  <2>2. SlotOf(r, a)'
    BY <1>1, <1>3, <2>1, SlotWorks
  <2>3. next.step = "stored" /\ DecidesCase(next) => EndsDecided(r, a)'
    BY <2>1 DEF EndsDecided, DecidesCase
  <2> QED BY <1>1, <1>3, <2>1, <2>2, <2>3, DecidedWorks
<1>4. CASE StoreDecision(k)
  <2> DEFINE next == [w EXCEPT !.step = "stored"]
  <2>1. /\ w.step = "loaded" /\ DecidesCase(w) /\ mishaps' = mishaps
    BY <1>4 DEF StoreDecision, Decides, DecidesCase, visitVars, groupVars
  <2>2. missed[a] = "none" => ToBeDecided /\ ~EndsDecided(r, a)
    BY <1>1, <2>1, WorkAlone
  <2>3. CASE decision[a] = "none"
    <3>1. decision' = [decision EXCEPT ![a] = w.outcome] /\ work' = [work EXCEPT ![k] = next]
      BY <1>1, <1>4, <2>3 DEF StoreDecision
    <3>2. next \in Work /\ next.step = "stored" /\ next.ending = w.ending
      BY <1>1, WorkFacts
    <3> HIDE DEF next
    <3>3. DecidesCase(next)
      BY <2>1, <3>2 DEF DecidesCase
    <3>4. \A b \in Appeals : b # a => decision'[b] = decision[b]
      BY <1>1, <3>1
    <3> QED BY <1>3, <2>1, <2>2, <3>1, <3>2, <3>3, <3>4
  <2>4. CASE decision[a] # "none"
    <3>1. UNCHANGED decision /\ work' = [work EXCEPT ![k] = NoWork]
      BY <1>1, <1>4, <2>4 DEF StoreDecision
    <3> QED BY <1>3, <2>1, <2>2, <3>1, WorkFacts
  <2> QED BY <2>3, <2>4
<1>5. CASE StoreGround(k) \/ StoreInvalidOutcome(k)
  <2>1. /\ ~DecidesCase(w) /\ w.step # "stored" /\ UNCHANGED <<decision, mishaps>>
    BY <1>2, <1>5 DEF StoreGround, StoreInvalidOutcome, DecidesCase, WorkGround, visitVars, groupVars
  <2>2. PICK step \in {"resubmitted", "stored"} : work' = [work EXCEPT ![k].step = step]
    BY <1>5 DEF StoreGround, StoreInvalidOutcome
  <2> DEFINE next == [w EXCEPT !.step = step]
  <2>3. next \in Work /\ next.ending = w.ending /\ work' = [work EXCEPT ![k] = next]
    BY <1>1, <2>2, WorkFacts
  <2> HIDE DEF next
  <2>4. ~DecidesCase(next)
    BY <2>1, <2>3 DEF DecidesCase
  <2>5. missed[a] = "none" => ~EndsDecided(r, a)
    BY <1>1, <2>1, WorkAlone
  <2> QED BY <1>3, <2>1, <2>3, <2>4, <2>5
<1>6. CASE EndingFails(k)
  <2>1. UNCHANGED decision /\ work' = [work EXCEPT ![k] = NoWork] /\ mishaps' # 0
    BY <1>1, <1>6 DEF EndingFails, Mishap
  <2> QED BY <1>3, <2>1, WorkFacts
<1> QED BY <1>4, <1>5, <1>6

\* The work ends with the call that ends the case.
LEMMA DecidedEnds ==
    ASSUME EndingInv, DecidedInv, NEW r \in Requests, NEW a \in Appeals, EndCase(<<r, a>>)
    PROVE  DecidedInv'
<1> DEFINE k == <<r, a>>
           w == work[k]
           c == CallFor(a, EndTrigger(w))
<1>1. /\ UNCHANGED <<request, missed, event, currentStatus, history, decision, mishaps>>
      /\ Ends(k) /\ k \in Calls /\ k[2] = a /\ w.step = "stored"
      /\ work \in [Calls -> Work] /\ call \in [Calls -> CallRecord] /\ w \in Work
      /\ work' = [work EXCEPT ![k] = NoWork]
      /\ call' = IF EndsCase(w) THEN [call EXCEPT ![k] = c] ELSE call
  BY DecidedFinds DEF EndCase, Ends, statusVars, eventVars, groupVars
<1>2. /\ \A j \in Calls : j # k => call'[j] = call[j] /\ work'[j] = work[j]
      /\ work'[k].step = "idle"
  BY <1>1, WorkFacts
<1>3. CASE EndsCase(w)
  <2>1. /\ EndTrigger(w) \in EndingTrigger
        /\ DecidesCase(w) => EndTrigger(w) \in {"complete", "invalid"}
    <3>1. ASSUME DecidesCase(w) PROVE EndTrigger(w) = DecisionTrigger(w)
      BY <3>1 DEF EndTrigger, DecidesCase
    <3>2. DecisionTrigger(w) \in {"complete", "invalid"}
      BY DEF DecisionTrigger
    <3>3. ASSUME ~DecidesCase(w) PROVE EndTrigger(w) \in EndingTrigger
      BY <1>1, <3>3 DEF EndTrigger, EndingTrigger, DecidesCase, Work, Ending
    <3> QED BY <3>1, <3>2, <3>3 DEF EndingTrigger
  <2>2. EndTrigger(w) \in Trigger
    BY <2>1 DEF EndingTrigger, Trigger, OutcomeTrigger, StatusTrigger
  <2>3. c \in CallRecord /\ c.step = "read" /\ c.appeal = a /\ c.trigger = EndTrigger(w)
    BY <2>2, CallForFacts
  <2> HIDE DEF c
  <2>4. call'[k] = c
    BY <1>1, <1>3
  <2>5. SlotOf(r, a)'
    BY <1>2, <2>1, <2>3, <2>4 DEF SlotOf, InProgress, Ends
  <2>6. EndsDecided(r, a)' \/ (missed[a] = "none" => ~EndsDecided(r, a))
    <3>1. CASE DecidesCase(w)
      BY <2>1, <2>3, <2>4, <3>1 DEF EndsDecided
    <3>2. CASE ~DecidesCase(w)
      BY <1>1, <3>2, WorkAlone
    <3> QED BY <3>1, <3>2
  <2> QED BY <1>1, <1>2, <2>5, <2>6, DecidedWorks
<1>4. CASE ~EndsCase(w)
  <2>1. ~DecidesCase(w) /\ call' = call
    BY <1>1, <1>4 DEF EndsCase, DecidesCase
  <2>2. missed[a] = "none" => ~EndsDecided(r, a)
    BY <1>1, <2>1, WorkAlone
  <2>3. SlotOf(r, a)'
    BY <1>1, <1>2, <2>1, SlotWorks
  <2> QED BY <1>1, <1>2, <2>1, <2>2, <2>3, DecidedWorks
<1> QED BY <1>3, <1>4

-----------------------------------------------------------------------------
(* A visit is missed.                                                      *)

\* A step that changes one request, and calls for appeals whose visit was missed only.
LEMMA DecidedMoves ==
    ASSUME EndingInv, DecidedInv, NEW r \in Requests,
           UNCHANGED <<missed, event, currentStatus, history, decision, work, mishaps>>,
           \A q \in Requests : q # r => request'[q] = request[q],
           ForGroup(r)',
           \A q \in Requests, a \in Appeals :
              \/ call'[<<q, a>>] = call[<<q, a>>]
              \/ missed[a] # "none" /\ call'[<<q, a>>].appeal = a
    PROVE  DecidedInv'
<1>1. ASSUME NEW q \in Requests, NEW a \in Appeals
      PROVE  SlotKept(q, a) \/ SlotOf(q, a)'
  <2>1. work'[<<q, a>>] = work[<<q, a>>] /\ missed' = missed
    OBVIOUS
  <2> QED BY <2>1 DEF SlotKept, SlotOf
<1>2. ASSUME NEW q \in Requests, NEW a \in Appeals, missed[a] = "none", EndsDecided(q, a)
      PROVE  EndsDecided(q, a)'
  <2>1. call'[<<q, a>>] = call[<<q, a>>] /\ work' = work
    BY <1>2
  <2> QED BY <1>2, <2>1 DEF EndsDecided
<1> QED BY <1>1, <1>2, DecidedKept

\* The request reads a lead and children of it.
LEMMA DecidedMissed ==
    ASSUME EndingInv, DecidedInv, NEW r \in Requests, NEW a \in Appeals, EndingMissed(r, a)
    PROVE  DecidedInv'
<1> DEFINE q == Loaded("missed", a, FALSE)
<1>1. /\ UNCHANGED <<missed, event, currentStatus, history, decision, work, mishaps, call>>
      /\ LeadOf[a] = a /\ request' = [request EXCEPT ![r] = q]
  BY DEF EndingMissed, LoadMissed, Receive, endingIdle, vars
<1>2. q.step = "loaded" /\ q.appeal = a /\ q.followers = followersOf(a)
  BY NoRequestFacts DEF Loaded, Request
<1> HIDE DEF q
<1>3. request'[r] = q /\ \A s \in Requests : s # r => request'[s] = request[s]
  BY <1>1, DecidedFinds
<1>4. followersOf(a) \subseteq Children(a)
  BY DEF followersOf
<1>5. ForGroup(r)'
  BY <1>1, <1>2, <1>3, <1>4 DEF ForGroup, Busy
<1> QED BY <1>1, <1>3, <1>5, DecidedMoves

\* The visits of the group are missed now, and there are none left: each appeal of
\* the group had one, or had missed it before.
LEMMA DecidedRecords ==
    ASSUME EndingInv, DecidedInv, NEW r \in Requests, RecordMissed(r), endingIdle
    PROVE  DecidedInv'
<1>1. PICK l \in Appeals : l = request[r].appeal
  BY DecidedFinds DEF Request
<1>2. /\ request[r].step = "loaded" /\ Saved(r)
      /\ missed' = [a \in Appeals |-> IF a \in Members(l) /\ event[a] # "none" THEN event[a]
                                                                          ELSE missed[a]]
      /\ event' = [a \in Appeals |-> IF a \in Members(l) THEN "none" ELSE event[a]]
      /\ UNCHANGED <<currentStatus, history, call, decision, work, mishaps>>
  BY <1>1 DEF RecordMissed, endingIdle, statusVars
<1>3. LeadOf[l] = l /\ request[r].followers \subseteq Children(l) /\ request[r] \in Request
  <2>1. ForGroup(r) /\ request[r] \in Request
    BY DecidedFinds DEF DecidedInv
  <2> QED BY <1>1, <1>2, <2>1 DEF ForGroup, Busy
<1>4. ASSUME NEW a \in Members(l), a \in Appeals
      PROVE  missed'[a] # "none"
  BY <1>2, <1>4 DEF DecidedInv, NotReopened
<1>5. ASSUME NEW a \in Appeals, missed'[a] = "none"
      PROVE  a \notin Members(l) /\ LeadOf[a] \notin Members(l)
  BY <1>3, <1>4, <1>5, DecidedFinds DEF Members, Children
<1>6. ASSUME NEW a \in Appeals, missed'[a] = "none"
      PROVE  missed[a] = "none" /\ event'[a] = event[a] /\ missed'[LeadOf[a]] = "none"
  <2>1. missed'[a] = missed[a] /\ event'[a] = event[a] /\ missed'[LeadOf[a]] = missed[LeadOf[a]]
    BY <1>2, <1>5, <1>6, DecidedFinds
  <2> QED BY <1>6, <2>1 DEF DecidedInv, NotReopened
<1>7. ASSUME NEW q \in Requests
      PROVE  request'[q] = request[q] \/ ForGroup(q)'
  <2> SUFFICES ASSUME q = r PROVE ForGroup(r)'
    BY <1>2, DecidedFinds DEF Saved
  <2> DEFINE next == [request[r] EXCEPT !.step = "saved", !.trigger = TriggerOf(request[r])]
  <2>1. request'[r] = next \/ request'[r] = NoRequest
    BY <1>2, DecidedFinds DEF Saved
  <2>2. next.appeal = l /\ next.followers = request[r].followers
    BY <1>1, <1>3 DEF Request
  <2> HIDE DEF next
  <2>3. \A a \in {l} \union request[r].followers : missed'[a] # "none"
    BY <1>3, <1>4 DEF Members, Children
  <2>4. CASE request'[r] = next
    BY <1>3, <2>2, <2>3, <2>4 DEF ForGroup, Busy
  <2>5. CASE request'[r] = NoRequest
    BY <2>5 DEF ForGroup, Busy, NoRequest
  <2> QED BY <2>1, <2>4, <2>5
<1>8. \A q \in Requests, a \in Appeals : SlotKept(q, a)
  BY <1>2 DEF SlotKept
<1>9. \A q \in Requests, a \in Appeals : EndsDecided(q, a) => EndsDecided(q, a)'
  BY <1>2 DEF EndsDecided
<1> QED BY <1>2, <1>6, <1>7, <1>8, <1>9, DecidedFrame

\* The group is moved: every appeal of it has missed its visit.
LEMMA DecidedGroupMoves ==
    ASSUME EndingInv, DecidedInv, NEW r \in Requests, UNCHANGED missed, endingIdle,
           MoveChildren(r) \/ MoveLead(r) \/ Respond(r)
    PROVE  DecidedInv'
<1> DEFINE q == request[r]
<1>1. /\ UNCHANGED <<missed, event, currentStatus, history, decision, work, mishaps>>
      /\ ForGroup(r) /\ q \in Request /\ q.step \in {"saved", "children", "lead"}
      /\ q.appeal \in Appeals /\ q.trigger \in Trigger
  BY DecidedFinds DEF endingIdle, MoveChildren, MoveLead, ChildrenMoved, Respond, vars, statusVars,
     eventVars, DecidedInv, Request
<1>2. \A a \in {q.appeal} \union q.followers : missed[a] # "none"
  BY <1>1 DEF ForGroup
<1>3. /\ \A s \in Requests : s # r => request'[s] = request[s]
      /\ \/ request'[r] = NoRequest
         \/ request'[r].appeal = q.appeal /\ request'[r].followers = q.followers
  BY <1>1, DecidedFinds DEF MoveChildren, MoveLead, Respond, Request
<1>4. ForGroup(r)'
  <2>1. CASE request'[r] = NoRequest
    BY <2>1 DEF ForGroup, Busy, NoRequest
  <2>2. CASE request'[r].appeal = q.appeal /\ request'[r].followers = q.followers
    <3>1. LeadOf[q.appeal] = q.appeal /\ q.followers \subseteq Children(q.appeal)
      BY <1>1 DEF ForGroup, Busy
    <3> QED BY <1>1, <1>2, <2>2, <3>1 DEF ForGroup, Busy
  <2> QED BY <1>3, <2>1, <2>2
<1>5. ASSUME NEW s \in Requests, NEW a \in Appeals, call'[<<s, a>>] # call[<<s, a>>]
      PROVE  missed[a] # "none" /\ call'[<<s, a>>].appeal = a
  <2>1. /\ a \in {q.appeal} \union q.followers
        /\ call'[<<s, a>>] = CallFor(a, q.trigger)
    <3>1. CASE MoveChildren(r)
      BY <1>5, <3>1, DecidedFinds DEF MoveChildren
    <3>2. CASE MoveLead(r)
      <4>1. call' = [call EXCEPT ![<<r, q.appeal>>] = CallFor(q.appeal, q.trigger)]
        BY <3>2 DEF MoveLead
      <4>2. <<s, a>> = <<r, q.appeal>>
        BY <1>5, <4>1, DecidedFinds
      <4> QED BY <1>1, <4>1, <4>2, DecidedFinds
    <3>3. CASE Respond(r)
      BY <1>5, <3>3 DEF Respond, vars
    <3> QED BY <3>1, <3>2, <3>3
  <2> QED BY <1>1, <1>2, <2>1, CallForFacts
<1> QED BY <1>1, <1>3, <1>4, <1>5, DecidedMoves

-----------------------------------------------------------------------------
(* Calls run on, and fail.                                                 *)

\* A step of the call in one slot: it moves a case whose visit was missed, ends a
\* case, or leaves the case alone.
LEMMA DecidedSlotStep ==
    ASSUME EndingInv, DecidedInv, NEW r \in Requests, NEW a \in Appeals,
           UNCHANGED <<missed, event, decision, work>>, mishaps' \in Nat,
           mishaps' = 0 => mishaps = 0,
           \A j \in Calls : j # <<r, a>> => call'[j] = call[j],
           \A b \in Appeals : b # a => currentStatus'[b] = currentStatus[b] /\ history'[b] = history[b],
           \A q \in Requests : request'[q] = request[q] \/ request'[q] = NoRequest,
           SlotOf(r, a)',
           missed[a] = "none" =>
              HasEnded(a)' \/ (currentStatus'[a] = currentStatus[a] /\ history'[a] = history[a]),
           missed[a] = "none" /\ decision[a] # "none" /\ EndsDecided(r, a) /\ mishaps' = 0 =>
              EndsDecided(r, a)' \/ HasEnded(a)'
    PROVE  DecidedInv'
<1>1. ASSUME NEW q \in Requests, NEW b \in Appeals
      PROVE  SlotKept(q, b) \/ SlotOf(q, b)'
  BY DecidedFinds DEF SlotKept
<1>2. ASSUME NEW q \in Requests, request'[q] = NoRequest
      PROVE  ForGroup(q)'
  BY <1>2 DEF ForGroup, Busy, NoRequest
<1>3. ASSUME NEW b \in Appeals, missed[b] = "none", mishaps' = 0
      PROVE  \/ WillEnd(b)'
             \/ /\ mishaps = 0 /\ decision'[b] = decision[b]
                /\ \A q \in Requests : EndsDecided(q, b) => EndsDecided(q, b)' \/ HasEnded(b)'
  <2>1. CASE decision[b] = "none"
    BY <2>1 DEF WillEnd
  <2>2. CASE decision[b] # "none"
    <3>1. \A q \in Requests : <<q, b>> # <<r, a>> /\ EndsDecided(q, b) => EndsDecided(q, b)'
      BY DecidedFinds DEF EndsDecided
    <3> QED BY <1>3, <2>2, <3>1
  <2> QED BY <2>1, <2>2
<1> QED BY <1>1, <1>2, <1>3, DecidedKept

\* What a call for an appeal whose visit was not missed reads and writes: the end of
\* a case that has not ended, which has no row of an end to go back to.
LEMMA DecidedReads ==
    ASSUME EndingInv, DecidedInv, NEW r \in Requests, NEW a \in Appeals, missed[a] = "none",
           ReadAppeal(<<r, a>>), UNCHANGED <<missed, work>>
    PROVE  /\ SlotOf(r, a)'
           /\ decision[a] # "none" /\ EndsDecided(r, a) => EndsDecided(r, a)' \/ HasEnded(a)
<1> DEFINE k == <<r, a>>
           c == call[k]
           new == NextStatusOf(a, eventElapsed(a), currentStatus[a], c.trigger)
<1>1. /\ k \in Calls /\ c \in CallRecord /\ call \in [Calls -> CallRecord]
      /\ TypeOK /\ currentStatus[a] \in Status
      /\ c.step = "read" /\ c.appeal = a /\ c.trigger \in EndingTrigger /\ ~Ends(k)
      /\ NotReopened(a) /\ UNCHANGED <<currentStatus, history>>
  <2>1. SlotOf(r, a) /\ c.step = "read" /\ UNCHANGED <<currentStatus, history>>
    BY DEF DecidedInv, ReadAppeal, statusVars
  <2> QED BY <2>1, DecidedFinds DEF SlotOf, InProgress, DecidedInv, TypeOK
<1>2. /\ new # currentStatus[a] => new \in Ended
      /\ currentStatus[a] = "issue_determination" /\ c.trigger \in {"complete", "invalid"} =>
            new # currentStatus[a]
  <2>1. eventElapsed(a) \in BOOLEAN
    BY <1>1 DEF eventElapsed, TypeOK
  <2> QED BY <1>1, <2>1, ChartDecides DEF NextStatusOf
<1>3. \/ new = currentStatus[a] /\ call' = [call EXCEPT ![k] = UpdatingList(c)]
      \/ /\ new # currentStatus[a]
         /\ call' = [call EXCEPT ![k] = [c EXCEPT !.step = "write", !.newState = new,
                                           !.passed = isStatePassed(history[a], new),
                                           !.arranged = isArranged(a)]]
  BY <1>1 DEF ReadAppeal
<1> HIDE DEF new
<1>4. CASE new = currentStatus[a] /\ call' = [call EXCEPT ![k] = UpdatingList(c)]
  <2>1. call'[k].step = "readList" /\ call'[k].appeal = a
    BY <1>1, <1>4, UpdatingListFacts
  <2>2. SlotOf(r, a)'
    BY <1>1, <2>1 DEF SlotOf, InProgress, Ends
  <2>3. decision[a] # "none" /\ EndsDecided(r, a) => HasEnded(a)
    BY <1>1, <1>2, <1>4 DEF NotReopened, ToBeDecided, EndsDecided, Ends
  <2> QED BY <2>2, <2>3
<1>5. CASE /\ new # currentStatus[a]
           /\ call' = [call EXCEPT ![k] = [c EXCEPT !.step = "write", !.newState = new,
                                             !.passed = isStatePassed(history[a], new),
                                             !.arranged = isArranged(a)]]
  <2>1. /\ call'[k].step = "write" /\ call'[k].appeal = a /\ call'[k].newState = new
        /\ call'[k].passed = isStatePassed(history[a], new)
    BY <1>1, <1>5 DEF CallRecord
  <2>2. isStatePassed(history[a], new) => HasEnded(a)
    BY <1>1, <1>2, <1>5 DEF NotReopened, isStatePassed, CompletedStates, RowsWith
  <2>3. HasEnded(a)' = HasEnded(a)
    BY <1>1 DEF HasEnded
  <2>4. SlotOf(r, a)'
    BY <1>1, <1>2, <1>5, <2>1, <2>2, <2>3 DEF SlotOf, InProgress, Ends
  <2>5. EndsDecided(r, a)'
    BY <2>1 DEF EndsDecided
  <2> QED BY <2>4, <2>5
<1> QED BY <1>3, <1>4, <1>5

\* A call for a decided appeal writes an end, or throws on one that has ended already.
LEMMA DecidedWrites ==
    ASSUME EndingInv, DecidedInv, NEW r \in Requests, NEW a \in Appeals, missed[a] = "none",
           Advance(<<r, a>>) \/ RollBack(<<r, a>>) \/ RollBackThrows(<<r, a>>),
           UNCHANGED <<missed, work>>
    PROVE  /\ SlotOf(r, a)'
           /\ HasEnded(a)'
<1> DEFINE k == <<r, a>>
           c == call[k]
<1>1. /\ k \in Calls /\ c \in CallRecord /\ call \in [Calls -> CallRecord]
      /\ TypeOK /\ currentStatus \in [Appeals -> Status]
      /\ c.step = "write" /\ c.appeal = a /\ ~Ends(k)
      /\ c.newState \in Ended /\ (c.passed => HasEnded(a))
  <2>1. SlotOf(r, a) /\ c.step = "write"
    BY DEF DecidedInv, Advance, RollBack, RollBackThrows
  <2> QED BY <2>1, DecidedFinds DEF SlotOf, InProgress, TypeOK
<1>2. CASE Advance(k) \/ RollBack(k)
  <2>1. /\ currentStatus' = [currentStatus EXCEPT ![a] = c.newState]
        /\ call'[k] = AfterWrite(k)
    BY <1>1, <1>2 DEF Advance, RollBack
  <2>2. AfterWrite(k) = UpdatingList(c)
    BY <1>1 DEF AfterWrite, Ended, FinalStatus
  <2>3. call'[k].step = "readList" /\ call'[k].appeal = a
    BY <1>1, <2>1, <2>2, UpdatingListFacts
  <2>4. HasEnded(a)'
    BY <1>1, <2>1 DEF HasEnded, Ended
  <2> QED BY <1>1, <2>3, <2>4 DEF SlotOf, InProgress, Ends
<1>3. CASE RollBackThrows(k)
  <2>1. call'[k].step = "idle" /\ currentStatus' = currentStatus /\ c.passed
    BY <1>1, <1>3, IdleFacts DEF RollBackThrows, statusVars
  <2>2. HasEnded(a)'
    BY <1>1, <2>1 DEF HasEnded
  <2> QED BY <1>1, <2>1, <2>2 DEF SlotOf, InProgress, Ends
<1> QED BY <1>2, <1>3

\* The other steps read and write entries of the personal list.
LEMMA DecidedCallStep ==
    ASSUME EndingInv, DecidedInv, NEW r \in Requests, NEW a \in Appeals, CallStepOf(r, a),
           UNCHANGED missed, endingIdle
    PROVE  DecidedInv'
<1> DEFINE k == <<r, a>>
           c == call[k]
<1>1. /\ k \in Calls /\ TypeOK /\ Step(k) /\ SlotOf(r, a) /\ mishaps' = mishaps /\ mishaps \in Nat
      /\ UNCHANGED <<missed, decision, work>>
  BY DecidedFinds DEF CallStepOf, endingIdle, DecidedInv
<1>2. /\ InProgress(k) /\ UNCHANGED event /\ \A j \in Calls : j # k => call'[j] = call[j]
      /\ call'[k].step # "idle" => call'[k].appeal = c.appeal
      /\ c.appeal = a
  <2>1. /\ InProgress(k) /\ UNCHANGED eventVars /\ \A j \in Calls \ {k} : call'[j] = call[j]
        /\ call'[k].step # "idle" => call'[k].appeal = c.appeal
    BY <1>1, StepStays
  <2> QED BY <1>1, <2>1 DEF eventVars, SlotOf
<1>3. \A q \in Requests : request'[q] = request[q] \/ request'[q] = NoRequest
  BY DecidedFinds DEF CallStepOf
<1>4. \A b \in Appeals : b # a => currentStatus'[b] = currentStatus[b] /\ history'[b] = history[b]
  <2>1. CASE ReadAppeal(k)
    BY <2>1 DEF ReadAppeal, statusVars
  <2>2. CASE ~ReadAppeal(k)
    <3>1. \/ UNCHANGED statusVars
          \/ /\ currentStatus' = [currentStatus EXCEPT ![c.appeal] = c.newState]
             /\ \A b \in Appeals \ {c.appeal} : history'[b] = history[b]
      BY <1>1, <2>2, StepWrites
    <3> QED BY <1>1, <1>2, <3>1 DEF statusVars, TypeOK
  <2> QED BY <2>1, <2>2
<1>5. CASE missed[a] # "none"
  <2>1. SlotOf(r, a)'
    BY <1>1, <1>2, <1>5 DEF SlotOf, InProgress
  <2> QED BY <1>1, <1>2, <1>3, <1>4, <1>5, <2>1, DecidedSlotStep
<1>6. CASE missed[a] = "none" /\ ReadAppeal(k)
  <2>1. UNCHANGED <<currentStatus, history>> /\ HasEnded(a)' = HasEnded(a)
    BY <1>6 DEF ReadAppeal, statusVars, HasEnded
  <2>2. /\ SlotOf(r, a)'
        /\ decision[a] # "none" /\ EndsDecided(r, a) => EndsDecided(r, a)' \/ HasEnded(a)'
    BY <1>1, <1>6, <2>1, DecidedReads
  <2> QED BY <1>1, <1>2, <1>3, <1>4, <2>1, <2>2, DecidedSlotStep
<1>7. CASE missed[a] = "none" /\ (Advance(k) \/ RollBack(k) \/ RollBackThrows(k))
  <2>1. SlotOf(r, a)' /\ HasEnded(a)'
    BY <1>1, <1>7, DecidedWrites
  <2> QED BY <1>1, <1>2, <1>3, <1>4, <2>1, DecidedSlotStep
<1>8. CASE /\ missed[a] = "none" /\ ~ReadAppeal(k)
           /\ ~(Advance(k) \/ RollBack(k) \/ RollBackThrows(k))
  <2>1. c.step \notin {"read", "write", "proofs"} /\ ~Ends(k)
    BY <1>1, <1>2, <1>8 DEF Step, ReadProofs, ReadForList, WriteList, WriteChildren, SlotOf
  <2>2. /\ call'[k].step \notin {"read", "write", "proofs"}
        /\ UNCHANGED statusVars
    BY <1>1, <1>8, <2>1, StepWrites
  <2>3. SlotOf(r, a)'
    BY <1>1, <1>2, <2>1, <2>2 DEF SlotOf, InProgress, Ends
  <2>4. ~EndsDecided(r, a)
    BY <2>1 DEF EndsDecided, Ends
  <2>5. currentStatus' = currentStatus /\ history' = history
    BY <2>2 DEF statusVars
  <2> QED BY <1>1, <1>2, <1>3, <1>4, <2>3, <2>4, <2>5, DecidedSlotStep
<1> QED BY <1>5, <1>6, <1>7, <1>8

\* A failure frees the slot, and is a mishap.
LEMMA DecidedFails ==
    ASSUME EndingInv, DecidedInv,
           \/ \E r \in Requests, a \in Appeals :
                 CallFails(r, a) /\ UNCHANGED missed /\ endingIdle
           \/ \E r \in Requests : NotifyFails(r) /\ endingIdle
           \/ EndingStops
    PROVE  DecidedInv'
<1>1. UNCHANGED <<missed, event, currentStatus, history, decision>> /\ mishaps' # 0
  <2>1. mishaps' = mishaps + 1 /\ mishaps \in Nat
    BY DecidedFinds DEF CallFails, NotifyFails, EndingStops, Mishap
  <2>2. UNCHANGED <<missed, event, currentStatus, history, decision>>
    BY DEF CallFails, NotifyFails, EndingStops, endingIdle, statusVars, eventVars, vars
  <2> QED BY <2>1, <2>2
<1>2. ASSUME NEW q \in Requests
      PROVE  request'[q] = request[q] \/ ForGroup(q)'
  <2>1. request'[q] = request[q] \/ request'[q] = NoRequest
    BY DecidedFinds DEF CallFails, NotifyFails, EndingStops
  <2> QED BY <2>1 DEF ForGroup, Busy, NoRequest
<1>3. ASSUME NEW q \in Requests, NEW b \in Appeals
      PROVE  SlotKept(q, b) \/ SlotOf(q, b)'
  <2>1. CASE EndingStops
    <3>1. call'[<<q, b>>].step = "idle" /\ work'[<<q, b>>].step = "idle"
      BY <2>1, DecidedFinds, IdleFacts, WorkFacts DEF EndingStops
    <3> QED BY <3>1 DEF SlotOf, InProgress, Ends
  <2>2. ASSUME NEW r \in Requests, NEW a \in Appeals, CallFails(r, a), endingIdle
        PROVE  SlotKept(q, b) \/ SlotOf(q, b)'
    <3>1. CASE <<q, b>> # <<r, a>>
      BY <1>1, <2>2, <3>1, DecidedFinds DEF CallFails, endingIdle, SlotKept
    <3>2. CASE <<q, b>> = <<r, a>>
      <4>1. /\ call'[<<q, b>>].step = "idle" /\ work' = work
            /\ InProgress(<<q, b>>) /\ SlotOf(q, b)
        BY <1>1, <2>2, <3>2, DecidedFinds, IdleFacts DEF CallFails, endingIdle, DecidedInv
      <4> QED BY <1>1, <4>1 DEF SlotOf, InProgress, Ends
    <3> QED BY <3>1, <3>2
  <2>3. CASE \E r \in Requests : NotifyFails(r) /\ endingIdle
    BY <2>3 DEF NotifyFails, endingIdle, SlotKept, vars
  <2> QED BY <2>1, <2>2, <2>3
<1> QED BY <1>1, <1>2, <1>3, DecidedKept

-----------------------------------------------------------------------------
(* The theorem.                                                            *)

\* Every step keeps what makes a decided case end.
LEMMA DecidedNext == EndingInv /\ DecidedInv /\ [EndingNext]_endingVars => DecidedInv'
<1> SUFFICES ASSUME EndingInv, DecidedInv, [EndingNext]_endingVars PROVE DecidedInv'
  OBVIOUS
<1>1. ASSUME NEW r \in Requests, NEW a \in Asked,
             \/ LoadDecide(r, a) \/ LoadWithdraw(r, a) \/ LoadNewType(r, a)
             \/ LoadConfirmTransfer(r, a) \/ EndingMissed(r, a)
      PROVE  DecidedInv'
  BY <1>1, EndingAssumption, DecidedArrivals, DecidedMissed
<1>2. ASSUME NEW k \in Calls,
             \/ StoreDecision(k) \/ StoreGround(k) \/ StoreInvalidOutcome(k)
             \/ EndCase(k) \/ EndingFails(k)
      PROVE  DecidedInv'
  <2>1. PICK r \in Requests, a \in Appeals : k = <<r, a>>
    BY DecidedFinds
  <2> QED BY <1>2, <2>1, DecidedStores, DecidedEnds
<1>3. ASSUME NEW r \in Requests, RecordMissed(r), endingIdle
      PROVE  DecidedInv'
  BY <1>3, DecidedRecords
<1>4. ASSUME NEW r \in Requests, MoveStep(r), UNCHANGED missed, endingIdle
      PROVE  DecidedInv'
  BY <1>4, DecidedGroupMoves, DecidedCallStep DEF MoveStep
<1>5. CASE \/ \E r \in Requests, a \in Appeals :
                 CallFails(r, a) /\ UNCHANGED missed /\ endingIdle
           \/ \E r \in Requests : NotifyFails(r) /\ endingIdle
           \/ EndingStops
  BY <1>5, DecidedFails
<1>6. CASE UNCHANGED endingVars
  <2>1. UNCHANGED <<missed, event, currentStatus, history, decision, mishaps, request, call, work>>
    BY <1>6 DEF endingVars, visitVars, vars, groupVars
  <2>2. \A r \in Requests, a \in Appeals : SlotKept(r, a) /\ (EndsDecided(r, a) => EndsDecided(r, a)')
    BY <2>1 DEF SlotKept, EndsDecided
  <2> QED BY <2>1, <2>2, DecidedKept
<1> QED BY <1>1, <1>2, <1>3, <1>4, <1>5, <1>6 DEF EndingNext

\* However the ways a case ends overlap, once nothing is in progress and if nothing has
\* failed, a case that was decided has ended, unless its visit was recorded as missed.
THEOREM DecidedCaseEnds ==
    ASSUME StartPath[Len(StartPath)] \notin FinalStatus \union {"awaiting_transfer"}
    PROVE  EndingSpec => []DecidedHasEnded
<1>1. EndingInit => EndingInv /\ DecidedInv
  BY EndingStart, DecidedStart DEF Ended
<1>2. ASSUME EndingInv, DecidedInv
      PROVE  DecidedHasEnded
  <2> SUFFICES ASSUME Quiet, mishaps = 0, \A k \in Calls : ~Ends(k),
                      NEW a \in Appeals, decision[a] # "none", missed[a] = "none"
               PROVE  HasEnded(a)
    BY DEF DecidedHasEnded
  <2>1. ASSUME NEW r \in Requests PROVE ~EndsDecided(r, a)
    BY <1>2, DecidedFinds DEF Quiet, Free, InProgress, Ends, EndsDecided
  <2> QED BY <1>2, <2>1 DEF DecidedInv, WillEnd
<1> QED BY <1>1, <1>2, EndingInvNext, DecidedNext, PTL DEF EndingSpec
=============================================================================
