--------------------------- MODULE GroupMove_proofs ---------------------------
(***************************************************************************)
(* Lemmas about the moves of a group, for any groups, number of requests   *)
(* and mishaps: what requests and the calls they start look like, and that *)
(* no step of a move disturbs the types or the agreement of an appeal's    *)
(* rows with its currentStatus column.                                     *)
(***************************************************************************)
EXTENDS GroupMove, TransitionState_proofs

GroupInv == RowsInv /\ GroupTypeOK

-----------------------------------------------------------------------------
(* Requests and the calls they start.                                      *)

\* The slot of a request for an appeal.
LEMMA SlotFacts == \A r \in Requests, a \in Appeals : <<r, a>> \in Calls
BY GroupAssumption

\* A free slot for requests is a request that moves nothing.
LEMMA NoRequestFacts == NoRequest \in Request /\ NoRequest.trigger = "Complete"
<1>1. (CHOOSE a \in Appeals : TRUE) \in Appeals
  BY AppealsAssumption
<1> QED BY <1>1 DEF NoRequest, Request, RequestStep, Purpose, Status, WorkingStatus, Trigger,
       OutcomeTrigger

\* What a request has read is a request, which sends Complete unless it is told
\* otherwise.
LEMMA LoadedFacts ==
    ASSUME GroupInv, NEW a \in Appeals, NEW purpose \in Purpose, NEW date \in BOOLEAN
    PROVE  /\ Loaded(purpose, a, date) \in Request
           /\ Loaded(purpose, a, date).trigger = "Complete"
<1>1. currentStatus[a] \in Status /\ "loaded" \in RequestStep
  BY DEF GroupInv, RowsInv, TypeOK, RequestStep
<1>2. followersOf(a) \in SUBSET Appeals
  BY DEF followersOf, Children
<1>3. (RowsWith(history[a], "event") # {}) \in BOOLEAN
  OBVIOUS
<1> QED BY <1>1, <1>2, <1>3, NoRequestFacts DEF Loaded, Request

\* The call for an appeal reads the appeal first.
LEMMA CallForFacts ==
    ASSUME NEW a \in Appeals, NEW trigger \in Trigger
    PROVE  /\ CallFor(a, trigger) \in CallRecord
           /\ CallFor(a, trigger).step = "read"
           /\ CallFor(a, trigger).appeal = a
           /\ CallFor(a, trigger).trigger = trigger
BY IdleFacts DEF CallFor, CallRecord, CallStep

-----------------------------------------------------------------------------
(* What a step of a group's move leaves in the slots.                      *)

\* A step that changes calls and requests only, or leaves them alone.
LEMMA GroupUntouched ==
    ASSUME GroupInv, UNCHANGED <<statusVars, eventVars, personalList>>,
           call' \in [Calls -> CallRecord], request' \in [Requests -> Request],
           mishaps' \in 0..MaxMishaps
    PROVE  GroupInv'
<1>1. TypeOK'
  BY DEF GroupInv, RowsInv, TypeOK, statusVars, eventVars
<1> QED BY <1>1, RowsUntouched DEF GroupInv, RowsInv, GroupTypeOK

\* A mishap is counted up to the bound of the run.
LEMMA MishapFacts == GroupInv /\ Mishap => mishaps' \in 0..MaxMishaps
BY GroupAssumption DEF GroupInv, GroupTypeOK, Mishap

\* The calls for the children read them first, those of other requests go on.
LEMMA MoveChildrenFacts ==
    ASSUME GroupInv, NEW r \in Requests, MoveChildren(r)
    PROVE  /\ call' \in [Calls -> CallRecord]
           /\ \A k \in Calls :
                 \/ call'[k] = call[k]
                 \/ call'[k].step = "read" /\ call'[k].trigger = request[r].trigger
<1>1. request[r].trigger \in Trigger
  BY DEF GroupInv, GroupTypeOK, Request
<1>2. \A k \in Calls : k[2] \in Appeals
  BY GroupAssumption
<1>3. \A k \in Calls : call'[k] = call[k] \/ call'[k] = CallFor(k[2], request[r].trigger)
  BY DEF MoveChildren
<1>4. call \in [Calls -> CallRecord]
  BY DEF GroupInv, GroupTypeOK, TypeOK
<1>5. \A k \in Calls : /\ CallFor(k[2], request[r].trigger) \in CallRecord
                       /\ CallFor(k[2], request[r].trigger).step = "read"
                       /\ CallFor(k[2], request[r].trigger).trigger = request[r].trigger
  BY <1>1, <1>2, CallForFacts
<1>6. DOMAIN call' = Calls /\ call' = [k \in Calls |-> call'[k]]
  BY DEF MoveChildren
<1> QED BY <1>3, <1>4, <1>5, <1>6

\* The call for the lead reads it first, the other calls go on.
LEMMA MoveLeadFacts ==
    ASSUME GroupInv, NEW r \in Requests, MoveLead(r)
    PROVE  \E k \in Calls, c \in CallRecord :
              /\ call' = [call EXCEPT ![k] = c]
              /\ c.step = "read" /\ c.trigger = request[r].trigger
<1>1. request[r].trigger \in Trigger /\ request[r].appeal \in Appeals
  BY DEF GroupInv, GroupTypeOK, Request
<1>2. <<r, request[r].appeal>> \in Calls
  BY <1>1, SlotFacts
<1>3. call' = [call EXCEPT ![<<r, request[r].appeal>>] =
                    CallFor(request[r].appeal, request[r].trigger)]
  BY DEF MoveLead
<1>4. /\ CallFor(request[r].appeal, request[r].trigger) \in CallRecord
      /\ CallFor(request[r].appeal, request[r].trigger).step = "read"
      /\ CallFor(request[r].appeal, request[r].trigger).trigger = request[r].trigger
  BY <1>1, CallForFacts
<1> QED BY <1>2, <1>3, <1>4

\* Changing the step of a request, or freeing its slot, leaves a request in it.
LEMMA RequestKept ==
    ASSUME GroupInv, NEW r \in Requests,
           \/ \E step \in RequestStep : request' = [request EXCEPT ![r].step = step]
           \/ request' = [request EXCEPT ![r] = NoRequest]
           \/ \E q \in Request : request' = [request EXCEPT ![r] = q]
    PROVE  request' \in [Requests -> Request]
<1>1. request \in [Requests -> Request]
  BY DEF GroupInv, GroupTypeOK
<1>2. CASE \E step \in RequestStep : request' = [request EXCEPT ![r].step = step]
  <2>1. PICK step \in RequestStep : request' = [request EXCEPT ![r].step = step]
    BY <1>2
  <2>2. [request[r] EXCEPT !.step = step] \in Request
    BY <1>1 DEF Request
  <2> QED BY <1>1, <2>1, <2>2
<1>3. CASE request' = [request EXCEPT ![r] = NoRequest]
  BY <1>1, <1>3, NoRequestFacts
<1>4. CASE \E q \in Request : request' = [request EXCEPT ![r] = q]
  BY <1>1, <1>4
<1> QED BY <1>2, <1>3, <1>4

\* A step of a call in a group's move is a step of the call and leaves requests.
LEMMA GroupCallStep ==
    ASSUME GroupInv, NEW r \in Requests, NEW a \in Appeals, CallStepOf(r, a)
    PROVE  GroupInv'
<1>1. RowsInv'
  BY SlotFacts, RowsReadAppeal, RowsRollBack, RowsAdvance, RowsSmallSteps
     DEF CallStepOf, Step, GroupInv
<1>2. request' \in [Requests -> Request]
  BY NoRequestFacts DEF CallStepOf, GroupInv, GroupTypeOK
<1> QED BY <1>1, <1>2 DEF GroupInv, GroupTypeOK, RowsInv, CallStepOf

\* Every step of a move keeps the types and the agreement of rows and column.
LEMMA GroupMoveStep ==
    ASSUME GroupInv, NEW r \in Requests, MoveStep(r)
    PROVE  GroupInv'
<1>1. /\ call \in [Calls -> CallRecord] /\ mishaps \in 0..MaxMishaps
      /\ {"children", "lead"} \subseteq RequestStep
  BY DEF GroupInv, GroupTypeOK, TypeOK, RequestStep
<1>2. CASE MoveChildren(r)
  BY <1>1, <1>2, MoveChildrenFacts, RequestKept, GroupUntouched DEF MoveChildren
<1>3. CASE MoveLead(r)
  <2>1. call' \in [Calls -> CallRecord]
    BY <1>1, <1>3, MoveLeadFacts
  <2> QED BY <1>1, <1>3, <2>1, RequestKept, GroupUntouched DEF MoveLead
<1>4. CASE Respond(r)
  BY <1>1, <1>4, RequestKept, GroupUntouched DEF Respond, vars, statusVars, eventVars
<1>5. CASE \E a \in Appeals : CallStepOf(r, a)
  BY <1>5, GroupCallStep
<1> QED BY <1>2, <1>3, <1>4, <1>5 DEF MoveStep

\* So does a query that fails, and so does the stop of the process.
LEMMA GroupFails ==
    ASSUME GroupInv,
           ProcessStops \/ \E r \in Requests, a \in Appeals : CallFails(r, a)
    PROVE  GroupInv'
<1>1. call \in [Calls -> CallRecord]
  BY DEF GroupInv, GroupTypeOK, TypeOK
<1>2. CASE ProcessStops
  BY <1>1, <1>2, IdleFacts, NoRequestFacts, MishapFacts, GroupUntouched DEF ProcessStops
<1>3. ASSUME NEW r \in Requests, NEW a \in Appeals, CallFails(r, a)
      PROVE  GroupInv'
  BY <1>1, <1>3, SlotFacts, IdleFacts, RequestKept, MishapFacts, GroupUntouched DEF CallFails
<1> QED BY <1>2, <1>3

\* A request that comes in is one that has read its group.
LEMMA GroupReceives ==
    ASSUME GroupInv, NEW r \in Requests, NEW a \in Appeals, NEW purpose \in Purpose,
           NEW date \in BOOLEAN, Receive(r, purpose, a, date)
    PROVE  GroupInv'
<1>1. call \in [Calls -> CallRecord] /\ mishaps \in 0..MaxMishaps
  BY DEF GroupInv, GroupTypeOK, TypeOK
<1> QED BY <1>1, LoadedFacts, RequestKept, GroupUntouched DEF Receive, vars, statusVars, eventVars

\* What has been read and needs no visit to be saved is a request as well.
LEMMA LoadedSavedFacts ==
    ASSUME GroupInv, NEW a \in Appeals, NEW purpose \in Purpose
    PROVE  [Loaded(purpose, a, FALSE) EXCEPT !.step = "saved"] \in Request
<1>1. Loaded(purpose, a, FALSE) \in Request /\ "saved" \in RequestStep
  BY LoadedFacts DEF RequestStep
<1> QED BY <1>1 DEF Request

\* The publication of representations comes in as one request ...
LEMMA GroupPublishes ==
    ASSUME GroupInv, NEW r \in Requests, NEW a \in Appeals, LoadPublish(r, a)
    PROVE  GroupInv'
<1>1. call \in [Calls -> CallRecord] /\ mishaps \in 0..MaxMishaps /\ "publish" \in Purpose
  BY DEF GroupInv, GroupTypeOK, TypeOK, Purpose
<1> QED BY <1>1, LoadedSavedFacts, RequestKept, GroupUntouched
       DEF LoadPublish, vars, statusVars, eventVars

\* ... a run of the completed events job as many.
LEMMA GroupJob ==
    ASSUME GroupInv, NEW selected \in SUBSET Appeals, LoadJob(selected)
    PROVE  GroupInv'
<1>1. /\ call \in [Calls -> CallRecord] /\ mishaps \in 0..MaxMishaps /\ "job" \in Purpose
      /\ request \in [Requests -> Request]
  BY DEF GroupInv, GroupTypeOK, TypeOK, Purpose
<1>2. PICK slot \in Injection(selected, Requests) :
         /\ request' = [r \in Requests |->
                          IF \E a \in selected : slot[a] = r
                            THEN [Loaded("job", CHOOSE a \in selected : slot[a] = r, FALSE)
                                    EXCEPT !.step = "saved"]
                            ELSE request[r]]
         /\ UNCHANGED <<vars, mishaps>>
  BY DEF LoadJob
<1>3. \A r \in Requests :
         (\E a \in selected : slot[a] = r) =>
            [Loaded("job", CHOOSE a \in selected : slot[a] = r, FALSE) EXCEPT !.step = "saved"]
               \in Request
  BY <1>1, LoadedSavedFacts
<1>4. request' \in [Requests -> Request]
  BY <1>1, <1>2, <1>3
<1> QED BY <1>1, <1>2, <1>4, GroupUntouched DEF vars, statusVars, eventVars

-----------------------------------------------------------------------------
(* The stages of a group's appeals.                                        *)

\* Requests about visits, publications and the job cancel no hearing.
OutcomesOnly == \A r \in Requests : request[r].trigger \in {"Complete", "Incomplete"}

\* A step that writes no status: each call it leaves is one there was, is over, or
\* reads its appeal next, and with any trigger but Cancel.
LEMMA StageUntouched ==
    ASSUME GroupInv, StageInv, UNCHANGED <<kind, currentStatus>>,
           \A k \in Calls :
              \/ call'[k] = call[k]
              \/ call'[k].step = "idle"
              \/ call'[k].step = "read" /\ call'[k].trigger # "Cancel"
    PROVE  StageInv'
BY DEF StageInv, HasStage

\* A step of a move keeps the appeals, and what calls decide, at stages they have, and
\* leaves requests with triggers that are outcomes.
LEMMA StageMoves ==
    ASSUME GroupInv, StageInv, OutcomesOnly, NEW r \in Requests, MoveStep(r)
    PROVE  StageInv' /\ OutcomesOnly'
<1>1. /\ RowsInv /\ call \in [Calls -> CallRecord] /\ request \in [Requests -> Request]
      /\ request[r].trigger \in {"Complete", "Incomplete"}
  BY DEF GroupInv, GroupTypeOK, RowsInv, TypeOK, OutcomesOnly
<1>2. ASSUME NEW step \in RequestStep, request' = [request EXCEPT ![r].step = step]
      PROVE  OutcomesOnly'
  <2>1. \A q \in Requests : request'[q].trigger = request[q].trigger
    BY <1>1, <1>2 DEF Request
  <2> QED BY <2>1 DEF OutcomesOnly
<1>3. ASSUME \A q \in Requests : request'[q] = request[q] \/ request'[q] = NoRequest
      PROVE  OutcomesOnly'
  BY <1>3, NoRequestFacts DEF OutcomesOnly
<1>4. {"children", "lead"} \subseteq RequestStep
  BY DEF RequestStep
<1>5. CASE MoveChildren(r)
  <2>1. UNCHANGED <<kind, currentStatus>>
    BY <1>5 DEF MoveChildren, statusVars, eventVars
  <2>2. \A k \in Calls : \/ call'[k] = call[k]
                         \/ call'[k].step = "read" /\ call'[k].trigger # "Cancel"
    BY <1>1, <1>5, MoveChildrenFacts
  <2> QED BY <1>2, <1>4, <1>5, <2>1, <2>2, StageUntouched DEF MoveChildren
<1>6. CASE MoveLead(r)
  <2>1. UNCHANGED <<kind, currentStatus>>
    BY <1>6 DEF MoveLead, statusVars, eventVars
  <2>2. \A k \in Calls : \/ call'[k] = call[k]
                         \/ call'[k].step = "read" /\ call'[k].trigger # "Cancel"
    BY <1>1, <1>6, MoveLeadFacts
  <2> QED BY <1>2, <1>4, <1>6, <2>1, <2>2, StageUntouched DEF MoveLead
<1>7. CASE Respond(r)
  <2>1. UNCHANGED <<kind, currentStatus, call>> /\ request' = [request EXCEPT ![r] = NoRequest]
    BY <1>7 DEF Respond, vars
  <2> QED BY <1>1, <1>3, <2>1, StageUntouched
<1>8. ASSUME NEW a \in Appeals, CallStepOf(r, a)
      PROVE  StageInv' /\ OutcomesOnly'
  <2>1. [Next]_vars
    BY <1>8, SlotFacts DEF CallStepOf, Next, Working
  <2>2. \A q \in Requests : request'[q] = request[q] \/ request'[q] = NoRequest
    BY <1>1, <1>8 DEF CallStepOf
  <2> QED BY <1>1, <1>3, <2>1, <2>2, StageNext
<1> QED BY <1>5, <1>6, <1>7, <1>8 DEF MoveStep

\* So does a failure of a move.
LEMMA StageFails ==
    ASSUME GroupInv, StageInv, OutcomesOnly,
           ProcessStops \/ \E r \in Requests, a \in Appeals : CallFails(r, a)
    PROVE  StageInv' /\ OutcomesOnly'
<1>1. call \in [Calls -> CallRecord] /\ request \in [Requests -> Request]
  BY DEF GroupInv, GroupTypeOK, TypeOK
<1>2. UNCHANGED <<kind, currentStatus>>
  BY DEF ProcessStops, CallFails, statusVars, eventVars
<1>3. \A k \in Calls : call'[k] = call[k] \/ call'[k].step = "idle"
  BY <1>1, IdleFacts DEF ProcessStops, CallFails
<1>4. \A q \in Requests : request'[q] = request[q] \/ request'[q] = NoRequest
  BY <1>1 DEF ProcessStops, CallFails
<1> QED BY <1>2, <1>3, <1>4, StageUntouched, NoRequestFacts DEF OutcomesOnly

\* The requests that come in are to send Complete, unless they are told otherwise.
LEMMA OutcomesLoaded ==
    ASSUME GroupInv, OutcomesOnly,
           \/ \E r \in Requests, a \in Appeals, purpose \in Purpose, date \in BOOLEAN :
                 Receive(r, purpose, a, date)
           \/ \E r \in Requests, a \in Appeals : LoadPublish(r, a)
           \/ \E selected \in SUBSET Appeals : LoadJob(selected)
    PROVE  OutcomesOnly'
<1>1. request \in [Requests -> Request] /\ {"publish", "job"} \subseteq Purpose
  BY DEF GroupInv, GroupTypeOK, Purpose
<1>2. ASSUME NEW a \in Appeals, NEW purpose \in Purpose, NEW date \in BOOLEAN
      PROVE  /\ Loaded(purpose, a, date).trigger = "Complete"
             /\ [Loaded(purpose, a, date) EXCEPT !.step = "saved"].trigger = "Complete"
  <2>1. Loaded(purpose, a, date) \in Request /\ Loaded(purpose, a, date).trigger = "Complete"
    BY LoadedFacts
  <2> QED BY <2>1 DEF Request
<1>3. ASSUME NEW r \in Requests, NEW a \in Appeals, NEW purpose \in Purpose, NEW date \in BOOLEAN,
             Receive(r, purpose, a, date)
      PROVE  OutcomesOnly'
  BY <1>1, <1>2, <1>3 DEF Receive, OutcomesOnly
<1>4. ASSUME NEW r \in Requests, NEW a \in Appeals, LoadPublish(r, a)
      PROVE  OutcomesOnly'
  BY <1>1, <1>2, <1>4 DEF LoadPublish, OutcomesOnly
<1>5. ASSUME NEW selected \in SUBSET Appeals, LoadJob(selected)
      PROVE  OutcomesOnly'
  <2>1. PICK slot \in Injection(selected, Requests) :
           request' = [r \in Requests |->
                         IF \E a \in selected : slot[a] = r
                           THEN [Loaded("job", CHOOSE a \in selected : slot[a] = r, FALSE)
                                   EXCEPT !.step = "saved"]
                           ELSE request[r]]
    BY <1>5 DEF LoadJob
  <2>2. ASSUME NEW r \in Requests
        PROVE  request'[r].trigger \in {"Complete", "Incomplete"}
    <3>1. CASE \E a \in selected : slot[a] = r
      <4>1. (CHOOSE a \in selected : slot[a] = r) \in Appeals
        BY <3>1
      <4> QED BY <1>1, <1>2, <2>1, <3>1, <4>1
    <3>2. CASE ~\E a \in selected : slot[a] = r
      BY <2>1, <3>2 DEF OutcomesOnly
    <3> QED BY <3>1, <3>2
  <2> QED BY <2>2 DEF OutcomesOnly
<1> QED BY <1>3, <1>4, <1>5
=============================================================================
