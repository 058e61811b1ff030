---------------------- MODULE HearingArrangement_proofs ----------------------
(***************************************************************************)
(* Proofs about hearings and inquiries, for any appeals and any number of  *)
(* requests, overlapping or not, whose e-mails may fail.                   *)
(***************************************************************************)
EXTENDS HearingArrangement, SerialTransition_proofs

ArrangementTypes == RowsInv /\ ArrangementTypeOK

\* A free slot is a request that asks for nothing.
LEMMA NoRequestFacts == NoRequest \in Request /\ NoRequest.step = "idle"
<1>1. (CHOOSE a \in Appeals : TRUE) \in Appeals
  BY AppealsAssumption
<1> QED BY <1>1 DEF NoRequest, Request, Address

\* The types a step of a request finds.
LEMMA ArrangementFinds ==
    ASSUME ArrangementTypes
    PROVE  /\ hearingId \in [Appeals -> Nat] /\ request \in [Calls -> Request]
           /\ call \in [Calls -> CallRecord]
           /\ event \in [Appeals -> Event] /\ past \in [Appeals -> BOOLEAN]
           /\ proofs \in [Appeals -> BOOLEAN] /\ currentStatus \in [Appeals -> Status]
           /\ \A k \in Calls : /\ request[k].appeal \in Appeals /\ call[k].appeal \in Appeals
                               /\ request[k].address \in Address /\ request[k].id \in Nat
BY DEF ArrangementTypes, ArrangementTypeOK, TypeOK, Request, CallRecord

\* A request that is received: what it asks for, and of whom.
LEMMA ReceiveLeaves ==
    ASSUME ArrangementTypes, NEW k \in Calls, NEW a \in Appeals,
           NEW what \in {"post", "rearrange", "cancel", "statements", "proofs", "job"},
           NEW address \in Address, NEW step \in {"loaded", "checked", "saved"},
           Receive(k, what, a, address, step)
    PROVE  /\ request' \in [Calls -> Request] /\ UNCHANGED <<vars, hearingId>>
           /\ \A j \in Calls \ {k} : request'[j] = request[j]
           /\ request'[k].step = step /\ request'[k].what = what /\ request'[k].appeal = a
<1> DEFINE r == [NoRequest EXCEPT !.step = step, !.what = what, !.appeal = a, !.address = address,
                                  !.id = hearingId[a], !.reached = reachedEvent(a)]
<1>1. request' = [request EXCEPT ![k] = r] /\ request \in [Calls -> Request]
  BY ArrangementFinds DEF Receive
<1>2. hearingId[a] \in Nat /\ reachedEvent(a) \in BOOLEAN
  BY ArrangementFinds DEF reachedEvent
<1>3. r \in Request /\ r.step = step /\ r.what = what /\ r.appeal = a
  BY <1>2, NoRequestFacts DEF Request
<1> HIDE DEF r
<1> QED BY <1>1, <1>3 DEF Receive

\* And its copy of the appeal has reached the event just when the appeal has.
LEMMA ReceiveReached ==
    ASSUME ArrangementTypes, NEW k \in Calls, NEW a \in Appeals,
           NEW what, NEW address, NEW step,
           Receive(k, what, a, address, step)
    PROVE  request'[k].reached <=> RowsWith(history[a], "event") # {}
<1> DEFINE reached == reachedEvent(a)
           r == [NoRequest EXCEPT !.step = step, !.what = what, !.appeal = a, !.address = address,
                                  !.id = hearingId[a], !.reached = reached]
<1>1. request' = [request EXCEPT ![k] = r] /\ request \in [Calls -> Request]
  BY ArrangementFinds DEF Receive
<1>2. r.reached = reached
  <2> HIDE DEF reached
  <2> QED BY NoRequestFacts DEF Request
<1>3. request'[k].reached = reached
  <2> HIDE DEF r
  <2> QED BY <1>1, <1>2
<1> QED BY <1>3 DEF reachedEvent

\* What arrives: the requests of users, and of the job.
Arrives(k, a) ==
    \/ LoadPost(k, a) \/ LoadRearrange(k, a) \/ LoadCancel(k, a)
    \/ LoadPublishStatements(k, a) \/ LoadPublishProofs(k, a) \/ LoadJob(k, a)

\* What is published, or concluded by the job, is at its stage; the hearing of a
\* rearrangement is still to be read, and nothing else is saved when it comes in.
Suits(a, what, step) ==
    /\ what = "statements" => currentStatus[a] = "statements"
    /\ what = "proofs" => currentStatus[a] = "evidence"
    /\ what = "job" => currentStatus[a] = "awaiting_event"
    /\ what = "rearrange" => step = "checked"
    /\ step = "saved" => what \in {"statements", "job"}

LEMMA ArrivesLeaves ==
    ASSUME ArrangementTypes, NEW k \in Calls, NEW a \in Appeals, Arrives(k, a)
    PROVE  /\ request' \in [Calls -> Request] /\ UNCHANGED <<vars, hearingId>>
           /\ \A j \in Calls \ {k} : request'[j] = request[j]
           /\ request[k].step = "idle" /\ (Serialised => \A j \in Calls : ~Busy(j))
           /\ request'[k].appeal = a /\ request'[k].step \in {"loaded", "checked", "saved"}
           /\ request'[k].reached <=> RowsWith(history[a], "event") # {}
           /\ Suits(a, request'[k].what, request'[k].step)
<1>1. /\ request[k].step = "idle" /\ (Serialised => \A j \in Calls : ~Busy(j))
      /\ \E address \in Address, step \in {"loaded", "checked", "saved"},
            what \in {"post", "rearrange", "cancel", "statements", "proofs", "job"} :
               /\ Receive(k, what, a, address, step)
               /\ Suits(a, what, step)
  <2>1. request[k].step = "idle" /\ (Serialised => \A j \in Calls : ~Busy(j))
    BY DEF Arrives, LoadPost, LoadRearrange, LoadCancel, LoadPublishStatements,
       LoadPublishProofs, LoadJob, Receive, Busy
  <2>2. CASE LoadPost(k, a)
    BY <2>1, <2>2 DEF LoadPost, Address, Suits
  <2>3. CASE LoadRearrange(k, a)
    BY <2>1, <2>3 DEF LoadRearrange, Suits
  <2>4. CASE LoadCancel(k, a) \/ LoadPublishStatements(k, a)
    BY <2>1, <2>4 DEF LoadCancel, LoadPublishStatements, Address, Suits
  <2>5. CASE LoadPublishProofs(k, a) \/ LoadJob(k, a)
    BY <2>1, <2>5 DEF LoadPublishProofs, LoadJob, Address, Suits
  <2> QED BY <2>2, <2>3, <2>4, <2>5 DEF Arrives
<1>2. PICK address \in Address, step \in {"loaded", "checked", "saved"},
           what \in {"post", "rearrange", "cancel", "statements", "proofs", "job"} :
               /\ Receive(k, what, a, address, step)
               /\ Suits(a, what, step)
  BY <1>1
<1>3. /\ Receive(k, what, a, address, step)
      /\ address \in Address /\ step \in {"loaded", "checked", "saved"}
      /\ what \in {"post", "rearrange", "cancel", "statements", "proofs", "job"}
  BY <1>2
<1>4. /\ request' \in [Calls -> Request] /\ UNCHANGED <<vars, hearingId>>
      /\ \A j \in Calls \ {k} : request'[j] = request[j]
  BY <1>3, ReceiveLeaves
<1>5. request'[k].step = step /\ request'[k].what = what /\ request'[k].appeal = a
  BY <1>3, ReceiveLeaves
<1>6. request'[k].reached <=> RowsWith(history[a], "event") # {}
  BY <1>3, ReceiveReached
<1> QED BY <1>1, <1>2, <1>4, <1>5, <1>6

\* A step that saves the hearing, or the proofs: no call is made, no status written,
\* and the request goes on as it is or is answered.
Saves(k) ==
    CreateHearing(k) \/ ReadHearing(k) \/ UpdateHearing(k) \/ DeleteHearing(k) \/ PublishProofs(k)

\* Saving goes on to the notifications, refusing answers the request.
LEMMA SavedOrRefused ==
    ASSUME ArrangementTypes, NEW k \in Calls
    PROVE  /\ Saved(k) => request'[k] # NoRequest
           /\ Refused(k) => request'[k] = NoRequest
<1>1. request[k] \in Request /\ request \in [Calls -> Request]
  BY ArrangementFinds
<1>2. [request[k] EXCEPT !.step = "saved"].step = "saved"
  BY <1>1 DEF Request
<1> QED BY <1>1, <1>2, NoRequestFacts DEF Saved, Refused

LEMMA SavesLeaves ==
    ASSUME ArrangementTypes, NEW k \in Calls, Saves(k)
    PROVE  /\ request' \in [Calls -> Request] /\ UNCHANGED <<kind, statusVars, personalList, call>>
           /\ \A j \in Calls \ {k} : request'[j] = request[j]
           /\ request[k].step \in {"loaded", "checked"}
           /\ \/ request'[k] = NoRequest
              \/ /\ request'[k].step \in {"loaded", "saved"}
                 /\ request'[k].what = request[k].what
                 /\ request'[k].appeal = request[k].appeal
                 /\ request'[k].address = request[k].address
                 /\ request'[k].reached = request[k].reached
                 /\ \/ /\ request[k].step = "loaded" /\ request'[k].step = "saved"
                       /\ request'[k].had = request[k].had
                    \/ /\ request[k].step = "checked" /\ request'[k].step = "loaded"
                       /\ request'[k].id = request[k].id
                       /\ request'[k].had <=>
                             /\ hearingExists(request[k].appeal, request[k].id)
                             /\ event[request[k].appeal] = "arranged"
<1> DEFINE r == request[k]
<1>1. r \in Request /\ request \in [Calls -> Request]
  BY ArrangementFinds
<1>2. CASE (Saved(k) \/ Refused(k)) /\ ~ReadHearing(k)
  <2>1. /\ [r EXCEPT !.step = "saved"] \in Request
        /\ [r EXCEPT !.step = "saved"].step = "saved"
        /\ [r EXCEPT !.step = "saved"].what = r.what
        /\ [r EXCEPT !.step = "saved"].appeal = r.appeal
        /\ [r EXCEPT !.step = "saved"].reached = r.reached
        /\ [r EXCEPT !.step = "saved"].address = r.address
        /\ [r EXCEPT !.step = "saved"].had = r.had
    BY <1>1 DEF Request
  <2>2. request' = [request EXCEPT ![k] = [r EXCEPT !.step = "saved"]]
        \/ request' = [request EXCEPT ![k] = NoRequest]
    BY <1>2 DEF Saved, Refused
  <2>3. /\ request' \in [Calls -> Request] /\ \A j \in Calls \ {k} : request'[j] = request[j]
        /\ request'[k] = [r EXCEPT !.step = "saved"] \/ request'[k] = NoRequest
    BY <1>1, <2>1, <2>2, NoRequestFacts
  <2>4. UNCHANGED <<kind, statusVars, personalList, call>> /\ r.step = "loaded"
    BY <1>2 DEF Saves, CreateHearing, ReadHearing, UpdateHearing, SetDate, DeleteHearing, PublishProofs, vars,
       statusVars
  <2> QED BY <2>1, <2>3, <2>4
<1>3. CASE ReadHearing(k)
  <2> DEFINE had == hearingExists(r.appeal, r.id) /\ event[r.appeal] = "arranged"
             next == [r EXCEPT !.step = "loaded", !.had = had]
  <2>1. had \in BOOLEAN
    BY DEF hearingExists
  <2>2. /\ next \in Request /\ next.step = "loaded" /\ next.what = r.what
        /\ next.appeal = r.appeal /\ next.reached = r.reached
        /\ next.address = r.address /\ next.id = r.id /\ next.had = had
    <3> HIDE DEF had
    <3> QED BY <1>1, <2>1 DEF Request
  <2>3. request' = [request EXCEPT ![k] = next] /\ r.step = "checked" /\ UNCHANGED vars
    BY <1>1, <1>3 DEF ReadHearing
  <2>4. request'[k] = next
    <3> HIDE DEF next
    <3> QED BY <1>1, <2>3
  <2>5. request'[k].had <=> had
    BY <2>2, <2>4
  <2> HIDE DEF next
  <2> QED BY <1>1, <1>3, <2>2, <2>3, <2>4, <2>5 DEF vars, statusVars
<1>4. Saved(k) \/ Refused(k) \/ ReadHearing(k)
  BY DEF Saves, CreateHearing, UpdateHearing, SetDate, DeleteHearing, PublishProofs
<1> QED BY <1>2, <1>3, <1>4

\* A request whose trigger is worked out is answered, or starts the call.
LEMMA ProceedLeaves ==
    ASSUME ArrangementTypes, NEW k \in Calls, Proceed(k)
    PROVE  /\ request' \in [Calls -> Request] /\ UNCHANGED <<statusVars, eventVars, personalList>>
           /\ \A j \in Calls \ {k} : request'[j] = request[j] /\ call'[j] = call[j]
           /\ request[k].step = "saved"
           /\ \/ /\ request'[k] = NoRequest /\ UNCHANGED call
                 /\ TriggerAfter(request[k]) = NoTrigger
              \/ /\ TriggerAfter(request[k]) # NoTrigger
                 /\ request'[k].step = "moving" /\ request'[k].what = request[k].what
                 /\ request'[k].appeal = request[k].appeal
                 /\ request'[k].reached = request[k].reached
                 /\ Invoke(k, request[k].appeal, TriggerAfter(request[k]))
                 /\ call'[k] \in CallRecord
                 /\ call'[k].step = "read" /\ call'[k].appeal = request[k].appeal
                 /\ call'[k].trigger = TriggerAfter(request[k])
<1> DEFINE r == request[k]
           next == [r EXCEPT !.step = "moving"]
           c == [Idle EXCEPT !.step = "read", !.appeal = r.appeal, !.trigger = TriggerAfter(r)]
<1>1. r \in Request /\ request \in [Calls -> Request] /\ call \in [Calls -> CallRecord]
      /\ r.step = "saved"
  BY ArrangementFinds DEF Proceed
<1>2. CASE TriggerAfter(r) = NoTrigger
  BY <1>1, <1>2, NoRequestFacts DEF Proceed, Refused, vars, statusVars, eventVars
<1>3. CASE TriggerAfter(r) # NoTrigger
  <2>1. /\ next \in Request /\ next.step = "moving" /\ next.what = r.what
        /\ next.appeal = r.appeal /\ next.reached = r.reached
    BY <1>1 DEF Request
  <2>2. /\ request' = [request EXCEPT ![k] = next] /\ call' = [call EXCEPT ![k] = c]
        /\ Invoke(k, r.appeal, TriggerAfter(r)) /\ TriggerAfter(r) \in Trigger
        /\ UNCHANGED <<statusVars, eventVars, personalList>>
    BY <1>1, <1>3, AppealsAssumption DEF Proceed, Invoke, TriggersFor
  <2>3. /\ c \in CallRecord /\ c.step = "read" /\ c.appeal = r.appeal
        /\ c.trigger = TriggerAfter(r)
    <3>1. r.appeal \in Appeals /\ "read" \in CallStep
      BY <1>1 DEF Request, CallStep
    <3>2. \A t \in Trigger : /\ [Idle EXCEPT !.step = "read", !.appeal = r.appeal, !.trigger = t]
                                   \in CallRecord
                             /\ [Idle EXCEPT !.step = "read", !.appeal = r.appeal, !.trigger = t].step = "read"
                             /\ [Idle EXCEPT !.step = "read", !.appeal = r.appeal, !.trigger = t].appeal = r.appeal
                             /\ [Idle EXCEPT !.step = "read", !.appeal = r.appeal, !.trigger = t].trigger = t
      BY <3>1, IdleFacts DEF CallRecord
    <3> QED BY <2>2, <3>2
  <2> HIDE DEF next, c
  <2> QED BY <1>1, <1>3, <2>1, <2>2, <2>3
<1> QED BY <1>2, <1>3

\* A call that has returned: the request is answered.
LEMMA AnswersLeaves ==
    ASSUME ArrangementTypes, NEW k \in Calls, Respond(k) \/ NotifyFails(k)
    PROVE  /\ request' \in [Calls -> Request] /\ UNCHANGED <<vars, hearingId>>
           /\ \A j \in Calls \ {k} : request'[j] = request[j]
           /\ request'[k] = NoRequest
           /\ request[k].step = "moving" => call[k].step = "idle"
           /\ request[k].step \in {"moving", "saved"}
<1>1. request \in [Calls -> Request] /\ request' = [request EXCEPT ![k] = NoRequest]
  BY ArrangementFinds DEF Respond, NotifyFails
<1> QED BY <1>1, NoRequestFacts DEF Respond, NotifyFails, InProgress

-----------------------------------------------------------------------------
(* Types and rows, however requests overlap or fail.                       *)

\* Before the first request the types and the rows are as they should be.
LEMMA ArrangementStart == ArrangementInit => ArrangementTypes
<1> SUFFICES ASSUME ArrangementInit PROVE ArrangementTypes
  OBVIOUS
<1>1. RowsInv
  BY RowsInit DEF ArrangementInit
<1> QED BY <1>1, NoRequestFacts
       DEF ArrangementInit, ArrangementTypes, ArrangementTypeOK, RowsInv

\* A step that changes hearings, the clock or proofs, and requests.
LEMMA EventsChanged ==
    ASSUME ArrangementTypes, UNCHANGED <<kind, statusVars, personalList, call>>,
           event' \in [Appeals -> Event], past' \in [Appeals -> BOOLEAN],
           proofs' \in [Appeals -> BOOLEAN], hearingId' \in [Appeals -> Nat],
           request' \in [Calls -> Request]
    PROVE  ArrangementTypes'
<1>1. TypeOK'
  BY DEF ArrangementTypes, RowsInv, TypeOK, statusVars
<1> QED BY <1>1, RowsUntouched DEF ArrangementTypes, RowsInv, ArrangementTypeOK

\* Every step keeps the types and the agreement of rows and column.
LEMMA ArrangementTypesNext ==
    ArrangementTypes /\ [ArrangementNext]_arrangementVars => ArrangementTypes'
<1> SUFFICES ASSUME ArrangementTypes, [ArrangementNext]_arrangementVars
             PROVE  ArrangementTypes'
  OBVIOUS
<1> USE ArrangementFinds
<1>1. ASSUME NEW k \in Calls, NEW a \in Appeals, Arrives(k, a)
      PROVE  ArrangementTypes'
  BY <1>1, ArrivesLeaves, EventsChanged DEF vars, statusVars
<1>2. ASSUME NEW k \in Calls, Saves(k)
      PROVE  ArrangementTypes'
  <2>1. /\ event' \in [Appeals -> Event] /\ past' \in [Appeals -> BOOLEAN]
        /\ proofs' \in [Appeals -> BOOLEAN] /\ hearingId' \in [Appeals -> Nat]
    <3>1. CASE CreateHearing(k)
      <4> DEFINE r == request[k]
                 e == IF r.address = "given" THEN "arranged" ELSE "unplaced"
      <4>1. UNCHANGED proofs /\ e \in Event /\ r.appeal \in Appeals
        BY <3>1 DEF CreateHearing, Event
      <4>2. CASE UNCHANGED <<event, past, hearingId>>
        BY <4>1, <4>2
      <4>3. CASE /\ event' = [event EXCEPT ![r.appeal] = e]
                 /\ past' = [past EXCEPT ![r.appeal] = FALSE]
                 /\ hearingId' = [hearingId EXCEPT ![r.appeal] = @ + 1]
        <5> HIDE DEF e
        <5>1. past' \in [Appeals -> BOOLEAN]
          BY <4>1, <4>3
        <5>2. event' \in [Appeals -> Event] /\ hearingId' \in [Appeals -> Nat]
          BY <4>1, <4>3
        <5> QED BY <4>1, <5>1, <5>2
      <4> QED BY <3>1, <4>2, <4>3 DEF CreateHearing
    <3>2. CASE ReadHearing(k)
      BY <3>2 DEF ReadHearing, vars
    <3>3. CASE UpdateHearing(k)
      BY <3>3 DEF UpdateHearing, SetDate, Event, Address
    <3>4. CASE DeleteHearing(k)
      BY <3>4 DEF DeleteHearing, Event
    <3>5. CASE PublishProofs(k)
      BY <3>5 DEF PublishProofs
    <3> QED BY <1>2, <3>1, <3>2, <3>3, <3>4, <3>5 DEF Saves
  <2> QED BY <1>2, <2>1, SavesLeaves, EventsChanged
<1>3. ASSUME NEW k \in Calls, Proceed(k)
      PROVE  ArrangementTypes'
  <2>1. /\ history \in [Appeals -> Seq(StatusRow)] /\ currentStatus \in [Appeals -> Status]
        /\ personalList \in [Appeals -> Status \union {NoEntry}]
    BY DEF ArrangementTypes, RowsInv, TypeOK
  <2>2. /\ request' \in [Calls -> Request] /\ UNCHANGED <<statusVars, eventVars, personalList>>
        /\ UNCHANGED hearingId
    BY <1>3, ProceedLeaves DEF Proceed
  <2>3. UNCHANGED call \/ Invoke(k, request[k].appeal, TriggerAfter(request[k]))
    BY <1>3, ProceedLeaves
  <2>4. CASE UNCHANGED call
    BY <2>2, <2>4, EventsChanged DEF eventVars
  <2>5. CASE Invoke(k, request[k].appeal, TriggerAfter(request[k]))
    <3>1. TriggerAfter(request[k]) \in Triggers
      BY <2>5 DEF Invoke, TriggersFor
    <3>2. RowsInv'
      BY <2>5, <3>1, RowsInvoke DEF ArrangementTypes
    <3> QED BY <2>2, <3>2 DEF ArrangementTypes, ArrangementTypeOK, RowsInv
  <2> QED BY <2>3, <2>4, <2>5
<1>4. ASSUME NEW k \in Calls, Respond(k) \/ NotifyFails(k)
      PROVE  ArrangementTypes'
  BY <1>4, AnswersLeaves, EventsChanged DEF vars, statusVars
<1>5. ASSUME NEW k \in Calls, CallStepOf(k)
      PROVE  ArrangementTypes'
  <2>1. RowsInv'
    BY <1>5, RowsNext DEF CallStepOf, ArrangementTypes, Next, Working
  <2> QED BY <1>5, <2>1 DEF CallStepOf, ArrangementTypes, ArrangementTypeOK, RowsInv
<1>6. ASSUME NEW a \in Appeals, HearingPasses(a) \/ ProofsReviewed(a)
      PROVE  ArrangementTypes'
  <2>1. RowsInv'
    BY <1>6, RowsNext DEF HearingPasses, ProofsReviewed, ArrangementTypes, Next, Working,
       Environment
  <2> QED BY <1>6, <2>1
         DEF HearingPasses, ProofsReviewed, ArrangementTypes, ArrangementTypeOK, RowsInv
<1>7. CASE UNCHANGED arrangementVars
  BY <1>7, EventsChanged DEF arrangementVars, vars, statusVars
<1> QED BY <1>1, <1>2, <1>3, <1>4, <1>5, <1>6, <1>7
       DEF ArrangementNext, ArrangementWorking, RequestStep, Saves, Arrives

\* Every variable keeps its type, however requests overlap or fail.
THEOREM ArrangementTypeCorrect == ArrangementSpec => []ArrangementTypeOK
<1>1. ArrangementTypes => ArrangementTypeOK
  BY DEF ArrangementTypes
<1> QED BY <1>1, ArrangementStart, ArrangementTypesNext, PTL DEF ArrangementSpec

-----------------------------------------------------------------------------
(* The statements stage is left by its publication only.  Before it the    *)
(* rows of the appeal hold no event, so no request can have read one.      *)

FromStatements ==
    /\ StartPath[Len(StartPath)] = "statements"
    /\ \A i \in DOMAIN StartPath : StartPath[i] # "event"

AtStatements(a) == currentStatus[a] = "statements"

\* What is so of a request, and of its call, while its appeal is at the statements.
BeforePublication(k) ==
    LET r == request[k]
        c == call[k]
    IN
    /\ InProgress(k) => r.step = "moving" /\ c.appeal = r.appeal
    /\ Busy(k) /\ AtStatements(r.appeal) => r.what \notin {"proofs", "job"} /\ ~r.reached
    /\ c.step = "read" =>
          /\ c.trigger \in {"Complete", "Incomplete", "Cancel"}
          /\ AtStatements(c.appeal) => r.what = "statements" \/ c.trigger = "Cancel"
    /\ c.step = "write" =>
          /\ c.newState \notin {"statements", "lpa_questionnaire"}
          /\ AtStatements(c.appeal) => r.what = "statements"
    /\ c.step = "proofs" => ~AtStatements(c.appeal)

StatementsInv ==
    /\ ArrangementTypes
    /\ \A a \in Appeals : /\ currentStatus[a] # "lpa_questionnaire"
                          /\ AtStatements(a) => RowsWith(history[a], "event") = {}
    /\ \A k \in Calls : BeforePublication(k)

\* At the start the rows hold no event, and there is no request.
LEMMA StatementsStart == FromStatements /\ ArrangementInit => StatementsInv
<1> SUFFICES ASSUME FromStatements, ArrangementInit PROVE StatementsInv
  OBVIOUS
<1>1. ArrangementTypes
  BY ArrangementStart
<1>2. \A a \in Appeals : currentStatus[a] = "statements" /\ history[a] = StartHistory
  BY DEF ArrangementInit, Init, CaseInit, FromStatements
<1>3. RowsWith(StartHistory, "event") = {}
  BY DEF StartHistory, RowsWith, FromStatements
<1>4. \A k \in Calls : request[k].step = "idle" /\ call[k].step = "idle"
  BY NoRequestFacts, IdleFacts DEF ArrangementInit, Init, CaseInit
<1> QED BY <1>1, <1>2, <1>3, <1>4 DEF StatementsInv, BeforePublication, Busy, InProgress

\* The chart leads to the statements and to the questionnaire from the stages before
\* them only, and from the statements by Complete.
LEMMA ChartAtStatements ==
    ASSUME NEW type, NEW procedure, NEW elapsed, NEW status \in Status,
           NEW trigger \in {"Complete", "Incomplete", "Cancel"},
           status # "lpa_questionnaire"
    PROVE  LET new == NextStatus(type, procedure, elapsed, status, trigger) IN
           new # status =>
              /\ new \notin {"statements", "lpa_questionnaire"}
              /\ status = "statements" => trigger = "Complete"
<1>1. CASE status \in FinalStatus
  BY <1>1 DEF NextStatus, FinalStatus, WorkingStatus, Status
<1>2. CASE status = "awaiting_transfer"
  BY <1>2 DEF NextStatus, FinalStatus, WorkingStatus, Status
<1>3. CASE status \in WorkingStatus
  BY <1>3 DEF NextStatus, FinalStatus, WorkingStatus, targetStateOnStatementsComplete,
     targetStateOnEventCancelled
<1> QED BY <1>1, <1>2, <1>3 DEF Status

\* The trigger that follows a request on an appeal at its statements.
LEMMA TriggerAtStatements ==
    ASSUME NEW r, ~r.reached, r.what \notin {"proofs", "job"},
           TriggerAfter(r) # NoTrigger
    PROVE  r.what = "statements" \/ TriggerAfter(r) = "Cancel"
BY DEF TriggerAfter, NoTrigger

\* Any trigger that follows a request.
LEMMA TriggersOfRequests ==
    \A r : TriggerAfter(r) \in {"Complete", "Incomplete", "Cancel", NoTrigger}
BY DEF TriggerAfter

\* The requests and the calls of others are as they were: no case comes back to its
\* statements.
LEMMA OthersBefore ==
    ASSUME StatementsInv, NEW j \in Calls, request'[j] = request[j], call'[j] = call[j],
           \A a \in Appeals : AtStatements(a)' => AtStatements(a)
    PROVE  BeforePublication(j)'
<1>1. request[j].appeal \in Appeals /\ call[j].appeal \in Appeals
  BY ArrangementFinds DEF StatementsInv
<1>2. BeforePublication(j)
  BY DEF StatementsInv
<1> QED BY <1>1, <1>2 DEF BeforePublication, AtStatements, Busy, InProgress

\* A step that writes no status keeps it all if it leaves its own slot in order.
LEMMA StatusKept ==
    ASSUME StatementsInv, ArrangementTypes', UNCHANGED statusVars, NEW k \in Calls,
           \A j \in Calls \ {k} : request'[j] = request[j] /\ call'[j] = call[j],
           BeforePublication(k)'
    PROVE  StatementsInv'
<1>1. \A a \in Appeals : AtStatements(a)' => AtStatements(a)
  BY DEF AtStatements, statusVars
<1>2. \A j \in Calls : BeforePublication(j)'
  BY <1>1, OthersBefore
<1>3. \A a \in Appeals : /\ currentStatus'[a] # "lpa_questionnaire"
                         /\ AtStatements(a)' => RowsWith(history'[a], "event") = {}
  BY DEF StatementsInv, AtStatements, statusVars
<1> QED BY <1>2, <1>3 DEF StatementsInv

\* transitionState reads the appeal: from the statements, the chart leads on by what
\* the publication sends only.
LEMMA ReadBefore ==
    ASSUME StatementsInv, ArrangementTypes', NEW k \in Calls, ReadAppeal(k),
           UNCHANGED request
    PROVE  StatementsInv'
<1> DEFINE c == call[k]
<1>0. PICK a \in Appeals : a = c.appeal
  BY ArrangementFinds DEF StatementsInv
<1> DEFINE new == NextStatusOf(a, eventElapsed(a), currentStatus[a], c.trigger)
<1>1. /\ c \in CallRecord /\ call \in [Calls -> CallRecord] /\ c.step = "read"
      /\ a \in Appeals /\ currentStatus[a] \in Status
      /\ UNCHANGED statusVars /\ BeforePublication(k)
  BY ArrangementFinds DEF StatementsInv, ReadAppeal
<1>2. /\ c.trigger \in {"Complete", "Incomplete", "Cancel"}
      /\ request[k].step = "moving" /\ a = request[k].appeal
      /\ currentStatus[a] # "lpa_questionnaire"
      /\ AtStatements(a) => request[k].what = "statements" \/ c.trigger = "Cancel"
      /\ Busy(k)
  BY <1>0, <1>1 DEF BeforePublication, StatementsInv, InProgress, Busy
<1>3. new # currentStatus[a] =>
         /\ new \notin {"statements", "lpa_questionnaire"}
         /\ AtStatements(a) => c.trigger = "Complete"
  BY <1>1, <1>2, ChartAtStatements DEF NextStatusOf, AtStatements
<1>4. \A j \in Calls \ {k} : request'[j] = request[j] /\ call'[j] = call[j]
  BY <1>1 DEF ReadAppeal
<1>5. AtStatements(a)' => AtStatements(a)
  BY <1>1 DEF AtStatements, statusVars
<1>6. CASE new = currentStatus[a]
  <2>1. call'[k].step = "readList" /\ call'[k].appeal = a
    BY <1>0, <1>1, <1>6, UpdatingListFacts DEF ReadAppeal
  <2>2. BeforePublication(k)'
    BY <1>0, <1>1, <1>2, <1>5, <2>1 DEF BeforePublication, AtStatements, Busy, InProgress, statusVars
  <2> QED BY <1>1, <1>4, <2>2, StatusKept
<1>7. CASE new # currentStatus[a]
  <2>1. /\ call'[k].step = "write" /\ call'[k].appeal = a /\ call'[k].newState = new
    BY <1>0, <1>1, <1>7 DEF ReadAppeal, CallRecord
  <2> HIDE DEF new
  <2>2. BeforePublication(k)'
    BY <1>0, <1>1, <1>2, <1>3, <1>5, <1>7, <2>1
       DEF BeforePublication, AtStatements, Busy, InProgress, statusVars
  <2> QED BY <1>1, <1>4, <2>2, StatusKept
<1> QED BY <1>6, <1>7

\* Any other step of a call: a status written is neither the statements nor before.
LEMMA WriteBefore ==
    ASSUME StatementsInv, ArrangementTypes', NEW k \in Calls, Step(k), ~ReadAppeal(k),
           UNCHANGED request
    PROVE  StatementsInv'
<1> DEFINE c == call[k]
<1>0. PICK a \in Appeals : a = c.appeal
  BY ArrangementFinds DEF StatementsInv
<1>1. /\ TypeOK /\ a \in Appeals /\ BeforePublication(k)
      /\ currentStatus \in [Appeals -> Status]
  BY ArrangementFinds DEF StatementsInv, ArrangementTypes, ArrangementTypeOK
<1>2. /\ InProgress(k) /\ \A j \in Calls \ {k} : call'[j] = call[j]
      /\ call'[k].step # "idle" => call'[k].appeal = a
  BY <1>0, <1>1, StepStays
<1>3. /\ call'[k].step # "write"
      /\ call'[k].step = "read" => call'[k].trigger = "Complete" /\ c.step \in {"write", "proofs"}
      /\ call'[k].step = "proofs" => c.step = "write"
  BY <1>1, StepWrites
<1>4. /\ request[k].step = "moving" /\ request[k].appeal = a
      /\ AtStatements(a) => request[k].what \notin {"proofs", "job"} /\ ~request[k].reached
      /\ c.step = "write" => c.newState \notin {"statements", "lpa_questionnaire"}
      /\ c.step = "proofs" => ~AtStatements(a)
  BY <1>0, <1>1, <1>2 DEF BeforePublication, Busy
<1>5. CASE UNCHANGED statusVars /\ (c.step = "write" => call'[k].step = "idle")
  <2>1. AtStatements(a)' => AtStatements(a)
    BY <1>5 DEF AtStatements, statusVars
  <2>2. BeforePublication(k)'
    BY <1>0, <1>2, <1>3, <1>4, <1>5, <2>1
       DEF BeforePublication, AtStatements, Busy, InProgress, statusVars
  <2> QED BY <1>2, <1>5, <2>2, StatusKept
<1>6. CASE /\ c.step = "write"
           /\ currentStatus' = [currentStatus EXCEPT ![a] = c.newState]
           /\ \A b \in Appeals \ {a} : history'[b] = history[b]
  <2>1. /\ \A b \in Appeals : AtStatements(b)' => AtStatements(b)
        /\ ~AtStatements(a)' /\ currentStatus'[a] = c.newState
        /\ \A b \in Appeals \ {a} : currentStatus'[b] = currentStatus[b]
    BY <1>1, <1>4, <1>6 DEF AtStatements
  <2>2. BeforePublication(k)'
    BY <1>0, <1>2, <1>3, <1>4, <2>1 DEF BeforePublication, AtStatements, Busy, InProgress
  <2>3. \A j \in Calls : BeforePublication(j)'
    BY <1>2, <2>1, <2>2, OthersBefore
  <2>4. ASSUME NEW b \in Appeals
        PROVE  /\ currentStatus'[b] # "lpa_questionnaire"
               /\ AtStatements(b)' => RowsWith(history'[b], "event") = {}
    <3>1. CASE b = a
      BY <1>4, <1>6, <2>1, <3>1
    <3>2. CASE b # a
      BY <1>6, <2>1, <3>2 DEF StatementsInv, AtStatements
    <3> QED BY <3>1, <3>2
  <2> QED BY <2>3, <2>4 DEF StatementsInv
<1> QED BY <1>0, <1>1, <1>5, <1>6, StepWrites

\* Every step keeps it.
LEMMA StatementsNext == StatementsInv /\ [ArrangementNext]_arrangementVars => StatementsInv'
<1> SUFFICES ASSUME StatementsInv, [ArrangementNext]_arrangementVars PROVE StatementsInv'
  OBVIOUS
<1> USE DEF InProgress, Busy
<1>1. ArrangementTypes /\ ArrangementTypes'
  BY ArrangementTypesNext DEF StatementsInv
<1>2. \A k \in Calls : BeforePublication(k)
  BY DEF StatementsInv
<1>3. ASSUME NEW k \in Calls, NEW a \in Appeals, Arrives(k, a)
      PROVE  StatementsInv'
  <2>1. /\ UNCHANGED <<vars, hearingId>> /\ \A j \in Calls \ {k} : request'[j] = request[j]
        /\ request[k].step = "idle" /\ request'[k].appeal = a /\ request'[k].step # "moving"
        /\ request'[k].reached => RowsWith(history[a], "event") # {}
        /\ currentStatus[a] = "statements" => request'[k].what \notin {"proofs", "job"}
    BY <1>1, <1>3, ArrivesLeaves DEF Suits
  <2>2. AtStatements(a) => RowsWith(history[a], "event") = {}
    BY DEF StatementsInv
  <2>3. call'[k].step = "idle" /\ UNCHANGED <<statusVars, call>>
    BY <1>2, <2>1 DEF BeforePublication, vars, statusVars
  <2>4. BeforePublication(k)'
    BY <2>1, <2>2, <2>3 DEF BeforePublication, AtStatements, statusVars
  <2> QED BY <1>1, <2>1, <2>3, <2>4, StatusKept
<1>4. ASSUME NEW k \in Calls, Saves(k)
      PROVE  StatementsInv'
  <2>1. /\ UNCHANGED <<statusVars, call>> /\ \A j \in Calls \ {k} : request'[j] = request[j]
        /\ request[k].step \in {"loaded", "checked"}
        /\ \/ request'[k].step = "idle"
           \/ /\ request'[k].what = request[k].what
              /\ request'[k].appeal = request[k].appeal
              /\ request'[k].reached = request[k].reached
    BY <1>1, <1>4, SavesLeaves, NoRequestFacts
  <2>2. call'[k].step = "idle"
    BY <1>2, <2>1 DEF BeforePublication
  <2>3. BeforePublication(k)'
    BY <1>2, <2>1, <2>2 DEF BeforePublication, AtStatements, statusVars
  <2> QED BY <1>1, <2>1, <2>3, StatusKept
<1>5. ASSUME NEW k \in Calls, Proceed(k)
      PROVE  StatementsInv'
  <2>1. /\ UNCHANGED statusVars /\ request[k].step = "saved"
        /\ \A j \in Calls \ {k} : request'[j] = request[j] /\ call'[j] = call[j]
        /\ \/ request'[k].step = "idle" /\ UNCHANGED call
           \/ /\ request'[k].step = "moving" /\ request'[k].what = request[k].what
              /\ request'[k].appeal = request[k].appeal
              /\ request'[k].reached = request[k].reached
              /\ Invoke(k, request[k].appeal, TriggerAfter(request[k]))
              /\ call'[k].step = "read" /\ call'[k].appeal = request[k].appeal
              /\ call'[k].trigger = TriggerAfter(request[k])
    BY <1>1, <1>5, ProceedLeaves, NoRequestFacts
  <2>2. call[k].step = "idle"
    BY <1>2, <2>1 DEF BeforePublication
  <2>3. CASE request'[k].step = "idle" /\ UNCHANGED call
    <3>1. BeforePublication(k)'
      BY <2>2, <2>3 DEF BeforePublication
    <3> QED BY <1>1, <2>1, <3>1, StatusKept
  <2>4. CASE request'[k].step = "moving"
    <3> DEFINE t == TriggerAfter(request[k])
    <3>1. /\ call'[k].step = "read" /\ call'[k].appeal = request[k].appeal /\ call'[k].trigger = t
          /\ request'[k].appeal = request[k].appeal
          /\ request'[k].what = request[k].what /\ request'[k].reached = request[k].reached
          /\ t \in Trigger
      BY <2>1, <2>4, AppealsAssumption DEF Invoke, TriggersFor
    <3>2. t # NoTrigger /\ t \in {"Complete", "Incomplete", "Cancel"}
      BY <3>1, TriggersOfRequests DEF Trigger, OutcomeTrigger, StatusTrigger, NoTrigger
    <3>3. AtStatements(request[k].appeal) =>
             /\ request[k].what \notin {"proofs", "job"} /\ ~request[k].reached
             /\ request[k].what = "statements" \/ t = "Cancel"
      BY <1>2, <2>1, <3>2, TriggerAtStatements DEF BeforePublication
    <3> HIDE DEF t
    <3>4. BeforePublication(k)'
      BY <2>1, <2>4, <3>1, <3>2, <3>3 DEF BeforePublication, AtStatements, statusVars
    <3> QED BY <1>1, <2>1, <3>4, StatusKept
  <2> QED BY <2>1, <2>3, <2>4
<1>6. ASSUME NEW k \in Calls, Respond(k) \/ NotifyFails(k)
      PROVE  StatementsInv'
  <2>1. /\ UNCHANGED <<statusVars, call>> /\ \A j \in Calls \ {k} : request'[j] = request[j]
        /\ request'[k].step = "idle"
        /\ request[k].step = "moving" => call[k].step = "idle"
        /\ request[k].step \in {"moving", "saved"}
    BY <1>1, <1>6, AnswersLeaves, NoRequestFacts DEF vars, statusVars
  <2>2. call'[k].step = "idle"
    BY <1>2, <2>1 DEF BeforePublication
  <2>3. BeforePublication(k)'
    BY <2>1, <2>2 DEF BeforePublication
  <2> QED BY <1>1, <2>1, <2>3, StatusKept
<1>7. ASSUME NEW k \in Calls, CallStepOf(k)
      PROVE  StatementsInv'
  BY <1>1, <1>7, ReadBefore, WriteBefore DEF CallStepOf, Step
<1>8. CASE \/ \E a \in Appeals : HearingPasses(a) \/ ProofsReviewed(a)
           \/ UNCHANGED arrangementVars
  <2>1. UNCHANGED <<statusVars, request, call>>
    BY <1>8 DEF HearingPasses, ProofsReviewed, TimePasses, ReviewProofs, arrangementVars, vars,
       statusVars
  <2>2. \A k \in Calls : BeforePublication(k)'
    BY <1>2, <2>1 DEF BeforePublication, AtStatements, statusVars
  <2> QED BY <1>1, <2>1, <2>2 DEF StatementsInv, AtStatements, statusVars
<1> QED BY <1>3, <1>4, <1>5, <1>6, <1>7, <1>8
       DEF ArrangementNext, ArrangementWorking, RequestStep, Saves, Arrives

\* A status is written by a call that has decided to.
LEMMA StatusWritten ==
    ASSUME ArrangementTypes, [ArrangementNext]_arrangementVars, NEW a \in Appeals,
           currentStatus'[a] # currentStatus[a]
    PROVE  \E k \in Calls : call[k].step = "write" /\ call[k].appeal = a
<1>1. \/ \E k \in Calls : Step(k)
      \/ UNCHANGED currentStatus
  <2>1. ASSUME NEW k \in Calls, Saves(k) \/ Proceed(k) \/ Respond(k) \/ NotifyFails(k)
        PROVE  UNCHANGED currentStatus
    BY <2>1, SavesLeaves, ProceedLeaves, AnswersLeaves DEF vars, statusVars
  <2>2. ASSUME NEW k \in Calls, NEW b \in Appeals, Arrives(k, b)
        PROVE  UNCHANGED currentStatus
    BY <2>2, ArrivesLeaves DEF vars
  <2>3. CASE \/ \E b \in Appeals : HearingPasses(b) \/ ProofsReviewed(b)
             \/ UNCHANGED arrangementVars
    BY <2>3 DEF HearingPasses, ProofsReviewed, TimePasses, ReviewProofs, arrangementVars, vars,
       statusVars
  <2> QED BY <2>1, <2>2, <2>3
         DEF ArrangementNext, ArrangementWorking, RequestStep, Saves, Arrives, CallStepOf
<1>2. PICK k \in Calls : Step(k)
  BY <1>1
<1>3. TypeOK /\ ~ReadAppeal(k)
  BY DEF ReadAppeal, statusVars, ArrangementTypes, ArrangementTypeOK
<1>4. call[k].step = "write"
      /\ currentStatus' = [currentStatus EXCEPT ![call[k].appeal] = call[k].newState]
  BY <1>2, <1>3, StepWrites DEF statusVars
<1>5. call[k].appeal = a
  BY <1>3, <1>4 DEF TypeOK
<1> QED BY <1>4, <1>5

\* Only the publication takes a case out of its statements stage, however requests
\* overlap and whichever of their e-mails fail.
THEOREM StatementsCorrect ==
    ASSUME FromStatements
    PROVE  ArrangementSpec => StatementsLeftByPublication
<1> DEFINE LeftByPublication ==
        \A a \in Appeals :
          currentStatus[a] = "statements" /\ currentStatus'[a] # "statements" =>
              \E k \in Calls : request[k].what = "statements" /\ request[k].appeal = a
                                  /\ request[k].step = "moving"
<1>1. ArrangementInit => StatementsInv
  BY StatementsStart
<1>2. StatementsInv /\ [ArrangementNext]_arrangementVars => LeftByPublication
  <2> SUFFICES ASSUME StatementsInv, [ArrangementNext]_arrangementVars, NEW a \in Appeals,
                      currentStatus[a] = "statements", currentStatus'[a] # "statements"
               PROVE  \E k \in Calls : request[k].what = "statements" /\ request[k].appeal = a
                                  /\ request[k].step = "moving"
    OBVIOUS
  <2>1. PICK k \in Calls : call[k].step = "write" /\ call[k].appeal = a
    BY StatusWritten DEF StatementsInv
  <2> QED BY <2>1 DEF StatementsInv, BeforePublication, AtStatements, InProgress
<1>3. StatementsInv /\ [ArrangementNext]_arrangementVars => [LeftByPublication]_arrangementVars
  BY <1>2
<1> QED BY <1>1, <1>3, StatementsNext, PTL DEF ArrangementSpec, StatementsLeftByPublication

-----------------------------------------------------------------------------
(* One request at a time, and nothing fails: what a request read when it   *)
(* came in is still so when it decides which trigger to send.              *)

\* The cases start before their events.
BeforeEvent == \A i \in DOMAIN StartPath : StartPath[i] \notin {"event", "awaiting_event"}

\* The case is where its hearing says it is to be.
SettledCase(a) ==
    /\ currentStatus[a] = "event" => event[a] # "arranged"
    /\ currentStatus[a] = "awaiting_event" => event[a] = "arranged"

\* The event is recorded before the wait for it.
EventFirst(a) ==
    \A j \in DOMAIN history[a] :
        history[a][j].status = "awaiting_event" =>
            \E i \in 1..(j - 1) : history[a][i].status = "event"

\* What a request knows of its case until it moves it.
KnowsCase(k) ==
    LET r == request[k]
        a == r.appeal
    IN
    /\ currentStatus[a] \in {"event", "awaiting_event"} => r.reached
    /\ r.what \in {"statements", "proofs", "job"} => currentStatus[a] # "event"
    /\ r.step # "saved" \/ r.what \in {"statements", "proofs", "job"} => SettledCase(a)
    /\ r.step = "loaded" /\ r.what = "rearrange" =>
          (r.had <=> hearingExists(a, r.id) /\ event[a] = "arranged")
    /\ r.step = "saved" /\ r.what = "post" =>
          /\ currentStatus[a] # "awaiting_event"
          /\ r.address = "given" <=> event[a] = "arranged"
    /\ r.step = "saved" /\ r.what = "rearrange" =>
          /\ currentStatus[a] = "event" => ~r.had
          /\ currentStatus[a] = "awaiting_event" => r.had
          /\ event[a] = "arranged" <=> r.address = "given" \/ (r.address = "unchanged" /\ r.had)
    /\ r.step = "saved" /\ r.what = "cancel" => event[a] = "none"

\* Its call takes the case to where its hearing says.
CallSettles(k) ==
    LET c == call[k]
        a == request[k].appeal
    IN
    /\ c.step # "idle" => c.appeal = a
    /\ c.step = "read" =>
          IF c.trigger = "Complete"
            THEN currentStatus[a] \in {"event", "awaiting_event"} => event[a] = "arranged"
            ELSE /\ c.trigger \in {"Incomplete", "Cancel"}
                 /\ currentStatus[a] = "event" => event[a] # "arranged"
    /\ c.step = "write" =>
          /\ c.arranged <=> event[a] = "arranged"
          /\ c.newState = "awaiting_event" => currentStatus[a] = "event" /\ event[a] = "arranged"
          /\ c.passed => RowsWith(history[a], c.newState) # {}
    /\ c.step = "proofs" => currentStatus[a] # "event"
    /\ c.step \notin {"read", "write"} => SettledCase(a)

SetUpInv ==
    /\ ArrangementTypes
    /\ \A j, k \in Calls : Busy(j) /\ Busy(k) => j = k
    /\ \A k \in Calls :
          /\ request[k].step \in {"loaded", "checked", "saved"} => KnowsCase(k)
          /\ request[k].step = "moving" => CallSettles(k)
          /\ InProgress(k) => request[k].step = "moving"
    /\ \A a \in Appeals :
          /\ EventFirst(a)
          /\ (\A k \in Calls : Busy(k) => request[k].appeal # a) => SettledCase(a)

\* At the start no case has reached its event, and there is no request.
LEMMA SetUpStart == BeforeEvent /\ ArrangementInit => SetUpInv
<1> SUFFICES ASSUME BeforeEvent, ArrangementInit PROVE SetUpInv
  OBVIOUS
<1>1. \A k \in Calls : request[k].step = "idle" /\ call[k].step = "idle"
  BY NoRequestFacts, IdleFacts DEF ArrangementInit, Init, CaseInit
<1>2. ASSUME NEW a \in Appeals PROVE EventFirst(a) /\ SettledCase(a)
  <2>1. Len(StartPath) \in DOMAIN StartPath
    BY AppealsAssumption
  <2>2. /\ currentStatus[a] \notin {"event", "awaiting_event"}
        /\ \A j \in DOMAIN history[a] : history[a][j].status # "awaiting_event"
    BY <2>1 DEF ArrangementInit, Init, CaseInit, StartHistory, BeforeEvent
  <2> QED BY <2>2 DEF EventFirst, SettledCase
<1> QED BY <1>1, <1>2, ArrangementStart DEF SetUpInv, Busy, InProgress

\* A case that has come to its event has a row that says so.
LEMMA EventRecorded ==
    ASSUME SetUpInv, NEW a \in Appeals, currentStatus[a] \in {"event", "awaiting_event"}
    PROVE  RowsWith(history[a], "event") # {}
<1> DEFINE h == history[a]
           n == Len(h)
<1>1. /\ h \in Seq(StatusRow) /\ h # << >> /\ h[n].status = currentStatus[a] /\ EventFirst(a)
  BY DEF SetUpInv, ArrangementTypes, RowsInv, TypeOK, LastRowIsCurrent, OnlyLastRowValid
<1>2. n \in Nat \ {0} /\ DOMAIN h = 1..n
  <2> HIDE DEF h
  <2> QED BY <1>1
<1>3. CASE currentStatus[a] = "event"
  BY <1>1, <1>2, <1>3 DEF RowsWith
<1>4. CASE currentStatus[a] = "awaiting_event"
  <2>1. PICK i \in 1..(n - 1) : h[i].status = "event"
    BY <1>1, <1>2, <1>4 DEF EventFirst
  <2> QED BY <1>2, <2>1 DEF RowsWith
<1> QED BY <1>3, <1>4

\* A step that is taken for one case alone keeps it all if it leaves that case, and
\* the request for it, in order.
LEMMA SetUpKept ==
    ASSUME SetUpInv, ArrangementTypes', NEW k \in Calls, NEW a \in Appeals,
           \A j \in Calls \ {k} : ~Busy(j) /\ request'[j] = request[j] /\ call'[j] = call[j],
           Busy(k) => request[k].appeal = a,
           \A b \in Appeals \ {a} : /\ history'[b] = history[b]
                                    /\ currentStatus'[b] = currentStatus[b]
                                    /\ event'[b] = event[b],
           EventFirst(a)',
           request'[k].step = "idle" => SettledCase(a)',
           request'[k].step # "idle" => request'[k].appeal = a,
           request'[k].step \in {"loaded", "checked", "saved"} => KnowsCase(k)',
           request'[k].step = "moving" => CallSettles(k)',
           call'[k].step # "idle" => request'[k].step = "moving"
    PROVE  SetUpInv'
<1> USE DEF Busy, InProgress
<1>1. \A j \in Calls \ {k} : request'[j].step = "idle" /\ call'[j].step = "idle"
  BY DEF SetUpInv
<1>2. ASSUME NEW b \in Appeals
      PROVE  EventFirst(b)' /\ ((\A j \in Calls : Busy(j)' => request'[j].appeal # b)
                                   => SettledCase(b)')
  <2>1. CASE b = a
    BY <2>1
  <2>2. CASE b # a
    <3>1. EventFirst(b) /\ SettledCase(b)
      BY <2>2 DEF SetUpInv
    <3> QED BY <2>2, <3>1 DEF EventFirst, SettledCase
  <2> QED BY <2>1, <2>2
<1> QED BY <1>1, <1>2 DEF SetUpInv

\* A step that writes no status and changes no hearing keeps what is known of the
\* cases.
LEMMA SetUpSameCases ==
    ASSUME SetUpInv, UNCHANGED <<history, currentStatus>>
    PROVE  \A b \in Appeals : EventFirst(b)'
BY DEF SetUpInv, EventFirst

\* A request that comes in reads the case as it is, and finds it settled.
LEMMA SetUpArrives ==
    ASSUME Serialised, SetUpInv, ArrangementTypes', NEW k \in Calls, NEW a \in Appeals,
           Arrives(k, a)
    PROVE  SetUpInv'
<1>1. /\ UNCHANGED <<vars, hearingId>> /\ \A j \in Calls \ {k} : request'[j] = request[j]
      /\ \A j \in Calls : ~Busy(j)
      /\ request'[k].appeal = a /\ request'[k].step \in {"loaded", "checked", "saved"}
      /\ request'[k].reached <=> RowsWith(history[a], "event") # {}
      /\ Suits(a, request'[k].what, request'[k].step)
  BY ArrivesLeaves DEF SetUpInv
<1>2. SettledCase(a) /\ UNCHANGED <<history, currentStatus, event, call>>
  BY <1>1 DEF SetUpInv, vars
<1>3. KnowsCase(k)'
  BY <1>1, <1>2, EventRecorded DEF KnowsCase, SettledCase, Suits
<1>4. call'[k].step = "idle"
  BY <1>1, <1>2 DEF SetUpInv, Busy, InProgress
<1> QED BY <1>1, <1>2, <1>3, <1>4, SetUpSameCases, SetUpKept

\* The hearing, or the proofs, are saved as the request asks.
LEMMA SetUpSaves ==
    ASSUME SetUpInv, ArrangementTypes', NEW k \in Calls, Saves(k)
    PROVE  SetUpInv'
<1> DEFINE r == request[k]
<1>0. PICK a \in Appeals : a = r.appeal
  BY ArrangementFinds DEF SetUpInv
<1>1. /\ UNCHANGED <<kind, statusVars, personalList, call>>
      /\ \A j \in Calls \ {k} : request'[j] = request[j]
      /\ r.step \in {"loaded", "checked"}
      /\ \/ request'[k] = NoRequest
         \/ /\ request'[k].step \in {"loaded", "saved"}
            /\ request'[k].what = r.what /\ request'[k].appeal = a
            /\ request'[k].address = r.address /\ request'[k].reached = r.reached
            /\ \/ /\ r.step = "loaded" /\ request'[k].step = "saved"
                  /\ request'[k].had = r.had
               \/ /\ r.step = "checked" /\ request'[k].step = "loaded"
                  /\ request'[k].id = r.id
                  /\ request'[k].had <=> hearingExists(a, r.id) /\ event[a] = "arranged"
  BY <1>0, SavesLeaves DEF SetUpInv
<1>2. /\ KnowsCase(k) /\ ~InProgress(k) /\ Busy(k)
      /\ \A j \in Calls \ {k} : ~Busy(j)
  BY <1>1 DEF SetUpInv, Busy
<1>3. /\ UNCHANGED <<history, currentStatus>> /\ call'[k].step = "idle"
      /\ \A j \in Calls \ {k} : call'[j] = call[j]
      /\ EventFirst(a)'
  BY <1>1, <1>2, SetUpSameCases DEF statusVars, InProgress
<1>4. /\ event \in [Appeals -> Event] /\ r.address \in Address
      /\ SettledCase(a)
      /\ currentStatus[a] \in {"event", "awaiting_event"} => r.reached
      /\ r.what \in {"statements", "proofs", "job"} => currentStatus[a] # "event"
  BY <1>0, <1>1, <1>2, ArrangementFinds DEF SetUpInv, KnowsCase
<1>5. CASE UNCHANGED event /\ request'[k] = NoRequest
  <2>1. SettledCase(a)' /\ request'[k].step = "idle"
    BY <1>3, <1>4, <1>5, NoRequestFacts DEF SettledCase
  <2> QED BY <1>0, <1>1, <1>2, <1>3, <1>5, <2>1, SetUpKept
<1>6. CASE ReadHearing(k) /\ request'[k] # NoRequest
  <2>1. /\ UNCHANGED <<event, hearingId>> /\ r.step = "checked"
    BY <1>6 DEF ReadHearing, vars
  <2>2. /\ request'[k].step = "loaded" /\ request'[k].appeal = a
        /\ request'[k].what = r.what /\ request'[k].reached = r.reached
        /\ request'[k].id = r.id
        /\ request'[k].had <=> hearingExists(a, r.id) /\ event[a] = "arranged"
    BY <1>1, <1>6, <2>1
  <2>3. KnowsCase(k)'
    BY <1>3, <1>4, <2>1, <2>2 DEF KnowsCase, SettledCase, hearingExists
  <2> QED BY <1>0, <1>1, <1>2, <1>3, <2>1, <2>2, <2>3, SetUpKept
<1>7. CASE ~ReadHearing(k) /\ request'[k] # NoRequest
  <2>1. /\ request'[k].step = "saved" /\ request'[k].what = r.what /\ request'[k].appeal = a
        /\ request'[k].address = r.address /\ request'[k].reached = r.reached
        /\ request'[k].had = r.had
    BY <1>1, <1>7 DEF Saves, CreateHearing, UpdateHearing, SetDate, DeleteHearing, PublishProofs
  <2>2. \A b \in Appeals \ {a} : event'[b] = event[b]
    BY <1>0, <1>4, <1>7 DEF Saves, CreateHearing, UpdateHearing, SetDate, DeleteHearing, PublishProofs
  <2>3. KnowsCase(k)'
    <3>1. CASE CreateHearing(k)
      <4>1. /\ r.what = "post" /\ event[a] = "none"
            /\ event'[a] = IF r.address = "given" THEN "arranged" ELSE "unplaced"
        BY <1>0, <1>4, <1>7, <3>1, SavedOrRefused DEF SetUpInv, CreateHearing
      <4> QED BY <1>3, <1>4, <2>1, <4>1 DEF KnowsCase, SettledCase
    <3>2. CASE UpdateHearing(k)
      <4>1. /\ r.step = "loaded" /\ r.what = "rearrange" /\ hearingExists(a, r.id)
            /\ event'[a] = CASE r.address = "given" -> "arranged"
                             [] r.address = "removed" -> "unplaced"
                             [] r.address = "unchanged" -> event[a]
        BY <1>0, <1>4, <1>7, <3>2, SavedOrRefused DEF SetUpInv, UpdateHearing, SetDate
      <4>2. r.had <=> event[a] = "arranged"
        BY <1>0, <1>2, <4>1 DEF KnowsCase
      <4> QED BY <1>3, <1>4, <2>1, <4>1, <4>2 DEF KnowsCase, SettledCase, Address
    <3>3. CASE DeleteHearing(k)
      <4>1. r.what = "cancel" /\ event'[a] = "none"
        BY <1>0, <1>4, <1>7, <3>3, SavedOrRefused DEF SetUpInv, DeleteHearing
      <4> QED BY <1>3, <1>4, <2>1, <4>1 DEF KnowsCase
    <3>4. CASE PublishProofs(k)
      <4>1. r.what = "proofs" /\ UNCHANGED event
        BY <3>4 DEF PublishProofs
      <4> QED BY <1>3, <1>4, <2>1, <4>1 DEF KnowsCase, SettledCase
    <3> QED BY <1>7, <3>1, <3>2, <3>3, <3>4 DEF Saves
  <2> QED BY <1>0, <1>1, <1>2, <1>3, <2>1, <2>2, <2>3, SetUpKept
<1>8. request'[k] = NoRequest => UNCHANGED event
  BY <1>1, SavedOrRefused DEF SetUpInv, Saves, CreateHearing, ReadHearing, UpdateHearing, SetDate, DeleteHearing,
     PublishProofs, vars
<1> QED BY <1>5, <1>6, <1>7, <1>8

\* The trigger that follows takes the case to where its hearing says; without one it
\* is there.
LEMMA SetUpProceeds ==
    ASSUME SetUpInv, ArrangementTypes', NEW k \in Calls, Proceed(k)
    PROVE  SetUpInv'
<1> DEFINE r == request[k]
           t == TriggerAfter(r)
<1>0. PICK a \in Appeals : a = r.appeal
  BY ArrangementFinds DEF SetUpInv
<1>1. /\ UNCHANGED <<statusVars, eventVars, personalList>> /\ r.step = "saved"
      /\ \A j \in Calls \ {k} : request'[j] = request[j] /\ call'[j] = call[j]
      /\ \/ request'[k] = NoRequest /\ UNCHANGED call /\ t = NoTrigger
         \/ /\ request'[k].step = "moving" /\ request'[k].appeal = a
            /\ call'[k].step = "read" /\ call'[k].appeal = a /\ call'[k].trigger = t
            /\ t # NoTrigger
  BY <1>0, ProceedLeaves DEF SetUpInv
<1>2. /\ KnowsCase(k) /\ ~InProgress(k) /\ Busy(k)
      /\ \A j \in Calls \ {k} : ~Busy(j)
  BY <1>1 DEF SetUpInv, Busy
<1>3. UNCHANGED <<history, currentStatus, event>> /\ EventFirst(a)'
  BY <1>1, SetUpSameCases DEF statusVars, eventVars
<1>4. /\ r.what \in {"post", "rearrange", "cancel", "statements", "proofs", "job"}
      /\ r.address \in Address /\ event[a] \in Event
  BY ArrangementFinds DEF SetUpInv, Request
<1>5. CASE t = NoTrigger
  <2>1. request'[k].step = "idle" /\ call'[k].step = "idle"
    BY <1>1, <1>2, <1>5, NoRequestFacts DEF InProgress
  <2>2. SettledCase(a)
    BY <1>0, <1>1, <1>2, <1>4, <1>5
       DEF KnowsCase, SettledCase, TriggerAfter, NoTrigger, Address, Event
  <2>3. SettledCase(a)'
    BY <1>3, <2>2 DEF SettledCase
  <2> QED BY <1>0, <1>1, <1>2, <1>3, <2>1, <2>3, SetUpKept
<1>6. CASE t # NoTrigger
  <2>1. /\ request'[k].step = "moving" /\ request'[k].appeal = a
        /\ call'[k].step = "read" /\ call'[k].appeal = a /\ call'[k].trigger = t
    BY <1>1, <1>6
  <2>2. IF t = "Complete"
          THEN currentStatus[a] \in {"event", "awaiting_event"} => event[a] = "arranged"
          ELSE /\ t \in {"Incomplete", "Cancel"}
               /\ currentStatus[a] = "event" => event[a] # "arranged"
    BY <1>0, <1>1, <1>2, <1>4, <1>6 DEF KnowsCase, SettledCase, TriggerAfter, NoTrigger
  <2> HIDE DEF t
  <2>3. CallSettles(k)'
    BY <1>3, <2>1, <2>2 DEF CallSettles
  <2> QED BY <1>0, <1>1, <1>2, <1>3, <2>1, <2>3, SetUpKept
<1> QED BY <1>5, <1>6

\* The call has returned, with the case settled.
LEMMA SetUpResponds ==
    ASSUME SetUpInv, ArrangementTypes', NEW k \in Calls, Respond(k)
    PROVE  SetUpInv'
<1>0. PICK a \in Appeals : a = request[k].appeal
  BY ArrangementFinds DEF SetUpInv
<1>1. /\ UNCHANGED <<vars, hearingId>> /\ \A j \in Calls \ {k} : request'[j] = request[j]
      /\ request'[k].step = "idle" /\ request[k].step = "moving" /\ call[k].step = "idle"
  BY AnswersLeaves, NoRequestFacts DEF SetUpInv, Respond
<1>2. UNCHANGED <<history, currentStatus, event, call>> /\ EventFirst(a)'
  BY <1>1, SetUpSameCases DEF vars
<1>3. SettledCase(a)' /\ Busy(k) /\ \A j \in Calls \ {k} : ~Busy(j)
  BY <1>0, <1>1, <1>2 DEF SetUpInv, CallSettles, SettledCase, Busy
<1> QED BY <1>0, <1>1, <1>2, <1>3, SetUpKept

\* The chart waits for the event once it is set up, and no longer when it is not.
LEMMA ChartAtEvent ==
    ASSUME NEW type, NEW procedure \in {"hearing", "inquiry"}, NEW elapsed,
           NEW status \in Status, NEW trigger \in {"Complete", "Incomplete", "Cancel"}
    PROVE  LET new == NextStatus(type, procedure, elapsed, status, trigger) IN
           /\ new = "awaiting_event" /\ new # status => status = "event" /\ trigger = "Complete"
           /\ new = status =>
                 /\ status = "event" => trigger # "Complete"
                 /\ status = "awaiting_event" => trigger = "Complete"
<1>1. CASE status \in FinalStatus
  BY <1>1 DEF NextStatus, FinalStatus, WorkingStatus, Status
<1>2. CASE status = "awaiting_transfer"
  BY <1>2 DEF NextStatus, FinalStatus, WorkingStatus, Status
<1>3. CASE status \in WorkingStatus
  BY <1>3 DEF NextStatus, FinalStatus, WorkingStatus, targetStateOnStatementsComplete,
     targetStateOnLpaqComplete, targetStateOnEventCancelled
<1> QED BY <1>1, <1>2, <1>3 DEF Status

\* A call belongs to the one request there is.
LEMMA SetUpCaller ==
    ASSUME SetUpInv, NEW k \in Calls, InProgress(k)
    PROVE  /\ request[k].step = "moving" /\ Busy(k) /\ CallSettles(k)
           /\ call[k].appeal = request[k].appeal
           /\ \A j \in Calls \ {k} : ~Busy(j)
BY DEF SetUpInv, CallSettles, InProgress, Busy

\* transitionState reads the case and decides to go where the hearing says.
LEMMA SetUpReads ==
    ASSUME SetUpInv, ArrangementTypes', NEW k \in Calls, ReadAppeal(k), UNCHANGED request
    PROVE  SetUpInv'
<1> DEFINE c == call[k]
<1>0. PICK a \in Appeals : a = c.appeal
  BY ArrangementFinds DEF SetUpInv
<1> DEFINE new == NextStatusOf(a, eventElapsed(a), currentStatus[a], c.trigger)
           passed == isStatePassed(history[a], new)
           arranged == isArranged(a)
<1>1. /\ c \in CallRecord /\ call \in [Calls -> CallRecord] /\ c.step = "read" /\ InProgress(k)
      /\ currentStatus[a] \in Status /\ kind[a].procedure \in {"hearing", "inquiry"}
      /\ UNCHANGED <<history, currentStatus, event>>
  BY ArrangementFinds, ArrangementAssumption
     DEF SetUpInv, ArrangementTypes, RowsInv, TypeOK, ReadAppeal, InProgress, statusVars, eventVars
<1>2. /\ request[k].step = "moving" /\ Busy(k) /\ CallSettles(k) /\ a = request[k].appeal
      /\ \A j \in Calls \ {k} : ~Busy(j)
  BY <1>0, <1>1, SetUpCaller
<1>3. /\ c.trigger \in {"Complete", "Incomplete", "Cancel"}
      /\ IF c.trigger = "Complete"
           THEN currentStatus[a] \in {"event", "awaiting_event"} => event[a] = "arranged"
           ELSE currentStatus[a] = "event" => event[a] # "arranged"
  BY <1>1, <1>2 DEF CallSettles
<1>4. /\ new = "awaiting_event" /\ new # currentStatus[a] =>
            currentStatus[a] = "event" /\ c.trigger = "Complete"
      /\ new = currentStatus[a] =>
            /\ currentStatus[a] = "event" => c.trigger # "Complete"
            /\ currentStatus[a] = "awaiting_event" => c.trigger = "Complete"
  BY <1>1, <1>3, ChartAtEvent DEF NextStatusOf
<1>5. /\ EventFirst(a)' /\ \A j \in Calls \ {k} : call'[j] = call[j]
  BY <1>1, SetUpSameCases DEF ReadAppeal
<1>6. CASE new = currentStatus[a]
  <2>1. call'[k].step = "readList" /\ call'[k].appeal = a
    BY <1>0, <1>1, <1>6, UpdatingListFacts DEF ReadAppeal
  <2>2. SettledCase(a)
    BY <1>3, <1>4, <1>6 DEF SettledCase
  <2>3. CallSettles(k)'
    BY <1>1, <1>2, <2>1, <2>2 DEF CallSettles, SettledCase
  <2> QED BY <1>1, <1>2, <1>5, <2>1, <2>3, SetUpKept
<1>7. CASE new # currentStatus[a]
  <2>1. /\ call'[k].step = "write" /\ call'[k].appeal = a /\ call'[k].newState = new
        /\ call'[k].passed = passed /\ call'[k].arranged = arranged
    <3> HIDE DEF passed, arranged
    <3>1. call' = [call EXCEPT ![k].step = "write", ![k].newState = new,
                               ![k].passed = passed, ![k].arranged = arranged]
      BY <1>0, <1>7 DEF ReadAppeal, passed, arranged
    <3> HIDE DEF new
    <3> QED BY <1>0, <1>1, <3>1 DEF CallRecord
  <2>2. passed => RowsWith(history[a], new) # {}
    BY <1>1, <1>7, PassedIsRecorded
       DEF SetUpInv, ArrangementTypes, RowsInv, TypeOK, LastRowIsCurrent
  <2>3. arranged <=> event[a] = "arranged"
    BY DEF isArranged
  <2>4. new = "awaiting_event" => currentStatus[a] = "event" /\ event[a] = "arranged"
    BY <1>3, <1>4, <1>7
  <2> HIDE DEF new, passed, arranged
  <2>5. CallSettles(k)'
    BY <1>1, <1>2, <2>1, <2>2, <2>3, <2>4 DEF CallSettles
  <2> QED BY <1>1, <1>2, <1>5, <2>1, <2>5, SetUpKept
<1> QED BY <1>6, <1>7

\* After the write a case at its event with the event arranged is carried on, and
\* only one at the evidence stage has its proofs read.
LEMMA AfterWriteSettles ==
    ASSUME TypeOK, NEW k \in Calls
    PROVE  /\ AfterWrite(k).step = "read" =>
                 /\ AfterWrite(k).trigger = "Complete"
                 /\ call[k].newState = "event" /\ call[k].arranged
           /\ AfterWrite(k).step = "proofs" => call[k].newState = "evidence"
           /\ AfterWrite(k).step = "readList" => ~(call[k].newState = "event" /\ call[k].arranged)
<1> DEFINE c == call[k]
<1>1. c \in CallRecord /\ [c EXCEPT !.step = "proofs"].step = "proofs"
  BY DEF TypeOK, CallRecord
<1>2. CASE c.newState = "event" /\ c.arranged
  BY <1>1, <1>2, CallingCompleteFacts DEF AfterWrite
<1>3. CASE /\ ~(c.newState = "event" /\ c.arranged)
           /\ c.newState = "evidence"
           /\ ~isExpeditedAppealType(kind[c.appeal].type)
           /\ kind[c.appeal].procedure = "inquiry"
  <2>1. AfterWrite(k) = [c EXCEPT !.step = "proofs"]
    BY <1>3 DEF AfterWrite
  <2> QED BY <1>1, <1>3, <2>1
<1>4. CASE /\ ~(c.newState = "event" /\ c.arranged)
           /\ ~(/\ c.newState = "evidence"
                /\ ~isExpeditedAppealType(kind[c.appeal].type)
                /\ kind[c.appeal].procedure = "inquiry")
  <2>1. AfterWrite(k) = UpdatingList(c)
    BY <1>4 DEF AfterWrite
  <2> QED BY <1>1, <1>4, <2>1, UpdatingListFacts
<1> QED BY <1>2, <1>3, <1>4

\* A row for the wait is added after that of the event, and rolling back takes off
\* later rows only.
LEMMA EventFirstKept ==
    ASSUME SetUpInv, NEW k \in Calls, NEW a \in Appeals, a = call[k].appeal,
           Advance(k) \/ RollBack(k),
           call[k].newState = "awaiting_event" => currentStatus[a] = "event"
    PROVE  EventFirst(a)'
<1> DEFINE h == history[a]
           n == Len(h)
           new == call[k].newState
<1>1. /\ h \in Seq(StatusRow) /\ h # << >> /\ h[n].status = currentStatus[a] /\ EventFirst(a)
      /\ OnlyLastRowValid(h) /\ new \in Status /\ history \in [Appeals -> Seq(StatusRow)]
  BY DEF SetUpInv, ArrangementTypes, RowsInv, TypeOK, LastRowIsCurrent, OnlyLastRowValid, CallRecord
<1>2. n \in Nat \ {0} /\ DOMAIN h = 1..n
  <2> HIDE DEF h
  <2> QED BY <1>1
<1>0. ASSUME NEW j \in 1..n, h[j].status = "awaiting_event"
      PROVE  \E i \in 1..(j - 1) : h[i].status = "event"
  <2>1. \A l \in DOMAIN h : h[l].status = "awaiting_event" =>
           \E i \in 1..(l - 1) : h[i].status = "event"
    BY <1>1 DEF EventFirst
  <2> HIDE DEF h, n
  <2> QED BY <1>0, <1>2, <2>1
<1>3. CASE Advance(k)
  <2> DEFINE g == SetStatus(h, new)
  <2>1. history'[a] = g
    BY <1>1, <1>3 DEF Advance
  <2>2. /\ g \in Seq(StatusRow) /\ Len(g) = n + 1 /\ g[n + 1].status = new
        /\ \A i \in DOMAIN h : g[i].status = h[i].status
    BY <1>1, SetStatusFacts
  <2>3. DOMAIN g = 1..(n + 1)
    <3> HIDE DEF g, h, n
    <3> QED BY <1>2, <2>2
  <2>4. ASSUME NEW j \in 1..(n + 1), g[j].status = "awaiting_event"
        PROVE  \E i \in 1..(j - 1) : g[i].status = "event"
    <3>1. CASE j = n + 1
      <4>0. new = "awaiting_event" /\ n \in DOMAIN h
        <5> HIDE DEF g, h, n, new
        <5> QED BY <1>2, <2>2, <2>4, <3>1
      <4>1. g[n].status = "event"
        <5> HIDE DEF g
        <5> QED BY <1>1, <2>2, <4>0
      <4>2. n \in 1..(j - 1)
        BY <1>2, <3>1
      <4> QED BY <4>1, <4>2
    <3>2. CASE j # n + 1
      <4>0. j \in 1..n
        <5> HIDE DEF g, h, n
        <5> QED BY <1>2, <2>4, <3>2
      <4>1. h[j].status = "awaiting_event"
        BY <1>2, <2>2, <2>4, <4>0
      <4>2. PICK i \in 1..(j - 1) : h[i].status = "event"
        BY <1>0, <4>0, <4>1
      <4>3. i \in 1..(j - 1) /\ g[i].status = "event"
        BY <1>2, <2>2, <4>1, <4>2
      <4> QED BY <4>3
    <3> QED BY <3>1, <3>2
  <2> HIDE DEF g
  <2> QED BY <2>1, <2>3, <2>4 DEF EventFirst
<1>4. CASE RollBack(k)
  <2>1. PICK m \in RowsWith(h, new) : history'[a] = RollBackToRow(h, m)
    BY <1>1, <1>4 DEF RollBack
  <2> DEFINE g == RollBackToRow(h, m)
  <2>2. /\ m \in 1..n /\ g \in Seq(StatusRow) /\ Len(g) = m
        /\ \A i \in 1..m : g[i].status = h[i].status
    BY <1>1, <1>2, <2>1, RollBackToRowFacts DEF RowsWith
  <2>3. DOMAIN g = 1..m
    <3> HIDE DEF g, h, n
    <3> QED BY <1>2, <2>2
  <2>4. ASSUME NEW j \in 1..m, g[j].status = "awaiting_event"
        PROVE  \E i \in 1..(j - 1) : g[i].status = "event"
    <3>1. j \in 1..n /\ h[j].status = "awaiting_event"
      BY <1>2, <2>2, <2>4
    <3>2. PICK i \in 1..(j - 1) : h[i].status = "event"
      BY <1>1, <1>2, <3>1 DEF EventFirst
    <3>3. i \in 1..(j - 1) /\ g[i].status = "event"
      BY <1>2, <2>2, <3>1, <3>2
    <3> QED BY <3>3
  <2>5. history'[a] = g
    BY <2>1
  <2> HIDE DEF g
  <2> QED BY <2>3, <2>4, <2>5 DEF EventFirst
<1> QED BY <1>3, <1>4

\* What the call decided is still right when it writes it, and what it does next
\* settles the case.
LEMMA SetUpWrites ==
    ASSUME SetUpInv, ArrangementTypes', NEW k \in Calls, Advance(k) \/ RollBack(k),
           UNCHANGED request
    PROVE  SetUpInv'
<1> DEFINE c == call[k]
           new == c.newState
<1>0. PICK a \in Appeals : a = c.appeal
  BY ArrangementFinds DEF SetUpInv
<1>1. /\ c.step = "write" /\ InProgress(k) /\ UNCHANGED event /\ TypeOK
      /\ currentStatus'[a] = new
      /\ \A b \in Appeals \ {a} : currentStatus'[b] = currentStatus[b] /\ history'[b] = history[b]
      /\ call'[k] = AfterWrite(k) /\ \A j \in Calls \ {k} : call'[j] = call[j]
  BY <1>0 DEF Advance, RollBack, InProgress, eventVars, SetUpInv, ArrangementTypes,
     ArrangementTypeOK, TypeOK
<1>2. /\ request[k].step = "moving" /\ Busy(k) /\ CallSettles(k) /\ a = request[k].appeal
      /\ \A j \in Calls \ {k} : ~Busy(j)
  BY <1>0, <1>1, SetUpCaller
<1>3. /\ c.arranged <=> event[a] = "arranged"
      /\ new = "awaiting_event" => currentStatus[a] = "event" /\ event[a] = "arranged"
  BY <1>1, <1>2 DEF CallSettles
<1>4. EventFirst(a)'
  BY <1>0, <1>3, EventFirstKept
<1>5. /\ call'[k].step \in {"read", "proofs", "readList"} /\ call'[k].appeal = a
      /\ call'[k].step = "read" => call'[k].trigger = "Complete" /\ new = "event" /\ c.arranged
      /\ call'[k].step = "proofs" => new = "evidence"
      /\ call'[k].step = "readList" => ~(new = "event" /\ c.arranged)
  BY <1>0, <1>1, AfterWriteFacts, AfterWriteSettles
<1>6. CallSettles(k)'
  <2>1. call'[k].step # "read" => SettledCase(a)'
    BY <1>1, <1>3, <1>5 DEF SettledCase
  <2> QED BY <1>1, <1>2, <1>3, <1>5, <2>1 DEF CallSettles
<1> QED BY <1>1, <1>2, <1>4, <1>5, <1>6, SetUpKept

\* The rest of a call: reviewed proofs of evidence carry the case on, the personal
\* list changes nothing, and rollBackAppealStatusTo does not throw.
LEMMA SetUpRunsOn ==
    ASSUME SetUpInv, ArrangementTypes', NEW k \in Calls, Step(k), UNCHANGED request,
           ~ReadAppeal(k), ~Advance(k), ~RollBack(k)
    PROVE  SetUpInv'
<1> DEFINE c == call[k]
<1>0. PICK a \in Appeals : a = c.appeal
  BY ArrangementFinds DEF SetUpInv
<1>1. /\ InProgress(k) /\ UNCHANGED event /\ TypeOK
      /\ \A j \in Calls \ {k} : call'[j] = call[j]
      /\ call'[k].step # "idle" => call'[k].appeal = a
  BY <1>0, StepStays DEF eventVars, SetUpInv, ArrangementTypes, ArrangementTypeOK
<1>2. /\ request[k].step = "moving" /\ Busy(k) /\ CallSettles(k) /\ a = request[k].appeal
      /\ \A j \in Calls \ {k} : ~Busy(j)
  BY <1>0, <1>1, SetUpCaller
<1>3. ~RollBackThrows(k)
  BY <1>0, <1>2 DEF RollBackThrows, CallSettles
<1>4. /\ c.step \in {"proofs", "readList", "writeList", "writeChildren"}
      /\ UNCHANGED <<history, currentStatus>> /\ EventFirst(a)'
  <2>1. /\ c.step \in {"proofs", "readList", "writeList", "writeChildren"}
        /\ UNCHANGED <<history, currentStatus>>
    BY <1>3 DEF Step, ReadProofs, ReadForList, WriteList, WriteChildren, statusVars
  <2> QED BY <2>1, SetUpSameCases
<1>5. /\ call'[k].step # "write"
      /\ call'[k].step = "read" => call'[k].trigger = "Complete" /\ c.step \in {"write", "proofs"}
      /\ call'[k].step = "proofs" => c.step = "write"
  BY <1>1, StepWrites
<1>6. /\ SettledCase(a) /\ SettledCase(a)'
      /\ c.step = "proofs" => currentStatus[a] # "event"
  BY <1>1, <1>2, <1>4 DEF CallSettles, SettledCase
<1>7. CallSettles(k)'
  BY <1>1, <1>2, <1>4, <1>5, <1>6 DEF CallSettles, SettledCase
<1> QED BY <1>1, <1>2, <1>4, <1>7, SetUpKept

\* Every step keeps it.
LEMMA SetUpNext ==
    Serialised /\ SetUpInv /\ [ArrangementWorking]_arrangementVars => SetUpInv'
<1> SUFFICES ASSUME Serialised, SetUpInv, [ArrangementWorking]_arrangementVars PROVE SetUpInv'
  OBVIOUS
<1>1. ArrangementTypes'
  BY ArrangementTypesNext DEF SetUpInv, ArrangementNext
<1>2. ASSUME NEW k \in Calls, NEW a \in Appeals, Arrives(k, a) PROVE SetUpInv'
  BY <1>1, <1>2, SetUpArrives
<1>3. ASSUME NEW k \in Calls, Saves(k) PROVE SetUpInv'
  BY <1>1, <1>3, SetUpSaves
<1>4. ASSUME NEW k \in Calls, Proceed(k) \/ Respond(k) PROVE SetUpInv'
  BY <1>1, <1>4, SetUpProceeds, SetUpResponds
<1>5. ASSUME NEW k \in Calls, CallStepOf(k) PROVE SetUpInv'
  BY <1>1, <1>5, SetUpReads, SetUpWrites, SetUpRunsOn DEF CallStepOf
<1>6. CASE \/ \E a \in Appeals : HearingPasses(a) \/ ProofsReviewed(a)
           \/ UNCHANGED arrangementVars
  <2>1. UNCHANGED <<history, currentStatus, event, hearingId, request, call>>
    BY <1>6 DEF HearingPasses, ProofsReviewed, TimePasses, ReviewProofs, arrangementVars, vars,
       statusVars
  <2> QED BY <1>1, <2>1 DEF SetUpInv, KnowsCase, CallSettles, SettledCase, EventFirst,
     hearingExists, Busy, InProgress
<1> QED BY <1>2, <1>3, <1>4, <1>5, <1>6
       DEF ArrangementWorking, RequestStep, Saves, Arrives

\* With one request at a time and nothing failing, a case whose hearing is set up with
\* its address moves on from the set-up stage.
THEOREM SetUpMoves ==
    ASSUME Serialised, BeforeEvent
    PROVE  SteadyArrangementSpec => []SetUpMovesOn
<1>1. SetUpInv => SetUpMovesOn
  BY DEF SetUpInv, SetUpMovesOn, Quiet, SettledCase
<1> QED BY <1>1, SetUpStart, SetUpNext, PTL DEF SteadyArrangementSpec

\* And a case that awaits its hearing has one, with an address.
THEOREM AwaitedCorrect ==
    ASSUME Serialised, BeforeEvent
    PROVE  SteadyArrangementSpec => []AwaitedIsSetUp
<1>1. SetUpInv => AwaitedIsSetUp
  BY DEF SetUpInv, AwaitedIsSetUp, Quiet, SettledCase
<1> QED BY <1>1, SetUpStart, SetUpNext, PTL DEF SteadyArrangementSpec

-----------------------------------------------------------------------------
(* The requests implement TransitionState, whatever overlaps and whichever *)
(* e-mails fail.                                                           *)

\* Proofs of evidence are published for inquiries only, since no other case is at the
\* evidence stage and the procedure of a case does not change.
ProofsOfInquiry ==
    \A k \in Calls :
        Busy(k) /\ request[k].what = "proofs" => kind[request[k].appeal].procedure = "inquiry"

\* A case at the evidence stage is an inquiry.
LEMMA EvidenceOfInquiry ==
    ASSUME ArrangementTypes, StageInv, NEW a \in Appeals, currentStatus[a] = "evidence"
    PROVE  kind[a].procedure = "inquiry"
<1>1. kind[a] \in Kinds
  BY DEF ArrangementTypes, RowsInv, TypeOK
<1>2. HasStage(a, "evidence")
  BY DEF StageInv
<1>3. normaliseProcedureType(kind[a].procedure) = "inquiry"
  BY <1>2 DEF HasStage, isAppealTypeAndProcedureTypeValid
<1> QED BY <1>1, <1>3, ArrangementAssumption DEF normaliseProcedureType

\* So the requests for them are, as they come in and while they run.
LEMMA ProofsOfInquiryNext ==
    ASSUME ArrangementTypes, StageInv, ProofsOfInquiry, [ArrangementNext]_arrangementVars
    PROVE  ProofsOfInquiry'
<1> USE DEF ProofsOfInquiry, Busy
<1>1. ASSUME NEW k \in Calls, NEW a \in Appeals, Arrives(k, a)
      PROVE  ProofsOfInquiry'
  <2>1. request'[k].what = "proofs" => currentStatus[a] = "evidence"
    BY <1>1, ArrivesLeaves DEF Suits
  <2>2. UNCHANGED kind /\ request'[k].appeal = a /\ \A j \in Calls \ {k} : request'[j] = request[j]
    BY <1>1, ArrivesLeaves DEF vars
  <2> QED BY <2>1, <2>2, EvidenceOfInquiry
<1>2. ASSUME NEW k \in Calls, Saves(k)
      PROVE  ProofsOfInquiry'
  BY <1>2, SavesLeaves, NoRequestFacts
<1>3. ASSUME NEW k \in Calls, Proceed(k)
      PROVE  ProofsOfInquiry'
  BY <1>3, ProceedLeaves, NoRequestFacts DEF eventVars
<1>4. ASSUME NEW k \in Calls, Respond(k) \/ NotifyFails(k)
      PROVE  ProofsOfInquiry'
  BY <1>4, AnswersLeaves, NoRequestFacts DEF vars
<1>5. ASSUME NEW k \in Calls, CallStepOf(k)
      PROVE  ProofsOfInquiry'
  <2>1. TypeOK
    BY DEF ArrangementTypes, RowsInv
  <2>2. UNCHANGED eventVars
    BY <1>5, <2>1, StepStays DEF CallStepOf
  <2> QED BY <1>5, <2>2 DEF CallStepOf, eventVars
<1>6. ASSUME NEW a \in Appeals, HearingPasses(a) \/ ProofsReviewed(a)
      PROVE  ProofsOfInquiry'
  BY <1>6 DEF HearingPasses, ProofsReviewed, TimePasses, ReviewProofs
<1>7. CASE UNCHANGED arrangementVars
  BY <1>7 DEF arrangementVars, vars
<1> QED BY <1>1, <1>2, <1>3, <1>4, <1>5, <1>6, <1>7
       DEF ArrangementNext, ArrangementWorking, RequestStep, Saves, Arrives

\* What is saved is an event set up, an event dropped or a review of proofs undone.
LEMMA SavesMap ==
    ASSUME ArrangementTypes, ProofsOfInquiry, NEW k \in Calls, Saves(k)
    PROVE  [Next]_vars
<1> DEFINE r == request[k]
           a == r.appeal
<1>1. /\ a \in Appeals /\ event \in [Appeals -> Event] /\ proofs \in [Appeals -> BOOLEAN]
      /\ r.address \in Address
  BY ArrangementFinds
<1>2. SetUpEvent(a) \/ DropEvent(a) \/ ReviewProofs(a) => Next
  BY <1>1 DEF Environment, Next, Working
<1>3. CASE CreateHearing(k)
  <2> DEFINE e == IF r.address = "given" THEN "arranged" ELSE "unplaced"
  <2>1. e \in Events
    BY ArrangementAssumption
  <2>2. CASE event[a] = "none"
    <3>1. event' = [event EXCEPT ![a] = e] /\ past' = [past EXCEPT ![a] = FALSE]
          /\ UNCHANGED <<kind, statusVars, proofs, personalList, call>>
      BY <1>3, <2>2 DEF CreateHearing
    <3>2. SetUpEvent(a)
      BY <2>1, <3>1 DEF SetUpEvent
    <3> QED BY <1>2, <3>2
  <2>3. CASE event[a] # "none"
    BY <1>3, <2>3 DEF CreateHearing, vars, statusVars
  <2> QED BY <2>2, <2>3
<1>4. CASE ReadHearing(k)
  BY <1>4 DEF ReadHearing
<1>5. CASE UpdateHearing(k)
  <2> DEFINE e == CASE r.address = "given" -> "arranged"
                    [] r.address = "removed" -> "unplaced"
                    [] r.address = "unchanged" -> event[a]
  <2>1. CASE hearingExists(a, r.id)
    <3>1. e \in Events
      BY <1>1, <2>1, ArrangementAssumption DEF hearingExists, Event, Address
    <3>2. event' = [event EXCEPT ![a] = e] /\ past' = [past EXCEPT ![a] = FALSE]
          /\ UNCHANGED <<kind, statusVars, proofs, personalList, call>>
      BY <1>5, <2>1 DEF UpdateHearing, SetDate
    <3>3. SetUpEvent(a)
      BY <3>1, <3>2 DEF SetUpEvent
    <3> QED BY <1>2, <3>3
  <2>2. CASE ~hearingExists(a, r.id)
    BY <1>5, <2>2 DEF UpdateHearing, vars, statusVars
  <2> QED BY <2>1, <2>2
<1>6. CASE DeleteHearing(k)
  <2>1. CASE hearingExists(a, r.id)
    <3>1. DropEvent(a)
      BY <1>6, <2>1 DEF DeleteHearing, DropEvent, hearingExists
    <3> QED BY <1>2, <3>1
  <2>2. CASE ~hearingExists(a, r.id)
    BY <1>6, <2>2 DEF DeleteHearing, vars, statusVars
  <2> QED BY <2>1, <2>2
<1>7. CASE PublishProofs(k)
  <2>1. /\ proofs' = [proofs EXCEPT ![a] = FALSE]
        /\ UNCHANGED <<kind, statusVars, event, past, personalList, call>>
        /\ kind[a].procedure = "inquiry"
    BY <1>7 DEF PublishProofs, ProofsOfInquiry, Busy
  <2>2. CASE proofs[a]
    <3>1. ReviewProofs(a)
      BY <1>1, <2>1, <2>2 DEF ReviewProofs
    <3> QED BY <1>2, <3>1
  <2>3. CASE ~proofs[a]
    <3>1. proofs' = proofs
      BY <1>1, <2>1, <2>3
    <3> QED BY <2>1, <3>1 DEF vars, statusVars
  <2> QED BY <2>2, <2>3
<1> QED BY <1>3, <1>4, <1>5, <1>6, <1>7 DEF Saves

\* Each step of a request is one of TransitionState, or leaves its variables alone.
LEMMA ArrangementMaps ==
    ASSUME ArrangementTypes, ProofsOfInquiry, [ArrangementNext]_arrangementVars
    PROVE  [Next]_vars
<1>1. ASSUME NEW k \in Calls, NEW a \in Appeals, Arrives(k, a)
      PROVE  UNCHANGED vars
  BY <1>1, ArrivesLeaves
<1>2. ASSUME NEW k \in Calls, Saves(k)
      PROVE  [Next]_vars
  BY <1>2, SavesMap
<1>3. ASSUME NEW k \in Calls, Proceed(k)
      PROVE  [Next]_vars
  <2>1. CASE TriggerAfter(request[k]) = NoTrigger
    BY <1>3, <2>1 DEF Proceed
  <2>2. CASE TriggerAfter(request[k]) # NoTrigger
    <3>1. Invoke(k, request[k].appeal, TriggerAfter(request[k])) /\ request[k].appeal \in Appeals
      BY <1>3, <2>2, ArrangementFinds DEF Proceed
    <3>2. TriggerAfter(request[k]) \in Triggers
      BY <3>1 DEF Invoke, TriggersFor
    <3> QED BY <3>1, <3>2 DEF Next, Working
  <2> QED BY <2>1, <2>2
<1>4. ASSUME NEW k \in Calls, Respond(k) \/ NotifyFails(k)
      PROVE  UNCHANGED vars
  BY <1>4 DEF Respond, NotifyFails
<1>5. ASSUME NEW k \in Calls, CallStepOf(k)
      PROVE  Next
  BY <1>5 DEF CallStepOf, Next, Working
<1>6. ASSUME NEW a \in Appeals, HearingPasses(a) \/ ProofsReviewed(a)
      PROVE  Next
  BY <1>6 DEF HearingPasses, ProofsReviewed, Environment, Next, Working
<1>7. CASE UNCHANGED arrangementVars
  BY <1>7 DEF arrangementVars
<1> QED BY <1>1, <1>2, <1>3, <1>4, <1>5, <1>6, <1>7
       DEF ArrangementNext, ArrangementWorking, RequestStep, Saves, Arrives

\* The requests about hearings and inquiries, in any number and however they overlap
\* and their e-mails fail, are the callers and the environment TransitionState describes.
THEOREM ArrangementsImplement == ArrangementSpec => ImplementsTransitionState
<1>1. ArrangementInit => Init /\ ProofsOfInquiry
  BY NoRequestFacts DEF ArrangementInit, ProofsOfInquiry, Busy
<1>2. /\ ArrangementTypes /\ StageInv /\ ProofsOfInquiry /\ [ArrangementNext]_arrangementVars
      => [Next]_vars /\ StageInv' /\ ProofsOfInquiry'
  BY ArrangementMaps, ProofsOfInquiryNext, StageNext DEF ArrangementTypes
<1> QED BY <1>1, <1>2, StageInit, ArrangementStart, ArrangementTypesNext, PTL
       DEF ArrangementSpec, ImplementsTransitionState, Spec

\* Whatever requests overlap or fail, a case with a hearing or an inquiry is at a
\* stage that its type and procedure have.
THEOREM ArrangementStageCorrect == ArrangementSpec => []StageIsForCase
BY ArrangementsImplement, StageCorrect, PTL DEF ImplementsTransitionState

\* When the requests do not overlap, a cancelled or incomplete arrangement rolls the
\* case back and a new one carries it on again as CaseStatus says: each write is one
\* transition of the chart.
THEOREM ArrangementsMoveByChart ==
    ASSUME Serialised PROVE ArrangementSpec => ImplementsCaseStatus
BY ArrangementsImplement, Implements, PTL DEF ImplementsTransitionState

\* Nor do they, when they do not overlap, ever fail to roll a case back: the stage that
\* a cancelled or incomplete arrangement returns to is recorded.
THEOREM ArrangementRollsBack ==
    ASSUME Serialised PROVE ArrangementSpec => []RollBackFindsRow
BY ArrangementsImplement, RollBackSucceeds, PTL DEF ImplementsTransitionState
=============================================================================
