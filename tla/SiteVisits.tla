------------------------------ MODULE SiteVisits ------------------------------
(***************************************************************************)
(* Arranging, rearranging, cancelling and missing the site visit of a lead *)
(* appeal and its children, beside the publication of representations and  *)
(* the completed events job.                                               *)
(*                                                                         *)
(* Each appeal of a group has its own SiteVisit row.  The rows are created *)
(* one by one and updated or deleted together, and the appeals are then    *)
(* moved by GroupMove.  A missed visit keeps its row: transitionState and  *)
(* the middleware filter it out, the job and the unique key do not.        *)
(***************************************************************************)
EXTENDS GroupMove

\* Site visits are for appeals by written representations.
ASSUME VisitAssumption == \A k \in Kinds : k.procedure = "written"

VARIABLES
    missed          \* the missed visit of each appeal, dated ("arranged") or not

visitVars == <<vars, groupVars, missed>>

VisitTypeOK ==
    /\ GroupTypeOK
    /\ missed \in [Appeals -> Event]

VisitInit ==
    /\ Init /\ NoRequests
    /\ missed = [a \in Appeals |-> "none"]

HasVisit(a) == event[a] # "none" \/ missed[a] # "none"

HasDate(a) == event[a] = "arranged" \/ missed[a] = "arranged"

New(date) == IF date THEN "arranged" ELSE "unplaced"

\* An update leaves the date alone when it has none.
Updated(visit, date) == IF visit # "none" /\ date THEN "arranged" ELSE visit

\* What was past no longer is, once it is given a new date.
PastUpdated(group, date) ==
    [a \in Appeals |-> past[a] /\ ~(a \in group /\ HasVisit(a) /\ date)]

-----------------------------------------------------------------------------
(* A request comes in.                                                     *)

LoadPost(r, a) == \E date \in BOOLEAN : Receive(r, "post", a, date) /\ UNCHANGED missed

\* checkSiteVisitExists asks the request's copy.
LoadRearrange(r, a) ==
    /\ event[a] # "none"
    /\ \E date \in BOOLEAN : Receive(r, "rearrange", a, date)
    /\ UNCHANGED missed

LoadCancel(r, a) ==
    /\ event[a] # "none"
    /\ Receive(r, "cancel", a, FALSE)
    /\ UNCHANGED missed

\* The route that records a missed visit does not check that there is one.
LoadMissed(r, a) == Receive(r, "missed", a, FALSE) /\ UNCHANGED missed

Publish(r, a) == LoadPublish(r, a) /\ UNCHANGED missed

\* Mutant: the job selects leads only, and leaves the children to them.
LeadsDueForJob(today) ==
    {a \in Leads : currentStatus[a] = "awaiting_event" /\ HasDate(a) /\ (past[a] \/ a \in today)}

\* getAppealsWithCompletedEvents does not look at whoMissedSiteVisit.  It selects a
\* visit from its hour or day on, while the chart waits for the next day: the groups
\* whose visits are today are selected in vain.
DueForJob(today) ==
    {a \in Appeals : /\ currentStatus[a] = "awaiting_event" /\ HasDate(a)
                     /\ past[a] \/ LeadOf[a] \in today}

RunJob == \E today \in SUBSET Leads : LoadJob(DueForJob(today)) /\ UNCHANGED missed

-----------------------------------------------------------------------------
(* The visits are saved.                                                   *)

\* postSiteVisit asks for a missed visit, and rearranges that instead.
ReadMissed(r) ==
    LET q == request[r] IN
    /\ q.step = "loaded" /\ q.purpose = "post"
    /\ request' = [request EXCEPT ![r].step = "checked",
                                  ![r].purpose = IF missed[q.appeal] # "none"
                                                   THEN "rearrangeMissed" ELSE "post"]
    /\ UNCHANGED <<vars, mishaps, missed>>

\* An appeal has one visit: a second one is refused by the database.
CreateVisit(r) ==
    LET q == request[r] IN
    /\ q.step = "checked" /\ q.purpose = "post"
    /\ IF HasVisit(q.appeal)
         THEN /\ request' = [request EXCEPT ![r] = NoRequest]
              /\ UNCHANGED <<event, past>>
         ELSE /\ request' = [request EXCEPT ![r].step = "created"]
              /\ event' = [event EXCEPT ![q.appeal] = New(q.date)]
              /\ past' = [past EXCEPT ![q.appeal] = FALSE]
    /\ UNCHANGED <<kind, statusVars, proofs, personalList, call, mishaps, missed>>

\* Mutant: the visit is created for the lead only.
NoChildrenWithout(q) == {}

ChildrenWithout(q) == {b \in Children(q.appeal) : ~HasVisit(b)}

\* Mutant: a missed visit reopens only a case that still awaits it.
SendsWhileAwaiting(q) ==
    CASE q.purpose = "rearrange"                    -> q.reached /\ q.date
      [] q.purpose \in {"post", "rearrangeMissed"}  -> q.reached
      [] q.purpose \in {"cancel", "missed"}         -> q.status = "awaiting_event"

\* What a request sends once its visits are saved, from what it read: nothing,
\* or a trigger.  Only a rearrangement asks whether the request has a date.
Sends(q) ==
    CASE q.purpose = "rearrange"                    -> q.reached /\ q.date
      [] q.purpose \in {"post", "rearrangeMissed"}  -> q.reached
      [] q.purpose = "cancel"                       -> q.status = "awaiting_event"
      [] q.purpose = "missed" ->
            q.status \in {"awaiting_event", "issue_determination"}

\* Mutant: a cancellation completes the set-up.
TriggerUnlessMissed(q) == IF q.purpose = "missed" THEN "Incomplete" ELSE "Complete"

TriggerOf(q) == IF q.purpose \in {"cancel", "missed"} THEN "Incomplete" ELSE "Complete"

\* The visits are saved; the broadcasts and e-mails that follow may still fail.
Saved(r) ==
    LET q == request[r] IN
    request' = [request EXCEPT ![r] = IF Sends(q) THEN [q EXCEPT !.step = "saved",
                                                               !.trigger = TriggerOf(q)]
                                      ELSE NoRequest]

\* createSiteVisitForLinkedChildAppeals: every child without a visit gets one, a
\* child that has one makes the request fail.  The date is the lead's, and may have
\* gone by since the lead's visit was created.
CreateForChildren(r) ==
    LET q == request[r]
        without == ChildrenWithout(q)
    IN
    /\ q.step = "created"
    /\ event' = [a \in Appeals |-> IF a \in without THEN New(q.date) ELSE event[a]]
    /\ past' = [a \in Appeals |-> IF a \in without THEN past[q.appeal] ELSE past[a]]
    /\ IF \E b \in Children(q.appeal) : HasVisit(b)
         THEN request' = [request EXCEPT ![r] = NoRequest]
         ELSE Saved(r)
    /\ UNCHANGED <<kind, statusVars, proofs, personalList, call, mishaps, missed>>

\* updateSiteVisit: one updateMany for the group, missed visits among them, which
\* stay missed.  The entries of the group in the personal list are then worked
\* out again.
UpdateVisits(r) ==
    LET q == request[r]
        group == Members(q.appeal)
    IN
    /\ q.step = "loaded" /\ q.purpose = "rearrange"
    /\ event' = [a \in Appeals |-> IF a \in group THEN Updated(event[a], q.date) ELSE event[a]]
    /\ missed' = [a \in Appeals |-> IF a \in group THEN Updated(missed[a], q.date) ELSE missed[a]]
    /\ past' = PastUpdated(group, q.date)
    /\ personalList' = [a \in Appeals |-> IF a \in group THEN currentStatus[q.appeal]
                                                          ELSE personalList[a]]
    /\ Saved(r)
    /\ UNCHANGED <<kind, statusVars, proofs, call, mishaps>>

\* updateWhenSiteVisitMissed: the visits of the group are no longer missed.
UpdateMissed(r) ==
    LET q == request[r]
        group == Members(q.appeal)
    IN
    /\ q.step = "checked" /\ q.purpose = "rearrangeMissed"
    /\ event' = [a \in Appeals |->
                   IF a \in group
                     THEN Updated(IF missed[a] # "none" THEN missed[a] ELSE event[a], q.date)
                     ELSE event[a]]
    /\ missed' = [a \in Appeals |-> IF a \in group THEN "none" ELSE missed[a]]
    /\ past' = PastUpdated(group, q.date)
    /\ Saved(r)
    /\ UNCHANGED <<kind, statusVars, proofs, personalList, call, mishaps>>

\* deleteSiteVisit deletes the visits of the group, missed or not.
DeleteVisits(r) ==
    LET q == request[r]
        group == Members(q.appeal)
    IN
    /\ q.step = "loaded" /\ q.purpose = "cancel"
    /\ event' = [a \in Appeals |-> IF a \in group THEN "none" ELSE event[a]]
    /\ missed' = [a \in Appeals |-> IF a \in group THEN "none" ELSE missed[a]]
    /\ past' = [a \in Appeals |-> past[a] /\ a \notin group]
    /\ Saved(r)
    /\ UNCHANGED <<kind, statusVars, proofs, personalList, call, mishaps>>

\* recordMissedSiteVisit keeps the dates.
RecordMissed(r) ==
    LET q == request[r]
        group == Members(q.appeal)
    IN
    /\ q.step = "loaded" /\ q.purpose = "missed"
    /\ missed' = [a \in Appeals |-> IF a \in group /\ event[a] # "none" THEN event[a]
                                                                      ELSE missed[a]]
    /\ event' = [a \in Appeals |-> IF a \in group THEN "none" ELSE event[a]]
    /\ Saved(r)
    /\ UNCHANGED <<kind, statusVars, past, proofs, personalList, call, mishaps>>

-----------------------------------------------------------------------------
\* A broadcast or an e-mail throws once the visit is saved: the visits of the
\* children, or the moves, are never made.
NotifyFails(r) ==
    /\ Mishap
    /\ request[r].step \in {"created", "saved"}
    /\ request[r].purpose \notin {"publish", "job"}
    /\ request' = [request EXCEPT ![r] = NoRequest]
    /\ UNCHANGED <<vars, missed>>

\* The visits of a group have one date, which goes by for all of them ...
VisitsPast(a) ==
    /\ \E b \in Members(a) : HasDate(b) /\ ~past[b]
    /\ past' = [b \in Appeals |-> past[b] \/ (b \in Members(a) /\ HasDate(b))]
    /\ UNCHANGED <<kind, statusVars, event, proofs, personalList, call, request, missed>>

\* ... between two requests or, by mishap, in the middle of one.
VisitsPass(a) == VisitsPast(a) /\ (IF Quiet THEN UNCHANGED mishaps ELSE Mishap)

VisitStep(r) ==
    \/ ReadMissed(r) \/ CreateVisit(r) \/ CreateForChildren(r)
    \/ UpdateVisits(r) \/ UpdateMissed(r) \/ DeleteVisits(r) \/ RecordMissed(r)
    \/ MoveStep(r) /\ UNCHANGED missed

VisitWorking ==
    \/ \E r \in Requests, a \in Appeals :
          \/ LoadPost(r, a) \/ LoadRearrange(r, a) \/ LoadCancel(r, a) \/ LoadMissed(r, a)
          \/ Publish(r, a)
    \/ RunJob
    \/ \E r \in Requests : VisitStep(r)
    \/ \E a \in Leads : VisitsPass(a)

VisitFailing ==
    \/ \E r \in Requests, a \in Appeals : CallFails(r, a) /\ UNCHANGED missed
    \/ ProcessStops /\ UNCHANGED missed
    \/ \E r \in Requests : NotifyFails(r)

VisitNext == VisitWorking \/ VisitFailing

VisitSpec == VisitInit /\ [][VisitNext]_visitVars

\* Requests and calls run on, and the job's timer fires again and again, so that
\* the job runs though other requests are served in between.
FairVisitSpec ==
    /\ VisitSpec
    /\ WF_visitVars(\E r \in Requests : VisitStep(r))
    /\ SF_visitVars(RunJob)

-----------------------------------------------------------------------------
(* When no request is in progress and there was no mishap.                 *)

Settled == Quiet /\ mishaps = 0

\* The appeals of a group are at one stage: they move together
\* (transitionLinkedChildAppealsState is called before every move of a lead).
GroupTogether ==
    Settled => \A a \in Appeals : currentStatus[a] = currentStatus[LeadOf[a]]

\* An appeal that awaits its visit has one that was not missed: otherwise nothing
\* but a new visit would take it further.
AwaitedHasVisit ==
    Settled => \A a \in Appeals : currentStatus[a] = "awaiting_event" => event[a] # "none"

\* A missed visit reopens the set-up stage: an appeal whose visit was missed is
\* neither awaiting it nor up for decision.
MissedReopens ==
    Settled =>
        \A a \in Appeals :
            missed[a] # "none" => currentStatus[a] \notin {"awaiting_event", "issue_determination"}

-----------------------------------------------------------------------------
(* Whatever mishap.                                                        *)

\* The children are published with, or before, their lead: a child is never at a
\* representation stage that its lead has left.
ChildrenFirst ==
    \A a \in Appeals :
        /\ currentStatus[a] = "statements" => currentStatus[LeadOf[a]] = "statements"
        /\ currentStatus[a] = "final_comments" =>
              currentStatus[LeadOf[a]] \in {"statements", "final_comments"}

\* An appeal whose visit has taken place is concluded, unless the visit is given a
\* new date, is cancelled or was missed: the job comes to it, after the last
\* failure at the latest.
VisitConcluded ==
    \A a \in Appeals :
        (currentStatus[a] = "awaiting_event" /\ eventElapsed(a))
            ~> (currentStatus[a] # "awaiting_event" \/ ~eventElapsed(a))
=============================================================================
