------------------------------ MODULE GroupMove ------------------------------
(***************************************************************************)
(* A lead appeal and the children linked to it are moved by one request:   *)
(* transitionLinkedChildAppealsState starts a call of transitionState for  *)
(* every child that was at the lead's status when the request read them,   *)
(* all at once; when the last has returned the lead's call is made.        *)
(*                                                                         *)
(* A call that fails makes Promise.all reject at once, and the request     *)
(* with it, while the calls for the other children run on with nobody      *)
(* waiting for them.  Two requests that do no more than this are here: the *)
(* publication of representations and the completed events job.            *)
(*                                                                         *)
(* Requests are for leads.  The routes take a child as well, but the web   *)
(* application offers these actions for a lead, which drives its group.    *)
(***************************************************************************)
EXTENDS TransitionState, Functions

CONSTANTS
    Requests,       \* slots for requests in progress
    MaxMishaps      \* bound of a run: mishaps

\* A request has a call of its own for each appeal it moves.
ASSUME GroupAssumption ==
    /\ Calls = Requests \X Appeals
    /\ MaxMishaps \in Nat

VARIABLES
    request,        \* the requests in progress
    mishaps         \* failures so far, and dates that went by at a bad moment

groupVars == <<request, mishaps>>

RequestStep == {"idle", "loaded", "checked", "created", "saved", "children", "lead"}
Purpose == {"publish", "job", "post", "rearrange", "rearrangeMissed", "cancel", "missed"}

\* What a request read of the lead and its children when it came in: the status,
\* whether the status rows contain the event, the children at the same status.
\* date is the visit date of its body, given or not.
Request ==
    [step : RequestStep, purpose : Purpose, appeal : Appeals, status : Status,
     reached : BOOLEAN, followers : SUBSET Appeals, trigger : Trigger, date : BOOLEAN]

NoRequest ==
    [step |-> "idle", purpose |-> "job", appeal |-> CHOOSE a \in Appeals : TRUE,
     status |-> "assign_case_officer", reached |-> FALSE, followers |-> {},
     trigger |-> "Complete", date |-> FALSE]

GroupTypeOK ==
    /\ TypeOK
    /\ request \in [Requests -> Request]
    /\ mishaps \in 0..MaxMishaps

NoRequests ==
    /\ request = [r \in Requests |-> NoRequest]
    /\ mishaps = 0

Busy(r) == request[r].step # "idle"

\* Calls of an earlier request may still run when the request is over.
Free(r) == ~Busy(r) /\ \A a \in Appeals : ~InProgress(<<r, a>>)

Leads == {a \in Appeals : LeadOf[a] = a}

Members(a) == {a} \union Children(a)

\* The children whose status was the lead's.
followersOf(a) == {b \in Children(a) : currentStatus[b] = currentStatus[a]}

-----------------------------------------------------------------------------
(* A request comes in.                                                     *)

\* What a request for a is once it has read a and its children.
Loaded(purpose, a, date) ==
    [NoRequest EXCEPT !.step = "loaded", !.purpose = purpose, !.appeal = a,
                      !.status = currentStatus[a], !.date = date,
                      !.reached = RowsWith(history[a], "event") # {},
                      !.followers = followersOf(a)]

Turn(r) == Free(r) /\ (Serialised => \A q \in Requests : Free(q))

Receive(r, purpose, a, date) ==
    /\ Turn(r)
    /\ LeadOf[a] = a
    /\ request' = [request EXCEPT ![r] = Loaded(purpose, a, date)]
    /\ UNCHANGED <<vars, mishaps>>

\* Statements and final comments are published once: an appeal that has left the
\* stage is refused with a conflict.  The representations, and the e-mails,
\* whose errors are only logged, change nothing that is modelled here.
LoadPublish(r, a) ==
    /\ currentStatus[a] \in {"statements", "final_comments"}
    /\ Turn(r)
    /\ LeadOf[a] = a
    /\ request' = [request EXCEPT ![r] = [Loaded("publish", a, FALSE) EXCEPT !.step = "saved"]]
    /\ UNCHANGED <<vars, mishaps>>

\* One query of the job selects all appeals whose event is over, children in
\* their own right; each is then moved as if by a request of its own.
LoadJob(selected) ==
    \E slot \in Injection(selected, Requests) :
        /\ selected # {}
        /\ \A a \in selected : Turn(slot[a])
        /\ request' = [r \in Requests |->
                         IF \E a \in selected : slot[a] = r
                           THEN [Loaded("job", CHOOSE a \in selected : slot[a] = r, FALSE)
                                   EXCEPT !.step = "saved"]
                           ELSE request[r]]
        /\ UNCHANGED <<vars, mishaps>>

-----------------------------------------------------------------------------
(* The group is moved.                                                     *)

CallFor(a, trigger) == [Idle EXCEPT !.step = "read", !.appeal = a, !.trigger = trigger]

\* transitionLinkedChildAppealsState.
MoveChildren(r) ==
    LET q == request[r] IN
    /\ q.step = "saved"
    /\ call' = [k \in Calls |-> IF k[1] = r /\ k[2] \in q.followers
                                  THEN CallFor(k[2], q.trigger) ELSE call[k]]
    /\ request' = [request EXCEPT ![r].step = "children"]
    /\ UNCHANGED <<statusVars, eventVars, personalList, mishaps>>

\* Mutant: the lead does not wait for its children.
ChildrenStarted(r) == request[r].step = "children"

ChildrenMoved(r) ==
    /\ request[r].step = "children"
    /\ \A b \in request[r].followers : ~InProgress(<<r, b>>)

MoveLead(r) ==
    LET q == request[r] IN
    /\ ChildrenMoved(r)
    /\ call' = [call EXCEPT ![<<r, q.appeal>>] = CallFor(q.appeal, q.trigger)]
    /\ request' = [request EXCEPT ![r].step = "lead"]
    /\ UNCHANGED <<statusVars, eventVars, personalList, mishaps>>

Respond(r) ==
    /\ request[r].step = "lead" /\ ~InProgress(<<r, request[r].appeal>>)
    /\ request' = [request EXCEPT ![r] = NoRequest]
    /\ UNCHANGED <<vars, mishaps>>

\* The call is about to find that the row to roll back to is gone.
RowGone(k) ==
    /\ call[k].step = "write" /\ call[k].passed
    /\ RowsWith(history[call[k].appeal], call[k].newState) = {}

\* A call takes its next step; if it throws, so does its request.
CallStepOf(r, a) ==
    /\ Step(<<r, a>>)
    /\ request' = [request EXCEPT ![r] = IF RowGone(<<r, a>>) THEN NoRequest ELSE @]
    /\ UNCHANGED mishaps

-----------------------------------------------------------------------------
(* Failures.                                                               *)

Mishap == mishaps < MaxMishaps /\ mishaps' = mishaps + 1

\* A query of a call fails.  The error of a lead's call that publishStatements
\* logs leaves the same behind as one that makes the request fail.
CallFails(r, a) ==
    /\ Mishap
    /\ InProgress(<<r, a>>)
    /\ call' = [call EXCEPT ![<<r, a>>] = Idle]
    /\ request' = [request EXCEPT ![r] = NoRequest]
    /\ UNCHANGED <<statusVars, eventVars, personalList>>

\* The API process stops, and all it was doing with it.
ProcessStops ==
    /\ Mishap
    /\ \E r \in Requests : ~Free(r)
    /\ call' = [k \in Calls |-> Idle]
    /\ request' = [r \in Requests |-> NoRequest]
    /\ UNCHANGED <<statusVars, eventVars, personalList>>

MoveStep(r) ==
    \/ MoveChildren(r) \/ MoveLead(r) \/ Respond(r)
    \/ \E a \in Appeals : CallStepOf(r, a)

-----------------------------------------------------------------------------
\* No request is in progress and no call runs on after one.
Quiet == \A r \in Requests : Free(r)
=============================================================================
