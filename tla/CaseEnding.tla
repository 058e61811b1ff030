------------------------------ MODULE CaseEnding ------------------------------
(***************************************************************************)
(* The ways a case ends: the decision on a lead and its children, the      *)
(* withdrawal, the closing or invalidation of an appeal that is to be      *)
(* submitted again as one of another type, and its transfer.  Beside them  *)
(* a site visit may be recorded as missed, which reopens the case.         *)
(*                                                                         *)
(* Each of them stores why the case ends, then sends e-mails and at last   *)
(* calls transitionState, appeal by appeal.  A request works on an appeal  *)
(* in the slot <<request, appeal>>, which its call then takes; the parts   *)
(* of a decision on a group run in parallel and fail by themselves.        *)
(***************************************************************************)
EXTENDS SiteVisits

CONSTANTS
    Asked,          \* bound of a run: the appeals requests are for
    ChildOutcomes,  \* bound of a run: the outcomes children are decided with
    AfterTheEnd     \* bound of a run: are ended cases withdrawn, are visits missed?

VARIABLES
    decision,       \* the InspectorDecision of each appeal
    stored,         \* what else is stored that ends the case
    work            \* the work in progress

endingVars == <<visitVars, decision, stored, work>>

Decision == {"none", "allowed", "invalid"}

ASSUME EndingAssumption ==
    /\ Asked \subseteq Appeals
    /\ ChildOutcomes \subseteq Decision \ {"none"}
    /\ AfterTheEnd \in BOOLEAN

Ground ==
    {"withdrawalRequestDate", "caseResubmittedTypeId", "caseTransferredId", "invalidOutcome"}
Ending ==
    {"decide", "decideChild", "withdraw", "close", "resubmit", "transfer", "confirmTransfer"}

\* awaiting: did the request read that the appeal awaits its transfer?
Work ==
    [step : {"idle", "loaded", "resubmitted", "stored"}, ending : Ending,
     outcome : Decision, awaiting : BOOLEAN]

NoWork == [step |-> "idle", ending |-> "withdraw", outcome |-> "none", awaiting |-> FALSE]

EndingTypeOK ==
    /\ VisitTypeOK
    /\ decision \in [Appeals -> Decision]
    /\ stored \in [Appeals -> SUBSET Ground]
    /\ work \in [Calls -> Work]

\* The visit of each appeal has taken place.
EndingInit ==
    /\ CaseInit /\ NoRequests
    /\ event = [a \in Appeals |-> "arranged"]
    /\ past = [a \in Appeals |-> TRUE]
    /\ missed = [a \in Appeals |-> "none"]
    /\ decision = [a \in Appeals |-> "none"]
    /\ stored = [a \in Appeals |-> {}]
    /\ work = [k \in Calls |-> NoWork]

Ends(k) == work[k].step # "idle"

EndingTurn(r) == Turn(r) /\ \A k \in Calls : (Serialised \/ k[1] = r) => ~Ends(k)

\* A case that is to be transferred is left to the other system.
HasEnded(a) == currentStatus[a] \in FinalStatus \union {"awaiting_transfer"}

endingIdle == UNCHANGED <<decision, stored, work>>

-----------------------------------------------------------------------------
(* A request comes in.                                                     *)

Start(r, works) ==
    /\ EndingTurn(r)
    /\ work' = [k \in Calls |-> IF k[1] = r /\ k[2] \in DOMAIN works THEN works[k[2]] ELSE work[k]]
    /\ UNCHANGED <<visitVars, decision, stored>>

To(ending, outcome, a) ==
    [step |-> "loaded", ending |-> ending, outcome |-> outcome,
     awaiting |-> ending = "confirmTransfer" /\ currentStatus[a] = "awaiting_transfer"]

\* postInspectorDecision asks for the status of the lead and takes the decisions of
\* the group as they come, each with an outcome of its own: the lead's need not be
\* among them.  The web application offers this for a lead and its children only.
LoadDecide(r, a) ==
    /\ LeadOf[a] = a
    /\ currentStatus[a] = "issue_determination"
    /\ \E decided \in SUBSET Members(a) \ {{}} :
       \E outcome \in [decided -> Decision \ {"none"}] :
          /\ \A b \in decided \ {a} : outcome[b] \in ChildOutcomes
          /\ Start(r, [b \in decided |->
                         To(IF b = a THEN "decide" ELSE "decideChild", outcome[b], b)])

\* postWithdrawal does not look at the status.
LoadWithdraw(r, a) ==
    /\ AfterTheEnd \/ ~HasEnded(a)
    /\ Start(r, [b \in {a} |-> To("withdraw", "none", a)])

\* validateAppealStatus.
LoadNewType(r, a) ==
    /\ currentStatus[a] \notin {"closed", "complete", "invalid", "awaiting_transfer",
                               "transferred", "withdrawn"}
    /\ \E ending \in {"close", "resubmit", "transfer"} :
          Start(r, [b \in {a} |-> To(ending, "none", a)])

\* validateAppealStatusForTransfer.
LoadConfirmTransfer(r, a) ==
    /\ currentStatus[a] \in {"awaiting_transfer", "transferred"}
    /\ Start(r, [b \in {a} |-> To("confirmTransfer", "none", a)])

EndingMissed(r, a) ==
    /\ AfterTheEnd \/ ~HasEnded(a)
    /\ EndingTurn(r)
    /\ LoadMissed(r, a)
    /\ endingIdle

-----------------------------------------------------------------------------
(* Why the case ends is stored.                                            *)

Decides(k) == work[k].step = "loaded" /\ work[k].ending \in {"decide", "decideChild"}

\* Mutant: a decision that exists is updated.
UpsertDecision(k) ==
    /\ Decides(k)
    /\ decision' = [decision EXCEPT ![k[2]] = work[k].outcome]
    /\ work' = [work EXCEPT ![k].step = "stored"]
    /\ UNCHANGED <<visitVars, stored>>

\* Mutant: the error of a second decision is lost on the way.
StoreDecisionOnce(k) ==
    /\ Decides(k)
    /\ decision' = [decision EXCEPT ![k[2]] = IF @ = "none" THEN work[k].outcome ELSE @]
    /\ work' = [work EXCEPT ![k].step = "stored"]
    /\ UNCHANGED <<visitVars, stored>>

\* setAppealDecision: an appeal has one decision, a second is refused by the
\* database.
StoreDecision(k) ==
    /\ Decides(k)
    /\ IF decision[k[2]] = "none"
         THEN /\ decision' = [decision EXCEPT ![k[2]] = work[k].outcome]
              /\ work' = [work EXCEPT ![k].step = "stored"]
         ELSE /\ work' = [work EXCEPT ![k] = NoWork]
              /\ UNCHANGED decision
    /\ UNCHANGED <<visitVars, stored>>

GroundOf(ending) ==
    CASE ending = "withdraw"                        -> "withdrawalRequestDate"
      [] ending \in {"close", "resubmit", "transfer"} -> "caseResubmittedTypeId"
      [] ending = "confirmTransfer"                 -> "caseTransferredId"

\* The appeal is updated.  One that is resubmitted has its validation outcome
\* set next.
StoreGround(k) ==
    LET ending == work[k].ending IN
    /\ work[k].step = "loaded" /\ ending \notin {"decide", "decideChild"}
    /\ stored' = [stored EXCEPT ![k[2]] = @ \union {GroundOf(ending)}]
    /\ work' = [work EXCEPT ![k].step = IF ending = "resubmit" THEN "resubmitted" ELSE "stored"]
    /\ UNCHANGED <<visitVars, decision>>

StoreInvalidOutcome(k) ==
    /\ work[k].step = "resubmitted"
    /\ stored' = [stored EXCEPT ![k[2]] = @ \union {"invalidOutcome"}]
    /\ work' = [work EXCEPT ![k].step = "stored"]
    /\ UNCHANGED <<visitVars, decision>>

-----------------------------------------------------------------------------
(* The case is moved.                                                      *)

\* Mutant: the trigger of a completed review, which a decision is not.
TriggerOfReview(w) == "Complete"

\* A child that is decided is complete, whatever its outcome.
DecisionTrigger(w) ==
    IF w.ending = "decide" /\ w.outcome = "invalid" THEN "invalid" ELSE "complete"

EndTrigger(w) ==
    CASE w.ending \in {"decide", "decideChild"} -> DecisionTrigger(w)
      [] w.ending = "withdraw"                  -> "withdrawn"
      [] w.ending = "close"                     -> "closed"
      [] w.ending = "resubmit"                  -> "Invalid"
      [] w.ending = "transfer"                  -> "awaiting_transfer"
      [] w.ending = "confirmTransfer"           -> "transferred"

\* A transfer confirmed again only changes the reference.
EndsCase(w) == w.ending = "confirmTransfer" => w.awaiting

EndCase(k) ==
    /\ work[k].step = "stored"
    /\ call' = IF EndsCase(work[k])
                 THEN [call EXCEPT ![k] = CallFor(k[2], EndTrigger(work[k]))] ELSE call
    /\ work' = [work EXCEPT ![k] = NoWork]
    /\ UNCHANGED <<statusVars, eventVars, personalList, groupVars, missed, decision, stored>>

-----------------------------------------------------------------------------
(* Failures.                                                               *)

\* An e-mail or another query throws before the case is moved.
EndingFails(k) ==
    /\ Mishap
    /\ Ends(k)
    /\ work' = [work EXCEPT ![k] = NoWork]
    /\ UNCHANGED <<vars, request, missed, decision, stored>>

EndingStops ==
    /\ Mishap
    /\ \E k \in Calls : Ends(k) \/ InProgress(k)
    /\ call' = [k \in Calls |-> Idle]
    /\ request' = [r \in Requests |-> NoRequest]
    /\ work' = [k \in Calls |-> NoWork]
    /\ UNCHANGED <<statusVars, eventVars, personalList, missed, decision, stored>>

EndingNext ==
    \/ \E r \in Requests, a \in Asked :
          \/ LoadDecide(r, a) \/ LoadWithdraw(r, a) \/ LoadNewType(r, a)
          \/ LoadConfirmTransfer(r, a) \/ EndingMissed(r, a)
    \/ \E k \in Calls :
          \/ StoreDecision(k) \/ StoreGround(k) \/ StoreInvalidOutcome(k)
          \/ EndCase(k) \/ EndingFails(k)
    \/ \E r \in Requests : (RecordMissed(r) \/ NotifyFails(r)) /\ endingIdle
    \/ \E r \in Requests : MoveStep(r) /\ UNCHANGED missed /\ endingIdle
    \/ \E r \in Requests, a \in Appeals : CallFails(r, a) /\ UNCHANGED missed /\ endingIdle
    \/ EndingStops

EndingSpec == EndingInit /\ [][EndingNext]_endingVars

-----------------------------------------------------------------------------
\* The reason for a status that ends a case is stored.
HasGround(a, status) ==
    /\ status = "complete" => decision[a] # "none"
    /\ status = "invalid" => decision[a] = "invalid" \/ "invalidOutcome" \in stored[a]
    /\ status = "withdrawn" => "withdrawalRequestDate" \in stored[a]
    /\ status \in {"closed", "awaiting_transfer", "transferred"} =>
          "caseResubmittedTypeId" \in stored[a]
    /\ status = "transferred" => "caseTransferredId" \in stored[a]

\* Whatever overlaps or fails, a case that has ended has the reason stored:
\* a decision, a request of withdrawal, a type or a case to be submitted as.
EndHasGround == \A a \in Appeals : HasGround(a, currentStatus[a])

\* The status a decision is for (publishDecision, publishChildDecision).
OutcomeStatus(a) ==
    IF decision[a] = "invalid" /\ LeadOf[a] = a THEN "invalid" ELSE "complete"

AsDecided(a, status) ==
    decision[a] # "none" /\ status \in {"complete", "invalid"} =>
        \/ status = OutcomeStatus(a)
        \/ status = "invalid" /\ "invalidOutcome" \in stored[a]

\* A decided case that is complete or invalid is what its decision says, or was
\* resubmitted as invalid: of submissions that overlap, or are made again after a
\* failure, with other outcomes, the one that stored its decision ends the case.
EndsAsDecided == \A a \in Appeals : AsDecided(a, currentStatus[a])

\* When nothing is in progress and nothing has failed, a decided case has ended,
\* or is to be transferred, unless its visit was recorded as missed: that may be
\* while the decision is being issued, and reopens a case nobody can decide again.
DecidedHasEnded ==
    (Quiet /\ mishaps = 0 /\ \A k \in Calls : ~Ends(k)) =>
        \A a \in Appeals :
            decision[a] # "none" /\ missed[a] = "none" => HasEnded(a)
=============================================================================
