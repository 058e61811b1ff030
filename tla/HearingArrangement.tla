------------------------- MODULE HearingArrangement -------------------------
(***************************************************************************)
(* Setting up, rearranging and cancelling the hearing or the inquiry of an *)
(* appeal, beside the publication of its statements and of its proofs of   *)
(* evidence and the completed events job.  The handlers of hearings and of *)
(* inquiries are twins, and "hearing" stands for either below.             *)
(*                                                                         *)
(* Each of them is a request that reads the appeal when it comes in, and   *)
(* decides from that copy, after its own write to the hearing and after    *)
(* its broadcast and e-mails, which trigger to send to transitionState.    *)
(* Meanwhile others change the hearing and the status.  A request holds    *)
(* the call slot of the same name while it runs.                           *)
(***************************************************************************)
EXTENDS TransitionState

CONSTANTS
    MaxHearings     \* bound of a run: hearings created for an appeal

\* The module models the hearings of appeals that are not linked: with an address, or
\* still without one.
ASSUME ArrangementAssumption ==
    /\ MaxHearings \in Nat
    /\ Events = {"unplaced", "arranged"}
    /\ \A k \in Kinds : k.procedure \in {"hearing", "inquiry"}
    /\ \A a \in Appeals : LeadOf[a] = a

VARIABLES
    hearingId,      \* the id of the latest hearing created for each appeal
    request         \* the requests in progress

arrangementVars == <<vars, hearingId, request>>

\* A rearrangement gives an address, removes it (null) or leaves it out of the
\* request, which is what the web application does when it is unchanged.
Address == {"given", "removed", "unchanged"}

\* had and reached are what the request read: did the hearing have an address,
\* and had the appeal reached its event?  id is the hearing it names.
Request ==
    [step : {"idle", "loaded", "checked", "saved", "moving"},
     what : {"post", "rearrange", "cancel", "statements", "proofs", "job"},
     appeal : Appeals, address : Address, id : Nat,
     had : BOOLEAN, reached : BOOLEAN]

NoRequest ==
    [step |-> "idle", what |-> "job", appeal |-> CHOOSE a \in Appeals : TRUE,
     address |-> "unchanged", id |-> 0, had |-> FALSE, reached |-> FALSE]

ArrangementTypeOK ==
    /\ TypeOK
    /\ hearingId \in [Appeals -> Nat]
    /\ request \in [Calls -> Request]

ArrangementInit ==
    /\ Init
    /\ hearingId = [a \in Appeals |-> 0]
    /\ request = [k \in Calls |-> NoRequest]

-----------------------------------------------------------------------------
(* A request comes in.                                                     *)

Busy(k) == request[k].step # "idle"

\* Mutant: the stage is not looked at.
atAnyStage(a) == history[a] # << >>

\* The status rows of the request's copy of the appeal contain the event.
reachedEvent(a) == RowsWith(history[a], "event") # {}

hearingExists(a, id) == event[a] # "none" /\ hearingId[a] = id

Receive(k, what, a, address, step) ==
    /\ ~Busy(k)
    /\ Serialised => \A j \in Calls : ~Busy(j)
    /\ request' = [request EXCEPT ![k] =
                     [NoRequest EXCEPT !.step = step, !.what = what, !.appeal = a,
                                       !.address = address, !.id = hearingId[a],
                                       !.reached = reachedEvent(a)]]
    /\ UNCHANGED <<vars, hearingId>>

\* A hearing is set up with or without an address.
LoadPost(k, a) ==
    \E address \in {"given", "removed"} : Receive(k, "post", a, address, "loaded")

\* checkHearingExists: the hearing named is the one of the request's copy.
LoadRearrange(k, a) ==
    /\ event[a] # "none"
    /\ \E address \in Address : Receive(k, "rearrange", a, address, "checked")

\* deleteHearingDateValidator: a hearing that has begun cannot be cancelled.  Begun
\* and over are not told apart here, so one that has begun may be.
LoadCancel(k, a) ==
    /\ event[a] # "none" /\ ~past[a]
    /\ Receive(k, "cancel", a, "removed", "loaded")

\* Statements are published once: an appeal that has left the stage is refused
\* with a conflict.  The statements and the e-mails, whose errors are only
\* logged, change nothing that is modelled here.
LoadPublishStatements(k, a) ==
    /\ currentStatus[a] = "statements"
    /\ Receive(k, "statements", a, "unchanged", "saved")

\* So are the proofs of evidence of an inquiry.
LoadPublishProofs(k, a) ==
    /\ currentStatus[a] = "evidence"
    /\ Receive(k, "proofs", a, "unchanged", "loaded")

\* The job selects the appeals awaiting an event that has begun.  The
\* model lets it select any that has an event: the chart asks whether that is over.
LoadJob(k, a) ==
    /\ currentStatus[a] = "awaiting_event" /\ event[a] # "none"
    /\ Receive(k, "job", a, "unchanged", "saved")

-----------------------------------------------------------------------------
(* The hearing is saved.                                                   *)

Saved(k) == request' = [request EXCEPT ![k].step = "saved"]
Refused(k) == request' = [request EXCEPT ![k] = NoRequest]

\* An appeal has one hearing: a second one is refused by the database.
CreateHearing(k) ==
    LET r == request[k]
        a == r.appeal
    IN
    /\ r.step = "loaded" /\ r.what = "post"
    /\ IF event[a] = "none"
         THEN /\ hearingId[a] < MaxHearings
              /\ event' = [event EXCEPT ![a] = IF r.address = "given" THEN "arranged"
                                                                     ELSE "unplaced"]
              /\ past' = [past EXCEPT ![a] = FALSE]
              /\ hearingId' = [hearingId EXCEPT ![a] = @ + 1]
              /\ Saved(k)
         ELSE Refused(k) /\ UNCHANGED <<event, past, hearingId>>
    /\ UNCHANGED <<kind, statusVars, proofs, personalList, call>>

\* rearrangeHearing reads the hearing again before it updates it.
ReadHearing(k) ==
    LET r == request[k] IN
    /\ r.step = "checked"
    /\ request' = [request EXCEPT ![k].step = "loaded",
                                  ![k].had = hearingExists(r.appeal, r.id)
                                               /\ event[r.appeal] = "arranged"]
    /\ UNCHANGED <<vars, hearingId>>

\* Mutant: an update leaves the date alone.
KeepDate(a) == UNCHANGED past

\* A date to come, or one that goes by next.
SetDate(a) == past' = [past EXCEPT ![a] = FALSE]

\* The update always sets the date, and the address when the request has one or
\* removes it.
UpdateHearing(k) ==
    LET r == request[k]
        a == r.appeal
    IN
    /\ r.step = "loaded" /\ r.what = "rearrange"
    /\ IF hearingExists(a, r.id)
         THEN /\ event' = [event EXCEPT ![a] = CASE r.address = "given" -> "arranged"
                                                 [] r.address = "removed" -> "unplaced"
                                                 [] r.address = "unchanged" -> @]
              /\ SetDate(a)
              /\ Saved(k)
         ELSE Refused(k) /\ UNCHANGED <<event, past>>
    /\ UNCHANGED <<kind, statusVars, proofs, personalList, call, hearingId>>

DeleteHearing(k) ==
    LET r == request[k]
        a == r.appeal
    IN
    /\ r.step = "loaded" /\ r.what = "cancel"
    /\ IF hearingExists(a, r.id)
         THEN /\ event' = [event EXCEPT ![a] = "none"]
              /\ past' = [past EXCEPT ![a] = FALSE]
              /\ Saved(k)
         ELSE Refused(k) /\ UNCHANGED <<event, past>>
    /\ UNCHANGED <<kind, statusVars, proofs, personalList, call, hearingId>>

\* A published proof of evidence no longer counts as reviewed.
PublishProofs(k) ==
    /\ request[k].step = "loaded" /\ request[k].what = "proofs"
    /\ proofs' = [proofs EXCEPT ![request[k].appeal] = FALSE]
    /\ Saved(k)
    /\ UNCHANGED <<kind, statusVars, event, past, personalList, call, hearingId>>

-----------------------------------------------------------------------------
(* The case is moved.                                                      *)

NoTrigger == "none"

\* Mutant: a rearrangement never completes the set-up.
TriggerAfterPostOnly(r) ==
    CASE r.what \in {"statements", "proofs", "job"} -> "Complete"
      [] r.what = "cancel" -> "Cancel"
      [] r.what = "post" /\ r.reached /\ r.address = "given" -> "Complete"
      [] r.what = "rearrange" /\ r.reached /\ r.address # "given" /\ r.had -> "Incomplete"
      [] OTHER -> NoTrigger

\* Which trigger follows, from what the request read.
TriggerAfter(r) ==
    CASE r.what \in {"statements", "proofs", "job"} -> "Complete"
      [] r.what = "cancel" -> "Cancel"
      [] r.what = "post" /\ r.reached /\ r.address = "given" -> "Complete"
      [] r.what = "rearrange" /\ r.reached /\ r.address = "given" /\ ~r.had -> "Complete"
      [] r.what = "rearrange" /\ r.reached /\ r.address # "given" /\ r.had -> "Incomplete"
      [] OTHER -> NoTrigger

\* The broadcast and the e-mails have gone out.
Proceed(k) ==
    LET r == request[k]
        trigger == TriggerAfter(r)
    IN
    /\ r.step = "saved"
    /\ IF trigger = NoTrigger
         THEN Refused(k) /\ UNCHANGED vars
         ELSE Invoke(k, r.appeal, trigger) /\ request' = [request EXCEPT ![k].step = "moving"]
    /\ UNCHANGED hearingId

Respond(k) ==
    /\ request[k].step = "moving" /\ ~InProgress(k)
    /\ request' = [request EXCEPT ![k] = NoRequest]
    /\ UNCHANGED <<vars, hearingId>>

\* A broadcast or an e-mail throws once the hearing is saved: the response is
\* an error and the case is not moved.
NotifyFails(k) ==
    /\ request[k].step = "saved" /\ request[k].what \in {"post", "rearrange", "cancel"}
    /\ request' = [request EXCEPT ![k] = NoRequest]
    /\ UNCHANGED <<vars, hearingId>>

CallStepOf(k) == Step(k) /\ UNCHANGED <<hearingId, request>>

RequestStep(k) ==
    \/ CreateHearing(k) \/ ReadHearing(k) \/ UpdateHearing(k) \/ DeleteHearing(k)
    \/ PublishProofs(k) \/ Proceed(k) \/ Respond(k) \/ CallStepOf(k)

\* The hearing's time goes by.
HearingPasses(a) == TimePasses(a) /\ UNCHANGED <<hearingId, request>>

ProofsReviewed(a) == ReviewProofs(a) /\ UNCHANGED <<hearingId, request>>

ArrangementWorking ==
    \/ \E k \in Calls, a \in Appeals :
          LoadPost(k, a) \/ LoadRearrange(k, a) \/ LoadCancel(k, a)
             \/ LoadPublishStatements(k, a) \/ LoadPublishProofs(k, a) \/ LoadJob(k, a)
    \/ \E k \in Calls : RequestStep(k)
    \/ \E a \in Appeals : HearingPasses(a) \/ ProofsReviewed(a)

ArrangementNext == ArrangementWorking \/ \E k \in Calls : NotifyFails(k)

ArrangementSpec == ArrangementInit /\ [][ArrangementNext]_arrangementVars

\* Nothing fails.
SteadyArrangementSpec == ArrangementInit /\ [][ArrangementWorking]_arrangementVars

\* Requests run on once they are received, and the job's timer fires again and
\* again, so that the job comes to be received though other requests do too.
FairArrangementSpec ==
    /\ SteadyArrangementSpec
    /\ \A k \in Calls : WF_arrangementVars(RequestStep(k))
    /\ \A a \in Appeals : SF_arrangementVars(\E k \in Calls : LoadJob(k, a))

-----------------------------------------------------------------------------
Quiet == \A k \in Calls : ~Busy(k)

\* A case whose hearing is set up, with its address, does not stay at the
\* set-up stage once the requests have been answered: it awaits the hearing.
SetUpMovesOn ==
    Quiet => \A a \in Appeals : currentStatus[a] = "event" => event[a] # "arranged"

\* A case that awaits its hearing, the requests being answered, has a hearing
\* with an address: otherwise nothing will ever conclude it.
AwaitedIsSetUp ==
    Quiet => \A a \in Appeals : currentStatus[a] = "awaiting_event" => event[a] = "arranged"

\* Only the publication takes a case out of its statements stage: a hearing set
\* up, rearranged or cancelled early leaves the representations to be finished.
StatementsLeftByPublication ==
    [][\A a \in Appeals :
          currentStatus[a] = "statements" /\ currentStatus'[a] # "statements" =>
              \E k \in Calls : request[k].what = "statements" /\ request[k].appeal = a
                                  /\ request[k].step = "moving"]_arrangementVars

\* A case whose hearing is over is concluded, unless the hearing is given a new
\* date or is cancelled: the job comes to it.
HearingConcluded ==
    \A a \in Appeals :
        (currentStatus[a] = "awaiting_event" /\ past[a])
            ~> (currentStatus[a] # "awaiting_event" \/ ~past[a])

\* Requests, and what becomes of a hearing, are the callers and the environment of
\* TransitionState: they move a case by its calls alone, and whatever they do to a
\* hearing between two steps of a call is what TransitionState allows for.
ImplementsTransitionState == Spec
=============================================================================
