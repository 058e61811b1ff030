---------------------------- MODULE LinkedReview ----------------------------
(***************************************************************************)
(* Reviews of the LPA questionnaires of linked appeals.                    *)
(*                                                                         *)
(* Each appeal of a group has its own questionnaire and its own review.    *)
(* updateLPAQuestionnaireValidationOutcome records the outcome of one of   *)
(* them, looks at the outcomes of the whole group and, when all are        *)
(* complete, calls transitionState for every appeal of it in turn.  What   *)
(* it looks at was read partly when the request came in (the lead, for the *)
(* review of a child) and partly after its own write (the children).  An   *)
(* enforcement group has one questionnaire, its lead's.                    *)
(*                                                                         *)
(* A request holds the call slot of the same name while it runs.           *)
(***************************************************************************)
EXTENDS TransitionState

CONSTANTS
    Outcomes        \* the outcomes that reviewers give

ASSUME OutcomesAssumption == Outcomes \subseteq {"Incomplete", "Complete"}

VARIABLES
    outcome,        \* the validation outcome of each appeal's questionnaire
    review          \* the requests in progress

reviewVars == <<vars, outcome, review>>

Outcome == {"none", "Incomplete", "Complete"}

\* leadOutcome is the lead's outcome when the request came in; todo is what
\* is left of the list of appeals to move.
ReviewRecord ==
    [step : {"idle", "loaded", "recorded", "moving"}, appeal : Appeals,
     given : Outcome, leadOutcome : Outcome, todo : SUBSET Appeals]

NoReview ==
    [step |-> "idle", appeal |-> CHOOSE a \in Appeals : TRUE, given |-> "none",
     leadOutcome |-> "none", todo |-> {}]

Group(a) == {b \in Appeals : LeadOf[b] = LeadOf[a]}

\* Mutant: only a lead counts as linked.
isLeadAppeal(a) == Children(a) # {}

isLinkedAppeal(a) == Group(a) # {a}
isEnforcementNotice(a) == kind[a].type = "C"

\* The children of an enforcement lead have no questionnaire to review.
HasQuestionnaire(a) == isEnforcementNotice(a) => LeadOf[a] = a

ReviewTypeOK ==
    /\ TypeOK
    /\ outcome \in [Appeals -> Outcome]
    /\ review \in [Calls -> ReviewRecord]

ReviewInit ==
    /\ Init
    /\ \A a \in Appeals : kind[a] = kind[LeadOf[a]]
    /\ outcome = [a \in Appeals |-> "none"]
    /\ review = [k \in Calls |-> NoReview]

-----------------------------------------------------------------------------
Reviewing(k) == review[k].step # "idle"

\* Mutant: the stage is not looked at.
AtAnyStage(a) == currentStatus[a] \in Status

\* A review of an appeal that has left the questionnaire stage is refused.
AtQuestionnaire(a) == currentStatus[a] = "lpa_questionnaire"

\* The request comes in: the appeal, its lead and its children are read.
Load(k, a, given) ==
    /\ ~Reviewing(k)
    /\ Serialised => \A j \in Calls : ~Reviewing(j)
    /\ HasQuestionnaire(a)
    /\ AtQuestionnaire(a)
    /\ review' = [review EXCEPT ![k] =
                    [NoReview EXCEPT !.step = "loaded", !.appeal = a, !.given = given,
                                     !.leadOutcome = outcome[LeadOf[a]]]]
    /\ UNCHANGED <<vars, outcome>>

\* The outcome is recorded.  An incomplete questionnaire moves nothing, and an
\* appeal that is not linked is moved without more ado.  (An enforcement child
\* that does have a questionnaire is given its lead's outcome too; nothing here
\* reads it.)
Record(k) ==
    LET a == review[k].appeal IN
    /\ review[k].step = "loaded"
    /\ outcome' = [outcome EXCEPT ![a] = review[k].given]
    /\ review' = [review EXCEPT ![k] =
                    IF review[k].given = "Incomplete" THEN NoReview
                    ELSE IF isLinkedAppeal(a) THEN [@ EXCEPT !.step = "recorded"]
                    ELSE [@ EXCEPT !.step = "moving", !.todo = {a}]]
    /\ UNCHANGED vars

\* Mutant: the lead's outcome is the one read, its own review or not.
SeenAtLoad(k, b) == IF b = LeadOf[b] THEN review[k].leadOutcome ELSE outcome[b]

\* The outcome of b as the request sees it: what it gave itself, what its copy
\* of the lead said, what the database says of a child now.
Seen(k, b) ==
    CASE b = review[k].appeal -> review[k].given
      [] b # review[k].appeal /\ b = LeadOf[b] -> review[k].leadOutcome
      [] OTHER -> outcome[b]

\* Mutant: one complete questionnaire is enough.
someLpaQuestionnaireOutcomeIsComplete(k) ==
    \E b \in Group(review[k].appeal) : Seen(k, b) = "Complete"

allLpaQuestionnaireOutcomesAreComplete(k) ==
    \A b \in Group(review[k].appeal) : Seen(k, b) = "Complete" \/ isEnforcementNotice(b)

\* buildListOfLinkedAppeals, and what is to be done with the list: all of an
\* enforcement group moves, another group once it is complete.
ReadGroup(k) ==
    LET a == review[k].appeal
        moves == isEnforcementNotice(a) \/ allLpaQuestionnaireOutcomesAreComplete(k)
    IN
    /\ review[k].step = "recorded"
    /\ review' = [review EXCEPT ![k] =
                    IF moves THEN [@ EXCEPT !.step = "moving", !.todo = Group(a)]
                             ELSE NoReview]
    /\ UNCHANGED <<vars, outcome>>

\* Mutant: the calls are made in a loop that awaits none of them.
MoveNextAtOnce(k, b) ==
    /\ review[k].step = "moving"
    /\ b \in review[k].todo
    /\ call' = [call EXCEPT ![k] = [Idle EXCEPT !.step = "read", !.appeal = b,
                                               !.trigger = "Complete"]]
    /\ review' = [review EXCEPT ![k].todo = @ \ {b}]
    /\ UNCHANGED <<statusVars, eventVars, personalList, outcome>>

\* The next appeal of the list is moved, the lead after its children; the
\* previous call has returned.
MoveNext(k, b) ==
    /\ review[k].step = "moving"
    /\ b \in review[k].todo
    /\ LeadOf[b] = b => review[k].todo = {b}
    /\ Invoke(k, b, "Complete")
    /\ review' = [review EXCEPT ![k].todo = @ \ {b}]
    /\ UNCHANGED outcome

Respond(k) ==
    /\ review[k].step = "moving" /\ review[k].todo = {} /\ ~InProgress(k)
    /\ review' = [review EXCEPT ![k] = NoReview]
    /\ UNCHANGED <<vars, outcome>>

\* The process stops or a query fails: the call in progress, if any, is lost
\* and so is what was left to do.
Stop(k) ==
    /\ Reviewing(k)
    /\ review' = [review EXCEPT ![k] = NoReview]
    /\ call' = [call EXCEPT ![k] = Idle]
    /\ UNCHANGED <<statusVars, eventVars, personalList, outcome>>

\* A review moves appeals forward only, so its calls never roll back.
CallStepOf(k) == Step(k) /\ UNCHANGED <<outcome, review>>

ReviewStep(k) ==
    \/ Record(k) \/ ReadGroup(k) \/ Respond(k)
    \/ \E b \in Appeals : MoveNext(k, b)
    \/ CallStepOf(k)

ReviewWorking ==
    \E k \in Calls : ReviewStep(k) \/ \E a \in Appeals, given \in Outcomes : Load(k, a, given)

ReviewNext == ReviewWorking \/ \E k \in Calls : Stop(k)

ReviewSpec == ReviewInit /\ [][ReviewNext]_reviewVars

\* No process stops and no query fails.
SteadyReviewSpec == ReviewInit /\ [][ReviewWorking]_reviewVars

-----------------------------------------------------------------------------
Quiet == \A k \in Calls : ~Reviewing(k)

\* An appeal leaves the questionnaire stage only while the questionnaires of
\* its whole group are complete (docs/linked-appeals.md, LPAQ).
GroupLeavesComplete ==
    [][\A a \in Appeals :
          currentStatus[a] = "lpa_questionnaire" /\ currentStatus'[a] # "lpa_questionnaire" =>
              \A b \in Group(a) : HasQuestionnaire(b) => outcome[b] = "Complete"]_reviewVars

\* When no review is in progress, no appeal is left behind at the
\* questionnaire stage of a group whose questionnaires are all complete.
NoneLeftBehind ==
    Quiet =>
        \A a \in Appeals :
            (\A b \in Group(a) : HasQuestionnaire(b) => outcome[b] = "Complete") =>
                currentStatus[a] # "lpa_questionnaire"

\* When no review is in progress, the appeals of a group are at the same
\* stage: they all transitioned or none did.
GroupTogether ==
    Quiet => \A a \in Appeals : currentStatus[a] = currentStatus[LeadOf[a]]

\* Reviewing questionnaires takes a case to the stage after them and no
\* further: the statements stage is left when the statements have been reviewed
\* too (docs/linked-appeals.md, LPAQ and Statements).
OneStageOnly ==
    \A a \in Appeals : currentStatus[a] \in {"lpa_questionnaire", "statements", "event"}

\* Reviews are callers of transitionState such as TransitionState describes: they
\* move an appeal by its calls alone, start a call only in a slot that is free, and
\* leave a call they have started to run to its end or be lost.
ImplementsTransitionState == Spec
=============================================================================
