------------------------- MODULE LinkedReview_proofs -------------------------
(***************************************************************************)
(* Proofs about the reviews of questionnaires, for groups of any size and  *)
(* number and any number of reviewers.                                     *)
(***************************************************************************)
EXTENDS LinkedReview, SerialTransition_proofs

ReviewTypes == RowsInv /\ ReviewTypeOK

\* An appeal is in its own group, and its lead's group is its own.
LEMMA GroupFacts ==
    ASSUME NEW a \in Appeals
    PROVE  /\ LeadOf[a] \in Appeals /\ a \in Group(a) /\ LeadOf[a] \in Group(a)
           /\ Group(a) \subseteq Appeals
           /\ \A b \in Group(a) : LeadOf[b] = LeadOf[a] /\ Group(b) = Group(a)
BY AppealsAssumption DEF Group

\* A free slot is a review of nothing.
LEMMA NoReviewFacts ==
    /\ NoReview \in ReviewRecord /\ NoReview.step = "idle"
    /\ NoReview.leadOutcome = "none" /\ NoReview.todo = {}
<1>1. (CHOOSE a \in Appeals : TRUE) \in Appeals
  BY AppealsAssumption
<1> QED BY <1>1 DEF NoReview, ReviewRecord, Outcome

\* The types a step of a review finds.
LEMMA ReviewFinds ==
    ASSUME ReviewTypes
    PROVE  /\ outcome \in [Appeals -> Outcome] /\ review \in [Calls -> ReviewRecord]
           /\ call \in [Calls -> CallRecord]
           /\ \A k \in Calls : /\ review[k].appeal \in Appeals /\ review[k].given \in Outcome
                               /\ review[k].leadOutcome \in Outcome
                               /\ review[k].todo \in SUBSET Appeals
                               /\ call[k].appeal \in Appeals
BY DEF ReviewTypes, ReviewTypeOK, TypeOK, ReviewRecord, CallRecord

\* What each step leaves in the slot of its review, in words of the record.
LEMMA LoadLeaves ==
    ASSUME ReviewTypes, NEW k \in Calls, NEW a \in Appeals, NEW given \in Outcomes,
           Load(k, a, given)
    PROVE  /\ review'[k] \in ReviewRecord
           /\ review'[k].step = "loaded" /\ review'[k].appeal = a /\ review'[k].given = given
           /\ review'[k].leadOutcome = outcome[LeadOf[a]] /\ review'[k].todo = {}
           /\ \A j \in Calls \ {k} : review'[j] = review[j]
           /\ review' = [review EXCEPT ![k] = review'[k]]
<1> DEFINE r == [NoReview EXCEPT !.step = "loaded", !.appeal = a, !.given = given,
                                 !.leadOutcome = outcome[LeadOf[a]]]
<1>1. review' = [review EXCEPT ![k] = r] /\ review \in [Calls -> ReviewRecord]
  BY ReviewFinds DEF Load
<1>2. given \in Outcome /\ outcome[LeadOf[a]] \in Outcome
  BY ReviewFinds, GroupFacts, OutcomesAssumption DEF Outcome
<1>3. /\ r \in ReviewRecord /\ r.step = "loaded" /\ r.appeal = a /\ r.given = given
      /\ r.leadOutcome = outcome[LeadOf[a]] /\ r.todo = {}
  BY <1>2, NoReviewFacts DEF ReviewRecord
<1> HIDE DEF r
<1> QED BY <1>1, <1>3

\* Recording the outcome leaves the review over, before the barrier or moving.
LEMMA RecordLeaves ==
    ASSUME ReviewTypes, NEW k \in Calls, Record(k)
    PROVE  /\ review' = [review EXCEPT ![k] = review'[k]]
           /\ review'[k] \in ReviewRecord
           /\ \A j \in Calls \ {k} : review'[j] = review[j]
           /\ \/ review'[k] = NoReview /\ review[k].given = "Incomplete"
              \/ /\ review[k].given # "Incomplete"
                 /\ review'[k].appeal = review[k].appeal /\ review'[k].given = review[k].given
                 /\ review'[k].leadOutcome = review[k].leadOutcome
                 /\ \/ review'[k].step = "recorded"
                    \/ /\ review'[k].step = "moving" /\ ~isLinkedAppeal(review[k].appeal)
                       /\ review'[k].todo = {review[k].appeal}
<1> DEFINE r == review[k]
           a == r.appeal
           recorded == [r EXCEPT !.step = "recorded"]
           moving == [r EXCEPT !.step = "moving", !.todo = {a}]
<1>1. r \in ReviewRecord /\ a \in Appeals /\ review \in [Calls -> ReviewRecord]
  BY ReviewFinds
<1>2. /\ recorded \in ReviewRecord /\ recorded.step = "recorded" /\ recorded.appeal = a
      /\ recorded.given = r.given /\ recorded.leadOutcome = r.leadOutcome
  BY <1>1 DEF ReviewRecord
<1>3. /\ moving \in ReviewRecord /\ moving.step = "moving" /\ moving.appeal = a
      /\ moving.given = r.given /\ moving.leadOutcome = r.leadOutcome /\ moving.todo = {a}
  BY <1>1 DEF ReviewRecord
<1>4. \/ review' = [review EXCEPT ![k] = NoReview] /\ r.given = "Incomplete"
      \/ review' = [review EXCEPT ![k] = recorded] /\ r.given # "Incomplete"
      \/ /\ review' = [review EXCEPT ![k] = moving] /\ r.given # "Incomplete"
         /\ ~isLinkedAppeal(a)
  BY <1>1 DEF Record
<1> HIDE DEF recorded, moving
<1> QED BY <1>1, <1>2, <1>3, <1>4, NoReviewFacts

\* So does looking at the group: over or moving all of it.
LEMMA ReadGroupLeaves ==
    ASSUME ReviewTypes, NEW k \in Calls, ReadGroup(k)
    PROVE  /\ review' = [review EXCEPT ![k] = review'[k]]
           /\ review'[k] \in ReviewRecord
           /\ \A j \in Calls \ {k} : review'[j] = review[j]
           /\ LET moves == \/ isEnforcementNotice(review[k].appeal)
                           \/ allLpaQuestionnaireOutcomesAreComplete(k)
              IN  \/ review'[k] = NoReview /\ ~moves
                  \/ /\ moves /\ review'[k].step = "moving"
                     /\ review'[k].appeal = review[k].appeal
                     /\ review'[k].given = review[k].given
                     /\ review'[k].leadOutcome = review[k].leadOutcome
                     /\ review'[k].todo = Group(review[k].appeal)
<1> DEFINE r == review[k]
           moves == isEnforcementNotice(r.appeal) \/ allLpaQuestionnaireOutcomesAreComplete(k)
           moving == [r EXCEPT !.step = "moving", !.todo = Group(r.appeal)]
<1>1. r \in ReviewRecord /\ r.appeal \in Appeals /\ review \in [Calls -> ReviewRecord]
      /\ Group(r.appeal) \in SUBSET Appeals
  BY ReviewFinds, GroupFacts
<1>2. /\ moving \in ReviewRecord /\ moving.step = "moving" /\ moving.appeal = r.appeal
      /\ moving.given = r.given /\ moving.leadOutcome = r.leadOutcome
      /\ moving.todo = Group(r.appeal)
  BY <1>1 DEF ReviewRecord
<1>3. \/ review' = [review EXCEPT ![k] = NoReview] /\ ~moves
      \/ review' = [review EXCEPT ![k] = moving] /\ moves
  BY <1>1 DEF ReadGroup
<1> HIDE DEF moving, moves
<1>4. \/ review'[k] = NoReview /\ ~moves
      \/ review'[k] = moving /\ moves
  BY <1>1, <1>3
<1>5. review' = [review EXCEPT ![k] = review'[k]] /\ review'[k] \in ReviewRecord
      /\ \A j \in Calls \ {k} : review'[j] = review[j]
  BY <1>1, <1>2, <1>3, NoReviewFacts
<1> QED BY <1>2, <1>4, <1>5 DEF moves

\* Moving an appeal takes it off the list and starts the call for it.
LEMMA MoveNextLeaves ==
    ASSUME ReviewTypes, NEW k \in Calls, NEW b \in Appeals, MoveNext(k, b)
    PROVE  /\ review' = [review EXCEPT ![k] = review'[k]]
           /\ review'[k] \in ReviewRecord
           /\ \A j \in Calls \ {k} : review'[j] = review[j]
           /\ review'[k].step = "moving" /\ review'[k].appeal = review[k].appeal
           /\ review'[k].given = review[k].given
           /\ review'[k].leadOutcome = review[k].leadOutcome
           /\ review'[k].todo = review[k].todo \ {b}
           /\ call'[k].step = "read" /\ call'[k].appeal = b /\ call'[k].trigger = "Complete"
           /\ \A j \in Calls \ {k} : call'[j] = call[j]
           /\ UNCHANGED <<statusVars, eventVars, outcome>>
<1> DEFINE r == review[k]
           next == [r EXCEPT !.todo = @ \ {b}]
           c == [Idle EXCEPT !.step = "read", !.appeal = b, !.trigger = "Complete"]
<1>1. r \in ReviewRecord /\ review \in [Calls -> ReviewRecord] /\ call \in [Calls -> CallRecord]
      /\ r.step = "moving"
  BY ReviewFinds DEF MoveNext
<1>2. /\ next \in ReviewRecord /\ next.step = "moving" /\ next.appeal = r.appeal
      /\ next.given = r.given /\ next.leadOutcome = r.leadOutcome /\ next.todo = r.todo \ {b}
  BY <1>1 DEF ReviewRecord
<1>3. c.step = "read" /\ c.appeal = b /\ c.trigger = "Complete"
  BY IdleFacts DEF CallRecord
<1>4. review' = [review EXCEPT ![k] = next] /\ call' = [call EXCEPT ![k] = c]
      /\ UNCHANGED <<statusVars, eventVars, outcome>>
  BY <1>1 DEF MoveNext, Invoke
<1> HIDE DEF next, c
<1> QED BY <1>1, <1>2, <1>3, <1>4

-----------------------------------------------------------------------------
(* Types and rows, however reviews overlap, stop or fail.                  *)

\* Before the first review the types and the rows are as they should be.
LEMMA ReviewStart == ReviewInit => ReviewTypes
<1> SUFFICES ASSUME ReviewInit PROVE ReviewTypes
  OBVIOUS
<1>1. RowsInv
  BY RowsInit DEF ReviewInit
<1> QED BY <1>1, NoReviewFacts DEF ReviewInit, ReviewTypes, ReviewTypeOK, RowsInv, Outcome

\* A step that leaves all but the call of its slot alone keeps the rows.
LEMMA StopRows == ASSUME ReviewTypes, NEW k \in Calls, Stop(k) PROVE RowsInv'
<1>1. /\ history \in [Appeals -> Seq(StatusRow)] /\ currentStatus \in [Appeals -> Status]
      /\ personalList \in [Appeals -> Status \union {NoEntry}]
  BY DEF ReviewTypes, RowsInv, TypeOK
<1> QED BY <1>1, IdleFacts, CallTypeKept, RowsUntouched
       DEF Stop, ReviewTypes, RowsInv, statusVars

\* Every step keeps the types and the agreement of rows and column.
LEMMA ReviewTypesNext == ReviewTypes /\ [ReviewNext]_reviewVars => ReviewTypes'
<1> SUFFICES ASSUME ReviewTypes, [ReviewNext]_reviewVars PROVE ReviewTypes'
  OBVIOUS
<1> USE ReviewFinds
<1>1. ASSUME NEW k \in Calls, NEW a \in Appeals, NEW given \in Outcomes, Load(k, a, given)
      PROVE  ReviewTypes'
  <2>1. RowsInv'
    BY <1>1, RowsNext DEF Load, ReviewTypes
  <2> QED BY <1>1, <2>1, LoadLeaves DEF Load, ReviewTypes, ReviewTypeOK, RowsInv
<1>2. ASSUME NEW k \in Calls, Record(k)
      PROVE  ReviewTypes'
  <2>1. RowsInv'
    BY <1>2, RowsNext DEF Record, ReviewTypes
  <2>2. outcome' \in [Appeals -> Outcome]
    BY <1>2 DEF Record
  <2> QED BY <1>2, <2>1, <2>2, RecordLeaves DEF ReviewTypes, ReviewTypeOK, RowsInv
<1>3. ASSUME NEW k \in Calls, ReadGroup(k)
      PROVE  ReviewTypes'
  <2>1. RowsInv'
    BY <1>3, RowsNext DEF ReadGroup, ReviewTypes
  <2> QED BY <1>3, <2>1, ReadGroupLeaves DEF ReadGroup, ReviewTypes, ReviewTypeOK, RowsInv
<1>4. ASSUME NEW k \in Calls, NEW b \in Appeals, MoveNext(k, b)
      PROVE  ReviewTypes'
  <2>1. "Complete" \in Triggers
    BY <1>4 DEF MoveNext, Invoke, TriggersFor
  <2>2. RowsInv'
    BY <1>4, <2>1, RowsInvoke DEF MoveNext, ReviewTypes
  <2> QED BY <1>4, <2>2, MoveNextLeaves DEF MoveNext, ReviewTypes, ReviewTypeOK, RowsInv
<1>5. ASSUME NEW k \in Calls, Respond(k) \/ Stop(k)
      PROVE  ReviewTypes'
  <2>1. RowsInv'
    BY <1>5, RowsNext, StopRows DEF Respond, ReviewTypes
  <2>2. review' \in [Calls -> ReviewRecord] /\ UNCHANGED outcome
    BY <1>5, NoReviewFacts DEF Respond, Stop
  <2> QED BY <2>1, <2>2 DEF ReviewTypes, ReviewTypeOK, RowsInv
<1>6. ASSUME NEW k \in Calls, CallStepOf(k)
      PROVE  ReviewTypes'
  <2>1. RowsInv'
    BY <1>6, RowsNext DEF CallStepOf, ReviewTypes, Next, Working
  <2> QED BY <1>6, <2>1 DEF CallStepOf, ReviewTypes, ReviewTypeOK, RowsInv
<1>7. CASE UNCHANGED reviewVars
  <2>1. RowsInv'
    BY <1>7, RowsNext DEF reviewVars, ReviewTypes
  <2> QED BY <1>7, <2>1 DEF reviewVars, ReviewTypes, ReviewTypeOK, RowsInv
<1> QED BY <1>1, <1>2, <1>3, <1>4, <1>5, <1>6, <1>7 DEF ReviewNext, ReviewWorking, ReviewStep

\* Every variable keeps its type, however reviews overlap, stop or fail.
THEOREM ReviewTypeCorrect == ReviewSpec => []ReviewTypeOK
<1>1. ReviewTypes => ReviewTypeOK
  BY DEF ReviewTypes
<1> QED BY <1>1, ReviewStart, ReviewTypesNext, PTL DEF ReviewSpec

-----------------------------------------------------------------------------
(* A group leaves complete.  An outcome that is given while others move    *)
(* the group could undo one that they saw: what is needed is that reviews  *)
(* come one at a time, or that none of them gives Incomplete.              *)

NoneUndone == Serialised \/ "Incomplete" \notin Outcomes

GroupComplete(a) == \A b \in Group(a) : HasQuestionnaire(b) => outcome[b] = "Complete"

\* What a review knows by the step it is at.
ReviewKnows(k) ==
    LET r == review[k] IN
    /\ Reviewing(k) => HasQuestionnaire(r.appeal) /\ r.given \in Outcomes
    /\ Reviewing(k) /\ r.leadOutcome = "Complete" => outcome[LeadOf[r.appeal]] = "Complete"
    /\ r.step \in {"recorded", "moving"} =>
          r.given = "Complete" /\ outcome[r.appeal] = "Complete"
    /\ r.step = "moving" => GroupComplete(r.appeal) /\ r.todo \subseteq Group(r.appeal)
    /\ InProgress(k) => r.step = "moving" /\ call[k].appeal \in Group(r.appeal)

OneReview == Serialised => \A j, k \in Calls : Reviewing(j) /\ Reviewing(k) => j = k

SameKinds == \A a \in Appeals : kind[a] = kind[LeadOf[a]]

KnowingInv == ReviewTypes /\ SameKinds /\ OneReview /\ \A k \in Calls : ReviewKnows(k)

\* Nothing is known, or needs to be, before the first review.
LEMMA KnowingStart == ReviewInit => KnowingInv
<1> SUFFICES ASSUME ReviewInit PROVE KnowingInv
  OBVIOUS
<1>1. ReviewTypes
  BY ReviewStart
<1>2. \A k \in Calls : review[k].step = "idle" /\ call[k].step = "idle"
  BY NoReviewFacts, IdleFacts DEF ReviewInit, Init, CaseInit
<1> QED BY <1>1, <1>2 DEF ReviewInit, KnowingInv, SameKinds, OneReview, ReviewKnows, Reviewing,
       InProgress

\* A review that sees every outcome of its group complete is right: what it gave and
\* what it read of the lead still stand.
LEMMA BarrierIsRight ==
    ASSUME KnowingInv, NEW k \in Calls, review[k].step = "recorded",
           \/ isEnforcementNotice(review[k].appeal)
           \/ allLpaQuestionnaireOutcomesAreComplete(k)
    PROVE  GroupComplete(review[k].appeal)
<1> DEFINE r == review[k]
           a == r.appeal
<1>1. /\ a \in Appeals /\ ReviewKnows(k) /\ Reviewing(k) /\ HasQuestionnaire(a)
      /\ r.given = "Complete" /\ outcome[a] = "Complete"
      /\ r.leadOutcome = "Complete" => outcome[LeadOf[a]] = "Complete"
  BY ReviewFinds DEF KnowingInv, ReviewKnows, Reviewing
<1> SUFFICES ASSUME NEW b \in Group(a), HasQuestionnaire(b)
             PROVE  outcome[b] = "Complete"
  BY DEF GroupComplete
<1>2. b \in Appeals /\ LeadOf[a] \in Appeals /\ LeadOf[b] = LeadOf[a]
  BY <1>1, GroupFacts
<1>3. kind[b] = kind[a]
  BY <1>1, <1>2 DEF KnowingInv, SameKinds
<1>4. CASE isEnforcementNotice(a)
  <2>1. LeadOf[a] = a /\ LeadOf[b] = b
    BY <1>1, <1>3, <1>4 DEF HasQuestionnaire, isEnforcementNotice
  <2> QED BY <1>1, <1>2, <2>1
<1>5. CASE ~isEnforcementNotice(a)
  <2>1. Seen(k, b) = "Complete"
    BY <1>3, <1>5 DEF allLpaQuestionnaireOutcomesAreComplete, isEnforcementNotice
  <2> QED BY <1>1, <1>2, <2>1 DEF Seen
<1> QED BY <1>4, <1>5

\* What a review that a step leaves alone knows is still so when no outcome that was
\* complete is undone.
LEMMA KnowingKept ==
    ASSUME KnowingInv, NEW k \in Calls, review'[k] = review[k],
           InProgress(k)' => InProgress(k) /\ call'[k].appeal = call[k].appeal,
           UNCHANGED kind,
           \A b \in Appeals : outcome[b] = "Complete" => outcome'[b] = "Complete"
    PROVE  ReviewKnows(k)'
<1>1. ReviewKnows(k) /\ review[k].appeal \in Appeals
  BY ReviewFinds DEF KnowingInv
<1>2. LeadOf[review[k].appeal] \in Appeals
  BY <1>1, GroupFacts
<1>3. Group(review[k].appeal) \subseteq Appeals
  BY <1>1, GroupFacts
<1>4. GroupComplete(review[k].appeal) => GroupComplete(review[k].appeal)'
  BY <1>1, <1>3 DEF GroupComplete, HasQuestionnaire, isEnforcementNotice, Group
<1>5. HasQuestionnaire(review[k].appeal) => HasQuestionnaire(review[k].appeal)'
  BY DEF HasQuestionnaire, isEnforcementNotice
<1>6. Group(review[k].appeal)' = Group(review[k].appeal)
  BY DEF Group
<1> QED BY <1>1, <1>2, <1>4, <1>5, <1>6 DEF ReviewKnows, Reviewing

\* A review that is over knows nothing, and has no call in progress.
LEMMA KnowingNothing ==
    ASSUME NEW k \in Calls, review'[k].step = "idle", call'[k].step = "idle"
    PROVE  ReviewKnows(k)'
BY DEF ReviewKnows, Reviewing, InProgress

\* While a review is before its first call, its slot has no call.
LEMMA NoCallYet ==
    ASSUME KnowingInv, NEW k \in Calls, review[k].step # "moving"
    PROVE  call[k].step = "idle"
BY DEF KnowingInv, ReviewKnows, InProgress

\* Recording an outcome keeps what all reviews know.
LEMMA KnowingRecord ==
    ASSUME NoneUndone, KnowingInv, NEW k \in Calls, Record(k), NEW j \in Calls
    PROVE  ReviewKnows(j)'
<1> DEFINE r == review[k]
<1>0. PICK a \in Appeals : a = r.appeal
  BY ReviewFinds DEF KnowingInv
<1>1. /\ r.step = "loaded" /\ Reviewing(k) /\ a \in Appeals /\ ReviewKnows(k)
      /\ r.given \in {"Incomplete", "Complete"} /\ r.given \in Outcomes
      /\ outcome' = [outcome EXCEPT ![a] = r.given] /\ outcome \in [Appeals -> Outcome]
      /\ UNCHANGED <<kind, call>> /\ call[k].step = "idle"
  BY <1>0, ReviewFinds, OutcomesAssumption, NoCallYet
     DEF Record, KnowingInv, ReviewKnows, Reviewing, vars
<1>2. CASE j = k /\ r.given = "Incomplete"
  <2>1. review'[k] = NoReview
    BY <1>2, RecordLeaves DEF KnowingInv
  <2> QED BY <1>1, <1>2, <2>1, NoReviewFacts, KnowingNothing
<1>3. CASE j = k /\ r.given # "Incomplete"
  <2>1. /\ review'[k].appeal = a /\ review'[k].given = "Complete"
        /\ review'[k].leadOutcome = r.leadOutcome
        /\ \/ review'[k].step = "recorded"
           \/ /\ review'[k].step = "moving" /\ ~isLinkedAppeal(a)
              /\ review'[k].todo = {a}
    BY <1>0, <1>1, <1>3, RecordLeaves, NoReviewFacts DEF KnowingInv
  <2>2. outcome'[a] = "Complete"
    BY <1>1, <1>3
  <2>3. LeadOf[a] \in Appeals
    BY <1>1, GroupFacts
  <2>4. r.leadOutcome = "Complete" => outcome'[LeadOf[a]] = "Complete"
    BY <1>0, <1>1, <1>3, <2>3 DEF ReviewKnows
  <2>5. ~isLinkedAppeal(a) => GroupComplete(a)' /\ {a} \subseteq Group(a)
    BY <1>1, <2>2, GroupFacts DEF isLinkedAppeal, GroupComplete, Group
  <2>6. HasQuestionnaire(a)'
    BY <1>0, <1>1 DEF ReviewKnows, HasQuestionnaire, isEnforcementNotice
  <2>7. Group(a)' = Group(a)
    BY DEF Group
  <2> QED BY <1>1, <1>3, <2>1, <2>2, <2>4, <2>5, <2>6, <2>7
         DEF ReviewKnows, Reviewing, InProgress
<1>4. CASE j # k
  <2>1. review'[j] = review[j]
    BY <1>4, RecordLeaves DEF KnowingInv
  <2>2. CASE Reviewing(j)
    <3>1. "Incomplete" \notin Outcomes
      BY <1>1, <1>4, <2>2 DEF NoneUndone, KnowingInv, OneReview
    <3>2. \A b \in Appeals : outcome[b] = "Complete" => outcome'[b] = "Complete"
      BY <1>1, <3>1
    <3> QED BY <1>1, <2>1, <3>2, KnowingKept DEF InProgress
  <2>3. CASE ~Reviewing(j)
    <3>1. review[j].step # "moving" /\ review'[j].step = "idle"
      BY <2>1, <2>3 DEF Reviewing
    <3>2. call'[j].step = "idle"
      BY <1>1, <3>1, NoCallYet
    <3> QED BY <3>1, <3>2, KnowingNothing
  <2> QED BY <2>2, <2>3
<1> QED BY <1>2, <1>3, <1>4

\* So does every other step: none of them changes an outcome.
LEMMA KnowingOther ==
    ASSUME KnowingInv, UNCHANGED <<kind, outcome>>, NEW k \in Calls,
           \/ \E a \in Appeals, given \in Outcomes : Load(k, a, given)
           \/ ReadGroup(k) \/ (\E b \in Appeals : MoveNext(k, b))
           \/ Respond(k) \/ Stop(k) \/ CallStepOf(k),
           NEW j \in Calls
    PROVE  ReviewKnows(j)'
<1> USE ReviewFinds
<1>1. ReviewTypes /\ ReviewKnows(k) /\ review[k].appeal \in Appeals
  BY DEF KnowingInv
<1>2. ASSUME NEW a \in Appeals, NEW given \in Outcomes, Load(k, a, given)
      PROVE  ReviewKnows(j)'
  <2>1. UNCHANGED call /\ HasQuestionnaire(a) /\ review[k].step # "moving"
    BY <1>2 DEF Load, vars, Reviewing
  <2>2. CASE j = k
    <3>1. call'[k].step = "idle"
      BY <2>1, NoCallYet
    <3>2. HasQuestionnaire(a)'
      BY <2>1 DEF HasQuestionnaire, isEnforcementNotice
    <3>3. /\ review'[k].step = "loaded" /\ review'[k].appeal = a /\ review'[k].given = given
          /\ review'[k].leadOutcome = outcome[LeadOf[a]]
      BY <1>1, <1>2, LoadLeaves
    <3> QED BY <2>2, <3>1, <3>2, <3>3 DEF ReviewKnows, Reviewing, InProgress
  <2>3. CASE j # k
    <3>1. review'[j] = review[j]
      BY <1>1, <1>2, <2>3, LoadLeaves
    <3> QED BY <1>1, <2>1, <3>1, KnowingKept DEF KnowingInv, InProgress
  <2> QED BY <2>2, <2>3
<1>3. CASE ReadGroup(k)
  <2>1. UNCHANGED call /\ review[k].step = "recorded"
    BY <1>3 DEF ReadGroup, vars
  <2>2. call'[k].step = "idle"
    BY <2>1, NoCallYet
  <2>3. CASE j = k /\ review'[k] = NoReview
    BY <2>2, <2>3, NoReviewFacts, KnowingNothing
  <2>4. CASE j = k /\ review'[k] # NoReview
    <3>0. PICK a \in Appeals : a = review[k].appeal
      BY <1>1
    <3>1. /\ \/ isEnforcementNotice(a)
             \/ allLpaQuestionnaireOutcomesAreComplete(k)
          /\ review'[k].step = "moving" /\ review'[k].appeal = a
          /\ review'[k].given = review[k].given
          /\ review'[k].leadOutcome = review[k].leadOutcome
          /\ review'[k].todo = Group(a)
      BY <1>1, <1>3, <2>4, <3>0, ReadGroupLeaves
    <3>2. GroupComplete(a)
      BY <2>1, <3>0, <3>1, BarrierIsRight
    <3>3. GroupComplete(a)' /\ (HasQuestionnaire(a) => HasQuestionnaire(a)') /\ Group(a)' = Group(a)
      BY <3>2 DEF GroupComplete, HasQuestionnaire, isEnforcementNotice, Group
    <3> QED BY <1>1, <2>1, <2>2, <2>4, <3>0, <3>1, <3>3 DEF ReviewKnows, Reviewing, InProgress
  <2>5. CASE j # k
    BY <1>1, <1>3, <2>1, <2>5, ReadGroupLeaves, KnowingKept DEF InProgress
  <2> QED BY <2>3, <2>4, <2>5
<1>4. ASSUME NEW b \in Appeals, MoveNext(k, b)
      PROVE  ReviewKnows(j)'
  <2>1. review[k].step = "moving" /\ b \in review[k].todo
    BY <1>4 DEF MoveNext
  <2>2. CASE j = k
    <3>0. PICK a \in Appeals : a = review[k].appeal
      BY <1>1
    <3>1. /\ review'[k].step = "moving" /\ review'[k].appeal = a
          /\ review'[k].given = review[k].given
          /\ review'[k].leadOutcome = review[k].leadOutcome
          /\ review'[k].todo = review[k].todo \ {b}
          /\ call'[k].appeal = b
      BY <1>1, <1>4, <3>0, MoveNextLeaves
    <3>2. /\ GroupComplete(a) => GroupComplete(a)'
          /\ HasQuestionnaire(a) => HasQuestionnaire(a)'
          /\ Group(a)' = Group(a)
      BY DEF GroupComplete, HasQuestionnaire, isEnforcementNotice, Group
    <3> QED BY <1>1, <2>1, <2>2, <3>0, <3>1, <3>2 DEF ReviewKnows, Reviewing
  <2>3. CASE j # k
    BY <1>1, <1>4, <2>3, MoveNextLeaves, KnowingKept DEF InProgress
  <2> QED BY <2>2, <2>3
<1>5. CASE Respond(k) \/ Stop(k)
  <2>1. /\ review' = [review EXCEPT ![k] = NoReview]
        /\ call'[k].step = "idle" /\ \A i \in Calls \ {k} : call'[i] = call[i]
    BY <1>1, <1>5, IdleFacts DEF Respond, Stop, InProgress, vars
  <2>2. CASE j = k
    BY <1>1, <2>1, <2>2, NoReviewFacts, KnowingNothing
  <2>3. CASE j # k
    BY <1>1, <2>1, <2>3, KnowingKept DEF InProgress
  <2> QED BY <2>2, <2>3
<1>6. CASE CallStepOf(k)
  <2>1. InProgress(j)' => InProgress(j) /\ call'[j].appeal = call[j].appeal
    BY <1>1, <1>6, StepStays DEF CallStepOf, ReviewTypes, RowsInv, InProgress
  <2> QED BY <1>6, <2>1, KnowingKept DEF CallStepOf
<1> QED BY <1>2, <1>3, <1>4, <1>5, <1>6

\* Reviews come one at a time when they are serialised.
LEMMA OneReviewNext ==
    ASSUME KnowingInv, [ReviewNext]_reviewVars
    PROVE  OneReview'
<1>1. CASE \A k \in Calls : Reviewing(k)' => Reviewing(k)
  BY <1>1 DEF KnowingInv, OneReview
<1>2. CASE \E k \in Calls : Reviewing(k)' /\ ~Reviewing(k)
  <2>1. PICK k \in Calls : Reviewing(k)' /\ ~Reviewing(k)
    BY <1>2
  <2>2. ASSUME NEW i \in Calls, NEW b \in Appeals,
               \/ Record(i) \/ ReadGroup(i) \/ MoveNext(i, b) \/ Respond(i) \/ CallStepOf(i)
               \/ Stop(i)
        PROVE  FALSE
    <3>1. Reviewing(i) \/ UNCHANGED review
      BY <2>2 DEF Record, ReadGroup, MoveNext, Respond, CallStepOf, Stop, Reviewing
    <3>2. \A j \in Calls \ {i} : review'[j] = review[j]
      BY <2>2, ReviewFinds
         DEF Record, ReadGroup, MoveNext, Respond, CallStepOf, Stop, KnowingInv
    <3> QED BY <2>1, <3>1, <3>2 DEF Reviewing
  <2>3. ~UNCHANGED review
    BY <2>1 DEF Reviewing
  <2>4. PICK i \in Calls, a \in Appeals, given \in Outcomes : Load(i, a, given)
    BY <2>2, <2>3, AppealsAssumption DEF ReviewNext, ReviewWorking, ReviewStep, reviewVars
  <2>5. /\ Serialised => \A j \in Calls : ~Reviewing(j)
        /\ \A j \in Calls \ {i} : review'[j] = review[j]
    BY <2>4, LoadLeaves DEF Load, KnowingInv
  <2> QED BY <2>5 DEF OneReview, Reviewing
<1> QED BY <1>1, <1>2

\* Every step keeps what the reviews know.
LEMMA KnowingNext == NoneUndone /\ KnowingInv /\ [ReviewNext]_reviewVars => KnowingInv'
<1> SUFFICES ASSUME NoneUndone, KnowingInv, [ReviewNext]_reviewVars PROVE KnowingInv'
  OBVIOUS
<1>1. ReviewTypes'
  BY ReviewTypesNext DEF KnowingInv
<1>2. OneReview'
  BY OneReviewNext
<1>3. CASE \E k \in Calls : Record(k)
  <2>1. UNCHANGED kind
    BY <1>3 DEF Record, vars
  <2> QED BY <1>1, <1>2, <1>3, <2>1, KnowingRecord DEF KnowingInv, SameKinds
<1>4. ASSUME NEW k \in Calls,
             \/ \E a \in Appeals, given \in Outcomes : Load(k, a, given)
             \/ ReadGroup(k) \/ (\E b \in Appeals : MoveNext(k, b))
             \/ Respond(k) \/ Stop(k) \/ CallStepOf(k)
      PROVE  KnowingInv'
  <2>1. UNCHANGED kind
    BY <1>4, StepStays DEF Load, ReadGroup, MoveNext, Invoke, Respond, Stop, CallStepOf,
       vars, eventVars, KnowingInv, ReviewTypes, RowsInv
  <2>2. UNCHANGED outcome
    BY <1>4 DEF Load, ReadGroup, MoveNext, Respond, Stop, CallStepOf
  <2> QED BY <1>1, <1>2, <1>4, <2>1, <2>2, KnowingOther DEF KnowingInv, SameKinds
<1>5. CASE UNCHANGED reviewVars
  <2>1. /\ UNCHANGED <<kind, outcome, review, call>>
    BY <1>5 DEF reviewVars, vars
  <2> QED BY <1>1, <1>2, <2>1, KnowingKept DEF KnowingInv, SameKinds, InProgress
<1> QED BY <1>3, <1>4, <1>5 DEF ReviewNext, ReviewWorking, ReviewStep

\* A call that writes the status of an appeal is one of a review that knows its group
\* to be complete.
LEMMA LeavesComplete ==
    KnowingInv /\ [ReviewNext]_reviewVars =>
        \A a \in Appeals :
            currentStatus[a] = "lpa_questionnaire" /\ currentStatus'[a] # "lpa_questionnaire" =>
                GroupComplete(a)
<1> SUFFICES ASSUME KnowingInv, [ReviewNext]_reviewVars, NEW a \in Appeals,
                    currentStatus'[a] # currentStatus[a]
             PROVE  GroupComplete(a)
  OBVIOUS
<1>1. PICK k \in Calls : CallStepOf(k)
  BY DEF ReviewNext, ReviewWorking, ReviewStep, Load, Record, ReadGroup, MoveNext, Invoke, Respond,
     Stop, reviewVars, vars, statusVars
<1>2. Step(k) /\ ~ReadAppeal(k) /\ TypeOK
  BY <1>1 DEF CallStepOf, ReadAppeal, statusVars, KnowingInv, ReviewTypes, RowsInv
<1>3. call[k].step = "write" /\ call[k].appeal = a
  BY <1>2, StepWrites, ReviewFinds DEF statusVars, KnowingInv, TypeOK
<1>4. /\ a \in Group(review[k].appeal) /\ GroupComplete(review[k].appeal)
      /\ review[k].appeal \in Appeals
  BY <1>3, ReviewFinds DEF KnowingInv, ReviewKnows, InProgress
<1> QED BY <1>4, GroupFacts DEF GroupComplete

\* An appeal leaves the questionnaire stage only while the questionnaires of its whole
\* group are complete, whichever reviews overlap, stop or fail, unless one of those that
\* overlap gives Incomplete.
THEOREM GroupCorrect ==
    ASSUME NoneUndone
    PROVE  ReviewSpec => GroupLeavesComplete
<1>1. KnowingInv /\ [ReviewNext]_reviewVars =>
         [\A a \in Appeals :
             currentStatus[a] = "lpa_questionnaire" /\ currentStatus'[a] # "lpa_questionnaire" =>
                 \A b \in Group(a) : HasQuestionnaire(b) => outcome[b] = "Complete"]_reviewVars
  BY LeavesComplete DEF GroupComplete
<1> QED BY <1>1, KnowingStart, KnowingNext, PTL DEF ReviewSpec, GroupLeavesComplete

-----------------------------------------------------------------------------
(* A group moves together.  This needs reviews that come one at a time and *)
(* do not fail; of the appeals, that they come from before the stages that *)
(* a review takes them to.                                                 *)

FromQuestionnaire ==
    /\ StartPath[Len(StartPath)] = "lpa_questionnaire"
    /\ \A i \in DOMAIN StartPath : StartPath[i] \notin {"statements", "event"}

\* Where a review takes an appeal, which has no event yet.
Target(a) == targetStateOnLpaqComplete(kind[a].type, kind[a].procedure, FALSE)

NoEvents == \A a \in Appeals : event[a] = "none"

StatusesKnown ==
    \A a \in Appeals :
        /\ currentStatus[a] \in {"lpa_questionnaire", Target(a)}
        /\ currentStatus[a] = "lpa_questionnaire" => RowsWith(history[a], Target(a)) = {}

Moving(a) == \E k \in Calls : review[k].step = "moving" /\ a \in Group(review[k].appeal)

\* The appeals of a group that no review is moving are at one stage.
Together == \A a \in Appeals : ~Moving(a) => currentStatus[a] = currentStatus[LeadOf[a]]

\* The review that completed a group moves it.
NotForgotten ==
    \A a \in Appeals :
        GroupComplete(a) /\ currentStatus[a] = "lpa_questionnaire" =>
            \E k \in Calls : review[k].step \in {"recorded", "moving"}
                               /\ a \in Group(review[k].appeal)

\* What is so of the group of a review by the step it and its call are at.
GroupKnown(k) ==
    LET r == review[k]
        c == call[k]
    IN
    /\ r.step \in {"loaded", "recorded"} => currentStatus[r.appeal] = "lpa_questionnaire"
    /\ Reviewing(k) => LeadOf[r.appeal] = r.appeal \/ r.leadOutcome = outcome[LeadOf[r.appeal]]
    /\ r.step = "moving" =>
          \A b \in Group(r.appeal) :
              IF b \in r.todo THEN currentStatus[b] = "lpa_questionnaire"
              ELSE currentStatus[b] = Target(b) \/ (c.step \in {"read", "write"} /\ c.appeal = b)
    /\ InProgress(k) => c.appeal \notin r.todo /\ c.step # "proofs"
    /\ c.step = "read" => c.trigger = "Complete" /\ currentStatus[c.appeal] = "lpa_questionnaire"
    /\ c.step = "write" => /\ c.newState = Target(c.appeal) /\ ~c.passed /\ ~c.arranged
                           /\ currentStatus[c.appeal] = "lpa_questionnaire"

TogetherParts ==
    NoEvents /\ StatusesKnown /\ Together /\ NotForgotten /\ \A k \in Calls : GroupKnown(k)

TogetherInv == KnowingInv /\ TogetherParts

\* A review takes an appeal to its statements, or to its event if it has none.
LEMMA TargetFacts ==
    ASSUME NEW a \in Appeals
    PROVE  /\ Target(a) \in {"statements", "event"}
           /\ Target(a) # "lpa_questionnaire"
           /\ NextStatusOf(a, FALSE, "lpa_questionnaire", "Complete") = Target(a)
BY DEF Target, targetStateOnLpaqComplete, NextStatusOf, NextStatus, FinalStatus, WorkingStatus

\* Nothing has moved before the first review.
LEMMA TogetherStart == FromQuestionnaire /\ ReviewInit => TogetherInv
<1> SUFFICES ASSUME FromQuestionnaire, ReviewInit PROVE TogetherInv
  OBVIOUS
<1>1. KnowingInv
  BY KnowingStart
<1>2. \A a \in Appeals : /\ currentStatus[a] = "lpa_questionnaire" /\ history[a] = StartHistory
                          /\ event[a] = "none" /\ outcome[a] = "none"
  BY DEF ReviewInit, Init, CaseInit, FromQuestionnaire
<1>3. \A k \in Calls : review[k].step = "idle" /\ call[k].step = "idle"
  BY NoReviewFacts, IdleFacts DEF ReviewInit, Init, CaseInit
<1>4. \A i \in DOMAIN StartHistory : StartHistory[i].status \notin {"statements", "event"}
  BY DEF StartHistory, FromQuestionnaire
<1>5. StatusesKnown
  BY <1>2, <1>4, TargetFacts DEF StatusesKnown, RowsWith
<1>6. NotForgotten
  <2> SUFFICES ASSUME NEW a \in Appeals PROVE ~GroupComplete(a)
    BY DEF NotForgotten
  <2>1. LeadOf[a] \in Group(a) /\ LeadOf[a] \in Appeals /\ HasQuestionnaire(LeadOf[a])
    BY GroupFacts DEF HasQuestionnaire
  <2> QED BY <1>2, <2>1 DEF GroupComplete
<1>7. Together
  BY <1>2, GroupFacts DEF Together
<1> QED BY <1>1, <1>2, <1>3, <1>5, <1>6, <1>7
       DEF TogetherInv, TogetherParts, NoEvents, GroupKnown, Reviewing, InProgress

\* Beside a review in progress there is no other, and no call of another.
LEMMA AloneFacts ==
    ASSUME Serialised, KnowingInv, NEW k \in Calls, Reviewing(k), NEW j \in Calls, j # k
    PROVE  review[j].step = "idle" /\ call[j].step = "idle"
BY DEF KnowingInv, OneReview, ReviewKnows, Reviewing, InProgress

\* A free slot has nothing to know.
LEMMA GroupKnownIdle ==
    ASSUME NEW k \in Calls, review'[k].step = "idle", call'[k].step = "idle"
    PROVE  GroupKnown(k)'
BY DEF GroupKnown, Reviewing, InProgress

\* What a step of a review's call does: it decides on the one stage there is to go
\* to, records it as new, and is done with the status.
LEMMA CallMoves ==
    ASSUME TogetherInv, NEW k \in Calls, CallStepOf(k),
           NEW a \in Appeals, call[k].appeal = a
    PROVE  /\ InProgress(k) /\ \A j \in Calls \ {k} : call'[j] = call[j]
           /\ call'[k].step # "idle" => call'[k].appeal = a
           /\ UNCHANGED <<kind, event, outcome, review>>
           /\ \/ /\ call[k].step = "read" /\ call'[k].step = "write"
                 /\ call'[k].newState = Target(a) /\ ~call'[k].passed /\ ~call'[k].arranged
                 /\ UNCHANGED statusVars
              \/ /\ call[k].step \in {"read", "write"}
                 /\ call'[k].step \notin {"read", "write", "proofs"}
                 /\ currentStatus' = [currentStatus EXCEPT ![a] = Target(a)]
                 /\ \A b \in Appeals \ {a} : history'[b] = history[b]
              \/ /\ call[k].step \notin {"read", "write"}
                 /\ call'[k].step \notin {"read", "write", "proofs"}
                 /\ UNCHANGED statusVars
<1>1. /\ TypeOK /\ Step(k) /\ GroupKnown(k) /\ call[k] \in CallRecord
      /\ call \in [Calls -> CallRecord]
  BY ReviewFinds DEF CallStepOf, TogetherInv, TogetherParts, KnowingInv, ReviewTypes, RowsInv
<1>2. /\ InProgress(k) /\ \A j \in Calls \ {k} : call'[j] = call[j]
      /\ call'[k].step # "idle" => call'[k].appeal = a
      /\ UNCHANGED <<kind, event, outcome, review>>
  BY <1>1, StepStays DEF CallStepOf, eventVars
<1>3. CASE ReadAppeal(k)
  <2> DEFINE c == call[k]
             new == NextStatusOf(a, eventElapsed(a), currentStatus[a], c.trigger)
             writing == [c EXCEPT !.step = "write", !.newState = new,
                                  !.passed = isStatePassed(history[a], new),
                                  !.arranged = isArranged(a)]
  <2>1. /\ c.step = "read" /\ c.trigger = "Complete" /\ currentStatus[a] = "lpa_questionnaire"
        /\ event[a] = "none" /\ RowsWith(history[a], Target(a)) = {}
    BY <1>1, <1>3 DEF ReadAppeal, GroupKnown, TogetherInv, TogetherParts, NoEvents, StatusesKnown
  <2>2. eventElapsed(a) = FALSE /\ isArranged(a) = FALSE
    BY <2>1 DEF eventElapsed, isArranged
  <2>3. new = Target(a) /\ new # currentStatus[a]
    BY <2>1, <2>2, TargetFacts
  <2>4. isStatePassed(history[a], Target(a)) = FALSE
    BY <2>1 DEF isStatePassed, CompletedStates, RowsWith
  <2>5. call' = [call EXCEPT ![k] = writing] /\ UNCHANGED statusVars
    <3> HIDE DEF writing
    <3>1. call' = IF new = currentStatus[a] THEN [call EXCEPT ![k] = UpdatingList(c)]
                                            ELSE [call EXCEPT ![k] = writing]
      BY <1>1, <1>3 DEF ReadAppeal, writing
    <3> QED BY <1>3, <2>3, <3>1 DEF ReadAppeal
  <2>6. /\ writing.step = "write" /\ writing.newState = new
        /\ writing.passed = isStatePassed(history[a], new) /\ writing.arranged = isArranged(a)
    <3> HIDE DEF new
    <3> QED BY <1>1 DEF CallRecord
  <2>7. call'[k] = writing
    <3> HIDE DEF writing
    <3> QED BY <1>1, <2>5
  <2> HIDE DEF writing, new
  <2> QED BY <1>2, <2>1, <2>2, <2>3, <2>4, <2>5, <2>6, <2>7
<1>4. CASE ~ReadAppeal(k) /\ call[k].step = "write"
  <2>1. /\ ~call[k].passed /\ ~call[k].arranged /\ call[k].newState = Target(a)
    BY <1>1, <1>4 DEF GroupKnown
  <2>2. Advance(k)
    BY <1>1, <1>4, <2>1 DEF Step, RollBack, RollBackThrows, ReadProofs, ReadForList, WriteList,
       WriteChildren
  <2>3. AfterWrite(k) = UpdatingList(call[k])
    <3>1. call[k].newState # "evidence"
      BY <2>1, TargetFacts
    <3> QED BY <2>1, <3>1 DEF AfterWrite
  <2>4. call'[k].step = "readList"
    BY <1>1, <2>2, <2>3, UpdatingListFacts DEF Advance
  <2>5. /\ currentStatus' = [currentStatus EXCEPT ![a] = Target(a)]
        /\ \A b \in Appeals \ {a} : history'[b] = history[b]
    BY <1>1, <2>1, <2>2 DEF Advance, TypeOK
  <2> QED BY <1>2, <1>4, <2>4, <2>5
<1>5. CASE ~ReadAppeal(k) /\ call[k].step # "write"
  <2>1. call[k].step # "proofs"
    BY <1>1, <1>2 DEF GroupKnown
  <2>2. call[k].step # "read"
    BY <1>1, <1>5 DEF Step, RollBack, RollBackThrows, ReadProofs, ReadForList, WriteList,
       WriteChildren, Advance
  <2> QED BY <1>1, <1>2, <1>5, <2>1, <2>2, StepWrites
<1> QED BY <1>3, <1>4, <1>5

\* A step of the call of a review keeps its group together but for what the review
\* has still to do.
LEMMA TogetherCall ==
    ASSUME Serialised, TogetherInv, KnowingInv', NEW k \in Calls, CallStepOf(k)
    PROVE  TogetherParts'
<1>1. PICK a \in Appeals : call[k].appeal = a
  BY ReviewFinds DEF TogetherInv, KnowingInv
<1>2. /\ review[k].step = "moving" /\ a \in Group(review[k].appeal) /\ Reviewing(k)
      /\ GroupKnown(k) /\ InProgress(k) /\ a \notin review[k].todo
      /\ \A j \in Calls \ {k} : review[j].step = "idle" /\ call[j].step = "idle"
  <2>1. InProgress(k)
    BY <1>1, CallMoves
  <2>2. review[k].step = "moving" /\ a \in Group(review[k].appeal) /\ GroupKnown(k)
    BY <1>1, <2>1 DEF TogetherInv, TogetherParts, KnowingInv, ReviewKnows
  <2>3. Reviewing(k)
    BY <2>2 DEF Reviewing
  <2> QED BY <1>1, <2>1, <2>2, <2>3, AloneFacts DEF TogetherInv, GroupKnown
<1>3. PICK lead \in Appeals : lead = review[k].appeal
  BY ReviewFinds DEF TogetherInv, KnowingInv
<1>4. /\ \A b : Target(b)' = Target(b) /\ Group(b)' = Group(b)
      /\ \A b : GroupComplete(b)' <=> GroupComplete(b)
  BY <1>1, CallMoves
     DEF Target, Group, GroupComplete, HasQuestionnaire, isEnforcementNotice
<1>5. /\ \A j \in Calls \ {k} : review'[j].step = "idle" /\ call'[j].step = "idle"
      /\ UNCHANGED <<event, review, outcome>>
      /\ currentStatus \in [Appeals -> Status]
  BY <1>1, <1>2, CallMoves DEF TogetherInv, KnowingInv, ReviewTypes, ReviewTypeOK, TypeOK
<1>6. /\ \A b \in Appeals \ {a} : currentStatus'[b] = currentStatus[b] /\ history'[b] = history[b]
      /\ currentStatus'[a] # currentStatus[a] => currentStatus'[a] = Target(a)
      /\ currentStatus'[a] = "lpa_questionnaire" => UNCHANGED statusVars
  <2>1. CASE UNCHANGED statusVars
    BY <2>1 DEF statusVars
  <2>2. CASE ~UNCHANGED statusVars
    <3>1. /\ currentStatus' = [currentStatus EXCEPT ![a] = Target(a)]
          /\ \A b \in Appeals \ {a} : history'[b] = history[b]
      BY <1>1, <2>2, CallMoves
    <3> QED BY <1>5, <3>1, TargetFacts
  <2> QED BY <2>1, <2>2
<1>7. NoEvents'
  BY <1>5 DEF TogetherInv, TogetherParts, NoEvents
<1>8. StatusesKnown'
  <2> SUFFICES ASSUME NEW b \in Appeals
               PROVE  /\ currentStatus'[b] \in {"lpa_questionnaire", Target(b)}
                      /\ currentStatus'[b] = "lpa_questionnaire" =>
                            RowsWith(history'[b], Target(b)) = {}
    BY <1>4 DEF StatusesKnown, RowsWith
  <2> QED BY <1>6 DEF TogetherInv, TogetherParts, StatusesKnown, statusVars
<1>9. Together'
  <2> SUFFICES ASSUME NEW b \in Appeals, ~Moving(b)'
               PROVE  currentStatus'[b] = currentStatus'[LeadOf[b]]
    BY DEF Together
  <2>1. ~Moving(b) /\ b \notin Group(lead)
    BY <1>2, <1>3, <1>5 DEF Moving, Group
  <2>2. b # a /\ LeadOf[b] # a /\ LeadOf[b] \in Appeals
    BY <1>2, <1>3, <2>1, GroupFacts DEF Group
  <2> QED BY <1>6, <2>1, <2>2 DEF TogetherInv, TogetherParts, Together
<1>10. NotForgotten'
  <2> SUFFICES ASSUME NEW b \in Appeals, GroupComplete(b), currentStatus'[b] = "lpa_questionnaire"
               PROVE  \E j \in Calls : review'[j].step \in {"recorded", "moving"}
                                       /\ b \in Group(review'[j].appeal)
    BY <1>4 DEF NotForgotten, Group
  <2>1. currentStatus[b] = "lpa_questionnaire"
    BY <1>6, TargetFacts
  <2> QED BY <1>5, <2>1 DEF TogetherInv, TogetherParts, NotForgotten
<1>11. GroupKnown(k)'
  <2>1. \A b \in Group(lead) \ {a} :
          IF b \in review[k].todo THEN currentStatus'[b] = "lpa_questionnaire"
          ELSE currentStatus'[b] = Target(b)
    BY <1>1, <1>2, <1>3, <1>6, GroupFacts DEF GroupKnown
  <2>2. \/ /\ call'[k].step = "write" /\ call'[k].appeal = a
           /\ call'[k].newState = Target(a) /\ ~call'[k].passed /\ ~call'[k].arranged
           /\ currentStatus'[a] = "lpa_questionnaire"
        \/ /\ call'[k].step \notin {"read", "write", "proofs"}
           /\ call'[k].step # "idle" => call'[k].appeal = a
           /\ currentStatus'[a] = Target(a)
    <3>1. call[k].step = "read" => currentStatus[a] = "lpa_questionnaire"
      BY <1>1, <1>2 DEF GroupKnown
    <3>2. call[k].step \notin {"read", "write"} => currentStatus[a] = Target(a)
      BY <1>1, <1>2, <1>3 DEF GroupKnown
    <3> QED BY <1>1, <1>5, <3>1, <3>2, CallMoves DEF statusVars
  <2>3. review'[k] = review[k] /\ review[k].appeal = lead
    BY <1>3, <1>5
  <2>4. LeadOf[lead] = lead \/ review[k].leadOutcome = outcome[LeadOf[lead]]
    BY <1>2, <1>3 DEF GroupKnown
  <2> QED BY <1>2, <1>4, <1>5, <2>1, <2>2, <2>3, <2>4 DEF GroupKnown, InProgress, Reviewing
<1>12. ASSUME NEW j \in Calls PROVE GroupKnown(j)'
  BY <1>5, <1>11, GroupKnownIdle
<1> QED BY <1>7, <1>8, <1>9, <1>10, <1>12 DEF TogetherParts

\* The steps of the requests themselves write no status.  What a step leaves of the
\* groups, the kinds and the statuses.
LEMMA RequestLeaves ==
    ASSUME UNCHANGED <<kind, event, statusVars>>, TogetherInv
    PROVE  /\ NoEvents' /\ StatusesKnown'
           /\ \A b : Target(b)' = Target(b) /\ Group(b)' = Group(b)
           /\ \A b : HasQuestionnaire(b)' <=> HasQuestionnaire(b)
<1>1. \A b : /\ Target(b)' = Target(b) /\ Group(b)' = Group(b)
             /\ HasQuestionnaire(b)' <=> HasQuestionnaire(b)
  BY DEF Target, Group, HasQuestionnaire, isEnforcementNotice
<1>2. NoEvents'
  BY DEF TogetherInv, TogetherParts, NoEvents
<1>3. StatusesKnown'
  BY <1>1 DEF TogetherInv, TogetherParts, StatusesKnown, RowsWith, statusVars
<1> QED BY <1>1, <1>2, <1>3

\* A review starts beside no other, at the questionnaire stage.
LEMMA TogetherLoad ==
    ASSUME Serialised, TogetherInv, NEW k \in Calls, NEW a \in Appeals, NEW given \in Outcomes,
           Load(k, a, given)
    PROVE  TogetherParts'
<1>1. /\ \A j \in Calls : review[j].step = "idle" /\ call[j].step = "idle"
      /\ UNCHANGED <<kind, event, statusVars, call, outcome>>
      /\ currentStatus[a] = "lpa_questionnaire"
  BY DEF Load, AtQuestionnaire, Reviewing, vars, statusVars, TogetherInv, KnowingInv, ReviewKnows,
     InProgress
<1>2. /\ review'[k].step = "loaded" /\ review'[k].appeal = a
      /\ review'[k].leadOutcome = outcome[LeadOf[a]]
      /\ \A j \in Calls \ {k} : review'[j] = review[j]
  BY LoadLeaves DEF TogetherInv, KnowingInv
<1>3. NoEvents' /\ StatusesKnown'
  BY <1>1, RequestLeaves
<1>4. Together'
  BY <1>1, <1>2 DEF TogetherInv, TogetherParts, Together, Moving, statusVars
<1>5. NotForgotten'
  <2> SUFFICES ASSUME NEW b \in Appeals, GroupComplete(b)', currentStatus'[b] = "lpa_questionnaire"
               PROVE  FALSE
    BY DEF NotForgotten
  <2>1. GroupComplete(b) /\ currentStatus[b] = "lpa_questionnaire"
    BY <1>1 DEF GroupComplete, Group, HasQuestionnaire, isEnforcementNotice, statusVars
  <2> QED BY <1>1, <2>1 DEF TogetherInv, TogetherParts, NotForgotten
<1>6. ASSUME NEW j \in Calls PROVE GroupKnown(j)'
  <2>1. CASE j = k
    BY <1>1, <1>2, <2>1 DEF GroupKnown, Reviewing, InProgress, statusVars
  <2>2. CASE j # k
    BY <1>1, <1>2, <2>2, GroupKnownIdle
  <2> QED BY <2>1, <2>2
<1> QED BY <1>3, <1>4, <1>5, <1>6 DEF TogetherParts

\* Recording an outcome: an incomplete one leaves its group incomplete, a complete
\* one leaves the review there to move it.
LEMMA TogetherRecord ==
    ASSUME Serialised, TogetherInv, NEW k \in Calls, Record(k)
    PROVE  TogetherParts'
<1>1. PICK a \in Appeals : a = review[k].appeal
  BY ReviewFinds DEF TogetherInv, KnowingInv
<1>2. /\ review[k].step = "loaded" /\ Reviewing(k) /\ GroupKnown(k)
      /\ currentStatus[a] = "lpa_questionnaire" /\ HasQuestionnaire(a)
      /\ UNCHANGED <<kind, event, statusVars, call>>
      /\ outcome' = [outcome EXCEPT ![a] = review[k].given] /\ outcome \in [Appeals -> Outcome]
      /\ review[k].given \in {"Incomplete", "Complete"}
      /\ \A j \in Calls : call[j].step = "idle"
      /\ \A j \in Calls \ {k} : review[j].step = "idle"
  <2>1. review[k].step = "loaded" /\ Reviewing(k)
    BY DEF Record, Reviewing
  <2>2. \A j \in Calls \ {k} : review[j].step = "idle" /\ call[j].step = "idle"
    BY <2>1, AloneFacts DEF TogetherInv
  <2>3. call[k].step = "idle"
    BY <2>1, NoCallYet DEF TogetherInv
  <2> QED BY <1>1, <2>1, <2>2, <2>3, ReviewFinds, OutcomesAssumption
         DEF Record, GroupKnown, TogetherInv, TogetherParts, KnowingInv, ReviewKnows, vars,
             statusVars
<1>3. /\ \A j \in Calls \ {k} : review'[j] = review[j]
      /\ \/ review'[k] = NoReview /\ review[k].given = "Incomplete"
         \/ /\ review[k].given = "Complete" /\ review'[k].appeal = a
            /\ review'[k].leadOutcome = review[k].leadOutcome
            /\ \/ review'[k].step = "recorded"
               \/ /\ review'[k].step = "moving" /\ Group(a) = {a}
                  /\ review'[k].todo = {a}
  BY <1>1, <1>2, RecordLeaves DEF TogetherInv, KnowingInv, isLinkedAppeal
<1>4. /\ NoEvents' /\ StatusesKnown'
      /\ \A b : Target(b)' = Target(b) /\ Group(b)' = Group(b)
      /\ \A b : HasQuestionnaire(b)' <=> HasQuestionnaire(b)
  BY <1>2, RequestLeaves
<1>5. Together'
  <2> SUFFICES ASSUME NEW b \in Appeals PROVE currentStatus[b] = currentStatus[LeadOf[b]]
    BY <1>2 DEF Together, statusVars
  <2>1. ~Moving(b)
    BY <1>2 DEF Moving
  <2> QED BY <2>1 DEF TogetherInv, TogetherParts, Together
<1>6. NotForgotten'
  <2> SUFFICES ASSUME NEW b \in Appeals, GroupComplete(b)', currentStatus'[b] = "lpa_questionnaire"
               PROVE  \E j \in Calls : review'[j].step \in {"recorded", "moving"}
                                       /\ b \in Group(review'[j].appeal)
    BY <1>4 DEF NotForgotten, Group
  <2>1. ~GroupComplete(b)
    BY <1>2 DEF TogetherInv, TogetherParts, NotForgotten, statusVars
  <2>2. PICK c \in Group(b) : HasQuestionnaire(c) /\ outcome[c] # "Complete"
                             /\ outcome'[c] = "Complete"
    BY <1>4, <2>1 DEF GroupComplete
  <2>3. c = a /\ review[k].given = "Complete"
    BY <1>2, <2>2, GroupFacts
  <2>4. b \in Group(a)
    BY <2>2, <2>3 DEF Group
  <2>5. review'[k].step \in {"recorded", "moving"} /\ review'[k].appeal = a
    BY <1>3, <2>3
  <2> QED BY <2>4, <2>5
<1>7. ASSUME NEW j \in Calls PROVE GroupKnown(j)'
  <2>1. CASE j # k \/ review'[k] = NoReview
    BY <1>2, <1>3, <2>1, NoReviewFacts, GroupKnownIdle
  <2>2. CASE j = k /\ review'[k] # NoReview
    <3>1. LeadOf[a] = a \/ review'[k].leadOutcome = outcome'[LeadOf[a]]
      BY <1>1, <1>2, <1>3, <2>2, GroupFacts DEF GroupKnown
    <3> QED BY <1>2, <1>3, <1>4, <2>2, <3>1, NoReviewFacts
           DEF GroupKnown, Reviewing, InProgress, statusVars
  <2> QED BY <2>1, <2>2
<1> QED BY <1>4, <1>5, <1>6, <1>7 DEF TogetherParts

\* Looking at the group: it is moved, or one of its questionnaires is not complete.
LEMMA TogetherReadGroup ==
    ASSUME Serialised, TogetherInv, NEW k \in Calls, ReadGroup(k)
    PROVE  TogetherParts'
<1>1. PICK a \in Appeals : a = review[k].appeal
  BY ReviewFinds DEF TogetherInv, KnowingInv
<1> DEFINE moves == isEnforcementNotice(a) \/ allLpaQuestionnaireOutcomesAreComplete(k)
<1>2. /\ review[k].step = "recorded" /\ Reviewing(k) /\ GroupKnown(k) /\ ReviewKnows(k)
      /\ currentStatus[a] = "lpa_questionnaire"
      /\ UNCHANGED <<kind, event, statusVars, call, outcome>>
      /\ \A j \in Calls : call[j].step = "idle"
      /\ \A j \in Calls \ {k} : review[j].step = "idle"
  <2>1. review[k].step = "recorded" /\ Reviewing(k)
    BY DEF ReadGroup, Reviewing
  <2>2. \A j \in Calls \ {k} : review[j].step = "idle" /\ call[j].step = "idle"
    BY <2>1, AloneFacts DEF TogetherInv
  <2>3. call[k].step = "idle"
    BY <2>1, NoCallYet DEF TogetherInv
  <2> QED BY <1>1, <2>1, <2>2, <2>3
         DEF ReadGroup, GroupKnown, TogetherInv, TogetherParts, KnowingInv, vars, statusVars
<1>3. /\ \A j \in Calls \ {k} : review'[j] = review[j]
      /\ \/ review'[k] = NoReview /\ ~moves
         \/ /\ moves /\ review'[k].step = "moving" /\ review'[k].appeal = a
            /\ review'[k].leadOutcome = review[k].leadOutcome
            /\ review'[k].todo = Group(a)
  BY <1>1, ReadGroupLeaves DEF TogetherInv, KnowingInv
<1>4. /\ NoEvents' /\ StatusesKnown'
      /\ \A b : Target(b)' = Target(b) /\ Group(b)' = Group(b)
      /\ \A b : HasQuestionnaire(b)' <=> HasQuestionnaire(b)
  BY <1>2, RequestLeaves
<1>5. \A b \in Appeals : currentStatus[b] = currentStatus[LeadOf[b]]
  BY <1>2 DEF TogetherInv, TogetherParts, Together, Moving
<1>6. Together'
  BY <1>2, <1>5 DEF Together, statusVars
<1>7. ~moves => ~GroupComplete(a)
  <2> SUFFICES ASSUME ~moves PROVE ~GroupComplete(a)
    OBVIOUS
  <2>1. PICK b \in Group(a) : Seen(k, b) # "Complete" /\ ~isEnforcementNotice(b)
    BY <1>1 DEF allLpaQuestionnaireOutcomesAreComplete
  <2>2. HasQuestionnaire(b)
    BY <2>1 DEF HasQuestionnaire
  <2>3. b # a /\ b \in Appeals /\ LeadOf[b] = LeadOf[a]
    BY <1>1, <1>2, <2>1, GroupFacts DEF Seen, ReviewKnows
  <2>4. CASE b = LeadOf[b]
    BY <1>1, <1>2, <2>1, <2>2, <2>3, <2>4 DEF Seen, GroupKnown, GroupComplete
  <2>5. CASE b # LeadOf[b]
    BY <1>1, <2>1, <2>2, <2>3, <2>5 DEF Seen, GroupComplete
  <2> QED BY <2>4, <2>5
<1>8. NotForgotten'
  <2> SUFFICES ASSUME NEW b \in Appeals, GroupComplete(b)', currentStatus'[b] = "lpa_questionnaire"
               PROVE  \E j \in Calls : review'[j].step \in {"recorded", "moving"}
                                       /\ b \in Group(review'[j].appeal)
    BY <1>4 DEF NotForgotten, Group
  <2>1. GroupComplete(b) /\ currentStatus[b] = "lpa_questionnaire"
    BY <1>2, <1>4 DEF GroupComplete, statusVars
  <2>2. b \in Group(a)
    BY <1>1, <1>2, <2>1 DEF TogetherInv, TogetherParts, NotForgotten
  <2>3. Group(b) = Group(a)
    BY <2>2, GroupFacts
  <2>4. moves
    BY <1>7, <2>1, <2>3 DEF GroupComplete
  <2> QED BY <1>3, <2>2, <2>4, NoReviewFacts
<1>9. ASSUME NEW j \in Calls PROVE GroupKnown(j)'
  <2>1. CASE j # k \/ review'[k] = NoReview
    BY <1>2, <1>3, <2>1, NoReviewFacts, GroupKnownIdle
  <2>2. CASE j = k /\ review'[k] # NoReview
    <3>1. \A b \in Group(a) : currentStatus[b] = "lpa_questionnaire"
      BY <1>2, <1>5, GroupFacts
    <3>2. LeadOf[a] = a \/ review[k].leadOutcome = outcome[LeadOf[a]]
      BY <1>1, <1>2 DEF GroupKnown
    <3> QED BY <1>2, <1>3, <1>4, <2>2, <3>1, <3>2
           DEF GroupKnown, Reviewing, InProgress, statusVars
  <2> QED BY <2>1, <2>2
<1> QED BY <1>4, <1>6, <1>8, <1>9 DEF TogetherParts

\* Going on to the next appeal of the list.
LEMMA TogetherMoveNext ==
    ASSUME Serialised, TogetherInv, NEW k \in Calls, NEW b \in Appeals, MoveNext(k, b)
    PROVE  TogetherParts'
<1>1. PICK a \in Appeals : a = review[k].appeal
  BY ReviewFinds DEF TogetherInv, KnowingInv
<1>2. /\ review[k].step = "moving" /\ Reviewing(k) /\ GroupKnown(k) /\ ReviewKnows(k)
      /\ b \in review[k].todo /\ b \in Group(a) /\ currentStatus[b] = "lpa_questionnaire"
      /\ call[k].step = "idle"
      /\ \A j \in Calls \ {k} : review[j].step = "idle" /\ call[j].step = "idle"
  <2>1. review[k].step = "moving" /\ Reviewing(k) /\ b \in review[k].todo /\ call[k].step = "idle"
    BY DEF MoveNext, Invoke, InProgress, Reviewing
  <2>2. \A j \in Calls \ {k} : review[j].step = "idle" /\ call[j].step = "idle"
    BY <2>1, AloneFacts DEF TogetherInv
  <2>3. GroupKnown(k) /\ ReviewKnows(k)
    BY DEF TogetherInv, TogetherParts, KnowingInv
  <2>4. b \in Group(a)
    BY <1>1, <2>1, <2>3 DEF ReviewKnows
  <2>5. currentStatus[b] = "lpa_questionnaire"
    BY <1>1, <2>1, <2>3, <2>4 DEF GroupKnown
  <2> QED BY <2>1, <2>2, <2>3, <2>4, <2>5
<1>3. /\ \A j \in Calls \ {k} : review'[j] = review[j] /\ call'[j] = call[j]
      /\ review'[k].step = "moving" /\ review'[k].appeal = a
      /\ review'[k].leadOutcome = review[k].leadOutcome
      /\ review'[k].todo = review[k].todo \ {b}
      /\ call'[k].step = "read" /\ call'[k].appeal = b /\ call'[k].trigger = "Complete"
      /\ UNCHANGED <<kind, event, statusVars, outcome>>
  BY <1>1, MoveNextLeaves DEF TogetherInv, KnowingInv, eventVars
<1>4. /\ NoEvents' /\ StatusesKnown'
      /\ \A c : Target(c)' = Target(c) /\ Group(c)' = Group(c)
      /\ \A c : HasQuestionnaire(c)' <=> HasQuestionnaire(c)
  BY <1>3, RequestLeaves
<1>5. Together'
  <2> SUFFICES ASSUME NEW c \in Appeals, ~Moving(c)' PROVE currentStatus[c] = currentStatus[LeadOf[c]]
    BY <1>3 DEF Together, statusVars
  <2>1. ~Moving(c)
    BY <1>1, <1>2, <1>3 DEF Moving, Group
  <2> QED BY <2>1 DEF TogetherInv, TogetherParts, Together
<1>6. NotForgotten'
  <2> SUFFICES ASSUME NEW c \in Appeals, GroupComplete(c)', currentStatus'[c] = "lpa_questionnaire"
               PROVE  \E j \in Calls : review'[j].step \in {"recorded", "moving"}
                                       /\ c \in Group(review'[j].appeal)
    BY <1>4 DEF NotForgotten, Group
  <2>1. GroupComplete(c) /\ currentStatus[c] = "lpa_questionnaire"
    BY <1>3, <1>4 DEF GroupComplete, statusVars
  <2>2. c \in Group(a)
    BY <1>1, <1>2, <2>1 DEF TogetherInv, TogetherParts, NotForgotten
  <2> QED BY <1>3, <2>2
<1>7. ASSUME NEW j \in Calls PROVE GroupKnown(j)'
  <2>1. CASE j # k
    BY <1>2, <1>3, <2>1, GroupKnownIdle
  <2>2. CASE j = k
    <3>1. \A c \in Group(a) :
            IF c \in review[k].todo \ {b} THEN currentStatus[c] = "lpa_questionnaire"
            ELSE currentStatus[c] = Target(c) \/ c = b
      BY <1>1, <1>2 DEF GroupKnown
    <3>2. LeadOf[a] = a \/ review[k].leadOutcome = outcome[LeadOf[a]]
      BY <1>1, <1>2 DEF GroupKnown
    <3> QED BY <1>2, <1>3, <1>4, <2>2, <3>1, <3>2
           DEF GroupKnown, Reviewing, InProgress, statusVars
  <2> QED BY <2>1, <2>2
<1> QED BY <1>4, <1>5, <1>6, <1>7 DEF TogetherParts

\* When the list is done with, the group is together again, at the stage it went to.
LEMMA TogetherRespond ==
    ASSUME Serialised, TogetherInv, NEW k \in Calls, Respond(k)
    PROVE  TogetherParts'
<1>1. PICK a \in Appeals : a = review[k].appeal
  BY ReviewFinds DEF TogetherInv, KnowingInv
<1>2. /\ review[k].step = "moving" /\ Reviewing(k) /\ GroupKnown(k)
      /\ review[k].todo = {} /\ call[k].step = "idle"
      /\ \A j \in Calls \ {k} : review[j].step = "idle" /\ call[j].step = "idle"
      /\ UNCHANGED <<kind, event, statusVars, call, outcome>>
      /\ \A j \in Calls \ {k} : review'[j] = review[j]
      /\ review'[k] = NoReview
  <2>1. review[k].step = "moving" /\ Reviewing(k)
    BY DEF Respond, Reviewing
  <2>2. \A j \in Calls \ {k} : review[j].step = "idle" /\ call[j].step = "idle"
    BY <2>1, AloneFacts DEF TogetherInv
  <2> QED BY <2>1, <2>2, ReviewFinds
         DEF Respond, InProgress, TogetherInv, TogetherParts, KnowingInv, vars, statusVars
<1>3. \A j \in Calls : review'[j].step = "idle" /\ call'[j].step = "idle"
  BY <1>2, NoReviewFacts
<1>4. /\ NoEvents' /\ StatusesKnown'
      /\ \A c : Target(c)' = Target(c) /\ Group(c)' = Group(c)
      /\ \A c : HasQuestionnaire(c)' <=> HasQuestionnaire(c)
  BY <1>2, RequestLeaves
<1>5. \A c \in Group(a) : currentStatus[c] = Target(c)
  BY <1>1, <1>2 DEF GroupKnown
<1>6. Together'
  <2> SUFFICES ASSUME NEW c \in Appeals PROVE currentStatus[c] = currentStatus[LeadOf[c]]
    BY <1>2 DEF Together, statusVars
  <2>1. CASE c \in Group(a)
    <3>1. LeadOf[c] \in Group(a) /\ kind[c] = kind[LeadOf[c]]
      BY <2>1, GroupFacts DEF TogetherInv, KnowingInv, SameKinds
    <3>2. Target(c) = Target(LeadOf[c])
      BY <3>1 DEF Target
    <3> QED BY <1>5, <2>1, <3>1, <3>2
  <2>2. CASE c \notin Group(a)
    <3>1. ~Moving(c)
      BY <1>1, <1>2, <2>2 DEF Moving
    <3> QED BY <3>1 DEF TogetherInv, TogetherParts, Together
  <2> QED BY <2>1, <2>2
<1>7. NotForgotten'
  <2> SUFFICES ASSUME NEW c \in Appeals, GroupComplete(c)', currentStatus'[c] = "lpa_questionnaire"
               PROVE  FALSE
    BY DEF NotForgotten
  <2>1. GroupComplete(c) /\ currentStatus[c] = "lpa_questionnaire"
    BY <1>2, <1>4 DEF GroupComplete, statusVars
  <2>2. c \in Group(a)
    BY <1>1, <1>2, <2>1 DEF TogetherInv, TogetherParts, NotForgotten
  <2> QED BY <1>5, <2>1, <2>2, TargetFacts
<1>8. ASSUME NEW j \in Calls PROVE GroupKnown(j)'
  BY <1>3, GroupKnownIdle
<1> QED BY <1>4, <1>6, <1>7, <1>8 DEF TogetherParts

\* Every step keeps groups together while reviews come one at a time and nothing fails.
LEMMA TogetherNext ==
    Serialised /\ TogetherInv /\ [ReviewWorking]_reviewVars => TogetherInv'
<1> SUFFICES ASSUME Serialised, TogetherInv, [ReviewWorking]_reviewVars PROVE TogetherInv'
  OBVIOUS
<1>1. KnowingInv'
  BY KnowingNext DEF NoneUndone, TogetherInv, ReviewNext
<1>2. CASE UNCHANGED reviewVars
  <2>1. UNCHANGED <<kind, event, history, currentStatus, call, outcome, review>>
    BY <1>2 DEF reviewVars, vars
  <2>2. NoEvents' /\ StatusesKnown' /\ \A b : Target(b)' = Target(b) /\ Group(b)' = Group(b)
    BY <2>1, RequestLeaves DEF statusVars
  <2>3. \A b : GroupComplete(b)' <=> GroupComplete(b)
    BY <2>1 DEF GroupComplete, Group, HasQuestionnaire, isEnforcementNotice
  <2>4. Together' /\ NotForgotten'
    BY <2>1, <2>3 DEF TogetherInv, TogetherParts, Together, Moving, NotForgotten, Group
  <2>5. ASSUME NEW k \in Calls PROVE GroupKnown(k)'
    <3>1. GroupKnown(k) /\ review'[k] = review[k] /\ call'[k] = call[k]
      BY <2>1 DEF TogetherInv, TogetherParts
    <3> QED BY <2>1, <2>2, <3>1 DEF GroupKnown, Reviewing, InProgress
  <2> QED BY <1>1, <2>2, <2>4, <2>5 DEF TogetherInv, TogetherParts
<1>3. ASSUME NEW k \in Calls, ReviewStep(k)
      PROVE  TogetherInv'
  BY <1>1, <1>3, TogetherRecord, TogetherReadGroup, TogetherMoveNext, TogetherRespond, TogetherCall
     DEF ReviewStep, TogetherInv
<1>4. ASSUME NEW k \in Calls, NEW a \in Appeals, NEW given \in Outcomes, Load(k, a, given)
      PROVE  TogetherInv'
  BY <1>1, <1>4, TogetherLoad DEF TogetherInv
<1> QED BY <1>2, <1>3, <1>4 DEF ReviewWorking

\* When no review is in progress, the appeals of a group are at the same stage, for
\* groups of any size, as long as reviews come one at a time and nothing fails.
THEOREM GroupStaysTogether ==
    ASSUME Serialised, FromQuestionnaire
    PROVE  SteadyReviewSpec => []GroupTogether
<1>1. TogetherInv => GroupTogether
  BY DEF TogetherInv, TogetherParts, Together, Moving, GroupTogether, Quiet, Reviewing
<1> QED BY <1>1, TogetherStart, TogetherNext, PTL DEF SteadyReviewSpec

\* Under the same conditions no appeal of a group whose questionnaires are complete is
\* left at the questionnaire stage.
THEOREM NobodyForgotten ==
    ASSUME Serialised, FromQuestionnaire
    PROVE  SteadyReviewSpec => []NoneLeftBehind
<1>1. TogetherInv => NoneLeftBehind
  BY DEF TogetherInv, TogetherParts, NotForgotten, GroupComplete, NoneLeftBehind, Quiet, Reviewing
<1> QED BY <1>1, TogetherStart, TogetherNext, PTL DEF SteadyReviewSpec

\* And reviews take no appeal past the stage after the questionnaires.
THEOREM MovesOneStage ==
    ASSUME Serialised, FromQuestionnaire
    PROVE  SteadyReviewSpec => []OneStageOnly
<1>1. TogetherInv => OneStageOnly
  BY TargetFacts DEF TogetherInv, TogetherParts, StatusesKnown, OneStageOnly
<1> QED BY <1>1, TogetherStart, TogetherNext, PTL DEF SteadyReviewSpec

-----------------------------------------------------------------------------
(* The reviews implement TransitionState, whatever overlaps, stops or      *)
(* fails, so that what holds of its calls holds when reviews make them.    *)

\* Each step of a review is one of TransitionState, or leaves its variables alone: a
\* review that stops takes with it the call it has in progress, if it has one.
LEMMA ReviewMaps ==
    ASSUME FreeSlots, ReviewTypes, [ReviewNext]_reviewVars
    PROVE  [Next]_vars
<1>1. ASSUME NEW k \in Calls, NEW a \in Appeals, NEW given \in Outcomes, Load(k, a, given)
      PROVE  UNCHANGED vars
  BY <1>1 DEF Load
<1>2. ASSUME NEW k \in Calls, Record(k) \/ ReadGroup(k) \/ Respond(k)
      PROVE  UNCHANGED vars
  BY <1>2 DEF Record, ReadGroup, Respond
<1>3. ASSUME NEW k \in Calls, NEW b \in Appeals, MoveNext(k, b)
      PROVE  Next
  <2>1. Invoke(k, b, "Complete") /\ "Complete" \in Triggers
    BY <1>3 DEF MoveNext, Invoke, TriggersFor
  <2> QED BY <2>1 DEF Next, Working
<1>4. ASSUME NEW k \in Calls, CallStepOf(k)
      PROVE  Next
  BY <1>4 DEF CallStepOf, Next, Working
<1>5. ASSUME NEW k \in Calls, Stop(k)
      PROVE  [Next]_vars
  <2>1. CASE InProgress(k)
    BY <1>5, <2>1 DEF Stop, Crash, Next
  <2>2. CASE ~InProgress(k)
    <3>1. call[k] = Idle /\ call \in [Calls -> CallRecord]
      BY <2>2, ReviewFinds DEF FreeSlots
    <3>2. call' = call
      BY <1>5, <3>1 DEF Stop
    <3> QED BY <1>5, <3>2 DEF Stop, vars, statusVars, eventVars
  <2> QED BY <2>1, <2>2
<1>6. CASE UNCHANGED reviewVars
  BY <1>6 DEF reviewVars
<1> QED BY <1>1, <1>2, <1>3, <1>4, <1>5, <1>6 DEF ReviewNext, ReviewWorking, ReviewStep

\* Reviews of a group, in any number and however they overlap, stop and fail, are
\* callers of transitionState that TransitionState describes
\* (updateLPAQuestionnaireValidationOutcome).
THEOREM ReviewsImplement == ReviewSpec => ImplementsTransitionState
<1>1. ReviewInit => Init /\ FreeSlots
  BY DEF ReviewInit, Init, CaseInit, FreeSlots
<1>2. ReviewTypes /\ FreeSlots /\ [ReviewNext]_reviewVars => FreeSlots' /\ [Next]_vars
  BY ReviewMaps, FreeSlotsNext DEF ReviewTypes
<1> QED BY <1>1, <1>2, ReviewStart, ReviewTypesNext, PTL
       DEF ReviewSpec, ImplementsTransitionState, Spec

\* Whatever reviews overlap, stop or fail, an appeal of a group is at a stage that its
\* type and procedure have.
THEOREM ReviewStageCorrect == ReviewSpec => []StageIsForCase
BY ReviewsImplement, StageCorrect, PTL DEF ImplementsTransitionState

\* When reviews, and so their calls, do not overlap, the appeals of a group move as
\* CaseStatus says: each write is one transition of the chart, though a review or a
\* call may stop between any two steps.
THEOREM ReviewsMoveByChart == ASSUME Serialised PROVE ReviewSpec => ImplementsCaseStatus
BY ReviewsImplement, Implements, PTL DEF ImplementsTransitionState
=============================================================================
