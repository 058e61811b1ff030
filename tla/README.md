# The life of an appeal, in TLA+

The appeals back office keeps a case (an *appeal*) for the Planning Inspectorate: case officers
validate it, review questionnaires and representations, set up a site visit, hearing or inquiry,
and issue a decision. What everything turns on is the **status** of the appeal. It moves along a
state chart, driven by requests that interleave freely, for appeals alone or linked in groups.
These modules model that: the chart, the function that moves an appeal along it, the records it
leaves, and the handlers that decide when to call it.

All paths below are under `appeals/api/src/server/` unless they start with `docs/`, `packages/`
or `appeals/`.

## 1. The system

| Component | State it keeps | Operations | Talks to |
|---|---|---|---|
| State chart (`state/create-state-machine.js`, `packages/appeals/utils/business-rules.js`) | none | next status for a trigger | called by `transitionState` |
| `transitionState` (`state/transition-state.js`) | none of its own; local variables across awaits | move one appeal; move the children of a lead | the chart, the status store, representations, the personal list; called by ~25 handlers and a job |
| Status store (`repositories/appeal-status.repository.js`) | `AppealStatus` rows, `Appeal.currentStatus` | add a status, roll back to one, each a transaction | database |
| Personal list (`utils/update-personal-list.js`) | `PersonalList` rows: due date, link type, lead | recompute the entry of an appeal and its children | end of every transition, linking, refresh |
| LPA questionnaires (`endpoints/lpa-questionnaires`) | questionnaire, validation outcome | review one; when a linked group is complete, move all of it | `transitionState` |
| Appellant cases (`endpoints/appellant-cases`) | validation outcome | validate one; the same barrier for a group | `transitionState` |
| Hearings, inquiries (`endpoints/hearings`, `endpoints/Inquiry`) | at most one event per appeal, its times and address | set up, rearrange, cancel | `transitionState` with Complete, Incomplete, Cancel |
| Site visits (`endpoints/site-visits`) | at most one visit per appeal, missed or not | arrange, rearrange, cancel, record as missed | `transitionState`, also for children |
| Representations (`endpoints/representations`) | statements, comments, proofs of evidence and their review | review; publish statements, final comments, proofs | `transitionState`, also for children |
| Completed events job (`appeals/functions/scheduled-jobs`, `endpoints/appeals/appeals.service.js`) | none | conclude appeals whose event is over, in parallel | `transitionState` |
| Decision (`endpoints/decision`) | at most one `InspectorDecision` per appeal | decide a lead and any of its children, each part in parallel | `transitionState` |
| Roll-back of a status (`endpoints/appeal-status`) | none | roll back to a recorded status | the status store, without `transitionState` |
| Cancellation (`endpoints/cancel`) | validation outcome | invalidate, the enforcement notice being withdrawn | appellant cases |
| Withdrawal, change of type, transfer (`endpoints/withdrawal`, `endpoints/change-appeal-type`) | the reason why the case ends, on the appeal | withdraw; close, invalidate or transfer; confirm the transfer | `transitionState` |
| Start, timetable, change of procedure, case officer | dates, assignments | one handler each | `transitionState` |
| Linking (`endpoints/link-appeals`) | `AppealRelationship` | link, unlink, change lead | personal list |
| Integrations (broadcasts, e-mails) | none | messages after the writes | service bus, Notify |

The API runs as Node.js processes over one SQL database. Nothing locks an appeal for the length
of a request: middleware reads it at the start, the handler decides from that copy after several
awaits, and each write commits by itself. There is no retry and no outbox; a request that fails
half way leaves what it wrote.

**What is hard here**, and listed line by line as *hazards* in `PROJECT.json`:

- `transitionState` reads, decides and writes without a check that what it read still holds;
- it writes, then calls itself to carry the case on: a failure between leaves half of it;
- statuses are rolled back to, so the history of a case grows and shrinks, found by a query
  without an order;
- a group moves when *all* are complete, a condition each request evaluates on data of two ages;
- the loop that moves a group can fail in the middle and be run again;
- a lead and its children are moved by parallel calls, of which one can throw while the others run on;
- a hearing is set up before, during or after the publication that needs it;
- a missed visit keeps its row, which some queries filter out and others do not;
- why a case ends is stored first and the case is moved last, with e-mails in between that may throw;
- personal list entries are computed from reads that can be out of date.

**What makes each part correct.** The store: rows and column agree, one row valid. The chart and
`transitionState`: the history is a path of the chart, no status recorded twice, final statuses
are final, a case is never at a stage it does not have. Groups: they leave the questionnaire
together and only when complete, no one is left behind, no one skips a stage. Events: the stage
agrees with the event (set up or not, over or not), and an event that is over concludes the case.
Ends: a case has ended only with its reason stored, and a decided case ends as its decision says.

There is one way round `transitionState`: the route `POST /:appealId/appeal-status/roll-back`
(`endpoints/appeal-status/appeal-status.controller.js:11`) rolls an appeal back to any status it has
recorded, without the chart, the children or the personal list. Nothing in the web application calls
it. It is not modelled, and what is said here is said of the calls of `transitionState` and of the
handlers that are modelled: through that route a final case can be opened again, a child can be
parted from its lead, and personal list entries stay at the status that was left. What it leaves of
the history is still a path of the chart.

## 2. The modules

```
CaseStateChart        the chart: pure operators
  StatusHistory       the rows of one appeal, the two transactions on them
    TransitionState   calls of transitionState, step by step        --implements--> CaseStatus
      LinkedReview         reviews of questionnaires of a group     --implements--> TransitionState
      HearingArrangement   hearing and inquiry handlers, publications, job
                                                                    --implements--> TransitionState
      GroupMove            a lead and its children moved by one request; publication, job
        SiteVisits         site visit handlers
          CaseEnding       decision, withdrawal, change of type, transfer
StatusHistory_proofs <- TransitionState_proofs
                          <- SerialTransition_proofs <- LinkedReview_proofs
                                                     <- HearingArrangement_proofs
                          <- GroupMove_proofs <- SiteVisits_proofs <- CaseEnding_proofs
MC<module>            instances for TLC
```

**CaseStateChart** translates `createStateMachine` and the business rules. `NextStatus(type,
procedure, elapsed, status, trigger)` is the status after `send`; where XState has no transition,
a guard that fails or an undefined target, it is the same status. Types and procedures are the
keys of the code. The type is normalised inside the operators (`isExpeditedAppealType`), as the
callers of the chart do.

**StatusHistory** gives one appeal a sequence of rows `[status, valid]` in order of `createdAt`.
`SetStatus` is `updateAppealStatusByAppealId`, `RollBackToRow` is `rollBackAppealStatusTo` once
`findFirst` chose one of `RowsWith`. Two rows of an appeal do not share a `createdAt`, and rows
commit in the order of their `createdAt`: an assumption where calls overlap, since
`updateAppealStatusByAppealId` takes the time (line 17) before its transaction begins. Writes that
commit in the other order would leave a valid row that is not the last one.

**TransitionState** has one action per awaited step of a call: `ReadAppeal` (46-107),
`RollBack`, `RollBackThrows` and `Advance` (109-113), the nested call for the event (124-136),
`ReadProofs` (138-167), and the personal list (`ReadForList`, `WriteList`, `WriteChildren`). A
call occupies a slot of `Calls`; a nested call runs in the slot of the call that waits for it
(`outer` counts those waiting: all they have left is to update the list). `Crash` ends a call at
any step and stands for a process that stops and for a query that fails. The appeal's event, the
clock and the proofs change between any two steps (`Environment`).

Actions and state correspond to the code as follows.

| Model | Code |
|---|---|
| `history`, `currentStatus` | `AppealStatus` rows, `Appeal.currentStatus` |
| `event` | `siteVisit`, `hearing` or `inquiry`: none; without visit date or address (`unplaced`); with it (`arranged`) |
| `past` | what `getEventElapsed` asks of the clock |
| `proofs` | both proofs of evidence are valid or incomplete, and not yet published |
| `personalList` | the status the due date of the entry was worked out from |
| `call[k]` | local variables of a call in progress |

**CaseStatus** is the abstract specification: a case is on a path of the chart, goes on to a new
status or back to one of the path, in one step. `TransitionState!ImplementsCaseStatus` is the
refinement, with the statuses of the rows as the path.

**LinkedReview** adds the outcomes of the questionnaires and the requests that review them:
`Load` (the middleware reads appeal, lead and children, and the guard at 79), `Record` (114),
`ReadGroup` (`buildListOfLinkedAppeals` and the barrier), `MoveNext` for each appeal of the list,
`Respond`. `Seen` says which copy of an outcome the barrier uses. `Stop` ends a request anywhere.
The module extends TransitionState, whose `Next` leaves the callers open; `ImplementsTransitionState`
says that a step of a review is a step of that specification or leaves its variables alone.

**HearingArrangement** adds requests that set up, rearrange or cancel the hearing or the inquiry of
an appeal that is not linked, that publish its statements or its proofs of evidence, and the job.
The handlers of hearings and of inquiries are twins; the kind of the appeal says which it is, and
with it whether the evidence stage lies between the statements and the event. `LoadX` reads,
`CreateHearing`, `UpdateHearing`, `DeleteHearing` and `PublishProofs` save, `Proceed` sends the
trigger that `TriggerAfter` works out from what was read, `NotifyFails` is the error after the save.
It implements TransitionState as the reviews do, with its requests in the place of the environment
too: a hearing that is saved or deleted is the event that comes, changes or goes.

**GroupMove** is `transitionLinkedChildAppealsState` and the two requests that do little else: the
publication of representations and the completed events job. `MoveChildren` starts a call for
every child that was at the lead's status when the request read them, all at once; `MoveLead`
comes when the last has returned. A request `r` moves an appeal `a` in the slot `<<r, a>>`, so the
slots of `Calls` are `Requests \X Appeals`. A call that throws ends its request
(`Promise.all` rejects) while the calls for the other children run on; `Free` says when the last of
them is done. `LoadJob` is one query of the job and its parallel moves: a child that is selected in
its own right is moved by its lead's part as well.

**SiteVisits** adds the `SiteVisit` rows of a group and the handlers that arrange (`CreateVisit`,
`CreateForChildren`), rearrange (`UpdateVisits`, `UpdateMissed`), cancel (`DeleteVisits`) and record
as missed (`RecordMissed`). `event` is the visit that transitionState sees, `missed` the one it
filters out but that the job's query and the unique key see. `Sends` and `TriggerOf` say what
follows, from the copy the request read.

**CaseEnding** adds what ends a case. `LoadX` has the guards of each handler (a withdrawal has
none), `StoreDecision`, `StoreGround` and `StoreInvalidOutcome` store the reason, `EndCase` calls
transitionState, and `EndingFails` is an e-mail or query that throws in between. The parts of a
decision on a group are `work` items of one request that run, and fail, by themselves. Recording a
missed visit is composed in, because it is the one request that reopens a case up for decision.

| Model | Code |
|---|---|
| `LinkedReview!outcome`, `review[k]` | validation outcomes of the questionnaires; what a review read and what it has left to move |
| `HearingArrangement!request[k]` | the request's copy of the appeal (`reached`, `had`, `id`) and its body (`address`) |
| `GroupMove!request[r]` | the same for a group: status, whether the rows contain the event, the children at the lead's status |
| `mishaps` | how many times something failed, or a date went by at a bad moment |
| `missed` | `SiteVisit` rows with `whoMissedSiteVisit` |
| `decision`, `stored` | `InspectorDecision`; withdrawal date, type to resubmit as, transferred case, invalid outcome |
| `work[<<r, a>>]` | how far request `r` is with the end of `a` |
| `today` in `RunJob` | the leads whose visits are today: due for the job, not yet over for the chart |

### Abstractions

- `getAppealById` is one read. Prisma may run it as several queries; a status read with rows of
  another moment is not modelled.
- The entries of the children in the personal list are written in one step (`Promise.all`), and
  the reads of `updatePersonalList` are one read.
- An appeal keeps its type, procedure and group. The appeals of a group are of one kind. (`Init` of
  TransitionState is `CaseInit` with no event; CaseEnding starts from `CaseInit` with a past visit.)
- The linked appeals feature is on.
- A date that is past is one that passes next: `SetUpEvent`, `CreateHearing` and `UpdateHearing`
  set `past` to FALSE and the clock sets it TRUE in a later step.
- "Begun" and "over" are one: a hearing that has begun can still be cancelled in the model, and
  the job may select any appeal that awaits an event. Both give the model more behaviours than
  the code, none fewer.
- `Cancel` is sent for hearings and inquiries only, as in the code. For a written householder case
  the chart would send it to `final_comments`, a stage such a case does not have.
- A rearrangement gives an address, removes it or leaves it as it is. The request may name an
  `addressId` alone; the web application only ever names the one the hearing has.
- The visits of a group have one date and it goes by for all of them at once, between two requests;
  that it goes by in the middle of one is a mishap (below), since then the calls of one request see
  the event to come and over.
- The visits of the children are created in one step (`Promise.all`), as far as there is none; a
  rearrangement updates the visits and the personal list entries of the group in one step.
- For site visits the job selects what its query does: a visit whose date or end time has come,
  missed or not. The chart waits for the next day (or for the end), so visits of today may be
  selected in vain; which groups have theirs today is open each time the job runs.
- Requests that arrange visits, publish or decide are for leads. Their routes take the id of a child
  as well; `docs/linked-appeals.md` has the lead drive its group and the web application offers these
  actions for leads only. A decision may leave out the lead, or children, but names no appeal outside
  the group, which the route (`endpoints/decision/decision.controller.js:74`) would accept too.
- A part of a request that decides works in the slot its call then takes. Of the handlers of
  SiteVisits only the recording of a missed visit runs beside the ends of a case.

## 3. The runs

| Run | Question | Size |
|---|---|---|
| `move_serial` | All triggers, all kinds, calls that fail, one at a time: is the history a path, are final statuses final, does the code implement `CaseStatus`, do calls end? | 287 000 states |
| `move_overlap` | Two overlapping calls that fail: what still holds? | 836 000 |
| `move_reopened` | Are final statuses final when calls overlap? **No** | violation |
| `move_listed` | A lead and its child are moved at the same time by calls of their own: do the personal list entries of both follow the lead? | 54 000 |
| `review_serial` | Reviews of a lead and two children one at a time: does the group move together, when complete, by one stage? | 400 |
| `review_overlap` | Two reviewers, failures: does any appeal leave before the group is complete? Do reviews use `transitionState` as its specification describes? | 540 000 |
| `review_leftbehind` | Two reviewers: does a complete group always move? **No** | violation |
| `review_retried` | A failing review made again: one stage only? **No** | violation |
| `hearing_serial` | A hearing or an inquiry, one request at a time and the job: does the stage agree with the event, is the case concluded? | 3 800 |
| `hearing_overlap` | Overlapping requests, failing e-mails: does anything but the publication end the statements stage? Do requests about hearings keep to the specification of `transitionState` and its events? | 968 000 |
| `visit_serial` | A lead and its child from statements to decision, one request or job at a time, two mishaps: does the group stay together, is every visit that is over concluded? | 85 000 |
| `ending_overlap` | Two overlapping requests that end a case or reopen it, one mishap: does a case end only with its reason stored, and a decided one as the decision says? | 1 682 000 |

**Bounds and why they suffice.**

- *Kinds*: one of each path through the chart: householder (`D`), planning by each procedure (`W`
  written, part 1, hearing, inquiry) and enforcement (`C`). The other types are synonyms of these
  in `baseCaseType` and in the LDC or enforcement test; `writtenPart2` behaves as `written` does
  except on Cancel, which it is never sent.
- *StartPath*: an imported case for `move_serial`; for the others the stage just before the one
  the run is about, since the earlier stages touch neither questionnaires nor hearings.
- *MaxRows* bounds the rows of a history. Serially a history has no repeated status, and the
  longest path of a kind with a final status has 11: 12 is never reached. With overlapping calls
  rows can repeat, and the bound (8) cuts those histories off well after the race has happened.
- *Calls*: two, as every race here is between two calls. `move_serial` has one; `move_listed` has
  two that are for different appeals.
- *Triggers* of the overlap runs are those whose interplay matters: forward, backward and one that
  ends the case. *MaxHearings* (2 or 3) bounds how many hearings are created one after another.
- *Appeals*: one for a call, and one child for the list; a lead and two children for a group, so that the order of the children
  and a third, late questionnaire matter.
- *Requests*: two in `visit_serial`, because one run of the job moves two appeals in parallel; two
  in `ending_overlap`, which overlap.
- *MaxMishaps*: two in `visit_serial` (a failure, and one of the attempt to repair it), one in
  `ending_overlap`. A mishap is a call that throws, a process that stops, an e-mail that throws
  after the save, or a date that goes by in the middle of a request.
- *Asked*, *ChildOutcomes*, *AfterTheEnd* of `ending_overlap`: requests are for the lead, and decide the
  lead, the child or both, the child as invalid, which is the outcome a child does not end as; a case that has ended
  is not withdrawn or its visit missed again, which would only add rows.
- Symmetry is used on calls, on requests or on children, and never with a liveness property.

**Fairness.** `FairSpec` assumes a call that is not cut short takes its next step (Node resumes it
when its query returns). `FairArrangementSpec` assumes the same of requests, and strong fairness of
the job for each appeal: a timer fires again and again and the query selects every appeal that is
due, so an appeal that is due again and again, though other requests come in between, is selected
in the end. Nothing is assumed of users, clocks or failures. `HearingConcluded` is stated of a
system in which nothing fails; the job retries what failed, but a request that fails for ever would
refute it. `FairVisitSpec` is the same for groups, weak for the steps of requests and calls and
strong for the job, and `VisitConcluded` holds there with failures: they are finite, and the job
selects again what a failure left. `LinkedReview` and `CaseEnding` claim no liveness.

**Deadlock** is checked in the runs of TransitionState and of SiteVisits. In the other modules the
system may stop: when the group has left the stage, when the hearing is over, or when the case has
ended, nobody has more to ask.

**What holds only of some behaviours.** `GroupTogether`, `AwaitedHasVisit` and `MissedReopens` of
SiteVisits are about moments when nothing is in progress and there was no mishap: one failure
between the children and the lead separates a group, and what the handlers do then does not bring
it together. `ChildrenFirst` and `VisitConcluded` hold whatever the mishaps. With overlapping
requests `ChildrenFirst` and `AwaitedHasVisit` fail: two publications pass the same guard, and a
cancellation that read the case before it came to await its visit sends nothing. `DecidedHasEnded`
leaves out cases whose visit was recorded as missed: that may happen while the decision is being
issued, and reopens a case that nobody can decide again, the decision being stored. In the same
way a decision whose e-mail threw cannot be retried: the unique key refuses the second one, and
the case stays up for decision (`mishaps = 0` in the property is there for that).

The runs with *serial* in their name, and their properties, say nothing of calls or requests that
overlap. Of failures `review_serial` and `hearing_serial` say nothing either; `move_serial` and
`visit_serial` have them. Where a hazard of `PROJECT.json` is an overlap or a failure that a property
would not catch, its note says so. In particular `StatusRecordedOnce` and `RollBackFindsRow` fail when
calls overlap (`LastRowIsCurrent` and `StageIsForCase` hold), the only property of overlapping requests
about a hearing is `StatementsLeftByPublication`, and of the requests about a site visit only the
recording of a missed one overlaps with anything, in `ending_overlap`.

### What the violations show

- `move_reopened`: review and withdrawal overlap; the review read the status before, writes after,
  and a withdrawn case is open again.
- `review_leftbehind`: reviewers of the lead and the child save almost together; neither request
  sees both outcomes and the group stays, though complete, until somebody makes a review again, which
  nothing calls for. The child's request cannot see the lead's
  outcome even if it reads after it: `build-list-of-linked-appeals.js:51` lets the old copy win.
- `review_retried`: one transition of a group fails; the second attempt moves those that had moved
  already out of their statements stage.

Two more were seen while choosing the specifications of the runs and are recorded as hazards:
under `ArrangementSpec`, `SetUpMovesOn` fails (an e-mail that throws after the hearing is saved
leaves a case with its hearing at the set-up stage), and with two overlapping requests
`AwaitedIsSetUp` fails (statements published twice from the same copy take the case past its set-up
stage without a hearing). The runs check these two properties where the code keeps them: one
request at a time, nothing failing.

## 4. The proofs

TLAPS proves every invariant that a passing run checks, every action property and every refinement,
for any appeals, groups, kinds, slots for calls, sets of triggers and bound on rows that satisfy
`AppealsAssumption`: a starting path is a path of the chart, without repetition, for every kind, and
ends at a stage the kind has. Each theorem also says which calls overlap and what fails, and its
hypotheses are those of the run that checks the property:

- `Serialised`: for one appeal, one call at a time (`SerialTransition_proofs`), or one request at a
  time; the moves that one request, or one run of the job, makes beside each other still overlap;
- a `Steady...` specification, in which nothing stops or throws;
- where the model starts: at the questionnaire for three theorems about reviews, `BeforeEvent`,
  `PastQuestionnaire`, `BeforeVisit`, and for the ends of a case an open one. They are conditions on the constant `StartPath`, since the models of later stages
  start at one.

*Whatever overlaps, stops or fails* (`TransitionState_proofs`):

- `TypeCorrect`, `RowsAgree`: `RowsInv == TypeOK /\ LastRowIsCurrent` is inductive: either
  transaction establishes the agreement from any rows, so it does not matter how old the decision
  is that led to it. `StatusHistory_proofs` has the lemmas about the two transactions.
- `StageCorrect`: `StageInv` adds that what a call has decided to write is a stage the appeal has,
  and that a call about to read with Cancel is for a hearing or inquiry. The chart leads from
  stages that exist to stages that exist (`NextStatusKeepsStage`), and type and procedure do not
  change, so an old decision is still a stage of the case.

*When the calls for one appeal do not overlap* (`ASSUME Serialised`, `SerialTransition_proofs`):

- `SerialInv == RowsInv /\ OneCallEach /\ WriteIsDecided`: an appeal has at most one call in
  progress, and what a call is about to write is the chart's answer for the status the appeal has
  *now*, with the flag `passed` still right. It is needed because the write happens a step after
  the read; the environment changes event and proofs in between but no status.
- From it `RollBackSucceeds`, and `MovesOrStays`: a step moves one appeal along an arc or leaves
  all alone. That gives `FinalCorrect`; with `PathInv` (no status twice, a path of the chart) it
  gives `RecordedOnce` and `PathCorrect`; and the refinement `Implements`.
- `ListedCorrect`, when in addition no call is cut short (`SteadySpec`): once the calls for a lead are
  over, the entry of every appeal of its group is worked out from the status the lead is at.
  `ListedInv` adds that what a call is about to write into the entries is for a lead and is the
  status it is at now, and that the entries of the children are written after that of the lead. A
  child's own call may overlap with that of its lead, since it leaves the entries alone.

`Serialised` is a condition on callers that the code does not enforce. The theorems say that
it is all that is missing: `move_reopened` is what happens without it.

*Reviews of a group* (`LinkedReview_proofs`), for groups of any size and any number of them:

- `ReviewTypeCorrect`, whatever overlaps or fails.
- `GroupCorrect`: whatever overlaps, stops or fails, a group leaves its questionnaires complete, if
  reviews do not overlap or nobody gives Incomplete (`NoneUndone`; otherwise an overlapping review
  could take back what the barrier saw). `KnowingInv` says what each review knows: the outcome it
  gave and the outcome of the lead that it read still stand. Hence what the barrier sees is so
  (`BarrierIsRight`), and it stays so while the list is moved.
- `GroupStaysTogether`, `NobodyForgotten`, `MovesOneStage`: when reviews are made one at a time and
  nothing fails (`Serialised`, `SteadyReviewSpec`) and the model starts at the questionnaires.
  `TogetherInv` adds that every appeal is at the questionnaire or at the stage after it, which
  depends on the kind of the group alone; that the appeals still at the questionnaire while a
  complete group moves are those on the list or in the call in progress; and that no event is set
  up, so the stage after is not left. `review_leftbehind` and `review_retried` are what happens
  without the first and without the second condition.
- `ReviewsImplement`, whatever overlaps, stops or fails: reviews implement TransitionState. A review
  that stops is a call that stops, or nothing if none is in progress, for which a slot that is free
  must keep nothing of the call before (`FreeSlots`). Hence `ReviewStageCorrect`, and, if reviews do
  not overlap, `ReviewsMoveByChart`: reviews implement CaseStatus.

*Hearings and inquiries* (`HearingArrangement_proofs`). Whatever overlaps and whichever e-mails fail:

- `ArrangementTypeCorrect`, with the agreement of rows and column.
- `StatementsCorrect`: only the publication takes a case out of its statements. `StatementsInv` says
  that while the case is there its rows hold no event, so no request can have read that it reached
  its event; that the only triggers such requests send are then Cancel, which the chart ignores at
  this stage; and that nothing leads back to the statements, so what was decided before cannot
  meet the stage again.
- `ArrangementsImplement`: the requests implement TransitionState. The environment there reviews
  proofs of evidence, and lets them be published, for inquiries only; that a publication of proofs is
  always for an inquiry (`ProofsOfInquiry`) follows from `StageInv`, as no other case has the evidence
  stage. Hence `ArrangementStageCorrect`.

And one request at a time:

- `SetUpMoves` and `AwaitedCorrect` (`SetUpMovesOn`, `AwaitedIsSetUp`), when nothing fails and the model
  starts before the event: no case is left at the set-up stage with its hearing set up, and none awaits a hearing
  that it does not have. `SetUpInv` says what a request knows: that it `had` a hearing with an address,
  and that the rows `reached` the event, are still so when it decides (`KnowsCase`); after the
  save, that the trigger it is about to send is the one that what it saved calls for; and that its
  call takes the case to where the hearing says (`CallSettles`). A case that no request is busy
  with is there (`SettledCase`). It needs `EventFirst`, that the event stage is recorded before
  the wait for it: a case that awaits its hearing has rows that reached the event, so Incomplete
  and Cancel find the row to go back to.
- `ArrangementsMoveByChart` and `ArrangementRollsBack`, whatever fails, from the refinement.

*Site visits* (`GroupMove_proofs`, `SiteVisits_proofs`), for any groups. Whatever overlaps or fails, for
any number of mishaps:

- `VisitTypeCorrect` and `GroupRowsAgree`: rows and column agree although several calls of one
  request write in parallel.
- `VisitStageCorrect`: `VisitStages` adds to `StageInv` that a request sends Complete and Incomplete only,
  so no case by written representations is sent the Cancel that its chart does not provide for.

One request at a time, each with its parallel calls, and the job with its parallel requests:

- `ChildrenPublishedFirst` (`ChildrenFirst`), whatever fails, from any stage after the questionnaire: a
  child is never at a representation stage that its lead has left. `FirstInv` counts how far an
  appeal is with its publications, which no step takes back (`ChartPublishes`). Before the lead's
  call begins its children are ahead of it; until then each child is ahead or has a call that takes it
  there (`Leading`, `TakesAhead`); a call that has decided writes a stage no child is behind
  (`CallForward`). It survives failures because a call that throws ends its request before the lead
  is called, and because the calls left running keep the request's slot from being used
  (`Alone`): a second publication does not begin beside them.
- `GroupsSettleTogether`, `AwaitedVisitExists`, `MissedVisitReopens` (`GroupTogether`, `AwaitedHasVisit`,
  `MissedReopens`), as long as there was no mishap, from a stage before the visit is awaited.
  `TogetherInv` gives each request a `Goal`, the status its lead will rest at: the trigger's
  transition and then, if the visit is arranged, the one `transitionState` adds by itself. Every appeal of
  the group is at the goal, in a call that takes it there (`OnTheWay`), or will be called and then
  settles there from where it is; the visits of lead and child are alike once they are saved
  (`VisitsAlike`), which makes the goal one for all of them. The job is the hard case: a child may
  be selected itself and as a child of its lead, and be moved twice at once. The invariant
  allows requests beside each other only if they conclude the wait for a visit, when both
  calls decide the same status and that one does not go on.
- SiteVisits implements neither TransitionState step by step (`MoveChildren` starts several calls at once)
  nor CaseStatus, even one request at a time: the two calls of the job for one child both read
  `awaiting_event` and both record the status after it, so that it is there twice. Rows and column
  still agree.

*The ends of a case* (`CaseEnding_proofs`), whatever overlaps or fails:

- `EndingTypeCorrect`, `EndsWithGround`: a case is at a status that ends it only with its reason
  stored; and `EndsByDecision` (`EndsAsDecided`): where a decision is the reason, the status is the one
  the stored decision calls for. `EndingInv` follows the reason through the request: it is stored
  before the work is `stored`, the trigger of a call implies it, the status a call is about to write
  implies it, and nothing is ever removed from what is stored. For a decision it also carries
  the outcome, and whether the appeal is a lead or a child: of requests with other outcomes only the
  one that stored its decision gets as far as a trigger. The chart leads to a final status
  by the trigger of that name only (or Invalid), or from a status that implies the reason already. It assumes that
  the model does not start at an end (the starting path ends at neither a final status nor at
  `awaiting_transfer`).

- `EndingStageCorrect` and `DecidedCaseEnds` (`DecidedHasEnded`), from an open case: when nothing is in
  progress and there was no mishap, a decided case has ended, however decisions, withdrawals,
  closings, transfers and missed visits overlapped. `DecidedInv` says that, from the decision on, the
  case has ended or there is work or a call that is about to end it (`WillEnd`), and
  that an appeal whose visit was not missed is where it started or has ended (`NotReopened`). What is
  hard is a call overtaken by another that ends the case: it may find the case ended and then goes
  nowhere, but it can never find that its own end is a status to go back to, since a case that has
  not ended has no row of an end.

*Only model-checked*: what needs fairness, which is out of the prover's reach: `CallEnds`,
`HearingConcluded` and `VisitConcluded`. The counterexamples of the three runs that expect a violation
are TLC's too. Of `ImplementsTransitionState` of HearingArrangement TLC checks the instance with hearings
under overlap; that of inquiries rests on the theorem.

## 5. Not modelled, and the plan

Not modelled: message contents, e-mail templates, documents, audit trail, the web application,
import of appeals beyond the first row, and the handlers below.

Parts of modelled components that are left out: setting up an inquiry that starts the case
(`isStartCase`), the update of the type of an appeal that stays open, the refresh of missing
personal list entries, costs decisions (`publishCostsDecision` writes documents and works out the
personal list entries again, but moves no appeal).

Other callers of `transitionState`, which the modules of the chart cover only as calls with their
triggers: `endpoints/appeal-details/appeal-details.service.js:194` (assignment),
`endpoints/appeal-timetables/appeal-timetables.service.js:509` and
`endpoints/Inquiry/inquiry.service.js:308` (start of a case),
`endpoints/link-appeals/link-appeals.service.js:570-616` (linking and unlinking) and the validation of
appellant cases. The last is also how a case ends when its enforcement notice is withdrawn
(`endpoints/cancel/cancel.service.js`), as invalid: an end that CaseEnding does not have. The roll-back
route is described in section 1.

Two behaviours, among others, are recorded as hazards without a property because the code does not say what
should happen: a visit can be rearranged when the case is already up for decision, and a group that
loses a child (withdrawn, invalid) before its questionnaire is reviewed can never be complete, since
the barrier asks for the outcome of every appeal that is linked.

Planned, in this order:

1. **Validation of appellant cases**: the second barrier of a group. It differs from the first: an
   outcome of Incomplete counts as reviewed, only appeals still at their validation are moved, and
   the lead is moved by the outcome of the review that completes the group, which may be a
   child's (`endpoints/appellant-cases/appellant-cases.service.js:167`). With it the cancellation of a
   case whose enforcement notice is withdrawn.
2. **Change of procedure**, which may leave the case at a stage it does not have: `StageIsForCase`
   with a procedure that changes, and the same for the type.
3. **Linking and unlinking** during the above, and the personal list of a changing group.
4. **Start of a case**, with its timetable, for a group and together with an inquiry.
5. An **abstract specification of a group's move**, in which a group goes from one status to the next
   in two steps, children first, and may be cut in two by a failure: `GroupMove` implements it, which
   would state in one formula what `ChildrenFirst` and `GroupTogether` say apart.
6. Proofs about the modules of 1 to 4, along the lines of those above: the barrier of the
   validations needs `KnowingInv` with the review's own outcome in place of the lead's.
