--------------------------- MODULE StatusHistory ----------------------------
(***************************************************************************)
(* The AppealStatus rows of one appeal and the two transactions that       *)
(* change them.  A history is the sequence of the appeal's rows in the     *)
(* order of createdAt; each transaction is one atomic operator, as         *)
(* $transaction makes it.  Two rows of an appeal never share a createdAt   *)
(* here, and rows commit in the order of their createdAt.                  *)
(***************************************************************************)
EXTENDS Naturals, Sequences, CaseStateChart

StatusRow == [status : Status, valid : BOOLEAN]

\* Mutant: the statuses of the valid rows.
CompletedStatesOfValid(history) ==
    {history[i].status : i \in {j \in DOMAIN history : history[j].valid}}

\* The statuses of the rows that are no longer valid: mapCompletedStateList.
CompletedStates(history) ==
    {history[i].status : i \in {j \in DOMAIN history : ~history[j].valid}}

isStatePassed(history, newState) == newState \in CompletedStates(history)

\* Mutant: the older rows stay valid.
SetStatusOnly(history, status) == Append(history, [status |-> status, valid |-> TRUE])

\* updateAppealStatusByAppealId: every row is made invalid, a valid row is
\* added at the end.
SetStatus(history, status) ==
    Append([i \in DOMAIN history |-> [history[i] EXCEPT !.valid = FALSE]],
           [status |-> status, valid |-> TRUE])

\* Mutants: findFirst looks at valid rows only, or at rows of any status.
ValidRowsWith(history, status) ==
    {i \in DOMAIN history : history[i].status = status /\ history[i].valid}
AnyRow(history, status) == DOMAIN history

\* The rows findFirst may return: it is given no order, so any match.
RowsWith(history, status) == {i \in DOMAIN history : history[i].status = status}

\* Mutant: the row itself is deleted with those created after it.
RollBackBeforeRow(history, i) == [j \in 1..(i - 1) |-> history[j]]

\* rollBackAppealStatusTo row i: the rows created after it are deleted and it
\* is made valid again.
RollBackToRow(history, i) ==
    [j \in 1..i |-> IF j = i THEN [history[i] EXCEPT !.valid = TRUE] ELSE history[j]]

-----------------------------------------------------------------------------
(* What makes a history well formed.                                       *)

\* Exactly one row is valid, and it is the last one.
OnlyLastRowValid(history) ==
    /\ history # << >>
    /\ \A i \in DOMAIN history : history[i].valid <=> (i = Len(history))

StatusesDistinct(history) ==
    \A i, j \in DOMAIN history : history[i].status = history[j].status => i = j

\* Each row's status is one arc of the chart away from the row before it.
FollowsChart(type, procedure, history) ==
    \A i \in DOMAIN history :
        i > 1 => IsArc(type, procedure, history[i - 1].status, history[i].status)
=============================================================================
