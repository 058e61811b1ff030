----------------------------- MODULE CaseStatus -----------------------------
(***************************************************************************)
(* What moving a case along the state chart promises: a case is on one     *)
(* path of the chart, and a trigger takes it, in one step, from the status *)
(* it is at to the chart's next status.  A status the path has been        *)
(* through is gone back to, and the path forgets what came after it.       *)
(*                                                                         *)
(* This is the abstract specification; TransitionState implements it when  *)
(* the calls for one appeal do not overlap.                                *)
(***************************************************************************)
EXTENDS Naturals, Sequences, CaseStateChart

CONSTANTS
    Appeals,    \* the appeals
    Kinds,      \* the kinds of appeal: a type and a procedure
    StartPath   \* the path an appeal has been through when the model starts

VARIABLES
    kind,       \* the type and procedure of each appeal
    path        \* the statuses that led the appeal to the one it is at

vars == <<kind, path>>

Current(a) == path[a][Len(path[a])]

Init ==
    /\ kind \in [Appeals -> Kinds]
    /\ path = [a \in Appeals |-> StartPath]

\* The case goes on to a status it has not been through.
GoOn(a, status) ==
    /\ \A i \in DOMAIN path[a] : path[a][i] # status
    /\ path' = [path EXCEPT ![a] = Append(path[a], status)]

\* The case goes back to a status it has been through.
GoBack(a, status) ==
    \E i \in DOMAIN path[a] :
        /\ path[a][i] = status
        /\ path' = [path EXCEPT ![a] = [j \in 1..i |-> path[a][j]]]

Transition(a) ==
    \E elapsed \in BOOLEAN, trigger \in Trigger :
        LET status == NextStatus(kind[a].type, kind[a].procedure, elapsed, Current(a), trigger)
        IN  /\ status # Current(a)
            /\ GoOn(a, status) \/ GoBack(a, status)
            /\ UNCHANGED kind

Next == \E a \in Appeals : Transition(a)

Spec == Init /\ [][Next]_vars
=============================================================================
