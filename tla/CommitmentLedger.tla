-------------------------- MODULE CommitmentLedger --------------------------
(***************************************************************************)
(* What the commitment tables of backend/app/store.py promise, without     *)
(* rows, status columns or superseded_by: per student the baseline that    *)
(* counts and the submissions waiting for a decision, and per week the     *)
(* edits in force, newest on top.  A reversal takes the top edit off and   *)
(* so uncovers the one below it.                                           *)
(***************************************************************************)
EXTENDS Integers

CONSTANTS
    Students,
    NumWeeks,
    Hours,
    ZeroHours,
    EditNumbers     \* numbers that order the edits of a week

Weeks == 1..NumWeeks

NoBaseline == [hours |-> ZeroHours, from |-> 0]

VARIABLES
    submitted,  \* number of baselines submitted so far
    waiting,    \* submissions not yet decided
    active,     \* the baseline that counts for each student
    edits       \* the edits in force for each student and week

vars == <<submitted, waiting, active, edits>>

Top(stack) == CHOOSE e \in stack : \A other \in stack : other.number <= e.number

HoursInForce(s, w) ==
    IF active[s] = NoBaseline THEN ZeroHours
    ELSE IF edits[s][w] # {} THEN Top(edits[s][w]).hours
    ELSE IF w >= active[s].from THEN active[s].hours
    ELSE ZeroHours

\* A student submits a semester baseline; nothing counts differently yet.
Submit(s, h) ==
    /\ submitted' = submitted + 1
    /\ waiting' = waiting \cup {[number |-> submitted', student |-> s, hours |-> h]}
    /\ UNCHANGED <<active, edits>>

\* An instructor decides a waiting submission, once.
Approve(request, from) ==
    /\ waiting' = waiting \ {request}
    /\ active' = [active EXCEPT ![request.student] = [hours |-> request.hours, from |-> from]]
    /\ UNCHANGED <<submitted, edits>>

Reject(request) ==
    /\ waiting' = waiting \ {request}
    /\ UNCHANGED <<submitted, active, edits>>

\* A student's edit goes on top of the week's earlier edits.
Edit(s, w, number, h) ==
    /\ \A e \in edits[s][w] : e.number < number
    /\ edits' = [edits EXCEPT ![s][w] = @ \cup {[number |-> number, hours |-> h]}]
    /\ UNCHANGED <<submitted, waiting, active>>

\* An instructor reverses the top edit of a week.
Undo(s, w) ==
    /\ edits[s][w] # {}
    /\ edits' = [edits EXCEPT ![s][w] = @ \ {Top(@)}]
    /\ UNCHANGED <<submitted, waiting, active>>

Next ==
    \/ \E s \in Students, h \in Hours : Submit(s, h)
    \/ \E request \in waiting, from \in Weeks : Approve(request, from)
    \/ \E request \in waiting : Reject(request)
    \/ \E s \in Students, w \in Weeks, h \in Hours, number \in EditNumbers :
          Edit(s, w, number, h)
    \/ \E s \in Students, w \in Weeks : Undo(s, w)

\* The first state is whatever the database was seeded with.
Spec == [][Next]_vars

=============================================================================
