--------------------------- MODULE CommitmentDesk ---------------------------
(***************************************************************************)
(* The commitment handlers of backend/app/routers/risk.py over the tables  *)
(* of CommitmentStore: students and instructors whose requests overlap, a  *)
(* calendar that decides which weeks may be edited, and answers that get   *)
(* lost, so that clients send the same request again.                      *)
(*                                                                         *)
(* A handler checks its request against the calendar first and calls the   *)
(* store later; midnight and other handlers may come in between.  A week   *)
(* runs from its start to its end date, and days between two weeks belong  *)
(* to neither (the seeded weeks end on Fridays).                           *)
(***************************************************************************)
EXTENDS CommitmentStore, FiniteSets

CONSTANTS
    Threads,        \* worker threads, each serving one request at a time
    StartDay,       \* first day of each week
    EndDay,         \* last day of each week
    LastDay,        \* bound: the clock
    MaxRequests,    \* bound: requests received
    MaxResends      \* bound: answers lost

ASSUME CalendarOK ==
    /\ StartDay \in [Weeks -> Nat]
    /\ EndDay \in [Weeks -> Nat]
    /\ \A w \in Weeks : StartDay[w] <= EndDay[w]
    /\ \A v, w \in Weeks : v < w => EndDay[v] < StartDay[w]
    /\ LastDay \in Nat /\ MaxRequests \in Nat /\ MaxResends \in Nat

VARIABLES
    today,      \* the day the service clock shows
    step,       \* where each thread is in its handler
    request,    \* the request each thread serves
    checkedOn,  \* the day each thread last passed its checks
    from,       \* the first week an approval will take effect
    outcome,    \* how each request ended
    acceptedOn, \* history: per update row, the day its edit passed the checks
    counts      \* requests and resends so far, for the bounds

storeVars == <<baselines, updates, changeLog>>
deskVars == <<step, request, checkedOn, from, outcome>>
deskState == <<storeVars, today, deskVars, acceptedOn, counts>>

\* week = 0 and week = NumWeeks + 1 stand for weeks that are not in the term, and
\* 0, in an approval, for no week given.
Asked == 0..NumWeeks + 1

PutBaseline == [kind : {"putBaseline"}, student : Students, hours : Hours]
PutWeek == [kind : {"putWeek"}, student : Students, week : Asked, hours : Hours]
Approval == [kind : {"approve"}, row : Nat, week : Asked]
Rejection == [kind : {"reject"}, row : Nat]
Reversal == [kind : {"reverse"}, row : Nat]

NoRequest == [kind |-> "none"]

\* What clients can ask for: instructors name rows they have seen listed.
Requests ==
    PutBaseline \cup PutWeek
        \cup [kind : {"approve"}, row : DOMAIN baselines, week : Asked]
        \cup [kind : {"reject"}, row : DOMAIN baselines]
        \cup [kind : {"reverse"}, row : DOMAIN updates]

----------------------------------------------------------------------------
(* The calendar *)

\* calendar_week_number: the week of a day; a day of no week is taken to be in
\* the first week before the term, and otherwise in the last.
CalendarWeek(day) ==
    LET current == {w \in Weeks : StartDay[w] <= day /\ day <= EndDay[w]} IN
    IF current # {} THEN Earliest(current)
    ELSE IF day < StartDay[1] THEN 1 ELSE NumWeeks

\* Wrong Editable: two weeks back.
EditableTwoBack(day) == (CalendarWeek(day) - 2 .. CalendarWeek(day)) \cap Weeks

Editable(day) == (CalendarWeek(day) - 1 .. CalendarWeek(day)) \cap Weeks

\* The week an approval takes effect when the instructor names none.  Wrong: the
\* first, as resolve_hours reads a missing week.
DefaultWeekOne(day) == 1

DefaultWeek(day) == CalendarWeek(day)

----------------------------------------------------------------------------
(* Handlers *)

Receive(t, r) ==
    /\ step[t] = "idle"
    /\ counts.requests < MaxRequests
    /\ counts' = [counts EXCEPT !.requests = @ + 1]
    /\ step' = [step EXCEPT ![t] = "check"]
    /\ request' = [request EXCEPT ![t] = r]
    /\ UNCHANGED <<storeVars, today, checkedOn, from, outcome, acceptedOn>>

Respond(t, how) ==
    /\ step' = [step EXCEPT ![t] = "answer"]
    /\ outcome' = [outcome EXCEPT ![t] = how]

\* The first week of an approval, which only a valid one has.
EffectiveWeek(r, day) == IF r.week = 0 THEN DefaultWeek(day) ELSE r.week

\* Wrong Passes: the first week of an approval is not looked at.
PassesAnyWeek(r) ==
    r.kind = "putWeek" => r.week \in Weeks /\ r.week \in Editable(today)

\* The calendar checks: an editable week, a first week that is in the term.
Passes(r) ==
    CASE r.kind = "putWeek" -> r.week \in Weeks /\ r.week \in Editable(today)
      [] r.kind = "approve" -> EffectiveWeek(r, today) \in Weeks
      [] OTHER -> TRUE

Check(t) ==
    LET r == request[t] IN
    /\ step[t] = "check"
    /\ Passes(r)
    /\ step' = [step EXCEPT ![t] = "store"]
    /\ checkedOn' = [checkedOn EXCEPT ![t] = today]
    /\ from' = [from EXCEPT ![t] = IF r.kind = "approve" THEN EffectiveWeek(r, today) ELSE 0]
    /\ UNCHANGED <<storeVars, today, request, outcome, acceptedOn, counts>>

RefuseCheck(t) ==
    /\ step[t] = "check"
    /\ ~Passes(request[t])
    /\ Respond(t, "invalid")
    /\ UNCHANGED <<storeVars, today, request, checkedOn, from, acceptedOn, counts>>

\* The store operation of a request that passed its checks.
Store(t) ==
    LET r == request[t] IN
    /\ step[t] = "store"
    /\ \/ r.kind = "putBaseline" /\ SaveBaseline(r.student, r.hours)
       \/ r.kind = "putWeek" /\ SaveWeeklyUpdate(r.student, r.week, r.hours)
       \/ r.kind = "approve" /\ ApproveBaseline(r.row, from[t])
       \/ r.kind = "reject" /\ RejectBaseline(r.row)
       \/ r.kind = "reverse" /\ ReverseWeeklyUpdate(r.row)
    /\ acceptedOn' = IF r.kind = "putWeek" THEN Append(acceptedOn, checkedOn[t]) ELSE acceptedOn
    /\ Respond(t, "done")
    /\ UNCHANGED <<today, request, checkedOn, from, counts>>

\* decide_baseline and reverse_weekly_update refuse what is already done.
Conflict(r) ==
    \/ r.kind \in {"approve", "reject"} /\ ~Decidable(r.row)
    \/ r.kind = "reverse" /\ ~Reversible(r.row)

\* The answer to it.  Wrong: as if this request had done it.
ConflictIsDone == "done"

ConflictAnswer == "conflict"

RefuseStore(t) ==
    /\ step[t] = "store"
    /\ Conflict(request[t])
    /\ Respond(t, ConflictAnswer)
    /\ UNCHANGED <<storeVars, today, request, checkedOn, from, acceptedOn, counts>>

\* The client gets its answer.
Deliver(t) ==
    /\ step[t] = "answer"
    /\ step' = [step EXCEPT ![t] = "idle"]
    /\ request' = [request EXCEPT ![t] = NoRequest]
    /\ checkedOn' = [checkedOn EXCEPT ![t] = 0]
    /\ from' = [from EXCEPT ![t] = 0]
    /\ outcome' = [outcome EXCEPT ![t] = "none"]
    /\ UNCHANGED <<storeVars, today, acceptedOn, counts>>

\* The answer is lost and the client sends the same request again.
Resend(t) ==
    /\ step[t] = "answer"
    /\ counts.resends < MaxResends
    /\ counts' = [counts EXCEPT !.resends = @ + 1]
    /\ step' = [step EXCEPT ![t] = "check"]
    /\ outcome' = [outcome EXCEPT ![t] = "none"]
    /\ UNCHANGED <<storeVars, today, request, checkedOn, from, acceptedOn>>

Midnight ==
    /\ today < LastDay
    /\ today' = today + 1
    /\ UNCHANGED <<storeVars, deskVars, acceptedOn, counts>>

DeskInit ==
    /\ Init
    /\ today = 1
    /\ step = [t \in Threads |-> "idle"]
    /\ request = [t \in Threads |-> NoRequest]
    /\ checkedOn = [t \in Threads |-> 0]
    /\ from = [t \in Threads |-> 0]
    /\ outcome = [t \in Threads |-> "none"]
    /\ acceptedOn = [i \in DOMAIN SeedUpdates |-> StartDay[SeedUpdates[i].week]]
    /\ counts = [requests |-> 0, resends |-> 0]

DeskNext ==
    \/ \E t \in Threads, r \in Requests : Receive(t, r)
    \/ \E t \in Threads :
          \/ Check(t)
          \/ RefuseCheck(t)
          \/ Store(t)
          \/ RefuseStore(t)
          \/ Deliver(t)
          \/ Resend(t)
    \/ Midnight

DeskSpec == DeskInit /\ [][DeskNext]_deskState

----------------------------------------------------------------------------
(* Correctness *)

DeskTypeOK ==
    /\ TypeOK
    /\ today \in Nat
    /\ step \in [Threads -> {"idle", "check", "store", "answer"}]
    /\ request \in [Threads -> PutBaseline \cup PutWeek \cup Approval \cup Rejection \cup Reversal
                                 \cup {NoRequest}]
    /\ checkedOn \in [Threads -> Nat]
    /\ from \in [Threads -> 0..NumWeeks]
    /\ outcome \in [Threads -> {"none", "done", "invalid", "conflict"}]
    /\ acceptedOn \in Seq(Nat)
    /\ Len(acceptedOn) = Len(updates)
    /\ counts \in [requests : Nat, resends : Nat]

\* Weeks that have begun by a day.
Begun(day) == {w \in Weeks : StartDay[w] <= day}

\* An edit of (s, w) that passed its check while w was open and waits for the
\* store.
InFlight(s, w) ==
    \E t \in Threads :
        /\ step[t] = "store"
        /\ request[t].kind = "putWeek"
        /\ request[t].student = s
        /\ request[t].week = w
        /\ w + 2 \notin Begun(checkedOn[t])

\* Older weeks are locked (spec.md, Edit window): once two later weeks have
\* begun, only an edit that was already accepted, or a reversal by an instructor,
\* changes which edit of a week is live.
OlderWeeksAreLocked ==
    [][\A s \in Students, w \in Weeks :
          w + 2 \in Begun(today) /\ ~InFlight(s, w) =>
             \/ Live(updates', s, w) = Live(updates, s, w)
             \/ \E i \in DOMAIN updates : ~updates[i].reversed /\ updates'[i].reversed
      ]_deskState

\* The baselines of s that have been decided, the seeded decisions apart.
DecidedSince(s) ==
    {i \in DOMAIN baselines :
        /\ baselines[i].student = s
        /\ baselines[i].status # "pending"
        /\ i \in DOMAIN SeedBaselines => SeedBaselines[i].status = "pending"}

\* A decision is logged once, however often it is asked for: by two instructors
\* at the same time, or by one whose answer was lost.
EveryDecisionIsLoggedOnce ==
    \A s \in Students :
        Cardinality(LoggedFor(s, {"baseline.approve", "baseline.reject"})) =
            Cardinality(DecidedSince(s))

\* Whoever is told that a decision or a reversal is done has done it: two
\* instructors are never both told so about the same row.
DoneIsDone ==
    \A t, u \in Threads :
        LET r == request[t]
            q == request[u]
        IN  t # u /\ outcome[t] = "done" /\ outcome[u] = "done" =>
               /\ r.kind \in {"approve", "reject"} /\ q.kind \in {"approve", "reject"} =>
                     r.row # q.row
               /\ r.kind = "reverse" /\ q.kind = "reverse" => r.row # q.row

\* An approval without a week leaves the weeks that are over alone: none of them
\* starts to count baseline hours (spec.md, Effective week), even when the
\* decision reaches the store days after its check.  After the term the last
\* week stands for today.
DefaultKeepsEarlierWeeks ==
    [][\A t \in Threads, w \in Weeks :
          LET r == request[t]
              s == baselines[r.row].student
          IN  /\ Store(t)
              /\ r.kind = "approve" /\ r.week = 0
              /\ EndDay[w] < checkedOn[t] /\ checkedOn[t] <= EndDay[NumWeeks]
              => HoursInEffectNext(s, w).source # "baseline"
      ]_deskState

\* spec.md, Edit window: future weeks follow the baseline.  Within the term no
\* edit should be accepted for a week that has not begun.
FutureWeeksFollowTheBaseline ==
    \A i \in DOMAIN updates :
        acceptedOn[i] \in StartDay[1]..EndDay[NumWeeks] =>
            updates[i].week \in Begun(acceptedOn[i])

=============================================================================
