-------------------------- MODULE CommitmentStore --------------------------
(***************************************************************************)
(* The time-commitment tables of one class in SqlAlchemyStore              *)
(* (backend/app/store.py): semester baselines, weekly updates and the      *)
(* change log.  Every operation runs under the store's lock and commits    *)
(* its rows and its log entry in one transaction, so it is one action.     *)
(*                                                                         *)
(* Rows are kept in primary-key order.  Nothing deletes a row, so a row is *)
(* named by its position, which is also the number NextId gives it.        *)
(* Hours, a triple {work, childcare, eldercare} in the code, are one value.*)
(* An operation that raises KeyError or ValueError changes nothing and is  *)
(* an action that is not enabled.                                          *)
(***************************************************************************)
EXTENDS Integers, Sequences

CONSTANTS
    Students,       \* students of the class
    NumWeeks,       \* weeks of the term, numbered 1..NumWeeks
    Hours,          \* values an hours triple can take
    ZeroHours,      \* the triple of zeros: no commitments, factor 1.00
    NoValues,       \* a NULL old_values column in the change log
    SeedBaselines,  \* baseline rows inserted by _seed into a new database
    SeedUpdates,    \* weekly-update rows inserted by _seed
    MaxBaselines,   \* bound: baseline rows ever created
    MaxUpdates,     \* bound: weekly-update rows ever created
    MaxChanges      \* bound: logged changes

Weeks == 1..NumWeeks

BaselineStatus == {"pending", "approved", "rejected", "superseded"}

\* effectiveFrom = 0 stands for a NULL effective_from_week.
Baseline == [student : Students, hours : Hours, status : BaselineStatus,
             effectiveFrom : 0..NumWeeks]

\* reversed: reversed_at is set.  supersededBy = 0 stands for NULL.
Update == [student : Students, week : Weeks, hours : Hours,
           reversed : BOOLEAN, supersededBy : Nat]

LogAction == {"baseline.submit", "baseline.approve", "baseline.reject",
              "weekly.set", "weekly.reverse"}

\* week = 0 stands for a NULL week_id; from is the effective_from_week that an
\* approval adds to its new values, 0 in every other entry.
LogEntry == [action : LogAction, student : Students, week : 0..NumWeeks,
             old : Hours \cup {NoValues}, new : Hours, from : 0..NumWeeks]

ASSUME ConstantsOK ==
    /\ NumWeeks \in Nat \ {0}
    /\ ZeroHours \in Hours
    /\ NoValues \notin Hours
    /\ MaxBaselines \in Nat
    /\ MaxUpdates \in Nat
    /\ MaxChanges \in Nat

\* What toy_seed.py inserts: at most one approved baseline per student, no
\* superseded rows, and at most one unreversed update per student and week.
ASSUME SeedOK ==
    /\ SeedBaselines \in Seq(Baseline)
    /\ \A i, j \in DOMAIN SeedBaselines :
          /\ SeedBaselines[i].status = "approved"
          /\ SeedBaselines[j].status = "approved"
          /\ SeedBaselines[i].student = SeedBaselines[j].student
          => i = j
    /\ SeedUpdates \in Seq(Update)
    /\ \A i \in DOMAIN SeedUpdates : SeedUpdates[i].supersededBy = 0
    /\ \A i, j \in DOMAIN SeedUpdates :
          /\ ~SeedUpdates[i].reversed
          /\ ~SeedUpdates[j].reversed
          /\ SeedUpdates[i].student = SeedUpdates[j].student
          /\ SeedUpdates[i].week = SeedUpdates[j].week
          => i = j

VARIABLES baselines, updates, changeLog

vars == <<baselines, updates, changeLog>>

----------------------------------------------------------------------------
(* Queries *)

Earliest(rows) == CHOOSE i \in rows : \A j \in rows : i <= j
Newest(rows) == CHOOSE i \in rows : \A j \in rows : j <= i

\* The id given to a new row: one more than the largest number in use.
NextId(table) == Len(table) + 1

\* Wrong Approved: a submission counts without a decision.
ApprovedOrPending(table, s) ==
    {i \in DOMAIN table :
        table[i].student = s /\ table[i].status \in {"approved", "pending"}}

Approved(table, s) ==
    {i \in DOMAIN table : table[i].student = s /\ table[i].status = "approved"}

\* Submissions of s that an approval has not displaced.
Shown(s) ==
    {i \in DOMAIN baselines :
        baselines[i].student = s /\ baselines[i].status # "superseded"}

\* Wrong Live: a reversed edit still counts.
LiveOrReversed(table, s, w) ==
    {i \in DOMAIN table : /\ table[i].student = s
                          /\ table[i].week = w
                          /\ table[i].supersededBy = 0}

\* Rows of (s, w) neither reversed nor replaced by a later edit.
Live(table, s, w) ==
    {i \in DOMAIN table : /\ table[i].student = s
                          /\ table[i].week = w
                          /\ ~table[i].reversed
                          /\ table[i].supersededBy = 0}

\* Wrong ReplacedBy: a reversal leaves the earlier edit hidden.
ReplacedByNone(i) == {}

\* The rows whose superseded_by names row i.
ReplacedBy(i) == {k \in DOMAIN updates : updates[k].supersededBy = i}

\* A baseline approved without a first week counts from the first of the term.
FirstWeek(row) == IF row.effectiveFrom = 0 THEN 1 ELSE row.effectiveFrom

\* Which hours apply to student s in week w, and where they come from.
ResolveHours(bs, us, s, w) ==
    LET approved == Approved(bs, s)
        live == Live(us, s, w)
        active == bs[Newest(approved)]
    IN  IF approved = {} THEN [hours |-> ZeroHours, source |-> "none"]
        ELSE IF live # {} THEN [hours |-> us[Earliest(live)].hours, source |-> "weekly"]
        ELSE IF w >= FirstWeek(active) THEN [hours |-> active.hours, source |-> "baseline"]
        ELSE [hours |-> ZeroHours, source |-> "before-effective"]

HoursInEffect(s, w) == ResolveHours(baselines, updates, s, w)

----------------------------------------------------------------------------
(* Operations *)

AddLog(action, s, w, old, new, from) ==
    /\ Len(changeLog) < MaxChanges
    /\ changeLog' = Append(changeLog,
          [action |-> action, student |-> s, week |-> w,
           old |-> old, new |-> new, from |-> from])

\* A query without ORDER BY returns any of the rows; NULL when there is none.
AnyOf(rows) == IF rows = {} THEN {0} ELSE rows

\* A decision is taken once.  Wrong: a rejection is final, an approval is not.
DecidableAgain(i) == baselines[i].status # "rejected"

Decidable(i) == baselines[i].status = "pending"

\* An approval displaces the student's approved baselines.  Wrong: it displaces
\* none, or only those submitted before the one it approves.
DisplacedNone(i) == {}

DisplacedOlder(i) == {j \in Approved(baselines, baselines[i].student) : j < i}

Displaced(i) == Approved(baselines, baselines[i].student)

SaveBaseline(s, h) ==
    /\ NextId(baselines) <= MaxBaselines
    /\ baselines' = Append(baselines,
          [student |-> s, hours |-> h, status |-> "pending", effectiveFrom |-> 0])
    /\ AddLog("baseline.submit", s, 0,
              IF Shown(s) = {} THEN NoValues ELSE baselines[Newest(Shown(s))].hours,
              h, 0)
    /\ UNCHANGED updates

ApproveBaseline(i, from) ==
    LET s == baselines[i].student
        prior == Displaced(i)
    IN  /\ Decidable(i)
        /\ baselines' = [j \in DOMAIN baselines |->
              IF j = i
              THEN [baselines[j] EXCEPT !.status = "approved", !.effectiveFrom = from]
              ELSE IF j \in prior THEN [baselines[j] EXCEPT !.status = "superseded"]
              ELSE baselines[j]]
        /\ \E j \in AnyOf(prior) :
              AddLog("baseline.approve", s, 0,
                     IF j = 0 THEN NoValues ELSE baselines[j].hours,
                     baselines[i].hours, from)
        /\ UNCHANGED updates

RejectBaseline(i) ==
    /\ Decidable(i)
    /\ baselines' = [baselines EXCEPT ![i].status = "rejected"]
    /\ AddLog("baseline.reject", baselines[i].student, 0, NoValues, baselines[i].hours, 0)
    /\ UNCHANGED updates

\* The new row takes over from the row it replaces, which stays in the table so
\* that a reversal can restore it.
SaveWeeklyUpdate(s, w, h) ==
    LET id == NextId(updates)
        before == HoursInEffect(s, w)
        new == [student |-> s, week |-> w, hours |-> h,
                reversed |-> FALSE, supersededBy |-> 0]
    IN  /\ id <= MaxUpdates
        /\ \E current \in AnyOf(Live(updates, s, w)) :
              updates' = [k \in 1..id |->
                 IF k = id THEN new
                 ELSE IF k = current THEN [updates[k] EXCEPT !.supersededBy = id]
                 ELSE updates[k]]
        /\ AddLog("weekly.set", s, w,
                  IF before.source \in {"baseline", "weekly"} THEN before.hours ELSE NoValues,
                  h, 0)
        /\ UNCHANGED baselines

\* Only a live edit can be reversed.  Wrong: a replaced edit can be, too.
ReversibleIfReplaced(i) == ~updates[i].reversed

Reversible(i) == ~updates[i].reversed /\ updates[i].supersededBy = 0

\* The hours a reversal logs: those in effect once it is done.  Wrong: those
\* before it, or all that resolve_hours returns.
HoursBefore(s, w) == ResolveHours(baselines, updates, s, w).hours

ResolvedAfter(s, w) == ResolveHours(baselines, updates', s, w)

HoursAfter(s, w) == ResolveHours(baselines, updates', s, w).hours

ReverseWeeklyUpdate(i) ==
    LET s == updates[i].student
        w == updates[i].week
    IN  /\ Reversible(i)
        /\ \E replaced \in AnyOf(ReplacedBy(i)) :
              updates' = [k \in DOMAIN updates |->
                 IF k = i THEN [updates[k] EXCEPT !.reversed = TRUE]
                 ELSE IF k = replaced THEN [updates[k] EXCEPT !.supersededBy = 0]
                 ELSE updates[k]]
        /\ AddLog("weekly.reverse", s, w, updates[i].hours, HoursAfter(s, w), 0)
        /\ UNCHANGED baselines

Init ==
    /\ baselines = SeedBaselines
    /\ updates = SeedUpdates
    /\ changeLog = <<>>

Next ==
    \/ \E s \in Students, h \in Hours : SaveBaseline(s, h)
    \/ \E i \in DOMAIN baselines, from \in Weeks : ApproveBaseline(i, from)
    \/ \E i \in DOMAIN baselines : RejectBaseline(i)
    \/ \E s \in Students, w \in Weeks, h \in Hours : SaveWeeklyUpdate(s, w, h)
    \/ \E i \in DOMAIN updates : ReverseWeeklyUpdate(i)

Spec == Init /\ [][Next]_vars

----------------------------------------------------------------------------
(* Correctness *)

\* Every table holds rows of its declared columns (db_models.py).
TypeOK ==
    /\ baselines \in Seq(Baseline)
    /\ updates \in Seq(Update)
    /\ changeLog \in Seq(LogEntry)

\* However submissions and decisions interleave, a student never has two
\* approved baselines: decide_baseline displaces the old one as it approves.
OneApproved ==
    \A i, j \in DOMAIN baselines :
        /\ baselines[i].status = "approved"
        /\ baselines[j].status = "approved"
        /\ baselines[i].student = baselines[j].student
        => i = j

SameSlot(i, j) ==
    /\ updates[i].student = updates[j].student
    /\ updates[i].week = updates[j].week

\* Row i is outside every chain when it is reversed, and otherwise names the
\* next unreversed edit of its week, if there is one.
Linked(i) ==
    LET next == updates[i].supersededBy IN
    IF updates[i].reversed THEN next = 0
    ELSE /\ next # 0 => /\ next \in DOMAIN updates
                        /\ next > i
                        /\ SameSlot(i, next)
                        /\ ~updates[next].reversed
         /\ \A k \in DOMAIN updates :
               k > i /\ SameSlot(i, k) /\ ~updates[k].reversed => next # 0 /\ next <= k

\* The unreversed edits of a student's week form one chain in the order they
\* were entered: each names the next as the edit that replaced it, and only the
\* last is live.  So save_weekly_update and reverse_weekly_update never leave
\* two live values for a week, nor a hidden value no reversal can bring back.
EditChain == \A i \in DOMAIN updates : Linked(i)

\* Entries of the change log about student s with one of the given actions.
LoggedFor(s, actions) ==
    {n \in DOMAIN changeLog :
        changeLog[n].student = s /\ changeLog[n].action \in actions}

\* The baseline that counts is the one approved last, whatever the order the
\* submissions came in: the newest approval in the change log gives its hours
\* and its first week (active_baseline reads the table by primary key, not by
\* time of decision).
LatestApprovalCounts ==
    \A s \in Students :
        LET approvals == LoggedFor(s, {"baseline.approve"})
            approved == Approved(baselines, s)
            entry == changeLog[Newest(approvals)]
            active == baselines[Newest(approved)]
        IN  approvals # {} =>
                /\ approved # {}
                /\ active.hours = entry.new
                /\ active.effectiveFrom = entry.from

\* Hours that count for (s, w) in the next state.
HoursInEffectNext(s, w) == ResolveHours(baselines', updates', s, w)

Counted(old) == IF old = NoValues THEN ZeroHours ELSE old

\* No change of hours goes unlogged (spec.md, Change log): a step that changes
\* the hours counted for a student's week adds exactly one entry, about that
\* student.  A weekly entry names the week with the hours before and after; an
\* approval gives the hours of every week from its first one, except the weeks
\* whose edits were stored before any baseline counted and take effect with it.
ChangesAreLogged ==
    [][\A s \in Students, w \in Weeks :
          LET before == HoursInEffect(s, w)
              after == HoursInEffectNext(s, w)
              entry == changeLog'[Len(changeLog')]
          IN  before.hours # after.hours =>
                  /\ Len(changeLog') = Len(changeLog) + 1
                  /\ SubSeq(changeLog', 1, Len(changeLog)) = changeLog
                  /\ entry.student = s
                  /\ \/ /\ entry.action \in {"weekly.set", "weekly.reverse"}
                        /\ entry.week = w
                        /\ Counted(entry.old) = before.hours
                        /\ entry.new = after.hours
                     \/ /\ entry.action = "baseline.approve"
                        /\ IF after.source = "weekly" THEN before.source = "none"
                           ELSE after.hours = IF w >= entry.from THEN entry.new ELSE ZeroHours
      ]_vars

\* Submitting or rejecting a baseline never moves a score: until an instructor
\* approves, the old baseline and the weekly updates count as before.
PendingIsInert ==
    [][(\E s \in Students, h \in Hours : SaveBaseline(s, h))
       \/ (\E i \in DOMAIN baselines : RejectBaseline(i))
       => \A s \in Students, w \in Weeks : HoursInEffectNext(s, w) = HoursInEffect(s, w)
      ]_vars

\* A decision is final: an approved baseline can only be displaced, and a
\* rejected or displaced one never counts again.
DecisionsAreFinal ==
    [][\A i \in DOMAIN baselines :
          LET old == baselines[i]
              new == baselines'[i]
          IN  /\ old.status \in {"rejected", "superseded"} => new = old
              /\ old.status = "approved" => new \in {old, [old EXCEPT !.status = "superseded"]}
      ]_vars

\* Reversing an edit brings back exactly the value it had replaced: the newest
\* earlier edit of that week that is not itself reversed, or the baseline.
ReversalRestores ==
    [][\A i \in DOMAIN updates :
          ~updates[i].reversed /\ updates'[i].reversed =>
             LET s == updates[i].student
                 w == updates[i].week
                 earlier == {k \in 1..(i - 1) : SameSlot(k, i) /\ ~updates[k].reversed}
             IN  Live(updates', s, w) = IF earlier = {} THEN {} ELSE {Newest(earlier)}
      ]_vars

\* spec.md, Baseline change: a new baseline replaces the old one from the chosen
\* week, and earlier weeks keep their factors.  decide_baseline does not: it
\* displaces the old baseline altogether, so earlier weeks fall to zero hours.
EarlierWeeksKeepTheirHours ==
    [][\A i \in DOMAIN baselines, from \in Weeks :
          LET s == baselines[i].student IN
          ApproveBaseline(i, from) /\ Approved(baselines, s) # {} =>
             \A w \in 1..(from - 1) :
                HoursInEffectNext(s, w).hours = HoursInEffect(s, w).hours
      ]_vars

============================================================================
