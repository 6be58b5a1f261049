----------------------------- MODULE RiskSignals -----------------------------
(***************************************************************************)
(* Who may need help (frontend/services/risk.js and its use in api.js,     *)
(* which backend/app/risk.py and routers/risk.py repeat): five signals     *)
(* over a student's weeks up to one, the level they give, the digest of a  *)
(* week against the week before, and the history shown with a record.      *)
(* The class is that of Ranking; the instructor also tunes thresholds.     *)
(***************************************************************************)
EXTENDS Ranking

CONSTANTS
    Joined,         \* first week of each student
    Homework,       \* the criterion whose unit is an assignment
    RatedCriteria,  \* criteria with a threshold on their share to date
    SeedRisk,       \* risk settings of a new class
    RiskPatches     \* what the instructor saves: some thresholds, some switches

Signals == {"downward_trend", "missed_engagement", "low_projected_grade",
            "heavy_commitments", "missing_data"}

Thresholds == [declineWeeks : Nat, missedAssignments : Nat, share : [RatedCriteria -> Nat],
               projectedGrade : Nat, commitmentHours : Nat, missingWeeks : Nat]

RiskSettings == [thresholds : Thresholds, active : [Signals -> BOOLEAN]]

ASSUME RiskConstants ==
    /\ Joined \in [Students -> Weeks]
    /\ Homework \in Criteria /\ RatedCriteria \subseteq Criteria
    /\ SeedRisk \in RiskSettings
    /\ \A patch \in RiskPatches :
          /\ Merged(patch.thresholds, SeedRisk.thresholds) \in Thresholds
          /\ Merged(patch.active, SeedRisk.active) \in [Signals -> BOOLEAN]

VARIABLE risk       \* the class's risk settings

riskVars == <<snapshot, changes, risk>>

----------------------------------------------------------------------------
(* What is measured over a student's weeks up to week v (riskWeekly, measure) *)

\* Wrong: weeks after v count too.
WeeksOfTheTerm(s, v) == Joined[s] .. NumWeeks

WeeksUpTo(s, v) == Joined[s] .. v

HasEntries(snap, s, w) == \E c \in Criteria : snap.marks[s][w][c] # NoMark

\* A week's score over all criteria; there is none without points and weights.
FullView == [criteria |-> Criteria]

HasScore(snap, s, w) == Present(snap, FullView, s, w) # {}

ScoresUpTo(snap, s, v) ==
    LET scored == {w \in WeeksUpTo(s, v) : HasScore(snap, s, w)} IN
    [i \in 1..Cardinality(scored) |-> Raw(snap, FullView, s, InOrder(scored, <)[i])]

\* How many weeks in a row the score fell, counting back from the last.
\* Wrong: the weeks are taken newest first.
RiseRun(scores) ==
    LET run[i \in DOMAIN scores] ==
            IF i > 1 /\ scores[i] > scores[i - 1] THEN 1 + run[i - 1] ELSE 0
    IN  IF scores = <<>> THEN 0 ELSE run[Len(scores)]

DeclineRun(scores) ==
    LET run[i \in DOMAIN scores] ==
            IF i > 1 /\ scores[i] < scores[i - 1] THEN 1 + run[i - 1] ELSE 0
    IN  IF scores = <<>> THEN 0 ELSE run[Len(scores)]

\* The longest run of weeks with no entries at all.
\* Wrong: an unfinished run at the end is not compared with the best.
ClosedMissingRun(snap, s, v) ==
    LET run[w \in WeeksUpTo(s, v)] ==
            IF HasEntries(snap, s, w) THEN 0
            ELSE 1 + (IF w > Joined[s] THEN run[w - 1] ELSE 0)
    IN  Max({0} \cup {run[w] : w \in {u \in WeeksUpTo(s, v - 1) : HasEntries(snap, s, u + 1)}})

MissingRun(snap, s, v) ==
    LET run[w \in WeeksUpTo(s, v)] ==
            IF HasEntries(snap, s, w) THEN 0
            ELSE 1 + (IF w > Joined[s] THEN run[w - 1] ELSE 0)
    IN  Max({0} \cup {run[w] : w \in WeeksUpTo(s, v)})

\* Assignments that were set and not handed in at all.
Missed(snap, s, v) ==
    Cardinality({w \in WeeksUpTo(s, v) :
        LET mark == snap.marks[s][w][Homework] IN
        mark # NoMark /\ mark.possible > 0 /\ mark.earned = 0})

\* The share of a criterion's points to date is under the threshold; no points,
\* no share.
ShareBelow(snap, s, v, c, percent) ==
    LET marked == {w \in WeeksUpTo(s, v) : snap.marks[s][w][c] # NoMark}
        earned == [w \in marked |-> snap.marks[s][w][c].earned]
        possible == [w \in marked |-> snap.marks[s][w][c].possible]
    IN  100 * SumFunction(earned) < percent * SumFunction(possible)

\* The mean score to date is under the threshold; no scores, no projection.
\* Wrong: over it.
ProjectedAbove(scores, grade) ==
    SumFunction(scores) > grade * Unit * Len(scores)

ProjectedBelow(scores, grade) ==
    SumFunction(scores) < grade * Unit * Len(scores)

----------------------------------------------------------------------------
(* Signals and level (evaluateSignals) *)

\* A count is on from its threshold, a share or a mean below it.
Firing(snap, t, s, v) ==
    {signal \in Signals :
        \/ signal = "downward_trend" /\ DeclineRun(ScoresUpTo(snap, s, v)) >= t.declineWeeks
        \/ signal = "missed_engagement" /\ Missed(snap, s, v) >= t.missedAssignments
        \/ signal = "missed_engagement"
           /\ \E c \in RatedCriteria : ShareBelow(snap, s, v, c, t.share[c])
        \/ signal = "low_projected_grade"
           /\ ProjectedBelow(ScoresUpTo(snap, s, v), t.projectedGrade)
        \/ signal = "heavy_commitments" /\ snap.hours[s][v] >= t.commitmentHours
        \/ signal = "missing_data" /\ MissingRun(snap, s, v) >= t.missingWeeks}

SignalsOn(snap, rs, s, v) == {signal \in Firing(snap, rs.thresholds, s, v) : rs.active[signal]}

\* Not flagged, Watch, At risk, High risk.
LevelFor(on) == Lesser(Cardinality(on), 3)

Level(snap, rs, s, v) == LevelFor(SignalsOn(snap, rs, s, v))

EvaluateClass(snap, rs, v) == [s \in Students |-> SignalsOn(snap, rs, s, v)]

----------------------------------------------------------------------------
(* Which week is evaluated, and what is shown of it *)

\* latestCompleteWeek: the last week with 80% of the busiest week's entries.
EvaluationWeek(snap) ==
    LET entries(w) == Cardinality({sc \in Students \X Criteria : snap.marks[sc[1]][w][sc[2]] # NoMark})
        busiest == Max({entries(w) : w \in Weeks})
    IN  IF busiest = 0 THEN 1 ELSE Max({w \in Weeks : 5 * entries(w) >= 4 * busiest})

\* diffState: the signals on of a student against those of the week before.
Status(was, is) ==
    CASE was = {} /\ is # {} -> "new"
      [] was # {} /\ is # {} -> "still"
      [] was # {} /\ is = {} -> "cleared"
      [] was = {} /\ is = {} -> "quiet"

\* Before week 1 there is nothing to compare with.  Wrong: week 1 itself.
PriorFromWeekOne(snap, rs, v) == EvaluateClass(snap, rs, Larger(1, v - 1))

Prior(snap, rs, v) ==
    IF v > 1 THEN EvaluateClass(snap, rs, v - 1) ELSE [s \in Students |-> {}]

\* digestGroup: one class's block of the digest for a week.
Digest(snap, rs, v) ==
    LET now == EvaluateClass(snap, rs, v)
        before == Prior(snap, rs, v)
    IN  {[student |-> s, level |-> LevelFor(now[s]), status |-> Status(before[s], now[s])] :
            s \in {u \in Students : Status(before[u], now[u]) # "quiet"}}

\* getRiskRecord: levels from the student's second possible week up to the
\* evaluation week, all with the settings of the moment.
History(snap, rs, s) ==
    [v \in Larger(Joined[s], 2) .. EvaluationWeek(snap) |-> Level(snap, rs, s, v)]

----------------------------------------------------------------------------
(* Changes *)

\* saveRiskSettings: a patch changes the thresholds and switches it has.
SaveRiskSettings(patch) ==
    /\ Change
    /\ risk' = [thresholds |-> Merged(patch.thresholds, risk.thresholds),
                active |-> Merged(patch.active, risk.active)]
    /\ UNCHANGED snapshot

RiskInit == Init /\ risk = SeedRisk

RiskNext ==
    \/ \E s \in Students, w \in Weeks, c \in Criteria, cell \in Cells :
          EnterMark(s, w, c, cell) /\ UNCHANGED risk
    \/ \E s \in Students, w \in Weeks, h \in HoursValues :
          ChangeHours(s, w, h) /\ UNCHANGED risk
    \/ \E patch \in Patches : SaveSettings(patch) /\ UNCHANGED risk
    \/ \E patch \in RiskPatches : SaveRiskSettings(patch)

RiskSpec == RiskInit /\ [][RiskNext]_riskVars

----------------------------------------------------------------------------
(* Correctness *)

RiskTypeOK == TypeOK /\ risk \in RiskSettings

\* The runs are what the summaries say of them: the score has fallen n weeks
\* running if and only if n is the most for which each of the last n scored
\* weeks is below the one before it, and the longest gap is the length of the
\* largest interval of weeks since joining that has no entries.
RunsAreTheLongest ==
    \A s \in Students : \A v \in Joined[s] .. NumWeeks :
        /\ LET scores == ScoresUpTo(snapshot, s, v)
               falls(n) == \A i \in Len(scores) - n + 1 .. Len(scores) : scores[i] < scores[i - 1]
           IN  DeclineRun(scores) = Max({n \in 0 .. Larger(0, Len(scores) - 1) : falls(n)})
        /\ MissingRun(snapshot, s, v) =
             Max({Cardinality(ab[1]..ab[2]) : ab \in
                    {ab \in (Joined[s]..v) \X (0..v) :
                        \A w \in ab[1]..ab[2] : ~HasEntries(snapshot, s, w)}})

\* The digest is a chain: whoever is listed as flagged in a week is listed in the
\* next one as still flagged or cleared, and nobody else is; a first flag is new,
\* in week 1 as in any other.
DigestsFormAChain ==
    \A v \in Weeks :
        LET listed(u, states) == {row.student : row \in {r \in Digest(snapshot, risk, u) : r.status \in states}}
        IN  listed(v, {"still", "cleared"}) =
                IF v = 1 THEN {} ELSE listed(v - 1, {"new", "still"})

\* A better mark in the week evaluated, for the same points possible, never
\* raises the student's level in that week: it can only end a fall, hand in an
\* assignment and lift shares and means.  (In an earlier week it may.)
BetterMarkNeverFlags ==
    [][\A s \in Students, w \in Weeks, c \in Criteria :
          LET old == snapshot.marks[s][w][c]
              new == snapshot'.marks[s][w][c]
          IN  (old # new /\ NoMark \notin {old, new}
               /\ old.possible = new.possible /\ old.earned < new.earned
               /\ w >= Joined[s])
              => Level(snapshot', risk', s, w) <= Level(snapshot, risk, s, w)
      ]_riskVars

\* Of two settings, one is at least as strict.
AsStrict(rs, than) ==
    /\ rs.thresholds.declineWeeks <= than.thresholds.declineWeeks
    /\ rs.thresholds.missedAssignments <= than.thresholds.missedAssignments
    /\ \A c \in RatedCriteria : rs.thresholds.share[c] >= than.thresholds.share[c]
    /\ rs.thresholds.projectedGrade >= than.thresholds.projectedGrade
    /\ rs.thresholds.commitmentHours <= than.thresholds.commitmentHours
    /\ rs.thresholds.missingWeeks <= than.thresholds.missingWeeks
    /\ \A signal \in Signals : than.active[signal] => rs.active[signal]

\* Stricter thresholds never clear a signal, and laxer ones never raise one,
\* for any student in any week.
StricterNeverClears ==
    [][\A s \in Students : \A v \in Joined[s] .. NumWeeks :
          LET old == SignalsOn(snapshot, risk, s, v)
              new == SignalsOn(snapshot', risk', s, v)
          IN  snapshot' = snapshot =>
                /\ AsStrict(risk', risk) => old \subseteq new
                /\ AsStrict(risk, risk') => new \subseteq old
      ]_riskVars

\* "Levels are recomputed from the data as it stood each week": a mark or hours
\* of week w leave every level and digest of the weeks before it alone.
LaterWeeksLeaveLevelsAlone ==
    [][\A s \in Students, w \in Weeks :
          (\/ snapshot'.marks[s][w] # snapshot.marks[s][w]
           \/ snapshot'.hours[s][w] # snapshot.hours[s][w])
          => \A v \in 1 .. w - 1 : Digest(snapshot', risk', v) = Digest(snapshot, risk, v)
      ]_riskVars

\* "Changing a threshold does not rewrite this history" (League Table.dc.html,
\* historyNote; api.js says the same of saveRiskSettings).
ThresholdsLeaveHistoryAlone ==
    [][\A s \in Students :
          snapshot' = snapshot => History(snapshot', risk', s) = History(snapshot, risk, s)
      ]_riskVars

=============================================================================
