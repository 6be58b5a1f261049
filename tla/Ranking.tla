------------------------------ MODULE Ranking ------------------------------
(***************************************************************************)
(* The league table of one class (frontend/services/scoring.js and its use *)
(* in api.js, which backend/app/scoring.py, service.py and                 *)
(* routers/ranking.py repeat): how marks, hours and settings become        *)
(* scores, ranks, gaps and movements, while the instructor enters marks,   *)
(* students' hours change and settings are tuned.                          *)
(*                                                                         *)
(* Scores are whole numbers of 1/Unit of a point, so that the divisions of *)
(* an instance are exact where the code has floating-point numbers.        *)
(* Rounded scores are in tenths of a point.  A student's hours of a week   *)
(* are the weighted sum; which hours count is CommitmentStore's subject.   *)
(***************************************************************************)
EXTENDS Integers, FiniteSetsExt, SequencesExt

CONSTANTS
    NumStudents,    \* students, numbered by name in lower case
    NumWeeks,
    Criteria,
    Marks,          \* sheet cells [earned, possible]; some with possible = 0
    NoMark,         \* an empty cell
    HoursValues,    \* weighted hours a week can have
    SeedSettings,   \* settings [weights, tieBreakers, rate, cap] of a new class
    Patches,        \* what the instructor saves: some of those fields
    Views,          \* views [week, mode, criteria] of the table
    RollingN,       \* weeks of a rolling window
    Unit,           \* a multiple of every number an instance divides by
    SeedMarks,      \* the sheet at first
    MaxChanges      \* bound: changes of marks, hours and settings

Students == 1..NumStudents
Weeks == 1..NumWeeks

Cells == Marks \cup {NoMark}

\* Rate and cap in percent.  The service stores weights scaled to 100, which
\* keeps their proportions, and those are all that a score depends on.
Settings == [weights : [Criteria -> Nat], tieBreakers : Seq(Criteria), rate : Nat, cap : Nat]

\* What saving a patch of a record or function leaves of the old one.
Merged(patch, old) ==
    [field \in DOMAIN old |-> IF field \in DOMAIN patch THEN patch[field] ELSE old[field]]

ASSUME RankingConstants ==
    /\ NumStudents \in Nat /\ NumWeeks \in Nat /\ RollingN \in Nat \ {0}
    /\ Unit \in Nat \ {0} /\ MaxChanges \in Nat
    /\ IsFiniteSet(Criteria) /\ NoMark \notin Marks
    /\ Marks \subseteq [earned : Nat, possible : Nat]
    /\ HoursValues \subseteq Nat /\ 0 \in HoursValues
    /\ SeedSettings \in Settings
    /\ \A patch \in Patches : Merged(patch, SeedSettings) \in Settings
    /\ Views \subseteq [week : Weeks, mode : {"week", "rolling", "cumulative"},
                        criteria : SUBSET Criteria]
    /\ SeedMarks \in [Students -> [Weeks -> [Criteria -> Cells]]]

\* What a table is computed from: the score sheet, the weighted hours in effect
\* per student and week, and the league settings.
Snapshot == [marks : [Students -> [Weeks -> [Criteria -> Cells]]],
             hours : [Students -> [Weeks -> HoursValues]],
             settings : Settings]

VARIABLES
    snapshot,   \* what the service would read now
    changes     \* changes so far, for the bound

vars == <<snapshot, changes>>

Lesser(m, n) == IF m <= n THEN m ELSE n
Larger(m, n) == IF m >= n THEN m ELSE n

TopScore == 100 * Unit

\* The elements of a set in a total order: in place i is the one that i - 1 come before.
InOrder(S, Precedes(_, _)) ==
    [i \in 1..Cardinality(S) |->
        CHOOSE x \in S : Cardinality({y \in S : Precedes(y, x)}) = i - 1]

----------------------------------------------------------------------------
(* Scores *)

\* The weeks a view averages over.
Window(week, mode) ==
    CASE mode = "cumulative" -> 1..week
      [] mode = "rolling" -> Larger(1, week + 1 - RollingN) .. week
      [] mode = "week" -> {week}

\* Criteria of a view that have a mark for the student's week and any weight.
\* Wrong: an empty cell counts, as zero.
MissingToo(snap, view, s, w) == {c \in view.criteria : snap.settings.weights[c] > 0}

Present(snap, view, s, w) ==
    {c \in view.criteria : /\ snap.marks[s][w][c] # NoMark
                           /\ snap.marks[s][w][c].possible > 0
                           /\ snap.settings.weights[c] > 0}

Normalised(mark) ==
    IF mark = NoMark \/ mark.possible = 0 THEN 0
    ELSE (TopScore * mark.earned) \div mark.possible

\* score_student: the weighted mean of the criteria that are there.  The scaling
\* of the weights to 100 (normalise_weights) cancels out.
Raw(snap, view, s, w) ==
    LET present == Present(snap, view, s, w)
        points == [c \in present |-> Normalised(snap.marks[s][w][c]) * snap.settings.weights[c]]
        weights == [c \in present |-> snap.settings.weights[c]]
    IN  SumFunction(points) \div SumFunction(weights)

\* commitment_factor, in percent.
Factor(snap, s, w) == Lesser(100 + snap.settings.rate * snap.hours[s][w], snap.settings.cap)

\* Wrong Adjusted: a score that would pass 100 is not adjusted at all.
AdjustedIfBelow(snap, view, s, w) ==
    LET value == (Raw(snap, view, s, w) * Factor(snap, s, w)) \div 100
    IN  IF value > TopScore THEN Raw(snap, view, s, w) ELSE value

Adjusted(snap, view, s, w) == Lesser(TopScore, (Raw(snap, view, s, w) * Factor(snap, s, w)) \div 100)

\* Weeks of the view in which the student has a score.
ScoredWeeks(snap, view, s) ==
    {w \in Window(view.week, view.mode) : Present(snap, view, s, w) # {}}

\* math.floor(value * 10 + 0.5): half a tenth rounds up.  The value is the sum
\* of n weeks' scores, so its mean is rounded without being computed first.
Round1(total, n) == (20 * total + Unit * n) \div (2 * Unit * n)

\* One student's row: rounded mean scores and the last week's criteria, which
\* break ties.
Row(snap, view, s) ==
    LET weeks == ScoredWeeks(snap, view, s)
        n == Cardinality(weeks)
        adjusted == [w \in weeks |-> Adjusted(snap, view, s, w)]
        raw == [w \in weeks |-> Raw(snap, view, s, w)]
        last == snap.marks[s][Max(weeks)]
        norm(c) == IF c \in view.criteria /\ last[c] # NoMark /\ last[c].possible > 0
                   THEN Normalised(last[c]) ELSE -1
    IN  [student |-> s,
         score |-> Round1(SumFunction(adjusted), n),
         key |-> <<Round1(SumFunction(adjusted), n),
                   Round1(SumFunction(raw), n)>>
                 \o [i \in DOMAIN snap.settings.tieBreakers |-> norm(snap.settings.tieBreakers[i])]]

----------------------------------------------------------------------------
(* Ranks *)

\* rank_rows: by rounded score, rounded raw score, tie-breakers and name.
Above(r, q) ==
    LET differ == {i \in DOMAIN r.key : r.key[i] # q.key[i]} IN
    IF differ = {} THEN r.student < q.student
    ELSE r.key[Min(differ)] > q.key[Min(differ)]

Rows(snap, view) ==
    {Row(snap, view, s) : s \in {u \in Students : ScoredWeeks(snap, view, u) # {}}}

Sorted(snap, view) == InOrder(Rows(snap, view), Above)

\* The rank of each row in order: a row with the score of the row above shares
\* its rank, any other has the rank of its place.  Wrong: ranks without gaps.
DenseRanks(rows) ==
    LET rank[i \in DOMAIN rows] ==
            IF i = 1 THEN 1
            ELSE IF rows[i].score = rows[i - 1].score THEN rank[i - 1] ELSE rank[i - 1] + 1
    IN  rank

Ranks(rows) ==
    LET rank[i \in DOMAIN rows] ==
            IF i > 1 /\ rows[i].score = rows[i - 1].score THEN rank[i - 1] ELSE i
    IN  rank

Tied(rows, i) ==
    \E j \in {i - 1, i + 1} \cap DOMAIN rows : Ranks(rows)[j] = Ranks(rows)[i]

\* The difference of the ranked scores of two rows, never negative.
ScoreGap(higher, lower) == Larger(0, higher.score - lower.score)

\* To the nearest better rank, 0 at the top.  Wrong: to the row just above, which
\* may share the rank.
GapToRowAbove(rows, i) == IF i = 1 THEN 0 ELSE ScoreGap(rows[i - 1], rows[i])

GapToNext(rows, i) ==
    LET better == {j \in DOMAIN rows : j < i /\ Ranks(rows)[j] < Ranks(rows)[i]} IN
    IF better = {} THEN 0 ELSE ScoreGap(rows[Max(better)], rows[i])

GapToBelow(rows, i) ==
    LET worse == {j \in DOMAIN rows : j > i /\ Ranks(rows)[j] > Ranks(rows)[i]} IN
    IF worse = {} THEN 0 ELSE ScoreGap(rows[i], rows[Min(worse)])

Listed(rows) == {rows[i].student : i \in DOMAIN rows}

Place(rows, s) == CHOOSE i \in DOMAIN rows : rows[i].student = s

ScoreOf(rows, s) == rows[Place(rows, s)].score

RankOf(rows, s) == Ranks(rows)[Place(rows, s)]

\* previousRanks: the same view a week before.
Before(snap, view) == IF view.week = 1 THEN <<>> ELSE Sorted(snap, [view EXCEPT !.week = @ - 1])

\* getRanking: the table of a view and what it is compared with.
Table(snap, view) == [view |-> view, rows |-> Sorted(snap, view), before |-> Before(snap, view)]

Tables(snap) == {Table(snap, view) : view \in Views}

\* Ranks gained since then; nothing for a student who was not in that table.
\* Wrong: ranks lost.
RanksLost(table) ==
    [s \in Listed(table.rows) \cap Listed(table.before) |->
        RankOf(table.rows, s) - RankOf(table.before, s)]

RankDelta(table) ==
    [s \in Listed(table.rows) \cap Listed(table.before) |->
        RankOf(table.before, s) - RankOf(table.rows, s)]

\* getExplanation: what a student's breakdown says of the place in the table;
\* above is the nearest student with a better rank, 0 at the top.
Explanation(rows, s) ==
    LET i == Place(rows, s)
        better == {j \in DOMAIN rows : j < i /\ Ranks(rows)[j] < Ranks(rows)[i]}
    IN  [rank |-> Ranks(rows)[i], tied |-> Tied(rows, i),
         gapToNext |-> GapToNext(rows, i), gapToBelow |-> GapToBelow(rows, i),
         above |-> IF better = {} THEN 0 ELSE rows[Max(better)].student]

----------------------------------------------------------------------------
(* Changes *)

Change ==
    /\ changes < MaxChanges
    /\ changes' = changes + 1

\* The instructor fills in or corrects a cell of the sheet.
EnterMark(s, w, c, cell) ==
    /\ Change
    /\ snapshot' = [snapshot EXCEPT !.marks[s][w][c] = cell]

\* A commitment change gives a student's week other hours.
ChangeHours(s, w, h) ==
    /\ Change
    /\ snapshot' = [snapshot EXCEPT !.hours[s][w] = h]

\* save_league_settings: a patch changes the fields it has.  Wrong: the patch
\* replaces the settings.
Replaced(patch) == patch

Patched(patch) == Merged(patch, snapshot.settings)

SaveSettings(patch) ==
    /\ Change
    /\ snapshot' = [snapshot EXCEPT !.settings = Patched(patch)]

Init ==
    /\ snapshot = [marks |-> SeedMarks,
                   hours |-> [s \in Students |-> [w \in Weeks |-> 0]],
                   settings |-> SeedSettings]
    /\ changes = 0

Next ==
    \/ \E s \in Students, w \in Weeks, c \in Criteria, cell \in Cells : EnterMark(s, w, c, cell)
    \/ \E s \in Students, w \in Weeks, h \in HoursValues : ChangeHours(s, w, h)
    \/ \E patch \in Patches : SaveSettings(patch)

Spec == Init /\ [][Next]_vars

----------------------------------------------------------------------------
(* Correctness *)

TypeOK ==
    /\ snapshot \in Snapshot
    /\ changes \in 0..MaxChanges

\* Ranks are competition ranks on the scores shown: a student's rank is one more
\* than the number of students with a higher score to one decimal, and students
\* are marked tied exactly when they share it (spec.md, Ties and movement).
RanksAreCompetition ==
    \A table \in Tables(snapshot) :
        LET rows == table.rows IN
        \A i \in DOMAIN rows :
            /\ Ranks(rows)[i] =
                 1 + Cardinality({j \in DOMAIN rows : rows[j].score > rows[i].score})
            /\ Tied(rows, i) <=>
                 \E j \in DOMAIN rows \ {i} : rows[j].score = rows[i].score

\* The rank row i would have with another score.
RankWith(rows, i, score) ==
    1 + Cardinality({j \in DOMAIN rows \ {i} : rows[j].score > score})

\* The gap to the next rank is what it says: a student who had exactly that many
\* tenths more would share the next better rank, and one tenth less would not.
\* The gap to the rank below is the same gap seen from above, and the student a
\* breakdown names as the one above is one the gap leads to.
GapReachesTheNextRank ==
    \A table \in Tables(snapshot) :
        LET rows == table.rows IN
        \A i \in DOMAIN rows :
            LET better == {j \in DOMAIN rows : Ranks(rows)[j] < Ranks(rows)[i]}
                worse == {j \in DOMAIN rows : Ranks(rows)[j] > Ranks(rows)[i]}
                gap == GapToNext(rows, i)
            IN  /\ IF better = {} THEN gap = 0
                   ELSE /\ gap > 0
                        /\ \E j \in better :
                              RankWith(rows, i, rows[i].score + gap) = Ranks(rows)[j]
                        /\ RankWith(rows, i, rows[i].score + gap - 1) = Ranks(rows)[i]
                /\ IF worse = {} THEN GapToBelow(rows, i) = 0
                   ELSE \E j \in worse : GapToBelow(rows, i) = GapToNext(rows, j)
                /\ LET ex == Explanation(rows, rows[i].student) IN
                   /\ ex.above = 0 <=> better = {}
                   /\ ex.above # 0 =>
                        RankWith(rows, i, rows[i].score + ex.gapToNext) = RankOf(rows, ex.above)

\* Whoever climbs has passed somebody: a student ahead the week before who is no
\* longer ahead, or is no longer in the table.
ClimbersPassSomebody ==
    \A table \in Tables(snapshot) :
        \A s \in DOMAIN RankDelta(table) :
            RankDelta(table)[s] > 0 =>
                \E u \in Listed(table.before) :
                    /\ RankOf(table.before, u) < RankOf(table.before, s)
                    /\ u \in Listed(table.rows) => RankOf(table.rows, u) >= RankOf(table.rows, s)

\* What more hours of student s in week w may do to a table: nothing if it does
\* not show the week, and otherwise move s up and nobody's score but theirs.
OnlyHelps(s, w, view, old, new) ==
    /\ Listed(new) = Listed(old)
    /\ w \notin Window(view.week, view.mode) => new = old
    /\ s \in Listed(old) => /\ Place(new, s) <= Place(old, s)
                            /\ RankOf(new, s) <= RankOf(old, s)
    /\ \A u \in Listed(old) \ {s} : /\ ScoreOf(new, u) = ScoreOf(old, u)
                                     /\ RankOf(new, u) >= RankOf(old, u)

\* More hours in a week never cost a student a place in any view, nor anybody
\* else a point, and move nothing in views that do not show that week (spec.md,
\* Time windows: a week's factor and cap apply to that week only).
MoreHoursNeverHurt ==
    [][\A s \in Students, w \in Weeks :
          snapshot'.hours[s][w] > snapshot.hours[s][w] =>
             \A old \in Tables(snapshot), new \in Tables(snapshot') :
                old.view = new.view => OnlyHelps(s, w, old.view, old.rows, new.rows)
      ]_vars

\* Absence of data is never scored as zero (spec.md, Missing data): when a mark
\* is entered for a criterion that had none, the raw score moves towards the
\* mark and not past it.
MissingIsNotZero ==
    [][\A view \in Views, s \in Students, w \in Weeks, c \in Criteria, cell \in Marks :
          /\ EnterMark(s, w, c, cell)
          /\ cell.possible > 0
          /\ snapshot.marks[s][w][c] = NoMark
          /\ c \in view.criteria /\ snapshot.settings.weights[c] > 0
          /\ Present(snapshot, view, s, w) \ {c} # {}
          => LET old == Raw(snapshot, view, s, w)
                 new == Raw(snapshot', view, s, w)
                 norm == Normalised(cell)
             IN  Lesser(old, norm) <= new /\ new <= Larger(old, norm)
      ]_vars

=============================================================================
