---------------------------- MODULE MCRiskSignals ----------------------------
(***************************************************************************)
(* A small class for TLC: three students, three weeks, two criteria; its   *)
(* tables and its risk levels.                                             *)
(***************************************************************************)
EXTENDS RiskSignals

CONSTANTS homework, attendance

Mark(earned, possible) == [earned |-> earned, possible |-> possible]

\* 92 of 100 passes 100 with a large factor; 80 and 79.95 are a tie to one decimal,
\* half a tenth rounding up; an assignment nobody handed in, one that was not set.
SomeMarks == {Mark(92, 100), Mark(1600, 2000), Mark(1599, 2000), Mark(0, 2000), Mark(0, 0)}

OneWeekOf(h, a) == [c \in Criteria |-> IF c = homework THEN h ELSE a]

\* Student 3 joins in week 2.
ThreeStudents ==
    << << OneWeekOf(Mark(92, 100), NoMark), OneWeekOf(NoMark, Mark(1600, 2000)),
          OneWeekOf(Mark(1600, 2000), Mark(92, 100)) >>,
       << OneWeekOf(Mark(1599, 2000), Mark(92, 100)), OneWeekOf(Mark(1600, 2000), NoMark),
          OneWeekOf(NoMark, NoMark) >>,
       << OneWeekOf(NoMark, NoMark), OneWeekOf(Mark(1599, 2000), Mark(1599, 2000)),
          OneWeekOf(NoMark, Mark(1599, 2000)) >> >>

ThirdJoinsLate == <<1, 1, 2>>

DefaultSettings ==
    [weights |-> OneWeekOf(2, 1), tieBreakers |-> <<attendance, homework>>,
     rate |-> 1, cap |-> 125]

\* A weight taken to zero; a steeper rate with a lower cap; no tie-breakers.
SomePatches ==
    { [weights |-> OneWeekOf(0, 1)], [rate |-> 2, cap |-> 110], [tieBreakers |-> <<>>] }

SomeViews ==
    { [week |-> 2, mode |-> "week", criteria |-> Criteria],
      [week |-> 2, mode |-> "week", criteria |-> {homework}],
      [week |-> 3, mode |-> "rolling", criteria |-> Criteria],
      [week |-> 3, mode |-> "cumulative", criteria |-> Criteria] }

DefaultRisk ==
    [thresholds |-> [declineWeeks |-> 2, missedAssignments |-> 2, share |-> [c \in {attendance} |-> 70],
                     projectedGrade |-> 60, commitmentHours |-> 30, missingWeeks |-> 2],
     active |-> [signal \in Signals |-> TRUE]]

\* Stricter and laxer thresholds, some of both, and a signal switched off.
SomeRiskPatches ==
    { [thresholds |-> [declineWeeks |-> 1, missingWeeks |-> 1], active |-> <<>>],
      [thresholds |-> [share |-> [c \in {attendance} |-> 85], projectedGrade |-> 85], active |-> <<>>],
      [thresholds |-> [missedAssignments |-> 1, commitmentHours |-> 10, declineWeeks |-> 3], active |-> <<>>],
      [thresholds |-> <<>>, active |-> [signal \in {"missing_data"} |-> FALSE]] }
==============================================================================
