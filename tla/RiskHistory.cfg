\* The levels of past weeks when the instructor changes a threshold.
CONSTANTS
    homework = homework
    attendance = attendance
    NoMark = NoMark
    NumStudents = 3
    NumWeeks = 3
    Criteria = {homework, attendance}
    Marks <- SomeMarks
    HoursValues = {0, 10, 30}
    SeedSettings <- DefaultSettings
    Patches <- SomePatches
    Views <- SomeViews
    RollingN = 2
    Unit = 1200
    SeedMarks <- ThreeStudents
    MaxChanges = 1
    Joined <- ThirdJoinsLate
    Homework = homework
    RatedCriteria = {attendance}
    SeedRisk <- DefaultRisk
    RiskPatches <- SomeRiskPatches
SPECIFICATION RiskSpec
CHECK_DEADLOCK FALSE
PROPERTIES
    ThresholdsLeaveHistoryAlone
