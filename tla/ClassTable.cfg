\* Three students in four views and in the digest; every sequence of two changes.
CONSTANTS
    homework = homework
    attendance = attendance
    NoMark = NoMark
    NumStudents = 3
    NumWeeks = 3
    Criteria = {homework, attendance}
    Marks <- SomeMarks
    HoursValues = {0, 10, 30}
    SeedSettings <- DefaultSettings
    Patches <- SomePatches
    Views <- SomeViews
    RollingN = 2
    Unit = 1200
    SeedMarks <- ThreeStudents
    MaxChanges = 2
    Joined <- ThirdJoinsLate
    Homework = homework
    RatedCriteria = {attendance}
    SeedRisk <- DefaultRisk
    RiskPatches <- SomeRiskPatches
SPECIFICATION RiskSpec
CHECK_DEADLOCK FALSE
INVARIANTS
    RiskTypeOK
    RanksAreCompetition
    GapReachesTheNextRank
    ClimbersPassSomebody
    RunsAreTheLongest
    DigestsFormAChain
PROPERTIES
    MoreHoursNeverHurt
    MissingIsNotZero
    BetterMarkNeverFlags
    StricterNeverClears
    LaterWeeksLeaveLevelsAlone
