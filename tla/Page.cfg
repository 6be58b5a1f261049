\* Everybody's gestures against requests answered or failed in any order.
CONSTANTS
    c1 = c1
    c2 = c2
    s1 = s1
    s2 = s2
    Classes = {c1, c2}
    Students = {s1, s2}
    Weeks = {1, 2}
    HomeOf <- HomeClass
    Latest <- LastWeek
    FirstClass = c1
    None = None
    Instructor = Instructor
    Partial = Partial
    MaxInFlight = 3
    MaxGestures = 5
SPECIFICATION Spec
CHECK_DEADLOCK FALSE
INVARIANTS
    PanelsStayClosedInPresent
    SettledViewMatches
    LoadingHasACause
PROPERTIES
    RecordsOpenOnRequest
