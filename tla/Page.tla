-------------------------------- MODULE Page --------------------------------
(***************************************************************************)
(* The page (frontend/League Table.dc.html) over its HTTP client           *)
(* (frontend/services/httpApi.js).  A gesture changes the page's state at  *)
(* once and may start a request; the request is answered or fails at any   *)
(* later time, in any order, and its continuation changes the state it     *)
(* finds then.  Nothing is cancelled, retried or timed out.  What a view   *)
(* shows is abstracted to what it was asked for; the week stands for all   *)
(* the view controls (week, window, criteria, names).                      *)
(***************************************************************************)
EXTENDS Naturals, Sequences, FiniteSets, SequencesExt

CONSTANTS
    Classes, Students, Weeks,
    HomeOf,         \* the class of each student
    Latest,         \* the week a bootstrap selects, per class
    FirstClass,     \* the class the page starts with
    None, Instructor,
    Partial,        \* a bootstrap that lost all but its weights and settings
    MaxInFlight,    \* bound: requests under way at a time
    MaxGestures     \* bound: counted gestures of a run

ASSUME PageConstants ==
    /\ HomeOf \in [Students -> Classes]
    /\ Latest \in [Classes -> Weeks]
    /\ FirstClass \in Classes
    /\ None \notin Classes \cup Students \cup Weeks /\ Instructor \notin Students \cup {None}
    /\ Partial \notin Classes \cup {None}
    /\ MaxInFlight \in Nat /\ MaxGestures \in Nat

StudentTabs == {"me", "standing", "commitments"}
InstructorTabs == {"league", "risk", "approvals"}
Tabs == StudentTabs \cup InstructorTabs

\* A view's content is the request that filled it.
Content == [op : Tabs, klass : Classes \cup {None}, week : Weeks \cup {None},
            student : Students \cup {None}, weights : Classes \cup {None}]

Operations == Tabs \cup {"bootstrap", "drawer", "record", "note", "noteRecord", "thresholds",
                         "applyThresholds", "explainer", "applyWeights", "refresh", "save", "decide"}

Panels == {"drawer", "weights", "explainer", "thresholds"}

\* page.weights is the class whose weights the page holds, page.record the student
\* whose record is open, page.draft whether a note has been typed.
VARIABLES
    page,       \* the component's state
    flight,     \* requests under way, in the order they were started
    slips,      \* history: what the last outcomes left behind, see SettledViewMatches
    gestures    \* how many counted gestures there have been

vars == <<page, flight, slips, gestures>>

PageState ==
    [user : Students \cup {Instructor, None}, tab : Tabs, klass : Classes,
     boot : Classes \cup {None, Partial}, week : Weeks, weights : Classes \cup {None},
     present : BOOLEAN, loading : BOOLEAN, error : BOOLEAN,
     shown : {None} \cup Content, open : SUBSET Panels,
     record : Students \cup {None}, draft : BOOLEAN]

\* Before anybody signs in; the login options have arrived.
LoginScreen ==
    [user |-> None, tab |-> "league", klass |-> FirstClass, boot |-> None,
     week |-> Latest[FirstClass], weights |-> None,
     present |-> FALSE, loading |-> FALSE, error |-> FALSE,
     shown |-> None, open |-> {}, record |-> None, draft |-> FALSE]

Init ==
    /\ page = LoginScreen
    /\ flight = <<>>
    /\ slips = {}
    /\ gestures = 0

----------------------------------------------------------------------------
(* Requests *)

\* late: a later request of its kind has had its outcome.
Requests ==
    {r \in [op : Operations, klass : Classes \cup {None}, week : Weeks \cup {None},
            student : Students \cup {None}, weights : Classes \cup {None}, late : BOOLEAN] :
        /\ r.op \in {"bootstrap", "applyWeights"} => r.klass \in Classes
        /\ r.op \in {"record", "note", "noteRecord"} => r.student \in Students}

\* The fields an endpoint has no use for are None.
Request(op, klass, week, student, weights) ==
    [op |-> op, klass |-> klass, week |-> week, student |-> student, weights |-> weights, late |-> FALSE]

\* The request each tab's load sends from page state p (query and the caller).
LoadOf(p, tab) ==
    CASE tab = "league" -> Request(tab, p.klass, p.week, None, p.weights)
      [] tab = "me" -> Request(tab, p.klass, p.week, p.user, p.weights)
      [] tab = "risk" -> Request(tab, None, p.week, None, None)
      [] tab = "approvals" -> Request(tab, p.klass, None, None, None)
      [] OTHER -> Request(tab, p.klass, None, p.user, None)

\* Wrong: whoever is signed in is taken for a student.
CanLoadAnyway(p, tab) == tab # "standing" => p.boot # None

\* A load returns without a word when what it needs is missing.
CanLoad(p, tab) ==
    /\ tab # "standing" => p.boot # None
    /\ tab \in StudentTabs => p.user \in Students

\* A bootstrap without weeks makes a load throw before it sends anything.
CannotQuery(p, tab) == p.boot = Partial /\ tab \in {"league", "me", "risk"}

\* handleApiError, with the patch of each load.
Failed(p, op) ==
    [p EXCEPT !.loading = FALSE, !.error = TRUE,
              !.shown = IF @ # None /\ @.op = op /\ op \in {"me", "commitments", "approvals"}
                        THEN None ELSE @]

ViewOf(r) ==
    [op |-> r.op, klass |-> r.klass, week |-> r.week, student |-> r.student, weights |-> r.weights]

\* showView: one view filled, every other emptied.
Shown(p, r) == [p EXCEPT !.loading = FALSE, !.error = FALSE, !.shown = ViewOf(r)]

\* The state becomes p, then the load of a tab begins; the requests q are under way.
\* A load begun for another tab than the one open will leave its view behind.
ThenLoad(p, tab, q, past) ==
    LET begins == CanLoad(p, tab) /\ ~CannotQuery(p, tab) IN
    /\ page' = IF CanLoad(p, tab) /\ CannotQuery(p, tab) THEN Failed(p, tab) ELSE p
    /\ flight' = IF begins THEN Append(q, LoadOf(p, tab)) ELSE q
    /\ slips' = IF ~begins THEN past
                ELSE IF tab = p.tab THEN past \ {"view"} ELSE past \cup {"view"}

\* loadClass: the class changes at once, its bootstrap follows.
ThenLoadClass(p, klass) ==
    /\ page' = [p EXCEPT !.loading = TRUE, !.klass = klass, !.open = @ \ {"drawer"},
                         !.shown = IF @ # None /\ @.op = "me" THEN None ELSE @]
    /\ flight' = Append(flight, Request("bootstrap", klass, None, None, None))
    /\ slips' = slips \ {"class"}

ThenSend(r) ==
    /\ UNCHANGED page
    /\ flight' = Append(flight, r)
    /\ UNCHANGED slips

Only(p) ==
    /\ page' = p
    /\ UNCHANGED <<flight, slips>>

----------------------------------------------------------------------------
(* Gestures.  A dialog covers the pointer's way to the rest of the page, not the
   keyboard's. *)

\* While the page holds a partial bootstrap nothing renders that can be clicked; the
\* keys P and Escape still work.
Renders == page.boot # Partial

\* Those that open or close what is at hand are free; the others are counted.
Free == Renders /\ UNCHANGED gestures

Gesture == gestures < MaxGestures /\ gestures' = gestures + 1

Counted == Renders /\ Gesture

Room == Len(flight) < MaxInFlight

Sending == Counted /\ Room

SignedIn == page.user # None

HasView(op) == SignedIn /\ page.shown # None /\ page.shown.op = op

\* The bar of controls of a tab: there is a bootstrap and nothing is loading.
Controls(tab) == SignedIn /\ page.boot # None /\ ~page.loading /\ page.tab = tab

DoLogin(who) ==
    /\ Sending /\ ~SignedIn
    /\ ThenLoadClass([page EXCEPT !.user = who, !.tab = IF who = Instructor THEN "league" ELSE "me"],
                     IF who = Instructor THEN page.klass ELSE HomeOf[who])

Logout ==
    /\ Counted /\ SignedIn
    /\ Only([page EXCEPT !.user = None, !.boot = None, !.shown = None, !.record = None,
                         !.open = @ \ {"drawer"}, !.present = FALSE])

\* The tabs of the role; Present mode takes the instructor's own away.
VisibleTabs ==
    IF page.user # Instructor THEN StudentTabs
    ELSE IF page.present THEN {"league"} ELSE InstructorTabs

ClickTab(tab) ==
    /\ Sending /\ SignedIn /\ tab \in VisibleTabs
    /\ ThenLoad([page EXCEPT !.tab = tab, !.loading = TRUE, !.open = @ \ {"drawer"}], tab, flight, slips)

PickClass(klass) ==
    /\ Sending /\ page.user = Instructor /\ page.boot # None /\ klass # page.klass
    /\ ThenLoadClass(page, klass)

\* Wrong: nothing is loaded for the new week.
ChangeWeekInPlace(week) ==
    /\ Counted /\ page.boot # None /\ week # page.week
    /\ Only([page EXCEPT !.week = week, !.open = @ \ {"drawer"}])

\* The arrow keys step the week on every tab, and on the login screen when a bootstrap
\* has been answered after the logout.
ChangeWeek(week) ==
    /\ Sending /\ page.boot # None /\ week # page.week
    /\ ThenLoad([page EXCEPT !.week = week, !.open = @ \ {"drawer"}], page.tab, flight, slips)

\* Wrong: the league table is not asked for.
EnterPresentInPlace ==
    Only([page EXCEPT !.present = TRUE, !.record = None, !.open = {},
                      !.tab = "league", !.loading = @ \/ page.tab # "league"])

EnterPresent ==
    LET closed == [page EXCEPT !.present = TRUE, !.record = None, !.open = {}] IN
    IF page.tab = "league" THEN Only(closed)
    ELSE ThenLoad([closed EXCEPT !.tab = "league", !.loading = TRUE], "league", flight, slips)

TogglePresent ==
    /\ Gesture /\ Room /\ page.user = Instructor
    /\ IF page.present THEN Only([page EXCEPT !.present = FALSE]) ELSE EnterPresent

Escape ==
    /\ UNCHANGED gestures
    /\ page.open # {} \/ page.record # None
    /\ Only([page EXCEPT !.open = {}, !.record = None])

Close(panel) ==
    /\ Free /\ SignedIn /\ panel \in page.open
    /\ Only([page EXCEPT !.open = @ \ {panel}])

OpenDrawer ==
    /\ Sending /\ HasView("league") /\ page.tab = "league" /\ ~page.loading
    /\ ~page.present
    /\ ThenSend(Request("drawer", None, None, None, None))

\* From the digest, wherever it is on the page.
OpenRecord(student) ==
    /\ Sending /\ HasView("risk")
    /\ ThenSend(Request("record", None, None, student, None))

CloseRecord ==
    /\ Free /\ SignedIn /\ page.record # None
    /\ Only([page EXCEPT !.record = None, !.draft = FALSE])

TypeNote ==
    /\ Free /\ SignedIn /\ page.record # None /\ ~page.draft
    /\ Only([page EXCEPT !.draft = TRUE])

SaveNote ==
    /\ Sending /\ SignedIn /\ page.record # None /\ page.draft
    /\ ThenSend(Request("note", None, None, page.record, None))

OpenThresholds ==
    /\ Sending /\ HasView("risk")
    /\ ThenSend(Request("thresholds", None, None, None, None))

ApplyThresholds ==
    /\ Sending /\ SignedIn /\ "thresholds" \in page.open
    /\ ThenSend(Request("applyThresholds", None, None, None, None))

OpenWeights ==
    /\ Free /\ Controls("league") /\ ~page.present /\ "weights" \notin page.open
    /\ Only([page EXCEPT !.open = @ \cup {"weights"}])

ApplyWeights ==
    /\ Sending /\ SignedIn /\ "weights" \in page.open
    /\ ThenSend(Request("applyWeights", page.klass, None, None, None))

OpenExplainer ==
    /\ Sending
    /\ (Controls("league") /\ ~page.present) \/ Controls("me")
    /\ ThenSend(Request("explainer", None, None, None, None))

Refresh ==
    /\ Sending /\ SignedIn
    /\ ThenSend(Request("refresh", None, None, None, None))

\* saveBaselineDraft and saveWeekDraft.
Save ==
    /\ Sending /\ HasView("commitments") /\ page.user \in Students
    /\ ThenSend(Request("save", None, None, None, None))

\* decideBaseline and reverseWeeklyUpdate.
Decide ==
    /\ Sending /\ HasView("approvals")
    /\ ThenSend(Request("decide", None, None, None, None))

\* The browser loads the page anew: what was under way answers to nobody.
Reload ==
    /\ SignedIn \/ page.boot # None
    /\ Gesture
    /\ page' = LoginScreen
    /\ flight' = <<>>
    /\ slips' = {}

----------------------------------------------------------------------------
(* Outcomes of the i-th request under way *)

SameKind(r, t) == (r.op \in Tabs /\ t.op \in Tabs) \/ (r.op = "bootstrap" /\ t.op = "bootstrap")

\* What is left under way: earlier requests of the same kind have been overtaken.
Rest(i) ==
    RemoveAt([j \in DOMAIN flight |->
                 IF j < i /\ SameKind(flight[j], flight[i])
                 THEN [flight[j] EXCEPT !.late = TRUE] ELSE flight[j]], i)

\* No later request of its kind is still to have its say.
Newest(i) == \A j \in DOMAIN flight : j > i /\ SameKind(flight[j], flight[i]) => flight[j].late

Outcome(i) == i \in DOMAIN flight /\ UNCHANGED gestures

AnswerLoad(i) ==
    /\ Outcome(i) /\ flight[i].op \in Tabs
    /\ page' = Shown(page, flight[i])
    /\ flight' = Rest(i)
    /\ slips' = IF flight[i].late /\ Newest(i) THEN slips \cup {"view"} ELSE slips

FailLoad(i) ==
    /\ Outcome(i) /\ flight[i].op \in Tabs
    /\ page' = Failed(page, flight[i].op)
    /\ flight' = Rest(i)
    /\ UNCHANGED slips

AnswerBootstrap(i) ==
    LET r == flight[i] IN
    /\ Outcome(i) /\ r.op = "bootstrap"
    /\ ThenLoad([page EXCEPT !.boot = r.klass, !.week = Latest[r.klass], !.weights = r.klass],
                page.tab, Rest(i),
                IF r.late /\ Newest(i) THEN slips \cup {"class"} ELSE slips \ {"weights"})

\* Nobody catches it: the page goes on loading, on the bootstrap it had.
FailBootstrap(i) ==
    /\ Outcome(i) /\ flight[i].op = "bootstrap"
    /\ flight' = Rest(i)
    /\ slips' = IF Newest(i) /\ ~flight[i].late THEN slips \cup {"class"} ELSE slips
    /\ UNCHANGED page

\* Wrong: Present mode is not looked at again when the answer comes.
AnswerPanelAnyway(i, panel) ==
    /\ Outcome(i) /\ flight[i].op = panel
    /\ page' = [page EXCEPT !.open = @ \cup {panel}]
    /\ flight' = Rest(i)
    /\ UNCHANGED slips

\* The drawer and the explainer stay shut once Present mode has begun.
AnswerPanel(i, panel) ==
    /\ Outcome(i) /\ flight[i].op = panel
    /\ page' = IF page.present THEN page ELSE [page EXCEPT !.open = @ \cup {panel}]
    /\ flight' = Rest(i)
    /\ UNCHANGED slips

AnswerThresholds(i) ==
    /\ Outcome(i) /\ flight[i].op = "thresholds"
    /\ page' = [page EXCEPT !.open = @ \cup {"thresholds"}]
    /\ flight' = Rest(i)
    /\ UNCHANGED slips

AnswerRecord(i) ==
    /\ Outcome(i) /\ flight[i].op = "record"
    /\ page' = [page EXCEPT !.record = flight[i].student, !.draft = FALSE]
    /\ flight' = Rest(i)
    /\ UNCHANGED slips

\* The note is stored; the record it was written on is asked for again.
AnswerNote(i) ==
    /\ Outcome(i) /\ flight[i].op = "note"
    /\ flight' = Append(Rest(i), Request("noteRecord", None, None, flight[i].student, None))
    /\ UNCHANGED <<page, slips>>

\* Wrong: the record comes back whatever happened to it meanwhile.
WithFreshRecordAnyway(p, student) == [p EXCEPT !.record = student, !.draft = FALSE]

\* The fresh record, if that student's record is still open.
WithFreshRecord(p, student) == IF p.record = student THEN [p EXCEPT !.draft = FALSE] ELSE p

AnswerNoteRecord(i) ==
    /\ Outcome(i) /\ flight[i].op = "noteRecord"
    /\ ThenLoad(WithFreshRecord(page, flight[i].student), "risk", Rest(i), slips)

AnswerApplyThresholds(i) ==
    /\ Outcome(i) /\ flight[i].op = "applyThresholds"
    /\ ThenLoad([page EXCEPT !.open = @ \ {"thresholds"}, !.record = None], "risk", Rest(i), slips)

\* The bootstrap of the moment takes the weights of the class they were saved for.
AnswerApplyWeights(i) ==
    LET klass == flight[i].klass IN
    /\ Outcome(i) /\ flight[i].op = "applyWeights"
    /\ ThenLoad([page EXCEPT !.boot = IF @ = None THEN Partial ELSE @,
                             !.weights = klass, !.open = @ \ {"weights"}],
                page.tab, Rest(i), IF klass # page.boot THEN slips \cup {"weights"} ELSE slips)

AnswerRefresh(i) ==
    /\ Outcome(i) /\ flight[i].op = "refresh"
    /\ ThenLoad([page EXCEPT !.error = FALSE], page.tab, Rest(i), slips)

\* A save is followed by its own tab's load, whichever tab is open by then.
AnswerSave(i) ==
    /\ Outcome(i) /\ flight[i].op = "save"
    /\ ThenLoad(page, "commitments", Rest(i), slips)

AnswerDecide(i) ==
    /\ Outcome(i) /\ flight[i].op = "decide"
    /\ ThenLoad(page, "approvals", Rest(i), slips)

\* handleApiError with the loading flag kept.
FailWithMessage(i) ==
    /\ Outcome(i) /\ flight[i].op \in {"drawer", "record", "note", "noteRecord", "refresh"}
    /\ page' = [page EXCEPT !.error = TRUE]
    /\ flight' = Rest(i)
    /\ UNCHANGED slips

\* Not caught, or told beside the form.
FailQuietly(i) ==
    /\ Outcome(i)
    /\ flight[i].op \in {"thresholds", "applyThresholds", "explainer", "applyWeights", "save", "decide"}
    /\ flight' = Rest(i)
    /\ UNCHANGED <<page, slips>>

----------------------------------------------------------------------------
(* Specification *)

Next ==
    \/ \E who \in Students \cup {Instructor} : DoLogin(who)
    \/ Logout
    \/ \E tab \in Tabs : ClickTab(tab)
    \/ \E klass \in Classes : PickClass(klass)
    \/ \E week \in Weeks : ChangeWeek(week)
    \/ TogglePresent
    \/ \E panel \in Panels : Close(panel)
    \/ Escape
    \/ OpenDrawer
    \/ \E student \in Students : OpenRecord(student)
    \/ CloseRecord
    \/ TypeNote
    \/ SaveNote
    \/ OpenThresholds
    \/ ApplyThresholds
    \/ OpenWeights
    \/ ApplyWeights
    \/ OpenExplainer
    \/ Refresh
    \/ Save
    \/ Decide
    \/ Reload
    \/ \E i \in 1..Len(flight) :
          \/ AnswerLoad(i)
          \/ FailLoad(i)
          \/ AnswerBootstrap(i)
          \/ FailBootstrap(i)
          \/ \E panel \in {"drawer", "explainer"} : AnswerPanel(i, panel)
          \/ AnswerThresholds(i)
          \/ AnswerRecord(i)
          \/ AnswerNote(i)
          \/ AnswerNoteRecord(i)
          \/ AnswerApplyThresholds(i)
          \/ AnswerApplyWeights(i)
          \/ AnswerRefresh(i)
          \/ AnswerSave(i)
          \/ AnswerDecide(i)
          \/ FailWithMessage(i)
          \/ FailQuietly(i)

Spec == Init /\ [][Next]_vars

----------------------------------------------------------------------------
(* Properties *)

\* Every variable keeps its type: the page's state, the requests under way and the
\* history of slips.
PageTypeOK ==
    /\ page \in PageState
    /\ flight \in Seq(Requests)
    /\ slips \subseteq {"class", "view", "weights"}
    /\ gestures \in 0..MaxGestures

\* Entering Present mode closes the drawer, the weights and the formula, and nothing
\* that was asked for before brings one of them back: an answer that comes while
\* Present mode is on is dropped (openDrawer and onOpenExplainer look again).
PanelsStayClosedInPresent ==
    page.present => page.open \cap {"drawer", "weights", "explainer"} = {}

\* Once everything is answered and no error shows, the page shows the open tab of the
\* chosen class at the chosen week to the user who is signed in, with that class's
\* bootstrap and weights, unless one of the three things the code does not guard
\* against was the last to happen: the last class's bootstrap failed or was overtaken
\* ("class"); the last view's answer was overtaken by an earlier request's, or belongs
\* to a follow-up of a tab since left ("view"); weights saved for one class arrived
\* when another's bootstrap was in place ("weights").
SettledViewMatches ==
    flight = <<>> /\ page.user # None /\ ~page.error /\ slips = {}
    => /\ page.boot = page.klass /\ page.weights = page.klass
       /\ page.user \in Students => page.klass = HomeOf[page.user]
       /\ page.shown = ViewOf(LoadOf(page, page.tab))

\* While somebody is signed in and the page says it is loading, a request under way
\* will end it: a load's early return never leaves the page loading for good.  Only a
\* bootstrap that failed does.
LoadingHasACause ==
    page.loading /\ page.user # None /\ "class" \notin slips
    => \E i \in 1..Len(flight) : flight[i].op \in Tabs \cup {"bootstrap"}

\* A student's record opens only as the answer to a request to open it: saving a note
\* refreshes the record it was written on, and never reopens a closed one or takes
\* the place of another's.
RecordsOpenOnRequest ==
    [][page'.record \notin {None, page.record}
       => \E i \in 1..Len(flight) :
             /\ flight[i].op = "record" /\ flight[i].student = page'.record
             /\ flight' = Rest(i)]_vars

\* What the specification of the page says of Present mode (it never shows hours,
\* approvals or a personal panel): no digest, record, thresholds or approvals.
PresentShowsNothingPersonal ==
    page.present =>
        /\ page.record = None /\ page.open = {}
        /\ page.shown # None => page.shown.op = "league"
=============================================================================
