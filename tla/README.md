# Verification of the league table

The league table ranks the students of a class by weekly scores that are adjusted for hours of work and care. This
directory models the parts of it where a mistake would be hard to find with a test: the tables that decide which hours
count, the cache every request goes through, the handlers that use both, the calculation of the table and of the risk
signals, the page that races its own requests, and the runtime that swaps the page's code under it. The
models are TLA+ modules, checked on small instances with TLC; the invariants that matter most are also proved for every
instance with TLAPS.

All paths below are relative to `src/`; `app/` stands for `src/backend/app/`.

## 1. The system

The browser talks to one FastAPI process. Its handlers run on worker threads, read scores from a read-only source
(`DataSource`, the instructor's sheet) and keep commitments, settings and notes in a database (`AppStore`).

```
 component runtime (support.js)
   └─ page (League Table.dc.html) ── httpApi.js
        │ HTTP, or api.js + mockSource.js without a server
        v
 handlers (app/routers/*) ──> LeagueService (app/service.py) ──> DataSource (app/mock_db.py)
        │    scoring.py, risk.py       │ one cached snapshot per class
        └──────────────────────────────┴──> SqlAlchemyStore (app/store.py) ──> database
```

| Component | State | Operations | Who calls it, what is shared |
| --- | --- | --- | --- |
| Commitment tables (`store.py`, `db_models.py`) | baselines, weekly updates, change log, in the database | `save_baseline`, `decide_baseline`, `save_weekly_update`, `reverse_weekly_update`, list queries | handlers of all threads, one at a time under the store's lock, one transaction each; read by the cache |
| Hours that count (`scoring.resolve_hours`) | none | which hours apply to a student's week | cache readers, the change log |
| Service cache (`service.py`, `deps.py`) | one snapshot per class, time of the last refresh, the service lock | `has_class`, `snapshot`, `refresh`, `invalidate` | every handler; shared by all threads |
| Request handlers (`routers/*.py`) | none of their own | check, store operation, `invalidate`, answer | clients; they interleave at every call they make |
| Calendar (`service.py:97-118`) | the weeks of the term, the clock | `calendar_week_number`, `editable_week_numbers` | commitment handlers |
| Scores and ranks (`scoring.py`, `build_rows`, `get_ranking`) | none | raw and adjusted scores, windows, ranks, gaps, movement | ranking and explanation handlers, from one snapshot |
| Risk signals and digest (`risk.py`, `routers/risk.py`) | none | five signals, level, digest status | digest and risk handlers, from snapshots and risk settings |
| League and risk settings, notes (`store.py`) | a row per class, notes | get, merge a patch, add a note | settings screens; the cache reads league settings |
| Score sheet (`datasource.py`, `mock_db.py`) | classes, students, criteria, weeks, entries | five list calls, any of which fails in an outage | the cache |
| Two processes on one database (`db.py`, `deploy-prod.yml`) | the database | all store operations, without a common lock | during a deployment |
| Authentication and privacy (`auth.py`, `_scope`) | none | role of the caller, fields of an answer | handlers |
| Page (`League Table.dc.html`) | user, tab, class, week, bootstrap, view, panels | gestures, loads and their continuations | user; its requests are answered in any order and change the state they find |
| HTTP client (`httpApi.js`) | token | one request per call | the page |
| Component runtime (`support.js`) | registry of templates and classes, instances | adopt, send, fetch, mount, render, swap, unmount | the document, an embedding host, the rendering library |
| Reference client (`api.js`, `mockSource.js`) | cache per class, mock tables | the server's operations | the page, when there is no server |
| Telemetry, errors, fault switch | counters | record, format | handlers |
| Seed data and schema (`toy_seed.py`, `db.py`) | initial rows | insert what is missing at start-up | start-up |

What makes each of them correct, and what is hard about it:

* **Commitment tables.** One baseline counts per student, the one approved last. Edits of a week replace each other and
  a reversal uncovers the one before. Nothing that counts changes without a log entry, and nothing changes that should
  not count. Hard: long sequences of submissions, decisions, edits and reversals; rows are linked by `superseded_by`;
  edits may be stored before any baseline counts.
* **Service cache.** Once a writer has been told that its change is made, everybody who asks is answered with it; no
  snapshot from before a write outlives the writer's `invalidate`; scores never go back; the stale mark is right; nobody
  waits for ever. Hard: the store is read in three separate transactions, writers do not take the service lock,
  commitments are read from the store past the cache, the sheet fails at any time, the process restarts.
* **Handlers and calendar.** A locked week stays locked, a decision is taken and reported once, an approval leaves the
  weeks that are over alone. Hard: checks come before the store operation, and midnight, other handlers or a resend of
  the same request come in between.
* **Scores and ranks.** Ranks, ties, gaps and movements agree with the scores shown; missing marks are not zeros; hours
  move only the weeks they belong to. Hard: rounding, ties, windows, the clip at 100.
* **Risk signals.** A signal is on exactly when the documented run, share or mean says so; the digest compares two
  weeks of the same table. Hard: missing weeks, first weeks, two snapshots in one answer.
* **Settings.** A patch changes what it names. **Two processes.** Ids stay unique, a decision is taken once.
* **Page.** What is on screen belongs to the tab, class and week that were asked for last; Present mode shows nothing
  personal; nothing opens that nobody asked for; a page that says it is loading has something to wait for. Hard:
  every handler awaits, and the state it goes on with is not the one it started from.
* **Component runtime.** Hosts stream templates and classes while files are fetched and instances mount, render and
  crash. Each logic is mounted and unmounted in pairs; whatever is settled runs what the registry holds. Hard: the class
  of a mounted instance changes under it, also between a crash and the next render.

`PROJECT.json` lists the hazards line by line with the properties that cover them.

## 2. Modules

| Module | What it is |
| --- | --- |
| `CommitmentStore` | the commitment tables and `resolve_hours` |
| `CommitmentLedger` | what those tables promise: per student an active baseline and a queue, per week a stack of edits |
| `CommitmentRefinement` | the tables implement the ledger |
| `CommitmentDesk` | extends `CommitmentStore`: handlers, calendar, threads, lost answers |
| `SnapshotCache` | the service cache, the handlers' use of it, the sheet, restarts |
| `Ranking` | the league table computed from a snapshot |
| `RiskSignals` | extends `Ranking`: signals, levels, digest, history |
| `Page` | the page over its HTTP client |
| `ComponentRuntime` | registry and instances of the component runtime |
| `CommitmentStoreProofs`, `CommitmentLedgerProofs`, `CommitmentDeskProofs` | theorems about the tables, their ledger and the desk |
| `SnapshotCacheProofs`, `SnapshotAnswerProofs` | theorems about the cache and about what is answered from it |
| `RiskSignalsProofs` | theorems about the table and the signals |
| `PageProofs`, `ComponentRuntimeProofs` | theorems about the page and the component runtime |
| `MC...` | instances for TLC |

### CommitmentStore

`baselines`, `updates` and `changeLog` are the three tables, in primary-key order; a row is named by its position, which
is the number `_next_id` gives it because nothing deletes rows. Each store method is one action, since it runs under the
store's lock and commits rows and log entry together: `SaveBaseline`, `ApproveBaseline` and `RejectBaseline`
(`decide_baseline`), `SaveWeeklyUpdate`, `ReverseWeeklyUpdate`. A call that raises changes nothing, so its action is not
enabled. `HoursInEffect` is `active_baseline` followed by `resolve_hours`. Hours are one value: no property here depends
on the three numbers. Queries without `ORDER BY` may return any row (`AnyOf`).

### CommitmentLedger and CommitmentRefinement

The ledger has no status columns and no pointers: `Edit` pushes, `Undo` removes the top, `Approve` replaces the active
baseline, which counts from the first week of the term if it was approved without one (`FirstWeek`). The refinement
mapping reads the stack of a week off the rows that are not reversed, whether replaced or not. `ImplementsLedger` says
that every step of the tables is a step of the ledger or none; `HoursAgreeWithLedger` that the hours found through
columns and pointers are those on top of the stack; `LogReplaysToTables` that the change log alone, replayed over the
seed rows, gives the stacks.

### CommitmentDesk

A thread receives a request, passes or fails its calendar check on the day of the check (`Check`, `RefuseCheck`), calls
the store later (`Store`, `RefuseStore` for the 409 answer) and answers. `Resend` is a client whose answer was lost.
`Midnight` moves the day between any two steps. The calendar maps a day to a week exactly as `calendar_week_number`
does, days between two weeks included. `acceptedOn` is history.

### SnapshotCache

One class, any number of threads. Tables and sheet are version numbers, which is what freshness is about. The steps of a
thread are those between which another thread can run: the class check, taking the service lock, the sheet, each of
the three store reads, filling the cache, the rows a handler reads itself, the commit of a write, `invalidate`, the
answer. The five calls to the sheet are one step: the sheet changes or fails before or after it, never halfway through,
so a sheet that is edited during a read is not modelled. `Fill` stamps the snapshot with the time (`Snapshot.at`).

Rankings, digests and explanations are computed from the snapshot (`read`). A student's commitments, the pending
baselines, the weekly updates and the change log are rows of the store, which the handler reads after the snapshot and
whatever the cache holds (`commitments`, `ReadRows`, `routers/risk.py:61-86` and `125-159`); so does the answer to a
student's own write, after its re-read (`Rereads`). `Told` says what an answer tells: versions that came with a snapshot
(`tables`, `sheet`), rows of the store (`rows`), and that a write of its own is made (`saved`). `seen` is the newest of
each, `floor` what it was when a request arrived. Between a commit and its `invalidate` commitments show the commit
and a ranking from a young cache does not; the properties allow that, because the code does not prevent it and the
writer has not been answered yet. Risk settings and notes are never cached and are left out.

`floor`, `seen`, `invalidated` and `lastReadFailed` are history for the properties. `Restart` loses everything but the
tables, as with a database on disk; with the default SQLite in memory the tables go as well and the system begins anew
from `Init`. A store operation that fails (a lost database) is not modelled, and neither is a clock that goes back.

### Ranking

`snapshot` holds what a table is computed from: marks, hours per week and settings. The operators follow the code from
`score_student` to `get_ranking`: `Present` and `Raw` (missing criteria drop out, weights are rescaled), `Factor`,
`Adjusted` (clip at 100), `Window`, `Row` (means of the weeks with a score, last week's criteria as tie-breakers),
`Sorted`, `Ranks`, gaps, `RankDelta`. `InOrder` puts the rows (and the weeks with a score) in their order, and `Merged`
is a patch put over settings. Scores are whole numbers of 1/`Unit` of a point so that all divisions of an
instance are exact; the code's floating-point noise below half a tenth's boundary is therefore not modelled. Students
are numbered by their displayed names, which are taken to differ. `None` gaps are 0. The actions change the three
inputs: a cell of the sheet, a week's hours, a settings patch.

### RiskSignals

Over the same snapshot: what is measured of a student up to a week (`DeclineRun`, `MissingRun`, `Missed`, shares, mean),
`Firing` (all five thresholds), `SignalsOn` (the switches), `Level`, `EvaluationWeek`, `Digest` and the `History` of a
record. Attendance and participation are one shape, a criterion with a threshold on its share (`RatedCriteria`). The
comparisons multiply out instead of dividing, so they are exact; the code's `1e-9` in the decline is for its
floating-point means. A digest is computed from one snapshot and one set of thresholds (see the last section).

### Page

`page` is the component's state, `flight` the requests under way. A gesture is a handler up to its first `await`, an
outcome its continuation, which runs on the state of that moment, as the code does except where it took values before
(`flight` keeps what a request was asked for). The outcomes of any request come in any order; errors go through
`Failed` or `FailWithMessage` as `handleApiError` is called, or nowhere. A view is abstracted to the request that
filled it, so "the right view" is an equation between the view and the state; the week stands for all controls of a
view (week, window, criteria, names), because a change of any of them is the same code. `Partial` is the
bootstrap that `onApplyWeights` makes out of none: nothing renders then that could be clicked (`Renders`), the keys P and
Escape still work, and only loading the page anew helps. Arrow keys need nothing but a bootstrap, signed in or not. What
the user can reach is modelled too: keys work on every tab, buttons where they are rendered. Logout and
reload, which are the page's crash and restart, may come at any time. `slips` and `late` are history.

### ComponentRuntime

`entries` is the registry, `instances` what is on the page. Templates and classes are numbered by where they come from:
none, a file, the host's first send, its second... An empty or missing class is `StreamableLogic`, the stand-in of the
code. `SendHtml` and `SendJs` may fail to compile and may be unfinished; `SiblingFetched` is a file with any of its
parts, which `Adopted` uses for what is missing; `DocumentFetched` is the second reading of the root. `Mount`, `Render`,
`Crash` and `Unmount` are the calls of the rendering library, which may render at any time. A crash or a constructor
that throws is a choice of the environment, and so is whether an instance is mounted below one of its own component
(`circular`): it then shows a message at every render, before its logic is looked at (`RenderCircular`). `mounts` and
`leaked` count `componentDidMount` less `componentWillUnmount`. Whether a failed class is tried again depends on the
version of the entry and the props; `Told` stands for the version, which is kept per instance and not as a number.

## 3. Runs

| Run | Instance | Shows |
| --- | --- | --- |
| `commitments` | 2 students, one seeded, 2 weeks, 2 hours values, 3 baselines, 4 updates, 5 changes | invariants of the tables, what each operation may do, refinement of the ledger, replay of the log |
| `commitment_desk` | 2 threads, 3 requests, 1 resend, 6 days, 3 weeks with a gap | handlers that overlap with each other and with midnight |
| `snapshot_cache` | 2 threads, 3 requests of 5 kinds, 1 edit, 1 outage, 1 restart, ttl 1 | freshness after commits, what answers tell after confirmed writes and earlier answers, stale mark |
| `snapshot_liveness` | 2 threads, 2 requests, outage that may last, 1 restart | every request is answered |
| `class_table` | 3 students, one joining in week 2, 3 weeks, 2 criteria, 4 views, 2 changes | ranks, gaps, movement, hours and missing marks; runs, digests and levels |
| `page` | 2 classes, 2 students and an instructor, 2 weeks, 3 requests under way, 5 gestures | the view shown, Present mode's panels, loading, records |
| `component_runtime` | 2 components with an instance each, 2 sends | mounts in pairs, swaps, files against sends |
| `commitment_change` | 1 student, 2 baselines | violated: earlier weeks keep their hours |
| `commitment_weekend` | 1 thread, 1 edit, 6 days | violated: no edit of a week that has not begun |
| `snapshot_last_good` | 1 thread, 1 outage | violated: the last good snapshot is served |
| `risk_history` | as `class_table`, 1 change | violated: thresholds leave the history alone |
| `page_present` | as `page`, 2 requests under way, 3 gestures | violated: Present mode shows nothing personal |

Why the bounds are enough. *Tables:* students do not interact except through the shared change log and row numbers, so
two suffice; the seeded one starts with a partly reversed week, so that chains of up to four edits and two rival
submissions are reached in every order (approve the older after the newer, reverse the replaced one). *Desk:* the
interesting conflicts are between two requests, and three allow a third to prepare a row they compete for; the six days
have one before the term, one after it, one between two weeks and a jump of two weeks. *Cache:* a stale fill needs one
reader and one writer; three requests add a second commit, a refresh or a reader of the store's rows in between. With a
ttl of 1 the clock makes a snapshot both young and old. The kinds left out (a new baseline, a reversal, settings) are
writes of a table that one of the kinds present writes, or of the third table, which is read in the same way. *Table:*
three students give ties with and without a third in front or behind, three weeks a window that leaves one out; the
marks include two that are a tie only when rounded (80 and 79.95), one that passes 100 with a large factor, an
assignment that was not set and one nobody handed in. Two changes reach every pair of mark, hours, settings and
thresholds. *Page:* an answer is overtaken by one other, and a third request is the one a continuation sends; five
gestures suffice to sign in, go somewhere, begin something, leave, and sign in again; the gestures that only open or
close what is there are not counted. *Runtime:* two sends are a class and its replacement, or a template and a class;
the two components do not share anything but the rendering library. Symmetry is used only where no definition
distinguishes the elements: threads in the cache and the desk, and never in the liveness run.

`CHECK_DEADLOCK FALSE` is set, but for the runtime, because bounded instances stop when their requests, rows or changes
are used up; that no thread is left waiting is what the liveness run shows.

Each property of a passing run has a mutant in `PROJECT.json`: one definition changed as a plausible bug would change it
(an invalidation that keeps the cache, so that a ranking lacks a write that was confirmed; a lock that is not taken, an
approval that displaces only older rows, a gap to the row just above, ...), under which TLC finds the property violated.
The changed forms stand next to the right ones in the modules, marked "Wrong".

### Fairness

`FairSpec` asserts weak fairness of `Serve(t)` for each thread: a thread that can take its next step does so
eventually. The operating system schedules every thread, and the service lock is held for a bounded number of steps and
released on every way out, so a waiting thread gets it. Nothing is assumed of the environment: requests need not
arrive, time need not pass, the sheet may stay down for good, the process need not restart. Requests are bounded, so a
thread is not overtaken for ever. Weak fairness of one thread's step does not by itself hand it a lock that others keep
taking; that starvation, which Python's `RLock` does not exclude in theory, needs unboundedly many requests.

## 4. Where the code and the documents disagree

1. **Weekends move the edit window** (`service.py:109`, run `commitment_weekend`). `calendar_week_number` returns the
   last week of the term for any day that is in no week and not before the first. The seeded weeks run from Monday to
   Friday, so on every weekend students may edit the last two weeks of the term and not the current one, and an
   approval without a week takes effect in the last week.
2. **A changed baseline takes the hours of earlier weeks** (`store.py:394`, run `commitment_change`). `spec.md:127` says
   that earlier weeks keep their factors. The old baseline becomes `superseded` and no longer counts anywhere, so the
   weeks before the new one's first week fall to zero hours.
3. **A write drops the last good snapshot** (`service.py:268`, run `snapshot_last_good`). `architecture.md:23` says that
   the last good snapshot is served when the source fails. After any write there is none, and requests during the
   outage get 404 or 503.
4. **Thresholds rewrite the history** (`frontend/services/api.js:505`, run `risk_history`). The page says twice that a
   changed threshold leaves the levels of past weeks alone, and `api.js:542` that a stored snapshot keeps them. Nothing is
   stored; client and server recompute every past week with the thresholds of the moment.
5. **Present mode keeps what the instructor's tabs showed** (`League Table.dc.html:1138`, run `page_present`). Entering
   it from the digest or the approvals leaves them on screen until the league table is answered, for good if that fails,
   and a late record, digest or set of thresholds comes up in it. `spec.md:256` rules this out.

`SettledViewMatches` holds with three exceptions, which its comment names and `slips` records. They are places where the
page ends up showing something else than what was asked for; no document says otherwise, so they are not listed
as disagreements, but they are worth knowing: (a) an answer that was overtaken by a later request still replaces the
view, or the class; (b) a save is followed by the load of its own tab even if another one is open by then, and shows
it there; (c) weights that are answered after a change of class are put into the other class's bootstrap, and after a
logout make a bootstrap of their own, on which the page cannot render until it is loaded anew.

## 5. Proofs

The proof modules assume only the named assumptions of the component: the constants have their types, the weeks of the
calendar follow each other (`CalendarOK`), and for the tables that the seed has at most one approved baseline per
student and one live edit per week (`SeedOK`, which is what `toy_seed.py` inserts). All bounds are arbitrary natural
numbers.

`CommitmentStoreProofs`

* `TypeCorrect`: all rows are typed. One case per operation. The delicate part is `Earliest` and `Newest`, which choose
  from a set of row numbers: that a non-empty set of naturals has a least element is taken from the library's
  well-foundedness of `<`, and the newest row is the least one counted from the end of the table.
* `OneApprovedAlways`: inductive together with the types. An approval makes every other approved row of the student
  `superseded` in the same step.
* `DecidedOnce`: every step leaves decided rows alone or displaces them, from lemmas that say row by row what
  a submission, an approval and a rejection leave in the table.
* `EditChainAlways`: `EditChain` is inductive by itself, given the types. A new edit is linked from the only live row,
  which is the last of its chain; a reversal removes the last one and clears the pointer of the only row that names it
  (`ChainEnds`). That is why `EditChain` speaks of the whole chain: that a week has one live row is not inductive, since
  a reversal brings back a row of which it says nothing.

`CommitmentLedgerProofs`, on top of these

* `HoursAgreeAlways`: from `EditChain` the live row of a week is its newest unreversed row (`LiveIsNewest`), which is the
  top of the ledger's stack (`TopEdit`). So what `resolve_hours` finds through `superseded_by` is what the ledger has in
  force.
* `TablesImplementLedger`: the refinement. One lemma per operation shows which ledger step it is (`SubmitStep`,
  `ApproveStep`, `RejectStep`, `EditStep`, `UndoStep`); only the reversal needs `EditChain`, to know that the row it
  takes is the top. Everything else follows from the row-by-row lemmas of `CommitmentStoreProofs`.
* `ReversalRestoresAlways`: the row that becomes live is the one that named the reversed row, and on a chain that is the
  newest one left.
* `PendingIsInertAlways`, `LatestApprovalAlways`: what each operation does to a student's approved rows
  (`SubmittedApproved`, `RejectedApproved`, `ApprovedApproved`). The latest approval is inductive with the types: every
  approval leaves its row as the only approved one, and its entry as the newest.
* `ChangesAreLoggedAlways`: per operation, which weeks can change their hours and what its entry says of them
  (`EditAccounted`, `ReversalAccounted`, `ApprovalAccounted`).
* `LogReplaysAlways`: the replay is a chosen recursive function over the positions of the log. That it exists for every
  log is shown by the least length without one (`ReplayExists`), and an entry more does not change what is replayed
  before it (`ReplayAppended`). What is replayed then matches the live rows of each week (`Replays`), inductively with the
  types and `EditChain`: an edit goes on top of its week's stack as its entry says, and `EditChain` makes the
  reversed row the top, which the entry pops.

`CommitmentDeskProofs`

* `DeskKeepsStore`: every behaviour of the desk is one of the store. A request names rows that were listed, rows are
  never deleted, and what passed a check is what the store is called with (`Served`, in the invariant `DeskInv`), so that
  `Store` is always a step of `CommitmentStore`. All theorems above therefore hold with overlapping handlers, resent
  requests and days that pass in between.
* `DoneIsDoneAlways`: a client that is told "done" stands by a row that is decided or reversed (`IsDone`); the store only
  takes rows that are not.
* `DecisionsLoggedOnce`: the logged decisions and the decided rows grow together, by one element or not at all
  (`BothGrow`).
* `OlderWeeksAlwaysLocked`, `EarlierWeeksKept`: about any calendar, days between weeks included (`OldWeeksAreClosed`,
  `PastWeeksAreBefore`), applied to the day of the check and not to that of the store's step.
* `DeskTypeCorrect` is part of `DeskInv`.

`SnapshotCacheProofs`

* `FreshAlways` and `ConfirmedWritesShowAlways` follow from one inductive invariant, `IInv`. `FreshAfterInvalidation`
  alone is not inductive: `Fill` puts a draft in the cache that was read step by step. `IInv` adds that a reading thread
  holds the lock (`Control`), that no version is announced before it is committed (`Committed`), that what a reader has
  read so far is at least what has been announced (`FreshDrafts`) and that a writer past its `invalidate` has announced
  its own version (`Announced`). The argument: `invalidate` needs the lock, so nothing is announced while a read is in
  progress; what is announced before it starts is committed, so the read sees it. A writer is answered only after its
  `invalidate`, so what has been confirmed has been announced (`Confirmed`), and a thread that holds a snapshot, on its
  way to the rows or to the answer, holds what had been confirmed when its request arrived (`HeldSnapshots`): rows read
  past the cache can only be newer. `IInv` was checked with TLC before it was proved.
* `TypeCorrect` is part of `IInv`.

`SnapshotAnswerProofs`, on top of `IInv`

* `AnswersNeverGoBackAlways` follows from `Order` and `RowsOrder`. `Order`: what has been shown of a snapshot, and what a
  thread that has one is going to show (`Held`), is not newer than the cached snapshot (`NewestCached`), nor than what a
  reader has read so far (`NewestRead`), nor than the store (`NothingInvented`). While a thread reads, nobody else takes a
  snapshot, so what others are about to show was read before; an answer that is given in the meantime moves only what
  was already about to be shown. A restart empties the cache, and the next read starts from the store. The three
  tables and the sheet are treated alike, as `Parts`. `RowsOrder`: rows that have been shown are not newer than the store,
  and a thread that has read its rows has read at least what was shown when its request arrived. Rows do not count among
  what a later snapshot must contain; the theorem says nothing of rows followed by a ranking.
* `StaleTellsTheTruthAlways`: a reader past the sheet has a draft that is not stale and the last try has succeeded; until
  then the cached mark stands for the last try (`StaleInv`).

`PageProofs`, for any classes, students and weeks and any number of requests under way

* `PageTypeCorrect`, `PanelsStayClosedAlways` and `LoadingHasACauseAlways` follow from one inductive invariant,
  `PageInv`. The last of them is not inductive: an answered bootstrap starts a load only for a tab of the user's role
  (`RoleTabs`), and a load only begins if there is a bootstrap. `PageInv` adds that a page without a bootstrap awaits
  one that has not been overtaken (`Awaited`) and that bootstraps are overtaken from the oldest on (`LateFirst`), so
  that an answer which is not the newest leaves a newer one under way.
* `SettledViewAlways` needs an invariant of its own, `Settling`, on top of `PageInv`. `SettledViewMatches` speaks only of
  a page with nothing under way, so `Settling` says of every state what will make it true: the newest bootstrap that has
  not been overtaken is for the chosen class, and if none is under way the class's bootstrap is in place (`Chosen`);
  likewise for the newest view, unless an error shows (`Viewed`); the weights are those of the bootstrap (`Weighed`);
  a student has the own class chosen (`AtHome`); requests for views are overtaken in the order they were sent
  (`InOrder`). The three slips are the only steps that break one of these, and each is recorded where it does.
* `RecordsOpenOnRequestAlways` goes action by action: only `AnswerRecord` puts a record on the page.

`ComponentRuntimeProofs`, for any components, instances and sends

* `RuntimeTypeCorrect`, `MountsPairAlways` and `SettledAlways` follow from `RuntimeInv`, which adds that nothing in the
  registry is newer than the last send (`NothingFromTheFuture`) and that no older class runs on where a constructor has
  failed (`FailedRunsNothing`). Between a swap and the render that mounts the new logic, `needsDidMount` says that
  there is nothing to unmount; the proof goes through `Swapped`, `Committed` and `Unmount` with that case apart.
* `FilesNeverReplaceSendsAlways`: a send has a higher number than all before it (hence `NothingFromTheFuture`), and
  `Adopted` takes from a file only what is missing.

`RiskSignalsProofs`, for any numbers of students and weeks, any marks, hours, settings, thresholds and views. Every
property of the run `class_table` is a theorem. Nothing here is an induction over steps but for the types: the
difficulty is in the operators, which are sums, sorted sequences and counters over data of any size.

* `RiskTypeCorrect`: a patch fits whatever earlier patches have made of the settings (`PatchedSettings`,
  `PatchedThresholds`). Only the seed is assumed to be patched well, by `RankingConstants` and `RiskConstants`.
* *Sums.* The library's fold is a chosen recursive function over subsets. That it exists, is the only one, and can be
  taken apart at any element (`SumExists`, `SumUnique`, `SumTake`) is shown by a smallest set that would be an exception
  (`SmallestSet`), which the well-foundedness of strict inclusion on a finite set gives. `SumMonotone` and `SumSame`
  follow.
* *Order.* A set with a total order has an element for each place (`EveryPlaceTaken`), so `InOrder` lists it without
  repetition (`ArrangedInOrder`). `AboveIsTotal` shows that the comparison of rows is a total order, because names differ.
* `RanksAlwaysCompetition`: competition ranks satisfy the recursion of `Ranks` on a sorted table and are the only
  function that does. `GapsAlwaysReach` follows, since rows with a better rank are those with a better score
  (`RanksFollowScores`) and the nearest of them has the score the gap leads to. `ClimbersAlwaysPass` counts: a rank is
  one more than the number of students ahead, and a smaller number means that somebody has gone (`SomebodyIsPassed`).
* `RunsAlwaysLongest`: both counters give the length of the streak that ends at a place (`StreakRule`, `RunIsStreak`).
* `DigestsAlwaysChain`: the two digests evaluate the week they share alike, as they use one snapshot and one set of
  thresholds.
* `MissingNeverZero`: a first mark joins the sums of points and weights (`FirstMarkAdds`), and a quotient of two such sums
  moves towards what joins them, rounded down or not (`MeanMovesTowards`).
* `StricterAlways`: each of the five comparisons is monotone in its threshold (`StricterFires`). `LaterWeeksAlways`:
  what is measured up to a week reads no later week.
* `BetterMarkNeverRaises`: the better mark raises the score of the week evaluated and of no other, which can only end a
  fall; it lifts shares and mean. Hence the theorem is about the week evaluated: the same mark in an earlier week may
  begin a fall.
* `MoreHoursAlwaysHelp`: the student's row grows and the others stay (`RowGrows`, `RowStays`), so whoever was above in the
  new table was above in the old one (`AboveAfterMoreHours`), from which places and ranks are counted (`TableShows`).

Only checked with TLC: liveness (`EveryRequestIsAnswered`) and the use of fairness, out of the prover's reach. Every
other property of a passing run is a theorem for all values of the constants. What the five violated
runs show are counterexamples, which need no proof. That the divisions of an instance are exact is not assumed
in the proofs: the theorems about scores hold with all quotients rounded down.

## 6. Plan

Done: the tables with their ledger, the desk, the cache, the table with its risk signals, the page, the component
runtime; of each, all safety properties as theorems, and the refinement of the ledger. What is left, in this order:

1. Two processes with their own locks and caches on one database: transactions of read and write steps, unique ids and
   decisions taken once; how long a cache misses the other process's writes.
2. The digest over the cache, with a snapshot and settings per week evaluated.

Not modelled, and why: authentication and privacy rules are checks on single requests without state; the explanation and
the bootstrap data copy fields; telemetry, error bodies and the fault switch do not change what the system does; schema
creation, seeding and deployment scripts are input and output; the reference client's adapters answer from memory, so
that its cache is never raced in the program as it is. Of the page: the values typed into drafts, Raw view, focus and
animation, which no later step depends on. Of the runtime: the template compiler, which is a pure function from
text to a tree and would have to be written down character by character; external modules and styles; the messages
of an embedding editor. In a model with no database errors and a clock that does not go back, what follows either of
them is not shown.
