--------------------------- MODULE SnapshotCache ---------------------------
(***************************************************************************)
(* LeagueService (backend/app/service.py) and the request handlers that    *)
(* use it: one class's cached snapshot, shared by the worker threads that  *)
(* serve requests, while instructors and students write to the store and   *)
(* the score sheet changes or goes down.                                   *)
(*                                                                         *)
(* The service lock is held through a whole read, the store's own lock     *)
(* only through one operation, so commits land between the three store     *)
(* reads of _read.  The handlers about commitments also read the store     *)
(* themselves, past the cache.  Store tables and the sheet are version     *)
(* numbers, which is all that freshness tells apart.                       *)
(***************************************************************************)
EXTENDS Integers

CONSTANTS
    Kinds,          \* the kinds of request that arrive
    Threads,        \* worker threads, each serving one request at a time
    None,           \* no snapshot, no thread, no time
    Ttl,            \* seconds a snapshot is served without reading again
    Cooldown,       \* seconds between two forced refreshes
    MaxTime,        \* bound: the clock
    MaxRequests,    \* bound: requests received
    MaxEdits,       \* bound: edits of the score sheet
    MaxOutages,     \* bound: times the sheet becomes unreachable
    MaxRestarts     \* bound: restarts of the process

Tables == {"baselines", "updates", "settings"}

Writes == {"putBaseline", "putWeek", "decide", "reverse", "putSettings"}

\* "read" answers with what is computed from a snapshot; "commitments" stands for
\* the handlers that show rows of the store next to a snapshot: a student's
\* commitments, the pending baselines, the weekly updates, the change log.
Requests == Writes \cup {"read", "commitments", "refresh"}

\* The table a write commits to.
Target(request) ==
    CASE request \in {"putBaseline", "decide"} -> "baselines"
      [] request \in {"putWeek", "reverse"} -> "updates"
      [] request = "putSettings" -> "settings"

\* A student's own writes take a new snapshot and answer with the commitments.
Rereads == {"putBaseline", "putWeek"}

\* _commitments_payload: what an answer about commitments reads from the store
\* itself; the league settings and the weeks are those of the snapshot.
CommitmentTables == {"baselines", "updates"}

NoVersions == [t \in Tables |-> 0]

\* What answers have told: the versions of snapshots they were computed from, the
\* rows read from the store for them, and the writes they have confirmed.
Histories == [tables : [Tables -> Nat], sheet : Nat,
              rows : [Tables -> Nat], saved : [Tables -> Nat]]

\* Versions read from the store and the sheet; at and stale as in Snapshot.
Snapshot == [tables : [Tables -> Nat], sheet : Nat, at : Nat, stale : BOOLEAN]

ASSUME CacheConstants ==
    /\ None \notin Threads
    /\ None \notin Nat \cup Snapshot
    /\ Kinds \subseteq Requests
    /\ Ttl \in Nat /\ Cooldown \in Nat
    /\ MaxTime \in Nat /\ MaxRequests \in Nat /\ MaxEdits \in Nat
    /\ MaxOutages \in Nat /\ MaxRestarts \in Nat

VARIABLES
    committed,      \* commits made to each store table
    sheet,          \* version of the score sheet, from 1
    up,             \* whether the sheet can be read
    now,            \* the service clock
    cache,          \* the cached snapshot or None
    lastRefresh,    \* time of the last accepted refresh or None
    lock,           \* thread that holds the service lock or None
    pc,             \* where each thread is in its handler
    request,        \* the request each thread serves
    wrote,          \* version of the thread's own commit, 0 before it commits
    draft,          \* what the thread has read so far, then its snapshot
    answer,         \* how the request ends: "snapshot", "rows", "done" or an error
    floor,          \* history: seen, when the request arrived
    seen,           \* history: the newest versions any answer has told
    invalidated,    \* history: newest version of each table whose writer has invalidated
    lastReadFailed, \* history: whether the last attempt to read the sheet failed
    counts          \* requests, outages and restarts so far, for the bounds

storeVars == <<committed, sheet, up, now>>
serviceVars == <<cache, lastRefresh, lock>>
threadVars == <<pc, request, wrote, draft, answer>>
historyVars == <<floor, seen, invalidated, lastReadFailed>>
vars == <<storeVars, serviceVars, threadVars, historyVars, counts>>

NothingSeen == [tables |-> NoVersions, sheet |-> 0, rows |-> NoVersions, saved |-> NoVersions]

EmptyDraft == [tables |-> NoVersions, sheet |-> 0, at |-> 0, stale |-> FALSE]

Steps == {"idle", "classCheck", "snapshot", "refresh", "sheet", "baselines",
          "updates", "settings", "fill", "rows", "commit", "invalidate", "respond"}

Errors == {"notFound", "unavailable", "tooSoon", "refused"}

Goto(t, step) == pc' = [pc EXCEPT ![t] = step]

Respond(t, how) == Goto(t, "respond") /\ answer' = [answer EXCEPT ![t] = how]

----------------------------------------------------------------------------
(* The lock and the cache *)

\* with self._lock.  Wrong: an operation does not wait for the lock.
LockIgnored == TRUE

LockFree == lock = None

\* The lock is released on every way out.  Wrong: not by a read that ends.
KeepLock == UNCHANGED lock

Release == lock' = None

\* A new snapshot carries the time it was read.  Wrong: that of the last refresh.
StampedByRefresh(snapshot) == [snapshot EXCEPT !.at = lastRefresh]

Stamped(snapshot) == [snapshot EXCEPT !.at = now]

\* The old snapshot after a failed read.  Wrong: it is passed off as current.
Unmarked(snapshot) == snapshot

MarkedStale(snapshot) == [snapshot EXCEPT !.stale = TRUE]

\* What invalidate does to the cache.  Wrong: the old snapshot stays.
KeepCache == UNCHANGED cache

DropCache == cache' = None

----------------------------------------------------------------------------
(* Requests *)

Receive(t, r) ==
    /\ pc[t] = "idle"
    /\ counts.requests < MaxRequests
    /\ counts' = [counts EXCEPT !.requests = @ + 1]
    /\ Goto(t, "classCheck")
    /\ request' = [request EXCEPT ![t] = r]
    /\ floor' = [floor EXCEPT ![t] = seen]
    /\ UNCHANGED <<storeVars, serviceVars, wrote, draft, answer, seen, invalidated, lastReadFailed>>

\* need_class: has_class asks the sheet, and the cache when the sheet is down.
CheckClass(t) ==
    /\ pc[t] = "classCheck"
    /\ IF up \/ cache # None
       THEN Goto(t, "snapshot") /\ UNCHANGED answer
       ELSE Respond(t, "notFound")
    /\ UNCHANGED <<storeVars, serviceVars, request, wrote, draft, historyVars, counts>>

\* What the handler does once it has its snapshot.
Continue(t) ==
    \/ /\ request[t] = "read"
       /\ Respond(t, "snapshot")
    \/ /\ \/ request[t] = "commitments"
          \/ request[t] \in Rereads /\ wrote[t] # 0
       /\ Goto(t, "rows")
       /\ UNCHANGED answer
    \/ /\ request[t] = "refresh"
       /\ Goto(t, "refresh")
       /\ UNCHANGED answer
    \/ /\ request[t] \in Writes /\ wrote[t] = 0
       /\ Goto(t, "commit")
       /\ UNCHANGED answer

\* A snapshot that need not be read again; a refresh that comes too soon.
Young == cache # None /\ now - cache.at < Ttl

CoolingDown == lastRefresh # None /\ now - lastRefresh < Cooldown

\* snapshot: a cached snapshot younger than the ttl is used as it is.
UseCached(t) ==
    /\ pc[t] = "snapshot"
    /\ LockFree
    /\ Young
    /\ draft' = [draft EXCEPT ![t] = cache]
    /\ Continue(t)
    /\ UNCHANGED <<storeVars, serviceVars, request, wrote, historyVars, counts>>

\* snapshot: otherwise the thread keeps the lock and reads everything again.
StartRead(t) ==
    /\ pc[t] = "snapshot"
    /\ LockFree
    /\ ~Young
    /\ lock' = t
    /\ Goto(t, "sheet")
    /\ UNCHANGED <<storeVars, cache, lastRefresh, request, wrote, draft, answer, historyVars, counts>>

\* refresh: accepted or not, then a forced read under the same lock.
RefuseRefresh(t) ==
    /\ pc[t] = "refresh"
    /\ LockFree
    /\ CoolingDown
    /\ Respond(t, "tooSoon")
    /\ UNCHANGED <<storeVars, serviceVars, request, wrote, draft, historyVars, counts>>

StartRefresh(t) ==
    /\ pc[t] = "refresh"
    /\ LockFree
    /\ ~CoolingDown
    /\ lastRefresh' = now
    /\ lock' = t
    /\ request' = [request EXCEPT ![t] = "read"]
    /\ Goto(t, "sheet")
    /\ UNCHANGED <<storeVars, cache, wrote, draft, answer, historyVars, counts>>

\* _read: the sheet first.
ReadSheet(t) ==
    /\ pc[t] = "sheet"
    /\ up
    /\ draft' = [draft EXCEPT ![t] = [EmptyDraft EXCEPT !.sheet = sheet]]
    /\ lastReadFailed' = FALSE
    /\ Goto(t, "baselines")
    /\ UNCHANGED <<storeVars, serviceVars, request, wrote, answer, floor, seen, invalidated, counts>>

\* The sheet is down: the old snapshot is marked stale and used; without one
\* the request fails.
SheetFails(t) ==
    /\ pc[t] = "sheet"
    /\ ~up
    /\ Release
    /\ lastReadFailed' = TRUE
    /\ IF cache = None
       THEN Respond(t, "unavailable") /\ UNCHANGED <<cache, draft>>
       ELSE /\ cache' = MarkedStale(cache)
            /\ draft' = [draft EXCEPT ![t] = cache']
            /\ Continue(t)
    /\ UNCHANGED <<storeVars, lastRefresh, request, wrote, floor, seen, invalidated, counts>>

\* _read: then each store table, in a transaction of its own.
ReadTable(t, table, next) ==
    /\ pc[t] = table
    /\ draft' = [draft EXCEPT ![t].tables[table] = committed[table]]
    /\ Goto(t, next)
    /\ UNCHANGED <<storeVars, serviceVars, request, wrote, answer, historyVars, counts>>

Fill(t) ==
    /\ pc[t] = "fill"
    /\ cache' = Stamped(draft[t])
    /\ draft' = [draft EXCEPT ![t] = cache']
    /\ Release
    /\ Continue(t)
    /\ UNCHANGED <<storeVars, lastRefresh, request, wrote, historyVars, counts>>

\* get_commitments: with the snapshot in hand the handler reads the rows from the
\* store, in a transaction that takes no notice of the cache.
ReadRows(t) ==
    /\ pc[t] = "rows"
    /\ draft' = [draft EXCEPT ![t].tables =
                   [table \in Tables |-> IF table \in CommitmentTables
                                        THEN committed[table] ELSE @[table]]]
    /\ Respond(t, "rows")
    /\ UNCHANGED <<storeVars, serviceVars, request, wrote, historyVars, counts>>

\* The store operation of the handler, committed with its log entry (the snapshot has
\* done its service) ...
Commit(t) ==
    LET table == Target(request[t]) IN
    /\ pc[t] = "commit"
    /\ committed' = [committed EXCEPT ![table] = @ + 1]
    /\ wrote' = [wrote EXCEPT ![t] = committed'[table]]
    /\ draft' = [draft EXCEPT ![t] = EmptyDraft]
    /\ Goto(t, "invalidate")
    /\ UNCHANGED <<sheet, up, now, serviceVars, request, answer, historyVars, counts>>

\* ... or refused: an invalid week, an unknown row, a decision already taken.
Refuse(t) ==
    /\ pc[t] = "commit"
    /\ Respond(t, "refused")
    /\ UNCHANGED <<storeVars, serviceVars, request, wrote, draft, historyVars, counts>>

Larger(m, n) == IF m >= n THEN m ELSE n

Invalidate(t) ==
    LET table == Target(request[t]) IN
    /\ pc[t] = "invalidate"
    /\ LockFree
    /\ DropCache
    /\ invalidated' = [invalidated EXCEPT ![table] = Larger(@, wrote[t])]
    /\ IF request[t] \in Rereads
       THEN Goto(t, "classCheck") /\ UNCHANGED answer
       ELSE Respond(t, "done")
    /\ UNCHANGED <<storeVars, lastRefresh, lock, request, wrote, draft, floor, seen,
                   lastReadFailed, counts>>

\* What an answer tells, part by part: a snapshot or the rest of one beside rows of
\* the store, those rows, and that a write of its own is done.
FromSnapshot(t, part) ==
    \/ answer[t] = "snapshot"
    \/ answer[t] = "rows" /\ part \notin CommitmentTables

FromStore(t, part) == answer[t] = "rows" /\ part \in CommitmentTables

Confirms(t, table) ==
    answer[t] \in {"rows", "done"} /\ request[t] \in Writes /\ table = Target(request[t])

Told(t) ==
    [tables |-> [table \in Tables |-> IF FromSnapshot(t, table) THEN draft[t].tables[table] ELSE 0],
     sheet |-> IF FromSnapshot(t, "sheet") THEN draft[t].sheet ELSE 0,
     rows |-> [table \in Tables |-> IF FromStore(t, table) THEN draft[t].tables[table] ELSE 0],
     saved |-> [table \in Tables |-> IF Confirms(t, table) THEN wrote[t] ELSE 0]]

LargerOfEach(f, g) == [table \in Tables |-> Larger(f[table], g[table])]

\* The client receives the answer; nothing of the request outlives it.
Answer(t) ==
    /\ pc[t] = "respond"
    /\ Goto(t, "idle")
    /\ request' = [request EXCEPT ![t] = "read"]
    /\ wrote' = [wrote EXCEPT ![t] = 0]
    /\ draft' = [draft EXCEPT ![t] = EmptyDraft]
    /\ answer' = [answer EXCEPT ![t] = "done"]
    /\ floor' = [floor EXCEPT ![t] = NothingSeen]
    /\ seen' = [tables |-> LargerOfEach(seen.tables, Told(t).tables),
                sheet |-> Larger(seen.sheet, Told(t).sheet),
                rows |-> LargerOfEach(seen.rows, Told(t).rows),
                saved |-> LargerOfEach(seen.saved, Told(t).saved)]
    /\ UNCHANGED <<storeVars, serviceVars, invalidated, lastReadFailed, counts>>

Serve(t) ==
    \/ CheckClass(t)
    \/ UseCached(t)
    \/ StartRead(t)
    \/ RefuseRefresh(t)
    \/ StartRefresh(t)
    \/ ReadSheet(t)
    \/ SheetFails(t)
    \/ ReadTable(t, "baselines", "updates")
    \/ ReadTable(t, "updates", "settings")
    \/ ReadTable(t, "settings", "fill")
    \/ Fill(t)
    \/ ReadRows(t)
    \/ Commit(t)
    \/ Refuse(t)
    \/ Invalidate(t)
    \/ Answer(t)

----------------------------------------------------------------------------
(* Environment *)

Tick ==
    /\ now < MaxTime
    /\ now' = now + 1
    /\ UNCHANGED <<committed, sheet, up, serviceVars, threadVars, historyVars, counts>>

EditSheet ==
    /\ sheet <= MaxEdits
    /\ sheet' = sheet + 1
    /\ UNCHANGED <<committed, up, now, serviceVars, threadVars, historyVars, counts>>

SheetGoesDown ==
    /\ up
    /\ counts.outages < MaxOutages
    /\ up' = FALSE
    /\ counts' = [counts EXCEPT !.outages = @ + 1]
    /\ UNCHANGED <<committed, sheet, now, serviceVars, threadVars, historyVars>>

SheetComesBack ==
    /\ ~up
    /\ up' = TRUE
    /\ UNCHANGED <<committed, sheet, now, serviceVars, threadVars, historyVars, counts>>

\* The process dies: its cache, locks and requests with it, the database not.  (With
\* the default SQLite in memory the tables go too, and Init begins anew.)
Restart ==
    /\ counts.restarts < MaxRestarts
    /\ counts' = [counts EXCEPT !.restarts = @ + 1]
    /\ cache' = None
    /\ lastRefresh' = None
    /\ lock' = None
    /\ pc' = [t \in Threads |-> "idle"]
    /\ request' = [t \in Threads |-> "read"]
    /\ wrote' = [t \in Threads |-> 0]
    /\ draft' = [t \in Threads |-> EmptyDraft]
    /\ answer' = [t \in Threads |-> "done"]
    /\ floor' = [t \in Threads |-> NothingSeen]
    /\ UNCHANGED <<storeVars, seen, invalidated, lastReadFailed>>

Init ==
    /\ committed = NoVersions
    /\ sheet = 1
    /\ up = TRUE
    /\ now = 0
    /\ cache = None
    /\ lastRefresh = None
    /\ lock = None
    /\ pc = [t \in Threads |-> "idle"]
    /\ request = [t \in Threads |-> "read"]
    /\ wrote = [t \in Threads |-> 0]
    /\ draft = [t \in Threads |-> EmptyDraft]
    /\ answer = [t \in Threads |-> "done"]
    /\ floor = [t \in Threads |-> NothingSeen]
    /\ seen = NothingSeen
    /\ invalidated = NoVersions
    /\ lastReadFailed = FALSE
    /\ counts = [requests |-> 0, outages |-> 0, restarts |-> 0]

Next ==
    \/ \E t \in Threads, r \in Kinds : Receive(t, r)
    \/ \E t \in Threads : Serve(t)
    \/ Tick
    \/ EditSheet
    \/ SheetGoesDown
    \/ SheetComesBack
    \/ Restart

Spec == Init /\ [][Next]_vars

\* Threads are scheduled and the lock is granted to one that keeps waiting;
\* nothing obliges requests to arrive or the sheet to come back.
FairSpec == Spec /\ \A t \in Threads : WF_vars(Serve(t))

----------------------------------------------------------------------------
(* Correctness *)

TypeOK ==
    /\ committed \in [Tables -> Nat]
    /\ sheet \in Nat
    /\ up \in BOOLEAN
    /\ now \in Nat
    /\ cache \in Snapshot \cup {None}
    /\ lastRefresh \in Nat \cup {None}
    /\ lock \in Threads \cup {None}
    /\ pc \in [Threads -> Steps]
    /\ request \in [Threads -> Requests]
    /\ wrote \in [Threads -> Nat]
    /\ draft \in [Threads -> Snapshot]
    /\ answer \in [Threads -> {"snapshot", "rows", "done"} \cup Errors]
    /\ floor \in [Threads -> Histories]
    /\ seen \in Histories
    /\ invalidated \in [Tables -> Nat]
    /\ lastReadFailed \in BOOLEAN
    /\ counts \in [requests : Nat, outages : Nat, restarts : Nat]

\* A cached snapshot may lack a commit, and may even mix tables from before and
\* after one, but only until the writer has invalidated: no snapshot that was
\* read before a commit outlives the invalidation that follows it.
FreshAfterInvalidation ==
    cache # None => \A table \in Tables : cache.tables[table] >= invalidated[table]

\* An answer is about to be given that shows a snapshot or rows of the store.
Answering(t) == pc[t] = "respond" /\ answer[t] \in {"snapshot", "rows"}

\* Once a writer has been told that its change is made, every request that arrives
\* later is answered with it, by whichever thread and whether from a cached
\* snapshot or from rows of the store.  Before that, rankings and commitments
\* may disagree: the latter show a commit that has yet to be invalidated.
ConfirmedWritesShow ==
    \A t \in Threads : Answering(t) =>
        \A table \in Tables : draft[t].tables[table] >= floor[t].saved[table]

\* What was computed from a snapshot never goes back: a request that arrives after
\* such an answer gets no older scores, settings or commitments, not after a
\* restart, an outage or a refresh.  Rows read from the store do not go back
\* behind any answer, those read directly before included.
AnswersNeverGoBack ==
    \A t \in Threads : Answering(t) =>
        /\ draft[t].sheet >= floor[t].sheet
        /\ \A table \in Tables :
            /\ draft[t].tables[table] >= floor[t].tables[table]
            /\ FromStore(t, table) => draft[t].tables[table] >= floor[t].rows[table]

\* The page says "stale" exactly when the sheet could not be read the last time
\* somebody tried, and a thread waiting for the lock cannot change that.
StaleTellsTheTruth ==
    cache # None /\ lock = None => (cache.stale <=> lastReadFailed)

\* Every request is answered: no thread waits forever for the service lock,
\* neither when the sheet fails under it nor when a refresh is refused.
EveryRequestIsAnswered ==
    \A t \in Threads : pc[t] # "idle" ~> pc[t] = "idle"

\* architecture.md: if the source fails, the last good snapshot is served and
\* marked stale.  A request that needs a snapshot, and arrives after one has
\* been shown, should therefore get one.  (Checked without restarts.)
LastGoodIsServed ==
    \A t \in Threads :
        pc[t] = "respond" /\ answer[t] \in {"notFound", "unavailable"}
            => floor[t].sheet = 0

=============================================================================
