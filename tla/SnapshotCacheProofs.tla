----------------------- MODULE SnapshotCacheProofs -----------------------
(***************************************************************************)
(* Proofs about SnapshotCache, for any set of threads, any ttl and any     *)
(* number of requests.                                                     *)
(***************************************************************************)
EXTENDS SnapshotCache, TLAPS

\* Names for one expression each.
USE DEF LockFree, Release, Stamped, MarkedStale, DropCache

\* The handler steps between taking the service lock for a read and Fill.
Reading == {"sheet", "baselines", "updates", "settings", "fill"}

\* The tables a thread has read when it is about to take a step.
AlreadyRead(step) ==
    CASE step = "updates" -> {"baselines"}
      [] step = "settings" -> {"baselines", "updates"}
      [] step = "fill" -> Tables
      [] OTHER -> {}

\* Control: a reading thread holds the lock, a committing one serves a write,
\* and an idle one has committed nothing.
Control ==
    \A t \in Threads :
        /\ pc[t] \in Reading => lock = t
        /\ pc[t] \in {"commit", "invalidate"} => request[t] \in Writes
        /\ pc[t] = "idle" => wrote[t] = 0

\* No version is announced that is not in the store.
Committed ==
    /\ \A table \in Tables : invalidated[table] <= committed[table]
    /\ \A t \in Threads :
        request[t] \in Writes => wrote[t] <= committed[Target(request[t])]

\* A read in progress has missed no commit that has been invalidated.
FreshDrafts ==
    \A t \in Threads : \A table \in AlreadyRead(pc[t]) :
        draft[t].tables[table] >= invalidated[table]

\* Past the invalidation, the thread's own commit is among the announced ones.
Announced ==
    \A t \in Threads :
        request[t] \in Writes /\ wrote[t] # 0 /\ pc[t] # "invalidate" =>
            wrote[t] <= invalidated[Target(request[t])]

\* What has been confirmed to a client has been invalidated.
Confirmed ==
    \A table \in Tables :
        /\ seen.saved[table] <= invalidated[table]
        /\ \A t \in Threads : floor[t].saved[table] <= invalidated[table]

\* A thread has the snapshot its answer is computed from.
Holding(t) == pc[t] = "rows" \/ Answering(t)

\* ConfirmedWritesShow from the moment a thread has its snapshot.
HeldSnapshots ==
    \A t \in Threads : Holding(t) =>
        \A table \in Tables : draft[t].tables[table] >= floor[t].saved[table]

IInv ==
    /\ TypeOK
    /\ Control
    /\ Committed
    /\ FreshDrafts
    /\ Announced
    /\ FreshAfterInvalidation
    /\ Confirmed
    /\ HeldSnapshots

----------------------------------------------------------------------------
(* Types *)

\* Tables and request kinds are what the definitions say.
LEMMA Targets ==
    ASSUME NEW r \in Writes
    PROVE  Target(r) \in Tables
BY DEF Writes, Target, Tables

\* The drafts after a thread's draft is replaced by a snapshot.
LEMMA NewDraft ==
    ASSUME TypeOK, NEW t \in Threads, NEW snapshot \in Snapshot,
           draft' = [draft EXCEPT ![t] = snapshot]
    PROVE  /\ draft' \in [Threads -> Snapshot]
           /\ draft'[t] = snapshot
           /\ \A u \in Threads \ {t} : draft'[u] = draft[u]
BY DEF TypeOK

\* What Continue may do: respond with the snapshot, or go on to the rows, to the
\* refresh or to the commit.
LEMMA Continued ==
    ASSUME TypeOK, NEW t \in Threads, Continue(t)
    PROVE  /\ pc' \in [Threads -> Steps]
           /\ answer' \in [Threads -> {"snapshot", "rows", "done"} \cup Errors]
           /\ \A u \in Threads \ {t} : pc'[u] = pc[u] /\ answer'[u] = answer[u]
           /\ pc'[t] \in {"respond", "rows", "refresh", "commit"}
           /\ pc'[t] = "respond" => answer'[t] = "snapshot"
           /\ pc'[t] = "commit" => request[t] \in Writes
BY DEF TypeOK, Continue, Respond, Goto, Steps

\* The draft after the rows have been read into it.
LEMMA RowsRead ==
    ASSUME TypeOK, NEW t \in Threads, ReadRows(t)
    PROVE  /\ draft' \in [Threads -> Snapshot]
           /\ draft'[t].sheet = draft[t].sheet
           /\ \A table \in Tables :
                draft'[t].tables[table] = IF table \in CommitmentTables THEN committed[table]
                                          ELSE draft[t].tables[table]
           /\ \A u \in Threads \ {t} : draft'[u] = draft[u]
<1> DEFINE rows == [table \in Tables |-> IF table \in CommitmentTables
                                        THEN committed[table] ELSE draft[t].tables[table]]
           read == [draft[t] EXCEPT !.tables = rows]
<1>1. draft[t] \in Snapshot /\ committed \in [Tables -> Nat]
  BY DEF TypeOK
<1>2. rows \in [Tables -> Nat]
  BY <1>1 DEF Snapshot
<1>3. read \in Snapshot /\ read.tables = rows /\ read.sheet = draft[t].sheet
  BY <1>1, <1>2 DEF Snapshot
<1>4. draft' = [draft EXCEPT ![t] = read]
  BY DEF ReadRows
<1>5. /\ draft' \in [Threads -> Snapshot] /\ draft'[t] = read
      /\ \A u \in Threads \ {t} : draft'[u] = draft[u]
  BY <1>3, <1>4, NewDraft
<1> QED BY <1>3, <1>5

\* What an answer tells has the type of a history.
LEMMA ToldType ==
    ASSUME TypeOK, NEW t \in Threads
    PROVE  Told(t) \in Histories
<1>1. draft[t] \in Snapshot /\ wrote[t] \in Nat
  BY DEF TypeOK
<1> QED BY <1>1 DEF Told, Histories, Snapshot

\* The tables are read in this order, each by a step of its own.
LEMMA ReadOrder ==
    ASSUME NEW t,
           \/ ReadTable(t, "baselines", "updates")
           \/ ReadTable(t, "updates", "settings")
           \/ ReadTable(t, "settings", "fill")
    PROVE  \E table \in Tables, next \in {"updates", "settings", "fill"} :
               ReadTable(t, table, next)
BY DEF Tables

\* Every step keeps the types.
LEMMA TypeStep ==
    ASSUME CacheConstants, TypeOK, Control, [Next]_vars
    PROVE  TypeOK'
<1> USE DEF TypeOK
<1>1. ASSUME NEW t \in Threads, NEW r \in Kinds, Receive(t, r) PROVE TypeOK'
  <2>1. floor' \in [Threads -> Histories]
    BY <1>1 DEF Receive
  <2>2. request' \in [Threads -> Requests] /\ counts' \in [requests : Nat, outages : Nat, restarts : Nat]
    BY <1>1 DEF CacheConstants, Receive
  <2> QED BY <1>1, <2>1, <2>2 DEF Receive, Goto, Steps, storeVars, serviceVars
<1>2. ASSUME NEW t \in Threads, CheckClass(t) PROVE TypeOK'
  BY <1>2 DEF CheckClass, Respond, Goto, Steps, Errors, storeVars, serviceVars, historyVars
<1>3. ASSUME NEW t \in Threads, UseCached(t) PROVE TypeOK'
  <2>1. cache \in Snapshot
    BY <1>3 DEF UseCached, Young
  <2>2. draft' \in [Threads -> Snapshot]
    BY <1>3, <2>1, NewDraft DEF UseCached
  <2> QED BY <1>3, <2>2, Continued DEF UseCached, storeVars, serviceVars, historyVars
<1>4. ASSUME NEW t \in Threads, StartRead(t) PROVE TypeOK'
  BY <1>4 DEF StartRead, Goto, Steps, storeVars, historyVars
<1>5. ASSUME NEW t \in Threads, RefuseRefresh(t) PROVE TypeOK'
  BY <1>5 DEF RefuseRefresh, Respond, Goto, Steps, Errors, storeVars, serviceVars, historyVars
<1>6. ASSUME NEW t \in Threads, StartRefresh(t) PROVE TypeOK'
  BY <1>6 DEF StartRefresh, Goto, Steps, Requests, storeVars, historyVars
<1>7. ASSUME NEW t \in Threads, ReadSheet(t) PROVE TypeOK'
  <2>1. [EmptyDraft EXCEPT !.sheet = sheet] \in Snapshot
    BY DEF EmptyDraft, NoVersions, Snapshot
  <2>2. draft' \in [Threads -> Snapshot]
    BY <1>7, <2>1, NewDraft DEF ReadSheet
  <2> QED BY <1>7, <2>2 DEF ReadSheet, Goto, Steps, storeVars, serviceVars
<1>8. ASSUME NEW t \in Threads, SheetFails(t) PROVE TypeOK'
  <2>1. CASE cache = None
    BY <1>8, <2>1 DEF SheetFails, Respond, Goto, Steps, Errors, storeVars
  <2>2. CASE cache # None
    <3>0. cache \in Snapshot
      BY <2>2
    <3>1. cache' = MarkedStale(cache) /\ draft' = [draft EXCEPT ![t] = cache'] /\ Continue(t)
      BY <1>8, <2>2 DEF SheetFails
    <3>2. cache' \in Snapshot
      BY <3>0, <3>1 DEF MarkedStale, Snapshot
    <3>3. draft' \in [Threads -> Snapshot]
      BY <3>1, <3>2, NewDraft
    <3> QED BY <1>8, <3>1, <3>2, <3>3, Continued DEF SheetFails, storeVars
  <2> QED BY <2>1, <2>2
<1>9. ASSUME NEW t \in Threads, NEW table \in Tables, NEW next \in {"updates", "settings", "fill"},
             ReadTable(t, table, next)
      PROVE TypeOK'
  <2>1. [draft[t] EXCEPT !.tables[table] = committed[table]] \in Snapshot
    <3>1. draft[t] \in Snapshot /\ committed[table] \in Nat
      OBVIOUS
    <3>2. [draft[t].tables EXCEPT ![table] = committed[table]] \in [Tables -> Nat]
      BY <3>1 DEF Snapshot
    <3> QED BY <3>1, <3>2 DEF Snapshot
  <2>2. draft' = [draft EXCEPT ![t] = [draft[t] EXCEPT !.tables[table] = committed[table]]]
    BY <1>9 DEF ReadTable
  <2>3. draft' \in [Threads -> Snapshot]
    BY <2>1, <2>2, NewDraft
  <2> QED BY <1>9, <2>3 DEF ReadTable, Goto, Steps, storeVars, serviceVars, historyVars
<1>10. ASSUME NEW t \in Threads, Fill(t) PROVE TypeOK'
  <2>1. draft[t] \in Snapshot
    OBVIOUS
  <2>2. [draft[t] EXCEPT !.at = now] \in Snapshot
    BY <2>1 DEF Snapshot
  <2>3. cache' \in Snapshot /\ draft' = [draft EXCEPT ![t] = cache']
    BY <1>10, <2>2 DEF Fill
  <2>4. draft' \in [Threads -> Snapshot]
    BY <2>3, NewDraft
  <2> QED BY <1>10, <2>3, <2>4, Continued DEF Fill, storeVars, historyVars
<1>11. ASSUME NEW t \in Threads, Commit(t) PROVE TypeOK'
  <2>1. Target(request[t]) \in Tables
    BY <1>11, Targets DEF Commit, Control
  <2>2. committed' \in [Tables -> Nat] /\ wrote' \in [Threads -> Nat]
    BY <1>11, <2>1 DEF Commit
  <2>3. EmptyDraft \in Snapshot
    BY DEF EmptyDraft, NoVersions, Snapshot
  <2>4. draft' \in [Threads -> Snapshot]
    BY <1>11, <2>3, NewDraft DEF Commit
  <2> QED BY <1>11, <2>2, <2>4 DEF Commit, Goto, Steps, serviceVars, historyVars
<1>12. ASSUME NEW t \in Threads, Refuse(t) PROVE TypeOK'
  BY <1>12 DEF Refuse, Respond, Goto, Steps, Errors, storeVars, serviceVars, historyVars
<1>13. ASSUME NEW t \in Threads, Invalidate(t) PROVE TypeOK'
  <2>1. invalidated' \in [Tables -> Nat]
    BY <1>13 DEF Invalidate, Larger
  <2> QED BY <1>13, <2>1 DEF Invalidate, Respond, Goto, Steps, storeVars
<1>14. ASSUME NEW t \in Threads, Answer(t) PROVE TypeOK'
  <2>1. EmptyDraft \in Snapshot /\ NothingSeen \in Histories
    BY DEF EmptyDraft, NothingSeen, NoVersions, Snapshot, Histories
  <2>2. draft' \in [Threads -> Snapshot]
    BY <1>14, <2>1, NewDraft DEF Answer
  <2>3. seen' \in Histories
    <3>1. \A m, n \in Nat : Larger(m, n) \in Nat
      BY DEF Larger
    <3>2. \A f, g \in [Tables -> Nat] : LargerOfEach(f, g) \in [Tables -> Nat]
      BY <3>1 DEF LargerOfEach
    <3>3. Told(t) \in Histories
      BY ToldType
    <3> QED BY <1>14, <3>1, <3>2, <3>3 DEF Answer, Histories
  <2> QED BY <1>14, <2>1, <2>2, <2>3 DEF Answer, Goto, Steps, Requests, storeVars, serviceVars
<1>19. ASSUME NEW t \in Threads, ReadRows(t) PROVE TypeOK'
  BY <1>19, RowsRead DEF ReadRows, Respond, Goto, Steps, storeVars, serviceVars, historyVars
<1>15. CASE Tick \/ EditSheet \/ SheetComesBack
  <2>1. now' \in Nat /\ sheet' \in Nat /\ up' \in BOOLEAN
    <3>1. Tick => UNCHANGED <<sheet, up>> /\ now' \in Nat
      BY DEF Tick
    <3>2. EditSheet => UNCHANGED <<now, up>> /\ sheet' \in Nat
      BY DEF EditSheet
    <3>3. SheetComesBack => UNCHANGED <<now, sheet>> /\ up' \in BOOLEAN
      BY DEF SheetComesBack
    <3> QED BY <1>15, <3>1, <3>2, <3>3
  <2> QED BY <1>15, <2>1 DEF Tick, EditSheet, SheetComesBack, serviceVars, threadVars, historyVars
<1>16. CASE SheetGoesDown \/ Restart
  <2>1. counts' \in [requests : Nat, outages : Nat, restarts : Nat]
    BY <1>16 DEF SheetGoesDown, Restart
  <2>2. CASE SheetGoesDown
    BY <2>1, <2>2 DEF SheetGoesDown, serviceVars, threadVars, historyVars
  <2>3. CASE Restart
    <3>1. EmptyDraft \in Snapshot /\ NothingSeen \in Histories
      BY DEF EmptyDraft, NothingSeen, NoVersions, Snapshot, Histories
    <3> QED BY <2>1, <2>3, <3>1 DEF Restart, Steps, Requests, storeVars
  <2> QED BY <1>16, <2>2, <2>3
<1>17. CASE UNCHANGED vars
  BY <1>17 DEF vars, storeVars, serviceVars, threadVars, historyVars
<1>18. ASSUME NEW t \in Threads, Serve(t) PROVE TypeOK'
  BY <1>18, <1>2, <1>3, <1>4, <1>5, <1>6, <1>7, <1>8, <1>9, <1>10, <1>11, <1>12, <1>13,
     <1>14, <1>19, ReadOrder DEF Serve
<1> QED BY <1>1, <1>15, <1>16, <1>17, <1>18 DEF Next

----------------------------------------------------------------------------
(* Safety *)

\* Every step keeps the lock discipline.
LEMMA ControlStep ==
    ASSUME CacheConstants, TypeOK, Control, [Next]_vars
    PROVE  Control'
<1> USE DEF TypeOK, Control, Reading, Goto
<1>1. ASSUME NEW t \in Threads, NEW r \in Kinds, Receive(t, r) PROVE Control'
  BY <1>1 DEF Receive, storeVars, serviceVars
<1>2. ASSUME NEW t \in Threads, CheckClass(t) PROVE Control'
  BY <1>2 DEF CheckClass, Respond, storeVars, serviceVars, historyVars
<1>3. ASSUME NEW t \in Threads, UseCached(t) PROVE Control'
  BY <1>3, Continued DEF UseCached, storeVars, serviceVars, historyVars
<1>4. ASSUME NEW t \in Threads, StartRead(t) PROVE Control'
  BY <1>4 DEF CacheConstants, StartRead, storeVars, historyVars
<1>5. ASSUME NEW t \in Threads, RefuseRefresh(t) PROVE Control'
  BY <1>5 DEF RefuseRefresh, Respond, storeVars, serviceVars, historyVars
<1>6. ASSUME NEW t \in Threads, StartRefresh(t) PROVE Control'
  BY <1>6 DEF CacheConstants, StartRefresh, storeVars, historyVars
<1>7. ASSUME NEW t \in Threads, ReadSheet(t) PROVE Control'
  BY <1>7 DEF ReadSheet, storeVars, serviceVars
<1>8. ASSUME NEW t \in Threads, SheetFails(t) PROVE Control'
  <2>1. \A u \in Threads \ {t} : pc[u] \notin Reading /\ pc'[u] = pc[u]
    BY <1>8, Continued DEF SheetFails, Respond
  <2>2. pc'[t] \notin Reading \cup {"idle", "invalidate"}
    BY <1>8, Continued DEF SheetFails, Respond
  <2>3. pc'[t] = "commit" => request[t] \in Writes
    BY <1>8, Continued DEF SheetFails, Respond
  <2> QED BY <1>8, <2>1, <2>2, <2>3 DEF SheetFails
<1>9. ASSUME NEW t \in Threads, NEW table \in Tables, NEW next \in {"updates", "settings", "fill"},
             ReadTable(t, table, next)
      PROVE Control'
  BY <1>9 DEF ReadTable, Tables, storeVars, serviceVars, historyVars
<1>10. ASSUME NEW t \in Threads, Fill(t) PROVE Control'
  <2>1. \A u \in Threads \ {t} : pc[u] \notin Reading /\ pc'[u] = pc[u]
    BY <1>10, Continued DEF Fill
  <2>2. pc'[t] \notin Reading \cup {"idle", "invalidate"}
    BY <1>10, Continued DEF Fill
  <2>3. pc'[t] = "commit" => request[t] \in Writes
    BY <1>10, Continued DEF Fill
  <2> QED BY <1>10, <2>1, <2>2, <2>3 DEF Fill
<1>11. ASSUME NEW t \in Threads, Commit(t) PROVE Control'
  BY <1>11 DEF Commit, serviceVars, historyVars
<1>12. ASSUME NEW t \in Threads, Refuse(t) PROVE Control'
  BY <1>12 DEF Refuse, Respond, storeVars, serviceVars, historyVars
<1>13. ASSUME NEW t \in Threads, Invalidate(t) PROVE Control'
  BY <1>13 DEF Invalidate, Respond, storeVars
<1>14. ASSUME NEW t \in Threads, Answer(t) PROVE Control'
  BY <1>14 DEF Answer, storeVars, serviceVars
<1>15. CASE Tick \/ EditSheet \/ SheetGoesDown \/ SheetComesBack \/ UNCHANGED vars
  BY <1>15 DEF Tick, EditSheet, SheetGoesDown, SheetComesBack, vars, serviceVars, threadVars
<1>16. CASE Restart
  BY <1>16 DEF Restart
<1>18. ASSUME NEW t \in Threads, ReadRows(t) PROVE Control'
  BY <1>18 DEF ReadRows, Respond, storeVars, serviceVars
<1>17. ASSUME NEW t \in Threads, Serve(t) PROVE Control'
  BY <1>17, <1>2, <1>3, <1>4, <1>5, <1>6, <1>7, <1>8, <1>9, <1>10, <1>11, <1>12, <1>13,
     <1>14, <1>18, ReadOrder DEF Serve
<1> QED BY <1>1, <1>15, <1>16, <1>17 DEF Next

\* Invalidation announces the thread's own version, at most, and nothing is
\* announced while a read is in progress.
LEMMA AnnounceStep ==
    ASSUME CacheConstants, TypeOK, Control, [Next]_vars, NEW table \in Tables
    PROVE  /\ invalidated[table] <= invalidated'[table]
           /\ committed[table] <= committed'[table]
           /\ lock # None => invalidated' = invalidated
           /\ cache' # None => invalidated' = invalidated
<1>1. CASE \E t \in Threads : Invalidate(t)
  <2>1. PICK t \in Threads : Invalidate(t)
    BY <1>1
  <2>2. wrote[t] \in Nat /\ invalidated[table] \in Nat /\ committed[table] \in Nat
    BY DEF TypeOK
  <2> QED BY <2>1, <2>2 DEF Invalidate, Larger, TypeOK, storeVars
<1>2. CASE \E t \in Threads : Commit(t)
  <2>1. PICK t \in Threads : Commit(t)
    BY <1>2
  <2>2. committed[table] \in Nat
    BY DEF TypeOK
  <2> QED BY <2>1, <2>2 DEF Commit, TypeOK, historyVars
<1>3. CASE ~\E t \in Threads : Invalidate(t) \/ Commit(t)
  <2>1. UNCHANGED <<invalidated, committed>>
    BY <1>3 DEF Next, Serve, Receive, CheckClass, UseCached, StartRead, RefuseRefresh,
          StartRefresh, ReadSheet, SheetFails, ReadTable, Fill, ReadRows, Refuse, Answer, Tick,
          EditSheet, SheetGoesDown, SheetComesBack, Restart, vars, storeVars, historyVars
  <2> QED BY <2>1 DEF TypeOK
<1> QED BY <1>1, <1>2, <1>3

\* A thread that serves a write has just received it, has just committed it, or
\* keeps the request and the version it had.
LEMMA OwnWrite ==
    ASSUME TypeOK, Control, [Next]_vars, NEW u \in Threads, request'[u] \in Writes
    PROVE  \/ wrote'[u] = 0
           \/ Commit(u)
           \/ request'[u] = request[u] /\ wrote'[u] = wrote[u]
<1>1. CASE \E t \in Threads, r \in Kinds : Receive(t, r)
  BY <1>1 DEF Receive, TypeOK, Control
<1>2. CASE \E t \in Threads : Commit(t)
  BY <1>2 DEF Commit, TypeOK
<1>3. CASE \E t \in Threads : StartRefresh(t)
  BY <1>3 DEF StartRefresh, TypeOK, Writes
<1>4. CASE (\E t \in Threads : Answer(t)) \/ Restart
  BY <1>4 DEF Answer, Restart, TypeOK, Writes
<1>5. CASE \/ \E t \in Threads : Serve(t) /\ ~Commit(t) /\ ~StartRefresh(t) /\ ~Answer(t)
           \/ Tick \/ EditSheet \/ SheetGoesDown \/ SheetComesBack \/ UNCHANGED vars
  <2>1. UNCHANGED <<request, wrote>>
    BY <1>5 DEF Serve, CheckClass, UseCached, StartRead, RefuseRefresh, ReadSheet,
          SheetFails, ReadTable, Fill, ReadRows, Refuse, Invalidate, Tick, EditSheet, SheetGoesDown,
          SheetComesBack, vars, threadVars
  <2> QED BY <2>1
<1> QED BY <1>1, <1>2, <1>3, <1>4, <1>5 DEF Next

\* Commits come before what is announced of them.
LEMMA CommittedStep ==
    ASSUME CacheConstants, TypeOK, TypeOK', Control, Committed, [Next]_vars
    PROVE  Committed'
<1>1. \A table \in Tables : invalidated'[table] <= committed'[table]
  <2> SUFFICES ASSUME NEW table \in Tables
               PROVE  invalidated'[table] <= committed'[table]
    OBVIOUS
  <2>1. /\ invalidated[table] \in Nat /\ committed[table] \in Nat
        /\ invalidated'[table] \in Nat /\ committed'[table] \in Nat
    BY DEF TypeOK
  <2>2. committed[table] <= committed'[table]
    BY AnnounceStep
  <2>3. CASE \E t \in Threads : Invalidate(t)
    <3>1. PICK t \in Threads : Invalidate(t)
      BY <2>3
    <3>2. wrote[t] \in Nat /\ wrote[t] <= committed[Target(request[t])]
      BY <3>1 DEF Invalidate, Control, Committed, TypeOK
    <3>3. invalidated'[table] \in {invalidated[table], Larger(invalidated[table], wrote[t])}
      BY <3>1 DEF Invalidate, TypeOK
    <3>4. invalidated'[table] # invalidated[table] => table = Target(request[t])
      BY <3>1 DEF Invalidate, TypeOK
    <3> QED BY <2>1, <2>2, <3>2, <3>3, <3>4 DEF Larger, Committed
  <2>4. CASE ~\E t \in Threads : Invalidate(t)
    <3>1. invalidated' = invalidated
      BY <2>4 DEF Next, Serve, Receive, CheckClass, UseCached, StartRead, RefuseRefresh,
            StartRefresh, ReadSheet, SheetFails, ReadTable, Fill, ReadRows, Commit, Refuse, Answer,
            Tick, EditSheet, SheetGoesDown, SheetComesBack, Restart, vars, historyVars
    <3> QED BY <2>1, <2>2, <3>1 DEF Committed
  <2> QED BY <2>3, <2>4
<1>2. \A u \in Threads : request'[u] \in Writes => wrote'[u] <= committed'[Target(request'[u])]
  <2> SUFFICES ASSUME NEW u \in Threads, request'[u] \in Writes
               PROVE  wrote'[u] <= committed'[Target(request'[u])]
    OBVIOUS
  <2>1. Target(request'[u]) \in Tables
    BY Targets
  <2>2. /\ wrote[u] \in Nat
        /\ committed[Target(request'[u])] \in Nat /\ committed'[Target(request'[u])] \in Nat
    BY <2>1 DEF TypeOK
  <2>3. CASE wrote'[u] = 0
    BY <2>2, <2>3
  <2>4. CASE Commit(u)
    BY <2>1, <2>2, <2>4 DEF Commit, TypeOK
  <2>5. CASE request'[u] = request[u] /\ wrote'[u] = wrote[u]
    <3>1. wrote[u] <= committed[Target(request'[u])]
      BY <2>5 DEF Committed
    <3>2. committed[Target(request'[u])] <= committed'[Target(request'[u])]
      BY <2>1, AnnounceStep
    <3> QED BY <2>2, <2>5, <3>1, <3>2
  <2> QED BY <2>3, <2>4, <2>5, OwnWrite
<1> QED BY <1>1, <1>2 DEF Committed

\* Past its invalidation a writer's commit stays announced.
LEMMA AnnouncedStep ==
    ASSUME CacheConstants, TypeOK, TypeOK', Control, Announced, [Next]_vars
    PROVE  Announced'
<1> SUFFICES ASSUME NEW u \in Threads, request'[u] \in Writes, wrote'[u] # 0,
                    pc'[u] # "invalidate"
             PROVE  wrote'[u] <= invalidated'[Target(request'[u])]
  BY DEF Announced
<1>1. ~Commit(u)
  BY DEF Commit, Goto, TypeOK
<1>2. request'[u] = request[u] /\ wrote'[u] = wrote[u]
  BY <1>1, OwnWrite
<1>3. Target(request[u]) \in Tables
  BY <1>2, Targets
<1>4. /\ invalidated[Target(request[u])] \in Nat /\ invalidated'[Target(request[u])] \in Nat
      /\ wrote[u] \in Nat
  BY <1>3 DEF TypeOK
<1>5. CASE pc[u] # "invalidate"
  <2>1. wrote[u] <= invalidated[Target(request[u])]
    BY <1>2, <1>5 DEF Announced
  <2>2. invalidated[Target(request[u])] <= invalidated'[Target(request[u])]
    BY <1>3, AnnounceStep
  <2> QED BY <1>2, <1>4, <2>1, <2>2
<1>6. CASE pc[u] = "invalidate"
  <2>1. Invalidate(u)
    BY <1>6, <1>2 DEF Next, Serve, Receive, CheckClass, UseCached, Continue, StartRead,
          RefuseRefresh, StartRefresh, ReadSheet, SheetFails, ReadTable, Fill, ReadRows, Commit, Refuse,
          Invalidate, Answer, Tick, EditSheet, SheetGoesDown, SheetComesBack, Restart, Goto,
          Respond, vars, threadVars, TypeOK, Writes
  <2>2. invalidated'[Target(request[u])] = Larger(invalidated[Target(request[u])], wrote[u])
    BY <1>3, <2>1 DEF Invalidate, TypeOK
  <2> QED BY <1>2, <1>4, <2>2 DEF Larger
<1> QED BY <1>5, <1>6

\* A thread about to read the second or a later table got there by reading the
\* one before, or has been there since the last step; either way it had the lock.
LEMMA ReaderMoves ==
    ASSUME CacheConstants, TypeOK, Control, [Next]_vars,
           NEW u \in Threads, pc'[u] \in {"updates", "settings", "fill"}
    PROVE  /\ lock = u
           /\ \/ pc'[u] = pc[u] /\ draft'[u] = draft[u]
              \/ pc'[u] = "updates" /\ ReadTable(u, "baselines", "updates")
              \/ pc'[u] = "settings" /\ ReadTable(u, "updates", "settings")
              \/ pc'[u] = "fill" /\ ReadTable(u, "settings", "fill")
<1> USE DEF TypeOK, Goto
<1>1. ASSUME NEW t \in Threads, Serve(t), t # u
      PROVE  pc'[u] = pc[u] /\ draft'[u] = draft[u]
  BY <1>1, Continued DEF Serve, CheckClass, UseCached, StartRead, RefuseRefresh, StartRefresh,
        ReadSheet, SheetFails, ReadTable, Fill, ReadRows, Commit, Refuse, Invalidate, Answer, Respond
<1>2. ASSUME Serve(u)
      PROVE  \/ pc'[u] = "updates" /\ ReadTable(u, "baselines", "updates")
             \/ pc'[u] = "settings" /\ ReadTable(u, "updates", "settings")
             \/ pc'[u] = "fill" /\ ReadTable(u, "settings", "fill")
  BY <1>2, Continued DEF Serve, CheckClass, UseCached, StartRead, RefuseRefresh, StartRefresh,
        ReadSheet, SheetFails, ReadTable, Fill, ReadRows, Commit, Refuse, Invalidate, Answer, Respond
<1>3. ASSUME NEW t \in Threads, NEW r \in Kinds, Receive(t, r)
      PROVE  pc'[u] = pc[u] /\ draft'[u] = draft[u]
  BY <1>3 DEF Receive
<1>4. ASSUME Tick \/ EditSheet \/ SheetGoesDown \/ SheetComesBack \/ Restart \/ UNCHANGED vars
      PROVE  pc'[u] = pc[u] /\ draft'[u] = draft[u]
  BY <1>4 DEF Tick, EditSheet, SheetGoesDown, SheetComesBack, Restart, threadVars, vars
<1>5. pc[u] \in Reading => lock = u
  BY DEF Control
<1> QED BY <1>1, <1>2, <1>3, <1>4, <1>5 DEF Next, Reading, ReadTable

\* A read in progress holds the lock, so that what it has read so far is still
\* at least what is announced.
LEMMA FreshDraftsStep ==
    ASSUME CacheConstants, TypeOK, TypeOK', Control, Committed, FreshDrafts, [Next]_vars
    PROVE  FreshDrafts'
<1> SUFFICES ASSUME NEW u \in Threads, NEW table \in AlreadyRead(pc'[u])
             PROVE  draft'[u].tables[table] >= invalidated'[table]
  BY DEF FreshDrafts
<1>1. pc'[u] \in {"updates", "settings", "fill"} /\ table \in Tables
  BY DEF AlreadyRead, Tables
<1>2. /\ lock = u
      /\ \/ pc'[u] = pc[u] /\ draft'[u] = draft[u]
         \/ pc'[u] = "updates" /\ ReadTable(u, "baselines", "updates")
         \/ pc'[u] = "settings" /\ ReadTable(u, "updates", "settings")
         \/ pc'[u] = "fill" /\ ReadTable(u, "settings", "fill")
  BY <1>1, ReaderMoves
<1>3. invalidated' = invalidated
  BY <1>1, <1>2, AnnounceStep DEF CacheConstants
<1>4. invalidated[table] \in Nat /\ committed[table] \in Nat /\ invalidated[table] <= committed[table]
  BY <1>1 DEF TypeOK, Committed
<1>5. CASE pc'[u] = pc[u] /\ draft'[u] = draft[u]
  BY <1>3, <1>5 DEF FreshDrafts
<1>6. ASSUME NEW read \in Tables, NEW next, ReadTable(u, read, next)
      PROVE  /\ draft'[u].tables[read] = committed[read]
             /\ table # read => draft'[u].tables[table] = draft[u].tables[table]
  BY <1>1, <1>6 DEF ReadTable, TypeOK, Snapshot
<1>7. CASE pc'[u] = "updates" /\ ReadTable(u, "baselines", "updates")
  <2>1. table = "baselines"
    BY <1>7 DEF AlreadyRead
  <2> QED BY <1>3, <1>4, <1>6, <1>7, <2>1 DEF Tables
<1>8. CASE pc'[u] = "settings" /\ ReadTable(u, "updates", "settings")
  <2>1. table = "updates" \/ table \in AlreadyRead(pc[u])
    BY <1>8 DEF AlreadyRead, ReadTable
  <2> QED BY <1>1, <1>3, <1>4, <1>6, <1>8, <2>1 DEF FreshDrafts, Tables
<1>9. CASE pc'[u] = "fill" /\ ReadTable(u, "settings", "fill")
  <2>1. table = "settings" \/ table \in AlreadyRead(pc[u])
    BY <1>9 DEF AlreadyRead, ReadTable, Tables
  <2> QED BY <1>1, <1>3, <1>4, <1>6, <1>9, <2>1 DEF FreshDrafts, Tables
<1> QED BY <1>2, <1>5, <1>7, <1>8, <1>9

\* A snapshot that is taken from the cache or put there has every announced
\* commit.
LEMMA SnapshotTaken ==
    ASSUME CacheConstants, TypeOK, Control, FreshDrafts, FreshAfterInvalidation,
           NEW t \in Threads, UseCached(t) \/ SheetFails(t) \/ Fill(t),
           NEW table \in Tables
    PROVE  /\ cache' # None => cache'.tables[table] >= invalidated[table]
           /\ Holding(t)' => draft'[t].tables[table] >= invalidated[table]
<1>1. CASE UseCached(t)
  BY <1>1 DEF UseCached, Young, serviceVars, TypeOK, FreshAfterInvalidation
<1>2. CASE SheetFails(t)
  <2>1. CASE cache = None
    BY <1>2, <2>1 DEF SheetFails, Respond, Goto, Holding, Answering, TypeOK
  <2>2. CASE cache # None
    <3>1. cache' = [cache EXCEPT !.stale = TRUE] /\ draft'[t] = cache'
      BY <1>2, <2>2 DEF SheetFails, TypeOK
    <3>2. cache'.tables = cache.tables
      BY <2>2, <3>1 DEF TypeOK, Snapshot
    <3> QED BY <2>2, <3>1, <3>2 DEF FreshAfterInvalidation
  <2> QED BY <2>1, <2>2
<1>3. CASE Fill(t)
  <2>1. cache' = [draft[t] EXCEPT !.at = now] /\ draft'[t] = cache'
    BY <1>3 DEF Fill, TypeOK
  <2>2. cache'.tables = draft[t].tables
    BY <2>1 DEF TypeOK, Snapshot
  <2>3. draft[t].tables[table] >= invalidated[table]
    BY <1>3 DEF Fill, FreshDrafts, AlreadyRead
  <2> QED BY <2>1, <2>2, <2>3
<1> QED BY <1>1, <1>2, <1>3

\* The cache is filled with fresh drafts and emptied by invalidation.
LEMMA FreshCacheStep ==
    ASSUME CacheConstants, TypeOK, Control, FreshDrafts, FreshAfterInvalidation, [Next]_vars
    PROVE  FreshAfterInvalidation'
<1> SUFFICES ASSUME cache' # None, NEW table \in Tables
             PROVE  cache'.tables[table] >= invalidated'[table]
  BY DEF FreshAfterInvalidation
<1>1. invalidated' = invalidated
  BY AnnounceStep
<1>2. CASE \E t \in Threads : UseCached(t) \/ SheetFails(t) \/ Fill(t)
  BY <1>1, <1>2, SnapshotTaken
<1>3. CASE ~\E t \in Threads : UseCached(t) \/ SheetFails(t) \/ Fill(t)
  <2>1. cache' = cache \/ cache' = None
    BY <1>3 DEF Next, Serve, Receive, CheckClass, StartRead, RefuseRefresh, StartRefresh,
          ReadSheet, ReadTable, ReadRows, Commit, Refuse, Invalidate, Answer, Tick, EditSheet,
          SheetGoesDown, SheetComesBack, Restart, vars, serviceVars
  <2> QED BY <1>1, <2>1 DEF FreshAfterInvalidation
<1> QED BY <1>2, <1>3

\* A thread that has the snapshot of its answer has just taken it, has just read
\* the rows beside it, or had it before and keeps it.
LEMMA AnswerReady ==
    ASSUME TypeOK, [Next]_vars, NEW u \in Threads, Holding(u)'
    PROVE  /\ floor'[u] = floor[u]
           /\ \/ UseCached(u) \/ SheetFails(u) \/ Fill(u)
              \/ ReadRows(u) /\ Holding(u)
              \/ Holding(u) /\ draft'[u] = draft[u]
<1> USE DEF TypeOK, Goto, Holding, Answering
<1>1. ASSUME NEW t \in Threads, Serve(t), t # u
      PROVE  /\ pc'[u] = pc[u] /\ answer'[u] = answer[u] /\ draft'[u] = draft[u]
             /\ floor'[u] = floor[u]
  BY <1>1, Continued DEF Serve, CheckClass, UseCached, StartRead, RefuseRefresh, StartRefresh,
        ReadSheet, SheetFails, ReadTable, Fill, ReadRows, Commit, Refuse, Invalidate, Answer,
        Respond, historyVars
<1>2. ASSUME Serve(u)
      PROVE  /\ floor'[u] = floor[u]
             /\ UseCached(u) \/ SheetFails(u) \/ Fill(u) \/ (ReadRows(u) /\ Holding(u))
  BY <1>2 DEF Serve, CheckClass, UseCached, StartRead, RefuseRefresh, StartRefresh, ReadSheet,
        SheetFails, ReadTable, Fill, ReadRows, Commit, Refuse, Invalidate, Answer, Respond,
        historyVars
<1>3. ASSUME NEW t \in Threads, NEW r \in Kinds, Receive(t, r)
      PROVE  /\ t # u
             /\ pc'[u] = pc[u] /\ answer'[u] = answer[u] /\ draft'[u] = draft[u]
             /\ floor'[u] = floor[u]
  BY <1>3 DEF Receive
<1>4. ASSUME Tick \/ EditSheet \/ SheetGoesDown \/ SheetComesBack \/ UNCHANGED vars
      PROVE  /\ pc'[u] = pc[u] /\ answer'[u] = answer[u] /\ draft'[u] = draft[u]
             /\ floor'[u] = floor[u]
  BY <1>4 DEF Tick, EditSheet, SheetGoesDown, SheetComesBack, threadVars, historyVars, vars
<1>5. ~Restart
  BY DEF Restart
<1> QED BY <1>1, <1>2, <1>3, <1>4, <1>5 DEF Next

\* An answer confirms only what its thread has committed and invalidated.
LEMMA ConfirmedStep ==
    ASSUME CacheConstants, TypeOK, TypeOK', Control, Announced, Confirmed, [Next]_vars
    PROVE  Confirmed'
<1> SUFFICES ASSUME NEW table \in Tables
             PROVE  /\ seen'.saved[table] <= invalidated'[table]
                    /\ \A u \in Threads : floor'[u].saved[table] <= invalidated'[table]
  BY DEF Confirmed
<1>1. /\ invalidated[table] \in Nat /\ invalidated'[table] \in Nat
      /\ seen.saved[table] \in Nat /\ seen.saved[table] <= invalidated[table]
      /\ invalidated[table] <= invalidated'[table]
  BY AnnounceStep DEF TypeOK, Histories, Confirmed
<1>2. NothingSeen.saved[table] = 0
  BY DEF NothingSeen, NoVersions
<1>3. ASSUME NEW u \in Threads, floor'[u] \in {floor[u], seen, NothingSeen}
      PROVE  floor'[u].saved[table] <= invalidated'[table]
  <2>1. floor[u].saved[table] \in Nat /\ floor[u].saved[table] <= invalidated[table]
    BY DEF TypeOK, Histories, Confirmed
  <2> QED BY <1>1, <1>2, <1>3, <2>1
<1>4. CASE \E t \in Threads : Answer(t)
  <2>1. PICK t \in Threads : Answer(t)
    BY <1>4
  <2>2. (\A u \in Threads : floor'[u] \in {floor[u], NothingSeen}) /\ pc[t] = "respond"
    BY <2>1 DEF Answer, TypeOK
  <2>3. seen'.saved[table] = Larger(seen.saved[table], Told(t).saved[table])
    BY <2>1 DEF Answer, LargerOfEach
  <2>4. Told(t).saved[table] = IF Confirms(t, table) THEN wrote[t] ELSE 0
    BY DEF Told
  <2>5. Confirms(t, table) => wrote[t] <= invalidated[table]
    BY <1>1, <2>2 DEF Confirms, Announced, TypeOK
  <2>6. wrote[t] \in Nat
    BY DEF TypeOK
  <2> QED BY <1>1, <1>3, <2>2, <2>3, <2>4, <2>5, <2>6 DEF Larger
<1>5. CASE ~\E t \in Threads : Answer(t)
  <2>1. seen' = seen /\ \A u \in Threads : floor'[u] \in {floor[u], seen, NothingSeen}
    BY <1>5 DEF Next, Serve, Receive, CheckClass, UseCached, StartRead, RefuseRefresh,
          StartRefresh, ReadSheet, SheetFails, ReadTable, Fill, ReadRows, Commit, Refuse,
          Invalidate, Tick, EditSheet, SheetGoesDown, SheetComesBack, Restart, vars,
          historyVars, TypeOK
  <2> QED BY <1>1, <1>3, <2>1
<1> QED BY <1>4, <1>5

\* Whatever a thread takes or reads for its answer has all that is invalidated,
\* and so all that was confirmed when the request arrived.
LEMMA HeldSnapshotsStep ==
    ASSUME CacheConstants, TypeOK, TypeOK', Control, Committed, FreshDrafts, Confirmed,
           FreshAfterInvalidation, HeldSnapshots, [Next]_vars
    PROVE  HeldSnapshots'
<1> SUFFICES ASSUME NEW u \in Threads, Holding(u)', NEW table \in Tables
             PROVE  draft'[u].tables[table] >= floor'[u].saved[table]
  BY DEF HeldSnapshots
<1>1. /\ invalidated[table] \in Nat /\ committed[table] \in Nat
      /\ floor[u].saved[table] \in Nat /\ draft'[u].tables[table] \in Nat
  BY DEF TypeOK, Histories, Snapshot
<1>2. floor'[u] = floor[u]
  BY AnswerReady
<1>3. floor[u].saved[table] <= invalidated[table] /\ invalidated[table] <= committed[table]
  BY DEF Confirmed, Committed
<1>4. CASE Holding(u) /\ draft'[u] = draft[u]
  BY <1>2, <1>4 DEF HeldSnapshots
<1>5. CASE UseCached(u) \/ SheetFails(u) \/ Fill(u)
  BY <1>1, <1>2, <1>3, <1>5, SnapshotTaken
<1>6. CASE ReadRows(u) /\ Holding(u)
  BY <1>1, <1>2, <1>3, <1>6, RowsRead DEF HeldSnapshots
<1> QED BY <1>4, <1>5, <1>6, AnswerReady

----------------------------------------------------------------------------
(* The inductive invariant and what follows from it *)

\* IInv is inductive.
LEMMA Inductive == Spec => []IInv
<1>1. Init => IInv
  <2> SUFFICES ASSUME Init PROVE IInv
    OBVIOUS
  <2>1. NoVersions \in [Tables -> Nat] /\ EmptyDraft \in Snapshot /\ NothingSeen \in Histories
    BY DEF NoVersions, EmptyDraft, NothingSeen, Snapshot, Histories
  <2>2. TypeOK
    BY <2>1 DEF Init, TypeOK, Steps, Requests, Errors
  <2>3. Control /\ FreshDrafts /\ FreshAfterInvalidation /\ HeldSnapshots /\ Announced
    BY DEF Init, Control, Reading, FreshDrafts, AlreadyRead, FreshAfterInvalidation,
       HeldSnapshots, Holding, Answering, Announced
  <2>5. Confirmed
    BY DEF Init, Confirmed, NothingSeen, NoVersions
  <2>4. Committed
    BY Targets DEF Init, Committed, NoVersions, Tables
  <2> QED BY <2>2, <2>3, <2>4, <2>5 DEF IInv
<1>2. IInv /\ [Next]_vars => IInv'
  BY CacheConstants, TypeStep, ControlStep, CommittedStep, FreshDraftsStep, AnnouncedStep,
     FreshCacheStep, ConfirmedStep, HeldSnapshotsStep DEF IInv
<1> QED BY <1>1, <1>2, PTL DEF Spec

\* The variables of the snapshot cache keep their types, whatever the threads,
\* the sheet and restarts do.
THEOREM TypeCorrect == Spec => []TypeOK
<1>1. IInv => TypeOK
  BY DEF IInv
<1> QED BY <1>1, Inductive, PTL

\* invalidate: a snapshot read before a commit never outlives the invalidation
\* after it, although commits do not take the service lock.
THEOREM FreshAlways == Spec => []FreshAfterInvalidation
<1>1. IInv => FreshAfterInvalidation
  BY DEF IInv
<1> QED BY <1>1, Inductive, PTL

\* From a writer's answer on, no request that arrives is answered without the
\* write, although rankings are cached and commitments are read past the cache.
THEOREM ConfirmedWritesShowAlways == Spec => []ConfirmedWritesShow
<1>1. IInv => ConfirmedWritesShow
  BY DEF IInv, HeldSnapshots, Holding, ConfirmedWritesShow
<1> QED BY <1>1, Inductive, PTL
==========================================================================
