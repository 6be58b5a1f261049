------------------------ MODULE SnapshotAnswerProofs ------------------------
(***************************************************************************)
(* Proofs about what the answers of SnapshotCache tell, for any set of     *)
(* threads, any ttl and any number of requests: what is computed from      *)
(* snapshots never goes back, nor do rows read past the cache, and the     *)
(* stale mark is true.                                                     *)
(***************************************************************************)
EXTENDS SnapshotCacheProofs

\* Names for one expression each.
USE DEF LockFree, Release, Stamped, MarkedStale, DropCache

\* What a snapshot has a version of: the store's tables and the sheet.
Parts == Tables \cup {"sheet"}

Version(snapshot, part) ==
    IF part = "sheet" THEN snapshot.sheet ELSE snapshot.tables[part]

InStore(part) == IF part = "sheet" THEN sheet ELSE committed[part]

\* The steps of a read that has the sheet, and the parts it has by then.
PastSheet == {"baselines", "updates", "settings", "fill"}

ReadSoFar(step) ==
    IF step \in PastSheet THEN {"sheet"} \cup AlreadyRead(step) ELSE {}

\* The answer of thread t is going to show this part of the snapshot it took.
Held(t, part) ==
    \/ pc[t] = "rows"
    \/ pc[t] = "respond" /\ FromSnapshot(t, part)

\* Nothing that has been shown, or is about to be, is newer in this part.
NewEnough(snapshot, part) ==
    /\ Version(snapshot, part) >= Version(seen, part)
    /\ \A u \in Threads :
        Held(u, part) => Version(snapshot, part) >= Version(draft[u], part)

\* No version is in a snapshot that is not in the store or on the sheet.
NothingInvented ==
    \A part \in Parts :
        /\ Version(seen, part) <= InStore(part)
        /\ cache # None => Version(cache, part) <= InStore(part)
        /\ \A t \in Threads : Version(draft[t], part) <= InStore(part)

NewestCached == cache # None => \A part \in Parts : NewEnough(cache, part)

NewestRead == \A t \in Threads : \A part \in ReadSoFar(pc[t]) : NewEnough(draft[t], part)

FloorSeen == \A t \in Threads, part \in Parts : Version(floor[t], part) <= Version(seen, part)

\* AnswersNeverGoBack for what comes from a snapshot, part by part.
AnswersAdvance ==
    \A t \in Threads, part \in Parts :
        Held(t, part) => Version(draft[t], part) >= Version(floor[t], part)

Order ==
    /\ NothingInvented
    /\ NewestCached
    /\ NewestRead
    /\ FloorSeen
    /\ AnswersAdvance

\* AnswersNeverGoBack for rows read from the store: no row that an answer has
\* shown is newer than the store, and what is read there has every earlier one.
RowsOrder ==
    /\ \A table \in Tables : seen.rows[table] <= committed[table]
    /\ \A t \in Threads, table \in Tables :
        /\ floor[t].rows[table] <= committed[table]
        /\ pc[t] = "respond" /\ FromStore(t, table) =>
             /\ draft[t].tables[table] >= floor[t].tables[table]
             /\ draft[t].tables[table] >= floor[t].rows[table]

\* While nobody reads, or the reader has yet to try the sheet, the mark on the
\* cached snapshot tells the last try; a reader past the sheet has succeeded.
StaleInv ==
    /\ cache # None /\ (lock = None \/ \E t \in Threads : lock = t /\ pc[t] = "sheet")
         => (cache.stale <=> lastReadFailed)
    /\ \A t \in Threads : pc[t] \in PastSheet => ~lastReadFailed /\ ~draft[t].stale

----------------------------------------------------------------------------
(* Answers never go back *)

LEMMA VersionTypes ==
    ASSUME TypeOK, NEW part \in Parts
    PROVE  /\ Version(seen, part) \in Nat
           /\ InStore(part) \in Nat
           /\ cache # None => Version(cache, part) \in Nat
           /\ \A t \in Threads : Version(draft[t], part) \in Nat /\ Version(floor[t], part) \in Nat
<1>1. seen \in Histories /\ (cache # None => cache \in Snapshot)
  BY DEF TypeOK
<1>2. \A t \in Threads : draft[t] \in Snapshot /\ floor[t] \in Histories
  BY DEF TypeOK
<1>3. committed \in [Tables -> Nat] /\ sheet \in Nat
  BY DEF TypeOK
<1> QED BY <1>1, <1>2, <1>3 DEF Parts, Version, InStore, Snapshot, Histories

LEMMA NextTypes ==
    ASSUME TypeOK', NEW part \in Parts
    PROVE  /\ InStore(part)' \in Nat
           /\ cache' # None => Version(cache', part) \in Nat
<1>1. cache' # None => cache' \in Snapshot
  BY DEF TypeOK
<1>2. committed' \in [Tables -> Nat] /\ sheet' \in Nat
  BY DEF TypeOK
<1> QED BY <1>1, <1>2 DEF Parts, Version, InStore, Snapshot

LEMMA PartsRead ==
    ASSUME NEW step
    PROVE  ReadSoFar(step) \in SUBSET Parts
BY DEF ReadSoFar, AlreadyRead, Parts, Tables

\* A step that takes no snapshot and reads nothing for one.
LEMMA QuietStep ==
    ASSUME TypeOK, TypeOK', Order, seen' = seen,
           cache' = cache \/ cache' = None,
           \A part \in Parts : InStore(part) <= InStore(part)',
           \A u \in Threads, part \in Parts : Version(draft'[u], part) <= InStore(part)',
           \A u \in Threads, part \in Parts : Held(u, part)' =>
               /\ Held(u, part) /\ floor'[u] = floor[u]
               /\ Version(draft'[u], part) = Version(draft[u], part),
           \A u \in Threads : floor'[u] = floor[u] \/ floor'[u] = seen,
           \A u \in Threads : pc'[u] \in PastSheet => pc'[u] = pc[u] /\ draft'[u] = draft[u]
    PROVE  Order'
<1>1. NothingInvented'
  <2> SUFFICES ASSUME NEW part \in Parts
               PROVE  /\ Version(seen', part) <= InStore(part)'
                      /\ cache' # None => Version(cache', part) <= InStore(part)'
    BY DEF NothingInvented
  <2>1. InStore(part)' \in Nat
    BY NextTypes
  <2> QED BY <2>1, VersionTypes DEF Order, NothingInvented
<1>2. \A snapshot : \A part \in Parts : NewEnough(snapshot, part) => NewEnough(snapshot, part)'
  BY DEF NewEnough
<1>3. NewestCached'
  BY <1>2 DEF Order, NewestCached, NewEnough
<1>4. NewestRead'
  <2> SUFFICES ASSUME NEW t \in Threads, NEW part \in ReadSoFar(pc'[t])
               PROVE  NewEnough(draft[t], part)'
    BY DEF NewestRead
  <2>1. part \in ReadSoFar(pc[t]) /\ draft'[t] = draft[t] /\ part \in Parts
    BY PartsRead DEF ReadSoFar
  <2> QED BY <1>2, <2>1 DEF Order, NewestRead, NewEnough
<1>5. FloorSeen'
  <2> SUFFICES ASSUME NEW t \in Threads, NEW part \in Parts
               PROVE  Version(floor'[t], part) <= Version(seen', part)
    BY DEF FloorSeen
  <2> QED BY VersionTypes DEF Order, FloorSeen
<1>6. AnswersAdvance'
  BY DEF Order, AnswersAdvance
<1> QED BY <1>1, <1>3, <1>4, <1>5, <1>6 DEF Order

\* A step of thread t that puts a snapshot in the cache, or finds it there, and
\* goes on with it.
LEMMA TakeStep ==
    ASSUME TypeOK, TypeOK', Order, NEW t \in Threads,
           cache' # None, draft'[t] = cache', UNCHANGED <<seen, floor, committed, sheet>>,
           \A u \in Threads \ {t} :
               /\ draft'[u] = draft[u] /\ pc'[u] = pc[u] /\ answer'[u] = answer[u]
               /\ pc[u] \notin Reading,
           pc'[t] \notin Reading,
           \A part \in Parts : NewEnough(cache', part) /\ Version(cache', part) <= InStore(part)
    PROVE  Order'
<1>1. \A part : InStore(part)' = InStore(part)
  BY DEF InStore
<1>2. NothingInvented'
  <2> SUFFICES ASSUME NEW part \in Parts, NEW u \in Threads
               PROVE  /\ Version(seen', part) <= InStore(part)'
                      /\ Version(cache', part) <= InStore(part)'
                      /\ Version(draft'[u], part) <= InStore(part)'
    BY DEF NothingInvented
  <2> QED BY <1>1 DEF Order, NothingInvented
<1>3. NewestCached'
  <2> SUFFICES ASSUME NEW part \in Parts
               PROVE  NewEnough(cache, part)'
    BY DEF NewestCached, NewEnough
  <2>1. Version(cache', part) \in Nat
    BY NextTypes
  <2>2. Version(cache', part) >= Version(seen', part)
    BY DEF NewEnough
  <2>3. ASSUME NEW u \in Threads, Held(u, part)'
        PROVE  Version(cache', part) >= Version(draft'[u], part)
    <3>1. CASE u = t
      BY <2>1, <3>1
    <3>2. CASE u # t
      BY <2>3, <3>2 DEF Held, FromSnapshot, NewEnough
    <3> QED BY <3>1, <3>2
  <2> QED BY <2>2, <2>3 DEF NewEnough
<1>4. NewestRead'
  BY DEF NewestRead, ReadSoFar, PastSheet, Reading
<1>5. FloorSeen'
  BY DEF Order, FloorSeen
<1>6. AnswersAdvance'
  <2> SUFFICES ASSUME NEW u \in Threads, NEW part \in Parts, Held(u, part)'
               PROVE  Version(draft'[u], part) >= Version(floor'[u], part)
    BY DEF AnswersAdvance
  <2>1. CASE u = t
    <3>1. Version(cache', part) \in Nat
      BY NextTypes
    <3>2. Version(cache', part) >= Version(seen, part)
      BY DEF NewEnough
    <3>3. Version(floor[u], part) <= Version(seen, part)
      BY DEF Order, FloorSeen
    <3> QED BY <2>1, <3>1, <3>2, <3>3, VersionTypes
  <2>2. CASE u # t
    BY <2>2 DEF Held, FromSnapshot, Order, AnswersAdvance
  <2> QED BY <2>1, <2>2
<1> QED BY <1>2, <1>3, <1>4, <1>5, <1>6 DEF Order

\* A step of a reading thread t that reads something.
LEMMA ReadStep ==
    ASSUME TypeOK, TypeOK', Order, NEW t \in Threads,
           UNCHANGED <<cache, seen, floor, committed, sheet, answer>>,
           \A u \in Threads \ {t} : draft'[u] = draft[u] /\ pc'[u] = pc[u],
           pc[t] \in Reading, pc'[t] \in Reading,
           \A part \in Parts : Version(draft'[t], part) <= InStore(part),
           \A part \in ReadSoFar(pc'[t]) :
               \/ Version(draft'[t], part) = InStore(part)
               \/ part \in ReadSoFar(pc[t]) /\ Version(draft'[t], part) = Version(draft[t], part)
    PROVE  Order'
<1>1. \A part : InStore(part)' = InStore(part)
  BY DEF InStore
<1>2. \A u \in Threads : \A part : Held(u, part)' => Held(u, part) /\ u # t /\ draft'[u] = draft[u]
  BY DEF Held, FromSnapshot, Reading
<1>3. \A snapshot, part : NewEnough(snapshot, part) => NewEnough(snapshot, part)'
  BY <1>2 DEF NewEnough
<1>4. NothingInvented'
  <2> SUFFICES ASSUME NEW part \in Parts, NEW u \in Threads
               PROVE  /\ Version(seen', part) <= InStore(part)'
                      /\ cache' # None => Version(cache', part) <= InStore(part)'
                      /\ Version(draft'[u], part) <= InStore(part)'
    BY DEF NothingInvented
  <2> QED BY <1>1 DEF Order, NothingInvented
<1>5. NewestCached'
  BY <1>3 DEF Order, NewestCached, NewEnough
<1>6. NewestRead'
  <2> SUFFICES ASSUME NEW u \in Threads, NEW part \in ReadSoFar(pc'[u])
               PROVE  NewEnough(draft[u], part)'
    BY DEF NewestRead
  <2>1. CASE u # t
    BY <1>3, <2>1 DEF Order, NewestRead, NewEnough
  <2>2. CASE u = t /\ Version(draft'[t], part) = InStore(part)
    <3>1. part \in Parts
      BY PartsRead
    <3>2. InStore(part) >= Version(seen, part)
      BY <3>1, VersionTypes DEF Order, NothingInvented
    <3>3. \A v \in Threads : InStore(part) >= Version(draft[v], part)
      BY <3>1, VersionTypes DEF Order, NothingInvented
    <3> QED BY <1>2, <2>2, <3>2, <3>3 DEF NewEnough
  <2>3. CASE /\ u = t /\ part \in ReadSoFar(pc[t])
             /\ Version(draft'[t], part) = Version(draft[t], part)
    <3>1. NewEnough(draft[t], part)
      BY <2>3 DEF Order, NewestRead
    <3> QED BY <1>2, <2>3, <3>1 DEF NewEnough
  <2> QED BY <2>1, <2>2, <2>3
<1>7. FloorSeen'
  BY DEF Order, FloorSeen
<1>8. AnswersAdvance'
  BY <1>2 DEF Order, AnswersAdvance
<1> QED BY <1>4, <1>5, <1>6, <1>7, <1>8 DEF Order

\* Steps that take no snapshot and read nothing for one.
LEMMA QuietActions ==
    ASSUME CacheConstants, TypeOK, TypeOK', Order, NEW t,
           \/ \E r \in Kinds : Receive(t, r)
           \/ CheckClass(t) \/ StartRead(t) \/ RefuseRefresh(t) \/ StartRefresh(t)
           \/ Refuse(t) \/ Invalidate(t)
           \/ SheetFails(t) /\ cache = None
           \/ Tick \/ EditSheet \/ SheetGoesDown \/ SheetComesBack
           \/ UNCHANGED vars
    PROVE  Order'
<1> USE DEF storeVars, serviceVars, threadVars, historyVars, vars, Goto, Respond
<1>1. draft' = draft /\ seen' = seen /\ (cache' = cache \/ cache' = None)
  BY DEF Receive, CheckClass, StartRead, RefuseRefresh, StartRefresh, Refuse, Invalidate,
     SheetFails, Tick, EditSheet, SheetGoesDown, SheetComesBack
<1>2. \A part \in Parts : InStore(part) <= InStore(part)'
  <2> SUFFICES ASSUME NEW part \in Parts PROVE InStore(part) <= InStore(part)'
    OBVIOUS
  <2>1. InStore(part) \in Nat /\ committed \in [Tables -> Nat]
    BY VersionTypes DEF TypeOK
  <2>2. CASE EditSheet
    BY <2>1, <2>2 DEF EditSheet, InStore
  <2>3. CASE ~EditSheet
    <3>1. committed' = committed /\ sheet' = sheet
      BY <2>3 DEF Receive, CheckClass, StartRead, RefuseRefresh, StartRefresh, Refuse, Invalidate,
         SheetFails, Tick, SheetGoesDown, SheetComesBack
    <3> QED BY <2>1, <3>1 DEF InStore
  <2> QED BY <2>2, <2>3
<1>3. \A u \in Threads : floor'[u] = floor[u] \/ floor'[u] = seen
  BY DEF Receive, CheckClass, StartRead, RefuseRefresh, StartRefresh, Refuse, Invalidate,
     SheetFails, Tick, EditSheet, SheetGoesDown, SheetComesBack, TypeOK
<1>4. ASSUME NEW u \in Threads
      PROVE  /\ pc'[u] \in PastSheet => pc'[u] = pc[u]
             /\ \A part : Held(u, part)' => Held(u, part) /\ floor'[u] = floor[u]
  <2>1. \/ /\ pc'[u] = pc[u] /\ answer'[u] = answer[u]
           /\ floor'[u] = floor[u] \/ pc'[u] \notin {"respond", "rows"}
        \/ /\ pc'[u] \notin PastSheet \cup {"rows"}
           /\ pc'[u] # "respond" \/ answer'[u] \notin {"snapshot", "rows"}
    BY DEF Receive, CheckClass, StartRead, RefuseRefresh, StartRefresh, Refuse, Invalidate,
       SheetFails, Tick, EditSheet, SheetGoesDown, SheetComesBack, TypeOK, PastSheet
  <2> QED BY <2>1 DEF Held, FromSnapshot
<1>5. \A u \in Threads, part \in Parts : Version(draft'[u], part) <= InStore(part)'
  <2> SUFFICES ASSUME NEW u \in Threads, NEW part \in Parts
               PROVE  Version(draft'[u], part) <= InStore(part)'
    OBVIOUS
  <2>1. InStore(part)' \in Nat
    BY NextTypes
  <2> QED BY <1>1, <1>2, <2>1, VersionTypes DEF Order, NothingInvented
<1> QED BY <1>1, <1>2, <1>3, <1>4, <1>5, QuietStep

\* A commit makes one table newer; the thread lets go of its snapshot.
LEMMA CommitAction ==
    ASSUME CacheConstants, TypeOK, TypeOK', Order, NEW t \in Threads, Commit(t)
    PROVE  Order'
<1> USE DEF serviceVars, historyVars, Goto
<1>1. /\ UNCHANGED <<seen, floor, cache, sheet, answer>>
      /\ pc'[t] = "invalidate" /\ draft'[t] = EmptyDraft
      /\ \A u \in Threads \ {t} : pc'[u] = pc[u] /\ draft'[u] = draft[u]
      /\ \E table : committed' = [committed EXCEPT ![table] = @ + 1]
  BY DEF Commit, TypeOK
<1>2. \A part \in Parts : InStore(part) <= InStore(part)'
  <2>1. committed \in [Tables -> Nat] /\ sheet \in Nat
    BY DEF TypeOK
  <2> QED BY <1>1, <2>1 DEF InStore, Parts
<1>3. ASSUME NEW u \in Threads, NEW part \in Parts
      PROVE  Version(draft'[u], part) <= InStore(part)'
  <2>1. Version(draft[u], part) <= InStore(part)
    BY DEF Order, NothingInvented
  <2>2. /\ Version(draft[u], part) \in Nat /\ InStore(part) \in Nat /\ InStore(part)' \in Nat
        /\ InStore(part) <= InStore(part)'
    BY <1>2, VersionTypes, NextTypes
  <2>3. Version(EmptyDraft, part) = 0
    BY DEF Version, EmptyDraft, NoVersions, Parts
  <2> QED BY <1>1, <2>1, <2>2, <2>3
<1>4. \A u \in Threads : pc'[u] \in PastSheet => u # t
  BY <1>1 DEF PastSheet
<1>5. \A u \in Threads : \A part : Held(u, part)' => u # t /\ Held(u, part)
  BY <1>1 DEF Held, FromSnapshot
<1> QED BY <1>1, <1>2, <1>3, <1>4, <1>5, QuietStep

\* The rows of an answer take the place of those of its snapshot, which the answer
\* does not show.
LEMMA RowsAction ==
    ASSUME CacheConstants, TypeOK, TypeOK', Order, NEW t \in Threads, ReadRows(t)
    PROVE  Order'
<1> USE DEF storeVars, serviceVars, historyVars, Goto, Respond
<1>1. UNCHANGED <<seen, floor, cache, committed, sheet>> /\ pc[t] = "rows" /\ pc'[t] = "respond"
      /\ answer'[t] = "rows"
      /\ \A u \in Threads \ {t} : pc'[u] = pc[u] /\ answer'[u] = answer[u] /\ draft'[u] = draft[u]
  BY RowsRead DEF ReadRows, TypeOK
<1>2. \A part : InStore(part)' = InStore(part)
  BY <1>1 DEF InStore
<1>3. \A part \in Parts :
          Version(draft'[t], part) = IF part \in CommitmentTables THEN InStore(part)
                                     ELSE Version(draft[t], part)
  <2>1. "sheet" \notin Tables /\ CommitmentTables \subseteq Tables
    BY DEF CommitmentTables, Tables
  <2> QED BY <2>1, RowsRead DEF Version, InStore, Parts
<1>4. \A u \in Threads, part \in Parts : Version(draft'[u], part) <= InStore(part)'
  <2> SUFFICES ASSUME NEW u \in Threads, NEW part \in Parts
               PROVE  Version(draft'[u], part) <= InStore(part)
    BY <1>2
  <2>1. Version(draft[u], part) <= InStore(part) /\ InStore(part) \in Nat
    BY VersionTypes DEF Order, NothingInvented
  <2> QED BY <1>1, <1>3, <2>1
<1>5. ASSUME NEW u \in Threads, NEW part \in Parts, Held(u, part)'
      PROVE  Held(u, part) /\ Version(draft'[u], part) = Version(draft[u], part)
  <2>1. CASE u = t
    <3>1. part \notin CommitmentTables
      BY <1>1, <1>5, <2>1 DEF Held, FromSnapshot
    <3> QED BY <1>1, <1>3, <2>1, <3>1 DEF Held
  <2>2. CASE u # t
    BY <1>1, <1>5, <2>2 DEF Held, FromSnapshot
  <2> QED BY <2>1, <2>2
<1>6. \A u \in Threads : pc'[u] \in PastSheet => pc'[u] = pc[u] /\ draft'[u] = draft[u]
  BY <1>1 DEF PastSheet
<1>7. \A part \in Parts : InStore(part) <= InStore(part)'
  BY <1>2, VersionTypes
<1> QED BY <1>1, <1>4, <1>5, <1>6, <1>7, QuietStep

\* Steps that put a snapshot in the cache or find it there.
LEMMA TakingActions ==
    ASSUME CacheConstants, TypeOK, TypeOK', Control, Order, NEW t \in Threads,
           UseCached(t) \/ (SheetFails(t) /\ cache # None) \/ Fill(t)
    PROVE  Order'
<1> USE DEF storeVars, serviceVars, historyVars
<1>1. UNCHANGED <<seen, floor, committed, sheet>> /\ Continue(t)
  BY DEF UseCached, SheetFails, Fill
<1>2. pc'[t] \notin Reading
  BY <1>1, Continued DEF Reading
<1>3. ASSUME NEW u \in Threads \ {t}
      PROVE  pc'[u] = pc[u] /\ answer'[u] = answer[u] /\ pc[u] \notin Reading
  <2>1. lock = None \/ lock = t
    BY DEF UseCached, SheetFails, Fill, Control, Reading
  <2> QED BY <1>1, <2>1, Continued DEF Control, CacheConstants
<1>4. /\ cache' # None /\ draft'[t] = cache'
      /\ \A u \in Threads \ {t} : draft'[u] = draft[u]
      /\ \A part \in Parts : NewEnough(cache', part) /\ Version(cache', part) <= InStore(part)
  <2>1. CASE UseCached(t)
    <3>1. cache' = cache /\ cache # None /\ draft' = [draft EXCEPT ![t] = cache]
      BY <2>1 DEF UseCached, Young
    <3> QED BY <3>1 DEF Order, NothingInvented, NewestCached, TypeOK
  <2>2. CASE SheetFails(t) /\ cache # None
    <3>1. cache' = [cache EXCEPT !.stale = TRUE] /\ draft' = [draft EXCEPT ![t] = cache']
      BY <2>2 DEF SheetFails
    <3>2. cache' \in Snapshot /\ cache'.tables = cache.tables /\ cache'.sheet = cache.sheet
      BY <2>2, <3>1 DEF TypeOK, Snapshot
    <3>3. \A part : Version(cache', part) = Version(cache, part)
      BY <3>2 DEF Version
    <3>4. \A part \in Parts : NewEnough(cache', part) /\ Version(cache', part) <= InStore(part)
      BY <2>2, <3>3 DEF Order, NothingInvented, NewestCached, NewEnough
    <3> QED BY <3>1, <3>2, <3>4 DEF TypeOK, CacheConstants
  <2>3. CASE Fill(t)
    <3>1. cache' = [draft[t] EXCEPT !.at = now] /\ draft' = [draft EXCEPT ![t] = cache']
      BY <2>3 DEF Fill
    <3>2. cache' \in Snapshot /\ cache'.tables = draft[t].tables /\ cache'.sheet = draft[t].sheet
      BY <3>1 DEF TypeOK, Snapshot
    <3>3. \A part : Version(cache', part) = Version(draft[t], part)
      BY <3>2 DEF Version
    <3>4. ReadSoFar(pc[t]) = Parts
      BY <2>3 DEF Fill, ReadSoFar, PastSheet, AlreadyRead, Parts
    <3>5. \A part \in Parts : NewEnough(cache', part) /\ Version(cache', part) <= InStore(part)
      BY <3>3, <3>4 DEF Order, NothingInvented, NewestRead, NewEnough
    <3> QED BY <3>1, <3>2, <3>5 DEF TypeOK, CacheConstants
  <2> QED BY <2>1, <2>2, <2>3
<1> QED BY <1>1, <1>2, <1>3, <1>4, TakeStep

\* Steps that read.
LEMMA ReadingActions ==
    ASSUME CacheConstants, TypeOK, TypeOK', Order, NEW t \in Threads,
           \/ ReadSheet(t)
           \/ ReadTable(t, "baselines", "updates")
           \/ ReadTable(t, "updates", "settings")
           \/ ReadTable(t, "settings", "fill")
    PROVE  Order'
<1> USE DEF storeVars, serviceVars, historyVars, Goto
<1>1. /\ UNCHANGED <<cache, seen, floor, committed, sheet, answer>>
      /\ \A u \in Threads \ {t} : draft'[u] = draft[u] /\ pc'[u] = pc[u]
      /\ pc[t] \in Reading /\ pc'[t] \in Reading
  BY DEF ReadSheet, ReadTable, Reading, TypeOK
<1>2. CASE ReadSheet(t)
  <2>1. pc'[t] = "baselines" /\ draft'[t] = [EmptyDraft EXCEPT !.sheet = sheet]
    BY <1>2 DEF ReadSheet, TypeOK
  <2>2. ReadSoFar("baselines") = {"sheet"}
    BY DEF ReadSoFar, PastSheet, AlreadyRead
  <2>3. Version(draft'[t], "sheet") = InStore("sheet")
    BY <2>1 DEF Version, InStore, EmptyDraft
  <2>4. \A part \in Tables : Version(draft'[t], part) = 0
    BY <2>1 DEF Version, EmptyDraft, NoVersions, Tables
  <2>5. \A part \in Parts : Version(draft'[t], part) <= InStore(part)
    BY <2>3, <2>4, VersionTypes DEF Parts
  <2> QED BY <1>1, <2>1, <2>2, <2>3, <2>5, ReadStep
<1>3. ASSUME NEW table \in Tables, NEW next \in PastSheet, ReadTable(t, table, next),
             ReadSoFar(next) \ {table} \subseteq ReadSoFar(pc[t])
      PROVE  Order'
  <2>1. draft' = [draft EXCEPT ![t] = [draft[t] EXCEPT !.tables[table] = committed[table]]]
    BY <1>3 DEF ReadTable
  <2>2. draft[t] \in Snapshot
    BY DEF TypeOK
  <2>3. /\ draft'[t].sheet = draft[t].sheet
        /\ draft'[t].tables = [draft[t].tables EXCEPT ![table] = committed[table]]
    BY <2>1, <2>2 DEF TypeOK, Snapshot
  <2>4. table # "sheet" /\ draft[t].tables \in [Tables -> Nat]
    BY <2>2 DEF Tables, Snapshot
  <2>5. Version(draft'[t], table) = InStore(table)
    BY <2>3, <2>4 DEF Version, InStore
  <2>6. \A part \in Parts \ {table} : Version(draft'[t], part) = Version(draft[t], part)
    BY <2>3, <2>4 DEF Version, Parts
  <2>7. \A part \in Parts : Version(draft'[t], part) <= InStore(part)
    BY <2>5, <2>6, VersionTypes DEF Order, NothingInvented
  <2>8. pc'[t] = next
    BY <1>3 DEF ReadTable, TypeOK
  <2>9. \A part \in ReadSoFar(next) \ {table} : part \in Parts \ {table} /\ part \in ReadSoFar(pc[t])
    BY <1>3, PartsRead
  <2>10. \A part \in ReadSoFar(pc'[t]) :
               \/ Version(draft'[t], part) = InStore(part)
               \/ part \in ReadSoFar(pc[t]) /\ Version(draft'[t], part) = Version(draft[t], part)
    BY <2>5, <2>6, <2>8, <2>9
  <2> QED BY <1>1, <2>7, <2>10, ReadStep
<1>4. /\ ReadSoFar("updates") \ {"baselines"} \subseteq ReadSoFar("baselines")
      /\ ReadSoFar("settings") \ {"updates"} \subseteq ReadSoFar("updates")
      /\ ReadSoFar("fill") \ {"settings"} \subseteq ReadSoFar("settings")
  BY DEF ReadSoFar, PastSheet, AlreadyRead, Tables
<1>5. /\ {"baselines", "updates", "settings"} \subseteq Tables
      /\ {"updates", "settings", "fill"} \subseteq PastSheet
  BY DEF Tables, PastSheet
<1>6. CASE ReadTable(t, "baselines", "updates")
  BY <1>3, <1>4, <1>5, <1>6 DEF ReadTable
<1>7. CASE ReadTable(t, "updates", "settings")
  BY <1>3, <1>4, <1>5, <1>7 DEF ReadTable
<1>8. CASE ReadTable(t, "settings", "fill")
  BY <1>3, <1>4, <1>5, <1>8 DEF ReadTable
<1> QED BY <1>2, <1>6, <1>7, <1>8

\* An answer that is given, or lost in a restart.
LEMMA EndingActions ==
    ASSUME CacheConstants, TypeOK, TypeOK', Order, (\E t \in Threads : Answer(t)) \/ Restart
    PROVE  Order'
<1> USE DEF storeVars, serviceVars, historyVars, Goto
<1>1. \A part \in Parts : Version(EmptyDraft, part) = 0 /\ Version(NothingSeen, part) = 0
  BY DEF Version, EmptyDraft, NothingSeen, NoVersions, Parts
<1>2. \A part : InStore(part)' = InStore(part)
  BY DEF Answer, Restart, InStore
<1>3. CASE Restart
  <2>1. /\ cache' = None /\ seen' = seen
        /\ \A u \in Threads : draft'[u] = EmptyDraft /\ floor'[u] = NothingSeen /\ pc'[u] = "idle"
    BY <1>3 DEF Restart
  <2>2. NothingInvented'
    <3> SUFFICES ASSUME NEW part \in Parts
                 PROVE  /\ Version(seen', part) <= InStore(part)'
                        /\ \A u \in Threads : Version(draft'[u], part) <= InStore(part)'
      BY <2>1 DEF NothingInvented
    <3> QED BY <1>1, <1>2, <2>1, VersionTypes DEF Order, NothingInvented
  <2>3. NewestCached' /\ NewestRead' /\ AnswersAdvance'
    BY <2>1 DEF NewestCached, NewestRead, AnswersAdvance, ReadSoFar, PastSheet, Held
  <2>4. FloorSeen'
    BY <1>1, <2>1, VersionTypes DEF FloorSeen
  <2> QED BY <2>2, <2>3, <2>4 DEF Order
<1>4. CASE \E t \in Threads : Answer(t)
  <2>1. PICK t \in Threads : Answer(t)
    BY <1>4
  <2>2. /\ cache' = cache /\ pc'[t] = "idle" /\ draft'[t] = EmptyDraft /\ floor'[t] = NothingSeen
        /\ pc[t] = "respond"
        /\ \A u \in Threads \ {t} : /\ draft'[u] = draft[u] /\ pc'[u] = pc[u]
                                    /\ answer'[u] = answer[u] /\ floor'[u] = floor[u]
    BY <2>1 DEF Answer, TypeOK
  <2>3. \A part \in Parts :
            \/ Version(seen', part) = Version(seen, part)
            \/ /\ Held(t, part)
               /\ Version(seen', part) = Larger(Version(seen, part), Version(draft[t], part))
    <3> SUFFICES ASSUME NEW part \in Parts
                 PROVE  \/ Version(seen', part) = Version(seen, part)
                        \/ /\ Held(t, part)
                           /\ Version(seen', part) = Larger(Version(seen, part), Version(draft[t], part))
      OBVIOUS
    <3>1. Version(seen', part) = Larger(Version(seen, part), Version(Told(t), part))
      BY <2>1 DEF Answer, Version, LargerOfEach, Parts
    <3>2. Version(Told(t), part) = IF FromSnapshot(t, part) THEN Version(draft[t], part) ELSE 0
      BY DEF Told, Version, Parts
    <3>3. Larger(Version(seen, part), 0) = Version(seen, part)
      BY VersionTypes DEF Larger
    <3> QED BY <2>2, <3>1, <3>2, <3>3 DEF Held
  <2>4. \A part \in Parts : Version(seen, part) <= Version(seen', part)
    BY <2>3, VersionTypes DEF Larger
  <2>5. \A u \in Threads : \A part : Held(u, part)' => Held(u, part) /\ u # t
    BY <2>2 DEF Held, FromSnapshot
  <2>6. ASSUME NEW snapshot, NEW part \in Parts, Version(snapshot, part) \in Nat,
               NewEnough(snapshot, part)
        PROVE  NewEnough(snapshot, part)'
    <3>1. Version(snapshot, part) >= Version(seen', part)
      BY <2>3, <2>6, VersionTypes DEF NewEnough, Larger
    <3>2. \A u \in Threads : Held(u, part)' => Version(snapshot, part) >= Version(draft'[u], part)
      BY <2>2, <2>5, <2>6 DEF NewEnough
    <3> QED BY <3>1, <3>2 DEF NewEnough
  <2>7. NothingInvented'
    <3> SUFFICES ASSUME NEW part \in Parts, NEW u \in Threads
                 PROVE  /\ Version(seen', part) <= InStore(part)'
                        /\ cache' # None => Version(cache', part) <= InStore(part)'
                        /\ Version(draft'[u], part) <= InStore(part)'
      BY DEF NothingInvented
    <3>1. Version(seen', part) <= InStore(part)'
      BY <1>2, <2>3, VersionTypes DEF Order, NothingInvented, Larger
    <3>2. Version(draft'[u], part) <= InStore(part)'
      BY <1>1, <1>2, <2>2, VersionTypes DEF Order, NothingInvented
    <3> QED BY <1>2, <2>2, <3>1, <3>2 DEF Order, NothingInvented
  <2>8. NewestCached'
    <3> SUFFICES ASSUME cache # None, NEW part \in Parts
                 PROVE  NewEnough(cache, part)'
      BY <2>2 DEF NewestCached
    <3>1. NewEnough(cache, part) /\ Version(cache, part) \in Nat
      BY VersionTypes DEF Order, NewestCached
    <3>2. /\ Version(cache, part) >= Version(seen', part)
          /\ \A u \in Threads : Held(u, part)' => Version(cache, part) >= Version(draft'[u], part)
      BY <2>6, <3>1 DEF NewEnough
    <3> QED BY <2>2, <3>2 DEF NewEnough
  <2>9. NewestRead'
    <3> SUFFICES ASSUME NEW u \in Threads, NEW part \in ReadSoFar(pc'[u])
                 PROVE  NewEnough(draft[u], part)'
      BY DEF NewestRead
    <3>1. u # t /\ part \in Parts
      BY <2>2, PartsRead DEF ReadSoFar, PastSheet
    <3>2. NewEnough(draft[u], part) /\ Version(draft[u], part) \in Nat
      BY <2>2, <3>1, VersionTypes DEF Order, NewestRead
    <3>3. /\ Version(draft[u], part) >= Version(seen', part)
          /\ \A v \in Threads : Held(v, part)' => Version(draft[u], part) >= Version(draft'[v], part)
      BY <2>6, <3>1, <3>2 DEF NewEnough
    <3> QED BY <2>2, <3>1, <3>3 DEF NewEnough
  <2>10. FloorSeen'
    <3> SUFFICES ASSUME NEW u \in Threads, NEW part \in Parts
                 PROVE  Version(floor'[u], part) <= Version(seen', part)
      BY DEF FloorSeen
    <3>1. Version(seen', part) \in Nat
      BY <2>3, VersionTypes DEF Larger
    <3> QED BY <1>1, <2>2, <2>4, <3>1, VersionTypes DEF Order, FloorSeen
  <2>11. AnswersAdvance'
    BY <2>2, <2>5 DEF Order, AnswersAdvance
  <2> QED BY <2>7, <2>8, <2>9, <2>10, <2>11 DEF Order
<1> QED BY <1>3, <1>4

LEMMA OrderStep ==
    ASSUME CacheConstants, TypeOK, TypeOK', Control, Order, [Next]_vars
    PROVE  Order'
<1>1. CASE Tick \/ EditSheet \/ SheetGoesDown \/ SheetComesBack \/ UNCHANGED vars
  BY <1>1, QuietActions
<1>2. CASE \E t \in Threads, r \in Kinds : Receive(t, r)
  BY <1>2, QuietActions
<1>3. ASSUME NEW t \in Threads, Serve(t) PROVE Order'
  BY <1>3, QuietActions, CommitAction, RowsAction, TakingActions, ReadingActions, EndingActions DEF Serve
<1>4. CASE Restart
  BY <1>4, EndingActions
<1> QED BY <1>1, <1>2, <1>3, <1>4 DEF Next

LEMMA OrderInit ==
    ASSUME Init PROVE Order
<1>1. /\ \A t \in Threads : draft[t] = EmptyDraft /\ floor[t] = NothingSeen /\ pc[t] = "idle"
      /\ seen = NothingSeen /\ cache = None /\ committed = NoVersions /\ sheet = 1
  BY DEF Init
<1>2. \A part \in Parts :
        /\ Version(EmptyDraft, part) = 0 /\ Version(NothingSeen, part) = 0
        /\ InStore(part) \in {0, 1}
  BY <1>1 DEF Version, InStore, EmptyDraft, NothingSeen, NoVersions, Parts
<1>3. \A step \in {"idle"} : ReadSoFar(step) = {}
  BY DEF ReadSoFar, PastSheet
<1> QED BY <1>1, <1>2, <1>3 DEF Order, NothingInvented, NewestCached, NewestRead, FloorSeen,
       AnswersAdvance, Held

\* A thread that is about to answer with rows has just read them, or keeps them.
LEMMA RowsAnswered ==
    ASSUME TypeOK, [Next]_vars, NEW u \in Threads, pc'[u] = "respond", answer'[u] = "rows"
    PROVE  ReadRows(u) \/ (pc[u] = "respond" /\ answer[u] = "rows" /\ draft'[u] = draft[u])
<1> USE DEF TypeOK, Goto, Respond
<1>1. ASSUME NEW t \in Threads, Serve(t), t # u
      PROVE  pc'[u] = pc[u] /\ answer'[u] = answer[u] /\ draft'[u] = draft[u]
  BY <1>1, Continued DEF Serve, CheckClass, UseCached, StartRead, RefuseRefresh, StartRefresh,
        ReadSheet, SheetFails, ReadTable, Fill, ReadRows, Commit, Refuse, Invalidate, Answer
<1>2. ASSUME Serve(u) PROVE ReadRows(u)
  BY <1>2, Continued DEF Serve, CheckClass, UseCached, StartRead, RefuseRefresh, StartRefresh,
        ReadSheet, SheetFails, ReadTable, Fill, Commit, Refuse, Invalidate, Answer
<1>3. ASSUME NEW t \in Threads, NEW r \in Kinds, Receive(t, r)
      PROVE  t # u /\ pc'[u] = pc[u] /\ answer'[u] = answer[u] /\ draft'[u] = draft[u]
  BY <1>3 DEF Receive
<1>4. ASSUME Tick \/ EditSheet \/ SheetGoesDown \/ SheetComesBack \/ UNCHANGED vars
      PROVE  pc'[u] = pc[u] /\ answer'[u] = answer[u] /\ draft'[u] = draft[u]
  BY <1>4 DEF Tick, EditSheet, SheetGoesDown, SheetComesBack, threadVars, vars
<1>5. ~Restart
  BY DEF Restart
<1> QED BY <1>1, <1>2, <1>3, <1>4, <1>5 DEF Next

\* Rows are read from the newest tables, and histories follow the store.
LEMMA RowsOrderStep ==
    ASSUME CacheConstants, TypeOK, TypeOK', Control, Order, RowsOrder, [Next]_vars
    PROVE  RowsOrder'
<1> USE DEF Goto, Respond
<1>1. ASSUME NEW table \in Tables
      PROVE  /\ seen.rows[table] \in Nat /\ seen.rows[table] <= committed[table]
             /\ committed[table] \in Nat /\ committed'[table] \in Nat
             /\ committed[table] <= committed'[table]
             /\ NothingSeen.rows[table] = 0
             /\ seen.tables[table] <= committed[table] /\ seen.tables[table] \in Nat
  <2>1. seen.tables[table] <= committed[table]
    BY DEF Order, NothingInvented, Parts, Version, InStore, Tables
  <2> QED BY <2>1, AnnounceStep DEF RowsOrder, TypeOK, Histories, NothingSeen, NoVersions
<1>2. ASSUME NEW t \in Threads, NEW table \in Tables
      PROVE  /\ draft[t].tables[table] \in Nat
             /\ floor[t].rows[table] \in Nat /\ floor[t].rows[table] <= committed[table]
             /\ floor[t].tables[table] \in Nat /\ floor[t].tables[table] <= committed[table]
  <2>1. floor[t].tables[table] <= seen.tables[table]
    BY DEF Order, FloorSeen, Parts, Version, Tables
  <2>2. draft[t].tables[table] \in Nat /\ floor[t].rows[table] \in Nat /\ floor[t].tables[table] \in Nat
    BY DEF TypeOK, Snapshot, Histories
  <2> QED BY <1>1, <2>1, <2>2 DEF RowsOrder
<1>3. \A table \in Tables : seen'.rows[table] <= committed'[table]
  <2> SUFFICES ASSUME NEW table \in Tables PROVE seen'.rows[table] <= committed'[table]
    OBVIOUS
  <2>1. CASE \E t \in Threads : Answer(t)
    <3>1. PICK t \in Threads : Answer(t)
      BY <2>1
    <3>2. seen'.rows[table] = Larger(seen.rows[table], Told(t).rows[table])
      BY <3>1 DEF Answer, LargerOfEach
    <3>3. Told(t).rows[table] \in {0, draft[t].tables[table]}
      BY DEF Told
    <3>4. draft[t].tables[table] <= committed[table]
      BY DEF Order, NothingInvented, Parts, Version, InStore, Tables
    <3> QED BY <1>1, <1>2, <3>2, <3>3, <3>4 DEF Larger
  <2>2. CASE ~\E t \in Threads : Answer(t)
    <3>1. seen' = seen
      BY <2>2 DEF Next, Serve, Receive, CheckClass, UseCached, StartRead, RefuseRefresh,
            StartRefresh, ReadSheet, SheetFails, ReadTable, Fill, ReadRows, Commit, Refuse,
            Invalidate, Tick, EditSheet, SheetGoesDown, SheetComesBack, Restart, vars, historyVars
    <3> QED BY <1>1, <3>1
  <2> QED BY <2>1, <2>2
<1>4. ASSUME NEW u \in Threads, NEW table \in Tables
      PROVE  floor'[u].rows[table] <= committed'[table]
  <2>1. floor'[u] \in {floor[u], seen, NothingSeen}
    BY DEF Next, Serve, Receive, CheckClass, UseCached, StartRead, RefuseRefresh,
       StartRefresh, ReadSheet, SheetFails, ReadTable, Fill, ReadRows, Commit, Refuse,
       Invalidate, Answer, Tick, EditSheet, SheetGoesDown, SheetComesBack, Restart, vars,
       historyVars, TypeOK
  <2> QED BY <1>1, <1>2, <2>1
<1>5. ASSUME NEW u \in Threads, NEW table \in Tables, pc'[u] = "respond", FromStore(u, table)'
      PROVE  /\ draft'[u].tables[table] >= floor'[u].tables[table]
             /\ draft'[u].tables[table] >= floor'[u].rows[table]
  <2>1. answer'[u] = "rows" /\ table \in CommitmentTables
    BY <1>5 DEF FromStore
  <2>2. floor'[u] = floor[u]
    BY <1>5, <2>1, AnswerReady DEF Holding, Answering
  <2>3. CASE ReadRows(u)
    BY <1>2, <2>1, <2>2, <2>3, RowsRead
  <2>4. CASE pc[u] = "respond" /\ answer[u] = "rows" /\ draft'[u] = draft[u]
    BY <2>1, <2>2, <2>4 DEF RowsOrder, FromStore
  <2>5. ReadRows(u) \/ (pc[u] = "respond" /\ answer[u] = "rows" /\ draft'[u] = draft[u])
    BY <1>5, <2>1, RowsAnswered
  <2> QED BY <2>3, <2>4, <2>5
<1> QED BY <1>3, <1>4, <1>5 DEF RowsOrder

\* A request that arrives after an answer is answered with nothing older that is
\* computed from a snapshot, and with no older rows, for any interleaving of
\* threads with commits, outages, refreshes and restarts.
THEOREM AnswersNeverGoBackAlways == Spec => []AnswersNeverGoBack
<1>1. Init => Order
  BY OrderInit
<1>2. IInv /\ IInv' /\ Order /\ [Next]_vars => Order'
  BY CacheConstants, OrderStep DEF IInv
<1>3. Init => RowsOrder
  BY DEF Init, RowsOrder, NothingSeen, NoVersions
<1>4. IInv /\ IInv' /\ Order /\ RowsOrder /\ [Next]_vars => RowsOrder'
  BY CacheConstants, RowsOrderStep DEF IInv
<1>5. Order /\ RowsOrder => AnswersNeverGoBack
  <2> SUFFICES ASSUME Order, RowsOrder, NEW t \in Threads, Answering(t), NEW table \in Tables
               PROVE  /\ draft[t].sheet >= floor[t].sheet
                      /\ draft[t].tables[table] >= floor[t].tables[table]
                      /\ FromStore(t, table) => draft[t].tables[table] >= floor[t].rows[table]
    BY DEF AnswersNeverGoBack, Tables
  <2>1. Held(t, "sheet") /\ "sheet" \in Parts
    BY DEF Answering, Held, FromSnapshot, CommitmentTables, Parts
  <2>2. draft[t].sheet >= floor[t].sheet
    BY <2>1 DEF Order, AnswersAdvance, Version
  <2>3. CASE FromStore(t, table)
    BY <2>2, <2>3 DEF RowsOrder, Answering
  <2>4. CASE ~FromStore(t, table)
    <3>1. Held(t, table) /\ table \in Parts /\ table # "sheet"
      BY <2>4 DEF Answering, Held, FromSnapshot, FromStore, Parts, Tables
    <3> QED BY <2>2, <2>4, <3>1 DEF Order, AnswersAdvance, Version
  <2> QED BY <2>3, <2>4
<1> QED BY <1>1, <1>2, <1>3, <1>4, <1>5, Inductive, PTL DEF Spec

----------------------------------------------------------------------------
(* The stale mark *)

\* While a thread reads, it alone moves past the sheet.
LEMMA StaleStep ==
    ASSUME CacheConstants, TypeOK, Control, StaleInv, [Next]_vars
    PROVE  StaleInv'
<1> USE DEF StaleInv, PastSheet, Goto, Respond, storeVars, serviceVars, threadVars, historyVars
<1>1. ASSUME NEW t \in Threads, ReadSheet(t) PROVE StaleInv'
  <2>1. lock = t /\ draft'[t] = [EmptyDraft EXCEPT !.sheet = sheet]
    BY <1>1 DEF ReadSheet, Control, Reading, TypeOK
  <2>2. ~draft'[t].stale
    BY <2>1 DEF EmptyDraft
  <2>3. \A u \in Threads \ {t} : pc[u] \notin PastSheet \cup {"sheet"} /\ pc'[u] = pc[u]
    BY <1>1, <2>1 DEF ReadSheet, Control, Reading, TypeOK
  <2> QED BY <1>1, <2>1, <2>2, <2>3 DEF ReadSheet, TypeOK, CacheConstants
<1>2. ASSUME NEW t \in Threads, SheetFails(t) PROVE StaleInv'
  <2>1. lock = t /\ lock' = None /\ lastReadFailed' = TRUE
    BY <1>2 DEF SheetFails, Control, Reading
  <2>2. \A u \in Threads : pc'[u] \notin PastSheet
    BY <1>2, <2>1, Continued DEF SheetFails, Control, Reading, TypeOK
  <2>3. cache' # None => cache'.stale
    BY <1>2 DEF SheetFails, TypeOK, Snapshot
  <2> QED BY <2>1, <2>2, <2>3
<1>3. ASSUME NEW t \in Threads, NEW table \in Tables, NEW next \in PastSheet,
             ReadTable(t, table, next)
      PROVE  StaleInv'
  <2>1. draft' = [draft EXCEPT ![t] = [draft[t] EXCEPT !.tables[table] = committed[table]]]
    BY <1>3 DEF ReadTable
  <2>2. draft[t] \in Snapshot
    BY DEF TypeOK
  <2>3. draft'[t].stale = draft[t].stale /\ pc[t] \in PastSheet /\ pc'[t] = next
    BY <1>3, <2>1, <2>2 DEF ReadTable, TypeOK, Snapshot, Tables
  <2>4. \A u \in Threads \ {t} : pc'[u] = pc[u] /\ draft'[u] = draft[u]
    BY <1>3, <2>1 DEF ReadTable, TypeOK
  <2>5. lock = t /\ UNCHANGED <<cache, lock, lastReadFailed>>
    BY <1>3, <2>3 DEF ReadTable, Control, Reading
  <2> QED BY <2>3, <2>4, <2>5 DEF CacheConstants
<1>4. ASSUME NEW t \in Threads, Fill(t) PROVE StaleInv'
  <2>1. lock = t /\ lock' = None /\ ~lastReadFailed' /\ ~draft[t].stale
    BY <1>4 DEF Fill, Control, Reading
  <2>2. \A u \in Threads : pc'[u] \notin PastSheet
    BY <1>4, <2>1, Continued DEF Fill, Control, Reading, TypeOK
  <2>3. cache'.stale = draft[t].stale
    BY <1>4 DEF Fill, TypeOK, Snapshot
  <2> QED BY <2>1, <2>2, <2>3
<1>5. ASSUME NEW t \in Threads, StartRead(t) \/ StartRefresh(t) PROVE StaleInv'
  BY <1>5 DEF StartRead, StartRefresh, TypeOK
<1>6. ASSUME NEW t \in Threads, UseCached(t) PROVE StaleInv'
  <2>1. pc'[t] \notin PastSheet
    BY <1>6, Continued DEF UseCached
  <2>2. \A u \in Threads \ {t} : pc'[u] = pc[u] /\ draft'[u] = draft[u]
    BY <1>6, Continued DEF UseCached, TypeOK
  <2>3. lock = None /\ UNCHANGED <<cache, lock, lastReadFailed>>
    BY <1>6 DEF UseCached
  <2> QED BY <2>1, <2>2, <2>3
<1>7. ASSUME NEW t \in Threads,
             \/ \E r \in Kinds : Receive(t, r)
             \/ CheckClass(t) \/ RefuseRefresh(t) \/ ReadRows(t) \/ Commit(t) \/ Refuse(t)
             \/ Invalidate(t) \/ Answer(t)
      PROVE  StaleInv'
  <2>1. /\ cache' = cache \/ cache' = None
        /\ UNCHANGED <<lock, lastReadFailed>>
    BY <1>7 DEF Receive, CheckClass, RefuseRefresh, ReadRows, Commit, Refuse, Invalidate, Answer
  <2>2. pc'[t] \notin PastSheet \cup {"sheet"} /\ pc[t] \notin PastSheet \cup {"sheet"}
    BY <1>7 DEF Receive, CheckClass, RefuseRefresh, ReadRows, Commit, Refuse, Invalidate, Answer, TypeOK
  <2>3. \A u \in Threads \ {t} : pc'[u] = pc[u] /\ draft'[u] = draft[u]
    BY <1>7 DEF Receive, CheckClass, RefuseRefresh, ReadRows, Commit, Refuse, Invalidate, Answer, TypeOK
  <2> QED BY <2>1, <2>2, <2>3
<1>8. CASE Restart
  BY <1>8 DEF Restart
<1>9. CASE Tick \/ EditSheet \/ SheetGoesDown \/ SheetComesBack \/ UNCHANGED vars
  BY <1>9 DEF Tick, EditSheet, SheetGoesDown, SheetComesBack, vars
<1>10. /\ {"baselines", "updates", "settings"} \subseteq Tables
       /\ {"updates", "settings", "fill"} \subseteq PastSheet
  BY DEF Tables
<1>11. ASSUME NEW t \in Threads, Serve(t) PROVE StaleInv'
  BY <1>1, <1>2, <1>3, <1>4, <1>5, <1>6, <1>7, <1>10, <1>11 DEF Serve
<1> QED BY <1>7, <1>8, <1>9, <1>11 DEF Next

\* _read: the stale mark of the cached snapshot tells how the last try to read
\* the sheet ended, whoever tried, and whatever is invalidated in between.
THEOREM StaleTellsTheTruthAlways == Spec => []StaleTellsTheTruth
<1>1. Init => StaleInv
  BY DEF Init, StaleInv, PastSheet
<1>2. IInv /\ StaleInv /\ [Next]_vars => StaleInv'
  BY CacheConstants, StaleStep DEF IInv
<1>3. StaleInv => StaleTellsTheTruth
  BY DEF StaleInv, StaleTellsTheTruth
<1> QED BY <1>1, <1>2, <1>3, Inductive, PTL DEF Spec
=============================================================================
