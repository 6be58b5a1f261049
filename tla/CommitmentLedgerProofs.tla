----------------------- MODULE CommitmentLedgerProofs -----------------------
(***************************************************************************)
(* Theorems about what the tables promise: that they implement             *)
(* CommitmentLedger, that the hours that count are the ledger's, what an   *)
(* approval, a submission and a reversal do to them, and that the change   *)
(* log tells all of it.                                                    *)
(***************************************************************************)
EXTENDS CommitmentRefinement, CommitmentStoreProofs, FiniteSetTheorems

----------------------------------------------------------------------------
(* Baselines *)

\* The row numbers of a student's approved baselines.
LEMMA ApprovedRows ==
    ASSUME TypeOK, NEW s
    PROVE  /\ Approved(baselines, s) \in SUBSET (1..Len(baselines))
           /\ Len(baselines) \in Nat
           /\ Approved(baselines, s) # {} => Newest(Approved(baselines, s)) \in Approved(baselines, s)
<1>1. Approved(baselines, s) \in SUBSET (1..Len(baselines)) /\ Len(baselines) \in Nat
  BY TableRows DEF Approved, TypeOK
<1> QED BY <1>1, NewestRow

\* The hours of a student depend on the approved rows and the edits only.
LEMMA SameHours ==
    ASSUME TypeOK, NEW s \in Students, NEW w \in Weeks, updates' = updates,
           Approved(baselines', s) = Approved(baselines, s),
           \A j \in Approved(baselines, s) : baselines'[j] = baselines[j]
    PROVE  HoursInEffectNext(s, w) = HoursInEffect(s, w)
<1>1. Approved(baselines, s) # {}
      => baselines'[Newest(Approved(baselines, s))] = baselines[Newest(Approved(baselines, s))]
  BY ApprovedRows
<1> QED BY <1>1 DEF HoursInEffectNext, HoursInEffect, ResolveHours

\* A submission approves nothing.
LEMMA SubmittedApproved ==
    ASSUME TypeOK, NEW s \in Students, NEW h \in Hours, SaveBaseline(s, h), NEW t \in Students
    PROVE  /\ Approved(baselines', t) = Approved(baselines, t)
           /\ \A j \in Approved(baselines, t) : baselines'[j] = baselines[j]
<1>1. /\ Len(baselines) \in Nat
      /\ DOMAIN baselines = 1..Len(baselines)
      /\ DOMAIN baselines' = 1..(Len(baselines) + 1)
      /\ baselines'[Len(baselines) + 1].status = "pending"
      /\ \A j \in DOMAIN baselines : baselines'[j] = baselines[j]
  BY SubmittedRow
<1>2. \A j \in DOMAIN baselines' : j \in DOMAIN baselines \/ baselines'[j].status = "pending"
  BY <1>1
<1>3. DOMAIN baselines \subseteq DOMAIN baselines'
  BY <1>1
<1> QED BY <1>1, <1>2, <1>3 DEF Approved

\* Neither does a rejection.
LEMMA RejectedApproved ==
    ASSUME TypeOK, NEW i \in DOMAIN baselines, RejectBaseline(i), NEW t \in Students
    PROVE  /\ Approved(baselines', t) = Approved(baselines, t)
           /\ \A j \in Approved(baselines, t) : baselines'[j] = baselines[j]
<1>1. /\ DOMAIN baselines' = DOMAIN baselines
      /\ baselines[i].status = "pending"
      /\ baselines'[i].status = "rejected"
      /\ \A j \in DOMAIN baselines \ {i} : baselines'[j] = baselines[j]
  BY RejectedRow
<1> QED BY <1>1 DEF Approved

\* An approval leaves the student with the approved row alone, and other students with
\* what they had.
LEMMA ApprovedApproved ==
    ASSUME TypeOK, NEW i \in DOMAIN baselines, NEW from \in Weeks, ApproveBaseline(i, from)
    PROVE  /\ Approved(baselines', baselines[i].student) = {i}
           /\ baselines'[i].hours = baselines[i].hours
           /\ baselines'[i].effectiveFrom = from
           /\ \A t \in Students \ {baselines[i].student} :
                 /\ Approved(baselines', t) = Approved(baselines, t)
                 /\ \A j \in Approved(baselines, t) : baselines'[j] = baselines[j]
<1>1. /\ DOMAIN baselines' = DOMAIN baselines
      /\ baselines'[i].status = "approved"
      /\ \A j \in DOMAIN baselines :
            /\ baselines'[j].student = baselines[j].student
            /\ j # i => baselines'[j] = IF j \in Approved(baselines, baselines[i].student)
                                        THEN [baselines[j] EXCEPT !.status = "superseded"]
                                        ELSE baselines[j]
      /\ \A j \in Approved(baselines, baselines[i].student) :
            j # i /\ baselines'[j].status = "superseded"
  BY ApprovedRow
<1>2. Approved(baselines', baselines[i].student) = {i}
  BY <1>1 DEF Approved
<1>3. baselines'[i] = [baselines[i] EXCEPT !.status = "approved", !.effectiveFrom = from]
  BY DEF ApproveBaseline
<1>4. baselines'[i].hours = baselines[i].hours /\ baselines'[i].effectiveFrom = from
  BY <1>3, BaselineRow DEF Baseline, TypeOK
<1>5. ASSUME NEW t \in Students \ {baselines[i].student}
      PROVE  /\ Approved(baselines', t) = Approved(baselines, t)
             /\ \A j \in Approved(baselines, t) : baselines'[j] = baselines[j]
  <2>1. \A j \in DOMAIN baselines : baselines[j].student = t => baselines'[j] = baselines[j]
    BY <1>1 DEF Approved
  <2> QED BY <1>1, <2>1 DEF Approved
<1> QED BY <1>2, <1>4, <1>5

\* Submitting or rejecting a baseline moves nobody's hours.
THEOREM PendingIsInertAlways == Spec => PendingIsInert
<1> DEFINE Submits == \E s \in Students, h \in Hours : SaveBaseline(s, h)
           Rejects == \E i \in DOMAIN baselines : RejectBaseline(i)
           Inert == \A s \in Students, w \in Weeks : HoursInEffectNext(s, w) = HoursInEffect(s, w)
<1>1. TypeOK /\ [Next]_vars => [Submits \/ Rejects => Inert]_vars
  <2> SUFFICES ASSUME TypeOK, Submits \/ Rejects, NEW t \in Students, NEW w \in Weeks
               PROVE  HoursInEffectNext(t, w) = HoursInEffect(t, w)
    OBVIOUS
  <2>1. CASE Submits
    <3>1. PICK s \in Students, h \in Hours : SaveBaseline(s, h)
      BY <2>1
    <3>2. updates' = updates
      BY <3>1 DEF SaveBaseline
    <3> QED BY <3>1, <3>2, SubmittedApproved, SameHours
  <2>2. CASE Rejects
    <3>1. PICK i \in DOMAIN baselines : RejectBaseline(i)
      BY <2>2
    <3>2. updates' = updates
      BY <3>1 DEF RejectBaseline
    <3> QED BY <3>1, <3>2, RejectedApproved, SameHours
  <2> QED BY <2>1, <2>2
<1> QED BY <1>1, TypeCorrect, PTL DEF Spec, PendingIsInert
----------------------------------------------------------------------------
(* The latest approval *)

\* The entry a step adds to the log is well formed, since the log stays so.
LEMMA AppendedEntry ==
    ASSUME TypeOK, TypeOK', NEW entry, changeLog' = Append(changeLog, entry)
    PROVE  entry \in LogEntry
<1>1. changeLog'[Len(changeLog) + 1] = entry /\ Len(changeLog) + 1 \in DOMAIN changeLog'
  <2>1. Len(changeLog) \in Nat /\ DOMAIN changeLog = 1..Len(changeLog)
    BY TableRows DEF TypeOK
  <2> QED BY <2>1
<1> QED BY <1>1, TableRows DEF TypeOK

\* A row that no row number exceeds is the newest.
LEMMA OnlyNewest ==
    ASSUME NEW n \in Nat, NEW rows \in SUBSET (1..n), n \in rows
    PROVE  Newest(rows) = n
<1>1. Newest(rows) \in rows /\ n <= Newest(rows)
  BY NewestRow
<1>2. Newest(rows) \in 1..n
  BY <1>1
<1> QED BY <1>1, <1>2

\* A new entry that is no approval leaves the approvals of the log as they were.
LEMMA OtherEntry ==
    ASSUME TypeOK, NEW entry \in LogEntry, changeLog' = Append(changeLog, entry), NEW t \in Students,
           entry.action # "baseline.approve" \/ entry.student # t
    PROVE  /\ LoggedFor(t, {"baseline.approve"})' = LoggedFor(t, {"baseline.approve"})
           /\ \A n \in LoggedFor(t, {"baseline.approve"}) : changeLog'[n] = changeLog[n]
<1>1. /\ Len(changeLog) \in Nat /\ DOMAIN changeLog = 1..Len(changeLog)
      /\ DOMAIN changeLog' = 1..(Len(changeLog) + 1)
      /\ changeLog'[Len(changeLog) + 1] = entry
      /\ \A n \in DOMAIN changeLog : changeLog'[n] = changeLog[n]
  BY TableRows DEF TypeOK
<1>2. DOMAIN changeLog \subseteq DOMAIN changeLog'
  BY <1>1
<1>3. \A n \in DOMAIN changeLog' : n \in DOMAIN changeLog \/ changeLog'[n] = entry
  BY <1>1
<1> QED BY <1>1, <1>2, <1>3 DEF LoggedFor

\* The newest approval of a log is one of its entries.
LEMMA ApprovalLogged ==
    ASSUME TypeOK, NEW t, LoggedFor(t, {"baseline.approve"}) # {}
    PROVE  Newest(LoggedFor(t, {"baseline.approve"})) \in LoggedFor(t, {"baseline.approve"})
<1>1. LoggedFor(t, {"baseline.approve"}) \in SUBSET (1..Len(changeLog)) /\ Len(changeLog) \in Nat
  BY TableRows DEF LoggedFor, TypeOK
<1> QED BY <1>1, NewestRow

\* What LatestApprovalCounts says of a student.
LatestOf(s) ==
    LET approvals == LoggedFor(s, {"baseline.approve"})
        approved == Approved(baselines, s)
        entry == changeLog[Newest(approvals)]
        active == baselines[Newest(approved)]
    IN  approvals # {} =>
            /\ approved # {}
            /\ active.hours = entry.new
            /\ active.effectiveFrom = entry.from

\* It survives a step that approves nothing for the student.
LEMMA LatestKept ==
    ASSUME TypeOK, NEW t \in Students, LatestOf(t),
           LoggedFor(t, {"baseline.approve"})' = LoggedFor(t, {"baseline.approve"}),
           \A n \in LoggedFor(t, {"baseline.approve"}) : changeLog'[n] = changeLog[n],
           Approved(baselines', t) = Approved(baselines, t),
           \A j \in Approved(baselines, t) : baselines'[j] = baselines[j]
    PROVE  LatestOf(t)'
<1> DEFINE approvals == LoggedFor(t, {"baseline.approve"})
           approved == Approved(baselines, t)
<1>1. CASE approvals = {}
  BY <1>1 DEF LatestOf
<1>2. CASE approvals # {}
  <2>1. approved # {}
    BY <1>2 DEF LatestOf
  <2>2. /\ changeLog'[Newest(approvals)] = changeLog[Newest(approvals)]
        /\ baselines'[Newest(approved)] = baselines[Newest(approved)]
    BY <1>2, <2>1, ApprovalLogged, ApprovedRows
  <2> QED BY <1>2, <2>1, <2>2 DEF LatestOf
<1> QED BY <1>1, <1>2

\* The baseline that counts is always the one approved last.
THEOREM LatestApprovalAlways == Spec => []LatestApprovalCounts
<1>1. Init => LatestApprovalCounts
  BY DEF Init, LatestApprovalCounts, LoggedFor
<1>2. TypeOK /\ TypeOK' /\ LatestApprovalCounts /\ [Next]_vars => LatestApprovalCounts'
  <2> SUFFICES ASSUME TypeOK, TypeOK', LatestApprovalCounts, [Next]_vars, NEW t \in Students
               PROVE  LatestOf(t)'
    BY DEF LatestApprovalCounts, LatestOf
  <2>0. LatestOf(t)
    BY DEF LatestApprovalCounts, LatestOf
  <2>1. ASSUME NEW s \in Students, NEW h \in Hours, SaveBaseline(s, h)
        PROVE  LatestOf(t)'
    <3>1. \E entry : changeLog' = Append(changeLog, entry) /\ entry.action = "baseline.submit"
      BY <2>1 DEF SaveBaseline, AddLog
    <3>2. \E entry \in LogEntry : changeLog' = Append(changeLog, entry) /\ entry.action = "baseline.submit"
      BY <3>1, AppendedEntry
    <3> QED BY <2>0, <2>1, <3>2, OtherEntry, SubmittedApproved, LatestKept
  <2>2. ASSUME NEW i \in DOMAIN baselines, NEW from \in Weeks, ApproveBaseline(i, from)
        PROVE  LatestOf(t)'
    <3>1. PICK entry \in LogEntry :
             /\ changeLog' = Append(changeLog, entry)
             /\ entry.action = "baseline.approve" /\ entry.student = baselines[i].student
             /\ entry.new = baselines[i].hours /\ entry.from = from
      <4>1. \E entry :
             /\ changeLog' = Append(changeLog, entry)
             /\ entry.action = "baseline.approve" /\ entry.student = baselines[i].student
             /\ entry.new = baselines[i].hours /\ entry.from = from
        <5>1. PICK j \in AnyOf(Displaced(i)) :
                 AddLog("baseline.approve", baselines[i].student, 0,
                        IF j = 0 THEN NoValues ELSE baselines[j].hours, baselines[i].hours, from)
          BY <2>2 DEF ApproveBaseline
        <5> QED BY <5>1 DEF AddLog
      <4> QED BY <4>1, AppendedEntry
    <3>2. CASE t # baselines[i].student
      BY <2>0, <2>2, <3>1, <3>2, OtherEntry, ApprovedApproved, LatestKept
    <3>3. CASE t = baselines[i].student
      <4>1. LoggedFor(t, {"baseline.approve"})' \in SUBSET (1..(Len(changeLog) + 1))
        BY <3>1, TableRows DEF LoggedFor, TypeOK
      <4>2. /\ Len(changeLog) + 1 \in LoggedFor(t, {"baseline.approve"})'
            /\ changeLog'[Len(changeLog) + 1] = entry
        BY <3>1, <3>3, TableRows DEF LoggedFor, TypeOK
      <4>3. Newest(LoggedFor(t, {"baseline.approve"})') = Len(changeLog) + 1
        BY <4>1, <4>2, OnlyNewest, TableRows DEF TypeOK
      <4>4. Approved(baselines', t) = {i} /\ Newest(Approved(baselines', t)) = i
        BY <2>2, <3>3, ApprovedApproved DEF Newest
      <4> QED BY <2>2, <3>1, <4>2, <4>3, <4>4, ApprovedApproved DEF LatestOf
    <3> QED BY <3>2, <3>3
  <2>3. ASSUME NEW i \in DOMAIN baselines, RejectBaseline(i)
        PROVE  LatestOf(t)'
    <3>1. \E entry : changeLog' = Append(changeLog, entry) /\ entry.action = "baseline.reject"
      BY <2>3 DEF RejectBaseline, AddLog
    <3>2. \E entry \in LogEntry : changeLog' = Append(changeLog, entry) /\ entry.action = "baseline.reject"
      BY <3>1, AppendedEntry
    <3> QED BY <2>0, <2>3, <3>2, OtherEntry, RejectedApproved, LatestKept
  <2>4. ASSUME baselines' = baselines,
               \E entry : changeLog' = Append(changeLog, entry)
                          /\ entry.action \in {"weekly.set", "weekly.reverse"}
        PROVE  LatestOf(t)'
    <3>1. PICK entry \in LogEntry : changeLog' = Append(changeLog, entry)
                          /\ entry.action \in {"weekly.set", "weekly.reverse"}
      BY <2>4, AppendedEntry
    <3> QED BY <2>0, <2>4, <3>1, OtherEntry, LatestKept
  <2>5. ASSUME NEW s \in Students, NEW w \in Weeks, NEW h \in Hours, SaveWeeklyUpdate(s, w, h)
        PROVE  LatestOf(t)'
    <3>1. \E entry : changeLog' = Append(changeLog, entry) /\ entry.action = "weekly.set"
      BY <2>5 DEF SaveWeeklyUpdate, AddLog
    <3> QED BY <2>4, <2>5, <3>1 DEF SaveWeeklyUpdate
  <2>6. ASSUME NEW i \in DOMAIN updates, ReverseWeeklyUpdate(i)
        PROVE  LatestOf(t)'
    <3>1. \E entry : changeLog' = Append(changeLog, entry) /\ entry.action = "weekly.reverse"
      BY <2>6 DEF ReverseWeeklyUpdate, AddLog
    <3> QED BY <2>4, <2>6, <3>1 DEF ReverseWeeklyUpdate
  <2>7. CASE UNCHANGED vars
    BY <2>0, <2>7 DEF vars, LatestOf, LoggedFor, Approved
  <2> QED BY <2>1, <2>2, <2>3, <2>5, <2>6, <2>7 DEF Next
<1> QED BY <1>1, <1>2, TypeCorrect, PTL DEF Spec

----------------------------------------------------------------------------
(* Reversals *)

\* The unreversed rows of row i's week before it.
Earlier(i) == {k \in 1..(i - 1) : SameSlot(k, i) /\ ~updates[k].reversed}

\* On a chain, a live row is the last of its week and the one before it names it.
LEMMA LastOfChain ==
    ASSUME TypeOK, EditChain, NEW i \in DOMAIN updates,
           ~updates[i].reversed, updates[i].supersededBy = 0
    PROVE  ReplacedBy(i) = IF Earlier(i) = {} THEN {} ELSE {Newest(Earlier(i))}
<1>1. /\ Len(updates) \in Nat /\ DOMAIN updates = 1..Len(updates)
      /\ \A k \in DOMAIN updates : k \in Nat \ {0} /\ updates[k].supersededBy \in Nat
  BY TableRows, UpdateRow DEF TypeOK
<1>2. \A k \in ReplacedBy(i) : k \in Earlier(i)
  <2> SUFFICES ASSUME NEW k \in ReplacedBy(i) PROVE k \in Earlier(i)
    OBVIOUS
  <2>1. k \in DOMAIN updates /\ updates[k].supersededBy = i /\ Linked(k) /\ i # 0
    BY <1>1 DEF ReplacedBy, EditChain
  <2>2. ~updates[k].reversed /\ k < i /\ SameSlot(k, i)
    BY <2>1 DEF Linked
  <2> QED BY <1>1, <2>1, <2>2 DEF Earlier
<1>3. CASE Earlier(i) = {}
  BY <1>2, <1>3
<1>4. CASE Earlier(i) # {}
  <2> DEFINE n == Newest(Earlier(i))
  <2>1. Earlier(i) \in SUBSET (1..(i - 1)) /\ i - 1 \in Nat
    BY <1>1 DEF Earlier
  <2>2. n \in Earlier(i) /\ \A k \in Earlier(i) : k <= n
    BY <1>4, <2>1, NewestRow
  <2> HIDE DEF n
  <2>3. n \in DOMAIN updates /\ n \in Nat /\ n < i /\ SameSlot(n, i) /\ ~updates[n].reversed
    BY <1>1, <2>2 DEF Earlier
  <2> DEFINE next == updates[n].supersededBy
  <2>4. Linked(n)
    BY <2>3 DEF EditChain
  <2>5. /\ next # 0 /\ next <= i /\ next \in DOMAIN updates /\ next > n
        /\ SameSlot(n, next) /\ ~updates[next].reversed
    BY <2>3, <2>4 DEF Linked
  <2>6. ~(next < i)
    <3> SUFFICES ASSUME next < i PROVE FALSE
      OBVIOUS
    <3>1. next \in Earlier(i)
      BY <1>1, <2>3, <2>5 DEF Earlier, SameSlot
    <3> QED BY <1>1, <2>2, <2>3, <2>5, <3>1
  <2>7. n \in ReplacedBy(i)
    BY <1>1, <2>3, <2>5, <2>6 DEF ReplacedBy
  <2>8. ReplacedBy(i) = {n}
    BY <2>7, ChainEnds
  <2> QED BY <1>4, <2>8 DEF n
<1> QED BY <1>3, <1>4

\* A reversal leaves live exactly what the reversed row had replaced.
LEMMA LiveAfterReversal ==
    ASSUME TypeOK, EditChain, NEW i \in DOMAIN updates, ReverseWeeklyUpdate(i)
    PROVE  Live(updates', updates[i].student, updates[i].week)
              = IF Earlier(i) = {} THEN {} ELSE {Newest(Earlier(i))}
<1> DEFINE s == updates[i].student
           w == updates[i].week
<1>0. s \in Students /\ w \in Weeks
  BY UpdateRow DEF TypeOK
<1>1. /\ DOMAIN updates' = DOMAIN updates
      /\ ~updates[i].reversed
      /\ updates[i].supersededBy = 0
  BY ReversedRow
<1>2. PICK replaced \in AnyOf(ReplacedBy(i)) :
         \A k \in DOMAIN updates :
            /\ updates'[k].student = updates[k].student
            /\ updates'[k].week = updates[k].week
            /\ updates'[k].reversed = (k = i \/ updates[k].reversed)
            /\ updates'[k].supersededBy = IF k = replaced THEN 0 ELSE updates[k].supersededBy
  BY ReversedRow
<1>3. \A k \in ReplacedBy(i) : k = replaced
  BY <1>2, ChainEnds, AnyOfRows
<1>4. \A k \in Live(updates, s, w) : k = i
  <2>1. i \in Live(updates, s, w)
    BY <1>1 DEF Live
  <2> QED BY <1>0, <2>1, ChainEnds
<1>5. \A k \in ReplacedBy(i) :
         k \in DOMAIN updates /\ k # i /\ ~updates[k].reversed /\ SameSlot(k, i)
  <2>1. \A k \in ReplacedBy(i) : k \in DOMAIN updates /\ updates[k].supersededBy = i /\ Linked(k)
    BY DEF ReplacedBy, EditChain
  <2>2. i \in Nat \ {0}
    BY TableRows DEF TypeOK
  <2> QED BY <1>1, <2>1, <2>2 DEF Linked
<1>6. Live(updates', s, w) = ReplacedBy(i)
  <2>1. ASSUME NEW k \in ReplacedBy(i) PROVE k \in Live(updates', s, w)
    <3>1. /\ k \in DOMAIN updates /\ k = replaced /\ k # i
          /\ updates[k].reversed = FALSE /\ SameSlot(k, i)
      BY <1>3, <1>5, <2>1, UpdateRow DEF TypeOK
    <3> QED BY <1>1, <1>2, <3>1 DEF Live, SameSlot
  <2>2. ASSUME NEW k \in Live(updates', s, w) PROVE k \in ReplacedBy(i)
    <3>1. /\ k \in DOMAIN updates /\ k # i /\ ~updates[k].reversed
          /\ updates[k].student = s /\ updates[k].week = w
          /\ (k = replaced \/ updates[k].supersededBy = 0)
      BY <1>1, <1>2, <2>2 DEF Live
    <3>2. k = replaced
      BY <1>4, <3>1 DEF Live
    <3>3. replaced # 0
      BY <3>1, <3>2, TableRows DEF TypeOK
    <3> QED BY <1>2, <3>2, <3>3, AnyOfRows
  <2> QED BY <2>1, <2>2
<1> QED BY <1>1, <1>6, LastOfChain

\* Reversing an edit brings back exactly the value it had replaced.
THEOREM ReversalRestoresAlways == Spec => ReversalRestores
<1> DEFINE Restored(i) ==
       ~updates[i].reversed /\ updates'[i].reversed =>
          LET s == updates[i].student
              w == updates[i].week
              earlier == {k \in 1..(i - 1) : SameSlot(k, i) /\ ~updates[k].reversed}
          IN  Live(updates', s, w) = IF earlier = {} THEN {} ELSE {Newest(earlier)}
<1>1. TypeOK /\ EditChain /\ [Next]_vars => [\A i \in DOMAIN updates : Restored(i)]_vars
  <2> SUFFICES ASSUME TypeOK, EditChain, Next, NEW i \in DOMAIN updates,
                      ~updates[i].reversed, updates'[i].reversed
               PROVE  Live(updates', updates[i].student, updates[i].week)
                         = IF Earlier(i) = {} THEN {} ELSE {Newest(Earlier(i))}
    BY DEF Earlier
  <2>1. ASSUME NEW s \in Students, NEW w \in Weeks, NEW h \in Hours, SaveWeeklyUpdate(s, w, h)
        PROVE  FALSE
    BY <2>1, SetRow
  <2>2. ASSUME NEW k \in DOMAIN updates, ReverseWeeklyUpdate(k)
        PROVE  k = i
    BY <2>2, ReversedRow
  <2>3. CASE UNCHANGED updates
    BY <2>3
  <2> QED BY <2>1, <2>2, <2>3, LiveAfterReversal
          DEF Next, SaveBaseline, ApproveBaseline, RejectBaseline
<1> QED BY <1>1, TypeCorrect, EditChainAlways, PTL DEF Spec, ReversalRestores

----------------------------------------------------------------------------
(* The ledger's view of the tables *)

\* An edit as the ledger keeps it.
Entered(table, k) == [number |-> k, hours |-> table[k].hours]

\* The edits in force of a week.
EditsOf(table, s, w) == {Entered(table, k) : k \in Unreversed(table, s, w)}

\* A submission as the ledger keeps it.
Submitted(i) == [number |-> i, student |-> baselines[i].student, hours |-> baselines[i].hours]

\* The unreversed rows of a week are rows of the table.
LEMMA UnreversedRows ==
    ASSUME TypeOK, NEW s \in Students, NEW w \in Weeks
    PROVE  /\ Unreversed(updates, s, w) \in SUBSET (1..Len(updates))
           /\ Unreversed(updates, s, w) \subseteq DOMAIN updates
           /\ Len(updates) \in Nat
           /\ Unreversed(updates, s, w) # {} =>
                 /\ Newest(Unreversed(updates, s, w)) \in Unreversed(updates, s, w)
                 /\ \A k \in Unreversed(updates, s, w) : k <= Newest(Unreversed(updates, s, w))
<1>1. /\ Unreversed(updates, s, w) \in SUBSET (1..Len(updates)) /\ Len(updates) \in Nat
      /\ Unreversed(updates, s, w) \subseteq DOMAIN updates
  BY TableRows DEF Unreversed, TypeOK
<1> QED BY <1>1, NewestRow

\* On top of a week's stack is its newest unreversed row.
LEMMA TopEdit ==
    ASSUME TypeOK, NEW s \in Students, NEW w \in Weeks, Unreversed(updates, s, w) # {}
    PROVE  Ledger!Top(EditsOf(updates, s, w)) = Entered(updates, Newest(Unreversed(updates, s, w)))
<1> DEFINE rows == Unreversed(updates, s, w)
           n == Newest(rows)
<1>1. n \in rows /\ (\A k \in rows : k \in Nat /\ k <= n)
  BY UnreversedRows
<1>2. /\ Entered(updates, n) \in EditsOf(updates, s, w)
      /\ \A other \in EditsOf(updates, s, w) : other.number <= Entered(updates, n).number
  BY <1>1 DEF EditsOf, Entered
<1>3. ASSUME NEW e \in EditsOf(updates, s, w),
             \A other \in EditsOf(updates, s, w) : other.number <= e.number
      PROVE  e = Entered(updates, n)
  <2>1. PICK k \in rows : e = Entered(updates, k)
    BY DEF EditsOf
  <2>2. n <= k
    BY <1>2, <1>3, <2>1 DEF Entered
  <2>3. k = n
    BY <1>1, <2>2
  <2> QED BY <2>1, <2>3
<1> HIDE DEF n, rows
<1> QED BY <1>2, <1>3 DEF Ledger!Top, n, rows

\* On a chain, the newest unreversed row of a week is its live row.
LEMMA LiveIsNewest ==
    ASSUME TypeOK, EditChain, NEW s \in Students, NEW w \in Weeks
    PROVE  Live(updates, s, w) = IF Unreversed(updates, s, w) = {} THEN {}
                                 ELSE {Newest(Unreversed(updates, s, w))}
<1>1. Live(updates, s, w) \subseteq Unreversed(updates, s, w)
  BY DEF Live, Unreversed
<1>2. CASE Unreversed(updates, s, w) # {}
  <2> DEFINE n == Newest(Unreversed(updates, s, w))
  <2>1. /\ n \in Unreversed(updates, s, w)
        /\ \A k \in Unreversed(updates, s, w) : k \in Nat /\ k <= n
    BY <1>2, UnreversedRows
  <2> HIDE DEF n
  <2>2. n \in DOMAIN updates /\ ~updates[n].reversed /\ updates[n].student = s /\ updates[n].week = w
    BY <2>1 DEF Unreversed
  <2>3. Linked(n)
    BY <2>2 DEF EditChain
  <2>4. updates[n].supersededBy # 0 => updates[n].supersededBy \in Unreversed(updates, s, w)
    BY <2>2, <2>3 DEF Linked, SameSlot, Unreversed
  <2>5. updates[n].supersededBy = 0
    BY <2>1, <2>2, <2>3, <2>4 DEF Linked
  <2>6. n \in Live(updates, s, w)
    BY <2>2, <2>5 DEF Live
  <2>7. Live(updates, s, w) = {n}
    BY <2>6, ChainEnds
  <2> QED BY <1>2, <2>7 DEF n
<1> QED BY <1>1, <1>2

\* The hours found through the tables' columns are those of the ledger.
LEMMA HoursAgree ==
    ASSUME TypeOK, EditChain, NEW s \in Students, NEW w \in Weeks
    PROVE  HoursInEffect(s, w).hours = Ledger!HoursInForce(s, w)
<1> DEFINE rows == Unreversed(updates, s, w)
           row == baselines[Newest(Approved(baselines, s))]
<1>0. EditsInForce[s][w] = EditsOf(updates, s, w) /\ w \in Nat \ {0}
  BY ConstantsOK DEF EditsInForce, EditsOf, Entered, Weeks, ConstantsOK
<1>1. CASE Approved(baselines, s) = {}
  <2>1. Active[s] = Ledger!NoBaseline
    BY <1>1 DEF Active, Ledger!NoBaseline
  <2> QED BY <1>1, <2>1 DEF HoursInEffect, ResolveHours, Ledger!HoursInForce
<1>2. CASE Approved(baselines, s) # {}
  <2>1. Active[s] = [hours |-> row.hours, from |-> FirstWeek(row)]
    BY <1>2 DEF Active
  <2>2. row.effectiveFrom \in 0..NumWeeks
    BY <1>2, ApprovedRows, BaselineRow DEF Approved, TypeOK
  <2>3. FirstWeek(row) # 0
    BY <2>2 DEF FirstWeek
  <2> HIDE DEF row
  <2>4. Active[s] # Ledger!NoBaseline /\ Active[s].from = FirstWeek(row) /\ Active[s].hours = row.hours
    BY <2>1, <2>3 DEF Ledger!NoBaseline
  <2>5. CASE rows = {}
    <3>1. EditsOf(updates, s, w) = {} /\ Live(updates, s, w) = {}
      BY <2>5, LiveIsNewest DEF EditsOf
    <3>2. Ledger!HoursInForce(s, w) = IF w >= FirstWeek(row) THEN row.hours ELSE ZeroHours
      BY <1>0, <2>4, <3>1 DEF Ledger!HoursInForce
    <3>3. HoursInEffect(s, w).hours = IF w >= FirstWeek(row) THEN row.hours ELSE ZeroHours
      BY <1>2, <3>1 DEF HoursInEffect, ResolveHours, FirstWeek, row
    <3> QED BY <3>2, <3>3
  <2>6. CASE rows # {}
    <3>1. Live(updates, s, w) = {Newest(rows)}
      BY <2>6, LiveIsNewest
    <3>2. Earliest(Live(updates, s, w)) = Newest(rows)
      BY <3>1, UnreversedRows, <2>6 DEF Earliest
    <3>3. HoursInEffect(s, w).hours = updates[Newest(rows)].hours
      BY <1>2, <3>1, <3>2 DEF HoursInEffect, ResolveHours
    <3>4. EditsOf(updates, s, w) # {} /\ Ledger!Top(EditsOf(updates, s, w)).hours = updates[Newest(rows)].hours
      <4>1. EditsOf(updates, s, w) # {}
        BY <2>6 DEF EditsOf
      <4>2. Ledger!Top(EditsOf(updates, s, w)) = Entered(updates, Newest(rows))
        BY <2>6, TopEdit
      <4> QED BY <4>1, <4>2 DEF Entered
    <3> QED BY <1>0, <2>4, <3>3, <3>4 DEF Ledger!HoursInForce
  <2> QED BY <2>5, <2>6
<1> QED BY <1>1, <1>2

\* Whatever clients do, scores use the hours the ledger has in force.
THEOREM HoursAgreeAlways == Spec => []HoursAgreeWithLedger
<1>1. TypeOK /\ EditChain => HoursAgreeWithLedger
  BY HoursAgree DEF HoursAgreeWithLedger
<1> QED BY <1>1, TypeCorrect, EditChainAlways, PTL

----------------------------------------------------------------------------
(* Every step of the tables is a step of the ledger *)

\* The active baselines move only with the approved rows.
LEMMA SameActive ==
    ASSUME TypeOK,
           \A t \in Students : /\ Approved(baselines', t) = Approved(baselines, t)
                               /\ \A j \in Approved(baselines, t) : baselines'[j] = baselines[j]
    PROVE  Active' = Active
<1>1. ASSUME NEW t \in Students PROVE Active'[t] = Active[t]
  <2>1. Approved(baselines, t) # {}
        => baselines'[Newest(Approved(baselines, t))] = baselines[Newest(Approved(baselines, t))]
    BY ApprovedRows
  <2> QED BY <2>1 DEF Active, FirstWeek
<1> QED BY <1>1 DEF Active

\* A submission waits, and nothing else changes.
LEMMA SubmitStep ==
    ASSUME TypeOK, NEW s \in Students, NEW h \in Hours, SaveBaseline(s, h)
    PROVE  Ledger!Submit(s, h)
<1>1. /\ Len(baselines) \in Nat
      /\ DOMAIN baselines = 1..Len(baselines)
      /\ DOMAIN baselines' = 1..(Len(baselines) + 1)
      /\ baselines'[Len(baselines) + 1].status = "pending"
      /\ \A j \in DOMAIN baselines : baselines'[j] = baselines[j]
  BY SubmittedRow
<1>2. /\ Len(baselines') = Len(baselines) + 1
      /\ baselines'[Len(baselines) + 1].student = s
      /\ baselines'[Len(baselines) + 1].hours = h
  BY <1>1 DEF SaveBaseline, TypeOK
<1>3. {j \in DOMAIN baselines' : baselines'[j].status = "pending"}
        = {j \in DOMAIN baselines : baselines[j].status = "pending"} \cup {Len(baselines) + 1}
  <2>1. DOMAIN baselines' = DOMAIN baselines \cup {Len(baselines) + 1}
    BY <1>1
  <2> QED BY <1>1, <2>1
<1>4. Waiting' = Waiting \cup {[number |-> Len(baselines'), student |-> s, hours |-> h]}
  BY <1>1, <1>2, <1>3 DEF Waiting
<1>5. Active' = Active
  BY SubmittedApproved, SameActive
<1>6. EditsInForce' = EditsInForce
  BY DEF SaveBaseline, EditsInForce
<1> QED BY <1>2, <1>4, <1>5, <1>6 DEF Ledger!Submit

\* The pending rows of a table in which row i has been decided.
LEMMA DecidedWaiting ==
    ASSUME TypeOK, NEW i \in DOMAIN baselines,
           baselines[i].status = "pending",
           DOMAIN baselines' = DOMAIN baselines,
           baselines'[i].status # "pending",
           \A j \in DOMAIN baselines \ {i} :
              (baselines[j].status = "pending" \/ baselines'[j].status = "pending")
              => baselines'[j] = baselines[j]
    PROVE  /\ Submitted(i) \in Waiting
           /\ Waiting' = Waiting \ {Submitted(i)}
<1>1. Submitted(i) \in Waiting
  BY DEF Waiting, Submitted
<1>2. Waiting = {Submitted(j) : j \in {k \in DOMAIN baselines : baselines[k].status = "pending"}}
  BY DEF Waiting, Submitted
<1>3. Waiting' = {Submitted(j) : j \in {k \in DOMAIN baselines \ {i} : baselines[k].status = "pending"}}
  BY DEF Waiting, Submitted
<1>4. \A j \in DOMAIN baselines : j # i => Submitted(j) # Submitted(i)
  BY DEF Submitted
<1> QED BY <1>1, <1>2, <1>3, <1>4

\* An approval takes a submission off the queue and makes it count.
LEMMA ApproveStep ==
    ASSUME TypeOK, NEW i \in DOMAIN baselines, NEW from \in Weeks, ApproveBaseline(i, from)
    PROVE  \E request \in Waiting : Ledger!Approve(request, from)
<1> DEFINE s == baselines[i].student
<1>1. /\ DOMAIN baselines' = DOMAIN baselines
      /\ baselines[i].status = "pending"
      /\ baselines'[i].status = "approved"
      /\ \A j \in DOMAIN baselines :
            j # i => baselines'[j] = IF j \in Approved(baselines, s)
                                     THEN [baselines[j] EXCEPT !.status = "superseded"]
                                     ELSE baselines[j]
      /\ \A j \in Approved(baselines, s) : baselines'[j].status = "superseded"
  BY ApprovedRow
<1>2. \A j \in DOMAIN baselines \ {i} :
         (baselines[j].status = "pending" \/ baselines'[j].status = "pending")
         => baselines'[j] = baselines[j]
  BY <1>1 DEF Approved
<1>3. Submitted(i) \in Waiting /\ Waiting' = Waiting \ {Submitted(i)}
  BY <1>1, <1>2, DecidedWaiting
<1>4. Len(baselines') = Len(baselines)
  <2>1. /\ DOMAIN baselines = 1..Len(baselines) /\ Len(baselines) \in Nat
        /\ baselines' = [j \in 1..Len(baselines) |-> baselines'[j]]
    BY TableRows DEF ApproveBaseline, TypeOK
  <2> QED BY <2>1
<1>5. /\ Approved(baselines', s) = {i}
      /\ baselines'[i].hours = baselines[i].hours
      /\ baselines'[i].effectiveFrom = from
      /\ \A t \in Students \ {s} :
            /\ Approved(baselines', t) = Approved(baselines, t)
            /\ \A j \in Approved(baselines, t) : baselines'[j] = baselines[j]
  BY ApprovedApproved
<1>6. from # 0 /\ s \in Students
  BY BaselineRow, ConstantsOK DEF Weeks, ConstantsOK, TypeOK
<1>7. Active' = [Active EXCEPT ![s] = [hours |-> baselines[i].hours, from |-> from]]
  <2>1. ASSUME NEW t \in Students, t # s PROVE Active'[t] = Active[t]
    <3>1. Approved(baselines, t) # {}
          => baselines'[Newest(Approved(baselines, t))] = baselines[Newest(Approved(baselines, t))]
      BY <1>5, <2>1, ApprovedRows
    <3>2. Approved(baselines', t) = Approved(baselines, t)
      BY <1>5, <2>1
    <3> QED BY <3>1, <3>2 DEF Active, FirstWeek
  <2>2. Active'[s] = [hours |-> baselines[i].hours, from |-> from]
    <3>1. Newest(Approved(baselines', s)) = i
      BY <1>5 DEF Newest
    <3>2. FirstWeek(baselines'[i]) = from
      BY <1>5, <1>6 DEF FirstWeek
    <3>3. Approved(baselines', s) # {}
      BY <1>5
    <3>4. Active'[s] = LET row == baselines'[Newest(Approved(baselines', s))]
                       IN  [hours |-> row.hours, from |-> FirstWeek(row)]
      BY <1>6, <3>3 DEF Active, FirstWeek
    <3> QED BY <1>5, <3>1, <3>2, <3>4
  <2>3. /\ Active = [t \in Students |-> Active[t]]
        /\ Active' = [t \in Students |-> Active'[t]]
    BY DEF Active
  <2> QED BY <2>1, <2>2, <2>3, <1>6
<1>8. EditsInForce' = EditsInForce
  BY DEF ApproveBaseline, EditsInForce
<1>9. Ledger!Approve(Submitted(i), from)
  BY <1>3, <1>4, <1>7, <1>8 DEF Ledger!Approve, Submitted
<1> QED BY <1>3, <1>9

\* A rejection takes a submission off the queue.
LEMMA RejectStep ==
    ASSUME TypeOK, NEW i \in DOMAIN baselines, RejectBaseline(i)
    PROVE  \E request \in Waiting : Ledger!Reject(request)
<1>1. /\ DOMAIN baselines' = DOMAIN baselines
      /\ baselines[i].status = "pending"
      /\ baselines'[i].status = "rejected"
      /\ \A j \in DOMAIN baselines \ {i} : baselines'[j] = baselines[j]
  BY RejectedRow
<1>2. Submitted(i) \in Waiting /\ Waiting' = Waiting \ {Submitted(i)}
  BY <1>1, DecidedWaiting
<1>3. Len(baselines') = Len(baselines)
  BY DEF RejectBaseline, TypeOK
<1>4. Active' = Active
  BY RejectedApproved, SameActive
<1>5. EditsInForce' = EditsInForce
  BY DEF RejectBaseline, EditsInForce
<1> QED BY <1>2, <1>3, <1>4, <1>5 DEF Ledger!Reject

\* An edit goes on top of its week.
LEMMA EditStep ==
    ASSUME TypeOK, NEW s \in Students, NEW w \in Weeks, NEW h \in Hours, SaveWeeklyUpdate(s, w, h)
    PROVE  \E number \in 1..MaxUpdates : Ledger!Edit(s, w, number, h)
<1> DEFINE id == Len(updates) + 1
<1>1. PICK current \in AnyOf(Live(updates, s, w)) :
         updates' = [k \in 1..id |->
            IF k = id
            THEN [student |-> s, week |-> w, hours |-> h, reversed |-> FALSE, supersededBy |-> 0]
            ELSE IF k = current THEN [updates[k] EXCEPT !.supersededBy = id]
            ELSE updates[k]]
  BY DEF SaveWeeklyUpdate, NextId
<1>2. /\ Len(updates) \in Nat
      /\ DOMAIN updates = 1..Len(updates)
      /\ DOMAIN updates' = 1..id
      /\ \A k \in DOMAIN updates : k # id /\ k < id
      /\ DOMAIN updates' = DOMAIN updates \cup {id}
  <2>1. Len(updates) \in Nat /\ DOMAIN updates = 1..Len(updates)
    BY TableRows DEF TypeOK
  <2>2. DOMAIN updates' = 1..id
    BY <1>1
  <2> QED BY <2>1, <2>2
<1>3. updates'[id] = [student |-> s, week |-> w, hours |-> h, reversed |-> FALSE, supersededBy |-> 0]
  BY <1>1, <1>2
<1>4. ASSUME NEW k \in DOMAIN updates
      PROVE  /\ updates'[k].student = updates[k].student
             /\ updates'[k].week = updates[k].week
             /\ updates'[k].reversed = updates[k].reversed
             /\ updates'[k].hours = updates[k].hours
  <2>1. updates'[k] = IF k = current THEN [updates[k] EXCEPT !.supersededBy = id] ELSE updates[k]
    BY <1>1, <1>2
  <2>2. updates[k] \in Update
    BY TableRows DEF TypeOK
  <2> QED BY <2>1, <2>2 DEF Update
<1> HIDE DEF id
<1>5. ASSUME NEW t \in Students, NEW v \in Weeks
      PROVE  EditsOf(updates', t, v) =
                IF t = s /\ v = w THEN EditsOf(updates, t, v) \cup {[number |-> id, hours |-> h]}
                ELSE EditsOf(updates, t, v)
  <2>1. Unreversed(updates', t, v) =
           IF t = s /\ v = w THEN Unreversed(updates, t, v) \cup {id} ELSE Unreversed(updates, t, v)
    <3>1. /\ updates'[id].student = s /\ updates'[id].week = w /\ ~updates'[id].reversed
          /\ id \in DOMAIN updates'
      <4>1. updates'[id].student = s /\ updates'[id].week = w /\ updates'[id].reversed = FALSE
        BY <1>3
      <4>2. id \in DOMAIN updates'
        BY <1>2, Zenon
      <4> QED BY <4>1, <4>2
    <3>2. CASE t = s /\ v = w
      BY <1>2, <1>4, <3>1, <3>2 DEF Unreversed
    <3>3. CASE ~(t = s /\ v = w)
      BY <1>2, <1>4, <3>1, <3>3 DEF Unreversed
    <3> QED BY <3>2, <3>3
  <2>2. \A k \in Unreversed(updates, t, v) : Entered(updates', k) = Entered(updates, k)
    BY <1>4 DEF Unreversed, Entered
  <2>3. Entered(updates', id) = [number |-> id, hours |-> h]
    BY <1>3 DEF Entered
  <2> QED BY <2>1, <2>2, <2>3 DEF EditsOf
<1>6. /\ EditsInForce = [t \in Students |-> [v \in Weeks |-> EditsOf(updates, t, v)]]
      /\ EditsInForce' = [t \in Students |-> [v \in Weeks |-> EditsOf(updates', t, v)]]
  BY DEF EditsInForce, EditsOf, Entered
<1>7. EditsInForce' = [EditsInForce EXCEPT ![s][w] = @ \cup {[number |-> id, hours |-> h]}]
  BY <1>5, <1>6
<1>8. \A e \in EditsInForce[s][w] : e.number < id
  BY <1>2, <1>6 DEF EditsOf, Entered, Unreversed
<1>9. id \in 1..MaxUpdates
  <2>1. id <= MaxUpdates
    BY DEF SaveWeeklyUpdate, NextId, id
  <2> QED BY <1>2, <2>1, ConstantsOK DEF id, ConstantsOK
<1>10. Len(baselines') = Len(baselines) /\ Waiting' = Waiting /\ Active' = Active
  <2>1. baselines' = baselines
    BY DEF SaveWeeklyUpdate
  <2> QED BY <2>1 DEF Waiting, Active, FirstWeek, Approved
<1>11. Ledger!Edit(s, w, id, h)
  BY <1>7, <1>8, <1>10 DEF Ledger!Edit
<1> QED BY <1>9, <1>11

\* A reversal takes the top edit off its week.
LEMMA UndoStep ==
    ASSUME TypeOK, EditChain, NEW i \in DOMAIN updates, ReverseWeeklyUpdate(i)
    PROVE  \E s \in Students, w \in Weeks : Ledger!Undo(s, w)
<1> DEFINE s == updates[i].student
           w == updates[i].week
<1>0. s \in Students /\ w \in Weeks
  BY UpdateRow DEF TypeOK
<1>1. PICK replaced \in AnyOf(ReplacedBy(i)) :
         updates' = [k \in DOMAIN updates |->
            IF k = i THEN [updates[k] EXCEPT !.reversed = TRUE]
            ELSE IF k = replaced THEN [updates[k] EXCEPT !.supersededBy = 0]
            ELSE updates[k]]
  BY DEF ReverseWeeklyUpdate
<1>2. /\ DOMAIN updates' = DOMAIN updates
      /\ ~updates[i].reversed
      /\ updates[i].supersededBy = 0
  BY ReversedRow
<1>3. ASSUME NEW k \in DOMAIN updates
      PROVE  /\ updates'[k].student = updates[k].student
             /\ updates'[k].week = updates[k].week
             /\ updates'[k].reversed = (k = i \/ updates[k].reversed)
             /\ updates'[k].hours = updates[k].hours
  <2>1. updates[k] \in Update
    BY TableRows DEF TypeOK
  <2>2. CASE k = i
    BY <1>1, <2>1, <2>2 DEF Update
  <2>3. CASE k # i
    BY <1>1, <2>1, <2>3 DEF Update
  <2> QED BY <2>2, <2>3
<1>4. i \in Live(updates, s, w) /\ i \in Unreversed(updates, s, w)
  BY <1>2 DEF Live, Unreversed
<1>5. i = Newest(Unreversed(updates, s, w)) /\ Unreversed(updates, s, w) # {}
  BY <1>0, <1>4, LiveIsNewest
<1>6. Ledger!Top(EditsOf(updates, s, w)) = Entered(updates, i)
  BY <1>0, <1>5, TopEdit
<1>7. ASSUME NEW t \in Students, NEW v \in Weeks
      PROVE  EditsOf(updates', t, v) =
                IF t = s /\ v = w THEN EditsOf(updates, t, v) \ {Entered(updates, i)}
                ELSE EditsOf(updates, t, v)
  <2>1. Unreversed(updates', t, v) = Unreversed(updates, t, v) \ {i}
    BY <1>2, <1>3 DEF Unreversed
  <2>2. \A k \in Unreversed(updates, t, v) : Entered(updates', k) = Entered(updates, k)
    BY <1>3 DEF Unreversed, Entered
  <2>3. \A k \in Unreversed(updates, t, v) : k # i => Entered(updates, k) # Entered(updates, i)
    BY DEF Entered
  <2>4. ~(t = s /\ v = w) => i \notin Unreversed(updates, t, v)
    BY DEF Unreversed
  <2> QED BY <2>1, <2>2, <2>3, <2>4 DEF EditsOf
<1>8. /\ EditsInForce = [t \in Students |-> [v \in Weeks |-> EditsOf(updates, t, v)]]
      /\ EditsInForce' = [t \in Students |-> [v \in Weeks |-> EditsOf(updates', t, v)]]
  BY DEF EditsInForce, EditsOf, Entered
<1> HIDE DEF s, w
<1>9. EditsInForce' = [EditsInForce EXCEPT ![s][w] = @ \ {Entered(updates, i)}]
  BY <1>0, <1>7, <1>8
<1>10. EditsInForce[s][w] = EditsOf(updates, s, w) /\ EditsOf(updates, s, w) # {}
  BY <1>0, <1>4, <1>8 DEF EditsOf
<1>11. Len(baselines') = Len(baselines) /\ Waiting' = Waiting /\ Active' = Active
  <2>1. baselines' = baselines
    BY DEF ReverseWeeklyUpdate
  <2> QED BY <2>1 DEF Waiting, Active, FirstWeek, Approved
<1>12. Ledger!Undo(s, w)
  BY <1>6, <1>9, <1>10, <1>11 DEF Ledger!Undo
<1> QED BY <1>0, <1>12

\* The tables, with their status columns and pointers, implement the ledger: every step
\* of a store operation is a step of the ledger.
THEOREM TablesImplementLedger == Spec => ImplementsLedger
<1>1. TypeOK /\ EditChain /\ [Next]_vars => [Ledger!Next]_(Ledger!vars)
  <2> SUFFICES ASSUME TypeOK, EditChain, [Next]_vars
               PROVE  Ledger!Next \/ UNCHANGED Ledger!vars
    OBVIOUS
  <2>1. ASSUME NEW s \in Students, NEW h \in Hours, SaveBaseline(s, h)
        PROVE  Ledger!Next
    BY <2>1, SubmitStep DEF Ledger!Next
  <2>2. ASSUME NEW i \in DOMAIN baselines, NEW from \in Weeks, ApproveBaseline(i, from)
        PROVE  Ledger!Next
    BY <2>2, ApproveStep DEF Ledger!Next, Ledger!Weeks, Weeks
  <2>3. ASSUME NEW i \in DOMAIN baselines, RejectBaseline(i)
        PROVE  Ledger!Next
    BY <2>3, RejectStep DEF Ledger!Next
  <2>4. ASSUME NEW s \in Students, NEW w \in Weeks, NEW h \in Hours, SaveWeeklyUpdate(s, w, h)
        PROVE  Ledger!Next
    BY <2>4, EditStep DEF Ledger!Next, Ledger!Weeks, Weeks
  <2>5. ASSUME NEW i \in DOMAIN updates, ReverseWeeklyUpdate(i)
        PROVE  Ledger!Next
    BY <2>5, UndoStep DEF Ledger!Next, Ledger!Weeks, Weeks
  <2>6. CASE UNCHANGED vars
    BY <2>6 DEF vars, Ledger!vars, Waiting, Active, FirstWeek, Approved, EditsInForce
  <2> QED BY <2>1, <2>2, <2>3, <2>4, <2>5, <2>6 DEF Next
<1> QED BY <1>1, TypeCorrect, EditChainAlways, PTL DEF Spec, ImplementsLedger, Ledger!Spec

----------------------------------------------------------------------------
(* The change log *)

\* The hours of a week depend on its live row and the approved rows only.
LEMMA SameWeek ==
    ASSUME TypeOK, NEW s \in Students, NEW w \in Weeks, baselines' = baselines,
           Live(updates', s, w) = Live(updates, s, w),
           \A k \in Live(updates, s, w) : updates'[k].hours = updates[k].hours
    PROVE  HoursInEffectNext(s, w) = HoursInEffect(s, w)
<1>1. Live(updates, s, w) # {} => Earliest(Live(updates, s, w)) \in Live(updates, s, w)
  <2>1. Live(updates, s, w) \in SUBSET Nat
    BY TableRows DEF Live, TypeOK
  <2> QED BY <2>1, EarliestRow
<1> QED BY <1>1 DEF HoursInEffectNext, HoursInEffect, ResolveHours

\* An edit is the live row of its week, and leaves other weeks alone.
LEMMA LiveAfterEdit ==
    ASSUME TypeOK, EditChain, NEW s \in Students, NEW w \in Weeks, NEW h \in Hours,
           SaveWeeklyUpdate(s, w, h)
    PROVE  /\ Live(updates', s, w) = {Len(updates) + 1}
           /\ updates'[Len(updates) + 1].hours = h
           /\ \A t \in Students, v \in Weeks :
                 t # s \/ v # w =>
                    /\ Live(updates', t, v) = Live(updates, t, v)
                    /\ \A k \in Live(updates, t, v) : updates'[k].hours = updates[k].hours
<1> DEFINE id == Len(updates) + 1
<1>1. PICK current \in AnyOf(Live(updates, s, w)) :
         updates' = [k \in 1..id |->
            IF k = id
            THEN [student |-> s, week |-> w, hours |-> h, reversed |-> FALSE, supersededBy |-> 0]
            ELSE IF k = current THEN [updates[k] EXCEPT !.supersededBy = id]
            ELSE updates[k]]
  BY DEF SaveWeeklyUpdate, NextId
<1>2. /\ id \in Nat \ {0}
      /\ DOMAIN updates' = DOMAIN updates \cup {id}
      /\ \A k \in DOMAIN updates : k # id /\ k # 0
  <2>1. Len(updates) \in Nat /\ DOMAIN updates = 1..Len(updates)
    BY TableRows DEF TypeOK
  <2>2. DOMAIN updates' = 1..id
    BY <1>1
  <2> QED BY <2>1, <2>2
<1>3. updates'[id] = [student |-> s, week |-> w, hours |-> h, reversed |-> FALSE, supersededBy |-> 0]
  BY <1>1, <1>2
<1>4. ASSUME NEW k \in DOMAIN updates
      PROVE  /\ updates'[k].student = updates[k].student
             /\ updates'[k].week = updates[k].week
             /\ updates'[k].reversed = updates[k].reversed
             /\ updates'[k].hours = updates[k].hours
             /\ updates'[k].supersededBy = IF k = current THEN id ELSE updates[k].supersededBy
  <2>1. updates'[k] = IF k = current THEN [updates[k] EXCEPT !.supersededBy = id] ELSE updates[k]
    <3>1. k \in 1..id
      BY TableRows DEF TypeOK
    <3> QED BY <1>1, <1>2, <3>1
  <2>2. updates[k] \in Update
    BY TableRows DEF TypeOK
  <2> QED BY <2>1, <2>2 DEF Update
<1> HIDE DEF id
<1>5. /\ updates'[id].student = s /\ updates'[id].week = w /\ updates'[id].hours = h
      /\ updates'[id].reversed = FALSE /\ updates'[id].supersededBy = 0
  BY <1>3
<1>6. id \in DOMAIN updates' /\ id # 0
  BY <1>2, Zenon
<1>7. \A k \in Live(updates, s, w) : k = current
  BY <1>1, ChainEnds, AnyOfRows
<1>8. Live(updates', s, w) = {id}
  <2>1. id \in Live(updates', s, w)
    BY <1>5, <1>6 DEF Live
  <2>2. ASSUME NEW k \in Live(updates', s, w), k # id PROVE FALSE
    <3>1. k \in DOMAIN updates
      BY <1>2, <2>2 DEF Live
    <3>2. k \in Live(updates, s, w) \/ k = current
      BY <1>4, <2>2, <3>1 DEF Live
    <3>3. updates'[k].supersededBy = id
      BY <1>4, <1>7, <3>1, <3>2
    <3> QED BY <1>6, <2>2, <3>3 DEF Live
  <2> QED BY <2>1, <2>2
<1>9. ASSUME NEW t \in Students, NEW v \in Weeks, t # s \/ v # w
      PROVE  /\ Live(updates', t, v) = Live(updates, t, v)
             /\ \A k \in Live(updates, t, v) : updates'[k].hours = updates[k].hours
  <2>1. \A k \in DOMAIN updates : updates[k].student = t /\ updates[k].week = v => k # current
    <3>1. current = 0 \/ (updates[current].student = s /\ updates[current].week = w)
      BY <1>1, AnyOfRows DEF Live
    <3> QED BY <1>2, <1>9, <3>1
  <2>2. Live(updates', t, v) = Live(updates, t, v)
    BY <1>2, <1>4, <1>5, <1>9, <2>1 DEF Live
  <2> QED BY <1>4, <2>2 DEF Live
<1> QED BY <1>5, <1>8, <1>9 DEF id

\* A reversal leaves other weeks alone.
LEMMA OthersAfterReversal ==
    ASSUME TypeOK, EditChain, NEW i \in DOMAIN updates, ReverseWeeklyUpdate(i),
           NEW t \in Students, NEW v \in Weeks,
           t # updates[i].student \/ v # updates[i].week
    PROVE  /\ Live(updates', t, v) = Live(updates, t, v)
           /\ \A k \in Live(updates, t, v) : updates'[k].hours = updates[k].hours
<1>1. PICK replaced \in AnyOf(ReplacedBy(i)) :
         updates' = [k \in DOMAIN updates |->
            IF k = i THEN [updates[k] EXCEPT !.reversed = TRUE]
            ELSE IF k = replaced THEN [updates[k] EXCEPT !.supersededBy = 0]
            ELSE updates[k]]
  BY DEF ReverseWeeklyUpdate
<1>2. replaced = 0 \/ SameSlot(replaced, i)
  <2>1. replaced # 0 => replaced \in DOMAIN updates /\ updates[replaced].supersededBy = i
    BY <1>1, AnyOfRows DEF ReplacedBy
  <2>2. i # 0
    BY TableRows DEF TypeOK
  <2> QED BY <2>1, <2>2 DEF EditChain, Linked
<1>3. \A k \in DOMAIN updates : updates[k].student = t /\ updates[k].week = v => updates'[k] = updates[k]
  <2>1. \A k \in DOMAIN updates : k # 0
    BY TableRows DEF TypeOK
  <2> QED BY <1>1, <1>2, <2>1 DEF SameSlot
<1>4. \A k \in DOMAIN updates : /\ updates'[k].student = updates[k].student
                                /\ updates'[k].week = updates[k].week
  BY ReversedRow
<1>5. DOMAIN updates' = DOMAIN updates
  BY ReversedRow
<1> QED BY <1>3, <1>4, <1>5 DEF Live

\* The step has added one entry.
OneEntry(entry) ==
    /\ Len(changeLog') = Len(changeLog) + 1
    /\ SubSeq(changeLog', 1, Len(changeLog)) = changeLog
    /\ changeLog'[Len(changeLog')] = entry

\* Staging an entry adds that entry and no other.
LEMMA LoggedOnce ==
    ASSUME TypeOK, NEW action, NEW s, NEW w, NEW old, NEW new, NEW from,
           AddLog(action, s, w, old, new, from)
    PROVE  OneEntry([action |-> action, student |-> s, week |-> w, old |-> old, new |-> new, from |-> from])
  BY DEF AddLog, OneEntry, TypeOK

\* What ChangesAreLogged says of a student's week, with the entry the step has added.
Explains(entry, s, w) ==
    LET before == HoursInEffect(s, w)
        after == HoursInEffectNext(s, w)
    IN  /\ entry.student = s
        /\ \/ /\ entry.action \in {"weekly.set", "weekly.reverse"}
              /\ entry.week = w
              /\ Counted(entry.old) = before.hours
              /\ entry.new = after.hours
           \/ /\ entry.action = "baseline.approve"
              /\ IF after.source = "weekly" THEN before.source = "none"
                 ELSE after.hours = IF w >= entry.from THEN entry.new ELSE ZeroHours

Accounted(s, w) ==
    HoursInEffect(s, w).hours # HoursInEffectNext(s, w).hours =>
       \E entry : OneEntry(entry) /\ Explains(entry, s, w)

\* Hours with a source other than an edit or the baseline are zero, and hours are
\* never the empty column.
LEMMA CountedHours ==
    ASSUME TypeOK, NEW s \in Students, NEW w \in Weeks
    PROVE  LET before == HoursInEffect(s, w) IN
           Counted(IF before.source \in {"baseline", "weekly"} THEN before.hours ELSE NoValues)
              = before.hours
<1> DEFINE before == HoursInEffect(s, w)
<1>1. before.hours \in Hours
  BY ResolvedHours DEF HoursInEffect, TypeOK
<1>2. before.source \notin {"baseline", "weekly"} => before.hours = ZeroHours
  BY DEF HoursInEffect, ResolveHours
<1> HIDE DEF before
<1>3. Counted(IF before.source \in {"baseline", "weekly"} THEN before.hours ELSE NoValues) = before.hours
  BY <1>1, <1>2, ConstantsOK DEF Counted, ConstantsOK
<1> QED BY <1>3 DEF before

\* An edit is logged with the hours before it and its own.
LEMMA EditAccounted ==
    ASSUME TypeOK, EditChain, NEW s \in Students, NEW w \in Weeks, NEW h \in Hours,
           SaveWeeklyUpdate(s, w, h), NEW t \in Students, NEW v \in Weeks
    PROVE  Accounted(t, v)
<1>1. baselines' = baselines
  BY DEF SaveWeeklyUpdate
<1>2. CASE t # s \/ v # w
  BY <1>1, <1>2, LiveAfterEdit, SameWeek DEF Accounted
<1>3. CASE t = s /\ v = w
  <2> DEFINE before == HoursInEffect(s, w)
             entry == [action |-> "weekly.set", student |-> s, week |-> w,
                       old |-> IF before.source \in {"baseline", "weekly"} THEN before.hours ELSE NoValues,
                       new |-> h, from |-> 0]
  <2>1. OneEntry(entry)
    BY LoggedOnce DEF SaveWeeklyUpdate
  <2>2. Live(updates', s, w) = {Len(updates) + 1} /\ updates'[Len(updates) + 1].hours = h
    BY LiveAfterEdit
  <2>3. Earliest(Live(updates', s, w)) = Len(updates) + 1
    BY <2>2, TableRows DEF Earliest, TypeOK
  <2>4. HoursInEffectNext(s, w).hours = IF Approved(baselines, s) = {} THEN ZeroHours ELSE h
    BY <1>1, <2>2, <2>3 DEF HoursInEffectNext, ResolveHours
  <2>5. Approved(baselines, s) = {} => before.hours = ZeroHours
    BY DEF HoursInEffect, ResolveHours
  <2>6. Counted(entry.old) = before.hours
    BY CountedHours
  <2>7. before.hours # HoursInEffectNext(s, w).hours => Explains(entry, s, w)
    BY <2>4, <2>5, <2>6 DEF Explains
  <2> QED BY <1>3, <2>1, <2>7 DEF Accounted
<1> QED BY <1>2, <1>3

\* A reversal is logged with the hours it takes away and those it uncovers.
LEMMA ReversalAccounted ==
    ASSUME TypeOK, EditChain, NEW i \in DOMAIN updates, ReverseWeeklyUpdate(i),
           NEW t \in Students, NEW v \in Weeks
    PROVE  Accounted(t, v)
<1> DEFINE s == updates[i].student
           w == updates[i].week
<1>1. baselines' = baselines
  BY DEF ReverseWeeklyUpdate
<1>2. CASE t # s \/ v # w
  BY <1>1, <1>2, OthersAfterReversal, SameWeek DEF Accounted
<1>3. CASE t = s /\ v = w
  <2> DEFINE entry == [action |-> "weekly.reverse", student |-> s, week |-> w,
                       old |-> updates[i].hours, new |-> HoursAfter(s, w), from |-> 0]
  <2>1. OneEntry(entry)
    BY LoggedOnce DEF ReverseWeeklyUpdate
  <2>2. i \in Live(updates, s, w)
    BY ReversedRow DEF Live
  <2>3. Live(updates, s, w) = {i}
    BY <1>3, <2>2, ChainEnds
  <2>4. Earliest(Live(updates, s, w)) = i
    BY <2>3, TableRows DEF Earliest, TypeOK
  <2>5. Approved(baselines, s) = {} => HoursInEffect(s, w).hours = HoursInEffectNext(s, w).hours
    BY <1>1 DEF HoursInEffect, HoursInEffectNext, ResolveHours
  <2>6. Approved(baselines, s) # {} => HoursInEffect(s, w).hours = updates[i].hours
    BY <2>3, <2>4 DEF HoursInEffect, ResolveHours
  <2>7. Counted(updates[i].hours) = updates[i].hours
    BY UpdateRow, ConstantsOK DEF Counted, ConstantsOK, TypeOK
  <2>8. HoursAfter(s, w) = HoursInEffectNext(s, w).hours
    BY <1>1 DEF HoursAfter, HoursInEffectNext
  <2>9. HoursInEffect(s, w).hours # HoursInEffectNext(s, w).hours => Explains(entry, s, w)
    BY <2>5, <2>6, <2>7, <2>8 DEF Explains
  <2> QED BY <1>3, <2>1, <2>9 DEF Accounted
<1> QED BY <1>2, <1>3

\* An approval is logged with the hours of the weeks it governs from now on.
LEMMA ApprovalAccounted ==
    ASSUME TypeOK, NEW i \in DOMAIN baselines, NEW from \in Weeks, ApproveBaseline(i, from),
           NEW t \in Students, NEW v \in Weeks
    PROVE  Accounted(t, v)
<1> DEFINE s == baselines[i].student
<1>1. updates' = updates
  BY DEF ApproveBaseline
<1>2. CASE t # s
  <2>1. HoursInEffectNext(t, v) = HoursInEffect(t, v)
    BY <1>1, <1>2, ApprovedApproved, SameHours
  <2> QED BY <2>1 DEF Accounted
<1>3. CASE t = s
  <2>1. PICK j \in AnyOf(Displaced(i)) :
           AddLog("baseline.approve", s, 0,
                  IF j = 0 THEN NoValues ELSE baselines[j].hours, baselines[i].hours, from)
    BY DEF ApproveBaseline
  <2> DEFINE entry == [action |-> "baseline.approve", student |-> s, week |-> 0,
                       old |-> IF j = 0 THEN NoValues ELSE baselines[j].hours,
                       new |-> baselines[i].hours, from |-> from]
             before == HoursInEffect(t, v)
             after == HoursInEffectNext(t, v)
  <2>2. OneEntry(entry)
    BY <2>1, LoggedOnce
  <2>3. Approved(baselines', t) = {i} /\ Newest(Approved(baselines', t)) = i
    BY <1>3, ApprovedApproved DEF Newest
  <2>4. /\ baselines'[i].hours = baselines[i].hours
        /\ baselines'[i].effectiveFrom = from
        /\ from # 0
    BY ApprovedApproved, ConstantsOK DEF Weeks, ConstantsOK
  <2>5. CASE Live(updates, t, v) # {}
    <3>1. after.source = "weekly" /\ after.hours = updates[Earliest(Live(updates, t, v))].hours
      BY <1>1, <2>3, <2>5 DEF HoursInEffectNext, ResolveHours
    <3>2. \/ before.source = "none"
          \/ before.hours = updates[Earliest(Live(updates, t, v))].hours
      BY <2>5 DEF HoursInEffect, ResolveHours
    <3>3. before.hours # after.hours => Explains(entry, t, v)
      BY <1>3, <3>1, <3>2 DEF Explains
    <3> QED BY <2>2, <3>3 DEF Accounted
  <2>6. CASE Live(updates, t, v) = {}
    <3>1. /\ after.source # "weekly"
          /\ after.hours = IF v >= from THEN baselines[i].hours ELSE ZeroHours
      BY <1>1, <2>3, <2>4, <2>6 DEF HoursInEffectNext, ResolveHours, FirstWeek
    <3>2. Explains(entry, t, v)
      BY <1>3, <3>1 DEF Explains
    <3> QED BY <2>2, <3>2 DEF Accounted
  <2> QED BY <2>5, <2>6
<1> QED BY <1>2, <1>3

\* No hours change without the one log entry that explains the change.
THEOREM ChangesAreLoggedAlways == Spec => ChangesAreLogged
<1> DEFINE Logged(s, w) ==
       LET before == HoursInEffect(s, w)
           after == HoursInEffectNext(s, w)
           entry == changeLog'[Len(changeLog')]
       IN  before.hours # after.hours =>
               /\ Len(changeLog') = Len(changeLog) + 1
               /\ SubSeq(changeLog', 1, Len(changeLog)) = changeLog
               /\ entry.student = s
               /\ \/ /\ entry.action \in {"weekly.set", "weekly.reverse"}
                     /\ entry.week = w
                     /\ Counted(entry.old) = before.hours
                     /\ entry.new = after.hours
                  \/ /\ entry.action = "baseline.approve"
                     /\ IF after.source = "weekly" THEN before.source = "none"
                        ELSE after.hours = IF w >= entry.from THEN entry.new ELSE ZeroHours
<1>1. TypeOK /\ EditChain /\ [Next]_vars => [\A s \in Students, w \in Weeks : Logged(s, w)]_vars
  <2> SUFFICES ASSUME TypeOK, EditChain, Next, NEW t \in Students, NEW v \in Weeks
               PROVE  Logged(t, v)
    OBVIOUS
  <2>1. Accounted(t, v)
    <3>1. CASE HoursInEffectNext(t, v) = HoursInEffect(t, v)
      BY <3>1 DEF Accounted
    <3>2. ASSUME NEW s \in Students, NEW h \in Hours, SaveBaseline(s, h)
          PROVE  HoursInEffectNext(t, v) = HoursInEffect(t, v)
      BY <3>2, SubmittedApproved, SameHours DEF SaveBaseline
    <3>3. ASSUME NEW i \in DOMAIN baselines, RejectBaseline(i)
          PROVE  HoursInEffectNext(t, v) = HoursInEffect(t, v)
      BY <3>3, RejectedApproved, SameHours DEF RejectBaseline
    <3> QED BY <3>1, <3>2, <3>3, EditAccounted, ReversalAccounted, ApprovalAccounted DEF Next
  <2>2. CASE HoursInEffect(t, v).hours = HoursInEffectNext(t, v).hours
    BY <2>2
  <2>3. CASE HoursInEffect(t, v).hours # HoursInEffectNext(t, v).hours
    <3>1. PICK entry : OneEntry(entry) /\ Explains(entry, t, v)
      BY <2>1, <2>3 DEF Accounted
    <3> QED BY <3>1 DEF OneEntry, Explains
  <2> QED BY <2>2, <2>3
<1> QED BY <1>1, TypeCorrect, EditChainAlways, PTL DEF Spec, ChangesAreLogged

----------------------------------------------------------------------------
(* The change log, replayed *)

\* What one entry does to the stack of a week.
Replayed(s, w, entry, stack) ==
    IF entry.student # s \/ entry.week # w THEN stack
    ELSE IF entry.action = "weekly.set" THEN Append(stack, entry.new)
    ELSE Front(stack)

\* The stack a replay starts from.
Seeded(s, w) ==
    LET seeded == Unreversed(SeedUpdates, s, w) IN
    IF seeded = {} THEN <<>> ELSE <<SeedUpdates[Newest(seeded)].hours>>

\* The replay of the entries of a log with given positions, the last position last.
IsReplay(s, w, log, positions, replay) ==
    replay = [S \in SUBSET positions |->
                IF S = {} THEN Seeded(s, w)
                ELSE Replayed(s, w, log[Max(S)], replay[S \ {Max(S)}])]

Replay(s, w, log) == CHOOSE replay : IsReplay(s, w, log, DOMAIN log, replay)

\* The last of some positions.
LEMMA LastPosition ==
    ASSUME NEW n \in Nat, NEW S \in SUBSET (1..n), S # {}
    PROVE  Max(S) \in S /\ \A i \in S : i <= Max(S)
<1>1. Newest(S) \in S /\ \A i \in S : Newest(S) >= i
  BY NewestRow
<1> QED BY <1>1 DEF Max

\* Any log can be replayed.
LEMMA ReplayExists ==
    ASSUME NEW s, NEW w, NEW log, NEW n \in Nat
    PROVE  \E replay : IsReplay(s, w, log, 1..n, replay)
<1> DEFINE Good(m) == \E replay : IsReplay(s, w, log, 1..m, replay)
           bad == {m \in Nat : ~Good(m)}
<1> SUFFICES ASSUME bad # {} PROVE FALSE
  OBVIOUS
<1>1. PICK m \in Nat : ~Good(m) /\ \A k \in Nat : k < m => Good(k)
  <2>1. bad \in SUBSET Nat
    OBVIOUS
  <2>2. Earliest(bad) \in bad /\ \A k \in bad : Earliest(bad) <= k
    BY <2>1, EarliestRow
  <2> HIDE DEF Good
  <2> QED BY <2>1, <2>2
<1>2. CASE m = 0
  <2> DEFINE replay == [S \in SUBSET (1..0) |-> Seeded(s, w)]
  <2>1. \A S \in SUBSET (1..0) : S = {}
    OBVIOUS
  <2>2. IsReplay(s, w, log, 1..0, replay)
    BY <2>1 DEF IsReplay
  <2> QED BY <1>1, <1>2, <2>2
<1>3. CASE m # 0
  <2>1. m - 1 \in Nat /\ m - 1 < m
    BY <1>3
  <2>2. PICK shorter : IsReplay(s, w, log, 1..(m - 1), shorter)
    BY <1>1, <2>1
  <2> DEFINE replay == [S \in SUBSET (1..m) |->
                          IF m \in S THEN Replayed(s, w, log[m], shorter[S \ {m}]) ELSE shorter[S]]
  <2>3. ASSUME NEW S \in SUBSET (1..m)
        PROVE  replay[S] = IF S = {} THEN Seeded(s, w)
                           ELSE Replayed(s, w, log[Max(S)], replay[S \ {Max(S)}])
    <3>1. CASE m \in S
      <4>1. Max(S) = m
        <5>1. Max(S) \in 1..m /\ m <= Max(S)
          BY <3>1, LastPosition
        <5> QED BY <5>1
      <4>2. S \ {m} \in SUBSET (1..m) /\ m \notin S \ {m}
        OBVIOUS
      <4>3. replay[S \ {m}] = shorter[S \ {m}]
        BY <4>2
      <4>4. replay[S] = Replayed(s, w, log[m], shorter[S \ {m}])
        BY <3>1
      <4> QED BY <3>1, <4>1, <4>3, <4>4
    <3>2. CASE m \notin S
      <4>1. S \in SUBSET (1..(m - 1)) /\ replay[S] = shorter[S]
        BY <3>2
      <4>2. shorter[S] = IF S = {} THEN Seeded(s, w)
                         ELSE Replayed(s, w, log[Max(S)], shorter[S \ {Max(S)}])
        BY <2>2, <4>1 DEF IsReplay
      <4>3. S \ {Max(S)} \in SUBSET (1..m) /\ m \notin S \ {Max(S)}
        BY <3>2
      <4>4. replay[S \ {Max(S)}] = shorter[S \ {Max(S)}]
        BY <4>3
      <4> QED BY <4>1, <4>2, <4>4
    <3> QED BY <3>1, <3>2
  <2>4. IsReplay(s, w, log, 1..m, replay)
    BY <2>3 DEF IsReplay
  <2> QED BY <1>1, <2>4
<1> QED BY <1>2, <1>3

\* An entry at a time.
LEMMA ReplayRule ==
    ASSUME NEW s, NEW w, NEW log \in Seq(LogEntry)
    PROVE  /\ Replay(s, w, log)[{}] = Seeded(s, w)
           /\ \A n \in 1..Len(log) :
                 Replay(s, w, log)[1..n] = Replayed(s, w, log[n], Replay(s, w, log)[1..(n - 1)])
<1>1. DOMAIN log = 1..Len(log) /\ Len(log) \in Nat
  BY TableRows
<1>2. IsReplay(s, w, log, 1..Len(log), Replay(s, w, log))
  BY <1>1, ReplayExists DEF Replay
<1>3. ASSUME NEW P \in SUBSET (1..Len(log))
      PROVE  Replay(s, w, log)[P] = IF P = {} THEN Seeded(s, w)
                ELSE Replayed(s, w, log[Max(P)], Replay(s, w, log)[P \ {Max(P)}])
  BY <1>2 DEF IsReplay
<1>4. ASSUME NEW n \in 1..Len(log)
      PROVE  Replay(s, w, log)[1..n] = Replayed(s, w, log[n], Replay(s, w, log)[1..(n - 1)])
  <2>1. n \in 1..n /\ 1..n \in SUBSET (1..Len(log))
    BY <1>1
  <2>2. Max(1..n) = n
    <3>1. Max(1..n) \in 1..n /\ n <= Max(1..n)
      BY <1>1, <2>1, LastPosition
    <3> QED BY <3>1
  <2>3. (1..n) \ {n} = 1..(n - 1)
    OBVIOUS
  <2> QED BY <1>3, <2>1, <2>2, <2>3
<1> QED BY <1>3, <1>4

\* A longer log begins with the same replay.
LEMMA ReplayPrefix ==
    ASSUME NEW s, NEW w, NEW log \in Seq(LogEntry), NEW entry \in LogEntry, NEW n \in 0..Len(log)
    PROVE  Replay(s, w, Append(log, entry))[1..n] = Replay(s, w, log)[1..n]
<1> DEFINE longer == Append(log, entry)
           bad == {m \in 0..Len(log) : Replay(s, w, longer)[1..m] # Replay(s, w, log)[1..m]}
<1>1. /\ longer \in Seq(LogEntry) /\ Len(longer) = Len(log) + 1 /\ Len(log) \in Nat
      /\ \A m \in 1..Len(log) : longer[m] = log[m]
  OBVIOUS
<1> HIDE DEF longer
<1> SUFFICES ASSUME bad # {} PROVE FALSE
  BY DEF longer
<1>2. PICK m \in bad : \A k \in bad : m <= k
  <2>1. bad \in SUBSET Nat
    BY <1>1
  <2>2. Earliest(bad) \in bad /\ \A k \in bad : Earliest(bad) <= k
    BY <2>1, EarliestRow
  <2> QED BY <2>2
<1>3. CASE m = 0
  <2>1. Replay(s, w, longer)[{}] = Seeded(s, w) /\ Replay(s, w, log)[{}] = Seeded(s, w)
    BY <1>1, ReplayRule, Zenon
  <2>2. 1..m = {}
    BY <1>3
  <2> QED BY <1>2, <2>1, <2>2
<1>4. CASE m # 0
  <2>1. m \in 1..Len(log) /\ m \in 1..Len(longer) /\ m - 1 \in 0..Len(log) /\ ~(m <= m - 1)
    BY <1>1, <1>4
  <2>2. Replay(s, w, longer)[1..(m - 1)] = Replay(s, w, log)[1..(m - 1)]
    BY <1>2, <2>1
  <2>3. Replay(s, w, longer)[1..m] = Replayed(s, w, longer[m], Replay(s, w, longer)[1..(m - 1)])
    <3>1. \A k \in 1..Len(longer) :
             Replay(s, w, longer)[1..k] = Replayed(s, w, longer[k], Replay(s, w, longer)[1..(k - 1)])
      <4>1. longer \in Seq(LogEntry)
        BY <1>1
      <4> HIDE <1>1
      <4> QED BY <4>1, ReplayRule
    <3> QED BY <2>1, <3>1, Zenon
  <2>4. Replay(s, w, log)[1..m] = Replayed(s, w, log[m], Replay(s, w, log)[1..(m - 1)])
    BY <2>1, ReplayRule
  <2> QED BY <1>1, <1>2, <2>1, <2>2, <2>3, <2>4
<1> QED BY <1>3, <1>4

\* An entry appended is replayed last.
LEMMA ReplayAppended ==
    ASSUME NEW s, NEW w, NEW log \in Seq(LogEntry), NEW entry \in LogEntry
    PROVE  Replay(s, w, Append(log, entry))[DOMAIN Append(log, entry)]
              = Replayed(s, w, entry, Replay(s, w, log)[DOMAIN log])
<1> DEFINE longer == Append(log, entry)
<1>1. /\ longer \in Seq(LogEntry) /\ Len(longer) = Len(log) + 1 /\ Len(log) \in Nat
      /\ longer[Len(log) + 1] = entry /\ DOMAIN longer = 1..(Len(log) + 1) /\ DOMAIN log = 1..Len(log)
  OBVIOUS
<1>2. Replay(s, w, longer)[1..Len(log)] = Replay(s, w, log)[1..Len(log)]
  BY <1>1, ReplayPrefix
<1> HIDE DEF longer
<1>3. \A n \in 1..Len(longer) :
         Replay(s, w, longer)[1..n] = Replayed(s, w, longer[n], Replay(s, w, longer)[1..(n - 1)])
  <2>1. longer \in Seq(LogEntry)
    BY <1>1
  <2> HIDE <1>1
  <2> QED BY <2>1, ReplayRule
<1>4. Len(log) + 1 \in 1..Len(longer) /\ (Len(log) + 1) - 1 = Len(log)
  BY <1>1
<1>5. Replay(s, w, longer)[1..(Len(log) + 1)]
         = Replayed(s, w, longer[Len(log) + 1], Replay(s, w, longer)[1..((Len(log) + 1) - 1)])
  BY <1>3, <1>4, Zenon
<1> QED BY <1>1, <1>2, <1>4, <1>5 DEF longer

\* The edits replayed are those of the whole log.
LEMMA ReplayedIs ==
    ASSUME NEW s, NEW w
    PROVE  /\ ReplayedEdits(s, w) = Replay(s, w, changeLog)[DOMAIN changeLog]
           /\ ReplayedEdits(s, w)' = Replay(s, w, changeLog')[DOMAIN changeLog']
<1>1. ReplayedEdits(s, w) = Replay(s, w, changeLog)[DOMAIN changeLog]
  BY DEF ReplayedEdits, Replay, IsReplay, Replayed, Seeded, FoldLeft, MapThenFoldSet
<1>2. ReplayedEdits(s, w)' = Replay(s, w, changeLog')[DOMAIN changeLog']
  BY DEF ReplayedEdits, Replay, IsReplay, Replayed, Seeded, FoldLeft, MapThenFoldSet
<1> QED BY <1>1, <1>2

\* A logged change adds its entry to the replay.
LEMMA ReplayedStep ==
    ASSUME TypeOK, NEW entry \in LogEntry, changeLog' = Append(changeLog, entry), NEW s, NEW w
    PROVE  ReplayedEdits(s, w)' = Replayed(s, w, entry, ReplayedEdits(s, w))
  BY ReplayedIs, ReplayAppended DEF TypeOK

\* A row's height among some rows, the oldest at 1.
Height(rows, k) == Cardinality({j \in rows : j <= k})

\* A newer row goes on top of others and moves none of them.
LEMMA OnTop ==
    ASSUME NEW n \in Nat, NEW rows \in SUBSET (1..n), NEW id \in Nat, \A k \in rows : k < id
    PROVE  /\ Cardinality(rows) \in Nat
           /\ Cardinality(rows \cup {id}) = Cardinality(rows) + 1
           /\ Height(rows \cup {id}, id) = Cardinality(rows) + 1
           /\ \A k \in rows : /\ Height(rows \cup {id}, k) = Height(rows, k)
                              /\ Height(rows, k) \in 1..Cardinality(rows)
<1>1. IsFiniteSet(rows) /\ Cardinality(rows) \in Nat
  <2>1. IsFiniteSet(1..n)
    BY FS_Interval
  <2> QED BY <2>1, FS_Subset, FS_CardinalityType
<1>2. Cardinality(rows \cup {id}) = Cardinality(rows) + 1
  <2>1. id \notin rows
    OBVIOUS
  <2> QED BY <1>1, <2>1, FS_AddElement
<1>3. Height(rows \cup {id}, id) = Cardinality(rows) + 1
  <2>1. {j \in rows \cup {id} : j <= id} = rows \cup {id}
    <3>1. \A j \in rows \cup {id} : j <= id
      OBVIOUS
    <3> QED BY <3>1
  <2> QED BY <1>2, <2>1 DEF Height
<1>4. ASSUME NEW k \in rows
      PROVE  /\ Height(rows \cup {id}, k) = Height(rows, k)
             /\ Height(rows, k) \in 1..Cardinality(rows)
  <2> DEFINE below == {j \in rows : j <= k}
  <2>1. {j \in rows \cup {id} : j <= k} = below
    OBVIOUS
  <2>2. below \subseteq rows /\ k \in below
    OBVIOUS
  <2>3. IsFiniteSet(below) /\ Cardinality(below) \in Nat /\ Cardinality(below) <= Cardinality(rows)
    <3> HIDE DEF below
    <3> QED BY <1>1, <2>2, FS_Subset, FS_CardinalityType
  <2>4. Cardinality(below) # 0
    <3> HIDE DEF below
    <3> QED BY <2>2, <2>3, FS_EmptySet
  <2> QED BY <1>1, <2>1, <2>3, <2>4 DEF Height
<1> QED BY <1>1, <1>2, <1>3, <1>4

\* A stack holds the hours of a week's edits in force, oldest first.
Matches(stack, table, s, w) ==
    LET rows == Unreversed(table, s, w) IN
    /\ stack \in Seq(Hours)
    /\ Len(stack) = Cardinality(rows)
    /\ \A k \in rows : stack[Height(rows, k)] = table[k].hours

\* So it does after an edit of the week has been pushed.
LEMMA Pushed ==
    ASSUME NEW table \in Seq(Update), NEW later, NEW s, NEW w, NEW h \in Hours,
           NEW id \in Nat, id = Len(table) + 1,
           NEW stack, Matches(stack, table, s, w),
           Unreversed(later, s, w) = Unreversed(table, s, w) \cup {id},
           later[id].hours = h,
           \A k \in Unreversed(table, s, w) : later[k].hours = table[k].hours
    PROVE  Matches(Append(stack, h), later, s, w)
<1> DEFINE rows == Unreversed(table, s, w)
<1>1. Len(table) \in Nat /\ rows \in SUBSET (1..Len(table)) /\ \A k \in rows : k < id
  BY TableRows DEF Unreversed
<1>2. stack \in Seq(Hours) /\ Len(stack) = Cardinality(rows) /\ \A k \in rows : stack[Height(rows, k)] = table[k].hours
  BY DEF Matches
<1> HIDE DEF rows
<1>3. /\ Cardinality(rows) \in Nat
      /\ Cardinality(rows \cup {id}) = Cardinality(rows) + 1
      /\ Height(rows \cup {id}, id) = Cardinality(rows) + 1
      /\ \A k \in rows : /\ Height(rows \cup {id}, k) = Height(rows, k)
                         /\ Height(rows, k) \in 1..Cardinality(rows)
  BY <1>1, OnTop
<1>4. /\ Append(stack, h) \in Seq(Hours) /\ Len(Append(stack, h)) = Len(stack) + 1
      /\ Append(stack, h)[Len(stack) + 1] = h
      /\ \A n \in 1..Len(stack) : Append(stack, h)[n] = stack[n]
  BY <1>2
<1>5. ASSUME NEW k \in rows \cup {id}
      PROVE  Append(stack, h)[Height(rows \cup {id}, k)] = later[k].hours
  <2>1. CASE k = id
    BY <1>2, <1>3, <1>4, <2>1
  <2>2. CASE k \in rows
    <3>1. later[k].hours = table[k].hours
      BY <2>2 DEF rows
    <3> QED BY <1>2, <1>3, <1>4, <2>2, <3>1
  <2> QED BY <2>1, <2>2
<1> QED BY <1>2, <1>3, <1>4, <1>5 DEF Matches, rows

\* And after the newest edit of the week has been popped.
LEMMA Popped ==
    ASSUME NEW table \in Seq(Update), NEW later, NEW s, NEW w, NEW i \in Unreversed(table, s, w),
           \A k \in Unreversed(table, s, w) : k <= i,
           NEW stack, Matches(stack, table, s, w),
           Unreversed(later, s, w) = Unreversed(table, s, w) \ {i},
           \A k \in Unreversed(table, s, w) : later[k].hours = table[k].hours
    PROVE  Matches(Front(stack), later, s, w)
<1> DEFINE rows == Unreversed(table, s, w) \ {i}
<1>1. /\ Len(table) \in Nat /\ rows \in SUBSET (1..Len(table)) /\ i \in Nat
      /\ Unreversed(table, s, w) \in SUBSET (1..Len(table))
  BY TableRows DEF Unreversed
<1>2. (\A k \in rows : k < i) /\ Unreversed(table, s, w) = rows \cup {i}
  BY <1>1
<1>3. /\ stack \in Seq(Hours) /\ Len(stack) = Cardinality(rows \cup {i})
      /\ \A k \in rows : stack[Height(rows \cup {i}, k)] = later[k].hours
  BY <1>2 DEF Matches
<1>4. Unreversed(later, s, w) = rows
  OBVIOUS
<1> HIDE DEF rows
<1>5. /\ Cardinality(rows) \in Nat
      /\ Cardinality(rows \cup {i}) = Cardinality(rows) + 1
      /\ \A k \in rows : /\ Height(rows \cup {i}, k) = Height(rows, k)
                         /\ Height(rows, k) \in 1..Cardinality(rows)
  BY <1>1, <1>2, OnTop
<1>6. /\ Front(stack) \in Seq(Hours) /\ Len(Front(stack)) = Cardinality(rows)
      /\ \A n \in 1..Cardinality(rows) : Front(stack)[n] = stack[n]
  <2>1. Len(stack) = Cardinality(rows) + 1
    BY <1>3, <1>5
  <2>2. Front(stack) = SubSeq(stack, 1, Cardinality(rows))
    BY <1>5, <2>1 DEF Front
  <2> HIDE DEF Front
  <2> QED BY <1>3, <1>5, <2>1, <2>2
<1> QED BY <1>3, <1>4, <1>5, <1>6 DEF Matches

\* The rows an edit leaves in force.
LEMMA UnreversedAfterEdit ==
    ASSUME TypeOK, NEW s \in Students, NEW w \in Weeks, NEW h \in Hours, SaveWeeklyUpdate(s, w, h),
           NEW t \in Students, NEW v \in Weeks
    PROVE  /\ Unreversed(updates', t, v) =
                 IF t = s /\ v = w THEN Unreversed(updates, t, v) \cup {Len(updates) + 1}
                 ELSE Unreversed(updates, t, v)
           /\ \A k \in Unreversed(updates, t, v) : updates'[k].hours = updates[k].hours
           /\ updates'[Len(updates) + 1].hours = h
<1> DEFINE id == Len(updates) + 1
<1>1. /\ DOMAIN updates' = DOMAIN updates \cup {id}
      /\ id \notin DOMAIN updates
  <2>1. Len(updates) \in Nat /\ DOMAIN updates = 1..Len(updates) /\ DOMAIN updates' = 1..(Len(updates) + 1)
    BY SetRow
  <2> QED BY <2>1
<1>2. /\ updates'[id].student = s /\ updates'[id].week = w /\ updates'[id].hours = h
      /\ ~updates'[id].reversed
      /\ \A k \in DOMAIN updates :
            /\ updates'[k].student = updates[k].student
            /\ updates'[k].week = updates[k].week
            /\ updates'[k].reversed = updates[k].reversed
            /\ updates'[k].hours = updates[k].hours
  BY SetRow
<1> HIDE DEF id
<1>3. CASE t = s /\ v = w
  BY <1>1, <1>2, <1>3 DEF Unreversed, id
<1>4. CASE ~(t = s /\ v = w)
  BY <1>1, <1>2, <1>4 DEF Unreversed, id
<1> QED BY <1>3, <1>4

\* And those a reversal leaves.
LEMMA UnreversedAfterReversal ==
    ASSUME TypeOK, NEW i \in DOMAIN updates, ReverseWeeklyUpdate(i), NEW t, NEW v
    PROVE  /\ Unreversed(updates', t, v) = Unreversed(updates, t, v) \ {i}
           /\ \A k \in Unreversed(updates, t, v) : updates'[k].hours = updates[k].hours
<1>1. /\ DOMAIN updates' = DOMAIN updates
      /\ \A k \in DOMAIN updates :
            /\ updates'[k].student = updates[k].student
            /\ updates'[k].week = updates[k].week
            /\ updates'[k].reversed = (k = i \/ updates[k].reversed)
            /\ updates'[k].hours = updates[k].hours
  BY ReversedRow
<1> QED BY <1>1 DEF Unreversed

\* The replay gives the edits in force.
Replays ==
    \A s \in Students, w \in Weeks : Matches(ReplayedEdits(s, w), updates, s, w)

\* Entries about other things leave a week's replay alone.
LEMMA OtherReplay ==
    ASSUME TypeOK, TypeOK', NEW entry, changeLog' = Append(changeLog, entry),
           NEW t \in Students, NEW v \in Weeks, entry.student # t \/ entry.week # v
    PROVE  ReplayedEdits(t, v)' = ReplayedEdits(t, v)
  BY AppendedEntry, ReplayedStep DEF Replayed

\* Every operation logs what it does to the edits in force.
LEMMA ReplaysStep ==
    ASSUME TypeOK, TypeOK', EditChain, Replays, [Next]_vars
    PROVE  Replays'
<1> SUFFICES ASSUME NEW t \in Students, NEW v \in Weeks
             PROVE  Matches(ReplayedEdits(t, v)', updates', t, v)
  BY DEF Replays
<1>1. Matches(ReplayedEdits(t, v), updates, t, v) /\ v # 0 /\ updates \in Seq(Update)
  BY ConstantsOK DEF Replays, Weeks, ConstantsOK, TypeOK
\* A step that leaves the edits alone.
<1>2. ASSUME NEW action, NEW s, NEW old, NEW new, NEW from, updates' = updates,
             AddLog(action, s, 0, old, new, from)
      PROVE  Matches(ReplayedEdits(t, v)', updates', t, v)
  <2> DEFINE entry == [action |-> action, student |-> s, week |-> 0, old |-> old, new |-> new, from |-> from]
  <2>1. changeLog' = Append(changeLog, entry) /\ entry.week = 0
    BY <1>2 DEF AddLog
  <2> HIDE DEF entry
  <2>2. ReplayedEdits(t, v)' = ReplayedEdits(t, v)
    BY <1>1, <2>1, OtherReplay
  <2> QED BY <1>1, <1>2, <2>2
<1>3. ASSUME NEW s \in Students, NEW w \in Weeks, NEW h \in Hours, SaveWeeklyUpdate(s, w, h)
      PROVE  Matches(ReplayedEdits(t, v)', updates', t, v)
  <2>1. PICK entry : /\ changeLog' = Append(changeLog, entry)
                     /\ entry.action = "weekly.set" /\ entry.student = s /\ entry.week = w /\ entry.new = h
    <3>1. PICK old : AddLog("weekly.set", s, w, old, h, 0)
      BY <1>3 DEF SaveWeeklyUpdate
    <3> DEFINE logged == [action |-> "weekly.set", student |-> s, week |-> w, old |-> old, new |-> h, from |-> 0]
    <3>2. /\ changeLog' = Append(changeLog, logged)
          /\ logged.action = "weekly.set" /\ logged.student = s /\ logged.week = w /\ logged.new = h
      BY <3>1 DEF AddLog
    <3> QED BY <3>2
  <2>2. CASE t = s /\ v = w
    <3>1. ReplayedEdits(t, v)' = Append(ReplayedEdits(t, v), h)
      BY <2>1, <2>2, AppendedEntry, ReplayedStep DEF Replayed
    <3>2. Len(updates) + 1 \in Nat
      BY TableRows DEF TypeOK
    <3> QED BY <1>1, <1>3, <2>2, <3>1, <3>2, UnreversedAfterEdit, Pushed
  <2>3. CASE ~(t = s /\ v = w)
    <3>1. ReplayedEdits(t, v)' = ReplayedEdits(t, v)
      BY <2>1, <2>3, OtherReplay
    <3>2. /\ Unreversed(updates', t, v) = Unreversed(updates, t, v)
          /\ \A k \in Unreversed(updates, t, v) : updates'[k].hours = updates[k].hours
      BY <1>3, <2>3, UnreversedAfterEdit
    <3> QED BY <1>1, <3>1, <3>2 DEF Matches
  <2> QED BY <2>2, <2>3
<1>4. ASSUME NEW i \in DOMAIN updates, ReverseWeeklyUpdate(i)
      PROVE  Matches(ReplayedEdits(t, v)', updates', t, v)
  <2> DEFINE s == updates[i].student
             w == updates[i].week
  <2>1. PICK entry : /\ changeLog' = Append(changeLog, entry)
                     /\ entry.action = "weekly.reverse" /\ entry.student = s /\ entry.week = w
    <3>1. PICK new : AddLog("weekly.reverse", s, w, updates[i].hours, new, 0)
      BY <1>4 DEF ReverseWeeklyUpdate
    <3> DEFINE logged == [action |-> "weekly.reverse", student |-> s, week |-> w,
                          old |-> updates[i].hours, new |-> new, from |-> 0]
    <3>2. /\ changeLog' = Append(changeLog, logged)
          /\ logged.action = "weekly.reverse" /\ logged.student = s /\ logged.week = w
      BY <3>1 DEF AddLog
    <3> QED BY <3>2
  <2>2. /\ Unreversed(updates', t, v) = Unreversed(updates, t, v) \ {i}
        /\ \A k \in Unreversed(updates, t, v) : updates'[k].hours = updates[k].hours
    BY <1>4, UnreversedAfterReversal
  <2>3. CASE t = s /\ v = w
    <3>1. ReplayedEdits(t, v)' = Front(ReplayedEdits(t, v))
      BY <2>1, <2>3, AppendedEntry, ReplayedStep DEF Replayed
    <3>2. i \in Live(updates, t, v) /\ i \in Unreversed(updates, t, v)
      BY <1>4, <2>3, ReversedRow DEF Live, Unreversed
    <3>3. i = Newest(Unreversed(updates, t, v))
      BY <3>2, LiveIsNewest
    <3>4. \A k \in Unreversed(updates, t, v) : k <= i
      BY <3>2, <3>3, UnreversedRows
    <3> HIDE DEF s, w
    <3> QED BY <1>1, <2>2, <3>1, <3>2, <3>4, Popped
  <2>4. CASE ~(t = s /\ v = w)
    <3>1. ReplayedEdits(t, v)' = ReplayedEdits(t, v)
      BY <2>1, <2>4, OtherReplay
    <3>2. i \notin Unreversed(updates, t, v)
      BY <2>4 DEF Unreversed
    <3> QED BY <1>1, <2>2, <3>1, <3>2 DEF Matches
  <2> QED BY <2>3, <2>4
<1>5. CASE UNCHANGED vars
  <2>1. ReplayedEdits(t, v)' = ReplayedEdits(t, v)
    BY <1>5, ReplayedIs DEF vars
  <2> QED BY <1>1, <1>5, <2>1 DEF vars
<1>6. CASE \E s \in Students, h \in Hours : SaveBaseline(s, h)
  BY <1>2, <1>6 DEF SaveBaseline
<1>7. CASE \E i \in DOMAIN baselines, from \in Weeks : ApproveBaseline(i, from)
  BY <1>2, <1>7 DEF ApproveBaseline
<1>8. CASE \E i \in DOMAIN baselines : RejectBaseline(i)
  BY <1>2, <1>8 DEF RejectBaseline
<1> QED BY <1>3, <1>4, <1>5, <1>6, <1>7, <1>8 DEF Next

\* An empty log leaves what the database was seeded with.
LEMMA ReplaysSeed == ASSUME Init PROVE Replays
<1> SUFFICES ASSUME NEW s \in Students, NEW w \in Weeks
             PROVE  Matches(ReplayedEdits(s, w), updates, s, w)
  BY DEF Replays
<1> DEFINE rows == Unreversed(SeedUpdates, s, w)
<1>1. updates = SeedUpdates /\ changeLog = <<>>
  BY DEF Init
<1>2. ReplayedEdits(s, w) = Seeded(s, w)
  <2>1. ReplayedEdits(s, w) = Replay(s, w, changeLog)[DOMAIN changeLog]
    BY ReplayedIs
  <2>2. <<>> \in Seq(LogEntry) /\ DOMAIN <<>> = {}
    OBVIOUS
  <2>3. Replay(s, w, <<>>)[{}] = Seeded(s, w)
    BY <2>2, ReplayRule
  <2> QED BY <1>1, <2>1, <2>2, <2>3
<1>3. /\ Len(SeedUpdates) \in Nat /\ rows \in SUBSET (1..Len(SeedUpdates))
      /\ \A k \in rows : SeedUpdates[k].hours \in Hours
  BY SeedOK, TableRows, UpdateRow DEF SeedOK, Unreversed
<1>4. \A j, k \in rows : j = k
  BY SeedOK DEF SeedOK, Unreversed
<1>5. CASE rows = {}
  <2>1. ReplayedEdits(s, w) = <<>>
    BY <1>2, <1>5 DEF Seeded
  <2> QED BY <1>1, <1>5, <2>1, FS_EmptySet DEF Matches
<1>6. CASE rows # {}
  <2>1. PICK k \in rows : k = Newest(rows)
    BY <1>3, <1>6, NewestRow
  <2>2. rows = {k} /\ {j \in rows : j <= k} = {k}
    BY <1>3, <1>4, <2>1
  <2>3. ReplayedEdits(s, w) = <<SeedUpdates[k].hours>>
    BY <1>2, <1>6, <2>1 DEF Seeded
  <2>4. Cardinality(rows) = 1 /\ Height(rows, k) = 1
    BY <2>2, FS_Singleton DEF Height
  <2> QED BY <1>1, <1>3, <2>2, <2>3, <2>4 DEF Matches
<1> QED BY <1>5, <1>6

\* The change log tells the whole story: its replay is what the tables have in force.
THEOREM LogReplaysAlways == Spec => []LogReplaysToTables
<1>1. Replays => LogReplaysToTables
  BY DEF Replays, Matches, Height, LogReplaysToTables
<1> QED BY <1>1, ReplaysSeed, ReplaysStep, TypeCorrect, EditChainAlways, PTL DEF Spec
=============================================================================
