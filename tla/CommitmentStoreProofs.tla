----------------------- MODULE CommitmentStoreProofs -----------------------
(***************************************************************************)
(* Theorems about CommitmentStore, for any students, weeks, hours, seed    *)
(* rows and bounds.                                                        *)
(***************************************************************************)
EXTENDS CommitmentStore, WellFoundedInduction, TLAPS

----------------------------------------------------------------------------
(* Tables *)

\* A table rebuilt row by row, as a bulk update does, is again a table.
LEMMA RebuiltTable ==
    ASSUME NEW S, NEW n \in Nat, NEW f, f \in [1..n -> S]
    PROVE  f \in Seq(S) /\ Len(f) = n /\ DOMAIN f = 1..n
  OBVIOUS

\* A table is a function on the row numbers up to its length.
LEMMA TableRows ==
    ASSUME NEW S, NEW t \in Seq(S)
    PROVE  /\ Len(t) \in Nat
           /\ DOMAIN t = 1..Len(t)
           /\ \A i \in DOMAIN t : t[i] \in S
  OBVIOUS

\* The columns of a row.
LEMMA BaselineRow ==
    ASSUME NEW bs \in Seq(Baseline), NEW i \in DOMAIN bs
    PROVE  /\ i \in 1..Len(bs)
           /\ bs[i] \in Baseline
           /\ bs[i].student \in Students
           /\ bs[i].hours \in Hours
           /\ bs[i].status \in BaselineStatus
           /\ bs[i].effectiveFrom \in 0..NumWeeks
<1>1. i \in 1..Len(bs) /\ bs[i] \in Baseline
  BY TableRows
<1> QED BY <1>1 DEF Baseline

\* A decision rewrites a row's status, and an approval its first week.
LEMMA DecidedRow ==
    ASSUME NEW row \in Baseline, NEW status \in BaselineStatus, NEW from \in 0..NumWeeks
    PROVE  /\ [row EXCEPT !.status = status] \in Baseline
           /\ [row EXCEPT !.status = status, !.effectiveFrom = from] \in Baseline
  BY DEF Baseline

\* The columns of a weekly-update row.
LEMMA UpdateRow ==
    ASSUME NEW us \in Seq(Update), NEW i \in DOMAIN us
    PROVE  /\ i \in 1..Len(us)
           /\ us[i] \in Update
           /\ us[i].student \in Students
           /\ us[i].week \in Weeks
           /\ us[i].hours \in Hours
           /\ us[i].reversed \in BOOLEAN
           /\ us[i].supersededBy \in Nat
<1>1. i \in 1..Len(us) /\ us[i] \in Update
  BY TableRows
<1> QED BY <1>1 DEF Update

\* Choosing any row of a query gives one of its rows, or 0 for no row.
LEMMA AnyOfRows ==
    ASSUME NEW rows, NEW i \in AnyOf(rows)
    PROVE  (rows = {} /\ i = 0) \/ i \in rows
  BY DEF AnyOf

\* A non-empty query has an oldest and a newest row.
LEMMA EarliestRow ==
    ASSUME NEW rows \in SUBSET Nat, rows # {}
    PROVE  Earliest(rows) \in rows /\ \A j \in rows : Earliest(rows) <= j
<1>1. PICK i \in rows : \A j \in rows : <<j, i>> \notin OpToRel(<, Nat)
  BY WFMin, NatLessThanWellFounded, Zenon
<1>2. \A j \in rows : ~(j < i)
  BY <1>1, Zenon DEF OpToRel
<1>3. \A j \in rows : i <= j
  BY <1>2
<1> QED BY <1>3 DEF Earliest

\* The same for the newest row: a finite query has a largest row number.
LEMMA NewestRow ==
    ASSUME NEW n \in Nat, NEW rows \in SUBSET (1..n), rows # {}
    PROVE  Newest(rows) \in rows /\ \A j \in rows : j <= Newest(rows)
<1> DEFINE fromTheEnd == {n - j : j \in rows}
<1>1. fromTheEnd \in SUBSET Nat /\ fromTheEnd # {}
  <2>1. \A j \in rows : n - j \in Nat
    OBVIOUS
  <2>2. PICK j \in rows : TRUE
    OBVIOUS
  <2>3. n - j \in fromTheEnd
    BY <2>2
  <2> QED BY <2>1, <2>3
<1>2. PICK i \in rows : n - i = Earliest(fromTheEnd)
  BY <1>1, EarliestRow
<1>3. \A j \in rows : n - i <= n - j
  BY <1>1, <1>2, EarliestRow
<1>4. \A j \in rows : j <= i
  BY <1>3
<1> QED BY <1>4 DEF Newest

----------------------------------------------------------------------------
(* Types *)

\* The hours that apply to a student's week are always a triple of hours.
LEMMA ResolvedHours ==
    ASSUME NEW bs \in Seq(Baseline), NEW us \in Seq(Update),
           NEW s \in Students, NEW w \in Weeks
    PROVE  ResolveHours(bs, us, s, w).hours \in Hours
<1>1. Approved(bs, s) \in SUBSET (1..Len(bs)) /\ Live(us, s, w) \in SUBSET (1..Len(us))
  BY TableRows DEF Approved, Live
<1>2. CASE Approved(bs, s) = {}
  BY <1>2, ConstantsOK DEF ResolveHours, ConstantsOK
<1>3. CASE Approved(bs, s) # {} /\ Live(us, s, w) # {}
  <2>1. Earliest(Live(us, s, w)) \in Live(us, s, w)
    BY <1>1, <1>3, EarliestRow
  <2>2. us[Earliest(Live(us, s, w))].hours \in Hours
    BY <2>1, UpdateRow DEF Live
  <2> QED BY <1>3, <2>2 DEF ResolveHours
<1>4. CASE Approved(bs, s) # {} /\ Live(us, s, w) = {}
  <2>1. Newest(Approved(bs, s)) \in Approved(bs, s)
    BY <1>1, <1>4, NewestRow
  <2>2. bs[Newest(Approved(bs, s))].hours \in Hours
    BY <2>1, BaselineRow DEF Approved
  <2> QED BY <1>4, <2>2, ConstantsOK DEF ResolveHours, ConstantsOK
<1> QED BY <1>2, <1>3, <1>4

\* Staging a well-formed entry keeps the change log well formed.
LEMMA LoggedEntry ==
    ASSUME TypeOK, NEW action \in LogAction, NEW s \in Students, NEW w \in 0..NumWeeks,
           NEW old \in Hours \cup {NoValues}, NEW new \in Hours, NEW from \in 0..NumWeeks,
           AddLog(action, s, w, old, new, from)
    PROVE  changeLog' \in Seq(LogEntry)
  BY DEF TypeOK, AddLog, LogEntry

\* Each operation keeps the rows of every table within their columns.
LEMMA RowsKept ==
    ASSUME TypeOK, [Next]_vars
    PROVE  TypeOK'
<1> USE ConstantsOK DEF ConstantsOK
<1>1. ASSUME NEW s \in Students, NEW h \in Hours, SaveBaseline(s, h)
      PROVE  TypeOK'
  <2>1. baselines' \in Seq(Baseline)
    BY <1>1 DEF SaveBaseline, TypeOK, Baseline, BaselineStatus
  <2>2. Shown(s) # {} => baselines[Newest(Shown(s))].hours \in Hours
    <3>1. Shown(s) \in SUBSET (1..Len(baselines))
      BY TableRows DEF Shown, TypeOK
    <3>2. Shown(s) # {} => Newest(Shown(s)) \in Shown(s)
      BY <3>1, NewestRow, TableRows DEF TypeOK
    <3> QED BY <3>2, BaselineRow DEF TypeOK, Shown
  <2>3. changeLog' \in Seq(LogEntry)
    <3> DEFINE old == IF Shown(s) = {} THEN NoValues ELSE baselines[Newest(Shown(s))].hours
    <3>1. old \in Hours \cup {NoValues} /\ AddLog("baseline.submit", s, 0, old, h, 0)
      BY <1>1, <2>2 DEF SaveBaseline
    <3> HIDE DEF old
    <3> QED BY <3>1, LoggedEntry DEF LogAction
  <2> QED BY <1>1, <2>1, <2>3 DEF SaveBaseline, TypeOK
<1>2. ASSUME NEW i \in DOMAIN baselines, NEW from \in Weeks, ApproveBaseline(i, from)
      PROVE  TypeOK'
  <2>1. baselines' \in Seq(Baseline)
    <3>1. ASSUME NEW j \in DOMAIN baselines PROVE baselines'[j] \in Baseline
      <4>1. /\ baselines[j] \in Baseline
            /\ from \in 0..NumWeeks
            /\ "approved" \in BaselineStatus
            /\ "superseded" \in BaselineStatus
        BY BaselineRow DEF TypeOK, BaselineStatus, Weeks
      <4>2. /\ [baselines[j] EXCEPT !.status = "approved", !.effectiveFrom = from] \in Baseline
            /\ [baselines[j] EXCEPT !.status = "superseded"] \in Baseline
        BY <4>1, DecidedRow
      <4> QED BY <1>2, <4>1, <4>2 DEF ApproveBaseline, Decidable, Displaced
    <3>2. baselines' \in [1..Len(baselines) -> Baseline]
      BY <1>2, <3>1, TableRows DEF ApproveBaseline, TypeOK, Decidable, Displaced
    <3> QED BY <3>2, RebuiltTable DEF TypeOK
  <2>2. PICK j \in AnyOf(Approved(baselines, baselines[i].student)) :
           AddLog("baseline.approve", baselines[i].student, 0,
                  IF j = 0 THEN NoValues ELSE baselines[j].hours,
                  baselines[i].hours, from)
    BY <1>2 DEF ApproveBaseline, Decidable, Displaced
  <2>3. changeLog' \in Seq(LogEntry)
    <3> DEFINE old == IF j = 0 THEN NoValues ELSE baselines[j].hours
    <3>1. old \in Hours \cup {NoValues}
      BY <2>2, AnyOfRows, BaselineRow DEF Approved, TypeOK
    <3>2. baselines[i].student \in Students /\ baselines[i].hours \in Hours
      BY BaselineRow DEF TypeOK
    <3>3. AddLog("baseline.approve", baselines[i].student, 0, old, baselines[i].hours, from)
      BY <2>2
    <3> HIDE DEF old
    <3> QED BY <3>1, <3>2, <3>3, LoggedEntry DEF LogAction, Weeks
  <2> QED BY <1>2, <2>1, <2>3 DEF ApproveBaseline, TypeOK, Decidable, Displaced
<1>3. ASSUME NEW i \in DOMAIN baselines, RejectBaseline(i)
      PROVE  TypeOK'
  <2>1. baselines' \in Seq(Baseline)
    <3>1. [baselines[i] EXCEPT !.status = "rejected"] \in Baseline
      BY BaselineRow, DecidedRow DEF TypeOK, BaselineStatus
    <3> QED BY <1>3, <3>1 DEF RejectBaseline, TypeOK, Decidable
  <2>2. baselines[i].student \in Students /\ baselines[i].hours \in Hours
    BY BaselineRow DEF TypeOK
  <2>3. changeLog' \in Seq(LogEntry)
    BY <1>3, <2>2, LoggedEntry DEF RejectBaseline, LogAction
  <2> QED BY <1>3, <2>1, <2>3 DEF RejectBaseline, TypeOK, Decidable
<1>4. ASSUME NEW s \in Students, NEW w \in Weeks, NEW h \in Hours, SaveWeeklyUpdate(s, w, h)
      PROVE  TypeOK'
  <2>1. updates' \in Seq(Update)
    <3> DEFINE id == NextId(updates)
    <3>1. id \in Nat /\ \A k \in 1..id : k # id => k \in DOMAIN updates
      BY TableRows DEF NextId, TypeOK
    <3>2. ASSUME NEW k \in 1..id PROVE updates'[k] \in Update
      <4>1. [student |-> s, week |-> w, hours |-> h,
             reversed |-> FALSE, supersededBy |-> 0] \in Update
        BY DEF Update
      <4>2. k # id => /\ updates[k] \in Update
                      /\ [updates[k] EXCEPT !.supersededBy = id] \in Update
        BY <3>1, UpdateRow DEF TypeOK, Update
      <4> QED BY <1>4, <4>1, <4>2 DEF SaveWeeklyUpdate
    <3>3. updates' \in [1..id -> Update]
      BY <1>4, <3>2 DEF SaveWeeklyUpdate
    <3> QED BY <3>1, <3>3, RebuiltTable
  <2>2. HoursInEffect(s, w).hours \in Hours
    BY ResolvedHours DEF HoursInEffect, TypeOK
  <2>3. changeLog' \in Seq(LogEntry)
    <3> DEFINE old == IF HoursInEffect(s, w).source \in {"baseline", "weekly"}
                      THEN HoursInEffect(s, w).hours ELSE NoValues
    <3>1. old \in Hours \cup {NoValues} /\ AddLog("weekly.set", s, w, old, h, 0)
      BY <1>4, <2>2 DEF SaveWeeklyUpdate
    <3> HIDE DEF old
    <3> QED BY <3>1, LoggedEntry DEF LogAction, Weeks
  <2> QED BY <1>4, <2>1, <2>3 DEF SaveWeeklyUpdate, TypeOK
<1>5. ASSUME NEW i \in DOMAIN updates, ReverseWeeklyUpdate(i)
      PROVE  TypeOK'
  <2>1. updates' \in Seq(Update)
    <3>1. ASSUME NEW k \in DOMAIN updates PROVE updates'[k] \in Update
      <4>1. /\ [updates[k] EXCEPT !.reversed = TRUE] \in Update
            /\ [updates[k] EXCEPT !.supersededBy = 0] \in Update
            /\ updates[k] \in Update
        BY UpdateRow DEF TypeOK, Update
      <4> QED BY <1>5, <4>1 DEF ReverseWeeklyUpdate, Reversible, HoursAfter
    <3>2. updates' \in [1..Len(updates) -> Update]
      BY <1>5, <3>1, TableRows DEF ReverseWeeklyUpdate, TypeOK, Reversible, HoursAfter
    <3> QED BY <3>2, RebuiltTable DEF TypeOK
  <2>2. /\ updates[i].student \in Students
        /\ updates[i].week \in Weeks
        /\ updates[i].hours \in Hours
    BY UpdateRow DEF TypeOK
  <2>3. ResolveHours(baselines, updates', updates[i].student, updates[i].week).hours \in Hours
    BY <2>1, <2>2, ResolvedHours DEF TypeOK
  <2>4. changeLog' \in Seq(LogEntry)
    BY <1>5, <2>2, <2>3, LoggedEntry DEF ReverseWeeklyUpdate, LogAction, Weeks, Reversible, HoursAfter
  <2> QED BY <1>5, <2>1, <2>4 DEF ReverseWeeklyUpdate, TypeOK, Reversible, HoursAfter
<1>6. CASE UNCHANGED vars
  BY <1>6 DEF vars, TypeOK
<1> QED BY <1>1, <1>2, <1>3, <1>4, <1>5, <1>6 DEF Next

\* The tables hold well-typed rows, whatever clients do.
THEOREM TypeCorrect == Spec => []TypeOK
<1>1. Init => TypeOK
  BY SeedOK DEF Init, TypeOK, SeedOK
<1> QED BY <1>1, RowsKept, PTL DEF Spec

----------------------------------------------------------------------------
(* Baselines *)

\* What each operation leaves in the baseline table, row by row.
LEMMA SubmittedRow ==
    ASSUME TypeOK, NEW s \in Students, NEW h \in Hours, SaveBaseline(s, h)
    PROVE  /\ Len(baselines) \in Nat
           /\ DOMAIN baselines = 1..Len(baselines)
           /\ DOMAIN baselines' = 1..(Len(baselines) + 1)
           /\ baselines'[Len(baselines) + 1].status = "pending"
           /\ \A j \in DOMAIN baselines : baselines'[j] = baselines[j]
  BY TableRows DEF SaveBaseline, TypeOK

\* decide_baseline approving row i: it approves that row, displaces the approved
\* rows of the same student and leaves every other row as it was.
LEMMA ApprovedRow ==
    ASSUME TypeOK, NEW i \in DOMAIN baselines, NEW from \in Weeks, ApproveBaseline(i, from)
    PROVE  /\ DOMAIN baselines' = DOMAIN baselines
           /\ baselines[i].status = "pending"
           /\ baselines'[i].status = "approved"
           /\ \A j \in DOMAIN baselines :
                 /\ baselines'[j].student = baselines[j].student
                 /\ j # i =>
                       baselines'[j] =
                          IF j \in Approved(baselines, baselines[i].student)
                          THEN [baselines[j] EXCEPT !.status = "superseded"]
                          ELSE baselines[j]
           /\ \A j \in Approved(baselines, baselines[i].student) :
                 j # i /\ baselines'[j].status = "superseded"
<1>1. \A j \in DOMAIN baselines : baselines[j] \in Baseline
  BY TableRows DEF TypeOK
<1>2. \A j \in DOMAIN baselines :
         baselines'[j] =
            IF j = i
            THEN [baselines[j] EXCEPT !.status = "approved", !.effectiveFrom = from]
            ELSE IF j \in Approved(baselines, baselines[i].student)
            THEN [baselines[j] EXCEPT !.status = "superseded"]
            ELSE baselines[j]
  BY DEF ApproveBaseline, Decidable, Displaced
<1>3. /\ DOMAIN baselines' = DOMAIN baselines
      /\ baselines[i].status = "pending"
  BY DEF ApproveBaseline, Decidable, Displaced
<1>4. baselines'[i].status = "approved"
  BY <1>1, <1>2 DEF Baseline
<1>5. \A j \in Approved(baselines, baselines[i].student) :
         j \in DOMAIN baselines /\ j # i
  BY <1>3 DEF Approved
<1>6. \A j \in DOMAIN baselines : baselines'[j].student = baselines[j].student
  BY <1>1, <1>2 DEF Baseline
<1>7. \A j \in Approved(baselines, baselines[i].student) :
         baselines'[j].status = "superseded"
  BY <1>1, <1>2, <1>5 DEF Baseline
<1> QED BY <1>2, <1>3, <1>4, <1>5, <1>6, <1>7

\* decide_baseline rejecting row i: it changes the status of that row only.
LEMMA RejectedRow ==
    ASSUME TypeOK, NEW i \in DOMAIN baselines, RejectBaseline(i)
    PROVE  /\ DOMAIN baselines' = DOMAIN baselines
           /\ baselines[i].status = "pending"
           /\ baselines'[i].status = "rejected"
           /\ \A j \in DOMAIN baselines \ {i} : baselines'[j] = baselines[j]
<1>1. baselines[i] \in Baseline /\ "rejected" \in BaselineStatus
  BY TableRows DEF TypeOK, BaselineStatus
<1>2. baselines'[i] = [baselines[i] EXCEPT !.status = "rejected"]
  BY DEF RejectBaseline, Decidable
<1>3. baselines'[i].status = "rejected"
  BY <1>1, <1>2 DEF Baseline
<1> QED BY <1>3 DEF RejectBaseline, Decidable

\* A student never has two approved baselines: approval displaces in the same
\* transaction every row that was approved before.
THEOREM OneApprovedAlways == Spec => []OneApproved
<1>1. Init => OneApproved
  BY SeedOK DEF Init, OneApproved, SeedOK
<1>2. TypeOK /\ OneApproved /\ [Next]_vars => OneApproved'
  <2> SUFFICES ASSUME TypeOK, OneApproved, [Next]_vars
               PROVE  OneApproved'
    OBVIOUS
  <2>1. ASSUME NEW s \in Students, NEW h \in Hours, SaveBaseline(s, h)
        PROVE  OneApproved'
    <3>1. /\ Len(baselines) \in Nat
          /\ DOMAIN baselines = 1..Len(baselines)
          /\ DOMAIN baselines' = 1..(Len(baselines) + 1)
          /\ baselines'[Len(baselines) + 1].status = "pending"
          /\ \A j \in DOMAIN baselines : baselines'[j] = baselines[j]
      BY <2>1, SubmittedRow
    <3>2. \A j \in DOMAIN baselines' :
             baselines'[j].status = "approved" =>
                j \in DOMAIN baselines /\ baselines'[j] = baselines[j]
      BY <3>1
    <3> QED BY <3>2 DEF OneApproved
  <2>2. ASSUME NEW i \in DOMAIN baselines, NEW from \in Weeks, ApproveBaseline(i, from)
        PROVE  OneApproved'
    <3>1. \A j \in DOMAIN baselines :
             baselines'[j].status = "approved" /\ j # i =>
                /\ baselines[j].status = "approved"
                /\ baselines[j].student # baselines[i].student
      BY <2>2, ApprovedRow DEF Approved
    <3>2. /\ DOMAIN baselines' = DOMAIN baselines
          /\ \A j \in DOMAIN baselines : baselines'[j].student = baselines[j].student
      BY <2>2, ApprovedRow
    <3> QED BY <3>1, <3>2 DEF OneApproved
  <2>3. ASSUME NEW i \in DOMAIN baselines, RejectBaseline(i)
        PROVE  OneApproved'
    <3>1. /\ DOMAIN baselines' = DOMAIN baselines
          /\ \A j \in DOMAIN baselines :
                baselines'[j].status = "approved" => baselines'[j] = baselines[j]
      BY <2>3, RejectedRow
    <3> QED BY <3>1 DEF OneApproved
  <2>4. CASE UNCHANGED baselines
    BY <2>4 DEF OneApproved
  <2> QED BY <2>1, <2>2, <2>3, <2>4 DEF Next, SaveWeeklyUpdate, ReverseWeeklyUpdate, vars
<1> QED BY <1>1, <1>2, TypeCorrect, PTL DEF Spec

\* decide_baseline decides a submission once: no step changes a rejected or
\* displaced baseline, and an approved one can only be displaced.
THEOREM DecidedOnce == Spec => DecisionsAreFinal
<1> DEFINE Final(i) ==
       /\ baselines[i].status \in {"rejected", "superseded"} => baselines'[i] = baselines[i]
       /\ baselines[i].status = "approved" =>
             baselines'[i] \in {baselines[i], [baselines[i] EXCEPT !.status = "superseded"]}
<1>1. TypeOK /\ [Next]_vars => [\A i \in DOMAIN baselines : Final(i)]_vars
  <2> SUFFICES ASSUME TypeOK, Next, NEW i \in DOMAIN baselines
               PROVE  Final(i)
    OBVIOUS
  <2>1. ASSUME NEW s \in Students, NEW h \in Hours, SaveBaseline(s, h)
        PROVE  Final(i)
    BY <2>1, SubmittedRow
  <2>2. ASSUME NEW k \in DOMAIN baselines, NEW from \in Weeks, ApproveBaseline(k, from)
        PROVE  Final(i)
    BY <2>2, ApprovedRow DEF Approved
  <2>3. ASSUME NEW k \in DOMAIN baselines, RejectBaseline(k)
        PROVE  Final(i)
    BY <2>3, RejectedRow
  <2>4. CASE UNCHANGED baselines
    BY <2>4
  <2> QED BY <2>1, <2>2, <2>3, <2>4 DEF Next, SaveWeeklyUpdate, ReverseWeeklyUpdate
<1> QED BY <1>1, TypeCorrect, PTL DEF Spec, DecisionsAreFinal

----------------------------------------------------------------------------
(* Weekly updates *)

\* What save_weekly_update leaves in the table, column by column.
LEMMA SetRow ==
    ASSUME TypeOK, NEW s \in Students, NEW w \in Weeks, NEW h \in Hours,
           SaveWeeklyUpdate(s, w, h)
    PROVE  /\ Len(updates) \in Nat
           /\ DOMAIN updates = 1..Len(updates)
           /\ DOMAIN updates' = 1..(Len(updates) + 1)
           /\ updates'[Len(updates) + 1].student = s
           /\ updates'[Len(updates) + 1].week = w
           /\ updates'[Len(updates) + 1].hours = h
           /\ ~updates'[Len(updates) + 1].reversed
           /\ updates'[Len(updates) + 1].supersededBy = 0
           /\ \E current \in AnyOf(Live(updates, s, w)) :
                 \A k \in DOMAIN updates :
                    /\ updates'[k].student = updates[k].student
                    /\ updates'[k].week = updates[k].week
                    /\ updates'[k].reversed = updates[k].reversed
                    /\ updates'[k].hours = updates[k].hours
                    /\ updates'[k].supersededBy =
                          IF k = current THEN Len(updates) + 1 ELSE updates[k].supersededBy
<1>1. Len(updates) \in Nat /\ DOMAIN updates = 1..Len(updates)
  BY TableRows DEF TypeOK
<1>2. \A k \in DOMAIN updates : updates[k] \in Update
  BY TableRows DEF TypeOK
<1>3. PICK current \in AnyOf(Live(updates, s, w)) :
         updates' = [k \in 1..(Len(updates) + 1) |->
            IF k = Len(updates) + 1
            THEN [student |-> s, week |-> w, hours |-> h, reversed |-> FALSE, supersededBy |-> 0]
            ELSE IF k = current THEN [updates[k] EXCEPT !.supersededBy = Len(updates) + 1]
            ELSE updates[k]]
  BY DEF SaveWeeklyUpdate, NextId
<1>4. /\ DOMAIN updates' = 1..(Len(updates) + 1)
      /\ updates'[Len(updates) + 1] =
            [student |-> s, week |-> w, hours |-> h, reversed |-> FALSE, supersededBy |-> 0]
  BY <1>1, <1>3
<1>5. \A k \in DOMAIN updates :
         updates'[k] = IF k = current THEN [updates[k] EXCEPT !.supersededBy = Len(updates) + 1]
                       ELSE updates[k]
  BY <1>1, <1>3
<1>6. \A k \in DOMAIN updates :
         /\ updates'[k].student = updates[k].student
         /\ updates'[k].week = updates[k].week
         /\ updates'[k].reversed = updates[k].reversed
         /\ updates'[k].hours = updates[k].hours
         /\ updates'[k].supersededBy =
               IF k = current THEN Len(updates) + 1 ELSE updates[k].supersededBy
  BY <1>2, <1>5 DEF Update
<1> QED BY <1>1, <1>4, <1>6

\* What reverse_weekly_update leaves in the table, column by column.
LEMMA ReversedRow ==
    ASSUME TypeOK, NEW i \in DOMAIN updates, ReverseWeeklyUpdate(i)
    PROVE  /\ DOMAIN updates' = DOMAIN updates
           /\ ~updates[i].reversed
           /\ updates[i].supersededBy = 0
           /\ \E replaced \in AnyOf(ReplacedBy(i)) :
                 \A k \in DOMAIN updates :
                    /\ updates'[k].student = updates[k].student
                    /\ updates'[k].week = updates[k].week
                    /\ updates'[k].reversed = (k = i \/ updates[k].reversed)
                    /\ updates'[k].hours = updates[k].hours
                    /\ updates'[k].supersededBy =
                          IF k = replaced THEN 0 ELSE updates[k].supersededBy
<1>1. \A k \in DOMAIN updates : updates[k] \in Update
  BY TableRows DEF TypeOK
<1>2. PICK replaced \in AnyOf(ReplacedBy(i)) :
         updates' = [k \in DOMAIN updates |->
            IF k = i THEN [updates[k] EXCEPT !.reversed = TRUE]
            ELSE IF k = replaced THEN [updates[k] EXCEPT !.supersededBy = 0]
            ELSE updates[k]]
  BY DEF ReverseWeeklyUpdate, Reversible, HoursAfter
<1>3. /\ ~updates[i].reversed
      /\ updates[i].supersededBy = 0
  BY DEF ReverseWeeklyUpdate, Reversible, HoursAfter
<1>4. ASSUME NEW k \in DOMAIN updates
      PROVE  /\ updates'[k].student = updates[k].student
             /\ updates'[k].week = updates[k].week
             /\ updates'[k].reversed = (k = i \/ updates[k].reversed)
             /\ updates'[k].hours = updates[k].hours
             /\ updates'[k].supersededBy =
                   IF k = replaced THEN 0 ELSE updates[k].supersededBy
  BY <1>1, <1>2, <1>3 DEF Update
<1> QED BY <1>2, <1>3, <1>4

\* On a chain, a week has at most one live row, and a row replaces at most one.
LEMMA ChainEnds ==
    ASSUME TypeOK, EditChain
    PROVE  /\ \A s \in Students, w \in Weeks : \A i, j \in Live(updates, s, w) : i = j
           /\ \A i \in DOMAIN updates : \A j, k \in ReplacedBy(i) : j = k
<1>1. \A i \in DOMAIN updates : i \in Nat \ {0}
  BY TableRows DEF TypeOK
<1>2. ASSUME NEW s \in Students, NEW w \in Weeks,
             NEW i \in Live(updates, s, w), NEW j \in Live(updates, s, w), i < j
      PROVE  FALSE
  BY <1>2 DEF Live, EditChain, Linked, SameSlot
<1>3. ASSUME NEW i \in DOMAIN updates, NEW j \in ReplacedBy(i), NEW k \in ReplacedBy(i), j < k
      PROVE  FALSE
  BY <1>1, <1>3 DEF ReplacedBy, EditChain, Linked, SameSlot
<1>4. /\ \A s \in Students, w \in Weeks : Live(updates, s, w) \subseteq Nat
      /\ \A i \in DOMAIN updates : ReplacedBy(i) \subseteq Nat
  BY <1>1 DEF Live, ReplacedBy
<1> QED BY <1>2, <1>3, <1>4

\* Whatever sequence of saves and reversals runs, the unreversed edits of every
\* week stay one chain: save_weekly_update appends to it and
\* reverse_weekly_update takes off its last edit.
THEOREM EditChainAlways == Spec => []EditChain
<1>1. Init => EditChain
  <2>1. \A i \in DOMAIN SeedUpdates : i \in 1..Len(SeedUpdates)
    BY SeedOK, TableRows DEF SeedOK
  <2> QED BY <2>1, SeedOK DEF Init, EditChain, Linked, SameSlot, SeedOK
<1>2. TypeOK /\ EditChain /\ [Next]_vars => EditChain'
  <2> SUFFICES ASSUME TypeOK, EditChain, [Next]_vars
               PROVE  EditChain'
    OBVIOUS
  <2>1. ASSUME NEW s \in Students, NEW w \in Weeks, NEW h \in Hours, SaveWeeklyUpdate(s, w, h)
        PROVE  EditChain'
    <3>1. PICK id \in Nat \ {0} :
             /\ id = Len(updates) + 1
             /\ \A k \in DOMAIN updates : k \in Nat \ {0} /\ k < id
             /\ DOMAIN updates' = DOMAIN updates \cup {id}
             /\ updates'[id].student = s
             /\ updates'[id].week = w
             /\ ~updates'[id].reversed
             /\ updates'[id].supersededBy = 0
      <4>1. DOMAIN updates' = DOMAIN updates \cup {Len(updates) + 1}
        <5>1. /\ Len(updates) \in Nat
              /\ DOMAIN updates = 1..Len(updates)
              /\ DOMAIN updates' = 1..(Len(updates) + 1)
          BY <2>1, SetRow
        <5> QED BY <5>1
      <4>2. \A k \in DOMAIN updates : k \in Nat \ {0} /\ k < Len(updates) + 1
        BY <2>1, SetRow
      <4>3. Len(updates) + 1 \in Nat \ {0}
        BY <2>1, SetRow
      <4> QED BY <2>1, <4>1, <4>2, <4>3, SetRow
    <3>2. PICK current \in AnyOf(Live(updates, s, w)) :
             \A k \in DOMAIN updates :
                /\ updates'[k].student = updates[k].student
                /\ updates'[k].week = updates[k].week
                /\ updates'[k].reversed = updates[k].reversed
                /\ updates'[k].supersededBy =
                      IF k = current THEN id ELSE updates[k].supersededBy
      BY <2>1, <3>1, SetRow
    <3>3. \A i \in Live(updates, s, w) : i = current
      BY <3>2, ChainEnds, AnyOfRows
    <3>4. current \in DOMAIN updates => current \in Live(updates, s, w)
      BY <3>1, <3>2, AnyOfRows
    <3>5. Linked(id)'
      BY <3>1 DEF Linked
    <3>6. ASSUME NEW i \in DOMAIN updates, i = current
          PROVE  Linked(i)'
      <4>1. /\ ~updates[i].reversed
            /\ updates[i].supersededBy = 0
            /\ updates[i].student = s
            /\ updates[i].week = w
        BY <3>4, <3>6 DEF Live
      <4>2. \A k \in DOMAIN updates : k > i /\ SameSlot(i, k) => updates[k].reversed
        BY <4>1 DEF EditChain, Linked
      <4>3. \A k \in DOMAIN updates' : k > i /\ SameSlot(i, k)' /\ ~updates'[k].reversed => k = id
        BY <3>1, <3>2, <4>2 DEF SameSlot
      <4> QED BY <3>1, <3>2, <3>6, <4>1, <4>3 DEF Linked, SameSlot
    <3>7. ASSUME NEW i \in DOMAIN updates, i # current
          PROVE  Linked(i)'
      <4>1. /\ updates'[i].reversed = updates[i].reversed
            /\ updates'[i].supersededBy = updates[i].supersededBy
            /\ i \in Nat \ {0} /\ i < id
        BY <3>1, <3>2, <3>7
      <4>2. \A k \in DOMAIN updates :
               /\ updates'[k].reversed = updates[k].reversed
               /\ SameSlot(i, k)' <=> SameSlot(i, k)
        BY <3>2 DEF SameSlot
      <4>3. Linked(i)
        BY DEF EditChain
      <4>4. SameSlot(i, id)' /\ ~updates[i].reversed => updates[i].supersededBy # 0
        BY <3>1, <3>2, <3>3, <3>7 DEF SameSlot, Live
      <4>5. updates[i].supersededBy # 0 =>
               ~updates[i].reversed /\ updates[i].supersededBy \in DOMAIN updates
        BY <4>3 DEF Linked
      <4> QED BY <3>1, <4>1, <4>2, <4>3, <4>4, <4>5 DEF Linked
    <3> QED BY <3>1, <3>5, <3>6, <3>7 DEF EditChain
  <2>2. ASSUME NEW i \in DOMAIN updates, ReverseWeeklyUpdate(i)
        PROVE  EditChain'
    <3>1. /\ DOMAIN updates' = DOMAIN updates
          /\ ~updates[i].reversed
          /\ updates[i].supersededBy = 0
      BY <2>2, ReversedRow
    <3>2. PICK replaced \in AnyOf(ReplacedBy(i)) :
             \A k \in DOMAIN updates :
                /\ updates'[k].student = updates[k].student
                /\ updates'[k].week = updates[k].week
                /\ updates'[k].reversed = (k = i \/ updates[k].reversed)
                /\ updates'[k].supersededBy =
                      IF k = replaced THEN 0 ELSE updates[k].supersededBy
      BY <2>2, ReversedRow
    <3>3. \A k \in ReplacedBy(i) : k = replaced
      BY <3>2, ChainEnds, AnyOfRows
    <3>4. \A k \in DOMAIN updates : k \in Nat \ {0}
      BY TableRows DEF TypeOK
    <3>5. replaced \in DOMAIN updates => updates[replaced].supersededBy = i
      BY <3>2, <3>4, AnyOfRows DEF ReplacedBy
    <3>6. \A k \in DOMAIN updates : k > i /\ SameSlot(i, k) => updates[k].reversed
      BY <3>1 DEF EditChain, Linked
    <3>7. ASSUME NEW j \in DOMAIN updates
          PROVE  Linked(j)'
      <4>1. \A k \in DOMAIN updates : SameSlot(j, k)' <=> SameSlot(j, k)
        BY <3>2 DEF SameSlot
      <4>2. Linked(j)
        BY DEF EditChain
      <4>3. CASE j = i
        <5>1. updates'[j].reversed /\ updates'[j].supersededBy = 0
          BY <3>1, <3>2, <4>3
        <5> QED BY <5>1 DEF Linked
      <4>4. CASE j # i /\ j = replaced
        <5>1. /\ updates[j].supersededBy = i
              /\ ~updates[j].reversed
              /\ updates'[j].supersededBy = 0
          BY <3>1, <3>2, <3>4, <3>5, <4>2, <4>4 DEF Linked
        <5>2. \A k \in DOMAIN updates :
                 k > j /\ SameSlot(j, k) /\ ~updates[k].reversed => i <= k
          BY <4>2, <5>1 DEF Linked
        <5>3. SameSlot(j, i)
          BY <3>1, <3>4, <4>2, <5>1 DEF Linked
        <5>4. \A k \in DOMAIN updates :
                 k > j /\ SameSlot(j, k) /\ ~updates[k].reversed => k = i
          BY <3>4, <3>6, <5>2, <5>3 DEF SameSlot
        <5>5. \A k \in DOMAIN updates' :
                 ~(k > j /\ SameSlot(j, k)' /\ ~updates'[k].reversed)
          BY <3>1, <3>2, <4>1, <5>4
        <5> QED BY <5>1, <5>5 DEF Linked
      <4>5. CASE j # i /\ j # replaced
        <5>1. /\ updates'[j].reversed = updates[j].reversed
              /\ updates'[j].supersededBy = updates[j].supersededBy
              /\ updates[j].supersededBy # i
          BY <3>2, <3>3, <4>5, UpdateRow DEF ReplacedBy, TypeOK
        <5>2. \A k \in DOMAIN updates : ~updates'[k].reversed <=> k # i /\ ~updates[k].reversed
          BY <3>1, <3>2
        <5> QED BY <3>1, <4>1, <4>2, <5>1, <5>2 DEF Linked
      <4> QED BY <4>3, <4>4, <4>5
    <3> QED BY <3>1, <3>7 DEF EditChain
  <2>3. CASE UNCHANGED updates
    BY <2>3 DEF EditChain, Linked, SameSlot
  <2> QED BY <2>1, <2>2, <2>3
          DEF Next, SaveBaseline, ApproveBaseline, RejectBaseline, vars
<1> QED BY <1>1, <1>2, TypeCorrect, PTL DEF Spec

============================================================================
