------------------------ MODULE CommitmentDeskProofs ------------------------
(***************************************************************************)
(* Proofs about CommitmentDesk, for any calendar of weeks that follow each *)
(* other, any threads, and any number of requests and lost answers.        *)
(***************************************************************************)
EXTENDS CommitmentDesk, CommitmentLedgerProofs, FiniteSetTheorems

Kinds == {"none", "putBaseline", "putWeek", "approve", "reject", "reverse"}

Decision(r) == r.kind \in {"approve", "reject"}

\* The rows a request names are in the tables.
NamesRows(r) ==
    /\ Decision(r) => r.row \in DOMAIN baselines
    /\ r.kind = "reverse" => r.row \in DOMAIN updates

\* What a decision or a reversal asks for is so.
IsDone(r) ==
    /\ Decision(r) => baselines[r.row].status # "pending"
    /\ r.kind = "reverse" => updates[r.row].reversed

\* A thread about to call the store has passed its checks; one that tells its
\* client that it is done, has done it.
Served(t) ==
    /\ NamesRows(request[t])
    /\ step[t] = "store" /\ request[t].kind = "putWeek" =>
          request[t].week \in Weeks /\ request[t].week \in Editable(checkedOn[t])
    /\ step[t] = "store" /\ request[t].kind = "approve" =>
          from[t] \in Weeks /\ (request[t].week = 0 => from[t] = CalendarWeek(checkedOn[t]))
    /\ step[t] # "answer" => outcome[t] = "none"
    /\ outcome[t] = "done" => IsDone(request[t])

DeskInv ==
    /\ DeskTypeOK
    /\ \A t \in Threads : Served(t)
    /\ DoneIsDone

----------------------------------------------------------------------------
(* The store under the desk *)

\* Requests are what their kinds say.
LEMMA RequestShapes ==
    ASSUME DeskTypeOK, NEW t \in Threads
    PROVE  LET r == request[t] IN
           /\ r.kind \in Kinds
           /\ r.kind = "putBaseline" => r.student \in Students /\ r.hours \in Hours
           /\ r.kind = "putWeek" => r.student \in Students /\ r.week \in Asked /\ r.hours \in Hours
           /\ r.kind = "approve" => r.row \in Nat /\ r.week \in Asked
           /\ r.kind \in {"reject", "reverse"} => r.row \in Nat
<1> DEFINE r == request[t]
<1>1. r \in PutBaseline \cup PutWeek \cup Approval \cup Rejection \cup Reversal \cup {NoRequest}
  BY DEF DeskTypeOK
<1> HIDE DEF r
<1>2. /\ r \in PutBaseline => r.kind = "putBaseline" /\ r.student \in Students /\ r.hours \in Hours
      /\ r \in PutWeek => /\ r.kind = "putWeek" /\ r.student \in Students
                          /\ r.week \in Asked /\ r.hours \in Hours
      /\ r \in Approval => r.kind = "approve" /\ r.row \in Nat /\ r.week \in Asked
      /\ r \in Rejection => r.kind = "reject" /\ r.row \in Nat
      /\ r \in Reversal => r.kind = "reverse" /\ r.row \in Nat
      /\ r = NoRequest => r.kind = "none"
  BY DEF PutBaseline, PutWeek, Approval, Rejection, Reversal, NoRequest
<1>3. /\ r.kind \in Kinds
      /\ r.kind = "putBaseline" => r.student \in Students /\ r.hours \in Hours
      /\ r.kind = "putWeek" => r.student \in Students /\ r.week \in Asked /\ r.hours \in Hours
      /\ r.kind = "approve" => r.row \in Nat /\ r.week \in Asked
      /\ r.kind \in {"reject", "reverse"} => r.row \in Nat
  BY <1>1, <1>2 DEF Kinds
<1> QED BY <1>3 DEF r

\* The operation a handler calls is one of the store's.
LEMMA StoreCalls ==
    ASSUME DeskInv, NEW t \in Threads, Store(t)
    PROVE  LET r == request[t] IN
           \/ /\ r.kind = "putBaseline" /\ r.student \in Students /\ r.hours \in Hours
              /\ SaveBaseline(r.student, r.hours)
           \/ /\ r.kind = "putWeek" /\ r.student \in Students /\ r.hours \in Hours
              /\ r.week \in Weeks /\ r.week \in Editable(checkedOn[t])
              /\ SaveWeeklyUpdate(r.student, r.week, r.hours)
           \/ /\ r.kind = "approve" /\ r.row \in DOMAIN baselines /\ from[t] \in Weeks
              /\ ApproveBaseline(r.row, from[t])
           \/ r.kind = "reject" /\ r.row \in DOMAIN baselines /\ RejectBaseline(r.row)
           \/ r.kind = "reverse" /\ r.row \in DOMAIN updates /\ ReverseWeeklyUpdate(r.row)
<1>1. DeskTypeOK /\ Served(t)
  BY DEF DeskInv
<1> QED BY <1>1, RequestShapes DEF Store, Served, NamesRows, Decision

\* A step of the desk is one of the store, or leaves the tables alone.
LEMMA DeskMovesStore ==
    ASSUME DeskInv, [DeskNext]_deskState
    PROVE  [Next]_vars
<1>1. ASSUME NEW t \in Threads, Store(t) PROVE Next
  BY <1>1, StoreCalls DEF Next
<1>2. CASE ~\E t \in Threads : Store(t)
  BY <1>2 DEF DeskNext, Receive, Check, RefuseCheck, RefuseStore, Deliver, Resend, Midnight,
     deskState, storeVars, vars
<1> QED BY <1>1, <1>2

\* Rows stay, and what is done to them is not undone.
LEMMA RowsStay ==
    ASSUME TypeOK, [Next]_vars
    PROVE  /\ \A i \in DOMAIN baselines :
                 i \in DOMAIN baselines' /\ (baselines[i].status # "pending" =>
                                             baselines'[i].status # "pending")
           /\ \A i \in DOMAIN updates :
                 i \in DOMAIN updates' /\ (updates[i].reversed => updates'[i].reversed)
<1>1. CASE \E s \in Students, h \in Hours : SaveBaseline(s, h)
  BY <1>1, SubmittedRow DEF SaveBaseline
<1>2. CASE \E i \in DOMAIN baselines, first \in Weeks : ApproveBaseline(i, first)
  BY <1>2, ApprovedRow DEF ApproveBaseline
<1>3. CASE \E i \in DOMAIN baselines : RejectBaseline(i)
  BY <1>3, RejectedRow DEF RejectBaseline
<1>4. CASE \E s \in Students, w \in Weeks, h \in Hours : SaveWeeklyUpdate(s, w, h)
  <2>1. PICK s \in Students, w \in Weeks, h \in Hours : SaveWeeklyUpdate(s, w, h)
    BY <1>4
  <2>2. baselines' = baselines
    BY <2>1 DEF SaveWeeklyUpdate
  <2>3. /\ Len(updates) \in Nat /\ DOMAIN updates = 1..Len(updates)
        /\ DOMAIN updates' = 1..(Len(updates) + 1)
        /\ \A k \in DOMAIN updates : updates'[k].reversed = updates[k].reversed
    BY <2>1, SetRow
  <2> QED BY <2>2, <2>3
<1>5. CASE \E i \in DOMAIN updates : ReverseWeeklyUpdate(i)
  BY <1>5, ReversedRow DEF ReverseWeeklyUpdate
<1>6. CASE UNCHANGED vars
  BY <1>6 DEF vars
<1> QED BY <1>1, <1>2, <1>3, <1>4, <1>5, <1>6 DEF Next

LEMMA SameLength ==
    ASSUME NEW m \in Nat, NEW n \in Nat, 1..m = 1..n
    PROVE  m = n
<1>1. m > n => m \in 1..m /\ m \notin 1..n
  OBVIOUS
<1>2. n > m => n \in 1..n /\ n \notin 1..m
  OBVIOUS
<1> QED BY <1>1, <1>2

\* A stored edit adds a row.
LEMMA AddedRow ==
    ASSUME TypeOK, TypeOK', NEW s \in Students, NEW w \in Weeks, NEW h \in Hours,
           SaveWeeklyUpdate(s, w, h)
    PROVE  Len(updates') = Len(updates) + 1
<1>1. /\ Len(updates) \in Nat /\ DOMAIN updates = 1..Len(updates)
      /\ Len(updates') \in Nat /\ DOMAIN updates' = 1..Len(updates')
  BY DEF TypeOK
<1>2. DOMAIN updates' = 1..(Len(updates) + 1)
  BY SetRow
<1>3. Len(updates) + 1 \in Nat
  BY <1>1
<1>4. 1..Len(updates') = 1..(Len(updates) + 1)
  BY <1>1, <1>2, Zenon
<1> HIDE <1>2
<1> QED BY <1>1, <1>3, <1>4, SameLength

----------------------------------------------------------------------------
(* The invariant *)

\* What a step of one thread leaves alone of another.
LEMMA StillServed ==
    ASSUME DeskInv, [Next]_vars, NEW t \in Threads,
           UNCHANGED <<step[t], request[t], checkedOn[t], from[t], outcome[t]>>
    PROVE  Served(t)'
<1>1. TypeOK /\ Served(t)
  BY DEF DeskInv, DeskTypeOK
<1>2. NamesRows(request[t])'
  BY <1>1, RowsStay DEF Served, NamesRows, Decision
<1>3. outcome'[t] = "done" => IsDone(request[t])'
  BY <1>1, RowsStay DEF Served, NamesRows, IsDone, Decision
<1> QED BY <1>1, <1>2, <1>3 DEF Served

\* The store does what is asked for, and refuses what is already done.
LEMMA StoreDoes ==
    ASSUME DeskInv, NEW t \in Threads, Store(t)
    PROVE  /\ IsDone(request[t])'
           /\ Decision(request[t]) => baselines[request[t].row].status = "pending"
           /\ request[t].kind = "reverse" => ~updates[request[t].row].reversed
<1> DEFINE r == request[t]
<1>1. request' = request /\ TypeOK
  BY DEF Store, DeskInv, DeskTypeOK
<1>2. CASE r.kind = "approve" /\ r.row \in DOMAIN baselines /\ from[t] \in Weeks
           /\ ApproveBaseline(r.row, from[t])
  <2>1. baselines[r.row].status = "pending" /\ baselines'[r.row].status = "approved"
    BY <1>1, <1>2, ApprovedRow
  <2> QED BY <1>1, <1>2, <2>1 DEF IsDone, Decision
<1>3. CASE r.kind = "reject" /\ r.row \in DOMAIN baselines /\ RejectBaseline(r.row)
  <2>1. baselines[r.row].status = "pending" /\ baselines'[r.row].status = "rejected"
    BY <1>1, <1>3, RejectedRow
  <2> QED BY <1>1, <1>3, <2>1 DEF IsDone, Decision
<1>4. CASE r.kind = "reverse" /\ r.row \in DOMAIN updates /\ ReverseWeeklyUpdate(r.row)
  <2>1. ~updates[r.row].reversed /\ updates'[r.row].reversed
    BY <1>1, <1>4, ReversedRow
  <2> QED BY <1>1, <1>4, <2>1 DEF IsDone, Decision
<1>5. CASE r.kind \in {"putBaseline", "putWeek"}
  BY <1>1, <1>5 DEF IsDone, Decision
<1> QED BY <1>2, <1>3, <1>4, <1>5, StoreCalls

\* DoneIsDone for two threads.
Apart(t, u) ==
    LET r == request[t]
        q == request[u]
    IN  t # u /\ outcome[t] = "done" /\ outcome[u] = "done" =>
           /\ Decision(r) /\ Decision(q) => r.row # q.row
           /\ r.kind = "reverse" /\ q.kind = "reverse" => r.row # q.row

LEMMA AllApart == DoneIsDone <=> \A t, u \in Threads : Apart(t, u)
BY DEF DoneIsDone, Apart, Decision

\* A step that does not touch the tables, by thread t.
LEMMA DeskOnlyStep ==
    ASSUME DeskInv, NEW t \in Threads,
           \/ \E r \in Requests : Receive(t, r)
           \/ Check(t) \/ RefuseCheck(t) \/ RefuseStore(t) \/ Deliver(t) \/ Resend(t)
    PROVE  DeskInv'
<1> USE DEF DeskTypeOK, Respond, storeVars
<1>1. DeskTypeOK /\ UNCHANGED <<baselines, updates, changeLog, today, acceptedOn>>
  BY DEF DeskInv, Receive, Check, RefuseCheck, RefuseStore, Deliver, Resend
<1>2. /\ outcome'[t] # "done"
      /\ \A u \in Threads \ {t} : UNCHANGED <<step[u], request[u], checkedOn[u], from[u], outcome[u]>>
  <2>1. step[t] = "idle" => outcome[t] = "none"
    BY DEF DeskInv, Served
  <2>2. step[t] = "check" => outcome[t] = "none"
    BY DEF DeskInv, Served
  <2> QED BY <1>1, <2>1, <2>2 DEF Receive, Check, RefuseCheck, RefuseStore, Deliver, Resend, ConflictAnswer
<1>3. DoneIsDone'
  <2> SUFFICES ASSUME NEW u \in Threads, NEW v \in Threads PROVE Apart(u, v)'
    BY DEF DoneIsDone, Apart, Decision
  <2>1. Apart(u, v)
    BY AllApart DEF DeskInv
  <2> QED BY <1>2, <2>1 DEF Apart
<1>4. DeskTypeOK'
  <2>1. \A r \in Requests : r \in PutBaseline \cup PutWeek \cup Approval \cup Rejection \cup Reversal
    <3>1. DOMAIN baselines \subseteq Nat /\ DOMAIN updates \subseteq Nat
      BY <1>1 DEF TypeOK
    <3> QED BY <3>1 DEF Requests, Approval, Rejection, Reversal
  <2>2. request' \in [Threads -> PutBaseline \cup PutWeek \cup Approval \cup Rejection \cup Reversal
                                   \cup {NoRequest}]
    BY <1>1, <2>1 DEF Receive, Check, RefuseCheck, RefuseStore, Deliver, Resend
  <2>3. checkedOn' \in [Threads -> Nat] /\ counts' \in [requests : Nat, resends : Nat]
    BY <1>1 DEF Receive, Check, RefuseCheck, RefuseStore, Deliver, Resend
  <2>4. from' \in [Threads -> 0..NumWeeks]
    <3>1. Check(t) /\ request[t].kind = "approve" => EffectiveWeek(request[t], today) \in Weeks
      BY DEF Check, Passes
    <3>2. \E week \in 0..NumWeeks : from' = [from EXCEPT ![t] = week] \/ from' = from
      <4>1. 0 \in 0..NumWeeks /\ Weeks \subseteq 0..NumWeeks
        BY ConstantsOK DEF Weeks, ConstantsOK
      <4> QED BY <3>1, <4>1 DEF Receive, Check, RefuseCheck, RefuseStore, Deliver, Resend
    <3> QED BY <1>1, <3>2
  <2>5. /\ step' \in [Threads -> {"idle", "check", "store", "answer"}]
        /\ outcome' \in [Threads -> {"none", "done", "invalid", "conflict"}]
    BY <1>1 DEF Receive, Check, RefuseCheck, RefuseStore, Deliver, Resend, ConflictAnswer
  <2>6. TypeOK'
    BY <1>1 DEF TypeOK
  <2> QED BY <1>1, <2>2, <2>3, <2>4, <2>5, <2>6
<1>5. Served(t)'
  <2>1. Served(t)
    BY DEF DeskInv
  <2>2. NamesRows(request[t])'
    <3>1. CASE \E r \in Requests : Receive(t, r)
      <4>1. PICK r \in Requests : Receive(t, r)
        BY <3>1
      <4>2. request'[t] = r
        BY <1>1, <4>1 DEF Receive
      <4>3. NamesRows(r)
        BY <4>1 DEF Requests, PutBaseline, PutWeek, NamesRows, Decision
      <4> QED BY <1>1, <4>2, <4>3 DEF NamesRows
    <3>2. CASE Deliver(t)
      BY <1>1, <3>2 DEF Deliver, NoRequest, NamesRows, Decision
    <3>3. CASE request' = request
      BY <1>1, <2>1, <3>3 DEF Served, NamesRows
    <3> QED BY <3>1, <3>2, <3>3 DEF Check, RefuseCheck, RefuseStore, Resend
  <2>3. step'[t] # "answer" => outcome'[t] = "none"
    BY <1>1, <2>1 DEF Served, Receive, Check, RefuseCheck, RefuseStore, Deliver, Resend
  <2>4. step'[t] = "store" =>
           /\ Check(t) /\ request'[t] = request[t] /\ checkedOn'[t] = today
           /\ request[t].kind = "approve" => from'[t] = EffectiveWeek(request[t], today)
    BY <1>1 DEF Receive, Check, RefuseCheck, RefuseStore, Deliver, Resend
  <2>5. Check(t) => Passes(request[t])
    BY DEF Check
  <2>6. /\ step'[t] = "store" /\ request'[t].kind = "putWeek" =>
              request'[t].week \in Weeks /\ request'[t].week \in Editable(checkedOn'[t])
        /\ step'[t] = "store" /\ request'[t].kind = "approve" =>
              /\ from'[t] \in Weeks
              /\ request'[t].week = 0 => from'[t] = CalendarWeek(checkedOn'[t])
    BY <2>4, <2>5 DEF Passes, EffectiveWeek, DefaultWeek
  <2> QED BY <1>2, <2>2, <2>3, <2>6 DEF Served, Editable, CalendarWeek
<1>6. ASSUME NEW u \in Threads \ {t} PROVE Served(u)'
  <2>1. UNCHANGED vars
    BY <1>1 DEF vars
  <2> QED BY <1>2, <2>1, StillServed
<1> QED BY <1>3, <1>4, <1>5, <1>6 DEF DeskInv

\* A step that calls the store.
LEMMA StoringStep ==
    ASSUME DeskInv, NEW t \in Threads, Store(t)
    PROVE  DeskInv'
<1> USE DEF Respond
<1>1. /\ UNCHANGED <<today, request, checkedOn, from, counts>>
      /\ step' = [step EXCEPT ![t] = "answer"] /\ outcome' = [outcome EXCEPT ![t] = "done"]
  BY DEF Store
<1>2. DeskTypeOK /\ [Next]_vars /\ step[t] = "store"
  BY StoreCalls DEF DeskInv, Next, Store
<1>3. TypeOK'
  BY <1>2, RowsKept DEF DeskTypeOK
<1>4. /\ step'[t] = "answer" /\ outcome'[t] = "done"
      /\ \A u \in Threads \ {t} : UNCHANGED <<step[u], outcome[u]>>
  BY <1>1, <1>2 DEF DeskTypeOK
<1>5. acceptedOn' \in Seq(Nat) /\ Len(acceptedOn') = Len(updates')
  <2>1. Len(updates) \in Nat /\ Len(acceptedOn) = Len(updates) /\ checkedOn[t] \in Nat
        /\ acceptedOn \in Seq(Nat)
    BY <1>2 DEF DeskTypeOK, TypeOK
  <2>2. CASE request[t].kind = "putWeek"
    <3>1. PICK s \in Students, w \in Weeks, h \in Hours : SaveWeeklyUpdate(s, w, h)
      BY <2>2, StoreCalls
    <3>2. Len(updates') = Len(updates) + 1
      BY <1>2, <1>3, <3>1, AddedRow DEF DeskTypeOK
    <3>3. acceptedOn' = Append(acceptedOn, checkedOn[t])
      BY <2>2 DEF Store
    <3> QED BY <2>1, <3>2, <3>3
  <2>3. CASE request[t].kind # "putWeek"
    <3>1. acceptedOn' = acceptedOn
      BY <2>3 DEF Store
    <3>2. Len(updates') = Len(updates)
      <4>1. CASE updates' = updates
        BY <4>1
      <4>2. CASE \E i \in DOMAIN updates : ReverseWeeklyUpdate(i)
        <5>1. DOMAIN updates' = DOMAIN updates
          BY <1>2, <4>2, ReversedRow DEF DeskTypeOK
        <5>2. /\ DOMAIN updates = 1..Len(updates) /\ DOMAIN updates' = 1..Len(updates')
              /\ Len(updates') \in Nat
          BY <1>2, <1>3 DEF DeskTypeOK, TypeOK
        <5> QED BY <2>1, <5>1, <5>2, SameLength
      <4> QED BY <2>3, <4>1, <4>2, StoreCalls DEF SaveBaseline, ApproveBaseline, RejectBaseline
    <3> QED BY <2>1, <3>1, <3>2
  <2> QED BY <2>2, <2>3
<1>6. DeskTypeOK'
  BY <1>1, <1>2, <1>3, <1>5 DEF DeskTypeOK
<1>7. Served(t)'
  <2>1. NamesRows(request[t])'
    BY <1>1, <1>2, RowsStay DEF DeskInv, DeskTypeOK, Served, NamesRows, Decision
  <2>2. IsDone(request[t])'
    BY StoreDoes
  <2> QED BY <1>4, <2>1, <2>2 DEF Served
<1>8. ASSUME NEW u \in Threads \ {t} PROVE Served(u)'
  BY <1>1, <1>2, <1>4, StillServed
<1>9. DoneIsDone'
  <2> SUFFICES ASSUME NEW u \in Threads, NEW v \in Threads, u # v PROVE Apart(u, v)'
    BY DEF DoneIsDone, Apart, Decision
  <2>1. ASSUME NEW q \in Threads \ {t}, outcome[q] = "done"
        PROVE  IsDone(request[q])
    BY <2>1 DEF DeskInv, Served
  <2>2. CASE u # t /\ v # t
    BY <1>1, <1>4, <2>2, AllApart DEF DeskInv, Apart
  <2>3. CASE u = t
    BY <1>1, <1>4, <2>1, <2>3, StoreDoes DEF Apart, IsDone, Decision
  <2>4. CASE v = t
    BY <1>1, <1>4, <2>1, <2>4, StoreDoes DEF Apart, IsDone, Decision
  <2> QED BY <2>2, <2>3, <2>4
<1> QED BY <1>6, <1>7, <1>8, <1>9 DEF DeskInv

LEMMA DeskStep ==
    ASSUME DeskInv, [DeskNext]_deskState
    PROVE  DeskInv'
<1>1. CASE Midnight \/ UNCHANGED deskState
  <2>1. /\ UNCHANGED <<baselines, updates, changeLog>> /\ UNCHANGED <<acceptedOn, counts>>
        /\ UNCHANGED <<step, request, checkedOn, from, outcome>>
    BY <1>1 DEF Midnight, deskState, storeVars, deskVars
  <2>2. today' \in Nat
    BY <1>1 DEF Midnight, deskState, DeskInv, DeskTypeOK
  <2>3. DeskTypeOK'
    BY <2>1, <2>2 DEF DeskInv, DeskTypeOK, TypeOK
  <2>4. \A t \in Threads : Served(t)'
    BY <2>1, StillServed DEF vars
  <2>5. DoneIsDone'
    BY <2>1 DEF DeskInv, DoneIsDone
  <2> QED BY <2>3, <2>4, <2>5 DEF DeskInv
<1> QED BY <1>1, DeskOnlyStep, StoringStep DEF DeskNext

LEMMA DeskStart ==
    ASSUME DeskInit PROVE DeskInv
<1>1. Init /\ today = 1
  BY DEF DeskInit
<1>2. TypeOK
  BY <1>1, SeedOK DEF Init, TypeOK, SeedOK
<1>3. acceptedOn \in Seq(Nat) /\ Len(acceptedOn) = Len(updates)
  <2>1. \A i \in DOMAIN SeedUpdates : StartDay[SeedUpdates[i].week] \in Nat
    BY SeedOK, CalendarOK, UpdateRow DEF SeedOK, CalendarOK
  <2>2. DOMAIN SeedUpdates = 1..Len(SeedUpdates) /\ Len(SeedUpdates) \in Nat
    BY SeedOK DEF SeedOK
  <2>3. acceptedOn \in [1..Len(SeedUpdates) -> Nat]
    BY <2>1, <2>2 DEF DeskInit
  <2> QED BY <1>1, <2>2, <2>3, RebuiltTable DEF Init
<1>4. DeskTypeOK
  BY <1>1, <1>2, <1>3, ConstantsOK DEF DeskInit, DeskTypeOK, ConstantsOK
<1>5. \A t \in Threads : Served(t)
  BY DEF DeskInit, Served, NamesRows, Decision, NoRequest
<1>6. DoneIsDone
  BY DEF DeskInit, DoneIsDone
<1> QED BY <1>4, <1>5, <1>6 DEF DeskInv

LEMMA DeskInductive == DeskSpec => []DeskInv
<1>1. DeskInv /\ [DeskNext]_deskState => DeskInv'
  BY DeskStep
<1> QED BY <1>1, DeskStart, PTL DEF DeskSpec

----------------------------------------------------------------------------
(* The calendar *)

\* Every day has a week of the term.
LEMMA WeekOfDay ==
    ASSUME NEW day \in Nat
    PROVE  CalendarWeek(day) \in Weeks
<1> DEFINE current == {c \in Weeks : StartDay[c] <= day /\ day <= EndDay[c]}
<1>1. Weeks = 1..NumWeeks /\ NumWeeks \in Nat \ {0}
  BY ConstantsOK DEF Weeks, ConstantsOK
<1>2. current # {} => Earliest(current) \in current
  <2>1. current \in SUBSET Nat
    BY <1>1
  <2> QED BY <2>1, EarliestRow
<1>3. CalendarWeek(day) = IF current # {} THEN Earliest(current)
                          ELSE IF day < StartDay[1] THEN 1 ELSE NumWeeks
  BY DEF CalendarWeek
<1> QED BY <1>1, <1>2, <1>3

\* Once two later weeks have begun, a week is not editable.
LEMMA OldWeeksAreClosed ==
    ASSUME NEW day \in Nat, NEW w \in Weeks, w \in Editable(day)
    PROVE  w + 2 \notin Begun(day)
<1> DEFINE current == {c \in Weeks : StartDay[c] <= day /\ day <= EndDay[c]}
<1> SUFFICES ASSUME w + 2 \in Weeks, StartDay[w + 2] <= day
             PROVE  w < CalendarWeek(day) - 1
  BY WeekOfDay, ConstantsOK DEF Begun, Editable, Weeks, ConstantsOK
<1>1. Weeks = 1..NumWeeks /\ NumWeeks \in Nat \ {0}
  BY ConstantsOK DEF Weeks, ConstantsOK
<1>2. \A c \in Weeks : StartDay[c] \in Nat /\ EndDay[c] \in Nat
  BY CalendarOK DEF CalendarOK
<1>3. CASE current # {}
  <2>1. current \in SUBSET Nat
    BY <1>1
  <2>2. Earliest(current) \in current
    BY <1>3, <2>1, EarliestRow
  <2>3. CalendarWeek(day) = Earliest(current)
    BY <1>3 DEF CalendarWeek
  <2>4. Earliest(current) >= w + 2
    <3>1. PICK c \in current : c = Earliest(current)
      BY <2>2
    <3>2. c \in Weeks /\ day <= EndDay[c]
      OBVIOUS
    <3>3. c < w + 2 => EndDay[c] < StartDay[w + 2]
      BY <3>2, CalendarOK DEF CalendarOK
    <3> QED BY <1>1, <1>2, <3>1, <3>2, <3>3
  <2> QED BY <1>1, <2>2, <2>3, <2>4
<1>4. CASE current = {}
  <2>1. StartDay[1] <= day
    <3>1. 1 \in Weeks /\ 1 < w + 2
      BY <1>1
    <3>2. StartDay[1] <= EndDay[1] /\ EndDay[1] < StartDay[w + 2]
      BY <3>1, CalendarOK DEF CalendarOK
    <3> QED BY <1>2, <3>1, <3>2
  <2>2. CalendarWeek(day) = NumWeeks
    BY <1>1, <1>2, <1>4, <2>1 DEF CalendarWeek
  <2> QED BY <1>1, <2>2
<1> QED BY <1>3, <1>4

\* A week that is over is before the week of the day, within the term.
LEMMA PastWeeksAreBefore ==
    ASSUME NEW day \in Nat, NEW w \in Weeks, EndDay[w] < day, day <= EndDay[NumWeeks]
    PROVE  w < CalendarWeek(day)
<1> DEFINE current == {c \in Weeks : StartDay[c] <= day /\ day <= EndDay[c]}
<1>1. Weeks = 1..NumWeeks /\ NumWeeks \in Nat \ {0}
  BY ConstantsOK DEF Weeks, ConstantsOK
<1>2. \A c \in Weeks : StartDay[c] \in Nat /\ EndDay[c] \in Nat /\ StartDay[c] <= EndDay[c]
  BY CalendarOK DEF CalendarOK
<1>3. \A b, c \in Weeks : b < c => EndDay[b] < StartDay[c]
  BY CalendarOK DEF CalendarOK
<1>4. CASE current # {}
  <2>1. current \in SUBSET Nat
    BY <1>1
  <2>2. Earliest(current) \in current
    BY <1>4, <2>1, EarliestRow
  <2>3. CalendarWeek(day) = Earliest(current)
    BY <1>4 DEF CalendarWeek
  <2>4. \A c \in current : w < c
    <3> SUFFICES ASSUME NEW c \in Weeks, StartDay[c] <= day, day <= EndDay[c] PROVE w < c
      OBVIOUS
    <3>1. c < w => EndDay[c] < StartDay[w]
      BY <1>3
    <3> QED BY <1>1, <1>2, <3>1
  <2> QED BY <2>2, <2>3, <2>4
<1>5. CASE current = {}
  <2>1. StartDay[1] <= day
    <3>1. 1 \in Weeks /\ (1 < w => EndDay[1] < StartDay[w])
      BY <1>1, <1>3
    <3> QED BY <1>1, <1>2, <3>1
  <2>2. CalendarWeek(day) = NumWeeks
    BY <1>1, <1>2, <1>5, <2>1 DEF CalendarWeek
  <2>3. w # NumWeeks
    BY <1>1, <1>2
  <2> QED BY <1>1, <2>2, <2>3
<1> QED BY <1>4, <1>5

----------------------------------------------------------------------------
(* Safety *)

\* Overlapping handlers, resent requests and midnight leave the tables a
\* behaviour of the store: all that is proved of the tables holds under them.
THEOREM DeskKeepsStore == DeskSpec => Spec
<1>1. DeskInit => Init
  BY DEF DeskInit
<1>2. DeskInv /\ [DeskNext]_deskState => [Next]_vars
  BY DeskMovesStore
<1> QED BY <1>1, <1>2, DeskInductive, PTL DEF DeskSpec, Spec

\* Handlers keep their requests, checks and answers within their types: what
\* passes a check is what the store is called with.
THEOREM DeskTypeCorrect == DeskSpec => []DeskTypeOK
<1>1. DeskInv => DeskTypeOK
  BY DEF DeskInv
<1> QED BY <1>1, DeskInductive, PTL

\* decide_baseline, reverse_weekly_update: no two clients are told that they have
\* decided or reversed the same row.
THEOREM DoneIsDoneAlways == DeskSpec => []DoneIsDone
<1>1. DeskInv => DoneIsDone
  BY DEF DeskInv
<1> QED BY <1>1, DeskInductive, PTL

\* An edit leaves the live rows of other weeks alone.
LEMMA OtherWeeksStay ==
    ASSUME TypeOK, NEW s \in Students, NEW w \in Weeks, NEW h \in Hours, SaveWeeklyUpdate(s, w, h),
           NEW t, NEW v, t # s \/ v # w
    PROVE  Live(updates', t, v) = Live(updates, t, v)
<1>1. PICK current \in AnyOf(Live(updates, s, w)) :
         \A k \in DOMAIN updates :
            /\ updates'[k].student = updates[k].student
            /\ updates'[k].week = updates[k].week
            /\ updates'[k].reversed = updates[k].reversed
            /\ updates'[k].supersededBy =
                  IF k = current THEN Len(updates) + 1 ELSE updates[k].supersededBy
  BY SetRow
<1>2. /\ Len(updates) \in Nat /\ DOMAIN updates = 1..Len(updates)
      /\ DOMAIN updates' = 1..(Len(updates) + 1)
      /\ updates'[Len(updates) + 1].student = s /\ updates'[Len(updates) + 1].week = w
  BY SetRow
<1>3. current \in DOMAIN updates => updates[current].student = s /\ updates[current].week = w
  <2>1. 0 \notin DOMAIN updates
    BY <1>2
  <2> QED BY <1>1, <2>1, AnyOfRows DEF Live
<1>4. \A k : k \in DOMAIN updates' <=> k \in DOMAIN updates \/ k = Len(updates) + 1
  BY <1>2
<1>5. ASSUME NEW k
      PROVE  k \in Live(updates', t, v) <=> k \in Live(updates, t, v)
  <2>1. CASE k \in DOMAIN updates
    BY <1>1, <1>3, <1>4, <2>1 DEF Live
  <2>2. CASE k = Len(updates) + 1
    BY <1>2, <2>2 DEF Live
  <2>3. CASE k \notin DOMAIN updates /\ k # Len(updates) + 1
    BY <1>4, <2>3 DEF Live
  <2> QED BY <2>1, <2>2, <2>3
<1> QED BY <1>5

\* save_weekly_update: no check passes for a week after which two weeks have
\* begun, so only edits that were accepted before, and reversals, reach it.
THEOREM OlderWeeksAlwaysLocked == DeskSpec => OlderWeeksAreLocked
<1> DEFINE Locked(s, w) ==
       w + 2 \in Begun(today) /\ ~InFlight(s, w) =>
          \/ Live(updates', s, w) = Live(updates, s, w)
          \/ \E i \in DOMAIN updates : ~updates[i].reversed /\ updates'[i].reversed
<1>1. DeskInv /\ [DeskNext]_deskState => \A s \in Students, w \in Weeks : Locked(s, w)
  <2> SUFFICES ASSUME DeskInv, [DeskNext]_deskState, NEW s \in Students, NEW w \in Weeks,
                      ~InFlight(s, w)
               PROVE  \/ Live(updates', s, w) = Live(updates, s, w)
                      \/ \E i \in DOMAIN updates : ~updates[i].reversed /\ updates'[i].reversed
    OBVIOUS
  <2>1. TypeOK
    BY DEF DeskInv, DeskTypeOK
  <2>2. CASE updates' = updates
    BY <2>2
  <2>3. ASSUME NEW t \in Threads, Store(t), request[t].kind = "putWeek"
        PROVE  Live(updates', s, w) = Live(updates, s, w)
    <3> DEFINE r == request[t]
    <3>1. /\ r.student \in Students /\ r.hours \in Hours /\ r.week \in Weeks
          /\ r.week \in Editable(checkedOn[t])
          /\ SaveWeeklyUpdate(r.student, r.week, r.hours)
      BY <2>3, StoreCalls
    <3>2. checkedOn[t] \in Nat /\ step[t] = "store"
      BY <2>3 DEF DeskInv, DeskTypeOK, Store
    <3>3. r.student # s \/ r.week # w
      BY <2>3, <3>1, <3>2, OldWeeksAreClosed DEF InFlight
    <3> QED BY <2>1, <3>1, <3>3, OtherWeeksStay
  <2>4. ASSUME NEW t \in Threads, Store(t), request[t].kind = "reverse"
        PROVE  \E i \in DOMAIN updates : ~updates[i].reversed /\ updates'[i].reversed
    <3>1. PICK i \in DOMAIN updates : ReverseWeeklyUpdate(i)
      BY <2>4, StoreCalls
    <3> QED BY <2>1, <3>1, ReversedRow
  <2>5. ASSUME NEW t \in Threads, Store(t), request[t].kind \notin {"putWeek", "reverse"}
        PROVE  updates' = updates
    BY <2>5, StoreCalls DEF SaveBaseline, ApproveBaseline, RejectBaseline
  <2>6. (\E t \in Threads : Store(t)) \/ updates' = updates
    BY DEF DeskNext, Receive, Check, RefuseCheck, RefuseStore, Deliver, Resend, Midnight,
       deskState, storeVars
  <2> QED BY <2>2, <2>3, <2>4, <2>5, <2>6
<1>2. DeskInv /\ [DeskNext]_deskState
         => [\A s \in Students, w \in Weeks : Locked(s, w)]_deskState
  BY <1>1
<1> QED BY <1>2, DeskInductive, PTL DEF DeskSpec, OlderWeeksAreLocked

\* decide_baseline: an approval without a week takes effect in the week of the day
\* it was checked, and in no week that was over then.
THEOREM EarlierWeeksKept == DeskSpec => DefaultKeepsEarlierWeeks
<1> DEFINE Kept(t, w) ==
       LET r == request[t]
           s == baselines[r.row].student
       IN  /\ Store(t)
           /\ r.kind = "approve" /\ r.week = 0
           /\ EndDay[w] < checkedOn[t] /\ checkedOn[t] <= EndDay[NumWeeks]
           => HoursInEffectNext(s, w).source # "baseline"
<1>1. DeskInv => \A t \in Threads, w \in Weeks : Kept(t, w)
  <2> SUFFICES ASSUME DeskInv, NEW t \in Threads, NEW w \in Weeks, Store(t),
                      request[t].kind = "approve", request[t].week = 0,
                      EndDay[w] < checkedOn[t], checkedOn[t] <= EndDay[NumWeeks]
               PROVE  HoursInEffectNext(baselines[request[t].row].student, w).source # "baseline"
    OBVIOUS
  <2> DEFINE i == request[t].row
             s == baselines[i].student
  <2>1. TypeOK /\ checkedOn[t] \in Nat
    BY DEF DeskInv, DeskTypeOK
  <2>2. i \in DOMAIN baselines /\ from[t] \in Weeks /\ ApproveBaseline(i, from[t])
    BY StoreCalls
  <2>3. from[t] = CalendarWeek(checkedOn[t])
    BY DEF DeskInv, Served, Store
  <2>4. w < from[t]
    BY <2>1, <2>3, PastWeeksAreBefore
  <2>5. /\ Approved(baselines', s) = {i} /\ baselines'[i].effectiveFrom = from[t]
        /\ Newest({i}) = i
    <3>1. i \in Nat \ {0}
      BY <2>1, <2>2 DEF TypeOK
    <3>2. {i} \in SUBSET (1..i)
      BY <3>1
    <3>3. Newest({i}) = i
      BY <3>1, <3>2, OnlyNewest
    <3> QED BY <2>1, <2>2, <3>3, ApprovedApproved
  <2>6. w \in Nat /\ from[t] \in Nat \ {0}
    BY <2>2, ConstantsOK DEF Weeks, ConstantsOK
  <2>7. ~(w >= FirstWeek(baselines'[i]))
    BY <2>4, <2>5, <2>6 DEF FirstWeek
  <2> QED BY <2>5, <2>7 DEF HoursInEffectNext, ResolveHours
<1>2. DeskInv => [\A t \in Threads, w \in Weeks : Kept(t, w)]_deskState
  BY <1>1
<1> QED BY <1>2, DeskInductive, PTL DEF DeskSpec, DefaultKeepsEarlierWeeks

----------------------------------------------------------------------------
(* The log of decisions *)

LoggedDecisions(s) == LoggedFor(s, {"baseline.approve", "baseline.reject"})

\* Seeded decisions stay decided.
SeedDecided ==
    \A i \in DOMAIN SeedBaselines :
        i \in DOMAIN baselines /\ (SeedBaselines[i].status # "pending" => baselines[i].status # "pending")

LogInv == TypeOK /\ SeedDecided /\ EveryDecisionIsLoggedOnce

LEMMA BothFinite ==
    ASSUME TypeOK, NEW s
    PROVE  IsFiniteSet(LoggedDecisions(s)) /\ IsFiniteSet(DecidedSince(s))
<1>1. /\ Len(changeLog) \in Nat /\ LoggedDecisions(s) \in SUBSET (1..Len(changeLog))
      /\ Len(baselines) \in Nat /\ DecidedSince(s) \in SUBSET (1..Len(baselines))
  BY DEF TypeOK, LoggedDecisions, LoggedFor, DecidedSince
<1>2. IsFiniteSet(1..Len(changeLog)) /\ IsFiniteSet(1..Len(baselines))
  BY <1>1, FS_Interval
<1> QED BY <1>1, <1>2, FS_Subset

\* An entry counts for its student if it is a decision.
LEMMA LogGrows ==
    ASSUME TypeOK, TypeOK', NEW action, NEW s, NEW w, NEW old, NEW new, NEW first,
           AddLog(action, s, w, old, new, first), NEW t
    PROVE  /\ Len(changeLog) + 1 \notin LoggedDecisions(t)
           /\ LoggedDecisions(t)' =
                 IF s = t /\ action \in {"baseline.approve", "baseline.reject"}
                 THEN LoggedDecisions(t) \cup {Len(changeLog) + 1}
                 ELSE LoggedDecisions(t)
<1> DEFINE entry == [action |-> action, student |-> s, week |-> w,
                     old |-> old, new |-> new, from |-> first]
<1>1. changeLog' = Append(changeLog, entry)
  BY DEF AddLog
<1>2. entry \in LogEntry
  BY <1>1, AppendedEntry
<1>3. entry.student = s /\ entry.action = action
  OBVIOUS
<1> HIDE DEF entry
<1>4. /\ Len(changeLog) \in Nat /\ DOMAIN changeLog = 1..Len(changeLog)
      /\ DOMAIN changeLog' = 1..(Len(changeLog) + 1)
      /\ changeLog'[Len(changeLog) + 1] = entry
      /\ \A n \in DOMAIN changeLog : changeLog'[n] = changeLog[n]
  BY <1>1, <1>2, TableRows DEF TypeOK
<1>5. \A n : n \in DOMAIN changeLog' <=> n \in DOMAIN changeLog \/ n = Len(changeLog) + 1
  BY <1>4
<1>6. Len(changeLog) + 1 \notin DOMAIN changeLog
  BY <1>4
<1> QED BY <1>3, <1>4, <1>5, <1>6 DEF LoggedDecisions, LoggedFor

\* A decision on row i adds that row, and no other, to what has been decided.
LEMMA DecidedGrows ==
    ASSUME TypeOK, SeedDecided, NEW i \in DOMAIN baselines, baselines[i].status = "pending",
           DOMAIN baselines' = DOMAIN baselines,
           baselines'[i].student = baselines[i].student, baselines'[i].status # "pending",
           \A j \in DOMAIN baselines : j # i =>
               /\ baselines'[j].student = baselines[j].student
               /\ baselines'[j].status = "pending" <=> baselines[j].status = "pending",
           NEW t
    PROVE  /\ i \notin DecidedSince(t)
           /\ DecidedSince(t)' = IF baselines[i].student = t THEN DecidedSince(t) \cup {i}
                                 ELSE DecidedSince(t)
<1>1. i \in DOMAIN SeedBaselines => SeedBaselines[i].status = "pending"
  BY DEF SeedDecided
<1> QED BY <1>1 DEF DecidedSince

\* Both sets grow by one element, or neither grows.
LEMMA BothGrow ==
    ASSUME TypeOK, EveryDecisionIsLoggedOnce, NEW t \in Students, NEW n, NEW i,
           \/ /\ LoggedDecisions(t)' = LoggedDecisions(t)
              /\ DecidedSince(t)' = DecidedSince(t)
           \/ /\ LoggedDecisions(t)' = LoggedDecisions(t) \cup {n} /\ n \notin LoggedDecisions(t)
              /\ DecidedSince(t)' = DecidedSince(t) \cup {i} /\ i \notin DecidedSince(t)
    PROVE  Cardinality(LoggedDecisions(t))' = Cardinality(DecidedSince(t))'
<1>1. Cardinality(LoggedDecisions(t)) = Cardinality(DecidedSince(t))
  BY DEF EveryDecisionIsLoggedOnce, LoggedDecisions
<1>2. CASE LoggedDecisions(t)' = LoggedDecisions(t) /\ DecidedSince(t)' = DecidedSince(t)
  BY <1>1, <1>2
<1>3. CASE /\ LoggedDecisions(t)' = LoggedDecisions(t) \cup {n} /\ n \notin LoggedDecisions(t)
           /\ DecidedSince(t)' = DecidedSince(t) \cup {i} /\ i \notin DecidedSince(t)
  <2>1. /\ Cardinality(LoggedDecisions(t) \cup {n}) = Cardinality(LoggedDecisions(t)) + 1
        /\ Cardinality(DecidedSince(t) \cup {i}) = Cardinality(DecidedSince(t)) + 1
    BY <1>3, BothFinite, FS_AddElement
  <2> QED BY <1>1, <1>3, <2>1
<1> QED BY <1>2, <1>3

LEMMA LogStep ==
    ASSUME LogInv, [Next]_vars
    PROVE  LogInv'
<1>1. TypeOK /\ TypeOK' /\ SeedDecided /\ EveryDecisionIsLoggedOnce
  BY RowsKept DEF LogInv
<1>2. SeedDecided'
  BY <1>1, RowsStay DEF SeedDecided
<1>3. EveryDecisionIsLoggedOnce'
  <2> SUFFICES ASSUME NEW t \in Students
               PROVE  Cardinality(LoggedDecisions(t))' = Cardinality(DecidedSince(t))'
    BY DEF EveryDecisionIsLoggedOnce, LoggedDecisions
  <2>1. ASSUME NEW i \in DOMAIN baselines, NEW first \in Weeks, ApproveBaseline(i, first)
        PROVE  Cardinality(LoggedDecisions(t))' = Cardinality(DecidedSince(t))'
    <3>1. /\ i \notin DecidedSince(t)
          /\ DecidedSince(t)' = IF baselines[i].student = t THEN DecidedSince(t) \cup {i}
                                ELSE DecidedSince(t)
      <4>1. /\ DOMAIN baselines' = DOMAIN baselines
            /\ baselines[i].status = "pending" /\ baselines'[i].status = "approved"
            /\ \A j \in DOMAIN baselines :
                  /\ baselines'[j].student = baselines[j].student
                  /\ j # i => baselines'[j] = IF j \in Approved(baselines, baselines[i].student)
                                              THEN [baselines[j] EXCEPT !.status = "superseded"]
                                              ELSE baselines[j]
            /\ \A j \in Approved(baselines, baselines[i].student) :
                  j # i /\ baselines'[j].status = "superseded"
        BY <1>1, <2>1, ApprovedRow
      <4>2. \A j \in DOMAIN baselines : j # i =>
               (baselines'[j].status = "pending" <=> baselines[j].status = "pending")
        BY <4>1 DEF Approved
      <4> QED BY <1>1, <4>1, <4>2, DecidedGrows
    <3>2. /\ Len(changeLog) + 1 \notin LoggedDecisions(t)
          /\ LoggedDecisions(t)' = IF baselines[i].student = t
                                   THEN LoggedDecisions(t) \cup {Len(changeLog) + 1}
                                   ELSE LoggedDecisions(t)
      <4>1. PICK j \in AnyOf(Displaced(i)) :
               AddLog("baseline.approve", baselines[i].student, 0,
                      IF j = 0 THEN NoValues ELSE baselines[j].hours, baselines[i].hours, first)
        BY <2>1 DEF ApproveBaseline
      <4> QED BY <1>1, <4>1, LogGrows
    <3> QED BY <1>1, <3>1, <3>2, BothGrow
  <2>2. ASSUME NEW i \in DOMAIN baselines, RejectBaseline(i)
        PROVE  Cardinality(LoggedDecisions(t))' = Cardinality(DecidedSince(t))'
    <3>1. /\ i \notin DecidedSince(t)
          /\ DecidedSince(t)' = IF baselines[i].student = t THEN DecidedSince(t) \cup {i}
                                ELSE DecidedSince(t)
      <4>1. /\ DOMAIN baselines' = DOMAIN baselines
            /\ baselines[i].status = "pending" /\ baselines'[i].status = "rejected"
            /\ baselines'[i].student = baselines[i].student
            /\ \A j \in DOMAIN baselines : j # i => baselines'[j] = baselines[j]
        <5>1. baselines[i] \in Baseline
          BY <1>1, BaselineRow DEF TypeOK
        <5>2. baselines'[i] = [baselines[i] EXCEPT !.status = "rejected"]
          BY <2>2 DEF RejectBaseline
        <5>3. baselines'[i].student = baselines[i].student
          BY <5>1, <5>2 DEF Baseline
        <5> QED BY <1>1, <2>2, <5>3, RejectedRow
      <4> QED BY <1>1, <4>1, DecidedGrows
    <3>2. /\ Len(changeLog) + 1 \notin LoggedDecisions(t)
          /\ LoggedDecisions(t)' = IF baselines[i].student = t
                                   THEN LoggedDecisions(t) \cup {Len(changeLog) + 1}
                                   ELSE LoggedDecisions(t)
      BY <1>1, <2>2, LogGrows DEF RejectBaseline
    <3> QED BY <1>1, <3>1, <3>2, BothGrow
  <2>3. ASSUME NEW s \in Students, NEW h \in Hours, SaveBaseline(s, h)
        PROVE  Cardinality(LoggedDecisions(t))' = Cardinality(DecidedSince(t))'
    <3>1. DecidedSince(t)' = DecidedSince(t)
      BY <1>1, <2>3, SubmittedRow DEF DecidedSince
    <3>2. LoggedDecisions(t)' = LoggedDecisions(t)
      BY <1>1, <2>3, LogGrows DEF SaveBaseline
    <3> QED BY <1>1, <3>1, <3>2, BothGrow
  <2>4. ASSUME NEW s \in Students, NEW w \in Weeks, NEW h \in Hours, SaveWeeklyUpdate(s, w, h)
        PROVE  Cardinality(LoggedDecisions(t))' = Cardinality(DecidedSince(t))'
    <3>1. DecidedSince(t)' = DecidedSince(t)
      BY <2>4 DEF SaveWeeklyUpdate, DecidedSince
    <3>2. LoggedDecisions(t)' = LoggedDecisions(t)
      BY <1>1, <2>4, LogGrows DEF SaveWeeklyUpdate
    <3> QED BY <1>1, <3>1, <3>2, BothGrow
  <2>5. ASSUME NEW i \in DOMAIN updates, ReverseWeeklyUpdate(i)
        PROVE  Cardinality(LoggedDecisions(t))' = Cardinality(DecidedSince(t))'
    <3>1. DecidedSince(t)' = DecidedSince(t)
      BY <2>5 DEF ReverseWeeklyUpdate, DecidedSince
    <3>2. LoggedDecisions(t)' = LoggedDecisions(t)
      BY <1>1, <2>5, LogGrows DEF ReverseWeeklyUpdate
    <3> QED BY <1>1, <3>1, <3>2, BothGrow
  <2>6. CASE UNCHANGED vars
    <3>1. LoggedDecisions(t)' = LoggedDecisions(t) /\ DecidedSince(t)' = DecidedSince(t)
      BY <2>6 DEF vars, LoggedDecisions, LoggedFor, DecidedSince
    <3> QED BY <1>1, <3>1, BothGrow
  <2> QED BY <2>1, <2>2, <2>3, <2>4, <2>5, <2>6 DEF Next
<1> QED BY <1>1, <1>2, <1>3 DEF LogInv

\* decide_baseline: one log entry for each decision taken since the seed, however
\* often and by whomever it is asked for.
THEOREM DecisionsLoggedOnce == DeskSpec => []EveryDecisionIsLoggedOnce
<1>1. Init => LogInv
  <2> SUFFICES ASSUME Init PROVE LogInv
    OBVIOUS
  <2>1. TypeOK /\ SeedDecided
    BY SeedOK DEF Init, TypeOK, SeedDecided, SeedOK
  <2>2. \A s : LoggedDecisions(s) = {} /\ DecidedSince(s) = {}
    BY DEF Init, LoggedDecisions, LoggedFor, DecidedSince
  <2>3. EveryDecisionIsLoggedOnce
    BY <2>2 DEF EveryDecisionIsLoggedOnce, LoggedDecisions
  <2> QED BY <2>1, <2>3 DEF LogInv
<1>2. LogInv /\ [Next]_vars => LogInv'
  BY LogStep
<1>3. LogInv => EveryDecisionIsLoggedOnce
  BY DEF LogInv
<1> QED BY <1>1, <1>2, <1>3, DeskKeepsStore, PTL DEF Spec
=============================================================================
