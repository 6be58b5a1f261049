----------------------------- MODULE PageProofs -----------------------------
(***************************************************************************)
(* Theorems about Page, for every set of classes, students and weeks and   *)
(* any number of gestures and requests.                                    *)
(***************************************************************************)
EXTENDS Page, SequenceTheorems, TLAPS

\* A tab on screen is one of the user's role.
RoleTabs(p) ==
    /\ p.user = Instructor => p.tab \in InstructorTabs
    /\ p.user \in Students => p.tab \in StudentTabs

IsBootstrap(r) == r.op = "bootstrap"

\* Bootstraps are overtaken from the oldest on.
LateFirst(q) ==
    \A j, i \in 1..Len(q) :
        j < i /\ IsBootstrap(q[i]) /\ IsBootstrap(q[j]) /\ q[i].late => q[j].late

\* A bootstrap that has not been overtaken is under way.
Pending(q) == \E i \in 1..Len(q) : IsBootstrap(q[i]) /\ ~q[i].late

\* So is one, or a load: something that ends the loading.
Cause(q) == Pending(q) \/ \E i \in 1..Len(q) : q[i].op \in Tabs

\* What the page still waits for is under way, unless a bootstrap has failed.
Awaited(p, q, past) ==
    p.user # None /\ "class" \notin past
    => /\ p.loading => Cause(q)
       /\ p.boot = None => Pending(q)

\* Nothing that the instructor's own panels show is open in Present mode.
Closed(p) == p.present => p.open \cap {"drawer", "weights", "explainer"} = {}

\* The inductive invariant, but for the count of gestures.
Sound(p, q, past) ==
    /\ p \in PageState /\ q \in Seq(Requests) /\ past \subseteq {"class", "view", "weights"}
    /\ RoleTabs(p)
    /\ LateFirst(q)
    /\ Awaited(p, q, past)
    /\ Closed(p)

PageInv == Sound(page, flight, slips) /\ gestures \in 0..MaxGestures

----------------------------------------------------------------------------
(* Fields of the page *)

\* One field of the page may be anything of the field's type.
LEMMA Fields ==
    ASSUME NEW p \in PageState
    PROVE  /\ \A v \in Students \cup {Instructor, None} : [p EXCEPT !.user = v] \in PageState
           /\ \A v \in Tabs : [p EXCEPT !.tab = v] \in PageState
           /\ \A v \in Classes : [p EXCEPT !.klass = v] \in PageState
           /\ \A v \in Classes \cup {None, Partial} : [p EXCEPT !.boot = v] \in PageState
           /\ \A v \in Weeks : [p EXCEPT !.week = v] \in PageState
           /\ \A v \in Classes \cup {None} : [p EXCEPT !.weights = v] \in PageState
           /\ \A v \in BOOLEAN : [p EXCEPT !.present = v] \in PageState
           /\ \A v \in BOOLEAN : [p EXCEPT !.loading = v] \in PageState
           /\ \A v \in BOOLEAN : [p EXCEPT !.error = v] \in PageState
           /\ \A v \in {None} \cup Content : [p EXCEPT !.shown = v] \in PageState
           /\ \A v \in SUBSET Panels : [p EXCEPT !.open = v] \in PageState
           /\ \A v \in Students \cup {None} : [p EXCEPT !.record = v] \in PageState
           /\ \A v \in BOOLEAN : [p EXCEPT !.draft = v] \in PageState
  BY DEF PageState

----------------------------------------------------------------------------
(* Requests *)

\* The request of a load that can begin.
LEMMA LoadOfType ==
    ASSUME PageConstants, NEW p \in PageState, NEW tab \in Tabs, CanLoad(p, tab)
    PROVE  LoadOf(p, tab) \in Requests /\ LoadOf(p, tab).op = tab /\ LoadOf(p, tab).late = FALSE
  <1>1. /\ p.klass \in Classes \cup {None} /\ p.week \in Weeks \cup {None}
        /\ p.weights \in Classes \cup {None} /\ None \in Classes \cup {None} /\ None \in Weeks \cup {None}
        /\ None \in Students \cup {None}
    BY DEF PageState
  <1>2. tab \in {"me", "standing", "commitments"} => p.user \in Students \cup {None}
    BY DEF CanLoad, StudentTabs
  <1>3. tab \in {"me", "standing", "commitments", "league", "risk", "approvals"} /\ tab \in Operations
    BY DEF Tabs, StudentTabs, InstructorTabs, Operations
  <1>4. PICK klass \in Classes \cup {None}, week \in Weeks \cup {None},
             student \in Students \cup {None}, weights \in Classes \cup {None} :
                LoadOf(p, tab) = Request(tab, klass, week, student, weights)
    <2>1. CASE tab = "league"
      <3>1. LoadOf(p, tab) = Request(tab, p.klass, p.week, None, p.weights)
        BY <2>1 DEF LoadOf
      <3> QED BY <1>1, <3>1
    <2>2. CASE tab = "me"
      <3>1. LoadOf(p, tab) = Request(tab, p.klass, p.week, p.user, p.weights)
        BY <2>2 DEF LoadOf
      <3> QED BY <1>1, <1>2, <2>2, <3>1
    <2>3. CASE tab = "risk"
      <3>1. LoadOf(p, tab) = Request(tab, None, p.week, None, None)
        BY <2>3 DEF LoadOf
      <3> QED BY <1>1, <3>1
    <2>4. CASE tab = "approvals"
      <3>1. LoadOf(p, tab) = Request(tab, p.klass, None, None, None)
        BY <2>4 DEF LoadOf
      <3> QED BY <1>1, <3>1
    <2>5. CASE tab \in {"standing", "commitments"}
      <3>1. LoadOf(p, tab) = Request(tab, p.klass, None, p.user, None)
        BY <2>5 DEF LoadOf
      <3> QED BY <1>1, <1>2, <2>5, <3>1
    <2> QED BY <1>3, <2>1, <2>2, <2>3, <2>4, <2>5
  <1>5. tab \notin {"bootstrap", "applyWeights", "record", "note", "noteRecord"}
    BY <1>3
  <1>6. /\ Request(tab, klass, week, student, weights) \in Requests
        /\ Request(tab, klass, week, student, weights).op = tab
        /\ Request(tab, klass, week, student, weights).late = FALSE
    BY <1>3, <1>5 DEF Request, Requests
  <1> QED BY <1>4, <1>6

\* What the continuations and gestures send otherwise.
LEMMA RequestType ==
    ASSUME NEW op \in Operations, NEW klass \in Classes \cup {None}, NEW student \in Students \cup {None},
           op \in {"bootstrap", "applyWeights"} => klass \in Classes,
           op \in {"record", "note", "noteRecord"} => student \in Students
    PROVE  /\ Request(op, klass, None, student, None) \in Requests
           /\ Request(op, klass, None, student, None).op = op
           /\ Request(op, klass, None, student, None).late = FALSE
  BY DEF Request, Requests

\* Sending keeps what is under way and adds a fresh request.
LEMMA Sent ==
    ASSUME NEW q \in Seq(Requests), NEW r \in Requests, ~r.late
    PROVE  /\ Append(q, r) \in Seq(Requests)
           /\ LateFirst(q) => LateFirst(Append(q, r))
           /\ Pending(q) => Pending(Append(q, r))
           /\ Cause(q) => Cause(Append(q, r))
           /\ IsBootstrap(r) => Pending(Append(q, r))
           /\ r.op \in Tabs => Cause(Append(q, r))
  <1> DEFINE next == Append(q, r)
  <1>1. /\ next \in Seq(Requests) /\ Len(q) \in Nat /\ Len(next) = Len(q) + 1 /\ next[Len(q) + 1] = r
        /\ \A i \in 1..Len(q) : next[i] = q[i] /\ i \in 1..Len(next)
        /\ Len(q) + 1 \in 1..Len(next)
    OBVIOUS
  <1> HIDE DEF next
  <1>2. LateFirst(q) => LateFirst(next)
    BY <1>1 DEF LateFirst
  <1>3. Pending(q) => Pending(next)
    BY <1>1 DEF Pending
  <1>4. Cause(q) => Cause(next)
    BY <1>1, <1>3 DEF Cause
  <1>5. IsBootstrap(r) => Pending(next)
    BY <1>1 DEF Pending
  <1>6. r.op \in Tabs => Cause(next)
    BY <1>1 DEF Cause
  <1> QED BY <1>1, <1>2, <1>3, <1>4, <1>5, <1>6 DEF next

----------------------------------------------------------------------------
(* What is left under way *)

Marked(i) ==
    [j \in DOMAIN flight |->
        IF j < i /\ SameKind(flight[j], flight[i]) THEN [flight[j] EXCEPT !.late = TRUE] ELSE flight[j]]

\* Overtaken requests stay the requests they are.
LEMMA MarkedType ==
    ASSUME flight \in Seq(Requests), NEW i \in 1..Len(flight)
    PROVE  /\ Marked(i) \in Seq(Requests) /\ Len(Marked(i)) = Len(flight)
           /\ \A j \in 1..Len(flight) :
                 /\ Marked(i)[j].op = flight[j].op
                 /\ Marked(i)[j].late = (flight[j].late \/ (j < i /\ SameKind(flight[j], flight[i])))
  <1>1. Len(flight) \in Nat /\ DOMAIN flight = 1..Len(flight)
    BY LenProperties
  <1>2. ASSUME NEW j \in 1..Len(flight)
        PROVE  /\ Marked(i)[j] \in Requests
               /\ Marked(i)[j].op = flight[j].op
               /\ Marked(i)[j].late = (flight[j].late \/ (j < i /\ SameKind(flight[j], flight[i])))
    <2>1. flight[j] \in Requests
      BY ElementOfSeq
    <2>2. flight[j].late \in BOOLEAN
      BY <2>1 DEF Requests
    <2>3. CASE j < i /\ SameKind(flight[j], flight[i])
      <3>1. Marked(i)[j] = [flight[j] EXCEPT !.late = TRUE]
        BY <1>1, <2>3 DEF Marked
      <3> QED BY <2>1, <2>3, <3>1 DEF Requests
    <2>4. CASE ~(j < i /\ SameKind(flight[j], flight[i]))
      <3>1. Marked(i)[j] = flight[j]
        BY <1>1, <2>4 DEF Marked
      <3> QED BY <2>1, <2>2, <2>4, <3>1
    <2> QED BY <2>3, <2>4
  <1>3. Marked(i) \in [1..Len(flight) -> Requests]
    BY <1>1, <1>2 DEF Marked
  <1>4. Marked(i) \in Seq(Requests)
    BY <1>1, <1>3, SeqDef
  <1>5. Len(Marked(i)) = Len(flight)
    BY <1>1, <1>3, <1>4, LenProperties
  <1> QED BY <1>2, <1>4, <1>5

\* A sequence without its i-th element.
LEMMA RemoveAtProperties ==
    ASSUME NEW S, NEW s \in Seq(S), NEW i \in 1..Len(s)
    PROVE  /\ RemoveAt(s, i) \in Seq(S)
           /\ Len(RemoveAt(s, i)) = Len(s) - 1
           /\ \A k \in 1..(Len(s) - 1) : RemoveAt(s, i)[k] = IF k < i THEN s[k] ELSE s[k + 1]
  <1>1. Len(s) \in Nat /\ i \in Int /\ i >= 1 /\ i <= Len(s) /\ \A k \in 1..Len(s) : s[k] \in S
    BY LenProperties, ElementOfSeq
  <1>2. PICK front : front = SubSeq(s, 1, i - 1)
    OBVIOUS
  <1>3. PICK rest : rest = SubSeq(s, i + 1, Len(s))
    OBVIOUS
  <1>4. /\ front \in Seq(S) /\ Len(front) = i - 1
        /\ \A k \in 1..(i - 1) : front[k] = s[k]
    <2>1. /\ front \in Seq(S) /\ Len(front) = IF 1 <= i - 1 THEN (i - 1) - 1 + 1 ELSE 0
          /\ \A k \in 1..((i - 1) - 1 + 1) : front[k] = s[1 + k - 1]
      BY <1>1, <1>2, SubSeqProperties
    <2> QED BY <1>1, <2>1
  <1>5. /\ rest \in Seq(S) /\ Len(rest) = Len(s) - i
        /\ \A k \in 1..(Len(s) - i) : rest[k] = s[i + k]
    <2>1. /\ rest \in Seq(S) /\ Len(rest) = IF i + 1 <= Len(s) THEN Len(s) - (i + 1) + 1 ELSE 0
          /\ \A k \in 1..(Len(s) - (i + 1) + 1) : rest[k] = s[(i + 1) + k - 1]
      BY <1>1, <1>3, SubSeqProperties
    <2> QED BY <1>1, <2>1
  <1>6. RemoveAt(s, i) = front \o rest
    BY <1>2, <1>3 DEF RemoveAt
  <1>7. /\ front \o rest \in Seq(S) /\ Len(front \o rest) = Len(front) + Len(rest)
        /\ \A k \in 1..(Len(front) + Len(rest)) :
              (front \o rest)[k] = IF k <= Len(front) THEN front[k] ELSE rest[k - Len(front)]
    BY <1>4, <1>5, ConcatProperties
  <1> QED BY <1>1, <1>4, <1>5, <1>6, <1>7

\* What is under way but the i-th request stays under way, in the same order.
LEMMA RestKeeps ==
    ASSUME flight \in Seq(Requests), NEW i \in 1..Len(flight)
    PROVE  /\ Rest(i) \in Seq(Requests)
           /\ \A j \in 1..Len(flight) :
                 j # i => \E k \in 1..Len(Rest(i)) : Rest(i)[k] = Marked(i)[j]
           /\ \A h, k \in 1..Len(Rest(i)) :
                 h < k => \E g, j \in 1..Len(flight) :
                             /\ g < j /\ g # i /\ j # i
                             /\ Rest(i)[h] = Marked(i)[g] /\ Rest(i)[k] = Marked(i)[j]
  <1>1. Rest(i) = RemoveAt(Marked(i), i)
    BY DEF Rest, Marked
  <1>2. Marked(i) \in Seq(Requests) /\ Len(Marked(i)) = Len(flight) /\ Len(flight) \in Nat
    BY MarkedType, LenProperties
  <1>3. /\ Rest(i) \in Seq(Requests) /\ Len(Rest(i)) = Len(flight) - 1
        /\ \A k \in 1..(Len(flight) - 1) :
              Rest(i)[k] = IF k < i THEN Marked(i)[k] ELSE Marked(i)[k + 1]
    <2>1. i \in 1..Len(Marked(i))
      BY <1>2
    <2>2. /\ RemoveAt(Marked(i), i) \in Seq(Requests)
          /\ Len(RemoveAt(Marked(i), i)) = Len(Marked(i)) - 1
          /\ \A k \in 1..(Len(Marked(i)) - 1) :
                RemoveAt(Marked(i), i)[k] = IF k < i THEN Marked(i)[k] ELSE Marked(i)[k + 1]
      BY <1>2, <2>1, RemoveAtProperties
    <2> QED BY <1>1, <1>2, <2>2
  <1>4. ASSUME NEW j \in 1..Len(flight), j # i
        PROVE  \E k \in 1..Len(Rest(i)) : Rest(i)[k] = Marked(i)[j]
    <2>1. CASE j < i
      <3>1. j \in 1..Len(Rest(i)) /\ Rest(i)[j] = Marked(i)[j]
        BY <1>2, <1>3, <2>1
      <3> QED BY <3>1
    <2>2. CASE j > i
      <3>1. j - 1 \in 1..Len(Rest(i)) /\ Rest(i)[j - 1] = Marked(i)[j]
        BY <1>2, <1>3, <2>2
      <3> QED BY <3>1
    <2> QED BY <1>2, <1>4, <2>1, <2>2
  <1>5. ASSUME NEW h \in 1..Len(Rest(i)), NEW k \in 1..Len(Rest(i)), h < k
        PROVE  \E g, j \in 1..Len(flight) :
                  /\ g < j /\ g # i /\ j # i
                  /\ Rest(i)[h] = Marked(i)[g] /\ Rest(i)[k] = Marked(i)[j]
    <2>1. PICK g \in 1..Len(flight) : g = IF h < i THEN h ELSE h + 1
      BY <1>2, <1>3
    <2>2. PICK j \in 1..Len(flight) : j = IF k < i THEN k ELSE k + 1
      BY <1>2, <1>3
    <2>3. g < j /\ g # i /\ j # i
      BY <1>2, <1>3, <1>5, <2>1, <2>2
    <2>4. Rest(i)[h] = Marked(i)[g] /\ Rest(i)[k] = Marked(i)[j]
      BY <1>2, <1>3, <2>1, <2>2
    <2> QED BY <2>3, <2>4
  <1> QED BY <1>3, <1>4, <1>5

\* An outcome leaves bootstraps overtaken from the oldest on.
LEMMA RestInOrder ==
    ASSUME flight \in Seq(Requests), LateFirst(flight), NEW i \in 1..Len(flight)
    PROVE  LateFirst(Rest(i))
  <1> SUFFICES ASSUME NEW h \in 1..Len(Rest(i)), NEW k \in 1..Len(Rest(i)), h < k,
                      IsBootstrap(Rest(i)[h]), IsBootstrap(Rest(i)[k]), Rest(i)[k].late
               PROVE  Rest(i)[h].late
    BY DEF LateFirst
  <1>1. PICK g, j \in 1..Len(flight) :
           /\ g < j /\ g # i /\ j # i
           /\ Rest(i)[h] = Marked(i)[g] /\ Rest(i)[k] = Marked(i)[j]
    <2>1. \A a, b \in 1..Len(Rest(i)) :
             a < b => \E g, j \in 1..Len(flight) :
                         /\ g < j /\ g # i /\ j # i
                         /\ Rest(i)[a] = Marked(i)[g] /\ Rest(i)[b] = Marked(i)[j]
      BY RestKeeps
    <2> QED BY <2>1
  <1>2. /\ IsBootstrap(flight[g]) /\ IsBootstrap(flight[j])
        /\ flight[j].late \/ (j < i /\ SameKind(flight[j], flight[i]))
    <2>1. \A m \in 1..Len(flight) :
             /\ Marked(i)[m].op = flight[m].op
             /\ Marked(i)[m].late = (flight[m].late \/ (m < i /\ SameKind(flight[m], flight[i])))
      BY MarkedType
    <2>2. IsBootstrap(flight[g]) /\ IsBootstrap(flight[j])
      BY <1>1, <2>1 DEF IsBootstrap
    <2>3. Marked(i)[j].late
      BY <1>1
    <2> QED BY <2>1, <2>2, <2>3
  <1>3. CASE flight[j].late
    <2>1. flight[g].late
      BY <1>1, <1>2, <1>3 DEF LateFirst
    <2> QED BY <1>1, <2>1, MarkedType
  <1>4. CASE j < i /\ SameKind(flight[j], flight[i])
    <2>1. g < i
      BY <1>1, <1>4, LenProperties
    <2>2. SameKind(flight[g], flight[i])
      BY <1>2, <1>4 DEF SameKind, IsBootstrap, Tabs, StudentTabs, InstructorTabs
    <2> QED BY <1>1, <2>1, <2>2, MarkedType
  <1> QED BY <1>2, <1>3, <1>4

\* The outcome of anything but a bootstrap leaves the pending bootstrap under way.
LEMMA RestPending ==
    ASSUME flight \in Seq(Requests), NEW i \in 1..Len(flight), ~IsBootstrap(flight[i]), Pending(flight)
    PROVE  Pending(Rest(i))
  <1>1. PICK j \in 1..Len(flight) : IsBootstrap(flight[j]) /\ ~flight[j].late
    BY DEF Pending
  <1>2. j # i /\ ~SameKind(flight[j], flight[i])
    BY <1>1 DEF IsBootstrap, SameKind, Tabs, StudentTabs, InstructorTabs
  <1>3. IsBootstrap(Marked(i)[j]) /\ ~Marked(i)[j].late
    BY <1>1, <1>2, MarkedType DEF IsBootstrap
  <1>4. PICK m \in 1..Len(Rest(i)) : Rest(i)[m] = Marked(i)[j]
    BY <1>2, RestKeeps
  <1> QED BY <1>3, <1>4 DEF Pending

\* The outcome of anything but a load leaves the loads under way.
LEMMA RestLoads ==
    ASSUME flight \in Seq(Requests), NEW i \in 1..Len(flight), flight[i].op \notin Tabs,
           NEW j \in 1..Len(flight), flight[j].op \in Tabs
    PROVE  Cause(Rest(i))
  <1>1. j # i /\ Marked(i)[j].op \in Tabs
    BY MarkedType
  <1>2. PICK m \in 1..Len(Rest(i)) : Rest(i)[m] = Marked(i)[j]
    BY <1>1, RestKeeps
  <1> QED BY <1>1, <1>2 DEF Cause

\* So what ends the loading stays, but for a load or a bootstrap.
LEMMA RestCause ==
    ASSUME flight \in Seq(Requests), NEW i \in 1..Len(flight), flight[i].op \notin Tabs,
           ~IsBootstrap(flight[i]), Cause(flight)
    PROVE  Cause(Rest(i))
  <1>1. CASE Pending(flight)
    BY <1>1, RestPending DEF Cause
  <1>2. CASE \E j \in 1..Len(flight) : flight[j].op \in Tabs
    BY <1>2, RestLoads
  <1> QED BY <1>1, <1>2 DEF Cause

\* A bootstrap's failure keeps what is pending, unless it was the one awaited.
LEMMA RestOfBootstrap ==
    ASSUME flight \in Seq(Requests), LateFirst(flight), NEW i \in 1..Len(flight), IsBootstrap(flight[i]),
           ~(Newest(i) /\ ~flight[i].late)
    PROVE  /\ Pending(flight) => Pending(Rest(i))
           /\ Cause(flight) => Cause(Rest(i))
  <1>1. flight[i].op \notin Tabs
    BY DEF IsBootstrap, Tabs, StudentTabs, InstructorTabs
  <1>2. ASSUME Pending(flight)
        PROVE  Pending(Rest(i))
    <2>1. PICK j \in 1..Len(flight) : IsBootstrap(flight[j]) /\ ~flight[j].late
      BY <1>2 DEF Pending
    <2>2. PICK k \in 1..Len(flight) : k > i /\ IsBootstrap(flight[k]) /\ ~flight[k].late
      <3>1. CASE ~Newest(i)
        <4>1. DOMAIN flight = 1..Len(flight)
          BY LenProperties
        <4> QED BY <1>1, <3>1, <4>1 DEF Newest, SameKind, IsBootstrap
      <3>2. CASE flight[i].late
        <4>1. ~(j < i) /\ j # i
          BY <2>1, <3>2 DEF LateFirst
        <4>2. j > i
          BY <4>1, LenProperties
        <4> QED BY <2>1, <4>2
      <3> QED BY <3>1, <3>2
    <2>3. k # i /\ ~(k < i)
      BY <2>2, LenProperties
    <2>4. IsBootstrap(Marked(i)[k]) /\ ~Marked(i)[k].late
      BY <2>2, <2>3, MarkedType DEF IsBootstrap
    <2>5. PICK m \in 1..Len(Rest(i)) : Rest(i)[m] = Marked(i)[k]
      BY <2>3, RestKeeps
    <2> QED BY <2>4, <2>5 DEF Pending
  <1>3. ASSUME \E j \in 1..Len(flight) : flight[j].op \in Tabs
        PROVE  Cause(Rest(i))
    BY <1>1, <1>3, RestLoads
  <1> QED BY <1>2, <1>3 DEF Cause

----------------------------------------------------------------------------
(* Loads *)

\* What a load that begins or returns does to the page and to what is under way.
LEMMA Begun ==
    ASSUME PageConstants, NEW p \in PageState, NEW tab \in Tabs, NEW q \in Seq(Requests),
           NEW past \in SUBSET {"class", "view", "weights"}, ThenLoad(p, tab, q, past)
    PROVE  /\ page' \in PageState /\ flight' \in Seq(Requests)
           /\ slips' \subseteq {"class", "view", "weights"} /\ ("class" \in slips' <=> "class" \in past)
           /\ page'.user = p.user /\ page'.tab = p.tab /\ page'.boot = p.boot
           /\ page'.present = p.present /\ page'.open = p.open /\ page'.record = p.record
           /\ page'.loading => p.loading
           /\ LateFirst(q) => LateFirst(flight')
           /\ Pending(q) => Pending(flight')
           /\ Cause(q) => Cause(flight')
           /\ CanLoad(p, tab) /\ page'.loading => Cause(flight')
  <1>1. CASE CanLoad(p, tab) /\ CannotQuery(p, tab)
    <2>1. page' = Failed(p, tab) /\ flight' = q /\ slips' = past
      BY <1>1 DEF ThenLoad
    <2>2. PICK shown \in {None} \cup Content :
             page' = [p EXCEPT !.loading = FALSE, !.error = TRUE, !.shown = shown]
      <3>1. p.shown \in {None} \cup Content
        BY DEF PageState
      <3> QED BY <2>1, <3>1 DEF Failed
    <2>3. page' \in PageState
      BY <2>2 DEF PageState
    <2>4. /\ page'.user = p.user /\ page'.tab = p.tab /\ page'.boot = p.boot
          /\ page'.present = p.present /\ page'.open = p.open /\ page'.record = p.record
          /\ page'.loading = FALSE
      BY <2>2 DEF PageState
    <2> QED BY <2>1, <2>3, <2>4
  <1>2. CASE CanLoad(p, tab) /\ ~CannotQuery(p, tab)
    <2>1. page' = p /\ flight' = Append(q, LoadOf(p, tab))
      BY <1>2 DEF ThenLoad
    <2>2. slips' = past \ {"view"} \/ slips' = past \cup {"view"}
      BY <1>2 DEF ThenLoad
    <2>3. LoadOf(p, tab) \in Requests /\ ~LoadOf(p, tab).late /\ LoadOf(p, tab).op \in Tabs
      BY <1>2, LoadOfType
    <2>4. /\ flight' \in Seq(Requests) /\ Cause(flight')
          /\ LateFirst(q) => LateFirst(flight')
          /\ Pending(q) => Pending(flight')
      BY <2>1, <2>3, Sent
    <2>5. slips' \subseteq {"class", "view", "weights"} /\ ("class" \in slips' <=> "class" \in past)
      BY <2>2
    <2>6. /\ page' \in PageState
          /\ page'.user = p.user /\ page'.tab = p.tab /\ page'.boot = p.boot
          /\ page'.present = p.present /\ page'.open = p.open /\ page'.record = p.record
          /\ page'.loading => p.loading
      BY <2>1
    <2> QED BY <2>4, <2>5, <2>6
  <1>3. CASE ~CanLoad(p, tab)
    BY <1>3 DEF ThenLoad
  <1> QED BY <1>1, <1>2, <1>3

\* A load of any tab keeps what is awaited.
LEMMA OtherLoad ==
    ASSUME PageConstants, NEW p \in PageState, NEW tab \in Tabs, NEW q \in Seq(Requests),
           NEW past \in SUBSET {"class", "view", "weights"}, Sound(p, q, past), ThenLoad(p, tab, q, past)
    PROVE  Sound(page', flight', slips')
  <1>1. /\ page' \in PageState /\ flight' \in Seq(Requests)
        /\ slips' \subseteq {"class", "view", "weights"} /\ ("class" \in slips' <=> "class" \in past)
        /\ page'.user = p.user /\ page'.tab = p.tab /\ page'.boot = p.boot
        /\ page'.present = p.present /\ page'.open = p.open
        /\ page'.loading => p.loading
        /\ LateFirst(q) => LateFirst(flight')
        /\ Pending(q) => Pending(flight')
        /\ Cause(q) => Cause(flight')
    BY Begun
  <1>2. RoleTabs(page') /\ LateFirst(flight') /\ Closed(page')
    BY <1>1 DEF Sound, RoleTabs, Closed
  <1>3. Awaited(page', flight', slips')
    BY <1>1 DEF Sound, Awaited
  <1> QED BY <1>1, <1>2, <1>3 DEF Sound

\* A load of the open tab brings what ends the loading.
LEMMA OwnLoad ==
    ASSUME PageConstants, NEW p \in PageState, NEW q \in Seq(Requests),
           NEW past \in SUBSET {"class", "view", "weights"}, ThenLoad(p, p.tab, q, past),
           RoleTabs(p), Closed(p), LateFirst(q),
           p.user # None /\ "class" \notin past /\ p.boot = None => Pending(q)
    PROVE  Sound(page', flight', slips')
  <1>1. p.tab \in Tabs /\ p.user \in Students \cup {Instructor, None}
    BY DEF PageState
  <1>2. /\ page' \in PageState /\ flight' \in Seq(Requests)
        /\ slips' \subseteq {"class", "view", "weights"} /\ ("class" \in slips' <=> "class" \in past)
        /\ page'.user = p.user /\ page'.tab = p.tab /\ page'.boot = p.boot
        /\ page'.present = p.present /\ page'.open = p.open
        /\ LateFirst(flight')
        /\ Pending(q) => Pending(flight')
        /\ CanLoad(p, p.tab) /\ page'.loading => Cause(flight')
    BY <1>1, Begun
  <1>3. RoleTabs(page') /\ Closed(page')
    BY <1>2 DEF RoleTabs, Closed
  <1>4. ASSUME p.user # None, "class" \notin past
        PROVE  /\ page'.loading => Cause(flight')
               /\ page'.boot = None => Pending(flight')
    <2>1. CASE p.boot = None
      BY <1>2, <1>4, <2>1 DEF Cause
    <2>2. CASE p.boot # None
      <3>1. p.tab \in StudentTabs => p.user \in Students
        BY <1>1, <1>4 DEF RoleTabs, InstructorTabs, StudentTabs
      <3>2. CanLoad(p, p.tab)
        BY <2>2, <3>1 DEF CanLoad
      <3> QED BY <1>2, <2>2, <3>2
    <2> QED BY <2>1, <2>2
  <1>5. Awaited(page', flight', slips')
    BY <1>2, <1>4 DEF Awaited
  <1> QED BY <1>2, <1>3, <1>5 DEF Sound

\* The bootstrap of a class picked is what is awaited then.
LEMMA ClassLoad ==
    ASSUME PageConstants, NEW p \in PageState, NEW klass \in Classes, ThenLoadClass(p, klass),
           flight \in Seq(Requests), slips \subseteq {"class", "view", "weights"},
           RoleTabs(p), Closed(p), LateFirst(flight)
    PROVE  Sound(page', flight', slips')
  <1>1. PICK shown \in {None} \cup Content :
           page' = [p EXCEPT !.loading = TRUE, !.klass = klass, !.open = p.open \ {"drawer"}, !.shown = shown]
    <2>1. p.shown \in {None} \cup Content
      BY DEF PageState
    <2> QED BY <2>1 DEF ThenLoadClass
  <1>2. page' \in PageState
    BY <1>1 DEF PageState
  <1>3. /\ page'.user = p.user /\ page'.tab = p.tab /\ page'.present = p.present
        /\ page'.open = p.open \ {"drawer"}
    BY <1>1 DEF PageState
  <1>4. RoleTabs(page') /\ Closed(page')
    BY <1>3 DEF RoleTabs, Closed
  <1>5. PICK r \in Requests : IsBootstrap(r) /\ ~r.late /\ flight' = Append(flight, r)
    <2>1. "bootstrap" \in Operations /\ None \in Students \cup {None} /\ klass \in Classes \cup {None}
      BY DEF Operations
    <2>2. /\ Request("bootstrap", klass, None, None, None) \in Requests
          /\ Request("bootstrap", klass, None, None, None).op = "bootstrap"
          /\ ~Request("bootstrap", klass, None, None, None).late
      BY <2>1, RequestType
    <2> QED BY <2>2 DEF ThenLoadClass, IsBootstrap
  <1>6. flight' \in Seq(Requests) /\ LateFirst(flight') /\ Pending(flight')
    BY <1>5, Sent
  <1>7. slips' \subseteq {"class", "view", "weights"}
    BY DEF ThenLoadClass
  <1> QED BY <1>2, <1>4, <1>6, <1>7 DEF Sound, Awaited, Cause

----------------------------------------------------------------------------
(* Steps *)

\* A step that keeps what is awaited and opens nothing.
LEMMA Kept ==
    ASSUME PageConstants, Sound(page, flight, slips),
           page' \in PageState, flight' \in Seq(Requests), slips' \subseteq {"class", "view", "weights"},
           "class" \in slips => "class" \in slips',
           page'.user \in {page.user, None}, page'.tab = page.tab,
           page'.user # None => page'.boot = page.boot,
           Closed(page'), LateFirst(flight'),
           page'.user # None /\ "class" \notin slips' =>
              /\ Pending(flight) => Pending(flight')
              /\ page'.loading => page.loading /\ (Cause(flight) => Cause(flight'))
    PROVE  Sound(page', flight', slips')
  <1>1. RoleTabs(page')
    BY DEF Sound, RoleTabs, PageConstants
  <1>2. Awaited(page', flight', slips')
    BY DEF Sound, Awaited
  <1> QED BY <1>1, <1>2 DEF Sound

\* A gesture that sends a request.
LEMMA SendStep ==
    ASSUME PageConstants, Sound(page, flight, slips), NEW r \in Requests, ~r.late, ThenSend(r)
    PROVE  Sound(page', flight', slips')
  <1>1. page' = page /\ slips' = slips /\ flight' = Append(flight, r)
    BY DEF ThenSend
  <1>2. /\ flight' \in Seq(Requests)
        /\ LateFirst(flight')
        /\ Pending(flight) => Pending(flight')
        /\ Cause(flight) => Cause(flight')
    <2>1. flight \in Seq(Requests) /\ LateFirst(flight)
      BY DEF Sound
    <2> QED BY <1>1, <2>1, Sent
  <1>3. page' \in PageState /\ Closed(page')
    BY <1>1 DEF Sound, Closed
  <1>4. slips' \subseteq {"class", "view", "weights"}
    BY <1>1 DEF Sound
  <1> QED BY <1>1, <1>2, <1>3, <1>4, Kept

\* The fields the invariant is about.
LEMMA OnlyStep ==
    ASSUME PageConstants, Sound(page, flight, slips), UNCHANGED <<flight, slips>>,
           page' \in PageState, page'.user \in {page.user, None}, page'.tab = page.tab,
           page'.user # None => page'.boot = page.boot,
           page'.loading => page.loading, Closed(page')
    PROVE  Sound(page', flight', slips')
  <1>1. flight' \in Seq(Requests) /\ LateFirst(flight') /\ slips' \subseteq {"class", "view", "weights"}
    BY DEF Sound
  <1>2. (Pending(flight) => Pending(flight')) /\ (Cause(flight) => Cause(flight'))
    OBVIOUS
  <1> QED BY <1>1, <1>2, Kept

\* The outcome of neither a load nor a bootstrap, that loads nothing.
LEMMA OutcomeStep ==
    ASSUME PageConstants, Sound(page, flight, slips), NEW i \in 1..Len(flight),
           flight[i].op \notin Tabs \cup {"bootstrap"}, flight' = Rest(i), slips' = slips,
           page' \in PageState, page'.user = page.user, page'.tab = page.tab, page'.boot = page.boot,
           page'.loading = page.loading, Closed(page')
    PROVE  Sound(page', flight', slips')
  <1>1. flight \in Seq(Requests) /\ LateFirst(flight) /\ ~IsBootstrap(flight[i]) /\ flight[i].op \notin Tabs
    BY DEF Sound, IsBootstrap
  <1>2. flight' \in Seq(Requests) /\ LateFirst(flight')
    BY <1>1, RestKeeps, RestInOrder
  <1>3. (Pending(flight) => Pending(flight')) /\ (Cause(flight) => Cause(flight'))
    BY <1>1, RestPending, RestCause
  <1>4. slips' \subseteq {"class", "view", "weights"}
    BY DEF Sound
  <1> QED BY <1>2, <1>3, <1>4, Kept

\* The same, before the load that follows: the page has become p.
LEMMA FollowUp ==
    ASSUME PageConstants, Sound(page, flight, slips), NEW i \in 1..Len(flight),
           flight[i].op \notin Tabs \cup {"bootstrap"},
           NEW p \in PageState, p.user = page.user, p.tab = page.tab, p.boot = page.boot,
           p.loading = page.loading, Closed(p)
    PROVE  Sound(p, Rest(i), slips)
  <1>1. flight \in Seq(Requests) /\ LateFirst(flight) /\ ~IsBootstrap(flight[i]) /\ flight[i].op \notin Tabs
    BY DEF Sound, IsBootstrap
  <1>2. Rest(i) \in Seq(Requests) /\ LateFirst(Rest(i))
    BY <1>1, RestKeeps, RestInOrder
  <1>3. (Pending(flight) => Pending(Rest(i))) /\ (Cause(flight) => Cause(Rest(i)))
    BY <1>1, RestPending, RestCause
  <1>4. RoleTabs(p)
    BY DEF Sound, RoleTabs
  <1>5. Awaited(p, Rest(i), slips)
    BY <1>3 DEF Sound, Awaited
  <1> QED BY <1>2, <1>4, <1>5 DEF Sound

\* The gestures that change what is at hand, and only that.
LEMMA OnlySteps ==
    ASSUME PageConstants, Sound(page, flight, slips),
           \/ Logout \/ Escape \/ CloseRecord \/ TypeNote \/ OpenWeights
           \/ \E panel \in Panels : Close(panel)
    PROVE  Sound(page', flight', slips')
  <1>1. page \in PageState /\ page.open \in SUBSET Panels /\ Closed(page)
    BY DEF Sound, PageState
  <1>2. CASE Logout
    <2>1. /\ page' = [page EXCEPT !.user = None, !.boot = None, !.shown = None, !.record = None,
                                  !.open = page.open \ {"drawer"}, !.present = FALSE]
          /\ UNCHANGED <<flight, slips>>
      BY <1>2 DEF Logout, Only
    <2>2. page' \in PageState
      BY <1>1, <2>1 DEF PageState
    <2>3. /\ page'.user = None /\ page'.tab = page.tab /\ page'.loading = page.loading
          /\ page'.present = FALSE
      BY <1>1, <2>1 DEF PageState
    <2>4. Closed(page')
      BY <2>3 DEF Closed
    <2> QED BY <2>1, <2>2, <2>3, <2>4, OnlyStep
  <1>3. CASE Escape
    <2>1. /\ page' = [page EXCEPT !.open = {}, !.record = None]
          /\ UNCHANGED <<flight, slips>>
      BY <1>3 DEF Escape, Only
    <2>2. page' \in PageState
      BY <1>1, <2>1 DEF PageState
    <2>3. /\ page'.user = page.user /\ page'.tab = page.tab /\ page'.boot = page.boot
          /\ page'.loading = page.loading /\ page'.open = {}
      BY <1>1, <2>1 DEF PageState
    <2>4. Closed(page')
      BY <2>3 DEF Closed
    <2> QED BY <2>1, <2>2, <2>3, <2>4, OnlyStep
  <1>4. CASE CloseRecord
    <2>1. /\ page' = [page EXCEPT !.record = None, !.draft = FALSE]
          /\ UNCHANGED <<flight, slips>>
      BY <1>4 DEF CloseRecord, Only
    <2>2. page' \in PageState
      BY <1>1, <2>1 DEF PageState
    <2>3. /\ page'.user = page.user /\ page'.tab = page.tab /\ page'.boot = page.boot
          /\ page'.loading = page.loading /\ page'.open = page.open /\ page'.present = page.present
      BY <1>1, <2>1 DEF PageState
    <2>4. Closed(page')
      BY <1>1, <2>3 DEF Closed
    <2> QED BY <2>1, <2>2, <2>3, <2>4, OnlyStep
  <1>5. CASE TypeNote
    <2>1. /\ page' = [page EXCEPT !.draft = TRUE]
          /\ UNCHANGED <<flight, slips>>
      BY <1>5 DEF TypeNote, Only
    <2>2. page' \in PageState
      BY <1>1, <2>1 DEF PageState
    <2>3. /\ page'.user = page.user /\ page'.tab = page.tab /\ page'.boot = page.boot
          /\ page'.loading = page.loading /\ page'.open = page.open /\ page'.present = page.present
      BY <1>1, <2>1 DEF PageState
    <2>4. Closed(page')
      BY <1>1, <2>3 DEF Closed
    <2> QED BY <2>1, <2>2, <2>3, <2>4, OnlyStep
  <1>6. CASE OpenWeights
    <2>1. /\ page' = [page EXCEPT !.open = page.open \cup {"weights"}] /\ ~page.present
          /\ UNCHANGED <<flight, slips>>
      BY <1>6 DEF OpenWeights, Only
    <2>2. page' \in PageState
      BY <1>1, <2>1 DEF PageState, Panels
    <2>3. /\ page'.user = page.user /\ page'.tab = page.tab /\ page'.boot = page.boot
          /\ page'.loading = page.loading /\ page'.present = page.present
      BY <1>1, <2>1 DEF PageState
    <2>4. Closed(page')
      BY <2>1, <2>3 DEF Closed
    <2> QED BY <2>1, <2>2, <2>3, <2>4, OnlyStep
  <1>7. CASE \E panel \in Panels : Close(panel)
    <2>1. PICK panel \in Panels :
             /\ page' = [page EXCEPT !.open = page.open \ {panel}]
             /\ UNCHANGED <<flight, slips>>
      BY <1>7 DEF Close, Only
    <2>2. page' \in PageState
      BY <1>1, <2>1 DEF PageState
    <2>3. /\ page'.user = page.user /\ page'.tab = page.tab /\ page'.boot = page.boot
          /\ page'.loading = page.loading /\ page'.open = page.open \ {panel} /\ page'.present = page.present
      BY <1>1, <2>1 DEF PageState
    <2>4. Closed(page')
      BY <1>1, <2>3 DEF Closed
    <2> QED BY <2>1, <2>2, <2>3, <2>4, OnlyStep
  <1> QED BY <1>2, <1>3, <1>4, <1>5, <1>6, <1>7

\* The gestures that ask for something and change nothing yet.
LEMMA SendSteps ==
    ASSUME PageConstants, Sound(page, flight, slips),
           \/ OpenDrawer \/ SaveNote \/ OpenThresholds \/ ApplyThresholds \/ ApplyWeights
           \/ OpenExplainer \/ Refresh \/ Save \/ Decide
           \/ \E student \in Students : OpenRecord(student)
    PROVE  Sound(page', flight', slips')
  <1>1. page.klass \in Classes /\ page.record \in Students \cup {None}
    BY DEF Sound, PageState
  <1>2. PICK op \in Operations, klass \in Classes \cup {None}, student \in Students \cup {None} :
           /\ op \in {"bootstrap", "applyWeights"} => klass \in Classes
           /\ op \in {"record", "note", "noteRecord"} => student \in Students
           /\ ThenSend(Request(op, klass, None, student, None))
    <2> USE DEF Operations
    <2>1. CASE OpenDrawer
      BY <2>1 DEF OpenDrawer
    <2>2. CASE SaveNote
      BY <1>1, <2>2 DEF SaveNote
    <2>3. CASE OpenThresholds
      BY <2>3 DEF OpenThresholds
    <2>4. CASE ApplyThresholds
      BY <2>4 DEF ApplyThresholds
    <2>5. CASE ApplyWeights
      BY <1>1, <2>5 DEF ApplyWeights
    <2>6. CASE OpenExplainer
      BY <2>6 DEF OpenExplainer
    <2>7. CASE Refresh
      BY <2>7 DEF Refresh
    <2>8. CASE Save
      BY <2>8 DEF Save
    <2>9. CASE Decide
      BY <2>9 DEF Decide
    <2>10. CASE \E student \in Students : OpenRecord(student)
      BY <2>10 DEF OpenRecord
    <2> QED BY <2>1, <2>2, <2>3, <2>4, <2>5, <2>6, <2>7, <2>8, <2>9, <2>10
  <1>3. PICK r \in Requests : ~r.late /\ ThenSend(r)
    <2>1. /\ Request(op, klass, None, student, None) \in Requests
          /\ ~Request(op, klass, None, student, None).late
      BY <1>2, RequestType
    <2> QED BY <1>2, <2>1
  <1> QED BY <1>3, SendStep

\* The gestures that pick a user or a class, or load the tab they open.
LEMMA LoadSteps ==
    ASSUME PageConstants, Sound(page, flight, slips),
           \/ \E who \in Students \cup {Instructor} : DoLogin(who)
           \/ \E klass \in Classes : PickClass(klass)
           \/ \E tab \in Tabs : ClickTab(tab)
           \/ \E week \in Weeks : ChangeWeek(week)
           \/ TogglePresent
    PROVE  Sound(page', flight', slips')
  <1>1. /\ page \in PageState /\ flight \in Seq(Requests) /\ slips \in SUBSET {"class", "view", "weights"}
        /\ RoleTabs(page) /\ Closed(page) /\ LateFirst(flight)
        /\ page.user # None /\ "class" \notin slips /\ page.boot = None => Pending(flight)
    BY DEF Sound, Awaited
  <1>2. ASSUME NEW who \in Students \cup {Instructor}, DoLogin(who)
        PROVE  Sound(page', flight', slips')
    <2>1. PICK tab \in Tabs : tab = IF who = Instructor THEN "league" ELSE "me"
      BY DEF Tabs, StudentTabs, InstructorTabs
    <2>2. PICK p \in PageState : p = [page EXCEPT !.user = who, !.tab = tab]
      BY <1>1 DEF PageState
    <2>3. PICK klass \in Classes : klass = IF who = Instructor THEN page.klass ELSE HomeOf[who]
      BY <1>1 DEF PageState, PageConstants
    <2>4. ThenLoadClass(p, klass)
      BY <1>2, <2>1, <2>2, <2>3 DEF DoLogin
    <2>5. p.user = who /\ p.tab = tab /\ p.present = page.present /\ p.open = page.open
      BY <1>1, <2>2 DEF PageState
    <2>6. RoleTabs(p)
      BY <2>1, <2>5 DEF RoleTabs, StudentTabs, InstructorTabs, PageConstants
    <2>7. Closed(p)
      BY <1>1, <2>5 DEF Closed
    <2> QED BY <1>1, <2>4, <2>6, <2>7, ClassLoad
  <1>3. ASSUME NEW klass \in Classes, PickClass(klass)
        PROVE  Sound(page', flight', slips')
    BY <1>1, <1>3, ClassLoad DEF PickClass
  <1>4. ASSUME NEW tab \in Tabs, ClickTab(tab)
        PROVE  Sound(page', flight', slips')
    <2>1. PICK p \in PageState :
             p = [page EXCEPT !.tab = tab, !.loading = TRUE, !.open = page.open \ {"drawer"}]
      BY <1>1 DEF PageState
    <2>2. /\ p.user = page.user /\ p.tab = tab /\ p.boot = page.boot
          /\ p.present = page.present /\ p.open = page.open \ {"drawer"}
      BY <1>1, <2>1 DEF PageState
    <2>3. ThenLoad(p, p.tab, flight, slips) /\ tab \in VisibleTabs
      BY <1>4, <2>1, <2>2 DEF ClickTab
    <2>4. RoleTabs(p)
      BY <2>2, <2>3 DEF RoleTabs, VisibleTabs, InstructorTabs, PageConstants
    <2>5. Closed(p)
      BY <1>1, <2>2 DEF Closed
    <2> QED BY <1>1, <2>2, <2>3, <2>4, <2>5, OwnLoad
  <1>5. ASSUME NEW week \in Weeks, ChangeWeek(week)
        PROVE  Sound(page', flight', slips')
    <2>1. PICK p \in PageState : p = [page EXCEPT !.week = week, !.open = page.open \ {"drawer"}]
      BY <1>1 DEF PageState
    <2>2. /\ p.user = page.user /\ p.tab = page.tab /\ p.boot = page.boot
          /\ p.present = page.present /\ p.open = page.open \ {"drawer"}
      BY <1>1, <2>1 DEF PageState
    <2>3. ThenLoad(p, p.tab, flight, slips)
      BY <1>5, <2>1, <2>2 DEF ChangeWeek
    <2>4. RoleTabs(p) /\ Closed(p)
      BY <1>1, <2>2 DEF RoleTabs, Closed
    <2> QED BY <1>1, <2>2, <2>3, <2>4, OwnLoad
  <1>6. CASE TogglePresent /\ page.present
    <2>1. page' = [page EXCEPT !.present = FALSE] /\ UNCHANGED <<flight, slips>>
      BY <1>6 DEF TogglePresent, Only
    <2>2. page' \in PageState
      BY <1>1, <2>1 DEF PageState
    <2>3. /\ page'.user = page.user /\ page'.tab = page.tab /\ page'.boot = page.boot
          /\ page'.loading = page.loading /\ page'.present = FALSE
      BY <1>1, <2>1 DEF PageState
    <2>4. Closed(page')
      BY <2>3 DEF Closed
    <2> QED BY <2>1, <2>2, <2>3, <2>4, OnlyStep
  <1>7. CASE EnterPresent /\ page.tab = "league"
    <2>1. page' = [page EXCEPT !.present = TRUE, !.record = None, !.open = {}] /\ UNCHANGED <<flight, slips>>
      BY <1>7 DEF EnterPresent, Only
    <2>2. page' \in PageState
      BY <1>1, <2>1 DEF PageState
    <2>3. /\ page'.user = page.user /\ page'.tab = page.tab /\ page'.boot = page.boot
          /\ page'.loading = page.loading /\ page'.open = {}
      BY <1>1, <2>1 DEF PageState
    <2>4. Closed(page')
      BY <2>3 DEF Closed
    <2> QED BY <2>1, <2>2, <2>3, <2>4, OnlyStep
  <1>8. CASE EnterPresent /\ page.tab # "league" /\ page.user = Instructor
    <2>1. PICK p \in PageState :
             p = [page EXCEPT !.present = TRUE, !.record = None, !.open = {},
                              !.tab = "league", !.loading = TRUE]
      BY <1>1 DEF PageState, Tabs, InstructorTabs
    <2>2. p.user = page.user /\ p.tab = "league" /\ p.boot = page.boot /\ p.open = {}
      BY <1>1, <2>1 DEF PageState
    <2>3. p = [[page EXCEPT !.present = TRUE, !.record = None, !.open = {}]
                  EXCEPT !.tab = "league", !.loading = TRUE]
      BY <1>1, <2>1 DEF PageState
    <2>4. ThenLoad(p, p.tab, flight, slips)
      BY <1>8, <2>2, <2>3 DEF EnterPresent
    <2>5. RoleTabs(p) /\ Closed(p)
      BY <1>8, <2>2 DEF RoleTabs, Closed, InstructorTabs, PageConstants
    <2> QED BY <1>1, <2>2, <2>4, <2>5, OwnLoad
  <1>9. CASE TogglePresent
    BY <1>6, <1>7, <1>8, <1>9 DEF TogglePresent
  <1> QED BY <1>2, <1>3, <1>4, <1>5, <1>9

\* The browser loads the page anew.
LEMMA LoginScreenSound ==
    ASSUME PageConstants
    PROVE  Sound(LoginScreen, <<>>, {})
  <1>1. LoginScreen \in PageState
    BY DEF LoginScreen, PageState, PageConstants, Tabs, InstructorTabs, Panels
  <1>2. LoginScreen.user = None /\ LoginScreen.present = FALSE
    BY DEF LoginScreen
  <1>3. RoleTabs(LoginScreen) /\ Closed(LoginScreen) /\ Awaited(LoginScreen, <<>>, {})
    BY <1>2 DEF RoleTabs, Closed, Awaited, PageConstants
  <1>4. <<>> \in Seq(Requests) /\ LateFirst(<<>>)
    BY DEF LateFirst
  <1> QED BY <1>1, <1>3, <1>4 DEF Sound

\* A load answered or failed ends the loading.
LEMMA LoadOutcomes ==
    ASSUME PageConstants, Sound(page, flight, slips), NEW i \in 1..Len(flight), AnswerLoad(i) \/ FailLoad(i)
    PROVE  Sound(page', flight', slips')
  <1>1. /\ page \in PageState /\ flight \in Seq(Requests) /\ LateFirst(flight) /\ Closed(page)
        /\ slips \subseteq {"class", "view", "weights"}
    BY DEF Sound
  <1>2. flight[i] \in Requests /\ flight[i].op \in Tabs /\ flight' = Rest(i)
    BY <1>1, ElementOfSeq DEF AnswerLoad, FailLoad
  <1>3. PICK shown \in {None} \cup Content, error \in BOOLEAN :
           page' = [page EXCEPT !.loading = FALSE, !.error = error, !.shown = shown]
    <2>1. CASE AnswerLoad(i)
      <3>1. [op |-> flight[i].op, klass |-> flight[i].klass, week |-> flight[i].week,
             student |-> flight[i].student, weights |-> flight[i].weights] \in Content
        BY <1>2 DEF Content, Requests
      <3> QED BY <2>1, <3>1 DEF AnswerLoad, Shown, ViewOf
    <2>2. CASE FailLoad(i)
      <3>1. page.shown \in {None} \cup Content
        BY <1>1 DEF PageState
      <3> QED BY <2>2, <3>1 DEF FailLoad, Failed
    <2> QED BY <2>1, <2>2
  <1>4. page' \in PageState
    BY <1>1, <1>3 DEF PageState
  <1>5. /\ page'.user = page.user /\ page'.tab = page.tab /\ page'.boot = page.boot
        /\ page'.loading = FALSE /\ page'.present = page.present /\ page'.open = page.open
    BY <1>1, <1>3 DEF PageState
  <1>6. Closed(page')
    BY <1>1, <1>5 DEF Closed
  <1>7. ~IsBootstrap(flight[i])
    BY <1>2 DEF IsBootstrap, Tabs, StudentTabs, InstructorTabs
  <1>8. /\ flight' \in Seq(Requests) /\ LateFirst(flight')
        /\ Pending(flight) => Pending(flight')
    BY <1>1, <1>2, <1>7, RestKeeps, RestInOrder, RestPending
  <1>9. slips' \subseteq {"class", "view", "weights"} /\ ("class" \in slips => "class" \in slips')
    BY <1>1 DEF AnswerLoad, FailLoad
  <1> QED BY <1>4, <1>5, <1>6, <1>8, <1>9, Kept

\* A bootstrap answered loads the open tab; one that failed leaves the page as it was.
LEMMA BootstrapOutcomes ==
    ASSUME PageConstants, Sound(page, flight, slips), NEW i \in 1..Len(flight),
           AnswerBootstrap(i) \/ FailBootstrap(i)
    PROVE  Sound(page', flight', slips')
  <1>1. /\ page \in PageState /\ flight \in Seq(Requests) /\ LateFirst(flight) /\ Closed(page)
        /\ RoleTabs(page) /\ slips \subseteq {"class", "view", "weights"}
    BY DEF Sound
  <1>2. flight[i] \in Requests /\ flight[i].op = "bootstrap"
    BY <1>1, ElementOfSeq DEF AnswerBootstrap, FailBootstrap
  <1>3. Rest(i) \in Seq(Requests) /\ LateFirst(Rest(i))
    BY <1>1, RestKeeps, RestInOrder
  <1>4. CASE AnswerBootstrap(i)
    <2>1. PICK klass \in Classes : klass = flight[i].klass
      BY <1>2 DEF Requests
    <2>2. PICK p \in PageState :
             p = [page EXCEPT !.boot = klass, !.week = Latest[klass], !.weights = klass]
      BY <1>1, <2>1 DEF PageState, PageConstants
    <2>3. PICK past \in SUBSET {"class", "view", "weights"} : ThenLoad(p, page.tab, Rest(i), past)
      <3>1. slips \cup {"class"} \in SUBSET {"class", "view", "weights"}
            /\ slips \ {"weights"} \in SUBSET {"class", "view", "weights"}
        BY <1>1
      <3> QED BY <1>4, <2>1, <2>2, <3>1 DEF AnswerBootstrap
    <2>4. /\ p.user = page.user /\ p.tab = page.tab /\ p.boot = klass
          /\ p.present = page.present /\ p.open = page.open
      BY <1>1, <2>2 DEF PageState
    <2>5. RoleTabs(p) /\ Closed(p) /\ p.boot # None
      BY <1>1, <2>4 DEF RoleTabs, Closed, PageConstants
    <2> QED BY <1>3, <2>3, <2>4, <2>5, OwnLoad
  <1>5. CASE FailBootstrap(i)
    <2>1. /\ page' = page /\ flight' = Rest(i)
          /\ slips' = IF Newest(i) /\ ~flight[i].late THEN slips \cup {"class"} ELSE slips
      BY <1>5 DEF FailBootstrap
    <2>2. CASE Newest(i) /\ ~flight[i].late
      <3>1. "class" \in slips' /\ slips' \subseteq {"class", "view", "weights"}
        BY <1>1, <2>1, <2>2
      <3> QED BY <1>1, <1>3, <2>1, <3>1 DEF Sound, Awaited
    <2>3. CASE ~(Newest(i) /\ ~flight[i].late)
      <3>1. /\ Pending(flight) => Pending(flight')
            /\ Cause(flight) => Cause(flight')
        BY <1>1, <1>2, <2>1, <2>3, RestOfBootstrap DEF IsBootstrap
      <3>2. slips' = slips
        BY <2>1, <2>3
      <3> QED BY <1>1, <1>3, <2>1, <3>1, <3>2, Kept
    <2> QED BY <2>2, <2>3
  <1> QED BY <1>4, <1>5

\* The outcomes that change what is at hand, or nothing.
LEMMA PanelOutcomes ==
    ASSUME PageConstants, Sound(page, flight, slips), NEW i \in 1..Len(flight),
           \/ \E panel \in {"drawer", "explainer"} : AnswerPanel(i, panel)
           \/ AnswerThresholds(i) \/ AnswerRecord(i) \/ FailWithMessage(i) \/ FailQuietly(i)
    PROVE  Sound(page', flight', slips')
  <1>1. page \in PageState /\ Closed(page) /\ flight[i] \in Requests
    BY ElementOfSeq DEF Sound
  <1>2. flight' = Rest(i) /\ slips' = slips
    BY DEF AnswerPanel, AnswerThresholds, AnswerRecord, FailWithMessage, FailQuietly
  <1>3. flight[i].op \notin Tabs \cup {"bootstrap"}
    BY DEF AnswerPanel, AnswerThresholds, AnswerRecord, FailWithMessage, FailQuietly,
           Tabs, StudentTabs, InstructorTabs
  <1>4. /\ page' \in PageState
        /\ page'.user = page.user /\ page'.tab = page.tab /\ page'.boot = page.boot
        /\ page'.loading = page.loading /\ page'.present = page.present
        /\ page'.present => page'.open \subseteq page.open \cup {"thresholds"}
    <2>1. CASE page' = page
      BY <1>1, <2>1
    <2>2. CASE ~page.present /\ \E panel \in {"drawer", "explainer"} : page' = [page EXCEPT !.open = page.open \cup {panel}]
      BY <1>1, <2>2 DEF PageState, Panels
    <2>3. CASE AnswerThresholds(i)
      BY <1>1, <2>3 DEF AnswerThresholds, PageState, Panels
    <2>4. CASE AnswerRecord(i)
      <3>1. flight[i].student \in Students
        BY <1>1, <2>4 DEF AnswerRecord, Requests
      <3> QED BY <1>1, <2>4, <3>1 DEF AnswerRecord, PageState
    <2>5. CASE page' = [page EXCEPT !.error = TRUE]
      BY <1>1, <2>5 DEF PageState
    <2> QED BY <2>1, <2>2, <2>3, <2>4, <2>5 DEF AnswerPanel, FailWithMessage, FailQuietly
  <1>5. Closed(page')
    BY <1>1, <1>4 DEF Closed
  <1> QED BY <1>2, <1>3, <1>4, <1>5, OutcomeStep

\* The outcomes that are followed by another request.
LEMMA FollowedOutcomes ==
    ASSUME PageConstants, Sound(page, flight, slips), NEW i \in 1..Len(flight),
           \/ AnswerNote(i) \/ AnswerNoteRecord(i) \/ AnswerApplyThresholds(i) \/ AnswerApplyWeights(i)
           \/ AnswerRefresh(i) \/ AnswerSave(i) \/ AnswerDecide(i)
    PROVE  Sound(page', flight', slips')
  <1>1. /\ page \in PageState /\ Closed(page) /\ RoleTabs(page) /\ flight[i] \in Requests
        /\ slips \in SUBSET {"class", "view", "weights"}
        /\ page.tab \in Tabs /\ {"risk", "commitments", "approvals"} \subseteq Tabs
    BY ElementOfSeq DEF Sound, PageState, Tabs, StudentTabs, InstructorTabs
  <1>2. flight[i].op \notin Tabs \cup {"bootstrap"}
    BY DEF AnswerNote, AnswerNoteRecord, AnswerApplyThresholds, AnswerApplyWeights, AnswerRefresh,
           AnswerSave, AnswerDecide, Tabs, StudentTabs, InstructorTabs
  <1>3. Sound(page, Rest(i), slips)
    BY <1>1, <1>2, FollowUp
  <1>4. Rest(i) \in Seq(Requests) /\ LateFirst(Rest(i))
    BY <1>3 DEF Sound
  <1>5. CASE AnswerNote(i)
    <2>1. PICK r \in Requests : ~r.late /\ flight' = Append(Rest(i), r)
      <3>1. flight[i].student \in Students /\ "noteRecord" \in Operations /\ None \in Classes \cup {None}
        BY <1>1, <1>5 DEF AnswerNote, Requests, Operations
      <3>2. /\ Request("noteRecord", None, None, flight[i].student, None) \in Requests
            /\ ~Request("noteRecord", None, None, flight[i].student, None).late
        BY <3>1, RequestType
      <3> QED BY <1>5, <3>2 DEF AnswerNote
    <2>2. /\ flight' \in Seq(Requests) /\ LateFirst(flight')
          /\ Pending(Rest(i)) => Pending(flight')
          /\ Cause(Rest(i)) => Cause(flight')
      BY <1>4, <2>1, Sent
    <2>3. page' = page /\ slips' = slips
      BY <1>5 DEF AnswerNote
    <2>4. Awaited(page', flight', slips')
      BY <1>3, <2>2, <2>3 DEF Sound, Awaited
    <2> QED BY <1>1, <2>2, <2>3, <2>4 DEF Sound
  <1>6. CASE AnswerNoteRecord(i)
    <2>1. PICK draft \in BOOLEAN : WithFreshRecord(page, flight[i].student) = [page EXCEPT !.draft = draft]
      <3>1. page.draft \in BOOLEAN /\ page = [page EXCEPT !.draft = page.draft]
        BY <1>1 DEF PageState
      <3> QED BY <3>1 DEF WithFreshRecord
    <2>2. PICK p \in PageState : p = [page EXCEPT !.draft = draft]
      BY <1>1 DEF PageState
    <2>3. /\ p.user = page.user /\ p.tab = page.tab /\ p.boot = page.boot /\ p.loading = page.loading
          /\ p.present = page.present /\ p.open = page.open
      BY <1>1, <2>2 DEF PageState
    <2>4. Sound(p, Rest(i), slips)
      BY <1>1, <1>2, <2>3, FollowUp DEF Closed
    <2>5. ThenLoad(p, "risk", Rest(i), slips)
      BY <1>6, <2>1, <2>2 DEF AnswerNoteRecord
    <2> QED BY <1>1, <1>4, <2>4, <2>5, OtherLoad
  <1>7. CASE AnswerApplyThresholds(i)
    <2>1. PICK p \in PageState : p = [page EXCEPT !.open = page.open \ {"thresholds"}, !.record = None]
      BY <1>1 DEF PageState
    <2>2. /\ p.user = page.user /\ p.tab = page.tab /\ p.boot = page.boot /\ p.loading = page.loading
          /\ p.present = page.present /\ p.open = page.open \ {"thresholds"}
      BY <1>1, <2>1 DEF PageState
    <2>3. Sound(p, Rest(i), slips)
      BY <1>1, <1>2, <2>2, FollowUp DEF Closed
    <2>4. ThenLoad(p, "risk", Rest(i), slips)
      BY <1>7, <2>1 DEF AnswerApplyThresholds
    <2> QED BY <1>1, <1>4, <2>3, <2>4, OtherLoad
  <1>8. CASE AnswerApplyWeights(i)
    <2>1. PICK klass \in Classes : klass = flight[i].klass
      BY <1>1, <1>8 DEF AnswerApplyWeights, Requests
    <2>2. PICK boot \in Classes \cup {None, Partial} : boot = IF page.boot = None THEN Partial ELSE page.boot
      BY <1>1 DEF PageState
    <2>3. PICK p \in PageState : p = [page EXCEPT !.boot = boot, !.weights = klass, !.open = page.open \ {"weights"}]
      BY <1>1 DEF PageState
    <2>4. /\ p.user = page.user /\ p.tab = page.tab /\ p.boot = boot
          /\ p.present = page.present /\ p.open = page.open \ {"weights"}
      BY <1>1, <2>3 DEF PageState
    <2>5. PICK past \in SUBSET {"class", "view", "weights"} : ThenLoad(p, page.tab, Rest(i), past)
      <3>1. slips \cup {"weights"} \in SUBSET {"class", "view", "weights"}
        BY <1>1
      <3> QED BY <1>1, <1>8, <2>1, <2>2, <2>3, <3>1 DEF AnswerApplyWeights
    <2>6. RoleTabs(p) /\ Closed(p) /\ p.boot # None
      BY <1>1, <2>2, <2>4 DEF RoleTabs, Closed, PageConstants
    <2> QED BY <1>4, <2>4, <2>5, <2>6, OwnLoad
  <1>9. CASE AnswerRefresh(i)
    <2>1. PICK p \in PageState : p = [page EXCEPT !.error = FALSE]
      BY <1>1 DEF PageState
    <2>2. /\ p.user = page.user /\ p.tab = page.tab /\ p.boot = page.boot /\ p.loading = page.loading
          /\ p.present = page.present /\ p.open = page.open
      BY <1>1, <2>1 DEF PageState
    <2>3. Sound(p, Rest(i), slips)
      BY <1>1, <1>2, <2>2, FollowUp DEF Closed
    <2>4. ThenLoad(p, page.tab, Rest(i), slips)
      BY <1>9, <2>1 DEF AnswerRefresh
    <2> QED BY <1>1, <1>4, <2>3, <2>4, OtherLoad
  <1>10. CASE AnswerSave(i)
    BY <1>1, <1>3, <1>4, <1>10, OtherLoad DEF AnswerSave
  <1>11. CASE AnswerDecide(i)
    BY <1>1, <1>3, <1>4, <1>11, OtherLoad DEF AnswerDecide
  <1> QED BY <1>5, <1>6, <1>7, <1>8, <1>9, <1>10, <1>11

----------------------------------------------------------------------------
(* The invariant *)

\* Every step keeps it.
LEMMA Step ==
    ASSUME PageConstants, PageInv, [Next]_vars
    PROVE  PageInv'
  <1>1. CASE UNCHANGED vars
    <2>1. page' = page /\ flight' = flight /\ slips' = slips /\ gestures' = gestures
      BY <1>1 DEF vars
    <2> QED BY <2>1 DEF PageInv, Sound
  <1>2. CASE Next
    <2> USE DEF PageInv
    <2>1. gestures' \in 0..MaxGestures
      <3>1. gestures' = gestures \/ (gestures < MaxGestures /\ gestures' = gestures + 1)
        <4>1. Free \/ Escape \/ Counted \/ Sending \/ Gesture \/ \E i \in 1..Len(flight) : Outcome(i)
          BY <1>2, Zenon
             DEF Next, DoLogin, Logout, ClickTab, PickClass, ChangeWeek, TogglePresent, Close, Reload,
                 OpenDrawer, OpenRecord, CloseRecord, TypeNote, SaveNote, OpenThresholds, ApplyThresholds,
                 OpenWeights, ApplyWeights, OpenExplainer, Refresh, Save, Decide, AnswerLoad, FailLoad,
                 AnswerBootstrap, FailBootstrap, AnswerPanel, AnswerThresholds, AnswerRecord, AnswerNote,
                 AnswerNoteRecord, AnswerApplyThresholds, AnswerApplyWeights, AnswerRefresh, AnswerSave,
                 AnswerDecide, FailWithMessage, FailQuietly
        <4> QED BY <4>1 DEF Free, Escape, Counted, Sending, Gesture, Outcome
      <3> QED BY <3>1 DEF PageConstants
    <2>2. CASE \/ Logout \/ Escape \/ CloseRecord \/ TypeNote \/ OpenWeights
               \/ \E panel \in Panels : Close(panel)
      BY <2>1, <2>2, OnlySteps
    <2>3. CASE \/ OpenDrawer \/ SaveNote \/ OpenThresholds \/ ApplyThresholds \/ ApplyWeights
               \/ OpenExplainer \/ Refresh \/ Save \/ Decide
               \/ \E student \in Students : OpenRecord(student)
      BY <2>1, <2>3, SendSteps
    <2>4. CASE \/ \E who \in Students \cup {Instructor} : DoLogin(who)
               \/ \E klass \in Classes : PickClass(klass)
               \/ \E tab \in Tabs : ClickTab(tab)
               \/ \E week \in Weeks : ChangeWeek(week)
               \/ TogglePresent
      BY <2>1, <2>4, LoadSteps
    <2>5. CASE Reload
      <3>1. page' = LoginScreen /\ flight' = <<>> /\ slips' = {}
        BY <2>5 DEF Reload
      <3> QED BY <2>1, <3>1, LoginScreenSound
    <2>6. ASSUME NEW i \in 1..Len(flight), AnswerLoad(i) \/ FailLoad(i)
          PROVE  PageInv'
      BY <2>1, <2>6, LoadOutcomes
    <2>7. ASSUME NEW i \in 1..Len(flight), AnswerBootstrap(i) \/ FailBootstrap(i)
          PROVE  PageInv'
      BY <2>1, <2>7, BootstrapOutcomes
    <2>8. ASSUME NEW i \in 1..Len(flight),
                 \/ \E panel \in {"drawer", "explainer"} : AnswerPanel(i, panel)
                 \/ AnswerThresholds(i) \/ AnswerRecord(i) \/ FailWithMessage(i) \/ FailQuietly(i)
          PROVE  PageInv'
      BY <2>1, <2>8, PanelOutcomes
    <2>9. ASSUME NEW i \in 1..Len(flight),
                 \/ AnswerNote(i) \/ AnswerNoteRecord(i) \/ AnswerApplyThresholds(i) \/ AnswerApplyWeights(i)
                 \/ AnswerRefresh(i) \/ AnswerSave(i) \/ AnswerDecide(i)
          PROVE  PageInv'
      BY <2>1, <2>9, FollowedOutcomes
    <2> QED BY <1>2, <2>2, <2>3, <2>4, <2>5, <2>6, <2>7, <2>8, <2>9 DEF Next
  <1> QED BY <1>1, <1>2

\* It holds in every state.
LEMMA Invariance == ASSUME PageConstants PROVE Spec => []PageInv
  <1>1. ASSUME Init PROVE PageInv
    BY <1>1, LoginScreenSound DEF Init, PageInv, PageConstants
  <1>2. ASSUME PageInv, [Next]_vars PROVE PageInv'
    BY <1>2, Step
  <1> QED BY <1>1, <1>2, PTL DEF Spec

----------------------------------------------------------------------------
(* Theorems *)

\* Type correctness: every continuation leaves the page a state it can render from, and
\* what is under way are requests an endpoint understands.
THEOREM PageTypeCorrect == Spec => []PageTypeOK
  <1>1. PageInv => PageTypeOK
    BY DEF PageInv, Sound, PageTypeOK
  <1> QED BY <1>1, Invariance, PageConstants, PTL

\* The instructor's drawer, weights and formula stay closed in Present mode, whatever
\* was under way when it began.
THEOREM PanelsStayClosedAlways == Spec => []PanelsStayClosedInPresent
  <1>1. PageInv => PanelsStayClosedInPresent
    BY DEF PageInv, Sound, Closed, PanelsStayClosedInPresent
  <1> QED BY <1>1, Invariance, PageConstants, PTL

\* A loading page waits for a request, unless a bootstrap has failed.
THEOREM LoadingHasACauseAlways == Spec => []LoadingHasACause
  <1>1. PageInv => LoadingHasACause
    BY DEF PageInv, Sound, Awaited, Cause, Pending, IsBootstrap, LoadingHasACause
  <1> QED BY <1>1, Invariance, PageConstants, PTL

\* Only the answer to a request for it opens a student's record.
LEMMA RecordStep ==
    ASSUME PageConstants, PageInv, Next, page'.record \notin {None, page.record}
    PROVE  \E i \in 1..Len(flight) :
              /\ flight[i].op = "record" /\ flight[i].student = page'.record
              /\ flight' = Rest(i)
  <1>1. /\ page \in PageState /\ flight \in Seq(Requests) /\ slips \in SUBSET {"class", "view", "weights"}
        /\ page.tab \in Tabs /\ {"risk", "commitments", "approvals", "league"} \subseteq Tabs
    BY DEF PageInv, Sound, PageState, Tabs, StudentTabs, InstructorTabs
  \* A page before a load has the record the page has, or none.
  <1>2. ASSUME NEW p \in PageState, p.record \in {None, page.record}, NEW tab \in Tabs, NEW q \in Seq(Requests),
               NEW past \in SUBSET {"class", "view", "weights"}, ThenLoad(p, tab, q, past)
        PROVE  FALSE
    BY <1>2, Begun
  <1>3. ASSUME NEW p \in PageState, p.record = page.record, NEW klass \in Classes, ThenLoadClass(p, klass)
        PROVE  FALSE
    BY <1>3 DEF ThenLoadClass, PageState
  <1>4. ASSUME NEW i \in 1..Len(flight)
        PROVE  Rest(i) \in Seq(Requests) /\ flight[i] \in Requests
    BY <1>1, RestKeeps, ElementOfSeq
  <1>5. CASE \/ Logout \/ Escape \/ CloseRecord \/ TypeNote \/ OpenWeights
             \/ \E panel \in Panels : Close(panel)
    BY <1>1, <1>5 DEF Logout, Escape, CloseRecord, TypeNote, OpenWeights, Close, Only, PageState
  <1>6. CASE \/ OpenDrawer \/ SaveNote \/ OpenThresholds \/ ApplyThresholds \/ ApplyWeights
             \/ OpenExplainer \/ Refresh \/ Save \/ Decide
             \/ \E student \in Students : OpenRecord(student)
    BY <1>6 DEF OpenDrawer, SaveNote, OpenThresholds, ApplyThresholds, ApplyWeights, OpenExplainer,
                Refresh, Save, Decide, OpenRecord, ThenSend
  <1>7. ASSUME NEW who \in Students \cup {Instructor}, DoLogin(who)
        PROVE  FALSE
    <2>1. PICK tab \in Tabs : tab = IF who = Instructor THEN "league" ELSE "me"
      BY DEF Tabs, StudentTabs, InstructorTabs
    <2>2. PICK p \in PageState : p = [page EXCEPT !.user = who, !.tab = tab]
      BY <1>1 DEF PageState
    <2>3. PICK klass \in Classes : klass = IF who = Instructor THEN page.klass ELSE HomeOf[who]
      BY <1>1 DEF PageState, PageConstants
    <2>4. ThenLoadClass(p, klass)
      BY <1>7, <2>1, <2>2, <2>3 DEF DoLogin
    <2>5. p.record = page.record
      BY <1>1, <2>2 DEF PageState
    <2> QED BY <1>3, <2>4, <2>5
  <1>8. ASSUME NEW klass \in Classes, PickClass(klass)
        PROVE  FALSE
    BY <1>1, <1>3, <1>8 DEF PickClass
  <1>9. ASSUME NEW tab \in Tabs, ClickTab(tab)
        PROVE  FALSE
    <2>1. PICK p \in PageState :
             p = [page EXCEPT !.tab = tab, !.loading = TRUE, !.open = page.open \ {"drawer"}]
      BY <1>1 DEF PageState
    <2>2. p.record = page.record
      BY <1>1, <2>1 DEF PageState
    <2> QED BY <1>1, <1>2, <1>9, <2>1, <2>2 DEF ClickTab
  <1>10. ASSUME NEW week \in Weeks, ChangeWeek(week)
         PROVE  FALSE
    <2>1. PICK p \in PageState : p = [page EXCEPT !.week = week, !.open = page.open \ {"drawer"}]
      BY <1>1 DEF PageState
    <2>2. p.record = page.record
      BY <1>1, <2>1 DEF PageState
    <2> QED BY <1>1, <1>2, <1>10, <2>1, <2>2 DEF ChangeWeek
  <1>11. CASE TogglePresent
    <2>1. CASE page.present \/ page.tab = "league"
      BY <1>1, <1>11, <2>1 DEF TogglePresent, EnterPresent, Only, PageState
    <2>2. CASE ~page.present /\ page.tab # "league"
      <3>1. PICK p \in PageState :
               p = [page EXCEPT !.present = TRUE, !.record = None, !.open = {},
                                !.tab = "league", !.loading = TRUE]
        BY <1>1 DEF PageState, Tabs, InstructorTabs
      <3>2. p.record = None
        BY <1>1, <3>1 DEF PageState
      <3>3. p = [[page EXCEPT !.present = TRUE, !.record = None, !.open = {}]
                    EXCEPT !.tab = "league", !.loading = TRUE]
        BY <1>1, <3>1 DEF PageState
      <3>4. ThenLoad(p, "league", flight, slips)
        BY <1>11, <2>2, <3>3 DEF TogglePresent, EnterPresent
      <3> QED BY <1>1, <1>2, <3>2, <3>4
    <2> QED BY <2>1, <2>2
  <1>12. CASE Reload
    BY <1>12 DEF Reload, LoginScreen
  <1>13. ASSUME NEW i \in 1..Len(flight),
                \/ AnswerLoad(i) \/ FailLoad(i) \/ FailBootstrap(i) \/ AnswerThresholds(i)
                \/ \E panel \in {"drawer", "explainer"} : AnswerPanel(i, panel)
                \/ AnswerNote(i) \/ FailWithMessage(i) \/ FailQuietly(i)
         PROVE  FALSE
    <2>1. CASE AnswerLoad(i) \/ FailLoad(i)
      BY <1>1, <2>1 DEF AnswerLoad, FailLoad, Shown, ViewOf, Failed, PageState
    <2>2. CASE \/ FailBootstrap(i) \/ AnswerThresholds(i) \/ AnswerNote(i) \/ FailWithMessage(i) \/ FailQuietly(i)
               \/ \E panel \in {"drawer", "explainer"} : AnswerPanel(i, panel)
      BY <1>1, <2>2 DEF FailBootstrap, AnswerThresholds, AnswerNote, FailWithMessage, FailQuietly,
                        AnswerPanel, PageState
    <2> QED BY <1>13, <2>1, <2>2
  <1>14. ASSUME NEW i \in 1..Len(flight), AnswerBootstrap(i)
         PROVE  FALSE
    <2>1. PICK klass \in Classes : klass = flight[i].klass
      BY <1>4, <1>14 DEF AnswerBootstrap, Requests
    <2>2. PICK p \in PageState :
             p = [page EXCEPT !.boot = klass, !.week = Latest[klass], !.weights = klass]
      BY <1>1, <2>1 DEF PageState, PageConstants
    <2>3. PICK past \in SUBSET {"class", "view", "weights"} : ThenLoad(p, page.tab, Rest(i), past)
      <3>1. slips \cup {"class"} \in SUBSET {"class", "view", "weights"}
            /\ slips \ {"weights"} \in SUBSET {"class", "view", "weights"}
        BY <1>1
      <3> QED BY <1>14, <2>1, <2>2, <3>1 DEF AnswerBootstrap
    <2>4. p.record = page.record
      BY <1>1, <2>2 DEF PageState
    <2> QED BY <1>1, <1>2, <1>4, <2>3, <2>4
  <1>15. ASSUME NEW i \in 1..Len(flight), AnswerNoteRecord(i)
         PROVE  FALSE
    <2>1. PICK draft \in BOOLEAN : WithFreshRecord(page, flight[i].student) = [page EXCEPT !.draft = draft]
      <3>1. page.draft \in BOOLEAN /\ page = [page EXCEPT !.draft = page.draft]
        BY <1>1 DEF PageState
      <3> QED BY <3>1 DEF WithFreshRecord
    <2>2. PICK p \in PageState : p = [page EXCEPT !.draft = draft]
      BY <1>1 DEF PageState
    <2>3. p.record = page.record
      BY <1>1, <2>2 DEF PageState
    <2>4. ThenLoad(p, "risk", Rest(i), slips)
      BY <1>15, <2>1, <2>2 DEF AnswerNoteRecord
    <2> QED BY <1>1, <1>2, <1>4, <2>3, <2>4
  <1>16. ASSUME NEW i \in 1..Len(flight), AnswerApplyThresholds(i)
         PROVE  FALSE
    <2>1. PICK p \in PageState : p = [page EXCEPT !.open = page.open \ {"thresholds"}, !.record = None]
      BY <1>1 DEF PageState
    <2>2. p.record = None
      BY <1>1, <2>1 DEF PageState
    <2>3. ThenLoad(p, "risk", Rest(i), slips)
      BY <1>16, <2>1 DEF AnswerApplyThresholds
    <2> QED BY <1>1, <1>2, <1>4, <2>2, <2>3
  <1>17. ASSUME NEW i \in 1..Len(flight), AnswerApplyWeights(i)
         PROVE  FALSE
    <2>1. PICK klass \in Classes : klass = flight[i].klass
      BY <1>4, <1>17 DEF AnswerApplyWeights, Requests
    <2>2. PICK boot \in Classes \cup {None, Partial} : boot = IF page.boot = None THEN Partial ELSE page.boot
      BY <1>1 DEF PageState
    <2>3. PICK p \in PageState :
             p = [page EXCEPT !.boot = boot, !.weights = klass, !.open = page.open \ {"weights"}]
      BY <1>1 DEF PageState
    <2>4. p.record = page.record
      BY <1>1, <2>3 DEF PageState
    <2>5. PICK past \in SUBSET {"class", "view", "weights"} : ThenLoad(p, page.tab, Rest(i), past)
      <3>1. slips \cup {"weights"} \in SUBSET {"class", "view", "weights"}
        BY <1>1
      <3> QED BY <1>1, <1>17, <2>1, <2>2, <2>3, <3>1 DEF AnswerApplyWeights
    <2> QED BY <1>1, <1>2, <1>4, <2>4, <2>5
  <1>18. ASSUME NEW i \in 1..Len(flight), AnswerRefresh(i) \/ AnswerSave(i) \/ AnswerDecide(i)
         PROVE  FALSE
    <2>1. PICK p \in PageState : p = [page EXCEPT !.error = FALSE]
      BY <1>1 DEF PageState
    <2>2. CASE AnswerRefresh(i)
      <3>1. p.record = page.record
        BY <1>1, <2>1 DEF PageState
      <3>2. ThenLoad(p, page.tab, Rest(i), slips)
        BY <2>1, <2>2 DEF AnswerRefresh
      <3> QED BY <1>1, <1>2, <1>4, <3>1, <3>2
    <2>3. CASE AnswerSave(i) \/ AnswerDecide(i)
      BY <1>1, <1>2, <1>4, <2>3 DEF AnswerSave, AnswerDecide
    <2> QED BY <1>18, <2>2, <2>3
  <1>19. ASSUME NEW i \in 1..Len(flight), AnswerRecord(i)
         PROVE  flight[i].op = "record" /\ flight[i].student = page'.record /\ flight' = Rest(i)
    BY <1>1, <1>19 DEF AnswerRecord, PageState
  <1> QED BY <1>5, <1>6, <1>7, <1>8, <1>9, <1>10, <1>11, <1>12, <1>13, <1>14, <1>15, <1>16, <1>17, <1>18, <1>19
          DEF Next

\* Saving a note never reopens a record that was closed, or puts one student's in the
\* place of another's.
THEOREM RecordsOpenOnRequestAlways == Spec => RecordsOpenOnRequest
  <1>1. PageInv /\ [Next]_vars =>
           [page'.record \notin {None, page.record}
            => \E i \in 1..Len(flight) :
                  /\ flight[i].op = "record" /\ flight[i].student = page'.record
                  /\ flight' = Rest(i)]_vars
    BY RecordStep, PageConstants
  <1> QED BY <1>1, Invariance, PageConstants, PTL DEF Spec, RecordsOpenOnRequest

----------------------------------------------------------------------------
(* What the page settles on *)

Bootstraps == {"bootstrap"}

Kinds == {Tabs, Bootstraps}

\* A request of the kind that has not been overtaken is under way.
Current(q, kind) == \E i \in 1..Len(q) : q[i].op \in kind /\ ~q[i].late

\* Requests of a kind are overtaken from the oldest on.
InOrder(q, kind) ==
    \A j, i \in 1..Len(q) : j < i /\ q[i].op \in kind /\ q[j].op \in kind /\ q[i].late => q[j].late

\* The newest request of a kind, unless it has been overtaken, is one of these.
NewestIn(q, kind, these) ==
    \A i \in 1..Len(q) :
        q[i].op \in kind /\ ~q[i].late /\ (\A j \in 1..Len(q) : j > i => q[j].op \notin kind)
        => q[i] \in these

OfClass(klass) == {r \in Requests : r.klass = klass}

\* The view the page's state calls for, and the requests for it.
WantedView(p) == ViewOf(LoadOf(p, p.tab))

Wanted(p) == {r \in Requests : ViewOf(r) = WantedView(p)}

\* The chosen class's bootstrap is in place, or it is the one that will come last.
Chosen(p, q, past) ==
    p.user # None /\ "class" \notin past
    => /\ NewestIn(q, Bootstraps, OfClass(p.klass))
       /\ Current(q, Bootstraps) \/ p.boot = p.klass

\* The weights are those of the bootstrap.
Weighed(p, past) ==
    "weights" \notin past => p.boot # Partial /\ (p.boot # None => p.weights = p.boot)

AtHome(p) == p.user \in Students => p.klass = HomeOf[p.user]

\* With its bootstrap in place, the view wanted is shown, or it will come last, or an
\* error shows.
Viewed(p, q, past) ==
    p.user # None /\ past = {} /\ ~Current(q, Bootstraps)
    => /\ NewestIn(q, Tabs, Wanted(p))
       /\ Current(q, Tabs) \/ p.error \/ p.shown = WantedView(p)

Settling(p, q, past) ==
    /\ InOrder(q, Tabs)
    /\ Chosen(p, q, past)
    /\ Weighed(p, past)
    /\ AtHome(p)
    /\ Viewed(p, q, past)

\* The fields a view and a class depend on.
SameWishes(p, p2) ==
    /\ p2.user = p.user /\ p2.tab = p.tab /\ p2.klass = p.klass /\ p2.week = p.week
    /\ p2.boot = p.boot /\ p2.weights = p.weights

\* Bootstraps are in order by PageInv.
LEMMA BootstrapOrder ==
    ASSUME NEW q
    PROVE  /\ LateFirst(q) <=> InOrder(q, Bootstraps)
           /\ Pending(q) <=> Current(q, Bootstraps)
  BY DEF LateFirst, InOrder, Pending, Current, IsBootstrap, Bootstraps

\* One kind does not meet the other.
LEMMA KindsApart ==
    ASSUME NEW kind \in Kinds
    PROVE  /\ \A r, t \in Requests : r.op \in kind => (SameKind(t, r) <=> t.op \in kind)
           /\ \A r, t \in Requests : r.op \notin kind /\ SameKind(t, r) => t.op \notin kind
  <1>1. "bootstrap" \notin Tabs
    BY DEF Tabs, StudentTabs, InstructorTabs
  <1> QED BY <1>1 DEF Kinds, Bootstraps, SameKind

\* The wishes of a page call for one view.
LEMMA SameView ==
    ASSUME NEW p, NEW p2, SameWishes(p, p2)
    PROVE  WantedView(p2) = WantedView(p) /\ Wanted(p2) = Wanted(p)
  <1>1. LoadOf(p2, p2.tab) = LoadOf(p, p.tab)
    BY DEF SameWishes, LoadOf
  <1> QED BY <1>1 DEF WantedView, Wanted

\* A request sent is the newest of its kind, and leaves the other kind alone.
LEMMA SentOfKind ==
    ASSUME NEW q \in Seq(Requests), NEW r \in Requests, ~r.late, NEW kind \in Kinds
    PROVE  /\ InOrder(q, kind) => InOrder(Append(q, r), kind)
           /\ r.op \notin kind => /\ Current(Append(q, r), kind) <=> Current(q, kind)
                                  /\ \A these : NewestIn(q, kind, these) => NewestIn(Append(q, r), kind, these)
           /\ r.op \in kind => /\ Current(Append(q, r), kind)
                               /\ \A these : r \in these => NewestIn(Append(q, r), kind, these)
  <1>1. /\ Len(Append(q, r)) = Len(q) + 1 /\ Len(q) \in Nat
        /\ \A i \in 1..Len(q) : Append(q, r)[i] = q[i]
        /\ Append(q, r)[Len(q) + 1] = r
    BY AppendProperties, LenProperties
  <1>2. InOrder(q, kind) => InOrder(Append(q, r), kind)
    BY <1>1 DEF InOrder
  <1>3. ASSUME r.op \notin kind
        PROVE  Current(Append(q, r), kind) <=> Current(q, kind)
    BY <1>1, <1>3 DEF Current
  <1>4. ASSUME r.op \notin kind, NEW these, NewestIn(q, kind, these)
        PROVE  NewestIn(Append(q, r), kind, these)
    <2> SUFFICES ASSUME NEW i \in 1..Len(Append(q, r)), Append(q, r)[i].op \in kind, ~Append(q, r)[i].late,
                        \A j \in 1..Len(Append(q, r)) : j > i => Append(q, r)[j].op \notin kind
                 PROVE  Append(q, r)[i] \in these
      BY DEF NewestIn
    <2>1. i \in 1..Len(q)
      BY <1>1, <1>4
    <2>2. \A j \in 1..Len(q) : j > i => q[j].op \notin kind
      BY <1>1
    <2> QED BY <1>1, <1>4, <2>1, <2>2 DEF NewestIn
  <1>5. ASSUME r.op \in kind
        PROVE  Current(Append(q, r), kind)
    BY <1>1, <1>5 DEF Current
  <1>6. ASSUME r.op \in kind, NEW these, r \in these
        PROVE  NewestIn(Append(q, r), kind, these)
    <2> SUFFICES ASSUME NEW i \in 1..Len(Append(q, r)),
                        \A j \in 1..Len(Append(q, r)) : j > i => Append(q, r)[j].op \notin kind
                 PROVE  Append(q, r)[i] \in these
      BY DEF NewestIn
    <2>1. Len(q) + 1 \in 1..Len(Append(q, r)) /\ ~(Len(q) + 1 > i)
      BY <1>1, <1>6
    <2>2. i = Len(q) + 1
      BY <1>1, <2>1
    <2> QED BY <1>1, <1>6, <2>2
  <1> QED BY <1>2, <1>3, <1>4, <1>5, <1>6

\* Where what is left under way comes from.
LEMMA RestIndex ==
    ASSUME flight \in Seq(Requests), NEW i \in 1..Len(flight)
    PROVE  /\ \A k \in 1..Len(Rest(i)) :
                 /\ (IF k < i THEN k ELSE k + 1) \in 1..Len(flight) \ {i}
                 /\ Rest(i)[k] = Marked(i)[IF k < i THEN k ELSE k + 1]
           /\ \A j \in 1..Len(flight) \ {i} :
                 /\ (IF j < i THEN j ELSE j - 1) \in 1..Len(Rest(i))
                 /\ Rest(i)[IF j < i THEN j ELSE j - 1] = Marked(i)[j]
  <1>1. Rest(i) = RemoveAt(Marked(i), i)
    BY DEF Rest, Marked
  <1>2. Marked(i) \in Seq(Requests) /\ Len(Marked(i)) = Len(flight) /\ Len(flight) \in Nat
    BY MarkedType, LenProperties
  <1>3. i \in 1..Len(Marked(i))
    BY <1>2
  <1>4. /\ Len(RemoveAt(Marked(i), i)) = Len(Marked(i)) - 1
        /\ \A k \in 1..(Len(Marked(i)) - 1) :
              RemoveAt(Marked(i), i)[k] = IF k < i THEN Marked(i)[k] ELSE Marked(i)[k + 1]
    BY <1>2, <1>3, RemoveAtProperties
  <1>5. /\ Len(Rest(i)) = Len(flight) - 1
        /\ \A k \in 1..(Len(flight) - 1) : Rest(i)[k] = IF k < i THEN Marked(i)[k] ELSE Marked(i)[k + 1]
    BY <1>1, <1>2, <1>4
  <1>6. ASSUME NEW k \in 1..Len(Rest(i))
        PROVE  /\ (IF k < i THEN k ELSE k + 1) \in 1..Len(flight) \ {i}
               /\ Rest(i)[k] = Marked(i)[IF k < i THEN k ELSE k + 1]
    BY <1>2, <1>5
  <1>7. ASSUME NEW j \in 1..Len(flight) \ {i}
        PROVE  /\ (IF j < i THEN j ELSE j - 1) \in 1..Len(Rest(i))
               /\ Rest(i)[IF j < i THEN j ELSE j - 1] = Marked(i)[j]
    <2>1. CASE j < i
      BY <1>2, <1>5, <2>1
    <2>2. CASE j > i
      <3>1. j - 1 \in 1..(Len(flight) - 1) /\ ~(j - 1 < i) /\ (j - 1) + 1 = j
        BY <1>2, <2>2
      <3> QED BY <1>2, <1>5, <2>2, <3>1
    <2> QED BY <1>2, <2>1, <2>2
  <1> QED BY <1>6, <1>7

\* What a request that stays under way becomes.
LEMMA MarkedOfKind ==
    ASSUME flight \in Seq(Requests), NEW i \in 1..Len(flight), NEW kind \in Kinds, NEW j \in 1..Len(flight)
    PROVE  /\ Marked(i)[j].op = flight[j].op
           /\ flight[j].late => Marked(i)[j].late
           /\ ~Marked(i)[j].late => Marked(i)[j] = flight[j]
           /\ flight[j].op \in kind =>
                 (Marked(i)[j].late <=> flight[j].late \/ (j < i /\ flight[i].op \in kind))
  <1>1. flight[i] \in Requests /\ flight[j] \in Requests /\ DOMAIN flight = 1..Len(flight)
    BY ElementOfSeq, LenProperties
  <1>2. /\ Marked(i)[j].op = flight[j].op
        /\ Marked(i)[j].late = (flight[j].late \/ (j < i /\ SameKind(flight[j], flight[i])))
    BY MarkedType
  <1>3. flight[j].op \in kind => (SameKind(flight[j], flight[i]) <=> flight[i].op \in kind)
    BY <1>1, KindsApart DEF SameKind
  <1>4. ASSUME ~Marked(i)[j].late
        PROVE  Marked(i)[j] = flight[j]
    BY <1>1, <1>2, <1>4 DEF Marked
  <1> QED BY <1>2, <1>3, <1>4

\* The outcome of another kind of request changes nothing for a kind.
LEMMA RestOfOthers ==
    ASSUME flight \in Seq(Requests), NEW i \in 1..Len(flight), NEW kind \in Kinds, flight[i].op \notin kind
    PROVE  /\ InOrder(flight, kind) => InOrder(Rest(i), kind)
           /\ Current(Rest(i), kind) <=> Current(flight, kind)
           /\ \A these : NewestIn(flight, kind, these) => NewestIn(Rest(i), kind, these)
  <1> DEFINE From(k) == IF k < i THEN k ELSE k + 1
             To(j) == IF j < i THEN j ELSE j - 1
  <1>1. Len(flight) \in Nat /\ Len(Rest(i)) \in Nat /\ i \in Nat
    BY RestKeeps, LenProperties
  <1>2. /\ \A k \in 1..Len(Rest(i)) : From(k) \in 1..Len(flight) \ {i} /\ Rest(i)[k] = Marked(i)[From(k)]
        /\ \A j \in 1..Len(flight) \ {i} : To(j) \in 1..Len(Rest(i)) /\ Rest(i)[To(j)] = Marked(i)[j]
    BY RestIndex
  <1>3. \A j \in 1..Len(flight) :
           /\ Marked(i)[j].op = flight[j].op
           /\ flight[j].op \in kind => Marked(i)[j] = flight[j]
    <2> SUFFICES ASSUME NEW j \in 1..Len(flight)
                 PROVE  /\ Marked(i)[j].op = flight[j].op
                        /\ flight[j].op \in kind => Marked(i)[j] = flight[j]
      OBVIOUS
    <2>1. flight[j] \in Requests /\ flight[i] \in Requests /\ DOMAIN flight = 1..Len(flight)
      BY ElementOfSeq, LenProperties
    <2>2. flight[j].op \in kind => ~SameKind(flight[j], flight[i])
      BY <2>1, KindsApart
    <2> QED BY <2>1, <2>2, MarkedOfKind DEF Marked
  <1>4. \A h, k \in 1..Len(Rest(i)) : h < k => From(h) < From(k)
    BY <1>1
  <1>5. \A k \in 1..Len(Rest(i)) : \A j \in 1..Len(flight) \ {i} : j > From(k) => To(j) > k
    BY <1>1
  <1> HIDE DEF From, To
  <1>6. ASSUME InOrder(flight, kind)
        PROVE  InOrder(Rest(i), kind)
    <2> SUFFICES ASSUME NEW h \in 1..Len(Rest(i)), NEW k \in 1..Len(Rest(i)), h < k,
                        Rest(i)[h].op \in kind, Rest(i)[k].op \in kind, Rest(i)[k].late
                 PROVE  Rest(i)[h].late
      BY DEF InOrder
    <2>1. /\ From(h) \in 1..Len(flight) /\ From(k) \in 1..Len(flight) /\ From(h) < From(k)
          /\ Rest(i)[h] = flight[From(h)] /\ Rest(i)[k] = flight[From(k)]
      BY <1>2, <1>3, <1>4
    <2> QED BY <1>6, <2>1 DEF InOrder
  <1>7. Current(Rest(i), kind) <=> Current(flight, kind)
    <2>1. ASSUME NEW k \in 1..Len(Rest(i)), Rest(i)[k].op \in kind, ~Rest(i)[k].late
          PROVE  Current(flight, kind)
      <3>1. From(k) \in 1..Len(flight) /\ Rest(i)[k] = flight[From(k)]
        BY <1>2, <1>3, <2>1
      <3> QED BY <2>1, <3>1 DEF Current
    <2>2. ASSUME NEW j \in 1..Len(flight), flight[j].op \in kind, ~flight[j].late
          PROVE  Current(Rest(i), kind)
      <3>1. To(j) \in 1..Len(Rest(i)) /\ Rest(i)[To(j)] = flight[j]
        BY <1>2, <1>3, <2>2
      <3> QED BY <2>2, <3>1 DEF Current
    <2> QED BY <2>1, <2>2 DEF Current
  <1>8. ASSUME NEW these, NewestIn(flight, kind, these)
        PROVE  NewestIn(Rest(i), kind, these)
    <2> SUFFICES ASSUME NEW k \in 1..Len(Rest(i)), Rest(i)[k].op \in kind, ~Rest(i)[k].late,
                        \A m \in 1..Len(Rest(i)) : m > k => Rest(i)[m].op \notin kind
                 PROVE  Rest(i)[k] \in these
      BY DEF NewestIn
    <2>1. From(k) \in 1..Len(flight) /\ Rest(i)[k] = flight[From(k)]
      BY <1>2, <1>3
    <2>2. ASSUME NEW j \in 1..Len(flight), j > From(k)
          PROVE  flight[j].op \notin kind
      <3>1. CASE j = i
        BY <3>1
      <3>2. CASE j # i
        <4>1. To(j) \in 1..Len(Rest(i)) /\ To(j) > k /\ Rest(i)[To(j)] = Marked(i)[j]
          BY <1>2, <1>5, <2>2, <3>2
        <4> QED BY <1>3, <4>1
      <3> QED BY <3>1, <3>2
    <2> QED BY <1>8, <2>1, <2>2 DEF NewestIn
  <1> QED BY <1>6, <1>7, <1>8

\* An outcome overtakes the older requests of its kind; a newer one stays to come last.
LEMMA RestOfKind ==
    ASSUME flight \in Seq(Requests), NEW i \in 1..Len(flight), NEW kind \in Kinds, flight[i].op \in kind,
           InOrder(flight, kind)
    PROVE  /\ InOrder(Rest(i), kind)
           /\ Newest(i) <=> ~Current(Rest(i), kind)
           /\ \A these : NewestIn(flight, kind, these) => NewestIn(Rest(i), kind, these)
           /\ \A these : NewestIn(flight, kind, these) /\ Newest(i) /\ ~flight[i].late => flight[i] \in these
  <1> DEFINE From(k) == IF k < i THEN k ELSE k + 1
             To(j) == IF j < i THEN j ELSE j - 1
  <1>1. Len(flight) \in Nat /\ Len(Rest(i)) \in Nat /\ i \in Nat
    BY RestKeeps, LenProperties
  <1>2. /\ \A k \in 1..Len(Rest(i)) : From(k) \in 1..Len(flight) \ {i} /\ Rest(i)[k] = Marked(i)[From(k)]
        /\ \A j \in 1..Len(flight) \ {i} : To(j) \in 1..Len(Rest(i)) /\ Rest(i)[To(j)] = Marked(i)[j]
    BY RestIndex
  <1>3. \A j \in 1..Len(flight) :
           /\ Marked(i)[j].op = flight[j].op
           /\ ~Marked(i)[j].late => Marked(i)[j] = flight[j]
           /\ flight[j].op \in kind => (Marked(i)[j].late <=> flight[j].late \/ j < i)
    BY MarkedOfKind
  <1>4. \A h, k \in 1..Len(Rest(i)) : h < k => From(h) < From(k)
    BY <1>1
  <1>5. \A k \in 1..Len(Rest(i)) : \A j \in 1..Len(flight) \ {i} : j > From(k) => To(j) > k
    BY <1>1
  <1>6. Newest(i) <=> \A j \in 1..Len(flight) : j > i /\ flight[j].op \in kind => flight[j].late
    <2>1. DOMAIN flight = 1..Len(flight) /\ flight[i] \in Requests /\ \A j \in 1..Len(flight) : flight[j] \in Requests
      BY ElementOfSeq, LenProperties
    <2>2. \A j \in 1..Len(flight) : SameKind(flight[j], flight[i]) <=> flight[j].op \in kind
      BY <2>1, KindsApart
    <2> QED BY <2>1, <2>2 DEF Newest
  <1> HIDE DEF From, To
  <1>7. InOrder(Rest(i), kind)
    <2> SUFFICES ASSUME NEW h \in 1..Len(Rest(i)), NEW k \in 1..Len(Rest(i)), h < k,
                        Rest(i)[h].op \in kind, Rest(i)[k].op \in kind, Rest(i)[k].late
                 PROVE  Rest(i)[h].late
      BY DEF InOrder
    <2>1. /\ From(h) \in 1..Len(flight) /\ From(k) \in 1..Len(flight) /\ From(h) < From(k)
          /\ Rest(i)[h] = Marked(i)[From(h)] /\ Rest(i)[k] = Marked(i)[From(k)]
      BY <1>2, <1>4
    <2>2. flight[From(h)].op \in kind /\ flight[From(k)].op \in kind /\ (flight[From(k)].late \/ From(k) < i)
      BY <1>3, <2>1
    <2>3. flight[From(h)].late \/ From(h) < i
      BY <1>1, <2>1, <2>2 DEF InOrder
    <2> QED BY <1>3, <2>1, <2>2, <2>3
  <1>8. ASSUME ~Newest(i)
        PROVE  Current(Rest(i), kind)
    <2>1. PICK j \in 1..Len(flight) : j > i /\ flight[j].op \in kind /\ ~flight[j].late
      BY <1>6, <1>8
    <2>2. j # i /\ ~(j < i)
      BY <1>1, <2>1
    <2>3. To(j) \in 1..Len(Rest(i)) /\ Rest(i)[To(j)] = Marked(i)[j]
      BY <1>2, <2>2
    <2>4. Marked(i)[j].op \in kind /\ ~Marked(i)[j].late
      BY <1>3, <2>1, <2>2
    <2> QED BY <2>3, <2>4 DEF Current
  <1>9. ASSUME Current(Rest(i), kind)
        PROVE  ~Newest(i)
    <2>1. PICK k \in 1..Len(Rest(i)) : Rest(i)[k].op \in kind /\ ~Rest(i)[k].late
      BY <1>9 DEF Current
    <2>2. /\ From(k) \in 1..Len(flight) /\ From(k) # i
          /\ flight[From(k)].op \in kind /\ ~flight[From(k)].late /\ ~(From(k) < i)
      BY <1>2, <1>3, <2>1
    <2>3. From(k) > i
      BY <1>1, <2>2
    <2> QED BY <1>6, <2>2, <2>3
  <1>10. ASSUME NEW these, NewestIn(flight, kind, these)
         PROVE  NewestIn(Rest(i), kind, these)
    <2> SUFFICES ASSUME NEW k \in 1..Len(Rest(i)), Rest(i)[k].op \in kind, ~Rest(i)[k].late,
                        \A m \in 1..Len(Rest(i)) : m > k => Rest(i)[m].op \notin kind
                 PROVE  Rest(i)[k] \in these
      BY DEF NewestIn
    <2>1. /\ From(k) \in 1..Len(flight) /\ From(k) # i /\ Rest(i)[k] = flight[From(k)]
          /\ flight[From(k)].op \in kind /\ ~flight[From(k)].late /\ ~(From(k) < i)
      BY <1>2, <1>3
    <2>2. ASSUME NEW j \in 1..Len(flight), j > From(k)
          PROVE  flight[j].op \notin kind
      <3>1. j # i
        BY <1>1, <2>1, <2>2
      <3>2. To(j) \in 1..Len(Rest(i)) /\ To(j) > k /\ Rest(i)[To(j)] = Marked(i)[j]
        BY <1>2, <1>5, <2>2, <3>1
      <3> QED BY <1>3, <3>2
    <2> QED BY <1>10, <2>1, <2>2 DEF NewestIn
  <1>11. ASSUME NEW these, NewestIn(flight, kind, these), Newest(i), ~flight[i].late
         PROVE  flight[i] \in these
    <2>1. ASSUME NEW j \in 1..Len(flight), j > i, flight[j].op \in kind
          PROVE  FALSE
      <3>1. flight[j].late /\ i < j
        BY <1>1, <1>6, <1>11, <2>1
      <3> QED BY <1>11, <2>1, <3>1 DEF InOrder
    <2> QED BY <1>11, <2>1 DEF NewestIn
  <1> QED BY <1>7, <1>8, <1>9, <1>10, <1>11

\* What is settled stays so while the wishes and what is under way stay the same.
LEMMA SettlingKept ==
    ASSUME NEW p, NEW p2, NEW q, NEW q2, NEW past,
           Settling(p, q, past), SameWishes(p, p2),
           p2.error \/ ((p.error => p2.error) /\ p2.shown = p.shown),
           InOrder(q2, Tabs),
           \A kind \in Kinds :
              /\ Current(q2, kind) <=> Current(q, kind)
              /\ \A these : NewestIn(q, kind, these) => NewestIn(q2, kind, these)
    PROVE  Settling(p2, q2, past)
  <1>1. Tabs \in Kinds /\ Bootstraps \in Kinds
    BY DEF Kinds
  <1>2. WantedView(p2) = WantedView(p) /\ Wanted(p2) = Wanted(p)
    BY SameView
  <1>3. Chosen(p2, q2, past)
    BY <1>1 DEF Settling, Chosen, SameWishes
  <1>4. Weighed(p2, past) /\ AtHome(p2)
    BY DEF Settling, Weighed, AtHome, SameWishes
  <1>5. Viewed(p2, q2, past)
    BY <1>1, <1>2 DEF Settling, Viewed, SameWishes
  <1> QED BY <1>3, <1>4, <1>5 DEF Settling

\* A request of neither kind is sent.
LEMMA SettlingSent ==
    ASSUME NEW p, NEW q \in Seq(Requests), NEW past, Settling(p, q, past),
           NEW r \in Requests, ~r.late, r.op \notin Tabs \cup {"bootstrap"}
    PROVE  Settling(p, Append(q, r), past)
  <1>1. r.op \notin Tabs /\ r.op \notin Bootstraps /\ Tabs \in Kinds /\ Bootstraps \in Kinds
    BY DEF Bootstraps, Kinds
  <1>2. InOrder(Append(q, r), Tabs)
    BY <1>1, SentOfKind DEF Settling
  <1>3. \A kind \in Kinds :
           /\ Current(Append(q, r), kind) <=> Current(q, kind)
           /\ \A these : NewestIn(q, kind, these) => NewestIn(Append(q, r), kind, these)
    BY <1>1, SentOfKind DEF Kinds
  <1>4. SameWishes(p, p)
    BY DEF SameWishes
  <1> QED BY <1>2, <1>3, <1>4, SettlingKept

\* The outcome of neither kind, that changes no wish.
LEMMA SettlingRest ==
    ASSUME flight \in Seq(Requests), NEW i \in 1..Len(flight), flight[i].op \notin Tabs \cup {"bootstrap"},
           Settling(page, flight, slips), NEW p, SameWishes(page, p),
           p.error \/ ((page.error => p.error) /\ p.shown = page.shown)
    PROVE  Settling(p, Rest(i), slips)
  <1>1. flight[i].op \notin Tabs /\ flight[i].op \notin Bootstraps /\ Tabs \in Kinds
    BY DEF Bootstraps, Kinds
  <1>2. InOrder(Rest(i), Tabs)
    BY <1>1, RestOfOthers DEF Settling
  <1>3. \A kind \in Kinds :
           /\ Current(Rest(i), kind) <=> Current(flight, kind)
           /\ \A these : NewestIn(flight, kind, these) => NewestIn(Rest(i), kind, these)
    BY <1>1, RestOfOthers DEF Kinds
  <1> QED BY <1>2, <1>3, SettlingKept

\* What a load does to the wishes, the newest requests and the slips.
LEMMA SettlingLoad ==
    ASSUME PageConstants, NEW p \in PageState, NEW tab \in Tabs, NEW q \in Seq(Requests),
           NEW past \in SUBSET {"class", "view", "weights"}, ThenLoad(p, tab, q, past),
           InOrder(q, Tabs), Chosen(p, q, past), Weighed(p, past), AtHome(p)
    PROVE  /\ InOrder(flight', Tabs)
           /\ Chosen(page', flight', slips') /\ Weighed(page', slips') /\ AtHome(page')
           /\ SameWishes(p, page')
           /\ (page' = p /\ flight' = q /\ slips' = past /\ ~CanLoad(p, tab))
              \/ "weights" \in slips'
              \/ (page' = p /\ flight' = Append(q, LoadOf(p, tab)) /\ CanLoad(p, tab)
                  /\ (Current(flight', Bootstraps) <=> Current(q, Bootstraps))
                  /\ slips' = IF tab = p.tab THEN past \ {"view"} ELSE past \cup {"view"})
  <1>1. Tabs \in Kinds /\ Bootstraps \in Kinds
    BY DEF Kinds
  <1>2. CASE CanLoad(p, tab) /\ CannotQuery(p, tab)
    <2>1. page' = Failed(p, tab) /\ flight' = q /\ slips' = past /\ p.boot = Partial
      BY <1>2 DEF ThenLoad, CannotQuery
    <2>2. "weights" \in slips'
      BY <2>1 DEF Weighed
    <2>3. SameWishes(p, page')
      BY <2>1 DEF Failed, SameWishes, PageState
    <2>4. Chosen(page', flight', slips') /\ Weighed(page', slips') /\ AtHome(page')
      BY <2>1, <2>2, <2>3 DEF Chosen, Weighed, AtHome, SameWishes
    <2> QED BY <2>1, <2>2, <2>3, <2>4
  <1>3. CASE CanLoad(p, tab) /\ ~CannotQuery(p, tab)
    <2>1. page' = p /\ flight' = Append(q, LoadOf(p, tab))
      BY <1>3 DEF ThenLoad
    <2>2. slips' = IF tab = p.tab THEN past \ {"view"} ELSE past \cup {"view"}
      BY <1>3 DEF ThenLoad
    <2>3. LoadOf(p, tab) \in Requests /\ ~LoadOf(p, tab).late /\ LoadOf(p, tab).op = tab
      BY <1>3, LoadOfType
    <2>4. LoadOf(p, tab).op \notin Bootstraps
      BY <2>3 DEF Bootstraps, Tabs, StudentTabs, InstructorTabs
    <2>5. InOrder(flight', Tabs)
      BY <1>1, <2>1, <2>3, SentOfKind
    <2>6. /\ Current(flight', Bootstraps) <=> Current(q, Bootstraps)
          /\ \A these : NewestIn(q, Bootstraps, these) => NewestIn(flight', Bootstraps, these)
      BY <1>1, <2>1, <2>3, <2>4, SentOfKind
    <2>7. ("class" \in slips' <=> "class" \in past) /\ ("weights" \in slips' <=> "weights" \in past)
      BY <2>2
    <2>8. Chosen(page', flight', slips')
      BY <2>1, <2>6, <2>7 DEF Chosen
    <2>9. Weighed(page', slips') /\ AtHome(page') /\ SameWishes(p, page')
      BY <2>1, <2>7 DEF Weighed, AtHome, SameWishes
    <2> QED BY <1>3, <2>1, <2>2, <2>5, <2>6, <2>8, <2>9
  <1>4. CASE ~CanLoad(p, tab)
    <2>1. page' = p /\ flight' = q /\ slips' = past
      BY <1>4 DEF ThenLoad
    <2> QED BY <1>4, <2>1 DEF SameWishes
  <1> QED BY <1>2, <1>3, <1>4

\* A load of the open tab brings the view wanted, or waits for the class's bootstrap.
LEMMA SettlingOwnLoad ==
    ASSUME PageConstants, NEW p \in PageState, NEW q \in Seq(Requests),
           NEW past \in SUBSET {"class", "view", "weights"}, ThenLoad(p, p.tab, q, past),
           RoleTabs(p), InOrder(q, Tabs), Chosen(p, q, past), Weighed(p, past), AtHome(p),
           p.user # None /\ "class" \notin past /\ p.boot = None => Pending(q)
    PROVE  Settling(page', flight', slips')
  <1>1. p.tab \in Tabs /\ p.user \in Students \cup {Instructor, None} /\ Tabs \in Kinds
    BY DEF PageState, Kinds
  <1>2. /\ InOrder(flight', Tabs)
        /\ Chosen(page', flight', slips') /\ Weighed(page', slips') /\ AtHome(page')
        /\ (page' = p /\ flight' = q /\ slips' = past /\ ~CanLoad(p, p.tab))
           \/ "weights" \in slips'
           \/ (page' = p /\ flight' = Append(q, LoadOf(p, p.tab)) /\ CanLoad(p, p.tab))
    BY <1>1, SettlingLoad
  <1>3. CASE page' = p /\ flight' = q /\ slips' = past /\ ~CanLoad(p, p.tab)
    <2> SUFFICES ASSUME page'.user # None, slips' = {}, ~Current(flight', Bootstraps)
                 PROVE  FALSE
      BY <1>2 DEF Settling, Viewed
    <2>1. p.tab \in StudentTabs => p.user \in Students
      BY <1>1, <1>3 DEF RoleTabs, InstructorTabs, StudentTabs
    <2>2. p.boot = None
      BY <1>3, <2>1 DEF CanLoad
    <2> QED BY <1>3, <2>2, BootstrapOrder
  <1>4. CASE "weights" \in slips'
    BY <1>2, <1>4 DEF Settling, Viewed
  <1>5. CASE page' = p /\ flight' = Append(q, LoadOf(p, p.tab)) /\ CanLoad(p, p.tab)
    <2>1. LoadOf(p, p.tab) \in Requests /\ ~LoadOf(p, p.tab).late /\ LoadOf(p, p.tab).op \in Tabs
      BY <1>1, <1>5, LoadOfType
    <2>2. LoadOf(p, p.tab) \in Wanted(page')
      BY <1>5, <2>1 DEF Wanted, WantedView
    <2>3. Current(flight', Tabs) /\ NewestIn(flight', Tabs, Wanted(page'))
      BY <1>1, <1>5, <2>1, <2>2, SentOfKind
    <2> QED BY <1>2, <2>3 DEF Settling, Viewed
  <1> QED BY <1>2, <1>3, <1>4, <1>5

\* Any load keeps what the page settles on, or is a slip.
LEMMA SettlingAnyLoad ==
    ASSUME PageConstants, NEW p \in PageState, NEW tab \in Tabs, NEW q \in Seq(Requests),
           NEW past \in SUBSET {"class", "view", "weights"}, ThenLoad(p, tab, q, past),
           Sound(p, q, past), Settling(p, q, past)
    PROVE  Settling(page', flight', slips')
  <1>1. CASE tab = p.tab
    BY <1>1, SettlingOwnLoad DEF Sound, Settling, Awaited
  <1>2. CASE tab # p.tab
    <2>1. /\ InOrder(flight', Tabs)
          /\ Chosen(page', flight', slips') /\ Weighed(page', slips') /\ AtHome(page')
          /\ (page' = p /\ flight' = q /\ slips' = past)
             \/ "weights" \in slips' \/ slips' = past \cup {"view"}
      BY <1>2, SettlingLoad DEF Settling
    <2>2. CASE page' = p /\ flight' = q /\ slips' = past
      BY <2>1, <2>2 DEF Settling
    <2>3. CASE "weights" \in slips' \/ slips' = past \cup {"view"}
      BY <2>1, <2>3 DEF Settling, Viewed
    <2> QED BY <2>1, <2>2, <2>3
  <1> QED BY <1>1, <1>2

\* A class picked is the one its bootstrap will be of.
LEMMA SettlingClass ==
    ASSUME PageConstants, NEW p \in PageState, NEW klass \in Classes, ThenLoadClass(p, klass),
           flight \in Seq(Requests), InOrder(flight, Tabs), Weighed(p, slips),
           p.user \in Students => klass = HomeOf[p.user]
    PROVE  Settling(page', flight', slips')
  <1>1. /\ page'.user = p.user /\ page'.klass = klass /\ page'.boot = p.boot /\ page'.weights = p.weights
    BY DEF ThenLoadClass, PageState
  <1>2. PICK r \in Requests : r.op = "bootstrap" /\ r.klass = klass /\ ~r.late /\ flight' = Append(flight, r)
    <2>1. "bootstrap" \in Operations /\ None \in Students \cup {None} /\ klass \in Classes \cup {None}
      BY DEF Operations
    <2>2. /\ Request("bootstrap", klass, None, None, None) \in Requests
          /\ Request("bootstrap", klass, None, None, None).op = "bootstrap"
          /\ ~Request("bootstrap", klass, None, None, None).late
      BY <2>1, RequestType
    <2>3. Request("bootstrap", klass, None, None, None).klass = klass
      BY DEF Request
    <2> QED BY <2>2, <2>3 DEF ThenLoadClass
  <1>3. r.op \in Bootstraps /\ r.op \notin Tabs /\ r \in OfClass(klass) /\ Tabs \in Kinds /\ Bootstraps \in Kinds
    BY <1>2 DEF Bootstraps, Tabs, StudentTabs, InstructorTabs, OfClass, Kinds
  <1>4. InOrder(flight', Tabs)
    BY <1>2, <1>3, SentOfKind
  <1>5. Current(flight', Bootstraps) /\ NewestIn(flight', Bootstraps, OfClass(klass))
    BY <1>2, <1>3, SentOfKind
  <1>6. Chosen(page', flight', slips') /\ Viewed(page', flight', slips') /\ AtHome(page')
    BY <1>1, <1>5 DEF Chosen, Viewed, AtHome
  <1>7. Weighed(page', slips')
    BY <1>1 DEF Weighed, ThenLoadClass
  <1> QED BY <1>4, <1>6, <1>7 DEF Settling

\* The gestures that change what is at hand, and signing out.
LEMMA SettlingOnly ==
    ASSUME PageConstants, Sound(page, flight, slips), Settling(page, flight, slips),
           \/ Logout \/ Escape \/ CloseRecord \/ TypeNote \/ OpenWeights
           \/ \E panel \in Panels : Close(panel)
    PROVE  Settling(page', flight', slips')
  <1>1. page \in PageState
    BY DEF Sound
  <1>2. CASE Logout
    <2>1. flight' = flight /\ slips' = slips /\ page'.user = None /\ page'.boot = None
      BY <1>1, <1>2 DEF Logout, Only, PageState
    <2>2. Chosen(page', flight', slips') /\ Viewed(page', flight', slips') /\ AtHome(page')
      BY <2>1 DEF Chosen, Viewed, AtHome, PageConstants
    <2>3. Weighed(page', slips')
      BY <2>1 DEF Settling, Weighed, PageConstants
    <2> QED BY <2>1, <2>2, <2>3 DEF Settling
  <1>3. CASE \/ Escape \/ CloseRecord \/ TypeNote \/ OpenWeights
             \/ \E panel \in Panels : Close(panel)
    <2>1. flight' = flight /\ slips' = slips
      BY <1>3 DEF Escape, CloseRecord, TypeNote, OpenWeights, Close, Only
    <2>2. SameWishes(page, page') /\ page'.error = page.error /\ page'.shown = page.shown
      <3> USE <1>1 DEF Only, SameWishes, PageState
      <3>1. CASE Escape
        BY <3>1 DEF Escape
      <3>2. CASE CloseRecord
        BY <3>2 DEF CloseRecord
      <3>3. CASE TypeNote
        BY <3>3 DEF TypeNote
      <3>4. CASE OpenWeights
        BY <3>4 DEF OpenWeights
      <3>5. ASSUME NEW panel \in Panels, Close(panel)
            PROVE  SameWishes(page, page') /\ page'.error = page.error /\ page'.shown = page.shown
        BY <3>5 DEF Close
      <3> QED BY <1>3, <3>1, <3>2, <3>3, <3>4, <3>5
    <2> QED BY <2>1, <2>2, SettlingKept DEF Settling
  <1> QED BY <1>2, <1>3

\* The gestures that ask for something and change nothing yet.
LEMMA SettlingSends ==
    ASSUME PageConstants, Sound(page, flight, slips), Settling(page, flight, slips),
           \/ OpenDrawer \/ SaveNote \/ OpenThresholds \/ ApplyThresholds \/ ApplyWeights
           \/ OpenExplainer \/ Refresh \/ Save \/ Decide
           \/ \E student \in Students : OpenRecord(student)
    PROVE  Settling(page', flight', slips')
  <1>1. flight \in Seq(Requests) /\ page.klass \in Classes /\ page.record \in Students \cup {None}
    BY DEF Sound, PageState
  <1>2. PICK op \in Operations, klass \in Classes \cup {None}, student \in Students \cup {None} :
           /\ op \in {"bootstrap", "applyWeights"} => klass \in Classes
           /\ op \in {"record", "note", "noteRecord"} => student \in Students
           /\ op \notin Tabs \cup {"bootstrap"}
           /\ ThenSend(Request(op, klass, None, student, None))
    <2> USE DEF Operations, Tabs, StudentTabs, InstructorTabs
    <2>1. CASE OpenDrawer
      BY <2>1 DEF OpenDrawer
    <2>2. CASE SaveNote
      BY <1>1, <2>2 DEF SaveNote
    <2>3. CASE OpenThresholds
      BY <2>3 DEF OpenThresholds
    <2>4. CASE ApplyThresholds
      BY <2>4 DEF ApplyThresholds
    <2>5. CASE ApplyWeights
      BY <1>1, <2>5 DEF ApplyWeights
    <2>6. CASE OpenExplainer
      BY <2>6 DEF OpenExplainer
    <2>7. CASE Refresh
      BY <2>7 DEF Refresh
    <2>8. CASE Save
      BY <2>8 DEF Save
    <2>9. CASE Decide
      BY <2>9 DEF Decide
    <2>10. CASE \E student \in Students : OpenRecord(student)
      BY <2>10 DEF OpenRecord
    <2> QED BY <2>1, <2>2, <2>3, <2>4, <2>5, <2>6, <2>7, <2>8, <2>9, <2>10
  <1>3. PICK r \in Requests : ~r.late /\ r.op \notin Tabs \cup {"bootstrap"} /\ ThenSend(r)
    <2>1. /\ Request(op, klass, None, student, None) \in Requests
          /\ Request(op, klass, None, student, None).op = op
          /\ ~Request(op, klass, None, student, None).late
      BY <1>2, RequestType
    <2> QED BY <1>2, <2>1
  <1>4. page' = page /\ slips' = slips /\ flight' = Append(flight, r)
    BY <1>3 DEF ThenSend
  <1> QED BY <1>1, <1>3, <1>4, SettlingSent

\* The gestures that pick a user or a class, or load the tab they open.
LEMMA SettlingLoads ==
    ASSUME PageConstants, Sound(page, flight, slips), Settling(page, flight, slips),
           \/ \E who \in Students \cup {Instructor} : DoLogin(who)
           \/ \E klass \in Classes : PickClass(klass)
           \/ \E tab \in Tabs : ClickTab(tab)
           \/ \E week \in Weeks : ChangeWeek(week)
           \/ TogglePresent
    PROVE  Settling(page', flight', slips')
  <1>1. /\ page \in PageState /\ flight \in Seq(Requests) /\ slips \in SUBSET {"class", "view", "weights"}
        /\ RoleTabs(page)
        /\ page.user # None /\ "class" \notin slips /\ page.boot = None => Pending(flight)
    BY DEF Sound, Awaited
  <1>2. /\ InOrder(flight, Tabs) /\ Chosen(page, flight, slips) /\ Weighed(page, slips) /\ AtHome(page)
    BY DEF Settling
  \* A page whose user, class, bootstrap and weights are those of before may load its tab.
  <1>3. ASSUME NEW p \in PageState, p.user = page.user, p.klass = page.klass, p.boot = page.boot,
               p.weights = page.weights, RoleTabs(p), ThenLoad(p, p.tab, flight, slips)
        PROVE  Settling(page', flight', slips')
    <2>1. Chosen(p, flight, slips) /\ Weighed(p, slips) /\ AtHome(p)
      BY <1>2, <1>3 DEF Chosen, Weighed, AtHome
    <2> QED BY <1>1, <1>2, <1>3, <2>1, SettlingOwnLoad
  <1>4. ASSUME NEW who \in Students \cup {Instructor}, DoLogin(who)
        PROVE  Settling(page', flight', slips')
    <2>1. PICK tab \in Tabs : tab = IF who = Instructor THEN "league" ELSE "me"
      BY DEF Tabs, StudentTabs, InstructorTabs
    <2>2. PICK p \in PageState : p = [page EXCEPT !.user = who, !.tab = tab]
      BY <1>1 DEF PageState
    <2>3. PICK klass \in Classes : klass = IF who = Instructor THEN page.klass ELSE HomeOf[who]
      BY <1>1 DEF PageState, PageConstants
    <2>4. ThenLoadClass(p, klass)
      BY <1>4, <2>1, <2>2, <2>3 DEF DoLogin
    <2>5. p.user = who /\ p.boot = page.boot /\ p.weights = page.weights
      BY <1>1, <2>2 DEF PageState
    <2>6. Weighed(p, slips)
      BY <1>2, <2>5 DEF Weighed
    <2>7. p.user \in Students => klass = HomeOf[p.user]
      BY <2>3, <2>5 DEF PageConstants
    <2> QED BY <1>1, <1>2, <2>4, <2>6, <2>7, SettlingClass
  <1>5. ASSUME NEW klass \in Classes, PickClass(klass)
        PROVE  Settling(page', flight', slips')
    <2>1. ThenLoadClass(page, klass) /\ page.user \notin Students
      BY <1>5 DEF PickClass, PageConstants
    <2> QED BY <1>1, <1>2, <2>1, SettlingClass
  <1>6. ASSUME NEW tab \in Tabs, ClickTab(tab)
        PROVE  Settling(page', flight', slips')
    <2>1. PICK p \in PageState :
             p = [page EXCEPT !.tab = tab, !.loading = TRUE, !.open = page.open \ {"drawer"}]
      BY <1>1 DEF PageState
    <2>2. /\ p.user = page.user /\ p.tab = tab /\ p.klass = page.klass /\ p.boot = page.boot
          /\ p.weights = page.weights
      BY <1>1, <2>1 DEF PageState
    <2>3. ThenLoad(p, p.tab, flight, slips) /\ tab \in VisibleTabs
      BY <1>6, <2>1, <2>2 DEF ClickTab
    <2>4. RoleTabs(p)
      BY <2>2, <2>3 DEF RoleTabs, VisibleTabs, InstructorTabs, PageConstants
    <2> QED BY <1>3, <2>2, <2>3, <2>4
  <1>7. ASSUME NEW week \in Weeks, ChangeWeek(week)
        PROVE  Settling(page', flight', slips')
    <2>1. PICK p \in PageState : p = [page EXCEPT !.week = week, !.open = page.open \ {"drawer"}]
      BY <1>1 DEF PageState
    <2>2. /\ p.user = page.user /\ p.tab = page.tab /\ p.klass = page.klass /\ p.boot = page.boot
          /\ p.weights = page.weights
      BY <1>1, <2>1 DEF PageState
    <2>3. ThenLoad(p, p.tab, flight, slips)
      BY <1>7, <2>1, <2>2 DEF ChangeWeek
    <2>4. RoleTabs(p)
      BY <1>1, <2>2 DEF RoleTabs
    <2> QED BY <1>3, <2>2, <2>3, <2>4
  <1>8. CASE TogglePresent /\ (page.present \/ page.tab = "league")
    <2>1. flight' = flight /\ slips' = slips
      BY <1>8 DEF TogglePresent, EnterPresent, Only
    <2>2. \/ page' = [page EXCEPT !.present = FALSE]
          \/ page' = [page EXCEPT !.present = TRUE, !.record = None, !.open = {}]
      BY <1>8 DEF TogglePresent, EnterPresent, Only
    <2>3. SameWishes(page, page') /\ page'.error = page.error /\ page'.shown = page.shown
      BY <1>1, <2>2 DEF SameWishes, PageState
    <2> QED BY <2>1, <2>3, SettlingKept DEF Settling
  <1>9. CASE TogglePresent /\ ~page.present /\ page.tab # "league"
    <2>1. PICK p \in PageState :
             p = [page EXCEPT !.present = TRUE, !.record = None, !.open = {},
                              !.tab = "league", !.loading = TRUE]
      BY <1>1 DEF PageState, Tabs, InstructorTabs
    <2>2. /\ p.user = page.user /\ p.tab = "league" /\ p.klass = page.klass /\ p.boot = page.boot
          /\ p.weights = page.weights
      BY <1>1, <2>1 DEF PageState
    <2>3. p = [[page EXCEPT !.present = TRUE, !.record = None, !.open = {}]
                  EXCEPT !.tab = "league", !.loading = TRUE]
      BY <1>1, <2>1 DEF PageState
    <2>4. ThenLoad(p, p.tab, flight, slips) /\ page.user = Instructor
      BY <1>9, <2>2, <2>3 DEF TogglePresent, EnterPresent
    <2>5. RoleTabs(p)
      BY <2>2, <2>4 DEF RoleTabs, InstructorTabs, PageConstants
    <2> QED BY <1>3, <2>2, <2>4, <2>5
  <1> QED BY <1>4, <1>5, <1>6, <1>7, <1>8, <1>9

\* The view wanted is the one answered last, unless an older request's answer came later.
LEMMA SettlingViews ==
    ASSUME PageConstants, Sound(page, flight, slips), Settling(page, flight, slips),
           NEW i \in 1..Len(flight), AnswerLoad(i) \/ FailLoad(i)
    PROVE  Settling(page', flight', slips')
  <1>1. /\ page \in PageState /\ flight \in Seq(Requests) /\ flight[i].op \in Tabs /\ flight' = Rest(i)
        /\ Tabs \in Kinds /\ Bootstraps \in Kinds
    BY DEF Sound, AnswerLoad, FailLoad, Kinds
  <1>2. flight[i].op \notin Bootstraps
    BY <1>1 DEF Bootstraps, Tabs, StudentTabs, InstructorTabs
  <1>3. SameWishes(page, page')
    BY <1>1 DEF AnswerLoad, FailLoad, Shown, Failed, SameWishes, PageState
  <1>4. slips' = slips \/ "view" \in slips'
    BY DEF AnswerLoad, FailLoad
  <1>5. /\ InOrder(flight', Tabs)
        /\ Newest(i) <=> ~Current(flight', Tabs)
        /\ \A these : NewestIn(flight, Tabs, these) => NewestIn(flight', Tabs, these)
        /\ \A these : NewestIn(flight, Tabs, these) /\ Newest(i) /\ ~flight[i].late => flight[i] \in these
    BY <1>1, RestOfKind DEF Settling
  <1>6. /\ Current(flight', Bootstraps) <=> Current(flight, Bootstraps)
        /\ \A these : NewestIn(flight, Bootstraps, these) => NewestIn(flight', Bootstraps, these)
    BY <1>1, <1>2, RestOfOthers
  <1>7. ("class" \in slips' <=> "class" \in slips) /\ ("weights" \in slips' <=> "weights" \in slips)
    BY DEF AnswerLoad, FailLoad
  <1>8. Chosen(page', flight', slips') /\ Weighed(page', slips') /\ AtHome(page')
    BY <1>3, <1>6, <1>7 DEF Settling, Chosen, Weighed, AtHome, SameWishes
  <1>9. Viewed(page', flight', slips')
    <2> SUFFICES ASSUME page'.user # None, slips' = {}, ~Current(flight', Bootstraps)
                 PROVE  /\ NewestIn(flight', Tabs, Wanted(page'))
                        /\ Current(flight', Tabs) \/ page'.error \/ page'.shown = WantedView(page')
      BY DEF Viewed
    <2>1. /\ NewestIn(flight, Tabs, Wanted(page))
          /\ Current(flight, Tabs) \/ page.error \/ page.shown = WantedView(page)
      BY <1>3, <1>4, <1>6 DEF Settling, Viewed, SameWishes
    <2>2. Wanted(page') = Wanted(page) /\ WantedView(page') = WantedView(page)
      BY <1>3, SameView
    <2>3. CASE ~Newest(i)
      BY <1>5, <2>1, <2>2, <2>3
    <2>4. CASE Newest(i) /\ FailLoad(i)
      <3>1. page'.error
        BY <1>1, <2>4 DEF FailLoad, Failed, PageState
      <3> QED BY <1>5, <2>1, <2>2, <3>1
    <2>5. CASE Newest(i) /\ AnswerLoad(i)
      <3>1. ~flight[i].late
        BY <2>5 DEF AnswerLoad
      <3>2. flight[i] \in Wanted(page)
        BY <1>5, <2>1, <2>5, <3>1
      <3>3. page'.shown = ViewOf(flight[i])
        BY <1>1, <2>5 DEF AnswerLoad, Shown, PageState
      <3> QED BY <1>5, <2>1, <2>2, <3>2, <3>3 DEF Wanted
    <2> QED BY <2>3, <2>4, <2>5
  <1> QED BY <1>5, <1>8, <1>9 DEF Settling

\* The class chosen is the one whose bootstrap came last, unless that failed or an older
\* one came later.
LEMMA SettlingBootstraps ==
    ASSUME PageConstants, Sound(page, flight, slips), Settling(page, flight, slips),
           NEW i \in 1..Len(flight), AnswerBootstrap(i) \/ FailBootstrap(i)
    PROVE  Settling(page', flight', slips')
  <1>1. /\ page \in PageState /\ flight \in Seq(Requests) /\ flight[i] \in Requests
        /\ flight[i].op = "bootstrap" /\ flight[i].op \in Bootstraps /\ flight[i].op \notin Tabs
        /\ LateFirst(flight) /\ RoleTabs(page) /\ slips \subseteq {"class", "view", "weights"}
        /\ Tabs \in Kinds /\ Bootstraps \in Kinds
    BY ElementOfSeq DEF Sound, AnswerBootstrap, FailBootstrap, Bootstraps, Kinds, Tabs, StudentTabs, InstructorTabs
  <1>2. InOrder(flight, Bootstraps)
    BY <1>1, BootstrapOrder
  <1>3. /\ Newest(i) <=> ~Current(Rest(i), Bootstraps)
        /\ \A these : NewestIn(flight, Bootstraps, these) => NewestIn(Rest(i), Bootstraps, these)
        /\ \A these : NewestIn(flight, Bootstraps, these) /\ Newest(i) /\ ~flight[i].late => flight[i] \in these
    BY <1>1, <1>2, RestOfKind
  <1>4. /\ InOrder(Rest(i), Tabs)
        /\ Current(Rest(i), Tabs) <=> Current(flight, Tabs)
        /\ \A these : NewestIn(flight, Tabs, these) => NewestIn(Rest(i), Tabs, these)
    BY <1>1, RestOfOthers DEF Settling
  <1>5. CASE AnswerBootstrap(i)
    <2>1. PICK klass \in Classes : klass = flight[i].klass
      BY <1>1 DEF Requests
    <2>2. PICK p \in PageState :
             p = [page EXCEPT !.boot = klass, !.week = Latest[klass], !.weights = klass]
      BY <1>1, <2>1 DEF PageState, PageConstants
    <2>3. /\ p.user = page.user /\ p.tab = page.tab /\ p.klass = page.klass /\ p.boot = klass
          /\ p.weights = klass
      BY <1>1, <2>2 DEF PageState
    <2>4. PICK past \in SUBSET {"class", "view", "weights"} :
             /\ past = IF flight[i].late /\ Newest(i) THEN slips \cup {"class"} ELSE slips \ {"weights"}
             /\ ThenLoad(p, p.tab, Rest(i), past)
      <3>1. slips \cup {"class"} \in SUBSET {"class", "view", "weights"}
            /\ slips \ {"weights"} \in SUBSET {"class", "view", "weights"}
        BY <1>1
      <3> QED BY <1>5, <2>1, <2>2, <2>3, <3>1 DEF AnswerBootstrap
    <2>5. Chosen(p, Rest(i), past)
      <3> SUFFICES ASSUME p.user # None, "class" \notin past
                   PROVE  /\ NewestIn(Rest(i), Bootstraps, OfClass(p.klass))
                          /\ Current(Rest(i), Bootstraps) \/ p.boot = p.klass
        BY DEF Chosen
      <3>1. "class" \notin slips /\ ~(flight[i].late /\ Newest(i))
        BY <2>4
      <3>2. NewestIn(flight, Bootstraps, OfClass(page.klass))
        BY <2>3, <3>1 DEF Settling, Chosen
      <3>3. Newest(i) => flight[i] \in OfClass(page.klass)
        BY <1>3, <3>1, <3>2
      <3> QED BY <1>3, <2>1, <2>3, <3>2, <3>3 DEF OfClass
    <2>6. Weighed(p, past) /\ AtHome(p)
      BY <2>3 DEF Settling, Weighed, AtHome, PageConstants
    <2>7. RoleTabs(p) /\ p.boot # None
      BY <1>1, <2>3 DEF RoleTabs, PageConstants
    <2>8. Rest(i) \in Seq(Requests)
      BY <1>1, RestKeeps
    <2> QED BY <1>4, <2>4, <2>5, <2>6, <2>7, <2>8, SettlingOwnLoad
  <1>6. CASE FailBootstrap(i)
    <2>1. /\ page' = page /\ flight' = Rest(i)
          /\ slips' = IF Newest(i) /\ ~flight[i].late THEN slips \cup {"class"} ELSE slips
      BY <1>6 DEF FailBootstrap
    <2>2. CASE Newest(i) /\ ~flight[i].late
      <3>1. "class" \in slips' /\ ("weights" \in slips' <=> "weights" \in slips)
        BY <2>1, <2>2
      <3>2. Chosen(page', flight', slips') /\ Viewed(page', flight', slips')
        BY <3>1 DEF Chosen, Viewed
      <3>3. Weighed(page', slips') /\ AtHome(page')
        BY <2>1, <3>1 DEF Settling, Weighed, AtHome
      <3> QED BY <1>4, <2>1, <3>2, <3>3 DEF Settling
    <2>3. CASE ~(Newest(i) /\ ~flight[i].late)
      <3>1. slips' = slips
        BY <2>1, <2>3
      <3>2. Current(flight, Bootstraps) => Current(Rest(i), Bootstraps)
        <4>1. Pending(flight) => Pending(Rest(i))
          BY <1>1, <2>3, RestOfBootstrap DEF IsBootstrap
        <4> QED BY <4>1, BootstrapOrder
      <3>3. Chosen(page', flight', slips')
        BY <1>3, <2>1, <3>1, <3>2 DEF Settling, Chosen
      <3>4. Viewed(page', flight', slips')
        BY <1>4, <2>1, <3>1, <3>2 DEF Settling, Viewed
      <3>5. Weighed(page', slips') /\ AtHome(page')
        BY <2>1, <3>1 DEF Settling, Weighed, AtHome
      <3> QED BY <1>4, <2>1, <3>3, <3>4, <3>5 DEF Settling
    <2> QED BY <2>2, <2>3
  <1> QED BY <1>5, <1>6

\* The outcomes that change what is at hand, or nothing.
LEMMA SettlingPanels ==
    ASSUME PageConstants, Sound(page, flight, slips), Settling(page, flight, slips),
           NEW i \in 1..Len(flight),
           \/ \E panel \in {"drawer", "explainer"} : AnswerPanel(i, panel)
           \/ AnswerThresholds(i) \/ AnswerRecord(i) \/ FailWithMessage(i) \/ FailQuietly(i)
    PROVE  Settling(page', flight', slips')
  <1>1. page \in PageState /\ flight \in Seq(Requests)
    BY DEF Sound
  <1>2. flight' = Rest(i) /\ slips' = slips
    BY DEF AnswerPanel, AnswerThresholds, AnswerRecord, FailWithMessage, FailQuietly
  <1>3. flight[i].op \notin Tabs \cup {"bootstrap"}
    BY DEF AnswerPanel, AnswerThresholds, AnswerRecord, FailWithMessage, FailQuietly,
           Tabs, StudentTabs, InstructorTabs
  <1>4. SameWishes(page, page') /\ (page'.error \/ (page'.error = page.error /\ page'.shown = page.shown))
    <2>1. CASE page' = page
      BY <2>1 DEF SameWishes
    <2>2. CASE \E panel \in Panels : page' = [page EXCEPT !.open = page.open \cup {panel}]
      BY <1>1, <2>2 DEF PageState, SameWishes
    <2>3. CASE AnswerRecord(i)
      BY <1>1, <2>3 DEF AnswerRecord, PageState, SameWishes
    <2>4. CASE page' = [page EXCEPT !.error = TRUE]
      BY <1>1, <2>4 DEF PageState, SameWishes
    <2> QED BY <2>1, <2>2, <2>3, <2>4
            DEF AnswerPanel, AnswerThresholds, FailWithMessage, FailQuietly, Panels
  <1> QED BY <1>1, <1>2, <1>3, <1>4, SettlingRest

\* The outcomes that are followed by another request.
LEMMA SettlingFollowed ==
    ASSUME PageConstants, Sound(page, flight, slips), Settling(page, flight, slips), NEW i \in 1..Len(flight),
           \/ AnswerNote(i) \/ AnswerNoteRecord(i) \/ AnswerApplyThresholds(i) \/ AnswerApplyWeights(i)
           \/ AnswerRefresh(i) \/ AnswerSave(i) \/ AnswerDecide(i)
    PROVE  Settling(page', flight', slips')
  <1>1. /\ page \in PageState /\ Closed(page) /\ RoleTabs(page) /\ flight \in Seq(Requests)
        /\ flight[i] \in Requests /\ slips \in SUBSET {"class", "view", "weights"}
        /\ {"risk", "commitments", "approvals"} \subseteq Tabs
        /\ page.user # None /\ "class" \notin slips /\ page.boot = None => Pending(flight)
    BY ElementOfSeq DEF Sound, Awaited, Tabs, StudentTabs, InstructorTabs
  <1>2. flight[i].op \notin Tabs \cup {"bootstrap"}
    BY DEF AnswerNote, AnswerNoteRecord, AnswerApplyThresholds, AnswerApplyWeights, AnswerRefresh,
           AnswerSave, AnswerDecide, Tabs, StudentTabs, InstructorTabs
  <1>3. Settling(page, Rest(i), slips)
    BY <1>1, <1>2, SettlingRest DEF SameWishes
  <1>4. Rest(i) \in Seq(Requests)
    BY <1>1, RestKeeps
  \* A follow-up of a page that wants what the page wanted.
  <1>5. ASSUME NEW p \in PageState, SameWishes(page, p), p.error = page.error, p.shown = page.shown,
               p.loading = page.loading, Closed(p), NEW tab \in Tabs, ThenLoad(p, tab, Rest(i), slips)
        PROVE  Settling(page', flight', slips')
    <2>1. Settling(p, Rest(i), slips)
      BY <1>1, <1>2, <1>5, SettlingRest
    <2>2. Sound(p, Rest(i), slips)
      BY <1>2, <1>5, FollowUp DEF SameWishes
    <2> QED BY <1>1, <1>4, <1>5, <2>1, <2>2, SettlingAnyLoad
  <1>6. CASE AnswerNote(i)
    <2>1. PICK r \in Requests : ~r.late /\ r.op \notin Tabs \cup {"bootstrap"} /\ flight' = Append(Rest(i), r)
      <3>1. flight[i].student \in Students /\ "noteRecord" \in Operations /\ None \in Classes \cup {None}
            /\ "noteRecord" \notin Tabs \cup {"bootstrap"}
        BY <1>1, <1>6 DEF AnswerNote, Requests, Operations, Tabs, StudentTabs, InstructorTabs
      <3>2. /\ Request("noteRecord", None, None, flight[i].student, None) \in Requests
            /\ Request("noteRecord", None, None, flight[i].student, None).op = "noteRecord"
            /\ ~Request("noteRecord", None, None, flight[i].student, None).late
        BY <3>1, RequestType
      <3> QED BY <1>6, <3>1, <3>2 DEF AnswerNote
    <2>2. page' = page /\ slips' = slips
      BY <1>6 DEF AnswerNote
    <2> QED BY <1>3, <1>4, <2>1, <2>2, SettlingSent
  <1>7. CASE AnswerNoteRecord(i)
    <2>1. PICK draft \in BOOLEAN : WithFreshRecord(page, flight[i].student) = [page EXCEPT !.draft = draft]
      <3>1. page.draft \in BOOLEAN /\ page = [page EXCEPT !.draft = page.draft]
        BY <1>1 DEF PageState
      <3> QED BY <3>1 DEF WithFreshRecord
    <2>2. PICK p \in PageState : p = [page EXCEPT !.draft = draft]
      BY <1>1 DEF PageState
    <2>3. /\ SameWishes(page, p) /\ p.error = page.error /\ p.shown = page.shown
          /\ p.loading = page.loading /\ p.present = page.present /\ p.open = page.open
      BY <1>1, <2>2 DEF PageState, SameWishes
    <2>4. ThenLoad(p, "risk", Rest(i), slips)
      BY <1>7, <2>1, <2>2 DEF AnswerNoteRecord
    <2>5. Closed(p)
      BY <1>1, <2>3 DEF Closed
    <2> QED BY <1>1, <1>5, <2>3, <2>4, <2>5
  <1>8. CASE AnswerApplyThresholds(i)
    <2>1. PICK p \in PageState : p = [page EXCEPT !.open = page.open \ {"thresholds"}, !.record = None]
      BY <1>1 DEF PageState
    <2>2. /\ SameWishes(page, p) /\ p.error = page.error /\ p.shown = page.shown
          /\ p.loading = page.loading /\ p.present = page.present /\ p.open = page.open \ {"thresholds"}
      BY <1>1, <2>1 DEF PageState, SameWishes
    <2>3. ThenLoad(p, "risk", Rest(i), slips)
      BY <1>8, <2>1 DEF AnswerApplyThresholds
    <2>4. Closed(p)
      BY <1>1, <2>2 DEF Closed
    <2> QED BY <1>1, <1>5, <2>2, <2>3, <2>4
  <1>9. CASE AnswerApplyWeights(i)
    <2>1. PICK klass \in Classes : klass = flight[i].klass
      BY <1>1, <1>9 DEF AnswerApplyWeights, Requests
    <2>2. PICK boot \in Classes \cup {None, Partial} : boot = IF page.boot = None THEN Partial ELSE page.boot
      BY <1>1 DEF PageState
    <2>3. PICK p \in PageState :
             p = [page EXCEPT !.boot = boot, !.weights = klass, !.open = page.open \ {"weights"}]
      BY <1>1 DEF PageState
    <2>4. /\ p.user = page.user /\ p.tab = page.tab /\ p.klass = page.klass /\ p.boot = boot
          /\ p.weights = klass
      BY <1>1, <2>3 DEF PageState
    <2>5. PICK past \in SUBSET {"class", "view", "weights"} :
             /\ past = IF klass # page.boot THEN slips \cup {"weights"} ELSE slips
             /\ ThenLoad(p, p.tab, Rest(i), past)
      <3>1. slips \cup {"weights"} \in SUBSET {"class", "view", "weights"}
        BY <1>1
      <3> QED BY <1>1, <1>9, <2>1, <2>2, <2>3, <2>4, <3>1 DEF AnswerApplyWeights
    <2>6. RoleTabs(p) /\ p.boot # None /\ AtHome(p)
      BY <1>1, <1>3, <2>2, <2>4 DEF RoleTabs, Settling, AtHome, PageConstants
    \* A bootstrap in place stays in place.
    <2>7. Chosen(p, Rest(i), past)
      <3>1. page.klass \in Classes /\ ("class" \in past <=> "class" \in slips)
        BY <1>1, <2>5 DEF PageState
      <3>2. page.boot = page.klass => p.boot = p.klass
        BY <2>2, <2>4, <3>1 DEF PageConstants
      <3> QED BY <1>3, <2>4, <3>1, <3>2 DEF Settling, Chosen
    \* The weights are the bootstrap's, or a slip.
    <2>8. Weighed(p, past)
      BY <2>2, <2>4, <2>5 DEF Weighed, PageConstants
    <2> QED BY <1>3, <1>4, <2>5, <2>6, <2>7, <2>8, SettlingOwnLoad DEF Settling
  \* A refresh clears the error, and asks for the view again.
  <1>10. CASE AnswerRefresh(i)
    <2>1. PICK p \in PageState : p = [page EXCEPT !.error = FALSE]
      BY <1>1 DEF PageState
    <2>2. /\ p.user = page.user /\ p.tab = page.tab /\ p.klass = page.klass /\ p.boot = page.boot
          /\ p.weights = page.weights /\ p.loading = page.loading
          /\ p.present = page.present /\ p.open = page.open
      BY <1>1, <2>1 DEF PageState
    <2>3. Sound(p, Rest(i), slips)
      BY <1>1, <1>2, <2>2, FollowUp DEF Closed
    <2>4. ThenLoad(p, p.tab, Rest(i), slips)
      BY <1>10, <2>1, <2>2 DEF AnswerRefresh
    <2>5. Chosen(p, Rest(i), slips) /\ Weighed(p, slips) /\ AtHome(p)
      BY <1>3, <2>2 DEF Settling, Chosen, Weighed, AtHome
    <2>6. RoleTabs(p) /\ (p.user # None /\ "class" \notin slips /\ p.boot = None => Pending(Rest(i)))
      BY <2>3 DEF Sound, Awaited
    <2> QED BY <1>1, <1>3, <1>4, <2>4, <2>5, <2>6, SettlingOwnLoad DEF Settling
  <1>11. CASE AnswerSave(i) \/ AnswerDecide(i)
    <2>1. SameWishes(page, page)
      BY DEF SameWishes
    <2> QED BY <1>1, <1>5, <1>11, <2>1 DEF AnswerSave, AnswerDecide
  <1> QED BY <1>6, <1>7, <1>8, <1>9, <1>10, <1>11

\* Before anybody signs in, there is nothing to settle.
LEMMA LoginScreenSettling ==
    ASSUME PageConstants
    PROVE  Settling(LoginScreen, <<>>, {})
  <1>1. LoginScreen.user = None /\ LoginScreen.boot = None
    BY DEF LoginScreen
  <1>2. InOrder(<<>>, Tabs)
    BY DEF InOrder
  <1> QED BY <1>1, <1>2 DEF Settling, Chosen, Weighed, AtHome, Viewed, PageConstants

\* Every step keeps the page settling.
LEMMA SettlingStep ==
    ASSUME PageConstants, PageInv, Settling(page, flight, slips), [Next]_vars
    PROVE  Settling(page', flight', slips')
  <1>1. CASE UNCHANGED vars
    <2>1. page' = page /\ flight' = flight /\ slips' = slips
      BY <1>1 DEF vars
    <2> QED BY <2>1
  <1>2. CASE Next
    <2> USE DEF PageInv
    <2>1. CASE \/ Logout \/ Escape \/ CloseRecord \/ TypeNote \/ OpenWeights
               \/ \E panel \in Panels : Close(panel)
      BY <2>1, SettlingOnly
    <2>2. CASE \/ OpenDrawer \/ SaveNote \/ OpenThresholds \/ ApplyThresholds \/ ApplyWeights
               \/ OpenExplainer \/ Refresh \/ Save \/ Decide
               \/ \E student \in Students : OpenRecord(student)
      BY <2>2, SettlingSends
    <2>3. CASE \/ \E who \in Students \cup {Instructor} : DoLogin(who)
               \/ \E klass \in Classes : PickClass(klass)
               \/ \E tab \in Tabs : ClickTab(tab)
               \/ \E week \in Weeks : ChangeWeek(week)
               \/ TogglePresent
      BY <2>3, SettlingLoads
    <2>4. CASE Reload
      <3>1. page' = LoginScreen /\ flight' = <<>> /\ slips' = {}
        BY <2>4 DEF Reload
      <3> QED BY <3>1, LoginScreenSettling
    <2>5. ASSUME NEW i \in 1..Len(flight), AnswerLoad(i) \/ FailLoad(i)
          PROVE  Settling(page', flight', slips')
      BY <2>5, SettlingViews
    <2>6. ASSUME NEW i \in 1..Len(flight), AnswerBootstrap(i) \/ FailBootstrap(i)
          PROVE  Settling(page', flight', slips')
      BY <2>6, SettlingBootstraps
    <2>7. ASSUME NEW i \in 1..Len(flight),
                 \/ \E panel \in {"drawer", "explainer"} : AnswerPanel(i, panel)
                 \/ AnswerThresholds(i) \/ AnswerRecord(i) \/ FailWithMessage(i) \/ FailQuietly(i)
          PROVE  Settling(page', flight', slips')
      BY <2>7, SettlingPanels
    <2>8. ASSUME NEW i \in 1..Len(flight),
                 \/ AnswerNote(i) \/ AnswerNoteRecord(i) \/ AnswerApplyThresholds(i) \/ AnswerApplyWeights(i)
                 \/ AnswerRefresh(i) \/ AnswerSave(i) \/ AnswerDecide(i)
          PROVE  Settling(page', flight', slips')
      BY <2>8, SettlingFollowed
    <2> QED BY <1>2, <2>1, <2>2, <2>3, <2>4, <2>5, <2>6, <2>7, <2>8 DEF Next
  <1> QED BY <1>1, <1>2

\* Once everything is answered and nothing has slipped, the page shows what it calls for:
\* the open tab of the chosen class at the chosen week, with that class's weights.
THEOREM SettledViewAlways == Spec => []SettledViewMatches
  <1> DEFINE Inv == PageInv /\ Settling(page, flight, slips)
  <1>1. ASSUME Init PROVE Inv
    BY <1>1, LoginScreenSound, LoginScreenSettling, PageConstants DEF Init, PageInv, PageConstants
  <1>2. ASSUME Inv, [Next]_vars PROVE Inv'
    BY <1>2, Step, SettlingStep, PageConstants
  <1>3. Inv => SettledViewMatches
    <2> SUFFICES ASSUME Inv, flight = <<>>, page.user # None, ~page.error, slips = {}
                 PROVE  /\ page.boot = page.klass /\ page.weights = page.klass
                        /\ page.user \in Students => page.klass = HomeOf[page.user]
                        /\ page.shown = WantedView(page)
      BY DEF SettledViewMatches, WantedView
    <2>1. ~Current(flight, Tabs) /\ ~Current(flight, Bootstraps)
      BY DEF Current
    <2>2. page.boot = page.klass
      BY <2>1 DEF Settling, Chosen
    <2>3. page.klass # None
      BY PageConstants DEF PageInv, Sound, PageState, PageConstants
    <2> QED BY <2>1, <2>2, <2>3 DEF Settling, Weighed, AtHome, Viewed
  <1> HIDE DEF Inv
  <1> QED BY <1>1, <1>2, <1>3, PTL DEF Spec
=============================================================================
