----------------------- MODULE ComponentRuntimeProofs -----------------------
(***************************************************************************)
(* Theorems about ComponentRuntime, for every set of components and        *)
(* instances and any number of sends.                                      *)
(***************************************************************************)
EXTENDS ComponentRuntime, TLAPS

\* Constants of one expression.
USE DEF Nothing, File, StreamableLogic

\* No source is newer than the last send: what a file or an earlier send brings cannot be.
NothingFromTheFuture ==
    \A c \in Names : entries[c].html <= File + sends /\ entries[c].logic <= File + sends

\* Where a constructor has failed, no logic of another class runs on.
FailedRunsNothing ==
    \A i \in Instances : instances[i].failed # Nothing => instances[i].logic = StreamableLogic

\* The inductive invariant.
RuntimeInv ==
    /\ RuntimeTypeOK
    /\ NothingFromTheFuture
    /\ FailedRunsNothing
    /\ MountsPairWithUnmounts
    /\ SettledInstancesAreCurrent

----------------------------------------------------------------------------
(* Entries *)

\* One field of an entry may be anything of the field's type.
LEMMA EntryFields ==
    ASSUME NEW entry \in Entry
    PROVE  /\ \A v \in BOOLEAN :
                 /\ [entry EXCEPT !.htmlStreaming = v] \in Entry
                 /\ [entry EXCEPT !.jsStreaming = v] \in Entry
                 /\ [entry EXCEPT !.fetched = v] \in Entry
           /\ \A source \in Sources :
                 /\ [entry EXCEPT !.html = source] \in Entry
                 /\ [entry EXCEPT !.template = source] \in Entry
                 /\ [entry EXCEPT !.logic = source] \in Entry
  BY DEF Entry

\* Taking over a template keeps an entry's type and the rest of it.
LEMMA UpdatedHtmlType ==
    ASSUME NEW entry \in Entry, NEW html \in Sources, NEW compiles \in BOOLEAN
    PROVE  /\ UpdatedHtml(entry, html, compiles) \in Entry
           /\ UpdatedHtml(entry, html, compiles).html = html
           /\ UpdatedHtml(entry, html, compiles).logic = entry.logic
  BY DEF Entry, UpdatedHtml

\* Taking over a class keeps an entry's type and the rest of it.
LEMMA UpdatedJsType ==
    ASSUME NEW entry \in Entry, NEW js \in Sources, NEW evaluates \in BOOLEAN
    PROVE  /\ UpdatedJs(entry, js, evaluates) \in Entry
           /\ UpdatedJs(entry, js, evaluates).html = entry.html
           /\ UpdatedJs(entry, js, evaluates).logic \in {entry.logic, js}
  BY DEF Entry, UpdatedJs

\* A file replaces only the parts an entry lacks.
LEMMA AdoptedType ==
    ASSUME NEW entry \in Entry, NEW lacking \in SUBSET {"html", "logic"},
           NEW compiles \in BOOLEAN, NEW evaluates \in BOOLEAN,
           MaxSends \in Nat
    PROVE  /\ Adopted(entry, lacking, compiles, evaluates) \in Entry
           /\ Adopted(entry, lacking, compiles, evaluates).html
                 = IF "html" \in lacking THEN File ELSE entry.html
           /\ Adopted(entry, lacking, compiles, evaluates).logic
                 \in {entry.logic, IF "logic" \in lacking THEN File ELSE entry.logic}
  <1>0. File \in Sources
    BY DEF Sources
  <1> DEFINE withHtml == IF "html" \in lacking THEN UpdatedHtml(entry, File, compiles) ELSE entry
  <1>1. /\ withHtml \in Entry
        /\ withHtml.logic = entry.logic
        /\ withHtml.html = IF "html" \in lacking THEN File ELSE entry.html
    BY <1>0, UpdatedHtmlType
  <1>2. Adopted(entry, lacking, compiles, evaluates)
          = IF "logic" \in lacking THEN UpdatedJs(withHtml, File, evaluates) ELSE withHtml
    BY DEF Adopted
  <1> HIDE DEF withHtml
  <1>3. CASE "logic" \in lacking
    BY <1>0, <1>1, <1>2, <1>3, UpdatedJsType
  <1>4. CASE "logic" \notin lacking
    BY <1>1, <1>2, <1>4
  <1> QED BY <1>3, <1>4

----------------------------------------------------------------------------
(* Instances *)

\* What the invariant says of one instance, whose component's class is given.
Sound(inst, class) ==
    /\ inst \in Instance
    /\ inst.leaked = 0
    /\ inst.mounts = IF inst.on /\ ~inst.needsDidMount THEN 1 ELSE 0
    /\ inst.on /\ ~inst.marked /\ ~inst.err
       => inst.logic = class \/ (inst.logic = StreamableLogic /\ inst.failed = class)
    /\ inst.failed # Nothing => inst.logic = StreamableLogic

\* The invariant, instance by instance.
LEMMA SoundInstances ==
    ASSUME entries \in [Names -> Entry], NameOf \in [Instances -> Names]
    PROVE  (/\ instances \in [Instances -> Instance]
            /\ MountsPairWithUnmounts /\ SettledInstancesAreCurrent /\ FailedRunsNothing)
           <=> /\ instances = [i \in Instances |-> instances[i]]
               /\ \A i \in Instances : Sound(instances[i], entries[NameOf[i]].logic)
  BY DEF Sound, MountsPairWithUnmounts, SettledInstancesAreCurrent, FailedRunsNothing

\* An instance that is told is sound whatever its component's class has become.
LEMMA ToldSound ==
    ASSUME NEW inst, NEW class, NEW other, MaxSends \in Nat, Sound(inst, class), inst.on
    PROVE  Sound(Told(inst), other)
  <1>1. Told(inst) \in Instance
    BY DEF Sound, Told, Instance, Sources
  <1>2. /\ Told(inst).marked /\ Told(inst).failed = Nothing
        /\ Told(inst).on = inst.on /\ Told(inst).leaked = inst.leaked
        /\ Told(inst).mounts = inst.mounts /\ Told(inst).needsDidMount = inst.needsDidMount
    BY DEF Sound, Told, Instance
  <1> QED BY <1>1, <1>2 DEF Sound

\* An instance that is not on the page is sound whatever its component's class is.
LEMMA AbsentSound ==
    ASSUME NEW inst, NEW class, NEW other, Sound(inst, class), ~inst.on
    PROVE  Sound(inst, other)
  BY DEF Sound

\* One field of an instance may be anything of the field's type.
LEMMA Fields ==
    ASSUME NEW inst \in Instance
    PROVE  /\ \A v \in BOOLEAN :
                 /\ [inst EXCEPT !.on = v] \in Instance
                 /\ [inst EXCEPT !.circular = v] \in Instance
                 /\ [inst EXCEPT !.needsDidMount = v] \in Instance
                 /\ [inst EXCEPT !.err = v] \in Instance
                 /\ [inst EXCEPT !.marked = v] \in Instance
           /\ \A n \in Int : [inst EXCEPT !.mounts = n] \in Instance /\ [inst EXCEPT !.leaked = n] \in Instance
           /\ \A class \in Sources :
                 [inst EXCEPT !.logic = class] \in Instance /\ [inst EXCEPT !.failed = class] \in Instance
  BY DEF Instance

\* A constructor leaves the class in place, or nothing and the class remembered.
LEMMA WithLogicSound ==
    ASSUME NEW inst \in Instance, NEW class \in Sources, NEW throws \in BOOLEAN, MaxSends \in Nat
    PROVE  /\ WithLogic(inst, class, throws) \in Instance
           /\ WithLogic(inst, class, throws).leaked = inst.leaked
           /\ WithLogic(inst, class, throws).on = inst.on
           /\ \/ WithLogic(inst, class, throws).logic = class
              \/ /\ WithLogic(inst, class, throws).logic = StreamableLogic
                 /\ WithLogic(inst, class, throws).failed = class
           /\ WithLogic(inst, class, throws).failed # Nothing
              => WithLogic(inst, class, throws).logic = StreamableLogic
  <1>0. 0 \in Sources
    BY DEF Sources
  <1>1. CASE throws
    <2>1. WithLogic(inst, class, throws) = [inst EXCEPT !.logic = Nothing, !.failed = class]
      BY <1>1 DEF WithLogic
    <2>2. [inst EXCEPT !.logic = Nothing] \in Instance
      BY <1>0, Fields, Zenon
    <2>3. [inst EXCEPT !.logic = Nothing, !.failed = class] \in Instance
      BY <2>2, Fields, Zenon
    <2> QED BY <2>1, <2>3 DEF Instance
  <1>2. CASE ~throws
    <2>1. WithLogic(inst, class, throws) = [inst EXCEPT !.logic = class, !.failed = Nothing]
      BY <1>2 DEF WithLogic
    <2>2. [inst EXCEPT !.logic = class] \in Instance
      BY Fields, Zenon
    <2>3. [inst EXCEPT !.logic = class, !.failed = Nothing] \in Instance
      BY <1>0, <2>2, Fields, Zenon
    <2> QED BY <2>1, <2>3 DEF Instance
  <1> QED BY <1>1, <1>2

\* Mounting constructs the class of the moment and mounts it once.
LEMMA MountedSound ==
    ASSUME NEW inst, NEW class \in Sources, MaxSends \in Nat, Sound(inst, class),
           NEW throws \in BOOLEAN, NEW crashes \in BOOLEAN, NEW circular \in BOOLEAN
    PROVE  Sound([WithLogic(inst, class, throws) EXCEPT
                     !.on = TRUE, !.circular = circular, !.err = crashes, !.mounts = 1,
                     !.needsDidMount = FALSE, !.marked = FALSE], class)
  <1> DEFINE made == WithLogic(inst, class, throws)
  <1>1. made \in Instance /\ made.leaked = 0
    BY WithLogicSound DEF Sound
  <1>2. /\ made.logic = class \/ (made.logic = StreamableLogic /\ made.failed = class)
        /\ made.failed # Nothing => made.logic = StreamableLogic
    BY WithLogicSound DEF Sound
  <1> HIDE DEF made
  <1> DEFINE mounted == [made EXCEPT !.on = TRUE, !.circular = circular, !.err = crashes, !.mounts = 1,
                                     !.needsDidMount = FALSE, !.marked = FALSE]
  <1>3. mounted \in Instance
    <2>0. 1 \in Int
      OBVIOUS
    <2>1. [made EXCEPT !.on = TRUE] \in Instance
      BY <1>1, Fields, Zenon
    <2>1a. [made EXCEPT !.on = TRUE, !.circular = circular] \in Instance
      BY <2>1, Fields, Zenon
    <2>2. [made EXCEPT !.on = TRUE, !.circular = circular, !.err = crashes] \in Instance
      BY <2>1a, Fields, Zenon
    <2>3. [made EXCEPT !.on = TRUE, !.circular = circular, !.err = crashes, !.mounts = 1] \in Instance
      BY <2>0, <2>2, Fields, Zenon
    <2>4. [made EXCEPT !.on = TRUE, !.circular = circular, !.err = crashes, !.mounts = 1, !.needsDidMount = FALSE] \in Instance
      BY <2>3, Fields, Zenon
    <2> QED BY <2>4, Fields, Zenon
  <1>4. /\ mounted.leaked = 0 /\ mounted.mounts = 1 /\ ~mounted.needsDidMount
        /\ mounted.logic = made.logic /\ mounted.failed = made.failed
    BY <1>1 DEF Instance
  <1> QED BY <1>2, <1>3, <1>4 DEF made, Sound

\* A swap unmounts what was mounted, and leaves the new logic to be mounted.
LEMMA SwappedSound ==
    ASSUME NEW inst, NEW class \in Sources, MaxSends \in Nat, Sound(inst, class), inst.on,
           NEW throws \in BOOLEAN
    PROVE  LET next == Swapped(inst, class, throws) IN
           /\ next \in Instance /\ next.on /\ next.leaked = 0 /\ next.mounts = 0 /\ next.needsDidMount
           /\ next.logic = class \/ (next.logic = StreamableLogic /\ next.failed = class)
           /\ next.failed # Nothing => next.logic = StreamableLogic
  <1> DEFINE made == WithLogic(inst, class, throws)
  <1>1. made \in Instance /\ made.leaked = 0 /\ made.on
    BY WithLogicSound DEF Sound
  <1>2. /\ made.logic = class \/ (made.logic = StreamableLogic /\ made.failed = class)
        /\ made.failed # Nothing => made.logic = StreamableLogic
    BY WithLogicSound DEF Sound
  <1>3. (IF inst.needsDidMount THEN inst.mounts ELSE inst.mounts - 1) = 0
    BY DEF Sound
  <1> DEFINE next == [made EXCEPT !.leaked = 0, !.mounts = 0, !.needsDidMount = TRUE]
  <1>4. Swapped(inst, class, throws) = next
    <2>1. made.leaked + 0 = 0
      BY <1>1
    <2> HIDE DEF made
    <2> QED BY <1>3, <2>1 DEF Swapped, made
  <1> HIDE DEF made
  <1>5. next \in Instance
    <2>0. 0 \in Int
      OBVIOUS
    <2>1. [made EXCEPT !.leaked = 0] \in Instance
      BY <1>1, <2>0, Fields, Zenon
    <2>2. [made EXCEPT !.leaked = 0, !.mounts = 0] \in Instance
      BY <2>0, <2>1, Fields, Zenon
    <2> QED BY <2>2, Fields, Zenon
  <1>6. /\ next.on /\ next.leaked = 0 /\ next.mounts = 0 /\ next.needsDidMount
        /\ next.logic = made.logic /\ next.failed = made.failed
    BY <1>1 DEF Instance
  <1> HIDE DEF next
  <1> QED BY <1>2, <1>4, <1>5, <1>6

\* Committing mounts a logic that waits for it, once its template is there.
LEMMA CommittedSound ==
    ASSUME NEW inst \in Instance, NEW template, NEW class,
           inst.on, inst.leaked = 0,
           inst.mounts = IF inst.needsDidMount THEN 0 ELSE 1,
           inst.logic = class \/ (inst.logic = StreamableLogic /\ inst.failed = class),
           inst.failed # Nothing => inst.logic = StreamableLogic
    PROVE  Sound(Committed(inst, template), class)
  <1> DEFINE done == [inst EXCEPT !.needsDidMount = FALSE, !.mounts = inst.mounts + 1]
  <1>1. CASE ~inst.needsDidMount \/ inst.err \/ template = Nothing
    BY <1>1 DEF Committed, Sound
  <1>2. CASE ~(~inst.needsDidMount \/ inst.err \/ template = Nothing)
    <2>1. Committed(inst, template) = done
      BY <1>2 DEF Committed
    <2>2. done \in Instance
      <3>1. inst.mounts + 1 \in Int
        BY DEF Instance
      <3>2. [inst EXCEPT !.needsDidMount = FALSE] \in Instance
        BY Fields, Zenon
      <3> QED BY <3>1, <3>2, Fields, Zenon
    <2>3. /\ done.on /\ done.leaked = 0 /\ done.mounts = inst.mounts + 1 /\ ~done.needsDidMount
          /\ done.logic = inst.logic /\ done.failed = inst.failed /\ done.marked = inst.marked
      BY DEF Instance
    <2>4. inst.mounts = 0
      BY <1>2
    <2> HIDE DEF done
    <2> QED BY <2>1, <2>2, <2>3, <2>4 DEF Sound
  <1> QED BY <1>1, <1>2

\* A render leaves an instance sound.
LEMMA RenderedSound ==
    ASSUME NEW inst, NEW class \in Sources, NEW template, MaxSends \in Nat, Sound(inst, class), inst.on,
           NEW newProps \in BOOLEAN, NEW throws \in BOOLEAN, NEW crashes \in BOOLEAN
    PROVE  LET next == IF Swaps(inst, class, newProps) THEN Swapped(inst, class, throws) ELSE inst IN
           Sound(Committed([next EXCEPT !.err = crashes, !.marked = FALSE], template), class)
  <1> DEFINE next == IF Swaps(inst, class, newProps) THEN Swapped(inst, class, throws) ELSE inst
             drawn == [next EXCEPT !.err = crashes, !.marked = FALSE]
  <1>1. /\ next \in Instance /\ next.on /\ next.leaked = 0
        /\ next.mounts = IF next.needsDidMount THEN 0 ELSE 1
    <2>1. CASE Swaps(inst, class, newProps)
      BY <2>1, SwappedSound
    <2>2. CASE ~Swaps(inst, class, newProps)
      BY <2>2 DEF Sound
    <2> QED BY <2>1, <2>2
  <1>2. /\ next.logic = class \/ (next.logic = StreamableLogic /\ next.failed = class)
        /\ next.failed # Nothing => next.logic = StreamableLogic
    <2>1. CASE Swaps(inst, class, newProps)
      BY <2>1, SwappedSound
    <2>2. CASE ~Swaps(inst, class, newProps)
      BY <2>2 DEF Sound, Swaps
    <2> QED BY <2>1, <2>2
  <1> HIDE DEF next
  <1>3. /\ drawn \in Instance /\ drawn.on /\ drawn.leaked = 0
        /\ drawn.mounts = next.mounts /\ drawn.needsDidMount = next.needsDidMount
        /\ drawn.logic = next.logic /\ drawn.failed = next.failed
    BY <1>1 DEF Instance
  <1> HIDE DEF drawn
  <1>4. Sound(Committed(drawn, template), class)
    BY <1>1, <1>2, <1>3, CommittedSound
  <1> QED BY <1>4 DEF drawn, next

----------------------------------------------------------------------------
(* Steps *)

\* Each instance sound for its component's class.
AllSound == \A i \in Instances : Sound(instances[i], entries[NameOf[i]].logic)

\* A changed entry and a bump leave every instance sound.
LEMMA BumpSound ==
    ASSUME NEW c \in Names, Bump(c), AllSound, RuntimeTypeOK, RuntimeConstants,
           NEW entry \in Entry, entries' = [entries EXCEPT ![c] = entry]
    PROVE  AllSound' /\ instances' \in [Instances -> Instance] /\ entries' \in [Names -> Entry]
  <1>1. MaxSends \in Nat /\ NameOf \in [Instances -> Names] /\ entries \in [Names -> Entry]
    BY DEF RuntimeConstants, RuntimeTypeOK
  <1>2. entries' \in [Names -> Entry]
    BY <1>1
  <1>3. ASSUME NEW i \in Instances
        PROVE  Sound(instances'[i], entries'[NameOf[i]].logic)
    <2>1. Sound(instances[i], entries[NameOf[i]].logic)
      BY DEF AllSound
    <2>2. instances'[i] = IF NameOf[i] = c /\ instances[i].on THEN Told(instances[i]) ELSE instances[i]
      BY DEF Bump
    <2>3. CASE NameOf[i] = c /\ instances[i].on
      BY <1>1, <2>1, <2>2, <2>3, ToldSound
    <2>4. CASE NameOf[i] = c /\ ~instances[i].on
      BY <2>1, <2>2, <2>4, AbsentSound
    <2>5. CASE NameOf[i] # c
      BY <1>1, <2>1, <2>2, <2>5
    <2> QED BY <2>3, <2>4, <2>5
  <1>4. instances' \in [Instances -> Instance]
    <2>1. instances' = [i \in Instances |-> instances'[i]]
      BY DEF Bump
    <2> QED BY <1>3, <2>1 DEF Sound
  <1> QED BY <1>2, <1>3, <1>4 DEF AllSound

\* The inductive invariant, with the part about instances taken one by one.
LEMMA InvByInstance ==
    ASSUME RuntimeConstants
    PROVE  RuntimeInv <=> RuntimeTypeOK /\ NothingFromTheFuture /\ AllSound
  BY SoundInstances
  DEF RuntimeInv, RuntimeTypeOK, RuntimeConstants, AllSound, Sound,
      MountsPairWithUnmounts, SettledInstancesAreCurrent, FailedRunsNothing

\* The invariant holds at boot.
LEMMA InitInv == RuntimeConstants /\ Init => RuntimeInv
  <1> SUFFICES ASSUME RuntimeConstants, Init PROVE RuntimeInv
    OBVIOUS
  <1>1. NewEntry \in Entry /\ NewEntry.html = Nothing /\ NewEntry.logic = Nothing
    BY DEF RuntimeConstants, NewEntry, Entry, Sources
  <1>2. PICK template \in {Nothing, File}, logic \in {Nothing, File} :
          entries = [c \in Names |->
             IF c = Root THEN [NewEntry EXCEPT !.html = File, !.template = template,
                                               !.logic = logic, !.fetched = TRUE]
             ELSE NewEntry]
    BY DEF Init
  <1> DEFINE rootEntry == [NewEntry EXCEPT !.html = File, !.template = template,
                                           !.logic = logic, !.fetched = TRUE]
  <1>3. rootEntry \in Entry /\ rootEntry.html = File /\ rootEntry.logic = logic
    <2>0. File \in Sources /\ template \in Sources /\ logic \in Sources
      BY DEF RuntimeConstants, Sources
    <2>1. [NewEntry EXCEPT !.html = File] \in Entry
      BY <1>1, <2>0, EntryFields, Zenon
    <2>2. [NewEntry EXCEPT !.html = File, !.template = template] \in Entry
      BY <2>0, <2>1, EntryFields, Zenon
    <2>3. [NewEntry EXCEPT !.html = File, !.template = template, !.logic = logic] \in Entry
      BY <2>0, <2>2, EntryFields, Zenon
    <2>4. rootEntry \in Entry
      BY <2>3, EntryFields, Zenon
    <2> QED BY <2>4 DEF NewEntry
  <1>4. entries \in [Names -> Entry] /\ NothingFromTheFuture
    <2>1. sends = 0
      BY DEF Init
    <2>2. \A c \in Names : entries[c] = IF c = Root THEN rootEntry ELSE NewEntry
      BY <1>2
    <2> HIDE DEF rootEntry
    <2>3. entries \in [Names -> Entry]
      BY <1>1, <1>2, <1>3 DEF rootEntry
    <2> QED BY <1>1, <1>3, <2>1, <2>2, <2>3 DEF NothingFromTheFuture
  <1>5. Absent \in Instance /\ ~Absent.on /\ Absent.mounts = 0 /\ Absent.leaked = 0
        /\ Absent.failed = Nothing /\ ~Absent.needsDidMount
    BY DEF RuntimeConstants, Absent, Instance, Sources
  <1>6. AllSound /\ instances \in [Instances -> Instance]
    BY <1>5 DEF Init, AllSound, Sound
  <1>7. RuntimeTypeOK
    BY <1>4, <1>6 DEF Init, RuntimeTypeOK, RuntimeConstants
  <1> QED BY <1>4, <1>6, <1>7, InvByInstance

\* The invariant after a step, from its parts.
LEMMA InvAfter ==
    ASSUME RuntimeConstants, RuntimeTypeOK', NothingFromTheFuture', AllSound'
    PROVE  RuntimeInv'
  BY DEF RuntimeInv, RuntimeTypeOK, RuntimeConstants, AllSound, Sound,
         MountsPairWithUnmounts, SettledInstancesAreCurrent, FailedRunsNothing

\* A step that replaces an entry and tells its instances keeps the invariant.
LEMMA EntryStep ==
    ASSUME RuntimeConstants, RuntimeInv, NEW c \in Names, Bump(c),
           NEW entry \in Entry, entries' = [entries EXCEPT ![c] = entry],
           sends' \in 0..MaxSends, sends' >= sends, fetches' \subseteq Names, rereads' \in BOOLEAN,
           entry.html <= File + sends', entry.logic <= File + sends'
    PROVE  RuntimeInv'
  <1>1. RuntimeTypeOK /\ NothingFromTheFuture /\ AllSound
    BY InvByInstance
  <1>2. AllSound' /\ instances' \in [Instances -> Instance] /\ entries' \in [Names -> Entry]
    BY <1>1, BumpSound
  <1>3. NothingFromTheFuture'
    <2> SUFFICES ASSUME NEW other \in Names
                 PROVE  entries'[other].html <= File + sends' /\ entries'[other].logic <= File + sends'
      BY DEF NothingFromTheFuture
    <2>1. CASE other = c
      <3>1. entries'[other] = entry
        BY <1>1, <2>1 DEF RuntimeTypeOK
      <3> QED BY <3>1
    <2>2. CASE other # c
      <3>1. entries'[other] = entries[other] /\ entries[other] \in Entry
        BY <1>1, <2>2 DEF RuntimeTypeOK
      <3>2. entries[other].html \in Int /\ entries[other].logic \in Int /\ sends \in Int /\ sends' \in Int
        BY <1>1, <3>1 DEF Entry, Sources, RuntimeTypeOK, RuntimeConstants
      <3>3. entries[other].html <= File + sends /\ entries[other].logic <= File + sends
        BY <1>1 DEF NothingFromTheFuture
      <3> QED BY <3>1, <3>2, <3>3
    <2> QED BY <2>1, <2>2
  <1>4. RuntimeTypeOK'
    BY <1>2 DEF RuntimeTypeOK
  <1> QED BY <1>2, <1>3, <1>4, InvAfter

\* A step of one instance that leaves it sound keeps the invariant.
LEMMA InstanceStep ==
    ASSUME RuntimeConstants, RuntimeInv, NEW i \in Instances, NEW inst,
           instances' = [instances EXCEPT ![i] = inst],
           Sound(inst, entries[NameOf[i]].logic),
           entries' \in [Names -> Entry],
           \A c \in Names : entries'[c].html = entries[c].html /\ entries'[c].logic = entries[c].logic,
           sends' = sends, fetches' \subseteq Names, rereads' = rereads
    PROVE  RuntimeInv'
  <1>1. RuntimeTypeOK /\ NothingFromTheFuture /\ AllSound
    BY InvByInstance
  <1>2. AllSound'
    <2> SUFFICES ASSUME NEW j \in Instances
                 PROVE  Sound(instances'[j], entries'[NameOf[j]].logic)
      BY DEF AllSound
    <2>1. entries'[NameOf[j]].logic = entries[NameOf[j]].logic
      BY DEF RuntimeConstants
    <2>2. CASE j = i
      BY <1>1, <2>1, <2>2 DEF RuntimeTypeOK
    <2>3. CASE j # i
      <3>1. instances'[j] = instances[j]
        BY <1>1, <2>3 DEF RuntimeTypeOK
      <3> QED BY <1>1, <2>1, <3>1 DEF AllSound
    <2> QED BY <2>2, <2>3
  <1>3. RuntimeTypeOK'
    <2>1. inst \in Instance
      BY DEF Sound
    <2> QED BY <1>1, <2>1 DEF RuntimeTypeOK
  <1>4. NothingFromTheFuture'
    BY <1>1 DEF NothingFromTheFuture
  <1> QED BY <1>2, <1>3, <1>4, InvAfter

\* A step that leaves the registry and the instances alone keeps the invariant.
LEMMA OtherStep ==
    ASSUME RuntimeConstants, RuntimeInv, UNCHANGED <<entries, instances, sends>>,
           fetches' \subseteq Names, rereads' \in BOOLEAN
    PROVE  RuntimeInv'
  <1>1. RuntimeTypeOK /\ NothingFromTheFuture /\ AllSound
    BY InvByInstance
  <1>2. RuntimeTypeOK' /\ NothingFromTheFuture' /\ AllSound'
    BY <1>1 DEF RuntimeTypeOK, NothingFromTheFuture, AllSound
  <1> QED BY <1>2, InvAfter

----------------------------------------------------------------------------
(* The actions *)

\* What a host sends becomes the newest source of its entry.
LEMMA SendHtmlInv ==
    ASSUME RuntimeConstants, RuntimeInv, NEW c \in Names, NEW streaming \in BOOLEAN,
           SendHtml(c, streaming)
    PROVE  RuntimeInv' /\ \A d \in Names : entries'[d].logic >= entries[d].logic
                                          /\ entries'[d].html >= entries[d].html
  <1>1. RuntimeTypeOK /\ NothingFromTheFuture
    BY InvByInstance
  <1>2. /\ sends' = sends + 1 /\ sends \in 0..MaxSends /\ sends' \in 0..MaxSends
        /\ File + sends' \in Sources /\ MaxSends \in Nat
    BY <1>1 DEF SendHtml, RuntimeTypeOK, RuntimeConstants, Sources
  <1>3. PICK compiles \in BOOLEAN :
          entries' = [entries EXCEPT ![c] =
             [UpdatedHtml(entries[c], File + sends', compiles) EXCEPT
                 !.htmlStreaming = streaming, !.fetched = entries[c].fetched \/ streaming]]
    BY DEF SendHtml
  <1> DEFINE base == UpdatedHtml(entries[c], File + sends', compiles)
             entry == [base EXCEPT !.htmlStreaming = streaming, !.fetched = entries[c].fetched \/ streaming]
  <1>4. base \in Entry /\ base.html = File + sends' /\ base.logic = entries[c].logic
    BY <1>1, <1>2, UpdatedHtmlType DEF RuntimeTypeOK
  <1>5. entries' = [entries EXCEPT ![c] = entry]
    BY <1>3
  <1> HIDE DEF base
  <1>6. entry \in Entry /\ entry.html = base.html /\ entry.logic = base.logic
    <2>1. (entries[c].fetched \/ streaming) \in BOOLEAN
      OBVIOUS
    <2>2. [base EXCEPT !.htmlStreaming = streaming] \in Entry
      BY <1>4, EntryFields, Zenon
    <2>3. entry \in Entry
      BY <2>1, <2>2, EntryFields, Zenon
    <2>4. entry.html = base.html /\ entry.logic = base.logic
      BY <1>4 DEF Entry
    <2> QED BY <2>3, <2>4
  <1> HIDE DEF entry
  <1>7. entry.html <= File + sends' /\ entry.logic <= File + sends'
    <2>1. entries[c].logic \in Int /\ entries[c].logic <= File + sends
      BY <1>1, <1>2 DEF RuntimeTypeOK, NothingFromTheFuture, Entry, Sources
    <2> QED BY <1>2, <1>4, <1>6, <2>1
  <1>8. Bump(c) /\ fetches' \subseteq Names /\ rereads' \in BOOLEAN
    BY <1>1 DEF SendHtml, RuntimeTypeOK
  <1>9. sends' >= sends
    BY <1>2
  <1>10. RuntimeInv'
    BY <1>2, <1>5, <1>6, <1>7, <1>8, <1>9, EntryStep
  <1>11. ASSUME NEW d \in Names
         PROVE  entries'[d].logic >= entries[d].logic /\ entries'[d].html >= entries[d].html
    <2>1. /\ entries[d].html \in Int /\ entries[d].logic \in Int
          /\ entries[d].html <= File + sends
      BY <1>1, <1>2 DEF RuntimeTypeOK, NothingFromTheFuture, Entry, Sources
    <2>2. entries'[d] = IF d = c THEN entry ELSE entries[d]
      BY <1>1, <1>5 DEF RuntimeTypeOK
    <2> QED BY <1>2, <1>4, <1>6, <2>1, <2>2
  <1> QED BY <1>10, <1>11

\* The same of a logic class.
LEMMA SendJsInv ==
    ASSUME RuntimeConstants, RuntimeInv, NEW c \in Names, NEW streaming \in BOOLEAN,
           SendJs(c, streaming)
    PROVE  RuntimeInv' /\ \A d \in Names : entries'[d].logic >= entries[d].logic
                                          /\ entries'[d].html >= entries[d].html
  <1>1. RuntimeTypeOK /\ NothingFromTheFuture
    BY InvByInstance
  <1>2. /\ sends' = sends + 1 /\ sends \in 0..MaxSends /\ sends' \in 0..MaxSends
        /\ File + sends' \in Sources /\ MaxSends \in Nat
    BY <1>1 DEF SendJs, RuntimeTypeOK, RuntimeConstants, Sources
  <1>3. PICK evaluates \in BOOLEAN :
          entries' = [entries EXCEPT ![c] =
             [UpdatedJs(entries[c], File + sends', evaluates) EXCEPT
                 !.jsStreaming = streaming, !.fetched = entries[c].fetched \/ streaming]]
    BY DEF SendJs
  <1> DEFINE base == UpdatedJs(entries[c], File + sends', evaluates)
             entry == [base EXCEPT !.jsStreaming = streaming, !.fetched = entries[c].fetched \/ streaming]
  <1>4. base \in Entry /\ base.html = entries[c].html /\ base.logic \in {entries[c].logic, File + sends'}
    BY <1>1, <1>2, UpdatedJsType DEF RuntimeTypeOK
  <1>5. entries' = [entries EXCEPT ![c] = entry]
    BY <1>3
  <1> HIDE DEF base
  <1>6. entry \in Entry /\ entry.html = base.html /\ entry.logic = base.logic
    <2>1. (entries[c].fetched \/ streaming) \in BOOLEAN
      OBVIOUS
    <2>2. [base EXCEPT !.jsStreaming = streaming] \in Entry
      BY <1>4, EntryFields, Zenon
    <2>3. entry \in Entry
      BY <2>1, <2>2, EntryFields, Zenon
    <2>4. entry.html = base.html /\ entry.logic = base.logic
      BY <1>4 DEF Entry
    <2> QED BY <2>3, <2>4
  <1> HIDE DEF entry
  <1>7. /\ entries[c].logic \in Int /\ entries[c].logic <= File + sends
        /\ entries[c].html \in Int /\ entries[c].html <= File + sends
    BY <1>1, <1>2 DEF RuntimeTypeOK, NothingFromTheFuture, Entry, Sources
  <1>8. entry.html <= File + sends' /\ entry.logic <= File + sends'
    BY <1>2, <1>4, <1>6, <1>7
  <1>9. Bump(c) /\ fetches' \subseteq Names /\ rereads' \in BOOLEAN
    BY <1>1 DEF SendJs, RuntimeTypeOK
  <1>10. sends' >= sends
    BY <1>2
  <1>11. RuntimeInv'
    BY <1>2, <1>5, <1>6, <1>8, <1>9, <1>10, EntryStep
  <1>12. ASSUME NEW d \in Names
         PROVE  entries'[d].logic >= entries[d].logic /\ entries'[d].html >= entries[d].html
    <2>1. entries[d].html \in Int /\ entries[d].logic \in Int
      BY <1>1, <1>2 DEF RuntimeTypeOK, Entry, Sources
    <2>2. entries'[d] = IF d = c THEN entry ELSE entries[d]
      BY <1>1, <1>5 DEF RuntimeTypeOK
    <2> QED BY <1>2, <1>4, <1>6, <1>7, <2>1, <2>2
  <1> QED BY <1>11, <1>12

\* Props and external modules only make instances render.
LEMMA TouchInv ==
    ASSUME RuntimeConstants, RuntimeInv, NEW c \in Names, Touch(c)
    PROVE  RuntimeInv'
  <1>1. RuntimeTypeOK /\ NothingFromTheFuture
    BY InvByInstance
  <1>2. entries[c] \in Entry /\ entries' = [entries EXCEPT ![c] = entries[c]]
    BY <1>1 DEF RuntimeTypeOK, Touch
  <1>3. /\ sends' \in 0..MaxSends /\ sends' = sends /\ sends' >= sends
        /\ fetches' \subseteq Names /\ rereads' \in BOOLEAN /\ Bump(c)
    BY <1>1 DEF RuntimeTypeOK, Touch, RuntimeConstants
  <1>4. entries[c].html <= File + sends' /\ entries[c].logic <= File + sends'
    BY <1>1, <1>3 DEF NothingFromTheFuture
  <1> QED BY <1>2, <1>3, <1>4, EntryStep

\* A sibling's file fills in what its entry lacks.
LEMMA SiblingFetchedInv ==
    ASSUME RuntimeConstants, RuntimeInv, NEW c \in Names, SiblingFetched(c)
    PROVE  RuntimeInv' /\ \A d \in Names : entries'[d].logic >= entries[d].logic
                                          /\ entries'[d].html >= entries[d].html
  <1>1. RuntimeTypeOK /\ NothingFromTheFuture /\ MaxSends \in Nat
    BY InvByInstance DEF RuntimeConstants
  <1>2. PICK compiles \in BOOLEAN, evaluates \in BOOLEAN, lacking \in SUBSET {"html", "logic"} :
          /\ entries' = [entries EXCEPT ![c] = Adopted(@, lacking, compiles, evaluates)]
          /\ IF lacking = {} THEN UNCHANGED instances ELSE Bump(c)
          /\ "html" \in lacking => entries[c].html = Nothing
          /\ "logic" \in lacking => entries[c].logic = Nothing
    <2>1. PICK parts \in SUBSET {"html", "logic"}, compiles \in BOOLEAN, evaluates \in BOOLEAN :
            LET found == {part \in parts : entries[c][part] = Nothing} IN
            /\ entries' = [entries EXCEPT ![c] = Adopted(@, found, compiles, evaluates)]
            /\ IF found = {} THEN UNCHANGED instances ELSE Bump(c)
      BY DEF SiblingFetched
    <2> DEFINE found == {part \in parts : entries[c][part] = Nothing}
    <2>2. /\ found \in SUBSET {"html", "logic"}
          /\ "html" \in found => entries[c].html = Nothing
          /\ "logic" \in found => entries[c].logic = Nothing
      OBVIOUS
    <2> WITNESS compiles \in BOOLEAN, evaluates \in BOOLEAN, found \in SUBSET {"html", "logic"}
    <2> QED BY <2>1, <2>2
  <1> DEFINE entry == Adopted(entries[c], lacking, compiles, evaluates)
  <1>3. entries' = [entries EXCEPT ![c] = entry]
    BY <1>2
  <1>4. IF lacking = {} THEN UNCHANGED instances ELSE Bump(c)
    BY <1>2
  <1>5. /\ "html" \in lacking => entries[c].html = Nothing
        /\ "logic" \in lacking => entries[c].logic = Nothing
    BY <1>2
  <1>6. /\ entry \in Entry
        /\ entry.html = IF "html" \in lacking THEN File ELSE entries[c].html
        /\ entry.logic \in {entries[c].logic, IF "logic" \in lacking THEN File ELSE entries[c].logic}
    <2>1. entries[c] \in Entry
      BY <1>1 DEF RuntimeTypeOK
    <2> QED BY <1>1, <2>1, AdoptedType
  <1>7. lacking = {} => entry = entries[c]
    BY DEF Adopted
  <1> HIDE DEF entry
  <1>8. /\ entries[c].html \in Nat /\ entries[c].html <= File + sends
        /\ entries[c].logic \in Nat /\ entries[c].logic <= File + sends
    BY <1>1 DEF RuntimeTypeOK, NothingFromTheFuture, Entry, Sources
  <1>9. /\ sends' = sends /\ sends \in Nat /\ sends' \in 0..MaxSends /\ sends' >= sends
        /\ fetches' \subseteq Names /\ rereads' \in BOOLEAN
    BY <1>1 DEF RuntimeTypeOK, SiblingFetched
  <1>10. entry.html <= File + sends' /\ entry.logic <= File + sends'
    BY <1>6, <1>8, <1>9
  <1>11. RuntimeInv'
    <2>1. CASE lacking = {}
      <3>1. UNCHANGED <<entries, instances, sends>>
        BY <1>1, <1>3, <1>4, <1>7, <1>9, <2>1 DEF RuntimeTypeOK
      <3> QED BY <1>9, <3>1, OtherStep
    <2>2. CASE lacking # {}
      BY <1>3, <1>4, <1>6, <1>9, <1>10, <2>2, EntryStep
    <2> QED BY <2>1, <2>2
  <1>12. ASSUME NEW d \in Names
         PROVE  entries'[d].logic >= entries[d].logic /\ entries'[d].html >= entries[d].html
    <2>1. entries[d].html \in Int /\ entries[d].logic \in Int
      BY <1>1 DEF RuntimeTypeOK, Entry, Sources
    <2>2. entries'[d] = IF d = c THEN entry ELSE entries[d]
      BY <1>1, <1>3 DEF RuntimeTypeOK
    <2> QED BY <1>5, <1>6, <1>8, <2>1, <2>2
  <1> QED BY <1>11, <1>12

\* The document's second reading replaces the root's template and no class.
LEMMA DocumentFetchedInv ==
    ASSUME RuntimeConstants, RuntimeInv, DocumentFetched
    PROVE  RuntimeInv' /\ \A d \in Names :
              /\ entries'[d].logic = entries[d].logic
              /\ d # Root => entries'[d].html = entries[d].html
  <1>1. RuntimeTypeOK /\ NothingFromTheFuture /\ MaxSends \in Nat /\ Root \in Names
    BY InvByInstance DEF RuntimeConstants
  <1>2. PICK compiles \in BOOLEAN :
          entries' = [entries EXCEPT ![Root] = UpdatedHtml(@, File, compiles)]
    BY DEF DocumentFetched
  <1> DEFINE entry == UpdatedHtml(entries[Root], File, compiles)
  <1>3. entries' = [entries EXCEPT ![Root] = entry]
    BY <1>2
  <1>4. File \in Sources
    BY <1>1 DEF Sources
  <1>5. entry \in Entry /\ entry.html = File /\ entry.logic = entries[Root].logic
    BY <1>1, <1>4, UpdatedHtmlType DEF RuntimeTypeOK
  <1> HIDE DEF entry
  <1>6. /\ sends' = sends /\ sends \in Nat /\ sends' \in 0..MaxSends /\ sends' >= sends
        /\ fetches' \subseteq Names /\ rereads' \in BOOLEAN /\ Bump(Root)
    <2>1. sends' = sends /\ fetches' = fetches /\ rereads' = FALSE /\ Bump(Root)
      BY DEF DocumentFetched
    <2>2. sends \in Nat /\ sends \in 0..MaxSends /\ sends >= sends /\ fetches \subseteq Names
      BY <1>1 DEF RuntimeTypeOK
    <2> QED BY <2>1, <2>2, Zenon
  <1>7. entry.html <= File + sends'
    BY <1>5, <1>6
  <1>8. entry.logic <= File + sends'
    BY <1>1, <1>5, <1>6 DEF NothingFromTheFuture
  <1>9. RuntimeInv'
    BY <1>1, <1>3, <1>5, <1>6, <1>7, <1>8, EntryStep
  <1>10. ASSUME NEW d \in Names
         PROVE  entries'[d].logic = entries[d].logic /\ (d # Root => entries'[d].html = entries[d].html)
    <2>1. entries'[d] = IF d = Root THEN entry ELSE entries[d]
      BY <1>1, <1>3 DEF RuntimeTypeOK
    <2> QED BY <1>5, <2>1
  <1> QED BY <1>9, <1>10

\* Mounting leaves the registry's templates and classes alone.
LEMMA MountInv ==
    ASSUME RuntimeConstants, RuntimeInv, NEW i \in Instances, Mount(i)
    PROVE  RuntimeInv' /\ \A d \in Names : entries'[d].logic = entries[d].logic
                                          /\ entries'[d].html = entries[d].html
  <1> DEFINE c == NameOf[i]
  <1>1. /\ RuntimeTypeOK /\ AllSound /\ MaxSends \in Nat /\ c \in Names
        /\ entries[c] \in Entry /\ entries[c].logic \in Sources
    BY InvByInstance DEF RuntimeConstants, RuntimeTypeOK, Entry
  <1>2. entries' = [entries EXCEPT ![c].fetched = TRUE]
    BY DEF Mount
  <1>3. \A d \in Names : entries'[d].logic = entries[d].logic /\ entries'[d].html = entries[d].html
    BY <1>1, <1>2 DEF RuntimeTypeOK, Entry
  <1>4. entries' \in [Names -> Entry]
    <2>1. [entries[c] EXCEPT !.fetched = TRUE] \in Entry
      BY <1>1, EntryFields, Zenon
    <2>2. entries' = [entries EXCEPT ![c] = [entries[c] EXCEPT !.fetched = TRUE]]
      BY <1>2
    <2> QED BY <1>1, <2>1, <2>2 DEF RuntimeTypeOK
  <1>5. PICK throws, crashes, circular \in BOOLEAN :
          instances' = [instances EXCEPT ![i] =
                [WithLogic(@, entries[c].logic, throws) EXCEPT
                    !.on = TRUE, !.circular = circular, !.err = crashes, !.mounts = 1,
                    !.needsDidMount = FALSE, !.marked = FALSE]]
    BY DEF Mount
  <1> DEFINE inst == [WithLogic(instances[i], entries[c].logic, throws) EXCEPT
                         !.on = TRUE, !.circular = circular, !.err = crashes, !.mounts = 1,
                         !.needsDidMount = FALSE, !.marked = FALSE]
  <1>6. instances' = [instances EXCEPT ![i] = inst]
    BY <1>5
  <1>7. Sound(instances[i], entries[c].logic)
    BY <1>1 DEF AllSound
  <1>8. Sound(inst, entries[c].logic)
    BY <1>1, <1>7, MountedSound
  <1>9. sends' = sends /\ fetches' \subseteq Names /\ rereads' = rereads
    BY <1>1 DEF Mount, RuntimeTypeOK
  <1> HIDE DEF inst
  <1>10. RuntimeInv'
    BY <1>3, <1>4, <1>6, <1>8, <1>9, InstanceStep
  <1> QED BY <1>3, <1>10

\* A render touches one instance.
LEMMA RenderInv ==
    ASSUME RuntimeConstants, RuntimeInv, NEW i \in Instances, Render(i)
    PROVE  RuntimeInv'
  <1> DEFINE entry == entries[NameOf[i]]
  <1>1. RuntimeTypeOK /\ AllSound /\ MaxSends \in Nat /\ entry \in Entry /\ entry.logic \in Sources
    BY InvByInstance DEF RuntimeConstants, RuntimeTypeOK, Entry
  <1>2. instances[i].on /\ Sound(instances[i], entry.logic)
    BY <1>1 DEF Render, AllSound
  <1>3. PICK newProps, throws, crashes \in BOOLEAN :
          instances' = [instances EXCEPT ![i] =
                IF @.err THEN @
                ELSE LET next == IF Swaps(@, entry.logic, newProps)
                                 THEN Swapped(@, entry.logic, throws) ELSE @ IN
                     Committed([next EXCEPT !.err = crashes, !.marked = FALSE], entry.template)]
    BY DEF Render
  <1> DEFINE next == IF Swaps(instances[i], entry.logic, newProps)
                     THEN Swapped(instances[i], entry.logic, throws) ELSE instances[i]
             drawn == Committed([next EXCEPT !.err = crashes, !.marked = FALSE], entry.template)
             inst == IF instances[i].err THEN instances[i] ELSE drawn
  <1>4. instances' = [instances EXCEPT ![i] = inst]
    BY <1>3
  <1>5. Sound(drawn, entry.logic)
    BY <1>1, <1>2, RenderedSound
  <1> HIDE DEF drawn
  <1>6. Sound(inst, entry.logic)
    BY <1>2, <1>5
  <1>7. /\ entries' = entries /\ sends' = sends /\ rereads' = rereads
        /\ fetches' \subseteq Names /\ entries' \in [Names -> Entry]
    BY <1>1 DEF Render, RuntimeTypeOK
  <1> HIDE DEF inst
  <1> QED BY <1>4, <1>6, <1>7, InstanceStep

\* An error that is shown leaves what is mounted alone.
LEMMA ShowErrorInv ==
    ASSUME RuntimeConstants, RuntimeInv, NEW i \in Instances, ShowError(i)
    PROVE  RuntimeInv'
  <1> DEFINE old == instances[i]
             inst == [old EXCEPT !.err = TRUE, !.marked = FALSE]
  <1>1. RuntimeTypeOK /\ AllSound
    BY InvByInstance
  <1>2. Sound(old, entries[NameOf[i]].logic)
    BY <1>1 DEF AllSound
  <1>3. instances' = [instances EXCEPT ![i] = inst]
    BY DEF ShowError
  <1>4. inst \in Instance
    <2>1. old \in Instance
      BY <1>2 DEF Sound
    <2>2. [old EXCEPT !.err = TRUE] \in Instance
      BY <2>1, Fields, Zenon
    <2> QED BY <2>2, Fields, Zenon
  <1>5. /\ inst.err /\ inst.leaked = old.leaked /\ inst.mounts = old.mounts /\ inst.on = old.on
        /\ inst.needsDidMount = old.needsDidMount /\ inst.logic = old.logic /\ inst.failed = old.failed
    BY <1>2 DEF Sound, Instance
  <1> HIDE DEF inst
  <1>6. Sound(inst, entries[NameOf[i]].logic)
    BY <1>2, <1>4, <1>5 DEF Sound
  <1>7. /\ entries' = entries /\ sends' = sends /\ rereads' = rereads
        /\ fetches' \subseteq Names /\ entries' \in [Names -> Entry]
    BY <1>1 DEF ShowError, RuntimeTypeOK
  <1> QED BY <1>3, <1>6, <1>7, InstanceStep

\* Unmounting leaves nothing behind.
LEMMA UnmountInv ==
    ASSUME RuntimeConstants, RuntimeInv, NEW i \in Instances, Unmount(i)
    PROVE  RuntimeInv'
  <1> DEFINE class == entries[NameOf[i]].logic
             inst == [Absent EXCEPT !.leaked = 0]
  <1>1. RuntimeTypeOK /\ AllSound /\ MaxSends \in Nat
    BY InvByInstance DEF RuntimeConstants
  <1>2. instances[i].on /\ Sound(instances[i], class)
    BY <1>1 DEF Unmount, AllSound
  <1>3. instances[i].leaked + instances[i].mounts - (IF instances[i].needsDidMount THEN 0 ELSE 1) = 0
    BY <1>2 DEF Sound
  <1>4. instances' = [instances EXCEPT ![i] = inst]
    BY <1>3 DEF Unmount
  <1>5. inst \in Instance /\ ~inst.on /\ inst.leaked = 0 /\ inst.mounts = 0 /\ inst.failed = Nothing
    <2>1. inst = Absent
      BY DEF Absent
    <2>2. Absent \in Instance
      BY <1>1 DEF Absent, Instance, Sources
    <2>3. ~Absent.on /\ Absent.leaked = 0 /\ Absent.mounts = 0 /\ Absent.failed = Nothing
      BY DEF Absent
    <2> HIDE DEF inst
    <2> QED BY <2>1, <2>2, <2>3
  <1> HIDE DEF inst
  <1>6. Sound(inst, class)
    BY <1>5 DEF Sound
  <1>7. /\ entries' = entries /\ sends' = sends /\ rereads' = rereads
        /\ fetches' \subseteq Names /\ entries' \in [Names -> Entry]
    BY <1>1 DEF Unmount, RuntimeTypeOK
  <1> QED BY <1>4, <1>6, <1>7, InstanceStep

----------------------------------------------------------------------------
(* Theorems *)

\* Every step keeps the invariant.
LEMMA NextInv == RuntimeConstants /\ RuntimeInv /\ [Next]_vars => RuntimeInv'
  <1> SUFFICES ASSUME RuntimeConstants, RuntimeInv, [Next]_vars PROVE RuntimeInv'
    OBVIOUS
  <1>0. RuntimeTypeOK
    BY DEF RuntimeInv
  <1>1. CASE \E c \in Names, streaming \in BOOLEAN : SendHtml(c, streaming)
    BY <1>1, SendHtmlInv
  <1>2. CASE \E c \in Names, streaming \in BOOLEAN : SendJs(c, streaming)
    BY <1>2, SendJsInv
  <1>3. CASE \E c \in Names : Touch(c)
    BY <1>3, TouchInv
  <1>4. CASE \E c \in Names : SiblingFetched(c)
    BY <1>4, SiblingFetchedInv
  <1>5. CASE \E c \in Names : SiblingMissing(c)
    BY <1>0, <1>5, OtherStep DEF SiblingMissing, RuntimeTypeOK
  <1>6. CASE DocumentFetched
    BY <1>6, DocumentFetchedInv
  <1>7. CASE DocumentMissing
    BY <1>0, <1>7, OtherStep DEF DocumentMissing, RuntimeTypeOK
  <1>8. CASE \E i \in Instances : Mount(i)
    BY <1>8, MountInv
  <1>9. CASE \E i \in Instances : Render(i)
    BY <1>9, RenderInv
  <1>10. CASE \E i \in Instances : Unmount(i)
    BY <1>10, UnmountInv
  <1>11. CASE \E i \in Instances : Crash(i)
    BY <1>11, ShowErrorInv DEF Crash
  <1>12. CASE \E i \in Instances : RenderCircular(i)
    BY <1>12, ShowErrorInv DEF RenderCircular
  <1>13. CASE UNCHANGED vars
    BY <1>0, <1>13, OtherStep DEF vars, RuntimeTypeOK
  <1> QED BY <1>1, <1>2, <1>3, <1>4, <1>5, <1>6, <1>7, <1>8, <1>9, <1>10, <1>11, <1>12, <1>13
         DEF Next

\* The invariant holds in every state.
LEMMA InvAlways == Spec => []RuntimeInv
  BY RuntimeConstants, InitInv, NextInv, PTL DEF Spec

\* The registry and the instances keep their types.
THEOREM RuntimeTypeCorrect == Spec => []RuntimeTypeOK
  <1>1. RuntimeInv => RuntimeTypeOK
    BY DEF RuntimeInv
  <1> QED BY <1>1, InvAlways, PTL

\* Every logic is mounted once and unmounted if it was mounted, whatever is swapped,
\* crashes or fails to construct in between.
THEOREM MountsPairAlways == Spec => []MountsPairWithUnmounts
  <1>1. RuntimeInv => MountsPairWithUnmounts
    BY DEF RuntimeInv
  <1> QED BY <1>1, InvAlways, PTL

\* No change of the registry is missed by an instance on the page.
THEOREM SettledAlways == Spec => []SettledInstancesAreCurrent
  <1>1. RuntimeInv => SettledInstancesAreCurrent
    BY DEF RuntimeInv
  <1> QED BY <1>1, InvAlways, PTL

\* What one step may do to the registry's sources.
SourcesOnlyGetNewer ==
    \A c \in Names :
       /\ entries'[c].logic >= entries[c].logic
       /\ entries'[c].html >= entries[c].html \/ (c = Root /\ rereads /\ ~rereads')

\* A file, whenever it arrives, takes the place of nothing a host has sent.
THEOREM FilesNeverReplaceSendsAlways == Spec => FilesNeverReplaceSends
  <1>1. ASSUME RuntimeConstants, RuntimeInv, Next PROVE SourcesOnlyGetNewer
    <2>0. \A c \in Names : entries[c].html \in Int /\ entries[c].logic \in Int
      BY <1>1 DEF RuntimeInv, RuntimeTypeOK, RuntimeConstants, Entry, Sources
    <2>1. CASE \E c \in Names, streaming \in BOOLEAN : SendHtml(c, streaming)
      BY <1>1, <2>1, SendHtmlInv DEF SourcesOnlyGetNewer
    <2>2. CASE \E c \in Names, streaming \in BOOLEAN : SendJs(c, streaming)
      BY <1>1, <2>2, SendJsInv DEF SourcesOnlyGetNewer
    <2>3. CASE \E c \in Names : SiblingFetched(c)
      BY <1>1, <2>3, SiblingFetchedInv DEF SourcesOnlyGetNewer
    <2>4. CASE DocumentFetched
      <3>1. rereads /\ ~rereads'
        BY <2>4 DEF DocumentFetched
      <3> QED BY <1>1, <2>0, <2>4, <3>1, DocumentFetchedInv DEF SourcesOnlyGetNewer
    <2>5. CASE \E i \in Instances : Mount(i)
      BY <1>1, <2>0, <2>5, MountInv DEF SourcesOnlyGetNewer
    <2>6. CASE UNCHANGED entries
      BY <2>0, <2>6 DEF SourcesOnlyGetNewer
    <2> QED BY <1>1, <2>1, <2>2, <2>3, <2>4, <2>5, <2>6
            DEF Next, Touch, SiblingMissing, DocumentMissing, Render, Crash,
                RenderCircular, ShowError, Unmount
  <1>2. RuntimeConstants /\ RuntimeInv /\ [Next]_vars => [SourcesOnlyGetNewer]_vars
    BY <1>1
  <1>3. Spec => [][SourcesOnlyGetNewer]_vars
    BY <1>2, InvAlways, RuntimeConstants, PTL DEF Spec
  <1> QED BY <1>3 DEF FilesNeverReplaceSends, SourcesOnlyGetNewer
=============================================================================
