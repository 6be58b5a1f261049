-------------------------- MODULE ComponentRuntime --------------------------
(***************************************************************************)
(* The component runtime the page runs in (frontend/support.js): a         *)
(* registry of components, each a template and a logic class that come     *)
(* from the document, from a sibling file or from a host that streams      *)
(* them, and the mounted instances that render what the registry holds.    *)
(* A change of the registry marks the instances of the component; React    *)
(* renders them at some later time, one at a time.                         *)
(***************************************************************************)
EXTENDS Integers

CONSTANTS
    Names,      \* the components
    Root,       \* the one the document defines
    Instances,
    NameOf,     \* the component of each instance
    MaxSends    \* bound: what a host sends

ASSUME RuntimeConstants ==
    /\ Root \in Names
    /\ NameOf \in [Instances -> Names]
    /\ MaxSends \in Nat

\* A template or logic class is known by where it comes from: nothing yet, the file
\* (the document's or the sibling's), or a host's n-th send, which is newer.
Nothing == 0
File == 1
Sources == 0..(1 + MaxSends)

\* The class of an instance without a logic class, which does nothing.
StreamableLogic == Nothing

VARIABLES
    entries,    \* the registry
    instances,  \* the components on the page
    fetches,    \* siblings whose file is being fetched
    rereads,    \* whether the document is being fetched for its unparsed template
    sends       \* how much a host has sent

vars == <<entries, instances, fetches, rereads, sends>>

\* html is the source text, template what it compiled to, logic the evaluated class.
Entry == [html : Sources, template : Sources, logic : Sources,
          htmlStreaming : BOOLEAN, jsStreaming : BOOLEAN, fetched : BOOLEAN]

\* circular: it is below an instance of its own component; err: an error is shown in place
\* of the template; failed is the class whose constructor threw and is not tried again
\* yet; mounts counts componentDidMount less componentWillUnmount of the logic in place,
\* leaked the same of every logic it followed.
Instance == [on : BOOLEAN, circular : BOOLEAN, logic : Sources, failed : Sources,
             needsDidMount : BOOLEAN, err : BOOLEAN, marked : BOOLEAN, mounts : Int, leaked : Int]

NewEntry == [html |-> Nothing, template |-> Nothing, logic |-> Nothing,
             htmlStreaming |-> FALSE, jsStreaming |-> FALSE, fetched |-> FALSE]

Absent == [on |-> FALSE, circular |-> FALSE, logic |-> Nothing, failed |-> Nothing,
           needsDidMount |-> FALSE, err |-> FALSE, marked |-> FALSE, mounts |-> 0, leaked |-> 0]

\* The registry, the instances and what is being fetched keep their types.
RuntimeTypeOK ==
    /\ entries \in [Names -> Entry]
    /\ instances \in [Instances -> Instance]
    /\ fetches \subseteq Names
    /\ rereads \in BOOLEAN
    /\ sends \in 0..MaxSends

\* After boot: the document has defined the root, whose template and class may each
\* have failed to compile, and is fetched again for its template as it was written.
Init ==
    /\ \E template, logic \in {Nothing, File} :
          entries = [c \in Names |->
             IF c = Root THEN [NewEntry EXCEPT !.html = File, !.template = template,
                                               !.logic = logic, !.fetched = TRUE]
             ELSE NewEntry]
    /\ instances = [i \in Instances |-> Absent]
    /\ fetches = {}
    /\ rereads = TRUE
    /\ sends = 0

----------------------------------------------------------------------------
(* The registry *)

\* A change tells the instances on the page: they are to render again, forgive a crash
\* of theirs and may try a failed constructor again.
Told(inst) == [inst EXCEPT !.marked = TRUE, !.err = FALSE, !.failed = Nothing]

\* Wrong: nobody is told.
BumpNobody(c) == UNCHANGED instances

Bump(c) ==
    instances' = [i \in Instances |->
        IF NameOf[i] = c /\ instances[i].on THEN Told(instances[i]) ELSE instances[i]]

\* A text that does not compile leaves the template there was.
UpdatedHtml(entry, html, compiles) ==
    [entry EXCEPT !.html = html, !.template = IF compiles THEN html ELSE @]

\* A class that does not evaluate leaves the one there was.
UpdatedJs(entry, js, evaluates) == [entry EXCEPT !.logic = IF evaluates THEN js ELSE @]

\* A host sends a template, whole or as far as it has got.
SendHtml(c, streaming) ==
    /\ sends < MaxSends /\ sends' = sends + 1
    /\ \E compiles \in BOOLEAN :
          entries' = [entries EXCEPT ![c] =
             [UpdatedHtml(entries[c], File + sends', compiles) EXCEPT
                 !.htmlStreaming = streaming, !.fetched = entries[c].fetched \/ streaming]]
    /\ Bump(c)
    /\ UNCHANGED <<fetches, rereads>>

\* A logic class is evaluated only once it is whole.
SendJs(c, streaming) ==
    /\ sends < MaxSends /\ sends' = sends + 1
    /\ \E evaluates \in BOOLEAN :
          /\ streaming => ~evaluates
          /\ entries' = [entries EXCEPT ![c] =
                [UpdatedJs(entries[c], File + sends', evaluates) EXCEPT
                    !.jsStreaming = streaming, !.fetched = entries[c].fetched \/ streaming]]
    /\ Bump(c)
    /\ UNCHANGED <<fetches, rereads>>

\* Props, their metadata, or an external module that has loaded.
Touch(c) ==
    /\ Bump(c)
    /\ UNCHANGED <<entries, fetches, rereads, sends>>

----------------------------------------------------------------------------
(* Files *)

\* Wrong: the file is taken whatever a host has sent meanwhile.
AdoptedAnyway(entry, lacking, compiles, evaluates) ==
    UpdatedJs(UpdatedHtml(entry, File, compiles), File, evaluates)

\* What a file adds to an entry: the parts it lacks.
Adopted(entry, lacking, compiles, evaluates) ==
    LET withHtml == IF "html" \in lacking THEN UpdatedHtml(entry, File, compiles) ELSE entry IN
    IF "logic" \in lacking THEN UpdatedJs(withHtml, File, evaluates) ELSE withHtml

\* A sibling's file has a template, a class, both or (its props apart) neither.
SiblingFetched(c) ==
    /\ c \in fetches
    /\ fetches' = fetches \ {c}
    /\ \E parts \in SUBSET {"html", "logic"}, compiles, evaluates \in BOOLEAN :
          LET lacking == {part \in parts : entries[c][part] = Nothing} IN
          /\ entries' = [entries EXCEPT ![c] = Adopted(@, lacking, compiles, evaluates)]
          /\ IF lacking = {} THEN UNCHANGED instances ELSE Bump(c)
    /\ UNCHANGED <<rereads, sends>>

\* A file that is missing, or not a component, is not asked for again.
SiblingMissing(c) ==
    /\ c \in fetches
    /\ fetches' = fetches \ {c}
    /\ UNCHANGED <<entries, instances, rereads, sends>>

\* The document's own template replaces whatever the root has by now.
DocumentFetched ==
    /\ rereads
    /\ rereads' = FALSE
    /\ \E compiles \in BOOLEAN :
          entries' = [entries EXCEPT ![Root] = UpdatedHtml(@, File, compiles)]
    /\ Bump(Root)
    /\ UNCHANGED <<fetches, sends>>

DocumentMissing ==
    /\ rereads
    /\ rereads' = FALSE
    /\ UNCHANGED <<entries, instances, fetches, sends>>

----------------------------------------------------------------------------
(* Instances *)

\* makeLogic: a class whose constructor throws is remembered, and nothing stands for it.
WithLogic(inst, class, throws) ==
    [inst EXCEPT !.logic = IF throws THEN StreamableLogic ELSE class,
                 !.failed = IF throws THEN class ELSE Nothing]

\* Mounting constructs, fetches the component's file the first time, renders and runs
\* componentDidMount, even of a logic whose template is missing or has crashed.
Mount(i) ==
    LET c == NameOf[i] IN
    /\ ~instances[i].on
    /\ \E throws, crashes, circular \in BOOLEAN :
          /\ throws => entries[c].logic # Nothing
          /\ crashes => entries[c].template # Nothing \/ circular
          /\ circular => crashes
          /\ instances' = [instances EXCEPT ![i] =
                [WithLogic(@, entries[c].logic, throws) EXCEPT
                    !.on = TRUE, !.circular = circular, !.err = crashes, !.mounts = 1,
                    !.needsDidMount = FALSE, !.marked = FALSE]]
    /\ fetches' = IF entries[c].fetched THEN fetches ELSE fetches \cup {c}
    /\ entries' = [entries EXCEPT ![c].fetched = TRUE]
    /\ UNCHANGED <<rereads, sends>>

\* Whether a render swaps the logic: the registry has another class, and not one that
\* has just failed for these props.
Swaps(inst, class, newProps) ==
    /\ class # inst.logic
    /\ inst.failed # Nothing /\ inst.failed = class => newProps

\* Wrong: the logic that is replaced is not told.
SwappedSilently(inst, class, throws) ==
    [WithLogic(inst, class, throws) EXCEPT
        !.leaked = @ + inst.mounts, !.mounts = 0, !.needsDidMount = TRUE]

\* The logic there was is unmounted, if it had been mounted; the new one will be
\* mounted once it is on the page.
Swapped(inst, class, throws) ==
    LET stopped == IF inst.needsDidMount THEN inst.mounts ELSE inst.mounts - 1 IN
    [WithLogic(inst, class, throws) EXCEPT
        !.leaked = @ + stopped, !.mounts = 0, !.needsDidMount = TRUE]

\* componentDidUpdate: a new logic is mounted once its template is on the page.
Committed(inst, template) ==
    IF ~inst.needsDidMount \/ inst.err \/ template = Nothing THEN inst
    ELSE [inst EXCEPT !.needsDidMount = FALSE, !.mounts = @ + 1]

\* A render, for a change of the registry or of the parent, in which something below may
\* crash; an instance that shows an error does so until the registry changes.
Render(i) ==
    LET entry == entries[NameOf[i]] IN
    /\ instances[i].on /\ ~instances[i].circular
    /\ \E newProps, throws, crashes \in BOOLEAN :
          /\ crashes => entry.template # Nothing
          /\ throws => entry.logic # Nothing
          /\ instances' = [instances EXCEPT ![i] =
                IF @.err THEN @
                ELSE LET next == IF Swaps(@, entry.logic, newProps)
                                 THEN Swapped(@, entry.logic, throws) ELSE @ IN
                     Committed([next EXCEPT !.err = crashes, !.marked = FALSE], entry.template)]
    /\ UNCHANGED <<entries, fetches, rereads, sends>>

ShowError(i) ==
    /\ instances[i].on /\ ~instances[i].err
    /\ instances' = [instances EXCEPT ![i].err = TRUE, ![i].marked = FALSE]
    /\ UNCHANGED <<entries, fetches, rereads, sends>>

\* Something below an instance crashes in a render of its own: the instance shows the
\* error instead, also for a render it may have been waiting for.
Crash(i) ==
    /\ ~instances[i].circular /\ entries[NameOf[i]].template # Nothing
    /\ ShowError(i)

\* A circular import ends with a message at every render, before the logic is looked at:
\* the one it was mounted with stays.
RenderCircular(i) ==
    /\ instances[i].circular
    /\ ShowError(i)

\* A logic that was never mounted is not unmounted either; what was left behind stays
\* counted.
Unmount(i) ==
    LET inst == instances[i] IN
    /\ inst.on
    /\ instances' = [instances EXCEPT ![i] =
          [Absent EXCEPT !.leaked = inst.leaked + inst.mounts - (IF inst.needsDidMount THEN 0 ELSE 1)]]
    /\ UNCHANGED <<entries, fetches, rereads, sends>>

----------------------------------------------------------------------------
(* Specification *)

Next ==
    \/ \E c \in Names, streaming \in BOOLEAN : SendHtml(c, streaming)
    \/ \E c \in Names, streaming \in BOOLEAN : SendJs(c, streaming)
    \/ \E c \in Names : Touch(c)
    \/ \E c \in Names : SiblingFetched(c)
    \/ \E c \in Names : SiblingMissing(c)
    \/ DocumentFetched
    \/ DocumentMissing
    \/ \E i \in Instances : Mount(i)
    \/ \E i \in Instances : Render(i)
    \/ \E i \in Instances : Crash(i)
    \/ \E i \in Instances : RenderCircular(i)
    \/ \E i \in Instances : Unmount(i)

Spec == Init /\ [][Next]_vars

----------------------------------------------------------------------------
(* Properties *)

\* However templates, classes and crashes follow each other, a logic is mounted at most
\* once and unmounted exactly if it was mounted, so that what it set up (the page's
\* keyboard listener, say) is there once and never outlives it (__needsDidMount).
MountsPairWithUnmounts ==
    \A i \in Instances :
        LET inst == instances[i] IN
        /\ inst.leaked = 0
        /\ inst.mounts = IF inst.on /\ ~inst.needsDidMount THEN 1 ELSE 0

\* An instance that waits for no render and shows no error runs the class the registry
\* holds, or nothing because that class threw when it was constructed for the state of
\* things as it is.
SettledInstancesAreCurrent ==
    \A i \in Instances :
        LET inst == instances[i] class == entries[NameOf[i]].logic IN
        inst.on /\ ~inst.marked /\ ~inst.err
        => inst.logic = class \/ (inst.logic = StreamableLogic /\ inst.failed = class)

\* The file of a component, whenever it arrives, never takes the place of a template or
\* class that a host has sent (ensureFetched looks again); only the document's second
\* reading may, for the template of the root.
FilesNeverReplaceSends ==
    [][\A c \in Names :
          /\ entries'[c].logic >= entries[c].logic
          /\ entries'[c].html >= entries[c].html \/ (c = Root /\ rereads /\ ~rereads')]_vars
=============================================================================
