------------------------ MODULE CommitmentRefinement ------------------------
(***************************************************************************)
(* The commitment tables implement CommitmentLedger.  The edits in force   *)
(* of a week are its unreversed rows, replaced or not: the row a later     *)
(* edit replaced is under it on the ledger's stack.                        *)
(***************************************************************************)
EXTENDS CommitmentStore, SequencesExt

Unreversed(table, s, w) ==
    {k \in DOMAIN table :
        table[k].student = s /\ table[k].week = w /\ ~table[k].reversed}

EditsInForce ==
    [s \in Students |-> [w \in Weeks |->
        {[number |-> k, hours |-> updates[k].hours] : k \in Unreversed(updates, s, w)}]]

Waiting ==
    {[number |-> i, student |-> baselines[i].student, hours |-> baselines[i].hours] :
        i \in {j \in DOMAIN baselines : baselines[j].status = "pending"}}

Active ==
    [s \in Students |->
        IF Approved(baselines, s) = {} THEN [hours |-> ZeroHours, from |-> 0]
        ELSE LET row == baselines[Newest(Approved(baselines, s))]
             IN  [hours |-> row.hours, from |-> FirstWeek(row)]]

Ledger == INSTANCE CommitmentLedger WITH
    submitted <- Len(baselines), waiting <- Waiting, active <- Active, edits <- EditsInForce,
    EditNumbers <- 1..MaxUpdates

\* Whatever clients do, the tables move as the ledger allows: decisions are
\* taken once, an edit goes on top, a reversal removes the top and nothing else.
ImplementsLedger == Ledger!Spec

\* The hours the scores use, found through status and superseded_by columns,
\* are the hours the ledger has in force.
HoursAgreeWithLedger ==
    \A s \in Students, w \in Weeks :
        HoursInEffect(s, w).hours = Ledger!HoursInForce(s, w)

\* The edits of (s, w) that the change log leaves in force when it is read from
\* the first entry: each set pushes its hours, each reversal pops the top.
ReplayedEdits(s, w) ==
    LET step(stack, entry) ==
            IF entry.student # s \/ entry.week # w THEN stack
            ELSE IF entry.action = "weekly.set" THEN Append(stack, entry.new)
            ELSE Front(stack)
        seeded == Unreversed(SeedUpdates, s, w)
    IN  FoldLeft(step,
                 IF seeded = {} THEN <<>> ELSE <<SeedUpdates[Newest(seeded)].hours>>,
                 changeLog)

\* The change log tells the whole story (spec.md, Change log): replaying it over
\* the seed rows gives the edits in force of every week, oldest first, each at the
\* height its row has among them.
LogReplaysToTables ==
    \A s \in Students, w \in Weeks :
        LET rows == Unreversed(updates, s, w)
            stack == ReplayedEdits(s, w)
        IN  /\ Len(stack) = Cardinality(rows)
            /\ \A k \in rows : stack[Cardinality({j \in rows : j <= k})] = updates[k].hours

============================================================================
