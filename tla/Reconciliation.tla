--------------------------- MODULE Reconciliation ---------------------------
(***************************************************************************)
(* The lakehouse's revenue repair (scripts/lakehouse.py reconcile,         *)
(* lakehouse_ops.py): the job appends validated deliveries, late ones and  *)
(* repeated ones included; a command pins a snapshot of them, looks for    *)
(* conflicting ids and submits one MERGE into revenue_reconciled.  The     *)
(* server goes on when the client gives up, so a MERGE reported unknown    *)
(* may commit while the next command is at work.                           *)
(***************************************************************************)
EXTENDS Integers, Sequences, FiniteSets

CONSTANTS
    Deliveries,  \* rows of validated_events: an id and its event time; the money
                 \* of a payment is left out, and so are other currencies
    Sizes,       \* values of --window-seconds
    TimeBound,        \* bound: event times are below it
    Commands,    \* runs of the command
    None,
    MaxArchive   \* bound: deliveries archived

Times == 0 .. TimeBound - 1

\* (window_start, window_end): a window of each size.
Groups == {g \in [start : Times, size : Sizes] : g.start % g.size = 0}

\* Aligned to the window size.
Ranges == {r \in [from : Times, until : 1 .. TimeBound, size : Sizes] :
              r.from < r.until /\ r.from % r.size = 0 /\ r.until % r.size = 0}

ASSUME ReconcileAssumption ==
    /\ \A d \in Deliveries : d.at \in Times
    /\ Sizes \subseteq Nat \ {0} /\ TimeBound \in Nat \ {0}
    /\ MaxArchive \in Nat

VARIABLES
    archive,    \* validated_events; a snapshot id is its length by then
    table,      \* revenue_reconciled: rows, whose key nothing enforces
    history,    \* the MERGEs that committed, in order: snapshots of the table
    query,      \* per command, its MERGE on the server
    job         \* per command, what the client does

reconcileVars == <<archive, table, history, query, job>>

Phases == {"idle", "check", "submit", "wait", "result", "committed", "unknown", "refused"}
Job == [pc : Phases, snapshot : Nat, range : Ranges \cup {None}, result : Nat]
Row == [group : Groups, count : Nat \ {0}, source : Nat]
NoJob == [pc |-> "idle", snapshot |-> 0, range |-> None, result |-> 0]

\* base, seen: the version of the table the MERGE was planned on and its rows.
ReconcileType ==
    /\ archive \in Seq(Deliveries)
    /\ table \subseteq Row
    /\ history \in Seq([by : Commands, snapshot : Nat, range : Ranges])
    /\ query \in [Commands -> [base : Nat, seen : SUBSET Row, snapshot : Nat, range : Ranges] \cup {None}]
    /\ job \in [Commands -> Job]

ReconcileInit ==
    /\ archive = <<>>
    /\ table = {}
    /\ history = <<>>
    /\ query = [c \in Commands |-> None]
    /\ job = [c \in Commands |-> NoJob]

-----------------------------------------------------------------------------
\* conflicts: ids with deliveries that differ.
Conflicts(snapshot) ==
    {archive[j].id : j \in {k \in 1 .. snapshot : \E i \in 1 .. snapshot :
                                archive[i].id = archive[k].id /\ archive[i] # archive[k]}}

\* canonical, counted per group: the ids of its payments, each once, those in
\* conflict not at all.
Canonical(snapshot, g) ==
    Cardinality({archive[k].id : k \in {j \in 1 .. snapshot :
                                          archive[j].at \in g.start .. g.start + g.size - 1}}
                \ Conflicts(snapshot))

\* A window of any size that starts in the range.
Covers(range, g) == range.from <= g.start /\ g.start < range.until

\* desired: a row of every group of the size asked for in the range that the snapshot has.
Desired(snapshot, range) ==
    {[group |-> g, count |-> Canonical(snapshot, g), source |-> snapshot] :
        g \in {h \in Groups : h.size = range.size /\ Covers(range, h) /\ Canonical(snapshot, h) # 0}}

Within(rows, range) == {r \in rows : Covers(range, r.group)}

\* The MERGE: the rows it saw in the range are updated or deleted, and groups it
\* saw no row of are inserted.
Merged(q) == (table \ Within(q.seen, q.range)) \cup Desired(q.snapshot, q.range)

-----------------------------------------------------------------------------
\* A checkpoint of the job commits another delivery.
Archive(d) ==
    /\ Len(archive) < MaxArchive
    /\ archive' = Append(archive, d)
    /\ UNCHANGED <<table, history, query, job>>

\* The current snapshot, or the one the operator names.
Pin(c, snapshot, range) ==
    /\ job[c].pc = "idle"
    /\ job' = [job EXCEPT ![c] = [pc |-> "check", snapshot |-> snapshot, range |-> range, result |-> 0]]
    /\ UNCHANGED <<archive, table, history, query>>

\* Conflicting ids refuse it; without --execute it only prints the MERGE.
Check(c) ==
    /\ job[c].pc = "check"
    /\ \/ Conflicts(job[c].snapshot) = {} /\ job' = [job EXCEPT ![c].pc = "submit"]
       \/ job' = [job EXCEPT ![c].pc = "refused"]
    /\ UNCHANGED <<archive, table, history, query>>

Submit(c) ==
    /\ job[c].pc = "submit"
    /\ query' = [query EXCEPT ![c] = [base |-> Len(history), seen |-> table,
                                      snapshot |-> job[c].snapshot, range |-> job[c].range]]
    /\ job' = [job EXCEPT ![c].pc = "wait"]
    /\ UNCHANGED <<archive, table, history>>

\* Mistake: a MERGE commits over what committed since it began.
Mistake_Current(q) == TRUE

\* Iceberg refuses a commit on a version of the table that is not the current one.
Current(q) == q.base = Len(history)

\* The server commits a MERGE: its client, if it still waits, hears of it.
CommitMerge(c) ==
    /\ query[c] # None /\ Current(query[c])
    /\ table' = Merged(query[c])
    /\ history' = Append(history, [by |-> c, snapshot |-> query[c].snapshot, range |-> query[c].range])
    /\ query' = [query EXCEPT ![c] = None]
    /\ job' = IF job[c].pc = "wait" THEN [job EXCEPT ![c].pc = "result"] ELSE job
    /\ UNCHANGED archive

\* The MERGE fails, or the client's DELETE stops it.
AbortMerge(c) ==
    /\ query[c] # None
    /\ query' = [query EXCEPT ![c] = None]
    /\ job' = IF job[c].pc = "wait" THEN [job EXCEPT ![c].pc = "unknown"] ELSE job
    /\ UNCHANGED <<archive, table, history>>

\* A timeout, a lost answer or an interrupt: nothing is known of the MERGE.
GiveUp(c) ==
    /\ job[c].pc \in {"submit", "wait", "result"}
    /\ job' = [job EXCEPT ![c].pc = "unknown"]
    /\ UNCHANGED <<archive, table, history, query>>

\* Mistake: a MERGE that was accepted counts as committed.
Mistake_Report(c) ==
    /\ job[c].pc \in {"wait", "result"}
    /\ job' = [job EXCEPT ![c].pc = "committed", ![c].result = Len(history)]
    /\ UNCHANGED <<archive, table, history, query>>

\* current_snapshot('revenue_reconciled') for the report.
Report(c) ==
    /\ job[c].pc = "result"
    /\ job' = [job EXCEPT ![c].pc = "committed", ![c].result = Len(history)]
    /\ UNCHANGED <<archive, table, history, query>>

ReconcileNext ==
    \/ \E d \in Deliveries : Archive(d)
    \/ \E c \in Commands :
          \/ \E s \in 1 .. Len(archive), range \in Ranges : Pin(c, s, range)
          \/ Check(c) \/ Submit(c) \/ CommitMerge(c) \/ AbortMerge(c) \/ GiveUp(c) \/ Report(c)

ReconcileSpec == ReconcileInit /\ [][ReconcileNext]_reconcileVars

-----------------------------------------------------------------------------
(* Properties.                                                             *)

Covering(g) == {k \in DOMAIN history : Covers(history[k].range, g)}

\* What the last MERGE over a window said stands, whatever the job archived and
\* whichever commands gave up since: a group has one row, with the count that the
\* pinned snapshot had of it and that snapshot's name, or none if it had none.
GroupsHoldTheirMerge ==
    \A g \in Groups :
        {r \in table : r.group = g} =
            IF Covering(g) = {} THEN {}
            ELSE LET k == CHOOSE k \in Covering(g) : \A j \in Covering(g) : j <= k
                 IN  {r \in Desired(history[k].snapshot, history[k].range) : r.group = g}

\* A command that reports committed has its MERGE in the table, from a snapshot
\* without conflicts, and the result it names is that version or a later one.
CommittedIsMerged ==
    \A c \in Commands : job[c].pc = "committed" =>
        \E k \in 1 .. job[c].result :
            /\ history[k] = [by |-> c, snapshot |-> job[c].snapshot, range |-> job[c].range]
            /\ Conflicts(history[k].snapshot) = {}
=============================================================================
