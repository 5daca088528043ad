------------------------------- MODULE Replay -------------------------------
(***************************************************************************)
(* The replay of archived payloads (scripts/lakehouse.py replay,           *)
(* replay_sql of lakehouse_ops.py): a command pins a snapshot of           *)
(* event_history, takes each record once, in order of its coordinates, and *)
(* publishes them one by one to a topic that is not a source; after every  *)
(* acknowledgement it rewrites a manifest.  The producer repeats a send    *)
(* whose answer is lost; a job restored from a checkpoint repeats rows.    *)
(***************************************************************************)
EXTENDS Integers, Sequences, FiniteSets

CONSTANTS
    Records,     \* record ids of the range asked for, in order of topic, partition, offset
    Damaged,     \* records whose stored payload does not decode
    Replays,     \* runs of the command, all to one target topic
    MaxForeign,  \* bound: messages others write to that topic
    MaxHistory,  \* bound: rows archived
    MaxRecords,  \* --max-records
    Retries,     \* the producer's
    Nil

ASSUME ReplayAssumption ==
    /\ Records \subseteq Nat /\ IsFiniteSet(Records) /\ Damaged \subseteq Records
    /\ MaxHistory \in Nat /\ MaxRecords \in Nat \ {0} /\ Retries \in Nat /\ MaxForeign \in Nat
    /\ Nil \notin Replays

VARIABLES
    rows,     \* event_history, the record of each row; a snapshot is its length by then
    target,   \* the topic: [record, by]
    replay,   \* per run, the process
    manifest  \* per run, the file: entries and status, or Nil

replayVars == <<rows, target, replay, manifest>>

ReplayPhases == {"idle", "planned", "send", "write", "flush", "closing", "failing", "done",
                 "refused", "dead"}

\* plan: the records, in order; acked: acknowledged so far, as [record, offset];
\* tries: sends of the record at hand that were not acknowledged.
Process == [pc : ReplayPhases, snapshot : Nat, plan : Seq(Records), tries : 0 .. Retries + 1,
            acked : Seq([record : Records, offset : Nat])]

ReplayType ==
    /\ rows \in Seq(Records)
    /\ target \in Seq([record : Records, by : Replays \cup {Nil}])
    /\ replay \in [Replays -> Process]
    /\ \A r \in Replays : manifest[r] # Nil =>
          /\ manifest[r].entries \in Seq([record : Records, offset : Nat])
          /\ manifest[r].status \in {"empty", "torn", "publishing", "acknowledged", "partial_or_unknown"}

ReplayInit ==
    /\ rows = <<>>
    /\ target = <<>>
    /\ replay = [r \in Replays |->
            [pc |-> "idle", snapshot |-> 0, plan |-> <<>>, tries |-> 0, acked |-> <<>>]]
    /\ manifest = [r \in Replays |-> Nil]

-----------------------------------------------------------------------------
\* The job commits a row, of a new record or of one it archived before.
ArchiveRow(record) ==
    /\ Len(rows) < MaxHistory
    /\ rows' = Append(rows, record)
    /\ UNCHANGED <<target, replay, manifest>>

\* Another producer writes to the topic.
Foreign(record) ==
    /\ Cardinality({i \in DOMAIN target : target[i].by = Nil}) < MaxForeign
    /\ target' = Append(target, [record |-> record, by |-> Nil])
    /\ UNCHANGED <<rows, replay, manifest>>

\* replay_sql, FOR VERSION AS OF and rn = 1: every record of the snapshot, once;
Pinned(snapshot) == {rows[k] : k \in 1 .. snapshot}

\* ORDER BY topic, partition, offset.
Before(records, x) == Cardinality({y \in records : y < x})

InOrder(records) ==
    [i \in 1 .. Cardinality(records) |-> CHOOSE x \in records : Before(records, x) = i - 1]

Planned(snapshot) == InOrder(Pinned(snapshot))

\* The query, its limit and the validation of every payload come before any send.
Plan(r, snapshot) ==
    /\ replay[r].pc = "idle"
    /\ LET plan == Planned(snapshot)
       IN  replay' = [replay EXCEPT ![r] = [@ EXCEPT !.snapshot = snapshot, !.plan = plan,
              !.pc = IF Len(plan) > MaxRecords \/ \E k \in DOMAIN plan : plan[k] \in Damaged
                     THEN "refused" ELSE "planned"]]
    /\ UNCHANGED <<rows, target, manifest>>

\* --execute: the report file is created and the producer, which may fail; without
\* it the plan is printed.
Open(r) ==
    /\ replay[r].pc = "planned"
    /\ \/ /\ manifest' = [manifest EXCEPT ![r] = [entries |-> <<>>, status |-> "empty"]]
          /\ \E pc \in IF replay[r].plan = <<>> THEN {"closing", "failing"} ELSE {"send"} :
                replay' = [replay EXCEPT ![r].pc = pc]
       \/ replay' = [replay EXCEPT ![r].pc = "refused"] /\ UNCHANGED manifest
    /\ UNCHANGED <<rows, target>>

NextRecord(r) == replay[r].plan[Len(replay[r].acked) + 1]

\* The broker appends the record, or does not; its answer comes back or is lost
\* and the producer sends again, until its retries or the timeout run out.
Send(r) ==
    /\ replay[r].pc = "send"
    /\ \/ target' = Append(target, [record |-> NextRecord(r), by |-> r])
       \/ UNCHANGED target
    /\ \/ /\ target' # target
          /\ replay' = [replay EXCEPT ![r] = [@ EXCEPT !.pc = "write", !.tries = 0,
                !.acked = Append(replay[r].acked, [record |-> NextRecord(r), offset |-> Len(target')])]]
       \/ /\ replay[r].tries < Retries
          /\ replay' = [replay EXCEPT ![r].tries = @ + 1]
       \/ replay' = [replay EXCEPT ![r] = [@ EXCEPT !.pc = "failing", !.tries = Retries + 1]]
    /\ UNCHANGED <<rows, manifest>>

\* A send that was given up reaches the topic while the producer closes, or even
\* after the process has ended.
AppendLate(r) ==
    /\ replay[r].pc \in {"failing", "done", "dead"} /\ replay[r].tries > 0
    /\ target' = Append(target, [record |-> NextRecord(r), by |-> r])
    /\ replay' = [replay EXCEPT ![r].tries = 0]
    /\ UNCHANGED <<rows, manifest>>

\* The manifest is rewritten in place: until that is flushed the file is neither
\* the old one nor the new.
Rewrite(r) ==
    /\ replay[r].pc = "write"
    /\ manifest' = [manifest EXCEPT ![r].status = "torn"]
    /\ replay' = [replay EXCEPT ![r].pc = "flush"]
    /\ UNCHANGED <<rows, target>>

Flush(r) ==
    /\ replay[r].pc = "flush"
    /\ manifest' = [manifest EXCEPT ![r] = [entries |-> replay[r].acked, status |-> "publishing"]]
    /\ replay' = [replay EXCEPT ![r].pc =
            IF Len(replay[r].acked) = Len(replay[r].plan) THEN "closing" ELSE "send"]
    /\ UNCHANGED <<rows, target>>

\* Mistake: a run that stopped in between reports success.
Mistake_FinalStatus(r) == "acknowledged"

FinalStatus(r) == IF replay[r].pc = "closing" THEN "acknowledged" ELSE "partial_or_unknown"

\* finally: the last write of the manifest.
Close(r) ==
    /\ replay[r].pc \in {"closing", "failing"}
    /\ manifest' = [manifest EXCEPT ![r] = [entries |-> replay[r].acked, status |-> FinalStatus(r)]]
    /\ replay' = [replay EXCEPT ![r].pc = "done"]
    /\ UNCHANGED <<rows, target>>

\* An interrupt between two steps is an error like any other; a process that is
\* killed writes nothing more, or half of its last write.
Interrupt(r) ==
    /\ replay[r].pc \in {"send", "write", "flush"}
    /\ replay' = [replay EXCEPT ![r].pc = "failing"]
    /\ UNCHANGED <<rows, target, manifest>>

Kill(r) ==
    /\ replay[r].pc \in {"planned", "send", "write", "flush", "closing", "failing"}
    /\ replay' = [replay EXCEPT ![r].pc = "dead"]
    /\ \/ UNCHANGED manifest
       \/ /\ replay[r].pc \in {"closing", "failing"}
          /\ manifest' = [manifest EXCEPT ![r].status = "torn"]
    /\ UNCHANGED <<rows, target>>

ReplayNext ==
    \/ \E record \in Records : ArchiveRow(record) \/ Foreign(record)
    \/ \E r \in Replays :
          \/ \E s \in 1 .. Len(rows) : Plan(r, s)
          \/ Open(r) \/ Send(r) \/ AppendLate(r) \/ Rewrite(r) \/ Flush(r) \/ Close(r) \/ Interrupt(r) \/ Kill(r)

ReplaySpec == ReplayInit /\ [][ReplayNext]_replayVars

-----------------------------------------------------------------------------
(* Properties.                                                             *)

\* A run has put in the topic the beginning of its plan, most records of it at most:
\* a record came when all records before it in the plan were there.
BeginsPlan(r, most) ==
    \A i \in DOMAIN target : target[i].by = r =>
        \E k \in DOMAIN replay[r].plan :
            /\ k <= most /\ target[i].record = replay[r].plan[k]
            /\ \A j \in 1 .. k - 1 : \E h \in 1 .. i - 1 :
                  target[h] = [record |-> replay[r].plan[j], by |-> r]

\* A manifest that is whole can be relied on after a failure of any kind: its
\* entries are the first records of the plan in their order, each at the offset it
\* names, and the topic has the plan up to there and one record more at most. One
\* that says acknowledged has every record of the pinned snapshot, once, whatever
\* was archived meanwhile.
ManifestIsTrue ==
    \A r \in Replays : manifest[r] # Nil /\ manifest[r].status # "torn" =>
        LET m == manifest[r]
            records == Pinned(replay[r].snapshot)
        IN  /\ Len(m.entries) <= Len(replay[r].plan)
            /\ \A k \in DOMAIN m.entries :
                  /\ m.entries[k].record = replay[r].plan[k]
                  /\ m.entries[k].offset \in DOMAIN target
                  /\ target[m.entries[k].offset] = [record |-> replay[r].plan[k], by |-> r]
            /\ BeginsPlan(r, Len(m.entries) + 1)
            /\ m.status = "acknowledged" =>
                  /\ {m.entries[k].record : k \in DOMAIN m.entries} = records
                  /\ Len(m.entries) = Cardinality(records)
=============================================================================
