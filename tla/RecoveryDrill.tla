---------------------------- MODULE RecoveryDrill ----------------------------
(***************************************************************************)
(* scripts/recovery_drill.py and scripts/recovery_probe.py: a command that *)
(* takes a checkpoint of the running payments job, publishes a probe,      *)
(* waits for its effects, kills the TaskManager and waits for the job to   *)
(* be restored from that checkpoint and for the effects of a replay.       *)
(* Meanwhile the job takes checkpoints of its own and may fail by itself.  *)
(* All records of a probe have one key, so they share a partition.         *)
(***************************************************************************)
EXTENDS Integers, Sequences, FiniteSets

CONSTANTS
    Probe,           \* the records, in order: ids, a valid one comes twice
    Invalid,         \* ids of those that belong in the dead-letter topic, sent last
    MaxTopic,        \* bound: records in the partition
    MaxCheckpoints,  \* bound: checkpoints begun
    MaxAccidents     \* bound: failures of the job by itself

ASSUME DrillAssumption ==
    /\ Len(Probe) \in Nat \ {0}
    /\ Probe[Len(Probe)] \in Invalid /\ Invalid \subseteq {Probe[k] : k \in DOMAIN Probe}
    /\ {MaxTopic, MaxCheckpoints, MaxAccidents} \subseteq Nat

Offsets == 1 .. MaxTopic
NoCheckpoint == [id |-> 0, position |-> 0]

VARIABLES
    topic,      \* the partition from the probe on
    flink,      \* the Flink job as its REST interface and its tasks show it
    completed,  \* the completed checkpoints, in order
    begun,      \* checkpoints begun so far: the last one's id
    dead,       \* per offset, its deliveries to the dead-letter topic
    audit,      \* ids in processed_events
    reads,      \* per offset, how often the source has read it
    drill,      \* the command
    accidents

jobVars == <<flink, completed, begun, dead, audit, reads>>
drillVars == <<topic, jobVars, drill, accidents>>

\* state: what the JobManager says; tasks: whether they run; server: whether a
\* TaskManager does; buffer: offsets whose effect is not written; pending: the
\* checkpoint in progress; restored: the checkpoint of the latest restore.
FlinkJob ==
    [state : {"RUNNING", "RESTARTING"}, tasks : BOOLEAN, server : BOOLEAN, position : Nat,
     buffer : SUBSET Offsets, pending : [id : Nat, position : Nat], restored : Nat]

DrillSteps == {"start", "trigger", "publish", "first", "check", "kill", "revive", "restore",
               "restored", "second", "passed", "failed"}

\* next: the record of the probe to be sent; noted: the manifest, offsets of the
\* invalid records; baseline: checkpoint_id.
Drill == [pc : DrillSteps, next : Nat, noted : SUBSET Offsets, baseline : Nat]

DrillType ==
    /\ Len(topic) \in 0 .. MaxTopic
    /\ flink \in FlinkJob /\ flink.position <= Len(topic)
    /\ completed \in Seq([id : Nat, position : Nat]) /\ begun \in 0 .. MaxCheckpoints
    /\ dead \in [Offsets -> Nat] /\ reads \in [Offsets -> Nat]
    /\ audit \subseteq {Probe[k] : k \in DOMAIN Probe}
    /\ drill \in Drill /\ accidents \in 0 .. MaxAccidents

DrillInit ==
    /\ topic = <<>>
    /\ flink = [state |-> "RUNNING", tasks |-> TRUE, server |-> TRUE, position |-> 0,
              buffer |-> {}, pending |-> NoCheckpoint, restored |-> 0]
    /\ completed = <<>> /\ begun = 0
    /\ dead = [k \in Offsets |-> 0]
    /\ audit = {}
    /\ reads = [k \in Offsets |-> 0]
    /\ drill = [pc |-> "start", next |-> 1, noted |-> {}, baseline |-> 0]
    /\ accidents = 0

-----------------------------------------------------------------------------
(* The job.                                                                *)

Latest == IF completed = <<>> THEN NoCheckpoint ELSE completed[Len(completed)]

ReadProbe ==
    /\ flink.tasks /\ flink.position < Len(topic)
    /\ flink' = [flink EXCEPT !.position = @ + 1, !.buffer = @ \cup {flink.position + 1}]
    /\ reads' = [reads EXCEPT ![flink.position + 1] = @ + 1]
    /\ UNCHANGED <<topic, completed, begun, dead, audit, drill, accidents>>

\* A sink writes one record: to the dead-letter topic again, as an audit row once.
WriteEffect(k) ==
    /\ flink.tasks /\ k \in flink.buffer
    /\ flink' = [flink EXCEPT !.buffer = @ \ {k}]
    /\ IF topic[k] \in Invalid
       THEN dead' = [dead EXCEPT ![k] = @ + 1] /\ UNCHANGED audit
       ELSE audit' = audit \cup {topic[k]} /\ UNCHANGED dead
    /\ UNCHANGED <<topic, completed, begun, reads, drill, accidents>>

\* max-concurrent-checkpoints is 1; the checkpoint is of where the source is.
Begin ==
    /\ flink.tasks /\ flink.pending = NoCheckpoint /\ begun < MaxCheckpoints
    /\ begun' = begun + 1
    /\ flink' = [flink EXCEPT !.pending = [id |-> begun + 1, position |-> flink.position]]

\* The interval has run out.
BeginCheckpoint == Begin /\ UNCHANGED <<topic, completed, dead, audit, reads, drill, accidents>>

\* The sinks have written what came before the barrier.
CompleteCheckpoint ==
    /\ flink.tasks /\ flink.pending # NoCheckpoint
    /\ \A k \in flink.buffer : k > flink.pending.position
    /\ completed' = Append(completed, flink.pending)
    /\ flink' = [flink EXCEPT !.pending = NoCheckpoint]
    /\ UNCHANGED <<topic, begun, dead, audit, reads, drill, accidents>>

Lost == [flink EXCEPT !.tasks = FALSE, !.buffer = {}, !.pending = NoCheckpoint]

\* A task fails by itself.
FailJob ==
    /\ flink.tasks /\ accidents < MaxAccidents
    /\ flink' = [Lost EXCEPT !.state = "RESTARTING"]
    /\ accidents' = accidents + 1
    /\ UNCHANGED <<topic, completed, begun, dead, audit, reads, drill>>

\* The JobManager notices that the TaskManager is gone.
NoticeLoss ==
    /\ ~flink.tasks /\ flink.state = "RUNNING"
    /\ flink' = [flink EXCEPT !.state = "RESTARTING"]
    /\ UNCHANGED <<topic, completed, begun, dead, audit, reads, drill, accidents>>

RestoreJob ==
    /\ flink.state = "RESTARTING" /\ flink.server
    /\ flink' = [flink EXCEPT !.state = "RUNNING", !.tasks = TRUE, !.position = Latest.position,
                          !.restored = Latest.id]
    /\ UNCHANGED <<topic, completed, begun, dead, audit, reads, drill, accidents>>

JobNext ==
    \/ ReadProbe \/ (\E k \in Offsets : WriteEffect(k))
    \/ BeginCheckpoint \/ CompleteCheckpoint \/ FailJob \/ NoticeLoss \/ RestoreJob

-----------------------------------------------------------------------------
(* The command.                                                            *)

Go(pc) == drill' = [drill EXCEPT !.pc = pc]

\* wait_for(ready_job), POST .../checkpoints: the id is known once it completes.
Trigger ==
    /\ drill.pc = "start" /\ flink.state = "RUNNING"
    /\ Begin
    /\ drill' = [drill EXCEPT !.pc = "trigger", !.baseline = begun + 1]
    /\ UNCHANGED <<topic, completed, dead, audit, reads, accidents>>

\* completed_checkpoint
AwaitBaseline ==
    /\ drill.pc = "trigger" /\ \E k \in DOMAIN completed : completed[k].id = drill.baseline
    /\ Go("publish")
    /\ UNCHANGED <<topic, jobVars, accidents>>

\* producer.send(...).get of one record, acknowledged, or sent again by the
\* producer because the answer was lost; the offsets of invalid ones are noted.
PublishProbe ==
    /\ drill.pc = "publish" /\ Len(topic) < MaxTopic
    /\ LET record == Probe[drill.next]
           offset == Len(topic) + 1
       IN  /\ topic' = Append(topic, record)
           /\ \/ UNCHANGED drill
              \/ drill' = [drill EXCEPT
                    !.pc = IF drill.next = Len(Probe) THEN "first" ELSE "publish",
                    !.next = @ + 1,
                    !.noted = IF record \in Invalid THEN @ \cup {offset} ELSE @]
    /\ UNCHANGED <<jobVars, accidents>>

Expected == {Probe[k] : k \in DOMAIN Probe} \ Invalid

\* Mistake: one delivery is enough each time.
Mistake_Verified(deliveries) == Expected \subseteq audit /\ \A k \in drill.noted : dead[k] >= 1

\* verify: every audit row, and as many dead-letter deliveries of every record.
Verified(deliveries) ==
    Expected \subseteq audit /\ \A k \in drill.noted : dead[k] >= deliveries

VerifyFirst ==
    /\ drill.pc = "first" /\ Verified(1)
    /\ Go("check")
    /\ UNCHANGED <<topic, jobVars, accidents>>

\* require_pre_checkpoint
CheckNoNewer ==
    /\ drill.pc = "check"
    /\ Go(IF Latest.id = drill.baseline /\ flink.pending = NoCheckpoint THEN "kill" ELSE "failed")
    /\ UNCHANGED <<topic, jobVars, accidents>>

KillServer ==
    /\ drill.pc = "kill"
    /\ flink' = [Lost EXCEPT !.server = FALSE]
    /\ Go("revive")
    /\ UNCHANGED <<topic, completed, begun, dead, audit, reads, accidents>>

\* finally: docker compose start, and an error if the kill was one.
StartServer ==
    /\ drill.pc = "revive"
    /\ flink' = [flink EXCEPT !.server = TRUE]
    /\ Go("restore") \/ Go("failed")
    /\ UNCHANGED <<topic, completed, begun, dead, audit, reads, accidents>>

\* restored is asked for in two requests: for the state and for the checkpoint.
SeeRunning ==
    /\ drill.pc = "restore" /\ flink.state = "RUNNING"
    /\ Go("restored")
    /\ UNCHANGED <<topic, jobVars, accidents>>

SeeRestored ==
    /\ drill.pc = "restored"
    /\ Go(IF flink.restored = drill.baseline THEN "second" ELSE "restore")
    /\ UNCHANGED <<topic, jobVars, accidents>>

VerifySecond ==
    /\ drill.pc = "second" /\ Verified(2)
    /\ Go("passed")
    /\ UNCHANGED <<topic, jobVars, accidents>>

\* A deadline passes; a request, a command or an assertion fails.
GiveUpDrill ==
    /\ drill.pc \notin {"passed", "failed"}
    /\ Go("failed")
    /\ UNCHANGED <<topic, jobVars, accidents>>

CommandNext ==
    \/ Trigger \/ AwaitBaseline \/ PublishProbe \/ VerifyFirst \/ CheckNoNewer
    \/ KillServer \/ StartServer \/ SeeRunning \/ SeeRestored \/ VerifySecond \/ GiveUpDrill

DrillNext == JobNext \/ CommandNext

DrillSpec == DrillInit /\ [][DrillNext]_drillVars

-----------------------------------------------------------------------------
(* Properties.                                                             *)

\* "Repeated DLQ deliveries demonstrate the probe was replayed": when a drill
\* passes, the source has read every record of the probe twice since the baseline,
\* the valid ones and the copies of a lost answer too, of which the deliveries it
\* counts say nothing, although the job may have failed by itself and taken other
\* checkpoints at any moment. It does not say that the kill was the reason: a
\* failure between the publishing and the kill replays the probe just as well.
PassShowsReplay == drill.pc = "passed" => \A k \in DOMAIN topic : reads[k] >= 2
=============================================================================
