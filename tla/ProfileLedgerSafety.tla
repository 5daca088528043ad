------------------------- MODULE ProfileLedgerSafety -------------------------
(***************************************************************************)
(* The safety of ProfileLedger for every value of its constants: no record *)
(* is left behind, refusals are justified, and every step of the ledger is *)
(* a step of the exactly-once ledger or a stutter.                         *)
(***************************************************************************)
EXTENDS ProfileLedgerProofs

-----------------------------------------------------------------------------
(* The inductive invariant, part two: what the locks protect.              *)

HasReceipt(s) == session[s].pc \in {"identity", "compare", "apply"}
HasIdentity(s) == session[s].pc \in {"compare", "apply"}

\* The unique index lets one session at a time write the receipt of a
\* coordinate, and that session found none.
ReceiptsLocked ==
    \A s \in Sessions : HasReceipt(s) =>
        /\ receipts[session[s].at].outcome = None
        /\ \A t \in Sessions : HasReceipt(t) /\ session[t].at = session[s].at => t = s

\* The advisory lock serializes the decisions about an id, so an id found free
\* is still free when its row is written.
IdsLocked ==
    \A s \in Sessions : HasIdentity(s) =>
        /\ session[s].pc = "apply" => ids[session[s].record.id].state # "live"
        /\ \A t \in Sessions :
              HasIdentity(t) /\ session[t].record.id = session[s].record.id => t = s

\* A task that is told its record is committed can rely on the receipt.
AcknowledgedIsDurable ==
    \A s \in Sessions : session[s].pc = "committed" =>
        /\ receipts[session[s].at].outcome # None
        /\ receipts[session[s].at].payload = session[s].record

\* A session, abandoned or not, works on a record whose predecessors in the
\* partition all have receipts.
PredecessorsSettled ==
    \A s \in Sessions : session[s].pc # "idle" =>
        \A m \in 0 .. (session[s].at[2] - 1) : receipts[<<session[s].at[1], m>>].outcome # None

\* A row of event_ids was left by an applied record with that body.
IdsWitnessed ==
    \A e \in EventIds : ids[e].state # "absent" =>
        \E c \in Coordinates :
            /\ receipts[c].outcome = "applied"
            /\ receipts[c].payload = ids[e].event
            /\ receipts[c].payload.id = e

SInv == /\ ReceiptsLocked /\ IdsLocked
        /\ AcknowledgedIsDurable /\ PredecessorsSettled
        /\ NoRecordSkipped
        /\ IdsWitnessed

SessionInv == ReceiptsLocked /\ IdsLocked /\ AcknowledgedIsDurable /\ PredecessorsSettled

\* Nobody holds anything to begin with.
LEMMA InitSInv == Init => SInv
BY DEF Init, SInv, ReceiptsLocked, IdsLocked, AcknowledgedIsDurable, PredecessorsSettled,
       NoRecordSkipped, IdsWitnessed, HasReceipt, HasIdentity, Idle, NoIdentity

-----------------------------------------------------------------------------
(* Facts about steps.                                                      *)

\* Sessions that only end, under an unchanged ledger, disturb nothing.
LEMMA SessionsEnd ==
    ASSUME TInv, SInv, UNCHANGED <<receipts, ids>>,
           \A s \in Sessions : session'[s] = session[s] \/ session'[s] = Idle
    PROVE  SessionInv' /\ IdsWitnessed'
<1> USE DEF SInv, Idle
<1>1. ReceiptsLocked'
  BY DEF ReceiptsLocked, HasReceipt
<1>2. IdsLocked'
  BY DEF IdsLocked, HasIdentity
<1>3. AcknowledgedIsDurable' /\ PredecessorsSettled'
  BY DEF AcknowledgedIsDurable, PredecessorsSettled
<1>4. IdsWitnessed'
  BY DEF IdsWitnessed
<1> QED
  BY <1>1, <1>2, <1>3, <1>4 DEF SessionInv

ReceiptsKept == \A c \in Coordinates : receipts[c].outcome # None => receipts'[c] = receipts[c]

\* New receipts take nothing away from what the source has left behind.
LEMMA PositionsStand ==
    ASSUME TInv, SInv, ReceiptsKept, UNCHANGED <<log, position, checkpoint>>
    PROVE  NoRecordSkipped'
<1> SUFFICES ASSUME NEW p \in Partitions, NEW i \in 1 .. MaxLog,
                    i <= position[p] \/ i <= checkpoint[p]
             PROVE  /\ i <= Len(log[p])
                    /\ receipts'[<<p, i - 1>>].outcome # None
                    /\ receipts'[<<p, i - 1>>].payload = log[p][i]
  BY DEF NoRecordSkipped
<1>1. <<p, i - 1>> \in Coordinates
  BY LedgerAssumption DEF Coordinates, Offsets
<1> QED
  BY <1>1 DEF SInv, NoRecordSkipped, ReceiptsKept

\* Where a session works.
LEMMA SessionPlace ==
    ASSUME TInv, NEW s \in Sessions, session[s].pc # "idle"
    PROVE  /\ session[s].at \in Coordinates
           /\ session[s].at = <<session[s].at[1], session[s].at[2]>>
           /\ session[s].at[1] \in Partitions
           /\ session[s].at[2] \in Offsets
           /\ session[s].record \in Records
           /\ HasReceipt(s) => session[s].record \in Events /\ session[s].record.id \in EventIds
<1>1. session[s] \in [pc: PCs, at: Coordinates, record: Records]
  BY DEF TInv, TypeOK, SessionType, Idle
<1>2. HasReceipt(s) => session[s].record \in Events
  BY DEF TInv, TypeOK, SessionType, HasReceipt
<1> QED
  BY <1>1, <1>2, LedgerAssumption DEF Coordinates, Event

-----------------------------------------------------------------------------
(* The job's steps.                                                        *)

\* A new record lies ahead of every position.
LEMMA PublishSafe ==
    ASSUME TInv, SInv, NEW p \in Partitions, NEW r \in Records, Publish(p, r)
    PROVE  SInv'
<1> USE DEF Publish, flink, identity
<1>1. SessionInv' /\ IdsWitnessed'
  BY SessionsEnd
<1>2. NoRecordSkipped'
  <2>1. ASSUME NEW q \in Partitions, NEW i \in 1 .. MaxLog, i <= Len(log[q])
        PROVE  i <= Len(log'[q]) /\ log'[q][i] = log[q][i]
    BY <2>1, LedgerAssumption DEF TInv, TypeOK, KafkaType
  <2> QED
    BY <2>1 DEF SInv, NoRecordSkipped
<1> QED
  BY <1>1, <1>2 DEF SInv, SessionInv

\* A map() call takes the record at the position of its split.
LEMMA MapSafe ==
    ASSUME TInv, SInv, NEW p \in Partitions, NEW s \in Sessions, Map(p, s)
    PROVE  SInv'
<1> USE DEF Map, kafka
<1> DEFINE new == [pc |-> "receipt", at |-> <<p, position[p]>>, record |-> log[p][position[p] + 1]]
<1>0. /\ session' = [session EXCEPT ![s] = new]
      /\ session'[s] = new
      /\ \A t \in Sessions \ {s} : session'[t] = session[t]
  BY DEF TInv, TypeOK, SessionType
<1>1. ReceiptsLocked'
  BY <1>0 DEF SInv, ReceiptsLocked, HasReceipt
<1>2. IdsLocked'
  <2>1. \A e \in EventIds : ids[e].state # "live" => ids'[e].state # "live"
    BY DEF Pruned, NoIdentity
  <2>2. \A t \in Sessions : HasIdentity(t)' => HasIdentity(t) /\ session'[t] = session[t]
    BY <1>0 DEF HasIdentity
  <2>3. \A t \in Sessions : HasIdentity(t) => session[t].record.id \in EventIds
    BY SessionPlace DEF HasReceipt, HasIdentity
  <2> QED
    BY <2>1, <2>2, <2>3 DEF SInv, IdsLocked
<1>3. AcknowledgedIsDurable'
  BY <1>0 DEF SInv, AcknowledgedIsDurable
<1>4. PredecessorsSettled'
  <2>1. \A m \in 0 .. (position[p] - 1) : receipts[<<p, m>>].outcome # None
    <3> SUFFICES ASSUME NEW m \in 0 .. (position[p] - 1) PROVE receipts[<<p, m>>].outcome # None
      OBVIOUS
    <3>1. position[p] \in 0 .. MaxLog
      BY DEF TInv, TypeOK, FlinkType
    <3>2. m + 1 \in 1 .. MaxLog /\ m + 1 <= position[p] /\ (m + 1) - 1 = m
      BY <3>1, LedgerAssumption
    <3> QED
      BY <3>2 DEF SInv, NoRecordSkipped
  <2> QED
    BY <1>0, <2>1 DEF SInv, PredecessorsSettled
<1>5. NoRecordSkipped'
  BY PositionsStand DEF ReceiptsKept
<1>6. IdsWitnessed'
  <2>1. \A e \in EventIds : ids'[e].state # "absent" => ids'[e] = ids[e]
    BY DEF Pruned, NoIdentity
  <2> QED
    BY <2>1 DEF SInv, IdsWitnessed
<1> QED
  BY <1>1, <1>2, <1>3, <1>4, <1>5, <1>6 DEF SInv

\* map() returns only for a record with a receipt of its own, so its split may move on.
LEMMA ReturnSafe ==
    ASSUME TInv, SInv, NEW p \in Partitions, Return(p)
    PROVE  SInv'
<1> USE DEF Return, kafka, identity
<1>0. task[p] \in Sessions
  BY DEF TInv, TypeOK, FlinkType
<1>1. SessionInv' /\ IdsWitnessed'
  BY <1>0, SessionsEnd DEF TInv, TypeOK, SessionType
<1>2. NoRecordSkipped'
  <2>1. /\ receipts[<<p, position[p]>>].outcome # None
        /\ receipts[<<p, position[p]>>].payload = log[p][position[p] + 1]
    BY <1>0 DEF SInv, AcknowledgedIsDurable, TInv, TasksWait
  <2>2. position[p] \in Nat /\ position[p] < Len(log[p]) /\ Len(log[p]) \in Nat
    BY LedgerAssumption DEF TInv, TasksWait, TypeOK, FlinkType, KafkaType
  <2>3. position' = [position EXCEPT ![p] = @ + 1] /\ position \in [Partitions -> 0 .. MaxLog]
    BY DEF TInv, TypeOK, FlinkType
  <2> SUFFICES ASSUME NEW q \in Partitions, NEW i \in 1 .. MaxLog,
                      i <= position'[q] \/ i <= checkpoint[q]
               PROVE  /\ i <= Len(log[q])
                      /\ receipts[<<q, i - 1>>].outcome # None
                      /\ receipts[<<q, i - 1>>].payload = log[q][i]
    BY DEF NoRecordSkipped
  <2>4. CASE i <= position[q] \/ i <= checkpoint[q]
    BY <2>4 DEF SInv, NoRecordSkipped
  <2>5. CASE q = p /\ i = position[p] + 1
    <3>1. i - 1 = position[p] /\ i <= Len(log[p])
      BY <2>2, <2>5
    <3> QED
      BY <2>1, <2>5, <3>1
  <2> QED
    BY <2>2, <2>3, <2>4, <2>5, LedgerAssumption
<1> QED
  BY <1>1, <1>2 DEF SInv, SessionInv

\* A new position is the checkpoint's or the start of the partition, a new
\* checkpoint lies behind the position.
LEMMA JobSafe ==
    ASSUME TInv, SInv,
           \/ Checkpoint \/ Restart \/ RecreateTopic
           \/ \E restore \in BOOLEAN : Resubmit(restore)
    PROVE  SInv'
<1>1. SessionInv' /\ IdsWitnessed'
  BY SessionsEnd DEF Checkpoint, Restart, RecreateTopic, Resubmit, identity
<1>2. NoRecordSkipped'
  <2>1. /\ position \in [Partitions -> 0 .. MaxLog] /\ checkpoint \in [Partitions -> 0 .. MaxLog]
        /\ NoRecordSkipped
    BY DEF TInv, TypeOK, FlinkType, SInv
  <2>2. CASE Checkpoint
    <3>1. /\ \A q \in Partitions : checkpoint'[q] \in 0 .. MaxLog /\ checkpoint'[q] <= position[q]
          /\ position' = position /\ log' = log /\ receipts' = receipts
      BY <2>1, <2>2 DEF Checkpoint, kafka, identity
    <3>2. ASSUME NEW p \in Partitions, NEW i \in 1 .. MaxLog, i <= position'[p] \/ i <= checkpoint'[p]
          PROVE  i <= position[p]
      BY <2>1, <3>1, <3>2, LedgerAssumption
    <3> QED
      BY <2>1, <3>1, <3>2 DEF NoRecordSkipped
  <2>3. CASE Restart
    BY <2>1, <2>3 DEF Restart, NoRecordSkipped, kafka, identity
  <2>4. CASE RecreateTopic
    <3>1. \A p \in Partitions : position'[p] = 0 /\ checkpoint'[p] = 0
      BY <2>4 DEF RecreateTopic
    <3> QED
      BY <3>1 DEF NoRecordSkipped
  <2>5. ASSUME NEW restore \in BOOLEAN, Resubmit(restore)
        PROVE  NoRecordSkipped'
    <3>1. /\ position' = checkpoint' /\ log' = log /\ receipts' = receipts
          /\ \/ checkpoint' = checkpoint
             \/ \A p \in Partitions : checkpoint'[p] = 0
      BY <2>5 DEF Resubmit, kafka, identity
    <3> QED
      BY <2>1, <3>1 DEF NoRecordSkipped
  <2> QED
    BY <2>2, <2>3, <2>4, <2>5
<1> QED
  BY <1>1, <1>2 DEF SInv, SessionInv

\* A job that fails or is cancelled abandons its sessions as they stand.
LEMMA AbandonSafe ==
    ASSUME TInv, SInv, Fail \/ Cancel
    PROVE  SInv'
<1> USE DEF Fail, Cancel, Abandon, kafka, identity
<1>1. SessionInv' /\ IdsWitnessed'
  BY SessionsEnd
<1>2. NoRecordSkipped'
  BY PositionsStand DEF ReceiptsKept
<1> QED
  BY <1>1, <1>2 DEF SInv, SessionInv

\* An id that runs out takes no receipt with it, and nobody holds it.
LEMMA LapseSafe ==
    ASSUME TInv, SInv, NEW e \in EventIds, Lapse(e)
    PROVE  SInv'
<1> USE DEF Lapse, kafka, flink
<1>1. \A d \in EventIds :
         /\ ids[d].state # "live" => ids'[d].state # "live"
         /\ ids'[d].state # "absent" => ids[d].state # "absent" /\ ids'[d].event = ids[d].event
  BY DEF TInv, TypeOK, IdentityType
<1>2. IdsLocked'
  <2>1. \A t \in Sessions : HasIdentity(t) => session[t].record.id \in EventIds
    BY SessionPlace DEF HasReceipt, HasIdentity
  <2> QED
    BY <1>1, <2>1 DEF SInv, IdsLocked, HasIdentity
<1>3. ReceiptsLocked' /\ AcknowledgedIsDurable' /\ PredecessorsSettled'
  BY DEF SInv, ReceiptsLocked, HasReceipt, AcknowledgedIsDurable, PredecessorsSettled
<1>4. NoRecordSkipped'
  BY PositionsStand DEF ReceiptsKept
<1>5. IdsWitnessed'
  BY <1>1 DEF SInv, IdsWitnessed
<1> QED
  BY <1>2, <1>3, <1>4, <1>5 DEF SInv

-----------------------------------------------------------------------------
(* The steps of a session.                                                 *)

\* What a rolled-back session held is free again, and it wrote nothing.
LEMMA RollBackSafe ==
    ASSUME TInv, SInv, NEW s \in Sessions, RollBack(s)
    PROVE  SInv'
<1> USE DEF RollBack, kafka, identity
<1>1. \A t \in Sessions : session'[t] = session[t] \/ session'[t] = Idle
  BY Zenon
<1>2. SessionInv' /\ IdsWitnessed'
  BY <1>1, SessionsEnd
<1>3. NoRecordSkipped'
  BY PositionsStand DEF ReceiptsKept
<1> QED
  BY <1>2, <1>3 DEF SInv, SessionInv

\* What a session that ends or commits looks like afterwards.
LEMMA CommitShape ==
    ASSUME TInv, NEW s \in Sessions, session[s].pc # "idle", Commit(s)
    PROVE  /\ \A t \in Sessions \ {s} : session'[t] = session[t]
           /\ session'[s] = Idle \/ session'[s] = [session[s] EXCEPT !.pc = "committed"]
           /\ session'[s].pc \in {"idle", "committed"}
           /\ session'[s].pc = "committed" =>
                 session'[s].at = session[s].at /\ session'[s].record = session[s].record
<1>1. session[s] \in [pc: PCs, at: Coordinates, record: Records]
  BY DEF TInv, TypeOK, SessionType, Idle
<1> QED
  BY <1>1 DEF Commit, TInv, TypeOK, SessionType, Idle

\* A session without a receipt of its own commits: an invalid record, or the
\* replay of a record that has its receipt.
LEMMA EarlyCommitSafe ==
    ASSUME TInv, SInv, NEW s \in Sessions, session[s].pc = "receipt",
           \A t \in Sessions : ~HoldsReceipt(t, session[s].at),
           \/ /\ receipts[session[s].at].outcome = None
              /\ receipts' = [receipts EXCEPT ![session[s].at] =
                     [payload |-> session[s].record, outcome |-> "invalid"]]
           \/ /\ receipts[session[s].at].outcome # None
              /\ SamePayload(session[s].at, session[s].record)
              /\ UNCHANGED receipts,
           Commit(s), UNCHANGED <<kafka, flink, ids>>
    PROVE  SInv'
<1> USE DEF kafka, flink
<1>a. /\ \A t \in Sessions \ {s} : session'[t] = session[t]
      /\ session'[s].pc \in {"idle", "committed"}
      /\ session'[s].pc = "committed" =>
            session'[s].at = session[s].at /\ session'[s].record = session[s].record
  BY CommitShape
<1>b. \A t \in Sessions : session[t].pc # "idle" =>
         session[t].at \in Coordinates /\ session[t].at[1] \in Partitions /\ session[t].at[2] \in Offsets
  BY SessionPlace
<1>0. receipts \in [Coordinates -> [payload: Records, outcome: Outcomes \cup {None}]]
  BY DEF TInv, TypeOK, IdentityType
<1>1. ReceiptsKept
  BY <1>0 DEF ReceiptsKept
<1>2. receipts'[session[s].at].outcome # None /\ receipts'[session[s].at].payload = session[s].record
  BY <1>0, <1>b DEF SamePayload, None
<1>3. ReceiptsLocked'
  BY <1>0, <1>a, <1>b DEF SInv, ReceiptsLocked, HasReceipt, HoldsReceipt
<1>4. IdsLocked'
  BY <1>a DEF SInv, IdsLocked, HasIdentity
<1>5. AcknowledgedIsDurable'
  BY <1>1, <1>2, <1>a, <1>b DEF SInv, AcknowledgedIsDurable, ReceiptsKept
<1>6. PredecessorsSettled'
  <2> SUFFICES ASSUME NEW t \in Sessions, session'[t].pc # "idle",
                      NEW m \in 0 .. (session'[t].at[2] - 1)
               PROVE  receipts'[<<session'[t].at[1], m>>].outcome # None
    BY DEF PredecessorsSettled
  <2>1. session[t].pc # "idle" /\ session'[t].at = session[t].at
    BY <1>a
  <2>2. <<session[t].at[1], m>> \in Coordinates
    BY <1>b, <2>1, LedgerAssumption DEF Coordinates, Offsets
  <2> QED
    BY <1>1, <2>1, <2>2 DEF SInv, PredecessorsSettled, ReceiptsKept
<1>7. NoRecordSkipped'
  BY <1>1, PositionsStand
<1>8. IdsWitnessed'
  BY <1>0, <1>1, <1>b DEF SInv, IdsWitnessed, ReceiptsKept, None
<1> QED
  BY <1>3, <1>4, <1>5, <1>6, <1>7, <1>8 DEF SInv

\* A session advances in its transaction: nothing is written yet.
LEMMA AdvanceSafe ==
    ASSUME TInv, SInv, NEW s \in Sessions,
           NEW pc \in {"identity", "compare", "apply"}, GoTo(s, pc),
           \/ /\ session[s].pc = "receipt" /\ pc = "identity"
              /\ receipts[session[s].at].outcome = None
              /\ \A t \in Sessions : ~HoldsReceipt(t, session[s].at)
           \/ /\ session[s].pc = "identity" /\ pc # "identity"
              /\ pc = "apply" => ids[session[s].record.id].state # "live"
              /\ \A t \in Sessions : ~HoldsIdentity(t, session[s].record.id),
           UNCHANGED <<kafka, flink, identity>>
    PROVE  SInv'
<1> USE DEF kafka, flink, identity
<1>0. /\ \A t \in Sessions \ {s} : session'[t] = session[t]
      /\ session'[s].pc = pc
      /\ session'[s].at = session[s].at /\ session'[s].record = session[s].record
  BY DEF GoTo, TInv, TypeOK, SessionType, Idle
<1>1. ReceiptsLocked'
  BY <1>0 DEF SInv, ReceiptsLocked, HasReceipt, HoldsReceipt
<1>2. IdsLocked'
  BY <1>0 DEF SInv, IdsLocked, HasIdentity, HoldsIdentity
<1>3. AcknowledgedIsDurable' /\ PredecessorsSettled'
  BY <1>0 DEF SInv, AcknowledgedIsDurable, PredecessorsSettled
<1>4. NoRecordSkipped'
  BY PositionsStand DEF ReceiptsKept
<1>5. IdsWitnessed'
  BY DEF SInv, IdsWitnessed
<1> QED
  BY <1>1, <1>2, <1>3, <1>4, <1>5 DEF SInv

\* A session that has its coordinate to itself writes the receipt and commits.
LEMMA WriteReceipt ==
    ASSUME TInv, SInv, NEW s \in Sessions, HasReceipt(s), NEW outcome \in Outcomes,
           receipts' = [receipts EXCEPT ![session[s].at] =
               [payload |-> session[s].record, outcome |-> outcome]],
           Commit(s), UNCHANGED <<kafka, flink>>
    PROVE  /\ ReceiptsKept
           /\ receipts'[session[s].at] = [payload |-> session[s].record, outcome |-> outcome]
           /\ ReceiptsLocked' /\ AcknowledgedIsDurable' /\ PredecessorsSettled' /\ NoRecordSkipped'
<1> USE DEF kafka, flink
<1>a. /\ \A t \in Sessions \ {s} : session'[t] = session[t]
      /\ session'[s].pc \in {"idle", "committed"}
      /\ session'[s].pc = "committed" =>
            session'[s].at = session[s].at /\ session'[s].record = session[s].record
  BY CommitShape DEF HasReceipt
<1>b. \A t \in Sessions : session[t].pc # "idle" =>
         session[t].at \in Coordinates /\ session[t].at[1] \in Partitions /\ session[t].at[2] \in Offsets
  BY SessionPlace
<1>0. /\ receipts \in [Coordinates -> [payload: Records, outcome: Outcomes \cup {None}]]
      /\ session[s].at \in Coordinates /\ outcome # None
  BY <1>b DEF TInv, TypeOK, IdentityType, HasReceipt, Outcomes, None
<1>1. receipts'[session[s].at] = [payload |-> session[s].record, outcome |-> outcome]
  BY <1>0
<1>2. ReceiptsKept
  BY <1>0 DEF ReceiptsKept, SInv, ReceiptsLocked
<1>3. ReceiptsLocked'
  BY <1>0, <1>a, <1>b DEF SInv, ReceiptsLocked, HasReceipt
<1>4. AcknowledgedIsDurable'
  BY <1>0, <1>1, <1>2, <1>a, <1>b DEF SInv, AcknowledgedIsDurable, ReceiptsKept
<1>5. PredecessorsSettled'
  <2> SUFFICES ASSUME NEW t \in Sessions, session'[t].pc # "idle",
                      NEW m \in 0 .. (session'[t].at[2] - 1)
               PROVE  receipts'[<<session'[t].at[1], m>>].outcome # None
    BY DEF PredecessorsSettled
  <2>1. session[t].pc # "idle" /\ session'[t].at = session[t].at
    BY <1>a DEF HasReceipt
  <2>2. <<session[t].at[1], m>> \in Coordinates
    BY <1>b, <2>1, LedgerAssumption DEF Coordinates, Offsets
  <2> QED
    BY <1>2, <2>1, <2>2 DEF SInv, PredecessorsSettled, ReceiptsKept
<1>6. NoRecordSkipped'
  BY <1>2, PositionsStand
<1> QED
  BY <1>1, <1>2, <1>3, <1>4, <1>5, <1>6

\* The session that holds coordinate and id writes both.
LEMMA ApplySafe ==
    ASSUME TInv, SInv, NEW s \in Sessions, Apply(s)
    PROVE  SInv'
<1> DEFINE e == session[s].record
<1>0. /\ HasReceipt(s) /\ HasIdentity(s) /\ "applied" \in Outcomes
      /\ e \in Events /\ e.id \in EventIds /\ session[s].at \in Coordinates
  BY SessionPlace DEF Apply, HasReceipt, HasIdentity, Outcomes
<1>1. /\ ReceiptsKept
      /\ receipts'[session[s].at] = [payload |-> e, outcome |-> "applied"]
      /\ ReceiptsLocked' /\ AcknowledgedIsDurable' /\ PredecessorsSettled' /\ NoRecordSkipped'
  BY <1>0, WriteReceipt DEF Apply
<1>2. /\ \A t \in Sessions \ {s} : session'[t] = session[t]
      /\ session'[s].pc \in {"idle", "committed"}
  BY CommitShape DEF Apply
<1>3. /\ ids'[e.id] = [state |-> "live", event |-> e]
      /\ \A d \in EventIds \ {e.id} : ids'[d] = ids[d]
  BY <1>0 DEF Apply, TInv, TypeOK, IdentityType
<1>4. IdsLocked'
  <2>1. \A t \in Sessions : HasIdentity(t) => session[t].record.id \in EventIds
    BY SessionPlace DEF HasReceipt, HasIdentity
  <2> QED
    BY <1>0, <1>2, <1>3, <2>1 DEF SInv, IdsLocked, HasIdentity
<1>5. IdsWitnessed'
  <2> SUFFICES ASSUME NEW d \in EventIds, ids'[d].state # "absent"
               PROVE  \E c \in Coordinates : /\ receipts'[c].outcome = "applied"
                                             /\ receipts'[c].payload = ids'[d].event
                                             /\ receipts'[c].payload.id = d
    BY DEF IdsWitnessed
  <2>1. CASE d = e.id
    BY <1>0, <1>1, <1>3, <2>1
  <2>2. CASE d # e.id
    BY <1>1, <1>3, <2>2 DEF SInv, IdsWitnessed, ReceiptsKept, None
  <2> QED
    BY <2>1, <2>2
<1> QED
  BY <1>1, <1>4, <1>5 DEF SInv

\* The session that finds its id live settles its coordinate as a duplicate or a conflict.
LEMMA CompareSafe ==
    ASSUME TInv, SInv, NEW s \in Sessions, CompareIdentity(s)
    PROVE  SInv'
<1>1. CASE RollBack(s)
  BY <1>1, RollBackSafe
<1>2. CASE ~RollBack(s)
  <2>0. HasReceipt(s) /\ Refusal(session[s].record) \in Outcomes
    BY DEF CompareIdentity, HasReceipt, Refusal, Outcomes
  <2>1. /\ ReceiptsKept
        /\ ReceiptsLocked' /\ AcknowledgedIsDurable' /\ PredecessorsSettled' /\ NoRecordSkipped'
    BY <1>2, <2>0, WriteReceipt DEF CompareIdentity
  <2>2. /\ \A t \in Sessions \ {s} : session'[t] = session[t]
        /\ session'[s].pc \in {"idle", "committed"}
    BY <1>2, CommitShape DEF CompareIdentity
  <2>3. IdsLocked'
    BY <1>2, <2>2 DEF CompareIdentity, SInv, IdsLocked, HasIdentity
  <2>4. IdsWitnessed'
    BY <1>2, <2>1 DEF CompareIdentity, SInv, IdsWitnessed, ReceiptsKept, None
  <2> QED
    BY <2>1, <2>3, <2>4 DEF SInv
<1> QED
  BY <1>1, <1>2

\* The session that finds its coordinate settled writes nothing; another takes the coordinate.
LEMMA InsertSafe ==
    ASSUME TInv, SInv, NEW s \in Sessions, InsertReceipt(s)
    PROVE  SInv'
<1> USE DEF InsertReceipt
<1>1. CASE RollBack(s)
  BY <1>1, RollBackSafe
<1>2. CASE GoTo(s, "identity") /\ receipts[session[s].at].outcome = None
           /\ UNCHANGED <<kafka, flink, identity, behavior>>
  BY <1>2, AdvanceSafe
<1>3. CASE /\ receipts[session[s].at].outcome = None /\ session[s].record = Invalid
           /\ receipts' = [receipts EXCEPT ![session[s].at] =
                  [payload |-> session[s].record, outcome |-> "invalid"]]
           /\ Commit(s) /\ UNCHANGED <<kafka, flink, ids, lapses, behavior>>
  BY <1>3, EarlyCommitSafe
<1>4. CASE /\ receipts[session[s].at].outcome # None
           /\ SamePayload(session[s].at, session[s].record)
           /\ Commit(s) /\ UNCHANGED <<kafka, flink, identity, behavior>>
  BY <1>4, EarlyCommitSafe DEF identity
<1> QED
  BY <1>1, <1>2, <1>3, <1>4

\* Every step preserves the ledger invariant.
LEMMA NextSInv == TInv /\ SInv /\ [Next]_vars => SInv'
<1> SUFFICES ASSUME TInv, SInv, [Next]_vars PROVE SInv'
  OBVIOUS
<1>1. CASE \/ \E p \in Partitions, r \in Records : Publish(p, r)
           \/ \E p \in Partitions, s \in Sessions : Map(p, s)
           \/ \E p \in Partitions : Return(p)
           \/ Checkpoint \/ Fail \/ Cancel \/ Restart
           \/ \E restore \in BOOLEAN : Resubmit(restore)
           \/ RecreateTopic
           \/ \E e \in EventIds : Lapse(e)
  BY <1>1, PublishSafe, MapSafe, ReturnSafe, JobSafe, AbandonSafe, LapseSafe
<1>2. ASSUME NEW s \in Sessions,
             InsertReceipt(s) \/ ClaimIdentity(s) \/ CompareIdentity(s) \/ Apply(s)
                \/ AbortTransaction(s)
      PROVE  SInv'
  <2>1. CASE ClaimIdentity(s)
    BY <2>1, AdvanceSafe DEF ClaimIdentity
  <2>2. CASE AbortTransaction(s)
    BY <2>2, RollBackSafe DEF AbortTransaction
  <2> QED
    BY <1>2, <2>1, <2>2, InsertSafe, CompareSafe, ApplySafe
<1>3. CASE UNCHANGED vars \/ \E u \in Users : Onboard(u) \/ EvaluateDue(u)
  <2>1. UNCHANGED <<kafka, flink, session, identity>>
    BY <1>3 DEF vars, Onboard, EvaluateDue
  <2>2. SessionInv' /\ IdsWitnessed'
    BY <2>1, SessionsEnd DEF identity
  <2>3. NoRecordSkipped'
    BY <2>1, PositionsStand DEF ReceiptsKept, kafka, flink, identity
  <2> QED
    BY <2>2, <2>3 DEF SInv, SessionInv
<1> QED
  BY <1>1, <1>2, <1>3 DEF Next

\* Who may hold a receipt or an id while transactions are in flight, that what a
\* commit acknowledged stays, that receipts leave no gap, and that a retained id
\* has its witness: together preserved by every step of the job, its sessions,
\* the producers and the operators.
THEOREM Invariance == Spec => [](TInv /\ SInv)
<1>1. Init => TInv /\ SInv
  BY InitTInv, InitSInv
<1>2. TInv /\ SInv /\ [Next]_vars => (TInv /\ SInv)'
  BY NextTInv, NextSInv
<1> QED
  BY <1>1, <1>2, PTL DEF Spec

-----------------------------------------------------------------------------
(* The promises.                                                           *)

\* However often the job fails, is cancelled, restarts from a checkpoint or
\* from the start, and whatever its abandoned sessions still commit: every
\* record a position or a checkpoint has passed has a receipt for that payload.
THEOREM NothingSkipped == Spec => []NoRecordSkipped
BY Invariance, PTL DEF SInv

-----------------------------------------------------------------------------
(* The ledger implements the exactly-once ledger.                          *)

revisions == [u \in Users |-> summary[u].revision]
live == [e \in EventIds |-> ids[e].state = "live"]

\* Most steps are invisible in the exactly-once ledger.
LEMMA Invisible ==
    ASSUME TInv, TInv', receipts' = receipts,
           \A u \in Users : summary'[u].revision = summary[u].revision,
           \A e \in EventIds : ids'[e].state = "live" <=> ids[e].state = "live"
    PROVE  UNCHANGED Promise!vars
<1>1. revisions' = revisions
  BY DEF revisions
<1>2. live' = live
  BY Zenon DEF live
<1> QED
  BY <1>1, <1>2 DEF Promise!vars, revisions, live

\* Pruning an id is the forgetting of the abstract ledger.
LEMMA Forgets ==
    ASSUME TInv, NEW e \in EventIds, Lapse(e)
    PROVE  Promise!Next
<1>1. Promise!Forget(e)
  <2>1. live[e]
    BY DEF Lapse, live
  <2>2. live' = [live EXCEPT ![e] = FALSE]
    <3>1. \A d \in EventIds : (ids'[d].state = "live") = (IF d = e THEN FALSE ELSE ids[d].state = "live")
      BY DEF Lapse, TInv, TypeOK, IdentityType
    <3> QED
      BY <3>1, Zenon DEF live
  <2>3. revisions' = revisions /\ receipts' = receipts
    BY DEF Lapse, behavior, revisions
  <2> QED
    BY <2>1, <2>2, <2>3 DEF Promise!Forget, live, revisions
<1> QED
  BY <1>1 DEF Promise!Next

\* A receipt is only written where the abstract ledger is to settle next.
LEMMA SettlesNext ==
    ASSUME TInv, SInv, NEW s \in Sessions, session[s].pc # "idle",
           receipts[session[s].at].outcome = None, NEW r, NEW outcome,
           receipts' = [receipts EXCEPT ![session[s].at] = [payload |-> r, outcome |-> outcome]]
    PROVE  \E p \in Partitions, n \in 0 .. (MaxLog - 1) :
              session[s].at = <<p, n>> /\ Promise!Settle(p, n, r, outcome)
<1>1. /\ session[s].at = <<session[s].at[1], session[s].at[2]>>
      /\ session[s].at[1] \in Partitions /\ session[s].at[2] \in 0 .. (MaxLog - 1)
  BY SessionPlace DEF Offsets
<1>2. Promise!IsNext(session[s].at[1], session[s].at[2])
  BY <1>1 DEF Promise!IsNext, SInv, PredecessorsSettled
<1>3. Promise!Settle(session[s].at[1], session[s].at[2], r, outcome)
  BY <1>1, <1>2 DEF Promise!Settle
<1> QED
  BY <1>1, <1>3

\* A commit of an applied record is a contribution of the abstract ledger.
LEMMA Contributes ==
    ASSUME TInv, SInv, NEW s \in Sessions, Apply(s)
    PROVE  Promise!Next
<1>e. PICK e \in Events : e = session[s].record
  BY SessionPlace DEF Apply, HasReceipt
<1>0. /\ HasReceipt(s) /\ HasIdentity(s) /\ session[s].pc # "idle"
      /\ e.id \in EventIds /\ e.user \in Users /\ session[s].at \in Coordinates
  BY <1>e, SessionPlace, LedgerAssumption DEF Apply, HasReceipt, HasIdentity, Event
<1>1. PICK p \in Partitions, n \in 0 .. (MaxLog - 1) :
         session[s].at = <<p, n>> /\ Promise!Settle(p, n, e, "applied")
  <2>1. receipts[session[s].at].outcome = None
    BY <1>0 DEF SInv, ReceiptsLocked
  <2> QED
    BY <1>e, <1>0, <2>1, SettlesNext DEF Apply
<1>2. ~live[e.id]
  BY <1>e, <1>0 DEF Apply, live, SInv, IdsLocked
<1>3. live' = [live EXCEPT ![e.id] = TRUE]
  <2>1. \A d \in EventIds : (ids'[d].state = "live") = (IF d = e.id THEN TRUE ELSE ids[d].state = "live")
    BY <1>e, <1>0 DEF Apply, TInv, TypeOK, IdentityType
  <2> QED
    BY <2>1, Zenon DEF live
<1>4. revisions' = [revisions EXCEPT ![e.user] = @ + 1]
  <2>1. \A u \in Users : summary'[u].revision =
           IF u = e.user THEN summary[u].revision + 1 ELSE summary[u].revision
    BY <1>e, <1>0 DEF Apply, SummaryAfter, SummaryRow, TInv, TypeOK, BehaviorType
  <2> QED
    BY <1>0, <2>1 DEF revisions
<1>5. Promise!Contribute(p, n, e)
  BY <1>1, <1>2, <1>3, <1>4 DEF Promise!Contribute, live, revisions
<1> QED
  BY <1>5 DEF Promise!Next

\* What a session that only writes a receipt leaves alone.
LEMMA RefuseFrame ==
    ASSUME UNCHANGED <<ids, behavior>>
    PROVE  revisions' = revisions /\ live' = live
BY DEF behavior, revisions, live

\* The receipt of an undecodable record is a refusal of the abstract ledger.
LEMMA RefusesInvalid ==
    ASSUME TInv, SInv, NEW s \in Sessions, session[s].pc = "receipt",
           receipts[session[s].at].outcome = None,
           receipts' = [receipts EXCEPT ![session[s].at] = [payload |-> Invalid, outcome |-> "invalid"]],
           UNCHANGED <<ids, behavior>>
    PROVE  Promise!Next
<1>1. PICK p \in Partitions, n \in 0 .. (MaxLog - 1) :
         session[s].at = <<p, n>> /\ Promise!Settle(p, n, Invalid, "invalid")
  BY SettlesNext
<1>2. Promise!Refuse(p, n)
  BY <1>1, RefuseFrame DEF Promise!Refuse, live, revisions
<1> QED
  BY <1>1, <1>2 DEF Promise!Next

\* So is the receipt of a duplicate or a conflict.
LEMMA RefusesKnown ==
    ASSUME TInv, SInv, NEW s \in Sessions, CompareIdentity(s), ~RollBack(s)
    PROVE  Promise!Next
<1> DEFINE r == session[s].record
<1>0. /\ HasReceipt(s) /\ session[s].pc # "idle" /\ r \in Events /\ r.id \in EventIds
      /\ ids[r.id].state # "absent"
  BY SessionPlace DEF CompareIdentity, HasReceipt
<1>1. PICK p \in Partitions, n \in 0 .. (MaxLog - 1) :
         session[s].at = <<p, n>> /\ Promise!Settle(p, n, r, Refusal(r))
  <2>1. receipts[session[s].at].outcome = None
    BY <1>0 DEF SInv, ReceiptsLocked
  <2> QED
    BY <1>0, <2>1, SettlesNext DEF CompareIdentity
<1>2. PICK d \in Coordinates : /\ receipts[d].outcome = "applied"
                               /\ receipts[d].payload = ids[r.id].event
                               /\ receipts[d].payload.id = r.id
  BY <1>0 DEF SInv, IdsWitnessed
<1>3. d \in Promise!Coordinates
  BY DEF Promise!Coordinates, Coordinates, Offsets
<1>4. UNCHANGED <<ids, behavior>>
  BY DEF CompareIdentity
<1>5. CASE ids[r.id].event = r
  <2>1. Promise!Witness(r, TRUE)
    BY <1>2, <1>3, <1>5 DEF Promise!Witness
  <2>2. Promise!Settle(p, n, r, "duplicate")
    BY <1>1, <1>5 DEF Refusal
  <2> QED
    BY <1>0, <1>4, <2>1, <2>2, RefuseFrame DEF Promise!Next, Promise!Refuse, live, revisions
<1>6. CASE ids[r.id].event # r
  <2>1. Promise!Witness(r, FALSE)
    BY <1>2, <1>3, <1>6 DEF Promise!Witness
  <2>2. Promise!Settle(p, n, r, "conflict")
    BY <1>1, <1>6 DEF Refusal
  <2> QED
    BY <1>0, <1>4, <2>1, <2>2, RefuseFrame DEF Promise!Next, Promise!Refuse, live, revisions
<1> QED
  BY <1>5, <1>6

\* Every round trip of a session is a step of the abstract ledger or none.
LEMMA SessionRefines ==
    ASSUME TInv, TInv', SInv, NEW s \in Sessions,
           InsertReceipt(s) \/ ClaimIdentity(s) \/ CompareIdentity(s) \/ Apply(s)
              \/ AbortTransaction(s)
    PROVE  [Promise!Next]_(Promise!vars)
<1>1. CASE UNCHANGED <<identity, behavior>>
  BY <1>1, Invisible DEF identity, behavior
<1>2. CASE Apply(s)
  BY <1>2, Contributes
<1>3. CASE CompareIdentity(s)
  BY <1>1, <1>3, RefusesKnown DEF RollBack
<1>4. CASE /\ session[s].pc = "receipt" /\ session[s].record = Invalid
           /\ receipts[session[s].at].outcome = None
           /\ receipts' = [receipts EXCEPT ![session[s].at] =
                  [payload |-> session[s].record, outcome |-> "invalid"]]
           /\ UNCHANGED <<kafka, flink, ids, lapses, behavior>>
  BY <1>4, RefusesInvalid
<1>5. CASE InsertReceipt(s)
  BY <1>1, <1>4, <1>5 DEF InsertReceipt, RollBack
<1>6. CASE ClaimIdentity(s) \/ AbortTransaction(s)
  BY <1>1, <1>6 DEF ClaimIdentity, AbortTransaction, RollBack
<1> QED
  BY <1>2, <1>3, <1>5, <1>6

\* Every step of the system is a step of the abstract ledger or none.
LEMMA StepRefines ==
    TInv /\ TInv' /\ SInv /\ [Next]_vars => [Promise!Next]_(Promise!vars)
<1> SUFFICES ASSUME TInv, TInv', SInv, [Next]_vars
             PROVE  [Promise!Next]_(Promise!vars)
  OBVIOUS
<1>1. CASE \E s \in Sessions :
              InsertReceipt(s) \/ ClaimIdentity(s) \/ CompareIdentity(s) \/ Apply(s)
                 \/ AbortTransaction(s)
  BY <1>1, SessionRefines
<1>2. CASE \E e \in EventIds : Lapse(e)
  BY <1>2, Forgets
<1>3. ASSUME NEW p \in Partitions, NEW s \in Sessions, Map(p, s)
      PROVE  UNCHANGED Promise!vars
  <2>1. \A e \in EventIds : ids'[e].state = "live" <=> ids[e].state = "live"
    BY <1>3 DEF Map, Pruned, NoIdentity
  <2> QED
    BY <1>3, <2>1, Invisible DEF Map, behavior
<1>4. CASE \/ \E p \in Partitions, r \in Records : Publish(p, r)
           \/ \E p \in Partitions : Return(p)
           \/ Checkpoint \/ Fail \/ Cancel \/ Restart
           \/ \E restore \in BOOLEAN : Resubmit(restore)
           \/ RecreateTopic
           \/ UNCHANGED vars
  <2>1. UNCHANGED <<identity, behavior>>
    BY <1>4 DEF Publish, Return, Checkpoint, Fail, Cancel, Restart, Resubmit, RecreateTopic, vars
  <2> QED
    BY <2>1, Invisible DEF identity, behavior
<1>5. ASSUME NEW u \in Users, Onboard(u) \/ EvaluateDue(u)
      PROVE  UNCHANGED Promise!vars
  BY <1>5, Invisible DEF Onboard, EvaluateDue, identity
<1> QED
  BY <1>1, <1>2, <1>3, <1>4, <1>5 DEF Next

\* An empty ledger is an empty abstract ledger.
LEMMA InitRefines == Init => Promise!Init
<1> SUFFICES ASSUME Init PROVE Promise!Init
  OBVIOUS
<1>1. receipts = [c \in Promise!Coordinates |-> [payload |-> Invalid, outcome |-> None]]
  BY DEF Init, NoReceipt, Coordinates, Offsets, Promise!Coordinates
<1>2. revisions = [u \in Users |-> 0]
  BY DEF Init, NoSummary, revisions
<1>3. live = [e \in EventIds |-> FALSE]
  BY DEF Init, NoIdentity, live
<1> QED
  BY <1>1, <1>2, <1>3 DEF Promise!Init, revisions, live

\* The ledger implements the exactly-once ledger: jobs, sessions, checkpoints,
\* failures, restarts, commits of abandoned sessions and prunes are invisible,
\* and every visible step settles one record, the next of its partition, or
\* lets the retention of an id run out.
THEOREM ExactlyOnce == Spec => ImplementsExactlyOnce
<1>1. Init => Promise!Init
  BY InitRefines
<1>2. TInv /\ TInv' /\ SInv /\ [Next]_vars => [Promise!Next]_(Promise!vars)
  BY StepRefines
<1> QED
  BY <1>1, <1>2, Invariance, PTL DEF Spec, ImplementsExactlyOnce, Promise!Spec

-----------------------------------------------------------------------------
(* Receipts and what they account for.                                     *)

Writes(c, r, outcome) ==
    /\ receipts[c].outcome = None
    /\ receipts' = [receipts EXCEPT ![c] = [payload |-> r, outcome |-> outcome]]

\* A step writes no receipt and changes no behaviour but attributes, views and
\* evaluations, or it writes exactly one receipt in one of three ways.
LEMMA ReceiptWrites ==
    ASSUME TInv, SInv, [Next]_vars
    PROVE  \/ UNCHANGED <<receipts, summary, orders, carts>>
           \/ \E c \in Coordinates :
                 /\ Writes(c, Invalid, "invalid")
                 /\ UNCHANGED <<summary, orders, carts>>
           \/ \E c \in Coordinates, r \in Events :
                 /\ Writes(c, r, Refusal(r)) /\ ids[r.id].state # "absent"
                 /\ UNCHANGED <<summary, orders, carts>>
           \/ \E c \in Coordinates, e \in Events :
                 /\ Writes(c, e, "applied")
                 /\ summary' = SummaryAfter(e)
                 /\ orders' = OrdersAfter(e)
                 /\ carts' = CartsAfter(e)
<1>1. ASSUME NEW s \in Sessions, Apply(s)
      PROVE  \E c \in Coordinates, e \in Events :
                 /\ Writes(c, e, "applied")
                 /\ summary' = SummaryAfter(e) /\ orders' = OrdersAfter(e) /\ carts' = CartsAfter(e)
  <2>1. PICK e \in Events, c \in Coordinates : e = session[s].record /\ c = session[s].at
    BY <1>1, SessionPlace DEF Apply, HasReceipt
  <2>2. receipts[c].outcome = None
    BY <1>1, <2>1 DEF Apply, SInv, ReceiptsLocked, HasReceipt
  <2> QED
    BY <1>1, <2>1, <2>2 DEF Apply, Writes
<1>2. ASSUME NEW s \in Sessions, CompareIdentity(s), ~RollBack(s)
      PROVE  \E c \in Coordinates, r \in Events :
                 /\ Writes(c, r, Refusal(r)) /\ ids[r.id].state # "absent"
                 /\ UNCHANGED <<summary, orders, carts>>
  <2>1. PICK e \in Events, c \in Coordinates : e = session[s].record /\ c = session[s].at
    BY <1>2, SessionPlace DEF CompareIdentity, HasReceipt
  <2>2. receipts[c].outcome = None
    BY <1>2, <2>1 DEF CompareIdentity, SInv, ReceiptsLocked, HasReceipt
  <2> QED
    BY <1>2, <2>1, <2>2 DEF CompareIdentity, Writes, behavior
<1>3. ASSUME NEW s \in Sessions, session[s].pc = "receipt", session[s].record = Invalid,
             receipts[session[s].at].outcome = None, UNCHANGED <<kafka, flink, ids, lapses, behavior>>,
             receipts' = [receipts EXCEPT ![session[s].at] =
                 [payload |-> session[s].record, outcome |-> "invalid"]]
      PROVE  \E c \in Coordinates :
                 Writes(c, Invalid, "invalid") /\ UNCHANGED <<summary, orders, carts>>
  BY <1>3, SessionPlace DEF Writes, behavior
<1>4. ASSUME NEW s \in Sessions, InsertReceipt(s) \/ ClaimIdentity(s) \/ CompareIdentity(s)
                \/ AbortTransaction(s)
      PROVE  \/ UNCHANGED <<receipts, summary, orders, carts>>
             \/ CompareIdentity(s) /\ ~RollBack(s)
             \/ /\ session[s].pc = "receipt" /\ session[s].record = Invalid
                /\ receipts[session[s].at].outcome = None
                /\ UNCHANGED <<kafka, flink, ids, lapses, behavior>>
                /\ receipts' = [receipts EXCEPT ![session[s].at] =
                       [payload |-> session[s].record, outcome |-> "invalid"]]
  BY <1>4 DEF InsertReceipt, ClaimIdentity, AbortTransaction, RollBack, identity, behavior
<1>5. ASSUME NEW s \in Sessions, InsertReceipt(s) \/ ClaimIdentity(s) \/ CompareIdentity(s)
                \/ AbortTransaction(s) \/ Apply(s)
      PROVE  \/ UNCHANGED <<receipts, summary, orders, carts>>
             \/ \E c \in Coordinates :
                   Writes(c, Invalid, "invalid") /\ UNCHANGED <<summary, orders, carts>>
             \/ \E c \in Coordinates, r \in Events :
                   /\ Writes(c, r, Refusal(r)) /\ ids[r.id].state # "absent"
                   /\ UNCHANGED <<summary, orders, carts>>
             \/ \E c \in Coordinates, e \in Events :
                   /\ Writes(c, e, "applied")
                   /\ summary' = SummaryAfter(e) /\ orders' = OrdersAfter(e) /\ carts' = CartsAfter(e)
  BY <1>1, <1>2, <1>3, <1>4, <1>5
<1>6. CASE \/ UNCHANGED vars
           \/ \E p \in Partitions, r \in Records : Publish(p, r)
           \/ \E p \in Partitions, s \in Sessions : Map(p, s)
           \/ \E p \in Partitions : Return(p)
           \/ Checkpoint \/ Fail \/ Cancel \/ Restart
           \/ \E restore \in BOOLEAN : Resubmit(restore)
           \/ RecreateTopic
           \/ \E e \in EventIds : Lapse(e)
           \/ \E u \in Users : Onboard(u) \/ EvaluateDue(u)
  BY <1>6 DEF vars, Publish, Map, Return, Checkpoint, Fail, Cancel, Abandon, Restart, Resubmit,
              RecreateTopic, Lapse, Onboard, EvaluateDue, identity, behavior
<1> QED
  BY <1>5, <1>6 DEF Next

\* Writing a receipt changes one coordinate.
LEMMA WriteShape ==
    ASSUME TInv, NEW c \in Coordinates, NEW r \in Records, NEW outcome \in Outcomes,
           Writes(c, r, outcome)
    PROVE  /\ receipts'[c] = [payload |-> r, outcome |-> outcome]
           /\ \A d \in Coordinates \ {c} : receipts'[d] = receipts[d]
           /\ \A d \in Coordinates : receipts[d].outcome # None => receipts'[d] = receipts[d]
BY DEF Writes, TInv, TypeOK, IdentityType

\* Views are added only with an applied receipt of their customer.
LEMMA ViewWrites ==
    ASSUME TInv, SInv, [Next]_vars, NEW u \in Users, ~(views'[u] \subseteq views[u])
    PROVE  \E c \in Coordinates, e \in Events : Writes(c, e, "applied") /\ e.user = u
<1>1. ASSUME NEW s \in Sessions, Apply(s)
      PROVE  \E c \in Coordinates, e \in Events : Writes(c, e, "applied") /\ e.user = u
  <2>1. PICK e \in Events, c \in Coordinates : e = session[s].record /\ c = session[s].at
    BY <1>1, SessionPlace DEF Apply, HasReceipt
  <2>2. receipts[c].outcome = None
    BY <1>1, <2>1 DEF Apply, SInv, ReceiptsLocked, HasReceipt
  <2>3. Writes(c, e, "applied")
    BY <1>1, <2>1, <2>2 DEF Apply, Writes
  <2>4. e.user = u
    <3>1. PICK kept \in SUBSET ViewsAfter(e)[e.user] : views' = [ViewsAfter(e) EXCEPT ![e.user] = kept]
      BY <1>1, <2>1 DEF Apply, EvaluateCustomer
    <3>2. DOMAIN views = Users
      BY DEF TInv, TypeOK, BehaviorType
    <3>3. \A w \in Users : w # e.user => views'[w] = views[w]
      BY <3>1, <3>2 DEF ViewsAfter
    <3> QED
      BY <3>3
  <2> QED
    BY <2>3, <2>4
<1>2. ASSUME NEW w \in Users, EvaluateDue(w)
      PROVE  FALSE
  <2>1. PICK kept \in SUBSET views[w] : views' = [views EXCEPT ![w] = kept]
    BY <1>2 DEF EvaluateDue, EvaluateCustomer
  <2>2. DOMAIN views = Users
    BY DEF TInv, TypeOK, BehaviorType
  <2>3. views'[u] \subseteq views[u]
    BY <2>1, <2>2
  <2> QED
    BY <2>3
<1>3. ASSUME NEW s \in Sessions, InsertReceipt(s) \/ ClaimIdentity(s) \/ CompareIdentity(s)
                \/ AbortTransaction(s)
      PROVE  FALSE
  <2>1. views' = views
    BY <1>3 DEF InsertReceipt, ClaimIdentity, CompareIdentity, AbortTransaction, RollBack, behavior
  <2> QED
    BY <2>1
<1>4. CASE \/ UNCHANGED vars
           \/ \E p \in Partitions, r \in Records : Publish(p, r)
           \/ \E p \in Partitions, s \in Sessions : Map(p, s)
           \/ \E p \in Partitions : Return(p)
           \/ Checkpoint \/ Fail \/ Cancel \/ Restart
           \/ \E restore \in BOOLEAN : Resubmit(restore)
           \/ RecreateTopic
           \/ \E e \in EventIds : Lapse(e)
           \/ \E w \in Users : Onboard(w)
  <2>1. views' = views
    BY <1>4 DEF vars, Publish, Map, Return, Checkpoint, Fail, Cancel, Restart, Resubmit,
                RecreateTopic, Lapse, Onboard, behavior
  <2> QED
    BY <2>1
<1> QED
  BY <1>1, <1>2, <1>3, <1>4 DEF Next

\* A receipt is final and behaviour grows only with one more applied receipt:
\* redeliveries, refusals, restarts and abandoned sessions add nothing, not even a
\* view that was pruned (journeypulse/profiles.py, apply).
THEOREM OneReceiptPerEffect == Spec => EffectsNeedAReceipt
<1> DEFINE Kept == \A c \in Coordinates : receipts[c].outcome # None => receipts'[c] = receipts[c]
           Changed(u) == summary'[u] # summary[u] \/ orders'[u] # orders[u] \/ carts'[u] # carts[u]
           Grows(u) == ~(views'[u] \subseteq views[u])
           OneMore(u) == \E c \in Coordinates :
                            c \notin Applied(u) /\ Applied(u)' = Applied(u) \cup {c}
<1>1. ASSUME TInv, SInv, [Next]_vars
      PROVE  Kept /\ \A u \in Users : Changed(u) => OneMore(u)
  <2>1. CASE UNCHANGED <<receipts, summary, orders, carts>>
    BY <2>1
  <2>2. ASSUME NEW c \in Coordinates, NEW r \in Records, NEW outcome \in Outcomes,
               Writes(c, r, outcome), UNCHANGED <<summary, orders, carts>>
        PROVE  Kept /\ \A u \in Users : Changed(u) => OneMore(u)
    BY <1>1, <2>2, WriteShape
  <2>3. ASSUME NEW c \in Coordinates, NEW e \in Events, Writes(c, e, "applied"),
               summary' = SummaryAfter(e), orders' = OrdersAfter(e), carts' = CartsAfter(e)
        PROVE  Kept /\ \A u \in Users : Changed(u) => OneMore(u)
    <3>1. /\ receipts'[c] = [payload |-> e, outcome |-> "applied"]
          /\ \A d \in Coordinates \ {c} : receipts'[d] = receipts[d]
          /\ Kept
      BY <1>1, <2>3, WriteShape DEF Records, Outcomes
    <3>2. \A u \in Users : Changed(u) => u = e.user
      BY <1>1, <2>3 DEF SummaryAfter, OrdersAfter, CartsAfter, TInv, TypeOK, BehaviorType
    <3>3. c \notin Applied(e.user)
      BY <2>3 DEF Writes, Applied, None
    <3>4. Applied(e.user)' = Applied(e.user) \cup {c}
      BY <3>1 DEF Applied
    <3> QED
      BY <3>1, <3>2, <3>3, <3>4
  <2>4. /\ Invalid \in Records /\ "invalid" \in Outcomes
        /\ \A r \in Events : r \in Records /\ Refusal(r) \in Outcomes
    BY DEF Records, Refusal, Outcomes
  <2> HIDE DEF Kept, Changed, OneMore
  <2> QED
    BY <1>1, <2>1, <2>2, <2>3, <2>4, ReceiptWrites
<1>2. ASSUME TInv, SInv, [Next]_vars, NEW u \in Users, Grows(u)
      PROVE  OneMore(u)
  <2>1. PICK c \in Coordinates, e \in Events : Writes(c, e, "applied") /\ e.user = u
    BY <1>2, ViewWrites
  <2>2. /\ receipts'[c] = [payload |-> e, outcome |-> "applied"]
        /\ \A d \in Coordinates \ {c} : receipts'[d] = receipts[d]
    BY <1>2, <2>1, WriteShape DEF Records, Outcomes
  <2>3. c \notin Applied(u)
    BY <2>1 DEF Writes, Applied, None
  <2>4. Applied(u)' = Applied(u) \cup {c}
    BY <2>1, <2>2 DEF Applied
  <2> QED
    BY <2>3, <2>4
<1>3. TInv /\ SInv /\ [Next]_vars =>
         [/\ Kept
          /\ \A u \in Users :
                \/ summary'[u] # summary[u] \/ orders'[u] # orders[u] \/ carts'[u] # carts[u]
                \/ ~(views'[u] \subseteq views[u])
                => OneMore(u)]_vars
  BY <1>1, <1>2
<1> QED
  BY <1>3, Invariance, PTL DEF Spec, EffectsNeedAReceipt

\* One more event never makes the time of a row earlier than the least: it keeps
\* the earlier of two completions.
LEMMA LeastIsEarlier ==
    ASSUME NEW a \in Times, NEW b \in Times \cup {NoTime}
    PROVE  Least(a, b) # NoTime /\ Least(a, b) <= a
BY LedgerAssumption DEF Least, NoTime

\* An order's first facts are final, and a completed cart stays completed and
\* never later, in whatever order notifications are applied, repeated or retried.
THEOREM FirstFacts == Spec => FirstFactsWin
<1> DEFINE OrdersStay(u) == \A o \in Orders : orders[u][o] # NoFact => orders'[u][o] = orders[u][o]
           CartsStay(u) == \A k \in Carts : carts[u][k].done # NoTime =>
                              carts'[u][k].done # NoTime /\ carts'[u][k].done <= carts[u][k].done
<1>1. ASSUME TInv, SInv, [Next]_vars
      PROVE  \A u \in Users : OrdersStay(u) /\ CartsStay(u)
  <2>1. ASSUME UNCHANGED <<orders, carts>>, NEW u \in Users
        PROVE  OrdersStay(u) /\ CartsStay(u)
    <3>1. ASSUME NEW k \in Carts, carts[u][k].done # NoTime
          PROVE  carts[u][k].done <= carts[u][k].done
      <4>1. carts[u][k] \in CartRow(Times)
        BY <1>1 DEF TInv, TypeOK, BehaviorType
      <4>2. carts[u][k].done \in Nat
        BY <3>1, <4>1, LedgerAssumption DEF CartRow
      <4> QED
        BY <4>2
    <3> QED
      BY <2>1, <3>1
  <2>2. ASSUME NEW c \in Coordinates, NEW e \in Events, Writes(c, e, "applied"),
               summary' = SummaryAfter(e), orders' = OrdersAfter(e), carts' = CartsAfter(e),
               NEW u \in Users
        PROVE  OrdersStay(u) /\ CartsStay(u)
    <3>1. /\ e \in Event
          /\ orders \in [Users -> [Orders -> [at: Times \cup {NoTime}, cart: Carts \cup {None}]]]
          /\ carts \in [Users -> [Carts -> CartRow(Times)]]
      BY <1>1, LedgerAssumption DEF TInv, TypeOK, BehaviorType
    <3>2. OrdersStay(u) /\ OrdersAfter(e)[e.user][e.order].at \in Times \cup {NoTime}
      BY <2>2, <3>1 DEF OrdersAfter, IsNewOrder, Event
    <3>3. ASSUME NEW k \in Carts, carts[u][k].done # NoTime
          PROVE  carts'[u][k].done # NoTime /\ carts'[u][k].done <= carts[u][k].done
      <4> DEFINE t == OrdersAfter(e)[e.user][e.order].at
      <4>1. carts[u][k].done \in Times
        BY <3>1, <3>3 DEF CartRow
      <4>2. \/ carts'[u][k].done = carts[u][k].done
            \/ carts'[u][k].done = Least(carts[u][k].done, t)
        <5> HIDE DEF t
        <5>1. carts' = [carts EXCEPT ![e.user] = RecordCarts(carts[e.user], e, OrdersAfter(e)[e.user])]
          BY <2>2 DEF CartsAfter
        <5>2. CASE e.name = "add_to_cart"
          BY <3>1, <5>1, <5>2 DEF RecordCarts, CartRow, Event
        <5>3. CASE e.name = "checkout_started"
          BY <3>1, <5>1, <5>3 DEF RecordCarts, CartRow, Event
        <5>4. CASE e.name = "order_completed"
          BY <3>1, <5>1, <5>4 DEF RecordCarts, CartRow, Event, t
        <5>5. CASE e.name \notin {"add_to_cart", "checkout_started", "order_completed"}
          BY <3>1, <5>1, <5>5 DEF RecordCarts
        <5> QED
          BY <5>2, <5>3, <5>4, <5>5
      <4>3. Least(carts[u][k].done, t) # NoTime /\ Least(carts[u][k].done, t) <= carts[u][k].done
        BY <3>2, <4>1, LeastIsEarlier
      <4>4. carts[u][k].done <= carts[u][k].done
        <5>1. \A n \in Times : n \in Nat
          BY LedgerAssumption
        <5>2. carts[u][k].done \in Nat
          BY <4>1, <5>1
        <5> HIDE DEF t
        <5> QED
          BY <5>2
      <4> HIDE DEF t
      <4>5. CASE carts'[u][k].done = carts[u][k].done
        BY <3>3, <4>4, <4>5
      <4>6. CASE carts'[u][k].done = Least(carts[u][k].done, t)
        BY <4>3, <4>6
      <4> QED
        BY <4>2, <4>5, <4>6
    <3> QED
      BY <3>2, <3>3
  <2> HIDE DEF OrdersStay, CartsStay
  <2> QED
    BY <1>1, <2>1, <2>2, ReceiptWrites
<1> DEFINE Stays ==
      \A u \in Users :
         /\ \A o \in Orders : orders[u][o] # NoFact => orders'[u][o] = orders[u][o]
         /\ \A k \in Carts : carts[u][k].done # NoTime =>
               carts'[u][k].done # NoTime /\ carts'[u][k].done <= carts[u][k].done
<1>2. TInv /\ SInv /\ [Next]_vars => [Stays]_vars
  BY <1>1
<1>3. FirstFactsWin <=> [][Stays]_vars
  BY DEF FirstFactsWin
<1> QED
  BY <1>2, <1>3, Invariance, PTL DEF Spec

\* Refusals stay justified: receipts are only added, each with its witness.
LEMMA NextRefusals ==
    ASSUME TInv, SInv, RefusalsAreJustified, [Next]_vars
    PROVE  RefusalsAreJustified'
<1>1. ASSUME NEW c \in Coordinates, NEW r \in Records, NEW outcome \in Outcomes, Writes(c, r, outcome),
             outcome = "invalid" <=> r = Invalid,
             outcome = "duplicate" => \E d \in AppliedWith(r.id) : receipts[d].payload = r,
             outcome = "conflict" => \E d \in AppliedWith(r.id) : receipts[d].payload # r
      PROVE  RefusalsAreJustified'
  <2>1. /\ receipts'[c] = [payload |-> r, outcome |-> outcome]
        /\ \A d \in Coordinates \ {c} : receipts'[d] = receipts[d]
        /\ \A d \in Coordinates : receipts[d].outcome # None => receipts'[d] = receipts[d]
    BY <1>1, WriteShape
  <2>2. \A i : \A d \in AppliedWith(i) : d \in AppliedWith(i)' /\ receipts'[d] = receipts[d]
    BY <2>1 DEF AppliedWith, None
  <2> QED
    BY <1>1, <2>1, <2>2 DEF RefusalsAreJustified
<1>2. CASE UNCHANGED receipts
  BY <1>2 DEF RefusalsAreJustified, AppliedWith
<1>3. ASSUME NEW c \in Coordinates, NEW r \in Events, Writes(c, r, Refusal(r)),
             ids[r.id].state # "absent"
      PROVE  RefusalsAreJustified'
  <2>1. PICK d \in Coordinates : /\ receipts[d].outcome = "applied"
                                 /\ receipts[d].payload = ids[r.id].event
                                 /\ receipts[d].payload.id = r.id
    BY <1>3, LedgerAssumption DEF SInv, IdsWitnessed, Event
  <2>2. d \in AppliedWith(r.id) /\ r \in Records /\ r # Invalid /\ Refusal(r) \in {"duplicate", "conflict"}
    BY <2>1, LedgerAssumption DEF AppliedWith, Records, Refusal
  <2>3. Refusal(r) = "duplicate" => receipts[d].payload = r
    BY <2>1 DEF Refusal
  <2>4. Refusal(r) = "conflict" => receipts[d].payload # r
    BY <2>1 DEF Refusal
  <2> QED
    BY <1>1, <1>3, <2>2, <2>3, <2>4 DEF Outcomes
<1>4. ASSUME NEW c \in Coordinates, Writes(c, Invalid, "invalid")
      PROVE  RefusalsAreJustified'
  BY <1>1, <1>4 DEF Records, Outcomes
<1>5. ASSUME NEW c \in Coordinates, NEW e \in Events, Writes(c, e, "applied")
      PROVE  RefusalsAreJustified'
  BY <1>1, <1>5, LedgerAssumption DEF Records, Outcomes
<1> QED
  BY <1>2, <1>3, <1>4, <1>5, ReceiptWrites

\* No contribution is refused without the record that justifies the refusal.
THEOREM RefusalsJustified == Spec => []RefusalsAreJustified
<1>1. Init => RefusalsAreJustified
  BY DEF Init, RefusalsAreJustified, NoReceipt, None
<1>2. TInv /\ SInv /\ RefusalsAreJustified /\ [Next]_vars => RefusalsAreJustified'
  BY NextRefusals
<1> QED
  BY <1>1, <1>2, Invariance, PTL DEF Spec
=============================================================================
