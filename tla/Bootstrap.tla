------------------------------ MODULE Bootstrap ------------------------------
(***************************************************************************)
(* journeypulse/bootstrap.py and register_rules of segments.py: commands   *)
(* that set up, or only check, the two topics and the catalogue.  Topics   *)
(* are made one by one and verified afterwards; migrations and definitions *)
(* are one transaction under an advisory lock.  Several commands may run   *)
(* at once, of builds that do not agree, any may fail and be run again.    *)
(***************************************************************************)
EXTENDS Integers, FiniteSets

CONSTANTS
    Creators,   \* commands that create
    Checkers,   \* commands that only check
    Topics,
    Names,      \* (segment, rule_version) and (event_name, schema_version)
    Wanted,     \* per command, the definitions of its build: a function of some names
    MaxFaults,  \* bound: commands interrupted
    Nobody

Commands == Creators \cup Checkers
Migrations == 1 .. 3

ASSUME BootstrapAssumption ==
    /\ Creators \cap Checkers = {} /\ Nobody \notin Commands
    /\ DOMAIN Wanted = Commands
    /\ \A c \in Commands : DOMAIN Wanted[c] \subseteq Names
    /\ MaxFaults \in Nat

VARIABLES
    topics,      \* per topic: absent, right, or made with other settings
    applied,     \* journeypulse.schema_migrations
    registered,  \* the definitions, by name
    lock,        \* who holds the advisory lock
    command,     \* per command, how far it is
    faults

bootVars == <<topics, applied, registered, lock, command, faults>>

BootSteps == {"idle", "start", "create", "verify", "database", "commit", "compare", "ready",
              "failed"}

\* missing: topics that list_topics did not show; work: the open transaction.
BootType ==
    /\ topics \in [Topics -> {"absent", "right", "wrong"}]
    /\ applied \subseteq Migrations
    /\ DOMAIN registered \subseteq Names
    /\ lock \in Creators \cup {Nobody}
    /\ command \in [Commands -> [pc : BootSteps, missing : SUBSET Topics]]
    /\ faults \in 0 .. MaxFaults

BootInit ==
    /\ topics = [t \in Topics |-> "absent"]
    /\ applied = {}
    /\ registered = <<>>
    /\ lock = Nobody
    /\ command = [c \in Commands |-> [pc |-> "idle", missing |-> {}]]
    /\ faults = 0

At(c, pc) == command[c].pc = pc
MoveTo(c, pc) == command' = [command EXCEPT ![c].pc = pc]

-----------------------------------------------------------------------------
\* A client names a topic before it is set up: the broker creates it with its
\* own defaults.
AutoCreate(t) ==
    /\ topics[t] = "absent" /\ faults < MaxFaults
    /\ topics' = [topics EXCEPT ![t] = "wrong"]
    /\ faults' = faults + 1
    /\ UNCHANGED <<applied, registered, lock, command>>

\* present = list_topics(); a check stops at a topic that is missing.
ListTopics(c) ==
    /\ At(c, "start")
    /\ LET missing == {t \in Topics : topics[t] = "absent"}
       IN  command' = [command EXCEPT ![c] =
              [pc |-> IF missing = {} THEN "verify"
                      ELSE IF c \in Creators THEN "create" ELSE "failed",
               missing |-> missing]]
    /\ UNCHANGED <<topics, applied, registered, lock, faults>>

\* create_topics for one of them; that somebody else has made it is no error.
CreateTopic(c, t) ==
    /\ At(c, "create") /\ t \in command[c].missing
    /\ topics' = [topics EXCEPT ![t] = IF @ = "absent" THEN "right" ELSE @]
    /\ LET left == command[c].missing \ {t}
       IN  command' = [command EXCEPT ![c] =
              [pc |-> IF left = {} THEN "verify" ELSE "create", missing |-> left]]
    /\ UNCHANGED <<applied, registered, lock, faults>>

AsConfigured == \A t \in Topics : topics[t] = "right"

\* describe_topics and describe_configs: what is not as configured is an error.
VerifyTopics(c) ==
    /\ At(c, "verify")
    /\ MoveTo(c, IF AsConfigured THEN "database" ELSE "failed")
    /\ UNCHANGED <<topics, applied, registered, lock, faults>>

\* Mistake: the definition of this build replaces what was registered.
Mistake_Registering(c) ==
    [n \in DOMAIN registered \cup DOMAIN Wanted[c] |->
        IF n \in DOMAIN Wanted[c] THEN Wanted[c][n] ELSE registered[n]]

\* INSERT ... ON CONFLICT DO NOTHING of every definition of the build.
Registering(c) ==
    [n \in DOMAIN registered \cup DOMAIN Wanted[c] |->
        IF n \in DOMAIN registered THEN registered[n] ELSE Wanted[c][n]]

Agrees(c, definitions) ==
    \A n \in DOMAIN Wanted[c] : n \in DOMAIN definitions /\ definitions[n] = Wanted[c][n]

\* The transaction of a creating command: it waits for the advisory lock, applies
\* the migrations that are missing, registers, and compares.
BeginRegistration(c) ==
    /\ c \in Creators /\ At(c, "database") /\ lock = Nobody
    /\ lock' = c
    /\ MoveTo(c, "commit")
    /\ UNCHANGED <<topics, applied, registered, faults>>

\* Mistake: a refused transaction is left open.
Mistake_Held(c) ==
    /\ At(c, "commit")
    /\ IF Agrees(c, Registering(c))
       THEN applied' = Migrations /\ registered' = Registering(c) /\ MoveTo(c, "ready")
       ELSE MoveTo(c, "failed") /\ UNCHANGED <<applied, registered>>
    /\ lock' = IF Agrees(c, Registering(c)) THEN Nobody ELSE lock
    /\ UNCHANGED <<topics, faults>>

\* It commits as a whole, or a changed definition rolls all of it back.
CommitCatalogue(c) ==
    /\ At(c, "commit")
    /\ IF Agrees(c, Registering(c))
       THEN /\ applied' = Migrations
            /\ registered' = Registering(c)
            /\ MoveTo(c, "ready")
       ELSE MoveTo(c, "failed") /\ UNCHANGED <<applied, registered>>
    /\ lock' = Nobody
    /\ UNCHANGED <<topics, faults>>

\* A read-only check: the migrations first, then the definitions, each query on
\* what is committed by then.
CheckMigrations(c) ==
    /\ c \in Checkers /\ At(c, "database")
    /\ MoveTo(c, IF applied = Migrations THEN "compare" ELSE "failed")
    /\ UNCHANGED <<topics, applied, registered, lock, faults>>

CheckDefinitions(c) ==
    /\ At(c, "compare")
    /\ MoveTo(c, IF Agrees(c, registered) THEN "ready" ELSE "failed")
    /\ UNCHANGED <<topics, applied, registered, lock, faults>>

\* No connection within the minute, a request or a lock that times out, or the
\* command is killed: an open transaction is rolled back, topics stay.
InterruptCommand(c) ==
    /\ command[c].pc \notin {"idle", "failed", "ready"} /\ faults < MaxFaults
    /\ MoveTo(c, "failed")
    /\ lock' = IF lock = c THEN Nobody ELSE lock
    /\ faults' = faults + 1
    /\ UNCHANGED <<topics, applied, registered>>

\* The operator runs it, or runs it again: after a failure or to repeat the setup.
RunCommand(c) ==
    /\ command[c].pc \in {"idle", "failed", "ready"}
    /\ MoveTo(c, "start")
    /\ UNCHANGED <<topics, applied, registered, lock, faults>>

BootStep(c) ==
    \/ ListTopics(c) \/ VerifyTopics(c)
    \/ BeginRegistration(c) \/ CommitCatalogue(c)
    \/ CheckMigrations(c) \/ CheckDefinitions(c)
    \/ \E t \in Topics : CreateTopic(c, t)

BootNext ==
    \/ \E t \in Topics : AutoCreate(t)
    \/ \E c \in Commands : BootStep(c) \/ InterruptCommand(c) \/ RunCommand(c)

BootSpec == BootInit /\ [][BootNext]_bootVars

\* A command that runs goes on, the lock is granted to who keeps asking for it,
\* and the operator runs again what failed.
BootFairness == \A c \in Commands :
    /\ WF_bootVars(BootStep(c)) /\ SF_bootVars(BeginRegistration(c))
    /\ WF_bootVars(At(c, "failed") /\ RunCommand(c))

-----------------------------------------------------------------------------
(* Properties.                                                             *)

\* "status: ready" can be relied on, however many commands of however many
\* builds ran since: the topics are as configured, the schema is complete, and
\* every definition of that build is the registered one.
ReadyIsRegistered ==
    \A c \in Commands : At(c, "ready") =>
        AsConfigured /\ applied = Migrations /\ Agrees(c, registered)

\* The catalogue always has whole registrations only: each definition came with
\* all those of the build that brought it, and on the complete schema.
CatalogueIsWhole ==
    /\ applied \in {{}, Migrations}
    /\ \A n \in DOMAIN registered :
          /\ applied = Migrations
          /\ \E c \in Creators : n \in DOMAIN Wanted[c] /\ Agrees(c, registered)

\* No command changes a registered definition or an existing topic.
NothingIsAltered ==
    [][/\ \A n \in DOMAIN registered : n \in DOMAIN registered' /\ registered'[n] = registered[n]
       /\ \A t \in Topics : topics[t] # "absent" => topics'[t] = topics[t]]_bootVars

\* "Rerunning bootstrap completes the missing work": a command that is run again
\* and again is ready in the end, unless a topic has other settings or
\* another build has registered something else under one of its names.
RerunCompletes == \A c \in Creators :
    []<>(\/ At(c, "idle") \/ At(c, "ready")
         \/ \E t \in Topics : topics[t] = "wrong"
         \/ ~Agrees(c, Registering(c)))
=============================================================================
