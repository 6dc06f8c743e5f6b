------------------------------ MODULE Migrations ------------------------------
(***************************************************************************)
(* The database schema under its migrations (infra/alembic) and the script *)
(* that tries them out (scripts/migration_smoke.py).  Tables, the columns  *)
(* a wave added to older tables, policies and triggers are looked at wave  *)
(* by wave: wave 2 is the platform core, wave 3 the tracer, wave 4 the     *)
(* control plane.  env.py runs all revisions of a command in a single      *)
(* transaction; PostgreSQL's DDL is transactional, so a refused statement  *)
(* or a killed process leaves the committed schema alone.  Dropping a      *)
(* table drops its columns, policies and triggers.                         *)
(***************************************************************************)
EXTENDS Integers

CONSTANT Databases  \* databases there are to begin with: the wave of the commit that made them, 0 for none

VARIABLES
    db,             \* the committed schema and its alembic_version
    work,           \* the schema as the running transaction sees it
    command,        \* who runs a command, and to which revision
    probe,          \* the failing revision is in the versions directory
    smoke,          \* next step of the smoke test
    smokeFailed     \* history: it failed, and not because it was killed

migrationVars == <<db, work, command, probe, smoke, smokeFailed>>

\* The tables of schema.py, by the wave that introduced them.
CoreTables == {2}
TracerTables == {3}
ControlTables == {4}
Metadata == CoreTables \cup TracerTables \cup ControlTables
HeadRevision == 4

\* A database that is not empty was made by some wave of the schema.
ASSUME DatabasesOK == Databases \subseteq {0} \cup 2..HeadRevision

Empty == [version |-> 0, markers |-> FALSE, seeded |-> FALSE, tables |-> {}, columns |-> {},
          policies |-> {}, triggers |-> {}, usage |-> FALSE]

\* A database made by an earlier commit, with the metadata of its wave: what
\* revision 0003 looks for before it creates anything.
MadeBy(wave) ==
    IF wave = 0 THEN Empty
    ELSE [version |-> wave, markers |-> TRUE, seeded |-> FALSE, tables |-> 2..wave, columns |-> 3..wave,
          policies |-> 2..wave, triggers |-> 2..wave, usage |-> TRUE]

NoCommand == [by |-> "nobody", to |-> 0]

MigrationInit ==
    /\ db \in {MadeBy(w) : w \in Databases}
    /\ work = db /\ command = NoCommand
    /\ probe = FALSE /\ smoke = "idle" /\ smokeFailed = FALSE

-----------------------------------------------------------------------------
(* Revisions: the schemas they may end in, none when a statement is refused. *)

\* 0001 creates the marker table.
CreateMarkers(s) == IF s.markers THEN {} ELSE {[s EXCEPT !.markers = TRUE]}

\* 0002: metadata.create_all creates the tables that are missing, today's whole;
\* then the role and its usage of the schema, policies and triggers for all.
PlatformCore(s) ==
    IF s.policies # {} \/ s.triggers # {} THEN {}
    ELSE {[s EXCEPT !.tables = Metadata, !.policies = Metadata, !.triggers = Metadata, !.usage = TRUE,
                    !.columns = IF CoreTables \subseteq s.tables THEN @ ELSE TracerTables \cup ControlTables]}

\* 0003, step by step: what is missing.
CreateTracerTables(s) == [s EXCEPT !.tables = @ \cup TracerTables]

AddTracerColumns(s) == [s EXCEPT !.columns = @ \cup TracerTables]

\* Leaving the policies to whoever created the tables.
ProtectTracerTrigger(s) == [s EXCEPT !.triggers = @ \cup TracerTables]

ProtectTracer(s) == [s EXCEPT !.policies = @ \cup TracerTables, !.triggers = @ \cup TracerTables]

Tracer(s) == {ProtectTracer(AddTracerColumns(CreateTracerTables(s)))}

\* 0004, step by step: refused if it is there already.
CreateControlTables(s) ==
    IF ControlTables \subseteq s.tables THEN {} ELSE {[s EXCEPT !.tables = @ \cup ControlTables]}

AlterCoordinationTables(s) ==
    IF ControlTables \subseteq s.columns THEN {} ELSE {[s EXCEPT !.columns = @ \cup ControlTables]}

ProtectControl(s) ==
    IF ControlTables \subseteq s.policies THEN {}
    ELSE {[s EXCEPT !.policies = @ \cup ControlTables, !.triggers = @ \cup ControlTables]}

ControlPlaneTables(s) ==
    UNION {UNION {ProtectControl(u) : u \in AlterCoordinationTables(t)} : t \in CreateControlTables(s)}

\* downgrade of 0003 and 0004: their columns, then their tables.
Dropped(s, tables) ==
    IF ~(tables \subseteq s.tables \cap s.columns) THEN {}
    ELSE {[s EXCEPT !.tables = @ \ tables, !.columns = @ \ tables,
                    !.policies = @ \ tables, !.triggers = @ \ tables]}

\* downgrade of 0002: every table, the function and the role, which PostgreSQL
\* keeps as long as it holds the usage of the schema; nothing revokes it.
CoreDropped(s) ==
    IF s.usage THEN {}
    ELSE {[s EXCEPT !.tables = {}, !.columns = {}, !.policies = {}, !.triggers = {}]}

\* downgrade of 0001.
MarkersDropped(s) == IF s.markers THEN {[s EXCEPT !.markers = FALSE, !.seeded = FALSE]} ELSE {}

Upgraded(s) ==
    CASE s.version = 0 -> CreateMarkers(s)
      [] s.version = 1 -> PlatformCore(s)
      [] s.version = 2 -> Tracer(s)
      [] s.version = 3 -> ControlPlaneTables(s)

Downgraded(s) ==
    CASE s.version = 1 -> MarkersDropped(s)
      [] s.version = 2 -> CoreDropped(s)
      [] s.version = 3 -> Dropped(s, TracerTables)
      [] s.version = 4 -> Dropped(s, ControlTables)

-----------------------------------------------------------------------------
(* Commands. *)

\* The failing revision is a sibling of 0003, so it makes a second head.
Heads == IF probe THEN 2 ELSE 1

SmokeAfter ==
    [upgrade |-> "seed", inject |-> "downgrade", downgrade |-> "again", again |-> "ended", cleanup |-> "ended"]

\* How the smoke test goes on after an error: its finally blocks remove the
\* failing revision, and after the injection upgrade once more.
Fail(who) ==
    IF who = "smoke"
    THEN /\ smokeFailed' = TRUE /\ probe' = FALSE
         /\ smoke' = IF smoke = "inject" THEN "cleanup" ELSE "ended"
    ELSE UNCHANGED <<probe, smoke, smokeFailed>>

Succeed(who) ==
    /\ smoke' = IF who = "smoke" THEN SmokeAfter[smoke] ELSE smoke
    /\ UNCHANGED <<probe, smokeFailed>>

\* run_alembic: "head" must be a single one; then the transaction begins.
Start(who, to) ==
    /\ command = NoCommand
    /\ IF to = HeadRevision /\ Heads > 1
       THEN Fail(who) /\ UNCHANGED <<work, command>>
       ELSE work' = db /\ command' = [by |-> who, to |-> to] /\ UNCHANGED <<probe, smoke, smokeFailed>>
    /\ UNCHANGED db

\* One revision, or the rollback and the error when a statement is refused.
RunRevision ==
    /\ command # NoCommand /\ work.version # command.to
    /\ LET up == work.version < command.to
           results == IF up THEN Upgraded(work) ELSE Downgraded(work)
       IN  IF results = {} THEN work' = db /\ command' = NoCommand /\ Fail(command.by)
           ELSE /\ \E s \in results : work' = [s EXCEPT !.version = IF up THEN @ + 1 ELSE @ - 1]
                /\ UNCHANGED <<command, probe, smoke, smokeFailed>>
    /\ UNCHANGED db

CommitMigration ==
    /\ command # NoCommand /\ work.version = command.to
    /\ db' = work /\ command' = NoCommand
    /\ Succeed(command.by)
    /\ UNCHANGED work

\* A process is killed: its transaction is rolled back, its files stay.
Kill(who) ==
    /\ IF command.by = who THEN command' = NoCommand /\ work' = db ELSE UNCHANGED <<command, work>>
    /\ smoke' = IF who = "smoke" THEN "idle" ELSE smoke
    /\ UNCHANGED <<db, probe, smokeFailed>>

-----------------------------------------------------------------------------
(* migration_smoke.py. *)

StartSmoke ==
    /\ smoke \in {"idle", "ended"} /\ command.by # "smoke"
    /\ smoke' = "upgrade"
    /\ UNCHANGED <<db, work, command, probe, smokeFailed>>

SmokeTarget == [upgrade |-> HeadRevision, inject |-> HeadRevision, downgrade |-> 0, again |-> HeadRevision,
                cleanup |-> HeadRevision]

SmokeCommand ==
    /\ smoke \in DOMAIN SmokeTarget /\ (smoke = "inject" => probe)
    /\ Start("smoke", SmokeTarget[smoke])

\* seed_marker.
SeedMarker ==
    /\ smoke = "seed" /\ command = NoCommand
    /\ db' = [db EXCEPT !.seeded = TRUE]
    /\ smoke' = "inject"
    /\ UNCHANGED <<work, command, probe, smokeFailed>>

\* install_failing_revision.
InstallProbe ==
    /\ smoke = "inject" /\ ~probe
    /\ probe' = TRUE
    /\ UNCHANGED <<db, work, command, smoke, smokeFailed>>

MigrationNext ==
    \/ StartSmoke \/ SmokeCommand \/ SeedMarker \/ InstallProbe
    \/ \E to \in 0..HeadRevision : Start("operator", to)
    \/ RunRevision \/ CommitMigration
    \/ \E who \in {"smoke", "operator"} : Kill(who)

MigrationSpec == MigrationInit /\ [][MigrationNext]_migrationVars

-----------------------------------------------------------------------------
\* Whatever the sequence of upgrades, downgrades, refused revisions and kills,
\* and whichever commit made the database, its version tells the truth: the
\* tables and columns of every wave up to it are there, all of them at the
\* head, and no table of a workspace is ever committed without its isolation
\* policy, no append-only one without its trigger.
SchemaMatchesVersion ==
    /\ db.markers = (db.version > 0)
    /\ 2..db.version \subseteq db.tables /\ 3..db.version \subseteq db.columns
    /\ db.version = HeadRevision => db.tables = Metadata
    /\ db.policies = db.tables /\ db.triggers = db.tables
    /\ db.version < 2 => db.tables = {}

\* What the harness catalog expects of migration_smoke.py on a database of its
\* own: upgrade, failed revision, downgrade and re-upgrade succeed.
LifecycleSucceeds == ~smokeFailed
=============================================================================
