--------------------------- MODULE ReleaseProofs ---------------------------
(***************************************************************************)
(* Proofs about what comes before the service: the release train, the      *)
(* migrations, the certification of a revision and the harness registry;   *)
(* for every number of commits, edits, attempts and harnesses.             *)
(***************************************************************************)
EXTENDS ReleaseTrain, Migrations, Certification, HarnessRegistry, SequenceTheorems, FiniteSetTheorems, TLAPS

-----------------------------------------------------------------------------
(* The release train.                                                      *)

Certifying == {"subject", "check", "release", "cutover", "close"}
Finalizing == {"audit_to_review", "audit_to_approve", "approve"}

\* The invocation under way is the last one, and what was left was left by it or before.
TrainTyped ==
    /\ revision \in Nat \ {0} /\ attempts \in Nat
    /\ train \in [step : {"idle"} \cup Certifying \cup Finalizing, subject : Nat]
    /\ release \in [subject : Nat, by : Nat] /\ release.subject <= revision
    /\ items \in [subject : Nat, by : Nat] /\ items.by <= attempts
    /\ gates \in [audits : Nat, by : Nat]
    /\ cutover \in Nat /\ audits \in Nat

\* What a script under way can rely on, on disk and in the plan.
UnderWayInv ==
    /\ train.step \in Certifying => ~ItemsClosed
    /\ train.step \in {"check", "release", "cutover", "close"} =>
          train.subject # 0 /\ train.subject <= revision
    /\ train.step \in {"cutover", "close"} => release.by = attempts /\ train.subject <= release.subject
    /\ train.step = "close" => cutover = attempts
    /\ train.step \in Finalizing => ItemsClosed /\ items.by < attempts
    /\ train.step = "approve" => audits = attempts

TrainInv == TrainTyped /\ UnderWayInv /\ PlanEarned

LEMMA TrainNextInv == TrainInv /\ [TrainNext]_trainVars => TrainInv'
  <1> SUFFICES ASSUME TrainInv, [TrainNext]_trainVars PROVE TrainInv'
    OBVIOUS
  <1> USE DEF TrainInv, TrainTyped, UnderWayInv, PlanEarned, ItemsEarned, GatesEarned, ItemsClosed, GatesClosed,
              ItemsOpen, Idle, Certifying, Finalizing
  <1>1. ASSUME NEW environment \in BOOLEAN, NEW soak \in BOOLEAN,
               StartCertifying(environment, soak)
        PROVE  TrainInv'
    BY <1>1 DEF StartCertifying, InputsOK
  <1>2. CASE ReadTrainSubject
    BY <1>2 DEF ReadTrainSubject
  <1>3. ASSUME NEW ok \in BOOLEAN, RunChecks(ok) PROVE TrainInv'
    BY <1>3 DEF RunChecks, After
  <1>4. ASSUME NEW ok \in BOOLEAN, RunRelease(ok) PROVE TrainInv'
    BY <1>4 DEF RunRelease, After
  <1>5. ASSUME NEW ok \in BOOLEAN, RunCutover(ok) PROVE TrainInv'
    BY <1>5 DEF RunCutover, After
  <1>6. ASSUME NEW ok \in BOOLEAN, RunAudits(ok) PROVE TrainInv'
    BY <1>6 DEF RunAudits, After
  <1>7. CASE CloseItems
    BY <1>7 DEF CloseItems
  <1>8. ASSUME NEW approve \in BOOLEAN, StartFinal(approve) PROVE TrainInv'
    BY <1>8 DEF StartFinal
  <1>9. ASSUME NEW approve \in BOOLEAN, CloseGates(approve) PROVE TrainInv'
    BY <1>9 DEF CloseGates
  <1>10. CASE CommitRevision \/ Interrupted
    BY <1>10 DEF CommitRevision, Interrupted
  <1>11. CASE UNCHANGED trainVars
    BY <1>11 DEF trainVars
  <1>12. QED
    BY <1>1, <1>2, <1>3, <1>4, <1>5, <1>6, <1>7, <1>8, <1>9, <1>10, <1>11 DEF TrainNext

\* certify_plan_through_item_35 and finalize_final_verification, for every number of
\* commits and invocations: the items are closed by an invocation that signed a release
\* of its subject or a later commit and cut over itself, the gates by a later one on
\* the audits it ran; nothing an earlier invocation left behind counts.
THEOREM PlanIsEarned == TrainSpec => []PlanEarned
  <1>1. TrainInit => TrainInv
    BY DEF TrainInit, TrainInv, TrainTyped, UnderWayInv, PlanEarned, ItemsEarned, GatesEarned, ItemsClosed,
           GatesClosed, ItemsOpen, Idle, Certifying, Finalizing
  <1>2. TrainInv => PlanEarned
    BY DEF TrainInv
  <1>3. QED BY <1>1, <1>2, TrainNextInv, PTL DEF TrainSpec
-----------------------------------------------------------------------------
(* The migrations.                                                         *)

SchemaFields == {"version", "markers", "seeded", "tables", "columns", "policies", "triggers", "usage"}

\* A schema tells the truth about itself: the committed one and, after every
\* revision, the one the running transaction sees.
SchemaTrue(s) ==
    /\ DOMAIN s = SchemaFields
    /\ s.version \in {0, 1, 2, 3, 4}
    /\ s.version = 0 => s.markers = FALSE
    /\ s.version > 0 => s.markers = TRUE
    /\ s.tables \subseteq Metadata
    /\ s.version \in {2, 3, 4} => 2 \in s.tables
    /\ s.version \in {3, 4} => 3 \in s.tables \cap s.columns
    /\ s.version = 4 => 4 \in s.tables \cap s.columns
    /\ s.policies = s.tables /\ s.triggers = s.tables
    /\ s.version < 2 => s.tables = {}

MigrationInv ==
    /\ SchemaTrue(db) /\ SchemaTrue(work)
    /\ command.to \in 0..HeadRevision

\* The waves, counted out.
LEMMA Waves ==
    /\ 2..0 = {} /\ 2..1 = {} /\ 2..2 = {2} /\ 2..3 = {2, 3} /\ 2..4 = {2, 3, 4}
    /\ 3..0 = {} /\ 3..1 = {} /\ 3..2 = {} /\ 3..3 = {3} /\ 3..4 = {3, 4}
    /\ 0..HeadRevision = {0, 1, 2, 3, 4}
    /\ Metadata = {2, 3, 4}
  BY DEF HeadRevision, Metadata, CoreTables, TracerTables, ControlTables

\* alembic writes the version after a revision and touches nothing else.
LEMMA VersionWritten ==
    ASSUME NEW t, DOMAIN t = SchemaFields, NEW v, NEW u, u = [t EXCEPT !.version = v]
    PROVE  /\ DOMAIN u = SchemaFields /\ u.version = v
           /\ u.markers = t.markers /\ u.tables = t.tables /\ u.columns = t.columns
           /\ u.policies = t.policies /\ u.triggers = t.triggers
  BY DEF SchemaFields

\* Every revision of the versions directory, upwards.
LEMMA UpgradeTrue ==
    ASSUME NEW s, SchemaTrue(s), s.version < HeadRevision, NEW t \in Upgraded(s)
    PROVE  SchemaTrue([t EXCEPT !.version = s.version + 1]) /\ t.version = s.version
  <1> DEFINE u == [t EXCEPT !.version = s.version + 1]
  <1> USE DEF CoreTables, TracerTables, ControlTables, HeadRevision
  <1>0. DOMAIN t = SchemaFields =>
           /\ DOMAIN u = SchemaFields /\ u.version = s.version + 1
           /\ u.markers = t.markers /\ u.tables = t.tables /\ u.columns = t.columns
           /\ u.policies = t.policies /\ u.triggers = t.triggers
    BY VersionWritten
  <1> HIDE DEF u
  <1>1. CASE s.version = 0
    <2>1. t = [s EXCEPT !.markers = TRUE]
      BY <1>1 DEF Upgraded, CreateMarkers
    <2>2. /\ DOMAIN t = SchemaFields /\ t.version = s.version /\ t.markers = TRUE /\ t.tables = s.tables
          /\ t.policies = s.policies /\ t.triggers = s.triggers
      BY <2>1 DEF SchemaTrue, SchemaFields
    <2>3. SchemaTrue(u)
      BY <1>0, <1>1, <2>2 DEF SchemaTrue
    <2>4. QED BY <2>2, <2>3 DEF u
  <1>2. CASE s.version = 1
    <2>1. /\ s.tables = {}
          /\ t = [s EXCEPT !.tables = Metadata, !.policies = Metadata, !.triggers = Metadata, !.usage = TRUE,
                           !.columns = IF CoreTables \subseteq s.tables THEN @ ELSE TracerTables \cup ControlTables]
      BY <1>2 DEF Upgraded, PlatformCore, SchemaTrue
    <2>2. /\ DOMAIN t = SchemaFields /\ t.version = s.version /\ t.markers = s.markers /\ t.tables = Metadata
          /\ t.columns = TracerTables \cup ControlTables
          /\ t.policies = Metadata /\ t.triggers = Metadata
      BY <2>1 DEF SchemaTrue, SchemaFields
    <2>3. SchemaTrue(u)
      BY <1>0, <1>2, <2>2 DEF SchemaTrue, Metadata
    <2>4. QED BY <2>2, <2>3 DEF u
  <1>3. CASE s.version = 2
    <2>1. t = ProtectTracer(AddTracerColumns(CreateTracerTables(s)))
      BY <1>3 DEF Upgraded, Tracer
    <2>2. /\ DOMAIN t = SchemaFields /\ t.version = s.version /\ t.markers = s.markers /\ t.tables = s.tables \cup {3}
          /\ t.columns = s.columns \cup {3}
          /\ t.policies = s.policies \cup {3} /\ t.triggers = s.triggers \cup {3}
      BY <2>1 DEF SchemaTrue, SchemaFields, ProtectTracer, AddTracerColumns, CreateTracerTables
    <2>3. SchemaTrue(u)
      BY <1>0, <1>3, <2>2 DEF SchemaTrue, Metadata
    <2>4. QED BY <2>2, <2>3 DEF u
  <1>4. CASE s.version = 3
    <2>1. t \in ControlPlaneTables(s)
      BY <1>4 DEF Upgraded
    <2>2. PICK a \in CreateControlTables(s) : \E b \in AlterCoordinationTables(a) : t \in ProtectControl(b)
      BY <2>1 DEF ControlPlaneTables
    <2>3. PICK b \in AlterCoordinationTables(a) : t \in ProtectControl(b)
      BY <2>2
    <2>4. a = [s EXCEPT !.tables = @ \cup {4}]
      BY <2>2 DEF CreateControlTables
    <2>5. b = [a EXCEPT !.columns = @ \cup {4}]
      BY <2>3 DEF AlterCoordinationTables
    <2>6. t = [b EXCEPT !.policies = @ \cup {4}, !.triggers = @ \cup {4}]
      BY <2>3 DEF ProtectControl
    <2>7. /\ DOMAIN t = SchemaFields /\ t.version = s.version /\ t.markers = s.markers /\ t.tables = s.tables \cup {4}
          /\ t.columns = s.columns \cup {4}
          /\ t.policies = s.policies \cup {4} /\ t.triggers = s.triggers \cup {4}
      BY <2>4, <2>5, <2>6 DEF SchemaTrue, SchemaFields
    <2>8. SchemaTrue(u)
      BY <1>0, <1>4, <2>7 DEF SchemaTrue, Metadata
    <2>9. QED BY <2>7, <2>8 DEF u
  <1>5. s.version \in {0, 1, 2, 3}
    BY DEF SchemaTrue
  <1>6. QED BY <1>1, <1>2, <1>3, <1>4, <1>5

\* Every revision, downwards.
LEMMA DowngradeTrue ==
    ASSUME NEW s, SchemaTrue(s), s.version > 0, NEW t \in Downgraded(s)
    PROVE  SchemaTrue([t EXCEPT !.version = s.version - 1]) /\ t.version = s.version
  <1> DEFINE u == [t EXCEPT !.version = s.version - 1]
  <1> USE DEF TracerTables, ControlTables
  <1>0. DOMAIN t = SchemaFields =>
           /\ DOMAIN u = SchemaFields /\ u.version = s.version - 1
           /\ u.markers = t.markers /\ u.tables = t.tables /\ u.columns = t.columns
           /\ u.policies = t.policies /\ u.triggers = t.triggers
    BY VersionWritten
  <1> HIDE DEF u
  <1>1. CASE s.version = 1
    <2>1. t = [s EXCEPT !.markers = FALSE, !.seeded = FALSE]
      BY <1>1 DEF Downgraded, MarkersDropped
    <2>2. /\ DOMAIN t = SchemaFields /\ t.version = s.version /\ t.markers = FALSE /\ t.tables = s.tables
          /\ t.policies = s.policies /\ t.triggers = s.triggers
      BY <2>1 DEF SchemaTrue, SchemaFields
    <2>3. SchemaTrue(u)
      BY <1>0, <1>1, <2>2 DEF SchemaTrue
    <2>4. QED BY <2>2, <2>3 DEF u
  <1>2. CASE s.version = 2
    <2>1. t = [s EXCEPT !.tables = {}, !.columns = {}, !.policies = {}, !.triggers = {}]
      BY <1>2 DEF Downgraded, CoreDropped
    <2>2. /\ DOMAIN t = SchemaFields /\ t.version = s.version /\ t.markers = s.markers /\ t.tables = {}
          /\ t.policies = {} /\ t.triggers = {}
      BY <2>1 DEF SchemaTrue, SchemaFields
    <2>3. SchemaTrue(u)
      BY <1>0, <1>2, <2>2 DEF SchemaTrue
    <2>4. QED BY <2>2, <2>3 DEF u
  <1>3. ASSUME NEW w \in {3, 4}, s.version = w, t \in Dropped(s, {w}) PROVE SchemaTrue(u) /\ t.version = s.version
    <2>1. t = [s EXCEPT !.tables = @ \ {w}, !.columns = @ \ {w}, !.policies = @ \ {w}, !.triggers = @ \ {w}]
      BY <1>3 DEF Dropped
    <2>2. /\ DOMAIN t = SchemaFields /\ t.version = s.version /\ t.markers = s.markers /\ t.tables = s.tables \ {w}
          /\ t.columns = s.columns \ {w}
          /\ t.policies = s.policies \ {w} /\ t.triggers = s.triggers \ {w}
      BY <2>1 DEF SchemaTrue, SchemaFields
    <2>3. \/ s.version = 3 /\ w = 3 /\ s.version - 1 = 2
          \/ s.version = 4 /\ w = 4 /\ s.version - 1 = 3
      BY <1>3
    <2>4. /\ DOMAIN u = SchemaFields /\ u.version = s.version - 1 /\ u.markers = s.markers
          /\ u.tables = s.tables \ {w} /\ u.columns = s.columns \ {w}
          /\ u.policies = u.tables /\ u.triggers = u.tables
      BY <1>0, <2>2 DEF SchemaTrue
    <2>5. u.tables \subseteq Metadata
      BY <2>4 DEF SchemaTrue
    <2>6. s.version > 0 /\ s.markers = TRUE /\ 2 \in s.tables
      BY <2>3 DEF SchemaTrue
    <2>7. CASE w = 3
      <3>1. u.version = 2
        BY <2>3, <2>4, <2>7
      <3>2. SchemaTrue(u)
        BY <2>4, <2>5, <2>6, <2>7, <3>1 DEF SchemaTrue
      <3>3. QED BY <2>2, <3>2
    <2>8. CASE w = 4
      <3>1. u.version = 3 /\ 3 \in s.tables /\ 3 \in s.columns
        BY <2>3, <2>4, <2>8 DEF SchemaTrue
      <3>2. SchemaTrue(u)
        BY <2>4, <2>5, <2>6, <2>8, <3>1 DEF SchemaTrue
      <3>3. QED BY <2>2, <3>2
    <2>9. QED BY <1>3, <2>7, <2>8
  <1>4. CASE s.version \in {3, 4}
    <2>1. t \in Dropped(s, {s.version})
      BY <1>4 DEF Downgraded
    <2>2. SchemaTrue(u) /\ t.version = s.version
      BY <1>3, <1>4, <2>1
    <2>3. QED BY <2>2 DEF u
  <1>5. s.version \in {1, 2, 3, 4}
    BY DEF SchemaTrue
  <1>6. QED BY <1>1, <1>2, <1>4, <1>5

LEMMA MadeByTrue == \A w \in Databases : SchemaTrue(MadeBy(w))
  <1> SUFFICES ASSUME NEW w \in Databases PROVE SchemaTrue(MadeBy(w))
    OBVIOUS
  <1>1. w \in {0, 2, 3, 4}
    BY DatabasesOK DEF HeadRevision
  <1>2. QED
    BY <1>1, Waves DEF MadeBy, Empty, SchemaTrue, SchemaFields, HeadRevision

LEMMA MigrationNextInv == MigrationInv /\ [MigrationNext]_migrationVars => MigrationInv'
  <1> SUFFICES ASSUME MigrationInv, [MigrationNext]_migrationVars PROVE MigrationInv'
    OBVIOUS
  <1> USE DEF MigrationInv
  <1>0. db.version \in {0, 1, 2, 3, 4} /\ work.version \in {0, 1, 2, 3, 4} /\ HeadRevision = 4
    BY Waves DEF SchemaTrue, SchemaFields, HeadRevision
  <1>1. CASE StartSmoke \/ InstallProbe
    BY <1>1 DEF StartSmoke, InstallProbe
  <1>2. ASSUME NEW who, NEW to \in 0..HeadRevision, Start(who, to) PROVE MigrationInv'
    BY <1>2 DEF Start
  <1>3. CASE SmokeCommand
    <2>1. SmokeTarget[smoke] \in 0..HeadRevision
      BY <1>3, <1>0, Waves DEF SmokeCommand, SmokeTarget
    <2>2. QED BY <1>2, <1>3, <2>1 DEF SmokeCommand
  <1>4. CASE SeedMarker
    BY <1>4 DEF SeedMarker, SchemaTrue, SchemaFields
  <1>5. CASE RunRevision
    <2>1. db' = db /\ command'.to \in 0..HeadRevision
      BY <1>5, Waves DEF RunRevision, NoCommand
    <2>2. CASE work' = db
      BY <2>1, <2>2
    <2>3. ASSUME work.version < command.to, NEW s \in Upgraded(work),
                 work' = [s EXCEPT !.version = s.version + 1]
          PROVE  MigrationInv'
      <3>1. SchemaTrue([s EXCEPT !.version = work.version + 1]) /\ s.version = work.version
        BY <2>3, <1>0, UpgradeTrue, Waves
      <3>2. SchemaTrue(work')
        BY <2>3, <3>1
      <3>3. QED BY <2>1, <3>2
    <2>4. ASSUME ~(work.version < command.to), work.version # command.to, NEW s \in Downgraded(work),
                 work' = [s EXCEPT !.version = s.version - 1]
          PROVE  MigrationInv'
      <3>1. SchemaTrue([s EXCEPT !.version = work.version - 1]) /\ s.version = work.version
        BY <2>4, <1>0, DowngradeTrue, Waves
      <3>2. SchemaTrue(work')
        BY <2>4, <3>1
      <3>3. QED BY <2>1, <3>2
    <2>5. QED
      BY <1>5, <2>2, <2>3, <2>4 DEF RunRevision
  <1>6. CASE CommitMigration
    BY <1>6, Waves DEF CommitMigration, NoCommand
  <1>7. ASSUME NEW who, Kill(who) PROVE MigrationInv'
    BY <1>7, Waves DEF Kill, NoCommand
  <1>8. CASE UNCHANGED migrationVars
    BY <1>8 DEF migrationVars
  <1>9. QED
    BY <1>1, <1>2, <1>3, <1>4, <1>5, <1>6, <1>7, <1>8 DEF MigrationNext

\* infra/alembic and migration_smoke.py: whatever commands, refusals and kills come
\* one after the other, and whichever wave made the database, what is committed has
\* the tables, columns, policies and triggers its alembic_version promises.
THEOREM CommittedSchemaIsTrue == MigrationSpec => []SchemaMatchesVersion
  <1>1. MigrationInit => MigrationInv
    BY MadeByTrue, Waves DEF MigrationInit, MigrationInv, NoCommand
  <1>2. MigrationInv => SchemaMatchesVersion
    <2> SUFFICES ASSUME MigrationInv PROVE SchemaMatchesVersion
      OBVIOUS
    <2>1. SchemaTrue(db)
      BY DEF MigrationInv
    <2>2. db.markers = (db.version > 0)
      <3>1. CASE db.version = 0
        <4>1. db.markers = FALSE /\ (db.version > 0) = FALSE
          BY <2>1, <3>1 DEF SchemaTrue
        <4>2. QED BY <4>1
      <3>2. CASE db.version > 0
        <4>1. db.markers = TRUE /\ (db.version > 0) = TRUE
          BY <2>1, <3>2 DEF SchemaTrue
        <4>2. QED BY <4>1
      <3>3. QED BY <2>1, <3>1, <3>2 DEF SchemaTrue
    <2>3. 2..db.version \subseteq db.tables /\ 3..db.version \subseteq db.columns
      BY <2>1 DEF SchemaTrue
    <2>4. db.version = HeadRevision => db.tables = Metadata
      BY <2>1, Waves DEF SchemaTrue, HeadRevision
    <2>5. /\ db.policies = db.tables /\ db.triggers = db.tables
          /\ db.version < 2 => db.tables = {}
      BY <2>1 DEF SchemaTrue
    <2>6. QED BY <2>2, <2>3, <2>4, <2>5 DEF SchemaMatchesVersion
  <1>3. QED BY <1>1, <1>2, MigrationNextInv, PTL DEF MigrationSpec
-----------------------------------------------------------------------------
(* The certification of a revision.                                        *)

CertFields == {"kind", "producer", "pc", "subject", "tree", "next", "failed", "satisfied", "hashes",
               "evidence", "verdict"}
RecordFields == {"harness", "subject", "exit", "status", "artifact"}

\* Records on disk and the one being written have their fields.
CertTyped ==
    /\ head \in Nat /\ dirty \in BOOLEAN /\ restored \in BOOLEAN
    /\ DOMAIN cert = CertFields /\ DOMAIN cert.hashes = Members
    /\ cert.next \in DOMAIN Order
    /\ cert.pc \in {"start", "second", "run", "record", "recheck", "reload", "done"}
    /\ cert.pc # "done" => cert.verdict = "none"
    /\ cert.pc \in {"start", "second"} => cert.next = 1
    /\ DOMAIN record = Members /\ DOMAIN artifact = Members
    /\ DOMAIN ranOn = Members /\ DOMAIN written = Members
    /\ \A h \in Members : DOMAIN record[h] = RecordFields

\* How far the certification has come: harness number k is behind it, its command has run.
Behind(k) == cert.pc \in {"recheck", "reload"} \/ k < cert.next
Ran(k) == Behind(k) \/ (cert.pc = "record" /\ k = cert.next)

\* A command that ran since the subject was named and until now the tree is
\* as the subject has it: it was so when the command ran.
Exact == cert.pc # "start" /\ (cert.pc = "reload" \/ (~dirty /\ head = cert.subject))

FoundationInv ==
    cert.kind = "foundation" =>
        /\ cert.pc # "start" => cert.subject \in Nat /\ cert.subject <= head
        /\ \A h \in Members : cert.hashes[h] = written[h]
        /\ cert.pc = "record" => Prerequisites[Current] \subseteq cert.satisfied
        /\ cert.pc = "reload" => ~cert.failed
        /\ (~cert.failed /\ cert.pc # "done") =>
              \A k \in DOMAIN Order : Behind(k) => Prerequisites[Order[k]] \subseteq cert.satisfied
        /\ (~cert.failed /\ cert.pc # "done" /\ ~restored /\ Exact) =>
              \A k \in DOMAIN Order :
                  Ran(k) => ranOn[Order[k]] = [head |-> cert.subject, dirty |-> FALSE]

\* The record is the artifact: nothing else is declared, digested or left to alter.
RunnerInv ==
    \A h \in Members \cap RunnerEvidence :
        artifact[h] = "none" /\ record[h].artifact = "none" /\ written[h].artifact = "none"

\* A release goes on only past a pass, or what does not block.
WaivedInv ==
    (cert.kind = "release" /\ cert.pc # "done") =>
        \A h \in Members : record[h].status = "not_applicable" => h \notin Blocking

\* What is promised of a foundation and of a signed release.
Promised == RevisionBound /\ EvidenceAsWritten /\ NothingWaived

CertInv == CertTyped /\ FoundationInv /\ RunnerInv /\ WaivedInv /\ Promised

LEMMA OrderMembers ==
    /\ DOMAIN Order = 1..Len(Order) /\ Len(Order) \in Nat \ {0} /\ 1 \in DOMAIN Order
    /\ \A k \in DOMAIN Order : Order[k] \in Members
    /\ \A h \in Members : \E k \in DOMAIN Order : Order[k] = h
  BY OrderOK DEF Members

\* Before its last step a certification has promised nothing yet.
LEMMA NotYet ==
    cert.verdict = "none" => Promised
  BY DEF Promised, RevisionBound, EvidenceAsWritten, NothingWaived

LEMMA CertInitInv ==
    ASSUME NEW kinds, NEW producers, CertInit(kinds, producers) PROVE CertInv
  <1>1. PICK k \in kinds, p \in producers :
           cert = [kind |-> k, producer |-> p, pc |-> "start", subject |-> 0, tree |-> 0, next |-> 1,
                   failed |-> FALSE, satisfied |-> {}, hashes |-> [h \in Members |-> NoRecord],
                   evidence |-> {}, verdict |-> "none"]
    BY DEF CertInit
  <1>2. /\ DOMAIN cert = CertFields /\ cert.hashes = [h \in Members |-> NoRecord] /\ cert.pc = "start"
        /\ cert.next = 1 /\ cert.verdict = "none"
    BY <1>1 DEF CertFields
  <1>3. CertTyped
    BY <1>2, OrderMembers DEF CertInit, CertTyped, NoRecord, RecordFields
  <1>4. FoundationInv
    BY <1>2, OrderMembers DEF CertInit, FoundationInv, Behind, Ran, Exact
  <1>5. RunnerInv /\ WaivedInv
    BY <1>2 DEF CertInit, RunnerInv, WaivedInv, NoRecord
  <1>6. QED
    BY <1>2, <1>3, <1>4, <1>5, NotYet DEF CertInv

\* Somebody works on the tree.
LEMMA TreeWork ==
    ASSUME CertInv, EditTree \/ RestoreTree \/ CommitTree PROVE CertInv'
  <1>1. UNCHANGED <<cert, outcome, record, artifact, stray, ranOn, written>>
    BY DEF EditTree, RestoreTree, CommitTree
  <1>2. /\ head' \in Nat /\ head <= head' /\ dirty' \in BOOLEAN /\ restored' \in BOOLEAN
        /\ restored => restored'
        /\ (~dirty' /\ ~restored') => head' > head
    <2>1. head \in Nat /\ dirty \in BOOLEAN /\ restored \in BOOLEAN
      BY DEF CertInv, CertTyped
    <2>2. CASE EditTree
      <3>1. dirty' /\ dirty' \in BOOLEAN /\ restored' = restored /\ head' = head
        BY <2>2, Zenon DEF EditTree
      <3>2. QED BY <2>1, <3>1
    <2>3. CASE RestoreTree
      <3>1. restored' /\ restored' \in BOOLEAN /\ dirty' \in BOOLEAN /\ head' = head
        BY <2>3, Zenon DEF RestoreTree
      <3>2. QED BY <2>1, <3>1
    <2>4. CASE CommitTree
      <3>1. dirty' \in BOOLEAN /\ restored' = restored /\ head' = head + 1
        BY <2>4, Zenon DEF CommitTree
      <3>2. QED BY <2>1, <3>1
    <2>5. QED BY <2>2, <2>3, <2>4
  <1>3. CertTyped'
    BY <1>1, <1>2 DEF CertInv, CertTyped
  <1>4. \A k : (Behind(k)' <=> Behind(k)) /\ (Ran(k)' <=> Ran(k))
    BY <1>1 DEF Behind, Ran
  <1>5. Exact' /\ ~restored' /\ cert.kind = "foundation" => Exact
    BY <1>1, <1>2 DEF CertInv, CertTyped, FoundationInv, Exact
  <1>6. Current' = Current
    BY <1>1 DEF Current
  <1>7. FoundationInv'
    <2> SUFFICES ASSUME cert'.kind = "foundation" PROVE FoundationInv!2'
      BY DEF FoundationInv
    <2>1. /\ cert.kind = "foundation" /\ FoundationInv!2
      BY <1>1 DEF CertInv, FoundationInv
    <2>2. cert'.pc # "start" => cert'.subject \in Nat /\ cert'.subject <= head'
      BY <1>1, <1>2, <2>1 DEF CertInv, CertTyped
    <2>3. (~cert'.failed /\ cert'.pc # "done" /\ ~restored' /\ Exact') =>
             \A k \in DOMAIN Order :
                 Ran(k)' => ranOn'[Order[k]] = [head |-> cert'.subject, dirty |-> FALSE]
      BY <1>1, <1>2, <1>4, <1>5, <2>1, Zenon
    <2>4. QED BY <1>1, <1>4, <1>6, <2>1, <2>2, <2>3, Zenon
  <1>8. RunnerInv' /\ WaivedInv'
    BY <1>1 DEF CertInv, RunnerInv, WaivedInv
  <1>9. Promised'
    <2>1. RevisionBound'
      BY <1>1, <1>2 DEF CertInv, Promised, RevisionBound
    <2>2. EvidenceAsWritten' /\ NothingWaived'
      BY <1>1 DEF CertInv, Promised, EvidenceAsWritten, NothingWaived
    <2>3. QED BY <2>1, <2>2 DEF Promised
  <1>10. QED
    BY <1>3, <1>7, <1>8, <1>9 DEF CertInv

\* The running harness touches what the earlier ones left.
LEMMA Interference ==
    ASSUME CertInv, HarnessInterferes PROVE CertInv'
  <1>1. /\ UNCHANGED <<head, dirty, edits, restored, cert, outcome, ranOn, written>>
        /\ cert.pc = "record"
    BY DEF HarnessInterferes
  <1>2. DOMAIN record' = Members /\ DOMAIN artifact' = Members
    BY DEF HarnessInterferes, CertInv, CertTyped
  <1>3. ASSUME NEW h \in Members
        PROVE  /\ DOMAIN record'[h] = RecordFields
               /\ record'[h].status = "not_applicable" => record[h].status = "not_applicable"
               /\ (record[h].artifact = "none" /\ artifact[h] = "none") =>
                     record'[h].artifact = "none" /\ artifact'[h] = "none"
    <2>1. DOMAIN record[h] = RecordFields /\ DOMAIN NoRecord = RecordFields
          /\ NoRecord.status = "none" /\ NoRecord.artifact = "none"
      BY DEF CertInv, CertTyped, NoRecord, RecordFields
    <2>2. ASSUME NEW g \in Members, NEW s \in {"pass", "fail"}, record' = [record EXCEPT ![g].status = s],
                 UNCHANGED artifact
          PROVE  <1>3!2
      <3>1. record'[h] = IF h = g THEN [record[h] EXCEPT !.status = s] ELSE record[h]
        BY <2>2 DEF CertInv, CertTyped
      <3>2. QED BY <2>1, <2>2, <3>1 DEF RecordFields
    <2>3. ASSUME NEW g \in Members, record' = [record EXCEPT ![g] = NoRecord], UNCHANGED artifact
          PROVE  <1>3!2
      BY <2>1, <2>3 DEF CertInv, CertTyped
    <2>4. ASSUME NEW g \in Members, artifact[g] # "none", artifact' = [artifact EXCEPT ![g] = "altered"],
                 UNCHANGED record
          PROVE  <1>3!2
      BY <2>1, <2>4 DEF CertInv, CertTyped
    <2>5. ASSUME NEW g \in Members, record[g].artifact # "none",
                 record' = [record EXCEPT ![g].artifact = "altered"],
                 artifact' = [artifact EXCEPT ![g] = "altered"]
          PROVE  <1>3!2
      <3>1. record'[h] = IF h = g THEN [record[h] EXCEPT !.artifact = "altered"] ELSE record[h]
        BY <2>5 DEF CertInv, CertTyped
      <3>2. artifact'[h] = IF h = g THEN "altered" ELSE artifact[h]
        BY <2>5 DEF CertInv, CertTyped
      <3>3. QED BY <2>1, <2>5, <3>1, <3>2 DEF RecordFields
    <2>6. CASE UNCHANGED <<record, artifact>>
      BY <2>1, <2>6
    <2>7. QED
      BY <2>2, <2>3, <2>4, <2>5, <2>6 DEF HarnessInterferes
  <1>4. CertTyped'
    BY <1>1, <1>2, <1>3 DEF CertInv, CertTyped
  <1>5. FoundationInv'
    BY <1>1 DEF CertInv, FoundationInv, Behind, Ran, Exact, Current
  <1>6. RunnerInv' /\ WaivedInv'
    BY <1>1, <1>3 DEF CertInv, RunnerInv, WaivedInv
  <1>7. Promised'
    BY <1>1 DEF CertInv, CertTyped, Promised, RevisionBound, EvidenceAsWritten, NothingWaived
  <1>8. QED
    BY <1>4, <1>5, <1>6, <1>7 DEF CertInv

\* Until a certification ends nothing is promised; once it is refused neither.
LEMMA NothingPromised ==
    ASSUME cert'.verdict \in {"none", "refused"} PROVE Promised'
  BY DEF Promised, RevisionBound, EvidenceAsWritten, NothingWaived

\* The steps that write nothing but the certification itself.
CertOnly == UNCHANGED <<head, dirty, edits, restored, outcome, record, artifact, stray, ranOn, written>>

\* A refusal ends it.
LEMMA Refused ==
    ASSUME CertInv, CertOnly, DOMAIN cert' = CertFields, cert'.pc = "done", cert'.verdict = "refused",
           cert'.hashes = cert.hashes, cert'.next = cert.next, cert'.kind = cert.kind,
           cert.kind = "foundation" => cert'.subject \in Nat /\ cert'.subject <= head
    PROVE  CertInv'
  <1>1. CertTyped'
    BY DEF CertInv, CertTyped, CertOnly
  <1>2. FoundationInv' /\ RunnerInv' /\ WaivedInv'
    BY DEF CertInv, FoundationInv, RunnerInv, WaivedInv, CertOnly, Behind, Ran, Exact
  <1>3. QED BY <1>1, <1>2, NothingPromised DEF CertInv

LEMMA PrepareInv ==
    ASSUME CertInv, Prepare PROVE CertInv'
  <1>1. CertOnly /\ cert.pc \in {"start", "second"}
    BY DEF Prepare, ReadSubject, CheckClean, CertOnly
  <1>2. DOMAIN cert = CertFields /\ head \in Nat /\ cert.next = 1 /\ cert.verdict = "none"
    BY <1>1 DEF CertInv, CertTyped
  <1>3. ASSUME cert.kind = "foundation" => cert.pc = "second",
               cert' = [cert EXCEPT !.pc = "done", !.verdict = "refused"]
        PROVE  CertInv'
    <2>1. /\ DOMAIN cert' = CertFields /\ cert'.pc = "done" /\ cert'.verdict = "refused"
          /\ cert'.hashes = cert.hashes /\ cert'.next = cert.next /\ cert'.kind = cert.kind
          /\ cert'.subject = cert.subject
      BY <1>2, <1>3 DEF CertFields
    <2>2. cert.kind = "foundation" => cert'.subject \in Nat /\ cert'.subject <= head
      BY <1>3, <2>1 DEF CertInv, FoundationInv
    <2>3. QED BY <1>1, <2>1, <2>2, Refused
  <1>4. ASSUME /\ DOMAIN cert' = CertFields /\ cert'.pc \in {"second", "run"} /\ cert'.verdict = cert.verdict
               /\ cert'.hashes = cert.hashes /\ cert'.next = cert.next /\ cert'.kind = cert.kind
               /\ cert'.failed = cert.failed /\ cert'.satisfied = cert.satisfied,
               cert.kind = "foundation" => cert'.subject \in Nat /\ cert'.subject <= head
        PROVE  CertInv'
    <2>1. CertTyped'
      BY <1>1, <1>2, <1>4 DEF CertInv, CertTyped, CertOnly
    <2>2. \A k \in DOMAIN Order : ~Behind(k)' /\ ~Ran(k)'
      BY <1>2, <1>4, OrderMembers DEF Behind, Ran
    <2>3. FoundationInv'
      BY <1>1, <1>4, <2>2 DEF CertInv, FoundationInv, CertOnly
    <2>4. RunnerInv' /\ WaivedInv'
      BY <1>1, <1>4 DEF CertInv, RunnerInv, WaivedInv, CertOnly
    <2>5. QED BY <1>2, <1>4, <2>1, <2>3, <2>4, NothingPromised DEF CertInv
  <1>5. ASSUME NEW n \in {"second", "run"}, ReadSubject(n) PROVE CertInv'
    <2>1. cert' = [cert EXCEPT !.subject = head, !.tree = head, !.pc = n]
      BY <1>5 DEF ReadSubject
    <2>2. QED BY <1>2, <1>4, <2>1 DEF CertFields
  <1>6. ASSUME NEW n \in {"second", "run"}, CheckClean(n), cert.kind = "foundation" => cert.pc = "second"
        PROVE  CertInv'
    <2>1. CASE dirty
      BY <1>3, <1>6, <2>1 DEF CheckClean
    <2>2. CASE ~dirty
      <3>1. cert' = [cert EXCEPT !.pc = n, !.tree = head]
        BY <1>6, <2>2 DEF CheckClean
      <3>2. cert.kind = "foundation" => cert.subject \in Nat /\ cert.subject <= head
        BY <1>6 DEF CertInv, FoundationInv
      <3>3. QED BY <1>2, <1>4, <3>1, <3>2 DEF CertFields
    <2>3. QED BY <2>1, <2>2
  <1>7. QED
    BY <1>5, <1>6 DEF Prepare, FirstCheck, SecondCheck

\* A harness or a step is behind it: the next harness, or what comes after the last.
NextIndex == IF cert.next = Len(Order) THEN cert.next ELSE cert.next + 1

LEMMA Onward ==
    ASSUME CertTyped, cert'.pc = NextHarness, cert'.next = NextIndex
    PROVE  /\ cert'.next \in DOMAIN Order /\ cert'.pc \in {"run", "recheck"}
           /\ \A k \in DOMAIN Order : Behind(k)' <=> k <= cert.next
           /\ \A k \in DOMAIN Order : Ran(k)' <=> k <= cert.next
  BY OrderMembers DEF CertTyped, NextHarness, NextIndex, Behind, Ran

LEMMA SkipInv ==
    ASSUME CertInv, SkipHarness PROVE CertInv'
  <1>1. CertOnly /\ cert.pc = "run" /\ DOMAIN cert = CertFields /\ cert.verdict = "none"
    BY DEF SkipHarness, CertInv, CertTyped, CertOnly
  <1>2. /\ DOMAIN cert' = CertFields /\ cert'.pc = NextHarness /\ cert'.verdict = cert.verdict
        /\ cert'.hashes = cert.hashes /\ cert'.next = NextIndex /\ cert'.kind = cert.kind
        /\ cert'.failed = TRUE /\ cert'.subject = cert.subject
    BY <1>1 DEF SkipHarness, CertFields, NextIndex
  <1>3. cert'.next \in DOMAIN Order /\ cert'.pc \in {"run", "recheck"}
    BY <1>2, Onward DEF CertInv
  <1>4. CertTyped'
    BY <1>1, <1>2, <1>3 DEF CertInv, CertTyped, CertOnly
  <1>5. FoundationInv'
    BY <1>1, <1>2, <1>3 DEF CertInv, FoundationInv, CertOnly
  <1>6. RunnerInv' /\ WaivedInv'
    BY <1>1, <1>2 DEF CertInv, RunnerInv, WaivedInv, CertOnly
  <1>7. QED BY <1>1, <1>2, <1>4, <1>5, <1>6, NothingPromised DEF CertInv

LEMMA RunCommandInv ==
    ASSUME CertInv, NEW o, RunCommand(o) PROVE CertInv'
  <1>1. /\ UNCHANGED <<head, dirty, edits, restored, record, stray, written>>
        /\ cert.pc = "run" /\ DOMAIN cert = CertFields /\ cert.verdict = "none"
    BY DEF RunCommand, CertInv, CertTyped
  <1>2. /\ DOMAIN cert' = CertFields /\ cert'.pc = "record" /\ cert'.verdict = cert.verdict
        /\ cert'.hashes = cert.hashes /\ cert'.next = cert.next /\ cert'.kind = cert.kind
        /\ cert'.failed = cert.failed /\ cert'.satisfied = cert.satisfied /\ cert'.subject = cert.subject
    BY <1>1 DEF RunCommand, CertFields
  <1>3. Current \in Members /\ cert.next \in DOMAIN Order /\ Current = Order[cert.next]
    BY OrderMembers DEF Current, CertInv, CertTyped
  <1>4. /\ DOMAIN artifact' = Members /\ DOMAIN ranOn' = Members
        /\ \A h \in Members \cap RunnerEvidence : artifact[h] = "none" => artifact'[h] = "none"
        /\ \A h \in Members : ranOn'[h] = IF h = Current THEN [head |-> head, dirty |-> dirty] ELSE ranOn[h]
    BY <1>3 DEF RunCommand, CertInv, CertTyped
  <1>5. CertTyped'
    BY <1>1, <1>2, <1>4 DEF CertInv, CertTyped
  <1>6. \A k \in DOMAIN Order : (Behind(k)' <=> Behind(k)) /\ (Ran(k)' <=> Ran(k) \/ k = cert.next)
    BY <1>1, <1>2 DEF Behind, Ran
  <1>7. FoundationInv'
    <2> SUFFICES ASSUME cert'.kind = "foundation" PROVE FoundationInv!2'
      BY DEF FoundationInv
    <2>1. cert.kind = "foundation" /\ FoundationInv!2
      BY <1>2 DEF CertInv, FoundationInv
    <2>2. Prerequisites[Current] \subseteq cert.satisfied /\ Current' = Current
      BY <1>2, <2>1 DEF RunCommand, Runnable, Current
    <2>3. ASSUME ~cert'.failed, ~restored', Exact', NEW k \in DOMAIN Order, Ran(k)'
          PROVE  ranOn'[Order[k]] = [head |-> cert'.subject, dirty |-> FALSE]
      <3>1. ~dirty /\ head = cert.subject /\ Exact
        BY <1>1, <1>2, <2>3 DEF Exact
      <3>2. dirty = FALSE
        BY <3>1, Zenon DEF CertInv, CertTyped
      <3>3. CASE Order[k] = Current
        BY <1>2, <1>3, <1>4, <3>1, <3>2, <3>3
      <3>4. CASE Order[k] # Current
        <4>1. Ran(k)
          BY <1>3, <1>6, <2>3, <3>4
        <4>2. ranOn[Order[k]] = [head |-> cert.subject, dirty |-> FALSE]
          BY <1>1, <1>2, <2>1, <2>3, <3>1, <4>1, Zenon
        <4>3. QED BY <1>2, <1>4, <3>4, <4>2, OrderMembers
      <3>5. QED BY <3>3, <3>4
    <2>4. /\ cert'.pc # "start" => cert'.subject \in Nat /\ cert'.subject <= head'
          /\ \A h \in Members : cert'.hashes[h] = written'[h]
      BY <1>1, <1>2, <2>1
    <2>5. (~cert'.failed /\ cert'.pc # "done") =>
              \A k \in DOMAIN Order : Behind(k)' => Prerequisites[Order[k]] \subseteq cert'.satisfied
      BY <1>1, <1>2, <1>6, <2>1
    <2>6. QED BY <1>2, <2>2, <2>3, <2>4, <2>5
  <1>8. RunnerInv' /\ WaivedInv'
    BY <1>1, <1>2, <1>4 DEF CertInv, RunnerInv, WaivedInv
  <1>9. QED BY <1>1, <1>2, <1>5, <1>7, <1>8, NothingPromised DEF CertInv

LEMMA RecordEvidenceInv ==
    ASSUME CertInv, RecordEvidence PROVE CertInv'
  <1> DEFINE h == Current
             r == [harness |-> h, subject |-> head, exit |-> outcome.exit,
                   status |-> Status(h, outcome), artifact |-> artifact[h]]
             valid == RecordValid(h, r)
  <1>1. /\ UNCHANGED <<head, dirty, edits, restored, outcome, artifact, stray, ranOn>>
        /\ cert.pc = "record" /\ DOMAIN cert = CertFields /\ cert.verdict = "none"
        /\ record' = [record EXCEPT ![h] = r] /\ written' = [written EXCEPT ![h] = r]
    BY DEF RecordEvidence, CertInv, CertTyped
  <1>2. h \in Members /\ cert.next \in DOMAIN Order /\ h = Order[cert.next]
    BY OrderMembers DEF Current, CertInv, CertTyped
  <1>3. DOMAIN r = RecordFields /\ r.artifact = artifact[h] /\ r.status = Status(h, outcome)
    BY DEF RecordFields
  <1>4. \/ /\ cert.kind # "foundation" /\ ~(valid /\ Acceptable(h, r))
           /\ cert' = [cert EXCEPT !.pc = "done", !.verdict = "refused"]
        \/ /\ cert.kind # "foundation" => valid /\ Acceptable(h, r)
           /\ cert' = [cert EXCEPT !.failed = @ \/ ~valid \/ r.status # "pass",
                                   !.satisfied = IF r.status = "pass" THEN @ \cup {h} ELSE @,
                                   !.hashes[h] = r,
                                   !.pc = NextHarness,
                                   !.next = IF @ = Len(Order) THEN @ ELSE @ + 1]
    BY DEF RecordEvidence
  <1> HIDE DEF valid
  <1>5. /\ DOMAIN record' = Members /\ DOMAIN written' = Members
        /\ \A g \in Members : record'[g] = (IF g = h THEN r ELSE record[g])
        /\ \A g \in Members : written'[g] = (IF g = h THEN r ELSE written[g])
    BY <1>1, <1>2 DEF CertInv, CertTyped
  <1> HIDE DEF h, r
  <1>6. RunnerInv'
    BY <1>1, <1>3, <1>5 DEF CertInv, RunnerInv
  <1>7. CASE /\ cert.kind # "foundation"
             /\ cert' = [cert EXCEPT !.pc = "done", !.verdict = "refused"]
    <2>1. /\ DOMAIN cert' = CertFields /\ cert'.pc = "done" /\ cert'.verdict = "refused"
          /\ cert'.hashes = cert.hashes /\ cert'.next = cert.next /\ cert'.kind = cert.kind
      BY <1>1, <1>7 DEF CertFields
    <2>2. CertTyped'
      BY <1>1, <1>3, <1>5, <2>1 DEF CertInv, CertTyped
    <2>3. FoundationInv' /\ WaivedInv'
      BY <1>7, <2>1 DEF FoundationInv, WaivedInv
    <2>4. QED BY <1>6, <2>1, <2>2, <2>3, NothingPromised DEF CertInv
  <1>8. CASE /\ cert.kind # "foundation" => valid /\ Acceptable(h, r)
             /\ cert' = [cert EXCEPT !.failed = @ \/ ~valid \/ r.status # "pass",
                                     !.satisfied = IF r.status = "pass" THEN @ \cup {h} ELSE @,
                                     !.hashes[h] = r,
                                     !.pc = NextHarness,
                                     !.next = IF @ = Len(Order) THEN @ ELSE @ + 1]
    <2>1. /\ DOMAIN cert' = CertFields /\ cert'.pc = NextHarness /\ cert'.verdict = cert.verdict
          /\ cert'.hashes = [cert.hashes EXCEPT ![h] = r] /\ cert'.next = NextIndex /\ cert'.kind = cert.kind
          /\ cert'.failed = (cert.failed \/ ~valid \/ r.status # "pass")
          /\ cert'.satisfied = (IF r.status = "pass" THEN cert.satisfied \cup {h} ELSE cert.satisfied)
          /\ cert'.subject = cert.subject
      BY <1>1, <1>8 DEF CertFields, NextIndex
    <2>2. /\ cert'.next \in DOMAIN Order /\ cert'.pc \in {"run", "recheck"}
          /\ \A k \in DOMAIN Order : Behind(k)' <=> k <= cert.next
          /\ \A k \in DOMAIN Order : Ran(k)' <=> k <= cert.next
      BY <2>1, Onward DEF CertInv
    <2>3. DOMAIN cert'.hashes = Members
      BY <2>1 DEF CertInv, CertTyped
    <2>4. CertTyped'
      BY <1>1, <1>3, <1>5, <2>1, <2>2, <2>3 DEF CertInv, CertTyped
    <2>5. WaivedInv'
      <3> SUFFICES ASSUME cert'.kind = "release", NEW g \in Members, record'[g].status = "not_applicable"
                   PROVE  g \notin Blocking
        BY DEF WaivedInv
      <3>1. CASE g = h
        <4>1. r.status = "not_applicable" /\ Acceptable(h, r)
          BY <1>5, <1>8, <2>1, <3>1
        <4>2. QED BY <3>1, <4>1 DEF Acceptable
      <3>2. CASE g # h
        BY <1>1, <1>5, <2>1, <3>2 DEF CertInv, WaivedInv
      <3>3. QED BY <3>1, <3>2
    <2>6. FoundationInv'
      <3> SUFFICES ASSUME cert'.kind = "foundation" PROVE FoundationInv!2'
        BY DEF FoundationInv
      <3>1. cert.kind = "foundation" /\ FoundationInv!2
        BY <2>1 DEF CertInv, FoundationInv
      <3>2. ~cert'.failed => ~cert.failed
        BY <2>1
      <3>3. \A k \in DOMAIN Order : k <= cert.next => Ran(k) /\ (Behind(k) \/ k = cert.next)
        BY <1>1, <1>2, OrderMembers DEF Ran, Behind
      <3>4. cert.satisfied \subseteq cert'.satisfied
        BY <2>1
      <3>5. ASSUME ~cert'.failed, NEW k \in DOMAIN Order, Behind(k)'
            PROVE  Prerequisites[Order[k]] \subseteq cert'.satisfied
        <4>1. Behind(k) \/ k = cert.next
          BY <2>2, <3>3, <3>5
        <4>2. CASE Behind(k)
          BY <1>1, <3>1, <3>2, <3>4, <3>5, <4>2
        <4>3. CASE k = cert.next
          BY <1>1, <1>2, <3>1, <3>4, <4>3 DEF h
        <4>4. QED BY <4>1, <4>2, <4>3
      <3>6. Exact' => Exact
        BY <1>1, <2>1, <2>2 DEF Exact
      <3>7. ASSUME ~cert'.failed, ~restored', Exact', NEW k \in DOMAIN Order, Ran(k)'
            PROVE  ranOn'[Order[k]] = [head |-> cert'.subject, dirty |-> FALSE]
        <4>1. Ran(k)
          BY <2>2, <3>3, <3>7
        <4>2. ~restored /\ ~cert.failed /\ Exact
          BY <1>1, <3>2, <3>6, <3>7
        <4>3. ranOn[Order[k]] = [head |-> cert.subject, dirty |-> FALSE]
          BY <1>1, <3>1, <4>1, <4>2, Zenon
        <4>4. QED BY <1>1, <2>1, <4>3
      <3>8. /\ cert'.pc # "start" => cert'.subject \in Nat /\ cert'.subject <= head'
            /\ \A g \in Members : cert'.hashes[g] = written'[g]
        BY <1>1, <1>5, <2>1, <3>1 DEF CertInv, CertTyped
      <3>9. QED BY <2>2, <3>5, <3>7, <3>8
    <2>7. QED BY <1>1, <1>6, <2>1, <2>4, <2>5, <2>6, NothingPromised DEF CertInv
  <1>9. QED BY <1>4, <1>7, <1>8

\* Goes on without having touched what it promises.
LEMMA RecheckInv ==
    ASSUME CertInv, Recheck PROVE CertInv'
  <1>1. /\ CertOnly /\ cert.pc = "recheck" /\ cert.kind = "foundation" /\ cert.verdict = "none"
        /\ DOMAIN cert = CertFields /\ cert.subject \in Nat /\ cert.subject <= head
    BY DEF Recheck, CertOnly, CertInv, CertTyped, FoundationInv
  <1>2. CASE cert' = [cert EXCEPT !.pc = "done", !.verdict = "refused"]
    <2>1. /\ DOMAIN cert' = CertFields /\ cert'.pc = "done" /\ cert'.verdict = "refused"
          /\ cert'.hashes = cert.hashes /\ cert'.next = cert.next /\ cert'.kind = cert.kind
          /\ cert'.subject = cert.subject
      BY <1>1, <1>2 DEF CertFields
    <2>2. QED BY <1>1, <2>1, Refused
  <1>3. CASE ~cert.failed /\ StillExact /\ cert' = [cert EXCEPT !.pc = "reload"]
    <2>1. /\ DOMAIN cert' = CertFields /\ cert'.pc = "reload" /\ cert'.verdict = cert.verdict
          /\ cert'.hashes = cert.hashes /\ cert'.next = cert.next /\ cert'.kind = cert.kind
          /\ cert'.failed = cert.failed /\ cert'.satisfied = cert.satisfied /\ cert'.subject = cert.subject
      BY <1>1, <1>3 DEF CertFields
    <2>2. CertTyped'
      BY <1>1, <2>1 DEF CertInv, CertTyped, CertOnly
    <2>3. \A k \in DOMAIN Order : Behind(k) /\ Ran(k)
      BY <1>1 DEF Behind, Ran
    <2>4. Exact /\ FoundationInv!2
      BY <1>1, <1>3 DEF CertInv, FoundationInv, Exact, StillExact
    <2>5. (~restored' => \A k \in DOMAIN Order : ranOn'[Order[k]] = [head |-> cert'.subject, dirty |-> FALSE])
      BY <1>1, <1>3, <2>1, <2>3, <2>4 DEF CertOnly
    <2>6. \A k \in DOMAIN Order : Prerequisites[Order[k]] \subseteq cert'.satisfied
      BY <1>1, <1>3, <2>1, <2>3, <2>4
    <2>7. FoundationInv'
      BY <1>1, <1>3, <2>1, <2>4, <2>5, <2>6 DEF FoundationInv, CertOnly
    <2>8. RunnerInv' /\ WaivedInv'
      BY <1>1, <2>1 DEF CertInv, RunnerInv, WaivedInv, CertOnly
    <2>9. QED BY <1>1, <2>1, <2>2, <2>7, <2>8, NothingPromised DEF CertInv
  <1>4. QED BY <1>2, <1>3 DEF Recheck

LEMMA ReloadInv ==
    ASSUME CertInv, Reload PROVE CertInv'
  <1>1. /\ CertOnly /\ cert.pc = "reload" /\ cert.verdict = "none"
        /\ DOMAIN cert = CertFields
    BY DEF Reload, CertOnly, CertInv, CertTyped
  <1>2. /\ DOMAIN cert' = CertFields /\ cert'.pc = "done"
        /\ cert'.hashes = cert.hashes /\ cert'.next = cert.next /\ cert'.kind = cert.kind
        /\ cert'.satisfied = cert.satisfied /\ cert'.subject = cert.subject
        /\ \/ /\ cert'.verdict = "certified" /\ ~stray
              /\ \A h \in Members : Unaltered(h) /\ RecordValid(h, record[h])
           \/ cert'.verdict = "refused"
    BY <1>1 DEF Reload, CertFields
  <1>3. CASE cert'.verdict = "refused"
    <2>1. cert.kind = "foundation" => cert'.subject \in Nat /\ cert'.subject <= head
      BY <1>1, <1>2 DEF CertInv, FoundationInv
    <2>2. QED BY <1>1, <1>2, <1>3, <2>1, Refused
  <1>4. CASE /\ cert'.verdict = "certified" /\ ~stray
             /\ \A h \in Members : Unaltered(h) /\ RecordValid(h, record[h])
    <2>1. CertTyped'
      BY <1>1, <1>2 DEF CertInv, CertTyped, CertOnly
    <2>2. FoundationInv' /\ WaivedInv' /\ RunnerInv'
      BY <1>1, <1>2 DEF CertInv, FoundationInv, WaivedInv, RunnerInv, CertOnly
    <2>3. NothingWaived'
      BY <1>4 DEF NothingWaived
    <2>4. ASSUME cert.kind = "foundation" PROVE RevisionBound' /\ EvidenceAsWritten'
      <3>1. FoundationInv!2 /\ ~cert.failed /\ Exact /\ \A k \in DOMAIN Order : Behind(k) /\ Ran(k)
        BY <1>1, <2>4 DEF CertInv, FoundationInv, Exact, Behind, Ran
      <3>2. RevisionBound'
        BY <1>1, <1>2, <3>1, OrderMembers DEF RevisionBound, CertOnly
      <3>3. ASSUME NEW h \in Members
            PROVE  /\ record'[h] = written'[h] /\ artifact'[h] = written'[h].artifact
                   /\ Prerequisites[h] \subseteq cert'.satisfied
        <4>1. record[h] = cert.hashes[h] /\ cert.hashes[h] = written[h]
          BY <1>4, <3>1 DEF Unaltered
        <4>2. h \in RunnerEvidence \/ artifact[h] = record[h].artifact
          BY <1>4 DEF RecordValid, ArtifactIntact
        <4>3. h \in RunnerEvidence => artifact[h] = "none" /\ written[h].artifact = "none"
          BY DEF CertInv, RunnerInv
        <4>4. Prerequisites[h] \subseteq cert.satisfied
          BY <1>1, <3>1, OrderMembers
        <4>5. QED BY <1>1, <1>2, <4>1, <4>2, <4>3, <4>4 DEF CertOnly
      <3>4. EvidenceAsWritten'
        BY <1>1, <1>4, <3>3 DEF EvidenceAsWritten, CertOnly
      <3>5. QED BY <3>2, <3>4
    <2>5. RevisionBound' /\ EvidenceAsWritten'
      BY <1>2, <2>4 DEF RevisionBound, EvidenceAsWritten
    <2>6. QED BY <2>1, <2>2, <2>3, <2>5 DEF CertInv, Promised
  <1>5. QED BY <1>2, <1>3, <1>4

LEMMA FinishInv ==
    ASSUME CertInv, FinishStandalone \/ SignRelease PROVE CertInv'
  <1>1. /\ CertOnly /\ cert.pc = "recheck" /\ cert.verdict = "none" /\ cert.kind # "foundation"
        /\ DOMAIN cert = CertFields
    BY DEF FinishStandalone, SignRelease, CertOnly, CertInv, CertTyped
  <1>2. /\ DOMAIN cert' = CertFields /\ cert'.pc = "done"
        /\ cert'.hashes = cert.hashes /\ cert'.next = cert.next /\ cert'.kind = cert.kind
        /\ cert'.subject = cert.subject
        /\ cert'.verdict = "signed" => /\ \A h \in Members : Collectible(h)
                                       /\ cert.kind = "release"
                                       /\ cert'.evidence = {record[h] : h \in Members}
    BY <1>1 DEF FinishStandalone, SignRelease, CertFields
  <1>3. CertTyped'
    BY <1>1, <1>2 DEF CertInv, CertTyped, CertOnly
  <1>4. FoundationInv' /\ WaivedInv' /\ RunnerInv'
    BY <1>1, <1>2 DEF CertInv, FoundationInv, WaivedInv, RunnerInv, CertOnly
  <1>5. RevisionBound' /\ EvidenceAsWritten'
    BY <1>1, <1>2 DEF RevisionBound, EvidenceAsWritten
  <1>6. ASSUME cert'.verdict = "signed"
        PROVE  NothingWaived!2'
    <2>1. \A h \in Members : record[h].harness = h
      BY <1>2, <1>6 DEF Collectible
    <2>2. {r.harness : r \in cert'.evidence} = Members
      BY <1>2, <1>6, <2>1
    <2>3. ASSUME NEW h \in Members
          PROVE  /\ record[h].subject = cert.subject
                 /\ record[h].status = "pass"
                    \/ (record[h].status = "not_applicable" /\ record[h].harness \in Scoped \ Blocking)
      BY <1>1, <1>2, <1>6, <2>1 DEF Collectible, CertInv, WaivedInv
    <2>4. QED BY <1>2, <1>6, <2>2, <2>3
  <1>7. QED BY <1>3, <1>4, <1>5, <1>6 DEF CertInv, Promised, NothingWaived

LEMMA CertNextInv == CertInv /\ [CertNext]_certVars => CertInv'
  <1> SUFFICES ASSUME CertInv, [CertNext]_certVars PROVE CertInv'
    OBVIOUS
  <1>1. CASE UNCHANGED certVars
    <2> USE <1>1 DEF certVars
    <2>1. CertTyped'
      BY DEF CertInv, CertTyped
    <2>2. FoundationInv'
      BY DEF CertInv, FoundationInv, Behind, Ran, Exact, Current
    <2>3. RunnerInv' /\ WaivedInv'
      BY DEF CertInv, RunnerInv, WaivedInv
    <2>4. RevisionBound' /\ EvidenceAsWritten'
      BY DEF CertInv, Promised, RevisionBound, EvidenceAsWritten
    <2>5. NothingWaived'
      BY DEF CertInv, Promised, NothingWaived
    <2>6. QED BY <2>1, <2>2, <2>3, <2>4, <2>5 DEF CertInv, Promised
  <1>2. CASE CertNext
    BY <1>2, PrepareInv, SkipInv, RunCommandInv, RecordEvidenceInv, RecheckInv, ReloadInv, FinishInv,
       TreeWork, Interference DEF CertNext
  <1>3. QED BY <1>1, <1>2

-----------------------------------------------------------------------------
(* What every kind of certification has earned so far.                     *)

UnderWay == cert.pc \in {"run", "record", "recheck", "reload"}

\* A foundation goes on after a harness failed, the others do not.
Standing == cert.kind = "foundation" => ~cert.failed

EarnedInv ==
    /\ UnderWay => cert.subject \in Nat /\ cert.subject <= head
    /\ cert.pc = "record" => ranOn[Current].head \in cert.subject..head
    /\ (UnderWay /\ Standing) => \A k \in DOMAIN Order : Behind(k) => EarnedOn(Order[k])
    /\ cert.pc = "reload" => Standing
    /\ RanOnSubject

\* The list of harnesses has no duplicates.
LEMMA OrderDistinct ==
    \A j, k \in DOMAIN Order : Order[j] = Order[k] => j = k
  <1> DEFINE D == 1..Len(Order)
  <1>1. IsFiniteSet(D) /\ Cardinality(D) = Len(Order)
    BY OrderMembers, FS_Interval
  <1>2. Order \in Surjection(D, Members)
    BY OrderMembers, OrderOK DEF Surjection
  <1>3. Cardinality(D) = Cardinality(Members)
    BY <1>1, OrderOK
  <1> HIDE DEF D
  <1>4. Order \in Injection(D, Members)
    BY <1>1, <1>2, <1>3, FS_SurjSameCardinalityImpliesInj
  <1>5. QED BY <1>4 DEF Injection, IsInjective

\* HEAD only moves on, so what was earned stays earned.
LEMMA EarnedStays ==
    ASSUME EarnedInv, head \in Nat, head' \in Nat, head <= head', UNCHANGED <<cert, ranOn, written>>
    PROVE  EarnedInv'
  <1>1. \A k : Behind(k)' <=> Behind(k)
    BY DEF Behind
  <1>2. Current' = Current /\ (UnderWay' <=> UnderWay) /\ (Standing' <=> Standing)
    BY DEF Current, UnderWay, Standing
  <1>3. \A h : EarnedOn(h)' <=> EarnedOn(h)
    BY DEF EarnedOn, Acceptable
  <1>4. UnderWay' => cert'.subject \in Nat /\ cert'.subject <= head'
    BY <1>2 DEF EarnedInv
  <1>5. cert'.pc = "record" => ranOn'[Current'].head \in cert'.subject..head'
    BY <1>2 DEF EarnedInv, UnderWay
  <1>6. (UnderWay' /\ Standing') => \A k \in DOMAIN Order : Behind(k)' => EarnedOn(Order[k])'
    BY <1>1, <1>2, <1>3 DEF EarnedInv
  <1>7. cert'.pc = "reload" => Standing'
    BY <1>2 DEF EarnedInv
  <1>8. RanOnSubject'
    BY <1>3 DEF EarnedInv, RanOnSubject
  <1>9. QED BY <1>4, <1>5, <1>6, <1>7, <1>8 DEF EarnedInv

\* A certification that is refused has nothing to show.
LEMMA RefusedEarned ==
    ASSUME cert'.pc = "done", cert'.verdict = "refused" PROVE EarnedInv'
  BY DEF EarnedInv, UnderWay, RanOnSubject

LEMMA PrepareEarned ==
    ASSUME CertInv, EarnedInv, Prepare PROVE EarnedInv'
  <1>1. CertOnly /\ cert.pc \in {"start", "second"}
    BY DEF Prepare, ReadSubject, CheckClean, CertOnly
  <1>2. DOMAIN cert = CertFields /\ head \in Nat /\ cert.next = 1 /\ cert.verdict = "none"
    BY <1>1 DEF CertInv, CertTyped
  <1>3. ASSUME /\ cert'.pc \in {"second", "run"} /\ cert'.next = 1 /\ cert'.verdict = "none",
               cert'.pc = "run" => cert'.subject \in Nat /\ cert'.subject <= head
        PROVE  EarnedInv'
    <2>1. \A k \in DOMAIN Order : ~Behind(k)'
      BY <1>3, OrderMembers DEF Behind
    <2>2. UnderWay' => cert'.subject \in Nat /\ cert'.subject <= head'
      BY <1>1, <1>3 DEF UnderWay, CertOnly
    <2>3. cert'.pc # "record" /\ cert'.pc # "reload" /\ RanOnSubject'
      BY <1>3 DEF RanOnSubject
    <2>4. QED BY <2>1, <2>2, <2>3 DEF EarnedInv
  <1>4. ASSUME NEW n \in {"second", "run"}, ReadSubject(n) PROVE EarnedInv'
    <2>1. /\ cert'.pc = n /\ cert'.next = 1 /\ cert'.verdict = "none" /\ cert'.subject = head
      BY <1>2, <1>4 DEF ReadSubject, CertFields
    <2>2. QED BY <1>2, <1>3, <2>1
  <1>5. ASSUME NEW n \in {"second", "run"}, CheckClean(n), n = "run" => cert.kind = "foundation" /\ cert.pc = "second"
        PROVE  EarnedInv'
    <2>1. CASE dirty
      <3>1. cert'.pc = "done" /\ cert'.verdict = "refused"
        BY <1>2, <1>5, <2>1 DEF CheckClean, CertFields
      <3>2. QED BY <3>1, RefusedEarned
    <2>2. CASE ~dirty
      <3>1. /\ cert'.pc = n /\ cert'.next = 1 /\ cert'.verdict = "none" /\ cert'.subject = cert.subject
        BY <1>2, <1>5, <2>2 DEF CheckClean, CertFields
      <3>2. n = "run" => cert.subject \in Nat /\ cert.subject <= head
        BY <1>5 DEF CertInv, FoundationInv
      <3>3. QED BY <1>3, <3>1, <3>2
    <2>3. QED BY <2>1, <2>2
  <1>6. QED
    BY <1>4, <1>5 DEF Prepare, FirstCheck, SecondCheck

LEMMA SkipEarned ==
    ASSUME CertInv, EarnedInv, SkipHarness PROVE EarnedInv'
  <1>1. /\ CertOnly /\ cert.pc = "run" /\ cert.kind = "foundation" /\ cert.verdict = "none"
        /\ DOMAIN cert = CertFields
    BY DEF SkipHarness, Runnable, CertInv, CertTyped, CertOnly
  <1>2. /\ cert'.pc = NextHarness /\ cert'.verdict = "none" /\ cert'.kind = "foundation"
        /\ cert'.failed = TRUE /\ cert'.subject = cert.subject
    BY <1>1 DEF SkipHarness, CertFields
  <1>3. cert'.pc \in {"run", "recheck"} /\ ~Standing' /\ RanOnSubject'
    BY <1>2 DEF NextHarness, Standing, RanOnSubject
  <1>4. UnderWay' => cert'.subject \in Nat /\ cert'.subject <= head'
    BY <1>1, <1>2 DEF EarnedInv, UnderWay, CertOnly
  <1>5. QED BY <1>3, <1>4 DEF EarnedInv

LEMMA RunCommandEarned ==
    ASSUME CertInv, EarnedInv, NEW o, RunCommand(o) PROVE EarnedInv'
  <1>1. /\ UNCHANGED <<head, written>> /\ cert.pc = "run" /\ cert.verdict = "none"
        /\ DOMAIN cert = CertFields /\ head \in Nat /\ cert.next \in DOMAIN Order
        /\ ranOn' = [ranOn EXCEPT ![Current] = [head |-> head, dirty |-> dirty]]
        /\ DOMAIN ranOn = Members
    BY DEF RunCommand, CertInv, CertTyped
  <1>2. /\ cert'.pc = "record" /\ cert'.verdict = "none" /\ cert'.kind = cert.kind /\ cert'.next = cert.next
        /\ cert'.failed = cert.failed /\ cert'.subject = cert.subject
    BY <1>1 DEF RunCommand, CertFields
  <1>3. Current \in Members /\ Current = Order[cert.next] /\ Current' = Current
    BY <1>1, <1>2, OrderMembers DEF Current
  <1>4. cert.subject \in Nat /\ cert.subject <= head
    BY <1>1 DEF EarnedInv, UnderWay
  <1>5. ranOn'[Current'].head \in cert'.subject..head'
    BY <1>1, <1>2, <1>3, <1>4
  <1>6. ASSUME Standing', NEW k \in DOMAIN Order, Behind(k)' PROVE EarnedOn(Order[k])'
    <2>1. Behind(k) /\ k < cert.next /\ Standing
      BY <1>1, <1>2, <1>6 DEF Behind, Standing
    <2>2. EarnedOn(Order[k])
      BY <1>1, <2>1 DEF EarnedInv, UnderWay
    <2>3. k # cert.next
      BY <1>1, <2>1, OrderMembers
    <2>4. Order[k] # Current /\ Order[k] \in Members
      BY <1>1, <1>3, <2>3, OrderDistinct, OrderMembers
    <2>5. ranOn'[Order[k]] = ranOn[Order[k]]
      BY <1>1, <2>4
    <2>6. QED BY <1>1, <1>2, <2>2, <2>5 DEF EarnedOn, Acceptable
  <1>7. QED BY <1>1, <1>2, <1>4, <1>5, <1>6 DEF EarnedInv, RanOnSubject, UnderWay

LEMMA RecordEarned ==
    ASSUME CertInv, EarnedInv, RecordEvidence PROVE EarnedInv'
  <1> DEFINE h == Current
             r == [harness |-> h, subject |-> head, exit |-> outcome.exit,
                   status |-> Status(h, outcome), artifact |-> artifact[h]]
             valid == RecordValid(h, r)
  <1>1. /\ UNCHANGED <<head, ranOn>> /\ cert.pc = "record" /\ cert.verdict = "none"
        /\ DOMAIN cert = CertFields /\ DOMAIN written = Members /\ cert.next \in DOMAIN Order
        /\ written' = [written EXCEPT ![h] = r] /\ head \in Nat
    BY DEF RecordEvidence, CertInv, CertTyped
  <1>2. h \in Members /\ h = Order[cert.next]
    BY <1>1, OrderMembers DEF Current
  <1>3. \/ /\ cert.kind # "foundation" /\ ~(valid /\ Acceptable(h, r))
           /\ cert' = [cert EXCEPT !.pc = "done", !.verdict = "refused"]
        \/ /\ cert.kind # "foundation" => valid /\ Acceptable(h, r)
           /\ cert' = [cert EXCEPT !.failed = @ \/ ~valid \/ r.status # "pass",
                                   !.satisfied = IF r.status = "pass" THEN @ \cup {h} ELSE @,
                                   !.hashes[h] = r,
                                   !.pc = NextHarness,
                                   !.next = IF @ = Len(Order) THEN @ ELSE @ + 1]
    BY DEF RecordEvidence
  <1>4. valid => r.subject = cert.subject
    BY DEF RecordValid
  <1>5. r.subject = head
    OBVIOUS
  <1> HIDE DEF valid, h, r
  <1>6. CASE /\ cert.kind # "foundation"
             /\ cert' = [cert EXCEPT !.pc = "done", !.verdict = "refused"]
    <2>1. cert'.pc = "done" /\ cert'.verdict = "refused"
      BY <1>1, <1>6 DEF CertFields
    <2>2. QED BY <2>1, RefusedEarned
  <1>7. CASE /\ cert.kind # "foundation" => valid /\ Acceptable(h, r)
             /\ cert' = [cert EXCEPT !.failed = @ \/ ~valid \/ r.status # "pass",
                                     !.satisfied = IF r.status = "pass" THEN @ \cup {h} ELSE @,
                                     !.hashes[h] = r,
                                     !.pc = NextHarness,
                                     !.next = IF @ = Len(Order) THEN @ ELSE @ + 1]
    <2>1. /\ cert'.pc = NextHarness /\ cert'.verdict = "none" /\ cert'.next = NextIndex
          /\ cert'.kind = cert.kind /\ cert'.subject = cert.subject
          /\ cert'.failed = (cert.failed \/ ~valid \/ r.status # "pass")
      BY <1>1, <1>7 DEF CertFields, NextIndex
    <2>2. /\ cert'.pc \in {"run", "recheck"}
          /\ \A k \in DOMAIN Order : Behind(k)' <=> k <= cert.next
      BY <2>1, Onward DEF CertInv
    <2>3. cert.subject \in Nat /\ cert.subject <= head /\ ranOn[h].head \in cert.subject..head
      BY <1>1 DEF EarnedInv, UnderWay, h
    <2>4. Standing' => Standing /\ valid /\ Acceptable(h, r)
      BY <1>7, <2>1 DEF Standing, Acceptable
    <2>5. ASSUME Standing', NEW k \in DOMAIN Order, Behind(k)' PROVE EarnedOn(Order[k])'
      <3>1. CASE k = cert.next
        <4>1. Order[k] = h /\ written'[h] = r
          BY <1>1, <1>2, <3>1
        <4>2. r.subject = cert.subject /\ ranOn[h].head = cert.subject /\ Acceptable(h, r)
          BY <1>1, <1>4, <1>5, <2>3, <2>4, <2>5
        <4>3. QED BY <1>1, <2>1, <4>1, <4>2 DEF EarnedOn, Acceptable
      <3>2. CASE k # cert.next
        <4>1. Behind(k) /\ Standing
          BY <1>1, <2>2, <2>4, <2>5, <3>2, OrderMembers DEF Behind
        <4>2. EarnedOn(Order[k])
          BY <1>1, <4>1 DEF EarnedInv, UnderWay
        <4>3. Order[k] # h /\ Order[k] \in Members
          BY <1>1, <1>2, <3>2, OrderDistinct, OrderMembers
        <4>4. written'[Order[k]] = written[Order[k]]
          BY <1>1, <4>3
        <4>5. QED BY <1>1, <2>1, <4>2, <4>4 DEF EarnedOn, Acceptable
      <3>3. QED BY <3>1, <3>2
    <2>6. UnderWay' => cert'.subject \in Nat /\ cert'.subject <= head'
      BY <1>1, <2>1, <2>3
    <2>7. RanOnSubject'
      BY <2>1 DEF RanOnSubject
    <2>8. QED BY <2>2, <2>5, <2>6, <2>7 DEF EarnedInv
  <1>8. QED BY <1>3, <1>6, <1>7

\* The last steps: the tree and HEAD again, the records again, and the verdict.
LEMMA EndEarned ==
    ASSUME CertInv, EarnedInv, Recheck \/ Reload \/ FinishStandalone \/ SignRelease PROVE EarnedInv'
  <1>1. /\ CertOnly /\ cert.pc \in {"recheck", "reload"} /\ DOMAIN cert = CertFields /\ cert.verdict = "none"
    BY DEF Recheck, Reload, FinishStandalone, SignRelease, CertOnly, CertInv, CertTyped
  <1>2. Standing => \A h \in Members : EarnedOn(h)
    BY <1>1, OrderMembers DEF EarnedInv, UnderWay, Behind
  <1>3. /\ cert'.kind = cert.kind /\ cert'.subject = cert.subject /\ cert'.failed = cert.failed
        /\ \/ cert'.pc = "done" /\ cert'.verdict = "refused"
           \/ cert'.pc = "done" /\ Standing
           \/ cert'.pc = "reload" /\ Standing /\ cert'.verdict = "none"
    <2>1. CASE Recheck
      BY <1>1, <2>1 DEF Recheck, CertFields, Standing
    <2>2. CASE Reload
      <3>1. Standing
        BY <2>2 DEF Reload, EarnedInv
      <3>2. cert'.pc = "done" /\ cert'.kind = cert.kind /\ cert'.subject = cert.subject /\ cert'.failed = cert.failed
        BY <1>1, <2>2 DEF Reload, CertFields
      <3>3. QED BY <3>1, <3>2
    <2>3. CASE FinishStandalone
      BY <1>1, <2>3 DEF FinishStandalone, CertFields, Standing
    <2>4. CASE SignRelease
      <3>1. Standing
        BY <2>4 DEF SignRelease, Standing
      <3>2. cert'.pc = "done" /\ cert'.kind = cert.kind /\ cert'.subject = cert.subject /\ cert'.failed = cert.failed
        BY <1>1, <2>4 DEF SignRelease, CertFields
      <3>3. QED BY <3>1, <3>2
    <2>5. QED BY <2>1, <2>2, <2>3, <2>4
  <1>4. CASE cert'.pc = "done" /\ cert'.verdict = "refused"
    BY <1>4, RefusedEarned
  <1>5. ASSUME Standing PROVE \A h \in Members : EarnedOn(h)'
    BY <1>1, <1>2, <1>3, <1>5 DEF EarnedOn, Acceptable, CertOnly
  <1>6. CASE cert'.pc = "done" /\ Standing
    BY <1>5, <1>6 DEF EarnedInv, UnderWay, RanOnSubject
  <1>7. CASE cert'.pc = "reload" /\ Standing /\ cert'.verdict = "none"
    <2>1. cert'.subject \in Nat /\ cert'.subject <= head' /\ Standing'
      BY <1>1, <1>3, <1>7 DEF EarnedInv, UnderWay, Standing, CertOnly
    <2>2. \A k \in DOMAIN Order : EarnedOn(Order[k])'
      BY <1>5, <1>7, OrderMembers
    <2>3. QED BY <1>7, <2>1, <2>2 DEF EarnedInv, RanOnSubject
  <1>8. QED BY <1>3, <1>4, <1>6, <1>7

LEMMA EarnedNextInv == CertInv /\ EarnedInv /\ [CertNext]_certVars => EarnedInv'
  <1> SUFFICES ASSUME CertInv, EarnedInv, [CertNext]_certVars PROVE EarnedInv'
    OBVIOUS
  <1>1. head \in Nat
    BY DEF CertInv, CertTyped
  <1>2. CASE UNCHANGED certVars
    BY <1>1, <1>2, EarnedStays DEF certVars
  <1>3. CASE EditTree \/ RestoreTree \/ CommitTree \/ HarnessInterferes
    BY <1>1, <1>3, EarnedStays DEF EditTree, RestoreTree, CommitTree, HarnessInterferes
  <1>4. CASE Recheck \/ Reload \/ FinishStandalone \/ SignRelease
    BY <1>4, EndEarned
  <1>5. CASE Prepare \/ SkipHarness \/ RecordEvidence
    BY <1>5, PrepareEarned, SkipEarned, RecordEarned
  <1>6. CASE cert.pc = "run" /\ \E o \in Outcomes(cert.producer[Current]) : RunCommand(o)
    BY <1>6, RunCommandEarned
  <1>7. QED BY <1>2, <1>3, <1>4, <1>5, <1>6 DEF CertNext

\* recertify_foundation, run_harness_with_prerequisites, run_release_certification:
\* for every set of harnesses, prerequisites and producers, and whatever is edited,
\* committed or overwritten meanwhile. A certified foundation is for a clean tree of
\* its revision and the evidence as written, although tree and HEAD are looked at only
\* before the first and after the last harness. Of a standalone certificate and a signed
\* release: every harness ran on the revision they name, with an acceptable record of it
\* at the time, and a release waives nothing that blocks.
THEOREM CertifiedIsEarned ==
    ASSUME NEW kinds, NEW producers
    PROVE  CertSpec(kinds, producers) => []CertificationSound
  <1>1. CertInit(kinds, producers) => CertInv
    BY CertInitInv
  <1>2. CertInit(kinds, producers) => EarnedInv
    <2> SUFFICES ASSUME CertInit(kinds, producers) PROVE EarnedInv
      OBVIOUS
    <2>1. cert.pc = "start" /\ cert.verdict = "none"
      BY DEF CertInit
    <2>2. QED BY <2>1 DEF EarnedInv, UnderWay, RanOnSubject
  <1>3. CertInv /\ EarnedInv => CertificationSound
    BY DEF CertInv, Promised, EarnedInv, CertificationSound
  <1>4. QED BY <1>1, <1>2, <1>3, CertNextInv, EarnedNextInv, PTL DEF CertSpec

-----------------------------------------------------------------------------
(* The harness registry.                                                   *)

Frames == [harness : Catalog, left : SUBSET Catalog]

RegistryTyped ==
    /\ lifecycle \in Lifecycles
    /\ prerequisites \in [Catalog -> SUBSET Catalog]
    /\ sorted \in SUBSET Catalog /\ visited \in SUBSET Catalog
    /\ stack \in Seq(Frames) /\ ordered \in Seq(Catalog)

\* What Kahn's algorithm finds: harnesses that do not all wait for each other.
Acyclic(S) == \A T \in SUBSET S : T # {} => \E h \in T : prerequisites[h] \cap T = {}

SortInv ==
    /\ step = "load" => sorted = {}
    /\ step \in {"load", "sort", "refused", "valid"} => visited = {} /\ stack = << >> /\ ordered = << >>
    /\ step \in {"sort", "valid", "visit", "ordered", "cycle"} => PrerequisiteClosed(sorted) /\ Acyclic(sorted)
    /\ step \in {"valid", "visit", "ordered", "cycle"} => sorted = Catalog

\* The calls of visit that are open: each for a prerequisite of the one that called
\* it, and done with all that it has left behind.
FrameOK(k) ==
    /\ stack[k].harness \notin visited
    /\ stack[k].left \subseteq prerequisites[stack[k].harness]
    /\ k < Len(stack) => stack[k + 1].harness \in prerequisites[stack[k].harness]
    /\ \A p \in prerequisites[stack[k].harness] \ stack[k].left :
          p \in visited \/ (k < Len(stack) /\ p = stack[k + 1].harness)

StackInv ==
    /\ \A k \in 1..Len(stack) : FrameOK(k)
    /\ \A k, l \in 1..Len(stack) : stack[k].harness = stack[l].harness => k = l

\* What visit has appended: each harness once, after all it needs.
OrderInv ==
    /\ PrerequisiteClosed(visited) /\ IsFiniteSet(visited) /\ Cardinality(visited) = Len(ordered)
    /\ visited = {ordered[k] : k \in 1..Len(ordered)}
    /\ \A k \in 1..Len(ordered) : \A p \in prerequisites[ordered[k]] :
          \E j \in 1..(k - 1) : ordered[j] = p

\* Nothing but what the target needs is looked at.
NeedInv ==
    /\ step \in {"visit", "cycle"} =>
          /\ stack # << >>
          /\ \A S \in SUBSET Catalog :
                (PrerequisiteClosed(S) /\ stack[1].harness \in S) => visited \subseteq S /\ Visiting \subseteq S
    /\ step = "ordered" =>
          /\ ordered # << >>
          /\ \A S \in SUBSET Catalog : (PrerequisiteClosed(S) /\ ordered[Len(ordered)] \in S) => visited \subseteq S

RegistryInv ==
    /\ RegistryTyped /\ SortInv
    /\ step \in {"visit", "ordered"} => StackInv /\ OrderInv
    /\ NeedInv /\ step # "cycle"

LEMMA RegistryInitInv ==
    ASSUME NEW metadata \in SUBSET Lifecycles, RegistryInit(metadata) PROVE RegistryInv
  <1>1. RegistryTyped
    BY DEF RegistryInit, RegistryTyped
  <1>2. QED
    BY <1>1 DEF RegistryInit, RegistryInv, SortInv, NeedInv

\* A reviewer's metadata names harnesses of the catalog.
LEMMA LoadInv ==
    ASSUME RegistryInv, LoadLifecycle PROVE RegistryInv'
  <1>1. /\ step = "load" /\ step' \in {"sort", "refused"}
        /\ prerequisites' = [h \in Catalog |-> IF StatusOf(lifecycle, h) = "implemented"
                                               THEN lifecycle.prerequisites[h] ELSE {}]
        /\ UNCHANGED <<lifecycle, sorted, stack, visited, ordered>>
    BY DEF LoadLifecycle
  <1>2. PICK impl \in SUBSET Catalog : lifecycle.implemented = impl
                                       /\ lifecycle.prerequisites \in [impl -> SUBSET Catalog]
    BY DEF RegistryInv, RegistryTyped, Lifecycles
  <1>3. \A h \in Catalog : StatusOf(lifecycle, h) = "implemented" => h \in impl
    BY <1>2 DEF StatusOf
  <1>4. prerequisites' \in [Catalog -> SUBSET Catalog]
    BY <1>1, <1>2, <1>3
  <1>5. RegistryTyped'
    BY <1>1, <1>4 DEF RegistryInv, RegistryTyped
  <1>6. sorted' = {} /\ visited' = {} /\ stack' = << >> /\ ordered' = << >>
    BY <1>1 DEF RegistryInv, SortInv
  <1>7. SortInv'
    BY <1>1, <1>6 DEF SortInv, PrerequisiteClosed, Acyclic
  <1>8. QED
    BY <1>1, <1>5, <1>7 DEF RegistryInv, NeedInv

LEMMA SortOneInv ==
    ASSUME RegistryInv, SortOne PROVE RegistryInv'
  <1>1. /\ step = "sort" /\ UNCHANGED <<lifecycle, step, prerequisites, stack, visited, ordered>>
    BY DEF SortOne
  <1>2. PICK h \in Sortable : sorted' = sorted \cup {h}
    BY DEF SortOne
  <1>3. h \in Catalog /\ h \notin sorted /\ prerequisites[h] \subseteq sorted
    BY DEF Sortable
  <1>4. RegistryTyped'
    BY <1>1, <1>2, <1>3 DEF RegistryInv, RegistryTyped
  <1>5. PrerequisiteClosed(sorted)'
    BY <1>1, <1>2, <1>3 DEF RegistryInv, SortInv, PrerequisiteClosed
  <1>6. Acyclic(sorted)'
    <2> SUFFICES ASSUME NEW T \in SUBSET (sorted \cup {h}), T # {}
                 PROVE  \E g \in T : prerequisites[g] \cap T = {}
      BY <1>1, <1>2 DEF Acyclic
    <2>1. PrerequisiteClosed(sorted) /\ Acyclic(sorted)
      BY <1>1 DEF RegistryInv, SortInv
    <2>2. CASE T \ {h} = {}
      BY <1>3, <2>2
    <2>3. CASE T \ {h} # {}
      <3>1. PICK g \in T \ {h} : prerequisites[g] \cap (T \ {h}) = {}
        BY <2>1, <2>3 DEF Acyclic
      <3>2. h \notin prerequisites[g]
        BY <1>3, <2>1, <3>1 DEF PrerequisiteClosed
      <3>3. QED BY <3>1, <3>2
    <2>4. QED BY <2>2, <2>3
  <1>7. SortInv'
    BY <1>1, <1>5, <1>6 DEF RegistryInv, SortInv
  <1>8. QED
    BY <1>1, <1>4, <1>7 DEF RegistryInv, NeedInv

LEMMA FinishSortInv ==
    ASSUME RegistryInv, FinishSort PROVE RegistryInv'
  <1>1. /\ step = "sort" /\ step' \in {"valid", "refused"}
        /\ UNCHANGED <<lifecycle, prerequisites, sorted, stack, visited, ordered>>
        /\ step' = "valid" => Cardinality(sorted) = Cardinality(Catalog)
    BY DEF FinishSort
  <1>2. step' = "valid" => sorted = Catalog
    BY <1>1, CatalogFinite, FS_Subset DEF RegistryInv, RegistryTyped
  <1>3. RegistryTyped'
    BY <1>1 DEF RegistryInv, RegistryTyped
  <1>4. SortInv'
    BY <1>1, <1>2 DEF RegistryInv, SortInv, PrerequisiteClosed, Acyclic
  <1>5. QED
    BY <1>1, <1>3, <1>4 DEF RegistryInv, NeedInv

LEMMA AskInv ==
    ASSUME RegistryInv, NEW target \in Catalog, AskClosure(target) PROVE RegistryInv'
  <1>1. /\ step = "valid" /\ UNCHANGED <<lifecycle, prerequisites, sorted, visited, ordered>>
        /\ \/ step' = "visit" /\ stack' = <<Frame(target)>>
           \/ step' = "unimplemented" /\ UNCHANGED stack
    BY DEF AskClosure
  <1>2. /\ visited = {} /\ ordered = << >> /\ sorted = Catalog /\ stack = << >>
        /\ PrerequisiteClosed(sorted) /\ Acyclic(sorted)
    BY <1>1 DEF RegistryInv, SortInv
  <1>3. /\ Frame(target) \in Frames /\ Frame(target).harness = target
        /\ Frame(target).left = prerequisites[target]
    BY DEF Frame, Frames, RegistryInv, RegistryTyped
  <1>4. CASE step' = "visit" /\ stack' = <<Frame(target)>>
    <2>1. stack' \in Seq(Frames) /\ Len(stack') = 1 /\ stack'[1] = Frame(target)
      BY <1>3, <1>4
    <2>2. RegistryTyped'
      BY <1>1, <2>1 DEF RegistryInv, RegistryTyped
    <2>3. SortInv'
      BY <1>1, <1>2, <1>4 DEF SortInv, PrerequisiteClosed, Acyclic
    <2>4. StackInv'
      BY <1>1, <1>2, <1>3, <2>1 DEF StackInv, FrameOK
    <2>5. OrderInv'
      BY <1>1, <1>2, FS_EmptySet DEF OrderInv, PrerequisiteClosed
    <2>6. Visiting' = {target}
      BY <1>3, <2>1 DEF Visiting
    <2>7. NeedInv'
      BY <1>1, <1>2, <1>3, <1>4, <2>1, <2>6 DEF NeedInv
    <2>8. QED BY <1>4, <2>2, <2>3, <2>4, <2>5, <2>7 DEF RegistryInv
  <1>5. CASE step' = "unimplemented" /\ UNCHANGED stack
    BY <1>1, <1>5 DEF RegistryInv, RegistryTyped, SortInv, NeedInv
  <1>6. QED BY <1>1, <1>4, <1>5

\* Kahn's algorithm has sorted all of it, so the open calls are never a cycle.
LEMMA NoCycle ==
    ASSUME RegistryInv, step = "visit", stack # << >>,
           NEW p \in prerequisites[stack[Len(stack)].harness]
    PROVE  p \notin Visiting
  <1> SUFFICES ASSUME p \in Visiting PROVE FALSE
    OBVIOUS
  <1>1. stack \in Seq(Frames) /\ Len(stack) \in Nat \ {0} /\ DOMAIN stack = 1..Len(stack)
    BY DEF RegistryInv, RegistryTyped
  <1>2. PICK i \in 1..Len(stack) : p = stack[i].harness
    BY <1>1 DEF Visiting
  <1> DEFINE T == {stack[k].harness : k \in i..Len(stack)}
  <1>3. T \subseteq Catalog /\ p \in T
    <2>1. \A k \in 1..Len(stack) : stack[k] \in Frames
      BY <1>1, ElementOfSeq
    <2>2. \A k \in 1..Len(stack) : stack[k].harness \in Catalog
      BY <2>1 DEF Frames
    <2>3. \A k \in i..Len(stack) : k \in 1..Len(stack)
      BY <1>1
    <2>4. i \in i..Len(stack)
      BY <1>1
    <2>5. QED BY <1>2, <2>2, <2>3, <2>4
  <1>4. \A h \in T : prerequisites[h] \cap T # {}
    <2> SUFFICES ASSUME NEW k \in i..Len(stack) PROVE prerequisites[stack[k].harness] \cap T # {}
      OBVIOUS
    <2>1. CASE k = Len(stack)
      BY <1>3, <2>1
    <2>2. CASE k < Len(stack)
      <3>1. stack[k + 1].harness \in prerequisites[stack[k].harness]
        BY <1>1, <1>2, <2>2 DEF RegistryInv, StackInv, FrameOK
      <3>2. k + 1 \in i..Len(stack)
        BY <1>1, <1>2, <2>2
      <3>3. stack[k + 1].harness \in T
        BY <3>2
      <3>4. QED BY <3>1, <3>3
    <2>3. k \in Int /\ Len(stack) \in Int /\ k <= Len(stack)
      BY <1>1, <1>2
    <2>4. k = Len(stack) \/ k < Len(stack)
      BY <2>3
    <2>5. QED BY <2>1, <2>2, <2>4
  <1>5. Acyclic(Catalog)
    BY DEF RegistryInv, SortInv
  <1>6. QED BY <1>3, <1>4, <1>5 DEF Acyclic

LEMMA VisitInv ==
    ASSUME RegistryInv, VisitPrerequisite PROVE RegistryInv'
  <1> DEFINE n == Len(stack)
             top == stack[n]
  <1>1. /\ step = "visit" /\ stack # << >> /\ top.left # {}
        /\ UNCHANGED <<lifecycle, prerequisites, sorted, visited, ordered>>
    BY DEF VisitPrerequisite
  <1>2. /\ stack \in Seq(Frames) /\ n \in Nat \ {0} /\ n \in 1..n /\ DOMAIN stack = 1..n
        /\ top \in Frames
    BY <1>1 DEF RegistryInv, RegistryTyped
  <1>3. StackInv /\ OrderInv /\ SortInv
    BY <1>1 DEF RegistryInv
  <1>4. PICK p \in top.left :
           LET rest == [stack EXCEPT ![n].left = @ \ {p}]
           IN  IF p \in visited THEN stack' = rest /\ UNCHANGED step
               ELSE IF p \in Visiting THEN step' = "cycle" /\ UNCHANGED stack
               ELSE IF StatusOf(lifecycle, p) # "implemented"
               THEN step' = "unimplemented" /\ UNCHANGED stack
               ELSE stack' = Append(rest, Frame(p)) /\ UNCHANGED step
    BY DEF VisitPrerequisite
  <1>5. p \in Catalog /\ p \in prerequisites[top.harness] /\ top.harness \in Catalog
    BY <1>2, <1>3 DEF Frames, StackInv, FrameOK
  <1>6. p \notin Visiting
    BY <1>1, <1>5, NoCycle
  <1> DEFINE f == [top EXCEPT !.left = @ \ {p}]
             rest == [stack EXCEPT ![n] = f]
  <1>7. [stack EXCEPT ![n].left = @ \ {p}] = rest
    BY <1>2
  <1>8. /\ f \in Frames /\ f.harness = top.harness /\ f.left = top.left \ {p} /\ rest \in Seq(Frames) /\ Len(rest) = n
        /\ \A k \in 1..n : rest[k] = IF k = n THEN f ELSE stack[k]
    <2>1. f \in Frames /\ f.harness = top.harness /\ f.left = top.left \ {p}
      BY <1>2 DEF Frames
    <2> HIDE DEF f
    <2>2. QED BY <1>2, <2>1, ExceptSeq
  <1>9. /\ \A k \in 1..n : rest[k].harness = stack[k].harness
        /\ \A k \in 1..n : rest[k].left = IF k = n THEN top.left \ {p} ELSE stack[k].left
    BY <1>8
  <1> HIDE DEF n, top, f, rest
  <1>10. CASE p \in visited
    <2>1. stack' = rest /\ step' = step
      BY <1>4, <1>7, <1>10 DEF n, top
    <2>2. RegistryTyped' /\ SortInv' /\ OrderInv'
      <3>1. RegistryTyped'
        BY <1>1, <1>8, <2>1 DEF RegistryInv, RegistryTyped
      <3>2. SortInv'
        BY <1>1, <1>3, <2>1 DEF SortInv, PrerequisiteClosed, Acyclic
      <3>3. OrderInv'
        BY <1>1, <1>3 DEF OrderInv, PrerequisiteClosed
      <3>4. QED BY <3>1, <3>2, <3>3
    <2>3. /\ Len(stack') = n /\ DOMAIN stack' = 1..n
          /\ \A k \in 1..n : stack'[k].harness = stack[k].harness
          /\ \A k \in 1..n : stack'[k].left = IF k = n THEN top.left \ {p} ELSE stack[k].left
      <3>1. Len(rest) = n /\ DOMAIN rest = 1..n
        BY <1>8, LenProperties
      <3>2. QED BY <1>9, <2>1, <3>1
    <2>4. StackInv'
      <3>1. ASSUME NEW k \in 1..n PROVE FrameOK(k)'
        <4>1. FrameOK(k) /\ Len(stack) = n
          BY <1>3 DEF StackInv, n
        <4>2. k < n => k + 1 \in 1..n
          BY <1>2
        <4>3. CASE k = n
          <5>1. /\ top.harness \notin visited /\ top.left \subseteq prerequisites[top.harness]
                /\ \A q \in prerequisites[top.harness] \ top.left : q \in visited
                /\ stack'[n].harness = top.harness /\ stack'[n].left = top.left \ {p}
            BY <1>2, <2>3, <4>1, <4>3 DEF FrameOK, top
          <5>2. ~(n < n)
            BY <1>2
          <5>3. QED BY <1>1, <1>10, <2>3, <4>3, <5>1, <5>2 DEF FrameOK
        <4>4. CASE k < n
          BY <1>1, <1>2, <2>3, <4>1, <4>2, <4>4 DEF FrameOK
        <4>5. QED BY <1>2, <4>3, <4>4
      <3>2. \A k, l \in 1..n : stack'[k].harness = stack'[l].harness => k = l
        BY <1>3, <2>3 DEF StackInv, n
      <3>3. QED BY <2>3, <3>1, <3>2 DEF StackInv
    <2>5. Visiting' = Visiting
      BY <1>2, <2>3 DEF Visiting
    <2>6. NeedInv'
      <3>1. stack' # << >> /\ stack'[1].harness = stack[1].harness
        BY <1>2, <2>3
      <3>2. QED BY <1>1, <2>1, <2>5, <3>1 DEF RegistryInv, NeedInv, PrerequisiteClosed
    <2>7. QED BY <1>1, <2>1, <2>2, <2>4, <2>6 DEF RegistryInv
  <1>11. CASE p \notin visited /\ StatusOf(lifecycle, p) # "implemented"
    <2>1. step' = "unimplemented" /\ UNCHANGED stack
      BY <1>4, <1>6, <1>11
    <2>2. QED
      BY <1>1, <2>1 DEF RegistryInv, RegistryTyped, SortInv, NeedInv
  <1>12. CASE p \notin visited /\ StatusOf(lifecycle, p) = "implemented"
    <2>1. stack' = Append(rest, Frame(p)) /\ step' = step
      BY <1>4, <1>6, <1>7, <1>12 DEF n, top
    <2>2. Frame(p) \in Frames /\ Frame(p).harness = p /\ Frame(p).left = prerequisites[p]
      BY <1>5 DEF Frame, Frames, RegistryInv, RegistryTyped
    <2>3. /\ stack' \in Seq(Frames) /\ Len(stack') = n + 1 /\ DOMAIN stack' = 1..(n + 1)
          /\ \A k \in 1..n : stack'[k] = rest[k]
          /\ stack'[n + 1] = Frame(p)
      BY <1>2, <1>8, <2>1, <2>2
    <2>4. /\ \A k \in 1..n : stack'[k].harness = stack[k].harness
          /\ \A k \in 1..n : stack'[k].left = IF k = n THEN top.left \ {p} ELSE stack[k].left
          /\ stack'[n + 1].harness = p /\ stack'[n + 1].left = prerequisites[p]
      BY <1>2, <1>8, <1>9, <2>2, <2>3
    <2>5. RegistryTyped' /\ SortInv' /\ OrderInv'
      <3>1. RegistryTyped'
        BY <1>1, <2>1, <2>3 DEF RegistryInv, RegistryTyped
      <3>2. SortInv'
        BY <1>1, <1>3, <2>1 DEF SortInv, PrerequisiteClosed, Acyclic
      <3>3. OrderInv'
        BY <1>1, <1>3 DEF OrderInv, PrerequisiteClosed
      <3>4. QED BY <3>1, <3>2, <3>3
    <2>6. \A k \in 1..n : p # stack[k].harness
      BY <1>2, <1>6 DEF Visiting
    <2>7. StackInv'
      <3>1. \A k \in 1..(n + 1) : k \in 1..n \/ k = n + 1
        BY <1>2
      <3>2. ASSUME NEW k \in 1..(n + 1) PROVE FrameOK(k)'
        <4>1. CASE k = n + 1
          BY <1>1, <1>2, <1>12, <2>3, <2>4, <4>1 DEF FrameOK
        <4>2. CASE k \in 1..n
          <5>1. FrameOK(k) /\ Len(stack) = n
            BY <1>3, <4>2 DEF StackInv, n
          <5>2. CASE k = n
            BY <1>1, <1>2, <1>5, <2>3, <2>4, <5>1, <5>2 DEF FrameOK, n, top
          <5>3. CASE k < n
            <6>1. k + 1 \in 1..n
              BY <1>2, <4>2, <5>3
            <6>2. QED BY <1>1, <1>2, <2>3, <2>4, <4>2, <5>1, <5>3, <6>1 DEF FrameOK
          <5>4. QED BY <1>2, <4>2, <5>2, <5>3
        <4>3. QED BY <3>1, <4>1, <4>2
      <3>3. ASSUME NEW k \in 1..(n + 1), NEW l \in 1..(n + 1), stack'[k].harness = stack'[l].harness
            PROVE  k = l
        <4>1. CASE k \in 1..n /\ l \in 1..n
          BY <1>3, <2>4, <3>3, <4>1 DEF StackInv, n
        <4>2. CASE k = n + 1 \/ l = n + 1
          BY <2>4, <2>6, <3>1, <3>3, <4>2
        <4>3. QED BY <3>1, <4>1, <4>2
      <3>4. QED BY <2>3, <3>2, <3>3 DEF StackInv
    <2>8. Visiting' = Visiting \cup {p}
      BY <1>2, <2>3, <2>4 DEF Visiting
    <2>9. NeedInv'
      <3>1. stack' # << >> /\ stack'[1].harness = stack[1].harness
        BY <1>2, <2>3, <2>4
      <3>2. top.harness \in Visiting
        BY <1>2 DEF Visiting, n, top
      <3>3. ASSUME NEW S \in SUBSET Catalog, PrerequisiteClosed(S)', stack'[1].harness \in S
            PROVE  visited' \subseteq S /\ Visiting' \subseteq S
        <4>1. PrerequisiteClosed(S) /\ visited \subseteq S /\ Visiting \subseteq S
          BY <1>1, <3>1, <3>3 DEF RegistryInv, NeedInv, PrerequisiteClosed
        <4>2. p \in S
          BY <1>5, <3>2, <4>1 DEF PrerequisiteClosed
        <4>3. QED BY <1>1, <2>8, <4>1, <4>2
      <3>4. QED BY <1>1, <2>1, <3>1, <3>3 DEF NeedInv
    <2>10. QED BY <1>1, <2>1, <2>5, <2>7, <2>9 DEF RegistryInv
  <1>13. QED
    BY <1>10, <1>11, <1>12

LEMMA DoneInv ==
    ASSUME RegistryInv, VisitDone PROVE RegistryInv'
  <1> DEFINE n == Len(stack)
             top == stack[n]
             h == top.harness
  <1>1. /\ step = "visit" /\ stack # << >> /\ top.left = {}
        /\ visited' = visited \cup {h} /\ ordered' = Append(ordered, h)
        /\ stack' = SubSeq(stack, 1, n - 1) /\ step' = IF n = 1 THEN "ordered" ELSE "visit"
        /\ UNCHANGED <<lifecycle, prerequisites, sorted>>
    BY DEF VisitDone
  <1>2. /\ stack \in Seq(Frames) /\ n \in Nat \ {0} /\ n \in 1..n /\ DOMAIN stack = 1..n
        /\ top \in Frames
    BY <1>1 DEF RegistryInv, RegistryTyped
  <1>3. StackInv /\ OrderInv /\ SortInv
    BY <1>1 DEF RegistryInv
  <1>4. h \in Catalog /\ h \notin visited /\ prerequisites[h] \subseteq visited
    <2>1. ~(n < n)
      BY <1>2
    <2>2. QED BY <1>1, <1>2, <1>3, <2>1 DEF Frames, StackInv, FrameOK
  <1>5. /\ stack' \in Seq(Frames) /\ Len(stack') = n - 1 /\ DOMAIN stack' = 1..(n - 1)
        /\ \A k \in 1..(n - 1) : stack'[k] = stack[k]
    <2>1. \A k \in 1..(n - 1) : stack[k] \in Frames
      BY <1>2, ElementOfSeq
    <2>2. n - 1 \in Int /\ 1 \in Int
      BY <1>2
    <2> HIDE DEF n
    <2>3. /\ SubSeq(stack, 1, n - 1) \in Seq(Frames)
          /\ Len(SubSeq(stack, 1, n - 1)) = IF 1 <= n - 1 THEN n - 1 - 1 + 1 ELSE 0
          /\ \A k \in 1..(n - 1 - 1 + 1) : SubSeq(stack, 1, n - 1)[k] = stack[1 + k - 1]
      BY <2>1, <2>2, SubSeqProperties
    <2>4. Len(stack') = n - 1 /\ \A k \in 1..(n - 1) : stack'[k] = stack[k]
      BY <1>1, <1>2, <2>3
    <2>5. QED BY <1>1, <2>3, <2>4, LenProperties
  <1>6. /\ ordered \in Seq(Catalog) /\ Len(ordered) \in Nat /\ ordered' \in Seq(Catalog)
        /\ Len(ordered') = Len(ordered) + 1 /\ ordered'[Len(ordered) + 1] = h
        /\ \A k \in 1..Len(ordered) : ordered'[k] = ordered[k]
    BY <1>1, <1>4 DEF RegistryInv, RegistryTyped
  <1> HIDE DEF n, top, h
  <1>7. RegistryTyped'
    BY <1>1, <1>4, <1>5, <1>6 DEF RegistryInv, RegistryTyped
  <1>8. SortInv'
    BY <1>1, <1>3 DEF SortInv, PrerequisiteClosed, Acyclic
  <1>9. OrderInv'
    <2>1. PrerequisiteClosed(visited)'
      BY <1>1, <1>3, <1>4 DEF OrderInv, PrerequisiteClosed
    <2>2. IsFiniteSet(visited') /\ Cardinality(visited') = Len(ordered')
      <3>1. IsFiniteSet(visited) /\ Cardinality(visited) = Len(ordered)
        BY <1>3 DEF OrderInv
      <3>2. IsFiniteSet(visited \cup {h}) /\ Cardinality(visited \cup {h}) = Cardinality(visited) + 1
        BY <1>4, <3>1, FS_AddElement
      <3>3. QED BY <1>1, <1>6, <3>1, <3>2
    <2>3. \A k \in 1..(Len(ordered) + 1) : k \in 1..Len(ordered) \/ k = Len(ordered) + 1
      BY <1>6
    <2>4. 1..Len(ordered) \subseteq 1..(Len(ordered) + 1) /\ Len(ordered) + 1 \in 1..(Len(ordered) + 1)
      BY <1>6
    <2>5. visited' = {ordered'[k] : k \in 1..Len(ordered')}
      BY <1>1, <1>3, <1>6, <2>3, <2>4 DEF OrderInv
    <2>6. ASSUME NEW k \in 1..Len(ordered'), NEW p \in prerequisites'[ordered'[k]]
          PROVE  \E j \in 1..(k - 1) : ordered'[j] = p
      <3>1. CASE k = Len(ordered) + 1
        <4>1. p \in visited
          BY <1>1, <1>4, <1>6, <2>6, <3>1
        <4>2. PICK j \in 1..Len(ordered) : ordered[j] = p
          BY <1>3, <4>1 DEF OrderInv
        <4>3. k - 1 = Len(ordered)
          BY <1>6, <3>1
        <4>4. QED BY <1>6, <4>2, <4>3
      <3>2. CASE k \in 1..Len(ordered)
        <4>1. PICK j \in 1..(k - 1) : ordered[j] = p
          BY <1>1, <1>3, <1>6, <2>6, <3>2 DEF OrderInv
        <4>2. j \in 1..Len(ordered)
          BY <1>6, <3>2
        <4>3. QED BY <1>6, <4>1, <4>2
      <3>3. QED BY <1>6, <2>3, <3>1, <3>2
    <2>7. QED BY <2>1, <2>2, <2>5, <2>6 DEF OrderInv
  <1>10. StackInv'
    <2>1. \A k \in 1..(n - 1) : k \in 1..n /\ k < n /\ k + 1 \in 1..n /\ (k < n - 1 => k + 1 \in 1..(n - 1))
      BY <1>2
    <2>2. ASSUME NEW k \in 1..(n - 1) PROVE FrameOK(k)'
      <3>1. FrameOK(k) /\ Len(stack) = n
        BY <1>3, <2>1 DEF StackInv, n
      <3>2. stack[k].harness # h
        BY <1>2, <1>3, <2>1 DEF StackInv, n, top, h
      <3>3. stack'[k] = stack[k] /\ k < n
        BY <1>5, <2>1
      <3>4. /\ stack'[k].harness \notin visited'
            /\ stack'[k].left \subseteq prerequisites'[stack'[k].harness]
        BY <1>1, <3>1, <3>2, <3>3 DEF FrameOK
      <3>5. k < n - 1 => stack'[k + 1].harness \in prerequisites'[stack'[k].harness]
        BY <1>1, <1>5, <2>1, <3>1, <3>3 DEF FrameOK
      <3>6. ASSUME NEW p \in prerequisites'[stack'[k].harness] \ stack'[k].left
            PROVE  p \in visited' \/ (k < n - 1 /\ p = stack'[k + 1].harness)
        <4>1. p \in visited \/ p = stack[k + 1].harness
          BY <1>1, <3>1, <3>3, <3>6 DEF FrameOK
        <4>2. CASE k < n - 1
          BY <1>1, <1>5, <2>1, <4>1, <4>2
        <4>3. CASE k = n - 1
          <5>1. stack[k + 1].harness = h
            BY <1>2, <4>3 DEF h, top
          <5>2. QED BY <1>1, <4>1, <5>1
        <4>4. QED BY <1>2, <4>2, <4>3
      <3>7. QED BY <1>5, <3>4, <3>5, <3>6 DEF FrameOK
    <2>3. ASSUME NEW k \in 1..(n - 1), NEW l \in 1..(n - 1), stack'[k].harness = stack'[l].harness
          PROVE  k = l
      BY <1>3, <1>5, <2>1, <2>3 DEF StackInv, n
    <2>4. QED BY <1>5, <2>2, <2>3 DEF StackInv
  <1>11. NeedInv'
    <2>1. h \in Visiting /\ Visiting' \subseteq Visiting
      <3>1. h \in Visiting
        BY <1>2 DEF Visiting, h, top
      <3>2. \A k \in 1..(n - 1) : k \in 1..n
        BY <1>2
      <3>3. QED BY <1>2, <1>5, <3>1, <3>2 DEF Visiting
    <2>2. ASSUME NEW S \in SUBSET Catalog, PrerequisiteClosed(S)', stack[1].harness \in S
          PROVE  visited' \subseteq S /\ Visiting' \subseteq S
      BY <1>1, <2>1, <2>2 DEF RegistryInv, NeedInv, PrerequisiteClosed
    <2>3. CASE n = 1
      <3>1. ordered' # << >> /\ ordered'[Len(ordered')] = stack[1].harness
        BY <1>6, <2>3 DEF h, top
      <3>2. QED BY <1>1, <2>2, <2>3, <3>1 DEF NeedInv
    <2>4. CASE n # 1
      <3>1. 1 \in 1..(n - 1)
        BY <1>2, <2>4
      <3>2. stack' # << >> /\ stack'[1].harness = stack[1].harness
        BY <1>5, <3>1
      <3>3. QED BY <1>1, <2>2, <2>4, <3>2 DEF NeedInv
    <2>5. QED BY <2>3, <2>4
  <1>12. QED
    BY <1>1, <1>7, <1>8, <1>9, <1>10, <1>11 DEF RegistryInv

LEMMA RegistryNextInv == RegistryInv /\ [RegistryNext]_registryVars => RegistryInv'
  <1> SUFFICES ASSUME RegistryInv, [RegistryNext]_registryVars PROVE RegistryInv'
    OBVIOUS
  <1>1. CASE UNCHANGED registryVars
    <2>1. UNCHANGED <<lifecycle, step, prerequisites, sorted, stack, visited, ordered>>
      BY <1>1 DEF registryVars
    <2>2. RegistryTyped' /\ SortInv'
      BY <2>1 DEF RegistryInv, RegistryTyped, SortInv, PrerequisiteClosed, Acyclic
    <2>3. (step' \in {"visit", "ordered"}) => StackInv'
      BY <2>1 DEF RegistryInv, StackInv, FrameOK
    <2>4. (step' \in {"visit", "ordered"}) => OrderInv'
      BY <2>1 DEF RegistryInv, OrderInv, PrerequisiteClosed
    <2>5. NeedInv'
      BY <2>1 DEF RegistryInv, NeedInv, PrerequisiteClosed, Visiting
    <2>6. QED BY <2>1, <2>2, <2>3, <2>4, <2>5 DEF RegistryInv
  <1>2. CASE RegistryNext
    BY <1>2, LoadInv, SortOneInv, FinishSortInv, AskInv, VisitInv, DoneInv DEF RegistryNext
  <1>3. QED BY <1>1, <1>2

LEMMA OrderedIsNeeds ==
    ASSUME RegistryInv PROVE ClosureOrdered
  <1> SUFFICES ASSUME step = "ordered" PROVE ClosureOrdered!2!2
    BY DEF RegistryInv, ClosureOrdered
  <1> DEFINE target == ordered[Len(ordered)]
  <1>1. /\ OrderInv /\ ordered \in Seq(Catalog) /\ DOMAIN ordered = 1..Len(ordered)
        /\ visited \in SUBSET Catalog /\ PrerequisiteClosed(visited) /\ ordered # << >>
    BY DEF RegistryInv, RegistryTyped, NeedInv, OrderInv
  <1>2. Len(ordered) \in 1..Len(ordered)
    BY <1>1
  <1>3. target \in visited
    BY <1>1, <1>2 DEF OrderInv
  <1>4. visited \subseteq Needs(target)
    BY <1>1 DEF RegistryInv, NeedInv, Needs
  <1>5. Needs(target) \subseteq visited
    BY <1>1, <1>3 DEF Needs
  <1>6. QED
    BY <1>1, <1>4, <1>5 DEF OrderInv

\* _validate_prerequisite_cycles and dependency_closure: depth-first search meets no
\* cycle that Kahn's algorithm let pass, and what it puts in order is exactly what
\* the target needs, each harness once and after all it needs itself; for every
\* catalog and whatever a reviewer wrote down.
THEOREM ClosureIsOrdered ==
    ASSUME NEW metadata \in SUBSET Lifecycles
    PROVE  RegistrySpec(metadata) => []ClosureOrdered
  <1>1. RegistryInit(metadata) => RegistryInv
    BY RegistryInitInv
  <1>2. RegistryInv => ClosureOrdered
    BY OrderedIsNeeds
  <1>3. QED BY <1>1, <1>2, RegistryNextInv, PTL DEF RegistrySpec
=============================================================================
