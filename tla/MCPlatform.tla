------------------------------ MODULE MCPlatform ------------------------------
(***************************************************************************)
(* What surrounds the rules of the domain, one subject per behaviour.      *)
(* Before the service runs: the harness registry, a certification, the     *)
(* release train, the migrations of the schema.  While it runs: the API's  *)
(* items, syncs, setup sessions and limiter; the cutover; the PostgreSQL   *)
(* queue, inbox and scheduler fence; the client of GitHub.                 *)
(***************************************************************************)
EXTENDS Certification, HarnessRegistry, ReleaseTrain, Migrations, ControlPlane, Cutover, PostgresQueue,
        GitHubClient

CONSTANTS
    Subjects,       \* what is looked at
    Kinds           \* which certifications are run: foundation, standalone, release

VARIABLE subject

releaseVars == <<certVars, registryVars, trainVars, migrationVars>>
serviceVars == <<apiVars, cutVars, pgVars, ghVars>>
vars == <<releaseVars, serviceVars, subject>>

MCOrder == <<"static", "probe", "scoped">>
MCPrerequisites == [static |-> {}, probe |-> {"static"}, scoped |-> {"probe"}]
MCProducers == [static : {"platform"}, probe : {"shell"},
                scoped : {"wave", "ops", "final", "advisory", "scoped"}]
MCProducer == [static |-> "platform", probe |-> "shell", scoped |-> "scoped"]
MCClosures == {{}, {1}, {1, 2}}
MCLifecycle == [implemented |-> {1}, deferred |-> {}, closure |-> {1}, preGA |-> {1},
                prerequisites |-> [h \in {1} |-> {}]]
MCDifferences == <<{}, {"order"}, {"render"}>>

\* Calls that share no state are looked at apart.
Ops ==
    [items |-> {"claim", "propose", "approve"}, syncs |-> {"sync", "work"},
     sessions |-> {"exchange", "close"}, queue |-> {"enqueue", "claim", "heartbeat", "complete"},
     inbox |-> {"deliver"}, fence |-> {"fence"}]

Init ==
    /\ subject \in Subjects
    /\ TrainInit /\ ApiInit /\ CutInit /\ PgInit /\ GitHubInit
    /\ MigrationInit /\ (subject # "schema" => db = Empty)
    /\ RegistryInit(IF subject = "registry" THEN Lifecycles ELSE {MCLifecycle})
    /\ CertInit(IF subject = "certification" THEN Kinds ELSE {"foundation"},
                IF subject = "certification" THEN MCProducers ELSE {MCProducer})

ReleaseNext ==
    \/ subject = "certification" /\ CertNext /\ UNCHANGED <<registryVars, trainVars, migrationVars>>
    \/ subject = "registry" /\ RegistryNext /\ UNCHANGED <<certVars, trainVars, migrationVars>>
    \/ subject = "train" /\ TrainNext /\ UNCHANGED <<certVars, registryVars, migrationVars>>
    \/ subject = "schema" /\ MigrationNext /\ UNCHANGED <<certVars, registryVars, trainVars>>

ServiceNext ==
    \/ /\ subject \in {"items", "syncs", "sessions"}
       /\ ApiNext(Ops[subject]) /\ UNCHANGED <<cutVars, pgVars, ghVars>>
    \/ subject = "limiter" /\ LimiterNext /\ UNCHANGED <<cutVars, pgVars, ghVars>>
    \/ subject = "cutover" /\ CutNext /\ UNCHANGED <<apiVars, pgVars, ghVars>>
    \/ /\ subject \in {"queue", "inbox", "fence"}
       /\ PgNext(Ops[subject]) /\ UNCHANGED <<apiVars, cutVars, ghVars>>
    \/ subject = "github" /\ GitHubNext /\ UNCHANGED <<apiVars, cutVars, pgVars>>

Next ==
    /\ UNCHANGED subject
    /\ \/ ReleaseNext /\ UNCHANGED serviceVars
       \/ ServiceNext /\ UNCHANGED releaseVars

Spec == Init /\ [][Next]_vars

\* Statements run, transactions end and live workers keep asking for jobs; no
\* process is bound to finish what it claimed.
PgFairness ==
    LET others == <<releaseVars, apiVars, cutVars, ghVars, subject>> IN
    /\ WF_vars(PgTick /\ UNCHANGED others)
    /\ \A p \in Processes :
          /\ WF_vars(Execute(p) /\ UNCHANGED others)
          /\ WF_vars(Commit(p) /\ UNCHANGED others)
          /\ \A w \in PgWorkspaces : WF_vars(Open(p, "claim", w, "none") /\ UNCHANGED others)

FairSpec == Spec /\ PgFairness
=============================================================================
