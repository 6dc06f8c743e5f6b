# Work Frontier in TLA+

Work Frontier reads work items from trackers (GitHub issues, files, fixtures),
decides for every item whether it can be started, is blocked or is claimed, and
publishes that decision as the *frontier* of a workspace. Around this pipeline it
keeps a durable job queue, work leases, proposals, an audit ledger, a cutover
protocol from the tracker's own planner, and a Setup Center that installs it all;
beside it a harness certifies revisions and releases.

This directory holds the formal model of that system: TLA+ modules translated from
the Python sources (paths below are relative to `backend/src/work_frontier/` unless they
start with `scripts/`, `infra/` or `docs/`), TLC configurations that check them on small
instances, and TLAPS proofs. `PROJECT.json` is the machine-readable index: components,
runs, the map from every definition to its source lines, mutants, findings, hazards and
theorems.

    tlc -workers 2 -config MCQueueSafety.cfg MCDurableQueue    # model-check a run
    tlapm GraphProofs.tla                                      # check proofs

## 1. Inventory

| Component | State | Operations | Hard behaviour | What makes it correct | Modules |
|---|---|---|---|---|---|
| Durable queue (`platform/queue.py`) | jobs, idempotency index, tenant claim counters | enqueue, claim, heartbeat, complete, fail, recover, replay | lost leases, late workers, retries, tenant fairness | bounded attempts, exact idempotency, stale owners refused, settled jobs frozen, every job settles | `DurableQueue` |
| PostgreSQL queue, inbox, fence (`platform/persistence/postgres_queue.py`, `database.py`) | `job_queue`, `webhook_inbox`, `scheduler_leases` | enqueue, claim (`SKIP LOCKED`), heartbeat, complete, accept webhook, acquire fence | concurrent transactions, clocks read before the statement, rollback | each commit one atomic operation, acknowledged is stored, the fence waits for expiry | `PostgresQueue`, `AtomicQueue` |
| Ingestion (`application/ingestion.py`), decision cycles (`platform/persistence/decision_cycles.py`), adapters | cursors, item versions, cycles, projections, frontier | ingest a connection in full or incrementally; persist one cycle in one transaction | reads at different moments, redelivery, paging under change, row locks, rollback at every boundary | cycles chain, each cycle is one decision that never goes back, tables follow cycles, no deadlock, decisions catch up | `Ingestion`, `DecisionLog` |
| GitHub client (`adapters/github/`) | token cache, circuit breaker | read, publish projection | slow, failing, limited service; lost answers | no request within the circuit's cooldown, none outlives its token | `GitHubClient`, `Ingestion` |
| Setup Center (`application/setup/`, `platform/configuration/setup_storage.py`, `platform/setup/local.py`) | configuration file, SQLite journal, installation lock, the machine | detect, plan, apply, compensate, resume, report | crashes between effect and journal, two processes, failing commands | effects journaled, compensation backwards, verified actions not repeated, no stop of services under a ready report | `Setup`, `Readiness` |
| Graph (`domain/graph.py`, `domain/edges.py`) | none between calls; stacks and queues within one | analyze dependencies, traverse the affected region, validate containment | traversal order, cycles, quarantine | agreement with declarative definitions; every call ends | `DependencyGraph` |
| Frontier (`domain/frontier.py`, inputs from `application/ingestion.py`) | the last cycle | solve readiness and ranking, affected items | items change between cycles | affected items complete, recommendations drain the frontier | `Frontier` |
| Policies and gates (`domain/policies.py`) | bundle, evidence, waivers | parse, evaluate gates and completion, allow transitions | evidence in any order, expired, for other revisions | verdicts monotone, safety proven | `Policies` |
| Authority and freshness (`domain/authority.py`) | observations | reconcile | precedence, staleness, conflict, expiring overrides | only reports heal, no lower source overrides | `Authority` |
| Coordination, proposals (`domain/coordination.py`, `domain/proposals.py`) | work lease, proposals, approvals | claim, join, heartbeat, hand off, override, release; propose, approve, apply | claims racing expiry; stale approvals; claimant changes between approval and application | leases never broken silently, exclusive work alone, changes chain | `Governance` |
| Authorization, identity, emergency (`domain/authorization.py`, `application/identity.py`, `domain/emergency.py`) | grants, denies, sessions, break-glass invocations | log in, revoke, authorize, separate duties, break glass | administration between login and use; sliding window | access justified at the moment of use, a second person, the daily limit | `Access` |
| Audit ledger (`platform/audit.py`) | checksum chain, anchor | append, close, anchor, verify, purge | a store that loses, alters, rebuilds | what verifies is what was written | `AuditLedger` |
| API control plane (`interfaces/api/`) | in-memory items, leases, proposals, syncs, setup sessions, limiter | HTTP handlers | handlers on a thread pool, read-then-write | nothing granted that was taken before, no sync lost, window never over its limit | `ControlPlane` |
| Cutover (`domain/cutover.py`, `application/cutover_539.py`) | writer mode and version, writer lease | compare in shadow, execute, roll back | a comparison that went stale | takeover only on fresh parity | `Cutover` |
| Evidence, harness, certification (`contracts/`) | records, artifacts, certificates; the registry | run harnesses, record, certify; validate and order the registry | people commit meanwhile, harnesses interfere | every harness ran on the revision named; a foundation rests on its evidence as written | `Certification`, `HarnessRegistry` |
| Release scripts (`scripts/`) | plan, certificates, audits | certify the plan, finalize | failures, interruption, restarts | items ticked off only by what the same invocation certified | `ReleaseTrain` |
| Schema and migrations (`infra/alembic/`, `scripts/migration_smoke.py`) | tables, policies, triggers, version | upgrade, downgrade, smoke test | refused and killed commands, metadata that moved on | the schema is what its version says | `Migrations` |
| Entities, copilot, event schemas, platform services, CLI, frontend, tooling | little or none | wrappers, views, tooling | none of their own | | not modelled, see 8 |

How they interact: webhooks and the scheduler enqueue jobs; a worker claims a job and
calls ingestion; ingestion reads through an adapter, derives the inputs of the frontier engine
from the graph and hands a decision cycle to the persistence layer, which fences it on the
connection's cursor and publishes projections, audit event, outbox intent and frontier in
the same transaction. Policies and authority say what readiness means; coordination,
proposals and cutover act on published decisions, through the API and under authorization.
The Setup Center is a separate program that prepares the machine and writes the
configuration; certification, the release train and the migrations come before the service.

## 2. Plan

Done, in this order: `DurableQueue` with proofs; `Ingestion`; `Setup`; `DependencyGraph`;
the rules of the domain (`Policies`, `Authority`, `Frontier`); governance (`Governance`,
`AuditLedger`, `Access`); what surrounds them (`Certification`, `HarnessRegistry`,
`ReleaseTrain`, `Migrations`, `ControlPlane`, `Cutover`, `GitHubClient`); `PostgresQueue` with
the abstract `AtomicQueue` it implements, and its proofs; `Readiness` on top of `Setup`; the
proofs of `Governance`, `Access` and `Ingestion`, of the services (`Cutover`, `ControlPlane`,
`GitHubClient`), of what comes before them (`ReleaseTrain`, `Migrations`, `Certification`,
`HarnessRegistry`), of the ledger, of `Setup`, of the rules of the domain, and of the traversals of
`DependencyGraph`; the abstract `DecisionLog`, which `Ingestion` is proved to implement.

Left: what the provers do not reach (liveness, the end of section 6) and the parts of section 8.

## 3. Modules and their correspondence to the code

### `DurableQueue` — `platform/queue.py`
`jobs`, `idempotency`, `tenant_last_claim` and `claim_counter` are the four private
attributes of the class. One action per method: `Enqueue`, `ReplayDeadLetter`, `ClaimNext`,
`Heartbeat`, `Complete`, `Fail`, `RecoverExpired`. The methods that raise leave the state
alone, so a refusal is simply a disabled action; `Accept` is the common tail of `enqueue`,
which `replay_dead_letter` also calls. `OwnedClaim` is `_owned_claim`. `run` is the memory
of the callers: the job and the number of each worker's latest claim, which a worker goes on
using after it has lost the lease. `passed` is a history variable for fairness.

Abstractions: the jitter of the retry delay (a hash) is any value up to its ceiling; the
key of a replay, a prefix built from the replay's job id, is the original's key with that
id appended; `attempt_history` is the count of its "claimed" entries. Time moves only while
some lease or retry waits for it (`ClockAwaited`), which loses no behaviour, since nothing
else in the queue depends on the clock. All callers read one monotone clock. `SchedulerFence`
of the same file is not modelled (section 8).

### `PostgresQueue`, `AtomicQueue` — `platform/persistence/postgres_queue.py`, `database.py`
Every call is one statement in a transaction of `workspace_session`. A process opens it with the
clock its caller read (`Open`), the statement runs and locks its row (`Execute`:
`PersistInbox`, `EnqueueJob`, `ClaimNextJob`, `UpdateOwned`, `AcquireFence`), the transaction
commits (`Commit`) or is rolled back (`Rollback`: an error or a crash). `jobs`, `inbox` and
`fence` are committed rows; they change at a commit only, and only rows the policies of 0002
let the session see (`Visible`). `Held` is the wait of an insert or update for an undecided row;
a claim skips held rows instead. The idempotency key of a job is its id. The version of the
fence is written and never compared, and is left out. No statement recovers, fails or retries a
job, so those states do not occur.

`AtomicQueue` is what the queue promises without transactions, sessions, locks or clocks:
enqueue, claim and complete in one step each. `QueueIsAtomic` is the refinement; the mapping
drops everything but the state and owner of each committed row.

### `Ingestion`, `DecisionLog` — `application/ingestion.py`, `platform/persistence/decision_cycles.py`, adapters
`ing[w]` is one execution of `ingest_connection`, with one step for each await and each
adapter call: `Begin` (the cursor), `ReadRevision` (with the replay shortcut `Replayed`),
`LoadItems` and `FetchItem` for incremental commands, `ReadPage` for full ones, then the
transaction: `Fence`, `AppendCycle`, `UpsertProjection`, `SelectFrontier`, `UpsertFrontier`,
`Commit`. Rows written by an open transaction are invisible until `Commit`, so the tables
change only there; the row locks that order the transactions are derived from the program
counters (`InWrite`, `HoldsProjection`, `HoldsFrontier`). A `SELECT ... FOR UPDATE` locks the
frontier row only if it exists. `Abort` is any failure before the commit.

The tracker is the sequence of its changes. Content is abstracted to a version number and
revisions are never reused; items are neither created nor deleted; a page holds one item. Each
connection has an adapter of its own. For the memory, fixture and local ones every change gives a new
source revision (`shown`), which all pages carry, and every version of an item a revision. GitHub's
source revision is the ETag or the time of the repository, which an edited issue may leave as it is;
its pages have an ETag each; its item revision is the node id. Both kinds run side by side in
`ingestion_sync`, where the GitHub repository changes and has two pages. `load_source_items` exists in the repository only
as a port and is modelled from its contract and the table it names. The decisions
themselves do not influence these steps; they are in `Frontier`. Item identifiers of two
connections may coincide, as `current_projections` is keyed by workspace and item.

`DecisionLog` is what is left when executions, locks, transactions and failures are taken away: the
tracker is edited, and a command is decided at most once, in one step (`Decide`), on a corpus that
`Readings` allows for the revision it records: the tracker of one moment since then, or the last
corpus with every changed item as it was at some moment since then. `CyclesAreAtomic` is the
refinement; `corpus` maps to `StoredItems`, `log` to `cycles` and `active` to the published cycle. The
version of the frontier is dropped: 1 may be published twice (see 7).

### `Setup`, `Readiness` — `application/setup/*.py`, `platform/configuration/setup_storage.py`, `platform/setup/local.py`
`proc[p]` is the memory of one `SetupService`. A `Crash` loses it and leaves the lock; an `Interrupt`
(an exception or a user's interrupt that leaves `execute_plan`) loses it and releases the lock
(`Unlock`), as the finally clause of `execution.py:38-47` does; effects and journal stay as they are in
both. `ServicesStop` is the environment: started services stop by themselves. The shared state is the
configuration (the set of requests merged into it; its revision is its content), the
`effects` of commands on the machine, the lock row, the journal's latest state per action and
`latest`, the session updated last.
`PlannedActions` is the planner; `Detect`, `MakePlan`, `StartApply` and `Resume` are the service;
`SelectLock` and `InsertLock` the two statements of the lock; the loop of `_execute_locked` is
`SkipVerified`, `BeginAction`, `ApplyAction`/`ApplyFails`, `RecordApplied`,
`VerifyAction`/`VerifyFails`, `FailAction`; `_compensate` is `BeginCompensation`,
`CompensateAction`, `RecordCompensated`, `CompensateFails`; `ReleaseLock` is the finally clause at the end of a run;
`Finish`, `Compare` and `Replace` write the configuration. A command that raises may or may not
have had its effect. Input groups that planning requires together are one input. Of all
effects, only the running services are visible to the probes.
`EvidenceRefused` models `_validate_document`, which refuses any evidence with a key that
carries a secret marker: the evidence of `github.app.verify` has a field `token_expires_at`.

`Readiness` extends it with what `status` reports: `Checks` per profile and capability, the
worst of them, corrected by the states of the required actions in the session updated
last (`ApplyExecutionState`). Tools, identity and shell variables do not change while Setup
runs and are quantified over.

### `DependencyGraph` — `domain/graph.py`, `domain/edges.py`
`Init` is any graph without self edges (`Edge` refuses them) and either of the two entry points.
The recursive functions are loops over `frames`, one frame per active call with the targets its
for-loop has still to visit; a return is the removal of the last frame. `analyze_dependency_graph`
is `VisitRoot`, `VisitTarget`, `LeaveNode` (the end of `_TarjanState.visit`, with `_pop_component` and
the link the caller takes over), `EndComponents`, then `_find_component_cycle` as `BeginCycle`,
`FollowCycle`, `BacktrackCycle`; `Evaluable` and `HardBlockers` are its projection. `Relax` is one
round of `_shortest_paths`, from any root, with the cyclic items left out (root causes) or nothing
left out (affected regions). `validate_containment_dag` is `DetectRoot`, `DetectTarget`,
`DetectLeave`, `BeginSort`, `SortNode`, `EndSort`. `on_stack` and `active_set` are read off the stacks
they mirror. Nodes are numbers, since every loop of the code runs in key order. Not
modelled: the union of several roots' paths, the kinds of endpoints.

The references (`Reaches`, `ComponentOf`, `RealCycle`, `BestPath`) use closed sets and quantified
paths and share nothing with the traversals but the edges and the order on paths.

### `Frontier` — `domain/frontier.py`, the derivation in `application/ingestion.py`
The source (`source`) is edited and reopened (`Edit`); `RunCycle` normalizes it, derives the
engine's inputs (`Input`: blockers that are complete, missing or open, fan-out), solves
readiness (`Reasons`) and ranking (`KeyPart`, `Precedes`, `Position`), and records for every
item a `DecisionRecord` and which items the change affects (`Affected`). `CloseRecommended` is
the team, which closes what the last cycle recommends. Program priority, work class and item
authority are constants of this pipeline and so of the model. Decision identities are digests
and are left out.

### `Policies` — `domain/policies.py`
One item under one bundle. `InstallBundle` parses a raw payload (`Parses`, gate by gate and node
by node); facts arrive one at a time: `RecordEvidence`, `RequestWaiver`, `ObserveCondition`,
`Learn`, `Confirm`, `ChangeSource`, `PolicyTick`, `Transition`. Every evaluation
(`EvaluateGate`, `LeafTruth`, `NodeTruth`, `Completion`, `TransitionAllowed`) is a function of
the facts, as the `evaluate_*` functions are. A completion policy is a table of nodes whose
operands come later in the table, which is what keeps the recursion a recursive function.

### `Authority` — `domain/authority.py`
`Observe` files an observation that passes `SourceObservation`'s checks (`ObservationOK`),
`Advance` moves a source to a new revision, the clock runs. `Selected`, `IsStale`, `Conflict`,
`Status` and `BlocksReadiness` are `reconcile_authority`, recomputed from what is stored.
`informed` is whether the caller passes `current_revisions`.

### `Governance` — `domain/coordination.py`, `domain/proposals.py`
One work item. `JoinLease` and `NewLease` are the two ways through `claim_item`; `Heartbeat`,
`RequestHandoff`, `ForceOverride`, `Release` the other lease functions; `Propose`, `Approve`,
`Apply` are `ProposedChange.create`, `Approval` and `apply_approved_change`; `DecideAnew` is a
decision cycle for a new source revision. Ids of decisions are numbered as they are derived.
`granted` (who was granted a claim, and in which mode) is a history variable.

### `Access` — `domain/authorization.py`, `application/identity.py`, `platform/persistence/identity.py`, `domain/emergency.py`
`Login`, `Revoke`, `StoreIdentity` (`put_local_identity`, with a newer or older role revision),
`GrantRole` (`put_role_grant`, which leaves the role revision alone) and `AddDeny` happen between
requests; `Authorized`, `Separation` and `SessionValid` are what a request goes through
(`Permitted`); claimant and configurer are inputs and may be unknown (`Nobody`). `BreakGlass` is an
emergency access with its limit (`Recent`). Scopes are paths from the tenant down.

### `AuditLedger` — `platform/audit.py`
`AppendEvent`, `CloseSegment`, `SignAnchor`, `Purge`; `Verified` is `verify_segment` with the
anchor. SHA-256 is an injective function: a digest is the value it digests. `Damage` lets the
store lose, alter, reorder (`Altered`) or rebuild entries (`Rebuilt`), consistently or not.

### `ControlPlane` — `interfaces/api/services.py`, `app.py`, `setup_app.py`, `browser_security.py`
`req[t]` is the request of a thread of the pool. `ClaimReadItem`, `ClaimReadLease`, `ClaimWrite`;
`CreateProposal`; `ApproveCheck`, `ApproveWrite`; `NameSync`, `ScheduleSync`; `WorkerLooks`, `WorkerPops`;
`ExchangeCheck`, `ExchangeUse`; `CloseSession` are the handlers cut at each read and write of
shared dictionaries; `Allow` is the limiter, which runs on the event loop without an await and
takes expired events off the left end of its deque, up to the first that counts (`Remaining`). A
decision id digests what it derives from: it is the sequence of accepted proposals. The id of a
sync digests the length of the list, as the code's does, so two syncs may have the same one.

### `Cutover` — `domain/cutover.py`, `application/cutover_539.py`
`Plan` is the comparison in shadow mode with the version and revision an operator notes;
`ExecuteCutover` is activation with its fence (`Fenced`), publication and observation, with the
automatic rollback; `RollbackToLegacy`; `RefuseCutover` leaves everything. The functions are
pure: their caller keeps the writer state, and one caller at a time replaces it, which also
grants the writer lease and enters shadow mode.

### `GitHubClient` — `adapters/github/adapter.py`, `app.py`
`Call`, `Send`, `NoToken`, `ReadAnswered`, `WriteAnswered`: a call passes the circuit, takes a token
from the cache that renews it early, and is answered in time, late, with an error, with something
that cannot be parsed, or not at all; `publish_projection` is two requests. `Counted` is what the
circuit counts: a 2xx answer resets it, a missing issue and transport errors other than `TimeoutError`
(`transport_error`) leave it alone. `streak` is the history of the failures since the last 2xx answer, with
their times, and `Cooldown` the 30 seconds of `docs/integrations/GITHUB.md`, which the code does not
have. GitHub and the other editors of the issue (`EditIssue`) are the environment.

### `Certification`, `HarnessRegistry`, `ReleaseTrain`, `Migrations`
`Certification` (`contracts/harness_runner.py`, `evidence_writer.py`, `evidence_record.py`,
`harness_applicability.py`, `release_certification.py`): `Prepare`, then per harness
`RunCommand`, `RecordEvidence` (which names the revision it finds then), and at the end
`Recheck`, `Reload`, `SignRelease`; `EditTree`, `RestoreTree`, `CommitTree` are people,
`HarnessInterferes` a harness that touches earlier evidence. `Outcomes` is what each kind of
harness can leave behind. `HarnessRegistry` (`scripts/build_harness_registry.py`,
`contracts/harness_registry.py`): `LoadLifecycle` of whatever a reviewer wrote down, Kahn's
validation (`SortOne`), the depth-first `dependency_closure` as an explicit stack. What the
closure should contain is stated without any traversal: `Needs(h)` is the intersection of all
sets that hold the harness and are closed under prerequisites.
`ReleaseTrain` (`scripts/certify_plan_through_item_35.py`, `finalize_final_verification.py`):
the steps of the two scripts, each of which may fail or be interrupted and started again. What a step
leaves on disk or in the plan carries the number of the invocation that left it, so that leftovers of an
earlier one can be told apart. The release certification reads HEAD for itself, as its script does.
`Migrations` (`infra/alembic/`, `scripts/migration_smoke.py`): the schema by waves; a command
runs its revisions in one transaction (`RunRevision`, `CommitMigration`), is refused
(`Fail`) or killed (`Kill`); `StartSmoke`, `SmokeCommand`, `SeedMarker`, `InstallProbe` are the
smoke test, which uses the same database.

### Modules that instantiate
`MCDurableQueue`, `MCIngestion`, `MCSetup` hold the instances for TLC. `MCRules` (Policies,
Authority, Frontier), `MCGovernance` (Governance, AuditLedger, Access) and `MCPlatform` (the
rest) put components that share no state into one run: the variable `subject` says which
component a behaviour is about, the others stand still. Components that do interact are
composed in one module: pipeline, adapters and transaction in `Ingestion`, service, executor,
journal, lock and machine in `Setup`, leases and proposals in `Governance`, source, engine
and team in `Frontier`.

## 4. Runs

| Run | Question | Bounds and why they are enough |
|---|---|---|
| `queue_safety` | Are attempts, keys, ownership, fairness and finality right whatever workers do? | two tenants, two jobs, two workers, two attempts, leases of one tick: a lease can be lost, given to the other worker, and lost again into the dead letter, and one job may be the replay of the other; fairness needs one overtaking |
| `queue_liveness` | Does every job settle? | one tenant, two jobs, both retry paths; no heartbeats, because a worker that heartbeats for ever legitimately keeps its job |
| `ingestion` | Do concurrent, redelivered and failing executions keep the tables right? | two executions, two connections with the same item numbers, whose items have revisions of their own, two changes: enough for an execution to read between two commits of others, and for lock conflicts across connections. Deadlock is checked |
| `ingestion_sync` | Do full reads catch up with the tracker? | two commands of one connection are enough because a command that stalled is executed again. The second connection is a GitHub repository with two issues on two pages and one change that may not show, read in full and by webhook; it numbers its items alike, so it competes for projections and frontier. The property is about the first connection only: GitHub's does not catch up (see 7) |
| `setup` | Is the journal truthful, and does no run stop services under a ready report, under crashes, interruptions and failing commands? | one process, two apply runs, development and production profiles, one crash or interruption, two failing calls, services that may stop at any time: a run can be interrupted, resumed, fail, be compensated (itself failing) and be resumed again, before or after another run |
| `graph` | Do the graph algorithms compute what they are named for? | every graph of four items: components next to, before and behind each other, cycles with and without a tail, two shortest paths to one node. One subtype, because only the blocker index looks at it |
| `rules` | Are verdicts monotone and safe, authority justified, incremental cycles complete, recommendations workable? | policies: six bundles (one malformed, some of the others refused), a tree of five nodes with every connective, eight records of evidence that fail each check in turn, two on file. Authority: two sources, a human override and inference, two observations, every source may move and expire. Frontier: three items, two blockers each (chains, diamonds, cycles, a missing blocker), two edits |
| `governance` | Do leases, proposals, ledger, access and emergency access keep their promises under each other's changes? | two actors, two leases of three versions: enough to lose, override, rejoin and restart versions; three decisions and two revisions: two applied changes and one stale; ledger of three entries: first, middle, last; two users, two scopes (one inside the other), roles with and without the permission, two role revisions; three invocations around the limit of two |
| `platform` | Do the components around the domain keep theirs? | three harnesses (a chain), two commits and two edits; every registry over three harnesses with any prerequisites; four invocations of the scripts over two revisions; databases at three waves; two threads and actors; four requests in a window of two; two operators, three source revisions (one equal, one different, one different in presentation only), four writer versions; two processes, two workspaces, one job, one delivery; a threshold of two failures and a cooldown of two ticks in four, so that a request could follow the second failure within it and after it |
| `setup_lock`, `queue_abandoned`, `schema_fresh` | See 7 | the smallest instances that show the disagreement |

Deadlock checking is on for the two ingestion runs. The others come to rest in states where that is the end: all
jobs settled, all apply runs used up, the call returned, the bounds reached. `setup` has one
process because two are not kept apart by the installation lock (`setup_lock`); nothing that
the other properties say survives that. For several processes whose runs do not overlap they are
theorems (section 6).

Named bounds: `MaxHeartbeats` (heartbeats per claim), `MaxChanges` (tracker changes),
`MaxSessions`, `MaxCrashes` (crashes and interruptions together), `MaxFaults`; `MaxEvidence`, `MaxRevision`, `MaxNow` (policies);
`MaxRevisions`, `MaxObservations`, `MaxClock` (authority); `MaxBlockers`, `MaxEdits` (frontier);
`MaxLeaseVersion`, `MaxLeases`, `MaxDecisions`, `MaxSourceRevision`, `MaxProposals`, `MaxLeaseClock`;
`MaxEntries`; `MaxRoleRevision`, `MaxGrants`, `MaxInvocations`, `MaxHours`; `MaxCommits`, `MaxEdits`; `MaxAttempts`;
`MaxRequests`, `MaxApiNow`; `MaxSource`, `MaxVersion`, `MaxCutNow`; `MaxPgNow`; `MaxIssue`,
`MaxGitHubNow`. The identifier sets bound the rest. Symmetry is used in safety runs only, for workers,
ingesters and the actors of `Governance`, which all occur only as indices.

### Properties

| Run | Property | What it says |
|---|---|---|
| `queue_safety` | `AttemptsBounded` | every claim is accounted for by one attempt, on both ways out of a claim, and no job is claimed more than `max_attempts` times |
| | `IdempotencyExact` | one job per workspace-scoped key, replays of replays included |
| | `StaleRunRefused` | who passes `_owned_claim` executes the latest claim |
| | `NoTenantOvertakenTwice` | no tenant is claimed for twice while another waits with an eligible job |
| | `SettledForever`, `LiveLeaseUndisturbed` | settled jobs never change; nobody but its worker touches a job under a live lease |
| `queue_liveness` | `EveryJobSettles` | every accepted job ends |
| `ingestion` | `CyclesChain` | cycles of a connection form one chain over cursor revisions |
| | `FullCyclesConsistent` | a full cycle is the corpus of one moment |
| | `TablesFollowCycles` | stored items and projections are those of the last cycles, and nothing else |
| | `NoLockCycle` | no cycle of row locks |
| | `CyclesAreAtomic` | all executions together implement `DecisionLog`: one indivisible decision per cycle, never older than the one before |
| `ingestion_sync` | `EventuallyInSync` | decisions of a connection that is not GitHub's catch up with the tracker |
| `setup` | `JournalAccounts` | every effect is journaled, a configuration is written for verified sessions only, and a run never takes the services down, or leaves them half down, under a report that calls them ready |
| | `CompensatedFromTheEnd`, `VerifiedNotRepeated` | nothing is undone under something that stays; verified actions are not repeated, unless the verification is stale |
| `graph` | `GraphAnswersExact`, `Terminates` | components, cycles, quarantine, paths, containment are what the declarative definitions say, and an item that is not behind a cycle keeps its hard blockers; every call ends |
| `rules` | `VerdictsMonotone` | more evidence never closes a passed gate, more knowledge never reverses a decided verdict |
| | `SafetyProven` | an item that goes from active to completed has, for each of its safety gates, an attested record of an accepted kind and sufficient authority for this item and revision, the gate's condition holds, and no waiver stands in for it |
| | `ResolutionsJustified` | a report that changes the selected value is at least as high as the one it displaces; only a new report heals a field |
| | `ReadinessChangesAffected` | an item whose readiness changed is among the affected items of the cycle |
| | `FrontierWorkedOff` | a team that closes what is recommended drains the frontier, unless cycles or missing blockers hold it |
| `governance` | `ExclusiveAlone`, `NeverBrokenSilently` | exclusive claims are worked on alone; a lease in force changes hands only with an event |
| | `ChangesChain` | accepted changes derive from each other, none is lost, nobody approved their own |
| | `VerifiedIsWritten` | a segment that verifies is the one written, a deletion proof covers all of it |
| | `PermittedForAReason` | what is permitted is so under a live session of the stored role revision, by a grant at or above the resource and no deny at or above it, with a second person where somebody is judged; access opens to a user only by its own login, its own stored identity or a role given to it there or above |
| | `BreakGlassLimited` | no 24 hours hold a third emergency access of one actor |
| `platform` | `CertificationSound` | every harness of a certificate or a signed release ran on the revision named and left an acceptable record of it; a certified foundation rests besides on a clean tree and the evidence as written; a signed release waives nothing it may not |
| | `ClosureOrdered` | an accepted registry has a runnable order, and the closure is complete and in that order |
| | `PlanEarned` | items 28-35 are ticked off only by an invocation that itself signed a release of the subject it writes, or of a later commit, and itself cut over; F1-F4 only by a later invocation, on audits it ran itself; nothing an earlier attempt left counts |
| | `SchemaMatchesVersion` | whatever fails or is killed, the committed schema is what its version says |
| | `AnswersHold` | nobody is granted what was out of reach for the whole of the request; the list of syncs loses and reorders nothing; no window is over the limit |
| | `RequestsDisciplined` | after a threshold of counted failures in a row nothing is sent before the cooldown is over, and no token expires under a request that took no longer than the margin |
| | `AckedIsStored`, `QueueIsAtomic`, `FenceHandedOver` | acknowledged means committed; the queue implements `AtomicQueue`; the fence waits for expiry |
| | `TakeoverOnFreshParity` | Work Frontier takes over only on a comparison that still holds |

`AnswersHold` (in `NoStaleGrant`) speaks of requests that follow a change. Two claims that both looked before
either wrote are both answered "claimed", against the document on leases (see 7); the property does
not claim otherwise, nor does any other.

Some properties are conjunctions of named parts: `TablesFollowCycles` is `StoredItemsAreLatest` and
`ProjectionsDerive`; `JournalAccounts` is `EffectsJournaled`, `ConfigVerified` and `NoStopUnderReady`;
`GraphAnswersExact` collects `ComponentsExact`, `CyclesReal`, `CyclicComponentsExplained`,
`QuarantineExact`, `ShortestPathsExact` and `ContainmentDecided`; `VerdictsMonotone` is
`EvidenceOnlyHelps` and `KnowledgeNeverReverses`; `ResolutionsJustified` is `PrecedenceStable` and
`OnlyReportsHeal`; `PermittedForAReason` is `AccessJustified`, `AccessOpens` and `SecondPerson`; `CertificationSound` is
`RevisionBound`, `EvidenceAsWritten` (both of foundations), `RanOnSubject` (of every kind) and `NothingWaived` (of
releases); `PlanEarned` is `ItemsEarned` and `GatesEarned`; `AnswersHold` is `NoStaleGrant`, `SyncsInOrder` and
`WindowNeverFull`.

## 5. Fairness
* Queue: the clock advances, recovery is called again and again (the scheduler's sweep),
  some worker keeps claiming, and a worker ends its run in some way, dying included. No
  fairness on enqueueing, on success or on heartbeats.
* Ingestion: a started execution continues; every command is executed again and again
  (strong fairness, since the two executions compete for the ingesters): reconciliation is
  triggered periodically. `ingestion_sync` runs without faults.
* Graph: a call in progress goes on.
* Frontier: a cycle runs after every change (the worker's loop), and the team works on what is
  recommended. Edits are bounded and not fair.
* PostgreSQL queue (`PgFairness`, only for `queue_abandoned`): statements run, transactions end, the clock
  advances, live workers keep asking for jobs. No process is bound to finish what it claimed.
* The others are checked for safety only and state no fairness.

## 6. What is proved

Eight modules hold proofs. The constants are arbitrary sets and numbers under the named assumptions
of the modules; the bounds of the runs are constants too, so the theorems hold for every bound.

| Module | Theorem | Statement |
|---|---|---|
| `DurableQueueProofs` | `QueueInvariant` | `Spec => []QueueInv` |
| | `TypeCorrect`, `PoisonJobsBounded`, `KeysUnique`, `StaleWorkersRefused`, `TenantFair` | the invariants of `queue_safety` |
| | `SettledJobsFrozen`, `LiveLeasesUndisturbed` | its two action properties |
| `IngestionProofs` | `IngestInvariant` | `Spec => []IngestInv` |
| | `CyclesFormChains`, `FullCyclesAreMoments`, `LocksOrdered` | `CyclesChain`, `FullCyclesConsistent`, `NoLockCycle` |
| | `FreshInvariant`, `NothingRegresses`, `TablesFollow` | under `OwnRevisions`: `[]FreshInv`, `[]SnapshotsNeverRegress`, `[]TablesFollowCycles` |
| | `MergeInvariant` | `Spec => []MergeInv` |
| | `CyclesImplementLog` | under `OwnRevisions`: `Spec => CyclesAreAtomic` |
| `SetupProofs` | `SetupInvariant` | `Spec /\ []OneRun => []SetupInv` |
| | `JournalIsTrue`, `CompensationGoesBack`, `VerifiedIsNotRepeated` | under `[]OneRun`: `JournalAccounts`, `[]CompensatedFromTheEnd`, `VerifiedNotRepeated` |
| | `OneProcessAccounts` | with one process, `Spec => JournalAccounts /\ []CompensatedFromTheEnd` |
| `ServiceProofs` | `ApiAnswersHold` | `ApiSpec(ops) => []AnswersHold`, for every set of operations |
| | `ClientIsDisciplined` | `GitHubSpec => []RequestsDisciplined` |
| | `CutInvariant`, `TakeoverEarned` | `CutSpec => []CutInv`, `CutSpec => TakeoverOnFreshParity` |
| | `PgInvariant` | `PgSpec => []PgInv` |
| | `AcknowledgedStored` | `PgSpec => []AckedIsStored` |
| | `QueueImplementsAtomic` | `PgSpec => QueueIsAtomic`, the refinement |
| | `FenceWaits` | `PgSpec => FenceHandedOver` |
| `ReleaseProofs` | `CertifiedIsEarned` | `CertSpec(kinds, producers) => []CertificationSound` |
| | `ClosureIsOrdered` | `RegistrySpec(metadata) => []ClosureOrdered` |
| | `PlanIsEarned` | `TrainSpec => []PlanEarned` |
| | `CommittedSchemaIsTrue` | `MigrationSpec => []SchemaMatchesVersion` |
| `GovernanceProofs` | `GovernanceInvariant` | leases and proposals in any order of their operations |
| | `ExclusiveWorkAlone`, `AcceptedChangesChain`, `LeaseNeverBrokenSilently` | `ExclusiveAlone`, `ChangesChain`, `NeverBrokenSilently` |
| | `LedgerIsTrue` | `AuditSpec => []VerifiedIsWritten` |
| | `AccessInvariant` | sessions, rules and invocations in any order of administration and emergencies |
| | `AccessEarned`, `EmergencyLimited` | `AccessSpec => PermittedForAReason`, `AccessSpec => []BreakGlassLimited` |
| `RulesProofs` | `VerdictsAreMonotone`, `SafetyIsProven` | `PolicySpec => VerdictsMonotone`, `PolicySpec => SafetyProven` |
| | `ResolutionsAreJustified` | `AuthoritySpec => ResolutionsJustified` |
| | `AffectedAnnounced` | `FrontierSpec => ReadinessChangesAffected` |
| `GraphProofs` | `GraphInvariant` | `Spec => []GraphInv` |
| | `CyclesAreExact` | `[]` of `ComponentsExact`, `QuarantineExact`, `CyclesReal`, `CyclicComponentsExplained` |
| | `PathsAreExact`, `ContainmentIsExact` | `Spec => []ShortestPathsExact`, `Spec => []ContainmentDecided` |
| | `AnswersAreExact` | `Spec => []GraphAnswersExact` |

**Durable queue.** Assumed: `QueueAssumption` (identifiers are numbers because the claim
order sorts them; attempt limits, lease and retry base are positive; the retry maximum is not
below the base, which is what `QueuePolicy.__post_init__` enforces). None of the safety
properties but the index property is inductive alone. `AttemptsBounded` needs `ClaimsAccounted`,
because the bound on claims follows from the bound on attempts only if the two are counted
together. `StaleRunRefused` speaks of live leases only, and time passing would break the
induction, so `LatestClaimRun` drops the lease: the worker that a claimed job names as its
owner, if it still works on that job, works on the latest claim. `NoTenantOvertakenTwice`
needs `OvertakerSortsBehind`: a tenant that has overtaken a waiting one has the higher claim
counter, hence sorts behind it, hence is not claimed for again before it.

**Ingestion.** Assumed: `IngestionAssumption` (item identifiers are numbers, because writes
sort by them; every tracker holds an item; a cycle id names one command, which touches items of its
connection only). A cycle is decided from reads made long before its commit, so the invariant says what an
execution knows at each of its steps (`ExecOK`): it read a cursor not ahead of today's and a
revision beyond it, past the fence the cursor is still the one it read, the pages it has read show the
tracker of one moment, the projection rows it holds come before those it still wants. `OneFence` and
`OneFrontier` say that the row locks exclude each other. A new cycle is then the next link of its
connection's chain, whatever executions overlapped. `NoLockCycle` follows without a further induction: two
transactions that waited for each other would each want a row smaller than the other's.
What regresses or follows is proved for connections whose items have a revision per version
(`OwnRevisions`: memory, fixture and local adapters). GitHub's node ids make it false, see 7. The
key is `NotOutdated`: as long as the cursor is the one an execution read, nothing stored is newer than
what it holds; a commit of another execution moves the cursor and thereby ends the promise, and the
execution with it at the fence. The refinement of `DecisionLog` needs more than an order: `MergeInv`
says that an incremental execution holds exactly what is stored, under the same condition, except for
the items it has fetched, each of which it holds as it was at some moment since its revision. At the
commit the condition is met, so what was read step by step is one of the `Readings` of that moment
(`CommitReads`), and `StoredItemsAreLatest` after the step says that it is the new corpus
(`CommitStores`); every other step leaves all tables alone and is a stutter. Greatest and least elements exist by `NatLessThanWellFounded`.

**PostgreSQL queue.** Assumed: `PgAssumption` ("none" is no identifier; lengths are natural
numbers). A commit writes what its statement decided earlier, so the invariant has to carry the
decision over the gap: `RowHeld` says that what an undecided statement saw of its row is still
so (absent for an insert, pending for a claim, free for the fence, present for an insert that
found a duplicate). It survives the commits of others because of `OneWriter`: two undecided
statements of one kind never hold the same row. A heartbeat or completion needs no such memory: it
looks again when it has the row. From `RowHeld`, `ChangedRow` says which single row a
commit changes and from what to what; the refinement is that case by case, and a heartbeat is a
stutter of `AtomicQueue`. `FenceWaits` adds that the clock a caller read is not in the future.

**Cutover.** No assumption. `PlanCurrent`: a plan's version never exceeds the writer's, and if it
equals it, nobody changed the writer since. It is preserved because every change of the writer
takes a version (`PlansOutgrown`), the rollback inside an execution included.

**Governance.** No assumption. `GovernanceSpec` lets leases and proposals take their steps in any order,
which is more than the runs examine. `ExclusiveAlone` needs `Alone` (an exclusive claim is granted on
an exclusive lease only, and such a lease has no collaborators); `ChangesChain` needs
`ChangesPast` (accepted changes lie before the current decision), which new decisions only strengthen.

**Access.** Assumed: `AccessAssumption` (a scope is a nonempty path, a day and a session have a
length, `Nobody` is no user). `AccessSpec` interleaves administration with emergencies.
`PermittedForAReason` goes action by action (`StepOpens`): `NothingOpens` says that a step which
leaves a user's session, role revision and grants alone opens nothing to it, whatever time, denies
and other users do. `ContainsIsAbove` identifies the prefix test of `ResourceScope.contains` with
the ancestors the property speaks of. `BreakGlassLimited` needs invocations to be numbered in the order
of their times; a third one within a day would have found two recent ones.

**Rules.** Assumed: `TablesAssumption` (a policy is a table of nodes whose operands come later, which is how
the model writes a tree down), `FreshnessAssumption` (what `FreshnessPolicy` enforces),
`OrdersAssumption` (sources and values are numbers because reports are sorted by them), `PipelineAssumption` and
`ItemsAssumption` (finitely many items).
`PolicyInv` says little: an installed bundle has parsed, and no record on file is an AI's. The work is in the
evaluation of the tree: `NodeTruthIs` shows that the recursive function has a value for every node, and
`TruthCarries` that and, or and their nesting carry over a step what the leaves carry over. Since the
prover has no induction over trees, both take the node furthest down that fails. The same lemma serves the two
halves of `VerdictsMonotone`: evidence carries over "true", knowledge carries over "true" and "false".
For `ResolutionsJustified` the selected report must exist: `FirstListed` finds it level by level through the sort
key. That a stale report stays stale needs `OnFile`, that no report is of a revision its source has yet to reach.
`ReadinessChangesAffected` relates two cycles and what happened between them; its invariant speaks of one:
an item that has not changed since the last cycle and waits for nobody who has is as ready as that cycle
said (`Untouched`).

**Audit ledger.** No assumption beyond the injective digest. `AuditInv` says that the checksum a
signed anchor names is that of the history written. `VerifiedHistory` does the work: two chains that
both recompute and end in the same checksum have the same length and the same entries, compared
from the last one back. It holds for a store that rebuilds consistent checksums, too, which is what
the anchor is for.

**Setup.** Assumed: `SetupAssumption` (requests have a profile and inputs; the bounds are
numbers), and as hypothesis of the temporal theorems `[]OneRun`, that at most one process is
between the start and the end of a run. It is a hypothesis because the code does not ensure it:
the lock is selected and inserted in two transactions, and the resuming process compares its
snapshot before it asks for the lock (`setup_lock` shows two runs inside). Many behaviours satisfy
it, with any number of processes that take turns and crash or are interrupted at any step, and with one process it
is always true, which is `OneProcessAccounts`: there nothing is assumed.
The invariant `SetupInv` has a part about what processes share and a part about each of them.
`InOrder` says that an action is reached only when those before it are verified, which the
journal shows whatever happened to the process that wrote it; `EffectsJournaled`
ties the machine to the journal; `ConfigKnown` ties the configuration to verified sessions. `RunOK`
follows a run: how far it is, what of its session was verified when it read the journal, what it has
applied itself, how far back its compensation has come. No part of it relies on services to stay up, so
`ServicesStop` preserves it. `NoStopUnderReady` is a statement about steps: an effect is taken back by a
compensation only (`OnlyUndone`), the action it takes back is then journaled as compensating or for
manual recovery in the session updated last (`UndoneIsJournaled`, from the part of `RunOK` about
compensations), and the report that reads this session cannot call the runtime ready
(`NotReported`). A stronger statement, that a ready report has services behind it, is false (section 7).

**Control plane.** Assumed: `LimiterOK` (`allow` refuses any other configuration). A handler that was
interrupted between its read and its write remembers what it read; `ReqInv` says that what the
history of its request (`seen`, `free`, `unused`) records is up to date and covers what it
remembers. `SyncInv`: what was answered is completed or still queued, whatever the ids. `LimiterInv`: the deque is the end
of the list of all admitted requests, and what has left it is older than the window. Requests are
not assumed to be taken by any particular thread.

**GitHub client.** Assumed: `GitHubOK` (a threshold of at least one, which the adapter enforces; the margin
is shorter than a token's life). `GitHubInv`: the counter is the length of the streak of failures since the last
2xx answer, whatever came between them, and a request in flight has passed the circuit and carries a token
good for longer than the margin.

**Release and harnesses.** `OrderOK` (what `validate_registry` ensures of a foundation closure),
`CatalogFinite`, `DatabasesOK` (a database that is not empty was made by some wave of the schema) are
assumed; the release train needs nothing. For certification `CertInv` follows one certificate through its
harnesses: what has run so far, on which revision, whether the tree has been as the subject has it
since. The certificate is about the revision it names because a command that ran while the tree
was otherwise is found at the recheck, or left a record that names another revision. For a standalone
certificate and a release, where nothing is looked at again, `EarnedInv` carries along that each harness
that has run did so on the subject (HEAD may have moved on, but then its record names another revision
and is refused) and left an acceptable record. `RegistryInv`
says that what Kahn's loop has taken off is closed and acyclic, hence the whole catalog is; that the
open calls of `visit` form a path of different harnesses; and that every closed set around the first of
them contains all that was visited, which makes the closure the least one. That a path through an
acyclic catalog meets no harness twice is the reason that `visit` never reports a cycle. `MigrationInv`
says of the committed schema and of what the running transaction sees that it tells the truth about
itself (`SchemaTrue`), since a commit may follow any revision. `TrainInv` says what the step a script has
come to implies: past the release certification the release on disk is this invocation's, past the cutover
so is the cutover, past the audits so are they (`UnderWayInv`).

**Graph.** Assumed: `GraphAssumption` (finitely many items, numbers because every loop runs in key
order). Nothing is assumed of the graph. `GraphInv` has one part per traversal, each over the frames of its
recursion; TLC has checked them as invariants on all graphs of four items before they were proved.
* `FramesInv`: the frames are a path of distinct nodes, each entered for a target of the one before.
  A target that is itself on the path therefore closes a real cycle (`ClosedPath`), which gives
  `CyclesReal` for both searches that report one.
* `TarjanInv`: the stack is in the order of the visits (`StackOrdered`), what has been popped is closed and made
  of whole components (`SettledExact`), a frame reaches all that is above it (`AboveReached`), and a finished node
  that is still on the stack leads to one further down (`FinishedReturns`). `LowLinkReached` and
  `LowLinkLeast` say together what a low link is: an index that can be reached, and none
  of the targets looked at so far in the frame's part of the stack has a lower one. So when low
  link and index agree nothing above leads below, and what is above is the component
  (`AboveIsComponent`); when they differ the node leads further down and stays.
* `ExplainInv`: what a frame of a cycle search has looked at and come back from lies in a set that
  is sealed off (`Sealed`): inside the component it can be left only by the path the search is on. When the
  path is back to its first node the set could not be left at all, which in a strongly connected
  component is impossible (`NoDeadEnd`): the search never gives up on a component.
* `PathsInv`: a path stored is a path from the root, and a node that is not pending improves no neighbour. Relaxing a
  node may replace a path while its holder is in the queue, which is why the order on paths must be
  transitive and total (`BetterTransitive`, `BetterTotal`). At the end, a better path than the one stored would have a
  shortest such, whose last step contradicts its neighbour being settled (`NoPathIsBetter`).
* `DetectInv`: what the containment search has left is closed and carries a rank that every edge lowers. If no
  cycle was met this ranks all endpoints, and an unsorted node of the highest rank must be ready
  (`SortInv`, `ContainmentIsDecided`): the sort does not run dry early.

There is no induction over the graph: where an argument needs one it takes a least counterexample
(`LeastNumber`, from `NatLessThanWellFounded`).

Only model-checked: all liveness (`EveryJobSettles`, `EventuallyInSync`, `Terminates`,
`FrontierWorkedOff`), which is outside the prover's reach. Every safety property of a passing run has
a theorem.

## 7. Where the code and its documents disagree

Shown by runs:
* `setup_lock`: the installation lock is read and written by two statements in separate
  transactions, and a session's own row never conflicts, so a running session can be resumed
  by a second process. Two runs are inside together.
* `queue_abandoned`: no PostgreSQL statement looks at a claimed row whose lease is over; the job of a
  worker that stopped stays claimed for ever. The architecture document promises that the
  scheduler reclaims it.
* `schema_fresh`: revision 0002 creates every table of today's metadata, so revision 0004 creates
  a table that is already there: on a fresh database `upgrade head` is refused.

Seen while modelling, by the checker or by reading (a run each would say little more than the line
does):
* Ingestion: an incremental execution moves the cursor to the tracker's revision although it
  refetched only the items it was told of; the replay shortcut (`application/ingestion.py:98`) then
  hides every other change until the tracker changes again. `_parse_issue` uses the node id as
  item revision (`adapters/github/adapter.py:270`); versions are unique by revision, so only the first
  version of an issue is ever stored. Pages of GitHub issues have an ETag each
  (`adapter.py:141`), so a full read of several pages always reports a changed revision and publishes
  nothing; the connection's revision (`adapter.py:155`) is the repository's, which an edited issue need
  not change, so the replay shortcut may skip the edit. A GitHub connection of more than one page
  therefore never catches up by full reads, and one of a single page may miss edits. A frontier version
  1 may be published twice, because a row that does not exist cannot be locked.
* Setup: a run interrupted after it started the services cannot be resumed, because resume
  insists on the detection snapshot of the plan (`service.py:155`), and its lock has no expiry.
  Actions undone by compensation are still reported as verified in the run's result
  (`execution.py:120`). Verified actions are never executed or verified again, although the design
  (`docs/superpowers/specs/2026-07-14-interactive-onboarding-setup-center-design.md:298`) repeats them
  when "their verification has become stale": a session that started and verified its services, was
  interrupted, and is resumed after another session took them down, verifies the rest and reports the
  runtime ready with the services down; so does any session whose services stop by themselves.
  An exception or interrupt releases the lock with effects in place and the action journaled as
  running (`execution.py:38`). Production setups always
  fail at `github.app.verify`. `compare_and_swap` reads, compares and replaces in separate steps. The
  failure of a second run stops services that an earlier run had started. Development's
  `database.migrate` runs the migration smoke, which fails on a fresh database.
* Graph and frontier: edges with a quarantined end are dropped before the blockers are indexed, so an
  item hard-blocked by a member of a cycle loses that blocker (`graph.py:165`;
  `docs/domain/edges.md:100` makes its readiness `false`); `QuarantineExact` says nothing of such an item. `affected_item_ids` misses upstream
  blockers whose fan-out changes. The graph functions recurse once per node of a path.
* Authority: an observation that itself claims to be stale, conflicted or unavailable resolves as
  authoritative (`authority.py:287`); of two revisions of one source the older may be selected; an
  expired override keeps shadowing what is below it.
* Leases: `force_override` does not renew the expiry (against `docs/domain/work-lease.md:102`) and, like
  `release`, acts on released leases; versions restart at 1 with each lease; any collaborator may
  release; the claimant at approval may differ from the claimant at application.
* API: two claims or approvals that interleave are both granted (against
  `docs/domain/work-lease.md:93`); `SetupSessionManager.exchange` may issue two sessions for the token
  that works "exactly once"; a sync's job id comes from the length of the queue and is reused after
  a worker took one, and by two requests that read the same length (`services.py:335`); leases of this
  control plane neither expire nor are released; `worker_once` checks and pops in two steps; "persisted" syncs live in memory; the header
  `X-Actor-ID` replaces the session's actor.
* Identity: storing a session again may overwrite its revocation. A grant does not raise the role
  revision (`identity.py:128`), so a session of before the grant goes on and acts with the new role; an
  identity stored with an older revision makes sessions of that revision current again.
* Authorization: a grant holds for everything below its scope (`ResourceScope.contains`), reading
  included, whereas `docs/security/authorization.md:113` checks each level on its own; the property speaks
  of changes only. An item without claimant or a connection without known configurer asks for no
  second person (`authorization.py:366`, `:375`). No module of `src/` but the tests calls `authorize`.
* PostgreSQL: attempts never grow and the retry and dead-letter states are never written; the inbox
  recognizes a delivery by its id whatever its payload hash.
* Cutover: the fence never compares the lease's version nor the mode; a rollback needs no lease;
  the break-glass limit counts invocations that the caller supplies.
* Certification and release: a foundation's revision and tree are looked at before the first and after the
  last harness only. A signed release's tree is looked at once, before the first harness
  (`scripts/run_release_certification.py:88`), and its records are not read again at the end: its harnesses may have
  run on a dirty tree and it may rest on a record another harness overwrote. The release finds its own
  revision, which may be a later one than the "exact subject" that
  `certify_plan_through_item_35.py` writes into the plan (`:55`, `:79`, `:98`).
  `finalize_final_verification.py` says that it requires "a second explicit invocation" (`:69`), but the first may
  approve; and an approving invocation runs the audits again, so what is approved is not what
  was reviewed. Some results of the failure-injection harness are constants.
* Migrations: the downgrade of 0002 is always refused (it drops a role that still owns rights); the
  probe revision of the smoke test makes a second head; a killed smoke test leaves that file, after
  which every upgrade fails.
* GitHub: a circuit that opened never closes again in that adapter, whereas
  `docs/integrations/GITHUB.md:511` closes it after 30 seconds with a test request, and the backoff and retries of
  its section 8.2 do not exist; `RequestsDisciplined` claims nothing past the cooldown. Transport errors other than
  `TimeoutError` (`adapter.py:208`) and failures to get a token are not counted; `publish_projection` compares
  a node id, which cannot be stale, and its write names no revision.
* Durable queue: two executions under one worker id are one owner.

## 8. What is not modelled
* `SchedulerFence` of `platform/queue.py`: one owner per key in memory, held until that owner releases it. It
  does not follow the rule of the PostgreSQL fence, which expires and has no release, although both are fences of the
  scheduler; nothing in `src/` but tests uses it. `create_override`
  (four checks of its arguments), attention items (one flag), `anonymize_subject` (a pure rewriting): no
  state of theirs is read by anything else.
* Payload parsing of the adapters and of the two projections of the cutover; the wire forms of
  evidence records; the sealing of cookies; secret redaction.
* The union of several roots' regions and the kinds of endpoints in the graph.
* HTTP transport, signatures and token exchange of the GitHub clients, encryption, object storage
  and secret stores: wrappers of libraries.
* Schema declarations (the unique keys that matter are guards of the models that meet them); value
  objects and identifiers; event schemas; the copilot's text boundary.
* The command line, the worker and scheduler processes (stubs), the frontend, linters, generators,
  documentation tooling and the platform harness script.
