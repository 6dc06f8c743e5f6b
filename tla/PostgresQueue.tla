---------------------------- MODULE PostgresQueue ----------------------------
(***************************************************************************)
(* The PostgreSQL inbox, queue and scheduler fence                         *)
(* (platform/persistence/postgres_queue.py) as processes use them through  *)
(* workspace_session (database.py): every call is one statement in a       *)
(* transaction of its own, under the row-level security of one workspace.  *)
(* The caller reads its clock first; the statement runs and locks its row  *)
(* later; the transaction commits later still, or is rolled back with its  *)
(* process.  The two unique keys (schema.py) make an insert wait for one   *)
(* that is not yet decided.  The schema has states nobody writes: no       *)
(* statement fails, retries or recovers a job; the version of a fence is   *)
(* written and never compared, so it is left out.                          *)
(***************************************************************************)
EXTENDS Naturals

CONSTANTS
    Processes,      \* receivers, workers and schedulers
    PgWorkspaces,   \* workspaces
    JobIds,         \* ids of jobs, unique in a workspace; the idempotency key is the job's
    Deliveries,     \* webhook delivery ids
    LeaseDuration,  \* lease_duration
    MaxPgNow        \* bound: the clock

VARIABLES
    pgNow,          \* the clock
    jobs,           \* committed rows of job_queue, by workspace and job
    inbox,          \* committed rows of webhook_inbox
    fence,          \* committed row of scheduler_leases, by workspace
    tx,             \* the transaction of each process
    acknowledged    \* history: deliveries and jobs whose sender was told they are safe

\* "none" is nobody and nothing; leases have a length.
ASSUME PgAssumption ==
    /\ "none" \notin Processes \cup PgWorkspaces \cup JobIds \cup Deliveries
    /\ LeaseDuration \in Nat /\ MaxPgNow \in Nat

pgVars == <<pgNow, jobs, inbox, fence, tx, acknowledged>>

Rows == PgWorkspaces \X JobIds
Free == [state |-> "absent", owner |-> "none", expires |-> 0, since |-> 0]
NoFence == [owner |-> "none", expires |-> 0]
Closed == [step |-> "idle", op |-> "none", ws |-> "none", id |-> "none", at |-> 0,
           row |-> "none"]

PgInit ==
    /\ pgNow = 1
    /\ jobs = [r \in Rows |-> Free]
    /\ inbox = {}
    /\ fence = [w \in PgWorkspaces |-> NoFence]
    /\ tx = [p \in Processes |-> Closed]
    /\ acknowledged = {}

-----------------------------------------------------------------------------
(* Transactions. *)

\* workspace_session: a transaction, the application's role and its workspace;
\* the arguments of the call hold the caller's clock.
Open(p, op, w, id) ==
    /\ tx[p].step = "idle"
    /\ tx' = [tx EXCEPT ![p] = [Closed EXCEPT !.step = "open", !.op = op, !.ws = w,
                                                  !.id = id, !.at = pgNow]]
    /\ UNCHANGED <<pgNow, jobs, inbox, fence, acknowledged>>

\* Every row the role would see without a policy.
VisibleAll(p) == Rows

\* The policies of 0002_platform_core: rows of the session's workspace.
Visible(p) == {r \in Rows : r[1] = tx[p].ws}

\* The statement of another transaction, not yet decided, holds this row.
Held(p, ops, w, id) ==
    \E q \in Processes \ {p} :
        /\ tx[q].step = "executed" /\ tx[q].op \in ops /\ tx[q].row # "none"
        /\ tx[q].ws = w /\ tx[q].row = id

JobOps == {"enqueue", "claim", "heartbeat", "complete"}

Executed(p, row) == tx' = [tx EXCEPT ![p].step = "executed", ![p].row = row]

\* persist_inbox_before_ack: ON CONFLICT DO NOTHING, after waiting for an
\* insert of the same delivery that is not decided; either answer is an
\* acknowledgement.
PersistInbox(p) ==
    /\ tx[p].op = "deliver"
    /\ ~Held(p, {"deliver"}, tx[p].ws, tx[p].id)
    /\ Executed(p, IF <<tx[p].ws, tx[p].id>> \in inbox THEN "none" ELSE tx[p].id)

\* An insert takes an undecided one for a duplicate.
EnqueueWaitsNot(p) == FALSE

\* An insert waits for an undecided one with the same key.
EnqueueWaits(p) == Held(p, {"enqueue"}, tx[p].ws, tx[p].id)

\* enqueue_job.
EnqueueJob(p) ==
    /\ tx[p].op = "enqueue"
    /\ ~EnqueueWaits(p)
    /\ LET new == /\ jobs[<<tx[p].ws, tx[p].id>>].state = "absent"
                  /\ ~Held(p, {"enqueue"}, tx[p].ws, tx[p].id)
       IN  Executed(p, IF new THEN tx[p].id ELSE "none")

\* CLAIM_SQL: states it looks for (attempts never grow, so the oldest wins).
Eligible(p) ==
    {r \in Visible(p) : /\ jobs[r].state \in {"pending", "retry_scheduled"}
                        /\ jobs[r].since <= tx[p].at
                        /\ ~Held(p, JobOps, r[1], r[2])}

Oldest(rows) == {r \in rows : \A s \in rows : jobs[r].since <= jobs[s].since}

\* claim_next_job: FOR UPDATE SKIP LOCKED, so nothing waits here.
ClaimNextJob(p) ==
    /\ tx[p].op = "claim"
    /\ IF Eligible(p) = {} THEN Executed(p, "none")
       ELSE \E r \in Oldest(Eligible(p)) : Executed(p, r[2])

\* The WHERE of heartbeat_job and complete_job.
Owned(p, r) == jobs[r].state = "claimed" /\ jobs[r].owner = p /\ jobs[r].expires >= tx[p].at

\* heartbeat_job, complete_job: the id alone names the row, so the policy does
\* the rest.
UpdateOwned(p) ==
    /\ tx[p].op \in {"heartbeat", "complete"}
    /\ ~Held(p, JobOps, tx[p].ws, tx[p].id)
    /\ LET hit == \E r \in Visible(p) : r[2] = tx[p].id /\ Owned(p, r)
       IN  Executed(p, IF hit THEN tx[p].id ELSE "none")

\* A lease is up for others on the very tick it expires.
FenceFreeEarly(p, f) == f.owner \in {"none", p} \/ f.expires <= tx[p].at

\* The WHERE of acquire_scheduler_fence, or no row yet.
FenceFree(p, f) == f.owner \in {"none", p} \/ f.expires < tx[p].at

\* acquire_scheduler_fence: an upsert, which waits for the row.
AcquireFence(p) ==
    /\ tx[p].op = "fence"
    /\ ~Held(p, {"fence"}, tx[p].ws, "fence")
    /\ LET won == FenceFree(p, fence[tx[p].ws])
       IN  Executed(p, IF won THEN "fence" ELSE "none")

Execute(p) ==
    /\ tx[p].step = "open"
    /\ PersistInbox(p) \/ EnqueueJob(p) \/ ClaimNextJob(p) \/ UpdateOwned(p) \/ AcquireFence(p)
    /\ UNCHANGED <<pgNow, jobs, inbox, fence, acknowledged>>

\* What the statement made of the rows it hit.
Written(p, r) ==
    LET t == tx[p] IN
    CASE t.op = "enqueue" -> [state |-> "pending", owner |-> "none", expires |-> 0, since |-> t.at]
      [] t.op = "claim" -> [jobs[r] EXCEPT !.state = "claimed", !.owner = p, !.expires = t.at + LeaseDuration]
      [] t.op = "heartbeat" -> [jobs[r] EXCEPT !.expires = t.at + LeaseDuration]
      [] OTHER -> [jobs[r] EXCEPT !.state = "completed", !.owner = "none", !.expires = 0]

\* The rows the transaction changes: those its statement was allowed to see.
Changed(p) ==
    IF tx[p].op \notin JobOps \/ tx[p].row = "none" THEN {}
    ELSE {r \in Visible(p) : /\ r[2] = tx[p].row
                             /\ tx[p].op \in {"heartbeat", "complete"} => Owned(p, r)}

\* session.begin commits on leaving the block; only then does the caller answer.
Commit(p) ==
    /\ tx[p].step = "executed"
    /\ jobs' = [r \in Rows |-> IF r \in Changed(p) THEN Written(p, r) ELSE jobs[r]]
    /\ inbox' = IF tx[p].op = "deliver" THEN inbox \cup {<<tx[p].ws, tx[p].id>>} ELSE inbox
    /\ fence' = IF tx[p].op = "fence" /\ tx[p].row # "none"
                THEN [fence EXCEPT ![tx[p].ws] = [owner |-> p, expires |-> tx[p].at + LeaseDuration]]
                ELSE fence
    /\ acknowledged' = IF tx[p].op \in {"deliver", "enqueue"}
                       THEN acknowledged \cup {<<tx[p].op, tx[p].ws, tx[p].id>>} ELSE acknowledged
    /\ tx' = [tx EXCEPT ![p] = Closed]
    /\ UNCHANGED pgNow

\* The process dies, or its statement fails: the transaction is rolled back.
Rollback(p) ==
    /\ tx[p].step # "idle"
    /\ tx' = [tx EXCEPT ![p] = Closed]
    /\ UNCHANGED <<pgNow, jobs, inbox, fence, acknowledged>>

PgTick ==
    /\ pgNow < MaxPgNow
    /\ pgNow' = pgNow + 1
    /\ UNCHANGED <<jobs, inbox, fence, tx, acknowledged>>

\* What a call names.
Targets(op) ==
    CASE op = "deliver" -> Deliveries
      [] op \in {"enqueue", "heartbeat", "complete"} -> JobIds
      [] OTHER -> {"none"}

PgNext(ops) ==
    \/ \E p \in Processes :
          \/ \E op \in ops, w \in PgWorkspaces : \E id \in Targets(op) : Open(p, op, w, id)
          \/ Execute(p) \/ Commit(p) \/ Rollback(p)
    \/ PgTick

PgSpec == PgInit /\ [][PgNext(JobOps \cup {"deliver", "fence"})]_pgVars

-----------------------------------------------------------------------------
\* Whoever was told that a delivery or a job is safe can rely on it: an answer
\* is given for a committed row only, also when the answer was "already there"
\* because of an insert that was still undecided and then rolled back.
AckedIsStored ==
    \A a \in acknowledged :
        IF a[1] = "deliver" THEN <<a[2], a[3]>> \in inbox ELSE jobs[<<a[2], a[3]>>].state # "absent"

Atomic == INSTANCE AtomicQueue
          WITH Names <- Rows, Claimants <- Processes,
               table <- [r \in Rows |-> [state |-> jobs[r].state, owner |-> jobs[r].owner]]

\* The queue implements AtomicQueue: whatever transactions are open at the same
\* time, every commit is one indivisible enqueue, claim or completion of one row
\* (or changes none), so no two workers get a job and none completes another's,
\* although heartbeat_job and complete_job name no workspace.
QueueIsAtomic == Atomic!AtomicSpec

\* The scheduler's fence changes hands only after the lease ran out on the
\* clock, although both sides read it before their statement runs.
FenceHandedOver ==
    [][\A w \in PgWorkspaces : fence'[w].owner # fence[w].owner =>
           fence[w].owner = "none" \/ pgNow > fence[w].expires]_pgVars

\* What ARCHITECTURE.md 7.2 claims of a claim whose lease expires: the job
\* "never silently disappears".
AbandonedRecovered ==
    \A r \in Rows : (jobs[r].state = "claimed" /\ jobs[r].expires < pgNow) ~> jobs[r].state # "claimed"
=============================================================================
