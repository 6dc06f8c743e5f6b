---------------------------- MODULE DurableQueue ----------------------------
(***************************************************************************)
(* The reference durable queue of work_frontier/platform/queue.py: jobs    *)
(* are enqueued under a workspace-scoped idempotency key, claimed under a  *)
(* lease in tenant-fair order, kept alive by heartbeats, completed, failed *)
(* into a bounded retry schedule or the dead letter, recovered when their  *)
(* lease runs out, and replayed from the dead letter as new jobs.          *)
(*                                                                         *)
(* The queue is one object; the workers that call it are separate          *)
(* processes.  A worker remembers the job of its latest claim (run) and    *)
(* keeps calling the queue about it even after the lease was lost.         *)
(***************************************************************************)
EXTENDS Integers, Sequences, FiniteSets

CONSTANTS
    Tenants,            \* tenant identifiers; naturals, because claims sort by them
    Workspaces,         \* workspace identifiers; naturals, for the same reason
    JobIds,             \* job identifiers; naturals, for the same reason
    Keys,               \* idempotency keys a caller submits
    Workers,            \* worker identifiers
    AttemptLimits,      \* the max_attempts values a submission may carry
    LeaseDuration,      \* QueuePolicy.lease_duration, in clock ticks
    BaseRetrySeconds,   \* QueuePolicy.base_retry_seconds
    MaxRetrySeconds,    \* QueuePolicy.max_retry_seconds
    MaxHeartbeats,      \* bound: heartbeats a worker sends for one claim
    None                \* "no worker", "no job": Python's None

ASSUME QueueAssumption ==
    /\ Tenants \subseteq Nat /\ Tenants # {}
    /\ Workspaces \subseteq Nat /\ Workspaces # {}
    /\ JobIds \subseteq Nat
    /\ Keys \subseteq Nat
    /\ AttemptLimits \subseteq Nat \ {0}
    /\ LeaseDuration \in Nat \ {0}
    /\ BaseRetrySeconds \in Nat \ {0}
    /\ MaxRetrySeconds \in Nat
    /\ MaxRetrySeconds >= BaseRetrySeconds
    /\ MaxHeartbeats \in Nat
    /\ None \notin Workers
    /\ None \notin JobIds

VARIABLES
    jobs,               \* _jobs: every job id with its current snapshot
    idempotency,        \* _idempotency: <<tenant, workspace, key, job id>> entries
    tenant_last_claim,  \* _tenant_last_claim: counter of each tenant's latest claim
    claim_counter,      \* _claim_counter
    now,                \* the clock every caller reads
    run,                \* per worker: the job and the number of its latest claim
    passed              \* history: passed[u][t], how often t was claimed while u waited

queueVars == <<jobs, idempotency, tenant_last_claim, claim_counter>>
vars == <<jobs, idempotency, tenant_last_claim, claim_counter, now, run, passed>>

-----------------------------------------------------------------------------
(* Data.  A key is the submitted key followed by the ids of the replays    *)
(* made from it: replay_dead_letter prefixes the original's key with the   *)
(* replay's job id.                                                        *)

Key == Seq(Nat)
JobState == {"pending", "claimed", "completed", "retry_scheduled", "dead_letter"}
Waiting == {"pending", "retry_scheduled"}
Settled == {"completed", "dead_letter"}

(* claims counts the "claimed" entries of attempt_history; claim is the    *)
(* claim counter of the latest of them and beats its heartbeats.           *)
WorkspaceJob ==
    [tenant : Tenants, workspace : Workspaces, key : Key,
     state : JobState \cup {"absent"},
     attempts : Nat, max_attempts : Nat \ {0},
     next_attempt_at : Nat, created_at : Nat,
     lease_owner : Workers \cup {None}, lease_expires_at : Int,
     replay_of : JobIds \cup {None},
     claims : Nat, claim : Nat, beats : Nat]

Run == [job : JobIds \cup {None}, claim : Nat]
NoRun == [job |-> None, claim |-> 0]

Absent(j) == jobs[j].state = "absent"
Known(j) == jobs[j].state \in JobState

-----------------------------------------------------------------------------
(* Retry delay: exponential in the attempt, plus a hash-derived jitter     *)
(* that may be any value up to its ceiling, capped by the policy.          *)

Smaller(a, b) == IF a <= b THEN a ELSE b
Larger(a, b) == IF a <= b THEN b ELSE a

RetryDelays(attempt) ==
    LET exponential == Smaller(MaxRetrySeconds, BaseRetrySeconds * 2^(attempt - 1))
        ceiling == Larger(1, exponential \div 4)
    IN  {delay \in 1..MaxRetrySeconds :
            \E jitter \in 0..ceiling : delay = Smaller(MaxRetrySeconds, exponential + jitter)}

-----------------------------------------------------------------------------
(* Submission.                                                             *)

PendingJob(t, w, k, limit, original) ==
    [tenant |-> t, workspace |-> w, key |-> k, state |-> "pending",
     attempts |-> 0, max_attempts |-> limit,
     next_attempt_at |-> now, created_at |-> now,
     lease_owner |-> None, lease_expires_at |-> -1,
     replay_of |-> original, claims |-> 0, claim |-> 0, beats |-> 0]

(* Mutant: the idempotency index is not consulted.                         *)
AcceptUnchecked(j, job) ==
    /\ Absent(j)
    /\ jobs' = [jobs EXCEPT ![j] = job]
    /\ idempotency' = idempotency \cup {<<job.tenant, job.workspace, job.key, j>>}
    /\ UNCHANGED <<tenant_last_claim, claim_counter, now, run, passed>>

(* enqueue: a key already indexed returns the job it names and a job id    *)
(* already used is refused; either way the queue does not change.          *)
Accept(j, job) ==
    /\ ~ \E other \in JobIds : <<job.tenant, job.workspace, job.key, other>> \in idempotency
    /\ Absent(j)
    /\ jobs' = [jobs EXCEPT ![j] = job]
    /\ idempotency' = idempotency \cup {<<job.tenant, job.workspace, job.key, j>>}
    /\ UNCHANGED <<tenant_last_claim, claim_counter, now, run, passed>>

Enqueue(j, t, w, k, limit) == Accept(j, PendingJob(t, w, <<k>>, limit, None))

ReplayDeadLetter(original, j) ==
    /\ jobs[original].state = "dead_letter"
    /\ LET o == jobs[original]
       IN  Accept(j, PendingJob(o.tenant, o.workspace, Append(o.key, j),
                                o.max_attempts, original))

-----------------------------------------------------------------------------
(* Claiming.                                                               *)

(* Mutant: whatever is not claimed or completed may be claimed.            *)
EligibleUnsettled ==
    {j \in JobIds : /\ Known(j)
                    /\ jobs[j].state \notin {"claimed", "completed"}
                    /\ jobs[j].next_attempt_at <= now}

(* Mutant: scheduled retries are never looked at again.                    *)
EligiblePendingOnly ==
    {j \in JobIds : jobs[j].state = "pending" /\ jobs[j].next_attempt_at <= now}

Eligible == {j \in JobIds : jobs[j].state \in Waiting /\ jobs[j].next_attempt_at <= now}

HasEligible(t) == \E j \in Eligible : jobs[j].tenant = t

(* Mutant: the oldest job first, whoever was served last.                  *)
ClaimOrderOldest(j) ==
    <<0, jobs[j].created_at, jobs[j].tenant, jobs[j].workspace, j>>

ClaimOrder(j) ==
    <<tenant_last_claim[jobs[j].tenant], jobs[j].created_at,
      jobs[j].tenant, jobs[j].workspace, j>>

Precedes(a, b) ==
    \E i \in 1..5 : a[i] < b[i] /\ \A h \in 1..(i - 1) : a[h] = b[h]

Claimed(job, w) ==
    [job EXCEPT !.state = "claimed", !.lease_owner = w,
                !.lease_expires_at = now + LeaseDuration,
                !.claims = job.claims + 1, !.claim = claim_counter + 1, !.beats = 0]

ClaimNext(w) ==
    \E j \in Eligible :
        /\ \A other \in Eligible : ~ Precedes(ClaimOrder(other), ClaimOrder(j))
        /\ claim_counter' = claim_counter + 1
        /\ tenant_last_claim' =
               [tenant_last_claim EXCEPT ![jobs[j].tenant] = claim_counter + 1]
        /\ jobs' = [jobs EXCEPT ![j] = Claimed(jobs[j], w)]
        /\ run' = [run EXCEPT ![w] = [job |-> j, claim |-> claim_counter + 1]]
        /\ passed' = [u \in Tenants |->
               IF u = jobs[j].tenant THEN [t \in Tenants |-> 0]
               ELSE IF HasEligible(u)
                    THEN [passed[u] EXCEPT ![jobs[j].tenant] = passed[u][jobs[j].tenant] + 1]
                    ELSE passed[u]]
        /\ UNCHANGED <<idempotency, now>>

-----------------------------------------------------------------------------
(* The owner's operations: heartbeat, complete and fail all go through     *)
(* _owned_claim, which raises for anyone but the owner of a live lease.    *)

LeaseLive(j) == jobs[j].lease_expires_at >= now

(* Mutant: any live lease will do, the owner is not compared.              *)
AnyLiveClaim(w, j) == jobs[j].state = "claimed" /\ LeaseLive(j)

OwnedClaim(w, j) ==
    /\ jobs[j].state = "claimed"
    /\ jobs[j].lease_owner = w
    /\ LeaseLive(j)

Extended(job) ==
    [job EXCEPT !.lease_expires_at = now + LeaseDuration, !.beats = job.beats + 1]

Heartbeat(w) ==
    /\ run[w].job \in JobIds
    /\ LET j == run[w].job
       IN  /\ OwnedClaim(w, j)
           /\ jobs[j].beats < MaxHeartbeats
           /\ jobs' = [jobs EXCEPT ![j] = Extended(jobs[j])]
    /\ UNCHANGED <<idempotency, tenant_last_claim, claim_counter, now, run, passed>>

Completed(job) ==
    [job EXCEPT !.state = "completed", !.lease_owner = None, !.lease_expires_at = -1]

Complete(w) ==
    /\ run[w].job \in JobIds
    /\ LET j == run[w].job
       IN  /\ OwnedClaim(w, j)
           /\ jobs' = [jobs EXCEPT ![j] = Completed(jobs[j])]
    /\ run' = [run EXCEPT ![w] = NoRun]
    /\ UNCHANGED <<idempotency, tenant_last_claim, claim_counter, now, passed>>

DeadLettered(job) ==
    [job EXCEPT !.state = "dead_letter", !.attempts = job.attempts + 1,
                !.lease_owner = None, !.lease_expires_at = -1]

(* Mutant: the delay is taken off the clock.                               *)
RetriedBackwards(job, delay) ==
    [job EXCEPT !.state = "retry_scheduled", !.attempts = job.attempts + 1,
                !.next_attempt_at = now - delay,
                !.lease_owner = None, !.lease_expires_at = -1]

Retried(job, delay) ==
    [job EXCEPT !.state = "retry_scheduled", !.attempts = job.attempts + 1,
                !.next_attempt_at = now + delay,
                !.lease_owner = None, !.lease_expires_at = -1]

Fail(w, retryable) ==
    /\ run[w].job \in JobIds
    /\ LET j == run[w].job
       IN  /\ OwnedClaim(w, j)
           /\ IF ~ retryable \/ jobs[j].attempts + 1 >= jobs[j].max_attempts
              THEN jobs' = [jobs EXCEPT ![j] = DeadLettered(jobs[j])]
              ELSE \E delay \in RetryDelays(jobs[j].attempts + 1) :
                       jobs' = [jobs EXCEPT ![j] = Retried(jobs[j], delay)]
    /\ run' = [run EXCEPT ![w] = NoRun]
    /\ UNCHANGED <<idempotency, tenant_last_claim, claim_counter, now, passed>>

-----------------------------------------------------------------------------
(* Recovery: one pass over every job whose lease has run out.              *)

(* Mutant: a lease is recovered in its last live tick.                     *)
ExpiredEarly(j) == jobs[j].state = "claimed" /\ jobs[j].lease_expires_at <= now

Expired(j) == jobs[j].state = "claimed" /\ jobs[j].lease_expires_at < now

(* Mutant: one claim too many before the dead letter.                      *)
RecoveredOnceMore(job) ==
    IF job.attempts + 1 > job.max_attempts
    THEN DeadLettered(job)
    ELSE [job EXCEPT !.state = "pending", !.attempts = job.attempts + 1,
                     !.next_attempt_at = now,
                     !.lease_owner = None, !.lease_expires_at = -1]

Recovered(job) ==
    IF job.attempts + 1 >= job.max_attempts
    THEN DeadLettered(job)
    ELSE [job EXCEPT !.state = "pending", !.attempts = job.attempts + 1,
                     !.next_attempt_at = now,
                     !.lease_owner = None, !.lease_expires_at = -1]

RecoverExpired ==
    /\ \E j \in JobIds : Expired(j)
    /\ jobs' = [j \in JobIds |-> IF Expired(j) THEN Recovered(jobs[j]) ELSE jobs[j]]
    /\ UNCHANGED <<idempotency, tenant_last_claim, claim_counter, now, run, passed>>

-----------------------------------------------------------------------------
(* The environment: a worker dies, or gives up on a run the queue refused; *)
(* the clock moves whenever some job waits for it (a lease that will run   *)
(* out, a retry that will come due).                                       *)

Abandon(w) ==
    /\ run[w].job \in JobIds
    /\ run' = [run EXCEPT ![w] = NoRun]
    /\ UNCHANGED <<queueVars, now, passed>>

ClockAwaited ==
    \E j \in JobIds :
        \/ jobs[j].state = "claimed" /\ LeaseLive(j)
        \/ jobs[j].state \in Waiting /\ jobs[j].next_attempt_at > now

Tick ==
    /\ ClockAwaited
    /\ now' = now + 1
    /\ UNCHANGED <<queueVars, run, passed>>

-----------------------------------------------------------------------------
Blank ==
    [tenant |-> CHOOSE t \in Tenants : TRUE, workspace |-> CHOOSE w \in Workspaces : TRUE,
     key |-> << >>, state |-> "absent", attempts |-> 0,
     max_attempts |-> 1, next_attempt_at |-> 0, created_at |-> 0,
     lease_owner |-> None, lease_expires_at |-> -1,
     replay_of |-> None, claims |-> 0, claim |-> 0, beats |-> 0]

Init ==
    /\ jobs = [j \in JobIds |-> Blank]
    /\ idempotency = {}
    /\ tenant_last_claim = [t \in Tenants |-> -1]
    /\ claim_counter = 0
    /\ now = 0
    /\ run = [w \in Workers |-> NoRun]
    /\ passed = [u \in Tenants |-> [t \in Tenants |-> 0]]

Next ==
    \/ \E j \in JobIds, t \in Tenants, w \in Workspaces, k \in Keys, limit \in AttemptLimits :
           Enqueue(j, t, w, k, limit)
    \/ \E original, j \in JobIds : ReplayDeadLetter(original, j)
    \/ \E w \in Workers : ClaimNext(w)
    \/ \E w \in Workers : Heartbeat(w)
    \/ \E w \in Workers : Complete(w)
    \/ \E w \in Workers, retryable \in BOOLEAN : Fail(w, retryable)
    \/ RecoverExpired
    \/ \E w \in Workers : Abandon(w)
    \/ Tick

Spec == Init /\ [][Next]_vars

(* A run ends one way or another, some worker keeps claiming, recovery     *)
(* keeps being called and time passes.                                     *)
EndRun(w) == Complete(w) \/ (\E retryable \in BOOLEAN : Fail(w, retryable)) \/ Abandon(w)

Fairness ==
    /\ WF_vars(Tick)
    /\ WF_vars(RecoverExpired)
    /\ WF_vars(\E w \in Workers : ClaimNext(w))
    /\ \A w \in Workers : WF_vars(EndRun(w))

FairSpec == Spec /\ Fairness

-----------------------------------------------------------------------------
(* Type correctness of the queue, the workers' memory and the history.     *)
TypeOK ==
    /\ jobs \in [JobIds -> WorkspaceJob]
    /\ idempotency \subseteq (Tenants \X Workspaces \X Key \X JobIds)
    /\ tenant_last_claim \in [Tenants -> Int]
    /\ claim_counter \in Nat
    /\ now \in Nat
    /\ run \in [Workers -> Run]
    /\ passed \in [Tenants -> [Tenants -> Nat]]

Accounted(job) ==
    job.claims = job.attempts + (IF job.state \in {"claimed", "completed"} THEN 1 ELSE 0)

(* Every claim of a job is paid for by an attempt, except the one in       *)
(* progress and the one that completed it: no path out of "claimed" (fail, *)
(* recovery) forgets to count, and none counts twice.                      *)
ClaimsAccounted ==
    \A j \in JobIds : Known(j) => Accounted(jobs[j])

Bounded(job) ==
    /\ job.claims <= job.max_attempts
    /\ job.state # "dead_letter" => job.attempts < job.max_attempts

(* A poison job is executed at most max_attempts times, and a job that can *)
(* still be claimed has budget left: exhausted jobs are in the dead letter.*)
AttemptsBounded ==
    \A j \in JobIds : Known(j) => Bounded(jobs[j])

(* The idempotency index and the jobs agree: no two jobs share a           *)
(* workspace-scoped key, and every job is the one its key resolves to,     *)
(* replays of replays included.                                            *)
IdempotencyExact ==
    /\ \A j \in JobIds : Known(j) =>
           <<jobs[j].tenant, jobs[j].workspace, jobs[j].key, j>> \in idempotency
    /\ \A e, f \in idempotency :
           <<e[1], e[2], e[3]>> = <<f[1], f[2], f[3]>> => e = f

(* Whoever _owned_claim lets through is running the latest claim of the    *)
(* job: a worker whose lease was lost and given to another can neither     *)
(* heartbeat, complete nor fail it.                                        *)
StaleRunRefused ==
    \A w \in Workers : \A j \in JobIds :
        run[w].job = j /\ OwnedClaim(w, j) => run[w].claim = jobs[j].claim

(* Claims rotate over tenants: while a tenant has an eligible job, no      *)
(* other tenant is claimed for twice.                                      *)
NoTenantOvertakenTwice ==
    \A u, t \in Tenants : passed[u][t] <= 1

(* What the invariants above rest on.  The worker a claimed job names as   *)
(* its owner, if it still works on the job at all, works on that claim.    *)
LatestClaimRun ==
    \A w \in Workers : \A j \in JobIds :
        jobs[j].state = "claimed" /\ jobs[j].lease_owner = w /\ run[w].job = j
            => run[w].claim = jobs[j].claim

(* A tenant that overtook a waiting one was claimed for after it, and so   *)
(* sorts behind it; no tenant is claimed for in the future.                *)
OvertakerSortsBehind ==
    /\ \A t \in Tenants : tenant_last_claim[t] <= claim_counter
    /\ \A u, t \in Tenants : passed[u][t] <= 1
    /\ \A u, t \in Tenants : passed[u][t] = 1 => tenant_last_claim[t] > tenant_last_claim[u]

QueueInv ==
    /\ TypeOK
    /\ ClaimsAccounted
    /\ AttemptsBounded
    /\ IdempotencyExact
    /\ LatestClaimRun
    /\ OvertakerSortsBehind

(* A settled job never changes again: late completions, late failures and  *)
(* recovery leave it alone, and a replay is a new job.                     *)
SettledForever ==
    [][\A j \in JobIds : jobs[j].state \in Settled => jobs'[j] = jobs[j]]_vars

(* As long as a lease is live nobody but the worker that runs the claim    *)
(* touches the job: recovery never takes a live lease away.                *)
LiveLeaseUndisturbed ==
    [][\A j \in JobIds :
          /\ jobs[j].state = "claimed"
          /\ LeaseLive(j)
          /\ jobs'[j] # jobs[j]
          => /\ run[jobs[j].lease_owner] = [job |-> j, claim |-> jobs[j].claim]
             /\ jobs'[j].claims = jobs[j].claims]_vars

(* Every accepted job is eventually completed or in the dead letter,       *)
(* whatever workers do with the leases they were given.                    *)
EveryJobSettles ==
    \A j \in JobIds : Known(j) ~> jobs[j].state \in Settled
=============================================================================
