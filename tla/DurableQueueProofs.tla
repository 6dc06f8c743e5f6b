------------------------- MODULE DurableQueueProofs -------------------------
(***************************************************************************)
(* Proofs, for every value of the constants, that the durable queue keeps  *)
(* its invariants: the inductive invariant is QueueInv of DurableQueue,    *)
(* the conjunction of the checked invariants and of the two facts they     *)
(* rest on (LatestClaimRun, OvertakerSortsBehind).                         *)
(***************************************************************************)
EXTENDS DurableQueue, TLAPS

(* Every delay retry_delay_seconds can return is a natural number.         *)
LEMMA RetryDelaysNat ==
    ASSUME NEW attempt \in Nat
    PROVE  RetryDelays(attempt) \subseteq Nat
  <1>1. 1..MaxRetrySeconds \subseteq Nat
    BY QueueAssumption
  <1>2. QED BY <1>1 DEF RetryDelays

(* The empty queue satisfies the invariant.                                *)
LEMMA InitInv == Init => QueueInv
  <1> SUFFICES ASSUME Init PROVE QueueInv
    OBVIOUS
  <1>1. Blank \in WorkspaceJob
    BY QueueAssumption DEF Blank, WorkspaceJob, Key
  <1>2. TypeOK
    BY <1>1, QueueAssumption DEF Init, TypeOK, Run, NoRun
  <1>3. \A j \in JobIds : jobs[j].state = "absent"
    BY DEF Init, Blank
  <1>4. ClaimsAccounted /\ AttemptsBounded /\ IdempotencyExact /\ LatestClaimRun
    BY <1>3 DEF Init, ClaimsAccounted, AttemptsBounded, IdempotencyExact, LatestClaimRun,
       Known, JobState
  <1>5. OvertakerSortsBehind
    BY DEF Init, OvertakerSortsBehind
  <1>6. QED BY <1>2, <1>4, <1>5 DEF QueueInv

-----------------------------------------------------------------------------
(* Accepting a new job (enqueue and replay).                               *)

LEMMA AcceptInv ==
    ASSUME QueueInv, NEW j \in JobIds, NEW job \in WorkspaceJob, Accept(j, job),
           job.state = "pending", job.attempts = 0, job.claims = 0
    PROVE  QueueInv'
  <1> USE DEF QueueInv
  <1>1. TypeOK'
    <2>1. jobs' \in [JobIds -> WorkspaceJob]
      BY DEF TypeOK, Accept
    <2>2. <<job.tenant, job.workspace, job.key, j>> \in Tenants \X Workspaces \X Key \X JobIds
      BY DEF WorkspaceJob
    <2>3. QED BY <2>1, <2>2 DEF TypeOK, Accept
  <1>2. /\ jobs'[j] = job
        /\ \A i \in JobIds \ {j} : jobs'[i] = jobs[i]
    BY DEF TypeOK, Accept
  <1>3. ClaimsAccounted' /\ AttemptsBounded'
    BY <1>2, QueueAssumption DEF ClaimsAccounted, AttemptsBounded, Accounted, Bounded, Known,
       WorkspaceJob, JobState
  <1>4. IdempotencyExact'
    <2>1. ASSUME NEW i \in JobIds, Known(i)'
          PROVE  <<jobs'[i].tenant, jobs'[i].workspace, jobs'[i].key, i>> \in idempotency'
      BY <2>1, <1>2 DEF IdempotencyExact, Known, Accept
    <2>2. ASSUME NEW e \in idempotency, <<e[1], e[2], e[3]>> = <<job.tenant, job.workspace, job.key>>
          PROVE  FALSE
      <3>1. e[4] \in JobIds /\ e = <<e[1], e[2], e[3], e[4]>>
        BY DEF TypeOK
      <3>2. QED BY <3>1, <2>2 DEF Accept
    <2>3. QED BY <2>1, <2>2 DEF IdempotencyExact, Accept
  <1>5. LatestClaimRun'
    BY <1>2 DEF LatestClaimRun, Accept, Known
  <1>6. OvertakerSortsBehind'
    BY DEF OvertakerSortsBehind, Accept
  <1>7. QED BY <1>1, <1>3, <1>4, <1>5, <1>6

LEMMA PendingJobType ==
    ASSUME TypeOK, NEW t \in Tenants, NEW w \in Workspaces, NEW k \in Key, NEW limit \in Nat \ {0},
           NEW o \in JobIds \cup {None}
    PROVE  PendingJob(t, w, k, limit, o) \in WorkspaceJob
  BY DEF TypeOK, PendingJob, WorkspaceJob, JobState

LEMMA EnqueueInv ==
    ASSUME QueueInv, NEW j \in JobIds, NEW t \in Tenants, NEW w \in Workspaces,
           NEW k \in Keys, NEW limit \in AttemptLimits, Enqueue(j, t, w, k, limit)
    PROVE  QueueInv'
  <1>1. <<k>> \in Key /\ limit \in Nat \ {0}
    BY QueueAssumption DEF Key
  <1>2. PendingJob(t, w, <<k>>, limit, None) \in WorkspaceJob
    BY <1>1, PendingJobType DEF QueueInv
  <1> DEFINE job == PendingJob(t, w, <<k>>, limit, None)
  <1>3. job.state = "pending" /\ job.attempts = 0 /\ job.claims = 0
    BY DEF PendingJob
  <1>4. Accept(j, job)
    BY DEF Enqueue
  <1> HIDE DEF job
  <1>5. QED BY <1>2, <1>3, <1>4, AcceptInv DEF job

LEMMA ReplayInv ==
    ASSUME QueueInv, NEW original \in JobIds, NEW j \in JobIds, ReplayDeadLetter(original, j)
    PROVE  QueueInv'
  <1> DEFINE o == jobs[original]
             job == PendingJob(o.tenant, o.workspace, Append(o.key, j),
                               o.max_attempts, original)
  <1>1. /\ o \in WorkspaceJob
        /\ o.tenant \in Tenants /\ o.workspace \in Workspaces
        /\ o.key \in Key /\ o.max_attempts \in Nat \ {0}
    BY DEF QueueInv, TypeOK, WorkspaceJob
  <1>2. Append(o.key, j) \in Key
    BY <1>1, QueueAssumption DEF Key
  <1>3. job \in WorkspaceJob
    BY <1>1, <1>2, PendingJobType DEF QueueInv
  <1>4. job.state = "pending" /\ job.attempts = 0 /\ job.claims = 0
    BY DEF PendingJob
  <1>5. Accept(j, job)
    BY DEF ReplayDeadLetter
  <1> HIDE DEF job
  <1>6. QED BY <1>3, <1>4, <1>5, AcceptInv

-----------------------------------------------------------------------------
(* Updates of one job.  An update is sound when it keeps the job's         *)
(* identity and its attempts accounted for and bounded.                    *)

SoundUpdate(new, old) ==
    /\ new \in WorkspaceJob
    /\ new.state \in JobState
    /\ new.tenant = old.tenant /\ new.workspace = old.workspace /\ new.key = old.key
    /\ Accounted(new)
    /\ Bounded(new)

(* A record with the fields of a job, each of them in its set, is a job.   *)
HasJobFields(new) ==
    new = [tenant |-> new.tenant, workspace |-> new.workspace, key |-> new.key,
           state |-> new.state, attempts |-> new.attempts,
           max_attempts |-> new.max_attempts, next_attempt_at |-> new.next_attempt_at,
           created_at |-> new.created_at, lease_owner |-> new.lease_owner,
           lease_expires_at |-> new.lease_expires_at, replay_of |-> new.replay_of,
           claims |-> new.claims, claim |-> new.claim, beats |-> new.beats]

LEMMA JobFromFields ==
    ASSUME NEW new,
           HasJobFields(new),
           new.tenant \in Tenants, new.workspace \in Workspaces, new.key \in Key,
           new.state \in JobState, new.attempts \in Nat, new.max_attempts \in Nat \ {0},
           new.next_attempt_at \in Nat, new.created_at \in Nat,
           new.lease_owner \in Workers \cup {None}, new.lease_expires_at \in Int,
           new.replay_of \in JobIds \cup {None},
           new.claims \in Nat, new.claim \in Nat, new.beats \in Nat
    PROVE  new \in WorkspaceJob
  BY DEF WorkspaceJob, HasJobFields

LEMMA ClaimedSound ==
    ASSUME TypeOK, NEW w \in Workers, NEW job \in WorkspaceJob, job.state \in Waiting,
           Accounted(job), Bounded(job), NEW new, new = Claimed(job, w)
    PROVE  /\ SoundUpdate(new, job)
           /\ new.state = "claimed" /\ new.lease_owner = w /\ new.claim = claim_counter + 1
  <1>1. /\ new.tenant = job.tenant /\ new.workspace = job.workspace /\ new.key = job.key
        /\ new.state = "claimed" /\ new.attempts = job.attempts
        /\ new.max_attempts = job.max_attempts /\ new.next_attempt_at = job.next_attempt_at
        /\ new.created_at = job.created_at /\ new.lease_owner = w
        /\ new.lease_expires_at = now + LeaseDuration /\ new.replay_of = job.replay_of
        /\ new.claims = job.claims + 1 /\ new.claim = claim_counter + 1 /\ new.beats = 0
    BY DEF Claimed, WorkspaceJob
  <1>2. HasJobFields(new)
    BY DEF Claimed, WorkspaceJob, HasJobFields
  <1>3. new \in WorkspaceJob
    BY <1>1, <1>2, JobFromFields, QueueAssumption DEF TypeOK, WorkspaceJob, JobState
  <1>4. Accounted(new) /\ Bounded(new)
    BY <1>1 DEF Accounted, Bounded, WorkspaceJob, Waiting
  <1>5. QED BY <1>1, <1>3, <1>4 DEF SoundUpdate, JobState

LEMMA ExtendedSound ==
    ASSUME TypeOK, NEW job \in WorkspaceJob,
           job.state = "claimed",
           Accounted(job), Bounded(job), NEW new, new = Extended(job)
    PROVE  /\ SoundUpdate(new, job)
           /\ new.lease_owner = job.lease_owner /\ new.claim = job.claim
  <1>1. /\ new.tenant = job.tenant /\ new.workspace = job.workspace /\ new.key = job.key
        /\ new.state = job.state /\ new.attempts = job.attempts
        /\ new.max_attempts = job.max_attempts /\ new.next_attempt_at = job.next_attempt_at
        /\ new.created_at = job.created_at /\ new.lease_owner = job.lease_owner
        /\ new.lease_expires_at = now + LeaseDuration /\ new.replay_of = job.replay_of
        /\ new.claims = job.claims /\ new.claim = job.claim /\ new.beats = job.beats + 1
    BY DEF Extended, WorkspaceJob
  <1>2. HasJobFields(new)
    BY DEF Extended, WorkspaceJob, HasJobFields
  <1>3. new \in WorkspaceJob
    BY <1>1, <1>2, JobFromFields, QueueAssumption DEF TypeOK, WorkspaceJob, JobState
  <1>4. Accounted(new) /\ Bounded(new)
    BY <1>1 DEF Accounted, Bounded, WorkspaceJob
  <1>5. QED BY <1>1, <1>3, <1>4 DEF SoundUpdate, JobState

LEMMA CompletedSound ==
    ASSUME TypeOK, NEW job \in WorkspaceJob,
           job.state = "claimed",
           Accounted(job), Bounded(job), NEW new, new = Completed(job)
    PROVE  SoundUpdate(new, job) /\ new.state = "completed"
  <1>1. /\ new.tenant = job.tenant /\ new.workspace = job.workspace /\ new.key = job.key
        /\ new.state = "completed" /\ new.attempts = job.attempts
        /\ new.max_attempts = job.max_attempts /\ new.next_attempt_at = job.next_attempt_at
        /\ new.created_at = job.created_at /\ new.lease_owner = None
        /\ new.lease_expires_at = -1 /\ new.replay_of = job.replay_of
        /\ new.claims = job.claims /\ new.claim = job.claim /\ new.beats = job.beats
    BY DEF Completed, WorkspaceJob
  <1>2. HasJobFields(new)
    BY DEF Completed, WorkspaceJob, HasJobFields
  <1>3. new \in WorkspaceJob
    BY <1>1, <1>2, JobFromFields, QueueAssumption DEF TypeOK, WorkspaceJob, JobState
  <1>4. Accounted(new) /\ Bounded(new)
    BY <1>1 DEF Accounted, Bounded, WorkspaceJob
  <1>5. QED BY <1>1, <1>3, <1>4 DEF SoundUpdate, JobState

LEMMA DeadLetteredSound ==
    ASSUME TypeOK, NEW job \in WorkspaceJob,
           job.state = "claimed",
           Accounted(job), Bounded(job), NEW new, new = DeadLettered(job)
    PROVE  SoundUpdate(new, job) /\ new.state = "dead_letter"
  <1>1. /\ new.tenant = job.tenant /\ new.workspace = job.workspace /\ new.key = job.key
        /\ new.state = "dead_letter" /\ new.attempts = job.attempts + 1
        /\ new.max_attempts = job.max_attempts /\ new.next_attempt_at = job.next_attempt_at
        /\ new.created_at = job.created_at /\ new.lease_owner = None
        /\ new.lease_expires_at = -1 /\ new.replay_of = job.replay_of
        /\ new.claims = job.claims /\ new.claim = job.claim /\ new.beats = job.beats
    BY DEF DeadLettered, WorkspaceJob
  <1>2. HasJobFields(new)
    BY DEF DeadLettered, WorkspaceJob, HasJobFields
  <1>3. new \in WorkspaceJob
    BY <1>1, <1>2, JobFromFields, QueueAssumption DEF TypeOK, WorkspaceJob, JobState
  <1>4. Accounted(new) /\ Bounded(new)
    BY <1>1 DEF Accounted, Bounded, WorkspaceJob
  <1>5. QED BY <1>1, <1>3, <1>4 DEF SoundUpdate, JobState

LEMMA RetriedSound ==
    ASSUME TypeOK, NEW job \in WorkspaceJob,
           job.state = "claimed", NEW delay \in Nat,
           ~ (job.attempts + 1 >= job.max_attempts),
           Accounted(job), Bounded(job), NEW new, new = Retried(job, delay)
    PROVE  SoundUpdate(new, job) /\ new.state = "retry_scheduled"
  <1>1. /\ new.tenant = job.tenant /\ new.workspace = job.workspace /\ new.key = job.key
        /\ new.state = "retry_scheduled" /\ new.attempts = job.attempts + 1
        /\ new.max_attempts = job.max_attempts /\ new.next_attempt_at = now + delay
        /\ new.created_at = job.created_at /\ new.lease_owner = None
        /\ new.lease_expires_at = -1 /\ new.replay_of = job.replay_of
        /\ new.claims = job.claims /\ new.claim = job.claim /\ new.beats = job.beats
    BY DEF Retried, WorkspaceJob
  <1>2. HasJobFields(new)
    BY DEF Retried, WorkspaceJob, HasJobFields
  <1>3. new \in WorkspaceJob
    BY <1>1, <1>2, JobFromFields, QueueAssumption DEF TypeOK, WorkspaceJob, JobState
  <1>4. Accounted(new) /\ Bounded(new)
    BY <1>1 DEF Accounted, Bounded, WorkspaceJob
  <1>5. QED BY <1>1, <1>3, <1>4 DEF SoundUpdate, JobState

LEMMA RecoveredSound ==
    ASSUME TypeOK, NEW job \in WorkspaceJob, job.state = "claimed",
           Accounted(job), Bounded(job), NEW new, new = Recovered(job)
    PROVE  SoundUpdate(new, job) /\ new.state # "claimed"
  <1>1. CASE job.attempts + 1 >= job.max_attempts
    <2>1. new = DeadLettered(job)
      BY <1>1 DEF Recovered
    <2>2. QED BY <2>1, DeadLetteredSound
  <1>2. CASE ~ (job.attempts + 1 >= job.max_attempts)
    <2>1. /\ new.tenant = job.tenant /\ new.workspace = job.workspace /\ new.key = job.key
          /\ new.state = "pending" /\ new.attempts = job.attempts + 1
          /\ new.max_attempts = job.max_attempts /\ new.next_attempt_at = now
          /\ new.created_at = job.created_at /\ new.lease_owner = None
          /\ new.lease_expires_at = -1 /\ new.replay_of = job.replay_of
          /\ new.claims = job.claims /\ new.claim = job.claim /\ new.beats = job.beats
      BY <1>2 DEF Recovered, WorkspaceJob
    <2>2. HasJobFields(new)
      BY <1>2 DEF Recovered, WorkspaceJob, HasJobFields
    <2>3. new \in WorkspaceJob
      BY <2>1, <2>2, JobFromFields, QueueAssumption DEF TypeOK, WorkspaceJob, JobState
    <2>4. Accounted(new) /\ Bounded(new)
      BY <1>2, <2>1 DEF Accounted, Bounded, WorkspaceJob
    <2>5. QED BY <2>1, <2>3, <2>4 DEF SoundUpdate, JobState
  <1>3. QED BY <1>1, <1>2

(* A sound update of one job keeps the invariants that are about jobs.     *)
LEMMA OneJobInv ==
    ASSUME QueueInv, NEW j \in JobIds, Known(j), NEW new, SoundUpdate(new, jobs[j]),
           jobs' = [jobs EXCEPT ![j] = new], idempotency' = idempotency
    PROVE  /\ jobs' \in [JobIds -> WorkspaceJob]
           /\ jobs'[j] = new
           /\ \A i \in JobIds \ {j} : jobs'[i] = jobs[i]
           /\ ClaimsAccounted' /\ AttemptsBounded' /\ IdempotencyExact'
  <1>1. /\ jobs' \in [JobIds -> WorkspaceJob]
        /\ jobs'[j] = new
        /\ \A i \in JobIds \ {j} : jobs'[i] = jobs[i]
    BY DEF QueueInv, TypeOK, SoundUpdate
  <1>2. ClaimsAccounted' /\ AttemptsBounded'
    BY <1>1 DEF QueueInv, ClaimsAccounted, AttemptsBounded, Accounted, Bounded, Known, SoundUpdate
  <1>3. ASSUME NEW i \in JobIds, Known(i)'
        PROVE  <<jobs'[i].tenant, jobs'[i].workspace, jobs'[i].key, i>> \in idempotency'
    BY <1>1, <1>3 DEF QueueInv, IdempotencyExact, Known, SoundUpdate
  <1>4. IdempotencyExact'
    BY <1>3 DEF QueueInv, IdempotencyExact
  <1>5. QED BY <1>1, <1>2, <1>4

-----------------------------------------------------------------------------
(* Claiming.  The selected job's tenant was claimed for no later than the  *)
(* tenant of any other eligible job.                                       *)

LEMMA ClaimInv ==
    ASSUME QueueInv, NEW w \in Workers, ClaimNext(w)
    PROVE  QueueInv'
  <1> USE DEF QueueInv
  <1>1. PICK j \in Eligible :
          /\ \A other \in Eligible : ~ Precedes(ClaimOrder(other), ClaimOrder(j))
          /\ claim_counter' = claim_counter + 1
          /\ tenant_last_claim' =
                 [tenant_last_claim EXCEPT ![jobs[j].tenant] = claim_counter + 1]
          /\ jobs' = [jobs EXCEPT ![j] = Claimed(jobs[j], w)]
          /\ run' = [run EXCEPT ![w] = [job |-> j, claim |-> claim_counter + 1]]
          /\ passed' = [u \in Tenants |->
                 IF u = jobs[j].tenant THEN [t \in Tenants |-> 0]
                 ELSE IF HasEligible(u)
                      THEN [passed[u] EXCEPT ![jobs[j].tenant] = passed[u][jobs[j].tenant] + 1]
                      ELSE passed[u]]
          /\ UNCHANGED <<idempotency, now>>
    BY DEF ClaimNext
  <1> DEFINE tj == jobs[j].tenant
  <1>2. /\ j \in JobIds /\ jobs[j] \in WorkspaceJob /\ tj \in Tenants
        /\ jobs[j].state \in Waiting
    BY <1>1 DEF Eligible, TypeOK, WorkspaceJob
  <1>3. SoundUpdate(Claimed(jobs[j], w), jobs[j])
    BY <1>2, ClaimedSound DEF ClaimsAccounted, AttemptsBounded, Known, Waiting, JobState
  <1>4. /\ jobs' \in [JobIds -> WorkspaceJob]
        /\ ClaimsAccounted' /\ AttemptsBounded' /\ IdempotencyExact'
        /\ jobs'[j] = Claimed(jobs[j], w)
        /\ \A i \in JobIds \ {j} : jobs'[i] = jobs[i]
    BY <1>1, <1>2, <1>3, OneJobInv DEF Waiting, JobState, Known
  <1>5. /\ jobs'[j].lease_owner = w
        /\ jobs'[j].claim = claim_counter + 1
    BY <1>2, <1>4, ClaimedSound DEF ClaimsAccounted, AttemptsBounded, Known, Waiting, JobState
  <1>6. TypeOK'
    <2>3. run' \in [Workers -> Run]
      BY <1>1, <1>2 DEF TypeOK, Run
    <2>4. passed' \in [Tenants -> [Tenants -> Nat]]
      BY <1>1, <1>2 DEF TypeOK
    <2>5. /\ tenant_last_claim' \in [Tenants -> Int] /\ claim_counter' \in Nat
          /\ idempotency' = idempotency /\ now' = now
      BY <1>1, <1>2 DEF TypeOK
    <2>6. QED BY <1>4, <2>3, <2>4, <2>5 DEF TypeOK
  <1>7. LatestClaimRun'
    BY <1>1, <1>2, <1>4, <1>5 DEF LatestClaimRun, TypeOK
  <1>8. OvertakerSortsBehind'
    <2>1. ASSUME NEW u \in Tenants, HasEligible(u)
          PROVE  tenant_last_claim[tj] <= tenant_last_claim[u]
      <3>1. PICK other \in Eligible : jobs[other].tenant = u
        BY <2>1 DEF HasEligible
      <3>2. ~ (ClaimOrder(other)[1] < ClaimOrder(j)[1])
        BY <1>1, <3>1 DEF Precedes
      <3>3. QED BY <3>1, <3>2, <1>2 DEF ClaimOrder, TypeOK
    <2>2. \A t \in Tenants : tenant_last_claim'[t] <= claim_counter'
      BY <1>1, <1>2 DEF OvertakerSortsBehind, TypeOK
    <2>3. ASSUME NEW u \in Tenants, NEW t \in Tenants
          PROVE  /\ passed'[u][t] <= 1
                 /\ passed'[u][t] = 1 => tenant_last_claim'[t] > tenant_last_claim'[u]
      <3>1. CASE u = tj
        BY <3>1, <1>1, <1>2
      <3>2. CASE u # tj /\ t = tj /\ HasEligible(u)
        <4>1. tenant_last_claim[tj] <= tenant_last_claim[u]
          BY <2>1, <3>2
        <4>2. passed[u][tj] = 0
          <5>1. passed[u][tj] \in Nat /\ passed[u][tj] <= 1
            BY <1>2 DEF OvertakerSortsBehind, TypeOK
          <5>2. passed[u][tj] # 1
            BY <4>1, <1>2 DEF OvertakerSortsBehind, TypeOK
          <5>3. QED BY <5>1, <5>2
        <4>3. passed'[u][tj] = 1
          BY <4>2, <3>2, <1>1, <1>2 DEF TypeOK
        <4>4. tenant_last_claim'[tj] > tenant_last_claim'[u]
          BY <3>2, <1>1, <1>2 DEF OvertakerSortsBehind, TypeOK
        <4>5. QED BY <4>3, <4>4, <3>2
      <3>3. CASE u # tj /\ t = tj /\ ~ HasEligible(u)
        <4>1. passed'[u] = passed[u]
          BY <3>3, <1>1
        <4>2. tenant_last_claim'[tj] > tenant_last_claim'[u]
          BY <3>3, <1>1, <1>2 DEF OvertakerSortsBehind, TypeOK
        <4>3. QED BY <4>1, <4>2, <3>3 DEF OvertakerSortsBehind
      <3>4. CASE u # tj /\ t # tj
        <4>1. passed'[u][t] = passed[u][t]
          BY <3>4, <1>1, <1>2 DEF TypeOK
        <4>2. /\ tenant_last_claim'[t] = tenant_last_claim[t]
              /\ tenant_last_claim'[u] = tenant_last_claim[u]
          BY <3>4, <1>1, <1>2 DEF TypeOK
        <4>3. QED BY <4>1, <4>2 DEF OvertakerSortsBehind
      <3>5. QED BY <3>1, <3>2, <3>3, <3>4
    <2>4. QED BY <2>2, <2>3 DEF OvertakerSortsBehind
  <1>9. QED BY <1>4, <1>6, <1>7, <1>8

-----------------------------------------------------------------------------
(* The owner's operations change one claimed job and, at most, forget the  *)
(* caller's run.                                                           *)

LEMMA OwnerStepInv ==
    ASSUME QueueInv, NEW w \in Workers, NEW j \in JobIds, jobs[j].state = "claimed",
           NEW new, SoundUpdate(new, jobs[j]), jobs' = [jobs EXCEPT ![j] = new],
           \/ new.state # "claimed"
           \/ new.lease_owner = jobs[j].lease_owner /\ new.claim = jobs[j].claim,
           run' = [run EXCEPT ![w] = NoRun] \/ run' = run,
           UNCHANGED <<idempotency, tenant_last_claim, claim_counter, now, passed>>
    PROVE  QueueInv'
  <1>1. /\ jobs' \in [JobIds -> WorkspaceJob]
        /\ jobs'[j] = new
        /\ \A i \in JobIds \ {j} : jobs'[i] = jobs[i]
        /\ ClaimsAccounted' /\ AttemptsBounded' /\ IdempotencyExact'
    BY OneJobInv DEF Known, JobState
  <1>2. run' \in [Workers -> Run]
    BY DEF QueueInv, TypeOK, Run, NoRun
  <1>3. TypeOK'
    BY <1>1, <1>2 DEF QueueInv, TypeOK
  <1>4. \A v \in Workers : run'[v] = run[v] \/ run'[v].job = None
    BY DEF QueueInv, TypeOK, NoRun
  <1>5. LatestClaimRun'
    <2> SUFFICES ASSUME NEW v \in Workers, NEW i \in JobIds, jobs'[i].state = "claimed",
                        jobs'[i].lease_owner = v, run'[v].job = i
                 PROVE  run'[v].claim = jobs'[i].claim
      BY DEF LatestClaimRun
    <2>1. run'[v] = run[v]
      BY <1>4, QueueAssumption
    <2>2. jobs[i].state = "claimed" /\ jobs[i].lease_owner = v /\ jobs'[i].claim = jobs[i].claim
      BY <1>1
    <2>3. QED BY <2>1, <2>2 DEF QueueInv, LatestClaimRun
  <1>6. OvertakerSortsBehind'
    BY DEF QueueInv, OvertakerSortsBehind
  <1>7. QED BY <1>1, <1>3, <1>5, <1>6 DEF QueueInv

(* What a claimed job brings to the soundness lemmas.                      *)
LEMMA ClaimedJobFacts ==
    ASSUME QueueInv, NEW j \in JobIds, jobs[j].state = "claimed"
    PROVE  TypeOK /\ jobs[j] \in WorkspaceJob /\ Accounted(jobs[j]) /\ Bounded(jobs[j])
  BY DEF QueueInv, TypeOK, ClaimsAccounted, AttemptsBounded, Known, JobState

LEMMA HeartbeatInv ==
    ASSUME QueueInv, NEW w \in Workers, Heartbeat(w)
    PROVE  QueueInv'
  <1> DEFINE j == run[w].job
  <1>1. /\ j \in JobIds /\ jobs[j].state = "claimed"
        /\ jobs' = [jobs EXCEPT ![j] = Extended(jobs[j])]
        /\ run' = run
        /\ UNCHANGED <<idempotency, tenant_last_claim, claim_counter, now, passed>>
    BY DEF Heartbeat, OwnedClaim
  <1> HIDE DEF j
  <1>2. PICK new : new = Extended(jobs[j])
    OBVIOUS
  <1>3. /\ SoundUpdate(new, jobs[j])
        /\ new.lease_owner = jobs[j].lease_owner /\ new.claim = jobs[j].claim
    BY <1>1, <1>2, ClaimedJobFacts, ExtendedSound
  <1>4. QED BY <1>1, <1>2, <1>3, OwnerStepInv

LEMMA CompleteInv ==
    ASSUME QueueInv, NEW w \in Workers, Complete(w)
    PROVE  QueueInv'
  <1> DEFINE j == run[w].job
  <1>1. /\ j \in JobIds /\ jobs[j].state = "claimed"
        /\ jobs' = [jobs EXCEPT ![j] = Completed(jobs[j])]
        /\ run' = [run EXCEPT ![w] = NoRun]
        /\ UNCHANGED <<idempotency, tenant_last_claim, claim_counter, now, passed>>
    BY DEF Complete, OwnedClaim
  <1> HIDE DEF j
  <1>2. PICK new : new = Completed(jobs[j])
    OBVIOUS
  <1>3. SoundUpdate(new, jobs[j]) /\ new.state # "claimed"
    BY <1>1, <1>2, ClaimedJobFacts, CompletedSound
  <1>4. QED BY <1>1, <1>2, <1>3, OwnerStepInv

LEMMA FailInv ==
    ASSUME QueueInv, NEW w \in Workers, NEW retryable \in BOOLEAN, Fail(w, retryable)
    PROVE  QueueInv'
  <1> DEFINE j == run[w].job
             quarantined == ~ retryable \/ jobs[j].attempts + 1 >= jobs[j].max_attempts
  <1>1. /\ j \in JobIds /\ jobs[j].state = "claimed"
        /\ IF quarantined
           THEN jobs' = [jobs EXCEPT ![j] = DeadLettered(jobs[j])]
           ELSE \E delay \in RetryDelays(jobs[j].attempts + 1) :
                    jobs' = [jobs EXCEPT ![j] = Retried(jobs[j], delay)]
        /\ run' = [run EXCEPT ![w] = NoRun]
        /\ UNCHANGED <<idempotency, tenant_last_claim, claim_counter, now, passed>>
    BY DEF Fail, OwnedClaim
  <1>2. TypeOK /\ jobs[j] \in WorkspaceJob /\ Accounted(jobs[j]) /\ Bounded(jobs[j])
    BY <1>1, ClaimedJobFacts
  <1>3. CASE quarantined
    <2>1. PICK new : new = DeadLettered(jobs[j])
      OBVIOUS
    <2>2. SoundUpdate(new, jobs[j]) /\ new.state # "claimed"
      BY <1>1, <1>2, <2>1, DeadLetteredSound
    <2>3. QED BY <1>1, <1>3, <2>1, <2>2, OwnerStepInv
  <1>4. CASE ~ quarantined
    <2>1. PICK delay \in RetryDelays(jobs[j].attempts + 1) :
            jobs' = [jobs EXCEPT ![j] = Retried(jobs[j], delay)]
      BY <1>1, <1>4
    <2>2. delay \in Nat
      <3>1. jobs[j].attempts + 1 \in Nat
        BY <1>2 DEF WorkspaceJob
      <3>2. QED BY <3>1, <2>1, RetryDelaysNat
    <2>3. PICK new : new = Retried(jobs[j], delay)
      OBVIOUS
    <2>4. SoundUpdate(new, jobs[j]) /\ new.state # "claimed"
      BY <1>1, <1>2, <1>4, <2>2, <2>3, RetriedSound
    <2>5. QED BY <1>1, <2>1, <2>3, <2>4, OwnerStepInv
  <1>5. QED BY <1>3, <1>4

-----------------------------------------------------------------------------
(* Recovery updates every expired job at once.                             *)

LEMMA RecoverInv ==
    ASSUME QueueInv, RecoverExpired
    PROVE  QueueInv'
  <1>1. ASSUME NEW j \in JobIds
        PROVE  \/ jobs'[j] = jobs[j]
               \/ Known(j) /\ SoundUpdate(jobs'[j], jobs[j]) /\ jobs'[j].state # "claimed"
    <2>1. CASE Expired(j)
      <3>1. PICK new : new = Recovered(jobs[j])
        OBVIOUS
      <3>2. SoundUpdate(new, jobs[j]) /\ new.state # "claimed"
        BY <2>1, <3>1, ClaimedJobFacts, RecoveredSound DEF Expired
      <3>3. QED BY <2>1, <3>1, <3>2 DEF RecoverExpired, Expired, Known, JobState
    <2>2. CASE ~ Expired(j)
      BY <2>2 DEF RecoverExpired
    <2>3. QED BY <2>1, <2>2
  <1>2. jobs' \in [JobIds -> WorkspaceJob]
    <2>1. \A j \in JobIds : jobs'[j] \in WorkspaceJob
      BY <1>1 DEF QueueInv, TypeOK, SoundUpdate
    <2>2. jobs' = [j \in JobIds |-> jobs'[j]]
      BY DEF RecoverExpired
    <2>3. QED BY <2>1, <2>2
  <1>3. TypeOK'
    BY <1>2 DEF QueueInv, TypeOK, RecoverExpired
  <1>4. ClaimsAccounted' /\ AttemptsBounded'
    BY <1>1 DEF QueueInv, ClaimsAccounted, AttemptsBounded, Accounted, Bounded, Known, SoundUpdate
  <1>5. ASSUME NEW i \in JobIds, Known(i)'
        PROVE  <<jobs'[i].tenant, jobs'[i].workspace, jobs'[i].key, i>> \in idempotency'
    BY <1>1, <1>5 DEF QueueInv, IdempotencyExact, Known, SoundUpdate, RecoverExpired
  <1>6. IdempotencyExact'
    BY <1>5 DEF QueueInv, IdempotencyExact, RecoverExpired
  <1>7. LatestClaimRun'
    BY <1>1 DEF QueueInv, LatestClaimRun, RecoverExpired
  <1>8. OvertakerSortsBehind'
    BY DEF QueueInv, OvertakerSortsBehind, RecoverExpired
  <1>9. QED BY <1>3, <1>4, <1>6, <1>7, <1>8 DEF QueueInv

(* A worker that dies and a clock that moves leave the jobs alone.         *)
LEMMA EnvironmentInv ==
    ASSUME QueueInv, Tick \/ \E w \in Workers : Abandon(w)
    PROVE  QueueInv'
  <1>1. /\ UNCHANGED <<jobs, idempotency, tenant_last_claim, claim_counter, passed>>
        /\ now' \in Nat
        /\ run' \in [Workers -> Run]
        /\ \A v \in Workers : run'[v] = run[v] \/ run'[v].job = None
    BY DEF QueueInv, TypeOK, Tick, Abandon, queueVars, NoRun, Run
  <1>2. TypeOK'
    BY <1>1 DEF QueueInv, TypeOK
  <1>3. LatestClaimRun'
    BY <1>1, QueueAssumption DEF QueueInv, LatestClaimRun
  <1>4. ClaimsAccounted' /\ AttemptsBounded' /\ IdempotencyExact' /\ OvertakerSortsBehind'
    BY <1>1 DEF QueueInv, ClaimsAccounted, AttemptsBounded, Accounted, Bounded, Known,
       IdempotencyExact, OvertakerSortsBehind
  <1>5. QED BY <1>2, <1>3, <1>4 DEF QueueInv

-----------------------------------------------------------------------------
(* Every step keeps the invariant.                                         *)
LEMMA NextInv == QueueInv /\ [Next]_vars => QueueInv'
  <1> SUFFICES ASSUME QueueInv, [Next]_vars PROVE QueueInv'
    OBVIOUS
  <1>1. CASE UNCHANGED vars
    BY <1>1 DEF vars, QueueInv, TypeOK, ClaimsAccounted, AttemptsBounded, Accounted, Bounded,
       Known, IdempotencyExact, LatestClaimRun, OvertakerSortsBehind
  <1>2. CASE \E j \in JobIds, t \in Tenants, w \in Workspaces, k \in Keys,
                limit \in AttemptLimits : Enqueue(j, t, w, k, limit)
    BY <1>2, EnqueueInv
  <1>3. CASE \E original, j \in JobIds : ReplayDeadLetter(original, j)
    BY <1>3, ReplayInv
  <1>4. CASE \E w \in Workers : ClaimNext(w)
    BY <1>4, ClaimInv
  <1>5. CASE \E w \in Workers : Heartbeat(w)
    BY <1>5, HeartbeatInv
  <1>6. CASE \E w \in Workers : Complete(w)
    BY <1>6, CompleteInv
  <1>7. CASE \E w \in Workers, retryable \in BOOLEAN : Fail(w, retryable)
    BY <1>7, FailInv
  <1>8. CASE RecoverExpired
    BY <1>8, RecoverInv
  <1>9. CASE Tick \/ \E w \in Workers : Abandon(w)
    BY <1>9, EnvironmentInv
  <1>10. QED
    BY <1>1, <1>2, <1>3, <1>4, <1>5, <1>6, <1>7, <1>8, <1>9 DEF Next

(* The inductive invariant of the queue: enqueue, claim, heartbeat,        *)
(* complete, fail, recover_expired and replay_dead_letter all keep it.     *)
THEOREM QueueInvariant == Spec => []QueueInv
  BY InitInv, NextInv, PTL DEF Spec

(* The queue's state always has its type.                                  *)
THEOREM TypeCorrect == Spec => []TypeOK
  <1>1. QueueInv => TypeOK
    BY DEF QueueInv
  <1>2. QED BY <1>1, QueueInvariant, PTL

(* Claims are accounted for and bounded: whatever the workers do, a poison *)
(* job is executed at most max_attempts times before the dead letter.      *)
THEOREM PoisonJobsBounded == Spec => [](ClaimsAccounted /\ AttemptsBounded)
  <1>1. QueueInv => ClaimsAccounted /\ AttemptsBounded
    BY DEF QueueInv
  <1>2. QED BY <1>1, QueueInvariant, PTL

(* No two jobs ever share a workspace-scoped idempotency key.              *)
THEOREM KeysUnique == Spec => []IdempotencyExact
  <1>1. QueueInv => IdempotencyExact
    BY DEF QueueInv
  <1>2. QED BY <1>1, QueueInvariant, PTL

(* A worker that lost its lease is refused: whoever passes _owned_claim    *)
(* runs the latest claim of the job.                                       *)
THEOREM StaleWorkersRefused == Spec => []StaleRunRefused
  <1>1. QueueInv => StaleRunRefused
    BY DEF QueueInv, LatestClaimRun, StaleRunRefused, OwnedClaim
  <1>2. QED BY <1>1, QueueInvariant, PTL

(* Claims are tenant-fair: no tenant overtakes a waiting one twice.        *)
THEOREM TenantFair == Spec => []NoTenantOvertakenTwice
  <1>1. QueueInv => NoTenantOvertakenTwice
    BY DEF QueueInv, OvertakerSortsBehind, NoTenantOvertakenTwice
  <1>2. QED BY <1>1, QueueInvariant, PTL

-----------------------------------------------------------------------------
(* What a step may do to one job: nothing, or one of these.                *)
LEMMA StepCases ==
    ASSUME QueueInv, Next, NEW j \in JobIds, jobs'[j] # jobs[j]
    PROVE  \/ Absent(j)
           \/ jobs[j].state \in Waiting
           \/ Expired(j)
           \/ \E w \in Workers : /\ run[w].job = j
                                 /\ OwnedClaim(w, j)
                                 /\ jobs'[j].claims = jobs[j].claims
  <1>1. jobs \in [JobIds -> WorkspaceJob]
    BY DEF QueueInv, TypeOK
  <1>2. ASSUME NEW i \in JobIds, NEW job, Accept(i, job) PROVE Absent(j)
    BY <1>1, <1>2 DEF Accept, Absent
  <1>3. CASE \E i \in JobIds, t \in Tenants, w \in Workspaces, k \in Keys,
                limit \in AttemptLimits : Enqueue(i, t, w, k, limit)
    BY <1>2, <1>3 DEF Enqueue
  <1>4. CASE \E original, i \in JobIds : ReplayDeadLetter(original, i)
    BY <1>2, <1>4 DEF ReplayDeadLetter
  <1>5. CASE \E w \in Workers : ClaimNext(w)
    BY <1>1, <1>5 DEF ClaimNext, Eligible
  <1>6. CASE RecoverExpired
    BY <1>6 DEF RecoverExpired
  <1>7. CASE Tick \/ \E w \in Workers : Abandon(w)
    BY <1>7 DEF Tick, Abandon, queueVars
  <1>8. ASSUME NEW w \in Workers, NEW i \in JobIds, run[w].job = i, OwnedClaim(w, i),
               NEW new, jobs' = [jobs EXCEPT ![i] = new], new.claims = jobs[i].claims
        PROVE  \E v \in Workers : /\ run[v].job = j /\ OwnedClaim(v, j)
                                  /\ jobs'[j].claims = jobs[j].claims
    <2>1. i = j /\ jobs'[j] = new
      BY <1>1, <1>8
    <2>2. QED BY <1>8, <2>1
  <1>9. ASSUME NEW job \in WorkspaceJob
        PROVE  /\ Extended(job).claims = job.claims /\ Completed(job).claims = job.claims
               /\ DeadLettered(job).claims = job.claims
               /\ \A delay : Retried(job, delay).claims = job.claims
    BY DEF Extended, Completed, DeadLettered, Retried, WorkspaceJob
  <1>10. CASE \E w \in Workers : Heartbeat(w)
    <2>1. PICK w \in Workers : Heartbeat(w)
      BY <1>10
    <2>2. /\ run[w].job \in JobIds /\ OwnedClaim(w, run[w].job)
          /\ jobs' = [jobs EXCEPT ![run[w].job] = Extended(jobs[run[w].job])]
      BY <2>1 DEF Heartbeat
    <2>3. QED BY <1>1, <1>8, <1>9, <2>2
  <1>11. CASE \E w \in Workers : Complete(w)
    <2>1. PICK w \in Workers : Complete(w)
      BY <1>11
    <2>2. /\ run[w].job \in JobIds /\ OwnedClaim(w, run[w].job)
          /\ jobs' = [jobs EXCEPT ![run[w].job] = Completed(jobs[run[w].job])]
      BY <2>1 DEF Complete
    <2>3. QED BY <1>1, <1>8, <1>9, <2>2
  <1>12. CASE \E w \in Workers, retryable \in BOOLEAN : Fail(w, retryable)
    <2>1. PICK w \in Workers, retryable \in BOOLEAN : Fail(w, retryable)
      BY <1>12
    <2>2. /\ run[w].job \in JobIds /\ OwnedClaim(w, run[w].job)
          /\ \/ jobs' = [jobs EXCEPT ![run[w].job] = DeadLettered(jobs[run[w].job])]
             \/ \E delay \in RetryDelays(jobs[run[w].job].attempts + 1) :
                   jobs' = [jobs EXCEPT ![run[w].job] = Retried(jobs[run[w].job], delay)]
      BY <2>1 DEF Fail
    <2>3. QED BY <1>1, <1>8, <1>9, <2>2
  <1>13. QED
    BY <1>3, <1>4, <1>5, <1>6, <1>7, <1>10, <1>11, <1>12 DEF Next

(* Completed and dead-lettered jobs are frozen, for every configuration.   *)
THEOREM SettledJobsFrozen == Spec => SettledForever
  <1>1. QueueInv /\ [Next]_vars =>
          [\A j \in JobIds : jobs[j].state \in Settled => jobs'[j] = jobs[j]]_vars
    BY StepCases DEF Absent, Waiting, Settled, Expired, OwnedClaim
  <1>2. QED BY <1>1, QueueInvariant, PTL DEF Spec, SettledForever

(* A live lease is never taken away: recovery, other workers and the clock *)
(* leave a job alone while its owner's lease is live.                      *)
THEOREM LiveLeasesUndisturbed == Spec => LiveLeaseUndisturbed
  <1>1. ASSUME QueueInv, Next, NEW j \in JobIds, jobs[j].state = "claimed", LeaseLive(j),
               jobs'[j] # jobs[j]
        PROVE  /\ run[jobs[j].lease_owner] = [job |-> j, claim |-> jobs[j].claim]
               /\ jobs'[j].claims = jobs[j].claims
    <2>1. ~ Expired(j)
      BY <1>1 DEF QueueInv, TypeOK, WorkspaceJob, Expired, LeaseLive
    <2>2. PICK w \in Workers : /\ run[w].job = j /\ OwnedClaim(w, j)
                               /\ jobs'[j].claims = jobs[j].claims
      BY <1>1, <2>1, StepCases DEF Absent, Waiting
    <2>3. jobs[j].lease_owner = w /\ run[w].claim = jobs[j].claim
      BY <1>1, <2>2 DEF OwnedClaim, QueueInv, LatestClaimRun
    <2>4. run[w] = [job |-> run[w].job, claim |-> run[w].claim]
      BY <1>1 DEF QueueInv, TypeOK, Run
    <2>5. QED BY <2>2, <2>3, <2>4
  <1>2. QueueInv /\ [Next]_vars =>
          [\A j \in JobIds :
              /\ jobs[j].state = "claimed"
              /\ LeaseLive(j)
              /\ jobs'[j] # jobs[j]
              => /\ run[jobs[j].lease_owner] = [job |-> j, claim |-> jobs[j].claim]
                 /\ jobs'[j].claims = jobs[j].claims]_vars
    BY <1>1
  <1>3. QED BY <1>2, QueueInvariant, PTL DEF Spec, LiveLeaseUndisturbed

=============================================================================
