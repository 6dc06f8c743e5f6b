--------------------------- MODULE ServiceProofs ---------------------------
(***************************************************************************)
(* Proofs, for every value of the constants, about the running service:    *)
(* what the API grants its callers, the request limiter, the client of      *)
(* GitHub, the cutover of the writer, and the PostgreSQL queue of the      *)
(* workers, which implements AtomicQueue.                                  *)
(***************************************************************************)
EXTENDS ControlPlane, GitHubClient, Cutover, PostgresQueue,
        SequenceTheorems, FiniteSetTheorems, WellFoundedInduction, TLAPS

-----------------------------------------------------------------------------
(* What a caller of the API is granted.                                    *)

ReqFields == {"step", "op", "actor", "item", "base", "by", "seen", "free", "unused", "job"}

\* Of a request under way: the record of what was so while it ran is up to date,
\* and a handler has passed the checks that its step is behind.
ReqOK(t) ==
    /\ DOMAIN req[t] = ReqFields
    /\ req[t].step # "idle" =>
          /\ req[t].item \in ApiItems
          /\ decision[req[t].item] \in req[t].seen
          /\ leases[req[t].item] = "none" => req[t].free
          /\ ~tokenUsed => req[t].unused
    /\ (req[t].op = "claim" /\ req[t].step \in {"lease", "write"}) => req[t].base \in req[t].seen
    /\ (req[t].op = "claim" /\ req[t].step = "write") => req[t].free
    /\ (req[t].op = "approve" /\ req[t].step = "write") => req[t].base \in req[t].seen
    /\ (req[t].op = "exchange" /\ req[t].step = "use") => req[t].unused

ReqInv ==
    /\ DOMAIN decision = ApiItems /\ DOMAIN leases = ApiItems /\ DOMAIN req = Threads
    /\ \A t \in Threads : ReqOK(t)
    /\ NoStaleGrant

\* Every sync that was answered is completed or still queued.
SyncInv ==
    /\ requests \in Nat /\ \A t \in Threads : req[t].job \in Nat
    /\ syncJobs \in Seq(Nat) /\ scheduled \in Seq(Nat) /\ completed \in Seq(Nat)
    /\ SyncsInOrder

\* The deque holds the last admitted requests, and those it has dropped have expired.
Missing == Len(admitted) - Len(events)

LimiterInv ==
    /\ apiNow \in Nat /\ admitted \in Seq(Nat) /\ events \in Seq(Nat)
    /\ Len(events) <= Len(admitted) /\ Len(events) <= Limit
    /\ \A k \in 1..Len(admitted) : admitted[k] <= apiNow
    /\ \A k \in 1..Len(events) : events[k] = admitted[Missing + k]
    /\ \A k \in 1..Missing : admitted[k] + Window <= apiNow
    /\ WindowNeverFull

-----------------------------------------------------------------------------
(* The limiter.  What the deque has dropped had expired by then and time   *)
(* does not go back, so the deque holds all of any window that ends now.   *)

\* Every set of naturals that is not empty has a smallest element.
LEMMA SmallestNumber ==
    ASSUME NEW S \in SUBSET Nat, S # {}
    PROVE  \E x \in S : \A y \in S : x <= y
  <1> DEFINE R == {ss \in Nat \X Nat : ss[1] < ss[2]}
  <1>1. OpToRel(<, Nat) = R
    BY Zenon DEF OpToRel
  <1>2. IsWellFoundedOn(R, Nat)
    BY <1>1, NatLessThanWellFounded, Zenon
  <1>3. \E x \in S : \A y \in S : ~ (<<y, x>> \in R)
    <2> HIDE DEF R
    <2>1. QED BY <1>2, WFMin
  <1>4. PICK x \in S : \A y \in S : ~ (<<y, x>> \in R)
    BY <1>3
  <1>5. ASSUME NEW y \in S PROVE x <= y
    <2>1. <<y, x>> \in Nat \X Nat
      OBVIOUS
    <2>2. ~ (y < x)
      BY <1>4, <2>1
    <2>3. QED BY <2>2
  <1>6. QED BY <1>5

\* The first event that counts, or the end of the deque.
LEMMA FirstCounting ==
    ASSUME apiNow \in Nat, events \in Seq(Nat)
    PROVE  \E k \in 1..(Len(events) + 1) :
               /\ \A j \in 1..(k - 1) : ~Counts(j)
               /\ k <= Len(events) => Counts(k)
  <1> DEFINE S == {k \in 1..Len(events) : Counts(k)}
  <1>1. Len(events) \in Nat
    OBVIOUS
  <1>2. CASE S = {}
    <2>1. \A j \in 1..(Len(events) + 1 - 1) : ~Counts(j)
      BY <1>1, <1>2
    <2>2. Len(events) + 1 \in 1..(Len(events) + 1) /\ ~(Len(events) + 1 <= Len(events))
      BY <1>1
    <2>3. QED BY <2>1, <2>2
  <1>3. CASE S # {}
    <2>1. S \in SUBSET Nat
      BY <1>1
    <2>2. PICK k \in S : \A j \in S : k <= j
      <3> HIDE DEF S
      <3>1. QED BY <1>3, <2>1, SmallestNumber
    <2>3. \A j \in 1..(k - 1) : j \in 1..Len(events) /\ ~(k <= j)
      BY <1>1, <2>2
    <2>4. \A j \in 1..(k - 1) : ~Counts(j)
      BY <2>2, <2>3
    <2>5. k \in 1..(Len(events) + 1) /\ Counts(k)
      BY <1>1, <2>2
    <2>6. QED BY <2>4, <2>5
  <1>4. QED BY <1>2, <1>3

\* What is left after the expired events are the last ones, and all that left expired.
LEMMA RemainingIs ==
    ASSUME apiNow \in Nat, events \in Seq(Nat)
    PROVE  \E f \in 1..(Len(events) + 1) :
               /\ Remaining \in Seq(Nat) /\ Len(Remaining) = Len(events) - f + 1
               /\ \A i \in 1..Len(Remaining) : Remaining[i] = events[f + i - 1]
               /\ \A j \in 1..(f - 1) : events[j] + Window <= apiNow
  <1> DEFINE f == CHOOSE k \in 1..(Len(events) + 1) :
                      /\ \A j \in 1..(k - 1) : ~Counts(j)
                      /\ k <= Len(events) => Counts(k)
  <1>1. /\ f \in 1..(Len(events) + 1) /\ \A j \in 1..(f - 1) : ~Counts(j)
    BY FirstCounting
  <1>2. Remaining = SubSeq(events, f, Len(events))
    BY DEF Remaining
  <1> HIDE DEF f
  <1>3. /\ Len(events) \in Nat /\ f \in Int
        /\ \A i \in f..Len(events) : events[i] \in Nat
    BY <1>1
  <1>4. /\ SubSeq(events, f, Len(events)) \in Seq(Nat)
        /\ Len(SubSeq(events, f, Len(events))) = IF f <= Len(events) THEN Len(events) - f + 1 ELSE 0
        /\ \A i \in 1..(Len(events) - f + 1) : SubSeq(events, f, Len(events))[i] = events[f + i - 1]
    BY <1>3, SubSeqProperties
  <1>5. \A j \in 1..(f - 1) : events[j] \in Nat
    BY <1>1, <1>3
  <1>6. \A j \in 1..(f - 1) : events[j] + Window <= apiNow
    BY <1>1, <1>5, LimiterOK DEF Counts
  <1>7. Remaining \in Seq(Nat) /\ Len(Remaining) = Len(events) - f + 1
    BY <1>1, <1>2, <1>3, <1>4
  <1>8. \A i \in 1..Len(Remaining) : Remaining[i] = events[f + i - 1]
    BY <1>2, <1>4, <1>7
  <1>9. QED BY <1>1, <1>6, <1>7, <1>8

LEMMA IntervalSize ==
    ASSUME NEW a \in Int, NEW b \in Int, ~(a > b)
    PROVE  IsFiniteSet(a..b) /\ Cardinality(a..b) = b - a + 1
  BY FS_Interval

LEMMA AllowInv ==
    ASSUME LimiterInv, Allow PROVE LimiterInv'
  <1>1. /\ apiNow \in Nat /\ admitted \in Seq(Nat) /\ events \in Seq(Nat)
        /\ Len(events) <= Len(admitted) /\ Len(events) <= Limit
        /\ Len(events) \in Nat /\ Len(admitted) \in Nat /\ apiNow' = apiNow
    BY DEF LimiterInv, Allow
  <1> DEFINE N == Len(admitted)
             D == Missing
             R == Remaining
  <1>2. PICK f \in 1..(Len(events) + 1) :
               /\ R \in Seq(Nat) /\ Len(R) = Len(events) - f + 1
               /\ \A i \in 1..Len(R) : R[i] = events[f + i - 1]
               /\ \A j \in 1..(f - 1) : events[j] + Window <= apiNow
    BY <1>1, RemainingIs
  <1>3. /\ Len(R) \in Nat /\ Len(R) <= Len(events)
        /\ D \in Nat /\ D = N - Len(events) /\ N - Len(R) = D + f - 1
        /\ N \in Nat /\ N - Len(R) \in Nat /\ N - Len(R) <= N
    BY <1>1, <1>2 DEF Missing
  <1>4. \A i \in 1..Len(R) : R[i] = admitted[N - Len(R) + i]
    <2> SUFFICES ASSUME NEW i \in 1..Len(R) PROVE R[i] = admitted[N - Len(R) + i]
      OBVIOUS
    <2>1. f + i - 1 \in 1..Len(events) /\ D + (f + i - 1) = N - Len(R) + i
      BY <1>1, <1>2, <1>3
    <2>2. events[f + i - 1] = admitted[D + (f + i - 1)]
      BY <2>1 DEF LimiterInv
    <2>3. QED BY <1>2, <2>1, <2>2
  <1>5. \A k \in 1..(N - Len(R)) : admitted[k] + Window <= apiNow
    <2> SUFFICES ASSUME NEW k \in 1..(N - Len(R)) PROVE admitted[k] + Window <= apiNow
      OBVIOUS
    <2>1. CASE k <= D
      BY <1>3, <2>1 DEF LimiterInv
    <2>2. CASE k > D
      <3>1. k - D \in 1..(f - 1) /\ k - D \in 1..Len(events) /\ D + (k - D) = k
        BY <1>1, <1>2, <1>3, <2>2
      <3>2. events[k - D] = admitted[D + (k - D)]
        BY <3>1 DEF LimiterInv
      <3>3. QED BY <1>2, <3>1, <3>2
    <2>3. QED BY <1>3, <2>1, <2>2
  <1> HIDE DEF N, D, R
  <1>6. CASE Len(R) < Limit
    <2>1. /\ events' = Append(R, apiNow) /\ admitted' = Append(admitted, apiNow)
      BY <1>6 DEF Allow, R
    <2>2. /\ events' \in Seq(Nat) /\ Len(events') = Len(R) + 1 /\ events'[Len(R) + 1] = apiNow
          /\ \A i \in 1..Len(R) : events'[i] = R[i]
      <3>1. R \in Seq(Nat) /\ apiNow \in Nat
        BY <1>1, <1>2
      <3>2. QED BY <2>1, <3>1, AppendProperties
    <2>3. /\ admitted' \in Seq(Nat) /\ Len(admitted') = N + 1 /\ admitted'[N + 1] = apiNow
          /\ \A k \in 1..N : admitted'[k] = admitted[k]
          /\ DOMAIN admitted' = 1..(N + 1) /\ DOMAIN admitted = 1..N
      BY <1>1, <2>1 DEF N
    <2>4. N \in Nat /\ \A k \in 1..(N + 1) : k \in 1..N \/ k = N + 1
      BY <1>1 DEF N
    <2>5. \A k \in 1..Len(admitted') : admitted'[k] <= apiNow'
      <3>1. \A k \in 1..N : admitted[k] <= apiNow
        BY DEF LimiterInv, N
      <3>2. QED BY <1>1, <2>3, <2>4, <3>1
    <2>6. Missing' = N - Len(R)
      BY <1>1, <1>3, <2>2, <2>3 DEF Missing, N
    <2>7. ASSUME NEW k \in 1..Len(events') PROVE events'[k] = admitted'[Missing' + k]
      <3>1. CASE k = Len(R) + 1
        <4>1. Missing' + k = N + 1
          BY <1>3, <2>4, <2>6, <3>1
        <4>2. QED BY <2>2, <2>3, <3>1, <4>1
      <3>2. CASE k \in 1..Len(R)
        <4>1. N - Len(R) + k \in 1..N
          BY <1>3, <3>2
        <4>2. QED BY <1>4, <2>2, <2>3, <2>6, <3>2, <4>1
      <3>3. QED BY <1>3, <2>2, <3>1, <3>2
    <2>8. ASSUME NEW k \in 1..Missing' PROVE admitted'[k] + Window <= apiNow'
      <3>1. k \in 1..N /\ k \in 1..(N - Len(R))
        BY <1>3, <2>4, <2>6
      <3>2. QED BY <1>1, <1>5, <2>3, <3>1
    <2>9. WindowNeverFull'
      <3> SUFFICES ASSUME NEW k \in 1..(N + 1)
                   PROVE  Cardinality({j \in 1..k : admitted'[j] + Window > admitted'[k]}) <= Limit
        BY <2>3 DEF WindowNeverFull
      <3>1. CASE k \in 1..N
        <4>1. \A j \in 1..k : j \in 1..N
          BY <2>4, <3>1
        <4>2. {j \in 1..k : admitted'[j] + Window > admitted'[k]} = {j \in 1..k : admitted[j] + Window > admitted[k]}
          BY <2>3, <3>1, <4>1
        <4>3. QED BY <2>3, <3>1, <4>2 DEF LimiterInv, WindowNeverFull
      <3>2. CASE k = N + 1
        <4> DEFINE S == {j \in 1..(N + 1) : admitted'[j] + Window > apiNow}
                   lo == N - Len(R) + 1
                   hi == N + 1
                   I == lo..hi
        <4>1. \A j \in 1..(N + 1) : j \in I \/ j \in 1..(N - Len(R))
          BY <1>3, <2>4
        <4>2. \A j \in 1..(N - Len(R)) : j \in 1..N /\ admitted[j] \in Nat
          <5>1. \A j \in 1..N : admitted[j] \in Nat
            BY <1>1 DEF N
          <5>2. QED BY <1>3, <2>4, <5>1
        <4>3. \A j \in 1..(N - Len(R)) : ~(admitted'[j] + Window > apiNow)
          BY <1>1, <1>5, <2>3, <4>2, LimiterOK
        <4>4. S \in SUBSET I
          BY <4>1, <4>3
        <4>5. lo \in Int /\ hi \in Int /\ ~(lo > hi) /\ hi - lo + 1 = Len(R) + 1
          BY <1>3, <2>4
        <4> HIDE DEF S, lo, hi
        <4>6. IsFiniteSet(I) /\ Cardinality(I) = Len(R) + 1
          BY <4>5, IntervalSize
        <4> HIDE DEF I
        <4>7. Cardinality(S) <= Cardinality(I) /\ IsFiniteSet(S)
          BY <4>4, <4>6, FS_Subset
        <4>8. Cardinality(S) \in Nat
          BY <4>7, FS_CardinalityType
        <4>9. Cardinality(S) <= Limit
          BY <1>3, <1>6, <4>6, <4>7, <4>8, LimiterOK
        <4>10. QED BY <2>3, <3>2, <4>9 DEF S
      <3>3. QED BY <2>4, <3>1, <3>2
    <2>10. Len(events') <= Len(admitted') /\ Len(events') <= Limit
      BY <1>1, <1>3, <1>6, <2>2, <2>3, LimiterOK DEF N
    <2>11. QED BY <1>1, <2>2, <2>3, <2>5, <2>7, <2>8, <2>9, <2>10 DEF LimiterInv
  <1>7. CASE ~(Len(R) < Limit)
    <2>1. events' = R /\ admitted' = admitted
      BY <1>7 DEF Allow, R
    <2>2. Missing' = N - Len(R)
      BY <2>1 DEF Missing, N
    <2>3. WindowNeverFull'
      BY <2>1 DEF LimiterInv, WindowNeverFull
    <2>4. Len(events') <= Len(admitted') /\ Len(events') <= Limit
      BY <1>1, <1>3, <2>1, LimiterOK DEF N
    <2>5. \A k \in 1..Len(admitted') : admitted'[k] <= apiNow'
      BY <1>1, <2>1 DEF LimiterInv
    <2>6. QED BY <1>1, <1>2, <1>4, <1>5, <2>1, <2>2, <2>3, <2>4, <2>5 DEF LimiterInv
  <1>8. QED BY <1>6, <1>7

LEMMA ApiTickInv ==
    ASSUME LimiterInv, ApiTick PROVE LimiterInv'
  <1>1. apiNow \in Nat /\ apiNow' = apiNow + 1 /\ UNCHANGED <<events, admitted>>
    BY DEF LimiterInv, ApiTick
  <1>2. \A k \in 1..Len(admitted) : admitted[k] \in Nat
    BY DEF LimiterInv
  <1>3. Missing \in Nat /\ Missing <= Len(admitted) /\ Len(admitted) \in Nat
    BY DEF LimiterInv, Missing
  <1>4. \A k \in 1..Missing : k \in 1..Len(admitted)
    BY <1>3
  <1>5. \A k \in 1..Len(admitted) : admitted[k] <= apiNow'
    BY <1>1, <1>2 DEF LimiterInv
  <1>6. \A k \in 1..Missing : admitted[k] + Window <= apiNow'
    BY <1>1, <1>2, <1>4, LimiterOK DEF LimiterInv
  <1>7. Missing' = Missing
    BY <1>1 DEF Missing
  <1>8. WindowNeverFull'
    BY <1>1 DEF LimiterInv, WindowNeverFull
  <1>9. apiNow' \in Nat
    BY <1>1
  <1>10. QED
    BY <1>1, <1>5, <1>6, <1>7, <1>8, <1>9 DEF LimiterInv

-----------------------------------------------------------------------------
(* The handlers.                                                           *)

\* What a handler's write lets the other requests see.
LEMMA Observed ==
    ASSUME ReqInv, NEW t \in Threads, NEW i \in ApiItems,
           UNCHANGED tokenUsed, DOMAIN decision' = ApiItems, DOMAIN leases' = ApiItems,
           \A j \in ApiItems \ {i} : decision'[j] = decision[j] /\ leases'[j] = leases[j],
           Answer(t, i)
    PROVE  DOMAIN req' = Threads /\ \A u \in Threads : ReqOK(u)'
  <1>1. req' = [u \in Threads |-> IF u = t THEN Nothing
                                 ELSE Observe(req[u], i, decision'[i], leases'[i] = "none", ~tokenUsed')]
    BY DEF Answer
  <1>2. ASSUME NEW u \in Threads PROVE ReqOK(u)'
    <2>1. CASE u = t
      <3>1. req'[u] = Nothing
        BY <1>1, <2>1
      <3>2. /\ DOMAIN Nothing = ReqFields /\ Nothing.step = "idle" /\ Nothing.op = "none"
        BY DEF Nothing, ReqFields
      <3>3. QED BY <3>1, <3>2 DEF ReqOK
    <2>2. CASE u # t /\ req[u].step = "idle"
      <3>1. req'[u] = req[u]
        BY <1>1, <2>2 DEF Observe
      <3>2. QED BY <2>2, <3>1 DEF ReqInv, ReqOK
    <2>3. CASE u # t /\ req[u].step # "idle"
      <3>1. req'[u] = [req[u] EXCEPT !.seen = IF req[u].item = i THEN @ \cup {decision'[i]} ELSE @,
                                     !.free = @ \/ (req[u].item = i /\ leases'[i] = "none"),
                                     !.unused = @ \/ ~tokenUsed']
        BY <1>1, <2>3 DEF Observe
      <3>2. ReqOK(u)
        BY DEF ReqInv
      <3>3. /\ DOMAIN req'[u] = ReqFields /\ req'[u].step = req[u].step /\ req'[u].op = req[u].op
            /\ req'[u].item = req[u].item /\ req'[u].base = req[u].base
            /\ req'[u].seen = IF req[u].item = i THEN req[u].seen \cup {decision'[i]} ELSE req[u].seen
            /\ req'[u].free = (req[u].free \/ (req[u].item = i /\ leases'[i] = "none"))
            /\ req'[u].unused = (req[u].unused \/ ~tokenUsed')
        BY <3>1, <3>2 DEF ReqOK, ReqFields
      <3>4. /\ req[u].seen \subseteq req'[u].seen
            /\ req[u].free => req'[u].free
            /\ (req[u].item = i /\ leases'[i] = "none") => req'[u].free
            /\ req[u].unused => req'[u].unused
        BY <3>3
      <3>5. req[u].item \in ApiItems
        BY <2>3, <3>2 DEF ReqOK
      <3>6. /\ decision'[req[u].item] \in req'[u].seen
            /\ leases'[req[u].item] = "none" => req'[u].free
            /\ ~tokenUsed' => req'[u].unused
        <4>1. CASE req[u].item = i
          BY <2>3, <3>2, <3>3, <3>4, <4>1 DEF ReqOK
        <4>2. CASE req[u].item # i
          BY <2>3, <3>2, <3>3, <3>4, <3>5, <4>2 DEF ReqOK
        <4>3. QED BY <4>1, <4>2
      <3>7. QED BY <2>3, <3>2, <3>3, <3>4, <3>5, <3>6 DEF ReqOK
    <2>4. QED BY <2>1, <2>2, <2>3
  <1>3. QED BY <1>1, <1>2

\* A step that changes no item, lease or token: only its own request moves.
LEMMA OwnStep ==
    ASSUME ReqInv, UNCHANGED <<decision, leases, tokenUsed, granted>>, NEW t \in Threads, NEW r,
           req' = [req EXCEPT ![t] = r],
           ReqOK(t)'
    PROVE  ReqInv'
  <1>1. DOMAIN req' = Threads /\ \A u \in Threads \ {t} : req'[u] = req[u]
    BY DEF ReqInv
  <1>2. \A u \in Threads : ReqOK(u)'
    BY <1>1 DEF ReqInv, ReqOK
  <1>3. QED BY <1>1, <1>2 DEF ReqInv, NoStaleGrant

LEMMA IdleOK ==
    ASSUME ReqInv, NEW t \in Threads, req' = [req EXCEPT ![t] = Nothing]
    PROVE  ReqOK(t)'
  <1>1. req'[t] = Nothing
    BY DEF ReqInv
  <1>2. /\ DOMAIN Nothing = ReqFields /\ Nothing.step = "idle" /\ Nothing.op = "none"
    BY DEF Nothing, ReqFields
  <1>3. QED BY <1>1, <1>2 DEF ReqOK

\* A handler goes on to its next step.
LEMMA GotoOK ==
    ASSUME ReqInv, NEW t \in Threads, NEW s, Goto(t, s), req[t].step # "idle",
           (req[t].op = "claim" /\ s \in {"lease", "write"}) => req[t].base \in req[t].seen,
           (req[t].op = "claim" /\ s = "write") => req[t].free,
           (req[t].op = "approve" /\ s = "write") => req[t].base \in req[t].seen,
           (req[t].op = "exchange" /\ s = "use") => req[t].unused
    PROVE  ReqInv'
  <1>1. /\ UNCHANGED <<decision, leases, tokenUsed, granted>>
        /\ req' = [req EXCEPT ![t].step = s]
    BY DEF Goto
  <1>2. ReqOK(t) /\ DOMAIN req = Threads
    BY DEF ReqInv
  <1>3. req' = [req EXCEPT ![t] = [req[t] EXCEPT !.step = s]] /\ req'[t] = [req[t] EXCEPT !.step = s]
    BY <1>1, <1>2
  <1>4. /\ DOMAIN req'[t] = ReqFields /\ req'[t].step = s /\ req'[t].op = req[t].op
        /\ req'[t].item = req[t].item /\ req'[t].base = req[t].base /\ req'[t].seen = req[t].seen
        /\ req'[t].free = req[t].free /\ req'[t].unused = req[t].unused
    BY <1>2, <1>3 DEF ReqOK, ReqFields
  <1>5. ReqOK(t)'
    BY <1>1, <1>2, <1>4 DEF ReqOK
  <1>6. QED BY <1>1, <1>3, <1>5, OwnStep

\* What a caller is told: the new grants are those of one request.
LEMMA GrantOK ==
    ASSUME ReqInv, NEW t \in Threads, NEW what, Granted(t, what),
           what \in {"claimed", "accepted"} => req[t].base \in req[t].seen,
           what = "claimed" => req[t].free,
           what = "session" => req[t].unused
    PROVE  NoStaleGrant'
  <1> DEFINE g == [req[t] EXCEPT !.step = what]
  <1>1. DOMAIN req[t] = ReqFields
    BY DEF ReqInv, ReqOK
  <1>2. /\ g.step = what /\ g.base = req[t].base /\ g.seen = req[t].seen
        /\ g.free = req[t].free /\ g.unused = req[t].unused
    BY <1>1 DEF ReqFields
  <1>3. granted' = granted \cup {g}
    BY DEF Granted
  <1> HIDE DEF g
  <1>4. /\ g.step \in {"claimed", "accepted"} => g.base \in g.seen
        /\ g.step = "claimed" => g.free
        /\ g.step = "session" => g.unused
    BY <1>2
  <1>5. QED BY <1>3, <1>4 DEF ReqInv, NoStaleGrant

LEMMA BeginInv ==
    ASSUME ReqInv, NEW t \in Threads, NEW op, NEW a, NEW i \in ApiItems, NEW base, NEW by,
           Begin(t, op, a, i, base, by)
    PROVE  ReqInv'
  <1> DEFINE r == [Nothing EXCEPT !.step = "start", !.op = op, !.actor = a, !.item = i,
                                  !.base = base, !.by = by, !.seen = {decision[i]},
                                  !.free = (leases[i] = "none"), !.unused = ~tokenUsed,
                                  !.job = requests + 1]
  <1>1. /\ UNCHANGED <<decision, leases, tokenUsed, granted>> /\ req' = [req EXCEPT ![t] = r]
    BY DEF Begin
  <1>2. /\ DOMAIN r = ReqFields /\ r.step = "start" /\ r.item = i /\ r.seen = {decision[i]}
        /\ r.free = (leases[i] = "none") /\ r.unused = ~tokenUsed
    BY DEF Nothing, ReqFields
  <1> HIDE DEF r
  <1>3. req'[t] = r
    BY <1>1 DEF ReqInv
  <1>4. ReqOK(t)'
    BY <1>1, <1>2, <1>3 DEF ReqOK
  <1>5. QED BY <1>1, <1>4, OwnStep

\* The handlers that store an answer.
LEMMA WriteInv ==
    ASSUME ReqInv, NEW t \in Threads, ClaimWrite(t) \/ ApproveWrite(t)
    PROVE  ReqInv'
  <1> DEFINE i == req[t].item
  <1>1. req[t].step = "write" /\ req[t].op \in {"claim", "approve"} /\ ReqOK(t)
    BY DEF ClaimWrite, ApproveWrite, ReqInv
  <1>2. i \in ApiItems /\ req[t].base \in req[t].seen /\ (req[t].op = "claim" => req[t].free)
    BY <1>1 DEF ReqOK
  <1>3. /\ DOMAIN decision' = ApiItems /\ DOMAIN leases' = ApiItems /\ UNCHANGED tokenUsed
        /\ \A j \in ApiItems \ {i} : decision'[j] = decision[j] /\ leases'[j] = leases[j]
        /\ Answer(t, i)
    BY <1>2 DEF ClaimWrite, ApproveWrite, ReqInv
  <1> HIDE DEF i
  <1>4. DOMAIN req' = Threads /\ \A u \in Threads : ReqOK(u)'
    BY <1>2, <1>3, Observed
  <1>5. NoStaleGrant'
    <2>1. CASE ClaimWrite(t)
      <3>1. Granted(t, "claimed") /\ req[t].free
        BY <1>2, <2>1 DEF ClaimWrite
      <3>2. QED BY <1>2, <3>1, GrantOK
    <2>2. CASE ApproveWrite(t)
      <3>1. Granted(t, "accepted")
        BY <2>2 DEF ApproveWrite
      <3>2. QED BY <1>2, <3>1, GrantOK
    <2>3. QED BY <2>1, <2>2
  <1>6. QED BY <1>3, <1>4, <1>5 DEF ReqInv

LEMMA ExchangeUseInv ==
    ASSUME ReqInv, NEW t \in Threads, ExchangeUse(t)
    PROVE  ReqInv'
  <1>1. req[t].step = "use" /\ req[t].op = "exchange" /\ ReqOK(t)
    BY DEF ExchangeUse, ReqInv
  <1>2. NoStaleGrant'
    <2>1. Granted(t, "session") /\ req[t].unused
      BY <1>1 DEF ExchangeUse, ReqOK
    <2>2. QED BY <2>1, GrantOK
  <1>3. /\ tokenUsed' /\ UNCHANGED <<decision, leases>> /\ req' = [req EXCEPT ![t] = Nothing]
    BY DEF ExchangeUse
  <1>4. ASSUME NEW u \in Threads PROVE ReqOK(u)'
    <2>1. CASE u = t
      BY <1>3, <2>1, IdleOK
    <2>2. CASE u # t
      <3>1. req'[u] = req[u] /\ ReqOK(u)
        BY <1>3, <2>2 DEF ReqInv
      <3>2. QED BY <1>3, <3>1 DEF ReqOK
    <2>3. QED BY <2>1, <2>2
  <1>5. QED BY <1>2, <1>3, <1>4 DEF ReqInv

\* The handlers that note a job: one they see when they look, or a sync they name.
LEMMA WorkerLooksInv ==
    ASSUME ReqInv, NEW t \in Threads, WorkerLooks(t)
    PROVE  ReqInv'
  <1>1. /\ UNCHANGED <<decision, leases, tokenUsed, granted>> /\ DOMAIN req = Threads
        /\ req[t].op = "work" /\ req[t].step = "start"
        /\ req' = [req EXCEPT ![t] = IF syncJobs = << >> THEN Nothing
                                     ELSE [@ EXCEPT !.step = "pop", !.job = Head(syncJobs)]]
    BY DEF WorkerLooks, ReqInv
  <1>2. CASE syncJobs = << >>
    <2>1. req' = [req EXCEPT ![t] = Nothing]
      BY <1>1, <1>2
    <2>2. ReqOK(t)'
      BY <2>1, IdleOK
    <2>3. QED BY <1>1, <2>1, <2>2, OwnStep
  <1>3. CASE syncJobs # << >>
    <2> DEFINE r == [req[t] EXCEPT !.step = "pop", !.job = Head(syncJobs)]
    <2>1. req' = [req EXCEPT ![t] = r]
      BY <1>1, <1>3
    <2>2. DOMAIN req[t] = ReqFields
      BY DEF ReqInv, ReqOK
    <2>3. /\ DOMAIN r = ReqFields /\ r.op = req[t].op /\ r.item = req[t].item
          /\ r.seen = req[t].seen /\ r.free = req[t].free /\ r.unused = req[t].unused
      BY <2>2 DEF ReqFields
    <2>4. /\ req[t].op \in {"sync", "work"} /\ req[t].step = "start"
          /\ UNCHANGED <<decision, leases, tokenUsed, granted>>
      BY <1>1
    <2> HIDE DEF r
    <2>5. ReqOK(t) /\ req'[t] = r
      BY <1>1, <2>1 DEF ReqInv
    <2>6. ReqOK(t)'
      BY <2>3, <2>4, <2>5 DEF ReqOK
    <2>7. QED BY <2>1, <2>4, <2>6, OwnStep
  <1>4. QED BY <1>2, <1>3

LEMMA NameSyncInv ==
    ASSUME ReqInv, NEW t \in Threads, NameSync(t)
    PROVE  ReqInv'
  <1>1. /\ UNCHANGED <<decision, leases, tokenUsed, granted>> /\ DOMAIN req = Threads
        /\ req[t].op = "sync" /\ req[t].step = "start"
        /\ req' = [req EXCEPT ![t] = [req[t] EXCEPT !.step = "append", !.job = Len(syncJobs)]]
    BY DEF NameSync, ReqInv
  <1> DEFINE r == [req[t] EXCEPT !.step = "append", !.job = Len(syncJobs)]
  <1>2. req' = [req EXCEPT ![t] = r]
    BY <1>1
  <1>3. DOMAIN req[t] = ReqFields
    BY DEF ReqInv, ReqOK
  <1>4. /\ DOMAIN r = ReqFields /\ r.op = req[t].op /\ r.item = req[t].item
        /\ r.seen = req[t].seen /\ r.free = req[t].free /\ r.unused = req[t].unused
    BY <1>3 DEF ReqFields
  <1>5. /\ req[t].op \in {"sync", "work"} /\ req[t].step = "start"
        /\ UNCHANGED <<decision, leases, tokenUsed, granted>>
    BY <1>1
  <1> HIDE DEF r
  <1>6. ReqOK(t) /\ req'[t] = r
    BY <1>1, <1>2 DEF ReqInv
  <1>7. ReqOK(t)'
    BY <1>4, <1>5, <1>6 DEF ReqOK
  <1>8. QED BY <1>2, <1>5, <1>7, OwnStep

LEMMA HandleReq ==
    ASSUME ReqInv, NEW t \in Threads, Handle(t)
    PROVE  ReqInv'
  <1>1. ReqOK(t)
    BY DEF ReqInv
  <1>2. CASE ClaimReadItem(t)
    <2>1. PICK s \in {"lease", "refuse"} : Goto(t, s) /\ (s = "lease" => CurrentBase(t))
      BY <1>2 DEF ClaimReadItem
    <2>2. req[t].op = "claim" /\ req[t].step = "start"
      BY <1>2 DEF ClaimReadItem
    <2>3. s = "lease" => req[t].base \in req[t].seen
      BY <1>1, <2>1, <2>2 DEF ReqOK, CurrentBase
    <2>4. QED BY <2>1, <2>2, <2>3, GotoOK
  <1>3. CASE ClaimReadLease(t)
    <2>1. PICK s \in {"write", "refuse"} : Goto(t, s) /\ (s = "write" => leases[req[t].item] = "none")
      BY <1>3 DEF ClaimReadLease
    <2>2. req[t].op = "claim" /\ req[t].step = "lease"
      BY <1>3 DEF ClaimReadLease
    <2>3. req[t].base \in req[t].seen /\ (s = "write" => req[t].free)
      BY <1>1, <2>1, <2>2 DEF ReqOK
    <2>4. QED BY <2>1, <2>2, <2>3, GotoOK
  <1>4. CASE ApproveCheck(t)
    <2>1. PICK s \in {"write", "refuse"} : Goto(t, s) /\ (s = "write" => CurrentBase(t))
      BY <1>4 DEF ApproveCheck
    <2>2. req[t].op = "approve" /\ req[t].step = "start"
      BY <1>4 DEF ApproveCheck
    <2>3. s = "write" => req[t].base \in req[t].seen
      BY <1>1, <2>1, <2>2 DEF ReqOK, CurrentBase
    <2>4. QED BY <2>1, <2>2, <2>3, GotoOK
  <1>5. CASE ExchangeCheck(t)
    <2>1. PICK s \in {"refuse", "use"} : Goto(t, s) /\ (s = "use" => ~tokenUsed)
      BY <1>5 DEF ExchangeCheck
    <2>2. req[t].op = "exchange" /\ req[t].step = "start"
      BY <1>5 DEF ExchangeCheck
    <2>3. s = "use" => req[t].unused
      BY <1>1, <2>1, <2>2 DEF ReqOK
    <2>4. QED BY <2>1, <2>2, <2>3, GotoOK
  <1>6. CASE ClaimWrite(t) \/ ApproveWrite(t)
    BY <1>6, WriteInv
  <1>7. CASE CreateProposal(t) \/ ScheduleSync(t) \/ WorkerPops(t) \/ CloseSession(t) \/ Refuse(t)
    <2>1. /\ UNCHANGED <<decision, leases, tokenUsed, granted>> /\ req' = [req EXCEPT ![t] = Nothing]
      BY <1>7 DEF CreateProposal, ScheduleSync, WorkerPops, CloseSession, Refuse
    <2>2. ReqOK(t)'
      BY <2>1, IdleOK
    <2>3. QED BY <2>1, <2>2, OwnStep
  <1>8. CASE WorkerLooks(t) \/ NameSync(t)
    BY <1>8, WorkerLooksInv, NameSyncInv
  <1>9. CASE ExchangeUse(t)
    BY <1>9, ExchangeUseInv
  <1>10. QED
    BY <1>2, <1>3, <1>4, <1>5, <1>6, <1>7, <1>8, <1>9 DEF Handle

\* Nothing else looks at the requests under way.
LEMMA ReqStays ==
    ASSUME ReqInv, UNCHANGED <<decision, leases, tokenUsed, granted, req>>
    PROVE  ReqInv'
  BY DEF ReqInv, ReqOK, NoStaleGrant

-----------------------------------------------------------------------------
(* The queue of syncs.                                                     *)

LEMMA SyncStays ==
    ASSUME SyncInv, UNCHANGED <<syncJobs, scheduled, completed, requests>>,
           \A u \in Threads : req'[u].job \in Nat
    PROVE  SyncInv'
  BY DEF SyncInv, SyncsInOrder

LEMMA ConcatAppend ==
    ASSUME NEW s \in Seq(Nat), NEW q \in Seq(Nat), NEW n \in Nat
    PROVE  s \o Append(q, n) = Append(s \o q, n)
  OBVIOUS

LEMMA AppendHead ==
    ASSUME NEW s \in Seq(Nat), NEW q \in Seq(Nat), q # << >>
    PROVE  Append(s, Head(q)) \o Tail(q) = s \o q
  OBVIOUS

LEMMA JobsStay ==
    ASSUME DOMAIN req = Threads, \A u \in Threads : req[u].job \in Nat,
           NEW t \in Threads, req' = [req EXCEPT ![t] = Nothing]
    PROVE  \A u \in Threads : req'[u].job \in Nat
  <1>1. Nothing.job = 0
    BY DEF Nothing
  <1>2. \A u \in Threads : req'[u] = Nothing \/ req'[u] = req[u]
    OBVIOUS
  <1>3. QED BY <1>1, <1>2

LEMMA JobNoted ==
    ASSUME DOMAIN req = Threads, \A u \in Threads : DOMAIN req[u] = ReqFields /\ req[u].job \in Nat,
           NEW t \in Threads, NEW s, NEW j \in Nat,
           req' = [req EXCEPT ![t] = [req[t] EXCEPT !.step = s, !.job = j]]
    PROVE  \A u \in Threads : req'[u].job \in Nat
  <1>1. req'[t] = [req[t] EXCEPT !.step = s, !.job = j]
    OBVIOUS
  <1>2. req'[t].job = j
    BY <1>1 DEF ReqFields
  <1>3. \A u \in Threads \ {t} : req'[u] = req[u]
    OBVIOUS
  <1>4. QED BY <1>2, <1>3

LEMMA HandleSync ==
    ASSUME ReqInv, SyncInv, NEW t \in Threads, Handle(t)
    PROVE  SyncInv'
  <1>1. /\ requests \in Nat /\ \A u \in Threads : req[u].job \in Nat
        /\ syncJobs \in Seq(Nat) /\ scheduled \in Seq(Nat) /\ completed \in Seq(Nat)
        /\ completed \o syncJobs = scheduled /\ DOMAIN req = Threads
    BY DEF SyncInv, ReqInv, SyncsInOrder
  <1>2. UNCHANGED requests
    BY DEF Handle, ClaimReadItem, ClaimReadLease, ClaimWrite, CreateProposal, ApproveCheck, ApproveWrite,
           NameSync, ScheduleSync, WorkerLooks, WorkerPops, ExchangeCheck, ExchangeUse, CloseSession, Refuse, Goto
  <1>3. Nothing.job = 0 /\ \A u \in Threads : DOMAIN req[u] = ReqFields
    BY DEF Nothing, ReqInv, ReqOK
  <1>4. CASE \E s : Goto(t, s)
    <2>1. PICK s : Goto(t, s)
      BY <1>4
    <2>2. \A u \in Threads : req'[u].job = req[u].job
      BY <1>1, <1>3, <2>1 DEF Goto, ReqFields
    <2>3. UNCHANGED <<syncJobs, scheduled, completed>>
      BY <2>1 DEF Goto
    <2>4. QED BY <1>1, <1>2, <2>2, <2>3, SyncStays
  <1>5. CASE ClaimWrite(t) \/ ApproveWrite(t)
    <2>1. UNCHANGED <<syncJobs, scheduled, completed>> /\ \E i : Answer(t, i)
      BY <1>5 DEF ClaimWrite, ApproveWrite
    <2>2. ASSUME NEW u \in Threads PROVE req'[u].job \in Nat
      <3>1. PICK i : Answer(t, i)
        BY <2>1
      <3>2. req'[u] = IF u = t THEN Nothing
                      ELSE Observe(req[u], i, decision'[i], leases'[i] = "none", ~tokenUsed')
        BY <3>1 DEF Answer
      <3>3. CASE u = t
        BY <1>3, <3>2, <3>3
      <3>4. CASE u # t
        <4>1. req'[u].job = req[u].job
          BY <1>3, <3>2, <3>4 DEF Observe, ReqFields
        <4>2. QED BY <1>1, <4>1
      <3>5. QED BY <3>3, <3>4
    <2>3. QED BY <1>2, <2>1, <2>2, SyncStays
  <1>6. CASE req' = [req EXCEPT ![t] = Nothing] /\ UNCHANGED <<syncJobs, scheduled, completed>>
    <2>1. \A u \in Threads : req'[u].job \in Nat
      BY <1>1, <1>6, JobsStay
    <2>2. QED BY <1>2, <1>6, <2>1, SyncStays
  <1>7. CASE ScheduleSync(t)
    <2> DEFINE n == req[t].job
    <2>1. /\ n \in Nat /\ syncJobs' = Append(syncJobs, n) /\ scheduled' = Append(scheduled, n)
          /\ completed' = completed /\ req' = [req EXCEPT ![t] = Nothing]
      BY <1>1, <1>7 DEF ScheduleSync
    <2> HIDE DEF n
    <2>2. \A u \in Threads : req'[u].job \in Nat
      BY <1>1, <2>1, JobsStay
    <2>3. completed' \o syncJobs' = scheduled'
      BY <1>1, <2>1, ConcatAppend
    <2>4. syncJobs' \in Seq(Nat) /\ scheduled' \in Seq(Nat) /\ completed' \in Seq(Nat)
      BY <1>1, <2>1
    <2>5. QED BY <1>1, <1>2, <2>2, <2>3, <2>4 DEF SyncInv, SyncsInOrder
  <1>8. CASE WorkerLooks(t)
    <2>1. ASSUME NEW u \in Threads PROVE req'[u].job \in Nat
      <3>1. CASE syncJobs = << >>
        <4>1. req' = [req EXCEPT ![t] = Nothing]
          BY <1>8, <3>1 DEF WorkerLooks
        <4>2. QED BY <1>1, <1>3, <4>1
      <3>2. CASE syncJobs # << >>
        <4>1. req' = [req EXCEPT ![t] = [req[t] EXCEPT !.step = "pop", !.job = Head(syncJobs)]]
          BY <1>1, <1>8, <3>2 DEF WorkerLooks
        <4>2. Head(syncJobs) \in Nat
          BY <1>1, <3>2
        <4>3. QED BY <1>1, <1>3, <4>1, <4>2, JobNoted
      <3>3. QED BY <3>1, <3>2
    <2>2. UNCHANGED <<syncJobs, scheduled, completed>>
      BY <1>8 DEF WorkerLooks
    <2>3. QED BY <1>2, <2>1, <2>2, SyncStays
  <1>9. CASE WorkerPops(t) /\ syncJobs # << >>
    <2>1. /\ syncJobs' = Tail(syncJobs) /\ completed' = Append(completed, Head(syncJobs))
          /\ scheduled' = scheduled /\ req' = [req EXCEPT ![t] = Nothing]
      BY <1>9 DEF WorkerPops, Taken
    <2>2. \A u \in Threads : req'[u].job \in Nat
      BY <1>1, <2>1, JobsStay
    <2>3. completed' \o syncJobs' = scheduled'
      BY <1>1, <1>9, <2>1, AppendHead
    <2>4. Head(syncJobs) \in Nat /\ Tail(syncJobs) \in Seq(Nat)
      BY <1>1, <1>9
    <2>5. syncJobs' \in Seq(Nat) /\ scheduled' \in Seq(Nat) /\ completed' \in Seq(Nat)
      BY <1>1, <2>1, <2>4
    <2>6. QED BY <1>1, <1>2, <2>2, <2>3, <2>5 DEF SyncInv, SyncsInOrder
  <1>10. CASE WorkerPops(t) /\ syncJobs = << >>
    BY <1>6, <1>10 DEF WorkerPops
  <1>11. CASE CreateProposal(t) \/ ExchangeUse(t) \/ CloseSession(t) \/ Refuse(t)
    BY <1>6, <1>11 DEF CreateProposal, ExchangeUse, CloseSession, Refuse
  <1>12. CASE ClaimReadItem(t) \/ ClaimReadLease(t) \/ ApproveCheck(t) \/ ExchangeCheck(t)
    BY <1>4, <1>12 DEF ClaimReadItem, ClaimReadLease, ApproveCheck, ExchangeCheck
  <1>13. CASE NameSync(t)
    <2>1. /\ req' = [req EXCEPT ![t] = [req[t] EXCEPT !.step = "append", !.job = Len(syncJobs)]]
          /\ UNCHANGED <<syncJobs, scheduled, completed>>
      BY <1>1, <1>13 DEF NameSync
    <2>2. Len(syncJobs) \in Nat
      BY <1>1
    <2>3. \A u \in Threads : req'[u].job \in Nat
      BY <1>1, <1>3, <2>1, <2>2, JobNoted
    <2>4. QED BY <1>2, <2>1, <2>3, SyncStays
  <1>14. QED
    BY <1>5, <1>7, <1>8, <1>9, <1>10, <1>11, <1>12, <1>13 DEF Handle

LEMMA BeginSync ==
    ASSUME ReqInv, SyncInv, NEW t \in Threads, NEW op, NEW a, NEW i \in ApiItems, NEW base, NEW by,
           Begin(t, op, a, i, base, by)
    PROVE  SyncInv'
  <1> DEFINE r == [Nothing EXCEPT !.step = "start", !.op = op, !.actor = a, !.item = i,
                                  !.base = base, !.by = by, !.seen = {decision[i]},
                                  !.free = (leases[i] = "none"), !.unused = ~tokenUsed,
                                  !.job = requests + 1]
  <1>1. /\ req' = [req EXCEPT ![t] = r] /\ requests' = requests + 1
        /\ UNCHANGED <<syncJobs, scheduled, completed>>
    BY DEF Begin
  <1>2. r.job = requests + 1
    BY DEF Nothing
  <1> HIDE DEF r
  <1>3. /\ DOMAIN req = Threads /\ requests \in Nat /\ \A u \in Threads : req[u].job \in Nat
    BY DEF ReqInv, SyncInv
  <1>4. \A u \in Threads : req'[u].job \in Nat
    BY <1>1, <1>2, <1>3
  <1>5. requests' \in Nat
    BY <1>1, <1>3
  <1>6. QED BY <1>1, <1>4, <1>5 DEF SyncInv, SyncsInOrder

-----------------------------------------------------------------------------
ApiInv == ReqInv /\ SyncInv /\ LimiterInv

LEMMA ApiInitInv == ApiInit => ApiInv
  <1> SUFFICES ASSUME ApiInit PROVE ApiInv
    OBVIOUS
  <1>1. /\ DOMAIN Nothing = ReqFields /\ Nothing.step = "idle" /\ Nothing.op = "none" /\ Nothing.job = 0
    BY DEF Nothing, ReqFields
  <1>2. DOMAIN req = Threads /\ \A t \in Threads : req[t] = Nothing
    BY DEF ApiInit
  <1>3. ReqInv
    <2>1. \A t \in Threads : ReqOK(t)
      BY <1>1, <1>2 DEF ReqOK
    <2>2. NoStaleGrant /\ DOMAIN decision = ApiItems /\ DOMAIN leases = ApiItems
      BY DEF ApiInit, NoStaleGrant
    <2>3. QED BY <1>2, <2>1, <2>2 DEF ReqInv
  <1>4. SyncInv
    <2>1. << >> \in Seq(Nat) /\ << >> \o << >> = << >>
      OBVIOUS
    <2>2. syncJobs = << >> /\ scheduled = << >> /\ completed = << >> /\ requests = 0
      BY DEF ApiInit
    <2>3. QED BY <1>1, <1>2, <2>1, <2>2 DEF SyncInv, SyncsInOrder
  <1>5. LimiterInv
    <2>1. apiNow = 0 /\ events = << >> /\ admitted = << >>
      BY DEF ApiInit
    <2>2. Len(events) = 0 /\ Len(admitted) = 0 /\ DOMAIN admitted = 1..0
      BY <2>1
    <2>3. Missing = 0
      BY <2>2 DEF Missing
    <2>4. WindowNeverFull
      BY <2>2 DEF WindowNeverFull
    <2>5. QED BY <2>1, <2>2, <2>3, <2>4, LimiterOK DEF LimiterInv
  <1>6. QED BY <1>3, <1>4, <1>5 DEF ApiInv

LEMMA LimiterStays ==
    ASSUME LimiterInv, UNCHANGED limiterVars PROVE LimiterInv'
  BY DEF LimiterInv, limiterVars, Missing, WindowNeverFull

LEMMA NextApiInv ==
    ASSUME NEW ops, ApiInv, [ApiNext(ops) \/ LimiterNext]_apiVars
    PROVE  ApiInv'
  <1>1. ReqInv /\ SyncInv /\ LimiterInv
    BY DEF ApiInv
  <1>2. CASE ApiNext(ops)
    <2>1. PICK t \in Threads :
              \/ \E op \in ops, a \in Actors, i \in ApiItems : \E base \in Named(i), by \in Actors :
                    Begin(t, op, a, i, base, by)
              \/ Handle(t)
      BY <1>2 DEF ApiNext
    <2>2. CASE Handle(t)
      <3>1. UNCHANGED limiterVars
        BY <2>2 DEF Handle, ClaimReadItem, ClaimReadLease, ClaimWrite, CreateProposal, ApproveCheck, ApproveWrite,
                    NameSync, ScheduleSync, WorkerLooks, WorkerPops, ExchangeCheck, ExchangeUse, CloseSession, Refuse, Goto
      <3>2. QED BY <1>1, <2>2, <3>1, HandleReq, HandleSync, LimiterStays DEF ApiInv
    <2>3. CASE \E op \in ops, a \in Actors, i \in ApiItems : \E base \in Named(i), by \in Actors :
                  Begin(t, op, a, i, base, by)
      <3>1. PICK op \in ops, a \in Actors, i \in ApiItems : \E base \in Named(i), by \in Actors :
                  Begin(t, op, a, i, base, by)
        BY <2>3
      <3>2. PICK base \in Named(i), by \in Actors : Begin(t, op, a, i, base, by)
        BY <3>1
      <3>3. UNCHANGED limiterVars
        BY <3>2 DEF Begin
      <3>4. QED BY <1>1, <3>2, <3>3, BeginInv, BeginSync, LimiterStays DEF ApiInv
    <2>4. QED BY <2>1, <2>2, <2>3
  <1>3. CASE LimiterNext
    <2>1. UNCHANGED <<decision, leases, tokenUsed, granted, req>> /\ UNCHANGED <<syncJobs, scheduled, completed, requests>>
      BY <1>3 DEF LimiterNext, Allow, ApiTick
    <2>2. \A u \in Threads : req'[u].job \in Nat
      BY <1>1, <2>1 DEF SyncInv
    <2>3. LimiterInv'
      BY <1>1, <1>3, AllowInv, ApiTickInv DEF LimiterNext
    <2>4. QED BY <1>1, <2>1, <2>2, <2>3, ReqStays, SyncStays DEF ApiInv
  <1>4. CASE UNCHANGED apiVars
    <2>1. UNCHANGED <<decision, leases, tokenUsed, granted, req>> /\ UNCHANGED <<syncJobs, scheduled, completed, requests>>
          /\ UNCHANGED limiterVars
      BY <1>4 DEF apiVars, limiterVars
    <2>2. \A u \in Threads : req'[u].job \in Nat
      BY <1>1, <2>1 DEF SyncInv
    <2>3. QED BY <1>1, <2>1, <2>2, ReqStays, SyncStays, LimiterStays DEF ApiInv
  <1>5. QED BY <1>2, <1>3, <1>4

\* With any number of threads, callers and items, whichever operations are called and
\* however the thread pool interleaves the handlers: nobody is granted what was out of
\* reach for the whole of their request, the list of syncs loses, repeats and reorders
\* nothing although ids are used again, and the limiter admits no more than it says in
\* any window (services.py, browser_security.py). Overlapping claims are not covered.
THEOREM ApiAnswersHold ==
    ASSUME NEW ops PROVE ApiSpec(ops) => []AnswersHold
  <1>1. ApiInv => AnswersHold
    BY DEF ApiInv, ReqInv, SyncInv, LimiterInv, AnswersHold
  <1>2. QED BY <1>1, ApiInitInv, NextApiInv, PTL DEF ApiSpec

-----------------------------------------------------------------------------
(* The client of GitHub.                                                   *)

CallFields == {"step", "op", "expected", "token", "at"}

\* The counter is the number of failures since the last 2xx answer, and a request in
\* flight passed the circuit and carries a token good for longer than the margin.
GitHubInv ==
    /\ ghNow \in Nat /\ cached \in Nat /\ failures \in Nat
    /\ streak \in Seq(Nat) /\ Len(streak) = failures
    /\ DOMAIN call = CallFields
    /\ InFlight =>
          /\ failures < Threshold
          /\ call.at \in Nat /\ call.token \in Nat
          /\ call.at <= ghNow /\ call.at + Margin < call.token
    /\ RequestsDisciplined

\* An answer: what it does to the counter and to the streak of failures.
LEMMA AnsweredInv ==
    ASSUME GitHubInv, InFlight, NEW outcome, Answered(outcome),
           UNCHANGED <<ghNow, cached>>, DOMAIN call' = CallFields, ~InFlight'
    PROVE  GitHubInv'
  <1>1. /\ ghNow \in Nat /\ cached \in Nat /\ failures \in Nat /\ streak \in Seq(Nat) /\ Len(streak) = failures
        /\ ~outlived
        /\ call.at \in Nat /\ call.token \in Nat /\ call.at <= ghNow /\ call.at + Margin < call.token
    BY DEF GitHubInv, RequestsDisciplined
  <1>2. ~outlived'
    <2>1. ~(ghNow - call.at <= Margin /\ ghNow >= call.token)
      BY <1>1, GitHubOK
    <2>2. outlived' = (outlived \/ (ghNow - call.at <= Margin /\ ghNow >= call.token))
      BY DEF Answered
    <2>3. QED BY <1>1, <2>1, <2>2, Zenon
  <1>3. failures' \in Nat /\ streak' \in Seq(Nat) /\ Len(streak') = failures'
    <2>1. CASE outcome \in Ok
      <3>1. failures' = 0
        BY <2>1 DEF Answered, Counted, Ok, Failure
      <3>2. streak' = << >>
        BY <2>1 DEF Answered, Ok, Failure
      <3>3. << >> \in Seq(Nat) /\ Len(<< >>) = 0
        OBVIOUS
      <3>4. QED BY <3>1, <3>2, <3>3
    <2>2. CASE outcome \in Failure
      <3>1. streak' = Append(streak, ghNow) /\ failures' = failures + 1
        BY <2>2 DEF Answered, Counted, Ok, Failure
      <3>2. QED BY <1>1, <3>1, AppendProperties
    <2>3. CASE outcome \notin Ok \cup Failure
      BY <1>1, <2>3 DEF Answered, Counted
    <2>4. QED BY <2>1, <2>2, <2>3
  <1>4. QED BY <1>1, <1>2, <1>3 DEF GitHubInv, RequestsDisciplined

LEMMA GitHubInitInv == GitHubInit => GitHubInv
  <1> SUFFICES ASSUME GitHubInit PROVE GitHubInv
    OBVIOUS
  <1>1. /\ DOMAIN NoCall = CallFields /\ NoCall.step = "idle"
    BY DEF NoCall, CallFields
  <1>2. streak = << >> /\ Len(streak) = 0 /\ streak \in Seq(Nat) /\ ~InFlight
    BY <1>1 DEF GitHubInit, InFlight
  <1>3. RequestsDisciplined
    BY <1>2 DEF GitHubInit, RequestsDisciplined
  <1>4. QED BY <1>1, <1>2, <1>3, GitHubOK DEF GitHubInit, GitHubInv

\* A step that ends the call, begins one, or has nothing to do with the answers.
LEMMA NotInFlightInv ==
    ASSUME GitHubInv, UNCHANGED <<failures, streak, outlived>>, ghNow' \in Nat, cached' \in Nat,
           DOMAIN call' = CallFields, ~InFlight'
    PROVE  GitHubInv'
  BY DEF GitHubInv, RequestsDisciplined

LEMMA NextGitHubInv ==
    ASSUME GitHubInv, [GitHubNext]_ghVars PROVE GitHubInv'
  <1>1. /\ DOMAIN NoCall = CallFields /\ NoCall.step = "idle"
    BY DEF NoCall, CallFields
  <1>2. /\ ghNow \in Nat /\ cached \in Nat /\ DOMAIN call = CallFields
    BY DEF GitHubInv
  <1>3. CASE \E op, r : Call(op, r)
    <2>1. PICK op, r : Call(op, r)
      BY <1>3
    <2>2. DOMAIN call' = CallFields /\ call'.step = "request"
      BY <2>1 DEF Call, NoCall, CallFields
    <2>3. QED BY <1>2, <2>1, <2>2, NotInFlightInv DEF Call, InFlight
  <1>4. CASE CircuitOpen \/ NoToken
    <2>1. call' = NoCall /\ UNCHANGED <<ghNow, cached, failures, streak, outlived>>
      BY <1>4 DEF CircuitOpen, NoToken
    <2>2. QED BY <1>1, <1>2, <2>1, NotInFlightInv DEF InFlight
  <1>5. CASE Send
    <2>1. /\ failures < Threshold /\ call.step \in {"request", "write"}
          /\ cached' = IF StillGood THEN cached ELSE ghNow + TokenLife
          /\ call' = [call EXCEPT !.step = IF @ = "write" THEN "writing" ELSE "reading",
                                  !.token = cached', !.at = ghNow]
          /\ UNCHANGED <<ghNow, failures, streak, outlived>>
      BY <1>5 DEF Send
    <2>2. /\ DOMAIN call' = CallFields /\ call'.token = cached' /\ call'.at = ghNow
      BY <1>2, <2>1 DEF CallFields
    <2>3. cached' \in Nat /\ ghNow + Margin < cached'
      BY <1>2, <2>1, GitHubOK DEF StillGood
    <2>4. ~CoolingDown(call.at)'
      BY <2>1, GitHubOK DEF GitHubInv, CoolingDown
    <2>5. QED BY <1>2, <2>1, <2>2, <2>3, <2>4 DEF GitHubInv, RequestsDisciplined
  <1>6. CASE \E o : ReadAnswered(o)
    <2>1. PICK o : ReadAnswered(o)
      BY <1>6
    <2>2. InFlight /\ Answered(o) /\ UNCHANGED <<ghNow, cached>>
      BY <2>1 DEF ReadAnswered, InFlight
    <2>3. DOMAIN call' = CallFields /\ call'.step \in {"write", "idle"}
      BY <1>1, <1>2, <2>1 DEF ReadAnswered, CallFields
    <2>4. QED BY <2>2, <2>3, AnsweredInv DEF InFlight
  <1>7. CASE \E o, applied : WriteAnswered(o, applied)
    <2>1. PICK o, applied : WriteAnswered(o, applied)
      BY <1>7
    <2>2. InFlight /\ Answered(o) /\ UNCHANGED <<ghNow, cached>> /\ call' = NoCall
      BY <2>1 DEF WriteAnswered, InFlight
    <2>3. QED BY <1>1, <2>2, AnsweredInv DEF InFlight
  <1>8. CASE EditIssue \/ UNCHANGED ghVars
    <2>1. UNCHANGED <<ghNow, cached, failures, call, streak, outlived>>
      BY <1>8 DEF EditIssue, ghVars
    <2>2. QED BY <2>1 DEF GitHubInv, RequestsDisciplined, InFlight, CoolingDown
  <1>9. CASE NewAdapter
    <2>1. cached' = 0 /\ failures' = 0 /\ call' = NoCall /\ streak' = << >> /\ UNCHANGED <<ghNow, outlived>>
      BY <1>9 DEF NewAdapter
    <2>2. Len(streak') = 0 /\ streak' \in Seq(Nat) /\ ~InFlight'
      BY <1>1, <2>1 DEF InFlight
    <2>3. RequestsDisciplined'
      BY <2>1, <2>2 DEF GitHubInv, RequestsDisciplined
    <2>4. QED BY <1>1, <1>2, <2>1, <2>2, <2>3, GitHubOK DEF GitHubInv
  <1>10. CASE GitHubTick
    <2>1. ghNow' = ghNow + 1 /\ UNCHANGED <<cached, failures, call, streak, outlived>>
      BY <1>10 DEF GitHubTick
    <2>2. InFlight => call.at <= ghNow'
      BY <1>2, <2>1 DEF GitHubInv
    <2>3. ghNow' \in Nat
      BY <1>2, <2>1
    <2>4. QED BY <2>1, <2>2, <2>3 DEF GitHubInv, RequestsDisciplined, InFlight, CoolingDown
  <1>11. QED
    BY <1>3, <1>4, <1>5, <1>6, <1>7, <1>8, <1>9, <1>10 DEF GitHubNext

\* For every threshold, margin, token life and cooldown, whatever GitHub answers,
\* whoever edits the issue and whenever the adapter is made anew: a request no longer
\* than the margin never outlives its token, and once the threshold of timeouts and
\* error answers since the last 2xx is reached, no request is sent before the cooldown
\* is over (adapter.py:_request, app.py:token). Transport errors other than timeouts
\* are among the steps, and leave the counter as it is.
THEOREM ClientIsDisciplined == GitHubSpec => []RequestsDisciplined
  <1>1. GitHubInv => RequestsDisciplined
    BY DEF GitHubInv
  <1>2. QED BY <1>1, GitHubInitInv, NextGitHubInv, PTL DEF GitHubSpec

-----------------------------------------------------------------------------
(* The cutover.  The version of the writer state and the history of        *)
(* cutovers move together, so an operator whose plan still names the       *)
(* version knows of every change (PlanCurrent).                            *)

WriterOK ==
    /\ writer \in [mode : {"legacy_active", "shadow", "frontier_active"},
                  active : {"legacy", "frontier"}, version : Nat]
    /\ writer.version >= 1
    /\ writer.active = "frontier" <=> writer.mode = "frontier_active"

\* A plan compared what it says it compared, and a plan that names the version
\* of the writer state was made after the last change of the writer.
PlanCurrent(a) ==
    /\ plan[a].version \in Nat /\ plan[a].version <= writer.version
    /\ plan[a].version = writer.version => plan[a].at = changes
    /\ plan[a].equal => SemanticEqual(plan[a].revision)

CutInv ==
    /\ WriterOK
    /\ changes \in Nat
    /\ DOMAIN plan = Operators
    /\ \A a \in Operators : PlanCurrent(a)

\* The start: legacy writes and nobody has a plan.
LEMMA CutInitInv == CutInit => CutInv
  BY DEF CutInit, CutInv, WriterOK, PlanCurrent, NoPlan

\* Steps that keep every plan and do not touch the version or the history.
LEMMA PlansKept ==
    ASSUME CutInv, WriterOK', writer'.version = writer.version,
           UNCHANGED <<plan, changes>>
    PROVE  CutInv'
  BY DEF CutInv, PlanCurrent

\* Steps that change the writer make its version outgrow every plan.
LEMMA PlansOutgrown ==
    ASSUME CutInv, WriterOK', writer'.version > writer.version, changes' = changes + 1, plan' = plan
    PROVE  CutInv'
  <1>1. ASSUME NEW a \in Operators PROVE PlanCurrent(a)'
    <2>1. PlanCurrent(a) /\ writer.version \in Nat /\ writer'.version \in Nat
      BY DEF CutInv, WriterOK
    <2>2. plan[a].version < writer'.version
      BY <2>1 DEF PlanCurrent
    <2>3. QED BY <2>1, <2>2 DEF PlanCurrent
  <1>2. QED BY <1>1 DEF CutInv

\* What activation and rollback make of the writer state.
LEMMA ActivatedWriter ==
    ASSUME CutInv, NEW a \in Operators, NEW e \in Evidence, ExecuteCutover(a, e)
    PROVE  WriterOK' /\ writer'.version > writer.version /\ writer.active = "legacy"
  <1>1. writer.mode = "shadow" /\ writer.active = "legacy" /\ writer.version \in Nat
    BY DEF ExecuteCutover, Activatable, CutInv, WriterOK
  <1> DEFINE activated == [mode |-> "frontier_active", active |-> "frontier", version |-> writer.version + 1]
  <1>2. CASE e.healthy
    <2>1. writer' = activated
      BY <1>2 DEF ExecuteCutover
    <2>2. QED BY <1>1, <2>1 DEF WriterOK, CutInv
  <1>3. CASE ~e.healthy
    <2>1. writer' = [mode |-> "legacy_active", active |-> "legacy", version |-> writer.version + 1 + 1]
      BY <1>3 DEF ExecuteCutover, RolledBack
    <2>2. QED BY <1>1, <2>1 DEF WriterOK, CutInv
  <1>4. QED BY <1>2, <1>3

LEMMA RolledBackWriter ==
    ASSUME CutInv, NEW a \in Operators, RollbackToLegacy(a)
    PROVE  /\ WriterOK'
           /\ \/ writer' = writer /\ changes' = changes
              \/ writer'.version > writer.version /\ changes' = changes + 1
           /\ writer'.active = "legacy"
  <1>1. WriterOK /\ writer' = RolledBack(writer)
    BY DEF CutInv, RollbackToLegacy
  <1>2. CASE writer.mode = "legacy_active"
    BY <1>1, <1>2 DEF RolledBack, WriterOK, RollbackToLegacy
  <1>3. CASE writer.mode # "legacy_active"
    <2>1. writer' = [mode |-> "legacy_active", active |-> "legacy", version |-> writer.version + 1]
      BY <1>1, <1>3 DEF RolledBack
    <2>2. writer'.version > writer.version /\ writer' # writer
      BY <1>1, <2>1 DEF WriterOK
    <2>3. changes' = changes + 1
      BY <2>2 DEF RollbackToLegacy
    <2>4. QED BY <1>1, <2>1, <2>2, <2>3 DEF WriterOK
  <1>4. QED BY <1>2, <1>3

LEMMA NextCutInv == CutInv /\ [CutNext]_cutVars => CutInv'
  <1> SUFFICES ASSUME CutInv, [CutNext]_cutVars PROVE CutInv'
    OBVIOUS
  <1>1. ASSUME NEW a \in Operators, Plan(a) PROVE CutInv'
    <2>1. WriterOK' /\ changes' \in Nat /\ DOMAIN plan' = Operators
      BY <1>1 DEF CutInv, Plan, WriterOK
    <2>2. ASSUME NEW b \in Operators PROVE PlanCurrent(b)'
      <3>1. CASE b = a
        BY <1>1, <3>1 DEF Plan, CutInv, WriterOK, PlanCurrent
      <3>2. CASE b # a
        BY <1>1, <3>2 DEF Plan, CutInv, PlanCurrent
      <3>3. QED BY <3>1, <3>2
    <2>3. QED BY <2>1, <2>2 DEF CutInv
  <1>2. ASSUME NEW a \in Operators, NEW e \in Evidence, ExecuteCutover(a, e) PROVE CutInv'
    BY <1>2, ActivatedWriter, PlansOutgrown DEF ExecuteCutover
  <1>3. ASSUME NEW a \in Operators, RollbackToLegacy(a) PROVE CutInv'
    <2>1. plan' = plan
      BY <1>3 DEF RollbackToLegacy
    <2>2. QED BY <1>3, <2>1, RolledBackWriter, PlansKept, PlansOutgrown
  <1>4. CASE EnterShadow
    <2>1. WriterOK' /\ writer'.version = writer.version
      BY <1>4 DEF EnterShadow, CutInv, WriterOK
    <2>2. QED BY <1>4, <2>1, PlansKept DEF EnterShadow
  <1>5. CASE UNCHANGED <<writer, plan, changes>>
    BY <1>5, PlansKept DEF WriterOK, CutInv
  <1>6. QED BY <1>1, <1>2, <1>3, <1>4, <1>5
            DEF CutNext, GrantWriterLease, RefuseCutover, SourceMoves, CutTick, cutVars

\* In every reachable state of any number of operators, a plan that still names the
\* version of the writer state was made after the last cutover or rollback
\* (cutover.py: every change of the writer takes a version).
THEOREM CutInvariant == CutSpec => []CutInv
  <1>1. QED BY CutInitInv, NextCutInv, PTL DEF CutSpec

\* activate_frontier_writer takes over only while the comparison holds for the
\* current source and nobody cut over or rolled back since; every change of the
\* writer, the rollback inside execute_cutover included, takes a version.
THEOREM TakeoverEarned == CutSpec => TakeoverOnFreshParity
  <1> DEFINE Earned ==
        /\ (writer.active = "legacy" /\ writer'.active = "frontier") =>
              SemanticEqual(source) /\ takeover'.at = changes
        /\ writer'.active # writer.active => writer'.version > writer.version
  <1>1. CutInv /\ [CutNext]_cutVars => [Earned]_cutVars
    <2> SUFFICES ASSUME CutInv, CutNext PROVE Earned
      OBVIOUS
    <2>1. ASSUME NEW a \in Operators, NEW e \in Evidence, ExecuteCutover(a, e) PROVE Earned
      <3>1. writer'.version > writer.version
        BY <2>1, ActivatedWriter
      <3>2. plan[a].equal /\ plan[a].version = writer.version /\ plan[a].revision = source
        BY <2>1 DEF ExecuteCutover, Activatable, Fenced
      <3>3. SemanticEqual(source) /\ plan[a].at = changes
        BY <3>2 DEF CutInv, PlanCurrent
      <3>4. CASE e.healthy
        BY <2>1, <3>1, <3>3, <3>4 DEF ExecuteCutover
      <3>5. CASE ~e.healthy
        <4>1. writer'.active = "legacy"
          BY <2>1, <3>5 DEF ExecuteCutover, RolledBack
        <4>2. QED BY <3>1, <4>1
      <3>6. QED BY <3>4, <3>5
    <2>2. ASSUME NEW a \in Operators, RollbackToLegacy(a) PROVE Earned
      BY <2>2, RolledBackWriter
    <2>3. CASE writer'.active = writer.active
      BY <2>3 DEF CutInv, WriterOK
    <2>4. EnterShadow => writer'.active = writer.active
      BY DEF EnterShadow, CutInv, WriterOK
    <2>5. QED BY <2>1, <2>2, <2>3, <2>4
              DEF CutNext, Plan, GrantWriterLease, RefuseCutover, SourceMoves, CutTick, cutVars
  <1>2. QED BY <1>1, CutInvariant, PTL DEF CutSpec, TakeoverOnFreshParity

-----------------------------------------------------------------------------
(* The PostgreSQL queue, for all processes, workspaces, jobs and           *)
(* deliveries: it implements AtomicQueue, what was acknowledged is stored  *)
(* and the scheduler's fence waits for the lease.  What an open            *)
(* transaction saw of its row is still so when it commits (RowsHeld),      *)
(* because no two undecided statements are about to change one row in the  *)
(* same way (OneWriter).                                                   *)

Ops == JobOps \cup {"deliver", "fence"}

Transaction ==
    [step : {"idle", "open", "executed"}, op : Ops \cup {"none"}, ws : PgWorkspaces \cup {"none"},
     id : JobIds \cup Deliveries \cup {"none"}, at : Nat,
     row : JobIds \cup Deliveries \cup {"none", "fence"}]

Job == [state : {"absent", "pending", "claimed", "completed"}, owner : Processes \cup {"none"},
        expires : Nat, since : Nat]

PgTypeOK ==
    /\ pgNow \in Nat
    /\ jobs \in [Rows -> Job]
    /\ fence \in [PgWorkspaces -> [owner : Processes \cup {"none"}, expires : Nat]]
    /\ tx \in [Processes -> Transaction]

\* A process in a transaction has a workspace, an operation and a target.
InWorkspace(p) ==
    tx[p].step # "idle" =>
        /\ tx[p].ws \in PgWorkspaces /\ tx[p].op \in Ops /\ tx[p].id \in Targets(tx[p].op)
        /\ tx[p].at <= pgNow

\* What a statement that is not decided yet saw of its row.
RowHeld(p) ==
    tx[p].step = "executed" =>
        /\ tx[p].op \in JobOps =>
              tx[p].row = "none" \/ (tx[p].row \in JobIds /\ <<tx[p].ws, tx[p].row>> \in Rows)
        /\ (tx[p].op = "enqueue" /\ tx[p].row = "none") => jobs[<<tx[p].ws, tx[p].id>>].state # "absent"
        /\ (tx[p].op = "enqueue" /\ tx[p].row # "none") =>
              tx[p].row = tx[p].id /\ jobs[<<tx[p].ws, tx[p].row>>].state = "absent"
        /\ (tx[p].op = "claim" /\ tx[p].row # "none") => jobs[<<tx[p].ws, tx[p].row>>].state = "pending"
        /\ (tx[p].op = "fence" /\ tx[p].row # "none") =>
              tx[p].row = "fence" /\ FenceFree(p, fence[tx[p].ws])

\* Two undecided statements of one kind are about different rows.
OneWriter(p, q) ==
    (/\ p # q /\ tx[p].step = "executed" /\ tx[q].step = "executed"
     /\ tx[p].op = tx[q].op /\ tx[p].op \in {"enqueue", "claim", "fence"}
     /\ tx[p].row # "none" /\ tx[q].row # "none" /\ tx[p].ws = tx[q].ws)
    => tx[p].row # tx[q].row

\* A job that is not there has no owner.
AbsentUnowned == \A r \in Rows : jobs[r].state = "absent" => jobs[r].owner = "none"

PgInv ==
    /\ PgTypeOK
    /\ \A p \in Processes : InWorkspace(p) /\ RowHeld(p)
    /\ \A p, q \in Processes : OneWriter(p, q)
    /\ AbsentUnowned
    /\ \A a \in acknowledged : a[1] = "deliver" \/ <<a[2], a[3]>> \in Rows
    /\ AckedIsStored

-----------------------------------------------------------------------------
(* Steps that change a transaction and no row. *)

\* The start: no rows, no transactions.
LEMMA PgInitInv == PgInit => PgInv
  <1> SUFFICES ASSUME PgInit PROVE PgInv
    OBVIOUS
  <1>1. Closed \in Transaction
    BY DEF Closed, Transaction
  <1>2. Free \in Job
    BY DEF Free, Job
  <1>3. PgTypeOK
    BY <1>1, <1>2 DEF PgInit, PgTypeOK, NoFence
  <1>4. \A p \in Processes : tx[p].step = "idle"
    BY DEF PgInit, Closed
  <1>5. \A p \in Processes : InWorkspace(p) /\ RowHeld(p)
    BY <1>4 DEF InWorkspace, RowHeld
  <1>6. \A p, q \in Processes : OneWriter(p, q)
    BY <1>4 DEF OneWriter
  <1>7. AbsentUnowned /\ AckedIsStored
    BY DEF PgInit, AbsentUnowned, AckedIsStored, Free
  <1>8. \A a \in acknowledged : a[1] = "deliver" \/ <<a[2], a[3]>> \in Rows
    BY DEF PgInit
  <1>9. QED BY <1>3, <1>5, <1>6, <1>7, <1>8 DEF PgInv

\* A step of one process keeps the invariant if its own transaction does.
LEMMA TransactionStep ==
    ASSUME PgInv, NEW p \in Processes, NEW t \in Transaction,
           tx' = [tx EXCEPT ![p] = t],
           UNCHANGED <<pgNow, jobs, inbox, fence, acknowledged>>,
           InWorkspace(p)', RowHeld(p)',
           \A q \in Processes \ {p} : OneWriter(p, q)'
    PROVE  PgInv'
  <1>1. PgTypeOK'
    BY DEF PgInv, PgTypeOK
  <1>2. \A q \in Processes \ {p} : tx'[q] = tx[q]
    BY DEF PgInv, PgTypeOK
  <1>3. \A q \in Processes : InWorkspace(q)'
    BY <1>2 DEF PgInv, InWorkspace
  <1>4. \A q \in Processes : RowHeld(q)'
    BY <1>2 DEF PgInv, RowHeld, FenceFree
  <1>5. \A q, s \in Processes : OneWriter(q, s)'
    <2> SUFFICES ASSUME NEW q \in Processes, NEW s \in Processes PROVE OneWriter(q, s)'
      OBVIOUS
    <2>1. CASE q = p
      BY <2>1 DEF OneWriter
    <2>2. CASE s = p /\ q # p
      <3>1. OneWriter(p, q)'
        BY <2>2
      <3>2. QED BY <3>1, <2>2 DEF OneWriter
    <2>3. CASE q # p /\ s # p
      <3>1. OneWriter(q, s)
        BY DEF PgInv
      <3>2. QED BY <3>1, <1>2, <2>3 DEF OneWriter
    <2>4. QED BY <2>1, <2>2, <2>3
  <1>6. AbsentUnowned' /\ AckedIsStored'
    BY DEF PgInv, AbsentUnowned, AckedIsStored
  <1>7. \A a \in acknowledged' : a[1] = "deliver" \/ <<a[2], a[3]>> \in Rows
    BY DEF PgInv
  <1>8. QED BY <1>1, <1>3, <1>4, <1>5, <1>6, <1>7 DEF PgInv

\* Opening a transaction and rolling one back.
LEMMA OpenInv ==
    ASSUME PgInv, NEW p \in Processes, NEW op \in Ops, NEW w \in PgWorkspaces,
           NEW id \in Targets(op), Open(p, op, w, id)
    PROVE  PgInv'
  <1> DEFINE t == [Closed EXCEPT !.step = "open", !.op = op, !.ws = w, !.id = id, !.at = pgNow]
  <1>1. id \in JobIds \cup Deliveries \cup {"none"}
    BY DEF Targets
  <1>2. t \in Transaction /\ t.step = "open"
    BY <1>1 DEF Closed, Transaction, PgInv, PgTypeOK
  <1>3. tx' = [tx EXCEPT ![p] = t] /\ tx'[p] = t
    BY DEF Open, PgInv, PgTypeOK
  <1>4. InWorkspace(p)'
    BY <1>3 DEF InWorkspace, Closed, PgInv, PgTypeOK, Open
  <1>5. tx'[p].step = "open"
    BY <1>2, <1>3
  <1>6. QED BY <1>2, <1>3, <1>4, <1>5, TransactionStep DEF Open, RowHeld, OneWriter

LEMMA RollbackInv ==
    ASSUME PgInv, NEW p \in Processes, Rollback(p)
    PROVE  PgInv'
  <1>1. Closed \in Transaction
    BY DEF Closed, Transaction
  <1>2. tx' = [tx EXCEPT ![p] = Closed] /\ tx'[p].step = "idle"
    BY DEF Rollback, PgInv, PgTypeOK, Closed
  <1>3. QED BY <1>1, <1>2, TransactionStep DEF Rollback, InWorkspace, RowHeld, OneWriter

LEMMA TickInv == PgInv /\ PgTick => PgInv'
  <1> SUFFICES ASSUME PgInv, PgTick PROVE PgInv'
    OBVIOUS
  <1>1. PgTypeOK'
    BY DEF PgTick, PgInv, PgTypeOK
  <1>2. \A p \in Processes : InWorkspace(p)' /\ RowHeld(p)'
    BY DEF PgTick, PgInv, PgTypeOK, InWorkspace, RowHeld, FenceFree, Transaction
  <1>3. \A p, q \in Processes : OneWriter(p, q)'
    BY DEF PgTick, PgInv, OneWriter
  <1>4. AbsentUnowned' /\ AckedIsStored' /\ acknowledged' = acknowledged
    BY DEF PgTick, PgInv, AbsentUnowned, AckedIsStored
  <1>5. QED BY <1>1, <1>2, <1>3, <1>4 DEF PgInv

-----------------------------------------------------------------------------
(* Statements. *)

\* The transaction of p after its statement.
LEMMA ExecutedIs ==
    ASSUME PgTypeOK, NEW p \in Processes, NEW row \in JobIds \cup Deliveries \cup {"none", "fence"},
           Executed(p, row)
    PROVE  LET t == [tx[p] EXCEPT !.step = "executed", !.row = row]
           IN  /\ t \in Transaction
               /\ tx' = [tx EXCEPT ![p] = t] /\ tx'[p] = t
               /\ tx'[p].step = "executed" /\ tx'[p].row = row
               /\ tx'[p].op = tx[p].op /\ tx'[p].ws = tx[p].ws
               /\ tx'[p].id = tx[p].id /\ tx'[p].at = tx[p].at
               /\ \A q \in Processes \ {p} : tx'[q] = tx[q]
  <1> DEFINE t == [tx[p] EXCEPT !.step = "executed", !.row = row]
  <1>1. tx[p] \in Transaction
    BY DEF PgTypeOK
  <1>2. /\ t \in Transaction /\ t.step = "executed" /\ t.row = row /\ t.op = tx[p].op
        /\ t.ws = tx[p].ws /\ t.id = tx[p].id /\ t.at = tx[p].at
    BY <1>1 DEF Transaction
  <1>3. tx' = [tx EXCEPT ![p] = t]
    BY DEF Executed
  <1>4. tx'[p] = t /\ \A q \in Processes \ {p} : tx'[q] = tx[q]
    BY <1>3 DEF PgTypeOK
  <1>5. QED BY <1>2, <1>3, <1>4

\* A statement keeps the invariant if what it saw of its row is so and nobody
\* else holds the row.
LEMMA StatementStep ==
    ASSUME PgInv, NEW p \in Processes, tx[p].step = "open",
           UNCHANGED <<pgNow, jobs, inbox, fence, acknowledged>>,
           NEW row \in JobIds \cup Deliveries \cup {"none", "fence"},
           Executed(p, row),
           RowHeld(p)',
           \A q \in Processes \ {p} : OneWriter(p, q)'
    PROVE  PgInv'
  <1> DEFINE t == [tx[p] EXCEPT !.step = "executed", !.row = row]
  <1>1. InWorkspace(p)'
    BY ExecutedIs DEF PgInv, InWorkspace
  <1>2. PgTypeOK
    BY DEF PgInv
  <1>3. t \in Transaction /\ tx' = [tx EXCEPT ![p] = t]
    BY <1>2, ExecutedIs
  <1> HIDE DEF t
  <1>4. QED BY <1>1, <1>3, TransactionStep

LEMMA EnqueueInv ==
    ASSUME PgInv, NEW p \in Processes, tx[p].step = "open", EnqueueJob(p),
           UNCHANGED <<pgNow, jobs, inbox, fence, acknowledged>>
    PROVE  PgInv'
  <1> DEFINE w == tx[p].ws
             id == tx[p].id
             new == jobs[<<w, id>>].state = "absent" /\ ~Held(p, {"enqueue"}, w, id)
             row == IF new THEN id ELSE "none"
  <1>1. tx[p].op = "enqueue" /\ w \in PgWorkspaces /\ id \in JobIds /\ id # "none"
    BY PgAssumption DEF EnqueueJob, PgInv, InWorkspace, Targets
  <1>2. ~Held(p, {"enqueue"}, w, id) /\ Executed(p, row)
    BY DEF EnqueueJob, EnqueueWaits
  <1>3. row \in JobIds \cup Deliveries \cup {"none", "fence"}
    BY <1>1
  <1>4. PgTypeOK
    BY DEF PgInv
  <1>5. /\ tx'[p].op = "enqueue" /\ tx'[p].ws = w /\ tx'[p].id = id /\ tx'[p].row = row
        /\ \A q \in Processes \ {p} : tx'[q] = tx[q]
    BY <1>1, <1>2, <1>3, <1>4, ExecutedIs
  <1>6. row # "none" => new /\ row = id
    OBVIOUS
  <1>7. row = "none" => jobs[<<w, id>>].state # "absent"
    BY <1>1, <1>2
  <1>8. <<w, id>> \in Rows
    BY <1>1 DEF Rows
  <1>9. RowHeld(p)'
    BY <1>1, <1>5, <1>6, <1>7, <1>8 DEF RowHeld, JobOps
  <1>10. ASSUME NEW q \in Processes \ {p} PROVE OneWriter(p, q)'
    BY <1>2, <1>5, <1>6 DEF OneWriter, Held
  <1>11. QED BY <1>2, <1>3, <1>9, <1>10, StatementStep

LEMMA ClaimInv ==
    ASSUME PgInv, NEW p \in Processes, tx[p].step = "open", ClaimNextJob(p),
           UNCHANGED <<pgNow, jobs, inbox, fence, acknowledged>>
    PROVE  PgInv'
  <1>1. PgTypeOK /\ tx[p].op = "claim" /\ tx[p].ws \in PgWorkspaces
    BY DEF ClaimNextJob, PgInv, InWorkspace
  <1>2. CASE Executed(p, "none")
    <2>1. tx'[p].row = "none" /\ tx'[p].op = "claim"
      BY <1>1, <1>2, ExecutedIs
    <2>2. RowHeld(p)' /\ \A q \in Processes \ {p} : OneWriter(p, q)'
      BY <2>1 DEF RowHeld, OneWriter
    <2>3. QED BY <1>2, <2>2, StatementStep
  <1>3. CASE \E r \in Oldest(Eligible(p)) : Executed(p, r[2])
    <2>1. PICK r \in Oldest(Eligible(p)) : Executed(p, r[2])
      BY <1>3
    <2>2. /\ r \in Rows /\ r[1] = tx[p].ws
          /\ jobs[r].state \in {"pending", "retry_scheduled"} /\ ~Held(p, JobOps, r[1], r[2])
      BY DEF Oldest, Eligible, Visible
    <2>3. r = <<tx[p].ws, r[2]>> /\ r[2] \in JobIds
      BY <2>2 DEF Rows
    <2>4. jobs[r].state = "pending"
      BY <1>1, <2>2 DEF PgTypeOK, Job
    <2>5. /\ tx'[p].op = "claim" /\ tx'[p].ws = tx[p].ws /\ tx'[p].row = r[2]
          /\ \A q \in Processes \ {p} : tx'[q] = tx[q]
      BY <1>1, <2>1, <2>3, ExecutedIs
    <2>6. RowHeld(p)'
      BY <2>2, <2>3, <2>4, <2>5 DEF RowHeld
    <2>7. ASSUME NEW q \in Processes \ {p} PROVE OneWriter(p, q)'
      BY <2>2, <2>3, <2>5 DEF OneWriter, Held, JobOps
    <2>8. QED BY <2>1, <2>3, <2>6, <2>7, StatementStep
  <1>4. QED BY <1>2, <1>3 DEF ClaimNextJob

LEMMA UpdateInv ==
    ASSUME PgInv, NEW p \in Processes, tx[p].step = "open", UpdateOwned(p),
           UNCHANGED <<pgNow, jobs, inbox, fence, acknowledged>>
    PROVE  PgInv'
  <1> DEFINE hit == \E r \in Visible(p) : r[2] = tx[p].id /\ Owned(p, r)
             row == IF hit THEN tx[p].id ELSE "none"
  <1>1. /\ PgTypeOK /\ tx[p].op \in {"heartbeat", "complete"}
        /\ tx[p].ws \in PgWorkspaces /\ tx[p].id \in JobIds
    BY DEF UpdateOwned, PgInv, InWorkspace, Targets
  <1>2. Executed(p, row)
    BY DEF UpdateOwned
  <1>3. row \in JobIds \cup {"none"} /\ row \in JobIds \cup Deliveries \cup {"none", "fence"}
    BY <1>1
  <1> HIDE DEF hit, row
  <1>4. tx'[p].op = tx[p].op /\ tx'[p].ws = tx[p].ws /\ tx'[p].row = row
    BY <1>1, <1>2, <1>3, ExecutedIs
  <1>5. RowHeld(p)' /\ \A q \in Processes \ {p} : OneWriter(p, q)'
    BY <1>1, <1>3, <1>4 DEF RowHeld, OneWriter, Rows
  <1>6. QED BY <1>2, <1>3, <1>5, StatementStep

LEMMA FenceInv ==
    ASSUME PgInv, NEW p \in Processes, tx[p].step = "open", AcquireFence(p),
           UNCHANGED <<pgNow, jobs, inbox, fence, acknowledged>>
    PROVE  PgInv'
  <1> DEFINE won == FenceFree(p, fence[tx[p].ws])
             row == IF won THEN "fence" ELSE "none"
  <1>1. PgTypeOK /\ tx[p].op = "fence" /\ tx[p].ws \in PgWorkspaces
    BY DEF AcquireFence, PgInv, InWorkspace
  <1>2. Executed(p, row) /\ ~Held(p, {"fence"}, tx[p].ws, "fence")
    BY DEF AcquireFence, FenceFree
  <1>3. /\ row \in JobIds \cup Deliveries \cup {"none", "fence"}
        /\ row = "none" \/ (row = "fence" /\ won)
    OBVIOUS
  <1> HIDE DEF row
  <1>4. /\ tx'[p].op = "fence" /\ tx'[p].ws = tx[p].ws /\ tx'[p].row = row /\ tx'[p].at = tx[p].at
        /\ \A q \in Processes \ {p} : tx'[q] = tx[q]
    BY <1>1, <1>2, <1>3, ExecutedIs
  <1>5. RowHeld(p)'
    BY <1>1, <1>3, <1>4 DEF RowHeld, JobOps, FenceFree
  <1>6. ASSUME NEW q \in Processes \ {p} PROVE OneWriter(p, q)'
    BY <1>2, <1>3, <1>4 DEF OneWriter, Held
  <1>7. QED BY <1>2, <1>3, <1>5, <1>6, StatementStep

LEMMA InboxInv ==
    ASSUME PgInv, NEW p \in Processes, tx[p].step = "open", PersistInbox(p),
           UNCHANGED <<pgNow, jobs, inbox, fence, acknowledged>>
    PROVE  PgInv'
  <1> DEFINE row == IF <<tx[p].ws, tx[p].id>> \in inbox THEN "none" ELSE tx[p].id
  <1>1. PgTypeOK /\ tx[p].op = "deliver" /\ tx[p].id \in Deliveries
    BY DEF PersistInbox, PgInv, InWorkspace, Targets
  <1>2. Executed(p, row) /\ row \in Deliveries \cup {"none"}
    BY <1>1 DEF PersistInbox
  <1> HIDE DEF row
  <1>3. tx'[p].op = "deliver"
    BY <1>1, <1>2, ExecutedIs
  <1>4. RowHeld(p)' /\ \A q \in Processes \ {p} : OneWriter(p, q)'
    BY <1>3 DEF RowHeld, OneWriter, JobOps
  <1>5. QED BY <1>2, <1>4, StatementStep

LEMMA ExecuteInv ==
    ASSUME PgInv, NEW p \in Processes, Execute(p)
    PROVE  PgInv'
  BY EnqueueInv, ClaimInv, UpdateInv, FenceInv, InboxInv DEF Execute

-----------------------------------------------------------------------------
(* Commits. *)

\* A commit changes at most the row its statement named, from what it saw.
LEMMA ChangedRow ==
    ASSUME PgInv, NEW p \in Processes, tx[p].step = "executed", NEW r \in Changed(p)
    PROVE  /\ r \in Rows /\ r = <<tx[p].ws, tx[p].row>> /\ tx[p].row # "none"
           /\ Written(p, r) \in Job
           /\ \/ /\ tx[p].op = "enqueue" /\ jobs[r].state = "absent" /\ jobs[r].owner = "none"
                 /\ Written(p, r).state = "pending" /\ Written(p, r).owner = "none"
              \/ /\ tx[p].op = "claim" /\ jobs[r].state = "pending"
                 /\ Written(p, r).state = "claimed" /\ Written(p, r).owner = p
              \/ /\ tx[p].op = "heartbeat" /\ jobs[r].state = "claimed"
                 /\ Written(p, r).state = "claimed" /\ Written(p, r).owner = jobs[r].owner
              \/ /\ tx[p].op = "complete" /\ jobs[r].state = "claimed" /\ jobs[r].owner = p
                 /\ Written(p, r).state = "completed" /\ Written(p, r).owner = "none"
  <1>1. /\ tx[p].op \in JobOps /\ tx[p].row # "none" /\ r \in Rows /\ r[1] = tx[p].ws
        /\ r[2] = tx[p].row /\ (tx[p].op \in {"heartbeat", "complete"} => Owned(p, r))
    BY DEF Changed, Visible
  <1>2. r = <<tx[p].ws, tx[p].row>>
    BY <1>1 DEF Rows
  <1>3. jobs[r] \in Job /\ tx[p].at \in Nat /\ tx[p].at + LeaseDuration \in Nat
    BY <1>1, PgAssumption DEF PgInv, PgTypeOK, Transaction
  <1>4. RowHeld(p)
    BY DEF PgInv
  <1>5. CASE tx[p].op = "enqueue"
    <2>1. jobs[r].state = "absent" /\ jobs[r].owner = "none"
      BY <1>1, <1>2, <1>4, <1>5 DEF RowHeld, PgInv, AbsentUnowned
    <2>2. QED BY <1>1, <1>2, <1>3, <1>5, <2>1 DEF Written, Job
  <1>6. CASE tx[p].op = "claim"
    <2>1. jobs[r].state = "pending"
      BY <1>1, <1>2, <1>4, <1>6 DEF RowHeld
    <2>2. QED BY <1>1, <1>2, <1>3, <1>6, <2>1 DEF Written, Job
  <1>7. CASE tx[p].op = "heartbeat"
    BY <1>1, <1>2, <1>3, <1>7 DEF Written, Job, Owned
  <1>8. CASE tx[p].op = "complete"
    BY <1>1, <1>2, <1>3, <1>8 DEF Written, Job, Owned
  <1>9. QED BY <1>1, <1>5, <1>6, <1>7, <1>8 DEF JobOps

\* What a commit does to the committed rows.
LEMMA CommittedRows ==
    ASSUME PgInv, NEW p \in Processes, Commit(p), NEW r \in Rows
    PROVE  /\ r \in Changed(p) => jobs'[r] = Written(p, r)
           /\ r \notin Changed(p) => jobs'[r] = jobs[r]
           /\ jobs'[r] \in Job
           /\ jobs[r].state # "absent" => jobs'[r].state # "absent"
           /\ jobs'[r].state = "absent" => jobs'[r].owner = "none"
  <1>1. jobs'[r] = IF r \in Changed(p) THEN Written(p, r) ELSE jobs[r]
    BY DEF Commit
  <1>2. CASE r \in Changed(p)
    BY <1>1, <1>2, ChangedRow DEF Commit
  <1>3. CASE r \notin Changed(p)
    BY <1>1, <1>3 DEF PgInv, PgTypeOK, AbsentUnowned
  <1>4. QED BY <1>2, <1>3

\* What the other transactions saw of their rows is still so.
LEMMA OthersHeld ==
    ASSUME PgInv, NEW p \in Processes, Commit(p), NEW q \in Processes \ {p}, tx'[q] = tx[q]
    PROVE  RowHeld(q)'
  <1> SUFFICES ASSUME tx[q].step = "executed" PROVE RowHeld(q)'
    BY DEF RowHeld
  <1>1. RowHeld(q) /\ InWorkspace(q) /\ OneWriter(p, q) /\ tx[p].step = "executed"
    BY DEF PgInv, Commit
  <1>2. CASE tx[q].op = "enqueue" /\ tx[q].row = "none"
    <2>1. <<tx[q].ws, tx[q].id>> \in Rows
      BY <1>1, <1>2 DEF InWorkspace, Targets, Rows
    <2>2. QED BY <1>1, <1>2, <2>1, CommittedRows DEF RowHeld
  <1>3. CASE tx[q].op \in {"enqueue", "claim"} /\ tx[q].row # "none"
    <2> DEFINE r == <<tx[q].ws, tx[q].row>>
    <2>1. r \in Rows /\ jobs[r].state = IF tx[q].op = "enqueue" THEN "absent" ELSE "pending"
      BY <1>1, <1>3 DEF RowHeld, JobOps
    <2>2. r \notin Changed(p)
      <3> SUFFICES ASSUME r \in Changed(p) PROVE FALSE
        OBVIOUS
      <3>1. r = <<tx[p].ws, tx[p].row>> /\ tx[p].row # "none" /\ tx[p].op = tx[q].op
        BY <1>1, <1>3, <2>1, ChangedRow
      <3>2. QED BY <1>1, <1>3, <3>1 DEF OneWriter
    <2>3. jobs'[r] = jobs[r]
      BY <2>1, <2>2, CommittedRows
    <2>4. QED BY <1>1, <1>3, <2>3 DEF RowHeld
  <1>4. CASE tx[q].op = "fence" /\ tx[q].row # "none"
    <2>1. tx[q].row = "fence" /\ tx[q].ws \in PgWorkspaces /\ FenceFree(q, fence[tx[q].ws])
      BY <1>1, <1>4 DEF RowHeld, InWorkspace
    <2>2. ~(tx[p].op = "fence" /\ tx[p].row # "none" /\ tx[p].ws = tx[q].ws)
      <3>1. RowHeld(p)
        BY DEF PgInv
      <3>2. QED BY <1>1, <1>4, <2>1, <3>1 DEF RowHeld, OneWriter
    <2>3. fence'[tx[q].ws] = fence[tx[q].ws]
      BY <2>1, <2>2 DEF Commit, PgInv, PgTypeOK
    <2>4. QED BY <1>1, <1>4, <2>1, <2>3 DEF RowHeld, JobOps, FenceFree
  <1>5. CASE tx[q].row = "none" /\ tx[q].op # "enqueue"
    BY <1>1, <1>5 DEF RowHeld
  <1>6. CASE tx[q].op \notin {"enqueue", "claim", "fence"}
    BY <1>1, <1>6 DEF RowHeld
  <1>7. QED BY <1>2, <1>3, <1>4, <1>5, <1>6

\* Whatever is acknowledged at a commit is stored by it or before it.
LEMMA AckedStep ==
    ASSUME PgInv, NEW p \in Processes, Commit(p)
    PROVE  /\ \A a \in acknowledged' : a[1] = "deliver" \/ <<a[2], a[3]>> \in Rows
           /\ AckedIsStored'
  <1> DEFINE new == <<tx[p].op, tx[p].ws, tx[p].id>>
             Stored(a) == IF a[1] = "deliver" THEN <<a[2], a[3]>> \in inbox'
                          ELSE jobs'[<<a[2], a[3]>>].state # "absent"
  <1>1. ASSUME NEW a \in acknowledged PROVE (a[1] = "deliver" \/ <<a[2], a[3]>> \in Rows) /\ Stored(a)
    <2>1. a[1] = "deliver" \/ <<a[2], a[3]>> \in Rows
      BY DEF PgInv
    <2>2. IF a[1] = "deliver" THEN <<a[2], a[3]>> \in inbox ELSE jobs[<<a[2], a[3]>>].state # "absent"
      BY DEF PgInv, AckedIsStored
    <2>3. inbox \subseteq inbox'
      BY DEF Commit
    <2>4. QED BY <2>1, <2>2, <2>3, CommittedRows
  <1>2. ASSUME tx[p].op = "deliver" PROVE new[1] = "deliver" /\ Stored(new)
    BY <1>2 DEF Commit
  <1>3. ASSUME tx[p].op = "enqueue"
        PROVE  <<new[2], new[3]>> \in Rows /\ Stored(new)
    <2> DEFINE r == <<tx[p].ws, tx[p].id>>
    <2>1. RowHeld(p) /\ InWorkspace(p) /\ tx[p].step = "executed"
      BY DEF PgInv, Commit
    <2>2. tx[p].ws \in PgWorkspaces /\ tx[p].id \in JobIds /\ r \in Rows
      BY <1>3, <2>1 DEF InWorkspace, Targets, Rows
    <2>3. CASE tx[p].row = "none"
      BY <1>3, <2>1, <2>2, <2>3, CommittedRows DEF RowHeld
    <2>4. CASE tx[p].row # "none"
      <3>1. r \in Changed(p)
        BY <1>3, <2>1, <2>2, <2>4 DEF RowHeld, Changed, Visible, JobOps
      <3>2. jobs'[r].state # "absent"
        BY <1>3, <2>1, <2>2, <3>1, CommittedRows, ChangedRow
      <3>3. QED BY <1>3, <2>2, <3>2
    <2>5. QED BY <2>3, <2>4
  <1>4. ASSUME NEW a \in acknowledged'
        PROVE  (a[1] = "deliver" \/ <<a[2], a[3]>> \in Rows) /\ Stored(a)
    <2>1. a \in acknowledged \/ (tx[p].op \in {"deliver", "enqueue"} /\ a = new)
      BY DEF Commit
    <2>2. QED BY <1>1, <1>2, <1>3, <2>1
  <1>5. QED BY <1>4 DEF AckedIsStored

LEMMA CommitInv ==
    ASSUME PgInv, NEW p \in Processes, Commit(p)
    PROVE  PgInv'
  <1>1. tx' = [tx EXCEPT ![p] = Closed] /\ pgNow' = pgNow
    BY DEF Commit
  <1>2. Closed \in Transaction /\ Closed.step = "idle"
    BY DEF Closed, Transaction
  <1>3. tx'[p].step = "idle" /\ \A q \in Processes \ {p} : tx'[q] = tx[q]
    BY <1>1, <1>2 DEF PgInv, PgTypeOK
  <1>4. PgTypeOK'
    <2>1. jobs' \in [Rows -> Job]
      BY CommittedRows DEF Commit
    <2>2. fence' \in [PgWorkspaces -> [owner : Processes \cup {"none"}, expires : Nat]]
      <3>1. tx[p].at + LeaseDuration \in Nat
        BY PgAssumption DEF PgInv, PgTypeOK, Transaction
      <3>2. QED BY <3>1 DEF Commit, PgInv, PgTypeOK
    <2>3. QED BY <1>1, <1>2, <2>1, <2>2 DEF PgInv, PgTypeOK
  <1>5. \A q \in Processes : InWorkspace(q)'
    BY <1>1, <1>3 DEF PgInv, InWorkspace
  <1>6. \A q \in Processes : RowHeld(q)'
    BY <1>3, OthersHeld DEF RowHeld
  <1>7. \A q, s \in Processes : OneWriter(q, s)'
    BY <1>3 DEF PgInv, OneWriter
  <1>8. AbsentUnowned'
    BY CommittedRows DEF AbsentUnowned
  <1>9. QED BY <1>4, <1>5, <1>6, <1>7, <1>8, AckedStep DEF PgInv

LEMMA NextPgInv == PgInv /\ [PgNext(JobOps \cup {"deliver", "fence"})]_pgVars => PgInv'
  <1> SUFFICES ASSUME PgInv, [PgNext(Ops)]_pgVars PROVE PgInv'
    BY DEF Ops
  <1>1. CASE UNCHANGED pgVars
    BY <1>1 DEF pgVars, PgInv, PgTypeOK, InWorkspace, RowHeld, FenceFree, OneWriter, AbsentUnowned,
       AckedIsStored
  <1>2. CASE PgNext(Ops)
    BY <1>2, OpenInv, ExecuteInv, CommitInv, RollbackInv, TickInv DEF PgNext
  <1>3. QED BY <1>1, <1>2

-----------------------------------------------------------------------------
(* The theorems. *)

\* In every reachable state of any number of processes, workspaces and jobs, what
\* the undecided statements of postgres_queue.py saw of their rows is still so and
\* no two of them are about to change one row in the same way.
THEOREM PgInvariant == PgSpec => []PgInv
  <1>1. QED BY PgInitInv, NextPgInv, PTL DEF PgSpec

\* A delivery or a job whose sender was told that it is safe is a committed row:
\* persist_inbox_before_ack and enqueue_job answer after the commit, and "already
\* there" is never said of an insert that may still be rolled back.
THEOREM AcknowledgedStored == PgSpec => []AckedIsStored
  <1>1. PgInv => AckedIsStored
    BY DEF PgInv
  <1>2. QED BY <1>1, PgInvariant, PTL

\* What AtomicQueue sees of a row.
Entry(r) == [state |-> jobs[r].state, owner |-> jobs[r].owner]

\* A commit is one step of AtomicQueue, or none.
LEMMA CommitIsAtomic ==
    ASSUME PgInv, NEW p \in Processes, Commit(p)
    PROVE  Atomic!AtomicNext \/ UNCHANGED [r \in Rows |-> Entry(r)]
  <1> DEFINE table == [r \in Rows |-> Entry(r)]
  <1>1. ASSUME NEW r \in Rows
        PROVE  /\ r \in Changed(p) => Entry(r)' = [state |-> Written(p, r).state, owner |-> Written(p, r).owner]
               /\ r \notin Changed(p) => Entry(r)' = Entry(r)
    BY CommittedRows DEF Entry
  <1>2. CASE Changed(p) = {}
    BY <1>1, <1>2
  <1>3. CASE Changed(p) # {}
    <2>1. PICK r \in Changed(p) : TRUE
      BY <1>3
    <2>2. tx[p].step = "executed"
      BY DEF Commit
    <2>3. r \in Rows /\ r = <<tx[p].ws, tx[p].row>>
      BY <2>2, ChangedRow
    <2>4. \A s \in Changed(p) : s = r
      BY <2>2, <2>3, ChangedRow
    <2> DEFINE e == [state |-> Written(p, r).state, owner |-> Written(p, r).owner]
    <2>5. table' = [table EXCEPT ![r] = e]
      BY <1>1, <2>1, <2>3, <2>4
    <2>6. CASE tx[p].op = "enqueue"
      <3>1. Entry(r) = [state |-> "absent", owner |-> "none"] /\ e = [state |-> "pending", owner |-> "none"]
        BY <2>1, <2>2, <2>6, ChangedRow DEF Entry
      <3>2. Atomic!Enqueue(r)
        BY <2>3, <2>5, <3>1 DEF Atomic!Enqueue, Entry
      <3>3. QED BY <2>3, <3>2 DEF Atomic!AtomicNext
    <2>7. CASE tx[p].op = "claim"
      <3>1. jobs[r].state = "pending" /\ e = [state |-> "claimed", owner |-> p]
        BY <2>1, <2>2, <2>7, ChangedRow
      <3>2. Atomic!Claim(p, r)
        BY <2>3, <2>5, <3>1 DEF Atomic!Claim, Entry
      <3>3. QED BY <2>3, <3>2 DEF Atomic!AtomicNext
    <2>8. CASE tx[p].op = "heartbeat"
      <3>1. e = Entry(r)
        BY <2>1, <2>2, <2>8, ChangedRow DEF Entry
      <3>2. QED BY <2>3, <2>5, <3>1
    <2>9. CASE tx[p].op = "complete"
      <3>1. jobs[r].state = "claimed" /\ jobs[r].owner = p /\ e = [state |-> "completed", owner |-> "none"]
        BY <2>1, <2>2, <2>9, ChangedRow
      <3>2. Atomic!Complete(p, r)
        BY <2>3, <2>5, <3>1 DEF Atomic!Complete, Entry
      <3>3. QED BY <2>3, <3>2 DEF Atomic!AtomicNext
    <2>10. tx[p].op \in JobOps
      BY <2>1 DEF Changed
    <2>11. QED BY <2>6, <2>7, <2>8, <2>9, <2>10 DEF JobOps
  <1>4. QED BY <1>2, <1>3

\* Whatever transactions of claim_next_job, heartbeat_job, complete_job and
\* enqueue_job are open at the same time, each of them takes effect at its commit as
\* one indivisible operation of AtomicQueue, or not at all.
THEOREM QueueImplementsAtomic == PgSpec => QueueIsAtomic
  <1>1. PgInit => Atomic!AtomicInit
    BY DEF PgInit, Free, Atomic!AtomicInit
  <1> DEFINE table == [r \in Rows |-> [state |-> jobs[r].state, owner |-> jobs[r].owner]]
  <1>2. PgInv /\ [PgNext(Ops)]_pgVars => [Atomic!AtomicNext]_table
    <2> SUFFICES ASSUME PgInv, [PgNext(Ops)]_pgVars
                 PROVE  Atomic!AtomicNext \/ table' = table
      OBVIOUS
    <2>1. CASE jobs' = jobs
      BY <2>1
    <2>2. CASE \E p \in Processes : Commit(p)
      BY <2>2, CommitIsAtomic DEF Entry
    <2>3. QED BY <2>1, <2>2 DEF PgNext, Open, Execute, Rollback, PgTick, pgVars
  <1>3. QED BY <1>1, <1>2, PgInvariant, PTL DEF PgSpec, QueueIsAtomic, Atomic!AtomicSpec, Ops

\* acquire_scheduler_fence gives the fence to another scheduler only after the lease
\* of the last one ran out on the clock, however long its statement and its commit
\* take after it read that clock.
THEOREM FenceWaits == PgSpec => FenceHandedOver
  <1> DEFINE Handed == \A w \in PgWorkspaces : fence'[w].owner # fence[w].owner =>
                          fence[w].owner = "none" \/ pgNow > fence[w].expires
  <1>1. PgInv /\ [PgNext(Ops)]_pgVars => [Handed]_pgVars
    <2> SUFFICES ASSUME PgInv, PgNext(Ops), NEW w \in PgWorkspaces,
                        fence'[w].owner # fence[w].owner, fence[w].owner # "none"
                 PROVE  pgNow > fence[w].expires
      OBVIOUS
    <2>1. PICK p \in Processes : Commit(p)
      BY DEF PgNext, Open, Execute, Rollback, PgTick
    <2>2. tx[p].op = "fence" /\ tx[p].row # "none" /\ tx[p].ws = w /\ fence'[w].owner = p
      BY <2>1 DEF Commit, PgInv, PgTypeOK
    <2>3. FenceFree(p, fence[w]) /\ tx[p].at <= pgNow
      BY <2>1, <2>2 DEF PgInv, RowHeld, InWorkspace, Commit
    <2>4. fence[w].expires < tx[p].at
      BY <2>2, <2>3 DEF FenceFree
    <2>5. fence[w].expires \in Nat /\ tx[p].at \in Nat /\ pgNow \in Nat
      BY DEF PgInv, PgTypeOK, Transaction
    <2>6. QED BY <2>3, <2>4, <2>5
  <1>2. QED BY <1>1, PgInvariant, PTL DEF PgSpec, FenceHandedOver, Ops
=============================================================================
