-------------------------- MODULE GovernanceProofs --------------------------
(***************************************************************************)
(* Proofs, for all actors, terms and bounds, of what coordination and      *)
(* proposals promise: an exclusive claim is worked on alone, a lease in    *)
(* force changes hands only by an override that leaves an event, accepted  *)
(* changes form a chain.  Leases and proposals take their steps in any     *)
(* order (GovernanceSpec), which the runs examine one at a time.  For all  *)
(* payloads and lengths, that the audit ledger is what was written.  For   *)
(* all users, scopes and roles, that whatever is permitted is justified at *)
(* that moment and that emergency access keeps its daily limit.            *)
(***************************************************************************)
EXTENDS Governance, AuditLedger, Access, FiniteSetTheorems, SequenceTheorems, WellFoundedInduction, TLAPS

People == Actors \cup {"nobody"}

\* A lease is a record of these fields, owned by somebody.
Fields == {"id", "owner", "collaborators", "mode", "state", "decision", "version", "expires",
           "heartbeat", "handoff"}
LeaseOK == DOMAIN lease = Fields /\ lease.owner \in People

Proposal == [id : Nat, proposer : Actors, base : Nat, revision : Nat]
Approval == [proposal : Nat, approver : Actors, base : Nat, revision : Nat]
Change == [proposal : Proposal, approver : Actors, claimant : People, derivedFrom : Nat, revision : Nat]
CoordinationEvent == [type : {"lease_forced_override"}, actor : Actors]

\* Work under an exclusive lease is done alone, and an exclusive claim is only
\* granted on an exclusive lease.
Alone ==
    /\ lease.mode = "exclusive" => lease.collaborators = {}
    /\ \A g \in granted : g[2] = "exclusive" => lease.mode = "exclusive"

\* Accepted changes lie before the current decision.
ChangesPast == \A k \in DOMAIN applied : applied[k].derivedFrom < decision

LeaseInv ==
    /\ LeaseOK /\ leaseClock \in Nat /\ events \in Seq(CoordinationEvent)
    /\ Alone

ProposalInv ==
    /\ decision \in Nat /\ sourceRevision \in Nat
    /\ proposals \subseteq Proposal /\ IsFiniteSet(proposals)
    /\ approvals \subseteq Approval
    /\ applied \in Seq(Change)
    /\ ChangesPast
    /\ ChangesChain

\* The start: no lease, no proposals.
LEMMA GovernanceInitInv == GovernanceInit => LeaseInv /\ ProposalInv
  <1> SUFFICES ASSUME GovernanceInit PROVE LeaseInv /\ ProposalInv
    OBVIOUS
  <1>1. LeaseInv
    BY DEF GovernanceInit, LeaseInv, LeaseOK, Fields, NoLease, People, Alone
  <1>2. IsFiniteSet({})
    BY FS_EmptySet
  <1>3. ProposalInv
    BY <1>2 DEF GovernanceInit, ProposalInv, ChangesPast, ChangesChain
  <1>4. QED BY <1>1, <1>3

-----------------------------------------------------------------------------
(* Leases. *)

LEMMA JoinLeaseInv ==
    ASSUME LeaseInv, NEW a \in Actors, NEW m \in {"exclusive", "collaborative"}, NEW t \in Terms,
           NEW v \in 1..MaxLeaseVersion, JoinLease(a, m, t, v)
    PROVE  LeaseInv' /\ lease'.owner = lease.owner
  <1>1. LeaseOK' /\ lease'.owner = lease.owner /\ lease'.mode = lease.mode
    BY DEF LeaseInv, LeaseOK, Fields, JoinLease
  <1>2. lease.mode # "exclusive" /\ m # "exclusive" /\ granted' = granted \cup {<<a, m>>}
    BY DEF JoinLease, MayJoin
  <1>3. Alone'
    BY <1>1, <1>2 DEF LeaseInv, Alone
  <1>4. QED BY <1>1, <1>3 DEF LeaseInv, JoinLease

LEMMA NewLeaseInv ==
    ASSUME LeaseInv, NEW a \in Actors, NEW m \in {"exclusive", "collaborative"},
           NEW t \in Terms, NewLease(a, m, t)
    PROVE  LeaseInv'
  <1>1. LeaseOK' /\ lease'.mode = m /\ lease'.collaborators = {}
    BY DEF LeaseInv, LeaseOK, Fields, NewLease, People
  <1>2. Alone'
    BY <1>1 DEF Alone, NewLease
  <1>3. QED BY <1>1, <1>2 DEF LeaseInv, NewLease

LEMMA HeartbeatInv ==
    ASSUME LeaseInv, NEW a \in Actors, Heartbeat(a) \/ Release(a)
    PROVE  LeaseInv' /\ lease'.owner = lease.owner
  <1>1. /\ LeaseOK' /\ lease'.mode = lease.mode
        /\ lease'.collaborators = lease.collaborators /\ lease'.owner = lease.owner
    BY DEF LeaseInv, LeaseOK, Fields, Heartbeat, Release
  <1>2. QED BY <1>1 DEF LeaseInv, Alone, Heartbeat, Release

LEMMA RequestHandoffInv ==
    ASSUME LeaseInv, NEW a \in Actors, RequestHandoff(a)
    PROVE  LeaseInv' /\ lease'.owner = lease.owner
  <1>1. /\ LeaseOK' /\ lease'.mode = lease.mode
        /\ lease'.collaborators = lease.collaborators /\ lease'.owner = lease.owner
    BY DEF LeaseInv, LeaseOK, Fields, RequestHandoff
  <1>2. QED BY <1>1 DEF LeaseInv, Alone, RequestHandoff

\* An override leaves an event and the lease's id.
LEMMA ForceOverrideInv ==
    ASSUME LeaseInv, NEW a \in Actors, NEW b \in Actors, ForceOverride(a, b)
    PROVE  LeaseInv' /\ lease'.id = lease.id /\ Len(events') = Len(events) + 1
  <1>1. LeaseOK' /\ lease'.mode = lease.mode /\ lease'.collaborators = {} /\ lease'.id = lease.id
    BY DEF LeaseInv, LeaseOK, Fields, ForceOverride, People
  <1>2. events' \in Seq(CoordinationEvent) /\ Len(events') = Len(events) + 1
    <2> DEFINE e == [type |-> "lease_forced_override", actor |-> a]
    <2>1. e \in CoordinationEvent /\ events' = Append(events, e)
      BY DEF CoordinationEvent, ForceOverride
    <2> HIDE DEF e
    <2>2. QED BY <2>1 DEF LeaseInv
  <1>3. QED BY <1>1, <1>2 DEF LeaseInv, Alone, ForceOverride

LEMMA LeaseTickInv == LeaseInv /\ LeaseTick => LeaseInv'
  BY DEF LeaseInv, LeaseOK, Alone, LeaseTick

-----------------------------------------------------------------------------
(* Proposals. *)

LEMMA ProposeInv ==
    ASSUME ProposalInv, NEW a \in Actors, Propose(a)
    PROVE  ProposalInv'
  <1> DEFINE p == [id |-> Cardinality(proposals) + 1, proposer |-> a, base |-> decision,
                   revision |-> sourceRevision]
  <1>1. Cardinality(proposals) \in Nat
    BY FS_CardinalityType DEF ProposalInv
  <1>2. p \in Proposal /\ proposals' = proposals \cup {p}
    BY <1>1 DEF Proposal, ProposalInv, Propose
  <1> HIDE DEF p
  <1>3. IsFiniteSet(proposals')
    BY <1>2, FS_AddElement DEF ProposalInv
  <1>4. QED BY <1>2, <1>3 DEF ProposalInv, Propose, ChangesPast, ChangesChain

LEMMA ApproveInv ==
    ASSUME ProposalInv, NEW a \in Actors, NEW p \in proposals, Approve(a, p)
    PROVE  ProposalInv'
  <1>1. approvals' \subseteq Approval
    BY DEF ProposalInv, Proposal, Approval, Approve
  <1>2. QED BY <1>1 DEF ProposalInv, Approve, ChangesPast, ChangesChain

\* The new change derives from the current decision, after all the others.
LEMMA ApplyInv ==
    ASSUME LeaseInv, ProposalInv, NEW p \in proposals, NEW q \in approvals, Apply(p, q)
    PROVE  ProposalInv'
  <1> DEFINE c == [proposal |-> p, approver |-> q.approver, claimant |-> Claimant,
                   derivedFrom |-> decision, revision |-> sourceRevision]
             n == Len(applied)
  <1>1. p \in Proposal /\ q \in Approval /\ Claimant \in People
    BY DEF LeaseInv, LeaseOK, ProposalInv, Claimant, People
  <1>2. c \in Change
    BY <1>1 DEF Change, Approval, ProposalInv
  <1>3. /\ c.proposal.base = c.derivedFrom /\ c.proposal.revision = c.revision
        /\ c.approver \notin {c.proposal.proposer, c.claimant} /\ c.derivedFrom = decision
    BY DEF Apply, Anchored, DutiesSeparate
  <1>4. applied' = Append(applied, c) /\ decision' = decision + 1
    BY DEF Apply
  <1> HIDE DEF c
  <1>5. /\ applied' \in Seq(Change) /\ n \in Nat
        /\ DOMAIN applied' = 1..(n + 1) /\ DOMAIN applied = 1..n
        /\ applied'[n + 1] = c /\ \A k \in 1..n : applied'[k] = applied[k]
    BY <1>2, <1>4 DEF ProposalInv
  <1> HIDE DEF n
  <1>6. \A k \in 1..n : applied[k].derivedFrom \in Nat /\ applied[k].derivedFrom < decision
    <2>1. \A k \in 1..n : applied[k] \in Change
      BY <1>5 DEF ProposalInv
    <2>2. \A k \in 1..n : applied[k].derivedFrom < decision
      BY <1>5 DEF ProposalInv, ChangesPast
    <2>3. QED BY <2>1, <2>2 DEF Change
  <1>7. ChangesPast'
    <2>1. decision \in Nat
      BY DEF ProposalInv
    <2>2. QED BY <1>3, <1>4, <1>5, <1>6, <2>1 DEF ChangesPast
  <1>8. ChangesChain'
    <2> SUFFICES ASSUME NEW k \in 1..(n + 1), NEW l \in 1..(n + 1)
                 PROVE  /\ applied'[k].proposal.base = applied'[k].derivedFrom
                        /\ applied'[k].proposal.revision = applied'[k].revision
                        /\ k < l => applied'[k].derivedFrom < applied'[l].derivedFrom
                        /\ applied'[k].approver \notin {applied'[k].proposal.proposer, applied'[k].claimant}
      BY <1>5 DEF ChangesChain
    <2>1. CASE k \in 1..n /\ l \in 1..n
      <3>1. applied'[k] = applied[k] /\ applied'[l] = applied[l]
        BY <1>5, <2>1
      <3>2. QED BY <1>5, <2>1, <3>1 DEF ProposalInv, ChangesChain
    <2>2. CASE k \in 1..n /\ l = n + 1
      <3>1. applied'[k] = applied[k] /\ applied'[l] = c
        BY <1>5, <2>2
      <3>2. applied[k].derivedFrom < c.derivedFrom
        BY <1>3, <1>6, <2>2
      <3>3. QED BY <1>5, <2>2, <3>1, <3>2 DEF ProposalInv, ChangesChain
    <2>3. CASE k = n + 1
      <3>1. applied'[k] = c /\ ~(k < l)
        BY <1>5, <2>3
      <3>2. QED BY <1>3, <3>1
    <2>4. QED BY <1>5, <2>1, <2>2, <2>3
  <1>9. QED BY <1>4, <1>5, <1>7, <1>8 DEF ProposalInv, Apply

LEMMA DecideAnewInv == ProposalInv /\ DecideAnew => ProposalInv'
  <1> SUFFICES ASSUME ProposalInv, DecideAnew PROVE ProposalInv'
    OBVIOUS
  <1>1. \A k \in DOMAIN applied : applied[k].derivedFrom \in Nat
    <2>1. \A k \in DOMAIN applied : applied[k] \in Change
      BY DEF ProposalInv
    <2>2. QED BY <2>1 DEF Change
  <1>2. ChangesPast'
    BY <1>1 DEF ProposalInv, ChangesPast, DecideAnew
  <1>3. QED BY <1>2 DEF ProposalInv, DecideAnew, ChangesChain

-----------------------------------------------------------------------------
LEMMA NextLeaseInv == LeaseInv /\ [LeaseNext \/ ProposalNext]_governanceVars => LeaseInv'
  <1> SUFFICES ASSUME LeaseInv, [LeaseNext \/ ProposalNext]_governanceVars PROVE LeaseInv'
    OBVIOUS
  <1>1. CASE LeaseNext
    <2>1. ASSUME NEW a \in Actors, NEW m \in {"exclusive", "collaborative"}, NEW t \in Terms,
                 NEW v \in 1..MaxLeaseVersion, JoinLease(a, m, t, v)
          PROVE  LeaseInv'
      BY <2>1, JoinLeaseInv
    <2>2. QED BY <1>1, <2>1, NewLeaseInv, HeartbeatInv, RequestHandoffInv, ForceOverrideInv, LeaseTickInv
              DEF LeaseNext
  <1>2. CASE ProposalNext
    <2>1. CASE UNCHANGED <<lease, granted, events, leaseClock>>
      BY <2>1 DEF LeaseInv, LeaseOK, Alone
    <2>2. QED BY <1>2, <2>1, NewLeaseInv, ForceOverrideInv, LeaseTickInv
              DEF ProposalNext, Propose, Approve, Apply, DecideAnew
  <1>3. CASE UNCHANGED governanceVars
    BY <1>3 DEF governanceVars, LeaseInv, LeaseOK, Alone
  <1>4. QED BY <1>1, <1>2, <1>3

LEMMA NextProposalInv == LeaseInv /\ ProposalInv /\ [LeaseNext \/ ProposalNext]_governanceVars => ProposalInv'
  <1> SUFFICES ASSUME LeaseInv, ProposalInv, [LeaseNext \/ ProposalNext]_governanceVars PROVE ProposalInv'
    OBVIOUS
  <1>1. CASE UNCHANGED <<decision, sourceRevision, proposals, approvals, applied>>
    BY <1>1 DEF ProposalInv, ChangesPast, ChangesChain
  <1>2. LeaseNext => UNCHANGED <<decision, sourceRevision, proposals, approvals, applied>>
    BY DEF LeaseNext, JoinLease, NewLease, Heartbeat, RequestHandoff, Release, ForceOverride, LeaseTick
  <1>3. QED BY <1>1, <1>2, ProposeInv, ApproveInv, ApplyInv, DecideAnewInv
            DEF ProposalNext, NewLease, ForceOverride, LeaseTick, governanceVars

\* The invariant of leases and proposals, whatever order their operations take.
THEOREM GovernanceInvariant == GovernanceSpec => [](LeaseInv /\ ProposalInv)
  <1>1. QED BY GovernanceInitInv, NextLeaseInv, NextProposalInv, PTL DEF GovernanceSpec

\* claim_item: whoever was granted an exclusive claim works alone for as long as the
\* lease lives, whatever joins, overrides and renewals follow.
THEOREM ExclusiveWorkAlone == GovernanceSpec => []ExclusiveAlone
  <1>1. LeaseInv => ExclusiveAlone
    BY DEF LeaseInv, Alone, ExclusiveAlone
  <1>2. QED BY <1>1, GovernanceInvariant, PTL

\* apply_approved_change: accepted changes form a chain without lost updates, and
\* nobody who proposed a change or held the lease approved it.
THEOREM AcceptedChangesChain == GovernanceSpec => []ChangesChain
  <1>1. ProposalInv => ChangesChain
    BY DEF ProposalInv
  <1>2. QED BY <1>1, GovernanceInvariant, PTL

\* force_override: a lease in force changes hands only with an event that names who
\* did it.
THEOREM LeaseNeverBrokenSilently == GovernanceSpec => NeverBrokenSilently
  <1> DEFINE Loud ==
        (lease.state = "active" /\ leaseClock < lease.expires /\ lease'.owner # lease.owner) =>
            /\ lease'.id = lease.id
            /\ Len(events') = Len(events) + 1
  <1>1. LeaseInv /\ [LeaseNext \/ ProposalNext]_governanceVars => [Loud]_governanceVars
    <2> SUFFICES ASSUME LeaseInv, LeaseNext \/ ProposalNext, LeaseLive, lease'.owner # lease.owner
                 PROVE  lease'.id = lease.id /\ Len(events') = Len(events) + 1
      BY DEF LeaseLive
    <2>1. ASSUME NEW a \in Actors, NEW m \in {"exclusive", "collaborative"}, NEW t \in Terms,
                 NEW v \in 1..MaxLeaseVersion, JoinLease(a, m, t, v)
          PROVE  FALSE
      BY <2>1, JoinLeaseInv
    <2>2. \E a, b \in Actors : ForceOverride(a, b)
      BY <2>1, HeartbeatInv, RequestHandoffInv
         DEF LeaseNext, ProposalNext, NewLease, LeaseTick, Propose, Approve, Apply, DecideAnew
    <2>3. QED BY <2>2, ForceOverrideInv
  <1>2. QED BY <1>1, GovernanceInvariant, PTL DEF GovernanceSpec, NeverBrokenSilently

-----------------------------------------------------------------------------
(* The audit ledger.  The external anchor names the last checksum written,  *)
(* and a checksum names its sequence number and the checksum before it: a   *)
(* segment that verifies has the length written, and from the last entry    *)
(* back to the first each is the one written.                               *)

EntryFields == {"id", "payload", "seq", "payloadHash", "previous", "checksum"}

\* An entry is a record of these fields.
IsEntry(e) ==
    e = [id |-> e.id, payload |-> e.payload, seq |-> e.seq, payloadHash |-> e.payloadHash,
         previous |-> e.previous, checksum |-> e.checksum]

\* A list of entries.
IsHistory(s) ==
    /\ Len(s) \in Nat /\ DOMAIN s = 1..Len(s)
    /\ s = [k \in 1..Len(s) |-> s[k]]
    /\ \E S : s \in Seq(S)
    /\ \A k \in 1..Len(s) : IsEntry(s[k])

\* The checksum before an entry.
Before(s, k) == IF k = 1 THEN Genesis ELSE s[k - 1].checksum

\* The checksum of the last entry.
LastOf(s) == IF Len(s) = 0 THEN Genesis ELSE s[Len(s)].checksum

\* Entries as append_event makes them.
WellWritten(s) ==
    \A k \in 1..Len(s) :
        /\ s[k].seq = k /\ s[k].payloadHash = Digest(s[k].payload)
        /\ s[k].previous = Before(s, k)
        /\ s[k].checksum = Checksum(Before(s, k), s[k].id, k, Digest(s[k].payload))

\* While the segment is open it is what was written; the anchor names the last
\* checksum written, and so does a deletion proof.
AuditInv ==
    /\ DOMAIN segment = {"entries", "closed", "final"}
    /\ IsHistory(written) /\ WellWritten(written) /\ IsHistory(segment.entries)
    /\ ~segment.closed => segment.entries = written /\ ~anchor.signed /\ ~proof.issued
    /\ segment.closed => written # << >>
    /\ segment.entries = written => segment.final = LastOf(written)
    /\ anchor.signed => anchor.checksum = LastOf(written)
    /\ proof.issued => proof.count = Len(written) /\ proof.checksum = LastOf(written)

-----------------------------------------------------------------------------
LEMMA SmallestNumber ==
    ASSUME NEW S \in SUBSET Nat, S # {}
    PROVE  \E x \in S : \A y \in S : x <= y
  <1> DEFINE R == {ss \in Nat \X Nat : ss[1] < ss[2]}
  <1>1. OpToRel(<, Nat) = R
    BY Zenon DEF OpToRel
  <1>2. IsWellFoundedOn(R, Nat)
    BY <1>1, NatLessThanWellFounded, Zenon
  <1>3. \E x \in S : \A y \in S : ~ (<<y, x>> \in R)
    <2> HIDE DEF R
    <2>1. QED BY <1>2, WFMin
  <1>4. PICK x \in S : \A y \in S : ~ (<<y, x>> \in R)
    BY <1>3
  <1>5. ASSUME NEW y \in S PROVE x <= y
    <2>1. <<y, x>> \in Nat \X Nat
      OBVIOUS
    <2>2. ~ (y < x)
      BY <1>4, <2>1
    <2>3. QED BY <2>2
  <1>6. QED BY <1>5

\* A chain of checksums for some entries up to the n-th.
IsChain(f, s, n) ==
    f = [k \in 0..n |-> IF k = 0 THEN Genesis
                        ELSE Checksum(f[k - 1], s[k].id, s[k].seq, PayloadHash(s[k]))]

\* Every list of entries has one.
LEMMA ChainExists ==
    ASSUME NEW s, NEW n \in Nat
    PROVE  \E f : IsChain(f, s, n)
  <1> DEFINE S == {m \in Nat : ~ \E f : IsChain(f, s, m)}
  <1> SUFFICES ASSUME S # {} PROVE FALSE
    OBVIOUS
  <1>1. S \in SUBSET Nat
    OBVIOUS
  <1>2. PICK m \in S : \A y \in S : m <= y
    <2> HIDE DEF S
    <2>1. QED BY <1>1, SmallestNumber
  <1>3. m \in Nat /\ ~ \E f : IsChain(f, s, m)
    OBVIOUS
  <1>4. m # 0
    <2> DEFINE f == [k \in 0..0 |-> Genesis]
    <2>1. \A k \in 0..0 : k = 0
      OBVIOUS
    <2>2. IsChain(f, s, 0)
      BY <2>1 DEF IsChain
    <2>3. QED BY <1>3, <2>2
  <1>5. m - 1 \in Nat /\ ~ (m <= m - 1)
    BY <1>3, <1>4
  <1>6. PICK f : IsChain(f, s, m - 1)
    BY <1>2, <1>5
  <1> DEFINE next == Checksum(f[m - 1], s[m].id, s[m].seq, PayloadHash(s[m]))
             g == [k \in 0..m |-> IF k = m THEN next ELSE f[k]]
  <1>7. ASSUME NEW k \in 0..m
        PROVE  g[k] = IF k = 0 THEN Genesis
                      ELSE Checksum(g[k - 1], s[k].id, s[k].seq, PayloadHash(s[k]))
    <2>1. CASE k = m
      <3>1. m - 1 \in 0..m /\ m - 1 # m
        BY <1>5
      <3>2. g[k] = next /\ g[k - 1] = f[m - 1]
        BY <2>1, <3>1
      <3>3. QED BY <1>4, <2>1, <3>2
    <2>2. CASE k # m
      <3>1. k \in 0..(m - 1) /\ (k # 0 => k - 1 \in 0..m /\ k - 1 # m)
        BY <1>3, <2>2
      <3>2. g[k] = f[k] /\ (k # 0 => g[k - 1] = f[k - 1])
        BY <2>2, <3>1
      <3>3. f[k] = IF k = 0 THEN Genesis
                   ELSE Checksum(f[k - 1], s[k].id, s[k].seq, PayloadHash(s[k]))
        BY <1>6, <3>1 DEF IsChain
      <3>4. QED BY <3>2, <3>3
    <2>3. QED BY <2>1, <2>2
  <1>8. IsChain(g, s, m)
    <2>1. g = [k \in 0..m |-> g[k]]
      OBVIOUS
    <2> HIDE DEF g
    <2>2. QED BY <1>7, <2>1 DEF IsChain
  <1>9. QED BY <1>3, <1>8

\* What verify_segment recomputes.
LEMMA RecomputedIs ==
    ASSUME NEW s, Len(s) \in Nat
    PROVE  /\ Recomputed(s)[0] = Genesis
           /\ \A k \in 1..Len(s) :
                 Recomputed(s)[k] = Checksum(Recomputed(s)[k - 1], s[k].id, s[k].seq, PayloadHash(s[k]))
  <1> DEFINE c == CHOOSE f : IsChain(f, s, Len(s))
  <1>1. Recomputed(s) = c
    BY Zenon DEF Recomputed, IsChain
  <1>2. IsChain(c, s, Len(s))
    BY ChainExists, Zenon
  <1> HIDE DEF c
  <1>3. c = [k \in 0..Len(s) |-> IF k = 0 THEN Genesis
                                 ELSE Checksum(c[k - 1], s[k].id, s[k].seq, PayloadHash(s[k]))]
    BY <1>2, Zenon DEF IsChain
  <1>4. 0 \in 0..Len(s) /\ \A k \in 1..Len(s) : k \in 0..Len(s) /\ k # 0
    OBVIOUS
  <1>5. c[0] = Genesis
    BY <1>3, <1>4
  <1>6. \A k \in 1..Len(s) : c[k] = Checksum(c[k - 1], s[k].id, s[k].seq, PayloadHash(s[k]))
    BY <1>3, <1>4
  <1>7. QED BY <1>1, <1>5, <1>6

-----------------------------------------------------------------------------
\* A checksum names what it was made of.
LEMMA ChecksumNames ==
    ASSUME NEW p, NEW i, NEW q, NEW h, NEW p2, NEW i2, NEW q2, NEW h2,
           Checksum(p, i, q, h) = Checksum(p2, i2, q2, h2)
    PROVE  p = p2 /\ i = i2 /\ q = q2 /\ h = h2
  BY DEF Checksum

LEMMA DigestNames ==
    ASSUME NEW p, NEW q, Digest(p) = Digest(q) PROVE p = q
  BY DEF Digest

LEMMA ChecksumNotGenesis ==
    ASSUME NEW p, NEW i, NEW q, NEW h PROVE Checksum(p, i, q, h) # Genesis
  BY DEF Checksum, Genesis

\* Any list of entries whatever that verifies, and ends in the checksum the
\* written history ends in, is that history.
LEMMA VerifiedHistory ==
    ASSUME NEW s, NEW w, IsHistory(s), IsHistory(w), WellWritten(w), w # << >>,
           \A k \in DOMAIN s : EntryIntact(s, k),
           Recomputed(s)[Len(s)] = LastOf(w)
    PROVE  s = w
  <1> DEFINE n == Len(s)
             m == Len(w)
             c == Recomputed(s)
  <1>1. n \in Nat /\ m \in Nat /\ m > 0 /\ DOMAIN s = 1..n
    BY DEF IsHistory
  <1>2. /\ c[0] = Genesis
        /\ \A k \in 1..n : c[k] = Checksum(c[k - 1], s[k].id, s[k].seq, PayloadHash(s[k]))
    BY <1>1, RecomputedIs
  <1>3. /\ \A k \in 1..n : /\ s[k].seq = k /\ s[k].previous = c[k - 1]
                           /\ s[k].payloadHash = Digest(s[k].payload) /\ s[k].checksum = c[k]
    BY <1>1 DEF EntryIntact, PayloadHash
  <1>4. c[n] = w[m].checksum
    BY <1>1 DEF LastOf
  <1> HIDE DEF c
  <1>5. \A k \in 1..m : w[k].checksum = Checksum(Before(w, k), w[k].id, k, Digest(w[k].payload))
    BY DEF WellWritten
  <1>6. n # 0
    <2>1. m \in 1..m
      BY <1>1
    <2>2. w[m].checksum # Genesis
      BY <1>5, <2>1, ChecksumNotGenesis
    <2>3. QED BY <1>2, <1>4, <2>2
  <1>7. n = m
    <2>1. n \in 1..n /\ m \in 1..m
      BY <1>1, <1>6
    <2>2. c[n] = Checksum(c[n - 1], s[n].id, n, PayloadHash(s[n]))
      BY <1>2, <1>3, <2>1
    <2>3. w[m].checksum = Checksum(Before(w, m), w[m].id, m, Digest(w[m].payload))
      BY <1>5, <2>1
    <2>4. Checksum(c[n - 1], s[n].id, n, PayloadHash(s[n])) = Checksum(Before(w, m), w[m].id, m, Digest(w[m].payload))
      BY <1>4, <2>2, <2>3
    <2> HIDE DEF n, m
    <2>5. QED BY <2>4 DEF Checksum
  <1>8. ASSUME NEW k \in 1..n, c[k] = w[k].checksum
        PROVE  /\ c[k - 1] = Before(w, k) /\ s[k].id = w[k].id
               /\ Digest(s[k].payload) = Digest(w[k].payload)
    <2>1. c[k] = Checksum(c[k - 1], s[k].id, k, Digest(s[k].payload))
      BY <1>2, <1>3 DEF PayloadHash
    <2>2. w[k].checksum = Checksum(Before(w, k), w[k].id, k, Digest(w[k].payload))
      BY <1>5, <1>7
    <2>3. Checksum(c[k - 1], s[k].id, k, Digest(s[k].payload)) = Checksum(Before(w, k), w[k].id, k, Digest(w[k].payload))
      BY <1>8, <2>1, <2>2
    <2>4. QED BY <2>3 DEF Checksum
  <1>9. \A k \in 1..n : c[k] = w[k].checksum
    <2> DEFINE S == {j \in Nat : j < n /\ c[n - j] # w[n - j].checksum}
    <2> SUFFICES ASSUME S # {} PROVE FALSE
      <3>1. ASSUME S = {}, NEW k \in 1..n PROVE c[k] = w[k].checksum
        <4>1. n - k \in Nat /\ n - k < n /\ n - (n - k) = k
          BY <1>1
        <4>2. QED BY <3>1, <4>1
      <3>2. QED BY <3>1
    <2>1. S \in SUBSET Nat
      OBVIOUS
    <2>2. PICK j \in S : \A y \in S : j <= y
      <3> HIDE DEF S
      <3>1. QED BY <2>1, SmallestNumber
    <2>3. j \in Nat /\ j < n /\ c[n - j] # w[n - j].checksum
      OBVIOUS
    <2>4. j # 0
      <3>1. n - 0 = n
        BY <1>1
      <3>2. QED BY <1>4, <1>7, <2>3, <3>1
    <2>5. j - 1 \in Nat /\ j - 1 < n /\ ~ (j <= j - 1)
      BY <1>1, <2>3, <2>4
    <2>6. c[n - (j - 1)] = w[n - (j - 1)].checksum
      BY <2>2, <2>5
    <2> DEFINE k == n - (j - 1)
    <2>7. k \in 1..n /\ k # 1 /\ k - 1 = n - j
      BY <1>1, <2>3, <2>5
    <2> HIDE DEF k
    <2>8. c[k - 1] = Before(w, k)
      BY <1>8, <2>6, <2>7 DEF k
    <2>9. Before(w, k) = w[k - 1].checksum
      BY <2>7 DEF Before
    <2>10. QED BY <2>3, <2>7, <2>8, <2>9
  <1>10. ASSUME NEW k \in 1..n PROVE s[k] = w[k]
    <2>1. /\ c[k - 1] = Before(w, k) /\ s[k].id = w[k].id
          /\ Digest(s[k].payload) = Digest(w[k].payload)
      BY <1>8, <1>9
    <2>2. s[k].payload = w[k].payload
      BY <2>1, DigestNames
    <2>3. /\ s[k].seq = w[k].seq /\ s[k].payloadHash = w[k].payloadHash
          /\ s[k].previous = w[k].previous /\ s[k].checksum = w[k].checksum
      BY <1>3, <1>7, <1>9, <2>1 DEF WellWritten
    <2>4. IsEntry(s[k]) /\ IsEntry(w[k])
      BY <1>7 DEF IsHistory
    <2>5. QED BY <2>1, <2>2, <2>3, <2>4 DEF IsEntry
  <1>11. s = [k \in 1..n |-> s[k]] /\ w = [k \in 1..n |-> w[k]]
    BY <1>7 DEF IsHistory
  <1>12. QED BY <1>10, <1>11

-----------------------------------------------------------------------------
LEMMA EntryIs ==
    ASSUME NEW id, NEW payload, NEW seq, NEW previous
    PROVE  LET e == Entry(id, payload, seq, previous) IN
           /\ IsEntry(e) /\ e.id = id /\ e.payload = payload /\ e.seq = seq
           /\ e.payloadHash = Digest(payload) /\ e.previous = previous
           /\ e.checksum = Checksum(previous, id, seq, Digest(payload))
  BY DEF Entry, IsEntry

\* A function on the first numbers is a sequence.
LEMMA HistoryFrom ==
    ASSUME NEW s, NEW n \in Nat, s = [k \in 1..n |-> s[k]], \A k \in 1..n : IsEntry(s[k])
    PROVE  IsHistory(s) /\ Len(s) = n
  <1> DEFINE S == {s[k] : k \in 1..n}
  <1>1. s \in [1..n -> S]
    OBVIOUS
  <1>2. s \in Seq(S) /\ Len(s) = n
    BY <1>1
  <1>3. DOMAIN s = 1..n
    BY <1>1
  <1> HIDE DEF S
  <1>4. QED BY <1>2, <1>3 DEF IsHistory

LEMMA HistoryAppends ==
    ASSUME NEW s, IsHistory(s), NEW e, IsEntry(e)
    PROVE  /\ IsHistory(Append(s, e)) /\ Len(Append(s, e)) = Len(s) + 1
           /\ Append(s, e)[Len(s) + 1] = e
           /\ \A k \in 1..Len(s) : Append(s, e)[k] = s[k]
  <1>1. PICK S : s \in Seq(S)
    BY DEF IsHistory
  <1> DEFINE T == S \cup {e}
             a == Append(s, e)
  <1>2. s \in Seq(T) /\ e \in T
    BY <1>1
  <1> HIDE DEF T, a
  <1>3. /\ a \in Seq(T) /\ Len(a) = Len(s) + 1 /\ a[Len(s) + 1] = e
        /\ \A k \in 1..Len(s) : a[k] = s[k]
    BY <1>2, AppendProperties DEF a
  <1>4. Len(s) \in Nat /\ DOMAIN a = 1..Len(a) /\ a = [k \in 1..Len(a) |-> a[k]]
    BY <1>1, <1>3
  <1>5. \A k \in 1..Len(a) : IsEntry(a[k])
    <2>1. \A k \in 1..(Len(s) + 1) : k \in 1..Len(s) \/ k = Len(s) + 1
      BY <1>4
    <2>2. \A k \in 1..Len(s) : IsEntry(s[k])
      BY DEF IsHistory
    <2>3. QED BY <1>3, <2>1, <2>2
  <1>6. IsHistory(a)
    BY <1>3, <1>4, <1>5 DEF IsHistory
  <1>7. QED BY <1>3, <1>6 DEF a

LEMMA AppendEventInv ==
    ASSUME AuditInv, NEW id, NEW payload, AppendEvent(id, payload)
    PROVE  AuditInv'
  <1> DEFINE n == Len(written)
             e == Entry(id, payload, n + 1, LastOf(written))
  <1>1. /\ ~segment.closed /\ segment.entries = written /\ segment.final = LastOf(written)
        /\ ~anchor.signed /\ ~proof.issued /\ n \in Nat
        /\ IsHistory(written) /\ WellWritten(written)
    BY DEF AppendEvent, AuditInv, IsHistory
  <1>2. /\ segment' = [segment EXCEPT !.entries = Append(segment.entries, e), !.final = e.checksum]
        /\ written' = Append(written, e) /\ UNCHANGED <<anchor, proof>>
    BY <1>1 DEF AppendEvent
  <1>3. /\ DOMAIN segment' = {"entries", "closed", "final"} /\ segment'.closed = segment.closed
        /\ segment'.entries = Append(segment.entries, e) /\ segment'.final = e.checksum
    BY <1>2 DEF AuditInv
  <1>4. /\ IsEntry(e) /\ e.id = id /\ e.payload = payload /\ e.seq = n + 1
        /\ e.payloadHash = Digest(payload) /\ e.previous = LastOf(written)
        /\ e.checksum = Checksum(LastOf(written), id, n + 1, Digest(payload))
    BY EntryIs
  <1> HIDE DEF e
  <1>5. /\ IsHistory(written') /\ Len(written') = n + 1 /\ written'[n + 1] = e
        /\ \A k \in 1..n : written'[k] = written[k]
    BY <1>1, <1>2, <1>4, HistoryAppends
  <1>6. WellWritten(written')
    <2> SUFFICES ASSUME NEW k \in 1..(n + 1)
                 PROVE  /\ written'[k].seq = k /\ written'[k].payloadHash = Digest(written'[k].payload)
                        /\ written'[k].previous = Before(written', k)
                        /\ written'[k].checksum =
                              Checksum(Before(written', k), written'[k].id, k, Digest(written'[k].payload))
      BY <1>5 DEF WellWritten
    <2>1. CASE k = n + 1
      <3>1. Before(written', k) = LastOf(written)
        <4>1. CASE n = 0
          BY <2>1, <4>1 DEF Before, LastOf
        <4>2. CASE n # 0
          <5>1. k # 1 /\ k - 1 = n /\ n \in 1..n
            BY <1>1, <2>1, <4>2
          <5>2. QED BY <1>5, <4>2, <5>1 DEF Before, LastOf
        <4>3. QED BY <4>1, <4>2
      <3>2. written'[k] = e
        BY <1>5, <2>1
      <3>3. QED BY <1>4, <2>1, <3>1, <3>2
    <2>2. CASE k # n + 1
      <3>1. k \in 1..n /\ (k # 1 => k - 1 \in 1..n)
        BY <1>1, <2>2
      <3>2. Before(written', k) = Before(written, k) /\ written'[k] = written[k]
        BY <1>5, <3>1 DEF Before
      <3>3. QED BY <1>1, <3>1, <3>2 DEF WellWritten
    <2>3. QED BY <2>1, <2>2
  <1>7. LastOf(written') = e.checksum
    <2>1. Len(written') # 0
      BY <1>1, <1>5
    <2>2. QED BY <1>5, <2>1 DEF LastOf
  <1>8. segment'.entries = written' /\ ~segment'.closed /\ ~anchor'.signed /\ ~proof'.issued
    BY <1>1, <1>2, <1>3
  <1>9. QED BY <1>3, <1>5, <1>6, <1>7, <1>8 DEF AuditInv

LEMMA CloseSegmentInv ==
    ASSUME AuditInv, CloseSegment PROVE AuditInv'
  <1>1. /\ segment' = [segment EXCEPT !.closed = TRUE] /\ UNCHANGED <<anchor, written, proof>>
        /\ segment.entries # << >>
    BY DEF CloseSegment
  <1>2. /\ DOMAIN segment' = {"entries", "closed", "final"} /\ segment'.closed
        /\ segment'.entries = segment.entries /\ segment'.final = segment.final
    BY <1>1 DEF AuditInv
  <1>3. written # << >>
    BY <1>1 DEF AuditInv
  <1>4. QED BY <1>1, <1>2, <1>3 DEF AuditInv

LEMMA SignAnchorInv ==
    ASSUME AuditInv, SignAnchor PROVE AuditInv'
  <1>1. /\ anchor' = [signed |-> TRUE, checksum |-> segment.final] /\ UNCHANGED <<segment, written, proof>>
        /\ segment.closed /\ segment.entries = written
    BY DEF SignAnchor
  <1>2. anchor'.checksum = LastOf(written)
    BY <1>1 DEF AuditInv
  <1>3. QED BY <1>1, <1>2 DEF AuditInv

\* A segment that verifies is what was written.
LEMMA VerifiedIsHistory ==
    ASSUME AuditInv, Verified
    PROVE  segment.entries = written /\ segment.final = LastOf(written) /\ segment.closed /\ written # << >>
  <1>1. anchor.signed /\ anchor.checksum = segment.final
    BY DEF Verified, AnchorVerifies
  <1>2. segment.closed /\ written # << >> /\ segment.final = LastOf(written)
    BY <1>1 DEF AuditInv
  <1>3. Recomputed(segment.entries)[Len(segment.entries)] = LastOf(written)
    BY <1>2 DEF Verified
  <1>4. IsHistory(segment.entries) /\ IsHistory(written) /\ WellWritten(written)
    BY DEF AuditInv
  <1>5. \A k \in DOMAIN segment.entries : EntryIntact(segment.entries, k)
    BY DEF Verified
  <1>6. QED BY <1>2, <1>3, <1>4, <1>5, VerifiedHistory

LEMMA PurgeInv ==
    ASSUME AuditInv, Purge PROVE AuditInv'
  <1>1. /\ proof' = [issued |-> TRUE, checksum |-> segment.final, count |-> Len(segment.entries)]
        /\ UNCHANGED <<segment, anchor, written>> /\ segment.closed /\ Verified
    BY DEF Purge
  <1>2. proof'.count = Len(written) /\ proof'.checksum = LastOf(written)
    BY <1>1, VerifiedIsHistory
  <1>3. QED BY <1>1, <1>2 DEF AuditInv

\* A history with a payload altered, an entry lost or two exchanged is one.
LEMMA PayloadAltered ==
    ASSUME NEW w, IsHistory(w), NEW k \in DOMAIN w, NEW p
    PROVE  IsHistory([w EXCEPT ![k].payload = p])
  <1> DEFINE n == Len(w)
             s == [w EXCEPT ![k].payload = p]
  <1>1. n \in Nat /\ DOMAIN w = 1..n /\ \A j \in 1..n : IsEntry(w[j])
    BY DEF IsHistory
  <1>2. /\ s = [j \in 1..n |-> s[j]] /\ s[k] = [w[k] EXCEPT !.payload = p]
        /\ \A j \in 1..n : j # k => s[j] = w[j]
    BY <1>1
  <1>3. IsEntry(w[k])
    BY <1>1
  <1>4. IsEntry([w[k] EXCEPT !.payload = p])
    <2> DEFINE e == w[k]
    <2>1. e = [id |-> e.id, payload |-> e.payload, seq |-> e.seq, payloadHash |-> e.payloadHash,
               previous |-> e.previous, checksum |-> e.checksum]
      BY <1>3 DEF IsEntry
    <2> HIDE DEF e
    <2>2. IsEntry([e EXCEPT !.payload = p])
      BY <2>1 DEF IsEntry
    <2>3. QED BY <2>2 DEF e
  <1> HIDE DEF s, n
  <1>5. \A j \in 1..n : IsEntry(s[j])
    <2> TAKE j \in 1..n
    <2>1. CASE j = k
      BY <1>2, <1>4, <2>1
    <2>2. CASE j # k
      BY <1>1, <1>2, <2>2
    <2>3. QED BY <2>1, <2>2
  <1>6. IsHistory(s)
    BY <1>1, <1>2, <1>5, HistoryFrom
  <1>7. QED BY <1>6 DEF s

LEMMA EntryLost ==
    ASSUME NEW w, IsHistory(w), NEW k \in DOMAIN w
    PROVE  IsHistory(Without(w, k))
  <1> DEFINE n == Len(w)
             s == Without(w, k)
  <1>1. n \in Nat /\ DOMAIN w = 1..n /\ k \in 1..n /\ \A j \in 1..n : IsEntry(w[j])
    BY DEF IsHistory
  <1>2. s = [j \in 1..(n - 1) |-> IF j < k THEN w[j] ELSE w[j + 1]]
    BY DEF Without
  <1>3. n - 1 \in Nat /\ \A j \in 1..(n - 1) : j \in 1..n /\ j + 1 \in 1..n
    BY <1>1
  <1> HIDE DEF s, n
  <1>4. s = [j \in 1..(n - 1) |-> s[j]] /\ \A j \in 1..(n - 1) : s[j] \in {w[j], w[j + 1]}
    BY <1>2
  <1>5. \A j \in 1..(n - 1) : IsEntry(s[j])
    BY <1>1, <1>3, <1>4
  <1>6. IsHistory(s)
    BY <1>3, <1>4, <1>5, HistoryFrom
  <1>7. QED BY <1>6 DEF s

LEMMA EntriesExchanged ==
    ASSUME NEW w, IsHistory(w), NEW k \in DOMAIN w
    PROVE  IsHistory([w EXCEPT ![k] = w[1], ![1] = w[k]])
  <1> DEFINE n == Len(w)
             s == [w EXCEPT ![k] = w[1], ![1] = w[k]]
  <1>1. n \in Nat /\ DOMAIN w = 1..n /\ k \in 1..n /\ \A j \in 1..n : IsEntry(w[j])
    BY DEF IsHistory
  <1>2. s = [j \in 1..n |-> s[j]] /\ \A j \in 1..n : s[j] \in {w[j], w[1], w[k]}
    BY <1>1
  <1>3. 1 \in 1..n
    BY <1>1
  <1> HIDE DEF s, n
  <1>4. \A j \in 1..n : IsEntry(s[j])
    BY <1>1, <1>2, <1>3
  <1>5. IsHistory(s)
    BY <1>1, <1>2, <1>4, HistoryFrom
  <1>6. QED BY <1>5 DEF s

LEMMA AlteredIs ==
    ASSUME NEW w, IsHistory(w), NEW s \in Altered(w)
    PROVE  IsHistory(s)
  <1>1. CASE s \in {[w EXCEPT ![k].payload = p] : k \in DOMAIN w, p \in Payloads}
    <2>1. PICK k \in DOMAIN w, p \in Payloads : s = [w EXCEPT ![k].payload = p]
      BY <1>1
    <2>2. QED BY <2>1, PayloadAltered, Zenon
  <1>2. CASE s \in {Without(w, k) : k \in DOMAIN w}
    <2>1. PICK k \in DOMAIN w : s = Without(w, k)
      BY <1>2, Zenon
    <2>2. QED BY <2>1, EntryLost, Zenon
  <1>3. CASE s \in {[w EXCEPT ![k] = w[1], ![1] = w[k]] : k \in DOMAIN w}
    <2>1. PICK k \in DOMAIN w : s = [w EXCEPT ![k] = w[1], ![1] = w[k]]
      BY <1>3, Zenon
    <2>2. QED BY <2>1, EntriesExchanged, Zenon
  <1>4. QED BY <1>1, <1>2, <1>3 DEF Altered

\* A rebuilt chain is a history of the same length.
LEMMA RebuiltIs ==
    ASSUME NEW s, IsHistory(s)
    PROVE  IsHistory(Rebuilt(s)) /\ Len(Rebuilt(s)) = Len(s)
  <1> DEFINE r == Rebuilt(s)
             chain == Recomputed([k \in DOMAIN s |-> [s[k] EXCEPT !.seq = k]])
             m == Len(s)
  <1>1. m \in Nat /\ DOMAIN s = 1..m
    BY DEF IsHistory
  <1>2. r = [k \in 1..m |-> Entry(s[k].id, s[k].payload, k, chain[k - 1])]
    BY <1>1 DEF Rebuilt
  <1> HIDE DEF chain, r
  <1>3. r = [k \in 1..m |-> r[k]] /\ \A k \in 1..m : IsEntry(r[k])
    BY <1>2, EntryIs
  <1>4. IsHistory(r) /\ Len(r) = m
    BY <1>1, <1>3, HistoryFrom
  <1>5. QED BY <1>4 DEF r

LEMMA DamageInv ==
    ASSUME AuditInv, Damage PROVE AuditInv'
  <1>1. /\ segment.closed /\ segment.entries = written /\ UNCHANGED <<anchor, written, proof>>
        /\ \E entries \in Altered(segment.entries) :
              \/ segment' = [segment EXCEPT !.entries = entries]
              \/ /\ entries # << >>
                 /\ segment' = [segment EXCEPT !.entries = Rebuilt(entries),
                                               !.final = Rebuilt(entries)[Len(entries)].checksum]
    BY Zenon DEF Damage
  <1>2. PICK s \in Altered(segment.entries) :
            \/ segment' = [segment EXCEPT !.entries = s]
            \/ /\ s # << >>
               /\ segment' = [segment EXCEPT !.entries = Rebuilt(s), !.final = Rebuilt(s)[Len(s)].checksum]
    BY <1>1, Zenon
  <1>3. IsHistory(s)
    BY AlteredIs DEF AuditInv
  <1>4. DOMAIN segment = {"entries", "closed", "final"} /\ segment.final = LastOf(written)
    BY <1>1 DEF AuditInv
  <1>5. /\ DOMAIN segment' = {"entries", "closed", "final"} /\ segment'.closed = segment.closed
        /\ IsHistory(segment'.entries)
        /\ segment'.entries = written => segment'.final = LastOf(written)
    <2>1. CASE segment' = [segment EXCEPT !.entries = s]
      BY <1>3, <1>4, <2>1
    <2>2. CASE s # << >> /\ segment' = [segment EXCEPT !.entries = Rebuilt(s), !.final = Rebuilt(s)[Len(s)].checksum]
      <3> DEFINE r == Rebuilt(s)
      <3>1. IsHistory(r) /\ Len(r) = Len(s)
        BY <1>3, RebuiltIs
      <3>2. Len(s) # 0
        BY <1>3, <2>2 DEF IsHistory
      <3>3. segment' = [segment EXCEPT !.entries = r, !.final = r[Len(s)].checksum]
        BY <2>2
      <3> HIDE DEF r
      <3>4. /\ DOMAIN segment' = {"entries", "closed", "final"} /\ segment'.closed = segment.closed
            /\ segment'.entries = r /\ segment'.final = r[Len(s)].checksum
        BY <1>4, <3>3
      <3>5. QED BY <3>1, <3>2, <3>4 DEF LastOf
    <2>3. QED BY <1>2, <2>1, <2>2
  <1>6. QED BY <1>1, <1>5 DEF AuditInv

LEMMA AuditInitInv == AuditInit => AuditInv
  <1> SUFFICES ASSUME AuditInit PROVE AuditInv
    OBVIOUS
  <1>1. /\ DOMAIN segment = {"entries", "closed", "final"} /\ segment.entries = << >> /\ ~segment.closed
        /\ segment.final = Genesis /\ written = << >> /\ ~anchor.signed /\ ~proof.issued
    BY DEF AuditInit, NoAnchor, NoProof
  <1>2. Len(written) = 0 /\ DOMAIN written = 1..0 /\ written \in Seq({}) /\ written = [k \in 1..0 |-> written[k]]
    BY <1>1
  <1>3. IsHistory(written) /\ WellWritten(written) /\ LastOf(written) = Genesis
    BY <1>2 DEF IsHistory, WellWritten, LastOf
  <1>4. QED BY <1>1, <1>3 DEF AuditInv

LEMMA NextAuditInv ==
    ASSUME AuditInv, [AuditNext]_auditVars PROVE AuditInv'
  <1>1. CASE AuditNext
    BY <1>1, AppendEventInv, CloseSegmentInv, SignAnchorInv, PurgeInv, DamageInv DEF AuditNext
  <1>2. CASE UNCHANGED auditVars
    BY <1>2 DEF auditVars, AuditInv
  <1>3. QED BY <1>1, <1>2

\* With any payloads and any number of entries, a segment that verifies against its
\* anchor is, entry for entry, the one that was written, whatever the store did to
\* it; a deletion proof is about the whole history (platform/audit.py).
THEOREM LedgerIsTrue == AuditSpec => []VerifiedIsWritten
  <1>1. ASSUME AuditInv PROVE VerifiedIsWritten
    <2>1. Verified => segment.entries = written
      BY <1>1, VerifiedIsHistory
    <2>2. ASSUME proof.issued
          PROVE  proof.count = Len(written) /\ proof.checksum = written[Len(written)].checksum
      <3>1. segment.closed /\ written # << >> /\ IsHistory(written)
        BY <1>1, <2>2 DEF AuditInv
      <3>2. Len(written) # 0
        BY <3>1 DEF IsHistory
      <3>3. QED BY <1>1, <2>2, <3>2 DEF AuditInv, LastOf
    <2>3. QED BY <2>1, <2>2 DEF VerifiedIsWritten
  <1>2. QED BY <1>1, AuditInitInv, NextAuditInv, PTL DEF AuditSpec

-----------------------------------------------------------------------------
(* Access.                                                                 *)

\* Every user has a session record with an end.
SessionsInv ==
    /\ DOMAIN session = Users /\ DOMAIN roleRevision = Users
    /\ \A u \in Users : /\ DOMAIN session[u] = {"live", "expires", "revoked", "revision"}
                        /\ session[u].expires \in Nat

\* Who was granted or denied what, on paths of the tree.
RulesInv ==
    /\ \A g \in grants : g.scope \in Scopes
    /\ \A d \in denies : d.scope \in Scopes

\* Invocations are numbered in the order they are made.
Numbered(i) == i.n \in Nat /\ i.n < Cardinality(invocations) /\ i.at \in Nat /\ i.at <= hours

InvocationsInv ==
    /\ hours \in Nat /\ IsFiniteSet(invocations)
    /\ \A i \in invocations : Numbered(i)
    /\ \A i, j \in invocations : i.n < j.n => i.at <= j.at
    /\ BreakGlassLimited

\* The start: no grants, sessions or invocations.
LEMMA AccessInitInv == AccessInit => SessionsInv /\ RulesInv /\ InvocationsInv
  <1> SUFFICES ASSUME AccessInit PROVE SessionsInv /\ RulesInv /\ InvocationsInv
    OBVIOUS
  <1>1. SessionsInv
    BY DEF AccessInit, SessionsInv, NoSession
  <1>2. RulesInv
    BY DEF AccessInit, RulesInv
  <1>3. InvocationsInv
    BY FS_EmptySet, AccessAssumption DEF AccessInit, InvocationsInv, BreakGlassLimited
  <1>4. QED BY <1>1, <1>2, <1>3

-----------------------------------------------------------------------------
(* Sessions and rules. *)

LEMMA LoginInv ==
    ASSUME SessionsInv, hours \in Nat, NEW u \in Users, Login(u)
    PROVE  SessionsInv'
  <1> DEFINE s == [live |-> TRUE, expires |-> hours + SessionTerm, revoked |-> FALSE,
                   revision |-> roleRevision[u]]
  <1>1. DOMAIN s = {"live", "expires", "revoked", "revision"} /\ s.expires \in Nat
    BY AccessAssumption
  <1>2. session' = [session EXCEPT ![u] = s] /\ roleRevision' = roleRevision
    BY DEF Login
  <1> HIDE DEF s
  <1>3. QED BY <1>1, <1>2 DEF SessionsInv

LEMMA RevokeInv == ASSUME SessionsInv, NEW u \in Users, Revoke(u) PROVE SessionsInv'
  <1>1. /\ session' = [session EXCEPT ![u].revoked = TRUE]
        /\ UNCHANGED roleRevision
    BY DEF Revoke
  <1>2. QED BY <1>1 DEF SessionsInv

LEMMA GrantRoleInv ==
    ASSUME SessionsInv, RulesInv, NEW u \in Users, NEW r \in GrantableRoles, NEW s \in Scopes,
           GrantRole(u, r, s)
    PROVE  SessionsInv' /\ RulesInv'
  BY DEF SessionsInv, RulesInv, GrantRole

LEMMA StoreIdentityInv ==
    ASSUME SessionsInv, RulesInv, NEW u \in Users, NEW n, StoreIdentity(u, n)
    PROVE  SessionsInv' /\ RulesInv'
  BY DEF SessionsInv, RulesInv, StoreIdentity

LEMMA AddDenyInv ==
    ASSUME SessionsInv, RulesInv, NEW u \in Users, NEW o \in Operations, NEW s \in Scopes,
           AddDeny(u, o, s)
    PROVE  SessionsInv' /\ RulesInv'
  BY DEF SessionsInv, RulesInv, AddDeny

LEMMA NextAccessInv ==
    /\ SessionsInv /\ RulesInv /\ hours \in Nat /\ [AccessNext \/ EmergencyNext]_accessVars
    => SessionsInv' /\ RulesInv'
  <1> SUFFICES ASSUME SessionsInv, RulesInv, hours \in Nat, [AccessNext \/ EmergencyNext]_accessVars
               PROVE  SessionsInv' /\ RulesInv'
    OBVIOUS
  <1>1. CASE UNCHANGED <<grants, denies, roleRevision, session>>
    BY <1>1 DEF SessionsInv, RulesInv
  <1>2. ASSUME NEW u \in Users, Login(u) PROVE SessionsInv' /\ RulesInv'
    BY <1>2, LoginInv DEF RulesInv, Login
  <1>3. ASSUME NEW u \in Users, Revoke(u) PROVE SessionsInv' /\ RulesInv'
    BY <1>3, RevokeInv DEF RulesInv, Revoke
  <1>4. QED BY <1>1, <1>2, <1>3, GrantRoleInv, StoreIdentityInv, AddDenyInv
            DEF AccessNext, EmergencyNext, BreakGlass, AccessTick, accessVars

-----------------------------------------------------------------------------
(* Emergency access. *)

\* With two recent invocations of one user the set is not smaller than two.
LEMMA TwoRecent ==
    ASSUME NEW S, IsFiniteSet(S), NEW i \in S, NEW j \in S, i # j
    PROVE  Cardinality(S) >= 2
  <1>1. IsFiniteSet({i}) /\ Cardinality({i}) = 1
    BY FS_Singleton
  <1>2. IsFiniteSet({i, j}) /\ Cardinality({i, j}) = 2
    <2>1. {i, j} = {i} \cup {j} /\ j \notin {i}
      OBVIOUS
    <2>2. QED BY <1>1, <2>1, FS_AddElement
  <1>3. Cardinality({i, j}) <= Cardinality(S)
    BY FS_Subset
  <1>4. Cardinality(S) \in Nat
    BY FS_CardinalityType
  <1>5. QED BY <1>2, <1>3, <1>4

LEMMA BreakGlassInv == ASSUME InvocationsInv, NEW u \in Users, BreakGlass(u) PROVE InvocationsInv'
  <1> DEFINE n == Cardinality(invocations)
             k == [user |-> u, at |-> hours, n |-> n]
  <1>1. n \in Nat /\ hours \in Nat /\ Day \in Nat /\ IsFiniteSet(invocations)
    BY FS_CardinalityType, AccessAssumption DEF InvocationsInv
  <1>2. \A i \in invocations : i.n < n /\ i.at <= hours /\ i.n \in Nat /\ i.at \in Nat
    BY DEF InvocationsInv, Numbered
  <1>3. k.user = u /\ k.at = hours /\ k.n = n /\ invocations' = invocations \cup {k} /\ hours' = hours
    BY DEF BreakGlass
  <1>4. k \notin invocations
    BY <1>1, <1>2, <1>3
  <1> HIDE DEF n, k
  <1>5. IsFiniteSet(invocations') /\ Cardinality(invocations') = n + 1
    BY <1>1, <1>3, <1>4, FS_AddElement DEF n
  <1>6. \A i \in invocations' : Numbered(i)'
    BY <1>1, <1>2, <1>3, <1>5 DEF Numbered
  <1>7. \A i, j \in invocations' : i.n < j.n => i.at <= j.at
    <2> SUFFICES ASSUME NEW i \in invocations', NEW j \in invocations', i.n < j.n PROVE i.at <= j.at
      OBVIOUS
    <2>1. CASE i \in invocations /\ j \in invocations
      BY <2>1 DEF InvocationsInv
    <2>2. CASE i = k
      BY <1>1, <1>2, <1>3, <2>2
    <2>3. CASE i \in invocations /\ j = k
      BY <1>2, <1>3, <2>3
    <2>4. QED BY <1>3, <2>1, <2>2, <2>3
  <1>8. BreakGlassLimited'
    <2> SUFFICES ASSUME NEW i \in invocations', NEW j \in invocations', NEW l \in invocations',
                        i.user = j.user, j.user = l.user, i.n < j.n, j.n < l.n
                 PROVE  l.at > i.at + Day
      BY DEF BreakGlassLimited
    <2>1. i \in invocations /\ j \in invocations
      <3>1. l.n <= n
        BY <1>1, <1>2, <1>3
      <3>2. j # k /\ i # k
        BY <1>1, <1>2, <1>3, <3>1
      <3>3. QED BY <1>3, <3>2
    <2>2. CASE l \in invocations
      BY <2>1, <2>2 DEF InvocationsInv, BreakGlassLimited
    <2>3. CASE l = k
      <3>1. i.at <= j.at /\ i.user = u /\ j.user = u /\ i # j
        BY <1>2, <1>3, <2>1, <2>3 DEF InvocationsInv
      <3>2. SUFFICES ASSUME i.at >= hours - Day PROVE FALSE
        BY <1>1, <1>2, <1>3, <2>1, <2>3
      <3>3. i \in Recent(u) /\ j \in Recent(u)
        BY <1>1, <1>2, <2>1, <3>1, <3>2 DEF Recent
      <3>4. IsFiniteSet(Recent(u)) /\ Cardinality(Recent(u)) \in Nat
        <4>1. Recent(u) \subseteq invocations
          BY DEF Recent
        <4>2. IsFiniteSet(Recent(u))
          BY <1>1, <4>1, FS_Subset
        <4>3. QED BY <4>2, FS_CardinalityType
      <3>5. Cardinality(Recent(u)) >= 2
        BY <3>1, <3>3, <3>4, TwoRecent
      <3>6. Cardinality(Recent(u)) < 2
        BY DEF BreakGlass
      <3>7. QED BY <3>4, <3>5, <3>6
    <2>4. QED BY <1>3, <2>2, <2>3
  <1>9. QED BY <1>1, <1>3, <1>5, <1>6, <1>7, <1>8 DEF InvocationsInv

LEMMA AccessTickInv == InvocationsInv /\ AccessTick => InvocationsInv'
  <1> SUFFICES ASSUME InvocationsInv, AccessTick PROVE InvocationsInv'
    OBVIOUS
  <1>1. hours' = hours + 1 /\ hours \in Nat /\ invocations' = invocations
    BY DEF AccessTick, InvocationsInv
  <1>2. \A i \in invocations : Numbered(i)'
    BY <1>1 DEF InvocationsInv, Numbered
  <1>3. QED BY <1>1, <1>2 DEF InvocationsInv, BreakGlassLimited

LEMMA NextInvocationsInv ==
    InvocationsInv /\ [AccessNext \/ EmergencyNext]_accessVars => InvocationsInv'
  <1> SUFFICES ASSUME InvocationsInv, [AccessNext \/ EmergencyNext]_accessVars PROVE InvocationsInv'
    OBVIOUS
  <1>1. CASE UNCHANGED <<invocations, hours>>
    BY <1>1 DEF InvocationsInv, Numbered, BreakGlassLimited
  <1>2. QED BY <1>1, BreakGlassInv, AccessTickInv
            DEF AccessNext, EmergencyNext, Login, Revoke, GrantRole, StoreIdentity, AddDeny, accessVars

-----------------------------------------------------------------------------
\* The invariant of sessions, rules and invocations, whatever order logins,
\* administration and emergencies take.
THEOREM AccessInvariant == AccessSpec => [](SessionsInv /\ RulesInv /\ InvocationsInv)
  <1>1. InvocationsInv => hours \in Nat
    BY DEF InvocationsInv
  <1>2. QED BY <1>1, AccessInitInv, NextAccessInv, NextInvocationsInv, PTL DEF AccessSpec

\* A scope above a path, as authorize and as the property see it.
LEMMA ContainsIsAbove ==
    ASSUME NEW s \in Scopes, NEW t \in Scopes
    PROVE  Contains(t, s) <=> t \in Ancestors(s)
  <1>1. s \in Seq(STRING) /\ t \in Seq(STRING) /\ t # << >> /\ Len(t) \in Nat /\ Len(s) \in Nat
    BY AccessAssumption
  <1>2. Len(t) >= 1
    BY <1>1
  <1>3. ASSUME Contains(t, s) PROVE t \in Ancestors(s)
    <2> DEFINE m == Len(t)
    <2>1. m \in 1..Len(s) /\ SubSeq(s, 1, m) = t
      BY <1>1, <1>2, <1>3 DEF Contains
    <2> HIDE DEF m
    <2>2. QED BY <2>1 DEF Ancestors
  <1>4. ASSUME NEW m \in 1..Len(s), t = SubSeq(s, 1, m) PROVE Contains(t, s)
    <2>1. Len(t) = m
      BY <1>1, <1>4
    <2>2. QED BY <1>1, <1>4, <2>1 DEF Contains
  <1>5. QED BY <1>3, <1>4 DEF Ancestors

\* Where nothing a request depends on changes for the user, nothing opens.
LEMMA NothingOpens ==
    ASSUME NEW u \in Users, NEW o \in Operations, NEW s \in Scopes,
           session'[u] = session[u], roleRevision'[u] = roleRevision[u],
           SessionsInv, hours \in Nat, hours' = hours \/ hours' = hours + 1,
           grants' = grants, denies \subseteq denies',
           Open(u, o, s)'
    PROVE  Open(u, o, s)
  <1>1. SessionValid(u)
    BY DEF Open, SessionValid, SessionsInv
  <1>2. Authorized(u, o, s)
    BY DEF Open, Authorized
  <1>3. QED BY <1>1, <1>2 DEF Open

\* What opens access to a user, one action at a time.
LEMMA StepOpens ==
    ASSUME NEW u \in Users, NEW o \in Operations, NEW s \in Scopes,
           SessionsInv, RulesInv, RulesInv', hours \in Nat,
           [AccessNext \/ EmergencyNext]_accessVars, ~Open(u, o, s), Open(u, o, s)'
    PROVE  \/ session'[u] # session[u] /\ session'[u].expires = hours + SessionTerm
           \/ roleRevision'[u] # roleRevision[u]
           \/ \E g \in grants' \ grants :
                 g.user = u /\ g.scope \in Ancestors(s) /\ o \in RolePermissions[g.role]
  <1>1. CASE UNCHANGED <<grants, denies, roleRevision, session>> /\ (hours' = hours \/ hours' = hours + 1)
    BY <1>1, NothingOpens
  <1>2. ASSUME NEW v \in Users, Login(v)
        PROVE  session'[u] # session[u] /\ session'[u].expires = hours + SessionTerm
    <2>1. session'[u] # session[u]
      BY <1>2, NothingOpens DEF Login
    <2>2. v = u
      BY <1>2, <2>1 DEF Login, SessionsInv
    <2>3. QED BY <1>2, <2>1, <2>2 DEF Login, SessionsInv
  <1>3. ASSUME NEW v \in Users, Revoke(v) PROVE FALSE
    <2>1. CASE v = u
      <3>1. session'[u].revoked
        BY <1>3, <2>1 DEF Revoke, SessionsInv
      <3>2. QED BY <3>1 DEF Open, SessionValid
    <2>2. CASE v # u
      BY <1>3, <2>2, NothingOpens DEF Revoke, SessionsInv
    <2>3. QED BY <2>1, <2>2
  <1>4. ASSUME NEW v \in Users, NEW r \in GrantableRoles, NEW t \in Scopes, GrantRole(v, r, t)
        PROVE  \E g \in grants' \ grants :
                  g.user = u /\ g.scope \in Ancestors(s) /\ o \in RolePermissions[g.role]
    <2>1. SessionValid(u)
      BY <1>4 DEF GrantRole, Open, SessionValid
    <2>2. PICK g \in grants' : /\ g.user = u /\ Contains(g.scope, s)
                               /\ o \in RolePermissions[g.role]
      BY DEF Open, Authorized
    <2>3. g \notin grants
      BY <1>4, <2>1, <2>2 DEF GrantRole, Open, Authorized
    <2>4. g.scope \in Ancestors(s)
      BY <2>2, ContainsIsAbove DEF RulesInv
    <2>5. QED BY <2>2, <2>3, <2>4
  <1>5. ASSUME NEW v \in Users, NEW n, StoreIdentity(v, n) PROVE roleRevision'[u] # roleRevision[u]
    BY <1>5, NothingOpens DEF StoreIdentity
  <1>6. ASSUME NEW v \in Users, NEW p \in Operations, NEW t \in Scopes, AddDeny(v, p, t) PROVE FALSE
    BY <1>6, NothingOpens DEF AddDeny
  <1>7. CASE EmergencyNext \/ AccessTick
    BY <1>1, <1>7 DEF EmergencyNext, BreakGlass, AccessTick
  <1>8. QED BY <1>1, <1>2, <1>3, <1>4, <1>5, <1>6, <1>7 DEF AccessNext, accessVars

\* authorize and validate_session: nothing is permitted without a live session, a
\* grant at the resource or above, no deny at the resource or above, and a second
\* person where the operation judges somebody; and access to a user opens only by
\* its own login, its own stored identity or a role given to it there or above.
THEOREM AccessEarned == AccessSpec => PermittedForAReason
  <1>1. SessionsInv /\ RulesInv => AccessJustified
    <2> SUFFICES ASSUME SessionsInv, RulesInv, NEW u \in Users, NEW o \in Operations, NEW s \in Scopes,
                        Open(u, o, s)
                 PROVE  /\ session[u].live /\ ~session[u].revoked /\ hours < session[u].expires
                        /\ \E g \in grants : g.user = u /\ g.scope \in Ancestors(s)
                        /\ ~\E d \in denies : d.user = u /\ d.operation = o /\ d.scope \in Ancestors(s)
      BY DEF AccessJustified
    <2>1. session[u].live /\ ~session[u].revoked /\ hours < session[u].expires
      BY DEF Open, SessionValid
    <2>2. \E g \in grants : g.user = u /\ g.scope \in Ancestors(s)
      BY ContainsIsAbove DEF Open, Authorized, RulesInv
    <2>3. ~\E d \in denies : d.user = u /\ d.operation = o /\ d.scope \in Ancestors(s)
      BY ContainsIsAbove DEF Open, Authorized, RulesInv
    <2>4. QED BY <2>1, <2>2, <2>3
  <1>2. SecondPerson
    BY AccessAssumption DEF SecondPerson, Permitted, Separation, Judged, FourEyes
  <1>3. /\ SessionsInv /\ RulesInv /\ RulesInv' /\ InvocationsInv
        /\ [AccessNext \/ EmergencyNext]_accessVars
        => [\A u \in Users, o \in Operations, s \in Scopes :
              ~Open(u, o, s) /\ Open(u, o, s)' =>
                 \/ session'[u] # session[u] /\ session'[u].expires = hours + SessionTerm
                 \/ roleRevision'[u] # roleRevision[u]
                 \/ \E g \in grants' \ grants :
                       g.user = u /\ g.scope \in Ancestors(s) /\ o \in RolePermissions[g.role]]_accessVars
    BY StepOpens DEF InvocationsInv
  <1>4. AccessSpec => AccessOpens
    BY <1>3, AccessInvariant, PTL DEF AccessSpec, AccessOpens
  <1>5. QED BY <1>1, <1>2, <1>4, AccessInvariant, PTL DEF PermittedForAReason

\* authorize_break_glass: no user is granted a third emergency access within 24 hours
\* of the first, however invocations of several users and the clock interleave.
THEOREM EmergencyLimited == AccessSpec => []BreakGlassLimited
  <1>1. InvocationsInv => BreakGlassLimited
    BY DEF InvocationsInv
  <1>2. QED BY <1>1, AccessInvariant, PTL
=============================================================================
