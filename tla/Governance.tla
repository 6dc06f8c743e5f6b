----------------------------- MODULE Governance -----------------------------
(***************************************************************************)
(* Coordination of one work item: its lease (domain/coordination.py) and   *)
(* the proposed changes to it (domain/proposals.py).  Both are anchored to *)
(* the item's current decision, which accepted changes and new decision    *)
(* cycles replace, and the lease's owner is the claimant that separation   *)
(* of duties keeps from approving.                                         *)
(***************************************************************************)
EXTENDS Naturals, Sequences, FiniteSets

CONSTANTS
    Actors,         \* people, agents, automation
    Terms,          \* the TTLs claims ask for
    MaxLeaseVersion,\* bound: version of a lease
    MaxLeases,      \* bound: leases taken on the item
    MaxDecisions,   \* bound: decisions of the item
    MaxSourceRevision, \* bound: revisions of the source
    MaxProposals,   \* bound: proposals and approvals on file
    MaxLeaseClock   \* bound: clock

VARIABLES
    lease,          \* the item's WorkLease
    granted,        \* who was granted a claim on this lease, and in which mode
    events,         \* CoordinationEvents, oldest first
    decision,       \* current_decision_id; ids are numbered as they are derived
    sourceRevision, \* current_source_revision
    proposals,      \* ProposedChanges
    approvals,      \* Approvals
    applied,        \* AppliedMutations, oldest first
    leaseClock      \* now

governanceVars == <<lease, granted, events, decision, sourceRevision, proposals,
                    approvals, applied, leaseClock>>

NoLease == [id |-> 0, owner |-> "nobody", collaborators |-> {}, mode |-> "exclusive",
            state |-> "released", decision |-> 0, version |-> 0, expires |-> 0,
            heartbeat |-> 0, handoff |-> "nobody"]

Participants == {lease.owner} \cup lease.collaborators

-----------------------------------------------------------------------------
(* Leases. *)

\* claim_item lets a claim in one instant before the lease expires.
LeaseLiveEarly == lease.state = "active" /\ leaseClock + 1 < lease.expires

\* claim_item: active_lease is not None.
LeaseLive == lease.state = "active" /\ leaseClock < lease.expires

\* claim_item without the check of the requested mode.
MayJoinAnyMode(mode, expected) == lease.mode # "exclusive" /\ lease.version = expected

\* claim_item on a live lease: neither side exclusive, and the version expected.
MayJoin(mode, expected) ==
    /\ lease.mode # "exclusive" /\ mode # "exclusive"
    /\ lease.version = expected

\* claim_item, joining a live collaborative lease.
JoinLease(actor, mode, term, expected) ==
    /\ LeaseLive
    /\ MayJoin(mode, expected)
    /\ lease.version < MaxLeaseVersion
    /\ lease' = [lease EXCEPT !.collaborators = (@ \cup {actor}) \ {lease.owner},
                              !.version = @ + 1,
                              !.expires = leaseClock + term,
                              !.heartbeat = leaseClock]
    /\ granted' = granted \cup {<<actor, mode>>}
    /\ UNCHANGED <<events, decision, sourceRevision, proposals, approvals, applied, leaseClock>>

\* claim_item, a new lease: nothing live is there and version zero is expected.
NewLease(actor, mode, term) ==
    /\ ~LeaseLive
    /\ lease.id < MaxLeases
    /\ lease' = [id |-> lease.id + 1, owner |-> actor, collaborators |-> {}, mode |-> mode,
                 state |-> "active", decision |-> decision, version |-> 1,
                 expires |-> leaseClock + term, heartbeat |-> leaseClock, handoff |-> "nobody"]
    /\ granted' = {<<actor, mode>>}
    /\ UNCHANGED <<events, decision, sourceRevision, proposals, approvals, applied, leaseClock>>

\* heartbeat: the lease is renewed for the term it has been given.
Heartbeat(actor) ==
    /\ actor \in Participants
    /\ LeaseLive
    /\ lease.version < MaxLeaseVersion
    /\ lease' = [lease EXCEPT !.version = @ + 1, !.heartbeat = leaseClock,
                              !.expires = leaseClock + (lease.expires - lease.heartbeat)]
    /\ UNCHANGED <<granted, events, decision, sourceRevision, proposals, approvals, applied, leaseClock>>

\* request_handoff: anybody may ask; nothing changes hands.
RequestHandoff(target) ==
    /\ target # lease.owner
    /\ lease.state = "active"
    /\ lease.version < MaxLeaseVersion
    /\ lease' = [lease EXCEPT !.handoff = target, !.version = @ + 1]
    /\ UNCHANGED <<granted, events, decision, sourceRevision, proposals, approvals, applied, leaseClock>>

\* force_override: the lease as it stands goes to another owner, with an event.
ForceOverride(actor, new) ==
    /\ lease.id # 0
    /\ lease.version < MaxLeaseVersion
    /\ lease' = [lease EXCEPT !.owner = new, !.collaborators = {}, !.version = @ + 1,
                              !.heartbeat = leaseClock, !.handoff = "nobody"]
    /\ events' = Append(events, [type |-> "lease_forced_override", actor |-> actor])
    /\ UNCHANGED <<granted, decision, sourceRevision, proposals, approvals, applied, leaseClock>>

\* release: by any participant, whatever the state of the lease.
Release(actor) ==
    /\ lease.id # 0
    /\ actor \in Participants
    /\ lease.version < MaxLeaseVersion
    /\ lease' = [lease EXCEPT !.state = "released", !.version = @ + 1, !.heartbeat = leaseClock]
    /\ UNCHANGED <<granted, events, decision, sourceRevision, proposals, approvals, applied, leaseClock>>

-----------------------------------------------------------------------------
(* Proposals. *)

\* ProposedChange.create, anchored to the decision and revision the proposer saw.
\* A proposer that saw older ones is one whose proposal arrives later.
Propose(actor) ==
    /\ Cardinality(proposals) < MaxProposals
    /\ proposals' = proposals \cup
          {[id |-> Cardinality(proposals) + 1, proposer |-> actor, base |-> decision,
            revision |-> sourceRevision]}
    /\ UNCHANGED <<lease, granted, events, decision, sourceRevision, approvals, applied, leaseClock>>

\* An Approval: it records the authority inputs its approver saw.
Approve(actor, proposal) ==
    /\ Cardinality(approvals) < MaxProposals
    /\ approvals' = approvals \cup
          {[proposal |-> proposal.id, approver |-> actor, base |-> decision, revision |-> sourceRevision]}
    /\ UNCHANGED <<lease, granted, events, decision, sourceRevision, proposals, applied, leaseClock>>

\* The owner of the live lease, as the caller of apply_approved_change names it.
Claimant == IF LeaseLive THEN lease.owner ELSE "nobody"

\* Proposal and approval agree, whatever is current.
AnchoredToEachOther(proposal, approval) ==
    /\ proposal.base = approval.base
    /\ proposal.revision = approval.revision

\* apply_approved_change: proposal, approval and current state agree.
Anchored(proposal, approval) ==
    /\ proposal.base = approval.base /\ approval.base = decision
    /\ proposal.revision = approval.revision /\ approval.revision = sourceRevision

DutiesSeparate(proposal, approval) ==
    approval.approver \notin {proposal.proposer, Claimant}

\* apply_approved_change: a new decision derives from the current one.
Apply(proposal, approval) ==
    /\ approval.proposal = proposal.id
    /\ DutiesSeparate(proposal, approval)
    /\ Anchored(proposal, approval)
    /\ decision < MaxDecisions
    /\ decision' = decision + 1
    /\ applied' = Append(applied, [proposal |-> proposal, approver |-> approval.approver,
                                   claimant |-> Claimant, derivedFrom |-> decision,
                                   revision |-> sourceRevision])
    /\ UNCHANGED <<lease, granted, events, sourceRevision, proposals, approvals, leaseClock>>

\* A decision cycle for a new source revision decides the item anew.
DecideAnew ==
    /\ sourceRevision < MaxSourceRevision /\ decision < MaxDecisions
    /\ sourceRevision' = sourceRevision + 1
    /\ decision' = decision + 1
    /\ UNCHANGED <<lease, granted, events, proposals, approvals, applied, leaseClock>>

LeaseTick ==
    /\ leaseClock < MaxLeaseClock
    /\ leaseClock' = leaseClock + 1
    /\ UNCHANGED <<lease, granted, events, decision, sourceRevision, proposals, approvals, applied>>

GovernanceInit ==
    /\ lease = NoLease /\ granted = {} /\ events = << >>
    /\ decision = 1 /\ sourceRevision = 1
    /\ proposals = {} /\ approvals = {} /\ applied = << >>
    /\ leaseClock = 1

LeaseNext ==
    \/ \E a \in Actors, m \in {"exclusive", "collaborative"}, t \in Terms :
          \/ \E v \in 1..MaxLeaseVersion : JoinLease(a, m, t, v)
          \/ NewLease(a, m, t)
    \/ \E a \in Actors : Heartbeat(a) \/ RequestHandoff(a) \/ Release(a)
    \/ \E a, b \in Actors : ForceOverride(a, b)
    \/ LeaseTick

\* Proposals while the lease they depend on, through its owner, changes hands.
ProposalNext ==
    \/ \E a \in Actors : Propose(a) \/ ForceOverride(a, a)
    \/ \E a \in Actors, t \in Terms : NewLease(a, "exclusive", t)
    \/ \E a \in Actors, p \in proposals : Approve(a, p)
    \/ \E p \in proposals, q \in approvals : Apply(p, q)
    \/ DecideAnew
    \/ LeaseTick

\* Leases and proposals at once.
GovernanceSpec == GovernanceInit /\ [][LeaseNext \/ ProposalNext]_governanceVars

-----------------------------------------------------------------------------
\* While a lease is in force its work changes hands only by an override, and
\* every override leaves an event naming who did it: no claim, join or handoff
\* takes the item from its owner (docs/domain/work-lease.md, "Never break silently").
NeverBrokenSilently ==
    [][(lease.state = "active" /\ leaseClock < lease.expires /\ lease'.owner # lease.owner) =>
          /\ lease'.id = lease.id
          /\ Len(events') = Len(events) + 1]_governanceVars

\* Whoever was granted an exclusive claim works alone for as long as the lease
\* lives, whatever joins, overrides and renewals follow.
ExclusiveAlone ==
    (\E g \in granted : g[2] = "exclusive") => lease.collaborators = {}

\* Accepted changes form a chain: each derives from the decision that was current
\* when it was applied, so no two derive from the same one, and each was
\* proposed on the source revision it was applied to (no lost update).  Nobody
\* who proposed a change, or who held the item's lease when it was applied,
\* approved it, although leases change hands between approval and application.
ChangesChain ==
    \A k, l \in DOMAIN applied :
        /\ applied[k].proposal.base = applied[k].derivedFrom
        /\ applied[k].proposal.revision = applied[k].revision
        /\ k < l => applied[k].derivedFrom < applied[l].derivedFrom
        /\ applied[k].approver \notin {applied[k].proposal.proposer, applied[k].claimant}

=============================================================================
