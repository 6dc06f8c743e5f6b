------------------------------ MODULE MCRules ------------------------------
(***************************************************************************)
(* The rules that decide what may be worked on, checked one component at a *)
(* time: policies of an item, authority of a field, the frontier.  They    *)
(* share no state; a behaviour is a behaviour of its subject.              *)
(***************************************************************************)
EXTENDS Policies, Authority, Frontier

VARIABLE subject

vars == <<policyVars, authorityVars, frontierVars, subject>>

Gate(id, phase, type, accepted, attest, waivable, critical) ==
    [id |-> id, phase |-> phase, type |-> type, accepted |-> accepted,
     attest |-> attest, waivable |-> waivable, critical |-> critical]
Leaf(kind) == [kind |-> kind, operator |-> "none", operands |-> << >>]
Composite(op, kids) == [kind |-> "composite", operator |-> op, operands |-> kids]

Quality == Gate("g1", "entry", "quality", {"computed", "declared"}, FALSE, TRUE, FALSE)
Safety == Gate("g2", "completion", "safety", {"observed", "declared"}, TRUE, FALSE, TRUE)
WaivableSafety == Gate("g2", "completion", "safety", {"observed"}, TRUE, TRUE, TRUE)

Tree == << Composite("and", <<2, 3>>), Leaf("all_dependencies_complete"),
           Composite("or", <<4, 5>>), Leaf("all_children_complete"), Leaf("evidence_declared") >>

MCRawBundles ==
    { Malformed,
      [gates |-> <<Quality, Safety>>, policy |-> Tree],
      [gates |-> <<Quality, Safety>>, policy |-> <<Composite("or", <<2, 3>>), Leaf("all_gates_passed"), Leaf("manual_only")>>],
      [gates |-> <<Quality, WaivableSafety>>, policy |-> <<Leaf("all_gates_passed")>>],
      [gates |-> <<Quality, Quality>>, policy |-> <<Leaf("all_gates_passed")>>],
      [gates |-> <<Quality>>, policy |-> <<Composite("and", <<2>>), Leaf("manual_only")>>] }

Evidence(gate, type, producer, authority, until, attestation) ==
    [gate |-> gate, item |-> "this", type |-> type, revision |-> 1, producer |-> producer,
     authority |-> authority, until |-> until, attestation |-> attestation]

MCEvidencePool ==
    { Evidence("g1", "computed", "automation", "provisional", 0, "none"),
      Evidence("g2", "observed", "human", "authoritative", 2, "later"),
      Evidence("g2", "observed", "ai", "authoritative", 0, "later"),
      Evidence("g2", "computed", "automation", "authoritative", 0, "later"),
      Evidence("g2", "observed", "human", "stale", 0, "later"),
      Evidence("g2", "declared", "human", "authoritative", 0, "none"),
      [Evidence("g2", "declared", "human", "authoritative", 0, "later") EXCEPT !.revision = 2],
      [Evidence("g2", "observed", "human", "authoritative", 0, "later") EXCEPT !.item = "other"] }

MCMaxAge == [l \in Levels |-> IF l = 6 THEN 2 ELSE 1]
MCPipeline == <<"program_priority", "work_class", "downstream_unlock_count_desc", "age_desc", "stable_id">>

Init ==
    /\ PolicyInit /\ AuthorityInit /\ FrontierInit
    /\ subject \in {"policies", "authority", "frontier"}

FrontierOnly(A) == subject = "frontier" /\ A /\ UNCHANGED <<policyVars, authorityVars, subject>>

Next ==
    \/ subject = "policies" /\ PolicyNext /\ UNCHANGED <<authorityVars, frontierVars, subject>>
    \/ subject = "authority" /\ AuthorityNext /\ UNCHANGED <<policyVars, frontierVars, subject>>
    \/ FrontierOnly(FrontierNext)

\* A cycle runs after every change (the worker's loop), and the team works.
Spec ==
    /\ Init /\ [][Next]_vars
    /\ WF_vars(FrontierOnly(RunCycle)) /\ WF_vars(FrontierOnly(CloseRecommended))

\* FrontierDrains for the behaviours that are about the frontier.
FrontierWorkedOff == subject = "frontier" => FrontierDrains
=============================================================================
