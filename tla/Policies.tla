------------------------------ MODULE Policies ------------------------------
(***************************************************************************)
(* The policy engine of domain/policies.py: one work item under one parsed *)
(* policy bundle.  Facts about the item arrive one at a time (evidence,    *)
(* waivers, conditions, dependency and child state, confirmations, source  *)
(* changes, the clock) and every evaluation is a function of the facts     *)
(* known when it is made, as the code's evaluate_* functions are.          *)
(*                                                                         *)
(* A completion policy is a tree.  It is kept as a table of nodes whose    *)
(* operands are later entries of the table; node 1 is the root.            *)
(***************************************************************************)
EXTENDS Naturals, Sequences, FiniteSets

CONSTANTS
    GateIds,        \* gate identifiers
    RawBundles,     \* the payloads handed to parse_policy_bundle
    EvidencePool,   \* the evidence records producers try to file
    MaxEvidence,    \* bound: records filed
    MaxRevision,    \* bound: source revisions
    MaxNow,         \* bound: clock
    Malformed       \* a payload that is not the strict object it must be

\* A payload that is not Malformed lists its policy's nodes, operands last.
ASSUME TablesAssumption ==
    \A raw \in RawBundles \ {Malformed} :
        /\ DOMAIN raw.policy = 1..Len(raw.policy) /\ Len(raw.policy) \in Nat \ {0}
        /\ \A k \in DOMAIN raw.policy :
              raw.policy[k].operands \in Seq((k + 1)..Len(raw.policy))

VARIABLES
    bundle,         \* the installed PolicyBundle, or NoBundle
    lifecycle,      \* the item's normalized lifecycle
    revision,       \* current_revision
    policyNow,      \* now
    evidence,       \* evidence_records
    waivers,        \* gates a human asked to waive
    condition,      \* per gate: condition_met
    known,          \* dependencies_complete and children_complete
    confirmed       \* human_confirmed

policyVars == <<bundle, lifecycle, revision, policyNow, evidence, waivers,
                condition, known, confirmed>>

Truth == {"true", "false", "none"}
NoBundle == [gates |-> << >>, policy |-> << >>]
Lifecycles == {"planned", "active", "completed", "cancelled", "unknown"}
Leaves == {"all_gates_passed", "all_dependencies_complete",
           "all_children_complete", "evidence_declared", "manual_only"}

-----------------------------------------------------------------------------
(* Parsing: parse, don't validate later. *)

\* GatePolicy.__post_init__.
GateOK(g) ==
    /\ g.accepted # {}
    /\ g.type = "safety" => ~g.waivable /\ g.critical /\ g.attest
    /\ g.critical => g.type = "safety"
    /\ g.waivable => g.type \in {"evidence", "quality"}

\* CompletionPolicy.__post_init__ for one node.
NodeOK(n) ==
    IF n.kind = "composite" THEN n.operator # "none" /\ Len(n.operands) >= 2
    ELSE n.operator = "none" /\ n.operands = << >>

\* _expect_mapping, _expect_list, _expect_str, _expect_bool, _require_keys.
StrictObject(raw) == raw # Malformed

\* _parse_gate: every construct is a known one, then GatePolicy.
GateParses(g) ==
    /\ g.phase \in {"entry", "completion", "certification"}
    /\ g.type \in {"dependency", "evidence", "approval", "quality", "safety"}
    /\ g.accepted \subseteq {"computed", "observed", "declared"}
    /\ GateOK(g)

\* _parse_completion_policy: a known kind and operator, then CompletionPolicy.
NodeParses(n) ==
    /\ n.kind \in Leaves \cup {"composite"}
    /\ n.kind = "composite" => n.operator \in {"and", "or"}
    /\ NodeOK(n)

\* PolicyBundle: gate ids are unique.
GatesUnique(raw) ==
    \A k, l \in DOMAIN raw.gates : raw.gates[k].id = raw.gates[l].id => k = l

Parses(raw) ==
    /\ StrictObject(raw)
    /\ \A k \in DOMAIN raw.gates : GateParses(raw.gates[k])
    /\ GatesUnique(raw)
    /\ \A k \in DOMAIN raw.policy : NodeParses(raw.policy[k])

\* PolicyEvidenceRecord.__post_init__ for a record made now.
EvidenceOK(e) ==
    /\ e.until # 0 => e.until > policyNow
    /\ e.producer # "ai"
    /\ e.type \in {"observed", "declared"} => e.producer = "human"
    /\ e.type = "computed" => e.producer = "automation"
    /\ e.attestation # "predates"

-----------------------------------------------------------------------------
(* Evaluation. *)

Gates == {bundle.gates[k] : k \in DOMAIN bundle.gates}
Allowed == {"authoritative", "provisional"}

\* Field until = 0 is a record that does not expire.
Unexpired(e) == e.until = 0 \/ policyNow < e.until

\* The same without the accepted kinds of the gate.
ValidAnyKind(g, e) ==
    /\ e.revision = revision
    /\ e.authority \in Allowed
    /\ Unexpired(e)
    /\ g.attest => e.attestation = "later"

\* _evidence_failure_reason is None.
Valid(g, e) ==
    /\ e.revision = revision
    /\ e.type \in g.accepted
    /\ e.authority \in Allowed
    /\ Unexpired(e)
    /\ g.attest => e.attestation = "later"

Candidates(g) == {e \in evidence : e.gate = g.id /\ e.item = "this"}

\* _evaluate_waiver does not raise.
WaiverOK(g) == g.type # "safety" /\ ~g.critical /\ g.waivable

\* evaluate_gate; "raises" is a waiver the gate refuses.
EvaluateGate(g) ==
    CASE g.id \in waivers -> IF WaiverOK(g) THEN "waived" ELSE "raises"
      [] g.id \notin waivers /\ condition[g.id] # "true" -> "failed"
      [] OTHER -> IF Candidates(g) = {} THEN "pending"
                  ELSE IF \E e \in Candidates(g) : Valid(g, e) THEN "passed"
                  ELSE "failed"

\* evaluate_phase: allows_transition.
PhaseAllows(phase) ==
    \A g \in Gates : g.phase = phase => EvaluateGate(g) \in {"passed", "waived"}

Evaluates == \A g \in Gates : EvaluateGate(g) # "raises"

\* _declared_evidence_is_current.
DeclaredCurrent(e) ==
    /\ e.item = "this" /\ e.type = "declared" /\ e.revision = revision
    /\ e.authority \in Allowed /\ Unexpired(e)

Holds(b) == IF b THEN "true" ELSE "false"

\* An AND that takes what is not known for true.
AndTruthOptimistic(values) == Holds("false" \notin values)

AndTruth(values) ==
    CASE "false" \in values -> "false"
      [] "false" \notin values /\ "none" \in values -> "none"
      [] OTHER -> "true"

OrTruth(values) ==
    CASE "true" \in values -> "true"
      [] "true" \notin values /\ "none" \in values -> "none"
      [] OTHER -> "false"

LeafTruth(kind) ==
    CASE kind = "all_gates_passed" -> Holds(PhaseAllows("completion"))
      [] kind = "all_dependencies_complete" -> known.dependencies
      [] kind = "all_children_complete" -> known.children
      [] kind = "evidence_declared" -> Holds(\E e \in evidence : DeclaredCurrent(e))
      [] kind = "manual_only" -> Holds(confirmed)

\* _evaluate_policy_node: the truth of every node of the table.
NodeTruth ==
    LET truth[k \in DOMAIN bundle.policy] ==
            LET node == bundle.policy[k]
                values == {truth[node.operands[j]] : j \in DOMAIN node.operands}
            IN  CASE node.kind # "composite" -> LeafTruth(node.kind)
                  [] node.kind = "composite" /\ node.operator = "and" -> AndTruth(values)
                  [] OTHER -> OrTruth(values)
    IN  truth

\* The policy has a leaf of a kind.
Asks(kind) == \E k \in DOMAIN bundle.policy : bundle.policy[k].kind = kind

ContainsManualOnly == Asks("manual_only")

\* evaluate_completion.
Completion ==
    CASE NodeTruth[1] = "true" -> "satisfied"
      [] NodeTruth[1] = "none" -> "unknown"
      [] NodeTruth[1] = "false" /\ ContainsManualOnly -> "pending_review"
      [] NodeTruth[1] = "false" /\ ~ContainsManualOnly /\ lifecycle = "completed" -> "closed_unverified"
      [] OTHER -> "incomplete"

\* evaluate_lifecycle_transition: allowed.
TransitionAllowed(target) ==
    \/ lifecycle = target
    \/ target = "cancelled" /\ lifecycle \in {"planned", "active"}
    \/ lifecycle = "unknown"
    \/ lifecycle = "completed" /\ target = "unknown"
    \/ lifecycle = "planned" /\ target = "active" /\ PhaseAllows("entry")
    \/ /\ lifecycle = "active" /\ target = "completed"
       /\ PhaseAllows("completion") /\ Completion = "satisfied"

\* Completing without the gates of the completion phase.
TransitionAllowedByPolicyOnly(target) ==
    \/ lifecycle = target
    \/ target = "cancelled" /\ lifecycle \in {"planned", "active"}
    \/ lifecycle = "unknown"
    \/ lifecycle = "completed" /\ target = "unknown"
    \/ lifecycle = "planned" /\ target = "active" /\ PhaseAllows("entry")
    \/ lifecycle = "active" /\ target = "completed" /\ Completion = "satisfied"

-----------------------------------------------------------------------------
PolicyInit ==
    /\ bundle = NoBundle
    /\ lifecycle = "planned"
    /\ revision = 1 /\ policyNow = 1
    /\ evidence = {} /\ waivers = {}
    /\ condition = [g \in GateIds |-> "none"]
    /\ known = [dependencies |-> "none", children |-> "none"]
    /\ confirmed = FALSE

\* parse_policy_bundle; a payload that does not parse leaves nothing behind.
InstallBundle(raw) ==
    /\ bundle = NoBundle
    /\ Parses(raw)
    /\ bundle' = raw
    /\ UNCHANGED <<lifecycle, revision, policyNow, evidence, waivers, condition,
                   known, confirmed>>

\* A PolicyEvidenceRecord is constructed and joins the item's records.
RecordEvidence(e) ==
    /\ bundle # NoBundle
    /\ Cardinality(evidence) < MaxEvidence
    /\ e \notin evidence
    /\ EvidenceOK(e)
    /\ evidence' = evidence \cup {e}
    /\ UNCHANGED <<bundle, lifecycle, revision, policyNow, waivers, condition,
                   known, confirmed>>

\* A GateWaiver is constructed; whether the gate honours it is evaluate_gate's.
RequestWaiver(g) ==
    /\ bundle # NoBundle
    /\ waivers' = waivers \cup {g}
    /\ UNCHANGED <<bundle, lifecycle, revision, policyNow, evidence, condition,
                   known, confirmed>>

\* A gate's condition becomes known, or changes.
ObserveCondition(g, value) ==
    /\ bundle # NoBundle
    /\ condition' = [condition EXCEPT ![g] = value]
    /\ UNCHANGED <<bundle, lifecycle, revision, policyNow, evidence, waivers,
                   known, confirmed>>

\* The state of the dependencies or of the children becomes known; it is only
\* asked for if the policy has a leaf for it.
Learn(what, value) ==
    /\ Asks(IF what = "dependencies" THEN "all_dependencies_complete"
            ELSE "all_children_complete")
    /\ known[what] = "none"
    /\ known' = [known EXCEPT ![what] = value]
    /\ UNCHANGED <<bundle, lifecycle, revision, policyNow, evidence, waivers,
                   condition, confirmed>>

\* A human confirms what is left to manual review.
Confirm ==
    /\ Asks("manual_only")
    /\ confirmed' = TRUE
    /\ UNCHANGED <<bundle, lifecycle, revision, policyNow, evidence, waivers,
                   condition, known>>

\* The source moves on: what was evidence for the old revision no longer is.
ChangeSource ==
    /\ revision < MaxRevision
    /\ revision' = revision + 1
    /\ UNCHANGED <<bundle, lifecycle, policyNow, evidence, waivers, condition,
                   known, confirmed>>

PolicyTick ==
    /\ policyNow < MaxNow
    /\ policyNow' = policyNow + 1
    /\ UNCHANGED <<bundle, lifecycle, revision, evidence, waivers, condition,
                   known, confirmed>>

\* evaluate_gate for every gate, evaluate_completion, evaluate_lifecycle_transition.
Transition(target) ==
    /\ bundle # NoBundle
    /\ Evaluates
    /\ TransitionAllowed(target)
    /\ lifecycle' = target
    /\ UNCHANGED <<bundle, revision, policyNow, evidence, waivers, condition,
                   known, confirmed>>

PolicyNext ==
    \/ \E raw \in RawBundles : InstallBundle(raw)
    \/ \E e \in EvidencePool : RecordEvidence(e)
    \/ \E g \in GateIds : RequestWaiver(g)
    \/ \E g \in GateIds, value \in {"true", "false"} : ObserveCondition(g, value)
    \/ \E what \in {"dependencies", "children"}, value \in {"true", "false"} : Learn(what, value)
    \/ Confirm
    \/ ChangeSource
    \/ PolicyTick
    \/ \E target \in Lifecycles : Transition(target)

PolicySpec == PolicyInit /\ [][PolicyNext]_policyVars

-----------------------------------------------------------------------------
(* Properties. *)

\* Filing one more record, however bad, never takes back what good records
\* established: a gate that passes keeps passing and a satisfied policy stays
\* satisfied.  Evidence arrives in any order and is never retracted, so an
\* evaluation that let an invalid record spoil a valid one would make the
\* verdict depend on who filed last (evaluate_gate's "any valid", policies.py:481-506).
EvidenceOnlyHelps ==
    [][(evidence # evidence' /\ bundle # NoBundle) =>
          /\ \A g \in Gates : EvaluateGate(g) = "passed" => EvaluateGate(g)' = "passed"
          /\ Completion = "satisfied" => Completion' = "satisfied"]_policyVars

\* Learning what was unknown about dependencies or children never reverses a
\* verdict that was definite: true stays true and false stays false, at every
\* depth of the tree (the three-valued _and_truth and _or_truth).
KnowledgeNeverReverses ==
    [][(known # known') =>
          NodeTruth[1] = "none" \/ NodeTruth[1]' = NodeTruth[1]]_policyVars

\* What a safety gate demands of a record, stated record by record,
\* apart from how evaluate_gate decides.
Proves(g, e) ==
    /\ e.gate = g.id /\ e.item = "this" /\ e.revision = revision
    /\ e.type \in g.accepted
    /\ e.authority \in {"authoritative", "provisional"}
    /\ e.attestation = "later" /\ e.producer # "ai"
    /\ e.until = 0 \/ e.until > policyNow

\* An item that goes from active to completed has, for every safety gate of the
\* completion phase, an attested record of a kind the gate accepts, of sufficient
\* authority, for this item and this revision, that no AI produced and that has
\* not expired, and the gate's condition holds; no waiver, policy or other item's
\* evidence stands in for it.  It says nothing of an item that an unknown
\* lifecycle makes completed (evaluate_gate, evaluate_lifecycle_transition).
SafetyProven ==
    [][(lifecycle = "active" /\ lifecycle' = "completed") =>
          \A g \in Gates : (g.type = "safety" /\ g.phase = "completion") =>
              /\ condition[g.id] = "true" /\ g.id \notin waivers
              /\ \E e \in evidence : Proves(g, e)]_policyVars

\* Verdicts are monotone: in the evidence that is filed and in what becomes
\* known (policies.py, evaluate_gate and evaluate_policy).
VerdictsMonotone == EvidenceOnlyHelps /\ KnowledgeNeverReverses
=============================================================================
