------------------------------ MODULE Frontier ------------------------------
(***************************************************************************)
(* The frontier engine (domain/frontier.py) between the source it reads    *)
(* and the team that works off its recommendation.  Items of the source    *)
(* are edited, closed and reopened; a cycle normalizes them, derives the   *)
(* engine's inputs (application/ingestion.py), solves readiness and        *)
(* ranking, and records which items the change affects.  The team closes   *)
(* the recommended item of the last cycle it has seen.                     *)
(***************************************************************************)
EXTENDS Integers, Sequences, FiniteSets

CONSTANTS
    Items,          \* item_id of the source items, ordered like the strings
    Missing,        \* an identifier a body names and the source does not have
    Pipeline,       \* RankingPipeline.comparators
    MaxBlockers,    \* bound: blockers one item names
    MaxEdits        \* bound: edits and reopenings

Comparators == {"program_priority", "work_class", "downstream_unlock_count_desc",
                "age_desc", "stable_id"}

\* RankingPipeline.__post_init__.
ASSUME PipelineAssumption ==
    /\ Pipeline # << >>
    /\ \A k \in DOMAIN Pipeline : Pipeline[k] \in Comparators
    /\ \A k, l \in DOMAIN Pipeline : Pipeline[k] = Pipeline[l] => k = l
    /\ Pipeline[Len(Pipeline)] = "stable_id"

\* The source holds finitely many items.
ASSUME ItemsAssumption == IsFiniteSet(Items)

VARIABLES
    source,         \* item -> its state, the blockers it names, when it was updated
    time,           \* computed_at of a cycle that would run now
    edits,          \* how many edits there have been
    changed,        \* items the source changed since the last cycle
    decided         \* the last cycle: its records, the affected items

frontierVars == <<source, time, edits, changed, decided>>

Nothing == 0

-----------------------------------------------------------------------------
(* Normalization and engine inputs. *)

\* normalize_source_item: the lifecycle.
Normalized(i) == IF source[i].state = "closed" THEN "completed" ELSE "planned"

\* frontier_inputs: fan_out.
FanOut(i) == Cardinality({j \in Items : i \in source[j].blockers})

\* frontier_inputs: a blocker the source does not have is not complete.
Incomplete(i) ==
    {b \in source[i].blockers : b \notin Items \/ Normalized(b) # "completed"}

\* frontier_inputs: the engine's input for one item.
Input(i) ==
    [item_id |-> i, lifecycle |-> Normalized(i), program_priority |-> 0,
     work_class |-> 1, downstream_unlock_count |-> FanOut(i),
     age_seconds |-> time - source[i].updated,
     hard_blockers_complete |-> Incomplete(i) = {},
     entry_gates_pass |-> TRUE, authority_safe |-> TRUE]

\* An item that ever had a blocker is held back for good.
ReasonsUnblockedOnly(input) ==
    {r \in {"lifecycle_not_actionable", "incomplete_hard_blocker"} :
        \/ r = "lifecycle_not_actionable" /\ input.lifecycle \notin {"planned", "active"}
        \/ r = "incomplete_hard_blocker" /\ source[input.item_id].blockers # {}}

\* _readiness_reasons; no reason is ("ready",).
Reasons(input) ==
    (IF input.lifecycle \in {"planned", "active"} THEN {} ELSE {"lifecycle_not_actionable"})
    \cup (IF input.hard_blockers_complete THEN {} ELSE {"incomplete_hard_blocker"})
    \cup (IF input.entry_gates_pass THEN {} ELSE {"entry_gate_blocked"})
    \cup (IF input.authority_safe THEN {} ELSE {"unsafe_authority"})

\* _ranking_key, one component of it.
KeyPart(input, comparator) ==
    CASE comparator = "program_priority" -> -input.program_priority
      [] comparator = "work_class" -> input.work_class
      [] comparator = "downstream_unlock_count_desc" -> -input.downstream_unlock_count
      [] comparator = "age_desc" -> -input.age_seconds
      [] comparator = "stable_id" -> input.item_id

\* The lexicographic order of the ranking keys.
Precedes(a, b) ==
    \E k \in DOMAIN Pipeline :
        /\ KeyPart(a, Pipeline[k]) < KeyPart(b, Pipeline[k])
        /\ \A l \in 1..(k - 1) : KeyPart(a, Pipeline[l]) = KeyPart(b, Pipeline[l])

ReadyItems == {i \in Items : Reasons(Input(i)) = {}}

\* solve_frontier: positions of the ready items.
Position(i) == 1 + Cardinality({j \in ReadyItems : Precedes(Input(j), Input(i))})

\* _decision_record.
DecisionRecord(i) ==
    [reasons |-> Reasons(Input(i)),
     position |-> IF i \in ReadyItems THEN Position(i) ELSE Nothing,
     blocked_by |-> Incomplete(i), blocks_count |-> FanOut(i)]

\* DecisionRecordSet.ready_item_ids, recommended_next.
ReadyIn(cycle) == {i \in DOMAIN cycle.records : cycle.records[i].reasons = {}}
RecommendedIn(cycle) ==
    IF ReadyIn(cycle) = {} THEN Nothing ELSE CHOOSE i \in Items : cycle.records[i].position = 1

\* The roots alone.
AffectedRoots(roots) == IF roots = {} THEN Items ELSE roots

\* affected_item_ids: the roots and everything downstream of them.
Affected(roots) ==
    LET reach[n \in 0..Cardinality(Items)] ==
            IF n = 0 THEN roots
            ELSE reach[n - 1] \cup
                 {i \in Items : source[i].blockers \cap reach[n - 1] # {}}
    IN  IF roots = {} THEN Items ELSE reach[Cardinality(Items)]

-----------------------------------------------------------------------------
NoCycle == [records |-> << >>, affected |-> {}]

FrontierInit ==
    /\ source = [i \in Items |-> [state |-> "open", blockers |-> {}, updated |-> 0]]
    /\ time = 1
    /\ edits = 0
    /\ changed = {}
    /\ decided = NoCycle

\* Somebody edits an item: its body names blockers, and it may be reopened.
\* The clock advances with every edit, so ages differ.
Edit(i, blockers) ==
    /\ edits < MaxEdits /\ Cardinality(blockers) <= MaxBlockers
    /\ source' = [source EXCEPT ![i] = [state |-> "open", blockers |-> blockers, updated |-> time]]
    /\ edits' = edits + 1
    /\ time' = time + 1
    /\ changed' = changed \cup {i}
    /\ UNCHANGED decided

\* The team closes the item the last cycle recommended, if it is still open.
CloseRecommended ==
    LET next == RecommendedIn(decided)
    IN  /\ next # Nothing
        /\ source[next].state = "open"
        /\ source' = [source EXCEPT ![next].state = "closed", ![next].updated = time]
        /\ changed' = changed \cup {next}
        /\ UNCHANGED <<time, edits, decided>>

\* One decision cycle over the items as they are (build_ingestion_snapshot,
\* solve_frontier): normalize, derive inputs, solve, and report the items
\* affected by the changes it was run for.
RunCycle ==
    /\ changed # {} \/ decided = NoCycle
    /\ decided' = [records |-> [i \in Items |-> DecisionRecord(i)],
                   affected |-> Affected(changed)]
    /\ changed' = {}
    /\ UNCHANGED <<source, time, edits>>

FrontierNext ==
    \/ \E i \in Items, b \in SUBSET (Items \cup {Missing}) : Edit(i, b)
    \/ CloseRecommended
    \/ RunCycle

FrontierSpec == FrontierInit /\ [][FrontierNext]_frontierVars

-----------------------------------------------------------------------------
\* The receipt of an incremental cycle names every item whose readiness differs
\* from what the previous cycle said, however the changes since then chain
\* through blockers: whoever refreshes only the affected items misses none
\* (affected_item_ids, ingestion.py:266-285, against _readiness_reasons).
ReadinessChangesAffected ==
    [][(decided # NoCycle /\ decided' # decided) =>
          ((ReadyIn(decided) \ ReadyIn(decided')) \cup (ReadyIn(decided') \ ReadyIn(decided)))
              \subseteq decided'.affected]_frontierVars

\* Working off the recommendation drains the frontier: once edits stop, every
\* item that stays open waits on an open or a missing blocker.  No ranking
\* starves an item and no actionable item is forgotten.
FrontierDrains ==
    <>[](\A i \in Items : source[i].state = "open" =>
            \E b \in source[i].blockers : b \notin Items \/ source[b].state = "open")
=============================================================================
