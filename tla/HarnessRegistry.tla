-------------------------- MODULE HarnessRegistry --------------------------
(***************************************************************************)
(* The harness registry: scripts/build_harness_registry.py joins the       *)
(* catalog with the reviewed lifecycle metadata, contracts/                *)
(* harness_registry.py validates the result (prerequisites without cycles, *)
(* by Kahn's algorithm) and dependency_closure puts a harness and what it  *)
(* needs into the order they are run in (depth first).                     *)
(***************************************************************************)
EXTENDS Naturals, Sequences, FiniteSets

CONSTANTS
    Catalog,        \* the harness ids of the catalog
    Closures        \* the foundation closures that are tried

\* A registry lists its harnesses.
ASSUME CatalogFinite == IsFiniteSet(Catalog)

VARIABLES
    lifecycle,      \* the lifecycle metadata
    step,           \* what is being done
    prerequisites,  \* the registry's prerequisites, by harness
    sorted,         \* Kahn: harnesses already taken off the queue
    stack,          \* dependency_closure: the calls of visit that are open
    visited,        \* dependency_closure
    ordered         \* dependency_closure

registryVars == <<lifecycle, step, prerequisites, sorted, stack, visited, ordered>>

\* Whatever a reviewer may have written down.
Lifecycles ==
    UNION {[implemented : {impl}, deferred : {{}} \cup {{d} : d \in Catalog}, closure : Closures,
            preGA : {impl, Catalog}, prerequisites : [impl -> SUBSET Catalog]] : impl \in SUBSET Catalog}

\* load_lifecycle_metadata.
LifecycleOK(m) ==
    /\ m.implemented \cap m.deferred = {}
    /\ DOMAIN m.prerequisites = m.implemented
    /\ m.closure # {} /\ m.closure \subseteq m.implemented
    /\ m.implemented \subseteq m.preGA

\* parse_catalog.
StatusOf(m, h) ==
    CASE h \in m.implemented -> "implemented"
      [] h \in m.deferred -> "deferred"
      [] OTHER -> "specified"

RegistryInit(metadata) ==
    /\ lifecycle \in metadata
    /\ step = "load"
    /\ prerequisites = [h \in Catalog |-> {}]
    /\ sorted = {} /\ stack = << >> /\ visited = {} /\ ordered = << >>

\* load_lifecycle_metadata, derive_prerequisites: explicit ones only.
LoadLifecycle ==
    /\ step = "load"
    /\ step' = IF LifecycleOK(lifecycle) THEN "sort" ELSE "refused"
    /\ prerequisites' = [h \in Catalog |-> IF StatusOf(lifecycle, h) = "implemented"
                                           THEN lifecycle.prerequisites[h] ELSE {}]
    /\ UNCHANGED <<lifecycle, sorted, stack, visited, ordered>>

\* Harnesses queued as soon as one of their prerequisites is sorted.
SortableOnce ==
    {h \in Catalog \ sorted : prerequisites[h] = {} \/ prerequisites[h] \cap sorted # {}}

\* _validate_prerequisite_cycles: the harnesses of in-degree zero.
Sortable == {h \in Catalog \ sorted : prerequisites[h] \subseteq sorted}

\* _validate_prerequisites, then a step of _validate_prerequisite_cycles.
SortOne ==
    /\ step = "sort"
    /\ \E h \in Sortable : sorted' = sorted \cup {h}
    /\ UNCHANGED <<lifecycle, step, prerequisites, stack, visited, ordered>>

\* validate_registry, when the queue is empty.
FinishSort ==
    /\ step = "sort" /\ Sortable = {}
    /\ step' = IF /\ \A h \in Catalog : h \notin prerequisites[h]
                  /\ Cardinality(sorted) = Cardinality(Catalog)
               THEN "valid" ELSE "refused"
    /\ UNCHANGED <<lifecycle, prerequisites, sorted, stack, visited, ordered>>

Visiting == {stack[k].harness : k \in DOMAIN stack}
Frame(h) == [harness |-> h, left |-> prerequisites[h]]

\* dependency_closure(registry, target).
AskClosure(target) ==
    /\ step = "valid"
    /\ IF StatusOf(lifecycle, target) = "implemented"
       THEN step' = "visit" /\ stack' = <<Frame(target)>>
       ELSE step' = "unimplemented" /\ UNCHANGED stack
    /\ UNCHANGED <<lifecycle, prerequisites, sorted, visited, ordered>>

\* visit goes on to the next prerequisite.
VisitPrerequisite ==
    LET top == stack[Len(stack)]
    IN  /\ step = "visit" /\ stack # << >> /\ top.left # {}
        /\ \E p \in top.left :
              LET rest == [stack EXCEPT ![Len(stack)].left = @ \ {p}]
              IN  IF p \in visited THEN stack' = rest /\ UNCHANGED step
                  ELSE IF p \in Visiting THEN step' = "cycle" /\ UNCHANGED stack
                  ELSE IF StatusOf(lifecycle, p) # "implemented"
                  THEN step' = "unimplemented" /\ UNCHANGED stack
                  ELSE stack' = Append(rest, Frame(p)) /\ UNCHANGED step
        /\ UNCHANGED <<lifecycle, prerequisites, sorted, visited, ordered>>

\* visit is done with a harness and appends it.
VisitDone ==
    /\ step = "visit" /\ stack # << >> /\ stack[Len(stack)].left = {}
    /\ visited' = visited \cup {stack[Len(stack)].harness}
    /\ ordered' = Append(ordered, stack[Len(stack)].harness)
    /\ stack' = SubSeq(stack, 1, Len(stack) - 1)
    /\ step' = IF Len(stack) = 1 THEN "ordered" ELSE "visit"
    /\ UNCHANGED <<lifecycle, prerequisites, sorted>>

RegistryNext ==
    \/ LoadLifecycle \/ SortOne \/ FinishSort
    \/ \E h \in Catalog : AskClosure(h)
    \/ VisitPrerequisite \/ VisitDone

RegistrySpec(metadata) == RegistryInit(metadata) /\ [][RegistryNext]_registryVars

-----------------------------------------------------------------------------
\* All that a harness needs, directly or not: what every set has that holds the
\* harness and, with a harness, its prerequisites.
PrerequisiteClosed(S) == \A g \in S : prerequisites[g] \subseteq S

Needs(h) == {p \in Catalog : \A S \in SUBSET Catalog : (h \in S /\ PrerequisiteClosed(S)) => p \in S}

\* A valid registry always gives a runnable order or names an unimplemented
\* harness: depth-first search finds no cycle Kahn's algorithm missed, and the
\* order holds exactly what the target needs, each once and after everything it
\* needs itself.
ClosureOrdered ==
    /\ step # "cycle"
    /\ step = "ordered" =>
          LET target == ordered[Len(ordered)]
          IN  /\ {ordered[k] : k \in DOMAIN ordered} = Needs(target)
              /\ Len(ordered) = Cardinality(Needs(target))
              /\ \A k \in DOMAIN ordered : \A p \in prerequisites[ordered[k]] :
                    \E j \in 1..(k - 1) : ordered[j] = p
=============================================================================
