-------------------------- MODULE DependencyGraph --------------------------
(***************************************************************************)
(* domain/graph.py as a state machine: analyze_dependency_graph finds the  *)
(* strongly connected components of the blocks graph (Tarjan), a cycle     *)
(* path for each cyclic one and leaves the rest evaluable; shortest paths  *)
(* are then computed from a root (affected regions, root causes).          *)
(* validate_containment_dag looks for a cycle of the contains graph and,   *)
(* if there is none, sorts it topologically.                               *)
(*                                                                         *)
(* The recursive functions of the code are loops over an explicit stack of *)
(* frames here; a frame holds the targets its for-loop has still to visit. *)
(***************************************************************************)
EXTENDS Integers, Sequences, FiniteSets

CONSTANTS
    Items,              \* nodes; naturals, because every loop runs in key order
    Subtypes            \* subtypes of blocks edges that occur: "hard", "soft"

ASSUME GraphAssumption ==
    /\ Items \subseteq Nat /\ IsFiniteSet(Items) /\ Items # {}
    /\ Subtypes \subseteq {"hard", "soft"}

VARIABLES
    edges,              \* the input: <<source, target, subtype>>
    phase,              \* what is being computed
    frames,             \* the recursion: <<[node, todo], ...>>, the active call last
    indices,            \* _TarjanState.indices, Unvisited where there is none
    low_links,          \* _TarjanState.low_links
    stack,              \* _TarjanState.stack
    components,         \* the components found so far, as sets of members
    visited,            \* the nodes a containment search has visited
    cycles,             \* cycle paths found: of components, or the containment cycle
    searched,           \* components whose cycle path has been looked for
    paths,              \* _shortest_paths: a path to each node, << >> if none
    pending,            \* _shortest_paths: the queue
    quarantined,        \* the nodes the traversal leaves out
    ready,              \* topological sort: nodes without unsorted parents
    in_degree,          \* topological sort: unsorted parents of each node
    order               \* topological sort: the result

tarjan == <<indices, low_links, stack, components>>
search == <<visited, cycles, searched>>
walk == <<paths, pending, quarantined>>
sort == <<ready, in_degree, order>>
vars == <<edges, phase, frames, tarjan, search, walk, sort>>

-----------------------------------------------------------------------------
Edge == {e \in Items \X Items \X Subtypes : e[1] # e[2]}

Adjacent(s, t) == \E k \in Subtypes : <<s, t, k>> \in edges
Targets(s) == {t \in Items : Adjacent(s, t)}
Endpoints == {n \in Items : \E m \in Items : Adjacent(n, m) \/ Adjacent(m, n)}

Unvisited == -1
Least(S) == CHOOSE n \in S : \A m \in S : n <= m
Smaller(a, b) == IF a <= b THEN a ELSE b

Frame(n) == [node |-> n, todo |-> Targets(n)]
Top == frames[Len(frames)]
NextTarget == Least(Top.todo)
Pop(s) == SubSeq(s, 1, Len(s) - 1)
OnPath(n) == \E i \in 1..Len(frames) : frames[i].node = n
Position(n) == CHOOSE i \in 1..Len(frames) : frames[i].node = n
OnStack(n) == \E i \in 1..Len(stack) : stack[i] = n

(* The path from frame i to the active call, closed by n.                  *)
PathFrom(i, n) ==
    [k \in 1..(Len(frames) - i + 2) |->
        IF k = Len(frames) - i + 2 THEN n ELSE frames[i + k - 1].node]

(* Mutant: the loop stays at the target it has looked at.                  *)
SkippedNone == frames

(* The for-loop of the active call goes on to its next target.             *)
Skipped == [frames EXCEPT ![Len(frames)].todo = @ \ {NextTarget}]

-----------------------------------------------------------------------------
(* Strongly connected components.                                          *)

NextIndex == Cardinality({n \in Items : indices[n] # Unvisited})

Visit(n) ==
    /\ indices' = [indices EXCEPT ![n] = NextIndex]
    /\ low_links' = [low_links EXCEPT ![n] = NextIndex]
    /\ stack' = Append(stack, n)
    /\ UNCHANGED <<edges, phase, components, search, walk, sort>>

VisitRoot ==
    LET roots == {n \in Items : indices[n] = Unvisited}
    IN  /\ phase = "components" /\ frames = << >> /\ roots # {}
        /\ frames' = <<Frame(Least(roots))>>
        /\ Visit(Least(roots))

(* Mutant: a finished component still lowers the links.                    *)
LowLinkAnyVisited(node, target) == Smaller(low_links[node], indices[target])

LowLink(node, target) ==
    IF OnStack(target) THEN Smaller(low_links[node], indices[target]) ELSE low_links[node]

VisitTarget ==
    /\ phase = "components" /\ frames # << >> /\ Top.todo # {}
    /\ LET target == NextTarget
       IN  IF indices[target] = Unvisited
           THEN frames' = Append(Skipped, Frame(target)) /\ Visit(target)
           ELSE /\ frames' = Skipped
                /\ low_links' = [low_links EXCEPT ![Top.node] = LowLink(Top.node, target)]
                /\ UNCHANGED <<edges, phase, indices, stack, components, search, walk, sort>>

(* _pop_component, and the caller's link after the recursive call.         *)
LeaveNode ==
    LET node == Top.node
        root == low_links[node] = indices[node]
        at == CHOOSE i \in 1..Len(stack) : stack[i] = node
    IN  /\ phase = "components" /\ frames # << >> /\ Top.todo = {}
        /\ frames' = Pop(frames)
        /\ stack' = IF root THEN SubSeq(stack, 1, at - 1) ELSE stack
        /\ components' = IF root
                         THEN components \cup {{stack[i] : i \in at..Len(stack)}}
                         ELSE components
        /\ low_links' = IF Len(frames) = 1 THEN low_links
                        ELSE LET caller == frames[Len(frames) - 1].node
                             IN  [low_links EXCEPT ![caller] =
                                     Smaller(low_links[caller], low_links[node])]
        /\ UNCHANGED <<edges, phase, indices, search, walk, sort>>

(* A component is cyclic if it has several members: edges have two ends.   *)
Cyclic(C) == Cardinality(C) > 1

EndComponents ==
    /\ phase = "components" /\ frames = << >>
    /\ \A n \in Items : indices[n] # Unvisited
    /\ phase' = "cycles"
    /\ UNCHANGED <<edges, frames, tarjan, search, walk, sort>>

-----------------------------------------------------------------------------
(* _find_component_cycle: a cycle through the first member.                *)

Unsearched == {C \in components \ searched : Cyclic(C)}
NextUnsearched == CHOOSE C \in Unsearched : \A D \in Unsearched : Least(C) <= Least(D)
Member(n) == \E C \in Unsearched : n \in C /\ frames[1].node \in C

BeginCycle ==
    /\ phase = "cycles" /\ frames = << >> /\ Unsearched # {}
    /\ frames' = <<Frame(Least(NextUnsearched))>>
    /\ UNCHANGED <<edges, phase, tarjan, search, walk, sort>>

MayFollow(n) == Member(n) /\ ~ OnPath(n)

FollowCycle ==
    /\ phase = "cycles" /\ frames # << >> /\ Top.todo # {}
    /\ LET target == NextTarget
       IN  IF target = frames[1].node
           THEN /\ cycles' = cycles \cup {PathFrom(1, target)}
                /\ searched' = searched \cup {C \in Unsearched : target \in C}
                /\ frames' = << >>
           ELSE /\ frames' = IF MayFollow(target)
                             THEN Append(Skipped, Frame(target)) ELSE Skipped
                /\ UNCHANGED <<cycles, searched>>
    /\ UNCHANGED <<edges, phase, tarjan, visited, walk, sort>>

(* A branch without a cycle; if it was the first, the component has none.  *)
BacktrackCycle ==
    /\ phase = "cycles" /\ frames # << >> /\ Top.todo = {}
    /\ searched' = IF Len(frames) > 1 THEN searched
                   ELSE searched \cup {C \in Unsearched : frames[1].node \in C}
    /\ frames' = Pop(frames)
    /\ UNCHANGED <<edges, phase, tarjan, visited, cycles, walk, sort>>

Invalid == {n \in Items : \E C \in components : Cyclic(C) /\ n \in C}
Evaluable == Items \ Invalid

(* hard_blockers_by_target, over the edges between evaluable items.        *)
HardBlockers(t) == {s \in Evaluable : t \in Evaluable /\ <<s, t, "hard">> \in edges}

-----------------------------------------------------------------------------
(* _shortest_paths.  The root causes are computed over the edges between   *)
(* evaluable items; traverse_affected_region leaves out the nodes its      *)
(* caller names, none by default, and then meets the cycles.               *)

BeginPaths(root, left_out) ==
    /\ phase = "cycles" /\ frames = << >> /\ Unsearched = {}
    /\ root \notin left_out
    /\ phase' = "paths"
    /\ quarantined' = left_out
    /\ paths' = [paths EXCEPT ![root] = <<root>>]
    /\ pending' = <<root>>
    /\ UNCHANGED <<edges, frames, tarjan, search, sort>>

PathTargets(s) == {t \in Targets(s) : s \notin quarantined /\ t \notin quarantined}

(* _path_key: by length, then node by node.                                *)
Better(p, q) ==
    \/ q = << >>
    \/ Len(p) < Len(q)
    \/ /\ Len(p) = Len(q)
       /\ \E i \in 1..Len(p) : p[i] < q[i] /\ \A h \in 1..(i - 1) : p[h] = q[h]

Candidate(t) == Append(paths[Head(pending)], t)

Improved == {t \in PathTargets(Head(pending)) : Better(Candidate(t), paths[t])}

(* The improved targets in key order.                                      *)
InOrder(S) ==
    [k \in 1..Cardinality(S) |->
        CHOOSE n \in S : Cardinality({m \in S : m < n}) = k - 1]

Relax ==
    /\ phase = "paths" /\ pending # << >>
    /\ paths' = [t \in Items |-> IF t \in Improved THEN Candidate(t) ELSE paths[t]]
    /\ pending' = Tail(pending) \o InOrder(Improved)
    /\ UNCHANGED <<edges, phase, frames, tarjan, search, quarantined, sort>>

EndPaths ==
    /\ phase = "paths" /\ pending = << >>
    /\ phase' = "done"
    /\ UNCHANGED <<edges, frames, tarjan, search, walk, sort>>

-----------------------------------------------------------------------------
(* validate_containment_dag: _find_directed_cycle, then the sort.          *)

DetectRoot ==
    LET roots == Endpoints \ visited
    IN  /\ phase = "detect" /\ frames = << >> /\ roots # {}
        /\ frames' = <<Frame(Least(roots))>>
        /\ visited' = visited \cup {Least(roots)}
        /\ UNCHANGED <<edges, phase, tarjan, cycles, searched, walk, sort>>

ClosesCycle(n) == OnPath(n)

DetectTarget ==
    /\ phase = "detect" /\ frames # << >> /\ Top.todo # {}
    /\ LET target == NextTarget
       IN  IF target \notin visited
           THEN /\ frames' = Append(Skipped, Frame(target))
                /\ visited' = visited \cup {target}
                /\ UNCHANGED <<phase, cycles>>
           ELSE IF ClosesCycle(target)
           THEN /\ cycles' = {PathFrom(Position(target), target)}
                /\ frames' = << >>
                /\ phase' = "rejected"
                /\ UNCHANGED visited
           ELSE frames' = Skipped /\ UNCHANGED <<phase, visited, cycles>>
    /\ UNCHANGED <<edges, tarjan, searched, walk, sort>>

DetectLeave ==
    /\ phase = "detect" /\ frames # << >> /\ Top.todo = {}
    /\ frames' = Pop(frames)
    /\ UNCHANGED <<edges, phase, tarjan, search, walk, sort>>

Parents(n) == {m \in Items : Adjacent(m, n)}

BeginSort ==
    /\ phase = "detect" /\ frames = << >> /\ Endpoints \subseteq visited
    /\ in_degree' = [n \in Items |-> Cardinality(Parents(n))]
    /\ ready' = {n \in Endpoints : Parents(n) = {}}
    /\ phase' = "sort"
    /\ UNCHANGED <<edges, frames, tarjan, search, walk, order>>

Freed(n) == {t \in Targets(n) : in_degree[t] = 1}

SortNode ==
    LET n == Least(ready)
    IN  /\ phase = "sort" /\ ready # {}
        /\ order' = Append(order, n)
        /\ in_degree' = [t \in Items |-> IF t \in Targets(n) THEN in_degree[t] - 1
                                                             ELSE in_degree[t]]
        /\ ready' = (ready \ {n}) \cup Freed(n)
        /\ UNCHANGED <<edges, phase, frames, tarjan, search, walk>>

EndSort ==
    /\ phase = "sort" /\ ready = {}
    /\ phase' = "sorted"
    /\ UNCHANGED <<edges, frames, tarjan, search, walk, sort>>

-----------------------------------------------------------------------------
Init ==
    /\ edges \in SUBSET Edge
    /\ phase \in {"components", "detect"}
    /\ frames = << >>
    /\ indices = [n \in Items |-> Unvisited]
    /\ low_links = [n \in Items |-> Unvisited]
    /\ stack = << >>
    /\ components = {}
    /\ visited = {}
    /\ cycles = {}
    /\ searched = {}
    /\ paths = [n \in Items |-> << >>]
    /\ pending = << >>
    /\ quarantined = {}
    /\ ready = {}
    /\ in_degree = [n \in Items |-> 0]
    /\ order = << >>

Next ==
    \/ VisitRoot \/ VisitTarget \/ LeaveNode \/ EndComponents
    \/ BeginCycle \/ FollowCycle \/ BacktrackCycle
    \/ \E root \in Items, left_out \in {{}, Invalid} : BeginPaths(root, left_out)
    \/ Relax \/ EndPaths
    \/ DetectRoot \/ DetectTarget \/ DetectLeave
    \/ BeginSort \/ SortNode \/ EndSort

Spec == Init /\ [][Next]_vars

(* The functions run to their end.                                         *)
FairSpec == Spec /\ WF_vars(Next)

-----------------------------------------------------------------------------
(* References: reachability and paths, without an algorithm.               *)

Closed(S) == \A n \in S : Targets(n) \subseteq S
Reaches(a, b) == \A S \in SUBSET Items : a \in S /\ Closed(S) => b \in S
ComponentOf(n) == {m \in Items : Reaches(n, m) /\ Reaches(m, n)}

(* The same over the nodes of a traversal.                                 *)
Traversed == Items \ quarantined
ReachesTraversed(a, b) ==
    \A S \in SUBSET Traversed : a \in S /\ (\A n \in S : PathTargets(n) \subseteq S) => b \in S

Walk(p) == \A i \in 1..(Len(p) - 1) : Adjacent(p[i], p[i + 1])

(* A closed walk that visits no node twice on its way.                     *)
RealCycle(p) ==
    /\ Len(p) > 2
    /\ Walk(p)
    /\ p[1] = p[Len(p)]
    /\ \A i, j \in 1..(Len(p) - 1) : p[i] = p[j] => i = j

Phases == {"components", "cycles", "paths", "done", "detect", "rejected", "sort", "sorted"}

(* Type correctness of the input and of every function's local state.      *)
TypeOK ==
    /\ edges \subseteq Edge
    /\ phase \in Phases
    /\ frames \in Seq([node : Items, todo : SUBSET Items])
    /\ indices \in [Items -> Int]
    /\ low_links \in [Items -> Int]
    /\ stack \in Seq(Items)
    /\ components \subseteq SUBSET Items
    /\ visited \subseteq Items
    /\ cycles \subseteq Seq(Items)
    /\ searched \subseteq components
    /\ paths \in [Items -> Seq(Items)]
    /\ pending \in Seq(Items)
    /\ quarantined \subseteq Items
    /\ ready \subseteq Items
    /\ in_degree \in [Items -> Nat]
    /\ order \in Seq(Items)

(* Every component Tarjan's traversal pops is a whole strongly connected   *)
(* component, at the moment it is popped, and in the end every node is in  *)
(* one: what is quarantined is exactly what lies on a cycle.               *)
ComponentsExact ==
    /\ \A C \in components : \A n \in C : C = ComponentOf(n)
    /\ phase \notin {"components", "detect", "rejected", "sort", "sorted"} =>
           \A n \in Items : \E C \in components : n \in C

(* Whatever is reported as a cycle, of a component or of the containment   *)
(* graph, is one.                                                          *)
CyclesReal == \A p \in cycles : RealCycle(p)

(* Each cyclic component gets a cycle path: the search never gives up on   *)
(* one, and stays inside it.                                               *)
CyclicComponentsExplained ==
    \A C \in searched : \E p \in cycles : \A i \in 1..Len(p) : p[i] \in C

(* p is the path the code promises: of all shortest ones from the root the *)
(* first in key order.                                                     *)
BestPath(root, t, p) ==
    \A n \in 1..Len(p) : \A q \in [1..n -> Traversed] :
        q[1] = root /\ q[n] = t /\ Walk(q) => ~ Better(q, p)

(* When a traversal ends it has a path to exactly the nodes that can be    *)
(* reached without a quarantined one, and no better path exists, with or   *)
(* without cycles in the graph.                                            *)
ShortestPathsExact ==
    phase = "done" =>
        \A root \in Items : paths[root] = <<root>> =>
            \A t \in Traversed :
                /\ paths[t] # << >> <=> ReachesTraversed(root, t)
                /\ paths[t] # << >> => /\ paths[t][1] = root /\ paths[t][Len(paths[t])] = t
                                       /\ Walk(paths[t])
                                       /\ BestPath(root, t, paths[t])

(* The containment graph is rejected exactly if it has a cycle, and sorted *)
(* parents before children otherwise, each node once.                      *)
ContainmentDecided ==
    /\ phase = "rejected" => \E n \in Items : ComponentOf(n) # {n}
    /\ phase = "sorted" =>
           /\ {order[i] : i \in 1..Len(order)} = Endpoints
           /\ \A i, j \in 1..Len(order) :
                  (Adjacent(order[i], order[j]) => i < j) /\ (order[i] = order[j] => i = j)

(* Every call returns, whatever the graph.                                 *)
Terminates == <>(phase \in {"done", "rejected", "sorted"})

(* Exactly the items on a cycle are quarantined, and an item that is not   *)
(* behind one keeps all its hard blockers.  Of an item with a blocker on a *)
(* cycle it says nothing.                                                  *)
QuarantineExact ==
    phase = "done" =>
        LET onCycle == {n \in Items : ComponentOf(n) # {n}}
            direct(t) == {s \in Items : <<s, t, "hard">> \in edges}
        IN  /\ Invalid = onCycle
            /\ \A t \in Items \ onCycle :
                   direct(t) \cap onCycle = {} => HardBlockers(t) = direct(t)

(* On every graph each traversal of the module computes what its           *)
(* declarative counterpart says: components, cycles and quarantine, best   *)
(* paths, and whether containment can be sorted (graph.py).                *)
GraphAnswersExact ==
    /\ ComponentsExact /\ CyclesReal /\ CyclicComponentsExplained
    /\ QuarantineExact /\ ShortestPathsExact /\ ContainmentDecided
=============================================================================
