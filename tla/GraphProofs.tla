---------------------------- MODULE GraphProofs ----------------------------
(***************************************************************************)
(* Proofs, for every finite set of items and every graph over it, that the *)
(* traversals of domain/graph.py compute what their declarative            *)
(* counterparts say.  Each traversal has an inductive invariant of its     *)
(* own, over the frames of its recursion:                                  *)
(*   FramesInv    the frames form a path of distinct nodes;                *)
(*   TarjanInv    the stack above a frame is what the frame reaches, and   *)
(*                low_links bounds how far down the way back goes;         *)
(*   ExplainInv   what a cycle search has given up on is sealed off from   *)
(*                its first node by the path it is on;                     *)
(*   PathsInv     a node that is not pending cannot improve a neighbour;   *)
(*   DetectInv    what a containment search has left is acyclic;           *)
(*   SortInv      in_degree counts the unsorted parents.                   *)
(***************************************************************************)
EXTENDS DependencyGraph, FiniteSetTheorems, SequenceTheorems, WellFoundedInduction, TLAPS

Depth == Len(frames)
NodeAt(i) == frames[i].node
TodoAt(i) == frames[i].todo

\* What the for-loop of frame i is done with.
DoneAt(i) == Targets(NodeAt(i)) \ TodoAt(i)

Searching == phase \in {"components", "cycles", "detect"}

-----------------------------------------------------------------------------
(* The invariants.                                                         *)

\* The recursion: each call was made for a target of its caller.
FramesPath ==
    /\ \A i \in 1..Depth : TodoAt(i) \subseteq Targets(NodeAt(i))
    /\ \A i \in 1..(Depth - 1) : NodeAt(i + 1) \in DoneAt(i)
    /\ \A i, j \in 1..Depth : NodeAt(i) = NodeAt(j) => i = j
    /\ \A i, j \in 1..Depth : i <= j => Reaches(NodeAt(i), NodeAt(j))

FramesInv ==
    /\ FramesPath
    /\ ~ Searching => frames = << >>
    /\ phase = "components" => \A i \in 1..Depth : indices[NodeAt(i)] # Unvisited
    /\ phase = "detect" => \A i \in 1..Depth : NodeAt(i) \in visited

Sorting == phase \in {"detect", "rejected", "sort", "sorted"}

\* What Tarjan's traversal has visited, and what it has finished.
Visited == {n \in Items : indices[n] # Unvisited}
Settled == UNION components

StackOrdered ==
    \A a, b \in 1..Len(stack) : a < b => indices[stack[a]] < indices[stack[b]]

VisitedSplit ==
    /\ \A n \in Items : n \in Visited <=> (OnStack(n) \/ n \in Settled)
    /\ \A n \in Items : ~ (OnStack(n) /\ n \in Settled)
    /\ \A n \in Visited : indices[n] \in 0..(NextIndex - 1)

SettledExact ==
    /\ Closed(Settled)
    /\ \A C \in components : \A n \in C : C = ComponentOf(n)

\* The frames are on the stack, in order, and nothing is below the first.
FramesStacked ==
    /\ \A i \in 1..Depth : OnStack(NodeAt(i))
    /\ \A i, j \in 1..Depth : i < j => indices[NodeAt(i)] < indices[NodeAt(j)]
    /\ \A n \in Items : OnStack(n) => Depth > 0 /\ indices[n] >= indices[NodeAt(1)]

\* A loop visits what it is done with, and a call that has returned is done.
DoneVisited ==
    /\ \A i \in 1..Depth : DoneAt(i) \subseteq Visited
    /\ \A n \in Items : OnStack(n) /\ ~ OnPath(n) => Targets(n) \subseteq Visited

\* A frame reaches all that is above it on the stack.
AboveReached ==
    \A i \in 1..Depth : \A n \in Items :
        OnStack(n) /\ indices[n] >= indices[NodeAt(i)] => Reaches(NodeAt(i), n)

\* A finished node still on the stack leads further down.
FinishedReturns ==
    \A n \in Items : OnStack(n) /\ ~ OnPath(n) =>
        \E m \in Items : OnStack(m) /\ indices[m] < indices[n] /\ Reaches(n, m)

LowLinkReached ==
    \A i \in 1..Depth :
        /\ low_links[NodeAt(i)] <= indices[NodeAt(i)]
        /\ \E m \in Items : /\ OnStack(m) /\ Reaches(NodeAt(i), m)
                            /\ low_links[NodeAt(i)] = indices[m]

\* The targets looked at so far, from n in frame i's part of the stack.
InPart(n, i) ==
    /\ OnStack(n) /\ indices[n] >= indices[NodeAt(i)]
    /\ i < Depth => indices[n] < indices[NodeAt(i + 1)]

Looked(n, i) == IF n = NodeAt(i) THEN DoneAt(i) ELSE Targets(n)

LowLinkLeast ==
    \A i \in 1..Depth : \A n \in Items : InPart(n, i) =>
        \A t \in Looked(n, i) : OnStack(t) => low_links[NodeAt(i)] <= indices[t]

TraversalInv ==
    /\ StackOrdered /\ VisitedSplit /\ FramesStacked /\ DoneVisited
    /\ AboveReached /\ FinishedReturns /\ LowLinkReached /\ LowLinkLeast

TarjanInv ==
    /\ SettledExact
    /\ phase = "components" => TraversalInv
    /\ phase \in {"cycles", "paths", "done"} => Settled = Items
    /\ Sorting => components = {}

-----------------------------------------------------------------------------
(* The search for a cycle through r, the first node of component C.        *)

\* The nodes of the path after r, up to frame i.
PathAfter(i) == {NodeAt(j) : j \in 2..i}

\* S cannot be left inside C but by the path.
Sealed(S, C, i) ==
    /\ S \subseteq C /\ NodeAt(1) \notin S
    /\ \A n \in S : Targets(n) \cap C \subseteq S \cup PathAfter(i)

\* The targets in C frame i has looked at and come back from.
GivenUp(C, i) == {t \in DoneAt(i) \cap C : i < Depth => t # NodeAt(i + 1)}

\* The search is on a path in C, and what each frame has given up is sealed off.
SearchIn(C) ==
    /\ \A i \in 1..Depth : NodeAt(i) \in C
    /\ \A i \in 1..Depth : \E S \in SUBSET C :
           Sealed(S, C, i) /\ GivenUp(C, i) \subseteq S \cup PathAfter(i)

ExplainInv ==
    /\ phase = "cycles" /\ Depth > 0 => \E C \in Unsearched : SearchIn(C)
    /\ phase = "components" \/ Sorting => searched = {}
    /\ CyclicComponentsExplained

-----------------------------------------------------------------------------
(* Shortest paths.                                                         *)

Pending(n) == \E i \in 1..Len(pending) : pending[i] = n

\* p is a path from the root to t that keeps to the nodes of the traversal.
IsPath(p, root, t) ==
    /\ p # << >> /\ p \in Seq(Traversed)
    /\ p[1] = root /\ p[Len(p)] = t
    /\ Walk(p)

GoodPath(root, t) == IsPath(paths[t], root, t)

PathsFrom(root) ==
    /\ paths[root] = <<root>>
    /\ \A t \in Items : paths[t] # << >> => GoodPath(root, t)
    /\ \A t \in Items : Pending(t) => paths[t] # << >>
    /\ \A s \in Items : paths[s] # << >> /\ ~ Pending(s) =>
          \A t \in PathTargets(s) : ~ Better(Append(paths[s], t), paths[t])

PathsInv ==
    /\ phase \in {"paths", "done"} => \E root \in Traversed : PathsFrom(root)
    /\ phase \notin {"paths", "done"} => \A t \in Items : paths[t] = << >>
    /\ phase = "done" => pending = << >>

-----------------------------------------------------------------------------
(* Containment.                                                            *)

Left == {n \in visited : ~ OnPath(n)}

\* f ranks the edges that leave N, below b.
Ranked(f, b, N) ==
    \A n \in N : f[n] < b /\ \A t \in Targets(n) : f[t] < f[n]

LeftAcyclic == Closed(Left) /\ \E f \in [Items -> Nat], b \in Nat : Ranked(f, b, Left)

\* A frame has left what it is done with, but for the call it is making.
DoneLeft ==
    \A i \in 1..Depth : \A t \in DoneAt(i) : t \in Left \/ (i < Depth /\ t = NodeAt(i + 1))

DetectInv ==
    /\ phase = "detect" => LeftAcyclic /\ DoneLeft
    /\ phase = "rejected" => \E n \in Items : ComponentOf(n) # {n}

Sorted == {order[i] : i \in 1..Len(order)}

ParentsFirst ==
    /\ \A i, j \in 1..Len(order) :
           (Adjacent(order[i], order[j]) => i < j) /\ (order[i] = order[j] => i = j)
    /\ Sorted \subseteq Endpoints
    /\ \A n \in Sorted : Parents(n) \subseteq Sorted

UnsortedCounted ==
    /\ \A n \in Items : in_degree[n] = Cardinality(Parents(n) \ Sorted)
    /\ ready = {n \in Endpoints \ Sorted : Parents(n) \subseteq Sorted}

EndpointsAcyclic == \E f \in [Items -> Nat], b \in Nat : Ranked(f, b, Endpoints)

SortInv ==
    /\ phase \in {"sort", "sorted"} => ParentsFirst /\ UnsortedCounted /\ EndpointsAcyclic
    /\ phase = "sorted" => ready = {}
    /\ phase \notin {"sort", "sorted"} => order = << >>

GraphInv ==
    TypeOK /\ FramesInv /\ CyclesReal /\ TarjanInv /\ ExplainInv /\ PathsInv /\ DetectInv /\ SortInv

-----------------------------------------------------------------------------
(* Lemmas about numbers, reachability and the frames.                      *)

LEMMA LeastNumber ==
    ASSUME NEW S \in SUBSET Nat, S # {}
    PROVE  \E x \in S : \A y \in S : x <= y
  <1> DEFINE R == {ss \in Nat \X Nat : ss[1] < ss[2]}
  <1>1. OpToRel(<, Nat) = R
    BY Zenon DEF OpToRel
  <1>2. IsWellFoundedOn(R, Nat)
    BY <1>1, NatLessThanWellFounded, Zenon
  <1>3. PICK x \in S : \A y \in S : ~ (<<y, x>> \in R)
    <2> HIDE DEF R
    <2>1. QED BY <1>2, WFMin
  <1>4. ASSUME NEW y \in S PROVE x <= y
    <2>1. <<y, x>> \in Nat \X Nat
      OBVIOUS
    <2>2. QED BY <1>3, <2>1
  <1>5. QED BY <1>4

LEMMA LeastIsLeast ==
    ASSUME NEW S \in SUBSET Nat, S # {}
    PROVE  Least(S) \in S /\ \A m \in S : Least(S) <= m
  <1>1. \E n \in S : \A m \in S : n <= m
    BY LeastNumber
  <1>2. QED BY <1>1 DEF Least

LEMMA LeastItem ==
    ASSUME NEW S \in SUBSET Items, S # {}
    PROVE  Least(S) \in S /\ \A m \in S : Least(S) <= m
  <1>1. S \in SUBSET Nat
    BY GraphAssumption
  <1>2. QED BY <1>1, LeastIsLeast

LEMMA ItemsFinite == \A S \in SUBSET Items : IsFiniteSet(S)
  BY GraphAssumption, FS_Subset

\* An edge has two ends, both of them items.
LEMMA TargetsAreItems ==
    ASSUME TypeOK
    PROVE  \A s \in Items : Targets(s) \subseteq Items /\ s \notin Targets(s)
  <1>1. edges \subseteq Edge
    BY DEF TypeOK
  <1>2. \A s, t \in Items, k \in Subtypes : <<s, t, k>> \in Edge => s # t
    BY DEF Edge
  <1>3. QED BY <1>1, <1>2 DEF Targets, Adjacent

LEMMA ReachesSelf == \A a : Reaches(a, a)
  BY DEF Reaches

LEMMA ReachesClosed ==
    ASSUME NEW S \in SUBSET Items, Closed(S), NEW a \in S, NEW b, Reaches(a, b)
    PROVE  b \in S
  BY DEF Reaches

LEMMA ReachesEdge == \A a : \A b \in Targets(a) : Reaches(a, b)
  BY DEF Reaches, Closed

LEMMA ReachesTransitive ==
    ASSUME NEW a, NEW b, NEW c, Reaches(a, b), Reaches(b, c)
    PROVE  Reaches(a, c)
  BY DEF Reaches

LEMMA InItsComponent == \A n \in Items : n \in ComponentOf(n)
  BY ReachesSelf DEF ComponentOf

\* The answers depend on the graph only, which no step changes.
LEMMA GraphStays ==
    ASSUME edges' = edges
    PROVE  /\ \A s, t : Adjacent(s, t)' = Adjacent(s, t)
           /\ \A s : Targets(s)' = Targets(s)
           /\ \A s : Parents(s)' = Parents(s)
           /\ Endpoints' = Endpoints
           /\ \A S : Closed(S)' = Closed(S)
           /\ \A a, b : Reaches(a, b)' = Reaches(a, b)
           /\ \A n : ComponentOf(n)' = ComponentOf(n)
           /\ \A p : Walk(p)' = Walk(p)
           /\ \A p : RealCycle(p)' = RealCycle(p)
  <1>1. \A s, t : Adjacent(s, t)' = Adjacent(s, t)
    BY DEF Adjacent
  <1>2. \A s : Targets(s)' = Targets(s)
    BY <1>1 DEF Targets
  <1>3. \A s : Parents(s)' = Parents(s)
    BY <1>1 DEF Parents
  <1>4. Endpoints' = Endpoints
    BY <1>1 DEF Endpoints
  <1>5. \A S : Closed(S)' = Closed(S)
    BY <1>2 DEF Closed
  <1>6. \A a, b : Reaches(a, b)' = Reaches(a, b)
    BY <1>5 DEF Reaches
  <1>7. \A n : ComponentOf(n)' = ComponentOf(n)
    BY <1>6 DEF ComponentOf
  <1>8. \A p : Walk(p)' = Walk(p)
    BY <1>1 DEF Walk
  <1>9. \A p : RealCycle(p)' = RealCycle(p)
    BY <1>8 DEF RealCycle
  <1>10. QED BY <1>1, <1>2, <1>3, <1>4, <1>5, <1>6, <1>7, <1>8, <1>9

LEMMA EdgesStay == [Next]_vars => edges' = edges
  BY DEF Next, vars, VisitRoot, VisitTarget, LeaveNode, Visit, EndComponents, BeginCycle,
         FollowCycle, BacktrackCycle, BeginPaths, Relax, EndPaths, DetectRoot, DetectTarget,
         DetectLeave, BeginSort, SortNode, EndSort

-----------------------------------------------------------------------------
(* How a step changes the frames.                                          *)

FrameType == [node : Items, todo : SUBSET Items]

LEMMA FramesTyped ==
    ASSUME TypeOK
    PROVE  /\ frames \in Seq(FrameType) /\ Depth \in Nat
           /\ \A i \in 1..Depth : frames[i] \in FrameType /\ NodeAt(i) \in Items
                                  /\ TodoAt(i) \subseteq Items
           /\ frames # << >> <=> Depth > 0
           /\ Depth > 0 => Top = frames[Depth]
  <1>1. frames \in Seq(FrameType)
    BY DEF TypeOK, FrameType
  <1>2. Depth \in Nat /\ \A i \in 1..Depth : frames[i] \in FrameType
    BY <1>1 DEF Depth
  <1>3. \A i \in 1..Depth : NodeAt(i) \in Items /\ TodoAt(i) \subseteq Items
    BY <1>2 DEF NodeAt, TodoAt, FrameType
  <1>4. frames # << >> <=> Depth > 0
    BY <1>1 DEF Depth
  <1>5. QED BY <1>1, <1>2, <1>3, <1>4 DEF Top, Depth

\* The next target is one of those still to visit.
LEMMA NextTargetInTodo ==
    ASSUME TypeOK, frames # << >>, Top.todo # {}
    PROVE  NextTarget \in TodoAt(Depth) /\ NextTarget \in Items
  <1>1. Depth \in 1..Depth /\ Top = frames[Depth] /\ TodoAt(Depth) \subseteq Items
    BY FramesTyped
  <1>2. Top.todo \in SUBSET Items
    BY <1>1 DEF TodoAt
  <1>3. QED BY <1>1, <1>2, LeastItem DEF NextTarget, TodoAt

\* The frames before the step, but for the target the last one is done with.
Advanced(i) == IF i = Depth THEN TodoAt(i) \ {NextTarget} ELSE TodoAt(i)

LEMMA SkippedFrames ==
    ASSUME TypeOK, frames # << >>, Top.todo # {}
    PROVE  /\ Skipped \in Seq(FrameType) /\ Len(Skipped) = Depth
           /\ \A i \in 1..Depth : Skipped[i].node = NodeAt(i) /\ Skipped[i].todo = Advanced(i)
  <1>1. frames \in Seq(FrameType) /\ Depth \in 1..Depth
    BY FramesTyped
  <1>2. \A i \in 1..Depth : frames[i] \in FrameType
    BY FramesTyped
  <1>3. PICK r : r = [frames[Depth] EXCEPT !.todo = frames[Depth].todo \ {NextTarget}]
    OBVIOUS
  <1>4. r \in FrameType /\ r.node = NodeAt(Depth) /\ r.todo = TodoAt(Depth) \ {NextTarget}
    BY <1>1, <1>2, <1>3 DEF FrameType, NodeAt, TodoAt
  <1>5. Skipped = [frames EXCEPT ![Depth] = r]
    BY <1>1, <1>3 DEF Skipped, Depth
  <1>6. /\ Skipped \in Seq(FrameType)
        /\ Len(Skipped) = Depth
        /\ \A i \in 1..Depth : Skipped[i] = IF i = Depth THEN r ELSE frames[i]
    BY <1>1, <1>4, <1>5, ExceptSeq DEF Depth
  <1>7. QED BY <1>4, <1>6 DEF Advanced, NodeAt, TodoAt

LEMMA NewFrame == \A n \in Items : Frame(n) \in FrameType /\ Frame(n).node = n /\ Frame(n).todo = Targets(n)
  BY DEF Frame, FrameType, Targets

LEMMA FramesPushed ==
    ASSUME TypeOK, frames # << >>, Top.todo # {}, NEW n \in Items, NEW d, d = Depth,
           frames' = Append(Skipped, Frame(n))
    PROVE  /\ frames' \in Seq(FrameType) /\ d \in Nat /\ d > 0 /\ Depth' = d + 1
           /\ \A i \in 1..d : NodeAt(i)' = NodeAt(i) /\ TodoAt(i)' = Advanced(i)
           /\ NodeAt(d + 1)' = n /\ TodoAt(d + 1)' = Targets(n)
  <1>1. Frame(n) \in FrameType /\ Frame(n).node = n /\ Frame(n).todo = Targets(n)
    BY NewFrame
  <1>2. /\ Skipped \in Seq(FrameType) /\ Len(Skipped) = d
        /\ \A i \in 1..d : Skipped[i].node = NodeAt(i) /\ Skipped[i].todo = Advanced(i)
    BY SkippedFrames
  <1>3. /\ frames' \in Seq(FrameType) /\ Len(frames') = d + 1
        /\ \A i \in 1..d : frames'[i] = Skipped[i]
        /\ frames'[d + 1] = Frame(n)
    BY <1>1, <1>2, AppendProperties
  <1>4. d \in Nat /\ d > 0
    BY FramesTyped
  <1>5. QED BY <1>1, <1>2, <1>3, <1>4 DEF Depth, NodeAt, TodoAt

LEMMA FramesSkipped ==
    ASSUME TypeOK, frames # << >>, Top.todo # {}, NEW d, d = Depth, frames' = Skipped
    PROVE  /\ frames' \in Seq(FrameType) /\ d \in Nat /\ d > 0 /\ Depth' = d
           /\ \A i \in 1..d : NodeAt(i)' = NodeAt(i) /\ TodoAt(i)' = Advanced(i)
  BY SkippedFrames, FramesTyped DEF Depth, NodeAt, TodoAt

LEMMA FramesPopped ==
    ASSUME TypeOK, frames # << >>, NEW d, d = Depth, frames' = Pop(frames)
    PROVE  /\ frames' \in Seq(FrameType) /\ d \in Nat /\ d > 0 /\ Depth' = d - 1
           /\ \A i \in 1..(d - 1) : NodeAt(i)' = NodeAt(i) /\ TodoAt(i)' = TodoAt(i)
  <1>1. /\ frames \in Seq(FrameType) /\ d \in Nat /\ d > 0 /\ d = Len(frames)
        /\ \A i \in 1..d : frames[i] \in FrameType
    BY FramesTyped DEF Depth
  <1>2. frames' = SubSeq(frames, 1, d - 1)
    BY <1>1 DEF Pop
  <1>3. /\ SubSeq(frames, 1, d - 1) \in Seq(FrameType)
        /\ Len(SubSeq(frames, 1, d - 1)) = d - 1
        /\ \A i \in 1..(d - 1) : SubSeq(frames, 1, d - 1)[i] = frames[i]
    BY <1>1, SubSeqProperties
  <1>4. QED BY <1>1, <1>2, <1>3 DEF Depth, NodeAt, TodoAt

LEMMA FramesBegun ==
    ASSUME NEW n \in Items, frames' = <<Frame(n)>>
    PROVE  /\ frames' \in Seq(FrameType) /\ Depth' = 1
           /\ NodeAt(1)' = n /\ TodoAt(1)' = Targets(n)
  BY NewFrame DEF Depth, NodeAt, TodoAt

LEMMA FramesEnded ==
    ASSUME frames' = << >>
    PROVE  frames' \in Seq(FrameType) /\ Depth' = 0
  BY DEF Depth

LEMMA FramesStay ==
    ASSUME frames' = frames
    PROVE  Depth' = Depth /\ \A i : NodeAt(i)' = NodeAt(i) /\ TodoAt(i)' = TodoAt(i)
  BY DEF Depth, NodeAt, TodoAt

-----------------------------------------------------------------------------
(* The frames form a path.                                                 *)

LEMMA PathPushed ==
    ASSUME TypeOK, FramesPath, edges' = edges, frames # << >>, Top.todo # {},
           ~ OnPath(NextTarget), frames' = Append(Skipped, Frame(NextTarget))
    PROVE  FramesPath'
  <1>1. PICK d : d = Depth
    OBVIOUS
  <1>2. PICK n : n = NextTarget
    OBVIOUS
  <1>3. n \in TodoAt(d) /\ n \in Items
    BY <1>1, <1>2, NextTargetInTodo
  <1>4. /\ d \in Nat /\ d > 0 /\ Depth' = d + 1
        /\ \A i \in 1..d : NodeAt(i)' = NodeAt(i) /\ TodoAt(i)' = Advanced(i)
        /\ NodeAt(d + 1)' = n /\ TodoAt(d + 1)' = Targets(n)
    BY <1>1, <1>2, <1>3, FramesPushed
  <1>5. \A s : Targets(s)' = Targets(s)
    BY GraphStays
  <1>6. \A a, b : Reaches(a, b)' = Reaches(a, b)
    BY GraphStays
  <1>7. \A i \in 1..d : Advanced(i) \subseteq TodoAt(i)
    BY DEF Advanced
  <1>8. n \in Targets(NodeAt(d)) /\ n \notin Advanced(d)
    BY <1>1, <1>2, <1>3, <1>4 DEF FramesPath, Advanced
  <1>9. \A i \in 1..d : NodeAt(i) # n
    BY <1>1, <1>2 DEF OnPath, NodeAt, Depth
  <1>10. \A i \in 1..(d + 1) : i \in 1..d \/ i = d + 1
    BY <1>4
  <1>11. (\A i \in 1..Depth : TodoAt(i) \subseteq Targets(NodeAt(i)))'
    BY <1>1, <1>4, <1>5, <1>7, <1>10 DEF FramesPath
  <1>12. (\A i \in 1..(Depth - 1) : NodeAt(i + 1) \in DoneAt(i))'
    <2> SUFFICES ASSUME NEW i \in 1..d
                 PROVE  (NodeAt(i + 1) \in DoneAt(i))'
      BY <1>4
    <2>1. CASE i = d
      BY <1>4, <1>5, <1>8, <2>1 DEF DoneAt
    <2>2. CASE i < d
      <3>1. i \in 1..(d - 1) /\ i + 1 \in 1..d
        BY <1>4, <2>2
      <3>2. NodeAt(i + 1) \in DoneAt(i)
        BY <1>1, <3>1 DEF FramesPath
      <3>3. QED BY <1>4, <1>5, <1>7, <3>1, <3>2 DEF DoneAt
    <2>3. QED BY <1>4, <2>1, <2>2
  <1>13. (\A i, j \in 1..Depth : NodeAt(i) = NodeAt(j) => i = j)'
    BY <1>1, <1>4, <1>9, <1>10 DEF FramesPath
  <1>14. (\A i, j \in 1..Depth : i <= j => Reaches(NodeAt(i), NodeAt(j)))'
    <2> SUFFICES ASSUME NEW i \in 1..(d + 1), NEW j \in 1..(d + 1), i <= j
                 PROVE  Reaches(NodeAt(i), NodeAt(j))'
      BY <1>4
    <2>1. CASE j \in 1..d
      <3>1. i \in 1..d
        BY <1>4, <2>1
      <3>2. Reaches(NodeAt(i), NodeAt(j))
        BY <1>1, <2>1, <3>1 DEF FramesPath
      <3>3. QED BY <1>4, <1>6, <2>1, <3>1, <3>2
    <2>2. CASE i = d + 1 /\ j = d + 1
      BY <1>4, <1>6, <2>2, ReachesSelf
    <2>3. CASE i \in 1..d /\ j = d + 1
      <3>1. Reaches(NodeAt(i), NodeAt(d))
        BY <1>1, <1>4, <2>3 DEF FramesPath
      <3>2. Reaches(NodeAt(d), n)
        BY <1>8, ReachesEdge
      <3>3. Reaches(NodeAt(i), n)
        BY <3>1, <3>2, ReachesTransitive
      <3>4. QED BY <1>4, <1>6, <2>3, <3>3
    <2>4. QED BY <1>4, <1>10, <2>1, <2>2, <2>3
  <1>15. QED BY <1>11, <1>12, <1>13, <1>14 DEF FramesPath

LEMMA PathSkipped ==
    ASSUME TypeOK, FramesPath, edges' = edges, frames # << >>, Top.todo # {}, frames' = Skipped
    PROVE  FramesPath'
  <1>1. PICK d : d = Depth
    OBVIOUS
  <1>2. /\ d \in Nat /\ Depth' = d
        /\ \A i \in 1..d : NodeAt(i)' = NodeAt(i) /\ TodoAt(i)' = Advanced(i)
    BY <1>1, FramesSkipped
  <1>3. \A s : Targets(s)' = Targets(s)
    BY GraphStays
  <1>4. \A a, b : Reaches(a, b)' = Reaches(a, b)
    BY GraphStays
  <1>5. \A i \in 1..d : Advanced(i) \subseteq TodoAt(i)
    BY DEF Advanced
  <1>6. QED BY <1>1, <1>2, <1>3, <1>4, <1>5 DEF FramesPath, DoneAt

LEMMA PathPopped ==
    ASSUME TypeOK, FramesPath, edges' = edges, frames # << >>, frames' = Pop(frames)
    PROVE  FramesPath'
  <1>1. PICK d : d = Depth
    OBVIOUS
  <1>2. /\ d \in Nat /\ d > 0 /\ Depth' = d - 1
        /\ \A i \in 1..(d - 1) : NodeAt(i)' = NodeAt(i) /\ TodoAt(i)' = TodoAt(i)
    BY <1>1, FramesPopped
  <1>3. \A s : Targets(s)' = Targets(s)
    BY GraphStays
  <1>4. \A a, b : Reaches(a, b)' = Reaches(a, b)
    BY GraphStays
  <1>5. QED BY <1>1, <1>2, <1>3, <1>4 DEF FramesPath, DoneAt

LEMMA PathBegun ==
    ASSUME edges' = edges, NEW n \in Items, frames' = <<Frame(n)>>
    PROVE  FramesPath'
  <1>1. Depth' = 1 /\ NodeAt(1)' = n /\ TodoAt(1)' = Targets(n)
    BY FramesBegun
  <1>2. \A s : Targets(s)' = Targets(s)
    BY GraphStays
  <1>3. \A a, b : Reaches(a, b)' = Reaches(a, b)
    BY GraphStays
  <1>4. \A i \in 1..1 : i = 1
    OBVIOUS
  <1>5. QED BY <1>1, <1>2, <1>3, <1>4, ReachesSelf DEF FramesPath, DoneAt

LEMMA PathEnded ==
    ASSUME frames' = << >>
    PROVE  FramesPath'
  <1>1. Depth' = 0
    BY FramesEnded
  <1>2. QED BY <1>1 DEF FramesPath

LEMMA PathStays ==
    ASSUME FramesPath, UNCHANGED <<edges, frames>>
    PROVE  FramesPath'
  <1>1. /\ \A s : Targets(s)' = Targets(s)
        /\ \A a, b : Reaches(a, b)' = Reaches(a, b)
    BY GraphStays
  <1>2. Depth' = Depth /\ \A i : NodeAt(i)' = NodeAt(i) /\ TodoAt(i)' = TodoAt(i)
    BY FramesStay
  <1>3. QED BY <1>1, <1>2 DEF FramesPath, DoneAt

LEMMA NextIndexIsNumber == NextIndex \in Nat /\ NextIndex # Unvisited
  <1>1. {n \in Items : indices[n] # Unvisited} \in SUBSET Items
    OBVIOUS
  <1>2. NextIndex \in Nat
    BY <1>1, ItemsFinite, FS_CardinalityType DEF NextIndex
  <1>3. QED BY <1>2 DEF Unvisited

LEMMA FramesInvVisitRoot ==
    ASSUME TypeOK, FramesInv, VisitRoot
    PROVE  FramesInv'
  <1>1. PICK n \in Items : /\ frames' = <<Frame(n)>> /\ indices' = [indices EXCEPT ![n] = NextIndex]
                           /\ edges' = edges /\ phase' = "components"
    <2> DEFINE roots == {n \in Items : indices[n] = Unvisited}
    <2>1. roots # {} /\ Least(roots) \in Items
      BY LeastItem DEF VisitRoot
    <2>2. QED BY <2>1 DEF VisitRoot, Visit
  <1>2. FramesPath'
    BY <1>1, PathBegun
  <1>3. Depth' = 1 /\ NodeAt(1)' = n
    BY <1>1, FramesBegun
  <1>4. indices'[n] # Unvisited
    BY <1>1, NextIndexIsNumber DEF TypeOK
  <1>5. \A i \in 1..1 : i = 1
    OBVIOUS
  <1>6. QED BY <1>1, <1>2, <1>3, <1>4, <1>5 DEF FramesInv, Searching

LEMMA FramesInvVisitTarget ==
    ASSUME TypeOK, FramesInv, VisitTarget
    PROVE  FramesInv'
  <1>1. PICK d, n : d = Depth /\ n = NextTarget
    OBVIOUS
  <1>2. n \in TodoAt(d) /\ n \in Items
    BY <1>1, NextTargetInTodo DEF VisitTarget
  <1>3. phase = "components" /\ phase' = phase /\ edges' = edges /\ frames # << >> /\ Top.todo # {}
    BY DEF VisitTarget, Visit
  <1>4. \A i \in 1..d : indices[NodeAt(i)] # Unvisited /\ NodeAt(i) \in Items
    BY <1>1, <1>3, FramesTyped DEF FramesInv
  <1>5. CASE indices[n] = Unvisited
    <2>1. frames' = Append(Skipped, Frame(n)) /\ indices' = [indices EXCEPT ![n] = NextIndex]
      BY <1>1, <1>5 DEF VisitTarget, Visit
    <2>2. ~ OnPath(n)
      BY <1>1, <1>4, <1>5 DEF OnPath, NodeAt, Depth
    <2>3. FramesPath'
      BY <1>1, <1>3, <2>1, <2>2, PathPushed DEF FramesInv
    <2>4. /\ d \in Nat /\ Depth' = d + 1 /\ NodeAt(d + 1)' = n
          /\ \A i \in 1..d : NodeAt(i)' = NodeAt(i)
      BY <1>1, <1>2, <1>3, <2>1, FramesPushed
    <2>5. \A m \in Items : indices[m] # Unvisited \/ m = n => indices'[m] # Unvisited
      BY <2>1, NextIndexIsNumber DEF TypeOK
    <2>6. \A i \in 1..(d + 1) : i \in 1..d \/ i = d + 1
      BY <2>4
    <2>7. \A i \in 1..Depth' : indices'[NodeAt(i)'] # Unvisited
      BY <1>2, <1>4, <2>4, <2>5, <2>6
    <2>8. QED BY <1>3, <2>3, <2>7 DEF FramesInv, Searching
  <1>6. CASE indices[n] # Unvisited
    <2>1. frames' = Skipped /\ indices' = indices
      BY <1>1, <1>6 DEF VisitTarget
    <2>2. FramesPath'
      BY <1>3, <2>1, PathSkipped DEF FramesInv
    <2>3. Depth' = d /\ \A i \in 1..d : NodeAt(i)' = NodeAt(i)
      BY <1>1, <1>3, <2>1, FramesSkipped
    <2>4. QED BY <1>3, <1>4, <2>1, <2>2, <2>3 DEF FramesInv, Searching
  <1>7. QED BY <1>5, <1>6

\* A return keeps the frames below.
LEMMA FramesInvPopped ==
    ASSUME TypeOK, FramesInv, frames # << >>, frames' = Pop(frames), phase' = phase,
           edges' = edges, indices' = indices, visited' = visited
    PROVE  FramesInv'
  <1>1. PICK d : d = Depth
    OBVIOUS
  <1>2. FramesPath'
    BY PathPopped DEF FramesInv
  <1>3. d \in Nat /\ d > 0 /\ Depth' = d - 1 /\ \A i \in 1..(d - 1) : NodeAt(i)' = NodeAt(i)
    BY <1>1, FramesPopped
  <1>4. phase = "components" => \A i \in 1..d : indices[NodeAt(i)] # Unvisited
    BY <1>1 DEF FramesInv
  <1>5. phase = "detect" => \A i \in 1..d : NodeAt(i) \in visited
    BY <1>1 DEF FramesInv
  <1>6. phase = "components" => \A i \in 1..Depth' : indices'[NodeAt(i)'] # Unvisited
    BY <1>3, <1>4
  <1>7. phase = "detect" => \A i \in 1..Depth' : NodeAt(i)' \in visited'
    BY <1>3, <1>5
  <1>8. QED BY <1>2, <1>6, <1>7 DEF FramesInv, Searching

\* Between the searches there are no frames.
LEMMA FramesInvEmpty ==
    ASSUME frames' = << >>
    PROVE  FramesInv'
  <1>1. FramesPath'
    BY PathEnded
  <1>2. Depth' = 0
    BY FramesEnded
  <1>3. \A i : i \notin 1..0
    OBVIOUS
  <1>4. QED BY <1>1, <1>2, <1>3 DEF FramesInv

LEMMA LeastUnsearched ==
    ASSUME TypeOK, Unsearched # {}
    PROVE  /\ NextUnsearched \in Unsearched
           /\ Least(NextUnsearched) \in NextUnsearched
           /\ NextUnsearched \subseteq Items
  <1>1. \A C \in Unsearched : C \in SUBSET Items /\ C # {}
    <2> SUFFICES ASSUME NEW C \in Unsearched PROVE C \in SUBSET Items /\ C # {}
      OBVIOUS
    <2>1. C \in SUBSET Items /\ Cyclic(C)
      BY DEF Unsearched, TypeOK
    <2>2. C # {}
      BY <2>1, FS_EmptySet DEF Cyclic
    <2>3. QED BY <2>1, <2>2
  <1>2. \A C \in Unsearched : Least(C) \in C
    BY <1>1, LeastItem
  <1>3. \E C \in Unsearched : \A D \in Unsearched : Least(C) <= Least(D)
    <2> DEFINE N == {Least(C) : C \in Unsearched}
    <2>1. N \in SUBSET Nat /\ N # {}
      <3>1. \A C \in Unsearched : Least(C) \in Nat
        BY <1>1, <1>2, GraphAssumption
      <3>2. QED BY <3>1
    <2>2. PICK x \in N : \A y \in N : x <= y
      <3> HIDE DEF N
      <3>1. QED BY <2>1, LeastNumber
    <2>3. QED BY <2>2
  <1>4. NextUnsearched \in Unsearched
    BY <1>3 DEF NextUnsearched
  <1>5. QED BY <1>1, <1>2, <1>4

LEMMA FramesInvBeginCycle ==
    ASSUME TypeOK, FramesInv, BeginCycle
    PROVE  FramesInv'
  <1>1. PICK n \in Items : frames' = <<Frame(n)>> /\ edges' = edges /\ phase' = "cycles"
    BY LeastUnsearched DEF BeginCycle
  <1>2. FramesPath'
    BY <1>1, PathBegun
  <1>3. QED BY <1>1, <1>2 DEF FramesInv, Searching

LEMMA FramesInvFollowCycle ==
    ASSUME TypeOK, FramesInv, FollowCycle
    PROVE  FramesInv'
  <1>1. /\ phase = "cycles" /\ phase' = "cycles" /\ edges' = edges
        /\ frames # << >> /\ Top.todo # {}
    BY DEF FollowCycle
  <1>2. CASE frames' = << >>
    BY <1>2, FramesInvEmpty
  <1>3. CASE frames' = Append(Skipped, Frame(NextTarget)) /\ MayFollow(NextTarget)
    <2>1. FramesPath'
      BY <1>1, <1>3, PathPushed DEF FramesInv, MayFollow
    <2>2. QED BY <1>1, <2>1 DEF FramesInv, Searching
  <1>4. CASE frames' = Skipped
    <2>1. FramesPath'
      BY <1>1, <1>4, PathSkipped DEF FramesInv
    <2>2. QED BY <1>1, <2>1 DEF FramesInv, Searching
  <1>5. QED BY <1>2, <1>3, <1>4 DEF FollowCycle

LEMMA FramesInvDetectRoot ==
    ASSUME TypeOK, FramesInv, DetectRoot
    PROVE  FramesInv'
  <1>1. PICK n \in Items : /\ frames' = <<Frame(n)>> /\ visited' = visited \cup {n}
                           /\ edges' = edges /\ phase' = "detect"
    <2> DEFINE roots == Endpoints \ visited
    <2>1. roots \in SUBSET Items /\ roots # {}
      BY DEF DetectRoot, Endpoints
    <2>2. Least(roots) \in Items
      BY <2>1, LeastItem
    <2>3. QED BY <2>1, <2>2 DEF DetectRoot
  <1>2. FramesPath'
    BY <1>1, PathBegun
  <1>3. Depth' = 1 /\ NodeAt(1)' = n
    BY <1>1, FramesBegun
  <1>4. \A i \in 1..1 : i = 1
    OBVIOUS
  <1>5. QED BY <1>1, <1>2, <1>3, <1>4 DEF FramesInv, Searching

LEMMA FramesInvDetectTarget ==
    ASSUME TypeOK, FramesInv, DetectTarget
    PROVE  FramesInv'
  <1>1. PICK d, n : d = Depth /\ n = NextTarget
    OBVIOUS
  <1>2. n \in TodoAt(d) /\ n \in Items
    BY <1>1, NextTargetInTodo DEF DetectTarget
  <1>3. phase = "detect" /\ edges' = edges /\ frames # << >> /\ Top.todo # {}
    BY DEF DetectTarget
  <1>4. \A i \in 1..d : NodeAt(i) \in visited
    BY <1>1, <1>3 DEF FramesInv
  <1>5. CASE n \notin visited
    <2>1. frames' = Append(Skipped, Frame(n)) /\ visited' = visited \cup {n} /\ phase' = "detect"
      BY <1>1, <1>3, <1>5 DEF DetectTarget
    <2>2. ~ OnPath(n)
      BY <1>1, <1>4, <1>5 DEF OnPath, NodeAt, Depth
    <2>3. FramesPath'
      BY <1>1, <1>3, <2>1, <2>2, PathPushed DEF FramesInv
    <2>4. /\ d \in Nat /\ Depth' = d + 1 /\ NodeAt(d + 1)' = n
          /\ \A i \in 1..d : NodeAt(i)' = NodeAt(i)
      BY <1>1, <1>2, <1>3, <2>1, FramesPushed
    <2>5. \A i \in 1..(d + 1) : i \in 1..d \/ i = d + 1
      BY <2>4
    <2>6. \A i \in 1..Depth' : NodeAt(i)' \in visited'
      BY <1>4, <2>1, <2>4, <2>5
    <2>7. QED BY <2>1, <2>3, <2>6 DEF FramesInv, Searching
  <1>6. CASE frames' = << >>
    BY <1>6, FramesInvEmpty
  <1>7. CASE frames' = Skipped /\ UNCHANGED <<phase, visited>>
    <2>1. FramesPath'
      BY <1>3, <1>7, PathSkipped DEF FramesInv
    <2>2. Depth' = d /\ \A i \in 1..d : NodeAt(i)' = NodeAt(i)
      BY <1>1, <1>3, <1>7, FramesSkipped
    <2>3. QED BY <1>3, <1>4, <1>7, <2>1, <2>2 DEF FramesInv, Searching
  <1>8. QED BY <1>1, <1>5, <1>6, <1>7 DEF DetectTarget

LEMMA FramesInvStep ==
    ASSUME TypeOK, FramesInv, [Next]_vars
    PROVE  FramesInv'
  <1>1. CASE VisitRoot
    BY <1>1, FramesInvVisitRoot
  <1>2. CASE VisitTarget
    BY <1>2, FramesInvVisitTarget
  <1>3. CASE LeaveNode \/ BacktrackCycle \/ DetectLeave
    BY <1>3, FramesInvPopped, Zenon DEF LeaveNode, BacktrackCycle, DetectLeave, search, tarjan
  <1>4. CASE BeginCycle
    BY <1>4, FramesInvBeginCycle
  <1>5. CASE FollowCycle
    BY <1>5, FramesInvFollowCycle
  <1>6. CASE DetectRoot
    BY <1>6, FramesInvDetectRoot
  <1>7. CASE DetectTarget
    BY <1>7, FramesInvDetectTarget
  <1>8. CASE EndComponents \/ (\E root \in Items, left_out \in {{}, Invalid} : BeginPaths(root, left_out))
             \/ BeginSort
    BY <1>8, FramesInvEmpty DEF EndComponents, BeginPaths, BeginSort
  <1>9. CASE Relax \/ EndPaths \/ SortNode \/ EndSort
    <2>1. frames' = frames /\ ~ Searching
      BY <1>9 DEF Relax, EndPaths, SortNode, EndSort, Searching
    <2>2. QED BY <2>1, FramesInvEmpty DEF FramesInv
  <1>10. CASE UNCHANGED vars
    <2>1. FramesPath'
      BY <1>10, PathStays DEF FramesInv, vars
    <2>2. Depth' = Depth /\ \A i : NodeAt(i)' = NodeAt(i) /\ TodoAt(i)' = TodoAt(i)
      BY <1>10, FramesStay DEF vars
    <2>3. QED BY <1>10, <2>1, <2>2 DEF FramesInv, Searching, vars, tarjan, search
  <1>11. QED
    BY <1>1, <1>2, <1>3, <1>4, <1>5, <1>6, <1>7, <1>8, <1>9, <1>10 DEF Next

-----------------------------------------------------------------------------
(* Reported cycles are real.                                               *)

LEMMA ClosedPath ==
    ASSUME TypeOK, FramesPath, Depth > 0, NEW i \in 1..Depth,
           NEW n \in Targets(NodeAt(Depth)), n = NodeAt(i)
    PROVE  /\ PathFrom(i, n) \in Seq(Items) /\ RealCycle(PathFrom(i, n))
           /\ \A k \in 1..Len(PathFrom(i, n)) : \E j \in i..Depth : PathFrom(i, n)[k] = NodeAt(j)
  <1>1. PICK d : d = Depth
    OBVIOUS
  <1>2. d \in Nat /\ i \in 1..d /\ \A j \in 1..d : NodeAt(j) \in Items
    BY <1>1, FramesTyped
  <1>3. i < d
    BY <1>1, <1>2, TargetsAreItems
  <1> DEFINE m == d - i + 2
  <1>4. m \in Nat /\ m > 2 /\ i + m - 2 = d
    BY <1>2, <1>3
  <1>5. PICK p : p = PathFrom(i, n)
    OBVIOUS
  <1>6. p = [k \in 1..m |-> IF k = m THEN n ELSE NodeAt(i + k - 1)]
    BY <1>1, <1>5 DEF PathFrom, NodeAt, Depth
  <1> HIDE DEF m
  <1>7. \A k \in 1..m : p[k] = IF k = m THEN n ELSE NodeAt(i + k - 1)
    BY <1>6
  <1>8. \A k \in 1..m : k # m => i + k - 1 \in i..d /\ i + k - 1 \in 1..d
    BY <1>2, <1>4
  <1>9. \A k \in 1..m : p[k] \in Items
    BY <1>2, <1>7, <1>8
  <1>10. p \in Seq(Items) /\ Len(p) = m
    <2>1. p \in [1..m -> Items]
      BY <1>6, <1>9
    <2>2. QED BY <1>4, <2>1
  <1>11. \A k \in 1..m : \E j \in i..d : p[k] = NodeAt(j)
    <2>1. i \in i..d
      BY <1>2, <1>3
    <2>2. QED BY <1>7, <1>8, <2>1
  <1>12. \A k \in 1..(m - 1) : k \in 1..m /\ k # m /\ k + 1 \in 1..m /\ p[k] = NodeAt(i + k - 1)
    BY <1>4, <1>7
  <1>13. Walk(p)
    <2> SUFFICES ASSUME NEW k \in 1..(m - 1) PROVE Adjacent(p[k], p[k + 1])
      BY <1>10 DEF Walk
    <2>1. p[k] = NodeAt(i + k - 1) /\ i + k - 1 \in 1..d
      BY <1>8, <1>12
    <2>2. CASE k = m - 1
      <3>1. i + k - 1 = d /\ k + 1 = m /\ m \in 1..m
        BY <1>4, <2>2
      <3>2. p[k] = NodeAt(d) /\ p[k + 1] = n
        BY <1>7, <2>1, <3>1
      <3>3. QED BY <1>1, <3>2 DEF Targets
    <2>3. CASE k # m - 1
      <3>1. k + 1 \in 1..(m - 1) /\ i + k - 1 \in 1..(d - 1) /\ i + (k + 1) - 1 = (i + k - 1) + 1
        BY <1>2, <1>4, <2>3
      <3>2. p[k + 1] = NodeAt((i + k - 1) + 1)
        BY <1>12, <3>1
      <3>3. NodeAt((i + k - 1) + 1) \in Targets(NodeAt(i + k - 1))
        BY <1>1, <3>1 DEF FramesPath, DoneAt
      <3>4. QED BY <2>1, <3>2, <3>3 DEF Targets
    <2>4. QED BY <2>2, <2>3
  <1>14. p[1] = p[Len(p)]
    <2>1. 1 \in 1..(m - 1) /\ m \in 1..m /\ i + 1 - 1 = i
      BY <1>2, <1>4
    <2>2. p[1] = NodeAt(i) /\ p[m] = n
      BY <1>7, <1>12, <2>1
    <2>3. QED BY <1>10, <2>2
  <1>15. ASSUME NEW a \in 1..(m - 1), NEW b \in 1..(m - 1), p[a] = p[b] PROVE a = b
    <2>1. i + a - 1 \in 1..d /\ i + b - 1 \in 1..d
      BY <1>8, <1>12
    <2>2. i + a - 1 = i + b - 1
      BY <1>1, <1>12, <1>15, <2>1 DEF FramesPath
    <2>3. QED BY <1>2, <1>4, <2>2
  <1>16. RealCycle(p)
    BY <1>4, <1>10, <1>13, <1>14, <1>15 DEF RealCycle
  <1>17. QED BY <1>1, <1>5, <1>10, <1>11, <1>16

\* The target an active call looks at next is one of its node.
LEMMA NextTargetFollows ==
    ASSUME TypeOK, FramesPath, frames # << >>, Top.todo # {}
    PROVE  Depth \in Nat /\ Depth > 0 /\ NextTarget \in Targets(NodeAt(Depth))
  BY FramesTyped, NextTargetInTodo DEF FramesPath

LEMMA CyclesRealStep ==
    ASSUME TypeOK, FramesInv, CyclesReal, [Next]_vars
    PROVE  CyclesReal' /\ (cycles \subseteq Seq(Items))'
  <1>1. edges' = edges
    BY EdgesStay
  <1>2. \A p \in cycles : RealCycle(p)' /\ p \in Seq(Items)
    BY <1>1, GraphStays DEF CyclesReal, TypeOK
  <1>3. CASE cycles' = cycles
    BY <1>2, <1>3 DEF CyclesReal
  <1>4. CASE FollowCycle
    <2>1. CASE NextTarget = frames[1].node
      <3>1. PICK p : p = PathFrom(1, NextTarget)
        OBVIOUS
      <3>2. 1 \in 1..Depth
        BY <1>4, NextTargetFollows DEF FollowCycle, FramesInv
      <3>3. RealCycle(p) /\ p \in Seq(Items)
        BY <1>4, <2>1, <3>1, <3>2, NextTargetFollows, ClosedPath DEF FollowCycle, FramesInv, NodeAt
      <3>4. cycles' = cycles \cup {p} /\ RealCycle(p)'
        BY <1>1, <1>4, <2>1, <3>1, <3>3, GraphStays DEF FollowCycle
      <3>5. QED BY <1>2, <3>3, <3>4 DEF CyclesReal
    <2>2. CASE NextTarget # frames[1].node
      BY <1>3, <1>4, <2>2 DEF FollowCycle
    <2>3. QED BY <2>1, <2>2
  <1>5. CASE DetectTarget
    <2>1. CASE ClosesCycle(NextTarget) /\ NextTarget \in visited
      <3>1. PICK p : p = PathFrom(Position(NextTarget), NextTarget)
        OBVIOUS
      <3>2. Position(NextTarget) \in 1..Depth /\ NextTarget = NodeAt(Position(NextTarget))
        BY <2>1 DEF ClosesCycle, OnPath, Position, Depth, NodeAt
      <3>3. RealCycle(p) /\ p \in Seq(Items)
        BY <1>5, <3>1, <3>2, NextTargetFollows, ClosedPath DEF DetectTarget, FramesInv
      <3>4. cycles' = {p} /\ RealCycle(p)'
        BY <1>1, <1>5, <2>1, <3>1, <3>3, GraphStays DEF DetectTarget
      <3>5. QED BY <3>3, <3>4 DEF CyclesReal
    <2>2. CASE ~ (ClosesCycle(NextTarget) /\ NextTarget \in visited)
      BY <1>3, <1>5, <2>2 DEF DetectTarget
    <2>3. QED BY <2>1, <2>2
  <1>6. CASE ~ FollowCycle /\ ~ DetectTarget
    <2>1. cycles' = cycles
      BY <1>6, Zenon DEF Next, vars, search, VisitRoot, VisitTarget, LeaveNode, Visit, EndComponents,
         BeginCycle, BacktrackCycle, BeginPaths, Relax, EndPaths, DetectRoot, DetectLeave,
         BeginSort, SortNode, EndSort
    <2>2. QED BY <1>3, <2>1
  <1>7. QED BY <1>4, <1>5, <1>6

-----------------------------------------------------------------------------
(* Tarjan's traversal.                                                     *)

LEMMA OnPathIs == \A n : OnPath(n) <=> \E i \in 1..Depth : NodeAt(i) = n
  BY DEF OnPath, NodeAt, Depth

LEMMA OnPathWillBe == \A n : OnPath(n)' <=> \E i \in 1..Depth' : NodeAt(i)' = n
  BY DEF OnPath, NodeAt, Depth

LEMMA StackTyped ==
    ASSUME TypeOK
    PROVE  /\ Len(stack) \in Nat
           /\ \A a \in 1..Len(stack) : stack[a] \in Items /\ OnStack(stack[a])
           /\ \A n : OnStack(n) => n \in Items
           /\ \A n \in Items : indices[n] \in Int /\ low_links[n] \in Int
           /\ components \subseteq SUBSET Items /\ Settled \subseteq Items
  <1>1. stack \in Seq(Items) /\ indices \in [Items -> Int] /\ low_links \in [Items -> Int]
        /\ components \subseteq SUBSET Items
    BY DEF TypeOK
  <1>2. Len(stack) \in Nat /\ \A a \in 1..Len(stack) : stack[a] \in Items
    BY <1>1
  <1>3. \A a \in 1..Len(stack) : OnStack(stack[a])
    BY DEF OnStack
  <1>4. \A n : OnStack(n) => n \in Items
    BY <1>2 DEF OnStack
  <1>5. QED BY <1>1, <1>2, <1>3, <1>4 DEF Settled

LEMMA SettledExactStays ==
    ASSUME SettledExact, edges' = edges, components' = components
    PROVE  SettledExact'
  <1>1. /\ \A S : Closed(S)' = Closed(S)
        /\ \A n : ComponentOf(n)' = ComponentOf(n)
    BY GraphStays
  <1>2. Settled' = Settled
    BY DEF Settled
  <1>3. QED BY <1>1, <1>2 DEF SettledExact

\* A node is visited: by VisitRoot, when there are no frames, or as the target of the
\* active call.
LEMMA TraversalVisits ==
    ASSUME TypeOK, FramesPath, TraversalInv,
           NEW n \in Items, indices[n] = Unvisited, Visit(n),
           NEW d \in Nat, d = Depth, Depth' = d + 1, NodeAt(d + 1)' = n, DoneAt(d + 1)' = {},
           \A i \in 1..d : NodeAt(i)' = NodeAt(i) /\ DoneAt(i)' \subseteq DoneAt(i) \cup {n},
           d > 0 => n \in Targets(NodeAt(d))
    PROVE  TraversalInv'
  <1>1. PICK k \in Nat : k = NextIndex
    BY NextIndexIsNumber
  <1>2. /\ \A m \in Items : indices'[m] = IF m = n THEN k ELSE indices[m]
        /\ \A m \in Items : low_links'[m] = IF m = n THEN k ELSE low_links[m]
        /\ components' = components /\ edges' = edges /\ stack' = Append(stack, n)
    BY <1>1 DEF Visit, TypeOK
  <1>3. PICK l \in Nat : l = Len(stack)
    BY StackTyped
  <1>4. /\ Len(stack') = l + 1 /\ stack'[l + 1] = n
        /\ \A a \in 1..l : stack'[a] = stack[a] /\ stack[a] \in Items /\ OnStack(stack[a])
    <2>1. stack \in Seq(Items)
      BY DEF TypeOK
    <2>2. Len(stack') = l + 1 /\ stack'[l + 1] = n /\ \A a \in 1..l : stack'[a] = stack[a]
      BY <1>2, <1>3, <2>1, AppendProperties
    <2>3. \A a \in 1..l : stack[a] \in Items /\ OnStack(stack[a])
      BY <1>3, StackTyped
    <2>4. QED BY <2>2, <2>3
  <1>5. \A a \in 1..(l + 1) : a \in 1..l \/ a = l + 1
    BY <1>3
  <1>6. \A m : OnStack(m)' <=> OnStack(m) \/ m = n
    <2>1. \A m : OnStack(m)' <=> \E a \in 1..(l + 1) : stack'[a] = m
      BY <1>4 DEF OnStack
    <2>2. \A m : OnStack(m) <=> \E a \in 1..l : stack[a] = m
      BY <1>3 DEF OnStack
    <2>3. l + 1 \in 1..(l + 1) /\ \A a \in 1..l : a \in 1..(l + 1)
      BY <1>3
    <2>4. QED BY <1>4, <1>5, <2>1, <2>2, <2>3
  <1>7. Visited' = Visited \cup {n} /\ n \notin Visited /\ Visited \in SUBSET Items
    <2>1. k # Unvisited
      BY <1>1, NextIndexIsNumber
    <2>2. \A m \in Items : indices'[m] # Unvisited <=> indices[m] # Unvisited \/ m = n
      BY <1>2, <2>1
    <2>3. QED BY <2>2 DEF Visited
  <1>8. NextIndex' = k + 1
    <2>1. IsFiniteSet(Visited) /\ k = Cardinality(Visited)
      BY <1>1, <1>7, ItemsFinite DEF NextIndex, Visited
    <2>2. Cardinality(Visited \cup {n}) = k + 1
      BY <1>7, <2>1, FS_AddElement
    <2>3. NextIndex' = Cardinality(Visited')
      BY DEF NextIndex, Visited
    <2>4. QED BY <1>7, <2>2, <2>3
  <1>9. Settled' = Settled
    BY <1>2 DEF Settled
  <1>10. \A m : OnStack(m) => m \in Items /\ m # n /\ indices[m] \in 0..(k - 1) /\ indices'[m] = indices[m]
    <2>1. \A m : OnStack(m) => m \in Items /\ m \in Visited
      BY StackTyped DEF TraversalInv, VisitedSplit
    <2>2. \A m \in Visited : indices[m] \in 0..(k - 1) /\ m # n
      BY <1>1, <1>7 DEF TraversalInv, VisitedSplit
    <2>3. QED BY <1>2, <2>1, <2>2
  <1>11. \A i \in 1..(d + 1) : i \in 1..d \/ i = d + 1
    OBVIOUS
  <1>12. \A i \in 1..d : NodeAt(i) \in Items /\ OnStack(NodeAt(i)) /\ NodeAt(i) # n
    BY <1>10, FramesTyped DEF TraversalInv, FramesStacked
  <1>13. \A m : OnPath(m)' <=> OnPath(m) \/ m = n
    <2>1. \A m : OnPath(m)' <=> \E i \in 1..(d + 1) : NodeAt(i)' = m
      BY OnPathWillBe
    <2>2. \A m : OnPath(m) <=> \E i \in 1..d : NodeAt(i) = m
      BY OnPathIs
    <2>3. d + 1 \in 1..(d + 1) /\ \A i \in 1..d : i \in 1..(d + 1)
      OBVIOUS
    <2>4. QED BY <1>11, <2>1, <2>2, <2>3
  <1>14. \A a : Targets(a)' = Targets(a)
    BY <1>2, GraphStays
  <1>15. \A a, b : Reaches(a, b)' = Reaches(a, b)
    BY <1>2, GraphStays
  <1>16. StackOrdered'
    <2> SUFFICES ASSUME NEW a \in 1..(l + 1), NEW b \in 1..(l + 1), a < b
                 PROVE  indices'[stack'[a]] < indices'[stack'[b]]
      BY <1>4 DEF StackOrdered
    <2>1. a \in 1..l
      BY <1>3
    <2>2. indices'[stack'[a]] = indices[stack[a]] /\ indices[stack[a]] \in 0..(k - 1)
      BY <1>4, <1>10, <2>1
    <2>3. CASE b \in 1..l
      <3>1. indices[stack[a]] < indices[stack[b]]
        BY <1>3, <2>1, <2>3 DEF TraversalInv, StackOrdered
      <3>2. indices'[stack'[b]] = indices[stack[b]]
        BY <1>4, <1>10, <2>3
      <3>3. QED BY <2>2, <3>1, <3>2
    <2>4. CASE b = l + 1
      <3>1. indices'[stack'[b]] = k
        BY <1>2, <1>4, <2>4
      <3>2. QED BY <2>2, <3>1
    <2>5. QED BY <1>5, <2>3, <2>4
  <1>17. VisitedSplit'
    <2>1. \A m \in Items : m \in Visited' <=> OnStack(m)' \/ m \in Settled'
      BY <1>6, <1>7, <1>9 DEF TraversalInv, VisitedSplit
    <2>2. \A m \in Items : ~ (OnStack(m)' /\ m \in Settled')
      BY <1>6, <1>7, <1>9 DEF TraversalInv, VisitedSplit
    <2>3. \A m \in Visited' : indices'[m] \in 0..((k + 1) - 1)
      <3>1. \A m \in Visited : indices[m] \in 0..(k - 1) /\ indices'[m] = indices[m]
        BY <1>1, <1>2, <1>7 DEF TraversalInv, VisitedSplit
      <3>2. indices'[n] = k
        BY <1>2
      <3>3. QED BY <1>7, <3>1, <3>2
    <2>4. QED BY <1>8, <2>1, <2>2, <2>3 DEF VisitedSplit
  <1>18. FramesStacked'
    <2>1. \A i \in 1..(d + 1) : OnStack(NodeAt(i))'
      <3>1. \A i \in 1..d : OnStack(NodeAt(i))'
        BY <1>6, <1>12
      <3>2. QED BY <1>6, <1>11, <3>1
    <2>2. \A i, j \in 1..(d + 1) : i < j => indices'[NodeAt(i)'] < indices'[NodeAt(j)']
      <3> SUFFICES ASSUME NEW i \in 1..(d + 1), NEW j \in 1..(d + 1), i < j
                   PROVE  indices'[NodeAt(i)'] < indices'[NodeAt(j)']
        OBVIOUS
      <3>1. i \in 1..d
        OBVIOUS
      <3>2. indices'[NodeAt(i)'] = indices[NodeAt(i)] /\ indices[NodeAt(i)] \in 0..(k - 1)
        BY <1>10, <1>12, <3>1
      <3>3. CASE j \in 1..d
        <4>1. indices[NodeAt(i)] < indices[NodeAt(j)]
          BY <3>1, <3>3 DEF TraversalInv, FramesStacked
        <4>2. indices'[NodeAt(j)'] = indices[NodeAt(j)]
          BY <1>10, <1>12, <3>3
        <4>3. QED BY <3>2, <4>1, <4>2
      <3>4. CASE j = d + 1
        <4>1. indices'[NodeAt(j)'] = k
          BY <1>2, <3>4
        <4>2. QED BY <3>2, <4>1
      <3>5. QED BY <1>11, <3>3, <3>4
    <2>3. \A m \in Items : OnStack(m)' => indices'[m] >= indices'[NodeAt(1)']
      <3> SUFFICES ASSUME NEW m \in Items, OnStack(m)'
                   PROVE  indices'[m] >= indices'[NodeAt(1)']
        OBVIOUS
      <3>1. CASE d = 0
        <4>1. m = n /\ NodeAt(1)' = n
          BY <1>6, <3>1 DEF TraversalInv, FramesStacked
        <4>2. QED BY <1>2, <4>1
      <3>2. CASE d > 0
        <4>1. 1 \in 1..d
          BY <3>2
        <4>2. indices'[NodeAt(1)'] = indices[NodeAt(1)] /\ indices[NodeAt(1)] \in 0..(k - 1)
          BY <1>10, <1>12, <4>1
        <4>3. CASE m = n
          BY <1>2, <4>2, <4>3
        <4>4. CASE m # n
          BY <1>2, <1>6, <4>2, <4>4 DEF TraversalInv, FramesStacked
        <4>5. QED BY <4>3, <4>4
      <3>3. QED BY <3>1, <3>2
    <2>4. QED BY <2>1, <2>2, <2>3 DEF FramesStacked
  <1>19. DoneVisited'
    <2>1. \A i \in 1..(d + 1) : DoneAt(i)' \subseteq Visited'
      BY <1>7, <1>11 DEF TraversalInv, DoneVisited
    <2>2. \A m \in Items : OnStack(m)' /\ ~ OnPath(m)' => Targets(m)' \subseteq Visited'
      BY <1>6, <1>7, <1>13, <1>14 DEF TraversalInv, DoneVisited
    <2>3. QED BY <2>1, <2>2 DEF DoneVisited
  <1>20. AboveReached'
    <2> SUFFICES ASSUME NEW i \in 1..(d + 1), NEW m \in Items, OnStack(m)',
                        indices'[m] >= indices'[NodeAt(i)']
                 PROVE  Reaches(NodeAt(i), m)'
      BY DEF AboveReached
    <2>1. CASE i = d + 1
      <3>1. indices'[m] >= k
        BY <1>2, <2>1
      <3>2. m = n
        BY <1>6, <1>10, <3>1
      <3>3. QED BY <1>15, <2>1, <3>2, ReachesSelf
    <2>2. CASE i \in 1..d /\ m = n
      <3>1. Reaches(NodeAt(i), NodeAt(d)) /\ Reaches(NodeAt(d), n)
        BY <2>2, ReachesEdge DEF FramesPath
      <3>2. Reaches(NodeAt(i), n)
        BY <3>1, ReachesTransitive
      <3>3. QED BY <1>15, <2>2, <3>2
    <2>3. CASE i \in 1..d /\ m # n
      <3>1. OnStack(m) /\ indices[m] >= indices[NodeAt(i)]
        BY <1>6, <1>10, <1>12, <2>3
      <3>2. Reaches(NodeAt(i), m)
        BY <2>3, <3>1 DEF TraversalInv, AboveReached
      <3>3. QED BY <1>15, <2>3, <3>2
    <2>4. QED BY <1>11, <2>1, <2>2, <2>3
  <1>21. FinishedReturns'
    <2> SUFFICES ASSUME NEW m \in Items, OnStack(m)', ~ OnPath(m)'
                 PROVE  \E o \in Items : OnStack(o)' /\ indices'[o] < indices'[m] /\ Reaches(m, o)'
      BY DEF FinishedReturns
    <2>1. OnStack(m) /\ ~ OnPath(m)
      BY <1>6, <1>13
    <2>2. PICK o \in Items : OnStack(o) /\ indices[o] < indices[m] /\ Reaches(m, o)
      BY <2>1 DEF TraversalInv, FinishedReturns
    <2>3. QED BY <1>6, <1>10, <1>15, <2>1, <2>2
  <1>22. LowLinkReached'
    <2> SUFFICES ASSUME NEW i \in 1..(d + 1)
                 PROVE  /\ low_links'[NodeAt(i)'] <= indices'[NodeAt(i)']
                        /\ \E m \in Items : /\ OnStack(m)' /\ Reaches(NodeAt(i), m)'
                                            /\ low_links'[NodeAt(i)'] = indices'[m]
      BY DEF LowLinkReached
    <2>1. CASE i = d + 1
      BY <1>2, <1>6, <1>15, <2>1, ReachesSelf
    <2>2. CASE i \in 1..d
      <3>1. /\ low_links'[NodeAt(i)'] = low_links[NodeAt(i)]
            /\ indices'[NodeAt(i)'] = indices[NodeAt(i)]
        BY <1>2, <1>12, <2>2
      <3>2. PICK m \in Items : /\ OnStack(m) /\ Reaches(NodeAt(i), m)
                               /\ low_links[NodeAt(i)] = indices[m]
        BY <2>2 DEF TraversalInv, LowLinkReached
      <3>3. low_links[NodeAt(i)] <= indices[NodeAt(i)]
        BY <2>2 DEF TraversalInv, LowLinkReached
      <3>4. QED BY <1>6, <1>10, <1>15, <2>2, <3>1, <3>2, <3>3
    <2>3. QED BY <1>11, <2>1, <2>2
  <1>23. LowLinkLeast'
    <2> SUFFICES ASSUME NEW i \in 1..(d + 1), NEW m \in Items, InPart(m, i)',
                        NEW t \in Looked(m, i)', OnStack(t)'
                 PROVE  low_links'[NodeAt(i)'] <= indices'[t]
      BY DEF LowLinkLeast
    <2>1. /\ OnStack(m)' /\ indices'[m] >= indices'[NodeAt(i)']
          /\ i < d + 1 => indices'[m] < indices'[NodeAt(i + 1)']
      BY DEF InPart
    <2>2. CASE i = d + 1
      <3>1. indices'[m] >= k
        BY <1>2, <2>1, <2>2
      <3>2. m = n
        BY <1>6, <1>10, <2>1, <3>1
      <3>3. Looked(m, i)' = {}
        BY <2>2, <3>2 DEF Looked
      <3>4. QED BY <3>3
    <2>3. CASE i \in 1..d
      <3>1. i < d + 1 /\ i + 1 \in 1..(d + 1)
        BY <2>3
      <3>2. NodeAt(i + 1)' \in Items /\ indices'[NodeAt(i + 1)'] <= k
        <4>1. CASE i + 1 \in 1..d
          <5>1. indices'[NodeAt(i + 1)'] = indices[NodeAt(i + 1)] /\ indices[NodeAt(i + 1)] \in 0..(k - 1)
            BY <1>10, <1>12, <4>1
          <5>2. QED BY <1>12, <4>1, <5>1
        <4>2. CASE i + 1 = d + 1
          <5>1. indices'[NodeAt(d + 1)'] = k
            BY <1>2
          <5>2. QED BY <1>1, <4>2, <5>1
        <4>3. QED BY <1>11, <3>1, <4>1, <4>2
      <3>3. m # n
        <4>1. indices'[m] < indices'[NodeAt(i + 1)']
          BY <2>1, <3>1
        <4>2. indices'[n] = k
          BY <1>2
        <4>3. CASE i + 1 \in 1..d
          <5>1. indices'[NodeAt(i + 1)'] = indices[NodeAt(i + 1)] /\ indices[NodeAt(i + 1)] \in 0..(k - 1)
            BY <1>10, <1>12, <4>3
          <5>2. QED BY <4>1, <4>2, <5>1
        <4>4. CASE i + 1 = d + 1
          <5>1. indices'[NodeAt(i + 1)'] = k
            BY <1>2, <4>4
          <5>2. QED BY <1>1, <4>1, <4>2, <5>1
        <4>5. QED BY <1>11, <3>1, <4>3, <4>4
      <3>4. OnStack(m) /\ indices'[m] = indices[m] /\ indices[m] \in 0..(k - 1)
        BY <1>6, <1>10, <2>1, <3>3
      <3>5. InPart(m, i)
        <4>1. indices[m] >= indices[NodeAt(i)]
          BY <1>10, <1>12, <2>1, <2>3, <3>4
        <4>2. ASSUME i < d PROVE indices[m] < indices[NodeAt(i + 1)]
          <5>1. i + 1 \in 1..d
            BY <2>3, <4>2
          <5>2. indices'[NodeAt(i + 1)'] = indices[NodeAt(i + 1)]
            BY <1>10, <1>12, <5>1
          <5>3. QED BY <2>1, <3>1, <3>4, <5>2
        <4>3. QED BY <3>4, <4>1, <4>2 DEF InPart
      <3>6. /\ low_links'[NodeAt(i)'] = low_links[NodeAt(i)]
            /\ low_links[NodeAt(i)] <= indices[NodeAt(i)] /\ low_links[NodeAt(i)] \in Int
            /\ indices[NodeAt(i)] \in 0..(k - 1)
        BY <1>2, <1>10, <1>12, <2>3, StackTyped DEF TraversalInv, LowLinkReached
      <3>7. CASE t = n
        BY <1>1, <1>2, <3>6, <3>7
      <3>8. CASE t # n
        <4>1. OnStack(t) /\ indices'[t] = indices[t]
          BY <1>6, <1>10, <3>8
        <4>2. t \in Looked(m, i)
          <5>1. NodeAt(i)' = NodeAt(i) /\ DoneAt(i)' \subseteq DoneAt(i) \cup {n}
            BY <2>3
          <5>2. QED BY <1>14, <3>8, <5>1 DEF Looked
        <4>3. low_links[NodeAt(i)] <= indices[t]
          BY <2>3, <3>5, <4>1, <4>2 DEF TraversalInv, LowLinkLeast
        <4>4. QED BY <3>6, <4>1, <4>3
      <3>9. QED BY <3>7, <3>8
    <2>4. QED BY <1>11, <2>2, <2>3
  <1>24. QED
    BY <1>16, <1>17, <1>18, <1>19, <1>20, <1>21, <1>22, <1>23 DEF TraversalInv

\* The loop of the active call passes a target that was visited before.
LEMMA TraversalPasses ==
    ASSUME TypeOK, FramesPath, TraversalInv,
           NEW d \in Nat, d = Depth, d > 0, NEW n \in Targets(NodeAt(d)), n \in Visited,
           Depth' = d, \A i \in 1..d : NodeAt(i)' = NodeAt(i),
           \A i \in 1..d : DoneAt(i)' = IF i = d THEN DoneAt(d) \cup {n} ELSE DoneAt(i),
           UNCHANGED <<edges, indices, stack, components>>,
           low_links' = [low_links EXCEPT ![NodeAt(d)] = LowLink(NodeAt(d), n)]
    PROVE  TraversalInv'
  <1>1. /\ \A a : Targets(a)' = Targets(a)
        /\ \A a, b : Reaches(a, b)' = Reaches(a, b)
    BY GraphStays
  <1>2. \A m : OnStack(m)' <=> OnStack(m)
    BY DEF OnStack
  <1>3. \A m : OnPath(m)' <=> OnPath(m)
    BY OnPathIs, OnPathWillBe
  <1>4. Visited' = Visited /\ NextIndex' = NextIndex /\ Settled' = Settled
    BY DEF Visited, NextIndex, Settled
  <1>5. \A i \in 1..d : NodeAt(i) \in Items /\ (i # d => NodeAt(i) # NodeAt(d))
    BY FramesTyped DEF FramesPath
  <1>6. \A m \in Items : indices[m] \in Int /\ low_links[m] \in Int
    BY StackTyped
  <1>7. \A i \in 1..d : i # d => low_links'[NodeAt(i)] = low_links[NodeAt(i)]
    BY <1>5 DEF TypeOK
  <1>8. low_links'[NodeAt(d)] = LowLink(NodeAt(d), n)
    BY <1>5 DEF TypeOK
  <1>9. n \in Items
    BY DEF Targets
  <1>10. d \in 1..d
    OBVIOUS
  <1>11. StackOrdered'
    BY DEF StackOrdered, TraversalInv
  <1>12. VisitedSplit'
    BY <1>2, <1>4 DEF VisitedSplit, TraversalInv
  <1>13. FramesStacked'
    BY <1>2, <1>10 DEF FramesStacked, TraversalInv
  <1>14. DoneVisited'
    BY <1>1, <1>2, <1>3, <1>4 DEF DoneVisited, TraversalInv
  <1>15. AboveReached'
    BY <1>1, <1>2 DEF AboveReached, TraversalInv
  <1>16. FinishedReturns'
    BY <1>1, <1>2, <1>3 DEF FinishedReturns, TraversalInv
  <1>17. low_links'[NodeAt(d)] <= low_links[NodeAt(d)] /\ (OnStack(n) => low_links'[NodeAt(d)] <= indices[n])
    BY <1>5, <1>6, <1>8, <1>9, <1>10 DEF LowLink, Smaller
  <1>18. LowLinkReached'
    <2> SUFFICES ASSUME NEW i \in 1..d
                 PROVE  /\ low_links'[NodeAt(i)] <= indices[NodeAt(i)]
                        /\ \E m \in Items : /\ OnStack(m) /\ Reaches(NodeAt(i), m)
                                            /\ low_links'[NodeAt(i)] = indices[m]
      BY <1>1, <1>2 DEF LowLinkReached
    <2>1. /\ low_links[NodeAt(i)] <= indices[NodeAt(i)]
          /\ \E m \in Items : /\ OnStack(m) /\ Reaches(NodeAt(i), m)
                              /\ low_links[NodeAt(i)] = indices[m]
      BY DEF LowLinkReached, TraversalInv
    <2>2. CASE low_links'[NodeAt(i)] = low_links[NodeAt(i)]
      BY <2>1, <2>2
    <2>3. CASE i = d /\ OnStack(n) /\ low_links'[NodeAt(i)] = indices[n]
      <3>1. low_links'[NodeAt(i)] <= low_links[NodeAt(i)] /\ Reaches(NodeAt(i), n)
        BY <1>17, <2>3, ReachesEdge
      <3>2. low_links'[NodeAt(i)] <= indices[NodeAt(i)]
        BY <1>5, <1>6, <1>9, <2>1, <2>3, <3>1
      <3>3. QED BY <1>9, <2>3, <3>1, <3>2
    <2>4. QED BY <1>7, <1>8, <2>2, <2>3 DEF LowLink, Smaller
  <1>19. LowLinkLeast'
    <2> SUFFICES ASSUME NEW i \in 1..d, NEW m \in Items, InPart(m, i)', NEW t \in Looked(m, i)', OnStack(t)
                 PROVE  low_links'[NodeAt(i)] <= indices[t]
      BY <1>2 DEF LowLinkLeast
    <2>1. InPart(m, i)
      <3>1. i < d => NodeAt(i + 1)' = NodeAt(i + 1)
        OBVIOUS
      <3>2. QED BY <1>2, <3>1 DEF InPart
    <2>2. t \in Looked(m, i) \/ (i = d /\ t = n)
      BY <1>1 DEF Looked
    <2>3. t \in Looked(m, i) => low_links[NodeAt(i)] <= indices[t]
      BY <2>1 DEF LowLinkLeast, TraversalInv
    <2>4. t \in Items
      BY StackTyped
    <2>5. low_links'[NodeAt(i)] <= low_links[NodeAt(i)] /\ low_links'[NodeAt(i)] \in Int
      <3>1. CASE i = d
        <4>1. LowLink(NodeAt(d), n) \in Int
          BY <1>5, <1>6, <1>9, <1>10 DEF LowLink, Smaller
        <4>2. QED BY <1>8, <1>17, <3>1, <4>1
      <3>2. CASE i # d
        BY <1>5, <1>6, <1>7, <3>2
      <3>3. QED BY <3>1, <3>2
    <2>6. CASE t \in Looked(m, i)
      BY <1>5, <1>6, <2>3, <2>4, <2>5, <2>6
    <2>7. CASE i = d /\ t = n
      BY <1>17, <2>7
    <2>8. QED BY <2>2, <2>6, <2>7
  <1>20. QED
    BY <1>11, <1>12, <1>13, <1>14, <1>15, <1>16, <1>18, <1>19 DEF TraversalInv

\* What _pop_component takes off the stack: the node and all above it.
AboveOnStack(node) == {m \in Items : OnStack(m) /\ indices[m] >= indices[node]}

LEMMA StackPopped ==
    ASSUME TypeOK, StackOrdered, NEW node,
           NEW at \in 1..Len(stack), stack[at] = node
    PROVE  /\ SubSeq(stack, 1, at - 1) \in Seq(Items)
           /\ Len(SubSeq(stack, 1, at - 1)) = at - 1
           /\ \A a \in 1..(at - 1) : SubSeq(stack, 1, at - 1)[a] = stack[a]
           /\ {stack[i] : i \in at..Len(stack)} = AboveOnStack(node)
           /\ \A m : OnStack(m) /\ indices[m] < indices[node] <=> \E a \in 1..(at - 1) : stack[a] = m
  <1>1. PICK l \in Nat : l = Len(stack)
    BY StackTyped
  <1>2. at \in 1..l /\ stack[at] = node
    BY <1>1
  <1>3. \A a \in 1..l : stack[a] \in Items /\ indices[stack[a]] \in Int
    BY <1>1, StackTyped
  <1>4. \A a, b \in 1..l : a < b => indices[stack[a]] < indices[stack[b]]
    BY <1>1 DEF StackOrdered
  <1>5. \A a \in 1..l : a < at <=> indices[stack[a]] < indices[node]
    BY <1>2, <1>3, <1>4
  <1>6. /\ SubSeq(stack, 1, at - 1) \in Seq(Items)
        /\ Len(SubSeq(stack, 1, at - 1)) = at - 1
        /\ \A a \in 1..(at - 1) : SubSeq(stack, 1, at - 1)[a] = stack[a]
    <2>1. PICK b : b = at - 1
      OBVIOUS
    <2>2. b \in Int /\ b \in 0..l /\ \A a \in 1..b : stack[a] \in Items
      BY <1>1, <1>2, <1>3, <2>1
    <2>3. PICK p : p = SubSeq(stack, 1, b)
      OBVIOUS
    <2>4. p \in Seq(Items)
      BY <2>2, <2>3, SubSeqProperties
    <2>5. Len(p) = b
      <3>1. Len(p) = IF 1 <= b THEN b - 1 + 1 ELSE 0
        BY <2>2, <2>3, SubSeqProperties
      <3>2. QED BY <2>2, <3>1
    <2>6. \A a \in 1..b : p[a] = stack[a]
      <3>1. \A a \in 1..(b - 1 + 1) : p[a] = stack[1 + a - 1]
        BY <2>2, <2>3, SubSeqProperties
      <3>2. b - 1 + 1 = b /\ \A a \in 1..b : 1 + a - 1 = a
        BY <2>2
      <3>3. QED BY <3>1, <3>2
    <2>7. QED BY <2>1, <2>3, <2>4, <2>5, <2>6
  <1>7. \A m : OnStack(m) <=> \E a \in 1..l : stack[a] = m
    BY <1>1 DEF OnStack
  <1>8. {stack[i] : i \in at..l} = AboveOnStack(node)
    <2>1. \A i \in at..l : i \in 1..l /\ ~ (i < at)
      BY <1>1, <1>2
    <2>2. \A i \in at..l : stack[i] \in AboveOnStack(node)
      BY <1>2, <1>3, <1>5, <1>7, <2>1 DEF AboveOnStack
    <2>3. ASSUME NEW m \in AboveOnStack(node) PROVE \E i \in at..l : stack[i] = m
      <3>1. PICK a \in 1..l : stack[a] = m
        BY <1>7 DEF AboveOnStack
      <3>2. ~ (indices[m] < indices[node])
        BY <1>2, <1>3, <3>1 DEF AboveOnStack
      <3>3. ~ (a < at)
        BY <1>5, <3>1, <3>2
      <3>4. a \in at..l
        BY <1>1, <1>2, <3>3
      <3>5. QED BY <3>1, <3>4
    <2>4. {stack[i] : i \in at..l} \subseteq AboveOnStack(node)
      BY <2>2
    <2>5. AboveOnStack(node) \subseteq {stack[i] : i \in at..l}
      BY <2>3
    <2>6. QED BY <2>4, <2>5
  <1>9. ASSUME NEW m
        PROVE  OnStack(m) /\ indices[m] < indices[node] <=> \E a \in 1..(at - 1) : stack[a] = m
    <2>1. \A a \in 1..(at - 1) : a \in 1..l /\ a < at
      BY <1>1, <1>2
    <2>2. \A a \in 1..l : a < at => a \in 1..(at - 1)
      BY <1>1, <1>2
    <2>3. QED BY <1>5, <1>7, <2>1, <2>2
  <1>10. QED BY <1>1, <1>2, <1>6, <1>8, <1>9

\* The frames a return leaves.
FrameLeft(d) ==
    /\ d \in Nat /\ d > 0 /\ d = Depth /\ TodoAt(d) = {} /\ Depth' = d - 1
    /\ \A i \in 1..(d - 1) : NodeAt(i)' = NodeAt(i) /\ DoneAt(i)' = DoneAt(i)
    /\ UNCHANGED <<edges, indices>>

LEMMA PathShortens ==
    ASSUME FramesPath, NEW d, FrameLeft(d)
    PROVE  \A m : OnPath(m)' <=> OnPath(m) /\ m # NodeAt(d)
  <1>1. \A m : OnPath(m) <=> \E i \in 1..d : NodeAt(i) = m
    BY OnPathIs DEF FrameLeft
  <1>2. \A m : OnPath(m)' <=> \E i \in 1..(d - 1) : NodeAt(i) = m
    BY OnPathWillBe DEF FrameLeft
  <1>3. \A i \in 1..d : i \in 1..(d - 1) \/ i = d
    BY DEF FrameLeft
  <1>4. \A i \in 1..(d - 1) : i \in 1..d /\ i # d /\ NodeAt(i) # NodeAt(d)
    BY DEF FrameLeft, FramesPath
  <1>5. QED BY <1>1, <1>2, <1>3, <1>4

\* A call returns that is not the first of its component.
LEMMA TraversalReturns ==
    ASSUME TypeOK, FramesPath, TraversalInv, NEW d, FrameLeft(d),
           low_links[NodeAt(d)] # indices[NodeAt(d)],
           UNCHANGED <<stack, components>>,
           d > 1 => low_links' = [low_links EXCEPT ![NodeAt(d - 1)] =
                                     Smaller(low_links[NodeAt(d - 1)], low_links[NodeAt(d)])]
    PROVE  TraversalInv'
  <1>1. /\ \A a : Targets(a)' = Targets(a)
        /\ \A a, b : Reaches(a, b)' = Reaches(a, b)
    BY GraphStays DEF FrameLeft
  <1>2. \A m : OnStack(m)' <=> OnStack(m)
    BY DEF OnStack
  <1>3. \A m : OnPath(m)' <=> OnPath(m) /\ m # NodeAt(d)
    BY PathShortens
  <1>4. Visited' = Visited /\ NextIndex' = NextIndex /\ Settled' = Settled /\ indices' = indices
    BY DEF Visited, NextIndex, Settled, FrameLeft
  <1>5. /\ d \in Nat /\ d > 0 /\ d \in 1..d /\ d = Depth /\ Depth' = d - 1
        /\ \A i \in 1..(d - 1) : /\ i \in 1..d /\ NodeAt(i)' = NodeAt(i) /\ DoneAt(i)' = DoneAt(i)
    BY DEF FrameLeft
  <1>6. \A i \in 1..d : NodeAt(i) \in Items /\ OnStack(NodeAt(i)) /\ (i # d => NodeAt(i) # NodeAt(d))
    BY <1>5, FramesTyped DEF FramesPath, TraversalInv, FramesStacked
  <1>7. \A m \in Items : indices[m] \in Int /\ low_links[m] \in Int
    BY StackTyped
  <1>8. low_links[NodeAt(d)] < indices[NodeAt(d)]
    BY <1>5, <1>6, <1>7 DEF TraversalInv, LowLinkReached
  <1>9. PICK w \in Items : OnStack(w) /\ Reaches(NodeAt(d), w) /\ low_links[NodeAt(d)] = indices[w]
    BY <1>5 DEF TraversalInv, LowLinkReached
  <1>10. d > 1 /\ d - 1 \in 1..(d - 1) /\ d - 1 \in 1..d /\ 1 \in 1..(d - 1)
    <2>1. indices[w] >= indices[NodeAt(1)]
      BY <1>9 DEF TraversalInv, FramesStacked
    <2>2. d # 1
      BY <1>5, <1>6, <1>7, <1>8, <1>9, <2>1
    <2>3. QED BY <1>5, <2>2
  <1>11. PICK c : c = NodeAt(d - 1)
    OBVIOUS
  <1>12. c \in Items /\ low_links'[c] = Smaller(low_links[c], low_links[NodeAt(d)])
    BY <1>6, <1>10, <1>11 DEF TypeOK
  <1>13. \A i \in 1..(d - 1) : i # d - 1 => low_links'[NodeAt(i)] = low_links[NodeAt(i)]
    <2>1. \A i \in 1..(d - 1) : i # d - 1 => NodeAt(i) # c
      BY <1>5, <1>10, <1>11 DEF FramesPath
    <2>2. QED BY <1>5, <1>6, <1>10, <1>11, <2>1 DEF TypeOK
  <1>14. Targets(NodeAt(d)) = DoneAt(d)
    BY DEF FrameLeft, DoneAt
  <1>15. StackOrdered'
    BY <1>4 DEF StackOrdered, TraversalInv
  <1>16. VisitedSplit'
    BY <1>2, <1>4 DEF VisitedSplit, TraversalInv
  <1>17. FramesStacked'
    <2>1. \A i \in 1..(d - 1) : OnStack(NodeAt(i))'
      BY <1>2, <1>5, <1>6
    <2>2. \A i, j \in 1..(d - 1) : i < j => indices[NodeAt(i)] < indices[NodeAt(j)]
      BY <1>5 DEF FramesStacked, TraversalInv
    <2>3. \A m \in Items : OnStack(m)' => indices[m] >= indices[NodeAt(1)']
      BY <1>2, <1>5, <1>10 DEF FramesStacked, TraversalInv
    <2>4. QED BY <1>4, <1>5, <1>10, <2>1, <2>2, <2>3 DEF FramesStacked
  <1>18. DoneVisited'
    <2>1. \A i \in 1..(d - 1) : DoneAt(i)' \subseteq Visited
      BY <1>5 DEF DoneVisited, TraversalInv
    <2>2. Targets(NodeAt(d)) \subseteq Visited
      BY <1>5, <1>14 DEF DoneVisited, TraversalInv
    <2>3. \A m \in Items : OnStack(m) /\ ~ OnPath(m)' => Targets(m) \subseteq Visited
      BY <1>3, <2>2 DEF DoneVisited, TraversalInv
    <2>4. QED BY <1>1, <1>2, <1>4, <1>5, <2>1, <2>3 DEF DoneVisited
  <1>19. AboveReached'
    BY <1>1, <1>2, <1>4, <1>5 DEF AboveReached, TraversalInv
  <1>20. FinishedReturns'
    <2>1. \A m \in Items : OnStack(m) /\ ~ OnPath(m)' =>
              \E o \in Items : OnStack(o) /\ indices[o] < indices[m] /\ Reaches(m, o)
      BY <1>3, <1>8, <1>9 DEF FinishedReturns, TraversalInv
    <2>2. QED BY <1>1, <1>2, <1>4, <2>1 DEF FinishedReturns
  <1>21. LowLinkReached'
    <2> SUFFICES ASSUME NEW i \in 1..(d - 1)
                 PROVE  /\ low_links'[NodeAt(i)] <= indices[NodeAt(i)]
                        /\ \E m \in Items : /\ OnStack(m) /\ Reaches(NodeAt(i), m)
                                            /\ low_links'[NodeAt(i)] = indices[m]
      BY <1>1, <1>2, <1>4, <1>5 DEF LowLinkReached
    <2>1. /\ low_links[NodeAt(i)] <= indices[NodeAt(i)]
          /\ \E m \in Items : /\ OnStack(m) /\ Reaches(NodeAt(i), m)
                              /\ low_links[NodeAt(i)] = indices[m]
      BY <1>5 DEF LowLinkReached, TraversalInv
    <2>2. CASE low_links'[NodeAt(i)] = low_links[NodeAt(i)]
      BY <2>1, <2>2
    <2>3. CASE i = d - 1 /\ low_links'[c] # low_links[c]
      <3>1. low_links'[c] = indices[w] /\ indices[w] <= low_links[c]
        BY <1>6, <1>7, <1>9, <1>12, <2>3 DEF Smaller
      <3>2. Reaches(c, NodeAt(d))
        BY <1>5, <1>10, <1>11 DEF FramesPath
      <3>3. Reaches(c, w)
        BY <1>9, <3>2, ReachesTransitive
      <3>4. indices[w] <= indices[c]
        BY <1>7, <1>11, <1>12, <2>1, <2>3, <3>1
      <3>5. QED BY <1>9, <1>11, <2>3, <3>1, <3>3, <3>4
    <2>4. QED BY <1>11, <1>13, <2>2, <2>3
  <1>22. LowLinkLeast'
    <2> SUFFICES ASSUME NEW i \in 1..(d - 1), NEW m \in Items, InPart(m, i)', NEW t \in Looked(m, i)', OnStack(t)
                 PROVE  low_links'[NodeAt(i)] <= indices[t]
      BY <1>2, <1>4, <1>5 DEF LowLinkLeast
    <2>1. /\ OnStack(m) /\ indices[m] >= indices[NodeAt(i)] /\ NodeAt(i)' = NodeAt(i)
          /\ t \in IF m = NodeAt(i) THEN DoneAt(i) ELSE Targets(m)
      BY <1>1, <1>2, <1>4, <1>5 DEF InPart, Looked
    <2>2. t \in Items
      BY StackTyped
    <2>3. CASE i # d - 1
      <3>1. i < d - 1 /\ i < d /\ i + 1 \in 1..(d - 1)
        BY <1>5, <2>3
      <3>2. InPart(m, i)
        BY <1>2, <1>4, <1>5, <3>1 DEF InPart
      <3>3. low_links[NodeAt(i)] <= indices[t]
        BY <1>5, <2>1, <3>2 DEF Looked, LowLinkLeast, TraversalInv
      <3>4. QED BY <1>13, <2>3, <3>3
    <2>4. CASE i = d - 1
      <3>1. low_links'[c] <= low_links[c] /\ low_links'[c] <= low_links[NodeAt(d)] /\ low_links'[c] \in Int
        BY <1>5, <1>6, <1>7, <1>12 DEF Smaller
      <3>2. CASE indices[m] < indices[NodeAt(d)]
        <4>1. InPart(m, i)
          BY <1>5, <2>1, <2>4, <3>2 DEF InPart
        <4>2. low_links[c] <= indices[t]
          BY <1>5, <1>11, <2>1, <2>4, <4>1 DEF Looked, LowLinkLeast, TraversalInv
        <4>3. QED BY <1>7, <1>11, <1>12, <2>2, <2>4, <3>1, <4>2
      <3>3. CASE indices[m] >= indices[NodeAt(d)]
        <4>1. InPart(m, d)
          BY <1>5, <2>1, <3>3 DEF InPart
        <4>2. indices[NodeAt(i)] < indices[NodeAt(d)]
          BY <1>5, <1>10, <2>4 DEF FramesStacked, TraversalInv
        <4>3. m # NodeAt(i)
          BY <1>5, <1>6, <1>7, <3>3, <4>2
        <4>4. t \in Looked(m, d)
          BY <1>14, <2>1, <4>3 DEF Looked
        <4>5. low_links[NodeAt(d)] <= indices[t]
          BY <1>5, <4>1, <4>4 DEF LowLinkLeast, TraversalInv
        <4>6. QED BY <1>5, <1>6, <1>7, <1>11, <2>2, <2>4, <3>1, <4>5
      <3>4. QED BY <1>5, <1>6, <1>7, <3>2, <3>3
    <2>5. QED BY <2>3, <2>4
  <1>23. QED
    BY <1>15, <1>16, <1>17, <1>18, <1>19, <1>20, <1>21, <1>22 DEF TraversalInv

\* What is above the first node of a component on the stack, when its call returns, is
\* the component.
LEMMA AboveIsComponent ==
    ASSUME TypeOK, FramesPath, TraversalInv, SettledExact, NEW d \in Nat, d = Depth, d > 0, TodoAt(d) = {},
           low_links[NodeAt(d)] = indices[NodeAt(d)],
           NEW S, S = AboveOnStack(NodeAt(d))
    PROVE  /\ Closed(S \cup Settled)
           /\ \A m \in S : ComponentOf(m) = S
  <1>1. d \in 1..d /\ NodeAt(d) \in Items /\ OnStack(NodeAt(d)) /\ \A i \in 1..d : NodeAt(i) \in Items
    BY FramesTyped DEF TraversalInv, FramesStacked
  <1>2. \A m \in Items : indices[m] \in Int
    BY StackTyped
  <1>3. S \in SUBSET Items /\ NodeAt(d) \in S
    BY <1>1, <1>2 DEF AboveOnStack
  <1>4. \A m \in S : OnStack(m) /\ indices[m] >= indices[NodeAt(d)] /\ m \in Items
    BY DEF AboveOnStack
  <1>5. \A m \in S : m # NodeAt(d) => ~ OnPath(m)
    <2> SUFFICES ASSUME NEW i \in 1..d, NodeAt(i) \in S PROVE i = d
      BY OnPathIs
    <2>1. i < d => indices[NodeAt(i)] < indices[NodeAt(d)]
      BY <1>1 DEF TraversalInv, FramesStacked
    <2>2. QED BY <1>1, <1>2, <1>4, <2>1
  <1>6. Targets(NodeAt(d)) = DoneAt(d)
    BY DEF DoneAt
  <1>7. ASSUME NEW m \in S, NEW t \in Targets(m) PROVE t \in S \cup Settled
    <2>1. t \in Items
      BY DEF Targets
    <2>2. t \in Visited
      <3>1. DoneAt(d) \subseteq Visited
        BY <1>1 DEF TraversalInv, DoneVisited
      <3>2. m # NodeAt(d) => Targets(m) \subseteq Visited
        BY <1>4, <1>5 DEF TraversalInv, DoneVisited
      <3>3. QED BY <1>6, <3>1, <3>2
    <2>3. OnStack(t) \/ t \in Settled
      BY <2>1, <2>2 DEF TraversalInv, VisitedSplit
    <2>4. OnStack(t) => indices[NodeAt(d)] <= indices[t]
      <3>1. InPart(m, d)
        BY <1>4 DEF InPart
      <3>2. t \in Looked(m, d)
        BY <1>6 DEF Looked
      <3>3. QED BY <1>1, <1>4, <3>1, <3>2 DEF TraversalInv, LowLinkLeast
    <2>5. QED BY <1>1, <1>2, <2>1, <2>3, <2>4 DEF AboveOnStack
  <1>8. Closed(S \cup Settled)
    <2>1. \A m \in S : Targets(m) \subseteq S \cup Settled
      BY <1>7
    <2>2. \A m \in Settled : Targets(m) \subseteq Settled
      BY DEF SettledExact, Closed
    <2>3. QED BY <2>1, <2>2 DEF Closed
  <1>9. S \cup Settled \in SUBSET Items /\ Settled \in SUBSET Items
    BY <1>3, StackTyped
  <1>10. \A m \in S : m \notin Settled
    BY <1>4 DEF TraversalInv, VisitedSplit
  <1>11. \A m \in S : Reaches(m, NodeAt(d))
    <2> DEFINE Lost == {m \in S : ~ Reaches(m, NodeAt(d))}
               N == {indices[m] : m \in Lost}
    <2> SUFFICES ASSUME Lost # {} PROVE FALSE
      OBVIOUS
    <2>1. \A m \in S : indices[m] \in Nat
      <3>1. \A m \in S : m \in Visited
        BY <1>4 DEF TraversalInv, VisitedSplit
      <3>2. \A m \in Visited : indices[m] \in 0..(NextIndex - 1)
        BY DEF TraversalInv, VisitedSplit
      <3>3. QED BY <3>1, <3>2, NextIndexIsNumber
    <2>2. N \in SUBSET Nat /\ N # {}
      BY <2>1
    <2>3. PICK x \in N : \A y \in N : x <= y
      <3> HIDE DEF N
      <3>1. QED BY <2>2, LeastNumber
    <2>4. PICK m \in Lost : x = indices[m]
      OBVIOUS
    <2>5. m \in S /\ ~ Reaches(m, NodeAt(d)) /\ m # NodeAt(d)
      BY ReachesSelf
    <2>6. PICK o \in Items : OnStack(o) /\ indices[o] < indices[m] /\ Reaches(m, o)
      BY <1>4, <1>5, <2>5 DEF TraversalInv, FinishedReturns
    <2>7. o \in S \cup Settled
      BY <1>8, <1>9, <2>5, <2>6, ReachesClosed
    <2>8. o \notin Settled
      BY <2>6 DEF TraversalInv, VisitedSplit
    <2>9. o \in S /\ o \notin Lost
      <3>1. o \in Lost => x <= indices[o]
        BY <2>3
      <3>2. QED BY <1>2, <2>1, <2>4, <2>5, <2>6, <2>7, <2>8, <3>1
    <2>10. Reaches(o, NodeAt(d))
      BY <2>9
    <2>11. QED BY <2>5, <2>6, <2>10, ReachesTransitive
  <1>12. \A m \in S : Reaches(NodeAt(d), m)
    BY <1>1, <1>4 DEF TraversalInv, AboveReached
  <1>13. ASSUME NEW m \in S PROVE ComponentOf(m) = S
    <2>1. \A o \in S : Reaches(m, o) /\ Reaches(o, m)
      BY <1>11, <1>12, ReachesTransitive
    <2>2. ASSUME NEW o \in Items, Reaches(m, o), Reaches(o, m) PROVE o \in S
      <3>1. o \in S \cup Settled
        BY <1>8, <1>9, <2>2, ReachesClosed
      <3>2. o \notin Settled
        <4> SUFFICES ASSUME o \in Settled PROVE FALSE
          OBVIOUS
        <4>1. Closed(Settled)
          BY DEF SettledExact
        <4>2. m \in Settled
          BY <1>9, <2>2, <4>1, ReachesClosed
        <4>3. QED BY <1>10, <4>2
      <3>3. QED BY <3>1, <3>2
    <2>3. QED BY <1>3, <2>1, <2>2 DEF ComponentOf
  <1>14. QED BY <1>8, <1>13

\* The first call of a component returns: the component leaves the stack.
LEMMA TraversalPops ==
    ASSUME TypeOK, FramesPath, TraversalInv, SettledExact, NEW d, FrameLeft(d),
           low_links[NodeAt(d)] = indices[NodeAt(d)],
           NEW S, S = AboveOnStack(NodeAt(d)),
           components' = components \cup {S},
           StackOrdered', \A m : OnStack(m)' <=> OnStack(m) /\ indices[m] < indices[NodeAt(d)],
           d > 1 => low_links' = [low_links EXCEPT ![NodeAt(d - 1)] =
                                     Smaller(low_links[NodeAt(d - 1)], low_links[NodeAt(d)])]
    PROVE  TraversalInv' /\ SettledExact'
  <1>1. /\ \A a : Targets(a)' = Targets(a)
        /\ \A a, b : Reaches(a, b)' = Reaches(a, b)
        /\ \A X : Closed(X)' = Closed(X)
        /\ \A n : ComponentOf(n)' = ComponentOf(n)
    BY GraphStays DEF FrameLeft
  <1>2. \A m : OnStack(m)' <=> OnStack(m) /\ indices[m] < indices[NodeAt(d)]
    OBVIOUS
  <1>3. \A m : OnPath(m)' <=> OnPath(m) /\ m # NodeAt(d)
    BY PathShortens
  <1>4. Visited' = Visited /\ NextIndex' = NextIndex /\ indices' = indices
    BY DEF Visited, NextIndex, FrameLeft
  <1>5. /\ d \in Nat /\ d > 0 /\ d \in 1..d /\ d = Depth /\ Depth' = d - 1 /\ TodoAt(d) = {}
        /\ \A i \in 1..(d - 1) : /\ i \in 1..d /\ NodeAt(i)' = NodeAt(i) /\ DoneAt(i)' = DoneAt(i)
    BY DEF FrameLeft
  <1>6. \A i \in 1..d : NodeAt(i) \in Items /\ OnStack(NodeAt(i)) /\ (i # d => NodeAt(i) # NodeAt(d))
    BY <1>5, FramesTyped DEF FramesPath, TraversalInv, FramesStacked
  <1>7. \A m \in Items : indices[m] \in Int /\ low_links[m] \in Int
    BY StackTyped
  <1>8. \A i \in 1..(d - 1) : indices[NodeAt(i)] < indices[NodeAt(d)]
    BY <1>5 DEF TraversalInv, FramesStacked
  <1>9. /\ Closed(S \cup Settled)
        /\ \A m \in S : ComponentOf(m) = S
    BY <1>5, AboveIsComponent
  <1>10. Settled' = S \cup Settled
    BY DEF Settled
  <1>11. \A m \in Items : OnStack(m) <=> OnStack(m)' \/ m \in S
    BY <1>2, <1>5, <1>6, <1>7 DEF AboveOnStack
  <1>12. \A m \in Items : OnStack(m)' => m \notin S
    BY <1>2, <1>5, <1>6, <1>7 DEF AboveOnStack
  <1>13. \A i \in 1..(d - 1) : low_links'[NodeAt(i)] = low_links[NodeAt(i)]
    <2> SUFFICES ASSUME NEW i \in 1..(d - 1) PROVE low_links'[NodeAt(i)] = low_links[NodeAt(i)]
      OBVIOUS
    <2>1. d - 1 \in 1..(d - 1) /\ d - 1 \in 1..d /\ d > 1
      BY <1>5
    <2>2. low_links[NodeAt(d - 1)] <= indices[NodeAt(d - 1)]
      BY <1>5, <2>1 DEF TraversalInv, LowLinkReached
    <2>3. low_links[NodeAt(d - 1)] <= low_links[NodeAt(d)]
      BY <1>5, <1>6, <1>7, <1>8, <2>1, <2>2
    <2>4. Smaller(low_links[NodeAt(d - 1)], low_links[NodeAt(d)]) = low_links[NodeAt(d - 1)]
      BY <2>3 DEF Smaller
    <2>5. QED BY <1>5, <1>6, <2>1, <2>4 DEF TypeOK
  <1>14. SettledExact'
    <2>1. Closed(Settled)'
      BY <1>1, <1>9, <1>10
    <2>2. \A C \in components' : \A n \in C : C = ComponentOf(n)
      BY <1>9 DEF SettledExact
    <2>3. QED BY <1>1, <1>9, <1>10, <2>2 DEF SettledExact
  <1>15. VisitedSplit'
    BY <1>4, <1>10, <1>11, <1>12, <1>2 DEF VisitedSplit, TraversalInv
  <1>16. FramesStacked'
    <2>1. \A i \in 1..(d - 1) : OnStack(NodeAt(i))'
      BY <1>2, <1>5, <1>6, <1>8
    <2>2. \A i, j \in 1..(d - 1) : i < j => indices[NodeAt(i)] < indices[NodeAt(j)]
      BY <1>5 DEF FramesStacked, TraversalInv
    <2>3. ASSUME NEW m \in Items, OnStack(m)' PROVE d - 1 > 0 /\ indices[m] >= indices[NodeAt(1)']
      <3>1. indices[m] >= indices[NodeAt(1)] /\ indices[m] < indices[NodeAt(d)]
        BY <1>2, <2>3 DEF FramesStacked, TraversalInv
      <3>2. d # 1
        BY <1>5, <1>6, <1>7, <3>1
      <3>3. d - 1 > 0 /\ 1 \in 1..(d - 1)
        BY <1>5, <3>2
      <3>4. QED BY <1>5, <3>1, <3>3
    <2>4. QED BY <1>4, <1>5, <2>1, <2>2, <2>3 DEF FramesStacked
  <1>17. DoneVisited'
    <2>1. \A i \in 1..(d - 1) : DoneAt(i)' \subseteq Visited
      BY <1>5 DEF DoneVisited, TraversalInv
    <2>2. \A m \in Items : OnStack(m)' /\ ~ OnPath(m)' => Targets(m) \subseteq Visited
      <3>1. \A m : m = NodeAt(d) => ~ OnStack(m)'
        BY <1>2, <1>5, <1>6, <1>7
      <3>2. QED BY <1>2, <1>3, <3>1 DEF DoneVisited, TraversalInv
    <2>3. QED BY <1>1, <1>4, <1>5, <2>1, <2>2 DEF DoneVisited
  <1>18. AboveReached'
    BY <1>1, <1>2, <1>4, <1>5 DEF AboveReached, TraversalInv
  <1>19. FinishedReturns'
    <2> SUFFICES ASSUME NEW m \in Items, OnStack(m)', ~ OnPath(m)'
                 PROVE  \E o \in Items : OnStack(o)' /\ indices[o] < indices[m] /\ Reaches(m, o)
      BY <1>1, <1>4 DEF FinishedReturns
    <2>1. OnStack(m) /\ indices[m] < indices[NodeAt(d)] /\ ~ OnPath(m)
      BY <1>2, <1>3, <1>5, <1>6, <1>7
    <2>2. PICK o \in Items : OnStack(o) /\ indices[o] < indices[m] /\ Reaches(m, o)
      BY <2>1 DEF FinishedReturns, TraversalInv
    <2>3. indices[o] < indices[NodeAt(d)]
      BY <1>5, <1>6, <1>7, <2>1, <2>2
    <2>4. QED BY <1>2, <2>2, <2>3
  <1>20. LowLinkReached'
    <2> SUFFICES ASSUME NEW i \in 1..(d - 1)
                 PROVE  /\ low_links'[NodeAt(i)] <= indices[NodeAt(i)]
                        /\ \E m \in Items : /\ OnStack(m)' /\ Reaches(NodeAt(i), m)
                                            /\ low_links'[NodeAt(i)] = indices[m]
      BY <1>1, <1>4, <1>5 DEF LowLinkReached
    <2>1. low_links[NodeAt(i)] <= indices[NodeAt(i)]
      BY <1>5 DEF LowLinkReached, TraversalInv
    <2>2. PICK m \in Items : /\ OnStack(m) /\ Reaches(NodeAt(i), m)
                             /\ low_links[NodeAt(i)] = indices[m]
      BY <1>5 DEF LowLinkReached, TraversalInv
    <2>3. indices[m] < indices[NodeAt(d)]
      BY <1>5, <1>6, <1>7, <1>8, <2>1, <2>2
    <2>4. QED BY <1>2, <1>13, <2>1, <2>2, <2>3
  <1>21. LowLinkLeast'
    <2> SUFFICES ASSUME NEW i \in 1..(d - 1), NEW m \in Items, InPart(m, i)', NEW t \in Looked(m, i)', OnStack(t)'
                 PROVE  low_links'[NodeAt(i)] <= indices[t]
      BY <1>4, <1>5 DEF LowLinkLeast
    <2>1. t \in Looked(m, i)
      BY <1>1, <1>5 DEF Looked
    <2>2. OnStack(m) /\ indices[m] >= indices[NodeAt(i)] /\ indices[m] < indices[NodeAt(d)]
      BY <1>2, <1>4, <1>5 DEF InPart
    <2>3. ASSUME i < d PROVE indices[m] < indices[NodeAt(i + 1)]
      <3>1. CASE i = d - 1
        BY <1>5, <2>2, <3>1
      <3>2. CASE i < d - 1
        <4>1. i + 1 \in 1..(d - 1)
          BY <1>5, <3>2
        <4>2. QED BY <1>4, <1>5, <3>2, <4>1 DEF InPart
      <3>3. QED BY <1>5, <3>1, <3>2
    <2>4. InPart(m, i)
      BY <1>5, <2>2, <2>3 DEF InPart
    <2>5. OnStack(t)
      BY <1>2
    <2>6. low_links[NodeAt(i)] <= indices[t]
      BY <1>5, <2>1, <2>4, <2>5 DEF LowLinkLeast, TraversalInv
    <2>7. QED BY <1>13, <2>6
  <1>22. QED
    BY <1>14, <1>15, <1>16, <1>17, <1>18, <1>19, <1>20, <1>21 DEF TraversalInv

\* One step of the traversal.
LEMMA TraversalStep ==
    ASSUME TypeOK, FramesInv, TraversalInv, SettledExact, phase = "components",
           VisitRoot \/ VisitTarget \/ LeaveNode
    PROVE  /\ TraversalInv' /\ SettledExact'
           /\ stack' \in Seq(Items) /\ components' \subseteq SUBSET Items
           /\ indices' \in [Items -> Int] /\ low_links' \in [Items -> Int]
  <1>1. PICK d \in Nat : d = Depth
    BY FramesTyped
  <1>2. FramesPath
    BY DEF FramesInv
  <1>3. /\ stack \in Seq(Items) /\ components \subseteq SUBSET Items
        /\ indices \in [Items -> Int] /\ low_links \in [Items -> Int]
    BY DEF TypeOK
  <1>4. ASSUME NEW n \in Items, Visit(n)
        PROVE  /\ edges' = edges /\ components' = components
               /\ stack' \in Seq(Items) /\ indices' \in [Items -> Int] /\ low_links' \in [Items -> Int]
    <2>1. NextIndex \in Int
      BY NextIndexIsNumber
    <2>2. QED BY <1>3, <1>4, <2>1 DEF Visit
  <1>5. CASE VisitRoot
    <2>1. PICK n \in Items : frames' = <<Frame(n)>> /\ indices[n] = Unvisited /\ Visit(n)
      <3> DEFINE roots == {n \in Items : indices[n] = Unvisited}
      <3>1. roots # {} /\ Least(roots) \in roots
        BY <1>5, LeastItem DEF VisitRoot
      <3>2. QED BY <1>5, <3>1 DEF VisitRoot
    <2>2. d = 0
      BY <1>1, <1>5 DEF VisitRoot, Depth
    <2>3. Depth' = d + 1 /\ NodeAt(d + 1)' = n /\ TodoAt(d + 1)' = Targets(n)
      BY <2>1, <2>2, FramesBegun
    <2>4. Targets(n)' = Targets(n)
      BY <1>4, <2>1, GraphStays
    <2>5. DoneAt(d + 1)' = {}
      BY <2>3, <2>4, <2>2 DEF DoneAt
    <2>6. TraversalInv'
      BY <1>1, <1>2, <2>1, <2>2, <2>3, <2>5, TraversalVisits
    <2>7. SettledExact'
      BY <1>4, <2>1, SettledExactStays
    <2>8. QED BY <1>3, <1>4, <2>1, <2>6, <2>7
  <1>6. CASE VisitTarget
    <2>1. frames # << >> /\ Top.todo # {}
      BY <1>6 DEF VisitTarget
    <2>2. PICK n : n = NextTarget
      OBVIOUS
    <2>3. n \in Items /\ n \in TodoAt(d)
      BY <1>1, <2>1, <2>2, NextTargetInTodo
    <2>4. d > 0 /\ n \in Targets(NodeAt(d)) /\ d \in 1..d
      BY <1>1, <1>2, <2>1, <2>2, NextTargetFollows
    <2>5. edges' = edges /\ components' = components
      BY <1>6 DEF VisitTarget, Visit
    <2>6. \A a : Targets(a)' = Targets(a)
      BY <2>5, GraphStays
    <2>7. SettledExact'
      BY <2>5, SettledExactStays
    <2>8. CASE indices[n] = Unvisited
      <3>1. frames' = Append(Skipped, Frame(n)) /\ Visit(n)
        BY <1>6, <2>2, <2>8 DEF VisitTarget
      <3>2. /\ Depth' = d + 1 /\ NodeAt(d + 1)' = n /\ TodoAt(d + 1)' = Targets(n)
            /\ \A i \in 1..d : NodeAt(i)' = NodeAt(i) /\ TodoAt(i)' = Advanced(i)
        BY <1>1, <2>1, <2>3, <3>1, FramesPushed
      <3>3. DoneAt(d + 1)' = {}
        BY <2>6, <3>2 DEF DoneAt
      <3>4. \A i \in 1..d : DoneAt(i)' \subseteq DoneAt(i) \cup {n}
        BY <1>1, <2>2, <2>6, <3>2 DEF DoneAt, Advanced
      <3>5. TraversalInv'
        BY <1>1, <1>2, <2>3, <2>4, <2>8, <3>1, <3>2, <3>3, <3>4, TraversalVisits
      <3>6. QED BY <1>3, <1>4, <2>3, <2>7, <3>1, <3>5
    <2>9. CASE indices[n] # Unvisited
      <3>1. /\ frames' = Skipped /\ UNCHANGED <<indices, stack>>
            /\ low_links' = [low_links EXCEPT ![Top.node] = LowLink(Top.node, n)]
        BY <1>6, <2>2, <2>9 DEF VisitTarget
      <3>2. Top.node = NodeAt(d) /\ NodeAt(d) \in Items
        BY <1>1, <2>4, FramesTyped DEF NodeAt
      <3>3. /\ Depth' = d
            /\ \A i \in 1..d : NodeAt(i)' = NodeAt(i) /\ TodoAt(i)' = Advanced(i)
        BY <1>1, <2>1, <3>1, FramesSkipped
      <3>4. \A i \in 1..d : DoneAt(i)' = IF i = d THEN DoneAt(d) \cup {n} ELSE DoneAt(i)
        <4>1. DoneAt(d)' = DoneAt(d) \cup {n}
          <5>1. DoneAt(d)' = Targets(NodeAt(d)) \ (TodoAt(d) \ {n})
            BY <1>1, <2>2, <2>4, <2>6, <3>3 DEF DoneAt, Advanced
          <5>2. QED BY <2>3, <2>4, <5>1 DEF DoneAt
        <4>2. \A i \in 1..d : i # d => DoneAt(i)' = DoneAt(i)
          BY <1>1, <2>6, <3>3 DEF DoneAt, Advanced
        <4>3. QED BY <4>1, <4>2
      <3>5. n \in Visited
        BY <2>3, <2>9 DEF Visited
      <3>6. TraversalInv'
        BY <1>1, <1>2, <2>4, <2>5, <3>1, <3>2, <3>3, <3>4, <3>5, TraversalPasses
      <3>7. LowLink(NodeAt(d), n) \in Int
        BY <2>3, <3>2, StackTyped DEF LowLink, Smaller
      <3>8. QED BY <1>3, <2>5, <2>7, <3>1, <3>2, <3>6, <3>7
    <2>10. QED BY <2>8, <2>9
  <1>7. CASE LeaveNode
    <2>1. /\ frames # << >> /\ Top.todo = {} /\ frames' = Pop(frames)
          /\ edges' = edges /\ indices' = indices
      BY <1>7 DEF LeaveNode
    <2>2. /\ d > 0 /\ Depth' = d - 1
          /\ \A i \in 1..(d - 1) : NodeAt(i)' = NodeAt(i) /\ TodoAt(i)' = TodoAt(i)
      BY <1>1, <2>1, FramesPopped
    <2>3. \A a : Targets(a)' = Targets(a)
      BY <2>1, GraphStays
    <2>4. PICK x : x = NodeAt(d)
      OBVIOUS
    <2>5. /\ Top.node = x /\ TodoAt(d) = {} /\ x \in Items /\ d \in 1..d /\ Len(frames) = d
          /\ Smaller(low_links[frames[Len(frames) - 1].node], low_links[Top.node])
                = Smaller(low_links[NodeAt(d - 1)], low_links[x])
      BY <1>1, <2>1, <2>2, <2>4, FramesTyped DEF NodeAt, TodoAt, Depth
    <2>6. FrameLeft(d)
      BY <1>1, <2>1, <2>2, <2>3, <2>5 DEF FrameLeft, DoneAt
    <2>7. low_links' = IF d = 1 THEN low_links
                       ELSE [low_links EXCEPT ![NodeAt(d - 1)] =
                                Smaller(low_links[NodeAt(d - 1)], low_links[x])]
      BY <1>7, <2>5, <2>4 DEF LeaveNode, NodeAt
    <2>8. low_links' \in [Items -> Int]
      <3>1. CASE d = 1
        BY <1>3, <2>7, <3>1
      <3>2. CASE d # 1
        <4>1. d - 1 \in 1..d
          BY <2>2, <3>2
        <4>2. NodeAt(d - 1) \in Items
          BY <1>1, <4>1, FramesTyped
        <4>3. Smaller(low_links[NodeAt(d - 1)], low_links[x]) \in Int
          BY <1>3, <2>5, <4>2 DEF Smaller
        <4>4. QED BY <1>3, <2>7, <3>2, <4>2, <4>3
      <3>3. QED BY <3>1, <3>2
    <2>9. CASE low_links[x] # indices[x]
      <3>1. UNCHANGED <<stack, components>>
        BY <1>7, <2>5, <2>9 DEF LeaveNode
      <3>2. TraversalInv'
        BY <1>2, <2>4, <2>6, <2>7, <2>9, <3>1, TraversalReturns
      <3>3. SettledExact'
        BY <2>1, <3>1, SettledExactStays
      <3>4. QED BY <1>3, <2>1, <2>8, <3>1, <3>2, <3>3
    <2>10. CASE low_links[x] = indices[x]
      <3>1. PICK at : at = CHOOSE i \in 1..Len(stack) : stack[i] = x
        OBVIOUS
      <3>2. /\ stack' = SubSeq(stack, 1, at - 1)
            /\ components' = components \cup {{stack[i] : i \in at..Len(stack)}}
        BY <1>7, <2>5, <2>10, <3>1 DEF LeaveNode
      <3>3. OnStack(x) /\ StackOrdered
        BY <1>1, <2>4, <2>5 DEF TraversalInv, FramesStacked
      <3>4. PICK S : S = AboveOnStack(x)
        OBVIOUS
      <3>5. /\ at \in 1..Len(stack) /\ stack' \in Seq(Items) /\ Len(stack') = at - 1
            /\ \A a \in 1..(at - 1) : stack'[a] = stack[a]
            /\ components' = components \cup {S}
            /\ \A m : OnStack(m) /\ indices[m] < indices[x] <=> \E a \in 1..(at - 1) : stack[a] = m
        <4>1. /\ at \in 1..Len(stack) /\ SubSeq(stack, 1, at - 1) \in Seq(Items)
              /\ Len(SubSeq(stack, 1, at - 1)) = at - 1
              /\ \A a \in 1..(at - 1) : SubSeq(stack, 1, at - 1)[a] = stack[a]
              /\ {stack[i] : i \in at..Len(stack)} = AboveOnStack(x)
              /\ \A m : OnStack(m) /\ indices[m] < indices[x] <=> \E a \in 1..(at - 1) : stack[a] = m
          <5>1. at \in 1..Len(stack) /\ stack[at] = x
            BY <3>1, <3>3 DEF OnStack
          <5>2. /\ SubSeq(stack, 1, at - 1) \in Seq(Items)
                /\ Len(SubSeq(stack, 1, at - 1)) = at - 1
                /\ \A a \in 1..(at - 1) : SubSeq(stack, 1, at - 1)[a] = stack[a]
            BY <3>3, <5>1, StackPopped, Zenon
          <5>3. {stack[i] : i \in at..Len(stack)} = AboveOnStack(x)
            BY <3>3, <5>1, StackPopped, Zenon
          <5>4. \A m : OnStack(m) /\ indices[m] < indices[x] <=> \E a \in 1..(at - 1) : stack[a] = m
            BY <3>3, <5>1, StackPopped
          <5>5. QED BY <5>1, <5>2, <5>3, <5>4
        <4>2. components' = components \cup {S}
          BY <3>2, <3>4, <4>1
        <4>3. QED BY <3>2, <4>1, <4>2
      <3>6. \A m : OnStack(m)' <=> OnStack(m) /\ indices[m] < indices[x]
        BY <3>5 DEF OnStack
      <3>7. Len(stack) \in Nat /\ \A a \in 1..(at - 1) : a \in 1..Len(stack)
        BY <3>5, StackTyped
      <3>8. StackOrdered'
        BY <2>1, <3>3, <3>5, <3>7 DEF StackOrdered
      <3>9. d > 1 => low_links' = [low_links EXCEPT ![NodeAt(d - 1)] =
                                       Smaller(low_links[NodeAt(d - 1)], low_links[NodeAt(d)])]
        BY <2>4, <2>7
      <3>10. TraversalInv' /\ SettledExact'
        BY <1>2, <2>4, <2>6, <2>10, <3>4, <3>5, <3>6, <3>8, <3>9, TraversalPops
      <3>11. S \subseteq Items
        BY <3>4 DEF AboveOnStack
      <3>12. QED BY <1>3, <2>1, <2>8, <3>5, <3>10, <3>11
    <2>11. QED BY <2>9, <2>10
  <1>8. QED BY <1>5, <1>6, <1>7

TarjanTypes ==
    /\ stack \in Seq(Items) /\ components \subseteq SUBSET Items
    /\ indices \in [Items -> Int] /\ low_links \in [Items -> Int]

LEMMA TarjanInit == Init => TarjanInv
  <1> SUFFICES ASSUME Init PROVE TarjanInv
    OBVIOUS
  <1>1. stack = << >> /\ frames = << >> /\ components = {} /\ indices = [n \in Items |-> Unvisited]
        /\ phase \in {"components", "detect"}
    BY DEF Init
  <1>2. Settled = {} /\ Visited = {} /\ Len(stack) = 0 /\ Depth = 0
    BY <1>1 DEF Settled, Visited, Depth
  <1>3. \A n : ~ OnStack(n)
    BY <1>2 DEF OnStack
  <1>4. SettledExact
    BY <1>1, <1>2 DEF SettledExact, Closed
  <1>5. StackOrdered /\ VisitedSplit /\ FinishedReturns
    BY <1>2, <1>3 DEF StackOrdered, VisitedSplit, FinishedReturns
  <1>6. FramesStacked /\ DoneVisited /\ AboveReached /\ LowLinkReached /\ LowLinkLeast
    BY <1>2, <1>3 DEF FramesStacked, DoneVisited, AboveReached, LowLinkReached, LowLinkLeast
  <1>7. QED BY <1>1, <1>4, <1>5, <1>6 DEF TarjanInv, TraversalInv

\* When the loop over the nodes ends, every node is in a component.
LEMMA AllSettled ==
    ASSUME TypeOK, TarjanInv, EndComponents
    PROVE  Settled = Items
  <1>1. phase = "components" /\ Depth = 0 /\ \A n \in Items : n \in Visited
    BY DEF EndComponents, Depth, Visited
  <1>2. \A n \in Items : ~ OnStack(n)
    BY <1>1 DEF TarjanInv, TraversalInv, FramesStacked
  <1>3. \A n \in Items : n \in Settled
    BY <1>1, <1>2 DEF TarjanInv, TraversalInv, VisitedSplit
  <1>4. QED BY <1>3, StackTyped

LEMMA OtherSteps ==
    ASSUME [Next]_vars
    PROVE  \/ phase = "components" /\ phase' = "components" /\ (VisitRoot \/ VisitTarget \/ LeaveNode)
           \/ EndComponents
           \/ /\ UNCHANGED tarjan
              /\ \/ phase = "components" /\ UNCHANGED vars
                 \/ phase \in {"cycles", "paths", "done"} /\ phase' \in {"cycles", "paths", "done"}
                 \/ Sorting /\ Sorting'
                 \/ UNCHANGED vars
  <1>1. CASE VisitRoot \/ VisitTarget \/ LeaveNode
    BY <1>1 DEF VisitRoot, VisitTarget, LeaveNode, Visit
  <1>2. CASE BeginCycle \/ FollowCycle \/ BacktrackCycle
    BY <1>2 DEF BeginCycle, FollowCycle, BacktrackCycle
  <1>3. CASE Relax \/ EndPaths \/ \E root \in Items, left_out \in {{}, Invalid} : BeginPaths(root, left_out)
    BY <1>3 DEF Relax, EndPaths, BeginPaths
  <1>4. CASE DetectRoot \/ DetectTarget \/ DetectLeave
    BY <1>4 DEF DetectRoot, DetectTarget, DetectLeave, Sorting
  <1>5. CASE BeginSort \/ SortNode \/ EndSort
    BY <1>5 DEF BeginSort, SortNode, EndSort, Sorting
  <1>6. CASE UNCHANGED vars
    BY <1>6 DEF vars
  <1>7. QED BY <1>1, <1>2, <1>3, <1>4, <1>5, <1>6 DEF Next

LEMMA TarjanStays ==
    ASSUME TarjanInv, UNCHANGED vars
    PROVE  TarjanInv'
  <1>1. /\ \A a : Targets(a)' = Targets(a)
        /\ \A a, b : Reaches(a, b)' = Reaches(a, b)
    BY GraphStays DEF vars
  <1>2. Depth' = Depth /\ \A i : NodeAt(i)' = NodeAt(i) /\ TodoAt(i)' = TodoAt(i)
    BY FramesStay DEF vars
  <1>3. \A i : DoneAt(i)' = DoneAt(i)
    BY <1>1, <1>2 DEF DoneAt
  <1>4. \A n : OnStack(n)' = OnStack(n) /\ OnPath(n)' = OnPath(n)
    BY DEF OnStack, OnPath, vars, tarjan
  <1>5. Visited' = Visited /\ Settled' = Settled /\ NextIndex' = NextIndex
    BY DEF Visited, Settled, NextIndex, vars, tarjan
  <1>6. UNCHANGED <<phase, indices, low_links, stack, components>>
    BY DEF vars, tarjan
  <1>7. SettledExact => SettledExact'
    BY SettledExactStays DEF vars, tarjan
  <1>8. StackOrdered => StackOrdered'
    BY <1>6 DEF StackOrdered
  <1>9. VisitedSplit => VisitedSplit'
    BY <1>4, <1>5, <1>6 DEF VisitedSplit
  <1>10. FramesStacked => FramesStacked'
    BY <1>2, <1>4, <1>6 DEF FramesStacked
  <1>11. DoneVisited => DoneVisited'
    BY <1>1, <1>2, <1>3, <1>4, <1>5 DEF DoneVisited
  <1>12. AboveReached => AboveReached'
    BY <1>1, <1>2, <1>4, <1>6 DEF AboveReached
  <1>13. FinishedReturns => FinishedReturns'
    BY <1>1, <1>4, <1>6 DEF FinishedReturns
  <1>14. LowLinkReached => LowLinkReached'
    BY <1>1, <1>2, <1>4, <1>6 DEF LowLinkReached
  <1>15. LowLinkLeast => LowLinkLeast'
    BY <1>1, <1>2, <1>3, <1>4, <1>6 DEF LowLinkLeast, InPart, Looked
  <1>16. TraversalInv => TraversalInv'
    BY <1>8, <1>9, <1>10, <1>11, <1>12, <1>13, <1>14, <1>15 DEF TraversalInv
  <1>17. QED BY <1>5, <1>6, <1>7, <1>16 DEF TarjanInv, Sorting

LEMMA TarjanInvStep ==
    ASSUME TypeOK, FramesInv, TarjanInv, [Next]_vars
    PROVE  TarjanInv' /\ TarjanTypes'
  <1>1. edges' = edges
    BY EdgesStay
  <1>2. TarjanTypes
    BY DEF TypeOK, TarjanTypes
  <1>3. CASE phase = "components" /\ phase' = "components" /\ (VisitRoot \/ VisitTarget \/ LeaveNode)
    BY <1>3, TraversalStep DEF TarjanInv, TarjanTypes, Sorting
  <1>4. CASE EndComponents
    <2>1. phase' = "cycles" /\ UNCHANGED <<indices, low_links, stack, components>>
      BY <1>4 DEF EndComponents, tarjan
    <2>2. Settled = Items
      BY <1>4, AllSettled
    <2>3. SettledExact'
      BY <1>1, <2>1, SettledExactStays DEF TarjanInv
    <2>4. QED BY <1>2, <2>1, <2>2, <2>3 DEF TarjanInv, TarjanTypes, Settled, Sorting
  <1>5. CASE UNCHANGED vars
    BY <1>2, <1>5, TarjanStays DEF vars, tarjan, TarjanTypes
  <1>6. CASE /\ UNCHANGED tarjan
             /\ \/ phase \in {"cycles", "paths", "done"} /\ phase' \in {"cycles", "paths", "done"}
                \/ Sorting /\ Sorting'
    <2>1. UNCHANGED <<indices, low_links, stack, components>>
      BY <1>6 DEF tarjan
    <2>2. SettledExact'
      BY <1>1, <2>1, SettledExactStays DEF TarjanInv
    <2>3. QED BY <1>2, <1>6, <2>1, <2>2 DEF TarjanInv, TarjanTypes, Settled, Sorting
  <1>7. QED BY <1>3, <1>4, <1>5, <1>6, OtherSteps

LEMMA ComponentsAreExact ==
    ASSUME TypeOK, TarjanInv
    PROVE  ComponentsExact
  <1>1. phase \in {"components", "cycles", "paths", "done", "detect", "rejected", "sort", "sorted"}
    BY DEF TypeOK, Phases
  <1>2. phase \notin {"components", "detect", "rejected", "sort", "sorted"} => Settled = Items
    BY <1>1 DEF TarjanInv
  <1>3. QED BY <1>2 DEF TarjanInv, SettledExact, ComponentsExact, Settled

\* Two components that share a node are one.
LEMMA ComponentsDisjoint ==
    ASSUME TarjanInv, NEW C \in components, NEW D \in components, NEW n \in C, n \in D
    PROVE  C = D
  BY DEF TarjanInv, SettledExact

LEMMA CyclicHasOther ==
    ASSUME NEW C \in SUBSET Items, NEW n \in C
    PROVE  Cyclic(C) <=> C # {n}
  <1>1. Cardinality({n}) = 1 /\ IsFiniteSet(C) /\ IsFiniteSet({n})
    BY FS_Singleton, ItemsFinite
  <1>2. {n} \subseteq C
    OBVIOUS
  <1>3. Cardinality(C) \in Nat /\ 1 <= Cardinality(C) /\ (Cardinality(C) = 1 => C = {n})
    BY <1>1, <1>2, FS_Subset, FS_CardinalityType
  <1>4. QED BY <1>1, <1>3 DEF Cyclic

LEMMA QuarantineIsExact ==
    ASSUME TypeOK, TarjanInv
    PROVE  QuarantineExact
  <1> SUFFICES ASSUME phase = "done" PROVE QuarantineExact
    BY DEF QuarantineExact
  <1> DEFINE onCycle == {n \in Items : ComponentOf(n) # {n}}
  <1>1. Settled = Items /\ \A C \in components : \A n \in C : C = ComponentOf(n)
    BY DEF TarjanInv, SettledExact
  <1>2. \A C \in components : C \in SUBSET Items
    BY DEF TypeOK
  <1>3. ASSUME NEW n \in Items PROVE n \in Invalid <=> ComponentOf(n) # {n}
    <2>1. PICK C \in components : n \in C
      BY <1>1 DEF Settled
    <2>2. C = ComponentOf(n)
      BY <1>1, <2>1
    <2>3. \A D \in components : n \in D => D = C
      BY <1>1, <2>2
    <2>4. Cyclic(C) <=> C # {n}
      BY <1>2, <2>1, CyclicHasOther
    <2>5. n \in Invalid <=> Cyclic(C)
      BY <2>1, <2>3 DEF Invalid
    <2>6. QED BY <2>2, <2>4, <2>5
  <1>4. Invalid = onCycle
    BY <1>3 DEF Invalid
  <1>5. Evaluable = Items \ onCycle
    BY <1>4 DEF Evaluable
  <1> DEFINE direct(t) == {s \in Items : <<s, t, "hard">> \in edges}
  <1>6. \A t \in Items \ onCycle : direct(t) \cap onCycle = {} => HardBlockers(t) = direct(t)
    BY <1>5 DEF HardBlockers
  <1>7. QED BY <1>4, <1>6 DEF QuarantineExact

-----------------------------------------------------------------------------
(* Every cyclic component is explained.                                    *)

\* Nothing in a cyclic component is sealed off from its first node: the search never
\* backs out of that node.
LEMMA NoDeadEnd ==
    ASSUME TypeOK, TarjanInv, NEW C \in components, Cyclic(C), NEW r \in C,
           NEW S \in SUBSET C, r \notin S,
           \A n \in S \cup {r} : Targets(n) \cap C \subseteq S
    PROVE  FALSE
  <1>1. C \in SUBSET Items /\ C = ComponentOf(r)
    BY DEF TypeOK, TarjanInv, SettledExact
  <1>2. \A x \in C : Reaches(r, x) /\ Reaches(x, r)
    BY <1>1 DEF ComponentOf
  <1> DEFINE Out == {x \in Items : Reaches(r, x) /\ x \notin C}
  <1>3. ASSUME NEW x \in S \cup {r}, NEW t \in Targets(x) PROVE t \in S \cup Out
    <2>1. t \in Items /\ Reaches(x, t)
      BY ReachesEdge DEF Targets
    <2>2. Reaches(r, t)
      BY <1>2, <2>1, ReachesTransitive
    <2>3. QED BY <2>1, <2>2
  <1>4. ASSUME NEW x \in Out, NEW t \in Targets(x) PROVE t \in Out
    <2>1. t \in Items /\ Reaches(x, t) /\ Reaches(r, x)
      BY ReachesEdge DEF Targets
    <2>2. Reaches(r, t)
      BY <2>1, ReachesTransitive
    <2>3. t \notin C
      <3> SUFFICES ASSUME t \in C PROVE FALSE
        OBVIOUS
      <3>1. Reaches(t, r)
        BY <1>2
      <3>2. Reaches(x, r)
        BY <2>1, <3>1, ReachesTransitive
      <3>3. x \in C
        BY <1>1, <2>1, <3>2 DEF ComponentOf
      <3>4. QED BY <3>3
    <2>4. QED BY <2>1, <2>2, <2>3
  <1>5. Closed(S \cup Out) /\ Closed({r} \cup S \cup Out)
    BY <1>3, <1>4 DEF Closed
  <1>6. S \cup Out \in SUBSET Items /\ {r} \cup S \cup Out \in SUBSET Items
    BY <1>1
  <1>7. PICK m \in C : m # r
    BY <1>1, CyclicHasOther
  <1>8. m \in {r} \cup S \cup Out
    <2> HIDE DEF Out
    <2>1. QED BY <1>2, <1>5, <1>6, <1>7, ReachesClosed
  <1>9. m \in S \cup Out
    BY <1>7, <1>8
  <1>10. r \in S \cup Out
    <2> HIDE DEF Out
    <2>1. QED BY <1>2, <1>5, <1>6, <1>7, <1>9, ReachesClosed
  <1>11. QED BY <1>10

LEMMA ExplainedStays ==
    ASSUME CyclicComponentsExplained, cycles' = cycles, searched' = searched
    PROVE  CyclicComponentsExplained'
  BY DEF CyclicComponentsExplained

\* The component the search is in.
LEMMA TheComponent ==
    ASSUME TypeOK, TarjanInv, NEW C \in Unsearched, NodeAt(1) \in C
    PROVE  /\ C \in components /\ Cyclic(C) /\ C \in SUBSET Items
           /\ \A n : Member(n) <=> n \in C
           /\ \A D \in Unsearched : NodeAt(1) \in D => D = C
  <1>1. C \in components /\ Cyclic(C) /\ C \in SUBSET Items /\ Unsearched \subseteq components
    BY DEF Unsearched, TypeOK
  <1>2. \A D \in Unsearched : NodeAt(1) \in D => D = C
    BY <1>1, ComponentsDisjoint
  <1>3. \A n : Member(n) <=> \E D \in Unsearched : n \in D /\ NodeAt(1) \in D
    BY DEF Member, NodeAt
  <1>4. \A n : Member(n) <=> n \in C
    BY <1>2, <1>3
  <1>5. QED BY <1>1, <1>2, <1>4

LEMMA ExplainBegins ==
    ASSUME TypeOK, ExplainInv, BeginCycle
    PROVE  ExplainInv'
  <1>1. PICK C \in Unsearched : /\ Least(C) \in C /\ C \subseteq Items /\ frames' = <<Frame(Least(C))>>
    BY LeastUnsearched DEF BeginCycle
  <1>2. /\ edges' = edges /\ phase' = "cycles" /\ UNCHANGED <<components, searched, cycles>>
    BY DEF BeginCycle, tarjan, search
  <1>3. PICK n \in Items : n = Least(C)
    BY <1>1
  <1>4. Depth' = 1 /\ NodeAt(1)' = n /\ TodoAt(1)' = Targets(n)
    BY <1>1, <1>3, FramesBegun
  <1>5. Targets(n)' = Targets(n)
    BY <1>2, GraphStays
  <1>6. DoneAt(1)' = {}
    BY <1>4, <1>5 DEF DoneAt
  <1>7. \A i \in 1..1 : i = 1
    OBVIOUS
  <1>8. Sealed({}, C, 1)' /\ GivenUp(C, 1)' = {}
    BY <1>6 DEF Sealed, GivenUp
  <1>9. SearchIn(C)'
    <2>1. \A i \in 1..1 : (NodeAt(i) \in C)'
      BY <1>1, <1>3, <1>4, <1>7
    <2>2. \A i \in 1..1 : (\E S \in SUBSET C : Sealed(S, C, i) /\ GivenUp(C, i) \subseteq S \cup PathAfter(i))'
      BY <1>7, <1>8
    <2>3. QED BY <1>4, <2>1, <2>2 DEF SearchIn
  <1>10. Unsearched' = Unsearched
    BY <1>2 DEF Unsearched
  <1>11. CyclicComponentsExplained'
    BY <1>2, ExplainedStays DEF ExplainInv
  <1>12. QED BY <1>1, <1>2, <1>9, <1>10, <1>11 DEF ExplainInv, Sorting

LEMMA ExplainFollows ==
    ASSUME TypeOK, FramesInv, TarjanInv, ExplainInv, FollowCycle
    PROVE  ExplainInv'
  <1>1. /\ phase = "cycles" /\ phase' = "cycles" /\ edges' = edges /\ components' = components
        /\ frames # << >> /\ Top.todo # {} /\ FramesPath
    BY DEF FollowCycle, FramesInv, tarjan
  <1>2. PICK d \in Nat : d = Depth /\ d > 0
    BY <1>1, FramesTyped
  <1>3. PICK n : n = NextTarget
    OBVIOUS
  <1>4. n \in Items /\ n \in TodoAt(d) /\ n \in Targets(NodeAt(d)) /\ 1 \in 1..d /\ d \in 1..d
    BY <1>1, <1>2, <1>3, NextTargetInTodo, NextTargetFollows
  <1>5. PICK C \in Unsearched : SearchIn(C)
    BY <1>1, <1>2 DEF ExplainInv
  <1>6. NodeAt(1) \in C /\ \A i \in 1..d : NodeAt(i) \in C
    BY <1>2, <1>4, <1>5 DEF SearchIn
  <1>7. /\ C \in components /\ Cyclic(C) /\ C \in SUBSET Items
        /\ \A m : Member(m) <=> m \in C
        /\ \A D \in Unsearched : NodeAt(1) \in D => D = C
    BY <1>6, TheComponent
  <1>8. \A s : Targets(s)' = Targets(s)
    BY <1>1, GraphStays
  <1>9. CASE n = NodeAt(1)
    <2>1. PICK p : p = PathFrom(1, n)
      OBVIOUS
    <2>2. /\ frames' = << >> /\ cycles' = cycles \cup {p}
          /\ searched' = searched \cup {D \in Unsearched : n \in D}
      BY <1>3, <1>9, <2>1 DEF FollowCycle, NodeAt
    <2>3. \A k \in 1..Len(p) : \E j \in 1..d : p[k] = NodeAt(j)
      BY <1>1, <1>2, <1>4, <1>9, <2>1, ClosedPath
    <2>4. \A k \in 1..Len(p) : p[k] \in C
      BY <1>6, <2>3
    <2>5. \A D \in Unsearched : n \in D => D = C
      BY <1>7, <1>9
    <2>6. CyclicComponentsExplained'
      BY <2>2, <2>4, <2>5 DEF ExplainInv, CyclicComponentsExplained
    <2>7. Depth' = 0
      BY <2>2, FramesEnded
    <2>8. QED BY <1>1, <2>6, <2>7 DEF ExplainInv, Sorting
  <1>10. CASE n # NodeAt(1)
    <2>1. frames' = (IF MayFollow(n) THEN Append(Skipped, Frame(n)) ELSE Skipped)
          /\ UNCHANGED <<cycles, searched>>
      BY <1>3, <1>10 DEF FollowCycle, NodeAt
    <2>2. Unsearched' = Unsearched
      BY <1>1, <2>1 DEF Unsearched
    <2>3. CyclicComponentsExplained'
      BY <2>1, ExplainedStays DEF ExplainInv
    <2>4. SUFFICES SearchIn(C)'
      BY <1>1, <1>5, <2>2, <2>3, <2>4 DEF ExplainInv, Sorting
    <2>5. \A i \in 1..d : \E S \in SUBSET C : Sealed(S, C, i) /\ GivenUp(C, i) \subseteq S \cup PathAfter(i)
      BY <1>2, <1>5 DEF SearchIn
    <2>6. ASSUME \A i \in 1..d : NodeAt(i)' = NodeAt(i), NEW i \in 1..d
          PROVE  PathAfter(i)' = PathAfter(i) /\ \A S : Sealed(S, C, i) => Sealed(S, C, i)'
      <3>1. \A j \in 2..i : j \in 1..d
        OBVIOUS
      <3>2. PathAfter(i)' = PathAfter(i)
        BY <2>6, <3>1 DEF PathAfter
      <3>3. NodeAt(1)' = NodeAt(1)
        BY <1>4, <2>6
      <3>4. QED BY <1>8, <3>2, <3>3 DEF Sealed
    <2>7. CASE MayFollow(n)
      <3>1. frames' = Append(Skipped, Frame(n))
        BY <2>1, <2>7
      <3>2. /\ Depth' = d + 1 /\ NodeAt(d + 1)' = n /\ TodoAt(d + 1)' = Targets(n)
            /\ \A i \in 1..d : NodeAt(i)' = NodeAt(i) /\ TodoAt(i)' = Advanced(i)
        BY <1>1, <1>2, <1>4, <3>1, FramesPushed
      <3>3. n \in C
        BY <1>7, <2>7 DEF MayFollow
      <3>4. \A i \in 1..(d + 1) : i \in 1..d \/ i = d + 1
        OBVIOUS
      <3>5. \A i \in 1..(d + 1) : (NodeAt(i) \in C)'
        BY <1>6, <3>2, <3>3, <3>4
      <3>6. ASSUME NEW i \in 1..d PROVE GivenUp(C, i)' \subseteq GivenUp(C, i)
        <4>1. DoneAt(i)' \subseteq DoneAt(i) \cup (IF i = d THEN {n} ELSE {})
          BY <1>2, <1>3, <1>8, <3>2 DEF DoneAt, Advanced
        <4>2. CASE i = d
          <5>1. NodeAt(i + 1)' = n /\ i < Depth' /\ ~ (i < Depth)
            BY <1>2, <3>2, <4>2
          <5>2. QED BY <4>1, <5>1 DEF GivenUp
        <4>3. CASE i # d
          <5>1. NodeAt(i + 1)' = NodeAt(i + 1) /\ i < Depth' /\ i < Depth
            BY <1>2, <3>2, <4>3
          <5>2. QED BY <4>1, <4>3, <5>1 DEF GivenUp
        <4>4. QED BY <4>2, <4>3
      <3>7. ASSUME NEW i \in 1..(d + 1)
            PROVE  (\E S \in SUBSET C : Sealed(S, C, i) /\ GivenUp(C, i) \subseteq S \cup PathAfter(i))'
        <4>1. CASE i = d + 1
          <5>1. DoneAt(d + 1)' = {}
            BY <1>8, <3>2 DEF DoneAt
          <5>2. GivenUp(C, i)' = {} /\ Sealed({}, C, i)'
            BY <4>1, <5>1 DEF GivenUp, Sealed
          <5>3. QED BY <5>2
        <4>2. CASE i \in 1..d
          <5>1. PICK S \in SUBSET C : Sealed(S, C, i) /\ GivenUp(C, i) \subseteq S \cup PathAfter(i)
            BY <2>5, <4>2
          <5>2. Sealed(S, C, i)' /\ PathAfter(i)' = PathAfter(i)
            BY <2>6, <3>2, <4>2, <5>1
          <5>3. GivenUp(C, i)' \subseteq S \cup PathAfter(i)'
            BY <3>6, <4>2, <5>1, <5>2
          <5>4. QED BY <5>2, <5>3
        <4>3. QED BY <3>4, <4>1, <4>2
      <3>8. QED BY <3>2, <3>5, <3>7 DEF SearchIn
    <2>8. CASE ~ MayFollow(n)
      <3>1. frames' = Skipped
        BY <2>1, <2>8
      <3>2. /\ Depth' = d
            /\ \A i \in 1..d : NodeAt(i)' = NodeAt(i) /\ TodoAt(i)' = Advanced(i)
        BY <1>1, <1>2, <3>1, FramesSkipped
      <3>3. n \in C => n \in PathAfter(d)
        <4> SUFFICES ASSUME n \in C PROVE n \in PathAfter(d)
          OBVIOUS
        <4>1. PICK j \in 1..d : NodeAt(j) = n
          BY <1>2, <1>7, <2>8, OnPathIs DEF MayFollow
        <4>2. j \in 2..d
          BY <1>10, <4>1
        <4>3. QED BY <4>1, <4>2 DEF PathAfter
      <3>4. ASSUME NEW i \in 1..d
            PROVE  GivenUp(C, i)' \subseteq GivenUp(C, i) \cup PathAfter(i)
        <4>1. DoneAt(i)' \subseteq DoneAt(i) \cup (IF i = d THEN {n} ELSE {})
          BY <1>2, <1>3, <1>8, <3>2 DEF DoneAt, Advanced
        <4>2. i < d => NodeAt(i + 1)' = NodeAt(i + 1)
          BY <3>2
        <4>3. CASE i = d
          BY <1>2, <3>2, <3>3, <4>1, <4>3 DEF GivenUp
        <4>4. CASE i # d
          BY <1>2, <3>2, <4>1, <4>2, <4>4 DEF GivenUp
        <4>5. QED BY <4>3, <4>4
      <3>5. ASSUME NEW i \in 1..d
            PROVE  (\E S \in SUBSET C : Sealed(S, C, i) /\ GivenUp(C, i) \subseteq S \cup PathAfter(i))'
        <4>1. PICK S \in SUBSET C : Sealed(S, C, i) /\ GivenUp(C, i) \subseteq S \cup PathAfter(i)
          BY <2>5
        <4>2. Sealed(S, C, i)' /\ PathAfter(i)' = PathAfter(i)
          BY <2>6, <3>2, <4>1
        <4>3. GivenUp(C, i)' \subseteq S \cup PathAfter(i)'
          BY <3>4, <4>1, <4>2
        <4>4. QED BY <4>2, <4>3
      <3>6. \A i \in 1..d : (NodeAt(i) \in C)'
        BY <1>6, <3>2
      <3>7. QED BY <3>2, <3>5, <3>6 DEF SearchIn
    <2>9. QED BY <2>7, <2>8
  <1>11. QED BY <1>9, <1>10

LEMMA ExplainBacktracks ==
    ASSUME TypeOK, FramesInv, TarjanInv, ExplainInv, BacktrackCycle
    PROVE  ExplainInv'
  <1>1. /\ phase = "cycles" /\ phase' = "cycles" /\ edges' = edges /\ UNCHANGED <<components, cycles>>
        /\ frames # << >> /\ Top.todo = {} /\ frames' = Pop(frames) /\ FramesPath
    BY DEF BacktrackCycle, FramesInv, tarjan
  <1>2. PICK d \in Nat : d = Depth /\ d > 0
    BY <1>1, FramesTyped
  <1>3. 1 \in 1..d /\ d \in 1..d /\ TodoAt(d) = {}
    BY <1>1, <1>2, FramesTyped DEF TodoAt
  <1>4. PICK C \in Unsearched : SearchIn(C)
    BY <1>1, <1>2 DEF ExplainInv
  <1>5. \A i \in 1..d : NodeAt(i) \in C
    BY <1>2, <1>4 DEF SearchIn
  <1>6. C \in components /\ Cyclic(C) /\ C \in SUBSET Items
    BY <1>3, <1>5, TheComponent
  <1>7. \A s : Targets(s)' = Targets(s)
    BY <1>1, GraphStays
  <1>8. \A i \in 1..d : \E S \in SUBSET C : Sealed(S, C, i) /\ GivenUp(C, i) \subseteq S \cup PathAfter(i)
    BY <1>2, <1>4 DEF SearchIn
  <1>9. PICK U \in SUBSET C : Sealed(U, C, d) /\ GivenUp(C, d) \subseteq U \cup PathAfter(d)
    BY <1>3, <1>8
  <1>10. Targets(NodeAt(d)) \cap C \subseteq U \cup PathAfter(d)
    <2>1. GivenUp(C, d) = Targets(NodeAt(d)) \cap C
      BY <1>2, <1>3 DEF GivenUp, DoneAt
    <2>2. QED BY <1>9, <2>1
  <1>11. d > 1
    <2> SUFFICES ASSUME d = 1 PROVE FALSE
      BY <1>2
    <2>1. PathAfter(d) = {}
      BY DEF PathAfter
    <2>2. NodeAt(1) \in C /\ NodeAt(1) \notin U /\ \A n \in U \cup {NodeAt(1)} : Targets(n) \cap C \subseteq U
      BY <1>3, <1>5, <1>9, <1>10, <2>1 DEF Sealed
    <2>3. QED BY <1>6, <2>2, NoDeadEnd
  <1>12. searched' = searched
    BY <1>2, <1>11 DEF BacktrackCycle, Depth
  <1>13. /\ Depth' = d - 1
         /\ \A i \in 1..(d - 1) : i \in 1..d /\ NodeAt(i)' = NodeAt(i) /\ TodoAt(i)' = TodoAt(i)
    BY <1>1, <1>2, FramesPopped
  <1>14. ASSUME NEW i \in 1..(d - 1)
         PROVE  PathAfter(i)' = PathAfter(i) /\ \A S : Sealed(S, C, i) => Sealed(S, C, i)'
    <2>1. \A j \in 2..i : j \in 1..(d - 1)
      OBVIOUS
    <2>2. PathAfter(i)' = PathAfter(i)
      BY <1>13, <2>1 DEF PathAfter
    <2>3. NodeAt(1)' = NodeAt(1)
      BY <1>11, <1>13
    <2>4. QED BY <1>7, <2>2, <2>3 DEF Sealed
  <1>15. ASSUME NEW i \in 1..(d - 1)
         PROVE  (\E S \in SUBSET C : Sealed(S, C, i) /\ GivenUp(C, i) \subseteq S \cup PathAfter(i))'
    <2>1. PICK S \in SUBSET C : Sealed(S, C, i) /\ GivenUp(C, i) \subseteq S \cup PathAfter(i)
      BY <1>8, <1>13
    <2>2. DoneAt(i)' = DoneAt(i)
      BY <1>7, <1>13 DEF DoneAt
    <2>3. CASE i # d - 1
      <3>1. i + 1 \in 1..(d - 1) /\ i < d - 1
        BY <2>3
      <3>2. NodeAt(i + 1)' = NodeAt(i + 1)
        BY <1>13, <3>1
      <3>3. GivenUp(C, i)' = GivenUp(C, i)
        BY <1>2, <1>13, <2>2, <3>1, <3>2 DEF GivenUp
      <3>4. QED BY <1>14, <2>1, <3>3
    <2>4. CASE i = d - 1
      <3>1. PICK X : X = S \cup U \cup {NodeAt(d)}
        OBVIOUS
      <3>2. PathAfter(d) = PathAfter(i) \cup {NodeAt(d)}
        <4>1. \A j : j \in 2..d <=> j \in 2..i \/ j = d
          BY <1>11, <2>4
        <4>2. QED BY <4>1 DEF PathAfter
      <3>3. NodeAt(1) # NodeAt(d)
        BY <1>1, <1>2, <1>3, <1>11 DEF FramesPath
      <3>4. \A n \in X : Targets(n) \cap C \subseteq X \cup PathAfter(i)
        <4>1. \A n \in S : Targets(n) \cap C \subseteq S \cup PathAfter(i)
          BY <2>1 DEF Sealed
        <4>2. \A n \in U : Targets(n) \cap C \subseteq U \cup PathAfter(d)
          BY <1>9 DEF Sealed
        <4>3. QED BY <1>10, <3>1, <3>2, <4>1, <4>2
      <3>5. Sealed(X, C, i)
        BY <1>3, <1>5, <1>9, <2>1, <3>1, <3>3, <3>4 DEF Sealed
      <3>6. GivenUp(C, i)' \subseteq GivenUp(C, i) \cup {NodeAt(d)}
        <4>1. i < Depth => NodeAt(i + 1) = NodeAt(d)
          BY <1>2, <2>4
        <4>2. QED BY <2>2, <4>1 DEF GivenUp
      <3>7. GivenUp(C, i)' \subseteq X \cup PathAfter(i)'
        BY <1>14, <2>1, <3>1, <3>6
      <3>8. X \in SUBSET C
        BY <1>3, <1>5, <3>1
      <3>9. QED BY <1>14, <3>5, <3>7, <3>8
    <2>5. QED BY <2>3, <2>4
  <1>16. \A i \in 1..(d - 1) : (NodeAt(i) \in C)'
    BY <1>5, <1>13
  <1>17. SearchIn(C)'
    BY <1>13, <1>15, <1>16 DEF SearchIn
  <1>18. Unsearched' = Unsearched
    BY <1>1, <1>12 DEF Unsearched
  <1>19. CyclicComponentsExplained'
    BY <1>1, <1>12, ExplainedStays DEF ExplainInv
  <1>20. QED BY <1>1, <1>17, <1>18, <1>19 DEF ExplainInv, Sorting

LEMMA ExplainInvStep ==
    ASSUME TypeOK, FramesInv, TarjanInv, ExplainInv, [Next]_vars
    PROVE  ExplainInv'
  <1>1. CASE BeginCycle
    BY <1>1, ExplainBegins
  <1>2. CASE FollowCycle
    BY <1>2, ExplainFollows
  <1>3. CASE BacktrackCycle
    BY <1>3, ExplainBacktracks
  <1>4. CASE VisitRoot \/ VisitTarget \/ LeaveNode
    <2>1. phase = "components" /\ phase' = "components" /\ UNCHANGED <<cycles, searched>>
      BY <1>4 DEF VisitRoot, VisitTarget, LeaveNode, Visit, search
    <2>2. QED BY <2>1, ExplainedStays DEF ExplainInv, Sorting
  <1>5. CASE EndComponents
    <2>1. phase' = "cycles" /\ UNCHANGED <<cycles, searched>> /\ frames' = << >>
      BY <1>5 DEF EndComponents, search
    <2>2. Depth' = 0
      BY <2>1, FramesEnded
    <2>3. QED BY <2>1, <2>2, ExplainedStays DEF ExplainInv, Sorting
  <1>6. CASE Relax \/ EndPaths \/ \E root \in Items, left_out \in {{}, Invalid} : BeginPaths(root, left_out)
    <2>1. phase' \in {"paths", "done"} /\ UNCHANGED <<cycles, searched>>
      BY <1>6 DEF Relax, EndPaths, BeginPaths, search
    <2>2. QED BY <2>1, ExplainedStays DEF ExplainInv, Sorting
  <1>7. CASE DetectRoot \/ DetectTarget \/ DetectLeave \/ BeginSort \/ SortNode \/ EndSort
    <2>1. Sorting /\ phase' # "cycles" /\ searched' = searched
      BY <1>7 DEF DetectRoot, DetectTarget, DetectLeave, BeginSort, SortNode, EndSort, search, Sorting
    <2>2. searched' = {}
      BY <2>1 DEF ExplainInv
    <2>3. QED BY <2>1, <2>2 DEF ExplainInv, CyclicComponentsExplained
  <1>8. CASE UNCHANGED vars
    <2>1. /\ \A a : Targets(a)' = Targets(a)
      BY <1>8, GraphStays DEF vars
    <2>2. Depth' = Depth /\ \A i : NodeAt(i)' = NodeAt(i) /\ TodoAt(i)' = TodoAt(i)
      BY <1>8, FramesStay DEF vars
    <2>3. \A i : DoneAt(i)' = DoneAt(i) /\ PathAfter(i)' = PathAfter(i)
      BY <2>1, <2>2 DEF DoneAt, PathAfter
    <2>4. \A S, C, i : Sealed(S, C, i) => Sealed(S, C, i)'
      BY <2>1, <2>2, <2>3 DEF Sealed
    <2>5. \A C, i : GivenUp(C, i)' = GivenUp(C, i)
      BY <2>2, <2>3 DEF GivenUp
    <2>6. \A C : SearchIn(C) => SearchIn(C)'
      BY <2>2, <2>3, <2>4, <2>5 DEF SearchIn
    <2>7. UNCHANGED <<phase, components, searched, cycles>>
      BY <1>8 DEF vars, tarjan, search
    <2>8. Unsearched' = Unsearched
      BY <2>7 DEF Unsearched
    <2>9. CyclicComponentsExplained'
      BY <2>7, ExplainedStays DEF ExplainInv
    <2>10. QED BY <2>2, <2>6, <2>7, <2>8, <2>9 DEF ExplainInv, Sorting
  <1>9. QED
    BY <1>1, <1>2, <1>3, <1>4, <1>5, <1>6, <1>7, <1>8 DEF Next

-----------------------------------------------------------------------------
(* The order of paths, and the order of the queue.                         *)

LEMMA BetterIrreflexive ==
    ASSUME NEW p \in Seq(Nat), p # << >>
    PROVE  ~ Better(p, p)
  <1>1. Len(p) \in Nat /\ \A i \in 1..Len(p) : p[i] \in Nat
    OBVIOUS
  <1>2. QED BY <1>1 DEF Better

LEMMA BetterTransitive ==
    ASSUME NEW p \in Seq(Nat), NEW q \in Seq(Nat), NEW r \in Seq(Nat), q # << >>,
           Better(p, q), Better(q, r)
    PROVE  Better(p, r)
  <1>1. /\ Len(p) \in Nat /\ Len(q) \in Nat /\ Len(r) \in Nat
        /\ \A i \in 1..Len(p) : p[i] \in Nat
        /\ \A i \in 1..Len(q) : q[i] \in Nat
        /\ \A i \in 1..Len(r) : r[i] \in Nat
    OBVIOUS
  <1>2. CASE r = << >> \/ Len(p) < Len(q) \/ Len(q) < Len(r)
    <2>1. r = << >> \/ Len(p) < Len(r)
      BY <1>1, <1>2 DEF Better
    <2>2. QED BY <2>1 DEF Better
  <1>3. CASE r # << >> /\ ~ (Len(p) < Len(q)) /\ ~ (Len(q) < Len(r))
    <2>1. PICK i \in 1..Len(p) : p[i] < q[i] /\ \A h \in 1..(i - 1) : p[h] = q[h]
      BY <1>3 DEF Better
    <2>2. PICK j \in 1..Len(q) : q[j] < r[j] /\ \A h \in 1..(j - 1) : q[h] = r[h]
      BY <1>3 DEF Better
    <2>3. Len(p) = Len(q) /\ Len(q) = Len(r)
      BY <1>3 DEF Better
    <2>4. CASE i <= j
      <3>1. p[i] < r[i]
        <4>1. p[i] \in Nat /\ q[i] \in Nat /\ r[i] \in Nat /\ p[i] < q[i]
          BY <1>1, <2>1, <2>3
        <4>2. CASE i = j
          BY <2>2, <4>1, <4>2
        <4>3. CASE i # j
          <5>1. q[i] = r[i]
            BY <1>1, <2>1, <2>2, <2>3, <2>4, <4>3
          <5>2. QED BY <4>1, <5>1
        <4>4. QED BY <4>2, <4>3
      <3>2. \A h \in 1..(i - 1) : p[h] = r[h]
        BY <1>1, <2>1, <2>2, <2>3, <2>4
      <3>3. QED BY <2>3, <3>1, <3>2 DEF Better
    <2>5. CASE j < i
      <3>1. p[j] < r[j]
        <4>1. p[j] = q[j]
          BY <1>1, <2>1, <2>2, <2>3, <2>5
        <4>2. QED BY <2>2, <4>1
      <3>2. \A h \in 1..(j - 1) : p[h] = r[h]
        BY <1>1, <2>1, <2>2, <2>3, <2>5
      <3>3. QED BY <2>3, <3>1, <3>2 DEF Better
    <2>6. QED BY <2>4, <2>5
  <1>4. QED BY <1>2, <1>3

\* Of two different paths one is better.
LEMMA BetterTotal ==
    ASSUME NEW p \in Seq(Nat), NEW q \in Seq(Nat), ~ Better(p, q), ~ Better(q, p)
    PROVE  p = q
  <1>1. /\ Len(p) \in Nat /\ Len(q) \in Nat
        /\ \A i \in 1..Len(p) : p[i] \in Nat
        /\ \A i \in 1..Len(q) : q[i] \in Nat
    OBVIOUS
  <1>2. Len(p) = Len(q)
    BY <1>1 DEF Better
  <1> DEFINE D == {i \in 1..Len(p) : p[i] # q[i]}
  <1>3. D = {}
    <2> SUFFICES ASSUME D # {} PROVE FALSE
      OBVIOUS
    <2>1. D \in SUBSET Nat
      BY <1>1
    <2>2. PICK i \in D : \A j \in D : i <= j
      <3> HIDE DEF D
      <3>1. QED BY <2>1, LeastNumber
    <2>3. \A h \in 1..(i - 1) : h \notin D /\ h \in 1..Len(p)
      BY <1>1, <2>2
    <2>4. \A h \in 1..(i - 1) : p[h] = q[h]
      BY <2>3
    <2>5. p[i] < q[i] \/ q[i] < p[i]
      BY <1>1, <1>2, <2>2
    <2>6. QED BY <1>2, <2>4, <2>5 DEF Better
  <1>4. QED BY <1>2, <1>3, SeqEqual

LEMMA NotBetterTransitive ==
    ASSUME NEW p \in Seq(Nat), NEW q \in Seq(Nat), NEW r \in Seq(Nat), r # << >>,
           ~ Better(p, q), ~ Better(q, r)
    PROVE  ~ Better(p, r)
  <1>1. CASE Better(r, q)
    BY <1>1, BetterTransitive
  <1>2. CASE ~ Better(r, q)
    BY <1>2, BetterTotal
  <1>3. QED BY <1>1, <1>2

\* A common last step decides nothing.
LEMMA BetterAppend ==
    ASSUME NEW p \in Seq(Nat), NEW q \in Seq(Nat), NEW t \in Nat, Better(Append(p, t), Append(q, t))
    PROVE  Better(p, q)
  <1>1. PICK P, Q : P = Append(p, t) /\ Q = Append(q, t)
    OBVIOUS
  <1>2. /\ P \in Seq(Nat) /\ Len(P) = Len(p) + 1 /\ P[Len(p) + 1] = t
        /\ \A i \in 1..Len(p) : P[i] = p[i]
    BY <1>1, AppendProperties
  <1>3. /\ Q \in Seq(Nat) /\ Len(Q) = Len(q) + 1 /\ Q[Len(q) + 1] = t
        /\ \A i \in 1..Len(q) : Q[i] = q[i]
    BY <1>1, AppendProperties
  <1>4. Len(p) \in Nat /\ Len(q) \in Nat /\ Q # << >>
    BY <1>3
  <1>5. CASE Len(P) < Len(Q)
    BY <1>2, <1>3, <1>4, <1>5 DEF Better
  <1>6. CASE ~ (Len(P) < Len(Q))
    <2>1. PICK i \in 1..Len(P) : P[i] < Q[i] /\ \A h \in 1..(i - 1) : P[h] = Q[h]
      BY <1>1, <1>4, <1>6 DEF Better
    <2>2. Len(p) = Len(q)
      BY <1>1, <1>2, <1>3, <1>4, <1>6 DEF Better
    <2>3. i \in 1..Len(p)
      <3>1. i # Len(p) + 1
        BY <1>2, <1>3, <2>1, <2>2
      <3>2. QED BY <1>2, <1>4, <3>1
    <2>4. p[i] < q[i]
      BY <1>2, <1>3, <2>1, <2>2, <2>3
    <2>5. \A h \in 1..(i - 1) : p[h] = q[h]
      BY <1>2, <1>3, <1>4, <2>1, <2>2, <2>3
    <2>6. QED BY <2>2, <2>3, <2>4, <2>5 DEF Better
  <1>7. QED BY <1>5, <1>6

\* The queue gets every improved target, and no other.
LEMMA InOrderLists ==
    ASSUME NEW S \in SUBSET Items
    PROVE  /\ InOrder(S) \in Seq(S)
           /\ \A n \in S : \E k \in 1..Len(InOrder(S)) : InOrder(S)[k] = n
  <1> DEFINE Below(n) == {m \in S : m < n}
             rank(n) == Cardinality(Below(n))
             R == {rank(n) : n \in S}
  <1>1. PICK c \in Nat : c = Cardinality(S)
    BY ItemsFinite, FS_CardinalityType
  <1>2. S \in SUBSET Nat /\ IsFiniteSet(S)
    BY GraphAssumption, ItemsFinite
  <1>3. ASSUME NEW n \in S
        PROVE  IsFiniteSet(Below(n)) /\ rank(n) \in Nat /\ rank(n) \in 0..(c - 1)
    <2>1. Below(n) \subseteq S \ {n}
      BY <1>2
    <2>2. IsFiniteSet(S \ {n}) /\ Cardinality(S \ {n}) = c - 1
      BY <1>1, <1>2, FS_RemoveElement
    <2>3. IsFiniteSet(Below(n)) /\ rank(n) <= c - 1
      BY <2>1, <2>2, FS_Subset
    <2>4. rank(n) \in Nat
      BY <2>3, FS_CardinalityType
    <2>5. QED BY <1>1, <2>3, <2>4
  <1>4. ASSUME NEW n \in S, NEW o \in S, n < o PROVE rank(n) < rank(o)
    <2>1. Below(n) \cup {n} \subseteq Below(o) /\ n \notin Below(n)
      <3>1. n \in Nat /\ o \in Nat /\ ~ (n < n)
        BY <1>2
      <3>2. ASSUME NEW m \in S, m < n PROVE m < o
        <4>1. m \in Nat
          BY <1>2
        <4>2. QED BY <1>4, <3>1, <3>2, <4>1
      <3>3. QED BY <1>4, <3>1, <3>2
    <2>2. IsFiniteSet(Below(n) \cup {n}) /\ Cardinality(Below(n) \cup {n}) = rank(n) + 1
      BY <1>3, <2>1, FS_AddElement
    <2>3. Cardinality(Below(n) \cup {n}) <= rank(o)
      BY <1>3, <2>1, FS_Subset
    <2>4. rank(n) \in Nat /\ rank(o) \in Nat
      BY <1>3
    <2>5. rank(n) + 1 <= rank(o)
      BY <2>2, <2>3
    <2> HIDE DEF rank
    <2>6. QED BY <2>4, <2>5
  <1>5. ASSUME NEW n \in S, NEW o \in S, rank(n) = rank(o) PROVE n = o
    <2>1. rank(n) \in Nat /\ rank(o) \in Nat /\ n \in Nat /\ o \in Nat
      BY <1>2, <1>3
    <2>2. n < o => rank(n) < rank(o)
      BY <1>4
    <2>3. o < n => rank(o) < rank(n)
      BY <1>4
    <2> HIDE DEF rank
    <2>4. QED BY <1>5, <2>1, <2>2, <2>3
  <1>6. \A n \in S : rank(n) \in 0..(c - 1)
    BY <1>3
  <1>7. \A n, o \in S : rank(n) = rank(o) => n = o
    BY <1>5
  <1>8. InOrder(S) = [k \in 1..c |-> CHOOSE n \in S : rank(n) = k - 1]
    BY <1>1 DEF InOrder
  <1> HIDE DEF rank
  <1>9. R = 0..(c - 1)
    <2>1. PICK f : f = [n \in S |-> rank(n)]
      OBVIOUS
    <2>2. f \in Bijection(S, R)
      <3>1. f \in [S -> R] /\ \A n \in S : f[n] = rank(n)
        BY <2>1
      <3>2. f \in Injection(S, R)
        BY <1>7, <3>1 DEF Injection, IsInjective
      <3>3. f \in Surjection(S, R)
        BY <3>1 DEF Surjection
      <3>4. QED BY <3>2, <3>3 DEF Bijection
    <2>3. Cardinality(R) = c
      <3> HIDE DEF R
      <3>1. ExistsBijection(S, R)
        BY <2>2 DEF ExistsBijection
      <3>2. QED BY <1>1, <1>2, <3>1, FS_Bijection
    <2>4. R \subseteq 0..(c - 1)
      BY <1>6
    <2>5. IsFiniteSet(0..(c - 1)) /\ Cardinality(0..(c - 1)) = c
      <3>1. 0 \in Int /\ c - 1 \in Int /\ (c - 1) - 0 + 1 = c /\ (0 > c - 1 => c = 0)
        BY <1>1
      <3>2. QED BY <3>1, FS_Interval
    <2> HIDE DEF R
    <2>6. QED BY <2>3, <2>4, <2>5, FS_Subset
  <1>10. ASSUME NEW k \in 1..c
         PROVE  InOrder(S)[k] \in S /\ rank(InOrder(S)[k]) = k - 1
    <2>1. k - 1 \in R
      BY <1>1, <1>9
    <2>2. \E n \in S : rank(n) = k - 1
      BY <2>1
    <2>3. InOrder(S)[k] = CHOOSE n \in S : rank(n) = k - 1
      BY <1>8
    <2>4. QED BY <2>2, <2>3
  <1>11. InOrder(S) \in Seq(S) /\ Len(InOrder(S)) = c
    <2>1. InOrder(S) \in [1..c -> S]
      BY <1>8, <1>10
    <2>2. QED BY <1>1, <2>1
  <1>12. ASSUME NEW n \in S PROVE \E k \in 1..c : InOrder(S)[k] = n
    <2>1. rank(n) \in 0..(c - 1)
      BY <1>6
    <2>2. rank(n) + 1 \in 1..c /\ (rank(n) + 1) - 1 = rank(n)
      BY <1>1, <2>1
    <2>3. InOrder(S)[rank(n) + 1] \in S /\ rank(InOrder(S)[rank(n) + 1]) = rank(n)
      BY <1>10, <2>2
    <2>4. QED BY <1>7, <2>2, <2>3
  <1>13. QED BY <1>11, <1>12

-----------------------------------------------------------------------------
(* A step of the shortest paths.                                           *)

PathTypes ==
    paths \in [Items -> Seq(Items)] /\ pending \in Seq(Items) /\ quarantined \subseteq Items

LEMMA Monotone ==
    ASSUME NEW S, NEW T, S \subseteq T, NEW p \in Seq(S)
    PROVE  p \in Seq(T) /\ Len(p) \in Nat /\ \A i \in 1..Len(p) : p[i] \in S
  <1>1. Len(p) \in Nat /\ \A i \in 1..Len(p) : p[i] \in S
    BY ElementOfSeq, LenProperties
  <1>2. p \in [1..Len(p) -> T]
    BY <1>1, LenProperties
  <1>3. QED BY <1>1, <1>2

LEMMA PathsTyped ==
    ASSUME PathTypes
    PROVE  \A t \in Items : paths[t] \in Seq(Items) /\ paths[t] \in Seq(Nat) /\ Len(paths[t]) \in Nat
  <1>1. ASSUME NEW t \in Items PROVE paths[t] \in Seq(Items) /\ paths[t] \in Seq(Nat) /\ Len(paths[t]) \in Nat
    <2>1. PICK p \in Seq(Items) : p = paths[t]
      BY DEF PathTypes
    <2>2. p \in Seq(Nat) /\ Len(p) \in Nat
      <3>1. Items \subseteq Nat
        BY GraphAssumption
      <3>2. QED BY <3>1, Monotone
    <2>3. QED BY <2>1, <2>2
  <1>2. QED BY <1>1

\* What is pending after a node has left the queue and S has joined it.
LEMMA PendingAfter ==
    ASSUME PathTypes, pending # << >>, NEW S \in SUBSET Items,
           pending' = Tail(pending) \o InOrder(S), NEW s, s = Head(pending)
    PROVE  /\ s \in Items /\ Pending(s) /\ pending' \in Seq(Items)
           /\ \A n \in Items : Pending(n)' => Pending(n) \/ n \in S
           /\ \A n \in Items : Pending(n) => n = s \/ Pending(n)'
           /\ \A n \in S : Pending(n)'
  <1>1. PICK p \in Seq(Items) : p = pending
    BY DEF PathTypes
  <1>2. PICK u \in Seq(Items) : u = Tail(p) /\ Len(u) = Len(p) - 1 /\ \A i \in 1..Len(u) : u[i] = p[i + 1]
    BY <1>1, HeadTailProperties
  <1>3. PICK v : v = InOrder(S)
    OBVIOUS
  <1>4. v \in Seq(S) /\ \A n \in S : \E k \in 1..Len(v) : v[k] = n
    BY <1>3, InOrderLists
  <1>5. v \in Seq(Items) /\ \A k \in 1..Len(v) : v[k] \in S
    BY <1>4
  <1>6. PICK w : w = u \o v
    OBVIOUS
  <1>7. /\ w \in Seq(Items) /\ Len(w) = Len(u) + Len(v)
        /\ \A i \in 1..Len(u) : w[i] = u[i]
        /\ \A i \in 1..Len(v) : w[Len(u) + i] = v[i]
        /\ \A i \in 1..Len(w) : i \in 1..Len(u) \/ \E k \in 1..Len(v) : i = Len(u) + k
    <2>1. Len(u) \in Nat /\ Len(v) \in Nat
      BY <1>5
    <2>2. w \in Seq(Items) /\ Len(w) = Len(u) + Len(v)
      BY <1>5, <1>6
    <2>3. \A i \in 1..Len(w) : w[i] = IF i <= Len(u) THEN u[i] ELSE v[i - Len(u)]
      BY <1>5, <1>6
    <2>4. \A i \in 1..Len(u) : i \in 1..Len(w)
      BY <2>1, <2>2
    <2>5. \A i \in 1..Len(v) : /\ Len(u) + i \in 1..Len(w) /\ ~ (Len(u) + i <= Len(u))
                               /\ (Len(u) + i) - Len(u) = i
      BY <2>1, <2>2
    <2>6. ASSUME NEW i \in 1..Len(w), i \notin 1..Len(u) PROVE \E k \in 1..Len(v) : i = Len(u) + k
      <3>1. i - Len(u) \in 1..Len(v) /\ i = Len(u) + (i - Len(u))
        BY <2>1, <2>2, <2>6
      <3>2. QED BY <3>1
    <2>7. QED BY <2>2, <2>3, <2>4, <2>5, <2>6
  <1>8. pending' = w /\ p # << >> /\ s = p[1] /\ Len(p) \in Nat /\ Len(p) > 0
    BY <1>1, <1>2, <1>3, <1>6
  <1>9. s \in Items /\ Pending(s)
    BY <1>1, <1>8 DEF Pending
  <1>10. ASSUME NEW n \in Items, Pending(n)' PROVE Pending(n) \/ n \in S
    <2>1. PICK i \in 1..Len(w) : w[i] = n
      BY <1>8, <1>10 DEF Pending
    <2>2. CASE i \in 1..Len(u)
      <3>1. i + 1 \in 1..Len(p) /\ p[i + 1] = n
        BY <1>2, <1>7, <1>8, <2>1, <2>2
      <3>2. QED BY <1>1, <3>1 DEF Pending
    <2>3. CASE i \notin 1..Len(u)
      BY <1>5, <1>7, <2>1, <2>3
    <2>4. QED BY <2>2, <2>3
  <1>11. ASSUME NEW n \in Items, Pending(n), n # s PROVE Pending(n)'
    <2>1. PICK i \in 1..Len(p) : p[i] = n
      BY <1>1, <1>11 DEF Pending
    <2>2. i # 1
      BY <1>8, <1>11, <2>1
    <2>3. i - 1 \in 1..Len(u) /\ (i - 1) + 1 = i
      BY <1>2, <1>8, <2>2
    <2>4. w[i - 1] = n
      BY <1>2, <1>7, <2>1, <2>3
    <2>5. i - 1 \in 1..Len(w)
      BY <1>5, <1>7, <2>3
    <2>6. QED BY <1>8, <2>4, <2>5 DEF Pending
  <1>12. ASSUME NEW n \in S PROVE Pending(n)'
    <2>1. PICK k \in 1..Len(v) : v[k] = n
      BY <1>4
    <2>2. Len(u) + k \in 1..Len(w) /\ w[Len(u) + k] = n
      BY <1>5, <1>7, <2>1
    <2>3. QED BY <1>8, <2>2 DEF Pending
  <1>13. QED BY <1>7, <1>8, <1>9, <1>10, <1>11, <1>12

\* A path that is extended by an edge stays a path from the root.
LEMMA GoodExtended ==
    ASSUME PathTypes, NEW root, NEW s \in Items, GoodPath(root, s), NEW t \in PathTargets(s),
           NEW p, p = Append(paths[s], t)
    PROVE  /\ IsPath(p, root, t) /\ p # << >>
           /\ Len(p) \in Nat /\ 1 < Len(p) /\ p \in Seq(Items) /\ p \in Seq(Nat)
  <1>1. PICK q \in Seq(Traversed) : q = paths[s]
    BY DEF GoodPath, IsPath
  <1>2. q # << >> /\ q[1] = root /\ q[Len(q)] = s /\ Walk(q) /\ Len(q) \in Nat
    BY <1>1 DEF GoodPath, IsPath
  <1>3. t \in Traversed /\ Adjacent(s, t) /\ t \in Items /\ t \in Nat
    BY GraphAssumption DEF PathTargets, Traversed, Targets
  <1>4. /\ p \in Seq(Traversed) /\ Len(p) = Len(q) + 1 /\ p[Len(q) + 1] = t
        /\ \A i \in 1..Len(q) : p[i] = q[i]
    BY <1>1, <1>3, AppendProperties
  <1>5. Len(q) > 0
    BY <1>1, <1>2
  <1>6. ASSUME NEW i \in 1..(Len(p) - 1) PROVE Adjacent(p[i], p[i + 1])
    <2>1. CASE i = Len(q)
      BY <1>2, <1>3, <1>4, <1>5, <2>1
    <2>2. CASE i # Len(q)
      <3>1. i \in 1..(Len(q) - 1) /\ i \in 1..Len(q) /\ i + 1 \in 1..Len(q)
        BY <1>2, <1>4, <2>2
      <3>2. QED BY <1>2, <1>4, <3>1 DEF Walk
    <2>3. QED BY <2>1, <2>2
  <1>7. p[1] = root
    BY <1>2, <1>4, <1>5
  <1>8. p \in Seq(Items) /\ p \in Seq(Nat)
    <2>1. Traversed \subseteq Items /\ Traversed \subseteq Nat
      BY GraphAssumption DEF Traversed
    <2>2. QED BY <1>4, <2>1, Monotone
  <1>9. Len(p) \in Nat /\ 1 < Len(p) /\ p # << >> /\ p[Len(p)] = t
    <2>1. Len(p) \in Nat /\ 1 < Len(p)
      BY <1>2, <1>4, <1>5
    <2>2. p # << >>
      BY <1>4, <2>1
    <2>3. QED BY <1>4, <2>1, <2>2
  <1>10. Walk(p)
    BY <1>6 DEF Walk
  <1>11. IsPath(p, root, t)
    BY <1>4, <1>7, <1>9, <1>10 DEF IsPath
  <1>12. QED BY <1>8, <1>9, <1>11

LEMMA RelaxKeeps ==
    ASSUME TypeOK, PathTypes, Relax, NEW root \in Items, PathsFrom(root)
    PROVE  PathsFrom(root)' /\ PathTypes'
  <1>1. PICK s : s = Head(pending)
    OBVIOUS
  <1>2. PICK I \in SUBSET Items : I = Improved
    BY DEF Improved, PathTargets, Targets
  <1>3. /\ edges' = edges /\ quarantined' = quarantined /\ pending # << >>
        /\ pending' = Tail(pending) \o InOrder(I)
        /\ paths' = [t \in Items |-> IF t \in I THEN Append(paths[s], t) ELSE paths[t]]
    BY <1>1, <1>2 DEF Relax, Candidate
  <1>4. /\ s \in Items /\ Pending(s) /\ pending' \in Seq(Items)
        /\ \A n \in Items : Pending(n)' => Pending(n) \/ n \in I
        /\ \A n \in Items : Pending(n) => n = s \/ Pending(n)'
        /\ \A n \in I : Pending(n)'
    BY <1>1, <1>3, PendingAfter
  <1>5. GoodPath(root, s)
    BY <1>4 DEF PathsFrom
  <1>6. /\ \A t \in I : t \in PathTargets(s)
        /\ \A t \in PathTargets(s) : t \in I <=> Better(Append(paths[s], t), paths[t])
    BY <1>1, <1>2 DEF Improved, Candidate
  <1>7. s \notin I
    BY <1>4, <1>6, TargetsAreItems DEF PathTargets
  <1>8. \A t \in Items : paths[t] \in Seq(Items) /\ paths[t] \in Seq(Nat) /\ Len(paths[t]) \in Nat
    BY PathsTyped
  <1>9. ASSUME NEW t \in I, NEW p, p = Append(paths[s], t)
        PROVE  /\ IsPath(p, root, t) /\ p # << >>
               /\ Len(p) \in Nat /\ 1 < Len(p) /\ p \in Seq(Items) /\ p \in Seq(Nat)
    <2>1. t \in PathTargets(s)
      BY <1>6
    <2>2. s \in Items
      BY <1>4
    <2>3. QED BY <1>5, <1>9, <2>1, <2>2, GoodExtended
  <1>10. \A t \in Items : /\ t \in I => paths'[t] = Append(paths[s], t)
                          /\ t \notin I => paths'[t] = paths[t]
    BY <1>3
  <1>11. root \notin I
    <2> SUFFICES ASSUME root \in I PROVE FALSE
      OBVIOUS
    <2>1. PICK p : p = Append(paths[s], root)
      OBVIOUS
    <2>2. Len(p) \in Nat /\ 1 < Len(p)
      BY <1>9, <2>1, Zenon
    <2>3. PICK r : r = <<root>>
      OBVIOUS
    <2>4. Len(r) = 1 /\ r # << >>
      BY <2>3
    <2>5. Better(p, r)
      BY <1>6, <2>1, <2>3 DEF PathsFrom
    <2>6. ~ (Len(p) < 1) /\ Len(p) # 1
      <3>1. PICK k \in Nat : k = Len(p)
        BY <2>2
      <3>2. ~ (k < 1) /\ k # 1
        BY <2>2, <3>1
      <3>3. QED BY <3>1, <3>2
    <2>7. QED BY <2>4, <2>5, <2>6 DEF Better
  <1>12. PathTypes'
    <2>1. \A t \in I : Append(paths[s], t) \in Seq(Items)
      BY <1>9
    <2>2. paths' \in [Items -> Seq(Items)]
      BY <1>3, <1>8, <2>1
    <2>3. QED BY <1>3, <1>4, <2>2 DEF PathTypes
  <1>13. paths'[root] = <<root>>
    BY <1>10, <1>11 DEF PathsFrom
  <1>14. ASSUME NEW t \in Items, paths'[t] # << >> PROVE GoodPath(root, t)'
    <2>1. PICK p : p = paths'[t]
      OBVIOUS
    <2>2. IsPath(p, root, t)
      <3>1. CASE t \in I
        BY <1>9, <1>10, <2>1, <3>1
      <3>2. CASE t \notin I
        <4>1. p = paths[t] /\ paths[t] # << >>
          BY <1>10, <1>14, <2>1, <3>2
        <4>2. GoodPath(root, t)
          BY <4>1 DEF PathsFrom
        <4>3. QED BY <4>1, <4>2 DEF GoodPath
      <3>3. QED BY <3>1, <3>2
    <2>3. Traversed' = Traversed
      BY <1>3 DEF Traversed
    <2>4. \A i \in 1..(Len(p) - 1) : \E k \in Subtypes : <<p[i], p[i + 1], k>> \in edges'
      BY <1>3, <2>2 DEF IsPath, Walk, Adjacent
    <2>5. Walk(paths[t])'
      BY <2>1, <2>4 DEF Walk, Adjacent
    <2>6. QED BY <2>1, <2>2, <2>3, <2>5 DEF GoodPath, IsPath
  <1>15. ASSUME NEW t \in Items, Pending(t)' PROVE paths'[t] # << >>
    <2>1. CASE t \in I
      BY <1>9, <1>10, <2>1
    <2>2. CASE t \notin I
      BY <1>4, <1>10, <1>15, <2>2 DEF PathsFrom
    <2>3. QED BY <2>1, <2>2
  <1>16. ASSUME NEW u \in Items, paths'[u] # << >>, ~ Pending(u)', NEW t \in PathTargets(u)
         PROVE  ~ Better(Append(paths'[u], t), paths'[t])
    <2>1. u \notin I /\ paths'[u] = paths[u] /\ t \in Items
      BY <1>4, <1>10, <1>16 DEF PathTargets, Targets
    <2>2. PICK c : c = Append(paths[u], t)
      OBVIOUS
    <2>3. CASE u = s /\ t \in I
      <3>1. paths'[t] = c /\ c \in Seq(Nat) /\ c # << >>
        BY <1>9, <1>10, <2>1, <2>2, <2>3
      <3>2. QED BY <2>1, <2>2, <3>1, BetterIrreflexive
    <2>4. CASE u = s /\ t \notin I
      BY <1>6, <1>10, <1>16, <2>1, <2>4
    <2>5. CASE u # s
      <3>1. ~ Pending(u)
        BY <1>4, <1>16, <2>5
      <3>2. ~ Better(c, paths[t])
        BY <1>16, <2>1, <2>2, <3>1 DEF PathsFrom
      <3>3. CASE t \in I
        <4>1. PICK p : p = Append(paths[s], t)
          OBVIOUS
        <4>2. p \in Seq(Nat) /\ p # << >> /\ Better(p, paths[t])
          BY <1>6, <1>9, <3>3, <4>1
        <4>3. c \in Seq(Nat) /\ paths[t] \in Seq(Nat)
          <5>1. t \in Nat /\ paths[u] \in Seq(Nat)
            BY <1>8, <2>1, GraphAssumption
          <5>2. QED BY <1>8, <2>1, <2>2, <5>1, AppendProperties
        <4>4. ~ Better(c, p)
          BY <3>2, <4>2, <4>3, BetterTransitive
        <4>5. QED BY <1>10, <2>1, <2>2, <3>3, <4>1, <4>4
      <3>4. CASE t \notin I
        BY <1>10, <2>1, <2>2, <3>2, <3>4
      <3>5. QED BY <3>3, <3>4
    <2>6. QED BY <2>3, <2>4, <2>5
  <1>17. \A u : PathTargets(u)' = PathTargets(u)
    BY <1>3, GraphStays DEF PathTargets
  <1>18. PathsFrom(root)'
    BY <1>13, <1>14, <1>15, <1>16, <1>17 DEF PathsFrom
  <1>19. QED BY <1>12, <1>18

LEMMA PathsBegin ==
    ASSUME TypeOK, PathTypes, PathsInv, NEW root \in Items, NEW left_out \in {{}, Invalid},
           BeginPaths(root, left_out)
    PROVE  PathsInv' /\ PathTypes'
  <1>1. /\ phase = "cycles" /\ phase' = "paths" /\ edges' = edges
        /\ pending' = <<root>> /\ quarantined' = left_out /\ root \notin left_out
    BY DEF BeginPaths
  <1>2. \A t \in Items : paths'[t] = IF t = root THEN <<root>> ELSE << >>
    BY <1>1 DEF BeginPaths, PathsInv, PathTypes
  <1>3. PathTypes'
    <2>1. <<root>> \in Seq(Items)
      OBVIOUS
    <2>2. paths' \in [Items -> Seq(Items)]
      BY <2>1 DEF BeginPaths, PathTypes
    <2>3. quarantined' \subseteq Items
      BY <1>1 DEF Invalid
    <2>4. QED BY <1>1, <2>1, <2>2, <2>3 DEF PathTypes
  <1>4. root \in Traversed'
    BY <1>1 DEF Traversed
  <1>5. \A n \in Items : Pending(n)' <=> n = root
    <2>1. Len(pending') = 1 /\ pending'[1] = root /\ \A i \in 1..1 : i = 1
      BY <1>1
    <2>2. QED BY <2>1 DEF Pending
  <1>6. GoodPath(root, root)'
    <2>1. PICK p : p = <<root>>
      OBVIOUS
    <2>2. p = paths'[root] /\ Len(p) = 1 /\ p[1] = root /\ p # << >> /\ p[Len(p)] = root
      BY <1>2, <2>1
    <2>3. p \in Seq(Traversed')
      BY <1>4, <2>1
    <2>4. 1..(Len(p) - 1) = {}
      BY <2>2
    <2>5. Walk(paths[root])'
      BY <2>2, <2>4 DEF Walk
    <2>6. QED BY <2>2, <2>3, <2>5 DEF GoodPath, IsPath
  <1>7. PathsFrom(root)'
    BY <1>2, <1>5, <1>6 DEF PathsFrom
  <1>8. QED BY <1>1, <1>3, <1>4, <1>7 DEF PathsInv

LEMMA PathsStay ==
    ASSUME PathTypes, PathsInv, edges' = edges, UNCHANGED walk,
           phase \in {"paths", "done"} <=> phase' \in {"paths", "done"},
           phase' = "done" => pending = << >>
    PROVE  PathsInv' /\ PathTypes'
  <1>1. paths' = paths /\ pending' = pending /\ quarantined' = quarantined
    BY DEF walk
  <1>2. PathTypes' /\ Traversed' = Traversed
    BY <1>1 DEF PathTypes, Traversed
  <1>3. \A s : PathTargets(s)' = PathTargets(s) /\ Pending(s)' = Pending(s)
    BY <1>1, GraphStays DEF PathTargets, Pending
  <1>4. \A root, t : GoodPath(root, t) => GoodPath(root, t)'
    BY <1>1, <1>2 DEF GoodPath, IsPath, Walk, Adjacent
  <1>5. \A root : PathsFrom(root) => PathsFrom(root)'
    BY <1>1, <1>3, <1>4 DEF PathsFrom
  <1>6. QED BY <1>1, <1>2, <1>5 DEF PathsInv

LEMMA PathsInvStep ==
    ASSUME TypeOK, PathsInv, [Next]_vars
    PROVE  PathsInv' /\ PathTypes'
  <1>1. PathTypes
    BY DEF TypeOK, PathTypes
  <1>2. CASE Relax
    <2>1. phase = "paths" /\ phase' = "paths" /\ quarantined' = quarantined
      BY <1>2 DEF Relax
    <2>2. PICK root \in Traversed : PathsFrom(root)
      BY <2>1 DEF PathsInv
    <2>3. root \in Items /\ root \in Traversed'
      BY <2>1 DEF Traversed
    <2>4. PathsFrom(root)' /\ PathTypes'
      BY <1>1, <1>2, <2>2, <2>3, RelaxKeeps
    <2>5. QED BY <2>1, <2>3, <2>4 DEF PathsInv
  <1>3. CASE \E root \in Items, left_out \in {{}, Invalid} : BeginPaths(root, left_out)
    BY <1>1, <1>3, PathsBegin
  <1>4. CASE EndPaths
    <2>1. /\ edges' = edges /\ UNCHANGED walk /\ phase = "paths" /\ phase' = "done"
          /\ pending = << >>
      BY <1>4 DEF EndPaths
    <2>2. QED BY <1>1, <2>1, PathsStay
  <1>5. CASE VisitRoot \/ VisitTarget \/ LeaveNode \/ EndComponents \/ BeginCycle \/ FollowCycle \/ BacktrackCycle
    <2>1. /\ edges' = edges /\ UNCHANGED walk /\ phase \in {"components", "cycles"}
          /\ phase' \in {"components", "cycles"}
      BY <1>5, EdgesStay, Zenon
         DEF VisitRoot, VisitTarget, LeaveNode, Visit, EndComponents, BeginCycle, FollowCycle, BacktrackCycle
    <2>2. QED BY <1>1, <2>1, PathsStay
  <1>6. CASE DetectRoot \/ DetectTarget \/ DetectLeave \/ BeginSort \/ SortNode \/ EndSort
    <2>1. /\ edges' = edges /\ UNCHANGED walk /\ Sorting /\ Sorting'
      BY <1>6, EdgesStay DEF DetectRoot, DetectTarget, DetectLeave, BeginSort, SortNode, EndSort, Sorting
    <2>2. QED BY <1>1, <2>1, PathsStay DEF Sorting
  <1>7. CASE UNCHANGED vars
    <2>1. edges' = edges /\ UNCHANGED walk /\ phase' = phase
      BY <1>7 DEF vars
    <2>2. QED BY <1>1, <2>1, PathsStay DEF PathsInv
  <1>8. QED
    BY <1>2, <1>3, <1>4, <1>5, <1>6, <1>7 DEF Next

-----------------------------------------------------------------------------
(* When nothing is pending the paths are the best ones.                    *)

PathsSettled(root) ==
    /\ PathsFrom(root)
    /\ \A s \in Items : paths[s] # << >> =>
          \A t \in PathTargets(s) : ~ Better(Append(paths[s], t), paths[t])

LEMMA PathsSettle ==
    ASSUME PathsInv, phase = "done"
    PROVE  \E root \in Traversed : PathsSettled(root)
  <1>1. PICK root \in Traversed : PathsFrom(root)
    BY DEF PathsInv
  <1>2. pending = << >>
    BY DEF PathsInv
  <1>3. \A n : ~ Pending(n)
    BY <1>2 DEF Pending
  <1>4. QED BY <1>1, <1>3 DEF PathsFrom, PathsSettled

\* A path of the traversal leads to what the traversal reaches.
LEMMA PathReaches ==
    ASSUME NEW p, NEW root, NEW t, IsPath(p, root, t)
    PROVE  ReachesTraversed(root, t)
  <1> SUFFICES ASSUME NEW S \in SUBSET Traversed, root \in S, \A n \in S : PathTargets(n) \subseteq S,
                      t \notin S
               PROVE  FALSE
    BY DEF ReachesTraversed
  <1> DEFINE D == {i \in 1..Len(p) : p[i] \notin S}
  <1>1. /\ p # << >> /\ p \in Seq(Traversed) /\ Len(p) \in Nat /\ p[1] = root /\ p[Len(p)] = t
        /\ \A i \in 1..(Len(p) - 1) : Adjacent(p[i], p[i + 1])
    BY DEF IsPath, Walk
  <1>2. Len(p) > 0 /\ \A i \in 1..Len(p) : p[i] \in Traversed
    BY <1>1
  <1>3. D \in SUBSET Nat /\ D # {}
    <2>1. Len(p) \in 1..Len(p)
      BY <1>1, <1>2
    <2>2. Len(p) \in D
      BY <1>1, <2>1
    <2>3. QED BY <2>2
  <1>4. PICK i \in D : \A j \in D : i <= j
    <2> HIDE DEF D
    <2>1. QED BY <1>3, LeastNumber
  <1>5. i \in 1..Len(p) /\ p[i] \notin S /\ i # 1
    BY <1>1
  <1>6. i - 1 \in 1..(Len(p) - 1) /\ i - 1 \in 1..Len(p) /\ (i - 1) + 1 = i /\ ~ (i <= i - 1)
    BY <1>1, <1>5
  <1>7. p[i - 1] \in S
    BY <1>4, <1>6
  <1>8. Adjacent(p[i - 1], p[i])
    BY <1>1, <1>6
  <1>9. p[i] \in PathTargets(p[i - 1])
    BY <1>2, <1>5, <1>6, <1>8 DEF PathTargets, Targets, Traversed
  <1>10. QED BY <1>5, <1>7, <1>9

\* A path of more than one node is an extension of a path by an edge.
LEMMA PathWithoutLast ==
    ASSUME TypeOK, NEW q, NEW root, NEW t, IsPath(q, root, t), Len(q) # 1
    PROVE  \E s \in Traversed, r \in Seq(Traversed) :
              /\ IsPath(r, root, s) /\ q = Append(r, t) /\ Len(r) = Len(q) - 1
              /\ t \in PathTargets(s)
  <1>1. PICK n \in Nat : n = Len(q)
    BY DEF IsPath
  <1>2. /\ q # << >> /\ q \in Seq(Traversed) /\ q[1] = root /\ q[n] = t
        /\ \A i \in 1..(n - 1) : Adjacent(q[i], q[i + 1])
    BY <1>1 DEF IsPath, Walk
  <1>3. n - 1 \in Nat /\ n - 1 \in 1..n /\ 1 \in 1..(n - 1) /\ n \in 1..n /\ n - 1 \in 1..(n - 1)
        /\ (n - 1) + 1 = n
    <2>1. n # 0
      BY <1>1, <1>2
    <2>2. QED BY <1>1, <2>1
  <1>4. \A i \in 1..n : q[i] \in Traversed
    BY <1>1, <1>2
  <1>5. PICK r : r = [i \in 1..(n - 1) |-> q[i]]
    OBVIOUS
  <1>6. r \in Seq(Traversed) /\ Len(r) = n - 1 /\ \A i \in 1..(n - 1) : r[i] = q[i]
    <2>1. \A i \in 1..(n - 1) : i \in 1..n
      BY <1>3
    <2>2. r \in [1..(n - 1) -> Traversed]
      BY <1>4, <1>5, <2>1
    <2>3. QED BY <1>3, <1>5, <2>2
  <1>7. PICK s \in Traversed : s = q[n - 1]
    BY <1>3, <1>4
  <1>8. PICK a : a = Append(r, t)
    OBVIOUS
  <1>9. q = a
    <2>1. t \in Traversed
      BY <1>2, <1>3, <1>4
    <2>2. a \in Seq(Traversed) /\ Len(a) = n /\ a[n] = t /\ \A i \in 1..(n - 1) : a[i] = r[i]
      BY <1>3, <1>6, <1>8, <2>1, AppendProperties
    <2>3. \A i \in 1..n : i = n \/ i \in 1..(n - 1)
      BY <1>3
    <2>4. \A i \in 1..n : a[i] = q[i]
      BY <1>2, <1>6, <2>2, <2>3
    <2>5. QED BY <1>1, <1>2, <2>2, <2>4, SeqEqual
  <1>10. IsPath(r, root, s)
    <2>1. r # << >>
      BY <1>3, <1>6
    <2>2. r[1] = root /\ r[n - 1] = s
      BY <1>2, <1>3, <1>6, <1>7
    <2>3. \A i \in 1..((n - 1) - 1) : i \in 1..(n - 1) /\ i + 1 \in 1..(n - 1)
      BY <1>3
    <2>4. Walk(r)
      BY <1>2, <1>6, <2>3 DEF Walk
    <2>5. QED BY <1>6, <2>1, <2>2, <2>4 DEF IsPath
  <1>11. t \in PathTargets(s)
    <2>1. Adjacent(s, t)
      BY <1>2, <1>3, <1>7
    <2>2. t \in Traversed
      BY <1>2, <1>3, <1>4
    <2>3. QED BY <1>7, <2>1, <2>2 DEF PathTargets, Targets, Traversed
  <1>12. QED BY <1>1, <1>6, <1>8, <1>9, <1>10, <1>11

LEMMA NoPathIsBetter ==
    ASSUME TypeOK, NEW root \in Traversed, PathsSettled(root),
           NEW t \in Traversed, NEW q, IsPath(q, root, t)
    PROVE  ~ Better(q, paths[t])
  <1> DEFINE D == {n \in Nat : \E u \in Traversed, p \in Seq(Traversed) :
                                  Len(p) = n /\ IsPath(p, root, u) /\ Better(p, paths[u])}
  <1>1. \A u \in Traversed, p \in Seq(Traversed) : Len(p) \in Nat
    OBVIOUS
  <1>2. D = {}
    <2> SUFFICES ASSUME D # {} PROVE FALSE
      OBVIOUS
    <2>1. PICK n \in D : \A m \in D : n <= m
      <3>1. D \in SUBSET Nat
        OBVIOUS
      <3> HIDE DEF D
      <3>2. QED BY <3>1, LeastNumber
    <2>2. PICK u \in Traversed, p \in Seq(Traversed) :
              Len(p) = n /\ IsPath(p, root, u) /\ Better(p, paths[u])
      OBVIOUS
    <2>3. /\ \A v \in Items : paths[v] \in Seq(Nat)
          /\ p \in Seq(Nat) /\ u \in Nat /\ u \in Items
      <3>1. PathTypes /\ Traversed \subseteq Nat /\ Traversed \subseteq Items
        BY GraphAssumption DEF TypeOK, PathTypes, Traversed
      <3>2. QED BY <2>2, <3>1, PathsTyped, Monotone
    <2>4. CASE n = 1
      <3>1. p[1] = root /\ u = root
        BY <2>2, <2>4 DEF IsPath
      <3>2. PICK r : r = <<root>>
        OBVIOUS
      <3>3. r \in Seq(Nat) /\ Len(r) = 1 /\ r[1] = root /\ r # << >>
        BY <2>3, <3>1, <3>2
      <3>4. \A i \in 1..1 : p[i] = r[i]
        BY <3>1, <3>3
      <3>5. p = r
        BY <2>2, <2>3, <2>4, <3>3, <3>4, SeqEqual
      <3>6. paths[u] = r
        BY <3>1, <3>2 DEF PathsSettled, PathsFrom
      <3>7. QED BY <2>2, <3>3, <3>5, <3>6, BetterIrreflexive
    <2>5. CASE n # 1
      <3>1. PICK s \in Traversed, r \in Seq(Traversed) :
                /\ IsPath(r, root, s) /\ p = Append(r, u) /\ Len(r) = Len(p) - 1
                /\ u \in PathTargets(s)
        BY <2>2, <2>5, PathWithoutLast
      <3>2. ~ Better(r, paths[s])
        <4>1. Len(r) \in Nat /\ n \in Nat /\ Len(r) = n - 1
          BY <2>2, <3>1
        <4>2. Len(r) \notin D
          <5> HIDE DEF D
          <5>1. ~ (n <= Len(r))
            BY <4>1
          <5>2. QED BY <2>1, <5>1
        <4>3. QED BY <3>1, <4>1, <4>2
      <3>3. paths[s] # << >> /\ s \in Items
        BY <3>2 DEF Better, Traversed
      <3>4. ~ Better(Append(paths[s], u), paths[u])
        BY <3>1, <3>3 DEF PathsSettled
      <3>5. paths[u] # << >>
        BY <3>4 DEF Better
      <3>6. r \in Seq(Nat)
        <4>1. Traversed \subseteq Nat
          BY GraphAssumption DEF Traversed
        <4>2. QED BY <3>1, <4>1, Monotone
      <3>7. PICK c : c = Append(paths[s], u)
        OBVIOUS
      <3>8. c \in Seq(Nat)
        BY <2>3, <3>3, <3>7, AppendProperties
      <3>9. ~ Better(p, c)
        BY <2>3, <3>1, <3>2, <3>3, <3>6, <3>7, BetterAppend
      <3>10. ~ Better(p, paths[u])
        BY <2>3, <3>4, <3>5, <3>7, <3>8, <3>9, NotBetterTransitive
      <3>11. QED BY <2>2, <3>10
    <2>6. QED BY <2>4, <2>5
  <1>3. q \in Seq(Traversed) /\ Len(q) \in Nat
    BY DEF IsPath
  <1>4. QED BY <1>2, <1>3

LEMMA PathsAreBest ==
    ASSUME TypeOK, PathsInv
    PROVE  ShortestPathsExact
  <1> SUFFICES ASSUME phase = "done", NEW r \in Items, paths[r] = <<r>>, NEW t \in Traversed
               PROVE  /\ paths[t] # << >> <=> ReachesTraversed(r, t)
                      /\ paths[t] # << >> => /\ paths[t][1] = r /\ paths[t][Len(paths[t])] = t
                                             /\ Walk(paths[t])
                                             /\ BestPath(r, t, paths[t])
    BY DEF ShortestPathsExact
  <1>1. PICK root \in Traversed : PathsSettled(root)
    BY PathsSettle
  <1>2. r = root
    <2>1. GoodPath(root, r)
      BY <1>1 DEF PathsSettled, PathsFrom
    <2>2. PICK p : p = <<r>>
      OBVIOUS
    <2>3. p[1] = r /\ p[1] = root
      BY <2>1, <2>2 DEF GoodPath, IsPath
    <2>4. QED BY <2>3
  <1>3. ASSUME ReachesTraversed(root, t) PROVE paths[t] # << >>
    <2> DEFINE S == {n \in Traversed : paths[n] # << >>}
    <2>1. root \in S
      <3>1. paths[root] = <<root>>
        BY <1>1 DEF PathsSettled, PathsFrom
      <3>2. paths[root] # << >>
        BY <3>1
      <3>3. QED BY <3>2
    <2>2. ASSUME NEW n \in S, NEW u \in PathTargets(n) PROVE u \in S
      <3>1. ~ Better(Append(paths[n], u), paths[u])
        BY <1>1, <2>2 DEF PathsSettled, Traversed
      <3>2. paths[u] # << >>
        BY <3>1 DEF Better
      <3>3. QED BY <2>2, <3>2 DEF PathTargets, Targets, Traversed
    <2>3. t \in S
      BY <1>3, <2>1, <2>2 DEF ReachesTraversed
    <2>4. QED BY <2>3
  <1>4. ASSUME paths[t] # << >>
        PROVE  /\ ReachesTraversed(root, t) /\ paths[t][1] = root /\ paths[t][Len(paths[t])] = t
               /\ Walk(paths[t]) /\ BestPath(root, t, paths[t])
    <2>1. t \in Items
      BY DEF Traversed
    <2>2. IsPath(paths[t], root, t)
      BY <1>1, <1>4, <2>1 DEF PathsSettled, PathsFrom, GoodPath
    <2>3. ReachesTraversed(root, t)
      BY <2>2, PathReaches
    <2>4. ASSUME NEW n \in 1..Len(paths[t]), NEW q \in [1..n -> Traversed],
                 q[1] = root, q[n] = t, Walk(q)
          PROVE  ~ Better(q, paths[t])
      <3>1. Len(paths[t]) \in Nat
        BY <2>2 DEF IsPath
      <3>2. n \in Nat /\ n > 0
        BY <3>1
      <3>3. q \in Seq(Traversed) /\ Len(q) = n /\ q # << >>
        BY <3>2
      <3>4. IsPath(q, root, t)
        BY <2>4, <3>3 DEF IsPath
      <3>5. QED BY <1>1, <3>4, NoPathIsBetter
    <2>5. BestPath(root, t, paths[t])
      BY <2>4 DEF BestPath
    <2>6. QED BY <2>2, <2>3, <2>5 DEF IsPath
  <1>5. QED BY <1>2, <1>3, <1>4

-----------------------------------------------------------------------------
(* The search for a containment cycle.                                     *)

LEMMA LeftStays ==
    ASSUME edges' = edges, Left' = Left, LeftAcyclic
    PROVE  LeftAcyclic'
  BY GraphStays DEF LeftAcyclic, Closed, Ranked

LEMMA DetectBegins ==
    ASSUME TypeOK, FramesInv, DetectInv, DetectRoot
    PROVE  DetectInv'
  <1>1. PICK n \in Items : /\ frames' = <<Frame(n)>> /\ visited' = visited \cup {n} /\ n \notin visited
                           /\ edges' = edges /\ phase = "detect" /\ phase' = "detect" /\ frames = << >>
    <2> DEFINE roots == Endpoints \ visited
    <2>1. roots \in SUBSET Items /\ roots # {}
      BY DEF DetectRoot, Endpoints
    <2>2. Least(roots) \in Items /\ Least(roots) \in roots
      BY <2>1, LeastItem
    <2>3. QED BY <2>1, <2>2 DEF DetectRoot
  <1>2. Depth' = 1 /\ NodeAt(1)' = n /\ TodoAt(1)' = Targets(n) /\ \A i \in 1..1 : i = 1
    BY <1>1, FramesBegun
  <1>3. Depth = 0
    BY <1>1, FramesTyped
  <1>4. \A m : ~ OnPath(m) /\ (OnPath(m)' <=> m = n)
    BY <1>2, <1>3, OnPathIs, OnPathWillBe
  <1>5. Left' = Left
    BY <1>1, <1>4 DEF Left
  <1>6. LeftAcyclic'
    BY <1>1, <1>5, LeftStays DEF DetectInv
  <1>7. \A s : Targets(s)' = Targets(s)
    BY <1>1, GraphStays
  <1>8. DoneAt(1)' = {}
    BY <1>2, <1>7 DEF DoneAt
  <1>9. DoneLeft'
    BY <1>2, <1>8 DEF DoneLeft
  <1>10. QED BY <1>1, <1>6, <1>9 DEF DetectInv

LEMMA DetectAdvances ==
    ASSUME TypeOK, FramesInv, DetectInv, DetectTarget
    PROVE  DetectInv'
  <1>1. PICK d, n, L : d = Depth /\ n = NextTarget /\ L = Left
    OBVIOUS
  <1>2. /\ phase = "detect" /\ edges' = edges /\ frames # << >> /\ Top.todo # {}
        /\ n \in TodoAt(d) /\ n \in Items /\ FramesPath
    BY <1>1, NextTargetInTodo DEF DetectTarget, FramesInv
  <1>3. d \in Nat /\ d > 0 /\ d \in 1..d /\ n \in Targets(NodeAt(d))
    BY <1>1, <1>2, NextTargetFollows
  <1>4. LeftAcyclic /\ DoneLeft
    BY <1>2 DEF DetectInv
  <1>5. \A s : Targets(s)' = Targets(s)
    BY <1>2, GraphStays
  <1>6. \A i \in 1..d : \A t \in DoneAt(i) : t \in L \/ (i < d /\ t = NodeAt(i + 1))
    BY <1>1, <1>4 DEF DoneLeft
  <1>7. ASSUME NEW i \in 1..d, NodeAt(i)' = NodeAt(i), TodoAt(i)' = Advanced(i)
        PROVE  \A t \in DoneAt(i)' : t \in DoneAt(i) \/ (i = d /\ t = n)
    BY <1>1, <1>5, <1>7 DEF DoneAt, Advanced
  <1>8. CASE n \notin visited
    <2>1. frames' = Append(Skipped, Frame(n)) /\ visited' = visited \cup {n} /\ phase' = "detect"
      BY <1>1, <1>2, <1>8 DEF DetectTarget
    <2>2. /\ Depth' = d + 1 /\ NodeAt(d + 1)' = n /\ TodoAt(d + 1)' = Targets(n)
          /\ \A i \in 1..d : NodeAt(i)' = NodeAt(i) /\ TodoAt(i)' = Advanced(i)
      BY <1>1, <1>2, <2>1, FramesPushed
    <2>3. \A i \in 1..(d + 1) : i \in 1..d \/ i = d + 1
      BY <1>3
    <2>4. \A m : OnPath(m)' <=> OnPath(m) \/ m = n
      <3>1. \A i \in 1..d : i \in 1..(d + 1)
        BY <1>3
      <3>2. d + 1 \in 1..(d + 1)
        BY <1>3
      <3>3. QED BY <1>1, <2>2, <2>3, <3>1, <3>2, OnPathIs, OnPathWillBe
    <2>5. Left' = L
      BY <1>1, <1>8, <2>1, <2>4 DEF Left
    <2>6. LeftAcyclic'
      BY <1>1, <1>2, <1>4, <2>5, LeftStays
    <2>7. ASSUME NEW i \in 1..d, NEW t \in DoneAt(i)'
          PROVE  t \in L \/ (i < d + 1 /\ t = NodeAt(i + 1)')
      <3>1. t \in DoneAt(i) \/ (i = d /\ t = n)
        BY <1>7, <2>2
      <3>2. CASE i = d /\ t = n
        BY <1>3, <2>2, <3>2
      <3>3. CASE t \in DoneAt(i)
        <4>1. t \in L \/ (i < d /\ t = NodeAt(i + 1))
          BY <1>6, <3>3
        <4>2. CASE i < d
          <5>1. i + 1 \in 1..d /\ i < d + 1
            BY <1>3, <4>2
          <5>2. QED BY <2>2, <4>1, <5>1
        <4>3. QED BY <4>1, <4>2
      <3>4. QED BY <3>1, <3>2, <3>3
    <2>8. DoneAt(d + 1)' = {}
      BY <1>5, <2>2 DEF DoneAt
    <2>9. DoneLeft'
      BY <2>2, <2>3, <2>5, <2>7, <2>8 DEF DoneLeft
    <2>10. QED BY <2>1, <2>6, <2>9 DEF DetectInv
  <1>9. CASE n \in visited /\ ~ OnPath(n)
    <2>1. frames' = Skipped /\ visited' = visited /\ phase' = "detect"
      BY <1>1, <1>2, <1>9 DEF DetectTarget, ClosesCycle
    <2>2. Depth' = d /\ \A i \in 1..d : NodeAt(i)' = NodeAt(i) /\ TodoAt(i)' = Advanced(i)
      BY <1>1, <1>2, <2>1, FramesSkipped
    <2>3. \A m : OnPath(m)' <=> OnPath(m)
      BY <1>1, <2>2, OnPathIs, OnPathWillBe
    <2>4. Left' = L /\ n \in L
      BY <1>1, <1>9, <2>1, <2>3 DEF Left
    <2>5. LeftAcyclic'
      BY <1>1, <1>2, <1>4, <2>4, LeftStays
    <2>6. ASSUME NEW i \in 1..d, NEW t \in DoneAt(i)'
          PROVE  t \in L \/ (i < d /\ t = NodeAt(i + 1)')
      <3>1. t \in DoneAt(i) \/ t = n
        BY <1>7, <2>2
      <3>2. t \in L \/ (i < d /\ t = NodeAt(i + 1))
        BY <1>6, <2>4, <3>1
      <3>3. CASE i < d
        <4>1. i + 1 \in 1..d
          BY <1>3, <3>3
        <4>2. QED BY <2>2, <3>2, <4>1
      <3>4. QED BY <3>2, <3>3
    <2>7. DoneLeft'
      BY <2>2, <2>4, <2>6 DEF DoneLeft
    <2>8. QED BY <2>1, <2>5, <2>7 DEF DetectInv
  <1>10. CASE n \in visited /\ OnPath(n)
    <2>1. phase' = "rejected"
      BY <1>1, <1>2, <1>10 DEF DetectTarget, ClosesCycle
    <2>2. PICK i \in 1..d : NodeAt(i) = n
      BY <1>1, <1>10, OnPathIs
    <2>3. PICK x : x = NodeAt(d)
      OBVIOUS
    <2>4. x \in Items /\ Reaches(n, x)
      <3>1. i <= d
        BY <1>3
      <3>2. x \in Items
        BY <1>1, <1>3, <2>3, FramesTyped
      <3>3. QED BY <1>1, <1>2, <1>3, <2>2, <2>3, <3>1, <3>2 DEF FramesPath
    <2>5. Reaches(x, n) /\ n # x
      BY <1>3, <2>3, <2>4, ReachesEdge, TargetsAreItems
    <2>6. x \in ComponentOf(n)
      BY <2>4, <2>5 DEF ComponentOf
    <2>7. ComponentOf(n) # {n}
      BY <2>5, <2>6
    <2>8. ComponentOf(n)' = ComponentOf(n)
      BY <1>2, GraphStays
    <2>9. QED BY <1>2, <2>1, <2>7, <2>8 DEF DetectInv
  <1>11. QED BY <1>8, <1>9, <1>10

LEMMA DetectLeaves ==
    ASSUME TypeOK, FramesInv, DetectInv, DetectLeave
    PROVE  DetectInv'
  <1>1. PICK d, x, L : d = Depth /\ x = NodeAt(d) /\ L = Left
    OBVIOUS
  <1>2. /\ phase = "detect" /\ phase' = "detect" /\ edges' = edges /\ visited' = visited
        /\ frames # << >> /\ frames' = Pop(frames) /\ Top.todo = {}
    BY DEF DetectLeave, search
  <1>3. /\ d \in Nat /\ d > 0 /\ d \in 1..d /\ Depth' = d - 1 /\ d - 1 \in Nat
        /\ \A i \in 1..(d - 1) : NodeAt(i)' = NodeAt(i) /\ TodoAt(i)' = TodoAt(i)
        /\ \A i \in 1..(d - 1) : i \in 1..d /\ i < d /\ i # d /\ i + 1 \in 1..d
    <2>1. /\ d \in Nat /\ d > 0 /\ Depth' = d - 1
          /\ \A i \in 1..(d - 1) : NodeAt(i)' = NodeAt(i) /\ TodoAt(i)' = TodoAt(i)
      BY <1>1, <1>2, FramesPopped
    <2>2. QED BY <2>1
  <1>4. /\ LeftAcyclic /\ DoneLeft
        /\ \A i, j \in 1..d : NodeAt(i) = NodeAt(j) => i = j
        /\ \A i \in 1..d : NodeAt(i) \in visited
    BY <1>1, <1>2 DEF DetectInv, FramesInv, FramesPath
  <1>5. \A s : Targets(s)' = Targets(s)
    BY <1>2, GraphStays
  <1>6. x \in Items /\ x \in visited /\ OnPath(x) /\ x \notin L
    <2>1. x \in Items /\ x \in visited
      BY <1>1, <1>3, <1>4, FramesTyped
    <2>2. OnPath(x)
      BY <1>1, <1>3, OnPathIs
    <2>3. QED BY <1>1, <2>1, <2>2 DEF Left
  <1>7. \A m : OnPath(m)' <=> OnPath(m) /\ m # x
    <2>1. \A i \in 1..d : i \in 1..(d - 1) \/ i = d
      BY <1>3
    <2>2. QED BY <1>1, <1>3, <1>4, <2>1, OnPathIs, OnPathWillBe
  <1>8. Left' = L \cup {x}
    BY <1>1, <1>2, <1>6, <1>7 DEF Left
  <1>9. Targets(x) \subseteq L
    <2>1. TodoAt(d) = {}
      BY <1>1, <1>2, <1>3, FramesTyped DEF TodoAt
    <2>2. DoneAt(d) = Targets(x)
      BY <1>1, <2>1 DEF DoneAt
    <2>3. \A t \in DoneAt(d) : t \in L
      BY <1>1, <1>3, <1>4 DEF DoneLeft
    <2>4. QED BY <2>2, <2>3
  <1>10. LeftAcyclic'
    <2>1. PICK f \in [Items -> Nat], b \in Nat : Ranked(f, b, L)
      BY <1>1, <1>4 DEF LeftAcyclic
    <2>2. Closed(L) /\ L \subseteq Items
      BY <1>1, <1>4 DEF LeftAcyclic, Left, TypeOK
    <2>3. PICK g : g = [f EXCEPT ![x] = b]
      OBVIOUS
    <2>4. g \in [Items -> Nat] /\ g[x] = b /\ \A m \in L : g[m] = f[m] /\ f[m] \in Nat
      BY <1>6, <2>2, <2>3
    <2>5. ASSUME NEW m \in L \cup {x}
          PROVE  g[m] < b + 1 /\ \A t \in Targets(m) : t \in L /\ g[t] < g[m]
      <3>1. CASE m = x
        <4>1. b < b + 1
          OBVIOUS
        <4>2. QED BY <1>9, <2>1, <2>4, <3>1, <4>1 DEF Ranked
      <3>2. CASE m \in L
        <4>1. f[m] < b /\ \A t \in Targets(m) : t \in L /\ f[t] < f[m]
          BY <2>1, <2>2, <3>2 DEF Ranked, Closed
        <4>2. g[m] < b + 1
          BY <2>4, <3>2, <4>1
        <4>3. QED BY <2>4, <3>2, <4>1, <4>2
      <3>3. QED BY <3>1, <3>2
    <2>6. Ranked(g, b + 1, Left)'
      BY <1>5, <1>8, <2>5 DEF Ranked
    <2>7. Closed(Left)'
      BY <1>5, <1>8, <2>5 DEF Closed
    <2>8. QED BY <2>4, <2>6, <2>7 DEF LeftAcyclic
  <1>11. ASSUME NEW i \in 1..(d - 1), NEW t \in DoneAt(i)'
         PROVE  t \in L \cup {x} \/ (i < d - 1 /\ t = NodeAt(i + 1)')
    <2>1. t \in DoneAt(i) /\ i \in 1..d
      BY <1>3, <1>5 DEF DoneAt
    <2>2. t \in L \/ t = NodeAt(i + 1)
      BY <1>1, <1>4, <2>1 DEF DoneLeft
    <2>3. CASE i = d - 1
      <3>1. i + 1 = d
        BY <1>3, <2>3
      <3>2. QED BY <1>1, <2>2, <3>1
    <2>4. CASE i # d - 1
      <3>1. i < d - 1 /\ i + 1 \in 1..(d - 1)
        BY <1>3, <2>4
      <3>2. QED BY <1>3, <2>2, <3>1
    <2>5. QED BY <2>3, <2>4
  <1>12. DoneLeft'
    BY <1>3, <1>8, <1>11 DEF DoneLeft
  <1>13. QED BY <1>2, <1>10, <1>12 DEF DetectInv

LEMMA DetectInvStep ==
    ASSUME TypeOK, FramesInv, DetectInv, [Next]_vars
    PROVE  DetectInv'
  <1>1. CASE DetectRoot
    BY <1>1, DetectBegins
  <1>2. CASE DetectTarget
    BY <1>2, DetectAdvances
  <1>3. CASE DetectLeave
    BY <1>3, DetectLeaves
  <1>4. CASE \/ VisitRoot \/ VisitTarget \/ LeaveNode \/ EndComponents
             \/ BeginCycle \/ FollowCycle \/ BacktrackCycle
             \/ \E root \in Items, left_out \in {{}, Invalid} : BeginPaths(root, left_out)
             \/ Relax \/ EndPaths \/ BeginSort \/ SortNode \/ EndSort
    <2>1. phase' \notin {"detect", "rejected"}
      BY <1>4 DEF VisitRoot, VisitTarget, LeaveNode, Visit, EndComponents, BeginCycle, FollowCycle,
                  BacktrackCycle, BeginPaths, Relax, EndPaths, BeginSort, SortNode, EndSort
    <2>2. QED BY <2>1 DEF DetectInv
  <1>5. CASE UNCHANGED vars
    <2>1. edges' = edges /\ frames' = frames /\ visited' = visited /\ phase' = phase
      BY <1>5 DEF vars, search
    <2>2. Depth' = Depth /\ \A i : NodeAt(i)' = NodeAt(i) /\ TodoAt(i)' = TodoAt(i)
      BY <2>1, FramesStay
    <2>3. /\ \A s : Targets(s)' = Targets(s)
          /\ \A n : ComponentOf(n)' = ComponentOf(n)
      BY <2>1, GraphStays
    <2>4. \A i : DoneAt(i)' = DoneAt(i)
      BY <2>2, <2>3 DEF DoneAt
    <2>5. Left' = Left
      BY <2>1 DEF Left, OnPath
    <2>6. LeftAcyclic => LeftAcyclic'
      BY <2>1, <2>5, LeftStays
    <2>7. DoneLeft => DoneLeft'
      BY <2>2, <2>4, <2>5 DEF DoneLeft
    <2>8. QED BY <2>1, <2>3, <2>6, <2>7 DEF DetectInv
  <1>6. QED BY <1>1, <1>2, <1>3, <1>4, <1>5 DEF Next

-----------------------------------------------------------------------------
(* The topological sort.                                                   *)

LEMMA ParentsAreItems ==
    ASSUME TypeOK
    PROVE  \A n \in Items : /\ IsFiniteSet(Parents(n)) /\ Parents(n) \subseteq Endpoints /\ n \notin Parents(n)
                            /\ \A m \in Items : m \in Parents(n) <=> n \in Targets(m)
  <1>1. \A n \in Items : ~ Adjacent(n, n)
    BY DEF TypeOK, Edge, Adjacent
  <1>2. \A n \in Items : Parents(n) \subseteq Items /\ Parents(n) \subseteq Endpoints /\ n \notin Parents(n)
    BY <1>1 DEF Parents, Endpoints
  <1>3. \A n, m \in Items : m \in Parents(n) <=> n \in Targets(m)
    BY DEF Parents, Targets
  <1>4. QED BY <1>2, <1>3, ItemsFinite

LEMMA SortBegins ==
    ASSUME TypeOK, DetectInv, SortInv, BeginSort
    PROVE  SortInv' /\ (in_degree \in [Items -> Nat])'
  <1>1. /\ phase = "detect" /\ phase' = "sort" /\ edges' = edges /\ order = << >> /\ order' = << >>
        /\ frames = << >> /\ Endpoints \subseteq visited
        /\ in_degree' = [n \in Items |-> Cardinality(Parents(n))]
        /\ ready' = {n \in Endpoints : Parents(n) = {}}
    BY DEF BeginSort, SortInv
  <1>2. /\ \A n : Parents(n)' = Parents(n)
        /\ \A s : Targets(s)' = Targets(s)
        /\ Endpoints' = Endpoints
    BY <1>1, GraphStays
  <1>3. Sorted' = {}
    BY <1>1 DEF Sorted
  <1>4. \A n : Parents(n) \ {} = Parents(n) /\ (Parents(n) \subseteq {} <=> Parents(n) = {})
    OBVIOUS
  <1>5. UnsortedCounted'
    <2>1. \A n \in Items : in_degree'[n] = Cardinality(Parents(n) \ {})
      BY <1>1, <1>4
    <2>2. ready' = {n \in Endpoints \ {} : Parents(n) \subseteq {}}
      BY <1>1, <1>4
    <2>3. QED BY <1>2, <1>3, <2>1, <2>2 DEF UnsortedCounted
  <1>6. ParentsFirst'
    <2>1. 1..Len(order') = {}
      BY <1>1
    <2>2. QED BY <1>3, <2>1 DEF ParentsFirst
  <1>7. EndpointsAcyclic'
    <2>1. PICK f \in [Items -> Nat], b \in Nat : Ranked(f, b, Left)
      BY <1>1 DEF DetectInv, LeftAcyclic
    <2>2. Endpoints \subseteq Left
      <3>1. Depth = 0
        BY <1>1, FramesTyped
      <3>2. \A n : ~ OnPath(n)
        BY <3>1, OnPathIs
      <3>3. QED BY <1>1, <3>2 DEF Left
    <2>3. Ranked(f, b, Endpoints)'
      BY <1>2, <2>1, <2>2 DEF Ranked
    <2>4. QED BY <2>3 DEF EndpointsAcyclic
  <1>8. (in_degree \in [Items -> Nat])'
    <2>1. \A n \in Items : Cardinality(Parents(n)) \in Nat
      BY ParentsAreItems, FS_CardinalityType
    <2>2. QED BY <1>1, <2>1
  <1>9. QED BY <1>1, <1>5, <1>6, <1>7, <1>8 DEF SortInv

\* A node whose only unsorted parent is n has in_degree 1.
LEMMA OneParentLeft ==
    ASSUME TypeOK, UnsortedCounted, NEW n \in Items \ Sorted, NEW t \in Targets(n)
    PROVE  /\ t \in Items /\ in_degree[t] = Cardinality(Parents(t) \ Sorted)
           /\ Cardinality(Parents(t) \ (Sorted \cup {n})) = in_degree[t] - 1
           /\ in_degree[t] \in Nat /\ in_degree[t] - 1 \in Nat
           /\ in_degree[t] = 1 <=> Parents(t) \subseteq Sorted \cup {n}
  <1>1. t \in Items /\ n \in Parents(t) /\ IsFiniteSet(Parents(t))
    BY ParentsAreItems DEF Targets
  <1>2. PICK U : U = Parents(t) \ Sorted
    OBVIOUS
  <1>3. IsFiniteSet(U) /\ n \in U /\ U \ {n} = Parents(t) \ (Sorted \cup {n})
    <2>1. U \subseteq Parents(t)
      BY <1>2
    <2>2. IsFiniteSet(U)
      BY <1>1, <2>1, FS_Subset
    <2>3. QED BY <1>1, <1>2, <2>2
  <1>4. Cardinality(U) \in Nat /\ IsFiniteSet(U \ {n}) /\ Cardinality(U \ {n}) = Cardinality(U) - 1
    BY <1>3, FS_RemoveElement, FS_CardinalityType
  <1>5. Cardinality(U \ {n}) \in Nat
    BY <1>4, FS_CardinalityType
  <1>6. in_degree[t] = Cardinality(U)
    BY <1>1, <1>2 DEF UnsortedCounted
  <1>7. Cardinality(U \ {n}) = 0 <=> U \ {n} = {}
    BY <1>4, FS_EmptySet
  <1>8. Cardinality(U) = 1 <=> U \ {n} = {}
    <2>1. PICK c \in Nat, e \in Nat : c = Cardinality(U) /\ e = Cardinality(U \ {n}) /\ e = c - 1
      BY <1>4, <1>5
    <2>2. c = 1 <=> e = 0
      BY <2>1
    <2>3. QED BY <1>7, <2>1, <2>2
  <1>9. U \ {n} = {} <=> Parents(t) \subseteq Sorted \cup {n}
    BY <1>3
  <1>10. QED BY <1>1, <1>2, <1>3, <1>4, <1>5, <1>6, <1>8, <1>9

LEMMA SortAdvances ==
    ASSUME TypeOK, SortInv, SortNode
    PROVE  SortInv' /\ (in_degree \in [Items -> Nat])' /\ (order \in Seq(Items))'
  <1>1. PICK n, S, R : n = Least(ready) /\ S = Sorted /\ R = ready
    OBVIOUS
  <1>2. /\ phase = "sort" /\ phase' = "sort" /\ edges' = edges
        /\ order' = Append(order, n) /\ n \in R /\ R \subseteq Items
        /\ in_degree' = [t \in Items |-> IF t \in Targets(n) THEN in_degree[t] - 1 ELSE in_degree[t]]
        /\ ready' = (R \ {n}) \cup {t \in Targets(n) : in_degree[t] = 1}
    <2>1. ready \in SUBSET Items /\ ready # {} /\ phase = "sort"
      BY DEF SortNode, TypeOK
    <2>2. n \in ready
      BY <1>1, <2>1, LeastItem
    <2>3. QED BY <1>1, <2>1, <2>2 DEF SortNode, Freed
  <1>3. /\ \A m : Parents(m)' = Parents(m)
        /\ \A m : Targets(m)' = Targets(m)
        /\ \A s, t : Adjacent(s, t)' = Adjacent(s, t)
        /\ Endpoints' = Endpoints
    BY <1>2, GraphStays
  <1>4. /\ ParentsFirst /\ UnsortedCounted /\ EndpointsAcyclic
        /\ R = {m \in Endpoints \ S : Parents(m) \subseteq S}
        /\ S \subseteq Endpoints /\ \A m \in S : Parents(m) \subseteq S
    BY <1>1, <1>2 DEF SortInv, UnsortedCounted, ParentsFirst
  <1>5. n \in Items /\ n \in Endpoints /\ n \notin S /\ Parents(n) \subseteq S
    BY <1>2, <1>4
  <1>6. PICK k \in Nat, o \in Seq(Items) : o = order /\ k = Len(order)
    BY DEF TypeOK
  <1>7. /\ order' \in Seq(Items) /\ Len(order') = k + 1 /\ order'[k + 1] = n
        /\ \A i \in 1..k : order'[i] = o[i] /\ o[i] \in S /\ i \in 1..(k + 1)
        /\ \A i \in 1..(k + 1) : i \in 1..k \/ i = k + 1
        /\ k + 1 \in 1..(k + 1)
    <2>1. /\ order' \in Seq(Items) /\ Len(order') = k + 1 /\ order'[k + 1] = n
          /\ \A i \in 1..k : order'[i] = o[i]
      BY <1>2, <1>5, <1>6, AppendProperties
    <2>2. \A i \in 1..k : o[i] \in S
      BY <1>1, <1>6 DEF Sorted
    <2>3. QED BY <2>1, <2>2
  <1>8. Sorted' = S \cup {n}
    <2>1. \A x : x \in Sorted' <=> \E i \in 1..(k + 1) : order'[i] = x
      BY <1>7 DEF Sorted
    <2>2. \A x : x \in S <=> \E i \in 1..k : o[i] = x
      BY <1>1, <1>6 DEF Sorted
    <2>3. \A x : x \in Sorted' <=> x \in S \/ x = n
      BY <1>7, <2>1, <2>2
    <2>4. QED BY <2>3
  <1>9. \A t \in Targets(n) :
            /\ t \in Items /\ Cardinality(Parents(t) \ (S \cup {n})) = in_degree[t] - 1
            /\ in_degree[t] - 1 \in Nat
            /\ in_degree[t] = 1 <=> Parents(t) \subseteq S \cup {n}
    BY <1>1, <1>4, <1>5, OneParentLeft
  <1>10. (in_degree \in [Items -> Nat])'
    BY <1>2, <1>9 DEF TypeOK
  <1>11. ASSUME NEW t \in Items PROVE in_degree'[t] = Cardinality(Parents(t) \ (S \cup {n}))
    <2>1. CASE t \in Targets(n)
      BY <1>2, <1>9, <2>1
    <2>2. CASE t \notin Targets(n)
      <3>1. n \notin Parents(t)
        BY <1>5, <2>2, ParentsAreItems
      <3>2. Parents(t) \ (S \cup {n}) = Parents(t) \ S
        BY <3>1
      <3>3. in_degree[t] = Cardinality(Parents(t) \ S)
        BY <1>1, <1>4 DEF UnsortedCounted
      <3>4. QED BY <1>2, <2>2, <3>2, <3>3
    <2>3. QED BY <2>1, <2>2
  <1>12. ASSUME NEW m \in ready' PROVE m \in Endpoints \ (S \cup {n}) /\ Parents(m) \subseteq S \cup {n}
    <2>1. CASE m \in R \ {n}
      BY <1>4, <2>1
    <2>2. CASE m \in Targets(n) /\ in_degree[m] = 1
      <3>1. n \in Parents(m) /\ m # n /\ m \in Endpoints
        BY <1>5, <1>9, <2>2, ParentsAreItems, TargetsAreItems DEF Endpoints, Targets
      <3>2. m \notin S
        BY <1>4, <1>5, <3>1
      <3>3. QED BY <1>9, <2>2, <3>1, <3>2
    <2>3. QED BY <1>2, <2>1, <2>2
  <1>13. ASSUME NEW m \in Endpoints \ (S \cup {n}), Parents(m) \subseteq S \cup {n} PROVE m \in ready'
    <2>1. m \in Items
      BY DEF Endpoints
    <2>2. CASE n \in Parents(m)
      <3>1. m \in Targets(n)
        BY <1>5, <2>1, <2>2, ParentsAreItems
      <3>2. QED BY <1>2, <1>9, <1>13, <3>1
    <2>3. CASE n \notin Parents(m)
      BY <1>2, <1>4, <1>13, <2>3
    <2>4. QED BY <2>2, <2>3
  <1>14. UnsortedCounted'
    <2>1. ready' = {m \in Endpoints \ (S \cup {n}) : Parents(m) \subseteq S \cup {n}}
      BY <1>12, <1>13
    <2>2. QED BY <1>3, <1>8, <1>11, <2>1 DEF UnsortedCounted
  <1>15. ASSUME NEW i \in 1..(k + 1), NEW j \in 1..(k + 1)
         PROVE  /\ Adjacent(order'[i], order'[j]) => i < j
                /\ order'[i] = order'[j] => i = j
    <2>1. CASE i \in 1..k /\ j \in 1..k
      BY <1>4, <1>6, <1>7, <2>1 DEF ParentsFirst
    <2>2. CASE i \in 1..k /\ j = k + 1
      <3>1. i < j
        BY <2>2
      <3>2. QED BY <1>5, <1>7, <2>2, <3>1
    <2>3. CASE i = k + 1 /\ j \in 1..k
      <3>1. order'[i] = n /\ order'[j] \in S
        BY <1>7, <2>3
      <3>2. ~ Adjacent(n, order'[j])
        BY <1>4, <1>5, <3>1 DEF Parents
      <3>3. QED BY <1>5, <3>1, <3>2
    <2>4. CASE i = k + 1 /\ j = k + 1
      <3>1. ~ Adjacent(n, n)
        BY <1>5, TargetsAreItems DEF Targets
      <3>2. QED BY <1>7, <2>4, <3>1
    <2>5. QED BY <1>7, <2>1, <2>2, <2>3, <2>4
  <1>16. ParentsFirst'
    <2>1. S \cup {n} \subseteq Endpoints /\ \A m \in S \cup {n} : Parents(m) \subseteq S \cup {n}
      BY <1>4, <1>5
    <2>2. QED BY <1>3, <1>7, <1>8, <1>15, <2>1 DEF ParentsFirst
  <1>17. EndpointsAcyclic'
    BY <1>3, <1>4 DEF EndpointsAcyclic, Ranked
  <1>18. QED BY <1>2, <1>7, <1>10, <1>14, <1>16, <1>17 DEF SortInv

LEMMA SortStays ==
    ASSUME SortInv, edges' = edges, UNCHANGED sort,
           phase' \in {"sort", "sorted"} <=> phase \in {"sort", "sorted"},
           phase' = "sorted" => ready = {}
    PROVE  SortInv'
  <1>1. order' = order /\ in_degree' = in_degree /\ ready' = ready /\ Sorted' = Sorted
    BY DEF sort, Sorted
  <1>2. /\ \A m : Parents(m)' = Parents(m)
        /\ \A m : Targets(m)' = Targets(m)
        /\ \A s, t : Adjacent(s, t)' = Adjacent(s, t)
        /\ Endpoints' = Endpoints
    BY GraphStays
  <1>3. ParentsFirst => ParentsFirst'
    BY <1>1, <1>2 DEF ParentsFirst
  <1>4. UnsortedCounted => UnsortedCounted'
    BY <1>1, <1>2 DEF UnsortedCounted
  <1>5. EndpointsAcyclic => EndpointsAcyclic'
    BY <1>2 DEF EndpointsAcyclic, Ranked
  <1>6. QED BY <1>1, <1>3, <1>4, <1>5 DEF SortInv

SortTypes == in_degree \in [Items -> Nat] /\ order \in Seq(Items) /\ ready \subseteq Items

LEMMA SortInvStep ==
    ASSUME TypeOK, DetectInv, SortInv, [Next]_vars
    PROVE  SortInv' /\ SortTypes'
  <1>1. edges' = edges
    BY EdgesStay
  <1>2. SortTypes
    BY DEF TypeOK, SortTypes
  <1>3. CASE BeginSort
    <2>1. ready' \subseteq Items /\ order' = order
      BY <1>3 DEF BeginSort, Endpoints
    <2>2. QED BY <1>2, <1>3, <2>1, SortBegins DEF SortTypes
  <1>4. CASE SortNode
    <2>1. SortInv' /\ (in_degree \in [Items -> Nat])' /\ (order \in Seq(Items))'
      BY <1>4, SortAdvances
    <2>2. phase' = "sort"
      BY <1>4 DEF SortNode
    <2>3. Endpoints' = Endpoints /\ Endpoints \subseteq Items
      BY <1>1, GraphStays DEF Endpoints
    <2>4. ready' \subseteq Items
      BY <2>1, <2>2, <2>3 DEF SortInv, UnsortedCounted
    <2>5. QED BY <2>1, <2>4 DEF SortTypes
  <1>5. CASE EndSort
    <2>1. UNCHANGED sort /\ phase = "sort" /\ phase' = "sorted" /\ ready = {}
      BY <1>5 DEF EndSort
    <2>2. QED BY <1>1, <1>2, <2>1, SortStays DEF SortTypes, sort
  <1>6. CASE \/ VisitRoot \/ VisitTarget \/ LeaveNode \/ EndComponents
             \/ BeginCycle \/ FollowCycle \/ BacktrackCycle
             \/ \E root \in Items, left_out \in {{}, Invalid} : BeginPaths(root, left_out)
             \/ Relax \/ EndPaths \/ DetectRoot \/ DetectTarget \/ DetectLeave
    <2>1. /\ UNCHANGED sort
          /\ phase \notin {"sort", "sorted"} /\ phase' \notin {"sort", "sorted"}
      BY <1>6 DEF VisitRoot, VisitTarget, LeaveNode, Visit, EndComponents, BeginCycle, FollowCycle,
                  BacktrackCycle, BeginPaths, Relax, EndPaths, DetectRoot, DetectTarget, DetectLeave
    <2>2. QED BY <1>1, <1>2, <2>1, SortStays DEF SortTypes, sort
  <1>7. CASE UNCHANGED vars
    <2>1. UNCHANGED sort /\ phase' = phase
      BY <1>7 DEF vars
    <2>2. QED BY <1>1, <1>2, <2>1, SortStays DEF SortTypes, sort, SortInv
  <1>8. QED BY <1>3, <1>4, <1>5, <1>6, <1>7 DEF Next

\* The sort does not run out of ready nodes before its end: an unsorted node of the
\* highest rank would have a parent of a higher one.
LEMMA ContainmentIsDecided ==
    ASSUME TypeOK, DetectInv, SortInv
    PROVE  ContainmentDecided
  <1>1. ASSUME phase = "sorted" PROVE Sorted = Endpoints
    <2>1. /\ ParentsFirst /\ UnsortedCounted /\ ready = {}
          /\ Sorted \subseteq Endpoints /\ Endpoints \subseteq Items
      BY <1>1 DEF SortInv, ParentsFirst, Endpoints
    <2>2. PICK f \in [Items -> Nat], b \in Nat : Ranked(f, b, Endpoints)
      BY <1>1 DEF SortInv, EndpointsAcyclic
    <2> DEFINE U == Endpoints \ Sorted
               D == {b - f[u] : u \in U}
    <2>3. U = {}
      <3> SUFFICES ASSUME U # {} PROVE FALSE
        OBVIOUS
      <3>1. \A u \in U : f[u] \in Nat /\ f[u] < b /\ u \in Items
        BY <2>1, <2>2 DEF Ranked
      <3>2. D \in SUBSET Nat /\ D # {}
        <4>1. \A u \in U : b - f[u] \in Nat
          BY <3>1
        <4>2. QED BY <4>1
      <3>3. PICK x \in D : \A y \in D : x <= y
        <4> HIDE DEF D
        <4>1. QED BY <3>2, LeastNumber
      <3>4. PICK u \in U : x = b - f[u]
        OBVIOUS
      <3>5. u \notin ready
        BY <2>1
      <3>6. PICK p \in Parents(u) : p \notin Sorted
        BY <2>1, <3>5 DEF UnsortedCounted
      <3>7. p \in U /\ u \in Targets(p)
        BY <3>1, <3>6, ParentsAreItems DEF Parents
      <3>8. f[u] < f[p]
        BY <2>2, <3>7 DEF Ranked
      <3>9. b - f[p] \in D
        BY <3>7
      <3>10. b - f[u] <= b - f[p]
        BY <3>3, <3>4, <3>9
      <3>11. QED BY <3>1, <3>7, <3>8, <3>10
    <2>4. QED BY <2>1, <2>3
  <1>2. phase = "sorted" => ParentsFirst
    BY DEF SortInv
  <1>3. phase = "rejected" => \E n \in Items : ComponentOf(n) # {n}
    BY DEF DetectInv
  <1>4. QED BY <1>1, <1>2, <1>3 DEF ContainmentDecided, ParentsFirst, Sorted

-----------------------------------------------------------------------------
(* The whole invariant.                                                    *)

LEMMA FramesTypedStep ==
    ASSUME TypeOK, [Next]_vars
    PROVE  frames' \in Seq(FrameType)
  <1>1. CASE VisitRoot
    <2> DEFINE roots == {n \in Items : indices[n] = Unvisited}
    <2>1. Least(roots) \in Items /\ frames' = <<Frame(Least(roots))>>
      <3>1. roots \in SUBSET Items /\ roots # {}
        BY <1>1 DEF VisitRoot
      <3>2. QED BY <1>1, <3>1, LeastItem DEF VisitRoot
    <2>2. QED BY <2>1, FramesBegun
  <1>2. CASE DetectRoot
    <2> DEFINE roots == Endpoints \ visited
    <2>1. Least(roots) \in Items /\ frames' = <<Frame(Least(roots))>>
      <3>1. roots \in SUBSET Items /\ roots # {}
        BY <1>2 DEF DetectRoot, Endpoints
      <3>2. QED BY <1>2, <3>1, LeastItem DEF DetectRoot
    <2>2. QED BY <2>1, FramesBegun
  <1>3. CASE BeginCycle
    <2>1. PICK n \in Items : frames' = <<Frame(n)>>
      BY <1>3, LeastUnsearched DEF BeginCycle
    <2>2. QED BY <2>1, FramesBegun
  <1>4. CASE LeaveNode \/ BacktrackCycle \/ DetectLeave
    <2>1. frames # << >> /\ frames' = Pop(frames)
      BY <1>4 DEF LeaveNode, BacktrackCycle, DetectLeave
    <2>2. QED BY <2>1, FramesPopped
  <1>5. CASE VisitTarget \/ FollowCycle \/ DetectTarget
    <2>1. PICK n : n = NextTarget
      OBVIOUS
    <2>2. /\ frames # << >> /\ Top.todo # {}
          /\ frames' = Append(Skipped, Frame(n)) \/ frames' = Skipped \/ frames' = << >>
      <3>1. CASE VisitTarget
        BY <2>1, <3>1, Zenon DEF VisitTarget
      <3>2. CASE FollowCycle
        BY <2>1, <3>2 DEF FollowCycle
      <3>3. CASE DetectTarget
        BY <2>1, <3>3, Zenon DEF DetectTarget
      <3>4. QED BY <1>5, <3>1, <3>2, <3>3
    <2>3. n \in Items
      BY <2>1, <2>2, NextTargetInTodo
    <2>4. CASE frames' = Append(Skipped, Frame(n))
      BY <2>2, <2>3, <2>4, FramesPushed
    <2>5. CASE frames' = Skipped
      BY <2>2, <2>5, FramesSkipped
    <2>6. CASE frames' = << >>
      BY <2>6, FramesEnded
    <2>7. QED BY <2>2, <2>4, <2>5, <2>6
  <1>6. CASE \/ EndComponents
             \/ \E root \in Items, left_out \in {{}, Invalid} : BeginPaths(root, left_out)
             \/ Relax \/ EndPaths \/ BeginSort \/ SortNode \/ EndSort \/ UNCHANGED vars
    <2>1. frames' = frames
      BY <1>6 DEF EndComponents, BeginPaths, Relax, EndPaths, BeginSort, SortNode, EndSort, vars
    <2>2. QED BY <2>1, FramesTyped
  <1>7. QED BY <1>1, <1>2, <1>3, <1>4, <1>5, <1>6 DEF Next

LEMMA VisitedTypedStep ==
    ASSUME TypeOK, [Next]_vars
    PROVE  visited' \subseteq Items
  <1>1. visited \subseteq Items
    BY DEF TypeOK
  <1>2. CASE DetectRoot
    <2> DEFINE roots == Endpoints \ visited
    <2>1. Least(roots) \in Items /\ visited' = visited \cup {Least(roots)}
      <3>1. roots \in SUBSET Items /\ roots # {}
        BY <1>2 DEF DetectRoot, Endpoints
      <3>2. QED BY <1>2, <3>1, LeastItem DEF DetectRoot
    <2>2. QED BY <1>1, <2>1
  <1>3. CASE DetectTarget
    <2>1. PICK n \in Items : n = NextTarget
      BY <1>3, NextTargetInTodo DEF DetectTarget
    <2>2. visited' = visited \cup {n} \/ visited' = visited
      BY <1>3, <2>1, Zenon DEF DetectTarget
    <2>3. QED BY <1>1, <2>1, <2>2
  <1>4. CASE \/ VisitRoot \/ VisitTarget \/ LeaveNode \/ EndComponents
             \/ BeginCycle \/ FollowCycle \/ BacktrackCycle
             \/ \E root \in Items, left_out \in {{}, Invalid} : BeginPaths(root, left_out)
             \/ Relax \/ EndPaths \/ DetectLeave \/ BeginSort \/ SortNode \/ EndSort \/ UNCHANGED vars
    <2>1. visited' = visited
      BY <1>4, Zenon DEF VisitRoot, VisitTarget, LeaveNode, Visit, EndComponents, BeginCycle, FollowCycle,
                  BacktrackCycle, BeginPaths, Relax, EndPaths, DetectLeave, BeginSort, SortNode, EndSort,
                  search, vars
    <2>2. QED BY <1>1, <2>1
  <1>5. QED BY <1>2, <1>3, <1>4 DEF Next

LEMMA SearchedTypedStep ==
    ASSUME TypeOK, [Next]_vars
    PROVE  searched' \subseteq components'
  <1>1. searched \subseteq components /\ Unsearched \subseteq components
    BY DEF TypeOK, Unsearched
  <1>2. CASE VisitRoot \/ VisitTarget \/ LeaveNode
    <2>1. searched' = searched /\ components \subseteq components'
      <3>1. CASE VisitRoot
        BY <3>1, Zenon DEF VisitRoot, Visit, search
      <3>2. CASE VisitTarget
        BY <3>2, Zenon DEF VisitTarget, Visit, search
      <3>3. CASE LeaveNode
        <4>1. searched' = searched
          BY <3>3, Zenon DEF LeaveNode, search
        <4>2. PICK C : components' = components \/ components' = components \cup {C}
          BY <3>3, Zenon DEF LeaveNode
        <4>3. QED BY <4>1, <4>2
      <3>4. QED BY <1>2, <3>1, <3>2, <3>3
    <2>2. QED BY <1>1, <2>1
  <1>3. CASE FollowCycle
    <2>1. components' = components
      BY <1>3 DEF FollowCycle, tarjan
    <2>2. searched' = searched \/ searched' = searched \cup {C \in Unsearched : NextTarget \in C}
      BY <1>3, Zenon DEF FollowCycle
    <2>3. QED BY <1>1, <2>1, <2>2
  <1>4. CASE BacktrackCycle
    <2>1. components' = components
      BY <1>4 DEF BacktrackCycle, tarjan
    <2>2. searched' = searched \/ searched' = searched \cup {C \in Unsearched : frames[1].node \in C}
      BY <1>4, Zenon DEF BacktrackCycle
    <2>3. QED BY <1>1, <2>1, <2>2
  <1>5. CASE \/ EndComponents \/ BeginCycle
             \/ \E root \in Items, left_out \in {{}, Invalid} : BeginPaths(root, left_out)
             \/ Relax \/ EndPaths \/ DetectRoot \/ DetectTarget \/ DetectLeave
             \/ BeginSort \/ SortNode \/ EndSort \/ UNCHANGED vars
    <2>1. searched' = searched /\ components' = components
      BY <1>5 DEF EndComponents, BeginCycle, BeginPaths, Relax, EndPaths, DetectRoot, DetectTarget,
                  DetectLeave, BeginSort, SortNode, EndSort, search, tarjan, vars
    <2>2. QED BY <1>1, <2>1
  <1>6. QED BY <1>2, <1>3, <1>4, <1>5 DEF Next

LEMMA PhaseStep ==
    ASSUME TypeOK, [Next]_vars
    PROVE  phase' \in Phases
  <1>1. phase \in Phases
    BY DEF TypeOK
  <1>2. CASE Next
    <2>1. phase' = phase \/ phase' \in {"cycles", "paths", "done", "rejected", "sort", "sorted"}
      BY <1>2, Zenon
         DEF Next, VisitRoot, VisitTarget, LeaveNode, Visit, EndComponents, BeginCycle, FollowCycle,
             BacktrackCycle, BeginPaths, Relax, EndPaths, DetectRoot, DetectTarget, DetectLeave,
             BeginSort, SortNode, EndSort
    <2>2. QED BY <1>1, <2>1 DEF Phases
  <1>3. CASE UNCHANGED vars
    BY <1>1, <1>3 DEF vars
  <1>4. QED BY <1>2, <1>3

LEMMA GraphInitial == Init => GraphInv
  <1> SUFFICES ASSUME Init PROVE GraphInv
    OBVIOUS
  <1>1. TypeOK
    <2>1. [n \in Items |-> Unvisited] \in [Items -> Int]
      BY DEF Unvisited
    <2>2. [n \in Items |-> << >>] \in [Items -> Seq(Items)] /\ [n \in Items |-> 0] \in [Items -> Nat]
      OBVIOUS
    <2>3. << >> \in Seq(FrameType) /\ << >> \in Seq(Items)
      OBVIOUS
    <2>4. QED BY <2>1, <2>2, <2>3 DEF Init, TypeOK, Phases, FrameType
  <1>2. Depth = 0 /\ \A n : ~ OnPath(n)
    BY <1>1, FramesTyped, OnPathIs DEF Init
  <1>3. FramesInv
    BY <1>2 DEF Init, FramesInv, FramesPath, Searching
  <1>4. CyclesReal
    BY DEF Init, CyclesReal
  <1>5. TarjanInv
    BY TarjanInit
  <1>6. ExplainInv
    BY DEF Init, ExplainInv, CyclicComponentsExplained
  <1>7. PathsInv
    BY DEF Init, PathsInv
  <1>8. DetectInv
    <2>1. Left = {}
      BY DEF Init, Left
    <2>2. [n \in Items |-> 0] \in [Items -> Nat] /\ Ranked([n \in Items |-> 0], 0, {})
      BY DEF Ranked
    <2>3. LeftAcyclic
      BY <2>1, <2>2 DEF LeftAcyclic, Closed
    <2>4. DoneLeft
      BY <1>2 DEF DoneLeft
    <2>5. phase # "rejected"
      BY DEF Init
    <2>6. QED BY <2>3, <2>4, <2>5 DEF DetectInv
  <1>9. SortInv
    BY DEF Init, SortInv
  <1>10. QED BY <1>1, <1>3, <1>4, <1>5, <1>6, <1>7, <1>8, <1>9 DEF GraphInv

LEMMA GraphInvStep ==
    ASSUME GraphInv, [Next]_vars
    PROVE  GraphInv'
  <1>1. TypeOK /\ FramesInv /\ CyclesReal /\ TarjanInv /\ ExplainInv /\ PathsInv /\ DetectInv /\ SortInv
    BY DEF GraphInv
  <1>2. FramesInv'
    BY <1>1, FramesInvStep
  <1>3. CyclesReal' /\ (cycles \subseteq Seq(Items))'
    BY <1>1, CyclesRealStep
  <1>4. TarjanInv' /\ TarjanTypes'
    BY <1>1, TarjanInvStep
  <1>5. ExplainInv'
    BY <1>1, ExplainInvStep
  <1>6. PathsInv' /\ PathTypes'
    BY <1>1, PathsInvStep
  <1>7. DetectInv'
    BY <1>1, DetectInvStep
  <1>8. SortInv' /\ SortTypes'
    BY <1>1, SortInvStep
  <1>9. TypeOK'
    <2>1. edges' \subseteq Edge
      BY <1>1, EdgesStay DEF TypeOK
    <2>2. frames' \in Seq(FrameType) /\ visited' \subseteq Items /\ searched' \subseteq components'
          /\ phase' \in Phases
      BY <1>1, FramesTypedStep, VisitedTypedStep, SearchedTypedStep, PhaseStep
    <2>3. QED BY <1>3, <1>4, <1>6, <1>8, <2>1, <2>2
              DEF TypeOK, FrameType, TarjanTypes, PathTypes, SortTypes
  <1>10. QED BY <1>2, <1>3, <1>4, <1>5, <1>6, <1>7, <1>8, <1>9 DEF GraphInv

-----------------------------------------------------------------------------
(* The theorems.                                                           *)

\* Every variable of the traversals keeps its type, and the invariant of each traversal
\* holds, in every reachable state (graph.py: _TarjanState, the frames of its recursive
\* functions, the queue of _shortest_paths, the degrees of the sort).
THEOREM GraphInvariant == Spec => []GraphInv
  <1>1. Init => GraphInv
    BY GraphInitial
  <1>2. GraphInv /\ [Next]_vars => GraphInv'
    BY GraphInvStep
  <1>3. QED BY <1>1, <1>2, PTL DEF Spec

\* The analysis types every value it keeps (graph.py).
THEOREM GraphTypes == Spec => []TypeOK
  <1>1. GraphInv => TypeOK
    BY DEF GraphInv
  <1>2. QED BY <1>1, GraphInvariant, PTL

\* analyze_dependency_graph pops whole strongly connected components, the nodes that lie on
\* a cycle are exactly the invalid ones, items not behind one keep their hard blockers, and each cyclic component has a real cycle inside it
\* (_strongly_connected_components, _find_component_cycle).
THEOREM CyclesAreExact ==
    Spec => [](ComponentsExact /\ QuarantineExact /\ CyclesReal /\ CyclicComponentsExplained)
  <1>1. GraphInv => ComponentsExact /\ QuarantineExact /\ CyclesReal /\ CyclicComponentsExplained
    BY ComponentsAreExact, QuarantineIsExact DEF GraphInv, ExplainInv
  <1>2. QED BY <1>1, GraphInvariant, PTL

\* _shortest_paths ends with a path to exactly the nodes that can be reached, and no path
\* comes before it in the order of _path_key, although a path may be improved while the
\* node is in the queue.
THEOREM PathsAreExact == Spec => []ShortestPathsExact
  <1>1. GraphInv => ShortestPathsExact
    BY PathsAreBest DEF GraphInv
  <1>2. QED BY <1>1, GraphInvariant, PTL

\* validate_containment_dag rejects a graph only for a cycle it has, and otherwise its
\* sort gets every endpoint, parents first.
THEOREM ContainmentIsExact == Spec => []ContainmentDecided
  <1>1. GraphInv => ContainmentDecided
    BY ContainmentIsDecided DEF GraphInv
  <1>2. QED BY <1>1, GraphInvariant, PTL

\* On every graph each traversal of graph.py computes what its declarative counterpart says.
THEOREM AnswersAreExact == Spec => []GraphAnswersExact
  <1>1. /\ ComponentsExact /\ QuarantineExact /\ CyclesReal /\ CyclicComponentsExplained
        /\ ShortestPathsExact /\ ContainmentDecided
        => GraphAnswersExact
    BY DEF GraphAnswersExact
  <1>2. QED BY <1>1, CyclesAreExact, PathsAreExact, ContainmentIsExact, PTL
=============================================================================
