-------------------------- MODULE IngestionProofs --------------------------
(***************************************************************************)
(* Proofs about Ingestion: decision cycles chain, full cycles are the      *)
(* corpus of one moment, row locks do not form a cycle, and, for adapters  *)
(* whose items have revisions of their own, nothing regresses, the tables  *)
(* follow the cycles and the whole implements DecisionLog; for every set   *)
(* of connections, commands and ingesters.                                 *)
(***************************************************************************)
EXTENDS Ingestion, WellFoundedInduction, TLAPS

-----------------------------------------------------------------------------
(* Least and greatest numbers.                                             *)

\* Every set of naturals has a least element, the one Least names.
LEMMA LeastIs ==
    ASSUME NEW S \in SUBSET Nat, S # {}
    PROVE  Least(S) \in S /\ \A j \in S : Least(S) <= j
  <1> DEFINE R == {ss \in Nat \X Nat : ss[1] < ss[2]}
  <1>1. OpToRel(<, Nat) = R
    BY Zenon DEF OpToRel
  <1>2. IsWellFoundedOn(R, Nat)
    BY <1>1, NatLessThanWellFounded, Zenon
  <1>3. \E x \in S : \A y \in S : ~ (<<y, x>> \in R)
    <2> HIDE DEF R
    <2>1. QED BY <1>2, WFMin
  <1>4. PICK x \in S : \A y \in S : ~ (<<y, x>> \in R)
    BY <1>3
  <1>5. ASSUME NEW y \in S PROVE x <= y
    <2>1. <<y, x>> \in Nat \X Nat
      OBVIOUS
    <2>2. ~ (y < x)
      BY <1>4, <2>1
    <2>3. QED BY <2>2
  <1>6. QED BY <1>5 DEF Least

\* What is in a set of integers and not below any of it is its Greatest.
LEMMA GreatestIs ==
    ASSUME NEW S \in SUBSET Int, NEW k \in S, \A j \in S : j <= k
    PROVE  Greatest(S) = k
  <1>1. \A i \in S : (\A j \in S : j <= i) => i = k
    OBVIOUS
  <1>2. QED BY <1>1 DEF Greatest

\* A bounded set of naturals has a greatest element.
LEMMA GreatestExists ==
    ASSUME NEW n \in Nat, NEW S \in SUBSET (0..n), S # {}
    PROVE  Greatest(S) \in S /\ \A j \in S : j <= Greatest(S)
  <1> DEFINE T == {n - x : x \in S}
  <1>1. T \in SUBSET Nat /\ T # {}
    <2>1. \A x \in S : x \in 0..n /\ n - x \in Nat
      OBVIOUS
    <2>2. QED BY <2>1
  <1>2. Least(T) \in T /\ \A j \in T : Least(T) <= j
    <2> HIDE DEF T
    <2>1. QED BY <1>1, LeastIs
  <1>3. PICK x \in S : Least(T) = n - x
    BY <1>2
  <1>4. \A j \in S : n - j \in T
    OBVIOUS
  <1>5. \A j \in S : n - x <= n - j
    BY <1>2, <1>3, <1>4
  <1>6. \A j \in S : j <= x
    BY <1>5
  <1>7. QED BY <1>6 DEF Greatest

-----------------------------------------------------------------------------
(* Versions.                                                               *)

Tracked == changes \in [Connections -> Seq(ItemIds)]

\* The version of an item at a revision: the latest change to it so far, or 0.
LEMMA VersionIs ==
    ASSUME Tracked, NEW c \in Connections, NEW i \in ItemIds, NEW r \in 0..Len(changes[c])
    PROVE  /\ VersionAt(c, i, r) \in 0..r
           /\ VersionAt(c, i, r) = 0 \/ changes[c][VersionAt(c, i, r)] = i
           /\ \A n \in 1..r : changes[c][n] = i => n <= VersionAt(c, i, r)
  <1> DEFINE S == {0} \cup {n \in 1..r : changes[c][n] = i}
  <1>1. r \in Nat /\ S \in SUBSET (0..r) /\ S # {}
    BY DEF Tracked
  <1>2. Greatest(S) \in S /\ \A j \in S : j <= Greatest(S)
    <2> HIDE DEF S
    <2>1. QED BY <1>1, GreatestExists
  <1>3. VersionAt(c, i, r) = Greatest(S)
    BY DEF VersionAt
  <1>4. QED BY <1>1, <1>2, <1>3

\* Versions grow with the revision.
LEMMA VersionGrows ==
    ASSUME Tracked, NEW c \in Connections, NEW i \in ItemIds,
           NEW s \in 0..Len(changes[c]), NEW r \in 0..s
    PROVE  VersionAt(c, i, r) <= VersionAt(c, i, s)
  <1>1. Len(changes[c]) \in Nat
    BY DEF Tracked
  <1>2. r \in 0..Len(changes[c]) /\ s \in Nat /\ r \in Nat
    BY <1>1
  <1>3. /\ VersionAt(c, i, r) \in 0..r
        /\ VersionAt(c, i, r) = 0 \/ changes[c][VersionAt(c, i, r)] = i
    BY <1>2, VersionIs
  <1>4. /\ VersionAt(c, i, s) \in 0..s
        /\ \A n \in 1..s : changes[c][n] = i => n <= VersionAt(c, i, s)
    BY VersionIs
  <1>5. QED BY <1>2, <1>3, <1>4

\* A change at the tracker leaves the versions at earlier revisions alone.
LEMMA VersionStays ==
    ASSUME Tracked, Tracked', NEW c \in Connections, NEW i \in ItemIds,
           Len(changes[c]) <= Len(changes'[c]),
           \A n \in 1..Len(changes[c]) : changes'[c][n] = changes[c][n],
           NEW r \in 0..Len(changes[c])
    PROVE  VersionAt(c, i, r)' = VersionAt(c, i, r)
  <1>1. Len(changes[c]) \in Nat /\ r \in Nat
    BY DEF Tracked
  <1>2. \A n \in 1..r : changes'[c][n] = changes[c][n]
    BY <1>1
  <1>3. {n \in 1..r : changes'[c][n] = i} = {n \in 1..r : changes[c][n] = i}
    BY <1>2
  <1>4. QED BY <1>3 DEF VersionAt

-----------------------------------------------------------------------------
(* The inductive invariant.  First what one execution knows.               *)

Fields == {"pc", "cmd", "connection", "changed", "expected", "revision",
           "page", "items", "todo", "version"}

Issued(e) ==
    \E m \in Commands :
        e.cmd = m.cycle_id /\ e.connection = m.connection /\ e.changed = m.changed

\* The cursor it read is not ahead of the cursor.
Started(e) ==
    /\ Issued(e)
    /\ e.items \in Snapshots
    /\ e.expected \in Nat \cup {NoCursor}
    /\ e.expected <= cursor[e.connection]

\* The revision it read is not the one of its cursor.
Known(e) ==
    /\ e.revision \in 0..Len(changes[e.connection])
    /\ e.revision <= shown[e.connection]
    /\ e.expected < e.revision

\* The pages read so far are the tracker of one moment.
PagesRead(e) ==
    LET c == e.connection
        read == ItemsOf[c] \ e.todo
    IN  /\ e.todo \subseteq ItemsOf[c]
        /\ \A i \in ItemIds \ read : e.items[i] = Unread
        /\ e.page = NoPage => e.todo = ItemsOf[c]
        /\ e.page # NoPage =>
               \E r \in e.revision..Len(changes[c]) :
                   /\ \A i \in read : e.items[i] = VersionAt(c, i, r)
                   /\ Adapter[c] # "github" => e.page = <<r>>
                   /\ Adapter[c] = "github" => \E i \in read : e.page[1] = i

WholeRead(e) ==
    \E r \in e.revision..Len(changes[e.connection]) : e.items = ContentAt(e.connection, r)

ExecOK(e) ==
    /\ DOMAIN e = Fields
    /\ e.pc \in {"idle"} \cup Reading \cup Writing
    /\ e.pc # "idle" => Started(e)
    /\ e.pc = "revision" => e.page = NoPage /\ e.items = NoItems
    /\ e.pc \notin {"idle", "revision"} => Known(e)
    /\ e.pc \in {"load", "fetch"} => e.changed # {}
    /\ e.pc = "page" => e.changed = {} /\ PagesRead(e)
    /\ e.pc \in {"fetch", "page", "projections"} => e.todo # {} /\ e.todo \subseteq ItemIds
    /\ e.pc \in {"persist"} \cup Writing => In(e.items) # {} /\ (e.changed = {} => WholeRead(e))
    /\ e.pc = "projections" => \A i \in In(e.items) \ e.todo, j \in e.todo : i < j
    /\ e.pc \in Writing => cursor[e.connection] = e.expected
    /\ e.pc \in Writing \ {"append"} => ~ Published(e)

ExecsOK == DOMAIN ing = Ingesters /\ \A w \in Ingesters : ExecOK(ing[w])

\* A source revision is that of some change, and of the latest unless it is GitHub's.
ShownOK(c) ==
    /\ shown[c] <= Len(changes[c])
    /\ Adapter[c] # "github" => shown[c] = Len(changes[c])

TablesOK ==
    /\ Tracked
    /\ shown \in [Connections -> Nat]
    /\ \A c \in Connections : ShownOK(c)
    /\ cursor \in [Connections -> Nat \cup {NoCursor}]
    /\ \A c \in Connections : cursor[c] <= shown[c]
    /\ rows \in [Connections -> [ItemIds -> Seq(StoredRow)]]
    /\ cycles \in Seq(DecisionCycle)
    /\ projections \in [ItemIds -> Nat]

\* One transaction per connection is past the fence, and one holds the frontier.
OneFence ==
    \A w, o \in Ingesters : w # o =>
        ~ (ing[w].pc \in Writing /\ ing[o].pc \in Writing /\ ing[w].connection = ing[o].connection)

OneFrontier == \A w, o \in Ingesters : w # o => ~ (HoldsFrontier(w) /\ HoldsFrontier(o))

IngestInv ==
    /\ TablesOK /\ ExecsOK /\ OneFence /\ OneFrontier
    /\ CyclesChain /\ FullCyclesConsistent /\ ProjectionsDerive

-----------------------------------------------------------------------------
(* Steps within one execution.                                             *)

\* What a command names exists.
LEMMA IssuedTypes ==
    ASSUME NEW e, Issued(e)
    PROVE  /\ e.cmd \in Nat \ {0} /\ e.connection \in Connections /\ e.changed \subseteq ItemIds
           /\ e.changed \subseteq ItemsOf[e.connection]
           /\ ItemsOf[e.connection] \subseteq ItemIds /\ ItemsOf[e.connection] # {}
  BY IngestionAssumption DEF Issued, Command

\* An execution in order stays so while tracker, cursors and cycles stand still.
LEMMA StandStill ==
    ASSUME UNCHANGED <<changes, shown, cursor, cycles>>, NEW e, ExecOK(e)
    PROVE  ExecOK(e)'
  <1>1. \A c, r : ContentAt(c, r)' = ContentAt(c, r)
    BY DEF ContentAt, VersionAt
  <1>2. \A c, i, r : VersionAt(c, i, r)' = VersionAt(c, i, r)
    BY DEF VersionAt
  <1>3. WholeRead(e) => WholeRead(e)'
    BY <1>1 DEF WholeRead
  <1>4. PagesRead(e) => PagesRead(e)'
    BY <1>2 DEF PagesRead
  <1>5. (Started(e) => Started(e)') /\ (Known(e) => Known(e)') /\ (~Published(e) => ~Published(e)')
    BY DEF Started, Known, Published
  <1>6. QED BY <1>3, <1>4, <1>5 DEF ExecOK

\* Chain and projections are about cursors, cycles and projections alone.
LEMMA ChainStays == ASSUME UNCHANGED <<cursor, cycles>>, CyclesChain PROVE CyclesChain'
  <1>1. \A c : CyclesOf(c)' = CyclesOf(c)
    BY DEF CyclesOf
  <1>2. \A k, l, c : Consecutive(k, l, c)' <=> Consecutive(k, l, c)
    BY <1>1 DEF Consecutive
  <1>3. QED BY <1>1, <1>2 DEF CyclesChain

LEMMA ProjectionsStay ==
    ASSUME UNCHANGED <<cycles, projections>>, ProjectionsDerive PROVE ProjectionsDerive'
  BY DEF ProjectionsDerive

\* A step that changes one execution only, keeps it in order and locks nothing
\* another one has locked.
LEMMA OwnStep ==
    ASSUME IngestInv, NEW w \in Ingesters, NEW x, Set(w, x), UNCHANGED <<changes, shown, db>>,
           ExecOK(x)',
           \A o \in Ingesters \ {w} :
               ~ (x.pc \in Writing /\ ing[o].pc \in Writing /\ x.connection = ing[o].connection),
           \A o \in Ingesters \ {w} : ~ (HoldsFrontier(w)' /\ HoldsFrontier(o))
    PROVE  IngestInv'
  <1> USE DEF Set, db
  <1>1. /\ DOMAIN ing = Ingesters /\ DOMAIN ing' = Ingesters
        /\ ing'[w] = x /\ \A o \in Ingesters \ {w} : ing'[o] = ing[o]
    BY DEF IngestInv, ExecsOK
  <1>2. TablesOK' /\ CyclesChain' /\ FullCyclesConsistent' /\ ProjectionsDerive'
    <2>1. TablesOK'
      BY DEF IngestInv, TablesOK, Tracked, ShownOK
    <2>2. CyclesChain'
      BY ChainStays DEF IngestInv
    <2>3. FullCyclesConsistent'
      <3>1. \A c, r : ContentAt(c, r)' = ContentAt(c, r)
        BY DEF ContentAt, VersionAt
      <3>2. QED BY <3>1 DEF IngestInv, FullCyclesConsistent
    <2>4. ProjectionsDerive'
      BY ProjectionsStay DEF IngestInv
    <2>5. QED BY <2>1, <2>2, <2>3, <2>4
  <1>3. ExecsOK'
    <2>1. ASSUME NEW o \in Ingesters \ {w} PROVE ExecOK(ing[o])'
      <3>1. ExecOK(ing[o])
        BY DEF IngestInv, ExecsOK
      <3>2. PICK e : e = ing[o]
        OBVIOUS
      <3>3. ExecOK(e)'
        BY <3>1, <3>2, StandStill
      <3>4. QED BY <1>1, <3>2, <3>3
    <2>2. QED BY <1>1, <2>1 DEF ExecsOK
  <1>4. OneFence'
    BY <1>1 DEF IngestInv, OneFence
  <1>5. OneFrontier'
    BY <1>1 DEF IngestInv, OneFrontier, HoldsFrontier
  <1>6. QED BY <1>2, <1>3, <1>4, <1>5 DEF IngestInv

\* The failure of an execution and the end of an idle replay: nothing remains.
LEMMA QuitInv == ASSUME IngestInv, NEW w \in Ingesters, Quit(w) PROVE IngestInv'
  <1> PICK x : x = Idle
    OBVIOUS
  <1>1. Set(w, x) /\ UNCHANGED <<changes, shown, db>>
    BY DEF Quit
  <1>2. x.pc = "idle" /\ DOMAIN x = Fields
    BY DEF Idle, Fields
  <1>3. ExecOK(x)'
    BY <1>2 DEF ExecOK, Reading, Writing
  <1>4. ing'[w] = x
    BY <1>1 DEF IngestInv, ExecsOK, Set
  <1>5. QED BY <1>1, <1>2, <1>3, <1>4, OwnStep DEF HoldsFrontier, Writing

LEMMA BeginInv ==
    ASSUME IngestInv, NEW w \in Ingesters, NEW m \in Commands, Begin(w, m)
    PROVE  IngestInv'
  <1> PICK x : x = [Idle EXCEPT !.pc = "revision", !.cmd = m.cycle_id,
                      !.connection = m.connection, !.changed = m.changed,
                      !.expected = cursor[m.connection]]
    OBVIOUS
  <1>1. Set(w, x) /\ UNCHANGED <<changes, shown, db>>
    BY DEF Begin
  <1>2. /\ DOMAIN x = Fields
        /\ x.pc = "revision" /\ x.cmd = m.cycle_id /\ x.connection = m.connection
        /\ x.changed = m.changed /\ x.expected = cursor[m.connection]
        /\ x.page = NoPage /\ x.items = NoItems
    BY DEF Idle, Fields
  <1>3. m.connection \in Connections
    BY IngestionAssumption DEF Command
  <1>4. Started(x)'
    BY <1>1, <1>2, <1>3 DEF Started, Issued, IngestInv, TablesOK, db, NoItems, Snapshots, Unread,
                            NoCursor
  <1>5. ExecOK(x)'
    BY <1>2, <1>4 DEF ExecOK, Reading, Writing
  <1>6. ing'[w] = x
    BY <1>1 DEF IngestInv, ExecsOK, Set
  <1>7. QED BY <1>1, <1>2, <1>5, <1>6, OwnStep DEF HoldsFrontier, Writing

LEMMA ReadRevisionInv ==
    ASSUME IngestInv, NEW w \in Ingesters, ReadRevision(w)
    PROVE  IngestInv'
  <1> PICK e : e = ing[w]
    OBVIOUS
  <1> DEFINE r == SourceRevision(e.connection)
             full == [e EXCEPT !.pc = "page", !.revision = r, !.todo = ItemsOf[e.connection]]
             part == [e EXCEPT !.pc = "load", !.revision = r]
  <1>1. ExecOK(e) /\ e.pc = "revision"
    BY DEF IngestInv, ExecsOK, ReadRevision
  <1>2. CASE Replayed(e)
    BY <1>2, QuitInv DEF ReadRevision
  <1>3. CASE ~ Replayed(e)
    <2> PICK x : x = IF e.changed = {} THEN full ELSE part
      OBVIOUS
    <2>1. Set(w, x) /\ UNCHANGED <<changes, shown, db>>
      BY <1>3 DEF ReadRevision
    <2>2. Started(e) /\ e.page = NoPage /\ e.items = NoItems /\ DOMAIN e = Fields
      BY <1>1 DEF ExecOK
    <2>3. /\ DOMAIN x = Fields /\ x.pc = IF e.changed = {} THEN "page" ELSE "load"
          /\ x.cmd = e.cmd /\ x.connection = e.connection /\ x.changed = e.changed
          /\ x.expected = e.expected /\ x.revision = r /\ x.page = e.page /\ x.items = e.items
          /\ e.changed = {} => x.todo = ItemsOf[e.connection]
      BY <2>2 DEF Fields
    <2>4. /\ e.connection \in Connections /\ ItemsOf[e.connection] \subseteq ItemIds
          /\ ItemsOf[e.connection] # {}
      BY <2>2, IssuedTypes DEF Started
    <2>5. Started(x)'
      BY <2>1, <2>2, <2>3 DEF Started, Issued, db
    <2>6. Known(x)'
      <3>1. /\ Len(changes[e.connection]) \in Nat /\ r \in 0..Len(changes[e.connection])
            /\ r = shown[e.connection]
            /\ cursor[e.connection] \in Nat \cup {NoCursor}
            /\ cursor[e.connection] <= r
        BY <2>4 DEF IngestInv, TablesOK, Tracked, ShownOK, SourceRevision
      <3>2. /\ e.expected \in Nat \cup {NoCursor} /\ e.expected <= cursor[e.connection]
            /\ r # e.expected
        BY <1>3, <2>2 DEF Started, Replayed
      <3>3. e.expected < r /\ r <= shown[e.connection]
        BY <3>1, <3>2 DEF NoCursor
      <3>4. QED BY <2>1, <2>3, <3>1, <3>3 DEF Known
    <2>7. e.changed = {} => PagesRead(x)'
      BY <2>1, <2>2, <2>3 DEF PagesRead, NoItems
    <2>8. ExecOK(x)'
      BY <2>3, <2>4, <2>5, <2>6, <2>7 DEF ExecOK, Reading, Writing
    <2>9. ing'[w] = x
      BY <2>1 DEF IngestInv, ExecsOK, Set
    <2>10. QED BY <2>1, <2>3, <2>8, <2>9, OwnStep DEF HoldsFrontier, Writing
  <1>4. QED BY <1>2, <1>3

\* What the store holds last is a snapshot.
LEMMA StoredTypes ==
    ASSUME TablesOK, NEW c \in Connections
    PROVE  StoredItems(c) \in Snapshots
  <1>1. ASSUME NEW i \in ItemIds, rows[c][i] # << >>
        PROVE  rows[c][i][Len(rows[c][i])].version \in Nat
    <2>1. rows[c][i] \in Seq(StoredRow)
      BY DEF TablesOK
    <2>2. rows[c][i][Len(rows[c][i])] \in StoredRow
      BY <1>1, <2>1
    <2>3. QED BY <2>2 DEF StoredRow
  <1>2. QED BY <1>1 DEF StoredItems, Snapshots

LEMMA LoadItemsInv ==
    ASSUME IngestInv, NEW w \in Ingesters, LoadItems(w)
    PROVE  IngestInv'
  <1> PICK e : e = ing[w]
    OBVIOUS
  <1> PICK x : x = [e EXCEPT !.pc = "fetch", !.items = StoredItems(e.connection),
                             !.todo = e.changed]
    OBVIOUS
  <1>1. Set(w, x) /\ UNCHANGED <<changes, shown, db>>
    BY DEF LoadItems
  <1>2. ExecOK(e) /\ e.pc = "load"
    BY DEF IngestInv, ExecsOK, LoadItems
  <1>3. Started(e) /\ Known(e) /\ e.changed # {} /\ DOMAIN e = Fields
    BY <1>2 DEF ExecOK
  <1>4. /\ DOMAIN x = Fields /\ x.pc = "fetch" /\ x.items = StoredItems(e.connection)
        /\ x.todo = e.changed /\ x.cmd = e.cmd /\ x.connection = e.connection
        /\ x.changed = e.changed /\ x.expected = e.expected /\ x.revision = e.revision
    BY <1>3 DEF Fields
  <1>5. e.connection \in Connections /\ e.changed \subseteq ItemIds
    BY <1>3, IssuedTypes DEF Started
  <1>6. x.items \in Snapshots
    BY <1>4, <1>5, StoredTypes DEF IngestInv
  <1>7. Started(x)' /\ Known(x)'
    BY <1>1, <1>3, <1>4, <1>6 DEF Started, Issued, Known, db
  <1>8. ExecOK(x)'
    BY <1>3, <1>4, <1>5, <1>7 DEF ExecOK, Reading, Writing
  <1>9. ing'[w] = x
    BY <1>1 DEF IngestInv, ExecsOK, Set
  <1>10. QED BY <1>1, <1>4, <1>8, <1>9, OwnStep DEF HoldsFrontier, Writing

\* The item a loop visits next, with the version the tracker shows now.
LEMMA NextItem ==
    ASSUME Tracked, NEW c \in Connections, NEW todo \in SUBSET ItemIds, todo # {}
    PROVE  /\ Least(todo) \in todo /\ \A j \in todo : Least(todo) <= j
           /\ ItemVersion(c, Least(todo)) \in 0..Len(changes[c])
           /\ ItemVersion(c, Least(todo)) = VersionAt(c, Least(todo), Len(changes[c]))
           /\ Len(changes[c]) \in Nat
  <1>1. todo \in SUBSET Nat
    BY IngestionAssumption
  <1>2. Least(todo) \in todo /\ \A j \in todo : Least(todo) <= j
    BY <1>1, LeastIs
  <1>3. Len(changes[c]) \in Nat
    BY DEF Tracked
  <1>4. Least(todo) \in ItemIds /\ Len(changes[c]) \in 0..Len(changes[c])
    BY <1>2, <1>3
  <1>5. VersionAt(c, Least(todo), Len(changes[c])) \in 0..Len(changes[c])
    BY <1>4, VersionIs
  <1>6. QED BY <1>2, <1>3, <1>5 DEF ItemVersion

LEMMA FetchItemInv ==
    ASSUME IngestInv, NEW w \in Ingesters, FetchItem(w)
    PROVE  IngestInv'
  <1> PICK e : e = ing[w]
    OBVIOUS
  <1> PICK i : i = Least(e.todo)
    OBVIOUS
  <1> PICK v : v = ItemVersion(e.connection, i)
    OBVIOUS
  <1> PICK x : x = [e EXCEPT !.items = [e.items EXCEPT ![i] = v], !.todo = e.todo \ {i},
                             !.pc = IF e.todo = {i} THEN "persist" ELSE "fetch"]
    OBVIOUS
  <1>1. Set(w, x) /\ UNCHANGED <<changes, shown, db>>
    BY DEF FetchItem
  <1>2. ExecOK(e) /\ e.pc = "fetch"
    BY DEF IngestInv, ExecsOK, FetchItem
  <1>3. /\ Started(e) /\ Known(e) /\ e.changed # {} /\ DOMAIN e = Fields
        /\ e.todo # {} /\ e.todo \subseteq ItemIds
    BY <1>2 DEF ExecOK
  <1>4. /\ DOMAIN x = Fields /\ x.pc = (IF e.todo = {i} THEN "persist" ELSE "fetch")
        /\ x.items = [e.items EXCEPT ![i] = v]
        /\ x.todo = e.todo \ {i} /\ x.cmd = e.cmd /\ x.connection = e.connection
        /\ x.changed = e.changed /\ x.expected = e.expected /\ x.revision = e.revision
    BY <1>3 DEF Fields
  <1>5. e.connection \in Connections
    BY <1>3, IssuedTypes DEF Started
  <1>6. i \in e.todo /\ i \in ItemIds /\ v \in Nat
    <2>1. Tracked /\ e.todo \in SUBSET ItemIds
      BY <1>3 DEF IngestInv, TablesOK
    <2>2. /\ Least(e.todo) \in e.todo /\ Len(changes[e.connection]) \in Nat
          /\ ItemVersion(e.connection, Least(e.todo)) \in 0..Len(changes[e.connection])
      BY <1>3, <1>5, <2>1, NextItem
    <2>3. QED BY <1>3, <2>2
  <1>7. x.items \in Snapshots /\ x.items[i] = v
    BY <1>3, <1>4, <1>6 DEF Started, Snapshots
  <1>8. i \in In(x.items)
    BY <1>6, <1>7 DEF In, Unread
  <1>9. Started(x)' /\ Known(x)'
    BY <1>1, <1>3, <1>4, <1>7 DEF Started, Issued, Known, db
  <1>10. x.todo \subseteq ItemIds /\ (x.pc = "fetch" => x.todo # {})
    BY <1>3, <1>4, <1>6
  <1>11. ExecOK(x)'
    BY <1>3, <1>4, <1>8, <1>9, <1>10 DEF ExecOK, Reading, Writing
  <1>12. ing'[w] = x
    BY <1>1 DEF IngestInv, ExecsOK, Set
  <1>13. QED BY <1>1, <1>4, <1>11, <1>12, OwnStep DEF HoldsFrontier, Writing

LEMMA ReadPageInv ==
    ASSUME IngestInv, NEW w \in Ingesters, ReadPage(w)
    PROVE  IngestInv'
  <1> PICK e : e = ing[w]
    OBVIOUS
  <1> PICK i : i = Least(e.todo)
    OBVIOUS
  <1> PICK c : c = e.connection
    OBVIOUS
  <1> PICK v : v = ItemVersion(c, i)
    OBVIOUS
  <1> PICK p : p = PageRevision(c, i)
    OBVIOUS
  <1> PICK x : x = [e EXCEPT !.items = [e.items EXCEPT ![i] = v], !.page = p,
                             !.todo = e.todo \ {i},
                             !.pc = IF e.todo = {i} THEN "persist" ELSE "page"]
    OBVIOUS
  <1> PICK r : r = Len(changes[c])
    OBVIOUS
  <1>1. ExecOK(e) /\ e.pc = "page"
    BY DEF IngestInv, ExecsOK, ReadPage
  <1>2. CASE e.page \notin {NoPage, p}
    BY <1>2, QuitInv DEF ReadPage
  <1>3. CASE e.page \in {NoPage, p}
    <2>1. Set(w, x) /\ UNCHANGED <<changes, shown, db>>
      BY <1>3 DEF ReadPage
    <2>2. /\ Started(e) /\ Known(e) /\ e.changed = {} /\ PagesRead(e) /\ DOMAIN e = Fields
          /\ e.todo # {} /\ e.todo \subseteq ItemIds
      BY <1>1 DEF ExecOK
    <2>3. /\ DOMAIN x = Fields /\ x.pc = (IF e.todo = {i} THEN "persist" ELSE "page")
          /\ x.items = [e.items EXCEPT ![i] = v] /\ x.page = p
          /\ x.todo = e.todo \ {i} /\ x.cmd = e.cmd /\ x.connection = e.connection
          /\ x.changed = e.changed /\ x.expected = e.expected /\ x.revision = e.revision
      BY <2>2 DEF Fields
    <2>4. c \in Connections /\ ItemsOf[c] \subseteq ItemIds /\ ItemsOf[c] # {}
      BY <2>2, IssuedTypes DEF Started
    <2>5. i \in e.todo /\ i \in ItemIds /\ v \in Nat /\ r \in Nat /\ v = VersionAt(c, i, r)
      <3>1. Tracked /\ e.todo \in SUBSET ItemIds
        BY <2>2 DEF IngestInv, TablesOK
      <3>2. /\ Least(e.todo) \in e.todo /\ Len(changes[c]) \in Nat
            /\ ItemVersion(c, Least(e.todo)) \in 0..Len(changes[c])
            /\ ItemVersion(c, Least(e.todo)) = VersionAt(c, Least(e.todo), Len(changes[c]))
        BY <2>2, <2>4, <3>1, NextItem
      <3>3. QED BY <2>2, <3>2
    <2>6. /\ x.items \in Snapshots /\ x.items[i] = v
          /\ \A j \in ItemIds \ {i} : x.items[j] = e.items[j]
      <3>1. e.items \in [ItemIds -> Nat \cup {Unread}] /\ x.items = [e.items EXCEPT ![i] = v]
        BY <2>2, <2>3 DEF Started, Snapshots
      <3>2. QED BY <2>5, <3>1 DEF Snapshots
    <2>7. Started(x)' /\ Known(x)'
      <3>1. changes' = changes /\ shown' = shown /\ cursor' = cursor
        BY <2>1 DEF db
      <3>2. /\ Issued(x) /\ x.expected \in Nat \cup {NoCursor}
            /\ x.expected <= cursor[x.connection]
        <4>1. Issued(e)
          BY <2>2 DEF Started
        <4>2. Issued(x)
          BY <2>3, <4>1 DEF Issued
        <4>3. QED BY <2>2, <2>3, <4>2 DEF Started
      <3>3. /\ x.revision \in 0..Len(changes[x.connection]) /\ x.expected < x.revision
            /\ x.revision <= shown[x.connection]
        BY <2>2, <2>3 DEF Known
      <3>4. QED BY <2>6, <3>1, <3>2, <3>3 DEF Started, Issued, Known
    <2>8. /\ Adapter[c] # "github" => p = <<r>>
          /\ Adapter[c] = "github" => p[1] = i
          /\ p # NoPage
      <3>1. Adapter[c] # "github" => shown[c] = r
        BY <2>4 DEF IngestInv, TablesOK, ShownOK
      <3>2. QED BY <3>1 DEF PageRevision, SourceRevision, NoPage
    <2>9. \A j \in ItemsOf[c] \ e.todo : e.items[j] = VersionAt(c, j, r)
      <3>1. CASE e.page = NoPage
        BY <2>2, <3>1 DEF PagesRead
      <3>2. CASE e.page = p
        <4>1. PICK s \in e.revision..Len(changes[c]) :
                 /\ \A j \in ItemsOf[c] \ e.todo : e.items[j] = VersionAt(c, j, s)
                 /\ Adapter[c] # "github" => e.page = <<s>>
                 /\ Adapter[c] = "github" => \E j \in ItemsOf[c] \ e.todo : e.page[1] = j
          BY <2>2, <2>8, <3>2 DEF PagesRead
        <4>2. Adapter[c] # "github"
          BY <2>5, <2>8, <3>2, <4>1
        <4>3. s = r
          BY <2>8, <3>2, <4>1, <4>2
        <4>4. QED BY <4>1, <4>3
      <3>3. QED BY <1>3, <3>1, <3>2
    <2>10. /\ i \in ItemsOf[c] /\ ItemsOf[c] \ x.todo = (ItemsOf[c] \ e.todo) \cup {i}
           /\ x.todo \subseteq ItemsOf[c] /\ x.todo \subseteq ItemIds
      BY <2>2, <2>3, <2>5 DEF PagesRead
    <2>11. \A j \in ItemsOf[c] \ x.todo : x.items[j] = VersionAt(c, j, r)
      BY <2>4, <2>5, <2>6, <2>9, <2>10
    <2>12. \A j \in ItemIds \ (ItemsOf[c] \ x.todo) : x.items[j] = Unread
      BY <2>2, <2>6, <2>10 DEF PagesRead
    <2>13. r \in e.revision..Len(changes[c])
      BY <2>2, <2>5 DEF Known
    <2>14. i \in In(x.items)
      BY <2>5, <2>6 DEF In, Unread
    <2>15. e.todo # {i} => PagesRead(x)'
      <3>1. \A j \in ItemsOf[c] \ x.todo : x.items[j] = VersionAt(c, j, r)'
        <4>1. \A j : VersionAt(c, j, r)' = VersionAt(c, j, r)
          BY <2>1 DEF VersionAt
        <4>2. QED BY <2>11, <4>1
      <3>2. i \in ItemsOf[c] \ x.todo
        BY <2>10
      <3>3. changes' = changes /\ x.page = p /\ x.page # NoPage /\ x.connection = c
        BY <2>1, <2>3, <2>8
      <3>4. r \in x.revision..Len(changes'[c])
        BY <2>3, <2>13, <3>3
      <3>5. /\ Adapter[c] # "github" => x.page = <<r>>
            /\ Adapter[c] = "github" => \E j \in ItemsOf[c] \ x.todo : x.page[1] = j
        BY <2>8, <3>2, <3>3
      <3>6. QED BY <2>10, <2>12, <3>1, <3>3, <3>4, <3>5 DEF PagesRead
    <2>16. e.todo = {i} => WholeRead(x)'
      <3>1. ASSUME e.todo = {i} PROVE x.items = ContentAt(c, r)
        <4>1. ItemsOf[c] \ x.todo = ItemsOf[c]
          BY <2>3, <3>1
        <4>2. \A j \in ItemIds :
                 x.items[j] = IF j \in ItemsOf[c] THEN VersionAt(c, j, r) ELSE Unread
          BY <2>11, <2>12, <4>1
        <4>3. x.items = [j \in ItemIds |-> x.items[j]]
          BY <2>6 DEF Snapshots
        <4>4. QED BY <4>2, <4>3 DEF ContentAt
      <3>2. ContentAt(c, r)' = ContentAt(c, r)
        BY <2>1 DEF ContentAt, VersionAt
      <3>3. QED BY <2>1, <2>3, <2>13, <3>1, <3>2 DEF WholeRead
    <2>17. ExecOK(x)'
      <3>1. CASE e.todo = {i}
        <4>1. x.pc = "persist"
          BY <2>3, <3>1
        <4>2. QED BY <2>3, <2>7, <2>14, <2>16, <3>1, <4>1 DEF ExecOK, Reading, Writing
      <3>2. CASE e.todo # {i}
        <4>1. x.pc = "page" /\ x.todo # {} /\ x.changed = {}
          BY <2>2, <2>3, <2>5, <3>2
        <4>2. QED BY <2>3, <2>7, <2>10, <2>15, <3>2, <4>1 DEF ExecOK, Reading, Writing
      <3>3. QED BY <3>1, <3>2
    <2>18. ing'[w] = x
      BY <2>1 DEF IngestInv, ExecsOK, Set
    <2>19. QED BY <2>1, <2>3, <2>17, <2>18, OwnStep DEF HoldsFrontier, Writing
  <1>4. QED BY <1>2, <1>3

-----------------------------------------------------------------------------
(* The transaction.                                                        *)

\* Of an execution only the program counter, the loop and the frontier's version
\* change within its transaction.
SameRead(x, e) ==
    /\ DOMAIN x = Fields /\ x.cmd = e.cmd /\ x.connection = e.connection
    /\ x.changed = e.changed /\ x.expected = e.expected /\ x.revision = e.revision
    /\ x.items = e.items

\* What an execution read stays in order through its transaction.
LEMMA ReadKept ==
    ASSUME UNCHANGED <<changes, shown, db>>, NEW e, NEW x, ExecOK(e), SameRead(x, e),
           e.pc \in {"persist"} \cup Writing
    PROVE  /\ Started(x)' /\ Known(x)' /\ In(x.items) # {}
           /\ x.changed = {} => WholeRead(x)'
           /\ Published(x)' = Published(e)
           /\ cursor'[x.connection] = cursor[e.connection] /\ x.expected = e.expected
  <1>1. /\ Started(e) /\ Known(e) /\ In(e.items) # {}
        /\ e.changed = {} => WholeRead(e)
    BY DEF ExecOK, Writing
  <1>2. changes' = changes /\ cursor' = cursor /\ cycles' = cycles
    BY DEF db
  <1>3. Started(x)' /\ Known(x)'
    BY <1>1, <1>2 DEF SameRead, Started, Issued, Known
  <1>4. x.changed = {} => WholeRead(x)'
    <2>1. \A c, r : ContentAt(c, r)' = ContentAt(c, r)
      BY <1>2 DEF ContentAt, VersionAt
    <2>2. QED BY <1>1, <1>2, <2>1 DEF SameRead, WholeRead
  <1>5. Published(x)' = Published(e)
    BY <1>2 DEF Published, SameRead
  <1>6. QED BY <1>1, <1>2, <1>3, <1>4, <1>5 DEF SameRead

LEMMA WriteStep ==
    ASSUME UNCHANGED <<changes, shown, db>>, NEW e, NEW x, ExecOK(e), SameRead(x, e),
           e.pc \in {"persist"} \cup Writing, x.pc \in Writing,
           cursor[e.connection] = e.expected,
           x.pc # "append" => ~ Published(e),
           x.pc = "projections" =>
               /\ x.todo # {} /\ x.todo \subseteq ItemIds
               /\ \A i \in In(x.items) \ x.todo, j \in x.todo : i < j
    PROVE  ExecOK(x)'
  <1>1. /\ Started(x)' /\ Known(x)' /\ In(x.items) # {}
        /\ x.changed = {} => WholeRead(x)'
        /\ Published(x)' = Published(e)
        /\ cursor'[x.connection] = cursor[e.connection] /\ x.expected = e.expected
    BY ReadKept
  <1>2. DOMAIN x = Fields /\ In(x.items)' = In(x.items)
    BY DEF SameRead, In
  <1>3. x.pc \notin {"idle", "revision", "load", "fetch", "page", "persist"}
    BY DEF Writing
  <1>4. QED BY <1>1, <1>2, <1>3 DEF ExecOK

LEMMA FenceInv ==
    ASSUME IngestInv, NEW w \in Ingesters, Fence(w)
    PROVE  IngestInv'
  <1> PICK e : e = ing[w]
    OBVIOUS
  <1> PICK x : x = [e EXCEPT !.pc = "append"]
    OBVIOUS
  <1>1. ExecOK(e) /\ e.pc = "persist"
    BY DEF IngestInv, ExecsOK, Fence
  <1>2. CASE ~ CursorMatches(e)
    BY <1>2, QuitInv DEF Fence
  <1>3. CASE CursorMatches(e)
    <2>1. Set(w, x) /\ UNCHANGED <<changes, shown, db>>
      BY <1>3 DEF Fence
    <2>2. SameRead(x, e) /\ x.pc = "append"
      BY <1>1 DEF ExecOK, SameRead, Fields
    <2>3. cursor[e.connection] = e.expected
      BY <1>3 DEF CursorMatches
    <2>4. ExecOK(x)'
      BY <1>1, <2>1, <2>2, <2>3, WriteStep DEF Writing
    <2>5. \A o \in Ingesters : ~ (ing[o].pc \in Writing /\ ing[o].connection = e.connection)
      BY DEF Fence, InWrite
    <2>6. ing'[w] = x
      BY <2>1 DEF IngestInv, ExecsOK, Set
    <2>7. QED BY <2>1, <2>2, <2>4, <2>5, <2>6, OwnStep DEF SameRead, HoldsFrontier
  <1>4. QED BY <1>2, <1>3

LEMMA AppendCycleInv ==
    ASSUME IngestInv, NEW w \in Ingesters, AppendCycle(w)
    PROVE  IngestInv'
  <1> PICK e : e = ing[w]
    OBVIOUS
  <1> PICK x : x = [e EXCEPT !.pc = "projections", !.todo = In(e.items)]
    OBVIOUS
  <1>1. ExecOK(e) /\ e.pc = "append"
    BY DEF IngestInv, ExecsOK, AppendCycle
  <1>2. CASE Published(e)
    BY <1>2, QuitInv DEF AppendCycle
  <1>3. CASE ~ Published(e)
    <2>1. Set(w, x) /\ UNCHANGED <<changes, shown, db>>
      BY <1>3 DEF AppendCycle
    <2>2. SameRead(x, e) /\ x.pc = "projections" /\ x.todo = In(e.items)
      BY <1>1 DEF ExecOK, SameRead, Fields
    <2>3. cursor[e.connection] = e.expected
      BY <1>1 DEF ExecOK, Writing
    <2>4. In(e.items) \subseteq ItemIds
      BY DEF In
    <2>5. ExecOK(x)'
      <3>1. In(e.items) # {} /\ In(x.items) \ x.todo = {}
        BY <1>1, <2>2 DEF ExecOK, SameRead, Writing
      <3>2. QED BY <1>1, <1>3, <2>1, <2>2, <2>3, <2>4, <3>1, WriteStep DEF Writing
    <2>6. \A o \in Ingesters \ {w} : ~ (ing[o].pc \in Writing /\ ing[o].connection = e.connection)
      BY <1>1 DEF IngestInv, OneFence, Writing
    <2>7. ing'[w] = x
      BY <2>1 DEF IngestInv, ExecsOK, Set
    <2>8. QED BY <2>1, <2>2, <2>5, <2>6, <2>7, OwnStep DEF SameRead, HoldsFrontier
  <1>4. QED BY <1>2, <1>3

LEMMA UpsertProjectionInv ==
    ASSUME IngestInv, NEW w \in Ingesters, UpsertProjection(w)
    PROVE  IngestInv'
  <1> PICK e : e = ing[w]
    OBVIOUS
  <1> PICK i : i = Least(e.todo)
    OBVIOUS
  <1> PICK x : x = [e EXCEPT !.todo = e.todo \ {i},
                             !.pc = IF e.todo = {i} THEN "frontier" ELSE "projections"]
    OBVIOUS
  <1>1. ExecOK(e) /\ e.pc = "projections"
    BY DEF IngestInv, ExecsOK, UpsertProjection
  <1>2. Set(w, x) /\ UNCHANGED <<changes, shown, db>>
    BY DEF UpsertProjection, NextProjection
  <1>3. /\ SameRead(x, e) /\ x.pc = (IF e.todo = {i} THEN "frontier" ELSE "projections")
        /\ x.todo = e.todo \ {i}
    BY <1>1 DEF ExecOK, SameRead, Fields
  <1>4. /\ cursor[e.connection] = e.expected /\ ~ Published(e)
        /\ e.todo # {} /\ e.todo \subseteq ItemIds
        /\ \A a \in In(e.items) \ e.todo, b \in e.todo : a < b
    BY <1>1 DEF ExecOK, Writing
  <1>5. ItemIds \subseteq Nat
    BY IngestionAssumption
  <1>6. i \in e.todo /\ \A b \in e.todo : i <= b
    BY <1>4, <1>5, LeastIs
  <1>7. \A a \in In(x.items) \ x.todo, b \in x.todo : a < b
    BY <1>3, <1>4, <1>5, <1>6 DEF SameRead
  <1>8. x.todo \subseteq ItemIds /\ (x.pc = "projections" => x.todo # {})
    BY <1>3, <1>4, <1>6
  <1>9. ExecOK(x)'
    <2>1. x.pc \in Writing \ {"append"} /\ e.pc \in Writing
      BY <1>1, <1>3 DEF Writing
    <2>2. x.pc \in {"frontier", "projections"}
      BY <1>3
    <2>3. QED BY <1>1, <1>2, <1>3, <1>4, <1>7, <1>8, <2>1, <2>2, WriteStep
  <1>10. \A o \in Ingesters \ {w} : ~ (ing[o].pc \in Writing /\ ing[o].connection = e.connection)
    BY <1>1 DEF IngestInv, OneFence, Writing
  <1>11. ing'[w] = x
    BY <1>2 DEF IngestInv, ExecsOK, Set
  <1>12. ~ HoldsFrontier(w)'
    BY <1>3, <1>11 DEF HoldsFrontier
  <1>13. x.connection = e.connection
    BY <1>3 DEF SameRead
  <1>14. QED BY <1>2, <1>9, <1>10, <1>12, <1>13, OwnStep

LEMMA SelectFrontierInv ==
    ASSUME IngestInv, NEW w \in Ingesters, SelectFrontier(w)
    PROVE  IngestInv'
  <1> PICK e : e = ing[w]
    OBVIOUS
  <1> PICK x : x = [e EXCEPT !.pc = "publish", !.version = frontier.version]
    OBVIOUS
  <1>1. ExecOK(e) /\ e.pc = "frontier"
    BY DEF IngestInv, ExecsOK, SelectFrontier
  <1>2. Set(w, x) /\ UNCHANGED <<changes, shown, db>>
    BY DEF SelectFrontier
  <1>3. SameRead(x, e) /\ x.pc = "publish" /\ x.version = frontier.version
    BY <1>1 DEF ExecOK, SameRead, Fields
  <1>4. cursor[e.connection] = e.expected /\ ~ Published(e)
    BY <1>1 DEF ExecOK, Writing
  <1>5. ExecOK(x)'
    BY <1>1, <1>2, <1>3, <1>4, WriteStep DEF Writing
  <1>6. \A o \in Ingesters \ {w} : ~ (ing[o].pc \in Writing /\ ing[o].connection = e.connection)
    BY <1>1 DEF IngestInv, OneFence, Writing
  <1>7. ing'[w] = x
    BY <1>2 DEF IngestInv, ExecsOK, Set
  <1>8. \A o \in Ingesters \ {w} : ~ (HoldsFrontier(w)' /\ HoldsFrontier(o))
    BY <1>3, <1>7 DEF SelectFrontier, FrontierFree, HoldsFrontier
  <1>9. QED BY <1>2, <1>3, <1>5, <1>6, <1>7, <1>8, OwnStep DEF SameRead

LEMMA UpsertFrontierInv ==
    ASSUME IngestInv, NEW w \in Ingesters, UpsertFrontier(w)
    PROVE  IngestInv'
  <1> PICK e : e = ing[w]
    OBVIOUS
  <1> PICK x : x = [e EXCEPT !.pc = "commit"]
    OBVIOUS
  <1>1. ExecOK(e) /\ e.pc = "publish"
    BY DEF IngestInv, ExecsOK, UpsertFrontier
  <1>2. Set(w, x) /\ UNCHANGED <<changes, shown, db>>
    BY DEF UpsertFrontier
  <1>3. SameRead(x, e) /\ x.pc = "commit"
    BY <1>1 DEF ExecOK, SameRead, Fields
  <1>4. cursor[e.connection] = e.expected /\ ~ Published(e)
    BY <1>1 DEF ExecOK, Writing
  <1>5. ExecOK(x)'
    BY <1>1, <1>2, <1>3, <1>4, WriteStep DEF Writing
  <1>6. \A o \in Ingesters \ {w} : ~ (ing[o].pc \in Writing /\ ing[o].connection = e.connection)
    BY <1>1 DEF IngestInv, OneFence, Writing
  <1>7. \A o \in Ingesters \ {w} : ~ HoldsFrontier(o)
    BY DEF UpsertFrontier, FrontierFree
  <1>8. QED BY <1>2, <1>3, <1>5, <1>6, <1>7, OwnStep DEF SameRead

-----------------------------------------------------------------------------
(* The tracker changes.                                                    *)

\* History at the tracker is only added to.
Grown ==
    /\ Tracked /\ Tracked'
    /\ \A c \in Connections :
           /\ Len(changes[c]) <= Len(changes'[c])
           /\ \A n \in 1..Len(changes[c]) : changes'[c][n] = changes[c][n]

LEMMA ChangeGrows ==
    ASSUME IngestInv, NEW c \in Connections, NEW i \in ItemIds, Change(c, i)
    PROVE  Grown
  <1>1. changes' = [changes EXCEPT ![c] = Append(@, i)] /\ Tracked
    BY DEF Change, IngestInv, TablesOK
  <1>2. Tracked'
    BY <1>1 DEF Tracked
  <1>3. ASSUME NEW d \in Connections
        PROVE  /\ Len(changes[d]) <= Len(changes'[d])
               /\ \A n \in 1..Len(changes[d]) : changes'[d][n] = changes[d][n]
    <2>1. changes[d] \in Seq(ItemIds)
      BY <1>1 DEF Tracked
    <2>2. changes'[d] = IF d = c THEN Append(changes[d], i) ELSE changes[d]
      BY <1>1 DEF Tracked
    <2>3. QED BY <2>1, <2>2
  <1>4. QED BY <1>1, <1>2, <1>3 DEF Grown

LEMMA ContentStays ==
    ASSUME Grown, NEW c \in Connections, NEW r \in 0..Len(changes[c])
    PROVE  ContentAt(c, r)' = ContentAt(c, r)
  <1>1. \A i \in ItemIds : VersionAt(c, i, r)' = VersionAt(c, i, r)
    BY VersionStays DEF Grown
  <1>2. QED BY <1>1 DEF ContentAt

LEMMA ChangeInv ==
    ASSUME IngestInv, NEW c \in Connections, NEW i \in ItemIds, Change(c, i)
    PROVE  IngestInv'
  <1>1. UNCHANGED <<cursor, rows, cycles, projections, frontier, ing>>
    BY DEF Change, db
  <1>2. Grown
    BY ChangeGrows
  <1>3. \A d \in Connections : Len(changes[d]) \in Nat /\ Len(changes'[d]) \in Nat
    BY <1>2 DEF Grown, Tracked
  <1>3a. shown' \in [Connections -> Nat] /\ \A d \in Connections : shown[d] <= shown'[d] /\ ShownOK(d)'
    <2>1. shown \in [Connections -> Nat] /\ \A d \in Connections : ShownOK(d)
      BY DEF IngestInv, TablesOK
    <2>2. changes \in [Connections -> Seq(ItemIds)]
      BY <1>2 DEF Grown, Tracked
    <2>3. \A d \in Connections :
             Len(changes'[d]) = IF d = c THEN Len(changes[d]) + 1 ELSE Len(changes[d])
      BY <2>2 DEF Change
    <2>4. CASE shown' = [shown EXCEPT ![c] = Len(changes[c]) + 1]
      <3>1. \A d \in Connections :
               shown'[d] = IF d = c THEN Len(changes[d]) + 1 ELSE shown[d]
        BY <2>1, <2>4
      <3>2. QED BY <1>3, <2>1, <2>3, <2>4, <3>1 DEF ShownOK
    <2>5. CASE Adapter[c] = "github" /\ shown' = shown
      BY <1>3, <2>1, <2>3, <2>5 DEF ShownOK
    <2>6. QED BY <2>4, <2>5 DEF Change
  <1>4. TablesOK'
    <2>1. ASSUME NEW d \in Connections PROVE cursor[d] <= shown'[d]
      <3>1. cursor[d] \in Nat \cup {NoCursor} /\ cursor[d] <= shown[d]
        BY DEF IngestInv, TablesOK
      <3>2. shown[d] \in Nat /\ shown'[d] \in Nat /\ shown[d] <= shown'[d]
        BY <1>3a DEF IngestInv, TablesOK
      <3>3. QED BY <3>1, <3>2 DEF NoCursor
    <2>2. QED BY <1>1, <1>2, <1>3a, <2>1 DEF IngestInv, TablesOK, Grown
  <1>5. ExecsOK'
    <2>1. ASSUME NEW e, ExecOK(e) PROVE ExecOK(e)'
      <3>1. Started(e) => e.connection \in Connections /\ ItemsOf[e.connection] \subseteq ItemIds
        BY IssuedTypes DEF Started
      <3>2. Started(e) => Started(e)'
        BY <1>1 DEF Started
      <3>3. Started(e) /\ Known(e) => Known(e)'
        <4>1. ASSUME Started(e), Known(e) PROVE e.revision <= shown'[e.connection]
          <5>1. shown[e.connection] \in Nat /\ shown'[e.connection] \in Nat
            BY <1>3a, <3>1, <4>1 DEF IngestInv, TablesOK
          <5>2. e.revision \in Nat /\ e.revision <= shown[e.connection]
            BY <1>3, <3>1, <4>1 DEF Known
          <5>3. QED BY <1>3a, <3>1, <4>1, <5>1, <5>2
        <4>2. QED BY <1>2, <1>3, <3>1, <4>1 DEF Known, Grown
      <3>4. Started(e) /\ Known(e) /\ WholeRead(e) => WholeRead(e)'
        <4>1. ASSUME Started(e), Known(e), NEW r \in e.revision..Len(changes[e.connection])
              PROVE  /\ r \in e.revision..Len(changes'[e.connection])
                     /\ ContentAt(e.connection, r)' = ContentAt(e.connection, r)
          <5>1. r \in 0..Len(changes[e.connection])
            BY <1>3, <3>1, <4>1 DEF Known
          <5>2. r \in e.revision..Len(changes'[e.connection])
            BY <1>2, <1>3, <3>1, <4>1 DEF Known, Grown
          <5>3. QED BY <1>2, <3>1, <4>1, <5>1, <5>2, ContentStays
        <4>2. QED BY <4>1 DEF WholeRead
      <3>5. Started(e) /\ Known(e) /\ PagesRead(e) => PagesRead(e)'
        <4>1. ASSUME Started(e), Known(e), NEW r \in e.revision..Len(changes[e.connection])
              PROVE  /\ r \in e.revision..Len(changes'[e.connection])
                     /\ \A j \in ItemIds :
                            VersionAt(e.connection, j, r)' = VersionAt(e.connection, j, r)
          <5>1. r \in 0..Len(changes[e.connection])
            BY <1>3, <3>1, <4>1 DEF Known
          <5>2. r \in e.revision..Len(changes'[e.connection])
            BY <1>2, <1>3, <3>1, <4>1 DEF Known, Grown
          <5>3. QED BY <1>2, <3>1, <4>1, <5>1, <5>2, VersionStays DEF Grown
        <4>2. ASSUME Started(e), Known(e), PagesRead(e), e.page # NoPage
              PROVE  \E r \in e.revision..Len(changes'[e.connection]) :
                       /\ \A j \in ItemsOf[e.connection] \ e.todo :
                             e.items[j] = VersionAt(e.connection, j, r)'
                       /\ Adapter[e.connection] # "github" => e.page = <<r>>
                       /\ Adapter[e.connection] = "github" =>
                             \E j \in ItemsOf[e.connection] \ e.todo : e.page[1] = j
          <5>1. PICK r \in e.revision..Len(changes[e.connection]) :
                   /\ \A j \in ItemsOf[e.connection] \ e.todo :
                         e.items[j] = VersionAt(e.connection, j, r)
                   /\ Adapter[e.connection] # "github" => e.page = <<r>>
                   /\ Adapter[e.connection] = "github" =>
                         \E j \in ItemsOf[e.connection] \ e.todo : e.page[1] = j
            BY <4>2 DEF PagesRead
          <5>2. \A j \in ItemsOf[e.connection] \ e.todo :
                   e.items[j] = VersionAt(e.connection, j, r)'
            BY <3>1, <4>1, <4>2, <5>1
          <5>3. QED BY <4>1, <4>2, <5>1, <5>2
        <4>3. QED BY <4>2 DEF PagesRead
      <3>6. ~ Published(e) => ~ Published(e)'
        BY <1>1 DEF Published
      <3>7. QED BY <1>1, <2>1, <3>2, <3>3, <3>4, <3>5, <3>6 DEF ExecOK, Writing
    <2>2. QED BY <1>1, <2>1 DEF IngestInv, ExecsOK
  <1>6. FullCyclesConsistent'
    <2>1. ASSUME NEW k \in 1..Len(cycles), cycles[k].changed = {},
                 NEW d, d = cycles[k].connection
          PROVE  \E r \in cycles[k].revision..Len(changes'[d]) :
                     cycles[k].snapshot = ContentAt(d, r)'
      <3>1. d = cycles[k].connection
        BY <2>1
      <3>2. d \in Connections /\ cycles[k].revision \in Nat
        <4>1. cycles[k] \in DecisionCycle
          BY DEF IngestInv, TablesOK
        <4>2. QED BY <3>1, <4>1 DEF DecisionCycle
      <3>3. PICK r \in cycles[k].revision..Len(changes[d]) : cycles[k].snapshot = ContentAt(d, r)
        BY <2>1, <3>1 DEF IngestInv, FullCyclesConsistent
      <3>4. r \in 0..Len(changes[d]) /\ r \in cycles[k].revision..Len(changes'[d])
        BY <1>2, <1>3, <3>2, <3>3 DEF Grown
      <3>5. ContentAt(d, r)' = ContentAt(d, r)
        BY <1>2, <3>2, <3>4, ContentStays
      <3>6. QED BY <3>1, <3>3, <3>4, <3>5
    <2>2. cycles' = cycles
      BY <1>1
    <2>3. QED BY <2>1, <2>2 DEF FullCyclesConsistent
  <1>7. CyclesChain' /\ ProjectionsDerive'
    <2>1. CyclesChain'
      BY <1>1, ChainStays DEF IngestInv
    <2>2. ProjectionsDerive'
      BY <1>1, ProjectionsStay DEF IngestInv
    <2>3. QED BY <2>1, <2>2
  <1>8. OneFence' /\ OneFrontier'
    BY <1>1 DEF IngestInv, OneFence, OneFrontier, HoldsFrontier
  <1>9. QED BY <1>4, <1>5, <1>6, <1>7, <1>8 DEF IngestInv

-----------------------------------------------------------------------------
(* A cycle is committed.                                                   *)

\* What Commit does, connection by connection.
LEMMA CommitEffect ==
    ASSUME IngestInv, NEW w \in Ingesters, Commit(w), NEW e, e = ing[w],
           NEW c, c = e.connection, NEW n, n = Len(cycles) + 1
    PROVE  /\ ExecOK(e) /\ e.pc = "commit" /\ Started(e) /\ Known(e) /\ In(e.items) # {}
           /\ e.changed = {} => WholeRead(e)
           /\ cursor[c] = e.expected /\ ~ Published(e) /\ Issued(e)
           /\ c \in Connections /\ n \in Nat /\ Len(cycles) \in Nat
           /\ changes' = changes /\ cursor' = [cursor EXCEPT ![c] = e.revision]
           /\ Cycle(e) \in DecisionCycle
           /\ cycles' \in Seq(DecisionCycle) /\ Len(cycles') = n
           /\ cycles'[n] = Cycle(e) /\ \A k \in 1..Len(cycles) : cycles'[k] = cycles[k]
           /\ ing' = [ing EXCEPT ![w] = Idle]
           /\ \A d \in Connections \ {c} : CyclesOf(d)' = CyclesOf(d)
           /\ CyclesOf(c)' = CyclesOf(c) \cup {n}
           /\ \A d \in Connections : CyclesOf(d) \subseteq 1..Len(cycles)
  <1>1. ExecOK(e) /\ e.pc = "commit"
    BY DEF IngestInv, ExecsOK, Commit
  <1>2. /\ Started(e) /\ Known(e) /\ In(e.items) # {} /\ (e.changed = {} => WholeRead(e))
        /\ cursor[c] = e.expected /\ ~ Published(e)
    BY <1>1 DEF ExecOK, Writing
  <1>3. Issued(e) /\ c \in Connections /\ e.cmd \in Nat \ {0} /\ e.changed \subseteq ItemIds
    BY <1>2, IssuedTypes DEF Started
  <1>4. Len(changes[c]) \in Nat
    BY <1>3 DEF IngestInv, TablesOK, Tracked
  <1>5. e.revision \in Nat /\ e.expected \in Nat \cup {NoCursor} /\ e.items \in Snapshots
    BY <1>2, <1>4 DEF Known, Started
  <1>6. Cycle(e) \in DecisionCycle
    BY <1>3, <1>5 DEF Cycle, DecisionCycle
  <1>7. cycles \in Seq(DecisionCycle) /\ cycles' = Append(cycles, Cycle(e))
    BY DEF Commit, IngestInv, TablesOK
  <1>8. /\ Len(cycles) \in Nat /\ n \in Nat /\ cycles' \in Seq(DecisionCycle)
        /\ Len(cycles') = n /\ cycles'[n] = Cycle(e)
        /\ \A k \in 1..Len(cycles) : cycles'[k] = cycles[k]
    BY <1>6, <1>7
  <1>9. 1..Len(cycles') = (1..Len(cycles)) \cup {n} /\ n \notin 1..Len(cycles)
    BY <1>8
  <1>10. cycles'[n].connection = c
    BY <1>8 DEF Cycle
  <1>11. \A d \in Connections :
            CyclesOf(d)' = IF d = c THEN CyclesOf(d) \cup {n} ELSE CyclesOf(d)
    BY <1>8, <1>9, <1>10 DEF CyclesOf
  <1>12. \A d \in Connections : CyclesOf(d) \subseteq 1..Len(cycles)
    BY DEF CyclesOf
  <1>13. /\ changes' = changes /\ cursor' = [cursor EXCEPT ![c] = e.revision]
         /\ ing' = [ing EXCEPT ![w] = Idle]
    BY DEF Commit, Set
  <1>14. QED BY <1>1, <1>2, <1>3, <1>6, <1>8, <1>11, <1>12, <1>13

\* The new cycle follows the latest of its connection; nothing else moves.
LEMMA CommitLinks ==
    ASSUME IngestInv, NEW w \in Ingesters, Commit(w),
           NEW c, c = ing[w].connection, NEW n, n = Len(cycles) + 1
    PROVE  /\ Greatest(CyclesOf(c)') = n
           /\ \A d \in Connections : CyclesOf(d) # {} => Greatest(CyclesOf(d)) \in CyclesOf(d)
           /\ \A d \in Connections : \A k, l \in CyclesOf(d)' : Consecutive(k, l, d)' =>
                 \/ k \in CyclesOf(d) /\ l \in CyclesOf(d) /\ Consecutive(k, l, d)
                 \/ d = c /\ l = n /\ k \in CyclesOf(d) /\ k = Greatest(CyclesOf(d))
  <1>1. /\ c \in Connections /\ n \in Nat /\ Len(cycles) \in Nat
        /\ \A d \in Connections \ {c} : CyclesOf(d)' = CyclesOf(d)
        /\ CyclesOf(c)' = CyclesOf(c) \cup {n}
        /\ \A d \in Connections : CyclesOf(d) \subseteq 1..Len(cycles)
    BY CommitEffect, SMTT(30)
  <1>2. Greatest(CyclesOf(c)') = n
    <2>1. PICK S : S = CyclesOf(c)'
      OBVIOUS
    <2>2. S \in SUBSET Int /\ n \in S /\ \A j \in S : j <= n
      BY <1>1, <2>1
    <2>3. Greatest(S) = n
      BY <2>2, GreatestIs
    <2>4. QED BY <2>1, <2>3
  <1>3. ASSUME NEW d \in Connections, CyclesOf(d) # {}
        PROVE  Greatest(CyclesOf(d)) \in CyclesOf(d)
    <2>1. CyclesOf(d) \in SUBSET (0..Len(cycles))
      BY <1>1
    <2>2. QED BY <1>1, <1>3, <2>1, GreatestExists
  <1>4. ASSUME NEW d \in Connections, NEW k \in CyclesOf(d)', NEW l \in CyclesOf(d)',
               Consecutive(k, l, d)'
        PROVE  \/ k \in CyclesOf(d) /\ l \in CyclesOf(d) /\ Consecutive(k, l, d)
               \/ d = c /\ l = n /\ k \in CyclesOf(d) /\ k = Greatest(CyclesOf(d))
    <2>1. /\ k < l /\ \A m \in CyclesOf(d)' : m <= k \/ l <= m
          /\ CyclesOf(d) \subseteq CyclesOf(d)' /\ CyclesOf(d) \subseteq 1..Len(cycles)
      BY <1>1, <1>4 DEF Consecutive
    <2>2. CASE l \in CyclesOf(d)
      <3>1. k \in CyclesOf(d)
        BY <1>1, <2>1, <2>2
      <3>2. QED BY <2>1, <2>2, <3>1 DEF Consecutive
    <2>3. CASE l \notin CyclesOf(d)
      <3>1. d = c /\ l = n
        BY <1>1, <2>3
      <3>2. k \in CyclesOf(d) /\ \A m \in CyclesOf(d) : m <= k
        BY <1>1, <2>1, <3>1
      <3>3. CyclesOf(d) \in SUBSET Int
        BY <1>1
      <3>4. k = Greatest(CyclesOf(d))
        BY <3>2, <3>3, GreatestIs
      <3>5. QED BY <3>1, <3>2, <3>4
    <2>4. QED BY <2>2, <2>3
  <1>5. QED BY <1>2, <1>3, <1>4

\* The new cycle is the last link of its connection's chain.
LEMMA CommitChains ==
    ASSUME IngestInv, NEW w \in Ingesters, Commit(w)
    PROVE  CyclesChain'
  <1> PICK e : e = ing[w]
    OBVIOUS
  <1> PICK c : c = e.connection
    OBVIOUS
  <1> PICK n : n = Len(cycles) + 1
    OBVIOUS
  <1>1a. /\ Known(e) /\ cursor[c] = e.expected /\ c \in Connections
         /\ cursor' = [cursor EXCEPT ![c] = e.revision]
    BY CommitEffect, SMTT(30)
  <1>1c. /\ n \in Nat /\ Len(cycles) \in Nat
         /\ cycles'[n] = Cycle(e) /\ \A k \in 1..Len(cycles) : cycles'[k] = cycles[k]
    BY CommitEffect, SMTT(30)
  <1>1b. /\ n \in Nat
         /\ \A d \in Connections \ {c} : CyclesOf(d)' = CyclesOf(d)
         /\ CyclesOf(c)' = CyclesOf(c) \cup {n}
         /\ \A d \in Connections : CyclesOf(d) \subseteq 1..Len(cycles)
    BY CommitEffect, SMTT(30)
  <1>1. /\ Known(e) /\ cursor[c] = e.expected
        /\ c \in Connections /\ n \in Nat /\ Len(cycles) \in Nat
        /\ cursor' = [cursor EXCEPT ![c] = e.revision]
        /\ cycles'[n] = Cycle(e) /\ \A k \in 1..Len(cycles) : cycles'[k] = cycles[k]
        /\ \A d \in Connections \ {c} : CyclesOf(d)' = CyclesOf(d)
        /\ CyclesOf(c)' = CyclesOf(c) \cup {n}
        /\ \A d \in Connections : CyclesOf(d) \subseteq 1..Len(cycles)
    BY <1>1a, <1>1b, <1>1c
  <1>2. /\ cycles'[n].expected = e.expected /\ cycles'[n].revision = e.revision
        /\ e.expected < e.revision
    BY <1>1 DEF Cycle, Known
  <1>3. /\ cursor'[c] = e.revision
        /\ \A d \in Connections \ {c} : cursor'[d] = cursor[d]
    BY <1>1 DEF IngestInv, TablesOK
  <1>4. /\ Greatest(CyclesOf(c)') = n
        /\ \A d \in Connections : CyclesOf(d) # {} => Greatest(CyclesOf(d)) \in CyclesOf(d)
        /\ \A d \in Connections : \A k, l \in CyclesOf(d)' : Consecutive(k, l, d)' =>
              \/ k \in CyclesOf(d) /\ l \in CyclesOf(d) /\ Consecutive(k, l, d)
              \/ d = c /\ l = n /\ k \in CyclesOf(d) /\ k = Greatest(CyclesOf(d))
    BY CommitLinks
  <1>5. ASSUME NEW d \in Connections
        PROVE  /\ \A k, l \in CyclesOf(d)' :
                     Consecutive(k, l, d)' => cycles'[l].expected = cycles'[k].revision
               /\ \A k \in CyclesOf(d)' : cycles'[k].expected < cycles'[k].revision
               /\ cursor'[d] = IF CyclesOf(d)' = {} THEN NoCursor
                               ELSE cycles'[Greatest(CyclesOf(d)')].revision
    <2>1. /\ \A k, l \in CyclesOf(d) : Consecutive(k, l, d) => cycles[l].expected = cycles[k].revision
          /\ \A k \in CyclesOf(d) : cycles[k].expected < cycles[k].revision
          /\ cursor[d] = IF CyclesOf(d) = {} THEN NoCursor
                         ELSE cycles[Greatest(CyclesOf(d))].revision
      BY DEF IngestInv, CyclesChain
    <2>2. \A k \in CyclesOf(d) : cycles'[k] = cycles[k]
      BY <1>1
    <2>3. ASSUME NEW k \in CyclesOf(d)', NEW l \in CyclesOf(d)', Consecutive(k, l, d)'
          PROVE  cycles'[l].expected = cycles'[k].revision
      <3>1. CASE k \in CyclesOf(d) /\ l \in CyclesOf(d) /\ Consecutive(k, l, d)
        BY <2>1, <2>2, <3>1
      <3>2. CASE d = c /\ l = n /\ k \in CyclesOf(d) /\ k = Greatest(CyclesOf(d))
        BY <1>1, <1>2, <2>1, <2>2, <3>2
      <3>3. QED BY <1>4, <2>3, <3>1, <3>2
    <2>4. \A k \in CyclesOf(d)' : cycles'[k].expected < cycles'[k].revision
      BY <1>1, <1>2, <2>1, <2>2
    <2>5. cursor'[d] = IF CyclesOf(d)' = {} THEN NoCursor
                       ELSE cycles'[Greatest(CyclesOf(d)')].revision
      <3>1. CASE d = c
        BY <1>1, <1>2, <1>3, <1>4, <3>1
      <3>2. CASE d # c
        BY <1>1, <1>3, <1>4, <2>1, <2>2, <3>2
      <3>3. QED BY <3>1, <3>2
    <2>6. QED BY <2>3, <2>4, <2>5
  <1>6. QED BY <1>5 DEF CyclesChain

\* A stored version joins the sequence of its item, or is there already.
LEMMA StoreTypes ==
    ASSUME NEW c \in Connections, NEW stored \in Seq(StoredRow), NEW i \in ItemIds, NEW v \in Nat
    PROVE  StoreVersion(c, stored, i, v) \in Seq(StoredRow)
  <1>1. i \in Nat
    BY IngestionAssumption
  <1>2. ItemRevision(c, i, v) \in Seq(Nat)
    BY <1>1 DEF ItemRevision
  <1>3. [revision |-> ItemRevision(c, i, v), version |-> v] \in StoredRow
    BY <1>2 DEF StoredRow
  <1>4. QED BY <1>3 DEF StoreVersion

LEMMA CommitTables ==
    ASSUME IngestInv, NEW w \in Ingesters, Commit(w)
    PROVE  TablesOK'
  <1> PICK e : e = ing[w]
    OBVIOUS
  <1> PICK c : c = e.connection
    OBVIOUS
  <1> PICK n : n = Len(cycles) + 1
    OBVIOUS
  <1>1. /\ Started(e) /\ Known(e) /\ c \in Connections
        /\ changes' = changes /\ cursor' = [cursor EXCEPT ![c] = e.revision]
        /\ cycles' \in Seq(DecisionCycle)
    BY CommitEffect, SMTT(30)
  <1>1a. shown' = shown
    BY DEF Commit
  <1>2. TablesOK
    BY DEF IngestInv
  <1>3. Tracked'
    BY <1>1, <1>2 DEF TablesOK, Tracked
  <1>4. e.revision \in Nat /\ e.revision <= Len(changes[c])
    <2>1. Len(changes[c]) \in Nat
      BY <1>1, <1>2 DEF TablesOK, Tracked
    <2>2. QED BY <1>1, <2>1 DEF Known
  <1>5. /\ cursor' \in [Connections -> Nat \cup {NoCursor}]
        /\ \A d \in Connections : cursor'[d] <= shown'[d]
    <2>1. e.revision <= shown[c]
      BY <1>1 DEF Known
    <2>2. QED BY <1>1, <1>2, <1>4, <1>1a, <2>1 DEF TablesOK
  <1>6. rows' \in [Connections -> [ItemIds -> Seq(StoredRow)]]
    <2>1. rows' = [rows EXCEPT ![c] =
                     [i \in ItemIds |-> IF i \in In(e.items)
                                        THEN StoreVersion(c, rows[c][i], i, e.items[i])
                                        ELSE rows[c][i]]]
      BY DEF Commit
    <2>2. ASSUME NEW i \in In(e.items)
          PROVE  StoreVersion(c, rows[c][i], i, e.items[i]) \in Seq(StoredRow)
      <3>1. i \in ItemIds /\ e.items[i] \in Nat /\ rows[c][i] \in Seq(StoredRow)
        BY <1>1, <1>2 DEF In, Started, Snapshots, TablesOK
      <3>2. QED BY <1>1, <3>1, StoreTypes
    <2>3. [i \in ItemIds |-> IF i \in In(e.items)
                             THEN StoreVersion(c, rows[c][i], i, e.items[i])
                             ELSE rows[c][i]] \in [ItemIds -> Seq(StoredRow)]
      BY <1>1, <1>2, <2>2 DEF TablesOK
    <2>4. QED BY <1>2, <2>1, <2>3 DEF TablesOK
  <1>7. projections' \in [ItemIds -> Nat]
    <2>1. e.cmd \in Nat
      BY <1>1, IssuedTypes DEF Started
    <2>2. projections' = [i \in ItemIds |-> IF i \in In(e.items) THEN e.cmd ELSE projections[i]]
      BY DEF Commit
    <2>3. QED BY <1>2, <2>1, <2>2 DEF TablesOK
  <1>7a. shown' \in [Connections -> Nat] /\ \A d \in Connections : ShownOK(d)'
    BY <1>1, <1>2, <1>1a DEF TablesOK, ShownOK
  <1>8. QED BY <1>1, <1>3, <1>5, <1>6, <1>7, <1>7a DEF TablesOK

\* Others go on: whoever is past the fence is there for another connection, and
\* nobody runs the committed command there.
LEMMA CommitExecs ==
    ASSUME IngestInv, NEW w \in Ingesters, Commit(w)
    PROVE  ExecsOK' /\ OneFence' /\ OneFrontier'
  <1> PICK e : e = ing[w]
    OBVIOUS
  <1> PICK c : c = e.connection
    OBVIOUS
  <1> PICK n : n = Len(cycles) + 1
    OBVIOUS
  <1>1. /\ e.pc = "commit" /\ Started(e) /\ Known(e) /\ Issued(e) /\ c \in Connections
        /\ cursor[c] = e.expected /\ n \in Nat /\ Len(cycles) \in Nat
        /\ changes' = changes /\ cursor' = [cursor EXCEPT ![c] = e.revision]
        /\ Len(cycles') = n /\ cycles'[n] = Cycle(e)
        /\ \A k \in 1..Len(cycles) : cycles'[k] = cycles[k]
        /\ ing' = [ing EXCEPT ![w] = Idle]
    BY CommitEffect, SMTT(30)
  <1>2. /\ DOMAIN ing' = Ingesters /\ ing'[w] = Idle
        /\ \A o \in Ingesters \ {w} : ing'[o] = ing[o]
    BY <1>1 DEF IngestInv, ExecsOK
  <1>3. /\ cursor'[c] = e.revision /\ cursor[c] < cursor'[c]
        /\ \A d \in Connections \ {c} : cursor'[d] = cursor[d]
    BY <1>1 DEF IngestInv, TablesOK, Known
  <1>4. ExecOK(Idle)'
    BY DEF ExecOK, Idle, Fields, Reading, Writing
  <1>5. ASSUME NEW o \in Ingesters \ {w}, NEW x, x = ing[o]
        PROVE  ExecOK(x)'
    <2>1. ExecOK(x)
      BY <1>5 DEF IngestInv, ExecsOK
    <2>2. x.pc \in Writing => x.connection # c
      BY <1>1, <1>5 DEF IngestInv, OneFence, Writing
    <2>3. Started(x) => Started(x)'
      <3>1. ASSUME Started(x) PROVE x.expected <= cursor'[x.connection]
        <4>1. x.connection \in Connections
          BY <3>1, IssuedTypes DEF Started
        <4>2. /\ cursor[x.connection] \in Nat \cup {NoCursor}
              /\ cursor'[x.connection] \in Nat \cup {NoCursor}
          BY <4>1, CommitTables DEF IngestInv, TablesOK
        <4>3. x.expected \in Nat \cup {NoCursor} /\ x.expected <= cursor[x.connection]
          BY <3>1 DEF Started
        <4>4. QED BY <1>3, <4>1, <4>2, <4>3 DEF NoCursor
      <3>2. QED BY <3>1 DEF Started, Issued
    <2>4. Known(x) => Known(x)'
      <3>1. shown' = shown
        BY DEF Commit
      <3>2. QED BY <1>1, <3>1 DEF Known
    <2>5. PagesRead(x) => PagesRead(x)'
      <3>1. \A d, i, r : VersionAt(d, i, r)' = VersionAt(d, i, r)
        BY <1>1 DEF VersionAt
      <3>2. QED BY <1>1, <3>1 DEF PagesRead
    <2>6. WholeRead(x) => WholeRead(x)'
      <3>1. \A d, r : ContentAt(d, r)' = ContentAt(d, r)
        BY <1>1 DEF ContentAt, VersionAt
      <3>2. QED BY <1>1, <3>1 DEF WholeRead
    <2>7. x.pc \in Writing => cursor'[x.connection] = cursor[x.connection]
      <3>1. ASSUME x.pc \in Writing PROVE x.connection \in Connections
        <4>1. Started(x)
          BY <2>1, <3>1 DEF ExecOK, Writing
        <4>2. QED BY <4>1, IssuedTypes DEF Started
      <3>2. QED BY <1>3, <2>2, <3>1
    <2>8. x.pc \in Writing /\ ~ Published(x) => ~ Published(x)'
      <3>1. ASSUME x.pc \in Writing, ~ Published(x) PROVE ~ Published(x)'
        <4>1. Started(x)
          BY <2>1, <3>1 DEF ExecOK, Writing
        <4>2. x.cmd # e.cmd
          BY <1>1, <2>2, <3>1, <4>1, IngestionAssumption DEF Started, Issued
        <4>3. \A k \in 1..Len(cycles) : cycles[k].id # x.cmd
          BY <3>1 DEF Published
        <4>4. cycles'[n].id = e.cmd
          BY <1>1 DEF Cycle
        <4>5. \A k \in 1..n : k \in 1..Len(cycles) \/ k = n
          BY <1>1
        <4>6. \A k \in 1..Len(cycles') : cycles'[k].id # x.cmd
          BY <1>1, <4>2, <4>3, <4>4, <4>5
        <4>7. QED BY <4>6 DEF Published
      <3>2. QED BY <3>1
    <2>9. In(x.items)' = In(x.items)
      BY DEF In
    <2>10. QED BY <2>1, <2>3, <2>4, <2>5, <2>6, <2>7, <2>8, <2>9 DEF ExecOK
  <1>6. ExecsOK'
    <2>1. ASSUME NEW o \in Ingesters \ {w} PROVE ExecOK(ing[o])'
      <3>1. PICK x : x = ing[o]
        OBVIOUS
      <3>2. ExecOK(x)'
        BY <1>5, <3>1
      <3>3. QED BY <1>2, <3>1, <3>2
    <2>2. QED BY <1>2, <1>4, <2>1 DEF ExecsOK
  <1>7. Idle.pc \notin Writing /\ Idle.pc \notin {"publish", "commit"}
    BY DEF Idle, Writing
  <1>8. OneFence'
    BY <1>2, <1>7 DEF IngestInv, OneFence
  <1>9. OneFrontier'
    BY <1>2, <1>7 DEF IngestInv, OneFrontier, HoldsFrontier
  <1>10. QED BY <1>6, <1>8, <1>9

\* The committed cycle was read whole, and its items' projections derive from it.
LEMMA CommitContents ==
    ASSUME IngestInv, NEW w \in Ingesters, Commit(w)
    PROVE  FullCyclesConsistent' /\ ProjectionsDerive'
  <1> PICK e : e = ing[w]
    OBVIOUS
  <1> PICK c : c = e.connection
    OBVIOUS
  <1> PICK n : n = Len(cycles) + 1
    OBVIOUS
  <1>1. /\ e.changed = {} => WholeRead(e)
        /\ n \in Nat /\ Len(cycles) \in Nat /\ ~ Published(e)
        /\ changes' = changes /\ Len(cycles') = n /\ cycles'[n] = Cycle(e)
        /\ \A k \in 1..Len(cycles) : cycles'[k] = cycles[k]
    BY CommitEffect, SMTT(30)
  <1>2. 1..Len(cycles') = (1..Len(cycles)) \cup {n} /\ n \notin 1..Len(cycles)
    BY <1>1
  <1>3. \A d, r : ContentAt(d, r)' = ContentAt(d, r)
    BY <1>1 DEF ContentAt, VersionAt
  <1>4. /\ cycles'[n].id = e.cmd /\ cycles'[n].connection = e.connection
        /\ cycles'[n].changed = e.changed /\ cycles'[n].revision = e.revision
        /\ cycles'[n].snapshot = e.items
    BY <1>1 DEF Cycle
  <1>5. FullCyclesConsistent'
    <2>1. ASSUME NEW k \in 1..Len(cycles'), cycles'[k].changed = {},
                 NEW d, d = cycles'[k].connection
          PROVE  \E r \in cycles'[k].revision..Len(changes'[d]) :
                     cycles'[k].snapshot = ContentAt(d, r)'
      <3>1. CASE k = n
        BY <1>1, <1>3, <1>4, <2>1, <3>1 DEF WholeRead
      <3>2. CASE k \in 1..Len(cycles)
        BY <1>1, <1>3, <2>1, <3>2 DEF IngestInv, FullCyclesConsistent
      <3>3. QED BY <1>2, <3>1, <3>2
    <2>2. QED BY <2>1 DEF FullCyclesConsistent
  <1>6. \A k, l \in 1..Len(cycles') : cycles'[k].id = cycles'[l].id => k = l
    <2>1. \A k, l \in 1..Len(cycles) : cycles[k].id = cycles[l].id => k = l
      BY DEF IngestInv, ProjectionsDerive
    <2>2. \A k \in 1..Len(cycles) : cycles[k].id # e.cmd
      BY <1>1 DEF Published
    <2>3. QED BY <1>1, <1>2, <1>4, <2>1, <2>2
  <1>7. ASSUME NEW i \in ItemIds,
               NEW D, D = {k \in 1..Len(cycles') : i \in In(cycles'[k].snapshot)}
        PROVE  projections'[i] = IF D = {} THEN 0 ELSE cycles'[Greatest(D)].id
    <2>1. PICK B : B = {k \in 1..Len(cycles) : i \in In(cycles[k].snapshot)}
      OBVIOUS
    <2>2. projections'[i] = IF i \in In(e.items) THEN e.cmd ELSE projections[i]
      BY DEF Commit
    <2>3. projections[i] = IF B = {} THEN 0 ELSE cycles[Greatest(B)].id
      BY <2>1 DEF IngestInv, ProjectionsDerive
    <2>4. CASE i \in In(e.items)
      <3>1. n \in D /\ D \in SUBSET Int /\ \A j \in D : j <= n
        BY <1>1, <1>2, <1>4, <1>7, <2>4
      <3>2. Greatest(D) = n
        BY <3>1, GreatestIs
      <3>3. QED BY <1>4, <2>2, <2>4, <3>1, <3>2
    <2>5. CASE i \notin In(e.items)
      <3>1. D = B
        BY <1>1, <1>2, <1>4, <1>7, <2>1, <2>5
      <3>2. B # {} => Greatest(B) \in 1..Len(cycles)
        <4>1. B \in SUBSET (0..Len(cycles)) /\ B \subseteq 1..Len(cycles)
          BY <2>1
        <4>2. QED BY <1>1, <4>1, GreatestExists
      <3>3. QED BY <1>1, <2>2, <2>3, <2>5, <3>1, <3>2
    <2>6. QED BY <2>4, <2>5
  <1>8. ProjectionsDerive'
    BY <1>6, <1>7 DEF ProjectionsDerive
  <1>9. QED BY <1>5, <1>8

-----------------------------------------------------------------------------
(* All steps.                                                              *)

LEMMA InitInv == Init => IngestInv
  <1> SUFFICES ASSUME Init PROVE IngestInv
    OBVIOUS
  <1>1. /\ cycles = << >> /\ Len(cycles) = 0 /\ cycles \in Seq(DecisionCycle)
        /\ \A k : k \notin 1..Len(cycles)
    BY DEF Init
  <1>2. TablesOK
    BY <1>1 DEF Init, TablesOK, Tracked, ShownOK, NoCursor
  <1>3. \A w \in Ingesters : ing[w] = Idle /\ ing[w].pc = "idle" /\ DOMAIN Idle = Fields
    BY DEF Init, Idle, Fields
  <1>4. ExecsOK
    BY <1>3 DEF Init, ExecsOK, ExecOK, Reading, Writing
  <1>5. OneFence /\ OneFrontier
    BY <1>3 DEF OneFence, OneFrontier, HoldsFrontier, Writing
  <1>6. CyclesChain
    BY <1>1 DEF Init, CyclesChain, CyclesOf
  <1>7. FullCyclesConsistent
    BY <1>1 DEF FullCyclesConsistent
  <1>8. ProjectionsDerive
    <2>1. \A i \in ItemIds : {k \in 1..Len(cycles) : i \in In(cycles[k].snapshot)} = {}
      BY <1>1
    <2>2. QED BY <1>1, <2>1 DEF Init, ProjectionsDerive
  <1>9. QED BY <1>2, <1>4, <1>5, <1>6, <1>7, <1>8 DEF IngestInv

LEMMA StutterInv == IngestInv /\ UNCHANGED vars => IngestInv'
  <1> SUFFICES ASSUME IngestInv, UNCHANGED vars PROVE IngestInv'
    OBVIOUS
  <1>1. UNCHANGED <<changes, shown, cursor, rows, cycles, projections, frontier, ing>>
    BY DEF vars
  <1>2. ExecsOK'
    <2>1. ASSUME NEW o \in Ingesters PROVE ExecOK(ing[o])'
      <3>1. PICK e : e = ing[o]
        OBVIOUS
      <3>2. ExecOK(e)'
        BY <1>1, <3>1, StandStill DEF IngestInv, ExecsOK
      <3>3. QED BY <1>1, <3>1, <3>2
    <2>2. QED BY <1>1, <2>1 DEF IngestInv, ExecsOK
  <1>3. TablesOK' /\ OneFence' /\ OneFrontier'
    BY <1>1 DEF IngestInv, TablesOK, Tracked, ShownOK, OneFence, OneFrontier, HoldsFrontier
  <1>4. CyclesChain'
    BY <1>1, ChainStays DEF IngestInv
  <1>5. FullCyclesConsistent'
    <2>1. \A d, r : ContentAt(d, r)' = ContentAt(d, r)
      BY <1>1 DEF ContentAt, VersionAt
    <2>2. QED BY <1>1, <2>1 DEF IngestInv, FullCyclesConsistent
  <1>6. ProjectionsDerive'
    BY <1>1, ProjectionsStay DEF IngestInv
  <1>7. QED BY <1>2, <1>3, <1>4, <1>5, <1>6 DEF IngestInv

LEMMA NextInv == IngestInv /\ [Next]_vars => IngestInv'
  <1> SUFFICES ASSUME IngestInv, [Next]_vars PROVE IngestInv'
    OBVIOUS
  <1>1. ASSUME NEW c \in Connections, NEW i \in ItemIds, Change(c, i) PROVE IngestInv'
    BY <1>1, ChangeInv
  <1>2. ASSUME NEW w \in Ingesters, NEW m \in Commands, Begin(w, m) PROVE IngestInv'
    BY <1>2, BeginInv
  <1>3. ASSUME NEW w \in Ingesters, Step(w) PROVE IngestInv'
    <2>1. CASE Commit(w)
      BY <2>1, CommitTables, CommitExecs, CommitChains, CommitContents DEF IngestInv
    <2>2. QED BY <1>3, <2>1, ReadRevisionInv, LoadItemsInv, FetchItemInv, ReadPageInv, FenceInv,
                 AppendCycleInv, UpsertProjectionInv, SelectFrontierInv, UpsertFrontierInv DEF Step
  <1>4. ASSUME NEW w \in Ingesters, Abort(w) PROVE IngestInv'
    BY <1>4, QuitInv DEF Abort
  <1>5. CASE UNCHANGED vars
    BY <1>5, StutterInv
  <1>6. QED BY <1>1, <1>2, <1>3, <1>4, <1>5 DEF Next

\* ingest_connection and persist, executed concurrently, repeatedly and with
\* failures anywhere: what executions read and hold, and what is stored.
THEOREM IngestInvariant == Spec => []IngestInv
  <1>1. QED BY InitInv, NextInv, PTL DEF Spec

\* _fence_source_cursor: committed cycles of a connection form one chain over
\* strictly growing source revisions, whatever executions overlap.
THEOREM CyclesFormChains == Spec => []CyclesChain
  <1>1. IngestInv => CyclesChain
    BY DEF IngestInv
  <1>2. QED BY <1>1, IngestInvariant, PTL

\* A full ingestion that commits read the tracker of one moment, although it read
\* it page by page.
THEOREM FullCyclesAreMoments == Spec => []FullCyclesConsistent
  <1>1. IngestInv => FullCyclesConsistent
    BY DEF IngestInv
  <1>2. QED BY <1>1, IngestInvariant, PTL

\* _replace_projections and the frontier upsert: row locks are taken in one order,
\* so no two transactions wait for each other.
THEOREM LocksOrdered == Spec => []NoLockCycle
  <1>1. ASSUME IngestInv, NEW w \in Ingesters, NEW o \in Ingesters \ {w},
               WaitsFor(w, o), WaitsFor(o, w)
        PROVE  FALSE
    <2>1. ~ (HoldsFrontier(w) /\ HoldsFrontier(o))
      BY <1>1 DEF IngestInv, OneFrontier
    <2>2. \A u \in Ingesters : ing[u].pc = "projections" =>
             /\ Least(ing[u].todo) \in ing[u].todo
             /\ \A i \in In(ing[u].items) \ ing[u].todo, j \in ing[u].todo : i < j
             /\ ing[u].todo \subseteq Nat
      <3>1. ASSUME NEW u \in Ingesters, ing[u].pc = "projections"
            PROVE  /\ ing[u].todo # {} /\ ing[u].todo \in SUBSET Nat
                   /\ \A i \in In(ing[u].items) \ ing[u].todo, j \in ing[u].todo : i < j
        BY <1>1, <3>1, IngestionAssumption DEF IngestInv, ExecsOK, ExecOK
      <3>2. QED BY <3>1, LeastIs
    <2>3. ing[w].pc = "projections" /\ ing[o].pc = "projections"
      BY <1>1, <2>1 DEF WaitsFor, InWrite, HoldsProjection, HoldsFrontier, Writing
    <2>4. /\ Least(ing[w].todo) \in In(ing[o].items) \ ing[o].todo
          /\ Least(ing[o].todo) \in In(ing[w].items) \ ing[w].todo
      BY <1>1, <2>3 DEF WaitsFor, HoldsProjection, NextProjection
    <2>5. Least(ing[w].todo) < Least(ing[o].todo) /\ Least(ing[o].todo) < Least(ing[w].todo)
      BY <1>1, <2>2, <2>3, <2>4
    <2>6. Least(ing[w].todo) \in Nat /\ Least(ing[o].todo) \in Nat
      BY <1>1, <2>2, <2>3
    <2>7. QED BY <2>5, <2>6
  <1>2. IngestInv => NoLockCycle
    BY <1>1 DEF NoLockCycle
  <1>3. QED BY <1>2, IngestInvariant, PTL

-----------------------------------------------------------------------------
(* What is stored and decided never regresses, where every version of an   *)
(* item has a revision of its own.                                         *)

OwnRevisions == \A c \in Connections : Adapter[c] # "github"

\* A stored version is identified by its number, is not newer than the last one
\* stored, and the last one is not newer than the tracker.
StoreOK ==
    \A c \in Connections, i \in ItemIds :
        /\ \A k \in 1..Len(rows[c][i]) :
               /\ rows[c][i][k].revision = <<i, rows[c][i][k].version>>
               /\ rows[c][i][k].version <= StoredItems(c)[i]
        /\ StoredItems(c)[i] <= ItemVersion(c, i)
        /\ i \notin ItemsOf[c] => StoredItems(c)[i] = Unread

\* While the cursor has not moved, nothing stored is newer than what was read.
NotOutdated(e) ==
    cursor[e.connection] = e.expected =>
        \A i \in ItemIds : (e.pc = "page" /\ i \in e.todo)
                           \/ StoredItems(e.connection)[i] <= e.items[i]

FreshOK(e) ==
    e.pc \in {"fetch", "page", "persist"} \cup Writing =>
        /\ \A i \in ItemIds : e.items[i] <= ItemVersion(e.connection, i)
        /\ In(e.items) \subseteq ItemsOf[e.connection]
        /\ e.pc \in {"fetch", "page"} => e.todo \subseteq ItemsOf[e.connection]
        /\ NotOutdated(e)

FreshInv ==
    /\ StoreOK
    /\ \A w \in Ingesters : FreshOK(ing[w])
    /\ StoredItemsAreLatest /\ SnapshotsNeverRegress

\* As OwnStep, for the freshness of one execution.
LEMMA OwnFreshStep ==
    ASSUME IngestInv, FreshInv, NEW w \in Ingesters, NEW x, Set(w, x),
           UNCHANGED <<changes, shown, db>>, FreshOK(x)'
    PROVE  FreshInv'
  <1> USE DEF Set, db
  <1>1. /\ ing'[w] = x /\ \A o \in Ingesters \ {w} : ing'[o] = ing[o]
    BY DEF IngestInv, ExecsOK
  <1>2. \A c : StoredItems(c)' = StoredItems(c)
    BY DEF StoredItems
  <1>3. \A c, i : ItemVersion(c, i)' = ItemVersion(c, i)
    BY DEF ItemVersion, VersionAt
  <1>4. StoreOK'
    BY <1>2, <1>3 DEF FreshInv, StoreOK
  <1>5. ASSUME NEW o \in Ingesters PROVE FreshOK(ing[o])'
    <2>1. CASE o = w
      BY <1>1, <2>1
    <2>2. CASE o # w
      <3>1. PICK e : e = ing[o]
        OBVIOUS
      <3>2. FreshOK(e)'
        BY <1>2, <1>3, <3>1 DEF FreshInv, FreshOK, NotOutdated, In
      <3>3. QED BY <1>1, <2>2, <3>1, <3>2
    <2>3. QED BY <2>1, <2>2
  <1>6. StoredItemsAreLatest'
    BY <1>2 DEF FreshInv, StoredItemsAreLatest, CyclesOf
  <1>7. SnapshotsNeverRegress'
    BY DEF FreshInv, SnapshotsNeverRegress, CyclesOf, Consecutive
  <1>8. QED BY <1>4, <1>5, <1>6, <1>7 DEF FreshInv

LEMMA QuitFresh == ASSUME IngestInv, FreshInv, NEW w \in Ingesters, Quit(w) PROVE FreshInv'
  <1> PICK x : x = Idle
    OBVIOUS
  <1>1. Set(w, x) /\ UNCHANGED <<changes, shown, db>>
    BY DEF Quit
  <1>2. FreshOK(x)'
    BY DEF FreshOK, Idle, Writing
  <1>3. QED BY <1>1, <1>2, OwnFreshStep

LEMMA BeginFresh ==
    ASSUME IngestInv, FreshInv, NEW w \in Ingesters, NEW m \in Commands, Begin(w, m)
    PROVE  FreshInv'
  <1> PICK x : x = [Idle EXCEPT !.pc = "revision", !.cmd = m.cycle_id,
                      !.connection = m.connection, !.changed = m.changed,
                      !.expected = cursor[m.connection]]
    OBVIOUS
  <1>1. Set(w, x) /\ UNCHANGED <<changes, shown, db>>
    BY DEF Begin
  <1>2. FreshOK(x)'
    BY DEF FreshOK, Idle, Writing
  <1>3. QED BY <1>1, <1>2, OwnFreshStep

\* Before anything is read nothing is newer than it but what will be read.
LEMMA ReadRevisionFresh ==
    ASSUME IngestInv, FreshInv, NEW w \in Ingesters, ReadRevision(w)
    PROVE  FreshInv'
  <1> PICK e : e = ing[w]
    OBVIOUS
  <1> PICK c : c = e.connection
    OBVIOUS
  <1> DEFINE r == SourceRevision(e.connection)
             full == [e EXCEPT !.pc = "page", !.revision = r, !.todo = ItemsOf[e.connection]]
             part == [e EXCEPT !.pc = "load", !.revision = r]
  <1>1. ExecOK(e) /\ e.pc = "revision"
    BY DEF IngestInv, ExecsOK, ReadRevision
  <1>2. CASE Replayed(e)
    BY <1>2, QuitFresh DEF ReadRevision
  <1>3. CASE ~ Replayed(e)
    <2> PICK x : x = IF e.changed = {} THEN full ELSE part
      OBVIOUS
    <2>1. Set(w, x) /\ UNCHANGED <<changes, shown, db>>
      BY <1>3 DEF ReadRevision
    <2>2. Started(e) /\ e.items = NoItems /\ DOMAIN e = Fields
      BY <1>1 DEF ExecOK
    <2>3. /\ x.pc = IF e.changed = {} THEN "page" ELSE "load"
          /\ x.connection = c /\ x.items = NoItems /\ x.expected = e.expected
          /\ e.changed = {} => x.todo = ItemsOf[c]
      BY <2>2 DEF Fields
    <2>4. c \in Connections
      BY <2>2, IssuedTypes DEF Started
    <2>5. \A i \in ItemIds : x.items[i] = Unread
      BY <2>3 DEF NoItems
    <2>6. \A i \in ItemIds : x.items[i] <= ItemVersion(c, i)
      <3>1. ASSUME NEW i \in ItemIds PROVE ItemVersion(c, i) \in Nat
        <4>1. Tracked /\ Len(changes[c]) \in Nat
          BY <2>4 DEF IngestInv, TablesOK, Tracked
        <4>2. VersionAt(c, i, Len(changes[c])) \in 0..Len(changes[c])
          BY <2>4, <4>1, VersionIs
        <4>3. QED BY <4>1, <4>2 DEF ItemVersion
      <3>2. QED BY <2>5, <3>1 DEF Unread
    <2>7. In(x.items) = {}
      BY <2>5 DEF In
    <2>8. \A i \in ItemIds \ ItemsOf[c] : StoredItems(c)[i] <= x.items[i]
      BY <2>4, <2>5 DEF FreshInv, StoreOK, Unread
    <2>9. FreshOK(x)'
      <3>1. StoredItems(c)' = StoredItems(c)
        BY <2>1 DEF StoredItems, db
      <3>2. \A i : ItemVersion(c, i)' = ItemVersion(c, i)
        BY <2>1 DEF ItemVersion, VersionAt
      <3>3. CASE e.changed = {}
        BY <2>3, <2>6, <2>7, <2>8, <3>1, <3>2, <3>3 DEF FreshOK, NotOutdated, In
      <3>4. CASE e.changed # {}
        BY <2>3, <3>4 DEF FreshOK, Writing
      <3>5. QED BY <3>3, <3>4
    <2>10. QED BY <2>1, <2>9, OwnFreshStep
  <1>4. QED BY <1>2, <1>3

\* An incremental execution starts from what is stored.
LEMMA LoadItemsFresh ==
    ASSUME IngestInv, FreshInv, NEW w \in Ingesters, LoadItems(w)
    PROVE  FreshInv'
  <1> PICK e : e = ing[w]
    OBVIOUS
  <1> PICK c : c = e.connection
    OBVIOUS
  <1> PICK x : x = [e EXCEPT !.pc = "fetch", !.items = StoredItems(e.connection),
                             !.todo = e.changed]
    OBVIOUS
  <1>1. Set(w, x) /\ UNCHANGED <<changes, shown, db>>
    BY DEF LoadItems
  <1>2. ExecOK(e) /\ e.pc = "load"
    BY DEF IngestInv, ExecsOK, LoadItems
  <1>3. Started(e) /\ DOMAIN e = Fields
    BY <1>2 DEF ExecOK
  <1>4. /\ x.pc = "fetch" /\ x.items = StoredItems(c) /\ x.connection = c
        /\ x.todo = e.changed /\ x.expected = e.expected
    BY <1>3 DEF Fields
  <1>5. c \in Connections /\ e.changed \subseteq ItemsOf[c]
    BY <1>3, IssuedTypes DEF Started
  <1>6. StoredItems(c) \in Snapshots
    BY <1>5, StoredTypes DEF IngestInv
  <1>7. \A i \in ItemIds :
           StoredItems(c)[i] <= ItemVersion(c, i) /\ StoredItems(c)[i] <= StoredItems(c)[i]
    BY <1>5, <1>6 DEF FreshInv, StoreOK, Snapshots, Unread
  <1>8. In(StoredItems(c)) \subseteq ItemsOf[c]
    BY <1>5 DEF FreshInv, StoreOK, In
  <1>9. FreshOK(x)'
    <2>1. StoredItems(c)' = StoredItems(c)
      BY <1>1 DEF StoredItems, db
    <2>2. \A i : ItemVersion(c, i)' = ItemVersion(c, i)
      BY <1>1 DEF ItemVersion, VersionAt
    <2>3. QED BY <1>4, <1>5, <1>7, <1>8, <2>1, <2>2 DEF FreshOK, NotOutdated, In
  <1>10. QED BY <1>1, <1>9, OwnFreshStep

\* Both loops read the next item as the tracker shows it now.
ReadsNext(x, e) ==
    LET i == Least(e.todo)
    IN  /\ x.pc = IF e.todo = {i} THEN "persist" ELSE e.pc
        /\ x.items = [e.items EXCEPT ![i] = ItemVersion(e.connection, i)]
        /\ x.todo = e.todo \ {i}
        /\ x.connection = e.connection /\ x.expected = e.expected

LEMMA ReadItemFresh ==
    ASSUME IngestInv, FreshInv, NEW w \in Ingesters, NEW e, e = ing[w],
           e.pc \in {"fetch", "page"}, NEW x, ReadsNext(x, e),
           Set(w, x), UNCHANGED <<changes, shown, db>>
    PROVE  FreshInv'
  <1> PICK i : i = Least(e.todo)
    OBVIOUS
  <1> PICK c : c = e.connection
    OBVIOUS
  <1>0. /\ x.pc = (IF e.todo = {i} THEN "persist" ELSE e.pc)
        /\ x.items = [e.items EXCEPT ![i] = ItemVersion(c, i)]
        /\ x.todo = e.todo \ {i} /\ x.connection = c /\ x.expected = e.expected
    BY DEF ReadsNext
  <1>1. ExecOK(e) /\ FreshOK(e)
    BY DEF IngestInv, ExecsOK, FreshInv
  <1>2. Started(e) /\ e.todo # {} /\ e.todo \in SUBSET ItemIds
    BY <1>1 DEF ExecOK
  <1>3. c \in Connections /\ Tracked
    BY <1>2, IssuedTypes DEF Started, IngestInv, TablesOK
  <1>4. i \in e.todo /\ i \in ItemIds /\ ItemVersion(c, i) \in Nat
    <2>1. /\ Least(e.todo) \in e.todo /\ Len(changes[c]) \in Nat
          /\ ItemVersion(c, Least(e.todo)) \in 0..Len(changes[c])
      BY <1>2, <1>3, NextItem
    <2>2. QED BY <1>2, <2>1
  <1>5. /\ x.items[i] = ItemVersion(c, i)
        /\ \A j \in ItemIds \ {i} : x.items[j] = e.items[j]
    BY <1>0, <1>2, <1>4 DEF Started, Snapshots
  <1>6. /\ \A j \in ItemIds : e.items[j] <= ItemVersion(c, j)
        /\ In(e.items) \subseteq ItemsOf[c] /\ e.todo \subseteq ItemsOf[c]
        /\ NotOutdated(e)
    BY <1>1 DEF FreshOK
  <1>7. /\ \A j \in ItemIds : x.items[j] <= ItemVersion(c, j)
        /\ In(x.items) \subseteq ItemsOf[c] /\ x.todo \subseteq ItemsOf[c]
    BY <1>0, <1>4, <1>5, <1>6 DEF In
  <1>8. ASSUME cursor[c] = e.expected, NEW j \in ItemIds
        PROVE  (x.pc = "page" /\ j \in x.todo) \/ StoredItems(c)[j] <= x.items[j]
    <2>1. CASE j = i
      BY <1>3, <1>4, <1>5, <2>1 DEF FreshInv, StoreOK
    <2>2. CASE j # i
      <3>1. (e.pc = "page" /\ j \in e.todo) \/ StoredItems(c)[j] <= e.items[j]
        BY <1>6, <1>8 DEF NotOutdated
      <3>2. QED BY <1>0, <1>5, <2>2, <3>1
    <2>3. QED BY <2>1, <2>2
  <1>9. FreshOK(x)'
    <2>1. StoredItems(c)' = StoredItems(c) /\ cursor' = cursor
      BY DEF StoredItems, db
    <2>2. \A j : ItemVersion(c, j)' = ItemVersion(c, j)
      BY DEF ItemVersion, VersionAt
    <2>3. QED BY <1>0, <1>7, <1>8, <2>1, <2>2 DEF FreshOK, NotOutdated, In
  <1>10. QED BY <1>9, OwnFreshStep

LEMMA FetchItemFresh ==
    ASSUME IngestInv, FreshInv, NEW w \in Ingesters, FetchItem(w)
    PROVE  FreshInv'
  <1> PICK e : e = ing[w]
    OBVIOUS
  <1> PICK i : i = Least(e.todo)
    OBVIOUS
  <1> PICK c : c = e.connection
    OBVIOUS
  <1> PICK v : v = ItemVersion(c, i)
    OBVIOUS
  <1> PICK x : x = [e EXCEPT !.items = [e.items EXCEPT ![i] = v], !.todo = e.todo \ {i},
                             !.pc = IF e.todo = {i} THEN "persist" ELSE "fetch"]
    OBVIOUS
  <1>1. Set(w, x) /\ UNCHANGED <<changes, shown, db>> /\ e.pc = "fetch"
    BY DEF FetchItem
  <1>2. DOMAIN e = Fields
    BY DEF IngestInv, ExecsOK, ExecOK
  <1>3. ReadsNext(x, e)
    BY <1>1, <1>2 DEF ReadsNext, Fields
  <1>4. e.pc \in {"fetch", "page"}
    BY <1>1
  <1>5. QED BY <1>1, <1>3, <1>4, ReadItemFresh

LEMMA ReadPageFresh ==
    ASSUME IngestInv, FreshInv, NEW w \in Ingesters, ReadPage(w)
    PROVE  FreshInv'
  <1> PICK e : e = ing[w]
    OBVIOUS
  <1> PICK i : i = Least(e.todo)
    OBVIOUS
  <1> PICK c : c = e.connection
    OBVIOUS
  <1> PICK v : v = ItemVersion(c, i)
    OBVIOUS
  <1> PICK p : p = PageRevision(c, i)
    OBVIOUS
  <1> PICK x : x = [e EXCEPT !.items = [e.items EXCEPT ![i] = v], !.page = p,
                             !.todo = e.todo \ {i},
                             !.pc = IF e.todo = {i} THEN "persist" ELSE "page"]
    OBVIOUS
  <1>1. CASE e.page \notin {NoPage, p}
    BY <1>1, QuitFresh DEF ReadPage
  <1>2. CASE e.page \in {NoPage, p}
    <2>1. Set(w, x) /\ UNCHANGED <<changes, shown, db>> /\ e.pc = "page"
      BY <1>2 DEF ReadPage
    <2>2. DOMAIN e = Fields
      BY DEF IngestInv, ExecsOK, ExecOK
    <2>3. ReadsNext(x, e)
      BY <2>1, <2>2 DEF ReadsNext, Fields
    <2>4. e.pc \in {"fetch", "page"}
      BY <2>1
    <2>5. QED BY <2>1, <2>3, <2>4, ReadItemFresh
  <1>3. QED BY <1>1, <1>2

\* Within the transaction what was read stays as it is.
LEMMA WriteFresh ==
    ASSUME IngestInv, FreshInv, NEW w \in Ingesters, NEW e, e = ing[w],
           e.pc \in {"persist"} \cup Writing, NEW x, Set(w, x), UNCHANGED <<changes, shown, db>>,
           x.pc \in Writing, x.items = e.items, x.connection = e.connection,
           x.expected = e.expected
    PROVE  FreshInv'
  <1>1. FreshOK(e)
    BY DEF FreshInv
  <1>2. StoredItems(e.connection)' = StoredItems(e.connection) /\ cursor' = cursor
    BY DEF StoredItems, db
  <1>3. \A i : ItemVersion(e.connection, i)' = ItemVersion(e.connection, i)
    BY DEF ItemVersion, VersionAt
  <1>4. x.pc \notin {"fetch", "page"} /\ e.pc \notin {"fetch", "page"}
    BY DEF Writing
  <1>5. FreshOK(x)'
    BY <1>1, <1>2, <1>3, <1>4 DEF FreshOK, NotOutdated, In
  <1>6. QED BY <1>5, OwnFreshStep

LEMMA TransactionFresh ==
    ASSUME IngestInv, FreshInv, NEW w \in Ingesters,
           Fence(w) \/ AppendCycle(w) \/ UpsertProjection(w) \/ SelectFrontier(w) \/ UpsertFrontier(w)
    PROVE  FreshInv'
  <1> PICK e : e = ing[w]
    OBVIOUS
  <1>1. DOMAIN e = Fields
    BY DEF IngestInv, ExecsOK, ExecOK
  <1>2. CASE Fence(w)
    <2>1. CASE CursorMatches(e)
      <3> PICK x : x = [e EXCEPT !.pc = "append"]
        OBVIOUS
      <3>1. Set(w, x) /\ UNCHANGED <<changes, shown, db>> /\ e.pc = "persist"
        BY <1>2, <2>1 DEF Fence
      <3>2. /\ x.pc = "append" /\ x.items = e.items /\ x.connection = e.connection
            /\ x.expected = e.expected
        BY <1>1 DEF Fields
      <3>3. QED BY <3>1, <3>2, WriteFresh DEF Writing
    <2>2. QED BY <1>2, <2>1, QuitFresh DEF Fence
  <1>3. CASE AppendCycle(w)
    <2>1. CASE ~ Published(e)
      <3> PICK x : x = [e EXCEPT !.pc = "projections", !.todo = In(e.items)]
        OBVIOUS
      <3>1. Set(w, x) /\ UNCHANGED <<changes, shown, db>> /\ e.pc = "append"
        BY <1>3, <2>1 DEF AppendCycle
      <3>2. /\ x.pc = "projections" /\ x.items = e.items /\ x.connection = e.connection
            /\ x.expected = e.expected
        BY <1>1 DEF Fields
      <3>3. QED BY <3>1, <3>2, WriteFresh DEF Writing
    <2>2. QED BY <1>3, <2>1, QuitFresh DEF AppendCycle
  <1>4. CASE UpsertProjection(w)
    <2> PICK i : i = NextProjection(w)
      OBVIOUS
    <2> PICK x : x = [e EXCEPT !.todo = e.todo \ {i},
                               !.pc = IF e.todo = {i} THEN "frontier" ELSE "projections"]
      OBVIOUS
    <2>1. Set(w, x) /\ UNCHANGED <<changes, shown, db>> /\ e.pc = "projections"
      BY <1>4 DEF UpsertProjection
    <2>2. /\ x.pc \in {"frontier", "projections"} /\ x.items = e.items
          /\ x.connection = e.connection /\ x.expected = e.expected
      BY <1>1 DEF Fields
    <2>3. x.pc \in Writing /\ e.pc \in Writing
      BY <2>1, <2>2 DEF Writing
    <2>4. QED BY <2>1, <2>2, <2>3, WriteFresh
  <1>5. CASE SelectFrontier(w)
    <2> PICK x : x = [e EXCEPT !.pc = "publish", !.version = frontier.version]
      OBVIOUS
    <2>1. Set(w, x) /\ UNCHANGED <<changes, shown, db>> /\ e.pc = "frontier"
      BY <1>5 DEF SelectFrontier
    <2>2. /\ x.pc = "publish" /\ x.items = e.items /\ x.connection = e.connection
          /\ x.expected = e.expected
      BY <1>1 DEF Fields
    <2>3. QED BY <2>1, <2>2, WriteFresh DEF Writing
  <1>6. CASE UpsertFrontier(w)
    <2> PICK x : x = [e EXCEPT !.pc = "commit"]
      OBVIOUS
    <2>1. Set(w, x) /\ UNCHANGED <<changes, shown, db>> /\ e.pc = "publish"
      BY <1>6 DEF UpsertFrontier
    <2>2. /\ x.pc = "commit" /\ x.items = e.items /\ x.connection = e.connection
          /\ x.expected = e.expected
      BY <1>1 DEF Fields
    <2>3. QED BY <2>1, <2>2, WriteFresh DEF Writing
  <1>7. QED BY <1>2, <1>3, <1>4, <1>5, <1>6

\* A change at the tracker only makes it newer.
LEMMA ChangeFresh ==
    ASSUME IngestInv, FreshInv, NEW c \in Connections, NEW i \in ItemIds, Change(c, i)
    PROVE  FreshInv'
  <1>1. UNCHANGED <<cursor, rows, cycles, projections, frontier, ing>>
    BY DEF Change, db
  <1>2. \A d : StoredItems(d)' = StoredItems(d)
    BY <1>1 DEF StoredItems
  <1>3. ASSUME NEW d \in Connections, NEW j \in ItemIds, NEW u \in Nat \cup {Unread},
               u <= ItemVersion(d, j)
        PROVE  u <= ItemVersion(d, j)'
    <2>1. Tracked /\ changes[d] \in Seq(ItemIds) /\ Len(changes[d]) \in Nat
      BY DEF IngestInv, TablesOK, Tracked
    <2>2. changes'[d] = IF d = c THEN Append(changes[d], i) ELSE changes[d]
      BY <2>1 DEF Change, Tracked
    <2>3. PICK L \in Nat : L = Len(changes'[d]) /\ Len(changes[d]) <= L
      BY <2>1, <2>2
    <2>4. \A n \in 1..Len(changes[d]) : changes'[d][n] = changes[d][n]
      BY <2>1, <2>2
    <2>5. PICK v : v = ItemVersion(d, j)
      OBVIOUS
    <2>6. v \in 0..Len(changes[d]) /\ (v = 0 \/ changes[d][v] = j)
      <3>1. Len(changes[d]) \in 0..Len(changes[d])
        BY <2>1
      <3>2. QED BY <2>1, <2>5, <3>1, VersionIs DEF ItemVersion
    <2>7. PICK S : S = {0} \cup {n \in 1..L : changes'[d][n] = j}
      OBVIOUS
    <2>8. S \in SUBSET (0..L) /\ S # {} /\ v \in S
      BY <2>1, <2>3, <2>4, <2>6, <2>7
    <2>9. Greatest(S) \in S /\ v <= Greatest(S)
      BY <2>8, GreatestExists
    <2>10. ItemVersion(d, j)' = Greatest(S)
      BY <2>3, <2>7 DEF ItemVersion, VersionAt
    <2>11. v \in Nat /\ Greatest(S) \in Nat
      <3>1. v \in Nat
        BY <2>1, <2>6
      <3>2. Greatest(S) \in 0..L
        BY <2>8, <2>9
      <3>3. QED BY <2>3, <3>1, <3>2
    <2>12. QED BY <1>3, <2>5, <2>9, <2>10, <2>11 DEF Unread
  <1>4. StoreOK'
    <2>1. ASSUME NEW d \in Connections, NEW j \in ItemIds
          PROVE  StoredItems(d)[j] <= ItemVersion(d, j)'
      <3>1. StoredItems(d)[j] \in Nat \cup {Unread} /\ StoredItems(d)[j] <= ItemVersion(d, j)
        BY StoredTypes DEF IngestInv, Snapshots, FreshInv, StoreOK
      <3>2. QED BY <1>3, <3>1
    <2>2. QED BY <1>1, <1>2, <2>1 DEF FreshInv, StoreOK
  <1>5. ASSUME NEW o \in Ingesters PROVE FreshOK(ing[o])'
    <2>1. PICK e : e = ing[o]
      OBVIOUS
    <2>2. ExecOK(e) /\ FreshOK(e)
      BY <2>1 DEF IngestInv, ExecsOK, FreshInv
    <2>3. e.pc # "idle" => Started(e) /\ e.connection \in Connections
      BY <2>2, IssuedTypes DEF ExecOK, Started
    <2>4. ASSUME e.pc \in {"fetch", "page", "persist"} \cup Writing
          PROVE  \A j \in ItemIds : e.items[j] <= ItemVersion(e.connection, j)'
      <3>1. e.pc # "idle"
        BY <2>4 DEF Writing
      <3>2. \A j \in ItemIds : e.items[j] \in Nat \cup {Unread}
        BY <2>3, <3>1 DEF Started, Snapshots
      <3>3. \A j \in ItemIds : e.items[j] <= ItemVersion(e.connection, j)
        BY <2>2, <2>4 DEF FreshOK
      <3>4. QED BY <1>3, <2>3, <3>1, <3>2, <3>3
    <2>5. NotOutdated(e)' <=> NotOutdated(e)
      BY <1>1, <1>2 DEF NotOutdated
    <2>6. FreshOK(e)'
      BY <2>2, <2>4, <2>5 DEF FreshOK, In
    <2>7. QED BY <1>1, <2>1, <2>6
  <1>6. StoredItemsAreLatest'
    BY <1>1, <1>2 DEF FreshInv, StoredItemsAreLatest, CyclesOf
  <1>7. SnapshotsNeverRegress'
    BY <1>1 DEF FreshInv, SnapshotsNeverRegress, CyclesOf, Consecutive
  <1>8. QED BY <1>4, <1>5, <1>6, <1>7 DEF FreshInv

\* The versions of item i stored as s, the last of them last.
Stored(s, i, last) ==
    /\ last = IF s = << >> THEN Unread ELSE s[Len(s)].version
    /\ \A k \in 1..Len(s) : s[k].revision = <<i, s[k].version>> /\ s[k].version <= last

\* After a version is stored it is the last one of its item.
LEMMA StoreLast ==
    ASSUME OwnRevisions, NEW c \in Connections, NEW i \in ItemIds, NEW v \in Nat,
           NEW s \in Seq(StoredRow), NEW last \in Nat \cup {Unread}, last <= v,
           Stored(s, i, last)
    PROVE  Stored(StoreVersion(c, s, i, v), i, v)
  <1> PICK t : t = StoreVersion(c, s, i, v)
    OBVIOUS
  <1>0. /\ last = (IF s = << >> THEN Unread ELSE s[Len(s)].version)
        /\ \A k \in 1..Len(s) : s[k].revision = <<i, s[k].version>> /\ s[k].version <= last
    BY DEF Stored
  <1>1. ItemRevision(c, i, v) = <<i, v>>
    BY DEF OwnRevisions, ItemRevision
  <1>2. \A k \in 1..Len(s) : s[k].version \in Nat
    <2>1. \A k \in 1..Len(s) : s[k] \in StoredRow
      OBVIOUS
    <2>2. QED BY <2>1 DEF StoredRow
  <1>3. CASE \E k \in 1..Len(s) : s[k].revision = <<i, v>>
    <2>1. t = s
      BY <1>1, <1>3 DEF StoreVersion
    <2>2. PICK k \in 1..Len(s) : s[k].revision = <<i, v>>
      BY <1>3
    <2>3. s[k].version = v
      <3>1. s[k].revision = <<i, s[k].version>>
        BY <1>0, <2>2
      <3>2. QED BY <2>2, <3>1
    <2>4. s # << >> /\ last = v
      BY <1>0, <2>3 DEF Unread
    <2>5. QED BY <1>0, <2>1, <2>4 DEF Stored
  <1>4. CASE ~ \E k \in 1..Len(s) : s[k].revision = <<i, v>>
    <2> PICK row : row = [revision |-> <<i, v>>, version |-> v]
      OBVIOUS
    <2>1. t = Append(s, row)
      BY <1>1, <1>4 DEF StoreVersion
    <2>2. row.revision = <<i, v>> /\ row.version = v
      OBVIOUS
    <2>3. /\ Len(t) = Len(s) + 1 /\ t[Len(s) + 1] = row /\ Len(s) \in Nat
          /\ \A k \in 1..Len(s) : t[k] = s[k]
      BY <2>1
    <2>4. t # << >> /\ t[Len(t)].version = v
      BY <2>2, <2>3
    <2>5. ASSUME NEW k \in 1..Len(t)
          PROVE  t[k].revision = <<i, t[k].version>> /\ t[k].version <= v
      <3>1. CASE k = Len(t)
        BY <2>2, <2>3, <3>1
      <3>2. CASE k # Len(t)
        <4>1. k \in 1..Len(s)
          BY <2>3, <3>2
        <4>2. QED BY <1>0, <1>2, <2>3, <4>1 DEF Unread
      <3>3. QED BY <3>1, <3>2
    <2>6. QED BY <2>4, <2>5 DEF Stored
  <1>5. QED BY <1>3, <1>4

\* The committed cycle is what is stored afterwards, and at least what was before.
LEMMA CommitFresh ==
    ASSUME OwnRevisions, IngestInv, FreshInv, NEW w \in Ingesters, Commit(w)
    PROVE  FreshInv'
  <1> PICK e : e = ing[w]
    OBVIOUS
  <1> PICK c : c = e.connection
    OBVIOUS
  <1> PICK n : n = Len(cycles) + 1
    OBVIOUS
  <1>1. /\ e.pc = "commit" /\ Started(e) /\ Known(e) /\ c \in Connections
        /\ cursor[c] = e.expected /\ n \in Nat /\ Len(cycles) \in Nat
        /\ changes' = changes /\ cursor' = [cursor EXCEPT ![c] = e.revision]
        /\ ing' = [ing EXCEPT ![w] = Idle]
    BY CommitEffect, SMTT(30)
  <1>1a. /\ n \in Nat /\ cycles'[n] = Cycle(e)
         /\ \A k \in 1..Len(cycles) : cycles'[k] = cycles[k]
    BY CommitEffect, SMTT(30)
  <1>1b. /\ n \in Nat
         /\ \A d \in Connections \ {c} : CyclesOf(d)' = CyclesOf(d)
         /\ CyclesOf(c)' = CyclesOf(c) \cup {n}
         /\ \A d \in Connections : CyclesOf(d) \subseteq 1..Len(cycles)
    BY CommitEffect, SMTT(30)
  <1>2. TablesOK /\ StoreOK /\ FreshOK(e) /\ e.items \in Snapshots
    BY <1>1 DEF IngestInv, FreshInv, Started
  <1>3. /\ rows'[c] = [i \in ItemIds |-> IF i \in In(e.items)
                                         THEN StoreVersion(c, rows[c][i], i, e.items[i])
                                         ELSE rows[c][i]]
        /\ \A d \in Connections \ {c} : rows'[d] = rows[d]
    BY <1>1, <1>2 DEF Commit, TablesOK
  <1>4. /\ \A i \in ItemIds : e.items[i] <= ItemVersion(c, i)
        /\ In(e.items) \subseteq ItemsOf[c]
        /\ \A i \in ItemIds : StoredItems(c)[i] <= e.items[i]
    BY <1>1, <1>2 DEF FreshOK, NotOutdated, Writing
  <1>5. \A i : ItemVersion(c, i)' = ItemVersion(c, i)
    BY <1>1 DEF ItemVersion, VersionAt
  <1>6. \A d \in Connections \ {c} : StoredItems(d)' = StoredItems(d)
    BY <1>3 DEF StoredItems
  <1>7. ASSUME NEW i \in ItemIds
        PROVE  /\ StoredItems(c)'[i] = e.items[i]
               /\ Stored(rows'[c][i], i, e.items[i])
    <2> PICK s : s = rows[c][i]
      OBVIOUS
    <2> PICK last : last = StoredItems(c)[i]
      OBVIOUS
    <2>1. s \in Seq(StoredRow) /\ last \in Nat \cup {Unread} /\ last <= e.items[i]
      BY <1>1, <1>2, <1>4, StoredTypes DEF TablesOK, Snapshots
    <2>2. Stored(s, i, last)
      BY <1>1, <1>2 DEF StoredItems, StoreOK, Stored
    <2>3. CASE i \in In(e.items)
      <3> PICK t : t = StoreVersion(c, s, i, e.items[i])
        OBVIOUS
      <3>1. e.items[i] \in Nat
        BY <1>2, <2>3 DEF In, Snapshots
      <3>2. Stored(t, i, e.items[i])
        BY <1>1, <2>1, <2>2, <3>1, StoreLast
      <3>3. rows'[c][i] = t
        BY <1>3, <2>3
      <3>4. QED BY <3>2, <3>3 DEF StoredItems, Stored
    <2>4. CASE i \notin In(e.items)
      <3>1. e.items[i] = Unread /\ last = Unread
        BY <2>1, <2>4 DEF In, Unread
      <3>2. rows'[c][i] = s
        BY <1>3, <2>4
      <3>3. QED BY <2>2, <3>1, <3>2 DEF StoredItems, Stored
    <2>5. QED BY <2>3, <2>4
  <1>8. StoreOK'
    <2>1. ASSUME NEW d \in Connections, NEW i \in ItemIds
          PROVE  /\ \A k \in 1..Len(rows'[d][i]) :
                       /\ rows'[d][i][k].revision = <<i, rows'[d][i][k].version>>
                       /\ rows'[d][i][k].version <= StoredItems(d)'[i]
                 /\ StoredItems(d)'[i] <= ItemVersion(d, i)'
                 /\ i \notin ItemsOf[d] => StoredItems(d)'[i] = Unread
      <3>1. CASE d = c
        <4>1. i \notin ItemsOf[c] => e.items[i] = Unread
          BY <1>4 DEF In
        <4>2. QED BY <1>4, <1>5, <1>7, <3>1, <4>1 DEF Stored
      <3>2. CASE d # c
        <4>1. ItemVersion(d, i)' = ItemVersion(d, i)
          BY <1>1 DEF ItemVersion, VersionAt
        <4>2. QED BY <1>2, <1>3, <1>6, <3>2, <4>1 DEF StoreOK
      <3>3. QED BY <3>1, <3>2
    <2>2. QED BY <2>1 DEF StoreOK
  <1>9. StoredItems(c)' = e.items
    <2>1. e.items = [i \in ItemIds |-> e.items[i]]
      BY <1>2 DEF Snapshots
    <2>2. StoredItems(c)' = [i \in ItemIds |-> StoredItems(c)'[i]]
      BY DEF StoredItems
    <2>3. QED BY <1>7, <2>1, <2>2
  <1>10. /\ Greatest(CyclesOf(c)') = n
         /\ \A d \in Connections : CyclesOf(d) # {} => Greatest(CyclesOf(d)) \in CyclesOf(d)
         /\ \A d \in Connections : \A k, l \in CyclesOf(d)' : Consecutive(k, l, d)' =>
               \/ k \in CyclesOf(d) /\ l \in CyclesOf(d) /\ Consecutive(k, l, d)
               \/ d = c /\ l = n /\ k \in CyclesOf(d) /\ k = Greatest(CyclesOf(d))
    BY CommitLinks
  <1>11. cycles'[n].snapshot = e.items
    BY <1>1, <1>1a, <1>1b DEF Cycle
  <1>12. StoredItemsAreLatest'
    <2>1. ASSUME NEW d \in Connections, CyclesOf(d)' # {}
          PROVE  StoredItems(d)' = cycles'[Greatest(CyclesOf(d)')].snapshot
      <3>1. CASE d = c
        BY <1>9, <1>10, <1>11, <3>1
      <3>2. CASE d # c
        <4>1. CyclesOf(d)' = CyclesOf(d) /\ CyclesOf(d) # {}
          BY <1>1, <1>1a, <1>1b, <2>1, <3>2
        <4>2. StoredItems(d) = cycles[Greatest(CyclesOf(d))].snapshot
          BY <4>1 DEF FreshInv, StoredItemsAreLatest
        <4>3. cycles'[Greatest(CyclesOf(d))] = cycles[Greatest(CyclesOf(d))]
          BY <1>1, <1>1a, <1>1b, <1>10, <4>1
        <4>4. QED BY <1>6, <3>2, <4>1, <4>2, <4>3
      <3>3. QED BY <3>1, <3>2
    <2>2. QED BY <2>1 DEF StoredItemsAreLatest
  <1>13. SnapshotsNeverRegress'
    <2>1. ASSUME NEW d \in Connections, NEW k \in CyclesOf(d)', NEW l \in CyclesOf(d)',
                 Consecutive(k, l, d)', NEW i \in ItemIds
          PROVE  cycles'[k].snapshot[i] <= cycles'[l].snapshot[i]
      <3>1. CASE k \in CyclesOf(d) /\ l \in CyclesOf(d) /\ Consecutive(k, l, d)
        BY <1>1, <1>1a, <1>1b, <3>1 DEF FreshInv, SnapshotsNeverRegress
      <3>2. CASE d = c /\ l = n /\ k \in CyclesOf(d) /\ k = Greatest(CyclesOf(d))
        <4>1. StoredItems(c) = cycles[k].snapshot
          BY <1>1, <1>1a, <1>1b, <3>2 DEF FreshInv, StoredItemsAreLatest
        <4>2. cycles'[k] = cycles[k]
          BY <1>1, <1>1a, <1>1b, <3>2
        <4>3. QED BY <1>4, <1>11, <3>2, <4>1, <4>2
      <3>3. QED BY <1>10, <2>1, <3>1, <3>2
    <2>2. QED BY <2>1 DEF SnapshotsNeverRegress
  <1>14. ASSUME NEW o \in Ingesters PROVE FreshOK(ing[o])'
    <2>1. CASE o = w
      <3>1. ing'[o] = Idle
        BY <1>1, <1>1a, <1>1b, <2>1 DEF IngestInv, ExecsOK
      <3>2. QED BY <3>1 DEF FreshOK, Idle, Writing
    <2>2. CASE o # w
      <3> PICK x : x = ing[o]
        OBVIOUS
      <3>1. ExecOK(x) /\ FreshOK(x) /\ ing'[o] = x
        BY <1>1, <1>1a, <1>1b, <2>2 DEF IngestInv, ExecsOK, FreshInv
      <3>2. \A d, i : ItemVersion(d, i)' = ItemVersion(d, i)
        BY <1>1, <1>1a, <1>1b DEF ItemVersion, VersionAt
      <3>3. ASSUME x.pc # "idle", NotOutdated(x) PROVE NotOutdated(x)'
        <4>1. Started(x) /\ x.connection \in Connections
          BY <3>1, <3>3, IssuedTypes DEF ExecOK, Started
        <4>2. CASE x.connection = c
          <5>1. cursor'[c] = e.revision /\ cursor[c] < e.revision
            BY <1>1, <1>1a, <1>1b DEF IngestInv, TablesOK, Known
          <5>2. /\ x.expected \in Nat \cup {NoCursor} /\ x.expected <= cursor[c]
                /\ cursor[c] \in Nat \cup {NoCursor} /\ e.revision \in Nat
            <6>1. Len(changes[c]) \in Nat
              BY <1>1, <1>1a, <1>1b, <1>2 DEF TablesOK, Tracked
            <6>2. QED BY <1>1, <1>1a, <1>1b, <1>2, <4>1, <4>2, <6>1 DEF Started, TablesOK, Known
          <5>3. cursor'[c] # x.expected
            BY <5>1, <5>2 DEF NoCursor
          <5>4. QED BY <4>2, <5>3 DEF NotOutdated
        <4>3. CASE x.connection # c
          <5>1. cursor'[x.connection] = cursor[x.connection]
            BY <1>1, <1>1a, <1>1b, <1>2, <4>1, <4>3 DEF TablesOK
          <5>2. QED BY <1>6, <3>3, <4>1, <4>3, <5>1 DEF NotOutdated
        <4>4. QED BY <4>2, <4>3
      <3>4. FreshOK(x)'
        BY <3>1, <3>2, <3>3 DEF FreshOK, In, Writing
      <3>5. QED BY <3>1, <3>4
    <2>3. QED BY <2>1, <2>2
  <1>15. QED BY <1>8, <1>12, <1>13, <1>14 DEF FreshInv

\* Nothing is read and nothing stored at first.
LEMMA InitFresh == Init => FreshInv
  <1> SUFFICES ASSUME Init PROVE FreshInv
    OBVIOUS
  <1>1. /\ Len(cycles) = 0 /\ \A k : k \notin 1..Len(cycles)
    BY DEF Init
  <1>2. ASSUME NEW c \in Connections, NEW i \in ItemIds
        PROVE  /\ rows[c][i] = << >> /\ StoredItems(c)[i] = Unread
               /\ StoredItems(c)[i] <= ItemVersion(c, i)
    <2>1. rows[c][i] = << >> /\ StoredItems(c)[i] = Unread
      BY DEF Init, StoredItems
    <2>2. Tracked /\ changes[c] = << >> /\ Len(changes[c]) = 0
      BY DEF Init, Tracked
    <2>3. VersionAt(c, i, Len(changes[c])) \in 0..Len(changes[c])
      BY <2>2, VersionIs
    <2>4. QED BY <2>1, <2>2, <2>3 DEF ItemVersion, Unread
  <1>3. StoreOK
    <2>1. \A c \in Connections, i \in ItemIds : Len(rows[c][i]) = 0
      BY <1>2
    <2>2. QED BY <1>2, <2>1 DEF StoreOK
  <1>4. \A w \in Ingesters : FreshOK(ing[w])
    BY DEF Init, Idle, FreshOK, Writing
  <1>5. StoredItemsAreLatest /\ SnapshotsNeverRegress
    BY <1>1 DEF StoredItemsAreLatest, SnapshotsNeverRegress, CyclesOf
  <1>6. QED BY <1>3, <1>4, <1>5 DEF FreshInv

LEMMA StutterFresh == ASSUME IngestInv, FreshInv, UNCHANGED vars PROVE FreshInv'
  <1>1. UNCHANGED <<changes, shown, cursor, rows, cycles, projections, frontier, ing>>
    BY DEF vars
  <1>2. \A c : StoredItems(c)' = StoredItems(c)
    BY <1>1 DEF StoredItems
  <1>3. \A c, i : ItemVersion(c, i)' = ItemVersion(c, i)
    BY <1>1 DEF ItemVersion, VersionAt
  <1>4. StoreOK'
    BY <1>1, <1>2, <1>3 DEF FreshInv, StoreOK
  <1>5. ASSUME NEW o \in Ingesters PROVE FreshOK(ing[o])'
    <2>1. PICK e : e = ing[o]
      OBVIOUS
    <2>2. FreshOK(e)'
      BY <1>1, <1>2, <1>3, <2>1 DEF FreshInv, FreshOK, NotOutdated, In
    <2>3. QED BY <1>1, <2>1, <2>2
  <1>6. StoredItemsAreLatest'
    BY <1>1, <1>2 DEF FreshInv, StoredItemsAreLatest, CyclesOf
  <1>7. SnapshotsNeverRegress'
    BY <1>1 DEF FreshInv, SnapshotsNeverRegress, CyclesOf, Consecutive
  <1>8. QED BY <1>4, <1>5, <1>6, <1>7 DEF FreshInv

LEMMA NextFresh == ASSUME OwnRevisions, IngestInv, FreshInv, [Next]_vars PROVE FreshInv'
  <1>1. ASSUME NEW c \in Connections, NEW i \in ItemIds, Change(c, i) PROVE FreshInv'
    BY <1>1, ChangeFresh
  <1>2. ASSUME NEW w \in Ingesters, NEW m \in Commands, Begin(w, m) PROVE FreshInv'
    BY <1>2, BeginFresh
  <1>3. ASSUME NEW w \in Ingesters, Step(w) PROVE FreshInv'
    BY <1>3, ReadRevisionFresh, LoadItemsFresh, FetchItemFresh, ReadPageFresh,
       TransactionFresh, CommitFresh DEF Step
  <1>4. ASSUME NEW w \in Ingesters, Abort(w) PROVE FreshInv'
    BY <1>4, QuitFresh DEF Abort
  <1>5. CASE UNCHANGED vars
    BY <1>5, StutterFresh
  <1>6. QED BY <1>1, <1>2, <1>3, <1>4, <1>5 DEF Next

\* load_source_items, the merge of fetched items and _append_source_versions,
\* executed concurrently and behind one fence: what is stored and what executions
\* hold only becomes newer.
THEOREM FreshInvariant == OwnRevisions => (Spec => []FreshInv)
  <1> SUFFICES ASSUME OwnRevisions PROVE Spec => []FreshInv
    OBVIOUS
  <1>1. IngestInv /\ FreshInv /\ [Next]_vars => FreshInv'
    BY NextFresh
  <1>2. QED BY <1>1, InitFresh, IngestInvariant, PTL DEF Spec

\* An incremental ingestion merges stored items and decides again: no cycle of
\* memory, fixture or local connections replaces an item by an older version.
THEOREM NothingRegresses == OwnRevisions => (Spec => []SnapshotsNeverRegress)
  <1> SUFFICES ASSUME OwnRevisions PROVE Spec => []SnapshotsNeverRegress
    OBVIOUS
  <1>1. FreshInv => SnapshotsNeverRegress
    BY DEF FreshInv
  <1>2. Spec => []FreshInv
    BY FreshInvariant
  <1>3. QED BY <1>1, <1>2, PTL

\* The writes of persist after the cycle itself: stored items are those of the
\* latest cycle, projections derive from the latest cycle that decided the item.
THEOREM TablesFollow == OwnRevisions => (Spec => []TablesFollowCycles)
  <1> SUFFICES ASSUME OwnRevisions PROVE Spec => []TablesFollowCycles
    OBVIOUS
  <1>1. IngestInv /\ FreshInv => TablesFollowCycles
    BY DEF FreshInv, IngestInv, TablesFollowCycles
  <1>2. Spec => []FreshInv
    BY FreshInvariant
  <1>3. QED BY <1>1, <1>2, IngestInvariant, PTL

-----------------------------------------------------------------------------
(* What a cycle decides on, whatever happened while it was read.           *)

\* The changed items an incremental execution has fetched by now.
Fetched(e) == e.changed \ (IF e.pc = "fetch" THEN e.todo ELSE {})

\* Each of them was read at a moment since the recorded revision; the other items
\* are those that are stored, as long as the cursor has not moved.
MergeOK(e) ==
    e.pc \in {"fetch", "persist"} \cup Writing /\ e.changed # {} =>
        /\ e.pc = "fetch" => e.todo \subseteq e.changed
        /\ \A i \in Fetched(e) : \E r \in e.revision..Len(changes[e.connection]) :
               e.items[i] = VersionAt(e.connection, i, r)
        /\ cursor[e.connection] = e.expected =>
               \A i \in ItemIds \ Fetched(e) : e.items[i] = StoredItems(e.connection)[i]

MergeInv == \A w \in Ingesters : MergeOK(ing[w])

LEMMA MergeStays ==
    ASSUME UNCHANGED <<changes, cursor, rows>>, NEW e, MergeOK(e)
    PROVE  MergeOK(e)'
  <1>1. \A c, i, r : VersionAt(c, i, r)' = VersionAt(c, i, r)
    BY DEF VersionAt
  <1>2. \A c : StoredItems(c)' = StoredItems(c)
    BY DEF StoredItems
  <1>3. QED BY <1>1, <1>2 DEF MergeOK, Fetched

\* As OwnStep, for what one execution merged.
LEMMA OwnMergeStep ==
    ASSUME IngestInv, MergeInv, NEW w \in Ingesters, NEW x, Set(w, x),
           UNCHANGED <<changes, shown, db>>, MergeOK(x)'
    PROVE  MergeInv'
  <1>1. /\ ing'[w] = x /\ \A o \in Ingesters \ {w} : ing'[o] = ing[o]
        /\ UNCHANGED <<changes, cursor, rows>>
    BY DEF IngestInv, ExecsOK, Set, db
  <1>2. ASSUME NEW o \in Ingesters \ {w} PROVE MergeOK(ing[o])'
    <2>1. PICK e : e = ing[o]
      OBVIOUS
    <2>2. MergeOK(e)'
      BY <1>1, <2>1, MergeStays DEF MergeInv
    <2>3. QED BY <1>1, <2>1, <2>2
  <1>3. QED BY <1>1, <1>2 DEF MergeInv

\* An execution that has not loaded stored items, or reads pages, merges nothing.
LEMMA MergesNothing ==
    ASSUME IngestInv, MergeInv, NEW w \in Ingesters, NEW x, Set(w, x),
           UNCHANGED <<changes, shown, db>>,
           x.pc \in {"idle", "revision", "load", "page"} \/ x.changed = {}
    PROVE  MergeInv'
  <1>1. MergeOK(x)'
    BY DEF MergeOK, Writing
  <1>2. QED BY <1>1, OwnMergeStep

LEMMA QuitMerge == ASSUME IngestInv, MergeInv, NEW w \in Ingesters, Quit(w) PROVE MergeInv'
  <1> PICK x : x = Idle
    OBVIOUS
  <1>1. Set(w, x) /\ UNCHANGED <<changes, shown, db>> /\ x.pc = "idle"
    BY DEF Quit, Idle
  <1>2. QED BY <1>1, MergesNothing

LEMMA BeginMerge ==
    ASSUME IngestInv, MergeInv, NEW w \in Ingesters, NEW m \in Commands, Begin(w, m)
    PROVE  MergeInv'
  <1> PICK x : x = [Idle EXCEPT !.pc = "revision", !.cmd = m.cycle_id,
                      !.connection = m.connection, !.changed = m.changed,
                      !.expected = cursor[m.connection]]
    OBVIOUS
  <1>1. Set(w, x) /\ UNCHANGED <<changes, shown, db>>
    BY DEF Begin
  <1>2. x.pc = "revision"
    BY DEF Idle
  <1>3. QED BY <1>1, <1>2, MergesNothing

LEMMA ReadRevisionMerge ==
    ASSUME IngestInv, MergeInv, NEW w \in Ingesters, ReadRevision(w)
    PROVE  MergeInv'
  <1> PICK e : e = ing[w]
    OBVIOUS
  <1> DEFINE r == SourceRevision(e.connection)
             full == [e EXCEPT !.pc = "page", !.revision = r, !.todo = ItemsOf[e.connection]]
             part == [e EXCEPT !.pc = "load", !.revision = r]
  <1>1. CASE Replayed(e)
    BY <1>1, QuitMerge DEF ReadRevision
  <1>2. CASE ~ Replayed(e)
    <2> PICK x : x = IF e.changed = {} THEN full ELSE part
      OBVIOUS
    <2>1. Set(w, x) /\ UNCHANGED <<changes, shown, db>>
      BY <1>2 DEF ReadRevision
    <2>2. DOMAIN e = Fields
      BY DEF IngestInv, ExecsOK, ExecOK
    <2>3. x.pc \in {"load", "page"}
      BY <2>2 DEF Fields
    <2>4. QED BY <2>1, <2>3, MergesNothing
  <1>3. QED BY <1>1, <1>2

LEMMA ReadPageMerge ==
    ASSUME IngestInv, MergeInv, NEW w \in Ingesters, ReadPage(w)
    PROVE  MergeInv'
  <1> PICK e : e = ing[w]
    OBVIOUS
  <1> PICK i : i = Least(e.todo)
    OBVIOUS
  <1> PICK v : v = ItemVersion(e.connection, i)
    OBVIOUS
  <1> PICK p : p = PageRevision(e.connection, i)
    OBVIOUS
  <1> PICK x : x = [e EXCEPT !.items = [e.items EXCEPT ![i] = v], !.page = p,
                             !.todo = e.todo \ {i},
                             !.pc = IF e.todo = {i} THEN "persist" ELSE "page"]
    OBVIOUS
  <1>1. CASE e.page \notin {NoPage, p}
    BY <1>1, QuitMerge DEF ReadPage
  <1>2. CASE e.page \in {NoPage, p}
    <2>1. Set(w, x) /\ UNCHANGED <<changes, shown, db>> /\ e.pc = "page"
      BY <1>2 DEF ReadPage
    <2>2. DOMAIN e = Fields /\ e.changed = {}
      BY <2>1 DEF IngestInv, ExecsOK, ExecOK
    <2>3. x.changed = {}
      BY <2>2 DEF Fields
    <2>4. QED BY <2>1, <2>3, MergesNothing
  <1>3. QED BY <1>1, <1>2

\* The merge starts from what is stored.
LEMMA LoadItemsMerge ==
    ASSUME IngestInv, MergeInv, NEW w \in Ingesters, LoadItems(w)
    PROVE  MergeInv'
  <1> PICK e : e = ing[w]
    OBVIOUS
  <1> PICK c : c = e.connection
    OBVIOUS
  <1> PICK x : x = [e EXCEPT !.pc = "fetch", !.items = StoredItems(e.connection),
                             !.todo = e.changed]
    OBVIOUS
  <1>1. Set(w, x) /\ UNCHANGED <<changes, shown, db>>
    BY DEF LoadItems
  <1>2. DOMAIN e = Fields
    BY DEF IngestInv, ExecsOK, ExecOK
  <1>3. /\ x.pc = "fetch" /\ x.items = StoredItems(c) /\ x.connection = c
        /\ x.todo = e.changed /\ x.changed = e.changed
    BY <1>2 DEF Fields
  <1>4. StoredItems(c)' = StoredItems(c)
    BY <1>1 DEF StoredItems, db
  <1>5. MergeOK(x)'
    BY <1>3, <1>4 DEF MergeOK, Fetched
  <1>6. QED BY <1>1, <1>5, OwnMergeStep

\* The next item is read as the tracker shows it now.
LEMMA MergeItem ==
    ASSUME IngestInv, MergeInv, NEW w \in Ingesters, NEW e, e = ing[w], e.pc = "fetch",
           NEW x, ReadsNext(x, e), x.changed = e.changed, x.revision = e.revision,
           Set(w, x), UNCHANGED <<changes, shown, db>>
    PROVE  MergeInv'
  <1> PICK i : i = Least(e.todo)
    OBVIOUS
  <1> PICK c : c = e.connection
    OBVIOUS
  <1>1. /\ x.pc = (IF e.todo = {i} THEN "persist" ELSE "fetch")
        /\ x.items = [e.items EXCEPT ![i] = ItemVersion(c, i)]
        /\ x.todo = e.todo \ {i} /\ x.connection = c /\ x.expected = e.expected
    BY DEF ReadsNext
  <1>2. ExecOK(e) /\ MergeOK(e)
    BY DEF IngestInv, ExecsOK, MergeInv
  <1>3. /\ Started(e) /\ Known(e) /\ e.changed # {}
        /\ e.todo # {} /\ e.todo \in SUBSET ItemIds
    BY <1>2 DEF ExecOK
  <1>4. c \in Connections /\ Tracked /\ e.changed \subseteq ItemIds
    BY <1>3, IssuedTypes DEF Started, IngestInv, TablesOK
  <1>5. /\ i \in e.todo /\ i \in ItemIds /\ ItemVersion(c, i) = VersionAt(c, i, Len(changes[c]))
        /\ Len(changes[c]) \in Nat
    <2>1. /\ Least(e.todo) \in e.todo /\ Len(changes[c]) \in Nat
          /\ ItemVersion(c, Least(e.todo)) = VersionAt(c, Least(e.todo), Len(changes[c]))
      BY <1>3, <1>4, NextItem
    <2>2. QED BY <1>3, <2>1
  <1>6. /\ x.items[i] = VersionAt(c, i, Len(changes[c]))
        /\ \A j \in ItemIds \ {i} : x.items[j] = e.items[j]
    BY <1>1, <1>3, <1>5 DEF Started, Snapshots
  <1>7. /\ e.todo \subseteq e.changed
        /\ \A j \in e.changed \ e.todo : \E r \in e.revision..Len(changes[c]) :
               e.items[j] = VersionAt(c, j, r)
        /\ cursor[c] = e.expected =>
               \A j \in ItemIds \ (e.changed \ e.todo) : e.items[j] = StoredItems(c)[j]
    BY <1>2, <1>3 DEF MergeOK, Fetched
  <1>8. Fetched(x) = (e.changed \ e.todo) \cup {i}
    BY <1>1, <1>5, <1>7 DEF Fetched
  <1>9. Len(changes[c]) \in e.revision..Len(changes[c])
    BY <1>3, <1>5 DEF Known
  <1>10. ASSUME NEW j \in Fetched(x)
         PROVE  \E r \in x.revision..Len(changes[c]) : x.items[j] = VersionAt(c, j, r)
    <2>1. CASE j = i
      BY <1>6, <1>9, <2>1
    <2>2. CASE j # i
      <3>1. j \in e.changed \ e.todo /\ j \in ItemIds
        BY <1>4, <1>8, <2>2
      <3>2. QED BY <1>6, <1>7, <2>2, <3>1
    <2>3. QED BY <2>1, <2>2
  <1>11. cursor[c] = x.expected =>
            \A j \in ItemIds \ Fetched(x) : x.items[j] = StoredItems(c)[j]
    BY <1>1, <1>6, <1>7, <1>8
  <1>12. MergeOK(x)
    BY <1>1, <1>7, <1>10, <1>11 DEF MergeOK
  <1>13. MergeOK(x)'
    BY <1>12, MergeStays DEF db
  <1>14. QED BY <1>13, OwnMergeStep

LEMMA FetchItemMerge ==
    ASSUME IngestInv, MergeInv, NEW w \in Ingesters, FetchItem(w)
    PROVE  MergeInv'
  <1> PICK e : e = ing[w]
    OBVIOUS
  <1> PICK i : i = Least(e.todo)
    OBVIOUS
  <1> PICK v : v = ItemVersion(e.connection, i)
    OBVIOUS
  <1> PICK x : x = [e EXCEPT !.items = [e.items EXCEPT ![i] = v], !.todo = e.todo \ {i},
                             !.pc = IF e.todo = {i} THEN "persist" ELSE "fetch"]
    OBVIOUS
  <1>1. Set(w, x) /\ UNCHANGED <<changes, shown, db>> /\ e.pc = "fetch"
    BY DEF FetchItem
  <1>2. DOMAIN e = Fields
    BY DEF IngestInv, ExecsOK, ExecOK
  <1>3. ReadsNext(x, e) /\ x.changed = e.changed /\ x.revision = e.revision
    BY <1>1, <1>2 DEF ReadsNext, Fields
  <1>4. QED BY <1>1, <1>3, MergeItem

\* Within the transaction what was read stays as it is.
LEMMA WriteMerge ==
    ASSUME IngestInv, MergeInv, NEW w \in Ingesters, NEW e, e = ing[w],
           e.pc \in {"persist"} \cup Writing, NEW x, Set(w, x), UNCHANGED <<changes, shown, db>>,
           x.pc \in Writing, SameRead(x, e)
    PROVE  MergeInv'
  <1>1. MergeOK(e)' /\ cursor' = cursor
    BY MergeStays DEF MergeInv, db
  <1>2. x.pc # "fetch" /\ e.pc # "fetch"
    BY DEF Writing
  <1>3. Fetched(x) = Fetched(e) /\ Fetched(x)' = Fetched(x) /\ Fetched(e)' = Fetched(e)
    BY <1>2 DEF Fetched, SameRead
  <1>4. MergeOK(x)'
    BY <1>1, <1>2, <1>3 DEF MergeOK, SameRead
  <1>5. QED BY <1>4, OwnMergeStep

LEMMA TransactionMerge ==
    ASSUME IngestInv, MergeInv, NEW w \in Ingesters,
           Fence(w) \/ AppendCycle(w) \/ UpsertProjection(w) \/ SelectFrontier(w) \/ UpsertFrontier(w)
    PROVE  MergeInv'
  <1> PICK e : e = ing[w]
    OBVIOUS
  <1>1. DOMAIN e = Fields
    BY DEF IngestInv, ExecsOK, ExecOK
  <1>2. CASE Fence(w)
    <2>1. CASE CursorMatches(e)
      <3> PICK x : x = [e EXCEPT !.pc = "append"]
        OBVIOUS
      <3>1. Set(w, x) /\ UNCHANGED <<changes, shown, db>> /\ e.pc = "persist"
        BY <1>2, <2>1 DEF Fence
      <3>2. x.pc = "append" /\ SameRead(x, e)
        BY <1>1 DEF Fields, SameRead
      <3>3. QED BY <3>1, <3>2, WriteMerge DEF Writing
    <2>2. QED BY <1>2, <2>1, QuitMerge DEF Fence
  <1>3. CASE AppendCycle(w)
    <2>1. CASE ~ Published(e)
      <3> PICK x : x = [e EXCEPT !.pc = "projections", !.todo = In(e.items)]
        OBVIOUS
      <3>1. Set(w, x) /\ UNCHANGED <<changes, shown, db>> /\ e.pc = "append"
        BY <1>3, <2>1 DEF AppendCycle
      <3>2. x.pc = "projections" /\ SameRead(x, e)
        BY <1>1 DEF Fields, SameRead
      <3>3. QED BY <3>1, <3>2, WriteMerge DEF Writing
    <2>2. QED BY <1>3, <2>1, QuitMerge DEF AppendCycle
  <1>4. CASE UpsertProjection(w)
    <2> PICK i : i = NextProjection(w)
      OBVIOUS
    <2> PICK x : x = [e EXCEPT !.todo = e.todo \ {i},
                               !.pc = IF e.todo = {i} THEN "frontier" ELSE "projections"]
      OBVIOUS
    <2>1. Set(w, x) /\ UNCHANGED <<changes, shown, db>> /\ e.pc = "projections"
      BY <1>4 DEF UpsertProjection
    <2>2. x.pc \in {"frontier", "projections"} /\ SameRead(x, e)
      BY <1>1 DEF Fields, SameRead
    <2>3. x.pc \in Writing /\ e.pc \in Writing
      BY <2>1, <2>2 DEF Writing
    <2>4. QED BY <2>1, <2>2, <2>3, WriteMerge
  <1>5. CASE SelectFrontier(w)
    <2> PICK x : x = [e EXCEPT !.pc = "publish", !.version = frontier.version]
      OBVIOUS
    <2>1. Set(w, x) /\ UNCHANGED <<changes, shown, db>> /\ e.pc = "frontier"
      BY <1>5 DEF SelectFrontier
    <2>2. x.pc = "publish" /\ SameRead(x, e)
      BY <1>1 DEF Fields, SameRead
    <2>3. QED BY <2>1, <2>2, WriteMerge DEF Writing
  <1>6. CASE UpsertFrontier(w)
    <2> PICK x : x = [e EXCEPT !.pc = "commit"]
      OBVIOUS
    <2>1. Set(w, x) /\ UNCHANGED <<changes, shown, db>> /\ e.pc = "publish"
      BY <1>6 DEF UpsertFrontier
    <2>2. x.pc = "commit" /\ SameRead(x, e)
      BY <1>1 DEF Fields, SameRead
    <2>3. QED BY <2>1, <2>2, WriteMerge DEF Writing
  <1>7. QED BY <1>2, <1>3, <1>4, <1>5, <1>6

\* A change at the tracker leaves the moments read before it in its history.
LEMMA ChangeMerge ==
    ASSUME IngestInv, MergeInv, NEW c \in Connections, NEW i \in ItemIds, Change(c, i)
    PROVE  MergeInv'
  <1>1. UNCHANGED <<cursor, rows, ing>>
    BY DEF Change, db
  <1>2. Grown
    BY ChangeGrows
  <1>3. \A d \in Connections : Len(changes[d]) \in Nat /\ Len(changes'[d]) \in Nat
    BY <1>2 DEF Grown, Tracked
  <1>4. ASSUME NEW o \in Ingesters, NEW e, e = ing[o] PROVE MergeOK(e)'
    <2>1. ExecOK(e) /\ MergeOK(e)
      BY <1>4 DEF IngestInv, ExecsOK, MergeInv
    <2>2. CASE e.pc \in {"fetch", "persist"} \cup Writing /\ e.changed # {}
      <3> PICK d : d = e.connection
        OBVIOUS
      <3>1. Started(e) /\ Known(e)
        BY <2>1, <2>2 DEF ExecOK, Writing
      <3>2. d \in Connections /\ e.changed \subseteq ItemIds /\ e.revision \in Nat
        <4>1. d \in Connections /\ e.changed \subseteq ItemIds
          BY <3>1, IssuedTypes DEF Started
        <4>2. QED BY <1>3, <3>1, <4>1 DEF Known
      <3>3. ASSUME NEW j \in Fetched(e)
            PROVE  \E r \in e.revision..Len(changes'[d]) : e.items[j] = VersionAt(d, j, r)'
        <4>1. PICK r \in e.revision..Len(changes[d]) : e.items[j] = VersionAt(d, j, r)
          BY <2>1, <2>2 DEF MergeOK
        <4>2. r \in 0..Len(changes[d]) /\ r \in e.revision..Len(changes'[d])
          BY <1>2, <1>3, <3>2, <4>1 DEF Grown
        <4>3. j \in ItemIds
          BY <3>2 DEF Fetched
        <4>4. VersionAt(d, j, r)' = VersionAt(d, j, r)
          BY <1>2, <3>2, <4>2, <4>3, VersionStays DEF Grown
        <4>5. QED BY <4>1, <4>2, <4>4
      <3>4. StoredItems(d)' = StoredItems(d) /\ Fetched(e)' = Fetched(e)
        BY <1>1 DEF StoredItems, Fetched
      <3>5. QED BY <1>1, <2>1, <2>2, <3>3, <3>4 DEF MergeOK
    <2>3. CASE ~ (e.pc \in {"fetch", "persist"} \cup Writing /\ e.changed # {})
      BY <2>3 DEF MergeOK
    <2>4. QED BY <2>2, <2>3
  <1>5. QED BY <1>1, <1>4 DEF MergeInv

\* A commit moves the cursor away from every other execution of its connection.
LEMMA CommitMerge ==
    ASSUME IngestInv, MergeInv, NEW w \in Ingesters, Commit(w)
    PROVE  MergeInv'
  <1> PICK e : e = ing[w]
    OBVIOUS
  <1> PICK c : c = e.connection
    OBVIOUS
  <1>1. /\ Known(e) /\ c \in Connections /\ cursor[c] = e.expected
        /\ changes' = changes /\ cursor' = [cursor EXCEPT ![c] = e.revision]
        /\ ing' = [ing EXCEPT ![w] = Idle]
    BY CommitEffect, SMTT(30)
  <1>2. /\ ing'[w] = Idle /\ \A o \in Ingesters \ {w} : ing'[o] = ing[o]
        /\ cursor \in [Connections -> Nat \cup {NoCursor}]
    BY <1>1 DEF IngestInv, ExecsOK, TablesOK
  <1>3. \A d \in Connections \ {c} : rows'[d] = rows[d] /\ cursor'[d] = cursor[d]
    BY <1>1, <1>2 DEF Commit, IngestInv, TablesOK
  <1>4. /\ cursor'[c] = e.revision /\ cursor[c] < e.revision /\ e.revision \in Nat
        /\ cursor[c] \in Nat \cup {NoCursor}
    <2>1. Len(changes[c]) \in Nat
      BY <1>1 DEF IngestInv, TablesOK, Tracked
    <2>2. QED BY <1>1, <1>2, <2>1 DEF Known
  <1>5. ASSUME NEW o \in Ingesters \ {w}, NEW x, x = ing[o] PROVE MergeOK(x)'
    <2>1. ExecOK(x) /\ MergeOK(x)
      BY <1>5 DEF IngestInv, ExecsOK, MergeInv
    <2>2. CASE x.pc \in {"fetch", "persist"} \cup Writing /\ x.changed # {}
      <3> PICK d : d = x.connection
        OBVIOUS
      <3>1. Started(x)
        BY <2>1, <2>2 DEF ExecOK, Writing
      <3>2. d \in Connections
        BY <3>1, IssuedTypes DEF Started
      <3>3. cursor'[d] = x.expected => d # c
        <4>1. x.expected \in Nat \cup {NoCursor} /\ x.expected <= cursor[d]
          BY <3>1 DEF Started
        <4>2. QED BY <1>4, <4>1 DEF NoCursor
      <3>4. d # c => StoredItems(d)' = StoredItems(d) /\ cursor'[d] = cursor[d]
        BY <1>3, <3>2 DEF StoredItems
      <3>5. \A j, r : VersionAt(d, j, r)' = VersionAt(d, j, r)
        BY <1>1 DEF VersionAt
      <3>6. Fetched(x)' = Fetched(x)
        BY DEF Fetched
      <3>7. QED BY <1>1, <2>1, <2>2, <3>3, <3>4, <3>5, <3>6 DEF MergeOK
    <2>3. CASE ~ (x.pc \in {"fetch", "persist"} \cup Writing /\ x.changed # {})
      BY <2>3 DEF MergeOK
    <2>4. QED BY <2>2, <2>3
  <1>6. MergeOK(Idle)'
    BY DEF MergeOK, Idle, Writing
  <1>7. ASSUME NEW o \in Ingesters PROVE MergeOK(ing[o])'
    <2>1. CASE o = w
      BY <1>2, <1>6, <2>1
    <2>2. CASE o # w
      <3>1. PICK x : x = ing[o]
        OBVIOUS
      <3>2. MergeOK(x)'
        BY <1>5, <2>2, <3>1
      <3>3. QED BY <1>2, <2>2, <3>1, <3>2
    <2>3. QED BY <2>1, <2>2
  <1>8. QED BY <1>7 DEF MergeInv

LEMMA NextMerge == ASSUME IngestInv, MergeInv, [Next]_vars PROVE MergeInv'
  <1>1. ASSUME NEW c \in Connections, NEW i \in ItemIds, Change(c, i) PROVE MergeInv'
    BY <1>1, ChangeMerge
  <1>2. ASSUME NEW w \in Ingesters, NEW m \in Commands, Begin(w, m) PROVE MergeInv'
    BY <1>2, BeginMerge
  <1>3. ASSUME NEW w \in Ingesters, Step(w) PROVE MergeInv'
    BY <1>3, ReadRevisionMerge, LoadItemsMerge, FetchItemMerge, ReadPageMerge,
       TransactionMerge, CommitMerge DEF Step
  <1>4. ASSUME NEW w \in Ingesters, Abort(w) PROVE MergeInv'
    BY <1>4, QuitMerge DEF Abort
  <1>5. ASSUME UNCHANGED vars PROVE MergeInv'
    <2>1. ing' = ing /\ UNCHANGED <<changes, cursor, rows>>
      BY <1>5 DEF vars
    <2>2. ASSUME NEW o \in Ingesters PROVE MergeOK(ing[o])'
      <3>1. PICK e : e = ing[o]
        OBVIOUS
      <3>2. MergeOK(e)'
        BY <2>1, <3>1, MergeStays DEF MergeInv
      <3>3. QED BY <2>1, <3>1, <3>2
    <2>3. QED BY <2>2 DEF MergeInv
  <1>6. QED BY <1>1, <1>2, <1>3, <1>4, <1>5 DEF Next

\* Redelivered, concurrent and failing executions: an incremental one that passes
\* the fence holds what is stored, and each changed item as it was at a moment since
\* the revision it records, with either kind of adapter.
THEOREM MergeInvariant == Spec => []MergeInv
  <1>1. Init => MergeInv
    BY DEF Init, MergeInv, MergeOK, Idle, Writing
  <1>2. IngestInv /\ MergeInv /\ [Next]_vars => MergeInv'
    BY NextMerge
  <1>3. QED BY <1>1, <1>2, IngestInvariant, PTL DEF Spec

-----------------------------------------------------------------------------
(* The refinement: a commit is one decision of DecisionLog, every other    *)
(* step an edit at the tracker or nothing.                                 *)

\* Both modules read the tracker alike.
LEMMA TrackersAgree ==
    ASSUME NEW c, NEW r
    PROVE  /\ \A i : Log!Version(c, i, r) = VersionAt(c, i, r)
           /\ Log!Tracker(c, r) = ContentAt(c, r)
  <1>1. \A i : Log!Version(c, i, r) = VersionAt(c, i, r)
    BY DEF Log!Version, VersionAt, Greatest
  <1>2. QED BY <1>1 DEF Log!Tracker, ContentAt, Log!Missing, Unread

\* What is committed is what the command may decide on.
LEMMA CommitReads ==
    ASSUME IngestInv, MergeInv, NEW w \in Ingesters, Commit(w), NEW e, e = ing[w],
           NEW m \in Commands, e.connection = m.connection, e.changed = m.changed
    PROVE  e.items \in Log!Readings(m, e.revision)
  <1> PICK c : c = m.connection
    OBVIOUS
  <1> DEFINE corpus == [d \in Connections |-> StoredItems(d)]
             Merged(moment) == [i \in ItemIds |-> IF i \in m.changed THEN VersionAt(c, i, moment[i])
                                                  ELSE corpus[c][i]]
  <1>1. /\ e.pc = "commit" /\ Started(e) /\ Known(e) /\ c \in Connections
        /\ e.changed = {} => WholeRead(e)
        /\ cursor[c] = e.expected
    BY CommitEffect, SMTT(30)
  <1>2. Log!Since(c, e.revision) = e.revision..Len(changes[c])
    BY DEF Log!Since
  <1>3. CASE m.changed = {}
    <2>1. PICK r \in e.revision..Len(changes[c]) : e.items = ContentAt(c, r)
      BY <1>1, <1>3 DEF WholeRead
    <2>2. e.items = Log!Tracker(c, r)
      BY <2>1, TrackersAgree
    <2>3. QED BY <1>2, <1>3, <2>1, <2>2 DEF Log!Readings
  <1>4. CASE m.changed # {}
    <2>1. MergeOK(e) /\ Fetched(e) = m.changed
      BY <1>1 DEF MergeInv, Fetched
    <2>2. /\ \A i \in m.changed : \E r \in e.revision..Len(changes[c]) :
                 e.items[i] = VersionAt(c, i, r)
          /\ \A i \in ItemIds \ m.changed : e.items[i] = StoredItems(c)[i]
      BY <1>1, <1>4, <2>1 DEF MergeOK, Writing
    <2>3. PICK moment : moment = [i \in m.changed |->
              CHOOSE r \in e.revision..Len(changes[c]) : e.items[i] = VersionAt(c, i, r)]
      OBVIOUS
    <2>4. \A i \in m.changed : /\ moment[i] \in e.revision..Len(changes[c])
                               /\ e.items[i] = VersionAt(c, i, moment[i])
      BY <2>2, <2>3
    <2>5. moment \in [m.changed -> Log!Since(c, e.revision)]
      BY <1>2, <2>3, <2>4
    <2>6. e.items = Merged(moment)
      <3>1. e.items = [i \in ItemIds |-> e.items[i]]
        BY <1>1 DEF Started, Snapshots
      <3>2. \A i \in ItemIds : e.items[i] = IF i \in m.changed THEN VersionAt(c, i, moment[i])
                                            ELSE corpus[c][i]
        BY <1>1, <2>2, <2>4
      <3>3. QED BY <3>1, <3>2
    <2>7. \A i, r : Log!Version(c, i, r) = VersionAt(c, i, r)
      BY TrackersAgree
    <2>8. e.items = [i \in ItemIds |-> IF i \in m.changed THEN Log!Version(c, i, moment[i])
                                       ELSE corpus[c][i]]
      BY <2>6, <2>7
    <2>9. QED BY <1>4, <2>5, <2>8 DEF Log!Readings
  <1>5. QED BY <1>3, <1>4

\* The tables a commit leaves are those of the decision.
LEMMA CommitStores ==
    ASSUME OwnRevisions, IngestInv, FreshInv, NEW w \in Ingesters, Commit(w),
           NEW e, e = ing[w], NEW c, c = e.connection
    PROVE  /\ StoredItems(c)' = e.items
           /\ \A d \in Connections \ {c} : StoredItems(d)' = StoredItems(d)
           /\ \A i \in ItemIds : StoredItems(c)[i] <= e.items[i]
  <1> PICK n : n = Len(cycles) + 1
    OBVIOUS
  <1>1. /\ e.pc = "commit" /\ c \in Connections /\ cursor[c] = e.expected
        /\ cycles'[n] = Cycle(e) /\ CyclesOf(c)' = CyclesOf(c) \cup {n}
    BY CommitEffect, SMTT(30)
  <1>2. Greatest(CyclesOf(c)') = n
    BY CommitLinks
  <1>3. FreshInv'
    BY CommitFresh
  <1>4. StoredItems(c)' = e.items
    <2>1. StoredItems(c)' = cycles'[n].snapshot
      BY <1>1, <1>2, <1>3 DEF FreshInv, StoredItemsAreLatest
    <2>2. QED BY <1>1, <2>1 DEF Cycle
  <1>5. \A d \in Connections \ {c} : StoredItems(d)' = StoredItems(d)
    <2>1. \A d \in Connections \ {c} : rows'[d] = rows[d]
      BY DEF Commit, IngestInv, TablesOK
    <2>2. QED BY <2>1 DEF StoredItems
  <1>6. \A i \in ItemIds : StoredItems(c)[i] <= e.items[i]
    BY <1>1 DEF FreshInv, FreshOK, NotOutdated, Writing
  <1>7. QED BY <1>4, <1>5, <1>6

LEMMA CommitDecides ==
    ASSUME OwnRevisions, IngestInv, FreshInv, MergeInv, NEW w \in Ingesters, Commit(w)
    PROVE  \E m \in Commands : Log!Decide(m)
  <1> PICK e : e = ing[w]
    OBVIOUS
  <1> DEFINE corpus == [d \in Connections |-> StoredItems(d)]
  <1>1. /\ Started(e) /\ Known(e) /\ ~ Published(e) /\ Issued(e)
        /\ cursor[e.connection] = e.expected /\ e.connection \in Connections
        /\ changes' = changes /\ cursor' = [cursor EXCEPT ![e.connection] = e.revision]
    BY CommitEffect, SMTT(30)
  <1>2. PICK m \in Commands :
           e.cmd = m.cycle_id /\ e.connection = m.connection /\ e.changed = m.changed
    BY <1>1 DEF Issued
  <1> DEFINE c == m.connection
  <1>3. \A k \in 1..Len(cycles) : cycles[k].id # m.cycle_id
    BY <1>1, <1>2 DEF Published
  <1>4. e.revision \in (cursor[c] + 1)..Len(changes[c])
    <2>1. Len(changes[c]) \in Nat /\ cursor[c] \in Nat \cup {NoCursor}
      BY <1>1, <1>2 DEF IngestInv, TablesOK, Tracked
    <2>2. e.revision \in 0..Len(changes[c]) /\ cursor[c] < e.revision
      BY <1>1, <1>2 DEF Known
    <2>3. QED BY <2>1, <2>2 DEF NoCursor
  <1>5. e.items \in Log!Readings(m, e.revision)
    BY <1>2, CommitReads
  <1>6. /\ StoredItems(c)' = e.items
        /\ \A d \in Connections \ {c} : StoredItems(d)' = StoredItems(d)
        /\ \A i \in ItemIds : StoredItems(c)[i] <= e.items[i]
    BY <1>2, CommitStores
  <1>7. [d \in Connections |-> StoredItems(d)'] = [corpus EXCEPT ![c] = e.items]
    BY <1>1, <1>2, <1>6
  <1>8. \A i \in ItemIds : corpus[c][i] <= e.items[i]
    BY <1>1, <1>2, <1>6
  <1>9. cycles' = Append(cycles, [id |-> m.cycle_id, connection |-> c, changed |-> m.changed,
                                  expected |-> cursor[c], revision |-> e.revision,
                                  snapshot |-> e.items])
    BY <1>1, <1>2 DEF Commit, Cycle
  <1>10. /\ frontier'.active = m.cycle_id
         /\ projections' = [i \in ItemIds |-> IF e.items[i] # Log!Missing THEN m.cycle_id
                                              ELSE projections[i]]
    BY <1>2 DEF Commit, In, Log!Missing, Unread
  <1> DEFINE Done(revision, snapshot) ==
                /\ \A i \in ItemIds : corpus[c][i] <= snapshot[i]
                /\ cursor' = [cursor EXCEPT ![c] = revision]
                /\ corpus' = [corpus EXCEPT ![c] = snapshot]
                /\ cycles' = Append(cycles, [id |-> m.cycle_id, connection |-> c,
                                             changed |-> m.changed, expected |-> cursor[c],
                                             revision |-> revision, snapshot |-> snapshot])
                /\ projections' = [i \in ItemIds |-> IF snapshot[i] # Log!Missing
                                                      THEN m.cycle_id ELSE projections[i]]
  <1>11. Done(e.revision, e.items)
    BY <1>1, <1>2, <1>7, <1>8, <1>9, <1>10
  <1>12. \E revision \in (cursor[c] + 1)..Len(changes[c]) :
            \E snapshot \in Log!Readings(m, revision) : Done(revision, snapshot)
    <2> HIDE DEF Done
    <2>1. QED BY <1>4, <1>5, <1>11
  <1>13. Log!Decide(m)
    BY <1>1, <1>3, <1>10, <1>12, Zenon DEF Log!Decide
  <1>14. QED BY <1>13

\* Where every version of an item has a revision of its own, decision cycle
\* persistence implements DecisionLog: concurrent, redelivered and failing executions
\* of persist take effect at their commits only, each as one decision on what was read
\* since the revision it records, merged into the corpus decided last.
THEOREM CyclesImplementLog == OwnRevisions => (Spec => CyclesAreAtomic)
  <1> SUFFICES ASSUME OwnRevisions PROVE Spec => CyclesAreAtomic
    OBVIOUS
  <1>1. Init => Log!LogInit
    BY DEF Init, Log!LogInit, Log!Missing, NoCursor, StoredItems, Unread
  <1>2. IngestInv /\ FreshInv /\ MergeInv /\ [Next]_vars => [Log!LogNext]_Log!logVars
    <2> SUFFICES ASSUME IngestInv, FreshInv, MergeInv, [Next]_vars,
                        ~ UNCHANGED Log!logVars
                 PROVE  Log!LogNext
      OBVIOUS
    <2>1. ASSUME UNCHANGED <<changes, shown, cursor, rows, cycles, projections, frontier>> PROVE FALSE
      <3>1. \A c : StoredItems(c)' = StoredItems(c)
        BY <2>1 DEF StoredItems
      <3>2. QED BY <2>1, <3>1 DEF Log!logVars
    <2>2. ~ UNCHANGED vars /\ \A w : ~ Quit(w) /\ ~ (\E x : Set(w, x) /\ UNCHANGED <<changes, shown, db>>)
      BY <2>1 DEF vars, Quit, db
    <2>3. ASSUME NEW c \in Connections, NEW i \in ItemIds, Change(c, i) PROVE Log!LogNext
      <3>1. UNCHANGED <<cursor, rows, cycles, projections, frontier>> /\ i \in ItemsOf[c]
            /\ changes' = [changes EXCEPT ![c] = Append(@, i)]
        BY <2>3 DEF Change, db
      <3>2. \A d : StoredItems(d)' = StoredItems(d)
        BY <3>1 DEF StoredItems
      <3>3. Log!Edit(c, i)
        BY <3>1, <3>2 DEF Log!Edit
      <3>4. QED BY <3>3 DEF Log!LogNext
    <2>4. ASSUME NEW w \in Ingesters, Commit(w) PROVE Log!LogNext
      BY <2>4, CommitDecides DEF Log!LogNext
    <2>5. ASSUME NEW w \in Ingesters, NEW m \in Commands, Begin(w, m) PROVE FALSE
      BY <2>2, <2>5 DEF Begin
    <2>6. ASSUME NEW w \in Ingesters, Step(w), ~ Commit(w) PROVE FALSE
      BY <2>2, <2>6 DEF Step, ReadRevision, LoadItems, FetchItem, ReadPage, Fence, AppendCycle,
                        UpsertProjection, SelectFrontier, UpsertFrontier
    <2>7. ASSUME NEW w \in Ingesters, Abort(w) PROVE FALSE
      BY <2>2, <2>7 DEF Abort
    <2>8. QED BY <2>2, <2>3, <2>4, <2>5, <2>6, <2>7 DEF Next
  <1>3. QED BY <1>1, <1>2, IngestInvariant, FreshInvariant, MergeInvariant, PTL
            DEF Spec, CyclesAreAtomic, Log!LogSpec
=============================================================================
