----------------------------- MODULE Ingestion -----------------------------
(***************************************************************************)
(* Ingestion and the atomic decision cycle: application/ingestion.py reads *)
(* a tracker through a connection adapter, and                             *)
(* platform/persistence/decision_cycles.py publishes what was read in one  *)
(* PostgreSQL transaction behind a fence on the connection's source cursor.*)
(*                                                                         *)
(* Ingesters are concurrent executions of commands; a command may be       *)
(* executed more than once (queue redelivery) and by two ingesters at the  *)
(* same time.  Every await and every adapter call is a step of its own.    *)
(*                                                                         *)
(* The tracker is the sequence of its changes: change n gives item         *)
(* changes[c][n] its version n, and the source revision is the number of   *)
(* the latest change that shows in it.  Item content is abstracted to its  *)
(* version.                                                                *)
(***************************************************************************)
EXTENDS Integers, Sequences, FiniteSets

CONSTANTS
    Connections,        \* connections of one workspace
    ItemIds,            \* item identifiers; naturals, because writes sort by them
    ItemsOf,            \* the items each connection's tracker holds
    Commands,           \* the ingestion commands of the workspace
    Ingesters,          \* concurrent executions
    MaxChanges,         \* bound: how often each tracker changes
    Faults,             \* whether executions may fail or crash
    Adapter             \* per connection: "memory" (also fixture and local) or "github"

(* changed is empty for a full ingestion.                                  *)
Command == [cycle_id : Nat \ {0}, connection : Connections, changed : SUBSET ItemIds]

ASSUME IngestionAssumption ==
    /\ ItemIds \subseteq Nat /\ IsFiniteSet(ItemIds)
    /\ ItemsOf \in [Connections -> (SUBSET ItemIds) \ {{}}]
    /\ Commands \subseteq Command
    /\ \A m, n \in Commands : m.cycle_id = n.cycle_id => m = n
    /\ \A m \in Commands : m.changed \subseteq ItemsOf[m.connection]
    /\ MaxChanges \in [Connections -> Nat]
    /\ Faults \in BOOLEAN
    /\ Adapter \in [Connections -> {"memory", "github"}]

VARIABLES
    changes,            \* per connection: the items changed at the tracker, in order
    shown,              \* per connection: the latest change its source revision shows
    cursor,             \* source_cursors: per connection, -1 while there is no row
    rows,               \* source_item_versions: per connection and item, in insertion order
    cycles,             \* decision_cycles with their snapshots, in commit order
    projections,        \* current_projections: per item the cycle it derives from, or 0
    frontier,           \* workspace_frontiers: active cycle and version, 0 and 0 if no row
    ing                 \* per ingester: its progress and its open transaction

db == <<cursor, rows, cycles, projections, frontier>>
vars == <<changes, shown, cursor, rows, cycles, projections, frontier, ing>>

NoCursor == -1
Unread == -1                            \* "no such item in this corpus"
NoItems == [i \in ItemIds |-> Unread]
In(items) == {i \in ItemIds : items[i] # Unread}
NoPage == <<>>
Least(S) == CHOOSE i \in S : \A j \in S : i <= j
Greatest(S) == CHOOSE i \in S : \A j \in S : j <= i

-----------------------------------------------------------------------------
(* The tracker, as the adapters show it.                                   *)

(* current_revision: of the whole corpus, except that GitHub's is the ETag *)
(* or the time of the repository, which an edited issue need not change.   *)
SourceRevision(c) == shown[c]

VersionAt(c, i, revision) ==
    Greatest({0} \cup {n \in 1..revision : changes[c][n] = i})

ItemVersion(c, i) == VersionAt(c, i, Len(changes[c]))

(* Mutant: every version of an item has the item's own identity.           *)
ItemRevisionNode(c, i, version) == <<i>>

(* SourceItem.revision: GitHub issues carry their node id, which no edit   *)
(* changes.                                                                *)
ItemRevision(c, i, version) ==
    IF Adapter[c] = "github" THEN <<i>> ELSE <<i, version>>

(* Mutant: pages of different revisions look alike.                        *)
PageRevisionIgnored(c, i) == <<0>>

(* SourcePage.source_revision: the adapter's revision, except that GitHub  *)
(* pages each have an ETag of their own.                                   *)
PageRevision(c, i) ==
    IF Adapter[c] = "github" THEN <<i, ItemVersion(c, i)>> ELSE <<SourceRevision(c)>>

Change(c, i) ==
    /\ Len(changes[c]) < MaxChanges[c]
    /\ i \in ItemsOf[c]
    /\ changes' = [changes EXCEPT ![c] = Append(@, i)]
    /\ \/ shown' = [shown EXCEPT ![c] = Len(changes[c]) + 1]
       \/ Adapter[c] = "github" /\ UNCHANGED shown
    /\ UNCHANGED <<db, ing>>

-----------------------------------------------------------------------------
(* Executions.  items holds the versions read so far, todo the items the   *)
(* current loop still has to visit.                                        *)

Reading == {"revision", "load", "fetch", "page", "persist"}
Writing == {"append", "projections", "frontier", "publish", "commit"}

Idle == [pc |-> "idle", cmd |-> 0, connection |-> 0, changed |-> {}, expected |-> NoCursor,
         revision |-> 0, page |-> NoPage, items |-> NoItems, todo |-> {}, version |-> 0]

InWrite(w, c) == ing[w].pc \in Writing /\ ing[w].connection = c

Set(w, execution) == ing' = [ing EXCEPT ![w] = execution]

Quit(w) == Set(w, Idle) /\ UNCHANGED <<changes, shown, db>>

(* The cursor is read first; the tracker's revision only afterwards.       *)
Begin(w, m) ==
    /\ ing[w].pc = "idle"
    /\ Set(w, [Idle EXCEPT !.pc = "revision", !.cmd = m.cycle_id,
                           !.connection = m.connection, !.changed = m.changed,
                           !.expected = cursor[m.connection]])
    /\ UNCHANGED <<changes, shown, db>>

(* Mutant: a connection that was read once needs no second reading.        *)
ReplayedOnceRead(e) == e.expected # NoCursor

Replayed(e) == SourceRevision(e.connection) = e.expected

(* An unchanged revision is an idempotent replay: nothing is written.      *)
ReadRevision(w) ==
    LET e == ing[w]
        r == SourceRevision(e.connection)
    IN  /\ e.pc = "revision"
        /\ IF Replayed(e)
           THEN Quit(w)
           ELSE /\ Set(w, IF e.changed = {}
                          THEN [e EXCEPT !.pc = "page", !.revision = r,
                                         !.todo = ItemsOf[e.connection]]
                          ELSE [e EXCEPT !.pc = "load", !.revision = r])
                /\ UNCHANGED <<changes, shown, db>>

(* Mutant: the first version ever stored.                                  *)
StoredItemsFirst(c) ==
    [i \in ItemIds |-> IF rows[c][i] = << >> THEN Unread ELSE rows[c][i][1].version]

(* load_source_items: the latest committed version of every stored item.   *)
StoredItems(c) ==
    [i \in ItemIds |-> IF rows[c][i] = << >> THEN Unread
                       ELSE rows[c][i][Len(rows[c][i])].version]

LoadItems(w) ==
    /\ ing[w].pc = "load"
    /\ Set(w, [ing[w] EXCEPT !.pc = "fetch", !.items = StoredItems(ing[w].connection),
                             !.todo = ing[w].changed])
    /\ UNCHANGED <<changes, shown, db>>

FetchItem(w) ==
    LET e == ing[w]
        i == Least(e.todo)
    IN  /\ e.pc = "fetch"
        /\ Set(w, [e EXCEPT !.items = [e.items EXCEPT ![i] = ItemVersion(e.connection, i)],
                            !.todo = e.todo \ {i},
                            !.pc = IF e.todo = {i} THEN "persist" ELSE "fetch"])
        /\ UNCHANGED <<changes, shown, db>>

(* One item per page.  A page of another revision ends the execution.      *)
ReadPage(w) ==
    LET e == ing[w]
        i == Least(e.todo)
        p == PageRevision(e.connection, i)
    IN  /\ e.pc = "page"
        /\ IF e.page \notin {NoPage, p}
           THEN Quit(w)
           ELSE /\ Set(w, [e EXCEPT !.items = [e.items EXCEPT ![i] = ItemVersion(e.connection, i)],
                                    !.page = p,
                                    !.todo = e.todo \ {i},
                                    !.pc = IF e.todo = {i} THEN "persist" ELSE "page"])
                /\ UNCHANGED <<changes, shown, db>>

-----------------------------------------------------------------------------
(* persist: one transaction.  Its rows become visible when it commits; the *)
(* rows it has written stay locked until then, and a statement that meets  *)
(* a locked row waits.                                                     *)

(* Mutant: the cursor is set without comparing it.                         *)
CursorMatchesAlways(e) == TRUE

CursorMatches(e) == cursor[e.connection] = e.expected

(* _fence_source_cursor: a moved cursor is a StaleSourceCursorError.       *)
Fence(w) ==
    LET e == ing[w]
    IN  /\ e.pc = "persist"
        /\ \A other \in Ingesters : ~ InWrite(other, e.connection)
        /\ IF CursorMatches(e)
           THEN Set(w, [e EXCEPT !.pc = "append"]) /\ UNCHANGED <<changes, shown, db>>
           ELSE Quit(w)

Published(e) == \E k \in 1..Len(cycles) : cycles[k].id = e.cmd

(* Source versions, cycle and decisions: rows of its own.  A cycle id that *)
(* was already used is refused by the primary key.                         *)
AppendCycle(w) ==
    LET e == ing[w]
    IN  /\ e.pc = "append"
        /\ IF Published(e)
           THEN Quit(w)
           ELSE /\ Set(w, [e EXCEPT !.pc = "projections", !.todo = In(e.items)])
                /\ UNCHANGED <<changes, shown, db>>

(* Mutant: projections are written in whatever order the solver left.      *)
NextProjectionUnsorted(w) ==
    IF ing[w].changed = {} THEN Greatest(ing[w].todo) ELSE Least(ing[w].todo)

NextProjection(w) == Least(ing[w].todo)

HoldsProjection(w, i) ==
    /\ ing[w].pc \in Writing \ {"append"}
    /\ i \in In(ing[w].items)
    /\ ing[w].pc = "projections" => i \notin ing[w].todo

(* _replace_projections, and after its last row the audit event and the    *)
(* outbox intent, which are rows of its own again.                         *)
UpsertProjection(w) ==
    LET e == ing[w]
        i == NextProjection(w)
    IN  /\ e.pc = "projections"
        /\ \A other \in Ingesters \ {w} : ~ HoldsProjection(other, i)
        /\ Set(w, [e EXCEPT !.todo = e.todo \ {i},
                            !.pc = IF e.todo = {i} THEN "frontier" ELSE "projections"])
        /\ UNCHANGED <<changes, shown, db>>

(* SELECT ... FOR UPDATE locks the frontier row if there is one.           *)
HoldsFrontier(w) ==
    \/ ing[w].pc = "commit"
    \/ ing[w].pc = "publish" /\ ing[w].version > 0

FrontierFree(w) == \A other \in Ingesters \ {w} : ~ HoldsFrontier(other)

SelectFrontier(w) ==
    /\ ing[w].pc = "frontier"
    /\ frontier.version = 0 \/ FrontierFree(w)
    /\ Set(w, [ing[w] EXCEPT !.pc = "publish", !.version = frontier.version])
    /\ UNCHANGED <<changes, shown, db>>

UpsertFrontier(w) ==
    /\ ing[w].pc = "publish"
    /\ FrontierFree(w)
    /\ Set(w, [ing[w] EXCEPT !.pc = "commit"])
    /\ UNCHANGED <<changes, shown, db>>

(* ON CONFLICT DO NOTHING: a revision already stored keeps its first row.  *)
StoreVersion(c, stored, i, v) ==
    IF \E k \in 1..Len(stored) : stored[k].revision = ItemRevision(c, i, v)
    THEN stored
    ELSE Append(stored, [revision |-> ItemRevision(c, i, v), version |-> v])

Cycle(e) ==
    [id |-> e.cmd, connection |-> e.connection, changed |-> e.changed,
     expected |-> e.expected, revision |-> e.revision, snapshot |-> e.items]

Commit(w) ==
    LET e == ing[w]
    IN  /\ e.pc = "commit"
        /\ cursor' = [cursor EXCEPT ![e.connection] = e.revision]
        /\ rows' = [rows EXCEPT ![e.connection] =
               [i \in ItemIds |-> IF i \in In(e.items)
                                  THEN StoreVersion(e.connection, rows[e.connection][i], i, e.items[i])
                                  ELSE rows[e.connection][i]]]
        /\ cycles' = Append(cycles, Cycle(e))
        /\ projections' = [i \in ItemIds |-> IF i \in In(e.items)
                                             THEN e.cmd ELSE projections[i]]
        /\ frontier' = [active |-> e.cmd, version |-> e.version + 1]
        /\ Set(w, Idle)
        /\ UNCHANGED <<changes, shown>>

(* An adapter fault, a crash or a failure at any boundary of the           *)
(* transaction: everything it wrote is rolled back.                        *)
Abort(w) ==
    /\ Faults
    /\ ing[w].pc # "idle"
    /\ Quit(w)

-----------------------------------------------------------------------------
Init ==
    /\ changes = [c \in Connections |-> << >>]
    /\ shown = [c \in Connections |-> 0]
    /\ cursor = [c \in Connections |-> NoCursor]
    /\ rows = [c \in Connections |-> [i \in ItemIds |-> << >>]]
    /\ cycles = << >>
    /\ projections = [i \in ItemIds |-> 0]
    /\ frontier = [active |-> 0, version |-> 0]
    /\ ing = [w \in Ingesters |-> Idle]

Step(w) ==
    \/ ReadRevision(w)
    \/ LoadItems(w)
    \/ FetchItem(w)
    \/ ReadPage(w)
    \/ Fence(w)
    \/ AppendCycle(w)
    \/ UpsertProjection(w)
    \/ SelectFrontier(w)
    \/ UpsertFrontier(w)
    \/ Commit(w)

Next ==
    \/ \E c \in Connections, i \in ItemIds : Change(c, i)
    \/ \E w \in Ingesters, m \in Commands : Begin(w, m)
    \/ \E w \in Ingesters : Step(w)
    \/ \E w \in Ingesters : Abort(w)

Spec == Init /\ [][Next]_vars

(* Started executions go on, and every command is executed again and       *)
(* again: the scheduler triggers reconciliation periodically.              *)
Fairness ==
    /\ \A w \in Ingesters : WF_vars(Step(w))
    /\ \A m \in Commands : SF_vars(\E w \in Ingesters : Begin(w, m))

FairSpec == Spec /\ Fairness

-----------------------------------------------------------------------------
Snapshots == [ItemIds -> Nat \cup {Unread}]
StoredRow == [revision : Seq(Nat), version : Nat]

Execution ==
    [pc : {"idle"} \cup Reading \cup Writing, cmd : Nat, connection : Connections \cup {0},
     changed : SUBSET ItemIds, expected : Nat \cup {NoCursor}, revision : Nat,
     page : Seq(Nat), items : Snapshots, todo : SUBSET ItemIds, version : Nat]

DecisionCycle ==
    [id : Nat \ {0}, connection : Connections, changed : SUBSET ItemIds,
     expected : Nat \cup {NoCursor}, revision : Nat, snapshot : Snapshots]

(* Type correctness of the tracker, the tables and the executions.         *)
TypeOK ==
    /\ changes \in [Connections -> Seq(ItemIds)]
    /\ shown \in [Connections -> Nat]
    /\ cursor \in [Connections -> Nat \cup {NoCursor}]
    /\ rows \in [Connections -> [ItemIds -> Seq(StoredRow)]]
    /\ cycles \in Seq(DecisionCycle)
    /\ projections \in [ItemIds -> Nat]
    /\ frontier \in [active : Nat, version : Nat]
    /\ ing \in [Ingesters -> Execution]

CyclesOf(c) == {k \in 1..Len(cycles) : cycles[k].connection = c}

(* No cycle k' of the connection lies between k and l.                     *)
Consecutive(k, l, c) ==
    k \in CyclesOf(c) /\ l \in CyclesOf(c) /\ k < l /\ \A n \in CyclesOf(c) : n <= k \/ l <= n

(* The committed cycles of a connection form one chain: each starts from   *)
(* the revision its predecessor left in the cursor and moves it strictly   *)
(* forward, whatever the order in which concurrent and redelivered         *)
(* executions read, stall and commit.                                      *)
CyclesChain ==
    \A c \in Connections :
        /\ \A k, l \in CyclesOf(c) : Consecutive(k, l, c) => cycles[l].expected = cycles[k].revision
        /\ \A k \in CyclesOf(c) : cycles[k].expected < cycles[k].revision
        /\ cursor[c] = IF CyclesOf(c) = {} THEN NoCursor
                       ELSE cycles[Greatest(CyclesOf(c))].revision

(* No cycle replaces an item by an older version of it: an incremental     *)
(* execution that merged stored items never overwrites newer ones, and     *)
(* never loses an item.                                                    *)
SnapshotsNeverRegress ==
    \A c \in Connections : \A k, l \in CyclesOf(c) : Consecutive(k, l, c) =>
        \A i \in ItemIds : cycles[k].snapshot[i] <= cycles[l].snapshot[i]

ContentAt(c, revision) ==
    [i \in ItemIds |-> IF i \in ItemsOf[c] THEN VersionAt(c, i, revision) ELSE Unread]

(* A full cycle is the tracker as it was at one moment, and not before the *)
(* revision the cycle records, although it is read page by page while the  *)
(* tracker changes: the cursor never claims more than was read.            *)
FullCyclesConsistent ==
    \A k \in 1..Len(cycles) : cycles[k].changed = {} =>
        LET c == cycles[k].connection
        IN  \E r \in cycles[k].revision..Len(changes[c]) :
                cycles[k].snapshot = ContentAt(c, r)

(* What source_item_versions holds last for an item is what the            *)
(* connection's latest cycle decided on: the next incremental execution    *)
(* merges into exactly that corpus.                                        *)
StoredItemsAreLatest ==
    \A c \in Connections : CyclesOf(c) # {} =>
        StoredItems(c) = cycles[Greatest(CyclesOf(c))].snapshot

WaitsFor(w, other) ==
    \/ ing[w].pc = "persist" /\ InWrite(other, ing[w].connection)
    \/ ing[w].pc = "projections" /\ HoldsProjection(other, NextProjection(w))
    \/ ing[w].pc = "frontier" /\ frontier.version > 0 /\ HoldsFrontier(other)
    \/ ing[w].pc = "publish" /\ HoldsFrontier(other)

(* No two transactions wait for each other's rows: cursor, projections in  *)
(* item order and frontier are always locked in this order, also between   *)
(* connections that share items.                                           *)
NoLockCycle ==
    \A w \in Ingesters : \A other \in Ingesters \ {w} : ~ (WaitsFor(w, other) /\ WaitsFor(other, w))

InSync(c) ==
    /\ CyclesOf(c) # {}
    /\ cycles[Greatest(CyclesOf(c))].snapshot = ContentAt(c, Len(changes[c]))

(* Once the tracker stops changing, the decisions of every connection that *)
(* is read in full catch up with it: reconciliation heals whatever was     *)
(* missed.  Not so a GitHub repository, although it is read and decided on *)
(* in between: a full read of several pages meets several ETags and gives  *)
(* up, an edit may not show in the repository's revision, and items of one *)
(* identity are stored in their first version only.                        *)
EventuallyInSync ==
    \A c \in Connections : Adapter[c] # "github" => <>[]InSync(c)

(* Every projection derives from the latest cycle that decided its item,   *)
(* and no command is published twice however often it is executed.         *)
ProjectionsDerive ==
    /\ \A i \in ItemIds :
           LET deciding == {k \in 1..Len(cycles) : i \in In(cycles[k].snapshot)}
           IN  projections[i] = IF deciding = {} THEN 0 ELSE cycles[Greatest(deciding)].id
    /\ \A k, l \in 1..Len(cycles) : cycles[k].id = cycles[l].id => k = l

(* The derived tables follow the cycles, whatever failed between the seven *)
(* writes of a transaction: stored items are those of the latest cycle,    *)
(* projections those of the latest one that decided the item.              *)
TablesFollowCycles == StoredItemsAreLatest /\ ProjectionsDerive

Log == INSTANCE DecisionLog
       WITH corpus <- [c \in Connections |-> StoredItems(c)],
            log <- cycles, active <- frontier.active

(* Decision cycle persistence implements DecisionLog: executions that read *)
(* at different moments, are redelivered, wait for each other's rows or    *)
(* fail between any two writes show, all together, one indivisible         *)
(* decision per cycle, on what was read since the revision it records      *)
(* merged into what was decided last, and never on anything older.         *)
CyclesAreAtomic == Log!LogSpec
=============================================================================
