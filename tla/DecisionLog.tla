---------------------------- MODULE DecisionLog ----------------------------
(***************************************************************************)
(* What decision cycle persistence promises, without executions, row locks,*)
(* transactions or failures: a command is decided at most once, in one     *)
(* indivisible step, on items read at or after the revision it records and *)
(* otherwise on the corpus decided before, and never on anything older     *)
(* than that corpus; log, corpus, projections and active cycle always      *)
(* speak of the same decisions.                                            *)
(***************************************************************************)
EXTENDS Integers, Sequences

CONSTANTS
    Connections,        \* connections of one workspace
    ItemIds,            \* item identifiers
    ItemsOf,            \* the items each connection's tracker holds
    Commands            \* cycle_id, connection and changed items of each command

VARIABLES
    changes,            \* per connection: the items changed at the tracker, in order
    cursor,             \* per connection: the revision decided on, -1 at first
    corpus,             \* per connection: the version of each item decided on, or -1
    log,                \* the cycles, in order
    projections,        \* per item: the cycle that decided it last, or 0
    active              \* the latest cycle of the workspace, or 0

logVars == <<changes, cursor, corpus, log, projections, active>>

Missing == -1

(* Tracker content: the latest change to an item is its version.           *)
Version(c, i, moment) ==
    LET versions == {0} \cup {n \in 1..moment : changes[c][n] = i}
    IN  CHOOSE v \in versions : \A n \in versions : n <= v

Tracker(c, moment) ==
    [i \in ItemIds |-> IF i \in ItemsOf[c] THEN Version(c, i, moment) ELSE Missing]

Since(c, revision) == revision..Len(changes[c])

(* What a command may decide on: the whole tracker at one moment, or the   *)
(* corpus with each changed item read at a moment of its own.              *)
Readings(m, revision) ==
    LET c == m.connection
    IN  IF m.changed = {}
        THEN {Tracker(c, moment) : moment \in Since(c, revision)}
        ELSE {[i \in ItemIds |-> IF i \in m.changed THEN Version(c, i, moment[i])
                                 ELSE corpus[c][i]] :
                  moment \in [m.changed -> Since(c, revision)]}

-----------------------------------------------------------------------------
LogInit ==
    /\ changes = [c \in Connections |-> << >>]
    /\ cursor = [c \in Connections |-> -1]
    /\ corpus = [c \in Connections |-> [i \in ItemIds |-> Missing]]
    /\ log = << >>
    /\ projections = [i \in ItemIds |-> 0]
    /\ active = 0

Edit(c, i) ==
    /\ i \in ItemsOf[c]
    /\ changes' = [changes EXCEPT ![c] = Append(@, i)]
    /\ UNCHANGED <<cursor, corpus, log, projections, active>>

Decide(m) ==
    LET c == m.connection
    IN  /\ \A k \in 1..Len(log) : log[k].id # m.cycle_id
        /\ active' = m.cycle_id
        /\ \E revision \in (cursor[c] + 1)..Len(changes[c]) :
              \E snapshot \in Readings(m, revision) :
                  /\ \A i \in ItemIds : corpus[c][i] <= snapshot[i]
                  /\ cursor' = [cursor EXCEPT ![c] = revision]
                  /\ corpus' = [corpus EXCEPT ![c] = snapshot]
                  /\ log' = Append(log, [id |-> m.cycle_id, connection |-> c,
                                         changed |-> m.changed, expected |-> cursor[c],
                                         revision |-> revision, snapshot |-> snapshot])
                  /\ projections' = [i \in ItemIds |-> IF snapshot[i] # Missing
                                                       THEN m.cycle_id ELSE projections[i]]
        /\ UNCHANGED changes

LogNext ==
    \/ \E c \in Connections, i \in ItemIds : Edit(c, i)
    \/ \E m \in Commands : Decide(m)

LogSpec == LogInit /\ [][LogNext]_logVars
=============================================================================
