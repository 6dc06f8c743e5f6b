---------------------------- MODULE SetupProofs ----------------------------
(***************************************************************************)
(* Proofs, for every set of requests and any number of processes,          *)
(* sessions, crashes, interruptions and failing commands, about the Setup Center when no  *)
(* two runs overlap (OneRun).  The installation lock does not ensure this  *)
(* by itself: a second process can select it before the first inserts it.  *)
(***************************************************************************)
EXTENDS Readiness, SequenceTheorems, TLAPS

\* At most one process is between the start of a run and its end.
OneRun ==
    \A p, q \in Processes : proc[p].pc \notin Resting /\ proc[q].pc \notin Resting => p = q

-----------------------------------------------------------------------------
(* The journal.                                                            *)

\* States of an action that the actions before it must be verified for.
Reached == {"running", "applied", "verified"}

\* The i-th action of a session, and its state.
ActionOf(s, i) == Actions(journal[s].plan)[i]
StateOf(s, i) == journal[s].states[ActionOf(s, i)]
Steps(s) == 1..Len(Actions(journal[s].plan))

AllVerified(s) == \A i \in Steps(s) : StateOf(s, i) = "verified"

JournalOK ==
    /\ DOMAIN journal = Sessions /\ started \in 0..MaxSessions
    /\ \A s \in Sessions :
          /\ DOMAIN journal[s] = {"plan", "states"} /\ DOMAIN journal[s].states = ActionIds
          /\ ~Opened(s) => journal[s].states = Untouched
          /\ Opened(s) => s <= started /\ journal[s].plan.request \in Requests
          /\ \A a \in ActionIds : journal[s].states[a] # "pending" => \E i \in Steps(s) : a = ActionOf(s, i)

\* An action is reached when the ones before it are verified.
InOrder ==
    \A s \in Sessions : \A i, j \in Steps(s) :
        i < j /\ StateOf(s, j) \in Reached => StateOf(s, i) = "verified"

\* The configuration names what some session has verified.
VerifiedFor(r) == r \in Requests /\ \E s \in Sessions : journal[s].plan.request = r /\ AllVerified(s)
ConfigKnown == \A r \in config : VerifiedFor(r)

SharedInv ==
    /\ JournalOK /\ InOrder
    /\ EffectsJournaled /\ effects \subseteq ActionIds /\ ConfigKnown

-----------------------------------------------------------------------------
(* A run.                                                                  *)

ProcFields == {"pc", "plan", "session", "existing", "index", "applied", "results", "document"}

Inner == Locked \ {"open"}
Forward == {"next", "apply", "record", "verify"}
Back == {"compensate", "undo", "undone"}

\* What a run knows of the journal when it starts.
Before(p) ==
    LET s == proc[p].session IN
    /\ Opened(s) => journal[s].plan = proc[p].plan
    /\ proc[p].index = 1 /\ proc[p].applied = << >>

\* The actions applied by the run are those of its plan after the m-th, up to the l-th;
\* the first m were verified before, these were not.
Applied(p, m, l) ==
    /\ proc[p].applied \in Seq(ActionIds) /\ Len(proc[p].applied) = l - m
    /\ \A i \in 1..(l - m) :
          /\ proc[p].applied[i] = ActionOf(proc[p].session, m + i)
          /\ proc[p].existing[ActionOf(proc[p].session, m + i)] # "verified"
    /\ \A i \in 1..m : proc[p].existing[ActionOf(proc[p].session, i)] = "verified"

\* A run that holds the lock.
Running(p) ==
    LET s == proc[p].session IN
    /\ Opened(s) /\ journal[s].plan = proc[p].plan
    /\ \A i, j \in Steps(s) : i < j /\ proc[p].existing[ActionOf(s, j)] = "verified" =>
          proc[p].existing[ActionOf(s, i)] = "verified"

\* It goes from action to action.
GoesForward(p) ==
    LET s == proc[p].session
        k == proc[p].index
    IN
    /\ k \in 1..(Len(Actions(journal[s].plan)) + 1)
    /\ proc[p].pc # "next" => k \in Steps(s) /\ proc[p].existing[ActionOf(s, k)] # "verified"
    /\ \A i \in 1..(k - 1) : StateOf(s, i) = "verified" /\ proc[p].results[ActionOf(s, i)] = "verified"
    /\ \A i \in Steps(s) : i > k \/ (i = k /\ proc[p].pc = "next") =>
          StateOf(s, i) = proc[p].existing[ActionOf(s, i)]
    /\ \E m \in 0..(k - 1) : Applied(p, m, IF proc[p].pc = "verify" THEN k ELSE k - 1)
    /\ proc[p].pc \in {"apply", "record"} => StateOf(s, k) = "running"
    /\ proc[p].pc = "verify" => StateOf(s, k) = "applied"

\* An action has failed.
HasFailed(p) ==
    LET s == proc[p].session
        k == proc[p].index
    IN
    /\ k \in Steps(s) /\ StateOf(s, k) # "verified"
    /\ proc[p].existing[ActionOf(s, k)] # "verified"
    /\ proc[p].pc # "fail" => proc[p].results[ActionOf(s, k)] # "verified"

\* The actions applied are compensated from the last one; what comes after is not reached.
GoesBack(p) ==
    LET s == proc[p].session
        k == proc[p].index
    IN
    /\ HasFailed(p)
    /\ \E m \in 0..(k - 1), l \in 0..k :
          /\ m <= l /\ Applied(p, m, l)
          /\ \A i \in Steps(s) : i > l /\ i # k => StateOf(s, i) \notin Reached
          /\ proc[p].pc # "fail" => StateOf(s, k) \notin Reached
          /\ proc[p].pc \in {"undo", "undone"} =>
                m < l /\ StateOf(s, l) = "compensating" /\ latest = s
    /\ proc[p].pc = "undone" => ToCompensate(p) \notin effects

\* A run that ends has verified everything or has failed.
Ends(p) == AllVerified(proc[p].session) \/ HasFailed(p)

RunOK(p) ==
    LET s == proc[p].session
        pc == proc[p].pc
    IN
    /\ DOMAIN proc[p] = ProcFields /\ DOMAIN proc[p].results = ActionIds
    /\ pc \in Resting \cup {"select", "insert"} \cup Locked \cup {"executed", "compare", "replace"}
    /\ pc = "detected" => DOMAIN proc[p].plan = {"request", "basis"}
    /\ pc \notin {"idle", "detected"} => proc[p].plan.request \in Requests
    /\ pc \in Resting => proc[p].index = 1 /\ proc[p].applied = << >>
    /\ pc \notin Resting => s \in Sessions /\ s <= started
    /\ pc \in {"select", "insert", "open"} => Before(p)
    /\ pc = "insert" => lock \in {NoSession, s}
    /\ pc \in Locked => lock = s
    /\ pc \in Inner => Running(p)
    /\ pc \in Forward => GoesForward(p)
    /\ pc = "fail" \/ pc \in Back => GoesBack(p)
    /\ pc = "release" => Ends(p)
    /\ pc \in {"executed", "compare", "replace"} => journal[s].plan = proc[p].plan
    /\ pc = "executed" => Ends(p)
    /\ pc \in {"compare", "replace"} => AllVerified(s) /\ \A r \in proc[p].document : VerifiedFor(r)

SetupInv == SharedInv /\ DOMAIN proc = Processes /\ \A p \in Processes : RunOK(p)

-----------------------------------------------------------------------------
(* Plans.                                                                  *)

\* A list of different members of a set.
ListOf(t, A) ==
    /\ t \in Seq(A)
    /\ \A i, j \in 1..Len(t) : i # j => t[i] # t[j]

LEMMA Joined ==
    ASSUME NEW A, NEW B, A \cap B = {}, NEW t, ListOf(t, A), NEW u, ListOf(u, B)
    PROVE  ListOf(t \o u, A \cup B)
  <1> DEFINE v == t \o u
             n == Len(t)
             m == Len(u)
  <1>1. t \in Seq(A \cup B) /\ u \in Seq(A \cup B) /\ t \in Seq(A) /\ u \in Seq(B)
    BY DEF ListOf
  <1>2. n \in Nat /\ m \in Nat
    BY <1>1
  <1>3. /\ v \in Seq(A \cup B) /\ Len(v) = n + m
        /\ \A i \in 1..(n + m) : v[i] = IF i <= n THEN t[i] ELSE u[i - n]
    BY <1>1, ConcatProperties
  <1>4. (\A i \in 1..n : t[i] \in A) /\ (\A i \in 1..m : u[i] \in B)
    BY <1>1
  <1>5. (\A i, j \in 1..n : i # j => t[i] # t[j]) /\ (\A i, j \in 1..m : i # j => u[i] # u[j])
    BY DEF ListOf
  <1> HIDE DEF v, n, m
  <1>6. ASSUME NEW i \in 1..(n + m), NEW j \in 1..(n + m), i # j PROVE v[i] # v[j]
    <2>1. CASE i <= n /\ j <= n
      BY <1>2, <1>3, <1>5, <1>6, <2>1
    <2>2. CASE i > n /\ j > n
      <3>1. i - n \in 1..m /\ j - n \in 1..m /\ i - n # j - n
        BY <1>2, <1>6, <2>2
      <3>2. v[i] = u[i - n] /\ v[j] = u[j - n]
        BY <1>2, <1>3, <2>2
      <3>3. QED BY <1>5, <3>1, <3>2
    <2>3. CASE i <= n /\ j > n
      <3>1. i \in 1..n /\ j - n \in 1..m
        BY <1>2, <2>3
      <3>2. v[i] = t[i] /\ v[j] = u[j - n]
        BY <1>2, <1>3, <2>3
      <3>3. QED BY <1>4, <3>1, <3>2
    <2>4. CASE i > n /\ j <= n
      <3>1. j \in 1..n /\ i - n \in 1..m
        BY <1>2, <2>4
      <3>2. v[j] = t[j] /\ v[i] = u[i - n]
        BY <1>2, <1>3, <2>4
      <3>3. QED BY <1>4, <3>1, <3>2
    <2>5. QED BY <1>2, <2>1, <2>2, <2>3, <2>4
  <1>7. ListOf(v, A \cup B)
    BY <1>3, <1>6 DEF ListOf
  <1>8. QED BY <1>7 DEF v

LEMMA OneList ==
    ASSUME NEW c, NEW a PROVE ListOf(<<a>>, {a}) /\ ListOf(OneIf(c, a), {a})
  <1>1. ListOf(<<a>>, {a})
    BY DEF ListOf
  <1>2. ListOf(<< >>, {a})
    BY DEF ListOf
  <1>3. QED BY <1>1, <1>2 DEF OneIf

LEMMA LargerList ==
    ASSUME NEW A, NEW B, A \subseteq B, NEW t, ListOf(t, A) PROVE ListOf(t, B)
  BY SeqMonotonic DEF ListOf

\* The actions of a plan are different ones, whatever is asked for.
LEMMA PlanIsList ==
    ASSUME NEW r PROVE ListOf(PlannedActions(r), ActionIds)
  <1> DEFINE first == <<"config.write">>
             github == OneIf("github_repository" \in r.desired, "github.reference")
             release == OneIf("prepare_release" \in r.desired, "release.prepare")
             cutover == OneIf("prepare_cutover" \in r.desired, "cutover.prepare")
             rest == IF r.profile = "development" THEN DevelopmentActions ELSE ProductionActions(r)
             Dev == {"services.local.start", "database.migrate", "storage.verify", "checks.fast"}
             Prod == {"github.app.verify", "services.external.verify", "release.prepare", "cutover.prepare",
                      "checks.fast"}
  <1>1. ListOf(first, {"config.write"}) /\ ListOf(github, {"github.reference"})
    BY OneList
  <1>2. ListOf(DevelopmentActions, Dev)
    BY DEF ListOf, DevelopmentActions
  <1>3. ListOf(ProductionActions(r), Prod)
    <2> DEFINE app == <<"github.app.verify", "services.external.verify">>
               last == <<"checks.fast">>
               A1 == {"github.app.verify", "services.external.verify"}
    <2>1. ListOf(app, A1)
      BY DEF ListOf
    <2>2. ListOf(release, {"release.prepare"}) /\ ListOf(cutover, {"cutover.prepare"})
          /\ ListOf(last, {"checks.fast"})
      BY OneList
    <2> HIDE DEF app, last, release, cutover
    <2>3. ListOf(app \o release, A1 \cup {"release.prepare"})
      BY <2>1, <2>2, Joined
    <2>4. ListOf(app \o release \o cutover, A1 \cup {"release.prepare"} \cup {"cutover.prepare"})
      BY <2>2, <2>3, Joined
    <2>5. ListOf(app \o release \o cutover \o last,
                 A1 \cup {"release.prepare"} \cup {"cutover.prepare"} \cup {"checks.fast"})
      BY <2>2, <2>4, Joined
    <2>6. A1 \cup {"release.prepare"} \cup {"cutover.prepare"} \cup {"checks.fast"} = Prod
      OBVIOUS
    <2>7. QED BY <2>5, <2>6 DEF ProductionActions, app, last, release, cutover
  <1>4. ListOf(rest, Dev \cup Prod)
    <2>1. ListOf(DevelopmentActions, Dev \cup Prod) /\ ListOf(ProductionActions(r), Dev \cup Prod)
      BY <1>2, <1>3, LargerList
    <2>2. QED BY <2>1
  <1>5. PlannedActions(r) = first \o github \o rest
    BY Zenon DEF PlannedActions
  <1> HIDE DEF first, github, rest
  <1>6. ListOf(first \o github, {"config.write"} \cup {"github.reference"})
    BY <1>1, Joined
  <1>7. ListOf(first \o github \o rest, {"config.write"} \cup {"github.reference"} \cup (Dev \cup Prod))
    BY <1>4, <1>6, Joined
  <1>8. {"config.write"} \cup {"github.reference"} \cup (Dev \cup Prod) = ActionIds
    BY DEF ActionIds
  <1>9. QED BY <1>5, <1>7, <1>8

\* What the proofs use of a plan.
LEMMA StepsOfPlan ==
    ASSUME NEW plan
    PROVE  /\ Len(Actions(plan)) \in Nat
           /\ \A i \in 1..Len(Actions(plan)) : Actions(plan)[i] \in ActionIds
           /\ \A i, j \in 1..Len(Actions(plan)) : i # j => Actions(plan)[i] # Actions(plan)[j]
  <1> DEFINE t == PlannedActions(plan.request)
  <1>1. ListOf(t, ActionIds)
    BY PlanIsList
  <1>2. Actions(plan) = t
    BY DEF Actions
  <1> HIDE DEF t
  <1>3. t \in Seq(ActionIds) /\ \A i, j \in 1..Len(t) : i # j => t[i] # t[j]
    BY <1>1 DEF ListOf
  <1>4. Len(t) \in Nat /\ \A i \in 1..Len(t) : t[i] \in ActionIds
    BY <1>3
  <1>5. QED BY <1>2, <1>3, <1>4

LEMMA StepsOf ==
    ASSUME NEW s
    PROVE  /\ Len(Actions(journal[s].plan)) \in Nat
           /\ \A i \in Steps(s) : ActionOf(s, i) \in ActionIds
           /\ \A i, j \in Steps(s) : i # j => ActionOf(s, i) # ActionOf(s, j)
  BY StepsOfPlan DEF Steps, ActionOf

-----------------------------------------------------------------------------
(* What a transition does to the journal.                                  *)

LEMMA RecordIs ==
    ASSUME JournalOK, NEW s \in Sessions, NEW p, proc[p].session = s,
           NEW k \in Steps(s), NEW st, Record(p, ActionOf(s, k), st)
    PROVE  /\ latest' = s /\ DOMAIN journal' = Sessions
           /\ \A t \in Sessions : t # s => journal'[t] = journal[t]
           /\ DOMAIN journal'[s] = {"plan", "states"} /\ DOMAIN journal'[s].states = ActionIds
           /\ journal'[s].plan = journal[s].plan
           /\ \A a \in ActionIds : journal'[s].states[a] = IF a = ActionOf(s, k) THEN st
                                                           ELSE journal[s].states[a]
           /\ \A i \in Steps(s) : StateOf(s, i)' = IF i = k THEN st ELSE StateOf(s, i)
           /\ \A t \in Sessions : journal'[t].plan = journal[t].plan
  <1> DEFINE a == ActionOf(s, k)
             jp == journal[s]
  <1>1. DOMAIN journal = Sessions /\ DOMAIN jp = {"plan", "states"} /\ DOMAIN jp.states = ActionIds
    BY DEF JournalOK
  <1>2. a \in ActionIds
    BY StepsOf
  <1>3. journal' = [journal EXCEPT ![s].states[a] = st] /\ latest' = s
    BY DEF Record
  <1>4. journal' = [journal EXCEPT ![s] = [jp EXCEPT !.states = [jp.states EXCEPT ![a] = st]]]
    BY <1>1, <1>3
  <1> HIDE DEF a
  <1>5. /\ DOMAIN journal' = Sessions /\ \A t \in Sessions : t # s => journal'[t] = journal[t]
        /\ journal'[s] = [jp EXCEPT !.states = [jp.states EXCEPT ![a] = st]]
    BY <1>1, <1>4
  <1>6. /\ DOMAIN journal'[s] = {"plan", "states"} /\ journal'[s].plan = journal[s].plan
        /\ journal'[s].states = [jp.states EXCEPT ![a] = st]
    BY <1>1, <1>5
  <1>7. /\ DOMAIN journal'[s].states = ActionIds
        /\ \A b \in ActionIds : journal'[s].states[b] = IF b = a THEN st ELSE journal[s].states[b]
    BY <1>1, <1>2, <1>6
  <1>8. ASSUME NEW i \in Steps(s) PROVE StateOf(s, i)' = IF i = k THEN st ELSE StateOf(s, i)
    <2>1. ActionOf(s, i)' = ActionOf(s, i)
      BY <1>6 DEF ActionOf
    <2>2. ActionOf(s, i) \in ActionIds /\ (i # k => ActionOf(s, i) # a) /\ (i = k => ActionOf(s, i) = a)
      BY StepsOf DEF a
    <2>3. QED BY <1>7, <2>1, <2>2 DEF StateOf
  <1>9. QED BY <1>3, <1>5, <1>6, <1>7, <1>8 DEF a

\* Plans that stay.
LEMMA PlanStays ==
    ASSUME NEW s, journal'[s].plan = journal[s].plan
    PROVE  /\ Steps(s)' = Steps(s) /\ \A i : ActionOf(s, i)' = ActionOf(s, i)
           /\ Opened(s)' = Opened(s)
  BY DEF Steps, ActionOf, Opened

\* Sessions that stay.
LEMMA SessionStays ==
    ASSUME NEW s, journal'[s] = journal[s]
    PROVE  /\ Steps(s)' = Steps(s) /\ \A i : ActionOf(s, i)' = ActionOf(s, i) /\ StateOf(s, i)' = StateOf(s, i)
           /\ Opened(s)' = Opened(s) /\ AllVerified(s)' = AllVerified(s)
  BY DEF Steps, ActionOf, Opened, StateOf, AllVerified

\* A run records a state of an action of its session.
LEMMA RecordShared ==
    ASSUME SharedInv, NEW s \in Sessions, NEW p, proc[p].session = s,
           NEW k \in Steps(s), NEW st, Record(p, ActionOf(s, k), st),
           ~AllVerified(s), Opened(s), lock = s, UNCHANGED <<lock, config, started>>,
           st # "pending",
           st \in Reached => \A i \in Steps(s) : i < k => StateOf(s, i) = "verified",
           st # "verified" => \A j \in Steps(s) : j > k => StateOf(s, j) \notin Reached,
           effects' \subseteq effects,
           st = "compensated" => ActionOf(s, k) \notin effects'
    PROVE  SharedInv'
  <1> DEFINE a == ActionOf(s, k)
  <1>1. JournalOK
    BY DEF SharedInv
  <1>2. /\ latest' = s /\ DOMAIN journal' = Sessions
        /\ \A t \in Sessions : t # s => journal'[t] = journal[t]
        /\ DOMAIN journal'[s] = {"plan", "states"} /\ DOMAIN journal'[s].states = ActionIds
        /\ journal'[s].plan = journal[s].plan
        /\ \A b \in ActionIds : journal'[s].states[b] = IF b = a THEN st ELSE journal[s].states[b]
        /\ \A i \in Steps(s) : StateOf(s, i)' = IF i = k THEN st ELSE StateOf(s, i)
        /\ \A t \in Sessions : journal'[t].plan = journal[t].plan
    BY <1>1, RecordIs
  <1>3. \A t \in Sessions : Steps(t)' = Steps(t) /\ Opened(t)' = Opened(t) /\ \A i : ActionOf(t, i)' = ActionOf(t, i)
    BY <1>2, PlanStays
  <1>4. a \in ActionIds
    BY StepsOf
  <1> HIDE DEF a
  <1>5. JournalOK'
    <2>1. ASSUME NEW t \in Sessions
          PROVE  /\ DOMAIN journal'[t] = {"plan", "states"} /\ DOMAIN journal'[t].states = ActionIds
                 /\ ~Opened(t)' => journal'[t].states = Untouched
                 /\ Opened(t)' => t <= started' /\ journal'[t].plan.request \in Requests
                 /\ \A b \in ActionIds : journal'[t].states[b] # "pending" => \E i \in Steps(t)' : b = ActionOf(t, i)'
      <3>1. CASE t # s
        <4>1. journal'[t] = journal[t] /\ Steps(t)' = Steps(t) /\ Opened(t)' = Opened(t)
              /\ \A i : ActionOf(t, i)' = ActionOf(t, i)
          BY <1>2, <1>3, <3>1
        <4>2. QED BY <1>1, <4>1 DEF JournalOK
      <3>2. CASE t = s
        <4>1. Opened(t)' /\ t <= started' /\ journal'[t].plan.request \in Requests
          BY <1>1, <1>2, <1>3, <3>2 DEF JournalOK
        <4>2. ASSUME NEW b \in ActionIds, journal'[t].states[b] # "pending"
              PROVE  \E i \in Steps(t) : b = ActionOf(t, i)
          <5>1. CASE b = a
            BY <3>2, <5>1 DEF a
          <5>2. CASE b # a
            BY <1>1, <1>2, <3>2, <4>2, <5>2 DEF JournalOK
          <5>3. QED BY <5>1, <5>2
        <4>3. QED BY <1>2, <1>3, <3>2, <4>1, <4>2
      <3>3. QED BY <3>1, <3>2
    <2>2. started' \in 0..MaxSessions
      BY <1>1 DEF JournalOK
    <2>3. QED BY <1>2, <2>1, <2>2 DEF JournalOK
  <1>6. InOrder'
    <2> SUFFICES ASSUME NEW t \in Sessions, NEW i \in Steps(t), NEW j \in Steps(t), i < j, StateOf(t, j)' \in Reached
                 PROVE  StateOf(t, i)' = "verified"
      BY <1>3 DEF InOrder
    <2>1. StateOf(t, j) \in Reached => StateOf(t, i) = "verified"
      BY DEF SharedInv, InOrder
    <2>2. CASE t # s
      BY <1>2, <2>1, <2>2, SessionStays
    <2>3. CASE t = s
      <3>1. /\ StateOf(t, i)' = (IF i = k THEN st ELSE StateOf(t, i))
            /\ StateOf(t, j)' = (IF j = k THEN st ELSE StateOf(t, j))
        BY <1>2, <2>3
      <3>2. CASE j = k
        BY <2>3, <3>1, <3>2, StepsOf DEF Steps
      <3>3. CASE j # k /\ i = k
        BY <2>3, <3>1, <3>3
      <3>4. CASE j # k /\ i # k
        BY <2>1, <3>1, <3>4
      <3>5. QED BY <3>2, <3>3, <3>4
    <2>4. QED BY <2>2, <2>3
  <1>9. EffectsJournaled'
    <2> SUFFICES ASSUME NEW b \in effects'
                 PROVE  \E t \in Sessions : journal'[t].states[b] \notin {"pending", "compensated"}
      BY DEF EffectsJournaled
    <2>1. CASE b = a
      BY <1>2, <1>4, <2>1 DEF a
    <2>2. CASE b # a
      <3>1. PICK t \in Sessions : journal[t].states[b] \notin {"pending", "compensated"}
        BY DEF SharedInv, EffectsJournaled
      <3>2. CASE t # s
        BY <1>2, <3>1, <3>2
      <3>3. CASE t = s
        <4>1. b \in ActionIds
          BY DEF SharedInv
        <4>2. QED BY <1>2, <2>2, <3>1, <3>3, <4>1
      <3>4. QED BY <3>2, <3>3
    <2>3. QED BY <2>1, <2>2
  <1>10. ConfigKnown'
    <2> SUFFICES ASSUME NEW r \in config' PROVE VerifiedFor(r)'
      BY DEF ConfigKnown
    <2>1. r \in Requests
      BY DEF SharedInv, ConfigKnown, VerifiedFor
    <2>2. PICK t \in Sessions : journal[t].plan.request = r /\ AllVerified(t)
      BY DEF SharedInv, ConfigKnown, VerifiedFor
    <2>3. t # s
      BY <2>2
    <2>4. journal'[t].plan.request = r /\ AllVerified(t)'
      BY <1>2, <2>2, <2>3, SessionStays
    <2>5. QED BY <2>1, <2>4 DEF VerifiedFor
  <1>11. effects' \subseteq ActionIds
    BY DEF SharedInv
  <1>12. QED BY <1>5, <1>6, <1>9, <1>10, <1>11 DEF SharedInv

\* A command takes effect: its action is journaled as running.
LEMMA AppliedShared ==
    ASSUME SharedInv, NEW s \in Sessions, NEW k \in Steps(s), StateOf(s, k) = "running",
           UNCHANGED <<config, lock, journal, latest, started>>,
           effects \subseteq effects', effects' \subseteq effects \cup {ActionOf(s, k)}
    PROVE  SharedInv'
  <1>1. JournalOK' /\ InOrder'
    BY DEF SharedInv, JournalOK, InOrder, StateOf, ActionOf, Steps, Opened
  <1>2. EffectsJournaled'
    <2> SUFFICES ASSUME NEW b \in effects'
                 PROVE  \E t \in Sessions : journal[t].states[b] \notin {"pending", "compensated"}
      BY DEF EffectsJournaled
    <2>1. CASE b \in effects
      BY <2>1 DEF SharedInv, EffectsJournaled
    <2>2. CASE b = ActionOf(s, k)
      BY <2>2 DEF StateOf
    <2>3. QED BY <2>1, <2>2
  <1>3. effects' \subseteq ActionIds
    BY StepsOf DEF SharedInv
  <1>4. ConfigKnown'
    BY DEF SharedInv, ConfigKnown, VerifiedFor, AllVerified, StateOf, ActionOf, Steps
  <1>5. QED BY <1>1, <1>2, <1>3, <1>4 DEF SharedInv

\* Effects are lost: an action is compensated, or services stop.
LEMMA LostShared ==
    ASSUME SharedInv, UNCHANGED <<config, lock, journal, latest, started>>, effects' \subseteq effects
    PROVE  SharedInv'
  <1>1. JournalOK'
    BY DEF SharedInv, JournalOK, ActionOf, Steps, Opened
  <1>2. InOrder'
    BY DEF SharedInv, InOrder, StateOf, ActionOf, Steps
  <1>3. ConfigKnown'
    BY DEF SharedInv, StateOf, ActionOf, Steps, AllVerified, ConfigKnown, VerifiedFor
  <1>4. EffectsJournaled' /\ effects' \subseteq ActionIds
    BY DEF SharedInv, EffectsJournaled
  <1>5. QED BY <1>1, <1>2, <1>3, <1>4 DEF SharedInv

\* Steps that leave journal, machine and configuration alone.
LEMMA LockShared ==
    ASSUME SharedInv, UNCHANGED <<config, effects, journal, latest>>,
           started' \in 0..MaxSessions, started <= started'
    PROVE  SharedInv'
  <1>1. InOrder' /\ ConfigKnown' /\ EffectsJournaled' /\ effects' \subseteq ActionIds
    BY DEF SharedInv, InOrder, StateOf, ActionOf, Steps, AllVerified, ConfigKnown, VerifiedFor, EffectsJournaled
  <1>2. JournalOK'
    <2>1. JournalOK
      BY DEF SharedInv
    <2>2. ASSUME NEW s \in Sessions PROVE Opened(s)' => s <= started' /\ journal'[s].plan.request \in Requests
      BY <2>1, SetupAssumption DEF JournalOK, Opened, Sessions
    <2>3. QED BY <2>1, <2>2 DEF JournalOK, Opened, Steps, ActionOf
  <1>3. QED BY <1>1, <1>2 DEF SharedInv

LEMMA NoRequestIsNone ==
    ASSUME NEW r \in Requests PROVE r # NoRequest
  BY SetupAssumption DEF Request, Profiles, NoRequest

\* A session is entered in the journal.
LEMMA OpenedShared ==
    ASSUME SharedInv, NEW s \in Sessions, ~Opened(s), s <= started, NEW plan, plan.request \in Requests,
           journal' = [journal EXCEPT ![s].plan = plan], latest' = s,
           UNCHANGED <<config, effects, lock, started>>
    PROVE  SharedInv' /\ Opened(s)' /\ journal'[s].plan = plan /\ journal'[s].states = Untouched
  <1>1. JournalOK
    BY DEF SharedInv
  <1>2. journal' = [journal EXCEPT ![s] = [journal[s] EXCEPT !.plan = plan]]
    BY <1>1 DEF JournalOK
  <1>3. /\ DOMAIN journal' = Sessions /\ \A t \in Sessions : t # s => journal'[t] = journal[t]
        /\ journal'[s] = [journal[s] EXCEPT !.plan = plan]
    BY <1>1, <1>2 DEF JournalOK
  <1>4. /\ DOMAIN journal'[s] = {"plan", "states"} /\ journal'[s].plan = plan
        /\ journal'[s].states = Untouched /\ journal[s].states = Untouched
    BY <1>1, <1>3 DEF JournalOK
  <1>5. Opened(s)'
    BY <1>4, NoRequestIsNone DEF Opened
  <1>6. DOMAIN Untouched = ActionIds /\ \A a \in ActionIds : Untouched[a] = "pending"
    BY DEF Untouched
  <1>8. \A i \in Steps(s)' : StateOf(s, i)' = "pending"
    BY <1>4, <1>6, StepsOfPlan DEF Steps, StateOf, ActionOf
  <1>9. JournalOK'
    <2>1. ASSUME NEW t \in Sessions, t # s
          PROVE  /\ Opened(t)' = Opened(t) /\ Steps(t)' = Steps(t) /\ \A i : ActionOf(t, i)' = ActionOf(t, i)
      BY <1>3, <2>1, SessionStays
    <2>2. ASSUME NEW t \in Sessions
          PROVE  /\ DOMAIN journal'[t] = {"plan", "states"} /\ DOMAIN journal'[t].states = ActionIds
                 /\ ~Opened(t)' => journal'[t].states = Untouched
                 /\ Opened(t)' => t <= started' /\ journal'[t].plan.request \in Requests
                 /\ \A b \in ActionIds : journal'[t].states[b] # "pending" => \E i \in Steps(t)' : b = ActionOf(t, i)'
      <3>1. CASE t = s
        BY <1>4, <1>5, <1>6, <3>1
      <3>2. CASE t # s
        BY <1>1, <1>3, <2>1, <3>2 DEF JournalOK
      <3>3. QED BY <3>1, <3>2
    <2>3. started' \in 0..MaxSessions
      BY <1>1 DEF JournalOK
    <2>4. QED BY <1>3, <2>2, <2>3 DEF JournalOK
  <1>10. InOrder'
    <2> SUFFICES ASSUME NEW t \in Sessions, NEW i \in Steps(t)', NEW j \in Steps(t)', i < j,
                        StateOf(t, j)' \in Reached
                 PROVE  StateOf(t, i)' = "verified"
      BY DEF InOrder
    <2>1. CASE t = s
      BY <1>8, <2>1 DEF Reached
    <2>2. CASE t # s
      BY <1>3, <2>2, SessionStays DEF SharedInv, InOrder
    <2>3. QED BY <2>1, <2>2
  <1>13. EffectsJournaled' /\ effects' \subseteq ActionIds
    <2>1. \A t \in Sessions : journal'[t].states = journal[t].states
      BY <1>3, <1>4
    <2>2. QED BY <2>1 DEF SharedInv, EffectsJournaled
  <1>14. ConfigKnown'
    <2> SUFFICES ASSUME NEW r \in config' PROVE VerifiedFor(r)'
      BY DEF ConfigKnown
    <2>1. r \in Requests /\ \E t \in Sessions : journal[t].plan.request = r /\ AllVerified(t)
      BY DEF SharedInv, ConfigKnown, VerifiedFor
    <2>2. PICK t \in Sessions : journal[t].plan.request = r /\ AllVerified(t)
      BY <2>1
    <2>3. t # s
      BY <2>1, <2>2, NoRequestIsNone DEF Opened
    <2>4. journal'[t].plan.request = r /\ AllVerified(t)'
      BY <1>3, <2>2, <2>3, SessionStays
    <2>5. QED BY <2>1, <2>4 DEF VerifiedFor
  <1>15. QED BY <1>4, <1>5, <1>9, <1>10, <1>13, <1>14 DEF SharedInv

\* A request is merged into the configuration.
LEMMA ConfigShared ==
    ASSUME SharedInv, UNCHANGED <<effects, lock, journal, latest, started>>,
           \A r \in config' : VerifiedFor(r)
    PROVE  SharedInv'
  <1>1. JournalOK' /\ InOrder'
    BY DEF SharedInv, JournalOK, InOrder, StateOf, ActionOf, Steps, Opened
  <1>2. ConfigKnown'
    BY DEF StateOf, ActionOf, Steps, AllVerified, ConfigKnown, VerifiedFor
  <1>3. EffectsJournaled' /\ effects' \subseteq ActionIds
    BY DEF SharedInv, EffectsJournaled
  <1>4. QED BY <1>1, <1>2, <1>3 DEF SharedInv

-----------------------------------------------------------------------------
(* Runs.                                                                   *)

LEMMA BecomeIs ==
    ASSUME DOMAIN proc = Processes, NEW p \in Processes, NEW memory, Become(p, memory)
    PROVE  /\ DOMAIN proc' = Processes /\ proc'[p] = memory
           /\ \A q \in Processes : q # p => proc'[q] = proc[q]
  BY DEF Become

\* A process at rest relies on nothing shared.
LEMMA RestingOK ==
    ASSUME NEW q, RunOK(q), proc[q].pc \in Resting, proc'[q] = proc[q] PROVE RunOK(q)'
  BY DEF RunOK, Resting, Locked, Inner, Forward, Back

LEMMA FreshOK ==
    ASSUME NEW p, proc'[p] = Fresh PROVE RunOK(p)'
  <1>1. /\ DOMAIN Fresh = ProcFields /\ Fresh.pc = "idle" /\ Fresh.results = Untouched /\ DOMAIN Untouched = ActionIds
        /\ Fresh.index = 1 /\ Fresh.applied = << >>
    BY DEF Fresh, ProcFields, Untouched
  <1>2. QED BY <1>1 DEF RunOK, Resting, Locked, Inner, Forward, Back

\* A run relies on the journal, the machine and the lock.
LEMMA RunStays ==
    ASSUME NEW q, RunOK(q), proc'[q] = proc[q], UNCHANGED <<lock, journal, latest, started>>,
           effects' \subseteq effects
    PROVE  RunOK(q)'
  <1>1. Before(q)' = Before(q)
    BY DEF Before, AllVerified, StateOf, ActionOf, Steps, Opened
  <1>2. Running(q)' = Running(q)
    BY DEF Running, AllVerified, StateOf, ActionOf, Steps, Opened
  <1>3. HasFailed(q)' = HasFailed(q)
    BY DEF HasFailed, StateOf, ActionOf, Steps
  <1>4. \A m, l : Applied(q, m, l)' = Applied(q, m, l)
    BY DEF Applied, ActionOf
  <1>5. \A t : Steps(t)' = Steps(t) /\ AllVerified(t)' = AllVerified(t)
               /\ \A i : StateOf(t, i)' = StateOf(t, i) /\ ActionOf(t, i)' = ActionOf(t, i)
    BY DEF AllVerified, StateOf, ActionOf, Steps
  <1>6. GoesForward(q)' = GoesForward(q)
    BY <1>4, <1>5 DEF GoesForward
  <1>7. GoesBack(q) => GoesBack(q)'
    BY <1>3, <1>4, <1>5 DEF GoesBack, ToCompensate
  <1>8. Ends(q)' = Ends(q)
    BY <1>3, <1>5 DEF Ends
  <1>9. ASSUME NEW r, VerifiedFor(r) PROVE VerifiedFor(r)'
    <2>1. r \in Requests
      BY <1>9 DEF VerifiedFor
    <2>2. PICK t \in Sessions : journal[t].plan.request = r /\ AllVerified(t)
      BY <1>9 DEF VerifiedFor
    <2>3. journal'[t].plan.request = r /\ AllVerified(t)'
      BY <1>5, <2>2
    <2>4. QED BY <2>1, <2>3 DEF VerifiedFor
  <1>10. QED BY <1>1, <1>2, <1>3, <1>5, <1>6, <1>7, <1>8, <1>9 DEF RunOK

\* A step of the only run.
LEMMA RunStep ==
    ASSUME SetupInv, OneRun, NEW p \in Processes, proc[p].pc \notin Resting, NEW memory, Become(p, memory),
           SharedInv', RunOK(p)'
    PROVE  SetupInv'
  <1>1. /\ DOMAIN proc' = Processes /\ \A q \in Processes : q # p => proc'[q] = proc[q]
    BY BecomeIs DEF SetupInv
  <1>2. \A q \in Processes : q # p => proc[q].pc \in Resting
    BY DEF OneRun
  <1>3. \A q \in Processes : q # p => RunOK(q)'
    BY <1>1, <1>2, RestingOK DEF SetupInv
  <1>4. QED BY <1>1, <1>3 DEF SetupInv

\* The run is over.
LEMMA FreshStep ==
    ASSUME SetupInv, OneRun, NEW p \in Processes, proc[p].pc \notin Resting, Become(p, Fresh), SharedInv'
    PROVE  SetupInv'
  <1>1. RunOK(p)'
    BY BecomeIs, FreshOK DEF SetupInv
  <1>2. QED BY <1>1, RunStep

\* Nothing shared changes.
LEMMA SharedStays ==
    ASSUME SharedInv, UNCHANGED <<shared, started>> PROVE SharedInv'
  <1>1. UNCHANGED <<config, effects, lock, journal, latest>>
    BY DEF shared
  <1>2. started \in 0..MaxSessions /\ started <= started
    BY SetupAssumption DEF SharedInv, JournalOK
  <1>3. QED BY <1>1, <1>2, LockShared

\* A step of a process at rest that leaves everything shared alone.
LEMMA QuietStep ==
    ASSUME SetupInv, NEW p \in Processes, NEW memory, Become(p, memory), UNCHANGED <<shared, started>>, RunOK(p)'
    PROVE  SetupInv'
  <1>1. SharedInv'
    BY SharedStays DEF SetupInv
  <1>2. /\ DOMAIN proc' = Processes /\ \A q \in Processes : q # p => proc'[q] = proc[q]
    BY BecomeIs DEF SetupInv
  <1>3. \A q \in Processes : q # p => RunOK(q)'
    BY <1>2, RunStays DEF SetupInv, shared
  <1>4. QED BY <1>1, <1>2, <1>3 DEF SetupInv

\* A process at rest starts a run.
LEMMA StartStep ==
    ASSUME SetupInv, OneRun', NEW p \in Processes, NEW memory, Become(p, memory), memory.pc \notin Resting,
           SharedInv', RunOK(p)'
    PROVE  SetupInv'
  <1>1. /\ DOMAIN proc' = Processes /\ \A q \in Processes : q # p => proc'[q] = proc[q]
        /\ proc'[p] = memory
    BY BecomeIs DEF SetupInv
  <1>2. \A q \in Processes : q # p => proc[q].pc \in Resting
    BY <1>1 DEF OneRun
  <1>3. \A q \in Processes : q # p => RunOK(q)'
    BY <1>1, <1>2, RestingOK DEF SetupInv
  <1>4. QED BY <1>1, <1>3 DEF SetupInv

LEMMA DetectInv ==
    ASSUME SetupInv, NEW p \in Processes, Detect(p) PROVE SetupInv'
  <1> DEFINE memory == [Fresh EXCEPT !.pc = "detected", !.plan = [NoPlan EXCEPT !.basis = Snapshot]]
  <1>1. Become(p, memory) /\ UNCHANGED <<shared, started>>
    BY DEF Detect, Keep
  <1>2. /\ DOMAIN memory = ProcFields /\ memory.pc = "detected" /\ memory.results = Untouched
        /\ DOMAIN memory.plan = {"request", "basis"} /\ memory.index = 1 /\ memory.applied = << >>
    BY DEF Fresh, ProcFields, NoPlan
  <1> HIDE DEF memory
  <1>3. SharedInv'
    BY <1>1, SharedStays DEF SetupInv
  <1>4. /\ DOMAIN proc' = Processes /\ proc'[p] = memory /\ \A q \in Processes : q # p => proc'[q] = proc[q]
    BY <1>1, BecomeIs DEF SetupInv
  <1>5. RunOK(p)'
    BY <1>2, <1>4 DEF RunOK, Resting, Locked, Inner, Forward, Back, Untouched
  <1>6. \A q \in Processes : q # p => RunOK(q)'
    BY <1>1, <1>4, RunStays DEF SetupInv, shared
  <1>7. QED BY <1>3, <1>4, <1>5, <1>6 DEF SetupInv

LEMMA MakePlanInv ==
    ASSUME SetupInv, NEW p \in Processes, NEW r \in Requests, MakePlan(p, r) PROVE SetupInv'
  <1>1. UNCHANGED <<shared, started>> /\ proc[p].pc = "detected" /\ RunOK(p)
    BY DEF MakePlan, Keep, SetupInv
  <1>2. PICK memory : /\ Become(p, memory)
                      /\ memory = Fresh \/ memory = [proc[p] EXCEPT !.pc = "planned", !.plan.request = r]
    BY DEF MakePlan
  <1>3. SharedInv'
    BY <1>1, SharedStays DEF SetupInv
  <1>4. /\ DOMAIN proc' = Processes /\ proc'[p] = memory /\ \A q \in Processes : q # p => proc'[q] = proc[q]
    BY <1>2, BecomeIs DEF SetupInv
  <1>5. RunOK(p)'
    <2>1. CASE memory = Fresh
      BY <1>4, <2>1, FreshOK
    <2>2. CASE memory = [proc[p] EXCEPT !.pc = "planned", !.plan.request = r]
      <3>1. /\ DOMAIN memory = ProcFields /\ memory.pc = "planned" /\ memory.results = proc[p].results
            /\ memory.index = proc[p].index /\ memory.applied = proc[p].applied
        BY <1>1, <2>2 DEF RunOK, ProcFields
      <3>2. memory.plan.request = r
        BY <1>1, <2>2 DEF RunOK, ProcFields
      <3>3. QED BY <1>1, <1>4, <3>1, <3>2 DEF RunOK, Resting, Locked, Inner, Forward, Back
    <2>3. QED BY <1>2, <2>1, <2>2
  <1>6. \A q \in Processes : q # p => RunOK(q)'
    BY <1>1, <1>4, RunStays DEF SetupInv, shared
  <1>7. QED BY <1>3, <1>4, <1>5, <1>6 DEF SetupInv

LEMMA StartApplyInv ==
    ASSUME SetupInv, OneRun', NEW p \in Processes, NEW again \in BOOLEAN, StartApply(p, again) PROVE SetupInv'
  <1> DEFINE memory == [proc[p] EXCEPT !.pc = "select", !.session = started + 1]
  <1>1. /\ proc[p].pc = "planned" /\ started < MaxSessions /\ RunOK(p) /\ SharedInv /\ JournalOK
        /\ UNCHANGED <<config, effects, lock, journal, latest>>
    BY DEF StartApply, SetupInv, SharedInv, shared
  <1>2. started \in 0..MaxSessions /\ started + 1 \in Sessions
    BY <1>1, SetupAssumption DEF JournalOK, Sessions
  <1> PICK s \in Sessions : s = started + 1
    BY <1>2
  <1>3. CASE Become(p, memory) /\ started' = s
    <2>1. SharedInv'
      BY <1>1, <1>2, <1>3, LockShared, SetupAssumption DEF Sessions
    <2>2. /\ DOMAIN memory = ProcFields /\ memory.pc = "select" /\ memory.session = s /\ memory.plan = proc[p].plan
          /\ memory.results = proc[p].results /\ memory.index = 1 /\ memory.applied = << >>
      BY <1>1 DEF RunOK, ProcFields, Resting
    <2> HIDE DEF memory
    <2>3. proc'[p] = memory
      BY <1>3, BecomeIs DEF SetupInv
    <2>4. ~Opened(s) /\ journal[s].states = Untouched
      BY <1>1, <1>2, SetupAssumption DEF JournalOK
    <2>5. ~Opened(s)'
      BY <1>1, <2>4 DEF Opened
    <2>6. Before(p)'
      BY <2>2, <2>3, <2>5 DEF Before
    <2>7. RunOK(p)'
      BY <1>1, <1>2, <1>3, <2>2, <2>3, <2>6 DEF RunOK, Resting, Locked, Inner, Forward, Back
    <2>8. QED BY <1>3, <2>1, <2>2, <2>7, StartStep DEF Resting
  <1>4. CASE Become(p, Fresh) /\ UNCHANGED started
    <2>1. RunOK(p)'
      BY <1>4, BecomeIs, FreshOK DEF SetupInv
    <2>2. QED BY <1>1, <1>4, <2>1, QuietStep DEF shared
  <1>5. QED BY <1>3, <1>4 DEF StartApply

LEMMA ResumeInv ==
    ASSUME SetupInv, OneRun', NEW p \in Processes, NEW s \in Sessions, Resume(p, s) PROVE SetupInv'
  <1> DEFINE memory == [Fresh EXCEPT !.pc = "select", !.plan = journal[s].plan, !.session = s]
  <1>1. /\ Opened(s) /\ journal[s].plan.basis = Snapshot /\ Become(p, memory) /\ SharedInv /\ JournalOK
        /\ UNCHANGED <<shared, started>> /\ UNCHANGED <<config, effects, lock, journal, latest>>
    BY DEF Resume, SetupInv, SharedInv, Keep, shared
  <1>2. /\ DOMAIN memory = ProcFields /\ memory.pc = "select" /\ memory.session = s /\ memory.plan = journal[s].plan
        /\ memory.results = Untouched /\ memory.index = 1 /\ memory.applied = << >>
    BY DEF Fresh, ProcFields
  <1> HIDE DEF memory
  <1>3. SharedInv'
    BY <1>1, SharedStays
  <1>4. proc'[p] = memory
    BY <1>1, BecomeIs DEF SetupInv
  <1>9. Before(p)'
    BY <1>1, <1>2, <1>4 DEF Before
  <1>10. memory.plan.request \in Requests /\ s <= started'
    BY <1>1, <1>2 DEF JournalOK
  <1>11. RunOK(p)'
    BY <1>2, <1>4, <1>9, <1>10 DEF RunOK, Resting, Locked, Inner, Forward, Back, Untouched
  <1>12. QED BY <1>1, <1>2, <1>3, <1>11, StartStep DEF Resting

\* Only the program counter changes.
LEMMA PcIs ==
    ASSUME SetupInv, NEW p \in Processes, NEW pc, Become(p, [proc[p] EXCEPT !.pc = pc])
    PROVE  /\ proc'[p].pc = pc /\ DOMAIN proc'[p] = ProcFields
           /\ proc'[p].plan = proc[p].plan /\ proc'[p].session = proc[p].session
           /\ proc'[p].existing = proc[p].existing /\ proc'[p].index = proc[p].index
           /\ proc'[p].applied = proc[p].applied /\ proc'[p].results = proc[p].results
           /\ proc'[p].document = proc[p].document
  BY BecomeIs DEF SetupInv, RunOK, ProcFields

\* A run that has not opened its session yet.
LEMMA BeforeStays ==
    ASSUME NEW p, Before(p), UNCHANGED journal,
           proc'[p].session = proc[p].session, proc'[p].plan = proc[p].plan,
           proc'[p].index = proc[p].index, proc'[p].applied = proc[p].applied
    PROVE  Before(p)'
  <1> DEFINE s == proc[p].session
  <1>1. s' = s /\ Opened(s)' = Opened(s) /\ journal'[s] = journal[s]
    BY DEF Opened
  <1> HIDE DEF s
  <1>2. QED BY <1>1 DEF Before, s

LEMMA SelectLockInv ==
    ASSUME SetupInv, OneRun, NEW p \in Processes, SelectLock(p) PROVE SetupInv'
  <1>1. /\ proc[p].pc = "select" /\ RunOK(p) /\ SharedInv /\ UNCHANGED <<shared, started>>
        /\ UNCHANGED <<effects, lock, journal, started>>
    BY DEF SelectLock, SetupInv, Keep, shared
  <1>2. SharedInv'
    BY <1>1, SharedStays
  <1>3. CASE Become(p, [proc[p] EXCEPT !.pc = "insert"]) /\ lock \in {NoSession, proc[p].session}
    <2>1. /\ proc'[p].pc = "insert" /\ DOMAIN proc'[p] = ProcFields /\ proc'[p].plan = proc[p].plan
          /\ proc'[p].session = proc[p].session /\ proc'[p].results = proc[p].results
          /\ proc'[p].index = proc[p].index /\ proc'[p].applied = proc[p].applied
      BY <1>3, PcIs
    <2>2. Before(p)'
      <3>1. Before(p)
        BY <1>1 DEF RunOK
      <3>2. QED BY <1>1, <2>1, <3>1, BeforeStays
    <2>3. lock' \in {NoSession, proc'[p].session}
      BY <1>1, <1>3, <2>1
    <2>4. RunOK(p)'
      BY <1>1, <2>1, <2>2, <2>3 DEF RunOK, Resting, Locked, Inner, Forward, Back
    <2>5. QED BY <1>1, <1>2, <1>3, <2>4, RunStep DEF Resting
  <1>4. CASE Become(p, Fresh)
    BY <1>1, <1>2, <1>4, FreshStep DEF Resting
  <1>5. QED BY <1>3, <1>4 DEF SelectLock

LEMMA InsertLockInv ==
    ASSUME SetupInv, OneRun, NEW p \in Processes, InsertLock(p) PROVE SetupInv'
  <1>1. /\ proc[p].pc = "insert" /\ RunOK(p) /\ SharedInv /\ UNCHANGED <<config, effects, journal, latest, started>>
        /\ lock' = proc[p].session /\ Become(p, [proc[p] EXCEPT !.pc = "open"])
    BY DEF InsertLock, SetupInv, Keep
  <1>2. SharedInv'
    <2>3. started \in 0..MaxSessions /\ started <= started
      BY <1>1, SetupAssumption DEF SharedInv, JournalOK
    <2>5. QED BY <1>1, <2>3, LockShared
  <1>3. Before(p)'
    <2>1. Before(p)
      BY <1>1 DEF RunOK
    <2>2. QED BY <1>1, <2>1, PcIs, BeforeStays
  <1>4. RunOK(p)'
    BY <1>1, <1>3, PcIs DEF RunOK, Resting, Locked, Inner, Forward, Back
  <1>5. QED BY <1>1, <1>2, <1>4, RunStep DEF Resting

LEMMA OpenSessionInv ==
    ASSUME SetupInv, OneRun, NEW p \in Processes, OpenSession(p) PROVE SetupInv'
  <1> DEFINE memory == [proc[p] EXCEPT !.pc = "next", !.existing = journal[proc[p].session].states]
  <1>1. /\ proc[p].pc = "open" /\ RunOK(p) /\ SharedInv /\ UNCHANGED <<config, effects, lock, started>>
        /\ Become(p, memory)
    BY DEF OpenSession, SetupInv, Keep
  <1>2. PICK s \in Sessions : s = proc[p].session
    BY <1>1 DEF RunOK, Resting
  <1>3. /\ s <= started /\ lock = s /\ proc[p].plan.request \in Requests /\ Before(p)
        /\ DOMAIN proc[p] = ProcFields /\ DOMAIN proc[p].results = ActionIds
    BY <1>1, <1>2 DEF RunOK, Locked, Resting
  <1>4. /\ Opened(s) => journal[s].plan = proc[p].plan
        /\ proc[p].index = 1 /\ proc[p].applied = << >>
    BY <1>2, <1>3 DEF Before
  <1>5. /\ DOMAIN memory = ProcFields /\ memory.pc = "next" /\ memory.session = s /\ memory.plan = proc[p].plan
        /\ memory.results = proc[p].results /\ memory.index = 1 /\ memory.applied = << >>
        /\ memory.existing = journal[s].states
    BY <1>2, <1>3, <1>4 DEF ProcFields
  <1> HIDE DEF memory
  <1>6. proc'[p] = memory
    BY <1>1, BecomeIs DEF SetupInv
  <1>7. /\ SharedInv' /\ Opened(s)' /\ journal'[s].plan = proc[p].plan /\ journal'[s].states = journal[s].states
    <2>1. CASE Opened(s)
      <3>1. UNCHANGED <<journal, latest>>
        BY <1>2, <2>1 DEF OpenSession
      <3>2. SharedInv'
        BY <1>1, <3>1, SharedStays DEF shared
      <3>3. journal'[s] = journal[s]
        BY <3>1
      <3>4. QED BY <1>4, <2>1, <3>2, <3>3, SessionStays
    <2>2. CASE ~Opened(s)
      <3>1. journal' = [journal EXCEPT ![s].plan = proc[p].plan] /\ latest' = s
        BY <1>2, <2>2 DEF OpenSession
      <3>2. SharedInv' /\ Opened(s)' /\ journal'[s].plan = proc[p].plan /\ journal'[s].states = Untouched
        BY <1>1, <1>3, <2>2, <3>1, OpenedShared
      <3>3. journal[s].states = Untouched
        BY <1>1, <2>2 DEF SharedInv, JournalOK
      <3>4. QED BY <3>2, <3>3
    <2>3. QED BY <2>1, <2>2
  <1>9. Running(p)'
    <2>2. \A i, j \in Steps(s)' : i < j /\ proc'[p].existing[ActionOf(s, j)'] = "verified" =>
              proc'[p].existing[ActionOf(s, i)'] = "verified"
      BY <1>5, <1>6, <1>7 DEF SharedInv, InOrder, StateOf, Reached
    <2>3. QED BY <1>1, <1>5, <1>6, <1>7, <2>2 DEF Running
  <1>10. GoesForward(p)'
    <2> DEFINE n == Len(Actions(journal'[s].plan))
    <2>1. n \in Nat
      BY StepsOfPlan
    <2>2. \A i \in Steps(s)' : StateOf(s, i)' = proc'[p].existing[ActionOf(s, i)']
      BY <1>5, <1>6, <1>7 DEF StateOf
    <2>3. Applied(p, 0, 0)'
      <3>1. << >> \in Seq(ActionIds) /\ Len(<< >>) = 0 - 0 /\ 1..(0 - 0) = {} /\ 1..0 = {}
        OBVIOUS
      <3>2. proc'[p].applied = << >>
        BY <1>5, <1>6
      <3>3. QED BY <3>1, <3>2 DEF Applied
    <2>4. 1 \in 1..(n + 1) /\ 0 \in 0..0 /\ 1..0 = {} /\ 1 - 1 = 0
      BY <2>1
    <2> HIDE DEF n
    <2>5. QED BY <1>5, <1>6, <2>2, <2>3, <2>4 DEF GoesForward, n
  <1>11. RunOK(p)'
    BY <1>1, <1>3, <1>5, <1>6, <1>9, <1>10 DEF RunOK, Resting, Locked, Inner, Forward, Back
  <1>12. QED BY <1>1, <1>7, <1>11, RunStep DEF Resting

-----------------------------------------------------------------------------
(* A run that holds the lock.                                              *)

LEMMA InRun ==
    ASSUME SetupInv, NEW p \in Processes, proc[p].pc \in Inner
    PROVE  /\ proc[p].session \in Sessions /\ proc[p].session <= started /\ lock = proc[p].session
           /\ Running(p) /\ RunOK(p) /\ SharedInv /\ JournalOK
           /\ proc[p].plan.request \in Requests /\ proc[p].pc \notin Resting
           /\ DOMAIN proc[p] = ProcFields /\ DOMAIN proc[p].results = ActionIds
           /\ Current(p) = ActionOf(proc[p].session, proc[p].index)
           /\ Steps(proc[p].session) = 1..Len(Actions(proc[p].plan))
           /\ Opened(proc[p].session)
  <1>1. RunOK(p) /\ SharedInv /\ JournalOK /\ proc[p].pc \notin Resting /\ proc[p].pc \in Locked
    BY DEF SetupInv, SharedInv, Inner, Locked, Resting
  <1>2. Running(p) /\ proc[p].session \in Sessions /\ proc[p].session <= started /\ lock = proc[p].session
        /\ proc[p].plan.request \in Requests /\ DOMAIN proc[p] = ProcFields /\ DOMAIN proc[p].results = ActionIds
    BY <1>1 DEF RunOK, Resting
  <1>3. QED BY <1>1, <1>2 DEF Running, Current, ActionOf, Steps

\* A run that leaves the journal and its own memory of it alone still runs.
LEMMA StillRunning ==
    ASSUME NEW p, Running(p), proc'[p].session = proc[p].session, proc'[p].plan = proc[p].plan,
           proc'[p].existing = proc[p].existing, journal' = journal
    PROVE  Running(p)'
  <1> DEFINE s == proc[p].session
  <1>1. /\ s' = s /\ Opened(s)' = Opened(s) /\ Steps(s)' = Steps(s) /\ journal'[s] = journal[s]
        /\ \A i : ActionOf(s, i)' = ActionOf(s, i)
    BY DEF Opened, Steps, ActionOf
  <1> HIDE DEF s
  <1>2. QED BY <1>1 DEF Running, s

\* What the actions of a run can be without the journal being touched.
LEMMA RunningStep ==
    ASSUME SetupInv, OneRun, NEW p \in Processes, proc[p].pc \in Inner, NEW memory, Become(p, memory),
           SharedInv', lock' = lock, started' = started,
           DOMAIN proc'[p] = ProcFields, DOMAIN proc'[p].results = ActionIds,
           proc'[p].session = proc[p].session, proc'[p].plan = proc[p].plan, Running(p)',
           \/ proc'[p].pc \in Forward /\ GoesForward(p)'
           \/ proc'[p].pc \in {"fail"} \cup Back /\ GoesBack(p)'
           \/ proc'[p].pc = "release" /\ Ends(p)'
    PROVE  SetupInv'
  <1>1. RunOK(p)'
    <2>1. /\ proc[p].session \in Sessions /\ proc[p].session <= started /\ lock = proc[p].session
          /\ proc[p].plan.request \in Requests
      BY InRun
    <2>2. proc'[p].pc \in Forward \cup {"fail"} \cup Back \cup {"release"}
      OBVIOUS
    <2>3. QED BY <2>1, <2>2 DEF RunOK, Resting, Locked, Inner, Forward, Back
  <1>2. QED BY <1>1, InRun, RunStep

\* A run records the state of an action of its plan.
LEMMA RecordRun ==
    ASSUME SetupInv, NEW p \in Processes, proc[p].pc \in Inner, NEW s \in Sessions, s = proc[p].session,
           NEW k \in Steps(s), NEW st, Record(p, ActionOf(s, k), st),
           ~AllVerified(s), UNCHANGED <<lock, config, started>>,
           st # "pending",
           st \in Reached => \A i \in Steps(s) : i < k => StateOf(s, i) = "verified",
           st # "verified" => \A j \in Steps(s) : j > k => StateOf(s, j) \notin Reached,
           effects' \subseteq effects,
           st = "compensated" => ActionOf(s, k) \notin effects',
           proc'[p].session = s, proc'[p].plan = proc[p].plan, proc'[p].existing = proc[p].existing
    PROVE  /\ SharedInv' /\ Running(p)' /\ Steps(s)' = Steps(s) /\ latest' = s
           /\ \A i : ActionOf(s, i)' = ActionOf(s, i)
           /\ \A i \in Steps(s) : StateOf(s, i)' = IF i = k THEN st ELSE StateOf(s, i)
           /\ journal'[s].plan = journal[s].plan
  <1>1. /\ lock = s /\ Running(p) /\ SharedInv /\ JournalOK /\ Opened(s)
    BY InRun
  <1>2. /\ journal'[s].plan = journal[s].plan
        /\ \A a \in ActionIds : journal'[s].states[a] = IF a = ActionOf(s, k) THEN st ELSE journal[s].states[a]
        /\ \A i \in Steps(s) : StateOf(s, i)' = IF i = k THEN st ELSE StateOf(s, i)
        /\ latest' = s
    BY <1>1, RecordIs
  <1>3. Steps(s)' = Steps(s) /\ Opened(s)' = Opened(s) /\ \A i : ActionOf(s, i)' = ActionOf(s, i)
    BY <1>2, PlanStays
  <1>5. SharedInv'
    BY <1>1, RecordShared
  <1>6. Running(p)'
    BY <1>1, <1>2, <1>3 DEF Running
  <1>7. QED BY <1>2, <1>3, <1>5, <1>6

\* The same for a state that nothing relies on.
LEMMA RecordOther ==
    ASSUME SetupInv, NEW p \in Processes, proc[p].pc \in Inner, NEW s \in Sessions, s = proc[p].session,
           NEW k \in Steps(s), NEW st, Record(p, ActionOf(s, k), st),
           ~AllVerified(s), UNCHANGED <<lock, config, started>>,
           st \notin Reached \cup {"pending"},
           \A j \in Steps(s) : j > k => StateOf(s, j) \notin Reached,
           effects' \subseteq effects,
           st = "compensated" => ActionOf(s, k) \notin effects',
           proc'[p].session = s, proc'[p].plan = proc[p].plan, proc'[p].existing = proc[p].existing
    PROVE  /\ SharedInv' /\ Running(p)' /\ Steps(s)' = Steps(s) /\ latest' = s
           /\ \A i : ActionOf(s, i)' = ActionOf(s, i)
           /\ \A i \in Steps(s) : StateOf(s, i)' = IF i = k THEN st ELSE StateOf(s, i)
  <1>1. st # "verified" /\ st # "pending" /\ st \notin Reached
    BY DEF Reached
  <1>2. st \in Reached => \A i \in Steps(s) : i < k => StateOf(s, i) = "verified"
    BY <1>1
  <1>3. QED BY <1>1, <1>2, RecordRun, ZenonT(20)

LEMMA EndLoopInv ==
    ASSUME SetupInv, OneRun, NEW p \in Processes, EndLoop(p) PROVE SetupInv'
  <1>1. /\ proc[p].pc = "next" /\ UNCHANGED <<config, effects, lock, journal, latest, started>>
        /\ proc[p].index > Len(Actions(proc[p].plan)) /\ Become(p, [proc[p] EXCEPT !.pc = "release"])
        /\ proc[p].pc \in Inner /\ proc[p].pc \in Forward
    BY DEF EndLoop, Keep, shared, Inner, Locked, Forward
  <1> DEFINE s == proc[p].session
             n == Len(Actions(proc[p].plan))
             k == proc[p].index
  <1>2. SharedInv' /\ Running(p) /\ RunOK(p) /\ Steps(s) = 1..n /\ GoesForward(p) /\ n \in Nat
    BY <1>1, InRun, SharedStays, StepsOfPlan DEF shared, RunOK
  <1>3. k \in 1..(n + 1) /\ \A i \in 1..(k - 1) : StateOf(s, i) = "verified"
    BY <1>2 DEF GoesForward, Running
  <1>4. AllVerified(s)
    BY <1>1, <1>2, <1>3 DEF AllVerified
  <1>5. Ends(p)' /\ Running(p)'
    BY <1>1, <1>2, <1>4, PcIs, SessionStays, StillRunning DEF Ends
  <1>6. QED BY <1>1, <1>2, <1>5, PcIs, InRun, RunningStep

\* What the run knows when it goes forward.
LEMMA InForward ==
    ASSUME SetupInv, NEW p \in Processes, proc[p].pc \in Forward, NEW s, s = proc[p].session,
           NEW k, k = proc[p].index
    PROVE  /\ proc[p].pc \in Inner /\ GoesForward(p)
           /\ k \in Nat \ {0} /\ k <= Len(Actions(proc[p].plan)) + 1
           /\ proc[p].pc # "next" \/ k <= Len(Actions(proc[p].plan)) => k \in Steps(s)
           /\ proc[p].pc # "next" => proc[p].existing[ActionOf(s, k)] # "verified" /\ StateOf(s, k) # "verified"
           /\ \A i \in 1..(k - 1) : /\ i \in Steps(s) /\ StateOf(s, i) = "verified"
                                    /\ proc[p].results[ActionOf(s, i)] = "verified"
           /\ \A i \in Steps(s) : i > k \/ (i = k /\ proc[p].pc = "next") =>
                  StateOf(s, i) = proc[p].existing[ActionOf(s, i)]
  <1>1. proc[p].pc \in Inner
    BY DEF Forward, Inner, Locked
  <1>2. GoesForward(p) /\ Running(p) /\ Steps(s) = 1..Len(Actions(proc[p].plan))
    BY <1>1, InRun DEF RunOK
  <1>3. Len(Actions(proc[p].plan)) \in Nat /\ journal[s].plan = proc[p].plan
    BY <1>2, StepsOfPlan DEF Running
  <1>4. k \in 1..(Len(Actions(proc[p].plan)) + 1)
    BY <1>2, <1>3 DEF GoesForward
  <1>5. proc[p].pc # "next" => StateOf(s, k) \in {"running", "applied"}
    BY <1>2 DEF GoesForward, Forward
  <1>6. QED BY <1>1, <1>2, <1>3, <1>4, <1>5 DEF GoesForward

LEMMA SkipVerifiedInv ==
    ASSUME SetupInv, OneRun, NEW p \in Processes, SkipVerified(p) PROVE SetupInv'
  <1> DEFINE a == Current(p)
             memory == [proc[p] EXCEPT !.index = NextIndex(p), !.results[a] = "verified"]
  <1>1. /\ proc[p].pc = "next" /\ UNCHANGED <<config, effects, lock, journal, latest, started>>
        /\ proc[p].index <= Len(Actions(proc[p].plan)) /\ Become(p, memory)
        /\ proc[p].pc \in Inner /\ proc[p].pc \in Forward /\ proc[p].existing[a] = "verified"
    BY DEF SkipVerified, Keep, shared, Inner, Locked, Forward, VerifiedBefore
  <1>2. PICK s \in Sessions : s = proc[p].session
    BY <1>1, InRun
  <1>3. PICK k \in Nat \ {0} : k = proc[p].index
    BY <1>1, InForward
  <1>4. /\ SharedInv' /\ Running(p) /\ k \in Steps(s) /\ a = ActionOf(s, k) /\ GoesForward(p)
        /\ DOMAIN proc[p] = ProcFields /\ DOMAIN proc[p].results = ActionIds /\ a \in ActionIds
        /\ Steps(s) = 1..Len(Actions(proc[p].plan)) /\ Len(Actions(proc[p].plan)) \in Nat
        /\ journal[s].plan = proc[p].plan
    <2>1. Running(p) /\ SharedInv /\ DOMAIN proc[p] = ProcFields /\ DOMAIN proc[p].results = ActionIds
          /\ a = ActionOf(s, k) /\ Steps(s) = 1..Len(Actions(proc[p].plan))
      BY <1>1, <1>2, <1>3, InRun
    <2>2. Len(Actions(proc[p].plan)) \in Nat /\ journal[s].plan = proc[p].plan
      BY <1>2, <2>1, StepsOfPlan DEF Running
    <2>3. GoesForward(p) /\ k \in Steps(s)
      BY <1>1, <1>2, <1>3, InForward
    <2>4. SharedInv'
      BY <1>1, <2>1, SharedStays DEF shared
    <2>5. ActionOf(s, k) \in ActionIds
      BY <2>3, StepsOf
    <2>6. QED BY <2>1, <2>2, <2>3, <2>4, <2>5
  <1> HIDE DEF a
  <1>5. /\ DOMAIN memory = ProcFields /\ memory.pc = "next" /\ memory.session = s /\ memory.plan = proc[p].plan
        /\ memory.index = k + 1 /\ memory.applied = proc[p].applied /\ memory.existing = proc[p].existing
        /\ memory.results = [proc[p].results EXCEPT ![a] = "verified"]
    BY <1>1, <1>2, <1>3, <1>4 DEF ProcFields, NextIndex
  <1> HIDE DEF memory
  <1>6. proc'[p] = memory /\ DOMAIN memory.results = ActionIds
    BY <1>1, <1>4, <1>5, BecomeIs DEF SetupInv
  <1>7. /\ \A i \in 1..(k - 1) : StateOf(s, i) = "verified" /\ proc[p].results[ActionOf(s, i)] = "verified"
        /\ \A i \in Steps(s) : i >= k => StateOf(s, i) = proc[p].existing[ActionOf(s, i)]
    <2>1. /\ \A i \in 1..(k - 1) : /\ i \in Steps(s) /\ StateOf(s, i) = "verified"
                                   /\ proc[p].results[ActionOf(s, i)] = "verified"
          /\ \A i \in Steps(s) : i > k \/ (i = k /\ proc[p].pc = "next") =>
                  StateOf(s, i) = proc[p].existing[ActionOf(s, i)]
      BY <1>1, <1>2, <1>3, InForward
    <2>2. QED BY <1>1, <1>4, <2>1
  <1>8. \A i \in 1..k : StateOf(s, i) = "verified" /\ memory.results[ActionOf(s, i)] = "verified"
    BY <1>1, <1>4, <1>5, <1>7, StepsOf
  <1>9. \E m \in 0..k : Applied(p, m, k)'
    <2>1. PICK m \in 0..(k - 1) : Applied(p, m, k - 1)
      BY <1>1, <1>3, <1>4 DEF GoesForward
    <2>2. /\ proc[p].applied \in Seq(ActionIds) /\ Len(proc[p].applied) = k - 1 - m
          /\ \A i \in 1..(k - 1 - m) : proc[p].existing[ActionOf(s, m + i)] # "verified"
          /\ \A i \in 1..m : proc[p].existing[ActionOf(s, i)] = "verified"
      BY <1>2, <2>1 DEF Applied
    <2>3. m = k - 1
      <3> SUFFICES ASSUME m # k - 1 PROVE FALSE
        OBVIOUS
      <3>1. m + 1 \in Steps(s) /\ m + 1 < k /\ 1 \in 1..(k - 1 - m)
        BY <1>4
      <3>2. proc[p].existing[ActionOf(s, m + 1)] = "verified"
        BY <1>1, <1>2, <1>4, <3>1 DEF Running
      <3>3. QED BY <2>2, <3>1, <3>2
    <2>4. \A i \in 1..k : proc[p].existing[ActionOf(s, i)] = "verified"
      BY <1>1, <1>4, <2>2, <2>3
    <2>5. k - k = 0 /\ Len(proc[p].applied) = 0 /\ 1..0 = {}
      BY <2>2, <2>3
    <2>6. \A i : ActionOf(s, i)' = ActionOf(s, i)
      BY <1>1, SessionStays
    <2>7. Applied(p, k, k)'
      BY <1>5, <1>6, <2>2, <2>4, <2>5, <2>6 DEF Applied
    <2>8. QED BY <2>7
  <1>10. GoesForward(p)'
    <2>1. k + 1 \in 1..(Len(Actions(journal'[s].plan)) + 1) /\ k + 1 - 1 = k
      BY <1>1, <1>4
    <2>2. /\ \A i \in 1..k : StateOf(s, i)' = "verified" /\ memory.results[ActionOf(s, i)'] = "verified"
          /\ \A i \in Steps(s)' : i >= k + 1 => StateOf(s, i)' = memory.existing[ActionOf(s, i)']
      <3>1. \A i \in Steps(s) : i >= k + 1 => StateOf(s, i) = memory.existing[ActionOf(s, i)]
        BY <1>4, <1>5, <1>7
      <3>2. Steps(s)' = Steps(s) /\ \A i : ActionOf(s, i)' = ActionOf(s, i) /\ StateOf(s, i)' = StateOf(s, i)
        BY <1>1, SessionStays
      <3>3. QED BY <1>8, <3>1, <3>2
    <2>3. memory.session = s /\ memory.index = k + 1 /\ memory.pc = "next"
      BY <1>5
    <2>4. \A i \in Steps(s)' : i > k + 1 \/ i = k + 1 => i >= k + 1
      BY <1>4 DEF Steps
    <2>5. QED BY <1>6, <1>9, <2>1, <2>2, <2>3, <2>4 DEF GoesForward
  <1>11. Running(p)'
    BY <1>1, <1>2, <1>4, <1>5, <1>6, StillRunning
  <1>12. QED BY <1>1, <1>2, <1>4, <1>5, <1>6, <1>10, <1>11, RunningStep DEF Forward

LEMMA BeginActionInv ==
    ASSUME SetupInv, OneRun, NEW p \in Processes, BeginAction(p) PROVE SetupInv'
  <1>1. /\ proc[p].pc = "next" /\ UNCHANGED <<config, effects, lock, started>>
        /\ proc[p].index <= Len(Actions(proc[p].plan)) /\ Become(p, [proc[p] EXCEPT !.pc = "apply"])
        /\ proc[p].pc \in Inner /\ proc[p].pc \in Forward /\ proc[p].existing[Current(p)] # "verified"
        /\ Record(p, Current(p), "running")
    BY DEF BeginAction, Keep, Inner, Locked, Forward, VerifiedBefore, RecordRunning
  <1>2. PICK s \in Sessions : s = proc[p].session
    BY <1>1, InRun
  <1>3. PICK k \in Nat \ {0} : k = proc[p].index
    BY <1>1, InForward
  <1>4. /\ k \in Steps(s) /\ Current(p) = ActionOf(s, k) /\ GoesForward(p) /\ SharedInv
        /\ Steps(s) = 1..Len(Actions(proc[p].plan)) /\ Len(Actions(proc[p].plan)) \in Nat
        /\ journal[s].plan = proc[p].plan /\ DOMAIN proc[p].results = ActionIds
    BY <1>1, <1>2, <1>3, InRun, InForward, StepsOfPlan DEF Running
  <1>5. /\ \A i \in 1..(k - 1) : StateOf(s, i) = "verified" /\ proc[p].results[ActionOf(s, i)] = "verified"
        /\ \A i \in Steps(s) : i >= k => StateOf(s, i) = proc[p].existing[ActionOf(s, i)]
    <2>1. /\ \A i \in 1..(k - 1) : /\ i \in Steps(s) /\ StateOf(s, i) = "verified"
                                   /\ proc[p].results[ActionOf(s, i)] = "verified"
          /\ \A i \in Steps(s) : i > k \/ (i = k /\ proc[p].pc = "next") =>
                  StateOf(s, i) = proc[p].existing[ActionOf(s, i)]
      <3>1. proc[p].pc = "next" /\ 1..(k - 1) \subseteq Steps(s)
        BY <1>1, <1>4
      <3>2. QED BY <1>2, <1>3, <1>4, <3>1 DEF GoesForward
    <2>2. QED BY <1>1, <1>4, <2>1
  <1>6. StateOf(s, k) # "verified" /\ ~AllVerified(s)
    BY <1>1, <1>4, <1>5 DEF AllVerified
  <1>7. \A j \in Steps(s) : j > k => StateOf(s, j) \notin Reached
    BY <1>4, <1>6 DEF SharedInv, InOrder
  <1>8. /\ SharedInv' /\ Running(p)' /\ Steps(s)' = Steps(s)
        /\ \A i : ActionOf(s, i)' = ActionOf(s, i)
        /\ \A i \in Steps(s) : StateOf(s, i)' = IF i = k THEN "running" ELSE StateOf(s, i)
        /\ journal'[s].plan = journal[s].plan
    <2>1. proc'[p].session = s /\ proc'[p].plan = proc[p].plan /\ proc'[p].existing = proc[p].existing
      BY <1>1, <1>2, PcIs
    <2>2. \A i \in Steps(s) : i < k => StateOf(s, i) = "verified"
      BY <1>4, <1>5
    <2>3. Record(p, ActionOf(s, k), "running")
      BY <1>1, <1>4
    <2>4. effects' \subseteq effects
      BY <1>1
    <2>5. proc[p].pc \in Inner /\ UNCHANGED <<lock, config, started>>
      BY <1>1
    <2>6. "running" \notin {"pending", "verified", "compensated"}
      OBVIOUS
    <2>7. QED BY <1>2, <1>4, <1>6, <1>7, <2>1, <2>2, <2>3, <2>4, <2>5, <2>6, RecordRun
  <1>9. GoesForward(p)'
    <2>1. PICK m \in 0..(k - 1) : Applied(p, m, k - 1)
      BY <1>1, <1>3, <1>4 DEF GoesForward
    <2>2. Applied(p, m, k - 1)'
      <3>1. proc'[p].session = s /\ proc'[p].applied = proc[p].applied /\ proc'[p].existing = proc[p].existing
        BY <1>1, <1>2, PcIs
      <3>2. QED BY <1>2, <1>8, <2>1, <3>1 DEF Applied
    <2>3. /\ \A i \in 1..(k - 1) : StateOf(s, i)' = "verified" /\ proc[p].results[ActionOf(s, i)'] = "verified"
          /\ \A i \in Steps(s) : i > k => StateOf(s, i)' = proc[p].existing[ActionOf(s, i)']
          /\ StateOf(s, k)' = "running" /\ proc[p].existing[ActionOf(s, k)'] # "verified"
      BY <1>1, <1>4, <1>5, <1>8
    <2>4. /\ proc'[p].pc = "apply" /\ proc'[p].index = k /\ proc'[p].session = s
          /\ proc'[p].results = proc[p].results /\ proc'[p].existing = proc[p].existing
      BY <1>1, <1>2, <1>3, PcIs
    <2>5. k \in 1..(Len(Actions(journal'[s].plan)) + 1)
      BY <1>1, <1>4, <1>8
    <2>6. QED BY <1>4, <1>8, <2>2, <2>3, <2>4, <2>5 DEF GoesForward
  <1>10. QED BY <1>1, <1>4, <1>8, <1>9, PcIs, RunningStep DEF Forward

\* A run at its k-th action, having applied those after the m-th up to the l-th.
AtStep(p, s, k, m, l) ==
    /\ s = proc[p].session /\ k = proc[p].index /\ lock = s
    /\ SharedInv /\ Running(p) /\ journal[s].plan = proc[p].plan /\ Current(p) = ActionOf(s, k)
    /\ Len(Actions(proc[p].plan)) \in Nat /\ Steps(s) = 1..Len(Actions(proc[p].plan)) /\ k \in Steps(s)
    /\ proc[p].existing[ActionOf(s, k)] # "verified"
    /\ m \in 0..(k - 1) /\ l \in 0..k /\ m <= l /\ Applied(p, m, l)
    /\ DOMAIN proc[p] = ProcFields /\ DOMAIN proc[p].results = ActionIds

\* It applies, records or verifies the action.
Acting(p, s, k, m, l) ==
    /\ AtStep(p, s, k, m, l)
    /\ l = IF proc[p].pc = "verify" THEN k ELSE k - 1
    /\ \A i \in 1..(k - 1) : StateOf(s, i) = "verified" /\ proc[p].results[ActionOf(s, i)] = "verified"
    /\ \A i \in Steps(s) : i > k =>
           StateOf(s, i) = proc[p].existing[ActionOf(s, i)] /\ StateOf(s, i) \notin Reached
    /\ StateOf(s, k) = IF proc[p].pc = "verify" THEN "applied" ELSE "running"

LEMMA InAction ==
    ASSUME SetupInv, NEW p \in Processes, proc[p].pc \in {"apply", "record", "verify"}
    PROVE  \E s \in Sessions, k \in Nat \ {0}, m \in Nat, l \in Nat : Acting(p, s, k, m, l)
  <1>1. proc[p].pc \in Inner /\ proc[p].pc \in Forward
    BY DEF Forward, Inner, Locked
  <1>2. PICK s \in Sessions : s = proc[p].session
    BY <1>1, InRun
  <1>3. /\ lock = s /\ SharedInv /\ Running(p) /\ Steps(s) = 1..Len(Actions(proc[p].plan))
        /\ DOMAIN proc[p] = ProcFields /\ DOMAIN proc[p].results = ActionIds /\ RunOK(p)
        /\ Current(p) = ActionOf(s, proc[p].index)
    BY <1>1, <1>2, InRun
  <1>4. /\ Len(Actions(proc[p].plan)) \in Nat /\ journal[s].plan = proc[p].plan
    BY <1>2, <1>3, StepsOfPlan DEF Running
  <1>5. GoesForward(p)
    BY <1>1, <1>3 DEF RunOK
  <1>6. PICK k \in Nat \ {0} : k = proc[p].index /\ k \in Steps(s)
    BY <1>2, <1>3, <1>4, <1>5 DEF GoesForward
  <1>7. PICK l \in Nat : l \in 0..k /\ k - 1 <= l /\ l = IF proc[p].pc = "verify" THEN k ELSE k - 1
    OBVIOUS
  <1>8. PICK m \in 0..(k - 1) : Applied(p, m, l)
    BY <1>5, <1>6, <1>7 DEF GoesForward
  <1>9. /\ proc[p].existing[ActionOf(s, k)] # "verified"
        /\ StateOf(s, k) = IF proc[p].pc = "verify" THEN "applied" ELSE "running"
    BY <1>2, <1>5, <1>6 DEF GoesForward
  <1>10. /\ \A i \in 1..(k - 1) : StateOf(s, i) = "verified" /\ proc[p].results[ActionOf(s, i)] = "verified"
         /\ \A i \in Steps(s) : i > k => StateOf(s, i) = proc[p].existing[ActionOf(s, i)]
    BY <1>2, <1>5, <1>6 DEF GoesForward
  <1>11. \A i \in Steps(s) : i > k => StateOf(s, i) \notin Reached
    BY <1>3, <1>6, <1>9 DEF SharedInv, InOrder
  <1>12. m \in Nat /\ m <= l
    BY <1>7, <1>8
  <1>13. AtStep(p, s, k, m, l)
    BY <1>2, <1>3, <1>4, <1>6, <1>7, <1>8, <1>9, <1>12 DEF AtStep
  <1>14. QED BY <1>7, <1>9, <1>10, <1>11, <1>12, <1>13 DEF Acting

\* The memory of a run whose program counter alone changes.
LEMMA AppliedStays ==
    ASSUME NEW p, NEW m, NEW l, Applied(p, m, l), proc'[p].session = proc[p].session,
           proc'[p].applied = proc[p].applied, proc'[p].existing = proc[p].existing,
           \A i : ActionOf(proc[p].session, i)' = ActionOf(proc[p].session, i)
    PROVE  Applied(p, m, l)'
  BY DEF Applied

\* The action takes effect or not, and the runner or the journal raises.
LEMMA FailsInv ==
    ASSUME SetupInv, OneRun, NEW p \in Processes, proc[p].pc \in {"apply", "record", "verify"},
           Become(p, [proc[p] EXCEPT !.pc = "fail"]), UNCHANGED <<lock, journal, started>>,
           effects \subseteq effects', SharedInv'
    PROVE  SetupInv'
  <1>r. PICK s \in Sessions, k \in Nat \ {0}, m \in Nat, l \in Nat : Acting(p, s, k, m, l)
    BY InAction
  <1>1. /\ AtStep(p, s, k, m, l)
        /\ l = IF proc[p].pc = "verify" THEN k ELSE k - 1
        /\ \A i \in Steps(s) : i > k => StateOf(s, i) \notin Reached
        /\ StateOf(s, k) = IF proc[p].pc = "verify" THEN "applied" ELSE "running"
    BY <1>r DEF Acting
  <1>2. /\ s = proc[p].session /\ k = proc[p].index /\ Running(p) /\ k \in Steps(s) /\ Applied(p, m, l)
        /\ proc[p].existing[ActionOf(s, k)] # "verified" /\ m \in 0..(k - 1) /\ l \in 0..k /\ m <= l
        /\ DOMAIN proc[p].results = ActionIds /\ Steps(s) \subseteq Nat
    BY <1>1 DEF AtStep
  <1>3. /\ proc'[p].pc = "fail" /\ proc'[p].session = s /\ proc'[p].index = k /\ DOMAIN proc'[p] = ProcFields
        /\ proc'[p].results = proc[p].results /\ proc'[p].applied = proc[p].applied
        /\ proc'[p].existing = proc[p].existing /\ proc'[p].plan = proc[p].plan
    BY <1>2, PcIs
  <1>4. /\ Steps(s)' = Steps(s) /\ \A i : ActionOf(s, i)' = ActionOf(s, i) /\ StateOf(s, i)' = StateOf(s, i)
    BY SessionStays
  <1>5. HasFailed(p)'
    BY <1>1, <1>2, <1>3, <1>4 DEF HasFailed
  <1>6. Applied(p, m, l)'
    BY <1>2, <1>3, <1>4, AppliedStays
  <1>7. \A i \in Steps(s)' : i > l /\ i # k => StateOf(s, i)' \notin Reached
    BY <1>1, <1>2, <1>4
  <1>8. GoesBack(p)'
    BY <1>2, <1>3, <1>5, <1>6, <1>7 DEF GoesBack
  <1>9. Running(p)'
    BY <1>2, <1>3, StillRunning
  <1>10. proc[p].pc \in Inner
    BY DEF Inner, Locked
  <1>11. QED BY <1>2, <1>3, <1>8, <1>9, <1>10, RunningStep

LEMMA ApplyActionInv ==
    ASSUME SetupInv, OneRun, NEW p \in Processes, ApplyAction(p) PROVE SetupInv'
  <1>1. /\ proc[p].pc = "apply" /\ effects' = effects \cup ({Current(p)} \cap Commands)
        /\ Become(p, [proc[p] EXCEPT !.pc = "record"]) /\ UNCHANGED <<config, lock, journal, latest, started>>
    BY DEF ApplyAction, Keep
  <1>r. PICK s \in Sessions, k \in Nat \ {0}, m \in Nat, l \in Nat : Acting(p, s, k, m, l)
    BY <1>1, InAction
  <1>2. /\ AtStep(p, s, k, m, l) /\ l = k - 1
        /\ \A i \in 1..(k - 1) : StateOf(s, i) = "verified" /\ proc[p].results[ActionOf(s, i)] = "verified"
        /\ \A i \in Steps(s) : i > k => StateOf(s, i) = proc[p].existing[ActionOf(s, i)]
        /\ StateOf(s, k) = "running"
    BY <1>1, <1>r DEF Acting
  <1>3. /\ s = proc[p].session /\ k = proc[p].index /\ Running(p) /\ k \in Steps(s) /\ Applied(p, m, l)
        /\ proc[p].existing[ActionOf(s, k)] # "verified" /\ m \in 0..(k - 1) /\ Current(p) = ActionOf(s, k)
        /\ DOMAIN proc[p].results = ActionIds /\ Steps(s) \subseteq Nat /\ SharedInv
    BY <1>2 DEF AtStep
  <1>4. /\ proc'[p].pc = "record" /\ proc'[p].session = s /\ proc'[p].index = k /\ DOMAIN proc'[p] = ProcFields
        /\ proc'[p].results = proc[p].results /\ proc'[p].applied = proc[p].applied
        /\ proc'[p].existing = proc[p].existing /\ proc'[p].plan = proc[p].plan
    BY <1>1, <1>3, PcIs
  <1>5. /\ Steps(s)' = Steps(s) /\ \A i : ActionOf(s, i)' = ActionOf(s, i) /\ StateOf(s, i)' = StateOf(s, i)
    BY <1>1, SessionStays
  <1>6. SharedInv'
    BY <1>1, <1>2, <1>3, AppliedShared
  <1>7. Applied(p, m, k - 1)'
    BY <1>2, <1>3, <1>4, <1>5, AppliedStays
  <1>8. GoesForward(p)'
    <2>1. Len(Actions(journal'[s].plan)) \in Nat /\ k \in 1..(Len(Actions(journal'[s].plan)) + 1)
      BY <1>1, <1>3, StepsOfPlan DEF Steps
    <2>2. \A i \in Steps(s)' : i > k \/ (i = k /\ proc'[p].pc = "next") =>
              StateOf(s, i)' = proc'[p].existing[ActionOf(s, i)']
      BY <1>2, <1>4, <1>5
    <2>4. \A i \in 1..(k - 1) : StateOf(s, i)' = "verified" /\ proc'[p].results[ActionOf(s, i)'] = "verified"
      BY <1>2, <1>4, <1>5
    <2>5. k \in Steps(s)' /\ proc'[p].existing[ActionOf(s, k)'] # "verified" /\ StateOf(s, k)' = "running"
      BY <1>2, <1>3, <1>4, <1>5
    <2>6. QED BY <1>3, <1>4, <1>5, <1>7, <2>1, <2>2, <2>4, <2>5 DEF GoesForward
  <1>9. Running(p)' /\ proc[p].pc \in Inner
    BY <1>1, <1>3, <1>4, StillRunning DEF Inner, Locked
  <1>10. QED BY <1>1, <1>3, <1>4, <1>6, <1>8, <1>9, RunningStep DEF Forward

LEMMA ApplyFailsInv ==
    ASSUME SetupInv, OneRun, NEW p \in Processes, ApplyFails(p) PROVE SetupInv'
  <1>1. /\ proc[p].pc = "apply" /\ effects \subseteq effects' /\ effects' \subseteq effects \cup {Current(p)}
        /\ Become(p, [proc[p] EXCEPT !.pc = "fail"]) /\ UNCHANGED <<config, lock, journal, latest, started>>
    BY DEF ApplyFails, Keep
  <1>r. PICK s \in Sessions, k \in Nat \ {0}, m \in Nat, l \in Nat : Acting(p, s, k, m, l)
    BY <1>1, InAction
  <1>2. AtStep(p, s, k, m, l) /\ StateOf(s, k) = "running"
    BY <1>1, <1>r DEF Acting
  <1>3. k \in Steps(s) /\ Current(p) = ActionOf(s, k) /\ SharedInv
    BY <1>2 DEF AtStep
  <1>4. SharedInv'
    BY <1>1, <1>2, <1>3, AppliedShared
  <1>5. QED BY <1>1, <1>4, FailsInv

\* One more action is applied.
LEMMA AppliedGrows ==
    ASSUME NEW p, NEW s, s = proc[p].session, NEW k \in Nat \ {0}, NEW m \in 0..(k - 1), Applied(p, m, k - 1),
           ActionOf(s, k) \in ActionIds, proc[p].existing[ActionOf(s, k)] # "verified",
           proc'[p].session = s, proc'[p].existing = proc[p].existing,
           proc'[p].applied = Append(proc[p].applied, ActionOf(s, k)),
           \A i : ActionOf(s, i)' = ActionOf(s, i)
    PROVE  Applied(p, m, k)'
  <1> DEFINE old == proc[p].applied
             a == ActionOf(s, k)
             new == Append(old, a)
  <1>1. /\ old \in Seq(ActionIds) /\ Len(old) = k - 1 - m
        /\ \A i \in 1..(k - 1 - m) : old[i] = ActionOf(s, m + i) /\ proc[p].existing[ActionOf(s, m + i)] # "verified"
        /\ \A i \in 1..m : proc[p].existing[ActionOf(s, i)] = "verified"
    BY DEF Applied
  <1>2. a \in ActionIds
    OBVIOUS
  <1> HIDE DEF old, a
  <1>3. /\ new \in Seq(ActionIds) /\ Len(new) = k - m
        /\ \A i \in 1..(k - 1 - m) : new[i] = old[i]
        /\ new[k - m] = a
    BY <1>1, <1>2, AppendProperties DEF new
  <1> HIDE DEF new
  <1>4. ASSUME NEW i \in 1..(k - m)
        PROVE  new[i] = ActionOf(s, m + i) /\ proc[p].existing[ActionOf(s, m + i)] # "verified"
    <2>1. CASE i \in 1..(k - 1 - m)
      BY <1>1, <1>3, <2>1
    <2>2. CASE i = k - m
      <3>1. m + i = k
        BY <2>2
      <3>2. new[i] = ActionOf(s, m + i)
        BY <1>3, <2>2, <3>1 DEF a
      <3>3. proc[p].existing[ActionOf(s, m + i)] # "verified"
        BY <3>1
      <3>4. QED BY <3>2, <3>3
    <2>3. i \in 1..(k - 1 - m) \/ i = k - m
      OBVIOUS
    <2>4. QED BY <2>1, <2>2, <2>3
  <1>5. proc'[p].applied = new
    BY DEF old, a, new
  <1>6. \A i \in 1..(k - m) :
            /\ proc'[p].applied[i] = ActionOf(s, m + i)'
            /\ proc'[p].existing[ActionOf(s, m + i)'] # "verified"
    BY <1>4, <1>5
  <1>7. \A i \in 1..m : proc'[p].existing[ActionOf(s, i)'] = "verified"
    BY <1>1
  <1>8. QED BY <1>3, <1>5, <1>6, <1>7 DEF Applied

LEMMA RecordAppliedInv ==
    ASSUME SetupInv, OneRun, NEW p \in Processes, RecordApplied(p) PROVE SetupInv'
  <1>1. proc[p].pc = "record" /\ UNCHANGED <<config, effects, lock, started>>
    BY DEF RecordApplied, Keep
  <1>2. CASE Current(p) \in EvidenceRefused
    <2>1. UNCHANGED <<journal, latest>> /\ Become(p, [proc[p] EXCEPT !.pc = "fail"])
      BY <1>2 DEF RecordApplied
    <2>2. SharedInv'
      BY <1>1, <2>1, SharedStays DEF SetupInv, shared
    <2>3. QED BY <1>1, <2>1, <2>2, FailsInv
  <1>3. CASE Current(p) \notin EvidenceRefused
    <2>r. PICK s \in Sessions, k \in Nat \ {0}, m \in Nat, l \in Nat : Acting(p, s, k, m, l)
      BY <1>1, InAction
    <2>1. /\ AtStep(p, s, k, m, l) /\ l = k - 1
          /\ \A i \in 1..(k - 1) : StateOf(s, i) = "verified" /\ proc[p].results[ActionOf(s, i)] = "verified"
          /\ \A i \in Steps(s) : i > k => StateOf(s, i) = proc[p].existing[ActionOf(s, i)]
                                          /\ StateOf(s, i) \notin Reached
          /\ StateOf(s, k) = "running"
      BY <1>1, <2>r DEF Acting
    <2>2. /\ s = proc[p].session /\ k = proc[p].index /\ Running(p) /\ k \in Steps(s) /\ Applied(p, m, l)
          /\ proc[p].existing[ActionOf(s, k)] # "verified" /\ m \in 0..(k - 1) /\ Current(p) = ActionOf(s, k)
          /\ DOMAIN proc[p].results = ActionIds /\ Steps(s) = 1..Len(Actions(proc[p].plan)) /\ Len(Actions(proc[p].plan)) \in Nat /\ SharedInv
          /\ DOMAIN proc[p] = ProcFields
      BY <2>1 DEF AtStep
    <2> DEFINE memory == [proc[p] EXCEPT !.pc = "verify", !.applied = Append(@, Current(p))]
    <2>3. Become(p, memory) /\ Record(p, ActionOf(s, k), "applied")
      BY <1>3, <2>2 DEF RecordApplied
    <2>4. /\ DOMAIN memory = ProcFields /\ memory.pc = "verify" /\ memory.session = s /\ memory.plan = proc[p].plan
          /\ memory.results = proc[p].results /\ memory.index = k /\ memory.existing = proc[p].existing
          /\ memory.applied = Append(proc[p].applied, ActionOf(s, k))
      BY <2>2 DEF ProcFields
    <2> HIDE DEF memory
    <2>5. proc'[p] = memory
      BY <2>3, BecomeIs DEF SetupInv
    <2>6. ~AllVerified(s) /\ \A i \in Steps(s) : i < k => StateOf(s, i) = "verified"
      BY <2>1, <2>2 DEF AllVerified
    <2>7. "applied" \notin {"pending", "verified", "compensated"} /\ proc[p].pc \in Inner
      BY <1>1 DEF Inner, Locked
    <2>8. /\ SharedInv' /\ Running(p)' /\ Steps(s)' = Steps(s)
          /\ \A i : ActionOf(s, i)' = ActionOf(s, i)
          /\ \A i \in Steps(s) : StateOf(s, i)' = IF i = k THEN "applied" ELSE StateOf(s, i)
          /\ journal'[s].plan = journal[s].plan
      <3>1. proc'[p].session = s /\ proc'[p].plan = proc[p].plan /\ proc'[p].existing = proc[p].existing
        BY <2>4, <2>5
      <3>2. UNCHANGED <<lock, config, started>> /\ effects' \subseteq effects
        BY <1>1
      <3>3. \A j \in Steps(s) : j > k => StateOf(s, j) \notin Reached
        BY <2>1
      <3>4. s = proc[p].session /\ k \in Steps(s) /\ Record(p, ActionOf(s, k), "applied")
        BY <2>2, <2>3
      <3>5. QED BY <2>6, <2>7, <3>1, <3>2, <3>3, <3>4, RecordRun
    <2>9. GoesForward(p)'
      <3>1. Len(Actions(journal'[s].plan)) \in Nat /\ k \in 1..(Len(Actions(journal'[s].plan)) + 1)
        BY <2>2, <2>8, StepsOfPlan DEF Steps
      <3>2. \A i \in Steps(s)' : i > k \/ (i = k /\ memory.pc = "next") =>
                StateOf(s, i)' = memory.existing[ActionOf(s, i)']
        BY <2>1, <2>2, <2>4, <2>8
      <3>4. \A i \in 1..(k - 1) : StateOf(s, i)' = "verified" /\ memory.results[ActionOf(s, i)'] = "verified"
        <4>1. 1..(k - 1) \subseteq Steps(s)
          BY <2>2 DEF Steps
        <4>2. QED BY <2>1, <2>4, <2>8, <4>1
      <3>5. k \in Steps(s)' /\ memory.existing[ActionOf(s, k)'] # "verified" /\ StateOf(s, k)' = "applied"
        BY <2>2, <2>4, <2>8
      <3>6. Applied(p, m, k)'
        BY <2>1, <2>2, <2>4, <2>5, <2>8, AppliedGrows, StepsOf
      <3>7. QED BY <2>2, <2>4, <2>5, <3>1, <3>2, <3>4, <3>5, <3>6 DEF GoesForward
    <2>10. QED BY <1>1, <2>2, <2>3, <2>4, <2>5, <2>7, <2>8, <2>9, RunningStep DEF Forward
  <1>4. QED BY <1>2, <1>3

LEMMA VerifyActionInv ==
    ASSUME SetupInv, OneRun, NEW p \in Processes, VerifyAction(p) PROVE SetupInv'
  <1>1. proc[p].pc = "verify" /\ UNCHANGED <<config, effects, lock, started>>
    BY DEF VerifyAction, Keep
  <1>r. PICK s \in Sessions, k \in Nat \ {0}, m \in Nat, l \in Nat : Acting(p, s, k, m, l)
    BY <1>1, InAction
  <1>2. /\ AtStep(p, s, k, m, l) /\ l = k
        /\ \A i \in 1..(k - 1) : StateOf(s, i) = "verified" /\ proc[p].results[ActionOf(s, i)] = "verified"
        /\ \A i \in Steps(s) : i > k => StateOf(s, i) = proc[p].existing[ActionOf(s, i)]
        /\ StateOf(s, k) = "applied"
    BY <1>1, <1>r DEF Acting
  <1>3. /\ s = proc[p].session /\ k = proc[p].index /\ Running(p) /\ k \in Steps(s) /\ Applied(p, m, l)
        /\ m \in 0..(k - 1) /\ Current(p) = ActionOf(s, k)
        /\ DOMAIN proc[p].results = ActionIds /\ Steps(s) = 1..Len(Actions(proc[p].plan)) /\ SharedInv
        /\ DOMAIN proc[p] = ProcFields /\ Len(Actions(proc[p].plan)) \in Nat /\ journal[s].plan = proc[p].plan
    BY <1>2 DEF AtStep
  <1> DEFINE a == ActionOf(s, k)
             memory == [proc[p] EXCEPT !.pc = "next", !.index = NextIndex(p), !.results[a] = "verified"]
  <1>4. Become(p, memory) /\ Record(p, ActionOf(s, k), "verified")
    BY <1>3 DEF VerifyAction
  <1>5. a \in ActionIds /\ \A i \in Steps(s) : ActionOf(s, i) \in ActionIds
    BY <1>3, StepsOf
  <1> HIDE DEF a
  <1>6. /\ DOMAIN memory = ProcFields /\ memory.pc = "next" /\ memory.session = s /\ memory.plan = proc[p].plan
        /\ memory.index = k + 1 /\ memory.existing = proc[p].existing /\ memory.applied = proc[p].applied
        /\ memory.results = [proc[p].results EXCEPT ![a] = "verified"]
    BY <1>3 DEF ProcFields, NextIndex
  <1> HIDE DEF memory
  <1>7. proc'[p] = memory /\ DOMAIN memory.results = ActionIds
    BY <1>3, <1>4, <1>6, BecomeIs DEF SetupInv
  <1>8. ~AllVerified(s) /\ \A i \in Steps(s) : i < k => StateOf(s, i) = "verified"
    BY <1>2, <1>3 DEF AllVerified
  <1>9. "verified" \notin {"pending", "compensated"} /\ proc[p].pc \in Inner
    BY <1>1 DEF Inner, Locked
  <1>11. /\ SharedInv' /\ Running(p)' /\ Steps(s)' = Steps(s)
         /\ \A i : ActionOf(s, i)' = ActionOf(s, i)
         /\ \A i \in Steps(s) : StateOf(s, i)' = IF i = k THEN "verified" ELSE StateOf(s, i)
         /\ journal'[s].plan = journal[s].plan
    <2>1. proc'[p].session = s /\ proc'[p].plan = proc[p].plan /\ proc'[p].existing = proc[p].existing
      BY <1>6, <1>7
    <2>2. UNCHANGED <<lock, config, started>> /\ effects' \subseteq effects
      BY <1>1
    <2>4. s = proc[p].session /\ k \in Steps(s) /\ Record(p, ActionOf(s, k), "verified")
      BY <1>3, <1>4
    <2>5. QED BY <1>8, <1>9, <2>1, <2>2, <2>4, RecordRun
  <1>12. GoesForward(p)'
    <2>1. /\ Len(Actions(journal'[s].plan)) \in Nat /\ k + 1 \in 1..(Len(Actions(journal'[s].plan)) + 1)
          /\ k + 1 - 1 = k
      BY <1>3, <1>11
    <2>2. \A i \in Steps(s)' : i > k + 1 \/ (i = k + 1 /\ memory.pc = "next") =>
              StateOf(s, i)' = memory.existing[ActionOf(s, i)']
      BY <1>2, <1>3, <1>6, <1>11
    <2>3. \A i \in 1..k : StateOf(s, i)' = "verified" /\ memory.results[ActionOf(s, i)'] = "verified"
      <3> SUFFICES ASSUME NEW i \in 1..k
                   PROVE  StateOf(s, i)' = "verified" /\ memory.results[ActionOf(s, i)] = "verified"
        BY <1>11
      <3>1. i \in Steps(s) /\ ActionOf(s, i) \in ActionIds
        BY <1>3, <1>5
      <3>2. CASE i = k
        BY <1>3, <1>5, <1>6, <1>11, <3>1, <3>2 DEF a
      <3>3. CASE i # k
        <4>1. StateOf(s, i) = "verified" /\ proc[p].results[ActionOf(s, i)] = "verified"
          BY <1>2, <3>3
        <4>2. QED BY <1>3, <1>6, <1>11, <3>1, <3>3, <4>1
      <3>4. QED BY <3>2, <3>3
    <2>4. Applied(p, m, k)' /\ m \in 0..k
      BY <1>2, <1>3, <1>6, <1>7, <1>11, AppliedStays
    <2>5. proc'[p].pc = "next" /\ proc'[p].session = s /\ proc'[p].index = k + 1
      BY <1>6, <1>7
    <2>6. QED BY <1>7, <2>1, <2>2, <2>3, <2>4, <2>5 DEF GoesForward
  <1>13. QED BY <1>1, <1>3, <1>4, <1>6, <1>7, <1>9, <1>11, <1>12, RunningStep DEF Forward

LEMMA VerifyFailsInv ==
    ASSUME SetupInv, OneRun, NEW p \in Processes, VerifyFails(p) PROVE SetupInv'
  <1>1. /\ proc[p].pc = "verify" /\ UNCHANGED <<shared, started>> /\ UNCHANGED <<effects, lock, journal, started>>
        /\ Become(p, [proc[p] EXCEPT !.pc = "fail"])
    BY DEF VerifyFails, Keep, shared
  <1>2. SharedInv'
    BY <1>1, SharedStays DEF SetupInv
  <1>3. QED BY <1>1, <1>2, FailsInv

-----------------------------------------------------------------------------
(* A run that has failed.                                                  *)

\* It has failed: the actions after the l-th are not reached.
Failing(p, s, k, m, l) ==
    /\ AtStep(p, s, k, m, l)
    /\ StateOf(s, k) # "verified" /\ ~AllVerified(s)
    /\ \A i \in Steps(s) : i > l /\ i # k => StateOf(s, i) \notin Reached
    /\ \A i \in Steps(s) : i > k => StateOf(s, i) \notin Reached
    /\ proc[p].pc # "fail" =>
          proc[p].results[ActionOf(s, k)] # "verified" /\ StateOf(s, k) \notin Reached
    /\ proc[p].pc \in {"undo", "undone"} => m < l /\ StateOf(s, l) = "compensating" /\ latest = s
    /\ proc[p].pc = "undone" => ToCompensate(p) \notin effects

LEMMA InFailure ==
    ASSUME SetupInv, NEW p \in Processes, proc[p].pc \in {"fail"} \cup Back
    PROVE  \E s \in Sessions, k \in Nat \ {0}, m \in Nat, l \in Nat : Failing(p, s, k, m, l)
  <1>1. proc[p].pc \in Inner
    BY DEF Inner, Locked, Back
  <1>2. PICK s \in Sessions : s = proc[p].session
    BY <1>1, InRun
  <1>3. /\ lock = s /\ SharedInv /\ Running(p) /\ Steps(s) = 1..Len(Actions(proc[p].plan))
        /\ DOMAIN proc[p] = ProcFields /\ DOMAIN proc[p].results = ActionIds /\ RunOK(p)
        /\ Current(p) = ActionOf(s, proc[p].index)
    BY <1>1, <1>2, InRun
  <1>4. /\ Len(Actions(proc[p].plan)) \in Nat /\ journal[s].plan = proc[p].plan
    BY <1>2, <1>3, StepsOfPlan DEF Running
  <1>5. GoesBack(p) /\ HasFailed(p)
    BY <1>3 DEF RunOK, GoesBack
  <1>6. PICK k \in Nat \ {0} : k = proc[p].index /\ k \in Steps(s)
    BY <1>2, <1>3, <1>4, <1>5 DEF HasFailed
  <1>7. /\ StateOf(s, k) # "verified" /\ proc[p].existing[ActionOf(s, k)] # "verified"
        /\ proc[p].pc # "fail" => proc[p].results[ActionOf(s, k)] # "verified"
    BY <1>2, <1>5, <1>6 DEF HasFailed
  <1>8. PICK m \in 0..(k - 1), l \in 0..k :
            /\ m <= l /\ Applied(p, m, l)
            /\ \A i \in Steps(s) : i > l /\ i # k => StateOf(s, i) \notin Reached
            /\ proc[p].pc # "fail" => StateOf(s, k) \notin Reached
            /\ proc[p].pc \in {"undo", "undone"} => m < l /\ StateOf(s, l) = "compensating" /\ latest = s
    BY <1>2, <1>5, <1>6 DEF GoesBack
  <1>9. proc[p].pc = "undone" => ToCompensate(p) \notin effects
    BY <1>5 DEF GoesBack
  <1>10. ~AllVerified(s) /\ \A i \in Steps(s) : i > k => StateOf(s, i) \notin Reached
    BY <1>3, <1>6, <1>7 DEF AllVerified, SharedInv, InOrder
  <1>11. m \in Nat /\ l \in Nat
    BY <1>8
  <1>12. AtStep(p, s, k, m, l)
    BY <1>2, <1>3, <1>4, <1>6, <1>7, <1>8 DEF AtStep
  <1>13. QED BY <1>7, <1>8, <1>9, <1>10, <1>11, <1>12 DEF Failing

LEMMA FailActionInv ==
    ASSUME SetupInv, OneRun, NEW p \in Processes, FailAction(p) PROVE SetupInv'
  <1>1. proc[p].pc = "fail" /\ UNCHANGED <<config, effects, lock, started>>
    BY DEF FailAction, Keep
  <1>r. PICK s \in Sessions, k \in Nat \ {0}, m \in Nat, l \in Nat : Failing(p, s, k, m, l)
    BY <1>1, InFailure
  <1>2. /\ AtStep(p, s, k, m, l) /\ ~AllVerified(s)
        /\ \A i \in Steps(s) : i > l /\ i # k => StateOf(s, i) \notin Reached
        /\ \A i \in Steps(s) : i > k => StateOf(s, i) \notin Reached
    BY <1>1, <1>r DEF Failing
  <1>3. /\ s = proc[p].session /\ k = proc[p].index /\ Running(p) /\ k \in Steps(s) /\ Applied(p, m, l)
        /\ m \in 0..(k - 1) /\ l \in 0..k /\ m <= l /\ Current(p) = ActionOf(s, k)
        /\ proc[p].existing[ActionOf(s, k)] # "verified"
        /\ DOMAIN proc[p].results = ActionIds /\ DOMAIN proc[p] = ProcFields
    BY <1>2 DEF AtStep
  <1> DEFINE a == ActionOf(s, k)
             memory == [proc[p] EXCEPT !.pc = "compensate", !.results[a] = "failed"]
  <1>4. Become(p, memory) /\ Record(p, ActionOf(s, k), "failed")
    BY <1>3 DEF FailAction
  <1>5. a \in ActionIds
    BY <1>3, StepsOf
  <1> HIDE DEF a
  <1>6. /\ DOMAIN memory = ProcFields /\ memory.pc = "compensate" /\ memory.session = s /\ memory.plan = proc[p].plan
        /\ memory.index = k /\ memory.existing = proc[p].existing /\ memory.applied = proc[p].applied
        /\ memory.results = [proc[p].results EXCEPT ![a] = "failed"]
    BY <1>3 DEF ProcFields
  <1> HIDE DEF memory
  <1>7. proc'[p] = memory /\ DOMAIN memory.results = ActionIds /\ memory.results[ActionOf(s, k)] = "failed"
    BY <1>3, <1>4, <1>5, <1>6, BecomeIs DEF SetupInv, a
  <1>8. "failed" \notin {"pending", "verified", "compensated"} \cup Reached /\ proc[p].pc \in Inner
    BY <1>1 DEF Inner, Locked, Reached
  <1>9. /\ SharedInv' /\ Running(p)' /\ Steps(s)' = Steps(s)
        /\ \A i : ActionOf(s, i)' = ActionOf(s, i)
        /\ \A i \in Steps(s) : StateOf(s, i)' = IF i = k THEN "failed" ELSE StateOf(s, i)
    <2>1. proc'[p].session = s /\ proc'[p].plan = proc[p].plan /\ proc'[p].existing = proc[p].existing
      BY <1>6, <1>7
    <2>2. UNCHANGED <<lock, config, started>> /\ effects' \subseteq effects
      BY <1>1
    <2>3. s = proc[p].session /\ k \in Steps(s) /\ Record(p, ActionOf(s, k), "failed") /\ ~AllVerified(s)
          /\ \A i \in Steps(s) : i > k => StateOf(s, i) \notin Reached
      BY <1>2, <1>3, <1>4
    <2>4. "failed" \notin Reached \cup {"pending"} /\ "failed" # "compensated" /\ proc[p].pc \in Inner
      BY <1>8
    <2>5. QED BY <2>1, <2>2, <2>3, <2>4, RecordOther
  <1>10. proc'[p].pc = "compensate" /\ proc'[p].session = s /\ proc'[p].index = k
         /\ proc'[p].existing = proc[p].existing /\ proc'[p].results[ActionOf(s, k)] = "failed"
    BY <1>6, <1>7
  <1>11. HasFailed(p)'
    BY <1>3, <1>9, <1>10 DEF HasFailed
  <1>12. Applied(p, m, l)'
    BY <1>3, <1>6, <1>7, <1>9, AppliedStays
  <1>13. /\ \A i \in Steps(s)' : i > l /\ i # k => StateOf(s, i)' \notin Reached
         /\ StateOf(s, k)' \notin Reached
    BY <1>2, <1>3, <1>8, <1>9
  <1>14. GoesBack(p)'
    BY <1>3, <1>10, <1>11, <1>12, <1>13 DEF GoesBack
  <1>15. QED BY <1>1, <1>3, <1>4, <1>6, <1>7, <1>8, <1>9, <1>14, RunningStep DEF Back

LEMMA EndCompensationInv ==
    ASSUME SetupInv, OneRun, NEW p \in Processes, EndCompensation(p) PROVE SetupInv'
  <1>1. /\ proc[p].pc = "compensate" /\ UNCHANGED <<shared, started>> /\ proc[p].applied = << >>
        /\ UNCHANGED <<effects, lock, journal, started>> /\ Become(p, [proc[p] EXCEPT !.pc = "release"])
        /\ proc[p].pc \in Inner /\ proc[p].pc \in Back
    BY DEF EndCompensation, Keep, shared, Inner, Locked, Back
  <1>r. PICK s \in Sessions, k \in Nat \ {0}, m \in Nat, l \in Nat : Failing(p, s, k, m, l)
    BY <1>1, InFailure
  <1>2. /\ AtStep(p, s, k, m, l) /\ StateOf(s, k) \notin Reached
        /\ \A i \in Steps(s) : i > l /\ i # k => StateOf(s, i) \notin Reached
    BY <1>1, <1>r DEF Failing
  <1>3. /\ s = proc[p].session /\ k = proc[p].index /\ Running(p) /\ k \in Steps(s) /\ Applied(p, m, l)
        /\ proc[p].existing[ActionOf(s, k)] # "verified"
        /\ SharedInv /\ JournalOK /\ Steps(s) \subseteq Nat \ {0}
        /\ DOMAIN proc[p].results = ActionIds
    BY <1>2 DEF AtStep, SharedInv
  <1>6. /\ proc'[p].pc = "release" /\ proc'[p].session = s /\ proc'[p].index = k /\ DOMAIN proc'[p] = ProcFields
        /\ proc'[p].results = proc[p].results /\ proc'[p].existing = proc[p].existing /\ proc'[p].plan = proc[p].plan
    BY <1>1, <1>3, PcIs
  <1>7. /\ Steps(s)' = Steps(s) /\ \A i : ActionOf(s, i)' = ActionOf(s, i) /\ StateOf(s, i)' = StateOf(s, i)
    BY <1>1, SessionStays
  <1>8. Ends(p)'
    <2>1. HasFailed(p)
      BY <1>1, InRun DEF RunOK, GoesBack
    <2>2. HasFailed(p)'
      BY <1>1, <1>3, <1>6, <1>7, <2>1 DEF HasFailed
    <2>3. QED BY <2>2 DEF Ends
  <1>9. SharedInv' /\ Running(p)'
    BY <1>1, <1>3, <1>6, SharedStays, StillRunning
  <1>10. QED BY <1>1, <1>3, <1>6, <1>8, <1>9, RunningStep

\* The action to compensate is the last one applied.
LEMMA AppliedLast ==
    ASSUME NEW p, NEW s, s = proc[p].session, NEW m \in Nat, NEW l \in Nat, m < l, Applied(p, m, l)
    PROVE  ToCompensate(p) = ActionOf(s, l) /\ proc[p].applied # << >>
  <1> DEFINE old == proc[p].applied
  <1>1. /\ Len(old) = l - m /\ \A i \in 1..(l - m) : old[i] = ActionOf(s, m + i)
    BY DEF Applied
  <1>2. l - m \in 1..(l - m) /\ m + (l - m) = l
    OBVIOUS
  <1>3. old[l - m] = ActionOf(s, l)
    BY <1>1, <1>2
  <1>4. QED BY <1>1, <1>3 DEF ToCompensate

\* Then it is the one before.
LEMMA AppliedShrinks ==
    ASSUME NEW p, NEW s, s = proc[p].session, NEW m \in Nat, NEW l \in Nat, m < l, Applied(p, m, l),
           proc'[p].session = s, proc'[p].existing = proc[p].existing, proc'[p].applied = Dropped(p),
           \A i : ActionOf(s, i)' = ActionOf(s, i)
    PROVE  Applied(p, m, l - 1)'
  <1> DEFINE old == proc[p].applied
             new == SubSeq(old, 1, l - m - 1)
  <1>1. /\ old \in Seq(ActionIds) /\ Len(old) = l - m
        /\ \A i \in 1..(l - m) : old[i] = ActionOf(s, m + i) /\ proc[p].existing[ActionOf(s, m + i)] # "verified"
        /\ \A i \in 1..m : proc[p].existing[ActionOf(s, i)] = "verified"
    BY DEF Applied
  <1>2. proc'[p].applied = new
    BY <1>1 DEF Dropped
  <1> HIDE DEF old
  <1>3. 1 \in 1..(Len(old) + 1) /\ l - m - 1 \in 0..Len(old) /\ l - m - 1 \in Nat
    BY <1>1
  <1>4. new \in Seq(ActionIds) /\ Len(new) = l - 1 - m /\ \A i \in 1..(l - 1 - m) : new[i] = old[i]
    BY <1>1, <1>3
  <1> HIDE DEF new
  <1>5. \A i \in 1..(l - 1 - m) : /\ new[i] = ActionOf(s, m + i)'
                                  /\ proc'[p].existing[ActionOf(s, m + i)'] # "verified"
    BY <1>1, <1>4
  <1>6. \A i \in 1..m : proc'[p].existing[ActionOf(s, i)'] = "verified"
    BY <1>1
  <1>7. QED BY <1>2, <1>4, <1>5, <1>6 DEF Applied

\* The state of the action to compensate is recorded.
LEMMA BackStep ==
    ASSUME SetupInv, OneRun, NEW p \in Processes, proc[p].pc \in Back,
           NEW s \in Sessions, NEW k \in Nat \ {0}, NEW m \in Nat, NEW l \in Nat, AtStep(p, s, k, m, l), m < l,
           ~AllVerified(s), StateOf(s, k) \notin Reached,
           \A i \in Steps(s) : i > l /\ i # k => StateOf(s, i) \notin Reached,
           NEW st, st \notin Reached \cup {"pending"}, Record(p, ActionOf(s, l), st),
           UNCHANGED <<lock, config, started>>, effects' \subseteq effects,
           st = "compensated" => ActionOf(s, l) \notin effects',
           NEW memory, Become(p, memory), DOMAIN memory = ProcFields, DOMAIN memory.results = ActionIds,
           memory.session = s, memory.plan = proc[p].plan, memory.existing = proc[p].existing, memory.index = k,
           memory.results[ActionOf(s, k)] # "verified",
           \/ memory.pc = "undo" /\ st = "compensating" /\ memory.applied = proc[p].applied
           \/ memory.pc = "compensate" /\ memory.applied = Dropped(p)
    PROVE  SetupInv'
  <1>1. /\ s = proc[p].session /\ k \in Steps(s) /\ Steps(s) = 1..Len(Actions(proc[p].plan))
        /\ Len(Actions(proc[p].plan)) \in Nat /\ m \in 0..(k - 1) /\ l \in 0..k /\ Applied(p, m, l)
        /\ proc[p].existing[ActionOf(s, k)] # "verified"
    BY DEF AtStep
  <1>2. l \in Steps(s) /\ l <= k
    BY <1>1
  <1>3. proc'[p] = memory
    BY BecomeIs DEF SetupInv
  <1>4. \A j \in Steps(s) : j > l => StateOf(s, j) \notin Reached
    OBVIOUS
  <1>5. st # "verified" /\ proc[p].pc \in Inner
    BY DEF Reached, Back, Inner, Locked
  <1>6. /\ SharedInv' /\ Running(p)' /\ Steps(s)' = Steps(s) /\ latest' = s
        /\ \A i : ActionOf(s, i)' = ActionOf(s, i)
        /\ \A i \in Steps(s) : StateOf(s, i)' = IF i = l THEN st ELSE StateOf(s, i)
    <2>1. proc'[p].session = s /\ proc'[p].plan = proc[p].plan /\ proc'[p].existing = proc[p].existing
      BY <1>3
    <2>2. s = proc[p].session
      BY <1>1
    <2>3. QED BY <1>2, <1>4, <1>5, <2>1, <2>2, RecordOther
  <1>7. StateOf(s, k)' \notin Reached /\ k \in Steps(s)'
    BY <1>1, <1>6
  <1>8. HasFailed(p)'
    <2>1. StateOf(s, k)' # "verified"
      BY <1>7 DEF Reached
    <2>2. QED BY <1>1, <1>3, <1>6, <1>7, <2>1 DEF HasFailed
  <1>9. GoesBack(p)'
    <2>1. CASE memory.pc = "undo" /\ st = "compensating" /\ memory.applied = proc[p].applied
      <3>1. Applied(p, m, l)'
        BY <1>1, <1>3, <1>6, <2>1, AppliedStays
      <3>2. \A i \in Steps(s)' : i > l /\ i # k => StateOf(s, i)' \notin Reached
        BY <1>1, <1>6
      <3>3. StateOf(s, l)' = "compensating" /\ m <= l
        BY <1>2, <1>6, <2>1
      <3>4. proc'[p].pc = "undo" /\ proc'[p].session = s /\ proc'[p].index = k
        BY <1>3, <2>1
      <3>5. QED BY <1>1, <1>6, <1>7, <1>8, <3>1, <3>2, <3>3, <3>4 DEF GoesBack
    <2>2. CASE memory.pc = "compensate" /\ memory.applied = Dropped(p)
      <3>1. Applied(p, m, l - 1)'
        BY <1>1, <1>3, <1>6, <2>2, AppliedShrinks
      <3>2. \A i \in Steps(s)' : i > l - 1 /\ i # k => StateOf(s, i)' \notin Reached
        <4> SUFFICES ASSUME NEW i \in Steps(s), i > l - 1, i # k PROVE StateOf(s, i)' \notin Reached
          BY <1>6
        <4>1. i = l \/ i > l
          BY <1>1
        <4>2. QED BY <1>6, <4>1
      <3>3. l - 1 \in 0..k /\ m <= l - 1
        BY <1>1
      <3>4. proc'[p].pc = "compensate" /\ proc'[p].session = s /\ proc'[p].index = k
        BY <1>3, <2>2
      <3>5. QED BY <1>1, <1>7, <1>8, <3>1, <3>2, <3>3, <3>4 DEF GoesBack
    <2>3. QED BY <2>1, <2>2
  <1>10. proc'[p].pc \in Back
    BY <1>3 DEF Back
  <1>11. QED BY <1>1, <1>3, <1>5, <1>6, <1>9, <1>10, RunningStep

\* It compensates the l-th action.
Undoing(p, s, k, m, l) ==
    /\ AtStep(p, s, k, m, l) /\ m < l /\ ToCompensate(p) = ActionOf(s, l) /\ ActionOf(s, l) \in ActionIds
    /\ ActionOf(s, k) \in ActionIds
    /\ StateOf(s, k) \notin Reached /\ ~AllVerified(s)
    /\ \A i \in Steps(s) : i > l /\ i # k => StateOf(s, i) \notin Reached
    /\ proc[p].results[ActionOf(s, k)] # "verified"
    /\ proc[p].pc \in {"undo", "undone"} => StateOf(s, l) = "compensating" /\ latest = s
    /\ proc[p].pc = "undone" => ToCompensate(p) \notin effects
    /\ lock = s /\ s = proc[p].session /\ k = proc[p].index /\ l \in Steps(s) /\ SharedInv
    /\ DOMAIN proc[p] = ProcFields /\ DOMAIN proc[p].results = ActionIds

LEMMA InBack ==
    ASSUME SetupInv, NEW p \in Processes, proc[p].pc \in Back, proc[p].applied # << >>
    PROVE  \E s \in Sessions, k \in Nat \ {0}, m \in Nat, l \in Nat : Undoing(p, s, k, m, l)
  <1>r. PICK s \in Sessions, k \in Nat \ {0}, m \in Nat, l \in Nat : Failing(p, s, k, m, l)
    BY InFailure DEF Back
  <1>1. /\ AtStep(p, s, k, m, l)
        /\ ~AllVerified(s)
        /\ \A i \in Steps(s) : i > l /\ i # k => StateOf(s, i) \notin Reached
        /\ proc[p].results[ActionOf(s, k)] # "verified" /\ StateOf(s, k) \notin Reached
        /\ proc[p].pc \in {"undo", "undone"} => StateOf(s, l) = "compensating" /\ latest = s
        /\ proc[p].pc = "undone" => ToCompensate(p) \notin effects
    BY <1>r DEF Failing, Back
  <1>2. /\ s = proc[p].session /\ k = proc[p].index /\ k \in Steps(s) /\ Steps(s) = 1..Len(Actions(proc[p].plan))
        /\ Len(Actions(proc[p].plan)) \in Nat /\ m <= l /\ l \in 0..k /\ Applied(p, m, l) /\ lock = s /\ SharedInv
        /\ DOMAIN proc[p] = ProcFields /\ DOMAIN proc[p].results = ActionIds
    BY <1>1 DEF AtStep
  <1>3. m < l
    <2>1. proc[p].applied \in Seq(ActionIds) /\ Len(proc[p].applied) = l - m
      BY <1>2 DEF Applied
    <2>2. Len(proc[p].applied) # 0
      BY <2>1
    <2>3. QED BY <1>2, <2>1, <2>2
  <1>4. ToCompensate(p) = ActionOf(s, l)
    BY <1>2, <1>3, AppliedLast
  <1>5. l \in Steps(s)
    BY <1>2, <1>3
  <1>6. ActionOf(s, l) \in ActionIds /\ ActionOf(s, k) \in ActionIds
    BY <1>2, <1>5, StepsOf
  <1>7. QED BY <1>1, <1>2, <1>3, <1>4, <1>5, <1>6 DEF Undoing

\* While an action is undone there is one.
LEMMA UndoesOne ==
    ASSUME SetupInv, NEW p \in Processes, proc[p].pc \in {"undo", "undone"}
    PROVE  proc[p].applied # << >>
  <1>r. PICK s \in Sessions, k \in Nat \ {0}, m \in Nat, l \in Nat : Failing(p, s, k, m, l)
    BY InFailure DEF Back
  <1>1. AtStep(p, s, k, m, l) /\ m < l
    BY <1>r DEF Failing, Back
  <1>2. Applied(p, m, l)
    BY <1>1 DEF AtStep
  <1>3. Len(proc[p].applied) = l - m
    BY <1>2 DEF Applied
  <1>4. QED BY <1>1, <1>3

\* The memory of a run that gives its action up for manual recovery.
LEMMA ManualIs ==
    ASSUME SetupInv, NEW p \in Processes, DOMAIN proc[p] = ProcFields, DOMAIN proc[p].results = ActionIds,
           NEW a \in ActionIds, ToCompensate(p) = a, NeedsManual(p)
    PROVE  \E memory :
              /\ Become(p, memory) /\ DOMAIN memory = ProcFields /\ memory.pc = "compensate"
              /\ memory.session = proc[p].session /\ memory.plan = proc[p].plan /\ memory.index = proc[p].index
              /\ memory.existing = proc[p].existing /\ memory.applied = Dropped(p)
              /\ DOMAIN memory.results = ActionIds
              /\ \A b \in ActionIds : proc[p].results[b] # "verified" => memory.results[b] # "verified"
  <1> DEFINE memory == [proc[p] EXCEPT !.pc = "compensate", !.applied = Dropped(p),
                                       !.results[a] = "manual_recovery_required"]
  <1>1. Become(p, memory)
    BY DEF NeedsManual
  <1>2. /\ DOMAIN memory = ProcFields /\ memory.pc = "compensate"
        /\ memory.session = proc[p].session /\ memory.plan = proc[p].plan /\ memory.index = proc[p].index
        /\ memory.existing = proc[p].existing /\ memory.applied = Dropped(p)
        /\ memory.results = [proc[p].results EXCEPT ![a] = "manual_recovery_required"]
    BY DEF ProcFields
  <1> HIDE DEF memory
  <1>3. /\ DOMAIN memory.results = ActionIds
        /\ \A b \in ActionIds : proc[p].results[b] # "verified" => memory.results[b] # "verified"
    BY <1>2
  <1>4. QED BY <1>1, <1>2, <1>3

LEMMA BeginCompensationInv ==
    ASSUME SetupInv, OneRun, NEW p \in Processes, BeginCompensation(p) PROVE SetupInv'
  <1>1. /\ proc[p].pc = "compensate" /\ proc[p].pc \in Back /\ proc[p].applied # << >>
        /\ UNCHANGED <<config, effects, lock, started>>
    BY DEF BeginCompensation, Keep, Back
  <1>r. PICK s \in Sessions, k \in Nat \ {0}, m \in Nat, l \in Nat : Undoing(p, s, k, m, l)
    BY <1>1, InBack
  <1>2. /\ AtStep(p, s, k, m, l) /\ m < l /\ ToCompensate(p) = ActionOf(s, l) /\ ActionOf(s, l) \in ActionIds
        /\ ActionOf(s, k) \in ActionIds
        /\ StateOf(s, k) \notin Reached /\ ~AllVerified(s)
        /\ \A i \in Steps(s) : i > l /\ i # k => StateOf(s, i) \notin Reached
        /\ proc[p].results[ActionOf(s, k)] # "verified" /\ s = proc[p].session /\ k = proc[p].index
        /\ DOMAIN proc[p] = ProcFields /\ DOMAIN proc[p].results = ActionIds
    BY <1>1, <1>r DEF Undoing
  <1>3. UNCHANGED <<lock, config, started>> /\ effects' \subseteq effects
    BY <1>1
  <1>4. CASE ToCompensate(p) \in Reversible
    <2> DEFINE memory == [proc[p] EXCEPT !.pc = "undo"]
    <2>1. Become(p, memory) /\ Record(p, ActionOf(s, l), "compensating")
      BY <1>2, <1>4 DEF BeginCompensation
    <2>2. /\ DOMAIN memory = ProcFields /\ memory.pc = "undo" /\ memory.session = s /\ memory.plan = proc[p].plan
          /\ memory.index = k /\ memory.existing = proc[p].existing /\ memory.applied = proc[p].applied
          /\ memory.results = proc[p].results
      BY <1>2 DEF ProcFields
    <2> HIDE DEF memory
    <2>3. "compensating" \notin Reached \cup {"pending"} /\ "compensating" # "compensated"
      BY DEF Reached
    <2>4. QED BY <1>1, <1>2, <1>3, <2>1, <2>2, <2>3, BackStep
  <1>5. CASE ToCompensate(p) \notin Reversible
    <2>1. NeedsManual(p) /\ Record(p, ActionOf(s, l), "manual_recovery_required")
      BY <1>2, <1>5 DEF BeginCompensation
    <2>2. PICK memory :
              /\ Become(p, memory) /\ DOMAIN memory = ProcFields /\ memory.pc = "compensate"
              /\ memory.session = s /\ memory.plan = proc[p].plan /\ memory.index = k
              /\ memory.existing = proc[p].existing /\ memory.applied = Dropped(p)
              /\ DOMAIN memory.results = ActionIds /\ memory.results[ActionOf(s, k)] # "verified"
      BY <1>2, <2>1, ManualIs
    <2>3. "manual_recovery_required" \notin Reached \cup {"pending"} /\ "manual_recovery_required" # "compensated"
      BY DEF Reached
    <2>4. QED BY <1>1, <1>2, <1>3, <2>1, <2>2, <2>3, BackStep
  <1>6. QED BY <1>4, <1>5

LEMMA CompensateFailsInv ==
    ASSUME SetupInv, OneRun, NEW p \in Processes, CompensateFails(p) PROVE SetupInv'
  <1>1. /\ proc[p].pc = "undo" /\ proc[p].pc \in Back /\ proc[p].applied # << >>
        /\ UNCHANGED <<config, lock, started>> /\ NeedsManual(p)
        /\ effects' \subseteq effects /\ effects \ {ToCompensate(p)} \subseteq effects'
        /\ Record(p, ToCompensate(p), "manual_recovery_required")
    BY UndoesOne DEF CompensateFails, Keep, Back
  <1>r. PICK s \in Sessions, k \in Nat \ {0}, m \in Nat, l \in Nat : Undoing(p, s, k, m, l)
    BY <1>1, InBack
  <1>2. /\ AtStep(p, s, k, m, l) /\ m < l /\ ToCompensate(p) = ActionOf(s, l) /\ ActionOf(s, l) \in ActionIds
        /\ ActionOf(s, k) \in ActionIds
        /\ StateOf(s, k) \notin Reached /\ ~AllVerified(s)
        /\ \A i \in Steps(s) : i > l /\ i # k => StateOf(s, i) \notin Reached
        /\ proc[p].results[ActionOf(s, k)] # "verified" /\ s = proc[p].session /\ k = proc[p].index
        /\ DOMAIN proc[p] = ProcFields /\ DOMAIN proc[p].results = ActionIds
    BY <1>1, <1>r DEF Undoing
  <1>3. UNCHANGED <<lock, config, started>> /\ effects' \subseteq effects
    BY <1>1, <1>2
  <1>4. PICK memory :
              /\ Become(p, memory) /\ DOMAIN memory = ProcFields /\ memory.pc = "compensate"
              /\ memory.session = s /\ memory.plan = proc[p].plan /\ memory.index = k
              /\ memory.existing = proc[p].existing /\ memory.applied = Dropped(p)
              /\ DOMAIN memory.results = ActionIds /\ memory.results[ActionOf(s, k)] # "verified"
    BY <1>1, <1>2, ManualIs
  <1>5. "manual_recovery_required" \notin Reached \cup {"pending"} /\ "manual_recovery_required" # "compensated"
    BY DEF Reached
  <1>6. Record(p, ActionOf(s, l), "manual_recovery_required") /\ proc[p].pc \in Back
    BY <1>1, <1>2
  <1>7. QED BY <1>2, <1>3, <1>4, <1>5, <1>6, BackStep

LEMMA RecordCompensatedInv ==
    ASSUME SetupInv, OneRun, NEW p \in Processes, RecordCompensated(p) PROVE SetupInv'
  <1> DEFINE memory == [proc[p] EXCEPT !.pc = "compensate", !.applied = Dropped(p)]
  <1>1. /\ proc[p].pc = "undone" /\ proc[p].pc \in Back /\ proc[p].applied # << >>
        /\ UNCHANGED <<config, effects, lock, started>> /\ Become(p, memory)
        /\ Record(p, ToCompensate(p), "compensated")
    BY UndoesOne DEF RecordCompensated, Keep, Back
  <1>r. PICK s \in Sessions, k \in Nat \ {0}, m \in Nat, l \in Nat : Undoing(p, s, k, m, l)
    BY <1>1, InBack
  <1>2. /\ AtStep(p, s, k, m, l) /\ m < l /\ ToCompensate(p) = ActionOf(s, l)
        /\ StateOf(s, k) \notin Reached /\ ~AllVerified(s)
        /\ \A i \in Steps(s) : i > l /\ i # k => StateOf(s, i) \notin Reached
        /\ proc[p].results[ActionOf(s, k)] # "verified" /\ s = proc[p].session /\ k = proc[p].index
        /\ ToCompensate(p) \notin effects
        /\ DOMAIN proc[p] = ProcFields /\ DOMAIN proc[p].results = ActionIds
    BY <1>1, <1>r DEF Undoing
  <1>3. /\ DOMAIN memory = ProcFields /\ memory.pc = "compensate" /\ memory.session = s
        /\ memory.plan = proc[p].plan /\ memory.index = k /\ memory.existing = proc[p].existing
        /\ memory.applied = Dropped(p) /\ memory.results = proc[p].results
    BY <1>2 DEF ProcFields
  <1> HIDE DEF memory
  <1>4. "compensated" \notin Reached \cup {"pending"}
    BY DEF Reached
  <1>5. /\ UNCHANGED <<lock, config, started>> /\ effects' \subseteq effects /\ ActionOf(s, l) \notin effects'
        /\ Record(p, ActionOf(s, l), "compensated")
        /\ proc[p].pc \in Back /\ Become(p, memory)
    BY <1>1, <1>2
  <1>6. QED BY <1>2, <1>3, <1>4, <1>5, BackStep

LEMMA CompensateActionInv ==
    ASSUME SetupInv, OneRun, NEW p \in Processes, CompensateAction(p) PROVE SetupInv'
  <1>1. /\ proc[p].pc = "undo" /\ proc[p].pc \in Back /\ proc[p].pc \in Inner /\ proc[p].applied # << >>
        /\ UNCHANGED <<config, lock, journal, latest, started>> /\ effects' = effects \ {ToCompensate(p)}
        /\ Become(p, [proc[p] EXCEPT !.pc = "undone"])
    BY UndoesOne DEF CompensateAction, Keep, Back, Inner, Locked
  <1>r. PICK s \in Sessions, k \in Nat \ {0}, m \in Nat, l \in Nat : Undoing(p, s, k, m, l)
    BY <1>1, InBack
  <1>2. /\ AtStep(p, s, k, m, l) /\ m < l /\ ToCompensate(p) = ActionOf(s, l)
        /\ StateOf(s, k) \notin Reached /\ StateOf(s, l) = "compensating" /\ latest = s /\ lock = s
        /\ \A i \in Steps(s) : i > l /\ i # k => StateOf(s, i) \notin Reached
        /\ s = proc[p].session /\ k = proc[p].index /\ l \in Steps(s) /\ SharedInv
        /\ DOMAIN proc[p].results = ActionIds
    BY <1>1, <1>r DEF Undoing
  <1>3. /\ proc'[p].pc = "undone" /\ proc'[p].session = s /\ proc'[p].index = k /\ DOMAIN proc'[p] = ProcFields
        /\ proc'[p].results = proc[p].results /\ proc'[p].applied = proc[p].applied
        /\ proc'[p].existing = proc[p].existing /\ proc'[p].plan = proc[p].plan
    BY <1>1, <1>2, PcIs
  <1>4. /\ Steps(s)' = Steps(s) /\ \A i : ActionOf(s, i)' = ActionOf(s, i) /\ StateOf(s, i)' = StateOf(s, i)
    BY <1>1, SessionStays
  <1>5. SharedInv'
    BY <1>1, <1>2, LostShared
  <1>6. Applied(p, m, l) /\ m \in 0..(k - 1) /\ l \in 0..k /\ m <= l /\ Running(p)
    BY <1>2 DEF AtStep
  <1>7. Running(p)'
    BY <1>1, <1>2, <1>3, <1>6, StillRunning
  <1>8. GoesBack(p)'
    <2>1. HasFailed(p)'
      <3>1. HasFailed(p)
        BY <1>1, InRun DEF RunOK, GoesBack
      <3>2. QED BY <1>1, <1>2, <1>3, <1>4, <3>1 DEF HasFailed
    <2>2. Applied(p, m, l)'
      BY <1>2, <1>3, <1>4, <1>6, AppliedStays
    <2>3. ToCompensate(p)' \notin effects'
      BY <1>1, <1>3 DEF ToCompensate
    <2>4. /\ \A i \in Steps(s)' : i > l /\ i # k => StateOf(s, i)' \notin Reached
          /\ StateOf(s, k)' \notin Reached /\ StateOf(s, l)' = "compensating" /\ latest' = s
      BY <1>1, <1>2, <1>4
    <2>5. QED BY <1>2, <1>3, <1>6, <2>1, <2>2, <2>3, <2>4 DEF GoesBack
  <1>9. QED BY <1>1, <1>2, <1>3, <1>5, <1>7, <1>8, RunningStep DEF Back

-----------------------------------------------------------------------------
(* The end of a run.                                                       *)

LEMMA ReleaseLockInv ==
    ASSUME SetupInv, OneRun, NEW p \in Processes, ReleaseLock(p) PROVE SetupInv'
  <1>1. /\ proc[p].pc = "release" /\ UNCHANGED <<config, effects, journal, latest, started>>
        /\ lock' = (IF lock = proc[p].session THEN NoSession ELSE lock)
        /\ Become(p, [proc[p] EXCEPT !.pc = "executed"]) /\ proc[p].pc \in Inner
    BY DEF ReleaseLock, Unlock, Keep, Inner, Locked
  <1>2. PICK s \in Sessions : s = proc[p].session
    BY <1>1, InRun
  <1>3. /\ s <= started /\ lock = s /\ Running(p) /\ RunOK(p) /\ SharedInv /\ JournalOK
        /\ proc[p].plan.request \in Requests /\ DOMAIN proc[p].results = ActionIds /\ Ends(p)
    BY <1>1, <1>2, InRun DEF RunOK
  <1>4. journal[s].plan = proc[p].plan
    BY <1>2, <1>3 DEF Running
  <1>5. AllVerified(s) \/ HasFailed(p)
    BY <1>2, <1>3 DEF Ends
  <1>6. SharedInv'
    <2>1. started \in 0..MaxSessions /\ started <= started
      BY <1>3, SetupAssumption DEF JournalOK
    <2>2. QED BY <1>1, <1>3, <2>1, LockShared
  <1>7. /\ proc'[p].pc = "executed" /\ proc'[p].session = s /\ proc'[p].index = proc[p].index
        /\ DOMAIN proc'[p] = ProcFields
        /\ proc'[p].results = proc[p].results /\ proc'[p].existing = proc[p].existing /\ proc'[p].plan = proc[p].plan
    BY <1>1, <1>2, PcIs
  <1>8. /\ Steps(s)' = Steps(s) /\ AllVerified(s)' = AllVerified(s)
        /\ \A i : ActionOf(s, i)' = ActionOf(s, i) /\ StateOf(s, i)' = StateOf(s, i)
    BY <1>1, SessionStays
  <1>9. Ends(p)'
    <2>1. ASSUME HasFailed(p) PROVE HasFailed(p)'
      BY <1>1, <1>2, <1>7, <1>8, <2>1 DEF HasFailed
    <2>2. QED BY <1>5, <1>7, <1>8, <2>1 DEF Ends
  <1>10. journal'[s].plan = proc[p].plan
    BY <1>1, <1>4
  <1>11. RunOK(p)'
    BY <1>1, <1>3, <1>7, <1>9, <1>10 DEF RunOK, Resting, Locked, Inner, Forward, Back
  <1>12. proc[p].pc \notin Resting
    BY <1>1 DEF Resting
  <1>13. QED BY <1>1, <1>6, <1>11, <1>12, RunStep

\* What is known once the lock is released.
LEMMA InEnd ==
    ASSUME SetupInv, NEW p \in Processes, proc[p].pc \in {"executed", "compare", "replace"}
    PROVE  /\ proc[p].session \in Sessions /\ proc[p].session <= started /\ SharedInv
           /\ journal[proc[p].session].plan = proc[p].plan
           /\ proc[p].plan.request \in Requests /\ proc[p].pc \notin Resting
           /\ DOMAIN proc[p] = ProcFields /\ DOMAIN proc[p].results = ActionIds
           /\ proc[p].pc = "executed" => Ends(p)
           /\ proc[p].pc \in {"compare", "replace"} =>
                 AllVerified(proc[p].session) /\ \A r \in proc[p].document : VerifiedFor(r)
  <1>1. RunOK(p) /\ SharedInv /\ proc[p].pc \notin Resting
    BY DEF SetupInv, Resting
  <1>2. QED BY <1>1 DEF RunOK

\* A run that is to write the configuration.
LEMMA EndStep ==
    ASSUME SetupInv, OneRun, NEW p \in Processes, proc[p].pc \in {"executed", "compare"},
           UNCHANGED <<shared, started>>, AllVerified(proc[p].session),
           NEW memory, Become(p, memory), DOMAIN memory = ProcFields, memory.pc \in {"compare", "replace"},
           memory.session = proc[p].session, memory.plan = proc[p].plan, memory.results = proc[p].results,
           \A r \in memory.document : VerifiedFor(r)
    PROVE  SetupInv'
  <1>1. UNCHANGED <<journal, started>>
    BY DEF shared
  <1>2. PICK s \in Sessions : s = proc[p].session
    BY InEnd
  <1>3. /\ s <= started /\ SharedInv /\ journal[s].plan = proc[p].plan
        /\ proc[p].plan.request \in Requests /\ proc[p].pc \notin Resting /\ DOMAIN proc[p].results = ActionIds
    BY <1>2, InEnd
  <1>4. SharedInv'
    BY <1>3, SharedStays
  <1>5. proc'[p] = memory
    BY BecomeIs DEF SetupInv
  <1>6. /\ AllVerified(s)' /\ journal'[s].plan = proc[p].plan
        /\ \A r \in memory.document : VerifiedFor(r)'
    BY <1>1, <1>2, <1>3 DEF AllVerified, Steps, StateOf, ActionOf, VerifiedFor
  <1>7. RunOK(p)'
    BY <1>1, <1>2, <1>3, <1>5, <1>6 DEF RunOK, Resting, Locked, Inner, Forward, Back
  <1>8. QED BY <1>3, <1>4, <1>7, RunStep

LEMMA FinishInv ==
    ASSUME SetupInv, OneRun, NEW p \in Processes, Finish(p) PROVE SetupInv'
  <1>1. /\ proc[p].pc = "executed" /\ UNCHANGED <<shared, started>>
    BY DEF Finish, Keep
  <1>2. PICK s \in Sessions : s = proc[p].session
    BY <1>1, InEnd
  <1>3. /\ SharedInv /\ journal[s].plan = proc[p].plan
        /\ AllVerified(s) \/ HasFailed(p)
        /\ DOMAIN proc[p] = ProcFields /\ proc[p].pc \notin Resting
    BY <1>1, <1>2, InEnd DEF Ends
  <1>4. CASE Succeeded(p)
    <2> DEFINE memory == [proc[p] EXCEPT !.pc = "compare", !.document = config]
    <2>1. Become(p, memory)
      BY <1>4 DEF Finish
    <2>2. /\ DOMAIN memory = ProcFields /\ memory.pc = "compare" /\ memory.session = s /\ memory.plan = proc[p].plan
          /\ memory.results = proc[p].results /\ memory.document = config
      BY <1>2, <1>3 DEF ProcFields
    <2> HIDE DEF memory
    <2>3. ~HasFailed(p)
      <3>1. ASSUME HasFailed(p)
            PROVE  proc[p].index \in Steps(s) /\ proc[p].results[ActionOf(s, proc[p].index)] # "verified"
        BY <1>1, <1>2, <3>1 DEF HasFailed
      <3>2. \A k \in Steps(s) : proc[p].results[ActionOf(s, k)] = "verified"
        BY <1>3, <1>4 DEF Succeeded, Steps, ActionOf
      <3>3. QED BY <3>1, <3>2
    <2>4. \A r \in memory.document : VerifiedFor(r)
      <3>1. ConfigKnown
        BY <1>3 DEF SharedInv
      <3>2. QED BY <2>2, <3>1 DEF ConfigKnown
    <2>5. QED BY <1>1, <1>2, <1>3, <2>1, <2>2, <2>3, <2>4, EndStep
  <1>5. CASE ~Succeeded(p)
    <2>1. Become(p, Fresh)
      BY <1>5 DEF Finish
    <2>2. SharedInv'
      BY <1>1, <1>3, SharedStays
    <2>3. QED BY <1>3, <2>1, <2>2, FreshStep
  <1>6. QED BY <1>4, <1>5

LEMMA CompareInv ==
    ASSUME SetupInv, OneRun, NEW p \in Processes, Compare(p) PROVE SetupInv'
  <1>1. /\ proc[p].pc = "compare" /\ UNCHANGED <<shared, started>>
    BY DEF Compare, Keep
  <1>2. /\ AllVerified(proc[p].session) /\ proc[p].pc \notin Resting /\ SharedInv /\ DOMAIN proc[p] = ProcFields
        /\ \A r \in proc[p].document : VerifiedFor(r)
    BY <1>1, InEnd
  <1>3. CASE config = proc[p].document
    <2> DEFINE memory == [proc[p] EXCEPT !.pc = "replace"]
    <2>1. Become(p, memory)
      BY <1>3 DEF Compare
    <2>2. /\ DOMAIN memory = ProcFields /\ memory.pc = "replace" /\ memory.session = proc[p].session
          /\ memory.plan = proc[p].plan /\ memory.results = proc[p].results /\ memory.document = proc[p].document
      BY <1>2 DEF ProcFields
    <2> HIDE DEF memory
    <2>3. QED BY <1>1, <1>2, <2>1, <2>2, EndStep
  <1>4. CASE config # proc[p].document
    <2>1. Become(p, Fresh) /\ SharedInv'
      BY <1>1, <1>2, <1>4, SharedStays DEF Compare
    <2>2. QED BY <1>2, <2>1, FreshStep
  <1>5. QED BY <1>3, <1>4

LEMMA ReplaceInv ==
    ASSUME SetupInv, OneRun, NEW p \in Processes, Replace(p) PROVE SetupInv'
  <1>1. /\ proc[p].pc = "replace" /\ UNCHANGED <<effects, lock, journal, latest, started>>
        /\ config' = proc[p].document \cup {proc[p].plan.request} /\ Become(p, Fresh)
    BY DEF Replace, Keep
  <1>2. PICK s \in Sessions : s = proc[p].session
    BY <1>1, InEnd
  <1>3. /\ AllVerified(s) /\ proc[p].pc \notin Resting /\ SharedInv /\ journal[s].plan = proc[p].plan
        /\ proc[p].plan.request \in Requests /\ \A r \in proc[p].document : VerifiedFor(r)
    BY <1>1, <1>2, InEnd
  <1>4. VerifiedFor(proc[p].plan.request)
    BY <1>3 DEF VerifiedFor
  <1>5. SharedInv'
    BY <1>1, <1>3, <1>4, ConfigShared
  <1>6. QED BY <1>1, <1>3, <1>5, FreshStep

LEMMA CrashInv ==
    ASSUME SetupInv, OneRun, NEW p \in Processes, Crash(p) PROVE SetupInv'
  <1>1. SharedInv'
    BY SharedStays DEF Crash, SetupInv
  <1>2. QED BY <1>1, FreshStep DEF Crash

LEMMA InterruptInv ==
    ASSUME SetupInv, OneRun, NEW p \in Processes, Interrupt(p) PROVE SetupInv'
  <1>1. /\ proc[p].pc \notin Resting /\ UNCHANGED <<config, effects, journal, latest, started>>
        /\ Become(p, Fresh) /\ SharedInv
    BY DEF Interrupt, SetupInv, Locked, Resting
  <1>2. started \in 0..MaxSessions /\ started <= started
    BY <1>1, SetupAssumption DEF SharedInv, JournalOK
  <1>3. SharedInv'
    BY <1>1, <1>2, LockShared
  <1>4. QED BY <1>1, <1>3, FreshStep

\* No run relies on services to stay up.
LEMMA ServicesStopInv ==
    ASSUME SetupInv, ServicesStop PROVE SetupInv'
  <1>1. effects' \subseteq effects /\ UNCHANGED <<config, lock, journal, latest, proc, started>> /\ SharedInv
    BY DEF ServicesStop, SetupInv
  <1>2. SharedInv'
    BY <1>1, LostShared
  <1>3. \A p \in Processes : RunOK(p)'
    BY <1>1, RunStays DEF SetupInv
  <1>4. QED BY <1>1, <1>2, <1>3 DEF SetupInv

-----------------------------------------------------------------------------
(* The invariant.                                                          *)

LEMMA SetupInit ==
    ASSUME Init PROVE SetupInv
  <1>1. /\ DOMAIN journal = Sessions /\ DOMAIN proc = Processes
        /\ \A s \in Sessions : /\ DOMAIN journal[s] = {"plan", "states"} /\ journal[s].states = Untouched
                               /\ ~Opened(s)
    BY DEF Init, Opened, NoPlan
  <1>2. DOMAIN Untouched = ActionIds /\ \A a \in ActionIds : Untouched[a] = "pending"
    BY DEF Untouched
  <1>3. started \in 0..MaxSessions
    BY SetupAssumption DEF Init
  <1>4. JournalOK
    BY <1>1, <1>2, <1>3 DEF JournalOK
  <1>5. InOrder
    BY <1>1, <1>2, StepsOf DEF InOrder, StateOf, Reached
  <1>6. EffectsJournaled /\ effects \subseteq ActionIds /\ ConfigKnown
    BY DEF Init, EffectsJournaled, ConfigKnown
  <1>8. ASSUME NEW p \in Processes PROVE RunOK(p)
    <2>1. proc[p] = Fresh
      BY DEF Init
    <2>2. /\ DOMAIN Fresh = ProcFields /\ Fresh.pc = "idle" /\ Fresh.results = Untouched
          /\ Fresh.index = 1 /\ Fresh.applied = << >>
      BY DEF Fresh, ProcFields
    <2>3. QED BY <1>2, <2>1, <2>2 DEF RunOK, Resting, Locked, Inner, Forward, Back
  <1>9. QED BY <1>1, <1>4, <1>5, <1>6, <1>8 DEF SetupInv, SharedInv

LEMMA StepInv ==
    ASSUME SetupInv, OneRun, NEW p \in Processes, Step(p) PROVE SetupInv'
  <1>1. CASE SelectLock(p) \/ InsertLock(p) \/ OpenSession(p)
    BY <1>1, SelectLockInv, InsertLockInv, OpenSessionInv
  <1>2. CASE EndLoop(p) \/ SkipVerified(p) \/ BeginAction(p)
    BY <1>2, EndLoopInv, SkipVerifiedInv, BeginActionInv
  <1>3. CASE ApplyAction(p) \/ ApplyFails(p) \/ RecordApplied(p)
    BY <1>3, ApplyActionInv, ApplyFailsInv, RecordAppliedInv
  <1>4. CASE VerifyAction(p) \/ VerifyFails(p) \/ FailAction(p)
    BY <1>4, VerifyActionInv, VerifyFailsInv, FailActionInv
  <1>5. CASE EndCompensation(p) \/ BeginCompensation(p)
    BY <1>5, EndCompensationInv, BeginCompensationInv
  <1>6. CASE CompensateAction(p) \/ RecordCompensated(p) \/ CompensateFails(p)
    BY <1>6, CompensateActionInv, RecordCompensatedInv, CompensateFailsInv
  <1>7. CASE ReleaseLock(p) \/ Finish(p) \/ Compare(p) \/ Replace(p)
    BY <1>7, ReleaseLockInv, FinishInv, CompareInv, ReplaceInv
  <1>8. QED BY <1>1, <1>2, <1>3, <1>4, <1>5, <1>6, <1>7 DEF Step

LEMMA SetupNext ==
    ASSUME SetupInv, OneRun, OneRun', [Next]_vars PROVE SetupInv'
  <1>1. ASSUME NEW p \in Processes, Detect(p) PROVE SetupInv'
    BY <1>1, DetectInv
  <1>2. ASSUME NEW p \in Processes, NEW r \in Requests, MakePlan(p, r) PROVE SetupInv'
    BY <1>2, MakePlanInv
  <1>3. ASSUME NEW p \in Processes, NEW again \in BOOLEAN, StartApply(p, again) PROVE SetupInv'
    BY <1>3, StartApplyInv
  <1>4. ASSUME NEW p \in Processes, NEW s \in Sessions, Resume(p, s) PROVE SetupInv'
    BY <1>4, ResumeInv
  <1>5. ASSUME NEW p \in Processes, Step(p) PROVE SetupInv'
    BY <1>5, StepInv
  <1>6. ASSUME NEW p \in Processes, Crash(p) PROVE SetupInv'
    BY <1>6, CrashInv
  <1>9. ASSUME NEW p \in Processes, Interrupt(p) PROVE SetupInv'
    BY <1>9, InterruptInv
  <1>10. CASE ServicesStop
    BY <1>10, ServicesStopInv
  <1>7. CASE UNCHANGED vars
    <2>1. UNCHANGED <<shared, started>> /\ UNCHANGED proc /\ UNCHANGED <<effects, lock, journal, latest, started>>
      BY <1>7 DEF vars, shared
    <2>2. SharedInv'
      BY <2>1, SharedStays DEF SetupInv
    <2>3. \A p \in Processes : RunOK(p)'
      BY <2>1, RunStays DEF SetupInv
    <2>4. QED BY <2>1, <2>2, <2>3 DEF SetupInv
  <1>8. QED BY <1>1, <1>2, <1>3, <1>4, <1>5, <1>6, <1>7, <1>9, <1>10 DEF Next

-----------------------------------------------------------------------------
(* What it says of the journal, the machine and the report.                *)

LEMMA ConfigIsVerified ==
    ASSUME SetupInv PROVE ConfigVerified
  <1> SUFFICES ASSUME NEW r \in config
               PROVE  \E s \in Sessions :
                          /\ journal[s].plan.request = r
                          /\ \A k \in 1..Len(PlannedActions(r)) : journal[s].states[PlannedActions(r)[k]] = "verified"
    BY DEF ConfigVerified
  <1>1. PICK s \in Sessions : journal[s].plan.request = r /\ AllVerified(s)
    BY DEF SetupInv, SharedInv, ConfigKnown, VerifiedFor
  <1>2. QED BY <1>1 DEF AllVerified, Steps, StateOf, ActionOf, Actions

\* The step that takes an action back, unless services stop by themselves.
Undone(p) ==
    /\ proc[p].pc = "undo"
    /\ effects \ {ToCompensate(p)} \subseteq effects'
    /\ \/ UNCHANGED <<journal, latest>>
       \/ Record(p, ToCompensate(p), "manual_recovery_required")

LEMMA OnlyUndone ==
    ASSUME Next, NEW a \in effects, a \notin effects', proc' # proc
    PROVE  \E p \in Processes : Undone(p) /\ a = ToCompensate(p)
  <1>1. ~ServicesStop
    BY DEF ServicesStop
  <1>2. PICK p \in Processes :
            \/ Detect(p) \/ \E r \in Requests : MakePlan(p, r)
            \/ \E detectAgain \in BOOLEAN : StartApply(p, detectAgain)
            \/ \E s \in Sessions : Resume(p, s)
            \/ Step(p) \/ Interrupt(p) \/ Crash(p)
    BY <1>1 DEF Next
  <1>3. CASE CompensateAction(p)
    BY <1>3 DEF CompensateAction, Undone
  <1>4. CASE CompensateFails(p)
    BY <1>4 DEF CompensateFails, Undone
  <1>5. CASE ~CompensateAction(p) /\ ~CompensateFails(p)
    <2>1. effects \subseteq effects'
      BY <1>2, <1>5 DEF Detect, MakePlan, StartApply, Resume, Step, SelectLock, InsertLock, OpenSession, EndLoop,
             SkipVerified, BeginAction, ApplyAction, ApplyFails, RecordApplied, VerifyAction, VerifyFails, FailAction,
             EndCompensation, BeginCompensation, RecordCompensated, ReleaseLock, Finish, Compare, Replace, Interrupt,
             Crash, shared
    <2>2. QED BY <2>1
  <1>6. QED BY <1>3, <1>4, <1>5

\* The session updated last then has neither verified nor left untouched what was undone.
LEMMA UndoneIsJournaled ==
    ASSUME SetupInv, NEW p \in Processes, Undone(p)
    PROVE  /\ latest' \in Sessions
           /\ journal'[latest'].states[ToCompensate(p)] \in {"compensating", "manual_recovery_required"}
  <1>1. proc[p].pc \in Back /\ proc[p].pc = "undo" /\ proc[p].applied # << >>
    BY UndoesOne DEF Undone, Back
  <1>r. PICK s \in Sessions, k \in Nat \ {0}, m \in Nat, l \in Nat : Undoing(p, s, k, m, l)
    BY <1>1, InBack
  <1>2. /\ ToCompensate(p) = ActionOf(s, l) /\ ActionOf(s, l) \in ActionIds /\ latest = s
        /\ journal[s].states[ActionOf(s, l)] = "compensating" /\ s = proc[p].session /\ l \in Steps(s) /\ JournalOK
    BY <1>1, <1>r DEF Undoing, StateOf, SharedInv
  <1>3. CASE UNCHANGED <<journal, latest>>
    BY <1>2, <1>3
  <1>4. CASE Record(p, ActionOf(s, l), "manual_recovery_required")
    <2>1. latest' = s /\ journal'[s].states[ActionOf(s, l)] = "manual_recovery_required"
      BY <1>2, <1>4, RecordIs
    <2>2. QED BY <1>2, <2>1
  <1>5. QED BY <1>2, <1>3, <1>4 DEF Undone

\* Without services that are probed or verified the development runtime is not ready.
NotSeen ==
    /\ "services.local.start" \notin effects
    /\ StatusResults("development")["services.local.start"] # "verified"

NoneReady == ReadyIn = {}

LEMMA NotReported == NotSeen => NoneReady
  <1> SUFFICES ASSUME NotSeen PROVE ReadyIn = {}
    BY DEF NoneReady
  <1> USE DEF NotSeen
  <1> SUFFICES ASSUME NEW env \in Environments,
                      CapabilityState("development", "local_runtime", env, StatusResults("development")) = "ready"
               PROVE  FALSE
    BY DEF ReadyIn
  <1> DEFINE results == StatusResults("development")
             required == {"services.local.start", "database.migrate", "storage.verify", "checks.fast"}
             checks == {env.tools, env.legacy, "repairable"}
  <1>1. RequiredActions["development"]["local_runtime"] = required
    BY DEF RequiredActions
  <1>2. Checks("development", env)["local_runtime"] = checks
    BY DEF Checks, DevelopmentChecks, ServiceCheck
  <1>3. Worst(checks) # "ready"
    <2>1. checks \subseteq {"ready", "repairable", "blocked"}
      BY DEF Environments, ToolStates, LegacyStates
    <2>2. \E w \in checks : \A t \in checks : CheckOrder[t] <= CheckOrder[w]
      BY <2>1 DEF CheckOrder
    <2>3. Worst(checks) \in checks /\ \A t \in checks : CheckOrder[t] <= CheckOrder[Worst(checks)]
      BY <2>2 DEF Worst
    <2>4. CheckOrder["repairable"] <= CheckOrder[Worst(checks)]
      BY <2>3
    <2>5. CheckOrder["repairable"] = 2 /\ CheckOrder["ready"] = 1
      BY DEF CheckOrder
    <2>6. QED BY <2>4, <2>5
  <1> HIDE DEF results, checks
  <1>4. ApplyExecutionState(required, Worst(checks), results) = "ready"
    BY <1>1, <1>2 DEF CapabilityState, results
  <1>5. ~(\A a \in required : results[a] = "verified") /\ required # {}
    BY DEF results
  <1> HIDE DEF required
  <1>6. QED BY <1>3, <1>4, <1>5, Zenon DEF ApplyExecutionState

LEMMA NotReportedNext ==
    ASSUME "services.local.start" \notin effects', latest' \in Sessions,
           journal'[latest'].states["services.local.start"] # "verified"
    PROVE  ReadyIn' = {}
  <1>1. NotSeen'
    <2>1. CASE StatusResults("development")' = Untouched
      BY <2>1 DEF NotSeen, Untouched, ActionIds
    <2>2. CASE StatusResults("development")' = journal'[latest'].states
      BY <2>2 DEF NotSeen
    <2>3. QED BY <2>1, <2>2 DEF StatusResults, StatusSession
  <1>2. NoneReady'
    BY <1>1, NotReported, PTL
  <1>3. QED BY <1>2 DEF NoneReady

\* The action property.
NotUnderReady ==
    \A a \in Detectable \cap effects : a \notin effects' /\ proc' # proc => ReadyIn' = {}

LEMMA NextReports ==
    ASSUME SetupInv, [Next]_vars PROVE NotUnderReady
  <1> SUFFICES ASSUME NEW a \in Detectable \cap effects, a \notin effects', proc' # proc
               PROVE  ReadyIn' = {}
    BY DEF NotUnderReady
  <1>1. Next
    BY DEF vars
  <1>2. PICK p \in Processes : Undone(p) /\ a = ToCompensate(p)
    BY <1>1, OnlyUndone
  <1>3. latest' \in Sessions /\ journal'[latest'].states[a] # "verified"
    BY <1>2, UndoneIsJournaled
  <1>4. a = "services.local.start"
    BY DEF Detectable
  <1>5. QED BY <1>3, <1>4, NotReportedNext

LEMMA SetupCompensates ==
    ASSUME SetupInv PROVE CompensatedFromTheEnd
  <1> SUFFICES ASSUME NEW s \in Sessions, NEW i \in Steps(s), NEW j \in Steps(s),
                      i < j, StateOf(s, i) = "compensated"
               PROVE  StateOf(s, j) \notin {"running", "applied", "verified"}
    BY DEF CompensatedFromTheEnd, Steps, StateOf, ActionOf
  <1>1. InOrder
    BY DEF SetupInv, SharedInv
  <1>2. QED BY <1>1 DEF InOrder, Reached

\* No step journals a verified action as running, stale or not.
VerifiedStays ==
    \A s \in Sessions, a \in ActionIds :
        journal[s].states[a] = "verified" => journal'[s].states[a] # "running"

NotRepeated ==
    \A s \in Sessions, a \in ActionIds :
        journal[s].states[a] = "verified" /\ ~Stale(a) => journal'[s].states[a] # "running"

LEMMA RecordKeeps ==
    ASSUME JournalOK, NEW p, NEW b, NEW st, Record(p, b, st), st # "running" PROVE VerifiedStays
  <1> SUFFICES ASSUME NEW s \in Sessions, NEW a \in ActionIds, journal[s].states[a] = "verified"
               PROVE  journal'[s].states[a] # "running"
    BY DEF VerifiedStays
  <1> DEFINE t == proc[p].session
             jt == journal[t]
  <1>1. DOMAIN journal = Sessions /\ DOMAIN journal[s] = {"plan", "states"} /\ DOMAIN journal[s].states = ActionIds
    BY DEF JournalOK
  <1>2. journal' = [journal EXCEPT ![t].states[b] = st]
    BY DEF Record
  <1>3. journal'[s] = journal[s] \/ (s = t /\ journal'[s] = [jt EXCEPT !.states[b] = st])
    BY <1>1, <1>2
  <1>4. CASE s = t /\ journal'[s] = [jt EXCEPT !.states[b] = st]
    <2>1. journal'[s].states = [journal[s].states EXCEPT ![b] = st]
      BY <1>1, <1>4
    <2>2. QED BY <1>1, <2>1
  <1>5. QED BY <1>3, <1>4

LEMMA JournalKeeps ==
    ASSUME UNCHANGED journal PROVE VerifiedStays
  BY DEF VerifiedStays

\* The one step that journals an action as running.
LEMMA BeginKeeps ==
    ASSUME SetupInv, NEW p \in Processes, BeginAction(p) PROVE VerifiedStays
  <1>1. /\ proc[p].pc = "next" /\ proc[p].pc \in Forward /\ proc[p].pc \in Inner /\ SharedInv /\ JournalOK
        /\ proc[p].index <= Len(Actions(proc[p].plan)) /\ proc[p].existing[Current(p)] # "verified"
        /\ Record(p, Current(p), "running")
    BY DEF BeginAction, VerifiedBefore, RecordRunning, SetupInv, SharedInv, Forward, Inner, Locked
  <1>2. PICK s \in Sessions : s = proc[p].session /\ Steps(s) = 1..Len(Actions(proc[p].plan)) /\ Current(p) = ActionOf(s, proc[p].index)
    BY <1>1, InRun
  <1>3. GoesForward(p)
    BY <1>1, InRun DEF RunOK
  <1>4. PICK k \in Steps(s) : k = proc[p].index
    <2>1. proc[p].index \in 1..(Len(Actions(journal[s].plan)) + 1)
      BY <1>2, <1>3 DEF GoesForward
    <2>2. Len(Actions(journal[s].plan)) \in Nat /\ Steps(s) = 1..Len(Actions(journal[s].plan))
      BY StepsOfPlan DEF Steps
    <2>3. Len(Actions(proc[p].plan)) \in Nat
      BY StepsOfPlan
    <2>4. QED BY <1>1, <1>2, <2>1, <2>2, <2>3
  <1>5. StateOf(s, k) # "verified"
    BY <1>1, <1>2, <1>3, <1>4 DEF GoesForward
  <1>6. /\ \A t \in Sessions : t # s => journal'[t] = journal[t]
        /\ \A a \in ActionIds : journal'[s].states[a] = IF a = ActionOf(s, k) THEN "running"
                                                        ELSE journal[s].states[a]
    BY <1>1, <1>2, <1>4, RecordIs
  <1>7. QED BY <1>5, <1>6 DEF VerifiedStays, StateOf

LEMMA NextKeeps ==
    ASSUME SetupInv, [Next]_vars PROVE VerifiedStays
  <1>1. JournalOK
    BY DEF SetupInv, SharedInv
  <1>2. ASSUME NEW p \in Processes, OpenSession(p) PROVE VerifiedStays
    <2>1. CASE UNCHANGED journal
      BY <2>1, JournalKeeps
    <2>2. CASE journal' = [journal EXCEPT ![proc[p].session].plan = proc[p].plan]
      <3>1. \A s \in Sessions : journal'[s].states = journal[s].states
        BY <1>1, <2>2 DEF JournalOK
      <3>2. QED BY <3>1 DEF VerifiedStays
    <2>3. QED BY <1>2, <2>1, <2>2 DEF OpenSession
  <1>3. ASSUME NEW p \in Processes, BeginAction(p) PROVE VerifiedStays
    BY <1>3, BeginKeeps
  <1>4. ASSUME NEW p \in Processes,
               RecordApplied(p) \/ VerifyAction(p) \/ FailAction(p)
        PROVE  VerifiedStays
    <2>1. UNCHANGED journal \/ \E st \in {"applied", "verified", "failed"} : Record(p, Current(p), st)
      BY <1>4 DEF RecordApplied, VerifyAction, FailAction
    <2>2. QED BY <1>1, <2>1, RecordKeeps, JournalKeeps
  <1>5. ASSUME NEW p \in Processes, BeginCompensation(p) \/ RecordCompensated(p) \/ CompensateFails(p)
        PROVE  VerifiedStays
    <2>1. \E st \in {"compensating", "compensated", "manual_recovery_required"} : Record(p, ToCompensate(p), st)
      BY <1>5 DEF BeginCompensation, RecordCompensated, CompensateFails
    <2>2. QED BY <1>1, <2>1, RecordKeeps
  <1>6. ASSUME NEW p \in Processes,
               \/ Detect(p) \/ \E r \in Requests : MakePlan(p, r)
               \/ \E detectAgain \in BOOLEAN : StartApply(p, detectAgain)
               \/ \E s \in Sessions : Resume(p, s)
               \/ SelectLock(p) \/ InsertLock(p) \/ EndLoop(p) \/ SkipVerified(p) \/ ApplyAction(p)
               \/ ApplyFails(p) \/ VerifyFails(p) \/ EndCompensation(p) \/ CompensateAction(p)
               \/ ReleaseLock(p) \/ Finish(p) \/ Compare(p) \/ Replace(p) \/ Interrupt(p) \/ Crash(p)
        PROVE  UNCHANGED journal
    BY <1>6 DEF Detect, MakePlan, StartApply, Resume, SelectLock, InsertLock, EndLoop, SkipVerified, ApplyAction,
                ApplyFails, VerifyFails, EndCompensation, CompensateAction, ReleaseLock, Finish, Compare, Replace,
                Interrupt, Crash, shared
  <1>7. CASE UNCHANGED vars \/ ServicesStop
    BY <1>7, JournalKeeps DEF vars, ServicesStop
  <1>8. CASE Next /\ ~ServicesStop
    <2>1. PICK p \in Processes :
              \/ Detect(p) \/ \E r \in Requests : MakePlan(p, r)
              \/ \E detectAgain \in BOOLEAN : StartApply(p, detectAgain)
              \/ \E s \in Sessions : Resume(p, s)
              \/ Step(p) \/ Interrupt(p) \/ Crash(p)
      BY <1>8 DEF Next
    <2>2. QED BY <1>2, <1>3, <1>4, <1>5, <1>6, <2>1, JournalKeeps DEF Step
  <1>9. QED BY <1>7, <1>8

-----------------------------------------------------------------------------
(* The theorems.                                                           *)

\* The invariant holds throughout the runs, crashes, interruptions and resumptions of the Setup Center
\* (service.py, execution.py) when they do not overlap.
THEOREM SetupInvariant == Spec /\ []OneRun => []SetupInv
  <1>1. Init => SetupInv
    BY SetupInit
  <1>2. SetupInv /\ OneRun /\ OneRun' /\ [Next]_vars => SetupInv'
    BY SetupNext
  <1>3. QED BY <1>1, <1>2, PTL DEF Spec

\* Journal, machine, configuration and report agree at every moment of any number of runs,
\* crashes, interruptions, failing commands and resumptions (execution.py, service.py,
\* readiness.py), as long as the runs do not overlap.
THEOREM JournalIsTrue == Spec /\ []OneRun => JournalAccounts
  <1>1. SetupInv => EffectsJournaled /\ ConfigVerified
    BY ConfigIsVerified DEF SetupInv, SharedInv
  <1>2. SetupInv /\ [Next]_vars => [NotUnderReady]_vars
    BY NextReports
  <1>3. QED BY <1>1, <1>2, SetupInvariant, PTL DEF Spec, JournalAccounts, NoStopUnderReady, NotUnderReady

\* Compensation (_compensate) goes backwards through the plan, also after a resumption and
\* when it was interrupted.
THEOREM CompensationGoesBack == Spec /\ []OneRun => []CompensatedFromTheEnd
  <1>1. SetupInv => CompensatedFromTheEnd
    BY SetupCompensates
  <1>2. QED BY <1>1, SetupInvariant, PTL

\* A run, also a resumed one, does not execute again what its session has verified
\* (existing.get(action.action_id) in _execute_locked), wherever it was interrupted, as long
\* as the verification is not stale.
THEOREM VerifiedIsNotRepeated == Spec /\ []OneRun => VerifiedNotRepeated
  <1>1. SetupInv /\ [Next]_vars => [VerifiedStays]_vars
    BY NextKeeps
  <1>2. VerifiedStays => NotRepeated
    BY DEF VerifiedStays, NotRepeated
  <1>3. QED BY <1>1, <1>2, SetupInvariant, PTL DEF Spec, VerifiedNotRepeated, NotRepeated

\* One process, as on a machine where nobody else uses the Setup Center (cli, setup_app.py),
\* never overlaps with itself.
THEOREM OneProcessAccounts ==
    ASSUME \A p, q \in Processes : p = q
    PROVE  Spec => JournalAccounts /\ []CompensatedFromTheEnd
  <1>1. OneRun
    BY DEF OneRun
  <1>2. QED BY <1>1, JournalIsTrue, CompensationGoesBack, PTL

=============================================================================
