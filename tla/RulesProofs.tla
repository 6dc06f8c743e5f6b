---------------------------- MODULE RulesProofs ----------------------------
(***************************************************************************)
(* Proofs, for all sources, bundles, items and bounds, about the rules     *)
(* that decide what may be worked on: which report a field takes           *)
(* (Authority), what the policies of an item allow (Policies), and which   *)
(* items a decision cycle has to announce (Frontier).                      *)
(***************************************************************************)
EXTENDS Policies, Authority, Frontier, FiniteSetTheorems, WellFoundedInduction, TLAPS

LEMMA LeastNumber ==
    ASSUME NEW S \in SUBSET Nat, S # {}
    PROVE  \E x \in S : \A y \in S : x <= y
  <1> DEFINE R == {ss \in Nat \X Nat : ss[1] < ss[2]}
  <1>1. OpToRel(<, Nat) = R
    BY Zenon DEF OpToRel
  <1>2. IsWellFoundedOn(R, Nat)
    BY <1>1, NatLessThanWellFounded, Zenon
  <1>3. PICK x \in S : \A y \in S : ~ (<<y, x>> \in R)
    <2> HIDE DEF R
    <2>1. QED BY <1>2, WFMin
  <1>4. ASSUME NEW y \in S PROVE x <= y
    <2>1. <<y, x>> \in Nat \X Nat
      OBVIOUS
    <2>2. QED BY <1>3, <2>1
  <1>5. QED BY <1>4

\* Among things with a number each, one has the least.
LEMMA LeastMember ==
    ASSUME NEW S, S # {}, NEW f, \A o \in S : f[o] \in Nat
    PROVE  \E o \in S : \A p \in S : f[o] <= f[p]
  <1> DEFINE N == {f[o] : o \in S}
  <1>1. N \in SUBSET Nat /\ N # {}
    OBVIOUS
  <1>2. PICK x \in N : \A y \in N : x <= y
    <2> HIDE DEF N
    <2>1. QED BY <1>1, LeastNumber
  <1>3. PICK o \in S : x = f[o]
    OBVIOUS
  <1>4. \A p \in S : f[p] \in N
    OBVIOUS
  <1>5. QED BY <1>2, <1>3, <1>4

-----------------------------------------------------------------------------
(* Authority.                                                              *)

\* A report on file is of a revision its source has had.
OnFile(o) ==
    /\ o.source \in Sources /\ o.level \in Levels /\ o.value \in Values
    /\ o.at \in Nat /\ o.expires \in Nat
    /\ o.revision \in Nat /\ o.revision <= current[o.source]

AuthorityInv ==
    /\ clock \in Nat /\ informed \in BOOLEAN
    /\ DOMAIN current = Sources /\ \A s \in Sources : current[s] \in Nat
    /\ \A o \in observations : OnFile(o)

\* Some report is listed first.
LEMMA FirstListed ==
    ASSUME AuthorityInv, observations # {}
    PROVE  \E o \in observations : \A p \in observations : ~Before(p, o)
  <1> DEFINE byLevel == [o \in observations |-> 7 - o.level]
  <1>1. \A o \in observations :
           /\ o.level \in 1..6 /\ o.source \in Nat /\ o.revision \in Nat /\ o.at \in Nat /\ o.value \in Nat
    BY FreshnessAssumption, OrdersAssumption DEF AuthorityInv, OnFile
  <1>2. PICK a \in observations : \A p \in observations : p.level <= a.level
    <2>1. \A o \in observations : byLevel[o] \in Nat /\ byLevel[o] = 7 - o.level
      BY <1>1
    <2> HIDE DEF byLevel
    <2>2. PICK a \in observations : \A p \in observations : byLevel[a] <= byLevel[p]
      BY <2>1, LeastMember
    <2>3. QED BY <1>1, <2>1, <2>2
  <1> DEFINE A == {o \in observations : o.level = a.level}
             bySource == [o \in A |-> o.source]
  <1>3. PICK b \in A : \A p \in A : b.source <= p.source
    <2>1. A # {} /\ \A o \in A : bySource[o] \in Nat /\ bySource[o] = o.source
      BY <1>1
    <2> HIDE DEF bySource, A
    <2>2. PICK x \in A : \A p \in A : bySource[x] <= bySource[p]
      BY <2>1, LeastMember
    <2>3. QED BY <2>1, <2>2
  <1> DEFINE B == {o \in A : o.source = b.source}
             byRevision == [o \in B |-> o.revision]
  <1>4. PICK c \in B : \A p \in B : c.revision <= p.revision
    <2>1. B # {} /\ \A o \in B : byRevision[o] \in Nat /\ byRevision[o] = o.revision
      BY <1>1
    <2> HIDE DEF byRevision, B
    <2>2. PICK x \in B : \A p \in B : byRevision[x] <= byRevision[p]
      BY <2>1, LeastMember
    <2>3. QED BY <2>1, <2>2
  <1> DEFINE C == {o \in B : o.revision = c.revision}
             byTime == [o \in C |-> o.at]
  <1>5. PICK d \in C : \A p \in C : d.at <= p.at
    <2>1. C # {} /\ \A o \in C : byTime[o] \in Nat /\ byTime[o] = o.at
      BY <1>1
    <2> HIDE DEF byTime, C
    <2>2. PICK x \in C : \A p \in C : byTime[x] <= byTime[p]
      BY <2>1, LeastMember
    <2>3. QED BY <2>1, <2>2
  <1> DEFINE D == {o \in C : o.at = d.at}
             byValue == [o \in D |-> o.value]
  <1>6. PICK e \in D : \A p \in D : e.value <= p.value
    <2>1. D # {} /\ \A o \in D : byValue[o] \in Nat /\ byValue[o] = o.value
      BY <1>1
    <2> HIDE DEF byValue, D
    <2>2. PICK x \in D : \A p \in D : byValue[x] <= byValue[p]
      BY <2>1, LeastMember
    <2>3. QED BY <2>1, <2>2
  <1>7. /\ e \in observations /\ e.level = a.level /\ e.source = b.source
        /\ e.revision = c.revision /\ e.at = d.at
    BY <1>3, <1>4, <1>5, <1>6
  <1>8. ASSUME NEW p \in observations, Before(p, e) PROVE FALSE
    <2>1. p.level = a.level
      BY <1>1, <1>2, <1>7, <1>8 DEF Before
    <2>2. p \in A /\ p.source = b.source
      BY <1>1, <1>3, <1>7, <1>8, <2>1 DEF Before
    <2>3. p \in B /\ p.revision = c.revision
      BY <1>1, <1>4, <1>7, <1>8, <2>1, <2>2 DEF Before
    <2>4. p \in C /\ p.at = d.at
      BY <1>1, <1>5, <1>7, <1>8, <2>1, <2>2, <2>3 DEF Before
    <2>5. p \in D
      BY <2>4
    <2>6. QED BY <1>1, <1>6, <1>7, <1>8, <2>1, <2>2, <2>3, <2>4, <2>5 DEF Before
  <1>9. QED BY <1>7, <1>8

LEMMA SelectedFirst ==
    AuthorityInv /\ observations # {} =>
        Selected \in observations /\ \A p \in observations : ~Before(p, Selected)
  BY FirstListed DEF Selected

LEMMA AuthorityInitInv == AuthorityInit => AuthorityInv
  BY DEF AuthorityInit, AuthorityInv

\* Filing a report.
LEMMA ObserveInv ==
    ASSUME AuthorityInv, NEW s \in Sources, NEW l \in Levels, NEW v \in Values, NEW a \in Claims,
           NEW r \in 1..MaxRevisions, NEW e \in {Never, clock + 1}, Observe(s, l, v, a, r, e)
    PROVE  AuthorityInv' /\ \E o : observations' = observations \cup {o} /\ OnFile(o)'
  <1>1. PICK o : o = [source |-> s, level |-> l, value |-> v, at |-> clock,
                      authority |-> a, revision |-> r, expires |-> e]
    OBVIOUS
  <1>2. /\ observations' = observations \cup {o} /\ r <= current[s]
        /\ UNCHANGED <<current, informed, clock>>
    BY <1>1 DEF Observe
  <1>3. o.source = s /\ o.level = l /\ o.value = v /\ o.at = clock /\ o.revision = r /\ o.expires = e
    BY <1>1
  <1>4. r \in Nat /\ e \in Nat
    BY DEF AuthorityInv, Never
  <1>5. OnFile(o)'
    BY <1>2, <1>3, <1>4 DEF AuthorityInv, OnFile
  <1>6. \A p \in observations : OnFile(p)'
    BY <1>2 DEF AuthorityInv, OnFile
  <1>7. AuthorityInv'
    BY <1>2, <1>5, <1>6 DEF AuthorityInv
  <1>8. QED BY <1>2, <1>5, <1>7

\* What else happens leaves the reports, and no clock or source goes back.
Onwards ==
    /\ observations' = observations /\ informed' = informed
    /\ clock' \in Nat /\ clock <= clock'
    /\ DOMAIN current' = Sources
    /\ \A s \in Sources : current'[s] \in Nat /\ current[s] <= current'[s]

LEMMA OthersOnwards ==
    ASSUME AuthorityInv, UNCHANGED authorityVars \/ AuthorityTick \/ \E s \in Sources : Advance(s)
    PROVE  Onwards
  <1>1. CASE UNCHANGED authorityVars
    BY <1>1 DEF AuthorityInv, Onwards, authorityVars
  <1>2. CASE AuthorityTick
    BY <1>2 DEF AuthorityInv, Onwards, AuthorityTick
  <1>3. ASSUME NEW s \in Sources, Advance(s) PROVE Onwards
    <2>1. /\ current' = [current EXCEPT ![s] = current[s] + 1]
          /\ UNCHANGED <<observations, informed, clock>>
      BY <1>3 DEF Advance
    <2>2. \A t \in Sources : current'[t] = IF t = s THEN current[s] + 1 ELSE current[t]
      BY <2>1 DEF AuthorityInv
    <2>3. QED BY <2>1, <2>2 DEF AuthorityInv, Onwards
  <1>4. QED BY <1>1, <1>2, <1>3

LEMMA OnwardsInv ==
    ASSUME AuthorityInv, Onwards PROVE AuthorityInv'
  <1>1. ASSUME NEW o \in observations PROVE OnFile(o)'
    <2>1. OnFile(o) /\ current[o.source] \in Nat
      BY DEF AuthorityInv, OnFile
    <2>2. QED BY <2>1 DEF OnFile, Onwards
  <1>2. QED BY <1>1 DEF AuthorityInv, Onwards

LEMMA AuthorityNextInv == AuthorityInv /\ [AuthorityNext]_authorityVars => AuthorityInv'
  BY ObserveInv, OthersOnwards, OnwardsInv DEF AuthorityNext

\* A new report takes the place of the selected one only from its level or above.
LEMMA PrecedenceStep ==
    ASSUME AuthorityInv, [AuthorityNext]_authorityVars, observations # {},
           Selected'.value # Selected.value
    PROVE  \E o \in observations' \ observations : o.level >= Selected.level
  <1>1. AuthorityInv'
    BY AuthorityNextInv
  <1>2. PICK o : observations' = observations \cup {o}
    <2>1. CASE Onwards
      BY <2>1 DEF Onwards
    <2>2. QED BY <2>1, ObserveInv, OthersOnwards DEF AuthorityNext
  <1> DEFINE s == Selected
             t == Selected'
  <1>3. s \in observations /\ \A p \in observations : ~Before(p, s)
    BY SelectedFirst
  <1>4. t \in observations' /\ \A p \in observations' : ~Before(p, t)
    <2>1. observations' # {}
      BY <1>2
    <2>2. (AuthorityInv /\ observations # {} =>
              Selected \in observations /\ \A p \in observations : ~Before(p, Selected))'
      BY SelectedFirst, PTL
    <2>3. QED BY <1>1, <2>1, <2>2 DEF Before
  <1>5. observations' # observations
    BY DEF Selected
  <1> HIDE DEF s, t
  <1>6. ASSUME NEW p \in observations'
        PROVE  p.level \in Nat /\ p.source \in Nat /\ p.revision \in Nat /\ p.at \in Nat /\ p.value \in Nat
    <2>1. OnFile(p)'
      BY <1>1 DEF AuthorityInv
    <2>2. p.level \in Levels /\ p.source \in Sources /\ p.value \in Values /\ p.revision \in Nat /\ p.at \in Nat
      BY <2>1 DEF OnFile
    <2>3. p.level \in 1..6 /\ p.source \in Nat /\ p.value \in Nat
      BY <2>2, FreshnessAssumption, OrdersAssumption
    <2>4. QED BY <2>2, <2>3
  <1>7. o \in observations' \ observations
    BY <1>2, <1>5
  <1>8. ASSUME ~(o.level >= s.level) PROVE FALSE
    <2>1. t # o
      BY <1>2, <1>3, <1>4, <1>6, <1>7, <1>8 DEF Before
    <2>2. t \in observations /\ ~Before(t, s) /\ ~Before(s, t)
      BY <1>2, <1>3, <1>4, <2>1
    <2>3. t.value = s.value
      BY <1>2, <1>3, <1>6, <2>2 DEF Before
    <2>4. QED BY <2>3 DEF s, t
  <1>9. QED BY <1>7, <1>8 DEF s

\* Without a report, the selected one only gets older.
LEMMA StaleStays ==
    ASSUME AuthorityInv, Onwards, NEW o \in observations, IsStale(o)
    PROVE  IsStale(o)'
  <1>1. OnFile(o) /\ MaxAge[o.level] \in Nat /\ current[o.source] \in Nat
    BY FreshnessAssumption DEF AuthorityInv, OnFile
  <1>2. QED BY <1>1 DEF AuthorityInv, Onwards, IsStale, OnFile

LEMMA HealStep ==
    ASSUME AuthorityInv, [AuthorityNext]_authorityVars, observations' = observations
    PROVE  /\ Status' # Status => Status' = "stale"
           /\ BlocksReadiness => BlocksReadiness'
  <1>1. Onwards
    <2>1. ASSUME NEW s \in Sources, NEW l \in Levels, NEW v \in Values, NEW a \in Claims,
                 NEW r \in 1..MaxRevisions, NEW e \in {Never, clock + 1}, Observe(s, l, v, a, r, e)
          PROVE  UNCHANGED authorityVars
      BY <2>1 DEF Observe, authorityVars
    <2>2. QED BY <2>1, OthersOnwards DEF AuthorityNext
  <1>2. Conflict' = Conflict /\ Selected' = Selected
    BY DEF Conflict, Selected
  <1>3. observations # {} /\ IsStale(Selected) => IsStale(Selected)'
    <2>1. ASSUME observations # {}, IsStale(Selected) PROVE IsStale(Selected)'
      <3>1. PICK s \in observations : s = Selected
        BY <2>1, SelectedFirst
      <3>2. IsStale(s)'
        BY <1>1, <2>1, <3>1, StaleStays
      <3>3. QED BY <1>2, <3>1, <3>2 DEF IsStale
    <2>2. QED BY <2>1
  <1>4. QED BY <1>2, <1>3 DEF Status, BlocksReadiness

\* reconcile_authority: in whatever order sources report, move on and fall silent, a
\* report is displaced only from its own level or above, and trust that was lost comes
\* back with a report only.
THEOREM ResolutionsAreJustified == AuthoritySpec => ResolutionsJustified
  <1>1. AuthorityInv /\ [AuthorityNext]_authorityVars =>
           [(observations # {} /\ Selected'.value # Selected.value) =>
                \E o \in observations' \ observations : o.level >= Selected.level]_authorityVars
    BY PrecedenceStep
  <1>2. AuthorityInv /\ [AuthorityNext]_authorityVars =>
           [(observations' = observations) =>
                /\ Status' # Status => Status' = "stale"
                /\ BlocksReadiness => BlocksReadiness']_authorityVars
    BY HealStep
  <1>3. AuthorityInit => AuthorityInv
    BY AuthorityInitInv
  <1>4. AuthorityInv /\ [AuthorityNext]_authorityVars => AuthorityInv'
    BY AuthorityNextInv
  <1>5. QED BY <1>1, <1>2, <1>3, <1>4, PTL
            DEF AuthoritySpec, ResolutionsJustified, PrecedenceStable, OnlyReportsHeal

-----------------------------------------------------------------------------
(* The frontier.                                                           *)

\* Whoever has not changed since the last cycle, and waits for nobody who has, is
\* as ready as that cycle said.
Untouched(i) == i \notin changed /\ source[i].blockers \cap changed = {}

FrontierInv ==
    /\ DOMAIN source = Items /\ \A i \in Items : DOMAIN source[i] = {"state", "blockers", "updated"}
    /\ decided # NoCycle => DOMAIN decided.records = Items
    /\ decided # NoCycle =>
          \A i \in Items : Untouched(i) => (i \in ReadyIn(decided) <=> i \in ReadyItems)

\* An item is ready if it is open and what it waits for is closed.
ReadyMeansOpen ==
    \A i \in Items :
        i \in ReadyItems <=> /\ source[i].state # "closed"
                            /\ \A b \in source[i].blockers : b \in Items /\ source[b].state = "closed"

LEMMA ReadyMeans == ReadyMeansOpen
  <1> SUFFICES ASSUME NEW i \in Items
               PROVE  i \in ReadyItems <=>
                         /\ source[i].state # "closed"
                         /\ \A b \in source[i].blockers : b \in Items /\ source[b].state = "closed"
    BY DEF ReadyMeansOpen
  <1>1. /\ Input(i).lifecycle = Normalized(i) /\ Input(i).hard_blockers_complete = (Incomplete(i) = {})
        /\ Input(i).entry_gates_pass = TRUE /\ Input(i).authority_safe = TRUE
    BY DEF Input
  <1>2. Reasons(Input(i)) = {} <=> Normalized(i) \in {"planned", "active"} /\ Incomplete(i) = {}
    BY <1>1 DEF Reasons
  <1>3. Normalized(i) \in {"planned", "active"} <=> source[i].state # "closed"
    BY DEF Normalized
  <1>4. Incomplete(i) = {} <=> \A b \in source[i].blockers : b \in Items /\ source[b].state = "closed"
    BY DEF Incomplete, Normalized
  <1>5. QED BY <1>2, <1>3, <1>4 DEF ReadyItems

LEMMA FrontierInitInv == FrontierInit => FrontierInv
  BY DEF FrontierInit, FrontierInv

\* A change to one item, by an editor or by the team.
LEMMA ChangeInv ==
    ASSUME FrontierInv, NEW j, NEW item, DOMAIN item = {"state", "blockers", "updated"},
           source' = [source EXCEPT ![j] = item], changed' = changed \cup {j}, decided' = decided
    PROVE  FrontierInv'
  <1>1. /\ DOMAIN source' = Items
        /\ \A i \in Items : source'[i] = IF i = j THEN item ELSE source[i]
    BY DEF FrontierInv
  <1>2. ASSUME decided # NoCycle, NEW i \in Items, Untouched(i)'
        PROVE  i \in ReadyIn(decided)' <=> i \in ReadyItems'
    <2>1. /\ i # j /\ source'[i] = source[i] /\ Untouched(i)
          /\ \A b \in source[i].blockers : b # j /\ (b \in Items => source'[b] = source[b])
      BY <1>1, <1>2 DEF Untouched
    <2>2. i \in ReadyIn(decided) <=> i \in ReadyItems
      BY <1>2, <2>1 DEF FrontierInv
    <2>3. ReadyMeansOpen /\ ReadyMeansOpen'
      BY ReadyMeans, PTL
    <2>4. i \in ReadyItems' <=> i \in ReadyItems
      BY <2>1, <2>3 DEF ReadyMeansOpen
    <2>5. QED BY <2>2, <2>4 DEF ReadyIn
  <1>3. QED BY <1>1, <1>2 DEF FrontierInv

LEMMA CycleInv ==
    ASSUME FrontierInv, RunCycle PROVE FrontierInv'
  <1>1. source' = source /\ time' = time /\ DOMAIN decided'.records = Items
        /\ \A i \in Items : decided'.records[i].reasons = Reasons(Input(i))
    BY DEF RunCycle, DecisionRecord
  <1>2. ReadyItems' = ReadyItems
    BY <1>1 DEF ReadyItems, Reasons, Input, Incomplete, FanOut, Normalized
  <1>3. ReadyIn(decided)' = ReadyItems
    BY <1>1 DEF ReadyIn, ReadyItems
  <1>4. QED BY <1>1, <1>2, <1>3 DEF FrontierInv

LEMMA FrontierNextInv == FrontierInv /\ [FrontierNext]_frontierVars => FrontierInv'
  <1> SUFFICES ASSUME FrontierInv, [FrontierNext]_frontierVars PROVE FrontierInv'
    OBVIOUS
  <1>1. ASSUME NEW i \in Items, NEW b \in SUBSET (Items \cup {Missing}), Edit(i, b)
        PROVE  FrontierInv'
    <2>1. PICK item : item = [state |-> "open", blockers |-> b, updated |-> time]
      OBVIOUS
    <2>2. source' = [source EXCEPT ![i] = item] /\ changed' = changed \cup {i} /\ decided' = decided
      BY <1>1, <2>1 DEF Edit
    <2>3. DOMAIN item = {"state", "blockers", "updated"}
      BY <2>1
    <2>4. QED BY <2>2, <2>3, ChangeInv
  <1>2. CASE CloseRecommended
    <2>1. PICK next : next = RecommendedIn(decided)
      OBVIOUS
    <2>2. PICK item : item = [source[next] EXCEPT !.state = "closed", !.updated = time]
      OBVIOUS
    <2>3. /\ source' = [source EXCEPT ![next].state = "closed", ![next].updated = time]
          /\ changed' = changed \cup {next} /\ decided' = decided
      BY <1>2, <2>1 DEF CloseRecommended
    <2>4. CASE next \in Items
      <3>1. source' = [source EXCEPT ![next] = item] /\ DOMAIN item = {"state", "blockers", "updated"}
        BY <2>2, <2>3, <2>4 DEF FrontierInv
      <3>2. QED BY <2>3, <3>1, ChangeInv
    <2>5. CASE next \notin Items
      <3>1. source' = [source EXCEPT ![next] = [state |-> "none", blockers |-> {}, updated |-> 0]]
        BY <2>3, <2>5 DEF FrontierInv
      <3>2. QED BY <2>3, <3>1, ChangeInv
    <2>6. QED BY <2>4, <2>5
  <1>3. CASE RunCycle
    BY <1>3, CycleInv
  <1>4. CASE UNCHANGED frontierVars
    <2>1. ReadyItems' = ReadyItems
      BY <1>4 DEF frontierVars, ReadyItems, Reasons, Input, Incomplete, FanOut, Normalized
    <2>2. QED BY <1>4, <2>1 DEF frontierVars, FrontierInv, Untouched, ReadyIn
  <1>5. QED BY <1>1, <1>2, <1>3, <1>4 DEF FrontierNext

\* Steps from the roots along who waits for whom.
IsReach(f, roots, n) ==
    f = [m \in 0..n |-> IF m = 0 THEN roots
                        ELSE f[m - 1] \cup {i \in Items : source[i].blockers \cap f[m - 1] # {}}]

LEMMA ReachExists ==
    ASSUME NEW roots, NEW n \in Nat
    PROVE  \E f : IsReach(f, roots, n)
  <1> DEFINE S == {m \in Nat : ~ \E f : IsReach(f, roots, m)}
  <1> SUFFICES ASSUME S # {} PROVE FALSE
    OBVIOUS
  <1>1. S \in SUBSET Nat
    OBVIOUS
  <1>2. PICK m \in S : \A y \in S : m <= y
    <2> HIDE DEF S
    <2>1. QED BY <1>1, LeastNumber
  <1>3. m \in Nat /\ ~ \E f : IsReach(f, roots, m)
    OBVIOUS
  <1>4. m # 0
    <2> DEFINE f == [k \in 0..0 |-> roots]
    <2>1. \A k \in 0..0 : k = 0
      OBVIOUS
    <2>2. IsReach(f, roots, 0)
      BY <2>1 DEF IsReach
    <2>3. QED BY <1>3, <2>2
  <1>5. m - 1 \in Nat /\ ~ (m <= m - 1)
    BY <1>3, <1>4
  <1>6. PICK f : IsReach(f, roots, m - 1)
    BY <1>2, <1>5
  <1> DEFINE On(e) == e \cup {i \in Items : source[i].blockers \cap e # {}}
             g == [k \in 0..m |-> IF k = m THEN On(f[m - 1]) ELSE f[k]]
  <1>7. ASSUME NEW k \in 0..m
        PROVE  g[k] = IF k = 0 THEN roots ELSE On(g[k - 1])
    <2>1. CASE k = m
      <3>1. m - 1 \in 0..m /\ m - 1 # m
        BY <1>5
      <3>2. g[k] = On(f[m - 1]) /\ g[k - 1] = f[m - 1]
        BY <2>1, <3>1
      <3>3. QED BY <1>4, <2>1, <3>2
    <2>2. CASE k # m
      <3>1. k \in 0..(m - 1) /\ (k # 0 => k - 1 \in 0..m /\ k - 1 # m)
        BY <1>3, <2>2
      <3>2. g[k] = f[k] /\ (k # 0 => g[k - 1] = f[k - 1])
        BY <2>2, <3>1
      <3>3. f[k] = IF k = 0 THEN roots ELSE On(f[k - 1])
        BY <1>6, <3>1 DEF IsReach
      <3>4. QED BY <3>2, <3>3
    <2>3. QED BY <2>1, <2>2
  <1>8. IsReach(g, roots, m)
    <2>1. g = [k \in 0..m |-> g[k]]
      OBVIOUS
    <2> HIDE DEF g
    <2>2. QED BY <1>7, <2>1 DEF IsReach
  <1>9. QED BY <1>3, <1>8

\* affected_item_ids names the roots and, at least, who waits for one of them.
LEMMA AffectedCovers ==
    ASSUME NEW roots, NEW i \in Items, i \in roots \/ source[i].blockers \cap roots # {}
    PROVE  i \in Affected(roots)
  <1> DEFINE n == Cardinality(Items)
             reach == CHOOSE f : IsReach(f, roots, n)
  <1>1. n \in Nat /\ n # 0
    BY ItemsAssumption, FS_CardinalityType, FS_EmptySet
  <1> HIDE DEF n
  <1>2. IsReach(reach, roots, n)
    BY <1>1, ReachExists, Zenon
  <1>3. Affected(roots) = IF roots = {} THEN Items ELSE reach[n]
    BY Zenon DEF Affected, IsReach, n
  <1> HIDE DEF reach
  <1>4. /\ reach[0] = roots
        /\ \A m \in 1..n : reach[m] = reach[m - 1] \cup {j \in Items : source[j].blockers \cap reach[m - 1] # {}}
    <2>1. 0 \in 0..n /\ \A m \in 1..n : m \in 0..n /\ m # 0
      BY <1>1
    <2>2. QED BY <1>2, <2>1 DEF IsReach
  <1>5. i \in reach[1]
    BY <1>1, <1>4
  <1>6. i \in reach[n]
    <2> DEFINE S == {m \in 1..n : i \notin reach[m]}
    <2> SUFFICES ASSUME S # {} PROVE FALSE
      BY <1>1
    <2>1. PICK m \in S : \A y \in S : m <= y
      <3>1. S \in SUBSET Nat
        OBVIOUS
      <3> HIDE DEF S
      <3>2. QED BY <3>1, LeastNumber
    <2>2. m \in 1..n /\ m # 1 /\ m - 1 \in 1..n /\ m - 1 \notin S
      BY <1>1, <1>5, <2>1
    <2>3. QED BY <1>4, <2>1, <2>2
  <1>7. QED BY <1>3, <1>6

\* affected_item_ids: however edits, reopenings and closings chain between two cycles,
\* the second one announces every item whose readiness differs from the first.
THEOREM AffectedAnnounced == FrontierSpec => ReadinessChangesAffected
  <1>1. ASSUME FrontierInv, [FrontierNext]_frontierVars, decided # NoCycle, decided' # decided
        PROVE  ((ReadyIn(decided) \ ReadyIn(decided')) \cup (ReadyIn(decided') \ ReadyIn(decided)))
                   \subseteq decided'.affected
    <2>1. RunCycle
      BY <1>1 DEF FrontierNext, Edit, CloseRecommended, frontierVars
    <2>2. /\ decided'.affected = Affected(changed)
          /\ DOMAIN decided'.records = Items
          /\ \A i \in Items : decided'.records[i].reasons = Reasons(Input(i))
      BY <2>1 DEF RunCycle, DecisionRecord
    <2>3. ReadyIn(decided') = ReadyItems
      BY <2>2 DEF ReadyIn, ReadyItems
    <2>4. ReadyIn(decided) \subseteq Items
      BY <1>1 DEF FrontierInv, ReadyIn
    <2>5. ASSUME NEW i \in Items, ~(i \in ReadyIn(decided) <=> i \in ReadyItems)
          PROVE  i \in Affected(changed)
      <3>1. ~Untouched(i)
        BY <1>1, <2>5 DEF FrontierInv
      <3>2. QED BY <3>1, AffectedCovers DEF Untouched
    <2>6. ReadyItems \subseteq Items
      BY DEF ReadyItems
    <2>7. QED BY <2>2, <2>3, <2>4, <2>5, <2>6
  <1>2. QED BY <1>1, FrontierInitInv, FrontierNextInv, PTL
            DEF FrontierSpec, ReadinessChangesAffected

-----------------------------------------------------------------------------
(* Policies.                                                               *)

\* A bundle that is installed has parsed, and no evidence on file is an AI's.
PolicyInv ==
    /\ bundle # NoBundle => bundle \in RawBundles /\ Parses(bundle)
    /\ \A e \in evidence : e.producer # "ai"
    /\ DOMAIN known = {"dependencies", "children"} /\ \A what \in DOMAIN known : known[what] \in Truth

LEMMA PolicyInitInv == PolicyInit => PolicyInv
  BY DEF PolicyInit, PolicyInv, Truth

LEMMA PolicyNextInv == PolicyInv /\ [PolicyNext]_policyVars => PolicyInv'
  <1> SUFFICES ASSUME PolicyInv, [PolicyNext]_policyVars PROVE PolicyInv'
    OBVIOUS
  <1> USE DEF PolicyInv
  <1>1. ASSUME NEW raw \in RawBundles, InstallBundle(raw) PROVE PolicyInv'
    <2>1. Parses(bundle)'
      BY <1>1 DEF InstallBundle, Parses, StrictObject, GatesUnique
    <2>2. QED BY <1>1, <2>1 DEF InstallBundle
  <1>2. ASSUME bundle' = bundle, evidence' = evidence, known' = known PROVE PolicyInv'
    BY <1>2 DEF Parses, StrictObject, GatesUnique
  <1>3. ASSUME NEW e \in EvidencePool, RecordEvidence(e) PROVE PolicyInv'
    BY <1>3 DEF RecordEvidence, EvidenceOK, Parses, StrictObject, GatesUnique
  <1>4. ASSUME NEW what \in {"dependencies", "children"}, NEW value \in {"true", "false"}, Learn(what, value)
        PROVE  PolicyInv'
    BY <1>4 DEF Learn, Truth, Parses, StrictObject, GatesUnique
  <1>5. QED BY <1>1, <1>2, <1>3, <1>4
            DEF PolicyNext, policyVars, RequestWaiver, ObserveCondition, Confirm, ChangeSource, PolicyTick, Transition

\* The policy in force, as a table.
Size == Len(bundle.policy)
Operands(k) == bundle.policy[k].operands

TableOK ==
    /\ Size \in Nat \ {0} /\ DOMAIN bundle.policy = 1..Size
    /\ \A k \in 1..Size :
          /\ \A j \in DOMAIN Operands(k) : Operands(k)[j] \in (k + 1)..Size
          /\ bundle.policy[k].kind \in Leaves \cup {"composite"}
          /\ bundle.policy[k].kind = "composite" => bundle.policy[k].operator \in {"and", "or"}

LEMMA InstalledTable ==
    PolicyInv /\ bundle # NoBundle => TableOK
  <1> SUFFICES ASSUME PolicyInv, bundle # NoBundle PROVE TableOK
    OBVIOUS
  <1>1. bundle \in RawBundles \ {Malformed} /\ \A k \in DOMAIN bundle.policy : NodeParses(bundle.policy[k])
    BY DEF PolicyInv, Parses, StrictObject
  <1>2. /\ DOMAIN bundle.policy = 1..Size /\ Size \in Nat \ {0}
        /\ \A k \in 1..Size : Operands(k) \in Seq((k + 1)..Size)
    BY <1>1, TablesAssumption DEF Size, Operands
  <1>3. ASSUME NEW k \in 1..Size, NEW j \in DOMAIN Operands(k) PROVE Operands(k)[j] \in (k + 1)..Size
    BY <1>2
  <1>4. ASSUME NEW k \in 1..Size
        PROVE  /\ bundle.policy[k].kind \in Leaves \cup {"composite"}
               /\ bundle.policy[k].kind = "composite" => bundle.policy[k].operator \in {"and", "or"}
    BY <1>1, <1>2 DEF NodeParses
  <1>5. QED BY <1>2, <1>3, <1>4 DEF TableOK

\* The value of a node, given those of its operands.
OperandValues(k, f) == {f[Operands(k)[j]] : j \in DOMAIN Operands(k)}
NodeValue(k, f) ==
    CASE bundle.policy[k].kind # "composite" -> LeafTruth(bundle.policy[k].kind)
      [] bundle.policy[k].kind = "composite" /\ bundle.policy[k].operator = "and" -> AndTruth(OperandValues(k, f))
      [] OTHER -> OrTruth(OperandValues(k, f))

\* The values of the last m nodes.
IsTruth(f, m) == f = [k \in (Size - m + 1)..Size |-> NodeValue(k, f)]

LEMMA SameOperandsSameValue ==
    ASSUME NEW k, NEW f, NEW g, \A j \in DOMAIN Operands(k) : f[Operands(k)[j]] = g[Operands(k)[j]]
    PROVE  NodeValue(k, f) = NodeValue(k, g)
  <1>1. OperandValues(k, f) = OperandValues(k, g)
    BY DEF OperandValues
  <1>2. QED BY <1>1 DEF NodeValue

LEMMA TruthExists ==
    ASSUME TableOK, NEW n \in 0..Size
    PROVE  \E f : IsTruth(f, n)
  <1> DEFINE S == {m \in 0..Size : ~ \E f : IsTruth(f, m)}
  <1> SUFFICES ASSUME S # {} PROVE FALSE
    OBVIOUS
  <1>1. Size \in Nat /\ S \in SUBSET Nat
    BY DEF TableOK
  <1>2. PICK m \in S : \A y \in S : m <= y
    <2> HIDE DEF S
    <2>1. QED BY <1>1, LeastNumber
  <1>3. m \in 0..Size /\ ~ \E f : IsTruth(f, m)
    OBVIOUS
  <1>4. m # 0
    <2> DEFINE f == [k \in (Size - 0 + 1)..Size |-> 0]
    <2>1. (Size - 0 + 1)..Size = {}
      BY <1>1
    <2>2. IsTruth(f, 0)
      BY <2>1 DEF IsTruth
    <2>3. QED BY <1>3, <2>2
  <1>5. m - 1 \in 0..Size /\ ~ (m <= m - 1)
    BY <1>1, <1>3, <1>4
  <1>6. PICK f : IsTruth(f, m - 1)
    BY <1>2, <1>5
  <1> DEFINE first == Size - m + 1
             g == [k \in first..Size |-> IF k = first THEN NodeValue(first, f) ELSE f[k]]
  <1>7. first \in 1..Size /\ (Size - (m - 1) + 1) = first + 1
    BY <1>1, <1>3, <1>4
  <1>8. f = [k \in (first + 1)..Size |-> NodeValue(k, f)]
    BY <1>6, <1>7 DEF IsTruth
  <1> HIDE DEF first
  <1>9. ASSUME NEW k \in first..Size PROVE g[k] = NodeValue(k, g)
    <2>1. ASSUME NEW j \in DOMAIN Operands(k) PROVE f[Operands(k)[j]] = g[Operands(k)[j]]
      <3>1. k \in 1..Size
        BY <1>1, <1>7
      <3>2. Operands(k)[j] \in (k + 1)..Size
        BY <3>1 DEF TableOK
      <3>3. Operands(k)[j] \in first..Size /\ Operands(k)[j] # first
        BY <1>1, <1>7, <3>1, <3>2
      <3>4. QED BY <3>3
    <2>2. NodeValue(k, f) = NodeValue(k, g)
      <3> HIDE DEF g
      <3>1. QED BY <2>1, SameOperandsSameValue
    <2>3. CASE k = first
      BY <2>2, <2>3
    <2>4. CASE k # first
      <3>1. k \in (first + 1)..Size
        BY <1>1, <1>7, <2>4
      <3>2. g[k] = f[k]
        BY <2>4
      <3>3. f[k] = NodeValue(k, f)
        BY <1>8, <3>1
      <3>4. QED BY <2>2, <3>2, <3>3
    <2>5. QED BY <2>3, <2>4
  <1>10. g = [k \in first..Size |-> NodeValue(k, g)]
    <2>1. g = [k \in first..Size |-> g[k]]
      OBVIOUS
    <2> HIDE DEF g
    <2>2. QED BY <1>9, <2>1
  <1>11. QED BY <1>3, <1>10 DEF IsTruth, first

\* _evaluate_policy_node: every node's value follows from its operands'.
TruthFollows == \A k \in 1..Size : NodeTruth[k] = NodeValue(k, NodeTruth)

LEMMA NodeTruthIs == TableOK => TruthFollows
  <1> SUFFICES ASSUME TableOK PROVE TruthFollows
    OBVIOUS
  <1> DEFINE c == CHOOSE f : f = [k \in DOMAIN bundle.policy |-> NodeValue(k, f)]
  <1>1. NodeTruth = c
    BY Zenon DEF NodeTruth, NodeValue, OperandValues, Operands
  <1>2. Size \in Nat /\ DOMAIN bundle.policy = (Size - Size + 1)..Size /\ DOMAIN bundle.policy = 1..Size
    BY DEF TableOK
  <1>3. \E f : f = [k \in DOMAIN bundle.policy |-> NodeValue(k, f)]
    <2>1. Size \in 0..Size
      BY <1>2
    <2>2. PICK f : IsTruth(f, Size)
      BY <2>1, TruthExists
    <2>3. QED BY <1>2, <2>2 DEF IsTruth
  <1>4. c = [k \in DOMAIN bundle.policy |-> NodeValue(k, c)]
    BY <1>3, Zenon
  <1> HIDE DEF c
  <1>5. \A k \in 1..Size : c[k] = NodeValue(k, c)
    BY <1>2, <1>4
  <1>6. QED BY <1>1, <1>5 DEF TruthFollows

\* Every node is true, false or unknown.
TruthTyped == \A k \in 1..Size : NodeTruth[k] \in Truth

LEMMA NodeTruthTyped == PolicyInv /\ TableOK => TruthTyped
  <1> SUFFICES ASSUME PolicyInv, TableOK, NEW k \in 1..Size PROVE NodeTruth[k] \in Truth
    BY DEF TruthTyped
  <1>1. NodeTruth[k] = NodeValue(k, NodeTruth)
    BY NodeTruthIs DEF TruthFollows
  <1>2. \A v : AndTruth(v) \in Truth /\ OrTruth(v) \in Truth
    BY DEF AndTruth, OrTruth, Truth
  <1>3. ASSUME bundle.policy[k].kind # "composite" PROVE LeafTruth(bundle.policy[k].kind) \in Truth
    <2>1. bundle.policy[k].kind \in Leaves
      BY <1>3 DEF TableOK
    <2>2. known.dependencies \in Truth /\ known.children \in Truth
      BY DEF PolicyInv
    <2>3. \A b : Holds(b) \in Truth
      BY DEF Holds, Truth
    <2>4. QED BY <2>1, <2>2, <2>3 DEF LeafTruth, Leaves
  <1>4. QED BY <1>1, <1>2, <1>3 DEF NodeValue

\* What a leaf says carries over a step, if it is one of V.
Carries(V) ==
    \A kind \in Leaves : LeafTruth(kind) \in V => LeafTruth(kind)' = LeafTruth(kind)

\* Connectives carry over what is true, or what is decided, if their operands do:
\* a node that did not would have an operand further down that did not.
LEMMA TruthCarries ==
    ASSUME PolicyInv, PolicyInv', bundle' = bundle, bundle # NoBundle,
           NEW V \in {{"true"}, {"true", "false"}}, Carries(V)
    PROVE  \A k \in 1..Size : NodeTruth[k] \in V => NodeTruth'[k] = NodeTruth[k]
  <1>1. TableOK /\ TableOK' /\ Size' = Size /\ Size \in Nat
    <2>1. (PolicyInv /\ bundle # NoBundle => TableOK)'
      BY InstalledTable, PTL
    <2>2. QED BY <2>1, InstalledTable DEF TableOK, Size
  <1>2. TruthFollows /\ TruthFollows' /\ TruthTyped /\ TruthTyped'
    <2>1. (TableOK => TruthFollows)' /\ (PolicyInv /\ TableOK => TruthTyped)'
      BY NodeTruthIs, NodeTruthTyped, PTL
    <2>2. QED BY <1>1, <2>1, NodeTruthIs, NodeTruthTyped
  <1> DEFINE Lost(k) == NodeTruth[k] \in V /\ NodeTruth'[k] # NodeTruth[k]
             S == {m \in 0..Size : Lost(Size - m)}
  <1>3. ASSUME NEW k \in 1..Size, Lost(k), \A l \in (k + 1)..Size : ~Lost(l) PROVE FALSE
    <2> DEFINE old == OperandValues(k, NodeTruth)
               new == OperandValues(k, NodeTruth)'
               node == bundle.policy[k]
    <2>1. NodeTruth[k] = NodeValue(k, NodeTruth) /\ NodeTruth'[k] = NodeValue(k, NodeTruth)'
      BY <1>1, <1>2 DEF TruthFollows
    <2>2. ASSUME NEW j \in DOMAIN Operands(k)
          PROVE  LET l == Operands(k)[j] IN
                    l \in 1..Size /\ NodeTruth[l] \in Truth /\ NodeTruth'[l] \in Truth
                    /\ (NodeTruth[l] \in V => NodeTruth'[l] = NodeTruth[l])
      <3>1. Operands(k)[j] \in (k + 1)..Size
        BY <1>1 DEF TableOK
      <3>2. Operands(k)[j] \in 1..Size
        BY <1>1, <3>1
      <3>3. QED BY <1>1, <1>2, <1>3, <3>1, <3>2 DEF TruthTyped
    <2>3. /\ old = {NodeTruth[Operands(k)[j]] : j \in DOMAIN Operands(k)}
          /\ new = {NodeTruth'[Operands(k)[j]] : j \in DOMAIN Operands(k)}
      BY DEF OperandValues, Operands
    <2> HIDE DEF old, new
    <2>4. \A v \in V : v \in old => v \in new
      BY <2>2, <2>3
    <2>5. "false" \notin old /\ "none" \notin old => "false" \notin new /\ "none" \notin new
      BY <2>2, <2>3 DEF Truth
    <2>6. "false" \in V => ("true" \notin old /\ "none" \notin old => "true" \notin new /\ "none" \notin new)
      BY <2>2, <2>3 DEF Truth
    <2>7. CASE node.kind # "composite"
      <3>1. node.kind \in Leaves
        BY <1>1, <2>7 DEF TableOK
      <3>2. QED BY <1>3, <2>1, <2>7, <3>1 DEF NodeValue, Carries
    <2>8. CASE node.kind = "composite" /\ node.operator = "and"
      <3>1. NodeTruth[k] = AndTruth(old) /\ NodeTruth'[k] = AndTruth(new)
        BY <2>1, <2>8 DEF NodeValue, old, new
      <3>2. QED BY <1>3, <2>4, <2>5, <3>1 DEF AndTruth
    <2>9. CASE node.kind = "composite" /\ node.operator # "and"
      <3>1. NodeTruth[k] = OrTruth(old) /\ NodeTruth'[k] = OrTruth(new)
        BY <2>1, <2>9 DEF NodeValue, old, new
      <3>2. QED BY <1>3, <2>4, <2>6, <3>1 DEF OrTruth
    <2>10. QED BY <2>7, <2>8, <2>9
  <1>4. ASSUME NEW k \in 1..Size, Lost(k) PROVE FALSE
    <2> HIDE DEF Lost
    <2>1. Size - k \in S /\ S \in SUBSET Nat
      <3>1. Size - k \in 0..Size /\ Size - (Size - k) = k
        BY <1>1
      <3>2. QED BY <1>1, <1>4, <3>1
    <2>2. PICK m \in S : \A y \in S : m <= y
      <3> HIDE DEF S
      <3>1. QED BY <2>1, LeastNumber
    <2>3. m <= Size - k /\ m \in 0..Size /\ Lost(Size - m)
      BY <2>1, <2>2
    <2>4. Size - m \in 1..Size
      BY <1>1, <2>3
    <2>5. ASSUME NEW l \in (Size - m + 1)..Size PROVE ~Lost(l)
      <3>1. Size - l \in 0..Size /\ Size - (Size - l) = l /\ ~(m <= Size - l)
        BY <1>1, <2>3, <2>5
      <3>2. Size - l \notin S
        BY <2>2, <3>1
      <3>3. QED BY <3>1, <3>2
    <2>6. QED BY <1>3, <2>3, <2>4, <2>5
  <1>5. QED BY <1>4

\* One more record on file takes nothing back.
LEMMA EvidenceStep ==
    ASSUME PolicyInv, [PolicyNext]_policyVars, evidence # evidence', bundle # NoBundle
    PROVE  /\ \A g \in Gates : EvaluateGate(g) = "passed" => EvaluateGate(g)' = "passed"
           /\ Completion = "satisfied" => Completion' = "satisfied"
  <1>1. PICK e : evidence' = evidence \cup {e}
    BY DEF PolicyNext, policyVars, InstallBundle, RecordEvidence, RequestWaiver, ObserveCondition, Learn, Confirm,
           ChangeSource, PolicyTick, Transition
  <1>2. UNCHANGED <<bundle, lifecycle, revision, policyNow, waivers, condition, known, confirmed>>
    BY DEF PolicyNext, policyVars, InstallBundle, RecordEvidence, RequestWaiver, ObserveCondition, Learn, Confirm,
           ChangeSource, PolicyTick, Transition
  <1>3. PolicyInv'
    BY PolicyNextInv
  <1>4. ASSUME NEW g \in Gates
        PROVE  /\ EvaluateGate(g) = "passed" => EvaluateGate(g)' = "passed"
               /\ EvaluateGate(g) = "waived" => EvaluateGate(g)' = "waived"
    <2>1. Candidates(g) \subseteq Candidates(g)' /\ \A c : Valid(g, c)' = Valid(g, c)
      BY <1>1, <1>2 DEF Candidates, Valid, Unexpired
    <2>2. WaiverOK(g)' = WaiverOK(g)
      BY DEF WaiverOK
    <2>3. QED BY <1>2, <2>1, <2>2 DEF EvaluateGate
  <1>5. Gates' = Gates
    BY <1>2 DEF Gates
  <1>6. PhaseAllows("completion") => PhaseAllows("completion")'
    BY <1>4, <1>5 DEF PhaseAllows
  <1>7. (\E c \in evidence : DeclaredCurrent(c)) => (\E c \in evidence : DeclaredCurrent(c))'
    BY <1>1, <1>2 DEF DeclaredCurrent, Unexpired
  <1>8. Carries({"true"})
    <2>1. \A a, b : (a => b) => (Holds(a) = "true" => Holds(b) = Holds(a))
      BY DEF Holds
    <2>2. QED BY <1>2, <1>6, <1>7 DEF Carries, LeafTruth, Leaves, Holds
  <1>9. \A k \in 1..Size : NodeTruth[k] \in {"true"} => NodeTruth'[k] = NodeTruth[k]
    BY <1>2, <1>3, <1>8, TruthCarries
  <1>10. 1 \in 1..Size
    BY InstalledTable DEF TableOK
  <1>11. Completion = "satisfied" => NodeTruth[1] = "true"
    BY DEF Completion
  <1>12. NodeTruth'[1] = "true" => Completion' = "satisfied"
    BY DEF Completion
  <1>13. QED BY <1>4, <1>9, <1>10, <1>11, <1>12

\* What becomes known about dependencies or children reverses no verdict.
LEMMA KnowledgeStep ==
    ASSUME PolicyInv, [PolicyNext]_policyVars, known # known'
    PROVE  NodeTruth[1] = "none" \/ NodeTruth[1]' = NodeTruth[1]
  <1>1. PICK what \in {"dependencies", "children"}, value \in {"true", "false"} : Learn(what, value)
    BY DEF PolicyNext, policyVars, InstallBundle, RecordEvidence, RequestWaiver, ObserveCondition, Confirm,
           ChangeSource, PolicyTick, Transition
  <1>2. /\ UNCHANGED <<bundle, lifecycle, revision, policyNow, evidence, waivers, condition, confirmed>>
        /\ known[what] = "none" /\ known' = [known EXCEPT ![what] = value]
        /\ DOMAIN bundle.policy # {}
    BY <1>1 DEF Learn, Asks
  <1>3. bundle # NoBundle
    BY <1>2 DEF NoBundle
  <1>4. PolicyInv'
    BY PolicyNextInv
  <1>5. /\ known.dependencies # "none" => known'.dependencies = known.dependencies
        /\ known.children # "none" => known'.children = known.children
    BY <1>2 DEF PolicyInv
  <1>6. PhaseAllows("completion")' = PhaseAllows("completion")
    BY <1>2 DEF PhaseAllows, Gates, EvaluateGate, WaiverOK, Candidates, Valid, Unexpired
  <1>7. (\E c \in evidence : DeclaredCurrent(c))' = (\E c \in evidence : DeclaredCurrent(c))
    BY <1>2 DEF DeclaredCurrent, Unexpired
  <1>8. Carries({"true", "false"})
    BY <1>2, <1>5, <1>6, <1>7 DEF Carries, LeafTruth, Leaves, Holds
  <1>9. \A k \in 1..Size : NodeTruth[k] \in {"true", "false"} => NodeTruth'[k] = NodeTruth[k]
    BY <1>2, <1>3, <1>4, <1>8, TruthCarries
  <1>10. TableOK /\ 1 \in 1..Size
    BY <1>3, InstalledTable DEF TableOK
  <1>11. NodeTruth[1] \in Truth
    BY <1>10, NodeTruthTyped DEF TruthTyped
  <1>12. QED BY <1>9, <1>10, <1>11 DEF Truth

\* evaluate_gate, evaluate_completion: for every bundle and every policy, whatever the
\* depth of its tree, evidence that arrives later takes nothing back and knowledge
\* that arrives later reverses nothing.
THEOREM VerdictsAreMonotone == PolicySpec => VerdictsMonotone
  <1>1. PolicyInv /\ [PolicyNext]_policyVars =>
           [(evidence # evidence' /\ bundle # NoBundle) =>
                /\ \A g \in Gates : EvaluateGate(g) = "passed" => EvaluateGate(g)' = "passed"
                /\ Completion = "satisfied" => Completion' = "satisfied"]_policyVars
    BY EvidenceStep
  <1>2. PolicyInv /\ [PolicyNext]_policyVars =>
           [(known # known') => NodeTruth[1] = "none" \/ NodeTruth[1]' = NodeTruth[1]]_policyVars
    BY KnowledgeStep
  <1>3. PolicyInit => PolicyInv
    BY PolicyInitInv
  <1>4. PolicyInv /\ [PolicyNext]_policyVars => PolicyInv'
    BY PolicyNextInv
  <1>5. QED BY <1>1, <1>2, <1>3, <1>4, PTL
            DEF PolicySpec, VerdictsMonotone, EvidenceOnlyHelps, KnowledgeNeverReverses

\* evaluate_lifecycle_transition: whatever the policy of an item is, waivers and
\* conditions included, it goes from active to completed only with an attested record of
\* an accepted kind and sufficient authority for each of its safety gates, made for it and
\* for this revision.
THEOREM SafetyIsProven == PolicySpec => SafetyProven
  <1>1. ASSUME PolicyInv, [PolicyNext]_policyVars, lifecycle = "active", lifecycle' = "completed",
               NEW g \in Gates, g.type = "safety", g.phase = "completion"
        PROVE  /\ condition[g.id] = "true" /\ g.id \notin waivers
               /\ \E e \in evidence : Proves(g, e)
    <2>1. bundle # NoBundle /\ TransitionAllowed("completed")
      BY <1>1 DEF PolicyNext, policyVars, InstallBundle, RecordEvidence, RequestWaiver, ObserveCondition, Learn,
                  Confirm, ChangeSource, PolicyTick, Transition
    <2>2. PhaseAllows("completion")
      BY <1>1, <2>1 DEF TransitionAllowed
    <2>3. EvaluateGate(g) = "passed"
      BY <1>1, <2>2 DEF PhaseAllows, EvaluateGate, WaiverOK
    <2>4. /\ condition[g.id] = "true" /\ g.id \notin waivers
          /\ \E e \in Candidates(g) : Valid(g, e)
      BY <2>3 DEF EvaluateGate, WaiverOK
    <2>4a. PICK e \in Candidates(g) : Valid(g, e)
      BY <2>4
    <2>5. g.attest
      BY <1>1, <2>1 DEF PolicyInv, Parses, GateParses, GateOK, Gates
    <2>6. e \in evidence /\ e.gate = g.id /\ e.item = "this" /\ e.producer # "ai"
      BY <1>1, <2>4a DEF Candidates, PolicyInv
    <2>7. /\ e.revision = revision /\ e.attestation = "later" /\ e.type \in g.accepted
          /\ e.authority \in {"authoritative", "provisional"}
          /\ e.until = 0 \/ policyNow < e.until
      BY <2>4a, <2>5 DEF Valid, Unexpired, Allowed
    <2>7a. policyNow < e.until => e.until > policyNow
      OBVIOUS
    <2>8. QED BY <2>4, <2>6, <2>7, <2>7a DEF Proves
  <1>2. PolicyInv /\ [PolicyNext]_policyVars =>
           [(lifecycle = "active" /\ lifecycle' = "completed") =>
                \A g \in Gates : (g.type = "safety" /\ g.phase = "completion") =>
                    /\ condition[g.id] = "true" /\ g.id \notin waivers
                    /\ \E e \in evidence : Proves(g, e)]_policyVars
    BY <1>1
  <1>3. PolicyInit => PolicyInv
    BY PolicyInitInv
  <1>4. PolicyInv /\ [PolicyNext]_policyVars => PolicyInv'
    BY PolicyNextInv
  <1>5. QED BY <1>2, <1>3, <1>4, PTL DEF PolicySpec, SafetyProven
=============================================================================
