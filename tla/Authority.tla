----------------------------- MODULE Authority -----------------------------
(***************************************************************************)
(* Authority and freshness of one field (domain/authority.py).  Sources of *)
(* six precedence levels report values; reconcile_authority selects one    *)
(* observation, surfaces disagreement and staleness, and says whether the  *)
(* field blocks readiness.  Observations accumulate, sources move on and   *)
(* the clock runs; the resolution is recomputed from what is stored.       *)
(***************************************************************************)
EXTENDS Naturals, FiniteSets

CONSTANTS
    Sources,            \* source_id, ordered like the strings they stand for
    Levels,             \* the SourceLevels in use, a subset of 1..6
    Claims,             \* the AuthorityStatuses sources claim for a value
    Values,             \* field values, ordered like their canonical JSON
    MaxAge,             \* FreshnessPolicy: level -> max_age
    MaxRevisions,       \* bound: revisions of one source
    MaxObservations,    \* bound: observations kept
    MaxClock            \* bound: clock

\* FreshnessPolicy: exactly one positive rule for every level.
ASSUME FreshnessAssumption ==
    /\ Levels \subseteq 1..6
    /\ Claims \subseteq {"authoritative", "provisional", "stale", "conflicted", "unavailable"}
    /\ DOMAIN MaxAge = Levels
    /\ \A l \in Levels : MaxAge[l] \in Nat \ {0}

\* Sources and values stand for strings by their place in the order.
ASSUME OrdersAssumption == Sources \subseteq Nat /\ Values \subseteq Nat

VARIABLES
    observations,       \* the SourceObservations of the field
    current,            \* source -> its newest revision
    informed,           \* whether the caller passes current_revisions
    clock               \* now

authorityVars == <<observations, current, informed, clock>>

Inference == 1
HumanOverride == 6
Never == 0

\* SourceObservation.__post_init__.
ObservationOK(o) ==
    /\ o.level = HumanOverride => o.expires # Never
    /\ o.level = Inference => o.authority # "authoritative"

\* The newest observation first, whatever its level.
BeforeByTime(o, p) ==
    \/ o.at > p.at
    \/ o.at = p.at /\ o.level > p.level
    \/ o.at = p.at /\ o.level = p.level /\ o.source < p.source

\* _observation_sort_key: o is listed before p.
Before(o, p) ==
    \/ o.level > p.level
    \/ /\ o.level = p.level
       /\ \/ o.source < p.source
          \/ /\ o.source = p.source
             /\ \/ o.revision < p.revision
                \/ o.revision = p.revision /\ o.at < p.at
                \/ o.revision = p.revision /\ o.at = p.at /\ o.value < p.value

\* ordered[0]; ties differ in nothing the key shows and stay as given.
Selected == CHOOSE o \in observations : \A p \in observations : ~Before(p, o)

\* _is_stale.
IsStale(o) ==
    \/ clock - o.at > MaxAge[o.level]
    \/ o.expires # Never /\ clock >= o.expires
    \/ informed /\ current[o.source] # o.revision

Conflict == Cardinality({o.value : o \in observations}) > 1

\* reconcile_authority: the status.
Status ==
    CASE observations = {} -> "unavailable"
      [] observations # {} /\ Conflict -> "conflicted"
      [] observations # {} /\ ~Conflict /\ IsStale(Selected) -> "stale"
      [] OTHER -> IF Selected.authority = "provisional" THEN "provisional"
                  ELSE "authoritative"

\* blocks_readiness of a safety-critical field.
BlocksReadiness == Status \in {"stale", "conflicted", "unavailable"}

-----------------------------------------------------------------------------
AuthorityInit ==
    /\ observations = {}
    /\ current = [s \in Sources |-> 1]
    /\ informed \in BOOLEAN
    /\ clock = 1

\* A source reports the field as it is in its current revision; a report may
\* reach the field after the source has moved on, so any revision up to the
\* current one can be the observed one.
Observe(source, level, value, authority, revision, expires) ==
    LET o == [source |-> source, level |-> level, value |-> value, at |-> clock,
              authority |-> authority, revision |-> revision, expires |-> expires]
    IN  /\ Cardinality(observations) < MaxObservations
        /\ revision <= current[source]
        /\ ObservationOK(o)
        /\ observations' = observations \cup {o}
        /\ UNCHANGED <<current, informed, clock>>

\* The source publishes a new revision.
Advance(source) ==
    /\ current[source] < MaxRevisions
    /\ current' = [current EXCEPT ![source] = @ + 1]
    /\ UNCHANGED <<observations, informed, clock>>

AuthorityTick ==
    /\ clock < MaxClock
    /\ clock' = clock + 1
    /\ UNCHANGED <<observations, current, informed>>

AuthorityNext ==
    \/ \E s \in Sources, l \in Levels, v \in Values, a \in Claims,
          r \in 1..MaxRevisions, e \in {Never, clock + 1} : Observe(s, l, v, a, r, e)
    \/ \E s \in Sources : Advance(s)
    \/ AuthorityTick

AuthoritySpec == AuthorityInit /\ [][AuthorityNext]_authorityVars

-----------------------------------------------------------------------------
\* What a lower level reports never displaces the value of a higher one, in
\* whatever order the reports arrive: a step that changes the selected value
\* brings an observation at least as high as the one it displaces.
PrecedenceStable ==
    [][(observations # {} /\ Selected'.value # Selected.value) =>
          \E o \in observations' \ observations : o.level >= Selected.level]_authorityVars

\* Trust never returns by itself.  While no observation arrives, the clock and
\* the sources can only take a resolution from authoritative or provisional to
\* stale: nothing but a report heals a field, and a field that blocks readiness
\* keeps blocking it.  (A source may return to no earlier revision, so a report
\* that was overtaken stays overtaken.)
OnlyReportsHeal ==
    [][(observations' = observations) =>
          /\ Status' # Status => Status' = "stale"
          /\ BlocksReadiness => BlocksReadiness']_authorityVars

\* A resolution changes for a reason: a report of at least its level, or time
\* taking trust away (authority.py, reconcile_authority).
ResolutionsJustified == PrecedenceStable /\ OnlyReportsHeal
=============================================================================
