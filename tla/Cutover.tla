------------------------------- MODULE Cutover -------------------------------
(***************************************************************************)
(* Handing external projections over from the legacy writer to Work        *)
(* Frontier (domain/cutover.py, application/cutover_539.py).  An operator  *)
(* compares the two writers' projections in shadow mode and notes version  *)
(* and source revision; later it executes the cutover with what it noted.  *)
(* Between the two the source moves, leases expire and change hands, other *)
(* operators cut over or roll back.  The functions are pure: their caller  *)
(* keeps the writer state, and one caller at a time replaces it.           *)
(***************************************************************************)
EXTENDS Naturals

CONSTANTS
    Operators,      \* who carries the cutover out
    Differences,    \* [revision -> fields in which the two projections differ]
    Presentation,   \* presentation_only_fields
    LeaseTicks,     \* length of a writer lease
    MaxSource,      \* bound: source revisions
    MaxVersion,     \* bound: versions of the writer state
    MaxCutNow       \* bound: the clock

VARIABLES
    writer,         \* WriterState
    writerLease,    \* WriterLease
    source,         \* current source revision
    plan,           \* what each operator noted, and when
    cutNow,         \* the clock
    changes,        \* history: how many cutovers and rollbacks there were
    takeover        \* history: the plan the active frontier writer was activated with

cutVars == <<writer, writerLease, source, plan, cutNow, changes, takeover>>

NoPlan == [version |-> 0, revision |-> 0, equal |-> FALSE, at |-> 0]

CutInit ==
    /\ writer = [mode |-> "legacy_active", active |-> "legacy", version |-> 1]
    /\ writerLease = [owner |-> "none", expires |-> 0]
    /\ source = 1 /\ cutNow = 0
    /\ plan = [a \in Operators |-> NoPlan]
    /\ changes = 0
    /\ takeover = NoPlan

-----------------------------------------------------------------------------
\* compare_shadow: semantic differences only; what is presentation is recorded.
SemanticEqual(revision) == Differences[revision] \subseteq Presentation

\* IMPORT, SHADOW, COMPARE: what an operator knows when it asks for approval.
Plan(a) ==
    /\ plan' = [plan EXCEPT ![a] = [version |-> writer.version, revision |-> source,
                                    equal |-> SemanticEqual(source), at |-> changes]]
    /\ UNCHANGED <<writer, writerLease, source, cutNow, changes, takeover>>

\* The fence without the source revision.
FencedLocally(a) ==
    /\ writerLease.owner = a /\ cutNow < writerLease.expires
    /\ plan[a].version = writer.version

\* assert_write_fence: the lease is the actor's and not over, neither the writer
\* state nor the source moved.  The version of the lease is never compared.
Fenced(a) ==
    /\ writerLease.owner = a /\ cutNow < writerLease.expires
    /\ plan[a].version = writer.version
    /\ plan[a].revision = source

\* _validate_evidence.
EvidenceOK(e) == e.approved /\ e.intact

\* activate_frontier_writer: only from shadow mode.
Activatable(a) == writer.mode = "shadow" /\ plan[a].equal /\ Fenced(a)

\* rollback_to_legacy: no lease is needed; in legacy mode only the time changes.
RolledBack(w) ==
    IF w.mode = "legacy_active" THEN w
    ELSE [mode |-> "legacy_active", active |-> "legacy", version |-> w.version + 1]

\* execute_cutover: activation, then PUBLISH and OBSERVE; stale writes or too many
\* errors roll it back at once.
ExecuteCutover(a, e) ==
    LET activated == [mode |-> "frontier_active", active |-> "frontier", version |-> writer.version + 1]
    IN  /\ plan[a] # NoPlan /\ writer.version < MaxVersion
        /\ EvidenceOK(e) /\ Activatable(a)
        /\ writer' = IF e.healthy THEN activated ELSE RolledBack(activated)
        /\ takeover' = IF e.healthy THEN plan[a] ELSE takeover
        /\ changes' = changes + 1
        /\ UNCHANGED <<writerLease, source, plan, cutNow>>

\* execute_cutover refuses; the plan stays and may be tried again.
RefuseCutover(a, e) ==
    /\ plan[a] # NoPlan
    /\ ~(EvidenceOK(e) /\ Activatable(a))
    /\ UNCHANGED cutVars

\* rollback_to_legacy, by any operator at any time.
RollbackToLegacy(a) ==
    /\ writer.version < MaxVersion
    /\ writer' = RolledBack(writer)
    /\ changes' = IF writer' = writer THEN changes ELSE changes + 1
    /\ UNCHANGED <<writerLease, source, plan, cutNow, takeover>>

-----------------------------------------------------------------------------
(* What the functions are given. *)

\* Shadow mode is entered by whoever keeps the state; legacy stays the writer.
EnterShadow ==
    /\ writer.mode = "legacy_active"
    /\ writer' = [writer EXCEPT !.mode = "shadow"]
    /\ UNCHANGED <<writerLease, source, plan, cutNow, changes, takeover>>

\* A writer lease is given to one operator at a time.
GrantWriterLease(a) ==
    /\ writerLease.owner \in {"none", a} \/ cutNow >= writerLease.expires
    /\ writerLease' = [owner |-> a, expires |-> cutNow + LeaseTicks]
    /\ UNCHANGED <<writer, source, plan, cutNow, changes, takeover>>

SourceMoves ==
    /\ source < MaxSource
    /\ source' = source + 1
    /\ UNCHANGED <<writer, writerLease, plan, cutNow, changes, takeover>>

CutTick ==
    /\ cutNow < MaxCutNow
    /\ cutNow' = cutNow + 1
    /\ UNCHANGED <<writer, writerLease, source, plan, changes, takeover>>

Evidence == [approved : BOOLEAN, intact : BOOLEAN, healthy : BOOLEAN]

CutNext ==
    \/ \E a \in Operators :
          \/ Plan(a) \/ RollbackToLegacy(a) \/ GrantWriterLease(a)
          \/ \E e \in Evidence : ExecuteCutover(a, e) \/ RefuseCutover(a, e)
    \/ EnterShadow \/ SourceMoves \/ CutTick

CutSpec == CutInit /\ [][CutNext]_cutVars

-----------------------------------------------------------------------------
\* Work Frontier becomes the writer only on a comparison that still holds: the
\* two projections agree for the source revision of that moment, and since the
\* comparison nobody cut over or rolled back, not even there and back again.
\* Whenever the writer changes its version grows, automatic rollback included.
TakeoverOnFreshParity ==
    [][/\ (writer.active = "legacy" /\ writer'.active = "frontier") =>
              SemanticEqual(source) /\ takeover'.at = changes
       /\ writer'.active # writer.active => writer'.version > writer.version]_cutVars
=============================================================================
