---------------------------- MODULE ReleaseTrain ----------------------------
(***************************************************************************)
(* From a clean commit to a closed plan: certify_plan_through_item_35.py   *)
(* runs the checks, run_release_certification.py and run_cutover_539.py    *)
(* one after the other and ticks the plan's items off; then                *)
(* finalize_final_verification.py runs the final audits                    *)
(* (run_final_audits.py) and, when approval is given, closes F1-F4.  Any   *)
(* step may fail or be interrupted, the scripts may be started again, and  *)
(* people commit meanwhile.  What a step leaves carries, as history, the   *)
(* number of the invocation that left it.                                  *)
(***************************************************************************)
EXTENDS Naturals, Sequences

CONSTANTS
    MaxRevisions,   \* bound: commits
    MaxAttempts     \* bound: invocations of the two scripts

VARIABLES
    revision,       \* HEAD
    treeClean,      \* git status --porcelain is empty
    train,          \* the script under way: step and the subject it announces
    release,        \* the release certification on disk: its subject
    cutover,        \* the cutover artifact on disk
    items,          \* items 28-35 in the plan: the subject they are closed for
    audits,         \* the final audit evidence on disk
    gates,          \* F1-F4 in the plan: the audit evidence they were closed after
    attempts        \* invocations so far, the last of them the one under way

trainVars == <<revision, treeClean, train, release, cutover, items, audits, gates, attempts>>

Idle == [step |-> "idle", subject |-> 0]
ItemsOpen == [subject |-> 0, by |-> 0]
ItemsClosed == items # ItemsOpen
GatesClosed == gates # [audits |-> 0, by |-> 0]

TrainInit ==
    /\ revision = 1 /\ treeClean = TRUE /\ train = Idle
    /\ release = [subject |-> 0, by |-> 0] /\ cutover = 0
    /\ items = ItemsOpen /\ audits = 0 /\ gates = [audits |-> 0, by |-> 0]
    /\ attempts = 0

-----------------------------------------------------------------------------
(* certify_plan_through_item_35.py *)

\* A clean tree, a complete environment, a real soak, and a plan whose items
\* 28-35 are all still open.
InputsOK(environment, soak) == treeClean /\ environment /\ soak /\ ~ItemsClosed

StartCertifying(environment, soak) ==
    /\ train.step = "idle" /\ attempts < MaxAttempts
    /\ attempts' = attempts + 1
    /\ train' = IF InputsOK(environment, soak) THEN [Idle EXCEPT !.step = "subject"] ELSE Idle
    /\ UNCHANGED <<revision, treeClean, release, cutover, items, audits, gates>>

\* git rev-parse HEAD.
ReadTrainSubject ==
    /\ train.step = "subject"
    /\ train' = [step |-> "check", subject |-> revision]
    /\ UNCHANGED <<revision, treeClean, release, cutover, items, audits, gates, attempts>>

\* A subprocess whose exit code nobody looks at.
AfterIgnoring(ok, next) == [train EXCEPT !.step = next]

\* _run: a non-zero exit ends the script.
After(ok, next) == IF ok THEN [train EXCEPT !.step = next] ELSE Idle

\* make check, make infra-up, make migration-smoke, make storage-smoke.
RunChecks(ok) ==
    /\ train.step = "check"
    /\ train' = After(ok, "release")
    /\ UNCHANGED <<revision, treeClean, release, cutover, items, audits, gates, attempts>>

\* run_release_certification: it finds its own subject, in a clean tree.
RunRelease(ok) ==
    /\ train.step = "release"
    /\ train' = After(ok /\ treeClean, "cutover")
    /\ release' = IF ok /\ treeClean THEN [subject |-> revision, by |-> attempts] ELSE release
    /\ UNCHANGED <<revision, treeClean, cutover, items, audits, gates, attempts>>

\* run_cutover_539: replay, sandbox, execute_cutover, and the artifact.
RunCutover(ok) ==
    /\ train.step = "cutover"
    /\ train' = After(ok, "close")
    /\ cutover' = IF ok THEN attempts ELSE cutover
    /\ UNCHANGED <<revision, treeClean, release, items, audits, gates, attempts>>

\* _close_items: the plan is rewritten, so the tree is no longer clean; the
\* anatomy update and git diff --check that follow change nothing of it.
CloseItems ==
    /\ train.step = "close"
    /\ items' = [subject |-> train.subject, by |-> attempts]
    /\ treeClean' = FALSE
    /\ train' = Idle
    /\ UNCHANGED <<revision, release, cutover, audits, gates, attempts>>

-----------------------------------------------------------------------------
(* finalize_final_verification.py *)

\* main, up to the audits: every implementation item is closed.
StartFinal(approve) ==
    /\ train.step = "idle" /\ attempts < MaxAttempts
    /\ ItemsClosed
    /\ attempts' = attempts + 1
    /\ train' = [Idle EXCEPT !.step = IF approve THEN "audit_to_approve" ELSE "audit_to_review"]
    /\ UNCHANGED <<revision, treeClean, release, cutover, items, audits, gates>>

\* run_final_audits with an approved manual attestation, then _validate_audits:
\* the evidence of an earlier run is overwritten.
RunAudits(ok) ==
    /\ train.step \in {"audit_to_review", "audit_to_approve"}
    /\ audits' = IF ok THEN attempts ELSE audits
    /\ train' = IF train.step = "audit_to_approve" THEN After(ok, "approve") ELSE Idle
    /\ UNCHANGED <<revision, treeClean, release, cutover, items, gates, attempts>>

\* _close_final_gates, with WF_FINAL_APPROVAL set and the gates still open.
CloseGates(approval) ==
    /\ train.step = "approve"
    /\ train' = Idle
    /\ IF approval /\ ~GatesClosed
       THEN gates' = [audits |-> audits, by |-> attempts] /\ treeClean' = FALSE
       ELSE UNCHANGED <<gates, treeClean>>
    /\ UNCHANGED <<revision, release, cutover, items, audits, attempts>>

-----------------------------------------------------------------------------
(* Around the scripts. *)

\* Somebody commits, whatever runs meanwhile.
CommitRevision ==
    /\ revision < MaxRevisions
    /\ revision' = revision + 1 /\ treeClean' = TRUE
    /\ UNCHANGED <<train, release, cutover, items, audits, gates, attempts>>

\* The script is interrupted; what it wrote stays.
Interrupted ==
    /\ train.step # "idle"
    /\ train' = Idle
    /\ UNCHANGED <<revision, treeClean, release, cutover, items, audits, gates, attempts>>

TrainNext ==
    \/ \E environment, soak \in BOOLEAN : StartCertifying(environment, soak)
    \/ ReadTrainSubject
    \/ \E ok \in BOOLEAN : RunChecks(ok) \/ RunRelease(ok) \/ RunCutover(ok) \/ RunAudits(ok)
    \/ CloseItems
    \/ \E approve \in BOOLEAN : StartFinal(approve) \/ CloseGates(approve)
    \/ CommitRevision \/ Interrupted

TrainSpec == TrainInit /\ [][TrainNext]_trainVars

-----------------------------------------------------------------------------
\* Items 28-35 are ticked off by an invocation that itself signed a release and
\* cut over before: neither a certification nor a cutover that an earlier, failed or
\* interrupted invocation left on disk counts. The release it signed is for the
\* subject written into the plan or a later commit; _close_items calls it the exact
\* subject, which is not claimed here, since run_release_certification.py reads HEAD
\* again.
ItemsEarned ==
    ItemsClosed => /\ release.by = items.by /\ cutover = items.by
                   /\ items.subject # 0 /\ items.subject <= release.subject

\* F1-F4 are closed by a later invocation, after the items, on audit evidence that
\* this invocation produced and not on what an earlier one left. Whether anybody
\* looked at that evidence is not claimed: finalize_final_verification.py asks for an
\* environment variable.
GatesEarned ==
    GatesClosed => /\ ItemsClosed /\ items.by < gates.by
                   /\ gates.audits = gates.by

\* The plan says nothing it has not earned, however often the scripts fail, are
\* interrupted and started again, and whatever is committed while they run.
PlanEarned == ItemsEarned /\ GatesEarned

=============================================================================
