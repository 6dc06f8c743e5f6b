------------------------------- MODULE Setup -------------------------------
(***************************************************************************)
(* The Setup Center: detect, plan, apply and resume                        *)
(* (application/setup/*.py) over the configuration file and the SQLite     *)
(* journal of platform/configuration/setup_storage.py.                     *)
(*                                                                         *)
(* Every process runs one SetupService (the CLI, the loopback server).     *)
(* Processes share the configuration file, the journal, the installation   *)
(* lock and the machine; each journal call, each file access and each call *)
(* of the action runner is a step of its own.  Between any two of them a   *)
(* process may crash, or an exception may leave the run, which then gives  *)
(* the lock back; either way what it has in memory is lost.  The services  *)
(* it started may stop by themselves.                                      *)
(***************************************************************************)
EXTENDS Integers, Sequences, FiniteSets

CONSTANTS
    Processes,          \* processes that use the Setup Center
    Requests,           \* setup requests: [profile, desired]
    MaxSessions,        \* bound: apply runs started
    MaxCrashes,         \* bound: crashes and interruptions
    MaxFaults           \* bound: calls of the runner that raise

Profiles == {"development", "production"}

(* The inputs a request may carry; a group of parameters that planning     *)
(* requires together is one input.                                         *)
Inputs == {"github_repository", "github_app", "services",
           "prepare_release", "release", "prepare_cutover", "cutover"}

Request == [profile : Profiles, desired : SUBSET Inputs]

ASSUME SetupAssumption ==
    /\ Requests \subseteq Request
    /\ MaxSessions \in Nat /\ MaxCrashes \in Nat /\ MaxFaults \in Nat

VARIABLES
    config,             \* the configuration file: the requests merged into it
    effects,            \* actions whose command has taken effect on the machine
    lock,               \* setup_installation_locks: the session in the row, or 0
    journal,            \* setup_sessions and setup_action_transitions
    latest,             \* the session updated last, or 0 while there is none
    proc,               \* per process: its service's memory and program counter
    started,            \* sessions started so far
    crashes,            \* crashes and interruptions so far
    faults              \* runner calls that raised so far

shared == <<config, effects, lock, journal, latest>>
vars == <<config, effects, lock, journal, latest, proc, started, crashes, faults>>

Sessions == 1..MaxSessions
NoSession == 0

-----------------------------------------------------------------------------
(* Planning: the actions of a plan, each depending on the one before it.   *)

ActionIds == {"config.write", "github.reference", "services.local.start",
              "database.migrate", "storage.verify", "checks.fast",
              "github.app.verify", "services.external.verify",
              "release.prepare", "cutover.prepare"}

Reversible == {"config.write", "github.reference", "services.local.start"}

(* The actions that run a command on the machine; the others only check    *)
(* their parameters or ask GitHub.                                         *)
Commands == {"services.local.start", "database.migrate", "storage.verify",
             "checks.fast", "services.external.verify"}

(* Of all side effects only the started services are seen by the probe.    *)
Detectable == {"services.local.start"}

(* The evidence of this action has a field whose name carries a secret     *)
(* marker ("token_expires_at"), which record_transition refuses.           *)
EvidenceRefused == {"github.app.verify"}

OneIf(condition, action) == IF condition THEN <<action>> ELSE << >>

RequiredInputs(r) ==
    IF r.profile = "development" THEN {}
    ELSE {"github_repository", "github_app", "services"}
         \cup (IF "prepare_release" \in r.desired THEN {"release"} ELSE {})
         \cup (IF "prepare_cutover" \in r.desired THEN {"cutover"} ELSE {})

DevelopmentActions ==
    <<"services.local.start", "database.migrate", "storage.verify", "checks.fast">>

ProductionActions(r) ==
    <<"github.app.verify", "services.external.verify">>
        \o OneIf("prepare_release" \in r.desired, "release.prepare")
        \o OneIf("prepare_cutover" \in r.desired, "cutover.prepare")
        \o <<"checks.fast">>

PlannedActions(r) ==
    <<"config.write">>
        \o OneIf("github_repository" \in r.desired, "github.reference")
        \o (IF r.profile = "development" THEN DevelopmentActions ELSE ProductionActions(r))

(* A detection snapshot: the configuration's revision (its content) and    *)
(* what the probes see.  A plan is bound to the snapshot it was made from. *)
Snapshot == [revision |-> config, probed |-> effects \cap Detectable]

NoRequest == [profile |-> "none", desired |-> {}]
NoPlan == [request |-> NoRequest, basis |-> [revision |-> {}, probed |-> {}]]
Actions(plan) == PlannedActions(plan.request)

-----------------------------------------------------------------------------
ActionState == {"pending", "running", "applied", "verified", "failed",
                "compensating", "compensated", "manual_recovery_required"}
Untouched == [a \in ActionIds |-> "pending"]

(* A service's memory.  existing is the journal as loaded, applied the     *)
(* actions of this run to compensate, results what is reported, document   *)
(* the configuration as read.                                              *)
Fresh == [pc |-> "idle", plan |-> NoPlan, session |-> NoSession, existing |-> Untouched,
          index |-> 1, applied |-> << >>, results |-> Untouched, document |-> {}]

Resting == {"idle", "detected", "planned"}
Locked == {"open", "next", "apply", "record", "verify", "fail", "compensate", "undo", "undone", "release"}

Become(p, memory) == proc' = [proc EXCEPT ![p] = memory]
Current(p) == Actions(proc[p].plan)[proc[p].index]
Keep == UNCHANGED <<started, crashes>>

(* record_transition: the latest state of the action in the session, which *)
(* becomes the one updated last.                                           *)
Record(p, a, state) ==
    /\ journal' = [journal EXCEPT ![proc[p].session].states[a] = state]
    /\ latest' = proc[p].session

-----------------------------------------------------------------------------
(* Detect and plan.  plan() refuses when the configuration changed since   *)
(* the detection, or when the request lacks a required input.              *)

Detect(p) ==
    /\ proc[p].pc \in Resting
    /\ Become(p, [Fresh EXCEPT !.pc = "detected",
                               !.plan = [NoPlan EXCEPT !.basis = Snapshot]])
    /\ UNCHANGED <<shared, faults>> /\ Keep

MakePlan(p, r) ==
    /\ proc[p].pc = "detected"
    /\ RequiredInputs(r) \subseteq r.desired
    /\ IF proc[p].plan.basis.revision = config
       THEN Become(p, [proc[p] EXCEPT !.pc = "planned", !.plan.request = r])
       ELSE Become(p, Fresh)
    /\ UNCHANGED <<shared, faults>> /\ Keep

Opened(s) == journal[s].plan.request # NoRequest

(* apply compares the configuration revision only (its snapshot is the     *)
(* plan's own); apply_reviewed_plan and resume detect again first.         *)
StartApply(p, detectAgain) ==
    /\ proc[p].pc = "planned"
    /\ started < MaxSessions
    /\ IF IF detectAgain THEN proc[p].plan.basis = Snapshot
                         ELSE proc[p].plan.basis.revision = config
       THEN /\ Become(p, [proc[p] EXCEPT !.pc = "select", !.session = started + 1])
            /\ started' = started + 1
       ELSE Become(p, Fresh) /\ UNCHANGED started
    /\ UNCHANGED <<shared, crashes, faults>>

Resume(p, s) ==
    /\ proc[p].pc \in Resting
    /\ Opened(s)
    /\ journal[s].plan.basis = Snapshot
    /\ Become(p, [Fresh EXCEPT !.pc = "select", !.plan = journal[s].plan, !.session = s])
    /\ UNCHANGED <<shared, faults>> /\ Keep

-----------------------------------------------------------------------------
(* The installation lock: a SELECT and then an INSERT OR REPLACE, which    *)
(* the sqlite3 module runs as two transactions.                            *)

SelectLock(p) ==
    /\ proc[p].pc = "select"
    /\ Become(p, IF lock \in {NoSession, proc[p].session}
                 THEN [proc[p] EXCEPT !.pc = "insert"] ELSE Fresh)
    /\ UNCHANGED <<shared, faults>> /\ Keep

InsertLock(p) ==
    /\ proc[p].pc = "insert"
    /\ lock' = proc[p].session
    /\ Become(p, [proc[p] EXCEPT !.pc = "open"])
    /\ UNCHANGED <<config, effects, journal, latest, faults>> /\ Keep

(* create_session (idempotent), then load_session.                         *)
OpenSession(p) ==
    LET s == proc[p].session
    IN  /\ proc[p].pc = "open"
        /\ IF Opened(s)
           THEN UNCHANGED <<journal, latest>>
           ELSE journal' = [journal EXCEPT ![s].plan = proc[p].plan] /\ latest' = s
        /\ Become(p, [proc[p] EXCEPT !.pc = "next", !.existing = journal[s].states])
        /\ UNCHANGED <<config, effects, lock, faults>> /\ Keep

-----------------------------------------------------------------------------
(* _execute_locked, one action of the plan after the other.                *)

(* Mutant: every action is executed again.                                 *)
VerifiedBeforeNever(p, a) == FALSE

VerifiedBefore(p, a) == proc[p].existing[a] = "verified"

NextIndex(p) == proc[p].index + 1

EndLoop(p) ==
    /\ proc[p].pc = "next"
    /\ proc[p].index > Len(Actions(proc[p].plan))
    /\ Become(p, [proc[p] EXCEPT !.pc = "release"])
    /\ UNCHANGED <<shared, faults>> /\ Keep

SkipVerified(p) ==
    /\ proc[p].pc = "next"
    /\ proc[p].index <= Len(Actions(proc[p].plan))
    /\ VerifiedBefore(p, Current(p))
    /\ Become(p, [proc[p] EXCEPT !.index = NextIndex(p), !.results[Current(p)] = "verified"])
    /\ UNCHANGED <<shared, faults>> /\ Keep

(* Mutant: nothing is journaled before the side effect.                    *)
RecordNothing(p, a) == UNCHANGED <<journal, latest>>

RecordRunning(p, a) == Record(p, a, "running")

BeginAction(p) ==
    /\ proc[p].pc = "next"
    /\ proc[p].index <= Len(Actions(proc[p].plan))
    /\ ~ VerifiedBefore(p, Current(p))
    /\ RecordRunning(p, Current(p))
    /\ Become(p, [proc[p] EXCEPT !.pc = "apply"])
    /\ UNCHANGED <<config, effects, lock, faults>> /\ Keep

ApplyAction(p) ==
    /\ proc[p].pc = "apply"
    /\ effects' = effects \cup ({Current(p)} \cap Commands)
    /\ Become(p, [proc[p] EXCEPT !.pc = "record"])
    /\ UNCHANGED <<config, lock, journal, latest, faults>> /\ Keep

(* The runner raises: a command that failed or timed out may have done its *)
(* work all the same.                                                      *)
ApplyFails(p) ==
    /\ proc[p].pc = "apply"
    /\ faults < MaxFaults
    /\ faults' = faults + 1
    /\ effects' \in {effects, effects \cup ({Current(p)} \cap Commands)}
    /\ Become(p, [proc[p] EXCEPT !.pc = "fail"])
    /\ UNCHANGED <<config, lock, journal, latest>> /\ Keep

RecordApplied(p) ==
    /\ proc[p].pc = "record"
    /\ IF Current(p) \in EvidenceRefused
       THEN Become(p, [proc[p] EXCEPT !.pc = "fail"]) /\ UNCHANGED <<journal, latest>>
       ELSE /\ Record(p, Current(p), "applied")
            /\ Become(p, [proc[p] EXCEPT !.pc = "verify", !.applied = Append(@, Current(p))])
    /\ UNCHANGED <<config, effects, lock, faults>> /\ Keep

VerifyAction(p) ==
    /\ proc[p].pc = "verify"
    /\ Record(p, Current(p), "verified")
    /\ Become(p, [proc[p] EXCEPT !.pc = "next", !.index = NextIndex(p),
                                 !.results[Current(p)] = "verified"])
    /\ UNCHANGED <<config, effects, lock, faults>> /\ Keep

VerifyFails(p) ==
    /\ proc[p].pc = "verify"
    /\ faults < MaxFaults
    /\ faults' = faults + 1
    /\ Become(p, [proc[p] EXCEPT !.pc = "fail"])
    /\ UNCHANGED shared /\ Keep

FailAction(p) ==
    /\ proc[p].pc = "fail"
    /\ Record(p, Current(p), "failed")
    /\ Become(p, [proc[p] EXCEPT !.pc = "compensate", !.results[Current(p)] = "failed"])
    /\ UNCHANGED <<config, effects, lock, faults>> /\ Keep

-----------------------------------------------------------------------------
(* _compensate: the actions this run applied, latest first.  What cannot   *)
(* be undone is reported for manual recovery; an undone action keeps the   *)
(* result it was given.                                                    *)

(* Mutant: the oldest first.                                               *)
ToCompensateOldest(p) == proc[p].applied[1]

ToCompensate(p) == proc[p].applied[Len(proc[p].applied)]

Dropped(p) == SubSeq(proc[p].applied, 1, Len(proc[p].applied) - 1)

NeedsManual(p) ==
    Become(p, [proc[p] EXCEPT !.pc = "compensate", !.applied = Dropped(p),
                              !.results[ToCompensate(p)] = "manual_recovery_required"])

EndCompensation(p) ==
    /\ proc[p].pc = "compensate"
    /\ proc[p].applied = << >>
    /\ Become(p, [proc[p] EXCEPT !.pc = "release"])
    /\ UNCHANGED <<shared, faults>> /\ Keep

BeginCompensation(p) ==
    /\ proc[p].pc = "compensate"
    /\ proc[p].applied # << >>
    /\ IF ToCompensate(p) \in Reversible
       THEN /\ Record(p, ToCompensate(p), "compensating")
            /\ Become(p, [proc[p] EXCEPT !.pc = "undo"])
       ELSE /\ Record(p, ToCompensate(p), "manual_recovery_required")
            /\ NeedsManual(p)
    /\ UNCHANGED <<config, effects, lock, faults>> /\ Keep

CompensateAction(p) ==
    /\ proc[p].pc = "undo"
    /\ effects' = effects \ {ToCompensate(p)}
    /\ Become(p, [proc[p] EXCEPT !.pc = "undone"])
    /\ UNCHANGED <<config, lock, journal, latest, faults>> /\ Keep

RecordCompensated(p) ==
    /\ proc[p].pc = "undone"
    /\ Record(p, ToCompensate(p), "compensated")
    /\ Become(p, [proc[p] EXCEPT !.pc = "compensate", !.applied = Dropped(p)])
    /\ UNCHANGED <<config, effects, lock, faults>> /\ Keep

(* A compensation that raises may have stopped the services all the same.  *)
CompensateFails(p) ==
    /\ proc[p].pc = "undo"
    /\ faults < MaxFaults
    /\ faults' = faults + 1
    /\ effects' \in {effects, effects \ {ToCompensate(p)}}
    /\ Record(p, ToCompensate(p), "manual_recovery_required")
    /\ NeedsManual(p)
    /\ UNCHANGED <<config, lock>> /\ Keep

(* release_installation_lock: only the session's own row is deleted.       *)
Unlock(p) == lock' = IF lock = proc[p].session THEN NoSession ELSE lock

(* The finally clause, at the end of a run.                                *)
ReleaseLock(p) ==
    /\ proc[p].pc = "release"
    /\ Unlock(p)
    /\ Become(p, [proc[p] EXCEPT !.pc = "executed"])
    /\ UNCHANGED <<config, effects, journal, latest, faults>> /\ Keep

-----------------------------------------------------------------------------
(* The configuration is written after the lock is released, if every       *)
(* result is "verified": read, compare and replace.                        *)

Succeeded(p) ==
    \A k \in 1..Len(Actions(proc[p].plan)) :
        proc[p].results[Actions(proc[p].plan)[k]] = "verified"

Finish(p) ==
    /\ proc[p].pc = "executed"
    /\ IF Succeeded(p)
       THEN Become(p, [proc[p] EXCEPT !.pc = "compare", !.document = config])
       ELSE Become(p, Fresh)
    /\ UNCHANGED <<shared, faults>> /\ Keep

Compare(p) ==
    /\ proc[p].pc = "compare"
    /\ Become(p, IF config = proc[p].document THEN [proc[p] EXCEPT !.pc = "replace"] ELSE Fresh)
    /\ UNCHANGED <<shared, faults>> /\ Keep

Replace(p) ==
    /\ proc[p].pc = "replace"
    /\ config' = proc[p].document \cup {proc[p].plan.request}
    /\ Become(p, Fresh)
    /\ UNCHANGED <<effects, lock, journal, latest, faults>> /\ Keep

(* The finally clause, when an exception leaves the run: the journal could *)
(* not be written, or the user interrupted it.  Effects and journal stay   *)
(* as they are.                                                            *)
Interrupt(p) ==
    /\ proc[p].pc \in Locked
    /\ crashes < MaxCrashes
    /\ crashes' = crashes + 1
    /\ Unlock(p)
    /\ Become(p, Fresh)
    /\ UNCHANGED <<config, effects, journal, latest, started, faults>>

(* The process is killed: nothing is released.                             *)
Crash(p) ==
    /\ proc[p].pc \notin Resting
    /\ crashes < MaxCrashes
    /\ crashes' = crashes + 1
    /\ Become(p, Fresh)
    /\ UNCHANGED <<shared, started, faults>>

(* Services that were started stop by themselves.                          *)
ServicesStop ==
    /\ effects \cap Detectable # {}
    /\ effects' = effects \ Detectable
    /\ UNCHANGED <<config, lock, journal, latest, proc, started, crashes, faults>>

-----------------------------------------------------------------------------
Init ==
    /\ config = {}
    /\ effects = {}
    /\ lock = NoSession
    /\ journal = [s \in Sessions |-> [plan |-> NoPlan, states |-> Untouched]]
    /\ latest = NoSession
    /\ proc = [p \in Processes |-> Fresh]
    /\ started = 0
    /\ crashes = 0
    /\ faults = 0

Step(p) ==
    \/ SelectLock(p) \/ InsertLock(p) \/ OpenSession(p)
    \/ EndLoop(p) \/ SkipVerified(p) \/ BeginAction(p)
    \/ ApplyAction(p) \/ ApplyFails(p) \/ RecordApplied(p)
    \/ VerifyAction(p) \/ VerifyFails(p) \/ FailAction(p)
    \/ EndCompensation(p) \/ BeginCompensation(p)
    \/ CompensateAction(p) \/ RecordCompensated(p) \/ CompensateFails(p)
    \/ ReleaseLock(p)
    \/ Finish(p) \/ Compare(p) \/ Replace(p)

Next ==
    \/ \E p \in Processes :
          \/ Detect(p)
          \/ \E r \in Requests : MakePlan(p, r)
          \/ \E detectAgain \in BOOLEAN : StartApply(p, detectAgain)
          \/ \E s \in Sessions : Resume(p, s)
          \/ Step(p)
          \/ Interrupt(p)
          \/ Crash(p)
    \/ ServicesStop

Spec == Init /\ [][Next]_vars

-----------------------------------------------------------------------------
Bases == [revision : SUBSET Requests, probed : SUBSET Detectable]
Plans == [request : Requests \cup {NoRequest}, basis : Bases]
Journal == [Sessions -> [plan : Plans, states : [ActionIds -> ActionState]]]

(* Type correctness of the shared state and of every service's memory.     *)
TypeOK ==
    /\ config \subseteq Requests
    /\ effects \subseteq Commands
    /\ lock \in Sessions \cup {NoSession}
    /\ journal \in Journal /\ latest \in Sessions \cup {NoSession}
    /\ \A p \in Processes :
           /\ proc[p].pc \in Resting \cup {"select", "insert"} \cup Locked
                            \cup {"executed", "compare", "replace"}
           /\ proc[p].plan \in Plans
           /\ proc[p].session \in Sessions \cup {NoSession}
           /\ proc[p].existing \in [ActionIds -> ActionState]
           /\ proc[p].results \in [ActionIds -> ActionState]
           /\ proc[p].applied \in Seq(ActionIds)
           /\ proc[p].index \in 1..(Len(PlannedActions(proc[p].plan.request)) + 1)
           /\ proc[p].document \subseteq Requests
    /\ started \in 0..MaxSessions /\ crashes \in 0..MaxCrashes /\ faults \in 0..MaxFaults

(* A verification is stale when the probe no longer sees what was started. *)
Stale(a) == a \in Detectable \ effects

(* A resumed session does not execute an action it has verified before,    *)
(* wherever the earlier run was interrupted, unless the verification has   *)
(* become stale; of stale verifications it says nothing.                   *)
VerifiedNotRepeated ==
    [][\A s \in Sessions, a \in ActionIds :
           journal[s].states[a] = "verified" /\ ~Stale(a) => journal'[s].states[a] # "running"]_vars

(* No side effect is in place that the journal knows nothing of: it is     *)
(* journaled before it is caused, and a crash at any moment, a command     *)
(* that fails half-way and a compensation leave a trace of it.             *)
EffectsJournaled ==
    \A a \in effects : \E s \in Sessions :
        journal[s].states[a] \notin {"pending", "compensated"}

(* Compensation goes backwards: whatever depends on an undone action has   *)
(* been undone, has failed or awaits manual recovery.                      *)
CompensatedFromTheEnd ==
    \A s \in Sessions :
        LET actions == Actions(journal[s].plan)
        IN  Opened(s) =>
            \A i, j \in 1..Len(actions) :
                i < j /\ journal[s].states[actions[i]] = "compensated" =>
                    journal[s].states[actions[j]] \notin {"running", "applied", "verified"}

(* The configuration names a request only if some session has verified     *)
(* every action of a plan made for it.                                     *)
ConfigVerified ==
    \A r \in config : \E s \in Sessions :
        /\ journal[s].plan.request = r
        /\ \A k \in 1..Len(PlannedActions(r)) :
               journal[s].states[PlannedActions(r)[k]] = "verified"

(* Only one run at a time is between acquiring and releasing the           *)
(* installation lock.                                                      *)
OneApplyRun ==
    \A p, q \in Processes : proc[p].pc \in Locked /\ proc[q].pc \in Locked => p = q
=============================================================================
