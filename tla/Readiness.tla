------------------------------ MODULE Readiness ------------------------------
(***************************************************************************)
(* What the Setup Center reports (application/setup/readiness.py, status   *)
(* in service.py): per capability the worst of its checks, corrected by    *)
(* the states of its required actions in the session updated last.  The    *)
(* probes see the services; tools, identity and the shell's variables are  *)
(* an environment Setup does not change, so the report is a function of    *)
(* it.                                                                     *)
(***************************************************************************)
EXTENDS Setup

Capabilities == {"local_runtime", "github_integration", "release_certification", "production_cutover"}

CheckOrder == [not_required |-> 0, ready |-> 1, repairable |-> 2, needs_input |-> 3, blocked |-> 4]
Worst(states) == CHOOSE s \in states : \A t \in states : CheckOrder[t] <= CheckOrder[s]

(* The worst of the tools: one that is missing blocks if it is required    *)
(* and can be repaired otherwise.                                          *)
ToolStates == {"ready", "repairable", "blocked"}

(* gh: not logged in, logged in, or not to be understood.                  *)
IdentityStates == {"ready", "needs_input", "blocked"}

(* Old variables in the shell can be cleared.                              *)
LegacyStates == {"ready", "repairable"}

(* What the probes may find besides the services.                          *)
Environments == [tools : ToolStates, identity : IdentityStates, legacy : LegacyStates]

(* _service: whether the ports answer.                                     *)
ServiceCheck == IF "services.local.start" \in effects THEN "ready" ELSE "repairable"

(* _config_check: configured is not yet verified.                          *)
ConfigCheck(inputs) ==
    IF inputs \subseteq UNION {r.desired : r \in config} THEN "repairable" ELSE "needs_input"

DevelopmentChecks(env) ==
    [local_runtime |-> {env.tools, env.legacy, ServiceCheck}, github_integration |-> {env.identity},
     release_certification |-> {"not_required"}, production_cutover |-> {"not_required"}]

(* detect in production: configuration instead of identity and services.   *)
ProductionChecks(env) ==
    [local_runtime |-> {env.tools, env.legacy, ConfigCheck({"services"})},
     github_integration |-> {ConfigCheck({"github_repository", "github_app"})},
     release_certification |-> {ConfigCheck({"release"})},
     production_cutover |-> {ConfigCheck({"cutover"})}]

Checks(profile, env) ==
    IF profile = "development" THEN DevelopmentChecks(env) ELSE ProductionChecks(env)

(* _REQUIRED_ACTIONS.                                                      *)
RequiredActions ==
    [development |-> [local_runtime |-> {"services.local.start", "database.migrate",
                                         "storage.verify", "checks.fast"},
                      github_integration |-> {"github.reference"},
                      release_certification |-> {}, production_cutover |-> {}],
     production |-> [local_runtime |-> {"services.external.verify", "checks.fast"},
                     github_integration |-> {"github.app.verify"},
                     release_certification |-> {"release.prepare"},
                     production_cutover |-> {"cutover.prepare"}]]

(* _apply_execution_state: a failed action blocks; checks that are ready   *)
(* or can be repaired are ready if all actions are verified.               *)
ApplyExecutionState(required, detected, results) ==
    CASE required = {} -> detected
      [] \E a \in required : results[a] \in {"failed", "manual_recovery_required"} -> "blocked"
      [] detected \in {"ready", "repairable"} /\ (\A a \in required : results[a] = "verified") -> "ready"
      [] OTHER -> detected

(* derive_capability_reports.                                              *)
CapabilityState(profile, capability, env, results) ==
    ApplyExecutionState(RequiredActions[profile][capability],
                        Worst(Checks(profile, env)[capability]), results)

(* Mutant: the session that was started first.                             *)
StatusSessionFirst == IF Opened(1) THEN 1 ELSE NoSession

(* latest_session_id.                                                      *)
StatusSession == latest

(* status: the results of that session, if it was planned for the profile. *)
StatusResults(profile) ==
    IF StatusSession # NoSession /\ journal[StatusSession].plan.request.profile = profile
    THEN journal[StatusSession].states
    ELSE Untouched

-----------------------------------------------------------------------------
(* The environments in which status calls the development runtime ready.   *)
ReadyIn ==
    {env \in Environments :
        CapabilityState("development", "local_runtime", env, StatusResults("development")) = "ready"}

(* The Setup Center never takes the services down, or leaves them half     *)
(* down, under a report that calls them ready, although the report trusts  *)
(* the journal over the probe and an earlier session may have verified     *)
(* them.  Of services that stop by themselves it says nothing.             *)
NoStopUnderReady ==
    [][\A a \in Detectable \cap effects :
          a \notin effects' /\ proc' # proc => ReadyIn' = {}]_vars

(* Journal, machine, configuration and report agree at every moment of a   *)
(* run, a crash, an interruption and a resumption (execution.py,           *)
(* service.py, readiness.py).                                              *)
JournalAccounts == []EffectsJournaled /\ []ConfigVerified /\ NoStopUnderReady
=============================================================================
