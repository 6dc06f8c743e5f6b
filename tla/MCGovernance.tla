---------------------------- MODULE MCGovernance ----------------------------
(***************************************************************************)
(* Governance of a workspace, one subject per behaviour: leases on an      *)
(* item, changes proposed to it, the audit ledger, access, emergency       *)
(* access.                                                                 *)
(***************************************************************************)
EXTENDS Governance, AuditLedger, Access, TLC

VARIABLE subject

vars == <<governanceVars, auditVars, accessVars, subject>>

MCScopes == {<<"tenant">>, <<"tenant", "program">>}

Init ==
    /\ GovernanceInit /\ AuditInit /\ AccessInit
    /\ subject \in {"leases", "proposals", "audit", "access", "emergency"}

Next ==
    \/ subject = "leases" /\ LeaseNext /\ UNCHANGED <<auditVars, accessVars, subject>>
    \/ subject = "proposals" /\ ProposalNext /\ UNCHANGED <<auditVars, accessVars, subject>>
    \/ subject = "audit" /\ AuditNext /\ UNCHANGED <<governanceVars, accessVars, subject>>
    \/ subject = "access" /\ AccessNext /\ UNCHANGED <<governanceVars, auditVars, subject>>
    \/ subject = "emergency" /\ EmergencyNext /\ UNCHANGED <<governanceVars, auditVars, subject>>

Symmetry == Permutations(Actors)

Spec == Init /\ [][Next]_vars
=============================================================================
