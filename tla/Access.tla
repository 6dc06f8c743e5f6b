------------------------------- MODULE Access -------------------------------
(***************************************************************************)
(* Who may do what: sessions (application/identity.py and its PostgreSQL   *)
(* store), resource-scoped grants and denies and separation of duties      *)
(* (domain/authorization.py), and break-glass invocations                  *)
(* (domain/emergency.py).  Administration changes grants, denies and       *)
(* sessions between a login and the requests made with it.                 *)
(***************************************************************************)
EXTENDS Naturals, Sequences, FiniteSets

CONSTANTS
    Users,          \* actor_id
    Scopes,         \* ResourceScopes: paths of resource ids from the tenant down
    GrantableRoles, \* the roles administration hands out
    Operations,     \* the permissions requests ask for
    Nobody,         \* no claimant, no configurer: None
    SessionTerm,    \* lifetime of a session
    Day,            \* 24 hours in clock ticks
    MaxRoleRevision, \* bound: role revisions an identity is stored with
    MaxGrants,      \* bound: grants and denies in force
    MaxInvocations, \* bound: break-glass invocations
    MaxHours        \* bound: clock

VARIABLES
    grants,         \* RoleGrants
    denies,         \* DenyRules
    roleRevision,   \* the role revision the user's identity is stored with
    session,        \* the user's latest session, or NoSession
    invocations,    \* break-glass grants issued: when, to whom
    hours           \* now

\* A scope is a path from the tenant down; a day and a session have a length.
ASSUME AccessAssumption ==
    /\ \A s \in Scopes : s \in Seq(STRING) /\ s # << >>
    /\ Day \in Nat /\ SessionTerm \in Nat
    /\ Nobody \notin Users

accessVars == <<grants, denies, roleRevision, session, invocations, hours>>

NoSession == [live |-> FALSE, expires |-> 0, revoked |-> FALSE, revision |-> 0]

-----------------------------------------------------------------------------
(* Authorization. *)

Everything == {"work_item.claim", "decision.create", "connection.reconnect",
               "policy.manage", "program.delete", "connection.configure", "user.assign_role"}

\* _ROLE_PERMISSIONS, for the permissions the rules below tell apart.
RolePermissions ==
    [viewer |-> {}, builder |-> {"work_item.claim", "decision.create"},
     coordinator |-> {"work_item.claim"}, operator |-> {"connection.reconnect"},
     policy_administrator |-> {"policy.manage"}, tenant_administrator |-> Everything]

\* Containment the wrong way round.
ContainedIn(outer, inner) ==
    Len(inner) <= Len(outer) /\ SubSeq(outer, 1, Len(inner)) = inner

\* ResourceScope.contains: a prefix of the path.
Contains(outer, inner) ==
    Len(outer) <= Len(inner) /\ SubSeq(inner, 1, Len(outer)) = outer

\* authorize: explicit deny, then explicit grant, then deny by default.
Authorized(user, operation, scope) ==
    /\ ~\E d \in denies : d.user = user /\ d.operation = operation /\ Contains(d.scope, scope)
    /\ \E g \in grants : /\ g.user = user /\ Contains(g.scope, scope)
                         /\ operation \in RolePermissions[g.role]

FourEyes == {"program.delete", "connection.configure", "user.assign_role"}

\* evaluate_separation_of_duties; an item nobody claimed and a connection nobody
\* is known to have configured ask for no second person.
Separation(operation, user, approvers, claimant, configurer) ==
    /\ operation = "decision.create" /\ claimant # Nobody => ~(approvers \subseteq {claimant})
    /\ operation = "connection.reconnect" /\ configurer # Nobody => ~(approvers \subseteq {configurer})
    /\ operation \in FourEyes => approvers \ {user} # {}

\* validate_session.
SessionValid(user) ==
    /\ session[user].live
    /\ ~session[user].revoked /\ hours < session[user].expires
    /\ session[user].revision = roleRevision[user]

-----------------------------------------------------------------------------
AccessInit ==
    /\ grants = {} /\ denies = {}
    /\ roleRevision = [u \in Users |-> 1]
    /\ session = [u \in Users |-> NoSession]
    /\ invocations = {}
    /\ hours = Day

\* put_session for a new session of the user, with its current role revision.
Login(user) ==
    /\ session' = [session EXCEPT ![user] =
          [live |-> TRUE, expires |-> hours + SessionTerm, revoked |-> FALSE, revision |-> roleRevision[user]]]
    /\ UNCHANGED <<grants, denies, roleRevision, invocations, hours>>

\* revoke_session.
Revoke(user) ==
    /\ session[user].live /\ ~session[user].revoked
    /\ session' = [session EXCEPT ![user].revoked = TRUE]
    /\ UNCHANGED <<grants, denies, roleRevision, invocations, hours>>

\* put_role_grant: grants are only added, and the user's role revision stays.
GrantRole(user, role, scope) ==
    /\ Cardinality(grants) < MaxGrants
    /\ grants' = grants \cup {[user |-> user, role |-> role, scope |-> scope]}
    /\ UNCHANGED <<denies, roleRevision, session, invocations, hours>>

\* put_local_identity: the identity is stored with the revision of the record,
\* newer or older than the stored one.
StoreIdentity(user, revision) ==
    /\ roleRevision' = [roleRevision EXCEPT ![user] = revision]
    /\ UNCHANGED <<grants, denies, session, invocations, hours>>

\* A DenyRule comes into force; denies are read at every request.
AddDeny(user, operation, scope) ==
    /\ Cardinality(denies) < MaxGrants
    /\ denies' = denies \cup {[user |-> user, operation |-> operation, scope |-> scope]}
    /\ UNCHANGED <<grants, roleRevision, session, invocations, hours>>

\* A request: the session, the permission on the resource, the approvals.
Permitted(user, operation, scope, approvers, claimant, configurer) ==
    /\ SessionValid(user)
    /\ Authorized(user, operation, scope)
    /\ Separation(operation, user, approvers, claimant, configurer)

\* authorize_break_glass counting only what is later than the cutoff.
RecentStrictly(user) ==
    {i \in invocations : i.user = user /\ i.at > hours - Day}

\* authorize_break_glass: recent invocations.
Recent(user) == {i \in invocations : i.user = user /\ i.at >= hours - Day}

\* authorize_break_glass for a request that is strongly authenticated, confirmed
\* and for a permission that may be granted.
BreakGlass(user) ==
    /\ Cardinality(invocations) < MaxInvocations
    /\ Cardinality(Recent(user)) < 2
    /\ invocations' = invocations \cup {[user |-> user, at |-> hours, n |-> Cardinality(invocations)]}
    /\ UNCHANGED <<grants, denies, roleRevision, session, hours>>

AccessTick ==
    /\ hours < MaxHours
    /\ hours' = hours + 1
    /\ UNCHANGED <<grants, denies, roleRevision, session, invocations>>

AccessNext ==
    \/ \E u \in Users : Login(u) \/ Revoke(u)
    \/ \E u \in Users, r \in GrantableRoles, s \in Scopes : GrantRole(u, r, s)
    \/ \E u \in Users, n \in 1..MaxRoleRevision : StoreIdentity(u, n)
    \/ \E u \in Users, o \in Operations, s \in Scopes : AddDeny(u, o, s)
    \/ AccessTick

\* Emergency access does not depend on sessions or grants.
EmergencyNext == AccessTick \/ \E u \in Users : BreakGlass(u)

\* Administration, requests and emergencies at once.
AccessSpec == AccessInit /\ [][AccessNext \/ EmergencyNext]_accessVars

-----------------------------------------------------------------------------
Ancestors(scope) == {SubSeq(scope, 1, n) : n \in 1..Len(scope)}

\* The user's session and grants allow the operation; who approves is another
\* matter.
Open(user, operation, scope) == SessionValid(user) /\ Authorized(user, operation, scope)

\* What is permitted is permitted under a session that was neither revoked nor
\* outlived, by a grant on the resource or above it, and under no deny on the
\* resource or above it: neither a late grant nor a stale session gets past a deny.
AccessJustified ==
    \A u \in Users, o \in Operations, s \in Scopes :
        Open(u, o, s) =>
            /\ session[u].live /\ ~session[u].revoked /\ hours < session[u].expires
            /\ \E g \in grants : g.user = u /\ g.scope \in Ancestors(s)
            /\ ~\E d \in denies : d.user = u /\ d.operation = o /\ d.scope \in Ancestors(s)

\* Where access is open it opened by one of three steps and no other: the user
\* logged in, its identity was stored with another role revision, or it was given
\* a role at or above the resource.  Time, revocations, denies and whatever is
\* done for other users or elsewhere in the tree open nothing.
AccessOpens ==
    [][\A u \in Users, o \in Operations, s \in Scopes :
          ~Open(u, o, s) /\ Open(u, o, s)' =>
             \/ session'[u] # session[u] /\ session'[u].expires = hours + SessionTerm
             \/ roleRevision'[u] # roleRevision[u]
             \/ \E g \in grants' \ grants :
                   g.user = u /\ g.scope \in Ancestors(s) /\ o \in RolePermissions[g.role]]_accessVars

\* The one whose work or request an operation judges, if anybody is known.
Judged(user, operation, claimant, configurer) ==
    CASE operation = "decision.create" -> claimant
      [] operation = "connection.reconnect" -> configurer
      [] OTHER -> user

\* Every sensitive operation that judges somebody has an approver besides the one
\* it judges; no approver at all is not enough.
SecondPerson ==
    \A u \in Users, s \in Scopes, o \in {"decision.create", "connection.reconnect"} \cup FourEyes :
        Open(u, o, s) =>
            \A a \in SUBSET Users, c, k \in Users \cup {Nobody} :
                Permitted(u, o, s, a, c, k) /\ Judged(u, o, c, k) # Nobody
                    => a \ {Judged(u, o, c, k)} # {}

\* No user is granted a third emergency access within 24 hours of the first,
\* to the instant: three invocations span more than a day.
BreakGlassLimited ==
    \A i, j, k \in invocations :
        (i.user = j.user /\ j.user = k.user /\ i.n < j.n /\ j.n < k.n) => k.at > i.at + Day

\* Nothing is permitted without a live session, a grant in force and, where it
\* judges somebody, a second person, and nothing becomes permitted by what was
\* done for others (validate_session, authorize, evaluate_separation_of_duties).
PermittedForAReason == [](AccessJustified /\ SecondPerson) /\ AccessOpens
=============================================================================
