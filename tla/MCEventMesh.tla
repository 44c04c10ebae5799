----------------------------- MODULE MCEventMesh -----------------------------
(* Small instances of EventMesh for TLC, with names of the event catalog.  *)
EXTENDS EventMesh, TLC

UserRegistered == <<"workspace", "auth", "user", "registered">>
AccountClaimed == <<"workspace", "auth", "account", "claimed">>
RoleAssigned   == <<"workspace", "identity", "role", "assigned">>
RoleAssignedV2 == <<"workspace", "identity", "role", "assigned", "v2">>
Erasure        == <<"workspace", "profiles", "erasure", "requested">>

Everything == <<"workspace", Wildcard>>
Identity   == <<"workspace", "identity", Wildcard>>

\* The first has an exact subscriber, the second only wildcards.
MCEventTypes == {UserRegistered, RoleAssigned}

Subscription(n, ps, q, pr) ==
  [name |-> n, patterns |-> ps, queues |-> {q}, priority |-> pr]

\* What apps/worker registers.
WorkerSubscriptions ==
  {Subscription("audit", {Everything}, "AUDIT_EVENTS", "background"),
   Subscription("notifications", {UserRegistered, RoleAssignedV2}, "NOTIFICATIONS_EVENTS", "standard"),
   Subscription("profiles", {AccountClaimed, UserRegistered}, "PROFILES_EVENTS", "standard"),
   Subscription("auth", {Erasure}, "AUTH_EVENTS", "standard")}

\* With a further module as in the tests of the compiler: it shares the
\* wildcard of the audit and claims a longer one.
MCSubscriptions ==
  {s \in WorkerSubscriptions : s.name \in {"audit", "notifications"}}
    \union {Subscription("critical", {Everything, Identity}, "CRITICAL_EVENTS", "critical")}

MCStems == {}

\* Both catalogs are ones in which the registry and the table agree.
ASSUME CatalogAssumption == PlainCatalog

Symmetry == Permutations(Runners)
=============================================================================
