----------------------------- MODULE Identities -----------------------------
(* Who may do what in the bundled demonstration: the identity provider       *)
(* (app/security/identity.py), how three identities are resolved into one    *)
(* (app/control/authorization.py), and the registry of tools with what it    *)
(* shows to an agent (app/actions/registry.py).                              *)
EXTENDS FiniteSets

risk_order == [NONE |-> 0, LOW |-> 1, MEDIUM |-> 2, HIGH |-> 3, CRITICAL |-> 4]

Desk == {"customer:read", "discount:apply", "notification:send"}
High == {"discount:apply:high", "discount:revoke"}

UserIdentity(perms, roles, scope, department, admin) ==
    [perms |-> perms, roles |-> roles, scope |-> scope, department |-> department, admin |-> admin]
Users ==
    [user_001    |-> UserIdentity(Desk, {"cs_agent"}, "department", "cs_north", FALSE),
     manager_001 |-> UserIdentity(Desk \cup High, {"cs_agent", "cs_manager"}, "department", "cs_north", FALSE),
     admin_001   |-> UserIdentity(Desk \cup High \cup {"refund:issue"}, {"admin"}, "*", "hq", TRUE)]

AgentIdentity(perms, tools, max) == [perms |-> perms, tools |-> tools, max |-> max]
Agents ==
    [discount_agent |-> AgentIdentity(Desk \cup {"discount:apply:high"},
                            {"query_customer", "apply_discount", "send_notification"}, "HIGH"),
     readonly_agent |-> AgentIdentity({"customer:read"}, {"query_customer"}, "LOW")]

ServiceIdentity(perms, readonly) == [perms |-> perms, readonly |-> readonly]
Services ==
    [crm_service          |-> ServiceIdentity({"customer:read"}, TRUE),
     billing_service      |-> ServiceIdentity({"discount:apply"} \cup High, FALSE),
     notification_service |-> ServiceIdentity({"notification:send"}, FALSE)]

(* Somebody unknown is somebody who may do nothing, not an error.            *)
get_user(id) ==
    IF id \in DOMAIN Users THEN Users[id] ELSE UserIdentity({}, {}, "none", "default", FALSE)
get_agent(id) == IF id \in DOMAIN Agents THEN Agents[id] ELSE AgentIdentity({}, {}, "NONE")
get_service(id) == IF id \in DOMAIN Services THEN Services[id] ELSE ServiceIdentity({}, TRUE)

(* A service that is not named takes no part in the intersection.            *)
NoService == ""
ResolvedIdentity(user, agent, service) == [user |-> user, agent |-> agent, service |-> service]
effective_permissions(who) ==
    LET both == get_user(who.user).perms \cap get_agent(who.agent).perms
    IN  IF who.service = NoService THEN both ELSE both \cap get_service(who.service).perms
missing_permissions(who, required) == required \ effective_permissions(who)
with_service(who, service) == [who EXCEPT !.service = service]

-----------------------------------------------------------------------------
(* Tools, and the registry: a function from the names that are registered.   *)

AgentTool(risk, perms, type, idempotent, compensates, service) ==
    [risk |-> risk, perms |-> perms, type |-> type, idempotent |-> idempotent,
     compensates |-> compensates, service |-> service, typed |-> TRUE]
BuiltinTools ==
    [query_customer    |-> AgentTool("NONE", {"customer:read"}, "READ", TRUE, FALSE, "crm_service"),
     apply_discount    |-> AgentTool("MEDIUM", {"discount:apply"}, "WRITE", TRUE, TRUE, "billing_service"),
     send_notification |-> AgentTool("MEDIUM", {"notification:send"}, "NOTIFY", TRUE, FALSE,
                                     "notification_service")]

Refused(registry, name, tool, override) ==
    \/ name = "" \/ ~tool.typed
    \/ name \in DOMAIN registry /\ ~override
    \/ tool.type \in {"WRITE", "NOTIFY"} /\ ~tool.idempotent
register(registry, name, tool, override) ==
    IF Refused(registry, name, tool, override) THEN registry
    ELSE [n \in DOMAIN registry \cup {name} |-> IF n = name THEN tool ELSE registry[n]]

visible_to_agent(registry, agent) == DOMAIN registry \cap get_agent(agent).tools

\* With the identity that was passed: the service of the tool itself does not count.
callable_by(registry, who) ==
    {t \in visible_to_agent(registry, who.agent) : missing_permissions(who, registry[t].perms) = {}}

\* What ToolPermissionPolicy asks for: the intersection with the service of the tool.
Permitted(registry, who) ==
    {t \in visible_to_agent(registry, who.agent) :
        missing_permissions(with_service(who, registry[t].service), registry[t].perms) = {}}
=============================================================================
