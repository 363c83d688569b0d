---------------------------- MODULE WorkflowPolicy ----------------------------
(***************************************************************************)
(* The policy of the workflow layer: who may use a tool (rbac.py), and     *)
(* what WorkflowPolicyEvaluator decides about a node that uses it          *)
(* (workflows/policy.py).  A tool is known by the fields of its            *)
(* ToolMetadata that the decision reads.                                   *)
(***************************************************************************)
EXTENDS Naturals

Roles == {"VIEWER", "ENGINEER", "OPERATOR", "ADMIN"}

Reading == {"devices:read", "knowledge:read", "tickets:read", "cicd:read",
            "repositories:read", "deployments:read"}
Working == {"devices:diagnose", "tickets:create", "tickets:update", "cicd:execute"}
Operating == {"devices:operate", "deployments:operate"}
Permissions == Reading \cup Working \cup Operating
                 \cup {"approvals:approve", "audit:read"}

\* ROLE_PERMISSIONS: each role holds what the weaker ones hold.
PermissionsOf(role) ==
    CASE role = "VIEWER"   -> Reading
      [] role = "ENGINEER" -> Reading \cup Working
      [] role = "OPERATOR" -> Reading \cup Working \cup Operating
      [] role = "ADMIN"    -> Permissions
      [] OTHER             -> {}

Risks == {"READ_ONLY", "LOW", "MEDIUM", "HIGH", "CRITICAL"}
HighRisk == {"HIGH", "CRITICAL"}

Metadata == [risk : Risks, requiresApproval : BOOLEAN, enabled : BOOLEAN,
             executable : BOOLEAN, requiredRoles : SUBSET Roles,
             permission : STRING]

\* _role_authorized: explicit roles replace the permission.
RoleAuthorized(role, m) ==
    IF m.requiredRoles # {}
    THEN role \in m.requiredRoles
    ELSE m.permission \in PermissionsOf(role)

\* _normalize_environment, after strip() and lower().
NormalizeEnvironment(env) ==
    CASE env \in {"development", "local", ""} -> "dev"
      [] env = "prod"                         -> "production"
      [] OTHER                                -> env

\* _environment_aware_operation_decision.  What is neither dev, staging nor
\* production, and a MEDIUM tool that requires approval in dev, needs approval.
OperationDecision(m, role, env) ==
    IF env = "dev" /\ m.risk = "HIGH" THEN "ALLOW"
    ELSE IF env \in {"staging", "production"} /\ m.risk = "CRITICAL" /\ role # "ADMIN"
         THEN "DENY"
    ELSE "ALLOW_WITH_APPROVAL"

\* _decision: the rules in the order in which they are tried.  `hasResource`:
\* the node's arguments name a resource (_resource is not None).
Decision(m, role, environment, phase, hasResource) ==
    LET env == NormalizeEnvironment(environment)
    IN  IF \/ phase = "execution" /\ ~m.executable
           \/ ~m.enabled
           \/ ~RoleAuthorized(role, m)
        THEN "DENY"
        ELSE IF env = "production" /\ m.risk \in HighRisk /\ ~hasResource
             THEN "REQUIRE_ADDITIONAL_CONTEXT"
        ELSE IF m.risk \in {"READ_ONLY", "LOW"} THEN "ALLOW"
        ELSE IF m.requiresApproval \/ m.risk \in HighRisk
             THEN OperationDecision(m, role, env)
        ELSE "ALLOW"

\* Mutant: a tool is only hidden if its target is unclear.
PermitsUnlessUnclear(decision) == decision # "REQUIRE_ADDITIONAL_CONTEXT"

Permits(decision) == decision \in {"ALLOW", "ALLOW_WITH_APPROVAL"}

\* transform_node_with_policy: what a decision does to a node's status, and
\* whether the node will wait for a person.
StatusUnder(decision, status) ==
    CASE decision = "DENY"                       -> "DENIED"
      [] decision = "REQUIRE_ADDITIONAL_CONTEXT" -> "BLOCKED"
      [] OTHER                                   -> status
NeedsApproval(decision) == decision = "ALLOW_WITH_APPROVAL"
===============================================================================
