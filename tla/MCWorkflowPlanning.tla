-------------------------- MODULE MCWorkflowPlanning --------------------------
\* A part of the registry (tool_registry.py, schemas.py, TOOL_RESOURCE_MAP) and
\* the requests and proposals for which TLC follows the planning.
EXTENDS WorkflowPlanning

Staff == {"ENGINEER", "OPERATOR", "ADMIN"}
Tool(risk, approval, roles, permission) ==
    [risk |-> risk, requiresApproval |-> approval, enabled |-> TRUE, executable |-> TRUE,
     requiredRoles |-> roles, permission |-> permission]

MCMeta ==
    [t \in {"get_build_status", "get_failed_jobs", "get_pipeline_logs", "get_recent_commits"} |->
        Tool("READ_ONLY", FALSE, Staff, "cicd:read")]
    @@ [t \in {"get_device_services", "get_recent_errors", "get_service_health"} |->
        Tool("READ_ONLY", FALSE, {}, "devices:read")]
    @@ "search_documentation" :> Tool("READ_ONLY", FALSE, Roles, "knowledge:read")
    @@ "analyze_build_failure" :> Tool("MEDIUM", FALSE, Staff, "cicd:read")
    @@ "rerun_build" :> Tool("MEDIUM", FALSE, Staff, "cicd:execute")
    @@ "run_tests" :> Tool("MEDIUM", FALSE, Staff, "cicd:execute")
    @@ "create_issue" :> Tool("MEDIUM", FALSE, Staff, "tickets:create")
    @@ "create_ticket" :> Tool("MEDIUM", FALSE, {}, "tickets:create")
    @@ "deploy_staging" :> Tool("HIGH", TRUE, Staff, "deployments:operate")
    @@ "restart_service" :> Tool("HIGH", TRUE, {}, "devices:operate")
    @@ "delete_bad_deployment" :> Tool("CRITICAL", TRUE, Staff, "deployments:operate")
    @@ "get_commit_details" :> [Tool("READ_ONLY", FALSE, Staff, "repositories:read")
                                  EXCEPT !.enabled = FALSE]

Tools == DOMAIN MCMeta
MCSchemaless == {"search_documentation", "deploy_staging", "delete_bad_deployment"}
Table(default, special) == [t \in Tools |-> IF t \in DOMAIN special THEN special[t] ELSE default]

MCRequired ==
    Table({}, "get_failed_jobs" :> {"run_id"} @@ "rerun_build" :> {"run_id"}
           @@ "get_pipeline_logs" :> {"job_id"} @@ "get_commit_details" :> {"sha"}
           @@ "create_issue" :> {"title"} @@ "create_ticket" :> {"device_id", "title", "priority"}
           @@ "get_device_services" :> {"device_id"} @@ "get_recent_errors" :> {"device_id"}
           @@ "get_service_health" :> {"device_id", "service_name"}
           @@ "restart_service" :> {"device_id", "service_name", "reason", "approval_token"})
MCProperties ==
    [t \in Tools |->
       CASE t \in MCSchemaless -> {"query"}
         [] t = "analyze_build_failure" -> {"repository", "logs"}
         [] t \in {"run_tests", "rerun_build"} -> {"repository", "reason"} \cup MCRequired[t]
         [] MCMeta[t].requiredRoles = {} -> MCRequired[t]
         [] OTHER -> {"repository"} \cup MCRequired[t]]
MCListed == Tools \ (MCSchemaless \cup {"get_service_health"})
MCFixed == Table({}, "run_tests" :> {"reason"} @@ "rerun_build" :> {"reason"}
                  @@ "analyze_build_failure" :> {"logs"} @@ "create_issue" :> {"title"}
                  @@ "create_ticket" :> {"title", "priority"} @@ "restart_service" :> {"reason"})
MCDemoFixed == Table({}, "get_failed_jobs" :> {"run_id"} @@ "get_pipeline_logs" :> {"job_id"}
                  @@ "rerun_build" :> {"run_id"} @@ "get_commit_details" :> {"sha"})
MCLocated == {"repository", "device_id"}
MCRuntimeBound == {"run_id", "job_id", "sha", "service_name"}
MCResourceFields == {"device_id", "service_name", "repository"}
MCSuggests == {<<"get_build_status", "run_id">>, <<"failed_jobs", "job_id">>}
MCReruns == {"rerun_build"}
MCPositional == (0 :> "node_0") @@ (1 :> "node_1") @@ (2 :> "node_2")
                  @@ (3 :> "node_3") @@ (4 :> "node_4") @@ (5 :> "node_5") @@ (6 :> "node_6")
MCSuffixed == "get_build_status" :> "get_build_status_node"

\* document_capabilities of these tools.
MCOffers ==
    Table({"build"}, "get_pipeline_logs" :> {"build", "logs"}
           @@ "analyze_build_failure" :> {"build", "logs", "diagnostics"}
           @@ "get_recent_commits" :> {"repository"}
           @@ "get_device_services" :> {"device", "diagnostics", "operation"}
           @@ "get_recent_errors" :> {"device", "diagnostics", "logs"}
           @@ "get_service_health" :> {"device", "diagnostics", "logs"}
           @@ "restart_service" :> {"device", "diagnostics", "operation"}
           @@ "search_documentation" :> {"documentation"}
           @@ "create_issue" :> {"ticket"} @@ "create_ticket" :> {"ticket"}
           @@ "rerun_build" :> {"build", "operation"} @@ "run_tests" :> {"build", "testing"}
           @@ "delete_bad_deployment" :> {"build", "deployment", "operation"})
MCCapabilityOrder ==
    <<"build", "deployment", "device", "diagnostics", "documentation", "logs",
      "operation", "repository", "testing", "ticket">>

Edge(tool, source, dest, cost, target) ==
    [tool |-> tool, source |-> source, dest |-> dest, cost |-> cost, server |-> "cicd-mcp",
     outside |-> FALSE, target |-> target]
MCEdges ==
    <<Edge("analyze_build_failure", "build_logs", "failure_analysis", 150, FALSE),
      Edge("create_ticket", "failure_analysis", "ticket", 120, TRUE),
      Edge("deploy_staging", "test_result", "staging_environment", 300, TRUE),
      Edge("get_build_status", "repository", "build_pipeline", 100, FALSE),
      Edge("get_failed_jobs", "build_pipeline", "failed_build", 100, FALSE),
      Edge("get_pipeline_logs", "failed_build", "build_logs", 100, FALSE),
      Edge("rerun_build", "failure_analysis", "build_pipeline", 200, FALSE),
      Edge("run_tests", "repository", "test_result", 200, FALSE),
      \* tools whose metadata declare the resources they join
      Edge("deploy_staging", "repository", "build_logs", 100, FALSE),
      [Edge("run_tests", "repository", "failed_build", 150, FALSE) EXCEPT !.server = "ci", !.outside = TRUE]>>

-------------------------------------------------------------------------------
\* The requests: what each asks for and which planner answers it.
Ask(role, env, topK, kind, planner, known, words) ==
    [role |-> role, env |-> env, topK |-> topK, planner |-> planner, known |-> known,
     words |-> words, kind |-> kind,
     intents |-> CASE kind = "build"  -> {"investigate_failure"}
                   [] kind = "ticket" -> {"diagnose_issue", "create_record"}
                   [] OTHER           -> {"execute_operation"},
     capabilities |-> CASE kind = "build" -> {"build"} \cup {"ticket" : w \in words}
                        [] kind = "ticket" -> {"device"} [] OTHER -> {"operation"},
     source |-> IF kind \in {"ticket", "restart"} THEN "device" ELSE "repository",
     goal |-> CASE words # {} -> "ticket" [] kind = "deploy" -> "staging_environment"
                [] OTHER -> "build_logs"]

BuiltInRequests ==
    {Ask(role, env, topK, kind, "built-in", known, words) :
       role \in {"ENGINEER", "OPERATOR"}, env \in {"dev", "prod"}, topK \in {2, 4},
       kind \in {"build", "deploy", "restart"}, known \in {{}, {"device_id"}}, words \in {{}, {"issue"}}}
ModelRequests ==
    {Ask(role, env, 4, kind, "model", known, {}) :
       role \in {"VIEWER", "ENGINEER", "ADMIN"}, env \in {"staging", "production"},
       kind \in {"build", "restart"}, known \in {{"repository"}, {"device_id", "service_name"}}}
MCRequests == BuiltInRequests \cup ModelRequests

Family(r) ==
    CASE r.kind = "build"   -> {"get_build_status", "get_pipeline_logs", "analyze_build_failure",
                                "create_issue", "delete_bad_deployment"}
      [] r.kind = "restart" -> {"get_recent_errors", "get_service_health", "restart_service",
                                "delete_bad_deployment", "rerun_build"}
      [] OTHER              -> {"get_build_status", "run_tests", "deploy_staging", "rerun_build"}
MCRankings(r) ==
    IF r.planner = "built-in" THEN SetToSeqs(Family(r))
    ELSE IF r.kind = "build" THEN {<<"get_build_status", "get_failed_jobs", "rerun_build", "create_issue">>}
    ELSE {<<"restart_service", "get_service_health", "get_recent_errors", "delete_bad_deployment">>}
MCAdditions(r) ==
    {<<>>} \cup (IF r.planner = "built-in" THEN {<<"search_documentation">>} ELSE {})

-------------------------------------------------------------------------------
\* What a language model may answer.
Raw(id, tool, deps, args, cond, text) ==
    [id |-> id, tool |-> tool, deps |-> deps, args |-> args, cond |-> cond, text |-> text]
NoArgs == [f \in {} |-> f]
Ref(f, source) == f :> [kind |-> "ref", source |-> source]
Value(f, kind) == f :> [kind |-> kind, source |-> NoName]

\* Any graph over three nodes, whose third node takes a value from the second.
Graphs ==
    LET names == <<"get_build_status", "failed_jobs", "c">>
        deps == {SelectSeq(names, LAMBDA n : n \in S) : S \in SUBSET ToSet(names)}
    IN  {<<Raw(NoName, "get_build_status", d1, NoArgs, NoName, FALSE),
           Raw("failed_jobs", "get_failed_jobs", d2, NoArgs, NoName, FALSE),
           Raw("c", "create_issue", d3, NoArgs, "failed_jobs", FALSE)>> :
         d1 \in deps, d2 \in deps, d3 \in deps}
\* Nodes that call one another by all sorts of names.
Names ==
    LET called == {"a", "b", "node_0", "node_1", "get_build_status", "get_build_status_node", "ghost"}
    IN  {<<Raw(id1, "get_build_status", <<>>, NoArgs, NoName, FALSE),
           Raw(id2, "rerun_build", IF dep = "none" THEN <<>> ELSE <<dep>>,
               args, cond, text)>> :
         id1 \in {NoName, "a", "node_2"}, id2 \in {NoName, "a", "b", "node_1"},
         dep \in called \cup {"none"}, cond \in {NoName, "a", "node_1"}, text \in BOOLEAN,
         args \in {NoArgs, Ref("run_id", "a"), Ref("run_id", "node_1"),
                   Value("run_id", "given"), Value("run_id", "demo"), Value("query", "given")}}
\* Tools that were offered or not, with and without their arguments.
ToolChoices ==
    LET args == {NoArgs, Value("service_name", "given"), Value("device_id", "unsafe"), Value("device_id", "given")}
        one(t, a) == Raw(NoName, t, <<>>, a, NoName, FALSE)
    IN  {<<one("get_recent_errors", a), one(t, b)>> :
           t \in Tools \cup {"drop_database"}, a \in args, b \in args}
\* Proposals at the limits of the schema and of the validator.
Crowds ==
    {[i \in 1 .. n |-> Raw(MCPositional[i], "get_build_status",
                           IF linked THEN SubSeq(<<"node_1", "node_2", "node_3", "node_4", "node_5">>, 1, i - 1)
                           ELSE <<>>, NoArgs, NoName, FALSE)] :
     n \in {0, 5, 6}, linked \in BOOLEAN}
MCProposals(r) == IF r.kind = "build" THEN Graphs \cup Names \cup Crowds ELSE ToolChoices
===============================================================================
