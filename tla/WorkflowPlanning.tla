--------------------------- MODULE WorkflowPlanning ---------------------------
(***************************************************************************)
(* WorkflowPlanningService.plan (workflows/service.py): one request on its *)
(* way from discovery through the planner, the validator and the policy to *)
(* a stored workflow.  Text is abstracted to what the code finds in it; a  *)
(* language model may answer anything in Proposals.                        *)
(***************************************************************************)
EXTENDS WorkflowPolicy, Sequences, SequencesExt, FiniteSets

CONSTANTS
    Meta, Offers, CapabilityOrder,                     \* see ToolDiscovery
    Edges, Infinity,                                   \* see CapabilityGraph
    Properties, Required, Listed, Fixed, DemoFixed, Located, RuntimeBound,
    Suggests, Reruns, Positional, Suffixed, NoName,    \* see WorkflowPlanner
    Schemaless, Unfit, MaxNodes, MaxEdges,             \* see WorkflowValidator
    ResourceFields,    \* the arguments _resource looks at
    DraftNodes,        \* how many nodes a PlannerDecision may have
    Requests,          \* what may be asked
    Rankings(_),       \* request -> the rankings a search may yield
    Additions(_),      \* request -> tools the retrieved knowledge may suggest
    Proposals(_)       \* request -> what the language model may answer

VARIABLES
    stage,      \* how far the request has come
    req,        \* the request
    tools,      \* the tools found so far, in order
    draft,      \* what the planner proposed, compiled
    plan        \* the nodes of the stored workflow, with their governance

vars == <<stage, req, tools, draft, plan>>

Disc == INSTANCE ToolDiscovery
Graph == INSTANCE CapabilityGraph
Planner == INSTANCE WorkflowPlanner
Validator == INSTANCE WorkflowValidator WITH NoNode <- NoName

NoDraft == [nodes |-> <<>>, edges |-> {}]

Init ==
    /\ stage = "received"
    /\ req \in Requests
    /\ tools = <<>>
    /\ draft = NoDraft
    /\ plan = <<>>

\* retrieve(): whatever index answers, the roles are checked here.
Discover ==
    /\ stage = "received"
    /\ \E ranking \in Rankings(req) :
         tools' = Disc!Retrieve(ranking, req.role, req.topK, req.intents, req.capabilities)
    /\ stage' = "discovered"
    /\ UNCHANGED <<req, draft, plan>>

\* _augment_tools_from_knowledge: at most three tools that the knowledge speaks of.
Augment ==
    /\ stage = "discovered"
    /\ \E more \in Additions(req) :
         /\ Len(more) <= 3
         /\ \A i \in DOMAIN more : /\ ~Contains(tools, more[i])
                                   /\ Disc!DocumentAuthorized(req.role, more[i])
         /\ tools' = tools \o more
    /\ stage' = "augmented"
    /\ UNCHANGED <<req, draft, plan>>

\* _planning_filter_arguments: does the request or the configuration name a target?
NamesTarget(t) == Located \cap Properties[t] \cap req.known # {}

\* _filter_planner_visible_tools, then the order of the capability graph.
Constrain ==
    /\ stage = "augmented"
    /\ LET visible == SelectSeq(tools, LAMBDA t :
                        Permits(Decision(Meta[t], req.role, req.env, "planning", NamesTarget(t))))
       IN  tools' = Graph!ConstrainToolSequence(
                      [source |-> req.source, goal |-> req.goal, role |-> req.role,
                       env |-> req.env, strategy |-> "policy_compliant", disabled |-> {}],
                      visible)
    /\ stage' = "constrained"
    /\ UNCHANGED <<req, draft, plan>>

\* DeterministicWorkflowPlanner.plan.
ProposeBuiltIn ==
    /\ stage = "constrained"
    /\ req.planner = "built-in"
    /\ LET nodes == Planner!BuiltIn(req.kind, req.words, tools, req.known)
       IN  draft' = [nodes |-> nodes, edges |-> Planner!EdgesOf(nodes)]
    /\ stage' = "drafted"
    /\ UNCHANGED <<req, tools, plan>>

\* LLMWorkflowPlanner._parse of a PLAN: compiled, or refused as malformed.
ProposeModel ==
    /\ stage = "constrained"
    /\ req.planner = "model"
    /\ \E raws \in Proposals(req) :
         LET nodes == Planner!Compile(raws, ToSet(tools), req.known)
             edges == Planner!EdgesOf(nodes)
         IN  IF \/ Len(raws) \notin 1 .. DraftNodes
                \/ Planner!Unresolved(nodes) # {}
                \/ Cardinality(edges) > MaxEdges
             THEN stage' = "unusable" /\ UNCHANGED draft
             ELSE stage' = "drafted" /\ draft' = [nodes |-> nodes, edges |-> edges]
    /\ UNCHANGED <<req, tools, plan>>

\* A CLARIFY or REFUSE decision: a workflow without nodes.
Decline ==
    /\ stage = "constrained"
    /\ req.planner = "model"
    /\ draft' = NoDraft
    /\ stage' = "drafted"
    /\ UNCHANGED <<req, tools, plan>>

Problems == Validator!Issues(draft.nodes, draft.edges, ToSet(tools))

Reject ==
    /\ stage = "drafted"
    /\ Problems # {}
    /\ stage' = "rejected"
    /\ UNCHANGED <<req, tools, draft, plan>>

\* _apply_planning_policy on a validated node.
Governed(classified) ==
    LET node == classified.node
        decision == Decision(Meta[node.tool], req.role, req.env, "planning",
                             DOMAIN node.args \cap ResourceFields # {})
    IN  [node |-> node, risk |-> classified.risk, decision |-> decision,
         approval |-> NeedsApproval(decision), status |-> StatusUnder(decision, "PENDING")]

\* validate() succeeded: the policy is applied and the workflow saved.
Save ==
    /\ stage = "drafted"
    /\ Problems = {}
    /\ plan' = [i \in DOMAIN draft.nodes |->
                  Governed(Validator!ClassifyRisk(draft.nodes[i]))]
    /\ stage' = "saved"
    /\ UNCHANGED <<req, tools, draft>>

Next == Discover \/ Augment \/ Constrain \/ ProposeBuiltIn \/ ProposeModel
          \/ Decline \/ Reject \/ Save

Spec == Init /\ [][Next]_vars

-------------------------------------------------------------------------------
\* The path that _dijkstra finds exists exactly if there is a path over edges that
\* policy and the disabled servers leave, and none is cheaper; the "shortest" one
\* of _bfs has the fewest tools.
PathIsBest ==
    stage = "received" =>
      \A strategy \in {"policy_compliant", "lowest_risk", "shortest"}, disabled \in {{}, {"ci"}} :
        LET found == Graph!FindPath([source |-> req.source, goal |-> req.goal, role |-> req.role,
                                     env |-> req.env, strategy |-> strategy, disabled |-> disabled])
            usable == {e \in ToSet(Edges) :
                         IF strategy = "shortest" THEN Meta[e.tool].enabled
                         ELSE Meta[e.tool].enabled /\ Graph!EdgeAllowed(e, req.role, req.env, disabled)}
            paths == Graph!SimplePaths(req.source, req.goal, usable)
            weight(p) == IF strategy = "shortest" THEN Len(p)
                         ELSE Graph!PathScore(p, strategy = "lowest_risk")
        IN  IF found.reachable
            THEN found.path \in paths /\ \A p \in paths : weight(found.path) <= weight(p)
            ELSE paths = {}

\* Whatever tools were found, the built-in planner proposes nothing that the
\* validator refuses, except a record that depends on an analysis that is not
\* part of the plan (_build_failure_workflow adds its condition all the same).
BuiltInDraftsSound ==
    stage = "drafted" /\ req.planner = "built-in" =>
      Problems \subseteq
        (IF Contains(tools, "analyze_build_failure") THEN {} ELSE {"invalid_condition"})

ClosedUnder(nodes, S) ==
    \A i \in DOMAIN nodes : nodes[i].id \in S => nodes[i].deps \cap S # {}

\* Every stored workflow can be run to its end: each node has a name of its own,
\* waits only for nodes of the plan, no nodes wait for one another, what its
\* arguments and its condition read is the output of a node it waits for, and a
\* run, job, commit or service that only a run can know is not left to a
\* placeholder when the planner knows the tool (_trusted_arguments_for).
SavedPlanRunnable ==
    stage = "saved" =>
      LET nodes == [i \in DOMAIN plan |-> plan[i].node]
          ids == {nodes[i].id : i \in DOMAIN nodes}
      IN  /\ Cardinality(ids) = Len(nodes)
          /\ \A S \in SUBSET ids \ {{}} : ~ClosedUnder(nodes, S)
          /\ \A i \in DOMAIN nodes :
               LET node == nodes[i]
                   reads == {r.source : r \in node.refs} \cup ({node.cond} \ {NoName})
               IN  /\ node.deps \subseteq ids
                   /\ reads \subseteq node.deps \ {node.id}
                   /\ req.planner = "model" /\ node.tool \in Listed =>
                        \A f \in Required[node.tool] \cap RuntimeBound :
                          /\ f \in DOMAIN node.args
                          /\ node.args[f] = "placeholder" => \E r \in node.refs : r.arg = f

\* The policy that governs the stored nodes agrees with the one that chose the
\* visible tools: no node of a stored plan is denied or blocked, although the one
\* looked at what the request names and the other looks at the node's arguments;
\* and a dangerous node that may run without a person's approval runs in dev and
\* is not CRITICAL.
GovernedAsDiscovered ==
    stage = "saved" =>
      \A i \in DOMAIN plan :
        /\ Contains(tools, plan[i].node.tool)
        /\ plan[i].status = "PENDING"
        /\ plan[i].risk \in HighRisk /\ ~plan[i].approval =>
             plan[i].risk = "HIGH" /\ NormalizeEnvironment(req.env) = "dev"
===============================================================================
