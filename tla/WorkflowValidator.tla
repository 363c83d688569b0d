--------------------------- MODULE WorkflowValidator ---------------------------
(***************************************************************************)
(* WorkflowValidator.validate (workflows/validator.py): the issues of a    *)
(* draft, and the governance data a valid node gets from the registry.     *)
(* A draft is a sequence of nodes (see WorkflowPlanner) and a set of edges.*)
(***************************************************************************)
EXTENDS WorkflowPolicy, Sequences, FiniteSets

CONSTANTS
    Meta,         \* [tool |-> Metadata]: the registry
    Properties,   \* [tool |-> the arguments its schema knows]
    Required,     \* [tool |-> those it requires]
    Schemaless,   \* tools without an input schema of their own
    Unfit,        \* arguments whose placeholder fails the schema's checks
    NoNode,
    MaxNodes,     \* MAX_WORKFLOW_NODES
    MaxEdges      \* MAX_WORKFLOW_EDGES

\* WorkflowValidator._validate_arguments and _validate_field.  An approval token
\* is not asked of the planner.
BadArguments(node) ==
    LET exempt == IF Meta[node.tool].requiresApproval THEN {"approval_token"} ELSE {}
    IN  /\ node.tool \notin Schemaless
        /\ \/ ~(DOMAIN node.args \subseteq Properties[node.tool])
           \/ ~(Required[node.tool] \ exempt \subseteq DOMAIN node.args)
           \/ \E f \in DOMAIN node.args : f \in Unfit /\ node.args[f] = "placeholder"

\* Mutant: the source need not be a dependency.
BadReferenceUnordered(node, r, ids) == r.arg \notin DOMAIN node.args \/ r.source \notin ids

\* _validate_argument_references.
BadReference(node, r, ids) ==
    r.arg \notin DOMAIN node.args \/ r.source \notin ids \/ r.source \notin node.deps

\* _validate_typed_conditions.
BadCondition(node, ids) ==
    node.cond # NoNode /\ (node.cond \notin ids \/ node.cond \notin node.deps)

\* The graph of _validate_acyclic: of several nodes with one id the last counts,
\* and the edges add to it.
GraphOf(nodes, edges) ==
    LET ids == {nodes[i].id : i \in DOMAIN nodes}
        last(n) == CHOOSE i \in DOMAIN nodes :
                      /\ nodes[i].id = n
                      /\ \A j \in DOMAIN nodes : nodes[j].id = n => j <= i
    IN  [n \in ids \cup {e.dest : e \in edges} |->
           (IF n \in ids THEN nodes[last(n)].deps ELSE {})
             \cup {e.source : e \in {f \in edges : f.dest = n}}]

\* visit() of _validate_acyclic: a node that is met while it is being visited
\* closes a cycle.  Returns the visited nodes, and whether all went well.
RECURSIVE Visit(_, _, _, _), VisitAll(_, _, _, _)

Visit(n, graph, visiting, visited) ==
    IF n \in visiting THEN [ok |-> FALSE, visited |-> visited]
    ELSE IF n \in visited THEN [ok |-> TRUE, visited |-> visited]
    ELSE LET below == VisitAll(graph[n] \cap DOMAIN graph, graph, visiting \cup {n}, visited)
         IN  [ok |-> below.ok, visited |-> below.visited \cup {n}]

VisitAll(ns, graph, visiting, visited) ==
    IF ns = {} THEN [ok |-> TRUE, visited |-> visited]
    ELSE LET n == CHOOSE n \in ns : TRUE
             first == Visit(n, graph, visiting, visited)
         IN  IF first.ok THEN VisitAll(ns \ {n}, graph, visiting, first.visited) ELSE first

\* _validate_acyclic.
Cyclic(nodes, edges) ==
    LET graph == GraphOf(nodes, edges)
    IN  ~VisitAll(DOMAIN graph, graph, {}, {}).ok

\* The codes of the issues of a draft.
Issues(nodes, edges, visible) ==
    LET ids == {nodes[i].id : i \in DOMAIN nodes}
        some(P(_)) == \E i \in DOMAIN nodes : P(nodes[i])
        registered(n) == n.tool \in DOMAIN Meta
        when(bad, code) == IF bad THEN {code} ELSE {}
    IN  UNION {
          when(Len(nodes) > MaxNodes \/ Cardinality(edges) > MaxEdges, "workflow_too_large"),
          when(Cardinality(ids) # Len(nodes), "duplicate_node_id"),
          when(some(LAMBDA n : ~registered(n)), "unknown_tool"),
          when(some(LAMBDA n : registered(n) /\ n.tool \notin visible), "tool_not_discovered"),
          when(some(LAMBDA n : registered(n) /\ ~Meta[n.tool].enabled), "tool_disabled"),
          when(some(LAMBDA n : registered(n) /\ BadArguments(n)), "invalid_arguments"),
          when(some(LAMBDA n : ~(n.deps \subseteq ids)), "missing_dependency"),
          when(some(LAMBDA n : \E r \in n.refs : BadReference(n, r, ids)),
               "invalid_argument_reference"),
          when(some(LAMBDA n : BadCondition(n, ids)), "invalid_condition"),
          when(\E e \in edges : {e.source, e.dest} \cap ids # {e.source, e.dest}, "missing_edge"),
          when(Cyclic(nodes, edges), "cycle_detected")}

\* _classify_risk: risk and approval are the registry's, not the planner's.
ClassifyRisk(node) ==
    [node |-> node, risk |-> Meta[node.tool].risk,
     approval |-> Meta[node.tool].requiresApproval \/ Meta[node.tool].risk \in HighRisk]
===============================================================================
