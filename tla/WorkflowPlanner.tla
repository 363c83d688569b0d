---------------------------- MODULE WorkflowPlanner ----------------------------
(***************************************************************************)
(* The planners (workflows/planner.py): how a proposal of a language model *)
(* is compiled into a workflow draft, and the drafts of the built-in       *)
(* planner.  A proposal is a sequence of raw nodes; a draft node is a      *)
(* record with                                                             *)
(*   id, tool, known    known: the tool was offered to the planner         *)
(*   args               [argument |-> how it got its value]                *)
(*   refs               {[arg, source]}: values taken from other nodes     *)
(*   deps, cond, text   the dependencies, the node whose output decides,   *)
(*                      and a condition that is kept as text               *)
(* The value of an argument is "given" by the proposal, a "default" of the *)
(* planner or the request, or a "placeholder" to be bound at run time.     *)
(***************************************************************************)
EXTENDS Naturals, Sequences, SequencesExt, FiniteSets

CONSTANTS
    Properties,     \* [tool |-> the arguments its schema knows]
    Required,       \* [tool |-> those it requires]
    Listed,         \* the tools that _arguments_for treats by name
    Fixed,          \* [tool |-> arguments _arguments_for always fills in]
    DemoFixed,      \* [tool |-> those it fills in with demo values]
    Located,        \* arguments found in the settings (repository) or the request (device_id)
    RuntimeBound,   \* _requires_runtime_binding
    Suggests,       \* {<<node id, argument>>}: the markers of _inferred_argument_reference
    Reruns,         \* the tools that rerun a build
    Positional,     \* [0 .. n -> names]: "node_0", "node_1", ...
    Suffixed,       \* [name |-> name]: the name with "_node" after it
    NoName

NoNode == NoName

\* _placeholder_for_field: known says which Located arguments can be found.
HasPlaceholder(f, known, demo) == f \in Located => demo \/ f \in known

\* _arguments_for and _schema_default_arguments.  The name of a service is looked
\* for in the request only on behalf of the tools treated by name.
ArgumentsFor(t, known, demo) ==
    LET found(fields) == {f \in fields \cap Properties[t] : demo \/ f \in known}
        located == found(Located)
        query == {"query"} \cap Properties[t]
        filled == {f \in Required[t] \ (located \cup query) : HasPlaceholder(f, known, demo)}
        listed == found(Located \cup {"service_name"}) \cup Fixed[t] \cup (IF demo THEN DemoFixed[t] ELSE {})
    IN  IF t \in Listed
        THEN [f \in listed |-> "default"]
        ELSE [f \in located \cup query \cup filled |->
                IF f \in filled THEN "placeholder" ELSE "default"]

\* _inferred_argument_reference: the first dependency that looks like a source.
Inferred(t, f, deps) ==
    LET fits == {i \in DOMAIN deps : <<deps[i], f>> \in Suggests}
    IN  IF fits # {} THEN {[arg |-> f, source |-> deps[CHOOSE i \in fits : \A j \in fits : i <= j]]}
        ELSE IF t \in Reruns /\ f = "run_id" /\ deps # <<>>
             THEN {[arg |-> f, source |-> deps[1]]}
        ELSE {}

\* _argument_reference: a reference to a dependency, or none.
IsReference(v, deps) == v.kind = "ref" /\ Contains(deps, v.source)

\* _sanitize_argument_value and _is_demo_sentinel_value: of the values proposed
\* literally, those of the right type and form that are no demo values are used.
Sanitized(v) == v.kind = "given"

\* A required argument may get a placeholder, but one that only a run can know
\* only along with a reference to where it will come from.
MayBeFilled(f, known, inferred) ==
    HasPlaceholder(f, known, FALSE) /\ (f \in RuntimeBound => \E r \in inferred : r.arg = f)

\* _trusted_arguments_for.  `proposed` maps arguments to values: a reference, a
\* usable value ("given"), a demo value or one that the sanitizer refuses.
TrustedArguments(t, known, proposed, deps) ==
    LET base == ArgumentsFor(t, known, FALSE)
        keys == DOMAIN proposed \cap Properties[t]
        referring == {f \in keys : IsReference(proposed[f], deps)}
        given == {f \in keys : Sanitized(proposed[f])}
        held == {f \in referring \ DOMAIN base : HasPlaceholder(f, known, FALSE)}
        lacking == Required[t] \ (DOMAIN base \cup given \cup held)
        inferred == UNION {Inferred(t, f, deps) : f \in lacking}
        filled == {f \in lacking : MayBeFilled(f, known, inferred)}
    IN  [args |-> [f \in DOMAIN base \cup given \cup held \cup filled |->
                     CASE f \in given       -> "given"
                       [] f \in DOMAIN base -> base[f]
                       [] OTHER             -> "placeholder"],
         refs |-> {[arg |-> f, source |-> proposed[f].source] : f \in referring}
                    \cup inferred]

\* _normalize_typed_condition: a condition is typed only if its source is a
\* dependency.
TypedCondition(raw) == IF Contains(raw.deps, raw.cond) THEN raw.cond ELSE NoName

\* _normalize_node.  An untyped condition survives as text if it was text, and is
\* lost if it was a structure.
NormalizeNode(i, raw, visible, known) ==
    LET trusted == TrustedArguments(raw.tool, known, raw.args, raw.deps)
        offered == raw.tool \in visible
    IN  [id    |-> IF raw.id = NoName THEN raw.tool ELSE raw.id,
         tool  |-> raw.tool,
         known |-> offered,
         args  |-> IF offered THEN trusted.args ELSE [f \in DOMAIN raw.args |-> "given"],
         refs  |-> IF offered THEN trusted.refs ELSE {},
         deps  |-> raw.deps,
         cond  |-> TypedCondition(raw),
         text  |-> raw.text]

\* _node_id_aliases: the names by which the other nodes may call node i.
AliasesOf(i, raw, node) ==
    LET own == {node.id, node.tool} \cup ({raw.id} \ {NoName})
    IN  own \cup {Positional[i - 1], Positional[i]}
            \cup {Suffixed[n] : n \in own \cap DOMAIN Suffixed}

\* ... and the node a name stands for: the first that goes by it.
Resolve(name, raws, nodes) ==
    LET answering == {i \in DOMAIN nodes : name \in AliasesOf(i, raws[i], nodes[i])}
    IN  IF answering = {} THEN name
        ELSE nodes[CHOOSE i \in answering : \A j \in answering : i <= j].id

\* _resolve_node_references: a dependency on itself is dropped.
ResolveNode(node, raws, nodes) ==
    LET to(name) == Resolve(name, raws, nodes)
    IN  [node EXCEPT !.deps = {to(node.deps[i]) : i \in DOMAIN node.deps} \ {node.id},
                     !.refs = {[r EXCEPT !.source = to(r.source)] : r \in node.refs},
                     !.cond = IF node.cond = NoName THEN NoName ELSE to(node.cond)]

\* _normalize_nodes_two_pass.
Compile(raws, visible, known) ==
    LET nodes == [i \in DOMAIN raws |-> NormalizeNode(i, raws[i], visible, known)]
    IN  [i \in DOMAIN nodes |-> ResolveNode(nodes[i], raws, nodes)]

\* _unresolved_node_references: names that no node bears.
Unresolved(nodes) ==
    LET ids == {nodes[i].id : i \in DOMAIN nodes}
    IN  UNION {nodes[i].deps \cup {r.source : r \in nodes[i].refs}
                 \cup ({nodes[i].cond} \ {NoName}) : i \in DOMAIN nodes} \ ids

\* _derive_edges_from_nodes.
EdgesOf(nodes) ==
    UNION {{[source |-> d, dest |-> nodes[i].id] : d \in nodes[i].deps} : i \in DOMAIN nodes}

-------------------------------------------------------------------------------
\* The built-in planner: _build_failure_workflow, _deployment_workflow,
\* _service_restart_workflow, _ticket_workflow and _documentation_workflow as
\* sequences of <<node id, tools to choose from, dependencies>>.
Template(kind) ==
    CASE kind = "build" ->
           << <<"build_status", <<"get_build_status">>, {}>>,
              <<"pipeline_logs", <<"get_pipeline_logs">>, {"build_status"}>>,
              <<"recent_commits", <<"get_recent_commits", "get_commit_history">>, {"pipeline_logs"}>>,
              <<"failure_analysis", <<"analyze_build_failure">>, {"pipeline_logs", "recent_commits"}>> >>
      [] kind = "deploy" ->
           << <<"build_status", <<"get_build_status">>, {}>>,
              <<"run_tests", <<"run_tests">>, {"build_status"}>>,
              <<"deploy_staging", <<"deploy_staging">>, {"run_tests"}>>,
              <<"deployment_status", <<"get_deployment_status">>, {"deploy_staging"}>> >>
      [] kind = "restart" ->
           << <<"recent_errors", <<"get_recent_errors">>, {}>>,
              <<"device_services", <<"get_device_services">>, {"recent_errors"}>>,
              <<"restart_service", <<"restart_service">>, {"device_services"}>> >>
      [] kind = "ticket" ->
           << <<"device_status", <<"get_device_status">>, {}>>,
              <<"recent_errors", <<"get_recent_errors">>, {"device_status"}>>,
              <<"create_ticket", <<"create_ticket">>, {"recent_errors"}>> >>
      [] kind = "docs" ->
           << <<"search_documentation", <<"search_documentation", "search_knowledge">>, {}>>,
              <<"get_runbook", <<"get_runbook", "get_procedure">>, {"search_documentation"}>> >>
      [] OTHER -> <<>>

\* _first_available.
FirstAvailable(names, visible) ==
    LET there == SelectSeq(names, LAMBDA t : Contains(visible, t))
    IN  IF there = <<>> THEN names[1] ELSE there[1]

\* _node.
BuiltInNode(id, t, deps, cond, known) ==
    [id |-> id, tool |-> t, known |-> TRUE, args |-> ArgumentsFor(t, known, TRUE),
     refs |-> {}, deps |-> deps, cond |-> cond, text |-> cond # NoName]

\* Mutant: a step still depends on steps that were left out.
KeptDependenciesAll(step, ids) == step[3]

\* The dependencies of a step on steps that are part of the plan.
KeptDependencies(step, ids) == step[3] \cap ids

\* _linear_workflow, and the loop of _build_failure_workflow: steps without a
\* tool are left out, and so are dependencies on them.
Steps(template, visible, known) ==
    LET tool(s) == FirstAvailable(s[2], visible)
        kept == SelectSeq(template, LAMBDA s : Contains(visible, tool(s)))
        ids == {kept[i][1] : i \in DOMAIN kept}
    IN  [i \in DOMAIN kept |->
           BuiltInNode(kept[i][1], tool(kept[i]), KeptDependencies(kept[i], ids), NoName, known)]

\* _fallback_nodes: the first three tools, unconnected.
Fallback(visible, known) ==
    [i \in 1 .. (IF Len(visible) < 3 THEN Len(visible) ELSE 3) |->
       BuiltInNode(Positional[i], visible[i], {}, NoName, known)]

\* The last part of _build_failure_workflow: the record that is made if the
\* analysis blames the source code.
RecordStep(steps, words, visible, known) ==
    LET tool == CASE "issue" \in words /\ Contains(visible, "create_issue") -> "create_issue"
                  [] words \cap {"ticket", "if"} # {} /\ Contains(visible, "create_ticket") -> "create_ticket"
                  [] OTHER -> NoName
        analysed == \E i \in DOMAIN steps : steps[i].id = "failure_analysis"
    IN  IF tool = NoName THEN steps
        ELSE Append(steps, BuiltInNode(tool, tool, IF analysed THEN {"failure_analysis"} ELSE {},
                                       "failure_analysis", known))

\* DeterministicWorkflowPlanner.plan.
BuiltIn(kind, words, visible, known) ==
    LET steps == Steps(Template(kind), visible, known)
        nodes == IF kind = "build" THEN RecordStep(steps, words, visible, known) ELSE steps
    IN  IF nodes = <<>> THEN Fallback(visible, known) ELSE nodes
===============================================================================
