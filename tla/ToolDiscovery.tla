---------------------------- MODULE ToolDiscovery ----------------------------
(***************************************************************************)
(* Tool discovery (tool_discovery/*.py): which tools a planner may see.    *)
(* The scores themselves are outside the model: a search yields some       *)
(* ranking of the candidate tools.  What is kept is what happens to the    *)
(* ranking: the role filter, the cut to the requested number, and the      *)
(* completion that trades tools so that the workflow's needs are covered.  *)
(***************************************************************************)
EXTENDS WorkflowPolicy, Sequences, SequencesExt, FiniteSets

CONSTANTS
    Meta,           \* [tool |-> Metadata]: the registry
    Offers,         \* [tool |-> set of capabilities]: document_capabilities
    CapabilityOrder \* the capabilities in the order sorted() gives them

\* _document_from_metadata: the roles that a tool's document carries.
DocumentRoles(m) ==
    IF m.requiredRoles # {} THEN m.requiredRoles
    ELSE {r \in Roles : m.permission \in PermissionsOf(r)}

\* _role_authorized of the discovery: a document without roles is for everyone.
DocumentAuthorized(role, t) ==
    /\ Meta[t].enabled
    /\ DocumentRoles(Meta[t]) = {} \/ role \in DocumentRoles(Meta[t])

\* required_workflow_capabilities.
RequiredCapabilities(intents, requested) ==
    requested
      \cup (IF "investigate_failure" \in intents THEN {"build", "logs", "diagnostics"} ELSE {})
      \cup (IF "diagnose_issue" \in intents THEN {"diagnostics"} ELSE {})
      \cup (IF "create_record" \in intents THEN {"ticket"} ELSE {})
      \cup (IF "lookup_knowledge" \in intents THEN {"documentation"} ELSE {})
      \cup (IF "execute_operation" \in intents THEN {"operation"} ELSE {})

\* covered_capabilities.
Covered(selected) == UNION {Offers[selected[i]] : i \in DOMAIN selected}

\* _unsafe_backfill: dangerous tools are not added to a request that asks for
\* no operation.
UnsafeBackfill(t, intents) ==
    "execute_operation" \notin intents /\ Meta[t].risk \in HighRisk

\* _best_candidate_for_capability: positions in the pool, the best first.
Candidates(c, pool, selected, intents) ==
    {i \in DOMAIN pool : /\ ~Contains(selected, pool[i])
                         /\ c \in Offers[pool[i]]
                         /\ ~UnsafeBackfill(pool[i], intents)}

\* _replacement_index: the positions that cover nothing on their own.
Replaceable(selected, required) ==
    IF Covered(selected) \cap required = {} THEN DOMAIN selected
    ELSE {i \in DOMAIN selected :
            Offers[selected[i]] \cap required
              \subseteq UNION {Offers[selected[j]] : j \in DOMAIN selected \ {i}}}

Rank(t, pool) == SelectInSeq(pool, LAMBDA u : u = t)

\* ... of which the one with the lowest score goes; the pool is in score order.
Weakest(positions, selected, pool) ==
    CHOOSE i \in positions :
        \A j \in positions : Rank(selected[i], pool) >= Rank(selected[j], pool)

\* The body of complete_workflow_coverage's loop, for one capability.
Backfill(selected, c, pool, topK, intents, required) ==
    LET candidates == Candidates(c, pool, selected, intents)
        best == pool[CHOOSE i \in candidates : \A j \in candidates : i <= j]
        free == Replaceable(selected, required)
    IN  IF candidates = {} THEN selected
        ELSE IF Len(selected) < topK THEN Append(selected, best)
        ELSE IF free = {} THEN selected
        ELSE [selected EXCEPT ![Weakest(free, selected, pool)] = best]

\* complete_workflow_coverage.
CompleteCoverage(pool, topK, intents, requested) ==
    LET required == RequiredCapabilities(intents, requested)
        first == SubSeq(pool, 1, IF Len(pool) < topK THEN Len(pool) ELSE topK)
        lacking == SelectSeq(CapabilityOrder,
                             LAMBDA c : c \in required \ Covered(first))
        filled == FoldLeft(LAMBDA s, c : Backfill(s, c, pool, topK, intents, required),
                           first, lacking)
        priority(t) == Cardinality(Offers[t] \cap required)
    IN  IF required = {} THEN first
        ELSE SortSeq(filled, LAMBDA a, b : \/ priority(a) > priority(b)
                                           \/ priority(a) = priority(b) /\ Rank(a, pool) < Rank(b, pool))

\* _retrieve_with_index on a ranking that a search gave: the unauthorized tools
\* are dropped, the best are kept for reranking, then the coverage is completed.
Retrieve(ranking, role, topK, intents, requested) ==
    LET authorized == SelectSeq(ranking, LAMBDA t : DocumentAuthorized(role, t))
        size == IF 2 * topK > 12 THEN 2 * topK ELSE 12
        pool == SubSeq(authorized, 1, IF Len(authorized) < size THEN Len(authorized) ELSE size)
    IN  CompleteCoverage(pool, topK, intents, requested)
===============================================================================
