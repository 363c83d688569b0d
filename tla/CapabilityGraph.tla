---------------------------- MODULE CapabilityGraph ----------------------------
(***************************************************************************)
(* The capability graph (capabilities/service.py): resource types joined   *)
(* by the tools that lead from one to the other, and the searches for a    *)
(* path.  Costs are in hundredths.                                         *)
(***************************************************************************)
EXTENDS WorkflowPolicy, Sequences, SequencesExt, FiniteSets

CONSTANTS
    Meta,      \* [tool |-> Metadata]: the registry
    Edges,     \* the edges, in the order of _build_edges: a sequence of records
               \* with source, dest, tool, server, cost, outside, target
    Infinity   \* more than any path costs

\* RISK_PENALTY.
Penalty(risk) ==
    CASE risk = "READ_ONLY" -> 0
      [] risk = "LOW"       -> 20
      [] risk = "MEDIUM"    -> 100
      [] risk = "HIGH"      -> 300
      [] risk = "CRITICAL"  -> 800

\* _edge_score.
EdgeScore(e, riskWeight) ==
    e.cost + (IF riskWeight THEN Penalty(Meta[e.tool].risk)
                            ELSE Penalty(Meta[e.tool].risk) \div 4)
           + (IF e.outside THEN 20 ELSE 10)

\* _outgoing, in order.
Outgoing(resource) ==
    SelectSeq(Edges, LAMBDA e : e.source = resource /\ Meta[e.tool].enabled)

\* _edge_allowed: the server is up, and policy would let the role plan the tool.
EdgeAllowed(e, role, env, disabled) ==
    /\ e.server \notin disabled
    /\ Permits(Decision(Meta[e.tool], role, env, "planning", e.target))

PathScore(path, riskWeight) ==
    FoldLeft(LAMBDA sum, e : sum + EdgeScore(e, riskWeight), 0, path)

Unreachable == [reachable |-> FALSE, path |-> <<>>]
Visited(entry, source) == {source} \cup {entry.path[i].dest : i \in DOMAIN entry.path}
At(entry, source) == IF entry.path = <<>> THEN source ELSE Last(entry.path).dest

\* Mutant: the cost of the way so far is forgotten.
PushedAfresh(entry, next, riskWeight) ==
    [i \in DOMAIN next |-> [path |-> Append(entry.path, next[i]),
                            cost |-> EdgeScore(next[i], riskWeight)]]

\* The entries that leaving `entry` by an edge of `next` pushes.
Pushed(entry, next, riskWeight) ==
    [i \in DOMAIN next |-> [path |-> Append(entry.path, next[i]),
                            cost |-> entry.cost + EdgeScore(next[i], riskWeight)]]

\* _dijkstra: the heap is a sequence in the order of insertion, and the
\* cheapest entry is popped, the oldest of several.
RECURSIVE Dijkstra(_, _, _, _, _, _)
Dijkstra(heap, best, source, goal, allowed, riskWeight) ==
    IF heap = <<>> THEN Unreachable
    ELSE LET i == CHOOSE i \in DOMAIN heap :
                    \A j \in DOMAIN heap : \/ heap[i].cost < heap[j].cost
                                           \/ heap[i].cost = heap[j].cost /\ i <= j
             entry == heap[i]
             here == At(entry, source)
             rest == RemoveAt(heap, i)
             next == SelectSeq(Outgoing(here),
                               LAMBDA e : e \in allowed /\ e.dest \notin Visited(entry, source))
         IN  IF here = goal THEN [reachable |-> TRUE, path |-> entry.path]
             ELSE IF best[here] <= entry.cost
                  THEN Dijkstra(rest, best, source, goal, allowed, riskWeight)
                  ELSE Dijkstra(rest \o Pushed(entry, next, riskWeight),
                                [best EXCEPT ![here] = entry.cost],
                                source, goal, allowed, riskWeight)

\* _bfs without the policy filter, as find_path calls it for "shortest".
RECURSIVE Bfs(_, _, _, _)
Bfs(queue, visited, source, goal) ==
    IF queue = <<>> THEN Unreachable
    ELSE LET entry == Head(queue)
             here == At(entry, source)
             next == SelectSeq(Outgoing(here), LAMBDA e : e.dest \notin Visited(entry, source))
         IN  IF here = goal THEN [reachable |-> TRUE, path |-> entry.path]
             ELSE IF here \in visited THEN Bfs(Tail(queue), visited, source, goal)
             ELSE Bfs(Tail(queue) \o Pushed(entry, next, FALSE),
                      visited \cup {here}, source, goal)

Resources == UNION {{Edges[i].source, Edges[i].dest} : i \in DOMAIN Edges}
Start == <<[path |-> <<>>, cost |-> 0]>>

\* find_path.
FindPath(q) ==
    LET allowed == {e \in ToSet(Edges) : EdgeAllowed(e, q.role, q.env, q.disabled)}
        never == [r \in Resources \cup {q.source} |-> Infinity]
    IN  CASE q.strategy = "shortest"    -> Bfs(Start, {}, q.source, q.goal)
          [] q.strategy = "lowest_risk" -> Dijkstra(Start, never, q.source, q.goal, allowed, TRUE)
          [] OTHER                      -> Dijkstra(Start, never, q.source, q.goal, allowed, FALSE)

\* constrain_tool_sequence: the path's tools first, in path order.
ConstrainToolSequence(q, available) ==
    LET path == FindPath(q).path
        tools == [i \in DOMAIN path |-> path[i].tool]
        ordered == SelectSeq(tools, LAMBDA t : Contains(available, t))
    IN  ordered \o SelectSeq(available, LAMBDA t : ~Contains(ordered, t))

-------------------------------------------------------------------------------
\* The reference: every simple path over a set of edges.
RECURSIVE SimplePaths(_, _, _)
SimplePaths(from, goal, edges) ==
    IF from = goal THEN {<<>>}
    ELSE UNION {{<<e>> \o p : p \in SimplePaths(e.dest, goal,
                                     {f \in edges : f.source # from /\ f.dest # from})} :
                e \in {f \in edges : f.source = from}}
===============================================================================
