-------------------------- MODULE MCWorkflowEngine --------------------------
(* Constants for model-checking WorkflowEngine.                            *)
EXTENDS WorkflowEngine, TLC

CONSTANTS h1, h2

\* Node 2 depends on node 1; node 3, where there is one, on nothing.
MCDependsOn == [n \in Nodes |-> IF n = 2 THEN {1} ELSE {}]

\* Node 1 may be retried once without being asked to.
MCMaxRetries == [n \in Nodes |-> IF n = 1 THEN 1 ELSE 0]

\* What a handler that answered its request still had in its locals is of no use to
\* anyone, and neither is a response once it was looked at.
LiveLocals(h) ==
    IF pc[h] = "idle" THEN <<>>
    ELSE <<mine[h], cur[h], completed[h], IF pc[h] \in {"settle", "undone"} THEN answer[h] ELSE "none">>

LiveState == <<saved, outbox, requests, pc, [h \in Handlers |-> LiveLocals(h)], gatewayVars>>

AnyHandler == Permutations(Handlers)
=============================================================================
