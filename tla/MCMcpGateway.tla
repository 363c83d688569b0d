---------------------------- MODULE MCMcpGateway ----------------------------
(* Constants for model-checking McpGateway.                                *)
EXTENDS McpGateway, TLC

CONSTANTS c1, c2, c3, operator, admin, restart, deploy, status, garbled, k1, k2, k3

\* restart and deploy are governed; garbled are bad arguments for the tool status.
MCToolOf == [o \in Operations |-> IF o = garbled THEN status ELSE o]
MCIdemKeys == Principals \X Keys
MCBuckets == Principals \X Tools
MCResponses == [outcome : {"SUCCEEDED", "PENDING", "DENIED"}, by : Calls]
MCPermitted == {operator} \X Tools

Ask(p, o, k) == [principal |-> p, op |-> o, key |-> k, approval |-> NoApproval]
Use(p, o, k, a) == [principal |-> p, op |-> o, key |-> k, approval |-> a]

\* One request for approval and two ways to use it, under two keys.
ApprovalRequests ==
    { Ask(operator, restart, k3), Use(operator, restart, k1, c1), Use(operator, restart, k2, c1),
      Use(operator, deploy, k2, c1) }

\* Ungoverned calls: retries of one key, a second key, bad arguments, a caller
\* without the permission.
PlainRequests ==
    { Ask(operator, status, k1), Ask(operator, status, k2), Ask(operator, garbled, k1),
      Ask(admin, status, k1) }

\* The calls of one run: three of any kind, or four that only meet the rate limiter, since
\* their arguments are bad.
Workload ==
    LET sent == {c \in Calls : req[c] # NoRequest} IN
    \/ Cardinality(sent) <= 3
    \/ \A c \in sent : req[c] = Ask(operator, garbled, k1)

\* Calls that no request names can be exchanged.
PlainCalls == Permutations(Calls)
=============================================================================
