--------------------------- MODULE WorkflowEngine ---------------------------
(***************************************************************************)
(* The executor of workflows/service.py for one workflow: execute, resume, *)
(* retry_node and cancel, called by any number of request handlers over    *)
(* one persisted workflow.  A handler loads the workflow once, works on    *)
(* its own copy and saves the whole copy at every checkpoint; nothing      *)
(* compares versions, so the last writer wins.  Every save and every call  *)
(* of the gateway is one action, and a handler may die between any two.    *)
(* The gateway is seen through its idempotency keys.                       *)
(***************************************************************************)
EXTENDS Naturals, FiniteSets

CONSTANTS
    N,              \* nodes are 1..N, in the order of their ids
    DependsOn,      \* node -> the nodes it depends on
    MaxRetries,     \* node -> max_retries
    Retryable,      \* nodes whose tool metadata is idempotent or retry_safe
    Backoff,        \* nodes whose retry_strategy is not NO_RETRY
    Compensable,    \* nodes with a compensation_tool
    Undoable,       \* those whose compensation_tool the gateway executes
    Governed,       \* nodes whose tool needs an approval
    Branching,      \* nodes with a condition
    Handlers,       \* request handlers
    Requests,       \* the kinds of request that arrive
    MaxRequests,    \* bound on their number
    MayDie          \* whether a handler may die

Nodes == 1 .. N

\* A plan has nodes, and the validator lets only acyclic ones pass.
ASSUME WorkflowAssumption ==
    /\ N \in Nat \ {0} /\ MaxRequests \in Nat /\ MayDie \in BOOLEAN
    /\ DependsOn \in [Nodes -> SUBSET Nodes]
    /\ \E rank \in [Nodes -> Nodes] : \A n \in Nodes : \A d \in DependsOn[n] : rank[d] < rank[n]
    /\ MaxRetries \in [Nodes -> Nat]
    /\ Retryable \subseteq Nodes /\ Backoff \subseteq Nodes /\ Compensable \subseteq Nodes
    /\ Undoable \subseteq Compensable
    /\ Governed \subseteq Nodes /\ Branching \subseteq Nodes
    /\ Requests \subseteq {"execute", "resume", "retry", "cancel"}

VARIABLES
    saved,          \* the persisted workflow
    outbox,         \* the events saved with it, as a set
    requests,       \* how many requests have arrived
    pc,             \* what a handler does next
    mine,           \* the handler's copy of the workflow
    cur,            \* the node it is working on
    completed,      \* `completed` of _run_workflow
    answer,         \* the gateway's last response to it
    keys,           \* the gateway's idempotency records, by node and attempt
    effects         \* how often the tool of a node took effect

gatewayVars == <<keys, effects>>
handlerVars == <<pc, mine, cur, completed, answer>>
vars == <<saved, outbox, requests, handlerVars, gatewayVars>>

NodeStatus == {"PENDING", "READY", "RUNNING", "SUCCEEDED", "FAILED", "RETRYING", "WAITING_APPROVAL",
               "COMPENSATING", "COMPENSATED", "BLOCKED", "CANCELLED", "DENIED", "SKIPPED"}

WorkflowStatus == {"VALIDATED", "RUNNING", "WAITING_APPROVAL", "COMPLETED", "FAILED", "CANCELLED"}

\* attempts: no request starts a node twice.
\* approval: "none" without an approval_id, "queued" in state EXECUTION_QUEUED.
Workflow ==
    [ status   : WorkflowStatus,
      node     : [Nodes -> NodeStatus],
      attempts : [Nodes -> 0 .. MaxRequests],
      approval : [Nodes -> {"none", "held", "queued"}] ]

\* What the run loop takes for completed, and what it passes over.
Completed == {"SUCCEEDED", "COMPENSATED", "SKIPPED"}
Settled == Completed \cup {"CANCELLED", "FAILED", "DENIED", "BLOCKED"}
Failing == {"FAILED", "DENIED", "BLOCKED"}

Attempts == 1 .. MaxRequests

\* "refused" is a key under which every retry is answered with an error: it was left
\* reserved, or holds a finished request that failed.
KeyStates == {"free", "refused", "ok", "timeout"}
Answers == {"none", "ok", "pending", "error", "transient"}

Steps == {"idle", "cancel", "save", "start", "scan", "queued", "policy", "refuse", "begin", "bind",
          "call", "settle", "retry", "compensate", "undo", "undone", "finish"}

TypeOK ==
    /\ saved \in Workflow
    /\ requests \in 0 .. MaxRequests
    /\ pc \in [Handlers -> Steps]
    /\ mine \in [Handlers -> Workflow]
    /\ cur \in [Handlers -> Nodes]
    /\ completed \in [Handlers -> SUBSET Nodes]
    /\ answer \in [Handlers -> Answers]
    /\ keys \in [Nodes -> [Attempts -> KeyStates]]
    /\ effects \in [Nodes -> Nat]

\* A plan as it is saved: validated, and the planning policy may have denied a node
\* or asked for more context.
Planned(node) ==
    [ status   |-> "VALIDATED",
      node     |-> node,
      attempts |-> [n \in Nodes |-> 0],
      approval |-> [n \in Nodes |-> "none"] ]

Init ==
    /\ \E node \in [Nodes -> {"PENDING", "DENIED", "BLOCKED"}] : saved = Planned(node)
    /\ outbox = {}
    /\ requests = 0
    /\ pc = [h \in Handlers |-> "idle"]
    /\ mine = [h \in Handlers |-> saved]
    /\ cur = [h \in Handlers |-> 1]
    /\ completed = [h \in Handlers |-> {}]
    /\ answer = [h \in Handlers |-> "none"]
    /\ keys = [n \in Nodes |-> [a \in Attempts |-> "free"]]
    /\ effects = [n \in Nodes |-> 0]

----------------------------------------------------------------------------
(* loading and saving *)

\* A request arrives and the handler loads the workflow, as get_workflow returns it.
Receive(h, kind, w, step) ==
    /\ kind \in Requests
    /\ requests < MaxRequests
    /\ requests' = requests + 1
    /\ pc[h] = "idle"
    /\ pc' = [pc EXCEPT ![h] = step]
    /\ mine' = [mine EXCEPT ![h] = w]
    /\ UNCHANGED <<saved, outbox, cur, completed, answer, gatewayVars>>

Goto(h, from, to) == pc[h] = from /\ pc' = [pc EXCEPT ![h] = to]

\* save_workflow: the handler's copy replaces what is stored.
Save(h, w) ==
    /\ saved' = w
    /\ mine' = [mine EXCEPT ![h] = w]

\* Mutant: the copy is saved without its event.
CheckpointSilently(h, w, event) ==
    /\ Save(h, w)
    /\ UNCHANGED <<outbox, requests, gatewayVars>>

\* _checkpoint: the copy and its event are stored in one transaction.
Checkpoint(h, w, event) ==
    /\ Save(h, w)
    /\ outbox' = outbox \cup {event}
    /\ UNCHANGED <<requests, gatewayVars>>

\* The handler's copy with another status of node n.
With(h, n, status) == [mine[h] EXCEPT !.node[n] = status]

NodeStep == UNCHANGED <<cur, completed, answer>>

----------------------------------------------------------------------------
(* the requests *)

\* execute(): a cancelled or waiting workflow is left alone, a running one is not.
Execute(h) ==
    /\ saved.status \notin {"CANCELLED", "WAITING_APPROVAL"}
    /\ Receive(h, "execute", saved, "start")

CanBeResumed(w, n) == w.attempts[n] <= MaxRetries[n] \/ n \in Compensable

\* Mutant: resume() starts the workflow from scratch.
ResumedFromScratch(w, expired, due) ==
    [w EXCEPT !.status = "RUNNING", !.node = [n \in Nodes |-> "PENDING"]]

\* resume() with the waiting nodes of expired out of time and the retrying nodes
\* of due ready for their next attempt.
Resumed(w, expired, due) ==
    [w EXCEPT !.status = "RUNNING",
              !.node = [n \in Nodes |->
                  CASE w.node[n] = "WAITING_APPROVAL" /\ n \in expired -> "FAILED"
                    [] w.node[n] = "RETRYING" /\ n \in due -> "PENDING"
                    [] w.node[n] \in {"FAILED", "BLOCKED", "RUNNING"} /\ CanBeResumed(w, n) -> "PENDING"
                    [] OTHER -> w.node[n]]]

Resume(h) ==
    /\ saved.status # "CANCELLED"
    /\ \E expired \in SUBSET {n \in Nodes : saved.node[n] = "WAITING_APPROVAL"},
          due \in SUBSET {n \in Nodes : saved.node[n] = "RETRYING"} :
          Receive(h, "resume", Resumed(saved, expired, due), "save")

\* retry_node(): whatever the status of the node and of the workflow.
RetryNode(h, n) ==
    Receive(h, "retry",
            [saved EXCEPT !.status = "RUNNING",
                          !.node[n] = IF n \in Retryable THEN "PENDING" ELSE "FAILED"],
            "save")

Cancelled(w) ==
    [w EXCEPT !.status = "CANCELLED",
              !.node = [n \in Nodes |->
                  IF w.node[n] \in {"PENDING", "BLOCKED", "DENIED", "WAITING_APPROVAL", "RUNNING"}
                  THEN "CANCELLED" ELSE w.node[n]]]

Cancel(h) == Receive(h, "cancel", Cancelled(saved), "cancel")

\* save_workflow at the end of cancel, resume and retry_node: no event.
SaveRequest(h) ==
    /\ Goto(h, "cancel", "idle") \/ Goto(h, "save", "start")
    /\ Save(h, mine[h])
    /\ NodeStep
    /\ UNCHANGED <<outbox, requests, gatewayVars>>

----------------------------------------------------------------------------
(* _run_workflow *)

Start(h) ==
    /\ Goto(h, "start", "scan")
    /\ Checkpoint(h, [mine[h] EXCEPT !.status = "RUNNING"], <<"workflow.started", 0>>)
    /\ completed' = [completed EXCEPT ![h] = {n \in Nodes : mine[h].node[n] \in Completed}]
    /\ UNCHANGED <<cur, answer>>

\* The longest path to a node: _topological_nodes takes the nodes layer by layer,
\* each layer in the order of the ids.
Depth[n \in Nodes] ==
    IF DependsOn[n] = {} THEN 0
    ELSE LET deepest == CHOOSE m \in DependsOn[n] : \A k \in DependsOn[n] : Depth[k] <= Depth[m]
         IN  Depth[deepest] + 1

Before(m, n) == Depth[m] < Depth[n] \/ (Depth[m] = Depth[n] /\ m < n)

\* The node the loop comes to next: the first that is not settled.
Upcoming(h, n) ==
    LET open == {m \in Nodes : mine[h].node[m] \notin Settled} IN
    n \in open /\ \A m \in open \ {n} : Before(n, m)

\* The loop ends: nothing is left to do.
Exhausted(h) == \A n \in Nodes : mine[h].node[n] \in Settled

\* A node whose retry is not due yet ends the run; the workflow stays RUNNING.
NotDue(h) ==
    /\ Goto(h, "scan", "idle")
    /\ \E n \in Nodes : Upcoming(h, n) /\ mine[h].node[n] = "RETRYING"
    /\ NodeStep
    /\ UNCHANGED <<saved, outbox, requests, mine, gatewayVars>>

\* Mutant: a dependency that was passed over counts as met.
DepsMetOrSettled(h, n) == \A d \in DependsOn[n] : mine[h].node[d] \in Settled

DepsMet(h, n) == DependsOn[n] \subseteq completed[h]

Block(h) ==
    \E n \in Nodes :
        /\ Upcoming(h, n)
        /\ ~DepsMet(h, n)
        /\ Goto(h, "scan", "scan")
        /\ Checkpoint(h, With(h, n, "BLOCKED"), <<"workflow.node.blocked", n>>)
        /\ NodeStep

\* condition_is_satisfied raises.
ConditionFails(h) ==
    \E n \in Branching :
        /\ Upcoming(h, n) /\ DepsMet(h, n)
        /\ Goto(h, "scan", "finish")
        /\ Checkpoint(h, With(h, n, "BLOCKED"), <<"workflow.node.failed", n>>)
        /\ NodeStep

\* The condition is false.  The node is not added to `completed`, so in this run
\* its dependents are blocked.
Skip(h) ==
    \E n \in Branching :
        /\ Upcoming(h, n) /\ DepsMet(h, n)
        /\ Goto(h, "scan", "scan")
        /\ Checkpoint(h, With(h, n, "SKIPPED"), <<"workflow.node.skipped", n>>)
        /\ NodeStep

\* The node is taken up.
Ready(h) ==
    \E n \in Nodes :
        LET asked == mine[h].node[n] = "WAITING_APPROVAL" /\ mine[h].approval[n] # "none"
            w == IF asked THEN [With(h, n, "READY") EXCEPT !.approval[n] = "queued"]
                 ELSE With(h, n, "READY")
        IN  /\ Upcoming(h, n) /\ DepsMet(h, n)
            /\ Goto(h, "scan", IF w.approval[n] = "queued" THEN "queued" ELSE "policy")
            /\ Checkpoint(h, w, <<"workflow.node.ready", n>>)
            /\ cur' = [cur EXCEPT ![h] = n]
            /\ UNCHANGED <<completed, answer>>

Queue(h) ==
    /\ Goto(h, "queued", "policy")
    /\ Checkpoint(h, mine[h], <<"workflow.approval.execution_queued", cur[h]>>)
    /\ NodeStep

\* The policy allows the node (with or without approval), denies it or wants more
\* context; transform_node_with_policy writes the verdict into the node.
EvaluatePolicy(h) ==
    \E verdict \in {"READY", "DENIED", "BLOCKED"} :
        /\ Goto(h, "policy", IF verdict = "READY" THEN "begin" ELSE "refuse")
        /\ Checkpoint(h, With(h, cur[h], verdict), <<"workflow.node.policy_evaluated", cur[h]>>)
        /\ NodeStep

\* Mutant: a refused node is left to be done.
RefuseForNow(h) ==
    /\ Goto(h, "refuse", "scan")
    /\ Checkpoint(h, With(h, cur[h], "PENDING"), <<"workflow.node.failed", cur[h]>>)
    /\ NodeStep

\* A refused node is checkpointed once more, and the loop goes on.
Refuse(h) ==
    /\ Goto(h, "refuse", "scan")
    /\ Checkpoint(h, mine[h], <<"workflow.node.failed", cur[h]>>)
    /\ NodeStep

----------------------------------------------------------------------------
(* _execute_node_with_recovery and _compensate_node *)

\* Mutant: the attempt is not counted before the tool runs.
AttemptsUncounted(count) == count

NextAttempt(count) == count + 1

\* The attempt starts.  Binding the arguments may fail, change them or do nothing.
Begin(h) ==
    LET n == cur[h]
        w == [With(h, n, "RUNNING") EXCEPT
                 !.attempts[n] = NextAttempt(@),
                 !.approval[n] = IF @ = "none" THEN "none" ELSE "held"]
    IN  /\ \/ Goto(h, "begin", "call") /\ UNCHANGED answer
           \/ Goto(h, "begin", "bind") /\ UNCHANGED answer
           \/ Goto(h, "begin", "settle") /\ answer' = [answer EXCEPT ![h] = "error"]
        /\ Checkpoint(h, w, <<"workflow.node.started", n>>)
        /\ UNCHANGED <<cur, completed>>

Bind(h) ==
    /\ Goto(h, "bind", "call")
    /\ Checkpoint(h, mine[h], <<"workflow.node.arguments_bound", cur[h]>>)
    /\ NodeStep

\* What the gateway answers under a key that it knows: the stored response of a
\* finished request, a refusal of a duplicate while one is reserved.
Replayed(key) ==
    CASE key = "ok"      -> "ok"
      [] key = "refused" -> "error"
      [] key = "timeout" -> "transient"

\* The new state of the key, whether the tool takes effect, and the response.
Outcome(key, effect, response) == [key |-> key, effect |-> effect, answer |-> response]

\* The gateway on a request under a key in this state.  On a free one the request is
\* refused before it reserves the key, or asks for an approval, or runs; a run may also be
\* answered with an error after its effect (mark_executed raises).
Handled(key, asks) ==
    IF key # "free" THEN {Outcome(key, FALSE, Replayed(key))}
    ELSE {Outcome("free", FALSE, "error"), Outcome("free", FALSE, "transient")} \cup
         IF asks THEN {Outcome("refused", FALSE, "pending")}
         ELSE { Outcome("ok", TRUE, "ok"), Outcome("refused", FALSE, "error"),
                Outcome("refused", TRUE, "error"),
                Outcome("timeout", TRUE, "transient"), Outcome("timeout", FALSE, "transient"),
                Outcome("refused", TRUE, "transient"), Outcome("refused", FALSE, "transient") }

\* The same with a response that gets lost on its way: the client sees a timeout,
\* a broken connection or gateway_unavailable.
Outcomes(key, asks) ==
    Handled(key, asks) \cup
    {Outcome(o.key, o.effect, a) : o \in Handled(key, asks), a \in {"transient", "error"}}

\* The key of _execute_node: workflow, node and attempt.
Attempt(h) == IF mine[h].attempts[cur[h]] = 0 THEN 1 ELSE mine[h].attempts[cur[h]]

\* _execute_node: the tool of the node.
Call(h) ==
    LET n == cur[h] IN
    \E o \in Outcomes(keys[n][Attempt(h)], n \in Governed /\ mine[h].approval[n] = "none") :
        /\ Goto(h, "call", "settle")
        /\ keys' = [keys EXCEPT ![n][Attempt(h)] = o.key]
        /\ effects' = [effects EXCEPT ![n] = IF o.effect THEN @ + 1 ELSE @]
        /\ answer' = [answer EXCEPT ![h] = o.answer]
        /\ UNCHANGED <<saved, outbox, requests, mine, cur, completed>>

\* PENDING_APPROVAL: the run ends, the workflow waits.
Wait(h) ==
    LET n == cur[h] IN
    /\ answer[h] = "pending"
    /\ Goto(h, "settle", "idle")
    /\ Checkpoint(h, [With(h, n, "WAITING_APPROVAL") EXCEPT !.status = "WAITING_APPROVAL",
                                                            !.approval[n] = "held"],
                  <<"workflow.approval.required", n>>)
    /\ NodeStep

\* Mutant: a transient failure counts as success.
GoodAnswers(a) == a \in {"ok", "transient"}

IsOk(a) == a = "ok"

Succeed(h) ==
    /\ IsOk(answer[h])
    /\ Goto(h, "settle", "scan")
    /\ Checkpoint(h, With(h, cur[h], "SUCCEEDED"), <<"workflow.node.succeeded", cur[h]>>)
    /\ completed' = [completed EXCEPT ![h] = @ \cup {cur[h]}]
    /\ UNCHANGED <<cur, answer>>

RetryAllowed(h) ==
    /\ answer[h] = "transient"
    /\ cur[h] \in Backoff \cap Retryable
    /\ mine[h].attempts[cur[h]] <= MaxRetries[cur[h]]

Fail(h) ==
    /\ ~IsOk(answer[h]) /\ answer[h] # "pending"
    /\ Goto(h, "settle", IF RetryAllowed(h) THEN "retry"
                         ELSE IF cur[h] \in Compensable THEN "compensate" ELSE "finish")
    /\ Checkpoint(h, With(h, cur[h], "FAILED"), <<"workflow.node.failed", cur[h]>>)
    /\ NodeStep

ScheduleRetry(h) ==
    /\ Goto(h, "retry", "idle")
    /\ Checkpoint(h, With(h, cur[h], "RETRYING"), <<"workflow.node.retrying", cur[h]>>)
    /\ NodeStep

Compensate(h) ==
    /\ Goto(h, "compensate", "undo")
    /\ Checkpoint(h, With(h, cur[h], "COMPENSATING"), <<"workflow.compensation.started", cur[h]>>)
    /\ NodeStep

\* _execute_node with the compensation tool, under the key of the failed attempt and
\* with the approval of the failed tool, which does not fit it.  A tool that is not
\* executable is refused before the gateway looks at the key.
UndoOutcomes(n, key, approval) ==
    IF n \notin Undoable
    THEN {Outcome(key, FALSE, "error"), Outcome(key, FALSE, "transient")}
    ELSE { o \in Outcomes(key, n \in Governed /\ approval = "none") :
              n \in Governed /\ key = "free" /\ approval # "none" => ~o.effect /\ o.answer # "ok" }

\* An exception of the client is not caught here: the run ends.
Undo(h) ==
    LET n == cur[h] IN
    \E o \in UndoOutcomes(n, keys[n][Attempt(h)], mine[h].approval[n]) :
        /\ Goto(h, "undo", "undone") \/ (o.answer = "transient" /\ Goto(h, "undo", "idle"))
        /\ keys' = [keys EXCEPT ![n][Attempt(h)] = o.key]
        /\ answer' = [answer EXCEPT ![h] = o.answer]
        /\ UNCHANGED <<saved, outbox, requests, mine, cur, completed, effects>>

\* response.ok, which a response that asks for an approval is too.
Compensated(h) ==
    /\ answer[h] \in {"ok", "pending"}
    /\ Goto(h, "undone", "scan")
    /\ Checkpoint(h, With(h, cur[h], "COMPENSATED"), <<"workflow.compensation.completed", cur[h]>>)
    /\ completed' = [completed EXCEPT ![h] = @ \cup {cur[h]}]
    /\ UNCHANGED <<cur, answer>>

NotCompensated(h) ==
    /\ answer[h] \notin {"ok", "pending"}
    /\ Goto(h, "undone", "finish")
    /\ Checkpoint(h, With(h, cur[h], "FAILED"), <<"workflow.compensation.completed", cur[h]>>)
    /\ NodeStep

FinalStatus(w) == IF \E n \in Nodes : w.node[n] \in Failing THEN "FAILED" ELSE "COMPLETED"

\* _finish_workflow, at the end of the loop or when a node failed.
Finish(h) ==
    LET status == FinalStatus(mine[h]) IN
    /\ Goto(h, "finish", "idle") \/ (Exhausted(h) /\ Goto(h, "scan", "idle"))
    /\ Checkpoint(h, [mine[h] EXCEPT !.status = status], <<"workflow.completed", status>>)
    /\ NodeStep

\* The process dies, or a save fails: what was saved stays.
Die(h) ==
    /\ MayDie
    /\ pc[h] # "idle"
    /\ pc' = [pc EXCEPT ![h] = "idle"]
    /\ UNCHANGED <<saved, outbox, requests, mine, cur, completed, answer, gatewayVars>>

----------------------------------------------------------------------------

Run(h) ==
    \/ SaveRequest(h) \/ Start(h) \/ NotDue(h) \/ Block(h) \/ ConditionFails(h) \/ Skip(h)
    \/ Ready(h) \/ Queue(h) \/ EvaluatePolicy(h) \/ Refuse(h) \/ Begin(h) \/ Bind(h) \/ Call(h)
    \/ Wait(h) \/ Succeed(h) \/ Fail(h) \/ ScheduleRetry(h) \/ Compensate(h) \/ Undo(h)
    \/ Compensated(h) \/ NotCompensated(h) \/ Finish(h)

Arrive(h) == Execute(h) \/ Resume(h) \/ (\E n \in Nodes : RetryNode(h, n)) \/ Cancel(h)

\* Every request that can arrive has arrived and was handled.
Quiet ==
    /\ \A h \in Handlers : pc[h] = "idle"
    /\ UNCHANGED vars

Next == (\E h \in Handlers : Arrive(h) \/ Run(h) \/ Die(h)) \/ Quiet

Spec == Init /\ [][Next]_vars

\* A handler that has a step to take takes it: it runs on a thread of the server,
\* and the gateway client has a timeout.
FairSpec == Spec /\ \A h \in Handlers : WF_vars(Run(h))

----------------------------------------------------------------------------
(* properties *)

\* A tool is called only after every node it depends on was completed: succeeded,
\* was skipped or was compensated, in this run or in one before, whatever other
\* handlers saved in between.
DependenciesFirst ==
    \A h \in Handlers :
        pc[h] = "call" =>
            \A d \in DependsOn[cur[h]] :
                \/ <<"workflow.node.succeeded", d>> \in outbox
                \/ <<"workflow.node.skipped", d>> \in outbox
                \/ <<"workflow.compensation.completed", d>> \in outbox

\* A workflow that is stored as COMPLETED has no node that failed, was refused,
\* or is still to be done, although handlers overwrite each other.
CompletedMeansDone ==
    saved.status = "COMPLETED" =>
        \A n \in Nodes : saved.node[n] \in Completed \cup {"CANCELLED"}

\* A node that was ever announced as succeeded has taken effect at the gateway.
SuccessIsReal == \A n \in Nodes : <<"workflow.node.succeeded", n>> \in outbox => effects[n] > 0

\* What the store says of a workflow was announced: a final status and the status
\* of a node that was carried out have their event in the outbox.
StoredWasAnnounced ==
    /\ saved.status \in {"COMPLETED", "FAILED"} => <<"workflow.completed", saved.status>> \in outbox
    /\ \A n \in Nodes :
        /\ saved.node[n] = "SUCCEEDED" => <<"workflow.node.succeeded", n>> \in outbox
        /\ saved.node[n] = "WAITING_APPROVAL" => <<"workflow.approval.required", n>> \in outbox
        /\ saved.node[n] = "COMPENSATED" => <<"workflow.compensation.completed", n>> \in outbox

\* docs/workflow-resiliency.md: recovery "without ... restarting completed workflow
\* nodes".  A node that was announced as succeeded is not started again.
CompletedNotRestarted ==
    \A h \in Handlers : pc[h] = "call" => <<"workflow.node.succeeded", cur[h]>> \notin outbox

\* The durable checkpoints: a tool never took effect more often than the stored
\* workflow has attempts, wherever a handler died, so a resume never takes an
\* attempt for unused that was used.
EffectsCounted == \A n \in Nodes : effects[n] <= saved.attempts[n]

\* Every request comes to an end: the run loop settles a node in every round.
RequestsEnd == \A h \in Handlers : pc[h] # "idle" ~> pc[h] = "idle"
=============================================================================
