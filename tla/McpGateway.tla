----------------------------- MODULE McpGateway -----------------------------
(***************************************************************************)
(* McpGateway.call_tool of service.py: concurrent tool calls over the      *)
(* shared rate limiter, idempotency store and approval store, together     *)
(* with the human decisions of approve_operation and reject_operation and  *)
(* the readers that expire approvals.  A call holds no lock between two    *)
(* store operations: each action below is what a call does up to and       *)
(* including one of them.                                                  *)
(***************************************************************************)
EXTENDS ApprovalStore, IdempotencyStore, RateLimiter

CONSTANTS
    Calls,          \* the invocations of call_tool
    Keys,           \* idempotency_key values
    Tools,          \* tool_name values
    ToolOf,         \* operation -> its tool
    Governed,       \* tools whose metadata has requires_approval
    Permitted,      \* pairs (principal, tool): token valid, tool registered, enabled and
                    \* executable, and the principal's role has required_permission
    Malformed,      \* operations whose arguments the domain schema rejects
    Approvers,      \* principals authorize_approval accepts: approvals:approve, not AI_AGENT
    Requests,       \* the GatewayToolRequest values that clients send
    NoRequest,      \* what a call that has not arrived has for a request
    NoApproval,     \* approval_id None
    Isolation,      \* MCP_TOOL_EXECUTION_ISOLATION
    MaxClock        \* bound on time

ASSUME GatewayAssumption ==
    /\ ApprovalIds = Calls
    /\ NoApproval \notin Calls
    /\ IdemKeys = Principals \X Keys
    /\ Buckets = Principals \X Tools
    /\ Responses = [outcome : {"SUCCEEDED", "PENDING", "DENIED"}, by : Calls]
    /\ ToolOf \in [Operations -> Tools]
    /\ Governed \subseteq Tools
    /\ Permitted \subseteq Principals \X Tools
    /\ Malformed \subseteq Operations
    /\ Approvers \subseteq Principals
    /\ Requests \subseteq [principal : Principals, op : Operations, key : Keys,
                           approval : Calls \cup {NoApproval}]
    /\ NoRequest \notin Requests
    /\ Isolation \in {"inline", "thread", "process"}
    /\ MaxClock \in Nat

VARIABLES
    clock,          \* self.clock()
    pc,             \* where a call stands in call_tool
    req,            \* its request
    at,             \* `now`: the clock when the call arrived
    grant,          \* `approval`: the approval it executes under, or NoApproval
    tool,           \* the tool run it started
    answer          \* the response it returned

callVars == <<pc, req, at, grant, tool, answer>>
vars == <<approvalVars, idemVars, rateVars, clock, callVars>>

Locations == {"idle", "rate", "reserve", "approval", "start", "running", "executed",
              "failed", "succeed", "denyReserved", "deny", "done", "raised"}

TypeOK ==
    /\ ApprovalStoreTypeOK
    /\ IdemTypeOK
    /\ RateTypeOK
    /\ clock \in Nat
    /\ pc \in [Calls -> Locations]
    /\ req \in [Calls -> Requests \cup {NoRequest}]
    /\ at \in [Calls -> Nat]
    /\ grant \in [Calls -> Calls \cup {NoApproval}]
    /\ tool \in [Calls -> {"none", "running", "done", "error", "killed"}]
    /\ answer \in [Calls -> Responses \cup {NoResponse}]

Init ==
    /\ ApprovalStoreInit
    /\ IdemInit
    /\ RateInit
    /\ clock = 0
    /\ pc = [c \in Calls |-> "idle"]
    /\ req = [c \in Calls |-> NoRequest]
    /\ at = [c \in Calls |-> 0]
    /\ grant = [c \in Calls |-> NoApproval]
    /\ tool = [c \in Calls |-> "none"]
    /\ answer = [c \in Calls |-> NoResponse]

----------------------------------------------------------------------------

IdemKey(c) == <<req[c].principal, req[c].key>>
Bucket(c) == <<req[c].principal, ToolOf[req[c].op]>>
RequiresApproval(c) == ToolOf[req[c].op] \in Governed

Goto(c, from, to) == pc[c] = from /\ pc' = [pc EXCEPT ![c] = to]

\* The call ends with this response.
Return(c, response) ==
    /\ answer' = [answer EXCEPT ![c] = response]
    /\ UNCHANGED <<req, at, grant, tool>>

StayInCall == UNCHANGED <<req, at, grant, tool, answer>>

\* An approval id no call has drawn yet; uuid4 never repeats one, so a call may
\* as well use its own name.
FreshApproval(c) == c

----------------------------------------------------------------------------
(* call_tool, in the order of the code *)

\* now = self.clock(), authenticate, _metadata, _check_tool_enabled,
\* _check_tool_executable, authorize: nothing here changes shared state.
Arrive(c, r) ==
    /\ Goto(c, "idle", IF <<r.principal, ToolOf[r.op]>> \in Permitted THEN "rate" ELSE "deny")
    /\ req' = [req EXCEPT ![c] = r]
    /\ at' = [at EXCEPT ![c] = clock]
    /\ UNCHANGED <<approvalVars, idemVars, rateVars, clock, grant, tool, answer>>

\* rate_limiter.check, then _validate_domain_arguments: a malformed call has
\* used up its share of the rate limit.
CheckRate(c) ==
    /\ \/ /\ Goto(c, "rate", IF req[c].op \in Malformed THEN "deny" ELSE "reserve")
          /\ Admit(Bucket(c), at[c])
       \/ /\ Goto(c, "rate", "deny")
          /\ Refuse(Bucket(c), at[c])
    /\ StayInCall
    /\ UNCHANGED <<approvalVars, idemVars, clock>>

\* idempotency.reserve of a new key.
ReserveKey(c) ==
    /\ Goto(c, "reserve", "approval")
    /\ Reserve(IdemKey(c), at[c])
    /\ StayInCall
    /\ UNCHANGED <<approvalVars, rateVars, clock>>

\* idempotency.reserve of a known key: replay the stored response.
Replay(c) ==
    /\ Goto(c, "reserve", "done")
    /\ Replayable(IdemKey(c), at[c])
    /\ ReserveKnown(IdemKey(c), at[c])
    /\ Return(c, keys[IdemKey(c)].response)
    /\ UNCHANGED <<approvalVars, rateVars, clock>>

\* idempotency.reserve raises DuplicateOperation.
RefuseDuplicate(c) ==
    /\ Goto(c, "reserve", "deny")
    /\ ~Replayable(IdemKey(c), at[c])
    /\ ReserveKnown(IdemKey(c), at[c])
    /\ StayInCall
    /\ UNCHANGED <<approvalVars, rateVars, clock>>

\* _approval_for_request and the policy let the call run without an approval.
NeedNoApproval(c) ==
    /\ Goto(c, "approval", "start")
    /\ ~RequiresApproval(c)
    /\ StayInCall
    /\ UNCHANGED <<approvalVars, idemVars, rateVars, clock>>

\* The policy answers PENDING_APPROVAL.  The reservation of the idempotency key
\* is neither completed nor released.
AskApproval(c) ==
    /\ Goto(c, "approval", "done")
    /\ RequiresApproval(c)
    /\ req[c].approval = NoApproval
    /\ CreateApproval(FreshApproval(c), req[c].principal, req[c].op, at[c])
    /\ Return(c, [outcome |-> "PENDING", by |-> c])
    /\ UNCHANGED <<idemVars, rateVars, clock>>

\* Mutant: the approval is not compared with the requested operation.
UsableForAnything(a, c) ==
    /\ Found(a, at[c])
    /\ approvals[a].status = "APPROVED"

\* _approval_for_request accepts: the record fits the tool, the arguments and the
\* workflow node, and is APPROVED.  Who calls is not compared with the requester.
Usable(a, c) ==
    /\ Found(a, at[c])
    /\ approvals[a].op = req[c].op
    /\ approvals[a].status = "APPROVED"

UseApproval(c) ==
    /\ Goto(c, "approval", "start")
    /\ RequiresApproval(c)
    /\ req[c].approval # NoApproval
    /\ Usable(req[c].approval, c)
    /\ grant' = [grant EXCEPT ![c] = req[c].approval]
    /\ UNCHANGED <<approvalVars, idemVars, rateVars, clock, req, at, tool, answer>>

\* _approval_for_request raises: unknown, expired (possibly by this very read),
\* mismatched or not APPROVED.
RefuseApproval(c) ==
    LET a == req[c].approval IN
    /\ Goto(c, "approval", "denyReserved")
    /\ RequiresApproval(c)
    /\ a # NoApproval
    /\ ~Usable(a, c)
    /\ IF Overdue(a, at[c]) THEN ExpireOnRead(a, at[c]) ELSE UNCHANGED approvalVars
    /\ StayInCall
    /\ UNCHANGED <<idemVars, rateVars, clock>>

\* _mark_idempotency_running, then _execute_with_deadline starts the tool.
StartTool(c) ==
    /\ Goto(c, "start", "running")
    /\ MarkRunning(IdemKey(c))
    /\ tool' = [tool EXCEPT ![c] = "running"]
    /\ UNCHANGED <<approvalVars, rateVars, clock, req, at, grant, answer>>

\* The tool itself, in its thread or process: it takes effect, or it ends in an
\* error without effect.  After a timeout a thread goes on.
ToolEnds(c, end) ==
    /\ tool[c] = "running"
    /\ tool' = [tool EXCEPT ![c] = end]
    /\ UNCHANGED <<approvalVars, idemVars, rateVars, clock, pc, req, at, grant, answer>>

\* _execute_with_deadline returns what the tool returned; an error result is
\* raised as MalformedArguments.
ToolReturns(c) ==
    /\ tool[c] \in {"done", "error"}
    /\ Goto(c, "running", IF tool[c] = "done" THEN "executed" ELSE "failed")
    /\ StayInCall
    /\ UNCHANGED <<approvalVars, idemVars, rateVars, clock>>

\* Mutant: a lost tool run is taken for a completed one.
ToolLostAsSuccess(c) ==
    /\ Isolation # "inline"
    /\ Goto(c, "running", "executed")
    /\ tool' = [tool EXCEPT ![c] =
                   IF @ = "running" /\ Isolation = "process" THEN "killed" ELSE @]
    /\ UNCHANGED <<approvalVars, idemVars, rateVars, clock, req, at, grant, answer>>

\* Mutant: future.result() without a timeout, so only processes have a deadline.
ToolLostOnlyInProcess(c) ==
    /\ Isolation = "process"
    /\ Goto(c, "running", "failed")
    /\ tool' = [tool EXCEPT ![c] = IF @ = "running" THEN "killed" ELSE @]
    /\ UNCHANGED <<approvalVars, idemVars, rateVars, clock, req, at, grant, answer>>

\* ToolTimeout, or ServiceUnavailable because the worker process went away: the
\* effect may have happened.  A process is killed, a thread runs on.
ToolLost(c) ==
    /\ Isolation # "inline"
    /\ Goto(c, "running", "failed")
    /\ tool' = [tool EXCEPT ![c] =
                   IF @ = "running" /\ Isolation = "process" THEN "killed" ELSE @]
    /\ UNCHANGED <<approvalVars, idemVars, rateVars, clock, req, at, grant, answer>>

\* The handler raises something that is not a GatewayError: it leaves call_tool,
\* and nothing is marked, audited or completed.  A worker process turns it into
\* ServiceUnavailable.
ToolRaises(c) ==
    /\ Isolation # "process"
    /\ tool[c] \in {"done", "error"}
    /\ Goto(c, "running", "raised")
    /\ StayInCall
    /\ UNCHANGED <<approvalVars, idemVars, rateVars, clock>>

\* The except clause around the execution: approvals.mark_failed, which may
\* itself raise ApprovalDenied.
RecordFailure(c) ==
    /\ Goto(c, "failed", "denyReserved")
    /\ IF grant[c] # NoApproval /\ CanMarkFailed(grant[c])
       THEN MarkFailed(grant[c])
       ELSE UNCHANGED approvalVars
    /\ StayInCall
    /\ UNCHANGED <<idemVars, rateVars, clock>>

\* approvals.mark_executed, after the tool took effect.
RecordExecution(c) ==
    /\ \/ /\ grant[c] = NoApproval
          /\ Goto(c, "executed", "succeed")
          /\ UNCHANGED approvalVars
       \/ /\ grant[c] # NoApproval
          /\ MarkExecuted(grant[c])
          /\ Goto(c, "executed", "succeed")
       \/ /\ grant[c] # NoApproval
          /\ ~CanMarkExecuted(grant[c])
          /\ Goto(c, "executed", "denyReserved")
          /\ UNCHANGED approvalVars
    /\ StayInCall
    /\ UNCHANGED <<idemVars, rateVars, clock>>

\* _success and _complete_idempotency.
Succeed(c) ==
    LET response == [outcome |-> "SUCCEEDED", by |-> c] IN
    /\ Goto(c, "succeed", "done")
    /\ Complete(IdemKey(c), "SUCCEEDED", response, clock)
    /\ Return(c, response)
    /\ UNCHANGED <<approvalVars, rateVars, clock>>

\* The outer except clause: _failure, and _complete_idempotency when the key
\* was reserved by this call.
Deny(c) ==
    LET response == [outcome |-> "DENIED", by |-> c] IN
    /\ \/ /\ Goto(c, "denyReserved", "done")
          /\ Complete(IdemKey(c), "PERMANENT_FAILED", response, clock)
       \/ /\ Goto(c, "deny", "done")
          /\ UNCHANGED idemVars
    /\ Return(c, response)
    /\ UNCHANGED <<approvalVars, rateVars, clock>>

----------------------------------------------------------------------------
(* the other entry points, and time *)

\* The stamp of a request about approval a: somewhere between the creation of a,
\* before which nobody knows its id, and now.
Stamps(a) == {t \in approvals[a].createdAt .. clock : approvals[a].status # "NONE"}

Others == UNCHANGED <<idemVars, rateVars, clock, callVars>>

\* Mutant: requesters may decide their own approvals.
AuthorizedApprovalOfOwn(p, a) == p \in Approvers

\* authorize_approval
AuthorizedApproval(p, a) == p \in Approvers /\ p # approvals[a].requester

ApproveOperation(p, a) ==
    /\ AuthorizedApproval(p, a)
    /\ \E t \in Stamps(a) : Approve(a, p, t)
    /\ Others

RejectOperation(p, a) ==
    /\ AuthorizedApproval(p, a)
    /\ \E t \in Stamps(a) : Reject(a, p, t)
    /\ Others

\* get() in approve_operation and reject_operation, before anything is
\* authorized, and detail() in get_approval: an overdue record expires.
ReadApproval(a) ==
    /\ \E t \in Stamps(a) : ExpireOnRead(a, t)
    /\ Others

\* list_approvals, which expires what was overdue when its request arrived.
ListApprovals ==
    /\ \E t \in 0 .. clock :
        /\ \E a \in ApprovalIds : Overdue(a, t)
        /\ ExpirePending(t)
    /\ Others

Tick ==
    /\ clock < MaxClock
    /\ clock' = clock + 1
    /\ UNCHANGED <<approvalVars, idemVars, rateVars, callVars>>

----------------------------------------------------------------------------

CallStep(c) ==
    \/ CheckRate(c) \/ ReserveKey(c) \/ Replay(c) \/ RefuseDuplicate(c)
    \/ NeedNoApproval(c) \/ AskApproval(c) \/ UseApproval(c) \/ RefuseApproval(c)
    \/ StartTool(c) \/ ToolReturns(c) \/ ToolLost(c) \/ ToolRaises(c)
    \/ RecordFailure(c) \/ RecordExecution(c) \/ Succeed(c) \/ Deny(c)

\* Every request was answered and no tool is left running.
Finished ==
    /\ \A c \in Calls : pc[c] \in {"done", "raised"} /\ tool[c] # "running"
    /\ clock = MaxClock
    /\ UNCHANGED vars

Next ==
    \/ \E c \in Calls, r \in Requests : Arrive(c, r)
    \/ \E c \in Calls : CallStep(c)
    \/ \E c \in Calls, end \in {"done", "error"} : ToolEnds(c, end)
    \/ \E p \in Principals, a \in ApprovalIds : ApproveOperation(p, a) \/ RejectOperation(p, a)
    \/ \E a \in ApprovalIds : ReadApproval(a)
    \/ ListApprovals
    \/ Tick
    \/ Finished

\* A thread of the server that has a step to take takes it; the deadline of
\* _execute_with_deadline belongs to those steps.  Tools, people and clients
\* promise nothing.
Fairness == \A c \in Calls : WF_vars(CallStep(c))

Spec == Init /\ [][Next]_vars

FairSpec == Spec /\ Fairness

----------------------------------------------------------------------------
(* properties *)

\* What a call that holds an approval knows about it, from the moment
\* _approval_for_request returned it until the call is over.
GrantHeld ==
    \A c \in Calls :
        /\ grant[c] # NoApproval =>
              /\ RequiresApproval(c)
              /\ approvals[grant[c]].op = req[c].op
              /\ approvals[grant[c]].status \in {"APPROVED", "EXECUTED", "FAILED"}
        /\ pc[c] \in {"idle", "rate", "reserve", "approval", "deny"} =>
              grant[c] = NoApproval /\ tool[c] = "none"
        /\ pc[c] \in {"start", "running", "executed", "failed", "succeed"} \/ tool[c] # "none" =>
              (RequiresApproval(c) => grant[c] # NoApproval)

\* Who decided an approval, by its status.
DecidedByAnother ==
    \A a \in ApprovalIds :
        LET r == approvals[a] IN
        /\ r.status \in {"APPROVED", "EXECUTED", "FAILED"} => r.approvedBy \in Approvers \ {r.requester}
        /\ r.status \in {"NONE", "PENDING"} => r.approvedBy = Nobody /\ r.rejectedBy = Nobody

\* The inductive invariant behind GovernedRunsGranted and ImplementsLifecycle.
GrantInv == GrantHeld /\ DecidedByAnother

\* A governed tool is only ever started for an operation that an authorized human
\* other than the requester granted, and no later rejection, expiry or failure
\* takes that grant back (call_tool checks the approval long before it runs the
\* tool, and holds no lock in between).
GovernedRunsGranted ==
    \A c \in Calls :
        tool[c] # "none" /\ RequiresApproval(c) =>
            /\ grant[c] # NoApproval
            /\ LET g == approvals[grant[c]] IN
               /\ g.approvedBy \in Approvers \ {g.requester}
               /\ g.op = req[c].op
               /\ g.status \in {"APPROVED", "EXECUTED", "FAILED"}

\* However many calls race with one approval, at most one of them is told that
\* it succeeded (mark_executed re-reads the status under the lock).
OneSuccessPerApproval ==
    \A c, d \in Calls :
        /\ grant[c] # NoApproval /\ grant[c] = grant[d]
        /\ answer[c] = [outcome |-> "SUCCEEDED", by |-> c]
        /\ answer[d] = [outcome |-> "SUCCEEDED", by |-> d]
        => c = d

\* What the trail of an approval says: an execution is audited once, as the end of
\* a trail in which it follows the grant, the record and its events say the same,
\* and a tool run under the approval took effect (call_tool marks it when the tool
\* is done, while others approve, expire, list, time out and use it as well).
ExecutedApprovalRan ==
    \A a \in ApprovalIds :
        (\E i \in DOMAIN audit[a] : audit[a][i] = "EXECUTED") =>
            /\ audit[a] = <<"PENDING", "APPROVED", "EXECUTED">>
            /\ events[a] = audit[a]
            /\ approvals[a].status = "EXECUTED"
            /\ approvals[a].version = Len(audit[a])
            /\ \E c \in Calls : grant[c] = a /\ tool[c] = "done"

\* Under one idempotency key at most one call starts a tool, as long as the
\* store did not have to forget the key.
OneRunPerKey ==
    \A c, d \in Calls :
        /\ tool[c] # "none" /\ tool[d] # "none"
        /\ IdemKey(c) = IdemKey(d)
        /\ IdemKey(c) \notin forgotten
        => c = d

\* A response that was made for another call is that call's own final response,
\* under the same principal and key, and the replaying call ran nothing.
ReplayFaithful ==
    \A c \in Calls :
        answer[c] # NoResponse =>
            LET d == answer[c].by IN
            d # c => /\ answer[d] = answer[c]
                     /\ IdemKey(d) = IdemKey(c)
                     /\ tool[c] = "none"
                     /\ answer[c].outcome = "SUCCEEDED" => tool[d] = "done"

\* The idempotency store forgets a key only after its retention time, measured
\* on the real clock although reserve() works with stamps of the past, or when full.
KeysKeptForRetention == [][ForgetsOnlyOldKeys(clock)]_vars

\* The approval store, driven by racing calls and people, goes through the
\* lifecycle of docs/architecture/approval-workflow.md and nothing else.
Lifecycle == INSTANCE ApprovalLifecycle WITH
    phase   <- [a \in ApprovalIds |-> approvals[a].status],
    asker   <- [a \in ApprovalIds |-> approvals[a].requester],
    decider <- [a \in ApprovalIds |-> IF approvals[a].approvedBy # Nobody
                                      THEN approvals[a].approvedBy
                                      ELSE approvals[a].rejectedBy]

ImplementsLifecycle == Lifecycle!LifecycleSpec

\* Every call that arrived is answered, or leaves with an exception, and then has
\* ended for good, also when its tool hangs (_execute_with_timeout has a deadline)
\* and whatever became of its approval and of its idempotency key meanwhile.
CallsAnswered ==
    <>[](\A c \in Calls : pc[c] \in {"idle", "done", "raised"})
=============================================================================
