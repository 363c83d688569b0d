# MCP_AI: TLA+ models, checks and proofs

MCP_AI plans engineering workflows with a language model and executes them
through a governed gateway. This directory models the parts of it that decide
*whether, how often and on what grounds something happens to the outside world*:
the gateway with its stores, in memory and in SQL; the workflow from the request
through discovery, planning and validation to its execution, its storage and the
events about it; the chat agent; the simulated devices with their diagnosis; and
the search in the engineering documents. The modules are written from the Python
source; `PROJECT.json` maps every definition to the lines it models.

Paths below are relative to the repository root. `AG` is
`services/ai-agent/src/mcp_ops_ai_agent`, `GW` is
`services/mcp-gateway/src/mcp_ops_mcp_gateway`.

## 1. Inventory

| Component | State | Operations | What makes it correct |
|---|---|---|---|
| Gateway call pipeline (`GW/service.py`) | a call's locals; the tool thread or process | `call_tool`, `approve_operation`, `reject_operation`, `get_approval`, `list_approvals` | a governed tool runs only under a matching grant of another, authorized person; every call is answered; at most one success per approval |
| In-memory stores (`GW/stores.py`) | approvals, events, audit; idempotency records; deques of stamps | the methods of `ApprovalStore`, `IdempotencyStore`, `FixedWindowRateLimiter` | the documented lifecycle; one run per remembered key, faithful replays; no more than the limit in a window, but for calls that were overtaken |
| SQL stores (`GW/persistence.py`) | rows | the same methods, as sessions without row locks | the same, as far as concurrent requests leave it |
| Authentication (`GW/auth.py`, `GW/app.py`, `apps/api/.../main.py`) | none | token and claim checks, actor of a request, service token | a run acts under the role of a good token |
| Workflow engine (`AG/workflows/service.py`) | one stored workflow, a copy in every request handler | `execute`, `resume`, `retry_node`, `cancel`, the run loop, retries, approval waits, compensation | dependencies first, a crash loses no knowledge of effects, every request ends |
| Workflow planning (`AG/workflows/{service,planner,validator,policy}.py`, `AG/tool_discovery`, `AG/capabilities`) | a draft on its way | `plan` | a plan that is saved can be run, and governance agrees with discovery |
| Provider client (`AG/workflows/planner.py`) | circuit breaker shared by threads | a completion with retries, one correction | opens on consecutive failures only, closes again |
| Workflow store and outbox (`apps/api/.../db/repositories.py`, `AG/workflows/events.py`) | rows of workflows, nodes, events | save with event, load, drain, mark published or failed | no event without its save and none lost, row and nodes agree |
| Agent and gateway client (`AG/service.py`, `AG/gateway.py`) | a chat's locals | chat, restart request and execution, ticket | a reported success is backed by an effect, chats end |
| Simulator and diagnostics (`services/simulator-gateway`, `packages/mcp`) | devices, topics, processed ids | scenarios, telemetry, consumption, restart, configuration, diagnosis | each event applied once, diagnosis fits the device, no incident without its alert |
| Engineering RAG (`AG/engineering_rag`) | documents of a process, a shared index | index, search | nothing lost by ingestion but what is cut off long chunks, answers depend on the index only where they may |
| Domain servers, frontend, observability, evaluation | | | see section 6 |

Interactions. The API calls the agent and the workflow engine on a server thread
per request. The engine calls the gateway once per attempt of a node and saves
the whole workflow together with one outbox event at every checkpoint; drainers
publish these events. The agent calls the gateway through a client that repeats
a request under its key. The gateway checks authentication, RBAC, rate,
arguments, idempotency key and approval, in that order, runs the tool under a
deadline and writes the outcome back to the approval and to the key. People
approve and reject through the gateway at any time.

What is hard here: nothing holds a lock across two steps of a call, so every
check can be stale when it is used; stamps are read before a lock is waited for;
tools outlive their deadline and answers get lost; processes die between an
effect and its record; handlers overwrite each other's copies of a workflow; SQL
stores read and write in different sessions; a breaker and a set of processed
ids are shared between threads without a lock; processes of different versions
share one index. `PROJECT.json` lists these hazards with the line where each
bites and the properties that would catch it.

## 2. Modules

| Module | Models | State and actions |
|---|---|---|
| `ApprovalLifecycle` | the lifecycle the documents promise (`docs/architecture/approval-workflow.md`), read off `ApprovalStatus` and the store's transitions | phase, asker and decider of every approval; the abstract specification |
| `ApprovalStore`, `IdempotencyStore`, `RateLimiter` | `GW/stores.py` | one operator per method, each atomic because each holds the lock; `forgotten` and `checked` are history variables |
| `McpGateway` | `GW/service.py`, composing the three stores | a program counter per call (the steps between which other threads may act), the stamp a call took on arrival, the approval it holds, what its tool is doing, its answer |
| `SqlApprovalStore` | `SqlAlchemyApprovalStore` of `GW/persistence.py` | the row, its event rows and audit rows; requests as sequences of SELECT and UPDATE steps under read committed |
| `GatewayAuth`, `SqlGatewayCalls` | `GW/auth.py`, `GW/app.py`, the SQL rate limiter and idempotency store, and the path of a call through them | rows of both tables, handlers (the endpoint is synchronous, so requests run on a thread pool, also in one process) with the session each has open, tokens that expire |
| `WorkflowEngine` | `AG/workflows/service.py` and the saves behind it | the stored workflow, the outbox, a program counter and a copy of the workflow per handler; the gateway as the set of its idempotency keys and effects |
| `WorkflowStore` | the workflow repository and the outbox drain, statement by statement | committed row, node rows and events, transactions with the locks they hold, drainers with the set of events each holds, of which it publishes the oldest first |
| `WorkflowPolicy`, `ToolDiscovery`, `CapabilityGraph`, `WorkflowPlanner`, `WorkflowValidator` | pure functions: roles and policy rules, selection of tools, path search, compilation of drafts, validation | operators; the searches are recursive functions over the edges |
| `WorkflowPlanning` | `WorkflowPlanningService.plan`, composing the five | one request: its discovery, draft, issues and stored nodes |
| `PlannerProvider` | `ProviderResilientCompletionClient` and the correction of `LLMWorkflowPlanner` | the breaker's fields, a program counter per thread; a method that calls in between is several steps |
| `AgentOrchestrator` | `AG/service.py`, `AG/gateway.py`, the ticket and restart tools, and the gateway as the client sees it | chats, keys, approvals, effects, lost answers |
| `DeviceHealth`, `DeviceSimulator` | `services/simulator-gateway` and the domain tools on its registry | devices, topics, processed ids, a program counter per thread that processes telemetry; health, alert and incident are published by one step each, on topics that are read in between; on Kafka the publisher may raise and the process die |
| `KnowledgeRanking`, `EngineeringRag` | `AG/engineering_rag` | pure chunking, scoring and ranking; processes that index and search over one index |
| `*Proofs` | | theorems about the module they are named after |
| `MC*` | | values of the constants for TLC, symmetry sets, a view |

Choices of abstraction. Arguments, names, words and payloads are model values or
members of small sets; an *operation* stands for a tool with its arguments, since
the approval binding compares exactly these. Time is a bounded clock; a request's
stamp is taken when it arrives and may be old when it is used. Audit of tool
responses, metrics and spans are left out; the audit records and events of
approval transitions are modelled. In `McpGateway` registry and RBAC are the
constants `Permitted`, `Governed`, `Approvers`. In `WorkflowEngine` every
checkpoint is an action of its own, and so is every gateway call, which answers
by the state of the key: replay, duplicate, or a fresh run whose effect and
answer are chosen freely, with the answer possibly lost. `Undoable` are the nodes
whose compensation tool is executable: none in the registry as it stands. In
planning, the scores of tools are an input (a ranking), a draft of the language
model is any of a set of proposals, and the value of an argument is known by how
it was obtained. Measurements of devices are tenths, scores of documents
thousandths, lengths units of a hundred characters.

## 3. Runs

| Run | Instance | Properties |
|---|---|---|
| `approval` | three calls: one asks, two use the approval under two keys and for two operations; tools in threads that may hang; clock 0..1; fair | `GovernedRunsGranted`, `OneSuccessPerApproval`, `ExecutedApprovalRan`, `ImplementsLifecycle`, `CallsAnswered` |
| `idempotency` | three ungoverned calls over two keys, one malformed, one not permitted, or four malformed calls of one bucket, which get as far as the limiter (`Workload`); room for one key; limit 2, window 2, clock 0..2; tools in processes | `OneRunPerKey`, `ReplayFaithful`, `WindowsLimited`, `KeysKeptForRetention` |
| `sql_approvals` | three requests of any kind on one approval, sessions interleaved, processes dying, a deadline at 1 of clock 0..1 | `RecordsExplained`, `RunsGranted` |
| `calls` | two handlers, three calls, two keys, room for one key, limit 1, a crash, five kinds of token | `RunsAccountedFor`, `OvershootBounded`, `KeysExplained` |
| `engine_recovery` | two nodes (the first retried once and compensable; the second governed and dependent on it), three requests one after the other, the handler dying anywhere; fair | `CompletedNotRestarted`, `EffectsCounted`, `RequestsEnd` |
| `engine_race` | the same plan with a condition on the first node, two requests of any kind at once, either dying | `DependenciesFirst`, `SuccessIsReal`, `StoredWasAnnounced` |
| `store` | two handlers and five saves with a crash; or two saves with events, two drainers and three drains with a crash | `OverwriteExplained`, `DuplicateExplained`, `OvertakenFailedFirst`, `TornExplained`, `NoCircularWait` |
| `planning` | 17 tools of the registry, requests by role, environment and goal, rankings, and proposals with missing, misnamed, cyclic and incomplete nodes | `PathIsBest`, `BuiltInDraftsSound`, `SavedPlanRunnable`, `GovernedAsDiscovered` |
| `provider` | two threads, threshold 2, two probes, cooldown 1; fair | `ClosedCountsConsecutive`, `ProviderRecovers` |
| `agent` | nine scripts of one or two chats (ask twice, ask and use, use twice, two services, tickets, reads), two attempts per call, keys and approvals that expire; fair | `PendingIsUnique`, `SuccessAnswerBacked`, `ChatsEnd` |
| `simulator` | one device, two threads, two scenario changes, two snapshots, two calls that process the topic, a clock that moves once, a publisher that raises before or after it has published, a process that dies between two events | `DiagnosisFitsScenario`, `FirstTelemetryWins`, `CriticalHasIncident` |
| `knowledge` | two processes, two starts, three versions of a corpus of up to four documents, one of which cannot be ingested; requests of all modes; OpenSearch failing anywhere; one chunk of more than 600 characters | `LossExplained`, `ForeignIndexExplained`, `MissExplained` |

Why the bounds are enough to be interesting. Two calls that use one approval and
one that asks for it give every order of check, start, mark and decision; every
stamp can be on either side of every deadline with a clock of two or three
instants; one entry of room makes the idempotency stores evict a running key;
four calls are needed for stamps 0, 0, 2, 1 to reach the limiter in this order, by
which a window gets more than its limit of 2.
For the engine, two nodes with a dependency reach every branch of the loop, and a
third request is needed for crash, resume and cancel in a row; two handlers, each
with its own copy, are the smallest race. Two transactions make every pair of
statements interleave and suffice for a cycle of locks; three drains let an event
fail, be overtaken and be published again. Threshold and probes of two tell
consecutive from total. Two chats suffice for a key to meet itself; the third
attempt of a client would repeat the second. Two telemetry snapshots of one
instant have one id and two contents. A corpus in two versions differs from
itself in chunks that only one has and in metadata that both have; its candidates
are so few that the limit of a candidate list (`CandidateMargin`) never cuts one. `OvershootBounded`
is stated for the number of requests served at once, so two handlers are enough to
exceed the limit by the call of another one; to exceed it by two, after the rows of a window were
deleted, would take a fourth call, which the proof of section 5 covers.

Every property has a mutant in `PROJECT.json`: a plausible slip in the code (a
dropped check, an off-by-one, a missing reset) under which TLC finds it violated.

Fairness. `McpGateway`, `WorkflowEngine` and `AgentOrchestrator` assume weak
fairness of the steps of a call, a handler and a chat: a server thread that can
go on does, and the deadlines of `_execute_with_deadline` and of the HTTP clients
are among these steps. Nothing is assumed of tools, people or clients; a handler
that dies owes nobody an answer. `PlannerProvider` assumes besides that time
passes and that plans keep being requested, without which a breaker has no
occasion to close; whether the provider is healthy is free.

Deadlock is checked where a run ends in an action of its own (`Finished`,
`Quiet`); the runs `agent`, `calls`, `knowledge`, `planning`, `simulator` and
`store` stop when their budget of requests is spent and say so in their
configuration. `NoCircularWait` is the deadlock that matters in `store`.

## 4. What the checks and the modelling found

The stores and the engine keep less than a reader of the documents may expect.
The properties are stated so that they say what does hold; this is what does not.

Gateway.
* An approval is checked long before it is marked executed
  (`GW/service.py:438`), so two calls under different keys both run the tool. Only
  one is told that it succeeded (`OneSuccessPerApproval`), but
  `docs/architecture/approval-workflow.md:11` says that a request executes once.
* The SQL store compares neither status nor version when it writes
  (`GW/persistence.py:487`): a rejection or an expiry can be overwritten by an
  approval that read the row before, although `approval-workflow.md:13-16` shows
  them as final. `RecordsExplained` says what is left. An expiry has no audit
  record.
* The in-memory rate limiter drops what is older than the stamp it is given, and
  that stamp was read before the lock was taken (`GW/stores.py:90`). A call with a
  newer stamp that overtakes others empties the deque under them, and a window of
  time then holds more admitted calls than the limit; `WindowsLimited` says that
  it holds no more than the limit without the calls that were overtaken in this way.
* The SQL rate limiter counts and then inserts, so that concurrent requests
  exceed the limit by one each; they need not come from different processes,
  because the endpoint is synchronous and runs on a thread pool (`GW/app.py:75`).
  Its stamp is read before its session starts, and a later call deletes the rows
  of windows it has left: a request that was delayed in between finds nothing to
  count, and each may exceed the limit by a second call (`OvershootBounded`; only
  the proof of the bound showed this case).
* The SQL idempotency store raises a database error when two requests insert one
  key, also after the tool ran; `mark_running` raises when the row is deleted
  between its SELECT and its UPDATE, and the request is answered with an error 500
  before its tool runs; `complete` inserts a row again that was evicted; eviction
  does not look at the status.
* A replay compares neither tool nor arguments with those of the call it repeats
  (`GW/stores.py:136-139`): the same key with another operation is answered with
  the result of the first.
* A token is checked by the API and again by the gateway and may expire between.
* With process isolation every run of a tool has fresh in-memory services, and
  the device and diagnostics dispatchers have registries of their own
  (`GW/service.py:127`).

Workflows.
* A second `execute` on a running workflow starts completed nodes again
  (`AG/workflows/service.py:270`), against `docs/workflow-resiliency.md:3`;
  `CompletedNotRestarted` holds for one handler at a time. The next checkpoint of
  a run overwrites a cancellation (line 792). The idempotency key contains the
  attempt, which is counted before the call, so a resume after a crash runs the
  tool again (line 928), against `workflow-resiliency.md:55`.
* The compensation of a node reuses the key of the attempt that failed (line 719):
  when only its answer was lost, the gateway would replay its success and the
  node would be stored as compensated. It becomes reachable once a compensation
  tool is executable.
* A structured condition whose source is not among the dependencies is dropped
  silently (`planner.py:1412`; `docs/ai-workflow-dags.md:77`). An alias by position
  or tool name may shadow the name of another node (`planner.py:2020`). The build
  failure draft attaches a condition on an analysis that is not in the plan, and
  is then rejected (`planner.py:893`; the exception in `BuiltInDraftsSound`).
* Explicit `required_roles` replace the permission of a tool (`policy.py:202`), so
  that an engineer may plan `deploy_staging`. The "shortest" path ignores policy
  and says that it complies.
* The version is not a count of saves: the first checkpoint of a run adds two
  (lines 399 and 806), and a save of an older copy assigns the version of that
  copy plus its own increments, which may set the stored one back. The comparison
  is with the row that the transaction itself read, so a row that meanwhile came
  to the same version again is overwritten unseen (`OverwriteExplained`).
* A save that changes no column of the row emits no UPDATE, so no version is
  compared, and row and nodes of different saves can be stored together
  (`TornExplained`). A slow drainer's failure turns a published event back into a
  failed one, which is published again, and failed events are overtaken. Nothing
  in production calls the drain.

Agent and devices.
* The key of an approved restart names device and service but no approval
  (`AG/service.py:435`): a later approved restart within the retention replays the
  success of the first, and one tried too early poisons the key. The key of a
  restart request stays reserved while the approval is pending. An approval
  without a device ends in an error 500. So does a question when the language model
  fails with anything but a `RuntimeError` (line 107). A gateway answer that is no
  JSON ends a call at once, although others are repeated (`AG/gateway.py:78`).
* A ticket's id is a digest of its payload, and its key has the first 120
  characters of the message: the same message again is answered with the old
  ticket.
* Event ids are made of topic, device and timestamp, and the clock of the
  simulator only moves when it is set: later telemetry of the same instant is
  ignored (`FirstTelemetryWins` says which one wins). An id is marked before the
  events are published, so a failing publisher or a death loses them. Health,
  alert and incident are three publications
  (`consumers.py:49`, `:55`, `:61`) on topics that `GET /simulator/events` reads: a
  CRITICAL device without incident can be seen in between, and stays when the
  process dies there; an incident without its alert cannot (`CriticalHasIncident`). `restart_service`
  leaves the scenario active.

Engineering search.
* The OpenSearch index is shared and never cleaned: a hit on a chunk that this
  process does not have raises a `KeyError` where `docs/engineering-rag.md:39`
  promises a fallback, and results are not filtered again, so another version's
  copy may let through what the request excludes (`ForeignIndexExplained`).
  Indexing that fails half-way is accepted, and an answer that is no JSON is not
  caught. Text before the first heading of a document is not ingested.
* Chunks are made of up to 900 characters, but each goes through
  `sanitize_description` before it is stored (`ingestion.py:33`), which keeps the
  first 600 (`packages/policy/.../security.py:43`): the rest of a longer chunk can
  be neither found nor quoted, nor is it searched for injected instructions.
  `LossExplained` says that nothing else is lost.

## 5. Proofs

TLAPS proves the following for every value of the constants that satisfies the
assumptions of the modules (which values are sets, natural numbers, distinct from
each other; plans are acyclic and not empty), which TLC evaluates in the runs.

`McpGatewayProofs`, for every number of calls, principals, operations, keys and
every limit:

* `TypeCorrect`: `TypeOK`, and that a call past its arrival has one of the
  requests.
* `GrantInvariant`: the inductive invariant `GrantInv`. Neither conjunct of
  `GovernedRunsGranted` is inductive: between the check of an approval and the
  start of the tool other threads act on the record. `GrantHeld` says what a
  call knows of the approval it holds at every step (the record is of its
  operation and is APPROVED, EXECUTED or FAILED, that is, can no longer be
  rejected or expire), `DecidedByAnother` says who decided a record by its
  status. The argument goes through one relation, `Evolves`: every operation of
  the store moves one record along the lifecycle and leaves the rest alone, and
  every fact of `GrantHeld` about a record is stable under it.
* `GovernedRunsAreGranted`, from `GrantInv`.
* `GatewayImplementsLifecycle`: the gateway implements `ApprovalLifecycle` under
  the refinement mapping that takes a record's status, requester and decider;
  every store operation is one step of the lifecycle or a stutter, and
  `ListApprovals`, which expires several records at once, is one step of it too.

The second half, under the same assumptions, says what the gateway's calls leave
behind. Every invariant is proved on top of `TypeOK`, `GrantInv` and
`CallShape` (where a call stands says what its tool has done), action by action:

* `OneCallSucceedsPerApproval` (`OneSuccessPerApproval`), from `WinnerInv`. The
  property speaks of answers; a call has won before, when it finds the approval
  APPROVED and marks it EXECUTED, so the invariant says that at most one call is
  past that point and that its approval is spent, which no step undoes.
* `ExecutedApprovalsRan` (`ExecutedApprovalRan`), from `TrailInv`: events and audit
  of an approval are the trail that its status says, so that an execution can be
  recorded only once and only behind a grant.
* `OneRunPerIdempotencyKey` (`OneRunPerKey`), from `OwnerInv`: from its reservation
  on a call owns its key; a key that was not forgotten is stored while it has an
  owner, and has one owner.
* `ReplaysAreFaithful` (`ReplayFaithful`), from `ReplayInv`: whatever is stored
  under a key is the final answer of the call it names, and so is what is
  answered from it. It has to be said of stored answers too, since they outlive
  the call that finds them.
* `KeysAreKept` (the action property `KeysKeptForRetention`): stamps of calls are
  never ahead of the clock, so what `reserve` finds expired is expired, and only a
  full store evicts.
  Like the store, it does not compare operations: a replay is the answer of
  a call with the same key.
* `WindowsAreLimited` (`WindowsLimited`), from `WindowInv`. The limiter compares the length
  of a deque that it may have cut with a stamp out of order. `HoldsLast` says what
  remains of the record in it: the last admitted calls, and those before them had
  expired for some stamp that was checked by then. A call that is timely for a
  window, that is, before any stamp beyond it was checked, therefore still finds
  every earlier call of that window in the deque, so that admission under the limit
  keeps the window under it; windows it is not in or not timely for do not change.

`SqlGatewayCallsProofs`, for any number of handlers, calls, keys and crashes, any
limit, window, retention and room for keys:

* `OvershootIsBounded` (`OvershootBounded`), from `Limit(w)` for every window
  ending at `w`, past or future. The bound on what has been admitted is not
  inductive: the handlers that have counted and not committed must be in it, and
  as long as no row of the window is deleted they are with the admitted calls at
  most the limit and one for each other handler, since one that counts sees what is
  committed. A row is deleted only by a handler whose stamp has left its window
  (`DroppedOld`), so that from then on no new stamp falls into it; the handlers
  that have such a stamp and did not count yet are added to the sum, one for each,
  and every step keeps or lowers it.
* `RunsAreAccountedFor` (`RunsAccountedFor`), from `ActsForToken`, and from `OwnerInv`,
  `RunInv` and `InsertInv`: a key whose row was never removed has one owner, which
  the primary key decides among those that insert, and its run is the owner's.
* `KeysAreExplained` (`KeysExplained`), from `WrittenInv` (a run is recorded, or its
  handler is about to record it and finds the row) and `OpenInv` (a row that is not
  final has a handler that will settle it or a pending approval, unless one
  died).

`WorkflowStoreProofs`, for any number of handlers, drainers, saves, drains and
crashes and any limit of a drain:

* `OverwritesAreExplained` (`OverwriteExplained`), from `SeenInv`: a transaction past its
  UPDATE compared the version it had read with the row as it then was, so the two
  are one row unless the same version came twice, and for that some save has set
  it back since; who holds the row sees to it that nobody else changes it. The
  types and bounds that this and the following rest on are `BoundsInv`.
* `TornIsExplained` (`TornExplained`), from `UpdatedInv`: past its UPDATE a
  transaction holds the row, or had nothing to update in it, so row and nodes of
  two saves meet only in the second case.
* `OvertakenFailedBefore` (`OvertakenFailedFirst`), from `LogInv`, `MarkInv` and
  `FrontInv`: an event that a drain holds has before it only events that the same
  drain holds, that were published or that failed once. This follows when the
  drain reads the oldest pending events up to its limit, and lasts because what
  commits later is later in the log; a drain of several rows is why `Before`
  alone is not inductive.
* `DuplicatesAreExplained` (`DuplicateExplained`), from `OnceInv`: while nobody has
  died and no two drains held an event, it is in the topic at most once, and when
  it is there, it is marked or its drain is about to mark it.

* `LocksAreOrdered` (`NoCircularWait`), from `LockInv`: the row is locked only by a
  transaction past its UPDATE, the nodes only by one that replaced them, and both
  are given back when it ends or dies. The property is stated with what each
  transaction waits for rather than with `ENABLED`, so that it can be proved; a
  transaction that waits for nobody can take its next step.

`SqlApprovalStoreProofs`, for any requests, approvers, deadline and deaths:

* `SqlInvariant`: the inductive invariant `SqlInv`. Since nothing compares
  versions, nothing can be said of the row from the row; what holds is said
  through the events, which are only ever added. Every status a row or a copy
  about to be saved may have is announced by an event when it is written
  (`StatusAnnounced`); every event is one its request may write (`EventsGood`); a
  request that decides late finds that the row is no longer pending, because a
  row never becomes pending again (`RequestFits`); versions of copies are at most
  one ahead of the events (`VersionsFollow`). One lemma per action; `OthersFit`
  says once what a step leaves alone.
* `NothingUnexplained` (`RecordsExplained`), `ToolsRunGranted` (`RunsGranted`) and
  `DecisionsInTime` (`DecidedInTime`) follow.

`WorkflowEngineProofs`, for every acyclic plan, any number of handlers and
requests of any kind, handlers that die anywhere, and every answer of the
gateway, the policy and the conditions:

* `EngineTypes`: `TypeOK` and `AttemptsInv`. That attempts stay below the number
  of requests is not inductive by itself: a handler that may still start a node
  (`MayStart`) must have counted fewer attempts than there were requests, and
  that is lost only by `Begin`, after which the node cannot be started again in
  this run.
* `WhatIsStoredWasAnnounced` (`StoredWasAnnounced`) and `DependenciesAlwaysFirst`
  (`DependenciesFirst`), from `AnnouncedInv`: not only the stored workflow but the
  copy of every handler, which may overwrite the stored one at any time, says
  nothing that is not in the outbox; a handler's `completed` holds only nodes
  that were dealt with; and what a node depends on is in `completed` from the
  moment the node is taken up until its tool is called.
* `CompletedIsDone` (`CompletedMeansDone`), from `DoneInv`: every copy that says
  COMPLETED has nothing open.
* `SuccessesAreReal` (`SuccessIsReal`), from `SuccessInv`: a key that replays ok
  and an answer ok stand for an effect. Its hypothesis `Undoable = {}` says that
  the gateway executes no compensation tool, as the registry has it.

* `EffectsNeedRequests`, from `KeysInv`: however handlers overlap or die, a node
  takes effect at most once for each request. An effect uses its key up, every key
  in use is one of an attempt, and attempts are bounded by `AttemptsInv`; no run
  states it, since it is the part of `EffectsCounted` that survives overlapping
  handlers.
* `EffectsAreCounted` (`EffectsCounted`) and `CompletedStaysDone`
  (`CompletedNotRestarted`) assume one handler at a time (`OneHandler`), and the second one
  that nobody retries a completed node by name: what `engine_recovery` checks, and what the
  code promises only then. Workflows with overlapping handlers are what
  `engine_race` is about. From `AloneInv` a handler between two checkpoints differs
  from what is stored by at most the node it works on; `UsedInv` says that every
  key used belongs to an attempt the stored workflow has counted, since the
  attempt is saved before its tool is called; `KeptInv` says that what was
  announced as succeeded is stored as such, and that nobody works on it.

Each invariant quantifies over all copies of the workflow because nothing
compares versions; `ScanMoves` and `SettleMoves` say once for all actions what an
action writes, and `RunType` that it leaves the other handlers' locals alone.

`PlannerProviderProofs`, for any number of threads, thresholds, retries, probes
and cooldowns:

* `ProviderTypes`; `PlansAreCheap` (`CallsBounded`): a plan costs at most its
  request and one correction, each with its retries.
* `OnlyConsecutiveFailuresOpen` (`ClosedCountsConsecutive`): while the breaker is
  closed its counter never exceeds the failures since the last success, and reaches
  the threshold only while a thread is about to open it, although threads change
  it without a lock.
* `OpenStaysOpen` (`StaysOpen`): an open breaker stays open for its cooldown,
  unless a thread was about to close it, which is the race the code has.

`DeviceSimulatorProofs`, for any devices, any finite number of threads, any number of
scenario changes, snapshots and calls, and any publications that fail:

* `DiagnosesFitScenarios` (`DiagnosisFitsScenario`), from `DeviceInv`: services run
  unless the active scenario is one that leaves them otherwise. The rest is about
  the operators: what telemetry shows of each scenario (`TelemetryIs`), which
  signals it raises, and which causes these name.
* `FirstTelemetryIsAnnounced` (`FirstTelemetryWins`), from `AnnouncedInv`. A thread
  has only its own copy of what is left to read, so `ReaderInv` gives it a place in
  the topic: all ids before it are processed, and it works on an event only if it
  is the first with its id. That the id is checked and added without a lock is met
  by counting: announcements of an id and the threads still holding it
  (`Holding`) never exceed the threads, because who comes later finds the id
  processed (`CountInv`).
* `CriticalHasItsIncident` (`CriticalHasIncident`), from `CriticalInv`, although the three
  publications of one processing are steps between which other threads publish,
  the topics are read and the process may die. A thread that is about to publish
  an alert or an incident has published what comes before it for that telemetry,
  and an incident is published for CRITICAL health only (`StageInv`); a raise or a death records the
  telemetry as lost.

`AgentOrchestratorProofs`, for any chats, messages, evidence, permissions, approvals
granted beforehand, attempts and retention:

* `AgentTypes`: types, `ChatsStand` and `CallsStand`. A call exists only for an
  attempt of its chat; from the start of its tool on its key is stored, and the
  approval it was started under is of the same service. `Evolves` says what no
  step undoes (the service a chat has found and with it its key, what ran, an
  approval that is executed), so that every other fact about calls is stable.
* `OnePendingApproval` (`PendingIsUnique`), from `PendingInv`: the reserved key of an
  open approval is stored and exactly as old as it. The next request is asked
  for only when the key is no longer live, and then the old approval is overdue.
* `SuccessIsBacked` (`SuccessAnswerBacked`), from `RealInv` and `OnceInv`. Answers travel:
  they are stored under keys, are under way to a client, are replayed to other
  chats. `RealInv` says of all three that an answer "allowed" names a call of the
  same key that took effect; `OnceInv`, that two calls of one key act only if the
  key was forgotten in between.

The invariants were found and checked with TLC on small instances first.

Only model-checked: liveness (`CallsAnswered`, `RequestsEnd`, `ChatsEnd`,
`ProviderRecovers`), which is out of the prover's reach, and everything about
planning and the knowledge search. Searches and folds over sequences in planning
and ranking would need induction over data, which the installed provers cannot do;
`ForeignIndexExplained` needs no induction but has no proof yet.

## 6. Not modelled

* The domain MCP servers wrap the dispatchers without state of their own; the
  knowledge and repository services read fixtures. `services/event-processor`
  contains no code. Frontend, observability, configuration, evaluation and
  scripts change no state of interest.
* Text: prompts, parsing of JSON, wording of answers, routing words, the filters
  of `packages/policy/.../security.py`; lexical and vector scores of tools, and
  embeddings.
* In `AgentOrchestrator` the gateway's idempotency store drops keys by age only: its
  eviction at `max_entries` (10000, `GW/stores.py:190`) is left out, so
  `PendingIsUnique` and `SuccessAnswerBacked` are claims about a store below that
  size. `McpGateway` and `SqlGatewayCalls` do evict.
* A simulator process that starts again. It has a new registry and no processed
  ids; with the in-memory bus the topics are gone with it, and on Kafka nothing in
  `src/` reads them back.
* HTTP, migrations, seed data, and the API's other endpoints and repositories,
  which are plain reads and writes of single rows.
* The values of conditions and bound arguments, and the status of an approval
  while a workflow waits for it, are inputs of `WorkflowEngine`; several
  principals working on one workflow, and keys that expire during a workflow, are
  left out.

## 7. Plan

What is left is proof rather than model:

1. `ForeignIndexExplained` for the search.
2. Engine and gateway composed, with the approval's status as state, so that
   resume before and after a decision can be told apart.
