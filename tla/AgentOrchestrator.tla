-------------------------- MODULE AgentOrchestrator --------------------------
(***************************************************************************)
(* AiEngineeringAgent of the AI agent (service.py, provider.py, routing.py *)
(* and gateway.py of mcp_ops_ai_agent): chats that run in threads of the   *)
(* API server turn a message into an intent, gather evidence and let the   *)
(* MCP gateway operate.  The keys of operations are derived from what is   *)
(* asked, not from who asks again, so chats meet in the gateway's          *)
(* idempotency records.  The gateway is seen as its client sees it: it     *)
(* decides on arrival, runs the tool later, and an answer may be lost and  *)
(* the request repeated.  Reads change nothing that chats share: the reads *)
(* of a chat are one step.                                                 *)
(***************************************************************************)
EXTENDS Naturals, Sequences, FiniteSets

CONSTANTS
    Principals,      \* principals of the gateway
    RoleOf,          \* principal -> role
    Permitted,       \* pairs (principal, tool) the gateway authorizes
    DiagnosticActor, \* the principal of diagnostic_auth_token
    OperationActor,  \* the principal of operation_auth_token
    Devices, Services, Texts,
    DefaultService,  \* "sensor-ingestor"
    PrefixOf,        \* message -> its first 120 characters
    Scripts,         \* bound: what users send, in the order they begin
    Evidence,        \* what the reads may find
    Granted,         \* approvals other clients asked for, granted before the chats begin
    GrantedFor,      \* granted approval -> its (device, service)
    Attempts,        \* transport_retries + 1
    Remote,          \* RemoteMcpGatewayClient, not McpGatewayClient
    Ttl,             \* retention of keys and of approvals, both 3600 seconds
    None

Words == {"restart", "service", "ticket", "procedure", "why"}
Chats == UNION {DOMAIN sc : sc \in Scripts}    \* calls of handle()
CallIds == Chats \X (1 .. Attempts)
ApprovalIds == CallIds \cup Granted

ASSUME AgentAssumption ==
    /\ RoleOf \in [Principals -> {"ADMIN", "OPERATOR", "ENGINEER", "VIEWER"}]
    /\ DiagnosticActor \in Principals /\ OperationActor \in Principals
    /\ None \notin Principals \cup Devices \cup Services \cup ApprovalIds
    /\ Granted \cap CallIds = {}
    /\ GrantedFor \in [Granted -> Devices \X Services]
    /\ DefaultService \in Services
    /\ PrefixOf \in [Texts -> Texts]
    /\ Attempts \in Nat \ {0} /\ Ttl \in Nat \ {0} /\ Remote \in BOOLEAN
    /\ \A sc \in Scripts : \A c \in DOMAIN sc :
          sc[c] \in [user : Principals \cup {None}, words : SUBSET Words, text : Texts,
                    device : Devices \cup {None}, service : Services \cup {None},
                    approval : ApprovalIds \cup {None}]
    /\ Evidence \subseteq [error : Services \cup {None}, unhealthy : Services \cup {None},
                           severity : {"INFO", "WARNING", "CRITICAL"}, confident : BOOLEAN]

VARIABLES
    script,      \* the messages of this behaviour
    chat,        \* chat -> where handle() stands, the service it found, its answer
    call,        \* (chat, attempt) -> the tool call as the gateway has it
    keys,        \* the gateway's idempotency records
    forgotten,   \* history: keys that were reserved again after their retention
    approvals,   \* the gateway's approvals, named after the call that asked for them
    ran,         \* the calls whose tool took effect
    tickets      \* the ids in TicketDomainService._tickets

vars == <<script, chat, call, keys, forgotten, approvals, ran, tickets>>

----------------------------------------------------------------------------
(* messages *)

\* DeterministicMockProvider.understand_intent; GeminiChatProvider inherits it.
UnderstandIntent(m) ==
    IF m.approval # None /\ "restart" \in m.words THEN "EXECUTE_APPROVED_RESTART"
    ELSE IF m.device # None /\ {"restart", "service"} \subseteq m.words
    THEN "REQUEST_SERVICE_RESTART"
    ELSE IF m.device # None /\ "ticket" \in m.words THEN "CREATE_TICKET"
    ELSE IF "procedure" \in m.words THEN "FIND_PROCEDURE"
    ELSE IF m.device # None /\ "why" \in m.words THEN "DIAGNOSE_UNHEALTHY_DEVICE"
    ELSE "ANSWER_QUESTION"

Operating == {"CREATE_TICKET", "REQUEST_SERVICE_RESTART", "EXECUTE_APPROVED_RESTART"}

\* The tools ToolSelectionPolicy.route selects for an intent, those that read; a question
\* about a device also reads its status.
Reads(m) ==
    CASE UnderstandIntent(m) = "ANSWER_QUESTION" ->
            {"list_devices", "get_open_tickets", "search_knowledge"}
            \cup (IF m.device = None THEN {} ELSE {"get_device_status"})
      [] UnderstandIntent(m) = "DIAGNOSE_UNHEALTHY_DEVICE" ->
            {"get_device_status", "get_device_telemetry", "get_device_services",
             "get_recent_errors", "find_similar_incidents", "run_diagnostic_check",
             "generate_diagnostic_summary"}
      [] UnderstandIntent(m) = "FIND_PROCEDURE" ->
            {"find_troubleshooting_steps", "search_knowledge"}
      [] UnderstandIntent(m) = "CREATE_TICKET" -> {"get_device_status", "get_recent_errors"}
      [] UnderstandIntent(m) = "REQUEST_SERVICE_RESTART" ->
            {"get_recent_errors", "get_device_services"}
      [] UnderstandIntent(m) = "EXECUTE_APPROVED_RESTART" -> {}

\* The one it selects that operates.
Operation(m) ==
    IF UnderstandIntent(m) = "CREATE_TICKET" THEN "create_ticket" ELSE "restart_service"

\* The caller's token, or the agent's own.
Actor(m) ==
    IF m.user # None THEN m.user
    ELSE IF UnderstandIntent(m) \in Operating THEN OperationActor ELSE DiagnosticActor

\* intent.service_name or _infer_service_name: the first error's service, else an
\* unhealthy service, else the default.
RestartedService(m, e) ==
    IF m.service # None THEN m.service
    ELSE IF UnderstandIntent(m) = "EXECUTE_APPROVED_RESTART" THEN DefaultService
    ELSE IF e.error # None THEN e.error
    ELSE IF e.unhealthy # None THEN e.unhealthy
    ELSE DefaultService

\* _diagnostic_escalation
DiagnosisEscalates(e) == e.severity \in {"CRITICAL", "WARNING"} \/ ~e.confident

----------------------------------------------------------------------------
(* keys *)

Msg(c) == script[c]
IntentOf(c) == UnderstandIntent(Msg(c))

\* Mutant: _idempotency(kind, device_id).
RestartKeyOfDevice(c, kind) == <<Actor(Msg(c)), kind, Msg(c).device, DefaultService>>

\* _idempotency("restart-request" or "restart-execute", device_id, service_name),
\* which the gateway keeps per principal.
RestartKey(c, kind) == <<Actor(Msg(c)), kind, Msg(c).device, chat[c].service>>

\* _idempotency("ticket-create", device_id, message[:120])
TicketKey(c) == <<Actor(Msg(c)), "ticket-create", Msg(c).device, PrefixOf[Msg(c).text]>>

IdempotencyKey(c) ==
    CASE IntentOf(c) = "CREATE_TICKET" -> TicketKey(c)
      [] IntentOf(c) = "REQUEST_SERVICE_RESTART" -> RestartKey(c, "restart-request")
      [] IntentOf(c) = "EXECUTE_APPROVED_RESTART" -> RestartKey(c, "restart-execute")

\* The ticket's id is a digest of its payload, the caller's role included; the
\* evidence in the payload is what the reads find for the device, and does not change.
TicketId(c) == <<RoleOf[Actor(Msg(c))], Msg(c).device, Msg(c).text>>

----------------------------------------------------------------------------
(* state *)

NoReply == [code |-> "none", by |-> None]

IdleChat == [pc |-> "idle", service |-> None, attempt |-> 0, ok |-> FALSE,
             escalate |-> FALSE, reply |-> NoReply]
NoApproval == [status |-> "NONE", user |-> None, device |-> None, service |-> None, age |-> 0]

Init ==
    /\ script \in Scripts
    /\ chat = [c \in Chats |-> IdleChat]
    /\ call = [i \in CallIds |-> [st |-> "none", reply |-> NoReply]]
    /\ keys = <<>>
    /\ forgotten = {}
    /\ approvals = [a \in ApprovalIds |->
          IF a \notin Granted THEN NoApproval
          ELSE [status |-> "APPROVED", user |-> None, device |-> GrantedFor[a][1],
                service |-> GrantedFor[a][2], age |-> 0]]
    /\ ran = {}
    /\ tickets = {}

----------------------------------------------------------------------------
(* handle() *)

Goto(c, pc) == chat' = [chat EXCEPT ![c].pc = pc]

\* The answer of handle(), and _record_response.
Answer(c, ok, escalate, reply) ==
    chat' = [chat EXCEPT ![c] =
                [@ EXCEPT !.pc = "done", !.ok = ok, !.escalate = escalate, !.reply = reply]]

\* The gateway client posts the next attempt of the chat's tool call.
Post(c) ==
    /\ chat' = [chat EXCEPT ![c].pc = "wait", ![c].attempt = @ + 1]
    /\ call' = [i \in CallIds |->
          IF i = <<c, chat[c].attempt + 1>> THEN [st |-> "sent", reply |-> NoReply]
          ELSE IF i = <<c, chat[c].attempt>> THEN [call[i] EXCEPT !.reply = NoReply]
          ELSE call[i]]

\* The message is understood and routed.  _require_device raises for a message with
\* an approval and no device; nothing has happened then.
Handle(c) ==
    LET m == Msg(c) IN
    /\ c \in DOMAIN script /\ chat[c].pc = "idle"
    /\ c > 1 => chat[c - 1].pc # "idle"
    /\ chat' = [chat EXCEPT ![c] =
          IF UnderstandIntent(m) # "EXECUTE_APPROVED_RESTART" THEN [@ EXCEPT !.pc = "gather"]
          ELSE [@ EXCEPT !.pc = IF m.device = None THEN "raised" ELSE "send",
                         !.service = RestartedService(m, None)]]
    /\ UNCHANGED <<call, keys, forgotten, approvals, ran, tickets>>

\* A read that is not permitted fails; any other may fail too (_first_failed).
ReadFails(m, unlucky) ==
    unlucky \/ \E t \in Reads(m) : <<Actor(m), t>> \notin Permitted

\* _answer_question: failed reads are left out, and the provider may fail; an error that is
\* no RuntimeError, of the connection or the JSON, leaves handle().
AnswerQuestion(c) ==
    /\ chat[c].pc = "gather" /\ IntentOf(c) = "ANSWER_QUESTION"
    /\ (\E ok \in BOOLEAN : Answer(c, ok, ~ok, NoReply)) \/ Goto(c, "raised")
    /\ UNCHANGED <<call, keys, forgotten, approvals, ran, tickets>>

\* The chat goes on with what the reads find, or one of them fails (_failure_response).
Gathering(c, intent, goOn) ==
    /\ chat[c].pc = "gather" /\ IntentOf(c) = intent
    /\ \E unlucky \in BOOLEAN :
        IF ReadFails(Msg(c), unlucky) THEN Answer(c, FALSE, TRUE, NoReply) ELSE goOn
    /\ UNCHANGED <<call, keys, forgotten, approvals, ran, tickets>>

\* _diagnose_unhealthy
DiagnoseUnhealthy(c) ==
    \E e \in Evidence :
        Gathering(c, "DIAGNOSE_UNHEALTHY_DEVICE", Answer(c, TRUE, DiagnosisEscalates(e), NoReply))

\* _find_procedure
FindProcedure(c) == Gathering(c, "FIND_PROCEDURE", Answer(c, TRUE, FALSE, NoReply))

\* The first half of _create_ticket.
GatherForTicket(c) == Gathering(c, "CREATE_TICKET", Goto(c, "send"))

\* The first half of _request_restart.
GatherForRestart(c) ==
    \E e \in Evidence :
        Gathering(c, "REQUEST_SERVICE_RESTART",
                  chat' = [chat EXCEPT ![c].pc = "send",
                                       ![c].service = RestartedService(Msg(c), e)])

Send(c) ==
    /\ chat[c].pc = "send"
    /\ Post(c)
    /\ UNCHANGED <<keys, forgotten, approvals, ran, tickets>>

\* _transport_failure_response
TransportFailure(c) == [code |-> "unavailable", by |-> <<c, chat[c].attempt>>]

\* The second half of _create_ticket and _execute_approved_restart: only an allowed
\* call is done.
ConcludeOperation(c, reply) ==
    Answer(c, reply.code = "allowed", reply.code # "allowed", reply)

\* The second half of _request_restart: only a restart that waits for an approval
\* counts as requested.
ConcludeRequest(c, reply) == Answer(c, reply.code = "pending", TRUE, reply)

Conclude(c, reply) ==
    IF IntentOf(c) = "REQUEST_SERVICE_RESTART" THEN ConcludeRequest(c, reply)
    ELSE ConcludeOperation(c, reply)

Receive(c) ==
    LET i == <<c, chat[c].attempt>> IN
    /\ chat[c].pc = "wait" /\ call[i].st = "done"
    /\ Conclude(c, call[i].reply)
    /\ call' = [call EXCEPT ![i].reply = NoReply]
    /\ UNCHANGED <<keys, forgotten, approvals, ran, tickets>>

\* Mutant: the client repeats the call for ever.
GiveUpNever(c) ==
    /\ Remote /\ chat[c].pc = "wait"
    /\ chat[c].attempt < Attempts /\ Post(c)
    /\ UNCHANGED <<keys, forgotten, approvals, ran, tickets>>

\* The connection fails, times out or answers 5xx: the client repeats the same request,
\* and gives up after the last attempt, or at once when an answer is not JSON.  What was
\* sent may still be served.
GiveUp(c) ==
    /\ Remote /\ chat[c].pc = "wait"
    /\ \/ chat[c].attempt < Attempts /\ Post(c)
       \/ /\ Conclude(c, TransportFailure(c))
          /\ call' = [call EXCEPT ![<<c, chat[c].attempt>>].reply = NoReply]
    /\ UNCHANGED <<keys, forgotten, approvals, ran, tickets>>

----------------------------------------------------------------------------
(* the gateway, as the agent meets it *)

\* Mutant: a key is kept for less time than the approval it stands for.
LiveShorter(k) == k \in DOMAIN keys /\ keys[k].age + 1 < Ttl

\* The records of a store that holds fewer than max_entries: _evict_oldest_if_needed has
\* nothing to evict.
Live(k) == k \in DOMAIN keys /\ keys[k].age < Ttl

\* The answer to an attempt its client has given up is lost.
Respond(i, reply) ==
    call' = [call EXCEPT ![i] =
        [st |-> "done",
         reply |-> IF chat[i[1]].pc = "wait" /\ chat[i[1]].attempt = i[2] THEN reply
                   ELSE NoReply]]

\* reserve() of a key that is unknown or past its retention.
Reserving(k, status, reply) ==
    /\ ~Live(k)
    /\ keys' = [j \in DOMAIN keys \cup {k} |->
          IF j = k THEN [status |-> status, reply |-> reply, age |-> 0] ELSE keys[j]]
    /\ forgotten' = forgotten \cup {j \in {k} \cap DOMAIN keys : keys[j].age = Ttl}

Arrived(i) == call[i].st = "sent"
Running(i) == call[i].st = "running"

\* Refused before the key is looked at: no permission, or the rate limit.
Refuse(c, i) ==
    /\ Arrived(i)
    /\ Respond(i, [code |-> "denied", by |-> i])
    /\ UNCHANGED <<chat, keys, forgotten, approvals, ran, tickets>>

\* The permission was checked.
Authorized(c, i) ==
    Arrived(i) /\ <<Actor(Msg(c)), Operation(Msg(c))>> \in Permitted

\* A known key: its response again, or DuplicateOperation.
KnownKey(c, i) ==
    LET k == IdempotencyKey(c) IN
    /\ Authorized(c, i) /\ Live(k)
    /\ Respond(i, IF keys[k].reply # NoReply THEN keys[k].reply
                  ELSE [code |-> "duplicate", by |-> i])
    /\ UNCHANGED <<chat, keys, forgotten, approvals, ran, tickets>>

\* A restart without an approval: one is created, and the key stays reserved.
AskApproval(c, i) ==
    /\ Authorized(c, i) /\ IntentOf(c) = "REQUEST_SERVICE_RESTART"
    /\ Reserving(IdempotencyKey(c), "RESERVED", NoReply)
    /\ approvals' = [approvals EXCEPT ![i] =
          [status |-> "PENDING", user |-> Actor(Msg(c)), device |-> Msg(c).device,
           service |-> chat[c].service, age |-> 0]]
    /\ Respond(i, [code |-> "pending", by |-> i])
    /\ UNCHANGED <<chat, ran, tickets>>

Overdue(a) == approvals[a].status = "PENDING" /\ approvals[a].age = Ttl

\* The approval fits the tool's arguments and is granted.
Usable(c) ==
    LET a == approvals[Msg(c).approval] IN
    a.status = "APPROVED" /\ a.device = Msg(c).device /\ a.service = chat[c].service

\* A ticket, or a restart under a usable approval: the tool starts.
StartTool(c, i) ==
    /\ Authorized(c, i)
    /\ \/ IntentOf(c) = "CREATE_TICKET"
       \/ IntentOf(c) = "EXECUTE_APPROVED_RESTART" /\ Usable(c)
    /\ Reserving(IdempotencyKey(c), "RUNNING", NoReply)
    /\ call' = [call EXCEPT ![i].st = "running"]
    /\ UNCHANGED <<chat, approvals, ran, tickets>>

\* A restart whose approval cannot be used; the refusal is kept under the key.
RefuseApproval(c, i) ==
    /\ Authorized(c, i)
    /\ IntentOf(c) = "EXECUTE_APPROVED_RESTART" /\ ~Usable(c)
    /\ Reserving(IdempotencyKey(c), "PERMANENT_FAILED", [code |-> "denied", by |-> i])
    /\ Respond(i, [code |-> "denied", by |-> i])
    /\ approvals' = IF Overdue(Msg(c).approval)
                    THEN [approvals EXCEPT ![Msg(c).approval].status = "EXPIRED"]
                    ELSE approvals
    /\ UNCHANGED <<chat, ran, tickets>>

\* complete(): a record past its retention may have been dropped meanwhile, and
\* then it is as young as the answer.
Finish(c, i, code) ==
    LET k == IdempotencyKey(c) IN
    /\ Respond(i, [code |-> code, by |-> i])
    /\ \E age \in {keys[k].age} \cup (IF Live(k) THEN {} ELSE {0}) :
        keys' = [keys EXCEPT ![k] =
            [status |-> IF code = "allowed" THEN "SUCCEEDED" ELSE "PERMANENT_FAILED",
             reply |-> [code |-> code, by |-> i], age |-> age]]
    /\ UNCHANGED <<chat, forgotten>>

\* TicketDomainService.create, under the gateway: a ticket with the same payload is
\* written again.
CreateTicket(c, i, code) ==
    /\ Running(i) /\ IntentOf(c) = "CREATE_TICKET"
    /\ Finish(c, i, code)
    /\ IF code = "denied" THEN UNCHANGED <<ran, tickets>>
       ELSE /\ ran' = ran \cup {i}
            /\ tickets' = tickets \cup {TicketId(c)}
    /\ UNCHANGED approvals

\* DeviceDomainService.restart_service, under the gateway: mark_executed or
\* mark_failed, which refuse an approval another call has used meanwhile.
RestartService(c, i, code) ==
    LET a == Msg(c).approval IN
    /\ Running(i) /\ IntentOf(c) = "EXECUTE_APPROVED_RESTART"
    /\ Finish(c, i, IF code = "allowed" /\ approvals[a].status # "APPROVED" THEN "denied"
                    ELSE code)
    /\ ran' = IF code = "denied" THEN ran ELSE ran \cup {i}
    /\ approvals' = IF approvals[a].status # "APPROVED" THEN approvals
                    ELSE [approvals EXCEPT ![a].status =
                             IF code = "allowed" THEN "EXECUTED" ELSE "FAILED"]
    /\ UNCHANGED tickets

----------------------------------------------------------------------------
(* people and time *)

\* approve_operation and reject_operation
Decide(a, status) ==
    /\ approvals[a].status = "PENDING" /\ ~Overdue(a)
    /\ approvals' = [approvals EXCEPT ![a].status = status]
    /\ UNCHANGED <<chat, call, keys, forgotten, ran, tickets>>

Older(age) == IF age < Ttl THEN age + 1 ELSE age

\* A retention time is an hour and an attempt ends after ten seconds: time that
\* matters passes while no client waits.
Tick ==
    /\ \A c \in Chats : chat[c].pc # "wait"
    /\ keys' = [k \in DOMAIN keys |-> [keys[k] EXCEPT !.age = Older(@)]]
    /\ approvals' = [a \in ApprovalIds |-> IF approvals[a].status # "PENDING" THEN approvals[a]
                                           ELSE [approvals[a] EXCEPT !.age = Older(@)]]
    /\ UNCHANGED <<chat, call, forgotten, ran, tickets>>

ChatStep(c) ==
    \/ AnswerQuestion(c) \/ DiagnoseUnhealthy(c) \/ FindProcedure(c)
    \/ GatherForTicket(c) \/ GatherForRestart(c)
    \/ Send(c) \/ Receive(c) \/ GiveUp(c)

GatewayStep(c, i) ==
    \/ Refuse(c, i) \/ KnownKey(c, i) \/ AskApproval(c, i) \/ StartTool(c, i)
    \/ RefuseApproval(c, i)
    \/ \E code \in {"allowed", "denied", "timeout"} :
          CreateTicket(c, i, code) \/ RestartService(c, i, code)

Next ==
    /\ \/ \E c \in Chats : Handle(c) \/ ChatStep(c)
       \/ \E c \in Chats, n \in 1 .. Attempts : GatewayStep(c, <<c, n>>)
       \/ \E a \in ApprovalIds, status \in {"APPROVED", "REJECTED"} : Decide(a, status)
       \/ Tick
    /\ UNCHANGED script

Spec == Init /\ [][Next]_vars

\* A thread of the API server goes on and its socket has a timeout.  The gateway owes
\* nothing, nobody has to decide, and time may stand still.
FairSpec == Spec /\ \A c \in Chats : WF_vars(ChatStep(c) /\ UNCHANGED script)

----------------------------------------------------------------------------

Open(a) == approvals[a].status = "PENDING" /\ ~Overdue(a)

\* Asking again does not pile up approvals: as long as a restart waits for a human,
\* the same principal has no second one open for the same service, however many
\* chats ask and however many answers are lost.  It takes the reserved key to live
\* as long as the approval it stands for.
\* (_request_restart's key, reserve() and the two retention times.)
PendingIsUnique ==
    \A a, b \in CallIds :
        /\ Open(a) /\ Open(b)
        /\ approvals[a].user = approvals[b].user
        /\ approvals[a].device = approvals[b].device
        /\ approvals[a].service = approvals[b].service
        => a = b

\* A chat that reports success speaks of something that happened: a restart of that
\* very service under an approval that was granted for it and is used up, or a ticket
\* that exists for that device; by its own call or by the one it replays.  And what
\* the client had to repeat took effect once, unless the key was forgotten meanwhile.
\* (_execute_approved_restart, _create_ticket, the keys they use, and
\* RemoteMcpGatewayClient.call_tool, which repeats a request with its key.)
SuccessAnswerBacked ==
    \A c \in Chats :
        chat[c].pc = "done" /\ chat[c].ok /\ IntentOf(c) \in Operating \ {"REQUEST_SERVICE_RESTART"} =>
            LET by == chat[c].reply.by
                used == approvals[Msg(by[1]).approval]
            IN  /\ by \in ran
                /\ Msg(by[1]).device = Msg(c).device
                /\ \/ IntentOf(c) = "CREATE_TICKET" /\ TicketId(by[1]) \in tickets
                   \/ /\ IntentOf(c) = "EXECUTE_APPROVED_RESTART"
                      /\ chat[by[1]].service = chat[c].service
                      /\ used.status = "EXECUTED" /\ used.service = chat[c].service
                /\ \/ Cardinality({i \in ran : i[1] = c}) <= 1
                   \/ IdempotencyKey(c) \in forgotten

\* Every chat that was started ends, also when the gateway does not answer.
\* (The client's timeout and its bounded number of attempts.)
ChatsEnd ==
    \A c \in Chats : chat[c].pc # "idle" ~> chat[c].pc \in {"done", "raised"}
=============================================================================
