---------------------- MODULE AgentOrchestratorProofs ----------------------
(***************************************************************************)
(* What AgentOrchestrator guarantees for any chats, messages, evidence,    *)
(* permissions and approvals, any number of attempts and any retention.    *)
(***************************************************************************)
EXTENDS AgentOrchestrator, FiniteSetTheorems, TLAPS

\* Where handle() may stand, and what an answer of the gateway is.
ChatSteps == {"idle", "gather", "send", "wait", "done", "raised"}
Codes == {"allowed", "denied", "pending", "timeout", "duplicate", "unavailable"}
Reply == [code : Codes, by : CallIds] \cup {NoReply}
Allowed(i) == [code |-> "allowed", by |-> i]

ChatState ==
    [pc : ChatSteps, service : Services \cup {None}, attempt : 0 .. Attempts,
     ok : BOOLEAN, escalate : BOOLEAN, reply : Reply]
CallState == [st : {"none", "sent", "running", "done"}, reply : Reply]
KeyRecord ==
    [status : {"RESERVED", "RUNNING", "SUCCEEDED", "PERMANENT_FAILED"}, reply : Reply,
     age : 0 .. Ttl]
ApprovalRecord ==
    [status : {"NONE", "PENDING", "APPROVED", "REJECTED", "EXPIRED", "EXECUTED", "FAILED"},
     user : Principals \cup {None}, device : Devices \cup {None},
     service : Services \cup {None}, age : 0 .. Ttl]

\* Chats, calls, keys and approvals are of the kinds the code stores.
TypeOK ==
    /\ script \in Scripts
    /\ chat \in [Chats -> ChatState]
    /\ call \in [CallIds -> CallState]
    /\ \A k \in DOMAIN keys : keys[k] \in KeyRecord
    /\ approvals \in [ApprovalIds -> ApprovalRecord]
    /\ ran \subseteq CallIds

\* The service of a chat is found, and so is the key of its call.
Found == {"send", "wait", "done", "raised"}

\* Only a chat that operates comes to send a call, and it has sent none before.
ChatsStand ==
    \A c \in Chats :
        /\ chat[c].pc # "idle" => c \in DOMAIN script
        /\ chat[c].pc \in {"idle", "gather", "send", "raised"} => chat[c].attempt = 0
        /\ chat[c].pc \in {"send", "wait"} => IntentOf(c) \in Operating
        /\ chat[c].pc = "wait" => chat[c].attempt # 0

\* The approval a call was started under is still of the same service.
HoldsApproval(c) ==
    LET a == Msg(c).approval IN
    /\ a \in ApprovalIds
    /\ approvals[a].status # "NONE" /\ approvals[a].service = chat[c].service

\* A call exists only for an attempt that its chat has made.  While its tool runs, and
\* ever after, its key is stored; and it asks for an approval once.
CallsStand ==
    \A i \in CallIds :
        /\ call[i].st # "none" =>
              /\ chat[i[1]].pc \in {"wait", "done"} /\ i[2] <= chat[i[1]].attempt
              /\ IntentOf(i[1]) \in Operating
        /\ call[i].st = "running" =>
              /\ IntentOf(i[1]) # "REQUEST_SERVICE_RESTART"
              /\ IdempotencyKey(i[1]) \in DOMAIN keys
              /\ IntentOf(i[1]) = "EXECUTE_APPROVED_RESTART" => HoldsApproval(i[1])
        /\ i \in ran => call[i].st = "done" /\ IdempotencyKey(i[1]) \in DOMAIN keys
        /\ call[i].st \in {"none", "sent"} => i \notin ran /\ approvals[i].status = "NONE"
        /\ call[i].st # "done" => call[i].reply = NoReply

\* A pending approval is as old as the key it stands for, and the only one of the key.
ApprovalKey(a) ==
    <<approvals[a].user, "restart-request", approvals[a].device, approvals[a].service>>
PendingInv ==
    \A a \in ApprovalIds : Open(a) =>
        /\ ApprovalKey(a) \in DOMAIN keys
        /\ keys[ApprovalKey(a)].age = approvals[a].age
        /\ \A b \in ApprovalIds : Open(b) /\ ApprovalKey(b) = ApprovalKey(a) => a = b

\* Two calls of one key both act only if the key was forgotten.
Acted(i) == call[i].st = "running" \/ i \in ran
OnceInv ==
    \A i, j \in CallIds :
        Acted(i) /\ Acted(j) /\ IdempotencyKey(i[1]) = IdempotencyKey(j[1]) /\ i # j =>
            IdempotencyKey(i[1]) \in forgotten

\* A call that did what it was sent for.
Real(i) ==
    /\ i \in ran
    /\ \/ IntentOf(i[1]) = "CREATE_TICKET" /\ TicketId(i[1]) \in tickets
       \/ /\ IntentOf(i[1]) = "EXECUTE_APPROVED_RESTART" /\ HoldsApproval(i[1])
          /\ approvals[Msg(i[1]).approval].status = "EXECUTED"

\* Whatever says that an operation was done, a record, an answer under way or the end
\* of a chat, names a call of the same key that did it.
Reports(c) ==
    chat[c].pc = "done" /\ chat[c].ok /\ IntentOf(c) \in Operating \ {"REQUEST_SERVICE_RESTART"}
RealInv ==
    /\ \A k \in DOMAIN keys, by \in CallIds : keys[k].reply = Allowed(by) =>
          Real(by) /\ IdempotencyKey(by[1]) = k
    /\ \A i, by \in CallIds : call[i].reply = Allowed(by) =>
          Real(by) /\ IdempotencyKey(by[1]) = IdempotencyKey(i[1])
    /\ \A c \in Chats : Reports(c) =>
          \E by \in CallIds :
              chat[c].reply = Allowed(by) /\ Real(by) /\ IdempotencyKey(by[1]) = IdempotencyKey(c)

StandInv == TypeOK /\ ChatsStand /\ CallsStand

----------------------------------------------------------------------------
(* messages and answers *)

LEMMA MessageType ==
    ASSUME AgentAssumption, TypeOK, NEW c \in DOMAIN script
    PROVE  /\ c \in Chats
           /\ Msg(c).device \in Devices \cup {None} /\ Msg(c).service \in Services \cup {None}
           /\ Msg(c).approval \in ApprovalIds \cup {None}
           /\ Actor(Msg(c)) \in Principals
<1>1. script \in Scripts /\ c \in Chats
  BY DEF TypeOK, Chats
<1>2. script[c] \in [user : Principals \cup {None}, words : SUBSET Words, text : Texts,
                     device : Devices \cup {None}, service : Services \cup {None},
                     approval : ApprovalIds \cup {None}]
  BY <1>1 DEF AgentAssumption
<1>3. QED
  BY <1>1, <1>2 DEF Msg, Actor, AgentAssumption

LEMMA ServiceType ==
    ASSUME AgentAssumption, TypeOK, NEW c \in DOMAIN script, NEW e,
           e \in Evidence \/ UnderstandIntent(Msg(c)) = "EXECUTE_APPROVED_RESTART"
    PROVE  RestartedService(Msg(c), e) \in Services
<1>1. Msg(c).service \in Services \cup {None} /\ DefaultService \in Services
  BY MessageType DEF AgentAssumption
<1>2. e \in Evidence => e.error \in Services \cup {None} /\ e.unhealthy \in Services \cup {None}
  BY DEF AgentAssumption
<1>3. QED
  BY <1>1, <1>2 DEF RestartedService

LEMMA ReplyType ==
    /\ NoReply \in Reply
    /\ \A code \in Codes, i \in CallIds : [code |-> code, by |-> i] \in Reply
BY DEF NoReply, Reply, Codes

\* An attempt that exists has a number, and a call is its chat and its attempt.
LEMMA CallIdParts ==
    /\ \A i \in CallIds : i = <<i[1], i[2]>> /\ i[1] \in Chats /\ i[2] \in 1 .. Attempts
    /\ \A c \in Chats, n \in 1 .. Attempts : <<c, n>> \in CallIds
BY DEF CallIds

LEMMA ApprovedNamed ==
    ASSUME AgentAssumption, TypeOK, NEW c \in DOMAIN script,
           IntentOf(c) = "EXECUTE_APPROVED_RESTART"
    PROVE  Msg(c).approval \in ApprovalIds
<1>1. Msg(c).approval # None
  BY DEF IntentOf, UnderstandIntent, Msg
<1> QED BY <1>1, MessageType

----------------------------------------------------------------------------
(* what a step never undoes *)

\* Services that were found stay, approvals are not asked again, and what happened
\* has happened.
Evolves ==
    /\ script' = script
    /\ \A c \in Chats : chat[c].pc \in Found =>
          chat'[c].pc \in Found /\ chat'[c].service = chat[c].service
    /\ ran \subseteq ran' /\ tickets \subseteq tickets' /\ forgotten \subseteq forgotten'
    /\ DOMAIN keys \subseteq DOMAIN keys'
    /\ \A a \in ApprovalIds : approvals[a].status # "NONE" =>
          /\ approvals'[a].status # "NONE" /\ approvals'[a].service = approvals[a].service
          /\ approvals[a].status = "EXECUTED" => approvals'[a].status = "EXECUTED"

LEMMA MessagesStay ==
    ASSUME script' = script, NEW c
    PROVE  /\ Msg(c)' = Msg(c) /\ IntentOf(c)' = IntentOf(c) /\ TicketId(c)' = TicketId(c)
           /\ Actor(Msg(c))' = Actor(Msg(c)) /\ TicketKey(c)' = TicketKey(c)
BY DEF Msg, IntentOf, UnderstandIntent, TicketId, Actor, TicketKey

LEMMA KeyStays ==
    ASSUME script' = script, NEW c, chat'[c].service = chat[c].service
    PROVE  IdempotencyKey(c)' = IdempotencyKey(c)
<1>1. /\ RestartKey(c, "restart-request")' = RestartKey(c, "restart-request")
      /\ RestartKey(c, "restart-execute")' = RestartKey(c, "restart-execute")
  BY MessagesStay DEF RestartKey
<1>2. /\ IntentOf(c)' = IntentOf(c) /\ TicketKey(c)' = TicketKey(c)
  BY MessagesStay
<1>3. QED
  BY <1>1, <1>2, Zenon DEF IdempotencyKey

LEMMA HoldsStays ==
    ASSUME Evolves, NEW c \in Chats, chat[c].pc \in Found, HoldsApproval(c)
    PROVE  /\ HoldsApproval(c)'
           /\ approvals[Msg(c).approval].status = "EXECUTED" =>
                 approvals'[Msg(c)'.approval].status = "EXECUTED"
BY MessagesStay DEF Evolves, HoldsApproval

LEMMA RealStays ==
    ASSUME CallsStand, Evolves, NEW i \in CallIds, Real(i)
    PROVE  Real(i)' /\ IdempotencyKey(i[1])' = IdempotencyKey(i[1])
<1>1. call[i].st = "done" /\ i[1] \in Chats /\ chat[i[1]].pc \in Found
  BY CallIdParts DEF Real, CallsStand, Found
<1>2. chat'[i[1]].service = chat[i[1]].service /\ script' = script
  BY <1>1 DEF Evolves
<1>3. IdempotencyKey(i[1])' = IdempotencyKey(i[1])
  BY <1>2, KeyStays
<1>4. QED
  BY <1>1, <1>2, <1>3, HoldsStays, MessagesStay DEF Real, Evolves

----------------------------------------------------------------------------
(* chats that have sent nothing *)

\* Until a chat sends its call it changes only itself, and does not report success of
\* an operation.
Talks(c) ==
    /\ c \in DOMAIN script /\ chat[c].pc \in {"idle", "gather"}
    /\ \E s \in ChatState :
          /\ chat' = [chat EXCEPT ![c] = s]
          /\ s.pc \in {"gather", "send", "done", "raised"} /\ s.attempt = chat[c].attempt
          /\ s.pc = "send" => IntentOf(c) \in Operating
          /\ s.pc = "done" /\ s.ok => IntentOf(c) \notin Operating
    /\ UNCHANGED <<call, keys, forgotten, approvals, ran, tickets, script>>

LEMMA HandleTalks ==
    ASSUME AgentAssumption, TypeOK, NEW c \in Chats, Handle(c), script' = script
    PROVE  Talks(c)
<1> DEFINE s == IF UnderstandIntent(Msg(c)) # "EXECUTE_APPROVED_RESTART"
                THEN [chat[c] EXCEPT !.pc = "gather"]
                ELSE [chat[c] EXCEPT !.pc = IF Msg(c).device = None THEN "raised" ELSE "send",
                                     !.service = RestartedService(Msg(c), None)]
<1>1. chat[c] \in ChatState /\ c \in DOMAIN script /\ chat[c].pc = "idle"
  BY DEF TypeOK, Handle
<1>2. chat' = [chat EXCEPT ![c] = s]
  BY DEF Handle
<1>3. UnderstandIntent(Msg(c)) = "EXECUTE_APPROVED_RESTART" =>
         RestartedService(Msg(c), None) \in Services
  BY <1>1, ServiceType
<1>4. /\ s \in ChatState /\ s.pc \in {"gather", "send", "raised"}
      /\ s.attempt = chat[c].attempt
      /\ s.pc = "send" => IntentOf(c) \in Operating
  BY <1>1, <1>3 DEF ChatState, ChatSteps, IntentOf, Operating
<1> HIDE DEF s
<1>5. QED
  BY <1>1, <1>2, <1>4 DEF Talks, Handle

LEMMA AnswerTalks ==
    ASSUME TypeOK, ChatsStand, NEW c \in Chats, chat[c].pc = "gather",
           NEW ok \in BOOLEAN, NEW escalate \in BOOLEAN, Answer(c, ok, escalate, NoReply),
           ok => IntentOf(c) \notin Operating,
           UNCHANGED <<call, keys, forgotten, approvals, ran, tickets, script>>
    PROVE  Talks(c)
<1> DEFINE s == [chat[c] EXCEPT !.pc = "done", !.ok = ok, !.escalate = escalate,
                                !.reply = NoReply]
<1>1. chat[c] \in ChatState /\ c \in DOMAIN script
  BY DEF TypeOK, ChatsStand
<1>2. chat' = [chat EXCEPT ![c] = s]
  BY DEF Answer
<1>3. s \in ChatState /\ s.pc = "done" /\ s.attempt = chat[c].attempt /\ s.ok = ok
  BY <1>1, ReplyType DEF ChatState, ChatSteps
<1> HIDE DEF s
<1>4. QED
  BY <1>1, <1>2, <1>3 DEF Talks

LEMMA RaisedTalks ==
    ASSUME TypeOK, ChatsStand, NEW c \in Chats, chat[c].pc = "gather", Goto(c, "raised"),
           UNCHANGED <<call, keys, forgotten, approvals, ran, tickets, script>>
    PROVE  Talks(c)
<1> DEFINE s == [chat[c] EXCEPT !.pc = "raised"]
<1>1. chat[c] \in ChatState /\ c \in DOMAIN script
  BY DEF TypeOK, ChatsStand
<1>2. chat' = [chat EXCEPT ![c] = s]
  BY DEF Goto
<1>3. s \in ChatState /\ s.pc = "raised" /\ s.attempt = chat[c].attempt
  BY <1>1 DEF ChatState, ChatSteps
<1> HIDE DEF s
<1>4. QED
  BY <1>1, <1>2, <1>3 DEF Talks

LEMMA SendTalks ==
    ASSUME TypeOK, ChatsStand, NEW c \in Chats, chat[c].pc = "gather",
           IntentOf(c) \in Operating, NEW service \in Services \cup {None},
           chat' = [chat EXCEPT ![c] = [@ EXCEPT !.pc = "send", !.service = service]],
           UNCHANGED <<call, keys, forgotten, approvals, ran, tickets, script>>
    PROVE  Talks(c)
<1> DEFINE s == [chat[c] EXCEPT !.pc = "send", !.service = service]
<1>1. chat[c] \in ChatState /\ c \in DOMAIN script
  BY DEF TypeOK, ChatsStand
<1>2. s \in ChatState /\ s.pc = "send" /\ s.attempt = chat[c].attempt
  BY <1>1 DEF ChatState, ChatSteps
<1>3. chat' = [chat EXCEPT ![c] = s]
  OBVIOUS
<1> HIDE DEF s
<1>4. QED
  BY <1>1, <1>2, <1>3 DEF Talks

LEMMA ChatTalks ==
    ASSUME AgentAssumption, TypeOK, ChatsStand, NEW c \in Chats, script' = script,
           \/ Handle(c) \/ AnswerQuestion(c) \/ DiagnoseUnhealthy(c) \/ FindProcedure(c)
           \/ GatherForTicket(c) \/ GatherForRestart(c)
    PROVE  Talks(c)
<1>1. CASE Handle(c)
  BY <1>1, HandleTalks
<1>2. FALSE \in BOOLEAN /\ TRUE \in BOOLEAN /\ \A b \in BOOLEAN : (~b) \in BOOLEAN
  OBVIOUS
<1> DEFINE Rest == UNCHANGED <<call, keys, forgotten, approvals, ran, tickets, script>>
<1>3. CASE AnswerQuestion(c)
  <2>1. chat[c].pc = "gather" /\ IntentOf(c) \notin Operating /\ Rest
    BY <1>3 DEF AnswerQuestion, Operating
  <2>2. ASSUME NEW ok \in BOOLEAN, Answer(c, ok, ~ok, NoReply) PROVE Talks(c)
    BY <1>2, <2>1, <2>2, AnswerTalks
  <2>3. ASSUME Goto(c, "raised") PROVE Talks(c)
    BY <2>1, <2>3, RaisedTalks
  <2>4. QED
    BY <1>3, <2>2, <2>3 DEF AnswerQuestion
<1>4. CASE DiagnoseUnhealthy(c)
  <2>1. PICK e \in Evidence : Gathering(c, "DIAGNOSE_UNHEALTHY_DEVICE",
                                        Answer(c, TRUE, DiagnosisEscalates(e), NoReply))
    BY <1>4 DEF DiagnoseUnhealthy
  <2>2. chat[c].pc = "gather" /\ IntentOf(c) \notin Operating /\ Rest
    BY <2>1 DEF Gathering, Operating
  <2>3. Answer(c, FALSE, TRUE, NoReply) \/ Answer(c, TRUE, DiagnosisEscalates(e), NoReply)
    BY <2>1 DEF Gathering
  <2>4. DiagnosisEscalates(e) \in BOOLEAN
    BY DEF DiagnosisEscalates
  <2>5. QED
    BY <1>2, <2>2, <2>3, <2>4, AnswerTalks
<1>5. CASE FindProcedure(c)
  <2>1. chat[c].pc = "gather" /\ IntentOf(c) \notin Operating /\ Rest
    BY <1>5 DEF FindProcedure, Gathering, Operating
  <2>2. Answer(c, FALSE, TRUE, NoReply) \/ Answer(c, TRUE, FALSE, NoReply)
    BY <1>5 DEF FindProcedure, Gathering
  <2>3. QED
    BY <1>2, <2>1, <2>2, AnswerTalks
<1>6. CASE GatherForTicket(c)
  <2>1. chat[c].pc = "gather" /\ IntentOf(c) \in Operating /\ Rest
    BY <1>6 DEF GatherForTicket, Gathering, Operating
  <2>2. Answer(c, FALSE, TRUE, NoReply) \/ Goto(c, "send")
    BY <1>6 DEF GatherForTicket, Gathering
  <2>3. /\ chat[c].service \in Services \cup {None}
        /\ Goto(c, "send") =>
              chat' = [chat EXCEPT ![c] = [@ EXCEPT !.pc = "send", !.service = chat[c].service]]
    BY DEF Goto, TypeOK, ChatState
  <2>4. QED
    BY <1>2, <2>1, <2>2, <2>3, AnswerTalks, SendTalks
<1>7. CASE GatherForRestart(c)
  <2>1. PICK e \in Evidence :
           Gathering(c, "REQUEST_SERVICE_RESTART",
                     chat' = [chat EXCEPT ![c].pc = "send",
                                          ![c].service = RestartedService(Msg(c), e)])
    BY <1>7 DEF GatherForRestart
  <2>2. chat[c].pc = "gather" /\ IntentOf(c) \in Operating /\ Rest
    BY <2>1 DEF Gathering, Operating
  <2>3. \/ Answer(c, FALSE, TRUE, NoReply)
        \/ chat' = [chat EXCEPT ![c].pc = "send", ![c].service = RestartedService(Msg(c), e)]
    BY <2>1 DEF Gathering
  <2>4. RestartedService(Msg(c), e) \in Services
    BY <2>2, ServiceType DEF ChatsStand
  <2>5. chat' = [chat EXCEPT ![c].pc = "send", ![c].service = RestartedService(Msg(c), e)] =>
           chat' = [chat EXCEPT ![c] = [@ EXCEPT !.pc = "send",
                                                 !.service = RestartedService(Msg(c), e)]]
    BY DEF TypeOK, ChatState
  <2>6. QED
    BY <1>2, <2>2, <2>3, <2>4, <2>5, AnswerTalks, SendTalks
<1>8. QED
  BY <1>1, <1>3, <1>4, <1>5, <1>6, <1>7

\* Of a call that was made, nothing changes that it was made for.
LEMMA CallStays ==
    ASSUME CallsStand, Evolves, NEW i \in CallIds, call[i].st # "none"
    PROVE  /\ i[1] \in Chats /\ chat[i[1]].pc \in Found
           /\ IdempotencyKey(i[1])' = IdempotencyKey(i[1])
           /\ IntentOf(i[1])' = IntentOf(i[1])
           /\ HoldsApproval(i[1]) => HoldsApproval(i[1])'
<1>1. i[1] \in Chats /\ chat[i[1]].pc \in Found
  BY CallIdParts DEF CallsStand, Found
<1>2. script' = script /\ chat'[i[1]].service = chat[i[1]].service
  BY <1>1 DEF Evolves
<1>3. QED
  BY <1>1, <1>2, KeyStays, MessagesStay, HoldsStays

LEMMA TalkKeeps ==
    ASSUME StandInv, NEW c \in Chats, Talks(c)
    PROVE  Evolves /\ StandInv'
<1>1. PICK s \in ChatState :
          /\ chat' = [chat EXCEPT ![c] = s]
          /\ s.pc \in {"gather", "send", "done", "raised"} /\ s.attempt = chat[c].attempt
          /\ s.pc = "send" => IntentOf(c) \in Operating
          /\ s.pc = "done" /\ s.ok => IntentOf(c) \notin Operating
  BY DEF Talks
<1>2. /\ c \in DOMAIN script /\ chat[c].pc \in {"idle", "gather"}
      /\ UNCHANGED <<call, keys, forgotten, approvals, ran, tickets, script>>
  BY DEF Talks
<1>3. chat \in [Chats -> ChatState]
  BY DEF StandInv, TypeOK
<1>4. /\ chat'[c] = s /\ \A d \in Chats : d # c => chat'[d] = chat[d]
      /\ chat' \in [Chats -> ChatState]
  BY <1>1, <1>3
<1>5. Evolves
  BY <1>2, <1>4 DEF Evolves, Found
<1>6. TypeOK'
  BY <1>2, <1>4 DEF StandInv, TypeOK
<1>7. ChatsStand'
  BY <1>1, <1>2, <1>4, MessagesStay DEF StandInv, ChatsStand
<1>8. CallsStand'
  <2> SUFFICES ASSUME NEW i \in CallIds
               PROVE  CallsStand!(i)'
    BY DEF CallsStand
  <2>1. CallsStand!(i) /\ i[1] \in Chats
    BY CallIdParts DEF StandInv, CallsStand
  <2>2. CASE call[i].st = "none"
    BY <1>2, <2>1, <2>2
  <2>3. CASE call[i].st # "none"
    <3>1. i[1] # c
      BY <1>2, <2>1, <2>3
    <3>2. chat'[i[1]] = chat[i[1]]
      BY <1>4, <2>1, <3>1
    <3>3. QED
      BY <1>2, <1>5, <2>1, <2>3, <3>2, CallStays DEF StandInv
  <2>4. QED
    BY <2>2, <2>3
<1>9. QED
  BY <1>5, <1>6, <1>7, <1>8 DEF StandInv

----------------------------------------------------------------------------
(* the gateway client *)

\* The next attempt of a chat.
Posts(c) ==
    /\ chat[c].pc \in {"send", "wait"} /\ chat[c].attempt < Attempts /\ Post(c)
    /\ UNCHANGED <<keys, forgotten, approvals, ran, tickets, script>>

LEMMA PostMoves ==
    ASSUME AgentAssumption, StandInv, NEW c \in Chats, Posts(c)
    PROVE  /\ <<c, chat[c].attempt + 1>> \in CallIds
           /\ call[<<c, chat[c].attempt + 1>>].st = "none"
           /\ chat' \in [Chats -> ChatState] /\ call' \in [CallIds -> CallState]
           /\ \A d \in Chats : d # c => chat'[d] = chat[d]
           /\ chat'[c].pc = "wait" /\ chat'[c].attempt = chat[c].attempt + 1
           /\ chat'[c].service = chat[c].service
           /\ \A i \in CallIds :
                 \/ i = <<c, chat[c].attempt + 1>> /\ call'[i] = [st |-> "sent", reply |-> NoReply]
                 \/ /\ i # <<c, chat[c].attempt + 1>> /\ call'[i].st = call[i].st
                    /\ call'[i].reply \in {call[i].reply, NoReply}
<1>1. /\ chat[c] \in ChatState /\ chat \in [Chats -> ChatState]
      /\ chat[c].attempt \in Nat /\ chat[c].attempt + 1 \in 1 .. Attempts
  BY DEF StandInv, TypeOK, ChatState, Posts, AgentAssumption
<1> DEFINE j == <<c, chat[c].attempt + 1>>
<1>2. j \in CallIds
  BY <1>1, CallIdParts
<1>3. call[j].st = "none"
  <2>1. j[1] = c /\ j[2] = chat[c].attempt + 1
    OBVIOUS
  <2>2. call[j].st # "none" => j[2] <= chat[j[1]].attempt
    BY <1>2 DEF StandInv, CallsStand
  <2>3. QED
    BY <1>1, <2>1, <2>2
<1>4. chat' = [chat EXCEPT ![c].pc = "wait", ![c].attempt = @ + 1]
  BY DEF Posts, Post
<1>5. /\ chat' \in [Chats -> ChatState]
      /\ \A d \in Chats : d # c => chat'[d] = chat[d]
      /\ chat'[c].pc = "wait" /\ chat'[c].attempt = chat[c].attempt + 1
      /\ chat'[c].service = chat[c].service
  <2> DEFINE s == [chat[c] EXCEPT !.pc = "wait", !.attempt = chat[c].attempt + 1]
  <2>1. chat[c].attempt + 1 \in 0 .. Attempts
    BY <1>1 DEF AgentAssumption
  <2>2. /\ s \in ChatState /\ s.pc = "wait" /\ s.attempt = chat[c].attempt + 1
        /\ s.service = chat[c].service
    BY <1>1, <2>1 DEF ChatState, ChatSteps
  <2>3. chat' = [chat EXCEPT ![c] = s]
    BY <1>1, <1>4
  <2> HIDE DEF s
  <2>4. QED
    BY <1>1, <2>2, <2>3
<1>6. \A i \in CallIds : call[i] \in CallState
  BY DEF StandInv, TypeOK
<1>7. call' = [i \in CallIds |->
          IF i = j THEN [st |-> "sent", reply |-> NoReply]
          ELSE IF i = <<c, chat[c].attempt>> THEN [call[i] EXCEPT !.reply = NoReply]
          ELSE call[i]]
  BY DEF Posts, Post
<1> HIDE DEF j
<1>8. ASSUME NEW i \in CallIds
      PROVE  /\ call'[i] \in CallState
             /\ \/ i = j /\ call'[i] = [st |-> "sent", reply |-> NoReply]
                \/ /\ i # j /\ call'[i].st = call[i].st
                   /\ call'[i].reply \in {call[i].reply, NoReply}
  <2>1. call[i] \in CallState
    BY <1>6
  <2>2. QED
    BY <1>7, <2>1, ReplyType DEF CallState
<1>9. call' \in [CallIds -> CallState]
  BY <1>7, <1>8
<1>10. QED
  BY <1>2, <1>3, <1>5, <1>8, <1>9 DEF j

LEMMA PostKeeps ==
    ASSUME AgentAssumption, StandInv, NEW c \in Chats, Posts(c)
    PROVE  Evolves /\ StandInv'
<1>1. /\ chat[c].pc \in {"send", "wait"}
      /\ UNCHANGED <<keys, forgotten, approvals, ran, tickets, script>>
  BY DEF Posts
<1> DEFINE j == <<c, chat[c].attempt + 1>>
<1>2. chat[c].attempt \in Nat /\ j[1] = c /\ j[2] = chat[c].attempt + 1
  BY DEF StandInv, TypeOK, ChatState
<1>3. /\ j \in CallIds /\ call[j].st = "none"
      /\ \A i \in CallIds :
            \/ i = j /\ call'[i] = [st |-> "sent", reply |-> NoReply]
            \/ /\ i # j /\ call'[i].st = call[i].st
               /\ call'[i].reply \in {call[i].reply, NoReply}
  BY PostMoves
<1>4. /\ \A d \in Chats : d # c => chat'[d] = chat[d]
      /\ chat'[c].pc = "wait" /\ chat'[c].attempt = chat[c].attempt + 1
      /\ chat'[c].service = chat[c].service
  BY PostMoves
<1> HIDE DEF j
<1>5. Evolves
  BY <1>1, <1>4 DEF Evolves, Found
<1>6. TypeOK'
  BY <1>1, PostMoves DEF StandInv, TypeOK
<1>7. IntentOf(c) \in Operating /\ c \in DOMAIN script
  BY <1>1 DEF StandInv, ChatsStand
<1>8. ChatsStand'
  BY <1>1, <1>2, <1>4, <1>7, MessagesStay DEF StandInv, ChatsStand
<1>9. CallsStand'
  <2> SUFFICES ASSUME NEW i \in CallIds
               PROVE  CallsStand!(i)'
    BY DEF CallsStand
  <2>1. CallsStand!(i) /\ i[1] \in Chats /\ i[2] \in Nat
    BY CallIdParts DEF StandInv, CallsStand
  <2>2. CASE i = j
    <3>1. call'[i].st = "sent" /\ call'[i].reply = NoReply
      BY <1>3, <2>2
    <3>2. i \notin ran' /\ approvals'[i].status = "NONE"
      BY <1>1, <1>3, <2>1, <2>2
    <3>3. chat'[i[1]].pc = "wait" /\ i[2] <= chat'[i[1]].attempt
      BY <1>2, <1>4, <2>2
    <3>4. IntentOf(i[1])' \in Operating
      BY <1>1, <1>2, <1>7, <2>2, MessagesStay
    <3>5. QED
      BY <3>1, <3>2, <3>3, <3>4
  <2>3. CASE i # j /\ call[i].st = "none"
    BY <1>1, <1>3, <2>1, <2>3
  <2>4. CASE i # j /\ call[i].st # "none"
    <3>1. call'[i].st = call[i].st /\ call'[i].reply \in {call[i].reply, NoReply}
      BY <1>3, <2>4
    <3>2. chat'[i[1]].pc \in {"wait", "done"} /\ i[2] <= chat'[i[1]].attempt
      BY <1>2, <1>4, <2>1, <2>4
    <3>3. QED
      BY <1>1, <1>5, <2>1, <2>4, <3>1, <3>2, CallStays DEF StandInv
  <2>5. QED
    BY <2>2, <2>3, <2>4
<1>10. QED
  BY <1>5, <1>6, <1>8, <1>9 DEF StandInv

\* The end of a chat: it takes the answer of its attempt, or says that none came.
Concludes(c, reply) ==
    /\ c \in Chats /\ chat[c].pc = "wait"
    /\ \/ reply = call[<<c, chat[c].attempt>>].reply
       \/ reply = TransportFailure(c)
    /\ Conclude(c, reply)
    /\ call' = [call EXCEPT ![<<c, chat[c].attempt>>].reply = NoReply]
    /\ UNCHANGED <<keys, forgotten, approvals, ran, tickets, script>>

LEMMA WaitsForCall ==
    ASSUME AgentAssumption, StandInv, NEW c \in Chats, chat[c].pc = "wait"
    PROVE  <<c, chat[c].attempt>> \in CallIds
<1>1. chat[c].attempt \in 1 .. Attempts
  BY DEF StandInv, TypeOK, ChatState, ChatsStand, AgentAssumption
<1> QED BY <1>1, CallIdParts

LEMMA ClientMoves ==
    ASSUME AgentAssumption, StandInv, NEW c \in Chats, script' = script,
           Send(c) \/ Receive(c) \/ GiveUp(c)
    PROVE  Posts(c) \/ \E reply : Concludes(c, reply)
<1>1. CASE Send(c)
  <2>1. chat[c].attempt = 0 /\ 0 < Attempts
    BY <1>1 DEF Send, StandInv, ChatsStand, AgentAssumption
  <2>2. QED
    BY <1>1, <2>1 DEF Send, Posts
<1>2. CASE Receive(c)
  <2>1. Concludes(c, call[<<c, chat[c].attempt>>].reply)
    BY <1>2 DEF Receive, Concludes
  <2>2. QED
    BY <2>1
<1>3. CASE GiveUp(c)
  <2>1. CASE chat[c].attempt < Attempts /\ Post(c)
    BY <1>3, <2>1 DEF GiveUp, Posts
  <2>2. CASE /\ Conclude(c, TransportFailure(c))
             /\ call' = [call EXCEPT ![<<c, chat[c].attempt>>].reply = NoReply]
    <3>1. Concludes(c, TransportFailure(c))
      BY <1>3, <2>2 DEF GiveUp, Concludes
    <3>2. QED
      BY <3>1
  <2>3. QED
    BY <1>3, <2>1, <2>2 DEF GiveUp
<1>4. QED
  BY <1>1, <1>2, <1>3

LEMMA ConcludeMoves ==
    ASSUME AgentAssumption, StandInv, NEW c \in Chats, NEW reply, Concludes(c, reply)
    PROVE  /\ chat' \in [Chats -> ChatState] /\ call' \in [CallIds -> CallState]
           /\ \A d \in Chats : d # c => chat'[d] = chat[d]
           /\ chat'[c].pc = "done" /\ chat'[c].attempt = chat[c].attempt
           /\ chat'[c].service = chat[c].service
           /\ chat'[c].reply = reply
           /\ chat'[c].ok /\ IntentOf(c) # "REQUEST_SERVICE_RESTART" => reply.code = "allowed"
           /\ \A i \in CallIds :
                 call'[i].st = call[i].st /\ call'[i].reply \in {call[i].reply, NoReply}
<1> DEFINE i == <<c, chat[c].attempt>>
<1>1. i \in CallIds
  BY WaitsForCall DEF Concludes
<1>2. /\ chat \in [Chats -> ChatState] /\ call \in [CallIds -> CallState]
      /\ chat[c] \in ChatState /\ call[i] \in CallState
  BY <1>1 DEF StandInv, TypeOK
<1>3. TransportFailure(c) \in Reply
  BY <1>1 DEF TransportFailure, Reply, Codes
<1>4. reply \in Reply
  BY <1>2, <1>3 DEF Concludes, CallState
<1>5. ASSUME NEW ok \in BOOLEAN, NEW escalate \in BOOLEAN, Answer(c, ok, escalate, reply),
             ok /\ IntentOf(c) # "REQUEST_SERVICE_RESTART" => reply.code = "allowed"
      PROVE  /\ chat' \in [Chats -> ChatState]
             /\ \A d \in Chats : d # c => chat'[d] = chat[d]
             /\ chat'[c].pc = "done" /\ chat'[c].attempt = chat[c].attempt
             /\ chat'[c].service = chat[c].service
             /\ chat'[c].reply = reply
             /\ chat'[c].ok /\ IntentOf(c) # "REQUEST_SERVICE_RESTART" =>
                   reply.code = "allowed"
  <2> DEFINE s == [chat[c] EXCEPT !.pc = "done", !.ok = ok, !.escalate = escalate,
                                  !.reply = reply]
  <2>1. /\ s \in ChatState /\ s.pc = "done" /\ s.attempt = chat[c].attempt
        /\ s.service = chat[c].service /\ s.reply = reply /\ s.ok = ok
    BY <1>2, <1>4 DEF ChatState, ChatSteps
  <2>2. chat' = [chat EXCEPT ![c] = s]
    BY <1>5 DEF Answer
  <2> HIDE DEF s
  <2>3. QED
    BY <1>2, <1>5, <2>1, <2>2
<1>6. /\ TRUE \in BOOLEAN /\ (reply.code = "allowed") \in BOOLEAN
      /\ (reply.code # "allowed") \in BOOLEAN /\ (reply.code = "pending") \in BOOLEAN
  OBVIOUS
<1>7. /\ chat' \in [Chats -> ChatState]
      /\ \A d \in Chats : d # c => chat'[d] = chat[d]
      /\ chat'[c].pc = "done" /\ chat'[c].attempt = chat[c].attempt
      /\ chat'[c].service = chat[c].service
      /\ chat'[c].reply = reply
      /\ chat'[c].ok /\ IntentOf(c) # "REQUEST_SERVICE_RESTART" => reply.code = "allowed"
  <2>1. CASE IntentOf(c) = "REQUEST_SERVICE_RESTART"
    <3>1. Answer(c, reply.code = "pending", TRUE, reply)
      BY <2>1 DEF Concludes, Conclude, ConcludeRequest
    <3>2. QED
      BY <1>5, <1>6, <2>1, <3>1
  <2>2. CASE IntentOf(c) # "REQUEST_SERVICE_RESTART"
    <3>1. Answer(c, reply.code = "allowed", reply.code # "allowed", reply)
      BY <2>2 DEF Concludes, Conclude, ConcludeOperation
    <3>2. QED
      BY <1>5, <1>6, <2>2, <3>1
  <2>3. QED
    BY <2>1, <2>2
<1>8. call' = [call EXCEPT ![i].reply = NoReply]
  BY DEF Concludes
<1> HIDE DEF i
<1>9. /\ call' \in [CallIds -> CallState]
      /\ \A j \in CallIds :
            call'[j].st = call[j].st /\ call'[j].reply \in {call[j].reply, NoReply}
  <2>1. [call[i] EXCEPT !.reply = NoReply] \in CallState
    BY <1>2, ReplyType DEF CallState
  <2>2. [call[i] EXCEPT !.reply = NoReply].st = call[i].st
        /\ [call[i] EXCEPT !.reply = NoReply].reply = NoReply
    BY <1>2 DEF CallState
  <2>3. QED
    BY <1>1, <1>2, <1>8, <2>1, <2>2
<1>10. QED
  BY <1>7, <1>9

LEMMA ConcludeKeeps ==
    ASSUME AgentAssumption, StandInv, NEW c \in Chats, NEW reply, Concludes(c, reply)
    PROVE  Evolves /\ StandInv'
<1>1. chat[c].pc = "wait" /\ UNCHANGED <<keys, forgotten, approvals, ran, tickets, script>>
  BY DEF Concludes
<1>2. /\ \A d \in Chats : d # c => chat'[d] = chat[d]
      /\ chat'[c].pc = "done" /\ chat'[c].attempt = chat[c].attempt
      /\ chat'[c].service = chat[c].service
  BY ConcludeMoves
<1>3. \A i \in CallIds :
         call'[i].st = call[i].st /\ call'[i].reply \in {call[i].reply, NoReply}
  BY ConcludeMoves
<1>4. Evolves
  BY <1>1, <1>2 DEF Evolves, Found
<1>5. TypeOK'
  BY <1>1, ConcludeMoves DEF StandInv, TypeOK
<1>6. ChatsStand'
  BY <1>1, <1>2, MessagesStay DEF StandInv, ChatsStand
<1>7. CallsStand'
  <2> SUFFICES ASSUME NEW i \in CallIds
               PROVE  CallsStand!(i)'
    BY DEF CallsStand
  <2>1. CallsStand!(i) /\ i[1] \in Chats
    BY CallIdParts DEF StandInv, CallsStand
  <2>2. CASE call[i].st = "none"
    BY <1>1, <1>3, <2>1, <2>2
  <2>3. CASE call[i].st # "none"
    <3>1. chat'[i[1]].pc \in {"wait", "done"} /\ i[2] <= chat'[i[1]].attempt
      BY <1>2, <2>1, <2>3
    <3>2. QED
      BY <1>1, <1>3, <1>4, <2>1, <2>3, <3>1, CallStays DEF StandInv
  <2>4. QED
    BY <2>2, <2>3
<1>8. QED
  BY <1>4, <1>5, <1>6, <1>7 DEF StandInv

----------------------------------------------------------------------------
(* the gateway *)

\* What serving a call may change.
Serves(i) ==
    /\ call[i].st \in {"sent", "running"}
    /\ UNCHANGED <<chat, script>>
    /\ call' \in [CallIds -> CallState] /\ \A j \in CallIds : j # i => call'[j] = call[j]
    /\ \/ call'[i].st = "done"
       \/ /\ call'[i].st = "running" /\ call'[i].reply = NoReply
          /\ IntentOf(i[1]) # "REQUEST_SERVICE_RESTART"
          /\ IdempotencyKey(i[1]) \in DOMAIN keys'
          /\ IntentOf(i[1]) = "EXECUTE_APPROVED_RESTART" => HoldsApproval(i[1])
    /\ ran \subseteq ran' /\ ran' \subseteq ran \cup {i}
    /\ i \in ran' => call'[i].st = "done" /\ IdempotencyKey(i[1]) \in DOMAIN keys'
    /\ tickets \subseteq tickets' /\ forgotten \subseteq forgotten'
    /\ DOMAIN keys \subseteq DOMAIN keys' /\ \A k \in DOMAIN keys' : keys'[k] \in KeyRecord
    /\ approvals' \in [ApprovalIds -> ApprovalRecord]
    /\ \A a \in ApprovalIds :
          \/ approvals'[a] = approvals[a]
          \/ a = i /\ call[i].st = "sent"
          \/ /\ approvals[a].status \notin {"NONE", "EXECUTED"} /\ approvals'[a].status # "NONE"
             /\ approvals'[a].service = approvals[a].service

LEMMA ServeKeeps ==
    ASSUME AgentAssumption, StandInv, NEW i \in CallIds, Serves(i)
    PROVE  Evolves /\ StandInv'
<1>1. /\ UNCHANGED <<chat, script>> /\ CallIds \subseteq ApprovalIds
      /\ call[i].st = "sent" => approvals[i].status = "NONE"
  BY DEF Serves, StandInv, CallsStand, ApprovalIds
<1>2. \A a \in ApprovalIds : approvals[a].status # "NONE" =>
         /\ approvals'[a].status # "NONE" /\ approvals'[a].service = approvals[a].service
         /\ approvals[a].status = "EXECUTED" => approvals'[a].status = "EXECUTED"
  BY <1>1 DEF Serves
<1>3. Evolves
  BY <1>1, <1>2 DEF Evolves, Serves
<1>4. TypeOK'
  BY <1>1 DEF Serves, StandInv, TypeOK
<1>5. ChatsStand'
  BY <1>1, MessagesStay DEF StandInv, ChatsStand
<1>6. CallsStand'
  <2> SUFFICES ASSUME NEW j \in CallIds
               PROVE  CallsStand!(j)'
    BY DEF CallsStand
  <2>1. CallsStand!(j) /\ j \in ApprovalIds
    BY <1>1 DEF StandInv, CallsStand
  <2>2. CASE j = i
    <3>1. /\ IdempotencyKey(i[1])' = IdempotencyKey(i[1]) /\ IntentOf(i[1])' = IntentOf(i[1])
          /\ HoldsApproval(i[1]) => HoldsApproval(i[1])'
      BY <1>3, CallStays DEF Serves, StandInv
    <3>2. QED
      BY <1>1, <2>1, <2>2, <3>1 DEF Serves
  <2>3. CASE j # i
    <3>1. call'[j] = call[j] /\ (j \in ran' <=> j \in ran)
      BY <2>3 DEF Serves
    <3>2. approvals[j].status = "NONE" => approvals'[j].status = "NONE"
      BY <2>1, <2>3 DEF Serves
    <3>3. DOMAIN keys \subseteq DOMAIN keys'
      BY DEF Serves
    <3>4. CASE call[j].st = "none"
      BY <1>1, <2>1, <3>1, <3>2, <3>4
    <3>5. CASE call[j].st # "none"
      BY <1>1, <1>3, <2>1, <3>1, <3>2, <3>3, <3>5, CallStays DEF StandInv
    <3>6. QED
      BY <3>4, <3>5
  <2>4. QED
    BY <2>2, <2>3
<1>7. QED
  BY <1>3, <1>4, <1>5, <1>6 DEF StandInv

\* The answer to a call.
LEMMA RespondMoves ==
    ASSUME StandInv, NEW i \in CallIds, NEW reply \in Reply, Respond(i, reply)
    PROVE  /\ call' \in [CallIds -> CallState] /\ \A j \in CallIds : j # i => call'[j] = call[j]
           /\ call'[i].st = "done" /\ call'[i].reply \in {reply, NoReply}
<1> DEFINE s == [st |-> "done",
                 reply |-> IF chat[i[1]].pc = "wait" /\ chat[i[1]].attempt = i[2] THEN reply
                           ELSE NoReply]
<1>1. s \in CallState /\ s.st = "done" /\ s.reply \in {reply, NoReply}
  BY ReplyType DEF CallState
<1>2. call' = [call EXCEPT ![i] = s] /\ call \in [CallIds -> CallState]
  BY DEF Respond, StandInv, TypeOK
<1> HIDE DEF s
<1>3. QED
  BY <1>1, <1>2

\* The key that is reserved was unknown or has outlived its retention.
LEMMA ReservingMoves ==
    ASSUME AgentAssumption, StandInv, NEW k, NEW reply \in Reply,
           NEW status \in {"RESERVED", "RUNNING", "SUCCEEDED", "PERMANENT_FAILED"},
           Reserving(k, status, reply)
    PROVE  /\ DOMAIN keys' = DOMAIN keys \cup {k} /\ \A j \in DOMAIN keys' : keys'[j] \in KeyRecord
           /\ \A j \in DOMAIN keys : j # k => keys'[j] = keys[j]
           /\ keys'[k].reply = reply /\ keys'[k].age = 0
           /\ ~Live(k) /\ forgotten \subseteq forgotten'
           /\ k \in DOMAIN keys => k \in forgotten'
<1>1. keys' = [j \in DOMAIN keys \cup {k} |->
          IF j = k THEN [status |-> status, reply |-> reply, age |-> 0] ELSE keys[j]]
  BY DEF Reserving
<1>2. [status |-> status, reply |-> reply, age |-> 0] \in KeyRecord
  BY DEF KeyRecord, AgentAssumption
<1>3. \A j \in DOMAIN keys : keys[j] \in KeyRecord
  BY DEF StandInv, TypeOK
<1>4. ASSUME k \in DOMAIN keys
      PROVE  keys[k].age = Ttl
  <2>1. keys[k].age \in 0 .. Ttl /\ Ttl \in Nat
    BY <1>3, <1>4 DEF KeyRecord, AgentAssumption
  <2>2. ~(keys[k].age < Ttl)
    BY <1>4 DEF Reserving, Live
  <2>3. QED
    BY <2>1, <2>2
<1>5. forgotten \subseteq forgotten' /\ (k \in DOMAIN keys => k \in forgotten') /\ ~Live(k)
  BY <1>4 DEF Reserving
<1>6. QED
  BY <1>1, <1>2, <1>3, <1>5

\* Who asks, and for what.
LEMMA CallerOf ==
    ASSUME AgentAssumption, StandInv, NEW i \in CallIds, call[i].st # "none"
    PROVE  /\ i[1] \in DOMAIN script /\ i[1] \in Chats /\ IntentOf(i[1]) \in Operating
           /\ chat[i[1]].service \in Services \cup {None}
           /\ i \in ApprovalIds
<1>1. i[1] \in Chats /\ chat[i[1]].pc # "idle" /\ IntentOf(i[1]) \in Operating
  BY CallIdParts DEF StandInv, CallsStand
<1>2. i[1] \in DOMAIN script /\ chat[i[1]] \in ChatState
  BY <1>1 DEF StandInv, ChatsStand, TypeOK
<1>3. QED
  BY <1>1, <1>2 DEF ChatState, ApprovalIds

LEMMA RefuseServes ==
    ASSUME AgentAssumption, StandInv, NEW i \in CallIds, script' = script, Refuse(i[1], i)
    PROVE  Serves(i)
<1>1. [code |-> "denied", by |-> i] \in Reply
  BY ReplyType DEF Codes
<1>2. /\ call' \in [CallIds -> CallState] /\ \A j \in CallIds : j # i => call'[j] = call[j]
      /\ call'[i].st = "done"
  BY <1>1, RespondMoves DEF Refuse
<1>3. call[i].st = "sent" /\ UNCHANGED <<chat, keys, forgotten, approvals, ran, tickets>>
  BY DEF Refuse, Arrived
<1>4. i \notin ran
  BY <1>3 DEF StandInv, CallsStand
<1>5. QED
  BY <1>2, <1>3, <1>4 DEF Serves, StandInv, TypeOK

LEMMA KnownKeyServes ==
    ASSUME AgentAssumption, StandInv, NEW i \in CallIds, script' = script, KnownKey(i[1], i)
    PROVE  Serves(i)
<1> DEFINE k == IdempotencyKey(i[1])
           reply == IF keys[k].reply # NoReply THEN keys[k].reply
                    ELSE [code |-> "duplicate", by |-> i]
<1>1. keys[k] \in KeyRecord
  BY DEF KnownKey, Live, StandInv, TypeOK
<1>2. reply \in Reply
  BY <1>1, ReplyType DEF Codes, KeyRecord
<1>3. /\ call[i].st = "sent" /\ UNCHANGED <<chat, keys, forgotten, approvals, ran, tickets>>
      /\ Respond(i, reply)
  BY DEF KnownKey, Authorized, Arrived
<1> HIDE DEF reply
<1>4. /\ call' \in [CallIds -> CallState] /\ \A j \in CallIds : j # i => call'[j] = call[j]
      /\ call'[i].st = "done"
  BY <1>2, <1>3, RespondMoves
<1>5. i \notin ran
  BY <1>3 DEF StandInv, CallsStand
<1>6. QED
  BY <1>3, <1>4, <1>5 DEF Serves, StandInv, TypeOK

LEMMA AskServes ==
    ASSUME AgentAssumption, StandInv, NEW i \in CallIds, script' = script, AskApproval(i[1], i)
    PROVE  Serves(i)
<1> DEFINE k == IdempotencyKey(i[1])
           record == [status |-> "PENDING", user |-> Actor(Msg(i[1])),
                      device |-> Msg(i[1]).device, service |-> chat[i[1]].service, age |-> 0]
<1>1. [code |-> "pending", by |-> i] \in Reply /\ NoReply \in Reply
  BY ReplyType DEF Codes
<1>2. /\ call' \in [CallIds -> CallState] /\ \A j \in CallIds : j # i => call'[j] = call[j]
      /\ call'[i].st = "done"
  BY <1>1, RespondMoves DEF AskApproval
<1>3. call[i].st = "sent" /\ UNCHANGED <<chat, ran, tickets>>
  BY DEF AskApproval, Authorized, Arrived
<1>4. i \notin ran
  BY <1>3 DEF StandInv, CallsStand
<1>5. /\ DOMAIN keys \subseteq DOMAIN keys' /\ \A j \in DOMAIN keys' : keys'[j] \in KeyRecord
      /\ forgotten \subseteq forgotten'
  BY <1>1, ReservingMoves DEF AskApproval
<1>6. /\ i[1] \in DOMAIN script /\ chat[i[1]].service \in Services \cup {None}
      /\ i \in ApprovalIds
  BY <1>3, CallerOf
<1>7. record \in ApprovalRecord
  <2>1. Actor(Msg(i[1])) \in Principals /\ Msg(i[1]).device \in Devices \cup {None}
    BY <1>6, MessageType DEF StandInv
  <2>2. QED
    BY <1>6, <2>1 DEF ApprovalRecord, AgentAssumption
<1>8. approvals' = [approvals EXCEPT ![i] = record] /\ approvals \in [ApprovalIds -> ApprovalRecord]
  BY DEF AskApproval, StandInv, TypeOK
<1> HIDE DEF record
<1>9. /\ approvals' \in [ApprovalIds -> ApprovalRecord]
      /\ \A a \in ApprovalIds : a # i => approvals'[a] = approvals[a]
  BY <1>6, <1>7, <1>8
<1>10. QED
  BY <1>2, <1>3, <1>4, <1>5, <1>9 DEF Serves

LEMMA StartServes ==
    ASSUME AgentAssumption, StandInv, NEW i \in CallIds, script' = script, StartTool(i[1], i)
    PROVE  Serves(i)
<1>1. call[i].st = "sent" /\ UNCHANGED <<chat, approvals, ran, tickets>>
  BY DEF StartTool, Authorized, Arrived
<1>2. i \notin ran /\ i[1] \in DOMAIN script /\ call[i].reply = NoReply
  BY <1>1, CallerOf DEF StandInv, CallsStand
<1>3. NoReply \in Reply
  BY ReplyType
<1>4. /\ DOMAIN keys \subseteq DOMAIN keys' /\ \A j \in DOMAIN keys' : keys'[j] \in KeyRecord
      /\ forgotten \subseteq forgotten' /\ IdempotencyKey(i[1]) \in DOMAIN keys'
  <2>1. Reserving(IdempotencyKey(i[1]), "RUNNING", NoReply)
    BY DEF StartTool
  <2>2. /\ DOMAIN keys' = DOMAIN keys \cup {IdempotencyKey(i[1])}
        /\ \A j \in DOMAIN keys' : keys'[j] \in KeyRecord
        /\ forgotten \subseteq forgotten'
    BY <1>3, <2>1, ReservingMoves
  <2>3. QED
    BY <2>2, Zenon
<1>5. /\ call \in [CallIds -> CallState] /\ call[i] \in CallState
      /\ call' = [call EXCEPT ![i].st = "running"]
  BY DEF StartTool, StandInv, TypeOK
<1>6. /\ call' \in [CallIds -> CallState] /\ \A j \in CallIds : j # i => call'[j] = call[j]
      /\ call'[i].st = "running" /\ call'[i].reply = NoReply
  <2>1. /\ [call[i] EXCEPT !.st = "running"] \in CallState
        /\ [call[i] EXCEPT !.st = "running"].st = "running"
        /\ [call[i] EXCEPT !.st = "running"].reply = NoReply
    BY <1>2, <1>5 DEF CallState
  <2>2. QED
    BY <1>5, <2>1
<1>7. IntentOf(i[1]) # "REQUEST_SERVICE_RESTART"
  BY DEF StartTool
<1>8. ASSUME IntentOf(i[1]) = "EXECUTE_APPROVED_RESTART"
      PROVE  HoldsApproval(i[1])
  <2>1. Msg(i[1]).approval \in ApprovalIds
    BY <1>2, <1>8, ApprovedNamed DEF StandInv
  <2>2. Usable(i[1])
    BY <1>8 DEF StartTool
  <2>3. QED
    BY <2>1, <2>2 DEF HoldsApproval, Usable
<1>9. QED
  BY <1>1, <1>2, <1>4, <1>6, <1>7, <1>8 DEF Serves, StandInv, TypeOK

LEMMA RefuseApprovalServes ==
    ASSUME AgentAssumption, StandInv, NEW i \in CallIds, script' = script,
           RefuseApproval(i[1], i)
    PROVE  Serves(i)
<1> DEFINE a == Msg(i[1]).approval
           k == IdempotencyKey(i[1])
           reply == [code |-> "denied", by |-> i]
<1>1. reply \in Reply
  BY ReplyType DEF Codes
<1>2. call[i].st = "sent" /\ UNCHANGED <<chat, ran, tickets>>
  BY DEF RefuseApproval, Authorized, Arrived
<1>3. /\ call' \in [CallIds -> CallState] /\ \A j \in CallIds : j # i => call'[j] = call[j]
      /\ call'[i].st = "done"
  BY <1>1, RespondMoves DEF RefuseApproval
<1>4. i \notin ran /\ i[1] \in DOMAIN script
  BY <1>2, CallerOf DEF StandInv, CallsStand
<1>5. /\ DOMAIN keys' = DOMAIN keys \cup {k} /\ \A j \in DOMAIN keys' : keys'[j] \in KeyRecord
      /\ forgotten \subseteq forgotten'
  <2>1. Reserving(k, "PERMANENT_FAILED", reply)
    BY DEF RefuseApproval
  <2>2. QED
    BY <1>1, <2>1, ReservingMoves
<1>6. a \in ApprovalIds
  BY <1>4, ApprovedNamed DEF RefuseApproval, StandInv
<1>7. approvals \in [ApprovalIds -> ApprovalRecord]
  BY DEF StandInv, TypeOK
<1>8. \/ approvals' = approvals
      \/ Overdue(a) /\ approvals' = [approvals EXCEPT ![a].status = "EXPIRED"]
  BY DEF RefuseApproval
<1> HIDE DEF a, k, reply
<1>9. /\ approvals' \in [ApprovalIds -> ApprovalRecord]
      /\ \A b \in ApprovalIds :
            \/ approvals'[b] = approvals[b]
            \/ /\ approvals[b].status \notin {"NONE", "EXECUTED"} /\ approvals'[b].status # "NONE"
               /\ approvals'[b].service = approvals[b].service
  <2>1. CASE approvals' = approvals
    BY <1>7, <2>1
  <2>2. CASE Overdue(a) /\ approvals' = [approvals EXCEPT ![a].status = "EXPIRED"]
    BY <1>6, <1>7, <2>2 DEF Overdue, ApprovalRecord
  <2>3. QED
    BY <1>8, <2>1, <2>2
<1>10. DOMAIN keys \subseteq DOMAIN keys'
  BY <1>5
<1>11. QED
  BY <1>2, <1>3, <1>4, <1>5, <1>9, <1>10 DEF Serves

LEMMA FinishMoves ==
    ASSUME AgentAssumption, StandInv, NEW i \in CallIds, script' = script,
           NEW code \in Codes, call[i].st = "running", Finish(i[1], i, code)
    PROVE  /\ call' \in [CallIds -> CallState] /\ \A j \in CallIds : j # i => call'[j] = call[j]
           /\ call'[i].st = "done"
           /\ call'[i].reply \in {[code |-> code, by |-> i], NoReply}
           /\ DOMAIN keys' = DOMAIN keys /\ \A j \in DOMAIN keys' : keys'[j] \in KeyRecord
           /\ IdempotencyKey(i[1]) \in DOMAIN keys
           /\ \A j \in DOMAIN keys : j # IdempotencyKey(i[1]) => keys'[j] = keys[j]
           /\ keys'[IdempotencyKey(i[1])].reply = [code |-> code, by |-> i]
           /\ UNCHANGED <<chat, forgotten>>
<1> DEFINE k == IdempotencyKey(i[1])
           reply == [code |-> code, by |-> i]
<1>1. reply \in Reply
  BY ReplyType
<1>2. /\ call' \in [CallIds -> CallState] /\ \A j \in CallIds : j # i => call'[j] = call[j]
      /\ call'[i].st = "done" /\ call'[i].reply \in {reply, NoReply}
  BY <1>1, RespondMoves DEF Finish
<1>3. k \in DOMAIN keys /\ \A j \in DOMAIN keys : keys[j] \in KeyRecord
  BY DEF StandInv, CallsStand, TypeOK
<1>4. PICK age \in {keys[k].age, 0} :
         keys' = [keys EXCEPT ![k] =
            [status |-> IF code = "allowed" THEN "SUCCEEDED" ELSE "PERMANENT_FAILED",
             reply |-> reply, age |-> age]]
  BY DEF Finish
<1>5. UNCHANGED <<chat, forgotten>>
  BY DEF Finish
<1>6. age \in 0 .. Ttl
  BY <1>3, <1>4 DEF KeyRecord, AgentAssumption
<1>7. [status |-> IF code = "allowed" THEN "SUCCEEDED" ELSE "PERMANENT_FAILED",
       reply |-> reply, age |-> age] \in KeyRecord
  BY <1>1, <1>6 DEF KeyRecord
<1> HIDE DEF k
<1>8. /\ DOMAIN keys' = DOMAIN keys /\ \A j \in DOMAIN keys' : keys'[j] \in KeyRecord
      /\ \A j \in DOMAIN keys : j # k => keys'[j] = keys[j]
      /\ keys'[k].reply = reply
  BY <1>3, <1>4, <1>7
<1>9. QED
  BY <1>2, <1>3, <1>5, <1>8 DEF k

LEMMA CreateServes ==
    ASSUME AgentAssumption, StandInv, NEW i \in CallIds, script' = script,
           NEW code \in {"allowed", "denied", "timeout"}, CreateTicket(i[1], i, code)
    PROVE  Serves(i)
<1>1. code \in Codes /\ call[i].st = "running" /\ Finish(i[1], i, code) /\ UNCHANGED approvals
  BY DEF Codes, CreateTicket, Running
<1>2. /\ ran \subseteq ran' /\ ran' \subseteq ran \cup {i} /\ tickets \subseteq tickets'
  BY DEF CreateTicket
<1>3. QED
  BY <1>1, <1>2, FinishMoves DEF Serves, StandInv, TypeOK

LEMMA RestartServes ==
    ASSUME AgentAssumption, StandInv, NEW i \in CallIds, script' = script,
           NEW code \in {"allowed", "denied", "timeout"}, RestartService(i[1], i, code)
    PROVE  Serves(i)
<1> DEFINE a == Msg(i[1]).approval
           answer == IF code = "allowed" /\ approvals[a].status # "APPROVED" THEN "denied"
                     ELSE code
<1>1. answer \in Codes /\ call[i].st = "running" /\ Finish(i[1], i, answer)
      /\ UNCHANGED tickets
  BY DEF Codes, RestartService, Running
<1>2. ran \subseteq ran' /\ ran' \subseteq ran \cup {i}
  BY DEF RestartService
<1>3. a \in ApprovalIds
  BY <1>1 DEF StandInv, CallsStand, HoldsApproval, RestartService
<1>4. approvals \in [ApprovalIds -> ApprovalRecord]
  BY DEF StandInv, TypeOK
<1>5. \/ approvals' = approvals
      \/ /\ approvals[a].status = "APPROVED"
         /\ approvals' = [approvals EXCEPT ![a].status =
                             IF code = "allowed" THEN "EXECUTED" ELSE "FAILED"]
  BY DEF RestartService
<1> HIDE DEF a, answer
<1>6. /\ approvals' \in [ApprovalIds -> ApprovalRecord]
      /\ \A b \in ApprovalIds :
            \/ approvals'[b] = approvals[b]
            \/ /\ approvals[b].status \notin {"NONE", "EXECUTED"} /\ approvals'[b].status # "NONE"
               /\ approvals'[b].service = approvals[b].service
  <2>1. CASE approvals' = approvals
    BY <1>4, <2>1
  <2>2. CASE /\ approvals[a].status = "APPROVED"
             /\ approvals' = [approvals EXCEPT ![a].status =
                                 IF code = "allowed" THEN "EXECUTED" ELSE "FAILED"]
    BY <1>3, <1>4, <2>2 DEF ApprovalRecord
  <2>3. QED
    BY <1>5, <2>1, <2>2
<1>7. QED
  BY <1>1, <1>2, <1>6, FinishMoves DEF Serves

LEMMA GatewayServes ==
    ASSUME AgentAssumption, StandInv, NEW c \in Chats, NEW n \in 1 .. Attempts, script' = script,
           GatewayStep(c, <<c, n>>)
    PROVE  <<c, n>> \in CallIds /\ Serves(<<c, n>>)
<1> DEFINE i == <<c, n>>
<1>1. i \in CallIds /\ i[1] = c
  BY CallIdParts
<1>2. GatewayStep(i[1], i)
  BY <1>1
<1> HIDE DEF i
<1>3. Serves(i)
  BY <1>1, <1>2, RefuseServes, KnownKeyServes, AskServes, StartServes, RefuseApprovalServes,
     CreateServes, RestartServes DEF GatewayStep
<1>4. QED
  BY <1>1, <1>3 DEF i

----------------------------------------------------------------------------
(* people and time *)

LEMMA DecideKeeps ==
    ASSUME StandInv, NEW a \in ApprovalIds, NEW status \in {"APPROVED", "REJECTED"},
           Decide(a, status), script' = script
    PROVE  Evolves /\ StandInv'
<1>1. /\ approvals[a].status = "PENDING"
      /\ approvals' = [approvals EXCEPT ![a].status = status]
      /\ UNCHANGED <<chat, call, keys, forgotten, ran, tickets>>
  BY DEF Decide
<1>2. approvals \in [ApprovalIds -> ApprovalRecord]
  BY DEF StandInv, TypeOK
<1>3. /\ approvals' \in [ApprovalIds -> ApprovalRecord]
      /\ \A b \in ApprovalIds :
            \/ approvals'[b] = approvals[b]
            \/ /\ approvals[b].status = "PENDING" /\ approvals'[b].status \notin {"NONE", "PENDING"}
               /\ approvals'[b].service = approvals[b].service
  BY <1>1, <1>2 DEF ApprovalRecord
<1>4. Evolves
  BY <1>1, <1>3 DEF Evolves
<1>5. TypeOK' /\ ChatsStand'
  BY <1>1, <1>3, MessagesStay DEF StandInv, TypeOK, ChatsStand
<1>6. CallsStand'
  <2> SUFFICES ASSUME NEW i \in CallIds
               PROVE  CallsStand!(i)'
    BY DEF CallsStand
  <2>1. CallsStand!(i) /\ i \in ApprovalIds
    BY DEF StandInv, CallsStand, ApprovalIds
  <2>2. approvals[i].status = "NONE" => approvals'[i].status = "NONE"
    BY <1>3, <2>1
  <2>3. CASE call[i].st = "none"
    BY <1>1, <2>1, <2>2, <2>3
  <2>4. CASE call[i].st # "none"
    BY <1>1, <1>4, <2>1, <2>2, <2>4, CallStays DEF StandInv
  <2>5. QED
    BY <2>3, <2>4
<1>7. QED
  BY <1>4, <1>5, <1>6 DEF StandInv

\* Time makes keys and pending approvals older, and changes nothing else of them.
LEMMA TickMoves ==
    ASSUME AgentAssumption, StandInv, Tick, script' = script
    PROVE  /\ DOMAIN keys' = DOMAIN keys /\ \A k \in DOMAIN keys' : keys'[k] \in KeyRecord
           /\ \A k \in DOMAIN keys :
                 keys'[k].reply = keys[k].reply /\ keys'[k].age = Older(keys[k].age)
           /\ approvals' \in [ApprovalIds -> ApprovalRecord]
           /\ \A a \in ApprovalIds :
                 /\ approvals'[a].status = approvals[a].status
                 /\ approvals'[a].user = approvals[a].user
                 /\ approvals'[a].device = approvals[a].device
                 /\ approvals'[a].service = approvals[a].service
                 /\ approvals[a].status = "PENDING" =>
                       approvals'[a].age = Older(approvals[a].age)
           /\ UNCHANGED <<chat, call, forgotten, ran, tickets>>
<1>1. \A age \in 0 .. Ttl : Older(age) \in 0 .. Ttl
  BY DEF Older, AgentAssumption
<1>2. /\ \A k \in DOMAIN keys : keys[k] \in KeyRecord
      /\ approvals \in [ApprovalIds -> ApprovalRecord]
  BY DEF StandInv, TypeOK
<1>3. keys' = [k \in DOMAIN keys |-> [keys[k] EXCEPT !.age = Older(keys[k].age)]]
  BY DEF Tick
<1>4. approvals' = [a \in ApprovalIds |->
          IF approvals[a].status # "PENDING" THEN approvals[a]
          ELSE [approvals[a] EXCEPT !.age = Older(approvals[a].age)]]
  BY DEF Tick
<1>5. ASSUME NEW k \in DOMAIN keys
      PROVE  /\ keys'[k] \in KeyRecord
             /\ keys'[k].reply = keys[k].reply /\ keys'[k].age = Older(keys[k].age)
  <2>1. keys'[k] = [keys[k] EXCEPT !.age = Older(keys[k].age)] /\ keys[k] \in KeyRecord
    BY <1>2, <1>3
  <2>2. QED
    BY <1>1, <2>1 DEF KeyRecord
<1>6. ASSUME NEW a \in ApprovalIds
      PROVE  /\ approvals'[a] \in ApprovalRecord
             /\ approvals'[a].status = approvals[a].status
             /\ approvals'[a].user = approvals[a].user
             /\ approvals'[a].device = approvals[a].device
             /\ approvals'[a].service = approvals[a].service
             /\ approvals[a].status = "PENDING" =>
                   approvals'[a].age = Older(approvals[a].age)
  <2>1. /\ approvals'[a] = IF approvals[a].status # "PENDING" THEN approvals[a]
                           ELSE [approvals[a] EXCEPT !.age = Older(approvals[a].age)]
        /\ approvals[a] \in ApprovalRecord
    BY <1>2, <1>4
  <2>2. QED
    BY <1>1, <2>1 DEF ApprovalRecord
<1>7. DOMAIN keys' = DOMAIN keys /\ DOMAIN approvals' = ApprovalIds
  BY <1>3, <1>4
<1>8. UNCHANGED <<chat, call, forgotten, ran, tickets>>
  BY DEF Tick
<1>9. approvals' \in [ApprovalIds -> ApprovalRecord]
  BY <1>4, <1>6
<1>10. QED
  BY <1>5, <1>6, <1>7, <1>8, <1>9

LEMMA TickKeeps ==
    ASSUME AgentAssumption, StandInv, Tick, script' = script
    PROVE  Evolves /\ StandInv'
<1>1. /\ UNCHANGED <<chat, call, forgotten, ran, tickets>> /\ DOMAIN keys' = DOMAIN keys
      /\ \A a \in ApprovalIds : approvals'[a].status = approvals[a].status
                                /\ approvals'[a].service = approvals[a].service
  BY TickMoves
<1>2. Evolves
  BY <1>1 DEF Evolves
<1>3. TypeOK'
  BY <1>1, TickMoves DEF StandInv, TypeOK
<1>4. ChatsStand'
  BY <1>1, MessagesStay DEF StandInv, ChatsStand
<1>5. CallsStand'
  <2> SUFFICES ASSUME NEW i \in CallIds
               PROVE  CallsStand!(i)'
    BY DEF CallsStand
  <2>1. CallsStand!(i) /\ i \in ApprovalIds
    BY DEF StandInv, CallsStand, ApprovalIds
  <2>2. CASE call[i].st = "none"
    BY <1>1, <2>1, <2>2
  <2>3. CASE call[i].st # "none"
    BY <1>1, <1>2, <2>1, <2>3, CallStays DEF StandInv
  <2>4. QED
    BY <2>2, <2>3
<1>6. QED
  BY <1>2, <1>3, <1>4, <1>5 DEF StandInv

----------------------------------------------------------------------------
(* every step *)

LEMMA InitStands == AgentAssumption /\ Init => StandInv
<1> SUFFICES ASSUME AgentAssumption, Init
             PROVE  StandInv
  OBVIOUS
<1>1. /\ \A c \in Chats : chat[c] = IdleChat
      /\ \A i \in CallIds : call[i] = [st |-> "none", reply |-> NoReply]
      /\ script \in Scripts /\ ran = {} /\ DOMAIN keys = {}
  BY DEF Init
<1>2. chat \in [Chats -> ChatState]
  <2>1. IdleChat \in ChatState
    BY ReplyType DEF IdleChat, ChatState, ChatSteps, AgentAssumption
  <2>2. QED
    BY <2>1 DEF Init
<1>3. call \in [CallIds -> CallState]
  <2>1. [st |-> "none", reply |-> NoReply] \in CallState
    BY ReplyType DEF CallState
  <2>2. QED
    BY <2>1 DEF Init
<1>4. approvals = [a \in ApprovalIds |->
          IF a \notin Granted THEN NoApproval
          ELSE [status |-> "APPROVED", user |-> None, device |-> GrantedFor[a][1],
                service |-> GrantedFor[a][2], age |-> 0]]
  BY DEF Init
<1>5. approvals \in [ApprovalIds -> ApprovalRecord]
  <2>1. NoApproval \in ApprovalRecord
    BY DEF NoApproval, ApprovalRecord, AgentAssumption
  <2>2. ASSUME NEW a \in Granted
        PROVE  [status |-> "APPROVED", user |-> None, device |-> GrantedFor[a][1],
                service |-> GrantedFor[a][2], age |-> 0] \in ApprovalRecord
    <3>1. GrantedFor[a] \in Devices \X Services
      BY DEF AgentAssumption
    <3>2. QED
      BY <3>1 DEF ApprovalRecord, AgentAssumption
  <2>3. QED
    BY <1>4, <2>1, <2>2
<1>6. TypeOK
  BY <1>1, <1>2, <1>3, <1>5 DEF TypeOK
<1>7. ChatsStand
  BY <1>1 DEF ChatsStand, IdleChat
<1>8. CallsStand
  <2>1. \A i \in CallIds : approvals[i].status = "NONE"
    BY <1>4 DEF ApprovalIds, NoApproval, AgentAssumption
  <2>2. QED
    BY <1>1, <2>1 DEF CallsStand
<1>9. QED
  BY <1>6, <1>7, <1>8 DEF StandInv

LEMMA StepKinds ==
    ASSUME AgentAssumption, StandInv, Next
    PROVE  /\ script' = script
           /\ \/ \E c \in Chats : Talks(c) \/ Posts(c) \/ \E reply : Concludes(c, reply)
              \/ \E i \in CallIds : Serves(i) /\ GatewayStep(i[1], i)
              \/ \E a \in ApprovalIds, status \in {"APPROVED", "REJECTED"} : Decide(a, status)
              \/ Tick
<1>1. script' = script
  BY DEF Next
<1>2. ASSUME NEW c \in Chats, Handle(c) \/ ChatStep(c)
      PROVE  Talks(c) \/ Posts(c) \/ \E reply : Concludes(c, reply)
  BY <1>1, <1>2, ChatTalks, ClientMoves DEF ChatStep, StandInv
<1>3. ASSUME NEW c \in Chats, NEW n \in 1 .. Attempts, GatewayStep(c, <<c, n>>)
      PROVE  \E i \in CallIds : Serves(i) /\ GatewayStep(i[1], i)
  <2> DEFINE i == <<c, n>>
  <2>1. i \in CallIds /\ Serves(i) /\ i[1] = c
    BY <1>1, <1>3, GatewayServes
  <2>2. GatewayStep(i[1], i)
    BY <1>3, <2>1
  <2>3. QED
    BY <2>1, <2>2
<1>4. QED
  BY <1>1, <1>2, <1>3 DEF Next

LEMMA NextStands ==
    ASSUME AgentAssumption, StandInv, Next
    PROVE  Evolves /\ StandInv'
<1>1. CASE \E c \in Chats : Talks(c) \/ Posts(c) \/ \E reply : Concludes(c, reply)
  BY <1>1, TalkKeeps, PostKeeps, ConcludeKeeps
<1>2. CASE \E i \in CallIds : Serves(i) /\ GatewayStep(i[1], i)
  BY <1>2, ServeKeeps
<1>3. CASE \E a \in ApprovalIds, status \in {"APPROVED", "REJECTED"} : Decide(a, status)
  BY <1>3, StepKinds, DecideKeeps
<1>4. CASE Tick
  BY <1>4, StepKinds, TickKeeps
<1>5. QED
  BY <1>1, <1>2, <1>3, <1>4, StepKinds

LEMMA StutterStands ==
    ASSUME StandInv, UNCHANGED vars
    PROVE  StandInv'
<1>1. /\ script' = script /\ chat' = chat /\ call' = call /\ keys' = keys
      /\ approvals' = approvals /\ ran' = ran /\ tickets' = tickets /\ forgotten' = forgotten
  BY DEF vars
<1>2. Evolves
  BY <1>1 DEF Evolves
<1>3. TypeOK' /\ ChatsStand'
  BY <1>1, MessagesStay DEF StandInv, TypeOK, ChatsStand
<1>4. CallsStand'
  <2> SUFFICES ASSUME NEW i \in CallIds
               PROVE  CallsStand!(i)'
    BY DEF CallsStand
  <2>1. CallsStand!(i)
    BY DEF StandInv, CallsStand
  <2>2. CASE call[i].st = "none"
    BY <1>1, <2>1, <2>2
  <2>3. CASE call[i].st # "none"
    BY <1>1, <1>2, <2>1, <2>3, CallStays DEF StandInv
  <2>4. QED
    BY <2>2, <2>3
<1>5. QED
  BY <1>3, <1>4 DEF StandInv

\* Chats, calls, keys and approvals keep their types; a call exists only for an attempt
\* that was made, and while its tool runs, and after, its key is stored.
THEOREM AgentTypes == Spec => [](TypeOK /\ ChatsStand /\ CallsStand)
<1>1. StandInv /\ [Next]_vars => StandInv'
  BY AgentAssumption, NextStands, StutterStands
<1>2. QED
  BY <1>1, AgentAssumption, InitStands, PTL DEF Spec, StandInv

----------------------------------------------------------------------------
(* one open approval for what is asked *)

LEMMA OpenIsLive ==
    ASSUME AgentAssumption, StandInv, PendingInv, NEW a \in ApprovalIds, Open(a)
    PROVE  Live(ApprovalKey(a)) /\ approvals[a].age < Ttl
<1>1. approvals[a].age \in 0 .. Ttl /\ Ttl \in Nat
  BY DEF StandInv, TypeOK, ApprovalRecord, AgentAssumption
<1>2. approvals[a].age # Ttl
  BY DEF Open, Overdue
<1>3. approvals[a].age < Ttl
  BY <1>1, <1>2
<1>4. QED
  BY <1>3 DEF PendingInv, Live

LEMMA PendingStays ==
    ASSUME PendingInv,
           \A a \in ApprovalIds : Open(a)' =>
              /\ Open(a) /\ ApprovalKey(a)' = ApprovalKey(a)
              /\ ApprovalKey(a) \in DOMAIN keys'
              /\ keys'[ApprovalKey(a)].age = approvals'[a].age
    PROVE  PendingInv'
BY DEF PendingInv

\* No approval is asked for, and the keys of open ones are left alone.
LEMMA RequestsKept ==
    ASSUME AgentAssumption, StandInv, PendingInv,
           \A a \in ApprovalIds :
              approvals'[a] = approvals[a] \/ approvals'[a].status # "PENDING",
           \A k \in DOMAIN keys : Live(k) /\ k[2] = "restart-request" =>
              k \in DOMAIN keys' /\ keys'[k] = keys[k]
    PROVE  PendingInv'
<1> SUFFICES ASSUME NEW a \in ApprovalIds, Open(a)'
             PROVE  /\ Open(a) /\ ApprovalKey(a)' = ApprovalKey(a)
                    /\ ApprovalKey(a) \in DOMAIN keys'
                    /\ keys'[ApprovalKey(a)].age = approvals'[a].age
  BY PendingStays
<1>1. approvals'[a] = approvals[a]
  BY DEF Open
<1>2. Open(a) /\ ApprovalKey(a)' = ApprovalKey(a)
  BY <1>1 DEF Open, Overdue, ApprovalKey
<1>3. Live(ApprovalKey(a)) /\ ApprovalKey(a)[2] = "restart-request"
  BY <1>2, OpenIsLive DEF ApprovalKey
<1>4. QED
  BY <1>1, <1>2, <1>3 DEF PendingInv, Live

\* Keys of different kinds are different.
LEMMA KeyKinds ==
    ASSUME NEW c
    PROVE  /\ IntentOf(c) = "CREATE_TICKET" => IdempotencyKey(c)[2] = "ticket-create"
           /\ IntentOf(c) = "EXECUTE_APPROVED_RESTART" =>
                 IdempotencyKey(c)[2] = "restart-execute"
           /\ IntentOf(c) = "REQUEST_SERVICE_RESTART" =>
                 IdempotencyKey(c) = RestartKey(c, "restart-request")
BY DEF IdempotencyKey, TicketKey, RestartKey

LEMMA AskPends ==
    ASSUME AgentAssumption, StandInv, PendingInv, script' = script, NEW i \in CallIds,
           AskApproval(i[1], i)
    PROVE  PendingInv'
<1> DEFINE k == IdempotencyKey(i[1])
<1>1. k = <<Actor(Msg(i[1])), "restart-request", Msg(i[1]).device, chat[i[1]].service>>
  BY KeyKinds DEF AskApproval, RestartKey
<1>2. /\ i \in ApprovalIds
      /\ approvals' = [approvals EXCEPT ![i] =
            [status |-> "PENDING", user |-> Actor(Msg(i[1])), device |-> Msg(i[1]).device,
             service |-> chat[i[1]].service, age |-> 0]]
      /\ approvals \in [ApprovalIds -> ApprovalRecord]
  BY DEF AskApproval, StandInv, TypeOK, ApprovalIds
<1>3. approvals'[i].age = 0 /\ ApprovalKey(i)' = k
  BY <1>1, <1>2 DEF ApprovalKey
<1> HIDE DEF k
<1>4. /\ DOMAIN keys' = DOMAIN keys \cup {k} /\ keys'[k].age = 0 /\ ~Live(k)
      /\ \A j \in DOMAIN keys : j # k => keys'[j] = keys[j]
  <2>1. Reserving(k, "RESERVED", NoReply)
    BY DEF AskApproval, k
  <2>2. QED
    BY <2>1, ReservingMoves, ReplyType
<1>5. ASSUME NEW a \in ApprovalIds, a # i, Open(a)'
      PROVE  /\ Open(a) /\ ApprovalKey(a)' = ApprovalKey(a) /\ ApprovalKey(a) # k
             /\ ApprovalKey(a) \in DOMAIN keys'
             /\ keys'[ApprovalKey(a)].age = approvals'[a].age
  <2>1. approvals'[a] = approvals[a]
    BY <1>2, <1>5
  <2>2. Open(a) /\ ApprovalKey(a)' = ApprovalKey(a)
    BY <1>5, <2>1 DEF Open, Overdue, ApprovalKey
  <2>3. Live(ApprovalKey(a))
    BY <2>2, OpenIsLive
  <2>4. QED
    BY <1>4, <2>1, <2>2, <2>3 DEF PendingInv, Live
<1>6. QED
  BY <1>2, <1>3, <1>4, <1>5 DEF PendingInv

LEMMA NextPends ==
    ASSUME AgentAssumption, StandInv, PendingInv, Next
    PROVE  PendingInv'
<1>1. script' = script
  BY StepKinds
<1>2. ASSUME NEW c \in Chats, Talks(c) \/ Posts(c) \/ \E reply : Concludes(c, reply)
      PROVE  PendingInv'
  <2>1. approvals' = approvals /\ keys' = keys
    BY <1>2 DEF Talks, Posts, Concludes
  <2>2. QED
    BY <2>1, RequestsKept
<1>3. ASSUME NEW i \in CallIds, Refuse(i[1], i) \/ KnownKey(i[1], i)
      PROVE  PendingInv'
  <2>1. approvals' = approvals /\ keys' = keys
    BY <1>3 DEF Refuse, KnownKey
  <2>2. QED
    BY <2>1, RequestsKept
<1>4. ASSUME NEW i \in CallIds, StartTool(i[1], i) \/ RefuseApproval(i[1], i)
      PROVE  PendingInv'
  <2> DEFINE k == IdempotencyKey(i[1])
  <2>1. NoReply \in Reply /\ [code |-> "denied", by |-> i] \in Reply
    BY ReplyType DEF Codes
  <2>2. \A j \in DOMAIN keys : Live(j) => j \in DOMAIN keys' /\ keys'[j] = keys[j]
    <3>1. CASE Reserving(k, "RUNNING", NoReply)
      BY <2>1, <3>1, ReservingMoves
    <3>2. CASE Reserving(k, "PERMANENT_FAILED", [code |-> "denied", by |-> i])
      BY <2>1, <3>2, ReservingMoves
    <3>3. QED
      BY <1>4, <3>1, <3>2 DEF StartTool, RefuseApproval
  <2>3. \A a \in ApprovalIds :
           approvals'[a] = approvals[a] \/ approvals'[a].status # "PENDING"
    <3>1. approvals \in [ApprovalIds -> ApprovalRecord]
      BY DEF StandInv, TypeOK
    <3>2. \/ approvals' = approvals
          \/ approvals' = [approvals EXCEPT ![Msg(i[1]).approval].status = "EXPIRED"]
      BY <1>4 DEF StartTool, RefuseApproval
    <3>3. QED
      BY <3>1, <3>2 DEF ApprovalRecord
  <2>4. QED
    BY <2>2, <2>3, RequestsKept
<1>5. ASSUME NEW i \in CallIds, NEW code \in {"allowed", "denied", "timeout"},
             CreateTicket(i[1], i, code) \/ RestartService(i[1], i, code)
      PROVE  PendingInv'
  <2>1. /\ call[i].st = "running" /\ IdempotencyKey(i[1])[2] # "restart-request"
        /\ \E answer \in Codes : Finish(i[1], i, answer)
    BY <1>5, KeyKinds DEF CreateTicket, RestartService, Running, Codes
  <2>2. \A j \in DOMAIN keys : j # IdempotencyKey(i[1]) =>
           j \in DOMAIN keys' /\ keys'[j] = keys[j]
    <3>1. PICK answer \in Codes : Finish(i[1], i, answer)
      BY <2>1
    <3>2. /\ DOMAIN keys' = DOMAIN keys
          /\ \A j \in DOMAIN keys : j # IdempotencyKey(i[1]) => keys'[j] = keys[j]
      BY <1>1, <2>1, <3>1, FinishMoves
    <3>3. QED
      BY <3>2
  <2>3. \A a \in ApprovalIds :
           approvals'[a] = approvals[a] \/ approvals'[a].status # "PENDING"
    <3>1. approvals \in [ApprovalIds -> ApprovalRecord]
      BY DEF StandInv, TypeOK
    <3>2. \/ approvals' = approvals
          \/ \E status \in {"EXECUTED", "FAILED"} :
                approvals' = [approvals EXCEPT ![Msg(i[1]).approval].status = status]
      BY <1>5 DEF CreateTicket, RestartService
    <3>3. QED
      BY <3>1, <3>2 DEF ApprovalRecord
  <2>4. QED
    BY <2>1, <2>2, <2>3, RequestsKept
<1>6. ASSUME NEW a \in ApprovalIds, NEW status \in {"APPROVED", "REJECTED"}, Decide(a, status)
      PROVE  PendingInv'
  <2>1. /\ approvals' = [approvals EXCEPT ![a].status = status]
        /\ approvals \in [ApprovalIds -> ApprovalRecord] /\ keys' = keys
    BY <1>6 DEF Decide, StandInv, TypeOK
  <2>2. \A b \in ApprovalIds :
           approvals'[b] = approvals[b] \/ approvals'[b].status # "PENDING"
    BY <2>1 DEF ApprovalRecord
  <2>3. QED
    BY <2>1, <2>2, RequestsKept
<1>7. CASE Tick
  <2> SUFFICES ASSUME NEW a \in ApprovalIds, Open(a)'
               PROVE  /\ Open(a) /\ ApprovalKey(a)' = ApprovalKey(a)
                      /\ ApprovalKey(a) \in DOMAIN keys'
                      /\ keys'[ApprovalKey(a)].age = approvals'[a].age
    BY PendingStays
  <2>1. /\ approvals'[a].status = approvals[a].status
        /\ approvals[a].status = "PENDING" => approvals'[a].age = Older(approvals[a].age)
        /\ ApprovalKey(a)' = ApprovalKey(a)
    BY <1>1, <1>7, TickMoves DEF ApprovalKey
  <2>2. Open(a)
    <3>1. approvals[a].status = "PENDING" /\ approvals'[a].age # Ttl
      BY <2>1 DEF Open, Overdue
    <3>2. approvals[a].age # Ttl
      BY <2>1, <3>1 DEF Older
    <3>3. QED
      BY <3>1, <3>2 DEF Open, Overdue
  <2>3. ApprovalKey(a) \in DOMAIN keys /\ keys[ApprovalKey(a)].age = approvals[a].age
    BY <2>2 DEF PendingInv
  <2>4. /\ DOMAIN keys' = DOMAIN keys
        /\ \A k \in DOMAIN keys : keys'[k].age = Older(keys[k].age)
    BY <1>1, <1>7, TickMoves
  <2>5. QED
    BY <2>1, <2>2, <2>3, <2>4 DEF Open
<1>8. QED
  BY <1>2, <1>3, <1>4, <1>5, <1>6, <1>7, AskPends, <1>1, StepKinds DEF GatewayStep

AgentInv == StandInv /\ PendingInv

\* While a restart waits for a human, the principal that asked for it has no second
\* approval open for the same service, however often it asks and whatever answers are
\* lost: the reserved key lives exactly as long as the approval.
THEOREM OnePendingApproval == Spec => []PendingIsUnique
<1>1. AgentAssumption /\ Init => AgentInv
  <2>1. ASSUME Init, NEW a \in ApprovalIds
        PROVE  ~Open(a)
    BY <2>1 DEF Init, Open, NoApproval
  <2>2. QED
    BY <2>1, InitStands DEF AgentInv, PendingInv
<1>2. AgentInv /\ [Next]_vars => AgentInv'
  <2>1. CASE AgentInv /\ Next
    BY <2>1, AgentAssumption, NextStands, NextPends DEF AgentInv
  <2>2. CASE AgentInv /\ UNCHANGED vars
    <3>1. approvals' = approvals /\ keys' = keys
      BY <2>2 DEF vars
    <3>2. QED
      BY <2>2, <3>1, AgentAssumption, StutterStands, RequestsKept DEF AgentInv
  <2>3. QED
    BY <2>1, <2>2
<1>3. AgentInv => PendingIsUnique
  BY DEF AgentInv, PendingInv, PendingIsUnique, ApprovalKey, ApprovalIds
<1>4. QED
  BY <1>1, <1>2, <1>3, AgentAssumption, PTL DEF Spec

----------------------------------------------------------------------------
(* what is said to be done was done, once *)

LEMMA OnceStays ==
    ASSUME StandInv, Evolves, OnceInv, \A i \in CallIds : Acted(i)' => Acted(i)
    PROVE  OnceInv'
<1> SUFFICES ASSUME NEW i \in CallIds, NEW j \in CallIds, Acted(i)', Acted(j)', i # j,
                    IdempotencyKey(i[1])' = IdempotencyKey(j[1])'
             PROVE  IdempotencyKey(i[1])' \in forgotten'
  BY DEF OnceInv
<1>1. /\ Acted(i) /\ Acted(j)
      /\ call[i].st # "none" /\ call[j].st # "none"
  BY DEF Acted, StandInv, CallsStand
<1>2. /\ IdempotencyKey(i[1])' = IdempotencyKey(i[1])
      /\ IdempotencyKey(j[1])' = IdempotencyKey(j[1])
  BY <1>1, CallStays DEF StandInv
<1>3. IdempotencyKey(i[1]) \in forgotten
  BY <1>1, <1>2 DEF OnceInv
<1>4. QED
  BY <1>2, <1>3 DEF Evolves

\* A tool starts under a key that no other call has acted under, or that was forgotten.
LEMMA StartOnce ==
    ASSUME AgentAssumption, StandInv, OnceInv, Evolves, script' = script, NEW i \in CallIds,
           StartTool(i[1], i), Serves(i)
    PROVE  OnceInv'
<1> DEFINE k == IdempotencyKey(i[1])
<1>1. k \in DOMAIN keys => k \in forgotten'
  <2>1. Reserving(k, "RUNNING", NoReply)
    BY DEF StartTool
  <2>2. QED
    BY <2>1, ReservingMoves, ReplyType
<1>2. /\ call[i].st = "sent" /\ ran' = ran
      /\ \A j \in CallIds : j # i => call'[j] = call[j]
  BY DEF StartTool, Authorized, Arrived, Serves
<1>3. \A j \in CallIds : Acted(j) => call[j].st # "none" /\ IdempotencyKey(j[1]) \in DOMAIN keys
  BY DEF Acted, StandInv, CallsStand
<1>4. \A j \in CallIds : call[j].st # "none" => IdempotencyKey(j[1])' = IdempotencyKey(j[1])
  BY CallStays DEF StandInv
<1>5. \A j \in CallIds : Acted(j)' => Acted(j) \/ j = i
  BY <1>2 DEF Acted
<1> SUFFICES ASSUME NEW g \in CallIds, NEW h \in CallIds, Acted(g)', Acted(h)', g # h,
                    IdempotencyKey(g[1])' = IdempotencyKey(h[1])'
             PROVE  IdempotencyKey(g[1])' \in forgotten'
  BY DEF OnceInv
<1>6. /\ IdempotencyKey(g[1])' = IdempotencyKey(g[1])
      /\ IdempotencyKey(h[1])' = IdempotencyKey(h[1])
  BY <1>2, <1>3, <1>4, <1>5
<1>7. CASE Acted(g) /\ Acted(h)
  BY <1>6, <1>7 DEF OnceInv, Evolves
<1>8. CASE g = i \/ h = i
  BY <1>1, <1>3, <1>5, <1>6, <1>8
<1>9. QED
  BY <1>5, <1>7, <1>8

LEMMA NextOnce ==
    ASSUME AgentAssumption, StandInv, OnceInv, Next
    PROVE  OnceInv'
<1>1. script' = script /\ Evolves
  BY StepKinds, NextStands
<1>2. ASSUME NEW c \in Chats, Talks(c)
      PROVE  OnceInv'
  <2>1. \A i \in CallIds : Acted(i)' => Acted(i)
    BY <1>2 DEF Talks, Acted
  <2>2. QED
    BY <1>1, <2>1, OnceStays
<1>3. ASSUME NEW c \in Chats, Posts(c)
      PROVE  OnceInv'
  <2>1. ran' = ran
    BY <1>3 DEF Posts
  <2>2. \A i \in CallIds :
           \/ call'[i] = [st |-> "sent", reply |-> NoReply]
           \/ call'[i].st = call[i].st
    BY <1>3, PostMoves
  <2>3. QED
    BY <1>1, <2>1, <2>2, OnceStays DEF Acted
<1>4. ASSUME NEW c \in Chats, NEW reply, Concludes(c, reply)
      PROVE  OnceInv'
  <2>1. ran' = ran
    BY <1>4 DEF Concludes
  <2>2. \A i \in CallIds : call'[i].st = call[i].st
    BY <1>4, ConcludeMoves
  <2>3. QED
    BY <1>1, <2>1, <2>2, OnceStays DEF Acted
<1>5. ASSUME NEW i \in CallIds, Serves(i), GatewayStep(i[1], i)
      PROVE  OnceInv'
  <2>1. CASE StartTool(i[1], i)
    BY <1>1, <1>5, <2>1, StartOnce
  <2>2. CASE call[i].st = "running"
    <3>1. \A j \in CallIds : Acted(j)' => Acted(j)
      BY <1>5, <2>2 DEF Serves, Acted
    <3>2. QED
      BY <1>1, <3>1, OnceStays
  <2>3. CASE ran' = ran /\ call'[i].st = "done"
    <3>1. \A j \in CallIds : Acted(j)' => Acted(j)
      BY <1>5, <2>3 DEF Serves, Acted
    <3>2. QED
      BY <1>1, <3>1, OnceStays
  <2>4. ASSUME Refuse(i[1], i) \/ KnownKey(i[1], i) \/ AskApproval(i[1], i)
               \/ RefuseApproval(i[1], i)
        PROVE  ran' = ran /\ call'[i].st = "done"
    <3>1. ran' = ran /\ \E reply : Respond(i, reply)
      BY <2>4 DEF Refuse, KnownKey, AskApproval, RefuseApproval
    <3>2. call \in [CallIds -> CallState]
      BY DEF StandInv, TypeOK
    <3>3. QED
      BY <3>1, <3>2 DEF Respond
  <2>5. QED
    BY <1>5, <2>1, <2>2, <2>3, <2>4 DEF GatewayStep, CreateTicket, RestartService, Running
<1>6. ASSUME NEW a \in ApprovalIds, NEW status, Decide(a, status)
      PROVE  OnceInv'
  <2>1. call' = call /\ ran' = ran
    BY <1>6 DEF Decide
  <2>2. QED
    BY <1>1, <2>1, OnceStays DEF Acted
<1>7. CASE Tick
  <2>1. call' = call /\ ran' = ran
    BY <1>7 DEF Tick
  <2>2. QED
    BY <1>1, <2>1, OnceStays DEF Acted
<1>8. QED
  BY <1>2, <1>3, <1>4, <1>5, <1>6, <1>7, StepKinds

----------------------------------------------------------------------------

\* An answer that says allowed names a call.
LEMMA AllowedReply ==
    /\ \A r \in Reply : r.code = "allowed" => r.by \in CallIds /\ r = Allowed(r.by)
    /\ \A i, j : Allowed(i) = Allowed(j) => i = j
    /\ \A i : Allowed(i) # NoReply /\ Allowed(i).code = "allowed" /\ Allowed(i).by = i
BY DEF Reply, Allowed, NoReply

\* Where no answer becomes one that says allowed, what is said remains true.
LEMMA RealKept ==
    ASSUME StandInv, RealInv, Evolves,
           \A k \in DOMAIN keys', by \in CallIds : keys'[k].reply = Allowed(by) =>
              k \in DOMAIN keys /\ keys[k].reply = Allowed(by),
           \A i, by \in CallIds : call'[i].reply = Allowed(by) => call[i].reply = Allowed(by),
           \A c \in Chats : Reports(c)' =>
              /\ chat[c].pc \in Found
              /\ \E by \in CallIds :
                    /\ chat'[c].reply = Allowed(by) /\ Real(by)
                    /\ IdempotencyKey(by[1]) = IdempotencyKey(c)
    PROVE  RealInv'
<1>1. \A by \in CallIds : Real(by) => Real(by)' /\ IdempotencyKey(by[1])' = IdempotencyKey(by[1])
  BY RealStays DEF StandInv
<1>2. ASSUME NEW k \in DOMAIN keys', NEW by \in CallIds, keys'[k].reply = Allowed(by)
      PROVE  Real(by)' /\ IdempotencyKey(by[1])' = k
  BY <1>1, <1>2 DEF RealInv
<1>3. ASSUME NEW i \in CallIds, NEW by \in CallIds, call'[i].reply = Allowed(by)
      PROVE  Real(by)' /\ IdempotencyKey(by[1])' = IdempotencyKey(i[1])'
  <2>1. call[i].reply = Allowed(by) /\ call[i].st # "none"
    BY <1>3, AllowedReply DEF StandInv, CallsStand
  <2>2. IdempotencyKey(i[1])' = IdempotencyKey(i[1])
    BY <2>1, CallStays DEF StandInv
  <2>3. QED
    BY <1>1, <2>1, <2>2 DEF RealInv
<1>4. ASSUME NEW c \in Chats, Reports(c)'
      PROVE  \E by \in CallIds :
                 /\ chat'[c].reply = Allowed(by) /\ Real(by)'
                 /\ IdempotencyKey(by[1])' = IdempotencyKey(c)'
  <2>1. PICK by \in CallIds :
           /\ chat'[c].reply = Allowed(by) /\ Real(by)
           /\ IdempotencyKey(by[1]) = IdempotencyKey(c)
    BY <1>4
  <2>2. chat'[c].service = chat[c].service /\ script' = script
    BY <1>4 DEF Evolves
  <2>3. IdempotencyKey(c)' = IdempotencyKey(c)
    BY <2>2, KeyStays
  <2>4. QED
    BY <1>1, <2>1, <2>3
<1>5. QED
  BY <1>2, <1>3, <1>4 DEF RealInv

\* A chat whose state did not change says what it said.
LEMMA ReportKept ==
    ASSUME RealInv, script' = script, NEW c \in Chats, chat'[c] = chat[c], Reports(c)'
    PROVE  /\ chat[c].pc \in Found
           /\ \E by \in CallIds :
                 /\ chat'[c].reply = Allowed(by) /\ Real(by)
                 /\ IdempotencyKey(by[1]) = IdempotencyKey(c)
<1>1. Reports(c)
  BY MessagesStay DEF Reports
<1>2. QED
  BY <1>1 DEF RealInv, Reports, Found

LEMMA ChatReal ==
    ASSUME AgentAssumption, StandInv, RealInv, Evolves, script' = script, NEW c \in Chats,
           Talks(c) \/ Posts(c) \/ \E reply : Concludes(c, reply)
    PROVE  RealInv'
<1>1. keys' = keys
  BY DEF Talks, Posts, Concludes
<1>2. /\ \A d \in Chats : d # c => chat'[d] = chat[d]
      /\ \A i \in CallIds : call'[i].reply \in {call[i].reply, NoReply}
  <2>1. CASE Talks(c)
    BY <2>1 DEF Talks, StandInv, TypeOK
  <2>2. CASE Posts(c)
    <3>1. \A i \in CallIds : call'[i].reply \in {call[i].reply, NoReply}
      <4>1. \A i \in CallIds :
               \/ call'[i] = [st |-> "sent", reply |-> NoReply]
               \/ call'[i].reply \in {call[i].reply, NoReply}
        BY <2>2, PostMoves
      <4>2. QED
        BY <4>1
    <3>2. QED
      BY <2>2, <3>1, PostMoves
  <2>3. ASSUME NEW reply, Concludes(c, reply)
        PROVE  /\ \A d \in Chats : d # c => chat'[d] = chat[d]
               /\ \A i \in CallIds : call'[i].reply \in {call[i].reply, NoReply}
    BY <2>3, ConcludeMoves
  <2>4. QED
    BY <2>1, <2>2, <2>3
<1>3. \A i, by \in CallIds : call'[i].reply = Allowed(by) => call[i].reply = Allowed(by)
  BY <1>2, AllowedReply
<1>4. ASSUME Reports(c)'
      PROVE  /\ chat[c].pc \in Found
             /\ \E by \in CallIds :
                   /\ chat'[c].reply = Allowed(by) /\ Real(by)
                   /\ IdempotencyKey(by[1]) = IdempotencyKey(c)
  <2>1. /\ chat'[c].pc = "done" /\ chat'[c].ok
        /\ IntentOf(c) \in Operating /\ IntentOf(c) # "REQUEST_SERVICE_RESTART"
    BY <1>4, MessagesStay DEF Reports
  <2>2. ~Talks(c)
    <3> SUFFICES ASSUME Talks(c)
                 PROVE  FALSE
      OBVIOUS
    <3>1. PICK s \in ChatState :
             chat' = [chat EXCEPT ![c] = s] /\ (s.pc = "done" /\ s.ok => IntentOf(c) \notin Operating)
      BY DEF Talks
    <3>2. chat'[c] = s
      BY <3>1 DEF StandInv, TypeOK
    <3>3. QED
      BY <2>1, <3>1, <3>2
  <2>3. ~Posts(c)
    BY <2>1, PostMoves
  <2>4. PICK reply : Concludes(c, reply)
    BY <2>2, <2>3
  <2>5. /\ reply.code = "allowed" /\ chat'[c].reply = reply /\ chat[c].pc = "wait"
    BY <2>1, <2>4, ConcludeMoves DEF Concludes
  <2>6. reply = call[<<c, chat[c].attempt>>].reply
    BY <2>4, <2>5 DEF Concludes, TransportFailure
  <2>7. PICK i \in CallIds : i = <<c, chat[c].attempt>>
    BY <2>5, WaitsForCall
  <2>8. call[i] \in CallState /\ i[1] = c
    BY <2>7 DEF StandInv, TypeOK
  <2>9. PICK by \in CallIds : reply = Allowed(by)
    BY <2>5, <2>6, <2>7, <2>8, AllowedReply DEF CallState
  <2>10. call[i].reply = Allowed(by)
    BY <2>6, <2>7, <2>9
  <2>11. Real(by) /\ IdempotencyKey(by[1]) = IdempotencyKey(i[1])
    BY <2>10 DEF RealInv
  <2>12. QED
    BY <2>5, <2>8, <2>9, <2>11 DEF Found
<1>5. \A d \in Chats : Reports(d)' =>
         /\ chat[d].pc \in Found
         /\ \E by \in CallIds :
               /\ chat'[d].reply = Allowed(by) /\ Real(by)
               /\ IdempotencyKey(by[1]) = IdempotencyKey(d)
  BY <1>2, <1>4, ReportKept
<1>6. QED
  BY <1>1, <1>3, <1>5, RealKept

\* What serving a call adds to what is said: an answer r, to the call and under its key.
LEMMA ServeReal ==
    ASSUME AgentAssumption, StandInv, RealInv, Evolves, NEW i \in CallIds, Serves(i),
           NEW r \in Reply,
           \A by \in CallIds : r = Allowed(by) =>
              Real(by)' /\ IdempotencyKey(by[1])' = IdempotencyKey(i[1]),
           call'[i].reply \in {r, NoReply},
           \A k \in DOMAIN keys' :
              \/ k \in DOMAIN keys /\ keys'[k].reply = keys[k].reply
              \/ keys'[k].reply.code # "allowed"
              \/ keys'[k].reply = r /\ k = IdempotencyKey(i[1])
    PROVE  RealInv'
<1>1. /\ UNCHANGED <<chat, script>> /\ \A j \in CallIds : j # i => call'[j] = call[j]
      /\ call[i].st # "none"
  BY DEF Serves
<1>2. \A by \in CallIds : Real(by) => Real(by)' /\ IdempotencyKey(by[1])' = IdempotencyKey(by[1])
  BY RealStays DEF StandInv
<1>3. ASSUME NEW k \in DOMAIN keys', NEW by \in CallIds, keys'[k].reply = Allowed(by)
      PROVE  Real(by)' /\ IdempotencyKey(by[1])' = k
  <2>1. keys'[k].reply.code = "allowed"
    BY <1>3, AllowedReply
  <2>2. CASE k \in DOMAIN keys /\ keys'[k].reply = keys[k].reply
    <3>1. Real(by) /\ IdempotencyKey(by[1]) = k
      BY <1>3, <2>2 DEF RealInv
    <3>2. QED
      BY <1>2, <3>1
  <2>3. CASE keys'[k].reply = r /\ k = IdempotencyKey(i[1])
    BY <1>3, <2>3
  <2>4. QED
    BY <2>1, <2>2, <2>3
<1>4. ASSUME NEW j \in CallIds, NEW by \in CallIds, call'[j].reply = Allowed(by)
      PROVE  Real(by)' /\ IdempotencyKey(by[1])' = IdempotencyKey(j[1])'
  <2>1. CASE j = i
    <3>1. IdempotencyKey(i[1])' = IdempotencyKey(i[1])
      BY <1>1, CallStays DEF StandInv
    <3>2. r = Allowed(by)
      BY <1>4, <2>1, AllowedReply
    <3>3. QED
      BY <2>1, <3>1, <3>2
  <2>2. CASE j # i
    <3>1. call[j].reply = Allowed(by) /\ call[j].st # "none"
      BY <1>1, <1>4, <2>2, AllowedReply DEF StandInv, CallsStand
    <3>2. IdempotencyKey(j[1])' = IdempotencyKey(j[1])
      BY <3>1, CallStays DEF StandInv
    <3>3. QED
      BY <1>2, <3>1, <3>2 DEF RealInv
  <2>3. QED
    BY <2>1, <2>2
<1>5. ASSUME NEW c \in Chats, Reports(c)'
      PROVE  \E by \in CallIds :
                 /\ chat'[c].reply = Allowed(by) /\ Real(by)'
                 /\ IdempotencyKey(by[1])' = IdempotencyKey(c)'
  <2>1. PICK by \in CallIds :
           /\ chat'[c].reply = Allowed(by) /\ Real(by)
           /\ IdempotencyKey(by[1]) = IdempotencyKey(c)
    BY <1>1, <1>5, ReportKept
  <2>2. IdempotencyKey(c)' = IdempotencyKey(c)
    BY <1>1, KeyStays
  <2>3. QED
    BY <1>2, <2>1, <2>2
<1>6. QED
  BY <1>3, <1>4, <1>5 DEF RealInv

LEMMA RefusalReal ==
    ASSUME AgentAssumption, StandInv, RealInv, Evolves, NEW i \in CallIds, Serves(i),
           Refuse(i[1], i) \/ KnownKey(i[1], i)
    PROVE  RealInv'
<1> DEFINE k == IdempotencyKey(i[1])
<1>1. keys' = keys
  BY DEF Refuse, KnownKey
<1>2. PICK r \in Reply :
         /\ call'[i].reply \in {r, NoReply}
         /\ r.code = "allowed" => k \in DOMAIN keys /\ r = keys[k].reply
  <2>1. CASE Refuse(i[1], i)
    <3>1. [code |-> "denied", by |-> i] \in Reply
      BY ReplyType DEF Codes
    <3>2. call'[i].reply \in {[code |-> "denied", by |-> i], NoReply}
      BY <2>1, <3>1, RespondMoves DEF Refuse
    <3>3. QED
      BY <3>1, <3>2
  <2>2. CASE KnownKey(i[1], i)
    <3>1. k \in DOMAIN keys /\ keys[k].reply \in Reply
      BY <2>2 DEF KnownKey, Live, StandInv, TypeOK, KeyRecord
    <3>2. [code |-> "duplicate", by |-> i] \in Reply
      BY ReplyType DEF Codes
    <3>3. PICK r \in Reply :
             r = IF keys[k].reply # NoReply THEN keys[k].reply ELSE [code |-> "duplicate", by |-> i]
      BY <3>1, <3>2
    <3>4. Respond(i, r)
      BY <2>2, <3>3 DEF KnownKey
    <3>5. call'[i].reply \in {r, NoReply}
      BY <3>4, RespondMoves
    <3>6. QED
      BY <3>1, <3>3, <3>5
  <2>3. QED
    BY <2>1, <2>2
<1>3. ASSUME NEW by \in CallIds, r = Allowed(by)
      PROVE  Real(by)' /\ IdempotencyKey(by[1])' = k
  <2>1. k \in DOMAIN keys /\ keys[k].reply = Allowed(by)
    BY <1>2, <1>3, AllowedReply
  <2>2. Real(by) /\ IdempotencyKey(by[1]) = k
    BY <2>1 DEF RealInv
  <2>3. QED
    BY <2>2, RealStays DEF StandInv
<1>4. QED
  BY <1>1, <1>2, <1>3, ServeReal

LEMMA ReservationReal ==
    ASSUME AgentAssumption, StandInv, RealInv, Evolves, NEW i \in CallIds, Serves(i),
           AskApproval(i[1], i) \/ StartTool(i[1], i) \/ RefuseApproval(i[1], i)
    PROVE  RealInv'
<1> DEFINE k == IdempotencyKey(i[1])
<1>1. /\ NoReply \in Reply /\ NoReply.code # "allowed"
      /\ [code |-> "pending", by |-> i] \in Reply /\ [code |-> "denied", by |-> i] \in Reply
  BY ReplyType DEF Codes, NoReply
<1>2. \E r \in {NoReply, [code |-> "pending", by |-> i], [code |-> "denied", by |-> i]} :
         call'[i].reply \in {r, NoReply}
  <2>1. CASE AskApproval(i[1], i)
    <3>1. Respond(i, [code |-> "pending", by |-> i])
      BY <2>1 DEF AskApproval
    <3>2. QED
      BY <1>1, <3>1, RespondMoves
  <2>2. CASE RefuseApproval(i[1], i)
    <3>1. Respond(i, [code |-> "denied", by |-> i])
      BY <2>2 DEF RefuseApproval
    <3>2. QED
      BY <1>1, <3>1, RespondMoves
  <2>3. CASE StartTool(i[1], i)
    <3>1. call[i].st = "sent" /\ call' = [call EXCEPT ![i].st = "running"]
      BY <2>3 DEF StartTool, Authorized, Arrived
    <3>2. call[i].reply = NoReply /\ call \in [CallIds -> CallState]
      BY <3>1 DEF StandInv, CallsStand, TypeOK
    <3>3. call'[i].reply = NoReply
      BY <3>1, <3>2 DEF CallState
    <3>4. QED
      BY <3>3
  <2>4. QED
    BY <2>1, <2>2, <2>3
<1>3. PICK r \in Reply : call'[i].reply \in {r, NoReply} /\ r.code # "allowed"
  BY <1>1, <1>2
<1>4. \A j \in DOMAIN keys' :
         \/ j \in DOMAIN keys /\ keys'[j].reply = keys[j].reply
         \/ keys'[j].reply.code # "allowed"
  <2>1. \/ Reserving(k, "RESERVED", NoReply)
        \/ Reserving(k, "RUNNING", NoReply)
        \/ Reserving(k, "PERMANENT_FAILED", [code |-> "denied", by |-> i])
    BY DEF AskApproval, StartTool, RefuseApproval
  <2> HIDE DEF k
  <2>2. /\ DOMAIN keys' = DOMAIN keys \cup {k}
        /\ \A j \in DOMAIN keys : j # k => keys'[j] = keys[j]
        /\ keys'[k].reply \in {NoReply, [code |-> "denied", by |-> i]}
    <3>1. CASE Reserving(k, "RESERVED", NoReply)
      BY <1>1, <3>1, ReservingMoves
    <3>2. CASE Reserving(k, "RUNNING", NoReply)
      BY <1>1, <3>2, ReservingMoves
    <3>3. CASE Reserving(k, "PERMANENT_FAILED", [code |-> "denied", by |-> i])
      BY <1>1, <3>3, ReservingMoves
    <3>4. QED
      BY <2>1, <3>1, <3>2, <3>3
  <2>3. QED
    BY <1>1, <2>2
<1>5. \A by \in CallIds : r # Allowed(by)
  BY <1>3, AllowedReply
<1>6. QED
  BY <1>3, <1>4, <1>5, ServeReal

LEMMA ToolReal ==
    ASSUME AgentAssumption, StandInv, RealInv, Evolves, NEW i \in CallIds, Serves(i),
           NEW code \in {"allowed", "denied", "timeout"},
           CreateTicket(i[1], i, code) \/ RestartService(i[1], i, code)
    PROVE  RealInv'
<1> DEFINE k == IdempotencyKey(i[1])
           a == Msg(i[1]).approval
<1>1. script' = script /\ call[i].st = "running"
  BY DEF Evolves, CreateTicket, RestartService, Running
<1>2. PICK answer \in Codes :
         /\ Finish(i[1], i, answer)
         /\ answer = "allowed" =>
               /\ code = "allowed"
               /\ RestartService(i[1], i, code) => approvals[a].status = "APPROVED"
  BY DEF CreateTicket, RestartService, Codes
<1>3. PICK r \in Reply : r = [code |-> answer, by |-> i]
  BY ReplyType
<1>4. /\ call'[i].reply \in {r, NoReply}
      /\ DOMAIN keys' = DOMAIN keys /\ \A j \in DOMAIN keys : j # k => keys'[j] = keys[j]
      /\ keys'[k].reply = r
  BY <1>1, <1>2, <1>3, FinishMoves
<1>5. /\ IdempotencyKey(i[1])' = k
      /\ IntentOf(i[1])' = IntentOf(i[1]) /\ TicketId(i[1])' = TicketId(i[1])
      /\ Msg(i[1])' = Msg(i[1])
      /\ HoldsApproval(i[1]) => HoldsApproval(i[1])'
  BY <1>1, CallStays, MessagesStay DEF StandInv
<1>6. ASSUME answer = "allowed"
      PROVE  Real(i)'
  <2>1. code = "allowed"
    BY <1>2, <1>6
  <2>2. CASE CreateTicket(i[1], i, code)
    <3>1. /\ i \in ran' /\ IntentOf(i[1]) = "CREATE_TICKET" /\ TicketId(i[1]) \in tickets'
      BY <2>1, <2>2 DEF CreateTicket
    <3>2. QED
      BY <1>5, <3>1 DEF Real
  <2>3. CASE RestartService(i[1], i, code)
    <3>1. /\ i \in ran' /\ IntentOf(i[1]) = "EXECUTE_APPROVED_RESTART"
          /\ approvals' = [approvals EXCEPT ![a].status = "EXECUTED"]
      BY <1>2, <1>6, <2>1, <2>3 DEF RestartService
    <3>2. HoldsApproval(i[1]) /\ a \in ApprovalIds
      BY <1>1, <3>1 DEF StandInv, CallsStand, HoldsApproval
    <3>3. approvals'[a].status = "EXECUTED"
      BY <3>1, <3>2 DEF StandInv, TypeOK, ApprovalRecord
    <3>4. QED
      BY <1>5, <3>1, <3>2, <3>3 DEF Real
  <2>4. QED
    BY <2>2, <2>3
<1>7. \A by \in CallIds : r = Allowed(by) => Real(by)' /\ IdempotencyKey(by[1])' = k
  <2> SUFFICES ASSUME NEW by \in CallIds, r = Allowed(by)
               PROVE  Real(by)' /\ IdempotencyKey(by[1])' = k
    OBVIOUS
  <2>1. by = i /\ answer = "allowed"
    BY <1>3 DEF Allowed
  <2>2. QED
    BY <1>5, <1>6, <2>1
<1>8. \A j \in DOMAIN keys' :
         \/ j \in DOMAIN keys /\ keys'[j].reply = keys[j].reply
         \/ keys'[j].reply = r /\ j = k
  BY <1>4
<1>9. QED
  BY <1>4, <1>7, <1>8, ServeReal

LEMMA NextReal ==
    ASSUME AgentAssumption, StandInv, RealInv, Next
    PROVE  RealInv'
<1>1. script' = script /\ Evolves
  BY StepKinds, NextStands
<1>2. CASE \E c \in Chats : Talks(c) \/ Posts(c) \/ \E reply : Concludes(c, reply)
  BY <1>1, <1>2, ChatReal
<1>3. CASE \E i \in CallIds : Serves(i) /\ GatewayStep(i[1], i)
  BY <1>1, <1>3, RefusalReal, ReservationReal, ToolReal DEF GatewayStep
<1>4. ASSUME NEW a \in ApprovalIds, NEW status \in {"APPROVED", "REJECTED"}, Decide(a, status)
      PROVE  RealInv'
  <2>1. UNCHANGED <<chat, call, keys>>
    BY <1>4 DEF Decide
  <2>2. QED
    BY <1>1, <2>1, RealKept, ReportKept
<1>5. CASE Tick
  <2>1. /\ UNCHANGED <<chat, call>> /\ DOMAIN keys' = DOMAIN keys
        /\ \A k \in DOMAIN keys : keys'[k].reply = keys[k].reply
    BY <1>1, <1>5, TickMoves
  <2>2. QED
    BY <1>1, <2>1, RealKept, ReportKept
<1>6. QED
  BY <1>2, <1>3, <1>4, <1>5, StepKinds

DoneInv == StandInv /\ OnceInv /\ RealInv

LEMMA DoneBacked ==
    ASSUME AgentAssumption, DoneInv
    PROVE  SuccessAnswerBacked
<1> SUFFICES ASSUME NEW c \in Chats, Reports(c)
             PROVE  LET by == chat[c].reply.by
                        used == approvals[Msg(by[1]).approval]
                    IN  /\ by \in ran
                        /\ Msg(by[1]).device = Msg(c).device
                        /\ \/ IntentOf(c) = "CREATE_TICKET" /\ TicketId(by[1]) \in tickets
                           \/ /\ IntentOf(c) = "EXECUTE_APPROVED_RESTART"
                              /\ chat[by[1]].service = chat[c].service
                              /\ used.status = "EXECUTED" /\ used.service = chat[c].service
                        /\ \/ Cardinality({i \in ran : i[1] = c}) <= 1
                           \/ IdempotencyKey(c) \in forgotten
  BY DEF SuccessAnswerBacked, Reports
<1>1. PICK by \in CallIds :
         /\ chat[c].reply = Allowed(by) /\ Real(by)
         /\ IdempotencyKey(by[1]) = IdempotencyKey(c)
  BY DEF DoneInv, RealInv
<1>2. chat[c].reply.by = by
  BY <1>1, AllowedReply
<1>3. IntentOf(c) \in {"CREATE_TICKET", "EXECUTE_APPROVED_RESTART"}
  BY DEF Reports, Operating
<1>4. IntentOf(by[1]) = IntentOf(c)
  <2>1. IntentOf(by[1]) \in {"CREATE_TICKET", "EXECUTE_APPROVED_RESTART"}
    BY <1>1 DEF Real
  <2>2. /\ IntentOf(c) = "CREATE_TICKET" => IdempotencyKey(c)[2] = "ticket-create"
        /\ IntentOf(c) = "EXECUTE_APPROVED_RESTART" => IdempotencyKey(c)[2] = "restart-execute"
        /\ IntentOf(by[1]) = "CREATE_TICKET" => IdempotencyKey(by[1])[2] = "ticket-create"
        /\ IntentOf(by[1]) = "EXECUTE_APPROVED_RESTART" =>
              IdempotencyKey(by[1])[2] = "restart-execute"
    BY KeyKinds
  <2>3. QED
    BY <1>1, <1>3, <2>1, <2>2
<1>5. by \in ran /\ Msg(by[1]).device = Msg(c).device
      /\ \/ IntentOf(c) = "CREATE_TICKET" /\ TicketId(by[1]) \in tickets
         \/ /\ IntentOf(c) = "EXECUTE_APPROVED_RESTART"
            /\ chat[by[1]].service = chat[c].service
            /\ approvals[Msg(by[1]).approval].status = "EXECUTED"
            /\ approvals[Msg(by[1]).approval].service = chat[c].service
  <2>1. CASE IntentOf(c) = "CREATE_TICKET"
    <3>1. IdempotencyKey(c) = TicketKey(c) /\ IdempotencyKey(by[1]) = TicketKey(by[1])
      BY <1>4, <2>1 DEF IdempotencyKey
    <3>2. Msg(by[1]).device = Msg(c).device
      BY <1>1, <3>1 DEF TicketKey
    <3>3. QED
      BY <1>1, <1>4, <2>1, <3>2 DEF Real
  <2>2. CASE IntentOf(c) = "EXECUTE_APPROVED_RESTART"
    <3>1. /\ IdempotencyKey(c) = RestartKey(c, "restart-execute")
          /\ IdempotencyKey(by[1]) = RestartKey(by[1], "restart-execute")
      BY <1>4, <2>2 DEF IdempotencyKey
    <3>2. Msg(by[1]).device = Msg(c).device /\ chat[by[1]].service = chat[c].service
      BY <1>1, <3>1 DEF RestartKey
    <3>3. QED
      BY <1>1, <1>4, <2>2, <3>2 DEF Real, HoldsApproval
  <2>3. QED
    BY <1>3, <2>1, <2>2
<1>6. ASSUME IdempotencyKey(c) \notin forgotten
      PROVE  Cardinality({i \in ran : i[1] = c}) <= 1
  <2> DEFINE mine == {i \in ran : i[1] = c}
  <2>1. \A i, j \in mine : i = j
    BY <1>6 DEF DoneInv, OnceInv, Acted, StandInv, TypeOK
  <2> HIDE DEF mine
  <2>2. Cardinality(mine) \in {0, 1}
    <3>1. CASE mine = {}
      BY <3>1, FS_EmptySet
    <3>2. CASE mine # {}
      <4>1. PICK i : i \in mine
        BY <3>2
      <4>2. mine = {i}
        BY <2>1, <4>1
      <4>3. Cardinality({i}) = 1
        BY FS_Singleton
      <4>4. QED
        BY <4>2, <4>3
    <3>3. QED
      BY <3>1, <3>2
  <2>3. Cardinality(mine) <= 1
    BY <2>2
  <2>4. QED
    BY <2>3 DEF mine
<1>7. QED
  BY <1>2, <1>5, <1>6

\* A chat reports success only of what a call of the same key did: a restart of that
\* service under an approval that is used up, or a ticket for that device; and what was
\* repeated took effect once, unless the key was forgotten.
THEOREM SuccessIsBacked == Spec => []SuccessAnswerBacked
<1>1. AgentAssumption /\ Init => DoneInv
  <2>1. ASSUME Init
        PROVE  OnceInv /\ RealInv
    <3>1. /\ \A c \in Chats : chat[c].pc = "idle"
          /\ \A i \in CallIds : call[i].st = "none" /\ call[i].reply = NoReply
          /\ ran = {} /\ DOMAIN keys = {}
      BY <2>1 DEF Init, IdleChat
    <3>2. QED
      BY <3>1, AllowedReply DEF OnceInv, RealInv, Acted, Reports
  <2>2. QED
    BY <2>1, InitStands DEF DoneInv
<1>2. DoneInv /\ [Next]_vars => DoneInv'
  <2>1. CASE DoneInv /\ Next
    BY <2>1, AgentAssumption, NextStands, NextOnce, NextReal DEF DoneInv
  <2>2. CASE DoneInv /\ UNCHANGED vars
    <3>1. /\ script' = script /\ chat' = chat /\ call' = call /\ keys' = keys
          /\ approvals' = approvals /\ ran' = ran /\ tickets' = tickets
          /\ forgotten' = forgotten
      BY <2>2 DEF vars
    <3>2. Evolves
      BY <3>1 DEF Evolves
    <3>3. OnceInv'
      BY <2>2, <3>1, <3>2, OnceStays DEF DoneInv, Acted
    <3>4. RealInv'
      BY <2>2, <3>1, <3>2, RealKept, ReportKept DEF DoneInv
    <3>5. QED
      BY <2>2, <3>3, <3>4, StutterStands DEF DoneInv
  <2>3. QED
    BY <2>1, <2>2
<1>3. AgentAssumption /\ DoneInv => SuccessAnswerBacked
  BY DoneBacked
<1>4. QED
  BY <1>1, <1>2, <1>3, AgentAssumption, PTL DEF Spec
=============================================================================
