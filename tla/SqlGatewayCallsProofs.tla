------------------------ MODULE SqlGatewayCallsProofs ------------------------
(***************************************************************************)
(* What SqlGatewayCalls guarantees for any number of handlers, calls,      *)
(* keys and crashes, any limit and window, any retention time and any room *)
(* for keys: by how much the rate limit can be exceeded, that a key runs   *)
(* once while its row is there, and what a row that stays stands for.      *)
(***************************************************************************)
EXTENDS SqlGatewayCalls, FiniteSetTheorems, TLAPS

----------------------------------------------------------------------------
(* handlers and their calls *)

Pcs == {"idle", "gateway", "count", "admit", "reserve", "insert", "reserved", "decide", "run",
        "complete", "write"}
Tokens == {request.token : request \in Requests}

\* What a handler holds.
Local ==
    [ pc : Pcs, call : Nat, key : Keys \cup {Nothing}, token : Tokens \cup {Nothing},
      role : Roles \cup {Nothing}, now : Nat, dropped : SUBSET Nat, expired : SUBSET Keys,
      victims : SUBSET Keys, status : Final \cup {"none"}, found : BOOLEAN ]

Row == [ status : {"RESERVED", "RUNNING"} \cup Final, created : Nat, response : Nat ]

\* The variables have their types, and only calls that were made are spoken of.
ProcTypeOK == proc \in [Procs -> Local]

KeysTypeOK == /\ DOMAIN keys \subseteq Keys
              /\ \A k \in DOMAIN keys : keys[k] \in Row

CallsTypeOK ==
    /\ clock \in Nat /\ made \in Nat
    /\ ProcTypeOK
    /\ KeysTypeOK
    /\ DOMAIN ran \subseteq 1 .. made
    /\ DOMAIN answered \subseteq 1 .. made
    /\ DOMAIN admittedAt \subseteq 1 .. made
    /\ \A c \in DOMAIN admittedAt : admittedAt[c] \in Nat
    /\ DOMAIN admitted \subseteq DOMAIN admittedAt
    /\ \A c \in DOMAIN admitted : admitted[c] = admittedAt[c]

\* A busy handler makes a call that has no answer yet, and, before it is admitted and
\* before its tool runs, none of what they leave; no other handler makes the same call.
Busy(p) == proc[p].pc # "idle"

Own(p) ==
    LET c == proc[p].call IN
    /\ c \in 1 .. made /\ proc[p].key \in Keys
    /\ c \notin DOMAIN answered
    /\ proc[p].pc \in {"gateway", "count", "admit"} => c \notin DOMAIN admittedAt
    /\ proc[p].pc \notin {"complete", "write"} => c \notin DOMAIN ran
    /\ proc[p].pc \in {"complete", "write"} => proc[p].status \in Final

CallsOwn ==
    /\ \A p \in Procs : proc[p].now <= clock /\ (Busy(p) => Own(p))
    /\ \A p, q \in Procs :
          Busy(p) /\ Busy(q) /\ proc[p].call = proc[q].call => p = q

BaseInv == CallsTypeOK /\ CallsOwn

\* The steps of one handler.
Acts(p) ==
    \/ \E request \in Requests, key \in Keys : Request(p, request, key)
    \/ Authorize(p) \/ Count(p) \/ Admit(p) \/ Look(p) \/ Insert(p) \/ Reserve(p)
    \/ AskApproval(p) \/ Refuse(p) \/ MarkRunning(p) \/ Run(p)
    \/ FindRow(p) \/ Complete(p) \/ Die(p)

\* A handler that ends its call holds nothing.
LEMMA IdleType == Idle \in Local /\ Idle.pc = "idle"
  BY DEF Idle, Local, Pcs

\* A handler changes only what it holds itself, and keeps its type.
LEMMA OnlyOne ==
    ASSUME BaseInv, NEW p \in Procs, Acts(p)
    PROVE  /\ proc'[p] \in Local
           /\ proc' = [proc EXCEPT ![p] = proc'[p]]
  <1> USE DEF BaseInv, CallsTypeOK, ProcTypeOK
  <1> DEFINE Goal == proc'[p] \in Local /\ proc' = [proc EXCEPT ![p] = proc'[p]]
  <1>0. proc[p] \in Local
    OBVIOUS
  <1>1. ASSUME proc' = [proc EXCEPT ![p] = Idle] PROVE Goal
    BY <1>1, IdleType
  <1>2. ASSUME NEW request \in Requests, NEW key \in Keys, Request(p, request, key)
        PROVE  Goal
    <2>1. CASE UNCHANGED proc
      BY <1>0, <2>1
    <2>2. CASE ~UNCHANGED proc
      <3>1. ResolveApiActor(request, clock).token = request.token
        BY <1>2, <2>2 DEF Request, ResolveApiActor
      <3>2. proc' = [proc EXCEPT ![p].pc = "gateway", ![p].call = made + 1, ![p].key = key,
                                 ![p].token = request.token]
        BY <1>2, <2>2, <3>1 DEF Request
      <3>3. request.token \in Tokens
        BY DEF Tokens
      <3>4. PICK n \in Nat : n = made + 1
        OBVIOUS
      <3>5. proc' = [proc EXCEPT ![p].pc = "gateway", ![p].call = n, ![p].key = key,
                                 ![p].token = request.token]
        BY <3>2, <3>4
      <3> QED BY <1>0, <3>3, <3>5 DEF Local, Pcs
    <2> QED BY <2>1, <2>2
  <1>3. ASSUME Authorize(p) PROVE Goal
    <2>1. CASE Authenticates(proc[p].token, clock) /\ proc[p].token.role \in Permitted
      <3>1. proc[p].token.role \in Roles
        BY <2>1 DEF Authenticates
      <3>2. \/ proc' = [proc EXCEPT ![p].pc = "count", ![p].role = proc[p].token.role,
                                    ![p].now = clock]
            \/ proc' = [proc EXCEPT ![p] = Idle]
        BY <1>3 DEF Authorize, Answer, AnswerOf
      <3> QED BY <1>0, <1>1, <3>1, <3>2 DEF Local, Pcs
    <2>2. CASE ~(Authenticates(proc[p].token, clock) /\ proc[p].token.role \in Permitted)
      BY <1>1, <1>3, <2>2 DEF Authorize, Answer, AnswerOf
    <2> QED BY <2>1, <2>2
  <1>4. ASSUME Count(p) PROVE Goal
    <2>1. Outdated(proc[p].now) \in SUBSET Nat
      BY DEF Outdated
    <2>2. \/ proc' = [proc EXCEPT ![p].pc = "admit", ![p].dropped = Outdated(proc[p].now)]
          \/ proc' = [proc EXCEPT ![p] = Idle]
      BY <1>4 DEF Count, Answer, AnswerOf
    <2> QED BY <1>0, <1>1, <2>1, <2>2 DEF Local, Pcs
  <1>5. ASSUME Admit(p) PROVE Goal
    BY <1>0, <1>5 DEF Admit, Local, Pcs
  <1>6. ASSUME Look(p) PROVE Goal
    <2>1. ExpiredKeys(proc[p].now) \in SUBSET Keys
      BY DEF ExpiredKeys, KeysTypeOK
    <2>2. \/ proc' = [proc EXCEPT ![p].pc = "insert", ![p].expired = ExpiredKeys(proc[p].now)]
          \/ proc' = [proc EXCEPT ![p] = Idle]
      BY <1>6 DEF Look, Answer, AnswerOf
    <2> QED BY <1>0, <1>1, <2>1, <2>2 DEF Local, Pcs
  <1>7. ASSUME Insert(p) PROVE Goal
    <2>1. CASE Taken(p)
      BY <1>1, <1>7, <2>1 DEF Insert, Answer, AnswerOf
    <2>2. CASE ~Taken(p)
      <3>1. PICK victims \in SUBSET ((DOMAIN keys \ (proc[p].expired \cup {proc[p].key}))
                                        \cup {proc[p].key}) :
               proc' = [proc EXCEPT ![p].pc = "reserved", ![p].victims = victims]
        BY <1>7, <2>2 DEF Insert
      <3>2. proc[p].key \in Keys
        BY <1>7 DEF Insert, CallsOwn, Busy, Own
      <3>3. victims \in SUBSET Keys
        BY <3>1, <3>2 DEF KeysTypeOK
      <3> QED BY <1>0, <3>1, <3>3 DEF Local, Pcs
    <2> QED BY <2>1, <2>2
  <1>8. ASSUME Reserve(p) \/ MarkRunning(p) PROVE Goal
    BY <1>0, <1>1, <1>8 DEF Reserve, MarkRunning, Goto, Answer, AnswerOf, Local, Pcs
  <1>9. ASSUME AskApproval(p) \/ Complete(p) \/ Die(p) PROVE Goal
    BY <1>1, <1>9 DEF AskApproval, Complete, Die, Answer, AnswerOf
  <1>10. ASSUME Refuse(p) \/ Run(p) PROVE Goal
    BY <1>0, <1>10 DEF Refuse, Run, Local, Pcs, Final
  <1>11. ASSUME FindRow(p) PROVE Goal
    <2>1. CASE proc[p].key \in DOMAIN keys
      <3>1. proc' = [proc EXCEPT ![p].pc = "write", ![p].found = TRUE]
        BY <1>11, <2>1 DEF FindRow
      <3> QED BY <1>0, <3>1 DEF Local, Pcs
    <2>2. CASE proc[p].key \notin DOMAIN keys
      <3>1. (proc[p].key \in DOMAIN keys) = FALSE
        BY <2>2
      <3>2. proc' = [proc EXCEPT ![p].pc = "write", ![p].found = FALSE]
        BY <1>11, <3>1, Zenon DEF FindRow
      <3> QED BY <1>0, <3>2 DEF Local, Pcs
    <2> QED BY <2>1, <2>2
  <1> QED BY <1>2, <1>3, <1>4, <1>5, <1>6, <1>7, <1>8, <1>9, <1>10, <1>11 DEF Acts

\* What a step of handler p does to the call x that it makes, or begins to make.
Changes(p, x) ==
    /\ x = made + 1 \/ (Busy(p) /\ x = proc[p].call)
    /\ x \in 1 .. made'
    /\ clock' = clock /\ made' \in Nat /\ made <= made'
    /\ DOMAIN answered' \subseteq DOMAIN answered \cup {x}
    /\ DOMAIN ran' \subseteq DOMAIN ran \cup {x}
    /\ DOMAIN admittedAt' \subseteq DOMAIN admittedAt \cup {x}
    /\ proc'[p].now \in {0, proc[p].now, clock}
    /\ Busy(p)' => Own(p)' /\ proc'[p].call = x

\* A step of a handler changes the tables only under its own call.
LEMMA WhatChanges ==
    ASSUME BaseInv, NEW p \in Procs, Acts(p)
    PROVE  \E x : Changes(p, x)
  <1> USE DEF BaseInv, CallsTypeOK, ProcTypeOK
  <1>0. proc[p] \in Local
    OBVIOUS
  <1> DEFINE c == proc[p].call
  <1>1. ASSUME Busy(p) PROVE c \in 1 .. made /\ Own(p)
    BY <1>1 DEF CallsOwn, Own
  <1>2. ASSUME NEW request \in Requests, NEW key \in Keys, Request(p, request, key)
        PROVE  Changes(p, made + 1)
    <2>1. /\ made' = made + 1 /\ clock' = clock /\ ran' = ran /\ admittedAt' = admittedAt
          /\ proc[p].pc = "idle"
      BY <1>2 DEF Request
    <2>2. CASE ResolveApiActor(request, clock) = Nothing
      <3>1. DOMAIN answered' = DOMAIN answered \cup {made + 1} /\ proc' = proc
        BY <1>2, <2>2 DEF Request, With
      <3> QED BY <2>1, <3>1 DEF Changes, Busy
    <2>3. CASE ResolveApiActor(request, clock) # Nothing
      <3>1. /\ answered' = answered
            /\ proc' = [proc EXCEPT ![p].pc = "gateway", ![p].call = made + 1, ![p].key = key,
                                    ![p].token = ResolveApiActor(request, clock).token]
        BY <1>2, <2>3 DEF Request
      <3>2. /\ proc'[p].pc = "gateway" /\ proc'[p].call = made + 1 /\ proc'[p].key = key
            /\ proc'[p].now = proc[p].now
        BY <1>0, <3>1 DEF Local
      <3> QED BY <2>1, <3>1, <3>2 DEF Changes, Busy, Own
    <2> QED BY <2>2, <2>3
  <1>3. ASSUME Busy(p), made' = made, clock' = clock, proc' = [proc EXCEPT ![p] = Idle],
               DOMAIN answered' \subseteq DOMAIN answered \cup {c},
               UNCHANGED <<ran, admittedAt>>
        PROVE  Changes(p, c)
    BY <1>1, <1>3 DEF Changes, Busy, Idle
  <1>4. ASSUME NEW what, NEW call, Busy(p), AnswerOf(p, what, call),
               UNCHANGED <<made, clock, ran, admittedAt>>
        PROVE  Changes(p, c)
    <2>1. DOMAIN answered' = DOMAIN answered \cup {c}
      BY <1>4 DEF AnswerOf, With
    <2> QED BY <1>3, <1>4, <2>1 DEF AnswerOf
  <1>5. ASSUME Busy(p), Busy(p)', UNCHANGED <<made, clock, ran, admittedAt, answered>>,
               proc'[p].call = c, proc'[p].key = proc[p].key, proc'[p].now \in {proc[p].now, clock},
               proc'[p].pc \in {"gateway", "count", "admit"}
                  => proc[p].pc \in {"gateway", "count", "admit"},
               proc[p].pc \in {"complete", "write"} => proc'[p].pc \in {"complete", "write"},
               proc'[p].pc \in {"complete", "write"} => proc'[p].status \in Final
        PROVE  Changes(p, c)
    BY <1>1, <1>5 DEF Changes, Own
  <1>6. ASSUME Authorize(p) PROVE Changes(p, c)
    BY <1>0, <1>4, <1>5, <1>6 DEF Authorize, Answer, Busy, Local
  <1>7. ASSUME Count(p) PROVE Changes(p, c)
    BY <1>0, <1>4, <1>5, <1>7 DEF Count, Answer, Busy, Local
  <1>8. ASSUME Admit(p) PROVE Changes(p, c)
    <2>1. Busy(p) /\ Own(p)
      BY <1>1, <1>8 DEF Admit, Busy
    <2>2. /\ DOMAIN admittedAt' = DOMAIN admittedAt \cup {c}
          /\ UNCHANGED <<clock, made, ran, answered>>
      BY <1>8 DEF Admit, With
    <2>3. /\ proc'[p].pc = "reserve" /\ proc'[p].call = c /\ proc'[p].key = proc[p].key
          /\ proc'[p].now = proc[p].now /\ proc[p].pc = "admit"
      BY <1>0, <1>8 DEF Admit, Local
    <2> QED BY <1>1, <2>1, <2>2, <2>3 DEF Changes, Busy, Own
  <1>9. ASSUME Look(p) PROVE Changes(p, c)
    BY <1>0, <1>4, <1>5, <1>9 DEF Look, Answer, Busy, Local
  <1>10. ASSUME Insert(p) PROVE Changes(p, c)
    BY <1>0, <1>4, <1>5, <1>10 DEF Insert, Answer, Busy, Local
  <1>15. ASSUME MarkRunning(p) PROVE Changes(p, c)
    <2>1. CASE Answer(p, "http_500")
      BY <1>4, <1>15, <2>1 DEF MarkRunning, Answer, Busy
    <2>2. CASE Goto(p, "run") /\ UNCHANGED answered
      <3>1. /\ proc'[p].pc = "run" /\ proc'[p].call = c /\ proc'[p].key = proc[p].key
            /\ proc'[p].now = proc[p].now /\ proc[p].pc = "decide"
            /\ UNCHANGED <<made, clock, ran, admittedAt, answered>>
        BY <1>0, <1>15, <2>2 DEF MarkRunning, Goto, Local
      <3> QED BY <1>5, <3>1 DEF Busy
    <2> QED BY <1>15, <2>1, <2>2 DEF MarkRunning
  <1>11. ASSUME Reserve(p) \/ Refuse(p) \/ FindRow(p) PROVE Changes(p, c)
    <2>1. Busy(p) /\ Own(p)
      BY <1>1, <1>11 DEF Reserve, Refuse, FindRow, Busy
    <2>2. /\ UNCHANGED <<made, clock, ran, admittedAt, answered>>
          /\ proc'[p].call = c /\ proc'[p].key = proc[p].key /\ proc'[p].now = proc[p].now
      BY <1>0, <1>11 DEF Reserve, Refuse, FindRow, Local, callHistory
    <2>3. \/ proc'[p].pc = "decide" /\ proc[p].pc \notin {"complete", "write"}
          \/ proc'[p].pc = "complete" /\ proc'[p].status = "PERMANENT_FAILED"
          \/ proc'[p].pc = "write" /\ proc[p].pc = "complete" /\ proc'[p].status = proc[p].status
      BY <1>0, <1>11 DEF Reserve, Refuse, FindRow, Local
    <2> QED BY <1>5, <2>1, <2>2, <2>3 DEF Busy, Own, Final
  <1>12. ASSUME AskApproval(p) \/ Complete(p) PROVE Changes(p, c)
    BY <1>4, <1>12 DEF AskApproval, Complete, Answer, Busy
  <1>13. ASSUME Run(p) PROVE Changes(p, c)
    <2>1. Busy(p) /\ Own(p)
      BY <1>1, <1>13 DEF Run, Busy
    <2>2. /\ DOMAIN ran' = DOMAIN ran \cup {c}
          /\ UNCHANGED <<clock, made, admittedAt, answered>>
      BY <1>13 DEF Run, With
    <2>3. /\ proc'[p].pc = "complete" /\ proc'[p].call = c /\ proc'[p].key = proc[p].key
          /\ proc'[p].now = proc[p].now /\ proc[p].pc = "run" /\ proc'[p].status \in Final
      BY <1>0, <1>13 DEF Run, Local
    <2> QED BY <1>1, <2>1, <2>2, <2>3 DEF Changes, Busy, Own
  <1>14. ASSUME Die(p) PROVE Changes(p, c)
    BY <1>3, <1>14 DEF Die, Busy
  <1> QED BY <1>2, <1>6, <1>7, <1>8, <1>9, <1>10, <1>11, <1>12, <1>13, <1>14, <1>15
     DEF Acts

\* Every step is one of a handler, or the clock's.
LEMMA Steps ==
    ASSUME [Next]_vars
    PROVE  (\E p \in Procs : Acts(p)) \/ Tick \/ UNCHANGED vars
  BY DEF Next, Acts

\* What is written is a row.
LEMMA KeysStep ==
    ASSUME BaseInv, NEW p \in Procs, Acts(p)
    PROVE  KeysTypeOK'
  <1>0. proc[p] \in Local /\ KeysTypeOK /\ clock \in Nat
    BY DEF BaseInv, CallsTypeOK, ProcTypeOK
  <1>00. Busy(p) => Own(p)
    BY DEF BaseInv, CallsOwn
  <1> DEFINE k == proc[p].key
  <1>1. CASE UNCHANGED keys
    BY <1>0, <1>1 DEF KeysTypeOK
  <1>2. CASE Reserve(p)
    <2> DEFINE row == [status |-> "RESERVED", created |-> proc[p].now, response |-> 0]
    <2>1. row \in Row /\ k \in Keys
      BY <1>0, <1>00, <1>2 DEF Row, Local, Reserve, Own, Busy
    <2>2. keys' = Without(With(Without(keys, proc[p].expired), k, row), proc[p].victims)
      BY <1>2 DEF Reserve
    <2> HIDE DEF row
    <2> QED BY <1>0, <2>1, <2>2 DEF KeysTypeOK, With, Without
  <1>3. CASE MarkRunning(p)
    BY <1>0, <1>3 DEF MarkRunning, KeysTypeOK, Row
  <1>4. ASSUME Complete(p), ~UNCHANGED keys PROVE KeysTypeOK'
    <2> DEFINE row == [status |-> proc[p].status, response |-> proc[p].call,
                       created |-> IF k \in DOMAIN keys THEN keys[k].created ELSE clock]
    <2>1. keys' = With(keys, k, row) /\ k \in Keys /\ proc[p].status \in Final
      BY <1>00, <1>4 DEF Complete, Own, Busy
    <2>2. row \in Row
      BY <1>0, <2>1 DEF Row, Local, KeysTypeOK
    <2> HIDE DEF row
    <2> QED BY <1>0, <2>1, <2>2 DEF KeysTypeOK, With
  <1>5. UNCHANGED keys \/ Reserve(p) \/ MarkRunning(p) \/ Complete(p)
    BY DEF Acts, Request, Authorize, Count, Admit, Look, Insert, AskApproval, Refuse, Run,
           FindRow, Die
  <1> QED BY <1>1, <1>2, <1>3, <1>4, <1>5

\* The rows of the limiter are those of admitted calls.
LEMMA AdmittedStep ==
    ASSUME BaseInv, NEW p \in Procs, Acts(p)
    PROVE  /\ \A c \in DOMAIN admittedAt' : admittedAt'[c] \in Nat
           /\ DOMAIN admitted' \subseteq DOMAIN admittedAt'
           /\ \A c \in DOMAIN admitted' : admitted'[c] = admittedAt'[c]
  <1>0. proc[p] \in Local
    BY DEF BaseInv, CallsTypeOK, ProcTypeOK
  <1>1. CASE UNCHANGED <<admitted, admittedAt>>
    BY <1>1 DEF BaseInv, CallsTypeOK
  <1>2. CASE Admit(p)
    <2> DEFINE c == proc[p].call
    <2>1. /\ admitted' = With(Without(admitted, proc[p].dropped), c, proc[p].now)
          /\ admittedAt' = With(admittedAt, c, proc[p].now)
      BY <1>2 DEF Admit
    <2>2. proc[p].now \in Nat
      BY <1>0 DEF Local
    <2> QED BY <2>1, <2>2 DEF BaseInv, CallsTypeOK, With, Without
  <1>3. UNCHANGED <<admitted, admittedAt>> \/ Admit(p)
    BY DEF Acts, Request, Authorize, Count, Look, Insert, Reserve, MarkRunning, Complete,
           AskApproval, Refuse, Run, FindRow, Die, callHistory
  <1> QED BY <1>1, <1>2, <1>3

\* Nothing was called initially.
LEMMA BaseInit == Init => BaseInv
  <1> SUFFICES ASSUME Init PROVE BaseInv
    OBVIOUS
  <1>1. proc \in [Procs -> Local] /\ \A p \in Procs : proc[p].pc = "idle" /\ proc[p].now = 0
    BY IdleType DEF Init, Idle
  <1> QED BY <1>1 DEF Init, BaseInv, CallsTypeOK, ProcTypeOK, KeysTypeOK, CallsOwn, Busy

\* No step disturbs the types or lets two handlers make one call.
LEMMA BaseStep == BaseInv /\ [Next]_vars => BaseInv'
  <1> SUFFICES ASSUME BaseInv, [Next]_vars PROVE BaseInv'
    OBVIOUS
  <1>1. ASSUME NEW p \in Procs, Acts(p) PROVE BaseInv'
    <2>1. proc'[p] \in Local /\ proc' = [proc EXCEPT ![p] = proc'[p]]
      BY <1>1, OnlyOne
    <2>2. PICK x : Changes(p, x)
      BY <1>1, WhatChanges
    <2>3. ProcTypeOK' /\ \A q \in Procs \ {p} : proc'[q] = proc[q]
      BY <2>1 DEF BaseInv, CallsTypeOK, ProcTypeOK
    <2>4. CallsTypeOK'
      BY <1>1, <2>2, <2>3, KeysStep, AdmittedStep DEF BaseInv, CallsTypeOK, Changes
    <2>5. ASSUME NEW q \in Procs \ {p}, Busy(q)'
          PROVE  Own(q)' /\ proc'[q].call # x
      <3>1. Busy(q) /\ Own(q) /\ proc'[q] = proc[q]
        BY <2>3, <2>5 DEF BaseInv, CallsOwn, Busy
      <3>2. proc[q].call # x
        BY <2>2, <3>1 DEF BaseInv, CallsOwn, CallsTypeOK, Changes, Own
      <3> QED BY <2>2, <3>1, <3>2 DEF Changes, Own, BaseInv, CallsTypeOK
    <2>6. \A q \in Procs : proc'[q].now <= clock'
      BY <2>2, <2>3 DEF Changes, BaseInv, CallsOwn, CallsTypeOK
    <2>7. \A q, r \in Procs : Busy(q)' /\ Busy(r)' /\ proc'[q].call = proc'[r].call => q = r
      BY <2>2, <2>3, <2>5 DEF Changes, BaseInv, CallsOwn, Busy
    <2>8. \A q \in Procs : Busy(q)' => Own(q)'
      BY <2>2, <2>5 DEF Changes
    <2> QED BY <2>4, <2>6, <2>7, <2>8 DEF BaseInv, CallsOwn
  <1>2. CASE Tick
    <2>1. clock' \in Nat /\ \A p \in Procs : proc[p].now <= clock'
      BY <1>2 DEF Tick, BaseInv, CallsTypeOK, ProcTypeOK, CallsOwn, Local
    <2> QED BY <1>2, <2>1 DEF Tick, callHistory, BaseInv, CallsTypeOK, ProcTypeOK, KeysTypeOK,
                              CallsOwn, Own, Busy
  <1>3. CASE UNCHANGED vars
    BY <1>3 DEF vars, BaseInv, CallsTypeOK, ProcTypeOK, KeysTypeOK, CallsOwn, Own, Busy
  <1> QED BY <1>1, <1>2, <1>3, Steps

----------------------------------------------------------------------------
(* by how much the limit can be exceeded *)

Others == Cardinality(Procs) - 1

\* A stamp that lies in the window that ends at w; the calls with such a stamp that were
\* admitted, and the handlers with such a stamp that wait to commit, or to count.
InWindowOf(stamp, w) == stamp <= w /\ w < stamp + Window
Passed(w) == {c \in DOMAIN admittedAt : InWindowOf(admittedAt[c], w)}
Admitting(w) == {p \in Procs : proc[p].pc = "admit" /\ InWindowOf(proc[p].now, w)}
Counting(w) == {p \in Procs : proc[p].pc = "count" /\ InWindowOf(proc[p].now, w)}

\* While the rows of a window are there, who counts sees them.  Once a later call has
\* deleted one, the clock has left the window, and only the calls that have their stamp
\* already can still be admitted in it.
Limit(w) ==
    LET certain == Cardinality(Passed(w)) + Cardinality(Admitting(w)) IN
    IF Passed(w) \subseteq DOMAIN admitted
    THEN certain <= Allowed + Others
    ELSE w < clock /\ certain + Cardinality(Counting(w)) <= Allowed + 2 * Others

\* What a handler is about to delete has left its window.
DroppedOld ==
    \A p \in Procs : proc[p].pc = "admit" =>
        \A c \in proc[p].dropped :
            c \in DOMAIN admittedAt /\ admittedAt[c] + Window <= proc[p].now

LimitInv == DroppedOld /\ \A w \in Nat : Limit(w)

\* Those sets are finite, and as many handlers are in them as there are at most.
LEMMA Sizes ==
    ASSUME BaseInv, NEW w
    PROVE  /\ IsFiniteSet(Passed(w)) /\ Cardinality(Passed(w)) \in Nat
           /\ IsFiniteSet(Admitting(w)) /\ Cardinality(Admitting(w)) \in Nat
           /\ IsFiniteSet(Counting(w)) /\ Cardinality(Counting(w)) \in Nat
           /\ Cardinality(Admitting(w)) <= Cardinality(Procs)
           /\ Cardinality(Counting(w)) <= Cardinality(Procs)
           /\ Others \in Nat /\ Cardinality(Procs) = Others + 1
           /\ Allowed \in Nat
  <1>1. IsFiniteSet(1 .. made)
    BY FS_Interval DEF BaseInv, CallsTypeOK
  <1>2. Passed(w) \subseteq 1 .. made
    BY DEF Passed, BaseInv, CallsTypeOK
  <1>3. IsFiniteSet(Passed(w)) /\ Cardinality(Passed(w)) \in Nat
    BY <1>1, <1>2, FS_Subset, FS_CardinalityType
  <1>4. Admitting(w) \subseteq Procs /\ Counting(w) \subseteq Procs
    BY DEF Admitting, Counting
  <1>5. /\ IsFiniteSet(Admitting(w)) /\ Cardinality(Admitting(w)) <= Cardinality(Procs)
        /\ IsFiniteSet(Counting(w)) /\ Cardinality(Counting(w)) <= Cardinality(Procs)
    BY <1>4, FS_Subset, CallsAssumption
  <1>6. Cardinality(Procs) \in Nat /\ Cardinality(Procs) # 0
    BY FS_CardinalityType, FS_EmptySet, CallsAssumption
  <1>7. Others \in Nat /\ Cardinality(Procs) = Others + 1
    BY <1>6 DEF Others
  <1> QED BY <1>3, <1>5, <1>7, FS_CardinalityType, CallsAssumption

\* A step after which no more calls are about to be admitted keeps the limit.
LEMMA QuietStep ==
    ASSUME BaseInv, BaseInv', NEW w \in Nat, Limit(w),
           UNCHANGED <<admitted, admittedAt>>, clock <= clock',
           Admitting(w)' \subseteq Admitting(w),
           w < clock => Counting(w)' \subseteq Counting(w)
    PROVE  Limit(w)'
  <1>1. Passed(w)' = Passed(w)
    BY DEF Passed
  <1>2. Cardinality(Admitting(w)') <= Cardinality(Admitting(w))
    BY Sizes, FS_Subset
  <1>3. w < clock => Cardinality(Counting(w)') <= Cardinality(Counting(w))
    BY Sizes, FS_Subset
  <1>4. Others' = Others
    BY DEF Others
  <1>5. /\ Cardinality(Passed(w)) \in Nat /\ Cardinality(Admitting(w)) \in Nat
        /\ Cardinality(Counting(w)) \in Nat /\ Others \in Nat /\ Allowed \in Nat
    BY Sizes
  <1>6. Cardinality(Admitting(w)') \in Nat /\ Cardinality(Counting(w)') \in Nat
    <2>1. IsFiniteSet(Admitting(w)') /\ (w < clock => IsFiniteSet(Counting(w)'))
      BY Sizes, FS_Subset
    <2>2. Counting(w)' \subseteq Procs
      BY DEF Counting
    <2> QED BY <2>1, <2>2, FS_CardinalityType, FS_Subset, CallsAssumption
  <1>7. clock \in Nat /\ clock' \in Nat
    BY DEF BaseInv, CallsTypeOK
  <1> QED BY <1>1, <1>2, <1>3, <1>4, <1>5, <1>6, <1>7 DEF Limit

\* One more element, and one less.
LEMMA OneMore ==
    ASSUME NEW S, NEW T, NEW x, IsFiniteSet(S), x \notin S, T = S \cup {x}
    PROVE  Cardinality(T) = Cardinality(S) + 1
  BY FS_AddElement

\* The set without one of its elements.
LEMMA OneLess ==
    ASSUME NEW S, NEW T, NEW x, IsFiniteSet(S), x \in S, T = S \ {x}
    PROVE  Cardinality(T) = Cardinality(S) - 1
  BY FS_RemoveElement

\* A handler that counted fewer calls than are allowed is about to be admitted.
LEMMA CountStep ==
    ASSUME BaseInv, BaseInv', NEW w \in Nat, Limit(w), NEW p \in Procs, Count(p),
           proc'[p].pc = "admit"
    PROVE  Limit(w)'
  <1> DEFINE now == proc[p].now
  <1>0. proc \in [Procs -> Local] /\ clock \in Nat /\ now \in Nat
    BY DEF BaseInv, CallsTypeOK, ProcTypeOK, Local
  <1>1. /\ proc' = [proc EXCEPT ![p].pc = "admit", ![p].dropped = Outdated(now)]
        /\ ~(Cardinality(InWindow(now)) >= Allowed)
        /\ proc[p].pc = "count"
        /\ UNCHANGED <<clock, admitted, admittedAt>>
    BY <1>0 DEF Count, Answer, AnswerOf, Idle
  <1>2. /\ proc'[p].pc = "admit" /\ proc'[p].now = now
        /\ \A q \in Procs \ {p} : proc'[q] = proc[q]
    BY <1>0, <1>1 DEF Local
  <1>3. CASE ~InWindowOf(now, w)
    <2>1. Admitting(w)' \subseteq Admitting(w) /\ Counting(w)' \subseteq Counting(w)
      BY <1>2, <1>3 DEF Admitting, Counting, InWindowOf
    <2> QED BY <1>0, <1>1, <2>1, QuietStep
  <1>4. CASE InWindowOf(now, w)
    <2>1. /\ Admitting(w)' = Admitting(w) \cup {p} /\ p \notin Admitting(w)
          /\ Counting(w)' = Counting(w) \ {p} /\ p \in Counting(w)
          /\ Passed(w)' = Passed(w)
      BY <1>1, <1>2, <1>4 DEF Admitting, Counting, Passed, InWindowOf
    <2>2. /\ Cardinality(Admitting(w)') = Cardinality(Admitting(w)) + 1
          /\ Cardinality(Counting(w)') = Cardinality(Counting(w)) - 1
      <3>1. IsFiniteSet(Admitting(w)) /\ IsFiniteSet(Counting(w))
        BY Sizes
      <3> QED BY <2>1, <3>1, OneMore, OneLess
    <2>3. /\ Cardinality(Passed(w)) \in Nat /\ Cardinality(Admitting(w)) \in Nat
          /\ Cardinality(Counting(w)) \in Nat /\ Others \in Nat /\ Allowed \in Nat
      BY Sizes
    <2>4. CASE Passed(w) \subseteq DOMAIN admitted
      <3>1. Passed(w) \subseteq InWindow(now)
        <4> SUFFICES ASSUME NEW c \in Passed(w) PROVE admitted[c] + Window > now
          BY <2>4 DEF InWindow
        <4>1. admitted[c] = admittedAt[c] /\ admittedAt[c] \in Nat /\ w < admittedAt[c] + Window
          BY <2>4 DEF Passed, InWindowOf, BaseInv, CallsTypeOK
        <4> QED BY <1>0, <1>4, <4>1, CallsAssumption DEF InWindowOf
      <3>2. InWindow(now) \subseteq 1 .. made
        BY DEF InWindow, BaseInv, CallsTypeOK
      <3>3. IsFiniteSet(InWindow(now))
        <4>1. IsFiniteSet(1 .. made)
          BY FS_Interval DEF BaseInv, CallsTypeOK
        <4> QED BY <3>2, <4>1, FS_Subset
      <3>4. Cardinality(Passed(w)) <= Cardinality(InWindow(now))
        BY <3>1, <3>3, FS_Subset
      <3>5. Cardinality(InWindow(now)) \in Nat /\ Cardinality(InWindow(now)) < Allowed
        BY <1>1, <2>3, <3>3, FS_CardinalityType
      <3>6. Cardinality(Admitting(w)') <= Cardinality(Procs) /\ Cardinality(Procs) = Others + 1
        <4>1. Admitting(w)' \subseteq Procs
          BY DEF Admitting
        <4> QED BY <4>1, FS_Subset, CallsAssumption, Sizes
      <3>7. Cardinality(Passed(w)) + Cardinality(Admitting(w)') <= Allowed + Others
        BY <2>2, <2>3, <3>4, <3>5, <3>6
      <3> QED BY <1>1, <2>1, <2>4, <3>7 DEF Limit, Others
    <2>5. CASE ~(Passed(w) \subseteq DOMAIN admitted)
      BY <1>1, <2>1, <2>2, <2>3, <2>5 DEF Limit, Others
    <2> QED BY <2>4, <2>5
  <1> QED BY <1>3, <1>4

\* A handler that commits moves from those about to be admitted to those that were; if
\* it deletes rows of a window, it is past that window itself.
LEMMA AdmitStep ==
    ASSUME BaseInv, BaseInv', DroppedOld, NEW w \in Nat, Limit(w), NEW p \in Procs, Admit(p)
    PROVE  Limit(w)'
  <1> DEFINE c == proc[p].call
             now == proc[p].now
  <1>0. /\ proc \in [Procs -> Local] /\ clock \in Nat /\ now \in Nat /\ now <= clock
        /\ c \notin DOMAIN admittedAt
    BY DEF BaseInv, CallsTypeOK, ProcTypeOK, Local, CallsOwn, Busy, Own, Admit
  <1>1. /\ proc[p].pc = "admit" /\ clock' = clock
        /\ proc'[p].pc = "reserve" /\ \A q \in Procs \ {p} : proc'[q] = proc[q]
        /\ admittedAt' = With(admittedAt, c, now)
        /\ DOMAIN admitted' = (DOMAIN admitted \ proc[p].dropped) \cup {c}
    BY <1>0 DEF Admit, Local, With, Without
  <1>2. /\ Admitting(w)' = Admitting(w) \ {p}
        /\ Counting(w)' = Counting(w) /\ p \notin Counting(w)
    BY <1>1 DEF Admitting, Counting, InWindowOf
  <1>3. Passed(w)' = Passed(w) \cup (IF InWindowOf(now, w) THEN {c} ELSE {})
    BY <1>0, <1>1 DEF Passed, InWindowOf, With
  <1>4. c \notin Passed(w) /\ (p \in Admitting(w) <=> InWindowOf(now, w))
    BY <1>0, <1>1 DEF Passed, Admitting
  <1>5. /\ Cardinality(Passed(w)) \in Nat /\ Cardinality(Admitting(w)) \in Nat
        /\ Cardinality(Counting(w)) \in Nat /\ Others \in Nat /\ Allowed \in Nat
    BY Sizes
  <1>6. /\ Cardinality(Passed(w)') + Cardinality(Admitting(w)')
              = Cardinality(Passed(w)) + Cardinality(Admitting(w))
        /\ Cardinality(Passed(w)') + Cardinality(Admitting(w)') \in Nat
    <2>1. CASE InWindowOf(now, w)
      <3>1. /\ Cardinality(Passed(w)') = Cardinality(Passed(w)) + 1
            /\ Cardinality(Admitting(w)') = Cardinality(Admitting(w)) - 1
        <4>1. IsFiniteSet(Passed(w)) /\ IsFiniteSet(Admitting(w))
          BY Sizes
        <4>2. Passed(w)' = Passed(w) \cup {c} /\ p \in Admitting(w)
          BY <1>3, <1>4, <2>1
        <4>3. Cardinality(Passed(w)') = Cardinality(Passed(w)) + 1
          BY <1>4, <4>1, <4>2, OneMore
        <4>4. Cardinality(Admitting(w)') = Cardinality(Admitting(w)) - 1
          BY <1>2, <4>1, <4>2, OneLess
        <4> QED BY <4>3, <4>4
      <3> QED BY <1>5, <3>1
    <2>2. CASE ~InWindowOf(now, w)
      <3>1. Passed(w)' = Passed(w) /\ Admitting(w)' = Admitting(w)
        BY <1>2, <1>3, <1>4, <2>2
      <3> QED BY <1>5, <3>1
    <2> QED BY <2>1, <2>2
  <1>7. CASE Passed(w)' \subseteq DOMAIN admitted'
    <2>1. Passed(w) \subseteq DOMAIN admitted
      BY <1>1, <1>3, <1>4, <1>7
    <2> QED BY <1>6, <1>7, <2>1 DEF Limit, Others
  <1>8. CASE ~(Passed(w) \subseteq DOMAIN admitted)
    <2>1. ~(Passed(w)' \subseteq DOMAIN admitted')
      <3>1. PICK d \in Passed(w) : d \notin DOMAIN admitted
        BY <1>8
      <3> QED BY <1>1, <1>3, <1>4, <3>1
    <2> QED BY <1>1, <1>2, <1>5, <1>6, <1>8, <2>1 DEF Limit, Others
  <1>9. CASE /\ Passed(w) \subseteq DOMAIN admitted
             /\ ~(Passed(w)' \subseteq DOMAIN admitted')
    <2>1. PICK d \in Passed(w) : d \in proc[p].dropped
      BY <1>1, <1>3, <1>9
    <2>2. /\ admittedAt[d] + Window <= now /\ w < admittedAt[d] + Window
          /\ admittedAt[d] \in Nat
      BY <1>1, <2>1 DEF DroppedOld, Passed, InWindowOf, BaseInv, CallsTypeOK
    <2>3. w < now
      BY <1>0, <2>2, CallsAssumption
    <2>4. w < clock
      BY <1>0, <2>3
    <2>5. Cardinality(Counting(w)) <= Others
      <3>1. Counting(w) \subseteq Procs \ {p}
        BY <1>2 DEF Counting
      <3>2. Cardinality(Procs \ {p}) = Cardinality(Procs) - 1 /\ IsFiniteSet(Procs \ {p})
        BY FS_RemoveElement, CallsAssumption
      <3> QED BY <3>1, <3>2, FS_Subset, Sizes
    <2>6. Cardinality(Passed(w)) + Cardinality(Admitting(w)) <= Allowed + Others
      BY <1>9 DEF Limit
    <2> QED BY <1>1, <1>2, <1>5, <1>6, <1>9, <2>4, <2>5, <2>6 DEF Limit, Others
  <1> QED BY <1>7, <1>8, <1>9

\* A row of the limiter that a handler deletes is as old when it commits as when it
\* counted.
LEMMA DroppedStep ==
    ASSUME BaseInv, BaseInv', DroppedOld, [Next]_vars
    PROVE  DroppedOld'
  <1> USE DEF DroppedOld
  <1>1. ASSUME NEW p \in Procs, Acts(p) PROVE DroppedOld'
    <2>1. proc'[p] \in Local /\ proc' = [proc EXCEPT ![p] = proc'[p]]
      BY <1>1, OnlyOne
    <2>2. \A c \in DOMAIN admittedAt :
             c \in DOMAIN admittedAt' /\ admittedAt'[c] = admittedAt[c]
      <3>1. CASE Admit(p)
        <4>1. proc[p].call \notin DOMAIN admittedAt
          BY <3>1 DEF BaseInv, CallsOwn, Busy, Own, Admit
        <4> QED BY <3>1, <4>1 DEF Admit, With
      <3>2. admittedAt' = admittedAt \/ Admit(p)
        BY <1>1 DEF Acts, Request, Authorize, Count, Look, Insert, Reserve, MarkRunning,
                    Complete, AskApproval, Refuse, Run, FindRow, Die, callHistory
      <3> QED BY <3>1, <3>2
    <2>3. ASSUME NEW q \in Procs \ {p}, proc'[q].pc = "admit", NEW c \in proc'[q].dropped
          PROVE  c \in DOMAIN admittedAt' /\ admittedAt'[c] + Window <= proc'[q].now
      <3>1. proc'[q] = proc[q]
        BY <2>1 DEF BaseInv, CallsTypeOK, ProcTypeOK
      <3> QED BY <2>2, <2>3, <3>1
    <2>4. ASSUME proc'[p].pc = "admit", NEW c \in proc'[p].dropped
          PROVE  c \in DOMAIN admittedAt' /\ admittedAt'[c] + Window <= proc'[p].now
      <3>0. proc[p] \in Local /\ proc \in [Procs -> Local]
        BY DEF BaseInv, CallsTypeOK, ProcTypeOK
      <3>1. Count(p)
        <4>1. CASE \E request \in Requests, key \in Keys : Request(p, request, key)
          BY <2>4, <3>0, <4>1 DEF Request, Local
        <4> QED BY <1>1, <2>4, <3>0, <4>1
                DEF Acts, Authorize, Admit, Look, Insert, Reserve, MarkRunning, Goto, Idle,
                    Complete, AskApproval, Refuse, Run, FindRow, Die, Answer, AnswerOf, Local
      <3>2. /\ proc' = [proc EXCEPT ![p].pc = "admit", ![p].dropped = Outdated(proc[p].now)]
            /\ UNCHANGED <<admitted, admittedAt>>
        BY <2>4, <3>0, <3>1 DEF Count, Answer, AnswerOf, Idle
      <3>3. proc'[p].dropped = Outdated(proc[p].now) /\ proc'[p].now = proc[p].now
        BY <3>0, <3>2 DEF Local
      <3>4. /\ c \in DOMAIN admitted /\ ~(admitted[c] + Window > proc[p].now)
            /\ admitted[c] = admittedAt[c] /\ c \in DOMAIN admittedAt
            /\ admittedAt[c] \in Nat /\ proc[p].now \in Nat
        BY <2>4, <3>0, <3>3 DEF Outdated, InWindow, BaseInv, CallsTypeOK, Local
      <3> QED BY <3>2, <3>3, <3>4, CallsAssumption
    <2> QED BY <2>3, <2>4
  <1>2. CASE Tick
    BY <1>2 DEF Tick, callHistory
  <1>3. CASE UNCHANGED vars
    BY <1>3 DEF vars
  <1> QED BY <1>1, <1>2, <1>3, Steps

\* Whatever happens, the limit of a window is kept.
LEMMA LimitStep ==
    ASSUME BaseInv, BaseInv', DroppedOld, [Next]_vars, NEW w \in Nat, Limit(w)
    PROVE  Limit(w)'
  <1>0. proc \in [Procs -> Local] /\ clock \in Nat
    BY DEF BaseInv, CallsTypeOK, ProcTypeOK
  <1>1. ASSUME NEW p \in Procs, Acts(p), UNCHANGED <<admitted, admittedAt>>,
               proc'[p].pc # "admit",
               proc'[p].pc = "count" => proc'[p].now = clock
        PROVE  Limit(w)'
    <2>1. proc' = [proc EXCEPT ![p] = proc'[p]] /\ clock' = clock
      BY <1>1, OnlyOne, WhatChanges DEF Changes
    <2>2. \A q \in Procs \ {p} : proc'[q] = proc[q]
      BY <1>0, <2>1
    <2>3. Admitting(w)' \subseteq Admitting(w)
      BY <1>1, <2>2 DEF Admitting, InWindowOf
    <2>4. w < clock => Counting(w)' \subseteq Counting(w)
      BY <1>0, <1>1, <2>2 DEF Counting, InWindowOf
    <2> QED BY <1>0, <1>1, <2>1, <2>3, <2>4, QuietStep
  <1>2. ASSUME NEW p \in Procs, Acts(p) PROVE Limit(w)'
    <2>0. proc[p] \in Local
      BY <1>0
    <2>1. CASE Admit(p)
      BY <2>1, AdmitStep
    <2>2. CASE Count(p)
      <3>1. CASE proc'[p].pc = "admit"
        BY <2>2, <3>1, CountStep
      <3>2. CASE proc'[p].pc # "admit"
        <4>1. proc'[p] = Idle /\ UNCHANGED <<admitted, admittedAt>>
          BY <1>0, <2>0, <2>2, <3>2 DEF Count, Answer, AnswerOf, Local
        <4> QED BY <1>1, <1>2, <3>2, <4>1, IdleType
      <3> QED BY <3>1, <3>2
    <2>3. CASE \E request \in Requests, key \in Keys : Request(p, request, key)
      <3>1. /\ UNCHANGED <<admitted, admittedAt>>
            /\ proc'[p].pc \in {"idle", "gateway"}
        BY <1>0, <2>0, <2>3 DEF Request, Local
      <3> QED BY <1>1, <1>2, <3>1
    <2>4. CASE Authorize(p)
      <3>1. /\ UNCHANGED <<admitted, admittedAt>>
            /\ proc'[p].pc = "idle" \/ (proc'[p].pc = "count" /\ proc'[p].now = clock)
        BY <1>0, <2>0, <2>4, IdleType DEF Authorize, Answer, AnswerOf, Local
      <3> QED BY <1>1, <1>2, <3>1
    <2>5. CASE \/ Look(p) \/ Insert(p) \/ Reserve(p) \/ MarkRunning(p) \/ Complete(p)
               \/ AskApproval(p) \/ Refuse(p) \/ Run(p) \/ FindRow(p) \/ Die(p)
      <3>1. UNCHANGED <<admitted, admittedAt>>
        BY <2>5 DEF Look, Insert, Reserve, MarkRunning, Complete, AskApproval, Refuse, Run,
                    FindRow, Die, callHistory
      <3>2. proc'[p].pc \notin {"admit", "count"}
        BY <1>0, <2>0, <2>5, IdleType
           DEF Look, Insert, Reserve, MarkRunning, Complete, AskApproval, Refuse, Run,
               FindRow, Die, Goto, Answer, AnswerOf, Local
      <3> QED BY <1>1, <1>2, <3>1, <3>2
    <2> QED BY <1>2, <2>1, <2>2, <2>3, <2>4, <2>5 DEF Acts
  <1>3. CASE Tick \/ UNCHANGED vars
    <2>1. UNCHANGED <<admitted, admittedAt, proc>> /\ clock <= clock'
      BY <1>0, <1>3 DEF Tick, callHistory, vars
    <2>2. Admitting(w)' = Admitting(w) /\ Counting(w)' = Counting(w)
      BY <2>1 DEF Admitting, Counting
    <2> QED BY <2>1, <2>2, QuietStep
  <1> QED BY <1>2, <1>3, Steps

\* SqlAlchemyFixedWindowRateLimiter.check: for any number of handlers and any order of
\* their reads and commits, a window holds no more calls than the limit and one for each
\* other handler, or two once its rows are deleted.
THEOREM OvershootIsBounded == Spec => []OvershootBounded
  <1> DEFINE Inv == BaseInv /\ LimitInv
  <1>1. Init => Inv
    <2> SUFFICES ASSUME Init PROVE Inv
      OBVIOUS
    <2>1. BaseInv
      BY BaseInit
    <2>2. \A p \in Procs : proc[p].pc = "idle"
      BY IdleType DEF Init
    <2>3. ASSUME NEW w \in Nat PROVE Limit(w)
      <3>1. Passed(w) = {} /\ Admitting(w) = {}
        BY <2>2 DEF Passed, Admitting, Init
      <3>2. Others \in Nat /\ Allowed \in Nat
        BY <2>1, Sizes
      <3> QED BY <3>1, <3>2, FS_EmptySet DEF Limit
    <2> QED BY <2>1, <2>2, <2>3 DEF LimitInv, DroppedOld
  <1>2. Inv /\ [Next]_vars => Inv'
    BY BaseStep, DroppedStep, LimitStep DEF LimitInv
  <1>3. Inv => OvershootBounded
    <2> SUFFICES ASSUME Inv, NEW now \in 0 .. clock
        PROVE  Cardinality(Passed(now)) <=
                  Allowed + (IF Passed(now) \subseteq DOMAIN admitted
                             THEN Others ELSE 2 * Others)
      BY DEF OvershootBounded, Passed, InWindowOf, Others
    <2>1. now \in Nat /\ Limit(now)
      BY DEF LimitInv, BaseInv, CallsTypeOK
    <2>2. /\ Cardinality(Passed(now)) \in Nat /\ Cardinality(Admitting(now)) \in Nat
          /\ Cardinality(Counting(now)) \in Nat /\ Others \in Nat /\ Allowed \in Nat
      BY Sizes
    <2> QED BY <2>1, <2>2 DEF Limit
  <1> QED BY <1>1, <1>2, <1>3, PTL DEF Spec

----------------------------------------------------------------------------
(* whom a run acts for, and how often a key runs *)

\* What the gateway has found out about a call that it authorized.
Accounted(token, role, now) ==
    token.signed /\ token.exp > now /\ role = token.role /\ role \in Permitted

ActsForToken ==
    /\ \A p \in Procs : proc[p].pc \notin {"idle", "gateway"} =>
                           Accounted(proc[p].token, proc[p].role, proc[p].now)
    /\ \A c \in DOMAIN ran : Accounted(ran[c].token, ran[c].role, ran[c].at)

\* A handler that has committed the row of its key, and one that has inserted it.
Owner(p) == proc[p].pc \in {"decide", "run", "complete", "write"}
Inserting(p) == proc[p].pc = "reserved"

\* A key whose row was never removed: its row is there for its owner and for its runs, it
\* has one owner, and a run of it is the owner's.
OwnerInv ==
    /\ \A p \in Procs : Owner(p) /\ proc[p].key \notin removed => proc[p].key \in DOMAIN keys
    /\ \A p, q \in Procs :
          Owner(p) /\ Owner(q) /\ proc[p].key = proc[q].key /\ p # q => proc[p].key \in removed

RunInv ==
    /\ \A c \in DOMAIN ran : ran[c].key \in DOMAIN keys \cup removed
    /\ \A p \in Procs, c \in DOMAIN ran :
          Owner(p) /\ ran[c].key = proc[p].key /\ proc[p].key \notin removed => c = proc[p].call
    /\ \A c, d \in DOMAIN ran : c # d /\ ran[c].key = ran[d].key => ran[c].key \in removed

\* The primary key: what is inserted is not there, or is about to be deleted.
InsertInv ==
    /\ \A p \in Procs : Inserting(p) => proc[p].key \notin DOMAIN keys \ proc[p].expired
    /\ \A p, q \in Procs : Inserting(p) /\ Inserting(q) /\ proc[p].key = proc[q].key => p = q

KeyInv == OwnerInv /\ RunInv /\ InsertInv

\* A key that is in no step's way of deletion keeps its row; only its owner gives it one.
LEMMA RowChanges ==
    ASSUME BaseInv, NEW p \in Procs, Acts(p), NEW k, k \notin removed'
    PROVE  /\ k \notin removed
           /\ k \in DOMAIN keys => k \in DOMAIN keys'
           /\ k \in DOMAIN keys' =>
                 \/ k \in DOMAIN keys
                 \/ (Reserve(p) \/ Complete(p)) /\ k = proc[p].key
           /\ Reserve(p) /\ k = proc[p].key => k \in DOMAIN keys' /\ k \notin proc[p].expired
  <1>1. CASE Reserve(p)
    <2> DEFINE gone == proc[p].expired \cup proc[p].victims
               row == [status |-> "RESERVED", created |-> proc[p].now, response |-> 0]
    <2>1. /\ keys' = Without(With(Without(keys, proc[p].expired), proc[p].key, row),
                             proc[p].victims)
          /\ removed' = removed \cup (gone \cap (DOMAIN keys \cup {proc[p].key}))
      BY <1>1 DEF Reserve
    <2> HIDE DEF row
    <2>2. DOMAIN keys' = ((DOMAIN keys \ proc[p].expired) \cup {proc[p].key}) \ proc[p].victims
      BY <2>1 DEF With, Without
    <2>3. proc[p].pc = "reserved"
      BY <1>1 DEF Reserve
    <2> QED BY <1>1, <2>1, <2>2
  <1>2. CASE Complete(p)
    <2>1. removed' = removed /\ proc[p].pc = "write"
      BY <1>2 DEF Complete
    <2>2. DOMAIN keys' = DOMAIN keys \/ DOMAIN keys' = DOMAIN keys \cup {proc[p].key}
      BY <1>2 DEF Complete, With
    <2>3. ~Reserve(p)
      BY <2>1 DEF Reserve
    <2> QED BY <1>2, <2>1, <2>2, <2>3
  <1>3. CASE MarkRunning(p)
    <2>1. removed' = removed /\ proc[p].pc = "decide" /\ DOMAIN keys' = DOMAIN keys
      BY <1>3 DEF MarkRunning
    <2> QED BY <2>1 DEF Reserve
  <1>4. CASE UNCHANGED <<keys, removed>> /\ ~Reserve(p)
    BY <1>4
  <1>5. \/ Reserve(p) \/ Complete(p) \/ MarkRunning(p)
        \/ UNCHANGED <<keys, removed>>
    BY DEF Acts, Request, Authorize, Count, Admit, Look, Insert, AskApproval, Refuse, Run,
           FindRow, Die, callHistory
  <1> QED BY <1>1, <1>2, <1>3, <1>4, <1>5

\* What a handler is after its step: an owner has reserved its key now or was an owner
\* before, and who inserts a key has found it free.
LEMMA RoleChanges ==
    ASSUME BaseInv, NEW p \in Procs, Acts(p)
    PROVE  /\ Owner(p)' => /\ proc'[p].key = proc[p].key /\ proc'[p].call = proc[p].call
                           /\ Owner(p) \/ Reserve(p)
           /\ Inserting(p)' => /\ Insert(p) /\ ~Taken(p) /\ UNCHANGED keys
                               /\ proc'[p].key = proc[p].key
                               /\ proc'[p].expired = proc[p].expired
  <1>0. proc \in [Procs -> Local] /\ proc[p] \in Local
    BY DEF BaseInv, CallsTypeOK, ProcTypeOK
  <1>1. CASE \E request \in Requests, key \in Keys : Request(p, request, key)
    BY <1>0, <1>1 DEF Request, Owner, Inserting, Local
  <1>2. CASE Authorize(p) \/ Count(p) \/ Admit(p) \/ Look(p)
    BY <1>0, <1>2, IdleType DEF Authorize, Count, Admit, Look, Answer, AnswerOf, Owner,
                                Inserting, Local
  <1>3. CASE Insert(p)
    <2>1. CASE Taken(p)
      BY <1>0, <1>3, <2>1, IdleType DEF Insert, Answer, AnswerOf, Owner, Inserting
    <2>2. CASE ~Taken(p)
      <3>1. PICK v : proc' = [proc EXCEPT ![p].pc = "reserved", ![p].victims = v]
        BY <1>3, <2>2 DEF Insert
      <3>2. UNCHANGED keys
        BY <1>3 DEF Insert
      <3> QED BY <1>0, <1>3, <2>2, <3>1, <3>2 DEF Owner, Inserting, Local
    <2> QED BY <2>1, <2>2
  <1>4. CASE Reserve(p)
    BY <1>0, <1>4 DEF Reserve, Owner, Inserting, Local
  <1>5. CASE AskApproval(p) \/ Complete(p) \/ Die(p)
    BY <1>0, <1>5, IdleType DEF AskApproval, Complete, Die, Answer, AnswerOf, Owner, Inserting
  <1>6. CASE Refuse(p) \/ MarkRunning(p) \/ Run(p)
    BY <1>0, <1>6, IdleType
       DEF Refuse, MarkRunning, Goto, Answer, AnswerOf, Run, Owner, Inserting, Local
  <1>7. CASE FindRow(p)
    <2>1. /\ proc'[p].pc = "write" /\ proc'[p].key = proc[p].key
          /\ proc'[p].call = proc[p].call /\ proc[p].pc = "complete"
      BY <1>0, <1>7 DEF FindRow, Local
    <2> QED BY <2>1 DEF Owner, Inserting
  <1> QED BY <1>1, <1>2, <1>3, <1>4, <1>5, <1>6, <1>7 DEF Acts

\* Only a run adds to what ran.
LEMMA RunChanges ==
    ASSUME BaseInv, NEW p \in Procs, Acts(p), ran' # ran
    PROVE  /\ Run(p) /\ proc[p].pc = "run" /\ proc[p].call \notin DOMAIN ran
           /\ DOMAIN ran' = DOMAIN ran \cup {proc[p].call}
           /\ \A c \in DOMAIN ran : ran'[c] = ran[c]
           /\ ran'[proc[p].call] = [key |-> proc[p].key, role |-> proc[p].role,
                                    token |-> proc[p].token, at |-> proc[p].now]
           /\ UNCHANGED <<keys, removed, answered, crashed>>
           /\ proc'[p].pc = "complete" /\ proc'[p].key = proc[p].key
           /\ proc'[p].call = proc[p].call
  <1>0. proc[p] \in Local /\ proc \in [Procs -> Local] /\ (Busy(p) => Own(p))
    BY DEF BaseInv, CallsTypeOK, ProcTypeOK, CallsOwn
  <1>1. Run(p)
    BY DEF Acts, Request, Authorize, Count, Admit, Look, Insert, Reserve, AskApproval, Refuse,
           MarkRunning, FindRow, Complete, Die, callHistory
  <1>2. proc[p].pc = "run" /\ proc[p].call \notin DOMAIN ran
    BY <1>0, <1>1 DEF Run, Busy, Own
  <1>3. proc'[p].pc = "complete" /\ proc'[p].key = proc[p].key /\ proc'[p].call = proc[p].call
    BY <1>0, <1>1 DEF Run, Local
  <1> QED BY <1>1, <1>2, <1>3 DEF Run, With

\* The other handlers stay as they are.
LEMMA OthersStay ==
    ASSUME BaseInv, NEW p \in Procs, Acts(p)
    PROVE  \A q \in Procs \ {p} : proc'[q] = proc[q]
  BY OnlyOne DEF BaseInv, CallsTypeOK, ProcTypeOK

\* The row of a key that was never removed has one owner.
LEMMA OwnerStep ==
    ASSUME BaseInv, OwnerInv, InsertInv, NEW p \in Procs, Acts(p)
    PROVE  OwnerInv'
  <1>1. ASSUME NEW q \in Procs, Owner(q)', proc'[q].key \notin removed'
        PROVE  proc'[q].key \in DOMAIN keys'
    <2>1. CASE q = p
      BY <1>1, <2>1, RowChanges, RoleChanges DEF OwnerInv
    <2>2. CASE q # p
      BY <1>1, <2>2, RowChanges, OthersStay DEF OwnerInv, Owner
    <2> QED BY <2>1, <2>2
  <1>2. ASSUME NEW q \in Procs \ {p}, Owner(p)', Owner(q)', proc'[p].key = proc'[q].key,
               proc'[p].key \notin removed'
        PROVE  FALSE
    <2>1. /\ proc'[q] = proc[q] /\ Owner(q) /\ proc'[p].key = proc[p].key
          /\ proc[q].key = proc[p].key
      BY <1>2, OthersStay, RoleChanges DEF Owner
    <2>2. proc[p].key \notin removed /\ proc[p].key \in DOMAIN keys
      BY <1>2, <2>1, RowChanges DEF OwnerInv
    <2>3. ~Owner(p)
      BY <2>1, <2>2 DEF OwnerInv
    <2>4. Reserve(p)
      BY <1>2, <2>3, RoleChanges
    <2>5. proc[p].key \notin proc[p].expired
      BY <1>2, <2>1, <2>4, RowChanges
    <2> QED BY <2>2, <2>4, <2>5 DEF InsertInv, Inserting, Reserve
  <1>3. ASSUME NEW q \in Procs \ {p}, NEW r \in Procs \ {p}, q # r, Owner(q)', Owner(r)',
               proc'[q].key = proc'[r].key
        PROVE  proc'[q].key \in removed'
    BY <1>3, OthersStay, RowChanges DEF OwnerInv, Owner
  <1> QED BY <1>1, <1>2, <1>3 DEF OwnerInv

\* What a key ran for is its owner's.
LEMMA RunStep ==
    ASSUME BaseInv, OwnerInv, RunInv, InsertInv, NEW p \in Procs, Acts(p)
    PROVE  RunInv'
  <1>1. CASE ran' = ran
    <2>1. \A c \in DOMAIN ran' : ran'[c].key \in DOMAIN keys' \cup removed'
      BY <1>1, RowChanges DEF RunInv
    <2>2. ASSUME NEW q \in Procs, NEW c \in DOMAIN ran', Owner(q)',
                 ran'[c].key = proc'[q].key, proc'[q].key \notin removed'
          PROVE  c = proc'[q].call
      <3>1. CASE q # p
        BY <1>1, <2>2, <3>1, OthersStay, RowChanges DEF RunInv, Owner
      <3>2. CASE q = p
        <4>1. /\ proc'[p].key = proc[p].key /\ proc'[p].call = proc[p].call
              /\ Owner(p) \/ Reserve(p)
          BY <2>2, <3>2, RoleChanges
        <4>2. proc[p].key \notin removed /\ ran[c].key = proc[p].key /\ c \in DOMAIN ran
          BY <1>1, <2>2, <3>2, <4>1, RowChanges
        <4>3. CASE Owner(p)
          BY <3>2, <4>1, <4>2, <4>3 DEF RunInv
        <4>4. CASE Reserve(p)
          <5>1. proc[p].key \in DOMAIN keys
            BY <4>2 DEF RunInv
          <5>2. proc[p].key \notin proc[p].expired
            BY <2>2, <3>2, <4>1, <4>4, RowChanges
          <5> QED BY <4>4, <5>1, <5>2 DEF InsertInv, Inserting, Reserve
        <4> QED BY <4>1, <4>3, <4>4
      <3> QED BY <3>1, <3>2
    <2>3. \A c, d \in DOMAIN ran' : c # d /\ ran'[c].key = ran'[d].key => ran'[c].key \in removed'
      BY <1>1, RowChanges DEF RunInv
    <2> QED BY <2>1, <2>2, <2>3 DEF RunInv
  <1>2. CASE ran' # ran
    <2> DEFINE b == proc[p].call
               k == proc[p].key
    <2>0. ran'[b] = [key |-> k, role |-> proc[p].role, token |-> proc[p].token,
                     at |-> proc[p].now]
      BY <1>2, RunChanges
    <2>1. /\ proc[p].pc = "run" /\ b \notin DOMAIN ran /\ DOMAIN ran' = DOMAIN ran \cup {b}
          /\ \A c \in DOMAIN ran : ran'[c] = ran[c]
          /\ ran'[b].key = k /\ UNCHANGED <<keys, removed>>
          /\ proc'[p].pc = "complete" /\ proc'[p].key = k /\ proc'[p].call = b
      BY <1>2, <2>0, RunChanges
    <2>2. Owner(p)
      BY <2>1 DEF Owner
    <2>3. k \in DOMAIN keys \cup removed
      BY <2>2 DEF OwnerInv
    <2>4. k \notin removed => \A c \in DOMAIN ran : ran[c].key # k
      BY <2>1, <2>2 DEF RunInv
    <2>5. \A c \in DOMAIN ran' : ran'[c].key \in DOMAIN keys' \cup removed'
      BY <2>1, <2>3 DEF RunInv
    <2>6. \A c, d \in DOMAIN ran' : c # d /\ ran'[c].key = ran'[d].key => ran'[c].key \in removed'
      BY <2>1, <2>4 DEF RunInv
    <2>7. ASSUME NEW q \in Procs, NEW c \in DOMAIN ran', Owner(q)',
                 ran'[c].key = proc'[q].key, proc'[q].key \notin removed'
          PROVE  c = proc'[q].call
      <3>1. CASE q = p
        BY <2>1, <2>4, <2>7, <3>1
      <3>2. CASE q # p
        <4>1. proc'[q] = proc[q] /\ Owner(q)
          BY <2>7, <3>2, OthersStay DEF Owner
        <4>2. proc[q].key # k
          BY <2>1, <2>2, <2>7, <3>2, <4>1 DEF OwnerInv
        <4>3. c \in DOMAIN ran
          BY <2>1, <2>7, <4>1, <4>2
        <4> QED BY <2>1, <2>7, <4>1, <4>3 DEF RunInv
      <3> QED BY <3>1, <3>2
    <2> QED BY <2>5, <2>6, <2>7 DEF RunInv
  <1> QED BY <1>1, <1>2

\* Nobody commits a key that another handler is inserting.
LEMMA InsertStep ==
    ASSUME BaseInv, InsertInv, NEW p \in Procs, Acts(p)
    PROVE  InsertInv'
  <1>1. ASSUME NEW q \in Procs, Inserting(q)'
        PROVE  proc'[q].key \notin DOMAIN keys' \ proc'[q].expired
    <2>1. CASE q = p
      BY <1>1, <2>1, RoleChanges DEF Taken
    <2>2. CASE q # p
      <3>1. proc'[q] = proc[q] /\ Inserting(q)
        BY <1>1, <2>2, OthersStay DEF Inserting
      <3>2. proc[q].key \notin DOMAIN keys \ proc[q].expired
        BY <3>1 DEF InsertInv
      <3>3. DOMAIN keys' \subseteq DOMAIN keys \cup {proc[p].key}
        <4>1. CASE Reserve(p) \/ Complete(p)
          BY <4>1 DEF Reserve, Complete, With, Without
        <4>2. Reserve(p) \/ Complete(p) \/ DOMAIN keys' = DOMAIN keys
          BY DEF Acts, Request, Authorize, Count, Admit, Look, Insert, AskApproval, Refuse,
                 MarkRunning, Run, FindRow, Die
        <4> QED BY <4>1, <4>2
      <3>4. CASE proc[q].key # proc[p].key
        BY <3>1, <3>2, <3>3, <3>4
      <3>5. CASE proc[q].key = proc[p].key
        <4>1. ~Reserve(p)
          BY <2>2, <3>1, <3>5 DEF InsertInv, Inserting, Reserve
        <4>2. ~Complete(p)
          BY <2>2, <3>1, <3>5 DEF Complete, Unlocked, Inserting
        <4>3. DOMAIN keys' = DOMAIN keys
          BY <4>1, <4>2 DEF Acts, Request, Authorize, Count, Admit, Look, Insert, AskApproval,
                            Refuse, MarkRunning, Run, FindRow, Die
        <4> QED BY <3>1, <3>2, <4>3
      <3> QED BY <3>4, <3>5
    <2> QED BY <2>1, <2>2
  <1>2. ASSUME NEW q \in Procs \ {p}, Inserting(p)', Inserting(q)', proc'[p].key = proc'[q].key
        PROVE  FALSE
    <2>1. proc'[q] = proc[q] /\ Inserting(q) /\ Insert(p) /\ proc'[p].key = proc[p].key
      BY <1>2, OthersStay, RoleChanges DEF Inserting
    <2> QED BY <1>2, <2>1 DEF Insert, Inserting
  <1> QED BY <1>1, <1>2, OthersStay DEF InsertInv, Inserting

\* The gateway authorizes with the stamp that counts for the whole call, and what it found
\* out stays with the call.
LEMMA TokenStep ==
    ASSUME BaseInv, ActsForToken, NEW p \in Procs, Acts(p)
    PROVE  ActsForToken'
  <1>0. proc \in [Procs -> Local] /\ proc[p] \in Local
    BY DEF BaseInv, CallsTypeOK, ProcTypeOK
  <1>1. ASSUME proc'[p].pc \notin {"idle", "gateway"}
        PROVE  Accounted(proc'[p].token, proc'[p].role, proc'[p].now)
    <2>1. CASE \E request \in Requests, key \in Keys : Request(p, request, key)
      <3>1. proc'[p].pc = "gateway" \/ proc' = proc
        BY <1>0, <2>1 DEF Request, Local
      <3> QED BY <1>1, <3>1 DEF ActsForToken
    <2>2. CASE Authorize(p)
      <3> DEFINE t == proc[p].token
      <3>1. Authenticates(t, clock) /\ t.role \in Permitted
        BY <1>0, <1>1, <2>2, IdleType DEF Authorize, Answer, AnswerOf
      <3>2. proc' = [proc EXCEPT ![p].pc = "count", ![p].role = t.role, ![p].now = clock]
        BY <2>2, <3>1, <1>0, <1>1, IdleType DEF Authorize, Answer, AnswerOf
      <3>3. /\ proc'[p].token = t /\ proc'[p].role = t.role /\ proc'[p].now = clock
        BY <1>0, <3>2 DEF Local
      <3> QED BY <3>1, <3>3 DEF Accounted, Authenticates, VerifyClaims
    <2>3. CASE ~Authorize(p) /\ ~\E request \in Requests, key \in Keys : Request(p, request, key)
      <3>1. /\ proc'[p].token = proc[p].token /\ proc'[p].role = proc[p].role
            /\ proc'[p].now = proc[p].now /\ proc[p].pc \notin {"idle", "gateway"}
        <4>1. CASE Count(p) \/ Admit(p) \/ Look(p)
          BY <1>0, <1>1, <4>1, IdleType DEF Count, Admit, Look, Answer, AnswerOf, Local
        <4>2. CASE Insert(p)
          <5>1. \/ proc' = [proc EXCEPT ![p] = Idle]
                \/ \E v : proc' = [proc EXCEPT ![p].pc = "reserved", ![p].victims = v]
            BY <4>2 DEF Insert, Answer, AnswerOf
          <5>2. proc[p].pc = "insert"
            BY <4>2 DEF Insert
          <5> QED BY <1>0, <1>1, <5>1, <5>2, IdleType DEF Local
        <4>3. CASE Reserve(p) \/ MarkRunning(p) \/ Refuse(p) \/ Run(p)
          BY <1>0, <1>1, <4>3, IdleType
             DEF Reserve, MarkRunning, Goto, Answer, AnswerOf, Refuse, Run, Local
        <4>4. CASE FindRow(p)
          BY <1>0, <4>4 DEF FindRow, Local
        <4>5. CASE AskApproval(p) \/ Complete(p) \/ Die(p)
          BY <1>0, <1>1, <4>5, IdleType DEF AskApproval, Complete, Die, Answer, AnswerOf
        <4> QED BY <2>3, <4>1, <4>2, <4>3, <4>4, <4>5 DEF Acts
      <3> QED BY <3>1 DEF ActsForToken
    <2> QED BY <2>1, <2>2, <2>3
  <1>2. ASSUME NEW c \in DOMAIN ran'
        PROVE  Accounted(ran'[c].token, ran'[c].role, ran'[c].at)
    <2>1. CASE ran' = ran
      BY <1>2, <2>1 DEF ActsForToken
    <2>2. CASE ran' # ran
      <3>1. /\ c \in DOMAIN ran \/ c = proc[p].call
            /\ \A d \in DOMAIN ran : ran'[d] = ran[d]
            /\ proc[p].pc = "run"
        BY <1>2, <2>2, RunChanges
      <3>2. ran'[proc[p].call] = [key |-> proc[p].key, role |-> proc[p].role,
                                  token |-> proc[p].token, at |-> proc[p].now]
        BY <2>2, RunChanges
      <3> QED BY <3>1, <3>2 DEF ActsForToken
    <2> QED BY <2>1, <2>2
  <1> QED BY <1>1, <1>2, OthersStay DEF ActsForToken

\* What the keys and the runs depend on is not the clock.
LEMMA KeyStep ==
    ASSUME BaseInv, ActsForToken, KeyInv, [Next]_vars
    PROVE  ActsForToken' /\ KeyInv'
  <1>1. ASSUME NEW p \in Procs, Acts(p) PROVE ActsForToken' /\ KeyInv'
    BY <1>1, TokenStep, OwnerStep, RunStep, InsertStep DEF KeyInv
  <1>2. ASSUME UNCHANGED <<proc, keys, ran, removed>> PROVE ActsForToken' /\ KeyInv'
    BY <1>2 DEF ActsForToken, KeyInv, OwnerInv, RunInv, InsertInv, Owner, Inserting
  <1>3. Tick \/ UNCHANGED vars => UNCHANGED <<proc, keys, ran, removed>>
    BY DEF Tick, callHistory, vars
  <1> QED BY <1>1, <1>2, <1>3, Steps

\* Nothing is reserved and nothing ran initially.
LEMMA KeyInit == Init => BaseInv /\ ActsForToken /\ KeyInv
  <1> SUFFICES ASSUME Init PROVE BaseInv /\ ActsForToken /\ KeyInv
    OBVIOUS
  <1>1. \A p \in Procs : proc[p].pc = "idle"
    BY IdleType DEF Init
  <1>2. DOMAIN ran = {} /\ DOMAIN keys = {}
    BY DEF Init
  <1> QED BY <1>1, <1>2, BaseInit
          DEF ActsForToken, KeyInv, OwnerInv, RunInv, InsertInv, Owner, Inserting

\* HmacJwtAuthenticator and SqlAlchemyIdempotencyStore: every run acts under the role of a
\* token that was good, and two runs of a key have the removal of its row between them, for
\* any number of handlers, keys, calls and crashes.
THEOREM RunsAreAccountedFor == Spec => []RunsAccountedFor
  <1>1. BaseInv /\ ActsForToken /\ KeyInv /\ [Next]_vars
           => (BaseInv /\ ActsForToken /\ KeyInv)'
    BY BaseStep, KeyStep
  <1>2. ActsForToken /\ KeyInv => RunsAccountedFor
    BY DEF ActsForToken, Accounted, KeyInv, RunInv, RunsAccountedFor
  <1> QED BY <1>1, <1>2, KeyInit, PTL DEF Spec

----------------------------------------------------------------------------
(* what the row of a key stands for *)

\* A run that has not died has its row or is about to write it, and a handler that writes
\* the row of its run found it if it was never removed.
WrittenInv ==
    /\ \A p \in Procs : proc[p].pc \in {"complete", "write"} /\ proc[p].call \in DOMAIN ran =>
                           ran[proc[p].call].key = proc[p].key
    /\ \A p \in Procs : proc[p].pc = "write" /\ proc[p].key \notin removed => proc[p].found
    /\ \A c \in DOMAIN ran \ crashed : ran[c].key \notin removed =>
          \/ keys[ran[c].key].response # 0
          \/ \E p \in Procs : proc[p].pc \in {"complete", "write"} /\ proc[p].call = c

\* A handler that will make the row of key k final, if it is still there.
Settles(p, k) ==
    /\ proc[p].key = k
    /\ \/ proc[p].pc \in {"decide", "run", "complete"}
       \/ proc[p].pc = "write" /\ proc[p].found

Pending(k) == \E c \in DOMAIN answered : answered[c].what = "pending" /\ answered[c].key = k

OpenInv ==
    crashed = {} =>
        \A k \in DOMAIN keys : keys[k].status \notin Final =>
            Pending(k) \/ \E p \in Procs : Settles(p, k)

\* What every reachable state keeps of keys, runs and rows.
RowsInv == BaseInv /\ KeyInv /\ WrittenInv /\ OpenInv

\* complete writes what it has found, and only complete ends a run without dying.
LEMMA CompleteWrites ==
    ASSUME RowsInv, NEW p \in Procs, Complete(p), proc[p].key \notin removed
    PROVE  /\ proc[p].key \in DOMAIN keys
           /\ keys' = With(keys, proc[p].key,
                           [status |-> proc[p].status, response |-> proc[p].call,
                            created |-> keys[proc[p].key].created])
           /\ proc[p].call # 0
  <1> DEFINE k == proc[p].key
  <1>1. proc[p].pc = "write"
    BY DEF Complete
  <1>2. k \in DOMAIN keys
    BY <1>1 DEF RowsInv, KeyInv, OwnerInv, Owner
  <1>3. proc[p].found
    BY <1>1 DEF RowsInv, WrittenInv
  <1>4. proc[p].found \in BOOLEAN
    BY DEF RowsInv, BaseInv, CallsTypeOK, ProcTypeOK, Local
  <1>5. proc[p].found = (k \in DOMAIN keys)
    BY <1>2, <1>3, <1>4
  <1>6. proc[p].call # 0
    BY <1>1 DEF RowsInv, BaseInv, CallsTypeOK, CallsOwn, Busy, Own
  <1> QED BY <1>2, <1>5, <1>6 DEF Complete

\* The response of a row that stays is not taken back.
LEMMA ResponseStays ==
    ASSUME RowsInv, NEW p \in Procs, Acts(p),
           NEW k \in DOMAIN keys, k \notin removed', keys[k].response # 0
    PROVE  k \in DOMAIN keys' /\ keys'[k].response # 0
  <1>0. BaseInv /\ KeysTypeOK /\ InsertInv /\ k \notin removed /\ k \in DOMAIN keys'
    BY RowChanges DEF RowsInv, BaseInv, CallsTypeOK, KeyInv
  <1>1. CASE Reserve(p)
    <2> DEFINE row == [status |-> "RESERVED", created |-> proc[p].now, response |-> 0]
    <2>1. keys' = Without(With(Without(keys, proc[p].expired), proc[p].key, row),
                          proc[p].victims)
      BY <1>1 DEF Reserve
    <2>2. k # proc[p].key
      <3>1. SUFFICES ASSUME k = proc[p].key PROVE FALSE
        OBVIOUS
      <3>2. k \notin proc[p].expired
        BY <1>0, <1>1, <3>1, RowChanges
      <3> QED BY <1>0, <1>1, <3>1, <3>2 DEF InsertInv, Inserting, Reserve
    <2> HIDE DEF row
    <2>3. keys'[k] = keys[k]
      BY <1>0, <2>1, <2>2 DEF With, Without
    <2> QED BY <1>0, <2>3
  <1>2. CASE MarkRunning(p)
    BY <1>0, <1>2 DEF MarkRunning, KeysTypeOK, Row
  <1>3. CASE Complete(p)
    <2>1. CASE keys' = keys
      BY <1>0, <2>1
    <2>2. CASE keys' # keys
      <3> DEFINE row == [status |-> proc[p].status, response |-> proc[p].call,
                         created |-> IF proc[p].key \in DOMAIN keys
                                     THEN keys[proc[p].key].created ELSE clock]
      <3>1. keys' = With(keys, proc[p].key, row)
        BY <1>3, <2>2 DEF Complete
      <3>2. row.response # 0
        BY <1>3 DEF RowsInv, BaseInv, CallsTypeOK, CallsOwn, Busy, Own, Complete
      <3> HIDE DEF row
      <3> QED BY <1>0, <3>1, <3>2 DEF With
    <2> QED BY <2>1, <2>2
  <1>4. CASE UNCHANGED keys
    BY <1>0, <1>4
  <1>5. UNCHANGED keys \/ Reserve(p) \/ MarkRunning(p) \/ Complete(p)
    BY DEF Acts, Request, Authorize, Count, Admit, Look, Insert, AskApproval, Refuse, Run,
           FindRow, Die
  <1> QED BY <1>1, <1>2, <1>3, <1>4, <1>5

\* An answer is final.
LEMMA AnswersKept ==
    ASSUME BaseInv, NEW p \in Procs, Acts(p), NEW c \in DOMAIN answered
    PROVE  c \in DOMAIN answered' /\ answered'[c] = answered[c]
  <1>0. /\ c \in 1 .. made /\ made \in Nat
        /\ Busy(p) => c # proc[p].call
    BY DEF BaseInv, CallsTypeOK, CallsOwn, Own
  <1>1. ASSUME NEW what, NEW call, AnswerOf(p, what, call), Busy(p)
        PROVE  c \in DOMAIN answered' /\ answered'[c] = answered[c]
    BY <1>0, <1>1 DEF AnswerOf, With
  <1>2. ASSUME NEW request \in Requests, NEW key \in Keys, Request(p, request, key)
        PROVE  c \in DOMAIN answered' /\ answered'[c] = answered[c]
    BY <1>0, <1>2 DEF Request, With
  <1>3. CASE UNCHANGED answered
    BY <1>3
  <1>4. CASE Authorize(p) \/ Count(p) \/ Look(p)
    BY <1>1, <1>3, <1>4 DEF Authorize, Count, Look, Answer, Busy
  <1>5. CASE Insert(p) \/ AskApproval(p) \/ MarkRunning(p) \/ Complete(p)
    BY <1>1, <1>3, <1>5 DEF Insert, AskApproval, MarkRunning, Complete, Answer, Busy
  <1>6. CASE Admit(p) \/ Reserve(p) \/ Refuse(p) \/ Run(p) \/ FindRow(p) \/ Die(p)
    BY <1>3, <1>6 DEF Admit, Reserve, Refuse, Run, FindRow, Die, callHistory
  <1> QED BY <1>2, <1>4, <1>5, <1>6 DEF Acts

\* Where a handler stands that has something to write.
LEMMA WriterChanges ==
    ASSUME RowsInv, NEW p \in Procs, Acts(p), proc'[p].pc \in {"complete", "write"}
    PROVE  /\ proc'[p].key = proc[p].key /\ proc'[p].call = proc[p].call
           /\ \/ Refuse(p) /\ proc'[p].pc = "complete" /\ proc[p].call \notin DOMAIN ran
              \/ Run(p) /\ proc'[p].pc = "complete"
              \/ FindRow(p) /\ proc'[p].pc = "write" /\ proc[p].pc = "complete"
                 /\ proc'[p].found = (proc[p].key \in DOMAIN keys)
  <1>0. proc \in [Procs -> Local] /\ proc[p] \in Local /\ (Busy(p) => Own(p)) /\ BaseInv
    BY DEF RowsInv, BaseInv, CallsTypeOK, ProcTypeOK, CallsOwn
  <1>1. Owner(p)' /\ proc'[p].key = proc[p].key /\ proc'[p].call = proc[p].call
    BY <1>0, RoleChanges DEF Owner
  <1>2. Refuse(p) \/ Run(p) \/ FindRow(p)
    <2>1. ~(AskApproval(p) \/ Complete(p) \/ Die(p))
      BY <1>0, IdleType DEF AskApproval, Complete, Die, Answer, AnswerOf
    <2>2. ~(Reserve(p) \/ MarkRunning(p))
      BY <1>0, IdleType DEF Reserve, MarkRunning, Goto, Answer, AnswerOf, Local
    <2>3. ~(Authorize(p) \/ Count(p) \/ Admit(p) \/ Look(p) \/ Insert(p))
      BY <1>0, <1>1, RoleChanges DEF Authorize, Count, Admit, Look, Insert, Owner, Reserve
    <2>4. ~\E request \in Requests, key \in Keys : Request(p, request, key)
      BY <1>0, <1>1, RoleChanges DEF Request, Owner, Reserve
    <2> QED BY <2>1, <2>2, <2>3, <2>4 DEF Acts
  <1>3. CASE Refuse(p) \/ Run(p)
    BY <1>0, <1>1, <1>3 DEF Refuse, Run, Busy, Own, Local
  <1>4. CASE FindRow(p)
    <2> DEFINE found == proc[p].key \in DOMAIN keys
    <2>1. proc' = [proc EXCEPT ![p].pc = "write", ![p].found = found] /\ proc[p].pc = "complete"
      BY <1>4 DEF FindRow
    <2> HIDE DEF found
    <2>2. proc'[p].pc = "write" /\ proc'[p].found = found
      BY <1>0, <2>1, Zenon DEF Local
    <2> QED BY <1>1, <1>4, <2>1, <2>2 DEF found
  <1> QED BY <1>2, <1>3, <1>4

\* A run is recorded before its call is answered.
LEMMA WrittenStep ==
    ASSUME RowsInv, BaseInv', NEW p \in Procs, Acts(p)
    PROVE  WrittenInv'
  <1>0. /\ BaseInv /\ WrittenInv /\ RunInv /\ OwnerInv
        /\ \A k : k \notin removed' => k \notin removed
        /\ \A q \in Procs \ {p} : proc'[q] = proc[q]
    BY RowChanges, OthersStay DEF RowsInv, KeyInv
  <1>1. ASSUME NEW q \in Procs, proc'[q].pc \in {"complete", "write"},
               proc'[q].call \in DOMAIN ran'
        PROVE  ran'[proc'[q].call].key = proc'[q].key
    <2>1. CASE ran' = ran
      <3>1. CASE q = p
        <4>1. /\ proc'[p].key = proc[p].key /\ proc'[p].call = proc[p].call
              /\ Refuse(p) \/ Run(p) \/ FindRow(p)
          BY <1>1, <3>1, WriterChanges
        <4>2. ~Refuse(p)
          BY <1>0, <1>1, <2>1, <3>1, <4>1 DEF Refuse, BaseInv, CallsOwn, Busy, Own
        <4>3. ~Run(p)
          <5>1. ASSUME Run(p) PROVE proc[p].call \notin DOMAIN ran
            BY <1>0, <5>1 DEF Run, BaseInv, CallsOwn, Busy, Own
          <5> QED BY <1>1, <2>1, <3>1, <4>1, <5>1
        <4>4. proc[p].pc = "complete"
          BY <4>1, <4>2, <4>3 DEF FindRow
        <4> QED BY <1>0, <1>1, <2>1, <3>1, <4>1, <4>4 DEF WrittenInv
      <3>2. CASE q # p
        BY <1>0, <1>1, <2>1, <3>2 DEF WrittenInv
      <3> QED BY <3>1, <3>2
    <2>2. CASE ran' # ran
      <3>0. ran'[proc[p].call] = [key |-> proc[p].key, role |-> proc[p].role,
                                  token |-> proc[p].token, at |-> proc[p].now]
        BY <1>0, <2>2, RunChanges
      <3>1. /\ ran'[proc[p].call].key = proc[p].key
            /\ DOMAIN ran' = DOMAIN ran \cup {proc[p].call}
            /\ \A c \in DOMAIN ran : ran'[c] = ran[c]
            /\ proc'[p].pc = "complete" /\ proc'[p].key = proc[p].key
            /\ proc'[p].call = proc[p].call
        BY <1>0, <2>2, <3>0, RunChanges
      <3>2. CASE q = p
        BY <3>1, <3>2
      <3>3. CASE q # p
        <4>1. proc'[q].call # proc'[p].call
          BY <1>1, <3>1, <3>3 DEF BaseInv, CallsOwn, Busy
        <4> QED BY <1>0, <1>1, <3>1, <3>3, <4>1 DEF WrittenInv
      <3> QED BY <3>2, <3>3
    <2> QED BY <2>1, <2>2
  <1>2. ASSUME NEW q \in Procs, proc'[q].pc = "write", proc'[q].key \notin removed'
        PROVE  proc'[q].found
    <2>1. CASE q = p
      <3>1. /\ proc[p].pc = "complete" /\ proc'[p].key = proc[p].key
            /\ proc'[p].found = (proc[p].key \in DOMAIN keys)
        BY <1>2, <2>1, WriterChanges
      <3>2. proc[p].key \in DOMAIN keys
        BY <1>0, <1>2, <2>1, <3>1 DEF OwnerInv, Owner
      <3> QED BY <2>1, <3>1, <3>2
    <2>2. CASE q # p
      BY <1>0, <1>2, <2>2 DEF WrittenInv
    <2> QED BY <2>1, <2>2
  <1>3. ASSUME NEW c \in DOMAIN ran' \ crashed', ran'[c].key \notin removed',
               ~\E q \in Procs : proc'[q].pc \in {"complete", "write"} /\ proc'[q].call = c
        PROVE  keys'[ran'[c].key].response # 0
    <2>1. c \in DOMAIN ran /\ ran'[c] = ran[c]
      <3>1. CASE ran' = ran
        BY <1>3, <3>1
      <3>2. CASE ran' # ran
        <4>1. /\ DOMAIN ran' = DOMAIN ran \cup {proc[p].call}
              /\ proc'[p].pc = "complete" /\ proc'[p].call = proc[p].call
          BY <1>0, <3>2, RunChanges
        <4>2. \A d \in DOMAIN ran : ran'[d] = ran[d]
          BY <1>0, <3>2, RunChanges
        <4> QED BY <1>3, <4>1, <4>2
      <3> QED BY <3>1, <3>2
    <2> DEFINE k == ran[c].key
    <2>2. k \notin removed /\ k \in DOMAIN keys
      BY <1>0, <1>3, <2>1 DEF RunInv
    <2>3. c \notin crashed
      BY <1>3 DEF Acts, Request, Authorize, Count, Admit, Look, Insert, Reserve, AskApproval,
                  Refuse, MarkRunning, Run, FindRow, Complete, Die, callHistory
    <2>4. CASE keys[k].response # 0
      BY <1>3, <2>1, <2>2, <2>4, ResponseStays
    <2>5. CASE keys[k].response = 0
      <3>1. PICK q \in Procs : proc[q].pc \in {"complete", "write"} /\ proc[q].call = c
        BY <1>0, <2>1, <2>2, <2>3, <2>5 DEF WrittenInv
      <3>2. q = p
        BY <1>0, <1>3, <3>1
      <3>3. proc[p].key = k
        BY <1>0, <2>1, <3>1, <3>2 DEF WrittenInv
      <3>4. proc \in [Procs -> Local] /\ proc[p] \in Local
        BY <1>0 DEF BaseInv, CallsTypeOK, ProcTypeOK
      <3>5. ~FindRow(p)
        BY <1>3, <3>1, <3>2, <3>4 DEF FindRow, Local
      <3>6. ~Die(p)
        BY <1>3, <3>1, <3>2 DEF Die
      <3>7. Complete(p)
        BY <3>1, <3>2, <3>5, <3>6
           DEF Acts, Request, Authorize, Count, Admit, Look, Insert, Reserve, AskApproval,
               Refuse, MarkRunning, Run
      <3>8. /\ keys' = With(keys, k, [status |-> proc[p].status, response |-> proc[p].call,
                                      created |-> keys[k].created])
            /\ proc[p].call # 0
        BY <2>2, <3>3, <3>7, CompleteWrites
      <3>9. keys'[k].response = proc[p].call
        BY <3>8 DEF With
      <3> QED BY <2>1, <3>8, <3>9
    <2> QED BY <2>4, <2>5
  <1> QED BY <1>1, <1>2, <1>3 DEF WrittenInv

\* A row that refuses every call is of a call that is not over.
LEMMA OpenStep ==
    ASSUME RowsInv, BaseInv', NEW p \in Procs, Acts(p)
    PROVE  OpenInv'
  <1>0. /\ BaseInv /\ OpenInv /\ KeysTypeOK
        /\ proc \in [Procs -> Local] /\ proc[p] \in Local /\ (Busy(p) => Own(p))
        /\ \A q \in Procs \ {p} : proc'[q] = proc[q]
    BY OthersStay DEF RowsInv, BaseInv, CallsTypeOK, ProcTypeOK, CallsOwn
  <1>1. SUFFICES ASSUME crashed' = {}, NEW k \in DOMAIN keys', keys'[k].status \notin Final
                 PROVE  Pending(k)' \/ \E q \in Procs : Settles(q, k)'
    BY DEF OpenInv
  <1>2. crashed = {} /\ ~Die(p)
    BY <1>1 DEF Acts, Request, Authorize, Count, Admit, Look, Insert, Reserve, AskApproval,
                Refuse, MarkRunning, Run, FindRow, Complete, Die, callHistory
  <1>3. ASSUME k \in DOMAIN keys, keys[k].status \notin Final,
               \A q \in Procs : Settles(q, k) => q # p \/ Settles(q, k)' \/ Pending(k)'
        PROVE  Pending(k)' \/ \E q \in Procs : Settles(q, k)'
    <2>1. CASE Pending(k)
      BY <1>0, <2>1, AnswersKept DEF Pending
    <2>2. ASSUME NEW q \in Procs, Settles(q, k)
          PROVE  Pending(k)' \/ \E r \in Procs : Settles(r, k)'
      <3>1. CASE q # p
        BY <1>0, <2>2, <3>1 DEF Settles
      <3>2. CASE q = p
        BY <1>3, <2>2, <3>2
      <3> QED BY <3>1, <3>2
    <2> QED BY <1>0, <1>2, <1>3, <2>1, <2>2 DEF OpenInv
  <1>4. CASE Reserve(p)
    <2> DEFINE row == [status |-> "RESERVED", created |-> proc[p].now, response |-> 0]
    <2>1. /\ keys' = Without(With(Without(keys, proc[p].expired), proc[p].key, row),
                             proc[p].victims)
          /\ proc'[p].pc = "decide" /\ proc'[p].key = proc[p].key /\ proc[p].pc = "reserved"
      BY <1>0, <1>4 DEF Reserve, Local
    <2> HIDE DEF row
    <2>2. CASE k = proc[p].key
      BY <2>1, <2>2 DEF Settles
    <2>3. CASE k # proc[p].key
      <3>1. k \in DOMAIN keys /\ keys'[k] = keys[k]
        BY <1>1, <2>1, <2>3 DEF With, Without
      <3> QED BY <1>1, <1>3, <2>1, <3>1 DEF Settles
    <2> QED BY <2>2, <2>3
  <1>5. CASE MarkRunning(p)
    <2>1. proc[p].key \in DOMAIN keys => proc'[p].pc = "run" /\ proc'[p].key = proc[p].key
      BY <1>0, <1>5 DEF MarkRunning, Goto, Local
    <2>2. CASE k = proc[p].key
      <3>1. k \in DOMAIN keys
        BY <1>1, <1>5 DEF MarkRunning
      <3> QED BY <2>1, <2>2, <3>1 DEF Settles
    <2>3. CASE k # proc[p].key
      <3>1. k \in DOMAIN keys /\ keys'[k] = keys[k]
        BY <1>1, <1>5, <2>3 DEF MarkRunning
      <3> QED BY <1>1, <1>3, <2>3, <3>1 DEF Settles
    <2> QED BY <2>2, <2>3
  <1>6. CASE Complete(p)
    <2> DEFINE row == [status |-> proc[p].status, response |-> proc[p].call,
                       created |-> IF proc[p].key \in DOMAIN keys
                                   THEN keys[proc[p].key].created ELSE clock]
    <2>1. /\ proc[p].pc = "write" /\ row.status \in Final
          /\ IF proc[p].found = (proc[p].key \in DOMAIN keys)
             THEN keys' = With(keys, proc[p].key, row) ELSE keys' = keys
      BY <1>0, <1>6 DEF Complete, Busy, Own
    <2> HIDE DEF row
    <2>2. CASE proc[p].found = (proc[p].key \in DOMAIN keys)
      <3>1. k # proc[p].key
        BY <1>1, <2>1, <2>2 DEF With
      <3>2. k \in DOMAIN keys /\ keys'[k] = keys[k]
        BY <1>1, <2>1, <2>2, <3>1 DEF With
      <3> QED BY <1>1, <1>3, <3>1, <3>2 DEF Settles
    <2>3. CASE ~(proc[p].found = (proc[p].key \in DOMAIN keys))
      <3>1. keys' = keys
        BY <2>1, <2>3
      <3>2. ~Settles(p, k)
        <4>1. proc[p].found \in BOOLEAN
          BY <1>0 DEF Local
        <4>2. k = proc[p].key => proc[p].key \in DOMAIN keys
          BY <1>1, <3>1
        <4>3. k = proc[p].key => ~proc[p].found
          BY <2>3, <4>1, <4>2
        <4> QED BY <2>1, <4>3 DEF Settles
      <3> QED BY <1>1, <1>3, <3>1, <3>2
    <2> QED BY <2>2, <2>3
  <1>7. CASE AskApproval(p)
    <2>1. /\ answered' = With(answered, proc[p].call, [what |-> "pending",
                                  key |-> proc[p].key, call |-> proc[p].call])
          /\ keys' = keys
      BY <1>7 DEF AskApproval, Answer, AnswerOf
    <2>3. CASE k = proc[p].key
      <3>1. proc[p].call \in DOMAIN answered'
        BY <2>1 DEF With
      <3>2. answered'[proc[p].call].what = "pending"
            /\ answered'[proc[p].call].key = proc[p].key
        BY <2>1 DEF With
      <3> QED BY <2>3, <3>1, <3>2 DEF Pending
    <2>4. CASE k # proc[p].key
      BY <1>1, <1>3, <2>1, <2>4 DEF Settles
    <2> QED BY <2>3, <2>4
  <1>8. CASE Refuse(p) \/ Run(p)
    <2>1. keys' = keys /\ proc'[p].pc = "complete" /\ proc'[p].key = proc[p].key
      BY <1>0, <1>8 DEF Refuse, Run, Local
    <2> QED BY <1>1, <1>3, <2>1 DEF Settles
  <1>9. CASE FindRow(p)
    <2>1. keys' = keys /\ proc'[p].pc = "write"
      BY <1>0, <1>9 DEF FindRow, Local
    <2>2. proc'[p].key = proc[p].key /\ proc'[p].found = (proc[p].key \in DOMAIN keys)
      BY <2>1, WriterChanges
    <2>3. k = proc[p].key => Settles(p, k)'
      BY <1>1, <2>1, <2>2 DEF Settles
    <2>4. k # proc[p].key => ~Settles(p, k)
      BY DEF Settles
    <2> QED BY <1>1, <1>3, <2>1, <2>3, <2>4
  <1>10. CASE \/ \E request \in Requests, key \in Keys : Request(p, request, key)
              \/ Authorize(p) \/ Count(p) \/ Admit(p) \/ Look(p) \/ Insert(p)
    <2>1. keys' = keys
      BY <1>10 DEF Request, Authorize, Count, Admit, Look, Insert
    <2>2. ~Settles(p, k)
      BY <1>10 DEF Request, Authorize, Count, Admit, Look, Insert, Settles
    <2> QED BY <1>1, <1>3, <2>1, <2>2
  <1> QED BY <1>2, <1>4, <1>5, <1>6, <1>7, <1>8, <1>9, <1>10 DEF Acts

\* SqlAlchemyIdempotencyStore.complete, and the decision to ask for an approval: for any
\* number of handlers, keys, calls and crashes, what a run left under its key stays until
\* the row is removed, and a key that stays blocked has an approval or a crash behind it.
THEOREM KeysAreExplained == Spec => []KeysExplained
  <1>1. Init => RowsInv
    <2> SUFFICES ASSUME Init PROVE RowsInv
      OBVIOUS
    <2>1. \A p \in Procs : proc[p].pc = "idle"
      BY IdleType DEF Init
    <2>2. DOMAIN ran = {} /\ DOMAIN keys = {}
      BY DEF Init
    <2> QED BY <2>1, <2>2, KeyInit DEF RowsInv, WrittenInv, OpenInv
  <1>2. RowsInv /\ ActsForToken /\ [Next]_vars => RowsInv' /\ ActsForToken'
    <2> SUFFICES ASSUME RowsInv, ActsForToken, [Next]_vars PROVE RowsInv' /\ ActsForToken'
      OBVIOUS
    <2>1. BaseInv' /\ KeyInv' /\ ActsForToken'
      BY BaseStep, KeyStep DEF RowsInv
    <2>2. ASSUME NEW p \in Procs, Acts(p) PROVE WrittenInv' /\ OpenInv'
      BY <2>1, <2>2, WrittenStep, OpenStep
    <2>3. ASSUME UNCHANGED <<proc, keys, ran, removed, crashed, answered>>
          PROVE  WrittenInv' /\ OpenInv'
      BY <2>3 DEF RowsInv, WrittenInv, OpenInv, Pending, Settles
    <2>4. Tick \/ UNCHANGED vars => UNCHANGED <<proc, keys, ran, removed, crashed, answered>>
      BY DEF Tick, callHistory, vars
    <2> QED BY <2>1, <2>2, <2>3, <2>4, Steps DEF RowsInv
  <1>3. RowsInv => KeysExplained
    <2> SUFFICES ASSUME RowsInv PROVE KeysExplained
      OBVIOUS
    <2>1. ASSUME NEW c \in DOMAIN ran \ crashed, c \in DOMAIN answered,
                 ran[c].key \notin removed
          PROVE  ran[c].key \in DOMAIN keys /\ keys[ran[c].key].response # 0
      <3>1. ~\E p \in Procs : proc[p].pc \in {"complete", "write"} /\ proc[p].call = c
        BY <2>1 DEF RowsInv, BaseInv, CallsOwn, Busy, Own
      <3> QED BY <2>1, <3>1 DEF RowsInv, WrittenInv, KeyInv, RunInv
    <2>2. ASSUME NEW k \in DOMAIN keys, keys[k].status \notin Final, InFlight(k) = {},
                 crashed = {}
          PROVE  Pending(k)
      BY <2>2 DEF RowsInv, OpenInv, Settles, InFlight
    <2> QED BY <2>1, <2>2 DEF KeysExplained, Pending
  <1>4. Init => ActsForToken
    BY KeyInit
  <1> QED BY <1>1, <1>2, <1>3, <1>4, PTL DEF Spec
=============================================================================
