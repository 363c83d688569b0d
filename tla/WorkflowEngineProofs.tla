------------------------ MODULE WorkflowEngineProofs ------------------------
(***************************************************************************)
(* Proofs about WorkflowEngine for every workflow, any number of handlers  *)
(* and requests, and whatever the gateway answers.  The executor never     *)
(* compares versions, so each invariant speaks of every copy of the        *)
(* workflow at once: the stored one and the one of each handler.           *)
(***************************************************************************)
EXTENDS WorkflowEngine, FiniteSetTheorems, TLAPS

\* The steps of an attempt once it was counted.
Counted == {"bind", "call", "settle", "retry", "compensate", "undo", "undone"}

\* A handler may still start node n.
MayStart(h, n) ==
    /\ pc[h] # "idle"
    /\ mine[h].node[n] \notin Settled
    /\ ~(n = cur[h] /\ pc[h] \in Counted)

\* Every attempt belongs to a request of its own: what is counted anywhere is at
\* most the number of requests, and less in a handler that may still start the node.
AttemptsInv ==
    /\ \A n \in Nodes : saved.attempts[n] <= requests
    /\ \A h \in Handlers, n \in Nodes : mine[h].attempts[n] <= requests
    /\ \A h \in Handlers : pc[h] # "idle" => requests # 0
    /\ \A h \in Handlers, n \in Nodes : MayStart(h, n) => mine[h].attempts[n] < requests
    /\ \A h \in Handlers :
        pc[h] \in {"queued", "policy", "begin"} => mine[h].node[cur[h]] = "READY"

\* The events tell what workflow w says: of its own status and of its nodes.
Announced(w, events) ==
    /\ w.status \in {"COMPLETED", "FAILED"} => <<"workflow.completed", w.status>> \in events
    /\ \A n \in Nodes :
        /\ w.node[n] = "SUCCEEDED" => <<"workflow.node.succeeded", n>> \in events
        /\ w.node[n] = "SKIPPED" => <<"workflow.node.skipped", n>> \in events
        /\ w.node[n] = "WAITING_APPROVAL" => <<"workflow.approval.required", n>> \in events
        /\ w.node[n] = "COMPENSATED" => <<"workflow.compensation.completed", n>> \in events

\* The events tell that node n was dealt with.
DealtWith(n, events) ==
    \/ <<"workflow.node.succeeded", n>> \in events
    \/ <<"workflow.node.skipped", n>> \in events
    \/ <<"workflow.compensation.completed", n>> \in events

\* Every copy of the workflow was announced, and what a handler takes for completed.
AnnouncedInv ==
    /\ Announced(saved, outbox)
    /\ \A h \in Handlers : Announced(mine[h], outbox)
    /\ \A h \in Handlers : \A n \in completed[h] : DealtWith(n, outbox)
    /\ \A h \in Handlers :
        pc[h] \in {"queued", "policy", "begin", "bind", "call"} => DependsOn[cur[h]] \subseteq completed[h]

\* A workflow that says it is completed has nothing left to do and nothing failed.
Done(w) == w.status = "COMPLETED" => \A n \in Nodes : w.node[n] \in Completed \cup {"CANCELLED"}

\* Every copy of the workflow is Done, and what a run relies on to keep it so.
DoneInv ==
    /\ Done(saved)
    /\ \A h \in Handlers : Done(mine[h])
    /\ \A h \in Handlers : pc[h] \notin {"idle", "cancel", "save", "start"} => mine[h].status = "RUNNING"
    /\ \A h \in Handlers : pc[h] = "finish" => \E n \in Nodes : mine[h].node[n] \in Failing

\* A key that replays a success, and an answer that reports one, stand for an effect.
SuccessInv ==
    /\ \A n \in Nodes, a \in Attempts : keys[n][a] = "ok" => effects[n] > 0
    /\ \A h \in Handlers : pc[h] = "settle" /\ answer[h] = "ok" => effects[cur[h]] > 0
    /\ \A n \in Nodes : <<"workflow.node.succeeded", n>> \in outbox => effects[n] > 0
----------------------------------------------------------------------------
(* copies of the workflow *)

\* _replace_nodes with one node changed leaves the rest of the workflow alone.
LEMMA WithNode ==
    ASSUME mine \in [Handlers -> Workflow], NEW h \in Handlers, NEW n \in Nodes, NEW s \in NodeStatus
    PROVE  /\ With(h, n, s) \in Workflow
           /\ With(h, n, s).node = [mine[h].node EXCEPT ![n] = s]
           /\ With(h, n, s).status = mine[h].status
           /\ With(h, n, s).attempts = mine[h].attempts
           /\ With(h, n, s).approval = mine[h].approval
BY DEF With, Workflow

\* What a save leaves behind: the stored workflow is the handler's, and the copies
\* of the others are as they were.
LEMMA Saving ==
    ASSUME mine \in [Handlers -> Workflow], NEW h \in Handlers, NEW w \in Workflow, Save(h, w)
    PROVE  /\ saved' = w
           /\ mine' \in [Handlers -> Workflow]
           /\ mine'[h] = w
           /\ \A g \in Handlers \ {h} : mine'[g] = mine[g]
BY DEF Save

\* A handler that goes from one step to another leaves the others where they are.
LEMMA Going ==
    ASSUME pc \in [Handlers -> Steps], NEW h \in Handlers, NEW from, NEW to \in Steps, Goto(h, from, to)
    PROVE  /\ pc' \in [Handlers -> Steps]
           /\ pc[h] = from
           /\ pc'[h] = to
           /\ \A g \in Handlers \ {h} : pc'[g] = pc[g]
BY DEF Goto

\* _checkpoint of a well-formed copy changes nothing but the two copies and the outbox.
LEMMA Checkpointing ==
    ASSUME TypeOK, NEW h \in Handlers, NEW w \in Workflow, NEW event, Checkpoint(h, w, event)
    PROVE  /\ saved' = w /\ mine'[h] = w
           /\ \A g \in Handlers \ {h} : mine'[g] = mine[g]
           /\ mine' \in [Handlers -> Workflow]
           /\ outbox' = outbox \cup {event}
           /\ UNCHANGED <<requests, keys, effects>>
BY Saving DEF Checkpoint, TypeOK, gatewayVars

\* The new copy of Ready: one node in another status and with another approval.
LEMMA WithApproval ==
    ASSUME mine \in [Handlers -> Workflow], NEW h \in Handlers, NEW n \in Nodes, NEW s \in NodeStatus,
           NEW a \in {"none", "held", "queued"}
    PROVE  LET w == [With(h, n, s) EXCEPT !.approval[n] = a] IN
           /\ w \in Workflow
           /\ w.node = [mine[h].node EXCEPT ![n] = s]
           /\ w.status = mine[h].status
           /\ w.attempts = mine[h].attempts
<1> DEFINE u == With(h, n, s)
           w == [u EXCEPT !.approval[n] = a]
<1>1. u \in Workflow /\ u.node = [mine[h].node EXCEPT ![n] = s]
      /\ u.status = mine[h].status /\ u.attempts = mine[h].attempts
  BY WithNode
<1> HIDE DEF u
<1>2. w \in Workflow /\ w.node = u.node /\ w.status = u.status
      /\ w.attempts = u.attempts
  BY <1>1 DEF Workflow
<1>3. w \in Workflow /\ w.node = [mine[h].node EXCEPT ![n] = s] /\ w.status = mine[h].status
      /\ w.attempts = mine[h].attempts
  BY <1>1, <1>2
<1> QED BY <1>3, Zenon DEF u

\* Whatever state a key is in, the gateway leaves a state of keys and an answer.
LEMMA OutcomeType ==
    ASSUME NEW key \in KeyStates, NEW asks \in BOOLEAN, NEW o \in Outcomes(key, asks)
    PROVE  o.key \in KeyStates /\ o.effect \in BOOLEAN /\ o.answer \in Answers
<1>1. ASSUME NEW p \in Handled(key, asks)
      PROVE  p.key \in KeyStates /\ p.effect \in BOOLEAN /\ p.answer \in Answers
  <2> DEFINE Typed(q) == q.key \in KeyStates /\ q.effect \in BOOLEAN /\ q.answer \in Answers
  <2>1. ASSUME NEW k \in KeyStates, NEW e \in BOOLEAN, NEW a \in Answers
        PROVE  Typed(Outcome(k, e, a))
    BY DEF Outcome
  <2> SUFFICES Typed(p)
    OBVIOUS
  <2> HIDE DEF Typed
  <2>2. CASE key = "free" /\ asks
    BY <2>1, <2>2 DEF Handled, KeyStates, Answers
  <2>3. CASE key = "free" /\ ~asks
    BY <2>1, <2>3 DEF Handled, KeyStates, Answers
  <2>4. CASE key # "free"
    <3>1. Replayed(key) \in Answers
      BY <2>4 DEF Replayed, KeyStates, Answers
    <3>2. p = Outcome(key, FALSE, Replayed(key))
      BY <2>4 DEF Handled
    <3> QED BY <2>1, <3>1, <3>2
  <2> QED BY <2>2, <2>3, <2>4
<1> QED BY <1>1 DEF Outcomes, Outcome, Answers

\* So it does when a compensation tool is called.
LEMMA UndoOutcomeType ==
    ASSUME NEW n \in Nodes, NEW key \in KeyStates, NEW approval, NEW o \in UndoOutcomes(n, key, approval)
    PROVE  o.key \in KeyStates /\ o.answer \in Answers
<1>1. CASE n \notin Undoable
  BY <1>1 DEF UndoOutcomes, Outcome, Answers
<1>2. CASE n \in Undoable
  <2>1. o \in Outcomes(key, n \in Governed /\ approval = "none")
    BY <1>2 DEF UndoOutcomes
  <2> QED BY <2>1, OutcomeType
<1> QED BY <1>1, <1>2

\* The step that takes a node up: one node of the copy becomes READY.
LEMMA ReadyMoves ==
    ASSUME TypeOK, NEW h \in Handlers, Ready(h)
    PROVE  \E m \in Nodes, w \in Workflow, to \in {"queued", "policy"} :
               /\ Upcoming(h, m) /\ DepsMet(h, m)
               /\ Goto(h, "scan", to)
               /\ Checkpoint(h, w, <<"workflow.node.ready", m>>)
               /\ w.node = [mine[h].node EXCEPT ![m] = "READY"]
               /\ w.status = mine[h].status /\ w.attempts = mine[h].attempts
               /\ cur' = [cur EXCEPT ![h] = m]
               /\ UNCHANGED <<completed, answer>>
<1>1. mine \in [Handlers -> Workflow] /\ "READY" \in NodeStatus /\ "queued" \in {"none", "held", "queued"}
  BY DEF TypeOK, NodeStatus
<1>2. PICK m \in Nodes :
          \E w \in {With(h, m, "READY"), [With(h, m, "READY") EXCEPT !.approval[m] = "queued"]} :
              /\ Upcoming(h, m) /\ DepsMet(h, m)
              /\ Goto(h, "scan", IF w.approval[m] = "queued" THEN "queued" ELSE "policy")
              /\ Checkpoint(h, w, <<"workflow.node.ready", m>>)
              /\ cur' = [cur EXCEPT ![h] = m]
              /\ UNCHANGED <<completed, answer>>
  BY Zenon DEF Ready
<1>3. PICK w \in {With(h, m, "READY"), [With(h, m, "READY") EXCEPT !.approval[m] = "queued"]} :
              /\ Upcoming(h, m) /\ DepsMet(h, m)
              /\ Goto(h, "scan", IF w.approval[m] = "queued" THEN "queued" ELSE "policy")
              /\ Checkpoint(h, w, <<"workflow.node.ready", m>>)
              /\ cur' = [cur EXCEPT ![h] = m]
              /\ UNCHANGED <<completed, answer>>
  BY <1>2
<1> DEFINE v == [With(h, m, "READY") EXCEPT !.approval[m] = "queued"]
<1>4. v \in Workflow /\ v.node = [mine[h].node EXCEPT ![m] = "READY"]
      /\ v.status = mine[h].status /\ v.attempts = mine[h].attempts
  BY <1>1, WithApproval, Zenon
<1>5. With(h, m, "READY") \in Workflow /\ With(h, m, "READY").node = [mine[h].node EXCEPT ![m] = "READY"]
      /\ With(h, m, "READY").status = mine[h].status /\ With(h, m, "READY").attempts = mine[h].attempts
  BY <1>1, WithNode
<1>6. w \in Workflow /\ w.node = [mine[h].node EXCEPT ![m] = "READY"]
      /\ w.status = mine[h].status /\ w.attempts = mine[h].attempts
  BY <1>3, <1>4, <1>5, Zenon
<1>7. PICK to \in {"queued", "policy"} : Goto(h, "scan", to)
  BY <1>3
<1> QED BY <1>3, <1>6, <1>7

\* The step that starts an attempt: one node of the copy runs, and its attempts are
\* one more.
LEMMA BeginMoves ==
    ASSUME WorkflowAssumption, TypeOK, AttemptsInv, NEW h \in Handlers, Begin(h)
    PROVE  \E w \in Workflow, to \in {"call", "bind", "settle"} :
               /\ Goto(h, "begin", to)
               /\ Checkpoint(h, w, <<"workflow.node.started", cur[h]>>)
               /\ w.node = [mine[h].node EXCEPT ![cur[h]] = "RUNNING"]
               /\ w.status = mine[h].status
               /\ w.attempts = [mine[h].attempts EXCEPT ![cur[h]] = mine[h].attempts[cur[h]] + 1]
               /\ to = "settle" => answer'[h] = "error"
               /\ answer' \in [Handlers -> Answers]
               /\ \A g \in Handlers \ {h} : answer'[g] = answer[g]
               /\ UNCHANGED <<cur, completed>>
<1> DEFINE n == cur[h]
           u == With(h, n, "RUNNING")
           k == mine[h].attempts[n] + 1
<1>1. mine \in [Handlers -> Workflow] /\ "RUNNING" \in NodeStatus /\ n \in Nodes /\ k \in 0 .. MaxRequests
  <2>1. pc[h] = "begin" /\ n \in Nodes /\ mine[h] \in Workflow
    BY DEF Begin, Goto, TypeOK
  <2>2. mine[h].node[n] = "READY" /\ mine[h].attempts[n] \in Nat
    BY <2>1 DEF AttemptsInv, Workflow
  <2>3. mine[h].attempts[n] < requests /\ requests \in 0 .. MaxRequests
    BY <2>1, <2>2 DEF AttemptsInv, MayStart, Settled, Completed, Counted, TypeOK
  <2> QED BY <2>1, <2>2, <2>3 DEF WorkflowAssumption, TypeOK, NodeStatus
<1>2. u \in Workflow /\ u.node = [mine[h].node EXCEPT ![n] = "RUNNING"]
      /\ u.status = mine[h].status /\ u.attempts = mine[h].attempts
  BY <1>1, WithNode
<1>3. PICK a \in {"none", "held"} : a = (IF u.approval[n] = "none" THEN "none" ELSE "held")
  OBVIOUS
<1> DEFINE w == [u EXCEPT !.attempts[n] = k, !.approval[n] = a]
<1>4. w = [u EXCEPT !.attempts[n] = NextAttempt(@), !.approval[n] = IF @ = "none" THEN "none" ELSE "held"]
  BY <1>2, <1>3 DEF NextAttempt
<1>5. Checkpoint(h, w, <<"workflow.node.started", n>>)
  BY <1>4, Zenon DEF Begin
<1> HIDE DEF u
<1>6. w \in Workflow /\ w.node = [mine[h].node EXCEPT ![n] = "RUNNING"] /\ w.status = mine[h].status
      /\ w.attempts = [mine[h].attempts EXCEPT ![n] = k]
  <2>1. a \in {"none", "held", "queued"}
    BY <1>3
  <2> QED BY <1>1, <1>2, <2>1 DEF Workflow
<1> HIDE DEF w
<1>7. PICK to \in {"call", "bind", "settle"} : Goto(h, "begin", to) /\ (to = "settle" => answer'[h] = "error")
      /\ answer' \in [Handlers -> Answers] /\ \A g \in Handlers \ {h} : answer'[g] = answer[g]
  BY DEF Begin, TypeOK, Answers
<1>8. UNCHANGED <<cur, completed>>
  BY DEF Begin
<1> QED BY <1>5, <1>6, <1>7, <1>8

\* The step that waits for an approval: the node waits, and the workflow with it.
LEMMA WaitMoves ==
    ASSUME TypeOK, NEW h \in Handlers, Wait(h)
    PROVE  \E w \in Workflow :
               /\ Goto(h, "settle", "idle")
               /\ Checkpoint(h, w, <<"workflow.approval.required", cur[h]>>)
               /\ w.node = [mine[h].node EXCEPT ![cur[h]] = "WAITING_APPROVAL"]
               /\ w.status = "WAITING_APPROVAL" /\ w.attempts = mine[h].attempts
               /\ NodeStep
<1> DEFINE n == cur[h]
           u == With(h, n, "WAITING_APPROVAL")
           w == [u EXCEPT !.status = "WAITING_APPROVAL", !.approval[n] = "held"]
<1>1. "WAITING_APPROVAL" \in NodeStatus /\ "WAITING_APPROVAL" \in WorkflowStatus
      /\ mine \in [Handlers -> Workflow] /\ n \in Nodes
  BY DEF NodeStatus, WorkflowStatus, TypeOK
<1>2. u \in Workflow /\ u.node = [mine[h].node EXCEPT ![n] = "WAITING_APPROVAL"]
      /\ u.attempts = mine[h].attempts
  BY <1>1, WithNode
<1>3. Goto(h, "settle", "idle") /\ Checkpoint(h, w, <<"workflow.approval.required", n>>) /\ NodeStep
  BY Zenon DEF Wait
<1> HIDE DEF u
<1>4. w \in Workflow /\ w.node = u.node /\ w.status = "WAITING_APPROVAL" /\ w.attempts = u.attempts
  BY <1>1, <1>2 DEF Workflow
<1> HIDE DEF w
<1> QED BY <1>2, <1>3, <1>4

----------------------------------------------------------------------------
(* types *)

\* The step of one handler: it leaves the locals of the others alone, may replace
\* the stored workflow by its own copy, and only adds to the outbox.
HandlerMoves(h) ==
    /\ requests' = requests
    /\ outbox \subseteq outbox'
    /\ saved' \in {saved, mine'[h]}
    /\ \A g \in Handlers \ {h} :
        /\ pc'[g] = pc[g] /\ mine'[g] = mine[g] /\ cur'[g] = cur[g]
        /\ completed'[g] = completed[g] /\ answer'[g] = answer[g]

\* A checkpoint of a well-formed copy keeps the types of all it touches.
LEMMA CheckpointType ==
    ASSUME TypeOK, NEW h \in Handlers, NEW w \in Workflow, NEW event, Checkpoint(h, w, event),
           NEW from, NEW to \in Steps, Goto(h, from, to)
    PROVE  /\ saved' \in Workflow /\ mine' \in [Handlers -> Workflow] /\ pc' \in [Handlers -> Steps]
           /\ saved' = mine'[h] /\ mine'[h] = w /\ outbox \subseteq outbox'
           /\ pc[h] = from /\ pc'[h] = to
           /\ \A g \in Handlers \ {h} : mine'[g] = mine[g] /\ pc'[g] = pc[g]
           /\ UNCHANGED <<requests, keys, effects>>
<1>1. pc \in [Handlers -> Steps]
  BY DEF TypeOK
<1> QED BY <1>1, Going, Checkpointing

\* A checkpoint with which a handler changes no more than its place.
LEMMA PlainCheckpoint ==
    ASSUME TypeOK, NEW h \in Handlers, NEW w \in Workflow, NEW event, Checkpoint(h, w, event),
           NEW from, NEW to \in Steps, Goto(h, from, to), NodeStep
    PROVE  TypeOK' /\ HandlerMoves(h)
BY CheckpointType DEF TypeOK, HandlerMoves, NodeStep

\* The steps of a run keep the types, whatever the gateway, the policy and the
\* conditions answer.
LEMMA RunType ==
    ASSUME WorkflowAssumption, TypeOK, AttemptsInv, NEW h \in Handlers, Run(h)
    PROVE  TypeOK' /\ HandlerMoves(h)
<1> DEFINE n == cur[h]
<1>1. n \in Nodes /\ mine \in [Handlers -> Workflow] /\ mine[h] \in Workflow
      /\ pc \in [Handlers -> Steps] /\ pc[h] \in Steps
  BY DEF TypeOK
<1>2. CASE SaveRequest(h)
  <2>1. PICK to \in {"idle", "start"} : Goto(h, "cancel", to) \/ Goto(h, "save", to)
    BY <1>2 DEF SaveRequest
  <2>2. Save(h, mine[h]) /\ UNCHANGED <<cur, completed, answer, outbox, requests, keys, effects>>
    BY <1>2 DEF SaveRequest, NodeStep, gatewayVars
  <2>3. to \in Steps
    BY DEF Steps
  <2>4. saved' = mine[h] /\ mine' \in [Handlers -> Workflow] /\ mine'[h] = mine[h]
        /\ \A g \in Handlers \ {h} : mine'[g] = mine[g]
    BY <1>1, <2>2, Saving
  <2>5. pc' \in [Handlers -> Steps] /\ \A g \in Handlers \ {h} : pc'[g] = pc[g]
    BY <1>1, <2>1, <2>3, Going
  <2> QED BY <1>1, <2>2, <2>4, <2>5 DEF TypeOK, HandlerMoves
<1>3. CASE Start(h)
  <2>1. [mine[h] EXCEPT !.status = "RUNNING"] \in Workflow
    BY <1>1 DEF Workflow, WorkflowStatus
  <2>2. Goto(h, "start", "scan") /\ "scan" \in Steps
        /\ Checkpoint(h, [mine[h] EXCEPT !.status = "RUNNING"], <<"workflow.started", 0>>)
    BY <1>3 DEF Start, Steps
  <2> QED BY <1>3, <2>1, <2>2, CheckpointType DEF Start, TypeOK, HandlerMoves
<1>4. CASE NotDue(h)
  BY <1>1, <1>4, Going DEF NotDue, TypeOK, HandlerMoves, NodeStep, gatewayVars, Steps
<1>5. CASE Block(h)
  <2>1. PICK m \in Nodes : /\ Goto(h, "scan", "scan") /\ NodeStep
                           /\ Checkpoint(h, With(h, m, "BLOCKED"), <<"workflow.node.blocked", m>>)
    BY <1>5 DEF Block
  <2> QED BY <1>1, <2>1, WithNode, PlainCheckpoint DEF NodeStatus, Steps
<1>6. CASE ConditionFails(h)
  <2>1. PICK m \in Nodes : /\ Goto(h, "scan", "finish") /\ NodeStep
                           /\ Checkpoint(h, With(h, m, "BLOCKED"), <<"workflow.node.failed", m>>)
    BY <1>6 DEF ConditionFails, WorkflowAssumption
  <2> QED BY <1>1, <2>1, WithNode, PlainCheckpoint DEF NodeStatus, Steps
<1>7. CASE Skip(h)
  <2>1. PICK m \in Nodes : /\ Goto(h, "scan", "scan") /\ NodeStep
                           /\ Checkpoint(h, With(h, m, "SKIPPED"), <<"workflow.node.skipped", m>>)
    BY <1>7 DEF Skip, WorkflowAssumption
  <2> QED BY <1>1, <2>1, WithNode, PlainCheckpoint DEF NodeStatus, Steps
<1>8. CASE Ready(h)
  <2>1. PICK m \in Nodes, w \in Workflow, to \in {"queued", "policy"} :
            /\ Upcoming(h, m) /\ DepsMet(h, m)
            /\ Goto(h, "scan", to)
            /\ Checkpoint(h, w, <<"workflow.node.ready", m>>)
            /\ w.node = [mine[h].node EXCEPT ![m] = "READY"]
            /\ w.status = mine[h].status /\ w.attempts = mine[h].attempts
            /\ cur' = [cur EXCEPT ![h] = m]
            /\ UNCHANGED <<completed, answer>>
    BY <1>8, ReadyMoves, Zenon
  <2>2. to \in Steps
    BY DEF Steps
  <2> QED BY <2>1, <2>2, CheckpointType DEF TypeOK, HandlerMoves
<1>9. CASE Queue(h)
  BY <1>1, <1>9, PlainCheckpoint DEF Queue, Steps
<1>10. CASE EvaluatePolicy(h)
  <2>1. PICK verdict \in {"READY", "DENIED", "BLOCKED"} :
            /\ Goto(h, "policy", IF verdict = "READY" THEN "begin" ELSE "refuse") /\ NodeStep
            /\ Checkpoint(h, With(h, n, verdict), <<"workflow.node.policy_evaluated", n>>)
    BY <1>10 DEF EvaluatePolicy
  <2>2. PICK to \in {"begin", "refuse"} : Goto(h, "policy", to)
    BY <2>1
  <2> QED BY <1>1, <2>1, <2>2, WithNode, PlainCheckpoint DEF NodeStatus, Steps
<1>11. CASE Refuse(h)
  BY <1>1, <1>11, PlainCheckpoint DEF Refuse, Steps
<1>12. CASE Begin(h)
  <2>3. PICK w \in Workflow, to \in {"call", "bind", "settle"} :
            /\ Goto(h, "begin", to) /\ Checkpoint(h, w, <<"workflow.node.started", n>>)
            /\ answer' \in [Handlers -> Answers] /\ \A g \in Handlers \ {h} : answer'[g] = answer[g]
            /\ UNCHANGED <<cur, completed>>
    BY <1>12, BeginMoves
  <2>4. to \in Steps
    BY DEF Steps
  <2> QED BY <2>3, <2>4, CheckpointType DEF TypeOK, HandlerMoves
<1>13. CASE Bind(h)
  BY <1>1, <1>13, PlainCheckpoint DEF Bind, Steps
<1>14. CASE Call(h)
  <2> DEFINE key == keys[n][Attempt(h)]
             asks == n \in Governed /\ mine[h].approval[n] = "none"
  <2>1. pc[h] = "call" /\ Attempt(h) \in Attempts /\ key \in KeyStates
    <3>1. pc[h] = "call" /\ mine[h].attempts[n] \in 0 .. MaxRequests /\ MaxRequests \in Nat
      BY <1>1, <1>14 DEF Call, Goto, Workflow, WorkflowAssumption
    <3>2. requests # 0 /\ requests \in 0 .. MaxRequests
      BY <3>1 DEF AttemptsInv, TypeOK
    <3>3. Attempt(h) \in Attempts
      BY <3>1, <3>2 DEF Attempt, Attempts
    <3> QED BY <1>1, <3>1, <3>3 DEF TypeOK
  <2>2. PICK o \in Outcomes(key, asks) :
            /\ Goto(h, "call", "settle")
            /\ keys' = [keys EXCEPT ![n][Attempt(h)] = o.key]
            /\ effects' = [effects EXCEPT ![n] = IF o.effect THEN @ + 1 ELSE @]
            /\ answer' = [answer EXCEPT ![h] = o.answer]
            /\ UNCHANGED <<saved, outbox, requests, mine, cur, completed>>
    BY <1>14 DEF Call
  <2>3. o.key \in KeyStates /\ o.answer \in Answers
    BY <2>1, <2>2, OutcomeType
  <2>4. effects' \in [Nodes -> Nat] /\ keys' \in [Nodes -> [Attempts -> KeyStates]]
    BY <1>1, <2>1, <2>2, <2>3 DEF TypeOK
  <2>5. pc' \in [Handlers -> Steps] /\ \A g \in Handlers \ {h} : pc'[g] = pc[g]
    BY <1>1, <2>2, Going DEF Steps
  <2>6. answer' \in [Handlers -> Answers] /\ \A g \in Handlers \ {h} : answer'[g] = answer[g]
    BY <2>2, <2>3 DEF TypeOK
  <2> QED BY <2>2, <2>4, <2>5, <2>6 DEF TypeOK, HandlerMoves
<1>15. CASE Wait(h)
  <2>1. PICK w \in Workflow :
            /\ Goto(h, "settle", "idle") /\ NodeStep
            /\ Checkpoint(h, w, <<"workflow.approval.required", n>>)
    BY <1>15, WaitMoves
  <2> QED BY <2>1, PlainCheckpoint DEF Steps
<1>16. CASE Succeed(h)
  <2>1. With(h, n, "SUCCEEDED") \in Workflow
    BY <1>1, WithNode DEF NodeStatus
  <2>2. completed' \in [Handlers -> SUBSET Nodes] /\ UNCHANGED <<cur, answer>>
        /\ \A g \in Handlers \ {h} : completed'[g] = completed[g]
    BY <1>1, <1>16 DEF Succeed, TypeOK
  <2>3. Goto(h, "settle", "scan") /\ "scan" \in Steps
        /\ Checkpoint(h, With(h, n, "SUCCEEDED"), <<"workflow.node.succeeded", n>>)
    BY <1>16 DEF Succeed, Steps
  <2> QED BY <2>1, <2>2, <2>3, CheckpointType DEF TypeOK, HandlerMoves
<1>17. CASE Fail(h)
  <2>1. PICK to \in {"retry", "compensate", "finish"} : Goto(h, "settle", to)
    BY <1>17 DEF Fail
  <2> QED BY <1>1, <1>17, <2>1, WithNode, PlainCheckpoint DEF Fail, NodeStatus, Steps
<1>18. CASE ScheduleRetry(h)
  BY <1>1, <1>18, WithNode, PlainCheckpoint DEF ScheduleRetry, NodeStatus, Steps
<1>19. CASE Compensate(h)
  BY <1>1, <1>19, WithNode, PlainCheckpoint DEF Compensate, NodeStatus, Steps
<1>20. CASE Undo(h)
  <2>1. pc[h] = "undo" /\ Attempt(h) \in Attempts /\ keys[n][Attempt(h)] \in KeyStates
    <3>1. pc[h] = "undo" /\ mine[h].attempts[n] \in 0 .. MaxRequests /\ MaxRequests \in Nat
      BY <1>1, <1>20 DEF Undo, Goto, Workflow, WorkflowAssumption
    <3>2. requests # 0 /\ requests \in 0 .. MaxRequests
      BY <3>1 DEF AttemptsInv, TypeOK
    <3>3. Attempt(h) \in Attempts
      BY <3>1, <3>2 DEF Attempt, Attempts
    <3> QED BY <1>1, <3>1, <3>3 DEF TypeOK
  <2>2. PICK o \in UndoOutcomes(n, keys[n][Attempt(h)], mine[h].approval[n]) :
            /\ Goto(h, "undo", "undone") \/ Goto(h, "undo", "idle")
            /\ keys' = [keys EXCEPT ![n][Attempt(h)] = o.key]
            /\ answer' = [answer EXCEPT ![h] = o.answer]
            /\ UNCHANGED <<saved, outbox, requests, mine, cur, completed, effects>>
    BY <1>20 DEF Undo
  <2>3. o.key \in KeyStates /\ o.answer \in Answers
    BY <1>1, <2>1, <2>2, UndoOutcomeType
  <2>4. keys' \in [Nodes -> [Attempts -> KeyStates]]
    BY <1>1, <2>1, <2>2, <2>3 DEF TypeOK
  <2>5. pc' \in [Handlers -> Steps] /\ \A g \in Handlers \ {h} : pc'[g] = pc[g]
    BY <1>1, <2>2, Going DEF Steps
  <2>6. answer' \in [Handlers -> Answers] /\ \A g \in Handlers \ {h} : answer'[g] = answer[g]
    BY <2>2, <2>3 DEF TypeOK
  <2> QED BY <2>2, <2>4, <2>5, <2>6 DEF TypeOK, HandlerMoves
<1>21. CASE Compensated(h)
  <2>1. With(h, n, "COMPENSATED") \in Workflow
    BY <1>1, WithNode DEF NodeStatus
  <2>2. completed' \in [Handlers -> SUBSET Nodes] /\ UNCHANGED <<cur, answer>>
        /\ \A g \in Handlers \ {h} : completed'[g] = completed[g]
    BY <1>1, <1>21 DEF Compensated, TypeOK
  <2>3. Goto(h, "undone", "scan") /\ "scan" \in Steps
        /\ Checkpoint(h, With(h, n, "COMPENSATED"), <<"workflow.compensation.completed", n>>)
    BY <1>21 DEF Compensated, Steps
  <2> QED BY <2>1, <2>2, <2>3, CheckpointType DEF TypeOK, HandlerMoves
<1>22. CASE NotCompensated(h)
  BY <1>1, <1>22, WithNode, PlainCheckpoint DEF NotCompensated, NodeStatus, Steps
<1>23. CASE Finish(h)
  <2>1. [mine[h] EXCEPT !.status = FinalStatus(mine[h])] \in Workflow
    BY <1>1 DEF Workflow, WorkflowStatus, FinalStatus
  <2>2. PICK from : Goto(h, from, "idle")
    BY <1>23 DEF Finish
  <2> QED BY <1>23, <2>1, <2>2, PlainCheckpoint DEF Finish, Steps
<1> QED BY <1>2, <1>3, <1>4, <1>5, <1>6, <1>7, <1>8, <1>9, <1>10, <1>11, <1>12, <1>13, <1>14, <1>15,
           <1>16, <1>17, <1>18, <1>19, <1>20, <1>21, <1>22, <1>23 DEF Run

----------------------------------------------------------------------------
(* what a step of a run does *)

\* Handler h goes from one step to another and saves a copy that has a new status of
\* node n and no other change; its event is stored with it.
Writes(h, from, to, n, status, event) ==
    /\ pc[h] = from /\ pc'[h] = to
    /\ saved' = mine'[h] /\ outbox' = outbox \cup {<<event, n>>}
    /\ mine'[h].node = [mine[h].node EXCEPT ![n] = status]
    /\ mine'[h].status = mine[h].status
    /\ mine'[h].attempts = mine[h].attempts
    /\ UNCHANGED <<requests, keys, effects, cur, answer>>

\* The same with the copy as it is.
WritesSame(h, from, to) ==
    /\ pc[h] = from /\ pc'[h] = to
    /\ saved' = mine'[h] /\ outbox \subseteq outbox' 
    /\ outbox' \ outbox \subseteq {"workflow.approval.execution_queued", "workflow.node.failed",
                                   "workflow.node.arguments_bound"} \X Nodes
    /\ mine'[h] = mine[h]
    /\ UNCHANGED <<requests, keys, effects, cur, answer, completed>>

\* The same with another status of the workflow.
WritesStatus(h, from, to, status, event) ==
    /\ pc[h] = from /\ pc'[h] = to
    /\ saved' = mine'[h] /\ outbox' = outbox \cup {event}
    /\ mine'[h].node = mine[h].node
    /\ mine'[h].status = status
    /\ mine'[h].attempts = mine[h].attempts
    /\ UNCHANGED <<requests, keys, effects, cur, answer>>

\* A checkpoint of a copy with one changed node is such a step.
LEMMA NodeWrite ==
    ASSUME TypeOK, NEW h \in Handlers, NEW n \in Nodes, NEW s \in NodeStatus, NEW event,
           Checkpoint(h, With(h, n, s), <<event, n>>), NEW from, NEW to \in Steps, Goto(h, from, to),
           UNCHANGED <<cur, answer>>
    PROVE  Writes(h, from, to, n, s, event)
<1>1. mine \in [Handlers -> Workflow] /\ pc \in [Handlers -> Steps]
  BY DEF TypeOK
<1>2. /\ With(h, n, s) \in Workflow
      /\ With(h, n, s).node = [mine[h].node EXCEPT ![n] = s]
      /\ With(h, n, s).status = mine[h].status
      /\ With(h, n, s).attempts = mine[h].attempts
  BY <1>1, WithNode
<1>3. mine'[h] = With(h, n, s) /\ saved' = With(h, n, s) /\ outbox' = outbox \cup {<<event, n>>}
      /\ UNCHANGED <<requests, keys, effects>>
  BY <1>2, Checkpointing
<1>4. pc[h] = from /\ pc'[h] = to
  BY <1>1, Going
<1> QED BY <1>2, <1>3, <1>4 DEF Writes

\* A checkpoint of the copy as it is.
LEMMA SameWrite ==
    ASSUME TypeOK, NEW h \in Handlers, NEW n \in Nodes,
           NEW event \in {"workflow.approval.execution_queued", "workflow.node.failed",
                          "workflow.node.arguments_bound"},
           Checkpoint(h, mine[h], <<event, n>>), NEW from, NEW to \in Steps, Goto(h, from, to), NodeStep
    PROVE  WritesSame(h, from, to)
<1>1. mine[h] \in Workflow /\ pc \in [Handlers -> Steps]
  BY DEF TypeOK
<1>2. mine'[h] = mine[h] /\ saved' = mine[h] /\ outbox' = outbox \cup {<<event, n>>}
      /\ UNCHANGED <<requests, keys, effects>>
  BY <1>1, Checkpointing
<1>3. pc[h] = from /\ pc'[h] = to
  BY <1>1, Going
<1> QED BY <1>2, <1>3 DEF WritesSame, NodeStep

\* A checkpoint of the copy with another status of the workflow.
LEMMA StatusWrite ==
    ASSUME TypeOK, NEW h \in Handlers, NEW t \in WorkflowStatus, NEW event,
           Checkpoint(h, [mine[h] EXCEPT !.status = t], event), NEW from, NEW to \in Steps, Goto(h, from, to),
           UNCHANGED <<cur, answer>>
    PROVE  WritesStatus(h, from, to, t, event)
<1>1. mine \in [Handlers -> Workflow] /\ pc \in [Handlers -> Steps] /\ mine[h] \in Workflow
  BY DEF TypeOK
<1>2. /\ [mine[h] EXCEPT !.status = t] \in Workflow
      /\ [mine[h] EXCEPT !.status = t].node = mine[h].node
      /\ [mine[h] EXCEPT !.status = t].status = t
      /\ [mine[h] EXCEPT !.status = t].attempts = mine[h].attempts
  BY <1>1 DEF Workflow
<1>3. /\ mine'[h] = [mine[h] EXCEPT !.status = t] /\ saved' = [mine[h] EXCEPT !.status = t]
      /\ outbox' = outbox \cup {event}
      /\ UNCHANGED <<requests, keys, effects>>
  BY <1>2, Checkpointing
<1>4. pc[h] = from /\ pc'[h] = to
  BY <1>1, Going
<1> QED BY <1>2, <1>3, <1>4 DEF WritesStatus

\* The actions up to the attempt.
LEMMA ScanMoves ==
    ASSUME WorkflowAssumption, TypeOK, NEW h \in Handlers
    PROVE  /\ Start(h) => WritesStatus(h, "start", "scan", "RUNNING", <<"workflow.started", 0>>)
           /\ Block(h) => /\ UNCHANGED completed
                          /\ \E m \in Nodes :
                              Writes(h, "scan", "scan", m, "BLOCKED", "workflow.node.blocked")
           /\ ConditionFails(h) => /\ UNCHANGED completed
                                   /\ \E m \in Nodes :
                                        Writes(h, "scan", "finish", m, "BLOCKED", "workflow.node.failed")
           /\ Skip(h) => /\ UNCHANGED completed
                         /\ \E m \in Nodes : Writes(h, "scan", "scan", m, "SKIPPED", "workflow.node.skipped")
           /\ Queue(h) => WritesSame(h, "queued", "policy")
           /\ EvaluatePolicy(h) =>
                /\ UNCHANGED completed
                /\ \/ Writes(h, "policy", "begin", cur[h], "READY", "workflow.node.policy_evaluated")
                   \/ \E s \in {"DENIED", "BLOCKED"} :
                        Writes(h, "policy", "refuse", cur[h], s, "workflow.node.policy_evaluated")
           /\ Refuse(h) => WritesSame(h, "refuse", "scan")
           /\ Bind(h) => WritesSame(h, "bind", "call")
<1>1. cur[h] \in Nodes /\ Branching \subseteq Nodes
  BY DEF TypeOK, WorkflowAssumption
<1>2. /\ {"scan", "finish", "policy", "refuse", "begin", "call"} \subseteq Steps
      /\ {"BLOCKED", "SKIPPED", "DENIED", "READY"} \subseteq NodeStatus
      /\ "RUNNING" \in WorkflowStatus
  BY DEF Steps, NodeStatus, WorkflowStatus
<1>3. ASSUME Start(h)
      PROVE  WritesStatus(h, "start", "scan", "RUNNING", <<"workflow.started", 0>>)
  <2>1. "scan" \in Steps
    BY <1>2
  <2> QED BY <1>2, <1>3, <2>1, StatusWrite, Zenon DEF Start
<1>4. ASSUME Block(h)
      PROVE  /\ UNCHANGED completed
             /\ \E m \in Nodes : Writes(h, "scan", "scan", m, "BLOCKED", "workflow.node.blocked")
  <2>1. PICK m \in Nodes : /\ Goto(h, "scan", "scan") /\ NodeStep
                           /\ Checkpoint(h, With(h, m, "BLOCKED"), <<"workflow.node.blocked", m>>)
    BY <1>4, Zenon DEF Block
  <2>2. "scan" \in Steps /\ "BLOCKED" \in NodeStatus
    BY <1>2
  <2> QED BY <2>1, <2>2, NodeWrite, Zenon DEF NodeStep
<1>5. ASSUME ConditionFails(h)
      PROVE  /\ UNCHANGED completed
             /\ \E m \in Nodes : Writes(h, "scan", "finish", m, "BLOCKED", "workflow.node.failed")
  <2>1. PICK m \in Branching : /\ Goto(h, "scan", "finish") /\ NodeStep
                               /\ Checkpoint(h, With(h, m, "BLOCKED"), <<"workflow.node.failed", m>>)
    BY <1>5, Zenon DEF ConditionFails
  <2>2. "finish" \in Steps /\ "BLOCKED" \in NodeStatus /\ m \in Nodes
    BY <1>1, <1>2
  <2> QED BY <2>1, <2>2, NodeWrite, Zenon DEF NodeStep
<1>6. ASSUME Skip(h)
      PROVE  /\ UNCHANGED completed
             /\ \E m \in Nodes : Writes(h, "scan", "scan", m, "SKIPPED", "workflow.node.skipped")
  <2>1. PICK m \in Branching : /\ Goto(h, "scan", "scan") /\ NodeStep
                               /\ Checkpoint(h, With(h, m, "SKIPPED"), <<"workflow.node.skipped", m>>)
    BY <1>6, Zenon DEF Skip
  <2>2. "scan" \in Steps /\ "SKIPPED" \in NodeStatus /\ m \in Nodes
    BY <1>1, <1>2
  <2> QED BY <2>1, <2>2, NodeWrite, Zenon DEF NodeStep
<1>7. ASSUME Queue(h)
      PROVE  WritesSame(h, "queued", "policy")
  <2>1. "policy" \in Steps
    BY <1>2
  <2> QED BY <1>1, <1>7, <2>1, SameWrite, Zenon DEF Queue
<1>8. ASSUME EvaluatePolicy(h)
      PROVE  /\ UNCHANGED completed
             /\ \/ Writes(h, "policy", "begin", cur[h], "READY", "workflow.node.policy_evaluated")
                \/ \E s \in {"DENIED", "BLOCKED"} :
                     Writes(h, "policy", "refuse", cur[h], s, "workflow.node.policy_evaluated")
  <2>1. PICK s \in {"READY", "DENIED", "BLOCKED"} :
            /\ Goto(h, "policy", IF s = "READY" THEN "begin" ELSE "refuse") /\ NodeStep
            /\ Checkpoint(h, With(h, cur[h], s), <<"workflow.node.policy_evaluated", cur[h]>>)
    BY <1>8, Zenon DEF EvaluatePolicy
  <2>2. s \in NodeStatus /\ "begin" \in Steps /\ "refuse" \in Steps
    BY <1>2
  <2>3. CASE s = "READY"
    BY <1>1, <2>1, <2>2, <2>3, NodeWrite, Zenon DEF NodeStep
  <2>4. CASE s # "READY"
    <3>1. s \in {"DENIED", "BLOCKED"} /\ Goto(h, "policy", "refuse")
      BY <2>1, <2>4
    <3> QED BY <1>1, <2>1, <2>2, <3>1, NodeWrite, Zenon DEF NodeStep
  <2> QED BY <2>3, <2>4
<1>9. ASSUME Refuse(h)
      PROVE  WritesSame(h, "refuse", "scan")
  <2>1. "scan" \in Steps
    BY <1>2
  <2> QED BY <1>1, <1>9, <2>1, SameWrite, Zenon DEF Refuse
<1>10. ASSUME Bind(h)
       PROVE  WritesSame(h, "bind", "call")
  <2>1. "call" \in Steps
    BY <1>2
  <2> QED BY <1>1, <1>10, <2>1, SameWrite, Zenon DEF Bind
<1> QED BY <1>3, <1>4, <1>5, <1>6, <1>7, <1>8, <1>9, <1>10

\* The actions after the attempt.
LEMMA SettleMoves ==
    ASSUME WorkflowAssumption, TypeOK, NEW h \in Handlers
    PROVE  /\ Succeed(h) => Writes(h, "settle", "scan", cur[h], "SUCCEEDED", "workflow.node.succeeded")
           /\ Fail(h) => /\ UNCHANGED completed
                         /\ \E to \in {"retry", "compensate", "finish"} :
                               Writes(h, "settle", to, cur[h], "FAILED", "workflow.node.failed")
           /\ ScheduleRetry(h) => Writes(h, "retry", "idle", cur[h], "RETRYING", "workflow.node.retrying")
           /\ Compensate(h) =>
                Writes(h, "compensate", "undo", cur[h], "COMPENSATING", "workflow.compensation.started")
           /\ Compensated(h) =>
                Writes(h, "undone", "scan", cur[h], "COMPENSATED", "workflow.compensation.completed")
           /\ NotCompensated(h) =>
                Writes(h, "undone", "finish", cur[h], "FAILED", "workflow.compensation.completed")
           /\ Finish(h) =>
                \E from \in {"scan", "finish"} :
                    WritesStatus(h, from, "idle", FinalStatus(mine[h]),
                                 <<"workflow.completed", FinalStatus(mine[h])>>)
           /\ ScheduleRetry(h) \/ Compensate(h) \/ NotCompensated(h) \/ Finish(h) => UNCHANGED completed
<1>1. cur[h] \in Nodes
  BY DEF TypeOK
<1>2. /\ {"scan", "retry", "compensate", "finish", "idle", "undo"} \subseteq Steps
      /\ {"SUCCEEDED", "FAILED", "RETRYING", "COMPENSATING", "COMPENSATED"} \subseteq NodeStatus
  BY DEF Steps, NodeStatus
<1>3. ASSUME Succeed(h)
      PROVE  Writes(h, "settle", "scan", cur[h], "SUCCEEDED", "workflow.node.succeeded")
  <2>1. "scan" \in Steps /\ "SUCCEEDED" \in NodeStatus
    BY <1>2
  <2> QED BY <1>1, <1>3, <2>1, NodeWrite, Zenon DEF Succeed
<1>4. ASSUME Fail(h)
      PROVE  /\ UNCHANGED completed
             /\ \E to \in {"retry", "compensate", "finish"} :
                   Writes(h, "settle", to, cur[h], "FAILED", "workflow.node.failed")
  <2>1. PICK to \in {"retry", "compensate", "finish"} : Goto(h, "settle", to)
    BY <1>4 DEF Fail
  <2>2. Checkpoint(h, With(h, cur[h], "FAILED"), <<"workflow.node.failed", cur[h]>>) /\ NodeStep
    BY <1>4, Zenon DEF Fail
  <2>3. to \in Steps /\ "FAILED" \in NodeStatus
    BY <1>2
  <2> QED BY <1>1, <2>1, <2>2, <2>3, NodeWrite, Zenon DEF NodeStep
<1>5. ASSUME ScheduleRetry(h)
      PROVE  Writes(h, "retry", "idle", cur[h], "RETRYING", "workflow.node.retrying")
  <2>1. "idle" \in Steps /\ "RETRYING" \in NodeStatus
    BY <1>2
  <2> QED BY <1>1, <1>5, <2>1, NodeWrite, Zenon DEF ScheduleRetry, NodeStep
<1>6. ASSUME Compensate(h)
      PROVE  Writes(h, "compensate", "undo", cur[h], "COMPENSATING", "workflow.compensation.started")
  <2>1. "undo" \in Steps /\ "COMPENSATING" \in NodeStatus
    BY <1>2
  <2> QED BY <1>1, <1>6, <2>1, NodeWrite, Zenon DEF Compensate, NodeStep
<1>7. ASSUME Compensated(h)
      PROVE  Writes(h, "undone", "scan", cur[h], "COMPENSATED", "workflow.compensation.completed")
  <2>1. "scan" \in Steps /\ "COMPENSATED" \in NodeStatus
    BY <1>2
  <2> QED BY <1>1, <1>7, <2>1, NodeWrite, Zenon DEF Compensated
<1>8. ASSUME NotCompensated(h)
      PROVE  Writes(h, "undone", "finish", cur[h], "FAILED", "workflow.compensation.completed")
  <2>1. "finish" \in Steps /\ "FAILED" \in NodeStatus
    BY <1>2
  <2> QED BY <1>1, <1>8, <2>1, NodeWrite, Zenon DEF NotCompensated, NodeStep
<1>9. ASSUME Finish(h)
      PROVE  \E from \in {"scan", "finish"} :
                 WritesStatus(h, from, "idle", FinalStatus(mine[h]),
                              <<"workflow.completed", FinalStatus(mine[h])>>)
  <2>1. PICK from \in {"scan", "finish"} : Goto(h, from, "idle")
    BY <1>9 DEF Finish
  <2>2. "idle" \in Steps /\ FinalStatus(mine[h]) \in WorkflowStatus
    BY <1>2 DEF FinalStatus, WorkflowStatus
  <2> QED BY <1>9, <2>1, <2>2, StatusWrite, Zenon DEF Finish, NodeStep
<1>10. ScheduleRetry(h) \/ Compensate(h) \/ NotCompensated(h) \/ Finish(h) => UNCHANGED completed
  BY DEF ScheduleRetry, Compensate, NotCompensated, Finish, NodeStep
<1> QED BY <1>3, <1>4, <1>5, <1>6, <1>7, <1>8, <1>9, <1>10

----------------------------------------------------------------------------
(* attempts *)

\* A step that counts no attempt, and opens no node that was not open before.
LEMMA AttemptsKept ==
    ASSUME TypeOK, TypeOK', AttemptsInv, NEW h \in Handlers, HandlerMoves(h), pc[h] # "idle",
           \A m \in Nodes :
               /\ mine'[h].attempts[m] <= requests
               /\ MayStart(h, m)' => mine'[h].attempts[m] < requests,
           pc'[h] \in {"queued", "policy", "begin"} => mine'[h].node[cur'[h]] = "READY"
    PROVE  AttemptsInv'
<1>1. requests' = requests /\ requests # 0
  BY DEF HandlerMoves, AttemptsInv
<1>2. \A m \in Nodes : saved'.attempts[m] <= requests'
  BY <1>1 DEF HandlerMoves, AttemptsInv
<1>3. ASSUME NEW g \in Handlers \ {h}
      PROVE  /\ \A m \in Nodes : mine'[g].attempts[m] <= requests'
             /\ pc'[g] # "idle" => requests' # 0
             /\ \A m \in Nodes : MayStart(g, m)' => mine'[g].attempts[m] < requests'
             /\ pc'[g] \in {"queued", "policy", "begin"} => mine'[g].node[cur'[g]] = "READY"
  BY <1>1, <1>3 DEF HandlerMoves, AttemptsInv, MayStart
<1> QED BY <1>1, <1>2, <1>3 DEF AttemptsInv

\* The steps of a run keep the count of the attempts: Begin counts one for a node
\* that it may still start, and no other step makes a node startable again.
LEMMA RunAttempts ==
    ASSUME WorkflowAssumption, TypeOK, AttemptsInv, NEW h \in Handlers, Run(h)
    PROVE  AttemptsInv'
<1> DEFINE n == cur[h]
           Kept == /\ mine'[h].attempts = mine[h].attempts
                   /\ \A m \in Nodes : MayStart(h, m)' => MayStart(h, m)
                   /\ pc'[h] \in {"queued", "policy", "begin"} => mine'[h].node[cur'[h]] = "READY"
<1>1. TypeOK' /\ HandlerMoves(h)
  BY RunType
<1>2. n \in Nodes /\ mine[h] \in Workflow /\ pc[h] \in Steps /\ pc \in [Handlers -> Steps]
      /\ mine[h].node \in [Nodes -> NodeStatus]
  BY DEF TypeOK, Workflow
<1>3. ASSUME Kept, pc[h] # "idle"
      PROVE  AttemptsInv'
  BY <1>1, <1>3, AttemptsKept DEF AttemptsInv
<1>4. CASE SaveRequest(h)
  <2>1. mine'[h] = mine[h] /\ cur' = cur
    BY <1>4, <1>2 DEF SaveRequest, Save, NodeStep, TypeOK
  <2>2. (pc[h] = "cancel" /\ pc'[h] = "idle") \/ (pc[h] = "save" /\ pc'[h] = "start")
    BY <1>2, <1>4, Going DEF SaveRequest, Steps
  <2> QED BY <2>1, <2>2, <1>3 DEF MayStart, Counted
<1>5. CASE Start(h)
  BY <1>5, <1>3, ScanMoves DEF WritesStatus, MayStart, Counted
<1>6. CASE NotDue(h)
  <2>1. pc[h] = "scan" /\ pc'[h] = "idle" /\ mine' = mine
    BY <1>2, <1>6, Going DEF NotDue, Steps
  <2> QED BY <2>1, <1>3 DEF MayStart
<1>7. CASE Block(h) \/ ConditionFails(h) \/ Skip(h)
  <2>1. PICK m \in Nodes, s \in {"BLOCKED", "SKIPPED"}, event \in {"workflow.node.blocked",
                "workflow.node.failed", "workflow.node.skipped"}, to \in {"scan", "finish"} :
            Writes(h, "scan", to, m, s, event)
    BY <1>7, ScanMoves
  <2> QED BY <1>2, <2>1, <1>3 DEF Writes, MayStart, Counted, Settled, Completed
<1>8. CASE Ready(h)
  <2>1. PICK m \in Nodes, w \in Workflow, to \in {"queued", "policy"} :
            /\ Upcoming(h, m) /\ DepsMet(h, m)
            /\ Goto(h, "scan", to)
            /\ Checkpoint(h, w, <<"workflow.node.ready", m>>)
            /\ w.node = [mine[h].node EXCEPT ![m] = "READY"]
            /\ w.status = mine[h].status /\ w.attempts = mine[h].attempts
            /\ cur' = [cur EXCEPT ![h] = m]
            /\ UNCHANGED <<completed, answer>>
    BY <1>8, ReadyMoves, Zenon
  <2>2. mine'[h] = w /\ pc[h] = "scan" /\ cur'[h] = m
    BY <2>1, Checkpointing DEF Goto, TypeOK
  <2>3. mine[h].node[m] \notin Settled
    BY <2>1 DEF Upcoming
  <2>4. \A k \in Nodes : MayStart(h, k)' => MayStart(h, k)
    BY <1>2, <2>1, <2>2, <2>3 DEF MayStart, Counted
  <2>5. mine'[h].node[cur'[h]] = "READY"
    BY <1>2, <2>1, <2>2
  <2> QED BY <2>1, <2>2, <2>4, <2>5, <1>3
<1>9. CASE Queue(h) \/ Refuse(h) \/ Bind(h)
  <2>1. WritesSame(h, "queued", "policy") \/ WritesSame(h, "refuse", "scan") \/ WritesSame(h, "bind", "call")
    BY <1>9, ScanMoves
  <2> QED BY <1>2, <2>1, <1>3 DEF WritesSame, MayStart, Counted, AttemptsInv
<1>10. CASE EvaluatePolicy(h)
  <2>1. PICK s \in {"READY", "DENIED", "BLOCKED"}, to \in {"begin", "refuse"} :
            /\ Writes(h, "policy", to, n, s, "workflow.node.policy_evaluated")
            /\ to = "begin" => s = "READY"
    BY <1>10, ScanMoves
  <2>2. mine[h].node[n] = "READY"
    BY <2>1 DEF Writes, AttemptsInv
  <2> QED BY <1>2, <2>1, <2>2, <1>3 DEF Writes, MayStart, Counted, Settled, Completed
<1>11. CASE Begin(h)
  <2>1. pc[h] = "begin" /\ cur' = cur
    BY <1>11 DEF Begin, Goto
  <2>2. mine[h].node[n] = "READY" /\ mine[h].attempts[n] < requests
        /\ mine[h].attempts \in [Nodes -> 0 .. MaxRequests] /\ requests \in 0 .. MaxRequests
    BY <1>2, <2>1 DEF AttemptsInv, MayStart, Settled, Completed, Counted, Workflow, TypeOK
  <2>3. mine[h].attempts[n] + 1 \in 0 .. MaxRequests /\ mine[h].attempts[n] + 1 <= requests
    BY <1>2, <2>2 DEF WorkflowAssumption
  <2>4. PICK w \in Workflow, to \in {"call", "bind", "settle"} :
            /\ Goto(h, "begin", to) /\ Checkpoint(h, w, <<"workflow.node.started", n>>)
            /\ w.node = [mine[h].node EXCEPT ![n] = "RUNNING"]
            /\ w.attempts = [mine[h].attempts EXCEPT ![n] = mine[h].attempts[n] + 1]
    BY <1>11, BeginMoves
  <2>5. mine'[h] = w /\ pc'[h] = to
    BY <1>2, <2>4, Checkpointing DEF Goto
  <2>6. ASSUME NEW m \in Nodes
        PROVE  mine'[h].attempts[m] <= requests /\ (MayStart(h, m)' => mine'[h].attempts[m] < requests)
    <3>1. CASE m = n
      BY <1>2, <2>1, <2>2, <2>3, <2>4, <2>5, <3>1 DEF MayStart, Counted
    <3>2. CASE m # n
      <4>1. mine'[h].attempts[m] = mine[h].attempts[m] /\ mine'[h].node[m] = mine[h].node[m]
        BY <1>2, <2>2, <2>4, <2>5, <3>2
      <4>2. MayStart(h, m)' => MayStart(h, m)
        BY <2>1, <3>2, <4>1 DEF MayStart
      <4> QED BY <4>1, <4>2 DEF AttemptsInv
    <3> QED BY <3>1, <3>2
  <2> QED BY <1>1, <2>1, <2>4, <2>5, <2>6, AttemptsKept
<1>12. CASE Call(h) \/ Undo(h)
  <2>1. /\ mine' = mine /\ cur' = cur
        /\ (pc[h] = "call" /\ pc'[h] = "settle") \/ (pc[h] = "undo" /\ pc'[h] \in {"undone", "idle"})
    BY <1>2, <1>12, Going DEF Call, Undo, Steps
  <2> QED BY <2>1, <1>3 DEF MayStart, Counted
<1>13. CASE Wait(h)
  <2>1. pc[h] = "settle" /\ pc'[h] = "idle" /\ mine'[h].attempts = mine[h].attempts
    <3>1. PICK w \in Workflow :
              /\ Goto(h, "settle", "idle")
              /\ Checkpoint(h, w, <<"workflow.approval.required", n>>)
              /\ w.attempts = mine[h].attempts
      BY <1>13, WaitMoves
    <3> QED BY <1>2, <3>1, Going, Checkpointing DEF Steps
  <2> QED BY <2>1, <1>3 DEF MayStart
<1>14. CASE Succeed(h) \/ Compensated(h)
  <2>1. PICK s \in {"SUCCEEDED", "COMPENSATED"}, from \in {"settle", "undone"},
             event \in {"workflow.node.succeeded", "workflow.compensation.completed"} :
            Writes(h, from, "scan", n, s, event)
    BY <1>14, SettleMoves
  <2> QED BY <1>2, <2>1, <1>3 DEF Writes, MayStart, Counted, Settled, Completed
<1>15. CASE Fail(h) \/ NotCompensated(h)
  <2>1. PICK from \in {"settle", "undone"}, to \in {"retry", "compensate", "finish"},
             event \in {"workflow.node.failed", "workflow.compensation.completed"} :
            Writes(h, from, to, n, "FAILED", event)
    BY <1>15, SettleMoves
  <2> QED BY <1>2, <2>1, <1>3 DEF Writes, MayStart, Counted, Settled, Completed
<1>16. CASE ScheduleRetry(h)
  BY <1>16, <1>3, SettleMoves DEF Writes, MayStart
<1>17. CASE Compensate(h)
  <2>1. Writes(h, "compensate", "undo", n, "COMPENSATING", "workflow.compensation.started")
    BY <1>17, SettleMoves
  <2> QED BY <1>2, <2>1, <1>3 DEF Writes, MayStart, Counted
<1>18. CASE Finish(h)
  BY <1>18, <1>3, SettleMoves DEF WritesStatus, MayStart
<1> QED BY <1>4, <1>5, <1>6, <1>7, <1>8, <1>9, <1>10, <1>11, <1>12, <1>13,
           <1>14, <1>15, <1>16, <1>17, <1>18 DEF Run

----------------------------------------------------------------------------
(* requests *)

\* What a request makes of the stored workflow: it takes it as it is, or sets its
\* status, and sets nodes back or gives them up; it counts no attempt.
TakenFrom(w) ==
    /\ w \in Workflow
    /\ w.attempts = saved.attempts
    /\ w = saved \/ w.status \in {"RUNNING", "CANCELLED"}
    /\ \A n \in Nodes : w.node[n] \in {saved.node[n], "PENDING", "FAILED", "CANCELLED"}

\* Every request starts with such a copy.
LEMMA ArriveMoves ==
    ASSUME TypeOK, NEW h \in Handlers, Arrive(h)
    PROVE  \E w \in Workflow, step \in {"start", "save", "cancel"}, kind \in Requests :
               Receive(h, kind, w, step) /\ TakenFrom(w)
<1>1. saved \in Workflow /\ saved.node \in [Nodes -> NodeStatus]
  BY DEF TypeOK, Workflow
<1>2. CASE Execute(h)
  <2>1. TakenFrom(saved) /\ Receive(h, "execute", saved, "start")
    BY <1>1, <1>2 DEF TakenFrom, Execute
  <2>2. "execute" \in Requests
    BY <2>1 DEF Receive
  <2> QED BY <1>1, <2>1, <2>2
<1>3. CASE Resume(h)
  <2>1. PICK expired \in SUBSET {n \in Nodes : saved.node[n] = "WAITING_APPROVAL"},
             due \in SUBSET {n \in Nodes : saved.node[n] = "RETRYING"} :
            Receive(h, "resume", Resumed(saved, expired, due), "save")
    BY <1>3 DEF Resume
  <2> DEFINE node == [n \in Nodes |->
                  CASE saved.node[n] = "WAITING_APPROVAL" /\ n \in expired -> "FAILED"
                    [] saved.node[n] = "RETRYING" /\ n \in due -> "PENDING"
                    [] saved.node[n] \in {"FAILED", "BLOCKED", "RUNNING"} /\ CanBeResumed(saved, n) -> "PENDING"
                    [] OTHER -> saved.node[n]]
             w == [saved EXCEPT !.status = "RUNNING", !.node = node]
  <2>2. ASSUME NEW n \in Nodes
        PROVE  node[n] \in {saved.node[n], "PENDING", "FAILED"}
    OBVIOUS
  <2>3. node \in [Nodes -> NodeStatus]
    <3>1. \A n \in Nodes : node[n] \in NodeStatus
      BY <1>1, <2>2 DEF NodeStatus
    <3> QED BY <3>1
  <2>4. w = Resumed(saved, expired, due)
    BY DEF Resumed
  <2> HIDE DEF node
  <2>5. TakenFrom(w)
    BY <1>1, <2>2, <2>3 DEF TakenFrom, Workflow, WorkflowStatus
  <2>6. w \in Workflow /\ "resume" \in Requests
    BY <2>1, <2>5 DEF Receive, TakenFrom
  <2>7. Receive(h, "resume", w, "save")
    BY <2>1, <2>4
  <2> QED BY <2>5, <2>6, <2>7
<1>4. CASE \E m \in Nodes : RetryNode(h, m)
  <2>1. PICK m \in Nodes :
            Receive(h, "retry", [saved EXCEPT !.status = "RUNNING",
                                              !.node[m] = IF m \in Retryable THEN "PENDING" ELSE "FAILED"], "save")
    BY <1>4 DEF RetryNode
  <2>2. PICK s \in {"PENDING", "FAILED"} : s = (IF m \in Retryable THEN "PENDING" ELSE "FAILED")
    OBVIOUS
  <2> DEFINE w == [saved EXCEPT !.status = "RUNNING", !.node[m] = s]
  <2>3. Receive(h, "retry", w, "save")
    BY <2>1, <2>2
  <2>4. TakenFrom(w)
    BY <1>1 DEF TakenFrom, Workflow, WorkflowStatus, NodeStatus
  <2>5. w \in Workflow /\ "retry" \in Requests
    BY <2>3, <2>4 DEF Receive, TakenFrom
  <2> QED BY <2>3, <2>4, <2>5
<1>5. CASE Cancel(h)
  <2>1. Receive(h, "cancel", Cancelled(saved), "cancel")
    BY <1>5 DEF Cancel
  <2>2. TakenFrom(Cancelled(saved))
    BY <1>1 DEF Cancelled, TakenFrom, Workflow, WorkflowStatus, NodeStatus
  <2>3. Cancelled(saved) \in Workflow /\ "cancel" \in Requests
    BY <2>1, <2>2 DEF Receive, TakenFrom
  <2> QED BY <2>1, <2>2, <2>3
<1> QED BY <1>2, <1>3, <1>4, <1>5 DEF Arrive

\* A request keeps the types and the count of the attempts: it is one more request
\* than any attempt that was counted so far.
LEMMA ArriveAttempts ==
    ASSUME WorkflowAssumption, TypeOK, AttemptsInv, NEW h \in Handlers, Arrive(h)
    PROVE  TypeOK' /\ AttemptsInv'
<1>1. PICK w \in Workflow, step \in {"start", "save", "cancel"}, kind \in Requests :
          Receive(h, kind, w, step) /\ TakenFrom(w)
  BY ArriveMoves
<1>2. /\ requests' = requests + 1 /\ requests' \in 1 .. MaxRequests /\ requests \in Nat
      /\ pc' \in [Handlers -> Steps] /\ pc'[h] = step
      /\ mine' \in [Handlers -> Workflow] /\ mine'[h] = w
      /\ \A g \in Handlers \ {h} : pc'[g] = pc[g] /\ mine'[g] = mine[g]
      /\ UNCHANGED <<saved, outbox, cur, completed, answer, keys, effects>>
  BY <1>1 DEF Receive, TypeOK, Steps, gatewayVars, WorkflowAssumption
<1>3. TypeOK'
  BY <1>2 DEF TypeOK
<1>4. \A n \in Nodes : /\ saved.attempts[n] \in Nat /\ saved.attempts[n] <= requests
                       /\ \A g \in Handlers : mine[g].attempts[n] \in Nat /\ mine[g].attempts[n] <= requests
  BY DEF AttemptsInv, TypeOK, Workflow
<1>5. \A n \in Nodes : saved'.attempts[n] <= requests' /\ saved'.attempts[n] < requests'
  BY <1>2, <1>4
<1>6. ASSUME NEW g \in Handlers, NEW n \in Nodes
      PROVE  mine'[g].attempts[n] < requests'
  <2>1. CASE g = h
    BY <1>1, <1>2, <1>4, <2>1 DEF TakenFrom
  <2>2. CASE g # h
    BY <1>2, <1>4, <2>2
  <2> QED BY <2>1, <2>2
<1>7. ASSUME NEW g \in Handlers, NEW n \in Nodes
      PROVE  mine'[g].attempts[n] <= requests'
  <2>1. mine'[g].attempts[n] \in Nat
    BY <1>3 DEF TypeOK, Workflow
  <2> QED BY <1>2, <1>6, <2>1
<1>8. \A g \in Handlers :
        pc'[g] \in {"queued", "policy", "begin"} => mine'[g].node[cur'[g]] = "READY"
  BY <1>1, <1>2 DEF AttemptsInv
<1>9. requests' # 0
  BY <1>2
<1> QED BY <1>3, <1>5, <1>6, <1>7, <1>8, <1>9 DEF AttemptsInv

\* So does the death of a handler.
LEMMA DieAttempts ==
    ASSUME TypeOK, AttemptsInv, NEW h \in Handlers, Die(h)
    PROVE  TypeOK' /\ AttemptsInv'
<1>1. /\ pc' \in [Handlers -> Steps] /\ pc'[h] = "idle"
      /\ \A g \in Handlers \ {h} : pc'[g] = pc[g]
      /\ UNCHANGED <<saved, outbox, requests, mine, cur, completed, answer, keys, effects>>
  BY DEF Die, TypeOK, Steps, gatewayVars
<1>2. TypeOK'
  BY <1>1 DEF TypeOK
<1>3. \A g \in Handlers, n \in Nodes : MayStart(g, n)' => MayStart(g, n)
  BY <1>1 DEF MayStart
<1> QED BY <1>1, <1>2, <1>3 DEF AttemptsInv

\* A planned workflow is well formed and has no attempt.
LEMMA InitAttempts ==
    ASSUME WorkflowAssumption, Init
    PROVE  TypeOK /\ AttemptsInv
<1>1. saved \in Workflow /\ \A n \in Nodes : saved.attempts[n] = 0
  BY DEF Init, Planned, Workflow, WorkflowStatus, NodeStatus, WorkflowAssumption
<1>2. 1 \in Nodes /\ requests = 0 /\ MaxRequests \in Nat
  BY DEF WorkflowAssumption, Nodes, Init
<1>3. TypeOK
  BY <1>1, <1>2 DEF Init, TypeOK, Steps, Answers, KeyStates
<1>4. \A h \in Handlers : pc[h] = "idle" /\ mine[h] = saved
  BY DEF Init
<1> QED BY <1>1, <1>2, <1>3, <1>4 DEF AttemptsInv, MayStart

\* A step of the system keeps the types and the count of the attempts.
LEMMA NextAttempts ==
    ASSUME WorkflowAssumption, TypeOK, AttemptsInv, [Next]_vars
    PROVE  TypeOK' /\ AttemptsInv'
<1>1. ASSUME NEW h \in Handlers, Arrive(h)
      PROVE  TypeOK' /\ AttemptsInv'
  BY <1>1, ArriveAttempts
<1>2. ASSUME NEW h \in Handlers, Run(h)
      PROVE  TypeOK' /\ AttemptsInv'
  BY <1>2, RunType, RunAttempts
<1>3. ASSUME NEW h \in Handlers, Die(h)
      PROVE  TypeOK' /\ AttemptsInv'
  BY <1>3, DieAttempts
<1>4. CASE Quiet \/ UNCHANGED vars
  BY <1>4 DEF Quiet, vars, handlerVars, gatewayVars, TypeOK, AttemptsInv, MayStart
<1> QED BY <1>1, <1>2, <1>3, <1>4 DEF Next

\* Whatever workflow, requests, races, deaths and gateway: the executor keeps its
\* types.  In particular an attempt is one of a request: no request runs a node
\* twice, although _run_workflow has no bound on it and handlers overwrite each other.
THEOREM EngineTypes == Spec => [](TypeOK /\ AttemptsInv)
<1>1. WorkflowAssumption
  BY WorkflowAssumption
<1>2. Init => TypeOK /\ AttemptsInv
  BY <1>1, InitAttempts
<1>3. TypeOK /\ AttemptsInv /\ [Next]_vars => (TypeOK /\ AttemptsInv)'
  BY <1>1, NextAttempts
<1> QED BY <1>2, <1>3, PTL DEF Spec

----------------------------------------------------------------------------
(* what was announced *)

\* What was announced stays announced: events are only added.
LEMMA AnnouncedStays ==
    ASSUME NEW w, NEW before, NEW after, before \subseteq after
    PROVE  /\ Announced(w, before) => Announced(w, after)
           /\ \A n : DealtWith(n, before) => DealtWith(n, after)
<1>1. Announced(w, before) => Announced(w, after)
  BY DEF Announced
<1>2. \A n : DealtWith(n, before) => DealtWith(n, after)
  BY DEF DealtWith
<1> QED BY <1>1, <1>2

\* The step of one handler leaves the copies of the others announced.
LEMMA AnnouncedKept ==
    ASSUME AnnouncedInv, NEW h \in Handlers, HandlerMoves(h),
           Announced(mine'[h], outbox'),
           \A n \in completed'[h] : DealtWith(n, outbox'),
           pc'[h] \in {"queued", "policy", "begin", "bind", "call"} => DependsOn[cur'[h]] \subseteq completed'[h]
    PROVE  AnnouncedInv'
<1>1. outbox \subseteq outbox' /\ saved' \in {saved, mine'[h]}
  BY DEF HandlerMoves
<1>2. Announced(saved', outbox')
  <2>1. CASE saved' = saved
    BY <1>1, <2>1, AnnouncedStays DEF AnnouncedInv
  <2>2. CASE saved' = mine'[h]
    BY <2>2
  <2> QED BY <1>1, <2>1, <2>2
<1>3. ASSUME NEW g \in Handlers \ {h}
      PROVE  /\ Announced(mine'[g], outbox')
             /\ \A n \in completed'[g] : DealtWith(n, outbox')
             /\ pc'[g] \in {"queued", "policy", "begin", "bind", "call"} => DependsOn[cur'[g]] \subseteq completed'[g]
  <2>1. mine'[g] = mine[g] /\ completed'[g] = completed[g] /\ cur'[g] = cur[g] /\ pc'[g] = pc[g]
    BY DEF HandlerMoves
  <2>2. Announced(mine[g], outbox')
    BY <1>1, AnnouncedStays DEF AnnouncedInv
  <2>3. \A n \in completed[g] : DealtWith(n, outbox')
    BY <1>1, AnnouncedStays DEF AnnouncedInv
  <2> QED BY <2>1, <2>2, <2>3 DEF AnnouncedInv
<1> QED BY <1>2, <1>3 DEF AnnouncedInv

\* A new status of a node that needs no event, or has its own, is announced.
LEMMA AnnouncedWrite ==
    ASSUME TypeOK, AnnouncedInv, NEW h \in Handlers, NEW n \in Nodes, NEW from, NEW to,
           NEW s \in NodeStatus, NEW event, Writes(h, from, to, n, s, event),
           \/ s \notin {"SUCCEEDED", "SKIPPED", "WAITING_APPROVAL", "COMPENSATED"}
           \/ s = "SUCCEEDED" /\ event = "workflow.node.succeeded"
           \/ s = "SKIPPED" /\ event = "workflow.node.skipped"
           \/ s = "COMPENSATED" /\ event = "workflow.compensation.completed"
    PROVE  Announced(mine'[h], outbox')
<1>1. mine[h] \in Workflow /\ mine[h].node \in [Nodes -> NodeStatus] /\ Announced(mine[h], outbox)
  BY DEF TypeOK, Workflow, AnnouncedInv
<1>2. mine'[h].node = [mine[h].node EXCEPT ![n] = s] /\ mine'[h].status = mine[h].status
      /\ outbox' = outbox \cup {<<event, n>>}
  BY DEF Writes
<1>3. mine'[h].status \in {"COMPLETED", "FAILED"} => <<"workflow.completed", mine'[h].status>> \in outbox'
  BY <1>1, <1>2 DEF Announced
<1>4. ASSUME NEW m \in Nodes
      PROVE  /\ mine'[h].node[m] = "SUCCEEDED" => <<"workflow.node.succeeded", m>> \in outbox'
             /\ mine'[h].node[m] = "SKIPPED" => <<"workflow.node.skipped", m>> \in outbox'
             /\ mine'[h].node[m] = "WAITING_APPROVAL" => <<"workflow.approval.required", m>> \in outbox'
             /\ mine'[h].node[m] = "COMPENSATED" => <<"workflow.compensation.completed", m>> \in outbox'
  <2>1. CASE m = n
    BY <1>1, <1>2, <2>1
  <2>2. CASE m # n
    <3>1. mine'[h].node[m] = mine[h].node[m]
      BY <1>1, <1>2, <2>2
    <3> QED BY <1>1, <1>2, <3>1 DEF Announced
  <2> QED BY <2>1, <2>2
<1> QED BY <1>3, <1>4 DEF Announced

\* The steps of a run announce what they save: the event goes into the outbox in the
\* transaction that stores the copy.
LEMMA RunAnnounced ==
    ASSUME WorkflowAssumption, TypeOK, AttemptsInv, AnnouncedInv, NEW h \in Handlers, Run(h)
    PROVE  AnnouncedInv'
<1> DEFINE n == cur[h]
           Same == completed'[h] = completed[h] /\ cur'[h] = cur[h]
           Deps == {"queued", "policy", "begin", "bind", "call"}
<1>1. TypeOK' /\ HandlerMoves(h) /\ outbox \subseteq outbox'
  BY RunType DEF HandlerMoves
<1>2. n \in Nodes /\ mine[h] \in Workflow /\ pc[h] \in Steps /\ pc \in [Handlers -> Steps]
      /\ mine[h].node \in [Nodes -> NodeStatus] /\ mine \in [Handlers -> Workflow]
  BY DEF TypeOK, Workflow
<1>3. Announced(mine[h], outbox) /\ Announced(mine[h], outbox')
      /\ \A m \in completed[h] : DealtWith(m, outbox')
  BY <1>1, AnnouncedStays DEF AnnouncedInv
<1>4. ASSUME Announced(mine'[h], outbox'), Same, pc'[h] \in Deps => pc[h] \in Deps
      PROVE  AnnouncedInv'
  BY <1>1, <1>3, <1>4, AnnouncedKept DEF AnnouncedInv
<1>5. CASE SaveRequest(h)
  <2>1. mine'[h] = mine[h] /\ Same
    BY <1>5, <1>2 DEF SaveRequest, Save, NodeStep
  <2>2. pc'[h] \in {"idle", "start"}
    BY <1>2, <1>5, Going DEF SaveRequest, Steps
  <2> QED BY <2>1, <2>2, <1>3, <1>4
<1>6. CASE Start(h)
  <2>1. WritesStatus(h, "start", "scan", "RUNNING", <<"workflow.started", 0>>)
    BY <1>6, ScanMoves
  <2>2. Announced(mine'[h], outbox')
    BY <1>3, <2>1 DEF WritesStatus, Announced
  <2>3. completed'[h] = {m \in Nodes : mine[h].node[m] \in Completed}
    BY <1>6 DEF Start, TypeOK
  <2>4. \A m \in completed'[h] : DealtWith(m, outbox')
    BY <1>3, <2>3 DEF Announced, DealtWith, Completed
  <2> QED BY <1>1, <2>1, <2>2, <2>4, AnnouncedKept DEF WritesStatus
<1>7. CASE NotDue(h)
  <2>1. pc'[h] = "idle" /\ mine' = mine /\ Same
    BY <1>2, <1>7, Going DEF NotDue, Steps, NodeStep
  <2> QED BY <2>1, <1>3, <1>4
<1>8. CASE Block(h) \/ ConditionFails(h)
  <2>1. PICK m \in Nodes, event \in {"workflow.node.blocked", "workflow.node.failed"},
             to \in {"scan", "finish"} :
            Writes(h, "scan", to, m, "BLOCKED", event)
    BY <1>8, ScanMoves
  <2>2. completed' = completed
    BY <1>8, ScanMoves
  <2>3. Announced(mine'[h], outbox')
    BY <2>1, AnnouncedWrite DEF NodeStatus
  <2> QED BY <2>1, <2>2, <2>3, <1>4 DEF Writes
<1>9. CASE Skip(h)
  <2>1. PICK m \in Nodes : Writes(h, "scan", "scan", m, "SKIPPED", "workflow.node.skipped")
    BY <1>9, ScanMoves
  <2>2. completed' = completed
    BY <1>9, ScanMoves
  <2>3. Announced(mine'[h], outbox')
    BY <2>1, AnnouncedWrite DEF NodeStatus
  <2> QED BY <2>1, <2>2, <2>3, <1>4 DEF Writes
<1>10. CASE Ready(h)
  <2>1. PICK m \in Nodes, w \in Workflow, to \in {"queued", "policy"} :
            /\ Upcoming(h, m) /\ DepsMet(h, m)
            /\ Goto(h, "scan", to)
            /\ Checkpoint(h, w, <<"workflow.node.ready", m>>)
            /\ w.node = [mine[h].node EXCEPT ![m] = "READY"]
            /\ w.status = mine[h].status /\ w.attempts = mine[h].attempts
            /\ cur' = [cur EXCEPT ![h] = m]
            /\ UNCHANGED <<completed, answer>>
    BY <1>10, ReadyMoves, Zenon
  <2>2. mine'[h] = w /\ cur'[h] = m /\ completed'[h] = completed[h]
    BY <2>1, Checkpointing DEF TypeOK
  <2>3. \A k \in Nodes : mine'[h].node[k] = mine[h].node[k] \/ mine'[h].node[k] = "READY"
    BY <1>2, <2>1, <2>2
  <2>4. Announced(mine'[h], outbox')
    BY <1>3, <2>1, <2>2, <2>3 DEF Announced
  <2>5. DependsOn[cur'[h]] \subseteq completed'[h]
    BY <2>1, <2>2 DEF DepsMet
  <2>6. \A k \in completed'[h] : DealtWith(k, outbox')
    BY <1>3, <2>2
  <2> QED BY <1>1, <2>4, <2>5, <2>6, AnnouncedKept
<1>11. CASE Queue(h) \/ Refuse(h) \/ Bind(h)
  <2>1. WritesSame(h, "queued", "policy") \/ WritesSame(h, "refuse", "scan") \/ WritesSame(h, "bind", "call")
    BY <1>11, ScanMoves
  <2> QED BY <2>1, <1>3, <1>4 DEF WritesSame
<1>12. CASE EvaluatePolicy(h)
  <2>1. PICK s \in {"READY", "DENIED", "BLOCKED"}, to \in {"begin", "refuse"} :
            Writes(h, "policy", to, n, s, "workflow.node.policy_evaluated")
    BY <1>12, ScanMoves
  <2>2. completed' = completed
    BY <1>12, ScanMoves
  <2>3. Announced(mine'[h], outbox')
    <3>1. s \in NodeStatus /\ s \notin {"SUCCEEDED", "SKIPPED", "WAITING_APPROVAL", "COMPENSATED"}
      BY DEF NodeStatus
    <3> QED BY <1>2, <2>1, <3>1, AnnouncedWrite, Zenon
  <2> QED BY <2>1, <2>2, <2>3, <1>4 DEF Writes
<1>13. CASE Begin(h)
  <2>1. pc[h] = "begin" /\ Same
    BY <1>13 DEF Begin, Goto
  <2>3. PICK w \in Workflow, to \in {"call", "bind", "settle"} :
            /\ Goto(h, "begin", to) /\ Checkpoint(h, w, <<"workflow.node.started", n>>)
            /\ w.node = [mine[h].node EXCEPT ![n] = "RUNNING"]
            /\ w.status = mine[h].status
            /\ w.attempts = [mine[h].attempts EXCEPT ![n] = mine[h].attempts[n] + 1]
    BY <1>13, BeginMoves
  <2>4. mine'[h] = w
    BY <2>3, Checkpointing
  <2>5. \A k \in Nodes : mine'[h].node[k] = mine[h].node[k] \/ mine'[h].node[k] = "RUNNING"
    BY <1>2, <2>3, <2>4
  <2>6. Announced(mine'[h], outbox')
    BY <1>3, <2>3, <2>4, <2>5 DEF Announced
  <2> QED BY <2>1, <2>6, <1>4
<1>14. CASE Call(h) \/ Undo(h)
  <2>1. mine' = mine /\ cur' = cur /\ completed' = completed
    BY <1>14 DEF Call, Undo
  <2>2. pc'[h] \notin Deps
    BY <1>2, <1>14, Going DEF Call, Undo, Steps
  <2> QED BY <2>1, <2>2, <1>3, <1>4
<1>15. CASE Wait(h)
  <2>1. PICK w \in Workflow :
            /\ Goto(h, "settle", "idle")
            /\ Checkpoint(h, w, <<"workflow.approval.required", n>>)
            /\ w.node = [mine[h].node EXCEPT ![n] = "WAITING_APPROVAL"]
            /\ w.status = "WAITING_APPROVAL" /\ NodeStep
    BY <1>15, WaitMoves
  <2>2. mine'[h] = w /\ outbox' = outbox \cup {<<"workflow.approval.required", n>>} /\ pc'[h] = "idle" /\ Same
    BY <1>2, <2>1, Checkpointing, Going DEF Steps, NodeStep
  <2>3. ASSUME NEW k \in Nodes
        PROVE  \/ mine'[h].node[k] = mine[h].node[k]
               \/ mine'[h].node[k] = "WAITING_APPROVAL" /\ <<"workflow.approval.required", k>> \in outbox'
    BY <1>2, <2>1, <2>2
  <2>4. Announced(mine'[h], outbox')
    BY <1>3, <2>1, <2>2, <2>3 DEF Announced
  <2> QED BY <2>2, <2>4, <1>4
<1>16. CASE Succeed(h)
  <2>1. Writes(h, "settle", "scan", n, "SUCCEEDED", "workflow.node.succeeded")
    BY <1>16, SettleMoves
  <2>2. Announced(mine'[h], outbox')
    BY <1>2, <2>1, AnnouncedWrite DEF NodeStatus
  <2>3. completed'[h] = completed[h] \cup {n}
    BY <1>16 DEF Succeed, TypeOK
  <2>4. \A m \in completed'[h] : DealtWith(m, outbox')
    BY <1>3, <2>1, <2>3 DEF DealtWith, Writes
  <2> QED BY <1>1, <2>1, <2>2, <2>4, AnnouncedKept DEF Writes
<1>17. CASE Compensated(h)
  <2>1. Writes(h, "undone", "scan", n, "COMPENSATED", "workflow.compensation.completed")
    BY <1>17, SettleMoves
  <2>2. Announced(mine'[h], outbox')
    BY <1>2, <2>1, AnnouncedWrite DEF NodeStatus
  <2>3. completed'[h] = completed[h] \cup {n}
    BY <1>17 DEF Compensated, TypeOK
  <2>4. \A m \in completed'[h] : DealtWith(m, outbox')
    BY <1>3, <2>1, <2>3 DEF DealtWith, Writes
  <2> QED BY <1>1, <2>1, <2>2, <2>4, AnnouncedKept DEF Writes
<1>18. CASE Fail(h) \/ NotCompensated(h) \/ ScheduleRetry(h) \/ Compensate(h)
  <2>1. PICK from \in {"settle", "undone", "retry", "compensate"},
             to \in {"retry", "compensate", "finish", "idle", "undo"},
             s \in {"FAILED", "RETRYING", "COMPENSATING"},
             event \in {"workflow.node.failed", "workflow.compensation.completed",
                        "workflow.node.retrying", "workflow.compensation.started"} :
            Writes(h, from, to, n, s, event)
    BY <1>18, SettleMoves
  <2>2. completed' = completed
    BY <1>18, SettleMoves
  <2>3. Announced(mine'[h], outbox')
    <3>1. s \in NodeStatus /\ s \notin {"SUCCEEDED", "SKIPPED", "WAITING_APPROVAL", "COMPENSATED"}
      BY DEF NodeStatus
    <3> QED BY <1>2, <2>1, <3>1, AnnouncedWrite, Zenon
  <2> QED BY <2>1, <2>2, <2>3, <1>4 DEF Writes
<1>19. CASE Finish(h)
  <2> DEFINE final == FinalStatus(mine[h])
  <2>1. PICK from \in {"scan", "finish"} :
            WritesStatus(h, from, "idle", final, <<"workflow.completed", final>>)
    BY <1>19, SettleMoves
  <2>2. completed' = completed
    BY <1>19, SettleMoves
  <2> HIDE DEF final
  <2>3. Announced(mine'[h], outbox')
    BY <1>3, <2>1 DEF WritesStatus, Announced
  <2> QED BY <2>1, <2>2, <2>3, <1>4 DEF WritesStatus
<1> QED BY <1>5, <1>6, <1>7, <1>8, <1>9, <1>10, <1>11, <1>12, <1>13, <1>14, <1>15,
           <1>16, <1>17, <1>18, <1>19 DEF Run

\* So does a request: what it sets a node to needs no event.
LEMMA ArriveAnnounced ==
    ASSUME WorkflowAssumption, TypeOK, AnnouncedInv, NEW h \in Handlers, Arrive(h)
    PROVE  AnnouncedInv'
<1>1. PICK w \in Workflow, step \in {"start", "save", "cancel"}, kind \in Requests :
          Receive(h, kind, w, step) /\ TakenFrom(w)
  BY ArriveMoves
<1>2. /\ pc'[h] = step /\ mine'[h] = w
      /\ \A g \in Handlers \ {h} : pc'[g] = pc[g] /\ mine'[g] = mine[g]
      /\ UNCHANGED <<saved, outbox, cur, completed>>
  BY <1>1 DEF Receive, TypeOK
<1>3. Announced(w, outbox)
  BY <1>1 DEF TakenFrom, AnnouncedInv, Announced
<1> QED BY <1>1, <1>2, <1>3 DEF AnnouncedInv

\* A step of the system announces what it saves.
LEMMA NextAnnounced ==
    ASSUME WorkflowAssumption, TypeOK, AttemptsInv, AnnouncedInv, [Next]_vars
    PROVE  AnnouncedInv'
<1>1. ASSUME NEW h \in Handlers, Arrive(h)
      PROVE  AnnouncedInv'
  BY <1>1, ArriveAnnounced
<1>2. ASSUME NEW h \in Handlers, Run(h)
      PROVE  AnnouncedInv'
  BY <1>2, RunAnnounced
<1>3. ASSUME NEW h \in Handlers, Die(h)
      PROVE  AnnouncedInv'
  BY <1>3 DEF Die, AnnouncedInv, TypeOK
<1>4. CASE Quiet \/ UNCHANGED vars
  BY <1>4 DEF Quiet, vars, handlerVars, AnnouncedInv
<1> QED BY <1>1, <1>2, <1>3, <1>4 DEF Next

\* The copies of all handlers and the store say nothing that was not announced.
LEMMA AlwaysAnnounced == Spec => []AnnouncedInv
<1>1. WorkflowAssumption
  BY WorkflowAssumption
<1>2. ASSUME Init
      PROVE  AnnouncedInv
  <2>1. Announced(saved, outbox)
    <3>1. PICK node \in [Nodes -> {"PENDING", "DENIED", "BLOCKED"}] : saved = Planned(node)
      BY <1>2 DEF Init
    <3>2. saved.status = "VALIDATED" /\ saved.node = node
      BY <3>1 DEF Planned
    <3>3. \A n \in Nodes : saved.node[n] \in {"PENDING", "DENIED", "BLOCKED"}
      BY <3>1, <3>2
    <3> QED BY <3>2, <3>3 DEF Announced
  <2>2. \A h \in Handlers : mine[h] = saved /\ completed[h] = {} /\ pc[h] = "idle"
    BY <1>2 DEF Init
  <2> QED BY <2>1, <2>2 DEF AnnouncedInv
<1>3. TypeOK /\ AttemptsInv /\ AnnouncedInv /\ [Next]_vars => AnnouncedInv'
  BY <1>1, NextAnnounced
<1> QED BY <1>2, <1>3, EngineTypes, PTL DEF Spec

\* StoredWasAnnounced: _checkpoint stores a status together with the event that tells
\* of it, and no stale copy that overwrites the store brings back one without.
THEOREM WhatIsStoredWasAnnounced == Spec => []StoredWasAnnounced
<1>1. AnnouncedInv => StoredWasAnnounced
  BY DEF AnnouncedInv, Announced, StoredWasAnnounced
<1> QED BY <1>1, AlwaysAnnounced, PTL

\* DependenciesFirst: the loop of _run_workflow calls a tool only when all that the
\* node depends on was dealt with, whatever handlers overwrite and whenever they die.
THEOREM DependenciesAlwaysFirst == Spec => []DependenciesFirst
<1>1. AnnouncedInv => DependenciesFirst
  BY DEF AnnouncedInv, DealtWith, DependenciesFirst
<1> QED BY <1>1, AlwaysAnnounced, PTL

----------------------------------------------------------------------------
(* what COMPLETED means *)

\* The step of one handler leaves the copies of the others as done as they were.
LEMMA DoneKept ==
    ASSUME DoneInv, NEW h \in Handlers, HandlerMoves(h),
           Done(mine'[h]),
           pc'[h] \notin {"idle", "cancel", "save", "start"} => mine'[h].status = "RUNNING",
           pc'[h] = "finish" => \E n \in Nodes : mine'[h].node[n] \in Failing
    PROVE  DoneInv'
<1>1. Done(saved')
  BY DEF HandlerMoves, DoneInv
<1>2. ASSUME NEW g \in Handlers \ {h}
      PROVE  /\ Done(mine'[g])
             /\ pc'[g] \notin {"idle", "cancel", "save", "start"} => mine'[g].status = "RUNNING"
             /\ pc'[g] = "finish" => \E n \in Nodes : mine'[g].node[n] \in Failing
  BY DEF HandlerMoves, DoneInv
<1> QED BY <1>1, <1>2 DEF DoneInv

\* The steps of a run: while it goes on the copy is RUNNING, and where it ends the
\* final status is that of all nodes of the copy.
LEMMA RunDone ==
    ASSUME WorkflowAssumption, TypeOK, AttemptsInv, DoneInv, NEW h \in Handlers, Run(h)
    PROVE  DoneInv'
<1> DEFINE n == cur[h]
<1>1. TypeOK' /\ HandlerMoves(h)
  BY RunType
<1>2. n \in Nodes /\ mine[h] \in Workflow /\ pc[h] \in Steps /\ pc \in [Handlers -> Steps]
      /\ mine[h].node \in [Nodes -> NodeStatus] /\ mine \in [Handlers -> Workflow]
  BY DEF TypeOK, Workflow
<1>3. ASSUME mine'[h].status = "RUNNING", pc'[h] # "finish"
      PROVE  DoneInv'
  BY <1>1, <1>3, DoneKept DEF Done
<1>4. CASE SaveRequest(h)
  <2>1. mine'[h] = mine[h]
    BY <1>4, <1>2 DEF SaveRequest, Save
  <2>2. pc'[h] \in {"idle", "start"}
    BY <1>2, <1>4, Going DEF SaveRequest, Steps
  <2> QED BY <1>1, <2>1, <2>2, DoneKept DEF DoneInv
<1>5. CASE Start(h)
  BY <1>5, <1>3, ScanMoves DEF WritesStatus
<1>6. CASE NotDue(h)
  <2>1. pc'[h] = "idle" /\ mine' = mine
    BY <1>2, <1>6, Going DEF NotDue, Steps
  <2> QED BY <1>1, <2>1, DoneKept DEF DoneInv
<1>7. CASE Block(h) \/ Skip(h)
  <2>1. PICK m \in Nodes, s \in {"BLOCKED", "SKIPPED"},
             event \in {"workflow.node.blocked", "workflow.node.skipped"} :
            Writes(h, "scan", "scan", m, s, event)
    BY <1>7, ScanMoves
  <2> QED BY <2>1, <1>3 DEF Writes, DoneInv
<1>8. CASE ConditionFails(h)
  <2>1. PICK m \in Nodes : Writes(h, "scan", "finish", m, "BLOCKED", "workflow.node.failed")
    BY <1>8, ScanMoves
  <2>2. mine'[h].node[m] \in Failing /\ mine'[h].status = "RUNNING"
    BY <1>2, <2>1 DEF Writes, Failing, DoneInv
  <2> QED BY <1>1, <2>1, <2>2, DoneKept DEF Writes, Done
<1>9. CASE Ready(h)
  <2>1. PICK m \in Nodes, w \in Workflow, to \in {"queued", "policy"} :
            /\ Upcoming(h, m) /\ DepsMet(h, m)
            /\ Goto(h, "scan", to)
            /\ Checkpoint(h, w, <<"workflow.node.ready", m>>)
            /\ w.node = [mine[h].node EXCEPT ![m] = "READY"]
            /\ w.status = mine[h].status /\ w.attempts = mine[h].attempts
            /\ cur' = [cur EXCEPT ![h] = m]
            /\ UNCHANGED <<completed, answer>>
    BY <1>9, ReadyMoves, Zenon
  <2>2. mine'[h].status = mine[h].status /\ pc[h] = "scan" /\ pc'[h] = to
    BY <1>2, <2>1, Checkpointing DEF Goto
  <2> QED BY <2>1, <2>2, <1>3 DEF DoneInv
<1>10. CASE Queue(h) \/ Refuse(h) \/ Bind(h)
  <2>1. WritesSame(h, "queued", "policy") \/ WritesSame(h, "refuse", "scan") \/ WritesSame(h, "bind", "call")
    BY <1>10, ScanMoves
  <2> QED BY <2>1, <1>3 DEF WritesSame, DoneInv
<1>11. CASE EvaluatePolicy(h)
  <2>1. PICK s \in {"READY", "DENIED", "BLOCKED"}, to \in {"begin", "refuse"} :
            Writes(h, "policy", to, n, s, "workflow.node.policy_evaluated")
    BY <1>11, ScanMoves
  <2> QED BY <2>1, <1>3 DEF Writes, DoneInv
<1>12. CASE Begin(h)
  <2>1. pc[h] = "begin"
    BY <1>12 DEF Begin, Goto
  <2>3. PICK w \in Workflow, to \in {"call", "bind", "settle"} :
            /\ Goto(h, "begin", to) /\ Checkpoint(h, w, <<"workflow.node.started", n>>)
            /\ w.node = [mine[h].node EXCEPT ![n] = "RUNNING"]
            /\ w.status = mine[h].status
            /\ w.attempts = [mine[h].attempts EXCEPT ![n] = mine[h].attempts[n] + 1]
    BY <1>12, BeginMoves
  <2>4. mine'[h].status = mine[h].status /\ pc'[h] = to
    BY <1>2, <2>3, Checkpointing DEF Goto
  <2> QED BY <2>1, <2>3, <2>4, <1>3 DEF DoneInv
<1>13. CASE Call(h) \/ Undo(h)
  <2>1. mine' = mine /\ pc[h] \in {"call", "undo"} /\ pc'[h] \in {"settle", "undone", "idle"}
    BY <1>2, <1>13, Going DEF Call, Undo, Steps
  <2> QED BY <2>1, <1>3 DEF DoneInv
<1>14. CASE Wait(h)
  <2>1. PICK w \in Workflow :
            /\ Goto(h, "settle", "idle")
            /\ Checkpoint(h, w, <<"workflow.approval.required", n>>)
            /\ w.status = "WAITING_APPROVAL"
    BY <1>14, WaitMoves
  <2>2. mine'[h] = w /\ pc'[h] = "idle"
    BY <1>2, <2>1, Checkpointing, Going DEF Steps
  <2> QED BY <1>1, <2>1, <2>2, DoneKept DEF Done
<1>15. CASE Succeed(h) \/ Compensated(h) \/ ScheduleRetry(h) \/ Compensate(h)
  <2>1. PICK from \in {"settle", "undone", "retry", "compensate"}, to \in {"scan", "idle", "undo"},
             s \in {"SUCCEEDED", "COMPENSATED", "RETRYING", "COMPENSATING"},
             event \in {"workflow.node.succeeded", "workflow.compensation.completed",
                        "workflow.node.retrying", "workflow.compensation.started"} :
            Writes(h, from, to, n, s, event)
    BY <1>15, SettleMoves
  <2> QED BY <2>1, <1>3 DEF Writes, DoneInv
<1>16. CASE Fail(h) \/ NotCompensated(h)
  <2>1. PICK from \in {"settle", "undone"}, to \in {"retry", "compensate", "finish"},
             event \in {"workflow.node.failed", "workflow.compensation.completed"} :
            Writes(h, from, to, n, "FAILED", event)
    BY <1>16, SettleMoves
  <2>2. mine'[h].node[n] \in Failing /\ mine'[h].status = "RUNNING"
    BY <1>2, <2>1 DEF Writes, Failing, DoneInv
  <2> QED BY <1>1, <1>2, <2>2, DoneKept DEF Done
<1>17. CASE Finish(h)
  <2> DEFINE final == FinalStatus(mine[h])
  <2>1. PICK from \in {"scan", "finish"} :
            WritesStatus(h, from, "idle", final, <<"workflow.completed", final>>)
    BY <1>17, SettleMoves
  <2>2. ASSUME final = "COMPLETED", NEW m \in Nodes
        PROVE  mine[h].node[m] \in Completed \cup {"CANCELLED"}
    <3>1. \A k \in Nodes : mine[h].node[k] \notin Failing
      BY <2>2 DEF FinalStatus
    <3>2. from = "scan"
      BY <2>1, <3>1 DEF WritesStatus, DoneInv
    <3>3. Exhausted(h)
      BY <1>17, <2>1, <3>2 DEF Finish, Goto, WritesStatus
    <3> QED BY <3>1, <3>3 DEF Exhausted, Settled, Failing
  <2> HIDE DEF final
  <2>3. Done(mine'[h]) /\ pc'[h] = "idle"
    BY <2>1, <2>2 DEF WritesStatus, Done
  <2> QED BY <1>1, <2>3, DoneKept
<1> QED BY <1>4, <1>5, <1>6, <1>7, <1>8, <1>9, <1>10, <1>11, <1>12, <1>13, <1>14, <1>15,
           <1>16, <1>17 DEF Run

\* A step of the system keeps every copy done that says so.
LEMMA NextDone ==
    ASSUME WorkflowAssumption, TypeOK, AttemptsInv, DoneInv, [Next]_vars
    PROVE  DoneInv'
<1>1. ASSUME NEW h \in Handlers, Arrive(h)
      PROVE  DoneInv'
  <2>1. PICK w \in Workflow, step \in {"start", "save", "cancel"}, kind \in Requests :
            Receive(h, kind, w, step) /\ TakenFrom(w)
    BY <1>1, ArriveMoves
  <2>2. /\ pc'[h] = step /\ mine'[h] = w
        /\ \A g \in Handlers \ {h} : pc'[g] = pc[g] /\ mine'[g] = mine[g]
        /\ saved' = saved
    BY <2>1 DEF Receive, TypeOK
  <2>3. Done(w)
    BY <2>1 DEF TakenFrom, DoneInv, Done
  <2> QED BY <2>1, <2>2, <2>3 DEF DoneInv
<1>2. ASSUME NEW h \in Handlers, Run(h)
      PROVE  DoneInv'
  BY <1>2, RunDone
<1>3. ASSUME NEW h \in Handlers, Die(h)
      PROVE  DoneInv'
  BY <1>3 DEF Die, DoneInv, TypeOK
<1>4. CASE Quiet \/ UNCHANGED vars
  BY <1>4 DEF Quiet, vars, handlerVars, DoneInv
<1> QED BY <1>1, <1>2, <1>3, <1>4 DEF Next

\* CompletedMeansDone: _finish_workflow of any handler stores COMPLETED only when no
\* node of the stored workflow failed, was refused or is still to be done.
THEOREM CompletedIsDone == Spec => []CompletedMeansDone
<1>1. WorkflowAssumption
  BY WorkflowAssumption
<1>2. ASSUME Init
      PROVE  DoneInv
  <2>1. Done(saved)
    BY <1>2 DEF Init, Planned, Done
  <2>2. \A h \in Handlers : mine[h] = saved /\ pc[h] = "idle"
    BY <1>2 DEF Init
  <2> QED BY <2>1, <2>2 DEF DoneInv
<1>3. TypeOK /\ AttemptsInv /\ DoneInv /\ [Next]_vars => DoneInv'
  BY <1>1, NextDone
<1>4. DoneInv => CompletedMeansDone
  BY DEF DoneInv, Done, CompletedMeansDone
<1> QED BY <1>2, <1>3, <1>4, EngineTypes, PTL DEF Spec

----------------------------------------------------------------------------
(* what SUCCEEDED means *)

\* The gateway answers ok, or leaves a key that replays ok, only where the tool took
\* effect or the key replayed ok before.
LEMMA OkIsEffect ==
    ASSUME NEW key \in KeyStates, NEW asks \in BOOLEAN, NEW o \in Outcomes(key, asks),
           o.key = "ok" \/ o.answer = "ok"
    PROVE  o.effect = TRUE \/ key = "ok"
<1> DEFINE Real(q) == q.key = "ok" \/ q.answer = "ok" => q.effect = TRUE \/ key = "ok"
<1>1. ASSUME NEW k, NEW e, NEW a, k = "ok" \/ a = "ok" => e = TRUE \/ key = "ok"
      PROVE  Real(Outcome(k, e, a))
  BY <1>1 DEF Outcome
<1>2. ASSUME NEW p \in Handled(key, asks)
      PROVE  Real(p)
  <2> HIDE DEF Real
  <2>1. CASE key = "free" /\ asks
    BY <1>1, <2>1 DEF Handled
  <2>2. CASE key = "free" /\ ~asks
    BY <1>1, <2>2 DEF Handled
  <2>3. CASE key # "free"
    <3>1. p = Outcome(key, FALSE, Replayed(key))
      BY <2>3 DEF Handled
    <3>2. Replayed(key) = "ok" => key = "ok"
      BY <2>3 DEF Replayed, KeyStates
    <3> QED BY <1>1, <3>1, <3>2
  <2> QED BY <2>1, <2>2, <2>3
<1>3. ASSUME NEW p \in Handled(key, asks), NEW a \in {"transient", "error"}
      PROVE  Real(Outcome(p.key, p.effect, a))
  BY <1>2 DEF Outcome
<1> HIDE DEF Real
<1>4. Real(o)
  BY <1>2, <1>3 DEF Outcomes
<1> QED BY <1>4 DEF Real

\* A step that does not touch the gateway, and announces no success without an effect.
LEMMA SuccessKept ==
    ASSUME SuccessInv, NEW h \in Handlers, HandlerMoves(h), UNCHANGED <<keys, effects>>,
           \A n \in Nodes : <<"workflow.node.succeeded", n>> \in outbox' =>
               <<"workflow.node.succeeded", n>> \in outbox \/ effects[n] > 0,
           pc'[h] = "settle" /\ answer'[h] = "ok" => effects[cur'[h]] > 0
    PROVE  SuccessInv'
BY DEF SuccessInv, HandlerMoves

\* The steps of a run: only Succeed announces a success, of an attempt that the
\* gateway answered with ok.
LEMMA RunSuccess ==
    ASSUME WorkflowAssumption, Undoable = {}, TypeOK, AttemptsInv, SuccessInv, NEW h \in Handlers, Run(h)
    PROVE  SuccessInv'
<1> DEFINE n == cur[h]
<1>1. TypeOK' /\ HandlerMoves(h)
  BY RunType
<1>2. n \in Nodes /\ mine[h] \in Workflow /\ pc[h] \in Steps /\ pc \in [Handlers -> Steps]
      /\ mine \in [Handlers -> Workflow]
  BY DEF TypeOK
<1>3. ASSUME NEW from, NEW to, NEW m \in Nodes, NEW s, NEW event, Writes(h, from, to, m, s, event),
             event # "workflow.node.succeeded", to # "settle"
      PROVE  SuccessInv'
  BY <1>1, <1>3, SuccessKept DEF Writes
<1>4. CASE SaveRequest(h)
  <2>1. UNCHANGED <<outbox, keys, effects>>
    BY <1>4 DEF SaveRequest, gatewayVars
  <2>2. pc'[h] \in {"idle", "start"}
    BY <1>2, <1>4, Going DEF SaveRequest, Steps
  <2> QED BY <1>1, <2>1, <2>2, SuccessKept
<1>5. CASE Start(h)
  BY <1>1, <1>5, ScanMoves, SuccessKept DEF WritesStatus
<1>6. CASE NotDue(h)
  <2>1. pc'[h] = "idle" /\ UNCHANGED <<outbox, keys, effects>>
    BY <1>2, <1>6, Going DEF NotDue, Steps, gatewayVars
  <2> QED BY <1>1, <2>1, SuccessKept
<1>7. CASE Block(h) \/ ConditionFails(h) \/ Skip(h)
  <2>1. PICK m \in Nodes, s \in {"BLOCKED", "SKIPPED"}, to \in {"scan", "finish"},
             event \in {"workflow.node.blocked", "workflow.node.failed", "workflow.node.skipped"} :
            Writes(h, "scan", to, m, s, event)
    BY <1>7, ScanMoves
  <2> QED BY <2>1, <1>3
<1>8. CASE Ready(h)
  <2>1. PICK m \in Nodes, w \in Workflow, to \in {"queued", "policy"} :
            /\ Upcoming(h, m) /\ DepsMet(h, m)
            /\ Goto(h, "scan", to)
            /\ Checkpoint(h, w, <<"workflow.node.ready", m>>)
            /\ w.node = [mine[h].node EXCEPT ![m] = "READY"]
            /\ w.status = mine[h].status /\ w.attempts = mine[h].attempts
            /\ cur' = [cur EXCEPT ![h] = m]
            /\ UNCHANGED <<completed, answer>>
    BY <1>8, ReadyMoves, Zenon
  <2>2. pc'[h] = to /\ outbox' = outbox \cup {<<"workflow.node.ready", m>>} /\ UNCHANGED <<keys, effects>>
    BY <1>2, <2>1, Checkpointing DEF Goto
  <2> QED BY <1>1, <2>1, <2>2, SuccessKept
<1>9. CASE Queue(h) \/ Refuse(h) \/ Bind(h)
  <2>1. PICK from \in {"queued", "refuse", "bind"}, to \in {"policy", "scan", "call"} : WritesSame(h, from, to)
    BY <1>9, ScanMoves
  <2>2. \A m \in Nodes : <<"workflow.node.succeeded", m>> \in outbox' => <<"workflow.node.succeeded", m>> \in outbox
    BY <2>1 DEF WritesSame
  <2> QED BY <1>1, <2>1, <2>2, SuccessKept DEF WritesSame
<1>10. CASE EvaluatePolicy(h)
  <2>1. PICK s \in {"READY", "DENIED", "BLOCKED"}, to \in {"begin", "refuse"} :
            Writes(h, "policy", to, n, s, "workflow.node.policy_evaluated")
    BY <1>10, ScanMoves
  <2> QED BY <1>2, <2>1, <1>3
<1>11. CASE Begin(h)
  <2>3. PICK w \in Workflow, to \in {"call", "bind", "settle"} :
            /\ Goto(h, "begin", to) /\ Checkpoint(h, w, <<"workflow.node.started", n>>)
            /\ w.node = [mine[h].node EXCEPT ![n] = "RUNNING"]
            /\ w.status = mine[h].status
            /\ w.attempts = [mine[h].attempts EXCEPT ![n] = mine[h].attempts[n] + 1]
            /\ to = "settle" => answer'[h] = "error"
    BY <1>11, BeginMoves
  <2>4. pc'[h] = to /\ outbox' = outbox \cup {<<"workflow.node.started", n>>} /\ UNCHANGED <<keys, effects>>
    BY <1>2, <2>3, Checkpointing DEF Goto
  <2> QED BY <1>1, <2>3, <2>4, SuccessKept
<1>12. CASE Call(h)
  <2> DEFINE a == Attempt(h)
             key == keys[n][a]
             asks == n \in Governed /\ mine[h].approval[n] = "none"
  <2>1. PICK o \in Outcomes(key, asks) :
            /\ Goto(h, "call", "settle")
            /\ keys' = [keys EXCEPT ![n][a] = o.key]
            /\ effects' = [effects EXCEPT ![n] = IF o.effect THEN @ + 1 ELSE @]
            /\ answer' = [answer EXCEPT ![h] = o.answer]
            /\ UNCHANGED <<saved, outbox, requests, mine, cur, completed>>
    BY <1>12 DEF Call
  <2>2. a \in Attempts
    <3>1. pc[h] = "call" /\ mine[h].attempts[n] \in 0 .. MaxRequests /\ MaxRequests \in Nat
      BY <1>2, <2>1 DEF Goto, Workflow, WorkflowAssumption
    <3>2. requests # 0 /\ requests \in 0 .. MaxRequests
      BY <3>1 DEF AttemptsInv, TypeOK
    <3> QED BY <3>1, <3>2 DEF Attempt, Attempts
  <2> HIDE DEF a
  <2>3. keys \in [Nodes -> [Attempts -> KeyStates]] /\ key \in KeyStates /\ effects \in [Nodes -> Nat]
        /\ answer \in [Handlers -> Answers]
    BY <1>2, <2>2 DEF TypeOK
  <2>4. (o.key = "ok" \/ o.answer = "ok") => o.effect = TRUE \/ key = "ok"
    BY <2>1, <2>3, OkIsEffect
  <2>5. (o.key = "ok" \/ o.answer = "ok") => effects'[n] > 0
    <3>1. CASE o.effect = TRUE
      BY <1>2, <2>1, <2>3, <3>1
    <3>2. CASE key = "ok" /\ o.effect # TRUE
      <4>1. effects[n] > 0 /\ effects[n] \in Nat
        BY <1>2, <2>2, <2>3, <3>2 DEF SuccessInv
      <4>2. effects'[n] \in {effects[n], effects[n] + 1}
        BY <1>2, <2>1, <2>3
      <4> QED BY <4>1, <4>2
    <3> QED BY <2>4, <3>1, <3>2
  <2>6. \A m \in Nodes : effects[m] > 0 => effects'[m] > 0
    <3>1. ASSUME NEW m \in Nodes
          PROVE  effects'[m] \in {effects[m], effects[m] + 1} /\ effects[m] \in Nat
      BY <1>2, <2>1, <2>3
    <3> QED BY <3>1
  <2>7. ASSUME NEW m \in Nodes, NEW b \in Attempts, keys'[m][b] = "ok"
        PROVE  effects'[m] > 0
    <3>1. CASE m = n /\ b = a
      BY <1>2, <2>1, <2>2, <2>3, <2>5, <2>7, <3>1
    <3>2. CASE ~(m = n /\ b = a)
      <4>1. keys'[m][b] = keys[m][b]
        BY <1>2, <2>1, <2>2, <2>3, <3>2
      <4> QED BY <2>6, <2>7, <4>1 DEF SuccessInv
    <3> QED BY <3>1, <3>2
  <2>8. answer'[h] = o.answer /\ \A g \in Handlers \ {h} : answer'[g] = answer[g] /\ pc'[g] = pc[g]
    BY <1>1, <2>1, <2>3 DEF HandlerMoves
  <2>9. ASSUME NEW g \in Handlers, pc'[g] = "settle", answer'[g] = "ok"
        PROVE  effects'[cur'[g]] > 0
    <3>1. CASE g = h
      BY <2>1, <2>5, <2>8, <2>9, <3>1
    <3>2. CASE g # h
      <4>1. effects[cur[g]] > 0 /\ cur[g] \in Nodes
        BY <2>8, <2>9, <3>2 DEF SuccessInv, TypeOK
      <4> QED BY <2>1, <2>6, <4>1
    <3> QED BY <3>1, <3>2
  <2>10. \A m \in Nodes : <<"workflow.node.succeeded", m>> \in outbox' => effects'[m] > 0
    BY <2>1, <2>6 DEF SuccessInv
  <2> QED BY <2>7, <2>9, <2>10 DEF SuccessInv
<1>13. CASE Undo(h)
  <2>1. PICK o \in UndoOutcomes(n, keys[n][Attempt(h)], mine[h].approval[n]) :
            /\ Goto(h, "undo", "undone") \/ Goto(h, "undo", "idle")
            /\ keys' = [keys EXCEPT ![n][Attempt(h)] = o.key]
            /\ UNCHANGED <<outbox, effects>>
    BY <1>13 DEF Undo
  <2>2. o.key = keys[n][Attempt(h)]
    BY <2>1 DEF UndoOutcomes, Outcome
  <2>3. keys' = keys
    BY <2>1, <2>2 DEF TypeOK
  <2>4. pc'[h] \in {"undone", "idle"}
    BY <1>2, <2>1, Going DEF Steps
  <2> QED BY <1>1, <2>1, <2>3, <2>4, SuccessKept
<1>14. CASE Wait(h)
  <2>1. PICK w \in Workflow :
            /\ Goto(h, "settle", "idle")
            /\ Checkpoint(h, w, <<"workflow.approval.required", n>>)
    BY <1>14, WaitMoves
  <2>2. pc'[h] = "idle" /\ outbox' = outbox \cup {<<"workflow.approval.required", n>>} /\ UNCHANGED <<keys, effects>>
    BY <1>2, <2>1, Checkpointing, Going DEF Steps
  <2> QED BY <1>1, <2>2, SuccessKept
<1>15. CASE Succeed(h)
  <2>1. Writes(h, "settle", "scan", n, "SUCCEEDED", "workflow.node.succeeded")
    BY <1>15, SettleMoves
  <2>2. effects[n] > 0
    BY <1>15, <2>1 DEF Succeed, IsOk, Writes, SuccessInv
  <2> QED BY <1>1, <2>1, <2>2, SuccessKept DEF Writes
<1>16. CASE Fail(h) \/ ScheduleRetry(h) \/ Compensate(h) \/ Compensated(h) \/ NotCompensated(h)
  <2>1. PICK from \in {"settle", "undone", "retry", "compensate"},
             to \in {"retry", "compensate", "finish", "idle", "undo", "scan"},
             s \in {"FAILED", "RETRYING", "COMPENSATING", "COMPENSATED"},
             event \in {"workflow.node.failed", "workflow.compensation.completed",
                        "workflow.node.retrying", "workflow.compensation.started"} :
            Writes(h, from, to, n, s, event)
    BY <1>16, SettleMoves
  <2> QED BY <1>2, <2>1, <1>3
<1>17. CASE Finish(h)
  <2>1. PICK from \in {"scan", "finish"} :
            WritesStatus(h, from, "idle", FinalStatus(mine[h]), <<"workflow.completed", FinalStatus(mine[h])>>)
    BY <1>17, SettleMoves
  <2> QED BY <1>1, <2>1, SuccessKept DEF WritesStatus
<1> QED BY <1>4, <1>5, <1>6, <1>7, <1>8, <1>9, <1>10, <1>11, <1>12, <1>13, <1>14, <1>15,
           <1>16, <1>17 DEF Run

\* A step of the system keeps every success real.
LEMMA NextSuccess ==
    ASSUME WorkflowAssumption, Undoable = {}, TypeOK, AttemptsInv, SuccessInv, [Next]_vars
    PROVE  SuccessInv'
<1>1. ASSUME NEW h \in Handlers, Arrive(h)
      PROVE  SuccessInv'
  <2>1. PICK w \in Workflow, step \in {"start", "save", "cancel"}, kind \in Requests :
            Receive(h, kind, w, step) /\ TakenFrom(w)
    BY <1>1, ArriveMoves
  <2>2. /\ pc'[h] = step /\ \A g \in Handlers \ {h} : pc'[g] = pc[g]
        /\ UNCHANGED <<outbox, cur, answer, keys, effects>>
    BY <2>1 DEF Receive, TypeOK, gatewayVars
  <2> QED BY <2>1, <2>2 DEF SuccessInv
<1>2. ASSUME NEW h \in Handlers, Run(h)
      PROVE  SuccessInv'
  BY <1>2, RunSuccess
<1>3. ASSUME NEW h \in Handlers, Die(h)
      PROVE  SuccessInv'
  BY <1>3 DEF Die, SuccessInv, TypeOK, gatewayVars
<1>4. CASE Quiet \/ UNCHANGED vars
  BY <1>4 DEF Quiet, vars, handlerVars, gatewayVars, SuccessInv
<1> QED BY <1>1, <1>2, <1>3, <1>4 DEF Next

\* SuccessIsReal: a node is announced as succeeded only when its tool took effect,
\* although answers get lost and keys are replayed.  A compensation under the key of
\* the failed attempt would spoil it, hence the hypothesis: the gateway executes no
\* compensation tool.
THEOREM SuccessesAreReal ==
    ASSUME Undoable = {}
    PROVE  Spec => []SuccessIsReal
<1>1. WorkflowAssumption
  BY WorkflowAssumption
<1>2. ASSUME Init
      PROVE  SuccessInv
  BY <1>2 DEF Init, SuccessInv
<1>3. TypeOK /\ AttemptsInv /\ SuccessInv /\ [Next]_vars => SuccessInv'
  BY <1>1, NextSuccess
<1>4. SuccessInv => SuccessIsReal
  BY DEF SuccessInv, SuccessIsReal
<1> QED BY <1>2, <1>3, <1>4, EngineTypes, PTL DEF Spec
----------------------------------------------------------------------------
(* effects *)

\* The attempts of a node whose key the gateway knows.
Used(n) == {a \in Attempts : keys[n][a] # "free"}

\* Each effect of a node's tool used a key up, and each key belongs to an attempt that a
\* request has made.
KeysInv ==
    \A n \in Nodes : Used(n) \subseteq 1 .. requests /\ effects[n] <= Cardinality(Used(n))

\* A key that is known stays as it is and brings no effect; an effect makes it known.
LEMMA OutcomeUses ==
    ASSUME NEW key \in KeyStates, NEW asks \in BOOLEAN, NEW o \in Outcomes(key, asks)
    PROVE  /\ key # "free" => o.key = key /\ o.effect = FALSE
           /\ o.effect = TRUE => o.key # "free"
<1> DEFINE Uses(q) == /\ key # "free" => q.key = key /\ q.effect = FALSE
                      /\ q.effect = TRUE => q.key # "free"
<1>1. ASSUME NEW k, NEW e, NEW a, key # "free" => k = key /\ e = FALSE, e = TRUE => k # "free"
      PROVE  Uses(Outcome(k, e, a))
  BY <1>1 DEF Outcome
<1>2. ASSUME NEW p \in Handled(key, asks)
      PROVE  Uses(p)
  <2> HIDE DEF Uses
  <2>1. CASE key = "free" /\ asks
    BY <1>1, <2>1 DEF Handled
  <2>2. CASE key = "free" /\ ~asks
    BY <1>1, <2>2 DEF Handled
  <2>3. CASE key # "free"
    BY <1>1, <2>3 DEF Handled
  <2> QED BY <2>1, <2>2, <2>3
<1>3. ASSUME NEW p \in Handled(key, asks), NEW a \in {"transient", "error"}
      PROVE  Uses(Outcome(p.key, p.effect, a))
  BY <1>2 DEF Outcome
<1> HIDE DEF Uses
<1>4. Uses(o)
  BY <1>2, <1>3 DEF Outcomes
<1> QED BY <1>4 DEF Uses

\* The gateway is called by these steps only.
LEMMA GatewayKept ==
    ASSUME NEW h \in Handlers, Run(h), ~Call(h), ~Undo(h)
    PROVE  UNCHANGED <<keys, effects>>
<1>1. ASSUME NEW w, NEW event, Checkpoint(h, w, event)
      PROVE  UNCHANGED <<keys, effects>>
  BY <1>1 DEF Checkpoint, gatewayVars
<1>2. SaveRequest(h) \/ NotDue(h) => UNCHANGED <<keys, effects>>
  BY DEF SaveRequest, NotDue, gatewayVars
<1>3. Start(h) \/ Block(h) \/ ConditionFails(h) \/ Skip(h) => UNCHANGED <<keys, effects>>
  BY <1>1, Zenon DEF Start, Block, ConditionFails, Skip
<1>4. Ready(h) \/ Queue(h) \/ EvaluatePolicy(h) \/ Refuse(h) => UNCHANGED <<keys, effects>>
  BY <1>1, Zenon DEF Ready, Queue, EvaluatePolicy, Refuse
<1>5. Begin(h) \/ Bind(h) \/ Wait(h) \/ Succeed(h) \/ Fail(h) => UNCHANGED <<keys, effects>>
  BY <1>1, Zenon DEF Begin, Bind, Wait, Succeed, Fail
<1>6. ScheduleRetry(h) \/ Compensate(h) \/ Compensated(h) \/ NotCompensated(h) \/ Finish(h)
      => UNCHANGED <<keys, effects>>
  BY <1>1, Zenon DEF ScheduleRetry, Compensate, Compensated, NotCompensated, Finish
<1> QED BY <1>2, <1>3, <1>4, <1>5, <1>6 DEF Run

\* A call under the key of the current attempt.
KeyMoves(h) ==
    \E k \in KeyStates, b \in BOOLEAN :
        LET n == cur[h]
            a == Attempt(h)
        IN  /\ pc[h] \in {"call", "undo"}
            /\ keys' = [keys EXCEPT ![n][a] = k]
            /\ effects' = [effects EXCEPT ![n] = IF b THEN @ + 1 ELSE @]
            /\ keys[n][a] # "free" => k = keys[n][a] /\ b = FALSE
            /\ b = TRUE => k # "free"
            /\ UNCHANGED <<saved, outbox, requests, mine, cur>>

\* The attempt a key is taken from is one that some request has made.
LEMMA AttemptMade ==
    ASSUME WorkflowAssumption, TypeOK, AttemptsInv, NEW h \in Handlers, pc[h] # "idle"
    PROVE  Attempt(h) \in Attempts /\ Attempt(h) \in 1 .. requests
<1>1. /\ mine[h].attempts[cur[h]] \in Nat /\ MaxRequests \in Nat
      /\ mine[h].attempts[cur[h]] <= requests
  BY DEF TypeOK, Workflow, WorkflowAssumption, AttemptsInv
<1>2. requests # 0 /\ requests \in 0 .. MaxRequests
  BY DEF AttemptsInv, TypeOK
<1> QED BY <1>1, <1>2 DEF Attempt, Attempts

LEMMA CallsUseKeys ==
    ASSUME WorkflowAssumption, TypeOK, AttemptsInv, NEW h \in Handlers, Call(h) \/ Undo(h)
    PROVE  KeyMoves(h)
<1> DEFINE n == cur[h]
           a == Attempt(h)
           key == keys[n][a]
<1>1. pc[h] \in {"call", "undo"}
  BY DEF Call, Undo, Goto
<1>2. n \in Nodes /\ a \in Attempts
  BY <1>1, AttemptMade DEF TypeOK
<1> HIDE DEF a
<1>3. key \in KeyStates /\ effects \in [Nodes -> Nat]
  BY <1>2 DEF TypeOK
<1>4. CASE Call(h)
  <2>1. PICK o \in Outcomes(key, n \in Governed /\ mine[h].approval[n] = "none") :
            /\ keys' = [keys EXCEPT ![n][a] = o.key]
            /\ effects' = [effects EXCEPT ![n] = IF o.effect THEN @ + 1 ELSE @]
            /\ UNCHANGED <<saved, outbox, requests, mine, cur>>
    BY <1>4 DEF Call, a
  <2>2. o.key \in KeyStates /\ o.effect \in BOOLEAN
    BY <1>3, <2>1, OutcomeType
  <2>3. /\ key # "free" => o.key = key /\ o.effect = FALSE
        /\ o.effect = TRUE => o.key # "free"
    BY <1>3, <2>1, OutcomeUses
  <2> QED BY <1>1, <2>1, <2>2, <2>3 DEF KeyMoves, a
<1>5. CASE Undo(h)
  <2>1. PICK o \in UndoOutcomes(n, key, mine[h].approval[n]) :
            /\ keys' = [keys EXCEPT ![n][a] = o.key]
            /\ UNCHANGED <<saved, outbox, requests, mine, cur, effects>>
    BY <1>5 DEF Undo, a
  <2>2. o.key \in KeyStates
    BY <1>2, <1>3, <2>1, UndoOutcomeType
  <2>3. key # "free" => o.key = key
    <3>1. CASE n \notin Undoable
      BY <2>1, <3>1 DEF UndoOutcomes, Outcome
    <3>2. CASE n \in Undoable
      <4>1. o \in Outcomes(key, n \in Governed /\ mine[h].approval[n] = "none")
        BY <2>1, <3>2 DEF UndoOutcomes
      <4> QED BY <1>3, <4>1, OutcomeUses
    <3> QED BY <3>1, <3>2
  <2>4. effects' = [effects EXCEPT ![n] = IF FALSE THEN @ + 1 ELSE @]
    BY <1>2, <1>3, <2>1
  <2> QED BY <1>1, <2>1, <2>2, <2>3, <2>4 DEF KeyMoves, a
<1> QED BY <1>4, <1>5

\* A call makes at most its own key known, and an effect makes it known for the first time.
LEMMA CallKeepsCount ==
    ASSUME WorkflowAssumption, TypeOK, AttemptsInv, KeysInv, NEW h \in Handlers, KeyMoves(h),
           NEW n \in Nodes
    PROVE  /\ Used(n)' \subseteq Used(n) \cup (IF n = cur[h] THEN {Attempt(h)} ELSE {})
           /\ effects'[n] <= Cardinality(Used(n)')
<1> DEFINE m == cur[h]
           a == Attempt(h)
<1>1. m \in Nodes /\ a \in Attempts
  BY AttemptMade DEF TypeOK, KeyMoves
<1>2. PICK k \in KeyStates, b \in BOOLEAN :
          /\ keys' = [keys EXCEPT ![m][a] = k]
          /\ effects' = [effects EXCEPT ![m] = IF b THEN @ + 1 ELSE @]
          /\ keys[m][a] # "free" => k = keys[m][a] /\ b = FALSE
          /\ b = TRUE => k # "free"
  BY DEF KeyMoves
<1> HIDE DEF a
<1>3. keys \in [Nodes -> [Attempts -> KeyStates]] /\ effects \in [Nodes -> Nat]
  BY DEF TypeOK
<1>4. IsFiniteSet(Attempts)
  BY FS_Interval DEF Attempts, WorkflowAssumption
<1>5. IsFiniteSet(Used(n)) /\ IsFiniteSet(Used(n)')
  BY <1>4, FS_Subset DEF Used
<1>6. Cardinality(Used(n)) \in Nat /\ Cardinality(Used(n)') \in Nat
      /\ effects[n] <= Cardinality(Used(n)) /\ effects[n] \in Nat
  BY <1>3, <1>5, FS_CardinalityType DEF KeysInv
<1>7. CASE n # m
  <2>1. Used(n)' = Used(n) /\ effects'[n] = effects[n]
    BY <1>1, <1>2, <1>3, <1>7 DEF Used
  <2> QED BY <1>6, <1>7, <2>1
<1>8. CASE n = m /\ k = "free"
  <2>1. keys[m][a] = "free" /\ b = FALSE
    BY <1>2, <1>8
  <2>2. Used(n)' = Used(n) /\ effects'[n] = effects[n]
    BY <1>1, <1>2, <1>3, <1>8, <2>1 DEF Used
  <2> QED BY <1>6, <2>2
<1>9. CASE n = m /\ k # "free"
  <2>1. Used(n)' = Used(n) \cup {a}
    BY <1>1, <1>2, <1>3, <1>9 DEF Used
  <2>2. effects'[n] = IF b THEN effects[n] + 1 ELSE effects[n]
    BY <1>1, <1>2, <1>3, <1>9
  <2>3. CASE a \in Used(n)
    <3>1. b = FALSE
      BY <1>2, <1>9, <2>3 DEF Used
    <3>2. Used(n)' = Used(n)
      BY <2>1, <2>3
    <3> QED BY <1>6, <1>9, <2>1, <2>2, <3>1, <3>2 DEF a
  <2>4. CASE a \notin Used(n)
    <3>1. Cardinality(Used(n) \cup {a}) = Cardinality(Used(n)) + 1
      BY <1>5, <2>4, FS_AddElement
    <3> QED BY <1>6, <1>9, <2>1, <2>2, <3>1 DEF a
  <2> QED BY <2>3, <2>4
<1> QED BY <1>7, <1>8, <1>9

\* A step of the system keeps each effect on a key of its own.
LEMMA NextKeys ==
    ASSUME WorkflowAssumption, TypeOK, AttemptsInv, KeysInv, [Next]_vars
    PROVE  KeysInv'
<1>1. requests \in Nat
  BY DEF TypeOK, WorkflowAssumption
<1>2. ASSUME UNCHANGED <<keys, effects>>, requests' \in {requests, requests + 1}
      PROVE  KeysInv'
  <2>1. \A n \in Nodes : Used(n)' = Used(n) /\ effects'[n] = effects[n]
    BY <1>2 DEF Used
  <2> QED BY <1>1, <1>2, <2>1 DEF KeysInv
<1>3. ASSUME NEW h \in Handlers, Arrive(h)
      PROVE  KeysInv'
  <2>1. PICK w \in Workflow, step \in {"start", "save", "cancel"}, kind \in Requests :
            Receive(h, kind, w, step)
    BY <1>3, ArriveMoves
  <2> QED BY <1>2, <2>1 DEF Receive, gatewayVars
<1>4. ASSUME NEW h \in Handlers, Run(h)
      PROVE  KeysInv'
  <2>1. CASE ~Call(h) /\ ~Undo(h)
    BY <1>2, <1>4, <2>1, GatewayKept, RunType DEF HandlerMoves
  <2>2. CASE Call(h) \/ Undo(h)
    <3>1. KeyMoves(h)
      BY <2>2, CallsUseKeys
    <3>2. Attempt(h) \in 1 .. requests /\ requests' = requests
      BY <3>1, AttemptMade DEF KeyMoves
    <3> QED BY <3>1, <3>2, CallKeepsCount DEF KeysInv
  <2> QED BY <2>1, <2>2
<1>5. ASSUME NEW h \in Handlers, Die(h)
      PROVE  KeysInv'
  BY <1>2, <1>5 DEF Die, gatewayVars
<1>6. CASE Quiet \/ UNCHANGED vars
  BY <1>2, <1>6 DEF Quiet, vars, gatewayVars
<1> QED BY <1>3, <1>4, <1>5, <1>6 DEF Next

LEMMA AlwaysKeys == Spec => []KeysInv
<1>1. WorkflowAssumption
  BY WorkflowAssumption
<1>2. Init => KeysInv
  <2> SUFFICES ASSUME Init, NEW n \in Nodes
               PROVE  Used(n) \subseteq 1 .. requests /\ effects[n] <= Cardinality(Used(n))
    BY DEF KeysInv
  <2>1. Used(n) = {} /\ effects[n] = 0
    BY DEF Init, Used
  <2> QED BY <2>1, FS_EmptySet
<1>3. TypeOK /\ AttemptsInv /\ KeysInv /\ [Next]_vars => KeysInv'
  BY <1>1, NextKeys
<1> QED BY <1>2, <1>3, EngineTypes, PTL DEF Spec

\* _execute_node's key of workflow, node and attempt: however handlers overwrite each
\* other's counts and wherever they die, the tool of a node takes effect at most once for
\* every request that arrived.
THEOREM EffectsNeedRequests == Spec => [](\A n \in Nodes : effects[n] <= requests)
<1>1. ASSUME TypeOK, KeysInv, NEW n \in Nodes
      PROVE  effects[n] <= requests
  <2>1. requests \in Nat /\ effects[n] \in Nat
    BY <1>1 DEF TypeOK
  <2>2. IsFiniteSet(1 .. requests) /\ Cardinality(1 .. requests) = requests
    BY <2>1, FS_Interval
  <2>3. Cardinality(Used(n)) <= requests /\ Cardinality(Used(n)) \in Nat
    BY <1>1, <2>2, FS_Subset, FS_CardinalityType DEF KeysInv
  <2> QED BY <1>1, <2>1, <2>3 DEF KeysInv
<1>2. TypeOK /\ KeysInv => \A n \in Nodes : effects[n] <= requests
  BY <1>1
<1> QED BY <1>2, EngineTypes, AlwaysKeys, PTL
----------------------------------------------------------------------------
(* one handler at a time *)

\* The requests of a workflow follow each other.
OneHandler == \A g, h \in Handlers : g = h

\* What the only handler works on is what is stored, and an attempt it works at is counted.
AloneInv ==
    /\ \A h \in Handlers : pc[h] # "idle" => mine[h].attempts = saved.attempts
    /\ \A h \in Handlers : pc[h] \notin {"idle", "cancel", "save", "start"} => mine[h] = saved
    /\ \A h \in Handlers : pc[h] \in Counted => mine[h].attempts[cur[h]] # 0

\* A key is known for no attempt but one that the stored workflow counts.
UsedInv == \A n \in Nodes : Used(n) \subseteq 1 .. saved.attempts[n]

\* What the steps of a run do to the copies: the handler that stays in the run has saved
\* its copy, and counts an attempt when it begins one, and then only.
LEMMA RunCopies ==
    ASSUME WorkflowAssumption, TypeOK, AttemptsInv, NEW h \in Handlers, Run(h)
    PROVE  /\ saved' = mine'[h] \/ (saved' = saved /\ mine'[h] = mine[h])
           /\ pc[h] \in {"cancel", "save", "start"} => saved' = mine'[h] /\ pc'[h] \notin Counted
           /\ \A n \in Nodes : mine'[h].attempts[n] \in Nat /\ mine[h].attempts[n] <= mine'[h].attempts[n]
           /\ pc'[h] \in Counted =>
                 /\ pc[h] \in Counted \cup {"begin"} /\ cur'[h] = cur[h]
                 /\ pc[h] = "begin" => mine'[h].attempts[cur[h]] # 0
<1> DEFINE Kept == \A n \in Nodes : mine[h].attempts[n] <= mine'[h].attempts[n]
<1>1. mine[h] \in Workflow /\ cur[h] \in Nodes /\ mine \in [Handlers -> Workflow]
      /\ pc \in [Handlers -> Steps] /\ \A n \in Nodes : mine[h].attempts[n] \in Nat
  BY DEF TypeOK, Workflow
<1>2. \A n \in Nodes : mine'[h].attempts[n] \in Nat
  <2>1. mine'[h] \in Workflow
    BY RunType DEF TypeOK
  <2> QED BY <2>1 DEF Workflow
<1>3. ASSUME mine'[h].attempts = mine[h].attempts
      PROVE  Kept
  BY <1>1, <1>3
<1> HIDE DEF Kept
<1> DEFINE Goal == /\ saved' = mine'[h] \/ (saved' = saved /\ mine'[h] = mine[h])
                   /\ pc[h] \in {"cancel", "save", "start"} => saved' = mine'[h] /\ pc'[h] \notin Counted
                   /\ Kept
                   /\ pc'[h] \in Counted =>
                         /\ pc[h] \in Counted \cup {"begin"} /\ cur'[h] = cur[h]
                         /\ pc[h] = "begin" => mine'[h].attempts[cur[h]] # 0
<1>4. CASE SaveRequest(h)
  <2>1. saved' = mine'[h] /\ mine'[h] = mine[h]
    BY <1>1, <1>4 DEF SaveRequest, Save
  <2>2. pc'[h] \in {"idle", "start"}
    BY <1>1, <1>4 DEF SaveRequest, Goto
  <2>3. Goal
    BY <1>3, <2>1, <2>2 DEF Counted
  <2> QED BY <1>2, <2>3 DEF Kept
<1>5. CASE NotDue(h)
  <2>1. pc[h] = "scan" /\ pc'[h] = "idle" /\ saved' = saved /\ mine' = mine
    BY <1>1, <1>5 DEF NotDue, Goto
  <2>2. Goal
    BY <1>3, <2>1 DEF Counted
  <2> QED BY <1>2, <2>2 DEF Kept
<1>6. ASSUME NEW from \in {"start", "scan", "policy", "retry", "undone", "settle", "compensate", "finish"},
             NEW to, NEW m, NEW s, NEW event,
             \/ Writes(h, from, to, m, s, event)
             \/ WritesStatus(h, from, to, s, event),
             to \in Counted => from \in Counted
      PROVE  Goal
  <2>1. pc[h] = from /\ pc'[h] = to /\ saved' = mine'[h] /\ cur' = cur
        /\ mine'[h].attempts = mine[h].attempts
    BY <1>6 DEF Writes, WritesStatus
  <2> QED BY <1>3, <1>6, <2>1 DEF Counted
<1>7. CASE Start(h)
  BY <1>2, <1>6, <1>7, ScanMoves DEF Counted, Kept
<1>8. CASE Block(h) \/ ConditionFails(h) \/ Skip(h)
  <2>1. PICK m \in Nodes, s \in {"BLOCKED", "SKIPPED"}, to \in {"scan", "finish"},
             event \in {"workflow.node.blocked", "workflow.node.failed", "workflow.node.skipped"} :
            Writes(h, "scan", to, m, s, event)
    BY <1>8, ScanMoves
  <2> QED BY <1>2, <1>6, <2>1 DEF Counted, Kept
<1>9. CASE Ready(h)
  <2>1. PICK m \in Nodes, w \in Workflow, to \in {"queued", "policy"} :
            /\ Goto(h, "scan", to)
            /\ Checkpoint(h, w, <<"workflow.node.ready", m>>)
            /\ w.attempts = mine[h].attempts
    BY <1>9, ReadyMoves, Zenon
  <2>2. pc[h] = "scan" /\ pc'[h] = to /\ saved' = w /\ mine'[h] = w
    BY <1>1, <2>1, Checkpointing DEF Goto
  <2>3. Goal
    BY <1>3, <2>1, <2>2 DEF Counted
  <2> QED BY <1>2, <2>3 DEF Kept
<1>10. CASE Queue(h) \/ Refuse(h) \/ Bind(h)
  <2>1. PICK from \in {"queued", "refuse", "bind"}, to \in {"policy", "scan", "call"} :
            WritesSame(h, from, to) /\ (to = "call" => from = "bind")
    BY <1>10, ScanMoves
  <2>2. pc[h] = from /\ pc'[h] = to /\ saved' = mine'[h] /\ mine'[h] = mine[h] /\ cur' = cur
    BY <2>1 DEF WritesSame
  <2>3. Goal
    BY <1>3, <2>1, <2>2 DEF Counted
  <2> QED BY <1>2, <2>3 DEF Kept
<1>11. CASE EvaluatePolicy(h)
  <2>1. PICK s \in {"READY", "DENIED", "BLOCKED"}, to \in {"begin", "refuse"} :
            Writes(h, "policy", to, cur[h], s, "workflow.node.policy_evaluated")
    BY <1>11, ScanMoves
  <2> QED BY <1>2, <1>6, <2>1 DEF Counted, Kept
<1>12. CASE Begin(h)
  <2>1. PICK w \in Workflow, to \in {"call", "bind", "settle"} :
            /\ Goto(h, "begin", to) /\ Checkpoint(h, w, <<"workflow.node.started", cur[h]>>)
            /\ w.attempts = [mine[h].attempts EXCEPT ![cur[h]] = mine[h].attempts[cur[h]] + 1]
            /\ UNCHANGED cur
    BY <1>12, BeginMoves
  <2>2. pc[h] = "begin" /\ saved' = w /\ mine'[h] = w
    BY <1>1, <2>1, Checkpointing DEF Goto
  <2>3. mine[h].attempts \in [Nodes -> 0 .. MaxRequests]
    BY <1>1 DEF Workflow
  <2>4. /\ mine'[h].attempts[cur[h]] = mine[h].attempts[cur[h]] + 1
        /\ \A n \in Nodes \ {cur[h]} : mine'[h].attempts[n] = mine[h].attempts[n]
    BY <1>1, <2>1, <2>2, <2>3
  <2>5. \A n \in Nodes : mine[h].attempts[n] <= mine'[h].attempts[n]
    <3> TAKE n \in Nodes
    <3>1. CASE n = cur[h]
      BY <1>1, <2>4, <3>1
    <3>2. CASE n # cur[h]
      BY <1>1, <2>4, <3>2
    <3> QED BY <3>1, <3>2
  <2>6. mine'[h].attempts[cur[h]] # 0
    BY <1>1, <2>4
  <2> QED BY <1>2, <2>1, <2>2, <2>5, <2>6
<1>13. CASE Call(h) \/ Undo(h)
  <2>1. saved' = saved /\ mine' = mine /\ cur' = cur /\ pc[h] \in Counted
    BY <1>13 DEF Call, Undo, Goto, Counted
  <2>2. Goal
    BY <1>3, <2>1 DEF Counted
  <2> QED BY <1>2, <2>2 DEF Kept
<1>14. CASE Wait(h)
  <2>1. PICK w \in Workflow :
            /\ Goto(h, "settle", "idle")
            /\ Checkpoint(h, w, <<"workflow.approval.required", cur[h]>>)
            /\ w.attempts = mine[h].attempts
    BY <1>14, WaitMoves
  <2>2. pc[h] = "settle" /\ pc'[h] = "idle" /\ saved' = w /\ mine'[h] = w
    BY <1>1, <2>1, Checkpointing DEF Goto
  <2>3. Goal
    BY <1>3, <2>1, <2>2 DEF Counted
  <2> QED BY <1>2, <2>3 DEF Kept
<1>15. CASE Succeed(h) \/ Fail(h) \/ ScheduleRetry(h) \/ Compensate(h) \/ Compensated(h) \/ NotCompensated(h)
  <2>1. PICK from \in {"settle", "undone", "retry", "compensate"},
             to \in {"retry", "compensate", "finish", "idle", "undo", "scan"},
             s \in {"SUCCEEDED", "FAILED", "RETRYING", "COMPENSATING", "COMPENSATED"},
             event \in {"workflow.node.succeeded", "workflow.node.failed", "workflow.compensation.completed",
                        "workflow.node.retrying", "workflow.compensation.started"} :
            Writes(h, from, to, cur[h], s, event)
    BY <1>15, SettleMoves
  <2> QED BY <1>2, <1>6, <2>1 DEF Counted, Kept
<1>16. CASE Finish(h)
  <2>1. PICK from \in {"scan", "finish"} :
            WritesStatus(h, from, "idle", FinalStatus(mine[h]), <<"workflow.completed", FinalStatus(mine[h])>>)
    BY <1>16, SettleMoves
  <2>2. "idle" \notin Counted
    BY DEF Counted
  <2>3. Goal
    <3>1. from \in {"start", "scan", "policy", "retry", "undone", "settle", "compensate", "finish"}
      OBVIOUS
    <3> HIDE DEF Goal
    <3> QED BY <1>6, <2>1, <2>2, <3>1, Zenon
  <2> QED BY <1>2, <2>3 DEF Kept
<1> QED BY <1>4, <1>5, <1>7, <1>8, <1>9, <1>10, <1>11, <1>12, <1>13, <1>14, <1>15, <1>16 DEF Run
\* A handler that runs has a request to answer.
LEMMA RunsBusy == \A h \in Handlers : Run(h) => pc[h] # "idle"
<1> TAKE h \in Handlers
<1>1. SaveRequest(h) \/ Start(h) \/ NotDue(h) \/ Block(h) \/ ConditionFails(h) \/ Skip(h) => pc[h] # "idle"
  BY DEF SaveRequest, Start, NotDue, Block, ConditionFails, Skip, Goto
<1>2. Ready(h) => pc[h] # "idle"
  BY DEF Ready, Goto
<1>3. Queue(h) \/ EvaluatePolicy(h) \/ Refuse(h) \/ Begin(h) \/ Bind(h) \/ Call(h) => pc[h] # "idle"
  BY DEF Queue, EvaluatePolicy, Refuse, Begin, Bind, Call, Goto
<1>4. Wait(h) \/ Succeed(h) \/ Fail(h) \/ ScheduleRetry(h) \/ Compensate(h) \/ Undo(h) => pc[h] # "idle"
  BY DEF Wait, Succeed, Fail, ScheduleRetry, Compensate, Undo, Goto
<1>5. Compensated(h) \/ NotCompensated(h) \/ Finish(h) => pc[h] # "idle"
  BY DEF Compensated, NotCompensated, Finish, Goto
<1> QED BY <1>1, <1>2, <1>3, <1>4, <1>5 DEF Run

\* As long as there is one handler, its checkpoints are what is stored.
LEMMA NextAlone ==
    ASSUME WorkflowAssumption, OneHandler, TypeOK, AttemptsInv, AloneInv, [Next]_vars
    PROVE  AloneInv'
<1>1. ASSUME NEW h \in Handlers, Arrive(h)
      PROVE  AloneInv'
  <2>1. PICK w \in Workflow, step \in {"start", "save", "cancel"}, kind \in Requests :
            Receive(h, kind, w, step) /\ TakenFrom(w)
    BY <1>1, ArriveMoves
  <2>2. pc'[h] = step /\ mine'[h] = w /\ saved' = saved /\ w.attempts = saved.attempts
    BY <2>1 DEF Receive, TypeOK, TakenFrom
  <2>3. \A g \in Handlers : g = h
    BY DEF OneHandler
  <2> QED BY <2>2, <2>3 DEF AloneInv, Counted
<1>2. ASSUME NEW h \in Handlers, Run(h)
      PROVE  AloneInv'
  <2>1. /\ saved' = mine'[h] \/ (saved' = saved /\ mine'[h] = mine[h])
        /\ pc[h] \in {"cancel", "save", "start"} => saved' = mine'[h] /\ pc'[h] \notin Counted
        /\ \A n \in Nodes : mine'[h].attempts[n] \in Nat /\ mine[h].attempts[n] <= mine'[h].attempts[n]
        /\ pc'[h] \in Counted =>
              /\ pc[h] \in Counted \cup {"begin"} /\ cur'[h] = cur[h]
              /\ pc[h] = "begin" => mine'[h].attempts[cur[h]] # 0
    BY <1>2, RunCopies
  <2>2. saved' = mine'[h]
    BY <1>2, <2>1, RunsBusy DEF AloneInv
  <2>3. ASSUME pc'[h] \in Counted
        PROVE  mine'[h].attempts[cur'[h]] # 0
    <3>1. CASE pc[h] = "begin"
      BY <2>1, <2>3, <3>1
    <3>2. CASE pc[h] \in Counted
      <4>1. cur[h] \in Nodes /\ mine[h].attempts[cur[h]] \in Nat /\ mine[h].attempts[cur[h]] # 0
        BY <3>2 DEF TypeOK, Workflow, AloneInv
      <4> QED BY <2>1, <2>3, <4>1
    <3> QED BY <2>1, <2>3, <3>1, <3>2
  <2>4. \A g \in Handlers : g = h
    BY DEF OneHandler
  <2> QED BY <2>2, <2>3, <2>4 DEF AloneInv
<1>3. ASSUME NEW h \in Handlers, Die(h)
      PROVE  AloneInv'
  <2>1. pc'[h] = "idle" /\ \A g \in Handlers : g = h
    BY <1>3 DEF Die, TypeOK, OneHandler
  <2> QED BY <2>1 DEF AloneInv, Counted
<1>4. CASE Quiet \/ UNCHANGED vars
  BY <1>4 DEF Quiet, vars, handlerVars, AloneInv
<1> QED BY <1>1, <1>2, <1>3, <1>4 DEF Next

\* And no key is used beyond the attempts that are stored.
LEMMA NextUsed ==
    ASSUME WorkflowAssumption, OneHandler, TypeOK, AttemptsInv, KeysInv, AloneInv, UsedInv, [Next]_vars
    PROVE  UsedInv'
<1>1. \A n \in Nodes : saved.attempts[n] \in Nat
  BY DEF TypeOK, Workflow
<1>2. ASSUME keys' = keys, saved' = saved
      PROVE  UsedInv'
  BY <1>2 DEF UsedInv, Used
<1>3. ASSUME NEW h \in Handlers, Arrive(h)
      PROVE  UsedInv'
  <2>1. PICK w \in Workflow, step \in {"start", "save", "cancel"}, kind \in Requests :
            Receive(h, kind, w, step)
    BY <1>3, ArriveMoves
  <2> QED BY <1>2, <2>1 DEF Receive, gatewayVars
<1>4. ASSUME NEW h \in Handlers, Run(h)
      PROVE  UsedInv'
  <2>1. pc[h] # "idle" /\ mine[h].attempts = saved.attempts
    BY <1>4, RunsBusy DEF AloneInv
  <2>2. CASE ~Call(h) /\ ~Undo(h)
    <3>1. keys' = keys
      BY <1>4, <2>2, GatewayKept
    <3>2. \A n \in Nodes : saved'.attempts[n] \in Nat /\ saved.attempts[n] <= saved'.attempts[n]
      BY <1>1, <1>4, <2>1, RunCopies
    <3> QED BY <1>1, <3>1, <3>2 DEF UsedInv, Used
  <2>3. CASE Call(h) \/ Undo(h)
    <3>1. KeyMoves(h)
      BY <2>3, CallsUseKeys
    <3>2. cur[h] \in Nodes /\ Attempt(h) = saved.attempts[cur[h]] /\ saved.attempts[cur[h]] # 0
      BY <2>1, <3>1 DEF KeyMoves, Attempt, AloneInv, Counted, TypeOK
    <3>3. saved' = saved
      BY <3>1 DEF KeyMoves
    <3>4. ASSUME NEW n \in Nodes
          PROVE  Used(n)' \subseteq 1 .. saved.attempts[n]
      BY <1>1, <3>1, <3>2, CallKeepsCount DEF UsedInv
    <3> QED BY <3>3, <3>4 DEF UsedInv
  <2> QED BY <2>2, <2>3
<1>5. ASSUME NEW h \in Handlers, Die(h)
      PROVE  UsedInv'
  BY <1>2, <1>5 DEF Die, gatewayVars
<1>6. CASE Quiet \/ UNCHANGED vars
  BY <1>2, <1>6 DEF Quiet, vars, gatewayVars
<1> QED BY <1>3, <1>4, <1>5, <1>6 DEF Next

\* The two of them hold while requests follow each other.
LEMMA AlwaysAlone ==
    ASSUME OneHandler
    PROVE  Spec => [](AloneInv /\ UsedInv)
<1>1. WorkflowAssumption
  BY WorkflowAssumption
<1>2. Init => AloneInv /\ UsedInv
  BY DEF Init, AloneInv, UsedInv, Used, Counted
<1>3. TypeOK /\ AttemptsInv /\ KeysInv /\ AloneInv /\ UsedInv /\ [Next]_vars => (AloneInv /\ UsedInv)'
  BY <1>1, NextAlone, NextUsed
<1> QED BY <1>2, <1>3, EngineTypes, AlwaysKeys, PTL DEF Spec

\* EffectsCounted: _execute_node_with_recovery saves the attempt before the tool runs, so
\* as long as requests follow each other the stored count is never behind the effects,
\* wherever a handler dies and whatever answers are lost.  With two handlers at once one
\* overwrites the count of the other, and the bound is that of EffectsNeedRequests.
THEOREM EffectsAreCounted ==
    ASSUME OneHandler
    PROVE  Spec => []EffectsCounted
<1>1. ASSUME TypeOK, KeysInv, UsedInv, NEW n \in Nodes
      PROVE  effects[n] <= saved.attempts[n]
  <2>1. saved.attempts[n] \in Nat /\ effects[n] \in Nat
    BY <1>1 DEF TypeOK, Workflow
  <2>2. \A k \in Nat : IsFiniteSet(1 .. k) /\ Cardinality(1 .. k) = k
    BY FS_Interval
  <2>3. Cardinality(Used(n)) <= saved.attempts[n] /\ Cardinality(Used(n)) \in Nat
    BY <1>1, <2>1, <2>2, FS_Subset, FS_CardinalityType DEF UsedInv
  <2> QED BY <1>1, <2>1, <2>3 DEF KeysInv
<1>2. TypeOK /\ KeysInv /\ UsedInv => EffectsCounted
  BY <1>1 DEF EffectsCounted
<1> QED BY <1>2, EngineTypes, AlwaysKeys, AlwaysAlone, PTL
\* The steps at which a handler works on a node.
Busy == Counted \cup {"queued", "policy", "refuse", "begin"}

\* What was announced as succeeded is stored as succeeded, and nobody works on it.
KeptInv ==
    /\ \A n \in Nodes : <<"workflow.node.succeeded", n>> \in outbox =>
          /\ saved.node[n] = "SUCCEEDED"
          /\ \A h \in Handlers : pc[h] # "idle" => mine[h].node[n] = "SUCCEEDED"
    /\ \A h \in Handlers : pc[h] \in Busy => mine[h].node[cur[h]] # "SUCCEEDED"

\* What a step of a run makes of the nodes of its copy.
NodesMove(h) ==
    /\ saved' = mine'[h] \/ (saved' = saved /\ mine'[h] = mine[h])
    /\ \A n \in Nodes : mine[h].node[n] = "SUCCEEDED" => mine'[h].node[n] = "SUCCEEDED"
    /\ \A n \in Nodes : <<"workflow.node.succeeded", n>> \in outbox' =>
          \/ <<"workflow.node.succeeded", n>> \in outbox
          \/ mine'[h].node[n] = "SUCCEEDED" /\ saved' = mine'[h]
    /\ pc'[h] \in Busy => mine'[h].node[cur'[h]] # "SUCCEEDED"

\* A step that writes one node which was not succeeded.
LEMMA OneNodeMoves ==
    ASSUME TypeOK, NEW h \in Handlers, NEW m \in Nodes, NEW s, NEW event,
           mine[h].node[m] # "SUCCEEDED",
           saved' = mine'[h], mine'[h].node = [mine[h].node EXCEPT ![m] = s],
           outbox' = outbox \cup {<<event, m>>},
           event = "workflow.node.succeeded" => s = "SUCCEEDED",
           pc'[h] \in Busy => cur'[h] = m /\ s # "SUCCEEDED"
    PROVE  NodesMove(h)
<1>1. mine[h].node \in [Nodes -> NodeStatus]
  BY DEF TypeOK, Workflow
<1>2. mine'[h].node[m] = s /\ \A n \in Nodes \ {m} : mine'[h].node[n] = mine[h].node[n]
  BY <1>1
<1> QED BY <1>2 DEF NodesMove

\* A step that writes none.
LEMMA NoNodeMoves ==
    ASSUME NEW h \in Handlers, mine'[h].node = mine[h].node,
           saved' = mine'[h] \/ (saved' = saved /\ mine'[h] = mine[h]),
           \A n \in Nodes : <<"workflow.node.succeeded", n>> \in outbox' =>
               <<"workflow.node.succeeded", n>> \in outbox,
           pc'[h] \in Busy => mine[h].node[cur'[h]] # "SUCCEEDED"
    PROVE  NodesMove(h)
BY DEF NodesMove

\* The steps of a run: the loop passes over what succeeded, and writes nothing else than
\* the node that it comes to or works on.
LEMMA RunNodes ==
    ASSUME WorkflowAssumption, TypeOK, AttemptsInv, NEW h \in Handlers, Run(h),
           pc[h] \in Busy => mine[h].node[cur[h]] # "SUCCEEDED"
    PROVE  NodesMove(h)
<1>1. mine[h] \in Workflow /\ cur[h] \in Nodes /\ mine \in [Handlers -> Workflow]
      /\ pc \in [Handlers -> Steps] /\ cur \in [Handlers -> Nodes]
  BY DEF TypeOK
<1>2. \A m \in Nodes : Upcoming(h, m) => mine[h].node[m] # "SUCCEEDED"
  BY DEF Upcoming, Settled, Completed
<1>3. CASE SaveRequest(h)
  <2>1. saved' = mine'[h] /\ mine'[h] = mine[h] /\ outbox' = outbox
    BY <1>1, <1>3 DEF SaveRequest, Save
  <2>2. pc'[h] \notin Busy
    BY <1>1, <1>3 DEF SaveRequest, Goto, Busy, Counted
  <2> QED BY <2>1, <2>2, NoNodeMoves
<1>4. CASE NotDue(h)
  <2>1. pc'[h] = "idle" /\ saved' = saved /\ mine' = mine /\ outbox' = outbox
    BY <1>1, <1>4 DEF NotDue, Goto
  <2> QED BY <2>1, NoNodeMoves DEF Busy, Counted
<1>5. CASE Start(h)
  <2>1. WritesStatus(h, "start", "scan", "RUNNING", <<"workflow.started", 0>>)
    BY <1>5, ScanMoves
  <2> QED BY <2>1, NoNodeMoves DEF WritesStatus, Busy, Counted
<1>6. CASE Finish(h)
  <2>1. PICK from \in {"scan", "finish"} :
            WritesStatus(h, from, "idle", FinalStatus(mine[h]), <<"workflow.completed", FinalStatus(mine[h])>>)
    BY <1>6, SettleMoves
  <2>2. /\ mine'[h].node = mine[h].node /\ saved' = mine'[h] /\ pc'[h] = "idle"
        /\ outbox' = outbox \cup {<<"workflow.completed", FinalStatus(mine[h])>>}
    BY <2>1 DEF WritesStatus
  <2> QED BY <2>2, NoNodeMoves DEF Busy, Counted
<1>7. CASE Block(h) \/ ConditionFails(h) \/ Skip(h)
  <2>1. PICK m \in Nodes : Upcoming(h, m)
                           /\ \E s \in {"BLOCKED", "SKIPPED"} :
                              \E event \in {"workflow.node.blocked", "workflow.node.failed", "workflow.node.skipped"} :
                                  Checkpoint(h, With(h, m, s), <<event, m>>)
    BY <1>7, Zenon DEF Block, ConditionFails, Skip, WorkflowAssumption
  <2>2. PICK s \in {"BLOCKED", "SKIPPED"},
             event \in {"workflow.node.blocked", "workflow.node.failed", "workflow.node.skipped"} :
            Checkpoint(h, With(h, m, s), <<event, m>>)
    BY <2>1
  <2>3. s \in NodeStatus
    BY DEF NodeStatus
  <2> DEFINE w == With(h, m, s)
  <2>4. w \in Workflow /\ w.node = [mine[h].node EXCEPT ![m] = s]
    BY <1>1, <2>3, WithNode
  <2>5. saved' = w /\ mine'[h] = w /\ outbox' = outbox \cup {<<event, m>>}
    BY <2>2, <2>4, Checkpointing
  <2>6. pc'[h] \in {"scan", "finish"}
    BY <1>1, <1>7 DEF Block, ConditionFails, Skip, Goto
  <2> HIDE DEF w
  <2> QED BY <1>2, <2>1, <2>4, <2>5, <2>6, OneNodeMoves DEF Busy, Counted
<1>8. CASE Ready(h)
  <2>1. PICK m \in Nodes, w \in Workflow, to \in {"queued", "policy"} :
            /\ Upcoming(h, m) /\ DepsMet(h, m)
            /\ Goto(h, "scan", to)
            /\ Checkpoint(h, w, <<"workflow.node.ready", m>>)
            /\ w.node = [mine[h].node EXCEPT ![m] = "READY"]
            /\ w.status = mine[h].status /\ w.attempts = mine[h].attempts
            /\ cur' = [cur EXCEPT ![h] = m]
            /\ UNCHANGED <<completed, answer>>
    BY <1>8, ReadyMoves, Zenon
  <2>2. saved' = w /\ mine'[h] = w /\ outbox' = outbox \cup {<<"workflow.node.ready", m>>}
    BY <2>1, Checkpointing
  <2>3. cur'[h] = m
    BY <1>1, <2>1
  <2> QED BY <1>2, <2>1, <2>2, <2>3, OneNodeMoves
<1>9. CASE Queue(h) \/ Refuse(h) \/ Bind(h)
  <2>1. PICK from \in {"queued", "refuse", "bind"}, to \in {"policy", "scan", "call"} : WritesSame(h, from, to)
    BY <1>9, ScanMoves
  <2>2. /\ saved' = mine'[h] /\ mine'[h] = mine[h] /\ cur' = cur /\ pc[h] \in Busy
        /\ \A n \in Nodes : <<"workflow.node.succeeded", n>> \in outbox' => <<"workflow.node.succeeded", n>> \in outbox
    BY <2>1 DEF WritesSame, Busy, Counted
  <2> QED BY <2>2, NoNodeMoves
<1>10. ASSUME NEW from \in Busy, NEW to, NEW s, NEW event, Writes(h, from, to, cur[h], s, event),
              event = "workflow.node.succeeded" => s = "SUCCEEDED", to \in Busy => s # "SUCCEEDED"
       PROVE  NodesMove(h)
  <2>1. /\ saved' = mine'[h] /\ mine'[h].node = [mine[h].node EXCEPT ![cur[h]] = s]
        /\ outbox' = outbox \cup {<<event, cur[h]>>} /\ pc[h] = from /\ pc'[h] = to /\ cur' = cur
    BY <1>10 DEF Writes
  <2> QED BY <1>1, <1>10, <2>1, OneNodeMoves
<1>11. CASE EvaluatePolicy(h)
  <2>1. PICK s \in {"READY", "DENIED", "BLOCKED"}, to \in {"begin", "refuse"} :
            Writes(h, "policy", to, cur[h], s, "workflow.node.policy_evaluated")
    BY <1>11, ScanMoves
  <2>2. "policy" \in Busy
    BY DEF Busy
  <2> QED BY <1>10, <2>1, <2>2
<1>12. CASE Begin(h)
  <2>1. PICK w \in Workflow, to \in {"call", "bind", "settle"} :
            /\ Goto(h, "begin", to) /\ Checkpoint(h, w, <<"workflow.node.started", cur[h]>>)
            /\ w.node = [mine[h].node EXCEPT ![cur[h]] = "RUNNING"]
            /\ UNCHANGED cur
    BY <1>12, BeginMoves
  <2>2. pc[h] = "begin" /\ saved' = w /\ mine'[h] = w
        /\ outbox' = outbox \cup {<<"workflow.node.started", cur[h]>>}
    BY <1>1, <2>1, Checkpointing DEF Goto
  <2>3. mine[h].node[cur[h]] # "SUCCEEDED"
    BY <2>2 DEF Busy
  <2>4. mine'[h].node = [mine[h].node EXCEPT ![cur[h]] = "RUNNING"] /\ saved' = mine'[h] /\ cur' = cur
    BY <2>1, <2>2
  <2>5. outbox' = outbox \cup {<<"workflow.node.started", cur[h]>>}
    BY <2>2
  <2>6. PICK m \in Nodes : m = cur[h]
    BY <1>1
  <2>7. PICK s, event : s = "RUNNING" /\ event = "workflow.node.started"
    OBVIOUS
  <2>8. mine[h].node[m] # "SUCCEEDED" /\ (pc'[h] \in Busy => cur'[h] = m)
    BY <2>3, <2>4, <2>6
  <2> QED BY <2>4, <2>5, <2>6, <2>7, <2>8, OneNodeMoves
<1>13. CASE Call(h) \/ Undo(h)
  <2>1. saved' = saved /\ mine' = mine /\ cur' = cur /\ outbox' = outbox /\ pc[h] \in Busy
    BY <1>13 DEF Call, Undo, Goto, Counted, Busy
  <2> QED BY <2>1, NoNodeMoves
<1>14. CASE Wait(h)
  <2>1. PICK w \in Workflow :
            /\ Goto(h, "settle", "idle")
            /\ Checkpoint(h, w, <<"workflow.approval.required", cur[h]>>)
            /\ w.node = [mine[h].node EXCEPT ![cur[h]] = "WAITING_APPROVAL"]
    BY <1>14, WaitMoves
  <2>2. pc[h] = "settle" /\ pc'[h] = "idle" /\ saved' = w /\ mine'[h] = w
        /\ outbox' = outbox \cup {<<"workflow.approval.required", cur[h]>>}
    BY <1>1, <2>1, Checkpointing DEF Goto
  <2>3. mine[h].node[cur[h]] # "SUCCEEDED" /\ pc'[h] \notin Busy
    BY <2>2 DEF Busy, Counted
  <2>4. mine'[h].node = [mine[h].node EXCEPT ![cur[h]] = "WAITING_APPROVAL"] /\ saved' = mine'[h]
    BY <2>1, <2>2
  <2>5. outbox' = outbox \cup {<<"workflow.approval.required", cur[h]>>}
    BY <2>2
  <2>6. PICK m \in Nodes : m = cur[h]
    BY <1>1
  <2>7. PICK s, event : s = "WAITING_APPROVAL" /\ event = "workflow.approval.required"
    OBVIOUS
  <2>8. mine[h].node[m] # "SUCCEEDED" /\ (pc'[h] \in Busy => cur'[h] = m)
    BY <2>3, <2>4, <2>6
  <2> QED BY <2>4, <2>5, <2>6, <2>7, <2>8, OneNodeMoves
<1>15. CASE Succeed(h)
  <2>1. Writes(h, "settle", "scan", cur[h], "SUCCEEDED", "workflow.node.succeeded")
    BY <1>15, SettleMoves
  <2>2. "settle" \in Busy /\ "scan" \notin Busy
    BY DEF Busy, Counted
  <2> QED BY <1>10, <2>1, <2>2
<1>16. CASE Fail(h) \/ ScheduleRetry(h) \/ Compensate(h) \/ Compensated(h) \/ NotCompensated(h)
  <2>1. PICK from \in {"settle", "undone", "retry", "compensate"},
             to \in {"retry", "compensate", "finish", "idle", "undo", "scan"},
             s \in {"FAILED", "RETRYING", "COMPENSATING", "COMPENSATED"},
             event \in {"workflow.node.failed", "workflow.compensation.completed",
                        "workflow.node.retrying", "workflow.compensation.started"} :
            Writes(h, from, to, cur[h], s, event)
    BY <1>16, SettleMoves
  <2>2. from \in Busy /\ s # "SUCCEEDED" /\ event # "workflow.node.succeeded"
    BY DEF Busy, Counted
  <2> QED BY <1>10, <2>1, <2>2
<1> QED BY <1>3, <1>4, <1>5, <1>6, <1>7, <1>8, <1>9, <1>11, <1>12, <1>13, <1>14, <1>15, <1>16 DEF Run

\* A request that retries no node by name takes up nothing that succeeded.
LEMMA ArriveKeeps ==
    ASSUME TypeOK, "retry" \notin Requests, NEW h \in Handlers, Arrive(h)
    PROVE  /\ UNCHANGED <<saved, outbox, cur>> /\ pc'[h] \in {"start", "save", "cancel"}
           /\ \A n \in Nodes : saved.node[n] = "SUCCEEDED" => mine'[h].node[n] = "SUCCEEDED"
<1>1. /\ saved \in Workflow /\ saved.node \in [Nodes -> NodeStatus]
      /\ mine \in [Handlers -> Workflow] /\ pc \in [Handlers -> Steps]
  BY DEF TypeOK, Workflow
<1>2. ASSUME NEW kind, NEW w, NEW step, Receive(h, kind, w, step)
      PROVE  mine'[h] = w /\ pc'[h] = step /\ UNCHANGED <<saved, outbox, cur>> /\ kind \in Requests
  BY <1>1, <1>2 DEF Receive
<1>3. CASE Execute(h)
  BY <1>2, <1>3 DEF Execute
<1>4. CASE Resume(h)
  <2>1. PICK expired \in SUBSET {n \in Nodes : saved.node[n] = "WAITING_APPROVAL"},
             due \in SUBSET {n \in Nodes : saved.node[n] = "RETRYING"} :
            Receive(h, "resume", Resumed(saved, expired, due), "save")
    BY <1>4 DEF Resume
  <2>2. \A n \in Nodes : saved.node[n] = "SUCCEEDED" => Resumed(saved, expired, due).node[n] = "SUCCEEDED"
    BY <1>1 DEF Resumed, Workflow
  <2> QED BY <1>2, <2>1, <2>2
<1>5. CASE \E m \in Nodes : RetryNode(h, m)
  BY <1>2, <1>5 DEF RetryNode
<1>6. CASE Cancel(h)
  <2>1. \A n \in Nodes : saved.node[n] = "SUCCEEDED" => Cancelled(saved).node[n] = "SUCCEEDED"
    BY <1>1 DEF Cancelled, Workflow
  <2> QED BY <1>2, <1>6, <2>1 DEF Cancel
<1> QED BY <1>3, <1>4, <1>5, <1>6 DEF Arrive

\* What succeeded stays so as long as requests follow each other and none retries a node.
LEMMA NextKept ==
    ASSUME WorkflowAssumption, OneHandler, "retry" \notin Requests,
           TypeOK, AttemptsInv, KeptInv, [Next]_vars
    PROVE  KeptInv'
<1>1. ASSUME NEW h \in Handlers, Arrive(h)
      PROVE  KeptInv'
  <2>1. /\ UNCHANGED <<saved, outbox, cur>> /\ pc'[h] \in {"start", "save", "cancel"}
        /\ \A n \in Nodes : saved.node[n] = "SUCCEEDED" => mine'[h].node[n] = "SUCCEEDED"
    BY <1>1, ArriveKeeps
  <2>2. \A g \in Handlers : g = h
    BY DEF OneHandler
  <2> QED BY <2>1, <2>2 DEF KeptInv, Busy, Counted
<1>2. ASSUME NEW h \in Handlers, Run(h)
      PROVE  KeptInv'
  <2>1. NodesMove(h)
    BY <1>2, RunNodes DEF KeptInv
  <2>2. pc[h] # "idle" /\ \A g \in Handlers : g = h
    BY <1>2, RunsBusy DEF OneHandler
  <2>3. ASSUME NEW n \in Nodes, <<"workflow.node.succeeded", n>> \in outbox'
        PROVE  mine'[h].node[n] = "SUCCEEDED" /\ saved'.node[n] = "SUCCEEDED"
    <3>1. CASE <<"workflow.node.succeeded", n>> \in outbox
      <4>1. mine[h].node[n] = "SUCCEEDED" /\ saved.node[n] = "SUCCEEDED"
        BY <2>2, <3>1 DEF KeptInv
      <4> QED BY <2>1, <4>1 DEF NodesMove
    <3>2. CASE <<"workflow.node.succeeded", n>> \notin outbox
      <4> QED BY <2>1, <2>3, <3>2 DEF NodesMove
    <3> QED BY <3>1, <3>2
  <2> QED BY <2>1, <2>2, <2>3 DEF KeptInv, NodesMove
<1>3. ASSUME NEW h \in Handlers, Die(h)
      PROVE  KeptInv'
  <2>1. pc'[h] = "idle" /\ UNCHANGED <<saved, outbox, mine, cur>> /\ \A g \in Handlers : g = h
    BY <1>3 DEF Die, TypeOK, OneHandler
  <2> QED BY <2>1 DEF KeptInv, Busy, Counted
<1>4. CASE Quiet \/ UNCHANGED vars
  BY <1>4 DEF Quiet, vars, handlerVars, KeptInv
<1> QED BY <1>1, <1>2, <1>3, <1>4 DEF Next

\* CompletedNotRestarted: recovery restarts no completed node.  _run_workflow passes over
\* what succeeded, and resume leaves it alone; it takes a request that retries the node by
\* name, or two requests at once, to start it again.
THEOREM CompletedStaysDone ==
    ASSUME OneHandler, "retry" \notin Requests
    PROVE  Spec => []CompletedNotRestarted
<1>1. WorkflowAssumption
  BY WorkflowAssumption
<1>2. Init => KeptInv
  BY DEF Init, KeptInv, Busy, Counted
<1>3. TypeOK /\ AttemptsInv /\ KeptInv /\ [Next]_vars => KeptInv'
  BY <1>1, NextKept
<1>4. ASSUME TypeOK, KeptInv
      PROVE  CompletedNotRestarted
  <2> SUFFICES ASSUME NEW h \in Handlers, pc[h] = "call", <<"workflow.node.succeeded", cur[h]>> \in outbox
               PROVE  FALSE
    BY DEF CompletedNotRestarted
  <2> QED BY <1>4 DEF KeptInv, Busy, Counted, TypeOK
<1> QED BY <1>2, <1>3, <1>4, EngineTypes, PTL DEF Spec
=============================================================================
