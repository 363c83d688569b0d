----------------------------- MODULE WorkflowStore -----------------------------
(***************************************************************************)
(* The SQL store of workflows and the outbox of their events               *)
(* (apps/api db/repositories.py, main.py; ai-agent workflows/events.py).   *)
(*                                                                         *)
(* Handlers of the API load one workflow and save it, each save with or    *)
(* without an event, in transactions of PostgreSQL at its default          *)
(* isolation, READ COMMITTED.  Drainers publish the events of the outbox.  *)
(* A row of the workflow table stands for its version, whether updated_at  *)
(* differs from created_at, and the rest of its columns (contents); the    *)
(* rows of nodes and edges, which every save replaces, for the save that   *)
(* wrote them.  Nothing reads the counter of attempts; it is left out.     *)
(***************************************************************************)
EXTENDS Naturals, Sequences, FiniteSets

CONSTANTS
    Handlers, Drainers,
    NoOne,               \* nobody holds a lock
    Contents,            \* columns of a workflow row other than version and updated_at
    Limit,               \* limit of a drain
    Budgets              \* bounds: how many transactions, events among them, drains and
                         \* crashes a behaviour has

ASSUME StoreAssumption ==
    /\ NoOne \notin Handlers
    /\ Contents # {}
    /\ Limit \in Nat \ {0}
    /\ Budgets \subseteq [saves : Nat, events : Nat, drains : Nat, crashes : Nat]

VARIABLES
    row,        \* the committed row of the workflow
    nodes,      \* the save whose node and edge rows are committed
    rowLock, nodeLock,   \* the transaction that holds the row, the node rows
    outbox,     \* committed event -> status; an event is named by its save
    handler,    \* handler -> its transaction and the workflow in its memory
    drainer,    \* drainer -> where its drain stands
    topic,      \* the events published, in order
    saves,      \* transactions begun so far; a save is named by its number
    log,        \* history: saves in the order of their commits
    unchecked,  \* history: saves whose row had nothing to update
    rewound,    \* history: saves that had read the row when one set its version back
    failed,     \* history: events some publication of which failed
    shared,     \* history: events that two drains held at once
    drains, crashes,
    budget

storeVars == <<row, nodes, rowLock, nodeLock, handler, saves, log, unchecked, rewound>>
drainVars == <<drainer, topic, failed, shared, drains>>
vars == <<storeVars, drainVars, outbox, crashes, budget>>

Saves == 0 .. budget.saves
Versions == 1 .. (2 * budget.saves + 1)
\* workflow_nodes, workflow_edges: the rows that one save wrote.
NodeRows == Saves

\* workflow_event_outbox: the status of a row.
OutboxStatus == {"PENDING", "PUBLISHED", "FAILED"}

\* workflows: a row.
Rows == [version : Versions, touched : BOOLEAN, contents : Contents, save : Saves]
Idle == [pc |-> "idle"]

TypeOK ==
    /\ row \in Rows
    /\ nodes \in NodeRows
    /\ {rowLock, nodeLock} \subseteq Handlers \cup {NoOne}
    /\ \A e \in DOMAIN outbox : e \in 1 .. saves /\ outbox[e] \in OutboxStatus
    /\ \A h \in Handlers : handler[h].pc \in
          {"idle", "loading", "ready", "begun", "updated", "waiting", "replaced"}
    /\ \A d \in Drainers : drainer[d].pc \in {"idle", "publish", "published", "raised"}
    /\ saves \in Saves

\* The workflow was planned: save_workflow inserted it, updated_at is created_at.
Init ==
    /\ \E c \in Contents : row = [version |-> 1, touched |-> FALSE, contents |-> c, save |-> 0]
    /\ nodes = 0
    /\ rowLock = NoOne /\ nodeLock = NoOne
    /\ outbox = <<>> /\ topic = <<>> /\ log = <<0>>
    /\ handler = [h \in Handlers |-> Idle]
    /\ drainer = [d \in Drainers |-> Idle]
    /\ unchecked = {} /\ rewound = {} /\ failed = {} /\ shared = {}
    /\ saves = 0 /\ drains = 0 /\ crashes = 0
    /\ budget \in Budgets

----------------------------------------------------------------------------
(* handlers *)

Holding(h, lock) == IF lock = h THEN NoOne ELSE lock

\* Mutant: the session is not closed after an error.
RollBackKeepsLocks(h) ==
    /\ handler' = [handler EXCEPT ![h] = Idle]
    /\ UNCHANGED <<row, nodes, rowLock, nodeLock, saves, log, unchecked, rewound>>

\* A transaction ends without effect: its locks are free again, the request fails.
RollBack(h) ==
    /\ rowLock' = Holding(h, rowLock) /\ nodeLock' = Holding(h, nodeLock)
    /\ handler' = [handler EXCEPT ![h] = Idle]
    /\ UNCHANGED <<row, nodes, saves, log, unchecked, rewound>>

\* get_workflow: the row and then, with selectinload, the rows of its nodes.
LoadRow(h) ==
    /\ handler[h].pc = "idle" /\ saves < budget.saves
    /\ handler' = [handler EXCEPT ![h] = [pc |-> "loading", row |-> row]]
    /\ UNCHANGED <<row, nodes, rowLock, nodeLock, saves, log, unchecked, rewound>>

LoadNodes(h) ==
    /\ handler[h].pc = "loading"
    /\ handler' = [handler EXCEPT ![h] =
          [pc |-> "ready", version |-> @.row.version, row |-> @.row, nodes |-> nodes]]
    /\ UNCHANGED <<row, nodes, rowLock, nodeLock, saves, log, unchecked, rewound>>

\* save_workflow, save_workflow_with_event: the row as session.get finds it; created_at of
\* an event is the time its transaction began.  The engine adds one to the version of its
\* copy for a save, and two for the first checkpoint of a run (_run_workflow and then
\* _checkpoint).
Begin(h) ==
    /\ handler[h].pc = "ready" /\ saves < budget.saves
    /\ saves' = saves + 1
    /\ \E c \in Contents, event \in BOOLEAN, up \in {1, 2} :
          /\ event => Cardinality(DOMAIN outbox) < budget.events
          /\ handler' = [handler EXCEPT ![h] =
                [pc |-> "begun", version |-> @.version + up, seen |-> row, contents |-> c,
                 event |-> event, save |-> saves + 1, deleted |-> 0]]
    /\ UNCHANGED <<row, nodes, rowLock, nodeLock, log, unchecked, rewound>>

\* Attributes set to the value they have are not written: without any other, no UPDATE.
NothingToUpdate(t) ==
    /\ t.version = t.seen.version /\ t.contents = t.seen.contents
    /\ ~t.seen.touched

\* The columns an UPDATE writes: the mapper's next version when the handler's is the one
\* in the row; updated_at is set to created_at, or by onupdate when it has that value.
Written(t) ==
    [version |-> IF t.version = t.seen.version THEN t.seen.version + 1 ELSE t.version,
     touched |-> ~t.seen.touched, contents |-> t.contents, save |-> t.save]

\* Mutant: the row is written at the end, without comparing its version or locking it.
UpdateRowUnchecked(h) ==
    /\ handler[h].pc = "begun"
    /\ handler' = [handler EXCEPT ![h].pc = "updated"]
    /\ UNCHANGED <<row, nodes, rowLock, nodeLock, saves, log, unchecked, rewound>>

\* Mutant: the UPDATE names the row by its key only.
UpdateRowBlind(h) ==
    LET t == handler[h] IN
    /\ t.pc = "begun"
    /\ handler' = [handler EXCEPT ![h].pc = "updated"]
    /\ IF NothingToUpdate(t)
       THEN unchecked' = unchecked \cup {t.save} /\ UNCHANGED rowLock
       ELSE rowLock = NoOne /\ rowLock' = h /\ UNCHANGED unchecked
    /\ UNCHANGED <<row, nodes, nodeLock, saves, log, rewound>>

\* The flush: UPDATE ... WHERE version is the one seen (version_id_col) waits for the row,
\* and without a match raises StaleDataError.
UpdateRow(h) ==
    LET t == handler[h] IN
    /\ t.pc = "begun"
    /\ IF NothingToUpdate(t)
       THEN /\ handler' = [handler EXCEPT ![h].pc = "updated"]
            /\ unchecked' = unchecked \cup {t.save}
            /\ UNCHANGED <<row, nodes, rowLock, nodeLock, saves, log, rewound>>
       ELSE /\ rowLock = NoOne
            /\ IF row.version = t.seen.version
               THEN /\ rowLock' = h
                    /\ handler' = [handler EXCEPT ![h].pc = "updated"]
                    /\ UNCHANGED <<row, nodes, nodeLock, saves, log, unchecked, rewound>>
               ELSE RollBack(h)

\* DELETE of the nodes waits for the transaction that deleted them before.
WaitForNodes(h) ==
    /\ handler[h].pc = "updated" /\ nodeLock # NoOne
    /\ handler' = [handler EXCEPT ![h].pc = "waiting", ![h].deleted = nodes]
    /\ UNCHANGED <<row, nodes, rowLock, nodeLock, saves, log, unchecked, rewound>>

\* The nodes are deleted and inserted.  After waiting for a transaction that committed, the
\* DELETE has not seen the new nodes and the INSERT violates the unique key.
ReplaceNodes(h) ==
    LET t == handler[h] IN
    /\ t.pc \in {"updated", "waiting"} /\ nodeLock = NoOne
    /\ IF t.pc = "waiting" /\ t.deleted # nodes THEN RollBack(h)
       ELSE /\ nodeLock' = h
            /\ handler' = [handler EXCEPT ![h].pc = "replaced"]
            /\ UNCHANGED <<row, nodes, rowLock, saves, log, unchecked, rewound>>

\* The row after the commit: a save that had nothing to update leaves a row that is as
\* much its own as of the save before, unless it has changed meanwhile.
Committed(h) ==
    LET t == handler[h] IN
    IF rowLock = h THEN Written(t)
    ELSE IF row = t.seen THEN [row EXCEPT !.save = t.save]
    ELSE row

Commit(h) ==
    LET t == handler[h] IN
    /\ t.pc = "replaced"
    /\ row' = Committed(h) /\ nodes' = t.save
    /\ rowLock' = Holding(h, rowLock) /\ nodeLock' = NoOne
    /\ outbox' = IF t.event
                 THEN [e \in DOMAIN outbox \cup {t.save} |->
                          IF e = t.save THEN "PENDING" ELSE outbox[e]]
                 ELSE outbox
    /\ log' = Append(log, t.save)
    /\ rewound' = IF row'.version < row.version
                  THEN rewound \cup {handler[g].save : g \in {f \in Handlers : handler[f].pc = "begun"}}
                  ELSE rewound
    /\ \E more \in BOOLEAN : handler' = [handler EXCEPT ![h] =
          IF ~more THEN Idle
          ELSE [pc |-> "ready", version |-> t.version, row |-> Written(t), nodes |-> t.save]]
    /\ UNCHANGED <<saves, unchecked>>

HandlerStep(h) ==
    \/ Commit(h) /\ UNCHANGED <<drainVars, crashes, budget>>
    \/ (LoadNodes(h) \/ UpdateRow(h) \/ WaitForNodes(h) \/ ReplaceNodes(h))
       /\ UNCHANGED <<drainVars, outbox, crashes, budget>>

\* A new request, or the next save of one.
Request(h) == (LoadRow(h) \/ Begin(h)) /\ UNCHANGED <<drainVars, outbox, crashes, budget>>

\* The process of a handler dies: the database rolls back.
Die(h) ==
    /\ handler[h].pc # "idle" /\ crashes < budget.crashes /\ crashes' = crashes + 1
    /\ RollBack(h)
    /\ UNCHANGED <<drainVars, outbox, budget>>

----------------------------------------------------------------------------
(* drainers *)

\* pending_workflow_events: the oldest ones, by created_at, as many as the limit allows.
PendingEvents ==
    LET pending == {e \in DOMAIN outbox : outbox[e] # "PUBLISHED"}
    IN  {e \in pending : Cardinality({f \in pending : f < e}) < Limit}

\* The events that a drain has not marked yet.
Held(d) == IF drainer[d].pc = "idle" THEN {} ELSE drainer[d].events

\* publish_pending_events, drain
Drain(d) ==
    /\ drainer[d].pc = "idle" /\ drains < budget.drains /\ drains' = drains + 1
    /\ PendingEvents # {}
    /\ drainer' = [drainer EXCEPT ![d] = [pc |-> "publish", events |-> PendingEvents]]
    /\ shared' = shared \cup
          {e \in PendingEvents : \E other \in Drainers \ {d} : e \in Held(other)}
    /\ UNCHANGED <<storeVars, outbox, topic, failed, crashes, budget>>

\* Mutant: the newest one first.
NewestEvent(d) == CHOOSE e \in drainer[d].events : \A f \in drainer[d].events : f <= e

\* The drain goes on with the oldest event that it holds.
Event(d) == CHOOSE e \in drainer[d].events : \A f \in drainer[d].events : e <= f

Publish(d) ==
    /\ drainer[d].pc = "publish"
    /\ topic' = Append(topic, Event(d))
    /\ drainer' = [drainer EXCEPT ![d].pc = "published"]
    /\ UNCHANGED <<storeVars, outbox, failed, shared, drains, crashes, budget>>

PublishRaises(d) ==
    /\ drainer[d].pc = "publish"
    /\ failed' = failed \cup {Event(d)}
    /\ drainer' = [drainer EXCEPT ![d].pc = "raised"]
    /\ UNCHANGED <<storeVars, outbox, topic, shared, drains, crashes, budget>>

\* The status becomes this one whatever it is now.
SetStatus(d, status) ==
    /\ outbox' = [outbox EXCEPT ![Event(d)] = status]
    /\ drainer' = [drainer EXCEPT ![d] =
          IF @.events = {Event(d)} THEN Idle
          ELSE [pc |-> "publish", events |-> @.events \ {Event(d)}]]
    /\ UNCHANGED <<storeVars, topic, failed, shared, drains, crashes, budget>>

\* Mutant: the mark is not committed.
MarkPublishedInVain(d) == drainer[d].pc = "published" /\ SetStatus(d, outbox[Event(d)])

MarkPublished(d) == drainer[d].pc = "published" /\ SetStatus(d, "PUBLISHED")

MarkFailed(d) == drainer[d].pc = "raised" /\ SetStatus(d, "FAILED")

DrainerDies(d) ==
    /\ drainer[d].pc # "idle" /\ crashes < budget.crashes /\ crashes' = crashes + 1
    /\ drainer' = [drainer EXCEPT ![d] = Idle]
    /\ UNCHANGED <<storeVars, outbox, topic, failed, shared, drains, budget>>

Next ==
    \/ \E h \in Handlers : Request(h) \/ HandlerStep(h) \/ Die(h)
    \/ \E d \in Drainers : Drain(d) \/ Publish(d) \/ PublishRaises(d)
                           \/ MarkPublished(d) \/ MarkFailed(d) \/ DrainerDies(d)

Spec == Init /\ [][Next]_vars

----------------------------------------------------------------------------
(* properties *)

Before(s, i, j) == \E a, b \in DOMAIN s : a < b /\ s[a] = i /\ s[b] = j
Published == {topic[i] : i \in DOMAIN topic}
Copies(e) == Cardinality({i \in DOMAIN topic : topic[i] = e})

\* An event is published twice only if a process died or two drains held it at once.
\* (drain marks each event after publishing it.)
DuplicateExplained ==
    \A e \in DOMAIN outbox : Copies(e) > 1 => crashes > 0 \/ e \in shared

\* An event that began and committed before another one is overtaken by it only after a
\* publication of its own has failed.  (ORDER BY created_at in pending_workflow_events.)
OvertakenFailedFirst ==
    \A i, j \in DOMAIN outbox :
        i < j /\ Before(log, i, j) /\ j \in Published =>
            \/ i \in failed
            \/ \E a \in DOMAIN topic : topic[a] = i /\ \A b \in 1 .. a : topic[b] # j

\* The committed row and nodes of a workflow come from one save, unless the one that wrote
\* the nodes had nothing to update in the row, so that no version was compared.
\* (version_id_col and the locks that the order of save_workflow's statements takes.)
TornExplained == row.save # nodes => nodes \in unchecked

SameColumns(r, s) == r.version = s.version /\ r.touched = s.touched /\ r.contents = s.contents

\* The row that a save overwrites is the one that its transaction has read, unless in
\* between a save of an older copy has set the version back: then a version can come again,
\* and the comparison takes another row for the one that was read.
\* (version_id_col compares what session.get saw; save_workflow assigns model.version.)
OverwriteExplained ==
    \A h \in Handlers :
        rowLock = h => SameColumns(row, handler[h].seen) \/ handler[h].save \in rewound

\* h cannot go on until g has ended.
WaitsFor(h, g) ==
    \/ handler[h].pc = "begun" /\ ~NothingToUpdate(handler[h]) /\ rowLock = g
    \/ handler[h].pc \in {"updated", "waiting"} /\ nodeLock = g

\* Saves that wait for each other's rows never wait in a circle: some transaction that
\* has begun waits for nobody.  (save_workflow updates the row first and then replaces the
\* nodes, and a session that ends gives its locks back.)
NoCircularWait ==
    LET begun == {h \in Handlers :
                     handler[h].pc \in {"begun", "updated", "waiting", "replaced"}}
    IN  begun # {} => \E h \in begun : \A g \in Handlers : ~WaitsFor(h, g)
=============================================================================
