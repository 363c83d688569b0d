-------------------------- MODULE WorkflowStoreProofs --------------------------
(***************************************************************************)
(* What WorkflowStore guarantees for any number of handlers, drainers,     *)
(* saves, events and crashes and any limit of a drain: the types, when the *)
(* row and the nodes of a workflow can be of two saves, when an event is   *)
(* published twice and when it overtakes an older one.                     *)
(***************************************************************************)
EXTENDS WorkflowStore, FiniteSetTheorems, WellFoundedInduction, TLAPS

----------------------------------------------------------------------------
(* the workflow row and its handlers *)

InTransaction == {"begun", "updated", "waiting", "replaced"}
AnyRow == [version : Nat, touched : BOOLEAN, contents : Contents, save : Nat]

\* What a handler holds: a row, a workflow that it loaded or committed, or a transaction.
Loading == [pc : {"loading"}, row : AnyRow]
Ready == [pc : {"ready"}, version : Nat, row : AnyRow, nodes : Nat]
Transaction ==
    [ pc : InTransaction, version : Nat, seen : AnyRow, contents : Contents, event : BOOLEAN,
      save : Nat, deleted : Nat ]

Holdings == {Idle} \cup Loading \cup Ready \cup Transaction
HandlerType == handler \in [Handlers -> Holdings]

\* A handler counts one or two versions for each save that it begins; the row is at most
\* twice as many versions ahead as saves were begun, and a save begins after the row that
\* it has seen.
Fits(t, n) ==
    /\ t.pc = "loading" => t.row.version \in 1 .. 2 * n + 1
    /\ t.pc = "ready" => t.version \in 1 .. 2 * n + 1
    /\ t.pc \in InTransaction => /\ t.version \in 1 .. 2 * n + 1
                                 /\ t.seen.version \in 1 .. 2 * n
                                 /\ t.save \in 1 .. n

HandlerBounds == \A h \in Handlers : Fits(handler[h], saves)

RowBounds ==
    /\ row \in AnyRow /\ row.version \in 1 .. 2 * saves + 1 /\ row.save \in 0 .. saves
    /\ nodes \in 0 .. saves
    /\ {rowLock, nodeLock} \subseteq Handlers \cup {NoOne}

DrainerType ==
    drainer \in [Drainers -> {Idle} \cup
                   [pc : {"publish", "published", "raised"}, events : (SUBSET Nat) \ {{}}]]

\* The events are saves, and what is drained or published was committed.
OutboxBounds ==
    /\ \A e \in DOMAIN outbox : e \in 1 .. saves /\ outbox[e] \in OutboxStatus
    /\ \A d \in Drainers : Held(d) \subseteq DOMAIN outbox
    /\ topic \in Seq(Nat) /\ Published \subseteq DOMAIN outbox

BoundsInv ==
    /\ budget \in Budgets /\ saves \in Saves /\ saves \in Nat
    /\ HandlerType /\ HandlerBounds /\ RowBounds /\ DrainerType /\ OutboxBounds

\* Past its UPDATE a transaction holds the row, or there was nothing to update.
UpdatedInv ==
    \A h \in Handlers : handler[h].pc \in {"updated", "waiting", "replaced"} =>
                           rowLock = h \/ handler[h].save \in unchecked

TornInv == TornExplained /\ UpdatedInv

\* The log has every save at most once, and none before its commit; events are committed.
Logged == {log[n] : n \in DOMAIN log}

LogInv ==
    /\ log \in Seq(Nat) /\ Logged \subseteq 0 .. saves
    /\ \A m, n \in DOMAIN log : log[m] = log[n] => m = n
    /\ DOMAIN outbox \subseteq Logged
    /\ \A h \in Handlers : handler[h].pc \in InTransaction => handler[h].save \notin Logged
    /\ \A g, h \in Handlers :
          handler[g].pc \in InTransaction /\ handler[h].pc \in InTransaction
          /\ handler[g].save = handler[h].save => g = h

\* A published event has gone to the topic, and a drainer that is about to mark its event
\* has published it or failed to.
MarkInv ==
    /\ \A e \in DOMAIN outbox : outbox[e] = "PUBLISHED" => e \in Published
    /\ \A d \in Drainers : /\ drainer[d].pc = "published" => Event(d) \in Published
                           /\ drainer[d].pc = "raised" => Event(d) \in failed

\* An event that a drain holds has nobody in front of it whom it could overtake.
FrontInv ==
    \A d \in Drainers, i, j \in DOMAIN outbox :
        i < j /\ Before(log, i, j) /\ j \in Held(d) => i \in Held(d) \cup failed \cup Published

\* While nobody has died, an event that no two drains held at once is published by the one
\* that holds it, and marked by the same.
Marking(d, e) == drainer[d].pc = "published" /\ Event(d) = e

Once(e) ==
    /\ \A c, d \in Drainers : e \in Held(c) /\ e \in Held(d) => c = d
    /\ outbox[e] = "PUBLISHED" => \A d \in Drainers : e \notin Held(d)
    /\ e \in Published => outbox[e] = "PUBLISHED" \/ \E d \in Drainers : Marking(d, e)
    /\ \A a, b \in DOMAIN topic : topic[a] = e /\ topic[b] = e => a = b

OnceInv == crashes \in Nat /\ (crashes = 0 => \A e \in DOMAIN outbox \ shared : Once(e))

\* The steps of a handler, and of a drainer.
HandlerActs(h) == Request(h) \/ HandlerStep(h) \/ Die(h)
DrainerActs(d) ==
    \/ Drain(d) \/ Publish(d) \/ PublishRaises(d)
    \/ MarkPublished(d) \/ MarkFailed(d) \/ DrainerDies(d)

\* Every step is one of a handler or of a drainer.
LEMMA Steps ==
    ASSUME [Next]_vars
    PROVE  \/ \E h \in Handlers : HandlerActs(h)
           \/ \E d \in Drainers : DrainerActs(d)
           \/ UNCHANGED vars
  BY DEF Next, HandlerActs, DrainerActs

\* What a handler holds tells where it stands.
LEMMA HandlerShape ==
    ASSUME HandlerType, NEW h \in Handlers
    PROVE  /\ handler[h] \in Holdings
           /\ handler[h].pc = "idle" => handler[h] = Idle
           /\ handler[h].pc = "loading" => handler[h] \in Loading
           /\ handler[h].pc = "ready" => handler[h] \in Ready
           /\ handler[h].pc \in InTransaction => handler[h] \in Transaction
  BY DEF HandlerType, Holdings, Idle, Loading, Ready, Transaction, InTransaction

\* What a save writes is a row, at most one version ahead of the one it has seen.
LEMMA WrittenRow ==
    ASSUME NEW n \in Nat, NEW t \in Transaction, Fits(t, n)
    PROVE  Written(t) \in AnyRow /\ Written(t).version \in 1 .. 2 * n + 1 /\ Written(t).save = t.save
  BY DEF Transaction, AnyRow, Fits, Written

\* A handler changes what it holds itself, and keeps its type.
LEMMA HandlerChanges ==
    ASSUME BoundsInv, NEW h \in Handlers, HandlerActs(h)
    PROVE  /\ saves' \in {saves, saves + 1} /\ saves' <= budget.saves
           /\ handler'[h] \in Holdings /\ Fits(handler'[h], saves')
           /\ handler' = [handler EXCEPT ![h] = handler'[h]]
           /\ UNCHANGED <<drainVars, budget>>
  <1> DEFINE Good == /\ handler'[h] \in Holdings /\ Fits(handler'[h], saves')
                     /\ handler' = [handler EXCEPT ![h] = handler'[h]]
             t == handler[h]
  <1>0. /\ handler \in [Handlers -> Holdings] /\ Fits(t, saves)
        /\ saves \in Nat /\ saves <= budget.saves /\ budget.saves \in Nat
        /\ row \in AnyRow /\ row.version \in 1 .. 2 * saves + 1 /\ nodes \in Nat
    BY StoreAssumption DEF BoundsInv, HandlerType, HandlerBounds, RowBounds, Saves
  <1>1. ASSUME NEW v, v \in Holdings, Fits(v, saves'), handler' = [handler EXCEPT ![h] = v]
        PROVE  Good
    BY <1>0, <1>1
  <1>2. ASSUME handler' = [handler EXCEPT ![h] = Idle] PROVE Good
    <2>1. Idle \in Holdings /\ Fits(Idle, saves')
      BY DEF Holdings, Idle, Fits, InTransaction
    <2> QED BY <1>1, <1>2, <2>1
  <1>3. ASSUME NEW pc \in InTransaction, t \in Transaction, saves' = saves,
               handler' = [handler EXCEPT ![h].pc = pc]
        PROVE  Good
    <2>1. [t EXCEPT !.pc = pc] \in Transaction /\ Fits([t EXCEPT !.pc = pc], saves)
      BY <1>0, <1>3 DEF Transaction, Fits, InTransaction
    <2> QED BY <1>0, <1>1, <1>3, <2>1 DEF Holdings
  <1>4. ASSUME LoadRow(h) PROVE Good
    <2>1. [pc |-> "loading", row |-> row] \in Loading
      BY <1>0 DEF Loading
    <2>2. Fits([pc |-> "loading", row |-> row], saves)
      BY <1>0 DEF Fits, InTransaction
    <2> QED BY <1>1, <1>4, <2>1, <2>2 DEF LoadRow, Holdings
  <1>5. ASSUME LoadNodes(h) PROVE Good
    <2> DEFINE v == [pc |-> "ready", version |-> t.row.version, row |-> t.row, nodes |-> nodes]
    <2>1. t \in Loading /\ t.pc = "loading"
      BY <1>5, HandlerShape DEF LoadNodes, BoundsInv
    <2>2. v \in Ready
      BY <1>0, <2>1 DEF Loading, Ready, AnyRow
    <2>3. Fits(v, saves)
      BY <1>0, <2>1 DEF Fits, InTransaction
    <2> QED BY <1>0, <1>1, <1>5, <2>2, <2>3 DEF LoadNodes, Holdings
  <1>6. ASSUME Begin(h) PROVE Good
    <2>1. PICK c \in Contents, event \in BOOLEAN, up \in {1, 2} :
             handler' = [handler EXCEPT ![h] =
                [pc |-> "begun", version |-> @.version + up, seen |-> row, contents |-> c,
                 event |-> event, save |-> saves + 1, deleted |-> 0]]
      BY <1>6 DEF Begin
    <2> DEFINE v == [pc |-> "begun", version |-> t.version + up, seen |-> row, contents |-> c,
                     event |-> event, save |-> saves + 1, deleted |-> 0]
    <2>2. t \in Ready /\ t.pc = "ready"
      BY <1>6, HandlerShape DEF Begin, BoundsInv
    <2>3. v \in Transaction
      BY <1>0, <2>2 DEF Ready, Transaction, InTransaction
    <2>4. Fits(v, saves + 1)
      BY <1>0, <2>2 DEF Fits, InTransaction
    <2>5. handler' = [handler EXCEPT ![h] = v] /\ saves' = saves + 1
      BY <1>6, <2>1 DEF Begin
    <2> QED BY <1>1, <2>3, <2>4, <2>5 DEF Holdings
  <1>7. ASSUME UpdateRow(h) \/ ReplaceNodes(h) PROVE Good
    <2>1. t \in Transaction /\ saves' = saves
      BY <1>7, HandlerShape DEF UpdateRow, ReplaceNodes, RollBack, BoundsInv, InTransaction
    <2>2. \/ handler' = [handler EXCEPT ![h] = Idle]
          \/ \E pc \in InTransaction : handler' = [handler EXCEPT ![h].pc = pc]
      BY <1>7 DEF UpdateRow, ReplaceNodes, RollBack, InTransaction
    <2> QED BY <1>2, <1>3, <2>1, <2>2
  <1>8. ASSUME WaitForNodes(h) PROVE Good
    <2> DEFINE v == [t EXCEPT !.pc = "waiting", !.deleted = nodes]
    <2>1. t \in Transaction /\ t.pc \in InTransaction
      BY <1>8, HandlerShape DEF WaitForNodes, BoundsInv, InTransaction
    <2>2. v \in Transaction /\ Fits(v, saves)
      BY <1>0, <2>1 DEF Transaction, Fits, InTransaction
    <2>3. handler' = [handler EXCEPT ![h] = v] /\ saves' = saves
      BY <1>0, <1>8 DEF WaitForNodes
    <2> QED BY <1>1, <2>2, <2>3 DEF Holdings
  <1>9. ASSUME Commit(h) PROVE Good
    <2> DEFINE v == [pc |-> "ready", version |-> t.version, row |-> Written(t),
                     nodes |-> t.save]
    <2>1. t \in Transaction /\ t.pc \in InTransaction /\ saves' = saves
      BY <1>9, HandlerShape DEF Commit, BoundsInv, InTransaction
    <2>2. Written(t) \in AnyRow
      BY <1>0, <2>1, WrittenRow
    <2>3. v \in Ready
      BY <2>1, <2>2 DEF Ready, Transaction
    <2>4. Fits(v, saves)
      BY <1>0, <2>1 DEF Fits, InTransaction
    <2>5. handler' = [handler EXCEPT ![h] = Idle] \/ handler' = [handler EXCEPT ![h] = v]
      BY <1>9 DEF Commit
    <2> QED BY <1>1, <1>2, <2>1, <2>3, <2>4, <2>5 DEF Holdings
  <1>10. ASSUME Die(h) PROVE Good
    BY <1>2, <1>10 DEF Die, RollBack
  <1>11. Good
    BY <1>4, <1>5, <1>6, <1>7, <1>8, <1>9, <1>10 DEF HandlerActs, Request, HandlerStep
  <1>12. saves' \in {saves, saves + 1} /\ saves' <= budget.saves
    <2>1. Begin(h) => saves' \in {saves, saves + 1} /\ saves' <= budget.saves
      BY <1>0 DEF Begin
    <2>2. UNCHANGED saves => saves' \in {saves, saves + 1} /\ saves' <= budget.saves
      BY <1>0
    <2>3. Begin(h) \/ UNCHANGED saves
      BY DEF HandlerActs, Request, HandlerStep, Die, LoadRow, LoadNodes, UpdateRow,
             WaitForNodes, ReplaceNodes, Commit, RollBack
    <2> QED BY <2>1, <2>2, <2>3
  <1>13. UNCHANGED <<drainVars, budget>>
    BY DEF HandlerActs, Request, HandlerStep, Die
  <1> QED BY <1>11, <1>12, <1>13

\* A commit writes one row and one event, and nothing else of a handler does.
LEMMA CommitOnly ==
    ASSUME NEW h \in Handlers, HandlerActs(h), ~Commit(h)
    PROVE  UNCHANGED <<row, nodes, outbox, log>>
  BY DEF HandlerActs, Request, HandlerStep, Die, LoadRow, LoadNodes, Begin, UpdateRow,
         WaitForNodes, ReplaceNodes, RollBack

\* The committed row is the one that the save wrote, the one it found, or what another
\* save has made of that.
LEMMA CommittedRow ==
    ASSUME BoundsInv, NEW h \in Handlers, Commit(h)
    PROVE  /\ handler[h] \in Transaction /\ handler[h].pc = "replaced"
           /\ handler[h].save \in 1 .. saves
           /\ row' \in AnyRow /\ row'.version \in 1 .. 2 * saves + 1 /\ row'.save \in 0 .. saves
           /\ nodes' = handler[h].save
           /\ rowLock = h => row'.save = nodes'
  <1> DEFINE t == handler[h]
  <1>0. /\ Fits(t, saves) /\ saves \in Nat
        /\ row \in AnyRow /\ row.version \in 1 .. 2 * saves + 1 /\ row.save \in 0 .. saves
    BY DEF BoundsInv, HandlerBounds, RowBounds
  <1>1. t \in Transaction /\ t.pc = "replaced"
    BY HandlerShape DEF Commit, BoundsInv, InTransaction
  <1>2. t.save \in 1 .. saves
    BY <1>0, <1>1 DEF Fits, InTransaction
  <1>3. /\ Written(t) \in AnyRow /\ Written(t).version \in 1 .. 2 * saves + 1
        /\ Written(t).save = t.save
    BY <1>0, <1>1, WrittenRow
  <1>4. row' \in {Written(t), [row EXCEPT !.save = t.save], row} /\ nodes' = t.save
        /\ (rowLock = h => row' = Written(t))
    BY DEF Commit, Committed
  <1>5. /\ [row EXCEPT !.save = t.save] \in AnyRow
        /\ [row EXCEPT !.save = t.save].version = row.version
        /\ [row EXCEPT !.save = t.save].save = t.save
    BY <1>0, <1>1 DEF AnyRow, Transaction
  <1>6. row' \in AnyRow /\ row'.version \in 1 .. 2 * saves + 1 /\ row'.save \in 0 .. saves
    <2>1. CASE row' = Written(t)
      BY <1>0, <1>2, <1>3, <2>1
    <2>2. CASE row' = [row EXCEPT !.save = t.save]
      BY <1>0, <1>2, <1>5, <2>2
    <2>3. CASE row' = row
      BY <1>0, <2>3
    <2> QED BY <1>4, <2>1, <2>2, <2>3
  <1> QED BY <1>1, <1>2, <1>3, <1>4, <1>6

\* The committed tables stay in their bounds.
LEMMA HandlerBoundsStep ==
    ASSUME BoundsInv, NEW h \in Handlers, HandlerActs(h)
    PROVE  BoundsInv'
  <1>0. /\ saves \in Nat /\ saves' \in Nat /\ saves' \in {saves, saves + 1}
        /\ saves' <= budget.saves /\ UNCHANGED <<drainVars, budget>>
        /\ budget \in Budgets
    BY HandlerChanges DEF BoundsInv
  <1>1. HandlerType' /\ \A g \in Handlers \ {h} : handler'[g] = handler[g]
    BY HandlerChanges DEF BoundsInv, HandlerType
  <1>2. HandlerBounds'
    <2>1. \A t : Fits(t, saves) => Fits(t, saves')
      BY <1>0 DEF Fits
    <2>2. Fits(handler'[h], saves')
      BY HandlerChanges
    <2> QED BY <1>1, <2>1, <2>2 DEF HandlerBounds, BoundsInv
  <1>3. RowBounds'
    <2>1. {rowLock', nodeLock'} \subseteq Handlers \cup {NoOne}
      BY DEF HandlerActs, Request, HandlerStep, Die, LoadRow, LoadNodes, Begin, UpdateRow,
             WaitForNodes, ReplaceNodes, RollBack, Commit, Holding, BoundsInv, RowBounds
    <2>2. CASE Commit(h)
      <3>1. /\ row' \in AnyRow /\ row'.version \in 1 .. 2 * saves + 1 /\ row'.save \in 0 .. saves
            /\ nodes' \in 1 .. saves
        BY <2>2, CommittedRow
      <3>2. saves' = saves
        BY <2>2 DEF Commit
      <3> QED BY <1>0, <2>1, <3>1, <3>2 DEF RowBounds
    <2>3. CASE ~Commit(h)
      <3>1. row' = row /\ nodes' = nodes
        BY <2>3, CommitOnly
      <3> QED BY <1>0, <2>1, <3>1 DEF RowBounds, BoundsInv
    <2> QED BY <2>2, <2>3
  <1>4. OutboxBounds'
    <2>1. topic' = topic /\ \A d \in Drainers : Held(d)' = Held(d)
      BY <1>0 DEF drainVars, Held
    <2>2. DOMAIN outbox \subseteq DOMAIN outbox'
          /\ \A e \in DOMAIN outbox' : e \in 1 .. saves' /\ outbox'[e] \in OutboxStatus
      <3>1. CASE Commit(h)
        <4>1. handler[h].save \in 1 .. saves /\ saves' = saves
          BY <3>1, CommittedRow DEF Commit
        <4> QED BY <3>1, <4>1 DEF Commit, BoundsInv, OutboxBounds, OutboxStatus
      <3>2. CASE ~Commit(h)
        BY <1>0, <3>2, CommitOnly DEF BoundsInv, OutboxBounds
      <3> QED BY <3>1, <3>2
    <2> QED BY <2>1, <2>2 DEF OutboxBounds, BoundsInv, Published
  <1>5. DrainerType' /\ saves' \in Saves'
    BY <1>0, StoreAssumption DEF DrainerType, drainVars, BoundsInv, Saves
  <1> QED BY <1>0, <1>1, <1>2, <1>3, <1>4, <1>5 DEF BoundsInv

----------------------------------------------------------------------------
(* the outbox and its drainers *)

\* A drain that is under way goes on with the oldest event it holds.
LEMMA Oldest ==
    ASSUME BoundsInv, NEW d \in Drainers, drainer[d].pc # "idle"
    PROVE  /\ Held(d) = drainer[d].events /\ Held(d) \subseteq Nat
           /\ Event(d) \in Held(d) /\ Event(d) \in DOMAIN outbox
           /\ \A e \in Held(d) : Event(d) <= e
  <1>0. drainer[d].events \subseteq Nat /\ drainer[d].events # {}
    BY DEF BoundsInv, DrainerType, Idle
  <1>1. /\ Held(d) = drainer[d].events /\ Held(d) \subseteq Nat /\ Held(d) # {}
        /\ Held(d) \subseteq DOMAIN outbox
    BY <1>0 DEF BoundsInv, OutboxBounds, Held
  <1>2. \E e \in Held(d) : \A f \in Held(d) : e <= f
    <2> DEFINE Less == {ss \in Nat \X Nat : ss[1] < ss[2]}
    <2>1. IsWellFoundedOn(Less, Nat)
      BY NatLessThanWellFounded, Zenon DEF OpToRel
    <2> HIDE DEF Less
    <2>2. \E e \in Held(d) : \A f \in Held(d) : ~(<<f, e>> \in Less)
      BY <1>1, <2>1, WFMin
    <2>3. PICK e \in Held(d) : \A f \in Held(d) : ~(<<f, e>> \in Less)
      BY <2>2
    <2>4. ASSUME NEW f \in Held(d) PROVE e <= f
      <3>1. e \in Nat /\ f \in Nat /\ <<f, e>> \notin Less
        BY <1>1, <2>3
      <3>2. <<f, e>> \in Nat \X Nat /\ <<f, e>>[1] = f /\ <<f, e>>[2] = e
        BY <3>1
      <3>3. f < e => <<f, e>> \in Less
        BY <3>2, Zenon DEF Less
      <3> QED BY <3>1, <3>3
    <2> QED BY <2>4
  <1> QED BY <1>1, <1>2 DEF Event

\* What a drainer changes: itself, statuses of events, and the end of the topic.
LEMMA DrainerChanges ==
    ASSUME BoundsInv, NEW d \in Drainers, DrainerActs(d)
    PROVE  /\ UNCHANGED <<storeVars, budget>>
           /\ DrainerType' /\ \A c \in Drainers \ {d} : drainer'[c] = drainer[c]
           /\ DOMAIN outbox' = DOMAIN outbox
           /\ \A e \in DOMAIN outbox : outbox'[e] \in {outbox[e]} \cup OutboxStatus
           /\ Held(d)' \subseteq DOMAIN outbox
  <1> DEFINE Kinds == {Idle} \cup [pc : {"publish", "published", "raised"},
                                   events : (SUBSET Nat) \ {{}}]
  <1>0. drainer \in [Drainers -> Kinds] /\ \A e \in DOMAIN outbox : e \in Nat
    BY DEF BoundsInv, DrainerType, OutboxBounds
  <1>00. Idle.pc = "idle" /\ Idle \in Kinds
    BY DEF Idle
  <1>1. CASE Drain(d)
    <2> DEFINE v == [pc |-> "publish", events |-> PendingEvents]
    <2>1. /\ drainer' = [drainer EXCEPT ![d] = v]
          /\ UNCHANGED <<storeVars, budget, outbox>> /\ PendingEvents # {}
      BY <1>1 DEF Drain
    <2>2. PendingEvents \subseteq DOMAIN outbox
      BY DEF PendingEvents
    <2>3. v \in Kinds
      BY <1>0, <2>1, <2>2
    <2> HIDE DEF v
    <2>4. drainer' \in [Drainers -> Kinds] /\ drainer'[d] = v
          /\ \A c \in Drainers \ {d} : drainer'[c] = drainer[c]
      BY <1>0, <2>1, <2>3
    <2>5. Held(d)' = PendingEvents
      BY <2>4 DEF v, Held
    <2> QED BY <2>1, <2>2, <2>4, <2>5 DEF DrainerType
  <1>2. CASE Publish(d) \/ PublishRaises(d)
    <2>1. PICK pc \in {"published", "raised"} : drainer' = [drainer EXCEPT ![d].pc = pc]
      BY <1>2 DEF Publish, PublishRaises
    <2>2. drainer[d].pc = "publish" /\ UNCHANGED <<storeVars, budget, outbox>>
      BY <1>2 DEF Publish, PublishRaises
    <2>3. [drainer[d] EXCEPT !.pc = pc] \in Kinds
      BY <1>0, <1>00, <2>2
    <2>4. drainer' \in [Drainers -> Kinds] /\ drainer'[d] = [drainer[d] EXCEPT !.pc = pc]
          /\ \A c \in Drainers \ {d} : drainer'[c] = drainer[c]
      BY <1>0, <2>1, <2>3
    <2>5. Held(d)' = Held(d)
      BY <1>0, <1>00, <2>2, <2>4 DEF Held
    <2> QED BY <2>2, <2>4, <2>5 DEF DrainerType, BoundsInv, OutboxBounds
  <1>3. CASE MarkPublished(d) \/ MarkFailed(d)
    <2>1. PICK status \in {"PUBLISHED", "FAILED"} : SetStatus(d, status)
      BY <1>3 DEF MarkPublished, MarkFailed
    <2>2. drainer[d].pc # "idle"
      BY <1>3 DEF MarkPublished, MarkFailed
    <2> DEFINE rest == drainer[d].events \ {Event(d)}
               v == IF drainer[d].events = {Event(d)} THEN Idle
                    ELSE [pc |-> "publish", events |-> rest]
    <2>3. /\ drainer' = [drainer EXCEPT ![d] = v]
          /\ outbox' = [outbox EXCEPT ![Event(d)] = status]
          /\ UNCHANGED <<storeVars, budget>>
      BY <1>0, <2>1 DEF SetStatus
    <2>4. v \in Kinds
      <3>1. drainer[d].events \subseteq Nat /\ Event(d) \in drainer[d].events
        BY <2>2, Oldest
      <3>2. drainer[d].events # {Event(d)} => rest \in (SUBSET Nat) \ {{}}
        BY <3>1
      <3> QED BY <1>00, <3>2
    <2>5. v = Idle \/ v = [pc |-> "publish", events |-> rest]
      OBVIOUS
    <2> HIDE DEF v
    <2>6. drainer' \in [Drainers -> Kinds] /\ drainer'[d] = v
          /\ \A c \in Drainers \ {d} : drainer'[c] = drainer[c]
      BY <1>0, <2>3, <2>4
    <2>7. Held(d)' \subseteq Held(d)
      BY <1>00, <2>2, <2>5, <2>6 DEF Held
    <2>8. outbox' = [outbox EXCEPT ![Event(d)] = status] /\ status \in OutboxStatus
      BY <2>3 DEF OutboxStatus
    <2> QED BY <2>3, <2>6, <2>7, <2>8 DEF DrainerType, BoundsInv, OutboxBounds
  <1>4. CASE DrainerDies(d)
    <2>1. /\ drainer' = [drainer EXCEPT ![d] = Idle] /\ UNCHANGED <<storeVars, budget, outbox>>
      BY <1>4 DEF DrainerDies
    <2>2. drainer'[d] = Idle /\ drainer' \in [Drainers -> Kinds]
      BY <1>0, <1>00, <2>1
    <2>3. Held(d)' = {}
      BY <1>00, <2>2 DEF Held
    <2> QED BY <1>0, <2>1, <2>2, <2>3 DEF DrainerType
  <1> QED BY <1>1, <1>2, <1>3, <1>4 DEF DrainerActs

\* What is appended comes last.
LEMMA Appended ==
    ASSUME NEW S, NEW s \in Seq(S), NEW x \in S
    PROVE  /\ Append(s, x) \in Seq(S)
           /\ Len(s) \in Nat /\ DOMAIN s = 1 .. Len(s)
           /\ DOMAIN Append(s, x) = 1 .. Len(s) + 1
           /\ \A i \in 1 .. Len(s) : Append(s, x)[i] = s[i]
           /\ Append(s, x)[Len(s) + 1] = x
  OBVIOUS

\* The topic grows by the event that a drainer publishes, which an earlier drain or another
\* drainer may have published already.
LEMMA TopicChanges ==
    ASSUME BoundsInv, NEW d \in Drainers, DrainerActs(d)
    PROVE  /\ topic' \in Seq(Nat)
           /\ Publish(d) \/ topic' = topic
           /\ Publish(d) => /\ drainer[d].pc = "publish" /\ Event(d) \in DOMAIN outbox
                            /\ topic' = Append(topic, Event(d))
                            /\ Published' = Published \cup {Event(d)}
           /\ Published' \subseteq DOMAIN outbox /\ Published \subseteq Published'
           /\ failed \subseteq failed'
  <1>0. /\ topic \in Seq(Nat) /\ Published \subseteq DOMAIN outbox
        /\ \A e \in DOMAIN outbox : e \in Nat
    BY DEF BoundsInv, OutboxBounds
  <1>1. CASE Publish(d)
    <2>1. /\ drainer[d].pc = "publish" /\ topic' = Append(topic, Event(d)) /\ failed' = failed
      BY <1>1 DEF Publish
    <2>2. Event(d) \in DOMAIN outbox
      BY <2>1, Oldest
    <2>3. Event(d) \in Nat
      BY <1>0, <2>2
    <2>4. /\ topic' \in Seq(Nat) /\ DOMAIN topic' = 1 .. Len(topic) + 1
          /\ DOMAIN topic = 1 .. Len(topic) /\ Len(topic) \in Nat
          /\ \A i \in 1 .. Len(topic) : topic'[i] = topic[i]
          /\ topic'[Len(topic) + 1] = Event(d)
      BY <1>0, <2>1, <2>3, Appended
    <2>5. Published' = Published \cup {Event(d)}
      <3>1. \A i \in DOMAIN topic' : topic'[i] \in Published \cup {Event(d)}
        <4> SUFFICES ASSUME NEW i \in DOMAIN topic' PROVE topic'[i] \in Published \cup {Event(d)}
          OBVIOUS
        <4>1. CASE i \in 1 .. Len(topic)
          BY <2>4, <4>1 DEF Published
        <4>2. CASE i = Len(topic) + 1
          BY <2>4, <4>2
        <4> QED BY <2>4, <4>1, <4>2
      <3>2. \A i \in DOMAIN topic : i \in DOMAIN topic' /\ topic'[i] = topic[i]
        BY <2>4
      <3>3. Len(topic) + 1 \in DOMAIN topic'
        BY <2>4
      <3> QED BY <2>4, <3>1, <3>2, <3>3 DEF Published
    <2> QED BY <1>0, <1>1, <2>1, <2>2, <2>4, <2>5
  <1>2. CASE ~Publish(d)
    <2>1. topic' = topic /\ failed \subseteq failed'
      BY <1>2 DEF DrainerActs, Drain, PublishRaises, MarkPublished, MarkFailed, SetStatus,
                  DrainerDies
    <2> QED BY <1>0, <1>2, <2>1 DEF Published
  <1> QED BY <1>1, <1>2

\* No drainer leaves the bounds.
LEMMA DrainerBoundsStep ==
    ASSUME BoundsInv, NEW d \in Drainers, DrainerActs(d)
    PROVE  BoundsInv'
  <1>1. /\ UNCHANGED <<storeVars, budget>> /\ DrainerType'
        /\ \A c \in Drainers \ {d} : drainer'[c] = drainer[c]
        /\ DOMAIN outbox' = DOMAIN outbox
        /\ \A e \in DOMAIN outbox : outbox'[e] \in {outbox[e]} \cup OutboxStatus
        /\ Held(d)' \subseteq DOMAIN outbox
    BY DrainerChanges
  <1>2. HandlerType' /\ HandlerBounds' /\ RowBounds' /\ saves' = saves /\ budget' = budget
    BY <1>1 DEF storeVars, BoundsInv, HandlerType, HandlerBounds, RowBounds
  <1>3. \A c \in Drainers : Held(c)' \subseteq DOMAIN outbox'
    BY <1>1 DEF BoundsInv, OutboxBounds, Held
  <1>4. topic' \in Seq(Nat) /\ Published' \subseteq DOMAIN outbox'
    BY <1>1, TopicChanges
  <1>5. OutboxBounds'
    BY <1>1, <1>2, <1>3, <1>4 DEF BoundsInv, OutboxBounds
  <1> QED BY <1>1, <1>2, <1>5 DEF BoundsInv, Saves

\* The workflow was planned and nothing was saved since.
LEMMA BoundsInit == Init => BoundsInv
  <1> SUFFICES ASSUME Init PROVE BoundsInv
    OBVIOUS
  <1>1. PICK c \in Contents : row = [version |-> 1, touched |-> FALSE, contents |-> c, save |-> 0]
    BY DEF Init
  <1>2. RowBounds
    BY <1>1 DEF Init, RowBounds, AnyRow
  <1>3. HandlerType /\ HandlerBounds
    BY DEF Init, HandlerType, HandlerBounds, Holdings, Fits, Idle, InTransaction
  <1>4. DrainerType /\ \A d \in Drainers : Held(d) = {}
    BY DEF Init, DrainerType, Held, Idle
  <1>5. OutboxBounds
    BY <1>4 DEF Init, OutboxBounds, Published
  <1> QED BY <1>2, <1>3, <1>4, <1>5, StoreAssumption DEF BoundsInv, Init, Saves

\* Every step keeps the bounds.
LEMMA BoundsStep == BoundsInv /\ [Next]_vars => BoundsInv'
  <1> SUFFICES ASSUME BoundsInv, [Next]_vars PROVE BoundsInv'
    OBVIOUS
  <1>1. ASSUME UNCHANGED vars PROVE BoundsInv'
    BY <1>1 DEF vars, storeVars, drainVars, BoundsInv, HandlerType, HandlerBounds, RowBounds,
                DrainerType, OutboxBounds, Held, Published, Saves
  <1> QED BY <1>1, Steps, HandlerBoundsStep, DrainerBoundsStep

\* The columns of the workflow table, the statuses of the outbox and the places where
\* handlers and drainers stand, for any number of them and any number of saves; a version
\* is at most one ahead of twice the saves.
THEOREM StoreTypes == Spec => []TypeOK
  <1>1. BoundsInv => TypeOK
    <2> SUFFICES ASSUME BoundsInv PROVE TypeOK
      OBVIOUS
    <2>1. saves \in Nat /\ budget.saves \in Nat /\ saves <= budget.saves
      BY StoreAssumption DEF BoundsInv, Saves
    <2>2. row \in Rows
      BY <2>1 DEF BoundsInv, RowBounds, AnyRow, Rows, Versions, Saves
    <2>3. \A h \in Handlers : handler[h].pc \in
             {"idle", "loading", "ready", "begun", "updated", "waiting", "replaced"}
      BY DEF BoundsInv, HandlerType, Holdings, Idle, Loading, Ready, Transaction, InTransaction
    <2>4. \A d \in Drainers : drainer[d].pc \in {"idle", "publish", "published", "raised"}
      BY DEF BoundsInv, DrainerType, Idle
    <2> QED BY <2>1, <2>2, <2>3, <2>4 DEF TypeOK, BoundsInv, RowBounds, OutboxBounds, NodeRows,
                                        Saves
  <1> QED BY <1>1, BoundsInit, BoundsStep, PTL DEF Spec

----------------------------------------------------------------------------
(* rows of one save *)

\* What an UPDATE leaves behind lasts until the end of the transaction.
LEMMA TornStep == BoundsInv /\ TornInv /\ [Next]_vars => TornInv'
  <1> SUFFICES ASSUME BoundsInv, TornInv, [Next]_vars PROVE TornInv'
    OBVIOUS
  <1>0. handler \in [Handlers -> Holdings] /\ NoOne \notin Handlers
    BY StoreAssumption DEF BoundsInv, HandlerType
  <1>1. ASSUME NEW h \in Handlers, HandlerActs(h) PROVE TornInv'
    <2>1. \A g \in Handlers \ {h} : handler'[g] = handler[g]
      BY <1>0, <1>1, HandlerChanges
    <2>2. unchecked \subseteq unchecked' /\ rowLock' \in {rowLock, NoOne, h}
          /\ (rowLock' # rowLock => rowLock \in {NoOne, h})
      BY <1>1 DEF HandlerActs, Request, HandlerStep, Die, LoadRow, LoadNodes, Begin, UpdateRow,
                  WaitForNodes, ReplaceNodes, RollBack, Commit, Holding
    <2>3. ASSUME NEW g \in Handlers \ {h},
                 handler'[g].pc \in {"updated", "waiting", "replaced"}
          PROVE  rowLock' = g \/ handler'[g].save \in unchecked'
      BY <1>0, <2>1, <2>2, <2>3 DEF TornInv, UpdatedInv
    <2>4. ASSUME handler'[h].pc \in {"updated", "waiting", "replaced"}
          PROVE  rowLock' = h \/ handler'[h].save \in unchecked'
      <3>1. CASE UpdateRow(h)
        <4>1. handler[h] \in Transaction
          BY <3>1, HandlerShape DEF UpdateRow, BoundsInv, InTransaction
        <4>2. CASE NothingToUpdate(handler[h])
          <5>1. handler'[h].save = handler[h].save /\ handler[h].save \in unchecked'
            BY <1>0, <3>1, <4>1, <4>2 DEF UpdateRow, Transaction
          <5> QED BY <5>1
        <4>3. CASE ~NothingToUpdate(handler[h])
          BY <1>0, <2>4, <3>1, <4>3 DEF UpdateRow, RollBack, Idle
        <4> QED BY <4>2, <4>3
      <3>2. CASE WaitForNodes(h) \/ ReplaceNodes(h)
        <4>1. /\ handler[h] \in Transaction
              /\ handler[h].pc \in {"updated", "waiting", "replaced"}
          BY <3>2, HandlerShape DEF WaitForNodes, ReplaceNodes, BoundsInv, InTransaction
        <4>2. /\ handler'[h].save = handler[h].save
              /\ rowLock' = rowLock /\ unchecked' = unchecked
          BY <1>0, <2>4, <3>2, <4>1
             DEF WaitForNodes, ReplaceNodes, RollBack, Idle, Transaction
        <4> QED BY <4>1, <4>2 DEF TornInv, UpdatedInv
      <3>3. CASE LoadRow(h) \/ LoadNodes(h) \/ Die(h) \/ Commit(h)
        BY <1>0, <2>4, <3>3 DEF LoadRow, LoadNodes, Die, RollBack, Commit, Idle
      <3>4. CASE Begin(h)
        <4>1. handler'[h].pc = "begun"
          BY <1>0, <3>4 DEF Begin
        <4> QED BY <2>4, <4>1
      <3> QED BY <1>1, <3>1, <3>2, <3>3, <3>4 DEF HandlerActs, Request, HandlerStep
    <2>5. TornExplained'
      <3>1. CASE Commit(h)
        <4>1. /\ handler[h].pc = "replaced" /\ nodes' = handler[h].save
              /\ rowLock = h => row'.save = nodes'
          BY <3>1, CommittedRow
        <4>2. unchecked' = unchecked
          BY <3>1 DEF Commit
        <4> QED BY <4>1, <4>2 DEF TornInv, UpdatedInv, TornExplained
      <3>2. CASE ~Commit(h)
        BY <1>1, <2>2, <3>2, CommitOnly DEF TornInv, TornExplained
      <3> QED BY <3>1, <3>2
    <2> QED BY <2>3, <2>4, <2>5 DEF TornInv, UpdatedInv
  <1>2. ASSUME UNCHANGED storeVars PROVE TornInv'
    BY <1>2 DEF storeVars, TornInv, UpdatedInv, TornExplained
  <1>3. ASSUME NEW d \in Drainers, DrainerActs(d) PROVE UNCHANGED storeVars
    BY <1>3, DrainerChanges
  <1>4. UNCHANGED vars => UNCHANGED storeVars
    BY DEF vars
  <1> QED BY <1>1, <1>2, <1>3, <1>4, Steps

\* save_workflow: a committed row and its committed nodes are of one save, except where the
\* row had nothing to update, so that its version was not compared and it was not locked.
THEOREM TornIsExplained == Spec => []TornExplained
  <1>1. Init => TornInv
    BY DEF Init, TornInv, TornExplained, UpdatedInv, Idle
  <1>2. TornInv => TornExplained
    BY DEF TornInv
  <1> QED BY <1>1, <1>2, BoundsInit, BoundsStep, TornStep, PTL DEF Spec

----------------------------------------------------------------------------
(* locks *)

\* A lock is held by a transaction that came to take it: the row since its UPDATE, the
\* nodes since it replaced them.
LockInv ==
    \A h \in Handlers :
        /\ rowLock = h => handler[h].pc \in {"updated", "waiting", "replaced"}
        /\ nodeLock = h => handler[h].pc = "replaced"

\* Whoever ends gives both locks back, and nobody takes the one of another.
LEMMA LockStep == BoundsInv /\ LockInv /\ [Next]_vars => LockInv'
  <1> SUFFICES ASSUME BoundsInv, LockInv, [Next]_vars PROVE LockInv'
    OBVIOUS
  <1>0. handler \in [Handlers -> Holdings] /\ NoOne \notin Handlers
    BY StoreAssumption DEF BoundsInv, HandlerType
  <1>1. ASSUME NEW h \in Handlers, HandlerActs(h) PROVE LockInv'
    <2>1. \A g \in Handlers \ {h} : handler'[g] = handler[g]
      BY <1>0, <1>1, HandlerChanges
    <2>2. rowLock' \in {rowLock, NoOne, h} /\ nodeLock' \in {nodeLock, NoOne, h}
      BY <1>1 DEF HandlerActs, Request, HandlerStep, Die, LoadRow, LoadNodes, Begin, UpdateRow,
                  WaitForNodes, ReplaceNodes, RollBack, Commit, Holding
    <2> DEFINE Mine == /\ rowLock' = h => handler'[h].pc \in {"updated", "waiting", "replaced"}
                       /\ nodeLock' = h => handler'[h].pc = "replaced"
    <2>3. ASSUME RollBack(h) PROVE Mine
      BY <1>0, <2>3 DEF RollBack, Holding
    <2>4. ASSUME Commit(h) PROVE Mine
      BY <1>0, <2>4 DEF Commit, Holding
    <2>5. ASSUME LoadRow(h) \/ LoadNodes(h) \/ Begin(h) PROVE Mine
      BY <2>5 DEF LoadRow, LoadNodes, Begin, LockInv
    <2>6. ASSUME UpdateRow(h) /\ ~RollBack(h) PROVE Mine
      <3>1. /\ handler[h].pc = "begun" /\ handler' = [handler EXCEPT ![h].pc = "updated"]
            /\ nodeLock' = nodeLock
        BY <2>6 DEF UpdateRow
      <3>2. handler[h] \in Transaction
        BY <3>1, HandlerShape DEF BoundsInv, InTransaction
      <3>3. handler'[h].pc = "updated"
        BY <1>0, <3>1, <3>2 DEF Transaction
      <3> QED BY <3>1, <3>3 DEF LockInv
    <2>7. ASSUME WaitForNodes(h) PROVE Mine
      <3>1. /\ handler[h].pc = "updated" /\ UNCHANGED <<rowLock, nodeLock>>
            /\ handler' = [handler EXCEPT ![h].pc = "waiting", ![h].deleted = nodes]
        BY <2>7 DEF WaitForNodes
      <3>2. handler[h] \in Transaction
        BY <3>1, HandlerShape DEF BoundsInv, InTransaction
      <3>3. handler'[h].pc = "waiting"
        BY <1>0, <3>1, <3>2 DEF Transaction
      <3> QED BY <3>1, <3>3 DEF LockInv
    <2>8. ASSUME ReplaceNodes(h) /\ ~RollBack(h) PROVE Mine
      <3>1. /\ handler[h].pc \in {"updated", "waiting"}
            /\ handler' = [handler EXCEPT ![h].pc = "replaced"]
        BY <2>8 DEF ReplaceNodes
      <3>2. handler[h] \in Transaction
        BY <3>1, HandlerShape DEF BoundsInv, InTransaction
      <3>3. handler'[h].pc = "replaced"
        BY <1>0, <3>1, <3>2 DEF Transaction
      <3> QED BY <3>3
    <2>9. Mine
      BY <1>1, <2>3, <2>4, <2>5, <2>6, <2>7, <2>8 DEF HandlerActs, Request, HandlerStep, Die
    <2> QED BY <1>0, <2>1, <2>2, <2>9 DEF LockInv
  <1>2. ASSUME UNCHANGED storeVars PROVE LockInv'
    BY <1>2 DEF storeVars, LockInv
  <1>3. ASSUME NEW d \in Drainers, DrainerActs(d) PROVE UNCHANGED storeVars
    BY <1>3, DrainerChanges
  <1>4. UNCHANGED vars => UNCHANGED storeVars
    BY DEF vars
  <1> QED BY <1>1, <1>2, <1>3, <1>4, Steps

\* save_workflow: however many transactions overlap, roll back or lose their process, one
\* of them waits for nobody, since who holds the nodes needs no other lock.
THEOREM LocksAreOrdered == Spec => []NoCircularWait
  <1>1. Init => LockInv
    BY StoreAssumption DEF Init, LockInv
  <1>2. LockInv => NoCircularWait
    <2> DEFINE begun == {h \in Handlers :
                            handler[h].pc \in {"begun", "updated", "waiting", "replaced"}}
    <2> SUFFICES ASSUME LockInv, NEW b \in begun
                 PROVE  \E h \in begun : \A g \in Handlers : ~WaitsFor(h, g)
      BY DEF NoCircularWait
    <2>1. CASE \E h \in Handlers : handler[h].pc = "replaced"
      BY <2>1 DEF WaitsFor
    <2>2. CASE /\ \A h \in Handlers : handler[h].pc # "replaced"
               /\ \E h \in Handlers : handler[h].pc \in {"updated", "waiting"}
      BY <2>2 DEF WaitsFor, LockInv
    <2>3. CASE \A h \in Handlers : handler[h].pc \notin {"updated", "waiting", "replaced"}
      BY <2>3 DEF WaitsFor, LockInv
    <2> QED BY <2>1, <2>2, <2>3
  <1> QED BY <1>1, <1>2, BoundsInit, BoundsStep, LockStep, PTL DEF Spec

----------------------------------------------------------------------------
(* the row that a save overwrites *)

\* Unless the version was set back meanwhile, the row has grown since a transaction read
\* it, or is still that row; and whoever holds the row holds the one it read.
Seen(h) ==
    /\ handler[h].pc = "begun" =>
          \/ handler[h].save \in rewound
          \/ handler[h].seen.version < row.version
          \/ SameColumns(row, handler[h].seen)
    /\ rowLock = h => /\ SameColumns(row, handler[h].seen) \/ handler[h].save \in rewound
                      /\ row.version = handler[h].seen.version

SeenInv == \A h \in Handlers : Seen(h)

\* Only a commit of the holder changes the columns, and then either the version has grown
\* or every transaction that has read the row is named in rewound.
LEMMA ColumnsChange ==
    ASSUME BoundsInv, SeenInv, NEW h \in Handlers, HandlerActs(h), NEW g \in Handlers
    PROVE  /\ rewound \subseteq rewound'
           /\ \/ SameColumns(row', row)
              \/ /\ Commit(h) /\ rowLock = h
                 /\ \/ row'.version > row.version
                    \/ handler[g].pc = "begun" => handler[g].save \in rewound'
  <1>1. CASE Commit(h)
    <2>1. row' \in AnyRow /\ row \in AnyRow /\ handler[h] \in Transaction
      BY <1>1, CommittedRow DEF BoundsInv, RowBounds
    <2>2. rewound \subseteq rewound'
      BY <1>1 DEF Commit
    <2>3. CASE rowLock # h
      <3>1. row' = [row EXCEPT !.save = handler[h].save] \/ row' = row
        BY <1>1, <2>3 DEF Commit, Committed
      <3> QED BY <2>1, <2>2, <3>1 DEF SameColumns, AnyRow
    <2>4. CASE rowLock = h
      <3>1. row'.version \in Nat /\ row.version \in Nat
        BY <2>1 DEF AnyRow
      <3>2. CASE row'.version < row.version
        BY <1>1, <2>2, <2>4, <3>2 DEF Commit
      <3>3. CASE row'.version = row.version
        <4>1. row' = Written(handler[h])
          BY <1>1, <2>4 DEF Commit, Committed
        <4>2. row.version = handler[h].seen.version
          BY <2>4 DEF SeenInv, Seen
        <4> QED BY <2>1, <3>3, <4>1, <4>2 DEF Written, Transaction, AnyRow
      <3>4. CASE row'.version > row.version
        BY <1>1, <2>2, <2>4, <3>4
      <3> QED BY <3>1, <3>2, <3>3, <3>4
    <2> QED BY <2>3, <2>4
  <1>2. CASE ~Commit(h)
    <2>1. row' = row
      BY <1>2, CommitOnly
    <2>2. rewound' = rewound
      BY <1>2 DEF HandlerActs, Request, HandlerStep, Die, LoadRow, LoadNodes, Begin, UpdateRow,
                  WaitForNodes, ReplaceNodes, RollBack
    <2> QED BY <2>1, <2>2 DEF SameColumns
  <1> QED BY <1>1, <1>2

\* A lock is taken after the comparison, and until it is given back only its holder writes.
LEMMA SeenStep == BoundsInv /\ LockInv /\ SeenInv /\ [Next]_vars => SeenInv'
  <1> SUFFICES ASSUME BoundsInv, LockInv, SeenInv, [Next]_vars PROVE SeenInv'
    OBVIOUS
  <1>0. handler \in [Handlers -> Holdings] /\ NoOne \notin Handlers /\ row \in AnyRow
    BY StoreAssumption DEF BoundsInv, HandlerType, RowBounds
  <1>1. ASSUME NEW h \in Handlers, HandlerActs(h), NEW g \in Handlers PROVE Seen(g)'
    <2>1. CASE g # h
      <3>1. handler'[g] = handler[g]
        BY <1>0, <1>1, <2>1, HandlerChanges
      <3>2. rowLock' \in {rowLock, NoOne, h}
        BY <1>1 DEF HandlerActs, Request, HandlerStep, Die, LoadRow, LoadNodes, Begin,
                    UpdateRow, WaitForNodes, ReplaceNodes, RollBack, Commit, Holding
      <3>3. rewound \subseteq rewound'
        BY <1>1, ColumnsChange
      <3>4. CASE SameColumns(row', row)
        BY <1>0, <2>1, <3>1, <3>2, <3>3, <3>4 DEF SeenInv, Seen, SameColumns
      <3>5. CASE /\ Commit(h) /\ rowLock = h
                 /\ \/ row'.version > row.version
                    \/ handler[g].pc = "begun" => handler[g].save \in rewound'
        <4>1. rowLock' # g
          BY <1>0, <2>1, <3>5 DEF Commit, Holding
        <4>2. ASSUME handler[g].pc = "begun"
              PROVE  handler[g].save \in rewound' \/ handler[g].seen.version < row'.version
          <5>1. handler[g].seen \in AnyRow
            BY <4>2, HandlerShape DEF BoundsInv, InTransaction, Transaction
          <5>2. row' \in AnyRow
            BY <3>5, CommittedRow
          <5> QED BY <1>0, <3>3, <3>5, <4>2, <5>1, <5>2 DEF SeenInv, Seen, SameColumns, AnyRow
        <4> QED BY <3>1, <4>1, <4>2 DEF Seen
      <3> QED BY <1>1, <3>4, <3>5, ColumnsChange
    <2>2. CASE g = h
      <3>1. ASSUME RollBack(h) PROVE Seen(h)'
        BY <1>0, <3>1 DEF RollBack, Holding, Seen, Idle
      <3>2. ASSUME Commit(h) PROVE Seen(h)'
        BY <1>0, <3>2 DEF Commit, Holding, Seen, Idle
      <3>3. ASSUME LoadRow(h) \/ LoadNodes(h) PROVE Seen(h)'
        BY <1>0, <3>3 DEF LoadRow, LoadNodes, Seen, LockInv
      <3>4. ASSUME Begin(h) PROVE Seen(h)'
        <4>1. handler'[h].seen = row /\ row' = row /\ rowLock' = rowLock /\ rowLock # h
          BY <1>0, <3>4 DEF Begin, LockInv
        <4> QED BY <4>1 DEF Seen, SameColumns
      <3>5. ASSUME UpdateRow(h) /\ ~RollBack(h) PROVE Seen(h)'
        <4>1. /\ handler[h].pc = "begun" /\ handler' = [handler EXCEPT ![h].pc = "updated"]
              /\ row' = row /\ rewound' = rewound
              /\ \/ rowLock' = rowLock
                 \/ rowLock' = h /\ row.version = handler[h].seen.version
          BY <3>5 DEF UpdateRow
        <4>2. handler[h] \in Transaction
          BY <4>1, HandlerShape DEF BoundsInv, InTransaction
        <4>3. /\ handler'[h].pc = "updated" /\ handler'[h].seen = handler[h].seen
              /\ handler'[h].save = handler[h].save /\ handler[h].seen \in AnyRow
          BY <1>0, <4>1, <4>2 DEF Transaction
        <4>4. rowLock # h
          BY <4>1 DEF LockInv
        <4> QED BY <1>0, <4>1, <4>3, <4>4 DEF SeenInv, Seen, AnyRow
      <3>6. ASSUME WaitForNodes(h) \/ (ReplaceNodes(h) /\ ~RollBack(h)) PROVE Seen(h)'
        <4>1. /\ handler[h] \in Transaction
              /\ UNCHANGED <<row, rowLock, rewound>>
          BY <3>6, HandlerShape DEF WaitForNodes, ReplaceNodes, BoundsInv, InTransaction
        <4>2. /\ handler'[h].pc # "begun" /\ handler'[h].seen = handler[h].seen
              /\ handler'[h].save = handler[h].save
          BY <1>0, <3>6, <4>1 DEF WaitForNodes, ReplaceNodes, Transaction
        <4> QED BY <4>1, <4>2 DEF SeenInv, Seen
      <3> QED BY <1>1, <2>2, <3>1, <3>2, <3>3, <3>4, <3>5, <3>6
              DEF HandlerActs, Request, HandlerStep, Die
    <2> QED BY <2>1, <2>2
  <1>2. ASSUME NEW h \in Handlers, HandlerActs(h) PROVE SeenInv'
    BY <1>1, <1>2 DEF SeenInv
  <1>3. ASSUME UNCHANGED storeVars PROVE SeenInv'
    BY <1>3 DEF storeVars, SeenInv, Seen, SameColumns
  <1>4. ASSUME NEW d \in Drainers, DrainerActs(d) PROVE UNCHANGED storeVars
    BY <1>4, DrainerChanges
  <1>5. UNCHANGED vars => UNCHANGED storeVars
    BY DEF vars
  <1> QED BY <1>2, <1>3, <1>4, <1>5, Steps

\* version_id_col: for any number of handlers, a save overwrites the row that its own
\* transaction has read, except where a save of an older copy has set the version back in
\* between.
THEOREM OverwritesAreExplained == Spec => []OverwriteExplained
  <1>1. Init => LockInv /\ SeenInv
    BY StoreAssumption DEF Init, LockInv, SeenInv, Seen, Idle
  <1>2. SeenInv => OverwriteExplained
    BY DEF SeenInv, Seen, OverwriteExplained
  <1> QED BY <1>1, <1>2, BoundsInit, BoundsStep, LockStep, SeenStep, PTL DEF Spec

----------------------------------------------------------------------------
(* the order of events *)

\* A transaction keeps the number that it began with.
LEMMA TransactionChanges ==
    ASSUME BoundsInv, NEW h \in Handlers, HandlerActs(h), handler'[h].pc \in InTransaction
    PROVE  \/ handler'[h].save = saves + 1 /\ saves' = saves + 1 /\ ~Commit(h)
           \/ /\ handler[h].pc \in InTransaction /\ handler'[h].save = handler[h].save
              /\ saves' = saves /\ ~Commit(h)
  <1>0. handler \in [Handlers -> Holdings]
    BY DEF BoundsInv, HandlerType
  <1>1. ~(LoadRow(h) \/ LoadNodes(h) \/ Die(h) \/ Commit(h))
    BY <1>0 DEF LoadRow, LoadNodes, Die, RollBack, Commit, Idle, InTransaction
  <1>2. CASE Begin(h)
    BY <1>0, <1>1, <1>2 DEF Begin
  <1>3. CASE UpdateRow(h) \/ WaitForNodes(h) \/ ReplaceNodes(h)
    <2>1. handler[h] \in Transaction /\ handler[h].pc \in InTransaction /\ saves' = saves
      BY <1>3, HandlerShape DEF UpdateRow, WaitForNodes, ReplaceNodes, RollBack, BoundsInv,
                                InTransaction
    <2>2. \/ handler' = [handler EXCEPT ![h] = Idle]
          \/ \E pc : handler' = [handler EXCEPT ![h].pc = pc]
          \/ handler' = [handler EXCEPT ![h].pc = "waiting", ![h].deleted = nodes]
      BY <1>3 DEF UpdateRow, WaitForNodes, ReplaceNodes, RollBack
    <2>3. handler' # [handler EXCEPT ![h] = Idle]
      BY <1>0 DEF Idle, InTransaction
    <2>4. handler'[h].save = handler[h].save
      BY <1>0, <2>1, <2>2, <2>3 DEF Transaction
    <2> QED BY <1>1, <2>1, <2>4
  <1> QED BY <1>1, <1>2, <1>3 DEF HandlerActs, Request, HandlerStep

\* A save is logged when it commits, and its event, if it has one, enters the outbox.
LEMMA CommitLogs ==
    ASSUME BoundsInv, LogInv, NEW h \in Handlers, Commit(h)
    PROVE  LET s == handler[h].save IN
           /\ s \in 1 .. saves /\ s \notin Logged /\ s \notin DOMAIN outbox
           /\ saves' = saves
           /\ log' \in Seq(Nat) /\ Len(log) \in Nat /\ DOMAIN log = 1 .. Len(log)
           /\ DOMAIN log' = 1 .. Len(log) + 1
           /\ \A n \in 1 .. Len(log) : log'[n] = log[n]
           /\ log'[Len(log) + 1] = s /\ Logged' = Logged \cup {s}
           /\ DOMAIN outbox' \subseteq DOMAIN outbox \cup {s}
           /\ \A e \in DOMAIN outbox : e \in DOMAIN outbox' /\ outbox'[e] = outbox[e]
           /\ s \in DOMAIN outbox' => outbox'[s] = "PENDING"
  <1> DEFINE s == handler[h].save
  <1>1. s \in 1 .. saves /\ handler[h].pc = "replaced" /\ s \in Nat
    BY CommittedRow DEF BoundsInv
  <1>2. s \notin Logged /\ DOMAIN outbox \subseteq Logged /\ log \in Seq(Nat)
    BY <1>1 DEF LogInv, InTransaction
  <1>3. log' = Append(log, s) /\ saves' = saves
    BY DEF Commit
  <1>4. /\ log' \in Seq(Nat) /\ Len(log) \in Nat /\ DOMAIN log = 1 .. Len(log)
        /\ DOMAIN log' = 1 .. Len(log) + 1
        /\ \A n \in 1 .. Len(log) : log'[n] = log[n]
        /\ log'[Len(log) + 1] = s
    BY <1>1, <1>2, <1>3, Appended
  <1>5. Logged' = Logged \cup {s}
    <2>1. \A n \in DOMAIN log' : log'[n] \in Logged \cup {s}
      <3> SUFFICES ASSUME NEW n \in DOMAIN log' PROVE log'[n] \in Logged \cup {s}
        OBVIOUS
      <3>1. CASE n \in 1 .. Len(log)
        BY <1>4, <3>1 DEF Logged
      <3>2. CASE n = Len(log) + 1
        BY <1>4, <3>2
      <3> QED BY <1>4, <3>1, <3>2
    <2>2. \A n \in DOMAIN log : n \in DOMAIN log' /\ log'[n] = log[n]
      BY <1>4
    <2>3. Len(log) + 1 \in DOMAIN log'
      BY <1>4
    <2> QED BY <1>4, <2>1, <2>2, <2>3 DEF Logged
  <1>6. /\ DOMAIN outbox' \subseteq DOMAIN outbox \cup {s}
        /\ \A e \in DOMAIN outbox : e \in DOMAIN outbox' /\ outbox'[e] = outbox[e]
        /\ s \in DOMAIN outbox' => outbox'[s] = "PENDING"
    BY <1>2 DEF Commit
  <1> QED BY <1>1, <1>2, <1>3, <1>4, <1>5, <1>6

\* Every save commits at most once, under the number that it began with.
LEMMA LogStep == BoundsInv /\ LogInv /\ [Next]_vars => LogInv'
  <1> SUFFICES ASSUME BoundsInv, LogInv, [Next]_vars PROVE LogInv'
    OBVIOUS
  <1>1. ASSUME NEW h \in Handlers, HandlerActs(h) PROVE LogInv'
    <2>0. /\ saves \in Nat /\ saves' \in {saves, saves + 1}
          /\ \A g \in Handlers \ {h} : handler'[g] = handler[g]
      BY <1>1, HandlerChanges DEF BoundsInv, HandlerType
    <2>1. /\ log' \in Seq(Nat) /\ Logged' \subseteq 0 .. saves'
          /\ \A m, n \in DOMAIN log' : log'[m] = log'[n] => m = n
          /\ DOMAIN outbox' \subseteq Logged'
      <3>1. CASE Commit(h)
        <4> DEFINE s == handler[h].save
        <4>1. /\ s \in 1 .. saves /\ s \notin Logged /\ saves' = saves
              /\ log' \in Seq(Nat) /\ Len(log) \in Nat /\ DOMAIN log = 1 .. Len(log)
              /\ DOMAIN log' = 1 .. Len(log) + 1
              /\ \A n \in 1 .. Len(log) : log'[n] = log[n]
              /\ log'[Len(log) + 1] = s /\ Logged' = Logged \cup {s}
              /\ DOMAIN outbox' \subseteq DOMAIN outbox \cup {s}
          BY <3>1, CommitLogs
        <4>2. \A n \in 1 .. Len(log) : log[n] \in Logged
          BY <4>1 DEF Logged
        <4> HIDE DEF s
        <4>3. ASSUME NEW m \in DOMAIN log', NEW n \in DOMAIN log', log'[m] = log'[n]
              PROVE  m = n
          <5>1. m \in 1 .. Len(log) \/ m = Len(log) + 1
            BY <4>1
          <5>2. n \in 1 .. Len(log) \/ n = Len(log) + 1
            BY <4>1
          <5> QED BY <4>1, <4>2, <4>3, <5>1, <5>2 DEF LogInv
        <4> QED BY <2>0, <4>1, <4>3 DEF LogInv
      <3>2. CASE ~Commit(h)
        BY <1>1, <2>0, <3>2, CommitOnly DEF LogInv, Logged
      <3> QED BY <3>1, <3>2
    <2>2. ASSUME NEW g \in Handlers, handler'[g].pc \in InTransaction
          PROVE  handler'[g].save \notin Logged'
      <3>1. CASE g = h
        <4>1. log' = log
          BY <1>1, <2>2, <3>1, TransactionChanges, CommitOnly
        <4>2. Logged' = Logged
          BY <4>1 DEF Logged
        <4>3. \/ handler'[h].save = saves + 1
              \/ handler[h].pc \in InTransaction /\ handler'[h].save = handler[h].save
          BY <1>1, <2>2, <3>1, TransactionChanges
        <4>4. saves + 1 \notin Logged
          BY <2>0 DEF LogInv
        <4> QED BY <3>1, <4>2, <4>3, <4>4 DEF LogInv
      <3>2. CASE g # h
        <4>1. handler[g].pc \in InTransaction /\ handler'[g].save = handler[g].save
          BY <2>0, <2>2, <3>2
        <4>2. CASE Commit(h)
          <5>1. handler[h].pc \in InTransaction /\ Logged' = Logged \cup {handler[h].save}
            BY <4>2, CommitLogs DEF Commit, InTransaction
          <5> QED BY <3>2, <4>1, <5>1 DEF LogInv
        <4>3. CASE ~Commit(h)
          BY <1>1, <4>1, <4>3, CommitOnly DEF LogInv, Logged
        <4> QED BY <4>2, <4>3
      <3> QED BY <3>1, <3>2
    <2>3. ASSUME NEW g \in Handlers \ {h}, handler'[g].pc \in InTransaction,
                 handler'[h].pc \in InTransaction
          PROVE  handler'[g].save # handler'[h].save
      <3>1. handler[g].pc \in InTransaction /\ handler'[g].save = handler[g].save
        BY <2>0, <2>3
      <3>2. handler[g].save \in 1 .. saves
        BY <3>1 DEF BoundsInv, HandlerBounds, Fits
      <3> QED BY <1>1, <2>0, <2>3, <3>1, <3>2, TransactionChanges DEF LogInv
    <2>4. ASSUME NEW f \in Handlers, NEW g \in Handlers, handler'[f].pc \in InTransaction,
                 handler'[g].pc \in InTransaction, handler'[f].save = handler'[g].save
          PROVE  f = g
      BY <2>0, <2>3, <2>4 DEF LogInv
    <2> QED BY <2>1, <2>2, <2>4 DEF LogInv
  <1>2. ASSUME NEW d \in Drainers, DrainerActs(d) PROVE LogInv'
    <2>1. UNCHANGED <<log, handler, saves>> /\ DOMAIN outbox' = DOMAIN outbox
      BY <1>2, DrainerChanges DEF storeVars
    <2> QED BY <2>1 DEF LogInv, Logged
  <1>3. ASSUME UNCHANGED vars PROVE LogInv'
    BY <1>3 DEF vars, storeVars, LogInv, Logged
  <1> QED BY <1>1, <1>2, <1>3, Steps

\* A commit puts its save after everything that has been committed.
LEMMA BeforeCommit ==
    ASSUME BoundsInv, LogInv, NEW h \in Handlers, HandlerActs(h),
           NEW i, NEW j, j \in Logged, Before(log', i, j)
    PROVE  Before(log, i, j) /\ i \in Logged
  <1>1. CASE Commit(h)
    <2> DEFINE s == handler[h].save
    <2>1. /\ s \notin Logged
          /\ Len(log) \in Nat /\ DOMAIN log = 1 .. Len(log)
          /\ DOMAIN log' = 1 .. Len(log) + 1
          /\ \A n \in 1 .. Len(log) : log'[n] = log[n]
          /\ log'[Len(log) + 1] = s
      BY <1>1, CommitLogs
    <2> HIDE DEF s
    <2>2. PICK a, b \in DOMAIN log' : a < b /\ log'[a] = i /\ log'[b] = j
      BY DEF Before
    <2>3. b \in 1 .. Len(log)
      BY <2>1, <2>2
    <2>4. a \in 1 .. Len(log)
      BY <2>1, <2>2, <2>3
    <2> QED BY <2>1, <2>2, <2>3, <2>4 DEF Before, Logged
  <1>2. CASE ~Commit(h)
    BY <1>2, CommitOnly DEF Before, Logged
  <1> QED BY <1>1, <1>2

\* What a drainer holds after its step, and where it stands.
LEMMA HeldChanges ==
    ASSUME BoundsInv, NEW d \in Drainers, DrainerActs(d)
    PROVE  /\ Drain(d) =>
                 /\ drainer[d].pc = "idle"
                 /\ drainer'[d].pc = "publish" /\ Held(d)' = PendingEvents
                 /\ UNCHANGED <<outbox, topic, failed, crashes>>
           /\ Publish(d) =>
                 /\ drainer[d].pc = "publish"
                 /\ drainer'[d].pc = "published" /\ Held(d)' = Held(d) /\ Event(d)' = Event(d)
                 /\ UNCHANGED <<outbox, failed, shared, crashes>>
           /\ PublishRaises(d) =>
                 /\ drainer[d].pc = "publish"
                 /\ drainer'[d].pc = "raised" /\ Held(d)' = Held(d) /\ Event(d)' = Event(d)
                 /\ failed' = failed \cup {Event(d)}
                 /\ UNCHANGED <<outbox, topic, shared, crashes>>
           /\ MarkPublished(d) =>
                 /\ drainer[d].pc = "published"
                 /\ outbox' = [outbox EXCEPT ![Event(d)] = "PUBLISHED"]
           /\ MarkFailed(d) =>
                 /\ drainer[d].pc = "raised"
                 /\ outbox' = [outbox EXCEPT ![Event(d)] = "FAILED"]
           /\ MarkPublished(d) \/ MarkFailed(d) =>
                 /\ drainer'[d].pc \in {"idle", "publish"} /\ Held(d)' = Held(d) \ {Event(d)}
                 /\ UNCHANGED <<topic, failed, shared, crashes>>
           /\ DrainerDies(d) =>
                 /\ drainer'[d].pc = "idle" /\ Held(d)' = {}
                 /\ crashes' = crashes + 1
                 /\ UNCHANGED <<outbox, topic, failed, shared>>
  <1> DEFINE Kinds == {Idle} \cup [pc : {"publish", "published", "raised"},
                                   events : (SUBSET Nat) \ {{}}]
  <1>0. drainer \in [Drainers -> Kinds] /\ Idle.pc = "idle"
    BY DEF BoundsInv, DrainerType, Idle
  <1>1. ASSUME Drain(d)
        PROVE  /\ drainer[d].pc = "idle" /\ drainer'[d].pc = "publish" /\ Held(d)' = PendingEvents
               /\ UNCHANGED <<outbox, topic, failed, crashes>>
    <2> DEFINE v == [pc |-> "publish", events |-> PendingEvents]
    <2>1. drainer'[d] = v
      BY <1>0, <1>1 DEF Drain
    <2>2. drainer'[d].pc = "publish" /\ Held(d)' = PendingEvents
      BY <2>1 DEF Held
    <2> QED BY <1>1, <2>2 DEF Drain
  <1>2. ASSUME drainer[d].pc = "publish", NEW pc \in {"published", "raised"},
               drainer' = [drainer EXCEPT ![d].pc = pc]
        PROVE  drainer'[d].pc = pc /\ Held(d)' = Held(d) /\ Event(d)' = Event(d)
    <2>1. drainer[d] \in [pc : {"publish", "published", "raised"}, events : (SUBSET Nat) \ {{}}]
      BY <1>0, <1>2
    <2>2. drainer'[d].pc = pc /\ drainer'[d].events = drainer[d].events
      BY <1>0, <1>2, <2>1
    <2> QED BY <1>2, <2>2 DEF Held, Event
  <1>3. ASSUME Publish(d)
        PROVE  /\ drainer[d].pc = "publish" /\ drainer'[d].pc = "published" /\ Held(d)' = Held(d)
               /\ Event(d)' = Event(d) /\ UNCHANGED <<outbox, failed, shared, crashes>>
    BY <1>2, <1>3 DEF Publish
  <1>4. ASSUME PublishRaises(d)
        PROVE  /\ drainer[d].pc = "publish" /\ drainer'[d].pc = "raised" /\ Held(d)' = Held(d)
               /\ Event(d)' = Event(d) /\ failed' = failed \cup {Event(d)}
               /\ UNCHANGED <<outbox, topic, shared, crashes>>
    BY <1>2, <1>4 DEF PublishRaises
  <1>5. ASSUME drainer[d].pc # "idle", NEW status, SetStatus(d, status)
        PROVE  drainer'[d].pc \in {"idle", "publish"} /\ Held(d)' = Held(d) \ {Event(d)}
    <2> DEFINE rest == drainer[d].events \ {Event(d)}
               v == IF drainer[d].events = {Event(d)} THEN Idle
                    ELSE [pc |-> "publish", events |-> rest]
    <2>1. drainer'[d] = v
      BY <1>0, <1>5 DEF SetStatus
    <2>2. CASE drainer[d].events = {Event(d)}
      <3>1. drainer'[d] = Idle /\ rest = {}
        BY <2>1, <2>2
      <3> QED BY <1>0, <1>5, <3>1 DEF Held
    <2>3. CASE drainer[d].events # {Event(d)}
      <3>1. drainer'[d] = [pc |-> "publish", events |-> rest]
        BY <2>1, <2>3
      <3>2. drainer'[d].pc = "publish" /\ drainer'[d].events = rest
        BY <3>1
      <3> QED BY <1>5, <3>2 DEF Held
    <2> QED BY <2>2, <2>3
  <1>6. ASSUME MarkPublished(d)
        PROVE  /\ drainer[d].pc = "published" /\ drainer'[d].pc \in {"idle", "publish"}
               /\ Held(d)' = Held(d) \ {Event(d)} /\ UNCHANGED <<topic, failed, shared, crashes>>
               /\ outbox' = [outbox EXCEPT ![Event(d)] = "PUBLISHED"]
    <2>1. drainer[d].pc = "published" /\ SetStatus(d, "PUBLISHED")
      BY <1>6 DEF MarkPublished
    <2> QED BY <1>5, <1>6, <2>1 DEF SetStatus
  <1>7. ASSUME MarkFailed(d)
        PROVE  /\ drainer[d].pc = "raised" /\ drainer'[d].pc \in {"idle", "publish"}
               /\ Held(d)' = Held(d) \ {Event(d)} /\ UNCHANGED <<topic, failed, shared, crashes>>
               /\ outbox' = [outbox EXCEPT ![Event(d)] = "FAILED"]
    <2>1. drainer[d].pc = "raised" /\ SetStatus(d, "FAILED")
      BY <1>7 DEF MarkFailed
    <2> QED BY <1>5, <1>7, <2>1 DEF SetStatus
  <1>8. ASSUME DrainerDies(d)
        PROVE  /\ drainer'[d].pc = "idle" /\ Held(d)' = {} /\ crashes' = crashes + 1
               /\ UNCHANGED <<outbox, topic, failed, shared>>
    BY <1>0, <1>8 DEF DrainerDies, Held
  <1> QED BY <1>1, <1>3, <1>4, <1>6, <1>7, <1>8

\* A handler leaves the statuses and the drainers alone; a new event is pending.
LEMMA HandlerLeaves ==
    ASSUME BoundsInv, LogInv, NEW h \in Handlers, HandlerActs(h)
    PROVE  /\ UNCHANGED <<drainer, topic, failed, shared>> /\ Published' = Published
           /\ \A d \in Drainers : Held(d)' = Held(d) /\ Event(d)' = Event(d)
           /\ \A e \in DOMAIN outbox : e \in DOMAIN outbox' /\ outbox'[e] = outbox[e]
           /\ \A e \in DOMAIN outbox' \ DOMAIN outbox : outbox'[e] = "PENDING"
  <1>1. UNCHANGED <<drainer, topic, failed, shared>>
    BY HandlerChanges DEF drainVars
  <1>2. Published' = Published /\ \A d \in Drainers : Held(d)' = Held(d) /\ Event(d)' = Event(d)
    BY <1>1 DEF Published, Held, Event
  <1>3. CASE Commit(h)
    BY <1>1, <1>2, <1>3, CommitLogs
  <1>4. CASE ~Commit(h)
    BY <1>1, <1>2, <1>4, CommitOnly
  <1> QED BY <1>3, <1>4

\* drain publishes an event before it marks it so.
LEMMA MarkStep == BoundsInv /\ LogInv /\ MarkInv /\ [Next]_vars => MarkInv'
  <1> SUFFICES ASSUME BoundsInv, LogInv, MarkInv, [Next]_vars PROVE MarkInv'
    OBVIOUS
  <1>1. ASSUME NEW h \in Handlers, HandlerActs(h) PROVE MarkInv'
    BY <1>1, HandlerLeaves DEF MarkInv
  <1>2. ASSUME NEW d \in Drainers, DrainerActs(d) PROVE MarkInv'
    <2>1. /\ \A c \in Drainers \ {d} : drainer'[c] = drainer[c] /\ Event(c)' = Event(c)
          /\ DOMAIN outbox' = DOMAIN outbox
          /\ Published \subseteq Published' /\ failed \subseteq failed'
      BY <1>2, DrainerChanges, TopicChanges DEF Event
    <2>2. Publish(d) => Event(d) \in Published'
      BY <1>2, TopicChanges
    <2>3. \A e \in DOMAIN outbox' : outbox'[e] = "PUBLISHED" => e \in Published'
      BY <1>2, <2>1, HeldChanges DEF MarkInv, DrainerActs
    <2>4. /\ drainer'[d].pc = "published" => Event(d)' \in Published'
          /\ drainer'[d].pc = "raised" => Event(d)' \in failed'
      BY <1>2, <2>1, <2>2, HeldChanges DEF MarkInv, DrainerActs
    <2> QED BY <2>1, <2>3, <2>4 DEF MarkInv
  <1>3. ASSUME UNCHANGED vars PROVE MarkInv'
    BY <1>3 DEF vars, drainVars, MarkInv, Published, Event
  <1> QED BY <1>1, <1>2, <1>3, Steps

\* A drain takes the oldest events: whatever is older and not published comes with it.
LEMMA OlderComesToo ==
    ASSUME BoundsInv, NEW i \in DOMAIN outbox, NEW j \in PendingEvents, i < j,
           outbox[i] # "PUBLISHED"
    PROVE  i \in PendingEvents
  <1> DEFINE pending == {e \in DOMAIN outbox : outbox[e] # "PUBLISHED"}
             older(e) == {f \in pending : f < e}
  <1>1. pending \subseteq 1 .. saves /\ saves \in Nat /\ Limit \in Nat
    BY StoreAssumption DEF BoundsInv, OutboxBounds
  <1>2. j \in pending /\ Cardinality(older(j)) < Limit /\ i \in pending
    BY DEF PendingEvents
  <1>3. IsFiniteSet(1 .. saves)
    BY <1>1, FS_Interval
  <1>4. IsFiniteSet(older(j))
    <2>1. older(j) \subseteq 1 .. saves
      BY <1>1
    <2> HIDE DEF older
    <2> QED BY <1>3, <2>1, FS_Subset
  <1>5. older(i) \subseteq older(j)
    BY <1>1, <1>2
  <1>6. Cardinality(older(i)) <= Cardinality(older(j)) /\ IsFiniteSet(older(i))
    <2> HIDE DEF older
    <2> QED BY <1>4, <1>5, FS_Subset
  <1>7. Cardinality(older(i)) \in Nat /\ Cardinality(older(j)) \in Nat
    <2> HIDE DEF older
    <2> QED BY <1>4, <1>6, FS_CardinalityType
  <1>8. Cardinality(older(i)) < Limit
    <2> HIDE DEF older
    <2> QED BY <1>1, <1>2, <1>6, <1>7
  <1> QED BY <1>2, <1>8 DEF PendingEvents

\* What a drain holds overtakes nothing that it could not have taken along.
LEMMA FrontStep == BoundsInv /\ LogInv /\ MarkInv /\ FrontInv /\ [Next]_vars => FrontInv'
  <1> SUFFICES ASSUME BoundsInv, LogInv, MarkInv, FrontInv, [Next]_vars PROVE FrontInv'
    OBVIOUS
  <1>0. /\ DOMAIN outbox \subseteq Logged
        /\ \A d \in Drainers : Held(d) \subseteq DOMAIN outbox
    BY DEF LogInv, BoundsInv, OutboxBounds
  <1>1. ASSUME NEW h \in Handlers, HandlerActs(h) PROVE FrontInv'
    <2> SUFFICES ASSUME NEW d \in Drainers, NEW i \in DOMAIN outbox', NEW j \in DOMAIN outbox',
                        i < j, Before(log', i, j), j \in Held(d)'
                 PROVE  i \in Held(d)' \cup failed' \cup Published'
      BY DEF FrontInv
    <2>1. /\ Held(d)' = Held(d) /\ failed' = failed /\ Published' = Published
      BY <1>1, HandlerLeaves
    <2>2. j \in DOMAIN outbox /\ j \in Logged
      BY <1>0, <2>1
    <2>3. Before(log, i, j) /\ i \in Logged
      BY <1>1, <2>2, BeforeCommit
    <2>4. i \in DOMAIN outbox
      <3>1. CASE Commit(h)
        BY <2>3, <3>1, CommitLogs
      <3>2. CASE ~Commit(h)
        BY <1>1, <3>2, CommitOnly
      <3> QED BY <3>1, <3>2
    <2> QED BY <2>1, <2>2, <2>3, <2>4 DEF FrontInv
  <1>2. ASSUME NEW d \in Drainers, DrainerActs(d) PROVE FrontInv'
    <2>1. /\ \A c \in Drainers \ {d} : Held(c)' = Held(c)
          /\ DOMAIN outbox' = DOMAIN outbox /\ log' = log
          /\ Published \subseteq Published' /\ failed \subseteq failed'
      BY <1>2, DrainerChanges, TopicChanges DEF Held, storeVars
    <2>2. ASSUME NEW i \in DOMAIN outbox, NEW j \in DOMAIN outbox, i < j, Before(log, i, j),
                 j \in Held(d)'
          PROVE  i \in Held(d)' \cup failed' \cup Published'
      <3>1. CASE Drain(d)
        <4>1. Held(d)' = PendingEvents
          BY <1>2, <3>1, HeldChanges
        <4>2. CASE outbox[i] = "PUBLISHED"
          BY <2>1, <4>2 DEF MarkInv
        <4>3. CASE outbox[i] # "PUBLISHED"
          BY <2>2, <4>1, <4>3, OlderComesToo
        <4> QED BY <4>2, <4>3
      <3>2. CASE ~Drain(d)
        <4>1. Held(d)' \subseteq Held(d)
          BY <1>2, <3>2, HeldChanges DEF DrainerActs
        <4>2. i \in Held(d) \cup failed \cup Published
          BY <2>2, <4>1 DEF FrontInv
        <4>3. i \in Held(d) \ Held(d)' => i \in failed \cup Published
          <5>1. Held(d)' \in {Held(d), Held(d) \ {Event(d)}} \/ j \notin Held(d)'
            BY <1>2, <3>2, HeldChanges DEF DrainerActs
          <5>2. i \in Held(d) \ Held(d)' => i = Event(d) /\ drainer[d].pc \in {"published", "raised"}
            BY <1>2, <2>2, <3>2, <5>1, HeldChanges DEF DrainerActs
          <5> QED BY <5>2 DEF MarkInv
        <4> QED BY <2>1, <4>2, <4>3
      <3> QED BY <3>1, <3>2
    <2> QED BY <2>1, <2>2 DEF FrontInv
  <1>3. ASSUME UNCHANGED vars PROVE FrontInv'
    BY <1>3 DEF vars, storeVars, drainVars, FrontInv, Published, Held
  <1> QED BY <1>1, <1>2, <1>3, Steps

\* What is in the topic was put there after whatever may not be overtaken by it.
LEMMA OvertakeStep ==
    BoundsInv /\ LogInv /\ FrontInv /\ OvertakenFailedFirst /\ [Next]_vars
        => OvertakenFailedFirst'
  <1> DEFINE First(i, j) == \E a \in DOMAIN topic : topic[a] = i /\ \A b \in 1 .. a : topic[b] # j
  <1> SUFFICES ASSUME BoundsInv, LogInv, FrontInv, OvertakenFailedFirst, [Next]_vars,
                      NEW i \in DOMAIN outbox', NEW j \in DOMAIN outbox',
                      i < j, Before(log', i, j), j \in Published'
               PROVE  i \in failed' \/ First(i, j)'
    BY DEF OvertakenFailedFirst
  <1>0. DOMAIN outbox \subseteq Logged /\ Published \subseteq DOMAIN outbox
    BY DEF LogInv, BoundsInv, OutboxBounds
  <1>1. ASSUME NEW h \in Handlers, HandlerActs(h) PROVE i \in failed' \/ First(i, j)'
    <2>1. failed' = failed /\ topic' = topic /\ Published' = Published
      BY <1>1, HandlerLeaves
    <2>2. j \in DOMAIN outbox /\ j \in Logged
      BY <1>0, <2>1
    <2>3. Before(log, i, j) /\ i \in Logged
      BY <1>1, <2>2, BeforeCommit
    <2>4. i \in DOMAIN outbox
      <3>1. CASE Commit(h)
        BY <2>3, <3>1, CommitLogs
      <3>2. CASE ~Commit(h)
        BY <1>1, <3>2, CommitOnly
      <3> QED BY <3>1, <3>2
    <2>5. i \in failed \/ First(i, j)
      BY <2>1, <2>2, <2>3, <2>4 DEF OvertakenFailedFirst
    <2> QED BY <2>1, <2>5
  <1>2. ASSUME NEW d \in Drainers, DrainerActs(d) PROVE i \in failed' \/ First(i, j)'
    <2>1. /\ DOMAIN outbox' = DOMAIN outbox /\ log' = log /\ failed \subseteq failed'
      BY <1>2, DrainerChanges, TopicChanges DEF storeVars
    <2>2. CASE topic' = topic
      <3>1. j \in Published
        BY <2>2 DEF Published
      <3>2. i \in failed \/ First(i, j)
        BY <2>1, <3>1 DEF OvertakenFailedFirst
      <3> QED BY <2>1, <2>2, <3>2
    <2>3. CASE topic' # topic
      <3> DEFINE e == Event(d)
      <3>1. /\ e \in DOMAIN outbox /\ topic' = Append(topic, e) /\ drainer[d].pc # "idle"
            /\ Published' = Published \cup {e}
        BY <1>2, <2>3, TopicChanges
      <3>2. topic \in Seq(Nat) /\ e \in Nat
        BY <3>1 DEF BoundsInv, OutboxBounds
      <3>3. /\ Len(topic) \in Nat /\ DOMAIN topic = 1 .. Len(topic)
            /\ DOMAIN topic' = 1 .. Len(topic) + 1
            /\ \A n \in 1 .. Len(topic) : topic'[n] = topic[n]
        BY <3>1, <3>2, Appended
      <3>4. /\ e \in Held(d) /\ Held(d) \subseteq Nat /\ \A f \in Held(d) : e <= f
        BY <3>1, Oldest
      <3> HIDE DEF e
      <3>5. First(i, j) => First(i, j)'
        <4> SUFFICES ASSUME NEW a \in DOMAIN topic, topic[a] = i, \A b \in 1 .. a : topic[b] # j
                     PROVE  First(i, j)'
          OBVIOUS
        <4>1. a \in DOMAIN topic' /\ topic'[a] = i
          BY <3>3
        <4>2. \A b \in 1 .. a : topic'[b] = topic[b]
          BY <3>3
        <4> QED BY <4>1, <4>2
      <3>6. CASE j \in Published
        BY <2>1, <3>5, <3>6 DEF OvertakenFailedFirst
      <3>7. CASE j \notin Published
        <4>1. j = e
          BY <3>1, <3>7
        <4>2. i \in Nat /\ i \notin Held(d)
          BY <2>1, <3>2, <3>4, <4>1 DEF BoundsInv, OutboxBounds
        <4>3. i \in failed \cup Published
          BY <2>1, <3>4, <4>1, <4>2 DEF FrontInv
        <4>4. i \in Published => First(i, j)
          <5> SUFFICES ASSUME NEW a \in DOMAIN topic, topic[a] = i PROVE First(i, j)
            BY DEF Published
          <5>1. \A b \in 1 .. a : topic[b] # j
            BY <3>3, <3>7 DEF Published
          <5> QED BY <5>1
        <4> QED BY <2>1, <3>5, <4>3, <4>4
      <3> QED BY <3>6, <3>7
    <2> QED BY <2>2, <2>3
  <1>3. ASSUME UNCHANGED vars PROVE i \in failed' \/ First(i, j)'
    <2>1. UNCHANGED <<outbox, log, topic, failed>>
      BY <1>3 DEF vars, storeVars, drainVars
    <2>2. j \in Published
      BY <2>1 DEF Published
    <2>3. i \in failed \/ First(i, j)
      BY <2>1, <2>2 DEF OvertakenFailedFirst
    <2> QED BY <2>1, <2>3
  <1> QED BY <1>1, <1>2, <1>3, Steps

\* Nothing was drained when the workflow was planned.
LEMMA OutboxInit == Init => LogInv /\ MarkInv /\ FrontInv /\ OvertakenFailedFirst /\ OnceInv
  <1> SUFFICES ASSUME Init PROVE LogInv /\ MarkInv /\ FrontInv /\ OvertakenFailedFirst /\ OnceInv
    OBVIOUS
  <1>1. DOMAIN outbox = {} /\ log = <<0>> /\ saves = 0 /\ crashes = 0
    BY DEF Init
  <1>2. \A d \in Drainers : drainer[d].pc = "idle"
    BY DEF Init, Idle
  <1>3. \A h \in Handlers : handler[h].pc \notin InTransaction
    BY DEF Init, Idle, InTransaction
  <1>4. log \in Seq(Nat) /\ Logged = {0} /\ \A m, n \in DOMAIN log : m = n
    BY <1>1 DEF Logged
  <1> QED BY <1>1, <1>2, <1>3, <1>4 DEF LogInv, MarkInv, FrontInv, OvertakenFailedFirst, OnceInv

\* pending_workflow_events and drain: for any number of saves, drainers and crashes and any
\* limit, an event that began and committed before another one is overtaken by it only after
\* a publication of its own has failed.
THEOREM OvertakenFailedBefore == Spec => []OvertakenFailedFirst
  <1> DEFINE Inv == BoundsInv /\ LogInv /\ MarkInv /\ FrontInv /\ OvertakenFailedFirst
  <1>1. Init => Inv
    BY BoundsInit, OutboxInit
  <1>2. Inv /\ [Next]_vars => Inv'
    BY BoundsStep, LogStep, MarkStep, FrontStep, OvertakeStep
  <1> QED BY <1>1, <1>2, PTL DEF Spec

----------------------------------------------------------------------------
(* events that are published twice *)

\* A commit adds an event that nobody holds or has published.
LEMMA OnceHandlerStep ==
    ASSUME BoundsInv, LogInv, OnceInv, NEW h \in Handlers, HandlerActs(h)
    PROVE  OnceInv'
  <1>1. /\ UNCHANGED <<drainer, topic, shared>> /\ Published' = Published
        /\ \A d \in Drainers : Held(d)' = Held(d) /\ Event(d)' = Event(d)
        /\ \A e \in DOMAIN outbox : e \in DOMAIN outbox' /\ outbox'[e] = outbox[e]
        /\ \A e \in DOMAIN outbox' \ DOMAIN outbox : outbox'[e] = "PENDING"
    BY HandlerLeaves
  <1>2. crashes' \in {crashes, crashes + 1} /\ crashes \in Nat
    BY DEF HandlerActs, Request, HandlerStep, Die, OnceInv
  <1>3. ASSUME crashes' = 0, NEW e \in DOMAIN outbox' \ shared' PROVE Once(e)'
    <2>1. CASE e \in DOMAIN outbox
      <3>1. Once(e)
        BY <1>1, <1>2, <1>3, <2>1 DEF OnceInv
      <3>2. \A d \in Drainers : Marking(d, e) => Marking(d, e)'
        BY <1>1 DEF Marking
      <3> QED BY <1>1, <2>1, <3>1, <3>2 DEF Once
    <2>2. CASE e \notin DOMAIN outbox
      <3>1. e \notin Published /\ \A d \in Drainers : e \notin Held(d)
        BY <2>2 DEF BoundsInv, OutboxBounds
      <3>2. \A a \in DOMAIN topic : topic[a] # e
        BY <3>1 DEF Published
      <3> QED BY <1>1, <1>3, <2>2, <3>1, <3>2 DEF Once
    <2> QED BY <2>1, <2>2
  <1> QED BY <1>2, <1>3 DEF OnceInv

\* A drainer publishes what it holds alone and has not published.
LEMMA OnceDrainerStep ==
    ASSUME BoundsInv, OnceInv, NEW d \in Drainers, DrainerActs(d)
    PROVE  OnceInv'
  <1>0. /\ DOMAIN outbox' = DOMAIN outbox
        /\ \A c \in Drainers \ {d} : /\ drainer'[c] = drainer[c]
                                     /\ Held(c)' = Held(c) /\ Event(c)' = Event(c)
    BY DrainerChanges DEF Held, Event
  <1>1. crashes' \in {crashes, crashes + 1} /\ crashes \in Nat
        /\ (crashes' = crashes => ~DrainerDies(d))
    BY HeldChanges DEF OnceInv, DrainerActs
  <1>2. shared \subseteq shared'
    BY HeldChanges DEF Drain, DrainerActs
  <1>3. ASSUME crashes' = 0, NEW e \in DOMAIN outbox \ shared' PROVE Once(e)'
    <2>0. Once(e) /\ ~DrainerDies(d)
      BY <1>1, <1>2, <1>3 DEF OnceInv
    <2>1. CASE Drain(d)
      <3>1. /\ Held(d)' = PendingEvents /\ drainer[d].pc = "idle"
            /\ UNCHANGED <<outbox, topic>>
        BY <2>1, HeldChanges
      <3>2. e \in PendingEvents => \A c \in Drainers \ {d} : e \notin Held(c)
        BY <1>3, <2>1 DEF Drain
      <3>3. e \in PendingEvents => outbox[e] # "PUBLISHED"
        BY DEF PendingEvents
      <3>4. \A c \in Drainers : Marking(c, e) => Marking(c, e)'
        BY <1>0, <3>1 DEF Marking
      <3>5. Published' = Published
        BY <3>1 DEF Published
      <3> QED BY <1>0, <2>0, <3>1, <3>2, <3>3, <3>4, <3>5 DEF Once
    <2>2. CASE Publish(d)
      <3>1. /\ drainer[d].pc = "publish" /\ drainer'[d].pc = "published"
            /\ Held(d)' = Held(d) /\ Event(d)' = Event(d) /\ outbox' = outbox
        BY <2>2, HeldChanges
      <3>2. /\ topic' = Append(topic, Event(d)) /\ Published' = Published \cup {Event(d)}
            /\ Event(d) \in Held(d) /\ Event(d) \in Nat /\ topic \in Seq(Nat)
        BY <2>2, <3>1, TopicChanges, Oldest DEF BoundsInv, OutboxBounds
      <3>3. \A c \in Drainers : Marking(c, e) => Marking(c, e)'
        BY <1>0, <3>1 DEF Marking
      <3>4. e = Event(d) => Marking(d, e)' /\ e \notin Published
        <4> SUFFICES ASSUME e = Event(d) PROVE Marking(d, e)' /\ e \notin Published
          OBVIOUS
        <4>1. Marking(d, e)'
          BY <3>1 DEF Marking
        <4>2. \A c \in Drainers : ~Marking(c, e)
          <5> SUFFICES ASSUME NEW c \in Drainers, Marking(c, e) PROVE FALSE
            OBVIOUS
          <5>1. drainer[c].pc = "published" /\ Event(c) = e
            BY DEF Marking
          <5>2. e \in Held(c)
            BY <5>1, Oldest
          <5> QED BY <2>0, <3>1, <3>2, <5>1, <5>2 DEF Once
        <4>3. outbox[e] # "PUBLISHED"
          BY <2>0, <3>2 DEF Once
        <4> QED BY <2>0, <4>1, <4>2, <4>3 DEF Once
      <3>5. ASSUME NEW a \in DOMAIN topic', NEW b \in DOMAIN topic', topic'[a] = e, topic'[b] = e
            PROVE  a = b
        <4> DEFINE x == Event(d)
        <4>1. /\ Len(topic) \in Nat /\ DOMAIN topic = 1 .. Len(topic)
              /\ DOMAIN topic' = 1 .. Len(topic) + 1
              /\ \A n \in 1 .. Len(topic) : topic'[n] = topic[n]
              /\ topic'[Len(topic) + 1] = x
          BY <3>2, Appended
        <4>2. e = x => \A n \in 1 .. Len(topic) : topic[n] # e
          BY <3>4, <4>1 DEF Published
        <4> HIDE DEF x
        <4> QED BY <2>0, <3>5, <4>1, <4>2 DEF Once
      <3>6. e \in Published' => outbox'[e] = "PUBLISHED" \/ \E c \in Drainers : Marking(c, e)'
        BY <2>0, <3>1, <3>2, <3>3, <3>4 DEF Once
      <3> QED BY <1>0, <2>0, <3>1, <3>5, <3>6 DEF Once
    <2>3. CASE PublishRaises(d)
      <3>1. /\ drainer[d].pc = "publish" /\ Held(d)' = Held(d) /\ UNCHANGED <<outbox, topic>>
        BY <2>3, HeldChanges
      <3>2. \A c \in Drainers : Marking(c, e) => Marking(c, e)'
        BY <1>0, <3>1 DEF Marking
      <3>3. Published' = Published
        BY <3>1 DEF Published
      <3> QED BY <1>0, <2>0, <3>1, <3>2, <3>3 DEF Once
    <2>4. CASE MarkPublished(d) \/ MarkFailed(d)
      <3>1. /\ \/ /\ drainer[d].pc = "published"
                  /\ outbox' = [outbox EXCEPT ![Event(d)] = "PUBLISHED"]
               \/ /\ drainer[d].pc = "raised"
                  /\ outbox' = [outbox EXCEPT ![Event(d)] = "FAILED"]
            /\ Held(d)' = Held(d) \ {Event(d)} /\ topic' = topic
        BY <2>4, HeldChanges
      <3>2. Event(d) \in Held(d) /\ Event(d) \in DOMAIN outbox
        BY <3>1, Oldest
      <3>3. Published' = Published
        BY <3>1 DEF Published
      <3>4. \A c \in Drainers \ {d} : Marking(c, e) => Marking(c, e)'
        BY <1>0 DEF Marking
      <3>5. Marking(d, e) => outbox'[e] = "PUBLISHED"
        BY <1>3, <3>1 DEF Marking
      <3>6. outbox[e] = "PUBLISHED" => outbox'[e] = "PUBLISHED"
        BY <2>0, <3>1, <3>2 DEF Once
      <3>7. outbox'[e] = "PUBLISHED" => \A c \in Drainers : e \notin Held(c)'
        BY <1>0, <2>0, <3>1, <3>2 DEF Once
      <3>8. \A b, c \in Drainers : e \in Held(b)' /\ e \in Held(c)' => b = c
        BY <1>0, <2>0, <3>1 DEF Once
      <3>9. e \in Published' => outbox'[e] = "PUBLISHED" \/ \E c \in Drainers : Marking(c, e)'
        BY <2>0, <3>3, <3>4, <3>5, <3>6 DEF Once
      <3> QED BY <2>0, <3>1, <3>7, <3>8, <3>9 DEF Once
    <2> QED BY <2>0, <2>1, <2>2, <2>3, <2>4 DEF DrainerActs
  <1> QED BY <1>0, <1>1, <1>3 DEF OnceInv

\* WorkflowOutboxPublisher.drain: for any number of drainers, events and publications that
\* fail, an event reaches the topic twice only if a process died or two drains held it.
THEOREM DuplicatesAreExplained == Spec => []DuplicateExplained
  <1> DEFINE Inv == BoundsInv /\ LogInv /\ OnceInv
  <1>1. Init => Inv
    BY BoundsInit, OutboxInit
  <1>2. Inv /\ [Next]_vars => Inv'
    <2>1. Inv /\ UNCHANGED vars => OnceInv'
      <3>1. UNCHANGED vars => UNCHANGED <<crashes, outbox, shared, drainer, topic>>
        BY DEF vars, storeVars, drainVars
      <3> QED BY <3>1 DEF OnceInv, Once, Held, Published, Marking, Event
    <2> QED BY <2>1, BoundsStep, LogStep, OnceHandlerStep, OnceDrainerStep, Steps
  <1>3. Inv => DuplicateExplained
    <2> SUFFICES ASSUME Inv, crashes = 0, NEW e \in DOMAIN outbox \ shared
                 PROVE  ~(Copies(e) > 1)
      <3>1. crashes \in Nat /\ crashes # 0 => crashes > 0
        OBVIOUS
      <3> QED BY <3>1 DEF DuplicateExplained, OnceInv
    <2> DEFINE at == {i \in DOMAIN topic : topic[i] = e}
    <2>1. \A a, b \in at : a = b
      BY DEF OnceInv, Once
    <2>2. Cardinality(at) \in {0, 1}
      <3>1. CASE at = {}
        BY <3>1, FS_EmptySet
      <3>2. CASE at # {}
        <4>1. PICK a : a \in at
          BY <3>2
        <4>2. at = {a}
          BY <2>1, <4>1
        <4> HIDE DEF at
        <4> QED BY <4>2, FS_Singleton
      <3> QED BY <3>1, <3>2
    <2> QED BY <2>2 DEF Copies
  <1> QED BY <1>1, <1>2, <1>3, PTL DEF Spec
=============================================================================
