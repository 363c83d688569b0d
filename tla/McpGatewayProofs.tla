-------------------------- MODULE McpGatewayProofs --------------------------
(***************************************************************************)
(* What McpGateway guarantees for any number of calls, principals, tools,  *)
(* keys and approvals, any retention times and any isolation mode.         *)
(***************************************************************************)
EXTENDS McpGateway, WellFoundedInduction, FiniteSetTheorems, SequenceTheorems, TLAPS

----------------------------------------------------------------------------
(* the stores keep their types *)

\* A transition of a record gives a record with the new status.
LEMMA MovedRecord ==
    ASSUME NEW r \in ApprovalRecord, NEW s \in ApprovalStatus
    PROVE  /\ Moved(r, s) \in ApprovalRecord
           /\ Moved(r, s).status = s
           /\ Moved(r, s).version = r.version + 1
           /\ Moved(r, s).requester = r.requester
           /\ Moved(r, s).op = r.op
           /\ Moved(r, s).approvedBy = r.approvedBy
           /\ Moved(r, s).approvedAt = r.approvedAt
           /\ Moved(r, s).expiresAt = r.expiresAt
           /\ Moved(r, s).rejectedBy = r.rejectedBy
  <1>1. r.version + 1 \in Nat
    BY DEF ApprovalRecord
  <1>2. PICK v \in Nat : v = r.version + 1
    BY <1>1
  <1>3. Moved(r, s) = [r EXCEPT !.status = s, !.version = v]
    BY <1>2 DEF Moved
  <1> QED BY <1>2, <1>3 DEF ApprovalRecord

\* Storing a well-formed record keeps the approval store well-formed.
LEMMA StoreType ==
    ASSUME ApprovalStoreTypeOK,
           NEW a \in ApprovalIds, NEW STATE r, r \in ApprovalRecord, r.status # "NONE",
           Store(a, r)
    PROVE  ApprovalStoreTypeOK'
  <1>1. r.status \in ApprovalStatus
    BY DEF ApprovalRecord
  <1>2. approvals' \in [ApprovalIds -> ApprovalRecord]
    BY DEF Store, ApprovalStoreTypeOK
  <1>3. Append(events[a], r.status) \in Seq(ApprovalStatus)
    BY <1>1 DEF ApprovalStoreTypeOK
  <1>4. Append(audit[a], r.status) \in Seq(ApprovalStatus)
    BY <1>1 DEF ApprovalStoreTypeOK
  <1>5. events' \in [ApprovalIds -> Seq(ApprovalStatus)]
    BY <1>3 DEF Store, RecordTransition, ApprovalStoreTypeOK
  <1>6. audit' \in [ApprovalIds -> Seq(ApprovalStatus)]
    BY <1>4 DEF Store, RecordTransition, ApprovalStoreTypeOK
  <1> QED BY <1>2, <1>5, <1>6 DEF ApprovalStoreTypeOK

\* Storing the record of a moved to another status.
LEMMA MoveType ==
    ASSUME ApprovalStoreTypeOK, NEW a \in ApprovalIds, NEW s \in ApprovalStatus,
           Store(a, Moved(approvals[a], s))
    PROVE  ApprovalStoreTypeOK'
  <1>1. approvals[a] \in ApprovalRecord
    BY DEF ApprovalStoreTypeOK
  <1>2. /\ Moved(approvals[a], s) \in ApprovalRecord
        /\ Moved(approvals[a], s).status # "NONE"
    BY <1>1, MovedRecord DEF ApprovalStatus
  <1> QED BY <1>2, StoreType

\* Every operation of the approval store keeps it well-formed.
LEMMA ApprovalOperationsType ==
    ASSUME ApprovalStoreTypeOK, NEW a \in ApprovalIds, NEW now \in Nat
    PROVE  /\ \A p \in Principals, o \in Operations :
                 CreateApproval(a, p, o, now) => ApprovalStoreTypeOK'
           /\ \A p \in Principals : Approve(a, p, now) => ApprovalStoreTypeOK'
           /\ \A p \in Principals : Reject(a, p, now) => ApprovalStoreTypeOK'
           /\ ExpireOnRead(a, now) => ApprovalStoreTypeOK'
           /\ MarkExecuted(a) => ApprovalStoreTypeOK'
           /\ MarkFailed(a) => ApprovalStoreTypeOK'
  <1>0. approvals[a] \in ApprovalRecord
    BY DEF ApprovalStoreTypeOK
  <1>1. ASSUME NEW p \in Principals, NEW o \in Operations, CreateApproval(a, p, o, now)
        PROVE  ApprovalStoreTypeOK'
    <2> DEFINE r == [NoRecord EXCEPT !.status = "PENDING", !.requester = p, !.op = o,
                                     !.createdAt = now, !.expiresAt = now + ApprovalTtl,
                                     !.version = 1]
    <2>5. Store(a, r)
      BY <1>1 DEF CreateApproval
    <2>1. now + ApprovalTtl \in Nat
      BY ApprovalStoreAssumption
    <2>2. PICK e \in Nat : e = now + ApprovalTtl
      BY <2>1
    <2>3. NoRecord \in ApprovalRecord
      BY DEF NoRecord, ApprovalRecord
    <2>4. r = [NoRecord EXCEPT !.status = "PENDING", !.requester = p, !.op = o,
                               !.createdAt = now, !.expiresAt = e, !.version = 1]
      BY <2>2
    <2> HIDE DEF r
    <2>6. r \in ApprovalRecord /\ r.status # "NONE"
      BY <2>3, <2>4 DEF ApprovalRecord, ApprovalStatus
    <2> QED BY <2>5, <2>6, StoreType
  <1>2. ASSUME NEW p \in Principals, Approve(a, p, now)
        PROVE  ApprovalStoreTypeOK'
    <2> DEFINE m == Moved(approvals[a], "APPROVED")
               r == [m EXCEPT !.approvedBy = p, !.approvedAt = now]
    <2>1. m \in ApprovalRecord /\ m.status = "APPROVED"
      BY <1>0, MovedRecord DEF ApprovalStatus
    <2>2. Store(a, r)
      BY <1>2 DEF Approve
    <2> HIDE DEF m
    <2>3. r \in ApprovalRecord /\ r.status # "NONE"
      BY <2>1 DEF ApprovalRecord, ApprovalStatus
    <2> HIDE DEF r
    <2> QED BY <2>2, <2>3, StoreType
  <1>3. ASSUME NEW p \in Principals, Reject(a, p, now)
        PROVE  ApprovalStoreTypeOK'
    <2> DEFINE m == Moved(approvals[a], "REJECTED")
               r == [m EXCEPT !.rejectedBy = p]
    <2>1. m \in ApprovalRecord /\ m.status = "REJECTED"
      BY <1>0, MovedRecord DEF ApprovalStatus
    <2>2. Store(a, r)
      BY <1>3 DEF Reject
    <2> HIDE DEF m
    <2>3. r \in ApprovalRecord /\ r.status # "NONE"
      BY <2>1 DEF ApprovalRecord, ApprovalStatus
    <2> HIDE DEF r
    <2> QED BY <2>2, <2>3, StoreType
  <1>4. ExpireOnRead(a, now) => ApprovalStoreTypeOK'
    BY MoveType DEF ExpireOnRead, ApprovalStatus
  <1>5. MarkExecuted(a) => ApprovalStoreTypeOK'
    BY MoveType DEF MarkExecuted, ApprovalStatus
  <1>6. MarkFailed(a) => ApprovalStoreTypeOK'
    BY MoveType DEF MarkFailed, ApprovalStatus
  <1> QED BY <1>1, <1>2, <1>3, <1>4, <1>5, <1>6

\* Listing expires many records at once.
LEMMA ExpirePendingType ==
    ASSUME ApprovalStoreTypeOK, NEW STATE now, ExpirePending(now)
    PROVE  ApprovalStoreTypeOK'
  <1>1. \A a \in ApprovalIds : Moved(approvals[a], "EXPIRED") \in ApprovalRecord
    BY MovedRecord DEF ApprovalStoreTypeOK, ApprovalStatus
  <1>2. \A a \in ApprovalIds : /\ Append(events[a], "EXPIRED") \in Seq(ApprovalStatus)
                               /\ Append(audit[a], "EXPIRED") \in Seq(ApprovalStatus)
    BY DEF ApprovalStoreTypeOK, ApprovalStatus
  <1>3. approvals' \in [ApprovalIds -> ApprovalRecord]
    BY <1>1 DEF ExpirePending, ApprovalStoreTypeOK
  <1>4. events' \in [ApprovalIds -> Seq(ApprovalStatus)]
    BY <1>2 DEF ExpirePending, ApprovalStoreTypeOK
  <1>5. audit' \in [ApprovalIds -> Seq(ApprovalStatus)]
    BY <1>2 DEF ExpirePending, ApprovalStoreTypeOK
  <1> QED BY <1>3, <1>4, <1>5 DEF ApprovalStoreTypeOK

\* Every operation of the idempotency store keeps it well-formed.
LEMMA IdemOperationsType ==
    ASSUME IdemTypeOK, NEW k \in IdemKeys, NEW STATE now, now \in Nat
    PROVE  /\ Reserve(k, now) => IdemTypeOK'
           /\ ReserveKnown(k, now) => IdemTypeOK'
           /\ MarkRunning(k) => IdemTypeOK'
           /\ \A s \in TerminalStates : \A r \in Responses :
                 Complete(k, s, r, now) => IdemTypeOK'
  <1>0. AbsentRecord \in IdemRecord
    BY DEF AbsentRecord, IdemRecord
  <1>1. ASSUME Reserve(k, now) PROVE IdemTypeOK'
    <2>1. PICK evicted \in EvictionSets(Present(keys) \ (ExpiredKeys(now) \cup {k}), k, now) :
            /\ keys' = [x \in IdemKeys |->
                          IF x \in evicted \/ (x \in ExpiredKeys(now) /\ x # k) THEN AbsentRecord
                          ELSE IF x = k
                               THEN [status |-> "RESERVED", createdAt |-> now,
                                     response |-> NoResponse]
                               ELSE keys[x]]
            /\ Forget(ExpiredKeys(now) \cup evicted)
      BY <1>1 DEF Reserve
    <2>2. evicted \subseteq IdemKeys
      BY <2>1 DEF EvictionSets, Present
    <2>3. [status |-> "RESERVED", createdAt |-> now, response |-> NoResponse] \in IdemRecord
      BY DEF IdemRecord
    <2>4. keys' \in [IdemKeys -> IdemRecord]
      BY <1>0, <2>1, <2>3 DEF IdemTypeOK
    <2>5. forgotten' \in SUBSET IdemKeys
      BY <2>1, <2>2 DEF IdemTypeOK, Forget, ExpiredKeys, Present
    <2> QED BY <2>4, <2>5 DEF IdemTypeOK
  <1>2. ASSUME ReserveKnown(k, now) PROVE IdemTypeOK'
    BY <1>0, <1>2 DEF ReserveKnown, IdemTypeOK, Forget, ExpiredKeys, Present
  <1>3. ASSUME MarkRunning(k) PROVE IdemTypeOK'
    BY <1>3 DEF MarkRunning, IdemTypeOK, IdemRecord
  <1>4. ASSUME NEW s \in TerminalStates, NEW r \in Responses, Complete(k, s, r, now)
        PROVE  IdemTypeOK'
    BY <1>4 DEF Complete, IdemTypeOK, IdemRecord
  <1> QED BY <1>1, <1>2, <1>3, <1>4

\* A set of naturals has a least element.
LEMMA LeastNatural ==
    ASSUME NEW T \in SUBSET Nat, T # {}
    PROVE  \E i \in T : \A j \in T : i <= j
  <1> DEFINE R == {ss \in Nat \X Nat : ss[1] < ss[2]}
  <1>1. OpToRel(<, Nat) = R
    BY Zenon DEF OpToRel
  <1>2. IsWellFoundedOn(R, Nat)
    BY Zenon, <1>1, NatLessThanWellFounded
  <1>3. PICK i \in T : \A j \in T : <<j, i>> \notin R
    BY Zenon, <1>2, WFMin
  <1>4. ASSUME NEW j \in T PROVE i <= j
    <2>1. <<j, i>> \in Nat \X Nat /\ <<j, i>>[1] = j /\ <<j, i>>[2] = i
      OBVIOUS
    <2>2. ~(j < i)
      BY <1>3, <2>1
    <2> QED BY <2>2
  <1> QED BY <1>4

\* Dropping the expired front of a deque leaves a sequence of stamps, and no
\* more of them than before.
LEMMA InWindowType ==
    ASSUME NEW s \in Seq(Nat), NEW now \in Nat
    PROVE  InWindow(s, now) \in Seq(Nat) /\ Len(InWindow(s, now)) <= Len(s)
  <1> DEFINE live == {i \in 1..Len(s) : now < s[i] + RateWindow}
             first == CHOOSE i \in live : \A j \in live : i <= j
  <1>1. CASE live = {}
    BY <1>1 DEF InWindow
  <1>2. CASE live # {}
    <2>1. live \in SUBSET Nat
      OBVIOUS
    <2>2. \E i \in live : \A j \in live : i <= j
      BY <1>2, <2>1, LeastNatural
    <2>3. first \in live
      BY <2>2
    <2>4. InWindow(s, now) = SubSeq(s, first, Len(s))
      BY <1>2 DEF InWindow
    <2> HIDE DEF first
    <2> QED BY <2>3, <2>4
  <1> QED BY <1>1, <1>2

\* Every check() keeps the history of its limiter well-formed.
LEMMA CheckedType ==
    ASSUME checked \in [Buckets -> Checked], NEW b \in Buckets, NEW now \in Nat,
           Admit(b, now) \/ Refuse(b, now)
    PROVE  checked' \in [Buckets -> Checked]
  <1> DEFINE newest == Newest(b, now)
             entry == [at |-> now, newest |-> newest]
  <1>1. /\ checked[b].newest \in Nat
        /\ checked[b].admitted \in Seq([at : Nat, newest : Nat])
    BY DEF Checked
  <1>2. newest \in Nat
    BY <1>1 DEF Newest
  <1> HIDE DEF newest
  <1>3. Append(checked[b].admitted, entry) \in Seq([at : Nat, newest : Nat])
    BY <1>1, <1>2
  <1>4. /\ [newest |-> newest, admitted |-> Append(checked[b].admitted, entry)] \in Checked
        /\ [checked[b] EXCEPT !.newest = newest] \in Checked
    BY <1>1, <1>2, <1>3 DEF Checked
  <1> QED BY <1>4 DEF Admit, Refuse, newest

----------------------------------------------------------------------------
(* the gateway keeps its type *)

\* A call that has arrived has a request, with an operation, a bucket and a key.
Arrived == \A c \in Calls : pc[c] # "idle" => req[c] \in Requests

\* The parts of the request of a call that has arrived.
LEMMA RequestParts ==
    ASSUME NEW c \in Calls, req[c] \in Requests
    PROVE  /\ req[c].principal \in Principals
           /\ req[c].op \in Operations
           /\ req[c].approval \in Calls \cup {NoApproval}
           /\ IdemKey(c) \in IdemKeys
           /\ Bucket(c) \in Buckets
  <1>1. req[c] \in [principal : Principals, op : Operations, key : Keys,
                    approval : Calls \cup {NoApproval}]
    BY GatewayAssumption
  <1> QED BY <1>1, GatewayAssumption DEF IdemKey, Bucket

\* The type invariant and Arrived hold initially.
LEMMA TypeInit == Init => TypeOK /\ Arrived
  <1> SUFFICES ASSUME Init PROVE TypeOK /\ Arrived
    OBVIOUS
  <1>1. ApprovalStoreTypeOK
    BY DEF Init, ApprovalStoreInit, ApprovalStoreTypeOK, NoRecord, ApprovalRecord
  <1>2. IdemTypeOK
    BY DEF Init, IdemInit, IdemTypeOK, AbsentRecord, IdemRecord
  <1>3. RateTypeOK
    <2>1. << >> \in Seq(Nat) /\ << >> \in Seq([at : Nat, newest : Nat])
      OBVIOUS
    <2>2. [newest |-> 0, admitted |-> << >>] \in Checked
      BY <2>1 DEF Checked
    <2> QED BY <2>1, <2>2 DEF Init, RateInit, RateTypeOK
  <1> QED BY <1>1, <1>2, <1>3 DEF Init, TypeOK, Arrived, Locations

\* Every step of the gateway keeps the type invariant and Arrived.
LEMMA TypeStep == TypeOK /\ Arrived /\ [Next]_vars => TypeOK' /\ Arrived'
  <1> SUFFICES ASSUME TypeOK, Arrived, [Next]_vars PROVE TypeOK' /\ Arrived'
    OBVIOUS
  <1> USE DEF Goto, Return, StayInCall
  <1>1. ASSUME NEW c \in Calls, NEW r \in Requests, Arrive(c, r)
        PROVE  TypeOK' /\ Arrived'
    BY <1>1 DEF Arrive, TypeOK, Arrived, approvalVars, ApprovalStoreTypeOK, idemVars,
                IdemTypeOK, RateTypeOK, rateVars, Locations
  <1>2. ASSUME NEW c \in Calls, CheckRate(c)
        PROVE  TypeOK' /\ Arrived'
    <2>1. req[c] \in Requests /\ at[c] \in Nat
      BY <1>2 DEF CheckRate, Arrived, TypeOK
    <2>2. Bucket(c) \in Buckets
      BY <2>1, RequestParts
    <2>3. InWindow(window[Bucket(c)], at[c]) \in Seq(Nat)
      BY <2>1, <2>2, InWindowType DEF TypeOK, RateTypeOK
    <2>4. Append(InWindow(window[Bucket(c)], at[c]), at[c]) \in Seq(Nat)
      BY <2>1, <2>3
    <2>5. RateTypeOK'
      <3>1. window' \in [Buckets -> Seq(Nat)]
        BY <1>2, <2>2, <2>3, <2>4 DEF CheckRate, Admit, Refuse, RateTypeOK, TypeOK
      <3>2. checked' \in [Buckets -> Checked]
        BY <1>2, <2>1, <2>2, CheckedType DEF CheckRate, RateTypeOK, TypeOK
      <3> QED BY <3>1, <3>2 DEF RateTypeOK
    <2> QED BY <1>2, <2>5 DEF CheckRate, TypeOK, Arrived, approvalVars, ApprovalStoreTypeOK,
                              idemVars, IdemTypeOK, Locations
  <1>3. ASSUME NEW c \in Calls, ReserveKey(c)
        PROVE  TypeOK' /\ Arrived'
    <2>1. req[c] \in Requests /\ at[c] \in Nat
      BY <1>3 DEF ReserveKey, Arrived, TypeOK
    <2>2. IdemTypeOK'
      BY <1>3, <2>1, RequestParts, IdemOperationsType DEF ReserveKey, TypeOK
    <2> QED BY <1>3, <2>2 DEF ReserveKey, TypeOK, Arrived, approvalVars, ApprovalStoreTypeOK,
                              RateTypeOK, rateVars, Locations
  <1>4. ASSUME NEW c \in Calls, Replay(c)
        PROVE  TypeOK' /\ Arrived'
    <2>1. req[c] \in Requests /\ at[c] \in Nat
      BY <1>4 DEF Replay, Arrived, TypeOK
    <2>2. IdemTypeOK'
      BY <1>4, <2>1, RequestParts, IdemOperationsType DEF Replay, TypeOK
    <2>3. keys[IdemKey(c)].response \in Responses \cup {NoResponse}
      BY <2>1, RequestParts DEF TypeOK, IdemTypeOK, IdemRecord
    <2> QED BY <1>4, <2>2, <2>3 DEF Replay, TypeOK, Arrived, approvalVars,
                                    ApprovalStoreTypeOK, RateTypeOK, rateVars, Locations
  <1>5. ASSUME NEW c \in Calls, RefuseDuplicate(c)
        PROVE  TypeOK' /\ Arrived'
    <2>1. req[c] \in Requests /\ at[c] \in Nat
      BY <1>5 DEF RefuseDuplicate, Arrived, TypeOK
    <2>2. IdemTypeOK'
      BY <1>5, <2>1, RequestParts, IdemOperationsType DEF RefuseDuplicate, TypeOK
    <2> QED BY <1>5, <2>2 DEF RefuseDuplicate, TypeOK, Arrived, approvalVars,
                              ApprovalStoreTypeOK, RateTypeOK, rateVars, Locations
  <1>6. ASSUME NEW c \in Calls, NeedNoApproval(c)
        PROVE  TypeOK' /\ Arrived'
    BY <1>6 DEF NeedNoApproval, TypeOK, Arrived, approvalVars, ApprovalStoreTypeOK, idemVars,
                IdemTypeOK, RateTypeOK, rateVars, Locations
  <1>7. ASSUME NEW c \in Calls, AskApproval(c)
        PROVE  TypeOK' /\ Arrived'
    <2>1. req[c] \in Requests /\ at[c] \in Nat /\ c \in ApprovalIds
      BY <1>7, GatewayAssumption DEF AskApproval, Arrived, TypeOK
    <2>2. ApprovalStoreTypeOK'
      BY <1>7, <2>1, RequestParts, ApprovalOperationsType DEF AskApproval, TypeOK, FreshApproval
    <2>3. [outcome |-> "PENDING", by |-> c] \in Responses
      BY GatewayAssumption
    <2> QED BY <1>7, <2>2, <2>3 DEF AskApproval, TypeOK, Arrived, idemVars, IdemTypeOK,
                                    RateTypeOK, rateVars, Locations
  <1>8. ASSUME NEW c \in Calls, UseApproval(c)
        PROVE  TypeOK' /\ Arrived'
    <2>1. req[c] \in Requests
      BY <1>8 DEF UseApproval, Arrived
    <2>2. req[c].approval \in Calls \cup {NoApproval}
      BY <2>1, RequestParts
    <2> QED BY <1>8, <2>2 DEF UseApproval, TypeOK, Arrived, approvalVars, ApprovalStoreTypeOK,
                              idemVars, IdemTypeOK, RateTypeOK, rateVars, Locations
  <1>9. ASSUME NEW c \in Calls, RefuseApproval(c)
        PROVE  TypeOK' /\ Arrived'
    <2>1. req[c] \in Requests /\ at[c] \in Nat
      BY <1>9 DEF RefuseApproval, Arrived, TypeOK
    <2>2. req[c].approval \in ApprovalIds
      BY <1>9, <2>1, RequestParts, GatewayAssumption DEF RefuseApproval
    <2>3. ApprovalStoreTypeOK'
      <3>1. CASE Overdue(req[c].approval, at[c])
        BY <1>9, <2>1, <2>2, <3>1, ApprovalOperationsType DEF RefuseApproval, TypeOK
      <3>2. CASE ~Overdue(req[c].approval, at[c])
        BY <1>9, <3>2 DEF RefuseApproval, TypeOK, approvalVars, ApprovalStoreTypeOK
      <3> QED BY <3>1, <3>2
    <2> QED BY <1>9, <2>3 DEF RefuseApproval, TypeOK, Arrived, idemVars, IdemTypeOK,
                              RateTypeOK, rateVars, Locations
  <1>10. ASSUME NEW c \in Calls, StartTool(c)
         PROVE  TypeOK' /\ Arrived'
    <2>1. req[c] \in Requests /\ at[c] \in Nat
      BY <1>10 DEF StartTool, Arrived, TypeOK
    <2>2. IdemTypeOK'
      BY <1>10, <2>1, RequestParts, IdemOperationsType DEF StartTool, TypeOK
    <2> QED BY <1>10, <2>2 DEF StartTool, TypeOK, Arrived, approvalVars, ApprovalStoreTypeOK,
                               RateTypeOK, rateVars, Locations
  <1>11. ASSUME NEW c \in Calls, NEW end \in {"done", "error"}, ToolEnds(c, end)
         PROVE  TypeOK' /\ Arrived'
    BY <1>11 DEF ToolEnds, TypeOK, Arrived, approvalVars, ApprovalStoreTypeOK, idemVars,
                 IdemTypeOK, RateTypeOK, rateVars
  <1>12. ASSUME NEW c \in Calls, ToolReturns(c) \/ ToolLost(c) \/ ToolRaises(c)
         PROVE  TypeOK' /\ Arrived'
    BY <1>12 DEF ToolReturns, ToolLost, ToolRaises, TypeOK, Arrived, approvalVars,
                 ApprovalStoreTypeOK, idemVars, IdemTypeOK, RateTypeOK, rateVars, Locations
  <1>13. ASSUME NEW c \in Calls, RecordFailure(c) \/ RecordExecution(c)
         PROVE  TypeOK' /\ Arrived'
    <2>1. grant[c] # NoApproval => grant[c] \in ApprovalIds
      BY GatewayAssumption DEF TypeOK
    <2>2. ApprovalStoreTypeOK'
      <3>1. CASE grant[c] # NoApproval /\ (MarkFailed(grant[c]) \/ MarkExecuted(grant[c]))
        <4>1. PICK a \in ApprovalIds : a = grant[c]
          BY <2>1, <3>1
        <4>2. MarkFailed(a) \/ MarkExecuted(a)
          BY <3>1, <4>1
        <4> QED BY <4>2, ApprovalOperationsType DEF TypeOK
      <3>2. CASE UNCHANGED approvalVars
        BY <3>2 DEF TypeOK, approvalVars, ApprovalStoreTypeOK
      <3> QED BY <1>13, <3>1, <3>2 DEF RecordFailure, RecordExecution
    <2> QED BY <1>13, <2>2 DEF RecordFailure, RecordExecution, TypeOK, Arrived, idemVars,
                               IdemTypeOK, RateTypeOK, rateVars, Locations
  <1>14. ASSUME NEW c \in Calls, Succeed(c) \/ Deny(c)
         PROVE  TypeOK' /\ Arrived'
    <2>1. req[c] \in Requests /\ clock \in Nat
      BY <1>14 DEF Succeed, Deny, Arrived, TypeOK
    <2>2. /\ [outcome |-> "SUCCEEDED", by |-> c] \in Responses
          /\ [outcome |-> "DENIED", by |-> c] \in Responses
      BY GatewayAssumption
    <2>3. IdemTypeOK'
      <3>1. CASE UNCHANGED idemVars
        BY <3>1 DEF TypeOK, idemVars, IdemTypeOK
      <3>2. CASE ~UNCHANGED idemVars
        BY <1>14, <2>1, <2>2, <3>2, RequestParts, IdemOperationsType
           DEF Succeed, Deny, TypeOK, TerminalStates
      <3> QED BY <3>1, <3>2
    <2> QED BY <1>14, <2>2, <2>3 DEF Succeed, Deny, TypeOK, Arrived, approvalVars,
                                     ApprovalStoreTypeOK, RateTypeOK, rateVars, Locations
  <1>15. ASSUME NEW p \in Principals, NEW a \in ApprovalIds,
                ApproveOperation(p, a) \/ RejectOperation(p, a)
         PROVE  TypeOK' /\ Arrived'
    <2>1. Stamps(a) \subseteq Nat
      BY DEF Stamps, TypeOK, ApprovalStoreTypeOK, ApprovalRecord
    <2>2. ApprovalStoreTypeOK'
      BY <1>15, <2>1, ApprovalOperationsType
         DEF ApproveOperation, RejectOperation, TypeOK
    <2> QED BY <1>15, <2>2 DEF ApproveOperation, RejectOperation, Others, TypeOK, Arrived,
                               idemVars, IdemTypeOK, RateTypeOK, rateVars, callVars
  <1>16. ASSUME ListApprovals
         PROVE  TypeOK' /\ Arrived'
    <2>1. ApprovalStoreTypeOK'
      BY <1>16, ExpirePendingType DEF ListApprovals, TypeOK
    <2> QED BY <1>16, <2>1 DEF ListApprovals, Others, TypeOK, Arrived, idemVars, IdemTypeOK,
                               RateTypeOK, rateVars, callVars
  <1>17. ASSUME Tick
         PROVE  TypeOK' /\ Arrived'
    BY <1>17 DEF Tick, TypeOK, Arrived, approvalVars, ApprovalStoreTypeOK, idemVars,
                 IdemTypeOK, RateTypeOK, rateVars, callVars
  <1>18. ASSUME UNCHANGED vars
         PROVE  TypeOK' /\ Arrived'
    BY <1>18 DEF vars, TypeOK, Arrived, approvalVars, ApprovalStoreTypeOK, idemVars,
                 IdemTypeOK, RateTypeOK, rateVars, callVars
  <1>19. ASSUME NEW a \in ApprovalIds, ReadApproval(a)
         PROVE  TypeOK' /\ Arrived'
    <2>1. Stamps(a) \subseteq Nat
      BY DEF Stamps, TypeOK, ApprovalStoreTypeOK, ApprovalRecord
    <2>2. ApprovalStoreTypeOK'
      BY <1>19, <2>1, ApprovalOperationsType DEF ReadApproval, TypeOK
    <2> QED BY <1>19, <2>2 DEF ReadApproval, Others, TypeOK, Arrived, idemVars, IdemTypeOK,
                               RateTypeOK, rateVars, callVars
  <1> QED
    BY <1>1, <1>2, <1>3, <1>4, <1>5, <1>6, <1>7, <1>8, <1>9, <1>10, <1>11, <1>12, <1>13,
       <1>14, <1>15, <1>16, <1>17, <1>18, <1>19 DEF Next, CallStep, Finished

\* The gateway and its stores always have their type: no interleaving of calls,
\* decisions and expiries brings a record, a key or a call into an unknown state.
THEOREM TypeCorrect == Spec => [](TypeOK /\ Arrived)
  BY TypeInit, TypeStep, PTL DEF Spec

----------------------------------------------------------------------------
(* how an approval record may change *)

\* What never changes once a record exists, and the fields of a decision.
SameBinding(r, s) == s.requester = r.requester /\ s.op = r.op
SameDecision(r, s) == s.approvedBy = r.approvedBy /\ s.rejectedBy = r.rejectedBy

\* The changes of one record that a step of the gateway can make.
Evolves(r, s) ==
    \/ s = r
    \/ /\ r.status = "NONE" /\ s.status = "PENDING"
       /\ s.requester \in Principals /\ SameDecision(NoRecord, s)
    \/ /\ r.status = "PENDING" /\ s.status = "APPROVED" /\ SameBinding(r, s)
       /\ s.approvedBy \in Approvers \ {r.requester} /\ s.rejectedBy = r.rejectedBy
    \/ /\ r.status = "PENDING" /\ s.status = "REJECTED" /\ SameBinding(r, s)
       /\ s.rejectedBy \in Approvers \ {r.requester} /\ s.approvedBy = r.approvedBy
    \/ /\ r.status = "PENDING" /\ s.status = "EXPIRED" /\ SameBinding(r, s) /\ SameDecision(r, s)
    \/ /\ r.status = "APPROVED" /\ s.status \in {"EXECUTED", "FAILED"}
       /\ SameBinding(r, s) /\ SameDecision(r, s)

\* An operation on one record changes only that record.
LEMMA StoreEvolves ==
    ASSUME TypeOK, NEW a \in ApprovalIds, NEW STATE r, Store(a, r), Evolves(approvals[a], r)
    PROVE  \A b \in ApprovalIds : Evolves(approvals[b], approvals'[b])
  BY DEF Store, Evolves, TypeOK, ApprovalStoreTypeOK

\* One record is replaced and the others stay: it moves along Evolves, its version
\* counts the transitions, and only a call whose tool is done executes it.
OneEvolves ==
    \E a \in ApprovalIds : \E r :
        /\ Store(a, r)
        /\ Evolves(approvals[a], r)
        /\ r.version = IF approvals[a].status = "NONE" THEN 1 ELSE approvals[a].version + 1
        /\ r.status = "EXECUTED" => \E c \in Calls : grant[c] = a /\ pc[c] = "executed"

\* Every step of the gateway other than a listing changes at most one record, and
\* that one along Evolves: a call that marks an approval failed never finds it
\* PENDING, because it holds it.
LEMMA ApprovalSteps ==
    ASSUME TypeOK, Arrived, GrantHeld, [Next]_vars
    PROVE  UNCHANGED approvalVars \/ OneEvolves \/ ListApprovals
  <1> DEFINE Good == UNCHANGED approvalVars \/ OneEvolves \/ ListApprovals
  <1>0. \A b \in ApprovalIds : approvals[b] \in ApprovalRecord
    BY DEF TypeOK, ApprovalStoreTypeOK
  <1>1. ASSUME UNCHANGED approvalVars PROVE Good
    BY <1>1
  <1>2. ASSUME NEW a \in ApprovalIds, approvals[a].status = "PENDING",
               Store(a, Moved(approvals[a], "EXPIRED"))
        PROVE  Good
    <2>1. /\ Evolves(approvals[a], Moved(approvals[a], "EXPIRED"))
          /\ Moved(approvals[a], "EXPIRED").version = approvals[a].version + 1
          /\ Moved(approvals[a], "EXPIRED").status = "EXPIRED"
      BY <1>0, <1>2, MovedRecord DEF Evolves, SameBinding, SameDecision, ApprovalStatus
    <2> QED BY <1>2, <2>1 DEF OneEvolves
  <1>3. ASSUME NEW c \in Calls, AskApproval(c) PROVE Good
    <2> DEFINE r == [NoRecord EXCEPT !.status = "PENDING", !.requester = req[c].principal,
                                     !.op = req[c].op, !.createdAt = at[c],
                                     !.expiresAt = at[c] + ApprovalTtl, !.version = 1]
    <2>1. c \in ApprovalIds /\ approvals[c].status = "NONE" /\ Store(c, r)
      BY <1>3, GatewayAssumption DEF AskApproval, CreateApproval, FreshApproval
    <2>2. req[c].principal \in Principals
      BY <1>3, RequestParts DEF AskApproval, Goto, Arrived
    <2>3. /\ r.status = "PENDING" /\ r.requester = req[c].principal /\ r.version = 1
          /\ SameDecision(NoRecord, r)
      BY DEF NoRecord, SameDecision
    <2> HIDE DEF r
    <2>4. Evolves(approvals[c], r)
      BY <2>1, <2>2, <2>3 DEF Evolves
    <2> QED BY <2>1, <2>3, <2>4 DEF OneEvolves
  <1>4. ASSUME NEW p \in Principals, NEW a \in ApprovalIds, ApproveOperation(p, a) PROVE Good
    <2>1. PICK t \in Stamps(a) : Approve(a, p, t)
      BY <1>4 DEF ApproveOperation
    <2> DEFINE m == Moved(approvals[a], "APPROVED")
               r == [m EXCEPT !.approvedBy = p, !.approvedAt = t]
    <2>2. /\ m \in ApprovalRecord /\ m.status = "APPROVED"
          /\ m.version = approvals[a].version + 1
          /\ SameBinding(approvals[a], m) /\ SameDecision(approvals[a], m)
      BY <1>0, MovedRecord DEF ApprovalStatus, SameBinding, SameDecision
    <2>3. Store(a, r) /\ approvals[a].status = "PENDING"
      BY <2>1 DEF Approve
    <2> HIDE DEF m
    <2>4. /\ r.status = "APPROVED" /\ SameBinding(approvals[a], r)
          /\ r.version = approvals[a].version + 1
          /\ r.approvedBy = p /\ r.rejectedBy = approvals[a].rejectedBy
      BY <2>2 DEF ApprovalRecord, SameBinding, SameDecision
    <2> HIDE DEF r
    <2>5. Evolves(approvals[a], r)
      BY <1>4, <2>3, <2>4 DEF Evolves, ApproveOperation, AuthorizedApproval
    <2> QED BY <2>3, <2>4, <2>5 DEF OneEvolves
  <1>5. ASSUME NEW p \in Principals, NEW a \in ApprovalIds, RejectOperation(p, a) PROVE Good
    <2>1. PICK t \in Stamps(a) : Reject(a, p, t)
      BY <1>5 DEF RejectOperation
    <2> DEFINE m == Moved(approvals[a], "REJECTED")
               r == [m EXCEPT !.rejectedBy = p]
    <2>2. /\ m \in ApprovalRecord /\ m.status = "REJECTED"
          /\ m.version = approvals[a].version + 1
          /\ SameBinding(approvals[a], m) /\ SameDecision(approvals[a], m)
      BY <1>0, MovedRecord DEF ApprovalStatus, SameBinding, SameDecision
    <2>3. Store(a, r) /\ approvals[a].status = "PENDING"
      BY <2>1 DEF Reject
    <2> HIDE DEF m
    <2>4. /\ r.status = "REJECTED" /\ SameBinding(approvals[a], r)
          /\ r.version = approvals[a].version + 1
          /\ r.rejectedBy = p /\ r.approvedBy = approvals[a].approvedBy
      BY <2>2 DEF ApprovalRecord, SameBinding, SameDecision
    <2> HIDE DEF r
    <2>5. Evolves(approvals[a], r)
      BY <1>5, <2>3, <2>4 DEF Evolves, RejectOperation, AuthorizedApproval
    <2> QED BY <2>3, <2>4, <2>5 DEF OneEvolves
  <1>6. ASSUME NEW a \in ApprovalIds, ReadApproval(a) PROVE Good
    BY <1>2, <1>6 DEF ReadApproval, ExpireOnRead, Overdue
  <1>7. ASSUME NEW c \in Calls, RefuseApproval(c) PROVE Good
    <2>1. req[c].approval \in ApprovalIds
      BY <1>7, RequestParts, GatewayAssumption DEF RefuseApproval, Goto, Arrived
    <2>2. PICK a \in ApprovalIds : a = req[c].approval
      BY <2>1
    <2>3. CASE Overdue(a, at[c])
      BY <1>2, <1>7, <2>2, <2>3 DEF RefuseApproval, ExpireOnRead, Overdue
    <2>4. CASE ~Overdue(a, at[c])
      BY <1>1, <1>7, <2>2, <2>4 DEF RefuseApproval, approvalVars
    <2> QED BY <2>3, <2>4
  <1>8. ASSUME ListApprovals PROVE Good
    BY <1>8
  <1>9. ASSUME NEW c \in Calls, RecordFailure(c) \/ RecordExecution(c) PROVE Good
    <2>1. CASE UNCHANGED approvalVars
      BY <1>1, <2>1 DEF approvalVars
    <2>2. CASE /\ grant[c] # NoApproval
               /\ MarkFailed(grant[c]) \/ (pc[c] = "executed" /\ MarkExecuted(grant[c]))
      <3>1. PICK a \in ApprovalIds : a = grant[c]
        BY <2>2, GatewayAssumption DEF TypeOK
      <3>2. approvals[a].status \in {"APPROVED", "EXECUTED", "FAILED"}
        BY <2>2, <3>1 DEF GrantHeld
      <3>3. /\ approvals[a].status = "APPROVED"
            /\ \E s \in {"EXECUTED", "FAILED"} :
                  Store(a, Moved(approvals[a], s)) /\ (s = "EXECUTED" => pc[c] = "executed")
        BY <2>2, <3>1, <3>2 DEF MarkFailed, MarkExecuted, CanMarkFailed, CanMarkExecuted
      <3>4. PICK s \in {"EXECUTED", "FAILED"} :
               Store(a, Moved(approvals[a], s)) /\ (s = "EXECUTED" => pc[c] = "executed")
        BY <3>3
      <3>5. /\ Evolves(approvals[a], Moved(approvals[a], s))
            /\ Moved(approvals[a], s).version = approvals[a].version + 1
            /\ Moved(approvals[a], s).status = s
        BY <1>0, <3>3, MovedRecord DEF Evolves, SameBinding, SameDecision, ApprovalStatus
      <3> QED BY <3>1, <3>3, <3>4, <3>5 DEF OneEvolves
    <2> QED BY <1>9, <2>1, <2>2 DEF RecordFailure, RecordExecution, Goto
  <1>10. ASSUME NEW c \in Calls,
                CallStep(c) /\ ~AskApproval(c) /\ ~RefuseApproval(c) /\ ~RecordFailure(c)
                            /\ ~RecordExecution(c)
         PROVE  Good
    BY <1>1, <1>10 DEF CallStep, CheckRate, ReserveKey, Replay, RefuseDuplicate, NeedNoApproval,
                       UseApproval, StartTool, ToolReturns, ToolLost, ToolRaises, Succeed, Deny,
                       approvalVars
  <1>11. ASSUME \/ \E c \in Calls, r \in Requests : Arrive(c, r)
                \/ \E c \in Calls, end \in {"done", "error"} : ToolEnds(c, end)
                \/ Tick \/ Finished \/ UNCHANGED vars
         PROVE  Good
    BY <1>1, <1>11 DEF Arrive, ToolEnds, Tick, Finished, vars, rateVars, approvalVars
  <1> QED BY <1>3, <1>4, <1>5, <1>6, <1>7, <1>8, <1>9, <1>10, <1>11 DEF Next, CallStep

\* Every step takes every record along Evolves.
LEMMA ApprovalsEvolve ==
    ASSUME TypeOK, Arrived, GrantHeld, [Next]_vars
    PROVE  \A b \in ApprovalIds : Evolves(approvals[b], approvals'[b])
  <1>1. CASE UNCHANGED approvalVars
    BY <1>1 DEF Evolves, approvalVars
  <1>2. CASE OneEvolves
    BY <1>2, StoreEvolves DEF OneEvolves
  <1>3. CASE ListApprovals
    <2>0. \A b \in ApprovalIds : approvals[b] \in ApprovalRecord
      BY DEF TypeOK, ApprovalStoreTypeOK
    <2>3. PICK t \in 0 .. clock : ExpirePending(t)
      BY <1>3 DEF ListApprovals
    <2>1. \A b \in ApprovalIds :
             /\ approvals'[b] # approvals[b] => Overdue(b, t)
             /\ approvals'[b] # approvals[b] => approvals'[b] = Moved(approvals[b], "EXPIRED")
      BY <2>3 DEF ExpirePending
    <2>2. ASSUME NEW b \in ApprovalIds, approvals'[b] # approvals[b]
          PROVE  Evolves(approvals[b], approvals'[b])
      BY <2>0, <2>1, <2>2, MovedRecord
         DEF Overdue, Evolves, SameBinding, SameDecision, ApprovalStatus
    <2> QED BY <2>2 DEF Evolves
  <1> QED BY <1>1, <1>2, <1>3, ApprovalSteps

----------------------------------------------------------------------------
(* a governed tool runs under a grant *)

\* No step makes an undecided approval look decided, or the other way round.
LEMMA DecidedStep ==
    ASSUME TypeOK, Arrived, GrantInv, [Next]_vars
    PROVE  DecidedByAnother'
  <1>1. \A b \in ApprovalIds : Evolves(approvals[b], approvals'[b])
    BY ApprovalsEvolve DEF GrantInv
  <1> QED BY <1>1 DEF GrantInv, DecidedByAnother, Evolves, SameBinding, SameDecision, NoRecord

\* No step takes back what a call knows of the approval it holds.
LEMMA GrantHeldStep ==
    ASSUME TypeOK, Arrived, GrantInv, [Next]_vars
    PROVE  GrantHeld'
  <1> DEFINE Granted == {"APPROVED", "EXECUTED", "FAILED"}
  <1>1. \A b \in ApprovalIds : Evolves(approvals[b], approvals'[b])
    BY ApprovalsEvolve DEF GrantInv
  <1>2. \A b \in ApprovalIds : approvals[b].status \in Granted =>
            approvals'[b].status \in Granted /\ approvals'[b].op = approvals[b].op
    BY <1>1 DEF Evolves, SameBinding
  <1>3. \A c \in Calls : grant[c] # NoApproval => grant[c] \in ApprovalIds
    BY GatewayAssumption DEF TypeOK
  <1> HIDE DEF Granted
  \* the part of GrantHeld that speaks of call c
  <1> DEFINE Held(c) ==
        /\ grant[c] # NoApproval =>
              /\ RequiresApproval(c)
              /\ approvals[grant[c]].op = req[c].op
              /\ approvals[grant[c]].status \in Granted
        /\ pc[c] \in {"idle", "rate", "reserve", "approval", "deny"} =>
              grant[c] = NoApproval /\ tool[c] = "none"
        /\ pc[c] \in {"start", "running", "executed", "failed", "succeed"} \/ tool[c] # "none" =>
              (RequiresApproval(c) => grant[c] # NoApproval)
  <1>4. \A c \in Calls : Held(c)
    BY DEF GrantInv, GrantHeld, Granted
  <1>5. ASSUME NEW d \in Calls, UNCHANGED <<pc[d], req[d], grant[d], tool[d]>>
        PROVE  Held(d)'
    BY <1>2, <1>3, <1>4, <1>5 DEF RequiresApproval
  <1>6. ASSUME NEW c \in Calls, NEW r \in Requests, Arrive(c, r), NEW d \in Calls
        PROVE  Held(d)'
    <2>1. CASE d # c
      BY <1>5, <1>6, <2>1 DEF Arrive, Goto, TypeOK
    <2>2. CASE d = c
      BY <1>4, <1>6, <2>2 DEF Arrive, Goto, TypeOK
    <2> QED BY <2>1, <2>2
  <1>7. ASSUME NEW c \in Calls, CallStep(c), NEW d \in Calls, d # c
        PROVE  Held(d)'
    <2>1. UNCHANGED <<pc[d], req[d], grant[d], tool[d]>>
      BY <1>7 DEF CallStep, CheckRate, ReserveKey, Replay, RefuseDuplicate, NeedNoApproval,
                  AskApproval, UseApproval, RefuseApproval, StartTool, ToolReturns, ToolLost,
                  ToolRaises, RecordFailure, RecordExecution, Succeed, Deny, Goto, Return,
                  StayInCall, TypeOK
    <2> QED BY <1>5, <2>1
  <1>8. ASSUME NEW c \in Calls, CheckRate(c) \/ ReserveKey(c) \/ RefuseDuplicate(c)
        PROVE  Held(c)'
    BY <1>4, <1>8 DEF CheckRate, ReserveKey, RefuseDuplicate, Goto, StayInCall, TypeOK
  <1>9. ASSUME NEW c \in Calls, Replay(c) \/ AskApproval(c) \/ NeedNoApproval(c)
        PROVE  Held(c)'
    BY <1>4, <1>9 DEF Replay, AskApproval, NeedNoApproval, Goto, StayInCall, Return, TypeOK,
                      RequiresApproval
  <1>10. ASSUME NEW c \in Calls, UseApproval(c)
         PROVE  Held(c)'
    <2>1. PICK a \in ApprovalIds : a = req[c].approval
      BY <1>10, RequestParts, GatewayAssumption DEF UseApproval, Goto, Arrived
    <2>2. approvals[a].status \in Granted /\ approvals[a].op = req[c].op
      BY <1>10, <2>1 DEF UseApproval, Usable, Granted
    <2>3. approvals'[a].status \in Granted /\ approvals'[a].op = req[c].op
      BY <1>2, <2>2
    <2>4. /\ grant'[c] = a /\ req'[c] = req[c] /\ pc'[c] = "start"
          /\ RequiresApproval(c) /\ a # NoApproval
      BY <1>10, <2>1 DEF UseApproval, Goto, TypeOK
    <2> QED BY <2>3, <2>4 DEF RequiresApproval
  <1>11. ASSUME NEW c \in Calls, RefuseApproval(c)
         PROVE  Held(c)'
    BY <1>4, <1>11 DEF RefuseApproval, Goto, StayInCall, TypeOK
  <1>12. ASSUME NEW c \in Calls,
                \/ StartTool(c) \/ ToolReturns(c) \/ ToolLost(c) \/ ToolRaises(c)
                \/ RecordFailure(c) \/ RecordExecution(c) \/ Succeed(c) \/ Deny(c)
         PROVE  Held(c)'
    <2>1. /\ UNCHANGED <<req[c], grant[c]>>
          /\ pc'[c] \notin {"idle", "rate", "reserve", "approval", "deny"}
          /\ \/ pc[c] \in {"start", "running", "executed", "failed", "succeed"}
             \/ pc'[c] = "done" /\ UNCHANGED tool[c]
      BY <1>12 DEF StartTool, ToolReturns, ToolLost, ToolRaises, RecordFailure, RecordExecution,
                   Succeed, Deny, Goto, Return, StayInCall, TypeOK
    <2> QED BY <1>2, <1>3, <1>4, <2>1 DEF RequiresApproval
  <1>13. ASSUME NEW c \in Calls, NEW end \in {"done", "error"}, ToolEnds(c, end), NEW d \in Calls
         PROVE  Held(d)'
    <2>1. CASE d # c
      BY <1>5, <1>13, <2>1 DEF ToolEnds, TypeOK
    <2>2. CASE d = c
      <3>1. UNCHANGED <<pc[d], req[d], grant[d]>> /\ tool[d] = "running"
        BY <1>13, <2>2 DEF ToolEnds
      <3> QED BY <1>2, <1>3, <1>4, <3>1 DEF RequiresApproval
    <2> QED BY <2>1, <2>2
  <1>14. ASSUME UNCHANGED callVars, NEW d \in Calls
         PROVE  Held(d)'
    BY <1>5, <1>14 DEF callVars
  <1>15. ASSUME NEW c \in Calls, CallStep(c), NEW d \in Calls
         PROVE  Held(d)'
    BY <1>7, <1>8, <1>9, <1>10, <1>11, <1>12, <1>15 DEF CallStep
  <1>16. UNCHANGED callVars \/ (\E c \in Calls : CallStep(c))
            \/ (\E c \in Calls, r \in Requests : Arrive(c, r))
            \/ (\E c \in Calls, end \in {"done", "error"} : ToolEnds(c, end))
    BY DEF Next, ApproveOperation, RejectOperation, ReadApproval, ListApprovals, Others, Tick,
           Finished, vars, rateVars, callVars
  <1>17. ASSUME NEW d \in Calls PROVE Held(d)'
    BY <1>6, <1>13, <1>14, <1>15, <1>16
  <1> QED BY <1>17 DEF GrantHeld, Granted

\* Nothing is requested or held initially.
LEMMA GrantInit == Init => GrantInv
  BY GatewayAssumption DEF Init, GrantInv, GrantHeld, DecidedByAnother, ApprovalStoreInit, NoRecord

\* What a call knows of the approval it holds stays true, for any number of
\* racing calls, decisions, listings and expiries.
THEOREM GrantInvariant == Spec => [](TypeOK /\ Arrived /\ GrantInv)
  <1>1. TypeOK /\ Arrived /\ GrantInv /\ [Next]_vars => (TypeOK /\ Arrived /\ GrantInv)'
    BY TypeStep, DecidedStep, GrantHeldStep DEF GrantInv
  <1> QED BY TypeInit, GrantInit, <1>1, PTL DEF Spec

\* A governed tool is started only under a grant by an authorized human other
\* than the requester, and the grant is never withdrawn afterwards.
THEOREM GovernedRunsAreGranted == Spec => []GovernedRunsGranted
  <1>1. GrantInv /\ TypeOK => GovernedRunsGranted
    <2> SUFFICES ASSUME GrantInv, TypeOK, NEW c \in Calls, tool[c] # "none", RequiresApproval(c)
                 PROVE  /\ grant[c] # NoApproval
                        /\ approvals[grant[c]].approvedBy
                              \in Approvers \ {approvals[grant[c]].requester}
                        /\ approvals[grant[c]].op = req[c].op
                        /\ approvals[grant[c]].status \in {"APPROVED", "EXECUTED", "FAILED"}
      BY DEF GovernedRunsGranted
    <2>1. grant[c] # NoApproval
      BY DEF GrantInv, GrantHeld
    <2>2. grant[c] \in ApprovalIds
      BY <2>1, GatewayAssumption DEF TypeOK
    <2> QED BY <2>1, <2>2 DEF GrantInv, GrantHeld, DecidedByAnother
  <1> QED BY GrantInvariant, <1>1, PTL

----------------------------------------------------------------------------
(* the gateway implements the approval lifecycle *)

\* A change of one record along Evolves is a step of the lifecycle.
LEMMA OneEvolvesRefines ==
    ASSUME TypeOK, DecidedByAnother, OneEvolves
    PROVE  [Lifecycle!LifecycleNext]_(Lifecycle!lifecycleVars)
  <1>0. PICK a \in ApprovalIds : \E r : Store(a, r) /\ Evolves(approvals[a], r)
    BY DEF OneEvolves
  <1>1. PICK r : Store(a, r) /\ Evolves(approvals[a], r)
    BY <1>0
  <1>2. approvals' = [approvals EXCEPT ![a] = r] /\ approvals \in [ApprovalIds -> ApprovalRecord]
    BY <1>1 DEF Store, TypeOK, ApprovalStoreTypeOK
  <1> DEFINE phase == [b \in ApprovalIds |-> approvals[b].status]
             asker == [b \in ApprovalIds |-> approvals[b].requester]
             decided(x) == IF x.approvedBy # Nobody THEN x.approvedBy ELSE x.rejectedBy
             decider == [b \in ApprovalIds |-> decided(approvals[b])]
  <1>3. /\ phase' = [phase EXCEPT ![a] = r.status]
        /\ asker' = [asker EXCEPT ![a] = r.requester]
        /\ decider' = [decider EXCEPT ![a] = decided(r)]
    BY <1>2
  <1>4. phase[a] = approvals[a].status /\ asker[a] = approvals[a].requester
           /\ decider[a] = decided(approvals[a])
    OBVIOUS
  <1>5. Nobody \notin Approvers /\ Approvers \subseteq Principals
    BY ApprovalStoreAssumption, GatewayAssumption
  <1>6. CASE r = approvals[a]
    BY <1>2, <1>6 DEF Lifecycle!lifecycleVars
  <1>7. CASE /\ approvals[a].status = "NONE" /\ r.status = "PENDING"
             /\ r.requester \in Principals /\ SameDecision(NoRecord, r)
    <2>1. decided(r) = Nobody /\ decided(approvals[a]) = Nobody
      BY <1>7 DEF SameDecision, NoRecord, DecidedByAnother
    <2>2. decider' = decider
      BY <1>3, <1>4, <2>1
    <2>3. Lifecycle!Request(a, r.requester)
      BY <1>3, <1>4, <1>7, <2>2 DEF Lifecycle!Request
    <2> QED BY <1>7, <2>3 DEF Lifecycle!LifecycleNext
  <1>8. CASE /\ approvals[a].status = "PENDING" /\ r.status = "APPROVED"
             /\ SameBinding(approvals[a], r)
             /\ r.approvedBy \in Approvers \ {approvals[a].requester}
             /\ r.rejectedBy = approvals[a].rejectedBy
    <2>1. decided(r) = r.approvedBy
      BY <1>5, <1>8
    <2>2. asker' = asker
      BY <1>3, <1>4, <1>8 DEF SameBinding
    <2>3. Lifecycle!Decide(a, r.approvedBy, "APPROVED")
      BY <1>3, <1>4, <1>8, <2>1, <2>2 DEF Lifecycle!Decide
    <2> QED BY <1>8, <2>3 DEF Lifecycle!LifecycleNext
  <1>9. CASE /\ approvals[a].status = "PENDING" /\ r.status = "REJECTED"
             /\ SameBinding(approvals[a], r)
             /\ r.rejectedBy \in Approvers \ {approvals[a].requester}
             /\ r.approvedBy = approvals[a].approvedBy
    <2>1. decided(r) = r.rejectedBy
      BY <1>9 DEF DecidedByAnother
    <2>2. asker' = asker
      BY <1>3, <1>4, <1>9 DEF SameBinding
    <2>3. Lifecycle!Decide(a, r.rejectedBy, "REJECTED")
      BY <1>3, <1>4, <1>9, <2>1, <2>2 DEF Lifecycle!Decide
    <2> QED BY <1>9, <2>3 DEF Lifecycle!LifecycleNext
  <1>10. CASE /\ approvals[a].status = "PENDING" /\ r.status = "EXPIRED"
              /\ SameBinding(approvals[a], r) /\ SameDecision(approvals[a], r)
    <2>0. decided(r) = decided(approvals[a]) /\ r.requester = approvals[a].requester
      BY <1>10 DEF SameBinding, SameDecision
    <2>4. \A b \in ApprovalIds : /\ decided(approvals'[b]) = decided(approvals[b])
                                 /\ approvals'[b].requester = approvals[b].requester
      BY <1>2, <2>0
    <2>1. asker' = asker /\ decider' = decider
      BY <2>4
    <2>2. phase' = [b \in ApprovalIds |-> IF b \in {a} THEN "EXPIRED" ELSE phase[b]]
      BY <1>3, <1>10
    <2>3. {a} \in SUBSET ApprovalIds /\ \A b \in {a} : phase[b] = "PENDING"
      BY <1>4, <1>10
    <2> QED BY <2>1, <2>2, <2>3 DEF Lifecycle!LifecycleNext, Lifecycle!LapseMany
  <1>11. CASE /\ approvals[a].status = "APPROVED" /\ r.status \in {"EXECUTED", "FAILED"}
              /\ SameBinding(approvals[a], r) /\ SameDecision(approvals[a], r)
    <2>0. decided(r) = decided(approvals[a]) /\ r.requester = approvals[a].requester
      BY <1>11 DEF SameBinding, SameDecision
    <2>4. \A b \in ApprovalIds : /\ decided(approvals'[b]) = decided(approvals[b])
                                 /\ approvals'[b].requester = approvals[b].requester
      BY <1>2, <2>0
    <2>1. asker' = asker /\ decider' = decider
      BY <2>4
    <2> QED BY <1>3, <1>4, <1>11, <2>1 DEF Lifecycle!LifecycleNext, Lifecycle!Consume
  <1> QED BY <1>1, <1>6, <1>7, <1>8, <1>9, <1>10, <1>11 DEF Evolves

\* Listing is the lifecycle's step that lapses every overdue approval.
LEMMA ListingRefines ==
    ASSUME TypeOK, ListApprovals
    PROVE  Lifecycle!LifecycleNext
  <1>5. PICK t \in 0 .. clock : ExpirePending(t)
    BY DEF ListApprovals
  <1> DEFINE overdue == {a \in ApprovalIds : Overdue(a, t)}
  <1>0. \A a \in ApprovalIds : approvals[a] \in ApprovalRecord
    BY DEF TypeOK, ApprovalStoreTypeOK
  <1>1. approvals' = [a \in ApprovalIds |->
                        IF a \in overdue THEN Moved(approvals[a], "EXPIRED") ELSE approvals[a]]
    BY <1>5 DEF ExpirePending
  <1>2. \A a \in ApprovalIds :
           LET m == Moved(approvals[a], "EXPIRED") IN
           /\ m.status = "EXPIRED" /\ m.requester = approvals[a].requester
           /\ m.approvedBy = approvals[a].approvedBy /\ m.rejectedBy = approvals[a].rejectedBy
    BY <1>0, MovedRecord DEF ApprovalStatus
  <1>3. \A a \in overdue : approvals[a].status = "PENDING"
    BY DEF Overdue
  <1> HIDE DEF overdue
  <1>4. overdue \in SUBSET ApprovalIds
    BY DEF overdue
  <1> QED BY <1>1, <1>2, <1>3, <1>4 DEF Lifecycle!LifecycleNext, Lifecycle!LapseMany

\* The approval store, driven by any number of racing calls and people, refines
\* the approval lifecycle: one request, one decision by another principal, one
\* consumption, and nothing after a final status.
THEOREM GatewayImplementsLifecycle == Spec => ImplementsLifecycle
  <1>1. Init => Lifecycle!LifecycleInit
    BY DEF Init, ApprovalStoreInit, NoRecord, Lifecycle!LifecycleInit
  <1>2. TypeOK /\ Arrived /\ GrantInv /\ [Next]_vars
           => [Lifecycle!LifecycleNext]_(Lifecycle!lifecycleVars)
    <2> SUFFICES ASSUME TypeOK, Arrived, GrantInv, [Next]_vars
                 PROVE  [Lifecycle!LifecycleNext]_(Lifecycle!lifecycleVars)
      OBVIOUS
    <2>1. CASE UNCHANGED approvalVars
      BY <2>1 DEF Lifecycle!lifecycleVars, approvalVars
    <2> QED BY <2>1, ApprovalSteps, OneEvolvesRefines, ListingRefines DEF GrantInv
  <1> QED BY <1>1, <1>2, GrantInvariant, PTL DEF Spec, ImplementsLifecycle, Lifecycle!LifecycleSpec

----------------------------------------------------------------------------
(* what the calls leave behind: one success per approval, a trail that says what    *)
(* happened, one run per key, faithful replays, keys that are kept, limited windows *)

\* Where a call stands, and what it has by then: only a finished call has an answer, a
\* tool is started once, and nothing is recorded as executed before its tool is done.
\* The stamp of a call is never later than the clock.
CallShape ==
    \A c \in Calls :
        /\ answer[c] # NoResponse => pc[c] = "done"
        /\ pc[c] = "start" => tool[c] = "none"
        /\ pc[c] \in {"executed", "succeed"} => tool[c] = "done"
        /\ at[c] <= clock

\* A call whose approval is marked executed by itself, so that it will say that it
\* succeeded, or has said so.
OwnSuccess(c) == [outcome |-> "SUCCEEDED", by |-> c]
Wins(c) == grant[c] # NoApproval /\ (pc[c] = "succeed" \/ answer[c] = OwnSuccess(c))

\* The approval of a winner is spent, and no other call has won with it.
WinnerInv ==
    \A c \in Calls : Wins(c) =>
        /\ approvals[grant[c]].status = "EXECUTED"
        /\ \A d \in Calls : Wins(d) /\ grant[d] = grant[c] => d = c

\* The trail of an approval, by its status.
TrailFits(a) ==
    LET status == approvals[a].status
        trail == audit[a]
    IN  /\ events[a] = trail /\ approvals[a].version = Len(trail)
        /\ status = "NONE" => trail = << >>
        /\ status = "PENDING" => trail = <<"PENDING">>
        /\ status = "APPROVED" => trail = <<"PENDING", "APPROVED">>
        /\ status = "EXECUTED" => trail = <<"PENDING", "APPROVED", "EXECUTED">>
        /\ status # "EXECUTED" => \A i \in DOMAIN trail : trail[i] # "EXECUTED"

\* Every trail fits, and a tool ran under every approval that was executed.
TrailInv ==
    \A a \in ApprovalIds :
        /\ TrailFits(a)
        /\ approvals[a].status = "EXECUTED" =>
              \E c \in Calls : grant[c] = a /\ tool[c] = "done"

\* A call that reserved its key and may have started a tool.
Owns(c) ==
    \/ pc[c] \in {"approval", "start", "running", "executed", "failed", "succeed",
                  "denyReserved"}
    \/ tool[c] # "none"

\* As long as a key was not forgotten, it is stored if a call owns it, and one call at
\* most does.
OwnerInv ==
    \A c \in Calls : Owns(c) /\ IdemKey(c) \notin forgotten =>
        /\ keys[IdemKey(c)].status # "ABSENT"
        /\ \A d \in Calls : Owns(d) /\ IdemKey(d) = IdemKey(c) => d = c

\* Call d ended with response r under key k, and did what r says.
Backs(d, k, r) ==
    /\ pc[d] = "done" /\ answer[d] = r /\ IdemKey(d) = k
    /\ r.outcome = "SUCCEEDED" => tool[d] = "done"

\* Every stored response, and every answer, is backed by the call that made it.
ReplayInv ==
    /\ \A k \in IdemKeys :
          keys[k].response # NoResponse => Backs(keys[k].response.by, k, keys[k].response)
    /\ \A c \in Calls :
          answer[c] # NoResponse =>
              /\ Backs(answer[c].by, IdemKey(c), answer[c])
              /\ answer[c].by # c => tool[c] = "none"

----------------------------------------------------------------------------
(* whose step it is *)

\* The steps of one call: its own, its arrival and those of its tool.
Moves(c) ==
    \/ CallStep(c)
    \/ \E r \in Requests : Arrive(c, r)
    \/ \E end \in {"done", "error"} : ToolEnds(c, end)

\* What the step may not touch of a call that is not moving.
SameCall(c) == UNCHANGED <<pc[c], req[c], at[c], grant[c], tool[c], answer[c]>>

\* A step moves one call and leaves the others alone, or it is not about calls.
LEMMA WhoMoves ==
    ASSUME TypeOK, [Next]_vars
    PROVE  \/ UNCHANGED callVars
           \/ \E c \in Calls : Moves(c) /\ \A d \in Calls \ {c} : SameCall(d)
  <1>1. ASSUME NEW c \in Calls, Moves(c), NEW d \in Calls \ {c}
        PROVE  SameCall(d)
    BY <1>1 DEF Moves, SameCall, CallStep, Arrive, ToolEnds, CheckRate, ReserveKey, Replay,
                RefuseDuplicate, NeedNoApproval, AskApproval, UseApproval, RefuseApproval,
                StartTool, ToolReturns, ToolLost, ToolRaises, RecordFailure, RecordExecution,
                Succeed, Deny, Goto, Return, StayInCall, TypeOK
  <1>2. UNCHANGED callVars \/ \E c \in Calls : Moves(c)
    BY DEF Moves, Next, ApproveOperation, RejectOperation, ReadApproval, ListApprovals, Others,
           Tick, Finished, vars, rateVars, callVars
  <1> QED BY <1>1, <1>2

\* A call that is done takes no step.
LEMMA DoneStays ==
    ASSUME TypeOK, [Next]_vars, NEW c \in Calls, pc[c] = "done"
    PROVE  /\ UNCHANGED <<pc[c], req[c], at[c], grant[c], answer[c]>>
           /\ tool[c] # "running" => UNCHANGED tool[c]
  <1>1. ASSUME Moves(c)
        PROVE  \E end \in {"done", "error"} : ToolEnds(c, end)
    BY <1>1 DEF Moves, CallStep, Arrive, CheckRate, ReserveKey, Replay, RefuseDuplicate,
                NeedNoApproval, AskApproval, UseApproval, RefuseApproval, StartTool, ToolReturns,
                ToolLost, ToolRaises, RecordFailure, RecordExecution, Succeed, Deny, Goto
  <1>2. CASE Moves(c)
    BY <1>1, <1>2 DEF ToolEnds
  <1>3. CASE SameCall(c) \/ UNCHANGED callVars
    BY <1>3 DEF SameCall, callVars
  <1> QED BY <1>2, <1>3, WhoMoves

\* The clock never goes back.
LEMMA ClockGrows ==
    ASSUME TypeOK, [Next]_vars
    PROVE  clock' \in Nat /\ clock <= clock'
  <1>1. UNCHANGED clock \/ Tick
    BY DEF Next, CallStep, Arrive, ToolEnds, CheckRate, ReserveKey, Replay, RefuseDuplicate,
           NeedNoApproval, AskApproval, UseApproval, RefuseApproval, StartTool, ToolReturns,
           ToolLost, ToolRaises, RecordFailure, RecordExecution, Succeed, Deny,
           ApproveOperation, RejectOperation, ReadApproval, ListApprovals, Others, Finished, vars, rateVars
  <1>2. clock' = clock \/ clock' = clock + 1
    BY <1>1 DEF Tick
  <1> QED BY <1>2 DEF TypeOK

\* No call has moved initially.
LEMMA ShapeInit == Init => CallShape
  BY DEF Init, CallShape

\* No step disturbs where calls stand.
LEMMA ShapeStep ==
    ASSUME TypeOK, Arrived, GrantHeld, CallShape, [Next]_vars
    PROVE  CallShape'
  <1> DEFINE Shaped(c) ==
        /\ answer[c] # NoResponse => pc[c] = "done"
        /\ pc[c] = "start" => tool[c] = "none"
        /\ pc[c] \in {"executed", "succeed"} => tool[c] = "done"
        /\ at[c] <= clock
  <1>1. clock \in Nat /\ clock' \in Nat /\ clock <= clock'
    BY ClockGrows DEF TypeOK
  <1>2. \A c \in Calls : Shaped(c) /\ at[c] \in Nat
    BY DEF CallShape, TypeOK
  <1>3. ASSUME NEW c \in Calls, SameCall(c) \/ UNCHANGED callVars
        PROVE  Shaped(c)'
    BY <1>1, <1>2, <1>3 DEF SameCall, callVars
  <1>4. ASSUME NEW c \in Calls, Moves(c)
        PROVE  Shaped(c)'
    <2>1. CASE \E r \in Requests : Arrive(c, r)
      BY <1>1, <1>2, <2>1 DEF Arrive, Goto, TypeOK
    <2>2. CASE \E end \in {"done", "error"} : ToolEnds(c, end)
      BY <1>1, <1>2, <2>2 DEF ToolEnds, TypeOK
    <2>3. CASE CheckRate(c) \/ ReserveKey(c) \/ RefuseDuplicate(c) \/ RefuseApproval(c)
      BY <1>1, <1>2, <2>3 DEF CheckRate, ReserveKey, RefuseDuplicate, RefuseApproval, Goto,
                              StayInCall, TypeOK
    <2>4. CASE NeedNoApproval(c) \/ UseApproval(c)
      BY <1>1, <1>2, <2>4 DEF NeedNoApproval, UseApproval, GrantHeld, Goto, StayInCall, TypeOK
    <2>5. CASE Replay(c) \/ AskApproval(c) \/ Succeed(c) \/ Deny(c)
      BY <1>1, <1>2, <2>5 DEF Replay, AskApproval, Succeed, Deny, Goto, Return, TypeOK
    <2>6. CASE StartTool(c) \/ ToolReturns(c) \/ ToolLost(c) \/ ToolRaises(c)
      BY <1>1, <1>2, <2>6 DEF StartTool, ToolReturns, ToolLost, ToolRaises, Goto, StayInCall,
                              TypeOK
    <2>7. CASE RecordFailure(c) \/ RecordExecution(c)
      BY <1>1, <1>2, <2>7 DEF RecordFailure, RecordExecution, Goto, StayInCall, TypeOK
    <2> QED BY <1>4, <2>1, <2>2, <2>3, <2>4, <2>5, <2>6, <2>7 DEF Moves, CallStep
  <1>5. \A c \in Calls : Shaped(c)'
    BY <1>3, <1>4, WhoMoves
  <1> QED BY <1>5 DEF CallShape

----------------------------------------------------------------------------
(* one success per approval *)

\* A call becomes a winner only when it spends its approval.
LEMMA WinsFrom ==
    ASSUME TypeOK, Arrived, GrantHeld, CallShape, [Next]_vars, NEW c \in Calls, Wins(c)'
    PROVE  /\ UNCHANGED grant[c]
           /\ \/ Wins(c)
              \/ /\ pc[c] = "executed" /\ pc'[c] = "succeed"
                 /\ MarkExecuted(grant[c])
  <1> DEFINE Goal == /\ UNCHANGED grant[c]
                     /\ \/ Wins(c)
                        \/ /\ pc[c] = "executed" /\ pc'[c] = "succeed"
                           /\ MarkExecuted(grant[c])
  <1>1. CASE SameCall(c) \/ UNCHANGED callVars
    BY <1>1 DEF SameCall, callVars, Wins, OwnSuccess
  <1>2. CASE Moves(c)
    <2>1. CASE (\E r \in Requests : Arrive(c, r)) \/ CheckRate(c) \/ ReserveKey(c)
                  \/ RefuseDuplicate(c) \/ RefuseApproval(c) \/ NeedNoApproval(c)
      BY <2>1 DEF Arrive, CheckRate, ReserveKey, RefuseDuplicate, RefuseApproval,
                  NeedNoApproval, Goto, StayInCall, TypeOK, GrantHeld, Wins
    <2>2. CASE \E end \in {"done", "error"} : ToolEnds(c, end)
      BY <2>2 DEF ToolEnds, Wins, OwnSuccess
    <2>3. CASE Replay(c) \/ AskApproval(c)
      BY <2>3 DEF Replay, AskApproval, Goto, Return, TypeOK, GrantHeld, Wins
    <2>4. CASE UseApproval(c) \/ StartTool(c) \/ ToolReturns(c) \/ ToolLost(c)
                  \/ ToolRaises(c) \/ RecordFailure(c)
      <3>1. pc'[c] # "succeed" /\ UNCHANGED answer[c] /\ answer[c] = NoResponse
        BY <2>4 DEF UseApproval, StartTool, ToolReturns, ToolLost, ToolRaises, RecordFailure,
                    Goto, StayInCall, TypeOK, CallShape
      <3>2. OwnSuccess(c) # NoResponse
        BY GatewayAssumption, IdempotencyStoreAssumption DEF OwnSuccess
      <3> QED BY <3>1, <3>2 DEF Wins, OwnSuccess
    <2>5. CASE RecordExecution(c)
      BY <2>5 DEF RecordExecution, Goto, StayInCall, TypeOK, Wins, OwnSuccess
    <2>6. CASE Succeed(c)
      BY <2>6 DEF Succeed, Goto, Return, Wins
    <2>7. CASE Deny(c)
      BY <2>7 DEF Deny, Goto, Return, Wins, OwnSuccess, TypeOK
    <2> QED BY <1>2, <2>1, <2>2, <2>3, <2>4, <2>5, <2>6, <2>7 DEF Moves, CallStep
  <1> QED BY <1>1, <1>2, WhoMoves

\* Nobody has won initially.
LEMMA WinnerInit == Init => WinnerInv
  BY DEF Init, WinnerInv, Wins

\* No step gives an approval a second winner.
LEMMA WinnerStep ==
    ASSUME TypeOK, Arrived, GrantInv, CallShape, WinnerInv, [Next]_vars
    PROVE  WinnerInv'
  <1>1. \A a \in ApprovalIds : Evolves(approvals[a], approvals'[a])
    BY ApprovalsEvolve DEF GrantInv
  <1>2. ASSUME NEW c \in Calls, Wins(c)'
        PROVE  grant[c] \in ApprovalIds /\ grant'[c] = grant[c]
    BY <1>2, WinsFrom, GatewayAssumption DEF GrantInv, TypeOK, Wins
  <1>3. ASSUME NEW c \in Calls, Wins(c)'
        PROVE  approvals'[grant'[c]].status = "EXECUTED"
    <2>1. CASE Wins(c)
      BY <1>1, <1>2, <1>3, <2>1 DEF WinnerInv, Evolves
    <2>2. CASE MarkExecuted(grant[c])
      <3>1. /\ approvals'[grant[c]] = Moved(approvals[grant[c]], "EXECUTED")
            /\ approvals[grant[c]] \in ApprovalRecord
        BY <1>2, <1>3, <2>2 DEF MarkExecuted, Store, TypeOK, ApprovalStoreTypeOK
      <3> QED BY <1>2, <1>3, <3>1, MovedRecord DEF ApprovalStatus
    <2> QED BY <1>3, <2>1, <2>2, WinsFrom DEF GrantInv
  <1>4. ASSUME NEW c \in Calls, NEW d \in Calls, Wins(c)', Wins(d)', ~Wins(c),
               grant[c] = grant[d]
        PROVE  c = d
    <2>1. pc[c] = "executed" /\ pc'[c] = "succeed" /\ MarkExecuted(grant[c])
      BY <1>4, WinsFrom DEF GrantInv
    <2>2. ~Wins(d)
      BY <1>4, <2>1 DEF WinnerInv, MarkExecuted, CanMarkExecuted
    <2>3. pc[d] = "executed" /\ pc'[d] = "succeed"
      BY <1>4, <2>2, WinsFrom DEF GrantInv
    <2> QED BY <2>1, <2>3, WhoMoves DEF SameCall, callVars
  <1>5. ASSUME NEW c \in Calls, NEW d \in Calls, Wins(c)', Wins(d)', grant'[c] = grant'[d]
        PROVE  c = d
    <2>1. grant[c] = grant[d]
      BY <1>2, <1>5
    <2>2. CASE ~Wins(c)
      BY <1>4, <1>5, <2>1, <2>2
    <2>3. CASE ~Wins(d)
      BY <1>4, <1>5, <2>1, <2>3
    <2>4. CASE Wins(c) /\ Wins(d)
      BY <2>1, <2>4 DEF WinnerInv
    <2> QED BY <2>2, <2>3, <2>4
  <1> QED BY <1>3, <1>5 DEF WinnerInv

\* However many calls race with one approval, at most one of them is told that it
\* succeeded: mark_executed reads the status again under the lock.
THEOREM OneCallSucceedsPerApproval == Spec => []OneSuccessPerApproval
  <1> DEFINE Inv == TypeOK /\ Arrived /\ GrantInv /\ CallShape /\ WinnerInv
  <1>1. Init => Inv
    BY TypeInit, GrantInit, ShapeInit, WinnerInit
  <1>2. Inv /\ [Next]_vars => Inv'
    BY TypeStep, DecidedStep, GrantHeldStep, ShapeStep, WinnerStep DEF GrantInv
  <1>3. Inv => OneSuccessPerApproval
    BY DEF WinnerInv, Wins, OwnSuccess, OneSuccessPerApproval
  <1> QED BY <1>1, <1>2, <1>3, PTL DEF Spec

----------------------------------------------------------------------------
(* the trail of an approval *)

\* A tool that is done stays done, and a call keeps the approval it holds.
LEMMA DoneToolStays ==
    ASSUME TypeOK, Arrived, GrantHeld, CallShape, [Next]_vars, NEW c \in Calls
    PROVE  /\ tool[c] = "done" => tool'[c] = "done"
           /\ grant[c] # NoApproval => UNCHANGED grant[c]
  <1>1. CASE SameCall(c) \/ UNCHANGED callVars
    BY <1>1 DEF SameCall, callVars
  <1>2. CASE Moves(c)
    <2>1. CASE CallStep(c)
      BY <2>1 DEF CallStep, CheckRate, ReserveKey, Replay, RefuseDuplicate, NeedNoApproval,
                  AskApproval, UseApproval, RefuseApproval, StartTool, ToolReturns, ToolLost,
                  ToolRaises, RecordFailure, RecordExecution, Succeed, Deny, Goto, Return,
                  StayInCall, TypeOK, CallShape, GrantHeld
    <2>2. CASE ~CallStep(c)
      BY <1>2, <2>2 DEF Moves, Arrive, ToolEnds, TypeOK
    <2> QED BY <2>1, <2>2
  <1> QED BY <1>1, <1>2, WhoMoves

\* Nothing is in a trail initially.
LEMMA TrailInit == Init => TrailInv
  <1> SUFFICES ASSUME Init, NEW a \in ApprovalIds
               PROVE  TrailFits(a) /\ approvals[a].status # "EXECUTED"
    BY DEF TrailInv
  <1>1. /\ approvals[a].status = "NONE" /\ approvals[a].version = 0
        /\ audit[a] = << >> /\ events[a] = << >>
    BY DEF Init, ApprovalStoreInit, NoRecord
  <1>2. Len(audit[a]) = 0 /\ \A i \in DOMAIN audit[a] : audit[a][i] # "EXECUTED"
    BY <1>1
  <1> QED BY <1>1, <1>2 DEF TrailFits

\* A trail that does not speak of an execution, and one more status that is none.
LEMMA AppendedTrail ==
    ASSUME NEW trail \in Seq(ApprovalStatus), NEW s \in ApprovalStatus, s # "EXECUTED",
           \A i \in DOMAIN trail : trail[i] # "EXECUTED"
    PROVE  \A i \in DOMAIN Append(trail, s) : Append(trail, s)[i] # "EXECUTED"
  OBVIOUS

\* A sequence of one element, and one more.
LEMMA AppendToOne ==
    ASSUME NEW S, NEW x \in S, NEW y \in S
    PROVE  Append(<<x>>, y) = <<x, y>>
  <1> DEFINE s == Append(<<x>>, y)
             t == <<x, y>>
  <1>1. s \in Seq(S) /\ Len(s) = 2 /\ s[1] = x /\ s[2] = y
    OBVIOUS
  <1>2. t \in Seq(S) /\ Len(t) = 2 /\ t[1] = x /\ t[2] = y
    OBVIOUS
  <1> HIDE DEF s, t
  <1>3. \A i \in 1 .. Len(s) : s[i] = t[i]
    BY <1>1, <1>2
  <1>4. s = t
    BY <1>1, <1>2, <1>3, SeqEqual
  <1> QED BY <1>4 DEF s, t

\* A sequence of two elements, and one more.
LEMMA AppendToTwo ==
    ASSUME NEW S, NEW x \in S, NEW y \in S, NEW z \in S
    PROVE  Append(<<x, y>>, z) = <<x, y, z>>
  <1> DEFINE s == Append(<<x, y>>, z)
             t == <<x, y, z>>
  <1>1. s \in Seq(S) /\ Len(s) = 3 /\ s[1] = x /\ s[2] = y /\ s[3] = z
    OBVIOUS
  <1>2. t \in Seq(S) /\ Len(t) = 3 /\ t[1] = x /\ t[2] = y /\ t[3] = z
    OBVIOUS
  <1> HIDE DEF s, t
  <1>3. \A i \in 1 .. Len(s) : s[i] = t[i]
    BY <1>1, <1>2
  <1>4. s = t
    BY <1>1, <1>2, <1>3, SeqEqual
  <1> QED BY <1>4 DEF s, t

\* The trails that a granted operation leaves.
LEMMA GrantedTrails ==
    /\ Append(<< >>, "PENDING") = <<"PENDING">>
    /\ Append(<<"PENDING">>, "APPROVED") = <<"PENDING", "APPROVED">>
    /\ Append(<<"PENDING", "APPROVED">>, "EXECUTED") = <<"PENDING", "APPROVED", "EXECUTED">>
  <1>1. /\ "PENDING" \in ApprovalStatus /\ "APPROVED" \in ApprovalStatus
        /\ "EXECUTED" \in ApprovalStatus
    BY DEF ApprovalStatus
  <1>2. Append(<< >>, "PENDING") = <<"PENDING">>
    OBVIOUS
  <1>3. Append(<<"PENDING">>, "APPROVED") = <<"PENDING", "APPROVED">>
    BY <1>1, AppendToOne
  <1>4. Append(<<"PENDING", "APPROVED">>, "EXECUTED") = <<"PENDING", "APPROVED", "EXECUTED">>
    BY <1>1, AppendToTwo
  <1> QED BY <1>2, <1>3, <1>4

\* A record that moves along Evolves, with its trail, keeps its trail fitting.
LEMMA TrailMoves ==
    ASSUME TypeOK, NEW a \in ApprovalIds, TrailFits(a),
           Evolves(approvals[a], approvals'[a]),
           events'[a] = Append(events[a], approvals'[a].status),
           audit'[a] = Append(audit[a], approvals'[a].status),
           approvals'[a].status # "NONE",
           approvals'[a].version = IF approvals[a].status = "NONE" THEN 1
                                   ELSE approvals[a].version + 1
    PROVE  TrailFits(a)'
  <1> DEFINE r == approvals[a]
             s == approvals'[a].status
             trail == audit[a]
  <1>0. trail \in Seq(ApprovalStatus) /\ r \in ApprovalRecord
    BY DEF TypeOK, ApprovalStoreTypeOK
  <1>1. approvals'[a] # r
    <2>1. r.version \in Nat
      BY <1>0 DEF ApprovalRecord
    <2> QED BY <2>1 DEF TrailFits
  <1>2. \/ r.status = "NONE" /\ s = "PENDING"
        \/ r.status = "PENDING" /\ s \in {"APPROVED", "REJECTED", "EXPIRED"}
        \/ r.status = "APPROVED" /\ s \in {"EXECUTED", "FAILED"}
    BY <1>1 DEF Evolves
  <1>3. events'[a] = audit'[a] /\ approvals'[a].version = Len(audit'[a])
    BY <1>0, <1>2 DEF TrailFits
  <1>4. audit'[a] = Append(trail, s)
    OBVIOUS
  <1>5. CASE s = "EXECUTED"
    <2>1. trail = <<"PENDING", "APPROVED">>
      BY <1>2, <1>5 DEF TrailFits
    <2>2. audit'[a] = <<"PENDING", "APPROVED", "EXECUTED">>
      BY <1>4, <1>5, <2>1, GrantedTrails
    <2> QED BY <1>3, <1>5, <2>2 DEF TrailFits
  <1>6. CASE s # "EXECUTED"
    <2>1. s \in ApprovalStatus
      BY <1>2 DEF ApprovalStatus
    <2>2. \A i \in DOMAIN trail : trail[i] # "EXECUTED"
      BY <1>2 DEF TrailFits
    <2>3. \A i \in DOMAIN audit'[a] : audit'[a][i] # "EXECUTED"
      BY <1>0, <1>4, <1>6, <2>1, <2>2, AppendedTrail
    <2>4. ASSUME s = "PENDING" PROVE audit'[a] = <<"PENDING">>
      <3>1. trail = << >>
        BY <1>2, <2>4 DEF TrailFits
      <3> QED BY <1>4, <2>4, <3>1, GrantedTrails
    <2>5. ASSUME s = "APPROVED" PROVE audit'[a] = <<"PENDING", "APPROVED">>
      <3>1. trail = <<"PENDING">>
        BY <1>2, <2>5 DEF TrailFits
      <3> QED BY <1>4, <2>5, <3>1, GrantedTrails
    <2> QED BY <1>2, <1>3, <1>6, <2>3, <2>4, <2>5 DEF TrailFits
  <1> QED BY <1>5, <1>6

\* No step makes a trail that does not fit, or an execution without a tool run.
LEMMA TrailStep ==
    ASSUME TypeOK, Arrived, GrantInv, CallShape, TrailInv, [Next]_vars
    PROVE  TrailInv'
  <1> DEFINE Ran(a) == \E c \in Calls : grant[c] = a /\ tool[c] = "done"
             Good(a) == TrailFits(a) /\ (approvals[a].status = "EXECUTED" => Ran(a))
  <1>1. \A a \in ApprovalIds : Good(a)
    BY DEF TrailInv
  <1>2. \A a \in ApprovalIds : a # NoApproval
    BY GatewayAssumption
  <1>3. ASSUME NEW a \in ApprovalIds, Ran(a) PROVE Ran(a)'
    BY <1>2, <1>3, DoneToolStays DEF GrantInv
  <1>4. ASSUME NEW a \in ApprovalIds, UNCHANGED <<approvals[a], events[a], audit[a]>>
        PROVE  Good(a)'
    BY <1>1, <1>3, <1>4 DEF TrailFits
  <1>5. CASE UNCHANGED approvalVars
    BY <1>4, <1>5 DEF TrailInv, approvalVars
  <1>6. CASE OneEvolves
    <2>1. PICK a \in ApprovalIds :
             \E r : /\ Store(a, r)
                    /\ Evolves(approvals[a], r)
                    /\ r.version = IF approvals[a].status = "NONE" THEN 1
                                   ELSE approvals[a].version + 1
                    /\ r.status = "EXECUTED"
                          => \E c \in Calls : grant[c] = a /\ pc[c] = "executed"
      BY <1>6 DEF OneEvolves
    <2>2. PICK r : /\ Store(a, r)
                   /\ Evolves(approvals[a], r)
                   /\ r.version = IF approvals[a].status = "NONE" THEN 1
                                  ELSE approvals[a].version + 1
                   /\ r.status = "EXECUTED"
                         => \E c \in Calls : grant[c] = a /\ pc[c] = "executed"
      BY <2>1
    <2>3. /\ approvals'[a] = r
          /\ events'[a] = Append(events[a], r.status)
          /\ audit'[a] = Append(audit[a], r.status)
      BY <2>2 DEF Store, RecordTransition, TypeOK, ApprovalStoreTypeOK
    <2>4. r.status # "NONE"
      <3>1. approvals[a].version \in Nat
        BY DEF TypeOK, ApprovalStoreTypeOK, ApprovalRecord
      <3>2. r # approvals[a]
        BY <1>1, <2>2, <3>1 DEF TrailFits
      <3> QED BY <2>2, <3>2 DEF Evolves
    <2>5. TrailFits(a)'
      BY <1>1, <2>2, <2>3, <2>4, TrailMoves
    <2>6. approvals'[a].status = "EXECUTED" => Ran(a)'
      <3>1. approvals'[a].status = "EXECUTED" => Ran(a)
        BY <2>2, <2>3 DEF CallShape
      <3> QED BY <1>3, <3>1
    <2>7. ASSUME NEW b \in ApprovalIds, b # a PROVE Good(b)'
      <3>1. UNCHANGED <<approvals[b], events[b], audit[b]>>
        BY <2>2, <2>7 DEF Store, RecordTransition, TypeOK, ApprovalStoreTypeOK
      <3> QED BY <1>4, <3>1
    <2> QED BY <2>5, <2>6, <2>7 DEF TrailInv
  <1>7. CASE ListApprovals
    <2>1. PICK t \in 0 .. clock : ExpirePending(t)
      BY <1>7 DEF ListApprovals
    <2>2. ASSUME NEW a \in ApprovalIds, Overdue(a, t) PROVE Good(a)'
      <3>1. approvals[a] \in ApprovalRecord /\ approvals[a].status = "PENDING"
        BY <2>2 DEF TypeOK, ApprovalStoreTypeOK, Overdue
      <3>2. /\ approvals'[a] = Moved(approvals[a], "EXPIRED")
            /\ events'[a] = Append(events[a], "EXPIRED")
            /\ audit'[a] = Append(audit[a], "EXPIRED")
        BY <2>1, <2>2 DEF ExpirePending
      <3>3. approvals'[a].status = "EXPIRED" /\ approvals'[a].version = approvals[a].version + 1
        BY <3>1, <3>2, MovedRecord DEF ApprovalStatus
      <3>4. Evolves(approvals[a], approvals'[a])
        BY ApprovalsEvolve DEF GrantInv
      <3>5. TrailFits(a)'
        BY <1>1, <3>1, <3>2, <3>3, <3>4, TrailMoves
      <3> QED BY <3>3, <3>5
    <2>3. ASSUME NEW a \in ApprovalIds, ~Overdue(a, t) PROVE Good(a)'
      <3>1. UNCHANGED <<approvals[a], events[a], audit[a]>>
        BY <2>1, <2>3 DEF ExpirePending
      <3> QED BY <1>4, <3>1
    <2> QED BY <2>2, <2>3 DEF TrailInv
  <1> QED BY <1>5, <1>6, <1>7, ApprovalSteps DEF GrantInv

\* An execution is audited once, as the end of a trail in which it follows the
\* grant, and a tool run under the approval took effect.
THEOREM ExecutedApprovalsRan == Spec => []ExecutedApprovalRan
  <1> DEFINE Inv == TypeOK /\ Arrived /\ GrantInv /\ CallShape /\ TrailInv
  <1>1. Init => Inv
    BY TypeInit, GrantInit, ShapeInit, TrailInit
  <1>2. Inv /\ [Next]_vars => Inv'
    BY TypeStep, DecidedStep, GrantHeldStep, ShapeStep, TrailStep DEF GrantInv
  <1>3. Inv => ExecutedApprovalRan
    BY DEF TrailInv, TrailFits, ExecutedApprovalRan
  <1> QED BY <1>1, <1>2, <1>3, PTL DEF Spec

----------------------------------------------------------------------------
(* one run per idempotency key *)

\* What a step does to the idempotency store: nothing, or one of its operations on
\* the key of a call that has arrived, with the stamp of that call or of now.
KeyStep(c) ==
    \/ ReserveKey(c) /\ Reserve(IdemKey(c), at[c])
    \/ (Replay(c) \/ RefuseDuplicate(c)) /\ ReserveKnown(IdemKey(c), at[c])
    \/ StartTool(c) /\ MarkRunning(IdemKey(c))
    \/ Succeed(c) /\ Complete(IdemKey(c), "SUCCEEDED", OwnSuccess(c), clock)
    \/ Deny(c) /\ Complete(IdemKey(c), "PERMANENT_FAILED", [outcome |-> "DENIED", by |-> c], clock)

\* Every step is one of those, or leaves the store alone.
LEMMA KeySteps ==
    ASSUME TypeOK, Arrived, [Next]_vars
    PROVE  \/ UNCHANGED idemVars
           \/ \E c \in Calls : KeyStep(c) /\ req[c] \in Requests /\ IdemKey(c) \in IdemKeys
  <1>1. ASSUME NEW c \in Calls, CallStep(c)
        PROVE  UNCHANGED idemVars \/ (KeyStep(c) /\ pc[c] # "idle")
    BY <1>1 DEF CallStep, KeyStep, CheckRate, ReserveKey, Replay, RefuseDuplicate,
                NeedNoApproval, AskApproval, UseApproval, RefuseApproval, StartTool, ToolReturns,
                ToolLost, ToolRaises, RecordFailure, RecordExecution, Succeed, Deny, Goto,
                OwnSuccess
  <1>2. UNCHANGED idemVars \/ \E c \in Calls : CallStep(c)
    BY DEF Next, Arrive, ToolEnds, ApproveOperation, RejectOperation, ReadApproval,
           ListApprovals, Others, Tick, Finished, vars, rateVars, idemVars
  <1> QED BY <1>1, <1>2, RequestParts DEF Arrived

\* A record is not dropped without the key being forgotten, and nothing forgotten is
\* remembered.
LEMMA KeyKept ==
    ASSUME TypeOK, Arrived, [Next]_vars
    PROVE  /\ forgotten \subseteq forgotten'
           /\ \A k \in IdemKeys :
                 keys[k].status # "ABSENT" /\ k \notin forgotten' => keys'[k].status # "ABSENT"
  <1> DEFINE Goal == /\ forgotten \subseteq forgotten'
                     /\ \A k \in IdemKeys :
                           keys[k].status # "ABSENT" /\ k \notin forgotten'
                              => keys'[k].status # "ABSENT"
  <1>0. IdemTypeOK
    BY DEF TypeOK
  <1>1. ASSUME NEW c \in Calls, IdemKey(c) \in IdemKeys, Reserve(IdemKey(c), at[c])
        PROVE  Goal
    BY <1>1 DEF Reserve, Forget
  <1>2. ASSUME NEW c \in Calls, IdemKey(c) \in IdemKeys, ReserveKnown(IdemKey(c), at[c])
        PROVE  Goal
    BY <1>2 DEF ReserveKnown, Forget
  <1>3. ASSUME NEW c \in Calls, IdemKey(c) \in IdemKeys, MarkRunning(IdemKey(c))
        PROVE  Goal
    BY <1>0, <1>3 DEF MarkRunning, IdemTypeOK, IdemRecord
  <1>4. ASSUME NEW c \in Calls, IdemKey(c) \in IdemKeys, NEW s \in {"SUCCEEDED", "PERMANENT_FAILED"},
               NEW r \in Responses, Complete(IdemKey(c), s, r, clock)
        PROVE  Goal
    BY <1>0, <1>4 DEF Complete, IdemTypeOK
  <1>5. \A c \in Calls : /\ OwnSuccess(c) \in Responses
                         /\ [outcome |-> "DENIED", by |-> c] \in Responses
    BY GatewayAssumption DEF OwnSuccess
  <1>6. CASE UNCHANGED idemVars
    BY <1>6 DEF idemVars
  <1> HIDE DEF Goal
  <1>7. Goal
    BY <1>1, <1>2, <1>3, <1>4, <1>5, <1>6, KeySteps DEF KeyStep, Goal
  <1> QED BY <1>7 DEF Goal

\* A call comes to own its key by reserving it, and keeps its key.
LEMMA OwnsFrom ==
    ASSUME TypeOK, Arrived, GrantHeld, CallShape, [Next]_vars, NEW c \in Calls, Owns(c)'
    PROVE  UNCHANGED req[c] /\ (Owns(c) \/ (pc[c] = "reserve" /\ ReserveKey(c)))
  <1>1. CASE SameCall(c) \/ UNCHANGED callVars
    BY <1>1 DEF SameCall, callVars, Owns
  <1>2. CASE Moves(c)
    <2>1. CASE \E r \in Requests : Arrive(c, r)
      BY <2>1 DEF Arrive, Goto, TypeOK, GrantHeld, Owns
    <2>2. CASE \E end \in {"done", "error"} : ToolEnds(c, end)
      BY <2>2 DEF ToolEnds, Owns
    <2>3. CASE CheckRate(c) \/ Replay(c) \/ RefuseDuplicate(c)
      BY <2>3 DEF CheckRate, Replay, RefuseDuplicate, Goto, Return, StayInCall, TypeOK,
                  GrantHeld, Owns
    <2>4. CASE ReserveKey(c)
      BY <2>4 DEF ReserveKey, Goto, StayInCall
    <2>5. CASE NeedNoApproval(c) \/ AskApproval(c) \/ UseApproval(c) \/ RefuseApproval(c)
                  \/ StartTool(c) \/ ToolReturns(c) \/ ToolLost(c) \/ ToolRaises(c)
                  \/ RecordFailure(c) \/ RecordExecution(c) \/ Succeed(c)
      BY <2>5 DEF NeedNoApproval, AskApproval, UseApproval, RefuseApproval, StartTool,
                  ToolReturns, ToolLost, ToolRaises, RecordFailure, RecordExecution, Succeed,
                  Goto, Return, StayInCall, Owns
    <2>6. CASE Deny(c)
      BY <2>6 DEF Deny, Goto, Return, TypeOK, GrantHeld, Owns
    <2> QED BY <1>2, <2>1, <2>2, <2>3, <2>4, <2>5, <2>6 DEF Moves, CallStep
  <1> QED BY <1>1, <1>2, WhoMoves

\* No key is owned initially.
LEMMA OwnerInit == Init => OwnerInv
  BY DEF Init, OwnerInv, Owns

\* No step gives a key that was not forgotten a second owner.
LEMMA OwnerStep ==
    ASSUME TypeOK, Arrived, GrantHeld, CallShape, OwnerInv, [Next]_vars
    PROVE  OwnerInv'
  <1>1. \A c \in Calls : Owns(c) => IdemKey(c) \in IdemKeys
    BY RequestParts DEF Arrived, GrantHeld, Owns
  <1>2. ASSUME NEW c \in Calls, Owns(c)'
        PROVE  IdemKey(c)' = IdemKey(c)
    BY <1>2, OwnsFrom DEF IdemKey
  \* a call that reserves a key: nobody owns it, and it is stored now
  <1>3. ASSUME NEW c \in Calls, Owns(c)', ~Owns(c), IdemKey(c) \notin forgotten'
        PROVE  /\ keys'[IdemKey(c)].status # "ABSENT"
               /\ \A d \in Calls : Owns(d)' /\ IdemKey(d) = IdemKey(c) => d = c
    <2>1. pc[c] = "reserve" /\ ReserveKey(c)
      BY <1>3, OwnsFrom
    <2>2. IdemKey(c) \in IdemKeys
      BY <2>1, RequestParts DEF Arrived
    <2>3. Reserve(IdemKey(c), at[c])
      BY <2>1 DEF ReserveKey
    <2>4. keys'[IdemKey(c)].status = "RESERVED"
      BY <1>3, <2>2, <2>3 DEF Reserve, Forget
    <2>5. keys[IdemKey(c)].status = "ABSENT"
      BY <1>3, <2>3 DEF Reserve, Live, Forget
    <2>6. ASSUME NEW d \in Calls, Owns(d)', IdemKey(d) = IdemKey(c), d # c
          PROVE  FALSE
      <3>1. pc'[c] # "reserve"
        BY <2>1 DEF ReserveKey, Goto, TypeOK
      <3>2. SameCall(d)
        BY <2>1, <2>6, <3>1, WhoMoves DEF SameCall, callVars
      <3>3. Owns(d)
        BY <2>6, <3>2 DEF Owns, SameCall
      <3>4. IdemKey(d) \notin forgotten
        BY <1>3, <2>6, KeyKept
      <3> QED BY <2>5, <2>6, <3>3, <3>4 DEF OwnerInv
    <2> QED BY <2>4, <2>6
  <1>4. ASSUME NEW c \in Calls, Owns(c)', IdemKey(c)' \notin forgotten'
        PROVE  keys'[IdemKey(c)'].status # "ABSENT"
    <2>1. CASE Owns(c)
      BY <1>1, <1>2, <1>4, <2>1, KeyKept DEF OwnerInv
    <2> QED BY <1>2, <1>3, <1>4, <2>1
  <1>5. ASSUME NEW c \in Calls, NEW d \in Calls, Owns(c)', Owns(d)',
               IdemKey(c)' \notin forgotten', IdemKey(d)' = IdemKey(c)'
        PROVE  d = c
    <2>1. IdemKey(c) \notin forgotten' /\ IdemKey(d) = IdemKey(c) /\ IdemKey(c) \notin forgotten
      BY <1>2, <1>5, KeyKept
    <2>2. CASE Owns(c) /\ Owns(d)
      BY <2>1, <2>2 DEF OwnerInv
    <2> QED BY <1>3, <1>5, <2>1, <2>2
  <1> QED BY <1>4, <1>5 DEF OwnerInv

\* Under one idempotency key at most one call starts a tool, for any number of racing
\* calls, as long as the store did not have to forget the key.
THEOREM OneRunPerIdempotencyKey == Spec => []OneRunPerKey
  <1> DEFINE Inv == TypeOK /\ Arrived /\ GrantInv /\ CallShape /\ OwnerInv
  <1>1. Init => Inv
    BY TypeInit, GrantInit, ShapeInit, OwnerInit
  <1>2. Inv /\ [Next]_vars => Inv'
    BY TypeStep, DecidedStep, GrantHeldStep, ShapeStep, OwnerStep DEF GrantInv
  <1>3. Inv => OneRunPerKey
    BY DEF OwnerInv, Owns, OneRunPerKey
  <1> QED BY <1>1, <1>2, <1>3, PTL DEF Spec

----------------------------------------------------------------------------
(* a replayed response is the response *)

\* What a call ended with stays what it ended with.
LEMMA BacksStays ==
    ASSUME TypeOK, Arrived, GrantHeld, CallShape, [Next]_vars,
           NEW d \in Calls, NEW k, NEW r, Backs(d, k, r)
    PROVE  Backs(d, k, r)'
  BY DoneStays DEF Backs, IdemKey

\* No step loses the call behind a stored response.
LEMMA StoredStep ==
    ASSUME TypeOK, Arrived, GrantHeld, CallShape, ReplayInv, [Next]_vars,
           NEW k \in IdemKeys, keys'[k].response # NoResponse
    PROVE  Backs(keys[k].response.by, k, keys[k].response)'
  <1>0. IdemTypeOK
    BY DEF TypeOK
  <1>1. ASSUME keys'[k].response = keys[k].response
        PROVE  Backs(keys[k].response.by, k, keys[k].response)'
    <2>1. keys[k].response \in Responses
      BY <1>0, <1>1 DEF IdemTypeOK, IdemRecord
    <2>2. keys[k].response.by \in Calls
      BY <2>1, GatewayAssumption
    <2>3. Backs(keys[k].response.by, k, keys[k].response)
      BY <1>1 DEF ReplayInv
    <2>4. \A d \in Calls, r \in Responses : Backs(d, k, r) => Backs(d, k, r)'
      BY BacksStays
    <2>5. PICK r \in Responses : r = keys[k].response
      BY <2>1
    <2>6. PICK d \in Calls : d = r.by
      BY <2>2, <2>5
    <2>7. Backs(d, k, r)'
      BY <2>3, <2>4, <2>5, <2>6
    <2> QED BY <1>1, <2>5, <2>6, <2>7 DEF Backs
  <1>2. ASSUME NEW c \in Calls, IdemKey(c) \in IdemKeys,
               Reserve(IdemKey(c), at[c]) \/ ReserveKnown(IdemKey(c), at[c])
        PROVE  keys'[k].response = keys[k].response
    <2>1. \/ keys'[k] = AbsentRecord \/ keys'[k] = keys[k]
          \/ keys'[k] = [status |-> "RESERVED", createdAt |-> at[c], response |-> NoResponse]
      BY <1>2 DEF Reserve, ReserveKnown
    <2> QED BY <2>1 DEF AbsentRecord
  <1>3. ASSUME NEW c \in Calls, IdemKey(c) \in IdemKeys, MarkRunning(IdemKey(c))
        PROVE  keys'[k].response = keys[k].response
    BY <1>0, <1>3 DEF MarkRunning, IdemTypeOK, IdemRecord
  <1>4. ASSUME NEW c \in Calls, IdemKey(c) \in IdemKeys, req[c] \in Requests,
               Succeed(c) \/ Deny(c), NEW s, NEW o \in {"SUCCEEDED", "DENIED"},
               Complete(IdemKey(c), s, [outcome |-> o, by |-> c], clock),
               answer' = [answer EXCEPT ![c] = [outcome |-> o, by |-> c]],
               o = "SUCCEEDED" => pc[c] = "succeed"
        PROVE  Backs(keys[k].response.by, k, keys[k].response)'
    <2>1. CASE k # IdemKey(c)
      BY <1>0, <1>1, <1>4, <2>1 DEF Complete, IdemTypeOK
    <2>2. CASE k = IdemKey(c)
      <3>1. keys'[k].response = [outcome |-> o, by |-> c]
        BY <1>0, <1>4, <2>2 DEF Complete, IdemTypeOK
      <3>2. /\ pc'[c] = "done" /\ UNCHANGED <<req, tool>>
            /\ answer'[c] = [outcome |-> o, by |-> c]
        BY <1>4 DEF Succeed, Deny, Goto, Return, TypeOK
      <3>3. o = "SUCCEEDED" => tool'[c] = "done"
        BY <1>4, <3>2 DEF CallShape
      <3> QED BY <2>2, <3>1, <3>2, <3>3 DEF Backs, IdemKey
    <2> QED BY <2>1, <2>2
  <1>5. CASE UNCHANGED idemVars
    BY <1>1, <1>5 DEF idemVars
  <1>6. ASSUME NEW c \in Calls, KeyStep(c), req[c] \in Requests, IdemKey(c) \in IdemKeys
        PROVE  Backs(keys[k].response.by, k, keys[k].response)'
    <2>1. CASE Succeed(c) /\ Complete(IdemKey(c), "SUCCEEDED", OwnSuccess(c), clock)
      BY <1>4, <1>6, <2>1 DEF Succeed, Return, Goto, OwnSuccess
    <2>2. CASE Deny(c) /\ Complete(IdemKey(c), "PERMANENT_FAILED",
                                   [outcome |-> "DENIED", by |-> c], clock)
      BY <1>4, <1>6, <2>2 DEF Deny, Return
    <2> QED BY <1>1, <1>2, <1>3, <1>6, <2>1, <2>2 DEF KeyStep
  <1> QED BY <1>5, <1>6, KeySteps

\* No step gives a call an answer that nobody made.
LEMMA AnswerStep ==
    ASSUME TypeOK, Arrived, GrantHeld, CallShape, ReplayInv, [Next]_vars,
           NEW c \in Calls, answer'[c] # NoResponse
    PROVE  /\ Backs(answer[c].by, IdemKey(c), answer[c])'
           /\ answer'[c].by # c => tool'[c] = "none"
  <1> DEFINE Goal == /\ Backs(answer[c].by, IdemKey(c), answer[c])'
                     /\ answer'[c].by # c => tool'[c] = "none"
  <1>0. \A d \in Calls, r \in Responses, k \in IdemKeys : Backs(d, k, r) => Backs(d, k, r)'
    BY BacksStays
  <1>1. CASE answer[c] # NoResponse
    <2>1. pc[c] = "done" /\ req[c] \in Requests
      BY <1>1 DEF CallShape, Arrived
    <2>2. UNCHANGED <<answer[c], req[c]>> /\ (tool[c] # "running" => UNCHANGED tool[c])
      BY <2>1, DoneStays
    <2>3. answer[c] \in Responses /\ IdemKey(c) \in IdemKeys /\ answer[c].by \in Calls
      BY <1>1, <2>1, RequestParts, GatewayAssumption DEF TypeOK
    <2>4. IdemKey(c)' = IdemKey(c)
      BY <2>2 DEF IdemKey
    <2>5. Backs(answer[c].by, IdemKey(c), answer[c])
      BY <1>1 DEF ReplayInv
    <2>6. PICK d \in Calls, r \in Responses, k \in IdemKeys :
             d = answer[c].by /\ r = answer[c] /\ k = IdemKey(c)
      BY <2>3
    <2>7. Backs(d, k, r)'
      BY <1>0, <2>5, <2>6
    <2>8. answer'[c].by # c => tool'[c] = "none"
      BY <1>1, <2>2 DEF ReplayInv
    <2> QED BY <2>2, <2>4, <2>6, <2>7, <2>8 DEF Backs
  <1>2. CASE answer[c] = NoResponse
    <2>1. CASE Replay(c)
      <3>1. /\ req[c] \in Requests /\ IdemKey(c) \in IdemKeys
            /\ keys[IdemKey(c)].response # NoResponse
        BY <2>1, RequestParts DEF Replay, Goto, Arrived, Replayable
      <3>2. /\ answer'[c] = keys[IdemKey(c)].response /\ UNCHANGED <<req, tool>>
            /\ tool[c] = "none"
        BY <2>1 DEF Replay, Goto, Return, TypeOK, GrantHeld
      <3>3. keys[IdemKey(c)].response \in Responses
        BY <3>1 DEF TypeOK, IdemTypeOK, IdemRecord
      <3>4. PICK r \in Responses, k \in IdemKeys :
               r = keys[IdemKey(c)].response /\ k = IdemKey(c)
        BY <3>1, <3>3
      <3>5. PICK d \in Calls : d = r.by
        BY GatewayAssumption
      <3>6. Backs(d, k, r)'
        BY <1>0, <3>1, <3>4, <3>5 DEF ReplayInv
      <3>7. IdemKey(c)' = k
        BY <3>2, <3>4 DEF IdemKey
      <3> QED BY <3>2, <3>4, <3>5, <3>6, <3>7 DEF Backs
    <2>2. CASE AskApproval(c) \/ Succeed(c) \/ Deny(c)
      <3>1. /\ pc'[c] = "done" /\ UNCHANGED <<req, tool>>
            /\ \/ answer'[c] = [outcome |-> "SUCCEEDED", by |-> c] /\ pc[c] = "succeed"
               \/ \E o \in {"PENDING", "DENIED"} : answer'[c] = [outcome |-> o, by |-> c]
        BY <2>2 DEF AskApproval, Succeed, Deny, Goto, Return, TypeOK
      <3>2. answer'[c].by = c /\ (answer'[c].outcome = "SUCCEEDED" => tool'[c] = "done")
        BY <3>1 DEF CallShape
      <3> QED BY <3>1, <3>2 DEF Backs, IdemKey
    <2>3. CASE UNCHANGED answer[c]
      BY <1>2, <2>3
    <2>4. Replay(c) \/ AskApproval(c) \/ Succeed(c) \/ Deny(c) \/ UNCHANGED answer[c]
      BY WhoMoves DEF Moves, SameCall, callVars, CallStep, Arrive, ToolEnds, CheckRate,
                      ReserveKey, RefuseDuplicate, NeedNoApproval, UseApproval, RefuseApproval,
                      StartTool, ToolReturns, ToolLost, ToolRaises, RecordFailure,
                      RecordExecution, StayInCall
    <2> QED BY <2>1, <2>2, <2>3, <2>4
  <1> QED BY <1>1, <1>2

\* Nothing is stored or answered initially.
LEMMA ReplayInit == Init => ReplayInv
  BY DEF Init, IdemInit, AbsentRecord, ReplayInv

\* A response that was made for another call is that call's own final response, under
\* the same principal and key, and the replaying call ran nothing.
THEOREM ReplaysAreFaithful == Spec => []ReplayFaithful
  <1> DEFINE Inv == TypeOK /\ Arrived /\ GrantInv /\ CallShape /\ ReplayInv
  <1>1. Init => Inv
    BY TypeInit, GrantInit, ShapeInit, ReplayInit
  <1>2. Inv /\ [Next]_vars => Inv'
    <2> SUFFICES ASSUME Inv, [Next]_vars PROVE Inv'
      OBVIOUS
    <2>1. (TypeOK /\ Arrived /\ GrantInv /\ CallShape)'
      BY TypeStep, DecidedStep, GrantHeldStep, ShapeStep DEF GrantInv
    <2>2. ReplayInv'
      BY StoredStep, AnswerStep DEF GrantInv, ReplayInv
    <2> QED BY <2>1, <2>2
  <1>3. Inv => ReplayFaithful
    BY DEF ReplayInv, Backs, ReplayFaithful
  <1> QED BY <1>1, <1>2, <1>3, PTL DEF Spec

----------------------------------------------------------------------------
(* keys are kept, windows are never exceeded *)

\* An eviction that is not needed evicts nothing.
LEMMA EvictsWhenFull ==
    ASSUME NEW kept \in SUBSET IdemKeys, NEW k \in IdemKeys, NEW now \in Nat,
           NEW out \in EvictionSets(kept, k, now), out # {}
    PROVE  Cardinality(kept \cup {k}) > MaxEntries
  <1> DEFINE all == kept \cup {k}
  <1>1. IsFiniteSet(all)
    BY IdempotencyStoreAssumption, FS_Subset
  <1>2. out \subseteq all /\ all \ out # all
    BY DEF EvictionSets
  <1>3. Cardinality(all \ out) < Cardinality(all)
    BY <1>1, <1>2, FS_Subset, FS_CardinalityType DEF EvictionSets
  <1>4. Cardinality(all \ out) = IF Cardinality(all) > MaxEntries THEN MaxEntries
                                 ELSE Cardinality(all)
    BY DEF EvictionSets
  <1>5. Cardinality(all) \in Nat
    BY <1>1, FS_CardinalityType
  <1> QED BY <1>3, <1>4, <1>5

\* The stamp of a reservation is not later than the clock, and only a full store evicts.
LEMMA ReserveForgetsOld ==
    ASSUME TypeOK, NEW k \in IdemKeys, NEW now \in Nat, now <= clock, Reserve(k, now)
    PROVE  ForgetsOnlyOldKeys(clock)
  <1> DEFINE kept == Present(keys) \ (ExpiredKeys(now) \cup {k})
  <1>1. PICK evicted \in EvictionSets(kept, k, now) :
           keys' = [x \in IdemKeys |->
                      IF x \in evicted \/ (x \in ExpiredKeys(now) /\ x # k) THEN AbsentRecord
                      ELSE IF x = k
                           THEN [status |-> "RESERVED", createdAt |-> now,
                                 response |-> NoResponse]
                           ELSE keys[x]]
    BY DEF Reserve
  <1>2. SUFFICES ASSUME NEW x \in Present(keys),
                        keys'[x].status = "ABSENT" \/ keys'[x].createdAt # keys[x].createdAt
                 PROVE  \/ clock >= keys[x].createdAt + IdemTtl
                        \/ /\ Cardinality(Present(keys)) >= MaxEntries
                           /\ keys'[x].status = "ABSENT"
    BY DEF ForgetsOnlyOldKeys
  <1>3. x \in IdemKeys /\ keys[x].status # "ABSENT" /\ keys[x].createdAt \in Nat
    BY DEF Present, TypeOK, IdemTypeOK, IdemRecord
  <1>4. CASE x \in ExpiredKeys(now)
    BY <1>3, <1>4, IdempotencyStoreAssumption DEF ExpiredKeys, TypeOK
  <1>5. CASE x \notin ExpiredKeys(now)
    <2>1. x # k
      BY <1>3, <1>5 DEF Reserve, Live
    <2>2. x \in evicted /\ keys'[x].status = "ABSENT"
      BY <1>1, <1>2, <1>3, <1>5, <2>1 DEF AbsentRecord
    <2>3. kept \in SUBSET IdemKeys
      BY DEF Present
    <2>4. Cardinality(kept \cup {k}) > MaxEntries
      BY <2>2, <2>3, EvictsWhenFull
    <2>5. IsFiniteSet(Present(keys)) /\ IsFiniteSet(kept)
      BY IdempotencyStoreAssumption, FS_Subset DEF Present
    <2>6. /\ Cardinality(kept \cup {k}) = Cardinality(kept) + 1
          /\ Cardinality(kept) <= Cardinality(Present(keys))
      <3>1. kept \subseteq Present(keys) /\ k \notin kept
        OBVIOUS
      <3> HIDE DEF kept
      <3> QED BY <2>5, <3>1, FS_AddElement, FS_Subset
    <2>7. Cardinality(kept) \in Nat /\ Cardinality(Present(keys)) \in Nat
      BY <2>5, FS_CardinalityType
    <2>8. Cardinality(Present(keys)) >= MaxEntries
      BY <2>4, <2>6, <2>7, IdempotencyStoreAssumption
    <2> QED BY <2>2, <2>8
  <1> QED BY <1>4, <1>5

\* The idempotency store forgets a key only after its retention time, on the real
\* clock, or when it is full, although reserve() works with stamps of the past.
THEOREM KeysAreKept == Spec => KeysKeptForRetention
  <1> DEFINE Inv == TypeOK /\ Arrived /\ GrantInv /\ CallShape
  <1>1. Init => Inv
    BY TypeInit, GrantInit, ShapeInit
  <1>2. Inv /\ [Next]_vars => Inv'
    BY TypeStep, DecidedStep, GrantHeldStep, ShapeStep DEF GrantInv
  <1>3. Inv /\ [Next]_vars => [ForgetsOnlyOldKeys(clock)]_vars
    <2> SUFFICES ASSUME Inv, [Next]_vars PROVE ForgetsOnlyOldKeys(clock)
      OBVIOUS
    <2>0. IdemTypeOK
      BY DEF TypeOK
    <2>1. ASSUME NEW c \in Calls, IdemKey(c) \in IdemKeys, Reserve(IdemKey(c), at[c])
          PROVE  ForgetsOnlyOldKeys(clock)
      BY <2>1, ReserveForgetsOld DEF CallShape, TypeOK
    <2>2. ASSUME NEW c \in Calls, IdemKey(c) \in IdemKeys, ReserveKnown(IdemKey(c), at[c])
          PROVE  ForgetsOnlyOldKeys(clock)
      <3>1. at[c] \in Nat /\ clock \in Nat /\ at[c] <= clock
        BY DEF CallShape, TypeOK
      <3>2. \A x \in Present(keys) : x \in IdemKeys /\ keys[x].createdAt \in Nat
                                        /\ keys[x].status # "ABSENT"
        BY <2>0 DEF Present, IdemTypeOK, IdemRecord
      <3>3. \A x \in ExpiredKeys(at[c]) : clock >= keys[x].createdAt + IdemTtl
        BY <3>1, <3>2, IdempotencyStoreAssumption DEF ExpiredKeys
      <3>4. \A x \in Present(keys) \ ExpiredKeys(at[c]) : keys'[x] = keys[x]
        BY <2>2, <3>2 DEF ReserveKnown
      <3> QED BY <3>2, <3>3, <3>4 DEF ForgetsOnlyOldKeys
    <2>3. ASSUME NEW c \in Calls, IdemKey(c) \in IdemKeys, MarkRunning(IdemKey(c))
          PROVE  ForgetsOnlyOldKeys(clock)
      BY <2>0, <2>3 DEF MarkRunning, ForgetsOnlyOldKeys, Present, IdemTypeOK, IdemRecord
    <2>4. ASSUME NEW c \in Calls, IdemKey(c) \in IdemKeys,
                 NEW s \in {"SUCCEEDED", "PERMANENT_FAILED"}, NEW r,
                 Complete(IdemKey(c), s, r, clock)
          PROVE  ForgetsOnlyOldKeys(clock)
      BY <2>0, <2>4 DEF Complete, ForgetsOnlyOldKeys, Present, IdemTypeOK
    <2>5. CASE UNCHANGED idemVars
      BY <2>0, <2>5 DEF idemVars, ForgetsOnlyOldKeys, Present
    <2> QED BY <2>1, <2>2, <2>3, <2>4, <2>5, KeySteps DEF KeyStep
  <1> QED BY <1>1, <1>2, <1>3, PTL DEF Spec, KeysKeptForRetention

\* What pruning leaves of a deque is a suffix, and what it drops had expired.
LEMMA InWindowSuffix ==
    ASSUME NEW s \in Seq(Nat), NEW now \in Nat
    PROVE  \E k \in 0 .. Len(s) :
              /\ Len(InWindow(s, now)) = Len(s) - k
              /\ \A i \in 1 .. Len(s) - k : InWindow(s, now)[i] = s[k + i]
              /\ \A i \in 1 .. k : s[i] + RateWindow <= now
  <1> DEFINE live == {i \in 1..Len(s) : now < s[i] + RateWindow}
             first == CHOOSE i \in live : \A j \in live : i <= j
  <1>0. /\ RateWindow \in Nat /\ Len(s) \in Nat
        /\ \A i \in 1 .. Len(s) : s[i] \in Nat /\ s[i] + RateWindow \in Nat
    BY RateLimiterAssumption
  <1>1. CASE live = {}
    <2>1. InWindow(s, now) = << >>
      BY <1>1 DEF InWindow
    <2>2. \A i \in 1 .. Len(s) : s[i] + RateWindow <= now
      <3> SUFFICES ASSUME NEW i \in 1 .. Len(s) PROVE s[i] + RateWindow <= now
        OBVIOUS
      <3>1. i \notin live
        BY <1>1
      <3> QED BY <1>0, <3>1
    <2>3. Len(s) \in 0 .. Len(s) /\ Len(s) - Len(s) = 0
      BY <1>0
    <2> QED BY <2>1, <2>2, <2>3
  <1>2. CASE live # {}
    <2>1. live \in SUBSET Nat
      OBVIOUS
    <2>2. \E i \in live : \A j \in live : i <= j
      BY <1>2, <2>1, LeastNatural
    <2>3. first \in live /\ \A j \in live : first <= j
      BY <2>2
    <2>4. InWindow(s, now) = SubSeq(s, first, Len(s))
      BY <1>2 DEF InWindow
    <2> HIDE DEF first
    <2>5. first \in 1 .. Len(s) /\ first - 1 \in 0 .. Len(s)
      BY <1>0, <2>3
    <2>6. \A i \in 1 .. first - 1 : s[i] + RateWindow <= now
      <3> SUFFICES ASSUME NEW i \in 1 .. first - 1 PROVE s[i] + RateWindow <= now
        OBVIOUS
      <3>1. i \in 1 .. Len(s) /\ i < first
        BY <1>0, <2>5
      <3>2. i \notin live
        BY <2>3, <2>5, <3>1
      <3> QED BY <1>0, <3>1, <3>2
    <2>7. Len(InWindow(s, now)) = Len(s) - (first - 1)
      BY <1>0, <2>4, <2>5
    <2>8. \A i \in 1 .. Len(s) - (first - 1) : InWindow(s, now)[i] = s[(first - 1) + i]
      BY <1>0, <2>4, <2>5
    <2> QED BY <2>5, <2>6, <2>7, <2>8
  <1> QED BY <1>1, <1>2

\* The deque of a bucket holds the stamps of its last admitted calls; the calls before
\* those had expired for some stamp that was checked.
HoldsLast(b) ==
    \E k \in 0 .. Len(checked[b].admitted) :
        /\ Len(window[b]) = Len(checked[b].admitted) - k
        /\ \A i \in 1 .. Len(window[b]) : window[b][i] = checked[b].admitted[k + i].at
        /\ \A i \in 1 .. k : checked[b].admitted[i].at + RateWindow <= checked[b].newest

\* The limit of every window of a bucket is kept.
KeepsLimit(b) == \A t \in Nat : Cardinality(TimelyIn(b, t)) <= RateLimit

WindowInv == \A b \in Buckets : HoldsLast(b) /\ KeepsLimit(b)

\* What is too old for a stamp is too old for a later one.
LEMMA LaterStill ==
    ASSUME NEW a \in Nat, NEW m \in Nat, NEW n \in Nat, a + RateWindow <= m, m <= n
    PROVE  a + RateWindow <= n
  BY RateLimiterAssumption

\* What pruning a deque with a new stamp leaves are again the last admitted calls.
LEMMA PrunedHoldsLast ==
    ASSUME RateTypeOK, NEW b \in Buckets, HoldsLast(b), NEW now \in Nat
    PROVE  LET w == InWindow(window[b], now) IN
           \E k \in 0 .. Len(checked[b].admitted) :
              /\ Len(w) = Len(checked[b].admitted) - k
              /\ \A i \in 1 .. Len(w) : w[i] = checked[b].admitted[k + i].at
              /\ \A i \in 1 .. k :
                    checked[b].admitted[i].at + RateWindow <= Newest(b, now)
  <1> DEFINE w == InWindow(window[b], now)
             log == checked[b].admitted
             newest == Newest(b, now)
  <1>1. /\ window[b] \in Seq(Nat) /\ RateWindow \in Nat
        /\ checked[b].newest \in Nat /\ log \in Seq([at : Nat, newest : Nat])
    BY RateLimiterAssumption DEF RateTypeOK, Checked
  <1>2. \A i \in 1 .. Len(log) : log[i].at \in Nat
    <2> SUFFICES ASSUME NEW i \in 1 .. Len(log) PROVE log[i].at \in Nat
      OBVIOUS
    <2>1. log[i] \in [at : Nat, newest : Nat]
      BY <1>1, ElementOfSeq
    <2> QED BY <2>1
  <1>3. newest \in Nat /\ now <= newest /\ checked[b].newest <= newest
    BY <1>1 DEF Newest
  <1>4. PICK k \in 0 .. Len(log) :
           /\ Len(window[b]) = Len(log) - k
           /\ \A i \in 1 .. Len(window[b]) : window[b][i] = log[k + i].at
           /\ \A i \in 1 .. k : log[i].at + RateWindow <= checked[b].newest
    BY DEF HoldsLast
  <1>5. PICK j \in 0 .. Len(window[b]) :
           /\ Len(w) = Len(window[b]) - j
           /\ \A i \in 1 .. Len(window[b]) - j : w[i] = window[b][j + i]
           /\ \A i \in 1 .. j : window[b][i] + RateWindow <= now
    BY <1>1, InWindowSuffix
  <1> HIDE DEF w, log, newest
  <1>6. k \in Nat /\ j \in Nat /\ Len(log) \in Nat /\ j <= Len(log) - k
        /\ k + j \in 0 .. Len(log) /\ Len(w) = Len(log) - (k + j)
    BY <1>1, <1>4, <1>5
  <1>7. \A i \in 1 .. Len(w) : w[i] = log[(k + j) + i].at
    <2> SUFFICES ASSUME NEW i \in 1 .. Len(w) PROVE w[i] = log[(k + j) + i].at
      OBVIOUS
    <2>1. j + i \in 1 .. Len(window[b]) /\ i \in 1 .. Len(window[b]) - j
      BY <1>4, <1>5, <1>6
    <2>2. w[i] = window[b][j + i] /\ window[b][j + i] = log[k + (j + i)].at
      BY <1>4, <1>5, <2>1
    <2>3. k + (j + i) = (k + j) + i
      BY <1>6
    <2> QED BY <2>2, <2>3
  <1>8. \A i \in 1 .. k + j : log[i].at + RateWindow <= newest
    <2> SUFFICES ASSUME NEW i \in 1 .. k + j PROVE log[i].at + RateWindow <= newest
      OBVIOUS
    <2>0. log[i].at \in Nat /\ i \in Nat
      BY <1>2, <1>6
    <2>1. CASE i <= k
      <3>1. i \in 1 .. k
        BY <1>6, <2>0, <2>1
      <3>2. log[i].at + RateWindow <= checked[b].newest
        BY <1>4, <3>1
      <3>3. checked[b].newest \in Nat /\ newest \in Nat /\ checked[b].newest <= newest
        BY <1>1, <1>3
      <3> QED BY <2>0, <3>2, <3>3, LaterStill
    <2>2. CASE i > k
      <3>1. i - k \in 1 .. j /\ i - k \in 1 .. Len(window[b]) /\ k + (i - k) = i
        BY <1>4, <1>6, <2>2
      <3>2. window[b][i - k] = log[k + (i - k)].at
        BY <1>4, <3>1
      <3>3. window[b][i - k] + RateWindow <= now
        BY <1>5, <3>1
      <3>4. log[i].at + RateWindow <= now
        BY <3>1, <3>2, <3>3
      <3>5. newest \in Nat /\ now <= newest
        BY <1>3
      <3> QED BY <2>0, <3>4, <3>5, LaterStill
    <2> QED BY <1>6, <2>0, <2>1, <2>2
  <1> QED BY <1>6, <1>7, <1>8 DEF w, log, newest

\* A check that admits or refuses a call keeps the last admitted calls in the deque.
LEMMA HoldsLastStep ==
    ASSUME RateTypeOK, NEW b \in Buckets, HoldsLast(b), NEW now \in Nat,
           Admit(b, now) \/ Refuse(b, now)
    PROVE  HoldsLast(b)'
  <1> DEFINE w == InWindow(window[b], now)
             log == checked[b].admitted
             newest == Newest(b, now)
             entry == [at |-> now, newest |-> newest]
  <1>1. /\ window[b] \in Seq(Nat) /\ log \in Seq([at : Nat, newest : Nat])
        /\ checked[b].newest \in Nat /\ newest \in Nat
    BY DEF RateTypeOK, Checked, Newest
  <1>2. w \in Seq(Nat)
    BY <1>1, InWindowType
  <1>3. PICK k \in 0 .. Len(log) :
           /\ Len(w) = Len(log) - k
           /\ \A i \in 1 .. Len(w) : w[i] = log[k + i].at
           /\ \A i \in 1 .. k : log[i].at + RateWindow <= newest
    BY PrunedHoldsLast
  <1>4. CASE Admit(b, now)
    <2>1. /\ window'[b] = Append(w, now)
          /\ checked'[b].admitted = Append(log, entry) /\ checked'[b].newest = newest
      BY <1>4 DEF Admit, RateTypeOK
    <2> HIDE DEF w, log, newest
    <2>2. /\ Len(Append(w, now)) = Len(w) + 1
          /\ \A i \in 1 .. Len(w) : Append(w, now)[i] = w[i]
          /\ Append(w, now)[Len(w) + 1] = now
      BY <1>2
    <2>3. /\ Len(Append(log, entry)) = Len(log) + 1
          /\ \A i \in 1 .. Len(log) : Append(log, entry)[i] = log[i]
          /\ Append(log, entry)[Len(log) + 1] = entry
      BY <1>1
    <2>4. Len(log) \in Nat /\ k \in Nat /\ k \in 0 .. Len(Append(log, entry))
          /\ Len(w) \in Nat /\ Len(Append(w, now)) = Len(Append(log, entry)) - k
      BY <1>1, <1>2, <1>3, <2>2, <2>3
    <2>5. \A i \in 1 .. Len(Append(w, now)) :
             Append(w, now)[i] = Append(log, entry)[k + i].at
      <3> SUFFICES ASSUME NEW i \in 1 .. Len(w) + 1
                   PROVE  Append(w, now)[i] = Append(log, entry)[k + i].at
        BY <2>2
      <3>1. CASE i <= Len(w)
        BY <1>3, <2>2, <2>3, <2>4, <3>1
      <3>2. CASE i = Len(w) + 1
        BY <1>3, <2>2, <2>3, <2>4, <3>2
      <3> QED BY <2>4, <3>1, <3>2
    <2>6. \A i \in 1 .. k : Append(log, entry)[i].at + RateWindow <= newest
      BY <1>3, <2>3, <2>4
    <2> QED BY <2>1, <2>4, <2>5, <2>6 DEF HoldsLast
  <1>5. CASE Refuse(b, now)
    <2>1. /\ window'[b] = w
          /\ checked'[b].admitted = log /\ checked'[b].newest = newest
      BY <1>5 DEF Refuse, RateTypeOK, Checked
    <2> HIDE DEF w, log, newest
    <2> QED BY <1>3, <2>1 DEF HoldsLast
  <1> QED BY <1>4, <1>5

\* A check keeps the limit of every window: the calls of a window that no later stamp
\* has overtaken are all in the deque when the limit is compared.
LEMMA KeepsLimitStep ==
    ASSUME RateTypeOK, NEW b \in Buckets, HoldsLast(b), KeepsLimit(b), NEW now \in Nat,
           Admit(b, now) \/ Refuse(b, now)
    PROVE  KeepsLimit(b)'
  <1> DEFINE w == InWindow(window[b], now)
             log == checked[b].admitted
             newest == Newest(b, now)
             entry == [at |-> now, newest |-> newest]
             n == Len(log)
  <1>1. /\ window[b] \in Seq(Nat) /\ log \in Seq([at : Nat, newest : Nat])
        /\ checked[b].newest \in Nat /\ newest \in Nat /\ n \in Nat
        /\ RateWindow \in Nat /\ RateLimit \in Nat
    BY RateLimiterAssumption DEF RateTypeOK, Checked, Newest
  <1>2. w \in Seq(Nat)
    BY <1>1, InWindowType
  <1>3. PICK k \in 0 .. n :
           /\ Len(w) = n - k
           /\ \A i \in 1 .. k : log[i].at + RateWindow <= newest
    BY PrunedHoldsLast
  <1>4. SUFFICES ASSUME NEW t \in Nat PROVE Cardinality(TimelyIn(b, t)') <= RateLimit
    BY DEF KeepsLimit
  <1>5. Cardinality(TimelyIn(b, t)) <= RateLimit
    BY DEF KeepsLimit
  <1>6. CASE Admit(b, now)
    <2>1. checked'[b].admitted = Append(log, entry) /\ Len(w) < RateLimit
      BY <1>6 DEF Admit, Admits, RateTypeOK
    <2> HIDE DEF w, log, newest
    <2>2. /\ DOMAIN Append(log, entry) = 1 .. n + 1
          /\ \A i \in 1 .. n : Append(log, entry)[i] = log[i]
          /\ Append(log, entry)[n + 1] = entry
      BY <1>1
    <2>3. /\ TimelyIn(b, t)' = {i \in 1 .. n + 1 : /\ Append(log, entry)[i].at >= t
                                                 /\ Append(log, entry)[i].newest < t + RateWindow}
          /\ TimelyIn(b, t) = {i \in 1 .. n : log[i].at >= t /\ log[i].newest < t + RateWindow}
      <3>1. TimelyIn(b, t)' = {i \in DOMAIN Append(log, entry) :
                                  /\ Append(log, entry)[i].at >= t
                                  /\ Append(log, entry)[i].newest < t + RateWindow}
        BY <2>1 DEF TimelyIn
      <3>2. TimelyIn(b, t) = {i \in DOMAIN log :
                                  log[i].at >= t /\ log[i].newest < t + RateWindow}
        BY DEF TimelyIn, log
      <3>3. DOMAIN log = 1 .. n
        BY <1>1
      <3> QED BY <2>2, <3>1, <3>2, <3>3
    <2>4. CASE now >= t /\ newest < t + RateWindow
      <3>1. TimelyIn(b, t)' \subseteq k + 1 .. n + 1
        <4> SUFFICES ASSUME NEW i \in TimelyIn(b, t)' PROVE i \in k + 1 .. n + 1
          OBVIOUS
        <4>1. i \in 1 .. n + 1 /\ Append(log, entry)[i].at >= t
          BY <2>3
        <4>2. CASE i \in 1 .. k
          <5>0. i \in 1 .. n
            BY <1>1, <4>2
          <5>1. log[i] \in [at : Nat, newest : Nat]
            BY <1>1, <5>0, ElementOfSeq
          <5>2. log[i].at \in Nat /\ log[i].at >= t
            BY <2>2, <4>1, <5>0, <5>1
          <5>3. log[i].at + RateWindow <= newest
            BY <1>3, <4>2
          <5> QED BY <1>1, <2>4, <5>2, <5>3
        <4> QED BY <1>1, <4>1, <4>2
      <3>2. /\ IsFiniteSet(k + 1 .. n + 1)
            /\ Cardinality(k + 1 .. n + 1) = (n + 1) - (k + 1) + 1
        <4>1. k + 1 \in Int /\ n + 1 \in Int /\ k + 1 <= n + 1
          BY <1>1
        <4> QED BY <4>1, FS_Interval
      <3>3. /\ Cardinality(TimelyIn(b, t)') <= Cardinality(k + 1 .. n + 1)
            /\ IsFiniteSet(TimelyIn(b, t)')
        BY <3>1, <3>2, FS_Subset
      <3>4. Cardinality(TimelyIn(b, t)') \in Nat
        BY <3>3, FS_CardinalityType
      <3> QED BY <1>1, <1>3, <2>1, <3>2, <3>3, <3>4
    <2>5. CASE ~(now >= t /\ newest < t + RateWindow)
      <3>1. n + 1 \notin TimelyIn(b, t)'
        BY <1>1, <2>2, <2>3, <2>5
      <3>2. TimelyIn(b, t)' = TimelyIn(b, t)
        BY <1>1, <2>2, <2>3, <3>1
      <3> QED BY <1>5, <3>2
    <2> QED BY <2>4, <2>5
  <1>7. CASE Refuse(b, now)
    <2>1. checked'[b].admitted = log
      BY <1>7 DEF Refuse, RateTypeOK, Checked
    <2>2. TimelyIn(b, t)' = TimelyIn(b, t)
      BY <2>1 DEF TimelyIn
    <2> QED BY <1>5, <2>2
  <1> QED BY <1>6, <1>7

\* A check of one bucket keeps the invariant of all.
LEMMA WindowStep ==
    ASSUME RateTypeOK, WindowInv, NEW a \in Buckets, NEW now \in Nat,
           Admit(a, now) \/ Refuse(a, now)
    PROVE  WindowInv'
  <1> SUFFICES ASSUME NEW b \in Buckets PROVE (HoldsLast(b) /\ KeepsLimit(b))'
    BY DEF WindowInv
  <1>1. CASE b = a
    BY <1>1, HoldsLastStep, KeepsLimitStep DEF WindowInv
  <1>2. CASE b # a
    <2>1. window'[b] = window[b] /\ checked'[b] = checked[b]
      BY <1>2 DEF Admit, Refuse, RateTypeOK
    <2>2. HoldsLast(b) /\ KeepsLimit(b)
      BY DEF WindowInv
    <2>3. \A t : TimelyIn(b, t)' = TimelyIn(b, t)
      BY <2>1 DEF TimelyIn
    <2> QED BY <2>1, <2>2, <2>3 DEF HoldsLast, KeepsLimit
  <1> QED BY <1>1, <1>2

\* Of the calls stamped in a window of time, however stale their stamps are, no more are
\* admitted than the limit, but for those that a call stamped after that window overtook
\* (FixedWindowRateLimiter.check).
THEOREM WindowsAreLimited == Spec => []WindowsLimited
  <1>1. Init => WindowInv
    <2> SUFFICES ASSUME Init, NEW b \in Buckets PROVE HoldsLast(b) /\ KeepsLimit(b)
      BY DEF WindowInv
    <2>1. window[b] = << >> /\ checked[b] = [newest |-> 0, admitted |-> << >>]
      BY DEF Init, RateInit
    <2>2. \A t : TimelyIn(b, t) = {}
      BY <2>1 DEF TimelyIn
    <2>3. KeepsLimit(b)
      BY <2>2, FS_EmptySet, RateLimiterAssumption DEF KeepsLimit
    <2>4. HoldsLast(b)
      BY <2>1 DEF HoldsLast
    <2> QED BY <2>3, <2>4
  <1>2. TypeOK /\ Arrived /\ WindowInv /\ [Next]_vars => WindowInv'
    <2> SUFFICES ASSUME TypeOK, Arrived, WindowInv, [Next]_vars PROVE WindowInv'
      OBVIOUS
    <2>1. CASE UNCHANGED rateVars
      BY <2>1 DEF rateVars, WindowInv, HoldsLast, KeepsLimit, TimelyIn
    <2>2. ASSUME NEW c \in Calls, CheckRate(c) PROVE WindowInv'
      <3>1. at[c] \in Nat /\ Bucket(c) \in Buckets
        BY <2>2, RequestParts DEF CheckRate, Goto, Arrived, TypeOK
      <3>2. Admit(Bucket(c), at[c]) \/ Refuse(Bucket(c), at[c])
        BY <2>2 DEF CheckRate
      <3> QED BY <3>1, <3>2, WindowStep DEF TypeOK
    <2>3. UNCHANGED rateVars \/ \E c \in Calls : CheckRate(c)
      BY DEF Next, CallStep, Arrive, ToolEnds, ReserveKey, Replay, RefuseDuplicate,
             NeedNoApproval, AskApproval, UseApproval, RefuseApproval, StartTool, ToolReturns,
             ToolLost, ToolRaises, RecordFailure, RecordExecution, Succeed, Deny,
             ApproveOperation, RejectOperation, ReadApproval, ListApprovals, Others, Tick,
             Finished, vars
    <2> QED BY <2>1, <2>2, <2>3
  <1>3. TypeOK /\ WindowInv => WindowsLimited
    BY DEF TypeOK, RateTypeOK, Checked, WindowInv, KeepsLimit, WindowsLimited
  <1> QED BY TypeCorrect, <1>1, <1>2, <1>3, PTL DEF Spec
=============================================================================
