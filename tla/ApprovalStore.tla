--------------------------- MODULE ApprovalStore ---------------------------
(***************************************************************************)
(* The in-memory ApprovalStore of stores.py.  Every public method runs     *)
(* under one RLock, so each is one action here.  The methods take `now`    *)
(* from their caller, who read its clock before it took the lock: the      *)
(* stamp may be older than the time at which the step happens.             *)
(***************************************************************************)
EXTENDS Naturals, Sequences

CONSTANTS
    ApprovalIds,    \* what id_factory draws from; an id is drawn once
    Principals,     \* principal_id values
    Operations,     \* what approval_binding_hash fixes: tool, arguments, workflow, node
    Nobody,         \* None in approved_by and rejected_by
    NoOperation,    \* the operation of an id that has no record yet
    ApprovalTtl     \* ttl_seconds

ASSUME ApprovalStoreAssumption ==
    /\ ApprovalTtl \in Nat
    /\ Nobody \notin Principals
    /\ NoOperation \notin Operations

VARIABLES
    approvals,      \* _approvals: id -> ApprovalRecord, status "NONE" when absent
    events,         \* _events, split by approval: the statuses recorded
    audit           \* the transitions AuditLog received, split by approval

approvalVars == <<approvals, events, audit>>

ApprovalStatus == {"PENDING", "APPROVED", "REJECTED", "EXPIRED", "EXECUTED", "FAILED"}

ApprovalRecord ==
    [ status     : ApprovalStatus \cup {"NONE"},
      requester  : Principals \cup {Nobody},
      op         : Operations \cup {NoOperation},
      createdAt  : Nat,
      expiresAt  : Nat,
      approvedBy : Principals \cup {Nobody},
      approvedAt : Nat,
      rejectedBy : Principals \cup {Nobody},
      version    : Nat ]

NoRecord ==
    [ status |-> "NONE", requester |-> Nobody, op |-> NoOperation, createdAt |-> 0,
      expiresAt |-> 0, approvedBy |-> Nobody, approvedAt |-> 0, rejectedBy |-> Nobody,
      version |-> 0 ]

ApprovalStoreTypeOK ==
    /\ approvals \in [ApprovalIds -> ApprovalRecord]
    /\ events \in [ApprovalIds -> Seq(ApprovalStatus)]
    /\ audit \in [ApprovalIds -> Seq(ApprovalStatus)]

ApprovalStoreInit ==
    /\ approvals = [a \in ApprovalIds |-> NoRecord]
    /\ events = [a \in ApprovalIds |-> << >>]
    /\ audit = [a \in ApprovalIds |-> << >>]

----------------------------------------------------------------------------

\* _record_transition: the event and the audit record of one transition.
RecordTransition(a, status) ==
    /\ events' = [events EXCEPT ![a] = Append(@, status)]
    /\ audit' = [audit EXCEPT ![a] = Append(@, status)]

\* Replace the record of a, whose new status is recorded as a transition.
Store(a, record) ==
    /\ approvals' = [approvals EXCEPT ![a] = record]
    /\ RecordTransition(a, record.status)

\* The test of _expire_if_needed.
Overdue(a, now) ==
    /\ approvals[a].status = "PENDING"
    /\ now >= approvals[a].expiresAt

\* Every transition of a record sets its status and counts its version up.
Moved(record, status) == [record EXCEPT !.status = status, !.version = @ + 1]

\* get() when it expires the record it was asked for: the caller sees ExpiredApproval.
ExpireOnRead(a, now) ==
    /\ Overdue(a, now)
    /\ Store(a, Moved(approvals[a], "EXPIRED"))

\* get() returns the record.
Found(a, now) == approvals[a].status \notin {"NONE", "EXPIRED"} /\ ~Overdue(a, now)

CreateApproval(a, p, op, now) ==
    /\ approvals[a].status = "NONE"
    /\ Store(a, [NoRecord EXCEPT !.status = "PENDING", !.requester = p, !.op = op,
                                 !.createdAt = now, !.expiresAt = now + ApprovalTtl,
                                 !.version = 1])

\* approve(); on any other status than PENDING it raises ApprovalDenied.
Approve(a, approver, now) ==
    /\ Found(a, now)
    /\ approvals[a].status = "PENDING"
    /\ Store(a, [Moved(approvals[a], "APPROVED") EXCEPT !.approvedBy = approver, !.approvedAt = now])

Reject(a, rejector, now) ==
    /\ Found(a, now)
    /\ approvals[a].status = "PENDING"
    /\ Store(a, [Moved(approvals[a], "REJECTED") EXCEPT !.rejectedBy = rejector])

\* expire_pending(), called by list_approvals.
ExpirePending(now) ==
    LET overdue == {a \in ApprovalIds : Overdue(a, now)} IN
    /\ approvals' = [a \in ApprovalIds |->
                        IF a \in overdue THEN Moved(approvals[a], "EXPIRED") ELSE approvals[a]]
    /\ events' = [a \in ApprovalIds |->
                     IF a \in overdue THEN Append(events[a], "EXPIRED") ELSE events[a]]
    /\ audit' = [a \in ApprovalIds |->
                    IF a \in overdue THEN Append(audit[a], "EXPIRED") ELSE audit[a]]

\* Mutant: mark_executed does not look at the status again.
CanMarkExecutedAgain(a) == approvals[a].status \in {"APPROVED", "EXECUTED"}

\* The test of mark_executed; when it fails the call raises ApprovalDenied.
CanMarkExecuted(a) == approvals[a].status = "APPROVED"

MarkExecuted(a) ==
    /\ CanMarkExecuted(a)
    /\ Store(a, Moved(approvals[a], "EXECUTED"))

\* The test of mark_failed; when it fails the call raises ApprovalDenied.
CanMarkFailed(a) == approvals[a].status \in {"APPROVED", "PENDING"}

MarkFailed(a) ==
    /\ CanMarkFailed(a)
    /\ Store(a, Moved(approvals[a], "FAILED"))
=============================================================================
