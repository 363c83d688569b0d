------------------------- MODULE ApprovalLifecycle -------------------------
(***************************************************************************)
(* What the approval workflow promises, free of stores, clocks and calls:  *)
(* the state diagram of docs/architecture/approval-workflow.md over the    *)
(* statuses of ApprovalStatus.  An approval is requested once, decided     *)
(* once by somebody other than its requester, consumed at most once, and   *)
(* never leaves a final status.  ApprovalStore and McpGateway are shown to *)
(* implement it.                                                           *)
(***************************************************************************)
CONSTANTS
    ApprovalIds,    \* identifiers of approval records
    Principals,     \* principal_id values
    Approvers,      \* principals the authorizer lets decide approvals
    Nobody          \* the None of approved_by and rejected_by

VARIABLES
    phase,          \* approval id -> "NONE" or an ApprovalStatus
    asker,          \* approval id -> who requested it
    decider         \* approval id -> who approved or rejected it

lifecycleVars == <<phase, asker, decider>>

\* models.ApprovalStatus; "NONE" is an id no record has yet.
Statuses == {"PENDING", "APPROVED", "REJECTED", "EXPIRED", "EXECUTED", "FAILED"}

\* The statuses the diagram draws an arrow from to its end.
FinalStatuses == {"REJECTED", "EXPIRED", "EXECUTED", "FAILED"}

LifecycleInit ==
    /\ phase = [a \in ApprovalIds |-> "NONE"]
    /\ asker = [a \in ApprovalIds |-> Nobody]
    /\ decider = [a \in ApprovalIds |-> Nobody]

Request(a, p) ==
    /\ phase[a] = "NONE"
    /\ phase' = [phase EXCEPT ![a] = "PENDING"]
    /\ asker' = [asker EXCEPT ![a] = p]
    /\ UNCHANGED decider

Decide(a, p, status) ==
    /\ phase[a] = "PENDING"
    /\ p # asker[a]
    /\ phase' = [phase EXCEPT ![a] = status]
    /\ decider' = [decider EXCEPT ![a] = p]
    /\ UNCHANGED asker

Consume(a, status) ==
    /\ phase[a] = "APPROVED"
    /\ phase' = [phase EXCEPT ![a] = status]
    /\ UNCHANGED <<asker, decider>>

\* Listing the approvals expires every overdue one in a single step.
LapseMany ==
    \E overdue \in SUBSET ApprovalIds :
        /\ \A a \in overdue : phase[a] = "PENDING"
        /\ phase' = [a \in ApprovalIds |-> IF a \in overdue THEN "EXPIRED" ELSE phase[a]]
        /\ UNCHANGED <<asker, decider>>

LifecycleNext ==
    \/ \E a \in ApprovalIds, p \in Principals : Request(a, p)
    \/ \E a \in ApprovalIds, p \in Approvers, s \in {"APPROVED", "REJECTED"} : Decide(a, p, s)
    \/ \E a \in ApprovalIds, s \in {"EXECUTED", "FAILED"} : Consume(a, s)
    \/ LapseMany

LifecycleSpec == LifecycleInit /\ [][LifecycleNext]_lifecycleVars
============================================================================
