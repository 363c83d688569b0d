-------------------------- MODULE SqlApprovalStore --------------------------
(***************************************************************************)
(* SqlAlchemyApprovalStore of persistence.py, the store of a production    *)
(* gateway, as the requests of several gateway processes use it.  No       *)
(* method locks a row: each opens one session after another, and under     *)
(* PostgreSQL's default isolation (read committed) the SELECT and the      *)
(* UPDATE of one session can have another session's commit between them.   *)
(* Sessions of different approvals never meet, so one approval is enough.  *)
(***************************************************************************)
EXTENDS Naturals, Sequences, SequencesExt

CONSTANTS
    Workers,        \* requests that reach the gateway
    Tasks,          \* what a request may want: [kind, by]
    Requester,      \* the principal that asked for the approval
    Approvers,      \* the principals authorize_approval accepts
    Nobody,         \* NULL in approved_by and rejected_by
    System,         \* the actor of an expiry
    Deadline,       \* expires_at
    MaxClock        \* bound on time

Kinds == {"approve", "reject", "execute", "read"}

ASSUME SqlStoreAssumption ==
    /\ Tasks \subseteq [kind : Kinds, by : Approvers \cup {Requester}]
    /\ \A t \in Tasks : t.kind \in {"approve", "reject"} => t.by \in Approvers \ {Requester}
    /\ Nobody \notin Approvers \cup {Requester}
    /\ Deadline \in Nat /\ MaxClock \in Nat

VARIABLES
    asked,          \* how far create() is: "no", "saved" or "over"
    row,            \* gateway_approvals: the row of the approval
    events,         \* gateway_approval_events, in the order of the commits
    audit,          \* gateway_audit_records, the transitions of the approval
    clock,          \* self.clock()
    pc,             \* the next database step of a request
    task,           \* what the request wants
    at,             \* `now`, read when the request arrived
    copy,           \* the detached ApprovalRecord it works on
    base,           \* the row as the SELECT of its current session saw it
    ran             \* what became of the tool run of a request to execute

dbVars == <<row, events, audit>>
vars == <<asked, dbVars, clock, pc, task, at, copy, base, ran>>

ApprovalStatus == {"PENDING", "APPROVED", "REJECTED", "EXPIRED", "EXECUTED", "FAILED"}
Row == [ status : ApprovalStatus \cup {"NONE"}, approvedBy : Approvers \cup {Nobody},
         rejectedBy : Approvers \cup {Nobody}, version : Nat ]

\* An event or audit record: the status, the actor, the stamp and, to tell them
\* apart, the request it belongs to.
Entry == [ status : ApprovalStatus, by : Approvers \cup {Requester, System}, at : Nat,
           from : Workers \cup {Requester} ]

Steps == {"idle", "select", "expire", "load", "run", "merge", "flush", "audit", "done", "lost"}

NoRow == [status |-> "NONE", approvedBy |-> Nobody, rejectedBy |-> Nobody, version |-> 0]

TypeOK ==
    /\ asked \in {"no", "saved", "over"}
    /\ row \in Row
    /\ events \in Seq(Entry) /\ audit \in Seq(Entry)
    /\ clock \in Nat
    /\ pc \in [Workers -> Steps]
    /\ task \in [Workers -> Tasks]
    /\ at \in [Workers -> Nat]
    /\ copy \in [Workers -> Row] /\ base \in [Workers -> Row]
    /\ ran \in [Workers -> {"no", "ok", "error"}]

Init ==
    /\ asked = "no"
    /\ row = NoRow
    /\ events = << >> /\ audit = << >>
    /\ clock = 0
    /\ pc = [w \in Workers |-> "idle"]
    /\ task \in [Workers -> Tasks]
    /\ at = [w \in Workers |-> 0]
    /\ copy = [w \in Workers |-> NoRow] /\ base = [w \in Workers |-> NoRow]
    /\ ran = [w \in Workers |-> "no"]

----------------------------------------------------------------------------

Goto(w, from, to) == pc[w] = from /\ pc' = [pc EXCEPT ![w] = to]
EntryOf(w, status, by) == [status |-> status, by |-> by, at |-> at[w], from |-> w]

Requested == [status |-> "PENDING", by |-> Requester, at |-> 0, from |-> Requester]

\* create(), at time 0: the row and its event in one session.
Create ==
    /\ asked = "no"
    /\ asked' = "saved"
    /\ row' = [NoRow EXCEPT !.status = "PENDING", !.version = 1]
    /\ events' = Append(events, Requested)
    /\ UNCHANGED <<audit, clock, pc, task, at, copy, base, ran>>

\* The audit record of create() in a second session, unless the process is lost.
AuditRequest ==
    /\ asked = "saved"
    /\ asked' = "over"
    /\ audit' = Append(audit, Requested) \/ UNCHANGED audit
    /\ UNCHANGED <<row, events, clock, pc, task, at, copy, base, ran>>

\* A request to approve, reject, execute or look at the approval arrives.
Begin(w) ==
    /\ asked # "no"
    /\ Goto(w, "idle", "select")
    /\ at' = [at EXCEPT ![w] = clock]
    /\ UNCHANGED <<asked, dbVars, clock, task, copy, base, ran>>

\* The test of _expire_if_needed and the WHERE of expire_pending.
Overdue(r, now) == r.status = "PENDING" /\ now >= Deadline

\* Reading is over once the expiry is settled; the others load the record.
AfterExpiry(w) == IF task[w].kind = "read" THEN "done" ELSE "load"

\* _expire_if_needed, and expire_pending for this row: the SELECT.  The stamp is
\* the request's own, except that mark_executed reads the clock again.
SelectForExpiry(w) ==
    LET now == IF ran[w] = "no" THEN at[w] ELSE clock IN
    /\ Goto(w, "select", IF Overdue(row, now) THEN "expire" ELSE AfterExpiry(w))
    /\ base' = [base EXCEPT ![w] = row]
    /\ at' = [at EXCEPT ![w] = now]
    /\ UNCHANGED <<asked, dbVars, clock, task, copy, ran>>

\* Mutant: the expiry is committed without its event.
ExpireUnrecorded(w) ==
    /\ Goto(w, "expire", AfterExpiry(w))
    /\ row' = [row EXCEPT !.status = "EXPIRED", !.version = base[w].version + 1]
    /\ UNCHANGED <<asked, events, audit, clock, task, at, copy, base, ran>>

\* The UPDATE and the commit: status and version, whatever the row holds by now,
\* and the event.  No audit record is written.
Expire(w) ==
    /\ Goto(w, "expire", AfterExpiry(w))
    /\ row' = [row EXCEPT !.status = "EXPIRED", !.version = base[w].version + 1]
    /\ events' = Append(events, EntryOf(w, "EXPIRED", System))
    /\ UNCHANGED <<asked, audit, clock, task, at, copy, base, ran>>

\* What a request makes of the record it loads, by the status it found: the
\* checks of _transition_pending, mark_executed and mark_failed.
Changed(w, r) ==
    LET moved(status) == [r EXCEPT !.status = status, !.version = @ + 1]
        kind == task[w].kind
    IN  CASE kind = "approve" /\ r.status = "PENDING" ->
                [moved("APPROVED") EXCEPT !.approvedBy = task[w].by]
          [] kind = "reject" /\ r.status = "PENDING" ->
                [moved("REJECTED") EXCEPT !.rejectedBy = task[w].by]
          [] kind = "execute" /\ ran[w] = "ok" /\ r.status = "APPROVED" -> moved("EXECUTED")
          [] kind = "execute" /\ ran[w] = "error" /\ r.status \in {"APPROVED", "PENDING"} ->
                moved("FAILED")
          [] OTHER -> r

\* Mutant: any status but a rejection lets a call run.
MayRunUnlessRejected(r) == r.status # "REJECTED"

\* The status check of _approval_for_request.
MayRun(r) == r.status = "APPROVED"

\* _approval_record in a session of its own, then the check of the method: the
\* request goes on with a detached copy, or is denied.
Load(w) ==
    /\ \/ /\ task[w].kind = "execute" /\ ran[w] = "no"
          /\ Goto(w, "load", IF MayRun(row) THEN "run" ELSE "done")
          /\ copy' = [copy EXCEPT ![w] = row]
       \/ /\ task[w].kind # "execute" \/ ran[w] # "no"
          /\ copy' = [copy EXCEPT ![w] = Changed(w, row)]
          /\ Goto(w, "load", IF copy'[w] = row THEN "done" ELSE "merge")
    /\ UNCHANGED <<asked, dbVars, clock, task, at, base, ran>>

\* The tool ran, and mark_executed or mark_failed is next.
RunTool(w) ==
    /\ \/ Goto(w, "run", "select") /\ ran' = [ran EXCEPT ![w] = "ok"] /\ UNCHANGED at
       \/ /\ Goto(w, "run", "load")
          /\ ran' = [ran EXCEPT ![w] = "error"]
          /\ at' = [at EXCEPT ![w] = clock]
    /\ UNCHANGED <<asked, dbVars, clock, task, copy, base>>

\* session.merge in _save_record: the SELECT of the current row.
Merge(w) ==
    /\ Goto(w, "merge", "flush")
    /\ base' = [base EXCEPT ![w] = row]
    /\ UNCHANGED <<asked, dbVars, clock, task, at, copy, ran>>

\* The UPDATE of the columns that differ from what merge saw, and the event.
Flush(w) ==
    LET col(now, seen, mine) == IF mine = seen THEN now ELSE mine
        seen == base[w]
        mine == copy[w]
    IN  /\ Goto(w, "flush", "audit")
        /\ row' = [ status     |-> col(row.status, seen.status, mine.status),
                    approvedBy |-> col(row.approvedBy, seen.approvedBy, mine.approvedBy),
                    rejectedBy |-> col(row.rejectedBy, seen.rejectedBy, mine.rejectedBy),
                    version    |-> col(row.version, seen.version, mine.version) ]
        /\ events' = Append(events, EntryOf(w, mine.status, task[w].by))
        /\ UNCHANGED <<asked, audit, clock, task, at, copy, base, ran>>

\* _audit_transition, in yet another session.
Audit(w) ==
    /\ Goto(w, "audit", "done")
    /\ audit' = Append(audit, EntryOf(w, copy[w].status, task[w].by))
    /\ UNCHANGED <<asked, row, events, clock, task, at, copy, base, ran>>

\* The process dies or its connection breaks: an open session is rolled back and
\* the rest of the request does not happen.
Lose(w) ==
    /\ pc[w] \notin {"idle", "done", "lost"}
    /\ pc' = [pc EXCEPT ![w] = "lost"]
    /\ UNCHANGED <<asked, dbVars, clock, task, at, copy, base, ran>>

Tick ==
    /\ asked # "no"
    /\ clock < MaxClock
    /\ clock' = clock + 1
    /\ UNCHANGED <<asked, dbVars, pc, task, at, copy, base, ran>>

Finished ==
    /\ \A w \in Workers : pc[w] \in {"done", "lost"}
    /\ clock = MaxClock /\ asked = "over"
    /\ UNCHANGED vars

Step(w) ==
    \/ Begin(w) \/ SelectForExpiry(w) \/ Expire(w) \/ Load(w) \/ RunTool(w)
    \/ Merge(w) \/ Flush(w) \/ Audit(w) \/ Lose(w)

Next == Create \/ AuditRequest \/ (\E w \in Workers : Step(w)) \/ Tick \/ Finished

Spec == Init /\ [][Next]_vars

----------------------------------------------------------------------------
(* what holds although the sessions interleave freely *)

\* Updates of the row may be lost, but nothing is recorded that did not happen and
\* nothing happens unrecorded: the row shows no status that no committed event
\* explains, its version never runs ahead of the events, and the audit trail holds
\* nothing that was not committed before, however requests interleave and die
\* between their sessions (_save_record and _audit_transition).
RecordsExplained ==
    /\ row.status # "NONE" => \E i \in 1 .. Len(events) : events[i].status = row.status
    /\ row.version <= Len(events)
    /\ \A i \in 1 .. Len(audit) : audit[i] \in ToSet(events)

\* A tool runs only after some authorized principal other than the requester
\* granted the approval before the deadline, in spite of everything another
\* session may have overwritten since.
RunsGranted ==
    \A w \in Workers :
        pc[w] = "run" \/ ran[w] # "no" =>
            \E i \in 1 .. Len(events) :
                /\ events[i].status = "APPROVED"
                /\ events[i].by \in Approvers \ {Requester}
                /\ events[i].at < Deadline

\* No decision is stamped at or after the deadline.
DecidedInTime ==
    \A i \in 1 .. Len(events) :
        events[i].status \in {"APPROVED", "REJECTED"} => events[i].at < Deadline

----------------------------------------------------------------------------
(* the inductive invariant behind them *)

Announced(status) == \E i \in 1 .. Len(events) : events[i].status = status

\* Nothing happens before create(), and a row never goes back to having no status.
Begun ==
    /\ asked = "no" => row.status = "NONE" /\ \A w \in Workers : pc[w] = "idle"
    /\ asked # "no" => row.status # "NONE" /\ Requested \in ToSet(events)

\* A version is never ahead of the events, in no copy anybody holds; the copy that a
\* request is about to save may be one ahead.
VersionsFollow ==
    /\ row.version <= Len(events)
    /\ \A w \in Workers : base[w].version <= Len(events) /\ copy[w].version <= Len(events) + 1

\* Every event is one that a request of its kind may write.
EventsGood ==
    \A i \in 1 .. Len(events) :
        /\ events[i].status = "APPROVED" => events[i].by \in Approvers \ {Requester}
        /\ events[i].status \in {"APPROVED", "REJECTED"} => events[i].at < Deadline

\* A tool runs for a request to execute, when an approval was announced; whoever decides
\* after the deadline finds the row expired; and the copy that is saved is the outcome
\* of the request's own kind.
RequestFits(w) ==
    /\ pc[w] = "run" \/ ran[w] # "no" => task[w].kind = "execute" /\ Announced("APPROVED")
    /\ pc[w] = "load" /\ task[w].kind \in {"approve", "reject"} /\ at[w] >= Deadline
         => row.status # "PENDING"
    /\ pc[w] \in {"merge", "flush", "audit"} =>
         /\ copy[w].status \in ApprovalStatus \ {"PENDING"}
         /\ copy[w].status = "APPROVED" => task[w].kind = "approve"
         /\ copy[w].status \in {"APPROVED", "REJECTED"} => at[w] < Deadline
    /\ pc[w] = "audit" => EntryOf(w, copy[w].status, task[w].by) \in ToSet(events)

\* What RecordsExplained says of the status and of the audit trail.
StatusAnnounced == row.status # "NONE" => Announced(row.status)
AuditCommitted == \A i \in 1 .. Len(audit) : audit[i] \in ToSet(events)

SqlInv ==
    /\ TypeOK /\ Begun /\ VersionsFollow /\ EventsGood /\ StatusAnnounced /\ AuditCommitted
    /\ \A w \in Workers : RequestFits(w)
=============================================================================
